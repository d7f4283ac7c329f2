---------------------------- MODULE LuaCompiler ----------------------------
(***************************************************************************)
(* A chunk on its way through the interpreter: its text is parsed and      *)
(* compiled in one pass (luaY_parser), and the machine then runs the code  *)
(* one instruction at a time, until the chunk returns or raises an error.  *)
(***************************************************************************)
EXTENDS LuaParser, LuaMachine, LuaLanguage

CONSTANTS Chunks,          \* pairs of a program and the arguments it is called with
          INSTRUCTIONS     \* bound: instructions of an execution

IsCall(c) == c \in [lib : {"compiler"}, chunk : Chunks]

\* luaV_execute: instruction after instruction, as long as the chunk runs.
RECURSIVE luaV_execute(_, _)
luaV_execute(m, fuel) ==
    IF m.status # "run" THEN m
    ELSE IF fuel = 0 THEN [m EXCEPT !.status = "endless"]
    ELSE luaV_execute(Execute(m), fuel - 1)

\* f_parser and the call of what it leaves on the stack.
Run(c, args) ==
    IF ~c.ok THEN [status |-> "refused"]
    ELSE IF ~c.asserted THEN [status |-> "assertion"]
    ELSE luaV_execute(Start(c.proto, args), INSTRUCTIONS)

-----------------------------------------------------------------------------
\* Functions and tables are compared by their type only.
Seen(v) == IF v[1] \in {"function", "table"} THEN v[1] ELSE v
Returned(m) == [i \in 1 .. m.top |-> Seen(m.stack[i - 1])]

Agrees(m, meaning) ==
    /\ m.status = meaning.status
    /\ m.status = "done" =>
         Returned(m) = [i \in DOMAIN meaning.values |-> Seen(meaning.values[i])]

(***************************************************************************)
(* What the code computes is what the chunk means: a chunk is refused      *)
(* exactly when the rules for goto and break refuse it, it ends with an    *)
(* error exactly when its meaning is one, and it returns the same values,  *)
(* whatever registers, jumps, constants and upvalues the single pass of    *)
(* the compiler chose; and the order in which the generator frees its      *)
(* registers is the one it asserts (lcode.c:389).                          *)
(***************************************************************************)
ComputesMeaning(chunk) ==
    Agrees(Run(luaY_parser(BlockText(chunk[1])), chunk[2]), Meaning(chunk[1], chunk[2]))
=============================================================================
