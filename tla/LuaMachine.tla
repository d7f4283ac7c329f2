----------------------------- MODULE LuaMachine -----------------------------
(***************************************************************************)
(* The machine that runs the code of LuaParser (luaV_execute of lvm.c, the *)
(* calls of ldo.c, the upvalues of lfunc.c).  m holds the stack, the calls *)
(* in progress, the upvalues, closures and tables there are, and the top   *)
(* of the stack where a number of values is open.  A step runs one         *)
(* instruction.  There are no metatables, so what needs a metamethod is an *)
(* error; numbers are integers; the cache of closures is left out.         *)
(***************************************************************************)
EXTENDS LuaCode

CONSTANT STACK    \* bound: slots of the stack

Frame(m) == Last(m.ci)
Closure(m) == m.cl[m.stack[Frame(m).func][2]]
Code(m) == Closure(m).p.code
Error(m) == [m EXCEPT !.status = "error"]

\* Registers, and operands that are registers or constants.
Reg(m, a) == m.stack[Frame(m).base + a]
SetReg(m, a, v) == [m EXCEPT !.stack[Frame(m).base + a] = v]
RKValue(m, x) == IF x < 0 THEN Closure(m).p.k[-x] ELSE Reg(m, x)
Goto(m, to) == [m EXCEPT !.ci[Len(m.ci)].pc = to]
Skip(m) == [m EXCEPT !.ci[Len(m.ci)].pc = @ + 1]


-----------------------------------------------------------------------------
(* Upvalues and closures.                                                  *)

Upval(m, u) == LET x == m.upv[u] IN IF x.open THEN m.stack[x.at] ELSE x.value
SetUpval(m, u, v) ==
    IF m.upv[u].open THEN [m EXCEPT !.stack[m.upv[u].at] = v]
    ELSE [m EXCEPT !.upv[u].value = v]

\* luaF_findupval: the open upvalue of a slot, which is there or is made.
OpenAt(m, at) == {u \in DOMAIN m.upv : m.upv[u].open /\ m.upv[u].at = at}
luaF_findupval(m, at) ==
    IF OpenAt(m, at) # {} THEN m
    ELSE [m EXCEPT !.upv = Append(@, [open |-> TRUE, at |-> at, value |-> Nil])]

\* luaF_close.
luaF_close(m, level) ==
    [m EXCEPT !.upv = [u \in DOMAIN @ |->
        IF @[u].open /\ @[u].at >= level
        THEN [open |-> FALSE, at |-> 0, value |-> m.stack[@[u].at]] ELSE @[u]]]

\* pushclosure.
pushclosure(m, p, a) ==
    LET base == Frame(m).base
        add(acc, d) == IF d.instack THEN luaF_findupval(acc, base + d.idx) ELSE acc
        n == FoldLeft(add, m, p.upvalues)
        up(d) == IF d.instack THEN Min(OpenAt(n, base + d.idx)) ELSE Closure(m).upvals[d.idx]
        cl == [p |-> p, upvals |-> [i \in DOMAIN p.upvalues |-> up(p.upvalues[i])]]
    IN  SetReg([n EXCEPT !.cl = Append(@, cl)], a, <<"function", Len(n.cl) + 1>>)

-----------------------------------------------------------------------------
(* Tables.                                                                 *)

Field(m, t, k) ==
    LET tb == m.tab[t[2]] IN IF k \in DOMAIN tb THEN tb[k] ELSE Nil

\* luaV_gettable and luaV_settable without metatables.
GetTable(m, t, k, a) == IF t[1] = "table" THEN SetReg(m, a, Field(m, t, k)) ELSE Error(m)
SetTable(m, t, k, v) ==
    IF t[1] # "table" \/ k = Nil THEN Error(m)
    ELSE [m EXCEPT !.tab[t[2]] = (k :> v) @@ @]

\* luaV_objlen; the tables of the programs have one border.
Length(m, v) ==
    IF v[1] = "string" THEN Number(Len(v[2]))
    ELSE Number(Min({n \in 0 .. Cardinality(DOMAIN m.tab[v[2]]) : Field(m, v, Number(n + 1)) = Nil}))


-----------------------------------------------------------------------------
(* Calls.                                                                  *)

\* luaD_precall and adjust_varargs: the function is at func, its arguments
\* between it and the top.
luaD_precall(m, func, nresults) ==
    LET f == m.stack[func]
        p == m.cl[f[2]].p
        n == m.top - func - 1
        base == IF p.is_vararg = 1 THEN m.top ELSE func + 1
        arg(i) == IF i < n THEN m.stack[func + 1 + i] ELSE Nil
        stack == [s \in DOMAIN m.stack |->
            IF s \in base .. base + p.numparams - 1 THEN arg(s - base)
            ELSE IF p.is_vararg = 1 /\ s \in func + 1 .. func + Min({n, p.numparams}) THEN Nil
            ELSE m.stack[s]]
        frame == [func |-> func, base |-> base, pc |-> 1, nresults |-> nresults]
    IN  IF f[1] # "function" \/ base + p.maxstacksize > STACK THEN Error(m)
        ELSE [m EXCEPT !.stack = stack, !.ci = Append(@, frame), !.top = base + p.maxstacksize]

\* luaD_poscall and moveresults: nres results from first on.
luaD_poscall(m, first, nres) ==
    LET f == Frame(m)
        wanted == IF f.nresults = LUA_MULTRET THEN nres ELSE f.nresults
        stack == [s \in DOMAIN m.stack |->
            IF s \notin f.func .. f.func + wanted - 1 THEN m.stack[s]
            ELSE IF s - f.func < nres THEN m.stack[first + s - f.func] ELSE Nil]
        back == [m EXCEPT !.stack = stack, !.ci = Front(@), !.top = f.func + wanted]
    IN  IF Len(m.ci) = 1 THEN [back EXCEPT !.status = "done"]
        ELSE IF f.nresults = LUA_MULTRET THEN back
        ELSE [back EXCEPT !.top = Frame(back).base + Closure(back).p.maxstacksize]

Return(m, i) ==
    LET f == Frame(m)
        closed == IF Closure(m).p.p # <<>> THEN luaF_close(m, f.base) ELSE m
        ra == f.base + i.A
    IN  luaD_poscall(closed, ra, IF i.B # 0 THEN i.B - 1 ELSE m.top - ra)

Call(m, i, nresults) ==
    LET ra == Frame(m).base + i.A
    IN  luaD_precall(IF i.B = 0 THEN m ELSE [m EXCEPT !.top = ra + i.B], ra, nresults)

\* OP_TAILCALL: the new frame takes the place of the calling one.
TailCall(m, i) ==
    LET c == Call(m, i, LUA_MULTRET)
        n == Frame(c)
        o == Frame(m)
        closed == IF Closure(m).p.p # <<>> THEN luaF_close(c, o.base) ELSE c
        moved == n.base + Closure(c).p.numparams - n.func     \* slots
        stack == [s \in DOMAIN c.stack |->
            IF s \in o.func .. o.func + moved - 1 THEN c.stack[s - o.func + n.func]
            ELSE c.stack[s]]
        frame == [o EXCEPT !.base = o.func + n.base - n.func, !.pc = 1]
    IN  IF c.status = "error" THEN c
        ELSE [closed EXCEPT !.stack = stack, !.ci = Append(Front(m.ci), frame),
                            !.top = o.func + c.top - n.func]

-----------------------------------------------------------------------------
(* Instructions.                                                           *)

dojump(m, i) ==
    Goto(IF i.A = 0 THEN m ELSE luaF_close(m, Frame(m).base + i.A - 1), i.B)

\* The jump that follows a test is taken, or skipped.
Test(m, taken) == IF taken THEN dojump(m, Code(m)[Frame(m).pc]) ELSE Skip(m)

Compare(m, i) ==
    LET x == RKValue(m, i.B)
        y == RKValue(m, i.C)
        less == IF i.op = "LT" THEN x[2] < y[2] ELSE x[2] <= y[2]
    IN  IF i.op = "EQ" THEN Test(m, (x = y) <=> i.A = 1)
        ELSE IF ~(IsNumber(x) /\ IsNumber(y)) THEN Error(m)
        ELSE Test(m, less <=> i.A = 1)

Arithmetic(m, i) ==
    LET x == RKValue(m, i.B)
        y == IF i.op = "UNM" THEN x ELSE RKValue(m, i.C)
    IN  IF ~(IsNumber(x) /\ IsNumber(y)) \/ (i.op \in {"IDIV", "MOD"} /\ y[2] = 0) THEN Error(m)
        ELSE SetReg(m, i.A, Number(Arith(i.op, x[2], y[2])))

ForPrep(m, i) ==
    IF \E r \in 0 .. 2 : ~IsNumber(Reg(m, i.A + r)) THEN Error(m)
    ELSE Goto(SetReg(m, i.A, Number(Reg(m, i.A)[2] - Reg(m, i.A + 2)[2])), i.B)

ForLoop(m, i) ==
    LET step == Reg(m, i.A + 2)[2]
        idx == Reg(m, i.A)[2] + step
        limit == Reg(m, i.A + 1)[2]
    IN  IF IF 0 < step THEN idx <= limit ELSE limit <= idx
        THEN Goto(SetReg(SetReg(m, i.A, Number(idx)), i.A + 3, Number(idx)), i.B) ELSE m

TForCall(m, i) ==
    LET b == Frame(m).base + i.A
        s == [m EXCEPT !.stack[b + 3] = m.stack[b], !.stack[b + 4] = m.stack[b + 1],
                       !.stack[b + 5] = m.stack[b + 2], !.top = b + 6]
    IN  luaD_precall(s, b + 3, i.C)

TForLoop(m, i) ==
    IF Reg(m, i.A + 1) = Nil THEN m
    ELSE Goto(SetReg(m, i.A, Reg(m, i.A + 1)), i.B)

SetList(m, i) ==
    LET n == IF i.B = 0 THEN m.top - (Frame(m).base + i.A) - 1 ELSE i.B
        first == (i.C - 1) * LFIELDS_PER_FLUSH
        list == [k \in {Number(first + j) : j \in 1 .. n} |-> Reg(m, i.A + k[2] - first)]
    IN  [m EXCEPT !.tab[Reg(m, i.A)[2]] = list @@ @,
                  !.top = Frame(m).base + Closure(m).p.maxstacksize]

VarArg(m, i) ==
    LET f == Frame(m)
        n == Max({0, f.base - f.func - Closure(m).p.numparams - 1})
        b == IF i.B = 0 THEN n ELSE i.B - 1
        ra == f.base + i.A
        stack == [s \in DOMAIN m.stack |->
            IF s \notin ra .. ra + b - 1 THEN m.stack[s]
            ELSE IF s - ra < n THEN m.stack[f.base - n + s - ra] ELSE Nil]
    IN  IF ra + b > STACK THEN Error(m)
        ELSE [m EXCEPT !.stack = stack, !.top = IF i.B = 0 THEN ra + n ELSE @]

Concat(m, i) ==
    LET vs == [n \in 1 .. i.C - i.B + 1 |-> Reg(m, i.B + n - 1)]
    IN  IF \E n \in DOMAIN vs : vs[n][1] \notin {"string", "number"} THEN Error(m)
        ELSE SetReg(m, i.A, String(FlattenSeq([n \in DOMAIN vs |-> Piece(vs[n])])))

LoadNil(m, i) ==
    [m EXCEPT !.stack = [s \in DOMAIN @ |->
        IF s - Frame(m).base \in i.A .. i.A + i.B THEN Nil ELSE @[s]]]

\* vmfetch and the dispatch.
Execute(m0) ==
    LET i == Code(m0)[Frame(m0).pc]
        m == Skip(m0)
        up == Closure(m0).upvals
        rb == Reg(m, i.B)
    IN  CASE i.op = "MOVE" -> SetReg(m, i.A, rb)
          [] i.op = "LOADK" -> SetReg(m, i.A, Closure(m).p.k[i.B])
          [] i.op = "LOADKX" -> SetReg(Skip(m), i.A, Closure(m).p.k[Code(m)[Frame(m).pc].A])
          [] i.op = "LOADBOOL" ->
               SetReg(IF i.C = 0 THEN m ELSE Skip(m), i.A, Bool(i.B = 1))
          [] i.op = "LOADNIL" -> LoadNil(m, i)
          [] i.op = "GETUPVAL" -> SetReg(m, i.A, Upval(m, up[i.B]))
          [] i.op = "GETTABUP" -> GetTable(m, Upval(m, up[i.B]), RKValue(m, i.C), i.A)
          [] i.op = "GETTABLE" -> GetTable(m, rb, RKValue(m, i.C), i.A)
          [] i.op = "SETTABUP" -> SetTable(m, Upval(m, up[i.A]), RKValue(m, i.B), RKValue(m, i.C))
          [] i.op = "SETUPVAL" -> SetUpval(m, up[i.B], Reg(m, i.A))
          [] i.op = "SETTABLE" -> SetTable(m, Reg(m, i.A), RKValue(m, i.B), RKValue(m, i.C))
          [] i.op = "NEWTABLE" ->
               SetReg([m EXCEPT !.tab = Append(@, <<>>)], i.A, <<"table", Len(m.tab) + 1>>)
          [] i.op = "SELF" -> GetTable(SetReg(m, i.A + 1, rb), rb, RKValue(m, i.C), i.A)
          [] i.op \in {"ADD", "SUB", "MUL", "IDIV", "MOD", "UNM"} -> Arithmetic(m, i)
          [] i.op = "NOT" -> SetReg(m, i.A, Bool(IsFalse(rb)))
          [] i.op = "LEN" ->
               IF rb[1] \in {"string", "table"} THEN SetReg(m, i.A, Length(m, rb)) ELSE Error(m)
          [] i.op = "CONCAT" -> Concat(m, i)
          [] i.op = "JMP" -> dojump(m, i)
          [] i.op \in {"EQ", "LT", "LE"} -> Compare(m, i)
          [] i.op = "TEST" -> Test(m, IsFalse(Reg(m, i.A)) <=> i.C = 0)
          [] i.op = "TESTSET" ->
               IF IsFalse(rb) <=> i.C = 0 THEN Test(SetReg(m, i.A, rb), TRUE) ELSE Skip(m)
          [] i.op = "CALL" -> Call(m, i, i.C - 1)
          [] i.op = "TAILCALL" -> TailCall(m, i)
          [] i.op = "RETURN" -> Return(m, i)
          [] i.op = "FORLOOP" -> ForLoop(m, i)
          [] i.op = "FORPREP" -> ForPrep(m, i)
          [] i.op = "TFORCALL" -> TForCall(m, i)
          [] i.op = "TFORLOOP" -> TForLoop(m, i)
          [] i.op = "SETLIST" -> SetList(m, i)
          [] i.op = "CLOSURE" -> pushclosure(m, Closure(m).p.p[i.B], i.A)
          [] i.op = "VARARG" -> VarArg(m, i)

\* A chunk is called with arguments; its upvalue is the table of globals.
Start(p, args) ==
    LET first == [p |-> p, upvals |-> <<1>>]
        m == [stack |-> [s \in 0 .. STACK |->
                           IF s = 0 THEN <<"function", 1>>
                           ELSE IF s <= Len(args) THEN args[s] ELSE Nil],
              ci |-> <<>>, cl |-> <<first>>, tab |-> << <<>> >>,
              upv |-> <<[open |-> FALSE, at |-> 0, value |-> <<"table", 1>>]>>,
              top |-> Len(args) + 1, status |-> "run"]
    IN  luaD_precall(m, 0, LUA_MULTRET)
=============================================================================
