---------------------------- MODULE MCInterpreter ----------------------------
(***************************************************************************)
(* Small instances, side by side, of the parts of the Lua interpreter that *)
(* are modelled: tables, the garbage collector, the compiler with the      *)
(* machine, coroutines and errors, pattern matching, sorting, and          *)
(* functions whose result depends on their arguments only.  part says      *)
(* which one a behaviour is of; the variables of the others stay as they   *)
(* are at the start.                                                       *)
(***************************************************************************)
EXTENDS Integers, Sequences, SequencesExt, FiniteSets, TLC, LuaGC

CONSTANTS IntKeys, ShortStrings, Objects, Events, Values, NoValue, Ended, MAX_INT,
          mt, tbl, clo, str, wk,        \* places of objects
          MAXINDEXRK, MAXARG_Bx, MAXREGS, LFIELDS_PER_FLUSH, STACK, MAXSTEPS, INSTRUCTIONS,
          Threads, main, LUAI_MAXCCALLS, MaxInfos, ResumesNormal,
          MAXCCALLS, LUA_MAXCAPTURES,
          MaxN, RANLIMIT, IMBALANCE, MaxRnd,
          WIDTH, MANT_DIG, INT_MAX, LUAI_MAXSTACK, MaxLen,
          NB, SZINT, MAXINTSIZE, MAXSIZE, little,
          BYTE, PieceSizes,
          BASE, None

VARIABLES part,
    t, map, key, given, answer,
    th, cstk, told,
    op, subject, pattern, src, lastmatch, n, out, found, status,
    order, was, a, lo, up, rnd, p, i, j, pend, at,
    call, done

tableVars == <<t, map, key, given, answer>>
coroutineVars == <<th, cstk, told>>
patternVars == <<op, subject, pattern, src, lastmatch, n, out, found, status>>
sortVars == <<order, was, a, lo, up, rnd, p, i, j, pend, at>>
callVars == <<call, done>>

-----------------------------------------------------------------------------
(* Tables, objects, programs and arrays.                                   *)

\* Where strings and objects have their main position.
Hash == [x \in ShortStrings \cup Objects |-> IF x \in ShortStrings THEN 0 ELSE 3]

KindOf == (mt :> "thread") @@ (tbl :> "table") @@ (clo :> "closure") @@ (str :> "string") @@ (wk :> "weak")

Programs == INSTANCE LuaPrograms
Chunks ==
    Programs!Conditions({"until"})
        \cup Programs!Loops({"while", "repeat", "for", "in", "goto"}, 2)
        \cup Programs!Loops({"repeat"}, 3)
        \cup Programs!Assignments({2}) \cup Programs!Calls \cup Programs!Sums

Arrays == SeqOf(1 .. 3, 5) \cup {<<3, 1, 2, 1, 3, 2>>, <<2, 2, 2, 2, 2, 2>>, <<6, 5, 4, 3, 2, 1>>}

-----------------------------------------------------------------------------
(* Patterns: one or two items after each other, and a few more around      *)
(* captures, on short subjects.                                            *)

Order == <<"1", "2", "a", "b">>
Subjects == {<<>>, <<"b">>, <<"a", "b">>, <<"a", "a", "b">>, <<"1", "a", "b", "2">>, <<"a", "a", "1", "a">>}

char(c) == <<"char", c>>
one(set, repeated) == <<"one", set, repeated>>
Ones == {one(char("a"), "*"), one(char("b"), "?"), one(<<"any">>, "-"),
         one(<<"set", TRUE, <<<<"range", "2", "a">>>>>>, "*"), one(<<"class", "a">>, ""),
         one(<<"set", FALSE, <<<<"class", "D">>, char("1")>>>>, "+")}
Others == {<<"(">>, <<")">>, <<"()">>, <<"%", 1>>, <<"%b", "a", "b">>,
           <<"%f", <<"set", FALSE, <<char("b")>>>>>>, <<"$">>}
Number(q, k, x) == Cardinality({l \in 1 .. k : q[l] = x})
WellFormed(q) ==
    /\ Number(q, Len(q), <<"(">>) = Number(q, Len(q), <<")">>)
    /\ \A k \in DOMAIN q :
        /\ Number(q, k, <<"(">>) >= Number(q, k, <<")">>)
        /\ q[k] = <<"%", 1>> => /\ \E l \in 1 .. k : q[l] \in {<<")">>, <<"()">>}
                                /\ Number(q, k, <<"(">>) = Number(q, k, <<")">>)
        /\ q[k] = <<"$">> => k = Len(q)
        /\ q[k] = <<"(">> => q[k + 1] # <<")">>
Short == {q \in SeqOf(Ones \cup Others, 2) : WellFormed(q)}
Longer == {<<<<"(">>, x, <<")">>, y>> : x \in Ones, y \in Ones \cup {<<"%", 1>>, <<"$">>}}
            \cup {<<<<"(">>, x, y, <<")">>, <<"%", 1>>>> : x, y \in Ones}
            \cup {<<x, <<"(">>, y, <<"()">>, <<")">>, z>> :
                    x, y \in Ones, z \in {<<"%", 1>>, <<"$">>}}
Patterns == (BOOLEAN \X {q \in Short : Len(q) < 2}) \cup ({FALSE} \X (Short \cup Longer))

capture(k) == <<"capture", k>>
Operation(kind, repl, max) == [kind |-> kind, repl |-> repl, max |-> max]
Operations == {Operation("find", <<>>, 9), Operation("gmatch", <<>>, 9), Operation("gsub", <<>>, 9),
               Operation("gsub", <<capture(0), char("2"), capture(1)>>, 9),
               Operation("gsub", <<capture(2)>>, 1)}

-----------------------------------------------------------------------------
(* Arguments of library functions: numerals, strings of character codes,   *)
(* formats, bytes, functions to dump, files, code points and sources.      *)

Numerals == SeqOf({" ", "-", "1", "9", "x", "n"}, 2)
    \cup {<<d>> \o s : d \in {"-", "3", "1"}, s \in SeqOf({"0", "2", "9", "x", "f"}, 3)}
Codes == SeqOf(0 .. 2, 3)

Option(k, size) == [k |-> k, n |-> size]
Settings == {Option(k, 0) : k \in {"<", ">", "x"}} \cup {Option("!", size) : size \in {1, 4, 5}}
Items == {Option("i", 1), Option("I", 2), Option("i", 4), Option("I", 3), Option("c", 2),
          Option("s", 1), Option("z", 0), Option("f", 2), Option("i", 5)}
Formats == {<<x>> : x \in Items} \cup {<<x, y, z>> : x, y \in Settings, z \in Items}
    \cup {<<x, y, Option("X", 0), z>> : x \in Settings, y, z \in Items}
Datas == SeqOf({0, 1, 3}, 4)

Text(size) == [k \in 1 .. size |-> 1 + (k % 6)]
TValue(type, value) == [t |-> type, v |-> value]
Upvalue(instack, idx, name) == [instack |-> instack, idx |-> idx, name |-> name]
Proto(source, ks, upvalues, ps) ==
    [source |-> source, linedefined |-> 9, lastlinedefined |-> 20, numparams |-> 2,
     is_vararg |-> 1, maxstacksize |-> 5, code |-> <<63, 8, 0>>, k |-> ks, upvalues |-> upvalues,
     p |-> ps, lineinfo |-> <<9, 10, 20>>,
     locvars |-> <<[varname |-> Text(2), startpc |-> 1, endpc |-> 3]>>]
Inner(source) == Proto(source, <<TValue(3, <<12>>)>>, <<>>, <<>>)
NoString == <<0>>
Functions ==
    { Proto(Text(5), <<TValue(0, <<>>), TValue(1, <<1>>), TValue(4, Text(6)), TValue(4, Text(7)),
                       TValue(4, <<>>), TValue(2, <<33>>)>>,
            <<Upvalue(1, 0, Text(3))>>, <<Inner(Text(5)), Inner(Text(4))>>),
      Proto(NoString, <<>>, <<Upvalue(0, 1, Text(5)), Upvalue(1, 2, Text(1))>>, <<>>) }

Mark == <<"b1", "b2", "b3">>    \* the byte order mark of UTF-8
Files == SeqOf({"#", "\n", "x", "ESC"}, 4)
    \cup {Mark \o s : s \in SeqOf({"#", "\n", "x", "b1"}, 3)}
    \cup {SubSeq(Mark, 1, k) \o s : k \in 1 .. 2, s \in {<<>>, <<"x">>, <<"x", "#", "\n">>, <<"b1", "x">>}}

\* Code points at the limits of the encodings, and bytes of every kind.
Limits == {-1, 0, 65, 127, 128, 2047, 2048, 65535, 65536, 1114111, 1114112}
Encoded == SeqOf({65, 127, 128, 143, 144, 159, 160, 191, 192, 193, 194, 224, 240, 244, 248, 255}, 3)
    \cup {<<lead, x, y, z>> : lead \in {224, 240, 244, 245, 247, 248}, x, y, z \in {65, 128, 143, 144, 191}}
Counted == SeqOf({65, 128, 194, 224, 160}, 3)
    \cup {<<65, 194, 128, 65>>, <<224, 160, 128, 65>>, <<194, 128, 194, 128>>}

\* Sources made of pieces: brackets and lines, strings, numerals, and other tokens.
Joined(pieces, size) ==
    LET text(q) == FoldLeft(LAMBDA x, y : x \o y, "", q)
    IN  {[k \in 1 .. Len(s) |-> SubSeq(s, k, k)] : s \in {text(q) : q \in SeqOf(pieces, size)}}
Quoted == {<<"\"">> \o s \o <<"\"">> :
              s \in Joined({"\"", "'", "\\", "x4", "u{", "1F}", "z", " ", "\n", "12", "n"}, 3)}
Cuts == Joined({"--", "[", "[=[", "]", "]=]", "\n", "\r", "x"}, 4) \cup Quoted
    \cup Joined({"0", "x", "1", ".", "e", "p", "-", "f"}, 4)
    \cup Joined({"<", "=", ">", "~", ":", "/", "-", ".", "if", "x1", "1"}, 3)

-----------------------------------------------------------------------------
(* Scripts that write an array of bytes, and that read one.                *)

Given(int, float, double, text) == [i |-> int, f |-> float, d |-> double, s |-> text]
NilGiven == Given(None, None, None, None)
Given300 == Given(300, <<0, 1, 2, 1>>, <<0, 0, 0, 0, 3, 2, 1, 1>>, <<3, 0, 0>>)
GivenHalf == Given(None, <<0, 0, 3, 3>>, <<0, 0, 0, 0, 0, 1, 3, 3>>, <<0, 2, 1>>)
GivenInt(x) == Given(x, <<0, 0, 0, 1>>, <<0, 0, 0, 0, 0, 0, 0, 1>>, <<1>>)
GivenText(s) == Given(None, None, None, s)

Line(what, value) == [op |-> what, value |-> value, onArray |-> TRUE]
Lines == {Line(w, v) : w \in {"int8", "int16", "int32", "int64"}, v \in {Given300, GivenInt(-2), GivenInt(127)}}
    \cup {Line(w, v) : w \in {"float", "double"}, v \in {Given300, GivenHalf}}
    \cup {Line("string", v) : v \in {Given300, GivenText(<<1, 1, 2>>), GivenText(<<>>)}}
    \cup {Line("int8", GivenHalf), Line("double", GivenText(<<2>>)), Line("string", NilGiven),
          Line("reset_data", NilGiven), [Line("int8", Given300) EXCEPT !.onArray = FALSE]}
ToParse == {<<Line("int32", Given300), Line("int32", x), Line("string", y)>> :
               x \in {GivenInt(-2), GivenInt(127)}, y \in {GivenText(<<1, 1, 2>>), GivenText(<<>>)}}
WriteScripts == SeqOf(Lines, 2) \cup ToParse

-----------------------------------------------------------------------------
ASSUME CollectorAssumption
Tables == INSTANCE LuaTable WITH Strings <- ShortStrings, Nil <- NoValue
Code == INSTANCE LuaCompiler
Coroutine == INSTANCE LuaCoroutine
Matching == INSTANCE LuaPattern
Sorting == INSTANCE LuaSort
Numbers == INSTANCE LuaNumbers WITH Texts <- Numerals, Strings <- Codes
Array == INSTANCE LuaTableLib
Bytes == INSTANCE LuaStrings
Chunk == INSTANCE LuaChunk WITH Texts <- Files
Data == INSTANCE ScriptData
Utf8 == INSTANCE LuaUtf8 WITH Points <- Limits, Codings <- Encoded, Utf8Strings <- Counted
Lexer == INSTANCE LuaLexer WITH Sources <- Cuts, Peeks <- {{}, {1, 3}}

\* A writer's script with a reader's: of the types written and more; of any types; and
\* one of the parsers.
FieldTypes(script) == LET fields == Data!Fields(script) IN [k \in DOMAIN fields |-> fields[k].op]
IsDataCall(c) ==
    \E script \in WriteScripts, big, toBig \in BOOLEAN :
        \/ \E more \in Data!Types :
               c = [lib |-> "data", script |-> script, big |-> big, toBig |-> toBig,
                    reads |-> FieldTypes(script) \o <<more, "reset_data">> \o FieldTypes(script)]
        \/ /\ ~big /\ ~toBig
           /\ \E reads \in SeqOf(Data!Types, 2)
                             \cup {Data!Parse2s001, Data!Parse2s10000, <<"int8", "release_data", "int8">>} :
                  c = [lib |-> "data", script |-> script, big |-> big, toBig |-> toBig, reads |-> reads]

\* The places of objects the collector is looked at with.
Places(which) == IF which = "weak" THEN {mt, clo, wk} ELSE {mt, tbl, str}

Init ==
    /\ part \in {"table", "weak", "strings", "coroutine", "pattern", "sort", "call"}
    /\ Tables!Init /\ Coroutine!Init
    /\ CollectorInit
    /\ IF part = "pattern" THEN Matching!Init
       ELSE /\ op = <<>> /\ subject = <<>> /\ pattern = <<>> /\ src = 0 /\ lastmatch = 0
            /\ n = 0 /\ out = <<>> /\ found = <<>> /\ status = "done"
    /\ IF part = "sort" THEN Sorting!Init
       ELSE /\ order = "less" /\ was = <<>> /\ a = <<>> /\ lo = 0 /\ up = 0 /\ rnd = 0
            /\ p = 0 /\ i = 0 /\ j = 0 /\ pend = <<>> /\ at = "idle"
    /\ IF part = "call"
       THEN \/ Numbers!IsCall(call) \/ call \in Array!Calls \/ Bytes!IsCall(call)
            \/ Chunk!IsCall(call) \/ Code!IsCall(call) \/ IsDataCall(call)
            \/ Utf8!IsCall(call) \/ Lexer!IsCall(call)
       ELSE call = <<>>
    /\ done = FALSE

Next ==
    \/ /\ part = "table" /\ Tables!Next
       /\ UNCHANGED <<part, gcVars, coroutineVars, patternVars, sortVars, callVars>>
    \/ /\ part \in {"weak", "strings"} /\ CollectorNext
       /\ alloc' \subseteq Places(part)
       /\ UNCHANGED <<part, tableVars, coroutineVars, patternVars, sortVars, callVars>>
    \/ /\ part = "coroutine" /\ Coroutine!Next
       /\ UNCHANGED <<part, tableVars, gcVars, patternVars, sortVars, callVars>>
    \/ /\ part = "pattern" /\ Matching!Next
       /\ UNCHANGED <<part, tableVars, gcVars, coroutineVars, sortVars, callVars>>
    \/ /\ part = "sort" /\ Sorting!Next
       /\ UNCHANGED <<part, tableVars, gcVars, coroutineVars, patternVars, callVars>>
    \/ /\ part = "call" /\ ~done
       /\ done' = TRUE
       /\ UNCHANGED <<part, call, tableVars, gcVars, coroutineVars, patternVars, sortVars>>

vars == <<part, tableVars, gcVars, coroutineVars, patternVars, sortVars, callVars>>
Spec == Init /\ [][Next]_vars

-----------------------------------------------------------------------------
\* Module LuaTable: a table is a map, whatever its array and node parts look like.
ImplementsTableMap == Tables!ImplementsTableMap

\* Module LuaCoroutine: coroutines, protected calls and errors keep their promises.
ImplementsCoroutines == Coroutine!ImplementsCoroutines

\* Module LuaCompiler: the machine computes from the code what the chunk means.
CodeComputesMeaning ==
    [][part = "call" /\ call.lib = "compiler" => Code!ComputesMeaning(call.chunk)]_vars

\* The functions of the library give what the manual says of them: patterns are matched
\* (LuaPattern), tables sorted (LuaSort) and changed (LuaTableLib), numbers converted and
\* compared (LuaNumbers), values packed and unpacked (LuaStrings), characters encoded and
\* found (LuaUtf8), functions and files loaded as they were written (LuaChunk), sources cut
\* into the tokens they consist of (LuaLexer), and a message's fields read as they were
\* written (ScriptData).
LibraryComputesMeaning ==
    /\ []( /\ part = "pattern" => Matching!FindsMeaning
           /\ part = "sort" => Sorting!SortsWhatIsThere )
    /\ [][ part = "call" =>
            CASE call.lib = "numbers" -> Numbers!Result(call) = Numbers!Meaning(call)
              [] call.lib = "table" -> Array!IsMeant(call, Array!Result(call))
              [] call.lib = "string" -> Bytes!IsMeant(call, Bytes!Result(call))
              [] call.lib = "chunk" -> Chunk!IsMeant(call, Chunk!Result(call))
              [] call.lib = "utf8" -> Utf8!IsMeant(call, Utf8!Result(call))
              [] call.lib = "lexer" -> Lexer!IsMeant(call, Lexer!Result(call))
              [] call.lib = "data" -> Data!IsMeant(call, Data!Result(call))
              [] OTHER -> TRUE ]_vars
=============================================================================
