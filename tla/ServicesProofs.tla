--------------------------- MODULE ServicesProofs ---------------------------
(***************************************************************************)
(* That a work thread handles a message as the script in use registered,   *)
(* for any scripts, any number of runs of them and errors at any line;     *)
(* that a list of a directory has what was in it, for any directory and    *)
(* any changes other processes make to it meanwhile; and that a load of    *)
(* the configuration leaves what its files say, for any files, however     *)
(* they include each other.                                                *)
(***************************************************************************)
EXTENDS LuaHandler, FileTools, Environment, SequenceLemmas

Funcs == {r.func : r \in Lines}

\* What a line of a script registers of a kind for p.
Registering(form, p) ==
    [r \in Lines |-> IF r.kind = form /\ r.proto = p THEN <<r.func>> ELSE <<>>]

\* What the lines of the script that a state has run register of a kind for p.
Done(st) == SubSeq(st.script, 1, st.line)
Of(st, form, p) == FlattenSeq(Each(Registering(form, p), Done(st)))

States == [script : Seq(Lines), line : Nat, main : BOOLEAN,
           handle : [Protos -> Seq(Funcs)], parse : [Protos -> Funcs \cup {NoParse}]]

\* The two tables of a state are what the lines run so far made of empty ones.
AsRun(st) ==
    /\ st \in States
    /\ st.line <= Len(st.script)
    /\ \A p \in Protos :
         /\ st.handle[p] = Of(st, "handle", p)
         /\ st.parse[p] = IF Of(st, "parse", p) = <<>> THEN NoParse ELSE Last(Of(st, "parse", p))

\* Where the thread is with a message, and what that says of its array.
AtMessage ==
    /\ step \in {"start", "first", "again", "loop", "main", "release", "destroy", "handle", "end"}
    /\ proto \in Protos /\ ran \in Seq(Funcs)
    /\ step \in {"release", "destroy", "handle"} => data = lua.parse[proto] /\ data # NoParse
    /\ step = "handle" => Len(ran) <= Len(lua.handle[proto]) /\ ran = SubSeq(lua.handle[proto], 1, Len(ran))
    /\ step \in {"main", "release", "destroy"} => ran = <<>>
    /\ step = "main" => array = "filled" /\ data = NoParse
    /\ step = "handle" => array = "destroyed"
    /\ step = "end" => \/ array = "destroyed" /\ data # NoParse
                       \/ array = "filled" /\ data = NoParse /\ ran = <<>>

InvHandler == AsRun(lua) /\ AsRun(tmpLua) /\ AtMessage

-----------------------------------------------------------------------------
(* What a script registers.                                                *)

LEMMA RegisteringType ==
    ASSUME NEW form, NEW p
    PROVE  Registering(form, p) \in Stands(Lines, Funcs)
<1>1. ASSUME NEW r \in Lines
      PROVE  (IF r.kind = form /\ r.proto = p THEN <<r.func>> ELSE <<>>) \in Seq(Funcs)
  <2>1. r.func \in Funcs
    BY DEF Funcs
  <2> QED
    BY <2>1
<1> QED
  BY <1>1 DEF Registering, Stands

LEMMA OfType ==
    ASSUME NEW st \in States, st.line <= Len(st.script), NEW form, NEW p
    PROVE  Done(st) \in Seq(Lines) /\ Of(st, form, p) \in Seq(Funcs)
<1>1. st.script \in Seq(Lines) /\ st.line \in 0 .. Len(st.script)
  BY DEF States
<1>2. Done(st) \in Seq(Lines)
  BY <1>1, CutAnywhere DEF Done
<1> DEFINE g == Registering(form, p)
           d == Done(st)
<1>3. g \in Stands(Lines, Funcs) /\ d \in Seq(Lines)
  BY <1>2, RegisteringType
<1> HIDE DEF g, d
<1>4. FlattenSeq(Each(g, d)) \in Seq(Funcs)
  BY <1>3, EachType
<1> QED
  BY <1>2, <1>4 DEF Of, g, d

\* Registered of the model is what the state in use has run.
LEMMA RegisteredIsOf ==
    ASSUME AsRun(lua), NEW form, NEW p
    PROVE  Registered(form, p) = Of(lua, form, p)
<1>1. Done(lua) \in Seq(Lines)
  BY OfType DEF AsRun
<1>2. \A i \in DOMAIN Done(lua) :
        Registering(form, p)[Done(lua)[i]] = IF Done(lua)[i].kind = form /\ Done(lua)[i].proto = p
                                             THEN <<Done(lua)[i].func>> ELSE <<>>
  BY <1>1 DEF Registering
<1>3. Each(Registering(form, p), Done(lua))
        = [i \in DOMAIN Done(lua) |-> IF Done(lua)[i].kind = form /\ Done(lua)[i].proto = p
                                      THEN <<Done(lua)[i].func>> ELSE <<>>]
  BY <1>2 DEF Each
<1> QED
  BY <1>3 DEF Registered, Of, Done

\* A new state has empty tables, whatever its script.
LEMMA EmptyAsRun ==
    ASSUME NEW st \in States, st.line = 0,
           st.handle = [p \in Protos |-> <<>>], st.parse = [p \in Protos |-> NoParse]
    PROVE  AsRun(st)
<1>1. st.script \in Seq(Lines)
  BY DEF States
<1>3. Done(st) = <<>>
  BY <1>1 DEF Done
<1>4. \A form, p : Of(st, form, p) = <<>>
  BY <1>3, EachEmpty DEF Of
<1>5. st.line <= Len(st.script)
  BY <1>1
<1> QED
  BY <1>4, <1>5 DEF AsRun

LEMMA NewStateAsRun ==
    /\ AsRun(NewState)
    /\ \A s \in Seq(Lines) : AsRun([NewState EXCEPT !.script = s])
<1>1. [p \in Protos |-> <<>>] \in [Protos -> Seq(Funcs)] /\ <<>> \in Seq(Lines)
  OBVIOUS
<1>2. AsRun(NewState)
  <2>1. /\ NewState.line = 0 /\ NewState.handle = [p \in Protos |-> <<>>]
        /\ NewState.parse = [p \in Protos |-> NoParse]
    BY DEF NewState
  <2>2. NewState \in States
    BY <1>1 DEF NewState, States
  <2> QED
    BY <2>1, <2>2, EmptyAsRun
<1>3. ASSUME NEW s \in Seq(Lines) PROVE AsRun([NewState EXCEPT !.script = s])
  <2> DEFINE st == [NewState EXCEPT !.script = s]
  <2>1. st.line = 0 /\ st.handle = [p \in Protos |-> <<>>] /\ st.parse = [p \in Protos |-> NoParse]
    BY DEF NewState
  <2>2. st \in States
    BY <1>1 DEF NewState, States
  <2> HIDE DEF st
  <2>3. AsRun(st)
    BY <2>1, <2>2, EmptyAsRun
  <2> QED
    BY <2>3 DEF st
<1> QED
  BY <1>2, <1>3

\* One line more: what it registers comes last.
LEMMA OfNext ==
    ASSUME NEW st \in States, NEW su \in States, st.line < Len(st.script),
           su.script = st.script, su.line = st.line + 1, NEW form, NEW p
    PROVE  LET r == st.script[st.line + 1] IN
           /\ r \in Lines
           /\ Of(su, form, p) = IF r.kind = form /\ r.proto = p THEN Append(Of(st, form, p), r.func)
                                ELSE Of(st, form, p)
<1> DEFINE r == st.script[st.line + 1]
           g == Registering(form, p)
           d == Done(st)
<1>1. st.script \in Seq(Lines) /\ st.line \in 0 .. Len(st.script) /\ st.line <= Len(st.script)
  BY DEF States
<1>2. r \in Lines
  BY <1>1
<1>3. Done(su) = Append(d, r)
  <2> DEFINE s == st.script
             n == st.line
  <2>1. s \in Seq(Lines) /\ n \in 0 .. Len(s) /\ n < Len(s)
    BY <1>1
  <2>2. SubSeq(s, 1, n + 1) = Append(SubSeq(s, 1, n), s[n + 1])
    <3> HIDE DEF s, n
    <3> QED
      BY <2>1, OneMore
  <2> QED
    BY <2>2 DEF Done
<1>4. d \in Seq(Lines) /\ g \in Stands(Lines, Funcs) /\ Of(st, form, p) \in Seq(Funcs)
  BY <1>1, OfType, RegisteringType
<1>5. Of(st, form, p) = FlattenSeq(Each(g, d)) /\ Of(su, form, p) = FlattenSeq(Each(g, Append(d, r)))
  BY <1>3 DEF Of
<1>6. g[r] = IF r.kind = form /\ r.proto = p THEN <<r.func>> ELSE <<>>
  BY <1>2 DEF Registering
<1> HIDE DEF r, g, d
<1>7. Of(su, form, p) = Of(st, form, p) \o g[r]
  <2>1. FlattenSeq(Each(g, Append(d, r))) = FlattenSeq(Each(g, d)) \o g[r]
    BY <1>2, <1>4, EachAppend
  <2> QED
    BY <1>5, <2>1
<1> DEFINE o == Of(st, form, p)
<1>8. o \o <<>> = o /\ \A x : o \o <<x>> = Append(o, x)
  <2>1. o \in Seq(Funcs)
    BY <1>4
  <2> HIDE DEF o
  <2> QED
    BY <2>1
<1> QED
  BY <1>2, <1>6, <1>7, <1>8 DEF r

\* A registration changes the one table and the one entry of it that its line is of.
LEMMA RegisterAsRun ==
    ASSUME HandlerAssumption, Register, AsRun(tmpLua)
    PROVE  AsRun(tmpLua')
<1> DEFINE st == tmpLua
           su == tmpLua'
           r == st.script[st.line + 1]
<1>1. st \in States /\ st.line < Len(st.script) /\ st.line + 1 <= Len(st.script)
  BY DEF Register, AsRun, States
<1>0. ASSUME su \in States, su.script = st.script, su.line = st.line + 1, NEW form, NEW p
      PROVE  Of(su, form, p) = IF r.kind = form /\ r.proto = p THEN Append(Of(st, form, p), r.func)
                               ELSE Of(st, form, p)
  BY <1>0, <1>1, OfNext
<1>2. r \in Lines /\ r.kind \in {"handle", "parse"} /\ r.proto \in Protos /\ r.func # NoParse /\ r.func \in Funcs
  <2>1. r \in Lines
    BY <1>1 DEF States
  <2> QED
    BY <2>1 DEF HandlerAssumption, Funcs
<1>3. CASE r.kind = "handle"
  <2> DEFINE l == Append(st.handle[r.proto], r.func)
  <2>1. su = [st EXCEPT !.line = @ + 1, !.handle[r.proto] = Append(@, r.func)]
    BY <1>3 DEF Register
  <2>2. /\ su.script = st.script /\ su.line = st.line + 1 /\ su.main = st.main /\ su.parse = st.parse
        /\ su.handle = [st.handle EXCEPT ![r.proto] = l]
    BY <2>1, <1>1 DEF States
  <2>3. su \in States
    <3>1. l \in Seq(Funcs)
      BY <1>1, <1>2 DEF States
    <3> HIDE DEF l
    <3>2. [st.handle EXCEPT ![r.proto] = l] \in [Protos -> Seq(Funcs)]
      BY <1>1, <3>1 DEF States
    <3>3. su = [script |-> su.script, line |-> su.line, main |-> su.main, handle |-> su.handle, parse |-> su.parse]
      BY <2>1, <1>1 DEF States
    <3>4. /\ su.script \in Seq(Lines) /\ su.line \in Nat /\ su.main \in BOOLEAN
          /\ su.parse \in [Protos -> Funcs \cup {NoParse}]
      BY <1>1, <2>2 DEF States
    <3>5. su.handle \in [Protos -> Seq(Funcs)]
      BY <2>2, <3>2 DEF l
    <3> QED
      BY <3>3, <3>4, <3>5 DEF States
  <2>4. ASSUME NEW p \in Protos PROVE su.handle[p] = Of(su, "handle", p)
    <3>1. su.handle[p] = IF p = r.proto THEN l ELSE st.handle[p]
      BY <1>1, <2>2 DEF States
    <3>2. Of(su, "handle", p) = IF r.kind = "handle" /\ r.proto = p THEN Append(Of(st, "handle", p), r.func)
                                ELSE Of(st, "handle", p)
      BY <2>2, <2>3, <1>0
    <3>3. st.handle[p] = Of(st, "handle", p)
      BY DEF AsRun
    <3>4. l = Append(st.handle[r.proto], r.func)
      OBVIOUS
    <3> HIDE DEF l, r
    <3> QED
      BY <1>3, <3>1, <3>2, <3>3, <3>4
  <2>5. ASSUME NEW p \in Protos PROVE Of(su, "parse", p) = Of(st, "parse", p)
    <3>1. Of(su, "parse", p) = IF r.kind = "parse" /\ r.proto = p THEN Append(Of(st, "parse", p), r.func)
                               ELSE Of(st, "parse", p)
      BY <2>2, <2>3, <1>0
    <3> HIDE DEF r
    <3> QED
      BY <1>3, <3>1
  <2> QED
    BY <1>1, <2>2, <2>3, <2>4, <2>5 DEF AsRun
<1>4. CASE r.kind = "parse"
  <2>1. su = [st EXCEPT !.line = @ + 1, !.parse[r.proto] = r.func]
    BY <1>4 DEF Register
  <2>2. /\ su.script = st.script /\ su.line = st.line + 1 /\ su.main = st.main /\ su.handle = st.handle
        /\ su.parse = [st.parse EXCEPT ![r.proto] = r.func]
    BY <2>1, <1>1 DEF States
  <2>3. su \in States
    <3>2. [st.parse EXCEPT ![r.proto] = r.func] \in [Protos -> Funcs \cup {NoParse}]
      BY <1>1, <1>2 DEF States
    <3>3. su = [script |-> su.script, line |-> su.line, main |-> su.main, handle |-> su.handle, parse |-> su.parse]
      BY <2>1, <1>1 DEF States
    <3>4. /\ su.script \in Seq(Lines) /\ su.line \in Nat /\ su.main \in BOOLEAN
          /\ su.handle \in [Protos -> Seq(Funcs)]
      BY <1>1, <2>2 DEF States
    <3>5. su.parse \in [Protos -> Funcs \cup {NoParse}]
      BY <2>2, <3>2
    <3> QED
      BY <3>3, <3>4, <3>5 DEF States
  <2>4. ASSUME NEW p \in Protos PROVE Of(su, "handle", p) = Of(st, "handle", p)
    <3>1. Of(su, "handle", p) = IF r.kind = "handle" /\ r.proto = p THEN Append(Of(st, "handle", p), r.func)
                                ELSE Of(st, "handle", p)
      BY <2>2, <2>3, <1>0
    <3> HIDE DEF r
    <3> QED
      BY <1>4, <3>1
  <2>5. ASSUME NEW p \in Protos
        PROVE su.parse[p] = IF Of(su, "parse", p) = <<>> THEN NoParse ELSE Last(Of(su, "parse", p))
    <3>1. su.parse[p] = IF p = r.proto THEN r.func ELSE st.parse[p]
      BY <1>1, <2>2 DEF States
    <3>2. Of(su, "parse", p) = IF r.kind = "parse" /\ r.proto = p THEN Append(Of(st, "parse", p), r.func)
                               ELSE Of(st, "parse", p)
      BY <2>2, <2>3, <1>0
    <3>3. st.parse[p] = IF Of(st, "parse", p) = <<>> THEN NoParse ELSE Last(Of(st, "parse", p))
      BY DEF AsRun
    <3>4. CASE p = r.proto
      <4> DEFINE o == Of(st, "parse", p)
      <4>1. o \in Seq(Funcs)
        BY <1>1, OfType DEF AsRun
      <4> HIDE DEF o
      <4>2. Append(o, r.func) # <<>> /\ Last(Append(o, r.func)) = r.func
        BY <4>1 DEF Last
      <4> QED
        BY <1>4, <3>1, <3>2, <3>4, <4>2 DEF o
    <3>5. CASE p # r.proto
      BY <3>1, <3>2, <3>3, <3>5
    <3> QED
      BY <3>4, <3>5
  <2> QED
    BY <1>1, <2>2, <2>3, <2>4, <2>5 DEF AsRun
<1> QED
  BY <1>2, <1>3, <1>4

-----------------------------------------------------------------------------
(* The thread.                                                             *)

LEMMA HandlerInitInv == HandlerAssumption /\ HandlerInit => InvHandler
<1> SUFFICES ASSUME HandlerAssumption, HandlerInit PROVE InvHandler
  OBVIOUS
<1>3. AsRun(lua) /\ AsRun(tmpLua)
  BY NewStateAsRun DEF HandlerInit
<1>4. AtMessage
  BY DEF HandlerInit, AtMessage, HandlerAssumption
<1> QED
  BY <1>3, <1>4 DEF InvHandler

\* Scripts start in new states, and a script that fails leaves the state in use.
LEMMA LoadInv ==
    ASSUME HandlerAssumption, InvHandler, Start \/ Register \/ Loaded
    PROVE  InvHandler'
<1> USE DEF InvHandler
<1>1. CASE Start
  <2>1. PICK s \in Scripts : tmpLua' = [Fresh EXCEPT !.script = s]
    BY <1>1 DEF Start
  <2>2. s \in Seq(Lines)
    BY DEF HandlerAssumption
  <2>3. AsRun(tmpLua')
    BY <2>1, <2>2, NewStateAsRun DEF Fresh
  <2>4. AsRun(lua') /\ AtMessage'
    BY <1>1 DEF Start, AtMessage, msgVars
  <2> QED
    BY <2>3, <2>4 DEF AsRun, Of, Done
<1>2. CASE Register
  <2>1. AsRun(tmpLua')
    BY <1>2, RegisterAsRun
  <2>2. lua' = lua /\ AtMessage'
    BY <1>2 DEF Register, AtMessage, msgVars
  <2> QED
    BY <2>1, <2>2 DEF AsRun, Of, Done
<1>3. CASE Loaded
  <2> DEFINE st == [tmpLua EXCEPT !.main = TRUE]
  <2>1. tmpLua' = tmpLua /\ (lua' = st \/ lua' = tmpLua \/ lua' = lua)
    BY <1>3 DEF Loaded
  <2>2. AsRun(st)
    <3>1. tmpLua \in States
      BY DEF AsRun
    <3>2. /\ st.script = tmpLua.script /\ st.line = tmpLua.line
          /\ st.handle = tmpLua.handle /\ st.parse = tmpLua.parse /\ st \in States
      BY <3>1 DEF States
    <3> HIDE DEF st
    <3>3. \A form, p : Of(st, form, p) = Of(tmpLua, form, p)
      BY <3>2 DEF Of, Done
    <3> QED
      BY <3>2, <3>3 DEF AsRun
  <2>3. AsRun(lua')
    BY <2>1, <2>2
  <2>4. AtMessage'
    BY <1>3 DEF Loaded, AtMessage, msgVars
  <2> QED
    BY <2>1, <2>3, <2>4 DEF AsRun, Of, Done
<1> QED
  BY <1>1, <1>2, <1>3

\* A message is handled with the tables of the state in use alone.
LEMMA MessageInv ==
    ASSUME HandlerAssumption, InvHandler,
           TakeMessage \/ Parse \/ ParseFails \/ Release \/ Destroy \/ Handle \/ HandleFails \/ EndMessage
    PROVE  InvHandler'
<1> USE DEF InvHandler
<1>1. lua' = lua /\ tmpLua' = tmpLua
  BY DEF TakeMessage, Parse, ParseFails, Release, Destroy, Handle, HandleFails, EndMessage, Raise
<1>2. AtMessage'
  <2>1. CASE TakeMessage
    <3>1. <<>> \in Seq(Funcs)
      OBVIOUS
    <3> QED
      BY <2>1, <3>1 DEF TakeMessage, AtMessage
  <2>2. CASE Parse
    BY <2>2 DEF Parse, AtMessage
  <2>3. CASE ParseFails
    BY <2>3 DEF ParseFails, Raise, msgVars, AtMessage
  <2>4. CASE Release
    BY <2>4 DEF Release, AtMessage
  <2>5. CASE Destroy
    <3>1. lua.handle[proto] \in Seq(Funcs)
      BY DEF AsRun, States, AtMessage
    <3>2. Len(<<>>) <= Len(lua.handle[proto]) /\ SubSeq(lua.handle[proto], 1, Len(<<>>)) = <<>>
      BY <3>1
    <3> QED
      BY <2>5, <3>2 DEF Destroy, AtMessage
  <2>6. CASE Handle
    <3> DEFINE h == lua.handle[proto]
               n == Len(ran)
    <3>1. h \in Seq(Funcs) /\ n < Len(h) /\ ran = SubSeq(h, 1, n)
      BY <2>6 DEF AsRun, States, AtMessage, Handle
    <3>2. n \in 0 .. Len(h)
      <4>1. SubSeq(h, 1, n) \in Seq(Funcs)
        BY <3>1
      <4>2. n \in Nat
        BY <3>1, <4>1
      <4> QED
        BY <3>1, <4>2
    <3>3. SubSeq(h, 1, n + 1) = Append(ran, h[n + 1])
      <4> HIDE DEF h, n
      <4> QED
        BY <3>1, <3>2, OneMore
    <3>4. ran' = SubSeq(h, 1, n + 1) /\ Len(ran') = n + 1 /\ n + 1 <= Len(h)
      <4>1. ran' = Append(ran, h[n + 1])
        BY <2>6 DEF Handle
      <4> QED
        BY <3>1, <3>2, <3>3, <4>1
    <3>6. ran' \in Seq(Funcs)
      BY <3>1, <3>2, <3>4
    <3>5. step = "handle" /\ UNCHANGED <<lua, step, proto, data, array>>
      BY <2>6 DEF Handle
    <3> QED
      BY <3>4, <3>5, <3>6 DEF AtMessage
  <2>7. CASE HandleFails
    BY <2>7 DEF HandleFails, Raise, msgVars, AtMessage
  <2>8. CASE EndMessage
    BY <2>8 DEF EndMessage, AtMessage
  <2> QED
    BY <2>1, <2>2, <2>3, <2>4, <2>5, <2>6, <2>7, <2>8
<1> QED
  BY <1>1, <1>2 DEF AsRun, Of, Done

\* Whatever the scripts, however often they are run and wherever one fails: the
\* tables of the state in use are what its own script registered, and the thread
\* handles a message by them (gamelogic.cpp, lua-handle.cpp, lua_main).
THEOREM HandlerInvariant ==
    ASSUME HandlerAssumption
    PROVE  HandlerSpec => []InvHandler
<1>1. HandlerInit => InvHandler
  BY HandlerInitInv
<1>2. InvHandler /\ [HandlerNext]_handlerVars => InvHandler'
  <2>1. ASSUME InvHandler, HandlerNext PROVE InvHandler'
    BY <2>1, LoadInv, MessageInv DEF HandlerNext
  <2>2. ASSUME InvHandler, UNCHANGED handlerVars PROVE InvHandler'
    BY <2>2 DEF handlerVars, msgVars, InvHandler, AsRun, Of, Done, AtMessage
  <2> QED
    BY <2>1, <2>2
<1> QED
  BY <1>1, <1>2, PTL DEF HandlerSpec

\* A message is parsed by the last parser the script in use registered for its
\* proto, its handlers run in the order of their registration, none before the
\* array was destroyed.
THEOREM HandledByScript ==
    ASSUME HandlerAssumption
    PROVE  HandlerSpec => []HandledAsRegistered
<1>1. ASSUME InvHandler PROVE HandledAsRegistered
  <2> USE <1>1 DEF InvHandler
  <2>1. Registered("parse", proto) = Of(lua, "parse", proto) /\ Registered("handle", proto) = Of(lua, "handle", proto)
    BY RegisteredIsOf
  <2>2. proto \in Protos
    BY DEF AtMessage
  <2>3. ASSUME step \in {"release", "destroy", "handle"}
        PROVE  /\ Registered("parse", proto) # <<>>
               /\ data = Last(Registered("parse", proto))
               /\ IsPrefix(ran, Registered("handle", proto))
    <3>1. lua.parse[proto] = IF Of(lua, "parse", proto) = <<>> THEN NoParse ELSE Last(Of(lua, "parse", proto))
      BY <2>2 DEF AsRun
    <3>2. data = lua.parse[proto] /\ data # NoParse
      BY <2>3 DEF AtMessage
    <3> DEFINE h == lua.handle[proto]
    <3>3. h = Of(lua, "handle", proto) /\ h \in Seq(Funcs)
      BY <2>2 DEF AsRun, States
    <3>4. Len(ran) <= Len(h) /\ ran = SubSeq(h, 1, Len(ran)) /\ SubSeq(ran, 1, Len(ran)) = ran
      <4>1. SubSeq(ran, 1, Len(ran)) = ran
        BY SubSeqFull DEF AtMessage
      <4>2. step # "handle" => ran = <<>>
        BY <2>3 DEF AtMessage
      <4>3. Len(<<>>) <= Len(h) /\ <<>> = SubSeq(h, 1, Len(<<>>))
        BY <3>3
      <4> QED
        BY <4>1, <4>2, <4>3 DEF AtMessage
    <3>5. IsPrefix(ran, h)
      BY <3>4 DEF IsPrefix
    <3> QED
      BY <2>1, <3>1, <3>2, <3>3, <3>5
  <2>4. /\ step \in {"handle", "end"} /\ ran # <<>> => array = "destroyed"
        /\ step = "end" => (array # "destroyed" <=> data = NoParse)
    BY DEF AtMessage
  <2> QED
    BY <2>3, <2>4 DEF HandledAsRegistered
<1> QED
  BY <1>1, HandlerInvariant, PTL

-----------------------------------------------------------------------------
(* The file tools.                                                         *)

ListTypeOK ==
    /\ kind \in [Names -> Kinds]
    /\ call \in {"idle", "read", "stat", "push"}
    /\ want \in {{}, {"dir"}, {"file"}, {"dir", "file", "link"}}
    /\ unread \subseteq Names
    /\ list \in Seq(Names) /\ table \in Seq(Names)
    /\ were \in [Names -> SUBSET Kinds]

\* The names that are neither unread nor about to be looked at.
Seen == {n \in Names : n \notin unread /\ ~(call = "stat" /\ n = entry)}

\* The list so far: names seen, each once, of a wanted kind at some time, and those
\* that were of one throughout.
Listing ==
    /\ call \in {"read", "stat"} => \A n \in Names : kind[n] \in were[n]
    /\ call = "stat" => entry \in Names \ unread /\ were[entry] # {"absent"}
    /\ call # "idle" =>
         /\ \A i \in DOMAIN list : list[i] \in Seen
         /\ \A i, j \in DOMAIN list : list[i] = list[j] => i = j
         /\ \A i \in DOMAIN list : were[list[i]] \cap want # {}
         /\ \A n \in Seen : were[n] \subseteq want => \E i \in DOMAIN list : list[i] = n
         /\ Len(table) <= Len(list)
         /\ \A i \in DOMAIN table : table[i] = list[i]
    /\ call = "push" => unread = Names \/ \A n \in unread : "absent" \in were[n]

InvFiles == ListTypeOK /\ Listing

LEMMA FilesInitInv == FilesInit => InvFiles
  BY DEF FilesInit, InvFiles, ListTypeOK, Listing, Kinds

\* Another process changes an entry: the kinds a name had only become more.
LEMMA ChangeInv ==
    ASSUME InvFiles, NEW n \in Names, Change(n)
    PROVE  InvFiles'
<1> USE DEF InvFiles
<1>1. PICK q \in Kinds \ {kind[n]} :
        /\ kind' = [kind EXCEPT ![n] = q]
        /\ were' = IF call = "push" THEN were ELSE [were EXCEPT ![n] = @ \cup {q}]
  BY DEF Change
<1>2. UNCHANGED <<call, want, unread, entry, list, table>>
  BY DEF Change
<1>3. ListTypeOK'
  BY <1>1, <1>2 DEF ListTypeOK
<1>4. \A m \in Names : /\ were[m] \subseteq were'[m]
                       /\ call # "push" /\ kind[m] \in were[m] => kind'[m] \in were'[m]
  BY <1>1 DEF ListTypeOK
<1>5. call = "push" => were' = were
  BY <1>1
<1>6. \A i \in DOMAIN list : list[i] \in Names
  BY DEF ListTypeOK
<1>7. Seen' = Seen
  BY <1>2 DEF Seen
<1>8. call = "stat" => were'[entry] # {"absent"}
  <2> SUFFICES ASSUME call = "stat" PROVE were'[entry] # {"absent"}
    OBVIOUS
  <2>1. entry \in Names /\ kind[entry] \in were[entry] /\ were[entry] # {"absent"}
    BY DEF Listing
  <2>2. \E x \in were[entry] : x # "absent"
    BY <2>1
  <2> QED
    BY <1>4, <2>1, <2>2
<1>9. Listing'
  <2>1. call' \in {"read", "stat"} => \A m \in Names : kind'[m] \in were'[m]
    BY <1>2, <1>4 DEF Listing
  <2>2. call' = "stat" => entry' \in Names \ unread' /\ were'[entry'] # {"absent"}
    BY <1>2, <1>8 DEF Listing
  <2>3. call' # "idle" => \A i \in DOMAIN list' : were'[list'[i]] \cap want' # {}
    BY <1>2, <1>4, <1>6 DEF Listing
  <2>4. call' # "idle" =>
          \A m \in Seen' : were'[m] \subseteq want' => \E i \in DOMAIN list' : list'[i] = m
    BY <1>2, <1>4, <1>7 DEF Listing, Seen
  <2>5. call' # "idle" => \A i \in DOMAIN list' : list'[i] \in Seen'
    BY <1>2, <1>6, <1>7 DEF Listing
  <2>6. call' = "push" => unread' = Names \/ \A m \in unread' : "absent" \in were'[m]
    BY <1>2, <1>5 DEF Listing
  <2> QED
    BY <1>2, <2>1, <2>2, <2>3, <2>4, <2>5, <2>6 DEF Listing
<1> QED
  BY <1>3, <1>9

\* The list and the table are emptied, whether or not the directory can be opened.
LEMMA OpendirInv ==
    ASSUME InvFiles, fl_getdirs \/ fl_getfiles \/ fl_getdirall
    PROVE  InvFiles'
<1> USE DEF InvFiles, fl_getdirs, fl_getfiles, fl_getdirall, Opendir
<1>1. /\ want' \in {{"dir"}, {"file"}, {"dir", "file", "link"}}
      /\ list' = <<>> /\ table' = <<>> /\ call' \in {"read", "push"} /\ unread' = Names
      /\ were' = [n \in Names |-> {kind[n]}] /\ kind' = kind
  OBVIOUS
<1>2. ListTypeOK'
  <2>1. <<>> \in Seq(Names)
    OBVIOUS
  <2> QED
    BY <1>1, <2>1 DEF ListTypeOK
<1>3. Listing'
  BY <1>1 DEF Listing, Seen, ListTypeOK
<1> QED
  BY <1>2, <1>3

LEMMA ReaddirInv ==
    ASSUME InvFiles, NEW n \in Names, Readdir(n)
    PROVE  InvFiles'
<1> USE DEF InvFiles, Readdir
<1>1. ListTypeOK'
  BY DEF ListTypeOK
<1>2. Seen' = Seen
  BY DEF Seen
<1>3. \A i \in DOMAIN list : list[i] \in Names
  BY DEF ListTypeOK
<1>4. Listing'
  BY <1>2, <1>3 DEF Listing
<1> QED
  BY <1>1, <1>4

\* lstat says of what kind the entry is now, and that is one of the kinds it had.
LEMMA LstatInv ==
    ASSUME InvFiles, Lstat
    PROVE  InvFiles'
<1> USE DEF InvFiles
<1>1. /\ call = "stat" /\ call' = "read" /\ UNCHANGED <<kind, want, unread, entry, table, were>>
      /\ list' = IF Kept(entry) THEN Append(list, entry) ELSE list
  BY DEF Lstat
<1>2. /\ entry \in Names \ unread /\ were[entry] # {"absent"} /\ kind[entry] \in were[entry]
      /\ were[entry] \subseteq Kinds /\ list \in Seq(Names) /\ Len(list) \in Nat
  BY <1>1 DEF Listing, ListTypeOK
<1>3. ListTypeOK'
  <2>1. Append(list, entry) \in Seq(Names)
    BY <1>2
  <2> QED
    BY <1>1, <2>1 DEF ListTypeOK
<1>4. Seen' = Seen \cup {entry}
  BY <1>1, <1>2 DEF Seen
<1>5. entry \notin Seen
  BY <1>1 DEF Seen
<1>6. /\ \A i \in DOMAIN list : list[i] \in Names /\ list[i] \in Seen /\ list[i] # entry
      /\ \A i, j \in DOMAIN list : list[i] = list[j] => i = j
      /\ \A i \in DOMAIN list : were[list[i]] \cap want # {}
      /\ \A m \in Seen : were[m] \subseteq want => \E i \in DOMAIN list : list[i] = m
      /\ table \in Seq(Names) /\ Len(table) <= Len(list) /\ \A i \in DOMAIN table : table[i] = list[i]
  BY <1>1, <1>5 DEF Listing, ListTypeOK
<1>7. CASE Kept(entry)
  <2> DEFINE l == Append(list, entry)
             n == Len(list)
  <2>1. /\ list' = l /\ DOMAIN l = 1 .. n + 1 /\ DOMAIN list = 1 .. n /\ l[n + 1] = entry
        /\ \A i \in 1 .. n : l[i] = list[i]
        /\ Len(l) = n + 1 /\ n \in Nat
    BY <1>1, <1>2, <1>7
  <2> HIDE DEF l, n
  <2>2. were[entry] \cap want # {}
    <3>1. CASE kind[entry] \in want
      BY <1>2, <3>1
    <3>2. CASE "link" \in want
      <4>1. want = {"dir", "file", "link"}
        BY <3>2 DEF ListTypeOK
      <4>2. \E x \in were[entry] : x # "absent"
        BY <1>2
      <4> QED
        BY <1>2, <4>1, <4>2 DEF Kinds
    <3> QED
      BY <1>7, <3>1, <3>2 DEF Kept
  <2>3. \A i \in 1 .. n + 1 : i \in 1 .. n \/ i = n + 1
    BY <2>1
  <2>4. \A i \in DOMAIN list' : list'[i] \in Seen'
    BY <1>2, <1>4, <1>6, <2>1, <2>3
  <2>5. \A i, j \in DOMAIN list' : list'[i] = list'[j] => i = j
    BY <1>6, <2>1, <2>3
  <2>6. \A i \in DOMAIN list' : were[list'[i]] \cap want # {}
    BY <1>6, <2>1, <2>2, <2>3
  <2>7. \A m \in Seen' : were[m] \subseteq want => \E i \in DOMAIN list' : list'[i] = m
    <3> SUFFICES ASSUME NEW m \in Seen', were[m] \subseteq want
                 PROVE  \E i \in DOMAIN list' : list'[i] = m
      OBVIOUS
    <3>1. CASE m = entry
      <4>1. n + 1 \in DOMAIN list' /\ list'[n + 1] = m
        BY <2>1, <3>1
      <4> QED
        BY <4>1
    <3>2. CASE m # entry
      <4>1. PICK i \in DOMAIN list : list[i] = m
        BY <1>4, <1>6, <3>2
      <4>2. i \in DOMAIN list' /\ list'[i] = m
        BY <2>1, <4>1
      <4> QED
        BY <4>2
    <3> QED
      BY <3>1, <3>2
  <2>8. Len(table) <= Len(list') /\ \A i \in DOMAIN table : table[i] = list'[i]
    <3>1. Len(table) \in Nat /\ DOMAIN table = 1 .. Len(table) /\ Len(table) <= n
      BY <1>6 DEF n
    <3>2. \A i \in DOMAIN table : i \in 1 .. n
      BY <3>1, <2>1
    <3> QED
      BY <1>6, <2>1, <3>1, <3>2
  <2> QED
    BY <1>1, <1>3, <2>4, <2>5, <2>6, <2>7, <2>8 DEF Listing
<1>8. CASE ~Kept(entry)
  <2>1. list' = list
    BY <1>1, <1>8
  <2>2. ~(were[entry] \subseteq want)
    BY <1>2, <1>8 DEF Kept
  <2>3. \A m \in Seen' : were[m] \subseteq want => \E i \in DOMAIN list : list[i] = m
    BY <1>4, <1>6, <2>2
  <2> QED
    BY <1>1, <1>3, <1>4, <1>6, <2>1, <2>3 DEF Listing
<1> QED
  BY <1>7, <1>8

LEMMA ReadEndsInv ==
    ASSUME InvFiles, Closedir \/ ReturnTable
    PROVE  InvFiles'
<1> USE DEF InvFiles, Closedir, ReturnTable
<1>1. ListTypeOK'
  BY DEF ListTypeOK
<1>2. call' \in {"push", "idle"} /\ UNCHANGED <<want, unread, list, table, were>>
  OBVIOUS
<1>3. CASE ReturnTable
  <2>1. call' = "idle"
    BY <1>3
  <2>2. Listing'
    BY <2>1 DEF Listing
  <2> QED
    BY <1>1, <2>2
<1>4. CASE Closedir
  <2>1. call = "read" /\ call' = "push" /\ \A n \in unread : "absent" \in were[n]
    BY <1>4
  <2>2. Seen' = Seen
    BY <1>2, <2>1 DEF Seen
  <2> QED
    BY <1>1, <1>2, <2>1, <2>2 DEF Listing
<1> QED
  BY <1>1, <1>3, <1>4

LEMMA PushTableInv ==
    ASSUME InvFiles, PushTable
    PROVE  InvFiles'
<1> USE DEF InvFiles
<1>1. /\ call = "push" /\ Len(table) < Len(list) /\ table' = Append(table, list[Len(table) + 1])
      /\ UNCHANGED <<kind, call, want, unread, entry, list, were>>
  BY DEF PushTable
<1>2. table \in Seq(Names) /\ list \in Seq(Names) /\ Len(table) \in Nat /\ Len(list) \in Nat
      /\ list[Len(table) + 1] \in Names
  BY <1>1 DEF ListTypeOK
<1>3. ListTypeOK'
  BY <1>1, <1>2 DEF ListTypeOK
<1>4. Len(table') <= Len(list) /\ \A i \in DOMAIN table' : table'[i] = list[i]
  BY <1>1, <1>2 DEF Listing
<1>5. Seen' = Seen
  BY <1>1 DEF Seen
<1> QED
  BY <1>1, <1>3, <1>4, <1>5 DEF Listing

\* However other processes change the directory between readdir and lstat.
THEOREM ListInvariant == FilesSpec => []InvFiles
<1>1. InvFiles /\ [FilesNext]_fileVars => InvFiles'
  <2>1. ASSUME InvFiles, FilesNext PROVE InvFiles'
    BY <2>1, ChangeInv, OpendirInv, ReaddirInv, LstatInv, ReadEndsInv, PushTableInv DEF FilesNext
  <2>2. ASSUME InvFiles, UNCHANGED fileVars PROVE InvFiles'
    BY <2>2 DEF fileVars, InvFiles, ListTypeOK, Listing, Seen
  <2> QED
    BY <2>1, <2>2
<1> QED
  BY <1>1, FilesInitInv, PTL DEF FilesSpec

\* The table of a call (fl_getdirs, fl_getfiles, fl_getdirall) has each name once,
\* only names that were of a wanted kind at some time during the call, and all that
\* were of one throughout.
THEOREM ListedIsPresent == FilesSpec => []ListedAsPresent
<1>1. ASSUME InvFiles PROVE ListedAsPresent
  <2> SUFFICES ASSUME call = "push", Len(table) = Len(list)
               PROVE  /\ table = list
                      /\ \A i, j \in DOMAIN table : table[i] = table[j] => i = j
                      /\ \A i \in DOMAIN table : were[table[i]] \cap want # {}
                      /\ IF unread = Names THEN table = <<>>
                         ELSE \A n \in Names : were[n] \subseteq want => \E i \in 1 .. Len(table) : table[i] = n
    BY DEF ListedAsPresent, Contains
  <2> USE <1>1 DEF InvFiles
  <2>1. table \in Seq(Names) /\ list \in Seq(Names) /\ \A i \in 1 .. Len(table) : table[i] = list[i]
    BY DEF ListTypeOK, Listing
  <2>2. table = list
    BY <2>1, SeqEqual
  <2>3. unread = Names => table = <<>>
    <3>1. \A i \in DOMAIN list : list[i] \in Names /\ list[i] \notin unread
      BY <2>1 DEF Listing, Seen
    <3>2. unread = Names => Len(list) = 0
      BY <2>1, <3>1
    <3> QED
      BY <2>1, <2>2, <3>2
  <2>4. ASSUME unread # Names, NEW n \in Names, were[n] \subseteq want
        PROVE  \E i \in 1 .. Len(table) : table[i] = n
    <3>1. "absent" \notin want
      BY DEF ListTypeOK
    <3>2. n \in Seen
      BY <2>4, <3>1 DEF Listing, Seen
    <3> QED
      BY <2>1, <2>2, <2>4, <3>2 DEF Listing
  <2> QED
    BY <2>2, <2>3, <2>4 DEF Listing
<1> QED
  BY <1>1, ListInvariant, PTL

-----------------------------------------------------------------------------
(* What the files of the configuration say.                                *)

Included == [Seq(Texts) \X Envs -> Results]

LEMMA EmptyType == Empty \in Envs
  BY DEF Empty, Envs

LEMMA WellAndFault ==
    ASSUME NEW env \in Envs
    PROVE  /\ Well(env) \in Results /\ Well(env).ok = "true" /\ Well(env).env = env
           /\ Fault(env) \in Results /\ Fault(env).ok = "false" /\ Fault(env).env = env
  BY DEF Well, Fault, Results

\* Every $(key) is replaced by text.
LEMMA ExpandType ==
    ASSUME NEW env \in Envs, NEW v \in Seq(Keys \cup Texts)
    PROVE  Expand(env, v) \in Seq(Texts)
<1> DEFINE W == Keys \cup Texts
           g == [x \in W |-> IF x \in Keys THEN env[x] ELSE <<x>>]
<1>1. g \in Stands(W, Texts)
  BY DEF Stands, Envs
<1>2. Each(g, v) = [n \in DOMAIN v |-> IF v[n] \in Keys THEN env[v[n]] ELSE <<v[n]>>]
  BY DEF Each
<1>3. FlattenSeq(Each(g, v)) \in Seq(Texts)
  <2> HIDE DEF g
  <2> QED
    BY <1>1, EachType
<1> QED
  BY <1>2, <1>3 DEF Expand

LEMMA AfterLineType ==
    ASSUME NEW l \in ConfigLine, NEW env \in Envs, NEW read \in Included
    PROVE  AfterLine(l, env, read) \in Results
<1>1. l.kind \in {"comment", "novalue", "pair", "include"} /\ l.key \in Keys /\ l.value \in Seq(Keys \cup Texts)
  BY DEF ConfigLine
<1>2. Expand(env, l.value) \in Seq(Texts)
  BY <1>1, ExpandType
<1>3. CASE l.kind = "comment"
  BY <1>3, WellAndFault DEF AfterLine
<1>4. CASE l.kind = "novalue"
  BY <1>4, WellAndFault DEF AfterLine
<1>5. CASE l.kind = "pair"
  <2>1. [env EXCEPT ![l.key] = Expand(env, l.value)] \in Envs
    BY <1>2 DEF Envs
  <2>2. Well([env EXCEPT ![l.key] = Expand(env, l.value)]) \in Results
    BY <2>1, WellAndFault
  <2> QED
    BY <1>5, <2>2 DEF AfterLine
<1>6. CASE l.kind = "include"
  <2>1. <<Expand(env, l.value), env>> \in Seq(Texts) \X Envs
    BY <1>2
  <2>2. read[<<Expand(env, l.value), env>>] \in Results
    BY <2>1 DEF Included
  <2> QED
    BY <1>6, <2>2 DEF AfterLine
<1> QED
  BY <1>1, <1>3, <1>4, <1>5, <1>6

\* The recursion over the lines of a file defines a function.
LEMMA AfterLinesStep ==
    ASSUME NEW lines \in Seq(ConfigLine), NEW env \in Envs, NEW read \in Included
    PROVE  /\ AfterLines(lines, env, read) \in [0 .. Len(lines) -> Results]
           /\ AfterLines(lines, env, read)[0] = Well(env)
           /\ \A n \in 1 .. Len(lines) :
                AfterLines(lines, env, read)[n] =
                    LET before == AfterLines(lines, env, read)[n - 1]
                    IN  IF before.ok = "false" THEN before ELSE AfterLine(lines[n], before.env, read)
<1> DEFINE N == Len(lines)
           next == [n \in 1 .. N |-> [r \in Results |->
                       IF r.ok = "false" THEN r ELSE AfterLine(lines[n], r.env, read)]]
           body(f) == [n \in 0 .. N |->
                          IF n = 0 THEN Well(env)
                          ELSE IF f[n - 1].ok = "false" THEN f[n - 1]
                          ELSE AfterLine(lines[n], f[n - 1].env, read)]
           a == AfterLines(lines, env, read)
<1>1. N \in Nat /\ Well(env) \in Results
  BY WellAndFault
<1>2. next \in [1 .. N -> [Results -> Results]]
  <2>1. ASSUME NEW n \in 1 .. N, NEW r \in Results
        PROVE  (IF r.ok = "false" THEN r ELSE AfterLine(lines[n], r.env, read)) \in Results
    <3>1. r.env \in Envs /\ lines[n] \in ConfigLine
      BY DEF Results
    <3> QED
      BY <3>1, AfterLineType
  <2> QED
    BY <2>1
<1>3. PICK f : Follows(Results, N, Well(env), next, f)
  <2> HIDE DEF next, N
  <2> QED
    BY <1>1, <1>2, RecursionUpTo
<1>4. f \in [0 .. N -> Results]
  BY <1>3 DEF Follows
<1>5. f = body(f)
  <2>1. ASSUME NEW n \in 1 .. N
        PROVE  next[n][f[n - 1]] = IF f[n - 1].ok = "false" THEN f[n - 1]
                                   ELSE AfterLine(lines[n], f[n - 1].env, read)
    BY <1>4
  <2>2. \A n \in 0 .. N : n # 0 => n \in 1 .. N
    OBVIOUS
  <2>3. f = [n \in 0 .. N |-> IF n = 0 THEN Well(env) ELSE next[n][f[n - 1]]]
    BY <1>3 DEF Follows
  <2> HIDE DEF next
  <2>4. [n \in 0 .. N |-> IF n = 0 THEN Well(env) ELSE next[n][f[n - 1]]] = body(f)
    BY <2>1, <2>2
  <2> QED
    BY <2>3, <2>4
<1>6. a = CHOOSE h : h = body(h)
  BY DEF AfterLines
<1>7. a = body(a)
  BY <1>5, <1>6
<1>8. a \in [0 .. N -> Results]
  <2>1. DOMAIN a = 0 .. N
    BY <1>7
  <2> HIDE DEF a
  <2> DEFINE A == {n \in Nat : n <= N => a[n] \in Results}
  <2>2. 0 \in A
    BY <1>1, <1>7
  <2>3. ASSUME NEW n \in Nat, n \in A PROVE n + 1 \in A
    <3> SUFFICES ASSUME n + 1 <= N PROVE a[n + 1] \in Results
      OBVIOUS
    <3>1. a[n] \in Results /\ a[n].env \in Envs /\ lines[n + 1] \in ConfigLine
      BY <2>3 DEF Results
    <3>2. a[n + 1] = IF a[n].ok = "false" THEN a[n] ELSE AfterLine(lines[n + 1], a[n].env, read)
      BY <1>7
    <3> QED
      BY <3>1, <3>2, AfterLineType
  <2>4. Nat \subseteq A
    <3> HIDE DEF A
    <3> QED
      BY <2>2, <2>3, SetInduction
  <2>5. \A n \in 0 .. N : a[n] \in Results
    BY <2>4
  <2> QED
    BY <1>7, <2>1, <2>5
<1> QED
  <2> HIDE DEF a
  <2>1. a[0] = Well(env) /\ \A n \in 1 .. N : a[n] = IF a[n - 1].ok = "false" THEN a[n - 1]
                                   ELSE AfterLine(lines[n], a[n - 1].env, read)
    BY <1>1, <1>7
  <2> QED
    BY <1>8, <2>1 DEF a

\* Once there is a fault, nothing more is read.
LEMMA FaultStays ==
    ASSUME NEW lines \in Seq(ConfigLine), NEW env \in Envs, NEW read \in Included,
           NEW n \in 0 .. Len(lines), AfterLines(lines, env, read)[n].ok = "false"
    PROVE  AfterLines(lines, env, read)[Len(lines)] = AfterLines(lines, env, read)[n]
<1> DEFINE a == AfterLines(lines, env, read)
           N == Len(lines)
           A == {m \in Nat : n + m <= N => a[n + m] = a[n]}
<1>1. \A m \in 1 .. N : a[m] = IF a[m - 1].ok = "false" THEN a[m - 1] ELSE AfterLine(lines[m], a[m - 1].env, read)
  BY AfterLinesStep
<1> HIDE DEF a
<1>2. 0 \in A
  OBVIOUS
<1>3. ASSUME NEW m \in Nat, m \in A PROVE m + 1 \in A
  <2> SUFFICES ASSUME n + (m + 1) <= N PROVE a[n + (m + 1)] = a[n]
    OBVIOUS
  <2>1. a[n + m] = a[n] /\ a[n].ok = "false"
    BY <1>3 DEF a
  <2>2. n + (m + 1) \in 1 .. N /\ n + (m + 1) - 1 = n + m
    OBVIOUS
  <2> QED
    BY <1>1, <2>1, <2>2
<1>4. Nat \subseteq A
  <2> HIDE DEF A
  <2> QED
    BY <1>2, <1>3, SetInduction
<1>5. N - n \in A
  BY <1>4
<1> QED
  BY <1>5 DEF a

LEMMA ReadWithType ==
    ASSUME ConfigAssumption, NEW d \in Disks, NEW read \in Included
    PROVE  ReadWith(d, read) \in Included
<1>1. ASSUME NEW f \in Seq(Texts) \X Envs
      PROVE  (IF f[1] \in DOMAIN d THEN AfterLines(d[f[1]], f[2], read)[Len(d[f[1]])] ELSE Fault(f[2])) \in Results
  <2>1. f[2] \in Envs
    OBVIOUS
  <2>2. CASE f[1] \in DOMAIN d
    <3>1. d[f[1]] \in Seq(ConfigLine)
      BY <2>2 DEF ConfigAssumption
    <3>2. AfterLines(d[f[1]], f[2], read) \in [0 .. Len(d[f[1]]) -> Results]
      BY <2>1, <3>1, AfterLinesStep
    <3>3. Len(d[f[1]]) \in 0 .. Len(d[f[1]])
      BY <3>1
    <3> QED
      BY <2>2, <3>2, <3>3
  <2>3. CASE f[1] \notin DOMAIN d
    BY <2>1, <2>3, WellAndFault
  <2> QED
    BY <2>2, <2>3
<1> QED
  BY <1>1 DEF ReadWith, Included

\* The recursion over the files that may be open defines a function.
LEMMA ReadingStep ==
    ASSUME ConfigAssumption, NEW d \in Disks
    PROVE  /\ Reading(d) \in [0 .. MaxOpen -> Included]
           /\ Reading(d)[0] = [f \in Seq(Texts) \X Envs |-> Fault(f[2])]
           /\ \A room \in 1 .. MaxOpen : Reading(d)[room] = ReadWith(d, Reading(d)[room - 1])
<1> DEFINE none == [f \in Seq(Texts) \X Envs |-> Fault(f[2])]
           next == [room \in 1 .. MaxOpen |-> [read \in Included |-> ReadWith(d, read)]]
           body(h) == [room \in 0 .. MaxOpen |-> IF room = 0 THEN none ELSE ReadWith(d, h[room - 1])]
           r == Reading(d)
<1>1. MaxOpen \in Nat
  BY DEF ConfigAssumption
<1>2. none \in Included
  <2>1. \A f \in Seq(Texts) \X Envs : Fault(f[2]) \in Results
    BY WellAndFault
  <2> QED
    BY <2>1 DEF Included
<1>3. next \in [1 .. MaxOpen -> [Included -> Included]]
  BY ReadWithType
<1>4. PICK h : Follows(Included, MaxOpen, none, next, h)
  <2> HIDE DEF next, none
  <2> QED
    BY <1>1, <1>2, <1>3, RecursionUpTo
<1>5. h = body(h)
  <2>1. ASSUME NEW room \in 1 .. MaxOpen
        PROVE  next[room][h[room - 1]] = ReadWith(d, h[room - 1])
    <3>1. h \in [0 .. MaxOpen -> Included]
      <4> HIDE DEF next, none
      <4> QED
        BY <1>4 DEF Follows
    <3>2. room - 1 \in 0 .. MaxOpen
      BY <1>1
    <3>3. h[room - 1] \in Included
      BY <3>1, <3>2
    <3> QED
      BY <3>3
  <2>2. \A room \in 0 .. MaxOpen : room # 0 => room \in 1 .. MaxOpen
    BY <1>1
  <2>3. h = [room \in 0 .. MaxOpen |-> IF room = 0 THEN none ELSE next[room][h[room - 1]]]
    BY <1>4 DEF Follows
  <2> HIDE DEF next, none
  <2>4. [room \in 0 .. MaxOpen |-> IF room = 0 THEN none ELSE next[room][h[room - 1]]] = body(h)
    BY <2>1, <2>2
  <2> QED
    BY <2>3, <2>4
<1>6. r = CHOOSE q : q = body(q)
  BY DEF Reading
<1>7. r = body(r)
  BY <1>5, <1>6
<1> HIDE DEF r, none, next
<1>8. /\ r[0] = none /\ DOMAIN r = 0 .. MaxOpen
      /\ \A room \in 1 .. MaxOpen : r[room] = ReadWith(d, r[room - 1])
  BY <1>1, <1>7
<1>9. r \in [0 .. MaxOpen -> Included]
  <2> DEFINE A == {n \in Nat : n <= MaxOpen => r[n] \in Included}
  <2>1. 0 \in A
    BY <1>2, <1>8
  <2>2. ASSUME NEW n \in Nat, n \in A PROVE n + 1 \in A
    <3> SUFFICES ASSUME n + 1 <= MaxOpen PROVE r[n + 1] \in Included
      OBVIOUS
    <3>1. r[n] \in Included
      BY <1>1, <2>2
    <3>2. r[n + 1] = ReadWith(d, r[n])
      BY <1>1, <1>8
    <3> QED
      BY <3>1, <3>2, ReadWithType
  <2>3. Nat \subseteq A
    <3> HIDE DEF A
    <3> QED
      BY <2>1, <2>2, SetInduction
  <2>4. \A n \in 0 .. MaxOpen : r[n] \in Included
    BY <1>1, <2>3
  <2> HIDE DEF A
  <2>5. r = [n \in 0 .. MaxOpen |-> r[n]]
    BY <1>7, <1>8
  <2> QED
    BY <2>4, <2>5
<1> QED
  BY <1>8, <1>9 DEF r, none

\* What an included file makes of an environment, and what a missing one does.
LEMMA ReadingOf ==
    ASSUME ConfigAssumption, NEW d \in Disks, NEW room \in 0 .. MaxOpen,
           NEW f \in Seq(Texts), NEW env \in Envs
    PROVE  Reading(d)[room][<<f, env>>] =
             IF f \in DOMAIN d /\ room > 0
             THEN AfterLines(d[f], env, Reading(d)[room - 1])[Len(d[f])] ELSE Fault(env)
<1> DEFINE x == <<f, env>>
<1>1. x \in Seq(Texts) \X Envs /\ x[1] = f /\ x[2] = env
  OBVIOUS
<1>2. MaxOpen \in Nat
  BY DEF ConfigAssumption
<1> HIDE DEF x
<1>3. CASE room = 0
  <2>1. Reading(d)[room] = [y \in Seq(Texts) \X Envs |-> Fault(y[2])]
    BY <1>3, ReadingStep
  <2>2. Reading(d)[room][x] = Fault(x[2])
    BY <1>1, <2>1
  <2> QED
    BY <1>1, <1>3, <2>2 DEF x
<1>4. CASE room # 0
  <2>1. room \in 1 .. MaxOpen
    BY <1>2, <1>4
  <2>2. Reading(d)[room] = ReadWith(d, Reading(d)[room - 1])
    BY <2>1, ReadingStep
  <2>3. ReadWith(d, Reading(d)[room - 1])[x] =
            IF x[1] \in DOMAIN d THEN AfterLines(d[x[1]], x[2], Reading(d)[room - 1])[Len(d[x[1]])] ELSE Fault(x[2])
    BY <1>1 DEF ReadWith
  <2> QED
    BY <1>1, <2>1, <2>2, <2>3 DEF x
<1> QED
  BY <1>3, <1>4

-----------------------------------------------------------------------------
(* Loading the configuration.                                              *)

Frames == [file : Seq(Texts), read : Nat]

ConfigTypeOK ==
    /\ disk \in Disks /\ envirment_map \in Envs
    /\ answer \in {"none", "true", "false"}
    /\ frames \in Seq(Frames)
    /\ opened = Len(frames) /\ Len(frames) <= MaxOpen
    /\ \A i \in 1 .. Len(frames) :
         frames[i].file \in DOMAIN disk /\ frames[i].read <= Len(disk[frames[i].file])

\* After the lines that frame i of fs has read, which was begun with env.
SoFar(d, fs, i, env) == AfterLines(d[fs[i].file], env, Reading(d)[MaxOpen - i])[fs[i].read]

\* Frame i was begun with begun[i], the first with the empty environment; and all but
\* the innermost wait for what the next one makes of it.
Chain(d, fs, begun) ==
    /\ begun \in Seq(Envs) /\ Len(begun) = Len(fs)
    /\ fs[1].file = Main /\ begun[1] = Empty
    /\ \A i \in 1 .. Len(fs) - 1 :
         SoFar(d, fs, i, begun[i]) = Reading(d)[MaxOpen - i][<<fs[i + 1].file, begun[i + 1]>>]

\* What the innermost frame, or the one it waited for, has made of the environment.
Outcome == IF answer = "false" THEN Fault(envirment_map) ELSE Well(envirment_map)

Loading ==
    /\ frames # <<>> =>
         \E begun : /\ Chain(disk, frames, begun)
                    /\ SoFar(disk, frames, Len(frames), begun[Len(frames)]) = Outcome
    /\ frames = <<>> /\ loads > 0 =>
         [ok |-> answer, env |-> envirment_map] = Reading(disk)[MaxOpen][<<Main, Empty>>]

InvConfig == ConfigTypeOK /\ Loading

LEMMA ConfigInitInv == ConfigAssumption /\ ConfigInit => InvConfig
<1> SUFFICES ASSUME ConfigAssumption, ConfigInit PROVE InvConfig
  OBVIOUS
<1>1. ConfigTypeOK
  BY EmptyType DEF ConfigInit, ConfigTypeOK, ConfigAssumption
<1>2. Loading
  BY DEF ConfigInit, Loading
<1> QED
  BY <1>1, <1>2 DEF InvConfig

\* The innermost frame is at the end of its file, or of what it reads of it.
LEMMA Returned ==
    ASSUME ConfigAssumption, NEW d \in Disks, NEW fs \in Seq(Frames), fs # <<>>, Len(fs) <= MaxOpen,
           \A i \in 1 .. Len(fs) : fs[i].file \in DOMAIN d,
           NEW begun, Chain(d, fs, begun), NEW r,
           AfterLines(d[fs[Len(fs)].file], begun[Len(fs)], Reading(d)[MaxOpen - Len(fs)])[Len(d[fs[Len(fs)].file])] = r
    PROVE  /\ Len(fs) = 1 => Reading(d)[MaxOpen][<<Main, Empty>>] = r
           /\ Len(fs) > 1 =>
                /\ Chain(d, SubSeq(fs, 1, Len(fs) - 1), SubSeq(begun, 1, Len(fs) - 1))
                /\ SoFar(d, SubSeq(fs, 1, Len(fs) - 1), Len(fs) - 1, begun[Len(fs) - 1]) = r
<1> DEFINE L == Len(fs)
           up == SubSeq(fs, 1, L - 1)
           low == SubSeq(begun, 1, L - 1)
           f == fs[L].file
           env == begun[L]
           room == MaxOpen - L + 1
<1>1. L \in Nat /\ L >= 1 /\ MaxOpen \in Nat /\ L <= MaxOpen
  BY DEF ConfigAssumption
<1>2. f \in Seq(Texts) /\ f \in DOMAIN d /\ env \in Envs
  <2>1. fs[L] \in Frames
    BY <1>1
  <2>2. begun \in Seq(Envs) /\ Len(begun) = L
    BY DEF Chain
  <2> QED
    BY <1>1, <2>1, <2>2 DEF Frames
<1>9. room \in 0 .. MaxOpen /\ room > 0 /\ room - 1 = MaxOpen - L /\ (L = 1 => room = MaxOpen) /\ room = MaxOpen - (L - 1)
  BY <1>1
<1>10. AfterLines(d[f], env, Reading(d)[MaxOpen - L])[Len(d[f])] = r
  OBVIOUS
<1> HIDE DEF room
<1>3. Reading(d)[room][<<f, env>>] = r
  <2> HIDE DEF f, env, L
  <2>1. Reading(d)[room][<<f, env>>] =
          IF f \in DOMAIN d /\ room > 0
          THEN AfterLines(d[f], env, Reading(d)[room - 1])[Len(d[f])] ELSE Fault(env)
    BY <1>2, <1>9, ReadingOf
  <2> QED
    BY <1>2, <1>9, <1>10, <2>1
<1>4. L = 1 => Reading(d)[MaxOpen][<<Main, Empty>>] = r
  <2> SUFFICES ASSUME L = 1 PROVE Reading(d)[MaxOpen][<<Main, Empty>>] = r
    OBVIOUS
  <2>1. f = Main /\ env = Empty
    BY DEF Chain
  <2> HIDE DEF f, env, L
  <2> QED
    BY <1>3, <1>9, <2>1
<1>5. ASSUME L > 1
      PROVE  Chain(d, up, low) /\ SoFar(d, up, L - 1, begun[L - 1]) = r
  <2>1. up \in Seq(Frames) /\ Len(up) = L - 1 /\ \A i \in 1 .. L - 1 : up[i] = fs[i]
    BY <1>1, <1>5
  <2>2. low \in Seq(Envs) /\ Len(low) = L - 1 /\ \A i \in 1 .. L - 1 : low[i] = begun[i]
    BY <1>1, <1>5 DEF Chain
  <2>3. \A i \in 1 .. L - 1 : \A e : SoFar(d, up, i, e) = SoFar(d, fs, i, e)
    BY <2>1 DEF SoFar
  <2>4. \A i \in 1 .. L - 1 : SoFar(d, fs, i, begun[i]) = Reading(d)[MaxOpen - i][<<fs[i + 1].file, begun[i + 1]>>]
    BY DEF Chain
  <2>5. fs[1].file = Main /\ begun[1] = Empty
    BY DEF Chain
  <2>9. L - 1 \in 1 .. L - 1 /\ 1 \in 1 .. L - 1 /\ L - 1 + 1 = L
    BY <1>1, <1>5
  <2> HIDE DEF up, low, L
  <2>6. ASSUME NEW i \in 1 .. L - 1 - 1
        PROVE  SoFar(d, up, i, low[i]) = Reading(d)[MaxOpen - i][<<up[i + 1].file, low[i + 1]>>]
    <3>1. i \in 1 .. L - 1 /\ i + 1 \in 1 .. L - 1
      BY <1>1
    <3>2. SoFar(d, up, i, begun[i]) = SoFar(d, fs, i, begun[i])
      BY <2>3, <3>1
    <3>3. low[i] = begun[i] /\ low[i + 1] = begun[i + 1] /\ up[i + 1] = fs[i + 1]
      BY <2>1, <2>2, <3>1
    <3> QED
      BY <2>4, <3>1, <3>2, <3>3
  <2>7. Chain(d, up, low)
    BY <2>1, <2>2, <2>5, <2>6, <2>9 DEF Chain
  <2>8. SoFar(d, up, L - 1, begun[L - 1]) = r
    <3>1. SoFar(d, up, L - 1, begun[L - 1]) = SoFar(d, fs, L - 1, begun[L - 1])
      BY <2>3, <2>9
    <3>2. SoFar(d, fs, L - 1, begun[L - 1]) = Reading(d)[MaxOpen - (L - 1)][<<fs[L - 1 + 1].file, begun[L - 1 + 1]>>]
      BY <2>4, <2>9
    <3> QED
      BY <1>3, <1>9, <2>9, <3>1, <3>2
  <2> QED
    BY <2>7, <2>8
<1> QED
  BY <1>1, <1>4, <1>5

\* fclose, and what the caller of the innermost call is told.
LEMMA LeaveInv ==
    ASSUME ConfigAssumption, ConfigTypeOK, frames # <<>>,
           NEW ok \in {"true", "false"}, Leave(ok), UNCHANGED <<disk, envirment_map, loads>>,
           NEW begun, Chain(disk, frames, begun),
           AfterLines(disk[frames[Len(frames)].file], begun[Len(frames)], Reading(disk)[MaxOpen - Len(frames)])
               [Len(disk[frames[Len(frames)].file])] = [ok |-> ok, env |-> envirment_map]
    PROVE  InvConfig'
<1> DEFINE L == Len(frames)
           r == [ok |-> ok, env |-> envirment_map]
           up == SubSeq(frames, 1, L - 1)
           low == SubSeq(begun, 1, L - 1)
<1>1. /\ frames' = up /\ opened' = opened - 1 /\ answer' = ok
      /\ disk' = disk /\ envirment_map' = envirment_map /\ loads' = loads
  BY DEF Leave
<1>2. L \in Nat /\ L >= 1 /\ MaxOpen \in Nat /\ L <= MaxOpen /\ frames \in Seq(Frames) /\ disk \in Disks
  BY DEF ConfigTypeOK, ConfigAssumption
<1>3. up \in Seq(Frames) /\ Len(up) = L - 1 /\ \A i \in 1 .. L - 1 : up[i] = frames[i]
  <2>1. L - 1 \in 0 .. Len(frames) /\ frames \in Seq(Frames)
    BY <1>2
  <2>2. up \in Seq(Frames) /\ Len(up) = L - 1
    BY <2>1, CutAnywhere
  <2>3. \A i \in 1 .. L - 1 : up[i] = frames[i]
    BY <2>1
  <2> QED
    BY <2>2, <2>3
<1>4. begun \in Seq(Envs) /\ Len(begun) = L
  BY DEF Chain
<1>5. L > 1 => low[L - 1] = begun[L - 1]
  BY <1>2, <1>4
<1>6. ConfigTypeOK'
  BY <1>1, <1>2, <1>3 DEF ConfigTypeOK
<1>7. Outcome' = r
  BY <1>1 DEF Outcome, Well, Fault
<1>8. /\ L = 1 => Reading(disk)[MaxOpen][<<Main, Empty>>] = r
      /\ L > 1 => /\ Chain(disk, up, low)
                  /\ SoFar(disk, up, L - 1, begun[L - 1]) = r
  <2>1. \A i \in 1 .. Len(frames) : frames[i].file \in DOMAIN disk
    BY DEF ConfigTypeOK
  <2>2. AfterLines(disk[frames[L].file], begun[L], Reading(disk)[MaxOpen - L])[Len(disk[frames[L].file])] = r
    OBVIOUS
  <2> HIDE DEF r
  <2> QED
    BY <1>2, <2>1, <2>2, Returned
<1> HIDE DEF r, low, up, L
<1>9. CASE L = 1
  <2>1. frames' = <<>>
    BY <1>1, <1>3, <1>9
  <2>2. [ok |-> answer', env |-> envirment_map'] = r
    BY <1>1 DEF r
  <2> QED
    BY <1>1, <1>6, <1>8, <1>9, <2>1, <2>2 DEF InvConfig, Loading
<1>10. CASE L > 1
  <2>1. Chain(disk', frames', low)
    BY <1>1, <1>8, <1>10
  <2>2. Len(frames') = L - 1 /\ frames' # <<>>
    BY <1>1, <1>2, <1>3, <1>10
  <2>3. SoFar(disk', frames', Len(frames'), low[Len(frames')]) = Outcome'
    <3>1. SoFar(disk, up, L - 1, low[L - 1]) = r
      BY <1>5, <1>8, <1>10
    <3>2. disk' = disk /\ frames' = up /\ Len(frames') = L - 1
      BY <1>1, <2>2
    <3> QED
      BY <1>7, <3>1, <3>2
  <2> QED
    BY <1>6, <2>1, <2>2, <2>3 DEF InvConfig, Loading
<1> QED
  BY <1>2, <1>9, <1>10

\* The innermost frame has read a line more.
LEMMA ReadOnChain ==
    ASSUME ConfigTypeOK, frames # <<>>, Innermost.read < Len(disk[Innermost.file]),
           NEW begun, Chain(disk, frames, begun)
    PROVE  /\ ReadOn \in Seq(Frames) /\ Len(ReadOn) = Len(frames)
           /\ \A i \in 1 .. Len(frames) : ReadOn[i].file = frames[i].file
           /\ \A i \in 1 .. Len(frames) :
                ReadOn[i].read = IF i = Len(frames) THEN frames[i].read + 1 ELSE frames[i].read
           /\ \A i \in 1 .. Len(frames) :
                ReadOn[i].file \in DOMAIN disk /\ ReadOn[i].read <= Len(disk[ReadOn[i].file])
           /\ Chain(disk, ReadOn, begun)
<1> DEFINE L == Len(frames)
<1>1. frames \in Seq(Frames) /\ L \in Nat /\ L >= 1 /\ \A i \in 1 .. L : frames[i].read \in Nat
  <2>1. frames \in Seq(Frames) /\ Len(frames) \in Nat
    BY DEF ConfigTypeOK
  <2>2. \A i \in 1 .. L : frames[i] \in Frames
    BY <2>1
  <2> QED
    BY <2>1, <2>2 DEF Frames
<1>2. ReadOn \in Seq(Frames) /\ Len(ReadOn) = L
  <2>1. [frames[L] EXCEPT !.read = @ + 1] \in Frames
    <3>1. frames[L] \in Frames
      BY <1>1
    <3> QED
      BY <3>1 DEF Frames
  <2>2. ReadOn = [frames EXCEPT ![L] = [frames[L] EXCEPT !.read = @ + 1]]
    BY DEF ReadOn
  <2>3. ReadOn \in [1 .. L -> Frames]
    BY <1>1, <2>1, <2>2
  <2> QED
    BY <1>1, <2>3
<1>3. \A i \in 1 .. L : /\ ReadOn[i].file = frames[i].file
                        /\ ReadOn[i].read = IF i = L THEN frames[i].read + 1 ELSE frames[i].read
  BY <1>1 DEF ReadOn, Frames
<1>4. \A i \in 1 .. L : ReadOn[i].file \in DOMAIN disk /\ ReadOn[i].read <= Len(disk[ReadOn[i].file])
  <2>1. \A i \in 1 .. L : frames[i].file \in DOMAIN disk /\ frames[i].read <= Len(disk[frames[i].file])
    BY DEF ConfigTypeOK
  <2>2. frames[L].read + 1 <= Len(disk[frames[L].file]) \/ Len(disk[frames[L].file]) \notin Nat
    BY <1>1 DEF Innermost
  <2> QED
    BY <1>1, <1>3, <2>1, <2>2 DEF Innermost
<1>5. Chain(disk, ReadOn, begun)
  <2>1. \A i \in 1 .. L - 1 : \A e : SoFar(disk, ReadOn, i, e) = SoFar(disk, frames, i, e)
    <3> TAKE i \in 1 .. L - 1
    <3>1. ReadOn[i].file = frames[i].file /\ ReadOn[i].read = frames[i].read
      BY <1>1, <1>3
    <3> QED
      BY <3>1 DEF SoFar
  <2>2. \A i \in 1 .. L - 1 : i + 1 \in 1 .. L /\ ReadOn[i + 1].file = frames[i + 1].file
    BY <1>1, <1>3
  <2>3. ReadOn[1].file = Main /\ begun[1] = Empty /\ begun \in Seq(Envs) /\ Len(begun) = Len(ReadOn)
    BY <1>1, <1>2, <1>3 DEF Chain
  <2>4. ASSUME NEW i \in 1 .. L - 1
        PROVE  SoFar(disk, ReadOn, i, begun[i]) = Reading(disk)[MaxOpen - i][<<ReadOn[i + 1].file, begun[i + 1]>>]
    <3>1. SoFar(disk, frames, i, begun[i]) = Reading(disk)[MaxOpen - i][<<frames[i + 1].file, begun[i + 1]>>]
      BY DEF Chain
    <3> QED
      BY <2>1, <2>2, <3>1
  <2> QED
    BY <1>2, <2>3, <2>4 DEF Chain
<1> QED
  BY <1>2, <1>3, <1>4, <1>5

\* The lines of the innermost file, and what it was begun with.
LEMMA Standing ==
    ASSUME ConfigAssumption, ConfigTypeOK, frames # <<>>, NEW begun, Chain(disk, frames, begun)
    PROVE  /\ Len(frames) \in 1 .. MaxOpen /\ MaxOpen \in Nat
           /\ Innermost \in Frames /\ Innermost.file \in DOMAIN disk
           /\ disk[Innermost.file] \in Seq(ConfigLine)
           /\ Innermost.read \in 0 .. Len(disk[Innermost.file])
           /\ begun[Len(frames)] \in Envs
           /\ Reading(disk)[MaxOpen - Len(frames)] \in Included
<1>1. /\ frames \in Seq(Frames) /\ Len(frames) \in 1 .. MaxOpen /\ MaxOpen \in Nat /\ disk \in Disks
      /\ Innermost = frames[Len(frames)]
  BY DEF ConfigTypeOK, ConfigAssumption, Innermost
<1>2. Innermost \in Frames /\ Innermost.file \in DOMAIN disk /\ Innermost.read <= Len(disk[Innermost.file])
  BY <1>1 DEF ConfigTypeOK
<1>3. disk[Innermost.file] \in Seq(ConfigLine)
  BY <1>1, <1>2 DEF ConfigAssumption
<1>4. Innermost.read \in 0 .. Len(disk[Innermost.file])
  BY <1>2, <1>3 DEF Frames
<1>5. begun[Len(frames)] \in Envs
  <2>1. begun \in Seq(Envs) /\ Len(begun) = Len(frames)
    BY DEF Chain
  <2> QED
    BY <1>1, <2>1
<1>6. Reading(disk) \in [0 .. MaxOpen -> Included]
  BY <1>1, ReadingStep
<1>7. Reading(disk)[MaxOpen - Len(frames)] \in Included
  <2>1. MaxOpen - Len(frames) \in 0 .. MaxOpen
    BY <1>1
  <2> QED
    BY <1>6, <2>1
<1> QED
  BY <1>1, <1>2, <1>3, <1>4, <1>5, <1>7

\* After the lines that the innermost frame has read, and after the next.
After(begun) == AfterLines(disk[Innermost.file], begun[Len(frames)], Reading(disk)[MaxOpen - Len(frames)])

LEMMA AfterNext ==
    ASSUME ConfigAssumption, ConfigTypeOK, frames # <<>>, NEW begun, Chain(disk, frames, begun),
           SoFar(disk, frames, Len(frames), begun[Len(frames)]) = Outcome,
           answer # "false", Innermost.read < Len(disk[Innermost.file])
    PROVE  /\ Line \in ConfigLine
           /\ After(begun)[Innermost.read + 1] =
                AfterLine(Line, envirment_map, Reading(disk)[MaxOpen - Len(frames)])
<1> DEFINE lines == disk[Innermost.file]
           n == Innermost.read
           env == begun[Len(frames)]
           read == Reading(disk)[MaxOpen - Len(frames)]
           a == AfterLines(lines, env, read)
<1>1. lines \in Seq(ConfigLine) /\ n \in 0 .. Len(lines) /\ env \in Envs /\ read \in Included
  BY Standing
<1>2. (n + 1) \in 1 .. Len(lines) /\ (n + 1) - 1 = n /\ Line = lines[n + 1] /\ Line \in ConfigLine
  BY <1>1 DEF Line
<1>3. a[n] = Well(envirment_map)
  BY DEF SoFar, Outcome, Innermost
<1>4. a[n].ok = "true" /\ a[n].env = envirment_map
  BY <1>3, WellAndFault DEF ConfigTypeOK
<1>5. After(begun) = a
  BY DEF After
<1> HIDE DEF lines, n, env, read
<1>6. \A m \in 1 .. Len(lines) :
         a[m] = IF a[m - 1].ok = "false" THEN a[m - 1] ELSE AfterLine(lines[m], a[m - 1].env, read)
  BY <1>1, AfterLinesStep
<1> HIDE DEF a
<1>7. a[n + 1] = AfterLine(lines[n + 1], envirment_map, read)
  <2> DEFINE m == n + 1
  <2>1. m \in 1 .. Len(lines) /\ m - 1 = n
    <3>1. m \in 1 .. Len(lines)
      BY <1>2
    <3>2. n \in Nat
      BY <1>1
    <3>3. m - 1 = n
      BY <3>2
    <3> QED
      BY <3>1, <3>3
  <2> HIDE DEF m
  <2>2. a[m] = IF a[m - 1].ok = "false" THEN a[m - 1] ELSE AfterLine(lines[m], a[m - 1].env, read)
    BY <1>6, <2>1
  <2>3. a[m] = AfterLine(lines[m], envirment_map, read)
    BY <1>4, <2>1, <2>2
  <2> QED
    BY <2>3 DEF m
<1> QED
  BY <1>2, <1>5, <1>7 DEF n, read

\* The innermost frame goes on to its next line, or to the failure of what it included.
LEMMA ReadOnInv ==
    ASSUME ConfigAssumption, ConfigTypeOK, frames # <<>>, Innermost.read < Len(disk[Innermost.file]),
           NEW begun, Chain(disk, frames, begun),
           frames' = ReadOn, UNCHANGED <<disk, opened, loads>>,
           envirment_map' \in Envs, answer' \in {"none", "true", "false"},
           After(begun)[Innermost.read + 1] = Outcome'
    PROVE  InvConfig'
<1> DEFINE L == Len(frames)
<1>1. L \in 1 .. MaxOpen /\ L \in 1 .. L /\ MaxOpen \in Nat
  BY Standing
<1>2. /\ ReadOn \in Seq(Frames) /\ Len(ReadOn) = L
      /\ ReadOn[L].file = Innermost.file /\ ReadOn[L].read = Innermost.read + 1
      /\ \A i \in 1 .. L : ReadOn[i].file \in DOMAIN disk /\ ReadOn[i].read <= Len(disk[ReadOn[i].file])
      /\ Chain(disk, ReadOn, begun)
  BY <1>1, ReadOnChain DEF Innermost
<1>3. ConfigTypeOK'
  BY <1>1, <1>2 DEF ConfigTypeOK
<1>4. Chain(disk', frames', begun)
  BY <1>2
<1>5. SoFar(disk', frames', Len(frames'), begun[Len(frames')]) = Outcome'
  <2>1. SoFar(disk, ReadOn, L, begun[L]) = Outcome'
    BY <1>2 DEF SoFar, After
  <2>2. disk' = disk /\ Len(frames') = L
    BY <1>2
  <2> QED
    BY <2>1, <2>2
<1>6. frames' # <<>>
  BY <1>1, <1>2
<1> QED
  BY <1>3, <1>4, <1>5, <1>6 DEF InvConfig, Loading

\* A file is begun: at the start with the empty environment, on a line that includes
\* it with the one there is.
LEMMA BeginInv ==
    ASSUME ConfigAssumption, InvConfig, Load
    PROVE  InvConfig'
<1>1. /\ frames = <<>> /\ envirment_map' = Empty /\ disk' = disk /\ loads' = loads + 1
      /\ disk \in Disks /\ opened = 0 /\ Main \in Seq(Texts) /\ MaxOpen \in Nat
  BY DEF Load, InvConfig, ConfigTypeOK, ConfigAssumption
<1>2. Empty \in Envs
  BY EmptyType
<1>3. CASE /\ Main \in DOMAIN disk /\ opened < MaxOpen
           /\ frames' = Append(<<>>, [file |-> Main, read |-> 0])
           /\ opened' = opened + 1 /\ answer' = "none"
  <2> DEFINE fs == <<[file |-> Main, read |-> 0]>>
             begun == <<Empty>>
             lines == disk[Main]
             read == Reading(disk)[MaxOpen - 1]
  <2>1. frames' = fs /\ fs \in Seq(Frames) /\ Len(fs) = 1 /\ fs[1].file = Main /\ fs[1].read = 0
    BY <1>1, <1>3 DEF Frames
  <2>2. begun \in Seq(Envs) /\ Len(begun) = 1 /\ begun[1] = Empty
    BY <1>2
  <2>3. lines \in Seq(ConfigLine) /\ 0 <= Len(lines)
    BY <1>1, <1>3 DEF ConfigAssumption
  <2>4. read \in Included
    <3>1. MaxOpen - 1 \in 0 .. MaxOpen
      BY <1>1, <1>3
    <3>2. Reading(disk) \in [0 .. MaxOpen -> Included]
      BY <1>1, ReadingStep
    <3> QED
      BY <3>1, <3>2
  <2>5. AfterLines(lines, Empty, read)[0] = Well(Empty)
    <3> HIDE DEF lines, read
    <3> QED
      BY <1>2, <2>3, <2>4, AfterLinesStep
  <2> HIDE DEF fs, begun
  <2>6. SoFar(disk, fs, 1, begun[1]) = Well(Empty)
    BY <2>1, <2>2, <2>5 DEF SoFar
  <2>7. Chain(disk, fs, begun)
    BY <2>1, <2>2 DEF Chain
  <2>8. ConfigTypeOK'
    <3>1. frames' = fs /\ frames' \in Seq(Frames) /\ Len(frames') = 1 /\ opened' = 1 /\ 1 <= MaxOpen
      <4>1. frames' = fs /\ frames' \in Seq(Frames) /\ Len(frames') = 1
        BY <2>1
      <4>2. opened' = 1 /\ 1 <= MaxOpen
        BY <1>1, <1>3
      <4> QED
        BY <4>1, <4>2
    <3>2. \A i \in 1 .. 1 : i = 1
      OBVIOUS
    <3>3. \A i \in 1 .. Len(frames') : frames'[i].file \in DOMAIN disk' /\ frames'[i].read <= Len(disk'[frames'[i].file])
      BY <1>1, <1>3, <2>1, <2>3, <3>1, <3>2 DEF lines
    <3> QED
      BY <1>1, <1>2, <1>3, <3>1, <3>3 DEF ConfigTypeOK
  <2>9. Outcome' = Well(Empty)
    BY <1>1, <1>3 DEF Outcome
  <2>10. Len(frames') = 1 /\ frames' # <<>>
    <3>1. Len(frames') = 1
      BY <2>1
    <3>2. frames' = <<>> => Len(frames') = 0
      OBVIOUS
    <3> QED
      BY <3>1, <3>2
  <2>11. Chain(disk', frames', begun) /\ SoFar(disk', frames', Len(frames'), begun[Len(frames')]) = Outcome'
    BY <1>1, <2>1, <2>6, <2>7, <2>9, <2>10
  <2> QED
    BY <2>8, <2>10, <2>11 DEF InvConfig, Loading
<1>4. CASE /\ Main \notin DOMAIN disk \/ opened = MaxOpen
           /\ frames' = <<>> /\ answer' = "false" /\ opened' = opened
  <2>1. ConfigTypeOK'
    BY <1>1, <1>2, <1>4 DEF ConfigTypeOK
  <2>2. Reading(disk)[MaxOpen][<<Main, Empty>>] = Fault(Empty)
    <3>1. MaxOpen \in 0 .. MaxOpen
      BY <1>1
    <3>2. Reading(disk)[MaxOpen][<<Main, Empty>>] =
             IF Main \in DOMAIN disk /\ MaxOpen > 0
             THEN AfterLines(disk[Main], Empty, Reading(disk)[MaxOpen - 1])[Len(disk[Main])] ELSE Fault(Empty)
      BY <1>1, <1>2, <3>1, ReadingOf
    <3>3. ~(Main \in DOMAIN disk /\ MaxOpen > 0)
      BY <1>1, <1>4
    <3> QED
      BY <3>2, <3>3
  <2>3. [ok |-> answer', env |-> envirment_map'] = Fault(Empty)
    BY <1>1, <1>4 DEF Fault
  <2> QED
    BY <1>1, <1>4, <2>1, <2>2, <2>3 DEF InvConfig, Loading
<1> QED
  BY <1>3, <1>4 DEF Load, Enter

LEMMA IncludeInv ==
    ASSUME ConfigAssumption, ConfigTypeOK, frames # <<>>, answer # "false",
           Innermost.read < Len(disk[Innermost.file]),
           NEW begun, Chain(disk, frames, begun),
           SoFar(disk, frames, Len(frames), begun[Len(frames)]) = Outcome,
           Line.kind = "include", Enter(Expand(envirment_map, Line.value), ReadOn),
           UNCHANGED <<disk, envirment_map, loads>>
    PROVE  InvConfig'
<1> DEFINE L == Len(frames)
           f == Expand(envirment_map, Line.value)
           room == MaxOpen - L
           e == envirment_map
<1>1. L \in 1 .. MaxOpen /\ MaxOpen \in Nat /\ room \in 0 .. MaxOpen /\ opened = L /\ disk \in Disks /\ e \in Envs
  <2>1. L \in 1 .. MaxOpen /\ MaxOpen \in Nat
    BY Standing
  <2> QED
    BY <2>1 DEF ConfigTypeOK
<1>2. Line \in ConfigLine /\ After(begun)[Innermost.read + 1] = AfterLine(Line, envirment_map, Reading(disk)[room])
  BY AfterNext
<1>3. f \in Seq(Texts)
  <2>1. Line.value \in Seq(Keys \cup Texts)
    BY <1>2 DEF ConfigLine
  <2> QED
    BY <1>1, <2>1, ExpandType
<1>4. AfterLine(Line, envirment_map, Reading(disk)[room]) = Reading(disk)[room][<<f, e>>]
  BY DEF AfterLine
<1>5. disk' = disk /\ envirment_map' = e /\ loads' = loads
  OBVIOUS
<1>6. \/ /\ f \in DOMAIN disk /\ opened < MaxOpen
         /\ frames' = Append(ReadOn, [file |-> f, read |-> 0])
         /\ opened' = opened + 1 /\ answer' = "none"
      \/ /\ f \notin DOMAIN disk \/ opened = MaxOpen
         /\ frames' = ReadOn /\ answer' = "false" /\ opened' = opened
  BY DEF Enter
<1>7. /\ ReadOn \in Seq(Frames) /\ Len(ReadOn) = L
      /\ ReadOn[L].file = Innermost.file /\ ReadOn[L].read = Innermost.read + 1
      /\ \A i \in 1 .. L : ReadOn[i].file \in DOMAIN disk /\ ReadOn[i].read <= Len(disk[ReadOn[i].file])
      /\ Chain(disk, ReadOn, begun)
  <2>1. L \in 1 .. L
    BY <1>1
  <2> QED
    BY <2>1, ReadOnChain DEF Innermost
<1>8. begun \in Seq(Envs) /\ Len(begun) = L
  BY DEF Chain
<1>9. Reading(disk)[room][<<f, e>>] =
         IF f \in DOMAIN disk /\ room > 0
         THEN AfterLines(disk[f], e, Reading(disk)[room - 1])[Len(disk[f])] ELSE Fault(e)
  <2> HIDE DEF room, f, e
  <2> QED
    BY <1>1, <1>3, ReadingOf
<1> HIDE DEF f, e
<1>10. CASE /\ f \in DOMAIN disk /\ opened < MaxOpen
            /\ frames' = Append(ReadOn, [file |-> f, read |-> 0])
            /\ opened' = opened + 1 /\ answer' = "none"
  <2> DEFINE fs == Append(ReadOn, [file |-> f, read |-> 0])
             envs == Append(begun, e)
             lines == disk[f]
             read == Reading(disk)[MaxOpen - (L + 1)]
  <2>1. [file |-> f, read |-> 0] \in Frames
    BY <1>3 DEF Frames
  <2>2. /\ fs \in Seq(Frames) /\ Len(fs) = L + 1 /\ fs[L + 1].file = f /\ fs[L + 1].read = 0
        /\ \A i \in 1 .. L : fs[i] = ReadOn[i]
    BY <1>1, <1>7, <2>1
  <2>3. /\ envs \in Seq(Envs) /\ Len(envs) = L + 1 /\ envs[L + 1] = e
        /\ \A i \in 1 .. L : envs[i] = begun[i]
    BY <1>1, <1>8
  <2>4. lines \in Seq(ConfigLine) /\ 0 <= Len(lines)
    BY <1>1, <1>10 DEF ConfigAssumption
  <2>5. read \in Included
    <3>1. MaxOpen - (L + 1) \in 0 .. MaxOpen
      BY <1>1, <1>10
    <3>2. Reading(disk) \in [0 .. MaxOpen -> Included]
      BY <1>1, ReadingStep
    <3> QED
      BY <3>1, <3>2
  <2>6. AfterLines(lines, e, read)[0] = Well(e)
    <3> HIDE DEF lines, read
    <3> QED
      BY <1>1, <2>4, <2>5, AfterLinesStep
  <2> HIDE DEF fs, envs
  <2>7. SoFar(disk, fs, L + 1, envs[L + 1]) = Well(e)
    BY <2>2, <2>3, <2>6 DEF SoFar
  <2> HIDE DEF lines, read
  <2>8. ASSUME NEW i \in 1 .. L + 1 - 1
        PROVE  SoFar(disk, fs, i, envs[i]) = Reading(disk)[MaxOpen - i][<<fs[i + 1].file, envs[i + 1]>>]
    <3>1. i \in 1 .. L /\ fs[i] = ReadOn[i] /\ envs[i] = begun[i]
      BY <1>1, <2>2, <2>3
    <3>2. SoFar(disk, fs, i, envs[i]) = SoFar(disk, ReadOn, i, begun[i])
      BY <3>1 DEF SoFar
    <3>3. CASE i = L
      <4>1. SoFar(disk, ReadOn, L, begun[L]) = After(begun)[Innermost.read + 1]
        BY <1>7 DEF SoFar, After
      <4>2. SoFar(disk, ReadOn, L, begun[L]) = Reading(disk)[room][<<f, e>>]
        BY <1>2, <1>4, <4>1
      <4> QED
        BY <2>2, <2>3, <3>2, <3>3, <4>2
    <3>4. CASE i # L
      <4>1. i \in 1 .. Len(ReadOn) - 1 /\ i + 1 \in 1 .. L
        BY <1>1, <1>7, <3>1, <3>4
      <4>2. SoFar(disk, ReadOn, i, begun[i]) = Reading(disk)[MaxOpen - i][<<ReadOn[i + 1].file, begun[i + 1]>>]
        BY <1>7, <4>1 DEF Chain
      <4>3. fs[i + 1] = ReadOn[i + 1] /\ envs[i + 1] = begun[i + 1]
        BY <2>2, <2>3, <4>1
      <4> QED
        BY <3>2, <4>2, <4>3
    <3> QED
      BY <3>3, <3>4
  <2>9. Chain(disk, fs, envs)
    <3>1. 1 \in 1 .. L
      BY <1>1
    <3>2. ReadOn[1].file = Main /\ begun[1] = Empty
      BY <1>7 DEF Chain
    <3>3. fs[1].file = Main /\ envs[1] = Empty
      BY <2>2, <2>3, <3>1, <3>2
    <3> QED
      BY <2>2, <2>3, <2>8, <3>3 DEF Chain
  <2>10. ConfigTypeOK'
    <3>1. \A i \in 1 .. L + 1 : fs[i].file \in DOMAIN disk /\ fs[i].read <= Len(disk[fs[i].file])
      <4> TAKE i \in 1 .. L + 1
      <4>1. CASE i = L + 1
        BY <1>10, <2>2, <2>4, <4>1 DEF lines
      <4>2. CASE i # L + 1
        <5>1. i \in 1 .. L
          BY <1>1, <4>2
        <5> QED
          BY <1>7, <2>2, <5>1
      <4> QED
        BY <4>1, <4>2
    <3>2. frames' = fs /\ opened' = L + 1 /\ L + 1 <= MaxOpen
      BY <1>1, <1>10 DEF fs
    <3> QED
      BY <1>1, <1>5, <1>10, <2>2, <3>1, <3>2 DEF ConfigTypeOK
  <2>11. Outcome' = Well(e)
    BY <1>5, <1>10 DEF Outcome
  <2>12. frames' = fs /\ Len(frames') = L + 1 /\ frames' # <<>>
    BY <1>1, <1>10, <2>2 DEF fs
  <2>13. Chain(disk', frames', envs) /\ SoFar(disk', frames', Len(frames'), envs[Len(frames')]) = Outcome'
    BY <1>5, <2>7, <2>9, <2>11, <2>12
  <2> QED
    BY <2>10, <2>12, <2>13 DEF InvConfig, Loading
<1>11. CASE /\ f \notin DOMAIN disk \/ opened = MaxOpen
            /\ frames' = ReadOn /\ answer' = "false" /\ opened' = opened
  <2>1. ~(f \in DOMAIN disk /\ room > 0)
    BY <1>1, <1>11
  <2>2. Outcome' = Fault(e)
    BY <1>5, <1>11 DEF Outcome
  <2>3. After(begun)[Innermost.read + 1] = Outcome'
    BY <1>2, <1>4, <1>9, <2>1, <2>2
  <2>4. envirment_map' \in Envs
    BY <1>1, <1>5
  <2> QED
    BY <1>5, <1>11, <2>3, <2>4, ReadOnInv
<1> QED
  BY <1>6, <1>10, <1>11

LEMMA ConfigStep ==
    ASSUME ConfigAssumption, InvConfig, ConfigNext
    PROVE  InvConfig'
<1>1. CASE Load
  BY <1>1, BeginInv
<1>2. ASSUME frames # <<>>, ReadLine \/ EndOfFile \/ Unwind
      PROVE  InvConfig'
  <2> USE <1>2
  <2>1. ConfigTypeOK /\ envirment_map \in Envs /\ answer \in {"none", "true", "false"}
    BY DEF InvConfig, ConfigTypeOK
  <2>2. PICK begun : /\ Chain(disk, frames, begun)
                     /\ SoFar(disk, frames, Len(frames), begun[Len(frames)]) = Outcome
    BY DEF InvConfig, Loading
  <2> DEFINE lines == disk[Innermost.file]
             n == Innermost.read
             env == begun[Len(frames)]
             read == Reading(disk)[MaxOpen - Len(frames)]
             a == AfterLines(lines, env, read)
  <2>3. lines \in Seq(ConfigLine) /\ n \in 0 .. Len(lines) /\ env \in Envs /\ read \in Included
    BY <2>1, <2>2, Standing
  <2>4. a[n] = Outcome /\ After(begun) = a /\ lines = disk[frames[Len(frames)].file]
    BY <2>2 DEF SoFar, After, Innermost
  <2>5. \A m \in 0 .. Len(lines) : a[m].ok = "false" => a[Len(lines)] = a[m]
    <3> HIDE DEF lines, env, read
    <3> QED
      BY <2>3, FaultStays
  <2>6. ASSUME NEW ok \in {"true", "false"}, Leave(ok), UNCHANGED <<disk, envirment_map, loads>>,
               a[Len(lines)] = [ok |-> ok, env |-> envirment_map]
        PROVE  InvConfig'
    <3>1. AfterLines(disk[frames[Len(frames)].file], begun[Len(frames)], Reading(disk)[MaxOpen - Len(frames)])
             [Len(disk[frames[Len(frames)].file])] = [ok |-> ok, env |-> envirment_map]
      BY <2>4, <2>6
    <3> QED
      BY <2>1, <2>2, <2>6, <3>1, LeaveInv
  <2>7. ASSUME ReadLine PROVE InvConfig'
    <3>1. answer # "false" /\ n < Len(lines) /\ UNCHANGED <<disk, loads>>
      BY <2>7 DEF ReadLine
    <3>2. Line \in ConfigLine /\ a[n + 1] = AfterLine(Line, envirment_map, read)
      BY <2>1, <2>2, <2>4, <3>1, AfterNext
    <3>3. Line.kind \in {"comment", "novalue", "pair", "include"} /\ Line.key \in Keys /\ Line.value \in Seq(Keys \cup Texts)
      BY <3>2 DEF ConfigLine
    <3>4. CASE Line.kind = "comment"
      <4>1. frames' = ReadOn /\ UNCHANGED <<envirment_map, opened, answer>>
        BY <2>7, <3>4 DEF ReadLine
      <4>2. a[n + 1] = Outcome'
        BY <3>1, <3>2, <3>4, <4>1 DEF AfterLine, Outcome
      <4>3. After(begun)[Innermost.read + 1] = Outcome'
        BY <2>4, <4>2
      <4>4. envirment_map' \in Envs /\ answer' \in {"none", "true", "false"}
        BY <2>1, <4>1
      <4> QED
        BY <2>1, <2>2, <3>1, <4>1, <4>3, <4>4, ReadOnInv
    <3>5. CASE Line.kind = "novalue"
      <4>1. Leave("false") /\ UNCHANGED envirment_map
        BY <2>7, <3>5 DEF ReadLine
      <4>2. a[n + 1] = Fault(envirment_map)
        BY <3>2, <3>5 DEF AfterLine
      <4>3. n + 1 \in 0 .. Len(lines) /\ a[n + 1].ok = "false"
        BY <2>1, <2>3, <3>1, <4>2, WellAndFault
      <4>4. a[Len(lines)] = [ok |-> "false", env |-> envirment_map]
        BY <2>5, <4>2, <4>3 DEF Fault
      <4> QED
        BY <2>6, <3>1, <4>1, <4>4
    <3>6. CASE Line.kind = "pair"
      <4>1. frames' = ReadOn /\ fl_setenv(Line.key, Expand(envirment_map, Line.value)) /\ UNCHANGED <<opened, answer>>
        BY <2>7, <3>6 DEF ReadLine
      <4>2. envirment_map' = [envirment_map EXCEPT ![Line.key] = Expand(envirment_map, Line.value)]
        BY <4>1 DEF fl_setenv
      <4>3. Expand(envirment_map, Line.value) \in Seq(Texts)
        BY <2>1, <3>3, ExpandType
      <4>4. envirment_map' \in Envs
        BY <2>1, <3>3, <4>2, <4>3 DEF Envs
      <4>5. a[n + 1] = Outcome'
        BY <3>1, <3>2, <3>6, <4>1, <4>2 DEF AfterLine, Outcome
      <4>6. After(begun)[Innermost.read + 1] = Outcome'
        BY <2>4, <4>5
      <4>7. answer' \in {"none", "true", "false"}
        BY <2>1, <4>1
      <4> QED
        BY <2>1, <2>2, <3>1, <4>1, <4>4, <4>6, <4>7, ReadOnInv
    <3>7. CASE Line.kind = "include"
      <4>1. Enter(Expand(envirment_map, Line.value), ReadOn) /\ UNCHANGED envirment_map
        BY <2>7, <3>7 DEF ReadLine
      <4> QED
        BY <2>1, <2>2, <3>1, <3>7, <4>1, IncludeInv
    <3> QED
      BY <3>3, <3>4, <3>5, <3>6, <3>7
  <2>8. ASSUME EndOfFile PROVE InvConfig'
    <3>1. answer # "false" /\ n = Len(lines) /\ Leave("true") /\ UNCHANGED <<disk, envirment_map, loads>>
      BY <2>8 DEF EndOfFile
    <3>2. a[Len(lines)] = [ok |-> "true", env |-> envirment_map]
      BY <2>4, <3>1 DEF Outcome, Well
    <3> QED
      BY <2>6, <3>1, <3>2
  <2>9. ASSUME Unwind PROVE InvConfig'
    <3>1. answer = "false" /\ Leave("false") /\ UNCHANGED <<disk, envirment_map, loads>>
      BY <2>9 DEF Unwind
    <3>2. a[n] = Fault(envirment_map) /\ a[n].ok = "false"
      BY <2>1, <2>4, <3>1, WellAndFault DEF Outcome
    <3>3. a[Len(lines)] = [ok |-> "false", env |-> envirment_map]
      BY <2>3, <2>5, <3>2 DEF Fault
    <3> QED
      BY <2>6, <3>1, <3>3
  <2> QED
    BY <2>7, <2>8, <2>9
<1> QED
  BY <1>1, <1>2 DEF ConfigNext, ReadLine, EndOfFile, Unwind

\* The inductive invariant of loading: every file that is open has made of the
\* environment, so far, what its lines say, and the ones around it wait for what it
\* will make of it (envirment.cpp, fl_load_config).
THEOREM ConfigInvariant ==
    ASSUME ConfigAssumption
    PROVE  ConfigSpec => []InvConfig
<1>1. ConfigInit => InvConfig
  BY ConfigInitInv
<1>2. InvConfig /\ [ConfigNext]_configVars => InvConfig'
  <2>1. ASSUME InvConfig, ConfigNext PROVE InvConfig'
    BY <2>1, ConfigStep
  <2>2. ASSUME InvConfig, UNCHANGED configVars PROVE InvConfig'
    BY <2>2 DEF configVars, InvConfig, ConfigTypeOK, Loading, Outcome
  <2> QED
    BY <2>1, <2>2
<1> QED
  BY <1>1, <1>2, PTL DEF ConfigSpec

\* After any load of any files, right or wrong, present or not, nested or in a
\* circle, every file is closed, and environment and answer are what the files say.
THEOREM LoadedAsWritten ==
    ASSUME ConfigAssumption
    PROVE  ConfigSpec => []LoadsAsWritten
<1>1. InvConfig => LoadsAsWritten
  BY DEF InvConfig, ConfigTypeOK, Loading, LoadsAsWritten
<1> QED
  BY <1>1, ConfigInvariant, PTL
=============================================================================
