---------------------------- MODULE LuaGCProofs ----------------------------
(***************************************************************************)
(* That the incremental collector of the Lua interpreter erases nothing    *)
(* the program can still reach, for any set of objects of any kinds and    *)
(* any bounds.  The invariant is the one of a tricolour marking, kept by   *)
(* the barriers while objects are marked, and what a sweep has still to do *)
(* while they are swept.                                                   *)
(***************************************************************************)
EXTENDS LuaGC, TLAPS

\* Objects that no sweep erases.
live == {o \in alloc : ~isdead(o)}

Kinds == {"thread", "table", "weak", "closure", "string"}
Colours == Whites \cup {"gray", "black"}
States == {"pause", "propagate", "atomic", "swpallgc", "swpfinobj", "swptobefnz", "callfin"}

TypeOK ==
    /\ alloc \subseteq Obj
    /\ refs \in [Obj -> SUBSET Obj]
    /\ mark \in [Obj -> Colours]
    /\ currentwhite \in Whites
    /\ gcstate \in States
    /\ gray \subseteq Obj /\ grayagain \subseteq Obj /\ sweep \subseteq Obj
    /\ strcache \subseteq Strings

\* Every object but the main thread is in one of the three lists, and what is
\* still to be swept is in the list that is being swept.
Owned ==
    /\ alloc = {Main} \cup allgc \cup finobj \cup tobefnz
    /\ Main \notin allgc \cup finobj \cup tobefnz
    /\ allgc \cap finobj = {} /\ allgc \cap tobefnz = {} /\ finobj \cap tobefnz = {}
    /\ (finobj \cup tobefnz) \cap Strings = {}
    /\ gcstate = "swpallgc" => sweep \subseteq allgc
    /\ gcstate = "swpfinobj" => sweep \subseteq finobj
    /\ gcstate = "swptobefnz" => sweep \subseteq tobefnz
    /\ ~issweepphase => sweep = {}

NoFields == \A o \in Obj : o \in Strings \/ o \notin alloc => refs[o] = {}

\* What is live has only live objects in its fields.
LiveClosed ==
    /\ {Main} \cup finobj \cup tobefnz \cup strcache \subseteq live
    /\ \A o \in live : refs[o] \subseteq live

\* There are dead objects only while allgc is swept, and the sweep will meet them.
DeadToSweep ==
    \A o \in alloc : isdead(o) => gcstate = "swpallgc" /\ o \in sweep

\* The colours of the marking are still to be removed by the sweep, or there are none.
MarkedToSweep ==
    \A o \in alloc : ~iswhite(o) =>
        \/ keepinvariant
        \/ gcstate = "swpallgc" /\ o \in sweep \cup finobj \cup tobefnz \cup {Main}
        \/ gcstate = "swpfinobj" /\ o \in sweep \cup tobefnz \cup {Main}
        \/ gcstate = "swptobefnz" /\ o \in sweep \cup {Main}

\* Threads and weak tables are left for the atomic step.
NeverBlack == \A o \in alloc : Kind[o] \in {"thread", "weak"} => mark[o] # "black"

\* While objects are marked, those that are gray are in a list and the black
\* ones have no white object in a field.
Tricolour ==
    keepinvariant =>
        /\ gray \cup grayagain \subseteq alloc
        /\ ~iswhite(Main)
        /\ \A o \in alloc : mark[o] = "gray" => o \in gray \cup grayagain
        /\ \A o \in alloc : isblack(o) => \A v \in refs[o] : ~iswhite(v)

Inv == /\ TypeOK
       /\ Owned
       /\ NoFields
       /\ LiveClosed
       /\ DeadToSweep
       /\ MarkedToSweep
       /\ NeverBlack
       /\ Tricolour

-----------------------------------------------------------------------------
\* The interpreter starts with the main thread only.
LEMMA InitInv ==
    ASSUME CollectorAssumption, CollectorInit
    PROVE  Inv
<1>1. TypeOK
  BY DEF CollectorInit, TypeOK, CollectorAssumption, Whites, Colours, States
<1>2. Owned /\ NoFields
  BY DEF CollectorInit, Owned, NoFields, CollectorAssumption, Strings, issweepphase
<1>3. mark[Main] = "white0"
  BY DEF CollectorInit, CollectorAssumption
<1>4. LiveClosed /\ DeadToSweep /\ NeverBlack
  BY <1>3 DEF CollectorInit, LiveClosed, DeadToSweep, NeverBlack, CollectorAssumption, live, isdead, otherwhite
<1>5. MarkedToSweep /\ Tricolour
  BY <1>3 DEF CollectorInit, MarkedToSweep, Tricolour, iswhite, Whites, keepinvariant
<1> QED
  BY <1>1, <1>2, <1>4, <1>5 DEF Inv

\* A new object has the current white and no field.
LEMMA NewInv ==
    ASSUME CollectorAssumption, Inv, NEW o \in Obj, New(o)
    PROVE  Inv'
<1> USE DEF New, Inv, CollectorAssumption
<1>1. /\ TypeOK' /\ Owned' /\ NoFields' /\ NeverBlack'
  <2>1. TypeOK'
    BY DEF TypeOK, Colours, lists, Strings
  <2>2. Owned'
    BY DEF Owned, lists, issweepphase, Strings, TypeOK
  <2>3. NoFields'
    BY DEF NoFields, TypeOK, Strings, Owned
  <2>4. NeverBlack'
    BY DEF NeverBlack, TypeOK, Whites
  <2> QED BY <2>1, <2>2, <2>3, <2>4
<1>2. live' = live \cup {o}
  BY DEF live, isdead, otherwhite, TypeOK, Whites
<1>3. LiveClosed'
  BY <1>2 DEF LiveClosed, TypeOK, Owned, live
<1>4. DeadToSweep' /\ MarkedToSweep'
  BY DEF DeadToSweep, MarkedToSweep, isdead, otherwhite, iswhite, TypeOK, Whites, keepinvariant, lists
<1>5. Tricolour'
  <2> SUFFICES ASSUME keepinvariant
               PROVE  /\ gray \cup grayagain \subseteq alloc
                      /\ mark'[Main] \notin Whites
                      /\ \A x \in alloc' : mark'[x] = "gray" => x \in gray \cup grayagain
                      /\ \A x \in alloc' : mark'[x] = "black" =>
                             \A v \in refs'[x] : mark'[v] \notin Whites
    BY DEF Tricolour, keepinvariant, lists, iswhite, isblack
  <2>1. \A x \in alloc : mark[x] = "black" => refs[x] \subseteq alloc \ {o}
    BY DEF LiveClosed, live, isdead, otherwhite
  <2>2. o # Main /\ Main \in alloc /\ mark'[o] \in Whites /\ mark[Main] # "black"
    BY DEF TypeOK, Owned, NeverBlack
  <2>3. \A x \in Obj \ {o} : mark'[x] = mark[x]
    BY DEF TypeOK
  <2>4. \A x \in alloc : x # Main => refs'[x] = refs[x]
    BY DEF TypeOK
  <2> QED
    BY <2>1, <2>2, <2>3, <2>4 DEF Tricolour, TypeOK, iswhite, isblack, Whites
<1> QED
  BY <1>1, <1>3, <1>4, <1>5

\* What the program stores and where it stores it is live.
LEMMA HeldLive ==
    ASSUME CollectorAssumption, Inv
    PROVE  /\ Held \subseteq live /\ live \subseteq alloc /\ alloc \subseteq Obj
           /\ \A o \in live : refs[o] \subseteq live
           /\ Main \in live /\ Main \notin Strings
  BY DEF Inv, Held, LiveClosed, live, TypeOK, CollectorAssumption, Strings

\* A store with its barrier, whatever the colours of the two objects are.
LEMMA StoreInv ==
    ASSUME CollectorAssumption, Inv, NEW o \in Obj, NEW v \in Obj, Store(o, v)
    PROVE  Inv'
<1> USE DEF Inv, Store
<1>0. /\ o \in live /\ v \in live /\ o \in alloc /\ v \in alloc /\ o \notin Strings
      /\ live \subseteq alloc /\ Main \in alloc
  BY HeldLive, CollectorAssumption DEF Held
<1>1. /\ refs' \in [Obj -> SUBSET Obj]
      /\ refs'[o] = refs[o] \cup {v}
      /\ \A x \in Obj : x # o => refs'[x] = refs[x]
  BY DEF TypeOK
<1>2. NoFields'
  BY <1>0, <1>1 DEF NoFields, Strings
<1>3. (\A x \in alloc : isdead(x) <=> isdead(x)') => LiveClosed'
  <2> SUFFICES ASSUME \A x \in alloc : isdead(x) <=> isdead(x)'
               PROVE  LiveClosed'
    OBVIOUS
  <2>1. live' = live
    BY DEF live
  <2> QED
    BY <2>1, <1>0, <1>1 DEF LiveClosed, TypeOK, owners
<1>4. CASE ~(isblack(o) /\ iswhite(v))
  <2>1. UNCHANGED <<mark, lists>>
    BY <1>4 DEF Barrier
  <2>2. TypeOK' /\ Owned'
    BY <2>1, <1>1 DEF TypeOK, Owned, lists, owners, issweepphase, Strings
  <2>3. LiveClosed'
    BY <2>1, <1>3 DEF isdead, otherwhite
  <2>4. DeadToSweep' /\ MarkedToSweep' /\ NeverBlack'
    BY <2>1 DEF DeadToSweep, MarkedToSweep, NeverBlack, isdead, otherwhite, iswhite, keepinvariant, owners
  <2>5. Tricolour'
    BY <2>1, <1>0, <1>1, <1>4 DEF Tricolour, keepinvariant, lists, iswhite, isblack, TypeOK
  <2> QED BY <2>2, <2>3, <2>4, <2>5, <1>2
<1>5. CASE isblack(o) /\ iswhite(v) /\ Kind[o] \in {"table", "weak"}
  <2>1. mark' = [mark EXCEPT ![o] = "gray"] /\ grayagain' = grayagain \cup {o} /\ gray' = gray
    BY <1>5 DEF Barrier
  <2>2. TypeOK' /\ Owned'
    BY <2>1, <1>1 DEF TypeOK, Owned, owners, issweepphase, Strings, Colours
  <2>3. /\ mark[o] = "black" /\ mark'[o] = "gray"
        /\ \A x \in Obj : x # o => mark'[x] = mark[x]
    BY <1>5, <2>1 DEF TypeOK, isblack
  <2>4. LiveClosed'
    BY <2>3, <1>3 DEF isdead, otherwhite, TypeOK
  <2>5. DeadToSweep' /\ MarkedToSweep' /\ NeverBlack'
    BY <2>3 DEF DeadToSweep, MarkedToSweep, NeverBlack, isdead, otherwhite, iswhite, keepinvariant,
                owners, TypeOK, Whites
  <2>6. Tricolour'
    BY <2>1, <2>3, <1>0, <1>1 DEF Tricolour, keepinvariant, iswhite, isblack, TypeOK, Whites, owners
  <2> QED BY <2>2, <2>4, <2>5, <2>6, <1>2
<1>6. CASE isblack(o) /\ iswhite(v) /\ Kind[o] \notin {"table", "weak"} /\ keepinvariant
  <2>1. mark' = Marked({v}) /\ gray' = gray \cup ToTraverse({v}) /\ grayagain' = grayagain
    BY <1>6 DEF Barrier
  <2>2. /\ mark' \in [Obj -> Colours] /\ mark'[v] = Colour(v)
        /\ \A x \in Obj : x # v => mark'[x] = mark[x]
        /\ gray' = gray \cup ({v} \ Strings)
    BY <2>1, <1>6 DEF TypeOK, Marked, Colour, Colours, ToTraverse
  <2>3. TypeOK' /\ Owned'
    BY <2>1, <2>2, <1>1 DEF TypeOK, Owned, owners, issweepphase, Strings
  <2>4. LiveClosed'
    BY <2>2, <1>0, <1>3 DEF isdead, otherwhite, TypeOK, Colour, live
  <2>5. DeadToSweep' /\ MarkedToSweep' /\ NeverBlack'
    BY <2>2, <1>6 DEF DeadToSweep, MarkedToSweep, NeverBlack, isdead, otherwhite, iswhite, keepinvariant,
                owners, TypeOK, Whites, Colour, Strings
  <2>6. Tricolour'
    <3>1. \A x \in alloc : mark'[x] = "black" => \A w \in refs'[x] : mark'[w] \notin Whites
      BY <2>2, <1>0, <1>1, <1>6
         DEF Tricolour, iswhite, isblack, TypeOK, Colour, Whites, NoFields
    <3>2. gray' \cup grayagain' \subseteq alloc
      BY <2>1, <2>2, <1>0, <1>6 DEF Tricolour
    <3>3. ~iswhite(Main)'
      BY <2>2, <1>0, <1>6 DEF Tricolour, iswhite, TypeOK, Colour, Whites
    <3>4. ASSUME NEW x \in alloc, mark'[x] = "gray" PROVE x \in gray' \cup grayagain'
      <4>1. CASE x = v
        BY <2>2, <3>4, <4>1 DEF Colour
      <4>2. CASE x # v
        <5>1. mark[x] = "gray"
          BY <2>2, <3>4, <4>2, <1>0 DEF TypeOK
        <5>2. x \in gray \cup grayagain
          BY <5>1, <1>6 DEF Tricolour
        <5> QED
          BY <5>2, <2>1
      <4> QED
        BY <4>1, <4>2
    <3> QED
      BY <3>1, <3>2, <3>3, <3>4, <1>0 DEF Tricolour, iswhite, isblack, Whites
  <2> QED BY <2>3, <2>4, <2>5, <2>6, <1>2
<1>7. CASE isblack(o) /\ iswhite(v) /\ Kind[o] \notin {"table", "weak"} /\ ~keepinvariant
  <2>1. mark' = [mark EXCEPT ![o] = currentwhite] /\ UNCHANGED lists
    BY <1>7 DEF Barrier
  <2>2. TypeOK' /\ Owned'
    BY <2>1, <1>1 DEF TypeOK, Owned, owners, lists, issweepphase, Strings, Colours
  <2>3. /\ mark[o] = "black" /\ mark'[o] = currentwhite
        /\ \A x \in Obj : x # o => mark'[x] = mark[x]
    BY <1>7, <2>1 DEF TypeOK, isblack
  <2>4. LiveClosed'
    BY <2>3, <1>3 DEF isdead, otherwhite, TypeOK, Whites
  <2>5. DeadToSweep' /\ MarkedToSweep' /\ NeverBlack'
    BY <2>3 DEF DeadToSweep, MarkedToSweep, NeverBlack, isdead, otherwhite, iswhite, keepinvariant,
                owners, TypeOK, Whites
  <2>6. Tricolour'
    BY <1>7 DEF Tricolour, keepinvariant
  <2> QED BY <2>2, <2>4, <2>5, <2>6, <1>2
<1> QED
  BY <1>4, <1>5, <1>6, <1>7

\* Getting hold of a live object changes nothing for the collector.
LEMMA HoldInv ==
    ASSUME CollectorAssumption, Inv, NEW v \in live,
           refs' = [refs EXCEPT ![Main] = @ \cup {v}],
           strcache' \in {strcache, strcache \cup {v}}, v \in Strings \/ strcache' = strcache,
           UNCHANGED <<alloc, mark, currentwhite, gcstate, lists, sweep, owners>>
    PROVE  Inv'
<1> USE DEF Inv
<1>0. Main \in live /\ v \in alloc /\ live \subseteq alloc /\ alloc \subseteq Obj /\ Main \notin Strings
  BY HeldLive
<1>1. /\ refs' \in [Obj -> SUBSET Obj] /\ refs'[Main] = refs[Main] \cup {v}
      /\ \A x \in Obj : x # Main => refs'[x] = refs[x]
  BY <1>0 DEF TypeOK
<1>2. TypeOK' /\ Owned'
  BY <1>1, <1>0 DEF TypeOK, Owned, lists, owners, issweepphase, Strings
<1>3. NoFields'
  BY <1>0, <1>1 DEF NoFields, Strings
<1>4. live' = live
  BY DEF live, isdead, otherwhite
<1>5. LiveClosed'
  BY <1>0, <1>1, <1>4 DEF LiveClosed, owners
<1>6. DeadToSweep' /\ MarkedToSweep' /\ NeverBlack'
  BY DEF DeadToSweep, MarkedToSweep, NeverBlack, isdead, otherwhite, iswhite, keepinvariant, owners
<1>7. Tricolour'
  BY <1>0, <1>1, CollectorAssumption
     DEF Tricolour, NeverBlack, keepinvariant, lists, iswhite, isblack, CollectorAssumption
<1> QED
  BY <1>2, <1>3, <1>5, <1>6, <1>7

LEMMA LoadInv ==
    ASSUME CollectorAssumption, Inv, NEW o \in Obj, NEW v \in Obj, Load(o, v)
    PROVE  Inv'
<1>1. v \in live
  BY HeldLive DEF Load
<1> QED
  BY <1>1, HoldInv DEF Load

LEMMA CachedInv ==
    ASSUME CollectorAssumption, Inv, NEW s \in Obj, Cached(s)
    PROVE  Inv'
<1>1. s \in live
  BY DEF Cached, Inv, LiveClosed
<1> QED
  BY <1>1, HoldInv DEF Cached

\* An object that is no longer in a field may become unreachable, but not the others.
LEMMA DropInv ==
    ASSUME CollectorAssumption, Inv, NEW o \in Obj, NEW v \in Obj, Drop(o, v)
    PROVE  Inv'
<1> USE DEF Inv, Drop
<1>1. refs' \in [Obj -> SUBSET Obj] /\ \A x \in Obj : refs'[x] \subseteq refs[x]
  BY DEF TypeOK
<1>2. TypeOK' /\ Owned'
  BY <1>1 DEF TypeOK, Owned, lists, owners, issweepphase, Strings
<1>3. NoFields'
  BY <1>1 DEF NoFields, Strings
<1>4. live' = live /\ live \subseteq Obj
  BY HeldLive DEF live, isdead, otherwhite
<1>5. LiveClosed'
  BY <1>1, <1>4 DEF LiveClosed, owners
<1>6. DeadToSweep' /\ MarkedToSweep' /\ NeverBlack'
  BY DEF DeadToSweep, MarkedToSweep, NeverBlack, isdead, otherwhite, iswhite, keepinvariant, owners
<1>7. Tricolour'
  BY <1>1 DEF Tricolour, TypeOK, keepinvariant, lists, iswhite, isblack
<1> QED
  BY <1>2, <1>3, <1>5, <1>6, <1>7

\* A string that was about to be swept is given the current white.
LEMMA InternInv ==
    ASSUME CollectorAssumption, Inv, NEW s \in Obj, Intern(s)
    PROVE  Inv'
<1> USE DEF Inv, Intern
<1>0. /\ Main \in live /\ live \subseteq alloc /\ alloc \subseteq Obj /\ Main \notin Strings
      /\ s \in alloc /\ s \in Strings
  BY HeldLive
<1>1. CASE ~isdead(s)
  <2>1. s \in live
    BY <1>0, <1>1 DEF live
  <2> QED
    BY <1>1, <1>0, <2>1, HoldInv
<1>2. CASE isdead(s)
  <2>1. /\ refs' \in [Obj -> SUBSET Obj] /\ refs'[Main] = refs[Main] \cup {s}
        /\ \A x \in Obj : x # Main => refs'[x] = refs[x]
    BY <1>0 DEF TypeOK
  <2>2. /\ mark' \in [Obj -> Colours] /\ mark'[s] = currentwhite /\ currentwhite \in Whites
        /\ \A x \in Obj : x # s => mark'[x] = mark[x]
    BY <1>2 DEF TypeOK, Colours
  <2>3. TypeOK' /\ Owned'
    BY <2>1, <2>2, <1>0 DEF TypeOK, Owned, lists, owners, issweepphase, Strings
  <2>4. NoFields'
    BY <1>0, <2>1 DEF NoFields, Strings
  <2>5. live' = live \cup {s}
    BY <2>2, <1>0 DEF live, isdead, otherwhite, Whites
  <2>6. LiveClosed'
    BY <1>0, <2>1, <2>4, <2>5 DEF LiveClosed, owners, NoFields, live
  <2>7. gcstate = "swpallgc" /\ DeadToSweep' /\ MarkedToSweep' /\ NeverBlack'
    BY <1>0, <1>2, <2>2 DEF DeadToSweep, MarkedToSweep, NeverBlack, isdead, otherwhite, iswhite, keepinvariant,
                owners, Whites
  <2>8. Tricolour'
    BY <2>7 DEF Tricolour, keepinvariant
  <2> QED
    BY <2>3, <2>4, <2>6, <2>7, <2>8
<1> QED
  BY <1>1, <1>2

\* An object moves to the list of those with a finalizer, swept if a sweep is on.
LEMMA SetFinalizerInv ==
    ASSUME CollectorAssumption, Inv, NEW o \in Obj, SetFinalizer(o)
    PROVE  Inv'
<1> USE DEF Inv, SetFinalizer
<1>0. /\ o \in live /\ o \in alloc /\ live \subseteq alloc /\ alloc \subseteq Obj /\ o \notin Strings
      /\ o # Main /\ currentwhite \in Whites
  BY HeldLive DEF Owned, Strings, TypeOK
<1>1. /\ mark' \in [Obj -> Colours]
      /\ issweepphase => mark'[o] = currentwhite
      /\ ~issweepphase => mark' = mark
      /\ \A x \in Obj : x # o => mark'[x] = mark[x]
  BY DEF TypeOK, Colours, Resweep
<1>2. TypeOK' /\ Owned'
  BY <1>0, <1>1 DEF TypeOK, Owned, lists, heap, issweepphase, Strings
<1>3. NoFields' /\ live' = live
  BY <1>0, <1>1 DEF NoFields, Strings, heap, live, isdead, otherwhite, Whites
<1>4. LiveClosed'
  BY <1>0, <1>3 DEF LiveClosed, heap
<1>5. DeadToSweep' /\ MarkedToSweep' /\ NeverBlack'
  BY <1>0, <1>1 DEF DeadToSweep, MarkedToSweep, NeverBlack, isdead, otherwhite, iswhite, keepinvariant,
              issweepphase, heap, Whites, live
<1>6. Tricolour'
  BY <1>1 DEF Tricolour, keepinvariant, issweepphase, heap, lists, iswhite, isblack
<1> QED
  BY <1>2, <1>3, <1>4, <1>5, <1>6

\* An object comes back from its finalizer as one that was not swept yet.
LEMMA CallFinalizerInv ==
    ASSUME CollectorAssumption, Inv, NEW o \in Obj, CallFinalizer(o)
    PROVE  Inv'
<1> USE DEF Inv, CallFinalizer
<1>0. /\ o \in live /\ o \in alloc /\ live \subseteq alloc /\ alloc \subseteq Obj /\ o \notin Strings
      /\ o # Main /\ currentwhite \in Whites /\ Main \in live /\ Main \notin Strings
  BY HeldLive DEF Owned, TypeOK, LiveClosed
<1>1. /\ mark' \in [Obj -> Colours]
      /\ issweepphase => mark'[o] = currentwhite
      /\ ~issweepphase => mark' = mark
      /\ \A x \in Obj : x # o => mark'[x] = mark[x]
  BY DEF TypeOK, Colours, Resweep
<1>2. /\ refs' \in [Obj -> SUBSET Obj] /\ refs'[Main] = refs[Main] \cup {o}
      /\ \A x \in Obj : x # Main => refs'[x] = refs[x]
  BY <1>0 DEF TypeOK
<1>3. TypeOK' /\ Owned'
  BY <1>0, <1>1, <1>2 DEF TypeOK, Owned, lists, issweepphase, Strings
<1>4. NoFields'
  BY <1>0, <1>2 DEF NoFields, Strings
<1>5. live' = live
  BY <1>0, <1>1 DEF live, isdead, otherwhite, Whites
<1>6. LiveClosed'
  BY <1>0, <1>2, <1>5 DEF LiveClosed
<1>7. DeadToSweep' /\ MarkedToSweep' /\ NeverBlack'
  BY <1>0, <1>1 DEF DeadToSweep, MarkedToSweep, NeverBlack, isdead, otherwhite, iswhite, keepinvariant,
              issweepphase, Whites, live
<1>8. Tricolour'
  BY <1>0, <1>1, <1>2, CollectorAssumption
     DEF Tricolour, NeverBlack, keepinvariant, issweepphase, lists, iswhite, isblack, CollectorAssumption
<1> QED
  BY <1>3, <1>4, <1>6, <1>7, <1>8

-----------------------------------------------------------------------------
\* The roots are marked when all objects are white.
LEMMA RestartInv ==
    ASSUME CollectorAssumption, Inv, Restart
    PROVE  Inv'
<1> USE DEF Inv, Restart
<1> DEFINE R == {Main} \cup tobefnz
<1>0. /\ R \subseteq live /\ live \subseteq alloc /\ alloc \subseteq Obj /\ R \cap Strings = {}
      /\ \A x \in alloc : iswhite(x) /\ ~isdead(x)
  BY HeldLive DEF Owned, LiveClosed, DeadToSweep, MarkedToSweep, keepinvariant
<1>1. /\ mark' \in [Obj -> Colours]
      /\ \A x \in R : mark'[x] = "gray"
      /\ \A x \in alloc \ R : mark'[x] = mark[x]
      /\ gray' = R /\ grayagain' = {}
  BY <1>0 DEF TypeOK, Colours, Marked, Colour, ToTraverse
<1>2. TypeOK' /\ Owned'
  BY <1>0, <1>1 DEF TypeOK, States, Owned, owners, heap, issweepphase, Strings
<1>3. NoFields' /\ live' = live
  BY <1>0, <1>1 DEF NoFields, Strings, heap, live, isdead, otherwhite
<1>4. LiveClosed'
  BY <1>3 DEF LiveClosed, heap, owners
<1>5. DeadToSweep' /\ MarkedToSweep' /\ NeverBlack'
  BY <1>0, <1>1 DEF DeadToSweep, MarkedToSweep, NeverBlack, isdead, otherwhite, iswhite, keepinvariant,
              heap, Whites, live
<1>6. Tricolour'
  BY <1>0, <1>1 DEF Tricolour, heap, iswhite, isblack, Whites
<1> QED
  BY <1>2, <1>3, <1>4, <1>5, <1>6

\* Traversing an object colours what is in its fields.
LEMMA PropagateInv ==
    ASSUME CollectorAssumption, Inv, NEW o \in Obj, Propagate(o)
    PROVE  Inv'
<1> USE DEF Inv, Propagate
<1> DEFINE S == IF o \in Weak THEN {} ELSE refs[o]
           again == Kind[o] \in {"thread", "weak"}
<1>0. /\ o \in alloc /\ live = alloc /\ alloc \subseteq Obj /\ S \subseteq alloc
      /\ keepinvariant /\ gcstate \notin {"swpallgc", "swpfinobj", "swptobefnz"}
  BY DEF Tricolour, keepinvariant, TypeOK, DeadToSweep, LiveClosed, live
<1>1. /\ mark' \in [Obj -> Colours]
      /\ mark'[o] = IF again THEN "gray" ELSE "black"
      /\ \A x \in S \ {o} : mark'[x] \notin Whites
      /\ \A x \in Obj \ {o} : mark'[x] = mark[x] \/ (x \in S \ Strings /\ mark'[x] = "gray")
                                               \/ (x \in Strings /\ mark'[x] = "black")
  <2>1. Marked(S) \in [Obj -> Colours]
    BY DEF TypeOK, Marked, Colour, Colours
  <2>2. mark' = [Marked(S) EXCEPT ![o] = IF again THEN "gray" ELSE "black"]
    OBVIOUS
  <2>3. mark' \in [Obj -> Colours] /\ mark'[o] = IF again THEN "gray" ELSE "black"
    BY <2>1, <2>2 DEF Colours
  <2>4. \A x \in Obj \ {o} : mark'[x] = Marked(S)[x]
    BY <2>1, <2>2
  <2> QED
    BY <2>3, <2>4, <1>0 DEF Marked, Colour, iswhite, Whites
<1>2. /\ gray' = (gray \ {o}) \cup (ToTraverse(S) \ {o})
      /\ grayagain' = IF again THEN grayagain \cup {o} ELSE grayagain
      /\ gcstate' \in {"atomic", "propagate"}
  OBVIOUS
<1>3. TypeOK'
  BY <1>0, <1>1, <1>2 DEF TypeOK, States, heap, owners, ToTraverse
<1>4. Owned'
  BY <1>0, <1>2 DEF Owned, issweepphase, heap, owners
<1>5. NoFields' /\ live' = live
  BY <1>0, <1>1 DEF NoFields, heap, live, isdead, otherwhite, Whites
<1>6. LiveClosed'
  BY <1>5 DEF LiveClosed, heap, owners
<1>7. DeadToSweep' /\ MarkedToSweep'
  BY <1>0, <1>2, <1>5 DEF DeadToSweep, MarkedToSweep, live, keepinvariant, heap
<1>8. NeverBlack'
  BY <1>0, <1>1 DEF NeverBlack, Strings, heap
<1>9. Tricolour'
  <2>1. gray' \cup grayagain' \subseteq alloc'
    BY <1>0, <1>2 DEF Tricolour, ToTraverse, heap
  <2>2. mark'[Main] \notin Whites
    BY <1>0, <1>1, CollectorAssumption DEF Tricolour, iswhite, CollectorAssumption, Whites
  <2>3. ASSUME NEW x \in alloc', mark'[x] = "gray"
        PROVE  x \in gray' \cup grayagain'
    <3>1. CASE x = o
      BY <3>1, <2>3, <1>1, <1>2
    <3>2. CASE x # o /\ mark[x] = "gray"
      BY <3>2, <1>0, <1>2 DEF Tricolour, heap
    <3>3. CASE x # o /\ mark[x] # "gray"
      <4>1. x \in S \ Strings
        BY <3>3, <2>3, <1>0, <1>1 DEF heap
      <4>2. iswhite(x)
        BY <3>3, <2>3, <1>0, <4>1 DEF heap, iswhite, Marked, Colour
      <4> QED
        BY <3>3, <4>1, <4>2, <1>2 DEF ToTraverse
    <3> QED
      BY <3>1, <3>2, <3>3
  <2>4. ASSUME NEW x \in alloc', mark'[x] = "black", NEW w \in refs'[x]
        PROVE  mark'[w] \notin Whites
    <3>1. w \in Obj /\ x \in alloc /\ w \in refs[x]
      BY <1>0 DEF heap, TypeOK
    <3>2. mark[w] \notin Whites => mark'[w] \notin Whites
      BY <3>1, <1>1 DEF Whites
    <3>3. CASE x = o
      BY <3>1, <3>3, <2>4, <1>1 DEF Weak, Whites
    <3>4. CASE x # o
      <4>1. mark[x] = "black" \/ x \in Strings
        BY <3>1, <3>4, <2>4, <1>0, <1>1
      <4> QED
        BY <4>1, <3>1, <3>2, <1>0 DEF Tricolour, NoFields, isblack, iswhite
    <3> QED
      BY <3>3, <3>4
  <2> QED
    BY <2>1, <2>2, <2>3, <2>4 DEF Tricolour, iswhite, isblack
<1> QED
  BY <1>3, <1>4, <1>5, <1>6, <1>7, <1>8, <1>9

\* A marking that is abandoned leaves its colours to the sweep.
LEMMA AbandonInv ==
    ASSUME CollectorAssumption, Inv, Abandon
    PROVE  Inv'
<1> USE DEF Inv, Abandon
<1>1. TypeOK' /\ Owned'
  BY DEF TypeOK, Owned, States, heap, lists, owners, issweepphase, keepinvariant, Strings, CollectorAssumption
<1>2. NoFields' /\ live' = live /\ NeverBlack'
  BY DEF NoFields, NeverBlack, heap, live, isdead, otherwhite
<1>3. LiveClosed'
  BY <1>2 DEF LiveClosed, heap, owners
<1>4. DeadToSweep'
  BY DEF DeadToSweep, keepinvariant, isdead, otherwhite, heap
<1>5. MarkedToSweep' /\ Tricolour'
  BY DEF MarkedToSweep, Tricolour, Owned, keepinvariant, heap, owners
<1> QED
  BY <1>1, <1>2, <1>3, <1>4, <1>5

\* A dead object is erased, and a live one loses its colour.
LEMMA SweepOneInv ==
    ASSUME CollectorAssumption, Inv, NEW o \in Obj, SweepOne(o)
    PROVE  Inv'
<1> USE DEF Inv, SweepOne
<1>0. issweepphase /\ ~keepinvariant /\ o \in alloc /\ o # Main /\ currentwhite \in Whites
  BY DEF Owned, issweepphase, keepinvariant, TypeOK
<1>1. CASE isdead(o)
  <2>1. /\ gcstate = "swpallgc" /\ o \in allgc /\ o \notin strcache /\ o \notin live
    BY <1>1, <1>0 DEF DeadToSweep, Owned, LiveClosed, live
  <2>2. /\ alloc' = alloc \ {o} /\ allgc' = allgc \ {o} /\ finobj' = finobj /\ tobefnz' = tobefnz
        /\ refs' \in [Obj -> SUBSET Obj] /\ mark' \in [Obj -> Colours]
        /\ refs'[o] = {}
        /\ \A x \in Obj \ {o} : refs'[x] = refs[x] /\ mark'[x] = mark[x]
    BY <1>1 DEF TypeOK, Colours, Whites
  <2>3. TypeOK' /\ Owned'
    BY <1>0, <2>1, <2>2 DEF TypeOK, Owned, lists, issweepphase, Strings
  <2>4. NoFields' /\ live' = live /\ live \subseteq Obj \ {o}
    BY <2>1, <2>2 DEF NoFields, TypeOK, live, isdead, otherwhite
  <2>5. LiveClosed'
    BY <2>1, <2>2, <2>4 DEF LiveClosed
  <2>6. DeadToSweep' /\ MarkedToSweep' /\ NeverBlack'
    BY <1>0, <2>1, <2>2 DEF DeadToSweep, MarkedToSweep, NeverBlack, TypeOK, isdead, otherwhite, iswhite,
                keepinvariant
  <2>7. Tricolour'
    BY <1>0 DEF Tricolour, keepinvariant
  <2> QED
    BY <2>3, <2>4, <2>5, <2>6, <2>7
<1>2. CASE ~isdead(o)
  <2>1. /\ mark' \in [Obj -> Colours] /\ mark'[o] = currentwhite
        /\ \A x \in Obj \ {o} : mark'[x] = mark[x]
        /\ UNCHANGED <<heap, owners>>
    BY <1>2 DEF TypeOK, Colours
  <2>2. TypeOK' /\ Owned'
    BY <1>0, <2>1 DEF TypeOK, Owned, lists, heap, owners, issweepphase, Strings
  <2>3. NoFields' /\ live' = live
    BY <1>0, <1>2, <2>1 DEF NoFields, TypeOK, live, heap, isdead, otherwhite, Whites
  <2>4. LiveClosed'
    BY <2>1, <2>3 DEF LiveClosed, heap, owners
  <2>5. DeadToSweep' /\ MarkedToSweep' /\ NeverBlack'
    BY <1>0, <2>1 DEF DeadToSweep, MarkedToSweep, NeverBlack, TypeOK, isdead, otherwhite, iswhite,
                keepinvariant, heap, owners, Whites
  <2>6. Tricolour'
    BY <1>0 DEF Tricolour, keepinvariant
  <2> QED
    BY <2>2, <2>3, <2>4, <2>5, <2>6
<1> QED
  BY <1>1, <1>2

\* The sweep goes on with the next list; at its end the main thread is made white.
LEMMA NextListInv ==
    ASSUME CollectorAssumption, Inv, NextList
    PROVE  Inv'
<1> USE DEF Inv, NextList
<1>0. /\ ~keepinvariant /\ ~keepinvariant' /\ Main \in Obj /\ currentwhite \in Whites
      /\ Main \in live
  BY HeldLive DEF issweepphase, keepinvariant, CollectorAssumption, TypeOK
<1>1. /\ mark' \in [Obj -> Colours]
      /\ mark'[Main] \in {mark[Main], currentwhite}
      /\ gcstate = "swptobefnz" => mark'[Main] = currentwhite
      /\ \A x \in Obj : x # Main => mark'[x] = mark[x]
  BY <1>0 DEF TypeOK, Colours
<1>2. TypeOK' /\ Owned'
  BY <1>1 DEF TypeOK, Owned, States, heap, lists, owners, issweepphase, Strings
<1>3. NoFields' /\ live' = live
  BY <1>0, <1>1 DEF NoFields, TypeOK, live, heap, isdead, otherwhite, Whites
<1>4. LiveClosed'
  BY <1>3 DEF LiveClosed, heap, owners
<1>5. NeverBlack'
  BY <1>1, <1>0 DEF NeverBlack, TypeOK, heap, Whites
<1>6. DeadToSweep'
  BY <1>0, <1>1, <1>3 DEF DeadToSweep, TypeOK, live, heap
<1>7. MarkedToSweep'
  BY <1>0, <1>1 DEF MarkedToSweep, TypeOK, iswhite, keepinvariant, heap, owners
<1>8. Tricolour'
  BY <1>0 DEF Tricolour
<1> QED
  BY <1>2, <1>3, <1>4, <1>5, <1>6, <1>7, <1>8

LEMMA FinishInv ==
    ASSUME CollectorAssumption, Inv, Finish
    PROVE  Inv'
<1> USE DEF Inv, Finish
<1>1. TypeOK' /\ Owned'
  BY DEF TypeOK, Owned, States, heap, lists, owners, issweepphase, Strings
<1>2. NoFields' /\ live' = live /\ NeverBlack'
  BY DEF NoFields, NeverBlack, heap, live, isdead, otherwhite
<1>3. LiveClosed'
  BY <1>2 DEF LiveClosed, heap, owners
<1>4. DeadToSweep' /\ MarkedToSweep' /\ Tricolour'
  BY DEF DeadToSweep, MarkedToSweep, Tricolour, keepinvariant, isdead, otherwhite, iswhite, heap
<1> QED
  BY <1>1, <1>2, <1>3, <1>4

-----------------------------------------------------------------------------
(* The atomic step.                                                        *)

\* Where every marking of S starts.
Base(S) == S \cup gray \cup grayagain \cup {p \in alloc : ~iswhite(p)}

\* AllMarked is the least set that contains S and what is marked and is closed.
LEMMA LeastClosed ==
    ASSUME TypeOK, NEW S \in SUBSET Obj
    PROVE  /\ AllMarked(S) \subseteq Obj
           /\ Base(S) \subseteq AllMarked(S)
           /\ Closed(AllMarked(S))
           /\ \A T \in SUBSET Obj : Base(S) \subseteq T /\ Closed(T) => AllMarked(S) \subseteq T
<1>1. AllMarked(S) \subseteq Obj
  BY DEF AllMarked
<1>2. Base(S) \subseteq Obj
  BY DEF Base, TypeOK
<1>3. AllMarked(S) = {o \in Obj : \A T \in SUBSET Obj : Base(S) \subseteq T /\ Closed(T) => o \in T}
  BY DEF AllMarked, Base
<1>4. Base(S) \subseteq AllMarked(S)
  BY <1>2, <1>3
<1>5. \A T \in SUBSET Obj : Base(S) \subseteq T /\ Closed(T) => AllMarked(S) \subseteq T
  BY <1>3
<1>6. Closed(AllMarked(S))
  <2> SUFFICES ASSUME NEW o \in AllMarked(S), iswhite(o) \/ o \in gray \cup grayagain,
                      NEW v \in refs[o] \cap (IF o \in Weak THEN Strings ELSE Obj)
               PROVE  v \in AllMarked(S)
    BY DEF Closed
  <2>1. v \in Obj /\ o \in Obj
    BY <1>1 DEF TypeOK
  <2>2. ASSUME NEW T \in SUBSET Obj, Base(S) \subseteq T, Closed(T)
        PROVE  v \in T
    <3>1. o \in T
      BY <1>5, <2>2
    <3> QED
      BY <3>1, <2>2 DEF Closed
  <2> QED
    BY <1>3, <2>1, <2>2
<1> QED
  BY <1>1, <1>4, <1>5, <1>6

\* The marking of more objects marks more.
LEMMA MarkedMonotone ==
    ASSUME TypeOK, NEW S \in SUBSET Obj, NEW R \in SUBSET Obj, S \subseteq R
    PROVE  AllMarked(S) \subseteq AllMarked(R)
<1>1. Base(S) \subseteq AllMarked(R)
  BY LeastClosed DEF Base
<1> QED
  BY <1>1, LeastClosed

\* Only objects there are are marked.
LEMMA MarkedAllocated ==
    ASSUME Inv, gcstate = "atomic", NEW S \in SUBSET alloc
    PROVE  AllMarked(S) \subseteq alloc
<1>1. alloc \in SUBSET Obj /\ S \in SUBSET Obj
  BY DEF Inv, TypeOK
<1>2. Base(S) \subseteq alloc
  BY DEF Inv, Base, Tricolour, keepinvariant
<1>3. \A o \in alloc : refs[o] \subseteq alloc
  BY DEF Inv, DeadToSweep, LiveClosed, live
<1>4. Closed(alloc)
  BY <1>3 DEF Closed
<1> QED
  BY <1>1, <1>2, <1>4, LeastClosed DEF Inv

\* When everything is marked, the fields of a marked object hold marked ones,
\* those of a weak table excepted.
LEMMA MarkedClosed ==
    ASSUME Inv, gcstate = "atomic", NEW S \in SUBSET alloc, NEW o \in AllMarked(S), o \notin Weak
    PROVE  refs[o] \subseteq AllMarked(S)
<1> USE DEF Inv
<1>1. /\ AllMarked(S) \subseteq alloc /\ alloc \subseteq Obj /\ S \in SUBSET Obj
  BY MarkedAllocated DEF TypeOK
<1>2. Base(S) \subseteq AllMarked(S) /\ Closed(AllMarked(S))
  BY <1>1, LeastClosed
<1>3. o \in alloc /\ refs[o] \subseteq alloc
  BY <1>1 DEF DeadToSweep, LiveClosed, live
<1>4. CASE iswhite(o) \/ o \in gray \cup grayagain
  BY <1>1, <1>2, <1>3, <1>4 DEF Closed
<1>5. CASE ~iswhite(o) /\ o \notin gray \cup grayagain
  <2>1. isblack(o)
    BY <1>1, <1>3, <1>5 DEF Tricolour, keepinvariant, iswhite, isblack, TypeOK, Colours
  <2>2. \A v \in refs[o] : ~iswhite(v)
    BY <1>3, <2>1 DEF Tricolour, keepinvariant
  <2> QED
    BY <1>2, <1>3, <2>2 DEF Base
<1> QED
  BY <1>4, <1>5

\* After the atomic step the marked objects are the live ones.
LEMMA AtomicInv ==
    ASSUME CollectorAssumption, Inv, Atomic
    PROVE  Inv'
<1> USE DEF Inv
<1> DEFINE strong == AllMarked({Main} \cup tobefnz)
           dying == finobj \ strong
           M == AllMarked({Main} \cup tobefnz \cup dying)
<1>0. /\ live = alloc /\ alloc \subseteq Obj /\ Main \in alloc
      /\ {Main} \cup tobefnz \in SUBSET alloc /\ {Main} \cup tobefnz \cup dying \in SUBSET alloc
      /\ currentwhite \in Whites /\ otherwhite \in Whites /\ otherwhite # currentwhite
  BY DEF Atomic, DeadToSweep, Owned, TypeOK, live, otherwhite, Whites
<1>1. strong \subseteq M /\ M \subseteq alloc /\ {Main} \cup tobefnz \cup dying \subseteq M
  BY <1>0, MarkedMonotone, MarkedAllocated, LeastClosed DEF Atomic, Base
<1>2. /\ finobj \cap strong \subseteq M
      /\ \A x \in alloc \ M : mark[x] = currentwhite
  <2>1. \A x \in alloc : ~iswhite(x) => x \in M
    BY <1>0, LeastClosed DEF Base
  <2>2. \A x \in alloc : ~isdead(x)
    BY <1>0 DEF live
  <2> QED
    BY <2>1, <2>2, <1>0, <1>1 DEF iswhite, isdead, otherwhite, Whites
<1>3. \A x \in M \ Weak : refs[x] \subseteq M
  BY <1>0, MarkedClosed DEF Atomic
<1>4. /\ gcstate = "atomic" /\ gcstate' = "swpallgc" /\ currentwhite' = otherwhite /\ sweep' = allgc
      /\ alloc' = alloc /\ allgc' = allgc
      /\ finobj' = finobj \ dying /\ tobefnz' = tobefnz \cup dying
      /\ gray' = {} /\ grayagain' = {} /\ strcache' = strcache \cap M
      /\ refs' = [o \in Obj |->
             IF o \notin Weak \cap M THEN refs[o]
             ELSE refs[o] \cap (IF o \in strong THEN strong ELSE M)]
      /\ mark' = [o \in Obj |-> IF o \in M /\ Kind[o] \in {"thread", "weak"} THEN "gray"
                                ELSE IF o \in M THEN "black" ELSE mark[o]]
  BY DEF Atomic, ClearCache
<1> HIDE DEF strong, M
<1>5. /\ refs' \in [Obj -> SUBSET Obj] /\ mark' \in [Obj -> Colours]
      /\ \A x \in Obj : refs'[x] \subseteq refs[x]
      /\ \A x \in M : refs'[x] \subseteq M
      /\ \A x \in M : mark'[x] \in {"gray", "black"}
      /\ \A x \in alloc \ M : mark'[x] = currentwhite
      /\ \A x \in M : Kind[x] \in {"thread", "weak"} => mark'[x] = "gray"
  <2>1. refs' \in [Obj -> SUBSET Obj] /\ \A x \in Obj : refs'[x] \subseteq refs[x]
    BY <1>4 DEF TypeOK
  <2>2. \A x \in M : refs'[x] \subseteq M
    BY <1>0, <1>1, <1>3, <1>4
  <2>3. mark' \in [Obj -> Colours]
    BY <1>4 DEF TypeOK, Colours
  <2>4. /\ \A x \in M : mark'[x] \in {"gray", "black"}
        /\ \A x \in alloc \ M : mark'[x] = currentwhite
        /\ \A x \in M : Kind[x] \in {"thread", "weak"} => mark'[x] = "gray"
    BY <1>0, <1>1, <1>2, <1>4
  <2> QED
    BY <2>1, <2>2, <2>3, <2>4
<1>6. TypeOK'
  BY <1>0, <1>4, <1>5 DEF TypeOK, States, Owned
<1>7. Owned'
  BY <1>4 DEF Owned, issweepphase, Strings
<1>8. NoFields'
  BY <1>4, <1>5 DEF NoFields, Strings
<1>9. live' = M
  BY <1>0, <1>1, <1>4, <1>5 DEF live, isdead, otherwhite, Whites
<1>10. LiveClosed'
  BY <1>1, <1>2, <1>4, <1>5, <1>9 DEF LiveClosed
<1>11. DeadToSweep'
  BY <1>0, <1>1, <1>2, <1>4, <1>9 DEF DeadToSweep, Owned, live
<1>12. MarkedToSweep'
  BY <1>4 DEF MarkedToSweep, Owned
<1>13. NeverBlack' /\ Tricolour'
  BY <1>0, <1>4, <1>5 DEF NeverBlack, Tricolour, keepinvariant, Whites
<1> QED
  BY <1>6, <1>7, <1>8, <1>10, <1>11, <1>12, <1>13

-----------------------------------------------------------------------------
LEMMA NextInv ==
    ASSUME CollectorAssumption, Inv, [CollectorNext]_gcVars
    PROVE  Inv'
<1>1. ASSUME NEW o \in Obj, New(o) \/ Intern(o) \/ Cached(o) \/ SetFinalizer(o) \/ CallFinalizer(o)
      PROVE  Inv'
  BY <1>1, NewInv, InternInv, CachedInv, SetFinalizerInv, CallFinalizerInv
<1>2. ASSUME NEW o \in Obj, Propagate(o) \/ SweepOne(o)
      PROVE  Inv'
  BY <1>2, PropagateInv, SweepOneInv
<1>3. ASSUME NEW o \in Obj, NEW v \in Obj, Store(o, v) \/ Load(o, v) \/ Drop(o, v)
      PROVE  Inv'
  BY <1>3, StoreInv, LoadInv, DropInv
<1>4. CASE Restart \/ Atomic \/ Abandon \/ NextList \/ Finish
  BY <1>4, RestartInv, AtomicInv, AbandonInv, NextListInv, FinishInv
<1>5. CASE UNCHANGED gcVars
  <2>1. live' = live
    BY <1>5 DEF gcVars, heap, live, isdead, otherwhite
  <2> QED
    BY <1>5, <2>1 DEF gcVars, heap, lists, owners, Inv, TypeOK, Owned, NoFields, LiveClosed, DeadToSweep,
         MarkedToSweep, NeverBlack, Tricolour, isdead, otherwhite, iswhite, isblack, keepinvariant, issweepphase
<1> QED
  BY <1>1, <1>2, <1>3, <1>4, <1>5 DEF CollectorNext

\* The invariant of the collector, in every state of every behaviour: types, the
\* three lists, the tricolour marking and what a sweep still has to do.
THEOREM CollectorInvariant ==
    ASSUME CollectorAssumption
    PROVE  CollectorSpec => []Inv
<1>1. CollectorInit => Inv
  BY InitInv
<1>2. Inv /\ [CollectorNext]_gcVars => Inv'
  BY NextInv
<1> QED
  BY <1>1, <1>2, PTL DEF CollectorSpec

\* Whatever the program stores, drops, interns and gives finalizers between two
\* steps of lgc.c, nothing it can get into its hands is erased or will be, nor
\* what a finalizer will get.
THEOREM CollectorSafety ==
    ASSUME CollectorAssumption
    PROVE  CollectorSpec => []NothingLiveCollected
<1>1. Inv => NothingLiveCollected
  BY DEF Inv, NothingLiveCollected, LiveClosed, live, Held
<1> QED
  BY <1>1, CollectorInvariant, PTL
=============================================================================
