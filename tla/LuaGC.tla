------------------------------- MODULE LuaGC -------------------------------
(***************************************************************************)
(* The incremental collector of the Lua interpreter (lgc.c, and what       *)
(* lstring.c, lfunc.c and lapi.c do for it).  The program runs between two *)
(* steps of the collector: it makes objects, stores them in others with    *)
(* the barriers of the code, drops them, asks for strings by their content *)
(* and gives objects finalizers.  Objects reach each other through the     *)
(* fields in refs; the stack of the main thread and the registry are the   *)
(* fields of Main.  Lists the code traverses whole are sets; closures      *)
(* stand for all objects with a forward barrier.                           *)
(***************************************************************************)
EXTENDS Naturals, FiniteSets

CONSTANTS Obj,      \* the places of objects
          Main,     \* the main thread
          Kind,     \* what each place holds: thread, table, weak, closure, string
          MaxRefs,  \* bound: fields of an object other than Main
          MaxLive   \* bound: objects there are at once

Whites == {"white0", "white1"}
Strings == {o \in Obj : Kind[o] = "string"}
Weak == {o \in Obj : Kind[o] = "weak"}

\* The main thread has its place for good.
CollectorAssumption ==
    /\ Main \in Obj /\ Kind[Main] = "thread"
    /\ \A o \in Obj : Kind[o] \in {"thread", "table", "weak", "closure", "string"}

VARIABLES
    alloc,          \* the objects there are
    refs,           \* the fields of each object
    mark,           \* colour of each object
    currentwhite,   \* the white of new objects
    gcstate,
    gray, grayagain,    \* objects to be traversed, now or in the atomic step
    sweep,          \* objects still to be swept in this state
    allgc, finobj, tobefnz,   \* no finalizer; with one; with one to be called
    strcache        \* strings of the cache for C strings

heap == <<alloc, refs>>
lists == <<gray, grayagain>>
owners == <<allgc, finobj, tobefnz>>
gcVars == <<heap, mark, currentwhite, gcstate, lists, sweep, owners, strcache>>

CollectorInit ==
    /\ alloc = {Main}
    /\ refs = [o \in Obj |-> {}]
    /\ mark = [o \in Obj |-> "white0"]
    /\ currentwhite = "white0"
    /\ gcstate = "pause"
    /\ gray = {} /\ grayagain = {} /\ sweep = {}
    /\ allgc = {} /\ finobj = {} /\ tobefnz = {}
    /\ strcache = {}

otherwhite == IF currentwhite = "white0" THEN "white1" ELSE "white0"
iswhite(o) == mark[o] \in Whites
isblack(o) == mark[o] = "black"
isdead(o) == mark[o] = otherwhite
issweepphase == gcstate \in {"swpallgc", "swpfinobj", "swptobefnz"}
keepinvariant == gcstate \in {"propagate", "atomic"}

\* reallymarkobject of the white objects of S: strings need no traversal.
Colour(o) == IF o \in Strings THEN "black" ELSE "gray"
Marked(S) == [o \in Obj |-> IF o \in S /\ iswhite(o) THEN Colour(o) ELSE mark[o]]
ToTraverse(S) == {o \in S : iswhite(o)} \ Strings

\* What the program has in its hands: the other objects are fields of these.
Held == refs[Main] \cup {Main}

-----------------------------------------------------------------------------
(* The program.                                                            *)

\* luaC_newobj.
New(o) ==
    /\ o \in Obj \ alloc /\ Cardinality(alloc) < MaxLive
    /\ alloc' = alloc \cup {o} /\ allgc' = allgc \cup {o}
    /\ mark' = [mark EXCEPT ![o] = currentwhite]
    /\ refs' = [refs EXCEPT ![o] = {}, ![Main] = @ \cup {o}]
    /\ UNCHANGED <<currentwhite, gcstate, lists, sweep, finobj, tobefnz, strcache>>

\* luaC_barrierback for tables, luaC_barrier for closures; a thread has none.
Barrier(o, v) ==
    IF ~(isblack(o) /\ iswhite(v)) THEN UNCHANGED <<mark, lists>>
    ELSE IF Kind[o] \in {"table", "weak"}
    THEN /\ mark' = [mark EXCEPT ![o] = "gray"]
         /\ grayagain' = grayagain \cup {o}
         /\ UNCHANGED gray
    ELSE IF keepinvariant
    THEN /\ mark' = Marked({v})
         /\ gray' = gray \cup ToTraverse({v})
         /\ UNCHANGED grayagain
    ELSE /\ mark' = [mark EXCEPT ![o] = currentwhite]
         /\ UNCHANGED lists

\* v is stored in a field of o.
Store(o, v) ==
    /\ o \in Held \ Strings /\ v \in refs[Main]
    /\ o # Main => Cardinality(refs[o] \cup {v}) <= MaxRefs
    /\ refs' = [refs EXCEPT ![o] = @ \cup {v}]
    /\ Barrier(o, v)
    /\ UNCHANGED <<alloc, currentwhite, gcstate, sweep, owners, strcache>>

\* v is read from a field of o.
Load(o, v) ==
    /\ o \in Held /\ v \in refs[o]
    /\ refs' = [refs EXCEPT ![Main] = @ \cup {v}]
    /\ UNCHANGED <<alloc, mark, currentwhite, gcstate, lists, sweep, owners, strcache>>

Drop(o, v) ==
    /\ o \in Held /\ v \in refs[o]
    /\ refs' = [refs EXCEPT ![o] = @ \ {v}]
    /\ UNCHANGED <<alloc, mark, currentwhite, gcstate, lists, sweep, owners, strcache>>

\* internshrstr finds the string with this content, even one that is to be swept.
Intern(s) ==
    /\ s \in Strings \cap alloc
    /\ mark' = IF isdead(s) THEN [mark EXCEPT ![s] = currentwhite] ELSE mark
    /\ refs' = [refs EXCEPT ![Main] = @ \cup {s}]
    /\ UNCHANGED <<alloc, currentwhite, gcstate, lists, sweep, owners>>
    /\ strcache' \in {strcache, strcache \cup {s}}

\* luaS_new finds it in the cache and looks no further.
Cached(s) ==
    /\ s \in strcache
    /\ refs' = [refs EXCEPT ![Main] = @ \cup {s}]
    /\ UNCHANGED <<alloc, mark, currentwhite, gcstate, lists, sweep, owners, strcache>>

\* A faulty variant of luaC_checkfinalizer that leaves the object's colour alone.
KeepColour(o) == mark

\* An object that changes lists under the sweep is swept then and there.
Resweep(o) == IF issweepphase THEN [mark EXCEPT ![o] = currentwhite] ELSE mark

\* luaC_checkfinalizer: o gets a metatable with a finalizer.
SetFinalizer(o) ==
    /\ o \in Held \cap allgc /\ Kind[o] \in {"table", "weak", "closure"}
    /\ mark' = Resweep(o)
    /\ allgc' = allgc \ {o} /\ finobj' = finobj \cup {o}
    /\ sweep' = sweep \ {o}
    /\ UNCHANGED <<heap, currentwhite, gcstate, lists, tobefnz, strcache>>

\* GCTM, from any step: the object is a normal one again, and on the stack.
CallFinalizer(o) ==
    /\ o \in tobefnz
    /\ tobefnz' = tobefnz \ {o} /\ allgc' = allgc \cup {o}
    /\ mark' = Resweep(o)
    /\ sweep' = sweep \ {o}
    /\ refs' = [refs EXCEPT ![Main] = @ \cup {o}]
    /\ UNCHANGED <<alloc, currentwhite, gcstate, lists, finobj, strcache>>

-----------------------------------------------------------------------------
(* The collector.                                                          *)

\* restartcollection: the lists are reset and the roots marked.
Restart ==
    /\ gcstate = "pause"
    /\ mark' = Marked({Main} \cup tobefnz)
    /\ gray' = ToTraverse({Main} \cup tobefnz) /\ grayagain' = {}
    /\ gcstate' = "propagate"
    /\ UNCHANGED <<heap, currentwhite, sweep, owners, strcache>>

\* propagatemark: threads and weak tables stay gray, for the atomic step.
Propagate(o) ==
    /\ gcstate = "propagate" /\ o \in gray
    /\ LET S == IF o \in Weak THEN {} ELSE refs[o]
           again == Kind[o] \in {"thread", "weak"}
       IN  /\ mark' = [Marked(S) EXCEPT ![o] = IF again THEN "gray" ELSE "black"]
           /\ gray' = (gray \ {o}) \cup (ToTraverse(S) \ {o})
           /\ grayagain' = IF again THEN grayagain \cup {o} ELSE grayagain
    /\ gcstate' = IF gray' = {} THEN "atomic" ELSE "propagate"
    /\ UNCHANGED <<heap, currentwhite, sweep, owners, strcache>>

\* What marking ends with when the objects of S are marked too: objects that are
\* in a list or were white are traversed, those that are black are not.  The
\* strings of a weak table are never cleared from it.
Closed(T) ==
    \A o \in T : (iswhite(o) \/ o \in gray \cup grayagain) =>
        refs[o] \cap (IF o \in Weak THEN Strings ELSE Obj) \subseteq T
AllMarked(S) ==
    {o \in Obj : \A T \in SUBSET Obj :
        /\ S \cup gray \cup grayagain \cup {p \in alloc : ~iswhite(p)} \subseteq T
        /\ Closed(T)
        => o \in T}

\* luaS_clearcache.
ClearCache(M) == strcache \cap M

\* atomic, and entersweep.  Values that are only about to be finalized are
\* cleared from the weak tables the program still has, and the others from the
\* ones that come back with a finalized object.
Atomic ==
    /\ gcstate = "atomic"
    /\ LET strong == AllMarked({Main} \cup tobefnz)
           dying == finobj \ strong
           M == AllMarked({Main} \cup tobefnz \cup dying)
       IN  /\ finobj' = finobj \ dying
           /\ tobefnz' = tobefnz \cup dying
           /\ refs' = [o \in Obj |->
                  IF o \notin Weak \cap M THEN refs[o]
                  ELSE refs[o] \cap (IF o \in strong THEN strong ELSE M)]
           /\ mark' = [o \in Obj |-> IF o \in M /\ Kind[o] \in {"thread", "weak"} THEN "gray"
                                     ELSE IF o \in M THEN "black" ELSE mark[o]]
           /\ strcache' = ClearCache(M)
    /\ currentwhite' = otherwhite
    /\ gray' = {} /\ grayagain' = {}
    /\ gcstate' = "swpallgc" /\ sweep' = allgc
    /\ UNCHANGED <<alloc, allgc>>

\* luaC_fullgc while objects are being marked: all become white again.
Abandon ==
    /\ keepinvariant
    /\ gcstate' = "swpallgc" /\ sweep' = allgc
    /\ UNCHANGED <<heap, mark, currentwhite, lists, owners, strcache>>

\* sweeplist: one object is erased or made white.
SweepOne(o) ==
    /\ o \in sweep
    /\ sweep' = sweep \ {o}
    /\ IF isdead(o)
       THEN /\ alloc' = alloc \ {o} /\ allgc' = allgc \ {o}
            /\ refs' = [refs EXCEPT ![o] = {}]
            /\ mark' = [mark EXCEPT ![o] = "white0"]
            /\ UNCHANGED <<finobj, tobefnz>>
       ELSE /\ mark' = [mark EXCEPT ![o] = currentwhite]
            /\ UNCHANGED <<heap, owners>>
    /\ UNCHANGED <<currentwhite, gcstate, lists, strcache>>

\* sweepstep at the end of a list, and the end of the sweep.
NextList ==
    /\ issweepphase /\ sweep = {}
    /\ \/ /\ gcstate = "swpallgc"
          /\ gcstate' = "swpfinobj" /\ sweep' = finobj
          /\ UNCHANGED mark
       \/ /\ gcstate = "swpfinobj"
          /\ gcstate' = "swptobefnz" /\ sweep' = tobefnz
          /\ UNCHANGED mark
       \/ /\ gcstate = "swptobefnz"
          /\ gcstate' = "callfin" /\ sweep' = {}
          /\ mark' = [mark EXCEPT ![Main] = currentwhite]
    /\ UNCHANGED <<heap, currentwhite, lists, owners, strcache>>

\* No finalizer is left to be called, or the collection is an emergency.
Finish ==
    /\ gcstate = "callfin"
    /\ gcstate' = "pause"
    /\ UNCHANGED <<heap, mark, currentwhite, lists, sweep, owners, strcache>>

CollectorNext ==
    \/ \E o \in Obj : \/ New(o) \/ Intern(o) \/ Cached(o)
                      \/ SetFinalizer(o) \/ CallFinalizer(o)
                      \/ Propagate(o) \/ SweepOne(o)
                      \/ \E v \in Obj : Store(o, v) \/ Load(o, v) \/ Drop(o, v)
    \/ Restart \/ Atomic \/ Abandon \/ NextList \/ Finish

CollectorSpec == CollectorInit /\ [][CollectorNext]_gcVars

-----------------------------------------------------------------------------
(* Properties.                                                             *)

\* However the program's stores, the interned strings, the finalizers and the
\* steps of the collector interleave, nothing the program can get into its
\* hands has been erased or is going to be, nor what a finalizer will get.
NothingLiveCollected ==
    \A o \in Held \cup finobj \cup tobefnz \cup strcache : o \in alloc /\ ~isdead(o)
=============================================================================
