----------------------------- MODULE WorkQueue -----------------------------
(***************************************************************************)
(* What fl_dispatch_message and the work threads promise together, without *)
(* the ring, its slots, the locals of the threads or the conditions they   *)
(* sleep on: the messages accepted are handed out in the order in which    *)
(* they were accepted, each to one worker, and the worker is done with it  *)
(* once.  The promise ends when the ring laps a worker.                    *)
(***************************************************************************)
EXTENDS Naturals

CONSTANT Workers

VARIABLES accepted,   \* messages accepted so far, which numbers them
          handedOut,  \* how many of them a worker has had
          held,       \* the message every worker has, 0 for none
          done,       \* the messages the workers are done with
          lapped      \* the ring has lapped a worker

vars == <<accepted, handedOut, held, done, lapped>>

Init ==
    /\ accepted = 0 /\ handedOut = 0
    /\ held = [w \in Workers |-> 0]
    /\ done = {}
    /\ lapped = FALSE

Accept ==
    /\ accepted' = accepted + 1
    /\ UNCHANGED <<handedOut, held, done>>

Take(w) ==
    /\ held[w] = 0 /\ handedOut < accepted
    /\ handedOut' = handedOut + 1
    /\ held' = [held EXCEPT ![w] = handedOut + 1]
    /\ UNCHANGED <<accepted, done>>

Finish(w) ==
    /\ held[w] # 0 /\ held[w] \notin done
    /\ done' = done \cup {held[w]}
    /\ held' = [held EXCEPT ![w] = 0]
    /\ UNCHANGED <<accepted, handedOut>>

Next ==
    \/ lapped'
    \/ ~lapped' /\ (Accept \/ \E w \in Workers : Take(w) \/ Finish(w))

Spec == Init /\ [][Next]_vars
=============================================================================
