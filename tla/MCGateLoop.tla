----------------------------- MODULE MCGateLoop -----------------------------
(***************************************************************************)
(* A small instance of GateLoop for TLC, with two kinds of behaviours.  In *)
(* a "crowd" one read thread runs, a third client comes when two have been *)
(* seated, and only that of the first descriptor sends messages that leave *)
(* recv_message stalled.  In "turns" two read threads run, and a client    *)
(* comes when the one before it has been closed.  In both the process      *)
(* opens no other descriptors, so that accept returns the lowest one.      *)
(***************************************************************************)
EXTENDS GateLoop

CONSTANTS r1, r2

VARIABLE scene

Idle(r) == rpc'[r] = "pop"
Comes == clients' > clients
Stalls(i) == stalled'[i] > stalled[i]

Crowd ==
    /\ scene = "crowd"
    /\ Idle(r2)
    /\ Comes /\ clients = 2 => Cardinality(open \ InHand) = 2
    /\ \A i \in Slots : Stalls(i) => sockfd[i] = 1

Turns ==
    /\ scene = "turns"
    /\ Comes => clients < 2 /\ open = {} /\ backlog = 0

LowestFree == mpc = "accept" /\ mpc' = "probe" => \A f \in Fds \ open : clientfd' <= f

MCInit == Init /\ scene \in {"crowd", "turns"}

MCNext == Next /\ (Crowd \/ Turns) /\ LowestFree /\ UNCHANGED scene

\* The fairness of GateLoop, of the threads that run.
MCFairness == WF_vars(Main) /\ WF_vars(Read(r1)) /\ WF_vars(scene = "turns" /\ Read(r2))

MCSpec == MCInit /\ [][MCNext]_<<vars, scene>> /\ MCFairness
=============================================================================
