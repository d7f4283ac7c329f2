---------------------------- MODULE ClientTable ----------------------------
(***************************************************************************)
(* What the gate's loop and read threads promise about clients, without    *)
(* select, queues, bits, locks or locals: a client that is admitted is     *)
(* seated in an empty slot under a session that is not 0, or turned away;  *)
(* a seated one keeps slot and session until it leaves, and its descriptor *)
(* is open exactly as long.                                                *)
(***************************************************************************)
CONSTANTS Slots, Fds, NoFd, Sessions

VARIABLES open,      \* descriptors of clients
          hand,      \* the client admitted and not yet seated, if any
          seat,      \* the client in every slot
          session

vars == <<open, hand, seat, session>>

Init ==
    /\ open = {} /\ hand = {}
    /\ seat = [i \in Slots |-> NoFd]
    /\ session = [i \in Slots |-> 0]

Admit(f) ==
    /\ hand = {} /\ f \notin open
    /\ hand' = {f} /\ open' = open \cup {f}
    /\ UNCHANGED <<seat, session>>

TurnAway(f) ==
    /\ f \in hand
    /\ hand' = {} /\ open' = open \ {f}
    /\ UNCHANGED <<seat, session>>

Seat(f, i, s) ==
    /\ f \in hand /\ seat[i] = NoFd /\ s # 0
    /\ hand' = {}
    /\ seat' = [seat EXCEPT ![i] = f]
    /\ session' = [session EXCEPT ![i] = s]
    /\ UNCHANGED open

Leave(i) ==
    /\ seat[i] # NoFd
    /\ open' = open \ {seat[i]}
    /\ seat' = [seat EXCEPT ![i] = NoFd]
    /\ session' = [session EXCEPT ![i] = 0]
    /\ UNCHANGED hand

Next ==
    \/ \E f \in Fds : Admit(f) \/ TurnAway(f)
    \/ \E f \in Fds, i \in Slots, s \in Sessions : Seat(f, i, s)
    \/ \E i \in Slots : Leave(i)

Spec == Init /\ [][Next]_vars
=============================================================================
