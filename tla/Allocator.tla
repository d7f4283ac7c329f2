----------------------------- MODULE Allocator -----------------------------
(***************************************************************************)
(* What the buffer pool promises to the byte arrays, without classes,      *)
(* lists, counters or locks: only a buffer that nobody has is handed out,  *)
(* and only an array that has a buffer gives it back.  An array that grows *)
(* has two buffers for a moment, and keeps one.                            *)
(***************************************************************************)
CONSTANTS Buffers, Arrays

VARIABLE held                \* the buffers every array has

Init == held = [a \in Arrays |-> {}]

Obtain(a, b) ==
    /\ \A c \in Arrays : b \notin held[c]
    /\ \A c, d \in held[a] : c = d
    /\ held' = [held EXCEPT ![a] = @ \cup {b}]

GiveBack(a, b) ==
    /\ b \in held[a]
    /\ held' = [held EXCEPT ![a] = @ \ {b}]

Next == \E a \in Arrays, b \in Buffers : Obtain(a, b) \/ GiveBack(a, b)

Spec == Init /\ [][Next]_held
=============================================================================
