------------------------------ MODULE TableMap ------------------------------
(***************************************************************************)
(* What a Lua table promises: it is a map from keys to values.  Its length *)
(* is a border of the map; asking for a metamethod answers whether it has  *)
(* the field; a traversal gives each field once, in some order, as long as *)
(* the program only changes or clears fields while it runs.                *)
(***************************************************************************)
EXTENDS Integers

CONSTANTS Keys, IntKeys, Values, Nil, Events, Ended

VARIABLES
    map,       \* value of every key, Nil if it has none
    given,     \* fields the running traversal has given, or Ended
    answer     \* what the last question got

vars == <<map, given, answer>>

Init ==
    /\ map = [k \in Keys |-> Nil]
    /\ given = Ended
    /\ answer = Nil

\* A new field ends the traversal: what next gives then is undefined.
Set(k, v) ==
    /\ map' = [map EXCEPT ![k] = v]
    /\ given' = IF map[k] = Nil THEN Ended ELSE given
    /\ answer' = Nil

Look ==
    /\ \E n \in {0} \cup IntKeys :
         /\ n > 0 => map[n] # Nil
         /\ n + 1 \in IntKeys => map[n + 1] = Nil
         /\ answer' = [read |-> map, length |-> n]
    /\ UNCHANGED <<map, given>>

\* What was asked before is forgotten, for any reason.
Forget ==
    /\ answer' = Nil
    /\ UNCHANGED <<map, given>>

HasMetamethod(e) ==
    /\ answer' = map[e]
    /\ UNCHANGED <<map, given>>

Begin ==
    /\ given' = {} /\ answer' = Nil
    /\ UNCHANGED map

GiveNext ==
    /\ given # Ended
    /\ LET left == {k \in Keys : map[k] # Nil} \ given IN
       \/ \E k \in left : given' = given \cup {k}
       \/ left = {} /\ given' = Ended
    /\ answer' = Nil
    /\ UNCHANGED map

Next == \/ \E k \in Keys, v \in Values \cup {Nil} : Set(k, v)
        \/ Look
        \/ \E e \in Events : HasMetamethod(e)
        \/ Forget \/ Begin \/ GiveNext

Spec == Init /\ [][Next]_vars
=============================================================================
