------------------------------- MODULE LuaSort -------------------------------
(***************************************************************************)
(* table.sort of the table library (ltablib.c): a quicksort that asks a    *)
(* function of the program for every comparison.  The function may answer  *)
(* anything, so nothing the algorithm knows of the order may decide which  *)
(* elements it touches.  Between two questions the table holds what it     *)
(* held, in some order, whatever the function does with it.                *)
(***************************************************************************)
EXTENDS Integers, Sequences, SequencesExt, FiniteSetsExt

CONSTANTS Arrays,               \* what is sorted by a function that compares values
          MaxN,                 \* elements sorted by a function that answers anything
          RANLIMIT, IMBALANCE,  \* larger intervals may use a random pivot; 128 in the code
          MaxRnd                \* bounds the random numbers

VARIABLES order,                \* "less", or "any": of the function
          was,                  \* what the table held
          a,                    \* what it holds
          lo, up, rnd,          \* arguments of auxsort
          p, i, j,              \* the pivot, and how far partition came
          pend,                 \* what the calls of auxsort under way go on with
          at                    \* what is compared next
vars == <<order, was, a, lo, up, rnd, p, i, j, pend, at>>

Swap(b, x, y) == [b EXCEPT ![x] = b[y], ![y] = b[x]]    \* set2

Init ==
    /\ \/ order = "less" /\ was \in Arrays
       \/ order = "any" /\ \E n \in 0 .. MaxN : was = [x \in 1 .. n |-> x]
    /\ a = was
    /\ lo = 1 /\ up = Len(was) /\ rnd = 0
    /\ p = 0 /\ i = 0 /\ j = 0
    /\ pend = <<>>
    /\ at = IF Len(was) > 1 THEN "loop" ELSE "done"

\* res: the answer to x < y.
sort_comp(x, y, res) == order = "less" => (res <=> x < y)

Loop ==
    /\ at = "loop"
    /\ at' = IF lo < up THEN "ends" ELSE "return"
    /\ UNCHANGED <<order, was, a, lo, up, rnd, p, i, j, pend>>

choosePivot ==
    LET r4 == (up - lo) \div 4
    IN  IF up - lo < RANLIMIT \/ rnd = 0 THEN (lo + up) \div 2 ELSE (rnd % (r4 * 2)) + (lo + r4)

\* a[up] < a[lo]?
Ends(res) ==
    /\ at = "ends"
    /\ sort_comp(a[up], a[lo], res)
    /\ a' = IF res THEN Swap(a, lo, up) ELSE a
    /\ IF up - lo = 1 THEN at' = "return" /\ UNCHANGED p ELSE at' = "low" /\ p' = choosePivot
    /\ UNCHANGED <<order, was, lo, up, rnd, i, j, pend>>

\* With a[lo], a[p] and a[up] in order in b, the pivot goes to a[up - 1].
BeginPartition(b) ==
    /\ IF up - lo = 2 THEN a' = b /\ at' = "return" /\ UNCHANGED <<i, j>>
       ELSE /\ a' = Swap(b, p, up - 1)
            /\ i' = lo + 1 /\ j' = up - 1
            /\ at' = "left"
    /\ UNCHANGED <<order, was, lo, up, rnd, p, pend>>

\* a[p] < a[lo]?
Low(res) ==
    /\ at = "low"
    /\ sort_comp(a[p], a[lo], res)
    /\ IF res THEN BeginPartition(Swap(a, p, lo))
       ELSE at' = "high" /\ UNCHANGED <<order, was, a, lo, up, rnd, p, i, j, pend>>

\* a[up] < a[p]?
High(res) ==
    /\ at = "high"
    /\ sort_comp(a[up], a[p], res)
    /\ BeginPartition(IF res THEN Swap(a, p, up) ELSE a)

\* a[i] < P?  The pivot P stays at a[up - 1].
Left(res) ==
    /\ at = "left"
    /\ sort_comp(a[i], a[up - 1], res)
    /\ \/ res /\ i = up - 1 /\ at' = "error" /\ UNCHANGED <<i, j>>
       \/ res /\ i # up - 1 /\ i' = i + 1 /\ UNCHANGED <<j, at>>
       \/ ~res /\ j' = j - 1 /\ at' = "right" /\ UNCHANGED i
    /\ UNCHANGED <<order, was, a, lo, up, rnd, p, pend>>

\* The pivot is at i: auxsort calls itself for the smaller part and goes on with the other.
Divide ==
    LET below == [lo |-> lo, up |-> i - 1, rnd |-> rnd, n |-> up - i]
        above == [lo |-> i + 1, up |-> up, rnd |-> rnd, n |-> i - lo]
    IN  /\ a' = Swap(a, up - 1, i)
        /\ IF i - lo < up - i THEN pend' = Append(pend, above) /\ up' = i - 1 /\ UNCHANGED lo
           ELSE pend' = Append(pend, below) /\ lo' = i + 1 /\ UNCHANGED up
        /\ at' = "loop"
        /\ UNCHANGED <<i, j>>

\* P < a[j]?
Right(res) ==
    /\ at = "right"
    /\ sort_comp(a[up - 1], a[j], res)
    /\ \/ res /\ j < i /\ at' = "error" /\ UNCHANGED <<a, lo, up, i, j, pend>>
       \/ res /\ j >= i /\ j' = j - 1 /\ UNCHANGED <<a, lo, up, i, pend, at>>
       \/ ~res /\ j < i /\ Divide
       \/ /\ ~res /\ j >= i
          /\ a' = Swap(a, i, j)
          /\ i' = i + 1
          /\ at' = "left"
          /\ UNCHANGED <<lo, up, j, pend>>
    /\ UNCHANGED <<order, was, rnd, p>>

Return ==
    /\ at = "return"
    /\ \/ pend = <<>> /\ at' = "done" /\ UNCHANGED <<lo, up, rnd, pend>>
       \/ /\ pend # <<>>
          /\ LET f == Last(pend) IN
             /\ rnd' \in IF (f.up - f.lo) \div IMBALANCE > f.n THEN 0 .. MaxRnd ELSE {f.rnd}
             /\ lo' = f.lo /\ up' = f.up
          /\ pend' = Front(pend)
          /\ at' = "loop"
    /\ UNCHANGED <<order, was, a, p, i, j>>

Compare == \E res \in BOOLEAN : Ends(res) \/ Low(res) \/ High(res) \/ Left(res) \/ Right(res)
Finished == at \in {"done", "error"} /\ UNCHANGED vars
Next == Loop \/ Compare \/ Return \/ Finished

Spec == Init /\ [][Next]_vars

-----------------------------------------------------------------------------
N == Len(was)
\* The two ends compare reads.
Reads ==
    CASE at = "ends" -> {lo, up} [] at = "low" -> {lo, p} [] at = "high" -> {p, up}
      [] at = "left" -> {i, up - 1} [] at = "right" -> {j, up - 1} [] OTHER -> {}
Occurrences(s, x) == Quantify(DOMAIN s, LAMBDA y : s[y] = x)

\* Whatever the function answers, every element read is one of the interval, nothing
\* is lost or doubled, so that a function that raises an error leaves a permutation, and
\* the calls of auxsort halve the interval each time.  With a function that compares,
\* the end is in order and there is no error.
SortsWhatIsThere ==
    /\ Reads \subseteq lo .. up
    /\ \A x \in Range(was) : Occurrences(a, x) = Occurrences(was, x)
    /\ at # "done" => 2 ^ Len(pend) <= N
    /\ order = "less" => at # "error"
    /\ order = "less" /\ at = "done" => \A x, y \in 1 .. N : x < y => a[x] <= a[y]
=============================================================================
