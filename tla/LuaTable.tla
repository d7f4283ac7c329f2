------------------------------ MODULE LuaTable ------------------------------
(***************************************************************************)
(* The tables of the Lua interpreter (ltable.c; the cache of absent        *)
(* metamethods from ltm.c and lvm.c).  An array part holds the keys 1 to   *)
(* its length; the others live in a hash part of a power of 2 nodes, where *)
(* colliding keys are chained through free nodes and a key not in its main *)
(* position makes room for one that is.  When no free node is left, both   *)
(* parts get new sizes and all fields are inserted again.                  *)
(***************************************************************************)
EXTENDS Integers, Sequences, FiniteSets, FiniteSetsExt, SequencesExt

CONSTANTS IntKeys,      \* positive integers used as keys
          Strings,      \* short strings used as keys
          Objects,      \* collectable objects used as keys
          Hash,         \* hash of a string, address of an object
          Events,       \* strings that name metamethods with a cached absence
          Values, Nil,
          Ended,        \* no traversal is running
          MAX_INT       \* bound of the unbounded search for the length

Keys == IntKeys \cup Strings \cup Objects
NoNode == -1
NoCell == <<"none", 0>>

VARIABLES
    t,         \* the table: array, node, lastfree, and flags
    map,       \* what the program has assigned (no code; for the properties)
    key,       \* where the program's traversal is, or Ended
    given,     \* the fields it has been given (no code)
    answer     \* what the last question got (no code)

vars == <<t, map, key, given, answer>>

Dummy(array) == [array |-> array, node |-> <<>>, lastfree |-> 0, flags |-> {}]

Init ==
    /\ t = [Dummy(<<>>) EXCEPT !.flags = Events]
    /\ map = [k \in Keys |-> Nil]
    /\ key = Ended /\ given = Ended /\ answer = Nil

-----------------------------------------------------------------------------
(* Searching.                                                              *)

sizenode(tb) == Cardinality(DOMAIN tb.node)

\* Objects are not spread by a power of 2; (size - 1) | 1 is odd anyway.
mainposition(tb, k) ==
    LET n == sizenode(tb) IN
    IF k \in Strings THEN Hash[k] % n
    ELSE IF k \in Objects THEN Hash[k] % (IF n = 1 THEN 1 ELSE n - 1)
    ELSE k % n

\* The node of k among i and those chained after it.
RECURSIVE InChain(_, _, _)
InChain(tb, k, i) ==
    IF i = NoNode \/ (tb.node[i].key = k /\ ~tb.node[i].dead) THEN i
    ELSE InChain(tb, k, tb.node[i].next)

\* luaH_get: the array slot or the node of k.
luaH_get(tb, k) ==
    IF k \in 1 .. Len(tb.array) THEN <<"array", k>>
    ELSE IF sizenode(tb) = 0 THEN NoCell
    ELSE LET i == InChain(tb, k, mainposition(tb, k))
         IN  IF i = NoNode THEN NoCell ELSE <<"node", i>>

Content(tb, cell) ==
    IF cell = NoCell THEN Nil
    ELSE IF cell[1] = "array" THEN tb.array[cell[2]] ELSE tb.node[cell[2]].val

Get(tb, k) == Content(tb, luaH_get(tb, k))

Write(tb, cell, v) ==
    IF cell[1] = "array" THEN [tb EXCEPT !.array[cell[2]] = v]
    ELSE [tb EXCEPT !.node[cell[2]].val = v]

-----------------------------------------------------------------------------
(* New sizes.                                                              *)

Pow2 == {2 ^ e : e \in 0 .. 5}
NodeCount(n) == IF n = 0 THEN 0 ELSE Min({p \in Pow2 : p >= n})

\* computesizes: the largest power of 2 of which more than half would be used.
computesizes(ints) ==
    Max({0} \cup {p \in Pow2 : 2 * Cardinality({i \in ints : i <= p}) > p})

\* setnodevector.
setnodevector(n) ==
    [i \in 0 .. NodeCount(n) - 1 |-> [key |-> Nil, dead |-> FALSE, val |-> Nil, next |-> NoNode]]

\* The fields to insert again, in their order: those of the part of the array
\* that goes away, then those of the nodes from the last to the first.
Vanishing(tb, size) ==
    LET slots == [i \in 1 .. Len(tb.array) |-> <<i, tb.array[i]>>]
        nodes == [i \in 1 .. sizenode(tb) |->
                    LET n == tb.node[sizenode(tb) - i] IN <<n.key, n.val>>]
        live(p) == p[2] # Nil
    IN  SelectSeq(SubSeq(slots, size + 1, Len(slots)) \o nodes, live)

RECURSIVE luaH_set(_, _), luaH_newkey(_, _), PrevOf(_, _, _)

\* luaH_resize.
luaH_resize(tb, nasize, nhsize) ==
    LET resized == [tb EXCEPT
            !.array = [i \in 1 .. nasize |-> IF i <= Len(tb.array) THEN tb.array[i] ELSE Nil],
            !.node = setnodevector(nhsize),
            !.lastfree = NodeCount(nhsize)]
        insert(acc, p) == LET s == luaH_set(acc, p[1]) IN Write(s.tb, s.cell, p[2])
    IN  FoldLeft(insert, resized, Vanishing(tb, nasize))

\* rehash: count the fields and the extra key.
rehash(tb, ek) ==
    LET live == {k \in Keys : Get(tb, k) # Nil} \cup {ek}
        asize == computesizes(live \cap IntKeys)
    IN  luaH_resize(tb, asize, Cardinality({k \in live : k \notin 1 .. asize}))

-----------------------------------------------------------------------------
(* Inserting.                                                              *)

\* getfreepos: the nodes below lastfree that never had a key.
getfreepos(tb) == {i \in 0 .. tb.lastfree - 1 : tb.node[i].key = Nil}

PrevOf(tb, i, mp) == IF tb.node[i].next = mp THEN i ELSE PrevOf(tb, tb.node[i].next, mp)

\* A faulty variant of Put that ends the chain at the new node.
PutLast(tb, i, k) ==
    [tb |-> [tb EXCEPT !.node[i].key = k, !.node[i].dead = FALSE, !.node[i].next = NoNode],
     cell |-> <<"node", i>>]

\* The node i, which stays in the chain it is in, gets the key k.
Put(tb, i, k) ==
    [tb |-> [tb EXCEPT !.node[i].key = k, !.node[i].dead = FALSE], cell |-> <<"node", i>>]

\* luaH_newkey: the table with room for k, and its cell.
luaH_newkey(tb, k) ==
    IF sizenode(tb) = 0 THEN luaH_set(rehash(tb, k), k)
    ELSE LET mp == mainposition(tb, k)
             colliding == tb.node[mp]
             free == getfreepos(tb)
             f == Max(free)
             other == mainposition(tb, colliding.key)
             prev == PrevOf(tb, other, mp)
         IN  IF colliding.val = Nil THEN Put(tb, mp, k)
             ELSE IF free = {} THEN luaH_set(rehash(tb, k), k)
             ELSE IF other # mp
             THEN Put([tb EXCEPT !.lastfree = f,
                           !.node = [@ EXCEPT ![prev].next = f, ![f] = colliding,
                                     ![mp].next = NoNode, ![mp].val = Nil]], mp, k)
             ELSE Put([tb EXCEPT !.lastfree = f,
                           !.node = [@ EXCEPT ![f].next = colliding.next,
                                     ![mp].next = f]], f, k)

luaH_set(tb, k) ==
    LET cell == luaH_get(tb, k) IN
    IF cell # NoCell THEN [tb |-> tb, cell |-> cell] ELSE luaH_newkey(tb, k)

-----------------------------------------------------------------------------
(* The length.                                                             *)

\* Halve i .. j, with a value at i and none at j, down to a border.
RECURSIVE Border(_, _, _), unbound_search(_, _, _), Linear(_, _)
Border(tb, i, j) ==
    IF j - i <= 1 THEN i
    ELSE LET m == (i + j) \div 2
         IN  IF Get(tb, m) = Nil THEN Border(tb, i, m) ELSE Border(tb, m, j)

Linear(tb, i) == IF Get(tb, i) = Nil THEN i - 1 ELSE Linear(tb, i + 1)

\* Double j until there is no value, unless it gets too large.
unbound_search(tb, i, j) ==
    IF Get(tb, j) = Nil THEN Border(tb, i, j)
    ELSE IF j > MAX_INT \div 2 THEN Linear(tb, 1)
    ELSE unbound_search(tb, j, 2 * j)

luaH_getn(tb) ==
    LET j == Len(tb.array) IN
    IF j > 0 /\ tb.array[j] = Nil THEN Border(tb, 0, j)
    ELSE IF sizenode(tb) = 0 THEN j
    ELSE unbound_search(tb, j, j + 1)

-----------------------------------------------------------------------------
(* The program that uses the table.                                        *)

\* An assignment t[k] = v without a metamethod: luaV_fastset writes to a field
\* there is, and otherwise luaV_finishset, which also empties the cache.
Set(k, v) ==
    LET s == luaH_set(t, k)
        new == Get(t, k) = Nil
    IN  /\ t' = [Write(s.tb, s.cell, v) EXCEPT !.flags = IF new THEN {} ELSE @]
        /\ map' = [map EXCEPT ![k] = v]
        /\ key' = IF new THEN Ended ELSE key
        /\ given' = IF new THEN Ended ELSE given
        /\ answer' = Nil

\* The collector marks the key of a node without a value as dead.
Collect(i) ==
    /\ i \in DOMAIN t.node
    /\ t.node[i].key \in Objects \cup Strings
    /\ t.node[i].val = Nil /\ ~t.node[i].dead
    /\ t' = [t EXCEPT !.node[i].dead = TRUE]
    /\ answer' = Nil
    /\ UNCHANGED <<map, key, given>>

\* The program reads every field, and asks for the length.  That it does so
\* between two traversals only is a bound: a traversal leaves the table alone.
Look ==
    /\ key = Ended
    /\ answer' = [read |-> [k \in Keys |-> Get(t, k)], length |-> luaH_getn(t)]
    /\ UNCHANGED <<t, map, key, given>>

\* fasttm and luaT_gettm.
HasMetamethod(e) ==
    /\ key = Ended
    /\ IF e \in t.flags THEN answer' = Nil /\ UNCHANGED t
       ELSE /\ answer' = Get(t, e)
            /\ t' = IF Get(t, e) = Nil THEN [t EXCEPT !.flags = @ \cup {e}] ELSE t
    /\ UNCHANGED <<map, key, given>>

Begin ==
    /\ key' = Nil
    /\ given' = {} /\ answer' = Nil
    /\ UNCHANGED <<t, map>>

\* The number of a traversed key: slots of the array first, then nodes.
RECURSIVE InDeadChain(_, _, _)
InDeadChain(tb, k, i) ==
    IF i = NoNode \/ tb.node[i].key = k THEN i
    ELSE InDeadChain(tb, k, tb.node[i].next)

findindex(k) ==
    IF k = Nil THEN 0
    ELSE IF k \in 1 .. Len(t.array) THEN k
    ELSE InDeadChain(t, k, mainposition(t, k)) + 1 + Len(t.array)

\* luaH_next: the first field after key that has a value.
GiveNext ==
    /\ key # Ended
    /\ LET a == Len(t.array)
           val(i) == IF i <= a THEN t.array[i] ELSE t.node[i - a - 1].val
           left == {i \in findindex(key) + 1 .. a + sizenode(t) : val(i) # Nil}
           i == Min(left)
           k == IF i <= a THEN i ELSE t.node[i - a - 1].key
       IN  IF left = {}
           THEN key' = Ended /\ given' = Ended
           ELSE key' = k /\ given' = given \cup {k}
    /\ answer' = Nil
    /\ UNCHANGED <<t, map>>

Next == \/ \E k \in Keys, v \in Values \cup {Nil} : Set(k, v)
        \/ \E i \in DOMAIN t.node : Collect(i)
        \/ Look
        \/ \E e \in Events : HasMetamethod(e)
        \/ Begin \/ GiveNext

Spec == Init /\ [][Next]_vars

-----------------------------------------------------------------------------
(* Properties.                                                             *)

Map == INSTANCE TableMap

\* Whatever the collisions, moved nodes, dead keys, regrown parts and cached
\* absences, the table is a map: no assignment touches another field, the
\* length is a border, no metamethod is missed, and a traversal gives every
\* field once although fields are changed, cleared and collected under it.
ImplementsTableMap == Map!Spec
=============================================================================
