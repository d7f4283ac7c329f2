--------------------------- MODULE SequenceLemmas ---------------------------
(***************************************************************************)
(* Induction on the natural numbers, stated for a set, and from it what    *)
(* FlattenSeq of the community modules makes of the sequences in a         *)
(* sequence, for sequences of any length.                                  *)
(***************************************************************************)
EXTENDS Integers, Sequences, SequencesExt, SequenceTheorems, FiniteSetTheorems, WellFoundedInduction, TLAPS

\* A set with 0 and the successor of each of its numbers has all numbers: of the
\* intervals 1 .. k with k missing there would be a least one.
LEMMA SetInduction ==
    ASSUME NEW A, 0 \in A, \A n \in Nat : n \in A => n + 1 \in A
    PROVE  Nat \subseteq A
<1> SUFFICES ASSUME NEW n \in Nat, n \notin A
             PROVE  FALSE
  OBVIOUS
<1> DEFINE T == {1 .. k : k \in Nat \ A}
<1>1. T \subseteq FiniteSubsetsOf(Nat) /\ T # {}
  <2>1. \A k \in Nat : 1 .. k \in SUBSET Nat /\ IsFiniteSet(1 .. k)
    BY FS_Interval, SMTT(20)
  <2>2. 1 .. n \in T
    OBVIOUS
  <2> QED
    BY <2>1, <2>2 DEF FiniteSubsetsOf
<1>2. IsWellFoundedOn(StrictSubsetOrdering(Nat), FiniteSubsetsOf(Nat))
  BY FS_StrictSubsetOrderingWellFounded
<1>3. PICK x \in T : \A y \in T : ~(<<y, x>> \in StrictSubsetOrdering(Nat))
  <2> HIDE DEF T
  <2> QED
  BY <1>1, <1>2, WFMin
<1>4. PICK k \in Nat \ A : x = 1 .. k
  OBVIOUS
<1>5. k # 0 /\ k - 1 \in Nat /\ k - 1 \notin A
  BY <1>4
<1>6. 1 .. (k - 1) \in T
  BY <1>5
<1>7. 1 .. (k - 1) \subseteq 1 .. k /\ k \in 1 .. k /\ k \notin 1 .. (k - 1)
  BY <1>5
<1>8. <<1 .. (k - 1), 1 .. k>> \in StrictSubsetOrdering(Nat)
  BY <1>7, SMTT(20) DEF StrictSubsetOrdering
<1> QED
  BY <1>3, <1>4, <1>6, <1>8

\* A function on 0 .. N may be defined by recursion: each value, of the set X, from
\* the one before it.
Follows(X, N, x, next, f) ==
    /\ f \in [0 .. N -> X]
    /\ f = [n \in 0 .. N |-> IF n = 0 THEN x ELSE next[n][f[n - 1]]]

LEMMA RecursionUpTo ==
    ASSUME NEW X, NEW N \in Nat, NEW x \in X, NEW next \in [1 .. N -> [X -> X]]
    PROVE  \E f : Follows(X, N, x, next, f)
<1> DEFINE Begun(f, k) == /\ f \in [0 .. k -> X] /\ f[0] = x
                          /\ \A n \in 1 .. k : f[n] = next[n][f[n - 1]]
           A == {k \in Nat : k <= N => \E f : Begun(f, k)}
<1>1. 0 \in A
  <2>1. Begun([n \in 0 .. 0 |-> x], 0)
    OBVIOUS
  <2> QED
    BY <2>1
<1>2. ASSUME NEW k \in Nat, k \in A
      PROVE  k + 1 \in A
  <2> SUFFICES ASSUME k + 1 <= N
               PROVE  \E f : Begun(f, k + 1)
    OBVIOUS
  <2>1. PICK f : Begun(f, k)
    BY <1>2
  <2> DEFINE g == [n \in 0 .. k + 1 |-> IF n = k + 1 THEN next[k + 1][f[k]] ELSE f[n]]
  <2>2. f[k] \in X /\ next[k + 1] \in [X -> X]
    BY <2>1
  <2>3. next[k + 1][f[k]] \in X
    BY <2>2
  <2>4. g \in [0 .. k + 1 -> X] /\ g[0] = x
    BY <2>1, <2>3
  <2>5. ASSUME NEW n \in 1 .. k + 1
        PROVE  g[n] = next[n][g[n - 1]]
    <3>1. n - 1 \in 0 .. k /\ g[n - 1] = f[n - 1]
      OBVIOUS
    <3>2. CASE n = k + 1
      BY <3>1, <3>2
    <3>3. CASE n # k + 1
      <4>1. n \in 1 .. k /\ g[n] = f[n]
        BY <3>3
      <4> QED
        BY <2>1, <3>1, <4>1
    <3> QED
      BY <3>2, <3>3
  <2>6. Begun(g, k + 1)
    BY <2>4, <2>5
  <2> QED
    BY <2>6
<1>3. N \in A
  <2> HIDE DEF A
  <2> QED
    BY <1>1, <1>2, SetInduction
<1>4. PICK f : Begun(f, N)
  BY <1>3
<1>5. f = [n \in 0 .. N |-> IF n = 0 THEN x ELSE next[n][f[n - 1]]]
  <2>1. \A n \in 0 .. N : f[n] = IF n = 0 THEN x ELSE next[n][f[n - 1]]
    BY <1>4
  <2> QED
    BY <1>4, <2>1
<1> QED
  BY <1>4, <1>5 DEF Follows

\* f[k] is what the first k of the sequences s make, one after the other.
Sums(V, s, k, f) ==
    /\ f \in [0 .. k -> Seq(V)] /\ f[0] = <<>>
    /\ \A i \in 1 .. k : f[i] = f[i - 1] \o s[i]

\* FlattenSeq is defined by such a function, and there is one.
LEMMA FlattenFun ==
    ASSUME NEW V, NEW s \in Seq(Seq(V))
    PROVE  \E f : Sums(V, s, Len(s), f) /\ FlattenSeq(s) = f[Len(s)]
<1> DEFINE D == 1 .. Len(s)
           A == {k \in Nat : k <= Len(s) => \E f : Sums(V, s, k, f)}
<1>0. Len(s) \in Nat /\ \A i \in D : s[i] \in Seq(V)
  OBVIOUS
<1>1. 0 \in A
  <2>1. Sums(V, s, 0, [i \in 0 .. 0 |-> <<>>])
    BY DEF Sums
  <2> QED
    BY <2>1
<1>2. ASSUME NEW n \in Nat, n \in A
      PROVE  n + 1 \in A
  <2> SUFFICES ASSUME n + 1 <= Len(s)
               PROVE  \E f : Sums(V, s, n + 1, f)
    BY DEF A
  <2>1. PICK f : Sums(V, s, n, f)
    BY <1>2
  <2> DEFINE g == [i \in 0 .. n + 1 |-> IF i = n + 1 THEN f[n] \o s[n + 1] ELSE f[i]]
  <2>2. s[n + 1] \in Seq(V) /\ f[n] \in Seq(V) /\ f \in [0 .. n -> Seq(V)]
    BY <2>1, <1>0 DEF Sums
  <2>3. f[n] \o s[n + 1] \in Seq(V)
    BY <2>2
  <2>4. g \in [0 .. n + 1 -> Seq(V)] /\ g[n + 1] = f[n] \o s[n + 1]
    BY <2>2, <2>3
  <2>5. \A i \in 0 .. n : g[i] = f[i]
    OBVIOUS
  <2> HIDE DEF g
  <2>6. \A i \in 1 .. n + 1 : g[i] = g[i - 1] \o s[i]
    <3> SUFFICES ASSUME NEW i \in 1 .. n + 1 PROVE g[i] = g[i - 1] \o s[i]
      OBVIOUS
    <3>1. CASE i = n + 1
      <4>1. n \in 0 .. n /\ i - 1 = n
        BY <3>1
      <4>2. g[n] = f[n]
        BY <4>1, <2>5
      <4> QED
        BY <3>1, <4>1, <4>2, <2>4
    <3>2. CASE i # n + 1
      <4>1. i \in 1 .. n /\ i \in 0 .. n /\ i - 1 \in 0 .. n
        BY <3>2
      <4> QED
        BY <4>1, <2>1, <2>5 DEF Sums
    <3> QED BY <3>1, <3>2
  <2>7. Sums(V, s, n + 1, g)
    <3>1. 0 \in 0 .. n
      OBVIOUS
    <3> QED
      BY <3>1, <2>1, <2>4, <2>5, <2>6 DEF Sums
  <2> QED
    BY <2>7
<1>3. Len(s) \in A
  <2> HIDE DEF A
  <2> QED
    BY <1>1, <1>2, SetInduction, SMTT(20)
<1>4. PICK f : Sums(V, s, Len(s), f)
  BY <1>3
<1>5. CASE s = <<>>
  BY <1>4, <1>5 DEF FlattenSeq, Sums
<1>6. CASE s # <<>>
  <2> DEFINE G(x) == [i \in D |-> IF i = 1 THEN s[i] ELSE x[i-1] \o s[i]]
             h == [i \in D |-> f[i]]
  <2>1. f[1] = s[1]
    <3>1. 1 \in D /\ 1 - 1 = 0
      BY <1>6, <1>0
    <3>2. f[1] = f[0] \o s[1] /\ f[0] = <<>> /\ s[1] \in Seq(V)
      BY <3>1, <1>4, <1>0 DEF Sums
    <3> QED
      BY <3>2
  <2>2. h = G(h)
    <3>1. \A i \in D : i # 1 => i - 1 \in D
      BY <1>0
    <3>2. \A i \in D : f[i] = f[i - 1] \o s[i]
      BY <1>4 DEF Sums
    <3> QED
      BY <2>1, <3>1, <3>2
  <2>3. PICK c : c = CHOOSE g : g = G(g)
    OBVIOUS
  <2>4. c = G(c)
    BY <2>2, <2>3
  <2>5. FlattenSeq(s) = c[Len(s)]
    BY <1>6, <2>3 DEF FlattenSeq
  <2> DEFINE B == {k \in Nat : k + 1 \in D => c[k + 1] = f[k + 1]}
  <2>6. 0 \in B
    BY <2>1, <2>4
  <2>7. ASSUME NEW k \in Nat, k \in B PROVE k + 1 \in B
    <3> SUFFICES ASSUME k + 2 \in D PROVE c[k + 2] = f[k + 2]
      BY DEF B
    <3>1. k + 1 \in D /\ c[k + 1] = f[k + 1]
      BY <2>7
    <3> DEFINE i == k + 2
    <3>a. i \in D /\ i # 1 /\ i - 1 = k + 1
      OBVIOUS
    <3> HIDE DEF i
    <3>2. c[i] = c[i - 1] \o s[i]
      BY <2>4, <3>a
    <3>3. f[i] = f[i - 1] \o s[i]
      BY <1>4, <3>a DEF Sums
    <3> QED
      BY <3>a, <3>1, <3>2, <3>3 DEF i
  <2>8. Nat \subseteq B
    <3> HIDE DEF B
    <3> QED BY <2>6, <2>7, SetInduction
  <2>9. Len(s) \in D /\ Len(s) - 1 \in B
    <3>1. Len(s) # 0
      BY <1>6
    <3>2. Len(s) \in D /\ Len(s) - 1 \in Nat
      BY <3>1, <1>0
    <3> QED
      BY <3>2, <2>8
  <2>10. c[Len(s)] = f[Len(s)]
    BY <2>9, <1>0
  <2> QED
    BY <2>5, <2>10, <1>4
<1> QED
  BY <1>5, <1>6

\* The sequences of s and then one more.
LEMMA FlattenAppend ==
    ASSUME NEW V, NEW s \in Seq(Seq(V)), NEW x \in Seq(V)
    PROVE  FlattenSeq(Append(s, x)) = FlattenSeq(s) \o x /\ FlattenSeq(s) \in Seq(V)
<1> DEFINE t == Append(s, x)
           n == Len(s)
<1>1. /\ t \in Seq(Seq(V)) /\ n \in Nat /\ Len(t) = n + 1 /\ t[n + 1] = x
      /\ \A i \in 1 .. n : t[i] = s[i]
  OBVIOUS
<1>2. PICK f : Sums(V, s, n, f) /\ FlattenSeq(s) = f[n]
  BY FlattenFun
<1>3. PICK g : Sums(V, t, n + 1, g) /\ FlattenSeq(t) = g[n + 1]
  BY <1>1, FlattenFun
<1> HIDE DEF t, n
<1>4. \A k \in Nat : k \in 0 .. n => f[k] = g[k]
  <2> DEFINE A == {k \in Nat : k \in 0 .. n => f[k] = g[k]}
  <2>1. 0 \in A
    BY <1>1, <1>2, <1>3 DEF Sums
  <2>2. ASSUME NEW k \in Nat, k \in A PROVE k + 1 \in A
    <3> SUFFICES ASSUME k + 1 \in 0 .. n PROVE f[k + 1] = g[k + 1]
      BY DEF A
    <3> DEFINE i == k + 1
    <3>1. i \in 1 .. n /\ i \in 1 .. n + 1 /\ i - 1 = k /\ k \in 0 .. n
      BY <1>1
    <3>2. f[k] = g[k]
      BY <2>2, <3>1
    <3> HIDE DEF i
    <3>3. f[i] = f[i - 1] \o s[i] /\ g[i] = g[i - 1] \o t[i] /\ t[i] = s[i]
      BY <1>1, <1>2, <1>3, <3>1 DEF Sums
    <3> QED
      BY <3>1, <3>2, <3>3 DEF i
  <2> HIDE DEF A
  <2>3. Nat \subseteq A
    BY <2>1, <2>2, SetInduction
  <2> QED
    BY <2>3 DEF A
<1>5. f[n] = g[n] /\ f[n] \in Seq(V)
  BY <1>1, <1>2, <1>4 DEF Sums
<1>6. g[n + 1] = g[n] \o x
  <2> DEFINE i == n + 1
  <2>1. i \in 1 .. n + 1 /\ i - 1 = n
    BY <1>1
  <2> HIDE DEF i
  <2>2. g[i] = g[i - 1] \o t[i]
    BY <2>1, <1>3 DEF Sums
  <2> QED
    BY <2>1, <2>2, <1>1 DEF i
<1> QED
  BY <1>2, <1>3, <1>5, <1>6 DEF t

\* What two sequences of sequences make, one after the other.
LEMMA FlattenConcat ==
    ASSUME NEW V, NEW s \in Seq(Seq(V)), NEW t \in Seq(Seq(V))
    PROVE  FlattenSeq(s \o t) = FlattenSeq(s) \o FlattenSeq(t)
<1> DEFINE A == {n \in Nat : \A u \in Seq(Seq(V)) : Len(u) = n =>
                     FlattenSeq(s \o u) = FlattenSeq(s) \o FlattenSeq(u)}
<1>0. FlattenSeq(s) \in Seq(V)
  <2>1. <<>> \in Seq(V)
    OBVIOUS
  <2> QED
    BY <2>1, FlattenAppend
<1>1. 0 \in A
  <2> SUFFICES ASSUME NEW u \in Seq(Seq(V)), Len(u) = 0
               PROVE FlattenSeq(s \o u) = FlattenSeq(s) \o FlattenSeq(u)
    BY DEF A
  <2>1. u = <<>> /\ s \o u = s
    OBVIOUS
  <2>2. FlattenSeq(u) = <<>>
    BY <2>1 DEF FlattenSeq
  <2> QED
    BY <2>1, <2>2, <1>0
<1>2. ASSUME NEW n \in Nat, n \in A PROVE n + 1 \in A
  <2> SUFFICES ASSUME NEW u \in Seq(Seq(V)), Len(u) = n + 1
               PROVE FlattenSeq(s \o u) = FlattenSeq(s) \o FlattenSeq(u)
    BY DEF A
  <2> DEFINE w == SubSeq(u, 1, n)
             x == u[n + 1]
  <2>1. w \in Seq(Seq(V)) /\ Len(w) = n /\ x \in Seq(V) /\ u = Append(w, x)
    OBVIOUS
  <2> HIDE DEF w, x
  <2>2. s \o u = Append(s \o w, x) /\ s \o w \in Seq(Seq(V))
    BY <2>1, SMTT(20)
  <2>3. FlattenSeq(s \o u) = FlattenSeq(s \o w) \o x
    BY <2>1, <2>2, FlattenAppend
  <2>4. FlattenSeq(s \o w) = FlattenSeq(s) \o FlattenSeq(w)
    BY <1>2, <2>1
  <2>5. FlattenSeq(u) = FlattenSeq(w) \o x /\ FlattenSeq(w) \in Seq(V)
    BY <2>1, FlattenAppend
  <2> QED
    BY <2>1, <2>3, <2>4, <2>5, <1>0, SMTT(20)
<1>3. Nat \subseteq A
  <2> HIDE DEF A
  <2> QED BY <1>1, <1>2, SetInduction
<1>4. Len(t) \in A
  BY <1>3
<1> QED
  BY <1>4

\* Concatenation, under a name of its own to the provers.
Joined(s, t) == s \o t

LEMMA JoinedAssociative ==
    ASSUME NEW V, NEW a \in Seq(V), NEW b \in Seq(V), NEW c \in Seq(V)
    PROVE  Joined(a, b) \in Seq(V) /\ Joined(Joined(a, b), c) = Joined(a, Joined(b, c))
  BY ConcatAssociative, SMTT(20) DEF Joined

LEMMA JoinedType ==
    ASSUME NEW V, NEW a \in Seq(V), NEW b \in Seq(V)
    PROVE  Joined(a, b) \in Seq(V) /\ Len(Joined(a, b)) = Len(a) + Len(b)
  BY ConcatProperties DEF Joined

\* A sequence is its first n elements and the others.
LEMMA CutAnywhere ==
    ASSUME NEW V, NEW s \in Seq(V), NEW n \in 0 .. Len(s)
    PROVE  /\ SubSeq(s, 1, n) \in Seq(V) /\ Len(SubSeq(s, 1, n)) = n
           /\ SubSeq(s, n + 1, Len(s)) \in Seq(V)
           /\ SubSeq(s, 1, n) \o SubSeq(s, n + 1, Len(s)) = s
<1>1. Len(s) \in Nat /\ n \in Nat /\ 1 \in 1 .. Len(s) + 1 /\ n \in 1 - 1 .. Len(s) /\ Len(s) \in n .. Len(s)
  OBVIOUS
<1>2. SubSeq(s, 1, n) \o SubSeq(s, n + 1, Len(s)) = SubSeq(s, 1, Len(s))
  BY <1>1, ConcatAdjacentSubSeq
<1>3. SubSeq(s, 1, n) \in Seq(V) /\ Len(SubSeq(s, 1, n)) = n
  OBVIOUS
<1>4. SubSeq(s, n + 1, Len(s)) \in Seq(V)
  OBVIOUS
<1>5. SubSeq(s, 1, Len(s)) = s
  BY SubSeqFull
<1> QED
  BY <1>2, <1>3, <1>4, <1>5

LEMMA OneMore ==
    ASSUME NEW V, NEW s \in Seq(V), NEW n \in 0 .. Len(s), n < Len(s)
    PROVE  SubSeq(s, 1, n + 1) = Append(SubSeq(s, 1, n), s[n + 1])
  OBVIOUS

\* When p begins the same sequence as the longer q, the rest of q follows p.
LEMMA BeginsSame ==
    ASSUME NEW V, NEW p \in Seq(V), NEW q \in Seq(V), NEW y \in Seq(V), NEW z \in Seq(V),
           Joined(p, y) = Joined(q, z), Len(p) <= Len(q)
    PROVE  /\ p = SubSeq(q, 1, Len(p))
           /\ y = Joined(SubSeq(q, Len(p) + 1, Len(q)), z)
<1> DEFINE a == SubSeq(q, 1, Len(p))
           r == SubSeq(q, Len(p) + 1, Len(q))
<1>1. a \in Seq(V) /\ r \in Seq(V) /\ Len(a) = Len(p) /\ a \o r = q
  <2>1. Len(p) \in 0 .. Len(q)
    OBVIOUS
  <2> QED
    BY <2>1, CutAnywhere
<1>2. \A i \in 1 .. Len(p) : a[i] = q[i]
  OBVIOUS
<1>3. \A i \in 1 .. Len(p) : p[i] = a[i]
  <2> SUFFICES ASSUME NEW i \in 1 .. Len(p) PROVE p[i] = q[i]
    BY <1>2
  <2>1. (p \o y)[i] = p[i] /\ (q \o z)[i] = q[i]
    <3>1. i \in 1 .. Len(p) + Len(y) /\ i \in 1 .. Len(q) + Len(z) /\ i <= Len(q) /\ i <= Len(p)
      OBVIOUS
    <3> QED
      BY <3>1, ConcatProperties
  <2>2. p \o y = q \o z
    BY DEF Joined
  <2> QED
    BY <2>1, <2>2
<1> HIDE DEF a, r
<1>4. p = a
  BY <1>1, <1>3, SeqEqual
<1>5. Joined(p, y) = Joined(p, Joined(r, z))
  <2>1. Joined(Joined(p, r), z) = Joined(p, Joined(r, z))
    BY <1>1, JoinedAssociative
  <2>2. Joined(p, r) = q
    BY <1>1, <1>4 DEF Joined
  <2> QED
    BY <2>1, <2>2
<1>6. y = Joined(r, z)
  <2> DEFINE x == Joined(r, z)
  <2>1. x \in Seq(V) /\ p \o y = p \o x
    BY <1>1, <1>5, JoinedType DEF Joined
  <2> HIDE DEF x
  <2>2. y = x
    BY <2>1, ConcatSimplifications
  <2> QED
    BY <2>2 DEF x
<1> QED
  BY <1>4, <1>6 DEF a, r

-----------------------------------------------------------------------------
(* What the elements of a sequence stand for, one after the other.         *)

Stands(W, V) == [W -> Seq(V)]
Each(g, s) == [i \in DOMAIN s |-> g[s[i]]]

LEMMA EachType ==
    ASSUME NEW V, NEW W, NEW g \in Stands(W, V), NEW s \in Seq(W)
    PROVE  /\ Each(g, s) \in Seq(Seq(V)) /\ Len(Each(g, s)) = Len(s)
           /\ FlattenSeq(Each(g, s)) \in Seq(V)
<1>1. Each(g, s) \in Seq(Seq(V)) /\ Len(Each(g, s)) = Len(s)
  <2>1. \A i \in 1 .. Len(s) : g[s[i]] \in Seq(V)
    BY DEF Stands
  <2>2. Len(s) \in Nat /\ DOMAIN s = 1 .. Len(s)
    OBVIOUS
  <2> QED
    BY <2>1, <2>2 DEF Each
<1>2. <<>> \in Seq(V)
  OBVIOUS
<1> QED
  BY <1>1, <1>2, FlattenAppend

LEMMA EachConcat ==
    ASSUME NEW V, NEW W, NEW g \in Stands(W, V), NEW s \in Seq(W), NEW t \in Seq(W)
    PROVE  FlattenSeq(Each(g, s \o t)) = FlattenSeq(Each(g, s)) \o FlattenSeq(Each(g, t))
<1>1. s \o t \in Seq(W) /\ Len(s \o t) = Len(s) + Len(t)
  OBVIOUS
<1> DEFINE a == Each(g, s)
           b == Each(g, t)
           c == Each(g, s \o t)
<1>2. /\ a \in Seq(Seq(V)) /\ Len(a) = Len(s) /\ b \in Seq(Seq(V)) /\ Len(b) = Len(t)
      /\ c \in Seq(Seq(V)) /\ Len(c) = Len(s) + Len(t)
  <2>1. a \in Seq(Seq(V)) /\ Len(a) = Len(s)
    BY EachType
  <2>2. b \in Seq(Seq(V)) /\ Len(b) = Len(t)
    BY EachType
  <2>3. c \in Seq(Seq(V)) /\ Len(c) = Len(s \o t)
    <3> DEFINE u == s \o t
    <3>1. u \in Seq(W)
      BY <1>1
    <3> HIDE DEF u
    <3>2. Each(g, u) \in Seq(Seq(V)) /\ Len(Each(g, u)) = Len(u)
      BY <3>1, EachType
    <3> QED
      BY <3>2 DEF u
  <2> QED
    BY <2>1, <2>2, <2>3, <1>1
<1>3. ASSUME NEW i \in 1 .. Len(s) + Len(t)
      PROVE  c[i] = (a \o b)[i]
  <2>1. c[i] = g[(s \o t)[i]]
    BY <1>1 DEF Each
  <2>2. (s \o t)[i] = IF i <= Len(s) THEN s[i] ELSE t[i - Len(s)]
    BY ConcatProperties
  <2>3. /\ i <= Len(s) => a[i] = g[s[i]]
        /\ i > Len(s) => b[i - Len(s)] = g[t[i - Len(s)]]
    BY DEF Each
  <2> HIDE DEF a, b, c
  <2>5. i \in 1 .. Len(a) + Len(b)
    BY <1>2
  <2>4. (a \o b)[i] = IF i <= Len(s) THEN a[i] ELSE b[i - Len(s)]
    BY <1>2, <2>5, ConcatProperties, SMTT(20)
  <2> QED
    BY <2>1, <2>2, <2>3, <2>4
<1> HIDE DEF a, b, c
<1>4. a \o b \in Seq(Seq(V)) /\ Len(a \o b) = Len(a) + Len(b)
  BY <1>2, ConcatProperties
<1>5. c = a \o b
  BY <1>2, <1>3, <1>4, SeqEqual
<1> QED
  BY <1>2, <1>5, FlattenConcat DEF a, b, c

LEMMA EachEmpty ==
    ASSUME NEW g
    PROVE  FlattenSeq(Each(g, <<>>)) = <<>>
  BY DEF Each, FlattenSeq

LEMMA EachOne ==
    ASSUME NEW V, NEW W, NEW g \in Stands(W, V), NEW x \in W
    PROVE  FlattenSeq(Each(g, <<x>>)) = g[x]
<1>1. Each(g, <<x>>) = Append(<<>>, g[x]) /\ <<>> \in Seq(Seq(V)) /\ g[x] \in Seq(V)
  BY DEF Each, Stands
<1>2. FlattenSeq(Append(<<>>, g[x])) = FlattenSeq(<<>>) \o g[x] /\ FlattenSeq(<<>>) \in Seq(V)
  BY <1>1, FlattenAppend
<1>3. FlattenSeq(<<>>) = <<>>
  BY DEF FlattenSeq
<1>4. <<>> \o g[x] = g[x]
  BY <1>1
<1> QED
  BY <1>1, <1>2, <1>3, <1>4

LEMMA EachAppend ==
    ASSUME NEW V, NEW W, NEW g \in Stands(W, V), NEW s \in Seq(W), NEW x \in W
    PROVE  FlattenSeq(Each(g, Append(s, x))) = FlattenSeq(Each(g, s)) \o g[x]
<1>1. Append(s, x) = s \o <<x>> /\ <<x>> \in Seq(W)
  OBVIOUS
<1> QED
  <2>1. FlattenSeq(Each(g, s \o <<x>>)) = FlattenSeq(Each(g, s)) \o FlattenSeq(Each(g, <<x>>))
    <3> DEFINE w == <<x>>
    <3>1. w \in Seq(W)
      BY <1>1
    <3> HIDE DEF w
    <3>2. FlattenSeq(Each(g, s \o w)) = FlattenSeq(Each(g, s)) \o FlattenSeq(Each(g, w))
      BY <3>1, EachConcat
    <3> QED
      BY <3>2 DEF w
  <2>2. FlattenSeq(Each(g, <<x>>)) = g[x]
    BY EachOne
  <2> QED
    BY <1>1, <2>1, <2>2
=============================================================================
