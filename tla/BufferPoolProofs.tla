-------------------------- MODULE BufferPoolProofs --------------------------
(***************************************************************************)
(* That the buffer pool never hands a buffer out twice, never loses one    *)
(* and counts its lists rightly, and that the content of a byte array is   *)
(* inside its buffer, for any number of classes, buffers and byte arrays.  *)
(***************************************************************************)
EXTENDS BufferPool, FiniteSetTheorems, TLAPS

\* What a byte array's call knows between two of its steps.
CallOK ==
    \A a \in Arrays :
        /\ pc[a] = "copy" <=> fresh[a] # NULL
        /\ pc[a] = "copy" => m_buffer[a] # NULL
        /\ pc[a] = "scan" => /\ m_buffer[a] # NULL => want[a] > size[m_buffer[a]]
                             /\ want[a] > 0
                             /\ length[a] <= want[a]
                             /\ fit[a] = 0 \/ fit[a] >= want[a]
        /\ pc[a] # "scan" => fit[a] = 0

Inv == /\ TypeOK
       /\ CountersMatch
       /\ RightClass
       /\ BuffersOwnedOnce
       /\ RoomForContent
       /\ ContentInside
       /\ CallOK

\* Every list is finite.
LEMMA ListsFinite ==
    ASSUME TypeOK
    PROVE  \A i \in Classes : IsFiniteSet(list[i])
  BY ConstantsAssumption, FS_Subset DEF TypeOK

\* No two classes have the same size.
LEMMA SizesDiffer ==
    \A i, j \in Classes : ClassSize[i] = ClassSize[j] => i = j
<1> SUFFICES ASSUME NEW i \in Classes, NEW j \in Classes, i # j
             PROVE  ClassSize[i] # ClassSize[j]
  OBVIOUS
<1>1. i < j \/ j < i
  BY ConstantsAssumption DEF Classes
<1>2. ClassSize[i] < ClassSize[j] \/ ClassSize[j] < ClassSize[i]
  BY <1>1, ConstantsAssumption
<1> QED
  BY <1>2, ConstantsAssumption

\* The pool as fl_init_buffer leaves it satisfies the invariant.
LEMMA InitInv == Init => Inv
<1> SUFFICES ASSUME Init PROVE Inv
  OBVIOUS
<1>1. list \in [Classes -> SUBSET Buffers]
  BY DEF Init
<1>2. \A i \in Classes : Cardinality(list[i]) \in Nat
  BY <1>1, ConstantsAssumption, FS_Subset, FS_CardinalityType
<1>3. PICK s \in [Buffers -> {0} \cup {ClassSize[i] : i \in Classes}] :
          /\ \A b \in Buffers : s[b] = 0 <=> \A i \in Classes : b \notin list[i]
          /\ \A i \in Classes : \A b \in list[i] : s[b] = ClassSize[i]
          /\ size = s
  BY DEF Init
<1>4. size \in [Buffers -> Nat]
  BY <1>3, ConstantsAssumption
<1>5. TypeOK
  BY <1>1, <1>2, <1>4, ConstantsAssumption DEF Init, TypeOK
<1>6. CountersMatch
  BY DEF Init, CountersMatch
<1>7. RightClass
  BY <1>3 DEF RightClass
<1>8. BuffersOwnedOnce
  BY <1>3, ConstantsAssumption DEF Init, BuffersOwnedOnce, Listed, Used
<1>9. RoomForContent /\ ContentInside /\ CallOK
  BY DEF Init, RoomForContent, ContentInside, CallOK
<1> QED
  BY <1>5, <1>6, <1>7, <1>8, <1>9 DEF Inv

-----------------------------------------------------------------------------
(* The two operations on ownership: an array gets a buffer that nobody     *)
(* uses, and a buffer that is on no list is freed.                         *)

\* Of the arrays' side of the pool.
Exclusive ==
    /\ \A a, c \in Arrays : a # c =>
          {m_buffer[a], fresh[a]} \cap {m_buffer[c], fresh[c]} \subseteq {NULL}
    /\ \A a \in Arrays : m_buffer[a] = fresh[a] => fresh[a] = NULL

\* An array gets a buffer nobody uses: nothing else changes hands.
LEMMA GotOwner ==
    ASSUME Inv, NEW a \in Arrays, NEW b \in Buffers, ~Used(b),
           pc[a] = "scan", Got(a, b)
    PROVE  /\ m_buffer' \in [Arrays -> Buffers \cup {NULL}]
           /\ fresh' \in [Arrays -> Buffers \cup {NULL}]
           /\ pc' \in [Arrays -> {"idle", "scan", "copy"}]
           /\ m_size' \in [Arrays -> Int]
           /\ m_cur_pos' \in [Arrays -> Int]
           /\ strayed' \subseteq Arrays
           /\ want' \in [Arrays -> 0 .. MaxRequest]
           /\ length' \in [Arrays -> Nat]
           /\ class' \in [Arrays -> 0 .. ClassNum]
           /\ fit' \in [Arrays -> Nat]
           /\ Exclusive'
           /\ \A c \in Buffers : Used(c)' <=> Used(c) \/ c = b
<1>1. fresh[a] = NULL
  BY DEF Inv, CallOK
<1>2. b # NULL
  BY ConstantsAssumption
<1>3. ClassNum \in Nat
  BY ConstantsAssumption
<1>4. TypeOK /\ Exclusive
  BY DEF Inv, BuffersOwnedOnce, Exclusive
<1>5. CASE m_buffer[a] = NULL
  <2>1. /\ m_buffer' = [m_buffer EXCEPT ![a] = b] /\ fresh' = fresh
        /\ pc' = [pc EXCEPT ![a] = "idle"]
        /\ class' = [class EXCEPT ![a] = 0] /\ fit' = [fit EXCEPT ![a] = 0]
        /\ want' = [want EXCEPT ![a] = 0] /\ length' = [length EXCEPT ![a] = 0]
        /\ m_size' = [m_size EXCEPT ![a] = length[a]] /\ m_cur_pos' = [m_cur_pos EXCEPT ![a] = 0]
        /\ strayed' = strayed \ {a}
    BY <1>5 DEF Got, Return
  <2>2. \A c \in Arrays : b # m_buffer[c] /\ b # fresh[c]
    BY DEF Used
  <2>3. Exclusive'
    BY <1>1, <1>2, <1>4, <2>1, <2>2 DEF TypeOK, Exclusive
  <2>4. \A c \in Buffers : Used(c)' <=> Used(c) \/ c = b
    BY <1>1, <1>4, <1>5, <2>1, ConstantsAssumption DEF TypeOK, Used
  <2> QED
    BY <1>3, <1>4, <2>1, <2>3, <2>4, ConstantsAssumption DEF TypeOK
<1>6. CASE m_buffer[a] # NULL
  <2>1. /\ fresh' = [fresh EXCEPT ![a] = b] /\ m_buffer' = m_buffer
        /\ pc' = [pc EXCEPT ![a] = "copy"]
        /\ class' = [class EXCEPT ![a] = 0] /\ fit' = [fit EXCEPT ![a] = 0]
        /\ UNCHANGED <<want, length, m_size, m_cur_pos, strayed>>
    BY <1>6 DEF Got, content
  <2>2. \A c \in Arrays : b # m_buffer[c] /\ b # fresh[c]
    BY DEF Used
  <2>3. Exclusive'
    BY <1>1, <1>2, <1>4, <2>1, <2>2 DEF TypeOK, Exclusive
  <2>4. \A c \in Buffers : Used(c)' <=> Used(c) \/ c = b
    BY <1>1, <1>4, <1>6, <2>1, ConstantsAssumption DEF TypeOK, Used
  <2> QED
    BY <1>3, <1>4, <2>1, <2>3, <2>4 DEF TypeOK
<1> QED
  BY <1>5, <1>6

\* A buffer on no list is freed: it is on its class's list or with the heap.
LEMMA FreedBuffer ==
    ASSUME Inv, NEW b \in Buffers, ~Listed(b), fl_free(b)
    PROVE  /\ list' \in [Classes -> SUBSET Buffers]
           /\ num' \in [Classes -> Nat]
           /\ size' \in [Buffers -> Nat]
           /\ CountersMatch'
           /\ RightClass'
           /\ \A i, j \in Classes : i # j => list'[i] \cap list'[j] = {}
           /\ \A c \in Buffers : c # b => size'[c] = size[c] /\ (Listed(c)' <=> Listed(c))
           /\ size'[b] # 0 <=> Listed(b)'
<1>1. TypeOK /\ CountersMatch /\ RightClass /\ BuffersOwnedOnce
  BY DEF Inv
<1>2. CASE \E i \in Home(b) :
             /\ list' = [list EXCEPT ![i] = @ \cup {b}]
             /\ num' = [num EXCEPT ![i] = @ + 1]
             /\ UNCHANGED size
  <2>1. PICK i \in Home(b) : /\ list' = [list EXCEPT ![i] = @ \cup {b}]
                            /\ num' = [num EXCEPT ![i] = @ + 1]
                            /\ UNCHANGED size
    BY <1>2
  <2>2. i \in Classes /\ ClassSize[i] = size[b] /\ size[b] # 0
    BY ConstantsAssumption DEF Home
  <2>3. b \notin list[i]
    BY <2>2 DEF Listed
  <2>4. IsFiniteSet(list[i])
    BY <1>1, <2>2, ListsFinite
  <2>5. Cardinality(list[i] \cup {b}) = Cardinality(list[i]) + 1
    BY <2>3, <2>4, FS_AddElement
  <2>6. CountersMatch'
    BY <1>1, <2>1, <2>2, <2>5 DEF TypeOK, CountersMatch
  <2>7. RightClass'
    BY <1>1, <2>1, <2>2 DEF TypeOK, RightClass
  <2>8. \A j, k \in Classes : j # k => list'[j] \cap list'[k] = {}
    BY <1>1, <2>1, <2>2 DEF TypeOK, BuffersOwnedOnce, Listed
  <2>9. \A c \in Buffers : Listed(c)' <=> Listed(c) \/ c = b
    BY <1>1, <2>1, <2>2 DEF TypeOK, Listed
  <2> QED
    BY <1>1, <2>1, <2>2, <2>6, <2>7, <2>8, <2>9 DEF TypeOK
<1>3. CASE /\ Home(b) = {}
           /\ size' = [size EXCEPT ![b] = 0]
           /\ UNCHANGED <<list, num>>
  <2>1. \A c \in Buffers : Listed(c)' <=> Listed(c)
    BY <1>3 DEF Listed
  <2>2. CountersMatch'
    BY <1>1, <1>3 DEF CountersMatch
  <2>3. RightClass'
    BY <1>1, <1>3 DEF TypeOK, RightClass, Listed
  <2> QED
    BY <1>1, <1>3, <2>1, <2>2, <2>3 DEF TypeOK, BuffersOwnedOnce
<1> QED
  BY <1>2, <1>3 DEF fl_free

-----------------------------------------------------------------------------
(* Every step of the pool preserves the invariant.                         *)

\* A buffer is asked for that is larger than the one there is.
LEMMA CallInv ==
    ASSUME Inv, NEW a \in Arrays, NEW s \in Requests, NEW l \in Nat, l <= s, pc[a] = "idle",
           m_buffer[a] # NULL => s > size[m_buffer[a]], Call(a, s, l)
    PROVE  Inv'
<1>1. /\ TypeOK /\ CountersMatch /\ RightClass /\ BuffersOwnedOnce /\ RoomForContent
      /\ ContentInside /\ CallOK /\ s \in 1 .. MaxRequest
  BY DEF Inv, Requests
<1>2. /\ pc' = [pc EXCEPT ![a] = "scan"] /\ want' = [want EXCEPT ![a] = s]
      /\ length' = [length EXCEPT ![a] = l]
      /\ UNCHANGED <<list, num, size, m_buffer, m_size, m_cur_pos, strayed, class, fit, fresh>>
  BY DEF Call, poolVars, content
<1>3. TypeOK'
  BY <1>1, <1>2, ConstantsAssumption DEF TypeOK
<1>4. CountersMatch' /\ RightClass' /\ BuffersOwnedOnce'
  BY <1>1, <1>2 DEF CountersMatch, RightClass, BuffersOwnedOnce, Listed, Used
<1>5. RoomForContent' /\ ContentInside'
  BY <1>1, <1>2 DEF TypeOK, RoomForContent, ContentInside, CallOK
<1>6. fit[a] = 0
  BY <1>1 DEF CallOK
<1>7. CallOK'
  BY <1>1, <1>2, <1>6 DEF TypeOK, CallOK
<1> QED
  BY <1>3, <1>4, <1>5, <1>7 DEF Inv

\* The content changes in the buffer there is; nobody else strays or comes back.
LEMMA KeepInv ==
    ASSUME Inv, NEW a \in Arrays, NEW l \in Int, NEW p \in Int, NEW s \in SUBSET Arrays,
           \A c \in Arrays : c # a => (c \in s <=> c \in strayed),
           a \in s \/ (p >= 0 /\ l >= 0), a \in Readers => p <= l,
           IF m_buffer[a] = NULL THEN l = 0 ELSE l <= size[m_buffer[a]], Keep(a, l, p, s)
    PROVE  Inv'
<1>1. /\ TypeOK /\ CountersMatch /\ RightClass /\ BuffersOwnedOnce /\ RoomForContent
      /\ ContentInside /\ CallOK
      /\ m_size' = [m_size EXCEPT ![a] = l] /\ m_cur_pos' = [m_cur_pos EXCEPT ![a] = p]
      /\ strayed' = s
      /\ UNCHANGED <<list, num, size, m_buffer, pc, want, length, class, fit, fresh>>
  BY DEF Inv, Keep, poolVars, callVars
<1>2. TypeOK'
  BY <1>1 DEF TypeOK
<1>3. CountersMatch' /\ RightClass' /\ BuffersOwnedOnce' /\ RoomForContent' /\ CallOK'
  BY <1>1 DEF CountersMatch, RightClass, BuffersOwnedOnce, Listed, Used, RoomForContent, CallOK
<1>4. ContentInside'
  BY <1>1 DEF TypeOK, ContentInside
<1> QED
  BY <1>2, <1>3, <1>4 DEF Inv

\* What the content of an array is before a step.
LEMMA ContentBefore ==
    ASSUME Inv, NEW a \in Arrays
    PROVE  /\ m_size[a] \in Int /\ m_cur_pos[a] \in Int /\ strayed \subseteq Arrays
           /\ a \in strayed \/ (m_cur_pos[a] >= 0 /\ m_size[a] >= 0)
           /\ a \in Readers => m_cur_pos[a] <= m_size[a]
           /\ IF m_buffer[a] = NULL THEN m_size[a] = 0 ELSE m_size[a] <= size[m_buffer[a]]
  BY DEF Inv, TypeOK, ContentInside

\* An array with a buffer has one of some size, and its content ends inside.
LEMMA HeldBuffer ==
    ASSUME Inv, NEW a \in Arrays, m_buffer[a] # NULL
    PROVE  /\ m_buffer[a] \in Buffers /\ size[m_buffer[a]] \in Nat \ {0}
           /\ m_size[a] <= size[m_buffer[a]]
<1>1. TypeOK /\ BuffersOwnedOnce /\ ContentInside
  BY DEF Inv
<1>2. m_buffer[a] \in Buffers /\ size[m_buffer[a]] \in Nat
  BY <1>1 DEF TypeOK
<1>3. Used(m_buffer[a])
  BY DEF Used
<1> QED
  BY <1>1, <1>2, <1>3 DEF BuffersOwnedOnce, ContentInside

\* A seek that ends inside or is recorded as a stray keeps the invariant.
LEMMA SeekInv ==
    ASSUME Inv, NEW a \in Arrays, NEW l \in Int, NEW p \in Int, NEW q \in Int,
           q >= 0 => p >= 0 /\ l >= 0, a \in Readers => p <= l,
           IF m_buffer[a] = NULL THEN l = 0 ELSE l <= size[m_buffer[a]],
           Keep(a, l, p, Seeks(a, q))
    PROVE  Inv'
<1> DEFINE s == Seeks(a, q)
<1>1. s \in SUBSET Arrays
  BY ContentBefore DEF Seeks
<1>2. \A c \in Arrays : c # a => (c \in s <=> c \in strayed)
  BY DEF Seeks
<1>3. a \in s \/ (p >= 0 /\ l >= 0)
  BY DEF Seeks
<1>4. Keep(a, l, p, s)
  OBVIOUS
<1> HIDE DEF s
<1> QED
  BY <1>1, <1>2, <1>3, <1>4, KeepInv

\* A write grows the array only when its buffer has no room, and to a larger one.
LEMMA WriteInv ==
    ASSUME Inv, NEW a \in Writers, Write(a)
    PROVE  Inv'
<1>0. /\ a \in Arrays /\ a \notin Readers
      /\ m_size[a] \in Int /\ strayed \in SUBSET Arrays
      /\ \A c \in Arrays : c # a => (c \in strayed <=> c \in strayed)
  BY ContentBefore, ConstantsAssumption DEF Arrays
<1>1. CASE WriteNumber(a)
  <2> DEFINE size2 == 2 * size[m_buffer[a]]
  <2>1. m_buffer[a] # NULL /\ pc[a] = "idle" /\ m_size[a] >= 0
    BY <1>1 DEF WriteNumber, Writable
  <2>2. CASE HasRoom(a, 1) /\ Keep(a, m_size[a] + 1, 0, strayed)
    <3>1. m_size[a] + 1 \in Int /\ m_size[a] + 1 <= size[m_buffer[a]] /\ m_size[a] + 1 >= 0
      BY <1>0, <2>1, <2>2 DEF HasRoom
    <3> QED
      BY <1>0, <2>1, <2>2, <3>1, KeepInv
  <2>3. CASE size2 \in Requests /\ Call(a, size2, m_size[a] + 1)
    <3>1. m_size[a] + 1 \in Nat /\ m_size[a] + 1 <= size2 /\ size2 > size[m_buffer[a]]
      BY <1>0, <2>1, HeldBuffer
    <3> HIDE DEF size2
    <3> QED
      BY <1>0, <2>1, <2>3, <3>1, CallInv
  <2> QED
    BY <1>1, <2>2, <2>3 DEF WriteNumber
<1>2. ASSUME NEW n \in Requests, InitBuffer(a, n)
      PROVE  Inv'
  BY <1>0, <1>2, CallInv, ConstantsAssumption DEF InitBuffer, Requests
<1>3. ASSUME NEW n \in Requests, WriteString(a, n)
      PROVE  Inv'
  <2>1. m_buffer[a] # NULL /\ pc[a] = "idle" /\ n \in Nat /\ m_size[a] >= 0
    BY <1>3, ConstantsAssumption DEF WriteString, Writable, Requests
  <2>2. CASE HasRoom(a, n) /\ Keep(a, m_size[a] + n, 0, strayed)
    <3>1. m_size[a] + n \in Int /\ m_size[a] + n <= size[m_buffer[a]] /\ 0 <= m_size[a] + n
      BY <1>0, <2>1, <2>2 DEF HasRoom
    <3> QED
      BY <1>0, <2>1, <2>2, <3>1, KeepInv
  <2>3. ASSUME ~HasRoom(a, n), NEW s \in Requests, s >= m_size[a] + n, Call(a, s, m_size[a] + n)
        PROVE  Inv'
    <3>1. s \in Nat
      BY ConstantsAssumption DEF Requests
    <3>2. m_size[a] + n \in Nat /\ m_size[a] + n <= s /\ s > size[m_buffer[a]]
      BY <1>0, <2>1, <2>3, <3>1, HeldBuffer DEF HasRoom
    <3> QED
      BY <1>0, <2>1, <2>3, <3>2, CallInv
  <2> QED
    BY <1>3, <2>2, <2>3 DEF WriteString
<1>4. ASSUME NEW p \in Ints, WriteSeek(a, p)
      PROVE  Inv'
  <2>1. p \in Int /\ m_buffer[a] # NULL /\ p <= size[m_buffer[a]]
    BY <1>4, ConstantsAssumption DEF WriteSeek, Ints
  <2>2. Keep(a, p, 0, Seeks(a, p))
    BY <1>4 DEF WriteSeek
  <2> QED
    BY <1>0, <2>1, <2>2, SeekInv
<1> QED
  BY <1>1, <1>2, <1>3, <1>4 DEF Write

\* A read ends inside the content, which is replaced in a buffer with room for it.
LEMMA ReadInv ==
    ASSUME Inv, NEW a \in Readers, Read(a)
    PROVE  Inv'
<1>0. /\ a \in Arrays /\ m_size[a] \in Int /\ m_cur_pos[a] \in Int /\ strayed \in SUBSET Arrays
      /\ a \in strayed \/ (m_cur_pos[a] >= 0 /\ m_size[a] >= 0)
      /\ m_cur_pos[a] <= m_size[a]
      /\ IF m_buffer[a] = NULL THEN m_size[a] = 0 ELSE m_size[a] <= size[m_buffer[a]]
  BY ContentBefore DEF Arrays
<1>1. CASE ReadNumber(a)
  <2>1. Keep(a, m_size[a], m_cur_pos[a] + 1, strayed) /\ m_cur_pos[a] + 1 <= m_size[a]
    BY <1>1 DEF ReadNumber, Readable
  <2> QED
    BY <1>0, <2>1, KeepInv
<1>2. ASSUME NEW n \in Ints, ReadString(a, n)
      PROVE  Inv'
  <2> DEFINE p == m_cur_pos[a] + 1
             q == Wrap(p + n)
  <2>1. /\ n \in Int /\ p \in Int /\ q \in Int /\ p <= m_size[a]
        /\ a \in strayed \/ (p >= 0 /\ m_size[a] >= 0)
    BY <1>0, <1>2, ConstantsAssumption DEF Ints, Wrap, ReadString, Readable
  <2>2. CASE Keep(a, m_size[a], p, strayed)
    <3> HIDE DEF p
    <3> QED
      BY <1>0, <2>1, <2>2, KeepInv
  <2>3. CASE /\ ~PastEnd(p, n, m_size[a])
             /\ Keep(a, m_size[a], q, IF n < 0 \/ q # p + n THEN strayed \cup {a} ELSE strayed)
    <3> DEFINE s == IF n < 0 \/ q # p + n THEN strayed \cup {a} ELSE strayed
    <3>1. q <= m_size[a]
      BY <1>0, <2>1, <2>3 DEF PastEnd
    <3>2. s \in SUBSET Arrays /\ \A c \in Arrays : c # a => (c \in s <=> c \in strayed)
      BY <1>0
    <3>3. a \in s \/ (q >= 0 /\ m_size[a] >= 0)
      <4> HIDE DEF p, q
      <4> QED
        BY <1>0, <2>1
    <3> HIDE DEF s, p, q
    <3> QED
      BY <1>0, <2>1, <2>3, <3>1, <3>2, <3>3, KeepInv DEF s
  <2> QED
    BY <1>2, <2>2, <2>3 DEF ReadString
<1>3. ASSUME NEW s \in Requests, SetReadContent(a, s)
      PROVE  Inv'
  <2>1. s \in Nat /\ pc[a] = "idle"
    BY <1>3, ConstantsAssumption DEF Requests, SetReadContent
  <2>2. CASE m_buffer[a] # NULL /\ s <= size[m_buffer[a]]
    <3>1. Keep(a, s, 0, strayed \ {a})
      BY <1>3, <2>2 DEF SetReadContent
    <3>2. strayed \ {a} \in SUBSET Arrays
      BY <1>0
    <3> QED
      BY <1>0, <2>1, <2>2, <3>1, <3>2, KeepInv
  <2>3. CASE ~(m_buffer[a] # NULL /\ s <= size[m_buffer[a]])
    <3>1. Call(a, s, s)
      BY <1>3, <2>3 DEF SetReadContent
    <3>2. m_buffer[a] # NULL => s > size[m_buffer[a]]
      BY <1>0, <2>1, <2>3, HeldBuffer
    <3> QED
      BY <1>0, <2>1, <3>1, <3>2, CallInv
  <2> QED
    BY <2>2, <2>3
<1>4. ASSUME NEW p \in Ints, ReadSeek(a, p)
      PROVE  Inv'
  <2>1. p \in Int /\ p <= m_size[a] /\ Keep(a, m_size[a], p, Seeks(a, p))
    BY <1>4, ConstantsAssumption DEF Ints, ReadSeek
  <2> QED
    BY <1>0, <2>1, SeekInv
<1> QED
  BY <1>1, <1>2, <1>3, <1>4 DEF Read

\* A call that has classes left looks at one of them.
LEMMA ScannedClass ==
    ASSUME TypeOK, NEW a \in Arrays, class[a] < ClassNum
    PROVE  class[a] \in Classes /\ class[a] + 1 \in 0 .. ClassNum
<1>1. class[a] \in 0 .. ClassNum /\ ClassNum \in Nat
  BY ConstantsAssumption DEF TypeOK
<1> QED
  BY <1>1 DEF Classes

\* A buffer of a list is handed out.
LEMMA TakeInv ==
    ASSUME Inv, NEW a \in Arrays, Take(a)
    PROVE  Inv'
<1> DEFINE i == class[a]
<1>0. i \in Classes
  BY ScannedClass DEF Inv, Take
<1>1. /\ TypeOK /\ CountersMatch /\ RightClass /\ BuffersOwnedOnce /\ RoomForContent
      /\ ContentInside /\ CallOK
      /\ pc[a] = "scan" /\ i \in Classes /\ num[i] > 0 /\ want[a] <= ClassSize[i]
      /\ UNCHANGED size
  BY <1>0 DEF Inv, Take, Has, Fits
<1>2. PICK b \in list[i] : Pop(i, b) /\ Got(a, b)
  BY DEF Take
<1>3. b \in Buffers /\ Listed(b) /\ ~Used(b) /\ size[b] = ClassSize[i]
  BY <1>1 DEF TypeOK, BuffersOwnedOnce, Listed, RightClass
<1>4. /\ m_buffer' \in [Arrays -> Buffers \cup {NULL}]
      /\ fresh' \in [Arrays -> Buffers \cup {NULL}]
      /\ pc' \in [Arrays -> {"idle", "scan", "copy"}]
      /\ m_size' \in [Arrays -> Int]
      /\ m_cur_pos' \in [Arrays -> Int]
      /\ strayed' \subseteq Arrays
      /\ want' \in [Arrays -> 0 .. MaxRequest]
      /\ length' \in [Arrays -> Nat]
      /\ class' \in [Arrays -> 0 .. ClassNum]
      /\ fit' \in [Arrays -> Nat]
      /\ Exclusive'
      /\ \A c \in Buffers : Used(c)' <=> Used(c) \/ c = b
  BY <1>1, <1>2, <1>3, GotOwner
<1>5. /\ list' = [list EXCEPT ![i] = @ \ {b}]
      /\ num' = [num EXCEPT ![i] = @ - 1]
  BY <1>2 DEF Pop
<1>6. TypeOK'
  BY <1>1, <1>4, <1>5 DEF TypeOK
<1>7. CountersMatch'
  <2>1. Cardinality(list[i] \ {b}) = Cardinality(list[i]) - 1
    BY <1>1, ListsFinite, FS_RemoveElement
  <2> QED
    BY <1>1, <1>5, <2>1 DEF TypeOK, CountersMatch
<1>8. RightClass'
  BY <1>1, <1>5 DEF TypeOK, RightClass
<1>9. BuffersOwnedOnce'
  <2>1. \A c \in Buffers : Listed(c)' <=> Listed(c) /\ c # b
    BY <1>1, <1>5 DEF TypeOK, BuffersOwnedOnce, Listed
  <2>2. \A j, k \in Classes : j # k => list'[j] \cap list'[k] = {}
    BY <1>1, <1>5 DEF TypeOK, BuffersOwnedOnce
  <2> QED
    BY <1>1, <1>3, <1>4, <2>1, <2>2 DEF BuffersOwnedOnce, Exclusive
<1>10. RoomForContent' /\ ContentInside' /\ CallOK'
  BY <1>1, <1>2, <1>3, ConstantsAssumption
     DEF Got, Return, content, TypeOK, RoomForContent, ContentInside, CallOK
<1> QED
  BY <1>6, <1>7, <1>8, <1>9, <1>10 DEF Inv

\* A class without a fitting buffer is passed.
LEMMA MissInv ==
    ASSUME Inv, NEW a \in Arrays, Miss(a)
    PROVE  Inv'
<1>0. class[a] \in Classes /\ class[a] + 1 \in 0 .. ClassNum
  BY ScannedClass DEF Inv, Miss
<1>1. /\ TypeOK /\ CountersMatch /\ RightClass /\ BuffersOwnedOnce /\ RoomForContent
      /\ ContentInside /\ CallOK
      /\ pc[a] = "scan" /\ class[a] \in Classes /\ ClassSize[class[a]] \in Nat \ {0}
      /\ class' = [class EXCEPT ![a] = @ + 1]
      /\ fit' = [fit EXCEPT ![a] = IF @ = 0 /\ Fits(want[a], class[a]) THEN ClassSize[class[a]] ELSE @]
      /\ UNCHANGED <<list, num, size, m_buffer, m_size, m_cur_pos, strayed, pc, want, length, fresh>>
  BY <1>0, ConstantsAssumption DEF Inv, Miss, poolVars, content
<1>2. TypeOK'
  BY <1>0, <1>1 DEF TypeOK
<1>3. CountersMatch' /\ RightClass' /\ BuffersOwnedOnce' /\ RoomForContent' /\ ContentInside'
  BY <1>1 DEF CountersMatch, RightClass, BuffersOwnedOnce, Listed, Used, RoomForContent, ContentInside
<1>4. CallOK'
  BY <1>1, ConstantsAssumption DEF TypeOK, CallOK, Fits
<1> QED
  BY <1>2, <1>3, <1>4 DEF Inv

\* A buffer comes from the heap.
LEMMA HeapInv ==
    ASSUME Inv, NEW a \in Arrays, Heap(a)
    PROVE  Inv'
<1> DEFINE n == IF fit[a] # 0 THEN fit[a] ELSE want[a]
<1>1. /\ TypeOK /\ CountersMatch /\ RightClass /\ BuffersOwnedOnce /\ RoomForContent
      /\ ContentInside /\ CallOK
      /\ pc[a] = "scan" /\ UNCHANGED <<list, num>>
  BY DEF Inv, Heap
<1>2. PICK b \in Buffers : size[b] = 0 /\ size' = [size EXCEPT ![b] = n] /\ Got(a, b)
  BY DEF Heap
<1>3. n \in Nat /\ n > 0 /\ n >= want[a]
  BY <1>1, ConstantsAssumption DEF TypeOK, CallOK
<1>4. ~Listed(b) /\ ~Used(b)
  BY <1>1, <1>2 DEF BuffersOwnedOnce
<1>5. /\ m_buffer' \in [Arrays -> Buffers \cup {NULL}]
      /\ fresh' \in [Arrays -> Buffers \cup {NULL}]
      /\ pc' \in [Arrays -> {"idle", "scan", "copy"}]
      /\ m_size' \in [Arrays -> Int]
      /\ m_cur_pos' \in [Arrays -> Int]
      /\ strayed' \subseteq Arrays
      /\ want' \in [Arrays -> 0 .. MaxRequest]
      /\ length' \in [Arrays -> Nat]
      /\ class' \in [Arrays -> 0 .. ClassNum]
      /\ fit' \in [Arrays -> Nat]
      /\ Exclusive'
      /\ \A c \in Buffers : Used(c)' <=> Used(c) \/ c = b
  BY <1>1, <1>2, <1>4, GotOwner
<1>6. TypeOK'
  BY <1>1, <1>2, <1>3, <1>5 DEF TypeOK
<1>7. CountersMatch' /\ RightClass'
  BY <1>1, <1>2, <1>4 DEF TypeOK, CountersMatch, RightClass, Listed
<1>8. \A c \in Buffers : Listed(c)' <=> Listed(c)
  BY <1>1 DEF Listed
<1>9. BuffersOwnedOnce'
  BY <1>1, <1>2, <1>3, <1>4, <1>5, <1>8 DEF TypeOK, BuffersOwnedOnce, Exclusive
<1>10. \A c \in Arrays : b # m_buffer[c] /\ b # fresh[c]
  BY <1>4 DEF Used
<1>11. RoomForContent' /\ ContentInside' /\ CallOK'
  BY <1>1, <1>2, <1>3, <1>10, ConstantsAssumption
     DEF Got, Return, content, TypeOK, RoomForContent, ContentInside, CallOK
<1> QED
  BY <1>6, <1>7, <1>9, <1>11 DEF Inv

\* The heap refuses.
LEMMA HeapFailsInv ==
    ASSUME Inv, NEW a \in Arrays, HeapFails(a)
    PROVE  Inv'
<1>1. /\ TypeOK /\ CountersMatch /\ RightClass /\ BuffersOwnedOnce /\ RoomForContent
      /\ ContentInside /\ CallOK
      /\ pc[a] = "scan"
      /\ pc' = [pc EXCEPT ![a] = "idle"]
      /\ want' = [want EXCEPT ![a] = 0] /\ length' = [length EXCEPT ![a] = 0]
      /\ class' = [class EXCEPT ![a] = 0] /\ fit' = [fit EXCEPT ![a] = 0]
      /\ UNCHANGED <<list, num, size, m_buffer, m_size, m_cur_pos, strayed, fresh>>
  BY DEF Inv, HeapFails, Return, poolVars, content
<1>2. TypeOK'
  BY <1>1, ConstantsAssumption DEF TypeOK
<1>3. CountersMatch' /\ RightClass' /\ BuffersOwnedOnce'
  BY <1>1 DEF CountersMatch, RightClass, BuffersOwnedOnce, Listed, Used
<1>4. RoomForContent' /\ ContentInside' /\ CallOK'
  BY <1>1, ConstantsAssumption DEF TypeOK, RoomForContent, ContentInside, CallOK
<1> QED
  BY <1>2, <1>3, <1>4 DEF Inv

\* fl_realloc gives the old buffer back and the caller takes the new one.
LEMMA CopyInv ==
    ASSUME Inv, NEW a \in Arrays, Copy(a)
    PROVE  Inv'
<1>0. PICK b \in Buffers : b = m_buffer[a]
  BY DEF Inv, Copy, TypeOK, CallOK
<1>1. /\ TypeOK /\ CountersMatch /\ RightClass /\ BuffersOwnedOnce /\ RoomForContent
      /\ ContentInside /\ CallOK
      /\ pc[a] = "copy" /\ b = m_buffer[a] /\ fl_free(b)
      /\ m_buffer' = [m_buffer EXCEPT ![a] = fresh[a]]
      /\ fresh' = [fresh EXCEPT ![a] = NULL]
      /\ m_size' = [m_size EXCEPT ![a] = length[a]]
      /\ m_cur_pos' = [m_cur_pos EXCEPT ![a] = 0] /\ strayed' = strayed \ {a}
      /\ pc' = [pc EXCEPT ![a] = "idle"]
      /\ want' = [want EXCEPT ![a] = 0] /\ length' = [length EXCEPT ![a] = 0]
      /\ class' = [class EXCEPT ![a] = 0] /\ fit' = [fit EXCEPT ![a] = 0]
  BY <1>0 DEF Inv, Copy, Return
<1>2. b \in Buffers /\ b # NULL /\ fresh[a] \in Buffers /\ fresh[a] # NULL /\ fresh[a] # b
  BY <1>1 DEF TypeOK, CallOK, BuffersOwnedOnce
<1>3. Used(b) /\ ~Listed(b)
  BY <1>1, <1>2 DEF Used, BuffersOwnedOnce
<1>4. /\ list' \in [Classes -> SUBSET Buffers]
      /\ num' \in [Classes -> Nat]
      /\ size' \in [Buffers -> Nat]
      /\ CountersMatch'
      /\ RightClass'
      /\ \A i, j \in Classes : i # j => list'[i] \cap list'[j] = {}
      /\ \A c \in Buffers : c # b => size'[c] = size[c] /\ (Listed(c)' <=> Listed(c))
      /\ size'[b] # 0 <=> Listed(b)'
  BY <1>1, <1>2, <1>3, FreedBuffer
<1>5. TypeOK'
  BY <1>1, <1>2, <1>4, ConstantsAssumption DEF TypeOK
<1>6. \A c \in Buffers : Used(c)' <=> Used(c) /\ c # b
  <2>1. \A d \in Arrays : d # a => /\ m_buffer[d] # b /\ fresh[d] # b
                                   /\ m_buffer'[d] = m_buffer[d] /\ fresh'[d] = fresh[d]
    BY <1>1, <1>2 DEF TypeOK, BuffersOwnedOnce
  <2>2. m_buffer'[a] = fresh[a] /\ fresh'[a] = NULL
    BY <1>1, <1>2 DEF TypeOK
  <2>3. \A c \in Buffers : c # NULL
    BY ConstantsAssumption
  <2>4. SUFFICES ASSUME NEW c \in Buffers PROVE Used(c)' <=> Used(c) /\ c # b
    OBVIOUS
  <2>5. ASSUME NEW d \in Arrays, c \in {m_buffer'[d], fresh'[d]}
        PROVE  c # b /\ c \in {m_buffer[d], fresh[d]}
    BY <1>2, <2>1, <2>2, <2>3, <2>5
  <2>6. ASSUME NEW d \in Arrays, c \in {m_buffer[d], fresh[d]}, c # b
        PROVE  c \in {m_buffer'[d], fresh'[d]}
    BY <1>1, <1>2, <2>1, <2>2, <2>3, <2>6
  <2>7. Used(c)' => Used(c) /\ c # b
    BY <2>5 DEF Used
  <2>8. Used(c) /\ c # b => Used(c)'
    BY <2>6 DEF Used
  <2> QED
    BY <2>7, <2>8
<1>7. Exclusive'
  BY <1>1, <1>2 DEF TypeOK, BuffersOwnedOnce, Exclusive
<1>8. BuffersOwnedOnce'
  BY <1>1, <1>3, <1>4, <1>6, <1>7 DEF BuffersOwnedOnce, Exclusive
<1>9. \A c \in Arrays : c # a => m_buffer[c] # b /\ fresh[c] # b
  BY <1>1, <1>2 DEF BuffersOwnedOnce
<1>10. size'[fresh[a]] = size[fresh[a]]
  BY <1>2, <1>4
<1>11. RoomForContent' /\ ContentInside' /\ CallOK'
  BY <1>1, <1>2, <1>4, <1>9, <1>10, ConstantsAssumption
     DEF TypeOK, RoomForContent, ContentInside, CallOK
<1> QED
  BY <1>4, <1>5, <1>8, <1>11 DEF Inv

\* A byte array gives its buffer back.
LEMMA ReleaseInv ==
    ASSUME Inv, NEW a \in Arrays, ReleaseBuffer(a)
    PROVE  Inv'
<1>0. PICK b \in Buffers : b = m_buffer[a]
  BY DEF Inv, ReleaseBuffer, TypeOK
<1>1. /\ TypeOK /\ CountersMatch /\ RightClass /\ BuffersOwnedOnce /\ RoomForContent
      /\ ContentInside /\ CallOK
      /\ pc[a] = "idle" /\ b = m_buffer[a] /\ b # NULL /\ fl_free(b)
      /\ m_buffer' = [m_buffer EXCEPT ![a] = NULL]
      /\ m_size' = [m_size EXCEPT ![a] = 0]
      /\ m_cur_pos' = [m_cur_pos EXCEPT ![a] = 0] /\ strayed' = strayed \ {a}
      /\ UNCHANGED <<pc, want, length, class, fit, fresh>>
  BY <1>0, ConstantsAssumption DEF Inv, ReleaseBuffer, callVars
<1>2. b \in Buffers /\ fresh[a] = NULL
  BY <1>1 DEF TypeOK, CallOK
<1>3. Used(b) /\ ~Listed(b)
  BY <1>1, <1>2 DEF Used, BuffersOwnedOnce
<1>4. /\ list' \in [Classes -> SUBSET Buffers]
      /\ num' \in [Classes -> Nat]
      /\ size' \in [Buffers -> Nat]
      /\ CountersMatch'
      /\ RightClass'
      /\ \A i, j \in Classes : i # j => list'[i] \cap list'[j] = {}
      /\ \A c \in Buffers : c # b => size'[c] = size[c] /\ (Listed(c)' <=> Listed(c))
      /\ size'[b] # 0 <=> Listed(b)'
  BY <1>1, <1>2, <1>3, FreedBuffer
<1>5. TypeOK'
  BY <1>1, <1>4 DEF TypeOK
<1>6. \A c \in Arrays : c # a => m_buffer[c] # b /\ fresh[c] # b
  <2> SUFFICES ASSUME NEW c \in Arrays, c # a PROVE b \notin {m_buffer[c], fresh[c]}
    OBVIOUS
  <2>1. {m_buffer[a], fresh[a]} \cap {m_buffer[c], fresh[c]} \subseteq {NULL}
    BY <1>1 DEF BuffersOwnedOnce
  <2>2. b \in {m_buffer[a], fresh[a]} /\ b # NULL
    BY <1>1
  <2> QED
    BY <2>1, <2>2
<1>7. \A c \in Buffers : Used(c)' <=> Used(c) /\ c # b
  <2>1. \A d \in Arrays : d # a => /\ m_buffer[d] # b /\ fresh[d] # b
                                   /\ m_buffer'[d] = m_buffer[d] /\ fresh'[d] = fresh[d]
    <3>1. \A d \in Arrays : d # a => m_buffer'[d] = m_buffer[d] /\ fresh'[d] = fresh[d]
      BY <1>1 DEF TypeOK
    <3> QED
      BY <3>1, <1>6
  <2>2. m_buffer'[a] = fresh[a] /\ fresh'[a] = NULL
    BY <1>1, <1>2 DEF TypeOK
  <2>3. \A c \in Buffers : c # NULL
    BY ConstantsAssumption
  <2>4. SUFFICES ASSUME NEW c \in Buffers PROVE Used(c)' <=> Used(c) /\ c # b
    OBVIOUS
  <2>5. ASSUME NEW d \in Arrays, c \in {m_buffer'[d], fresh'[d]}
        PROVE  c # b /\ c \in {m_buffer[d], fresh[d]}
    BY <1>2, <2>1, <2>2, <2>3, <2>5
  <2>6. ASSUME NEW d \in Arrays, c \in {m_buffer[d], fresh[d]}, c # b
        PROVE  c \in {m_buffer'[d], fresh'[d]}
    BY <1>1, <1>2, <2>1, <2>2, <2>3, <2>6
  <2>7. Used(c)' => Used(c) /\ c # b
    BY <2>5 DEF Used
  <2>8. Used(c) /\ c # b => Used(c)'
    BY <2>6 DEF Used
  <2> QED
    BY <2>7, <2>8
<1>8. Exclusive'
  BY <1>1, <1>2 DEF TypeOK, BuffersOwnedOnce, Exclusive
<1>9. BuffersOwnedOnce'
  BY <1>1, <1>3, <1>4, <1>7, <1>8 DEF BuffersOwnedOnce, Exclusive
<1>10. RoomForContent' /\ ContentInside' /\ CallOK'
  BY <1>1, <1>2, <1>4, <1>6, ConstantsAssumption
     DEF TypeOK, RoomForContent, ContentInside, CallOK
<1> QED
  BY <1>4, <1>5, <1>9, <1>10 DEF Inv

\* fl_gc_buffer gives buffers of a list, which nobody uses, back to the heap.
LEMMA TrimInv ==
    ASSUME Inv, NEW i \in Classes, Trim(i)
    PROVE  Inv'
<1>1. /\ TypeOK /\ CountersMatch /\ RightClass /\ BuffersOwnedOnce /\ RoomForContent
      /\ ContentInside /\ CallOK
      /\ UNCHANGED <<m_buffer, m_size, m_cur_pos, strayed, pc, want, length, class, fit, fresh>>
  BY DEF Inv, Trim, content, callVars
<1>2. PICK keep \in SUBSET list[i] :
          /\ Cardinality(keep) = config_num[i]
          /\ list' = [list EXCEPT ![i] = keep]
          /\ num' = [num EXCEPT ![i] = config_num[i]]
          /\ size' = [b \in Buffers |-> IF b \in list[i] \ keep THEN 0 ELSE size[b]]
  BY DEF Trim
<1>3. TypeOK'
  BY <1>1, <1>2, ConstantsAssumption DEF TypeOK
<1>4. CountersMatch'
  BY <1>1, <1>2 DEF TypeOK, CountersMatch
<1>5. \A c \in Buffers : Listed(c)' <=> Listed(c) /\ c \notin list[i] \ keep
  BY <1>1, <1>2 DEF TypeOK, BuffersOwnedOnce, Listed
<1>6. RightClass'
  BY <1>1, <1>2 DEF TypeOK, BuffersOwnedOnce, RightClass
<1>7. \A c \in Buffers : Used(c)' <=> Used(c)
  BY <1>1 DEF Used
<1>8. \A c \in Buffers : c \in list[i] => Listed(c)
  BY DEF Listed
<1>9. \A c \in Buffers : Used(c) => size'[c] = size[c]
  BY <1>1, <1>2, <1>8 DEF TypeOK, BuffersOwnedOnce
<1>10. BuffersOwnedOnce'
  <2>1. \A j, k \in Classes : j # k => list'[j] \cap list'[k] = {}
    BY <1>1, <1>2 DEF TypeOK, BuffersOwnedOnce
  <2>2. \A c \in Buffers : size'[c] # 0 <=> Listed(c)' \/ Used(c)'
    BY <1>1, <1>2, <1>5, <1>7, <1>8 DEF TypeOK, BuffersOwnedOnce
  <2> QED
    BY <1>1, <1>5, <1>7, <2>1, <2>2 DEF BuffersOwnedOnce
<1>11. \A a \in Arrays :
          /\ m_buffer[a] # NULL => size'[m_buffer[a]] = size[m_buffer[a]]
          /\ fresh[a] # NULL => size'[fresh[a]] = size[fresh[a]]
  BY <1>1, <1>9 DEF TypeOK, Used
<1>12. RoomForContent' /\ ContentInside'
  BY <1>1, <1>11 DEF RoomForContent, ContentInside, CallOK
<1>13. CallOK'
  BY <1>1, <1>11 DEF CallOK
<1> QED
  BY <1>3, <1>4, <1>6, <1>10, <1>12, <1>13 DEF Inv

\* The invariant is inductive.
LEMMA NextInv == Inv /\ [Next]_vars => Inv'
<1> SUFFICES ASSUME Inv, [Next]_vars PROVE Inv'
  OBVIOUS
<1>1. CASE Next
  <2>1. CASE \E a \in Arrays : Pool(a)
    BY <2>1, TakeInv, MissInv, HeapInv, HeapFailsInv, CopyInv, ReleaseInv DEF Pool
  <2>2. CASE \E a \in Writers : Write(a)
    BY <2>2, WriteInv
  <2>3. CASE \E a \in Readers : Read(a)
    BY <2>3, ReadInv
  <2>4. CASE \E i \in Classes : Trim(i)
    BY <2>4, TrimInv
  <2> QED
    BY <1>1, <2>1, <2>2, <2>3, <2>4 DEF Next
<1>2. CASE UNCHANGED vars
  BY <1>2 DEF vars, poolVars, content, callVars, Inv, TypeOK, CountersMatch, RightClass,
              BuffersOwnedOnce, Listed, Used, RoomForContent, ContentInside, CallOK
<1> QED
  BY <1>1, <1>2

-----------------------------------------------------------------------------
\* The invariant holds whatever the byte arrays of all threads do.
THEOREM Invariance == Spec => []Inv
  BY InitInv, NextInv, PTL DEF Spec

\* Every variable of the pool has its type.
THEOREM TypeCorrect == Spec => []TypeOK
<1>1. Inv => TypeOK
  BY DEF Inv
<1> QED
  BY Invariance, <1>1, PTL

\* The counter that fl_malloc trusts is the length of the list it then follows.
THEOREM CountersCorrect == Spec => []CountersMatch
<1>1. Inv => CountersMatch
  BY DEF Inv
<1> QED
  BY Invariance, <1>1, PTL

\* fl_free never puts a buffer on the list of another class.
THEOREM ListsHoldTheirClass == Spec => []RightClass
<1>1. Inv => RightClass
  BY DEF Inv
<1> QED
  BY Invariance, <1>1, PTL

\* No buffer is handed out twice, listed while it is used, or lost.
THEOREM OwnershipExclusive == Spec => []BuffersOwnedOnce
<1>1. Inv => BuffersOwnedOnce
  BY DEF Inv
<1> QED
  BY Invariance, <1>1, PTL

\* fl_realloc copies into a larger buffer, with room for what is written next.
THEOREM RoomEnough == Spec => []RoomForContent
<1>1. Inv => RoomForContent
  BY DEF Inv
<1> QED
  BY Invariance, <1>1, PTL

\* No sequence of writes, reads, seeks and failures leaves a length past the end of
\* the buffer or a read position past the length, whatever ints are given as seeks
\* and string lengths; and none leaves either below zero but in an array that a
\* negative seek, or a negative or overflowing string length, has led there.
THEOREM ContentStaysInside == Spec => []ContentInside
<1>1. Inv => ContentInside
  BY DEF Inv
<1> QED
  BY Invariance, <1>1, PTL

-----------------------------------------------------------------------------
(* The pool implements the allocator.                                      *)

\* A step that leaves the arrays' buffers alone is a stutter.
LEMMA KeepsHolding ==
    UNCHANGED <<m_buffer, fresh>> => UNCHANGED holding
  BY DEF holding

\* Got hands a buffer nobody uses to one array.
LEMMA GotObtains ==
    ASSUME Inv, NEW a \in Arrays, NEW b \in Buffers, ~Used(b), pc[a] = "scan", Got(a, b)
    PROVE  Alloc!Obtain(a, b)
<1>1. fresh[a] = NULL /\ b # NULL /\ TypeOK
  BY ConstantsAssumption DEF Inv, CallOK
<1>2. \A c \in Arrays : b \notin holding[c]
  BY DEF Used, holding
<1>3. \A c, d \in holding[a] : c = d
  BY <1>1 DEF holding
<1>4. \/ m_buffer[a] = NULL /\ m_buffer' = [m_buffer EXCEPT ![a] = b] /\ fresh' = fresh
      \/ m_buffer[a] # NULL /\ fresh' = [fresh EXCEPT ![a] = b] /\ m_buffer' = m_buffer
  BY DEF Got
<1>5. holding' = [holding EXCEPT ![a] = @ \cup {b}]
  <2>1. ASSUME NEW c \in Arrays
        PROVE  {m_buffer'[c], fresh'[c]} \ {NULL}
                 = IF c = a THEN ({m_buffer[a], fresh[a]} \ {NULL}) \cup {b}
                            ELSE {m_buffer[c], fresh[c]} \ {NULL}
    BY <1>1, <1>4 DEF TypeOK
  <2> QED
    BY <2>1 DEF holding
<1> QED
  BY <1>2, <1>3, <1>5 DEF Alloc!Obtain

\* Copy gives the old buffer back, ReleaseBuffer the only one.
LEMMA CopyGivesBack ==
    ASSUME Inv, NEW a \in Arrays, Copy(a)
    PROVE  Alloc!GiveBack(a, m_buffer[a]) /\ m_buffer[a] \in Buffers
<1>1. /\ TypeOK /\ m_buffer[a] # NULL /\ fresh[a] # NULL /\ m_buffer[a] # fresh[a]
      /\ m_buffer' = [m_buffer EXCEPT ![a] = fresh[a]]
      /\ fresh' = [fresh EXCEPT ![a] = NULL]
  BY DEF Copy, Inv, CallOK, BuffersOwnedOnce
<1>2. holding' = [holding EXCEPT ![a] = @ \ {m_buffer[a]}]
  <2>1. ASSUME NEW c \in Arrays
        PROVE  {m_buffer'[c], fresh'[c]} \ {NULL}
                 = IF c = a THEN ({m_buffer[a], fresh[a]} \ {NULL}) \ {m_buffer[a]}
                            ELSE {m_buffer[c], fresh[c]} \ {NULL}
    BY <1>1 DEF TypeOK
  <2> QED
    BY <2>1 DEF holding
<1> QED
  BY <1>1, <1>2 DEF Alloc!GiveBack, holding, TypeOK

LEMMA ReleaseGivesBack ==
    ASSUME Inv, NEW a \in Arrays, ReleaseBuffer(a)
    PROVE  Alloc!GiveBack(a, m_buffer[a]) /\ m_buffer[a] \in Buffers
<1>1. /\ TypeOK /\ m_buffer[a] # NULL /\ fresh[a] = NULL
      /\ m_buffer' = [m_buffer EXCEPT ![a] = NULL] /\ fresh' = fresh
  BY DEF ReleaseBuffer, Inv, CallOK
<1>2. holding' = [holding EXCEPT ![a] = @ \ {m_buffer[a]}]
  <2>1. ASSUME NEW c \in Arrays
        PROVE  {m_buffer'[c], fresh'[c]} \ {NULL}
                 = IF c = a THEN ({m_buffer[a], fresh[a]} \ {NULL}) \ {m_buffer[a]}
                            ELSE {m_buffer[c], fresh[c]} \ {NULL}
    BY <1>1 DEF TypeOK
  <2> QED
    BY <2>1 DEF holding
<1> QED
  BY <1>1, <1>2 DEF Alloc!GiveBack, holding, TypeOK

\* A step of the pool is a step of the allocator or changes nothing of it.
LEMMA StepRefines ==
    ASSUME Inv, [Next]_vars
    PROVE  [Alloc!Next]_holding
<1>1. CASE \E a \in Arrays : Take(a)
  <2>1. PICK a \in Arrays : Take(a)
    BY <1>1
  <2>2. PICK b \in list[class[a]] : Got(a, b)
    BY <2>1 DEF Take
  <2>3. class[a] \in Classes /\ pc[a] = "scan"
    BY <2>1, ScannedClass DEF Take, Inv
  <2>4. b \in Buffers /\ ~Used(b)
    BY <2>2, <2>3 DEF Inv, TypeOK, BuffersOwnedOnce, Listed
  <2> QED
    BY <2>2, <2>3, <2>4, GotObtains DEF Alloc!Next
<1>2. CASE \E a \in Arrays : Heap(a)
  <2>1. PICK a \in Arrays, b \in Buffers : size[b] = 0 /\ Got(a, b) /\ pc[a] = "scan"
    BY <1>2 DEF Heap
  <2>2. ~Used(b)
    BY <2>1 DEF Inv, BuffersOwnedOnce
  <2> QED
    BY <2>1, <2>2, GotObtains DEF Alloc!Next
<1>3. CASE \E a \in Arrays : Copy(a)
  BY <1>3, CopyGivesBack DEF Alloc!Next
<1>4. CASE \E a \in Arrays : ReleaseBuffer(a)
  BY <1>4, ReleaseGivesBack DEF Alloc!Next
<1>5. CASE \E a \in Arrays : Miss(a) \/ HeapFails(a)
  BY <1>5, KeepsHolding DEF Miss, HeapFails
<1>6. CASE \E a \in Arrays : Write(a) \/ Read(a)
  <2>1. UNCHANGED <<m_buffer, fresh>>
    BY <1>6 DEF Write, Read, WriteNumber, InitBuffer, WriteString, WriteSeek, SetReadContent,
                ReadNumber, ReadString, ReadSeek, Call, Keep
  <2> QED
    BY <2>1, KeepsHolding
<1>7. CASE \E i \in Classes : Trim(i)
  BY <1>7, KeepsHolding DEF Trim
<1>8. CASE UNCHANGED vars
  BY <1>8, KeepsHolding DEF vars
<1> QED
  BY <1>1, <1>2, <1>3, <1>4, <1>5, <1>6, <1>7, <1>8 DEF Next, Pool, Arrays

\* The pool implements the allocator, for any number of classes, buffers and arrays.
THEOREM PoolImplementsAllocator == Spec => ImplementsAllocator
<1>1. Init => Alloc!Init
  BY DEF Init, Alloc!Init, holding
<1> QED
  BY <1>1, Invariance, StepRefines, PTL DEF Spec, ImplementsAllocator, Alloc!Spec
=============================================================================
