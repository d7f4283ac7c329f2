----------------------------- MODULE BufferPool -----------------------------
(***************************************************************************)
(* The buffer pool (buffer.cpp): nine classes of buffers of 1K to 256K,    *)
(* each with a free list, a counter and a lock, shared by the byte arrays  *)
(* of all threads (WriteByteArray.cpp, ReadByteArray.cpp).                 *)
(*                                                                         *)
(* fl_malloc and fl_realloc go through the classes that are large enough,  *)
(* one lock after the other, and ask the heap when none has a buffer; a    *)
(* visit of a class is a step.  A list is a set: which of its buffers is   *)
(* on top makes no difference.                                             *)
(*                                                                         *)
(* The content of a byte array is its length and the position of the next  *)
(* read.  The unit of sizes and lengths is a number's: no number is longer *)
(* than the smallest buffer.  A string is its length and its bytes.        *)
(***************************************************************************)
EXTENDS Integers, FiniteSets

CONSTANTS ClassNum,        \* number of classes (9)
          Buffers,         \* the buffers the heap has room for
          Writers, Readers, \* byte arrays, each used by one thread
          NULL,
          ClassSize,       \* of every class (1K, 2K ... 256K)
          config_num,      \* of every class: its buffers at the start
          MaxRequest,      \* bound: the largest request
          MinInt, MaxInt   \* the int of seeks and string lengths (32 bits)

Arrays == Writers \cup Readers
Classes == 0 .. ClassNum - 1
Requests == 1 .. MaxRequest
Ints == MinInt .. MaxInt

ASSUME ConstantsAssumption ==
    /\ ClassNum \in Nat \ {0}
    /\ IsFiniteSet(Buffers)
    /\ NULL \notin Buffers
    /\ ClassSize \in [Classes -> Nat \ {0}]
    /\ \A i, j \in Classes : i < j => ClassSize[i] < ClassSize[j]
    /\ config_num \in [Classes -> Nat]
    /\ MaxRequest \in Nat
    /\ MinInt \in Int /\ MaxInt \in Int /\ MinInt < 0 /\ MaxInt >= MaxRequest
    /\ Writers \cap Readers = {}

VARIABLES
    list, num,             \* of every class: the free buffers and their counter
    size,                  \* of every buffer, 0 when the heap has it
    m_buffer,              \* the buffer of a byte array,
    m_size, m_cur_pos,     \* the length of its content, and a reader's position
    strayed,               \* the arrays that a negative seek, or a string length that is
                           \* negative or overflows, has led out of their content (history)
    pc, want, length,      \* its call: where it is, the size asked for, the new
    class, fit,            \* length, the class it looks at and fit_size
    fresh                  \* the buffer fl_realloc has got and not returned yet

poolVars == <<list, num, size>>
content == <<m_size, m_cur_pos, strayed>>
callVars == <<want, length, class, fit>>
vars == <<poolVars, m_buffer, content, pc, callVars, fresh>>

\* fl_init_buffer: a class has fewer buffers when the heap refuses some.
Init ==
    /\ list \in [Classes -> SUBSET Buffers]
    /\ \A i, j \in Classes : i # j => list[i] \cap list[j] = {}
    /\ \A i \in Classes : Cardinality(list[i]) <= config_num[i]
    /\ num = [i \in Classes |-> Cardinality(list[i])]
    /\ \E s \in [Buffers -> {0} \cup {ClassSize[i] : i \in Classes}] :
          /\ \A b \in Buffers : s[b] = 0 <=> \A i \in Classes : b \notin list[i]
          /\ \A i \in Classes : \A b \in list[i] : s[b] = ClassSize[i]
          /\ size = s
    /\ m_buffer = [a \in Arrays |-> NULL]
    /\ m_size = [a \in Arrays |-> 0]
    /\ m_cur_pos = [a \in Arrays |-> 0]
    /\ strayed = {}
    /\ fresh = [a \in Arrays |-> NULL]
    /\ pc = [a \in Arrays |-> "idle"]
    /\ want = [a \in Arrays |-> 0]
    /\ length = [a \in Arrays |-> 0]
    /\ class = [a \in Arrays |-> 0]
    /\ fit = [a \in Arrays |-> 0]

-----------------------------------------------------------------------------
\* A faulty variant of Fits that allows one K too many.
FitsBelow(s, i) == s <= ClassSize[i] + 1

Fits(s, i) == s <= ClassSize[i]

\* fl_malloc, or fl_realloc of the buffer there is, on behalf of an operation that
\* leaves l in the array.
Call(a, s, l) ==
    /\ pc' = [pc EXCEPT ![a] = "scan"]
    /\ want' = [want EXCEPT ![a] = s]
    /\ length' = [length EXCEPT ![a] = l]
    /\ UNCHANGED <<poolVars, m_buffer, content, class, fit, fresh>>

\* The content gets the length l and the position p in the buffer there is; s are
\* the arrays that have strayed then.
Keep(a, l, p, s) ==
    /\ m_size' = [m_size EXCEPT ![a] = l]
    /\ m_cur_pos' = [m_cur_pos EXCEPT ![a] = p]
    /\ strayed' = s
    /\ UNCHANGED <<poolVars, m_buffer, pc, callVars, fresh>>

\* The locals of a call that returns are dead and are reset.
Return(a) ==
    /\ want' = [want EXCEPT ![a] = 0]
    /\ length' = [length EXCEPT ![a] = 0]
    /\ class' = [class EXCEPT ![a] = 0]
    /\ fit' = [fit EXCEPT ![a] = 0]
    /\ pc' = [pc EXCEPT ![a] = "idle"]

\* The buffer b is there: fl_malloc returns it, fl_realloc has yet to copy.
Got(a, b) ==
    \/ /\ m_buffer[a] = NULL
       /\ m_buffer' = [m_buffer EXCEPT ![a] = b]
       /\ m_size' = [m_size EXCEPT ![a] = length[a]]
       /\ m_cur_pos' = [m_cur_pos EXCEPT ![a] = 0]
       /\ strayed' = strayed \ {a}
       /\ Return(a)
       /\ UNCHANGED fresh
    \/ /\ m_buffer[a] # NULL
       /\ fresh' = [fresh EXCEPT ![a] = b]
       /\ pc' = [pc EXCEPT ![a] = "copy"]
       /\ class' = [class EXCEPT ![a] = 0]
       /\ fit' = [fit EXCEPT ![a] = 0]
       /\ UNCHANGED <<m_buffer, content, want, length>>

\* The class is large enough and has a free buffer.
Has(a) == Fits(want[a], class[a]) /\ num[class[a]] > 0

\* A faulty variant of Pop that forgets the counter.
PopUncounted(i, b) == list' = [list EXCEPT ![i] = @ \ {b}] /\ UNCHANGED num

\* A faulty variant of Pop that counts the buffer twice.
PopCountedTwice(i, b) ==
    /\ list' = [list EXCEPT ![i] = @ \ {b}]
    /\ num' = [num EXCEPT ![i] = @ - 2]

\* The top buffer of a list.
Pop(i, b) ==
    /\ list' = [list EXCEPT ![i] = @ \ {b}]
    /\ num' = [num EXCEPT ![i] = @ - 1]

Take(a) ==
    /\ pc[a] = "scan"
    /\ class[a] < ClassNum
    /\ Has(a)
    /\ \E b \in list[class[a]] : Pop(class[a], b) /\ Got(a, b)
    /\ UNCHANGED size

\* The first class that is large enough sets fit_size.
Miss(a) ==
    /\ pc[a] = "scan"
    /\ class[a] < ClassNum
    /\ ~Has(a)
    /\ class' = [class EXCEPT ![a] = @ + 1]
    /\ fit' = [fit EXCEPT ![a] = IF @ = 0 /\ Fits(want[a], class[a]) THEN ClassSize[class[a]] ELSE @]
    /\ UNCHANGED <<poolVars, m_buffer, content, pc, want, length, fresh>>

\* No class had a buffer, or none is large enough.
Heap(a) ==
    /\ pc[a] = "scan"
    /\ class[a] = ClassNum
    /\ \E b \in Buffers :
          /\ size[b] = 0
          /\ size' = [size EXCEPT ![b] = IF fit[a] # 0 THEN fit[a] ELSE want[a]]
          /\ Got(a, b)
    /\ UNCHANGED <<list, num>>

\* malloc(3) fails: NULL is returned, and the operation fails.  An array that had
\* a buffer keeps it and its content.
HeapFails(a) ==
    /\ pc[a] = "scan"
    /\ class[a] = ClassNum
    /\ Return(a)
    /\ UNCHANGED <<poolVars, m_buffer, content, fresh>>

\* A faulty variant of Home: a buffer goes to a class it is large enough for.
HomeLarge(b) == {i \in Classes : ClassSize[i] <= size[b]}

\* The class whose size the buffer has.
Home(b) == {i \in Classes : ClassSize[i] = size[b]}

\* fl_free: back to its list, or to the heap when no class has its size.
fl_free(b) ==
    \/ \E i \in Home(b) :
          /\ list' = [list EXCEPT ![i] = @ \cup {b}]
          /\ num' = [num EXCEPT ![i] = @ + 1]
          /\ UNCHANGED size
    \/ /\ Home(b) = {}
       /\ size' = [size EXCEPT ![b] = 0]
       /\ UNCHANGED <<list, num>>

\* memcpy and fl_free of the old buffer; the caller takes the new one.
Copy(a) ==
    /\ pc[a] = "copy"
    /\ fl_free(m_buffer[a])
    /\ m_buffer' = [m_buffer EXCEPT ![a] = fresh[a]]
    /\ fresh' = [fresh EXCEPT ![a] = NULL]
    /\ m_size' = [m_size EXCEPT ![a] = length[a]]
    /\ m_cur_pos' = [m_cur_pos EXCEPT ![a] = 0]
    /\ strayed' = strayed \ {a}
    /\ Return(a)

\* A faulty variant of ReleaseBuffer: m_buffer is not set to NULL.
ReleaseAndKeep(a) ==
    /\ pc[a] = "idle"
    /\ m_buffer[a] # NULL
    /\ fl_free(m_buffer[a])
    /\ m_size' = [m_size EXCEPT ![a] = 0]
    /\ m_cur_pos' = [m_cur_pos EXCEPT ![a] = 0]
    /\ strayed' = strayed \ {a}
    /\ UNCHANGED <<m_buffer, pc, callVars, fresh>>

ReleaseBuffer(a) ==
    /\ pc[a] = "idle"
    /\ m_buffer[a] # NULL
    /\ fl_free(m_buffer[a])
    /\ m_buffer' = [m_buffer EXCEPT ![a] = NULL]
    /\ m_size' = [m_size EXCEPT ![a] = 0]
    /\ m_cur_pos' = [m_cur_pos EXCEPT ![a] = 0]
    /\ strayed' = strayed \ {a}
    /\ UNCHANGED <<pc, callVars, fresh>>

-----------------------------------------------------------------------------
(* The operations of the byte arrays.  CHECK_BUFFER of a write is an       *)
(* InitBuffer before it; the program ends in a write when that one failed. *)
(* There is no write to an array whose length is negative, which would     *)
(* overwrite what lies before its buffer.                                  *)

\* On an array without buffer: every caller has released it before.
InitBuffer(a, s) ==
    /\ pc[a] = "idle"
    /\ m_buffer[a] = NULL
    /\ Call(a, s, 0)

\* A faulty variant of HasRoom that is one too generous.
HasRoomBelow(a, n) == m_size[a] + n <= size[m_buffer[a]] + 1

HasRoom(a, n) == m_size[a] + n <= size[m_buffer[a]]

Writable(a) == pc[a] = "idle" /\ m_buffer[a] # NULL /\ m_size[a] >= 0

\* WriteInt8 ... WriteDouble: a buffer without room is replaced by one of twice
\* its size.
WriteNumber(a) ==
    /\ Writable(a)
    /\ \/ HasRoom(a, 1) /\ Keep(a, m_size[a] + 1, 0, strayed)
       \/ /\ ~HasRoom(a, 1)
          /\ 2 * size[m_buffer[a]] \in Requests
          /\ Call(a, 2 * size[m_buffer[a]], m_size[a] + 1)

\* A faulty variant of WriteString that doubles once, as WriteNumber does.
WriteStringOnce(a, n) ==
    /\ Writable(a)
    /\ \/ HasRoom(a, n) /\ Keep(a, m_size[a] + n, 0, strayed)
       \/ /\ ~HasRoom(a, n)
          /\ 2 * size[m_buffer[a]] \in Requests
          /\ Call(a, 2 * size[m_buffer[a]], m_size[a] + n)

\* The size is doubled until the string fits.
WriteString(a, n) ==
    /\ Writable(a)
    /\ \/ HasRoom(a, n) /\ Keep(a, m_size[a] + n, 0, strayed)
       \/ /\ ~HasRoom(a, n)
          /\ \E s \in {size[m_buffer[a]] * 2 ^ k : k \in 1 .. MaxRequest} \cap Requests :
                /\ s \div 2 < m_size[a] + n \/ s \div 2 = size[m_buffer[a]]
                /\ s >= m_size[a] + n
                /\ Call(a, s, m_size[a] + n)

\* Who has strayed once a seek to p has succeeded: only the upper end is checked.
Seeks(a, p) == IF p < 0 THEN strayed \cup {a} ELSE strayed \ {a}

\* WriteSeek, and ResetWrite with 0.
WriteSeek(a, p) ==
    /\ pc[a] = "idle"
    /\ m_buffer[a] # NULL
    /\ p <= size[m_buffer[a]]
    /\ Keep(a, p, 0, Seeks(a, p))

SetReadContent(a, s) ==
    /\ pc[a] = "idle"
    /\ IF m_buffer[a] # NULL /\ s <= size[m_buffer[a]]
         THEN Keep(a, s, 0, strayed \ {a})
         ELSE Call(a, s, s)

\* An array without a buffer has nothing to read, unless it was led below its start:
\* the program ends there.
Readable(a) == pc[a] = "idle" /\ m_buffer[a] # NULL /\ m_cur_pos[a] + 1 <= m_size[a]

\* ReadInt8 ... ReadDouble: without enough bytes the position stays.
ReadNumber(a) ==
    /\ Readable(a)
    /\ Keep(a, m_size[a], m_cur_pos[a] + 1, strayed)

\* The sum of two ints.
Wrap(x) ==
    CASE x > MaxInt -> x - (MaxInt - MinInt + 1)
      [] x < MinInt -> x + (MaxInt - MinInt + 1)
      [] OTHER -> x

\* len == 0 || m_cur_pos + len > m_size
PastEnd(p, n, last) == n = 0 \/ Wrap(p + n) > last

\* A length, and n bytes if they are there; the length is consumed anyway.  The test
\* lets a negative length pass, and one that overflows the sum.  std::string then
\* throws, or copies whatever lies there, and the program ends unless it can; here
\* the array goes on with the position that it has.
ReadString(a, n) ==
    /\ Readable(a)
    /\ LET p == m_cur_pos[a] + 1 IN
         \/ /\ PastEnd(p, n, m_size[a])
            /\ Keep(a, m_size[a], p, strayed)
         \/ /\ ~PastEnd(p, n, m_size[a])
            /\ Keep(a, m_size[a], Wrap(p + n),
                    IF n < 0 \/ Wrap(p + n) # p + n THEN strayed \cup {a} ELSE strayed)

\* ReadSeek, and ResetReadPos with 0.
ReadSeek(a, p) ==
    /\ pc[a] = "idle"
    /\ p <= m_size[a]
    /\ Keep(a, m_size[a], p, Seeks(a, p))

\* fl_gc_buffer on one class, under its lock: buffers go back to the heap until
\* the class has config_num of them.  No thread calls it in this version.
Trim(i) ==
    /\ num[i] > config_num[i]
    /\ \E keep \in SUBSET list[i] :
          /\ Cardinality(keep) = config_num[i]
          /\ list' = [list EXCEPT ![i] = keep]
          /\ num' = [num EXCEPT ![i] = config_num[i]]
          /\ size' = [b \in Buffers |-> IF b \in list[i] \ keep THEN 0 ELSE size[b]]
    /\ UNCHANGED <<m_buffer, content, pc, callVars, fresh>>

Pool(a) == Take(a) \/ Miss(a) \/ Heap(a) \/ HeapFails(a) \/ Copy(a) \/ ReleaseBuffer(a)

Write(a) ==
    \/ WriteNumber(a)
    \/ \E n \in Requests : InitBuffer(a, n) \/ WriteString(a, n)
    \/ \E p \in Ints : WriteSeek(a, p)

Read(a) ==
    \/ ReadNumber(a)
    \/ \E n \in Requests : SetReadContent(a, n)
    \/ \E n \in Ints : ReadString(a, n) \/ ReadSeek(a, n)

Next ==
    \/ \E a \in Arrays : Pool(a)
    \/ \E a \in Writers : Write(a)
    \/ \E a \in Readers : Read(a)
    \/ \E i \in Classes : Trim(i)

Spec == Init /\ [][Next]_vars

-----------------------------------------------------------------------------
(* Properties.                                                             *)

\* Every variable has its type.
TypeOK ==
    /\ list \in [Classes -> SUBSET Buffers]
    /\ num \in [Classes -> Nat]
    /\ size \in [Buffers -> Nat]
    /\ m_buffer \in [Arrays -> Buffers \cup {NULL}]
    /\ m_size \in [Arrays -> Int]
    /\ m_cur_pos \in [Arrays -> Int]
    /\ strayed \subseteq Arrays
    /\ fresh \in [Arrays -> Buffers \cup {NULL}]
    /\ pc \in [Arrays -> {"idle", "scan", "copy"}]
    /\ want \in [Arrays -> 0 .. MaxRequest]
    /\ length \in [Arrays -> Nat]
    /\ class \in [Arrays -> 0 .. ClassNum]
    /\ fit \in [Arrays -> Nat]

\* A class's counter, which fl_malloc trusts before it follows the list, is the
\* number of buffers on its list whatever the threads do in between.
CountersMatch == \A i \in Classes : num[i] = Cardinality(list[i])

\* Every list has buffers of its class's size only, also after large buffers have
\* served small requests and have come back.
RightClass == \A i \in Classes : \A b \in list[i] : size[b] = ClassSize[i]

Listed(b) == \E i \in Classes : b \in list[i]
Used(b) == \E a \in Arrays : b \in {m_buffer[a], fresh[a]}

\* A buffer has one owner: one list, or one byte array, or the heap.  It is not
\* handed out twice, not on a list while it is used, and never lost.
BuffersOwnedOnce ==
    /\ \A i, j \in Classes : i # j => list[i] \cap list[j] = {}
    /\ \A a, c \in Arrays : a # c =>
          {m_buffer[a], fresh[a]} \cap {m_buffer[c], fresh[c]} \subseteq {NULL}
    /\ \A a \in Arrays : m_buffer[a] = fresh[a] => fresh[a] = NULL
    /\ \A b \in Buffers : ~(Listed(b) /\ Used(b))
    /\ \A b \in Buffers : size[b] # 0 <=> Listed(b) \/ Used(b)

\* What fl_realloc copies fits into the buffer it copies to, and so does the
\* content that the operation leaves there.
RoomForContent ==
    \A a \in Arrays : pc[a] = "copy" =>
        size[m_buffer[a]] < size[fresh[a]] /\ length[a] <= size[fresh[a]]

\* The content of a byte array never reaches past the end of its buffer, nor a read
\* past the content: after growing by doubling, after a heap that refused, whatever
\* ints are given as seeks and string lengths.  Neither begins before the start but
\* in an array that a negative seek or such a length has led there, and that has got
\* no new content, no new buffer and no other seek since.
ContentInside ==
    \A a \in Arrays :
        /\ a \in Readers => m_cur_pos[a] <= m_size[a]
        /\ IF m_buffer[a] = NULL THEN m_size[a] = 0 ELSE m_size[a] <= size[m_buffer[a]]
        /\ a \in strayed \/ (m_cur_pos[a] >= 0 /\ m_size[a] >= 0)

\* The buffers every array has.
holding == [a \in Arrays |-> {m_buffer[a], fresh[a]} \ {NULL}]

Alloc == INSTANCE Allocator WITH held <- holding

\* The pool with its nine classes, its locks taken one after the other, the heap
\* behind it and the growing in place is an allocator: every step of a thread
\* hands out one free buffer, takes one back from its owner, or does neither.
ImplementsAllocator == Alloc!Spec
=============================================================================
