----------------------------- MODULE LuaTableLib -----------------------------
(***************************************************************************)
(* The table library (ltablib.c) without sort, which module LuaSort has:   *)
(* insert, remove, move, concat, pack and unpack work one element after    *)
(* another on a table that they also write, with positions that may lie    *)
(* anywhere in the range of integers.  Integers are unbounded here, and a  *)
(* key outside of the range in a result shows an overflow.  The second     *)
(* half says what each call is to give.                                    *)
(***************************************************************************)
EXTENDS Integers, Sequences, SequencesExt

CONSTANTS WIDTH,                \* bits of a lua_Integer
          INT_MAX, LUAI_MAXSTACK,
          MaxLen                \* elements of the tables of insert and remove

LUA_MAXINTEGER == 2 ^ (WIDTH - 1) - 1
Integer == -(2 ^ (WIDTH - 1)) .. LUA_MAXINTEGER
Nil == 0
New == 1                        \* a value to insert
Value(k) == 100 + k             \* what a table holds at key k at first

geti(t, k) == IF k \in DOMAIN t THEN t[k] ELSE Nil
seti(t, k, v) == (k :> v) @@ t
Upwards(f, e) == [x \in 1 .. e - f + 1 |-> f + x - 1]
Downwards(f, e) == Reverse(Upwards(f, e))

Error == [error |-> TRUE, t |-> <<>>, out |-> <<>>]
Return(t, out) == [error |-> FALSE, t |-> t, out |-> out]

\* n elements; args: the number of arguments.
tinsert(t, n, args, pos) ==
    LET e == n + 1
        moved == FoldLeft(LAMBDA u, i : seti(u, i, geti(u, i - 1)), t, Downwards(pos + 1, e))
    IN  IF args = 2 THEN Return(seti(t, e, New), <<>>)
        ELSE IF args # 3 \/ pos < 1 \/ pos > e THEN Error
        ELSE Return(seti(moved, pos, New), <<>>)

tremove(t, size, pos) ==
    LET moved == FoldLeft(LAMBDA u, i : seti(u, i, geti(u, i + 1)), t, Upwards(pos, size - 1))
    IN  IF pos # size /\ (pos < 1 \/ pos > size + 1) THEN Error
        ELSE Return(seti(moved, IF pos < size THEN size ELSE pos, Nil), <<geti(t, pos)>>)

\* From t to itself (same), or to the empty table.
tmove(t, f, e, to, same) ==
    LET n == e - f + 1
        Copy(u, i) == seti(u, to + i, geti(IF same THEN u ELSE t, f + i))
        start == IF same THEN t ELSE <<>>
    IN  IF e < f THEN Return(start, <<>>)
        ELSE IF ~(f > 0 \/ e < LUA_MAXINTEGER + f) \/ to > LUA_MAXINTEGER - n + 1 THEN Error
        ELSE IF to > e \/ to <= f \/ ~same THEN Return(FoldLeft(Copy, start, Upwards(0, n - 1)), <<>>)
        ELSE Return(FoldLeft(Copy, start, Downwards(0, n - 1)), <<>>)

\* addfield: a nil is an error.
tconcat(t, sep, i, last) ==
    LET Field(b, k) == IF b = <<>> \/ geti(t, k) = Nil THEN <<>> ELSE <<Append(b[1], geti(t, k))>>
        Sep(b) == IF b = <<>> THEN b ELSE <<Append(b[1], sep)>>
        all == FoldLeft(LAMBDA b, k : Sep(Field(b, k)), <<(<<>>)>>, Upwards(i, last - 1))
        b == IF i <= last THEN Field(all, last) ELSE all
    IN  IF b = <<>> THEN Error ELSE Return(t, b[1])

pack(args) ==
    LET n == Len(args)
    IN  [error |-> FALSE, t |-> FoldLeft(LAMBDA u, i : seti(u, i, args[i]), <<>>, Downwards(1, n)), out |-> <<n>>]

Unsigned(x) == x % (2 ^ WIDTH)
CastToInt(n) == LET u == n % (2 * (INT_MAX + 1)) IN IF u > INT_MAX THEN u - 2 * (INT_MAX + 1) ELSE u
unpack(t, i, e) ==
    LET n == Unsigned(e - i) IN
    IF i > e THEN Return(t, <<>>)
    ELSE IF n >= INT_MAX \/ CastToInt(n + 1) > LUAI_MAXSTACK THEN Error
    ELSE Return(t, [x \in 1 .. CastToInt(n + 1) |-> geti(t, i + x - 1)])

-----------------------------------------------------------------------------
(* The calls of an instance: tables of a few elements, or with an element  *)
(* at every key but one.                                                   *)

List(n) == [k \in 1 .. n |-> Value(k)]
HoleAt(h) == [k \in Integer \ {h} |-> Value(k)]
Holes == {LUA_MAXINTEGER, 3}
Separator == 2

Calls ==
         [lib : {"table"}, op : {"insert"}, n : 0 .. MaxLen, args : {2, 3, 4}, pos : -1 .. MaxLen + 2]
    \cup [lib : {"table"}, op : {"remove"}, n : 0 .. MaxLen, pos : -1 .. MaxLen + 2]
    \cup [lib : {"table"}, op : {"move"}, f : Integer, e : Integer, to : Integer, same : BOOLEAN]
    \cup [lib : {"table"}, op : {"concat", "unpack"}, hole : Holes, f : Integer, e : Integer]
    \cup [lib : {"table"}, op : {"pack"}, args : SeqOf({Nil, New}, 3)]

Result(c) ==
    CASE c.op = "insert" -> tinsert(List(c.n), c.n, c.args, c.pos)
      [] c.op = "remove" -> tremove(List(c.n), c.n, c.pos)
      [] c.op = "move" -> tmove(HoleAt(3), c.f, c.e, c.to, c.same)
      [] c.op = "concat" -> tconcat(HoleAt(c.hole), Separator, c.f, c.e)
      [] c.op = "unpack" -> unpack(HoleAt(c.hole), c.f, c.e)
      [] c.op = "pack" -> pack(c.args)

\* The two tables agree at every key, and neither has one outside of the integers.
SameTable(t, u) ==
    /\ DOMAIN t \cup DOMAIN u \subseteq Integer
    /\ \A k \in DOMAIN t \cup DOMAIN u : geti(t, k) = geti(u, k)

Slice(t, f, e) == [x \in 1 .. e - f + 1 |-> geti(t, f + x - 1)]
Alternate(s) == [x \in 1 .. 2 * Len(s) - 1 |-> IF x % 2 = 1 THEN s[(x + 1) \div 2] ELSE Separator]

Meaning(c) ==
    CASE c.op = "insert" ->
            IF c.args = 2 THEN Return(Append(List(c.n), New), <<>>)
            ELSE IF c.args = 4 \/ c.pos \notin 1 .. c.n + 1 THEN Error
            ELSE Return(InsertAt(List(c.n), c.pos, New), <<>>)
      [] c.op = "remove" ->
            IF c.pos \notin 1 .. c.n + 1 /\ c.pos # c.n THEN Error
            ELSE IF c.pos \in 1 .. c.n THEN Return(RemoveAt(List(c.n), c.pos), <<Value(c.pos)>>)
            ELSE Return(List(c.n), <<Nil>>)
      [] c.op = "move" ->
            LET t == HoleAt(3)
                start == IF c.same THEN t ELSE <<>>
                target == {c.to + k - c.f : k \in c.f .. c.e}
            IN  IF c.e - c.f + 1 > LUA_MAXINTEGER \/ (c.f <= c.e /\ ~target \subseteq Integer) THEN Error
                ELSE Return([k \in target |-> geti(t, c.f + k - c.to)] @@ start, <<>>)
      [] c.op = "concat" ->
            IF c.hole \in c.f .. c.e THEN Error
            ELSE IF c.f > c.e THEN Return(HoleAt(c.hole), <<>>)
            ELSE Return(HoleAt(c.hole), Alternate(Slice(HoleAt(c.hole), c.f, c.e)))
      [] c.op = "unpack" ->
            IF c.e - c.f + 1 > LUAI_MAXSTACK THEN Error
            ELSE Return(HoleAt(c.hole), Slice(HoleAt(c.hole), c.f, c.e))
      [] c.op = "pack" -> Return(c.args, <<Len(c.args)>>)

\* The call gave r.
IsMeant(c, r) ==
    LET w == Meaning(c) IN r.error = w.error /\ r.out = w.out /\ SameTable(r.t, w.t)
=============================================================================
