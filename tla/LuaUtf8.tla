------------------------------ MODULE LuaUtf8 ------------------------------
(***************************************************************************)
(* The UTF-8 library (lutf8lib.c, and the encoding of lobject.c): strings  *)
(* of bytes as characters of one to four bytes.  A string may be cut or    *)
(* hold anything; it is followed by a byte 0.  The second half says what   *)
(* the calls are to give, from a table of the encoding.                    *)
(***************************************************************************)
EXTENDS Integers, Sequences, SequencesExt, FiniteSetsExt

CONSTANTS Points,               \* code points to encode
          Codings,              \* strings to decode
          Utf8Strings           \* strings to count and move in

MAXUNICODE == 1114111           \* 0x10FFFF
Nil == -1                       \* not a byte, position or code point
Error == <<-2>>

Byte(s, p) == IF p \in DOMAIN s THEN s[p] ELSE 0
iscont(c) == c \div 64 = 2

\* Bit b of c.
Bit(c, b) == (c \div 2 ^ b) % 2

-----------------------------------------------------------------------------
(* Encoding (luaO_utf8esc): the bytes of x, made from the last one while   *)
(* x exceeds mfb, the most that fits in a first byte.                      *)

RECURSIVE AddContinuation(_, _, _)
AddContinuation(buff, x, mfb) ==
    LET rest == x \div 64
        fits == mfb \div 2
        added == <<128 + (x % 64)>> \o buff
    IN  IF rest > fits THEN AddContinuation(added, rest, fits)
        ELSE <<(((255 - fits) * 2) % 256) + rest>> \o added
luaO_utf8esc(x) == IF x < 128 THEN <<x>> ELSE AddContinuation(<<>>, x, 63)

utfchar(xs) ==
    IF \E k \in DOMAIN xs : xs[k] \notin 0 .. MAXUNICODE THEN Error
    ELSE FoldLeft(LAMBDA b, x : b \o luaO_utf8esc(x), <<>>, xs)

-----------------------------------------------------------------------------
(* Decoding.                                                               *)

\* The character at position p, or next = 0; each bit set after the first asks
\* for one more continuation byte.
utf8_decode(s, p) ==
    LET c == Byte(s, p)
        count == Min({k \in 0 .. 6 : Bit(c, 6 - k) = 0} \cup {7})
        limits == <<255, 127, 2047, 65535>>
        low[k \in 0 .. count] == IF k = 0 THEN 0 ELSE low[k - 1] * 64 + (Byte(s, p + k) % 64)
        res == low[count] + ((c * 2 ^ count) % 128) * 2 ^ (count * 5)
    IN  IF c < 128 THEN [next |-> p + 1, code |-> c]
        ELSE IF \E k \in 1 .. count : ~iscont(Byte(s, p + k)) THEN [next |-> 0]
        ELSE IF count > 3 THEN [next |-> 0]
        ELSE IF res > MAXUNICODE \/ res <= limits[count + 1] THEN [next |-> 0]
        ELSE [next |-> p + count + 1, code |-> res]

u_posrelat(pos, len) == IF pos >= 0 THEN pos ELSE IF -pos > len THEN 0 ELSE len + pos + 1

\* utf8.len: nil and the position of the first byte that begins no character.
RECURSIVE Count(_, _, _, _)
Count(s, posi, posj, n) ==
    LET d == utf8_decode(s, posi) IN
    IF posi > posj THEN <<n>>
    ELSE IF d.next = 0 THEN <<Nil, posi>>
    ELSE Count(s, d.next, posj, n + 1)
utflen(s, i, j) ==
    LET posi == u_posrelat(i, Len(s))
        posj == u_posrelat(j, Len(s))
    IN  IF posi \notin 1 .. Len(s) + 1 \/ posj > Len(s) THEN Error ELSE Count(s, posi, posj, 0)

RECURSIVE Codes(_, _, _)
Codes(s, p, pose) ==
    LET d == utf8_decode(s, p) IN
    IF p > pose THEN <<>>
    ELSE IF d.next = 0 \/ Codes(s, d.next, pose) = Error THEN Error
    ELSE <<d.code>> \o Codes(s, d.next, pose)
codepoint(s, i, j) ==
    LET posi == u_posrelat(i, Len(s))
        pose == u_posrelat(j, Len(s))
    IN  IF posi < 1 \/ pose > Len(s) THEN Error ELSE Codes(s, posi, pose)

\* utf8.offset; the positions of the loops begin at 0 in the code.
RECURSIVE Begin(_, _), Back(_, _, _), Forward(_, _, _)
Begin(s, p) == IF p > 1 /\ iscont(Byte(s, p)) THEN Begin(s, p - 1) ELSE p
Back(s, p, n) == IF n < 0 /\ p > 1 THEN Back(s, Begin(s, p - 1), n + 1) ELSE <<p, n>>
Forward(s, p, n) ==
    LET after == CHOOSE q \in p + 1 .. Len(s) + 1 :
                     /\ ~iscont(Byte(s, q))
                     /\ \A o \in p + 1 .. q - 1 : iscont(Byte(s, o))
    IN  IF n > 0 /\ p <= Len(s) THEN Forward(s, after, n - 1) ELSE <<p, n>>
byteoffset(s, n, i) ==
    LET posi == u_posrelat(i, Len(s))
        moved == IF n = 0 THEN <<Begin(s, posi), 0>>
                 ELSE IF n < 0 THEN Back(s, posi, n) ELSE Forward(s, posi, n - 1)
    IN  IF posi \notin 1 .. Len(s) + 1 THEN Error
        ELSE IF n # 0 /\ iscont(Byte(s, posi)) THEN Error
        ELSE IF moved[2] = 0 THEN <<moved[1]>> ELSE <<Nil>>

\* What the iterator of utf8.codes gives after position n, and all it gives from the
\* start; the last element is an error where it raises one.
iter_aux(s, n) ==
    LET p == IF n = 0 THEN 1
             ELSE CHOOSE q \in n + 1 .. Len(s) + 1 :
                      /\ ~iscont(Byte(s, q))
                      /\ \A o \in n + 1 .. q - 1 : iscont(Byte(s, o))
        d == utf8_decode(s, p)
    IN  IF p > Len(s) THEN <<>>
        ELSE IF d.next = 0 \/ iscont(Byte(s, d.next)) THEN Error
        ELSE <<p, d.code>>
RECURSIVE iter_codes(_, _)
iter_codes(s, n) ==
    LET step == iter_aux(s, n) IN
    IF step = <<>> THEN <<>> ELSE IF step = Error THEN <<Error>> ELSE <<step>> \o iter_codes(s, step[1])

-----------------------------------------------------------------------------
(* The calls of an instance.                                               *)

Places(s) == -(Len(s) + 1) .. Len(s) + 2
IsCall(c) ==
    \/ c \in [lib : {"utf8"}, op : {"char"}, xs : SeqOf(Points, 2)]
    \/ c \in [lib : {"utf8"}, op : {"decode"}, s : Codings]
    \/ \E s \in Utf8Strings : c \in [lib : {"utf8"}, op : {"len", "codepoint", "offset"}, s : {s},
                                     i : Places(s), j : Places(s)]
    \/ c \in [lib : {"utf8"}, op : {"codes"}, s : Utf8Strings]

Result(c) ==
    CASE c.op = "char" -> utfchar(c.xs)
      [] c.op = "decode" -> codepoint(c.s, 1, 1)
      [] c.op = "len" -> utflen(c.s, c.i, c.j)
      [] c.op = "codepoint" -> codepoint(c.s, c.i, c.j)
      [] c.op = "offset" -> byteoffset(c.s, c.j, c.i)
      [] c.op = "codes" -> iter_codes(c.s, 0)

-----------------------------------------------------------------------------
(* What they are to give.                                                  *)

\* The table of the encoding.
Continuation(x, k) == 128 + ((x \div 64 ^ k) % 64)
Encoding(x) ==
    CASE x < 128 -> <<x>>
      [] x \in 128 .. 2047 -> <<192 + x \div 64, Continuation(x, 0)>>
      [] x \in 2048 .. 65535 -> <<224 + x \div 4096, Continuation(x, 1), Continuation(x, 0)>>
      [] OTHER -> <<240 + x \div 262144, Continuation(x, 2), Continuation(x, 1), Continuation(x, 0)>>

\* The code points whose encoding is at position p: one, or none.
At(s, p) ==
    LET payload(n) == LET b(k) == s[p + k] % 64 IN
            CASE n = 1 -> s[p]
              [] n = 2 -> (s[p] % 32) * 64 + b(1)
              [] n = 3 -> (s[p] % 16) * 4096 + b(1) * 64 + b(2)
              [] n = 4 -> (s[p] % 8) * 262144 + b(1) * 4096 + b(2) * 64 + b(3)
        fit == {n \in 1 .. 4 : p + n - 1 <= Len(s)}
    IN  {x \in {payload(n) : n \in fit} :
            /\ x <= MAXUNICODE
            /\ IsPrefix(Encoding(x), SubSeq(s, p, Len(s)))}

Characters(s) == {p \in DOMAIN s : At(s, p) # {}}
Code(s, p) == CHOOSE x \in At(s, p) : TRUE
\* The bytes from i on that belong to no character that begins at i or after it.
Stray(s, i) ==
    {p \in i .. Len(s) :
        \A q \in Characters(s) \cap i .. p : q + Len(Encoding(Code(s, q))) <= p}
From(s, i, j) == SetToSortSeq(Characters(s) \cap i .. j, <)

\* Where characters may begin: the end counts, and a string that begins with
\* continuation bytes begins with a character all the same.
Starts(s) == {p \in 1 .. Len(s) + 1 : p = 1 \/ ~iscont(Byte(s, p))}

Meaning(c) ==
    LET s == c.s
        i == IF c.i < 0 THEN Max({0, Len(s) + 1 + c.i}) ELSE c.i
        j == IF c.j < 0 THEN Max({0, Len(s) + 1 + c.j}) ELSE c.j
        strays == {p \in Stray(s, i) : p <= j}
    IN CASE c.op = "len" ->
              IF i \notin 1 .. Len(s) + 1 \/ j > Len(s) THEN Error
              ELSE IF strays # {} THEN <<Nil, Min(strays)>> ELSE <<Len(From(s, i, j))>>
         [] c.op = "codepoint" ->
              IF i < 1 \/ j > Len(s) \/ (i <= j /\ strays # {}) THEN Error
              ELSE [k \in DOMAIN From(s, i, j) |-> Code(s, From(s, i, j)[k])]
         [] c.op = "offset" ->
              LET from == {p \in Starts(s) : p >= i}
                  before == {p \in Starts(s) : p < i}
                  Rank(S, p) == Cardinality({q \in S : q <= p})
                  found == IF c.j = 0 THEN {Max({p \in Starts(s) : p <= i})}
                           ELSE IF c.j > 0 THEN {p \in from : Rank(from, p) = c.j}
                           ELSE {p \in before : Cardinality(before) - Rank(before, p) + 1 = -c.j}
              IN IF i \notin 1 .. Len(s) + 1 \/ (c.j # 0 /\ iscont(Byte(s, i))) THEN Error
                 ELSE IF found = {} THEN <<Nil>> ELSE <<Max(found)>>

\* The iterator of utf8.codes gives the characters in order, all of them unless the
\* string has bytes that belong to none.
IsMeant(c, r) ==
    IF c.op = "char"
    THEN r = IF Range(c.xs) \subseteq 0 .. MAXUNICODE THEN FlattenSeq([k \in DOMAIN c.xs |-> Encoding(c.xs[k])])
             ELSE Error
    ELSE IF c.op = "decode"
    THEN r = IF At(c.s, 1) = {} THEN Error ELSE <<Code(c.s, 1)>>
    ELSE IF c.op = "codes"
    THEN LET all == [k \in DOMAIN From(c.s, 1, Len(c.s)) |->
                        <<From(c.s, 1, Len(c.s))[k], Code(c.s, From(c.s, 1, Len(c.s))[k])>>]
         IN  IF Stray(c.s, 1) = {} THEN r = all
             ELSE Last(r) = Error /\ IsPrefix(Front(r), all)
    ELSE r = Meaning(c)
=============================================================================
