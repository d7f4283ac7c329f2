------------------------------ MODULE LuaStrings ------------------------------
(***************************************************************************)
(* The string library (lstrlib.c) without patterns, which module           *)
(* LuaPattern has: parts and repetitions of strings, and values packed     *)
(* into bytes and unpacked again, with sizes, alignment and endianness     *)
(* that the options of a format choose on the way.  Bytes have NB bits and *)
(* integers SZINT bytes; an option is [k: its letter, n: its size].  The   *)
(* last part says what the calls are to give.                              *)
(***************************************************************************)
EXTENDS Integers, Sequences, SequencesExt, FiniteSetsExt

CONSTANTS NB, SZINT, MAXINTSIZE, MAXSIZE, INT_MAX,
          little,               \* the machine is little endian
          Formats,              \* sequences of options, at most two of them with an argument
          Datas                 \* strings of bytes to unpack an integer or a string from

Base == 2 ^ NB
MC == Base - 1
Wrap(x) == x % (Base ^ SZINT)                           \* as a lua_Unsigned
AsInteger(u) == IF 2 * u >= Base ^ SZINT THEN u - Base ^ SZINT ELSE u
Integer == -(Base ^ SZINT \div 2) .. (Base ^ SZINT \div 2) - 1

-----------------------------------------------------------------------------
(* Parts of strings.                                                       *)

posrelat(pos, len) == IF pos >= 0 THEN pos ELSE IF -pos > len THEN 0 ELSE len + pos + 1
AtLeast1(x) == IF x < 1 THEN 1 ELSE x
AtMost(x, l) == IF x > l THEN l ELSE x

str_sub(s, i, j) ==
    LET start == AtLeast1(posrelat(i, Len(s)))
        end == AtMost(posrelat(j, Len(s)), Len(s))
    IN  IF start <= end THEN SubSeq(s, start, end) ELSE <<>>

\* <<>> for an error
str_byte(s, i, j) ==
    LET posi == AtLeast1(posrelat(i, Len(s)))
        pose == AtMost(posrelat(j, Len(s)), Len(s))
    IN  IF posi > pose THEN <<(<<>>)>>
        ELSE IF pose - posi >= INT_MAX THEN <<>>
        ELSE <<[x \in 1 .. pose - posi + 1 |-> s[posi + x - 1]]>>

str_rep(s, n, sep) ==
    IF n <= 0 THEN <<(<<>>)>>
    ELSE IF Len(s) + Len(sep) > MAXSIZE \div n THEN <<>>
    ELSE <<FoldLeft(LAMBDA p, x : p \o sep \o s, s, [x \in 1 .. n - 1 |-> x])>>

-----------------------------------------------------------------------------
(* Options.  h: the endianness and the largest alignment chosen so far.    *)

Failed == [error |-> TRUE]
initheader == [islittle |-> little, maxalign |-> 1]
Sized == {"i", "I", "s", "!"}
\* getoption: the size must be in the limits, and some options only change h.
Limits(o) == o.k \in Sized => o.n \in 1 .. MAXINTSIZE
Set(h, o) ==
    CASE o.k = "<" -> [h EXCEPT !.islittle = TRUE]
      [] o.k = ">" -> [h EXCEPT !.islittle = FALSE]
      [] o.k = "=" -> [h EXCEPT !.islittle = little]
      [] o.k = "!" -> [h EXCEPT !.maxalign = o.n]
      [] OTHER -> h
SizeOf(o) == IF o.k \in {"i", "I", "s", "c", "f"} THEN o.n ELSE IF o.k = "x" THEN 1 ELSE 0
IsPower2(n) == n \in {2 ^ e : e \in 0 .. 5}

\* X takes its alignment from the option after it and swallows it.
getdetails(h, totalsize, fmt) ==
    LET o == fmt[1]
        isX == o.k = "X"
        next == IF isX /\ Len(fmt) > 1 THEN fmt[2] ELSE o
        align == SizeOf(next)
        limited == AtMost(align, h.maxalign)
        none == align <= 1 \/ o.k = "c"
        wrong == \/ ~Limits(o) \/ ~Limits(next)
                 \/ isX /\ (Len(fmt) = 1 \/ next.k = "c" \/ align = 0)
                 \/ ~none /\ ~IsPower2(limited)
    IN  IF wrong THEN Failed
        ELSE [error |-> FALSE, opt |-> o.k, size |-> IF isX THEN 0 ELSE align, h |-> Set(h, o),
              ntoalign |-> IF none THEN 0 ELSE (limited - (totalsize % limited)) % limited,
              rest |-> IF isX THEN Tail(Tail(fmt)) ELSE Tail(fmt)]
Ordered(bytes, islittle) == IF islittle THEN bytes ELSE Reverse(bytes)
Pad(n) == [x \in 1 .. n |-> 0]

-----------------------------------------------------------------------------
(* Packing: the bytes, or <<>> inside of Packed for an error.              *)

packint(n, islittle, size, neg) ==
    LET Byte(x) == (Wrap(n) \div Base ^ x) % Base
        extended(x) == IF x < SZINT THEN Byte(x) ELSE IF neg THEN MC ELSE 0
    IN  Ordered([x \in 1 .. size |-> extended(x - 1)], islittle)

\* What an argument becomes, if it fits.
Item(d, v) ==
    CASE d.opt = "i" -> LET lim == Base ^ d.size \div 2 IN
            [fits |-> d.size >= SZINT \/ (-lim <= v /\ v < lim),
             bytes |-> packint(v, d.h.islittle, d.size, v < 0)]
      [] d.opt = "I" -> [fits |-> d.size >= SZINT \/ Wrap(v) < Base ^ d.size,
                         bytes |-> packint(v, d.h.islittle, d.size, FALSE)]
      [] d.opt = "f" -> [fits |-> TRUE, bytes |-> Ordered(v, d.h.islittle = little)]
      [] d.opt = "c" -> [fits |-> Len(v) <= d.size, bytes |-> v \o Pad(d.size - Len(v))]
      [] d.opt = "s" -> [fits |-> Len(v) < Base ^ d.size,
                         bytes |-> packint(Len(v), d.h.islittle, d.size, FALSE) \o v]
      [] d.opt = "z" -> [fits |-> ~Contains(v, 0), bytes |-> Append(v, 0)]

NoArgument == {"x", "X", " ", "<", ">", "=", "!"}
RECURSIVE Packed(_, _, _, _), Measured(_, _, _), Unpacked(_, _, _, _, _)
Packed(h, fmt, args, b) ==
    LET d == getdetails(h, Len(b), fmt)
        aligned == b \o Pad(d.ntoalign)
        item == Item(d, args[1])
    IN  IF fmt = <<>> THEN <<b>>
        ELSE IF d.error THEN <<>>
        ELSE IF d.opt \in NoArgument THEN Packed(d.h, d.rest, args, aligned \o Pad(d.size))
        ELSE IF item.fits THEN Packed(d.h, d.rest, Tail(args), aligned \o item.bytes) ELSE <<>>
str_pack(fmt, args) == Packed(initheader, fmt, args, <<>>)

Measured(h, fmt, total) ==
    LET d == getdetails(h, total, fmt) IN
    IF fmt = <<>> THEN <<total>>
    ELSE IF d.error THEN <<>>
    ELSE IF total > MAXSIZE - (d.size + d.ntoalign) \/ d.opt \in {"s", "z"} THEN <<>>
    ELSE Measured(d.h, d.rest, total + d.size + d.ntoalign)
str_packsize(fmt) == Measured(initheader, fmt, 0)

-----------------------------------------------------------------------------
(* Unpacking.                                                              *)

unpackint(str, islittle, issigned) ==
    LET size == Len(str)
        limit == AtMost(size, SZINT)
        digit == Ordered(str, islittle)
        u == MapThenSumSet(LAMBDA x : digit[x] * Base ^ (x - 1), 1 .. limit)
        mask == Base ^ size \div 2
        res == IF size < SZINT /\ issigned THEN (IF u >= mask THEN u - Base ^ size ELSE u)
               ELSE AsInteger(u)
        unread == IF issigned /\ res < 0 THEN MC ELSE 0
    IN  IF \E x \in limit + 1 .. size : digit[x] # unread THEN <<>> ELSE <<res>>

\* pos: bytes that are done; out: values.  The sum that checks the length of a string
\* may wrap; a length that makes it wrap is too much for lua_pushlstring.
Unpacked(h, fmt, data, pos, out) ==
    LET d == getdetails(h, pos, fmt)
        at == pos + d.ntoalign
        field == SubSeq(data, at + 1, at + d.size)
        int == unpackint(field, d.h.islittle, d.opt = "i")
        len == Wrap(int[1])                             \* a size_t
        zero == Min({x \in at + 1 .. Len(data) + 1 : x = Len(data) + 1 \/ data[x] = 0})
        Go(p, v) == Unpacked(d.h, d.rest, data, p, Append(out, v))
    IN  IF fmt = <<>> THEN <<Append(out, pos + 1)>>
        ELSE IF d.error THEN <<>>
        ELSE IF at + d.size > Len(data) THEN <<>>
        ELSE CASE d.opt \in {"i", "I"} -> IF int = <<>> THEN <<>> ELSE Go(at + d.size, int[1])
               [] d.opt = "f" -> Go(at + d.size, Ordered(field, d.h.islittle = little))
               [] d.opt = "c" -> Go(at + d.size, field)
               [] d.opt = "s" ->
                    IF int = <<>> \/ Wrap(at + len + d.size) > Len(data) \/ len > MAXSIZE THEN <<>>
                    ELSE Go(at + d.size + len, SubSeq(data, at + d.size + 1, at + d.size + len))
               [] d.opt = "z" -> Go(zero, SubSeq(data, at + 1, zero - 1))
               [] OTHER -> Unpacked(d.h, d.rest, data, at + d.size, out)
str_unpack(fmt, data) == Unpacked(initheader, fmt, data, 0, <<>>)

-----------------------------------------------------------------------------
Text == <<1, 2, 3>>
Places == -5 .. 5

\* The options with an argument (X takes the one after it) and arguments to try for them.
Items(fmt) ==
    LET taken == SelectSeq([x \in DOMAIN fmt |-> x], LAMBDA x :
                    fmt[x].k \notin NoArgument /\ (x > 1 => fmt[x - 1].k # "X"))
    IN  [y \in DOMAIN taken |-> fmt[taken[y]]]
Samples(o) ==
    CASE o.k = "i" -> {v \in {-(Base ^ e) \div 2 + d : e \in 1 .. SZINT, d \in -1 .. 1} : v \in Integer}
                        \cup {v \in {Base ^ e \div 2 + d : e \in 1 .. SZINT, d \in -1 .. 1} : v \in Integer}
      [] o.k = "I" -> {v \in {Base ^ e + d : e \in 0 .. SZINT, d \in -2 .. 1} : v \in Integer}
      [] o.k = "f" -> {[x \in 1 .. o.n |-> x]}
      [] o.k = "c" -> {<<>>, <<1>>, Text}
      [] o.k = "s" -> {<<>>, <<1, 0>>, Append(Text, 1)}
      [] o.k = "z" -> {<<>>, <<1>>, <<1, 0>>}
Arguments(items) ==
    CASE Len(items) = 0 -> {<<>>}
      [] Len(items) = 1 -> {<<v>> : v \in Samples(items[1])}
      [] Len(items) = 2 -> {<<v, w>> : v \in Samples(items[1]), w \in Samples(items[2])}

IsCall(c) ==
    \/ c \in [lib : {"string"}, op : {"sub", "byte"}, s : {<<>>, Text}, i : Places, j : Places]
    \/ c \in [lib : {"string"}, op : {"rep"}, s : {<<>>, Text}, n : -1 .. 4, sep : {<<>>, <<0>>}]
    \/ \E f \in Formats : c \in [lib : {"string"}, op : {"pack"}, fmt : {f}, args : Arguments(Items(f))]
    \/ c \in [lib : {"string"}, op : {"unpack"}, o : [k : {"i", "I", "s"}, n : 1 .. MAXINTSIZE + 1],
               endian : {"<", ">"}, data : Datas]

Endian(c) == <<[k |-> c.endian, n |-> 0], c.o>>
Result(c) ==
    CASE c.op = "sub" -> str_sub(c.s, c.i, c.j)
      [] c.op = "byte" -> str_byte(c.s, c.i, c.j)
      [] c.op = "rep" -> str_rep(c.s, c.n, c.sep)
      [] c.op = "pack" -> str_pack(c.fmt, c.args)
      [] c.op = "unpack" -> str_unpack(Endian(c), c.data)

Between(c) ==
    LET At(p) == IF p < 0 THEN Len(c.s) + 1 + p ELSE p
    IN  FlattenSeq([x \in DOMAIN c.s |-> IF At(c.i) <= x /\ x <= At(c.j) THEN <<c.s[x]>> ELSE <<>>])

\* The value of a string of bytes, the lowest first.
Value(d, signed) ==
    LET u == MapThenSumSet(LAMBDA x : d[x] * Base ^ (x - 1), DOMAIN d)
    IN  IF signed /\ 2 * u >= Base ^ Len(d) THEN u - Base ^ Len(d) ELSE u
Fits(o, v) ==
    CASE o.k = "i" -> o.n >= SZINT \/ v \in -(Base ^ o.n \div 2) .. (Base ^ o.n \div 2) - 1
      [] o.k = "I" -> o.n >= SZINT \/ v \in 0 .. Base ^ o.n - 1
      [] o.k = "c" -> Len(v) <= o.n
      [] o.k = "s" -> Len(v) < Base ^ o.n
      [] o.k = "z" -> ~Contains(v, 0)
      [] OTHER -> TRUE

\* What unpacking gives back: fixed strings come filled up, large unsigned integers wrap.
Back(o, v) == IF o.k = "c" THEN v \o Pad(o.n - Len(v)) ELSE v

\* The call gave r.
IsMeant(c, r) ==
    CASE c.op = "sub" -> r = Between(c)
      [] c.op = "byte" -> r = IF Len(Between(c)) > INT_MAX THEN <<>> ELSE <<Between(c)>>
      [] c.op = "rep" ->
            IF c.n > 0 /\ c.n * (Len(c.s) + Len(c.sep)) > MAXSIZE THEN r = <<>>
            ELSE r = <<FlattenSeq([x \in 1 .. 2 * c.n - 1 |-> IF x % 2 = 1 THEN c.s ELSE c.sep])>>
      [] c.op = "pack" ->
            LET fmt == c.fmt
                args == c.args
                items == Items(fmt)
            IN  IF r = <<>> THEN \/ \E x \in DOMAIN items : ~Fits(items[x], args[x])
                                 \/ str_unpack(fmt, Pad(MAXSIZE)) = <<>>
                ELSE /\ \A x \in DOMAIN items : Fits(items[x], args[x])
                     /\ str_unpack(fmt, r[1])
                            = <<Append([x \in DOMAIN args |-> Back(items[x], args[x])], Len(r[1]) + 1)>>
                     /\ str_packsize(fmt) \in {<<>>, <<Len(r[1])>>}
      [] c.op = "unpack" ->
            LET read == Len(c.data) >= c.o.n /\ c.o.n <= MAXINTSIZE
                d == IF c.endian = "<" THEN SubSeq(c.data, 1, c.o.n) ELSE Reverse(SubSeq(c.data, 1, c.o.n))
                v == Value(d, c.o.k = "i")
            IN  IF ~read THEN r = <<>>
                ELSE IF c.o.k = "s"
                THEN r = IF v > Len(c.data) - c.o.n THEN <<>>
                         ELSE <<<<SubSeq(c.data, c.o.n + 1, c.o.n + v), c.o.n + v + 1>>>>
                ELSE IF (IF c.o.k = "i" THEN v \in Integer ELSE v < Base ^ SZINT)
                     THEN r = <<<<AsInteger(Wrap(v)), c.o.n + 1>>>>
                     ELSE r = <<>>
=============================================================================
