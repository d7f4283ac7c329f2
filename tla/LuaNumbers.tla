------------------------------ MODULE LuaNumbers ------------------------------
(***************************************************************************)
(* The numbers of Lua (lvm.c, lobject.c): integers that wrap around and    *)
(* floats, compared with each other by value although neither type holds   *)
(* all values of the other; conversions from one to the other and from     *)
(* strings; the limit of a numeric loop; division, remainder and shifts at *)
(* the ends of the range.  Integers have WIDTH bits, floats MANT_DIG bits  *)
(* of mantissa and one binary place; a float is written as twice its       *)
(* value.  The second half says what each operation is to compute, with    *)
(* the exact values.                                                       *)
(***************************************************************************)
EXTENDS Integers, Sequences, SequencesExt, FiniteSetsExt

CONSTANTS WIDTH, MANT_DIG,
          Texts, Strings        \* sequences of characters, and of character codes

Abs(x) == IF x < 0 THEN -x ELSE x
LUA_MAXINTEGER == 2 ^ (WIDTH - 1) - 1
LUA_MININTEGER == -(2 ^ (WIDTH - 1))
Integer == LUA_MININTEGER .. LUA_MAXINTEGER
Unsigned(x) == x % (2 ^ WIDTH)          \* l_castS2U
Signed(x) ==                            \* l_castU2S
    LET u == Unsigned(x) IN IF u > LUA_MAXINTEGER THEN u - 2 ^ WIDTH ELSE u

HUGE == 2 ^ (WIDTH + 3)                 \* infinity
NaN == 2 ^ (WIDTH + 4)
Magnitudes == UNION {{m * 2 ^ e : m \in 0 .. 2 ^ MANT_DIG - 1} : e \in 0 .. WIDTH - MANT_DIG + 2}
Float == Magnitudes \cup {-f : f \in Magnitudes} \cup {HUGE, -HUGE, NaN}

IntVal(i) == [type |-> "integer", n |-> i]
FltVal(f) == [type |-> "float", n |-> f]
Numbers == {IntVal(i) : i \in Integer} \cup {FltVal(f) : f \in Float}

\* What the C operators on floats give.
numlt(f, g) == f # NaN /\ g # NaN /\ f < g
numle(f, g) == f # NaN /\ g # NaN /\ f <= g
Nearest(x) ==   \* the nearest float, of two the even one
    LET e == Min({k \in 0 .. WIDTH : Abs(x) <= 2 ^ (MANT_DIG + k)})
        u == 2 ^ e
        q == x \div u
        up == 2 * (x - q * u) > u \/ (2 * (x - q * u) = u /\ q % 2 = 1)
    IN  (IF up THEN q + 1 ELSE q) * u
cast_num(i) == Nearest(2 * i)
l_floor(f) == IF f \in {HUGE, -HUGE, NaN} THEN f ELSE 2 * (f \div 2)
MinAsFloat == cast_num(LUA_MININTEGER)
lua_numbertointeger(f) == IF numle(MinAsFloat, f) /\ numlt(f, -MinAsFloat) THEN <<f \div 2>> ELSE <<>>

-----------------------------------------------------------------------------
(* Strings: sequences of characters.  A conversion gives <<>> when it      *)
(* fails.                                                                  *)

Digits == <<"0", "1", "2", "3", "9">>
Digit(c) == CASE c = "0" -> 0 [] c = "1" -> 1 [] c = "2" -> 2 [] c = "3" -> 3 [] c = "9" -> 9 [] c = "f" -> 15
IsDigit(c) == Contains(Digits, c)
IsXDigit(c) == IsDigit(c) \/ c = "f"
Trim(s) ==
    LET in == {k \in DOMAIN s : s[k] # " "} IN IF in = {} THEN <<>> ELSE SubSeq(s, Min(in), Max(in))
MAXBY10 == LUA_MAXINTEGER \div 10
MAXLASTD == LUA_MAXINTEGER % 10

l_str2int(s) ==
    LET t == Trim(s)
        neg == t # <<>> /\ t[1] = "-"
        u == IF neg THEN Tail(t) ELSE t
        hex == Len(u) >= 2 /\ u[1] = "0" /\ u[2] = "x"
        body == IF hex THEN SubSeq(u, 3, Len(u)) ELSE u
        d == IF neg THEN 1 ELSE 0
        \* <<>> once the next digit does not fit
        Add(a, c) ==
            IF a = <<>> \/ (a[1] >= MAXBY10 /\ (a[1] > MAXBY10 \/ Digit(c) > MAXLASTD + d)) THEN <<>>
            ELSE <<a[1] * 10 + Digit(c)>>
        a == IF hex THEN <<FoldLeft(LAMBDA x, c : Unsigned(x * 16 + Digit(c)), 0, body)>>
             ELSE FoldLeft(Add, <<0>>, body)
        fits == body # <<>> /\ \A k \in DOMAIN body : IF hex THEN IsXDigit(body[k]) ELSE IsDigit(body[k])
    IN  IF ~fits \/ a = <<>> THEN <<>> ELSE <<Signed(IF neg THEN -a[1] ELSE a[1])>>

\* Decimal numerals (strtod); a numeral with an n is refused.
l_str2d(s) ==
    LET t == Trim(s)
        u == IF t # <<>> /\ t[1] = "-" THEN Tail(t) ELSE t
        v == FoldLeft(LAMBDA x, c : IF x > HUGE THEN x ELSE x * 10 + Digit(c), 0, u)
    IN  IF u = <<>> \/ \E k \in DOMAIN u : ~IsDigit(u[k]) THEN <<>>
        ELSE LET f == IF 2 * v >= HUGE THEN HUGE ELSE Nearest(2 * v) IN <<IF u = t THEN f ELSE -f>>

luaO_str2num(s) ==
    IF l_str2int(s) # <<>> THEN <<IntVal(l_str2int(s)[1])>>
    ELSE IF l_str2d(s) # <<>> THEN <<FltVal(l_str2d(s)[1])>> ELSE <<>>

-----------------------------------------------------------------------------
(* Conversions: mode 0 takes integral values only, 1 the floor and 2 the   *)
(* ceiling.                                                                *)

tonumber(o) == IF o.type = "string" THEN luaO_str2num(o.n) ELSE <<o>>
luaV_tonumber_(o) == IF o.type = "integer" THEN cast_num(o.n) ELSE o.n

Rounded(o, mode) ==
    LET f == l_floor(o.n) IN
    IF o.type = "integer" THEN <<o.n>>
    ELSE IF o.n = f THEN lua_numbertointeger(f)
    ELSE IF mode = 0 THEN <<>>
    ELSE lua_numbertointeger(IF mode > 1 THEN Nearest(f + 2) ELSE f)
luaV_tointeger(o, mode) == IF tonumber(o) = <<>> THEN <<>> ELSE Rounded(tonumber(o)[1], mode)

forlimit(o, step) ==
    LET p == luaV_tointeger(o, IF step < 0 THEN 2 ELSE 1) IN
    IF p # <<>> THEN [p |-> p[1], stopnow |-> FALSE]
    ELSE IF numlt(0, luaV_tonumber_(o)) THEN [p |-> LUA_MAXINTEGER, stopnow |-> step < 0]
    ELSE [p |-> LUA_MININTEGER, stopnow |-> step >= 0]

\* The first n values of a loop over integers (OP_FORPREP, OP_FORLOOP).
RECURSIVE Iterate(_, _, _, _)
Iterate(idx, limit, step, n) ==
    IF n > 0 /\ IF 0 < step THEN idx <= limit ELSE limit <= idx
    THEN <<idx>> \o Iterate(Signed(idx + step), limit, step, n - 1) ELSE <<>>
Loop(init, o, step, n) ==
    LET l == forlimit(o, step)
        prepared == Signed((IF l.stopnow THEN 0 ELSE init) - step)
    IN  Iterate(Signed(prepared + step), l.p, step, n)

-----------------------------------------------------------------------------
(* Comparisons.                                                            *)

l_intfitsf(i) == -(2 ^ MANT_DIG) <= i /\ i <= 2 ^ MANT_DIG
Trunc(f) == IF f < 0 THEN -((-f) \div 2) ELSE f \div 2      \* the cast of C

LTintfloat(i, f) ==
    IF l_intfitsf(i) THEN numlt(cast_num(i), f)
    ELSE IF numle(-MinAsFloat, f) THEN TRUE
    ELSE numlt(MinAsFloat, f) /\ i < Trunc(f)
LEintfloat(i, f) ==
    IF l_intfitsf(i) THEN numle(cast_num(i), f)
    ELSE IF numle(-MinAsFloat, f) THEN TRUE
    ELSE numle(MinAsFloat, f) /\ i <= Trunc(f)

LTnum(l, r) ==
    CASE l.type = "integer" /\ r.type = "integer" -> l.n < r.n
      [] l.type = "integer" /\ r.type = "float"   -> LTintfloat(l.n, r.n)
      [] l.type = "float"   /\ r.type = "float"   -> numlt(l.n, r.n)
      [] OTHER -> l.n # NaN /\ ~LEintfloat(r.n, l.n)
LEnum(l, r) ==
    CASE l.type = "integer" /\ r.type = "integer" -> l.n <= r.n
      [] l.type = "integer" /\ r.type = "float"   -> LEintfloat(l.n, r.n)
      [] l.type = "float"   /\ r.type = "float"   -> numle(l.n, r.n)
      [] OTHER -> l.n # NaN /\ ~LTintfloat(r.n, l.n)
luaV_equalobj(l, r) ==
    IF l.type # r.type THEN /\ luaV_tointeger(l, 0) # <<>>
                            /\ luaV_tointeger(l, 0) = luaV_tointeger(r, 0)
    ELSE l.n # NaN /\ l.n = r.n

\* l_strcmp: character 0 ends the segment that strcoll looks at; the answer is -1, 0 or 1.
RECURSIVE strcoll(_, _), l_strcmp(_, _)
strcoll(l, r) ==
    LET cl == IF l = <<>> THEN 0 ELSE l[1]
        cr == IF r = <<>> THEN 0 ELSE r[1]
    IN  IF cl < cr THEN -1 ELSE IF cl > cr THEN 1 ELSE IF cl = 0 THEN 0 ELSE strcoll(Tail(l), Tail(r))
Strlen(s) == Min({k - 1 : k \in {x \in DOMAIN s : s[x] = 0}} \cup {Len(s)})
l_strcmp(l, r) ==
    LET len == Strlen(l) IN
    IF strcoll(l, r) # 0 THEN strcoll(l, r)
    ELSE IF len = Len(r) THEN IF len = Len(l) THEN 0 ELSE 1
    ELSE IF len = Len(l) THEN -1
    ELSE l_strcmp(SubSeq(l, len + 2, Len(l)), SubSeq(r, len + 2, Len(r)))

-----------------------------------------------------------------------------
(* Arithmetic: <<>> for an error.  m / n and m % n are C's.                *)

CDiv(m, n) == LET q == Abs(m) \div Abs(n) IN IF (m < 0) = (n < 0) THEN q ELSE -q
luaV_div(m, n) ==
    IF Unsigned(Unsigned(n) + 1) <= 1 THEN IF n = 0 THEN <<>> ELSE <<Signed(-m)>>
    ELSE <<IF (m < 0) # (n < 0) /\ m # n * CDiv(m, n) THEN CDiv(m, n) - 1 ELSE CDiv(m, n)>>
luaV_mod(m, n) ==
    LET r == m - n * CDiv(m, n) IN
    IF Unsigned(Unsigned(n) + 1) <= 1 THEN IF n = 0 THEN <<>> ELSE <<0>>
    ELSE <<IF r # 0 /\ (m < 0) # (n < 0) THEN r + n ELSE r>>
luaV_shiftl(x, y) ==
    IF y < 0 THEN IF y <= -WIDTH THEN 0 ELSE Signed(Unsigned(x) \div 2 ^ (-y))
    ELSE IF y >= WIDTH THEN 0 ELSE Signed(Unsigned(x) * 2 ^ y)

-----------------------------------------------------------------------------
(* The calls of an instance, and what each of them is to give.  A loop     *)
(* whose limit is not a number or whose step is 0 is left out: the code    *)
(* ends the first kind at once and takes a step of 0 for a negative one,   *)
(* unlike the loop that the manual gives as its meaning.                   *)

Str(s) == [type |-> "string", n |-> s]
Edges == {LUA_MININTEGER, LUA_MININTEGER + 1, -2, -1, 0, 1, 2, LUA_MAXINTEGER - 1, LUA_MAXINTEGER}
Iterations == 3

IsCall(c) ==
    \/ c \in [lib : {"numbers"}, op : {"lt", "le", "eq"}, l : Numbers, r : Numbers]
    \/ c \in [lib : {"numbers"}, op : {"tointeger"}, l : Numbers, mode : 0 .. 2]
    \/ c \in [lib : {"numbers"}, op : {"tointeger"}, l : {Str(s) : s \in Texts}, mode : 0 .. 2]
    \/ c \in [lib : {"numbers"}, op : {"for"}, init : Edges, l : Numbers \ {FltVal(NaN)}, step : Edges \ {0}]
    \/ c \in [lib : {"numbers"}, op : {"str2num"}, s : Texts]
    \/ c \in [lib : {"numbers"}, op : {"strcmp"}, l : Strings, r : Strings]
    \/ c \in [lib : {"numbers"}, op : {"div", "mod", "shl"}, l : Integer, r : Integer]

Result(c) ==
    CASE c.op = "lt" -> LTnum(c.l, c.r)
      [] c.op = "le" -> LEnum(c.l, c.r)
      [] c.op = "eq" -> luaV_equalobj(c.l, c.r)
      [] c.op = "tointeger" -> luaV_tointeger(c.l, c.mode)
      [] c.op = "for" -> Loop(c.init, c.l, c.step, Iterations)
      [] c.op = "str2num" -> luaO_str2num(c.s)
      [] c.op = "strcmp" -> l_strcmp(c.l, c.r)
      [] c.op = "div" -> luaV_div(c.l, c.r)
      [] c.op = "mod" -> luaV_mod(c.l, c.r)
      [] c.op = "shl" -> luaV_shiftl(c.l, c.r)

Exact(o) == IF o.type = "integer" THEN 2 * o.n ELSE o.n
Floor(m, n) == IF n > 0 THEN m \div n ELSE (-m) \div (-n)
ToInteger(h, mode) ==
    LET v == IF mode = 2 THEN -((-h) \div 2) ELSE h \div 2 IN
    IF v \notin Integer \/ (mode = 0 /\ h % 2 = 1) THEN <<>> ELSE <<v>>
RECURSIVE Wanted(_, _, _, _)
Wanted(idx, h, step, n) ==
    IF n > 0 /\ IF 0 < step THEN 2 * idx <= h ELSE 2 * idx >= h
    THEN <<idx>> \o Wanted(Signed(idx + step), h, step, n - 1) ELSE <<>>
Numeral(s) ==
    LET t == Trim(s)
        neg == IsPrefix(<<"-">>, t)
        u == IF neg THEN Tail(t) ELSE t
        hex == IsPrefix(<<"0", "x">>, u)
        base == IF hex THEN 16 ELSE 10
        body == IF hex THEN Tail(Tail(u)) ELSE u
        n == MapThenSumSet(LAMBDA k : Digit(body[k]) * base ^ (Len(body) - k), DOMAIN body)
        v == IF neg THEN -n ELSE n
    IN  IF body = <<>> \/ ~\A k \in DOMAIN body : IsDigit(body[k]) \/ (hex /\ body[k] = "f") THEN <<>>
        ELSE IF hex THEN <<IntVal(Signed(v))>>
        ELSE IF v \in Integer THEN <<IntVal(v)>>
        ELSE <<FltVal(CASE 2 * v >= HUGE -> HUGE [] 2 * v <= -HUGE -> -HUGE [] OTHER -> Nearest(2 * v))>>
Bit(x, k) == IF k \in 0 .. WIDTH - 1 THEN (Unsigned(x) \div 2 ^ k) % 2 ELSE 0
Compared(l, r) ==
    LET differ == {k \in DOMAIN l \cap DOMAIN r : l[k] # r[k]} IN
    IF differ = {} THEN IF Len(l) = Len(r) THEN 0 ELSE IF Len(l) < Len(r) THEN -1 ELSE 1
    ELSE IF l[Min(differ)] < r[Min(differ)] THEN -1 ELSE 1

Meaning(c) ==
    CASE c.op = "lt" -> numlt(Exact(c.l), Exact(c.r))
      [] c.op = "le" -> numle(Exact(c.l), Exact(c.r))
      [] c.op = "eq" -> c.l.n # NaN /\ Exact(c.l) = Exact(c.r)
      [] c.op = "tointeger" ->
            LET v == IF c.l.type = "string" THEN Numeral(c.l.n) ELSE <<c.l>>
            IN  IF v = <<>> THEN <<>> ELSE ToInteger(Exact(v[1]), c.mode)
      [] c.op = "for" -> Wanted(c.init, Exact(c.l), c.step, Iterations)
      [] c.op = "str2num" -> Numeral(c.s)
      [] c.op = "strcmp" -> Compared(c.l, c.r)
      [] c.op = "div" -> IF c.r = 0 THEN <<>> ELSE <<Signed(Floor(c.l, c.r))>>
      [] c.op = "mod" -> IF c.r = 0 THEN <<>> ELSE <<c.l - c.r * Floor(c.l, c.r)>>
      [] c.op = "shl" -> Signed(MapThenSumSet(LAMBDA k : Bit(c.l, k - c.r) * 2 ^ k, 0 .. WIDTH - 1))
=============================================================================
