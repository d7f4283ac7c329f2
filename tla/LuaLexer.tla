------------------------------ MODULE LuaLexer ------------------------------
(***************************************************************************)
(* The lexer of the interpreter (llex.c): it cuts a source into tokens,    *)
(* one character ahead of what it has read.  What a token says is collected*)
(* in a buffer, from which escapes, delimiters and brackets are taken away *)
(* again by their number of characters.  A source is a sequence of         *)
(* characters, strings of length 1.  The last part says which texts are    *)
(* tokens, comments and spaces, without reading from left to right.        *)
(***************************************************************************)
EXTENDS Integers, Sequences, SequencesExt, FiniteSetsExt, TLC

CONSTANTS Sources,              \* the sources to be cut
          Peeks                 \* the tokens that are looked at before they are taken

EOZ == "end"

\* lctype.c.
Characters(s) == {SubSeq(s, k, k) : k \in 1 .. Len(s)}
Digits == Characters("0123456789")
XDigits == Digits \cup Characters("abcdefABCDEF")
Letters == Characters("abcdefghijklmnopqrstuvwxyzABCDEFGHIJKLMNOPQRSTUVWXYZ_")
Newlines == {"\n", "\r"}
Spaces == {" ", "\t", "\f", "byte11"} \cup Newlines      \* byte11 is \v
Value(c) == CHOOSE v \in 0 .. 15 :
    c \in {SubSeq("0123456789abcdef", v + 1, v + 1), SubSeq("0123456789ABCDEF", v + 1, v + 1)}

Quote == "\""
Backslash == "\\"

\* The character with a code: a name of its own if it is no letter, digit or space.
SpaceCodes == (9 :> "\t") @@ (10 :> "\n") @@ (12 :> "\f") @@ (13 :> "\r") @@ (32 :> " ")
Chr(n) == IF n \in 48 .. 57 THEN SubSeq("0123456789", n - 47, n - 47)
          ELSE IF n \in 65 .. 90 THEN SubSeq("ABCDEFGHIJKLMNOPQRSTUVWXYZ", n - 64, n - 64)
          ELSE IF n \in 97 .. 122 THEN SubSeq("abcdefghijklmnopqrstuvwxyz", n - 96, n - 96)
          ELSE IF n \in DOMAIN SpaceCodes THEN SpaceCodes[n] ELSE "byte" \o ToString(n)

Reserved == {"and", "break", "do", "else", "elseif", "end", "false", "for", "function", "goto",
             "if", "in", "local", "nil", "not", "or", "repeat", "return", "then", "true",
             "until", "while"}
Text(chars) == FoldLeft(LAMBDA a, c : a \o c, "", chars)

\* luaO_str2num, which accepts these texts (LuaNumbers has what number they are): with
\* or without a part after the dot and an exponent, of 2 for hexadecimal ones.
Numeral(digits, exponents, s) ==
    \E e \in 1 .. Len(s) + 1 :
        LET mantissa == SubSeq(s, 1, e - 1)
            power == IF e + 1 <= Len(s) /\ s[e + 1] \in {"+", "-"} THEN SubSeq(s, e + 2, Len(s))
                     ELSE SubSeq(s, e + 1, Len(s))
        IN  /\ Range(mantissa) \subseteq digits \cup {"."}
            /\ Cardinality({k \in DOMAIN mantissa : mantissa[k] = "."}) <= 1
            /\ Range(mantissa) \cap digits # {}
            /\ e <= Len(s) => /\ s[e] \in exponents
                              /\ power # <<>> /\ Range(power) \subseteq Digits
IsNumeral(s) ==
    IF Len(s) > 2 /\ s[1] = "0" /\ s[2] \in {"x", "X"}
    THEN Numeral(XDigits, {"p", "P"}, SubSeq(s, 3, Len(s)))
    ELSE Numeral(Digits, {"e", "E"}, s)
\* As short as those of an instance, a decimal one fits an integer.
IsInteger(s) ==
    Range(s) \subseteq Digits \/ (s[2] \in {"x", "X"} /\ Range(s) \subseteq XDigits \cup {s[2]})

-----------------------------------------------------------------------------
(* The state ls of the lexer: the next position p of the source z, buff,   *)
(* the line, and the token read last.                                      *)

current(ls) == IF ls.p <= Len(ls.z) THEN ls.z[ls.p] ELSE EOZ
next(ls) == [ls EXCEPT !.p = @ + 1]
save(ls, c) == [ls EXCEPT !.buff = Append(@, c)]
save_and_next(ls) == next(save(ls, current(ls)))
buffremove(ls, n) == [ls EXCEPT !.buff = SubSeq(@, 1, Len(@) - n)]
resetbuffer(ls) == [ls EXCEPT !.buff = <<>>]
Token(ls, kind, value) == [ls EXCEPT !.token = kind, !.seminfo = value]
lexerror(ls) == Token(ls, "error", <<>>)
Failed(ls) == ls.token = "error"

inclinenumber(ls) ==
    LET two == {current(ls), current(next(ls))} = Newlines IN
    [ls EXCEPT !.p = @ + (IF two THEN 2 ELSE 1), !.linenumber = @ + 1]

\* check_next2: of the characters in set.
check_next2(ls, set) == IF current(ls) \in set THEN save_and_next(ls) ELSE ls

RECURSIVE SaveWhile(_, _)
SaveWhile(ls, set) == IF current(ls) \in set THEN SaveWhile(save_and_next(ls), set) ELSE ls

RECURSIVE ReadDigits(_, _)
ReadDigits(ls, expo) ==
    LET l == IF current(ls) \in expo THEN check_next2(save_and_next(ls), {"-", "+"}) ELSE ls IN
    IF current(l) \in XDigits \cup {"."} THEN ReadDigits(save_and_next(l), expo) ELSE l
read_numeral(ls) ==
    LET first == save_and_next(ls)
        hex == current(ls) = "0" /\ current(first) \in {"x", "X"}
        l == IF hex THEN ReadDigits(save_and_next(first), {"P", "p"})
             ELSE ReadDigits(first, {"E", "e"})
    IN  IF ~IsNumeral(l.buff) THEN lexerror(l)
        ELSE Token(l, IF IsInteger(l.buff) THEN "<integer>" ELSE "<number>", l.buff)

-----------------------------------------------------------------------------
(* Long brackets.                                                          *)

\* Reads a bracket and the = after it; sep is their number if the bracket follows
\* again, and negative otherwise.
skip_sep(ls) ==
    LET l == SaveWhile(save_and_next(ls), {"="})
        count == l.p - ls.p - 1
    IN  [ls |-> l, sep |-> IF current(l) = current(ls) THEN count ELSE -count - 1]

RECURSIVE LongBody(_, _)
LongBody(ls, sep) ==
    CASE current(ls) = EOZ -> lexerror(ls)
      [] current(ls) = "]" ->
            LET s == skip_sep(ls) IN
            IF s.sep = sep THEN save_and_next(s.ls) ELSE LongBody(s.ls, sep)
      [] current(ls) \in Newlines -> LongBody(inclinenumber(save(ls, "\n")), sep)
      [] OTHER -> LongBody(save_and_next(ls), sep)
read_long_string(ls, sep) ==
    LET l == save_and_next(ls)
        body == LongBody(IF current(l) \in Newlines THEN inclinenumber(l) ELSE l, sep)
    IN  IF Failed(body) THEN body
        ELSE Token(body, "<string>", SubSeq(body.buff, 3 + sep, Len(body.buff) - (2 + sep)))

-----------------------------------------------------------------------------
(* Escapes in strings; ls is at the character after the backslash, which   *)
(* is in the buffer.  only_save takes it away and adds the character c.    *)

only_save(ls, c) == save(buffremove(ls, 1), c)

\* x and two hexadecimal digits, the second of which is not in the buffer.
readhexaesc(ls) ==
    LET l1 == save_and_next(ls)
        l2 == save_and_next(l1)
    IN  IF {current(l1), current(l2)} \subseteq XDigits
        THEN only_save(next(buffremove(l2, 2)), Chr(16 * Value(current(l1)) + Value(current(l2))))
        ELSE lexerror(ls)

\* u and hexadecimal digits in braces.
RECURSIVE Hexadecimal(_, _, _)
Hexadecimal(ls, r, i) ==
    LET l == save_and_next(ls)
        more == r * 16 + Value(current(l))
    IN  IF current(l) \notin XDigits
        THEN IF current(l) # "}" THEN lexerror(l)
             ELSE [buffremove(next(l), i) EXCEPT !.seminfo = <<r>>]
        ELSE IF more > 1114111 THEN lexerror(l) ELSE Hexadecimal(l, more, i + 1)
Utf8 == INSTANCE LuaUtf8 WITH Points <- {}, Codings <- {}, Utf8Strings <- {}
utf8esc(ls) ==
    LET l1 == save_and_next(ls)
        l2 == save_and_next(l1)
        l == Hexadecimal(l2, Value(current(l2)), 4)
    IN  IF current(l1) # "{" \/ current(l2) \notin XDigits THEN lexerror(ls)
        ELSE IF Failed(l) THEN l
        ELSE LET bytes == Utf8!luaO_utf8esc(l.seminfo[1])
             IN  [l EXCEPT !.buff = @ \o [k \in DOMAIN bytes |-> Chr(bytes[k])]]

\* Up to three digits, of which i are read.
RECURSIVE readdecesc(_, _, _)
readdecesc(ls, i, r) ==
    IF i < 3 /\ current(ls) \in Digits
    THEN readdecesc(save_and_next(ls), i + 1, 10 * r + Value(current(ls)))
    ELSE IF r > 255 THEN lexerror(ls) ELSE only_save(buffremove(ls, i), Chr(r))

RECURSIVE ZapSpaces(_)
ZapSpaces(ls) ==
    IF current(ls) \notin Spaces THEN ls
    ELSE ZapSpaces(IF current(ls) \in Newlines THEN inclinenumber(ls) ELSE next(ls))

Letter == [a |-> 7, b |-> 8, f |-> 12, n |-> 10, r |-> 13, t |-> 9, v |-> 11]
Escape(ls) ==
    LET c == current(ls) IN
    CASE c \in DOMAIN Letter -> only_save(next(ls), Chr(Letter[c]))
      [] c = "x" -> readhexaesc(ls)
      [] c = "u" -> utf8esc(ls)
      [] c \in Newlines -> only_save(inclinenumber(ls), "\n")
      [] c \in {Backslash, Quote, "'"} -> only_save(next(ls), c)
      [] c = EOZ -> ls
      [] c = "z" -> ZapSpaces(next(buffremove(ls, 1)))
      [] c \in Digits -> readdecesc(ls, 0, 0)
      [] OTHER -> lexerror(ls)

RECURSIVE StringBody(_, _)
StringBody(ls, del) ==
    IF Failed(ls) THEN ls
    ELSE CASE current(ls) = del -> save_and_next(ls)
           [] current(ls) \in Newlines \cup {EOZ} -> lexerror(ls)
           [] current(ls) = Backslash -> StringBody(Escape(save_and_next(ls)), del)
           [] OTHER -> StringBody(save_and_next(ls), del)
read_string(ls) ==
    LET l == StringBody(save_and_next(ls), current(ls)) IN
    IF Failed(l) THEN l ELSE Token(l, "<string>", SubSeq(l.buff, 2, Len(l.buff) - 1))

-----------------------------------------------------------------------------
(* Tokens.                                                                 *)

Doubles == {"==", "<=", "<<", ">=", ">>", "//", "~=", "::"}

SkipLine(ls) ==
    [ls EXCEPT !.p = Min({k \in @ .. Len(ls.z) : ls.z[k] \in Newlines} \cup {Len(ls.z) + 1})]

RECURSIVE Scan(_), Comment(_)
Scan(ls) ==
    LET c == current(ls)
        n == next(ls)
    IN CASE c \in Newlines -> Scan(inclinenumber(ls))
         [] c \in Spaces \ Newlines -> Scan(n)
         [] c = "-" /\ current(n) = "-" -> Comment(next(n))
         [] c = "[" ->
              LET s == skip_sep(ls) IN
              IF s.sep >= 0 THEN read_long_string(s.ls, s.sep)
              ELSE IF s.sep # -1 THEN lexerror(s.ls) ELSE Token(s.ls, "[", <<>>)
         [] c \in {Quote, "'"} -> read_string(ls)
         [] c = "." ->
              IF current(n) = "." THEN IF current(next(n)) = "." THEN Token(next(next(n)), "...", <<>>)
                                       ELSE Token(next(n), "..", <<>>)
              ELSE IF current(n) \in Digits THEN read_numeral(save_and_next(ls))
              ELSE Token(n, ".", <<>>)
         [] c \in Digits -> read_numeral(ls)
         [] c = EOZ -> Token(ls, "<eof>", <<>>)
         [] c \in Letters ->
              LET l == SaveWhile(ls, Letters \cup Digits) IN
              IF Text(l.buff) \in Reserved THEN Token(l, Text(l.buff), <<>>)
              ELSE Token(l, "<name>", l.buff)
         [] c \o current(n) \in Doubles -> Token(next(n), c \o current(n), <<>>)
         [] OTHER -> Token(n, c, <<>>)

\* After two dashes: a long comment, or what the line still has.
Comment(ls) ==
    LET s == skip_sep(ls)
        long == read_long_string(resetbuffer(s.ls), s.sep)
    IN  IF current(ls) = "[" /\ s.sep >= 0
        THEN IF Failed(long) THEN long ELSE Scan(resetbuffer(long))
        ELSE Scan(SkipLine(resetbuffer(ls)))

llex(ls) == Scan(resetbuffer(ls))

\* A token as the parser gets it, with the line and the end of its text.
Got(ls) == [kind |-> ls.token, value |-> ls.seminfo, line |-> ls.linenumber, end |-> ls.p - 1]

luaX_lookahead(ls) == LET l == llex(ls) IN [l EXCEPT !.lookahead = <<Got(l)>>]
luaX_next(ls) ==
    LET l == IF ls.lookahead = <<>> THEN llex(ls) ELSE ls
        t == IF ls.lookahead = <<>> THEN Got(l) ELSE ls.lookahead[1]
    IN  [l EXCEPT !.lastline = ls.linenumber, !.t = t, !.lookahead = <<>>]

luaX_setinput(z) ==
    [z |-> z, p |-> 1, buff |-> <<>>, linenumber |-> 1, lastline |-> 1, token |-> "none",
     seminfo |-> <<>>, t |-> [kind |-> "none"], lookahead |-> <<>>]

-----------------------------------------------------------------------------
(* The calls of an instance: a parser that takes all tokens and looks at   *)
(* some of them before it takes them.                                      *)

IsCall(c) == c \in [lib : {"lexer"}, z : Sources, peeks : Peeks]

RECURSIVE Parse(_, _, _)
Parse(ls, peeks, got) ==
    LET l == luaX_next(IF Len(got) + 1 \in peeks THEN luaX_lookahead(ls) ELSE ls)
        all == Append(got, [token |-> l.t, lastline |-> l.lastline])
    IN  IF l.t.kind \in {"<eof>", "error"} THEN all ELSE Parse(l, peeks, all)
Result(c) == Parse(luaX_setinput(c.z), c.peeks, <<>>)

-----------------------------------------------------------------------------
(* What the parser is to get.                                              *)

Part(z, i, j) == SubSeq(z, i, j)
Next(z, j) == IF j < Len(z) THEN z[j + 1] ELSE EOZ

\* Line breaks as they appear in long strings: each is one character.
RECURSIVE Normal(_)
Normal(s) ==
    IF s = <<>> THEN <<>>
    ELSE IF s[1] \notin Newlines THEN <<s[1]>> \o Normal(Tail(s))
    ELSE <<"\n">> \o Normal(IF Len(s) > 1 /\ {s[1], s[2]} = Newlines THEN Tail(Tail(s)) ELSE Tail(s))
Lines(s) == Cardinality({k \in DOMAIN Normal(s) : Normal(s)[k] = "\n"})

Bracket(b, level) == <<b>> \o [k \in 1 .. level |-> "="] \o <<b>>
Opens(s) == \E level \in 0 .. Len(s) : IsPrefix(Bracket("[", level), s)

\* The contents of the long bracket s: one, or none if it does not end or ends before.
LongContents(s) ==
    LET levels == {n \in 0 .. Len(s) \div 2 - 2 : IsPrefix(Bracket("[", n), s)}
        Closing(n) == {k \in n + 3 .. Len(s) - n - 1 : Part(s, k, k + n + 1) = Bracket("]", n)}
        body(n) == Normal(Part(s, n + 3, Len(s) - n - 2))
    IN  {IF body(n) # <<>> /\ body(n)[1] = "\n" THEN Tail(body(n)) ELSE body(n) :
            n \in {m \in levels : Closing(m) = {Len(s) - m - 1}}}

\* What the first k characters of s stand for between two quotes d.
Escaped(s, k, d) ==
    LET digits == Part(s, 2, k)
        decimal == FoldLeft(LAMBDA a, c : 10 * a + Value(c), 0, digits)
        braced == Part(s, 4, k - 1)
        point == FoldLeft(LAMBDA a, c : IF a > 1114111 THEN a ELSE 16 * a + Value(c), 0, braced)
    IN CASE k = 1 -> IF s[1] \in {d, Backslash} \cup Newlines THEN {} ELSE {<<s[1]>>}
         [] k > 1 /\ s[1] # Backslash -> {}
         [] k = 2 /\ s[2] \in DOMAIN Letter -> {<<Chr(Letter[s[2]])>>}
         [] k = 2 /\ s[2] \in {Backslash, Quote, "'"} -> {<<s[2]>>}
         [] k = 4 /\ s[2] = "x" /\ {s[3], s[4]} \subseteq XDigits ->
              {<<Chr(16 * Value(s[3]) + Value(s[4]))>>}
         [] k > 4 /\ s[2] = "u" /\ s[3] = "{" /\ s[k] = "}" /\ Range(braced) \subseteq XDigits
            /\ point <= 1114111 ->
              {[x \in DOMAIN Utf8!Encoding(point) |-> Chr(Utf8!Encoding(point)[x])]}
         [] k <= 4 /\ Range(digits) \subseteq Digits /\ decimal <= 255
            /\ (k = 4 \/ Next(s, k) \notin Digits) -> {<<Chr(decimal)>>}
         [] Range(digits) \subseteq Newlines /\ Lines(digits) = 1
            /\ {s[k], Next(s, k)} # Newlines -> {<<"\n">>}
         [] s[2] = "z" /\ Range(Part(s, 3, k)) \subseteq Spaces /\ Next(s, k) \notin Spaces -> {<<>>}
         [] OTHER -> {}

\* What s stands for between two quotes d: one sequence of characters, or none.
RECURSIVE Contents(_, _)
Contents(s, d) ==
    IF s = <<>> THEN {<<>>}
    ELSE UNION {{v \o w : v \in Escaped(s, k, d), w \in Contents(Part(s, k + 1, Len(s)), d)} :
                   k \in {x \in 1 .. Len(s) : Escaped(s, x, d) # {}}}
ShortContents(s) ==
    IF Len(s) < 2 \/ s[1] \notin {Quote, "'"} \/ Last(s) # s[1] THEN {}
    ELSE Contents(Part(s, 2, Len(s) - 1), s[1])

\* The characters from i to j - 1 are one space, or a comment.
Blank(z, i, j) ==
    \/ j = i + 1 /\ z[i] \in Spaces
    \/ /\ IsPrefix(<<"-", "-">>, Part(z, i, j - 1))
       /\ IF Opens(Part(z, i + 2, Len(z))) THEN LongContents(Part(z, i + 2, j - 1)) # {}
          ELSE /\ Range(Part(z, i + 2, j - 1)) \cap Newlines = {}
               /\ Next(z, j - 1) \in Newlines \cup {EOZ}
RECURSIVE Gap(_, _, _)
Gap(z, i, j) == i = j \/ \E k \in i + 1 .. j : Blank(z, i, k) /\ Gap(z, k, j)

\* The longest text that fits is the token; what cannot follow a numeral was meant to
\* belong to it.
Joins(s) == XDigits \cup {"."} \cup IF s \in {<<"0">>, <<".", "0">>} THEN {"x", "X"}
            ELSE IF Len(s) > 1 /\ s[2] \in {"x", "X"} THEN {"p", "P"} ELSE {}
Names == Letters \cup Digits
Symbols == Doubles \cup {"..", "..."}

\* The tokens whose text goes from i to j: one, or none.
Tokens(z, i, j) ==
    LET s == Part(z, i, j)
        name == s[1] \in Letters /\ Range(s) \subseteq Names /\ Next(z, j) \notin Names
        longer == \E k \in j + 1 .. Len(z) : Text(Part(z, i, k)) \in Symbols
        symbol == /\ \/ Text(s) \in Symbols
                     \/ Len(s) = 1 /\ s[1] \notin Names \cup Spaces \cup {Quote, "'"}
                  /\ ~longer
                  /\ s = <<"-">> => Next(z, j) # "-"
                  /\ s = <<"[">> => Next(z, j) \notin {"[", "="}
                  /\ s = <<".">> => Next(z, j) \notin Digits
    IN  [kind : {"<string>"}, value : ShortContents(s) \cup LongContents(s)]
        \cup (IF name /\ Text(s) \in Reserved THEN {[kind |-> Text(s), value |-> <<>>]}
              ELSE IF name THEN {[kind |-> "<name>", value |-> s]} ELSE {})
        \cup (IF symbol THEN {[kind |-> Text(s), value |-> <<>>]} ELSE {})
        \cup (IF s[1] \in Digits \cup {"."} /\ IsNumeral(s) /\ Next(z, j) \notin Joins(s)
              THEN {[kind |-> IF IsInteger(s) THEN "<integer>" ELSE "<number>", value |-> s]} ELSE {})

\* Every token is the text after the last one and a gap, on the line where it ends; the
\* last is the end of the source, or an error where no token begins.
IsMeant(c, r) ==
    LET z == c.z
        from(k) == IF k = 1 THEN 1 ELSE r[k - 1].token.end + 1
    IN \A k \in DOMAIN r :
        LET t == r[k].token IN
        IF t.kind = "error"
        THEN \A i \in from(k) .. Len(z) + 1 :
                Gap(z, from(k), i) => /\ i <= Len(z)
                                      /\ \A j \in i .. Len(z) : Tokens(z, i, j) = {}
        ELSE /\ IF t.kind = "<eof>" THEN Gap(z, from(k), Len(z) + 1)
                ELSE \E i \in from(k) .. t.end :
                        /\ Gap(z, from(k), i)
                        /\ [kind |-> t.kind, value |-> t.value] \in Tokens(z, i, t.end)
             /\ t.line = 1 + Lines(Part(z, 1, t.end))
             /\ k \notin c.peeks => r[k].lastline = IF k = 1 THEN 1 ELSE r[k - 1].token.line
=============================================================================
