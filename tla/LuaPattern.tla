----------------------------- MODULE LuaPattern -----------------------------
(***************************************************************************)
(* Pattern matching of the string library (lstrlib.c): string.find,        *)
(* string.gmatch and string.gsub over match, which tries the items of a    *)
(* pattern one after another, goes back to try another number of           *)
(* repetitions, and keeps the captures in one array that has to be put     *)
(* right whenever an attempt fails.  Strings are sequences of characters,  *)
(* positions start at 1, and the character after the end is NUL.           *)
(***************************************************************************)
EXTENDS Integers, Sequences, SequencesExt

CONSTANTS Subjects,             \* strings
          Patterns,             \* pairs: begins with "^", and a sequence of items
          Operations,           \* [kind: find, gmatch, gsub; repl, max: of gsub]
          Order,                \* the characters, in the order of their codes
          MAXCCALLS, LUA_MAXCAPTURES

VARIABLES op, subject, pattern,
          src, lastmatch,       \* where the search goes on, end of the last match
          n,                    \* replacements that were made
          out,                  \* the buffer of gsub
          found,                \* the matches: where they are and what they capture
          status                \* "run", "done" or "error"
vars == <<op, subject, pattern, src, lastmatch, n, out, found, status>>

NULL == 0
CAP_UNFINISHED == -1
CAP_POSITION == -2
NUL == "NUL"
At(s, i) == IF i \in DOMAIN s THEN s[i] ELSE NUL
Code(c) == IF c = NUL THEN 0 ELSE CHOOSE i \in DOMAIN Order : Order[i] = c

Digits == {"1", "2"}
Letters == {"a", "b", "c"}
\* match_class: lower and upper case letters name a class and its complement.
match_class(c, cl) ==
    CASE cl = "a" -> c \in Letters [] cl = "A" -> c \notin Letters
      [] cl = "d" -> c \in Digits  [] cl = "D" -> c \notin Digits
      [] OTHER -> cl = c

-----------------------------------------------------------------------------
(* ms: the pattern p and string s, the captures begun (capture), the depth *)
(* that is left, and whether an error was raised.                          *)

Fail(ms) == [at |-> NULL, ms |-> ms]
Raise(ms) == [at |-> NULL, ms |-> [ms EXCEPT !.error = TRUE]]
prepstate(s, p) == [s |-> s, p |-> p, capture |-> <<>>, matchdepth |-> MAXCCALLS, error |-> FALSE]

\* Where the single character class at p ends, or NULL if it does not.
RECURSIVE EndOfSet(_, _), matchbracketclass(_, _, _, _, _), matchbalance(_, _, _, _, _),
          match(_, _, _), Items(_, _, _), max_expand(_, _, _, _, _), min_expand(_, _, _, _)
EndOfSet(pat, p) ==
    LET next == IF pat[p] = "%" /\ p < Len(pat) THEN p + 2 ELSE p + 1
    IN  IF p > Len(pat) THEN NULL
        ELSE IF At(pat, next) = "]" THEN next + 1 ELSE EndOfSet(pat, next)
classend(pat, p) ==
    CASE pat[p] = "%" -> IF p = Len(pat) THEN NULL ELSE p + 2
      [] pat[p] = "[" -> EndOfSet(pat, IF At(pat, p + 1) = "^" THEN p + 2 ELSE p + 1)
      [] OTHER -> p + 1

\* The set from p to the "]" at ec; sig: what a character in it gives.
matchbracketclass(c, pat, p, ec, sig) ==
    LET esc == pat[p] = "%"
        range == ~esc /\ At(pat, p + 1) = "-" /\ p + 2 < ec
        in == IF esc THEN match_class(c, pat[p + 1])
              ELSE IF range THEN Code(pat[p]) <= Code(c) /\ Code(c) <= Code(pat[p + 2])
              ELSE pat[p] = c
    IN  IF p >= ec THEN ~sig
        ELSE IF in THEN sig
        ELSE matchbracketclass(c, pat, IF esc THEN p + 2 ELSE IF range THEN p + 3 ELSE p + 1, ec, sig)
InSet(c, pat, p, ep) ==
    IF At(pat, p + 1) = "^" THEN matchbracketclass(c, pat, p + 2, ep - 1, FALSE)
    ELSE matchbracketclass(c, pat, p + 1, ep - 1, TRUE)

singlematch(ms, s, p, ep) ==
    /\ s <= Len(ms.s)
    /\ CASE ms.p[p] = "." -> TRUE
         [] ms.p[p] = "%" -> match_class(ms.s[s], ms.p[p + 1])
         [] ms.p[p] = "[" -> InSet(ms.s[s], ms.p, p, ep)
         [] OTHER -> ms.p[p] = ms.s[s]

\* After the opening character: cont of them are open at s.
matchbalance(ms, s, x, y, cont) ==
    CASE s > Len(ms.s) -> NULL
      [] ms.s[s] = y -> IF cont = 1 THEN s + 1 ELSE matchbalance(ms, s + 1, x, y, cont - 1)
      [] OTHER -> matchbalance(ms, s + 1, x, y, IF ms.s[s] = x THEN cont + 1 ELSE cont)

\* From i repetitions down to none.
max_expand(ms, s, p, ep, i) ==
    LET r == match(ms, s + i, ep + 1) IN
    IF i < 0 THEN Fail(ms)
    ELSE IF r.at # NULL \/ r.ms.error THEN r ELSE max_expand(r.ms, s, p, ep, i - 1)
Repetitions(ms, s, p, ep) ==
    Max({i \in 0 .. Len(ms.s) + 1 - s : \A j \in 0 .. i - 1 : singlematch(ms, s + j, p, ep)})

min_expand(ms, s, p, ep) ==
    LET r == match(ms, s, ep + 1) IN
    IF r.at # NULL \/ r.ms.error \/ ~singlematch(ms, s, p, ep) THEN r
    ELSE min_expand(r.ms, s + 1, p, ep)

start_capture(ms, s, p, what) ==
    LET r == match([ms EXCEPT !.capture = Append(@, [init |-> s, len |-> what])], s, p)
    IN  IF Len(ms.capture) >= LUA_MAXCAPTURES THEN Raise(ms)
        ELSE IF r.at = NULL THEN [r EXCEPT !.ms.capture = Front(@)] ELSE r

Open(ms) == {l \in DOMAIN ms.capture : ms.capture[l].len = CAP_UNFINISHED}

\* A faulty variant of end_capture that leaves the capture closed when it fails.
StayClosed(ms, s, p) ==
    LET l == Max(Open(ms))
    IN  IF Open(ms) = {} THEN Raise(ms)
        ELSE match([ms EXCEPT !.capture[l].len = s - ms.capture[l].init], s, p)

end_capture(ms, s, p) ==
    LET l == Max(Open(ms))      \* capture_to_close
        r == match([ms EXCEPT !.capture[l].len = s - ms.capture[l].init], s, p)
    IN  IF Open(ms) = {} THEN Raise(ms)
        ELSE IF r.at = NULL THEN [r EXCEPT !.ms.capture[l].len = CAP_UNFINISHED] ELSE r

\* check_capture and match_capture.
Valid(ms, l) == l \in DOMAIN ms.capture \ Open(ms)
match_capture(ms, s, l) ==
    LET c == ms.capture[l] IN
    IF /\ c.len >= 0 /\ s + c.len - 1 <= Len(ms.s)
       /\ SubSeq(ms.s, s, s + c.len - 1) = SubSeq(ms.s, c.init, c.init + c.len - 1)
    THEN s + c.len ELSE NULL

match(ms, s, p) ==
    LET r == Items([ms EXCEPT !.matchdepth = @ - 1], s, p)
    IN  IF ms.matchdepth = 0 THEN Raise(ms) ELSE [r EXCEPT !.ms.matchdepth = @ + 1]

\* The items from p on; what the code jumps to with "goto init".
Items(ms, s, p) ==
    LET pat == ms.p
        next == At(pat, p + 1)
        bal == matchbalance(ms, s + 1, At(pat, p + 2), At(pat, p + 3), 1)
        set == classend(pat, p + 2)
        previous == IF s = 1 THEN NUL ELSE ms.s[s - 1]
        digit == IF next = "1" THEN 1 ELSE 2
        back == match_capture(ms, s, digit)
        ep == classend(pat, p)
        suffix == At(pat, ep)
        once == singlematch(ms, s, p, ep)
        opt == match(ms, s + 1, ep + 1)
    IN  CASE p > Len(pat) -> [at |-> s, ms |-> ms]
          [] pat[p] = "(" ->
               IF next = ")" THEN start_capture(ms, s, p + 2, CAP_POSITION)
               ELSE start_capture(ms, s, p + 1, CAP_UNFINISHED)
          [] pat[p] = ")" -> end_capture(ms, s, p + 1)
          [] pat[p] = "$" /\ p = Len(pat) ->
               IF s = Len(ms.s) + 1 THEN [at |-> s, ms |-> ms] ELSE Fail(ms)
          [] pat[p] = "%" /\ next = "b" ->
               IF p + 2 >= Len(pat) THEN Raise(ms)
               ELSE IF At(ms.s, s) # pat[p + 2] \/ bal = NULL THEN Fail(ms) ELSE Items(ms, bal, p + 4)
          [] pat[p] = "%" /\ next = "f" ->
               IF At(pat, p + 2) # "[" \/ set = NULL THEN Raise(ms)
               ELSE IF ~InSet(previous, pat, p + 2, set) /\ InSet(At(ms.s, s), pat, p + 2, set)
               THEN Items(ms, s, set) ELSE Fail(ms)
          [] pat[p] = "%" /\ next \in Digits ->
               IF ~Valid(ms, digit) THEN Raise(ms)
               ELSE IF back = NULL THEN Fail(ms) ELSE Items(ms, back, p + 2)
          [] ep = NULL -> Raise(ms)
          [] ~once -> IF suffix \in {"*", "?", "-"} THEN Items(ms, s, ep + 1) ELSE Fail(ms)
          [] suffix = "?" ->
               IF opt.at # NULL \/ opt.ms.error THEN opt ELSE Items(opt.ms, s, ep + 1)
          [] suffix = "+" -> max_expand(ms, s + 1, p, ep, Repetitions(ms, s + 1, p, ep))
          [] suffix = "*" -> max_expand(ms, s, p, ep, Repetitions(ms, s, p, ep))
          [] suffix = "-" -> min_expand(ms, s, p, ep)
          [] OTHER -> Items(ms, s + 1, ep)

-----------------------------------------------------------------------------
(* Patterns.  An item is <<"one", set, suffix>>, "(", ")", "()", "$",      *)
(* <<"%b", x, y>>, <<"%f", set>> or <<"%", index>>; a set is <<"any">>,    *)
(* <<"char", c>>, <<"class", cl>> or <<"set", complement, members>> with   *)
(* characters, classes and <<"range", x, y>> as members.                   *)

SetText(set) ==
    LET text(x) == CASE x[1] = "any" -> <<".">>
                     [] x[1] = "char" -> <<x[2]>>
                     [] x[1] = "class" -> <<"%", x[2]>>
                     [] x[1] = "range" -> <<x[2], "-", x[3]>>
    IN  IF set[1] = "set"
        THEN <<"[">> \o (IF set[2] THEN <<"^">> ELSE <<>>)
             \o FlattenSeq([i \in DOMAIN set[3] |-> text(set[3][i])]) \o <<"]">>
        ELSE text(set)
ItemText(x) ==
    CASE x[1] = "one" -> SetText(x[2]) \o (IF x[3] = "" THEN <<>> ELSE <<x[3]>>)
      [] x[1] = "()" -> <<"(", ")">>
      [] x[1] = "%b" -> <<"%", "b", x[2], x[3]>>
      [] x[1] = "%f" -> <<"%", "f">> \o SetText(x[2])
      [] x[1] = "%" -> <<"%", Order[Code("1") + x[2] - 1]>>
      [] OTHER -> <<x[1]>>
Text(items) == FlattenSeq([i \in DOMAIN items |-> ItemText(items[i])])
\* In gmatch a "^" is a character as any other.
Anchored == pattern[1] /\ op.kind # "gmatch"
PatternItems == IF pattern[1] /\ op.kind = "gmatch"
                THEN <<<<"one", <<"char", "^">>, "">>>> \o pattern[2] ELSE pattern[2]

-----------------------------------------------------------------------------
(* The library functions, one attempt at a time.                           *)

\* nospecials and lmemfind, from position init of s on.
nospecials(p) == \A i \in DOMAIN p : p[i] \notin {"^", "$", "*", "+", "?", ".", "(", "[", "%", "-"}
RECURSIVE lmemfind(_, _, _)
lmemfind(s, p, init) ==
    LET first == {i \in init .. Len(s) - Len(p) + 1 : s[i] = p[1]}       \* memchr
        i == Min(first)
    IN  IF p = <<>> THEN init
        ELSE IF first = {} THEN NULL
        ELSE IF SubSeq(s, i + 1, i + Len(p) - 1) = Tail(p) THEN i ELSE lmemfind(s, p, i + 1)

\* push_onecapture; the whole match is pushed where a pattern has no captures.
push_onecapture(ms, i, s, e) ==
    IF i > Len(ms.capture) THEN SubSeq(ms.s, s, e - 1)
    ELSE LET c == ms.capture[i] IN
         IF c.len = CAP_POSITION THEN <<"position", c.init>>
         ELSE SubSeq(ms.s, c.init, c.init + c.len - 1)
Missing(ms, i) == i > Len(ms.capture) /\ i > 1      \* "invalid capture index"
push_captures(ms, s, e, whole) ==
    [i \in 1 .. (IF ms.capture = <<>> /\ whole THEN 1 ELSE Len(ms.capture)) |->
        push_onecapture(ms, i, s, e)]

\* add_s: repl has characters and captures, <<i>> for %i; add_value with a
\* function that gives false (repl is <<>>) keeps the text that matched.
add_value(ms, s, e) ==
    LET piece(x) == IF x[1] = "capture"
                    THEN IF x[2] = 0 THEN SubSeq(ms.s, s, e - 1) ELSE push_onecapture(ms, x[2], s, e)
                    ELSE <<x[2]>>
    IN  IF op.repl = <<>> THEN SubSeq(ms.s, s, e - 1)
        ELSE FlattenSeq([i \in DOMAIN op.repl |-> piece(op.repl[i])])
\* The captures that are pushed for a match, which have to be there and closed: those
\* that the replacement names, or all of them.
Pushed(ms) ==
    IF op.kind = "gsub" /\ op.repl # <<>>
    THEN {op.repl[i][2] : i \in {j \in DOMAIN op.repl : op.repl[j][1] = "capture" /\ op.repl[j][2] > 0}}
    ELSE DOMAIN ms.capture

Init ==
    /\ op \in Operations /\ subject \in Subjects /\ pattern \in Patterns
    /\ src = 1 /\ lastmatch = NULL /\ n = 0 /\ out = <<>> /\ found = <<>>
    /\ status = "run"

Fixed == UNCHANGED <<op, subject, pattern>>

\* str_find_aux without special characters.
PlainFind ==
    LET p == Text(PatternItems)
        at == lmemfind(subject, p, src)
    IN  /\ status = "run" /\ op.kind = "find" /\ ~Anchored /\ nospecials(p)
        /\ found' = IF at = NULL THEN <<>> ELSE <<[from |-> at, to |-> at + Len(p), captures |-> <<>>]>>
        /\ status' = "done"
        /\ Fixed /\ UNCHANGED <<src, lastmatch, n, out>>

\* One attempt of str_find_aux, gmatch_aux or str_gsub, which begins at src and gives r.
Attempted(r) ==
    LET hit == r.at # NULL /\ (op.kind = "find" \/ r.at # lastmatch)
        end == src > Len(subject)
        wrong == \/ r.ms.error
                 \/ hit /\ \E i \in Pushed(r.ms) : i \in Open(r.ms) \/ Missing(r.ms, i)
        last == \/ op.kind = "find" /\ (hit \/ end \/ Anchored)
                \/ op.kind = "gmatch" /\ ~hit /\ end
                \/ op.kind = "gsub" /\ (Anchored \/ (~hit /\ end))
    IN  /\ status' = IF wrong THEN "error" ELSE IF last THEN "done" ELSE "run"
        /\ found' = IF hit /\ ~wrong
                    THEN Append(found, [from |-> src, to |-> r.at,
                                        captures |-> push_captures(r.ms, src, r.at, op.kind # "find")])
                    ELSE found
        /\ src' = IF hit THEN r.at ELSE IF end THEN src ELSE src + 1
        /\ lastmatch' = IF hit THEN r.at ELSE lastmatch
        /\ n' = IF hit THEN n + 1 ELSE n
        /\ out' = IF op.kind # "gsub" \/ wrong THEN out
                  ELSE out \o (IF hit THEN add_value(r.ms, src, r.at)
                               ELSE IF end THEN <<>> ELSE <<subject[src]>>)
Attempt ==
    /\ status = "run"
    /\ op.kind = "find" => Anchored \/ ~nospecials(Text(PatternItems))
    /\ op.kind = "gsub" => n < op.max
    /\ \E r \in {match(prepstate(subject, Text(PatternItems)), src, 1)} : Attempted(r)
    /\ Fixed

\* The rest of the subject after max replacements.
Enough ==
    /\ status = "run" /\ op.kind = "gsub" /\ n >= op.max
    /\ status' = "done"
    /\ Fixed /\ UNCHANGED <<src, lastmatch, n, out, found>>

Next == PlainFind \/ Attempt \/ Enough
Spec == Init /\ [][Next]_vars

Result == IF op.kind = "gsub" THEN out \o SubSeq(subject, src, Len(subject)) ELSE <<>>

-----------------------------------------------------------------------------
(* What a pattern means: all the ways in which items match from i on, the  *)
(* one that is preferred first; caps are pairs of a start and a length.    *)

Chars == {Order[i] : i \in DOMAIN Order}
RECURSIVE Members(_), Ways(_, _, _, _), Each(_, _, _, _, _), Scan(_, _, _)
Members(set) ==
    CASE set[1] = "any" -> Chars
      [] set[1] = "char" -> {set[2]}
      [] set[1] = "class" -> {c \in Chars : IF set[2] \in {"a", "A"} THEN c \in Letters <=> set[2] = "a"
                                       ELSE c \in Digits <=> set[2] = "d"}
      [] set[1] = "range" -> {c \in Chars : Code(set[2]) <= Code(c) /\ Code(c) <= Code(set[3])}
      [] set[1] = "set" ->
           LET all == UNION {Members(set[3][i]) : i \in DOMAIN set[3]}
           IN  IF set[2] THEN (Chars \cup {NUL}) \ all ELSE all

\* The numbers of repetitions of a set, in the order in which they are tried.
Tries(set, suffix, i) ==
    LET run == Max({k \in 0 .. Len(subject) + 1 - i :
                       \A j \in 0 .. k - 1 : subject[i + j] \in Members(set)})
        from == IF suffix \in {"", "+"} THEN 1 ELSE 0
        to == IF suffix \in {"", "?"} THEN Min({run, 1}) ELSE run
        up == [k \in 1 .. Max({to - from + 1, 0}) |-> from + k - 1]
    IN  IF suffix = "-" THEN up ELSE Reverse(up)

Balanced(x, y, i, e) ==
    LET count(c, k) == Cardinality({j \in i .. k : subject[j] = c})
    IN  /\ subject[i] = x
        /\ count(x, e) = count(y, e)
        /\ \A k \in i .. e - 1 : count(x, k) > count(y, k)

Each(items, i, caps, k, tries) ==
    IF tries = <<>> THEN <<>>
    ELSE Ways(items, i + Head(tries), caps, k + 1) \o Each(items, i, caps, k, Tail(tries))

Ways(items, i, caps, k) ==
    LET x == items[k]
        Go(j, c) == Ways(items, j, c, k + 1)
        open == Max({l \in DOMAIN caps : caps[l][2] = CAP_UNFINISHED})
        back == caps[x[2]]
        closing == {e \in i .. Len(subject) : Balanced(x[2], x[3], i, e)}
        before == IF i = 1 THEN NUL ELSE subject[i - 1]
    IN  IF k > Len(items) THEN <<[to |-> i, caps |-> caps]>>
        ELSE CASE x[1] = "one" -> Each(items, i, caps, k, Tries(x[2], x[3], i))
               [] x[1] = "(" -> Go(i, Append(caps, <<i, CAP_UNFINISHED>>))
               [] x[1] = "()" -> Go(i, Append(caps, <<i, CAP_POSITION>>))
               [] x[1] = ")" -> Go(i, [caps EXCEPT ![open][2] = i - caps[open][1]])
               [] x[1] = "$" -> IF i = Len(subject) + 1 THEN Go(i, caps) ELSE <<>>
               [] x[1] = "%b" -> IF closing = {} THEN <<>> ELSE Go(Min(closing) + 1, caps)
               [] x[1] = "%f" ->
                    IF before \notin Members(x[2]) /\ At(subject, i) \in Members(x[2])
                    THEN Go(i, caps) ELSE <<>>
               [] x[1] = "%" ->
                    IF /\ back[2] >= 0 /\ i + back[2] - 1 <= Len(subject)
                       /\ \A j \in 0 .. back[2] - 1 : subject[i + j] = subject[back[1] + j]
                    THEN Go(i + back[2], caps) ELSE <<>>

Captured(w, from, whole) ==
    LET text(c) == IF c[2] = CAP_POSITION THEN <<"position", c[1]>>
                   ELSE SubSeq(subject, c[1], c[1] + c[2] - 1)
    IN  IF w.caps = <<>> /\ whole THEN <<SubSeq(subject, from, w.to - 1)>>
        ELSE [l \in DOMAIN w.caps |-> text(w.caps[l])]

\* The matches from i on; one does not end where the one before it ended.
Scan(i, end, left) ==
    LET ways == Ways(PatternItems, i, <<>>, 1)
        w == ways[1]
        one == op.kind = "find"
        this == [from |-> i, to |-> w.to, captures |-> Captured(w, i, ~one)]
    IN  IF i > Len(subject) + 1 \/ left = 0 THEN <<>>
        ELSE IF ways # <<>> /\ (one \/ w.to # end)
        THEN <<this>> \o (IF one \/ Anchored THEN <<>> ELSE Scan(w.to, w.to, left - 1))
        ELSE IF Anchored THEN <<>> ELSE Scan(i + 1, end, left)

\* The subject with the matches ms replaced.
RECURSIVE Replaced(_, _)
Replaced(ms, i) ==
    LET m == Head(ms)
        match0 == SubSeq(subject, m.from, m.to - 1)
        piece(x) == IF x[1] = "char" THEN <<x[2]>>
                    ELSE IF x[2] = 0 THEN match0 ELSE m.captures[x[2]]
    IN  IF ms = <<>> THEN SubSeq(subject, i, Len(subject))
        ELSE SubSeq(subject, i, m.from - 1)
             \o (IF op.repl = <<>> THEN match0
                 ELSE FlattenSeq([k \in DOMAIN op.repl |-> piece(op.repl[k])]))
             \o Replaced(Tail(ms), m.to)

(***************************************************************************)
(* The library finds what the patterns mean: every match is the one that   *)
(* the order of preference of repetitions puts first, with its captures,   *)
(* although match leaves and re-enters captures while it goes back and     *)
(* forth; find, gmatch and gsub take the same matches, each of which       *)
(* begins where the one before it ended or later; and gsub copies the rest *)
(* of the subject unchanged.  A replacement that names a capture that is   *)
(* not there is an error.                                                  *)
(***************************************************************************)
FindsMeaning ==
    LET matches == Scan(1, NULL, IF op.kind = "gsub" THEN op.max ELSE Len(subject) + 1)
        missing(m) == op.kind = "gsub" /\ \E k \in DOMAIN op.repl :
                          op.repl[k][1] = "capture" /\ op.repl[k][2] > Len(m.captures)
    IN  status # "run" =>
            IF \E k \in DOMAIN matches : missing(matches[k]) THEN status = "error"
            ELSE /\ status = "done" /\ found = matches
                 /\ op.kind = "gsub" => Result = Replaced(matches, 1)
=============================================================================
