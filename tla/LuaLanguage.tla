---------------------------- MODULE LuaLanguage ----------------------------
(***************************************************************************)
(* The part of the Lua language that LuaParser compiles, as its manual     *)
(* gives it: programs are trees (tuples that begin with their kind), Text  *)
(* writes a program down as tokens, Valid are the rules for goto and       *)
(* break, and Meaning evaluates a tree directly, with one cell for every   *)
(* local variable that comes to life.  Nothing here knows of registers,    *)
(* instructions or jumps: it is what the compiled code is compared with.   *)
(*   expressions: nil true false num str name dots paren un bin index call *)
(*                method fun table                                         *)
(*   statements:  local assign call do while repeat if fornum forin break  *)
(*                goto label return localfunction                          *)
(* Where the manual leaves the order of evaluation open (operands of an    *)
(* operator, targets of an assignment) it is that of the interpreter, or   *)
(* the programs do not depend on it.                                       *)
(***************************************************************************)
EXTENDS LuaValues

CONSTANT MAXSTEPS    \* bound: calls and repetitions of an evaluation

-----------------------------------------------------------------------------
(* Writing a program down.                                                 *)

Token(t, v) == [t |-> t, v |-> v]
Word(t) == <<Token(t, "")>>
NameToken(n) == <<Token("name", n)>>

\* Precedence: a higher number binds tighter.
Tightness ==
    [op \in {"or", "and", "<", "<=", ">", ">=", "==", "~=", "..", "+", "-", "*", "//", "%"} |->
        CASE op = "or" -> 1 [] op = "and" -> 2 [] op = ".." -> 4
          [] op \in {"+", "-"} -> 5 [] op \in {"*", "//", "%"} -> 6 [] OTHER -> 3]
Binds(e) == CASE e[1] = "bin" -> Tightness[e[2]] [] e[1] = "un" -> 7 [] OTHER -> 8
TakesSuffix(e) == e[1] \in {"name", "paren", "index", "call", "method"}

RECURSIVE Text(_), Texts(_), BlockText(_)
Enclosed(e, must) == IF must THEN Word("(") \o Text(e) \o Word(")") ELSE Text(e)
Texts(es) ==
    CASE es = <<>> -> <<>>
      [] Len(es) = 1 -> Text(es[1])
      [] OTHER -> Text(es[1]) \o Word(",") \o Texts(Tail(es))
Names(ns) == Texts([i \in DOMAIN ns |-> <<"name", ns[i]>>])

\* A function: its parameters, whether it takes more, and its block.
FunctionText(f) ==
    LET more == f[3] /\ f[2] # <<>>
    IN  Word("(") \o Names(f[2]) \o (IF more THEN Word(",") ELSE <<>>)
        \o (IF f[3] THEN Word("...") ELSE <<>>) \o Word(")") \o BlockText(f[4]) \o Word("end")

\* The items of a constructor are <<"item", value>> and <<"field", key, value>>.
Text(e) ==
    CASE e[1] \in {"nil", "true", "false"} -> Word(e[1])
      [] e[1] = "num" -> <<Token("number", e[2])>>
      [] e[1] = "str" -> <<Token("string", <<e[2]>>)>>
      [] e[1] = "name" -> NameToken(e[2])
      [] e[1] = "dots" -> Word("...")
      [] e[1] = "paren" -> Enclosed(e[2], TRUE)
      [] e[1] = "un" -> Word(e[2]) \o Enclosed(e[3], Binds(e[3]) < 7)
      [] e[1] = "bin" ->
           LET tight == Binds(e)
               right == e[2] = ".."
           IN  Enclosed(e[3], Binds(e[3]) < tight \/ (right /\ Binds(e[3]) = tight)) \o Word(e[2])
               \o Enclosed(e[4], Binds(e[4]) < tight \/ (~right /\ Binds(e[4]) = tight))
      [] e[1] = "index" ->
           Enclosed(e[2], ~TakesSuffix(e[2])) \o Word("[") \o Text(e[3]) \o Word("]")
      [] e[1] = "call" ->
           Enclosed(e[2], ~TakesSuffix(e[2])) \o Word("(") \o Texts(e[3]) \o Word(")")
      [] e[1] = "method" ->
           Enclosed(e[2], ~TakesSuffix(e[2])) \o Word(":") \o NameToken(e[3])
           \o Word("(") \o Texts(e[4]) \o Word(")")
      [] e[1] = "fun" -> Word("function") \o FunctionText(e)
      [] e[1] = "table" -> Word("{") \o Texts(e[2]) \o Word("}")
      [] e[1] = "item" -> Text(e[2])
      [] e[1] = "field" -> Word("[") \o Text(e[2]) \o Word("]") \o Word("=") \o Text(e[3])

StatementText(s) ==
    CASE s[1] = "local" ->
           Word("local") \o Names(s[2]) \o (IF s[3] = <<>> THEN <<>> ELSE Word("=") \o Texts(s[3]))
      [] s[1] = "assign" -> Texts(s[2]) \o Word("=") \o Texts(s[3])
      [] s[1] = "do" -> Word("do") \o BlockText(s[2]) \o Word("end")
      [] s[1] = "while" ->
           Word("while") \o Text(s[2]) \o Word("do") \o BlockText(s[3]) \o Word("end")
      [] s[1] = "repeat" -> Word("repeat") \o BlockText(s[2]) \o Word("until") \o Text(s[3])
      [] s[1] = "if" ->
           Word("if") \o Text(s[2]) \o Word("then") \o BlockText(s[3])
           \o (IF s[4] = <<>> THEN <<>> ELSE Word("else") \o BlockText(s[4])) \o Word("end")
      [] s[1] = "fornum" ->
           Word("for") \o NameToken(s[2]) \o Word("=") \o Texts(s[3])
           \o Word("do") \o BlockText(s[4]) \o Word("end")
      [] s[1] = "forin" ->
           Word("for") \o Names(s[2]) \o Word("in") \o Texts(s[3])
           \o Word("do") \o BlockText(s[4]) \o Word("end")
      [] s[1] = "break" -> Word("break")
      [] s[1] = "goto" -> Word("goto") \o NameToken(s[2])
      [] s[1] = "label" -> Word("::") \o NameToken(s[2]) \o Word("::")
      [] s[1] = "return" -> Word("return") \o Texts(s[2])
      [] s[1] = "localfunction" ->
           Word("local") \o Word("function") \o NameToken(s[2]) \o FunctionText(s[3])
      [] OTHER -> Text(s)       \* a call

BlockText(ss) == IF ss = <<>> THEN <<>> ELSE StatementText(Head(ss)) \o BlockText(Tail(ss))

-----------------------------------------------------------------------------
(* Which programs are refused.  A goto reaches a label of its block or of  *)
(* one around it, in the same function, unless it would enter the scope of *)
(* a local variable; a label that ends its block is outside every scope.   *)

Declares(s) == s[1] \in {"local", "localfunction"}
LabelsOf(ss) == {ss[i][2] : i \in {j \in DOMAIN ss : ss[j][1] = "label"}}
\* The labels of a block that statement i may jump to; last: the block ends here.
Reached(ss, i, last) ==
    {ss[j][2] : j \in {j \in DOMAIN ss :
        /\ ss[j][1] = "label"
        /\ \/ j < i
           \/ \A k \in i + 1 .. j : ~Declares(ss[k])
           \/ last /\ \A k \in j .. Len(ss) : ss[k][1] = "label"}}

RECURSIVE Valid(_, _, _), ValidExp(_)
ValidExps(es) == \A i \in DOMAIN es : ValidExp(es[i])
\* The functions inside an expression are valid.
ValidExp(e) ==
    CASE e[1] = "paren" -> ValidExp(e[2])
      [] e[1] \in {"un", "local", "assign"} -> ValidExps(IF e[1] = "un" THEN <<e[3]>> ELSE e[3])
      [] e[1] = "bin" -> ValidExp(e[3]) /\ ValidExp(e[4])
      [] e[1] = "index" -> ValidExp(e[2]) /\ ValidExp(e[3])
      [] e[1] = "call" -> ValidExp(e[2]) /\ ValidExps(e[3])
      [] e[1] = "method" -> ValidExp(e[2]) /\ ValidExps(e[4])
      [] e[1] = "fun" -> Valid(e[4], {}, TRUE)
      [] e[1] = "table" -> \A i \in DOMAIN e[2] : ValidExp(Last(e[2][i]))
      [] OTHER -> TRUE

\* labels: the targets outside the block; "break" stands for the end of a loop.
Valid(ss, labels, last) ==
    /\ \A i, j \in DOMAIN ss : (i # j /\ ss[i][1] = "label" /\ ss[j][1] = "label") => ss[i] # ss[j]
    /\ \A i \in DOMAIN ss :
         LET s == ss[i]
             seen == Reached(ss, i, last) \cup (labels \ LabelsOf(ss))
         IN  CASE s[1] = "goto" -> s[2] \in seen
               [] s[1] = "break" -> "break" \in seen
               [] s[1] = "do" -> Valid(s[2], seen, TRUE)
               [] s[1] = "while" -> ValidExp(s[2]) /\ Valid(s[3], seen \cup {"break"}, TRUE)
               [] s[1] = "repeat" -> Valid(s[2], seen \cup {"break"}, FALSE) /\ ValidExp(s[3])
               [] s[1] = "if" -> ValidExp(s[2]) /\ Valid(s[3], seen, TRUE) /\ Valid(s[4], seen, TRUE)
               [] s[1] \in {"fornum", "forin"} ->
                    ValidExps(s[3]) /\ Valid(s[4], seen \cup {"break"}, TRUE)
               [] s[1] = "return" -> ValidExps(s[2])
               [] s[1] = "localfunction" -> ValidExp(s[3])
               [] OTHER -> ValidExp(s)

-----------------------------------------------------------------------------
(* What a program means.  st holds the cells, tables and functions there   *)
(* are; env maps the names in scope to cells and holds the extra arguments.*)

New(st, v) == [st EXCEPT !.cell = Append(@, v)]
Bind(st, env, ns, vs) ==
    LET old == Len(st.cell)
        pos(n) == CHOOSE i \in DOMAIN ns : ns[i] = n /\ \A j \in i + 1 .. Len(ns) : ns[j] # n
        v(i) == IF i <= Len(vs) THEN vs[i] ELSE Nil
    IN  [st |-> [st EXCEPT !.cell = @ \o [i \in DOMAIN ns |-> v(i)]],
         env |-> [env EXCEPT !.vars =
                    [n \in {ns[i] : i \in DOMAIN ns} |-> old + pos(n)] @@ @]]

Fail(st) == [st EXCEPT !.status = IF @ = "run" THEN "error" ELSE @]
\* A repetition or a call is paid for.
Spend(st) == IF st.fuel = 0 /\ st.status = "run" THEN [st EXCEPT !.status = "endless"]
             ELSE [st EXCEPT !.fuel = @ - 1]

Value(v, st) == [v |-> v, st |-> st]
Wrong(st) == Value(Nil, Fail(st))

Get(st, t, k) ==
    IF t[1] # "table" THEN Wrong(st)
    ELSE LET tb == st.tab[t[2]] IN Value(IF k \in DOMAIN tb THEN tb[k] ELSE Nil, st)
Put(st, t, k, v) ==
    IF t[1] # "table" \/ k = Nil THEN Fail(st) ELSE [st EXCEPT !.tab[t[2]] = (k :> v) @@ @]
Globals == <<"table", 1>>

Variable(env, st, n) ==
    IF n \in DOMAIN env.vars THEN Value(st.cell[env.vars[n]], st)
    ELSE Get(st, Globals, String(<<n>>))

Border(tb) ==
    CHOOSE n \in 0 .. Cardinality(DOMAIN tb) :
        (\A i \in 1 .. n : Number(i) \in DOMAIN tb /\ tb[Number(i)] # Nil)
        /\ (Number(n + 1) \in DOMAIN tb => tb[Number(n + 1)] = Nil)

\* The greatest integer that is not above x / y.
Floor(x, y) == IF y > 0 THEN x \div y ELSE (-x) \div (-y)

Unary(op, v, st) ==
    CASE op = "not" -> Value(Bool(IsFalse(v)), st)
      [] op = "-" -> IF IsNumber(v) THEN Value(Number(-v[2]), st) ELSE Wrong(st)
      [] op = "#" -> CASE v[1] = "string" -> Value(Number(Len(v[2])), st)
                       [] v[1] = "table" -> Value(Number(Border(st.tab[v[2]])), st)
                       [] OTHER -> Wrong(st)

Binary(op, x, y, st) ==
    LET numbers == IsNumber(x) /\ IsNumber(y)
        number(n) == Value(Number(n), st)
    IN  CASE op = "==" -> Value(Bool(x = y), st)
          [] op = "~=" -> Value(Bool(x # y), st)
          [] op = ".." -> IF {x[1], y[1]} \subseteq {"string", "number"}
                          THEN Value(String(Piece(x) \o Piece(y)), st) ELSE Wrong(st)
          [] ~numbers \/ (op \in {"//", "%"} /\ y[2] = 0) -> Wrong(st)
          [] op = "<" -> Value(Bool(x[2] < y[2]), st)
          [] op = "<=" -> Value(Bool(x[2] <= y[2]), st)
          [] op = ">" -> Value(Bool(x[2] > y[2]), st)
          [] op = ">=" -> Value(Bool(x[2] >= y[2]), st)
          [] op = "+" -> number(x[2] + y[2])
          [] op = "-" -> number(x[2] - y[2])
          [] op = "*" -> number(x[2] * y[2])
          [] op = "//" -> number(Floor(x[2], y[2]))
          [] op = "%" -> number(x[2] - y[2] * Floor(x[2], y[2]))

RECURSIVE One(_, _, _), Many(_, _, _), Evaluate(_, _, _), Apply(_, _, _), Steps(_, _, _, _),
          Statement(_, _, _), Loop(_, _, _), StoreTo(_, _, _), Fill(_, _, _, _, _)

First(vs) == IF vs = <<>> THEN Nil ELSE vs[1]

\* Many values: of a call or of "...", or the value of another expression.
Many(e, env, st) ==
    CASE e[1] = "dots" -> Value(env.extra, st)
      [] e[1] = "call" ->
           LET f == One(e[2], env, st)
               a == Evaluate(e[3], env, f.st)
           IN  Apply(f.v, a.v, a.st)
      [] e[1] = "method" ->
           LET o == One(e[2], env, st)
               f == Get(o.st, o.v, String(<<e[3]>>))
               a == Evaluate(e[4], env, f.st)
           IN  Apply(f.v, <<o.v>> \o a.v, a.st)
      [] OTHER -> LET r == One(e, env, st) IN Value(<<r.v>>, r.st)

\* A list of expressions: only the last gives all its values.
Evaluate(es, env, st) ==
    IF es = <<>> THEN Value(<<>>, st)
    ELSE IF Len(es) = 1 THEN Many(es[1], env, st)
    ELSE LET x == One(Head(es), env, st)
             r == Evaluate(Tail(es), env, x.st)
         IN  Value(<<x.v>> \o r.v, r.st)

\* The items of a constructor, from number i; n items have been stored.
Fill(fs, i, env, st, n) ==
    LET t == <<"table", st.made>>
        k == One(fs[i][2], env, st)
        v == One(fs[i][3], env, k.st)
        all == Many(fs[i][2], env, st)
        vs == IF i = Len(fs) THEN all.v ELSE <<First(all.v)>>
        list == [key \in {Number(n + j) : j \in DOMAIN vs} |-> vs[key[2] - n]]
    IN  IF i > Len(fs) \/ st.status # "run" THEN st
        ELSE IF fs[i][1] = "field"
        THEN Fill(fs, i + 1, env, [Put(v.st, t, k.v, v.v) EXCEPT !.made = st.made], n)
        ELSE Fill(fs, i + 1, env,
                  [all.st EXCEPT !.tab[st.made] = list @@ @, !.made = st.made], n + Len(vs))

One(e, env, st) ==
    CASE e[1] = "nil" -> Value(Nil, st)
      [] e[1] = "true" -> Value(Bool(TRUE), st)
      [] e[1] = "false" -> Value(Bool(FALSE), st)
      [] e[1] = "num" -> Value(Number(e[2]), st)
      [] e[1] = "str" -> Value(String(<<e[2]>>), st)
      [] e[1] = "name" -> Variable(env, st, e[2])
      [] e[1] = "paren" -> One(e[2], env, st)
      [] e[1] = "un" -> LET x == One(e[3], env, st) IN Unary(e[2], x.v, x.st)
      [] e[1] = "bin" ->
           LET x == One(e[3], env, st)
               y == One(e[4], env, x.st)
           IN  IF e[2] = "and" THEN IF IsFalse(x.v) THEN x ELSE y
               ELSE IF e[2] = "or" THEN IF IsFalse(x.v) THEN y ELSE x
               ELSE Binary(e[2], x.v, y.v, y.st)
      [] e[1] = "index" ->
           LET t == One(e[2], env, st)
               k == One(e[3], env, t.st)
           IN  Get(k.st, t.v, k.v)
      [] e[1] = "fun" ->
           Value(<<"function", Len(st.fun) + 1>>,
                 [st EXCEPT !.fun = Append(@, [f |-> e, vars |-> env.vars])])
      [] e[1] = "table" ->
           LET n == Len(st.tab) + 1
               s == Fill(e[2], 1, env, [st EXCEPT !.tab = Append(@, <<>>), !.made = n], 0)
           IN  Value(<<"table", n>>, [s EXCEPT !.made = st.made])
      [] OTHER -> LET r == Many(e, env, st) IN Value(First(r.v), r.st)

Block(ss, env, st) == Steps(ss, 1, [i \in 1 .. Len(ss) + 1 |-> env], st)

Apply(f, vs, st) ==
    LET s == Spend(st)
        c == st.fun[f[2]]
        extra == IF c.f[3] THEN SubSeq(vs, Len(c.f[2]) + 1, Len(vs)) ELSE <<>>
        b == Bind(s, [vars |-> c.vars, extra |-> extra], c.f[2], vs)
        r == Block(c.f[4], b.env, b.st)
    IN  IF f[1] # "function" THEN Value(<<>>, Fail(st))
        ELSE IF s.status # "run" THEN Value(<<>>, s)
        ELSE Value(r.values, r.st)

\* How a statement ends: it goes on ("next"), to a label, or returns values.
GoesOn(env, st) == [to |-> "next", label |-> "", values |-> <<>>, env |-> env, st |-> st]

\* The statements from number i on; before[j] is the scope before statement j.
Steps(ss, i, before, st) ==
    LET r == Statement(ss[i], before[i], st)
        \* What comes after a statement sees the variables it declares.
        seen == [j \in DOMAIN before |-> IF j > i THEN r.env ELSE before[j]]
        at == CHOOSE j \in DOMAIN ss : ss[j] = <<"label", r.label>>
    IN  IF i > Len(ss) \/ st.status # "run" THEN GoesOn(before[i], st)
        ELSE IF r.to = "next" THEN Steps(ss, i + 1, seen, r.st)
        ELSE IF r.to = "goto" /\ r.label \in LabelsOf(ss)
        THEN Steps(ss, at, [seen EXCEPT ![i] = before[i]], Spend(r.st))
        ELSE r

IsBreak(r) == r.to = "goto" /\ r.label = "break"

StoreTo(targets, vs, st) ==      \* from the last target to the first
    IF targets = <<>> THEN st
    ELSE LET t == Last(targets)
             v == IF Len(targets) <= Len(vs) THEN vs[Len(targets)] ELSE Nil
             s == IF t[1] = "cell" THEN [st EXCEPT !.cell[t[2]] = v] ELSE Put(st, t[2], t[3], v)
         IN  StoreTo(Front(targets), vs, s)

\* What is stored to: a cell, or a table and a key, which are evaluated first.
RECURSIVE Target(_, _, _)
Target(es, env, st) ==
    IF es = <<>> THEN Value(<<>>, st)
    ELSE LET e == Head(es)
             t == One(e[2], env, st)
             k == One(e[3], env, t.st)
             own == CASE e[1] = "index" -> Value(<<"field", t.v, k.v>>, k.st)
                      [] e[2] \in DOMAIN env.vars -> Value(<<"cell", env.vars[e[2]]>>, st)
                      [] OTHER -> Value(<<"field", Globals, String(<<e[2]>>)>>, st)
             r == Target(Tail(es), env, own.st)
         IN  Value(<<own.v>> \o r.v, r.st)

\* The turns of a loop; a "count" or an "each" carries the state of its for.
Loop(s, env, st0) ==
    LET st == Spend(st0)
        out(r) == [r EXCEPT !.to = IF IsBreak(r) THEN "next" ELSE @, !.env = env]
        c == One(s[2], env, st)
        w == Block(s[3], env, c.st)
        u == Block(s[2], env, st)
        until == One(s[3], u.env, u.st)
        n == s[2]
        i == Bind(st, env, <<s[3]>>, <<Number(n[1])>>)
        f == Block(s[4], i.env, i.st)
        call == Apply(n[1], <<n[2], n[3]>>, st)
        g == Bind(call.st, env, s[3], call.v)
        h == Block(s[4], g.env, g.st)
    IN  IF st.status # "run" THEN GoesOn(env, st)
        ELSE CASE s[1] = "while" ->
                    IF IsFalse(c.v) \/ c.st.status # "run" THEN GoesOn(env, c.st)
                    ELSE IF w.to = "next" THEN Loop(s, env, w.st) ELSE out(w)
               [] s[1] = "repeat" ->
                    IF u.to # "next" THEN out(u)
                    ELSE IF IsFalse(until.v) THEN Loop(s, env, until.st) ELSE GoesOn(env, until.st)
               [] s[1] = "count" ->      \* n = <<index, limit, step>>
                    IF IF n[3] > 0 THEN n[1] > n[2] ELSE n[1] < n[2] THEN GoesOn(env, st)
                    ELSE IF f.to = "next"
                    THEN Loop(<<"count", <<n[1] + n[3], n[2], n[3]>>, s[3], s[4]>>, env, f.st)
                    ELSE out(f)
               [] s[1] = "each" ->       \* n = <<generator, state, control>>
                    IF First(call.v) = Nil \/ call.st.status # "run" THEN GoesOn(env, call.st)
                    ELSE IF h.to = "next"
                    THEN Loop(<<"each", <<n[1], n[2], First(call.v)>>, s[3], s[4]>>, env, h.st)
                    ELSE out(h)

Statement(s, env, st) ==
    CASE s[1] = "local" ->
           LET r == Evaluate(s[3], env, st)
               b == Bind(r.st, env, s[2], r.v)
           IN  GoesOn(b.env, b.st)
      [] s[1] = "assign" ->
           LET t == Target(s[2], env, st)
               r == Evaluate(s[3], env, t.st)
           IN  GoesOn(env, StoreTo(t.v, r.v, r.st))
      [] s[1] \in {"call", "method"} -> GoesOn(env, Many(s, env, st).st)
      [] s[1] = "do" -> [Block(s[2], env, st) EXCEPT !.env = env]
      [] s[1] = "if" ->
           LET c == One(s[2], env, st)
           IN  [Block(IF IsFalse(c.v) THEN s[4] ELSE s[3], env, c.st) EXCEPT !.env = env]
      [] s[1] \in {"while", "repeat"} -> Loop(s, env, st)
      [] s[1] = "fornum" ->
           LET r == Evaluate(s[3], env, st)
               step == IF Len(r.v) = 2 THEN 1 ELSE r.v[3][2]
           IN  IF \E i \in DOMAIN r.v : ~IsNumber(r.v[i]) THEN GoesOn(env, Fail(r.st))
               ELSE Loop(<<"count", <<r.v[1][2], r.v[2][2], step>>, s[2], s[4]>>, env, r.st)
      [] s[1] = "forin" ->
           LET r == Evaluate(s[3], env, st)
               v(i) == IF i <= Len(r.v) THEN r.v[i] ELSE Nil
           IN  Loop(<<"each", <<v(1), v(2), v(3)>>, s[2], s[4]>>, env, r.st)
      [] s[1] = "break" -> [GoesOn(env, st) EXCEPT !.to = "goto", !.label = "break"]
      [] s[1] = "goto" -> [GoesOn(env, st) EXCEPT !.to = "goto", !.label = s[2]]
      [] s[1] = "label" -> GoesOn(env, st)
      [] s[1] = "return" ->
           LET r == Evaluate(s[2], env, st)
           IN  [GoesOn(env, r.st) EXCEPT !.to = "return", !.values = r.v]
      [] s[1] = "localfunction" ->
           LET b == Bind(st, env, <<s[2]>>, <<>>)
               f == One(s[3], b.env, b.st)
           IN  GoesOn(b.env, [f.st EXCEPT !.cell[b.env.vars[s[2]]] = f.v])

\* A program, called with arguments: how it ends and the values it returns.
Meaning(program, args) ==
    LET st == [cell |-> <<>>, tab |-> << <<>> >>, fun |-> <<>>, made |-> 0,
               fuel |-> MAXSTEPS, status |-> "run"]
        r == Block(program, [vars |-> <<>>, extra |-> args], st)
    IN  IF ~Valid(program, {}, TRUE) THEN [status |-> "refused", values |-> <<>>]
        ELSE IF r.st.status # "run" THEN [status |-> r.st.status, values |-> <<>>]
        ELSE [status |-> "done", values |-> r.values]
=============================================================================
