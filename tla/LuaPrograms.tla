---------------------------- MODULE LuaPrograms ----------------------------
(***************************************************************************)
(* The chunks that instances of LuaCompiler run: families of programs, as  *)
(* trees of LuaLanguage, each with the arguments it is called with.        *)
(***************************************************************************)
EXTENDS LuaValues

name(x) == <<"name", x>>
num(n) == <<"num", n>>
bin(op, x, y) == <<"bin", op, x, y>>
un(op, x) == <<"un", op, x>>
call(f, es) == <<"call", f, es>>
index(t, k) == <<"index", t, k>>
key(t, k) == index(t, <<"str", k>>)
fun(ns, b) == <<"fun", ns, FALSE, b>>
return(es) == <<"return", es>>
local(ns, es) == <<"local", ns, es>>
assign(ts, es) == <<"assign", ts, es>>
if(c, b) == <<"if", c, b, <<>>>>
nil == <<"nil">>
dots == <<"dots">>
a == name("a")
b == name("b")
ab == local(<<"a", "b">>, <<dots>>)
Arguments == {<<Nil, Number(1)>>, <<Number(1), Bool(FALSE)>>}

-----------------------------------------------------------------------------
(* Conditions: an expression of two operators in each place where the      *)
(* compiler wants something else of it.                                    *)

Leaves == {a, b, nil, <<"true">>}
Simple1 == Leaves \cup {un("not", x) : x \in Leaves}
           \cup {bin(op, x, y) : op \in {"and", "or", "=="}, x \in Leaves, y \in Leaves}
Few == {a, un("not", b), bin("and", a, b), bin("or", b, num(1)), bin("==", a, num(1))}
Logic == {bin(op, x, y) : op \in {"and", "or"}, x \in Simple1, y \in Few}
         \cup {bin(op, x, y) : op \in {"and", "or"}, x \in Few, y \in Simple1}
         \cup {un("not", x) : x \in Simple1}
Place(p, e) ==
    CASE p = "return" -> <<ab, return(<<e>>)>>
      [] p = "local" -> <<ab, local(<<"r">>, <<e>>), return(<<name("r"), a>>)>>
      [] p = "if" -> <<ab, <<"if", e, <<return(<<num(1)>>)>>, <<return(<<num(2)>>)>> >> >>
      [] p = "until" -> <<ab, local(<<"n">>, <<num(0)>>),
                          <<"repeat", <<assign(<<name("n")>>, <<bin("+", name("n"), num(1))>>),
                                        assign(<<a>>, <<name("n")>>)>>,
                            bin("or", e, bin("==", name("n"), num(2)))>>,
                          return(<<name("n"), a>>)>>
      [] p = "field" -> <<ab, assign(<<name("g")>>, <<<<"table", <<<<"item", e>>, <<"item", a>>>>>>>>),
                          return(<<index(name("g"), num(1)), index(name("g"), num(2))>>)>>
Conditions(places) == {<<Place(p, e), args>> : p \in places, e \in Logic, args \in Arguments}

-----------------------------------------------------------------------------
(* Loops: what a turn does is a sequence of statements that declare, close *)
(* over, leave and jump.                                                   *)

n == name("n")
x == name("x")
f == name("f")
g == name("g")
count == assign(<<n>>, <<bin("+", n, num(1))>>)
Turn == {local(<<"x">>, <<n>>),
         assign(<<f>>, <<fun(<<>>, <<assign(<<x>>, <<bin("+", bin("or", x, n), num(1))>>), return(<<x>>)>>)>>),
         if(bin("==", n, num(1)), <<<<"goto", "l">>>>),
         if(bin("==", n, num(2)), <<<<"break">>>>),
         <<"label", "l">>,
         if(bin("and", bin("==", n, num(1)), f), <<assign(<<g>>, <<f>>), call(f, <<>>)>>),
         <<"do", <<local(<<"y">>, <<n>>),
                   assign(<<g>>, <<fun(<<>>, <<assign(<<name("y")>>, <<bin("+", name("y"), num(1))>>),
                                               return(<<name("y")>>)>>)>>),
                   <<"goto", "l">>>>>>}
Turns(k) == UNION {[1 .. i -> Turn] : i \in 0 .. k}
Looped(loop, body) ==
    LET b1 == <<count>> \o body IN
    CASE loop = "while" -> <<<<"while", bin("<", n, num(3)), b1>>>>
      [] loop = "repeat" -> <<<<"repeat", b1, bin("or", bin(">", n, num(2)), bin("==", x, num(2)))>>>>
      [] loop = "for" -> <<<<"fornum", "i", <<num(1), num(3)>>, b1>>>>
      [] loop = "in" -> <<<<"forin", <<"x">>, <<fun(<<>>, <<if(bin("<", n, num(2)), <<return(<<n>>)>>)>>)>>, b1>>>>
      [] loop = "goto" -> <<<<"label", "top">>, <<"do", b1>>,
                            if(bin("<", n, num(3)), <<<<"goto", "top">>>>)>>
Loops(loops, k) ==
    {<<<<local(<<"n", "f", "g">>, <<num(0)>>)>> \o Looped(l, t)
       \o <<return(<<n, bin("and", f, call(f, <<>>)), bin("and", g, call(g, <<>>)),
                     bin("and", f, call(f, <<>>))>>)>>, <<>>>> : l \in loops, t \in Turns(k)}

-----------------------------------------------------------------------------
(* Assignments: targets that use what the same assignment replaces, in the *)
(* function that declares the variables or in one inside it.               *)

t == name("t")
u == name("u")
o == name("o")
Targets2 == {a, t, u, index(t, a), key(t, "k"), index(g, b)}
Sources == {a, b, index(t, a), call(f, <<b>>)}
Assignments(lengths) ==
    LET there == <<"table", <<<<"item", num(7)>>, <<"field", num(2), num(8)>>>>>>
        setup == <<local(<<"a", "b", "t">>, <<num(1), num(2), there>>), local(<<"o">>, <<t>>),
                   local(<<"u">>, <<t>>), assign(<<g>>, <<t>>),
                   local(<<"f">>, <<<<"fun", <<>>, TRUE, <<return(<<dots, num(5)>>)>>>>>>)>>
        seen == return(<<a, b, bin("==", t, o), bin("==", u, o), index(o, num(1)),
                         index(o, num(2)), key(o, "k")>>)
        inside(ss) == <<return(<<call(fun(<<>>, ss), <<>>)>>)>>
        one(ts, es) == <<assign(ts, es), seen>>
        lists(set, l) == UNION {[1 .. i -> set] : i \in l}
        pairs == {ts \in lists(Targets2, {1, 2}) : Len(ts) = 2 => ts[1] # ts[2]}
    IN  {<<setup \o one(ts, es), <<>>>> : ts \in pairs, es \in lists(Sources, lengths)}
        \cup {<<setup \o inside(one(ts, es)), <<>>>> : ts \in pairs, es \in lists(Sources, lengths)}

-----------------------------------------------------------------------------
(* Calls: functions with extra arguments, methods, tail calls and          *)
(* constructors, with lists that are cut or filled up.                     *)

v == name("v")
p == name("p")
q == name("q")
Results == {<<dots>>, <<p, dots>>, <<dots, p>>, <<<<"paren", dots>>>>, <<q>>, <<>>,
            <<call(fun(<<"q">>, <<return(<<q, p>>)>>), <<dots>>)>>}
Arguments2 == {<<>>, <<num(1)>>, <<nil, num(2), num(3)>>, <<dots>>, <<num(4), dots>>}
Uses(c) ==
    {<<return(<<c>>)>>, <<return(<<c, c>>)>>, <<return(<<<<"paren", c>>>>)>>,
     <<local(<<"x", "y">>, <<c, num(3)>>), return(<<name("y"), x>>)>>,
     <<local(<<"x", "y", "z">>, <<num(3), c>>), return(<<name("z"), name("y"), x>>)>>,
     <<local(<<"t">>, <<<<"table", <<<<"item", num(1)>>, <<"item", num(2)>>, <<"field", num(1), num(6)>>,
                                     <<"item", c>>>>>>>>),
       return(<<un("#", t), index(t, num(1)), index(t, num(3)), index(t, num(5))>>)>>,
     <<c, assign(<<x, index(<<"table", <<>>>>, num(1))>>, <<c>>), return(<<x>>)>>,
     <<if(c, <<return(<<bin("and", c, num(1)), un("not", c)>>)>>)>>}
Calls ==
    {<<<<<<"localfunction", "v", <<"fun", <<"p">>, TRUE, <<local(<<"q", "r">>, <<dots>>), return(r)>>>>>>>>
       \o use, <<Number(8), Number(9)>>>> : r \in Results, use \in UNION {Uses(call(v, as)) : as \in Arguments2}}
    \cup
    {<<<<local(<<"s">>, <<<<"table", <<<<"field", <<"str", "v">>,
                          fun(<<"self", "p">>, <<return(<<bin("==", name("self"), name("s")), p>>)>>)>>>>>>>>)>>
       \o use, <<Number(8), Number(9)>>>> : use \in UNION {Uses(<<"method", name("s"), "v", as>>) : as \in Arguments2}}

-----------------------------------------------------------------------------
(* Arithmetic: constants that are folded or not, and precedence.           *)

Terms == {num(1), num(2), a, un("-", a), un("-", num(2)), <<"str", "s">>, un("#", <<"str", "s">>)}
Operators2 == {"+", "-", "//", "%", "..", "<", ">=", "~="}
Sums == {<<<<local(<<"a">>, <<num(3)>>), return(<<bin(o1, bin(o2, t1, t2), t3), bin(o1, t1, bin(o2, t2, t3))>>)>>,
           <<>>>> : o1, o2 \in Operators2, t1, t3 \in {num(2), a}, t2 \in Terms}
=============================================================================
