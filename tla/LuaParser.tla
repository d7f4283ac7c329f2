----------------------------- MODULE LuaParser -----------------------------
(***************************************************************************)
(* The parser of the Lua interpreter (lparser.c): one pass over the tokens *)
(* of a chunk, in which every rule of the grammar drives the generator of  *)
(* LuaCode.  ls holds the tokens left, the function being compiled (fs) in *)
(* those around it (outer), the names of the active local variables of all *)
(* of them, the gotos that wait for a label and the labels in sight.  A    *)
(* syntax error takes the remaining tokens away, so that all rules end.    *)
(* Limits that no instance reaches, line numbers and messages are left out.*)
(***************************************************************************)
EXTENDS LuaCode

\* Tokens are records; t is the kind and v what a name, number or string is.
Tok(ls) == IF ls.tokens = <<>> THEN "<eof>" ELSE Head(ls.tokens).t
TokValue(ls) == Head(ls.tokens).v
luaX_next(ls) == [ls EXCEPT !.tokens = Tail(@)]
semerror(ls) == [ls EXCEPT !.tokens = <<>>, !.err = TRUE, !.fs.e = init_exp("VNIL", 0)]
checknext(ls, t) == IF Tok(ls) = t THEN luaX_next(ls) ELSE semerror(ls)
Name(ls) == IF Tok(ls) = "name" THEN TokValue(ls) ELSE "?"
SkipName(ls) == checknext(ls, "name")
block_follow(ls, withuntil) ==
    Tok(ls) \in {"else", "elseif", "end", "<eof>"} \cup (IF withuntil THEN {"until"} ELSE {})

hasmultret(e) == e.k \in {"VCALL", "VVARARG"}
vkisvar(e) == e.k \in {"VLOCAL", "VUPVAL", "VINDEXED"}

-----------------------------------------------------------------------------
(* Variables.                                                              *)

new_localvar(ls, name) == [ls EXCEPT !.actvar = Append(@, name)]
adjustlocalvars(ls, n) == [ls EXCEPT !.fs.nactvar = @ + n]

\* removevars.
removevars(ls, tolevel) ==
    [ls EXCEPT !.actvar = SubSeq(@, 1, Len(@) - (ls.fs.nactvar - tolevel)), !.fs.nactvar = tolevel]

searchvar(actvar, fs, n) ==
    Max({-1} \cup {i \in 0 .. fs.nactvar - 1 : actvar[fs.firstlocal + i + 1] = n})
searchupvalue(fs, n) == SelectInSeq(fs.upvalues, LAMBDA u : u.name = n)

\* The block in which the variable was declared will have to close it.
markupval(fs, level) ==
    [fs EXCEPT !.bl[Max({b \in DOMAIN fs.bl : fs.bl[b].nactvar <= level})].upval = TRUE]

\* singlevaraux for function number level of fss, the innermost last: the
\* variable called n there, and the functions with the upvalues it needs.
RECURSIVE singlevaraux(_, _, _, _, _)
singlevaraux(actvar, fss, level, n, base) ==
    IF level = 0 THEN [fss |-> fss, var |-> init_exp("VVOID", 0)]
    ELSE LET fs == fss[level]
             v == searchvar(actvar, fs, n)
             up == searchupvalue(fs, n)
             enclosing == singlevaraux(actvar, fss, level - 1, n, FALSE)
             new == [name |-> n, instack |-> enclosing.var.k = "VLOCAL",
                     idx |-> enclosing.var.info]
         IN  IF v >= 0
             THEN [fss |-> IF base THEN fss ELSE [fss EXCEPT ![level] = markupval(fs, v)],
                   var |-> init_exp("VLOCAL", v)]
             ELSE IF up > 0 THEN [fss |-> fss, var |-> init_exp("VUPVAL", up)]
             ELSE IF enclosing.var.k = "VVOID" THEN enclosing
             ELSE [fss |-> [enclosing.fss EXCEPT ![level].upvalues = Append(@, new)],
                   var |-> init_exp("VUPVAL", Len(fs.upvalues) + 1)]

Lookup(ls, n) ==
    LET fss == Append(ls.outer, ls.fs)
        r == singlevaraux(ls.actvar, fss, Len(fss), n, TRUE)
    IN  [ls EXCEPT !.outer = Front(r.fss), !.fs = [Last(r.fss) EXCEPT !.e = r.var]]

singlevar(ls) ==
    LET n == Name(ls)
        v == Lookup(SkipName(ls), n)
        env == Lookup(v, "_ENV")
    IN  IF v.fs.e.k # "VVOID" THEN v
        ELSE [env EXCEPT !.fs = luaK_indexed(Constant(@, String(<<n>>)), env.fs.e)]

adjust_assign(fs, nvars, nexps) ==
    LET extra == nvars - nexps
        want == Max({extra + 1, 0})
        m == luaK_setreturns(fs, want)
        s == IF fs.e.k = "VVOID" THEN fs ELSE luaK_exp2nextreg(fs)
    IN  IF hasmultret(fs.e) THEN IF want > 1 THEN luaK_reserveregs(m, want - 1) ELSE m
        ELSE IF extra > 0 THEN luaK_nil(luaK_reserveregs(s, extra), s.freereg, extra) ELSE s

-----------------------------------------------------------------------------
(* Blocks, labels and gotos.                                               *)

\* newlabelentry, for either list.
Entry(ls, name, at) == [name |-> name, pc |-> at, nactvar |-> ls.fs.nactvar]

closegoto(ls, g, label) ==
    IF ls.gt[g].nactvar < label.nactvar THEN semerror(ls)
    ELSE [ls EXCEPT !.fs = luaK_patchlist(@, ls.gt[g].pc, label.pc), !.gt = RemoveAt(@, g)]

\* findlabel: goto number g is closed if the block has its label already.
findlabel(ls, g) ==
    LET bl == Last(ls.fs.bl)
        goto == ls.gt[g]
        found == {i \in bl.firstlabel + 1 .. Len(ls.label) : ls.label[i].name = goto.name}
        lb == ls.label[Min(found)]
        close == goto.nactvar > lb.nactvar /\ (bl.upval \/ Len(ls.label) > bl.firstlabel)
    IN  IF found = {} THEN ls
        ELSE closegoto(IF close THEN [ls EXCEPT !.fs = luaK_patchclose(@, goto.pc, lb.nactvar)]
                       ELSE ls, g, lb)

\* findgotos: the gotos from number i on that wait for this label.
RECURSIVE findgotos(_, _, _), movegotosout(_, _, _)
findgotos(ls, label, i) ==
    IF i > Len(ls.gt) THEN ls
    ELSE IF ls.gt[i].name # label.name THEN findgotos(ls, label, i + 1)
    ELSE LET c == closegoto(ls, i, label) IN IF c.err THEN c ELSE findgotos(c, label, i)

\* A faulty variant of movegotosout that leaves captured variables open.
MoveWithoutClosing(ls, bl, i) ==
    [ls EXCEPT !.gt = [n \in DOMAIN @ |-> IF n < i THEN @[n]
                       ELSE [@[n] EXCEPT !.nactvar = Min({@, bl.nactvar})]]]

\* movegotosout, from goto number i of the block that was left.
movegotosout(ls, bl, i) ==
    IF i > Len(ls.gt) THEN ls
    ELSE LET leaves == ls.gt[i].nactvar > bl.nactvar
             c == IF leaves /\ bl.upval
                  THEN [ls EXCEPT !.fs = luaK_patchclose(@, ls.gt[i].pc, bl.nactvar)] ELSE ls
             n == IF leaves THEN [c EXCEPT !.gt[i].nactvar = bl.nactvar] ELSE c
             f == findlabel(n, i)
         IN  IF f.err THEN f
             ELSE movegotosout(f, bl, IF Len(f.gt) < Len(n.gt) THEN i ELSE i + 1)

enterblock(ls, isloop) ==
    [ls EXCEPT !.fs.bl = Append(@, [isloop |-> isloop, nactvar |-> ls.fs.nactvar, upval |-> FALSE,
                                    firstlabel |-> Len(ls.label), firstgoto |-> Len(ls.gt)])]

breaklabel(ls) ==
    LET l == Entry(ls, "break", pc(ls.fs))
    IN  findgotos([ls EXCEPT !.label = Append(@, l)], l, Last(ls.fs.bl).firstgoto + 1)

leaveblock(ls) ==
    LET bl == Last(ls.fs.bl)
        outermost == Len(ls.fs.bl) = 1
        j == luaK_jump(ls.fs)
        closed == luaK_patchtohere(luaK_patchclose(j, Len(j.code), bl.nactvar), Len(j.code))
        a == IF ~outermost /\ bl.upval THEN [ls EXCEPT !.fs = closed] ELSE ls
        b == IF bl.isloop THEN breaklabel(a) ELSE a
        c == [removevars(b, bl.nactvar) EXCEPT !.fs.bl = Front(@), !.fs.freereg = bl.nactvar,
                                               !.label = SubSeq(@, 1, bl.firstlabel)]
    IN  IF b.err THEN b
        ELSE IF ~outermost THEN movegotosout(c, bl, bl.firstgoto + 1)
        ELSE IF bl.firstgoto < Len(c.gt) THEN semerror(c) ELSE c

-----------------------------------------------------------------------------
(* Functions.                                                              *)

\* open_func.
NewFunc(ls, upvalues, vararg) ==
    enterblock([ls EXCEPT
        !.fs = [code |-> <<>>, k |-> <<>>, p |-> <<>>, upvalues |-> upvalues, bl |-> <<>>,
                freereg |-> 0, nactvar |-> 0, firstlocal |-> Len(ls.actvar),
                jpc |-> NO_JUMP, lasttarget |-> 1, maxstacksize |-> 2,
                numparams |-> 0, is_vararg |-> vararg,
                e |-> init_exp("VVOID", 0), ok |-> TRUE, err |-> FALSE]], FALSE)
open_func(ls) == NewFunc([ls EXCEPT !.outer = Append(@, ls.fs)], <<>>, 0)

\* close_func, without giving the function back.
close_func(ls) == leaveblock([ls EXCEPT !.fs = luaK_ret(@, 0, 0)])

Proto(fs) == [code |-> fs.code, k |-> fs.k, p |-> fs.p, upvalues |-> fs.upvalues,
              numparams |-> fs.numparams, is_vararg |-> fs.is_vararg,
              maxstacksize |-> fs.maxstacksize]

\* codeclosure in the enclosing function, which becomes the current one again.
codeclosure(ls) ==
    LET f == [Last(ls.outer) EXCEPT !.p = Append(@, Proto(ls.fs)), !.ok = @ /\ ls.fs.ok,
                                    !.err = @ \/ ls.fs.err]
        c == luaK_codeABC(f, "CLOSURE", 0, Len(f.p), 0)
    IN  [ls EXCEPT !.outer = Front(@),
                   !.fs = luaK_exp2nextreg([c EXCEPT !.e = init_exp("VRELOCABLE", Len(c.code))])]

RECURSIVE expr(_), subexpr(_, _), Operators(_, _), simpleexp(_), suffixedexp(_), suffixes(_),
          explist(_, _), constructor(_), Fields(_, _), body(_, _), parlist(_, _), statlist(_),
          statement(_), skipnoopstat(_), ElseIfs(_, _), Targets(_, _), StoreAll(_, _), NameList(_, _),
          funcname(_)

\* parlist: n parameters have been read.
parlist(ls, n) ==
    LET p == new_localvar(SkipName(ls), Name(ls)) IN
    CASE Tok(ls) = "..." -> [ls |-> [luaX_next(ls) EXCEPT !.fs.is_vararg = 2], n |-> n]
      [] Tok(ls) = ")" /\ n = 0 -> [ls |-> ls, n |-> 0]
      [] OTHER -> IF Tok(p) = "," THEN parlist(luaX_next(p), n + 1) ELSE [ls |-> p, n |-> n + 1]

body(ls, ismethod) ==
    LET o == checknext(open_func(ls), "(")
        self == IF ismethod THEN adjustlocalvars(new_localvar(o, "self"), 1) ELSE o
        r == parlist(self, 0)
        a == adjustlocalvars(r.ls, r.n)
        b == [a EXCEPT !.fs = luaK_reserveregs([@ EXCEPT !.numparams = a.fs.nactvar],
                                               a.fs.nactvar)]
        s == checknext(statlist(checknext(b, ")")), "end")
        c == close_func(s)
    IN  IF c.err THEN c ELSE codeclosure(c)

-----------------------------------------------------------------------------
(* Expressions.                                                            *)

priority ==
    [ADD |-> <<10, 10>>, SUB |-> <<10, 10>>, MUL |-> <<11, 11>>, MOD |-> <<11, 11>>,
     IDIV |-> <<11, 11>>, CONCAT |-> <<9, 8>>, EQ |-> <<3, 3>>, LT |-> <<3, 3>>,
     LE |-> <<3, 3>>, NE |-> <<3, 3>>, GT |-> <<3, 3>>, GE |-> <<3, 3>>,
     AND |-> <<2, 2>>, OR |-> <<1, 1>>]
UNARY_PRIORITY == 12

\* getbinopr and getunopr.
getbinopr ==
    [t \in {"+", "-", "*", "%", "//", "..", "==", "<", "<=", "~=", ">", ">=", "and", "or"} |->
        CASE t = "+" -> "ADD" [] t = "-" -> "SUB" [] t = "*" -> "MUL" [] t = "%" -> "MOD"
          [] t = "//" -> "IDIV" [] t = ".." -> "CONCAT" [] t = "==" -> "EQ" [] t = "<" -> "LT"
          [] t = "<=" -> "LE" [] t = "~=" -> "NE" [] t = ">" -> "GT" [] t = ">=" -> "GE"
          [] t = "and" -> "AND" [] t = "or" -> "OR"]
getunopr == [t \in {"not", "-", "#"} |->
                CASE t = "not" -> "NOT" [] t = "-" -> "UNM" [] t = "#" -> "LEN"]

subexpr(ls, limit) ==
    LET s == subexpr(luaX_next(ls), UNARY_PRIORITY)
    IN  Operators(IF Tok(ls) \in DOMAIN getunopr
                  THEN [s EXCEPT !.fs = luaK_prefix(@, getunopr[Tok(ls)])]
                  ELSE simpleexp(ls), limit)

\* The operators of subexpr, after the first operand.
Operators(ls, limit) ==
    LET op == getbinopr[Tok(ls)]
        a == [luaX_next(ls) EXCEPT !.fs = luaK_infix(@, op)]
        b == subexpr(a, priority[op][2])
    IN  IF Tok(ls) \notin DOMAIN getbinopr THEN ls
        ELSE IF priority[op][1] <= limit THEN ls
        ELSE Operators([b EXCEPT !.fs = luaK_posfix(@, op, a.fs.e)], limit)

expr(ls) == subexpr(ls, 0)

Simple(ls, e) == [luaX_next(ls) EXCEPT !.fs.e = e]
simpleexp(ls) ==
    LET v == luaK_codeABC(ls.fs, "VARARG", 0, 1, 0) IN
    CASE Tok(ls) = "number" -> Simple(ls, init_exp("VKINT", TokValue(ls)))
      [] Tok(ls) = "string" -> [luaX_next(ls) EXCEPT !.fs = Constant(@, String(TokValue(ls)))]
      [] Tok(ls) = "nil" -> Simple(ls, init_exp("VNIL", 0))
      [] Tok(ls) = "true" -> Simple(ls, init_exp("VTRUE", 0))
      [] Tok(ls) = "false" -> Simple(ls, init_exp("VFALSE", 0))
      [] Tok(ls) = "..." ->
           IF ls.fs.is_vararg = 0 THEN semerror(ls)
           ELSE Simple([ls EXCEPT !.fs = [v EXCEPT !.is_vararg = 1]],
                       init_exp("VVARARG", Len(v.code)))
      [] Tok(ls) = "{" -> constructor(ls)
      [] Tok(ls) = "function" -> body(luaX_next(ls), FALSE)
      [] OTHER -> suffixedexp(ls)

primaryexp(ls) ==
    LET e == checknext(expr(luaX_next(ls)), ")") IN
    CASE Tok(ls) = "(" -> [e EXCEPT !.fs = luaK_dischargevars(@)]
      [] Tok(ls) = "name" -> singlevar(ls)
      [] OTHER -> semerror(ls)

suffixedexp(ls) == suffixes(primaryexp(ls))

\* fieldsel.
fieldsel(ls) ==
    LET t == luaK_exp2anyregup(ls.fs)
        n == luaX_next(ls)
    IN  [SkipName(n) EXCEPT !.fs = luaK_indexed(Constant(t, String(<<Name(n)>>)), t.e)]

\* yindex.
yindex(ls) ==
    LET k == expr(luaX_next(ls))
    IN  checknext([k EXCEPT !.fs = luaK_exp2val(@)], "]")

funcargs(ls) ==
    LET base == ls.fs.e.info
        l == explist(luaX_next(ls), 1).ls
        none == Tok(luaX_next(ls)) = ")"
        list == IF none THEN Simple(luaX_next(ls), init_exp("VVOID", 0))
                ELSE checknext([l EXCEPT !.fs = luaK_setreturns(@, LUA_MULTRET)], ")")
        args == CASE Tok(ls) = "(" -> list
                  [] Tok(ls) \in {"{", "string"} -> simpleexp(ls)
                  [] OTHER -> semerror(ls)
        open == hasmultret(args.fs.e)
        fs == IF open \/ args.fs.e.k = "VVOID" THEN args.fs ELSE luaK_exp2nextreg(args.fs)
        c == luaK_codeABC(fs, "CALL", base, IF open THEN 0 ELSE fs.freereg - base, 2)
    IN  [args EXCEPT !.fs = [c EXCEPT !.e = init_exp("VCALL", Len(c.code)), !.freereg = base + 1]]

suffixes(ls) ==
    LET t == [ls EXCEPT !.fs = luaK_exp2anyregup(@)]
        k == yindex(t)
        n == luaX_next(ls)
    IN  CASE Tok(ls) = "." -> suffixes(fieldsel(ls))
          [] Tok(ls) = "[" -> suffixes([k EXCEPT !.fs = luaK_indexed(@, t.fs.e)])
          [] Tok(ls) = ":" ->
               suffixes(funcargs([SkipName(n) EXCEPT !.fs = luaK_self(@, <<Name(n)>>)]))
          [] Tok(ls) \in {"(", "string", "{"} ->
               suffixes(funcargs([ls EXCEPT !.fs = luaK_exp2nextreg(@)]))
          [] OTHER -> ls

\* explist: the last expression is left to the caller; n counts them.
explist(ls, n) ==
    LET e == expr(ls) IN
    IF Tok(e) # "," THEN [ls |-> e, n |-> n]
    ELSE explist([luaX_next(e) EXCEPT !.fs = luaK_exp2nextreg(@)], n + 1)

\* A constructor: cc is the register of the table, the item that is pending and
\* the items that were read and that are not stored yet.
closelistfield(fs, cc) ==
    LET r == luaK_exp2nextreg([fs EXCEPT !.e = cc.v]) IN
    IF cc.v.k = "VVOID" THEN [fs |-> fs, cc |-> cc]
    ELSE IF cc.tostore = LFIELDS_PER_FLUSH
    THEN [fs |-> luaK_setlist(r, cc.t, cc.na, cc.tostore),
          cc |-> [cc EXCEPT !.v.k = "VVOID", !.tostore = 0]]
    ELSE [fs |-> r, cc |-> [cc EXCEPT !.v.k = "VVOID"]]

lastlistfield(fs, cc) ==
    LET v == [fs EXCEPT !.e = cc.v]
        r == IF cc.v.k = "VVOID" THEN v ELSE luaK_exp2nextreg(v)
    IN  IF cc.tostore = 0 THEN fs
        ELSE IF hasmultret(cc.v)
        THEN luaK_setlist(luaK_setreturns(v, LUA_MULTRET), cc.t, cc.na, LUA_MULTRET)
        ELSE luaK_setlist(r, cc.t, cc.na, cc.tostore)

recfield(ls, cc) ==
    LET key == IF Tok(ls) = "[" THEN yindex(ls)
               ELSE [SkipName(ls) EXCEPT !.fs = Constant(@, String(<<Name(ls)>>))]
        k == checknext([key EXCEPT !.fs = luaK_exp2RK(@)], "=")
        v == expr(k)
        r == luaK_exp2RK(v.fs)
        s == luaK_codeABC(r, "SETTABLE", cc.t, RK(k.fs.e), RK(r.e))
    IN  [v EXCEPT !.fs = [s EXCEPT !.freereg = ls.fs.freereg]]

Fields(ls, cc) ==
    LET p == closelistfield(ls.fs, cc)
        a == [ls EXCEPT !.fs = p.fs]
        named == Tok(a) = "[" \/ (Tok(a) = "name" /\ Tok(luaX_next(a)) = "=")
        i == IF named THEN recfield(a, p.cc) ELSE expr(a)
        c == IF named THEN p.cc
             ELSE [p.cc EXCEPT !.v = i.fs.e, !.na = @ + 1, !.tostore = @ + 1]
    IN  IF Tok(ls) = "}" THEN [ls |-> ls, cc |-> cc]
        ELSE IF Tok(i) \in {",", ";"} THEN Fields(luaX_next(i), c)
        ELSE [ls |-> i, cc |-> c]

\* The sizes given to OP_NEWTABLE are left out.
constructor(ls) ==
    LET n == luaK_codeABC(ls.fs, "NEWTABLE", 0, 0, 0)
        t == luaK_exp2nextreg([n EXCEPT !.e = init_exp("VRELOCABLE", Len(n.code))])
        r == Fields([luaX_next(ls) EXCEPT !.fs = t],
                    [t |-> t.e.info, v |-> init_exp("VVOID", 0), na |-> 0, tostore |-> 0])
        c == checknext(r.ls, "}")
    IN  [c EXCEPT !.fs = [lastlistfield(@, r.cc) EXCEPT !.e = t.e]]

-----------------------------------------------------------------------------
(* Statements.                                                             *)

statlist(ls) ==
    IF block_follow(ls, TRUE) THEN ls
    ELSE IF Tok(ls) = "return" THEN statement(ls)
    ELSE statlist(statement(ls))

block(ls) == leaveblock(statlist(enterblock(ls, FALSE)))

Jump(ls) == [ls EXCEPT !.fs = luaK_jump(@)]
ToHere(ls, list) == [ls EXCEPT !.fs = luaK_patchtohere(@, list)]
LastPc(ls) == Len(ls.fs.code)

\* cond: the list of jumps for a false condition is fs.e.f.
cond(ls) ==
    LET c == expr(ls)
        v == IF c.fs.e.k = "VNIL" THEN [c EXCEPT !.fs.e.k = "VFALSE"] ELSE c
    IN  [v EXCEPT !.fs = luaK_goiftrue(@)]

\* gotostat: the jump list is at j.
gotostat(ls, j) ==
    LET n == luaX_next(ls)
        a == IF Tok(ls) = "goto" THEN SkipName(n) ELSE n
        name == IF Tok(ls) = "goto" THEN Name(n) ELSE "break"
        g == [a EXCEPT !.gt = Append(@, Entry(ls, name, j))]
    IN  findlabel(g, Len(g.gt))

skipnoopstat(ls) == IF Tok(ls) \in {";", "::"} THEN skipnoopstat(statement(ls)) ELSE ls

labelstat(ls) ==
    LET name == Name(ls)
        first == Last(ls.fs.bl).firstlabel + 1
        repeated == \E i \in first .. Len(ls.label) : ls.label[i].name = name
        a == checknext(SkipName(ls), "::")
        here == [a EXCEPT !.fs = luaK_getlabel(@)]
        l == Len(ls.label) + 1
        b == skipnoopstat([here EXCEPT !.label = Append(@, Entry(here, name, pc(here.fs)))])
        c == IF block_follow(b, FALSE)
             THEN [b EXCEPT !.label[l].nactvar = Last(b.fs.bl).nactvar] ELSE b
    IN  IF repeated THEN semerror(ls)
        ELSE findgotos(c, c.label[l], Last(c.fs.bl).firstgoto + 1)

whilestat(ls) ==
    LET n == luaX_next(ls)
        c == cond([n EXCEPT !.fs = luaK_getlabel(@)])
        b == Jump(block(checknext(enterblock(c, TRUE), "do")))
        loop == [b EXCEPT !.fs = luaK_patchlist(@, LastPc(b), pc(n.fs))]
    IN  ToHere(leaveblock(checknext(loop, "end")), c.fs.e.f)

repeatstat(ls) ==
    LET start == pc(ls.fs)
        a == [luaX_next(ls) EXCEPT !.fs = luaK_getlabel(@)]
        c == cond(checknext(statlist(enterblock(enterblock(a, TRUE), FALSE)), "until"))
        bl2 == Last(c.fs.bl)
        d == IF bl2.upval
             THEN [c EXCEPT !.fs = luaK_patchclose(@, c.fs.e.f, bl2.nactvar)] ELSE c
        loop == leaveblock(d)
    IN  leaveblock([loop EXCEPT !.fs = luaK_patchlist(@, c.fs.e.f, start)])

exp1(ls) == LET e == expr(ls) IN [e EXCEPT !.fs = luaK_exp2nextreg(@)]

forbody(ls, base, nvars, isnum) ==
    LET a == checknext(adjustlocalvars(ls, 3), "do")
        p == IF isnum THEN [a EXCEPT !.fs = luaK_codeABC(@, "FORPREP", base, NO_JUMP, 0)]
             ELSE Jump(a)
        v == adjustlocalvars(enterblock(p, FALSE), nvars)
        b == leaveblock(block([v EXCEPT !.fs = luaK_reserveregs(@, nvars)]))
        here == luaK_patchtohere(b.fs, LastPc(p))
        end == IF isnum THEN luaK_codeABC(here, "FORLOOP", base, NO_JUMP, 0)
               ELSE luaK_codeABC(luaK_codeABC(here, "TFORCALL", base, 0, nvars),
                                 "TFORLOOP", base + 2, NO_JUMP, 0)
    IN  [b EXCEPT !.fs = luaK_patchlist(end, Len(end.code), LastPc(p) + 1)]

fornum(ls, name) ==
    LET vars == [ls EXCEPT !.actvar = @ \o <<"(index)", "(limit)", "(step)", name>>]
        limit == exp1(checknext(exp1(checknext(vars, "=")), ","))
        one == Constant(limit.fs, Number(1))
        step == IF Tok(limit) = "," THEN exp1(luaX_next(limit))
                ELSE [limit EXCEPT !.fs =
                        luaK_reserveregs(luaK_codek(one, one.freereg, one.e.info), 1)]
    IN  forbody(step, ls.fs.freereg, 1, TRUE)

\* The rest of a list of names, which are made local variables.
NameList(ls, n) ==
    IF Tok(ls) # "," THEN [ls |-> ls, n |-> n]
    ELSE LET a == luaX_next(ls) IN NameList(new_localvar(SkipName(a), Name(a)), n + 1)

forlist(ls, name) ==
    LET vars == [ls EXCEPT !.actvar = @ \o <<"(generator)", "(state)", "(control)", name>>]
        r == NameList(vars, 1)
        l == explist(checknext(r.ls, "in"), 1)
        a == [l.ls EXCEPT !.fs = luaK_checkstack(adjust_assign(@, 3, l.n), 3)]
    IN  forbody(a, ls.fs.freereg, r.n, FALSE)

forstat(ls) ==
    LET a == luaX_next(enterblock(ls, TRUE))
        n == SkipName(a)
        b == CASE Tok(n) = "=" -> fornum(n, Name(a))
               [] Tok(n) \in {",", "in"} -> forlist(n, Name(a))
               [] OTHER -> semerror(n)
    IN  leaveblock(checknext(b, "end"))

\* test_then_block, with the list of jumps to the end of the statement.
test_then_block(ls, escapelist) ==
    LET v == checknext(expr(luaX_next(ls)), "then")
        leaves == Tok(v) \in {"goto", "break"}
        g == [v EXCEPT !.fs = luaK_goiffalse(@)]
        goto == skipnoopstat(gotostat(enterblock(g, FALSE), g.fs.e.t))
        skip == Jump(goto)
        t == [v EXCEPT !.fs = luaK_goiftrue(@)]
        jf == IF leaves THEN LastPc(skip) ELSE t.fs.e.f
        s == leaveblock(statlist(IF leaves THEN skip ELSE enterblock(t, FALSE)))
        more == Tok(s) \in {"else", "elseif"}
        j == Jump(s)
        e == IF more THEN [j EXCEPT !.fs = luaK_concat(@, escapelist, LastPc(j))] ELSE s
    IN  IF leaves /\ block_follow(goto, FALSE) THEN [ls |-> leaveblock(goto), list |-> escapelist]
        ELSE [ls |-> ToHere(e, jf),
              list |-> IF more THEN Joined(escapelist, LastPc(j)) ELSE escapelist]

ElseIfs(ls, escapelist) ==
    LET r == test_then_block(ls, escapelist)
    IN  IF Tok(r.ls) = "elseif" THEN ElseIfs(r.ls, r.list) ELSE r

ifstat(ls) ==
    LET r == ElseIfs(ls, NO_JUMP)
        b == IF Tok(r.ls) = "else" THEN block(luaX_next(r.ls)) ELSE r.ls
    IN  ToHere(checknext(b, "end"), r.list)

localfunc(ls) == body(adjustlocalvars(new_localvar(SkipName(ls), Name(ls)), 1), FALSE)

localstat(ls) ==
    LET r == NameList(new_localvar(SkipName(ls), Name(ls)), 1)
        l == IF Tok(r.ls) = "=" THEN explist(luaX_next(r.ls), 1)
             ELSE [ls |-> [r.ls EXCEPT !.fs.e = init_exp("VVOID", 0)], n |-> 0]
    IN  adjustlocalvars([l.ls EXCEPT !.fs = adjust_assign(@, r.n, l.n)], r.n)

\* funcname: the fields after the first name.
funcname(ls) == IF Tok(ls) = "." THEN funcname(fieldsel(ls)) ELSE ls

funcstat(ls) ==
    LET v == funcname(singlevar(luaX_next(ls)))
        ismethod == Tok(v) = ":"
        f == IF ismethod THEN fieldsel(v) ELSE v
        b == body(f, ismethod)
    IN  IF b.err THEN b ELSE [b EXCEPT !.fs = luaK_storevar(@, f.fs.e)]

\* An assignment that uses a table or an index that a variable to the right of
\* it replaces gets a copy of the variable.
check_conflict(fs, lhs, v) ==
    LET extra == fs.freereg
        intable(u) == u.k = "VINDEXED" /\ u.vt = v.k /\ u.info = v.info
        inkey(u) == u.k = "VINDEXED" /\ v.k = "VLOCAL" /\ u.idx = v.info
        safe(u) == [u EXCEPT !.vt = IF intable(u) THEN "VLOCAL" ELSE @,
                             !.info = IF intable(u) THEN extra ELSE @,
                             !.idx = IF inkey(u) THEN extra ELSE @]
        op == IF v.k = "VLOCAL" THEN "MOVE" ELSE "GETUPVAL"
    IN  IF \E i \in DOMAIN lhs : intable(lhs[i]) \/ inkey(lhs[i])
        THEN [fs |-> luaK_reserveregs(luaK_codeABC(fs, op, extra, v.info, 0), 1),
              lhs |-> [i \in DOMAIN lhs |-> safe(lhs[i])]]
        ELSE [fs |-> fs, lhs |-> lhs]

\* The variables on the left side of assignment.
Targets(ls, lhs) ==
    LET s == suffixedexp(luaX_next(ls))
        v == s.fs.e
        c == IF v.k = "VINDEXED" THEN [fs |-> s.fs, lhs |-> lhs] ELSE check_conflict(s.fs, lhs, v)
    IN  IF ~vkisvar(Last(lhs)) THEN [ls |-> semerror(ls), lhs |-> lhs]
        ELSE IF Tok(ls) # "," THEN [ls |-> ls, lhs |-> lhs]
        ELSE Targets([s EXCEPT !.fs = c.fs], Append(c.lhs, v))

\* The values on top are stored from the last to the first.
StoreAll(fs, lhs) ==
    IF lhs = <<>> THEN fs
    ELSE StoreAll(luaK_storevar([fs EXCEPT !.e = init_exp("VNONRELOC", fs.freereg - 1)],
                                Last(lhs)), Front(lhs))

assignment(ls) ==
    LET r == Targets(ls, <<ls.fs.e>>)
        n == Len(r.lhs)
        l == explist(checknext(r.ls, "="), 1)
        a == adjust_assign(l.ls.fs, n, l.n)
        fewer == [a EXCEPT !.freereg = @ - (IF l.n > n THEN l.n - n ELSE 0)]
        same == luaK_storevar(luaK_setoneret(l.ls.fs), Last(r.lhs))
    IN  IF r.ls.err THEN r.ls
        ELSE [l.ls EXCEPT !.fs = IF l.n = n THEN StoreAll(same, Front(r.lhs))
                                 ELSE StoreAll(fewer, r.lhs)]

exprstat(ls) ==
    LET s == suffixedexp(ls) IN
    CASE Tok(s) \in {"=", ","} -> assignment(s)
      [] s.fs.e.k = "VCALL" -> [s EXCEPT !.fs.code[s.fs.e.info].C = 1]
      [] OTHER -> semerror(s)

retstat(ls) ==
    LET l == explist(ls, 1)
        fs == l.ls.fs
        m == luaK_setreturns(fs, LUA_MULTRET)
        tail == fs.e.k = "VCALL" /\ l.n = 1
        t == IF tail THEN [m EXCEPT !.code[fs.e.info].op = "TAILCALL"] ELSE m
        one == luaK_exp2anyreg(fs)
        many == luaK_exp2nextreg(fs)
        r == CASE block_follow(ls, TRUE) \/ Tok(ls) = ";" ->
                    [ls EXCEPT !.fs = luaK_ret(@, 0, 0)]
               [] hasmultret(fs.e) -> [l.ls EXCEPT !.fs = luaK_ret(t, t.nactvar, LUA_MULTRET)]
               [] l.n = 1 -> [l.ls EXCEPT !.fs = luaK_ret(one, one.e.info, 1)]
               [] OTHER -> [l.ls EXCEPT !.fs = luaK_ret(many, many.nactvar, l.n)]
    IN  IF Tok(r) = ";" THEN luaX_next(r) ELSE r

statement(ls) ==
    LET n == luaX_next(ls)
        s == CASE Tok(ls) = ";" -> n
               [] Tok(ls) = "if" -> ifstat(ls)
               [] Tok(ls) = "while" -> whilestat(ls)
               [] Tok(ls) = "do" -> checknext(block(n), "end")
               [] Tok(ls) = "for" -> forstat(ls)
               [] Tok(ls) = "repeat" -> repeatstat(ls)
               [] Tok(ls) = "function" -> funcstat(ls)
               [] Tok(ls) = "local" ->
                    IF Tok(n) = "function" THEN localfunc(luaX_next(n)) ELSE localstat(n)
               [] Tok(ls) = "::" -> labelstat(n)
               [] Tok(ls) = "return" -> retstat(n)
               [] Tok(ls) \in {"break", "goto"} -> gotostat(Jump(ls), LastPc(Jump(ls)))
               [] OTHER -> exprstat(ls)
    IN  [s EXCEPT !.fs.freereg = s.fs.nactvar]

\* mainfunc: the prototype of the chunk, and whether it has no syntax error.
luaY_parser(tokens) ==
    LET env == [name |-> "_ENV", instack |-> TRUE, idx |-> 0]
        ls == [tokens |-> tokens, fs |-> Nil, outer |-> <<>>, actvar |-> <<>>,
               gt |-> <<>>, label |-> <<>>, err |-> FALSE]
        s == statlist(NewFunc(ls, <<env>>, 2))
        c == close_func(IF Tok(s) = "<eof>" THEN s ELSE semerror(s))
    IN  [proto |-> Proto(c.fs), ok |-> ~c.err /\ ~c.fs.err, asserted |-> c.fs.ok]
=============================================================================
