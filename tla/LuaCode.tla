------------------------------ MODULE LuaCode ------------------------------
(***************************************************************************)
(* The code generator of the Lua interpreter (lcode.c).  While the parser  *)
(* reads a function, fs describes the code made so far, the registers in   *)
(* use and the expression being read, fs.e, whose value may be delayed: a  *)
(* constant, a variable, an instruction that has no register yet, a jump,  *)
(* and the lists of jumps that leave the expression when it is true or     *)
(* false.  Every operation maps fs to the fs after it.  The first position *)
(* of the code and the first constant have number 1, jumps are absolute,   *)
(* and a constant operand is its negated number.                           *)
(***************************************************************************)
EXTENDS LuaValues, FiniteSetsExt

CONSTANTS MAXINDEXRK,         \* last constant that can be an operand
          MAXARG_Bx,          \* last constant OP_LOADK can name
          MAXREGS,            \* registers of a function
          LFIELDS_PER_FLUSH   \* items of a constructor stored at once

NO_JUMP == 0
NO_REG == 255
LUA_MULTRET == -1

Abs(x) == IF x < 0 THEN -x ELSE x

\* luaV_div and luaV_mod: the quotient that C cuts off towards zero is made the
\* floor, and the remainder gets the sign of the divisor.
Cut(x, y) == LET q == Abs(x) \div Abs(y) IN IF (x < 0) = (y < 0) THEN q ELSE -q
CutRest(x, y) == x - y * Cut(x, y)
luaV_div(x, y) == IF (x < 0) # (y < 0) /\ CutRest(x, y) # 0 THEN Cut(x, y) - 1 ELSE Cut(x, y)
luaV_mod(x, y) ==
    LET r == CutRest(x, y) IN IF r # 0 /\ (r < 0) # (y < 0) THEN r + y ELSE r

\* luaO_arith.
Arith(op, x, y) ==
    CASE op = "ADD" -> x + y [] op = "SUB" -> x - y [] op = "MUL" -> x * y
      [] op = "IDIV" -> luaV_div(x, y) [] op = "MOD" -> luaV_mod(x, y) [] op = "UNM" -> -x

\* init_exp.
init_exp(k, i) == [k |-> k, info |-> i, vt |-> "", idx |-> 0, t |-> NO_JUMP, f |-> NO_JUMP]
hasjumps(e) == e.t # e.f
tonumeral(e) == ~hasjumps(e) /\ e.k = "VKINT"

pc(fs) == Len(fs.code) + 1
Instruction(op, a, b, c) == [op |-> op, A |-> a, B |-> b, C |-> c]

-----------------------------------------------------------------------------
(* Jumps.                                                                  *)

getjump(fs, list) == fs.code[list].B
fixjump(fs, list, dest) == [fs EXCEPT !.code[list].B = dest]

RECURSIVE LastJump(_, _), patchlistaux(_, _, _, _, _), luaK_patchclose(_, _, _),
          removevalues(_, _), need_value(_, _)

LastJump(fs, list) == IF getjump(fs, list) = NO_JUMP THEN list ELSE LastJump(fs, getjump(fs, list))

\* luaK_concat: the head of the joined list, and the code with the lists linked.
Joined(l1, l2) == IF l1 = NO_JUMP THEN l2 ELSE l1
luaK_concat(fs, l1, l2) ==
    IF l1 = NO_JUMP \/ l2 = NO_JUMP THEN fs ELSE fixjump(fs, LastJump(fs, l1), l2)

luaK_getlabel(fs) == [fs EXCEPT !.lasttarget = pc(fs)]

\* The test that controls a jump, or the jump itself.
getjumpcontrol(fs, j) ==
    IF j > 1 /\ fs.code[j - 1].op \in {"EQ", "LT", "LE", "TEST", "TESTSET"} THEN j - 1 ELSE j
IsTestset(fs, j) == fs.code[getjumpcontrol(fs, j)].op = "TESTSET"

\* patchtestreg, for a jump that IsTestset.
patchtestreg(fs, j, reg) ==
    LET c == getjumpcontrol(fs, j)
        i == fs.code[c]
    IN  IF reg # NO_REG /\ reg # i.B THEN [fs EXCEPT !.code[c].A = reg]
        ELSE [fs EXCEPT !.code[c] = Instruction("TEST", i.B, 0, i.C)]

removevalues(fs, list) ==
    IF list = NO_JUMP THEN fs
    ELSE removevalues(IF IsTestset(fs, list) THEN patchtestreg(fs, list, NO_REG) ELSE fs,
                      getjump(fs, list))

patchlistaux(fs, list, vtarget, reg, dtarget) ==
    IF list = NO_JUMP THEN fs
    ELSE patchlistaux(IF IsTestset(fs, list)
                      THEN fixjump(patchtestreg(fs, list, reg), list, vtarget)
                      ELSE fixjump(fs, list, dtarget),
                      getjump(fs, list), vtarget, reg, dtarget)

need_value(fs, list) ==
    list # NO_JUMP /\ (~IsTestset(fs, list) \/ need_value(fs, getjump(fs, list)))

dischargejpc(fs) ==
    [patchlistaux(fs, fs.jpc, pc(fs), NO_REG, pc(fs)) EXCEPT !.jpc = NO_JUMP]

\* luaK_code, luaK_codeABC and the like.
luaK_codeABC(fs, op, a, b, c) ==
    [dischargejpc(fs) EXCEPT !.code = Append(@, Instruction(op, a, b, c))]

luaK_patchtohere(fs, list) ==
    LET l == luaK_getlabel(fs)
    IN  [luaK_concat(l, l.jpc, list) EXCEPT !.jpc = Joined(l.jpc, list)]

luaK_patchlist(fs, list, target) ==
    IF target = pc(fs) THEN luaK_patchtohere(fs, list)
    ELSE patchlistaux(fs, list, target, NO_REG, target)

luaK_patchclose(fs, list, level) ==
    IF list = NO_JUMP THEN fs
    ELSE luaK_patchclose([fs EXCEPT !.code[list].A = level + 1], getjump(fs, list), level)

\* luaK_jump: the new jump is the last instruction; jumps to it join its list.
luaK_jump(fs) ==
    LET j == luaK_codeABC([fs EXCEPT !.jpc = NO_JUMP], "JMP", 0, NO_JUMP, 0)
    IN  luaK_concat(j, Len(j.code), fs.jpc)

condjump(fs, op, a, b, c) == luaK_jump(luaK_codeABC(fs, op, a, b, c))

\* luaK_ret.
luaK_ret(fs, first, nret) == luaK_codeABC(fs, "RETURN", first, nret + 1, 0)

-----------------------------------------------------------------------------
(* Registers and constants.                                                *)

luaK_checkstack(fs, n) ==
    [fs EXCEPT !.maxstacksize = Max({@, fs.freereg + n}),
               !.err = @ \/ (fs.freereg + n > fs.maxstacksize /\ fs.freereg + n >= MAXREGS)]

luaK_reserveregs(fs, n) == [luaK_checkstack(fs, n) EXCEPT !.freereg = @ + n]

\* fs.ok is what the function asserts: registers are freed in order.
freereg(fs, reg) ==
    IF reg < fs.nactvar THEN fs      \* a local variable, or a constant
    ELSE [fs EXCEPT !.freereg = @ - 1, !.ok = @ /\ reg = fs.freereg - 1]

Free(fs, e) == IF e.k = "VNONRELOC" THEN freereg(fs, e.info) ELSE fs
freeexp(fs) == Free(fs, fs.e)
freeexps(fs, e1, e2) ==
    IF e1.k = "VNONRELOC" /\ e2.k = "VNONRELOC" /\ e1.info > e2.info
    THEN Free(Free(fs, e1), e2) ELSE Free(Free(fs, e2), e1)

\* addk, and the number of a constant that is there.
addk(fs, v) == IF Contains(fs.k, v) THEN fs ELSE [fs EXCEPT !.k = Append(@, v)]
Index(fs, v) == SelectInSeq(fs.k, LAMBDA u : u = v)

\* An expression that is constant v, as luaK_stringK and the others make it.
Constant(fs, v) == LET c == addk(fs, v) IN [c EXCEPT !.e = init_exp("VK", Index(c, v))]

luaK_codek(fs, reg, i) ==
    IF i - 1 <= MAXARG_Bx THEN luaK_codeABC(fs, "LOADK", reg, i, 0)
    ELSE luaK_codeABC(luaK_codeABC(fs, "LOADKX", reg, 0, 0), "EXTRAARG", i, 0, 0)

luaK_nil(fs, from, n) ==
    LET l == from + n - 1
        last == fs.code[Len(fs.code)]
        pl == last.A + last.B
        lo == Min({from, last.A})
    IN  IF /\ pc(fs) > fs.lasttarget /\ last.op = "LOADNIL"
           /\ \/ last.A <= from /\ from <= pl + 1
              \/ from <= last.A /\ last.A <= l + 1
        THEN [fs EXCEPT !.code[Len(fs.code)] = Instruction("LOADNIL", lo, Max({l, pl}) - lo, 0)]
        ELSE luaK_codeABC(fs, "LOADNIL", from, n - 1, 0)

-----------------------------------------------------------------------------
(* From delayed expressions to registers.                                  *)

luaK_setreturns(fs, nresults) ==
    LET i == fs.e.info IN
    CASE fs.e.k = "VCALL" -> [fs EXCEPT !.code[i].C = nresults + 1]
      [] fs.e.k = "VVARARG" ->
           luaK_reserveregs([fs EXCEPT !.code[i].B = nresults + 1, !.code[i].A = fs.freereg], 1)
      [] OTHER -> fs

luaK_setoneret(fs) ==
    CASE fs.e.k = "VCALL" ->
           [fs EXCEPT !.e.k = "VNONRELOC", !.e.info = fs.code[fs.e.info].A]
      [] fs.e.k = "VVARARG" ->
           [fs EXCEPT !.code[fs.e.info].B = 2, !.e.k = "VRELOCABLE"]
      [] OTHER -> fs

Relocable(fs) == [fs EXCEPT !.e.k = "VRELOCABLE", !.e.info = Len(fs.code)]

luaK_dischargevars(fs) ==
    LET e == fs.e IN
    CASE e.k = "VLOCAL" -> [fs EXCEPT !.e.k = "VNONRELOC"]
      [] e.k = "VUPVAL" -> Relocable(luaK_codeABC(fs, "GETUPVAL", 0, e.info, 0))
      [] e.k = "VINDEXED" ->
           LET freed == freereg(fs, e.idx) IN
           Relocable(IF e.vt = "VLOCAL"
                     THEN luaK_codeABC(freereg(freed, e.info), "GETTABLE", 0, e.info, e.idx)
                     ELSE luaK_codeABC(freed, "GETTABUP", 0, e.info, e.idx))
      [] OTHER -> luaK_setoneret(fs)

discharge2reg(fs0, reg) ==
    LET fs == luaK_dischargevars(fs0)
        e == fs.e
        there ==
          CASE e.k = "VNIL" -> luaK_nil(fs, reg, 1)
            [] e.k = "VTRUE" -> luaK_codeABC(fs, "LOADBOOL", reg, 1, 0)
            [] e.k = "VFALSE" -> luaK_codeABC(fs, "LOADBOOL", reg, 0, 0)
            [] e.k = "VK" -> luaK_codek(fs, reg, e.info)
            [] e.k = "VKINT" ->
                 LET c == addk(fs, Number(e.info)) IN luaK_codek(c, reg, Index(c, Number(e.info)))
            [] e.k = "VRELOCABLE" -> [fs EXCEPT !.code[e.info].A = reg]
            [] e.k = "VNONRELOC" /\ reg # e.info -> luaK_codeABC(fs, "MOVE", reg, e.info, 0)
            [] OTHER -> fs
    IN  IF e.k = "VJMP" THEN fs ELSE [there EXCEPT !.e.k = "VNONRELOC", !.e.info = reg]

discharge2anyreg(fs) ==
    IF fs.e.k = "VNONRELOC" THEN fs
    ELSE LET r == luaK_reserveregs(fs, 1) IN discharge2reg(r, r.freereg - 1)

code_loadbool(fs, reg, b, jump) == luaK_codeABC(luaK_getlabel(fs), "LOADBOOL", reg, b, jump)

exp2reg(fs0, reg) ==
    LET d == discharge2reg(fs0, reg)
        isjump == d.e.k = "VJMP"
        fs == IF isjump THEN [luaK_concat(d, d.e.t, d.e.info) EXCEPT !.e.t = Joined(@, d.e.info)]
              ELSE d
        loads == need_value(fs, fs.e.t) \/ need_value(fs, fs.e.f)
        skip == IF isjump THEN fs ELSE luaK_jump(fs)
        no == code_loadbool(skip, reg, 0, 1)
        yes == code_loadbool(no, reg, 1, 0)
        here == luaK_patchtohere(yes, IF isjump THEN NO_JUMP ELSE Len(skip.code))
        end == luaK_getlabel(IF loads THEN here ELSE fs)
        p_f == IF loads THEN Len(no.code) ELSE NO_JUMP
        p_t == IF loads THEN Len(yes.code) ELSE NO_JUMP
        false == patchlistaux(end, fs.e.f, pc(end), reg, p_f)
        true == patchlistaux(false, fs.e.t, pc(end), reg, p_t)
    IN  [IF hasjumps(fs.e) THEN true ELSE fs EXCEPT !.e = init_exp("VNONRELOC", reg)]

luaK_exp2nextreg(fs) ==
    LET r == luaK_reserveregs(freeexp(luaK_dischargevars(fs)), 1) IN exp2reg(r, r.freereg - 1)

luaK_exp2anyreg(fs0) ==
    LET fs == luaK_dischargevars(fs0) IN
    IF fs.e.k = "VNONRELOC" /\ ~hasjumps(fs.e) THEN fs
    ELSE IF fs.e.k = "VNONRELOC" /\ fs.e.info >= fs.nactvar THEN exp2reg(fs, fs.e.info)
    ELSE luaK_exp2nextreg(fs)

luaK_exp2anyregup(fs) ==
    IF fs.e.k # "VUPVAL" \/ hasjumps(fs.e) THEN luaK_exp2anyreg(fs) ELSE fs

luaK_exp2val(fs) == IF hasjumps(fs.e) THEN luaK_exp2anyreg(fs) ELSE luaK_dischargevars(fs)

\* luaK_exp2RK, and the operand it returns.
luaK_exp2RK(fs0) ==
    LET fs == luaK_exp2val(fs0)
        c == CASE fs.e.k = "VTRUE" -> Constant(fs, Bool(TRUE))
               [] fs.e.k = "VFALSE" -> Constant(fs, Bool(FALSE))
               [] fs.e.k = "VNIL" -> Constant(fs, Nil)
               [] fs.e.k = "VKINT" -> Constant(fs, Number(fs.e.info))
               [] OTHER -> fs
    IN  IF c.e.k = "VK" /\ c.e.info - 1 <= MAXINDEXRK THEN c ELSE luaK_exp2anyreg(c)
RK(e) == IF e.k = "VK" THEN -e.info ELSE e.info

\* fs.e is stored in variable var.
luaK_storevar(fs, var) ==
    CASE var.k = "VLOCAL" -> exp2reg(freeexp(fs), var.info)
      [] var.k = "VUPVAL" ->
           LET r == luaK_exp2anyreg(fs)
           IN  freeexp(luaK_codeABC(r, "SETUPVAL", r.e.info, var.info, 0))
      [] var.k = "VINDEXED" ->
           LET r == luaK_exp2RK(fs)
               op == IF var.vt = "VLOCAL" THEN "SETTABLE" ELSE "SETTABUP"
           IN  freeexp(luaK_codeABC(r, op, var.info, var.idx, RK(r.e)))

\* The key is string s.
luaK_self(fs, s) ==
    LET a == luaK_exp2anyreg(fs)
        b == freeexp(a)
        self == init_exp("VNONRELOC", b.freereg)
        k == luaK_exp2RK(Constant(luaK_reserveregs(b, 2), String(s)))
        c == luaK_codeABC(k, "SELF", self.info, a.e.info, RK(k.e))
    IN  [freeexp(c) EXCEPT !.e = self]

\* fs.e is the key of t.
luaK_indexed(fs, t) ==
    LET k == luaK_exp2RK(fs) IN
    [k EXCEPT !.e = [t EXCEPT !.k = "VINDEXED", !.idx = RK(k.e),
                              !.vt = IF t.k = "VUPVAL" THEN "VUPVAL" ELSE "VLOCAL"]]

luaK_setlist(fs, base, nelems, tostore) ==
    [luaK_codeABC(fs, "SETLIST", base, IF tostore = LUA_MULTRET THEN 0 ELSE tostore,
                  (nelems - 1) \div LFIELDS_PER_FLUSH + 1)
     EXCEPT !.freereg = base + 1]

-----------------------------------------------------------------------------
(* Conditions.                                                             *)

negatecondition(fs) == [fs EXCEPT !.code[getjumpcontrol(fs, fs.e.info)].A = 1 - @]

\* The jump is the last instruction.
jumponcond(fs, cond) ==
    IF fs.e.k = "VRELOCABLE" /\ fs.code[fs.e.info].op = "NOT"
    THEN condjump([fs EXCEPT !.code = Front(@)], "TEST", fs.code[fs.e.info].B, 0, 1 - cond)
    ELSE LET d == freeexp(discharge2anyreg(fs))
         IN  condjump(d, "TESTSET", NO_REG, d.e.info, cond)

luaK_goiftrue(fs0) ==
    LET fs == luaK_dischargevars(fs0)
        always == fs.e.k \in {"VK", "VKINT", "VTRUE"}
        j == IF fs.e.k = "VJMP" THEN negatecondition(fs)
             ELSE IF always THEN fs ELSE jumponcond(fs, 0)
        new == IF fs.e.k = "VJMP" THEN fs.e.info
               ELSE IF always THEN NO_JUMP ELSE Len(j.code)
        p == luaK_patchtohere(luaK_concat(j, j.e.f, new), j.e.t)
    IN  [p EXCEPT !.e.f = Joined(@, new), !.e.t = NO_JUMP]

luaK_goiffalse(fs0) ==
    LET fs == luaK_dischargevars(fs0)
        never == fs.e.k \in {"VNIL", "VFALSE"}
        j == IF fs.e.k = "VJMP" \/ never THEN fs ELSE jumponcond(fs, 1)
        new == IF fs.e.k = "VJMP" THEN fs.e.info
               ELSE IF never THEN NO_JUMP ELSE Len(j.code)
        p == luaK_patchtohere(luaK_concat(j, j.e.t, new), j.e.f)
    IN  [p EXCEPT !.e.t = Joined(@, new), !.e.f = NO_JUMP]

\* codenot.
codenot(fs0) ==
    LET fs == luaK_dischargevars(fs0)
        d == freeexp(discharge2anyreg(fs))
        n == CASE fs.e.k \in {"VNIL", "VFALSE"} -> [fs EXCEPT !.e.k = "VTRUE"]
               [] fs.e.k \in {"VK", "VKINT", "VTRUE"} -> [fs EXCEPT !.e.k = "VFALSE"]
               [] fs.e.k = "VJMP" -> negatecondition(fs)
               [] OTHER -> Relocable(luaK_codeABC(d, "NOT", 0, d.e.info, 0))
    IN  [removevalues(removevalues(n, n.e.t), n.e.f) EXCEPT !.e.t = n.e.f, !.e.f = n.e.t]

-----------------------------------------------------------------------------
(* Operators.                                                              *)

\* constfolding, and whether it succeeds.
CanFold(op, e1, e2) ==
    tonumeral(e1) /\ tonumeral(e2) /\ (op \in {"IDIV", "MOD"} => e2.info # 0)

codebinexpval(fs, op, e1) ==
    LET a == luaK_exp2RK([fs EXCEPT !.e = e1])
        b == luaK_exp2RK([a EXCEPT !.e = fs.e])
    IN  Relocable([luaK_codeABC(freeexps(b, a.e, b.e), op, 0, RK(a.e), RK(b.e))
                   EXCEPT !.e = a.e])

\* Comparisons: e1 is an operand already.
codecomp(fs, op, e1) ==
    LET b == luaK_exp2RK(fs)
        f == freeexps(b, e1, b.e)
        j == CASE op = "NE" -> condjump(f, "EQ", 0, RK(e1), RK(b.e))
               [] op = "GT" -> condjump(f, "LT", 1, RK(b.e), RK(e1))
               [] op = "GE" -> condjump(f, "LE", 1, RK(b.e), RK(e1))
               [] OTHER -> condjump(f, op, 1, RK(e1), RK(b.e))
    IN  [j EXCEPT !.e = [e1 EXCEPT !.k = "VJMP", !.info = Len(j.code)]]

luaK_prefix(fs, op) ==
    IF op = "NOT" THEN codenot(fs)
    ELSE IF op = "UNM" /\ tonumeral(fs.e) THEN [fs EXCEPT !.e.info = -@]
    ELSE LET r == luaK_exp2anyreg(fs) IN Relocable(luaK_codeABC(freeexp(r), op, 0, r.e.info, 0))

ArithOps == {"ADD", "SUB", "MUL", "IDIV", "MOD"}

luaK_infix(fs, op) ==
    CASE op = "AND" -> luaK_goiftrue(fs)
      [] op = "OR" -> luaK_goiffalse(fs)
      [] op = "CONCAT" -> luaK_exp2nextreg(fs)
      [] op \in ArithOps /\ tonumeral(fs.e) -> fs
      [] OTHER -> luaK_exp2RK(fs)

\* fs.e is the second operand.
luaK_posfix(fs, op, e1) ==
    LET d == luaK_dischargevars(fs)
        v == luaK_exp2val(fs)
    IN  CASE op = "AND" -> [luaK_concat(d, d.e.f, e1.f) EXCEPT !.e.f = Joined(@, e1.f)]
          [] op = "OR" -> [luaK_concat(d, d.e.t, e1.t) EXCEPT !.e.t = Joined(@, e1.t)]
          [] op = "CONCAT" ->
               IF v.e.k = "VRELOCABLE" /\ v.code[v.e.info].op = "CONCAT"
               THEN [Free(v, e1) EXCEPT !.code[v.e.info].B = e1.info]
               ELSE codebinexpval(luaK_exp2nextreg(v), "CONCAT", e1)
          [] op \in ArithOps ->
               IF CanFold(op, e1, fs.e)
               THEN [fs EXCEPT !.e = [e1 EXCEPT !.info = Arith(op, @, fs.e.info)]]
               ELSE codebinexpval(fs, op, e1)
          [] OTHER -> codecomp(fs, op, e1)
=============================================================================
