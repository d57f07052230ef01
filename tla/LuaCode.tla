------------------------------- MODULE LuaCode -------------------------------
(* lcode.c: the code generator.  A function under compilation is a record:
     code: its instructions, k: its constants, p: its functions, locvars: its
     local variables, actvar: the declared ones, nactvar: how many of them are
     active, ups: its upvalues, bl: its open blocks, lasttarget: the last
     position known as a target of a jump, jpc: the list of jumps to the next
     instruction, freereg, maxstack, numparams, is_vararg,
     ok: no assertion has failed, err: an error has been raised.
   An operator gives the changed record, with the expression descriptor that it
   leaves to its caller in e, and the list of jumps it leaves in l.  A value is a
   pair of its type and itself; that is what info of a VKNUM holds, too. *)
EXTENDS LuaOpcodes, SequencesExt

Nil == <<"nil", 0>>
Bool(b) == <<"boolean", b>>
Num(n) == <<"number", n>>
Str(s) == <<"string", s>>

Exp(k, info) == [k |-> k, info |-> info, aux |-> 0, t |-> NO_JUMP, f |-> NO_JUMP]

pc(fs) == Len(fs.code)
At(fs, n) == fs.code[n + 1]
getcode(fs, e) == At(fs, e.info)
Give(fs, e) == [fs EXCEPT !.e = e]
Affirm(fs, holds) == [fs EXCEPT !.ok = @ /\ holds]
SetA(fs, n, a) == [fs EXCEPT !.code[n + 1].a = a]
SetB(fs, n, b) == [fs EXCEPT !.code[n + 1].b = b]
SetC(fs, n, c) == [fs EXCEPT !.code[n + 1].c = c]

hasjumps(e) == e.t # e.f
isnumeral(e) == e.k = "VKNUM" /\ e.t = NO_JUMP /\ e.f = NO_JUMP

------------------------------------------------------------------------------
(* Lists of jumps, threaded through the jumps themselves *)

getjump(fs, n) ==
  LET offset == At(fs, n).b IN
    IF offset = NO_JUMP THEN NO_JUMP ELSE n + 1 + offset

RECURSIVE Jumps(_, _)
Jumps(fs, list) ==
  IF list = NO_JUMP THEN <<>> ELSE <<list>> \o Jumps(fs, getjump(fs, list))

(* The test that decides a jump, if it is a conditional one. *)
getjumpcontrol(fs, n) ==
  IF n >= 1 /\ At(fs, n - 1).op \in testTMode THEN n - 1 ELSE n

fixjump(fs, n, dest) ==
  Affirm(SetB(fs, n, dest - (n + 1)), dest # NO_JUMP)

luaK_concat(fs, l1, l2) ==
  IF l2 = NO_JUMP THEN [fs EXCEPT !.l = l1]
  ELSE IF l1 = NO_JUMP THEN [fs EXCEPT !.l = l2]
  ELSE [fixjump(fs, Last(Jumps(fs, l1)), l2) EXCEPT !.l = l1]

need_value(fs, list) ==
  \E n \in Range(Jumps(fs, list)) : At(fs, getjumpcontrol(fs, n)).op # "TESTSET"

IsTestset(fs, n) == At(fs, getjumpcontrol(fs, n)).op = "TESTSET"

patchtestreg(fs, n, reg) ==
  LET c == getjumpcontrol(fs, n)
      i == At(fs, c)
  IN IF i.op # "TESTSET" THEN fs
     ELSE IF reg # NO_REG /\ reg # i.b THEN SetA(fs, c, reg)
     ELSE [fs EXCEPT !.code[c + 1] = Instr("TEST", i.b, 0, i.c)]

removevalues(fs, list) ==
  FoldLeft(LAMBDA g, n : patchtestreg(g, n, NO_REG), fs, Jumps(fs, list))

patchlistaux(fs, list, vtarget, reg, dtarget) ==
  FoldLeft(LAMBDA g, n : fixjump(patchtestreg(g, n, reg), n,
                                 IF IsTestset(g, n) THEN vtarget ELSE dtarget),
           fs, Jumps(fs, list))

luaK_getlabel(fs) == [fs EXCEPT !.lasttarget = pc(fs)]

luaK_patchtohere(fs, list) ==
  LET g == luaK_concat(luaK_getlabel(fs), fs.jpc, list) IN [g EXCEPT !.jpc = g.l]

luaK_patchlist(fs, list, target) ==
  IF target = pc(fs) THEN luaK_patchtohere(fs, list)
  ELSE Affirm(patchlistaux(fs, list, target, NO_REG, target), target < pc(fs))

dischargejpc(fs) ==
  [patchlistaux(fs, fs.jpc, pc(fs), NO_REG, pc(fs)) EXCEPT !.jpc = NO_JUMP]

------------------------------------------------------------------------------
(* Instructions *)

luaK_code(fs, i) ==
  LET g == dischargejpc(fs) IN [g EXCEPT !.code = Append(@, i)]

luaK_codeABC(fs, op, a, b, c) ==
  Affirm(luaK_code(fs, Instr(op, a, b, c)),
         /\ op \notin iABx \cup iAsBx
         /\ BMode(op) # "N" \/ b = 0
         /\ CMode(op) # "N" \/ c = 0)

luaK_codeABx(fs, op, a, bx) ==
  Affirm(luaK_code(fs, Instr(op, a, bx, 0)), op \in iABx \cup iAsBx /\ CMode(op) = "N")

(* Jumps to a jump wait with it. *)
luaK_jump(fs) ==
  LET g == luaK_codeABx([fs EXCEPT !.jpc = NO_JUMP], "JMP", 0, NO_JUMP)
  IN luaK_concat(g, pc(g) - 1, fs.jpc)

luaK_ret(fs, first, nret) == luaK_codeABC(fs, "RETURN", first, nret + 1, 0)

condjump(fs, op, a, b, c) == luaK_jump(luaK_codeABC(fs, op, a, b, c))

(* An assignment of nil goes into the one before, unless a jump comes between. *)
luaK_nil_AnyPlace(fs, from, n) ==
  LET prev == At(fs, pc(fs) - 1) IN
    IF pc(fs) > 0 /\ prev.op = "LOADNIL" /\ prev.a <= from /\ from <= prev.b + 1
    THEN IF from + n - 1 > prev.b THEN SetB(fs, pc(fs) - 1, from + n - 1) ELSE fs
    ELSE luaK_codeABC(fs, "LOADNIL", from, from + n - 1, 0)

luaK_nil(fs, from, n) ==
  LET prev == At(fs, pc(fs) - 1) IN
    IF pc(fs) > fs.lasttarget /\ pc(fs) = 0 /\ from >= fs.nactvar THEN fs
    ELSE IF /\ pc(fs) > fs.lasttarget /\ pc(fs) > 0
            /\ prev.op = "LOADNIL" /\ prev.a <= from /\ from <= prev.b + 1
    THEN IF from + n - 1 > prev.b THEN SetB(fs, pc(fs) - 1, from + n - 1) ELSE fs
    ELSE luaK_codeABC(fs, "LOADNIL", from, from + n - 1, 0)

(* The values of a constructor, in batches; the number of a late batch follows
   the instruction as a plain word. *)
luaK_setlist(fs, base, nelems, tostore) ==
  LET c == (nelems - 1) \div FieldsPerFlush + 1
      b == IF tostore = LUA_MULTRET THEN 0 ELSE tostore
      g == IF c <= MaxArgC THEN luaK_codeABC(fs, "SETLIST", base, b, c)
           ELSE luaK_code(luaK_codeABC(fs, "SETLIST", base, b, 0), Word(c))
  IN Affirm([g EXCEPT !.freereg = base + 1], tostore # 0)

------------------------------------------------------------------------------
(* Registers and constants *)

luaK_checkstack(fs, n) ==
  LET newstack == fs.freereg + n IN
    IF newstack <= fs.maxstack THEN fs
    ELSE [fs EXCEPT !.maxstack = newstack, !.err = @ \/ newstack >= MaxStack]

luaK_reserveregs(fs, n) == [luaK_checkstack(fs, n) EXCEPT !.freereg = @ + n]

freereg(fs, reg) ==
  IF ISK(reg) \/ reg < fs.nactvar THEN fs
  ELSE Affirm([fs EXCEPT !.freereg = @ - 1], reg = fs.freereg - 1)

freeexp(fs, e) == IF e.k = "VNONRELOC" THEN freereg(fs, e.info) ELSE fs

(* The index of a constant is left in l. *)
addk(fs, v) ==
  LET same == {i \in DOMAIN fs.k : fs.k[i] = v} IN
    IF same # {} THEN [fs EXCEPT !.l = (CHOOSE i \in same : TRUE) - 1]
    ELSE [fs EXCEPT !.k = Append(@, v), !.l = Len(fs.k)]

luaK_setreturns(fs, e, nresults) ==
  CASE e.k = "VCALL"   -> SetC(fs, e.info, nresults + 1)
    [] e.k = "VVARARG" -> luaK_reserveregs(SetA(SetB(fs, e.info, nresults + 1),
                                                e.info, fs.freereg), 1)
    [] OTHER           -> fs

luaK_setmultret(fs, e) == luaK_setreturns(fs, e, LUA_MULTRET)

luaK_setoneret(fs, e) ==
  CASE e.k = "VCALL"   -> Give(fs, [e EXCEPT !.k = "VNONRELOC", !.info = getcode(fs, e).a])
    [] e.k = "VVARARG" -> Give(SetB(fs, e.info, 2), [e EXCEPT !.k = "VRELOCABLE"])
    [] OTHER           -> Give(fs, e)

------------------------------------------------------------------------------
(* From a descriptor to a value in a register *)

(* The result of the last instruction, whose register is open. *)
Relocable(fs, e) == Give(fs, [e EXCEPT !.k = "VRELOCABLE", !.info = pc(fs) - 1])

luaK_dischargevars(fs, e) ==
  CASE e.k = "VLOCAL"   -> Give(fs, [e EXCEPT !.k = "VNONRELOC"])
    [] e.k = "VUPVAL"   -> Relocable(luaK_codeABC(fs, "GETUPVAL", 0, e.info, 0), e)
    [] e.k = "VGLOBAL"  -> Relocable(luaK_codeABx(fs, "GETGLOBAL", 0, e.info), e)
    [] e.k = "VINDEXED" -> Relocable(luaK_codeABC(freereg(freereg(fs, e.aux), e.info),
                                                  "GETTABLE", 0, e.info, e.aux), e)
    [] OTHER            -> luaK_setoneret(fs, e)

Held(fs, e, reg) == Give(fs, [e EXCEPT !.k = "VNONRELOC", !.info = reg])

discharge2reg(fs0, e0, reg) ==
  LET fs == luaK_dischargevars(fs0, e0)
      e  == fs.e
      n  == addk(fs, e.info)
  IN CASE e.k = "VNIL"       -> Held(luaK_nil(fs, reg, 1), e, reg)
       [] e.k \in {"VFALSE", "VTRUE"} ->
            Held(luaK_codeABC(fs, "LOADBOOL", reg, IF e.k = "VTRUE" THEN 1 ELSE 0, 0), e, reg)
       [] e.k = "VK"         -> Held(luaK_codeABx(fs, "LOADK", reg, e.info), e, reg)
       [] e.k = "VKNUM"      -> Held(luaK_codeABx(n, "LOADK", reg, n.l), e, reg)
       [] e.k = "VRELOCABLE" -> Held(SetA(fs, e.info, reg), e, reg)
       [] e.k = "VNONRELOC"  ->
            Held(IF reg = e.info THEN fs ELSE luaK_codeABC(fs, "MOVE", reg, e.info, 0), e, reg)
       [] OTHER              -> Affirm(fs, e.k \in {"VVOID", "VJMP"})

discharge2anyreg(fs, e) ==
  IF e.k = "VNONRELOC" THEN Give(fs, e)
  ELSE LET g == luaK_reserveregs(fs, 1) IN discharge2reg(g, e, g.freereg - 1)

code_label(fs, a, b, jump) == luaK_codeABC(luaK_getlabel(fs), "LOADBOOL", a, b, jump)

(* Jumps that bring no value get one from a pair of LOADBOOL. *)
exp2reg(fs0, e0, reg) ==
  LET d  == discharge2reg(fs0, e0, reg)
      j  == luaK_concat(d, d.e.t, d.e.info)
      fs == IF d.e.k = "VJMP" THEN j ELSE d
      e  == IF d.e.k = "VJMP" THEN [d.e EXCEPT !.t = j.l] ELSE d.e
      needs == need_value(fs, e.t) \/ need_value(fs, e.f)
      fj == IF e.k = "VJMP" THEN [fs EXCEPT !.l = NO_JUMP] ELSE luaK_jump(fs)
      lf == code_label(fj, reg, 0, 1)
      lt == code_label(lf, reg, 1, 0)
      loaded == IF needs THEN luaK_patchtohere(lt, fj.l) ELSE fs
      p_f == IF needs THEN pc(lf) - 1 ELSE NO_JUMP
      p_t == IF needs THEN pc(lt) - 1 ELSE NO_JUMP
      final == luaK_getlabel(loaded)
      patched == patchlistaux(patchlistaux(final, e.f, pc(final), reg, p_f),
                              e.t, pc(final), reg, p_t)
  IN Held(IF hasjumps(e) THEN patched ELSE fs, [e EXCEPT !.t = NO_JUMP, !.f = NO_JUMP], reg)

luaK_exp2nextreg(fs, e) ==
  LET d == luaK_dischargevars(fs, e)
      g == luaK_reserveregs(freeexp(d, d.e), 1)
  IN exp2reg(g, d.e, g.freereg - 1)

luaK_exp2anyreg(fs, e) ==
  LET d == luaK_dischargevars(fs, e) IN
    IF d.e.k = "VNONRELOC" /\ ~hasjumps(d.e) THEN d
    ELSE IF d.e.k = "VNONRELOC" /\ d.e.info >= d.nactvar THEN exp2reg(d, d.e, d.e.info)
    ELSE luaK_exp2nextreg(d, d.e)

luaK_exp2val(fs, e) ==
  IF hasjumps(e) THEN luaK_exp2anyreg(fs, e) ELSE luaK_dischargevars(fs, e)

(* An operand: a register, or a constant with a small index. *)
RK(e) == IF e.k = "VK" THEN RKASK(e.info) ELSE e.info

AsConstant(e) ==
  CASE e.k = "VKNUM"  -> e.info
    [] e.k = "VTRUE"  -> Bool(TRUE)
    [] e.k = "VFALSE" -> Bool(FALSE)
    [] e.k = "VNIL"   -> Nil

luaK_exp2RK(fs, e) ==
  LET v == luaK_exp2val(fs, e)
      n == addk(v, AsConstant(v.e))
  IN CASE v.e.k \in {"VKNUM", "VTRUE", "VFALSE", "VNIL"} /\ Len(v.k) <= MaxIndexRK ->
            Give(n, [v.e EXCEPT !.k = "VK", !.info = n.l])
       [] v.e.k = "VK" /\ v.e.info <= MaxIndexRK -> v
       [] OTHER -> luaK_exp2anyreg(v, v.e)

luaK_storevar(fs, var, ex) ==
  LET any == luaK_exp2anyreg(fs, ex)
      rk  == luaK_exp2RK(fs, ex)
  IN CASE var.k = "VLOCAL"   -> exp2reg(freeexp(fs, ex), ex, var.info)
       [] var.k = "VUPVAL"   ->
            freeexp(luaK_codeABC(any, "SETUPVAL", any.e.info, var.info, 0), any.e)
       [] var.k = "VGLOBAL"  ->
            freeexp(luaK_codeABx(any, "SETGLOBAL", any.e.info, var.info), any.e)
       [] var.k = "VINDEXED" ->
            freeexp(luaK_codeABC(rk, "SETTABLE", var.info, var.aux, RK(rk.e)), rk.e)
       [] OTHER              -> Affirm(fs, FALSE)

luaK_self(fs, e, key) ==
  LET a == luaK_exp2anyreg(fs, e)
      g == luaK_reserveregs(freeexp(a, a.e), 2)
      func == g.freereg - 2
      r == luaK_exp2RK(g, key)
  IN Held(freeexp(luaK_codeABC(r, "SELF", func, a.e.info, RK(r.e)), r.e), a.e, func)

luaK_indexed(fs, t, key) ==
  LET r == luaK_exp2RK(fs, key) IN
    Give(r, [t EXCEPT !.k = "VINDEXED", !.aux = RK(r.e)])

------------------------------------------------------------------------------
(* Conditions *)

invertjump(fs, e) ==
  LET c == getjumpcontrol(fs, e.info) IN
    Affirm(SetA(fs, c, 1 - At(fs, c).a),
           At(fs, c).op \in testTMode \ {"TESTSET", "TEST"})

jumponcond(fs, e, cond) ==
  LET ie == getcode(fs, e)
      removed == [fs EXCEPT !.code = Front(@)]
      g == discharge2anyreg(fs, e)
  IN IF e.k = "VRELOCABLE" /\ ie.op = "NOT"
     THEN condjump(removed, "TEST", ie.b, 0, 1 - cond)
     ELSE condjump(freeexp(g, g.e), "TESTSET", NO_REG, g.e.info, cond)

(* Go on if the value is what `always' says or not known; the jump that leaves
   otherwise is left in l. *)
Leave(fs, e, always, inverts, cond) ==
  CASE e.k \in always -> [fs EXCEPT !.l = NO_JUMP]
    [] e.k = "VJMP"   -> [(IF inverts THEN invertjump(fs, e) ELSE fs) EXCEPT !.l = e.info]
    [] OTHER          -> jumponcond(fs, e, cond)

luaK_goiftrue(fs, e) ==
  LET d == luaK_dischargevars(fs, e)
      j == Leave(d, d.e, {"VK", "VKNUM", "VTRUE"}, TRUE, 0)
      g == luaK_concat(j, d.e.f, j.l)
  IN Give(luaK_patchtohere(g, d.e.t), [d.e EXCEPT !.f = g.l, !.t = NO_JUMP])

luaK_goiffalse(fs, e) ==
  LET d == luaK_dischargevars(fs, e)
      j == Leave(d, d.e, {"VNIL", "VFALSE"}, FALSE, 1)
      g == luaK_concat(j, d.e.t, j.l)
  IN Give(luaK_patchtohere(g, d.e.f), [d.e EXCEPT !.t = g.l, !.f = NO_JUMP])

codenot(fs, e0) ==
  LET d == luaK_dischargevars(fs, e0)
      e == d.e
      r == discharge2anyreg(d, e)
      n == CASE e.k \in {"VNIL", "VFALSE"} -> Give(d, [e EXCEPT !.k = "VTRUE"])
             [] e.k \in {"VK", "VKNUM", "VTRUE"} -> Give(d, [e EXCEPT !.k = "VFALSE"])
             [] e.k = "VJMP" -> Give(invertjump(d, e), e)
             [] e.k \in {"VRELOCABLE", "VNONRELOC"} ->
                  Relocable(luaK_codeABC(freeexp(r, r.e), "NOT", 0, r.e.info, 0), r.e)
             [] OTHER -> Affirm(d, FALSE)
  IN Give(removevalues(removevalues(n, n.e.t), n.e.f), [n.e EXCEPT !.t = n.e.f, !.f = n.e.t])

------------------------------------------------------------------------------
(* Operators *)

RECURSIVE Power(_, _)
Power(x, n) == IF n = 0 THEN 1 ELSE x * Power(x, n - 1)

(* The arithmetic of the virtual machine, on the numbers the model has. *)
Calculated(op, x, y) ==
  CASE op = "ADD" -> x + y
    [] op = "SUB" -> x - y
    [] op = "MUL" -> x * y
    [] op = "DIV" -> x \div y
    [] op = "MOD" -> x % y
    [] op = "POW" -> Power(x, y)
    [] op = "UNM" -> -x

Folds(op, e1, e2) ==
  /\ isnumeral(e1) /\ isnumeral(e2)
  /\ op \in Arithmetic \cup {"UNM"}
  /\ op \in {"DIV", "MOD"} => e2.info # Num(0)

codearith(fs, op, e1, e2) ==
  LET two == op \notin {"UNM", "LEN"}
      b  == IF two THEN luaK_exp2RK(fs, e2) ELSE Give(fs, e2)
      o2 == IF two THEN RK(b.e) ELSE 0
      a  == luaK_exp2RK(b, e1)
      o1 == RK(a.e)
      g  == IF o1 > o2 THEN freeexp(freeexp(a, a.e), b.e) ELSE freeexp(freeexp(a, b.e), a.e)
  IN IF Folds(op, e1, e2)
     THEN Give(fs, [e1 EXCEPT !.info = Num(Calculated(op, e1.info[2], e2.info[2]))])
     ELSE Relocable(luaK_codeABC(g, op, 0, o1, o2), a.e)

codecomp(fs, op, cond, e1, e2) ==
  LET a == luaK_exp2RK(fs, e1)
      b == luaK_exp2RK(a, e2)
      g == freeexp(freeexp(b, b.e), a.e)
      j == IF cond = 0 /\ op # "EQ" THEN condjump(g, op, 1, RK(b.e), RK(a.e))
           ELSE condjump(g, op, cond, RK(a.e), RK(b.e))
  IN Give(j, [a.e EXCEPT !.k = "VJMP", !.info = j.l])

luaK_prefix(fs, op, e) ==
  LET zero == Exp("VKNUM", Num(0))
      any  == luaK_exp2anyreg(fs, e)
  IN CASE op = "not" -> codenot(fs, e)
       [] op = "-"   -> IF isnumeral(e) THEN codearith(fs, "UNM", e, zero)
                        ELSE codearith(any, "UNM", any.e, zero)
       [] op = "#"   -> codearith(any, "LEN", any.e, zero)

ArithOp == [op \in {"+", "-", "*", "/", "%", "^"} |->
              CASE op = "+" -> "ADD" [] op = "-" -> "SUB" [] op = "*" -> "MUL"
                [] op = "/" -> "DIV" [] op = "%" -> "MOD" [] op = "^" -> "POW"]

luaK_infix(fs, op, v) ==
  CASE op = "and" -> luaK_goiftrue(fs, v)
    [] op = "or"  -> luaK_goiffalse(fs, v)
    [] op = ".."  -> luaK_exp2nextreg(fs, v)
    [] op \in DOMAIN ArithOp -> IF isnumeral(v) THEN Give(fs, v) ELSE luaK_exp2RK(fs, v)
    [] OTHER      -> luaK_exp2RK(fs, v)

(* A chain of concatenations is one instruction on a range of registers. *)
Concatenation(fs, e1, e2) ==
  LET v == luaK_exp2val(fs, e2)
      i == getcode(v, v.e)
      n == luaK_exp2nextreg(v, v.e)
  IN IF v.e.k = "VRELOCABLE" /\ i.op = "CONCAT"
     THEN Give(Affirm(SetB(freeexp(v, e1), v.e.info, e1.info), e1.info = i.b - 1),
               [e1 EXCEPT !.k = "VRELOCABLE", !.info = v.e.info])
     ELSE codearith(n, "CONCAT", e1, n.e)

luaK_posfix(fs, op, e1, e2) ==
  LET d == luaK_dischargevars(fs, e2)
      f == luaK_concat(d, d.e.f, e1.f)
      t == luaK_concat(d, d.e.t, e1.t)
  IN CASE op = "and" -> Affirm(Give(f, [d.e EXCEPT !.f = f.l]), e1.t = NO_JUMP)
       [] op = "or"  -> Affirm(Give(t, [d.e EXCEPT !.t = t.l]), e1.f = NO_JUMP)
       [] op = ".."  -> Concatenation(fs, e1, e2)
       [] op \in DOMAIN ArithOp -> codearith(fs, ArithOp[op], e1, e2)
       [] op = "==" -> codecomp(fs, "EQ", 1, e1, e2)
       [] op = "~=" -> codecomp(fs, "EQ", 0, e1, e2)
       [] op = "<"  -> codecomp(fs, "LT", 1, e1, e2)
       [] op = "<=" -> codecomp(fs, "LE", 1, e1, e2)
       [] op = ">"  -> codecomp(fs, "LT", 0, e1, e2)
       [] op = ">=" -> codecomp(fs, "LE", 0, e1, e2)

==============================================================================
