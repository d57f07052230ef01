-------------------------------- MODULE Parser --------------------------------
(***************************************************************************)
(* lparser.c: one pass over the tokens of a chunk, which emits the code of *)
(* its functions while it reads.                                           *)
(*                                                                         *)
(* A token is its kind and its value.  The state of the parser holds the   *)
(* tokens and the position of the current one, the function that it is in  *)
(* (fs), the functions around it (prev) and the level of nesting.  An      *)
(* expression leaves its descriptor in fs.e.  After an error the rest of   *)
(* the chunk is skipped.  Lines are left out.                              *)
(***************************************************************************)
EXTENDS LuaCode, Verifier

CONSTANTS MaxVars,          \* LUAI_MAXVARS, 200 in the source
          MaxUpvalues,      \* LUAI_MAXUPVALUES, 60 in the source
          MaxCCalls         \* LUAI_MAXCCALLS, 200 in the source

Code(ls, fs) == [ls EXCEPT !.fs = fs]
tok(ls) == ls.toks[ls.at][1]
seminfo(ls) == ls.toks[ls.at][2]

luaX_next(ls) == IF ls.at < Len(ls.toks) THEN [ls EXCEPT !.at = @ + 1] ELSE ls
luaX_syntaxerror(ls) == [ls EXCEPT !.at = Len(ls.toks), !.fs.err = TRUE]

luaY_checklimit(fs, n, limit) == [fs EXCEPT !.err = @ \/ n > limit]

testnext(ls, c) == IF tok(ls) = c THEN luaX_next(ls) ELSE ls
checknext(ls, c) == IF tok(ls) = c THEN luaX_next(ls) ELSE luaX_syntaxerror(ls)

enterlevel(ls) ==
  [ls EXCEPT !.level = @ + 1, !.fs = luaY_checklimit(@, ls.level + 1, MaxCCalls)]
leavelevel(ls) == [ls EXCEPT !.level = @ - 1]

luaK_stringK(fs, s) == addk(fs, Str(s))

codestring(ls, s) ==
  LET g == luaK_stringK(ls.fs, s) IN Code(ls, Give(g, Exp("VK", g.l)))

(* The name is used before the parser goes on: `use' is the state after that. *)
WithName(ls, used) == IF tok(ls) = "name" THEN luaX_next(used) ELSE luaX_syntaxerror(ls)

checkname(ls) == WithName(ls, codestring(ls, seminfo(ls)))

------------------------------------------------------------------------------
(* Variables *)

registerlocalvar(fs, varname) ==
  [fs EXCEPT !.locvars = Append(@, [name |-> varname, startpc |-> 0, endpc |-> 0])]

new_localvar(fs, varname, n) ==
  LET g == registerlocalvar(luaY_checklimit(fs, fs.nactvar + n + 1, MaxVars), varname)
  IN [g EXCEPT !.actvar = Append(SubSeq(@, 1, g.nactvar + n), Len(g.locvars))]

adjustlocalvars(fs, nvars) ==
  LET new == {fs.actvar[i] : i \in fs.nactvar + 1 .. fs.nactvar + nvars} IN
    [fs EXCEPT !.nactvar = @ + nvars,
               !.locvars = [i \in DOMAIN @ |->
                              IF i \in new THEN [@[i] EXCEPT !.startpc = pc(fs)] ELSE @[i]]]

removevars(fs, tolevel) ==
  LET old == {fs.actvar[i] : i \in tolevel + 1 .. fs.nactvar} IN
    [fs EXCEPT !.nactvar = tolevel,
               !.locvars = [i \in DOMAIN @ |->
                              IF i \in old THEN [@[i] EXCEPT !.endpc = pc(fs)] ELSE @[i]]]

(* The index of the upvalue is left in l. *)
indexupvalue(fs, n, v) ==
  LET same == {i \in DOMAIN fs.upvalues : fs.upvalues[i].k = v.k /\ fs.upvalues[i].info = v.info}
      new  == [k |-> v.k, info |-> v.info, name |-> n]
  IN IF same # {}
     THEN LET i == Max(same) IN Affirm([fs EXCEPT !.l = i - 1], fs.upvalues[i].name = n)
     ELSE [luaY_checklimit(fs, Len(fs.upvalues) + 1, MaxUpvalues) EXCEPT
             !.upvalues = Append(@, new), !.l = Len(fs.upvalues)]

(* The innermost one of that name *)
searchvar(fs, n) ==
  {i \in 1..fs.nactvar : fs.locvars[fs.actvar[i]].name = n}

(* The block that declares the variable will have to close it. *)
markupval(fs, level) ==
  LET around == {i \in DOMAIN fs.bl : fs.bl[i].nactvar <= level} IN
    IF around = {} THEN fs ELSE [fs EXCEPT !.bl[Max(around)].upval = TRUE]

(* The functions, the innermost last, once the variable is found or not, and
   what it is to the last of them. *)
RECURSIVE singlevaraux(_, _, _)
singlevaraux(fss, n, base) ==
  LET fs == Last(fss)
      v  == Max(searchvar(fs, n)) - 1
      up == singlevaraux(Front(fss), n, FALSE)
      ix == indexupvalue(fs, n, up.var)
  IN IF fss = <<>> THEN [fss |-> fss, var |-> Exp("VGLOBAL", NO_REG)]
     ELSE IF searchvar(fs, n) # {}
     THEN [fss |-> Append(Front(fss), IF base THEN fs ELSE markupval(fs, v)),
           var |-> Exp("VLOCAL", v)]
     ELSE IF up.var.k = "VGLOBAL" THEN [fss |-> Append(up.fss, fs), var |-> up.var]
     ELSE [fss |-> Append(up.fss, ix), var |-> Exp("VUPVAL", ix.l)]

singlevar(ls) ==
  LET found  == singlevaraux(Append(ls.prev, ls.fs), seminfo(ls), TRUE)
      global == luaK_stringK(ls.fs, seminfo(ls))
      used   == IF found.var.k = "VGLOBAL"
                THEN Code(ls, Give(global, Exp("VGLOBAL", global.l)))
                ELSE [ls EXCEPT !.prev = Front(found.fss),
                                !.fs = Give(Last(found.fss), found.var)]
  IN WithName(ls, used)

hasmultret(k) == k \in {"VCALL", "VVARARG"}

Positive(n) == IF n < 0 THEN 0 ELSE n

adjust_assign(fs, nvars, nexps, e) ==
  LET extra == nvars - nexps
      more  == Positive(extra + 1)
      set   == luaK_setreturns(fs, e, more)
      g     == IF e.k = "VVOID" THEN fs ELSE luaK_exp2nextreg(fs, e)
  IN IF hasmultret(e.k) THEN (IF more > 1 THEN luaK_reserveregs(set, more - 1) ELSE set)
     ELSE IF extra > 0 THEN luaK_nil(luaK_reserveregs(g, extra), g.freereg, extra)
     ELSE g

------------------------------------------------------------------------------
(* Blocks and functions *)

enterblock(fs, isbreakable) ==
  Affirm([fs EXCEPT !.bl = Append(@, [breaklist |-> NO_JUMP, isbreakable |-> isbreakable,
                                      nactvar |-> fs.nactvar, upval |-> FALSE])],
         fs.freereg = fs.nactvar)

leaveblock(fs) ==
  LET bl == Last(fs.bl)
      r  == removevars([fs EXCEPT !.bl = Front(@)], bl.nactvar)
      c  == IF bl.upval THEN luaK_codeABC(r, "CLOSE", bl.nactvar, 0, 0) ELSE r
      g  == Affirm(c, ~bl.isbreakable \/ ~bl.upval)
  IN luaK_patchtohere([g EXCEPT !.freereg = g.nactvar], bl.breaklist)

(* The function that fs has become *)
Proto(fs) ==
  [source |-> "chunk", code |-> fs.code, k |-> fs.k, p |-> fs.p, locvars |-> fs.locvars,
   nups |-> Len(fs.upvalues),
   ups |-> [i \in DOMAIN fs.upvalues |-> fs.upvalues[i].name],
   numparams |-> fs.numparams, is_vararg |-> fs.is_vararg, maxstack |-> fs.maxstack]

NewFunc ==
  [code |-> <<>>, k |-> <<>>, p |-> <<>>, locvars |-> <<>>, actvar |-> <<>>, nactvar |-> 0,
   upvalues |-> <<>>, bl |-> <<>>, lasttarget |-> -1, jpc |-> NO_JUMP, freereg |-> 0,
   maxstack |-> 2, numparams |-> 0, is_vararg |-> FALSE,
   e |-> Exp("VVOID", 0), l |-> NO_JUMP, ok |-> TRUE, err |-> FALSE]

open_func(ls) == [ls EXCEPT !.prev = Append(@, ls.fs), !.fs = NewFunc]

Closed(fs) ==
  LET g == luaK_ret(removevars(fs, 0), 0, 0)
  IN Affirm(g, g.err \/ (luaG_checkcode(Proto(g)) /\ g.bl = <<>>))

pushclosure(fs, func) ==
  LET c == luaK_codeABx([fs EXCEPT !.p = Append(@, Proto(func))], "CLOSURE", 0, Len(fs.p))
      g == FoldLeft(LAMBDA h, u : luaK_codeABC(h, IF u.k = "VLOCAL" THEN "MOVE" ELSE "GETUPVAL",
                                               0, u.info, 0), c, func.upvalues)
  IN Give(g, Exp("VRELOCABLE", pc(c) - 1))

(* close_func, and the closure in the function around *)
close_func(ls) ==
  LET func  == Closed(ls.fs)
      outer == Last(ls.prev)
      fs    == [outer EXCEPT !.ok = @ /\ func.ok, !.err = @ \/ func.err]
  IN [ls EXCEPT !.prev = Front(@), !.fs = pushclosure(fs, func)]

------------------------------------------------------------------------------
(* Expressions *)

RECURSIVE subexpr(_, _), chunk(_), statement(_), primaryexp(_)

expr(ls) == subexpr(ls, 0)

field(ls) ==
  LET v   == luaK_exp2anyreg(ls.fs, ls.fs.e)
      key == checkname(luaX_next(Code(ls, v)))
  IN Code(key, luaK_indexed(key.fs, v.e, key.fs.e))

yindex(ls) ==
  LET v == expr(luaX_next(ls)) IN checknext(Code(v, luaK_exp2val(v.fs, v.fs.e)), "]")

luaO_int2fb(x) ==
  LET RECURSIVE Scaled(_, _)
      Scaled(n, e) == IF n >= 16 THEN Scaled((n + 1) \div 2, e + 1) ELSE <<n, e>>
      s == Scaled(x, 0)
  IN IF s[1] < 8 THEN s[1] ELSE 8 * (s[2] + 1) + s[1] - 8

(* A constructor under way: cc holds the item that waits, the register of the
   table, and the numbers of elements. *)
recfield(s) ==
  LET ls == s.ls
      k  == IF tok(ls) = "name" THEN checkname(ls) ELSE yindex(ls)
      q  == checknext(k, "=")
      rk == luaK_exp2RK(q.fs, k.fs.e)
      v  == expr(Code(q, rk))
      rv == luaK_exp2RK(v.fs, v.fs.e)
      g  == luaK_codeABC(rv, "SETTABLE", s.cc.t, RK(rk.e), RK(rv.e))
  IN [ls |-> Code(v, [g EXCEPT !.freereg = ls.fs.freereg]),
      cc |-> [s.cc EXCEPT !.nh = @ + 1]]

listfield(s) ==
  LET v == expr(s.ls) IN
    [ls |-> v, cc |-> [s.cc EXCEPT !.v = v.fs.e, !.na = @ + 1, !.tostore = @ + 1]]

closelistfield(s) ==
  LET g == luaK_exp2nextreg(s.ls.fs, s.cc.v)
      full == s.cc.tostore = FieldsPerFlush
  IN IF s.cc.v.k = "VVOID" THEN s
     ELSE [ls |-> Code(s.ls, IF full THEN luaK_setlist(g, s.cc.t, s.cc.na, s.cc.tostore) ELSE g),
           cc |-> [s.cc EXCEPT !.v.k = "VVOID", !.tostore = IF full THEN 0 ELSE @]]

lastlistfield(s) ==
  LET cc == s.cc
      fs == s.ls.fs
      g  == IF cc.v.k = "VVOID" THEN fs ELSE luaK_exp2nextreg(fs, cc.v)
  IN IF cc.tostore = 0 THEN s
     ELSE IF hasmultret(cc.v.k)
     THEN [ls |-> Code(s.ls, luaK_setlist(luaK_setmultret(fs, cc.v), cc.t, cc.na, LUA_MULTRET)),
           cc |-> [cc EXCEPT !.na = @ - 1]]
     ELSE [s EXCEPT !.ls.fs = luaK_setlist(g, cc.t, cc.na, cc.tostore)]

RECURSIVE Fields(_)
Fields(s0) ==
  LET s   == closelistfield(s0)
      ls  == s.ls
      rec == tok(ls) = "[" \/ (tok(ls) = "name" /\ ls.toks[ls.at + 1][1] = "=")
      one == IF rec THEN recfield(s) ELSE listfield(s)
      a   == [one EXCEPT !.ls.fs = Affirm(@, one.cc.v.k = "VVOID" \/ one.cc.tostore > 0)]
  IN IF tok(s0.ls) = "}" THEN s0
     ELSE IF tok(a.ls) \in {",", ";"} THEN Fields([a EXCEPT !.ls = luaX_next(@)])
     ELSE a

constructor(ls) ==
  LET n == luaK_codeABC(ls.fs, "NEWTABLE", 0, 0, 0)
      at == pc(n) - 1
      t == luaK_exp2nextreg(n, Exp("VRELOCABLE", at))
      s == Fields([ls |-> checknext(Code(ls, t), "{"),
                   cc |-> [v |-> Exp("VVOID", 0), t |-> t.e.info, na |-> 0, nh |-> 0,
                           tostore |-> 0]])
      z == lastlistfield([s EXCEPT !.ls = checknext(@, "}")])
      g == SetC(SetB(z.ls.fs, at, luaO_int2fb(z.cc.na)), at, luaO_int2fb(z.cc.nh))
  IN Code(z.ls, Give(g, t.e))

RECURSIVE parlist(_)
parlist(ls) ==
  LET named == Code(ls, [new_localvar(ls.fs, seminfo(ls), ls.fs.numparams) EXCEPT !.numparams = @ + 1])
  IN CASE tok(ls) = "name" -> LET n == luaX_next(named) IN
                                IF tok(n) = "," THEN parlist(luaX_next(n)) ELSE n
       [] tok(ls) = "..."  -> luaX_next([ls EXCEPT !.fs.is_vararg = TRUE])
       [] OTHER            -> luaX_syntaxerror(ls)

body(ls, needself) ==
  LET o == checknext(open_func(ls), "(")
      s == IF needself THEN Code(o, adjustlocalvars(new_localvar(o.fs, "self", 0), 1)) ELSE o
      p == IF tok(s) = ")" THEN s ELSE parlist(s)
      a == adjustlocalvars(p.fs, p.fs.numparams)
      n == luaK_reserveregs([a EXCEPT !.numparams = a.nactvar], a.nactvar)
      c == chunk(checknext(Code(p, n), ")"))
  IN close_func(checknext(c, "end"))

(* explist1, with the number of expressions in l of the function *)
RECURSIVE Explist(_, _)
Explist(ls, n) ==
  LET v == expr(ls) IN
    IF tok(v) = "," THEN Explist(luaX_next(Code(v, luaK_exp2nextreg(v.fs, v.fs.e))), n + 1)
    ELSE [v EXCEPT !.fs.l = n]
explist1(ls) == Explist(ls, 1)

Arguments(ls) ==
  LET n == luaX_next(ls)
      a == explist1(n)
  IN CASE tok(ls) = "(" /\ tok(n) = ")" -> luaX_next(Code(n, Give(n.fs, Exp("VVOID", 0))))
       [] tok(ls) = "(" -> checknext(Code(a, Give(luaK_setmultret(a.fs, a.fs.e), a.fs.e)), ")")
       [] tok(ls) = "{" -> constructor(ls)
       [] tok(ls) = "string" -> luaX_next(codestring(ls, seminfo(ls)))
       [] OTHER -> luaX_syntaxerror(ls)

funcargs(ls) ==
  LET f    == ls.fs.e
      base == f.info
      a    == Arguments(ls)
      args == a.fs.e
      g    == IF hasmultret(args.k) \/ args.k = "VVOID" THEN a.fs
              ELSE luaK_exp2nextreg(a.fs, args)
      nparams == IF hasmultret(args.k) THEN LUA_MULTRET ELSE g.freereg - (base + 1)
      c    == luaK_codeABC(Affirm(g, f.k = "VNONRELOC"), "CALL", base, nparams + 1, 2)
  IN Code(a, Give([c EXCEPT !.freereg = base + 1], Exp("VCALL", pc(c) - 1)))

prefixexp(ls) ==
  LET v == checknext(expr(luaX_next(ls)), ")") IN
    CASE tok(ls) = "("    -> Code(v, luaK_dischargevars(v.fs, v.fs.e))
      [] tok(ls) = "name" -> singlevar(ls)
      [] OTHER            -> luaX_syntaxerror(ls)

RECURSIVE Postfixes(_)
Postfixes(ls) ==
  LET v   == luaK_exp2anyreg(ls.fs, ls.fs.e)
      i   == yindex(Code(ls, v))
      key == checkname(luaX_next(ls))
  IN CASE tok(ls) = "." -> Postfixes(field(ls))
       [] tok(ls) = "[" -> Postfixes(Code(i, luaK_indexed(i.fs, v.e, i.fs.e)))
       [] tok(ls) = ":" -> Postfixes(funcargs(Code(key, luaK_self(key.fs, ls.fs.e, key.fs.e))))
       [] tok(ls) \in {"(", "string", "{"} ->
            Postfixes(funcargs(Code(ls, luaK_exp2nextreg(ls.fs, ls.fs.e))))
       [] OTHER -> ls

primaryexp(ls) == Postfixes(prefixexp(ls))

simpleexp(ls) ==
  LET One(e) == luaX_next(Code(ls, Give(ls.fs, e)))
      va == luaK_codeABC(ls.fs, "VARARG", 0, 1, 0)
  IN CASE tok(ls) = "number"   -> One(Exp("VKNUM", Num(seminfo(ls))))
       [] tok(ls) = "string"   -> luaX_next(codestring(ls, seminfo(ls)))
       [] tok(ls) = "nil"      -> One(Exp("VNIL", 0))
       [] tok(ls) = "true"     -> One(Exp("VTRUE", 0))
       [] tok(ls) = "false"    -> One(Exp("VFALSE", 0))
       [] tok(ls) = "..."      -> IF ~ls.fs.is_vararg THEN luaX_syntaxerror(ls)
                                  ELSE luaX_next(Code(ls, Give(va, Exp("VVARARG", pc(va) - 1))))
       [] tok(ls) = "{"        -> constructor(ls)
       [] tok(ls) = "function" -> body(luaX_next(ls), FALSE)
       [] OTHER                -> primaryexp(ls)

(* The operators and their left and right priorities *)
Binary == (DOMAIN ArithOp) \cup {"..", "==", "~=", "<", "<=", ">", ">=", "and", "or"}
Unary == {"not", "-", "#"}
UNARY_PRIORITY == 8

priority(op) ==
  CASE op \in {"+", "-"}      -> [left |-> 6, right |-> 6]
    [] op \in {"*", "/", "%"} -> [left |-> 7, right |-> 7]
    [] op = "^"               -> [left |-> 10, right |-> 9]
    [] op = ".."              -> [left |-> 5, right |-> 4]
    [] op = "and"             -> [left |-> 2, right |-> 2]
    [] op = "or"              -> [left |-> 1, right |-> 1]
    [] OTHER                  -> [left |-> 3, right |-> 3]

RECURSIVE Operators(_, _)
Operators(ls, limit) ==
  LET op == tok(ls)
      v  == luaK_infix(ls.fs, op, ls.fs.e)
      v2 == subexpr(luaX_next(Code(ls, v)), priority(op).right)
  IN IF op \notin Binary THEN ls
     ELSE IF priority(op).left <= limit THEN ls
     ELSE Operators(Code(v2, luaK_posfix(v2.fs, op, v.e, v2.fs.e)), limit)

subexpr(ls0, limit) ==
  LET ls == enterlevel(ls0)
      v  == subexpr(luaX_next(ls), UNARY_PRIORITY)
      first == IF tok(ls) \in Unary THEN Code(v, luaK_prefix(v.fs, tok(ls), v.fs.e))
               ELSE simpleexp(ls)
  IN leavelevel(Operators(first, limit))

------------------------------------------------------------------------------
(* Statements *)

block_follow == {"else", "elseif", "end", "until", "eos"}

block(ls) ==
  LET c == chunk(Code(ls, enterblock(ls.fs, FALSE))) IN
    Code(c, leaveblock(Affirm(c.fs, Last(c.fs.bl).breaklist = NO_JUMP)))

(* A local variable that is assigned may be the table or the key of an earlier
   target: that one gets a copy. *)
Copied(lh, v, extra) ==
  [i \in DOMAIN lh |->
     IF lh[i].k # "VINDEXED" THEN lh[i]
     ELSE [lh[i] EXCEPT !.info = IF @ = v.info THEN extra ELSE @,
                        !.aux  = IF @ = v.info THEN extra ELSE @]]

check_conflict(fs, lh, v) ==
  IF v.k = "VLOCAL" THEN Copied(lh, v, fs.freereg) ELSE lh

CopyMade(fs, v) ==
  luaK_reserveregs(luaK_codeABC(fs, "MOVE", fs.freereg, v.info, 0), 1)

(* The last target first; each value is in the last register. *)
StoreAll(fs, lh) ==
  FoldRight(LAMBDA v, g : luaK_storevar(g, v, Exp("VNONRELOC", g.freereg - 1)), lh, fs)

RECURSIVE assignment(_, _)
assignment(ls, lh) ==
  LET nvars == Len(lh)
      p     == primaryexp(luaX_next(ls))
      new   == check_conflict(p.fs, lh, p.fs.e)
      safe  == IF new = lh THEN p.fs ELSE CopyMade(p.fs, p.fs.e)
      room  == luaY_checklimit(safe, nvars, MaxCCalls - ls.level)
      x     == explist1(checknext(ls, "="))
      nexps == x.fs.l
      adj   == adjust_assign(x.fs, nvars, nexps, x.fs.e)
      cut   == [adj EXCEPT !.freereg = @ - Positive(nexps - nvars)]
      one   == luaK_setoneret(x.fs, x.fs.e)
  IN IF Last(lh).k \notin {"VLOCAL", "VUPVAL", "VGLOBAL", "VINDEXED"} THEN luaX_syntaxerror(ls)
     ELSE IF tok(ls) = "," THEN assignment(Code(p, room), Append(new, p.fs.e))
     ELSE IF nexps # nvars THEN Code(x, StoreAll(cut, lh))
     ELSE Code(x, StoreAll(luaK_storevar(one, Last(lh), one.e), Front(lh)))

exprstat(ls) ==
  LET v == primaryexp(ls) IN
    IF v.fs.e.k = "VCALL" THEN Code(v, SetC(v.fs, v.fs.e.info, 1))
    ELSE assignment(v, <<v.fs.e>>)

(* The list of jumps that leave if the condition is false is in f. *)
cond(ls) ==
  LET v == expr(ls)
      e == IF v.fs.e.k = "VNIL" THEN [v.fs.e EXCEPT !.k = "VFALSE"] ELSE v.fs.e
  IN Code(v, luaK_goiftrue(v.fs, e))

breakstat(ls) ==
  LET loops == {i \in DOMAIN ls.fs.bl : ls.fs.bl[i].isbreakable}
      at    == Max(loops)
      upval == \E i \in at + 1 .. Len(ls.fs.bl) : ls.fs.bl[i].upval
      c     == IF upval THEN luaK_codeABC(ls.fs, "CLOSE", ls.fs.bl[at].nactvar, 0, 0) ELSE ls.fs
      j     == luaK_jump(c)
      g     == luaK_concat(j, j.bl[at].breaklist, j.l)
  IN IF loops = {} THEN luaX_syntaxerror(ls) ELSE Code(ls, [g EXCEPT !.bl[at].breaklist = g.l])

(* Go back to `target', and go on after the loop. *)
JumpBack(fs, target) == LET j == luaK_jump(fs) IN luaK_patchlist(j, j.l, target)

whilestat(ls) ==
  LET l == luaK_getlabel(ls.fs)
      whileinit == pc(l)
      c == cond(luaX_next(Code(ls, l)))
      b == block(checknext(Code(c, enterblock(c.fs, TRUE)), "do"))
      e == checknext(Code(b, JumpBack(b.fs, whileinit)), "end")
  IN Code(e, luaK_patchtohere(leaveblock(e.fs), c.fs.e.f))

repeatstat(ls) ==
  LET l == luaK_getlabel(ls.fs)
      repeat_init == pc(l)
      b == chunk(luaX_next(Code(ls, enterblock(enterblock(l, TRUE), FALSE))))
      c == cond(checknext(b, "until"))
      condexit == c.fs.e.f
      simple == luaK_patchlist(leaveblock(c.fs), condexit, repeat_init)
      k == breakstat(c)
      full == JumpBack(leaveblock(luaK_patchtohere(k.fs, condexit)), repeat_init)
  IN Code(c, leaveblock(IF Last(c.fs.bl).upval THEN full ELSE simple))

exp1(ls) == LET e == expr(ls) IN Code(e, luaK_exp2nextreg(e.fs, e.fs.e))

forbody(ls, base, nvars, isnum) ==
  LET d == checknext(Code(ls, adjustlocalvars(ls.fs, 3)), "do")
      p == IF isnum THEN luaK_codeABx(d.fs, "FORPREP", base, NO_JUMP) ELSE luaK_jump(d.fs)
      prep == IF isnum THEN pc(p) - 1 ELSE p.l
      v == luaK_reserveregs(adjustlocalvars(enterblock(p, FALSE), nvars), nvars)
      b == block(Code(d, v))
      h == luaK_patchtohere(leaveblock(b.fs), prep)
      f == IF isnum THEN luaK_codeABx(h, "FORLOOP", base, NO_JUMP)
           ELSE luaK_jump(luaK_codeABC(h, "TFORLOOP", base, 0, nvars))
  IN Code(b, luaK_patchlist(f, IF isnum THEN pc(f) - 1 ELSE f.l, prep + 1))

Control(fs, names) ==
  FoldLeft(LAMBDA g, i : new_localvar(g, names[i], i - 1), fs, [i \in DOMAIN names |-> i])

fornum(ls, varname) ==
  LET v == Control(ls.fs, <<"(for index)", "(for limit)", "(for step)", varname>>)
      a == checknext(exp1(checknext(Code(ls, v), "=")), ",")
      b == exp1(a)
      k == addk(b.fs, Num(1))
      s == IF tok(b) = "," THEN exp1(luaX_next(b))
           ELSE Code(b, luaK_reserveregs(luaK_codeABx(k, "LOADK", k.freereg, k.l), 1))
  IN forbody(s, ls.fs.freereg, 1, TRUE)

(* The names of a list, declared from the nth place on; their number is in l. *)
RECURSIVE Names(_, _)
Names(ls, n) ==
  LET v == WithName(ls, Code(ls, [new_localvar(ls.fs, seminfo(ls), n) EXCEPT !.l = n + 1])) IN
    IF tok(v) = "," THEN Names(luaX_next(v), n + 1) ELSE v

forlist(ls, indexname) ==
  LET v == Control(ls.fs, <<"(for generator)", "(for state)", "(for control)", indexname>>)
      n == IF tok(ls) = "," THEN Names(luaX_next(Code(ls, v)), 4) ELSE Code(ls, [v EXCEPT !.l = 4])
      x == explist1(checknext(n, "in"))
      g == luaK_checkstack(adjust_assign(x.fs, 3, x.fs.l, x.fs.e), 3)
  IN forbody(Code(x, g), ls.fs.freereg, n.fs.l - 3, FALSE)

forstat(ls) ==
  LET v == luaX_next(Code(ls, enterblock(ls.fs, TRUE)))
      n == WithName(v, v)
      f == CASE tok(n) = "="           -> fornum(n, seminfo(v))
             [] tok(n) \in {",", "in"} -> forlist(n, seminfo(v))
             [] OTHER                  -> luaX_syntaxerror(n)
      e == checknext(f, "end")
  IN Code(e, leaveblock(e.fs))

(* The jumps of a false condition are left in l. *)
test_then_block(ls) ==
  LET c == cond(luaX_next(ls))
      b == block(checknext(c, "then"))
  IN [b EXCEPT !.fs.l = c.fs.e.f]

(* After a clause: jump to the end, and come here when its condition is false. *)
EndOfClause(fs, escapelist) ==
  LET j == luaK_jump(fs)
      g == luaK_concat(j, escapelist, j.l)
  IN [luaK_patchtohere(g, fs.l) EXCEPT !.l = g.l]

RECURSIVE Clauses(_, _)
Clauses(ls, escapelist) ==
  LET n == EndOfClause(ls.fs, escapelist)
      b == block(luaX_next(Code(ls, n)))
      last == luaK_concat(ls.fs, escapelist, ls.fs.l)
  IN CASE tok(ls) = "elseif" -> Clauses(test_then_block(Code(ls, n)), n.l)
       [] tok(ls) = "else"   -> Code(b, luaK_patchtohere(b.fs, n.l))
       [] OTHER              -> Code(ls, luaK_patchtohere(last, last.l))

ifstat(ls) == checknext(Clauses(test_then_block(ls), NO_JUMP), "end")

localfunc(ls) ==
  LET n == WithName(ls, Code(ls, new_localvar(ls.fs, seminfo(ls), 0)))
      v == Exp("VLOCAL", n.fs.freereg)
      b == body(Code(n, adjustlocalvars(luaK_reserveregs(n.fs, 1), 1)), FALSE)
      g == luaK_storevar(b.fs, v, b.fs.e)
  IN Code(b, [g EXCEPT !.locvars[g.actvar[g.nactvar]].startpc = pc(g)])

localstat(ls) ==
  LET n == Names(ls, 0)
      x == IF tok(n) = "=" THEN explist1(luaX_next(n))
           ELSE Code(n, [n.fs EXCEPT !.e = Exp("VVOID", 0), !.l = 0])
  IN Code(x, adjustlocalvars(adjust_assign(x.fs, n.fs.l, x.fs.l, x.fs.e), n.fs.l))

RECURSIVE FieldsOf(_)
FieldsOf(ls) == IF tok(ls) = "." THEN FieldsOf(field(ls)) ELSE ls

funcstat(ls) ==
  LET n == FieldsOf(singlevar(luaX_next(ls)))
      needself == tok(n) = ":"
      v == IF needself THEN field(n) ELSE n
      b == body(v, needself)
  IN Code(b, luaK_storevar(b.fs, v.fs.e, b.fs.e))

retstat(ls) ==
  LET n == luaX_next(ls)
      x == explist1(n)
      e == x.fs.e
      first == x.fs.nactvar
      m == luaK_setmultret(x.fs, e)
      tail == Affirm([m EXCEPT !.code[e.info + 1].op = "TAILCALL"], getcode(m, e).a = first)
      r == luaK_exp2anyreg(x.fs, e)
      s == luaK_exp2nextreg(x.fs, e)
  IN CASE tok(n) \in block_follow \cup {";"} -> Code(n, luaK_ret(n.fs, 0, 0))
       [] e.k = "VCALL" /\ x.fs.l = 1 -> Code(x, luaK_ret(tail, first, LUA_MULTRET))
       [] hasmultret(e.k) -> Code(x, luaK_ret(m, first, LUA_MULTRET))
       [] x.fs.l = 1 -> Code(x, luaK_ret(r, r.e.info, 1))
       [] OTHER -> Code(x, luaK_ret(Affirm(s, x.fs.l = s.freereg - first), first, x.fs.l))

statement(ls) ==
  LET n == luaX_next(ls) IN
    CASE tok(ls) = "if"       -> ifstat(ls)
      [] tok(ls) = "while"    -> whilestat(ls)
      [] tok(ls) = "do"       -> checknext(block(n), "end")
      [] tok(ls) = "for"      -> forstat(ls)
      [] tok(ls) = "repeat"   -> repeatstat(ls)
      [] tok(ls) = "function" -> funcstat(ls)
      [] tok(ls) = "local"    -> IF tok(n) = "function" THEN localfunc(luaX_next(n)) ELSE localstat(n)
      [] tok(ls) = "return"   -> retstat(ls)
      [] tok(ls) = "break"    -> breakstat(n)
      [] OTHER                -> exprstat(ls)

RECURSIVE Statements(_)
Statements(ls) ==
  LET s == testnext(statement(ls), ";")
      a == Affirm(s.fs, s.fs.maxstack >= s.fs.freereg /\ s.fs.freereg >= s.fs.nactvar)
      n == Code(s, [a EXCEPT !.freereg = a.nactvar])
  IN IF tok(ls) \in block_follow THEN ls
     ELSE IF tok(ls) \in {"return", "break"} THEN n
     ELSE Statements(n)

chunk(ls) == leavelevel(Statements(enterlevel(ls)))

(* luaY_parser: ok tells that no assertion has failed, err that there is no
   function. *)
luaY_parser(toks) ==
  LET ls == [toks |-> toks, at |-> 1, prev |-> <<>>, level |-> 0,
             fs |-> [NewFunc EXCEPT !.is_vararg = TRUE]]
      c  == chunk(ls)
      z  == IF tok(c) = "eos" THEN c ELSE luaX_syntaxerror(c)
      fs == Closed(z.fs)
  IN [f |-> Proto(fs), err |-> fs.err, ok |-> fs.err \/ (fs.ok /\ fs.upvalues = <<>>)]

==============================================================================
