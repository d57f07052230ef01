------------------------------- MODULE Verifier -------------------------------
(* ldebug.c: the check that every function passes before it runs, and the
   symbolic execution that finds the name of a value for an error message.  A
   function is a record of its code, its constants k, its functions p, the
   number nups of its upvalues and their names ups (none if it was stripped),
   numparams, is_vararg, maxstack and its local variables. *)
EXTENDS LuaOpcodes

Refused == -1

precheck(pt) ==
  /\ pt.maxstack <= MaxStack
  /\ pt.numparams <= pt.maxstack
  /\ Len(pt.ups) <= pt.nups
  /\ Len(pt.code) > 0 /\ pt.code[Len(pt.code)].op = "RETURN"

checkreg(pt, reg) == reg < pt.maxstack

checkArgMode(pt, r, mode) ==
  CASE mode = "N" -> r = 0
    [] mode = "U" -> TRUE
    [] mode = "R" -> checkreg(pt, r)
    [] mode = "K" -> IF ISK(r) THEN INDEXK(r) < Len(pt.k) ELSE checkreg(pt, r)

(* The instruction after an open call takes what the call has left. *)
checkopenop(pt, pc) == luaG_checkopenop(pt.code[pc + 2])

Waits(i) == i.op = "SETLIST" /\ i.c = 0    \* its count is the next word

(* No jump leads to the count of a SETLIST, which may look like one itself. *)
checkjump_Last(pt, dest) ==
  /\ dest >= 0 /\ dest < Len(pt.code)
  /\ dest > 0 => ~Waits(pt.code[dest])

checkjump(pt, dest) ==
  LET RECURSIVE Before(_)
      Before(n) == IF n = 0 \/ ~Waits(pt.code[n]) THEN 0 ELSE 1 + Before(n - 1)
  IN /\ dest >= 0 /\ dest < Len(pt.code)
     /\ Before(dest) % 2 = 0

Operands(pt, i, pc) ==
  CASE i.op \in iABx  -> BMode(i.op) = "K" => i.b < Len(pt.k)
    [] i.op \in iAsBx -> BMode(i.op) = "R" => checkjump(pt, pc + 1 + i.b)
    [] OTHER -> checkArgMode(pt, i.b, BMode(i.op)) /\ checkArgMode(pt, i.c, CMode(i.op))

(* What an instruction leaves to the next one *)
Sequel(pt, i, pc) ==
  CASE i.op \in testTMode -> pc + 2 < Len(pt.code) /\ pt.code[pc + 2].op = "JMP"
    [] i.op = "LOADBOOL" /\ i.c = 1 -> pc + 2 < Len(pt.code) /\ ~Waits(pt.code[pc + 2])
    [] i.op \in {"CALL", "TAILCALL"} /\ i.c - 1 = LUA_MULTRET -> checkopenop(pt, pc)
    [] i.op = "VARARG" /\ i.b - 1 = LUA_MULTRET -> checkopenop(pt, pc)
    [] i.op = "SETLIST" /\ i.c = 0 -> pc + 1 < Len(pt.code) - 1
    [] i.op = "CLOSURE" ->
         /\ i.b < Len(pt.p)
         /\ pc + pt.p[i.b + 1].nups < Len(pt.code)
         /\ \A j \in 1..pt.p[i.b + 1].nups :
              pt.code[pc + j + 1].op \in {"GETUPVAL", "MOVE"}
    [] OTHER -> TRUE

(* The last register that an instruction touches *)
Reach(i) ==
  CASE i.op = "SELF" -> i.a + 1
    [] i.op = "TFORLOOP" -> i.a + 2 + i.c
    [] i.op \in {"FORLOOP", "FORPREP"} -> i.a + 3
    [] i.op \in {"CALL", "TAILCALL"} ->
         LET called == IF i.b # 0 THEN i.a + i.b - 1 ELSE i.a
             left   == IF i.c >= 2 THEN i.a + i.c - 2 ELSE i.a
         IN IF called > left THEN called ELSE left
    [] i.op = "RETURN" /\ i.b > 1 -> i.a + i.b - 2
    [] i.op = "SETLIST" /\ i.b > 0 -> i.a + i.b
    [] i.op = "VARARG" /\ i.b > 1 -> i.a + i.b - 2
    [] OTHER -> i.a

Particular(pt, i) ==
  CASE i.op \in {"GETUPVAL", "SETUPVAL"} -> i.b < pt.nups
    [] i.op \in {"GETGLOBAL", "SETGLOBAL"} -> pt.k[i.b + 1][1] = "string"
    [] i.op = "CONCAT" -> i.b < i.c
    [] i.op = "TFORLOOP" -> i.c >= 1
    [] i.op = "VARARG" -> pt.is_vararg
    [] OTHER -> TRUE

Accepts(pt, i, pc) ==
  /\ checkreg(pt, i.a) /\ checkreg(pt, Reach(i))
  /\ Operands(pt, i, pc) /\ Sequel(pt, i, pc) /\ Particular(pt, i)

Changes_CallKeeps(i, reg) ==
  \/ i.op \notin NoAMode \cup {"CALL", "TAILCALL"} /\ i.a = reg
  \/ i.op = "LOADNIL" /\ i.a <= reg /\ reg <= i.b
  \/ i.op = "SELF" /\ reg = i.a + 1
  \/ i.op = "TFORLOOP" /\ reg >= i.a + 2

Changes(i, reg) ==
  \/ i.op \notin NoAMode /\ i.a = reg
  \/ i.op = "LOADNIL" /\ i.a <= reg /\ reg <= i.b
  \/ i.op = "SELF" /\ reg = i.a + 1
  \/ i.op = "TFORLOOP" /\ reg >= i.a + 2
  \/ i.op \in {"CALL", "TAILCALL"} /\ reg >= i.a

(* Instructions that are stepped over: the count of a SETLIST, what a jump
   forward skips and, when a register is traced, the upvalues of a closure *)
Skipped(pt, i, pc, lastpc, reg) ==
  LET dest == pc + 1 + i.b
      tracing == reg # NO_REG
  IN CASE Waits(i) -> 1
       [] i.op = "CLOSURE" /\ tracing -> pt.p[i.b + 1].nups
       [] i.op \in iAsBx /\ tracing /\ pc < dest /\ dest <= lastpc -> i.b
       [] OTHER -> 0

(* The last instruction before lastpc that has changed the register *)
RECURSIVE Scan(_, _, _, _, _)
Scan(pt, pc, lastpc, reg, last) ==
  LET i == pt.code[pc + 1] IN
    IF pc >= lastpc THEN last
    ELSE IF ~Accepts(pt, i, pc) THEN Refused
    ELSE Scan(pt, pc + 1 + Skipped(pt, i, pc, lastpc, reg), lastpc, reg,
              IF Changes(i, reg) THEN pc ELSE last)

symbexec(pt, lastpc, reg) ==
  IF precheck(pt) THEN Scan(pt, 0, lastpc, reg, Len(pt.code) - 1) ELSE Refused

luaG_checkcode(pt) == symbexec(pt, Len(pt.code), NO_REG) # Refused

------------------------------------------------------------------------------
(* Names *)

(* luaF_getlocalname *)
LocalsAt(pt, pc) ==
  SelectSeq(pt.locvars, LAMBDA v : v.startpc <= pc /\ pc < v.endpc)

kname(pt, c) ==
  IF ISK(c) /\ pt.k[INDEXK(c) + 1][1] = "string" THEN pt.k[INDEXK(c) + 1][2] ELSE "?"

NoName == <<"", "">>

RECURSIVE getobjname(_, _, _)
getobjname(pt, pc, reg) ==
  LET locals == LocalsAt(pt, pc)
      n == symbexec(pt, pc, reg)
      i == pt.code[n + 1]
  IN IF reg < Len(locals) THEN <<"local", locals[reg + 1].name>>
     ELSE IF n = Refused THEN NoName
     ELSE CASE i.op = "GETGLOBAL" -> <<"global", pt.k[i.b + 1][2]>>
            [] i.op = "MOVE" /\ i.b < i.a -> getobjname(pt, pc, i.b)
            [] i.op = "GETTABLE" -> <<"field", kname(pt, i.c)>>
            [] i.op = "GETUPVAL" ->
                 <<"upvalue", IF i.b < Len(pt.ups) THEN pt.ups[i.b + 1] ELSE "?">>
            [] i.op = "SELF" -> <<"method", kname(pt, i.c)>>
            [] OTHER -> NoName

==============================================================================
