-------------------------------- MODULE Machine --------------------------------
(***************************************************************************)
(* lvm.c: the virtual machine, an action for each instruction or group of  *)
(* instructions, on one thread.                                            *)
(*                                                                         *)
(*   L.stack      the stack, by position; L.top the first free place       *)
(*   L.ci         the calls under way: the positions of the function, of   *)
(*                its first register and of the end of its registers, the  *)
(*                next instruction and the number of results that are      *)
(*                wanted                                                   *)
(*   L.execs      the activations of luaV_execute on the C stack: how many *)
(*                Lua calls each one runs (nexeccalls)                     *)
(*   L.back       luaD_call returns to the instruction that made the call  *)
(*   L.openupval  the upvalues that live on the stack                      *)
(*   heap         closures, upvalues, tables and the table of globals      *)
(*   out          the calls of the C function `emit', with their arguments *)
(*   blame        what the message of a type error says                    *)
(*                                                                         *)
(* Tables have no metatables, strings are no numerals, the stack is big    *)
(* enough; the other modules have metamethods, the tables' insides,        *)
(* protected calls and coroutines.                                         *)
(***************************************************************************)
EXTENDS LuaCode, Verifier, TLC

CONSTANTS StackSize,        \* bound
          Collation,        \* the strings that are compared, in the order of strcoll
          LoadedBy(_, _)    \* a chunk and a way to load it: [f |-> the function,
                            \* err |-> there is none]

VARIABLES program,          \* a chunk
          loaded,           \* the way to load it, and then what this gives
          status, L, heap, out, blame

vars == <<program, loaded, status, L, heap, out, blame>>
data == <<program, loaded>>

Emit == <<"function", 0>>
Globals == <<"table", 1>>
EmptyTable == [x \in {} |-> Nil]

------------------------------------------------------------------------------
(* Where the execution is *)

Here == Last(L.ci)
base == Here.base
clAt(ci) == heap.closures[L.stack[ci.func][2]]
cl == clAt(Here)

RECURSIVE ProtoAt(_, _)
ProtoAt(f, path) == IF path = <<>> THEN f ELSE ProtoAt(f.p[Head(path)], Tail(path))

p == ProtoAt(loaded.f, cl.p)
i == p.code[Here.savedpc + 1]

R(n) == L.stack[base + n]
K(n) == p.k[n + 1]
RK_(n) == IF ISK(n) THEN K(INDEXK(n)) ELSE R(n)

l_isfalse(v) == v \in {Nil, Bool(FALSE)}

Running(op) == status = "running" /\ ~L.back /\ i.op = op

(* The thread after the instruction, n words further *)
Goes(l, n) == [l EXCEPT !.ci[Len(l.ci)].savedpc = @ + n]
Sets(l, n, v) == [l EXCEPT !.stack[base + n] = v]
Puts(n, v) == L' = Goes(Sets(L, n, v), 1)
Only_L == UNCHANGED <<program, loaded, status, heap, out, blame>>

(* luaG_typeerror: a register has a name, a constant has none. *)
luaG_typeerror(op, n) ==
  /\ status' = "error"
  /\ blame' = <<op, IF ISK(n) THEN NoName ELSE getobjname(p, Here.savedpc, n)>>
  /\ UNCHANGED <<program, loaded, L, heap, out>>

------------------------------------------------------------------------------
(* Tables and upvalues *)

Get(t, key) ==
  LET h == heap.tables[t[2]] IN IF key \in DOMAIN h THEN h[key] ELSE Nil

Set(t, key, v) ==
  [heap EXCEPT !.tables[t[2]] =
     IF v = Nil THEN [x \in DOMAIN @ \ {key} |-> @[x]] ELSE (key :> v) @@ @]

luaH_getn(t) ==
  LET h == heap.tables[t[2]]
      RECURSIVE From(_)
      From(n) == IF Num(n + 1) \in DOMAIN h THEN From(n + 1) ELSE n
  IN From(0)

Upvalue(u) == IF heap.upvals[u].at # 0 THEN L.stack[heap.upvals[u].at] ELSE heap.upvals[u].v

(* The open upvalues at or above the level get the value they had there. *)
luaF_close(l, h, level) ==
  LET closed == {u \in l.openupval : h.upvals[u].at >= level} IN
    [l |-> [l EXCEPT !.openupval = @ \ closed],
     h |-> [h EXCEPT !.upvals = [u \in DOMAIN @ |->
              IF u \in closed THEN [at |-> 0, v |-> l.stack[@[u].at]] ELSE @[u]]]]

------------------------------------------------------------------------------
(* Moves and loads *)

OP_MOVE  == Running("MOVE") /\ Puts(i.a, R(i.b)) /\ Only_L
OP_LOADK == Running("LOADK") /\ Puts(i.a, K(i.b)) /\ Only_L
OP_LOADBOOL ==
  /\ Running("LOADBOOL")
  /\ L' = Goes(Sets(L, i.a, Bool(i.b = 1)), IF i.c # 0 THEN 2 ELSE 1)
  /\ Only_L
OP_LOADNIL ==
  /\ Running("LOADNIL")
  /\ L' = Goes([L EXCEPT !.stack = [n \in DOMAIN @ |->
                  IF n \in base + i.a .. base + i.b THEN Nil ELSE @[n]]], 1)
  /\ Only_L

OP_GETUPVAL == Running("GETUPVAL") /\ Puts(i.a, Upvalue(cl.upvals[i.b + 1])) /\ Only_L
OP_SETUPVAL ==
  /\ Running("SETUPVAL")
  /\ LET u == cl.upvals[i.b + 1] IN
       IF u \in L.openupval
       THEN L' = Goes([L EXCEPT !.stack[heap.upvals[u].at] = R(i.a)], 1) /\ heap' = heap
       ELSE L' = Goes(L, 1) /\ heap' = [heap EXCEPT !.upvals[u].v = R(i.a)]
  /\ UNCHANGED <<program, loaded, status, out, blame>>

OP_GETGLOBAL == Running("GETGLOBAL") /\ Puts(i.a, Get(Globals, K(i.b))) /\ Only_L

Stores(t, key, v) ==
  /\ heap' = Set(t, key, v) /\ L' = Goes(L, 1)
  /\ UNCHANGED <<program, loaded, status, out, blame>>

OP_SETGLOBAL == Running("SETGLOBAL") /\ Stores(Globals, K(i.b), R(i.a))

OP_GETTABLE ==
  /\ Running("GETTABLE")
  /\ IF R(i.b)[1] = "table" THEN Puts(i.a, Get(R(i.b), RK_(i.c))) /\ Only_L
     ELSE luaG_typeerror("index", i.b)

OP_SETTABLE ==
  /\ Running("SETTABLE")
  /\ IF R(i.a)[1] = "table" THEN Stores(R(i.a), RK_(i.b), RK_(i.c))
     ELSE luaG_typeerror("index", i.a)

OP_SELF ==
  /\ Running("SELF")
  /\ IF R(i.b)[1] = "table"
     THEN L' = Goes(Sets(Sets(L, i.a + 1, R(i.b)), i.a, Get(R(i.b), RK_(i.c))), 1) /\ Only_L
     ELSE luaG_typeerror("index", i.b)

OP_NEWTABLE ==
  /\ Running("NEWTABLE")
  /\ Puts(i.a, <<"table", Len(heap.tables) + 1>>)
  /\ heap' = [heap EXCEPT !.tables = Append(@, EmptyTable)]
  /\ UNCHANGED <<program, loaded, status, out, blame>>

(* The values in the registers after the table, in the batch that c says *)
OP_SETLIST ==
  /\ Running("SETLIST")
  /\ LET n == IF i.b = 0 THEN L.top - (base + i.a) - 1 ELSE i.b
         c == IF i.c = 0 THEN WordValue(p.code[Here.savedpc + 2]) ELSE i.c
         first == (c - 1) * FieldsPerFlush
         new == [key \in {Num(first + j) : j \in 1..n} |-> R(i.a + key[2] - first)]
         kept == {key \in DOMAIN new : new[key] # Nil}
     IN /\ heap' = [heap EXCEPT !.tables[R(i.a)[2]] = [key \in kept |-> new[key]] @@ @]
        /\ L' = Goes(IF i.b = 0 THEN [L EXCEPT !.top = Here.top] ELSE L,
                     IF i.c = 0 THEN 2 ELSE 1)
  /\ UNCHANGED <<program, loaded, status, out, blame>>

------------------------------------------------------------------------------
(* Operators *)

Arith ==
  /\ status = "running" /\ ~L.back /\ i.op \in Arithmetic
  /\ LET b == RK_(i.b)
         c == RK_(i.c)
     IN IF b[1] = "number" /\ c[1] = "number"
        THEN Puts(i.a, Num(Calculated(i.op, b[2], c[2]))) /\ Only_L
        ELSE luaG_typeerror("arithmetic", IF b[1] = "number" THEN i.c ELSE i.b)

OP_UNM ==
  /\ Running("UNM")
  /\ IF R(i.b)[1] = "number" THEN Puts(i.a, Num(-R(i.b)[2])) /\ Only_L
     ELSE luaG_typeerror("arithmetic", i.b)

OP_NOT == Running("NOT") /\ Puts(i.a, Bool(l_isfalse(R(i.b)))) /\ Only_L

OP_LEN ==
  /\ Running("LEN")
  /\ CASE R(i.b)[1] = "table"  -> Puts(i.a, Num(luaH_getn(R(i.b)))) /\ Only_L
       [] R(i.b)[1] = "string" -> Puts(i.a, Num(Len(R(i.b)[2]))) /\ Only_L
       [] OTHER                -> luaG_typeerror("length", i.b)

tostring(v) == IF v[1] = "number" THEN ToString(v[2]) ELSE v[2]
Joins(v) == v[1] \in {"string", "number"}

(* From the right, in pairs; the error is about the first of a pair if it does
   not join, or about the second. *)
luaV_concat ==
  LET bad == {n \in i.b..i.c : ~Joins(R(n))}
      q   == IF i.c - 1 \in bad THEN i.c - 1 ELSE Max(bad)
  IN IF bad = {}
     THEN /\ Puts(i.a, Str(FoldLeft(LAMBDA s, n : s \o tostring(R(n)), "",
                                    [j \in 1..i.c - i.b + 1 |-> i.b + j - 1])))
          /\ Only_L
     ELSE luaG_typeerror("concatenate", q)

OP_CONCAT == Running("CONCAT") /\ luaV_concat

LessThan(x, y) ==
  IF x[1] = "number" THEN x[2] < y[2]
  ELSE Min({n \in DOMAIN Collation : Collation[n] = x[2]})
       < Min({n \in DOMAIN Collation : Collation[n] = y[2]})

Ordered(x, y) == x[1] = y[1] /\ Joins(x)

luaG_ordererror ==
  /\ status' = "error" /\ blame' = <<"compare", NoName>>
  /\ UNCHANGED <<program, loaded, L, heap, out>>

(* A test is followed by a jump, which is done or stepped over. *)
Jumps_(l, taken) ==
  Goes(l, IF taken THEN 2 + p.code[Here.savedpc + 2].b ELSE 2)

OP_EQ ==
  /\ Running("EQ")
  /\ L' = Jumps_(L, (RK_(i.b) = RK_(i.c)) = (i.a = 1))
  /\ Only_L

Compare ==
  /\ status = "running" /\ ~L.back /\ i.op \in {"LT", "LE"}
  /\ LET x == RK_(i.b)
         y == RK_(i.c)
         res == IF i.op = "LT" THEN LessThan(x, y) ELSE ~LessThan(y, x)
     IN IF Ordered(x, y) THEN L' = Jumps_(L, res = (i.a = 1)) /\ Only_L
        ELSE luaG_ordererror

OP_TEST == Running("TEST") /\ L' = Jumps_(L, l_isfalse(R(i.a)) # (i.c = 1)) /\ Only_L

OP_TESTSET ==
  /\ Running("TESTSET")
  /\ LET taken == l_isfalse(R(i.b)) # (i.c = 1) IN
       L' = Jumps_(IF taken THEN Sets(L, i.a, R(i.b)) ELSE L, taken)
  /\ Only_L

OP_JMP == Running("JMP") /\ L' = Goes(L, 1 + i.b) /\ Only_L

------------------------------------------------------------------------------
(* Loops *)

OP_FORPREP ==
  /\ Running("FORPREP")
  /\ IF \A n \in 0..2 : R(i.a + n)[1] = "number"
     THEN L' = Goes(Sets(L, i.a, Num(R(i.a)[2] - R(i.a + 2)[2])), 1 + i.b) /\ Only_L
     ELSE /\ status' = "error" /\ blame' = <<"for", NoName>>
          /\ UNCHANGED <<program, loaded, L, heap, out>>

OP_FORLOOP ==
  /\ Running("FORLOOP")
  /\ LET step  == R(i.a + 2)[2]
         idx   == R(i.a)[2] + step
         limit == R(i.a + 1)[2]
     IN L' = IF (IF 0 < step THEN idx <= limit ELSE limit <= idx)
             THEN Goes(Sets(Sets(L, i.a, Num(idx)), i.a + 3, Num(idx)), 1 + i.b)
             ELSE Goes(L, 1)
  /\ Only_L

------------------------------------------------------------------------------
(* Calls *)

Moved(stack, from, to, n, last) ==
  [q \in DOMAIN stack |->
     IF q \in to .. to + n - 1
     THEN (IF from + (q - to) < last THEN stack[from + (q - to)] ELSE Nil)
     ELSE stack[q]]

Cleared(stack, from, to) ==
  [q \in DOMAIN stack |-> IF from <= q /\ q < to THEN Nil ELSE stack[q]]

(* luaD_poscall of a call whose function was at func *)
Returned(l, func, nresults, firstResult) ==
  LET n == IF nresults = LUA_MULTRET THEN l.top - firstResult ELSE nresults IN
    [l EXCEPT !.stack = Moved(@, firstResult, func, n, l.top), !.top = func + n]

(* The fixed parameters of a vararg function move above its arguments. *)
adjust_varargs(l, f, func) ==
  LET nargs  == l.top - func - 1
      actual == IF nargs < f.numparams THEN f.numparams ELSE nargs
      new    == func + 1 + actual
      moved  == Moved(l.stack, func + 1, new, f.numparams, l.top)
  IN [base |-> new, top |-> new + f.numparams,
      stack |-> Cleared(Cleared(moved, l.top, new), func + 1, func + 1 + f.numparams)]

luaD_precall(l, func, nresults) ==
  LET f == ProtoAt(loaded.f, heap.closures[l.stack[func][2]].p)
      fixed == [base |-> func + 1, stack |-> l.stack,
                top |-> Min({l.top, func + 1 + f.numparams})]
      a == IF f.is_vararg THEN adjust_varargs(l, f, func) ELSE fixed
      top == a.base + f.maxstack
      ci == [func |-> func, base |-> a.base, top |-> top, savedpc |-> 0, nresults |-> nresults]
  IN [l EXCEPT !.ci = Append(@, ci), !.top = top, !.stack = Cleared(a.stack, a.top, top)]

Caller(l, n) == [l EXCEPT !.ci[Len(l.ci)].savedpc = @ + n]

(* `emit' gives its arguments back. *)
Arguments_(l, func) == SubSeq(l.stack, func + 1, l.top - 1)

OnFunction(v) == v[1] = "function"

OP_CALL ==
  /\ Running("CALL")
  /\ LET l == Caller(IF i.b # 0 THEN [L EXCEPT !.top = base + i.a + i.b] ELSE L, 1)
         func == base + i.a
         nresults == i.c - 1
         r == Returned(l, func, nresults, func + 1)
     IN CASE R(i.a) = Emit ->
               /\ out' = Append(out, Arguments_(l, func))
               /\ L' = IF nresults >= 0 THEN [r EXCEPT !.top = Here.top] ELSE r
               /\ UNCHANGED <<program, loaded, status, heap, blame>>
          [] OnFunction(R(i.a)) /\ R(i.a) # Emit ->
               /\ L' = [luaD_precall(l, func, nresults) EXCEPT !.execs[Len(L.execs)] = @ + 1]
               /\ Only_L
          [] OTHER -> luaG_typeerror("call", i.a)

(* The new frame moves down to the place of the old one. *)
OP_TAILCALL ==
  /\ Running("TAILCALL")
  /\ LET l == Caller(IF i.b # 0 THEN [L EXCEPT !.top = base + i.a + i.b] ELSE L, 1)
         pfunc == base + i.a
         new == luaD_precall(l, pfunc, LUA_MULTRET)
         c == luaF_close(new, heap, base)
         ci == Last(new.ci)
         down == pfunc - Here.func
         moved == [ci EXCEPT !.func = Here.func, !.base = @ - down, !.top = @ - down,
                             !.nresults = Here.nresults]
     IN CASE R(i.a) = Emit ->
               /\ out' = Append(out, Arguments_(l, pfunc))
               /\ L' = Returned(l, pfunc, LUA_MULTRET, pfunc + 1)
               /\ UNCHANGED <<program, loaded, status, heap, blame>>
          [] OnFunction(R(i.a)) /\ R(i.a) # Emit ->
               /\ L' = [c.l EXCEPT !.ci = Append(Front(Front(@)), moved), !.top = @ - down,
                          !.stack = Moved(@, pfunc, Here.func, new.top - pfunc, new.top)]
               /\ heap' = c.h
               /\ UNCHANGED <<program, loaded, status, out, blame>>
          [] OTHER -> luaG_typeerror("call", i.a)

(* To the caller in the same activation of luaV_execute, or to what has called
   that activation: an instruction, or the host. *)
OP_RETURN ==
  /\ Running("RETURN")
  /\ LET l == IF i.b # 0 THEN [L EXCEPT !.top = base + i.a + i.b - 1] ELSE L
         c == luaF_close(l, heap, base)
         r == [Returned(c.l, Here.func, Here.nresults, base + i.a) EXCEPT !.ci = Front(@)]
         last == Last(L.execs) = 1
     IN /\ heap' = c.h
        /\ L' = IF last THEN [r EXCEPT !.execs = Front(@), !.back = TRUE]
                ELSE [r EXCEPT !.execs[Len(L.execs)] = @ - 1,
                               !.top = IF Here.nresults >= 0 THEN Last(r.ci).top ELSE @]
        /\ status' = IF last /\ Len(L.execs) = 1 THEN "done" ELSE status
  /\ UNCHANGED <<program, loaded, out, blame>>

(* The iterator runs through luaD_call: an activation of its own if it is a Lua
   function. *)
ContinueFor_KeepsTop(l) ==
  LET t == [l EXCEPT !.back = FALSE]
      v == t.stack[base + i.a + 3]
  IN IF v # Nil THEN Jumps_(Sets(t, i.a + 2, v), TRUE) ELSE Jumps_(t, FALSE)

ContinueFor(l) ==
  LET t == [l EXCEPT !.top = Here.top, !.back = FALSE]
      v == t.stack[base + i.a + 3]
  IN IF v # Nil THEN Jumps_(Sets(t, i.a + 2, v), TRUE) ELSE Jumps_(t, FALSE)

OP_TFORLOOP ==
  /\ Running("TFORLOOP")
  /\ LET cb == base + i.a + 3
         l == [L EXCEPT !.stack = Moved(@, cb - 3, cb, 3, cb), !.top = cb + 3]
     IN CASE l.stack[cb] = Emit ->
               /\ out' = Append(out, Arguments_(l, cb))
               /\ L' = ContinueFor(Returned(l, cb, i.c, cb + 1))
               /\ UNCHANGED <<program, loaded, status, heap, blame>>
          [] OnFunction(l.stack[cb]) /\ l.stack[cb] # Emit ->
               /\ L' = [luaD_precall(l, cb, i.c) EXCEPT !.execs = Append(@, 1)]
               /\ Only_L
          [] OTHER -> luaG_typeerror("call", i.a + 3)

TforContinues ==
  /\ status = "running" /\ L.back
  /\ L' = ContinueFor(L)
  /\ Only_L

------------------------------------------------------------------------------
(* Closures and variable arguments *)

OP_CLOSE ==
  /\ Running("CLOSE")
  /\ LET c == luaF_close(L, heap, base + i.a) IN L' = Goes(c.l, 1) /\ heap' = c.h
  /\ UNCHANGED <<program, loaded, status, out, blame>>

(* luaF_findupval: one upvalue for each place of the stack *)
luaF_findupval(s, level) ==
  LET same == {u \in DOMAIN s.h.upvals : s.h.upvals[u].at = level} IN
    IF same # {} THEN [s EXCEPT !.ups = Append(@, Max(same))]
    ELSE [h |-> [s.h EXCEPT !.upvals = Append(@, [at |-> level, v |-> Nil])],
          ups |-> Append(s.ups, Len(s.h.upvals) + 1)]

OP_CLOSURE ==
  /\ Running("CLOSURE")
  /\ LET nups == p.p[i.b + 1].nups
         s == FoldLeft(LAMBDA t, w : IF w.op = "GETUPVAL"
                                     THEN [t EXCEPT !.ups = Append(@, cl.upvals[w.b + 1])]
                                     ELSE luaF_findupval(t, base + w.b),
                       [h |-> heap, ups |-> <<>>],
                       SubSeq(p.code, Here.savedpc + 2, Here.savedpc + 1 + nups))
         new == [p |-> Append(cl.p, i.b + 1), upvals |-> s.ups]
     IN /\ heap' = [s.h EXCEPT !.closures = Append(@, new)]
        /\ L' = Goes([Sets(L, i.a, <<"function", Len(heap.closures) + 1>>) EXCEPT
                        !.openupval = {u \in DOMAIN s.h.upvals : s.h.upvals[u].at # 0}],
                     1 + nups)
  /\ UNCHANGED <<program, loaded, status, out, blame>>

OP_VARARG ==
  /\ Running("VARARG")
  /\ LET n == base - Here.func - p.numparams - 1
         b == IF i.b = 0 THEN n ELSE i.b - 1
         l == [L EXCEPT !.stack = Moved(@, base - n, base + i.a, b, base),
                        !.top = IF i.b = 0 THEN base + i.a + n ELSE @]
     IN L' = Goes(l, 1)
  /\ Only_L

------------------------------------------------------------------------------
(* The host loads a chunk and calls it. *)

Load ==
  /\ status = "source"
  /\ loaded' = LoadedBy(program, loaded)
  /\ status' = IF loaded'.err THEN "refused" ELSE "loaded"
  /\ UNCHANGED <<program, L, heap, out, blame>>

Call ==
  /\ status = "loaded"
  /\ status' = "running"
  /\ L' = [luaD_precall(L, 1, LUA_MULTRET) EXCEPT !.execs = <<1>>]
  /\ UNCHANGED <<program, loaded, heap, out, blame>>

Start ==
  /\ status = "source"
  /\ L = [stack |-> [q \in 1..StackSize |-> IF q = 1 THEN <<"function", 1>> ELSE Nil],
          top |-> 2, ci |-> <<>>, execs |-> <<>>, back |-> FALSE, openupval |-> {}]
  /\ heap = [closures |-> <<[p |-> <<>>, upvals |-> <<>>]>>, upvals |-> <<>>,
             tables |-> <<(Str("emit") :> Emit)>>]
  /\ out = <<>>
  /\ blame = <<>>

Next ==
  \/ Load \/ Call
  \/ OP_MOVE \/ OP_LOADK \/ OP_LOADBOOL \/ OP_LOADNIL
  \/ OP_GETUPVAL \/ OP_SETUPVAL \/ OP_GETGLOBAL \/ OP_SETGLOBAL
  \/ OP_GETTABLE \/ OP_SETTABLE \/ OP_SELF \/ OP_NEWTABLE \/ OP_SETLIST
  \/ Arith \/ OP_UNM \/ OP_NOT \/ OP_LEN \/ OP_CONCAT
  \/ OP_EQ \/ Compare \/ OP_TEST \/ OP_TESTSET \/ OP_JMP
  \/ OP_FORPREP \/ OP_FORLOOP \/ OP_TFORLOOP \/ TforContinues
  \/ OP_CALL \/ OP_TAILCALL \/ OP_RETURN
  \/ OP_CLOSE \/ OP_CLOSURE \/ OP_VARARG

==============================================================================
