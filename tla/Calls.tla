-------------------------------- MODULE Calls --------------------------------
(***************************************************************************)
(* Calls, errors and coroutines of the embedded Lua (ldo.c, and what       *)
(* lapi.c, lbaselib.c, ldebug.c and lvm.c add to it).                      *)
(*                                                                         *)
(* `cs' is the stack of the C program: the activations of luaV_execute,    *)
(* luaD_call, luaD_pcall, lua_resume, luaG_errormsg and of C functions,    *)
(* each with the Lua thread it works for.  An activation on top is the one *)
(* that runs; what is left to do when the one above it has returned is an  *)
(* action of its own.  A thread keeps its CallInfo array, the levels of    *)
(* `base' and `top' on its stack and its open upvalues; what the stack     *)
(* holds is left out.  A Lua function has two registers: a local variable  *)
(* and the one from which it calls.  What a function does is left open.    *)
(***************************************************************************)
EXTENDS Integers, Sequences, FiniteSets, SequencesExt

CONSTANTS Main, Coroutines,
          MaxCCalls,    \* LUAI_MAXCCALLS
          CCallsRoom,   \* LUAI_MAXCCALLS>>3: more, for error handlers
          MaxCalls,     \* LUAI_MAXCALLS
          BasicCiSize,  \* BASIC_CI_SIZE
          MaxOpen,      \* bound: open upvalues
          MaxFrames,    \* bound: activations below a new call
          MaxDepth      \* bound: calls of one thread below a new call

ASSUME CallsAssumption ==
  /\ Main \notin Coroutines
  /\ {MaxCCalls, CCallsRoom, MaxCalls, BasicCiSize, MaxOpen, MaxFrames, MaxDepth} \subseteq Nat \ {0}
  /\ BasicCiSize <= MaxCalls

Threads   == Coroutines \cup {Main}
MULTRET   == -1
Registers == 2          \* maxstacksize of a Lua function
NoHandler == 0          \* errfunc

VARIABLES
  cs,      \* the C stack
  thread   \* [status, ci, base, top, nCcalls, baseCcalls, errfunc, size_ci,
           \*  open: the levels of its open upvalues, ran: it was resumed]

vars == <<cs, thread>>

Top  == cs[Len(cs)]
L    == Top.th          \* the running thread
SetLast(s, e) == [s EXCEPT ![Len(s)] = e]
FrameTop(ci) == ci.base + Registers      \* ci->top of a Lua function

(* stack_init *)
BaseCi == [lua |-> FALSE, base |-> 1, nresults |-> MULTRET]

NewThread == [status |-> "ok", ci |-> <<BaseCi>>, base |-> 1, top |-> 1,
              nCcalls |-> 0, baseCcalls |-> 0, errfunc |-> NoHandler,
              size_ci |-> BasicCiSize, open |-> {}, ran |-> FALSE]

(* The program that embeds Lua is the C function at the base of Main. *)
Init ==
  /\ cs = <<[k |-> "C", th |-> Main]>>
  /\ thread = [th \in Threads |-> NewThread]

------------------------------------------------------------------------------
(* Errors *)

IsJump(f) == f.k \in {"pcall", "resume"}

(* L->errorJmp, by its place on the C stack *)
errorJmp(c) == CHOOSE j \in 1..Len(c) :
                 IsJump(c[j]) /\ \A i \in (j + 1)..Len(c) : ~IsJump(c[i])

restore_stack_limit(l) ==
  IF l.size_ci > MaxCalls /\ Len(l.ci) < MaxCalls
  THEN [l EXCEPT !.size_ci = MaxCalls] ELSE l

luaF_close(l, level) == [l EXCEPT !.open = {u \in @ : u < level}]

(* The error branch of luaD_pcall, and adjustresults. *)
Recovered_KeepsDepth(l, f) ==
  LET ci == SubSeq(l.ci, 1, f.old_ci) IN
    restore_stack_limit(
      [luaF_close(l, f.old_top) EXCEPT
         !.ci = ci, !.base = Last(ci).base, !.top = f.old_top + 1,
         !.errfunc = f.old_errfunc])

Recovered(l, f) ==
  LET ci == SubSeq(l.ci, 1, f.old_ci) IN
    restore_stack_limit(
      [luaF_close(l, f.old_top) EXCEPT
         !.ci = ci, !.base = Last(ci).base, !.top = f.old_top + 1,
         !.nCcalls = f.oldnCcalls, !.errfunc = f.old_errfunc])

(* The error branch of lua_resume.  auxresume takes the message away; lua_status
   is all that is looked at from then on, so the rest of the thread is left out. *)
Died(l) == [NewThread EXCEPT !.status = "error", !.ran = TRUE]

(* lua_xmove: n values on the stack of the running C function. *)
Received(l, n) == [l EXCEPT !.top = @ + n]

(* luaD_throw: the C stack is cut at the jump buffer. *)
luaD_throw(c, t) ==
  LET j == errorJmp(c)
      f == c[j]
  IN /\ cs' = SubSeq(c, 1, j - 1)
     /\ thread' = IF f.k = "pcall"
                  THEN [t EXCEPT ![f.th] = Recovered(@, f)]
                  ELSE [t EXCEPT ![f.th] = Died(@),
                                 ![c[j - 1].th] = Received(@, 1)]

(* luaG_runerror, lua_error: the message on the stack, then luaG_errormsg. *)
luaG_runerror(c, t, th) ==
  /\ cs' = Append(c, [k |-> "errormsg", th |-> th, ph |-> "enter"])
  /\ thread' = [t EXCEPT ![th].top = @ + 1]

------------------------------------------------------------------------------
(* Calls *)

(* A new CallInfo.  There are no varargs: base is above the function. *)
Frame(lua, func, nresults) ==
  [lua |-> lua, base |-> func + 1, nresults |-> nresults]

Entered(l, ci, top) == [l EXCEPT !.ci = Append(@, ci), !.base = ci.base, !.top = top]

(* A Lua function runs in the activation of luaV_execute that calls it, or in a
   new one. *)
Reentry(c, th) ==
  IF Last(c).k = "exec" THEN SetLast(c, [Last(c) EXCEPT !.nexeccalls = @ + 1])
  ELSE Append(c, [k |-> "exec", th |-> th, nexeccalls |-> 1])

(* The array of CallInfo is full. *)
inc_ci(l) == Len(l.ci) = l.size_ci

growCI(l) == IF inc_ci(l) THEN [l EXCEPT !.size_ci = 2 * @] ELSE l

(* luaD_precall for a call that makes of the C stack `stack' and of the thread
   `l', once the array of CallInfo has room *)
luaD_precall(c, t, th, stack, l) ==
  IF inc_ci(t[th]) /\ t[th].size_ci > MaxCalls THEN luaD_throw(c, t)
  ELSE IF inc_ci(t[th]) /\ 2 * t[th].size_ci > MaxCalls
    THEN luaG_runerror(c, [t EXCEPT ![th] = growCI(@)], th)
  ELSE /\ cs' = stack
       /\ thread' = [t EXCEPT ![th] = [l EXCEPT !.size_ci = growCI(t[th]).size_ci]]

EnterLua(c, t, th, func, nresults) ==
  LET ci == Frame(TRUE, func, nresults) IN
    luaD_precall(c, t, th, Reentry(c, th), Entered(t[th], ci, FrameTop(ci)))

EnterC(c, t, th, func, nresults) ==
  luaD_precall(c, t, th, Append(c, [k |-> "C", th |-> th]),
               Entered(t[th], Frame(FALSE, func, nresults), t[th].top))

Precall(c, t, th, func, nresults) ==
  \/ EnterLua(c, t, th, func, nresults)
  \/ EnterC(c, t, th, func, nresults)

(* luaD_poscall, with the results from firstResult on *)
luaD_poscall(l, firstResult) ==
  LET ci == Last(l.ci) IN
    [l EXCEPT !.ci = Front(@), !.base = Last(Front(l.ci)).base,
              !.top = ci.base - 1 + IF ci.nresults = MULTRET THEN l.top - firstResult
                                ELSE ci.nresults]

(* The interpreter puts `top' back. *)
BackInLua(l) ==
  IF Last(l.ci).lua THEN [l EXCEPT !.top = FrameTop(Last(l.ci))] ELSE l

CallFrame(th, func, nresults) ==
  [k |-> "call", th |-> th, func |-> func, nresults |-> nresults, ph |-> "enter"]

(* luaD_call ... *)
CallEnters ==
  /\ Top.k = "call" /\ Top.ph = "enter"
  /\ LET c == SetLast(cs, [Top EXCEPT !.ph = "done"])
         t == [thread EXCEPT ![L].nCcalls = @ + 1]
         n == t[L].nCcalls
     IN IF n = MaxCCalls THEN luaG_runerror(c, t, L)
        ELSE IF n >= MaxCCalls + CCallsRoom THEN luaD_throw(c, t)
        ELSE Precall(c, t, L, Top.func, Top.nresults)

(* ... when the function has returned *)
CallReturns ==
  /\ Top.k = "call" /\ Top.ph = "done"
  /\ cs' = Front(cs)
  /\ LET l == [thread[L] EXCEPT !.nCcalls = @ - 1] IN
       thread' = [thread EXCEPT ![L] = IF cs[Len(cs) - 1].k = "exec"
                                       THEN BackInLua(l) ELSE l]

(* luaD_pcall without an error *)
PcallReturns ==
  /\ Top.k = "pcall"
  /\ cs' = Front(cs)
  /\ thread' = [thread EXCEPT ![L].errfunc = Top.old_errfunc]

(* luaG_errormsg calls the handler, which may not be a function ... *)
HandlerCalled ==
  /\ Top.k = "errormsg" /\ Top.ph = "enter"
  /\ IF thread[L].errfunc = NoHandler THEN luaD_throw(cs, thread)
     ELSE \/ luaD_throw(cs, thread)
          \/ /\ cs' = Append(SetLast(cs, [Top EXCEPT !.ph = "done"]),
                             CallFrame(L, thread[L].top - 1, 1))
             /\ thread' = [thread EXCEPT ![L].top = @ + 1]

(* ... and throws what it has returned. *)
HandlerReturns ==
  /\ Top.k = "errormsg" /\ Top.ph = "done"
  /\ luaD_throw(cs, thread)

------------------------------------------------------------------------------
(* The interpreter *)

Running == Top.k = "exec"
Here    == Last(thread[L].ci)       \* L->ci
Flat    == Len(thread[L].ci) <= MaxDepth       \* bound
Shallow == Len(cs) <= MaxFrames /\ Flat        \* bound

CallReg == Here.base + Registers - 1

OP_CALL ==
  /\ Running /\ Flat
  /\ Precall(cs, [thread EXCEPT ![L].top = CallReg + 1], L, CallReg, 1)

(* The new frame takes the place of the calling one.  (Of a C function it is a
   call like another one, and an OP_RETURN follows.) *)
OP_TAILCALL ==
  /\ Running /\ Flat
  /\ luaD_precall(cs, [thread EXCEPT ![L].top = CallReg + 1], L, cs,
                  [luaF_close(thread[L], Here.base) EXCEPT !.top = FrameTop(Here)])

(* A metamethod, or the iterator of OP_TFORLOOP, is called through luaD_call. *)
CallsMetamethod ==
  /\ Running /\ Shallow
  /\ cs' = Append(cs, CallFrame(L, FrameTop(Here), 1))
  /\ thread' = [thread EXCEPT ![L].top = FrameTop(Here) + 1]

(* OP_CLOSURE captures the local variable; OP_CLOSE ends its block. *)
OP_CLOSURE ==
  /\ Running
  /\ MapThenSumSet(LAMBDA th : Cardinality(thread[th].open), Threads) < MaxOpen
  /\ thread' = [thread EXCEPT ![L].open = @ \cup {Here.base}]
  /\ UNCHANGED cs

OP_CLOSE ==
  /\ Running
  /\ thread' = [thread EXCEPT ![L] = luaF_close(@, Here.base)]
  /\ UNCHANGED cs

OP_RETURN ==
  /\ Running
  /\ \E n \in 0..1 :
       LET l == [luaF_close(thread[L], Here.base) EXCEPT !.top = Here.base + n]
           r == luaD_poscall(l, Here.base)
       IN IF Top.nexeccalls = 1
          THEN cs' = Front(cs) /\ thread' = [thread EXCEPT ![L] = r]
          ELSE /\ cs' = SetLast(cs, [Top EXCEPT !.nexeccalls = @ - 1])
               /\ thread' = [thread EXCEPT ![L] = BackInLua(r)]

RaisesError ==
  /\ Running
  /\ luaG_runerror(cs, thread, L)

Interpreter ==
  \/ OP_CALL \/ OP_TAILCALL \/ CallsMetamethod \/ OP_CLOSURE \/ OP_CLOSE
  \/ OP_RETURN \/ RaisesError

------------------------------------------------------------------------------
(* C functions *)

InC    == Top.k = "C"
Called == InC /\ Len(cs) > 1        \* not the program that embeds Lua
CanPush == thread[L].top = thread[L].base   \* bound: it keeps nothing meanwhile

Pushed(n) == [thread EXCEPT ![L].top = @ + n]

lua_call(nresults) ==
  /\ Called /\ CanPush /\ Shallow
  /\ cs' = Append(cs, CallFrame(L, thread[L].top, nresults))
  /\ thread' = Pushed(1)

(* pcall, and xpcall, whose handler is below the function *)
lua_pcall(nresults, handler) ==
  /\ InC /\ CanPush /\ Shallow
  /\ LET func == thread[L].top + IF handler THEN 1 ELSE 0 IN
       /\ cs' = cs \o << [k |-> "pcall", th |-> L, oldnCcalls |-> thread[L].nCcalls,
                          old_ci |-> Len(thread[L].ci), old_top |-> func,
                          old_errfunc |-> thread[L].errfunc],
                         CallFrame(L, func, nresults) >>
       /\ thread' = [thread EXCEPT
                       ![L].top = func + 1,
                       ![L].errfunc = IF handler THEN thread[L].base ELSE NoHandler]

lua_error ==
  /\ Called
  /\ luaG_runerror(cs, thread, L)

(* A C function returns n results, to the interpreter or to luaD_call. *)
Returns(n) ==
  /\ Called /\ n <= thread[L].top - thread[L].base
  /\ cs' = Front(cs)
  /\ LET r == luaD_poscall(thread[L], thread[L].top - n) IN
       thread' = [thread EXCEPT ![L] = IF cs[Len(cs) - 1].k = "exec"
                                       THEN BackInLua(r) ELSE r]

lua_settop ==
  /\ InC /\ thread[L].top > thread[L].base
  /\ thread' = [thread EXCEPT ![L].top = thread[L].base]
  /\ UNCHANGED cs

(* coroutine.create: a Lua function on a new stack *)
luaB_cocreate(co) ==
  /\ InC
  /\ ~thread[co].ran /\ thread[co].top = thread[co].base
  /\ thread' = [thread EXCEPT ![co].top = @ + 1]
  /\ UNCHANGED cs

(* coroutine.status *)
costatus_StackOnly(co) ==
  IF co = L THEN "running"
  ELSE IF thread[co].status = "yield" THEN "suspended"
  ELSE IF thread[co].status # "ok" THEN "dead"
  ELSE IF thread[co].top = thread[co].base THEN "dead"
  ELSE "suspended"

costatus(co) ==
  IF co = L THEN "running"
  ELSE IF thread[co].status = "yield" THEN "suspended"
  ELSE IF thread[co].status # "ok" THEN "dead"
  ELSE IF Len(thread[co].ci) > 1 THEN "normal"
  ELSE IF thread[co].top = thread[co].base THEN "dead"
  ELSE "suspended"

(* lua_resume at the limit of C calls: resume_error, whose message auxresume
   takes *)
resume_error(t, co) ==
  [t EXCEPT ![co].top = Last(t[co].ci).base, ![L] = Received(@, 1)]

(* resume: a first call, or the end of the call that has yielded *)
Starts(c, t, co) == EnterLua(c, t, co, t[co].top - 1, MULTRET)

Continues_OneCall(c, t, co) ==
  LET l == luaD_poscall([t[co] EXCEPT !.status = "ok"], t[co].top) IN
    /\ cs' = Append(c, [k |-> "exec", th |-> co, nexeccalls |-> 1])
    /\ thread' = [t EXCEPT ![co] = BackInLua(l)]

Continues(c, t, co) ==
  LET l == luaD_poscall([t[co] EXCEPT !.status = "ok"], t[co].top) IN
    /\ cs' = Append(c, [k |-> "exec", th |-> co, nexeccalls |-> Len(l.ci) - 1])
    /\ thread' = [t EXCEPT ![co] = BackInLua(l)]

(* auxresume: lua_setlevel gives the coroutine the depth of the resumer. *)
Resumes(co) ==
  /\ InC /\ CanPush /\ costatus(co) = "suspended"
  /\ LET n == thread[L].nCcalls
         t == [thread EXCEPT ![co].nCcalls = n + 1, ![co].baseCcalls = n + 1,
                             ![co].ran = TRUE]
         c == Append(cs, [k |-> "resume", th |-> co])
     IN IF n >= MaxCCalls THEN cs' = cs /\ thread' = resume_error(thread, co)
        ELSE /\ Shallow
             /\ IF thread[co].status = "yield" THEN Continues(c, t, co)
                ELSE Starts(c, t, co)

(* lua_resume ends, by a yield or by the end of the function; auxresume moves
   the results, unless there are too many of them.  The depth of a thread that
   does not run is not read before lua_setlevel writes it anew: it is 0 here. *)
ResumeReturns ==
  /\ Top.k = "resume"
  /\ LET co == Top.th
         to == cs[Len(cs) - 1].th
         n  == thread[co].top - thread[co].base
         t  == [thread EXCEPT ![co].nCcalls = 0, ![co].baseCcalls = 0]
     IN \/ /\ cs' = Front(cs)
           /\ thread' = [t EXCEPT ![co].top = @ - n, ![to] = Received(@, n)]
        \/ /\ n > 0 /\ Len(cs) > 2
           /\ luaG_runerror(Front(cs), t, to)

(* coroutine.yield: all values of the C function, which returns -1, and so does
   the interpreter. *)
lua_yield_MainToo ==
  /\ Called
  /\ IF thread[L].nCcalls > thread[L].baseCcalls + 1 THEN luaG_runerror(cs, thread, L)
     ELSE /\ cs' = IF cs[Len(cs) - 1].k = "exec" THEN SubSeq(cs, 1, Len(cs) - 2)
                   ELSE Front(cs)
          /\ thread' = [thread EXCEPT ![L].status = "yield"]

lua_yield ==
  /\ Called
  /\ IF thread[L].nCcalls > thread[L].baseCcalls THEN luaG_runerror(cs, thread, L)
     ELSE /\ cs' = IF cs[Len(cs) - 1].k = "exec" THEN SubSeq(cs, 1, Len(cs) - 2)
                   ELSE Front(cs)
          /\ thread' = [thread EXCEPT ![L].status = "yield"]

CFunction ==
  \/ lua_call(0) \/ \E h \in BOOLEAN : lua_pcall(MULTRET, h)
  \/ \E n \in 0..1 : Returns(n)
  \/ \E co \in Coroutines : luaB_cocreate(co) \/ Resumes(co)
  \/ lua_error \/ lua_yield \/ lua_settop

Next ==
  \/ CallEnters \/ CallReturns \/ PcallReturns \/ HandlerCalled \/ HandlerReturns
  \/ ResumeReturns \/ Interpreter \/ CFunction

Spec == Init /\ [][Next]_vars

------------------------------------------------------------------------------
Levels == Nat

CallInfo == [lua : BOOLEAN, base : Levels, nresults : {MULTRET, 0, 1}]

TypeOK ==
  /\ cs # <<>> /\ cs[1] = [k |-> "C", th |-> Main]
  /\ \A i \in 1..Len(cs) :
       /\ cs[i].k \in {"C", "exec", "call", "pcall", "resume", "errormsg"}
       /\ cs[i].th \in Threads
  /\ \A th \in Threads :
       LET l == thread[th] IN
         /\ l.status \in {"ok", "yield", "error"}
         /\ l.ci # <<>> /\ \A i \in 1..Len(l.ci) : l.ci[i] \in CallInfo
         /\ Len(l.ci) <= l.size_ci /\ l.size_ci <= 2 * MaxCalls
         /\ l.base \in Levels /\ l.top \in Levels /\ l.base <= l.top
         /\ l.nCcalls \in Nat /\ l.baseCcalls \in Nat
         /\ l.open \subseteq Levels /\ l.errfunc \in Levels /\ l.ran \in BOOLEAN

Live(th) == \E i \in 1..Len(cs) : cs[i].th = th

(* Activations that count as C calls; a luaD_call counts once it is under way. *)
Counted(f) == f.k = "resume" \/ (f.k = "call" /\ f.ph = "done")

Nested(c, i) == Cardinality({j \in 1..i : Counted(c[j])})

(* ldo.c: nCcalls is the number of C calls that are really nested, over all the
   coroutines that wait for one another, whatever way out the earlier calls
   took: so that the limit bounds the stack of the C program. *)
CDepthExact ==
  LET n == Nested(cs, Len(cs)) IN
    /\ TypeOK
    /\ thread[L].nCcalls = n
    /\ n <= MaxCCalls + CCallsRoom

(* How many entries of the CallInfo array of its thread an activation answers
   for: luaV_execute for each of its Lua functions, a C function for its own, and
   lua_resume for the one that a new thread begins with. *)
Width(f) ==
  IF f.k = "exec" THEN f.nexeccalls ELSE IF f.k \in {"C", "resume"} THEN 1 ELSE 0

(* The entries of a thread that belong to the first i activations. *)
Entries(c, th, i) ==
  Cardinality(UNION {{j} \X (1..Width(c[j])) : j \in {j \in 1..i : c[j].th = th}})

(* The CallInfo array of a thread and the C stack tell the same story: the array
   has the entries of the thread's activations and no other, in their order, and
   those of Lua functions are luaV_execute's. *)
FramesMatch ==
  \A th \in Threads : Live(th) /\ thread[th].status = "ok" =>
    /\ Len(thread[th].ci) = Entries(cs, th, Len(cs))
    /\ \A i \in 1..Len(cs) : cs[i].th = th /\ Width(cs[i]) > 0 =>
         LET last == Entries(cs, th, i) IN
           \A m \in 1..Len(thread[th].ci) : (last - Width(cs[i]) < m /\ m <= last) =>
             (thread[th].ci[m].lua <=> cs[i].k = "exec")

(* When the interpreter goes on, its registers are where it left them, and the
   open upvalues are those of functions that have not ended. *)
FrameRestored ==
  /\ Running => /\ thread[L].base = Here.base /\ Here.lua
                /\ thread[L].top = FrameTop(Here)
  /\ \A th \in Threads : thread[th].status # "error" =>
       \A u \in thread[th].open : \E i \in 1..Len(thread[th].ci) :
         /\ thread[th].ci[i].lua
         /\ thread[th].ci[i].base <= u /\ u < FrameTop(thread[th].ci[i])

(* The handler is that of the innermost protected call of the thread, if it has
   one, and never that of a call that has ended. *)
HandlerIsInnermost ==
  \A th \in Threads : Live(th) =>
    LET p == {i \in 1..Len(cs) : cs[i].k = "pcall" /\ cs[i].th = th} IN
      thread[th].errfunc \in {NoHandler} \cup
        IF p = {} THEN {} ELSE {cs[Max(p)].old_top - 1}

(* ldo.c, lvm.c: after every return, error and resumption, whoever goes on finds
   its frames, registers, upvalues and error handler as it left them. *)
CallersRestored == FramesMatch /\ FrameRestored /\ HandlerIsInnermost

(* ldo.c:447: a yield never cuts off C code: all it leaves behind is the
   interpreter, which resume starts again. *)
YieldsCutNothing ==
  \A th \in Threads : thread[th].status = "yield" =>
    /\ Live(th) => Top.k = "resume" /\ L = th
                   /\ thread[th].nCcalls = thread[th].baseCcalls
    /\ \A i \in 2..Len(thread[th].ci) : thread[th].ci[i].lua <=> i < Len(thread[th].ci)

(* lbaselib.c: coroutine.status tells a coroutine that waits for another one
   from one that can be resumed. *)
StatusIsTrue ==
  InC => \A co \in Coroutines \ {L} : Live(co) <=> costatus(co) = "normal"

==============================================================================
