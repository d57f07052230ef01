------------------------------- MODULE LuaGC -------------------------------
(***************************************************************************)
(* The incremental collector of lgc.c with the parts of the runtime that   *)
(* have to cooperate with it: allocation, the write barriers, open and     *)
(* closed upvalues (lfunc.c), coroutines, interned strings (lstring.c),    *)
(* weak tables and userdata with a __gc metamethod.                        *)
(*                                                                         *)
(* An address has one kind for good.  A stack, a table or a closure is the *)
(* set of objects it refers to; the order of a list the collector walks is *)
(* left open, and it sweeps one object at a time.  The mutator may run     *)
(* between any two steps of the collector, as luaC_checkGC lets it.        *)
(***************************************************************************)
EXTENDS Naturals, FiniteSets

CONSTANTS Objs,     \* addresses
          Main,     \* the main thread
          Globals,  \* the table of globals, perhaps one with weak values; stands
                    \* for the registry as well
          Kind,     \* what is allocated at an address
          None      \* no thread: the upvalue is closed

Kinds == {"thread", "table", "weakkey", "weakvalue", "weakboth", "closure",
          "udata", "string", "upval"}

ASSUME ObjsAssumption ==
  /\ None \notin Objs
  /\ Main \in Objs /\ Globals \in Objs
  /\ Kind \in [Objs -> Kinds]
  /\ Kind[Main] = "thread" /\ Kind[Globals] \in {"table", "weakvalue"}

Of(kinds) == {o \in Objs : Kind[o] \in kinds}
Threads   == Of({"thread"})
WeakTabs  == Of({"weakkey", "weakvalue", "weakboth"})
Tables    == Of({"table"}) \cup WeakTabs
Udata     == Of({"udata"})
Strings   == Of({"string"})
Upvals    == Of({"upval"})
Values    == Objs \ Upvals         \* what a variable can hold

VARIABLES
  alive,      \* allocated addresses
  mark,       \* the colour bits of `marked'; gray is no bit at all
  finalized,  \* userdata with FINALIZEDBIT
  ptr,        \* references of an object; weak tables keep theirs in `entry'
  entry,      \* <<key, value>> pairs of a weak table
  openin,     \* the thread whose stack slot an open upvalue refers to
  running,    \* the running thread, L
  gcstate,
  white,      \* currentwhite
  gray, grayagain, weak,  \* the collector's lists
  unswept,    \* what sweepstrgc and sweepgc still have before them
  tmudata,    \* userdata that wait for their finalizer
  full        \* inside luaC_fullgc: "reset", then "cycle"; else "no"

heap  == <<alive, ptr, entry, openin, running>>
lists == <<gray, grayagain, weak>>
cycle == <<gcstate, white, unswept, tmudata, full>>
vars  == <<heap, mark, finalized, lists, cycle>>

Whites == {"white0", "white1"}
OtherWhite == IF white = "white0" THEN "white1" ELSE "white0"
isdead(o) == mark[o] = OtherWhite

(* luaC_fullgc lets nothing else run but the finalizers at its end. *)
MutatorRuns == full = "no" \/ (full = "cycle" /\ gcstate = "finalize")

(* The open upvalues of a thread hold the captured slots of its stack. *)
OpenUpvals(th) == {u \in alive \cap Upvals : openin[u] = th}
Stack(th) == ptr[th] \cup UNION {ptr[u] : u \in OpenUpvals(th)}

Init ==
  /\ alive = {Main, Globals}
  /\ mark = [o \in Objs |-> "white0"] /\ white = "white0"
  /\ finalized = {} /\ tmudata = {}
  /\ ptr = [o \in Objs |-> {}] /\ entry = [o \in Objs |-> {}]
  /\ openin = [o \in Objs |-> None] /\ running = Main
  /\ gcstate = "pause" /\ gray = {} /\ grayagain = {} /\ weak = {}
  /\ unswept = {} /\ full = "no"

------------------------------------------------------------------------------
(* Marking, on a record of the colours and the lists *)

Marks == [mark |-> mark, gray |-> gray, grayagain |-> grayagain, weak |-> weak]

Become(m) == /\ mark' = m.mark /\ gray' = m.gray
             /\ grayagain' = m.grayagain /\ weak' = m.weak

WhiteIn(m) == {o \in alive : m.mark[o] \in Whites}

(* The least set of members of W that holds those of X and is closed under
   edges within W. *)
Closure(X, edges(_), W) ==
  LET base   == X \cap W
      rest   == W \ X
      next   == (UNION {edges(a) : a \in base}) \cap rest
      closed == {S \in SUBSET rest :
                   next \subseteq S /\ \A a \in S : edges(a) \cap rest \subseteq S}
  IN base \cup {o \in rest : \A S \in closed : o \in S}

(* What traversing an object marks. *)
Children(o) ==
  CASE Kind[o] = "thread"    -> Stack(o)
    [] Kind[o] = "weakkey"   -> {e[2] : e \in entry[o]}
    [] Kind[o] = "weakvalue" -> {e[1] : e \in entry[o]}
    [] Kind[o] = "weakboth"  -> {}
    [] OTHER                 -> ptr[o]

(* reallymarkobject goes on at once through userdata and upvalues. *)
Immediate(o) == IF Kind[o] \in {"udata", "upval"} THEN ptr[o] ELSE {}

Listed(o) == Kind[o] \notin {"udata", "upval", "string"}

Marked(o) ==
  IF Kind[o] = "udata" \/ (Kind[o] = "upval" /\ openin[o] = None)
  THEN "black" ELSE "gray"

reallymarkobject(m, X) ==
  LET S == Closure(X, Immediate, WhiteIn(m)) IN
    [m EXCEPT !.mark = [o \in Objs |-> IF o \in S THEN Marked(o) ELSE @[o]],
              !.gray = @ \cup {o \in S : Listed(o)}]

(* The colour of an object once it has been traversed. *)
Traversed(o) == IF Kind[o] = "thread" \/ o \in WeakTabs THEN "gray"
                ELSE IF Listed(o) THEN "black" ELSE Marked(o)

(* What is traversed by the time no gray object is left in the list. *)
Done(m) ==
  m.gray \cup Closure(UNION {Children(o) : o \in m.gray}, Children, WhiteIn(m))

propagateall(m) ==
  LET done == Done(m) IN
    [mark      |-> [o \in Objs |-> IF o \in done THEN Traversed(o) ELSE m.mark[o]],
     gray      |-> {},
     grayagain |-> m.grayagain \cup (done \cap Threads),
     weak      |-> m.weak \cup (done \cap WeakTabs)]

makewhite(m, X) == [m EXCEPT !.mark = [o \in Objs |-> IF o \in X THEN white ELSE @[o]]]

------------------------------------------------------------------------------
(* The collector: singlestep *)

markroot ==
  /\ Become(reallymarkobject([Marks EXCEPT !.gray = {}, !.grayagain = {}, !.weak = {}],
                             {Main, Globals}))
  /\ gcstate' = "propagate"

StartCycle ==
  /\ gcstate = "pause"
  /\ markroot
  /\ UNCHANGED <<heap, finalized, white, unswept, tmudata, full>>

propagatemark(o) ==
  /\ gcstate = "propagate" /\ o \in gray
  /\ LET m == reallymarkobject([Marks EXCEPT !.gray = @ \ {o}], Children(o)) IN
       Become([m EXCEPT !.mark[o] = Traversed(o),
                        !.grayagain = @ \cup ({o} \cap Threads),
                        !.weak = @ \cup ({o} \cap WeakTabs)])
  /\ UNCHANGED <<heap, finalized, cycle>>

remarkupvals_Skipped(m) == m

remarkupvals(m) ==
  reallymarkobject(m, UNION {ptr[u] : u \in {v \in alive \cap Upvals :
                                openin[v] # None /\ m.mark[v] = "gray"}})

(* luaC_separateudata: what is to be finalized now. *)
separateudata_Again(m) == Udata \cap WhiteIn(m)

separateudata(m) == (Udata \cap WhiteIn(m)) \ finalized

(* iscleared on the two halves of an entry; a string is never cleared, and is
   marked on the way. *)
KeyCleared(m, k) == k \notin Strings /\ m.mark[k] \in Whites
ValueCleared(m, v, fin) ==
  v \notin Strings /\ (m.mark[v] \in Whites \/ v \in fin)

Cleared_ValueOnly(m, fin, e) == ValueCleared(m, e[2], fin)

Cleared(m, fin, e) == KeyCleared(m, e[1]) \/ ValueCleared(m, e[2], fin)

cleartable(m, fin) ==
  [t \in Objs |-> IF t \in m.weak THEN {e \in entry[t] : ~Cleared(m, fin, e)}
                  ELSE entry[t]]

StringsKept(m) ==
  {s \in Strings : \E t \in m.weak : \E e \in entry[t] :
     s = e[1] \/ (s = e[2] /\ ~KeyCleared(m, e[1]))}

(* atomic: remark, weak tables again, gray again, separate userdata, mark the
   ones to be finalized, clear weak tables, flip. *)
atomic ==
  /\ gcstate = "propagate" /\ gray = {}
  /\ LET m1 == propagateall(remarkupvals(Marks))
         m2 == propagateall(reallymarkobject(
                 [m1 EXCEPT !.gray = m1.weak, !.weak = {}], {running}))
         m3 == propagateall([m2 EXCEPT !.gray = m2.grayagain, !.grayagain = {}])
         separated == separateudata(m3)
         fin == finalized \cup separated
         tmu == tmudata \cup separated
         m4 == propagateall(reallymarkobject(makewhite(m3, tmu), tmu))
     IN /\ finalized' = fin /\ tmudata' = tmu
        /\ entry' = cleartable(m4, fin)
        /\ Become([m4 EXCEPT !.mark = [o \in Objs |->
                     IF o \in StringsKept(m4) THEN "gray" ELSE @[o]]])
        /\ unswept' = {o \in alive \ tmu : openin[o] = None}
  /\ white' = OtherWhite
  /\ gcstate' = "sweepstring"
  /\ UNCHANGED <<alive, ptr, openin, running, full>>

(* Sweeping a thread sweeps its open upvalues first.  A dead one that is freed
   leaves its slot to the stack; the stack of a thread that is freed is closed,
   which leaves its values in the upvalues that live. *)
sweeplist(o) ==
  LET ups  == IF o \in Threads THEN OpenUpvals(o) ELSE {}
      dead == {x \in {o} \cup ups : isdead(x)}
      slots == UNION {ptr[u] : u \in dead \cap ups}
  IN /\ alive' = alive \ dead
     /\ mark' = [x \in Objs |-> IF x \in {o} \cup ups THEN white ELSE mark[x]]
     /\ ptr' = [x \in Objs |-> IF x \in dead THEN {}
                               ELSE IF x = o THEN ptr[o] \cup slots ELSE ptr[x]]
     /\ entry' = [x \in Objs |-> IF x \in dead THEN {} ELSE entry[x]]
     /\ openin' = [x \in Objs |-> IF x \in ups /\ (isdead(o) \/ x \in dead)
                                  THEN None ELSE openin[x]]
     /\ finalized' = finalized \ dead
     /\ unswept' = unswept \ {o}
     /\ UNCHANGED <<running, lists, white, tmudata, full>>

SweepString(o) ==
  /\ gcstate = "sweepstring" /\ o \in unswept \cap Strings
  /\ sweeplist(o)
  /\ gcstate' = "sweepstring"

EndSweepString ==
  /\ gcstate = "sweepstring" /\ unswept \cap Strings = {}
  /\ gcstate' = "sweep"
  /\ UNCHANGED <<heap, mark, finalized, lists, white, unswept, tmudata, full>>

Sweep(o) ==
  /\ gcstate = "sweep" /\ o \in unswept
  /\ sweeplist(o)
  /\ gcstate' = "sweep"

EndSweep_Early ==
  /\ gcstate = "sweep"
  /\ gcstate' = "finalize"
  /\ UNCHANGED <<heap, mark, finalized, lists, white, unswept, tmudata, full>>

EndSweep ==
  /\ gcstate = "sweep" /\ unswept = {}
  /\ gcstate' = "finalize"
  /\ UNCHANGED <<heap, mark, finalized, lists, white, unswept, tmudata, full>>

(* GCTM: back to the list of all objects, white; its finalizer runs on L, with
   the userdata as its argument. *)
GCTM(u) ==
  /\ gcstate = "finalize" /\ full # "reset" /\ u \in tmudata
  /\ tmudata' = tmudata \ {u}
  /\ mark' = [mark EXCEPT ![u] = white]
  /\ ptr' = [ptr EXCEPT ![running] = @ \cup {u}]
  /\ UNCHANGED <<alive, entry, openin, running, finalized, lists, gcstate, white,
                 unswept, full>>

EndCycle ==
  /\ gcstate = "finalize" /\ tmudata = {} /\ full # "reset"
  /\ gcstate' = "pause" /\ full' = "no"
  /\ UNCHANGED <<heap, mark, finalized, lists, white, unswept, tmudata>>

(* luaC_fullgc: give up a mark phase, or finish a sweep ... *)
BeginFullGC_NoSweep ==
  /\ MutatorRuns
  /\ full' = "reset"
  /\ IF gcstate \in {"pause", "propagate"}
     THEN /\ unswept' = {} /\ gray' = {} /\ grayagain' = {} /\ weak' = {}
          /\ gcstate' = "sweepstring"
     ELSE UNCHANGED <<unswept, lists, gcstate>>
  /\ UNCHANGED <<heap, mark, finalized, white, tmudata>>

BeginFullGC ==
  /\ MutatorRuns
  /\ full' = "reset"
  /\ IF gcstate \in {"pause", "propagate"}
     THEN /\ unswept' = {o \in alive \ tmudata : openin[o] = None}
          /\ gray' = {} /\ grayagain' = {} /\ weak' = {}
          /\ gcstate' = "sweepstring"
     ELSE UNCHANGED <<unswept, lists, gcstate>>
  /\ UNCHANGED <<heap, mark, finalized, white, tmudata>>

(* ... then run a whole cycle from markroot, whatever tmudata still holds. *)
RestartFullGC ==
  /\ full = "reset" /\ gcstate = "finalize"
  /\ markroot
  /\ full' = "cycle"
  /\ UNCHANGED <<heap, finalized, white, unswept, tmudata>>

Collector ==
  \/ StartCycle \/ atomic \/ EndSweepString \/ EndSweep \/ EndCycle
  \/ RestartFullGC
  \/ \E o \in Objs : propagatemark(o) \/ SweepString(o) \/ Sweep(o) \/ GCTM(o)

------------------------------------------------------------------------------
(* The mutator: the running thread works on what its stack and the globals
   lead to *)

Local == Stack(running) \cup {Globals}

(* The values it may store; the globals table is a root, so references to it
   are left out. *)
Operands == (Stack(running) \cap Values) \ {Globals}

(* The values one access away: fields, captured variables, entries of weak
   tables, slots of another thread. *)
Fields(o) ==
  LET refs == IF Kind[o] = "thread" THEN Stack(o) ELSE ptr[o] IN
    (refs \cap Values) \cup (UNION {ptr[u] : u \in refs \cap Upvals})
      \cup {e[1] : e \in entry[o]} \cup {e[2] : e \in entry[o]}

Push(o) == ptr' = [ptr EXCEPT ![running] = @ \cup {o}]

(* luaC_link: a new object has the current white, and goes on the stack. *)
New(o) ==
  /\ MutatorRuns
  /\ o \in Values \ alive
  /\ alive' = alive \cup {o}
  /\ mark' = [mark EXCEPT ![o] = white]
  /\ Push(o)
  /\ UNCHANGED <<entry, openin, running, finalized, lists, cycle>>

(* luaS_newlstr finds the string in the table, perhaps a dead one that is not
   swept yet: changewhite takes it back. *)
InternString(s) ==
  /\ MutatorRuns
  /\ s \in Strings \cap alive
  /\ mark' = [mark EXCEPT ![s] = IF isdead(s) THEN white ELSE @]
  /\ Push(s)
  /\ UNCHANGED <<alive, entry, openin, running, finalized, lists, cycle>>

Load(o) ==
  /\ MutatorRuns
  /\ o \in (UNION {Fields(x) : x \in Local}) \ ptr[running]
  /\ Push(o)
  /\ UNCHANGED <<alive, entry, openin, running, mark, finalized, lists, cycle>>

Pop(o) ==
  /\ MutatorRuns
  /\ o \in ptr[running]
  /\ ptr' = [ptr EXCEPT ![running] = @ \ {o}]
  /\ UNCHANGED <<alive, entry, openin, running, mark, finalized, lists, cycle>>

(* luaC_barriert, luaC_barrierback: a black table that gets a white reference
   becomes gray again, to be traversed in the atomic step. *)
BackBarrier_None(t, X) == UNCHANGED <<mark, lists>>

BackBarrier(t, X) ==
  IF mark[t] = "black" /\ \E x \in X : mark[x] \in Whites
  THEN /\ mark' = [mark EXCEPT ![t] = "gray"]
       /\ grayagain' = grayagain \cup {t}
       /\ UNCHANGED <<gray, weak>>
  ELSE UNCHANGED <<mark, lists>>

(* luaC_barrier, luaC_barrierf: mark the white object while marking; else just
   make the black one white, which saves further barriers. *)
Blocks(o, x) == mark[o] = "black" /\ mark[x] \in Whites

ForwardBarrier_None(o, x) == UNCHANGED <<mark, lists>>

ForwardBarrier(o, x) ==
  IF ~Blocks(o, x) THEN UNCHANGED <<mark, lists>>
  ELSE IF gcstate = "propagate" THEN Become(reallymarkobject(Marks, {x}))
  ELSE Become(makewhite(Marks, {o}))

(* A new element of a table, or its metatable. *)
SetTable(t, x) ==
  /\ MutatorRuns
  /\ t \in Local /\ Kind[t] = "table" /\ x \in Operands
  /\ ptr' = [ptr EXCEPT ![t] = @ \cup {x}]
  /\ BackBarrier(t, {x})
  /\ UNCHANGED <<alive, entry, openin, running, finalized, cycle>>

(* A new key of a weak table gets its barrier from newkey, the value from the
   assignment; a key has one value. *)
SetWeak(t, k, v) ==
  /\ MutatorRuns
  /\ t \in Local \cap WeakTabs /\ {k, v} \subseteq Operands
  /\ entry' = [entry EXCEPT ![t] = {e \in @ : e[1] # k} \cup {<<k, v>>}]
  /\ BackBarrier(t, {k, v})
  /\ UNCHANGED <<alive, ptr, openin, running, finalized, cycle>>

(* A nil value takes an entry out. *)
ClearWeak(t, e) ==
  /\ MutatorRuns
  /\ t \in Local \cap WeakTabs /\ e \in entry[t]
  /\ entry' = [entry EXCEPT ![t] = @ \ {e}]
  /\ UNCHANGED <<alive, ptr, openin, running, mark, finalized, lists, cycle>>

(* The upvalue of a C function, the environment of a function, the metatable
   or the environment of a userdata. *)
SetField(o, x) ==
  /\ MutatorRuns
  /\ o \in Local /\ x \in Operands
  /\ Kind[o] = "closure" \/ (Kind[o] = "udata" /\ x \in Tables)
  /\ ptr' = [ptr EXCEPT ![o] = @ \cup {x}]
  /\ ForwardBarrier(o, x)
  /\ UNCHANGED <<alive, entry, openin, running, finalized, cycle>>

(* A reference is overwritten by something else. *)
Clear(o, x) ==
  /\ MutatorRuns
  /\ o \in Local \ Threads /\ x \in ptr[o] \cap Values
  /\ ptr' = [ptr EXCEPT ![o] = @ \ {x}]
  /\ UNCHANGED <<alive, entry, openin, running, mark, finalized, lists, cycle>>

(* OP_CLOSURE captures a local variable that holds x: luaF_findupval makes an
   open upvalue for its slot. *)
CaptureNew(c, u, x) ==
  /\ MutatorRuns
  /\ c \notin alive /\ Kind[c] = "closure"
  /\ u \in Upvals \ alive /\ x \in ptr[running] \cap Values
  /\ alive' = alive \cup {c, u}
  /\ mark' = [mark EXCEPT ![c] = white, ![u] = white]
  /\ ptr' = [ptr EXCEPT ![c] = {u}, ![u] = {x},
                        ![running] = (@ \ {x}) \cup {c}]
  /\ openin' = [openin EXCEPT ![u] = running]
  /\ UNCHANGED <<entry, running, finalized, lists, cycle>>

(* ... or finds the open one, perhaps dead and not swept yet. *)
CaptureAgain(c, u) ==
  /\ MutatorRuns
  /\ c \notin alive /\ Kind[c] = "closure"
  /\ u \in OpenUpvals(running)
  /\ alive' = alive \cup {c}
  /\ mark' = [mark EXCEPT ![c] = white, ![u] = IF isdead(u) THEN white ELSE @]
  /\ ptr' = [ptr EXCEPT ![c] = {u}, ![running] = @ \cup {c}]
  /\ UNCHANGED <<entry, openin, running, finalized, lists, cycle>>

(* OP_SETUPVAL, in a closure that the stack holds. *)
SetUpval(c, u, x) ==
  /\ MutatorRuns
  /\ c \in Local /\ Kind[c] = "closure" /\ u \in ptr[c] \cap Upvals
  /\ x \in Operands
  /\ ptr' = [ptr EXCEPT ![u] = {x}]
  /\ ForwardBarrier(u, x)
  /\ UNCHANGED <<alive, entry, openin, running, finalized, cycle>>

(* An upvalue that is closed as gray becomes black while marking, with its
   barrier, and white while sweeping. *)
luaC_linkupval_NoBarrier(u) ==
  IF mark[u] = "gray" THEN Become([Marks EXCEPT !.mark[u] = "black"])
  ELSE UNCHANGED <<mark, lists>>

luaC_linkupval(u) ==
  IF mark[u] # "gray" THEN UNCHANGED <<mark, lists>>
  ELSE IF gcstate = "propagate"
  THEN Become(reallymarkobject([Marks EXCEPT !.mark[u] = "black"], ptr[u]))
  ELSE Become(makewhite(Marks, {u}))

(* luaF_close on a captured slot, which leaves the stack: a dead upvalue is
   freed, a live one keeps the value. *)
CloseUpval(u) ==
  /\ MutatorRuns
  /\ u \in OpenUpvals(running)
  /\ openin' = [openin EXCEPT ![u] = None]
  /\ IF isdead(u)
     THEN /\ alive' = alive \ {u} /\ ptr' = [ptr EXCEPT ![u] = {}]
          /\ UNCHANGED <<mark, lists>>
     ELSE UNCHANGED <<alive, ptr>> /\ luaC_linkupval(u)
  /\ UNCHANGED <<entry, running, finalized, cycle>>

(* lua_resume and lua_yield: a thread takes over; what it is given is moved to
   its stack without a barrier. *)
Switch(th, X) ==
  /\ MutatorRuns
  /\ th \in (Local \cup {Main}) \cap Threads /\ th # running
  /\ X \subseteq ptr[running] \cap Values
  /\ running' = th
  /\ ptr' = [ptr EXCEPT ![th] = @ \cup X]
  /\ UNCHANGED <<alive, entry, openin, mark, finalized, lists, cycle>>

Mutator ==
  \/ BeginFullGC
  \/ \E o \in Objs : New(o) \/ InternString(o) \/ Load(o) \/ Pop(o)
  \/ \E o \in Local : \/ \E x \in Operands : SetTable(o, x) \/ SetField(o, x)
                      \/ \E k, v \in Operands : SetWeak(o, k, v)
                      \/ \E x \in ptr[o] : Clear(o, x)
                      \/ \E e \in entry[o] : ClearWeak(o, e)
  \/ \E c \in Values, u \in Upvals : \/ \E x \in ptr[running] : CaptureNew(c, u, x)
                                     \/ CaptureAgain(c, u)
  \/ \E c \in Local, u \in Upvals, x \in Operands : SetUpval(c, u, x)
  \/ \E u \in Upvals : CloseUpval(u)
  \/ \E th \in Threads, X \in SUBSET ptr[running] :
       Cardinality(X) <= 1 /\ Switch(th, X)

Next == Collector \/ Mutator

(* luaC_step is reached again and again as long as the program allocates; the
   collector always has a step to take, so that this is its weak fairness. *)
Fairness == []<><<Collector>>_vars

Spec == Init /\ [][Next]_vars /\ Fairness

------------------------------------------------------------------------------
TypeOK ==
  /\ alive \subseteq Objs /\ finalized \subseteq Udata
  /\ mark \in [Objs -> Whites \cup {"gray", "black"}] /\ white \in Whites
  /\ ptr \in [Objs -> SUBSET Objs]
  /\ entry \in [Objs -> SUBSET (Values \X Values)]
  /\ openin \in [Objs -> Threads \cup {None}] /\ running \in Threads
  /\ gcstate \in {"pause", "propagate", "sweepstring", "sweep", "finalize"}
  /\ gray \subseteq Objs /\ grayagain \subseteq Objs /\ weak \subseteq WeakTabs
  /\ unswept \subseteq Objs /\ tmudata \subseteq Udata
  /\ full \in {"no", "reset", "cycle"}

Marking == gcstate = "propagate"
Sweeping == gcstate \in {"sweepstring", "sweep"}

(* What the program can still get at, finalizers included. *)
Reachable == Closure({Main, Globals, running} \cup tmudata, Children, Objs)

(* No reference the program can follow, a weak one included, leads to freed
   memory. *)
NoDangling ==
  LET R == Reachable IN
    R \cup (UNION {{e[1], e[2]} : e \in UNION {entry[t] : t \in R}}) \subseteq alive

(* While marking, a black object refers to no white one; userdata that already
   wait for their finalizer are marked anew in the atomic step. *)
TriColour ==
  Marking => \A o \in alive \ tmudata : mark[o] = "black" =>
               \A x \in Children(o) : mark[x] \notin Whites

(* An object is linked by its one gclist field into at most one of the lists
   of a mark phase. *)
OneList ==
  Marking => /\ gray \cap grayagain = {} /\ gray \cap weak = {}
             /\ grayagain \cap weak = {}

(* lgc.c:70 lua_assert(iswhite(o) && !isdead(g, o)): no object of the white of
   the last cycle is left when marking begins or goes on. *)
NothingDeadWhileMarking ==
  gcstate \in {"pause", "propagate"} => \A o \in alive : ~isdead(o)

(* lfunc.c:101 lua_assert(!isblack(o) && ...): open upvalues are never black;
   lgc.c:706: one that is closed as gray is not closed between two cycles. *)
OpenUpvalsStayGray ==
  \A u \in alive \cap Upvals : openin[u] # None =>
    /\ mark[u] # "black"
    /\ gcstate \in {"pause", "finalize"} => mark[u] # "gray"

(* The state is well formed and keeps the four invariants of the colours, in which
   the assertions of lgc.c and lfunc.c have their reason. *)
Colours == TypeOK /\ TriColour /\ OneList /\ NothingDeadWhileMarking /\ OpenUpvalsStayGray

(* No weak table that can be reached shows an erased object, nor, once marking is
   over, one that is about to be erased. *)
WeakEntriesAlive ==
  /\ NoDangling
  /\ Sweeping => \A t \in Reachable : \A e \in entry[t] :
                   ~isdead(e[1]) /\ ~isdead(e[2])

(* A userdata that is put in the queue of finalizers, and so comes back to life
   for one more cycle, has left every weak table that showed it as a value. *)
FinalizedLeaveValues ==
  [][ tmudata' \ tmudata # {} =>
        \A t \in weak' : \A e \in entry'[t] : e[2] \notin tmudata' ]_vars

(* A userdata is not erased before its finalizer has been called, and is
   queued for it once. *)
FinalizedFirst ==
  [][ \A u \in Udata :
        /\ (u \in alive /\ u \notin alive') => u \in finalized \ tmudata
        /\ (u \notin tmudata /\ u \in tmudata') => u \notin finalized ]_vars

(* lgc.c: the contract of finalizers, with the erasure and with weak values. *)
Finalizers == FinalizedFirst /\ FinalizedLeaveValues

(* collectgarbage() leaves no garbage, however much of a cycle was under way:
   when luaC_fullgc has swept its own cycle, all that is left can be reached.  In a
   heap with weak tables an entry that is taken out may have kept its other half,
   until the next cycle. *)
FullCollects ==
  (WeakTabs = {} /\ full = "cycle" /\ gcstate = "sweep" /\ unswept = {}) =>
    alive \subseteq Reachable

Garbage(o) == o \in alive \ Reachable

(* No garbage stays for good: it is erased in the end, unless the program gets
   it back (a string by its text, through a weak table, or through the finalizer
   of a userdata that leads to it). *)
GarbageGoes == \A o \in Objs : Garbage(o) ~> ~Garbage(o)

==============================================================================
