----------------------------- MODULE CallsProofs -----------------------------
(***************************************************************************)
(* Proofs about Calls: the count of C calls is exact and bounded           *)
(* (CDepthExact), whoever goes on finds its frames, registers, upvalues    *)
(* and handler as it left them (CallersRestored), a yield cuts nothing off *)
(* (YieldsCutNothing) and coroutine.status tells waiting coroutines from   *)
(* suspended ones (StatusIsTrue), for any number of coroutines and any     *)
(* limits.                                                                 *)
(*                                                                         *)
(* The parts of the inductive invariant are stated of a C stack and of     *)
(* threads that need not be those of a state.  First come lemmas on        *)
(* counting, then on the shape of the C stack, then one for each change    *)
(* that a step is made of (an activation pushed, popped, thrown away), and *)
(* last the actions.                                                       *)
(***************************************************************************)
EXTENDS Calls, FiniteSetTheorems, WellFoundedInduction, TLAPS

------------------------------------------------------------------------------
(* The inductive invariant.  Its parts speak of a C stack `c' and of the threads
   `t', because most steps are made of several changes: the invariant holds of
   what is between them too. *)

ThreadRec ==
  [status : {"ok", "yield", "error"}, ci : Seq(CallInfo), base : Nat, top : Nat,
   nCcalls : Nat, baseCcalls : Nat, errfunc : Nat, size_ci : Nat,
   open : SUBSET Nat, ran : BOOLEAN]

(* A thread for itself: its frames lie one above the other, and an open upvalue
   is a register of a Lua function that has not ended. *)
ThreadOK(l) ==
  /\ l \in ThreadRec /\ l.ci # <<>>
  /\ Len(l.ci) <= l.size_ci /\ l.size_ci <= 2 * MaxCalls
  /\ l.base = l.ci[Len(l.ci)].base /\ l.base <= l.top
  /\ ~l.ci[1].lua
  /\ \A i, j \in 1..Len(l.ci) : i < j => l.ci[i].base < l.ci[j].base
  /\ \A u \in l.open : \E i \in 1..Len(l.ci) :
       l.ci[i].lua /\ l.ci[i].base <= u /\ u < l.ci[i].base + Registers

ThreadsOK(t) == t \in [Threads -> ThreadRec] /\ \A th \in Threads : ThreadOK(t[th])

Phases == {"enter", "done"}

CFrames == [k : {"C"}, th : Threads]
Execs   == [k : {"exec"}, th : Threads, nexeccalls : Nat \ {0}]
LuaDCalls == [k : {"call"}, th : Threads, func : Nat, nresults : {MULTRET, 0, 1},
              ph : Phases]
Pcalls  == [k : {"pcall"}, th : Threads, oldnCcalls : Nat, old_ci : Nat \ {0},
            old_top : Nat, old_errfunc : Nat]
Resumptions == [k : {"resume"}, th : Threads]
ErrorMsgs   == [k : {"errormsg"}, th : Threads, ph : Phases]

Activation == CFrames \cup Execs \cup LuaDCalls \cup Pcalls \cup Resumptions \cup ErrorMsgs

(* Which activation may be on which: on(c, i) is about the one at place i. *)
On(c, i) ==
  /\ i = 2 => IsJump(c[i])
  /\ c[i].k = "resume" =>
       c[i - 1].k = "C" /\ c[i].th # Main /\ \A j \in 1..i - 1 : c[j].th # c[i].th
  /\ c[i].k # "resume" => c[i].th = c[i - 1].th
  /\ c[i].k = "exec" => c[i - 1].k \in {"call", "resume"}
  /\ c[i].k = "C" => c[i - 1].k \in {"exec", "call"}
  /\ c[i].k = "call" => c[i - 1].k \in {"exec", "C", "pcall", "errormsg"}
  /\ c[i].k = "pcall" => c[i - 1].k = "C"
  /\ c[i].k = "errormsg" => c[i - 1].k \in {"exec", "C", "call", "resume"}
  /\ c[i - 1].k \in {"call", "errormsg"} => c[i - 1].ph = "done"

Chain(c) ==
  /\ c \in Seq(Activation) /\ c # <<>> /\ c[1] = [k |-> "C", th |-> Main]
  /\ \A i \in 2..Len(c) : On(c, i)

(* The depths that the threads keep, and those that will be restored. *)
DepthAt(c, t, i) ==
  /\ c[i].k = "resume" => t[c[i - 1].th].nCcalls = Nested(c, i - 1)
                          /\ t[c[i].th].baseCcalls = Nested(c, i)
  /\ c[i].k = "pcall" => c[i].oldnCcalls = Nested(c, i - 1)

Depth(c, t) ==
  /\ t[c[Len(c)].th].nCcalls = Nested(c, Len(c))
  /\ t[Main].baseCcalls = 0
  /\ \A i \in 2..Len(c) : DepthAt(c, t, i)

Busy(c, th) == \E i \in 1..Len(c) : c[i].th = th

(* The entries of a thread, in each of its statuses. *)
Matches(c, ci, th) ==
  /\ Len(ci) = Entries(c, th, Len(c))
  /\ \A i \in 1..Len(c) : c[i].th = th =>
       \A m \in 1..Len(ci) :
         (Entries(c, th, i) - Width(c[i]) < m /\ m <= Entries(c, th, i)) =>
           (ci[m].lua <=> c[i].k = "exec")

Suspended(l) == Len(l.ci) >= 3 /\ \A m \in 2..Len(l.ci) : l.ci[m].lua <=> m < Len(l.ci)

MatchAt(c, l, th) ==
  /\ Busy(c, th) => l.status # "error"
  /\ Busy(c, th) /\ l.status = "yield" => c[Len(c)].k = "resume" /\ c[Len(c)].th = th
  /\ Busy(c, th) /\ l.status = "ok" => Matches(c, l.ci, th)
  /\ ~Busy(c, th) /\ l.status = "ok" => Len(l.ci) = 1
  /\ l.status = "yield" => Suspended(l)

Match(c, t) == \A th \in Threads : MatchAt(c, t[th], th)

(* What luaD_pcall keeps fits the thread still when an error comes. *)
PcallAt(c, t, i) ==
  c[i].k = "pcall" =>
    LET f == c[i]
        ci == t[c[i].th].ci
    IN /\ f.old_ci = Entries(c, f.th, i - 1) /\ f.old_ci <= Len(ci)
       /\ ci[f.old_ci].base <= f.old_top
       /\ \A m \in 1..Len(ci) : f.old_ci < m => f.old_top < ci[m].base

PcallsOK(c, t) == \A i \in 1..Len(c) : PcallAt(c, t, i)

IsPcall(f, th) == f.k = "pcall" /\ f.th = th

(* `e' is no handler, or that of the innermost protected call of th among the
   first n activations. *)
HandlerOK(c, n, th, e) ==
  \/ e = NoHandler
  \/ \E i \in 1..n : /\ IsPcall(c[i], th) /\ e = c[i].old_top - 1
                     /\ \A j \in 1..n : i < j => ~IsPcall(c[j], th)

Handlers(c, t) ==
  /\ \A th \in Threads : HandlerOK(c, Len(c), th, t[th].errfunc)
  /\ \A i \in 1..Len(c) :
       c[i].k = "pcall" => HandlerOK(c, i - 1, c[i].th, c[i].old_errfunc)

Core(c, t) ==
  Chain(c) /\ ThreadsOK(t) /\ Depth(c, t) /\ Match(c, t) /\ PcallsOK(c, t) /\ Handlers(c, t)

(* Level x is above what any protected call of the thread will keep. *)
High(c, th, x) == \A i \in 1..Len(c) : IsPcall(c[i], th) => c[i].old_top <= x

(* What the activation on top relies on. *)
TopOK(c, t) ==
  LET f == c[Len(c)]
      l == t[f.th]
  IN /\ f.k = "exec" => l.top = l.base + Registers
     /\ f.k = "call" /\ f.ph = "enter" =>
          l.base <= f.func /\ f.func < l.top /\ High(c, f.th, f.func)
     /\ f.k = "errormsg" /\ f.ph = "enter" => l.base < l.top /\ High(c, f.th, l.top - 1)

Bounded(c) == Nested(c, Len(c)) < MaxCCalls + CCallsRoom

Good(c, t) == Core(c, t) /\ TopOK(c, t) /\ Bounded(c)

IInv == Good(cs, thread)

------------------------------------------------------------------------------
(* Least and greatest numbers *)

LEMMA Least ==
  ASSUME NEW S \in SUBSET Nat, S # {}
  PROVE  \E n \in S : \A m \in S : n <= m
<1> DEFINE R == OpToRel(<, Nat)
<1>1. IsWellFoundedOn(R, Nat) BY NatLessThanWellFounded
<1> HIDE DEF R
<1>2. PICK n \in S : \A m \in S : ~(<<m, n>> \in R) BY <1>1, WFMin
<1>3. \A m \in S : ~(m < n)
  <2> TAKE m \in S
  <2>1. m \in Nat /\ n \in Nat OBVIOUS
  <2>2. m < n => <<m, n>> \in R BY <2>1 DEF R, OpToRel
  <2> QED BY <1>2, <2>2
<1> QED BY <1>3

LEMMA Greatest ==
  ASSUME NEW b \in Nat, NEW S \in SUBSET (0..b), S # {}
  PROVE  \E n \in S : \A m \in S : m <= n
<1> DEFINE T == {x \in 0..b : b - x \in S}
<1>1. T \in SUBSET Nat /\ T # {}
  <2>1. PICK s \in S : TRUE OBVIOUS
  <2>2. s \in 0..b OBVIOUS
  <2>3. b - s \in 0..b /\ b - (b - s) = s BY <2>2
  <2>4. b - s \in T BY <2>3
  <2>5. \A x \in T : x \in Nat OBVIOUS
  <2> HIDE DEF T
  <2> QED BY <2>4, <2>5
<1>2. PICK x \in T : \A y \in T : x <= y BY <1>1, Least
<1>3. ASSUME NEW m \in S PROVE m <= b - x
  <2>1. b - m \in 0..b /\ b - (b - m) = m OBVIOUS
  <2>2. x <= b - m BY <1>2, <2>1
  <2> QED BY <2>2
<1> QED BY <1>2, <1>3

------------------------------------------------------------------------------
(* What an activation has *)

LEMMA Kinds ==
  ASSUME NEW f \in Activation
  PROVE  /\ f.k \in {"C", "exec", "call", "pcall", "resume", "errormsg"}
         /\ f.th \in Threads
         /\ f.k = "C" => f \in CFrames
         /\ f.k = "exec" => f \in Execs
         /\ f.k = "call" => f \in LuaDCalls
         /\ f.k = "pcall" => f \in Pcalls
         /\ f.k = "resume" => f \in Resumptions
         /\ f.k = "errormsg" => f \in ErrorMsgs
BY DEF Activation, CFrames, Execs, LuaDCalls, Pcalls, Resumptions, ErrorMsgs

LEMMA Widths ==
  ASSUME NEW f \in Activation
  PROVE  /\ Width(f) \in Nat
         /\ f.k \in {"exec", "C", "resume"} => Width(f) >= 1
         /\ f.k \notin {"exec", "C", "resume"} => Width(f) = 0
<1>1. f.k = "exec" => f.nexeccalls \in Nat \ {0} BY Kinds DEF Execs
<1> QED BY <1>1 DEF Width

------------------------------------------------------------------------------
(* Counting C calls *)

LEMMA NestedStep ==
  ASSUME NEW c, NEW i \in Nat
  PROVE  /\ Nested(c, i) \in Nat /\ Nested(c, 0) = 0
         /\ Nested(c, i + 1) = Nested(c, i) + IF Counted(c[i + 1]) THEN 1 ELSE 0
<1> DEFINE S == {j \in 1..i : Counted(c[j])}
           T == {j \in 1..(i + 1) : Counted(c[j])}
<1>1. IsFiniteSet(1..i) BY FS_Interval
<1>2. IsFiniteSet(S) BY <1>1, FS_Subset
<1>3. Nested(c, i) \in Nat BY <1>2, FS_CardinalityType DEF Nested
<1>4. Nested(c, 0) = 0
  <2>1. {j \in 1..0 : Counted(c[j])} = {} OBVIOUS
  <2> QED BY <2>1, FS_EmptySet DEF Nested
<1>5. T = IF Counted(c[i + 1]) THEN S \cup {i + 1} ELSE S OBVIOUS
<1>6. i + 1 \notin S OBVIOUS
<1>7. Cardinality(S \cup {i + 1}) = Cardinality(S) + 1 BY <1>2, <1>6, FS_AddElement
<1> QED BY <1>3, <1>4, <1>5, <1>7 DEF Nested

LEMMA NestedAgree ==
  ASSUME NEW c, NEW d, NEW i \in Nat, \A j \in 1..i : c[j] = d[j]
  PROVE  Nested(c, i) = Nested(d, i)
<1>1. {j \in 1..i : Counted(c[j])} = {j \in 1..i : Counted(d[j])} OBVIOUS
<1> QED BY <1>1 DEF Nested

LEMMA NestedGrows ==
  ASSUME NEW c, NEW i \in Nat, NEW k \in Nat, i <= k
  PROVE  Nested(c, i) <= Nested(c, k)
<1> DEFINE S == {j \in 1..i : Counted(c[j])}
           T == {j \in 1..k : Counted(c[j])}
<1>1. IsFiniteSet(1..k) BY FS_Interval
<1>2. IsFiniteSet(T) BY <1>1, FS_Subset
<1>3. S \in SUBSET T OBVIOUS
<1> QED BY <1>2, <1>3, FS_Subset DEF Nested

------------------------------------------------------------------------------
(* Counting the entries of a thread *)

Owned(c, th, i) == UNION {{j} \X (1..Width(c[j])) : j \in {j \in 1..i : c[j].th = th}}

LEMMA OwnedPairs ==
  ASSUME NEW c, NEW th, NEW i \in Nat
  PROVE  \A p : p \in Owned(c, th, i) <=>
           \E j \in 1..i : c[j].th = th /\ p \in {j} \X (1..Width(c[j]))
BY DEF Owned

LEMMA EntriesStep ==
  ASSUME NEW c \in Seq(Activation), NEW th, NEW i \in 0..Len(c)
  PROVE  /\ Entries(c, th, i) \in Nat /\ Entries(c, th, 0) = 0
         /\ i < Len(c) => Entries(c, th, i + 1) =
              Entries(c, th, i) + IF c[i + 1].th = th THEN Width(c[i + 1]) ELSE 0
<1>1. ASSUME NEW n \in 0..Len(c) PROVE IsFiniteSet(Owned(c, th, n))
  <2> DEFINE J == {j \in 1..n : c[j].th = th}
             P == {{j} \X (1..Width(c[j])) : j \in J}
  <2>1. IsFiniteSet(J)
    <3>1. IsFiniteSet(1..n) BY FS_Interval
    <3> QED BY <3>1, FS_Subset
  <2>2. IsFiniteSet(P)
    <3> DEFINE f == [j \in J |-> {j} \X (1..Width(c[j]))]
    <3>1. {f[j] : j \in J} = P OBVIOUS
    <3>2. f \in Surjection(J, P) BY <3>1 DEF Surjection
    <3> QED BY <2>1, <3>2, FS_Surjection
  <2>3. ASSUME NEW p \in P PROVE IsFiniteSet(p)
    <3>1. PICK j \in J : p = {j} \X (1..Width(c[j])) BY <2>3
    <3>2. c[j] \in Activation OBVIOUS
    <3>3. Width(c[j]) \in Int /\ 1 \in Int BY <3>2, Widths
    <3>4. IsFiniteSet(1..Width(c[j])) BY <3>3, FS_Interval
    <3> QED BY <3>1, <3>4, FS_Singleton, FS_Product
  <2> QED BY <2>2, <2>3, FS_UNION DEF Owned
<1>2. Entries(c, th, i) \in Nat BY <1>1, FS_CardinalityType DEF Entries, Owned
<1>3. Entries(c, th, 0) = 0
  <2>1. Owned(c, th, 0) = {} BY DEF Owned
  <2> QED BY <2>1, FS_EmptySet DEF Entries, Owned
<1>4. ASSUME i < Len(c)
      PROVE  Entries(c, th, i + 1) =
               Entries(c, th, i) + IF c[i + 1].th = th THEN Width(c[i + 1]) ELSE 0
  <2> DEFINE w == Width(c[i + 1])
             new == {i + 1} \X (1..w)
  <2>1. i + 1 \in 1..Len(c) /\ i + 1 \in 0..Len(c) /\ i + 1 \in Nat BY <1>4
  <2>2. w \in Nat BY <2>1, Widths
  <2>3. CASE c[i + 1].th # th
    <3>1. Owned(c, th, i + 1) = Owned(c, th, i)
      <4>1. \A j \in 1..(i + 1) : c[j].th = th => j \in 1..i BY <2>3
      <4>2. {j \in 1..(i + 1) : c[j].th = th} = {j \in 1..i : c[j].th = th} BY <4>1
      <4> QED BY <4>2 DEF Owned
    <3>2. Entries(c, th, i + 1) = Entries(c, th, i) BY <3>1 DEF Entries, Owned
    <3> QED BY <1>2, <2>3, <3>2
  <2>4. CASE c[i + 1].th = th
    <3>1. \A p : p \in Owned(c, th, i + 1) <=> p \in Owned(c, th, i) \/ p \in new
      <4>1. \A j : j \in 1..(i + 1) <=> j \in 1..i \/ j = i + 1 OBVIOUS
      <4> HIDE DEF new
      <4>2. \A p : (\E j \in 1..(i + 1) : c[j].th = th /\ p \in {j} \X (1..Width(c[j])))
              <=> (\E j \in 1..i : c[j].th = th /\ p \in {j} \X (1..Width(c[j]))) \/ p \in new
        BY <2>4, <4>1 DEF new
      <4> QED BY <2>1, <4>2, OwnedPairs
    <3>2. Owned(c, th, i + 1) = Owned(c, th, i) \cup new BY <3>1
    <3>3. IsFiniteSet(1..w) /\ Cardinality(1..w) = w BY <2>2, FS_Interval, SMTT(30)
    <3>4. IsFiniteSet({i + 1}) /\ Cardinality({i + 1}) = 1 BY FS_Singleton
    <3>5. IsFiniteSet(new) /\ Cardinality(new) = w BY <2>2, <3>3, <3>4, FS_Product, SMTT(30)
    <3>6. Owned(c, th, i) \cap new = {}
      <4>1. \A p \in Owned(c, th, i) : p[1] \in 1..i BY OwnedPairs
      <4>2. \A p \in new : p[1] = i + 1 OBVIOUS
      <4>3. i + 1 \notin 1..i OBVIOUS
      <4> QED BY <4>1, <4>2, <4>3
    <3>7. Cardinality(Owned(c, th, i) \cup new) = Cardinality(Owned(c, th, i)) + w
      <4>1. IsFiniteSet(Owned(c, th, i)) /\ Cardinality(Owned(c, th, i)) \in Nat
        BY <1>1, FS_CardinalityType
      <4>2. Cardinality({}) = 0 BY FS_EmptySet
      <4>3. Cardinality(Owned(c, th, i) \cup new)
              = Cardinality(Owned(c, th, i)) + Cardinality(new)
                - Cardinality(Owned(c, th, i) \cap new)
        BY <3>5, <4>1, FS_Union
      <4>4. Cardinality(Owned(c, th, i) \cap new) = 0 BY <3>6, <4>2
      <4> HIDE DEF new
      <4> QED BY <2>2, <3>5, <4>1, <4>3, <4>4
    <3> QED BY <2>4, <3>2, <3>7 DEF Entries, Owned
  <2> QED BY <2>3, <2>4
<1> QED BY <1>2, <1>3, <1>4

LEMMA EntriesAgree ==
  ASSUME NEW c, NEW d, NEW th, NEW i \in Nat, \A j \in 1..i : c[j] = d[j]
  PROVE  Entries(c, th, i) = Entries(d, th, i)
<1>1. \A p : p \in Owned(c, th, i) <=> p \in Owned(d, th, i) BY OwnedPairs
<1>2. Owned(c, th, i) = Owned(d, th, i) BY <1>1
<1> QED BY <1>2 DEF Entries, Owned

(* Without an activation of the thread in between, the number stays. *)
LEMMA EntriesStay ==
  ASSUME NEW c, NEW th, NEW i \in Nat, NEW k \in Nat, i <= k,
         \A j \in (i + 1)..k : c[j].th # th
  PROVE  Entries(c, th, i) = Entries(c, th, k)
<1>1. \A j \in 1..k : c[j].th = th => j \in 1..i OBVIOUS
<1>2. \A j \in 1..i : j \in 1..k OBVIOUS
<1>3. {j \in 1..k : c[j].th = th} = {j \in 1..i : c[j].th = th} BY <1>1, <1>2
<1> QED BY <1>3 DEF Entries

LEMMA EntriesGrow ==
  ASSUME NEW c \in Seq(Activation), NEW th, NEW i \in 0..Len(c), NEW k \in 0..Len(c), i <= k
  PROVE  Entries(c, th, i) <= Entries(c, th, k)
<1> SUFFICES ASSUME Entries(c, th, k) < Entries(c, th, i) PROVE FALSE
  BY EntriesStep
<1> DEFINE S == {x \in Nat : x <= Len(c) /\ i <= x /\ Entries(c, th, x) < Entries(c, th, i)}
<1>1. k \in S OBVIOUS
<1>2. PICK m \in S : \A x \in S : m <= x BY <1>1, Least
<1>3. m - 1 \in 0..Len(c) /\ i <= m - 1 /\ m = (m - 1) + 1
  <2>1. m # i BY EntriesStep
  <2> QED BY <1>2, <2>1
<1>4. Entries(c, th, m - 1) >= Entries(c, th, i) BY <1>2, <1>3, EntriesStep
<1>5. c[m] \in Activation BY <1>2, <1>3
<1>6. Entries(c, th, m) >= Entries(c, th, m - 1)
  <2>1. m - 1 < Len(c) BY <1>2
  <2>2. Entries(c, th, m) = Entries(c, th, m - 1) + IF c[m].th = th THEN Width(c[m]) ELSE 0
    BY <1>3, <2>1, EntriesStep
  <2>3. Width(c[m]) \in Nat BY <1>5, Widths
  <2>4. Entries(c, th, m - 1) \in Nat BY <1>3, EntriesStep
  <2> QED BY <2>2, <2>3, <2>4
<1>7. Entries(c, th, m) \in Nat /\ Entries(c, th, m - 1) \in Nat
    /\ Entries(c, th, i) \in Nat BY <1>2, <1>3, EntriesStep
<1> QED BY <1>2, <1>4, <1>6, <1>7

------------------------------------------------------------------------------
(* The shape of the C stack *)

LEMMA Places ==
  ASSUME NEW c, Chain(c)
  PROVE  /\ Len(c) \in Nat \ {0} /\ c[1] = [k |-> "C", th |-> Main]
         /\ \A i \in 1..Len(c) : c[i] \in Activation
         /\ \A i \in 2..Len(c) : On(c, i)
BY DEF Chain

LEMMA NotFirst ==
  ASSUME NEW c, Chain(c), c[Len(c)].k # "C"
  PROVE  Len(c) >= 2
<1> DEFINE n == Len(c)
<1>1. n \in Nat \ {0} /\ c[1].k = "C" BY Places
<1>2. n # 1 BY <1>1
<1> HIDE DEF n
<1>3. n >= 2 BY <1>1, <1>2
<1> QED BY <1>3 DEF n

LEMMA SameAfter ==
  ASSUME NEW c, Chain(c), NEW i \in 1..Len(c), NEW n \in i..Len(c),
         \A m \in (i + 1)..n : c[m].k # "resume"
  PROVE  \A m \in i..n : c[m].th = c[i].th
<1> DEFINE S == {m \in i..n : c[m].th # c[i].th}
<1> SUFFICES ASSUME S # {} PROVE FALSE OBVIOUS
<1>1. Len(c) \in Nat BY Places
<1>2. S \in SUBSET Nat BY <1>1
<1>3. PICK m \in S : \A x \in S : m <= x BY <1>2, Least
<1>4. m # i /\ m - 1 \in i..n /\ m \in (i + 1)..n /\ m \in 2..Len(c) BY <1>1, <1>3
<1>5. c[m - 1].th = c[i].th
  <2>1. m - 1 < m BY <1>4
  <2> QED BY <1>3, <1>4, <2>1
<1>6. c[m].th = c[m - 1].th BY <1>4, Places DEF On
<1> QED BY <1>3, <1>5, <1>6

LEMMA Segments ==
  ASSUME NEW c, Chain(c), NEW i \in 2..Len(c), c[i].k = "resume",
         NEW j \in 1..(i - 1), NEW m \in i..Len(c)
  PROVE  c[j].th # c[m].th
<1> DEFINE S == {x \in i..Len(c) : c[x].th = c[j].th}
<1> SUFFICES ASSUME S # {} PROVE FALSE OBVIOUS
<1>1. Len(c) \in Nat BY Places
<1>2. S \in SUBSET Nat BY <1>1
<1>3. PICK x \in S : \A y \in S : x <= y BY <1>2, Least
<1>4. x # i BY <1>3, Places DEF On
<1>5. x - 1 \in i..Len(c) /\ x \in 2..Len(c) /\ x - 1 < x BY <1>1, <1>3, <1>4
<1>6. c[x - 1].th # c[j].th BY <1>3, <1>5
<1>7. c[x].k = "resume" => c[j].th # c[x].th
  <2>1. j \in 1..(x - 1) BY <1>3, <1>5
  <2> QED BY <1>5, <2>1, Places DEF On
<1>8. c[x].k # "resume" => c[x].th = c[x - 1].th BY <1>5, Places, ZenonT(30) DEF On
<1> QED BY <1>3, <1>6, <1>7, <1>8

(* Where a thread begins on the stack. *)
LEMMA Resumer ==
  ASSUME NEW c, Chain(c), NEW n \in 1..Len(c), c[n].th # Main
  PROVE  \E r \in 2..n : c[r].k = "resume" /\ c[r].th = c[n].th
                         /\ \A m \in r..n : c[m].th = c[n].th
<1> DEFINE S == {m \in 2..n : c[m].k = "resume"}
<1>1. Len(c) \in Nat BY Places
<1>2. S # {}
  <2> SUFFICES ASSUME S = {} PROVE FALSE OBVIOUS
  <2>1. 1 \in 1..Len(c) /\ n \in 1..Len(c) /\ \A m \in (1 + 1)..n : c[m].k # "resume"
    BY <1>1
  <2>2. \A m \in 1..n : c[m].th = c[1].th BY <2>1, SameAfter
  <2> QED BY <2>2, Places
<1>3. S \in SUBSET (0..n) /\ n \in Nat BY <1>1
<1>4. PICK r \in S : \A x \in S : x <= r BY <1>2, <1>3, Greatest
<1>5. \A m \in (r + 1)..n : c[m].k # "resume" BY <1>4
<1>6. r \in 1..Len(c) /\ n \in r..Len(c) BY <1>1, <1>4
<1>7. \A m \in r..n : c[m].th = c[r].th BY <1>5, <1>6, SameAfter
<1> QED BY <1>4, <1>6, <1>7

(* A thread on the stack has an entry, that of its first activation. *)
LEMMA Rooted ==
  ASSUME NEW c, Chain(c), NEW i \in 1..Len(c)
  PROVE  Entries(c, c[i].th, i) >= 1
<1>1. Len(c) \in Nat /\ c \in Seq(Activation) BY Places DEF Chain
<1>2. ASSUME NEW r \in 1..i, c[r].th = c[i].th, c[r].k \in {"C", "resume"}
      PROVE  Entries(c, c[i].th, i) >= 1
  <2>1. r - 1 \in 0..Len(c) /\ r - 1 < Len(c) /\ (r - 1) + 1 = r /\ r \in 0..Len(c)
          /\ i \in 0..Len(c)
    BY <1>1
  <2>2. Entries(c, c[i].th, r) = Entries(c, c[i].th, r - 1) + Width(c[r])
    BY <1>1, <1>2, <2>1, EntriesStep
  <2>3. Entries(c, c[i].th, r - 1) \in Nat BY <1>1, <2>1, EntriesStep
  <2>4. c[r] \in Activation BY <1>1, <2>1
  <2>5. Width(c[r]) \in Nat /\ Width(c[r]) >= 1 BY <1>2, <2>4, Widths
  <2>6. Entries(c, c[i].th, r) <= Entries(c, c[i].th, i) BY <1>1, <2>1, EntriesGrow
  <2>7. Entries(c, c[i].th, i) \in Nat BY <1>1, <2>1, EntriesStep
  <2> QED BY <2>2, <2>3, <2>5, <2>6, <2>7
<1>3. CASE c[i].th = Main
  <2>1. 1 \in 1..i /\ c[1].th = Main /\ c[1].k = "C" BY Places
  <2> QED BY <1>2, <1>3, <2>1
<1>4. CASE c[i].th # Main
  <2>1. PICK r \in 2..i : c[r].k = "resume" /\ c[r].th = c[i].th BY <1>4, Resumer
  <2> QED BY <1>2, <2>1
<1> QED BY <1>3, <1>4

(* The jump buffer to which an error goes. *)
LEMMA JumpBuffer ==
  ASSUME NEW c, Chain(c), Len(c) >= 2
  PROVE  LET j == errorJmp(c) IN
           /\ j \in 2..Len(c) /\ IsJump(c[j])
           /\ \A i \in (j + 1)..Len(c) : ~IsJump(c[i])
           /\ c[j - 1].k = "C"
           /\ \A i \in j..Len(c) : c[i].th = c[j].th
<1> DEFINE S == {i \in 1..Len(c) : IsJump(c[i])}
           P(j) == j \in 1..Len(c) /\ IsJump(c[j]) /\ \A i \in (j + 1)..Len(c) : ~IsJump(c[i])
<1>1. Len(c) \in Nat BY Places
<1>2. 2 \in S
  <2>1. 2 \in 2..Len(c) /\ 2 \in 1..Len(c) BY <1>1
  <2> QED BY <2>1, Places DEF On
<1>3. S \in SUBSET (0..Len(c)) BY <1>1
<1>4. PICK n \in S : \A m \in S : m <= n BY <1>1, <1>2, <1>3, Greatest
<1>5. P(n)
  <2>1. ASSUME NEW i \in (n + 1)..Len(c), IsJump(c[i]) PROVE FALSE
    <3>1. i \in S /\ n < i BY <1>1, <1>4, <2>1
    <3> QED BY <1>4, <3>1
  <2> QED BY <1>4, <2>1
<1>6. P(errorJmp(c))
  <2>1. errorJmp(c) = CHOOSE j \in 1..Len(c) :
          IsJump(c[j]) /\ \A i \in (j + 1)..Len(c) : ~IsJump(c[i])
    BY DEF errorJmp
  <2> QED BY <1>5, <2>1
<1> DEFINE j == errorJmp(c)
<1> HIDE DEF j
<1>7. P(j) BY <1>6 DEF j
<1>8. j \in 2..Len(c)
  <2>1. ~IsJump(c[1]) BY Places DEF IsJump
  <2> QED BY <1>1, <1>7, <2>1
<1>9. c[j - 1].k = "C" BY <1>7, <1>8, Places DEF On, IsJump
<1>10. \A i \in j..Len(c) : c[i].th = c[j].th
  <2>1. j \in 1..Len(c) /\ Len(c) \in j..Len(c) BY <1>1, <1>8
  <2>2. \A m \in (j + 1)..Len(c) : c[m].k # "resume" BY <1>7 DEF IsJump
  <2> QED BY <2>1, <2>2, SameAfter
<1> QED BY <1>7, <1>8, <1>9, <1>10 DEF j

------------------------------------------------------------------------------
(* Changes of the C stack above some place, by one thread *)

Same(c, d, k) == \A i \in 1..k : c[i] = d[i]

LEMMA SameCounts ==
  ASSUME NEW c, NEW d, NEW k \in Nat, Same(c, d, k), NEW i \in 0..k, NEW th
  PROVE  Nested(c, i) = Nested(d, i) /\ Entries(c, th, i) = Entries(d, th, i)
<1>1. i \in Nat /\ \A j \in 1..i : c[j] = d[j] BY DEF Same
<1> QED BY <1>1, NestedAgree, EntriesAgree

LEMMA ChainBy ==
  ASSUME NEW c, Chain(c), NEW d \in Seq(Activation), NEW k \in 1..Len(c), k <= Len(d),
         Same(c, d, k), \A i \in (k + 1)..Len(d) : On(d, i)
  PROVE  Chain(d)
<1>1. Len(c) \in Nat /\ Len(d) \in Nat BY Places
<1>2. c[1] = d[1] /\ d # <<>> BY <1>1 DEF Same
<1>3. ASSUME NEW i \in 2..k PROVE On(d, i)
  <2>1. i \in 2..Len(c) /\ i \in 1..k /\ i - 1 \in 1..k BY <1>1
  <2>2. c[i] = d[i] /\ c[i - 1] = d[i - 1] BY <2>1 DEF Same
  <2>3. \A j \in 1..(i - 1) : c[j] = d[j] BY <1>1, <2>1 DEF Same
  <2>4. On(c, i) BY <2>1, Places
  <2> QED BY <2>2, <2>3, <2>4 DEF On
<1>4. \A i \in 2..Len(d) : i \in 2..k \/ i \in (k + 1)..Len(d) BY <1>1
<1> QED BY <1>2, <1>3, <1>4, Places DEF Chain

LEMMA MatchOther ==
  ASSUME NEW c \in Seq(Activation), NEW d \in Seq(Activation), NEW k \in 1..Len(c),
         k <= Len(d), Same(c, d, k), NEW l, NEW x, MatchAt(c, l, x),
         \A i \in (k + 1)..Len(c) : c[i].th # x, \A i \in (k + 1)..Len(d) : d[i].th # x,
         (c[Len(c)].k = "resume" /\ c[Len(c)].th = x) => d = c
  PROVE  MatchAt(d, l, x)
<1> SUFFICES ASSUME d # c PROVE MatchAt(d, l, x) OBVIOUS
<1>1. Len(c) \in Nat /\ Len(d) \in Nat /\ k \in Nat OBVIOUS
<1>2. \A i \in 1..Len(c) : c[i].th = x => i \in 1..k BY <1>1
<1>3. \A i \in 1..Len(d) : d[i].th = x => i \in 1..k BY <1>1
<1>4. \A i \in 1..k : c[i] = d[i] /\ i \in 1..Len(c) /\ i \in 1..Len(d) BY <1>1 DEF Same
<1>5. Busy(c, x) <=> Busy(d, x) BY <1>2, <1>3, <1>4 DEF Busy
<1>6. Entries(c, x, Len(c)) = Entries(d, x, Len(d))
  <2>1. Entries(c, x, k) = Entries(c, x, Len(c)) BY <1>1, EntriesStay
  <2>2. Entries(d, x, k) = Entries(d, x, Len(d)) BY <1>1, EntriesStay
  <2>3. Entries(c, x, k) = Entries(d, x, k) BY <1>1, SameCounts
  <2> QED BY <2>1, <2>2, <2>3
<1>7. ASSUME Matches(c, l.ci, x) PROVE Matches(d, l.ci, x)
  <2>1. Len(l.ci) = Entries(d, x, Len(d)) BY <1>6, <1>7 DEF Matches
  <2>2. ASSUME NEW i \in 1..Len(d), d[i].th = x, NEW m \in 1..Len(l.ci),
               Entries(d, x, i) - Width(d[i]) < m, m <= Entries(d, x, i)
        PROVE  l.ci[m].lua <=> d[i].k = "exec"
    <3>1. i \in 1..k BY <1>3, <2>2
    <3>2. c[i] = d[i] /\ i \in 1..Len(c) BY <1>4, <3>1
    <3>3. Entries(c, x, i) = Entries(d, x, i) BY <1>1, <3>1, SameCounts
    <3> QED BY <1>7, <2>2, <3>2, <3>3 DEF Matches
  <2> QED BY <2>1, <2>2 DEF Matches
<1>8. ~(Busy(c, x) /\ l.status = "yield") BY DEF MatchAt
<1> QED BY <1>5, <1>7, <1>8 DEF MatchAt

LEMMA HandlerSame ==
  ASSUME NEW c, NEW d, NEW k \in Nat, Same(c, d, k), NEW n \in Nat, NEW m \in Nat,
         k <= n, k <= m, NEW th, NEW e, HandlerOK(c, n, th, e),
         \A i \in (k + 1)..n : ~IsPcall(c[i], th), \A i \in (k + 1)..m : ~IsPcall(d[i], th)
  PROVE  HandlerOK(d, m, th, e)
<1> SUFFICES ASSUME e # NoHandler PROVE HandlerOK(d, m, th, e) BY DEF HandlerOK
<1>1. PICK i \in 1..n : /\ IsPcall(c[i], th) /\ e = c[i].old_top - 1
                        /\ \A j \in 1..n : i < j => ~IsPcall(c[j], th)
  BY DEF HandlerOK
<1>2. i \in 1..k /\ i \in 1..m BY <1>1
<1>3. c[i] = d[i] BY <1>2 DEF Same
<1>4. ASSUME NEW j \in 1..m, i < j PROVE ~IsPcall(d[j], th)
  <2>1. CASE j \in 1..k
    <3>1. c[j] = d[j] /\ j \in 1..n BY <2>1, SMTT(30) DEF Same
    <3> QED BY <1>1, <1>4, <3>1
  <2>2. CASE j \in (k + 1)..m BY <2>2
  <2> QED BY <2>1, <2>2
<1> QED BY <1>1, <1>2, <1>3, <1>4 DEF HandlerOK

LEMMA PcallSame ==
  ASSUME NEW c, NEW d, NEW k \in Nat, Same(c, d, k), NEW i \in 1..k, NEW t,
         PcallAt(c, t, i)
  PROVE  PcallAt(d, t, i)
<1>1. c[i] = d[i] /\ i - 1 \in 0..k BY DEF Same
<1>2. Entries(c, c[i].th, i - 1) = Entries(d, c[i].th, i - 1) BY <1>1, SameCounts
<1> QED BY <1>1, <1>2 DEF PcallAt

Changed(t, t2, th) ==
  t2 \in [Threads -> ThreadRec] /\ \A x \in Threads \ {th} : t2[x] = t[x]

(* What is to be shown of a step in which thread th changes, and of the stack all
   that is above place k, which are activations of th before and after. *)
ChangeAbove(c, t, d, t2, k, th) ==
  /\ Chain(d) /\ k \in 1..Len(c) /\ k <= Len(d) /\ Same(c, d, k)
  /\ \A i \in (k + 1)..Len(c) : c[i].th = th
  /\ \A i \in (k + 1)..Len(d) : d[i].th = th
  /\ c[Len(c)].k = "resume" => c[Len(c)].th = th \/ d = c
  /\ th \in Threads /\ Changed(t, t2, th) /\ ThreadOK(t2[th]) /\ MatchAt(d, t2[th], th)

ChangeDepth(c, t, d, t2, k, th) ==
  /\ \A i \in 2..k : c[i].k = "resume" =>
       /\ c[i - 1].th = th => t2[th].nCcalls = t[th].nCcalls
       /\ c[i].th = th => t2[th].baseCcalls = t[th].baseCcalls
  /\ th = Main => t2[th].baseCcalls = 0
  /\ t2[d[Len(d)].th].nCcalls = Nested(d, Len(d))
  /\ \A i \in (k + 1)..Len(d) : DepthAt(d, t2, i)

ChangePcalls(c, d, t2, k, th) ==
  /\ \A i \in 1..k : c[i].th = th => PcallAt(c, t2, i)
  /\ \A i \in (k + 1)..Len(d) : PcallAt(d, t2, i)

ChangeHandlers(d, t2, k, th) ==
  /\ HandlerOK(d, Len(d), th, t2[th].errfunc)
  /\ \A i \in (k + 1)..Len(d) :
       d[i].k = "pcall" => HandlerOK(d, i - 1, d[i].th, d[i].old_errfunc)

LEMMA Change ==
  ASSUME NEW c, NEW t, Core(c, t), NEW d, NEW t2, NEW k, NEW th,
         ChangeAbove(c, t, d, t2, k, th), ChangeDepth(c, t, d, t2, k, th),
         ChangePcalls(c, d, t2, k, th), ChangeHandlers(d, t2, k, th)
  PROVE  Core(d, t2)
<1>1. /\ Chain(c) /\ Chain(d) /\ k \in 1..Len(c) /\ k <= Len(d) /\ Same(c, d, k)
      /\ th \in Threads /\ t2 \in [Threads -> ThreadRec]
      /\ \A x \in Threads \ {th} : t2[x] = t[x]
  BY DEF Core, ChangeAbove, Changed
<1>2. /\ Len(c) \in Nat /\ Len(d) \in Nat /\ k \in Nat
      /\ c \in Seq(Activation) /\ d \in Seq(Activation)
      /\ \A i \in 1..Len(c) : c[i] \in Activation /\ c[i].th \in Threads
      /\ \A i \in 1..Len(d) : d[i] \in Activation /\ d[i].th \in Threads
  BY <1>1, Places, Kinds DEF Chain
<1>3. ThreadsOK(t2)
  <2>1. \A x \in Threads : ThreadOK(t2[x])
    BY <1>1 DEF Core, ThreadsOK, ChangeAbove
  <2> QED BY <1>1, <2>1 DEF ThreadsOK
<1>4. Match(d, t2)
  <2> SUFFICES ASSUME NEW x \in Threads, x # th PROVE MatchAt(d, t2[x], x)
    BY DEF Match, ChangeAbove
  <2>1. MatchAt(c, t[x], x) /\ t2[x] = t[x] BY <1>1 DEF Core, Match
  <2>2. /\ \A i \in (k + 1)..Len(c) : c[i].th # x
        /\ \A i \in (k + 1)..Len(d) : d[i].th # x
        /\ (c[Len(c)].k = "resume" /\ c[Len(c)].th = x) => d = c
    BY DEF ChangeAbove
  <2> QED BY <1>1, <1>2, <2>1, <2>2, MatchOther
<1>5. Depth(d, t2)
  <2>1. ASSUME NEW i \in 2..k PROVE DepthAt(d, t2, i)
    <3>1. i \in 1..k /\ i - 1 \in 1..k /\ i \in 0..k /\ i - 1 \in 0..k
            /\ i \in 1..Len(c) /\ i - 1 \in 1..Len(c) /\ i \in 2..Len(c)
      BY <1>1, <1>2
    <3>2. c[i] = d[i] /\ c[i - 1] = d[i - 1] BY <1>1, <3>1 DEF Same
    <3>3. Nested(c, i) = Nested(d, i) /\ Nested(c, i - 1) = Nested(d, i - 1)
      BY <1>1, <1>2, <3>1, SameCounts, ZenonT(30)
    <3>4. DepthAt(c, t, i) BY <3>1 DEF Core, Depth
    <3>5. c[i].th \in Threads /\ c[i - 1].th \in Threads BY <1>2, <3>1
    <3>6. c[i].k = "resume" => /\ t2[c[i - 1].th].nCcalls = t[c[i - 1].th].nCcalls
                               /\ t2[c[i].th].baseCcalls = t[c[i].th].baseCcalls
      BY <1>1, <3>5 DEF ChangeDepth
    <3> QED BY <3>2, <3>3, <3>4, <3>6 DEF DepthAt
  <2>2. t2[Main].baseCcalls = 0
    BY <1>1 DEF Core, Depth, ChangeDepth, Threads
  <2>3. \A i \in 2..Len(d) : i \in 2..k \/ i \in (k + 1)..Len(d) BY <1>2
  <2> QED BY <2>1, <2>2, <2>3 DEF ChangeDepth, Depth
<1>6. PcallsOK(d, t2)
  <2>1. ASSUME NEW i \in 1..k PROVE PcallAt(c, t2, i)
    <3>1. i \in 1..Len(c) BY <1>1, <1>2
    <3>2. CASE c[i].th = th BY <3>2, SMTT(30) DEF ChangePcalls
    <3>3. CASE c[i].th # th
      <4>1. t2[c[i].th] = t[c[i].th] BY <1>1, <1>2, <3>1, <3>3
      <4>2. PcallAt(c, t, i) BY <3>1 DEF Core, PcallsOK
      <4> QED BY <4>1, <4>2 DEF PcallAt
    <3> QED BY <3>2, <3>3
  <2>2. \A i \in 1..k : PcallAt(d, t2, i) BY <1>1, <1>2, <2>1, PcallSame
  <2>3. \A i \in 1..Len(d) : i \in 1..k \/ i \in (k + 1)..Len(d) BY <1>2
  <2> QED BY <2>2, <2>3 DEF ChangePcalls, PcallsOK
<1>7. Handlers(d, t2)
  <2>1. ASSUME NEW x \in Threads PROVE HandlerOK(d, Len(d), x, t2[x].errfunc)
    <3>1. CASE x = th BY <3>1 DEF ChangeHandlers
    <3>2. CASE x # th
      <4>1. HandlerOK(c, Len(c), x, t2[x].errfunc) BY <1>1, <3>2 DEF Core, Handlers
      <4>2. /\ \A i \in (k + 1)..Len(c) : ~IsPcall(c[i], x)
            /\ \A i \in (k + 1)..Len(d) : ~IsPcall(d[i], x)
        BY <3>2 DEF ChangeAbove, IsPcall
      <4>3. k <= Len(c) BY <1>1, <1>2
      <4> QED BY <1>1, <1>2, <4>1, <4>2, <4>3, HandlerSame
    <3> QED BY <3>1, <3>2
  <2>2. ASSUME NEW i \in 1..k, d[i].k = "pcall"
        PROVE  HandlerOK(d, i - 1, d[i].th, d[i].old_errfunc)
    <3>1. c[i] = d[i] /\ i \in 1..Len(c) BY <1>1, <1>2 DEF Same
    <3>2. HandlerOK(c, i - 1, d[i].th, d[i].old_errfunc)
      BY <2>2, <3>1 DEF Core, Handlers
    <3>3. Same(c, d, i - 1) /\ i - 1 \in Nat BY <1>1, <1>2 DEF Same
    <3>4. \A j \in ((i - 1) + 1)..(i - 1) : FALSE BY <3>3
    <3> QED BY <3>2, <3>3, <3>4, HandlerSame
  <2>3. \A i \in 1..Len(d) : i \in 1..k \/ i \in (k + 1)..Len(d) BY <1>2
  <2> QED BY <2>1, <2>2, <2>3 DEF ChangeHandlers, Handlers
<1> QED BY <1>1, <1>3, <1>4, <1>5, <1>6, <1>7 DEF Core

------------------------------------------------------------------------------
(* Pushing and cutting, as the entries of the thread see it *)

LEMMA MatchPush ==
  ASSUME NEW c \in Seq(Activation), NEW th, NEW ci, NEW g \in Activation, g.th = th,
         Matches(c, ci, th), NEW ci2, Len(ci) \in Nat, Len(ci2) = Len(ci) + Width(g),
         \A m \in 1..Len(ci) : ci2[m].lua <=> ci[m].lua,
         \A m \in (Len(ci) + 1)..Len(ci2) : ci2[m].lua <=> g.k = "exec"
  PROVE  Matches(Append(c, g), ci2, th)
<1> DEFINE d == Append(c, g)
           n == Len(c)
<1>1. /\ n \in Nat /\ d \in Seq(Activation) /\ Len(d) = n + 1 /\ d[n + 1] = g
      /\ \A i \in 1..n : d[i] = c[i]
  OBVIOUS
<1>2. Same(c, d, n) BY <1>1 DEF Same
<1>3. Width(g) \in Nat BY Widths
<1> HIDE DEF d
<1>4. \A i \in 0..n : Entries(d, th, i) = Entries(c, th, i) BY <1>1, <1>2, SameCounts
<1>5. Len(ci) = Entries(c, th, n) BY DEF Matches
<1>6. Entries(d, th, n + 1) = Entries(c, th, n) + Width(g)
  <2>1. n \in 0..Len(d) /\ n < Len(d) BY <1>1
  <2> QED BY <1>1, <1>4, <2>1, EntriesStep
<1>7. ASSUME NEW i \in 1..n, d[i].th = th, NEW m \in 1..Len(ci2),
             Entries(d, th, i) - Width(d[i]) < m, m <= Entries(d, th, i)
      PROVE  ci2[m].lua <=> d[i].k = "exec"
  <2>1. i \in 0..n /\ n \in 0..n /\ d[i] = c[i] BY <1>1
  <2>2. Entries(c, th, i) <= Entries(c, th, n) BY <1>1, <2>1, EntriesGrow
  <2>3. Entries(c, th, i) \in Nat /\ Entries(c, th, i) = Entries(d, th, i)
    BY <1>4, <2>1, EntriesStep
  <2>4. m \in 1..Len(ci) BY <1>3, <1>5, <1>7, <2>2, <2>3
  <2> QED BY <1>7, <2>1, <2>3, <2>4 DEF Matches
<1>8. ASSUME NEW m \in 1..Len(ci2),
             Entries(d, th, n + 1) - Width(g) < m, m <= Entries(d, th, n + 1)
      PROVE  ci2[m].lua <=> g.k = "exec"
  <2>1. m \in (Len(ci) + 1)..Len(ci2) BY <1>3, <1>5, <1>6, <1>8
  <2> QED BY <2>1
<1>9. \A i \in 1..Len(d) : i \in 1..n \/ i = n + 1 BY <1>1
<1>10. Matches(d, ci2, th) BY <1>1, <1>5, <1>6, <1>7, <1>8, <1>9 DEF Matches
<1> QED BY <1>10 DEF d

LEMMA MatchCut ==
  ASSUME NEW c \in Seq(Activation), NEW th, NEW ci, Len(ci) \in Nat, Matches(c, ci, th),
         NEW d \in Seq(Activation), Len(d) <= Len(c), Same(c, d, Len(d)),
         NEW ci2, Len(ci2) = Entries(c, th, Len(d)),
         \A m \in 1..Len(ci2) : ci2[m].lua <=> ci[m].lua
  PROVE  Matches(d, ci2, th)
<1>1. Len(d) \in Nat /\ Len(c) \in Nat /\ \A i \in 1..Len(d) : c[i] = d[i] BY DEF Same
<1>2. \A i \in 0..Len(d) : Entries(d, th, i) = Entries(c, th, i) BY <1>1, SameCounts
<1>3. Len(ci2) <= Len(ci) /\ Len(ci2) \in Nat
  <2>1. Len(ci) = Entries(c, th, Len(c)) BY DEF Matches
  <2>2. Len(d) \in 0..Len(c) /\ Len(c) \in 0..Len(c) BY <1>1
  <2> QED BY <2>1, <2>2, EntriesGrow, EntriesStep
<1>4. ASSUME NEW i \in 1..Len(d), d[i].th = th, NEW m \in 1..Len(ci2),
             Entries(d, th, i) - Width(d[i]) < m, m <= Entries(d, th, i)
      PROVE  ci2[m].lua <=> d[i].k = "exec"
  <2>1. i \in 0..Len(d) /\ i \in 1..Len(c) /\ c[i] = d[i] /\ m \in 1..Len(ci)
    BY <1>1, <1>3, SMTT(30)
  <2> QED BY <1>2, <1>4, <2>1 DEF Matches
<1>5. Len(ci2) = Entries(d, th, Len(d)) BY <1>1, <1>2, SMTT(30)
<1> QED BY <1>4, <1>5 DEF Matches

LEMMA PcallKept ==
  ASSUME NEW c, NEW t, NEW t2, NEW i, PcallAt(c, t, i),
         c[i].k = "pcall" =>
           LET ci == t[c[i].th].ci
               ci2 == t2[c[i].th].ci
           IN /\ Len(ci) \in Nat /\ Len(ci2) \in Nat /\ c[i].old_ci \in Nat \ {0}
              /\ c[i].old_ci <= Len(ci2)
              /\ \A m \in 1..Len(ci2) :
                   IF m <= Len(ci) THEN ci2[m].base = ci[m].base
                   ELSE c[i].old_top < ci2[m].base
  PROVE  PcallAt(c, t2, i)
<1> SUFFICES ASSUME c[i].k = "pcall" PROVE PcallAt(c, t2, i) BY ZenonT(30) DEF PcallAt
<1> DEFINE ci == t[c[i].th].ci
           ci2 == t2[c[i].th].ci
           o == c[i].old_ci
<1>1. /\ o = Entries(c, c[i].th, i - 1) /\ o <= Len(ci) /\ ci[o].base <= c[i].old_top
      /\ \A m \in 1..Len(ci) : o < m => c[i].old_top < ci[m].base
  BY DEF PcallAt
<1>2. /\ Len(ci) \in Nat /\ Len(ci2) \in Nat /\ o \in Nat \ {0} /\ o <= Len(ci2)
      /\ \A m \in 1..Len(ci2) : IF m <= Len(ci) THEN ci2[m].base = ci[m].base
                                ELSE c[i].old_top < ci2[m].base
  OBVIOUS
<1> HIDE DEF ci, ci2, o
<1>3. ci2[o].base = ci[o].base BY <1>1, <1>2
<1>4. \A m \in 1..Len(ci2) : o < m => c[i].old_top < ci2[m].base
  <2> TAKE m \in 1..Len(ci2)
  <2>1. CASE m <= Len(ci)
    <3>1. m \in 1..Len(ci) BY <1>2, <2>1
    <3> QED BY <1>1, <1>2, <2>1, <3>1
  <2>2. CASE ~(m <= Len(ci)) BY <1>2, <2>2
  <2> QED BY <2>1, <2>2
<1> QED BY <1>1, <1>2, <1>3, <1>4, ZenonT(30) DEF PcallAt, ci, ci2, o

------------------------------------------------------------------------------
(* What the invariant says of the thread that runs *)

(* The facts of the types that the proofs keep needing. *)
LEMMA Typed ==
  ASSUME NEW c, NEW t, Core(c, t)
  PROVE  /\ Chain(c) /\ c \in Seq(Activation) /\ Len(c) \in Nat \ {0}
         /\ t \in [Threads -> ThreadRec]
         /\ \A i \in 1..Len(c) : c[i] \in Activation /\ c[i].th \in Threads
         /\ \A i \in 1..Len(c) : c[i].k = "pcall" => c[i] \in Pcalls
         /\ c[Len(c)] \in Activation /\ c[Len(c)].th \in Threads
         /\ \A th \in Threads : /\ t[th] \in ThreadRec /\ t[th].ci \in Seq(CallInfo)
                                /\ Len(t[th].ci) \in Nat \ {0} /\ ThreadOK(t[th])
<1>1. /\ Chain(c) /\ c \in Seq(Activation) /\ Len(c) \in Nat \ {0}
      /\ \A i \in 1..Len(c) : c[i] \in Activation
  BY Places DEF Core, Chain
<1>2. /\ t \in [Threads -> ThreadRec]
      /\ \A th \in Threads : t[th] \in ThreadRec /\ ThreadOK(t[th])
  BY DEF Core, ThreadsOK
<1>3. \A th \in Threads : t[th].ci \in Seq(CallInfo) /\ Len(t[th].ci) \in Nat \ {0}
  BY <1>2 DEF ThreadOK, ThreadRec
<1>4. \A i \in 1..Len(c) : c[i].th \in Threads /\ (c[i].k = "pcall" => c[i] \in Pcalls)
  BY <1>1, Kinds
<1>5. Len(c) \in 1..Len(c) BY <1>1
<1> QED BY <1>1, <1>2, <1>3, <1>4, <1>5

LEMMA RunsOk ==
  ASSUME NEW c, NEW t, Core(c, t), c[Len(c)].k # "resume"
  PROVE  LET th == c[Len(c)].th IN
           t[th].status = "ok" /\ Matches(c, t[th].ci, th)
<1> DEFINE th == c[Len(c)].th
<1>1. Len(c) \in 1..Len(c) /\ th \in Threads BY Typed
<1>2. Busy(c, th) BY <1>1 DEF Busy
<1>3. t[th].status \in {"ok", "yield", "error"} BY <1>1, Typed DEF ThreadRec
<1>4. MatchAt(c, t[th], th) BY <1>1 DEF Core, Match
<1> QED BY <1>2, <1>3, <1>4 DEF MatchAt

(* Above a protected call the thread has entries of its own, all higher up. *)
LEMMA Above ==
  ASSUME NEW c, NEW t, Core(c, t), NEW n, n = Len(c), NEW th, th = c[n].th,
         c[n].k # "resume", n >= 2, NEW i \in 1..n, IsPcall(c[i], th), i < n
  PROVE  /\ c[i].old_ci <= Entries(c, th, n - 1)
         /\ Entries(c, th, n - 1) = Len(t[th].ci) - Width(c[n])
         /\ Width(c[n]) > 0 => c[i].old_top < t[th].base
<1>1. /\ c \in Seq(Activation) /\ n \in Nat \ {0} /\ c[i] \in Pcalls /\ c[n] \in Activation
      /\ th \in Threads /\ Len(t[th].ci) \in Nat \ {0} /\ ThreadOK(t[th])
  BY Typed, SMTT(30) DEF IsPcall
<1>2. PcallAt(c, t, i) /\ c[i].th = th /\ c[i].k = "pcall"
  BY SMTT(30) DEF Core, PcallsOK, IsPcall
<1>3. c[i].old_ci = Entries(c, th, i - 1) BY <1>2 DEF PcallAt
<1>4. i - 1 \in 0..Len(c) /\ n - 1 \in 0..Len(c) /\ n \in 0..Len(c) /\ i - 1 <= n - 1
        /\ n - 1 < Len(c) /\ (n - 1) + 1 = n
  BY <1>1
<1>5. Entries(c, th, i - 1) <= Entries(c, th, n - 1) BY <1>1, <1>4, EntriesGrow
<1>6. Entries(c, th, n) = Entries(c, th, n - 1) + Width(c[n])
  BY <1>1, <1>4, EntriesStep
<1>7. Len(t[th].ci) = Entries(c, th, n) BY RunsOk, SMTT(30) DEF Matches
<1>8. Width(c[n]) \in Nat /\ Entries(c, th, n - 1) \in Nat /\ c[i].old_ci \in Nat \ {0}
  BY <1>1, <1>4, Widths, EntriesStep, ZenonT(30) DEF Pcalls
<1>9. ASSUME Width(c[n]) > 0 PROVE c[i].old_top < t[th].base
  <2>1. c[i].old_ci < Len(t[th].ci) BY <1>3, <1>5, <1>6, <1>7, <1>8, <1>9, SMTT(30)
  <2>2. Len(t[th].ci) \in 1..Len(t[th].ci) BY <1>1, SMTT(30)
  <2>3. c[i].old_top < t[th].ci[Len(t[th].ci)].base BY <1>2, <2>1, <2>2 DEF PcallAt
  <2> QED BY <1>1, <2>3, ZenonT(30) DEF ThreadOK
<1> QED BY <1>3, <1>5, <1>6, <1>7, <1>8, <1>9, SMTT(30)

(* A frame of luaV_execute or of a C function is higher than what any protected
   call of the thread keeps. *)
LEMMA FrameHigh ==
  ASSUME NEW c, NEW t, Core(c, t), c[Len(c)].k \in {"C", "exec"}
  PROVE  LET th == c[Len(c)].th IN
           \A i \in 1..Len(c) : IsPcall(c[i], th) => c[i].old_top < t[th].base
<1> DEFINE n == Len(c)
           th == c[n].th
<1> SUFFICES ASSUME NEW i \in 1..n, IsPcall(c[i], th) PROVE c[i].old_top < t[th].base
  OBVIOUS
<1>1. n \in Nat \ {0} /\ c[n] \in Activation BY Typed
<1>2. i # n BY DEF IsPcall
<1>3. n >= 2 /\ i < n BY <1>1, <1>2
<1>4. Width(c[n]) \in Nat /\ Width(c[n]) >= 1 BY <1>1, Widths
<1>5. c[n].k # "resume" /\ Width(c[n]) > 0 BY <1>4
<1> QED BY <1>3, <1>5, Above

------------------------------------------------------------------------------
(* The changes that steps are made of *)

LEMMA Pushing ==
  ASSUME NEW c, Chain(c), NEW g \in Activation
  PROVE  LET d == Append(c, g)
             n == Len(c)
         IN /\ n \in Nat \ {0} /\ d \in Seq(Activation) /\ Len(d) = n + 1
            /\ d[n + 1] = g /\ d[Len(d)] = g /\ Same(c, d, n)
            /\ \A i \in 1..n : d[i] = c[i]
            /\ \A i \in (n + 1)..Len(d) : i = n + 1
            /\ Nested(d, n + 1) = Nested(c, n) + IF Counted(g) THEN 1 ELSE 0
            /\ Nested(c, n) \in Nat /\ Nested(d, n) = Nested(c, n)
            /\ On(d, n + 1) => Chain(d)
<1> DEFINE d == Append(c, g)
           n == Len(c)
<1>1. /\ n \in Nat \ {0} /\ d \in Seq(Activation) /\ Len(d) = n + 1
      /\ d[n + 1] = g /\ d[Len(d)] = g /\ \A i \in 1..n : d[i] = c[i]
  BY DEF Chain
<1>2. Same(c, d, n) BY <1>1 DEF Same
<1>3. \A i \in (n + 1)..Len(d) : i = n + 1 BY <1>1
<1> HIDE DEF d
<1>4. /\ Nested(d, n) = Nested(c, n) /\ Nested(c, n) \in Nat
      /\ Nested(d, n + 1) = Nested(c, n) + IF Counted(g) THEN 1 ELSE 0
  <2>1. n \in Nat /\ n \in 0..n BY <1>1
  <2>2. Nested(d, n) = Nested(c, n) BY <1>2, <2>1, SameCounts
  <2>3. Nested(c, n) \in Nat BY <2>1, NestedStep
  <2>4. Nested(d, n + 1) = Nested(d, n) + IF Counted(d[n + 1]) THEN 1 ELSE 0
    BY <2>1, NestedStep
  <2> QED BY <1>1, <2>2, <2>3, <2>4
<1>5. ASSUME On(d, n + 1) PROVE Chain(d)
  <2>1. \A i \in (n + 1)..Len(d) : On(d, i) BY <1>3, <1>5
  <2>2. n \in 1..Len(c) /\ n <= Len(d) BY <1>1
  <2> QED BY <1>1, <1>2, <2>1, <2>2, ChainBy
<1> QED BY <1>1, <1>2, <1>3, <1>4, <1>5 DEF d

LEMMA Cutting ==
  ASSUME NEW c, Chain(c), NEW k \in 1..Len(c)
  PROVE  LET d == SubSeq(c, 1, k) IN
           /\ k \in Nat \ {0} /\ Chain(d) /\ d \in Seq(Activation) /\ Len(d) = k
           /\ Same(c, d, k) /\ \A i \in 1..k : d[i] = c[i]
           /\ \A i \in 0..k : Nested(d, i) = Nested(c, i)
<1> DEFINE d == SubSeq(c, 1, k)
<1>1. c \in Seq(Activation) /\ Len(c) \in Nat \ {0} BY Places DEF Chain
<1>2. d \in Seq(Activation) /\ Len(d) = k /\ \A i \in 1..k : d[i] = c[i] BY <1>1
<1>3. Same(c, d, k) /\ k \in Nat \ {0} BY <1>1, <1>2 DEF Same
<1> HIDE DEF d
<1>4. Chain(d)
  <2>1. \A i \in (k + 1)..Len(d) : On(d, i) BY <1>2, <1>3
  <2> QED BY <1>2, <1>3, <2>1, ChainBy
<1>5. \A i \in 0..k : Nested(d, i) = Nested(c, i) BY <1>3, SameCounts
<1> QED BY <1>2, <1>3, <1>4, <1>5 DEF d

(* A step that leaves the C stack alone. *)
Alike(l, l2) ==
  /\ l2.status = l.status /\ l2.ci = l.ci /\ l2.nCcalls = l.nCcalls
  /\ l2.baseCcalls = l.baseCcalls /\ l2.errfunc = l.errfunc

LEMMA SameStack ==
  ASSUME NEW c, NEW t, Core(c, t), NEW th \in Threads, NEW l2, ThreadOK(l2),
         Alike(t[th], l2)
  PROVE  Core(c, [t EXCEPT ![th] = l2])
<1> DEFINE t2 == [t EXCEPT ![th] = l2]
           n == Len(c)
<1>1. /\ Chain(c) /\ n \in Nat \ {0} /\ n \in 1..n /\ t \in [Threads -> ThreadRec]
      /\ c[n].th \in Threads
  BY Typed
<1>2. /\ t2[th] = l2 /\ \A x \in Threads \ {th} : t2[x] = t[x]
      /\ t2 \in [Threads -> ThreadRec]
  BY <1>1 DEF ThreadOK
<1>3. \A x \in Threads : Alike(t[x], t2[x]) BY <1>2 DEF Alike
<1> HIDE DEF t2
<1>4. ChangeAbove(c, t, c, t2, n, th)
  <2>1. MatchAt(c, t[th], th) BY DEF Core, Match
  <2>2. MatchAt(c, t2[th], th) BY <1>3, <2>1 DEF MatchAt, Alike, Suspended
  <2>3. \A i \in (n + 1)..n : FALSE BY <1>1
  <2> QED BY <1>1, <1>2, <2>2, <2>3 DEF ChangeAbove, Changed, Same
<1>5. ChangeDepth(c, t, c, t2, n, th)
  <2>1. t[Main].baseCcalls = 0 /\ t[c[n].th].nCcalls = Nested(c, n) BY SMTT(30) DEF Core, Depth
  <2>2. \A i \in (n + 1)..n : FALSE BY <1>1
  <2> QED BY <1>1, <1>3, <2>1, <2>2 DEF ChangeDepth, Alike, Threads
<1>6. ChangePcalls(c, c, t2, n, th)
  <2>1. ASSUME NEW i \in 1..n PROVE PcallAt(c, t2, i)
    <3>1. PcallAt(c, t, i) /\ c[i].th \in Threads BY Typed DEF Core, PcallsOK
    <3> QED BY <1>3, <3>1 DEF PcallAt, Alike
  <2>2. \A i \in (n + 1)..n : FALSE BY <1>1
  <2> QED BY <2>1, <2>2, SMTT(30) DEF ChangePcalls
<1>7. ChangeHandlers(c, t2, n, th)
  <2>1. HandlerOK(c, n, th, t2[th].errfunc) BY <1>3 DEF Core, Handlers, Alike
  <2>2. \A i \in (n + 1)..n : FALSE BY <1>1
  <2> QED BY <2>1, <2>2 DEF ChangeHandlers
<1>8. Core(c, t2) BY <1>4, <1>5, <1>6, <1>7, Change
<1> QED BY <1>8 DEF t2

(* luaD_call or luaG_errormsg begins. *)
LEMMA PushPlain ==
  ASSUME NEW c, NEW t, Core(c, t), NEW g \in Activation, g.th = c[Len(c)].th,
         g.k \in {"call", "errormsg"}, g.ph = "enter", On(Append(c, g), Len(c) + 1),
         t[g.th].status = "ok"
  PROVE  Core(Append(c, g), t)
<1> DEFINE d == Append(c, g)
           n == Len(c)
           th == g.th
<1>1. /\ n \in Nat \ {0} /\ d \in Seq(Activation) /\ Len(d) = n + 1 /\ d[n + 1] = g
      /\ d[Len(d)] = g /\ Same(c, d, n) /\ \A i \in 1..n : d[i] = c[i]
      /\ \A i \in (n + 1)..Len(d) : i = n + 1
      /\ Nested(d, n + 1) = Nested(c, n) + IF Counted(g) THEN 1 ELSE 0
      /\ Nested(c, n) \in Nat /\ Chain(d)
  BY Typed, Pushing
<1>2. /\ Chain(c) /\ n \in 1..n /\ t \in [Threads -> ThreadRec] /\ th \in Threads
      /\ c \in Seq(Activation)
      /\ Len(t[th].ci) \in Nat \ {0} /\ ThreadOK(t[th])
  BY Typed
<1>3. \A i \in (n + 1)..n : FALSE BY <1>1
<1> HIDE DEF d
<1>4. ChangeAbove(c, t, d, t, n, th)
  <2>1. Busy(c, th) BY <1>2 DEF Busy
  <2>2. Busy(d, th) BY <1>1 DEF Busy
  <2>3. Matches(c, t[th].ci, th) BY <1>2, <2>1 DEF Core, Match, MatchAt
  <2>4. Width(g) = 0 BY Widths
  <2>5. Matches(d, t[th].ci, th) BY <1>2, <2>3, <2>4, MatchPush, SMTT(30) DEF d
  <2>6. MatchAt(d, t[th], th) BY <2>2, <2>5 DEF MatchAt
  <2> QED BY <1>1, <1>2, <1>3, <2>6 DEF ChangeAbove, Changed
<1>5. ChangeDepth(c, t, d, t, n, th)
  <2>1. t[Main].baseCcalls = 0 /\ t[c[n].th].nCcalls = Nested(c, n) BY DEF Core, Depth
  <2>2. ~Counted(g) BY DEF Counted
  <2>3. DepthAt(d, t, n + 1) BY <1>1 DEF DepthAt
  <2> QED BY <1>1, <2>1, <2>2, <2>3 DEF ChangeDepth
<1>6. ChangePcalls(c, d, t, n, th)
  <2>1. PcallAt(d, t, n + 1) BY <1>1 DEF PcallAt
  <2> QED BY <1>1, <2>1 DEF ChangePcalls, Core, PcallsOK
<1>7. ChangeHandlers(d, t, n, th)
  <2>1. HandlerOK(c, n, th, t[th].errfunc) BY <1>2 DEF Core, Handlers
  <2>2. \A i \in (n + 1)..Len(d) : ~IsPcall(d[i], th) BY <1>1 DEF IsPcall
  <2>3. HandlerOK(d, Len(d), th, t[th].errfunc)
    BY <1>1, <1>3, <2>1, <2>2, HandlerSame
  <2> QED BY <1>1, <2>3 DEF ChangeHandlers
<1> QED BY <1>4, <1>5, <1>6, <1>7, Change DEF d

(* luaD_pcall begins. *)
LEMMA PushPcall ==
  ASSUME NEW c, NEW t, Core(c, t), c[Len(c)].k = "C", NEW th, th = c[Len(c)].th,
         NEW x \in Nat, t[th].base <= x,
         NEW l2, ThreadOK(l2), l2.errfunc \in {NoHandler, x - 1},
         Alike([t[th] EXCEPT !.errfunc = l2.errfunc], l2)
  PROVE  Core(Append(c, [k |-> "pcall", th |-> th, oldnCcalls |-> t[th].nCcalls,
                         old_ci |-> Len(t[th].ci), old_top |-> x,
                         old_errfunc |-> t[th].errfunc]),
              [t EXCEPT ![th] = l2])
<1> DEFINE g == [k |-> "pcall", th |-> th, oldnCcalls |-> t[th].nCcalls,
                 old_ci |-> Len(t[th].ci), old_top |-> x, old_errfunc |-> t[th].errfunc]
           d == Append(c, g)
           n == Len(c)
           t2 == [t EXCEPT ![th] = l2]
<1>1. /\ Chain(c) /\ n \in Nat \ {0} /\ n \in 1..n /\ t \in [Threads -> ThreadRec]
      /\ th \in Threads /\ c \in Seq(Activation) /\ t[th] \in ThreadRec
      /\ Len(t[th].ci) \in Nat \ {0} /\ ThreadOK(t[th])
  BY Typed
<1>2. g \in Activation
  <2>1. t[th].nCcalls \in Nat /\ t[th].errfunc \in Nat BY <1>1 DEF ThreadRec
  <2>2. g \in Pcalls BY <1>1, <2>1 DEF Pcalls
  <2> QED BY <2>2 DEF Activation
<1>3. /\ g.k = "pcall" /\ g.th = th /\ g.old_ci = Len(t[th].ci) /\ g.old_top = x
      /\ g.oldnCcalls = t[th].nCcalls /\ g.old_errfunc = t[th].errfunc
  OBVIOUS
<1> HIDE DEF g
<1>4. /\ d \in Seq(Activation) /\ Len(d) = n + 1 /\ d[n + 1] = g
      /\ d[Len(d)] = g /\ Same(c, d, n) /\ \A i \in 1..n : d[i] = c[i]
      /\ \A i \in (n + 1)..Len(d) : i = n + 1
      /\ Nested(d, n + 1) = Nested(c, n) + IF Counted(g) THEN 1 ELSE 0
      /\ Nested(c, n) \in Nat /\ Nested(d, n) = Nested(c, n) /\ (On(d, n + 1) => Chain(d))
  BY <1>1, <1>2, Pushing, SMTT(30)
<1>5. /\ t2[th] = l2 /\ \A y \in Threads \ {th} : t2[y] = t[y]
      /\ t2 \in [Threads -> ThreadRec]
  BY <1>1, ZenonT(30) DEF ThreadOK
<1>6. /\ l2.status = t[th].status /\ l2.ci = t[th].ci /\ l2.nCcalls = t[th].nCcalls
      /\ l2.baseCcalls = t[th].baseCcalls
  BY <1>1 DEF Alike, ThreadRec
<1>7. \A i \in (n + 1)..n : FALSE BY <1>1
<1> HIDE DEF d, t2
<1>8. On(d, n + 1)
  <2>1. d[(n + 1) - 1] = c[n] BY <1>1, <1>4
  <2> QED BY <1>3, <1>4, <2>1 DEF On, IsJump
<1>9. ChangeAbove(c, t, d, t2, n, th)
  <2>1. Busy(d, th) BY <1>1, <1>4 DEF Busy
  <2>2. Matches(c, t[th].ci, th) /\ t[th].status = "ok" BY RunsOk
  <2>3. Width(g) = 0 BY <1>2, <1>3, Widths
  <2>4. Matches(d, t[th].ci, th) BY <1>1, <1>2, <1>3, <2>2, <2>3, MatchPush DEF d
  <2>5. MatchAt(d, l2, th) BY <1>6, <2>1, <2>2, <2>4 DEF MatchAt
  <2> QED BY <1>1, <1>3, <1>4, <1>5, <1>7, <1>8, <2>5 DEF ChangeAbove, Changed
<1>10. ChangeDepth(c, t, d, t2, n, th)
  <2>1. t[Main].baseCcalls = 0 /\ t[th].nCcalls = Nested(c, n) BY DEF Core, Depth
  <2>2. ~Counted(g) BY <1>3 DEF Counted
  <2>3. (n + 1) - 1 = n BY <1>1
  <2>4. DepthAt(d, t2, n + 1) BY <1>3, <1>4, <2>1, <2>3, SMTT(30) DEF DepthAt
  <2> QED BY <1>3, <1>4, <1>5, <1>6, <2>1, <2>2, <2>4 DEF ChangeDepth
<1>11. ChangePcalls(c, d, t2, n, th)
  <2>1. ASSUME NEW i \in 1..n, c[i].th = th PROVE PcallAt(c, t2, i)
    BY <1>5, <1>6, <2>1 DEF PcallAt, Core, PcallsOK
  <2>2. PcallAt(d, t2, n + 1)
    <3>1. Entries(d, th, n) = Len(t[th].ci)
      <4>1. n \in Nat /\ n \in 0..n BY <1>1
      <4>2. Entries(c, th, n) = Len(t[th].ci) BY RunsOk DEF Matches
      <4> QED BY <1>4, <4>1, <4>2, SameCounts, SMTT(30)
    <3>2. (n + 1) - 1 = n BY <1>1
    <3>3. l2.ci[Len(l2.ci)].base <= x BY <1>1, <1>6, ZenonT(30) DEF ThreadOK
    <3>4. \A m \in 1..Len(l2.ci) : ~(Len(l2.ci) < m) BY <1>1, <1>6
    <3> QED BY <1>1, <1>3, <1>4, <1>5, <1>6, <3>1, <3>2, <3>3, <3>4, SMTT(30) DEF PcallAt
  <2> QED BY <1>4, <2>1, <2>2, SMTT(30) DEF ChangePcalls
<1>12. ChangeHandlers(d, t2, n, th)
  <2>1. HandlerOK(c, n, th, t[th].errfunc) BY <1>1 DEF Core, Handlers
  <2>2. HandlerOK(d, n, th, g.old_errfunc)
    <3>1. n \in Nat /\ n <= n BY <1>1
    <3> QED BY <1>3, <1>4, <1>7, <2>1, <3>1, HandlerSame
  <2>3. HandlerOK(d, Len(d), th, l2.errfunc)
    <3>1. n + 1 \in 1..Len(d) /\ \A j \in 1..Len(d) : ~(n + 1 < j) BY <1>1, <1>4
    <3> QED BY <1>3, <1>4, <3>1 DEF HandlerOK, IsPcall
  <2>4. (n + 1) - 1 = n BY <1>1
  <2> QED BY <1>3, <1>4, <1>5, <2>2, <2>3, <2>4 DEF ChangeHandlers
<1>13. Core(d, t2) BY <1>9, <1>10, <1>11, <1>12, Change
<1> QED BY <1>13 DEF d, t2, g

(* lua_resume begins. *)
LEMMA PushResume ==
  ASSUME NEW c, NEW t, Core(c, t), c[Len(c)].k = "C", NEW th, th = c[Len(c)].th,
         NEW co \in Coroutines, ~Busy(c, co), t[co].status # "error",
         NEW l2, ThreadOK(l2),
         l2.status = t[co].status, l2.ci = t[co].ci, l2.errfunc = t[co].errfunc,
         l2.nCcalls = t[th].nCcalls + 1, l2.baseCcalls = t[th].nCcalls + 1
  PROVE  Core(Append(c, [k |-> "resume", th |-> co]), [t EXCEPT ![co] = l2])
<1> DEFINE g == [k |-> "resume", th |-> co]
           d == Append(c, g)
           n == Len(c)
           t2 == [t EXCEPT ![co] = l2]
<1>1. /\ Chain(c) /\ n \in Nat \ {0} /\ n \in 1..n /\ t \in [Threads -> ThreadRec]
      /\ th \in Threads /\ c \in Seq(Activation)
      /\ co \in Threads /\ co # Main /\ t[co] \in ThreadRec
      /\ Len(t[co].ci) \in Nat \ {0} /\ ThreadOK(t[co])
  <2>1. co # Main /\ co \in Threads BY CallsAssumption DEF Threads
  <2> QED BY <2>1, Typed
<1>2. g \in Activation
  <2>1. g \in Resumptions BY <1>1 DEF Resumptions
  <2> QED BY <2>1 DEF Activation
<1>3. g.k = "resume" /\ g.th = co OBVIOUS
<1> HIDE DEF g
<1>4. /\ d \in Seq(Activation) /\ Len(d) = n + 1 /\ d[n + 1] = g
      /\ d[Len(d)] = g /\ Same(c, d, n) /\ \A i \in 1..n : d[i] = c[i]
      /\ \A i \in (n + 1)..Len(d) : i = n + 1
      /\ Nested(d, n + 1) = Nested(c, n) + IF Counted(g) THEN 1 ELSE 0
      /\ Nested(c, n) \in Nat /\ Nested(d, n) = Nested(c, n) /\ (On(d, n + 1) => Chain(d))
  BY <1>1, <1>2, Pushing
<1>5. /\ t2[co] = l2 /\ \A y \in Threads \ {co} : t2[y] = t[y]
      /\ t2 \in [Threads -> ThreadRec]
  BY <1>1 DEF ThreadOK
<1>6. (\A i \in (n + 1)..n : FALSE) /\ (n + 1) - 1 = n BY <1>1
<1>7. \A i \in 1..n : c[i].th # co BY DEF Busy
<1>8. th # co BY <1>1, <1>7
<1> HIDE DEF d, t2
<1>9. On(d, n + 1)
  <2>1. d[(n + 1) - 1] = c[n] BY <1>1, <1>4
  <2>2. \A j \in 1..((n + 1) - 1) : d[j].th # co BY <1>1, <1>4, <1>7
  <2> QED BY <1>1, <1>3, <1>4, <2>1, <2>2 DEF On, IsJump
<1>10. ChangeAbove(c, t, d, t2, n, co)
  <2>1. Busy(d, co) BY <1>1, <1>3, <1>4 DEF Busy
  <2>2. MatchAt(c, t[co], co) BY <1>1 DEF Core, Match
  <2>3. ASSUME l2.status = "ok" PROVE Matches(d, l2.ci, co)
    <3>1. Len(l2.ci) = 1 BY <2>2, <2>3 DEF MatchAt
    <3>2. Entries(d, co, n) = 0
      <4>1. 0 \in Nat /\ n \in Nat /\ 0 <= n /\ \A j \in (0 + 1)..n : d[j].th # co
        BY <1>1, <1>4, <1>7
      <4>2. Entries(d, co, 0) = Entries(d, co, n) BY <4>1, EntriesStay
      <4>3. 0 \in 0..Len(d) BY <1>1, <1>4
      <4> QED BY <1>4, <4>2, <4>3, EntriesStep
    <3>3. Width(g) = 1 BY <1>3 DEF Width
    <3>4. Entries(d, co, n + 1) = 1
      <4>1. n \in 0..Len(d) /\ n < Len(d) BY <1>1, <1>4
      <4> QED BY <1>3, <1>4, <3>2, <3>3, <4>1, EntriesStep
    <3>5. \A i \in 1..Len(d) : d[i].th = co => i = n + 1
      <4>1. \A i \in 1..Len(d) : i \in 1..n \/ i = n + 1 BY <1>1, <1>4
      <4> QED BY <1>4, <1>7, <4>1
    <3>6. ~l2.ci[1].lua BY DEF ThreadOK
    <3>7. \A m \in 1..Len(l2.ci) : m = 1 BY <3>1
    <3> QED BY <1>3, <1>4, <3>1, <3>4, <3>5, <3>6, <3>7 DEF Matches
  <2>4. MatchAt(d, l2, co) BY <1>3, <1>4, <2>1, <2>2, <2>3 DEF MatchAt, Suspended
  <2> QED BY <1>1, <1>3, <1>4, <1>5, <1>6, <1>9, <2>4 DEF ChangeAbove, Changed
<1>11. ChangeDepth(c, t, d, t2, n, co)
  <2>1. t[th].nCcalls = Nested(c, n) BY DEF Core, Depth
  <2>2. Counted(g) BY <1>3 DEF Counted
  <2>3. d[n] = c[n] BY <1>1, <1>4
  <2>4. t2[th] = t[th] BY <1>1, <1>5, <1>8
  <2>5. DepthAt(d, t2, n + 1) BY <1>3, <1>4, <1>5, <1>6, <2>1, <2>2, <2>3, <2>4 DEF DepthAt
  <2>6. \A i \in 2..n : c[i - 1].th # co /\ c[i].th # co BY <1>1, <1>7
  <2> QED BY <1>1, <1>3, <1>4, <1>5, <2>1, <2>2, <2>5, <2>6 DEF ChangeDepth
<1>12. ChangePcalls(c, d, t2, n, co)
  <2>1. PcallAt(d, t2, n + 1) BY <1>3, <1>4 DEF PcallAt
  <2> QED BY <1>4, <1>7, <2>1 DEF ChangePcalls
<1>13. ChangeHandlers(d, t2, n, co)
  <2>1. HandlerOK(c, n, co, t[co].errfunc) BY <1>1 DEF Core, Handlers
  <2>2. \A i \in (n + 1)..Len(d) : ~IsPcall(d[i], co) BY <1>3, <1>4 DEF IsPcall
  <2>3. n \in Nat /\ Len(d) \in Nat /\ n <= n /\ n <= Len(d) BY <1>1, <1>4
  <2>4. HandlerOK(d, Len(d), co, l2.errfunc)
    BY <1>4, <1>6, <2>1, <2>2, <2>3, HandlerSame
  <2> QED BY <1>3, <1>4, <1>5, <2>4 DEF ChangeHandlers
<1>14. Core(d, t2) BY <1>10, <1>11, <1>12, <1>13, Change
<1> QED BY <1>14 DEF d, t2, g

(* The activation on top is exchanged for another one of its kind. *)
LEMMA Setting ==
  ASSUME NEW c, Chain(c), Len(c) >= 2, NEW g \in Activation,
         g.k = c[Len(c)].k, g.th = c[Len(c)].th
  PROVE  LET d == SetLast(c, g)
             n == Len(c)
         IN /\ n \in Nat \ {0} /\ n - 1 \in 1..n /\ n - 1 \in Nat
            /\ d \in Seq(Activation) /\ Len(d) = n /\ d[n] = g
            /\ Same(c, d, n - 1) /\ \A i \in 1..(n - 1) : d[i] = c[i]
            /\ \A i \in (n - 1 + 1)..n : i = n
            /\ Nested(d, n) = Nested(c, n - 1) + IF Counted(g) THEN 1 ELSE 0
            /\ Nested(c, n) = Nested(c, n - 1) + IF Counted(c[n]) THEN 1 ELSE 0
            /\ Nested(c, n - 1) \in Nat /\ Chain(d)
<1> DEFINE d == SetLast(c, g)
           n == Len(c)
<1>1. c \in Seq(Activation) /\ n \in Nat \ {0} /\ n - 1 \in 1..n /\ n - 1 \in Nat
        /\ n \in 2..n
  BY Places DEF Chain
<1>2. d \in Seq(Activation) /\ Len(d) = n /\ d[n] = g /\ \A i \in 1..(n - 1) : d[i] = c[i]
  BY <1>1 DEF SetLast
<1>3. (\A i \in (n - 1 + 1)..n : i = n) /\ (n - 1) + 1 = n BY <1>1
<1>4. Same(c, d, n - 1) BY <1>2 DEF Same
<1> HIDE DEF d
<1>5. /\ Nested(d, n) = Nested(c, n - 1) + IF Counted(g) THEN 1 ELSE 0
      /\ Nested(c, n) = Nested(c, n - 1) + IF Counted(c[n]) THEN 1 ELSE 0
      /\ Nested(c, n - 1) \in Nat
  <2>1. n - 1 \in 0..(n - 1) BY <1>1
  <2>2. Nested(d, n - 1) = Nested(c, n - 1) BY <1>1, <1>4, <2>1, SameCounts
  <2>3. /\ Nested(c, n - 1) \in Nat
        /\ Nested(c, (n - 1) + 1) = Nested(c, n - 1) + IF Counted(c[(n - 1) + 1]) THEN 1 ELSE 0
        /\ Nested(d, (n - 1) + 1) = Nested(d, n - 1) + IF Counted(d[(n - 1) + 1]) THEN 1 ELSE 0
    BY <1>1, NestedStep
  <2> QED BY <1>2, <1>3, <2>2, <2>3
<1>6. Chain(d)
  <2>1. On(c, n) BY <1>1, Places
  <2>2. d[n - 1] = c[n - 1] BY <1>1, <1>2
  <2>3. On(d, n) BY <1>2, <2>1, <2>2 DEF On, IsJump
  <2>4. \A i \in (n - 1 + 1)..Len(d) : On(d, i) BY <1>2, <1>3, <2>3
  <2> QED BY <1>1, <1>2, <1>4, <2>4, ChainBy
<1> QED BY <1>1, <1>2, <1>3, <1>4, <1>5, <1>6 DEF d

LEMMA MatchSet ==
  ASSUME NEW c, Chain(c), Len(c) >= 2, NEW th, th = c[Len(c)].th,
         NEW ci \in Seq(CallInfo), Matches(c, ci, th),
         NEW g \in Activation, g.th = th,
         NEW ci2, Len(ci2) = Len(ci) - Width(c[Len(c)]) + Width(g),
         \A m \in 1..(Len(ci) - Width(c[Len(c)])) : ci2[m].lua <=> ci[m].lua,
         \A m \in (Len(ci) - Width(c[Len(c)]) + 1)..Len(ci2) : ci2[m].lua <=> g.k = "exec"
  PROVE  Matches(SetLast(c, g), ci2, th)
<1> DEFINE n == Len(c)
           b == SubSeq(c, 1, n - 1)
           w == Width(c[n])
           e == Len(ci) - w
           ci0 == SubSeq(ci, 1, e)
<1>1. c \in Seq(Activation) /\ n \in Nat \ {0} /\ n - 1 \in 1..n /\ n - 1 \in Nat
        /\ c[n] \in Activation
  BY Places DEF Chain
<1>2. b \in Seq(Activation) /\ Len(b) = n - 1 /\ Same(c, b, n - 1) BY <1>1, Cutting
<1>3. SetLast(c, g) = Append(b, g)
  <2>1. /\ SetLast(c, g) \in Seq(Activation) /\ Len(SetLast(c, g)) = n
        /\ \A i \in 1..n : SetLast(c, g)[i] = IF i = n THEN g ELSE c[i]
    BY <1>1 DEF SetLast
  <2> HIDE DEF b
  <2>2. \A i \in 1..(n - 1) : b[i] = c[i] BY <1>2 DEF Same
  <2>3. /\ Append(b, g) \in Seq(Activation) /\ Len(Append(b, g)) = n
        /\ \A i \in 1..n : Append(b, g)[i] = IF i = n THEN g ELSE c[i]
    BY <1>1, <1>2, <2>2
  <2> QED BY <1>1, <2>1, <2>3, SMTT(30)
<1>4. w \in Nat /\ Len(ci) \in Nat /\ Width(g) \in Nat BY <1>1, Widths
<1>5. Len(ci) = Entries(c, th, n - 1) + w /\ Entries(c, th, n - 1) \in Nat
  <2>1. n - 1 \in 0..Len(c) /\ n - 1 < Len(c) /\ (n - 1) + 1 = n BY <1>1
  <2>2. Entries(c, th, n) = Entries(c, th, n - 1) + w BY <1>1, <2>1, EntriesStep
  <2>3. Len(ci) = Entries(c, th, n) BY DEF Matches
  <2> QED BY <1>1, <2>1, <2>2, <2>3, EntriesStep
<1>6. e = Entries(c, th, n - 1) /\ e \in 0..Len(ci) BY <1>4, <1>5
<1>7. Len(ci0) = e /\ \A m \in 1..e : ci0[m] = ci[m] BY <1>4, <1>6, SMTT(30)
<1> HIDE DEF b, w, e, ci0
<1>8. Matches(b, ci0, th)
  <2>1. Len(b) <= Len(c) /\ Len(ci) \in Nat BY <1>1, <1>2, <1>4
  <2>2. Len(ci0) = Entries(c, th, Len(b)) BY <1>2, <1>6, <1>7
  <2>3. \A m \in 1..Len(ci0) : ci0[m].lua <=> ci[m].lua BY <1>7
  <2>4. Same(c, b, Len(b)) BY <1>2
  <2> QED BY <1>1, <1>2, <2>1, <2>2, <2>3, <2>4, MatchCut
<1>9. /\ Len(ci0) \in Nat /\ Len(ci2) = Len(ci0) + Width(g)
      /\ \A m \in 1..Len(ci0) : ci2[m].lua <=> ci0[m].lua
      /\ \A m \in (Len(ci0) + 1)..Len(ci2) : ci2[m].lua <=> g.k = "exec"
  BY <1>6, <1>7 DEF e, w
<1>10. Matches(Append(b, g), ci2, th) BY <1>2, <1>8, <1>9, MatchPush
<1> QED BY <1>3, <1>10

(* luaD_call or luaG_errormsg is under way. *)
LEMMA MarkDone ==
  ASSUME NEW c, NEW t, Core(c, t), NEW f, f = c[Len(c)], f.k \in {"call", "errormsg"},
         f.ph = "enter", NEW th, th = f.th,
         NEW l2, ThreadOK(l2), Alike([t[th] EXCEPT !.nCcalls = l2.nCcalls], l2),
         l2.nCcalls = t[th].nCcalls + IF f.k = "call" THEN 1 ELSE 0
  PROVE  Core(SetLast(c, [f EXCEPT !.ph = "done"]), [t EXCEPT ![th] = l2])
<1> DEFINE g == [f EXCEPT !.ph = "done"]
           d == SetLast(c, g)
           n == Len(c)
           t2 == [t EXCEPT ![th] = l2]
<1>1. /\ Chain(c) /\ n \in Nat \ {0} /\ n \in 1..n /\ t \in [Threads -> ThreadRec]
      /\ th \in Threads /\ c \in Seq(Activation) /\ f \in Activation
      /\ t[th] \in ThreadRec /\ t[th].ci \in Seq(CallInfo) /\ ThreadOK(t[th])
  BY Typed
<1>2. g \in Activation /\ g.k = f.k /\ g.th = th /\ g.ph = "done"
  <2>1. f \in LuaDCalls \/ f \in ErrorMsgs BY <1>1, Kinds
  <2>2. (g \in LuaDCalls \/ g \in ErrorMsgs) /\ g.k = f.k /\ g.th = th /\ g.ph = "done"
    BY <2>1 DEF LuaDCalls, ErrorMsgs, Phases
  <2> QED BY <2>2 DEF Activation
<1> HIDE DEF g
<1>3. n >= 2
  <2>1. c[1].k = "C" BY <1>1, Places
  <2>2. n # 1 /\ n \in Nat \ {0} BY <1>1, <2>1
  <2> HIDE DEF n
  <2> QED BY <2>2
<1>4. /\ n - 1 \in 1..n /\ n - 1 \in Nat
      /\ d \in Seq(Activation) /\ Len(d) = n /\ d[n] = g
      /\ Same(c, d, n - 1) /\ \A i \in 1..(n - 1) : d[i] = c[i]
      /\ \A i \in (n - 1 + 1)..n : i = n
      /\ Nested(d, n) = Nested(c, n - 1) + IF Counted(g) THEN 1 ELSE 0
      /\ Nested(c, n) = Nested(c, n - 1) + IF Counted(f) THEN 1 ELSE 0
      /\ Nested(c, n - 1) \in Nat /\ Chain(d)
  BY <1>1, <1>2, <1>3, Setting, SMTT(30)
<1>5. /\ t2[th] = l2 /\ \A y \in Threads \ {th} : t2[y] = t[y]
      /\ t2 \in [Threads -> ThreadRec]
  BY <1>1, ZenonT(30) DEF ThreadOK
<1>6. /\ l2.status = t[th].status /\ l2.ci = t[th].ci /\ l2.errfunc = t[th].errfunc
      /\ l2.baseCcalls = t[th].baseCcalls
  BY <1>1 DEF Alike, ThreadRec
<1>7. t[th].status = "ok" /\ Matches(c, t[th].ci, th) BY RunsOk
<1> HIDE DEF d, t2
<1>8. ChangeAbove(c, t, d, t2, n - 1, th)
  <2>1. Busy(d, th) BY <1>1, <1>2, <1>4 DEF Busy
  <2>2. Width(g) = 0 /\ Width(f) = 0 BY <1>1, <1>2, Widths
  <2>3. Len(t[th].ci) \in Nat BY <1>1
  <2>4. Matches(d, l2.ci, th)
    <3> DEFINE ci == t[th].ci
    <3>1. ci \in Seq(CallInfo) /\ Len(ci) \in Nat /\ Matches(c, ci, th) /\ l2.ci = ci
      BY <1>1, <1>6, <1>7, <2>3
    <3> HIDE DEF ci
    <3>2. /\ Len(ci) = Len(ci) - Width(c[n]) + Width(g)
          /\ \A m \in (Len(ci) - Width(c[n]) + 1)..Len(ci) : FALSE
      BY <2>2, <3>1
    <3>3. Matches(SetLast(c, g), ci, th) BY <1>1, <1>2, <1>3, <3>1, <3>2, MatchSet
    <3> QED BY <3>1, <3>3 DEF d
  <2>5. MatchAt(d, l2, th) BY <1>6, <1>7, <2>1, <2>4 DEF MatchAt
  <2>6. n - 1 <= n BY <1>1
  <2> QED BY <1>1, <1>2, <1>4, <1>5, <2>5, <2>6 DEF ChangeAbove, Changed
<1>9. ChangeDepth(c, t, d, t2, n - 1, th)
  <2>1. t[Main].baseCcalls = 0 /\ t[th].nCcalls = Nested(c, n) BY DEF Core, Depth
  <2>2. Counted(g) <=> f.k = "call" BY <1>2 DEF Counted
  <2>3. ~Counted(f) BY DEF Counted
  <2>4. l2.nCcalls = Nested(d, n) BY <1>2, <1>4, <2>1, <2>2, <2>3
  <2>5. DepthAt(d, t2, n) BY <1>2, <1>4 DEF DepthAt
  <2>6. ASSUME NEW i \in 2..(n - 1), c[i].k = "resume" PROVE c[i - 1].th # th
    <3>1. i \in 2..Len(c) /\ i - 1 \in 1..(i - 1) /\ n \in i..Len(c) BY <1>1, <1>4, SMTT(30)
    <3> QED BY <1>1, <2>6, <3>1, Segments, SMTT(30)
  <2> QED BY <1>2, <1>4, <1>5, <1>6, <2>1, <2>4, <2>5, <2>6 DEF ChangeDepth
<1>10. ChangePcalls(c, d, t2, n - 1, th)
  <2>1. ASSUME NEW i \in 1..(n - 1), c[i].th = th PROVE PcallAt(c, t2, i)
    <3>1. i \in 1..n BY <1>4
    <3> QED BY <1>5, <1>6, <2>1, <3>1 DEF PcallAt, Core, PcallsOK
  <2>2. PcallAt(d, t2, n) BY <1>2, <1>4 DEF PcallAt
  <2> QED BY <1>4, <2>1, <2>2, SMTT(30) DEF ChangePcalls
<1>11. ChangeHandlers(d, t2, n - 1, th)
  <2>1. HandlerOK(c, n, th, l2.errfunc) BY <1>1, <1>6 DEF Core, Handlers
  <2>2. /\ \A i \in (n - 1 + 1)..n : ~IsPcall(c[i], th)
        /\ \A i \in (n - 1 + 1)..Len(d) : ~IsPcall(d[i], th)
    BY <1>2, <1>4 DEF IsPcall
  <2>3. n \in Nat /\ n - 1 <= n BY <1>1
  <2>4. HandlerOK(d, n, th, l2.errfunc) BY <1>4, <2>1, <2>2, <2>3, HandlerSame, SMTT(30)
  <2> QED BY <1>2, <1>4, <1>5, <2>4 DEF ChangeHandlers
<1>12. Core(d, t2) BY <1>8, <1>9, <1>10, <1>11, Change
<1> QED BY <1>12 DEF d, t2, g

(* The three changes of the stack by the thread on top, from what they do to that
   thread. *)
LEMMA PushAny ==
  ASSUME NEW c, NEW t, Core(c, t), NEW th, th = c[Len(c)].th, NEW g \in Activation,
         g.th = th, ~Counted(g), g.k # "pcall", On(Append(c, g), Len(c) + 1),
         NEW l2, ThreadOK(l2), l2.status = "ok", l2.nCcalls = t[th].nCcalls,
         l2.baseCcalls = t[th].baseCcalls, l2.errfunc = t[th].errfunc,
         g.k # "resume", Matches(Append(c, g), l2.ci, th),
         \A i \in 1..Len(c) : c[i].th = th => PcallAt(c, [t EXCEPT ![th] = l2], i)
  PROVE  Core(Append(c, g), [t EXCEPT ![th] = l2])
<1> DEFINE d == Append(c, g)
           n == Len(c)
           t2 == [t EXCEPT ![th] = l2]
<1>1. /\ Chain(c) /\ n \in Nat \ {0} /\ n \in 1..n /\ t \in [Threads -> ThreadRec]
      /\ th \in Threads
  BY Typed
<1>2. /\ Len(d) = n + 1 /\ d[n + 1] = g /\ d[Len(d)] = g /\ Same(c, d, n)
      /\ \A i \in (n + 1)..Len(d) : i = n + 1
      /\ Nested(d, n + 1) = Nested(c, n) + IF Counted(g) THEN 1 ELSE 0
      /\ Nested(c, n) \in Nat /\ Chain(d)
  BY <1>1, Pushing
<1>3. /\ t2[th] = l2 /\ \A y \in Threads \ {th} : t2[y] = t[y]
      /\ t2 \in [Threads -> ThreadRec]
  BY <1>1 DEF ThreadOK
<1>4. \A i \in (n + 1)..n : FALSE BY <1>1
<1>5. Matches(d, l2.ci, th) /\ \A i \in 1..n : c[i].th = th => PcallAt(c, t2, i) OBVIOUS
<1> HIDE DEF d, t2
<1>6. ChangeAbove(c, t, d, t2, n, th)
  <2>1. Busy(d, th) BY <1>1, <1>2 DEF Busy
  <2>2. MatchAt(d, l2, th) BY <1>5, <2>1 DEF MatchAt
  <2> QED BY <1>1, <1>2, <1>3, <1>4, <2>2 DEF ChangeAbove, Changed
<1>7. ChangeDepth(c, t, d, t2, n, th)
  <2>1. t[Main].baseCcalls = 0 /\ t[th].nCcalls = Nested(c, n) BY DEF Core, Depth
  <2>2. DepthAt(d, t2, n + 1) BY <1>2 DEF DepthAt
  <2> QED BY <1>2, <1>3, <2>1, <2>2 DEF ChangeDepth
<1>8. ChangePcalls(c, d, t2, n, th)
  <2>1. PcallAt(d, t2, n + 1) BY <1>2 DEF PcallAt
  <2> QED BY <1>2, <1>5, <2>1 DEF ChangePcalls
<1>9. ChangeHandlers(d, t2, n, th)
  <2>1. HandlerOK(c, n, th, l2.errfunc) BY <1>1 DEF Core, Handlers
  <2>2. \A i \in (n + 1)..Len(d) : ~IsPcall(d[i], th) BY <1>2 DEF IsPcall
  <2>3. n \in Nat /\ Len(d) \in Nat /\ n <= n /\ n <= Len(d) BY <1>1, <1>2
  <2>4. HandlerOK(d, Len(d), th, l2.errfunc)
    BY <1>2, <1>4, <2>1, <2>2, <2>3, HandlerSame
  <2> QED BY <1>2, <1>3, <2>4 DEF ChangeHandlers
<1>10. Core(d, t2) BY <1>6, <1>7, <1>8, <1>9, Change
<1> QED BY <1>10 DEF d, t2

LEMMA SetAny ==
  ASSUME NEW c, NEW t, Core(c, t), Len(c) >= 2, c[Len(c)].k # "resume",
         c[Len(c)].k # "pcall", NEW th, th = c[Len(c)].th, NEW g \in Activation,
         g.th = th, g.k = c[Len(c)].k, Counted(g) <=> Counted(c[Len(c)]),
         NEW l2, ThreadOK(l2), l2.status = "ok", l2.nCcalls = t[th].nCcalls,
         l2.baseCcalls = t[th].baseCcalls, l2.errfunc = t[th].errfunc,
         Matches(SetLast(c, g), l2.ci, th),
         \A i \in 1..(Len(c) - 1) : c[i].th = th => PcallAt(c, [t EXCEPT ![th] = l2], i)
  PROVE  Core(SetLast(c, g), [t EXCEPT ![th] = l2])
<1> DEFINE d == SetLast(c, g)
           n == Len(c)
           t2 == [t EXCEPT ![th] = l2]
<1>1. /\ Chain(c) /\ n \in Nat \ {0} /\ n \in 1..n /\ t \in [Threads -> ThreadRec]
      /\ th \in Threads
  BY Typed
<1>2. /\ n - 1 \in 1..n /\ n - 1 \in Nat
      /\ d \in Seq(Activation) /\ Len(d) = n /\ d[n] = g
      /\ Same(c, d, n - 1) /\ \A i \in 1..(n - 1) : d[i] = c[i]
      /\ \A i \in (n - 1 + 1)..n : i = n
      /\ Nested(d, n) = Nested(c, n - 1) + IF Counted(g) THEN 1 ELSE 0
      /\ Nested(c, n) = Nested(c, n - 1) + IF Counted(c[n]) THEN 1 ELSE 0
      /\ Nested(c, n - 1) \in Nat /\ Chain(d)
  BY <1>1, Setting
<1>3. /\ t2[th] = l2 /\ \A y \in Threads \ {th} : t2[y] = t[y]
      /\ t2 \in [Threads -> ThreadRec]
  BY <1>1 DEF ThreadOK
<1>4. Matches(d, l2.ci, th) /\ \A i \in 1..(n - 1) : c[i].th = th => PcallAt(c, t2, i)
  OBVIOUS
<1> HIDE DEF d, t2
<1>5. ChangeAbove(c, t, d, t2, n - 1, th)
  <2>1. Busy(d, th) BY <1>1, <1>2 DEF Busy
  <2>2. MatchAt(d, l2, th) BY <1>4, <2>1 DEF MatchAt
  <2>3. n - 1 <= n BY <1>1
  <2> QED BY <1>1, <1>2, <1>3, <2>2, <2>3 DEF ChangeAbove, Changed
<1>6. ChangeDepth(c, t, d, t2, n - 1, th)
  <2>1. t[Main].baseCcalls = 0 /\ t[th].nCcalls = Nested(c, n) BY DEF Core, Depth
  <2>2. DepthAt(d, t2, n) BY <1>2 DEF DepthAt
  <2>3. ASSUME NEW i \in 2..(n - 1), c[i].k = "resume" PROVE c[i - 1].th # th
    <3>1. i \in 2..Len(c) /\ i - 1 \in 1..(i - 1) /\ n \in i..Len(c) BY <1>1, <1>2, SMTT(30)
    <3> QED BY <1>1, <2>3, <3>1, Segments
  <2> QED BY <1>2, <1>3, <2>1, <2>2, <2>3 DEF ChangeDepth
<1>7. ChangePcalls(c, d, t2, n - 1, th)
  <2>1. PcallAt(d, t2, n) BY <1>2 DEF PcallAt
  <2> QED BY <1>2, <1>4, <2>1 DEF ChangePcalls
<1>8. ChangeHandlers(d, t2, n - 1, th)
  <2>1. HandlerOK(c, n, th, l2.errfunc) BY <1>1 DEF Core, Handlers
  <2>2. /\ \A i \in (n - 1 + 1)..n : ~IsPcall(c[i], th)
        /\ \A i \in (n - 1 + 1)..Len(d) : ~IsPcall(d[i], th)
    BY <1>2 DEF IsPcall
  <2>3. n \in Nat /\ n - 1 <= n BY <1>1
  <2>4. HandlerOK(d, n, th, l2.errfunc) BY <1>2, <2>1, <2>2, <2>3, HandlerSame
  <2> QED BY <1>2, <1>3, <2>4 DEF ChangeHandlers
<1>9. Core(d, t2) BY <1>5, <1>6, <1>7, <1>8, Change
<1> QED BY <1>9 DEF d, t2

LEMMA CutAny ==
  ASSUME NEW c, NEW t, Core(c, t), NEW k \in 1..(Len(c) - 1), NEW th,
         \A i \in k..Len(c) : c[i].th = th,
         NEW l2, ThreadOK(l2), l2.baseCcalls = t[th].baseCcalls,
         l2.nCcalls = Nested(c, k), MatchAt(SubSeq(c, 1, k), l2, th),
         HandlerOK(SubSeq(c, 1, k), k, th, l2.errfunc),
         \A i \in 1..k : c[i].th = th => PcallAt(c, [t EXCEPT ![th] = l2], i)
  PROVE  Core(SubSeq(c, 1, k), [t EXCEPT ![th] = l2])
<1> DEFINE d == SubSeq(c, 1, k)
           n == Len(c)
           t2 == [t EXCEPT ![th] = l2]
<1>1. /\ Chain(c) /\ n \in Nat \ {0} /\ n \in 1..n /\ t \in [Threads -> ThreadRec]
      /\ \A i \in 1..n : c[i].th \in Threads
  BY Typed
<1>2. /\ k \in 1..n /\ k \in Nat \ {0} /\ Chain(d) /\ Len(d) = k /\ Same(c, d, k)
      /\ Nested(d, k) = Nested(c, k) /\ d[k] = c[k]
  <2>1. k \in 1..n /\ k \in 0..k BY <1>1
  <2> QED BY <1>1, <2>1, Cutting
<1>3. c[k].th = th /\ c[n].th = th /\ th \in Threads BY <1>1, <1>2
<1>4. /\ t2[th] = l2 /\ \A y \in Threads \ {th} : t2[y] = t[y]
      /\ t2 \in [Threads -> ThreadRec]
  BY <1>1, <1>3 DEF ThreadOK
<1>5. /\ MatchAt(d, l2, th) /\ HandlerOK(d, k, th, l2.errfunc)
      /\ \A i \in 1..k : c[i].th = th => PcallAt(c, t2, i)
  OBVIOUS
<1>6. \A i \in (k + 1)..Len(d) : FALSE BY <1>2
<1> HIDE DEF d, t2
<1>7. ChangeAbove(c, t, d, t2, k, th)
  <2>1. \A i \in (k + 1)..n : c[i].th = th BY <1>2
  <2>2. k <= Len(d) BY <1>2
  <2> QED BY <1>2, <1>3, <1>4, <1>5, <1>6, <2>1, <2>2 DEF ChangeAbove, Changed
<1>8. ChangeDepth(c, t, d, t2, k, th)
  <2>1. t[Main].baseCcalls = 0 BY DEF Core, Depth
  <2>2. ASSUME NEW i \in 2..k, c[i].k = "resume" PROVE c[i - 1].th # th
    <3>1. i \in 2..Len(c) /\ i - 1 \in 1..(i - 1) /\ n \in i..Len(c) BY <1>1, <1>2
    <3> QED BY <1>1, <1>3, <2>2, <3>1, Segments
  <2> QED BY <1>2, <1>3, <1>4, <1>6, <2>1, <2>2 DEF ChangeDepth
<1>9. ChangePcalls(c, d, t2, k, th) BY <1>5, <1>6 DEF ChangePcalls
<1>10. ChangeHandlers(d, t2, k, th) BY <1>2, <1>4, <1>5, <1>6 DEF ChangeHandlers
<1>11. Core(d, t2) BY <1>7, <1>8, <1>9, <1>10, Change
<1> QED BY <1>11 DEF d, t2

(* A coroutine leaves the stack, by its end, by a yield or by an error. *)
LEMMA CutThread ==
  ASSUME NEW c, NEW t, Core(c, t), NEW j \in 2..Len(c), c[j].k = "resume",
         NEW co, \A i \in j..Len(c) : c[i].th = co,
         NEW l2, ThreadOK(l2), l2.errfunc = NoHandler,
         l2.status = "ok" => Len(l2.ci) = 1, l2.status = "yield" => Suspended(l2)
  PROVE  Core(SubSeq(c, 1, j - 1), [t EXCEPT ![co] = l2])
<1> DEFINE k == j - 1
           d == SubSeq(c, 1, k)
           n == Len(c)
           t2 == [t EXCEPT ![co] = l2]
<1>1. /\ Chain(c) /\ n \in Nat \ {0} /\ n \in 1..n /\ t \in [Threads -> ThreadRec]
      /\ \A i \in 1..n : c[i].th \in Threads
  BY Typed
<1>2. /\ k \in 1..n /\ k \in Nat \ {0} /\ Chain(d) /\ Len(d) = k /\ Same(c, d, k)
      /\ Nested(d, k) = Nested(c, k) /\ \A i \in 1..k : d[i] = c[i]
  <2>1. k \in 1..n /\ k \in 0..k BY <1>1
  <2> QED BY <1>1, <2>1, Cutting
<1>3. /\ j \in j..n /\ n \in j..n /\ c[n].th = co /\ co \in Threads /\ co # Main
      /\ \A i \in 1..k : c[i].th # co
  <2>1. j \in j..n /\ n \in j..n /\ j \in 1..n BY <1>1
  <2>2. c[j].th = co /\ c[n].th = co BY <2>1
  <2>3. co # Main /\ \A i \in 1..(j - 1) : c[i].th # co BY <1>1, <2>2, Places DEF On
  <2> QED BY <1>1, <2>1, <2>2, <2>3
<1>4. /\ t2[co] = l2 /\ \A y \in Threads \ {co} : t2[y] = t[y]
      /\ t2 \in [Threads -> ThreadRec]
  BY <1>1, <1>3 DEF ThreadOK
<1>5. \A i \in (k + 1)..Len(d) : FALSE BY <1>2
<1>6. c[k].th \in Threads /\ c[k].th # co /\ d[k] = c[k] BY <1>1, <1>2, <1>3
<1>7. k + 1 = j BY <1>1
<1> HIDE DEF d, t2, k
<1>8. ChangeAbove(c, t, d, t2, k, co)
  <2>1. ~Busy(d, co) BY <1>2, <1>3 DEF Busy
  <2>2. MatchAt(d, l2, co) BY <2>1 DEF MatchAt
  <2>3. \A i \in (k + 1)..n : c[i].th = co BY <1>7
  <2>4. k <= Len(d) BY <1>2
  <2> QED BY <1>2, <1>3, <1>4, <1>5, <2>2, <2>3, <2>4 DEF ChangeAbove, Changed
<1>9. ChangeDepth(c, t, d, t2, k, co)
  <2>1. \A i \in 2..k : c[i - 1].th # co /\ c[i].th # co BY <1>2, <1>3
  <2>2. t[c[k].th].nCcalls = Nested(c, k)
    <3>1. DepthAt(c, t, j) BY DEF Core, Depth
    <3> QED BY <3>1 DEF DepthAt, k
  <2> QED BY <1>2, <1>3, <1>4, <1>5, <1>6, <2>1, <2>2 DEF ChangeDepth
<1>10. ChangePcalls(c, d, t2, k, co) BY <1>3, <1>5 DEF ChangePcalls
<1>11. ChangeHandlers(d, t2, k, co) BY <1>4, <1>5 DEF ChangeHandlers, HandlerOK
<1>12. Core(d, t2) BY <1>8, <1>9, <1>10, <1>11, Change
<1> QED BY <1>12 DEF d, t2, k

------------------------------------------------------------------------------
(* A call *)

(* Thread l after its array has got the entry e. *)
Longer(l, l2, e) ==
  /\ l2 \in ThreadRec /\ e \in CallInfo /\ l2.ci = Append(l.ci, e)
  /\ l2.base = e.base /\ l.base < e.base /\ l2.base <= l2.top
  /\ Len(l.ci) + 1 <= l2.size_ci /\ l2.size_ci <= 2 * MaxCalls
  /\ l2.open = l.open /\ l2.status = l.status /\ l2.nCcalls = l.nCcalls
  /\ l2.baseCcalls = l.baseCcalls /\ l2.errfunc = l.errfunc

LEMMA ThreadFields ==
  ASSUME NEW l, ThreadOK(l)
  PROVE  /\ l.ci \in Seq(CallInfo) /\ Len(l.ci) \in Nat \ {0}
         /\ \A i \in 1..Len(l.ci) : l.ci[i] \in CallInfo /\ l.ci[i].base \in Nat
         /\ l.base \in Nat /\ l.top \in Nat /\ l.base <= l.top
         /\ l.base = l.ci[Len(l.ci)].base
         /\ l.open \subseteq Nat /\ l.size_ci \in Nat
<1>1. l \in ThreadRec BY DEF ThreadOK
<1>2. l.ci \in Seq(CallInfo) /\ l.base \in Nat /\ l.top \in Nat /\ l.open \subseteq Nat
        /\ l.size_ci \in Nat
  BY <1>1 DEF ThreadRec
<1>3. l.ci # <<>> BY DEF ThreadOK
<1>4. Len(l.ci) \in Nat \ {0} BY <1>2, <1>3
<1>5. \A i \in 1..Len(l.ci) : l.ci[i] \in CallInfo BY <1>2
<1>6. \A e \in CallInfo : e.base \in Nat BY DEF CallInfo, Levels
<1>7. l.base <= l.top /\ l.base = l.ci[Len(l.ci)].base BY DEF ThreadOK
<1> QED BY <1>2, <1>4, <1>5, <1>6, <1>7

LEMMA ThreadLonger ==
  ASSUME NEW l, ThreadOK(l), NEW l2, NEW e, Longer(l, l2, e)
  PROVE  ThreadOK(l2)
<1> DEFINE ci == l.ci
           n == Len(ci)
<1>1. /\ ci \in Seq(CallInfo) /\ n \in Nat \ {0} /\ l.base = ci[n].base
      /\ l.base \in Nat /\ \A i \in 1..n : ci[i] \in CallInfo /\ ci[i].base \in Nat
  BY ThreadFields
<1>2. e \in CallInfo /\ l.base < e.base /\ l2.ci = Append(ci, e) BY DEF Longer
<1>3. e.base \in Nat BY <1>2 DEF CallInfo, Levels
<1>4. /\ \A i, j \in 1..n : i < j => ci[i].base < ci[j].base
      /\ ~ci[1].lua
      /\ \A u \in l.open : \E i \in 1..n :
           ci[i].lua /\ ci[i].base <= u /\ u < ci[i].base + Registers
  BY DEF ThreadOK
<1> HIDE DEF ci
<1>5. /\ Len(l2.ci) = n + 1 /\ l2.ci[n + 1] = e /\ l2.ci # <<>>
      /\ \A i \in 1..n : l2.ci[i] = ci[i]
  BY <1>1, <1>2
<1> HIDE DEF n
<1>6. ASSUME NEW i \in 1..(n + 1), NEW j \in 1..(n + 1), i < j
      PROVE  l2.ci[i].base < l2.ci[j].base
  <2>1. i \in 1..n BY <1>1, <1>6
  <2>2. CASE j \in 1..n
    <3>1. ci[i].base < ci[j].base BY <1>4, <1>6, <2>1, <2>2
    <3>2. l2.ci[i] = ci[i] /\ l2.ci[j] = ci[j] BY <1>5, <2>1, <2>2
    <3> QED BY <3>1, <3>2
  <2>3. CASE j = n + 1
    <3>1. n \in 1..n BY <1>1
    <3>2. i < n => ci[i].base < ci[n].base BY <1>4, <2>1, <3>1
    <3>3. i = n \/ i < n BY <1>1, <2>1
    <3>4. ci[i].base <= l.base BY <1>1, <2>1, <3>1, <3>2, <3>3
    <3>5. l2.ci[i] = ci[i] /\ l2.ci[j] = e BY <1>5, <2>1, <2>3
    <3>6. ci[i].base \in Nat BY <1>1, <2>1
    <3> QED BY <1>1, <1>2, <1>3, <3>4, <3>5, <3>6
  <2>4. j \in 1..n \/ j = n + 1 BY <1>1
  <2> QED BY <2>2, <2>3, <2>4
<1>7. ASSUME NEW u \in l2.open
      PROVE  \E i \in 1..(n + 1) : l2.ci[i].lua /\ l2.ci[i].base <= u
                                   /\ u < l2.ci[i].base + Registers
  <2>1. u \in l.open BY <1>7 DEF Longer
  <2>2. PICK i \in 1..n : ci[i].lua /\ ci[i].base <= u /\ u < ci[i].base + Registers
    BY <1>4, <2>1
  <2>3. i \in 1..(n + 1) /\ l2.ci[i] = ci[i] BY <1>1, <1>5
  <2> QED BY <2>2, <2>3
<1>8. ~l2.ci[1].lua
  <2>1. 1 \in 1..n BY <1>1
  <2> QED BY <1>4, <1>5, <2>1
<1>9. l2.base = l2.ci[n + 1].base BY <1>5 DEF Longer
<1>10. /\ l2 \in ThreadRec /\ n + 1 <= l2.size_ci /\ l2.size_ci <= 2 * MaxCalls
       /\ l2.base <= l2.top
  BY DEF Longer, n, ci
<1> QED BY <1>5, <1>6, <1>7, <1>8, <1>9, <1>10 DEF ThreadOK

LEMMA PcallsLonger ==
  ASSUME NEW c, NEW t, Core(c, t), NEW th, th = c[Len(c)].th, NEW l2, NEW e,
         Longer(t[th], l2, e),
         \A i \in 1..Len(c) : IsPcall(c[i], th) => c[i].old_top < e.base
  PROVE  \A i \in 1..Len(c) : c[i].th = th => PcallAt(c, [t EXCEPT ![th] = l2], i)
<1> DEFINE t2 == [t EXCEPT ![th] = l2]
           ci == t[th].ci
<1> SUFFICES ASSUME NEW i \in 1..Len(c), c[i].th = th PROVE PcallAt(c, t2, i) OBVIOUS
<1>1. PcallAt(c, t, i) BY DEF Core, PcallsOK
<1>2. /\ th \in Threads /\ t2[th] = l2 /\ ci \in Seq(CallInfo) /\ Len(ci) \in Nat \ {0}
      /\ c[i].k = "pcall" => c[i] \in Pcalls
  BY Typed
<1>3. l2.ci = Append(ci, e) BY DEF Longer
<1> HIDE DEF t2, ci
<1>4. /\ Len(l2.ci) = Len(ci) + 1 /\ l2.ci[Len(ci) + 1] = e
      /\ \A m \in 1..Len(ci) : l2.ci[m] = ci[m]
  BY <1>2, <1>3, SMTT(30)
<1>5. ASSUME c[i].k = "pcall"
      PROVE  /\ Len(ci) \in Nat /\ Len(l2.ci) \in Nat /\ c[i].old_ci \in Nat \ {0}
             /\ c[i].old_ci <= Len(l2.ci)
             /\ \A m \in 1..Len(l2.ci) : IF m <= Len(ci) THEN l2.ci[m].base = ci[m].base
                                         ELSE c[i].old_top < l2.ci[m].base
  <2>1. c[i].old_ci \in Nat \ {0} BY <1>2, <1>5, SMTT(30) DEF Pcalls
  <2>2. c[i].old_ci <= Len(ci) BY <1>1, <1>5 DEF PcallAt, ci
  <2>3. c[i].old_top < e.base BY <1>5 DEF IsPcall
  <2>4. ASSUME NEW m \in 1..Len(l2.ci)
        PROVE  IF m <= Len(ci) THEN l2.ci[m].base = ci[m].base
               ELSE c[i].old_top < l2.ci[m].base
    <3>1. m \in 1..Len(ci) \/ m = Len(ci) + 1 BY <1>2, <1>4
    <3> QED BY <1>2, <1>4, <2>3, <3>1
  <2> QED BY <1>2, <1>4, <2>1, <2>2, <2>4, SMTT(30)
<1> QED BY <1>1, <1>2, <1>5, PcallKept DEF ci

LEMMA OkMatches ==
  ASSUME NEW c, NEW t, Core(c, t), NEW th, th = c[Len(c)].th, t[th].status = "ok"
  PROVE  Matches(c, t[th].ci, th)
<1>1. th \in Threads /\ Len(c) \in 1..Len(c) BY Typed
<1>2. Busy(c, th) BY <1>1 DEF Busy
<1> QED BY <1>1, <1>2 DEF Core, Match, MatchAt

(* A new activation for the entry ... *)
LEMMA PushFrame ==
  ASSUME NEW c, NEW t, Core(c, t), NEW th, th = c[Len(c)].th, t[th].status = "ok",
         NEW l2, NEW e, Longer(t[th], l2, e),
         \A i \in 1..Len(c) : IsPcall(c[i], th) => c[i].old_top < e.base,
         NEW g \in Activation, g.th = th, g.k \in {"C", "exec"}, Width(g) = 1,
         e.lua <=> g.k = "exec", On(Append(c, g), Len(c) + 1)
  PROVE  Core(Append(c, g), [t EXCEPT ![th] = l2])
<1> DEFINE ci == t[th].ci
<1>1. /\ c \in Seq(Activation) /\ ci \in Seq(CallInfo) /\ Len(ci) \in Nat \ {0}
      /\ ThreadOK(t[th]) /\ th \in Threads
  BY Typed
<1>2. ThreadOK(l2) BY <1>1, ThreadLonger
<1>3. Matches(c, ci, th) BY OkMatches
<1>4. l2.ci = Append(ci, e) BY DEF Longer
<1> HIDE DEF ci
<1>5. Matches(Append(c, g), l2.ci, th)
  <2>1. /\ Len(l2.ci) = Len(ci) + 1 /\ l2.ci[Len(ci) + 1] = e
        /\ \A m \in 1..Len(ci) : l2.ci[m] = ci[m]
    BY <1>1, <1>4
  <2>2. \A m \in (Len(ci) + 1)..Len(l2.ci) : m = Len(ci) + 1 BY <1>1, <2>1
  <2> QED BY <1>1, <1>3, <2>1, <2>2, MatchPush
<1>6. \A i \in 1..Len(c) : c[i].th = th => PcallAt(c, [t EXCEPT ![th] = l2], i)
  BY PcallsLonger
<1>7. ~Counted(g) /\ g.k # "pcall" /\ g.k # "resume" BY DEF Counted
<1>8. l2.status = "ok" /\ l2.nCcalls = t[th].nCcalls /\ l2.baseCcalls = t[th].baseCcalls
        /\ l2.errfunc = t[th].errfunc
  BY DEF Longer
<1> QED BY <1>2, <1>5, <1>6, <1>7, <1>8, PushAny

(* ... or one more entry for luaV_execute. *)
LEMMA WidenExec ==
  ASSUME NEW c, NEW t, Core(c, t), NEW f, f = c[Len(c)], f.k = "exec",
         NEW th, th = f.th, NEW l2, NEW e, Longer(t[th], l2, e), e.lua,
         \A i \in 1..Len(c) : IsPcall(c[i], th) => c[i].old_top < e.base
  PROVE  Core(SetLast(c, [f EXCEPT !.nexeccalls = @ + 1]), [t EXCEPT ![th] = l2])
<1> DEFINE ci == t[th].ci
           g == [f EXCEPT !.nexeccalls = @ + 1]
           w == f.nexeccalls
<1>1. /\ c \in Seq(Activation) /\ ci \in Seq(CallInfo) /\ Len(ci) \in Nat \ {0}
      /\ ThreadOK(t[th]) /\ th \in Threads /\ f \in Activation /\ Chain(c)
      /\ Len(c) \in Nat \ {0}
  BY Typed
<1>2. ThreadOK(l2) BY <1>1, ThreadLonger
<1>3. t[th].status = "ok" /\ Matches(c, ci, th) BY RunsOk
<1>4. l2.ci = Append(ci, e) BY DEF Longer
<1>5. /\ f \in Execs /\ w \in Nat \ {0} /\ g \in Execs /\ g \in Activation
      /\ g.k = "exec" /\ g.th = th /\ g.nexeccalls = w + 1
  <2>1. f \in Execs BY <1>1, Kinds
  <2>2. w \in Nat \ {0} /\ g \in Execs /\ g.k = "exec" /\ g.th = th /\ g.nexeccalls = w + 1
    BY <2>1 DEF Execs
  <2> QED BY <2>1, <2>2 DEF Activation
<1> HIDE DEF ci, g, w
<1>6. Width(f) = w /\ Width(g) = w + 1 BY <1>5 DEF Width, w
<1>7. Len(c) >= 2 BY <1>1, NotFirst
<1>8. Matches(SetLast(c, g), l2.ci, th)
  <2>1. /\ Len(l2.ci) = Len(ci) + 1 /\ l2.ci[Len(ci) + 1] = e
        /\ \A m \in 1..Len(ci) : l2.ci[m] = ci[m]
    BY <1>1, <1>4
  <2>2. Len(ci) - w \in 0..Len(ci)
    <3>1. Len(ci) = Entries(c, th, Len(c)) BY <1>3 DEF Matches
    <3>2. Len(c) - 1 \in 0..Len(c) /\ Len(c) - 1 < Len(c) /\ (Len(c) - 1) + 1 = Len(c)
      BY <1>1
    <3>3. Entries(c, th, Len(c)) = Entries(c, th, Len(c) - 1) + w
            /\ Entries(c, th, Len(c) - 1) \in Nat
      BY <1>1, <1>6, <3>2, EntriesStep
    <3> QED BY <1>5, <3>1, <3>3
  <2>3. Len(l2.ci) = Len(ci) - Width(c[Len(c)]) + Width(g) BY <1>1, <1>5, <1>6, <2>1
  <2>4. \A m \in 1..(Len(ci) - Width(c[Len(c)])) : l2.ci[m].lua <=> ci[m].lua
    BY <1>1, <1>6, <2>1, <2>2
  <2>5. ASSUME NEW m \in (Len(ci) - Width(c[Len(c)]) + 1)..Len(l2.ci) PROVE l2.ci[m].lua
    <3>1. m \in 1..Len(ci) \/ m = Len(ci) + 1 BY <1>1, <1>6, <2>1, <2>2
    <3>2. CASE m = Len(ci) + 1 BY <2>1, <3>2
    <3>3. CASE m \in 1..Len(ci)
      <4>1. Len(c) \in 1..Len(c) BY <1>1
      <4>2. Len(ci) = Entries(c, th, Len(c)) BY <1>3 DEF Matches
      <4>3. Len(ci) - w < m BY <1>1, <1>5, <1>6, <2>2
      <4>4. ci[m].lua BY <1>1, <1>3, <1>6, <3>3, <4>1, <4>2, <4>3 DEF Matches
      <4> QED BY <2>1, <3>3, <4>4
    <3> QED BY <3>1, <3>2, <3>3
  <2> QED BY <1>1, <1>3, <1>5, <1>7, <2>3, <2>4, <2>5, MatchSet
<1>9. \A i \in 1..(Len(c) - 1) : c[i].th = th => PcallAt(c, [t EXCEPT ![th] = l2], i)
  <2>1. \A i \in 1..(Len(c) - 1) : i \in 1..Len(c) BY <1>1
  <2> QED BY <2>1, PcallsLonger
<1>10. ~Counted(g) /\ ~Counted(f) BY <1>5 DEF Counted
<1>11. l2.status = "ok" /\ l2.nCcalls = t[th].nCcalls /\ l2.baseCcalls = t[th].baseCcalls
        /\ l2.errfunc = t[th].errfunc
  BY <1>3 DEF Longer
<1>12. Core(SetLast(c, g), [t EXCEPT ![th] = l2])
  BY <1>2, <1>5, <1>7, <1>8, <1>9, <1>10, <1>11, SetAny
<1> QED BY <1>12 DEF g

------------------------------------------------------------------------------
(* Threads after the changes that the code makes to one *)

LEMMA Consts ==
  /\ MaxCCalls \in Nat \ {0} /\ CCallsRoom \in Nat \ {0} /\ MaxCalls \in Nat \ {0}
  /\ BasicCiSize \in Nat \ {0} /\ BasicCiSize <= MaxCalls
<1>1. {MaxCCalls, CCallsRoom, MaxCalls, BasicCiSize, MaxOpen, MaxFrames, MaxDepth}
        \subseteq Nat \ {0}
  BY CallsAssumption
<1>2. BasicCiSize <= MaxCalls BY CallsAssumption
<1> QED BY <1>1, <1>2

LEMMA NewOK ==
  ThreadOK(NewThread) /\ ThreadOK([NewThread EXCEPT !.status = "error", !.ran = TRUE])
<1> DEFINE l2 == [NewThread EXCEPT !.status = "error", !.ran = TRUE]
<1>1. BaseCi \in CallInfo /\ BaseCi.base = 1 /\ ~BaseCi.lua
  BY DEF BaseCi, CallInfo, Levels
<1>2. <<BaseCi>> \in Seq(CallInfo) /\ Len(<<BaseCi>>) = 1 /\ <<BaseCi>>[1] = BaseCi
        /\ <<BaseCi>> # <<>>
  BY <1>1
<1>3. BasicCiSize \in Nat /\ 1 <= BasicCiSize /\ BasicCiSize <= 2 * MaxCalls BY Consts
<1>4. /\ NewThread \in ThreadRec /\ NewThread.ci = <<BaseCi>> /\ NewThread.base = 1
      /\ NewThread.top = 1 /\ NewThread.size_ci = BasicCiSize /\ NewThread.open = {}
  BY <1>2, <1>3 DEF NewThread, ThreadRec, NoHandler
<1>5. /\ l2 \in ThreadRec /\ l2.ci = <<BaseCi>> /\ l2.base = 1
      /\ l2.top = 1 /\ l2.size_ci = BasicCiSize /\ l2.open = {}
  BY <1>2, <1>3 DEF NewThread, ThreadRec, NoHandler
<1> HIDE DEF l2
<1>6. ASSUME NEW l, l \in ThreadRec, l.ci = <<BaseCi>>, l.base = 1, l.top = 1,
             l.size_ci = BasicCiSize, l.open = {}
      PROVE  ThreadOK(l)
  BY <1>1, <1>2, <1>3, <1>6 DEF ThreadOK
<1>7. ThreadOK(NewThread) BY <1>4, <1>6
<1>8. ThreadOK(l2) BY <1>5, <1>6
<1> QED BY <1>7, <1>8 DEF l2

LEMMA SetTop ==
  ASSUME NEW l, ThreadOK(l), NEW x \in Nat, l.base <= x
  PROVE  LET l2 == [l EXCEPT !.top = x] IN
           /\ ThreadOK(l2) /\ Alike(l, l2) /\ l2.top = x /\ l2.base = l.base
           /\ l2.ci = l.ci /\ l2.open = l.open /\ l2.size_ci = l.size_ci
<1> DEFINE l2 == [l EXCEPT !.top = x]
<1>1. l \in ThreadRec BY DEF ThreadOK
<1>2. /\ l2 \in ThreadRec /\ l2.top = x /\ l2.base = l.base
      /\ l2.ci = l.ci /\ l2.open = l.open /\ l2.size_ci = l.size_ci
      /\ l2.status = l.status /\ l2.nCcalls = l.nCcalls
      /\ l2.baseCcalls = l.baseCcalls /\ l2.errfunc = l.errfunc
  BY <1>1 DEF ThreadRec
<1> HIDE DEF l2
<1>3. ThreadOK(l2) BY <1>2 DEF ThreadOK
<1>4. Alike(l, l2) BY <1>2 DEF Alike
<1> QED BY <1>2, <1>3, <1>4 DEF l2

LEMMA Closed ==
  ASSUME NEW l, ThreadOK(l), NEW x
  PROVE  LET l2 == luaF_close(l, x) IN
           /\ ThreadOK(l2) /\ Alike(l, l2) /\ l2.top = l.top /\ l2.base = l.base
           /\ l2.ci = l.ci /\ l2.open = {u \in l.open : u < x} /\ l2.size_ci = l.size_ci
<1> DEFINE l2 == luaF_close(l, x)
<1>1. l \in ThreadRec BY DEF ThreadOK
<1>2. /\ l2 \in ThreadRec /\ l2.top = l.top /\ l2.base = l.base
      /\ l2.ci = l.ci /\ l2.open = {u \in l.open : u < x} /\ l2.size_ci = l.size_ci
      /\ l2.status = l.status /\ l2.nCcalls = l.nCcalls
      /\ l2.baseCcalls = l.baseCcalls /\ l2.errfunc = l.errfunc
  BY <1>1 DEF ThreadRec, luaF_close
<1> HIDE DEF l2
<1>3. ThreadOK(l2) BY <1>2 DEF ThreadOK
<1>4. Alike(l, l2) BY <1>2 DEF Alike
<1> QED BY <1>2, <1>3, <1>4 DEF l2

(* A thread after the first k entries of its array, when no open upvalue can be a
   register of the frames that were cut off. *)
LEMMA Shorter ==
  ASSUME NEW l, ThreadOK(l), NEW k \in 1..Len(l.ci), NEW l2 \in ThreadRec,
         l2.ci = SubSeq(l.ci, 1, k), l2.base = l.ci[k].base, l2.base <= l2.top,
         k <= l2.size_ci, l2.size_ci <= 2 * MaxCalls,
         l2.open \subseteq l.open,
         \A u \in l2.open : \A m \in 1..Len(l.ci) :
           k < m => ~(l.ci[m].lua /\ l.ci[m].base <= u)
  PROVE  ThreadOK(l2)
<1> DEFINE ci == l.ci
           n == Len(ci)
<1>1. ci \in Seq(CallInfo) /\ n \in Nat \ {0} BY ThreadFields
<1>2. /\ \A i, j \in 1..n : i < j => ci[i].base < ci[j].base
      /\ ~ci[1].lua
      /\ \A u \in l.open : \E i \in 1..n :
           ci[i].lua /\ ci[i].base <= u /\ u < ci[i].base + Registers
      /\ \A i \in 1..n : ci[i].base \in Nat
      /\ l.open \subseteq Nat
  BY ThreadFields DEF ThreadOK
<1>3. k \in 1..n /\ l2.ci = SubSeq(ci, 1, k) /\ l2.base = ci[k].base
        /\ \A u \in l2.open : \A m \in 1..n : k < m => ~(ci[m].lua /\ ci[m].base <= u)
  OBVIOUS
<1> HIDE DEF ci
<1>4. Len(l2.ci) = k /\ \A i \in 1..k : l2.ci[i] = ci[i] BY <1>1, <1>3
<1> HIDE DEF n
<1>5. l2.ci # <<>> /\ 1 \in 1..k /\ k \in 1..k /\ \A i \in 1..k : i \in 1..n
  <2>1. k \in Nat \ {0} /\ n \in Nat /\ k <= n BY <1>1, <1>3
  <2>2. l2.ci # <<>> BY <1>4, <2>1
  <2> QED BY <2>1, <2>2
<1>6. ASSUME NEW u \in l2.open
      PROVE  \E i \in 1..k : l2.ci[i].lua /\ l2.ci[i].base <= u
                             /\ u < l2.ci[i].base + Registers
  <2>1. PICK i \in 1..n : ci[i].lua /\ ci[i].base <= u /\ u < ci[i].base + Registers
    BY <1>2, <1>6
  <2>2. ~(k < i) BY <1>3, <1>6, <2>1
  <2>3. i \in 1..k BY <1>1, <1>3, <2>2
  <2> QED BY <1>4, <2>1, <2>3
<1>7. \A i, j \in 1..k : i < j => l2.ci[i].base < l2.ci[j].base BY <1>2, <1>4, <1>5
<1>8. ~l2.ci[1].lua /\ l2.base = l2.ci[k].base BY <1>2, <1>3, <1>4, <1>5
<1> QED BY <1>4, <1>5, <1>6, <1>7, <1>8 DEF ThreadOK

------------------------------------------------------------------------------
(* Errors *)

LEMMA Recovers ==
  ASSUME NEW l, ThreadOK(l), NEW f \in Pcalls, f.old_ci \in 1..Len(l.ci),
         l.ci[f.old_ci].base <= f.old_top,
         \A m \in 1..Len(l.ci) : f.old_ci < m => f.old_top < l.ci[m].base
  PROVE  LET r == Recovered(l, f) IN
           /\ ThreadOK(r) /\ r.ci = SubSeq(l.ci, 1, f.old_ci) /\ r.status = l.status
           /\ r.baseCcalls = l.baseCcalls /\ r.nCcalls = f.oldnCcalls
           /\ r.errfunc = f.old_errfunc
<1> DEFINE ci == SubSeq(l.ci, 1, f.old_ci)
           r0 == luaF_close(l, f.old_top)
           r1 == [r0 EXCEPT !.ci = ci, !.base = Last(ci).base, !.top = f.old_top + 1,
                            !.nCcalls = f.oldnCcalls, !.errfunc = f.old_errfunc]
           r == restore_stack_limit(r1)
           k == f.old_ci
<1>1. /\ l.ci \in Seq(CallInfo) /\ Len(l.ci) \in Nat \ {0} /\ l.size_ci \in Nat
      /\ \A i \in 1..Len(l.ci) : l.ci[i].base \in Nat
      /\ l.open \subseteq Nat
  BY ThreadFields
<1>2. /\ f.old_top \in Nat /\ f.oldnCcalls \in Nat /\ f.old_errfunc \in Nat BY DEF Pcalls
<1>3. ci \in Seq(CallInfo) /\ Len(ci) = k /\ Last(ci) = l.ci[k]
  <2>1. ci \in Seq(CallInfo) /\ Len(ci) = k /\ ci[k] = l.ci[k] BY <1>1
  <2> QED BY <2>1 DEF Last
<1>4. /\ r0 \in ThreadRec /\ r0.status = l.status /\ r0.baseCcalls = l.baseCcalls
      /\ r0.open = {u \in l.open : u < f.old_top} /\ r0.size_ci = l.size_ci
  BY Closed, SMTT(30) DEF Alike, ThreadOK
<1>5. l.ci[k].base \in Nat /\ k \in Nat BY <1>1
<1> HIDE DEF ci, r0, k
<1>6. /\ r1 \in ThreadRec /\ r1.ci = ci /\ r1.base = l.ci[k].base /\ r1.top = f.old_top + 1
      /\ r1.nCcalls = f.oldnCcalls /\ r1.errfunc = f.old_errfunc
      /\ r1.status = r0.status /\ r1.baseCcalls = r0.baseCcalls /\ r1.open = r0.open
      /\ r1.size_ci = r0.size_ci
  <2> DEFINE x == Last(ci).base
             y == f.old_top + 1
  <2>1. x = l.ci[k].base /\ x \in Nat /\ y \in Nat BY <1>2, <1>3, <1>5
  <2> HIDE DEF x, y
  <2>2. [r0 EXCEPT !.ci = ci, !.base = x, !.top = y, !.nCcalls = f.oldnCcalls,
                   !.errfunc = f.old_errfunc] \in ThreadRec
    BY <1>2, <1>3, <1>4, <2>1, ZenonT(30) DEF ThreadRec
  <2>3. r1 \in ThreadRec BY <2>2 DEF r1, x, y
  <2>4. /\ r1.ci = ci /\ r1.base = x /\ r1.top = y
        /\ r1.nCcalls = f.oldnCcalls /\ r1.errfunc = f.old_errfunc
        /\ r1.status = r0.status /\ r1.baseCcalls = r0.baseCcalls /\ r1.open = r0.open
        /\ r1.size_ci = r0.size_ci
    BY <1>4 DEF ThreadRec, x, y
  <2> QED BY <2>1, <2>3, <2>4 DEF y
<1> HIDE DEF r1
<1>7. MaxCalls \in Nat \ {0} BY Consts
<1>8. /\ r \in ThreadRec /\ r.ci = ci /\ r.base = l.ci[k].base /\ r.top = f.old_top + 1
      /\ r.nCcalls = f.oldnCcalls /\ r.errfunc = f.old_errfunc
      /\ r.status = l.status /\ r.baseCcalls = l.baseCcalls /\ r.open = r0.open
      /\ r.size_ci \in {l.size_ci, MaxCalls}
      /\ r.size_ci = MaxCalls \/ r.size_ci = l.size_ci
      /\ r.size_ci # l.size_ci => k < MaxCalls
  BY <1>3, <1>4, <1>6, <1>7 DEF restore_stack_limit, ThreadRec
<1> HIDE DEF r
<1>9. k \in 1..Len(l.ci) /\ l.ci[k].base <= f.old_top /\ ci = SubSeq(l.ci, 1, k)
        /\ \A m \in 1..Len(l.ci) : k < m => f.old_top < l.ci[m].base
  BY DEF k, ci
<1>10. Len(l.ci) <= l.size_ci /\ l.size_ci <= 2 * MaxCalls BY DEF ThreadOK
<1>11. k <= r.size_ci /\ r.size_ci <= 2 * MaxCalls BY <1>1, <1>7, <1>8, <1>9, <1>10
<1>12. r.base <= r.top BY <1>2, <1>5, <1>8, <1>9, SMTT(30)
<1>13. r.open \subseteq l.open BY <1>4, <1>8
<1>14. ASSUME NEW u \in r.open, NEW m \in 1..Len(l.ci), k < m
       PROVE  ~(l.ci[m].lua /\ l.ci[m].base <= u)
  <2>1. u \in Nat /\ u < f.old_top /\ f.old_top < l.ci[m].base /\ l.ci[m].base \in Nat
    BY <1>1, <1>4, <1>8, <1>9, <1>14
  <2> QED BY <1>2, <2>1
<1>15. ThreadOK(r) BY <1>8, <1>9, <1>11, <1>12, <1>13, <1>14, Shorter
<1>16. r = Recovered(l, f) BY DEF Recovered, r, r1, r0, ci
<1> QED BY <1>8, <1>15, <1>16 DEF ci

(* What a cut of the C stack leaves of the counts, and of the protected calls. *)
LEMMA CutPcalls ==
  ASSUME NEW c, NEW t, Core(c, t), NEW k \in 1..Len(c), NEW th \in Threads,
         NEW l2, l2.ci \in Seq(CallInfo), Len(l2.ci) = Entries(c, th, k),
         \A m \in 1..Len(l2.ci) : m <= Len(t[th].ci) /\ l2.ci[m].base = t[th].ci[m].base
  PROVE  \A i \in 1..k : c[i].th = th => PcallAt(c, [t EXCEPT ![th] = l2], i)
<1> DEFINE t2 == [t EXCEPT ![th] = l2]
<1> SUFFICES ASSUME NEW i \in 1..k, c[i].th = th PROVE PcallAt(c, t2, i) OBVIOUS
<1>1. /\ c \in Seq(Activation) /\ Len(c) \in Nat \ {0} /\ Len(t[th].ci) \in Nat
      /\ t2[th] = l2 /\ i \in 1..Len(c) /\ (c[i].k = "pcall" => c[i] \in Pcalls)
  <2>1. Len(c) \in Nat \ {0} /\ t \in [Threads -> ThreadRec] BY Typed
  <2>2. i \in 1..Len(c) BY <2>1
  <2> QED BY <2>1, <2>2, Typed
<1>2. PcallAt(c, t, i) BY <1>1 DEF Core, PcallsOK
<1> HIDE DEF t2
<1>3. Len(l2.ci) \in Nat OBVIOUS
<1>4. ASSUME c[i].k = "pcall"
      PROVE  c[i].old_ci \in Nat \ {0} /\ c[i].old_ci <= Len(l2.ci)
  <2>1. c[i].old_ci = Entries(c, th, i - 1) BY <1>2, <1>4 DEF PcallAt
  <2>2. i - 1 \in 0..Len(c) /\ k \in 0..Len(c) /\ i - 1 <= k BY <1>1
  <2>3. Entries(c, th, i - 1) <= Entries(c, th, k) BY <1>1, <2>2, EntriesGrow
  <2> QED BY <1>1, <1>4, <2>1, <2>3 DEF Pcalls
<1> QED BY <1>1, <1>2, <1>3, <1>4, PcallKept

LEMMA ThrowToPcall ==
  ASSUME NEW c, NEW t, Core(c, t), NEW j \in 2..Len(c), NEW f, f = c[j], f.k = "pcall",
         \A i \in (j + 1)..Len(c) : ~IsJump(c[i]),
         \A i \in j..Len(c) : c[i].th = f.th
  PROVE  Core(SubSeq(c, 1, j - 1), [t EXCEPT ![f.th] = Recovered(@, f)])
<1> DEFINE th == f.th
           n == Len(c)
           k == j - 1
           l == t[th]
           ci == l.ci
           l2 == Recovered(l, f)
           d == SubSeq(c, 1, k)
<1>1. /\ Chain(c) /\ c \in Seq(Activation) /\ n \in Nat \ {0} /\ t \in [Threads -> ThreadRec]
      /\ j \in 1..n /\ n \in j..n /\ k \in 1..n /\ k \in 1..(n - 1) /\ k + 1 = j
      /\ k \in 0..n /\ k \in Nat
  <2>1. Chain(c) /\ c \in Seq(Activation) /\ n \in Nat \ {0} /\ t \in [Threads -> ThreadRec]
    BY Typed
  <2> QED BY <2>1
<1>2. f \in Pcalls /\ th \in Threads BY <1>1, Typed
<1>3. /\ ThreadOK(l) /\ ci \in Seq(CallInfo) /\ Len(ci) \in Nat \ {0}
  BY <1>2, Typed
<1>4. c[n].th = th /\ c[k].th = th /\ \A i \in k..n : c[i].th = th
  <2>1. c[n].th = th BY <1>1
  <2>2. c[k].th = th BY <1>1, Places DEF On
  <2>3. \A i \in k..n : i = k \/ i \in j..n BY <1>1
  <2> QED BY <2>1, <2>2, <2>3
<1>5. l.status = "ok" /\ Matches(c, ci, th)
  <2>1. c[n].k # "resume"
    <3>1. n = j \/ n \in (j + 1)..n BY <1>1, SMTT(30)
    <3> QED BY <3>1, SMTT(30) DEF IsJump
  <2> QED BY <1>4, <2>1, RunsOk
<1>6. /\ f.old_ci = Entries(c, th, k) /\ f.old_ci \in 1..Len(ci)
      /\ ci[f.old_ci].base <= f.old_top
      /\ \A m \in 1..Len(ci) : f.old_ci < m => f.old_top < ci[m].base
  <2>1. PcallAt(c, t, j) BY <1>1, SMTT(30) DEF Core, PcallsOK
  <2>2. f.old_ci \in Nat \ {0} BY <1>2, SMTT(30) DEF Pcalls
  <2> QED BY <1>3, <2>1, <2>2, SMTT(30) DEF PcallAt
<1>7. /\ ThreadOK(l2) /\ l2.ci = SubSeq(ci, 1, f.old_ci) /\ l2.status = "ok"
      /\ l2.baseCcalls = l.baseCcalls /\ l2.nCcalls = f.oldnCcalls
      /\ l2.errfunc = f.old_errfunc
  BY <1>2, <1>3, <1>5, <1>6, Recovers
<1> HIDE DEF l2, ci
<1>8. Len(l2.ci) = f.old_ci /\ l2.ci \in Seq(CallInfo)
        /\ \A m \in 1..f.old_ci : m \in 1..Len(ci) /\ m <= Len(ci) /\ l2.ci[m] = ci[m]
  BY <1>3, <1>6, <1>7
<1>9. /\ Len(d) = k /\ Same(c, d, k) /\ d \in Seq(Activation) /\ \A i \in 1..k : d[i] = c[i]
  BY <1>1, Cutting
<1> HIDE DEF d
<1>10. MatchAt(d, l2, th)
  <2>1. Busy(d, th)
    <3>1. k \in 1..k BY <1>1
    <3> QED BY <1>4, <1>9, <3>1 DEF Busy
  <2>2. Matches(d, l2.ci, th)
    <3>1. Len(ci) \in Nat /\ Len(d) <= n /\ Same(c, d, Len(d)) BY <1>1, <1>3, <1>9 DEF ci
    <3>2. Len(l2.ci) = Entries(c, th, Len(d)) BY <1>6, <1>8, <1>9
    <3>3. \A m \in 1..Len(l2.ci) : l2.ci[m].lua <=> ci[m].lua BY <1>8
    <3> QED BY <1>1, <1>5, <1>9, <3>1, <3>2, <3>3, MatchCut
  <2> QED BY <1>7, <2>1, <2>2 DEF MatchAt
<1>11. l2.nCcalls = Nested(c, k)
  <2>1. DepthAt(c, t, j) BY DEF Core, Depth
  <2> QED BY <1>7, <2>1 DEF DepthAt
<1>12. HandlerOK(d, k, th, l2.errfunc)
  <2>1. HandlerOK(c, k, th, f.old_errfunc) BY <1>1 DEF Core, Handlers
  <2>2. \A i \in (k + 1)..k : FALSE BY <1>1
  <2>3. k <= k BY <1>1
  <2> QED BY <1>1, <1>7, <1>9, <2>1, <2>2, <2>3, HandlerSame
<1>13. \A i \in 1..k : c[i].th = th => PcallAt(c, [t EXCEPT ![th] = l2], i)
  <2>1. Len(l2.ci) = Entries(c, th, k) BY <1>6, <1>8
  <2>2. \A m \in 1..Len(l2.ci) : m <= Len(t[th].ci) /\ l2.ci[m].base = t[th].ci[m].base
    BY <1>8 DEF ci
  <2> QED BY <1>1, <1>2, <1>8, <2>1, <2>2, CutPcalls
<1>14. Core(SubSeq(c, 1, k), [t EXCEPT ![th] = l2])
  BY <1>1, <1>4, <1>7, <1>10, <1>11, <1>12, <1>13, CutAny DEF d
<1> QED BY <1>14 DEF l2

LEMMA ThrowToResume ==
  ASSUME NEW c, NEW t, Core(c, t), NEW j \in 2..Len(c), NEW f, f = c[j], f.k = "resume",
         \A i \in j..Len(c) : c[i].th = f.th
  PROVE  Core(SubSeq(c, 1, j - 1),
              [t EXCEPT ![f.th] = Died(@), ![c[j - 1].th] = Received(@, 1)])
<1> DEFINE co == f.th
           to == c[j - 1].th
           l2 == Died(t[co])
           t2 == [t EXCEPT ![co] = l2]
           d == SubSeq(c, 1, j - 1)
<1>1. /\ Chain(c) /\ t \in [Threads -> ThreadRec] /\ j \in 1..Len(c) /\ j - 1 \in 1..Len(c)
      /\ co \in Threads /\ to \in Threads
  <2>1. Len(c) \in Nat \ {0} BY Typed
  <2>2. j \in 1..Len(c) /\ j - 1 \in 1..Len(c) BY <2>1
  <2> QED BY <2>2, Typed
<1>2. co # to
  <2>1. \A m \in 1..(j - 1) : c[m].th # c[j].th BY <1>1, Places DEF On
  <2>2. j - 1 \in 1..(j - 1) BY <1>1
  <2> QED BY <2>1, <2>2
<1>3. ThreadOK(l2) /\ l2.errfunc = NoHandler /\ l2.status = "error"
  <2>1. ThreadOK(l2) BY NewOK DEF Died
  <2> QED BY <2>1 DEF Died, NewThread
<1> HIDE DEF l2
<1>4. Core(d, t2)
  <2>1. \A i \in j..Len(c) : c[i].th = co OBVIOUS
  <2>2. (l2.status = "ok" => Len(l2.ci) = 1) /\ (l2.status = "yield" => Suspended(l2))
    BY <1>3
  <2> QED BY <1>3, <2>1, <2>2, CutThread
<1>5. t2[to] = t[to] /\ ThreadOK(t[to]) BY <1>1, <1>2, Typed
<1>6. ThreadOK(Received(t[to], 1)) /\ Alike(t[to], Received(t[to], 1))
  <2>1. t[to].top \in Nat /\ t[to].base <= t[to].top /\ t[to].base \in Nat
    BY <1>5, ThreadFields
  <2>2. t[to].top + 1 \in Nat /\ t[to].base <= t[to].top + 1 BY <2>1, SMTT(30)
  <2>3. Received(t[to], 1) = [t[to] EXCEPT !.top = t[to].top + 1] BY DEF Received
  <2> QED BY <1>5, <2>2, <2>3, SetTop
<1>7. Core(d, [t2 EXCEPT ![to] = Received(t[to], 1)])
  <2> HIDE DEF t2, d
  <2> QED BY <1>1, <1>4, <1>5, <1>6, SameStack
<1>8. [t2 EXCEPT ![to] = Received(t[to], 1)]
        = [t EXCEPT ![co] = Died(@), ![to] = Received(@, 1)]
  BY <1>1, <1>2 DEF l2
<1> QED BY <1>7, <1>8

(* An error unwinds to the jump buffer, to code that relies on nothing. *)
LEMMA Throw ==
  ASSUME NEW c, NEW t, Core(c, t), Len(c) >= 2, luaD_throw(c, t)
  PROVE  /\ Core(cs', thread') /\ TopOK(cs', thread')
         /\ Nested(cs', Len(cs')) \in Nat
         /\ Nested(cs', Len(cs')) <= Nested(c, Len(c) - 1)
<1> DEFINE j == errorJmp(c)
           f == c[j]
           n == Len(c)
<1>1. /\ Chain(c) /\ n \in Nat \ {0} /\ n - 1 \in Nat BY Typed
<1>2. /\ j \in 2..n /\ IsJump(f)
      /\ \A i \in (j + 1)..n : ~IsJump(c[i])
      /\ c[j - 1].k = "C"
      /\ \A i \in j..n : c[i].th = f.th
  BY <1>1, JumpBuffer
<1>3. /\ cs' = SubSeq(c, 1, j - 1)
      /\ thread' = IF f.k = "pcall"
                   THEN [t EXCEPT ![f.th] = Recovered(@, f)]
                   ELSE [t EXCEPT ![f.th] = Died(@), ![c[j - 1].th] = Received(@, 1)]
  BY DEF luaD_throw
<1> HIDE DEF j
<1>4. Core(cs', thread')
  <2>1. CASE f.k = "pcall"
    <3>1. Core(SubSeq(c, 1, j - 1), [t EXCEPT ![f.th] = Recovered(@, f)])
      BY <1>2, <2>1, ThrowToPcall
    <3> QED BY <1>3, <2>1, <3>1
  <2>2. CASE f.k = "resume"
    <3>1. Core(SubSeq(c, 1, j - 1),
               [t EXCEPT ![f.th] = Died(@), ![c[j - 1].th] = Received(@, 1)])
      BY <1>2, <2>2, ThrowToResume
    <3>2. f.k # "pcall" BY <2>2
    <3> QED BY <1>3, <3>1, <3>2
  <2> QED BY <1>2, <2>1, <2>2 DEF IsJump
<1>5. /\ Len(cs') = j - 1 /\ cs'[j - 1] = c[j - 1]
      /\ Nested(cs', j - 1) = Nested(c, j - 1)
  <2>1. j - 1 \in 1..n /\ j - 1 \in 1..(j - 1) /\ j - 1 \in 0..(j - 1) BY <1>1, <1>2
  <2> QED BY <1>1, <1>3, <2>1, Cutting
<1>6. Nested(c, j - 1) \in Nat /\ Nested(c, j - 1) <= Nested(c, n - 1)
  <2>1. j - 1 \in Nat /\ j - 1 <= n - 1 BY <1>1, <1>2
  <2> QED BY <1>1, <2>1, NestedStep, NestedGrows
<1>7. TopOK(cs', thread')
  <2>1. cs'[Len(cs')].k = "C" BY <1>2, <1>5
  <2> QED BY <2>1 DEF TopOK
<1> QED BY <1>4, <1>5, <1>6, <1>7

LEMMA Higher ==
  ASSUME NEW c, NEW t, Core(c, t), NEW th, NEW x \in Int, NEW y \in Int, High(c, th, x), x <= y
  PROVE  High(c, th, y)
<1> SUFFICES ASSUME NEW i \in 1..Len(c), IsPcall(c[i], th) PROVE c[i].old_top <= y
  BY DEF High
<1>1. c[i] \in Pcalls BY Typed DEF IsPcall
<1>2. c[i].old_top \in Nat BY <1>1 DEF Pcalls
<1>3. c[i].old_top <= x BY DEF High
<1> QED BY <1>2, <1>3

(* An error with a message: luaG_errormsg begins. *)
LEMMA RunError ==
  ASSUME NEW c, NEW t, Core(c, t), Len(c) >= 2, NEW th, th = c[Len(c)].th,
         t[th].status = "ok", c[Len(c)].k \in {"exec", "C", "call", "resume"},
         c[Len(c)].k = "call" => c[Len(c)].ph = "done",
         High(c, th, t[th].top), Bounded(c), luaG_runerror(c, t, th)
  PROVE  Good(cs', thread')
<1> DEFINE n == Len(c)
           g == [k |-> "errormsg", th |-> th, ph |-> "enter"]
           d == Append(c, g)
           l2 == [t[th] EXCEPT !.top = t[th].top + 1]
           t2 == [t EXCEPT ![th] = l2]
<1>1. /\ Chain(c) /\ n \in Nat \ {0} /\ th \in Threads /\ ThreadOK(t[th])
      /\ t \in [Threads -> ThreadRec]
  BY Typed
<1>2. t[th].top \in Nat /\ t[th].base \in Nat /\ t[th].base <= t[th].top
  BY <1>1, ThreadFields
<1>3. /\ ThreadOK(l2) /\ Alike(t[th], l2) /\ l2.top = t[th].top + 1 /\ l2.base = t[th].base
  <2>1. t[th].top + 1 \in Nat /\ t[th].base <= t[th].top + 1 BY <1>2
  <2> QED BY <1>1, <2>1, SetTop
<1>4. l2.status = "ok" BY <1>3 DEF Alike
<1>5. cs' = d /\ thread' = t2 BY DEF luaG_runerror
<1> HIDE DEF l2
<1>6. t2[th] = l2 BY <1>1
<1>7. g \in Activation /\ g.k = "errormsg" /\ g.th = th /\ g.ph = "enter"
  BY <1>1 DEF Activation, ErrorMsgs, Phases
<1> HIDE DEF g
<1>8. /\ Len(d) = n + 1 /\ d[n + 1] = g /\ \A i \in 1..n : d[i] = c[i]
      /\ Nested(d, n + 1) = Nested(c, n) + IF Counted(g) THEN 1 ELSE 0
      /\ Nested(c, n) \in Nat
  BY <1>1, <1>7, Pushing
<1>9. On(d, n + 1)
  <2>1. d[(n + 1) - 1] = c[n] /\ n + 1 # 2 BY <1>1, <1>8
  <2> QED BY <1>7, <1>8, <2>1 DEF On
<1> HIDE DEF t2
<1>10. Core(c, t2) BY <1>1, <1>3, SameStack DEF t2
<1>11. Core(d, t2) BY <1>4, <1>6, <1>7, <1>9, <1>10, PushPlain
<1>12. TopOK(d, t2)
  <2>1. High(d, th, l2.top - 1)
    <3> SUFFICES ASSUME NEW i \in 1..Len(d), IsPcall(d[i], th)
                 PROVE  d[i].old_top <= l2.top - 1
      BY DEF High
    <3>1. i \in 1..n
      <4>1. i # n + 1 BY <1>7, <1>8 DEF IsPcall
      <4> QED BY <1>1, <1>8, <4>1
    <3>2. d[i] = c[i] /\ l2.top - 1 = t[th].top BY <1>2, <1>3, <1>8, <3>1
    <3> QED BY <3>1, <3>2 DEF High
  <2>2. l2.base < l2.top BY <1>2, <1>3
  <2> QED BY <1>6, <1>7, <1>8, <2>1, <2>2 DEF TopOK
<1>13. Bounded(d)
  <2>1. ~Counted(g) BY <1>7 DEF Counted
  <2> QED BY <1>8, <2>1 DEF Bounded
<1> QED BY <1>5, <1>11, <1>12, <1>13 DEF Good

(* What a call needs of the state in which it is made. *)
Callable(c, t, th, func) ==
  /\ Core(c, t) /\ Bounded(c) /\ Len(c) >= 2 /\ th = c[Len(c)].th /\ t[th].status = "ok"
  /\ c[Len(c)].k \in {"exec", "call", "resume"}
  /\ c[Len(c)].k = "call" => c[Len(c)].ph = "done"
  /\ func \in Nat /\ t[th].base <= func /\ func < t[th].top /\ High(c, th, func)

(* The stack and the thread with the new frame, when there is room for it. *)
WithRoom(l, l2) == [l2 EXCEPT !.size_ci = growCI(l).size_ci]

LEMMA Grown ==
  ASSUME NEW l, ThreadOK(l), ~(inc_ci(l) /\ l.size_ci > MaxCalls)
  PROVE  /\ ThreadOK(growCI(l)) /\ Alike(l, growCI(l))
         /\ growCI(l).top = l.top /\ growCI(l).base = l.base
         /\ growCI(l).size_ci \in Nat /\ growCI(l).size_ci <= 2 * MaxCalls
         /\ Len(l.ci) + 1 <= growCI(l).size_ci
<1>1. /\ Len(l.ci) \in Nat \ {0} /\ l.size_ci \in Nat /\ l \in ThreadRec
      /\ Len(l.ci) <= l.size_ci /\ l.size_ci <= 2 * MaxCalls /\ MaxCalls \in Nat
  BY ThreadFields, Consts DEF ThreadOK
<1>2. CASE inc_ci(l)
  <2> DEFINE l2 == [l EXCEPT !.size_ci = 2 * l.size_ci]
  <2>1. growCI(l) = l2 BY <1>2 DEF growCI
  <2>2. /\ 2 * l.size_ci \in Nat /\ 2 * l.size_ci <= 2 * MaxCalls
        /\ Len(l.ci) + 1 <= 2 * l.size_ci /\ Len(l.ci) <= 2 * l.size_ci
    BY <1>1, <1>2 DEF inc_ci
  <2>3. /\ l2 \in ThreadRec /\ l2.top = l.top /\ l2.base = l.base
        /\ l2.ci = l.ci /\ l2.open = l.open /\ l2.size_ci = 2 * l.size_ci
        /\ l2.status = l.status /\ l2.nCcalls = l.nCcalls
        /\ l2.baseCcalls = l.baseCcalls /\ l2.errfunc = l.errfunc
    BY <1>1, <2>2 DEF ThreadRec
  <2> HIDE DEF l2
  <2>4. ThreadOK(l2) BY <2>2, <2>3 DEF ThreadOK
  <2>5. Alike(l, l2) BY <2>3 DEF Alike
  <2> QED BY <2>1, <2>2, <2>3, <2>4, <2>5
<1>3. CASE ~inc_ci(l)
  <2>1. growCI(l) = l BY <1>3 DEF growCI
  <2>2. Len(l.ci) + 1 <= l.size_ci BY <1>1, <1>3 DEF inc_ci
  <2> QED BY <1>1, <2>1, <2>2 DEF Alike
<1> QED BY <1>2, <1>3

LEMMA Enters ==
  ASSUME NEW l, ThreadOK(l), ~(inc_ci(l) /\ l.size_ci > MaxCalls),
         NEW e \in CallInfo, l.base < e.base, NEW x \in Nat, e.base <= x
  PROVE  LET l2 == WithRoom(l, Entered(l, e, x)) IN
           Longer(l, l2, e) /\ l2.top = x /\ l2.base = e.base
<1> DEFINE s == growCI(l).size_ci
           ci == Append(l.ci, e)
           l2 == WithRoom(l, Entered(l, e, x))
<1>1. l \in ThreadRec /\ l.ci \in Seq(CallInfo) /\ l.base \in Nat
  BY ThreadFields DEF ThreadOK
<1>2. s \in Nat /\ s <= 2 * MaxCalls /\ Len(l.ci) + 1 <= s BY Grown
<1>3. e.base \in Nat BY DEF CallInfo, Levels
<1>4. ci \in Seq(CallInfo) BY <1>1, <1>3
<1>5. l2 = [[l EXCEPT !.ci = ci, !.base = e.base, !.top = x] EXCEPT !.size_ci = s]
  BY DEF WithRoom, Entered
<1>6. l2 \in ThreadRec
  <2> DEFINE m == [l EXCEPT !.ci = ci, !.base = e.base, !.top = x]
  <2> HIDE DEF s, ci
  <2>1. m \in ThreadRec BY <1>1, <1>3, <1>4 DEF ThreadRec
  <2> HIDE DEF l2, m
  <2>2. [m EXCEPT !.size_ci = s] \in ThreadRec BY <1>2, <2>1 DEF ThreadRec
  <2> QED BY <1>5, <2>2 DEF m
<1>7. /\ l2.ci = ci /\ l2.base = e.base /\ l2.top = x /\ l2.size_ci = s
      /\ l2.open = l.open /\ l2.status = l.status /\ l2.nCcalls = l.nCcalls
      /\ l2.baseCcalls = l.baseCcalls /\ l2.errfunc = l.errfunc
  <2> HIDE DEF s, ci, l2
  <2> QED BY <1>1, <1>5 DEF ThreadRec
<1>8. l2.ci = Append(l.ci, e) BY <1>7
<1> HIDE DEF s, l2, ci
<1>9. Longer(l, l2, e) BY <1>2, <1>3, <1>6, <1>7, <1>8 DEF Longer
<1>10. l2.top = x /\ l2.base = e.base BY <1>7
<1> QED BY <1>9, <1>10 DEF l2

(* The array of CallInfo cannot grow. *)
LEMMA Overflows ==
  ASSUME NEW c, NEW t, NEW th, Core(c, t), Bounded(c), Len(c) >= 2,
         th = c[Len(c)].th, t[th].status = "ok",
         c[Len(c)].k \in {"exec", "call", "resume"},
         c[Len(c)].k = "call" => c[Len(c)].ph = "done", High(c, th, t[th].top),
         NEW stack, NEW l, luaD_precall(c, t, th, stack, l),
         inc_ci(t[th]), t[th].size_ci > MaxCalls \/ 2 * t[th].size_ci > MaxCalls
  PROVE  Good(cs', thread')
<1>1. /\ Chain(c) /\ Len(c) \in Nat \ {0} /\ th \in Threads /\ ThreadOK(t[th])
      /\ t \in [Threads -> ThreadRec]
  BY Typed
<1>2. CASE t[th].size_ci > MaxCalls
  <2>1. luaD_throw(c, t) BY <1>2 DEF luaD_precall
  <2>2. /\ Core(cs', thread') /\ TopOK(cs', thread') /\ Nested(cs', Len(cs')) \in Nat
        /\ Nested(cs', Len(cs')) <= Nested(c, Len(c) - 1)
    BY <2>1, Throw
  <2>3. Nested(c, Len(c) - 1) <= Nested(c, Len(c)) /\ Nested(c, Len(c) - 1) \in Nat
          /\ Nested(c, Len(c)) \in Nat
    <3>1. Len(c) - 1 \in Nat /\ Len(c) \in Nat /\ Len(c) - 1 <= Len(c) BY <1>1
    <3> QED BY <3>1, NestedGrows, NestedStep
  <2>4. Bounded(cs')
    <3>1. MaxCCalls + CCallsRoom \in Nat BY Consts
    <3>2. Nested(c, Len(c)) < MaxCCalls + CCallsRoom BY DEF Bounded
    <3> QED BY <2>2, <2>3, <3>1, <3>2 DEF Bounded
  <2> QED BY <2>2, <2>4 DEF Good
<1>3. CASE ~(t[th].size_ci > MaxCalls) /\ 2 * t[th].size_ci > MaxCalls
  <2> DEFINE l2 == growCI(t[th])
             t2 == [t EXCEPT ![th] = l2]
  <2>1. ThreadOK(l2) /\ Alike(t[th], l2) /\ l2.top = t[th].top BY <1>1, <1>3, Grown
  <2>2. luaG_runerror(c, t2, th) BY <1>3 DEF luaD_precall
  <2> HIDE DEF l2
  <2>3. Core(c, t2) BY <1>1, <2>1, SameStack
  <2>4. t2[th] = l2 BY <1>1
  <2>5. t2[th].status = "ok" /\ High(c, th, t2[th].top) BY <2>1, <2>4 DEF Alike
  <2> HIDE DEF t2
  <2> QED BY <2>2, <2>3, <2>5, RunError
<1> QED BY <1>2, <1>3

LEMMA CallsLua ==
  ASSUME NEW c, NEW t, NEW th, NEW func, Callable(c, t, th, func),
         NEW nresults \in {MULTRET, 0, 1}, EnterLua(c, t, th, func, nresults)
  PROVE  Good(cs', thread')
<1> DEFINE e == Frame(TRUE, func, nresults)
           x == FrameTop(e)
           l == t[th]
           l2 == WithRoom(l, Entered(l, e, x))
           n == Len(c)
           t2 == [t EXCEPT ![th] = l2]
           stack == Reentry(c, th)
<1>1. /\ Chain(c) /\ n \in Nat \ {0} /\ th \in Threads /\ ThreadOK(l)
      /\ t \in [Threads -> ThreadRec] /\ c[n] \in Activation
  BY Typed DEF Callable
<1>2. /\ func \in Nat /\ l.base <= func /\ func < l.top /\ High(c, th, func)
      /\ l.top \in Nat /\ l.base \in Nat
  BY <1>1, ThreadFields DEF Callable
<1>3. luaD_precall(c, t, th, stack, Entered(l, e, x)) BY DEF EnterLua
<1>4. CASE inc_ci(l) /\ (l.size_ci > MaxCalls \/ 2 * l.size_ci > MaxCalls)
  <2>1. High(c, th, l.top)
    <3>1. Core(c, t) BY DEF Callable
    <3>2. func \in Int /\ l.top \in Int /\ func <= l.top BY <1>2
    <3> QED BY <1>2, <3>1, <3>2, Higher
  <2> HIDE DEF stack, e, x
  <2> QED BY <1>3, <1>4, <2>1, Overflows DEF Callable
<1>5. CASE ~(inc_ci(l) /\ (l.size_ci > MaxCalls \/ 2 * l.size_ci > MaxCalls))
  <2>1. cs' = stack /\ thread' = t2 BY <1>3, <1>5 DEF luaD_precall, WithRoom
  <2>2. /\ Longer(l, l2, e) /\ l2.top = x /\ l2.base = func + 1 /\ e.base = func + 1 /\ e.lua
    <3>1. x = func + 1 + Registers BY DEF FrameTop, Frame
    <3>2. func \in Nat BY <1>2
    <3>3. x \in Nat /\ func < x
      <4> HIDE DEF x
      <4> QED BY <3>1, <3>2 DEF Registers
    <3>4. l.base <= func /\ ~(inc_ci(l) /\ l.size_ci > MaxCalls) BY <1>2, <1>5
    <3>5. e \in CallInfo /\ e.base = func + 1 /\ e.lua
      BY <3>2 DEF Frame, CallInfo, Levels
    <3> HIDE DEF e, x
    <3>6. l.base < e.base /\ e.base <= x
      <4>1. func \in Nat /\ l.base \in Nat /\ x \in Nat BY <1>2, <3>3
      <4> HIDE DEF l
      <4> QED BY <3>3, <3>4, <3>5, <4>1
    <3>7. Longer(l, l2, e) /\ l2.top = x /\ l2.base = e.base
      BY <1>1, <3>3, <3>4, <3>5, <3>6, Enters
    <3> QED BY <3>5, <3>7
  <2>3. x = l2.base + Registers BY <2>2 DEF FrameTop
  <2>4. \A i \in 1..n : IsPcall(c[i], th) => c[i].old_top < e.base
    <3> SUFFICES ASSUME NEW i \in 1..n, IsPcall(c[i], th) PROVE c[i].old_top < e.base
      OBVIOUS
    <3>1. c[i] \in Pcalls BY Typed DEF IsPcall, Callable
    <3>2. c[i].old_top \in Nat /\ c[i].old_top <= func BY <1>2, <3>1 DEF High, Pcalls
    <3>3. func \in Nat /\ e.base = func + 1 BY <1>2, <2>2
    <3> HIDE DEF e
    <3> QED BY <3>2, <3>3
  <2>5. t2[th] = l2 BY <1>1
  <2> HIDE DEF e, x, l2
  <2>6. CASE c[n].k = "exec"
    <3> DEFINE f == c[n]
               g == [f EXCEPT !.nexeccalls = @ + 1]
    <3>1. stack = SetLast(c, g) BY <2>6 DEF Reentry, Last
    <3>2. Core(SetLast(c, g), t2)
      <4>1. Core(c, t) /\ th = c[n].th BY DEF Callable
      <4>2. Longer(t[th], l2, e) /\ e.lua BY <2>2
      <4> QED BY <2>4, <2>6, <4>1, <4>2, WidenExec
    <3>3. g \in Activation /\ g.k = "exec" /\ g.th = th
      <4>1. f \in Execs BY <1>1, <2>6, Kinds
      <4>2. g \in Execs /\ g.k = "exec" /\ g.th = f.th BY <4>1 DEF Execs
      <4> QED BY <4>2 DEF Activation, Callable
    <3> HIDE DEF g
    <3>4. /\ Len(stack) = n /\ stack[n] = g
          /\ Nested(stack, n) = Nested(c, n - 1) + IF Counted(g) THEN 1 ELSE 0
          /\ Nested(c, n) = Nested(c, n - 1) + IF Counted(c[n]) THEN 1 ELSE 0
      BY <1>1, <2>6, <3>1, <3>3, Setting DEF Callable
    <3>5. ~Counted(g) /\ ~Counted(c[n]) BY <2>6, <3>3 DEF Counted
    <3>6. Bounded(stack) BY <3>4, <3>5 DEF Bounded, Callable
    <3>7. TopOK(stack, t2) BY <2>2, <2>3, <2>5, <3>3, <3>4 DEF TopOK
    <3> QED BY <2>1, <3>1, <3>2, <3>6, <3>7 DEF Good
  <2>7. CASE c[n].k # "exec"
    <3> DEFINE g == [k |-> "exec", th |-> th, nexeccalls |-> 1]
    <3>1. stack = Append(c, g) BY <2>7 DEF Reentry, Last
    <3>2. g \in Activation /\ g.k = "exec" /\ g.th = th /\ Width(g) = 1
      BY <1>1 DEF Activation, Execs, Width
    <3> HIDE DEF g
    <3>3. /\ Len(stack) = n + 1 /\ stack[n + 1] = g /\ \A i \in 1..n : stack[i] = c[i]
          /\ Nested(stack, n + 1) = Nested(c, n) + IF Counted(g) THEN 1 ELSE 0
          /\ Nested(c, n) \in Nat
      BY <1>1, <3>1, <3>2, Pushing
    <3>4. On(stack, n + 1)
      <4>1. stack[(n + 1) - 1] = c[n] /\ n + 1 # 2 BY <1>1, <3>3 DEF Callable
      <4> QED BY <2>7, <3>2, <3>3, <4>1 DEF On, Callable
    <3>5. Core(Append(c, g), t2)
      <4>1. Core(c, t) /\ th = c[n].th /\ t[th].status = "ok" BY DEF Callable
      <4>2. Longer(t[th], l2, e) /\ e.lua BY <2>2
      <4>3. On(Append(c, g), n + 1) BY <3>1, <3>4
      <4> QED BY <2>4, <3>2, <4>1, <4>2, <4>3, PushFrame
    <3>6. ~Counted(g) BY <3>2 DEF Counted
    <3>7. Bounded(stack) BY <3>3, <3>6 DEF Bounded, Callable
    <3>8. TopOK(stack, t2) BY <2>2, <2>3, <2>5, <3>2, <3>3 DEF TopOK
    <3> QED BY <2>1, <3>1, <3>5, <3>7, <3>8 DEF Good
  <2> QED BY <2>6, <2>7
<1> QED BY <1>4, <1>5

LEMMA CallsC ==
  ASSUME NEW c, NEW t, NEW th, NEW func, Callable(c, t, th, func),
         c[Len(c)].k \in {"exec", "call"},
         NEW nresults \in {MULTRET, 0, 1}, EnterC(c, t, th, func, nresults)
  PROVE  Good(cs', thread')
<1> DEFINE e == Frame(FALSE, func, nresults)
           l == t[th]
           l2 == WithRoom(l, Entered(l, e, l.top))
           n == Len(c)
           t2 == [t EXCEPT ![th] = l2]
           g == [k |-> "C", th |-> th]
           stack == Append(c, g)
<1>1. /\ Chain(c) /\ n \in Nat \ {0} /\ th \in Threads /\ ThreadOK(l)
      /\ t \in [Threads -> ThreadRec] /\ c[n] \in Activation
  BY Typed DEF Callable
<1>2. /\ func \in Nat /\ l.base <= func /\ func < l.top /\ High(c, th, func)
      /\ l.top \in Nat /\ l.base \in Nat
  BY <1>1, ThreadFields DEF Callable
<1>3. luaD_precall(c, t, th, stack, Entered(l, e, l.top)) BY DEF EnterC
<1>4. CASE inc_ci(l) /\ (l.size_ci > MaxCalls \/ 2 * l.size_ci > MaxCalls)
  <2>1. High(c, th, l.top)
    <3>1. Core(c, t) BY DEF Callable
    <3>2. func \in Int /\ l.top \in Int /\ func <= l.top BY <1>2
    <3> QED BY <1>2, <3>1, <3>2, Higher
  <2> HIDE DEF stack, e
  <2> QED BY <1>3, <1>4, <2>1, Overflows DEF Callable
<1>5. CASE ~(inc_ci(l) /\ (l.size_ci > MaxCalls \/ 2 * l.size_ci > MaxCalls))
  <2>1. cs' = stack /\ thread' = t2 BY <1>3, <1>5 DEF luaD_precall, WithRoom
  <2>2. Longer(l, l2, e) /\ e.base = func + 1 /\ ~e.lua
    <3>1. e \in CallInfo /\ e.base = func + 1 /\ ~e.lua
      BY <1>2 DEF Frame, CallInfo, Levels
    <3> HIDE DEF e
    <3>2. l.base < e.base /\ e.base <= l.top BY <1>2, <3>1
    <3>3. Longer(l, l2, e) BY <1>1, <1>2, <1>5, <3>1, <3>2, Enters
    <3> QED BY <3>1, <3>3
  <2>3. \A i \in 1..n : IsPcall(c[i], th) => c[i].old_top < e.base
    <3> SUFFICES ASSUME NEW i \in 1..n, IsPcall(c[i], th) PROVE c[i].old_top < e.base
      OBVIOUS
    <3>1. c[i] \in Pcalls BY Typed DEF IsPcall, Callable
    <3>2. c[i].old_top \in Nat /\ c[i].old_top <= func BY <1>2, <3>1 DEF High, Pcalls
    <3>3. func \in Nat /\ e.base = func + 1 BY <1>2, <2>2
    <3> HIDE DEF e
    <3> QED BY <3>2, <3>3
  <2> HIDE DEF e, l2
  <2>4. g \in Activation /\ g.k = "C" /\ g.th = th /\ Width(g) = 1
    BY <1>1 DEF Activation, CFrames, Width
  <2> HIDE DEF g
  <2>5. /\ Len(stack) = n + 1 /\ stack[n + 1] = g /\ \A i \in 1..n : stack[i] = c[i]
        /\ Nested(stack, n + 1) = Nested(c, n) + IF Counted(g) THEN 1 ELSE 0
        /\ Nested(c, n) \in Nat
    BY <1>1, <2>4, Pushing
  <2>6. On(stack, n + 1)
    <3>1. stack[(n + 1) - 1] = c[n] /\ n + 1 # 2 BY <1>1, <2>5 DEF Callable
    <3> QED BY <2>4, <2>5, <3>1 DEF On, Callable
  <2>7. Core(stack, t2) BY <2>2, <2>3, <2>4, <2>6, PushFrame DEF Callable
  <2>8. ~Counted(g) BY <2>4 DEF Counted
  <2>9. Bounded(stack) BY <2>5, <2>8 DEF Bounded, Callable
  <2>10. TopOK(stack, t2) BY <2>4, <2>5 DEF TopOK
  <2> QED BY <2>1, <2>7, <2>9, <2>10 DEF Good
<1> QED BY <1>4, <1>5

------------------------------------------------------------------------------
(* Returns *)

(* The last entry of the array is that of the activation on top. *)
LEMMA LastEntry ==
  ASSUME NEW c, NEW t, Core(c, t), NEW th, th = c[Len(c)].th, t[th].status = "ok",
         c[Len(c)].k \in {"exec", "C", "resume"}
  PROVE  t[th].ci[Len(t[th].ci)].lua <=> c[Len(c)].k = "exec"
<1> DEFINE n == Len(c)
           ci == t[th].ci
<1>1. /\ n \in Nat \ {0} /\ n \in 1..n /\ c[n] \in Activation /\ Len(ci) \in Nat \ {0}
      /\ Len(ci) \in 1..Len(ci)
  <2>1. n \in Nat \ {0} /\ c[n] \in Activation /\ th \in Threads BY Typed
  <2>2. Len(ci) \in Nat \ {0} BY <2>1, Typed
  <2> QED BY <2>1, <2>2
<1>2. Matches(c, ci, th) BY OkMatches
<1>3. Width(c[n]) \in Nat /\ Width(c[n]) >= 1 BY <1>1, Widths
<1>4. Len(ci) = Entries(c, th, n) BY <1>2 DEF Matches
<1> HIDE DEF ci
<1>5. Entries(c, th, n) - Width(c[n]) < Len(ci) /\ Len(ci) <= Entries(c, th, n)
  BY <1>1, <1>3, <1>4
<1>6. ci[Len(ci)].lua <=> c[n].k = "exec" BY <1>1, <1>2, <1>5 DEF Matches
<1> QED BY <1>6 DEF ci

(* Below the frames of the activation on top the thread has another one. *)
LEMMA LowerEntry ==
  ASSUME NEW c, NEW t, Core(c, t), NEW n, n = Len(c), n >= 2, c[n].k # "resume",
         NEW th, th = c[n].th
  PROVE  /\ Entries(c, th, n - 1) \in Nat \ {0}
         /\ Len(t[th].ci) = Entries(c, th, n - 1) + Width(c[n])
         /\ c[n - 1].th = th
<1>1. /\ Chain(c) /\ c \in Seq(Activation) /\ n \in Nat \ {0} BY Typed
<1>2. /\ n - 1 \in 1..Len(c) /\ n \in 2..Len(c) /\ n - 1 \in 0..Len(c) /\ n - 1 < Len(c)
      /\ (n - 1) + 1 = n
  BY <1>1
<1>3. c[n - 1].th = th BY <1>1, <1>2, Places DEF On
<1>4. Entries(c, th, n - 1) >= 1 BY <1>1, <1>2, <1>3, Rooted
<1>5. /\ Entries(c, th, n - 1) \in Nat
      /\ Entries(c, th, n) = Entries(c, th, n - 1) + Width(c[n])
  BY <1>1, <1>2, EntriesStep
<1>6. Len(t[th].ci) = Entries(c, th, n) BY RunsOk DEF Matches
<1>7. Entries(c, th, n - 1) \in Nat \ {0} BY <1>4, <1>5
<1> QED BY <1>3, <1>5, <1>6, <1>7

(* The activation on top ends. *)
LEMMA Pop ==
  ASSUME NEW c, NEW t, Core(c, t), NEW n, n = Len(c), n >= 2, c[n].k # "resume",
         NEW th, th = c[n].th, NEW l2, ThreadOK(l2), l2.status = "ok",
         l2.baseCcalls = t[th].baseCcalls, l2.nCcalls = Nested(c, n - 1),
         HandlerOK(c, n - 1, th, l2.errfunc),
         Len(l2.ci) = Len(t[th].ci) - Width(c[n]),
         \A m \in 1..Len(l2.ci) : l2.ci[m] = t[th].ci[m]
  PROVE  Core(Front(c), [t EXCEPT ![th] = l2])
<1> DEFINE k == n - 1
           d == SubSeq(c, 1, k)
           ci == t[th].ci
<1>1. /\ Chain(c) /\ c \in Seq(Activation) /\ n \in Nat \ {0} /\ c[n] \in Activation
      /\ th \in Threads
  BY Typed
<1>2. k \in 1..n /\ k \in 1..(Len(c) - 1) /\ k \in Nat /\ k <= k /\ k <= Len(c) /\ k \in 1..k
  BY <1>1
<1>3. /\ Entries(c, th, k) \in Nat \ {0} /\ Len(ci) = Entries(c, th, k) + Width(c[n])
      /\ c[k].th = th
  BY LowerEntry
<1>4. Width(c[n]) \in Nat BY <1>1, Widths
<1>5. Matches(c, ci, th) BY RunsOk
<1>6. Len(d) = k /\ Same(c, d, k) /\ d \in Seq(Activation) /\ d[k] = c[k]
  BY <1>1, <1>2, Cutting
<1>7. Len(l2.ci) = Entries(c, th, k) /\ Len(ci) \in Nat
  <2>1. Len(l2.ci) = Len(ci) - Width(c[n]) OBVIOUS
  <2> HIDE DEF ci, k
  <2> QED BY <1>3, <1>4, <2>1
<1>8. \A i \in k..Len(c) : c[i].th = th
  <2>1. \A i \in k..Len(c) : i = k \/ i = n BY <1>1
  <2> QED BY <1>3, <2>1
<1> HIDE DEF d
<1>9. MatchAt(d, l2, th)
  <2>1. Busy(d, th) BY <1>2, <1>3, <1>6 DEF Busy
  <2>2. Matches(d, l2.ci, th)
    <3>1. /\ Len(d) <= Len(c) /\ Same(c, d, Len(d)) /\ Len(l2.ci) = Entries(c, th, Len(d))
          /\ \A m \in 1..Len(l2.ci) : l2.ci[m].lua <=> ci[m].lua
      BY <1>2, <1>6, <1>7
    <3> HIDE DEF ci
    <3> QED BY <1>1, <1>5, <1>6, <1>7, <3>1, MatchCut
  <2> QED BY <2>1, <2>2 DEF MatchAt
<1>10. HandlerOK(d, k, th, l2.errfunc)
  <2>1. \A i \in (k + 1)..k : FALSE BY <1>2
  <2> QED BY <1>2, <1>6, <2>1, HandlerSame, SMTT(30)
<1>11. \A i \in 1..k : c[i].th = th => PcallAt(c, [t EXCEPT ![th] = l2], i)
  <2>1. \A m \in 1..Len(l2.ci) : m <= Len(ci) /\ l2.ci[m].base = ci[m].base
    <3>1. Len(l2.ci) <= Len(ci) /\ Len(l2.ci) \in Nat
      <4> HIDE DEF ci, k
      <4> QED BY <1>3, <1>4, <1>7
    <3> QED BY <1>7, <3>1, SMTT(30)
  <2>2. l2.ci \in Seq(CallInfo) BY ThreadFields
  <2> QED BY <1>1, <1>2, <1>7, <2>1, <2>2, CutPcalls
<1>12. Core(d, [t EXCEPT ![th] = l2])
  BY <1>2, <1>8, <1>9, <1>10, <1>11, CutAny DEF d
<1>13. Front(c) = d BY <1>1 DEF Front, d
<1> QED BY <1>12, <1>13

LEMMA Popped ==
  ASSUME NEW c, Chain(c), NEW n, n = Len(c), n >= 2
  PROVE  /\ Len(Front(c)) = n - 1 /\ Front(c)[n - 1] = c[n - 1]
         /\ Nested(Front(c), n - 1) = Nested(c, n - 1)
         /\ Nested(c, n - 1) \in Nat /\ Nested(c, n) \in Nat
         /\ Nested(c, n) = Nested(c, n - 1) + IF Counted(c[n]) THEN 1 ELSE 0
         /\ Bounded(c) => Bounded(Front(c))
<1> DEFINE k == n - 1
           d == SubSeq(c, 1, k)
<1>1. n \in Nat /\ k \in 1..Len(c) /\ k \in 0..k /\ k \in 1..k /\ k \in Nat /\ k + 1 = n
  <2>1. n \in Nat \ {0} BY Places
  <2> QED BY <2>1
<1>2. Front(c) = d BY <1>1 DEF Front
<1>3. Len(d) = k /\ d[k] = c[k] /\ Nested(d, k) = Nested(c, k) BY <1>1, Cutting
<1> HIDE DEF d
<1>4. /\ Nested(c, k) \in Nat
      /\ Nested(c, k + 1) = Nested(c, k) + IF Counted(c[k + 1]) THEN 1 ELSE 0
  BY <1>1, NestedStep
<1>5. /\ Nested(c, n) = Nested(c, k) + IF Counted(c[n]) THEN 1 ELSE 0
      /\ Nested(c, n) \in Nat
  BY <1>1, <1>4
<1>6. Bounded(c) => Bounded(d)
  <2>1. MaxCCalls + CCallsRoom \in Nat BY Consts
  <2> HIDE DEF k
  <2>2. Nested(c, k) <= Nested(c, n) BY <1>4, <1>5
  <2> QED BY <1>3, <1>4, <1>5, <2>1, <2>2 DEF Bounded
<1> QED BY <1>2, <1>3, <1>4, <1>5, <1>6

(* The interpreter goes on in the activation on top. *)
LEMMA Back ==
  ASSUME NEW c, NEW t, Core(c, t), c[Len(c)].k = "exec", NEW th, th = c[Len(c)].th
  PROVE  LET t2 == [t EXCEPT ![th] = BackInLua(t[th])] IN Core(c, t2) /\ TopOK(c, t2)
<1> DEFINE l == t[th]
           l2 == BackInLua(l)
           t2 == [t EXCEPT ![th] = l2]
           x == l.base + Registers
<1>1. th \in Threads /\ ThreadOK(l) /\ t \in [Threads -> ThreadRec] BY Typed
<1>2. l.status = "ok" BY RunsOk
<1>3. l.ci[Len(l.ci)].lua BY <1>2, LastEntry
<1>4. l.base = l.ci[Len(l.ci)].base /\ l.base \in Nat BY <1>1, ThreadFields
<1>5. l2 = [l EXCEPT !.top = x]
  <2>1. Last(l.ci) = l.ci[Len(l.ci)] BY DEF Last
  <2>2. FrameTop(l.ci[Len(l.ci)]) = x BY <1>4 DEF FrameTop
  <2> QED BY <1>3, <2>1, <2>2 DEF BackInLua
<1>6. x \in Nat /\ l.base <= x
  <2> HIDE DEF l
  <2> QED BY <1>4 DEF Registers
<1> HIDE DEF l2, x
<1>7. ThreadOK(l2) /\ Alike(l, l2) /\ l2.top = x /\ l2.base = l.base
  BY <1>1, <1>5, <1>6, SetTop
<1>8. Core(c, t2) BY <1>1, <1>7, SameStack
<1>9. TopOK(c, t2)
  <2>1. t2[th] = l2 BY <1>1
  <2>2. l2.top = l2.base + Registers BY <1>7 DEF x
  <2> QED BY <2>1, <2>2 DEF TopOK
<1> QED BY <1>8, <1>9 DEF l2

(* luaD_poscall *)
LEMMA Poscall ==
  ASSUME NEW l, ThreadOK(l), Len(l.ci) >= 2, NEW x \in Nat, x <= l.top,
         \A u \in l.open : ~(l.ci[Len(l.ci)].lua /\ l.ci[Len(l.ci)].base <= u)
  PROVE  LET r == luaD_poscall(l, x) IN
           /\ ThreadOK(r) /\ r.status = l.status /\ r.nCcalls = l.nCcalls
           /\ r.baseCcalls = l.baseCcalls /\ r.errfunc = l.errfunc
           /\ Len(r.ci) = Len(l.ci) - 1 /\ \A m \in 1..Len(r.ci) : r.ci[m] = l.ci[m]
<1> DEFINE ci == l.ci
           n == Len(ci)
           k == n - 1
           front == SubSeq(ci, 1, k)
           e == ci[n]
           y == e.base - 1 + IF e.nresults = MULTRET THEN l.top - x ELSE e.nresults
           b == ci[k].base
           r == luaD_poscall(l, x)
<1>1. /\ ci \in Seq(CallInfo) /\ n \in Nat \ {0} /\ l \in ThreadRec /\ l.top \in Nat
      /\ l.size_ci \in Nat /\ n <= l.size_ci /\ l.size_ci <= 2 * MaxCalls
      /\ \A i \in 1..n : ci[i] \in CallInfo /\ ci[i].base \in Nat
  BY ThreadFields DEF ThreadOK
<1>2. k \in 1..n /\ n \in 1..n /\ k < n BY <1>1
<1>3. e \in CallInfo /\ e.base \in Nat /\ b \in Nat /\ b < e.base
  BY <1>1, <1>2 DEF ThreadOK
<1>4. e.nresults \in {MULTRET, 0, 1} BY <1>3 DEF CallInfo
<1>5. y \in Nat /\ b <= y
  <2>1. l.top - x \in Nat BY <1>1
  <2>2. e.base - 1 \in Nat /\ b <= e.base - 1 BY <1>3, SMTT(30)
  <2> DEFINE z == IF e.nresults = MULTRET THEN l.top - x ELSE e.nresults
  <2>3. z \in Nat BY <1>4, <2>1 DEF MULTRET
  <2>4. y = e.base - 1 + z OBVIOUS
  <2> HIDE DEF e, b, z, y
  <2> QED BY <1>3, <2>2, <2>3, <2>4
<1>6. front \in Seq(CallInfo) /\ Len(front) = k /\ front[k] = ci[k]
        /\ \A m \in 1..k : front[m] = ci[m]
  BY <1>1, <1>2
<1>7. Front(ci) = front /\ Last(ci) = e /\ Last(Front(ci)).base = b
  <2>1. Front(ci) = front /\ Last(ci) = e BY DEF Front, Last
  <2>2. Last(front) = ci[k] BY <1>6 DEF Last
  <2> QED BY <2>1, <2>2
<1>8. r = [l EXCEPT !.ci = front, !.base = b, !.top = y] BY <1>7 DEF luaD_poscall
<1> HIDE DEF r, y, b, front
<1>9. r \in ThreadRec
  <2>1. [l EXCEPT !.ci = front, !.base = b, !.top = y] \in ThreadRec
    BY <1>1, <1>3, <1>5, <1>6 DEF ThreadRec
  <2> QED BY <1>8, <2>1
<1>10. /\ r.ci = front /\ r.base = b /\ r.top = y /\ r.status = l.status
       /\ r.nCcalls = l.nCcalls /\ r.baseCcalls = l.baseCcalls /\ r.errfunc = l.errfunc
       /\ r.size_ci = l.size_ci /\ r.open = l.open
  BY <1>1, <1>8 DEF ThreadRec
<1>11. \A u \in r.open : \A m \in 1..Len(l.ci) : k < m => ~(l.ci[m].lua /\ l.ci[m].base <= u)
  <2>1. \A m \in 1..n : k < m => m = n BY <1>1
  <2> QED BY <1>10, <2>1
<1>12. ThreadOK(r)
  <2>1. k \in 1..Len(l.ci) /\ r.ci = SubSeq(l.ci, 1, k) /\ r.base = l.ci[k].base
    BY <1>2, <1>10 DEF front, b
  <2>2. r.base <= r.top /\ k <= r.size_ci /\ r.size_ci <= 2 * MaxCalls /\ r.open \subseteq l.open
    <3>1. k <= l.size_ci BY <1>1
    <3> QED BY <1>1, <1>5, <1>10, <3>1
  <2> HIDE DEF k
  <2> QED BY <1>9, <1>11, <2>1, <2>2, Shorter
<1> QED BY <1>6, <1>10, <1>12 DEF r

------------------------------------------------------------------------------
(* The steps of calls *)

LEMMA SetDepth ==
  ASSUME NEW l, ThreadOK(l), NEW x \in Nat
  PROVE  LET l2 == [l EXCEPT !.nCcalls = x] IN
           /\ ThreadOK(l2) /\ Alike([l EXCEPT !.nCcalls = l2.nCcalls], l2)
           /\ l2.top = l.top /\ l2.base = l.base /\ l2.nCcalls = x
           /\ l2.ci = l.ci /\ l2.status = l.status /\ l2.baseCcalls = l.baseCcalls
           /\ l2.errfunc = l.errfunc
<1> DEFINE l2 == [l EXCEPT !.nCcalls = x]
<1>1. l \in ThreadRec BY DEF ThreadOK
<1>2. /\ l2 \in ThreadRec /\ l2.top = l.top /\ l2.base = l.base
      /\ l2.ci = l.ci /\ l2.open = l.open /\ l2.size_ci = l.size_ci
      /\ l2.status = l.status /\ l2.nCcalls = x
      /\ l2.baseCcalls = l.baseCcalls /\ l2.errfunc = l.errfunc
  BY <1>1 DEF ThreadRec
<1>3. [l EXCEPT !.nCcalls = l2.nCcalls] = l2 BY <1>2
<1> HIDE DEF l2
<1>4. ThreadOK(l2) BY <1>2 DEF ThreadOK
<1>5. Alike([l EXCEPT !.nCcalls = l2.nCcalls], l2) BY <1>3 DEF Alike
<1> QED BY <1>2, <1>4, <1>5 DEF l2

(* luaD_call begins: its arguments are above all that is to be kept. *)
LEMMA PushCall ==
  ASSUME NEW c, NEW t, Core(c, t), Bounded(c), Len(c) >= 2, NEW th, th = c[Len(c)].th,
         t[th].status = "ok", c[Len(c)].k \in {"exec", "C", "pcall", "errormsg"},
         c[Len(c)].k = "errormsg" => c[Len(c)].ph = "done",
         NEW func \in Nat, t[th].base <= func, High(c, th, func),
         NEW nresults \in {MULTRET, 0, 1}, NEW x \in Nat, func < x
  PROVE  Good(Append(c, CallFrame(th, func, nresults)), [t EXCEPT ![th].top = x])
<1> DEFINE n == Len(c)
           g == CallFrame(th, func, nresults)
           d == Append(c, g)
           l == t[th]
           l2 == [l EXCEPT !.top = x]
           t2 == [t EXCEPT ![th] = l2]
<1>1. /\ Chain(c) /\ n \in Nat \ {0} /\ th \in Threads /\ ThreadOK(l)
      /\ t \in [Threads -> ThreadRec]
  BY Typed
<1>2. l.base \in Nat /\ l.base <= x
  <2>1. l.base \in Nat BY <1>1, ThreadFields
  <2> HIDE DEF l
  <2>2. l.base <= func BY DEF l
  <2> QED BY <2>1, <2>2
<1>3. ThreadOK(l2) /\ Alike(l, l2) /\ l2.top = x /\ l2.base = l.base BY <1>1, <1>2, SetTop
<1>4. [t EXCEPT ![th].top = x] = t2 OBVIOUS
<1>5. g \in Activation /\ g.k = "call" /\ g.th = th /\ g.ph = "enter" /\ g.func = func
  <2>1. g \in LuaDCalls BY <1>1 DEF CallFrame, LuaDCalls, Phases
  <2>2. g \in Activation BY <2>1 DEF Activation
  <2> QED BY <2>2 DEF CallFrame
<1> HIDE DEF l2, g
<1>6. t2[th] = l2 /\ l2.status = "ok" BY <1>1, <1>3 DEF Alike
<1> HIDE DEF t2
<1>7. Core(c, t2) BY <1>1, <1>3, SameStack DEF t2
<1>8. /\ Len(d) = n + 1 /\ d[n + 1] = g /\ \A i \in 1..n : d[i] = c[i]
      /\ Nested(d, n + 1) = Nested(c, n) + IF Counted(g) THEN 1 ELSE 0
      /\ Nested(c, n) \in Nat
  BY <1>1, <1>5, Pushing
<1>9. On(d, n + 1)
  <2>1. d[(n + 1) - 1] = c[n] /\ n + 1 # 2 BY <1>1, <1>8
  <2> QED BY <1>5, <1>8, <2>1 DEF On
<1>10. Core(d, t2) BY <1>5, <1>6, <1>7, <1>9, PushPlain
<1>11. Bounded(d)
  <2>1. ~Counted(g) BY <1>5 DEF Counted
  <2> QED BY <1>8, <2>1 DEF Bounded
<1>12. TopOK(d, t2)
  <2>1. High(d, th, func)
    <3> SUFFICES ASSUME NEW i \in 1..Len(d), IsPcall(d[i], th) PROVE d[i].old_top <= func
      BY DEF High
    <3>1. i # n + 1 BY <1>5, <1>8 DEF IsPcall
    <3>2. i \in 1..n BY <1>1, <1>8, <3>1
    <3> QED BY <1>8, <3>2 DEF High
  <2>2. l2.base <= func /\ func < l2.top BY <1>3
  <2> QED BY <1>5, <1>6, <1>8, <2>1, <2>2 DEF TopOK
<1> QED BY <1>4, <1>10, <1>11, <1>12 DEF Good, g

LEMMA StepCallEnters ==
  ASSUME IInv, CallEnters
  PROVE  IInv'
<1> DEFINE n == Len(cs)
           f == cs[n]
           th == f.th
           g == [f EXCEPT !.ph = "done"]
           c == SetLast(cs, g)
           l == thread[th]
           l2 == [l EXCEPT !.nCcalls = l.nCcalls + 1]
           t == [thread EXCEPT ![th] = l2]
           m == Nested(cs, n)
<1>1. /\ Core(cs, thread) /\ TopOK(cs, thread) /\ Bounded(cs) /\ f.k = "call" /\ f.ph = "enter"
  BY DEF IInv, Good, CallEnters, Top
<1>2. /\ Chain(cs) /\ n \in Nat \ {0} /\ th \in Threads /\ ThreadOK(l)
      /\ thread \in [Threads -> ThreadRec] /\ f \in Activation
  BY <1>1, Typed
<1>3. n >= 2 BY <1>1, <1>2, NotFirst
<1>4. f \in LuaDCalls /\ f.func \in Nat /\ f.nresults \in {MULTRET, 0, 1}
  <2>1. f \in LuaDCalls BY <1>1, <1>2, Kinds
  <2> QED BY <2>1 DEF LuaDCalls
<1>5. g \in Activation /\ g.k = "call" /\ g.th = th /\ g.ph = "done"
  <2>1. g \in LuaDCalls /\ g.k = "call" /\ g.th = th /\ g.ph = "done"
    BY <1>4, SMTT(30) DEF LuaDCalls, Phases
  <2> QED BY <2>1 DEF Activation
<1>6. l.nCcalls \in Nat /\ l.nCcalls = m
  <2>1. l \in ThreadRec BY <1>2 DEF ThreadOK
  <2> QED BY <1>1, <2>1 DEF ThreadRec, Core, Depth
<1>7. /\ ThreadOK(l2) /\ Alike([l EXCEPT !.nCcalls = l2.nCcalls], l2)
      /\ l2.top = l.top /\ l2.base = l.base /\ l2.nCcalls = l.nCcalls + 1
      /\ l2.status = l.status
  <2>1. l.nCcalls + 1 \in Nat BY <1>6
  <2> QED BY <1>2, <2>1, SetDepth
<1> HIDE DEF l2
<1>8. Core(c, t)
  <2>1. l2.nCcalls = l.nCcalls + IF f.k = "call" THEN 1 ELSE 0 BY <1>1, <1>7
  <2> QED BY <1>1, <1>7, <2>1, MarkDone
<1> HIDE DEF g
<1>9. /\ Len(c) = n /\ c[n] = g /\ \A i \in 1..(n - 1) : c[i] = cs[i]
      /\ Nested(c, n) = Nested(cs, n - 1) + IF Counted(g) THEN 1 ELSE 0
      /\ Nested(cs, n) = Nested(cs, n - 1) + IF Counted(f) THEN 1 ELSE 0
      /\ Nested(cs, n - 1) \in Nat /\ Chain(c) /\ Same(cs, c, n - 1) /\ n - 1 \in Nat
  BY <1>1, <1>2, <1>3, <1>5, Setting
<1>10. Nested(c, n) = m + 1 /\ Nested(c, n - 1) = m /\ m \in Nat
  <2>1. Counted(g) /\ ~Counted(f) BY <1>1, <1>5 DEF Counted
  <2>2. n - 1 \in 0..(n - 1) BY <1>9
  <2>3. Nested(c, n - 1) = Nested(cs, n - 1) BY <1>9, <2>2, SameCounts
  <2> QED BY <1>9, <2>1, <2>3
<1>11. t[th] = l2 /\ l2.nCcalls = m + 1 /\ l2.status = "ok"
  <2>1. l.status = "ok" BY <1>1, RunsOk
  <2> QED BY <1>2, <1>6, <1>7, <2>1
<1>12. /\ l2.base <= f.func /\ f.func < l2.top /\ High(c, th, f.func)
  <2>1. l.base <= f.func /\ f.func < l.top /\ High(cs, th, f.func) BY <1>1 DEF TopOK
  <2>2. ASSUME NEW i \in 1..n, IsPcall(c[i], th) PROVE c[i].old_top <= f.func
    <3>1. i # n BY <1>5, <1>9, <2>2 DEF IsPcall
    <3>2. i \in 1..(n - 1) BY <1>2, <3>1
    <3>3. c[i] = cs[i] BY <1>9, <3>2
    <3> QED BY <2>1, <2>2, <3>3 DEF High
  <2> QED BY <1>7, <1>9, <2>1, <2>2 DEF High
<1>13. High(c, th, l2.top)
  <2>1. l2.top \in Nat BY <1>7, ThreadFields
  <2>2. f.func \in Int /\ l2.top \in Int /\ f.func <= l2.top BY <1>4, <1>12, <2>1
  <2> HIDE DEF c, t, th, f
  <2> QED BY <1>8, <1>12, <2>2, Higher
<1>14. MaxCCalls \in Nat \ {0} /\ CCallsRoom \in Nat \ {0} /\ MaxCCalls + CCallsRoom \in Nat
  BY Consts
<1>15. m < MaxCCalls + CCallsRoom BY <1>1 DEF Bounded
<1>16. IF m + 1 = MaxCCalls THEN luaG_runerror(c, t, th)
       ELSE IF m + 1 >= MaxCCalls + CCallsRoom THEN luaD_throw(c, t)
       ELSE Precall(c, t, th, f.func, f.nresults)
  <2>1. t = [thread EXCEPT ![th].nCcalls = @ + 1] BY DEF l2
  <2>2. t[th].nCcalls = m + 1 BY <1>11
  <2>3. c = SetLast(cs, [Top EXCEPT !.ph = "done"]) /\ L = th BY DEF g, L, Top
  <2> HIDE DEF c, t, m
  <2> QED BY <2>1, <2>2, <2>3 DEF CallEnters, Top, L
<1> SUFFICES Good(cs', thread') BY DEF IInv
<1>17. Len(c) >= 2 /\ th = c[Len(c)].th /\ t[th].status = "ok" /\ c[Len(c)].k = "call"
        /\ c[Len(c)].ph = "done"
  BY <1>3, <1>5, <1>9, <1>11
<1>18. m + 1 < MaxCCalls + CCallsRoom => Bounded(c) BY <1>9, <1>10 DEF Bounded
<1>19. t[th].top = l2.top /\ t[th].base = l2.base BY <1>11
<1> HIDE DEF c, t, m
<1>20. CASE m + 1 = MaxCCalls
  <2>1. luaG_runerror(c, t, th) BY <1>16, <1>20
  <2>2. Bounded(c) BY <1>14, <1>18, <1>20
  <2> QED BY <1>8, <1>13, <1>17, <1>19, <2>1, <2>2, RunError
<1>21. CASE m + 1 # MaxCCalls /\ m + 1 >= MaxCCalls + CCallsRoom
  <2>1. luaD_throw(c, t) BY <1>16, <1>21
  <2>2. /\ Core(cs', thread') /\ TopOK(cs', thread')
        /\ Nested(cs', Len(cs')) \in Nat /\ Nested(cs', Len(cs')) <= Nested(c, Len(c) - 1)
    BY <1>8, <1>17, <2>1, Throw
  <2>3. Nested(cs', Len(cs')) <= m BY <1>9, <1>10, <2>2
  <2>4. Bounded(cs') BY <1>10, <1>14, <1>15, <2>2, <2>3 DEF Bounded
  <2> QED BY <2>2, <2>4 DEF Good
<1>22. CASE m + 1 # MaxCCalls /\ ~(m + 1 >= MaxCCalls + CCallsRoom)
  <2>1. Precall(c, t, th, f.func, f.nresults) BY <1>16, <1>22
  <2>2. Bounded(c) BY <1>10, <1>14, <1>18, <1>22
  <2>3. Callable(c, t, th, f.func) BY <1>4, <1>8, <1>12, <1>17, <1>19, <2>2 DEF Callable
  <2> HIDE DEF f, th
  <2>4. CASE EnterLua(c, t, th, f.func, f.nresults) BY <1>4, <2>3, <2>4, CallsLua
  <2>5. CASE EnterC(c, t, th, f.func, f.nresults) BY <1>4, <1>17, <2>3, <2>5, CallsC
  <2> QED BY <2>1, <2>4, <2>5 DEF Precall
<1> QED BY <1>20, <1>21, <1>22

LEMMA StepCallReturns ==
  ASSUME IInv, CallReturns
  PROVE  IInv'
<1> DEFINE n == Len(cs)
           f == cs[n]
           th == f.th
           l == thread[th]
           l1 == [l EXCEPT !.nCcalls = l.nCcalls - 1]
           c == Front(cs)
           t == [thread EXCEPT ![th] = l1]
<1>1. /\ Core(cs, thread) /\ Bounded(cs) /\ f.k = "call" /\ f.ph = "done"
  BY DEF IInv, Good, CallReturns, Top
<1>2. /\ Chain(cs) /\ n \in Nat \ {0} /\ th \in Threads /\ ThreadOK(l)
      /\ thread \in [Threads -> ThreadRec] /\ f \in Activation
      /\ l.ci \in Seq(CallInfo) /\ Len(l.ci) \in Nat
  BY <1>1, Typed
<1>3. n >= 2 BY <1>1, <1>2, NotFirst
<1>4. /\ Len(c) = n - 1 /\ c[n - 1] = cs[n - 1]
      /\ Nested(cs, n - 1) \in Nat
      /\ Nested(cs, n) = Nested(cs, n - 1) + 1
      /\ Bounded(c)
  <2>1. Counted(f) BY <1>1 DEF Counted
  <2> QED BY <1>1, <1>2, <1>3, <2>1, Popped
<1>5. l.nCcalls = Nested(cs, n) /\ l.nCcalls - 1 = Nested(cs, n - 1) /\ l.nCcalls - 1 \in Nat
  <2>1. l.nCcalls = Nested(cs, n) BY <1>1 DEF Core, Depth
  <2> HIDE DEF l
  <2> QED BY <1>4, <2>1
<1>6. /\ ThreadOK(l1) /\ l1.nCcalls = Nested(cs, n - 1) /\ l1.ci = l.ci
      /\ l1.status = l.status /\ l1.baseCcalls = l.baseCcalls /\ l1.errfunc = l.errfunc
  BY <1>2, <1>5, SetDepth
<1>7. l.status = "ok" BY <1>1, RunsOk
<1>8. HandlerOK(cs, n - 1, th, l1.errfunc)
  <2>1. HandlerOK(cs, n, th, l.errfunc) BY <1>1, <1>2 DEF Core, Handlers
  <2>2. Same(cs, cs, n - 1) /\ n - 1 \in Nat /\ n \in Nat /\ n - 1 <= n /\ n - 1 <= n - 1
    BY <1>2 DEF Same
  <2>3. \A i \in (n - 1 + 1)..n : ~IsPcall(cs[i], th)
    <3>1. \A i \in (n - 1 + 1)..n : i = n BY <1>2
    <3> QED BY <1>1, <3>1 DEF IsPcall
  <2>4. \A i \in (n - 1 + 1)..(n - 1) : ~IsPcall(cs[i], th) BY <1>2
  <2> QED BY <1>6, <2>1, <2>2, <2>3, <2>4, HandlerSame
<1>9. Width(f) = 0 BY <1>1, <1>2, Widths
<1> HIDE DEF l1
<1>10. Core(c, t)
  <2>1. Len(l1.ci) = Len(l.ci) - Width(f) BY <1>2, <1>6, <1>9
  <2>2. \A m \in 1..Len(l1.ci) : l1.ci[m] = l.ci[m] BY <1>6
  <2>3. f.k # "resume" BY <1>1
  <2> QED BY <1>1, <1>3, <1>6, <1>7, <1>8, <2>1, <2>2, <2>3, Pop, ZenonT(30)
<1>11. cs' = c /\ thread' = IF cs[n - 1].k = "exec"
                            THEN [thread EXCEPT ![th] = BackInLua(l1)] ELSE t
  <2>1. L = th /\ cs' = c BY DEF CallReturns, Top, L
  <2>2. thread' = [thread EXCEPT ![L] = IF cs[Len(cs) - 1].k = "exec"
                                        THEN BackInLua(l1) ELSE l1]
    BY <2>1 DEF CallReturns, l1
  <2>3. CASE cs[n - 1].k = "exec" BY <2>1, <2>2, <2>3
  <2>4. CASE cs[n - 1].k # "exec" BY <2>1, <2>2, <2>4
  <2> QED BY <2>3, <2>4
<1>12. On(cs, n) BY <1>2, <1>3, Places
<1>13. cs[n - 1].th = th BY <1>1, <1>12 DEF On
<1> SUFFICES Good(cs', thread') BY DEF IInv
<1> HIDE DEF c
<1>14. CASE cs[n - 1].k = "exec"
  <2>1. t[th] = l1 BY <1>2
  <2>2. [t EXCEPT ![th] = BackInLua(t[th])] = [thread EXCEPT ![th] = BackInLua(l1)]
    BY <1>2, <2>1
  <2>3. c[Len(c)].k = "exec" /\ th = c[Len(c)].th BY <1>4, <1>13, <1>14
  <2> HIDE DEF t, l, th
  <2>4. Core(c, [t EXCEPT ![th] = BackInLua(t[th])])
          /\ TopOK(c, [t EXCEPT ![th] = BackInLua(t[th])])
    BY <1>10, <2>3, Back
  <2> QED BY <1>4, <1>11, <1>14, <2>2, <2>4 DEF Good
<1>15. CASE cs[n - 1].k # "exec"
  <2>1. cs[n - 1].k \in {"C", "pcall"} \/ cs[n - 1].ph = "done" BY <1>1, <1>12, <1>15 DEF On
  <2>2. TopOK(c, t) BY <1>4, <1>15, <2>1 DEF TopOK
  <2> QED BY <1>4, <1>10, <1>11, <1>15, <2>2 DEF Good
<1> QED BY <1>14, <1>15

LEMMA StepPcallReturns ==
  ASSUME IInv, PcallReturns
  PROVE  IInv'
<1> DEFINE n == Len(cs)
           f == cs[n]
           th == f.th
           l == thread[th]
           l1 == [l EXCEPT !.errfunc = f.old_errfunc]
           c == Front(cs)
           t == [thread EXCEPT ![th] = l1]
<1>1. /\ Core(cs, thread) /\ Bounded(cs) /\ f.k = "pcall"
  BY DEF IInv, Good, PcallReturns, Top
<1>2. /\ Chain(cs) /\ n \in Nat \ {0} /\ th \in Threads /\ ThreadOK(l)
      /\ thread \in [Threads -> ThreadRec] /\ f \in Activation /\ f \in Pcalls
      /\ l.ci \in Seq(CallInfo) /\ Len(l.ci) \in Nat /\ l \in ThreadRec /\ n \in 1..n
  BY <1>1, Typed
<1>3. n >= 2 BY <1>1, <1>2, NotFirst
<1>4. /\ Len(c) = n - 1 /\ c[n - 1] = cs[n - 1]
      /\ Nested(cs, n - 1) \in Nat
      /\ Nested(cs, n) = Nested(cs, n - 1)
      /\ Bounded(c)
  <2>1. ~Counted(f) BY <1>1 DEF Counted
  <2> QED BY <1>1, <1>2, <1>3, <2>1, Popped
<1>5. l.nCcalls = Nested(cs, n - 1) BY <1>1, <1>4 DEF Core, Depth
<1>6. /\ ThreadOK(l1) /\ l1.nCcalls = l.nCcalls /\ l1.ci = l.ci
      /\ l1.status = l.status /\ l1.baseCcalls = l.baseCcalls /\ l1.errfunc = f.old_errfunc
  <2>1. f.old_errfunc \in Nat BY <1>2 DEF Pcalls
  <2>2. /\ l1 \in ThreadRec /\ l1.top = l.top /\ l1.base = l.base
        /\ l1.ci = l.ci /\ l1.open = l.open /\ l1.size_ci = l.size_ci
        /\ l1.status = l.status /\ l1.nCcalls = l.nCcalls
        /\ l1.baseCcalls = l.baseCcalls /\ l1.errfunc = f.old_errfunc
    <3> HIDE DEF l, f
    <3> QED BY <1>2, <2>1 DEF ThreadRec
  <2> HIDE DEF l1
  <2>3. ThreadOK(l1) BY <1>2, <2>2, ZenonT(30) DEF ThreadOK
  <2> QED BY <2>2, <2>3
<1>7. l.status = "ok" BY <1>1, RunsOk
<1>8. HandlerOK(cs, n - 1, th, l1.errfunc) BY <1>1, <1>2, <1>6 DEF Core, Handlers
<1>9. Width(f) = 0 BY <1>1, <1>2, Widths
<1>10. cs' = c /\ thread' = t BY DEF PcallReturns, Top, L
<1> HIDE DEF l1
<1>11. Core(c, t)
  <2>1. Len(l1.ci) = Len(l.ci) - Width(f) BY <1>2, <1>6, <1>9
  <2>2. \A m \in 1..Len(l1.ci) : l1.ci[m] = l.ci[m] BY <1>6
  <2>3. f.k # "resume" BY <1>1
  <2>4. l1.nCcalls = Nested(cs, n - 1) BY <1>5, <1>6
  <2> QED BY <1>1, <1>3, <1>6, <1>7, <1>8, <2>1, <2>2, <2>3, <2>4, Pop, ZenonT(30)
<1>12. cs[n - 1].k = "C" BY <1>1, <1>2, <1>3, Places DEF On
<1>13. TopOK(c, t) BY <1>4, <1>12 DEF TopOK
<1> QED BY <1>4, <1>10, <1>11, <1>13 DEF IInv, Good

(* A throw from a state of the program. *)
LEMMA Throws ==
  ASSUME IInv, Len(cs) >= 2, luaD_throw(cs, thread)
  PROVE  IInv'
<1>1. Core(cs, thread) /\ Bounded(cs) BY DEF IInv, Good
<1>2. Chain(cs) /\ Len(cs) \in Nat \ {0} BY <1>1, Typed
<1>3. /\ Core(cs', thread') /\ TopOK(cs', thread') /\ Nested(cs', Len(cs')) \in Nat
      /\ Nested(cs', Len(cs')) <= Nested(cs, Len(cs) - 1)
  BY <1>1, Throw
<1>4. /\ Nested(cs, Len(cs) - 1) \in Nat /\ Nested(cs, Len(cs)) \in Nat
      /\ Nested(cs, Len(cs) - 1) <= Nested(cs, Len(cs))
  <2>1. Len(cs) - 1 \in Nat /\ Len(cs) \in Nat /\ Len(cs) - 1 <= Len(cs) BY <1>2
  <2> QED BY <2>1, NestedStep, NestedGrows
<1>5. MaxCCalls + CCallsRoom \in Nat BY Consts
<1>6. Nested(cs, Len(cs)) < MaxCCalls + CCallsRoom BY <1>1 DEF Bounded
<1>7. Nested(cs', Len(cs')) < MaxCCalls + CCallsRoom BY <1>3, <1>4, <1>5, <1>6
<1> QED BY <1>3, <1>7 DEF IInv, Good, Bounded

LEMMA StepHandlerCalled ==
  ASSUME IInv, HandlerCalled
  PROVE  IInv'
<1> DEFINE n == Len(cs)
           f == cs[n]
           th == f.th
           g == [f EXCEPT !.ph = "done"]
           c == SetLast(cs, g)
           l == thread[th]
           x == l.top
<1>1. /\ Core(cs, thread) /\ TopOK(cs, thread) /\ Bounded(cs)
      /\ f.k = "errormsg" /\ f.ph = "enter"
  BY DEF IInv, Good, HandlerCalled, Top
<1>2. /\ Chain(cs) /\ n \in Nat \ {0} /\ th \in Threads /\ ThreadOK(l)
      /\ thread \in [Threads -> ThreadRec] /\ f \in Activation /\ l \in ThreadRec
  BY <1>1, Typed
<1>3. n >= 2 BY <1>1, <1>2, NotFirst
<1>4. CASE luaD_throw(cs, thread) BY <1>3, <1>4, Throws
<1>5. CASE /\ cs' = Append(c, CallFrame(th, x - 1, 1))
           /\ thread' = [thread EXCEPT ![th].top = @ + 1]
  <2>1. g \in Activation /\ g.k = "errormsg" /\ g.th = th /\ g.ph = "done"
    <3>1. f \in ErrorMsgs BY <1>1, <1>2, Kinds
    <3>2. g \in ErrorMsgs /\ g.k = "errormsg" /\ g.th = th /\ g.ph = "done"
      BY <3>1 DEF ErrorMsgs, Phases
    <3> QED BY <3>2 DEF Activation
  <2>2. [thread EXCEPT ![th] = l] = thread BY <1>2
  <2>3. Core(c, thread)
    <3>1. l.nCcalls \in Nat BY <1>2 DEF ThreadRec
    <3>2. l.nCcalls = l.nCcalls + IF f.k = "call" THEN 1 ELSE 0 BY <1>1, <3>1
    <3>3. Alike([l EXCEPT !.nCcalls = l.nCcalls], l) BY <1>2 DEF Alike, ThreadRec
    <3>4. Core(c, [thread EXCEPT ![th] = l]) BY <1>1, <1>2, <3>2, <3>3, MarkDone
    <3> QED BY <2>2, <3>4
  <2> HIDE DEF g
  <2>4. /\ Len(c) = n /\ c[n] = g /\ \A i \in 1..(n - 1) : c[i] = cs[i]
        /\ Nested(c, n) = Nested(cs, n - 1) + IF Counted(g) THEN 1 ELSE 0
        /\ Nested(cs, n) = Nested(cs, n - 1) + IF Counted(f) THEN 1 ELSE 0
    BY <1>1, <1>2, <1>3, <2>1, Setting
  <2>5. Bounded(c)
    <3>1. ~Counted(g) /\ ~Counted(f) BY <1>1, <2>1 DEF Counted
    <3> QED BY <1>1, <2>4, <3>1 DEF Bounded
  <2>6. l.base < x /\ High(cs, th, x - 1) BY <1>1 DEF TopOK
  <2>7. High(c, th, x - 1)
    <3> SUFFICES ASSUME NEW i \in 1..n, IsPcall(c[i], th) PROVE c[i].old_top <= x - 1
      BY <2>4 DEF High
    <3>1. i # n BY <2>1, <2>4 DEF IsPcall
    <3>2. i \in 1..(n - 1) BY <1>2, <3>1
    <3>3. c[i] = cs[i] BY <2>4, <3>2
    <3> QED BY <2>6, <3>3 DEF High
  <2>8. l.base \in Nat /\ x \in Nat BY <1>2, ThreadFields
  <2>9. x - 1 \in Nat /\ l.base <= x - 1 /\ x + 1 \in Nat /\ x - 1 < x + 1
    <3> HIDE DEF x, l
    <3> QED BY <2>6, <2>8
  <2>10. l.status = "ok" BY <1>1, RunsOk
  <2>11. thread' = [thread EXCEPT ![th].top = x + 1] BY <1>5
  <2>12. th = c[Len(c)].th /\ Len(c) >= 2 /\ c[Len(c)].k = "errormsg" /\ c[Len(c)].ph = "done"
    BY <1>3, <2>1, <2>4
  <2> HIDE DEF c, x, th
  <2>13. Good(Append(c, CallFrame(th, x - 1, 1)), [thread EXCEPT ![th].top = x + 1])
    BY <2>3, <2>5, <2>7, <2>9, <2>10, <2>12, PushCall
  <2> QED BY <1>5, <2>11, <2>13 DEF IInv
<1>6. luaD_throw(cs, thread) \/ (/\ cs' = Append(c, CallFrame(th, x - 1, 1))
                                 /\ thread' = [thread EXCEPT ![th].top = @ + 1])
  BY SMTT(30) DEF HandlerCalled, Top, L
<1> QED BY <1>4, <1>5, <1>6

LEMMA StepHandlerReturns ==
  ASSUME IInv, HandlerReturns
  PROVE  IInv'
<1>1. Core(cs, thread) /\ cs[Len(cs)].k = "errormsg" /\ luaD_throw(cs, thread)
  BY DEF IInv, Good, HandlerReturns, Top
<1>2. Len(cs) >= 2 BY <1>1, Typed, NotFirst, SMTT(30)
<1> QED BY <1>1, <1>2, Throws

------------------------------------------------------------------------------
(* The steps of the interpreter *)

(* What the interpreter has when it runs. *)
LEMMA Interprets ==
  ASSUME IInv, Running
  PROVE  LET n == Len(cs)
             l == thread[L]
         IN /\ Core(cs, thread) /\ Bounded(cs) /\ Chain(cs) /\ n \in Nat /\ n >= 2
            /\ cs[n].k = "exec" /\ L = cs[n].th /\ L \in Threads /\ ThreadOK(l)
            /\ thread \in [Threads -> ThreadRec] /\ l \in ThreadRec
            /\ l.status = "ok" /\ l.top = l.base + Registers
            /\ l.base \in Nat /\ l.top \in Nat /\ Here.base = l.base /\ Here.lua
            /\ Here = l.ci[Len(l.ci)] /\ FrameTop(Here) = l.top
            /\ \A i \in 1..n : IsPcall(cs[i], L) => cs[i].old_top < l.base
<1> DEFINE n == Len(cs)
           l == thread[L]
<1>1. /\ Core(cs, thread) /\ Bounded(cs) /\ TopOK(cs, thread) /\ cs[n].k = "exec"
      /\ L = cs[n].th
  BY DEF IInv, Good, Running, Top, L
<1>2. /\ Chain(cs) /\ n \in Nat /\ L \in Threads /\ ThreadOK(l)
      /\ thread \in [Threads -> ThreadRec] /\ l \in ThreadRec
  BY <1>1, Typed
<1>3. n >= 2 BY <1>1, <1>2, NotFirst
<1>4. l.status = "ok" BY <1>1, RunsOk
<1>5. Here = l.ci[Len(l.ci)] BY DEF Here, Last
<1>6. Here.lua BY <1>1, <1>4, <1>5, LastEntry
<1>7. Here.base = l.base /\ l.base \in Nat /\ l.top \in Nat BY <1>2, <1>5, ThreadFields
<1>8. l.top = l.base + Registers BY <1>1 DEF TopOK
<1>9. FrameTop(Here) = l.top BY <1>7, <1>8 DEF FrameTop
<1>10. \A i \in 1..n : IsPcall(cs[i], L) => cs[i].old_top < l.base BY <1>1, FrameHigh
<1> QED BY <1>1, <1>2, <1>3, <1>4, <1>5, <1>6, <1>7, <1>8, <1>9, <1>10

LEMMA HighUp ==
  ASSUME NEW c, NEW t, Core(c, t), NEW th, NEW x \in Nat, NEW y \in Nat, x <= y,
         \A i \in 1..Len(c) : IsPcall(c[i], th) => c[i].old_top < x
  PROVE  High(c, th, y)
<1> SUFFICES ASSUME NEW i \in 1..Len(c), IsPcall(c[i], th) PROVE c[i].old_top <= y
  BY DEF High
<1>1. c[i] \in Pcalls BY Typed DEF IsPcall
<1>2. c[i].old_top \in Nat BY <1>1 DEF Pcalls
<1> QED BY <1>2

(* Nothing changes but levels and upvalues of the thread that runs. *)
LEMMA Stays ==
  ASSUME IInv, cs' = cs, NEW l2, thread' = [thread EXCEPT ![L] = l2],
         ThreadOK(l2), Alike(thread[L], l2),
         cs[Len(cs)].k = "exec" => l2.top = l2.base + Registers,
         cs[Len(cs)].k \in {"exec", "C"}
  PROVE  IInv'
<1>1. Core(cs, thread) /\ Bounded(cs) /\ L = cs[Len(cs)].th
  BY DEF IInv, Good, Top, L
<1>2. L \in Threads /\ thread \in [Threads -> ThreadRec] BY <1>1, Typed
<1> DEFINE t == [thread EXCEPT ![L] = l2]
<1>3. t[L] = l2 BY <1>2
<1>4. Core(cs, t) BY <1>1, <1>2, SameStack
<1> HIDE DEF t
<1>5. TopOK(cs, t) BY <1>1, <1>3 DEF TopOK
<1>6. cs' = cs /\ thread' = t BY DEF t
<1> QED BY <1>1, <1>4, <1>5, <1>6 DEF IInv, Good

LEMMA StepOP_CALL ==
  ASSUME IInv, OP_CALL
  PROVE  IInv'
<1> DEFINE n == Len(cs)
           l == thread[L]
           x == l.base + Registers
           func == l.base + Registers - 1
           t == [thread EXCEPT ![L].top = x]
           l2 == [l EXCEPT !.top = x]
<1>1. /\ Core(cs, thread) /\ Bounded(cs) /\ n \in Nat /\ n >= 2
      /\ cs[n].k = "exec" /\ L = cs[n].th /\ L \in Threads /\ ThreadOK(l)
      /\ thread \in [Threads -> ThreadRec] /\ l.status = "ok"
      /\ l.base \in Nat /\ Here.base = l.base
      /\ \A i \in 1..n : IsPcall(cs[i], L) => cs[i].old_top < l.base
  BY Interprets DEF OP_CALL
<1>2. func \in Nat /\ l.base <= func /\ x \in Nat /\ func < x /\ func + 1 = x /\ l.base <= x
  <2>1. l.base \in Nat BY <1>1
  <2> HIDE DEF l
  <2> QED BY <2>1 DEF Registers
<1>3. ThreadOK(l2) /\ Alike(l, l2) /\ l2.top = x /\ l2.base = l.base BY <1>1, <1>2, SetTop
<1>4. t = [thread EXCEPT ![L] = l2] /\ t[L] = l2 BY <1>1
<1>5. Core(cs, t) BY <1>1, <1>3, <1>4, SameStack
<1>6. High(cs, L, func) BY <1>1, <1>2, HighUp
<1>7. Precall(cs, t, L, func, 1)
  <2>1. CallReg = func BY <1>1 DEF CallReg
  <2>2. Precall(cs, [thread EXCEPT ![L].top = CallReg + 1], L, CallReg, 1) BY DEF OP_CALL
  <2>3. CallReg + 1 = x BY <1>2, <2>1
  <2> HIDE DEF x, func
  <2> QED BY <2>1, <2>2, <2>3
<1>8. t[L].status = "ok" /\ t[L].base <= func /\ func < t[L].top
  BY <1>1, <1>2, <1>3, <1>4 DEF Alike
<1> HIDE DEF t, l, func
<1>9. Callable(cs, t, L, func) BY <1>1, <1>2, <1>5, <1>6, <1>8 DEF Callable
<1>10. 1 \in {MULTRET, 0, 1} /\ cs[Len(cs)].k \in {"exec", "call"} BY <1>1
<1>11. CASE EnterLua(cs, t, L, func, 1) BY <1>9, <1>10, <1>11, CallsLua DEF IInv
<1>12. CASE EnterC(cs, t, L, func, 1) BY <1>9, <1>10, <1>12, CallsC DEF IInv
<1> QED BY <1>7, <1>11, <1>12 DEF Precall

LEMMA StepOP_TAILCALL ==
  ASSUME IInv, OP_TAILCALL
  PROVE  IInv'
<1> DEFINE n == Len(cs)
           l == thread[L]
           x == l.base + Registers
           l1 == [l EXCEPT !.top = x]
           t == [thread EXCEPT ![L] = l1]
           closed == luaF_close(l, l.base)
           l2 == [closed EXCEPT !.top = x]
           l3 == [l2 EXCEPT !.size_ci = growCI(l1).size_ci]
<1>1. /\ Core(cs, thread) /\ Bounded(cs) /\ n \in Nat /\ n >= 2
      /\ cs[n].k = "exec" /\ L = cs[n].th /\ L \in Threads /\ ThreadOK(l)
      /\ thread \in [Threads -> ThreadRec] /\ l.status = "ok"
      /\ l.base \in Nat /\ Here.base = l.base
      /\ FrameTop(Here) = l.top /\ l.top = l.base + Registers
      /\ \A i \in 1..n : IsPcall(cs[i], L) => cs[i].old_top < l.base
  BY Interprets DEF OP_TAILCALL
<1>2. x \in Nat /\ l.base <= x
  <2>1. l.base \in Nat BY <1>1
  <2> HIDE DEF l
  <2> QED BY <2>1 DEF Registers
<1>3. ThreadOK(l1) /\ Alike(l, l1) /\ l1.top = x /\ l1.base = l.base /\ l1.ci = l.ci
        /\ l1.size_ci = l.size_ci
  BY <1>1, <1>2, SetTop
<1>4. /\ ThreadOK(l2) /\ Alike(l, l2) /\ l2.top = x /\ l2.base = l.base /\ l2.ci = l.ci
  <2>1. ThreadOK(closed) /\ Alike(l, closed) /\ closed.base = l.base /\ closed.ci = l.ci
    BY <1>1, Closed
  <2> HIDE DEF closed
  <2>2. closed.base <= x BY <1>2, <2>1
  <2>3. ThreadOK(l2) /\ Alike(closed, l2) /\ l2.top = x /\ l2.base = closed.base
          /\ l2.ci = closed.ci
    BY <1>2, <2>1, <2>2, SetTop
  <2> HIDE DEF l2
  <2> QED BY <2>1, <2>3 DEF Alike
<1>5. luaD_precall(cs, t, L, cs, l2)
  <2>1. CallReg + 1 = x
    <3>1. CallReg = l.base + Registers - 1 BY <1>1 DEF CallReg
    <3>2. l.base \in Nat BY <1>1
    <3> HIDE DEF l
    <3> QED BY <3>1, <3>2 DEF Registers
  <2>2. luaD_precall(cs, [thread EXCEPT ![L].top = CallReg + 1], L, cs,
                     [luaF_close(thread[L], Here.base) EXCEPT !.top = FrameTop(Here)])
    BY DEF OP_TAILCALL
  <2>3. FrameTop(Here) = x /\ Here.base = l.base BY <1>1
  <2>4. [thread EXCEPT ![L].top = x] = t OBVIOUS
  <2> HIDE DEF x
  <2> QED BY <2>1, <2>2, <2>3, <2>4
<1>6. t[L] = l1 /\ l1.status = "ok" BY <1>1, <1>3 DEF Alike
<1> HIDE DEF l1, l2
<1>7. CASE inc_ci(l1) /\ (l1.size_ci > MaxCalls \/ 2 * l1.size_ci > MaxCalls)
  <2>1. Core(cs, t) BY <1>1, <1>3, SameStack
  <2>2. High(cs, L, l1.top) BY <1>1, <1>2, <1>3, HighUp
  <2> HIDE DEF t
  <2>3. Good(cs', thread') BY <1>1, <1>5, <1>6, <1>7, <2>1, <2>2, Overflows
  <2> QED BY <2>3 DEF IInv
<1>8. CASE ~(inc_ci(l1) /\ (l1.size_ci > MaxCalls \/ 2 * l1.size_ci > MaxCalls))
  <2>1. cs' = cs /\ thread' = [t EXCEPT ![L] = l3] BY <1>5, <1>6, <1>8 DEF luaD_precall
  <2>2. thread' = [thread EXCEPT ![L] = l3]
    <3> HIDE DEF l3
    <3> QED BY <1>1, <2>1
  <2>3. /\ growCI(l1).size_ci \in Nat /\ growCI(l1).size_ci <= 2 * MaxCalls
        /\ Len(l1.ci) + 1 <= growCI(l1).size_ci
    BY <1>3, <1>8, Grown
  <2>4. Len(l2.ci) <= growCI(l1).size_ci
    <3>1. Len(l2.ci) \in Nat BY <1>4, ThreadFields
    <3>2. l1.ci = l2.ci BY <1>3, <1>4
    <3> HIDE DEF l3
    <3> QED BY <2>3, <3>1, <3>2
  <2> DEFINE s == growCI(l1).size_ci
  <2> HIDE DEF s
  <2>5. l2 \in ThreadRec BY <1>4 DEF ThreadOK
  <2>6. s \in Nat /\ s <= 2 * MaxCalls /\ Len(l2.ci) <= s BY <2>3, <2>4 DEF s
  <2>7. l3 = [l2 EXCEPT !.size_ci = s] BY DEF s
  <2> HIDE DEF l3
  <2>8. /\ l3 \in ThreadRec /\ l3.top = l2.top /\ l3.base = l2.base
        /\ l3.ci = l2.ci /\ l3.open = l2.open /\ l3.size_ci = s
        /\ l3.status = l2.status /\ l3.nCcalls = l2.nCcalls
        /\ l3.baseCcalls = l2.baseCcalls /\ l3.errfunc = l2.errfunc
    BY <2>5, <2>6, <2>7 DEF ThreadRec
  <2>9. ThreadOK(l3) BY <1>4, <2>6, <2>8 DEF ThreadOK
  <2>10. Alike(l, l3) BY <1>4, <2>8 DEF Alike
  <2>11. l3.top = l3.base + Registers BY <1>4, <2>8
  <2> QED BY <1>1, <2>1, <2>2, <2>9, <2>10, <2>11, Stays
<1> QED BY <1>7, <1>8

LEMMA StepCallsMetamethod ==
  ASSUME IInv, CallsMetamethod
  PROVE  IInv'
<1> DEFINE n == Len(cs)
           l == thread[L]
           func == l.top
           x == l.top + 1
<1>1. /\ Core(cs, thread) /\ Bounded(cs) /\ n >= 2
      /\ cs[n].k = "exec" /\ L = cs[n].th /\ l.status = "ok"
      /\ l.base \in Nat /\ l.top \in Nat /\ l.top = l.base + Registers
      /\ FrameTop(Here) = l.top
      /\ \A i \in 1..n : IsPcall(cs[i], L) => cs[i].old_top < l.base
  BY Interprets DEF CallsMetamethod
<1>2. l.base <= func /\ func \in Nat /\ x \in Nat /\ func < x
  <2>1. l.base \in Nat /\ l.top \in Nat /\ l.top = l.base + Registers BY <1>1
  <2> HIDE DEF l
  <2> QED BY <2>1 DEF Registers
<1>3. High(cs, L, func) BY <1>1, <1>2, HighUp
<1>4. cs' = Append(cs, CallFrame(L, func, 1)) /\ thread' = [thread EXCEPT ![L].top = x]
  BY <1>1 DEF CallsMetamethod
<1>5. 1 \in {MULTRET, 0, 1} OBVIOUS
<1> HIDE DEF func, x
<1>6. Good(Append(cs, CallFrame(L, func, 1)), [thread EXCEPT ![L].top = x])
  BY <1>1, <1>2, <1>3, <1>5, PushCall
<1> QED BY <1>4, <1>6 DEF IInv

LEMMA StepOP_CLOSURE ==
  ASSUME IInv, OP_CLOSURE
  PROVE  IInv'
<1> DEFINE l == thread[L]
           b == l.base
           opens == l.open \cup {b}
           l2 == [l EXCEPT !.open = opens]
<1>1. /\ cs[Len(cs)].k = "exec" /\ L \in Threads /\ ThreadOK(l) /\ l \in ThreadRec
      /\ l.top = l.base + Registers /\ l.base \in Nat /\ Here.base = l.base /\ Here.lua
      /\ Here = l.ci[Len(l.ci)] /\ thread \in [Threads -> ThreadRec]
  BY Interprets DEF OP_CLOSURE
<1>2. cs' = cs /\ thread' = [thread EXCEPT ![L] = l2] BY <1>1 DEF OP_CLOSURE
<1>3. opens \in SUBSET Nat BY <1>1, ThreadFields
<1>4. Len(l.ci) \in 1..Len(l.ci) BY <1>1, ThreadFields
<1>5. \A u \in opens : \E i \in 1..Len(l.ci) :
        l.ci[i].lua /\ l.ci[i].base <= u /\ u < l.ci[i].base + Registers
  <2> TAKE u \in opens
  <2>1. CASE u \in l.open BY <1>1, <2>1 DEF ThreadOK
  <2>2. CASE u = b
    <3>1. b <= b /\ b < b + Registers
      <4>1. b \in Nat BY <1>1
      <4> HIDE DEF b
      <4> QED BY <4>1 DEF Registers
    <3>2. l.ci[Len(l.ci)].lua /\ l.ci[Len(l.ci)].base = b BY <1>1
    <3> QED BY <1>4, <2>2, <3>1, <3>2
  <2> QED BY <2>1, <2>2
<1> HIDE DEF opens
<1>6. /\ l2 \in ThreadRec /\ l2.top = l.top /\ l2.base = l.base
      /\ l2.ci = l.ci /\ l2.open = opens /\ l2.size_ci = l.size_ci
      /\ l2.status = l.status /\ l2.nCcalls = l.nCcalls
      /\ l2.baseCcalls = l.baseCcalls /\ l2.errfunc = l.errfunc
  <2> HIDE DEF l
  <2> QED BY <1>1, <1>3 DEF ThreadRec
<1> HIDE DEF l2
<1>7. ThreadOK(l2) BY <1>1, <1>5, <1>6 DEF ThreadOK
<1>8. Alike(l, l2) /\ l2.top = l2.base + Registers BY <1>1, <1>6 DEF Alike
<1> QED BY <1>1, <1>2, <1>7, <1>8, Stays

LEMMA StepOP_CLOSE ==
  ASSUME IInv, OP_CLOSE
  PROVE  IInv'
<1> DEFINE l == thread[L]
           l2 == luaF_close(l, l.base)
<1>1. /\ cs[Len(cs)].k = "exec" /\ L \in Threads /\ ThreadOK(l)
      /\ l.top = l.base + Registers /\ Here.base = l.base
      /\ thread \in [Threads -> ThreadRec]
  BY Interprets DEF OP_CLOSE
<1>2. cs' = cs /\ thread' = [thread EXCEPT ![L] = l2] BY <1>1 DEF OP_CLOSE
<1>3. ThreadOK(l2) /\ Alike(l, l2) /\ l2.top = l.top /\ l2.base = l.base BY <1>1, Closed
<1> HIDE DEF l2
<1>4. l2.top = l2.base + Registers BY <1>1, <1>3
<1> QED BY <1>1, <1>2, <1>3, <1>4, Stays

LEMMA StepRaisesError ==
  ASSUME IInv, RaisesError
  PROVE  IInv'
<1> DEFINE l == thread[L]
<1>1. /\ Core(cs, thread) /\ Bounded(cs) /\ Len(cs) >= 2
      /\ cs[Len(cs)].k = "exec" /\ L = cs[Len(cs)].th /\ l.status = "ok"
      /\ l.base \in Nat /\ l.top \in Nat /\ l.top = l.base + Registers
      /\ \A i \in 1..Len(cs) : IsPcall(cs[i], L) => cs[i].old_top < l.base
  BY Interprets DEF RaisesError
<1>2. l.base <= l.top
  <2>1. l.base \in Nat /\ l.top = l.base + Registers BY <1>1
  <2> HIDE DEF l
  <2> QED BY <2>1 DEF Registers
<1>3. High(cs, L, l.top) BY <1>1, <1>2, HighUp
<1>4. luaG_runerror(cs, thread, L) BY DEF RaisesError
<1>5. Good(cs', thread') BY <1>1, <1>3, <1>4, RunError
<1> QED BY <1>5 DEF IInv

(* The handler stays when an activation that is no protected call ends. *)
LEMMA HandlerBelow ==
  ASSUME NEW c, NEW t, Core(c, t), NEW n, n = Len(c), n >= 2, c[n].k # "pcall", NEW th \in Threads
  PROVE  HandlerOK(c, n - 1, th, t[th].errfunc)
<1>1. n \in Nat BY Typed
<1>2. HandlerOK(c, n, th, t[th].errfunc) BY DEF Core, Handlers
<1>3. Same(c, c, n - 1) /\ n - 1 \in Nat /\ n \in Nat /\ n - 1 <= n /\ n - 1 <= n - 1
  BY <1>1 DEF Same
<1>4. \A i \in (n - 1 + 1)..n : ~IsPcall(c[i], th)
  <2>1. \A i \in (n - 1 + 1)..n : i = n BY <1>1
  <2> QED BY <2>1 DEF IsPcall
<1>5. \A i \in (n - 1 + 1)..(n - 1) : ~IsPcall(c[i], th) BY <1>1
<1> QED BY <1>2, <1>3, <1>4, <1>5, HandlerSame

(* One entry less leaves what is below an activation of at least one entry. *)
LEMMA OneOff ==
  ASSUME NEW below \in Nat, NEW width \in Nat \ {0}, NEW all, all = below + width,
         NEW rest, rest = all - 1
  PROVE  below <= rest /\ rest <= all
OBVIOUS

(* A Lua function ends, and its caller runs in the same activation. *)
LEMMA ReturnsInside ==
  ASSUME NEW c, NEW t, Core(c, t), Bounded(c), NEW f, f = c[Len(c)], f.k = "exec",
         f.nexeccalls # 1, NEW th, th = f.th, NEW r, ThreadOK(r),
         r.status = "ok", r.nCcalls = t[th].nCcalls,
         r.baseCcalls = t[th].baseCcalls, r.errfunc = t[th].errfunc,
         Len(r.ci) = Len(t[th].ci) - 1, \A m \in 1..Len(r.ci) : r.ci[m] = t[th].ci[m]
  PROVE  Good(SetLast(c, [f EXCEPT !.nexeccalls = @ - 1]),
              [t EXCEPT ![th] = BackInLua(r)])
<1> DEFINE n == Len(c)
           ci == t[th].ci
           w == f.nexeccalls
           g == [f EXCEPT !.nexeccalls = w - 1]
           d == SetLast(c, g)
           t2 == [t EXCEPT ![th] = r]
<1>1. /\ Chain(c) /\ c \in Seq(Activation) /\ n \in Nat \ {0} /\ f \in Activation
      /\ th \in Threads /\ ci \in Seq(CallInfo) /\ Len(ci) \in Nat
      /\ t \in [Threads -> ThreadRec]
  BY Typed
<1>2. n >= 2 BY <1>1, NotFirst
<1>3. /\ Entries(c, th, n - 1) \in Nat \ {0} /\ Len(ci) = Entries(c, th, n - 1) + Width(f)
  BY <1>2, LowerEntry
<1>4. f \in Execs /\ w \in Nat \ {0} /\ Width(f) = w
  <2>1. f \in Execs BY <1>1, Kinds
  <2> QED BY <2>1 DEF Execs, Width
<1>5. g \in Activation /\ g.k = "exec" /\ g.th = th /\ Width(g) = w - 1 /\ w - 1 \in Nat \ {0}
  <2>1. w - 1 \in Nat \ {0}
    <3> HIDE DEF w
    <3>1. w \in Nat \ {0} /\ w # 1 BY <1>4 DEF w
    <3> QED BY <3>1
  <2>2. g \in Execs /\ g.k = "exec" /\ g.th = th /\ g.nexeccalls = w - 1
    BY <1>4, <2>1 DEF Execs
  <2>3. g \in Activation BY <2>2 DEF Activation
  <2> QED BY <2>1, <2>2, <2>3 DEF Width
<1>6. g = [f EXCEPT !.nexeccalls = @ - 1] OBVIOUS
<1>7. ~Counted(g) /\ ~Counted(f) BY <1>5 DEF Counted
<1> HIDE DEF g, w
<1>8. /\ Len(d) = n /\ d[n] = g
      /\ Nested(d, n) = Nested(c, n - 1) + IF Counted(g) THEN 1 ELSE 0
      /\ Nested(c, n) = Nested(c, n - 1) + IF Counted(f) THEN 1 ELSE 0
  BY <1>1, <1>2, <1>5, Setting
<1>9. Bounded(d) BY <1>7, <1>8 DEF Bounded
<1>10. r.ci \in Seq(CallInfo) /\ Len(r.ci) \in Nat BY ThreadFields
<1>11. Matches(d, r.ci, th)
  <2>1. Matches(c, ci, th) BY RunsOk
  <2>2. Len(r.ci) = Len(ci) - Width(f) + Width(g)
    <3>1. Len(r.ci) = Len(ci) - 1 OBVIOUS
    <3> HIDE DEF ci
    <3> QED BY <1>1, <1>4, <1>5, <3>1
  <2>3. \A m \in 1..(Len(ci) - Width(f)) : r.ci[m].lua <=> ci[m].lua
    <3>1. \A m \in 1..(Len(ci) - Width(f)) : m \in 1..Len(r.ci)
      <4> HIDE DEF ci
      <4> QED BY <1>1, <1>4, <1>5, <2>2
    <3> QED BY <3>1, ZenonT(30)
  <2>4. \A m \in (Len(ci) - Width(f) + 1)..Len(r.ci) : r.ci[m].lua <=> g.k = "exec"
    <3> SUFFICES ASSUME NEW m \in (Len(ci) - Width(f) + 1)..Len(r.ci) PROVE r.ci[m].lua
      BY <1>5
    <3>1. m \in 1..Len(r.ci) /\ m \in 1..Len(ci) /\ Entries(c, th, n) - Width(f) < m
            /\ m <= Entries(c, th, n) /\ n \in 1..n
      <4>1. Entries(c, th, n) = Len(ci) BY <2>1 DEF Matches
      <4>2. Len(ci) - Width(f) \in Nat
        <5>1. Len(ci) = Entries(c, th, n - 1) + Width(f) BY <1>3
        <5> HIDE DEF ci
        <5> QED BY <1>3, <1>4, <5>1
      <4> HIDE DEF ci
      <4> QED BY <1>1, <1>4, <1>5, <2>2, <4>1, <4>2, SMTT(30)
    <3>2. ci[m].lua BY <2>1, <3>1 DEF Matches
    <3> QED BY <3>1, <3>2
  <2> HIDE DEF ci
  <2> QED BY <1>1, <1>2, <1>5, <2>1, <2>2, <2>3, <2>4, MatchSet
<1>12. \A i \in 1..(n - 1) : c[i].th = th => PcallAt(c, t2, i)
  <2> SUFFICES ASSUME NEW i \in 1..(n - 1), c[i].th = th PROVE PcallAt(c, t2, i) OBVIOUS
  <2>1. i \in 1..n /\ i < n BY <1>1
  <2>2. PcallAt(c, t, i) BY <2>1 DEF Core, PcallsOK
  <2>3. t2[th] = r BY <1>1
  <2>4. ASSUME c[i].k = "pcall"
        PROVE  /\ c[i].old_ci \in Nat \ {0} /\ c[i].old_ci <= Len(r.ci)
               /\ \A m \in 1..Len(r.ci) : m <= Len(ci) /\ r.ci[m].base = ci[m].base
    <3>1. c[i].old_ci \in Nat \ {0}
      <4>1. c[i] \in Pcalls BY <2>1, <2>4, Typed
      <4> QED BY <4>1 DEF Pcalls
    <3>2. c[i].old_ci <= Entries(c, th, n - 1)
      <4>1. IsPcall(c[i], th) /\ c[n].k # "resume" BY <2>4 DEF IsPcall
      <4> QED BY <1>2, <2>1, <4>1, Above
    <3>3. Len(r.ci) = Len(ci) - 1 OBVIOUS
    <3>4. Entries(c, th, n - 1) <= Len(r.ci) /\ Len(r.ci) <= Len(ci)
      <4>1. Entries(c, th, n - 1) \in Nat /\ Width(f) \in Nat \ {0} BY <1>3, <1>4
      <4>2. Len(ci) = Entries(c, th, n - 1) + Width(f) BY <1>3
      <4> HIDE DEF ci, n, w, g, d, t2
      <4> QED BY <3>3, <4>1, <4>2, OneOff
    <3>5. \A m \in 1..Len(r.ci) : m <= Len(ci)
      <4> HIDE DEF ci
      <4> QED BY <1>1, <1>10, <3>4
    <3>6. c[i].old_ci <= Len(r.ci)
      <4> HIDE DEF ci
      <4> QED BY <1>3, <1>10, <3>1, <3>2, <3>4, SMTT(30)
    <3>7. \A m \in 1..Len(r.ci) : r.ci[m].base = ci[m].base OBVIOUS
    <3> QED BY <3>1, <3>5, <3>6, <3>7
  <2>5. ASSUME c[i].k = "pcall"
        PROVE  /\ Len(ci) \in Nat /\ Len(r.ci) \in Nat /\ c[i].old_ci \in Nat \ {0}
               /\ c[i].old_ci <= Len(r.ci)
               /\ \A m \in 1..Len(r.ci) :
                    IF m <= Len(ci) THEN r.ci[m].base = ci[m].base
                    ELSE c[i].old_top < r.ci[m].base
    BY <1>1, <1>10, <2>4, <2>5
  <2>6. t[c[i].th].ci = ci /\ t2[c[i].th].ci = r.ci BY <2>3
  <2> HIDE DEF t2, ci
  <2> QED BY <2>2, <2>5, <2>6, PcallKept, ZenonT(30)
<1>13. Core(d, t2)
  <2>1. c[n].k # "resume" /\ c[n].k # "pcall" /\ g.k = c[n].k /\ (Counted(g) <=> Counted(c[n]))
    BY <1>5, <1>7
  <2> HIDE DEF d, t2, ci
  <2> QED BY <1>2, <1>5, <1>11, <1>12, <2>1, SetAny DEF d, t2
<1>14. t2[th] = r /\ [t2 EXCEPT ![th] = BackInLua(r)] = [t EXCEPT ![th] = BackInLua(r)]
  BY <1>1
<1> HIDE DEF d, t2
<1>15. LET t3 == [t2 EXCEPT ![th] = BackInLua(t2[th])] IN Core(d, t3) /\ TopOK(d, t3)
  BY <1>5, <1>8, <1>13, Back
<1> QED BY <1>6, <1>9, <1>14, <1>15 DEF Good, d

LEMMA StepOP_RETURN ==
  ASSUME IInv, OP_RETURN
  PROVE  IInv'
<1> DEFINE n == Len(cs)
           f == cs[n]
           th == f.th
           l == thread[th]
           b == l.base
<1>1. /\ Core(cs, thread) /\ Bounded(cs) /\ n \in Nat /\ n >= 2 /\ Chain(cs)
      /\ f.k = "exec" /\ L = th /\ th \in Threads /\ ThreadOK(l) /\ l.status = "ok"
      /\ b \in Nat /\ Here.base = b
  BY Interprets DEF OP_RETURN
<1>2. PICK m \in 0..1 :
        LET l1 == [luaF_close(thread[L], Here.base) EXCEPT !.top = Here.base + m]
            r == luaD_poscall(l1, Here.base)
        IN IF Top.nexeccalls = 1
           THEN cs' = Front(cs) /\ thread' = [thread EXCEPT ![L] = r]
           ELSE /\ cs' = SetLast(cs, [Top EXCEPT !.nexeccalls = @ - 1])
                /\ thread' = [thread EXCEPT ![L] = BackInLua(r)]
  BY DEF OP_RETURN
<1> DEFINE closed == luaF_close(l, b)
           x == b + m
           l1 == [closed EXCEPT !.top = x]
           r == luaD_poscall(l1, b)
<1>3. IF f.nexeccalls = 1 THEN cs' = Front(cs) /\ thread' = [thread EXCEPT ![th] = r]
      ELSE /\ cs' = SetLast(cs, [f EXCEPT !.nexeccalls = @ - 1])
           /\ thread' = [thread EXCEPT ![th] = BackInLua(r)]
  <2>1. Top = f BY DEF Top
  <2> QED BY <1>1, <1>2, <2>1
<1>4. x \in Nat /\ b <= x
  <2> HIDE DEF b
  <2> QED BY <1>1
<1>5. /\ ThreadOK(closed) /\ Alike(l, closed) /\ closed.base = b /\ closed.ci = l.ci
      /\ closed.open = {u \in l.open : u < b}
  BY <1>1, Closed
<1> HIDE DEF closed, x
<1>6. /\ ThreadOK(l1) /\ Alike(closed, l1) /\ l1.top = x /\ l1.base = b
      /\ l1.ci = l.ci /\ l1.open = {u \in l.open : u < b}
  BY <1>4, <1>5, SetTop, SMTT(30)
<1>7. Alike(l, l1) BY <1>5, <1>6 DEF Alike
<1> HIDE DEF l1
<1>8. /\ Len(l.ci) \in Nat \ {0} /\ l.ci[Len(l.ci)].base = b /\ l.open \subseteq Nat
  BY <1>1, ThreadFields
<1>9. /\ Entries(cs, th, n - 1) \in Nat \ {0} /\ Len(l.ci) = Entries(cs, th, n - 1) + Width(f)
      /\ Width(f) \in Nat \ {0}
  <2>1. f.k # "resume" BY <1>1
  <2>2. Width(f) \in Nat /\ Width(f) >= 1 BY <1>1, Typed, Widths
  <2> QED BY <1>1, <2>1, <2>2, LowerEntry
<1>10. Len(l1.ci) >= 2
  <2>1. Len(l1.ci) = Entries(cs, th, n - 1) + Width(f) BY <1>6, <1>9, SMTT(30)
  <2> HIDE DEF l, th, f
  <2> QED BY <1>9, <2>1
<1>11. \A u \in l1.open : ~(l1.ci[Len(l1.ci)].lua /\ l1.ci[Len(l1.ci)].base <= u)
  <2> SUFFICES ASSUME NEW u \in l.open, u < b PROVE ~(b <= u) BY <1>6, <1>8
  <2>1. u \in Nat BY <1>8, SMTT(30)
  <2> HIDE DEF b
  <2> QED BY <1>1, <2>1
<1>12. b <= l1.top BY <1>4, <1>6, SMTT(30)
<1>13. /\ ThreadOK(r) /\ r.status = "ok" /\ r.nCcalls = l.nCcalls
       /\ r.baseCcalls = l.baseCcalls /\ r.errfunc = l.errfunc
       /\ Len(r.ci) = Len(l.ci) - 1 /\ \A i \in 1..Len(r.ci) : r.ci[i] = l.ci[i]
  <2>1. /\ ThreadOK(r) /\ r.status = l1.status /\ r.nCcalls = l1.nCcalls
        /\ r.baseCcalls = l1.baseCcalls /\ r.errfunc = l1.errfunc
        /\ Len(r.ci) = Len(l1.ci) - 1 /\ \A i \in 1..Len(r.ci) : r.ci[i] = l1.ci[i]
    <3>1. b \in Nat BY <1>1
    <3> HIDE DEF b
    <3> QED BY <1>6, <1>10, <1>11, <1>12, <3>1, Poscall, SMTT(30)
  <2> HIDE DEF r
  <2> QED BY <1>1, <1>6, <1>7, <2>1 DEF Alike
<1> HIDE DEF r
<1>14. CASE f.nexeccalls = 1
  <2>1. cs' = Front(cs) /\ thread' = [thread EXCEPT ![th] = r] BY <1>3, <1>14
  <2>2. Width(f) = 1 BY <1>1, <1>14 DEF Width
  <2>3. ~Counted(f) BY <1>1 DEF Counted
  <2>4. /\ Len(Front(cs)) = n - 1 /\ Front(cs)[n - 1] = cs[n - 1]
        /\ Nested(cs, n) = Nested(cs, n - 1) /\ Bounded(Front(cs))
    <3>1. Nested(cs, n - 1) \in Nat BY <1>1, Popped
    <3> QED BY <1>1, <2>3, <3>1, Popped
  <2>5. r.nCcalls = Nested(cs, n - 1)
    <3>1. l.nCcalls = Nested(cs, n) BY <1>1 DEF Core, Depth
    <3> QED BY <1>13, <2>4, <3>1
  <2>6. HandlerOK(cs, n - 1, th, r.errfunc)
    <3>1. f.k # "pcall" BY <1>1
    <3> QED BY <1>1, <1>13, <3>1, HandlerBelow
  <2>7. f.k # "resume" /\ Len(r.ci) = Len(l.ci) - Width(f) BY <1>1, <1>13, <2>2
  <2> DEFINE c == Front(cs)
             t == [thread EXCEPT ![th] = r]
  <2>8. Core(c, t) BY <1>1, <1>13, <2>5, <2>6, <2>7, Pop
  <2>9. c[Len(c)] = cs[n - 1] /\ Bounded(c) BY <2>4
  <2>10. cs[n - 1].k = "resume" \/ (cs[n - 1].k = "call" /\ cs[n - 1].ph = "done")
    <3>1. On(cs, n) BY <1>1, Places
    <3> QED BY <1>1, <3>1 DEF On
  <2>11. cs' = c /\ thread' = t BY <2>1
  <2> HIDE DEF c, t
  <2>12. TopOK(c, t) BY <2>9, <2>10 DEF TopOK
  <2> QED BY <2>8, <2>9, <2>11, <2>12 DEF IInv, Good
<1>15. CASE f.nexeccalls # 1
  <2>1. /\ cs' = SetLast(cs, [f EXCEPT !.nexeccalls = @ - 1])
        /\ thread' = [thread EXCEPT ![th] = BackInLua(r)]
    BY <1>3, <1>15
  <2>2. Good(SetLast(cs, [f EXCEPT !.nexeccalls = @ - 1]),
             [thread EXCEPT ![th] = BackInLua(r)])
    BY <1>1, <1>13, <1>15, ReturnsInside
  <2> QED BY <2>1, <2>2 DEF IInv
<1> QED BY <1>14, <1>15

LEMMA StepInterpreter ==
  ASSUME IInv, Interpreter
  PROVE  IInv'
BY StepOP_CALL, StepOP_TAILCALL, StepCallsMetamethod, StepOP_CLOSURE, StepOP_CLOSE,
   StepOP_RETURN, StepRaisesError DEF Interpreter

------------------------------------------------------------------------------
(* The steps of C functions *)

(* What a C function has when it runs. *)
LEMMA InFunction ==
  ASSUME IInv, InC
  PROVE  LET n == Len(cs)
             l == thread[L]
         IN /\ Core(cs, thread) /\ Bounded(cs) /\ Chain(cs) /\ n \in Nat \ {0}
            /\ n > 1 => n >= 2
            /\ cs[n].k = "C" /\ L = cs[n].th /\ L \in Threads /\ ThreadOK(l)
            /\ thread \in [Threads -> ThreadRec] /\ l \in ThreadRec
            /\ l.status = "ok" /\ l.base \in Nat /\ l.top \in Nat /\ l.base <= l.top
            /\ \A i \in 1..n : IsPcall(cs[i], L) => cs[i].old_top < l.base
            /\ High(cs, L, l.top)
<1> DEFINE n == Len(cs)
           l == thread[L]
<1>1. /\ Core(cs, thread) /\ Bounded(cs) /\ cs[n].k = "C" /\ L = cs[n].th
  BY DEF IInv, Good, InC, Top, L
<1>2. /\ Chain(cs) /\ n \in Nat \ {0} /\ L \in Threads /\ ThreadOK(l)
      /\ thread \in [Threads -> ThreadRec] /\ l \in ThreadRec
  BY <1>1, Typed
<1>3. l.status = "ok" BY <1>1, RunsOk
<1>4. l.base \in Nat /\ l.top \in Nat /\ l.base <= l.top BY <1>2, ThreadFields
<1>5. \A i \in 1..n : IsPcall(cs[i], L) => cs[i].old_top < l.base BY <1>1, FrameHigh
<1>6. High(cs, L, l.top) BY <1>1, <1>4, <1>5, HighUp
<1>7. n > 1 => n >= 2 BY <1>2
<1> QED BY <1>1, <1>2, <1>3, <1>4, <1>5, <1>6, <1>7

LEMMA Steplua_call ==
  ASSUME IInv, lua_call(0)
  PROVE  IInv'
<1> DEFINE l == thread[L]
           func == l.top
           x == l.top + 1
<1>1. InC /\ Len(cs) > 1 BY DEF lua_call, Called
<1>2. /\ Core(cs, thread) /\ Bounded(cs) /\ Len(cs) >= 2
      /\ cs[Len(cs)].k = "C" /\ L = cs[Len(cs)].th /\ l.status = "ok"
      /\ l.base \in Nat /\ l.top \in Nat /\ l.base <= l.top /\ High(cs, L, l.top)
  BY <1>1, InFunction
<1>3. l.base <= func /\ func \in Nat /\ x \in Nat /\ func < x
  <2>1. l.base \in Nat /\ l.top \in Nat /\ l.base <= l.top BY <1>2
  <2> HIDE DEF l
  <2> QED BY <2>1
<1>4. cs' = Append(cs, CallFrame(L, func, 0)) /\ thread' = [thread EXCEPT ![L].top = x]
  BY DEF lua_call, Pushed
<1>5. 0 \in {MULTRET, 0, 1} /\ High(cs, L, func) BY <1>2
<1> HIDE DEF func, x
<1>6. Good(Append(cs, CallFrame(L, func, 0)), [thread EXCEPT ![L].top = x])
  BY <1>2, <1>3, <1>5, PushCall
<1> QED BY <1>4, <1>6 DEF IInv

LEMMA Steplua_error ==
  ASSUME IInv, lua_error
  PROVE  IInv'
<1>1. InC /\ Len(cs) > 1 BY DEF lua_error, Called
<1>2. /\ Core(cs, thread) /\ Bounded(cs) /\ Len(cs) >= 2
      /\ cs[Len(cs)].k = "C" /\ L = cs[Len(cs)].th /\ thread[L].status = "ok"
      /\ High(cs, L, thread[L].top)
  BY <1>1, InFunction
<1>3. luaG_runerror(cs, thread, L) BY DEF lua_error
<1>4. Good(cs', thread') BY <1>2, <1>3, RunError
<1> QED BY <1>4 DEF IInv

LEMMA Steplua_settop ==
  ASSUME IInv, lua_settop
  PROVE  IInv'
<1> DEFINE l == thread[L]
           b == l.base
           l2 == [l EXCEPT !.top = b]
<1>1. /\ cs[Len(cs)].k = "C" /\ L \in Threads /\ ThreadOK(l) /\ b \in Nat
  BY InFunction DEF lua_settop
<1>2. cs' = cs /\ thread' = [thread EXCEPT ![L] = l2] BY DEF lua_settop
<1>3. ThreadOK(l2) /\ Alike(l, l2)
  <2>1. l.base <= b BY <1>1
  <2> QED BY <1>1, <2>1, SetTop
<1> HIDE DEF l2
<1> QED BY <1>1, <1>2, <1>3, Stays

(* A level of a thread that does not run the interpreter moves. *)
LEMMA Moves ==
  ASSUME NEW c, NEW t, Core(c, t), Bounded(c), c[Len(c)].k = "C", NEW th \in Threads,
         NEW x \in Nat, t[th].base <= x
  PROVE  Good(c, [t EXCEPT ![th].top = x])
<1> DEFINE l == t[th]
           l2 == [l EXCEPT !.top = x]
<1>1. ThreadOK(l) /\ t \in [Threads -> ThreadRec] BY Typed
<1>2. ThreadOK(l2) /\ Alike(l, l2) BY <1>1, SetTop
<1>3. [t EXCEPT ![th].top = x] = [t EXCEPT ![th] = l2] OBVIOUS
<1> HIDE DEF l2
<1>4. Core(c, [t EXCEPT ![th] = l2]) BY <1>2, SameStack
<1>5. TopOK(c, [t EXCEPT ![th] = l2]) BY DEF TopOK
<1> QED BY <1>3, <1>4, <1>5 DEF Good

LEMMA StepluaB_cocreate ==
  ASSUME IInv, NEW co \in Coroutines, luaB_cocreate(co)
  PROVE  IInv'
<1> DEFINE x == thread[co].top + 1
<1>1. Core(cs, thread) /\ Bounded(cs) /\ cs[Len(cs)].k = "C"
  BY InFunction DEF luaB_cocreate
<1>2. co \in Threads /\ ThreadOK(thread[co])
  <2>1. co \in Threads BY DEF Threads
  <2> QED BY <1>1, <2>1, Typed
<1>3. x \in Nat /\ thread[co].base <= x
  <2>1. thread[co].base \in Nat /\ thread[co].top \in Nat /\ thread[co].base <= thread[co].top
    BY <1>2, ThreadFields
  <2> QED BY <2>1
<1>4. cs' = cs /\ thread' = [thread EXCEPT ![co].top = x] BY DEF luaB_cocreate
<1> HIDE DEF x
<1> QED BY <1>1, <1>2, <1>3, <1>4, Moves DEF IInv

LEMMA Steplua_pcall ==
  ASSUME IInv, NEW h \in BOOLEAN, lua_pcall(MULTRET, h)
  PROVE  IInv'
<1> DEFINE n == Len(cs)
           l == thread[L]
           func == l.top + IF h THEN 1 ELSE 0
           e == IF h THEN l.base ELSE NoHandler
           x == func + 1
           g == [k |-> "pcall", th |-> L, oldnCcalls |-> l.nCcalls,
                 old_ci |-> Len(l.ci), old_top |-> func, old_errfunc |-> l.errfunc]
           c == Append(cs, g)
           l1 == [l EXCEPT !.errfunc = e]
           l2 == [l1 EXCEPT !.top = x]
           t == [thread EXCEPT ![L] = l2]
<1>1. /\ Core(cs, thread) /\ Bounded(cs) /\ n \in Nat \ {0} /\ Chain(cs)
      /\ cs[n].k = "C" /\ L = cs[n].th /\ l.status = "ok" /\ L \in Threads
      /\ l.base \in Nat /\ l.top \in Nat /\ l.base <= l.top /\ ThreadOK(l) /\ l \in ThreadRec
      /\ thread \in [Threads -> ThreadRec]
      /\ \A i \in 1..n : IsPcall(cs[i], L) => cs[i].old_top < l.base
  BY InFunction, SMTT(30) DEF lua_pcall
<1>2. /\ func \in Nat /\ l.base <= func /\ x \in Nat /\ func < x /\ l.base <= x
      /\ e \in Nat /\ e \in {NoHandler, func - 1}
  <2>1. l.top = l.base /\ l.base \in Nat BY <1>1 DEF lua_pcall, CanPush
  <2> HIDE DEF l
  <2> QED BY <2>1, SMTT(30) DEF NoHandler
<1>3. /\ cs' = cs \o <<g, CallFrame(L, func, MULTRET)>>
      /\ thread' = [thread EXCEPT ![L].top = x, ![L].errfunc = e]
  BY DEF lua_pcall
<1> HIDE DEF func, e, x
<1>4. g \in Activation /\ g.k = "pcall" /\ g.th = L /\ g.old_top = func
  <2>1. g \in Pcalls
    <3>1. l.nCcalls \in Nat /\ l.errfunc \in Nat BY <1>1 DEF ThreadRec
    <3>2. Len(l.ci) \in Nat \ {0} BY <1>1, ThreadFields
    <3> HIDE DEF l
    <3> QED BY <1>1, <1>2, <3>1, <3>2 DEF Pcalls
  <2> QED BY <2>1 DEF Activation
<1>5. /\ l1 \in ThreadRec /\ l1.top = l.top /\ l1.base = l.base
      /\ l1.ci = l.ci /\ l1.open = l.open /\ l1.size_ci = l.size_ci
      /\ l1.status = l.status /\ l1.nCcalls = l.nCcalls
      /\ l1.baseCcalls = l.baseCcalls /\ l1.errfunc = e
  <2> HIDE DEF l
  <2> QED BY <1>1, <1>2 DEF ThreadRec
<1>6. thread' = t BY <1>1, <1>3, ZenonT(30) DEF ThreadRec
<1>7. l2.top = x BY <1>5, SMTT(30) DEF ThreadRec
<1> HIDE DEF l1
<1>8. ThreadOK(l1) BY <1>1, <1>5, ZenonT(30) DEF ThreadOK
<1>9. ThreadOK(l2) /\ Alike(l1, l2) /\ l2.base = l.base
  <2>1. l1.base <= x BY <1>2, <1>5
  <2> QED BY <1>2, <1>5, <1>8, <2>1, SetTop
<1>10. l2.errfunc = e /\ l2.status = "ok" BY <1>1, <1>5, <1>9 DEF Alike
<1> HIDE DEF l2
<1>11. Alike([l EXCEPT !.errfunc = l2.errfunc], l2) BY <1>9, <1>10 DEF l1
<1> HIDE DEF t
<1>12. Core(c, t)
  <2>1. l2.errfunc \in {NoHandler, func - 1} BY <1>2, <1>10
  <2> HIDE DEF n
  <2> QED BY <1>1, <1>2, <1>9, <1>11, <2>1, PushPcall DEF t, n
<1> HIDE DEF g
<1>13. /\ Len(c) = n + 1 /\ c[n + 1] = g /\ \A i \in 1..n : c[i] = cs[i]
       /\ Nested(c, n + 1) = Nested(cs, n) + IF Counted(g) THEN 1 ELSE 0
       /\ Nested(cs, n) \in Nat
  BY <1>1, <1>4, Pushing
<1>14. Bounded(c)
  <2>1. ~Counted(g) BY <1>4 DEF Counted
  <2> QED BY <1>1, <1>13, <2>1 DEF Bounded
<1>15. High(c, L, func)
  <2> SUFFICES ASSUME NEW i \in 1..Len(c), IsPcall(c[i], L) PROVE c[i].old_top <= func
    BY DEF High
  <2>1. CASE i = n + 1 BY <1>2, <1>4, <1>13, <2>1
  <2>2. CASE i # n + 1
    <3>1. i \in 1..n /\ c[i] = cs[i] BY <1>1, <1>13, <2>2
    <3>2. High(cs, L, func) BY <1>1, <1>2, HighUp
    <3> QED BY <3>1, <3>2 DEF High
  <2> QED BY <2>1, <2>2
<1>16. t[L] = l2 BY <1>1 DEF t
<1>17. /\ Len(c) >= 2 /\ L = c[Len(c)].th /\ t[L].status = "ok" /\ c[Len(c)].k = "pcall"
       /\ t[L].base <= func /\ MULTRET \in {MULTRET, 0, 1}
  BY <1>1, <1>2, <1>4, <1>9, <1>10, <1>13, <1>16
<1> HIDE DEF c
<1>18. Good(Append(c, CallFrame(L, func, MULTRET)), [t EXCEPT ![L].top = x])
  BY <1>2, <1>12, <1>14, <1>15, <1>17, PushCall
<1>19. [t EXCEPT ![L].top = x] = t
  <2>1. [l2 EXCEPT !.top = x] = l2
    <3>1. l2 \in ThreadRec BY <1>9 DEF ThreadOK
    <3> QED BY <1>7, <3>1 DEF ThreadRec
  <2> QED BY <1>1, <1>16, <2>1 DEF t
<1>20. cs' = Append(c, CallFrame(L, func, MULTRET))
  <2>1. cs \in Seq(Activation) BY <1>1 DEF Chain
  <2>2. \A a, b : cs \o <<a, b>> = Append(Append(cs, a), b) BY <2>1
  <2> QED BY <1>3, <2>2 DEF c
<1> QED BY <1>6, <1>18, <1>19, <1>20 DEF IInv

LEMMA StepReturns ==
  ASSUME IInv, NEW k \in 0..1, Returns(k)
  PROVE  IInv'
<1> DEFINE n == Len(cs)
           f == cs[n]
           th == f.th
           l == thread[th]
           x == l.top - k
           r == luaD_poscall(l, x)
           c == Front(cs)
           t == [thread EXCEPT ![th] = r]
<1>1. InC /\ n > 1 BY DEF Returns, Called
<1>2. /\ Core(cs, thread) /\ Bounded(cs) /\ Chain(cs) /\ n \in Nat \ {0} /\ n >= 2
      /\ f.k = "C" /\ L = th /\ th \in Threads /\ ThreadOK(l) /\ l.status = "ok"
      /\ thread \in [Threads -> ThreadRec] /\ f \in Activation
      /\ l.base \in Nat /\ l.top \in Nat /\ l.base <= l.top
  <2>1. Core(cs, thread) /\ L = th BY <1>1, InFunction
  <2>2. f \in Activation BY <2>1, Typed
  <2> QED BY <1>1, <2>1, <2>2, InFunction
<1>3. x \in Nat /\ x <= l.top
  <2>1. k <= l.top - l.base BY <1>2 DEF Returns
  <2>2. l.base \in Nat /\ l.top \in Nat BY <1>2
  <2> HIDE DEF l
  <2> QED BY <2>1, <2>2
<1>4. /\ cs' = c
      /\ thread' = [thread EXCEPT ![th] = IF cs[n - 1].k = "exec" THEN BackInLua(r) ELSE r]
  BY <1>2 DEF Returns
<1>5. Width(f) = 1 /\ ~Counted(f) BY <1>2 DEF Width, Counted
<1>6. Len(l.ci) >= 2
  <2>1. /\ Entries(cs, th, n - 1) \in Nat \ {0}
        /\ Len(l.ci) = Entries(cs, th, n - 1) + Width(f)
    BY <1>2, LowerEntry
  <2> HIDE DEF l
  <2> QED BY <1>5, <2>1
<1>7. ~l.ci[Len(l.ci)].lua BY <1>2, LastEntry
<1> HIDE DEF x
<1>8. /\ ThreadOK(r) /\ r.status = "ok" /\ r.nCcalls = l.nCcalls
      /\ r.baseCcalls = l.baseCcalls /\ r.errfunc = l.errfunc
      /\ Len(r.ci) = Len(l.ci) - 1 /\ \A i \in 1..Len(r.ci) : r.ci[i] = l.ci[i]
  BY <1>2, <1>3, <1>6, <1>7, Poscall
<1> HIDE DEF r
<1>9. /\ Len(c) = n - 1 /\ c[n - 1] = cs[n - 1]
      /\ Nested(cs, n) = Nested(cs, n - 1) /\ Bounded(c)
  <2>1. Nested(cs, n - 1) \in Nat BY <1>2, Popped
  <2> QED BY <1>2, <1>5, <2>1, Popped
<1>10. r.nCcalls = Nested(cs, n - 1)
  <2>1. l.nCcalls = Nested(cs, n) BY <1>2 DEF Core, Depth
  <2> QED BY <1>8, <1>9, <2>1
<1>11. HandlerOK(cs, n - 1, th, r.errfunc)
  <2>1. f.k # "pcall" BY <1>2
  <2> QED BY <1>2, <1>8, <2>1, HandlerBelow
<1>12. Core(c, t)
  <2>1. f.k # "resume" /\ Len(r.ci) = Len(l.ci) - Width(f) BY <1>2, <1>5, <1>8
  <2> QED BY <1>2, <1>8, <1>10, <1>11, <2>1, Pop
<1>13. On(cs, n) BY <1>2, Places
<1>14. cs[n - 1].th = th /\ t[th] = r BY <1>2, <1>13 DEF On
<1> HIDE DEF c
<1>15. CASE cs[n - 1].k = "exec"
  <2>1. c[Len(c)].k = "exec" /\ th = c[Len(c)].th BY <1>9, <1>14, <1>15
  <2>2. [t EXCEPT ![th] = BackInLua(t[th])] = [thread EXCEPT ![th] = BackInLua(r)]
    BY <1>2, <1>14
  <2> HIDE DEF t, l, th
  <2>3. Core(c, [t EXCEPT ![th] = BackInLua(t[th])])
          /\ TopOK(c, [t EXCEPT ![th] = BackInLua(t[th])])
    BY <1>12, <2>1, Back
  <2> QED BY <1>4, <1>9, <1>15, <2>2, <2>3 DEF IInv, Good
<1>16. CASE cs[n - 1].k # "exec"
  <2>1. cs[n - 1].k = "call" /\ cs[n - 1].ph = "done" BY <1>2, <1>13, <1>16 DEF On
  <2>2. cs' = c /\ thread' = t BY <1>4, <1>16
  <2> HIDE DEF t
  <2>3. TopOK(c, t) BY <1>9, <2>1 DEF TopOK
  <2> QED BY <1>9, <1>12, <2>2, <2>3 DEF IInv, Good
<1> QED BY <1>15, <1>16

------------------------------------------------------------------------------
(* Coroutines *)

(* A thread on the C stack that is not the one on top waits for another one: it
   runs a C function, which is not its first call. *)
LEMMA Waiting ==
  ASSUME NEW c, NEW t, Core(c, t), NEW co, Busy(c, co), co # c[Len(c)].th, co # Main
  PROVE  t[co].status = "ok" /\ Len(t[co].ci) >= 2
<1> DEFINE n == Len(c)
           S == {i \in 1..n : c[i].th = co}
<1>1. Chain(c) /\ n \in Nat \ {0} /\ c \in Seq(Activation) BY Typed
<1>2. S \in SUBSET (0..n) /\ S # {} BY DEF Busy
<1>3. PICK i \in S : \A j \in S : j <= i
  <2> HIDE DEF S, n
  <2> QED BY <1>1, <1>2, Greatest
<1>4. i \in 1..n /\ c[i].th = co BY <1>3
<1>5. i # n BY <1>4
<1>6. i + 1 \in 2..n /\ i + 1 \in 1..n /\ (i + 1) - 1 = i BY <1>1, <1>4, <1>5
<1>7. c[i + 1].th # co
  <2> SUFFICES ASSUME c[i + 1].th = co PROVE FALSE OBVIOUS
  <2>1. i + 1 \in S BY <1>6
  <2>2. i + 1 <= i BY <1>3, <2>1
  <2> QED BY <1>4, <2>2
<1>8. On(c, i + 1) BY <1>1, <1>6, Places
<1>9. c[i + 1].k = "resume" /\ c[i].k = "C" BY <1>4, <1>6, <1>7, <1>8 DEF On
<1>10. t[co].status = "ok"
  <2>1. co \in Threads BY <1>1, <1>4, Typed
  <2>2. MatchAt(c, t[co], co) BY <2>1 DEF Core, Match
  <2>3. t[co].status \in {"ok", "yield", "error"} BY <2>1, Typed DEF ThreadRec
  <2> QED BY <2>2, <2>3 DEF MatchAt
<1>11. Len(t[co].ci) = Entries(c, co, n)
  <2>1. co \in Threads BY <1>1, <1>4, Typed
  <2> QED BY <1>10, <2>1 DEF Core, Match, MatchAt, Matches
<1>12. i # 1 BY <1>1, <1>4 DEF Chain
<1>13. i \in 2..n /\ i - 1 \in 1..n /\ i - 1 \in 0..n /\ i \in 0..n /\ n \in 0..n
       /\ i <= n /\ i - 1 < n /\ (i - 1) + 1 = i
  BY <1>1, <1>4, <1>12
<1>14. c[i - 1].th = co
  <2>1. On(c, i) BY <1>1, <1>13, Places
  <2> QED BY <1>4, <1>9, <2>1 DEF On
<1>15. Entries(c, co, i - 1) >= 1 BY <1>1, <1>13, <1>14, Rooted
<1>16. Entries(c, co, i) = Entries(c, co, i - 1) + 1 /\ Entries(c, co, i - 1) \in Nat
  <2>1. Width(c[i]) = 1 BY <1>9 DEF Width
  <2>2. /\ Entries(c, co, i - 1) \in Nat
        /\ Entries(c, co, (i - 1) + 1) = Entries(c, co, i - 1) + Width(c[(i - 1) + 1])
    BY <1>1, <1>4, <1>13, EntriesStep
  <2> QED BY <1>13, <2>1, <2>2
<1>17. Entries(c, co, i) <= Entries(c, co, n) /\ Entries(c, co, n) \in Nat
  BY <1>1, <1>13, EntriesGrow, EntriesStep
<1> QED BY <1>10, <1>11, <1>15, <1>16, <1>17

LEMMA SuspendedIsIdle ==
  ASSUME NEW c, NEW t, Core(c, t), c = cs, t = thread, NEW co \in Coroutines,
         costatus(co) = "suspended"
  PROVE  /\ co # L /\ ~Busy(c, co)
         /\ \/ t[co].status = "yield" /\ Suspended(t[co])
            \/ t[co].status = "ok" /\ Len(t[co].ci) = 1 /\ t[co].top # t[co].base
<1>1. co \in Threads /\ co # Main BY CallsAssumption DEF Threads
<1>2. co # L BY DEF costatus
<1>3. L = c[Len(c)].th BY DEF L, Top
<1>4. ~Busy(c, co)
  <2> SUFFICES ASSUME Busy(c, co) PROVE FALSE OBVIOUS
  <2>1. t[co].status = "ok" /\ Len(t[co].ci) >= 2 BY <1>1, <1>2, <1>3, Waiting
  <2>2. Len(t[co].ci) \in Nat BY <1>1, Typed
  <2>3. Len(t[co].ci) > 1 BY <2>1, <2>2
  <2>4. costatus(co) = "normal" BY <1>2, <2>1, <2>3 DEF costatus
  <2> QED BY <2>4
<1>5. MatchAt(c, t[co], co) BY <1>1 DEF Core, Match
<1>6. CASE t[co].status = "yield" BY <1>2, <1>4, <1>5, <1>6 DEF MatchAt
<1>7. CASE t[co].status = "ok"
  <2>1. Len(t[co].ci) = 1 BY <1>4, <1>5, <1>7 DEF MatchAt
  <2>2. t[co].top # t[co].base BY <1>2, <1>7, <2>1 DEF costatus
  <2> QED BY <1>2, <1>4, <1>7, <2>1, <2>2
<1>8. t[co].status \in {"yield", "ok"} BY <1>2 DEF costatus
<1> QED BY <1>6, <1>7, <1>8

(* resume gives a coroutine that has yielded its interpreter back. *)
LEMMA Continued ==
  ASSUME NEW c, NEW t, Core(c, t), Bounded(c), NEW n, n = Len(c), c[n].k = "resume",
         NEW co, co = c[n].th, t[co].status = "yield", Suspended(t[co]),
         Continues(c, t, co)
  PROVE  Good(cs', thread')
<1> DEFINE l == t[co]
           l1 == [l EXCEPT !.status = "ok"]
           r == luaD_poscall(l1, l1.top)
           g == [k |-> "exec", th |-> co, nexeccalls |-> Len(r.ci) - 1]
           d == Append(c, g)
           t2 == [t EXCEPT ![co] = r]
           ci1 == <<r.ci[1]>>
<1>1. /\ Chain(c) /\ c \in Seq(Activation) /\ n \in Nat \ {0} /\ co \in Threads
      /\ t \in [Threads -> ThreadRec] /\ l \in ThreadRec /\ ThreadOK(l)
  BY Typed
<1>2. n \in 2..n /\ n - 1 \in 0..n /\ n - 1 \in Nat /\ n - 1 < n /\ (n - 1) + 1 = n /\ n \in Nat
  <2>1. c[Len(c)].k # "C" OBVIOUS
  <2>2. n >= 2 BY <1>1, <2>1, NotFirst
  <2> QED BY <1>1, <2>2
<1>3. \A j \in 1..(n - 1) : c[j].th # co
  <2>1. On(c, n) BY <1>1, <1>2, Places
  <2> QED BY <2>1 DEF On
<1>4. /\ l1 \in ThreadRec /\ l1.top = l.top /\ l1.base = l.base
      /\ l1.ci = l.ci /\ l1.open = l.open /\ l1.size_ci = l.size_ci
      /\ l1.status = "ok" /\ l1.nCcalls = l.nCcalls
      /\ l1.baseCcalls = l.baseCcalls /\ l1.errfunc = l.errfunc
  <2> HIDE DEF l
  <2> QED BY <1>1 DEF ThreadRec
<1>5. /\ cs' = Append(c, [k |-> "exec", th |-> co, nexeccalls |-> Len(r.ci) - 1])
      /\ thread' = [t EXCEPT ![co] = BackInLua(r)]
  <2>1. [t[co] EXCEPT !.status = "ok"] = l1 /\ t[co].top = l1.top BY <1>4
  <2> HIDE DEF l1
  <2> QED BY <2>1 DEF Continues
<1> HIDE DEF l1
<1>6. ThreadOK(l1) BY <1>1, <1>4, ZenonT(30) DEF ThreadOK
<1>7. Len(l.ci) >= 3 /\ Len(l.ci) \in Nat /\ \A m \in 2..Len(l.ci) : l.ci[m].lua <=> m < Len(l.ci)
  BY <1>1, ThreadFields, SMTT(30) DEF Suspended
<1>8. ~l1.ci[Len(l1.ci)].lua
  <2>1. Len(l.ci) \in 2..Len(l.ci) /\ ~(Len(l.ci) < Len(l.ci)) BY <1>7, SMTT(30)
  <2> QED BY <1>4, <1>7, <2>1, ZenonT(30)
<1>9. /\ ThreadOK(r) /\ r.status = "ok" /\ r.nCcalls = l.nCcalls
      /\ r.baseCcalls = l.baseCcalls /\ r.errfunc = l.errfunc
      /\ Len(r.ci) = Len(l.ci) - 1 /\ \A m \in 1..Len(r.ci) : r.ci[m] = l.ci[m]
  <2>1. Len(l1.ci) >= 2
    <3> HIDE DEF l
    <3> QED BY <1>4, <1>7
  <2>2. l1.top \in Nat /\ l1.top <= l1.top
    <3>1. l1.top \in Nat BY <1>6, ThreadFields
    <3> QED BY <3>1
  <2>3. /\ ThreadOK(r) /\ r.status = l1.status /\ r.nCcalls = l1.nCcalls
        /\ r.baseCcalls = l1.baseCcalls /\ r.errfunc = l1.errfunc
        /\ Len(r.ci) = Len(l1.ci) - 1 /\ \A m \in 1..Len(r.ci) : r.ci[m] = l1.ci[m]
    BY <1>6, <1>8, <2>1, <2>2, Poscall, SMTT(30)
  <2> HIDE DEF r
  <2> QED BY <1>4, <2>3
<1> HIDE DEF r
<1>10. /\ Len(r.ci) \in Nat /\ Len(r.ci) >= 2 /\ Len(r.ci) - 1 \in Nat \ {0}
       /\ \A m \in 2..Len(r.ci) : r.ci[m].lua
       /\ ~r.ci[1].lua
  <2>1. Len(r.ci) \in Nat /\ Len(r.ci) >= 2 /\ Len(r.ci) - 1 \in Nat \ {0}
    <3>1. Len(r.ci) = Len(l.ci) - 1 BY <1>9
    <3> HIDE DEF l
    <3> QED BY <1>7, <3>1
  <2>2. ASSUME NEW m \in 2..Len(r.ci) PROVE r.ci[m].lua
    <3>1. m \in 1..Len(r.ci) BY <2>1
    <3>2. m \in 2..Len(l.ci) /\ m < Len(l.ci)
      <4>1. Len(r.ci) = Len(l.ci) - 1 BY <1>9, SMTT(30)
      <4> HIDE DEF l
      <4> QED BY <1>7, <2>1, <4>1
    <3> QED BY <1>7, <1>9, <3>1, <3>2, SMTT(30)
  <2>3. ~r.ci[1].lua BY <1>9, ZenonT(30) DEF ThreadOK
  <2> QED BY <2>1, <2>2, <2>3
<1>11. g \in Activation /\ g.k = "exec" /\ g.th = co /\ Width(g) = Len(r.ci) - 1
  <2>1. g \in Execs BY <1>1, <1>10 DEF Execs
  <2> QED BY <2>1 DEF Activation, Width
<1>12. Matches(c, ci1, co)
  <2>1. Entries(c, co, n - 1) = 0
    <3>1. \A j \in (0 + 1)..(n - 1) : c[j].th # co BY <1>3
    <3>2. Entries(c, co, 0) = Entries(c, co, n - 1) BY <1>2, <3>1, EntriesStay
    <3>3. Entries(c, co, 0) = 0 BY <1>1, <1>2, EntriesStep
    <3> QED BY <3>2, <3>3
  <2>2. Width(c[n]) = 1 BY DEF Width
  <2>3. Entries(c, co, (n - 1) + 1) = Entries(c, co, n - 1) + Width(c[n])
    BY <1>1, <1>2, EntriesStep
  <2>4. Entries(c, co, n) = 1 BY <1>2, <2>1, <2>2, <2>3
  <2>5. Len(ci1) = 1 /\ ci1[1] = r.ci[1] OBVIOUS
  <2>6. ASSUME NEW i \in 1..n, c[i].th = co, NEW m \in 1..Len(ci1)
        PROVE  ci1[m].lua <=> c[i].k = "exec"
    <3>1. i = n
      <4> SUFFICES ASSUME i # n PROVE FALSE OBVIOUS
      <4>1. i \in 1..(n - 1) BY <1>1
      <4> QED BY <1>3, <2>6, <4>1
    <3>2. m = 1 BY <2>5
    <3> QED BY <1>10, <2>5, <3>1, <3>2
  <2> HIDE DEF ci1
  <2> QED BY <2>4, <2>5, <2>6 DEF Matches
<1>13. Matches(d, r.ci, co)
  <2>1. Len(ci1) = 1 /\ ci1[1] = r.ci[1] OBVIOUS
  <2>2. Len(r.ci) = Len(ci1) + Width(g) BY <1>10, <1>11, <2>1
  <2>3. \A m \in 1..Len(ci1) : r.ci[m].lua <=> ci1[m].lua
    <3>1. \A m \in 1..Len(ci1) : m = 1 BY <2>1
    <3> QED BY <2>1, <3>1
  <2>4. \A m \in (Len(ci1) + 1)..Len(r.ci) : r.ci[m].lua <=> g.k = "exec"
    <3>1. (Len(ci1) + 1)..Len(r.ci) = 2..Len(r.ci) BY <2>1
    <3> QED BY <1>10, <1>11, <3>1
  <2>5. Len(ci1) \in Nat BY <2>1
  <2> HIDE DEF ci1, g
  <2> QED BY <1>1, <1>11, <1>12, <2>2, <2>3, <2>4, <2>5, MatchPush
<1> HIDE DEF g
<1>14. /\ Len(d) = n + 1 /\ d[n + 1] = g /\ \A i \in 1..n : d[i] = c[i]
       /\ Nested(d, n + 1) = Nested(c, n) + IF Counted(g) THEN 1 ELSE 0
       /\ Nested(c, n) \in Nat
  BY <1>1, <1>11, Pushing
<1>15. ~Counted(g) BY <1>11 DEF Counted
<1>16. Bounded(d) BY <1>14, <1>15 DEF Bounded
<1>17. On(d, n + 1)
  <2>1. d[(n + 1) - 1] = c[n] /\ n + 1 # 2 BY <1>1, <1>2, <1>14
  <2> QED BY <1>11, <1>14, <2>1 DEF On
<1>18. \A i \in 1..n : c[i].th = co => PcallAt(c, t2, i)
  <2> SUFFICES ASSUME NEW i \in 1..n, c[i].th = co PROVE PcallAt(c, t2, i) OBVIOUS
  <2>1. i = n
    <3> SUFFICES ASSUME i # n PROVE FALSE OBVIOUS
    <3>1. i \in 1..(n - 1) BY <1>1
    <3> QED BY <1>3, <3>1
  <2> QED BY <2>1 DEF PcallAt
<1>19. Core(d, t2)
  <2>1. co = c[Len(c)].th /\ g.k # "pcall" /\ g.k # "resume" BY <1>11
  <2> QED BY <1>9, <1>11, <1>13, <1>15, <1>17, <1>18, <2>1, PushAny
<1>20. t2[co] = r /\ [t2 EXCEPT ![co] = BackInLua(r)] = [t EXCEPT ![co] = BackInLua(r)]
  BY <1>1
<1> HIDE DEF t2
<1>21. cs' = d /\ thread' = [t2 EXCEPT ![co] = BackInLua(t2[co])] BY <1>5, <1>20 DEF g
<1>22. d[Len(d)].k = "exec" /\ co = d[Len(d)].th BY <1>11, <1>14
<1> HIDE DEF d
<1>23. LET t3 == [t2 EXCEPT ![co] = BackInLua(t2[co])] IN Core(d, t3) /\ TopOK(d, t3)
  BY <1>19, <1>22, Back
<1> QED BY <1>16, <1>21, <1>23 DEF Good

LEMMA StepResumes ==
  ASSUME IInv, NEW co \in Coroutines, Resumes(co)
  PROVE  IInv'
<1> DEFINE n == Len(cs)
           th == L
           l == thread[th]
           lc == thread[co]
           nc == l.nCcalls
           l2 == [lc EXCEPT !.nCcalls = nc + 1, !.baseCcalls = nc + 1, !.ran = TRUE]
           t == [thread EXCEPT ![co] = l2]
           g == [k |-> "resume", th |-> co]
           c == Append(cs, g)
<1>1. /\ Core(cs, thread) /\ Bounded(cs) /\ n \in Nat \ {0} /\ Chain(cs)
      /\ cs[n].k = "C" /\ th = cs[n].th /\ l.status = "ok" /\ th \in Threads
      /\ l.base \in Nat /\ l.top \in Nat /\ l.base <= l.top /\ ThreadOK(l) /\ l \in ThreadRec
      /\ thread \in [Threads -> ThreadRec]
  BY InFunction DEF Resumes
<1>2. /\ co # th /\ ~Busy(cs, co)
      /\ \/ lc.status = "yield" /\ Suspended(lc)
         \/ lc.status = "ok" /\ Len(lc.ci) = 1 /\ lc.top # lc.base
  BY <1>1, SuspendedIsIdle DEF Resumes
<1>3. /\ co \in Threads /\ ThreadOK(lc) /\ lc \in ThreadRec
      /\ lc.base \in Nat /\ lc.top \in Nat /\ lc.base <= lc.top
      /\ lc.base = lc.ci[Len(lc.ci)].base
  <2>1. co \in Threads BY DEF Threads
  <2>2. ThreadOK(lc) /\ lc \in ThreadRec BY <1>1, <2>1, Typed
  <2> QED BY <2>1, <2>2, ThreadFields
<1>4. nc \in Nat /\ nc = Nested(cs, n)
  <2>1. nc \in Nat BY <1>1 DEF ThreadRec
  <2> QED BY <1>1, <2>1 DEF Core, Depth
<1>5. CASE cs' = cs /\ thread' = resume_error(thread, co)
  <2> DEFINE b == lc.base
             t1 == [thread EXCEPT ![co].top = b]
             x == l.top + 1
  <2>1. Last(thread[co].ci).base = b BY <1>3 DEF Last
  <2>2. thread' = [thread EXCEPT ![co].top = b, ![L] = Received(@, 1)]
    BY <1>5, <2>1 DEF resume_error
  <2>3. Good(cs, t1)
    <3>1. b \in Nat /\ lc.base <= b BY <1>3
    <3> QED BY <1>1, <1>3, <3>1, Moves
  <2>4. t1[th] = l BY <1>1, <1>2
  <2>5. [thread EXCEPT ![co].top = b, ![L] = Received(@, 1)] = [t1 EXCEPT ![th].top = x]
    <3>1. Received(l, 1) = [l EXCEPT !.top = x] BY DEF Received
    <3> QED BY <1>1, <1>2, <2>4, <3>1
  <2>6. x \in Nat /\ t1[th].base <= x
    <3>1. l.base \in Nat /\ l.top \in Nat /\ l.base <= l.top BY <1>1
    <3>2. x \in Nat /\ l.base <= x
      <4> HIDE DEF l
      <4> QED BY <3>1
    <3> QED BY <2>4, <3>2
  <2> HIDE DEF t1, x
  <2>7. Good(cs, [t1 EXCEPT ![th].top = x])
    <3>1. Core(cs, t1) BY <2>3 DEF Good
    <3> QED BY <1>1, <2>6, <3>1, Moves
  <2> QED BY <1>5, <2>2, <2>5, <2>7 DEF IInv
<1>6. CASE nc < MaxCCalls /\ IF lc.status = "yield" THEN Continues(c, t, co)
                             ELSE Starts(c, t, co)
  <2>1. /\ l2 \in ThreadRec /\ l2.top = lc.top /\ l2.base = lc.base
        /\ l2.ci = lc.ci /\ l2.open = lc.open /\ l2.size_ci = lc.size_ci
        /\ l2.status = lc.status /\ l2.nCcalls = nc + 1
        /\ l2.baseCcalls = nc + 1 /\ l2.errfunc = lc.errfunc
    <3> DEFINE d == nc + 1
    <3>1. d \in Nat /\ lc \in ThreadRec /\ TRUE \in BOOLEAN BY <1>3, <1>4
    <3> HIDE DEF lc, d
    <3>2. [lc EXCEPT !.nCcalls = d, !.baseCcalls = d, !.ran = TRUE] \in ThreadRec
      BY <3>1 DEF ThreadRec
    <3>3. l2 \in ThreadRec BY <3>2 DEF d
    <3>4. /\ l2.top = lc.top /\ l2.base = lc.base
          /\ l2.ci = lc.ci /\ l2.open = lc.open /\ l2.size_ci = lc.size_ci
          /\ l2.status = lc.status /\ l2.nCcalls = nc + 1
          /\ l2.baseCcalls = nc + 1 /\ l2.errfunc = lc.errfunc
      <4> HIDE DEF nc
      <4> QED BY <3>1 DEF ThreadRec
    <3> QED BY <3>3, <3>4
  <2> HIDE DEF l2
  <2>2. ThreadOK(l2) BY <1>3, <2>1 DEF ThreadOK
  <2>3. Core(c, t)
    <3>1. lc.status # "error" BY <1>2
    <3> QED BY <1>1, <1>2, <2>1, <2>2, <3>1, PushResume
  <2>4. g \in Activation /\ g.k = "resume" /\ g.th = co
    <3>1. g \in Resumptions BY <1>3 DEF Resumptions
    <3> QED BY <3>1 DEF Activation
  <2> HIDE DEF g
  <2>5. /\ Len(c) = n + 1 /\ c[n + 1] = g /\ \A i \in 1..n : c[i] = cs[i]
        /\ Nested(c, n + 1) = Nested(cs, n) + IF Counted(g) THEN 1 ELSE 0
    BY <1>1, <2>4, Pushing
  <2>6. Bounded(c)
    <3>1. Counted(g) BY <2>4 DEF Counted
    <3>2. Nested(c, n + 1) = nc + 1 BY <1>4, <2>5, <3>1
    <3>3. nc + 1 < MaxCCalls + CCallsRoom
      <4>1. nc < MaxCCalls BY <1>6
      <4> HIDE DEF nc
      <4> QED BY <1>4, <4>1, Consts
    <3> QED BY <2>5, <3>2, <3>3 DEF Bounded
  <2>7. t[co] = l2 BY <1>1, <1>3
  <2>8. c[Len(c)].k = "resume" /\ co = c[Len(c)].th BY <2>4, <2>5
  <2>9. CASE lc.status = "yield"
    <3>1. Continues(c, t, co) BY <1>6, <2>9
    <3>2. t[co].status = "yield" /\ Suspended(t[co]) BY <1>2, <2>1, <2>7, <2>9 DEF Suspended
    <3> HIDE DEF c, t
    <3>3. Good(cs', thread') BY <2>3, <2>6, <2>8, <3>1, <3>2, Continued
    <3> QED BY <3>3 DEF IInv
  <2>10. CASE lc.status # "yield"
    <3> DEFINE func == l2.top - 1
    <3>1. EnterLua(c, t, co, func, MULTRET) BY <1>6, <2>7, <2>10 DEF Starts
    <3>2. lc.status = "ok" /\ lc.top # lc.base BY <1>2, <2>10
    <3>3. func \in Nat /\ l2.base <= func /\ func < l2.top
      <4>1. l2.top = lc.top /\ l2.base = lc.base BY <2>1
      <4> HIDE DEF lc
      <4> QED BY <1>3, <3>2, <4>1
    <3>4. High(c, co, func)
      <4> SUFFICES ASSUME NEW i \in 1..Len(c), IsPcall(c[i], co) PROVE FALSE BY DEF High
      <4>1. i # n + 1 BY <2>4, <2>5 DEF IsPcall
      <4>2. i \in 1..n BY <1>1, <2>5, <4>1
      <4>3. cs[i].th = co BY <2>5, <4>2 DEF IsPcall
      <4> QED BY <1>2, <4>2, <4>3 DEF Busy
    <3>5. Len(c) >= 2 BY <1>1, <2>5
    <3> HIDE DEF func, c
    <3>6. Callable(c, t, co, func)
      BY <2>1, <2>3, <2>6, <2>7, <2>8, <3>2, <3>3, <3>4, <3>5 DEF Callable
    <3>7. MULTRET \in {MULTRET, 0, 1} OBVIOUS
    <3> HIDE DEF t
    <3>8. Good(cs', thread') BY <3>1, <3>6, <3>7, CallsLua
    <3> QED BY <3>8 DEF IInv
  <2> QED BY <2>9, <2>10
<1>7. \/ cs' = cs /\ thread' = resume_error(thread, co)
      \/ nc < MaxCCalls /\ IF lc.status = "yield" THEN Continues(c, t, co)
                           ELSE Starts(c, t, co)
  <2> DEFINE t0 == [thread EXCEPT ![co].nCcalls = nc + 1, ![co].baseCcalls = nc + 1,
                                  ![co].ran = TRUE]
  <2>1. t0 = t
    <3>1. t0[co] = l2 /\ t[co] = l2 BY <1>1, <1>3
    <3>2. \A y \in Threads : y # co => t0[y] = t[y] BY <1>1, SMTT(30)
    <3>3. DOMAIN t0 = Threads /\ DOMAIN t = Threads BY <1>1, SMTT(30)
    <3>4. t0 = [y \in Threads |-> t0[y]] /\ t = [y \in Threads |-> t[y]] BY <1>1
    <3> HIDE DEF t0, t, l2
    <3> QED BY <3>1, <3>2, <3>4
  <2>2. IF nc >= MaxCCalls THEN cs' = cs /\ thread' = resume_error(thread, co)
        ELSE IF lc.status = "yield" THEN Continues(c, t0, co) ELSE Starts(c, t0, co)
    BY DEF Resumes
  <2> HIDE DEF t0
  <2>3. nc \in Nat /\ MaxCCalls \in Nat BY <1>4, Consts
  <2> HIDE DEF nc
  <2> QED BY <2>1, <2>2, <2>3
<1> QED BY <1>5, <1>6, <1>7

(* A coroutine whose resumption is on top has run all its calls, or has yielded. *)
LEMMA ResumptionOnTop ==
  ASSUME NEW c, NEW t, Core(c, t), NEW n, n = Len(c), c[n].k = "resume",
         NEW co, co = c[n].th
  PROVE  /\ n >= 2 /\ c[n - 1].k = "C" /\ c[n - 1].th # co /\ co # Main
         /\ \A j \in 1..(n - 1) : c[j].th # co
         /\ t[co].errfunc = NoHandler
         /\ t[co].status = "ok" => Len(t[co].ci) = 1
         /\ t[co].status = "yield" => Suspended(t[co])
<1>1. /\ Chain(c) /\ c \in Seq(Activation) /\ n \in Nat \ {0} /\ co \in Threads BY Typed
<1>2. n >= 2
  <2>1. c[Len(c)].k # "C" OBVIOUS
  <2> QED BY <1>1, <2>1, NotFirst
<1>3. /\ n \in 2..n /\ n - 1 \in 0..n /\ n - 1 \in Nat /\ n - 1 < n /\ (n - 1) + 1 = n
      /\ n \in Nat /\ n - 1 \in 1..(n - 1) /\ n \in 1..n
  BY <1>1, <1>2
<1>4. On(c, n) BY <1>1, <1>3, Places
<1>5. c[n - 1].k = "C" /\ co # Main /\ \A j \in 1..(n - 1) : c[j].th # co BY <1>4 DEF On
<1>6. Busy(c, co) BY <1>3 DEF Busy
<1>7. MatchAt(c, t[co], co) BY <1>1 DEF Core, Match
<1>8. t[co].errfunc = NoHandler
  <2>1. HandlerOK(c, n, co, t[co].errfunc) BY <1>1 DEF Core, Handlers
  <2>2. ASSUME NEW i \in 1..n, IsPcall(c[i], co) PROVE FALSE
    <3>1. i # n BY <2>2 DEF IsPcall
    <3>2. i \in 1..(n - 1) BY <1>1, <3>1
    <3> QED BY <1>5, <2>2, <3>2 DEF IsPcall
  <2> QED BY <2>1, <2>2 DEF HandlerOK
<1>9. Entries(c, co, n) = 1
  <2>1. Entries(c, co, n - 1) = 0
    <3>1. \A j \in (0 + 1)..(n - 1) : c[j].th # co BY <1>5
    <3>2. Entries(c, co, 0) = Entries(c, co, n - 1) BY <1>3, <3>1, EntriesStay
    <3>3. Entries(c, co, 0) = 0 BY <1>1, <1>3, EntriesStep
    <3> QED BY <3>2, <3>3
  <2>2. Width(c[n]) = 1 BY DEF Width
  <2>3. Entries(c, co, (n - 1) + 1) = Entries(c, co, n - 1) + Width(c[n])
    BY <1>1, <1>3, EntriesStep
  <2> QED BY <1>3, <2>1, <2>2, <2>3
<1>10. t[co].status = "ok" => Len(t[co].ci) = 1 BY <1>6, <1>7, <1>9 DEF MatchAt, Matches
<1>11. t[co].status = "yield" => Suspended(t[co]) BY <1>7 DEF MatchAt
<1>12. c[n - 1].th # co BY <1>3, <1>5
<1> QED BY <1>2, <1>5, <1>8, <1>10, <1>11, <1>12

LEMMA StepResumeReturns ==
  ASSUME IInv, ResumeReturns
  PROVE  IInv'
<1> DEFINE n == Len(cs)
           f == cs[n]
           co == f.th
           to == cs[n - 1].th
           lc == thread[co]
           l == thread[to]
           m == lc.top - lc.base
           t0 == [thread EXCEPT ![co].nCcalls = 0, ![co].baseCcalls = 0]
           l1 == [lc EXCEPT !.nCcalls = 0, !.baseCcalls = 0]
           c == Front(cs)
           t1 == [thread EXCEPT ![co] = l1]
<1>1. Core(cs, thread) /\ Bounded(cs) /\ f.k = "resume"
  BY DEF IInv, Good, ResumeReturns, Top
<1>2. /\ Chain(cs) /\ n \in Nat \ {0} /\ cs \in Seq(Activation)
      /\ co \in Threads /\ lc \in ThreadRec /\ ThreadOK(lc)
      /\ thread \in [Threads -> ThreadRec]
  BY <1>1, Typed
<1>3. /\ n >= 2 /\ cs[n - 1].k = "C" /\ to # co /\ co # Main
      /\ lc.errfunc = NoHandler
      /\ lc.status = "ok" => Len(lc.ci) = 1
      /\ lc.status = "yield" => Suspended(lc)
  BY <1>1, ResumptionOnTop
<1>4. lc.base \in Nat /\ lc.top \in Nat /\ m \in Nat /\ lc.top - m = lc.base
  <2>1. lc.base \in Nat /\ lc.top \in Nat /\ lc.base <= lc.top BY <1>2, ThreadFields
  <2> HIDE DEF lc
  <2> QED BY <2>1
<1>5. to \in Threads /\ ThreadOK(l) /\ l.base \in Nat /\ l.top \in Nat /\ l.base <= l.top
  <2>1. n - 1 \in 1..n BY <1>2, <1>3
  <2>2. to \in Threads BY <1>1, <2>1, Typed
  <2>3. ThreadOK(l) BY <1>1, <2>2, Typed
  <2> QED BY <2>2, <2>3, ThreadFields
<1>6. /\ l1 \in ThreadRec /\ l1.top = lc.top /\ l1.base = lc.base
      /\ l1.ci = lc.ci /\ l1.open = lc.open /\ l1.size_ci = lc.size_ci
      /\ l1.status = lc.status /\ l1.errfunc = lc.errfunc
  <2> HIDE DEF lc
  <2>1. l1 \in ThreadRec BY <1>2 DEF ThreadRec
  <2> QED BY <1>2, <2>1 DEF ThreadRec
<1>7. t0 = t1
  <2>1. t0[co] = l1 /\ t1[co] = l1 BY <1>2
  <2>2. \A y \in Threads : y # co => t0[y] = t1[y] BY <1>2
  <2>3. t0 = [y \in Threads |-> t0[y]] /\ t1 = [y \in Threads |-> t1[y]] BY <1>2, ZenonT(30)
  <2> HIDE DEF t0, t1, l1
  <2> QED BY <2>1, <2>2, <2>3
<1>8. \/ cs' = c /\ thread' = [t0 EXCEPT ![co].top = @ - m, ![to] = Received(@, m)]
      \/ n > 2 /\ luaG_runerror(c, t0, to)
  BY DEF ResumeReturns, Top
<1> HIDE DEF t0, l1
<1>9. ThreadOK(l1) BY <1>2, <1>6, ZenonT(30) DEF ThreadOK
<1>10. Core(c, t1)
  <2>1. n \in 2..Len(cs) /\ \A i \in n..Len(cs) : cs[i].th = co
    <3>1. \A i \in n..Len(cs) : i = n BY <1>2
    <3> QED BY <1>2, <1>3, <3>1
  <2>2. /\ l1.errfunc = NoHandler
        /\ l1.status = "ok" => Len(l1.ci) = 1
        /\ l1.status = "yield" => Suspended(l1)
    BY <1>3, <1>6 DEF Suspended
  <2>3. Core(SubSeq(cs, 1, n - 1), t1) BY <1>1, <1>9, <2>1, <2>2, CutThread
  <2> QED BY <2>3 DEF Front
<1>11. Len(c) = n - 1 /\ c[n - 1] = cs[n - 1] /\ Bounded(c) BY <1>1, <1>2, <1>3, Popped
<1>12. c[Len(c)].k = "C" /\ to = c[Len(c)].th BY <1>3, <1>11
<1>13. t1[to] = l /\ t1[co] = l1 /\ t1 \in [Threads -> ThreadRec] BY <1>2, <1>3, <1>5, <1>6
<1>14. CASE cs' = c /\ thread' = [t0 EXCEPT ![co].top = @ - m, ![to] = Received(@, m)]
  <2> DEFINE b == lc.base
             x == l.top + m
             t2 == [t1 EXCEPT ![co].top = b]
  <2>1. Good(c, t2)
    <3>1. b \in Nat /\ t1[co].base <= b BY <1>4, <1>6, <1>13
    <3> HIDE DEF t1, c, b
    <3> QED BY <1>2, <1>10, <1>11, <1>12, <3>1, Moves
  <2>2. t2[to] = l BY <1>3, <1>5, <1>13
  <2>3. thread' = [t2 EXCEPT ![to].top = x]
    <3>1. thread' = [t1 EXCEPT ![co].top = t1[co].top - m, ![to] = Received(@, m)]
      BY <1>7, <1>14
    <3>2. t1[co].top - m = b BY <1>4, <1>6, <1>13
    <3>3. Received(l, m) = [l EXCEPT !.top = x] BY DEF Received
    <3> HIDE DEF t1, b, m, x, l
    <3>4. thread' = [t1 EXCEPT ![co].top = b, ![to] = Received(@, m)] BY <3>1, <3>2
    <3>5. [t1 EXCEPT ![co].top = b, ![to] = Received(@, m)]
            = [[t1 EXCEPT ![co].top = b] EXCEPT ![to].top = x]
      BY <1>2, <1>3, <1>5, <1>13, <3>3
    <3> QED BY <3>4, <3>5
  <2>4. x \in Nat /\ t2[to].base <= x
    <3>1. x \in Nat /\ l.base <= x
      <4> HIDE DEF l, m
      <4> QED BY <1>4, <1>5
    <3> QED BY <2>2, <3>1
  <2> HIDE DEF t2, x, c
  <2>5. Good(c, [t2 EXCEPT ![to].top = x])
    <3>1. Core(c, t2) BY <2>1 DEF Good
    <3> QED BY <1>5, <1>11, <1>12, <2>4, <3>1, Moves
  <2> QED BY <1>14, <2>3, <2>5 DEF IInv
<1>15. CASE n > 2 /\ luaG_runerror(c, t0, to)
  <2>1. luaG_runerror(c, t1, to) BY <1>7, <1>15
  <2>2. Len(c) >= 2 BY <1>2, <1>11, <1>15
  <2>3. t1[to].status = "ok" BY <1>10, <1>12, RunsOk
  <2>4. \A i \in 1..Len(c) : IsPcall(c[i], to) => c[i].old_top < l.base
    BY <1>10, <1>12, <1>13, FrameHigh
  <2>5. High(c, to, l.top) BY <1>5, <1>10, <2>4, HighUp
  <2> HIDE DEF t1, c
  <2>6. Good(cs', thread')
    BY <1>10, <1>11, <1>12, <1>13, <2>1, <2>2, <2>3, <2>5, RunError
  <2> QED BY <2>6 DEF IInv
<1> QED BY <1>8, <1>14, <1>15, SMTT(30)

(* Where a C function may yield, the interpreter has called it and a resumption
   has started the interpreter: the count of C calls tells. *)
LEMMA YieldAllowed ==
  ASSUME NEW c, NEW t, Core(c, t), NEW n, n = Len(c), n >= 2, c[n].k = "C",
         NEW th, th = c[n].th, ~(t[th].nCcalls > t[th].baseCcalls)
  PROVE  /\ n - 2 \in 2..n /\ c[n - 1].k = "exec" /\ c[n - 2].k = "resume"
         /\ \A i \in (n - 2)..n : c[i].th = th
         /\ \A i \in 1..(n - 3) : c[i].th # th
         /\ Nested(c, n) = Nested(c, n - 2)
<1>1. Chain(c) /\ c \in Seq(Activation) /\ n \in Nat \ {0} /\ th \in Threads BY Typed
<1>2. t[th].nCcalls = Nested(c, n) BY DEF Core, Depth
<1>3. /\ n \in 2..n /\ n - 1 \in Nat /\ n - 1 \in 1..n /\ n \in 1..n
  BY <1>1
<1>4. On(c, n) BY <1>1, <1>3, Places
<1>5. c[n - 1].k \in {"exec", "call"} /\ c[n - 1].th = th BY <1>4 DEF On
<1>6. ASSUME c[n - 1].k # "exec" PROVE Counted(c[n - 1])
  <2>1. c[n - 1].k = "call" BY <1>5, <1>6
  <2>2. c[n - 1].ph = "done" BY <1>4, <2>1 DEF On
  <2> QED BY <2>1, <2>2 DEF Counted
<1>7. n - 1 # 1
  <2>1. c[1].k = "C" BY <1>1 DEF Chain
  <2> QED BY <1>5, <2>1
<1>8. /\ n - 1 \in 2..n /\ n - 2 \in Nat /\ n - 2 \in 1..n /\ (n - 1) - 1 = n - 2
      /\ (n - 2) + 1 = n - 1 /\ (n - 1) + 1 = n
  BY <1>1, <1>3, <1>7
<1>9. On(c, n - 1) BY <1>1, <1>8, Places
<1>10. ASSUME c[n - 1].k = "exec" PROVE Counted(c[n - 2]) /\ c[n - 2].k \in {"call", "resume"}
  <2>1. c[n - 2].k \in {"call", "resume"} BY <1>8, <1>9, <1>10 DEF On
  <2>2. c[n - 2].k = "call" => c[n - 2].ph = "done" BY <1>8, <1>9 DEF On
  <2> QED BY <2>1, <2>2 DEF Counted
<1>11. \A i \in 1..n : /\ Nested(c, i) \in Nat /\ Nested(c, i - 1) \in Nat
                       /\ Nested(c, i) <= Nested(c, n)
                       /\ Counted(c[i]) => Nested(c, i) = Nested(c, i - 1) + 1
  <2> TAKE i \in 1..n
  <2>1. i \in Nat /\ i - 1 \in Nat /\ (i - 1) + 1 = i /\ n \in Nat /\ i <= n BY <1>1
  <2>2. /\ Nested(c, i - 1) \in Nat
        /\ Nested(c, (i - 1) + 1) = Nested(c, i - 1) + IF Counted(c[(i - 1) + 1]) THEN 1 ELSE 0
    BY <2>1, NestedStep
  <2>3. Nested(c, i) \in Nat BY <2>1, NestedStep
  <2>4. Nested(c, i) <= Nested(c, n) BY <2>1, NestedGrows
  <2> QED BY <2>1, <2>2, <2>3, <2>4
<1>12. Nested(c, n) \in Nat BY <1>3, <1>11
<1>13. th # Main
  <2> SUFFICES ASSUME th = Main PROVE FALSE OBVIOUS
  <2>1. t[th].baseCcalls = 0 BY DEF Core, Depth
  <2>2. Nested(c, n) = 0
    <3>1. ~(Nested(c, n) > 0) BY <1>2, <2>1
    <3> QED BY <1>12, <3>1
  <2>3. \A i \in 1..n : ~Counted(c[i])
    <3> SUFFICES ASSUME NEW i \in 1..n, Counted(c[i]) PROVE FALSE OBVIOUS
    <3>1. Nested(c, i) = Nested(c, i - 1) + 1 /\ Nested(c, i - 1) \in Nat /\ Nested(c, i) <= 0
      BY <1>11, <2>2
    <3> QED BY <3>1
  <2> QED BY <1>3, <1>6, <1>8, <1>10, <2>3
<1>14. PICK r \in 2..n : /\ c[r].k = "resume" /\ c[r].th = th
                         /\ \A m \in r..n : c[m].th = th
  <2>1. n \in 1..Len(c) /\ c[n].th # Main BY <1>3, <1>13
  <2>2. \E r \in 2..n : c[r].k = "resume" /\ c[r].th = c[n].th
                       /\ \A m \in r..n : c[m].th = c[n].th
    BY <1>1, <2>1, Resumer
  <2> QED BY <2>2
<1>15. t[th].baseCcalls = Nested(c, r)
  <2>1. DepthAt(c, t, r) BY <1>14 DEF Core, Depth
  <2> QED BY <1>14, <2>1 DEF DepthAt
<1>16. r \in 1..n /\ r \in Nat /\ Nested(c, r) \in Nat
  <2>1. r \in 1..n /\ r \in Nat OBVIOUS
  <2> QED BY <1>11, <2>1
<1>17. Nested(c, n) <= Nested(c, r)
  <2>1. ~(Nested(c, n) > Nested(c, r)) BY <1>2, <1>15
  <2> QED BY <1>12, <1>16, <2>1
<1>18. \A i \in (r + 1)..n : ~Counted(c[i])
  <2> SUFFICES ASSUME NEW i \in (r + 1)..n, Counted(c[i]) PROVE FALSE OBVIOUS
  <2>1. i \in 1..n /\ i - 1 \in Nat /\ r <= i - 1 BY <1>1, <1>16
  <2>2. Nested(c, r) <= Nested(c, i - 1) BY <1>16, <2>1, NestedGrows
  <2>3. /\ Nested(c, i) = Nested(c, i - 1) + 1 /\ Nested(c, i - 1) \in Nat
        /\ Nested(c, i) <= Nested(c, n) /\ Nested(c, i) \in Nat
    BY <1>11, <2>1
  <2> QED BY <1>12, <1>16, <1>17, <2>2, <2>3
<1>19. r # n /\ r # n - 1 BY <1>5, <1>14
<1>20. n - 1 \in (r + 1)..n BY <1>1, <1>19
<1>21. c[n - 1].k = "exec" BY <1>6, <1>18, <1>20
<1>22. r = n - 2
  <2> SUFFICES ASSUME r # n - 2 PROVE FALSE OBVIOUS
  <2>1. n - 2 \in (r + 1)..n BY <1>1, <1>19
  <2> QED BY <1>10, <1>18, <1>21, <2>1
<1>23. Nested(c, n) = Nested(c, n - 2)
  <2>1. Nested(c, r) <= Nested(c, n) BY <1>11, <1>16
  <2>2. Nested(c, n) = Nested(c, r) BY <1>12, <1>16, <1>17, <2>1
  <2> QED BY <1>22, <2>2
<1>24. \A i \in 1..(n - 3) : c[i].th # th
  <2>1. On(c, r) BY <1>1, <1>14, Places
  <2>2. \A j \in 1..r - 1 : c[j].th # c[r].th BY <1>14, <2>1 DEF On
  <2>3. r - 1 = n - 3 BY <1>1, <1>22
  <2> QED BY <1>14, <2>2, <2>3
<1> QED BY <1>14, <1>21, <1>22, <1>23, <1>24

LEMMA Steplua_yield ==
  ASSUME IInv, lua_yield
  PROVE  IInv'
<1> DEFINE n == Len(cs)
           th == cs[n].th
           l == thread[th]
           k == n - 2
           l2 == [l EXCEPT !.status = "yield"]
           c == SubSeq(cs, 1, k)
           t == [thread EXCEPT ![th] = l2]
<1>1. InC /\ n > 1 BY DEF lua_yield, Called
<1>2. /\ Core(cs, thread) /\ Bounded(cs) /\ Chain(cs) /\ n \in Nat \ {0} /\ n >= 2
      /\ cs[n].k = "C" /\ L = th /\ th \in Threads /\ ThreadOK(l) /\ l.status = "ok"
      /\ l \in ThreadRec /\ thread \in [Threads -> ThreadRec] /\ High(cs, th, l.top)
  <2>1. L = th BY <1>1, InFunction
  <2> QED BY <1>1, <2>1, InFunction
<1>3. CASE luaG_runerror(cs, thread, L)
  <2>1. Good(cs', thread') BY <1>2, <1>3, RunError
  <2> QED BY <2>1 DEF IInv
<1>4. CASE /\ ~(l.nCcalls > l.baseCcalls)
           /\ cs' = IF cs[n - 1].k = "exec" THEN SubSeq(cs, 1, n - 2) ELSE Front(cs)
           /\ thread' = [thread EXCEPT ![th].status = "yield"]
  <2>1. /\ k \in 2..n /\ cs[n - 1].k = "exec" /\ cs[k].k = "resume"
        /\ \A i \in k..n : cs[i].th = th
        /\ \A i \in 1..(n - 3) : cs[i].th # th
        /\ Nested(cs, n) = Nested(cs, k)
    BY <1>2, <1>4, YieldAllowed, SMTT(30)
  <2>2. cs' = c /\ thread' = t BY <1>4, <2>1
  <2>3. /\ l2 \in ThreadRec /\ l2.top = l.top /\ l2.base = l.base
        /\ l2.ci = l.ci /\ l2.open = l.open /\ l2.size_ci = l.size_ci
        /\ l2.status = "yield" /\ l2.nCcalls = l.nCcalls
        /\ l2.baseCcalls = l.baseCcalls /\ l2.errfunc = l.errfunc
    <3> HIDE DEF l
    <3> QED BY <1>2, ZenonT(30) DEF ThreadRec
  <2> HIDE DEF l2
  <2>4. ThreadOK(l2) BY <1>2, <2>3, ZenonT(30) DEF ThreadOK
  <2>5. /\ k \in 1..(n - 1) /\ k \in 1..n /\ k \in Nat /\ k - 1 = n - 3 /\ k + 1 = n - 1
        /\ (n - 1) + 1 = n /\ n - 1 \in 1..n /\ n \in 1..n /\ k < n
    BY <1>2, <2>1
  <2>6. Nested(cs, k) = l.nCcalls
    <3>1. l.nCcalls = Nested(cs, n) BY <1>2 DEF Core, Depth
    <3> QED BY <2>1, <3>1
  <2>7. /\ Len(c) = k /\ Same(cs, c, k) /\ \A i \in 1..k : c[i] = cs[i]
        /\ Nested(c, k) = Nested(cs, k)
    <3>1. k \in 0..k BY <2>5, SMTT(30)
    <3> QED BY <1>2, <2>5, <3>1, Cutting, SMTT(30)
  <2>8. Suspended(l2)
    <3> DEFINE w == Width(cs[n - 1])
               e(i) == Entries(cs, th, i)
               ci == l.ci
    <3>1. cs \in Seq(Activation) /\ cs[n - 1] \in Activation /\ Len(ci) \in Nat
      BY <1>2, <2>5, Typed
    <3>2. w \in Nat /\ w >= 1 BY <2>1, <3>1, Widths
    <3>3. Width(cs[k]) = 1 /\ Width(cs[n]) = 1 BY <1>2, <2>1 DEF Width
    <3>4. e(k - 1) = 0
      <4>1. \A j \in (0 + 1)..(k - 1) : cs[j].th # th BY <2>1, <2>5
      <4>2. 0 \in Nat /\ k - 1 \in Nat /\ 0 <= k - 1 BY <2>5
      <4>3. Entries(cs, th, 0) = Entries(cs, th, k - 1) BY <4>1, <4>2, EntriesStay
      <4>4. 0 \in 0..Len(cs) BY <1>2
      <4>5. Entries(cs, th, 0) = 0 BY <3>1, <4>4, EntriesStep
      <4> QED BY <4>3, <4>5
    <3>5. e(k) = 1
      <4>1. k - 1 \in 0..Len(cs) /\ k - 1 < Len(cs) /\ (k - 1) + 1 = k BY <2>5
      <4>2. cs[k].th = th BY <2>1, <2>5
      <4>3. e((k - 1) + 1) = e(k - 1) + Width(cs[k]) BY <3>1, <4>1, <4>2, EntriesStep
      <4> QED BY <3>3, <3>4, <4>1, <4>3
    <3>6. e(n - 1) = 1 + w
      <4>1. k \in 0..Len(cs) /\ k < Len(cs) BY <2>5
      <4>2. cs[n - 1].th = th BY <1>2, <2>1, <2>5
      <4>3. e(k + 1) = e(k) + Width(cs[n - 1]) BY <2>5, <3>1, <4>1, <4>2, EntriesStep
      <4> QED BY <2>5, <3>5, <4>3
    <3>7. e(n) = 2 + w
      <4>1. n - 1 \in 0..Len(cs) /\ n - 1 < Len(cs) BY <2>5
      <4>2. e((n - 1) + 1) = e(n - 1) + Width(cs[n]) BY <2>5, <3>1, <4>1, EntriesStep
      <4> HIDE DEF w, e
      <4> QED BY <2>5, <3>2, <3>3, <3>6, <4>2
    <3>8. Matches(cs, ci, th)
      <4>1. cs[n].k # "resume" BY <1>2
      <4> QED BY <1>2, <4>1, RunsOk
    <3>9. Len(ci) = 2 + w BY <3>7, <3>8 DEF Matches
    <3>10. \A i \in {n - 1, n} : \A m \in 1..Len(ci) :
             (e(i) - Width(cs[i]) < m /\ m <= e(i)) => (ci[m].lua <=> cs[i].k = "exec")
      <4>1. \A i \in {n - 1, n} : i \in 1..Len(cs) /\ cs[i].th = th
        <5>1. n - 1 \in k..n /\ n \in k..n BY <2>5
        <5>2. cs[n - 1].th = th /\ cs[n].th = th BY <2>1, <5>1
        <5> QED BY <2>5, <5>2, ZenonT(30)
      <4> QED BY <3>8, <4>1, SMTT(30) DEF Matches
    <3> HIDE DEF w, ci, e
    <3>11. Len(ci) >= 3 BY <3>2, <3>9
    <3>12. \A m \in 2..Len(ci) : ci[m].lua <=> m < Len(ci)
      <4> TAKE m \in 2..Len(ci)
      <4>1. m \in 1..Len(ci) /\ m \in Nat BY <3>1
      <4>2. CASE m < Len(ci)
        <5>1. e(n - 1) - Width(cs[n - 1]) < m /\ m <= e(n - 1)
          BY <3>2, <3>6, <3>9, <4>1, <4>2 DEF w
        <5> QED BY <2>1, <3>10, <4>1, <4>2, <5>1
      <4>3. CASE m = Len(ci)
        <5>1. e(n) - Width(cs[n]) < m /\ m <= e(n) BY <3>2, <3>3, <3>7, <3>9, <4>3
        <5>2. cs[n].k # "exec" BY <1>2
        <5>3. ~(m < Len(ci)) BY <4>1, <4>3
        <5> QED BY <3>10, <4>1, <5>1, <5>2, <5>3
      <4> QED BY <3>1, <4>1, <4>2, <4>3
    <3> QED BY <2>3, <3>11, <3>12 DEF Suspended, ci
  <2>9. MatchAt(c, l2, th)
    <3>1. c[Len(c)].k = "resume" /\ c[Len(c)].th = th BY <2>1, <2>5, <2>7
    <3>2. Busy(c, th) BY <2>5, <2>7, <3>1 DEF Busy
    <3> HIDE DEF c
    <3> QED BY <2>3, <2>8, <3>1, <3>2 DEF MatchAt
  <2>10. HandlerOK(c, k, th, l2.errfunc)
    <3>1. HandlerOK(cs, n, th, l.errfunc) BY <1>2 DEF Core, Handlers
    <3>2. \A i \in (k + 1)..n : ~IsPcall(cs[i], th)
      <4>1. \A i \in (k + 1)..n : i = n - 1 \/ i = n BY <1>2
      <4> QED BY <1>2, <2>1, <4>1 DEF IsPcall
    <3>3. \A i \in (k + 1)..k : ~IsPcall(c[i], th) BY <2>5
    <3>4. n \in Nat /\ k <= n /\ k <= k BY <1>2, <2>5
    <3> HIDE DEF c, k
    <3> QED BY <2>3, <2>5, <2>7, <3>1, <3>2, <3>3, <3>4, HandlerSame
  <2>11. \A i \in 1..k : cs[i].th = th => PcallAt(cs, t, i)
    <3> SUFFICES ASSUME NEW i \in 1..k, cs[i].th = th PROVE PcallAt(cs, t, i) OBVIOUS
    <3>1. i = k
      <4> SUFFICES ASSUME i # k PROVE FALSE OBVIOUS
      <4>1. i \in 1..(n - 3) BY <1>2
      <4> QED BY <2>1, <4>1
    <3> QED BY <2>1, <3>1 DEF PcallAt
  <2>12. Core(c, t)
    <3>1. \A i \in k..Len(cs) : cs[i].th = th BY <2>1
    <3>2. l2.nCcalls = Nested(cs, k) /\ l2.baseCcalls = l.baseCcalls BY <2>3, <2>6
    <3> HIDE DEF k
    <3> QED BY <1>2, <2>4, <2>5, <2>9, <2>10, <2>11, <3>1, <3>2, CutAny
  <2>13. c[Len(c)].k = "resume" BY <2>1, <2>5, <2>7
  <2>14. Bounded(c) BY <1>2, <2>1, <2>7 DEF Bounded
  <2> HIDE DEF c, t
  <2>15. TopOK(c, t) BY <2>13 DEF TopOK
  <2> QED BY <2>2, <2>12, <2>14, <2>15 DEF IInv, Good
<1>5. \/ luaG_runerror(cs, thread, L)
      \/ /\ ~(l.nCcalls > l.baseCcalls)
         /\ cs' = IF cs[n - 1].k = "exec" THEN SubSeq(cs, 1, n - 2) ELSE Front(cs)
         /\ thread' = [thread EXCEPT ![th].status = "yield"]
  BY <1>2 DEF lua_yield
<1> QED BY <1>3, <1>4, <1>5

LEMMA StepCFunction ==
  ASSUME IInv, CFunction
  PROVE  IInv'
BY Steplua_call, Steplua_pcall, StepReturns, StepluaB_cocreate, StepResumes,
   Steplua_error, Steplua_yield, Steplua_settop DEF CFunction

------------------------------------------------------------------------------
(* The invariant *)

LEMMA InitOK ==
  ASSUME Init
  PROVE  IInv
<1> DEFINE f == [k |-> "C", th |-> Main]
           c == <<f>>
           t == [th \in Threads |-> NewThread]
<1>1. cs = c /\ thread = t BY DEF Init
<1>2. Len(c) = 1 /\ c[1] = f /\ Main \in Threads /\ f \in Activation
  <2>1. Main \in Threads BY DEF Threads
  <2>2. f \in CFrames BY <2>1 DEF CFrames
  <2> QED BY <2>1, <2>2 DEF Activation
<1>3. f.k = "C" /\ f.th = Main /\ Width(f) = 1 /\ ~Counted(f) BY DEF Width, Counted
<1>4. c \in Seq(Activation) BY <1>2
<1>5. Nested(c, 1) = 0
  <2>1. 0 \in Nat /\ 0 + 1 = 1 OBVIOUS
  <2>2. Nested(c, 0) = 0 /\ Nested(c, 0 + 1) = Nested(c, 0) + IF Counted(c[0 + 1]) THEN 1 ELSE 0
    BY <2>1, NestedStep
  <2> QED BY <1>2, <1>3, <2>1, <2>2
<1>6. Entries(c, Main, 1) = 1
  <2>1. 0 \in 0..Len(c) /\ 0 + 1 = 1 /\ 0 < Len(c) BY <1>2
  <2>2. /\ Entries(c, Main, 0) = 0
        /\ Entries(c, Main, 0 + 1) =
             Entries(c, Main, 0) + IF c[0 + 1].th = Main THEN Width(c[0 + 1]) ELSE 0
    <3> HIDE DEF c
    <3> QED BY <1>4, <2>1, EntriesStep
  <2> QED BY <1>2, <1>3, <2>1, <2>2
<1>7. /\ NewThread.status = "ok" /\ NewThread.ci = <<BaseCi>> /\ NewThread.nCcalls = 0
      /\ NewThread.baseCcalls = 0 /\ NewThread.errfunc = NoHandler /\ ~BaseCi.lua
  BY DEF NewThread, BaseCi
<1>8. \A th \in Threads : t[th] = NewThread OBVIOUS
<1>9. \A i : i \in 1..1 <=> i = 1 OBVIOUS
<1>10. \A i \in 2..1 : FALSE OBVIOUS
<1> HIDE DEF c, t, f
<1>11. Chain(c)
  <2>1. c # <<>> BY <1>2
  <2> QED BY <1>2, <1>4, <1>10, <2>1 DEF Chain, f
<1>12. ThreadsOK(t)
  <2>1. ThreadOK(NewThread) BY NewOK
  <2>2. NewThread \in ThreadRec BY <2>1 DEF ThreadOK
  <2>3. t \in [Threads -> ThreadRec] BY <2>2 DEF t
  <2> QED BY <1>8, <2>1, <2>3 DEF ThreadsOK
<1>13. Depth(c, t) BY <1>2, <1>3, <1>5, <1>7, <1>8, <1>10 DEF Depth
<1>14. Match(c, t)
  <2> SUFFICES ASSUME NEW th \in Threads PROVE MatchAt(c, NewThread, th)
    BY <1>8 DEF Match
  <2>1. Len(<<BaseCi>>) = 1 /\ <<BaseCi>>[1] = BaseCi OBVIOUS
  <2>2. Busy(c, th) => th = Main BY <1>2, <1>3, <1>9 DEF Busy
  <2>3. Matches(c, <<BaseCi>>, Main)
    <3>1. Len(<<BaseCi>>) = Entries(c, Main, Len(c)) BY <1>2, <1>6, <2>1
    <3>2. \A m \in 1..Len(<<BaseCi>>) : m = 1 BY <2>1
    <3>3. \A i \in 1..Len(c) : i = 1 BY <1>2
    <3>4. BaseCi.lua <=> c[1].k = "exec" BY <1>2, <1>3, <1>7
    <3> QED BY <2>1, <3>1, <3>2, <3>3, <3>4 DEF Matches
  <2> QED BY <1>7, <2>1, <2>2, <2>3 DEF MatchAt
<1>15. PcallsOK(c, t) BY <1>2, <1>3, <1>9 DEF PcallsOK, PcallAt
<1>16. Handlers(c, t) BY <1>2, <1>3, <1>7, <1>8, <1>9 DEF Handlers, HandlerOK
<1>17. TopOK(c, t) BY <1>2, <1>3 DEF TopOK
<1>18. Bounded(c)
  <2>1. 0 < MaxCCalls + CCallsRoom BY Consts
  <2> QED BY <1>2, <1>5, <2>1 DEF Bounded
<1> QED BY <1>1, <1>11, <1>12, <1>13, <1>14, <1>15, <1>16, <1>17, <1>18 DEF IInv, Good, Core

LEMMA StepOK ==
  ASSUME IInv, [Next]_vars
  PROVE  IInv'
<1>1. CASE Next
  BY <1>1, StepCallEnters, StepCallReturns, StepPcallReturns, StepHandlerCalled,
     StepHandlerReturns, StepResumeReturns, StepInterpreter, StepCFunction DEF Next
<1>2. CASE UNCHANGED vars
  <2>1. cs' = cs /\ thread' = thread BY <1>2 DEF vars
  <2> QED BY <2>1 DEF IInv
<1> QED BY <1>1, <1>2

(* Whatever is called, returns, fails, yields or is resumed: the C stack, the
   CallInfo arrays, the depths and the handlers of all threads fit together. *)
THEOREM Invariance == Spec => []IInv
BY InitOK, StepOK, PTL DEF Spec

------------------------------------------------------------------------------
(* What follows from it *)

LEMMA IInvTypes == IInv => TypeOK
<1> SUFFICES ASSUME IInv PROVE TypeOK OBVIOUS
<1>1. Core(cs, thread) BY DEF IInv, Good
<1>2. cs # <<>> /\ cs[1] = [k |-> "C", th |-> Main] BY <1>1 DEF Core, Chain
<1>3. \A i \in 1..Len(cs) :
        cs[i].k \in {"C", "exec", "call", "pcall", "resume", "errormsg"} /\ cs[i].th \in Threads
  BY <1>1, Typed, Kinds
<1>4. ASSUME NEW th \in Threads
      PROVE  LET l == thread[th] IN
         /\ l.status \in {"ok", "yield", "error"}
         /\ l.ci # <<>> /\ \A i \in 1..Len(l.ci) : l.ci[i] \in CallInfo
         /\ Len(l.ci) <= l.size_ci /\ l.size_ci <= 2 * MaxCalls
         /\ l.base \in Levels /\ l.top \in Levels /\ l.base <= l.top
         /\ l.nCcalls \in Nat /\ l.baseCcalls \in Nat
         /\ l.open \subseteq Levels /\ l.errfunc \in Levels /\ l.ran \in BOOLEAN
  <2> DEFINE l == thread[th]
  <2>1. ThreadOK(l) /\ l \in ThreadRec BY <1>1, Typed
  <2>2. \A i \in 1..Len(l.ci) : l.ci[i] \in CallInfo BY <2>1, ThreadFields
  <2> HIDE DEF l
  <2>3. /\ l.status \in {"ok", "yield", "error"}
        /\ l.base \in Nat /\ l.top \in Nat /\ l.nCcalls \in Nat /\ l.baseCcalls \in Nat
        /\ l.open \subseteq Nat /\ l.errfunc \in Nat
    BY <2>1 DEF ThreadRec
  <2>4. l.ran \in BOOLEAN BY <2>1, Zenon DEF ThreadRec
  <2>5. /\ l.ci # <<>> /\ Len(l.ci) <= l.size_ci /\ l.size_ci <= 2 * MaxCalls
        /\ l.base <= l.top
    BY <2>1 DEF ThreadOK
  <2> QED BY <2>2, <2>3, <2>4, <2>5, Zenon DEF l, Levels
<1> QED BY <1>2, <1>3, <1>4, Zenon DEF TypeOK

LEMMA IInvDepth == IInv => CDepthExact
<1> SUFFICES ASSUME IInv PROVE CDepthExact OBVIOUS
<1>1. Core(cs, thread) /\ Bounded(cs) BY DEF IInv, Good
<1>2. thread[L].nCcalls = Nested(cs, Len(cs)) BY <1>1 DEF Core, Depth, L, Top
<1>3. Nested(cs, Len(cs)) \in Nat
  <2>1. Len(cs) \in Nat BY <1>1, Typed
  <2> QED BY <2>1, NestedStep
<1>4. Nested(cs, Len(cs)) <= MaxCCalls + CCallsRoom BY <1>1, <1>3, Consts DEF Bounded
<1> QED BY <1>2, <1>4, IInvTypes DEF CDepthExact

LEMMA IInvFrames == IInv => FramesMatch
BY DEF IInv, Good, Core, Match, MatchAt, Matches, FramesMatch, Live, Busy

LEMMA IInvRestored == IInv => FrameRestored
<1> SUFFICES ASSUME IInv PROVE FrameRestored OBVIOUS
<1>1. Running => /\ thread[L].base = Here.base /\ Here.lua /\ thread[L].top = FrameTop(Here)
  BY Interprets
<1>2. ASSUME NEW th \in Threads, NEW u \in thread[th].open
      PROVE  \E i \in 1..Len(thread[th].ci) :
               /\ thread[th].ci[i].lua
               /\ thread[th].ci[i].base <= u /\ u < FrameTop(thread[th].ci[i])
  <2>1. ThreadOK(thread[th]) BY Typed DEF IInv, Good
  <2> QED BY <2>1 DEF ThreadOK, FrameTop
<1> QED BY <1>1, <1>2 DEF FrameRestored

LEMMA IInvHandlers == IInv => HandlerIsInnermost
<1> SUFFICES ASSUME IInv, NEW th \in Threads
             PROVE  LET p == {i \in 1..Len(cs) : cs[i].k = "pcall" /\ cs[i].th = th} IN
                      thread[th].errfunc \in {NoHandler} \cup
                        IF p = {} THEN {} ELSE {cs[Max(p)].old_top - 1}
  BY DEF HandlerIsInnermost
<1> DEFINE p == {i \in 1..Len(cs) : cs[i].k = "pcall" /\ cs[i].th = th}
           e == thread[th].errfunc
<1>1. Core(cs, thread) BY DEF IInv, Good
<1>2. HandlerOK(cs, Len(cs), th, e) BY <1>1 DEF Core, Handlers
<1>3. CASE e # NoHandler
  <2>1. PICK i \in 1..Len(cs) : /\ IsPcall(cs[i], th) /\ e = cs[i].old_top - 1
                                /\ \A j \in 1..Len(cs) : i < j => ~IsPcall(cs[j], th)
    BY <1>2, <1>3 DEF HandlerOK
  <2>2. i \in p /\ i \in Nat BY <2>1 DEF IsPcall
  <2>3. \A j \in p : j \in Nat /\ i >= j
    <3> TAKE j \in p
    <3>1. j \in 1..Len(cs) /\ IsPcall(cs[j], th) BY DEF IsPcall
    <3>2. ~(i < j) BY <2>1, <3>1
    <3> QED BY <3>1, <3>2
  <2> HIDE DEF p
  <2>4. \A x \in p : (\A y \in p : x >= y) => x = i
    <3> TAKE x \in p
    <3> HAVE \A y \in p : x >= y
    <3>1. x >= i /\ i >= x /\ x \in Nat BY <2>2, <2>3
    <3> QED BY <2>2, <3>1
  <2>5. Max(p) = i BY <2>2, <2>3, <2>4 DEF Max
  <2> QED BY <2>1, <2>2, <2>5 DEF p
<1>4. CASE e = NoHandler BY <1>4
<1> QED BY <1>3, <1>4

LEMMA IInvYields == IInv => YieldsCutNothing
<1> SUFFICES ASSUME IInv, NEW th \in Threads, thread[th].status = "yield"
             PROVE  /\ Live(th) => Top.k = "resume" /\ L = th
                                   /\ thread[th].nCcalls = thread[th].baseCcalls
                    /\ \A i \in 2..Len(thread[th].ci) :
                         thread[th].ci[i].lua <=> i < Len(thread[th].ci)
  BY DEF YieldsCutNothing
<1> DEFINE n == Len(cs)
<1>1. Core(cs, thread) BY DEF IInv, Good
<1>2. MatchAt(cs, thread[th], th) BY <1>1 DEF Core, Match
<1>3. \A i \in 2..Len(thread[th].ci) : thread[th].ci[i].lua <=> i < Len(thread[th].ci)
  BY <1>2 DEF MatchAt, Suspended
<1>4. ASSUME Live(th)
      PROVE  Top.k = "resume" /\ L = th /\ thread[th].nCcalls = thread[th].baseCcalls
  <2>1. Busy(cs, th) BY <1>4 DEF Live, Busy
  <2>2. cs[n].k = "resume" /\ cs[n].th = th BY <1>2, <2>1 DEF MatchAt
  <2>3. n \in 2..n
    <3>1. Chain(cs) /\ n \in Nat BY <1>1, Typed
    <3>2. n >= 2 BY <2>2, <3>1, NotFirst
    <3> QED BY <3>1, <3>2
  <2>4. DepthAt(cs, thread, n) BY <1>1, <2>3 DEF Core, Depth
  <2>5. thread[th].baseCcalls = Nested(cs, n) BY <2>2, <2>4 DEF DepthAt
  <2>6. thread[th].nCcalls = Nested(cs, n) BY <1>1, <2>2 DEF Core, Depth
  <2> QED BY <2>2, <2>5, <2>6 DEF Top, L
<1> QED BY <1>3, <1>4

LEMMA IInvStatus == IInv => StatusIsTrue
<1> SUFFICES ASSUME IInv, NEW co \in Coroutines, co # L
             PROVE  Live(co) <=> costatus(co) = "normal"
  BY DEF StatusIsTrue
<1>1. Core(cs, thread) /\ L = cs[Len(cs)].th BY DEF IInv, Good, L, Top
<1>2. co \in Threads /\ co # Main BY CallsAssumption DEF Threads
<1>3. Live(co) <=> Busy(cs, co) BY DEF Live, Busy
<1>4. Len(thread[co].ci) \in Nat BY <1>1, <1>2, Typed
<1>5. ASSUME Busy(cs, co) PROVE costatus(co) = "normal"
  <2>1. thread[co].status = "ok" /\ Len(thread[co].ci) >= 2
    BY <1>1, <1>2, <1>5, Waiting
  <2>2. Len(thread[co].ci) > 1 BY <1>4, <2>1
  <2> QED BY <2>1, <2>2 DEF costatus
<1>6. ASSUME costatus(co) = "normal" PROVE Busy(cs, co)
  <2>1. thread[co].status = "ok" /\ Len(thread[co].ci) > 1 BY <1>6 DEF costatus
  <2>2. MatchAt(cs, thread[co], co) BY <1>1, <1>2 DEF Core, Match
  <2>3. Len(thread[co].ci) # 1
    <3> DEFINE m == Len(thread[co].ci)
    <3>1. m \in Nat /\ m > 1 BY <1>4, <2>1
    <3> HIDE DEF m
    <3>2. m # 1 BY <3>1
    <3> QED BY <3>2 DEF m
  <2> QED BY <2>1, <2>2, <2>3 DEF MatchAt
<1> QED BY <1>3, <1>5, <1>6

(* ldo.c, lapi.c: whichever way the calls before have ended (a return, an error
   that luaD_pcall or lua_resume has caught, a yield), nCcalls of the running
   thread is the number of C calls really nested, over all the coroutines that
   wait for one another; so the C stack is bounded by LUAI_MAXCCALLS and the room
   for error handlers, however the program mixes calls and coroutines. *)
THEOREM DepthIsExact == Spec => []CDepthExact
BY Invariance, IInvDepth, PTL

(* ldo.c, lvm.c: after every return, caught error, yield and resumption, whoever
   goes on finds the CallInfo array, its base, its top, its open upvalues and its
   error handler as it left them. *)
THEOREM CallersFindTheirFrames == Spec => []CallersRestored
<1>1. IInv => CallersRestored
  BY IInvFrames, IInvRestored, IInvHandlers DEF CallersRestored
<1> QED BY <1>1, Invariance, PTL

(* lua_yield (ldo.c:447): a yield goes through only where nothing but the
   interpreter lies between it and the resumption, so it never cuts off a C
   function; what is left of the coroutine is Lua functions and the one call that
   resume will end. *)
THEOREM YieldsAreClean == Spec => []YieldsCutNothing
BY Invariance, IInvYields, PTL

(* costatus (lbaselib.c): a coroutine is "normal" exactly when it is on the C
   stack, waiting for another one; so resume never enters a coroutine twice. *)
THEOREM StatusTellsTheTruth == Spec => []StatusIsTrue
BY Invariance, IInvStatus, PTL

==============================================================================
