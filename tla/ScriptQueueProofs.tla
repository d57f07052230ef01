-------------------------- MODULE ScriptQueueProofs --------------------------
(***************************************************************************)
(* Theorems about ScriptQueue for every number of submissions.  The        *)
(* inductive invariant of the drain is Inv: typing, the discipline of      *)
(* scriptListMtx, and what the drain loop knows of the vector while it     *)
(* holds the lock.  Without LockDiscipline a PushBack could run inside a   *)
(* drain and DrainIsolated would not be preserved.                         *)
(***************************************************************************)
EXTENDS ScriptQueue, SequenceTheorems, TLAPS

(* The handler is connected once, by ScheduleCode; a click that is on its way
   to the list has a number left. *)
Phases ==
  /\ ui \in {"starting", "vstate"} => frame = "off"
  /\ ui \in {"clicked", "pushing"} => submitted < MaxSubmits

(* Types, phases, the lock and the drain together are inductive. *)
Inv == TypeOK /\ Phases /\ LockDiscipline /\ DrainIsolated

USE MaxSubmitsAssumption

------------------------------------------------------------------------------
(* What pop_back does to a vector that is not empty. *)
LEMMA PopBack ==
  ASSUME NEW S, NEW s \in Seq(S), s # <<>>
  PROVE  LET t == SubSeq(s, 1, Len(s) - 1) IN
           /\ t \in Seq(S)
           /\ Len(t) = Len(s) - 1
           /\ \A i \in 1 .. Len(t) : t[i] = s[i]
<1> DEFINE n == Len(s) - 1
           t == SubSeq(s, 1, n)
<1>1. n \in Nat BY LenProperties, EmptySeq
<1>2. \A i \in 1 .. n : s[i] \in S BY ElementOfSeq
<1> HIDE DEF n
<1>3. /\ t \in Seq(S)
      /\ Len(t) = IF 1 <= n THEN n - 1 + 1 ELSE 0
      /\ \A i \in 1 .. n - 1 + 1 : t[i] = s[1 + i - 1]
  BY <1>1, <1>2, SubSeqProperties
<1> HIDE DEF t
<1>4. Len(t) = n BY <1>1, <1>3
<1>5. ASSUME NEW i \in 1 .. Len(t) PROVE t[i] = s[i]
  <2>1. i \in 1 .. n - 1 + 1 /\ 1 + i - 1 = i BY <1>1, <1>4
  <2> QED BY <1>3, <2>1
<1> QED BY <1>3, <1>4, <1>5 DEF n, t

LEMMA InitInv == Init => Inv
<1> SUFFICES ASSUME Init PROVE Inv OBVIOUS
<1>1. list \in Seq(Scripts) /\ slots \in Seq(Scripts) /\ log \in Seq(Launch)
  BY EmptySeq, Zenon DEF Init
<1>2. vState \in BOOLEAN /\ alive \in BOOLEAN
  BY Zenon DEF Init
<1>4. TypeOK
  BY <1>1, <1>2 DEF Init, TypeOK, UiStates, FrameStates, Texts
<1>3. Phases /\ LockDiscipline /\ DrainIsolated
  BY DEF Init, Phases, LockDiscipline, DrainIsolated, Draining
<1> QED BY <1>3, <1>4 DEF Inv

(* An iteration finds an element to pop. *)
LEMMA SomethingToPop ==
  ASSUME Inv, frame = "loop", pos <= Len(slots)
  PROVE  list # <<>>
  BY DEF Inv, TypeOK, DrainIsolated, Draining, Popped

(* Steps of the window thread: a push needs the lock, so no drain is running. *)
LEMMA WindowInv ==
  ASSUME Inv, Startup \/ Window
  PROVE  Inv'
<1> USE DEF Inv, TypeOK, Phases, LockDiscipline, DrainIsolated, Draining, Popped,
            UiStates, FrameStates, window, drain, ghosts
<1>1. CASE ScanFails BY <1>1 DEF ScanFails
<1>2. CASE CreateState BY <1>2 DEF CreateState
<1>3. CASE ScheduleCode
  <2>1. alive' \in BOOLEAN BY <1>3, Zenon DEF ScheduleCode
  <2>2. ui' \in UiStates /\ frame' \in FrameStates
    BY <1>3 DEF ScheduleCode
  <2> QED BY <1>3, <2>1, <2>2 DEF ScheduleCode
<1>4. CASE SetupWindow BY <1>4 DEF SetupWindow
<1>5. CASE ClickExecute BY <1>5 DEF ClickExecute
<1>6. CASE LockForPush BY <1>6 DEF LockForPush
<1>7. CASE PushBack
  <2>1. submitted + 1 \in Scripts BY <1>7 DEF PushBack, Scripts
  <2>2. list' \in Seq(Scripts)
    BY <1>7, <2>1, AppendProperties DEF PushBack
  <2> QED BY <1>7, <2>1, <2>2 DEF PushBack, Scripts
<1>8. CASE CloseWindow BY <1>8 DEF CloseWindow
<1> QED BY <1>1, <1>2, <1>3, <1>4, <1>5, <1>6, <1>7, <1>8 DEF Startup, Window

(* Steps of the render thread. *)
LEMMA RenderInv ==
  ASSUME Inv, Render
  PROVE  Inv'
<1> USE DEF Inv, TypeOK, Phases, LockDiscipline, DrainIsolated, Draining, Popped,
            UiStates, FrameStates, window, drain, ghosts
<1>1. CASE BeginFrame BY <1>1 DEF BeginFrame
<1>2. CASE LockList BY <1>2 DEF LockList
<1>3. CASE TakeScript
  <2>1. list # <<>> BY <1>3, SomethingToPop DEF TakeScript
  <2>2. list' \in Seq(Scripts) /\ Len(list') = Len(list) - 1
    /\ \A i \in 1 .. Len(list') : list'[i] = list[i]
    BY <1>3, <2>1, PopBack DEF TakeScript
  <2>3. cur' \in Texts
    BY <1>3 DEF TakeScript, Readable, Texts
  <2> QED BY <1>3, <2>2, <2>3 DEF TakeScript
<1>4. CASE CopyFaults BY <1>4 DEF CopyFaults
<1>5. CASE PrepareFails BY <1>5 DEF PrepareFails
<1>6. CASE LaunchSpawns
  BY <1>6 DEF LaunchSpawns, Launch
<1>7. CASE SpawnReturns
  <2>1. pos' \in Nat \ {0} /\ pos' <= Len(slots') + 1
        /\ Len(list') = Len(slots') - (pos' - 1)
    BY <1>7 DEF SpawnReturns
  <2> QED BY <1>7, <2>1 DEF SpawnReturns
<1>8. CASE LaunchRejects BY <1>8 DEF LaunchRejects, Launch
<1>9. CASE EndDrain BY <1>9 DEF EndDrain
<1> QED BY <1>1, <1>2, <1>3, <1>4, <1>5, <1>6, <1>7, <1>8, <1>9
       DEF Render, Iterate

LEMMA NextInv == Inv /\ [Next]_vars => Inv'
<1> SUFFICES ASSUME Inv, [Next]_vars PROVE Inv' OBVIOUS
<1>1. CASE Next BY <1>1, WindowInv, RenderInv DEF Next
<1>2. CASE UNCHANGED vars
  BY <1>2 DEF vars, window, drain, ghosts, Inv, TypeOK, Phases, LockDiscipline,
     DrainIsolated, Draining, Popped
<1> QED BY <1>1, <1>2

LEMMA AlwaysInv == Spec => []Inv
  BY InitInv, NextInv, PTL DEF Spec

(* Every variable keeps its type. *)
THEOREM TypeCorrect == Spec => []TypeOK
<1>1. Inv => TypeOK BY DEF Inv
<1> QED BY AlwaysInv, <1>1, PTL

(* scriptListMtx is held exactly inside the two guarded scopes. *)
THEOREM MutualExclusion == Spec => []LockDiscipline
<1>1. Inv => LockDiscipline BY DEF Inv
<1> QED BY AlwaysInv, <1>1, PTL

(* Nobody but the drain loop changes the vector while the loop runs. *)
THEOREM Isolation == Spec => []DrainIsolated
<1>1. Inv => DrainIsolated BY DEF Inv
<1> QED BY AlwaysInv, <1>1, PTL

(* The pop_back inside the range-for never meets an empty vector. *)
THEOREM NoUnderflow == Spec => []PopNeverUnderflows
<1>1. Inv => PopNeverUnderflows
  BY SomethingToPop DEF PopNeverUnderflows
<1> QED BY AlwaysInv, <1>1, PTL

(* A complete drain has popped every script: clear() finds nothing. *)
THEOREM NothingCleared == Spec => []ClearDiscardsNothing
<1>1. Inv => ClearDiscardsNothing
  BY DEF Inv, TypeOK, DrainIsolated, Draining, Popped, ClearDiscardsNothing
<1> QED BY AlwaysInv, <1>1, PTL

------------------------------------------------------------------------------
(* The element under the iterator is alive in the first half of a drain. *)
LEMMA FirstHalfStep ==
  ASSUME Inv, FirstHalfIntact, [Next]_vars
  PROVE  FirstHalfIntact'
<1> USE DEF FirstHalfIntact, window, drain, ghosts
<1>1. CASE TakeScript
  BY <1>1 DEF TakeScript, Readable, Inv, TypeOK, DrainIsolated, Draining, Popped
<1>2. CASE ScheduleCode BY <1>2 DEF ScheduleCode
<1>3. CASE (Startup /\ ~ScheduleCode) \/ Window
  BY <1>3 DEF Startup, Window, ScanFails, CreateState, SetupWindow,
     ClickExecute, LockForPush, PushBack, CloseWindow
<1>4. CASE BeginFrame \/ LockList \/ (Iterate /\ ~TakeScript)
  BY <1>4 DEF BeginFrame, LockList, Iterate, CopyFaults, PrepareFails,
     LaunchSpawns, SpawnReturns, LaunchRejects, EndDrain
<1>5. CASE UNCHANGED vars BY <1>5 DEF vars
<1> QED BY <1>1, <1>2, <1>3, <1>4, <1>5 DEF Next, Startup, Render, Iterate

(* The scripts of the first half of a batch reach LaunchVM intact. *)
THEOREM FirstHalf == Spec => []FirstHalfIntact
<1>1. Init => FirstHalfIntact BY DEF Init, FirstHalfIntact
<1> QED BY AlwaysInv, <1>1, FirstHalfStep, PTL DEF Spec

------------------------------------------------------------------------------
(* The order of launches while no drain has been cut short: the i-th entry of
   the log is script i, or a text that was lost.  Waiting scripts carry the
   numbers that follow the log. *)
Launched == IF frame = "spawned" THEN pos ELSE pos - 1

InOrder ==
  aborts = 0 =>
    /\ \A i \in 1 .. Len(log) : log[i].script \in {i, NoText}
    /\ ~Draining => /\ submitted = Len(log) + Len(list)
                    /\ \A i \in 1 .. Len(list) : list[i] = Len(log) + i
    /\ Draining => /\ submitted = mark + Len(slots)
                   /\ \A i \in 1 .. Len(slots) : slots[i] = mark + i
                   /\ Len(log) = mark + Launched
    /\ frame = "launching" => cur \in {mark + pos, NoText}

LEMMA InOrderStep ==
  ASSUME Inv, InOrder, [Next]_vars
  PROVE  InOrder'
<1> USE DEF InOrder, Draining, Launched, window, drain, ghosts
<1>1. CASE TakeScript
  <2>1. /\ frame = "loop" /\ frame' = "launching"
        /\ pos \in Nat \ {0} /\ pos <= Len(slots) /\ slots \in Seq(Scripts)
    BY <1>1 DEF TakeScript, Inv, TypeOK
  <2>2. UNCHANGED <<aborts, log, submitted, slots, mark, pos>>
    BY <1>1 DEF TakeScript
  <2>3. cur' \in {slots[pos], NoText}
    BY <1>1 DEF TakeScript, Readable
  <2>4. aborts = 0 => slots[pos] = mark + pos
    BY <2>1
  <2> QED BY <2>1, <2>2, <2>3, <2>4
<1>2. CASE Startup
  BY <1>2 DEF Inv, Phases, Startup, ScanFails, CreateState, ScheduleCode,
     SetupWindow
<1>3. CASE PushBack
  <2>1. ~Draining
    BY <1>3 DEF PushBack, Inv, LockDiscipline
  <2>2. /\ Len(list') = Len(list) + 1 /\ list'[Len(list) + 1] = submitted + 1
        /\ \A i \in 1 .. Len(list) : list'[i] = list[i]
    BY <1>3, AppendProperties DEF PushBack, Inv, TypeOK
  <2>3. /\ submitted' = submitted + 1 /\ submitted \in Nat
        /\ UNCHANGED <<aborts, log, frame>>
        /\ list \in Seq(Scripts) /\ log \in Seq(Launch)
    BY <1>3 DEF PushBack, Inv, TypeOK
  <2>4. Len(list) \in Nat /\ Len(log) \in Nat
    BY <2>3, LenProperties
  <2>5. ASSUME aborts = 0, NEW i \in 1 .. Len(list')
        PROVE  list'[i] = Len(log) + i
    <3>1. CASE i \in 1 .. Len(list)
      BY <2>1, <2>2, <2>5, <3>1
    <3>2. CASE i = Len(list) + 1
      BY <2>1, <2>2, <2>3, <2>4, <2>5, <3>2
    <3> QED BY <2>2, <2>4, <3>1, <3>2
  <2>6. aborts' = 0 => \A i \in 1 .. Len(log') : log'[i].script \in {i, NoText}
    BY <2>3
  <2>7. ~Draining' /\ frame' # "launching"
    BY <2>1, <2>3
  <2>8. aborts = 0 => submitted' = Len(log) + Len(list')
    BY <2>1, <2>2, <2>3, <2>4
  <2>9. aborts' = aborts /\ log' = log
    BY <2>3
  <2> QED BY ONLY <2>5, <2>6, <2>7, <2>8, <2>9 DEF InOrder, Draining
<1>4. CASE ClickExecute \/ LockForPush \/ CloseWindow
  BY <1>4 DEF ClickExecute, LockForPush, CloseWindow
<1>5. CASE BeginFrame BY <1>5 DEF BeginFrame
<1>6. CASE LockList BY <1>6 DEF LockList, Inv, TypeOK
<1>7. CASE CopyFaults BY <1>7 DEF CopyFaults
<1>8. CASE PrepareFails BY <1>8 DEF PrepareFails, Inv, TypeOK
<1>9. CASE LaunchSpawns BY <1>9 DEF LaunchSpawns, Inv, TypeOK, Launch
<1>10. CASE SpawnReturns BY <1>10 DEF SpawnReturns, Inv, TypeOK
<1>11. CASE LaunchRejects BY <1>11 DEF LaunchRejects, Inv, TypeOK, Launch
<1>12. CASE EndDrain
  BY <1>12 DEF EndDrain, Inv, TypeOK, DrainIsolated, Popped
<1>13. CASE UNCHANGED vars BY <1>13 DEF vars
<1> QED BY <1>1, <1>2, <1>3, <1>4, <1>5, <1>6, <1>7, <1>8, <1>9, <1>10, <1>11,
           <1>12, <1>13 DEF Next, Window, Render, Iterate

(* Without a cut-short drain no script is launched twice. *)
THEOREM LaunchOnce == Spec => []RelaunchOnlyAfterAbort
<1>1. Init => InOrder BY DEF Init, InOrder, Draining
<1>2. Inv /\ InOrder => RelaunchOnlyAfterAbort
  BY DEF RelaunchOnlyAfterAbort, InOrder
<1> QED BY AlwaysInv, <1>1, <1>2, InOrderStep, PTL DEF Spec

(* The four parts of DrainSafe hold together. *)
THEOREM DrainsAreSafe == Spec => []DrainSafe
<1>1. LockDiscipline /\ DrainIsolated /\ PopNeverUnderflows /\ ClearDiscardsNothing
        => DrainSafe
  BY DEF DrainSafe
<1> QED BY MutualExclusion, Isolation, NoUnderflow, NothingCleared, <1>1, PTL

(* Scripts are launched intact in the first half of a batch, and once. *)
THEOREM LaunchesAreRight == Spec => []LaunchesRight
<1>1. FirstHalfIntact /\ RelaunchOnlyAfterAbort => LaunchesRight
  BY DEF LaunchesRight
<1> QED BY FirstHalf, LaunchOnce, <1>1, PTL

------------------------------------------------------------------------------
(* The refinement of ScriptMailbox *)

(* What the running drain has handed to LaunchVM so far: one text for each element
   passed, the element's own or, in the second half, perhaps the empty one. *)
Given(text, i) == text = slots[i] \/ (text = NoText /\ 2 * i > Len(slots) + 1)

DrainRecord ==
  Draining =>
    /\ Len(log) = mark + Launched
    /\ \A i \in 1 .. Launched :
         /\ Given(log[mark + i].script, i)
         /\ log[mark + i].script = NoText => log[mark + i].spawned
    /\ frame = "launching" => Given(cur, pos)

LEMMA DrainRecordStep ==
  ASSUME Inv, DrainRecord, [Next]_vars
  PROVE  DrainRecord'
<1> USE DEF DrainRecord, Draining, Launched, Given, window, drain, ghosts
<1>0. /\ pos \in Nat \ {0} /\ log \in Seq(Launch) /\ Len(log) \in Nat /\ mark \in Nat
      /\ slots \in Seq(Scripts) /\ Len(slots) \in Nat /\ list \in Seq(Scripts)
      /\ Len(list) \in Nat /\ cur \in Texts
  BY LenProperties DEF Inv, TypeOK
<1>1. CASE TakeScript
  <2>1. /\ frame = "loop" /\ frame' = "launching" /\ pos <= Len(slots)
        /\ UNCHANGED <<log, slots, mark, pos>>
    BY <1>1 DEF TakeScript
  <2>5. cur' \in Readable(pos) BY <1>1 DEF TakeScript
  <2>2. cur' = slots[pos] \/ (cur' = NoText /\ pos > Len(list))
    <3>1. CASE pos <= Len(list) BY <2>5, <3>1 DEF Readable
    <3>2. CASE ~(pos <= Len(list)) BY <1>0, <2>5, <3>2 DEF Readable
    <3> QED BY <3>1, <3>2
  <2>3. Len(list) = Len(slots) - (pos - 1) BY <2>1 DEF Inv, DrainIsolated, Popped
  <2>4. cur' = slots[pos] \/ (cur' = NoText /\ 2 * pos > Len(slots) + 1)
    BY <1>0, <2>2, <2>3
  <2> QED BY <1>0, <2>1, <2>4
<1>2. CASE Startup
  BY <1>2 DEF Inv, Phases, Startup, ScanFails, CreateState, ScheduleCode, SetupWindow
<1>3. CASE Window
  BY <1>3 DEF Window, ClickExecute, LockForPush, PushBack, CloseWindow
<1>4. CASE BeginFrame \/ PrepareFails \/ EndDrain
  BY <1>4 DEF BeginFrame, PrepareFails, EndDrain
<1>5. CASE LockList BY <1>0, <1>5 DEF LockList
<1>6. CASE CopyFaults BY <1>6 DEF CopyFaults
<1>7. CASE LaunchSpawns \/ LaunchRejects
  <2>1. PICK e \in Launch : /\ log' = Append(log, e) /\ e.script = cur
                            /\ e.script = NoText => e.spawned
    <3>1. CASE LaunchSpawns
      <4>1. [script |-> cur, spawned |-> TRUE] \in Launch BY <1>0 DEF Launch
      <4> QED BY <3>1, <4>1 DEF LaunchSpawns
    <3>2. CASE LaunchRejects
      <4>1. [script |-> cur, spawned |-> FALSE] \in Launch BY <1>0 DEF Launch
      <4> QED BY <3>2, <4>1 DEF LaunchRejects
    <3> QED BY <1>7, <3>1, <3>2
  <2>2. /\ frame = "launching" /\ frame' \in {"spawned", "loop"}
        /\ frame' = "spawned" => pos' = pos
        /\ frame' = "loop" => pos' = pos + 1
        /\ UNCHANGED <<slots, mark, cur>>
    BY <1>7 DEF LaunchSpawns, LaunchRejects
  <2>3. Launched = pos - 1 /\ Launched' = pos BY <1>0, <2>2
  <2>4. /\ Len(log') = Len(log) + 1 /\ log'[Len(log) + 1] = e
        /\ \A i \in 1 .. Len(log) : log'[i] = log[i]
    BY <1>0, <2>1, AppendProperties
  <2>5. Len(log) + 1 = mark + pos BY <1>0, <2>2, <2>3
  <2>6. ASSUME NEW i \in 1 .. pos
        PROVE  /\ Given(log'[mark + i].script, i)
               /\ log'[mark + i].script = NoText => log'[mark + i].spawned
    <3>1. CASE i = pos BY <1>0, <2>1, <2>2, <2>4, <2>5, <3>1
    <3>2. CASE i # pos
      <4>1. i \in 1 .. pos - 1 /\ mark + i \in 1 .. Len(log) BY <1>0, <2>5, <3>2
      <4> QED BY <2>2, <2>3, <2>4, <4>1
    <3> QED BY <3>1, <3>2
  <2> QED BY <1>0, <2>2, <2>3, <2>4, <2>5, <2>6
<1>8. CASE SpawnReturns BY <1>0, <1>8 DEF SpawnReturns
<1>9. CASE UNCHANGED vars BY <1>9 DEF vars
<1> QED BY <1>1, <1>2, <1>3, <1>4, <1>5, <1>6, <1>7, <1>8, <1>9
       DEF Next, Render, Iterate

(* An entry in the middle of a log, and what stays of one that grows. *)
LEMMA Segment ==
  ASSUME NEW S, NEW s \in Seq(S), NEW m \in 0 .. Len(s)
  PROVE  /\ SubSeq(s, 1, m) \in Seq(S) /\ Len(SubSeq(s, 1, m)) = m
         /\ SubSeq(s, m + 1, Len(s)) \in Seq(S)
         /\ Len(SubSeq(s, m + 1, Len(s))) = Len(s) - m
         /\ \A i \in 1 .. m : SubSeq(s, 1, m)[i] = s[i]
         /\ \A i \in 1 .. Len(s) - m : SubSeq(s, m + 1, Len(s))[i] = s[m + i]
<1>1. Len(s) \in Nat /\ \A i \in 1 .. Len(s) : s[i] \in S
  BY LenProperties, ElementOfSeq
<1>2. /\ SubSeq(s, 1, m) \in Seq(S)
      /\ Len(SubSeq(s, 1, m)) = IF 1 <= m THEN m - 1 + 1 ELSE 0
      /\ \A i \in 1 .. m - 1 + 1 : SubSeq(s, 1, m)[i] = s[1 + i - 1]
  BY <1>1, SubSeqProperties
<1> DEFINE n == Len(s)
           k == m + 1
<1>3. k \in Int /\ n \in Int /\ \A i \in k .. n : s[i] \in S BY <1>1
<1> HIDE DEF k, n
<1>4. /\ SubSeq(s, k, n) \in Seq(S)
      /\ Len(SubSeq(s, k, n)) = IF k <= n THEN n - k + 1 ELSE 0
      /\ \A i \in 1 .. n - k + 1 : SubSeq(s, k, n)[i] = s[k + i - 1]
  BY <1>3, SubSeqProperties
<1>5. n - k + 1 = n - m /\ \A i \in Int : k + i - 1 = m + i BY <1>1 DEF k, n
<1>10. n \in Nat /\ m \in Nat /\ m <= n /\ k = m + 1 BY <1>1 DEF k, n
<1>6. Len(SubSeq(s, k, n)) = n - m
  <2>1. CASE k <= n BY <1>4, <1>10, <2>1
  <2>2. CASE ~(k <= n) BY <1>4, <1>10, <2>2
  <2> QED BY <2>1, <2>2
<1>7. \A i \in 1 .. m : SubSeq(s, 1, m)[i] = s[i] /\ Len(SubSeq(s, 1, m)) = m
  BY <1>1, <1>2
<1>8. Len(SubSeq(s, 1, m)) = m BY <1>1, <1>2
<1>9. \A i \in 1 .. n - m : SubSeq(s, k, n)[i] = s[m + i]
  BY <1>1, <1>4, <1>5 DEF n
<1> QED BY <1>2, <1>4, <1>6, <1>7, <1>8, <1>9 DEF k, n

LEMMA SamePrefix ==
  ASSUME NEW S, NEW s \in Seq(S), NEW e \in S, NEW m \in 0 .. Len(s)
  PROVE  SubSeq(Append(s, e), 1, m) = SubSeq(s, 1, m)
<1> DEFINE t == Append(s, e)
<1>1. /\ t \in Seq(S) /\ Len(t) = Len(s) + 1 /\ Len(s) \in Nat
      /\ \A i \in 1 .. Len(s) : t[i] = s[i]
  BY AppendProperties, LenProperties
<1> HIDE DEF t
<1>2. m \in 0 .. Len(t) BY <1>1
<1>3. /\ SubSeq(t, 1, m) \in Seq(S) /\ Len(SubSeq(t, 1, m)) = m
      /\ \A i \in 1 .. m : SubSeq(t, 1, m)[i] = t[i]
  BY <1>1, <1>2, Segment
<1>4. /\ SubSeq(s, 1, m) \in Seq(S) /\ Len(SubSeq(s, 1, m)) = m
      /\ \A i \in 1 .. m : SubSeq(s, 1, m)[i] = s[i]
  BY Segment
<1>5. \A i \in 1 .. m : SubSeq(t, 1, m)[i] = SubSeq(s, 1, m)[i] BY <1>1, <1>3, <1>4
<1> QED BY <1>3, <1>4, <1>5, SeqEqual DEF t


(* What the two threads show a user of the mailbox. *)
Pending == IF Draining THEN slots ELSE list
Delivered == IF Draining THEN SubSeq(log, 1, mark) ELSE log

(* The drain began after the first `mark' entries of the log. *)
LEMMA MarkInLog ==
  ASSUME Inv, DrainRecord, Draining
  PROVE  /\ mark \in 0 .. Len(log) /\ Launched \in Nat
         /\ Len(log) = mark + Launched
  BY LenProperties DEF Inv, TypeOK, DrainRecord, Launched

(* The drain hides what it does from its first step to its last. *)
LEMMA HiddenStep ==
  ASSUME Inv, DrainRecord, Draining, Draining', UNCHANGED <<slots, mark>>,
         log' = log \/ \E e \in Launch : log' = Append(log, e)
  PROVE  UNCHANGED <<Pending, Delivered>>
<1>1. log \in Seq(Launch) /\ mark \in 0 .. Len(log) BY MarkInLog DEF Inv, TypeOK
<1>2. SubSeq(log', 1, mark) = SubSeq(log, 1, mark)
  <2>1. CASE log' = log BY <2>1
  <2>2. CASE \E e \in Launch : log' = Append(log, e)
    <3>1. PICK e \in Launch : log' = Append(log, e) BY <2>2
    <3> QED BY <1>1, <3>1, SamePrefix
  <2> QED BY <2>1, <2>2
<1> QED BY <1>2 DEF Pending, Delivered

(* A drain shows k iterations' launches when it leaves the guarded scope. *)
LEMMA DrainShows ==
  ASSUME Inv, DrainRecord, Draining, ~Draining', log' = log
  PROVE  /\ Len(Delivered') >= Len(Delivered)
         /\ SubSeq(Delivered', 1, Len(Delivered)) = Delivered
         /\ LET d == SubSeq(Delivered', Len(Delivered) + 1, Len(Delivered')) IN
              /\ Len(d) = Launched
              /\ \A i \in 1 .. Launched :
                   \/ d[i].script = Pending[i]
                   \/ /\ d[i].script = NoText /\ d[i].spawned
                      /\ 2 * i > Len(Pending) + 1
<1>1. /\ log \in Seq(Launch) /\ mark \in 0 .. Len(log) /\ Len(log) \in Nat
      /\ Launched \in Nat /\ Len(log) = mark + Launched
  BY MarkInLog, LenProperties DEF Inv, TypeOK
<1>2. /\ Delivered' = log /\ Delivered = SubSeq(log, 1, mark) /\ Pending = slots
  BY DEF Delivered, Pending
<1>3. /\ Len(SubSeq(log, 1, mark)) = mark
      /\ Len(SubSeq(log, mark + 1, Len(log))) = Len(log) - mark
      /\ \A i \in 1 .. Len(log) - mark :
           SubSeq(log, mark + 1, Len(log))[i] = log[mark + i]
  BY <1>1, Segment
<1>4. Len(log) - mark = Launched BY <1>1
<1>5. \A i \in 1 .. Launched :
        /\ Given(log[mark + i].script, i)
        /\ log[mark + i].script = NoText => log[mark + i].spawned
  BY DEF DrainRecord
<1>6. ASSUME NEW i \in 1 .. Launched
      PROVE  LET e == SubSeq(log, mark + 1, Len(log))[i] IN
               \/ e.script = slots[i]
               \/ e.script = NoText /\ e.spawned /\ 2 * i > Len(slots) + 1
  BY <1>3, <1>4, <1>5 DEF Given
<1>7. Len(Delivered) = mark /\ Len(Delivered') = Len(log) BY <1>2, <1>3
<1>8. SubSeq(Delivered', Len(Delivered) + 1, Len(Delivered'))
        = SubSeq(log, mark + 1, Len(log))
  BY <1>2, <1>7
<1>9. Len(Delivered') >= Len(Delivered) BY <1>1, <1>7
<1>10. SubSeq(Delivered', 1, Len(Delivered)) = Delivered BY <1>2, <1>7
<1>11. Len(SubSeq(log, mark + 1, Len(log))) = Launched BY <1>3, <1>4
<1> QED BY <1>2, <1>6, <1>8, <1>9, <1>10, <1>11

(* Every step of the two threads is a step of the mailbox, or none. *)
LEMMA MailboxStep ==
  ASSUME Inv, Inv', DrainRecord, [Next]_vars
  PROVE  [Mailbox!Next]_(Mailbox!vars)
<1> DEFINE Same == UNCHANGED <<Pending, Delivered>>
<1>0. Same => UNCHANGED Mailbox!vars
  BY DEF Mailbox!vars, Pending, Delivered
<1> HIDE DEF Same
<1>1. CASE PushBack
  <2>1. ~Draining /\ ~Draining'
    BY <1>1 DEF PushBack, Inv, LockDiscipline, Draining
  <2>2. /\ Pending = list /\ Pending' = Append(list, submitted + 1)
        /\ Delivered' = Delivered
    BY <1>1, <2>1 DEF PushBack, Pending, Delivered, drain, ghosts
  <2>3. submitted + 1 \in Scripts
    BY <1>1 DEF PushBack, Scripts, Inv, TypeOK, Phases
  <2>4. Mailbox!Submit BY <2>2, <2>3 DEF Mailbox!Submit, Pending, Delivered
  <2> QED BY <2>4 DEF Mailbox!Next
<1>2. CASE (Startup \/ Window) /\ ~PushBack
  <2>1. UNCHANGED <<Draining, list, slots, log, mark>>
    BY <1>2 DEF Startup, Window, ScanFails, CreateState, ScheduleCode, SetupWindow,
       ClickExecute, LockForPush, CloseWindow, Draining, drain, ghosts, Inv, Phases
  <2> QED BY <1>0, <2>1 DEF Same, Pending, Delivered
<1>3. CASE BeginFrame
  <2>1. ~Draining /\ ~Draining' /\ UNCHANGED <<list, log>>
    BY <1>3 DEF BeginFrame, Draining, ghosts
  <2> QED BY <1>0, <2>1 DEF Same, Pending, Delivered
<1>4. CASE LockList
  <2>1. /\ ~Draining /\ Draining' /\ slots' = list /\ mark' = Len(log)
        /\ log' = log /\ log \in Seq(Launch)
    BY <1>4 DEF LockList, Draining, ghosts, Inv, TypeOK
  <2>2. SubSeq(log, 1, Len(log)) = log BY <2>1, SubSeqFull
  <2> QED BY <1>0, <2>1, <2>2 DEF Same, Pending, Delivered
<1>5. CASE TakeScript \/ CopyFaults \/ LaunchSpawns \/ SpawnReturns \/ LaunchRejects
  <2>1. Draining /\ Draining' /\ UNCHANGED <<slots, mark>>
    BY <1>5 DEF TakeScript, CopyFaults, LaunchSpawns, SpawnReturns, LaunchRejects,
       Draining, drain
  <2>2. log' = log \/ \E e \in Launch : log' = Append(log, e)
    <3>1. cur \in Texts BY DEF Inv, TypeOK
    <3>2. /\ [script |-> cur, spawned |-> TRUE] \in Launch
          /\ [script |-> cur, spawned |-> FALSE] \in Launch
      BY <3>1 DEF Launch
    <3> QED BY <1>5, <3>2 DEF TakeScript, CopyFaults, LaunchSpawns, SpawnReturns,
            LaunchRejects, ghosts
  <2> QED BY <1>0, <2>1, <2>2, HiddenStep DEF Same
<1>6. CASE EndDrain
  <2>1. /\ frame = "loop" /\ Draining /\ ~Draining' /\ log' = log
        /\ list' = <<>> /\ pos > Len(slots)
    BY <1>6 DEF EndDrain, Draining, ghosts
  <2>2. /\ pos = Len(slots) + 1 /\ Launched = Len(slots) /\ Len(slots) \in Nat
        /\ slots \in Seq(Scripts)
    BY <2>1, LenProperties DEF Inv, TypeOK, DrainIsolated, Launched
  <2>3. Pending = slots /\ Pending' = <<>> BY <2>1 DEF Pending
  <2>4. CASE slots = <<>>
    <3>1. /\ log \in Seq(Launch) /\ mark \in 0 .. Len(log) /\ mark = Len(log)
      BY <2>1, <2>2, <2>4, MarkInLog, LenProperties, EmptySeq DEF Inv, TypeOK
    <3>2. SubSeq(log, 1, mark) = log BY <3>1, SubSeqFull
    <3> QED BY <1>0, <2>1, <2>3, <2>4, <3>2 DEF Same, Delivered
  <2>5. CASE slots # <<>>
    <3>1. Mailbox!DrainAll
      BY <2>1, <2>2, <2>3, <2>5, DrainShows
      DEF Mailbox!DrainAll, Mailbox!Extends, Mailbox!Handed, Mailbox!New, Pending,
          Delivered
    <3> QED BY <3>1 DEF Mailbox!Next
  <2> QED BY <2>4, <2>5
<1>7. CASE PrepareFails
  <2>1. /\ frame = "launching" /\ Draining /\ ~Draining' /\ log' = log
        /\ list' = list
    BY <1>7 DEF PrepareFails, Draining
  <2>2. /\ pos \in 1 .. Len(slots) /\ Launched = pos - 1 /\ Len(slots) \in Nat
        /\ slots \in Seq(Scripts) /\ list \in Seq(Scripts)
        /\ Len(list) = Len(slots) - pos /\ \A i \in 1 .. Len(list) : list[i] = slots[i]
    BY <2>1, LenProperties DEF Inv, TypeOK, DrainIsolated, Launched, Popped
  <2>3. list = SubSeq(slots, 1, Len(slots) - pos)
    <3> DEFINE n == Len(slots) - pos
    <3>1. n \in 0 .. Len(slots) BY <2>2
    <3>2. n = Len(list) BY <2>2
    <3> HIDE DEF n
    <3>3. /\ SubSeq(slots, 1, n) \in Seq(Scripts) /\ Len(SubSeq(slots, 1, n)) = n
          /\ \A i \in 1 .. n : SubSeq(slots, 1, n)[i] = slots[i]
      BY <2>2, <3>1, Segment
    <3>4. list = SubSeq(slots, 1, n) BY <2>2, <3>2, <3>3, SeqEqual
    <3> QED BY <3>4 DEF n
  <2>4. Pending = slots /\ Pending' = list BY <2>1 DEF Pending
  <2>5. Mailbox!DrainCutShort
    BY <2>1, <2>2, <2>3, <2>4, DrainShows
    DEF Mailbox!DrainCutShort, Mailbox!Extends, Mailbox!Handed, Mailbox!New, Pending,
        Delivered
  <2> QED BY <2>5 DEF Mailbox!Next
<1>8. CASE UNCHANGED vars
  <2>1. UNCHANGED <<Draining, list, slots, log, mark>>
    BY <1>8 DEF vars, Draining, drain, ghosts
  <2> QED BY <1>0, <2>1 DEF Same, Pending, Delivered
<1> QED BY <1>1, <1>2, <1>3, <1>4, <1>5, <1>6, <1>7, <1>8
       DEF Next, Window, Render, Iterate

(* The window thread and the render thread together implement a mailbox whose
   drains are atomic. *)
THEOREM MailboxImplemented == Spec => ImplementsMailbox
<1>1. Init => DrainRecord BY DEF Init, DrainRecord, Draining
<1>2. Init => Mailbox!Init BY DEF Init, Mailbox!Init, Draining
<1>3. Inv /\ DrainRecord /\ [Next]_vars => DrainRecord' BY DrainRecordStep
<1>4. Inv /\ Inv' /\ DrainRecord /\ [Next]_vars => [Mailbox!Next]_(Mailbox!vars)
  BY MailboxStep
<1> QED BY AlwaysInv, <1>1, <1>2, <1>3, <1>4, PTL
       DEF Spec, ImplementsMailbox, Mailbox!Spec

==============================================================================
