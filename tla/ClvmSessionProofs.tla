-------------------------- MODULE ClvmSessionProofs --------------------------
(***************************************************************************)
(* Theorems about ClvmSession for any scripts, any number of sessions,     *)
(* resumptions and loops.  Inv adds to the types what the depth of the C   *)
(* stack is in each stage of a session, which pcs a session that waits has *)
(* stored.                                                                 *)
(***************************************************************************)
EXTENDS ClvmSession, TLAPS

(* L->nCcalls in each stage: a session that has yielded keeps the count that
   clua_call added, and returns with it after a resumption. *)
Depth ==
  \A s \in Sessions :
    /\ stage[s] \in {"none", "loaded", "rejected"} => nCcalls[s] = 0 /\ hop[s] = 0
    /\ stage[s] \in {"running", "waiting", "failed"} => nCcalls[s] = 1
    /\ stage[s] \in {"done", "stopped"} => nCcalls[s] \in {0, 1}

(* A session that waits in a call or an access has stored the pc behind it twice. *)
PcSaved ==
  \A s \in Sessions :
    (stage[s] = "waiting" /\ code[s][yielded[s]] \in {"call", "access"})
      => savedpc[s] = yielded[s] + 1 /\ hostpc[s] = yielded[s] + 1

Inv == TypeOK /\ Depth /\ PcSaved

(* A session that waits has a bounded number of resumptions behind it, and its
   handler is on the thread that the host will call. *)
Callable ==
  \A s \in Sessions : stage[s] = "waiting" => Called(s) /\ hop[s] < MaxHops

USE BoundsAssumption

------------------------------------------------------------------------------
LEMMA InitInv == Init => Inv
<1> SUFFICES ASSUME Init PROVE Inv OBVIOUS
<1>1. /\ gL = "open" /\ queue = {} /\ handler = {} /\ foreign = {} /\ fault = FALSE
      /\ stage = [s \in Sessions |-> "none"] /\ code = [s \in Sessions |-> <<>>]
      /\ pc = [s \in Sessions |-> 1] /\ savedpc = pc /\ hostpc = pc
      /\ hop = [s \in Sessions |-> 0] /\ yielded = hop
      /\ nCcalls = hop /\ written = [s \in Sessions |-> NoThread]
  BY DEF Init
<1>2. TypeOK
  <2>1. fault \in BOOLEAN BY <1>1, Zenon
  <2>2. code \in [Sessions -> Programs \cup {<<>>}] BY <1>1
  <2>3. written \in [Sessions -> 0 .. NoThread] BY <1>1 DEF NoThread
  <2>4. stage \in [Sessions -> Stages] BY <1>1 DEF Stages
  <2> QED BY <1>1, <2>1, <2>2, <2>3, <2>4 DEF TypeOK, Hops
<1>3. Depth /\ PcSaved BY <1>1 DEF Depth, PcSaved
<1> QED BY <1>2, <1>3 DEF Inv

LEMMA JumpType ==
  ASSUME TypeOK, NEW s \in Sessions, NEW t \in Nat \ {0}, Jump(s, t)
  PROVE  pc' \in [Sessions -> Nat \ {0}]
BY DEF TypeOK, Jump

LEMMA YieldType ==
  ASSUME TypeOK, NEW s \in Sessions, Yields(s)
  PROVE  queue' \subseteq Sessions \X Hops /\ handler' \subseteq Sessions \X Hops
<1>1. <<s, hop[s]>> \in Sessions \X Hops BY DEF TypeOK
<1> QED BY <1>1 DEF TypeOK, Yields, LeaveHandler

(* A step of one session leaves the parts of Inv about the others alone. *)
LEMMA NextInv ==
  ASSUME Inv, Next
  PROVE  Inv'
<1> USE DEF Inv, TypeOK, Depth, PcSaved, Move, session, Stages, NoThread, Hops
<1>1. PICK s \in Sessions : Host(s) \/ Execute(s) \/ Crash(s) BY DEF Next
<1>0. pc[s] \in Nat \ {0} /\ pc[s] + 1 \in Nat \ {0} /\ pc[s] \in Nat OBVIOUS
<1>2. CASE LaunchVM(s)
  <2>4. code' \in [Sessions -> Programs \cup {<<>>}] BY <1>2 DEF LaunchVM
  <2>5. stage' \in [Sessions -> Stages] BY <1>2 DEF LaunchVM
  <2>1. TypeOK' BY <1>2, <2>4, <2>5 DEF LaunchVM
  <2>2. Depth' BY <1>2 DEF LaunchVM
  <2>3. PcSaved' BY <1>2 DEF LaunchVM
  <2> QED BY <2>1, <2>2, <2>3
<1>3. CASE LaunchVMRejects(s)
  <2>1. TypeOK' BY <1>3 DEF LaunchVMRejects
  <2>2. Depth' BY <1>3 DEF LaunchVMRejects
  <2>3. PcSaved' BY <1>3 DEF LaunchVMRejects
  <2> QED BY <2>1, <2>2, <2>3
<1>4. CASE LaunchVMClosure(s)
  <2>1. TypeOK' BY <1>4, SMTT(30) DEF LaunchVMClosure
  <2>2. Depth' BY <1>4 DEF LaunchVMClosure
  <2>3. PcSaved' BY <1>4 DEF LaunchVMClosure
  <2> QED BY <2>1, <2>2, <2>3
<1>5. CASE ResumeVMClosure(s)
  <2>4. stage' \in [Sessions -> Stages] BY <1>5 DEF ResumeVMClosure
  <2>5. pc' \in [Sessions -> Nat \ {0}] BY <1>5 DEF ResumeVMClosure
  <2>6. hop' \in [Sessions -> Hops] BY <1>5 DEF ResumeVMClosure
  <2>7. queue' \subseteq Sessions \X Hops /\ handler' \subseteq Sessions \X Hops
    BY <1>5 DEF ResumeVMClosure
  <2>8. UNCHANGED <<gL, code, savedpc, hostpc, written, nCcalls, foreign, yielded, fault>>
    BY <1>5 DEF ResumeVMClosure
  <2>1. TypeOK' BY <2>4, <2>5, <2>6, <2>7, <2>8
  <2>2. Depth' BY <1>5 DEF ResumeVMClosure
  <2>3. PcSaved' BY <1>5 DEF ResumeVMClosure
  <2> QED BY <2>1, <2>2, <2>3
<1>6. CASE SubmitToFreed(s) \/ UseFreedState(s) \/ Crash(s)
  <2>1. fault' \in BOOLEAN BY <1>6, Zenon DEF SubmitToFreed, UseFreedState, Crash
  <2> QED BY <1>6, <2>1 DEF SubmitToFreed, UseFreedState, Crash
<1>7. CASE Local(s)
  <2>4. pc' \in [Sessions -> Nat \ {0}] BY <1>0, <1>7 DEF Local, Jump
  <2>5. written' \in [Sessions -> 0 .. NoThread] BY <1>7 DEF Local
  <2>1. TypeOK' BY <1>7, <2>4, <2>5 DEF Local, Inside
  <2>2. Depth' BY <1>7 DEF Local, Inside
  <2>3. PcSaved' BY <1>7 DEF Local, Inside
  <2> QED BY <2>1, <2>2, <2>3
<1>8. CASE Read(s) \/ Loop(s)
  <2>2. Jump(s, 1) \/ Jump(s, pc[s] + 1) BY <1>8 DEF Read, Loop
  <2>3. 1 \in Nat \ {0} OBVIOUS
  <2>1. pc' \in [Sessions -> Nat \ {0}]
    <3>1. CASE Jump(s, 1) BY <2>3, <3>1, JumpType
    <3>2. CASE Jump(s, pc[s] + 1) BY <1>0, <3>2, JumpType
    <3> QED BY <2>2, <3>1, <3>2
  <2> QED BY <1>8, <2>1 DEF Read, Loop, Inside
<1>9. CASE Access(s) \/ Call(s)
  <2>1. /\ stage[s] = "running" /\ SavePc(s)
        /\ UNCHANGED <<gL, code, hop, written, nCcalls, fault>>
    BY <1>9 DEF Access, Call, At, Entered
  <2>2. CASE Returns(s, pc[s] + 1) \/ EntersLua(s)
    <3>4. /\ UNCHANGED <<stage, yielded, queue, handler>>
          /\ foreign' \subseteq Sessions
      BY <2>2 DEF Returns, EntersLua
    <3>5. pc' \in [Sessions -> Nat \ {0}]
      <4>1. CASE Jump(s, pc[s] + 1) BY <1>0, <4>1, JumpType
      <4>2. CASE EntersLua(s)
        <5>1. savedpc'[s] = pc[s] + 1 BY <2>1 DEF SavePc
        <5> QED BY <1>0, <4>2, <5>1, JumpType DEF EntersLua
      <4> QED BY <2>2, <4>1, <4>2 DEF Returns
    <3>1. TypeOK' BY <1>0, <2>1, <3>4, <3>5 DEF SavePc
    <3>2. Depth' BY <2>1, <3>4
    <3>3. PcSaved' BY <2>1, <3>4 DEF SavePc
    <3> QED BY <3>1, <3>2, <3>3
  <2>3. CASE Yields(s)
    <3>4. queue' \subseteq Sessions \X Hops /\ handler' \subseteq Sessions \X Hops
      BY <2>3, YieldType
    <3>1. TypeOK' BY <1>0, <2>1, <2>3, <3>4 DEF Yields, SavePc
    <3>2. Depth' BY <2>1, <2>3 DEF Yields
    <3>3. PcSaved' BY <2>1, <2>3 DEF Yields, SavePc
    <3> QED BY <3>1, <3>2, <3>3
  <2>4. CASE Raises(s)
    <3>1. TypeOK' BY <1>0, <2>1, <2>4 DEF Raises, SavePc
    <3>2. Depth' BY <2>1, <2>4 DEF Raises
    <3>3. PcSaved' BY <2>1, <2>4 DEF Raises, SavePc
    <3> QED BY <3>1, <3>2, <3>3
  <2> QED BY <1>9, <2>2, <2>3, <2>4 DEF Access, Call
<1>10. CASE Iter(s)
  <2>1. /\ stage[s] = "running" /\ code[s][pc[s]] = "iter" /\ UNCHANGED savedpc
        /\ hostpc' = [hostpc EXCEPT ![s] = pc[s] + 1]
        /\ UNCHANGED <<gL, code, hop, written, nCcalls, fault>>
    BY <1>10 DEF Iter, At, SaveIterPc, Entered
  <2>2. CASE Returns(s, 1) \/ Returns(s, pc[s] + 1)
    <3>4. UNCHANGED <<stage, foreign, yielded, queue, handler>> BY <2>2 DEF Returns
    <3>7. 1 \in Nat \ {0} OBVIOUS
    <3>5. pc' \in [Sessions -> Nat \ {0}]
      <4>1. CASE Jump(s, 1) BY <3>7, <4>1, JumpType
      <4>2. CASE Jump(s, pc[s] + 1) BY <1>0, <4>2, JumpType
      <4> QED BY <2>2, <4>1, <4>2 DEF Returns
    <3>6. hostpc' \in [Sessions -> Nat \ {0}] BY <1>0, <2>1
    <3>1. TypeOK' BY <2>1, <3>4, <3>5, <3>6
    <3>2. Depth' BY <2>1, <3>4
    <3>3. PcSaved' BY <2>1, <3>4
    <3> QED BY <3>1, <3>2, <3>3
  <2>3. CASE Yields(s)
    <3>4. queue' \subseteq Sessions \X Hops /\ handler' \subseteq Sessions \X Hops
      BY <2>3, YieldType
    <3>1. TypeOK' BY <1>0, <2>1, <2>3, <3>4 DEF Yields
    <3>2. Depth' BY <2>1, <2>3 DEF Yields
    <3>3. PcSaved' BY <2>1, <2>3 DEF Yields
    <3> QED BY <3>1, <3>2, <3>3
  <2>4. CASE Raises(s)
    <3>1. TypeOK' BY <1>0, <2>1, <2>4 DEF Raises
    <3>2. Depth' BY <2>1, <2>4 DEF Raises
    <3>3. PcSaved' BY <2>1, <2>4 DEF Raises
    <3> QED BY <3>1, <3>2, <3>3
  <2> QED BY <1>10, <2>2, <2>3, <2>4 DEF Iter
<1>11. CASE Leave(s)
  <2>1. /\ stage[s] = "running" /\ stage' \in [Sessions -> Stages]
        /\ stage'[s] \in {"done", "stopped"}
        /\ \A r \in Sessions \ {s} : stage'[r] = stage[r]
    BY <1>11 DEF Leave, At
  <2>2. /\ nCcalls[s] = 1
        /\ nCcalls' = [nCcalls EXCEPT ![s] = IF hop[s] = 0 THEN @ - 1 ELSE @]
        /\ UNCHANGED <<gL, code, pc, savedpc, hostpc, hop, written, foreign, yielded,
                       queue, handler, fault>>
    BY <1>11, <2>1 DEF Leave
  <2>3. /\ nCcalls' \in [Sessions -> Nat] /\ nCcalls'[s] \in {0, 1}
        /\ \A r \in Sessions \ {s} : nCcalls'[r] = nCcalls[r]
    BY <2>2
  <2>4. TypeOK' BY <1>0, <2>1, <2>2, <2>3
  <2>5. Depth' BY <2>1, <2>2, <2>3
  <2>6. PcSaved' BY <2>1, <2>2
  <2> QED BY <2>4, <2>5, <2>6
<1> QED BY <1>1, <1>2, <1>3, <1>4, <1>5, <1>6, <1>7, <1>8, <1>9, <1>10, <1>11
       DEF Host, Execute

LEMMA AlwaysInv == Spec => []Inv
<1>1. Inv /\ UNCHANGED vars => Inv'
  BY DEF Inv, TypeOK, Depth, PcSaved, vars, session
<1> QED BY InitInv, NextInv, <1>1, PTL DEF Spec

(* vm.cpp, ldo.c: whatever the sessions wait for, and however often, L->nCcalls
   is never above 1, and is 1 while a session waits. *)
THEOREM DepthStaysBounded == Spec => []DepthBounded
<1>1. Inv => DepthBounded
  <2> SUFFICES ASSUME Inv, NEW s \in Sessions
               PROVE  nCcalls[s] <= 1 /\ (stage[s] = "waiting" => nCcalls[s] = 1)
    BY DEF DepthBounded, Inv
  <2>1. stage[s] \in Stages BY DEF Inv, TypeOK
  <2> QED BY <2>1 DEF Inv, Depth, Stages
<1> QED BY AlwaysInv, <1>1, PTL

(* vm.cpp: a session that yielded in a call or an access is resumed at the
   instruction after it, the one whose pc the host has held. *)
THEOREM CallsResumeNext == Spec => CallResumesNext
<1> DEFINE InCall(s) == code[s][yielded[s]] \in {"call", "access"}
           ResumesNext(s) ==
             (stage[s] = "waiting" /\ stage'[s] = "running" /\ InCall(s))
               => pc'[s] = yielded[s] + 1 /\ hostpc[s] = pc'[s]
           Resumed == \A s \in Sessions : ResumesNext(s)
<1>1. Inv /\ Next => Resumed
  <2> SUFFICES ASSUME Inv, Next, NEW r \in Sessions,
                      stage[r] = "waiting", stage'[r] = "running", InCall(r)
               PROVE  pc'[r] = yielded[r] + 1 /\ hostpc[r] = pc'[r]
    OBVIOUS
  <2>1. PICK s \in Sessions : Host(s) \/ Execute(s) \/ Crash(s) BY DEF Next
  <2>2. CASE ResumeVMClosure(s)
    BY <2>2 DEF ResumeVMClosure, Inv, TypeOK, PcSaved, Move
  <2>3. CASE LaunchVM(s) \/ LaunchVMRejects(s) \/ LaunchVMClosure(s)
    BY <2>3 DEF LaunchVM, LaunchVMRejects, LaunchVMClosure, Inv, TypeOK, Move
  <2>4. CASE SubmitToFreed(s) \/ UseFreedState(s) \/ Crash(s)
    BY <2>4 DEF SubmitToFreed, UseFreedState, Crash
  <2>5. CASE Local(s) \/ Read(s) \/ Loop(s)
    BY <2>5 DEF Local, Read, Loop, Inside
  <2>6. CASE Access(s) \/ Call(s) \/ Iter(s) \/ Leave(s)
    <3>1. stage[s] = "running" BY <2>6 DEF Access, Call, Iter, Leave, At
    <3>2. \A q \in Sessions \ {s} : stage'[q] = stage[q]
      BY <2>6 DEF Access, Call, Iter, Leave, Returns, EntersLua, Yields, Raises, Move,
         Inv, TypeOK
    <3> QED BY <3>1, <3>2
  <2> QED BY <2>1, <2>2, <2>3, <2>4, <2>5, <2>6 DEF Host, Execute
<1>2. Inv /\ [Next]_vars => [Resumed]_vars BY <1>1
<1> QED BY AlwaysInv, <1>2, PTL DEF Spec, CallResumesNext

LEMMA NextCallable ==
  ASSUME TypeOK, Callable, Next
  PROVE  Callable'
<1> SUFFICES ASSUME NEW r \in Sessions, stage'[r] = "waiting"
             PROVE  /\ <<r, hop'[r]>> \in queue' /\ <<r, hop'[r]>> \in handler'
                    /\ hop'[r] < MaxHops
  BY DEF Callable, Called
<1>1. PICK s \in Sessions : Host(s) \/ Execute(s) \/ Crash(s) BY DEF Next
<1>2. stage[r] = "waiting" => /\ <<r, hop[r]>> \in queue /\ <<r, hop[r]>> \in handler
                              /\ hop[r] < MaxHops
  BY DEF Callable, Called
<1>3. CASE LaunchVM(s) \/ LaunchVMRejects(s) \/ LaunchVMClosure(s)
  BY <1>2, <1>3 DEF LaunchVM, LaunchVMRejects, LaunchVMClosure, TypeOK, Move, session
<1>4. CASE ResumeVMClosure(s)
  <2>1. r # s BY <1>4 DEF ResumeVMClosure, TypeOK, Move
  <2>2. <<r, hop[r]>> # <<s, hop[s]>> BY <2>1
  <2> QED BY <1>2, <1>4, <2>1, <2>2 DEF ResumeVMClosure, TypeOK, Move
<1>5. CASE SubmitToFreed(s) \/ UseFreedState(s) \/ Crash(s)
  BY <1>2, <1>5 DEF SubmitToFreed, UseFreedState, Crash, session
<1>6. CASE Local(s) \/ Read(s) \/ Loop(s)
  BY <1>2, <1>6 DEF Local, Read, Loop, Inside
<1>7. CASE Leave(s)
  BY <1>2, <1>7 DEF Leave, TypeOK, Move
<1>8. CASE Access(s) \/ Call(s) \/ Iter(s)
  <2>1. UNCHANGED hop BY <1>8 DEF Access, Call, Iter, Entered
  <2>2. CASE Yields(s)
    <3>1. CASE r = s BY <2>1, <2>2, <3>1 DEF Yields, LeaveHandler
    <3>2. CASE r # s BY <1>2, <2>1, <2>2, <3>2 DEF Yields, LeaveHandler, TypeOK, Move
    <3> QED BY <3>1, <3>2
  <2>3. CASE Raises(s) BY <1>2, <2>1, <2>3 DEF Raises, TypeOK, Move
  <2>4. CASE UNCHANGED <<stage, queue, handler>> BY <1>2, <2>1, <2>4
  <2> QED BY <1>8, <2>2, <2>3, <2>4 DEF Access, Call, Iter, Returns, EntersLua
<1> QED BY <1>1, <1>3, <1>4, <1>5, <1>6, <1>7, <1>8 DEF Host, Execute

(* vm.cpp: a session that yielded, the first time or in a resumption, has left
   ResumeVMClosure on the very thread that the host has queued. *)
THEOREM WaitersCallable == Spec => []Callable
<1>1. Init => Callable BY DEF Init, Callable
<1>2. TypeOK /\ Callable /\ [Next]_vars => Callable'
  <2>1. Callable /\ UNCHANGED vars => Callable'
    BY DEF Callable, Called, vars, session
  <2> QED BY <2>1, NextCallable
<1>3. Inv => TypeOK BY DEF Inv
<1> QED BY AlwaysInv, <1>1, <1>2, <1>3, PTL DEF Spec

==============================================================================
