----------------------------- MODULE ClvmSession -----------------------------
(***************************************************************************)
(* The life of a script in vm.cpp.  vm::LaunchVM compiles it to a thread L *)
(* of the dedicated state gL; the host runs LaunchVMClosure, which enters  *)
(* cluaV_execute under rbx_pcall.  A host function that yields leaves the  *)
(* interpreter by an error; the handler ResumeVMClosure is left on the     *)
(* host thread, and a later resumption continues at L->savedpc, on a new   *)
(* host thread.                                                            *)
(*                                                                         *)
(* An instruction is one of                                                *)
(*   "local"   writes a register and calls nothing (LOADK, MOVE, ...)      *)
(*   "read"    reads that register                                         *)
(*   "loop"    FORLOOP, or a test with a JMP back: stays inside as well    *)
(*   "access"  enters the host with the pc saved on both sides (GETGLOBAL, *)
(*             SETGLOBAL, GETTABLE, SETTABLE, SELF; FORPREP for its errors)*)
(*   "call"    CALL: the same, and the host may hand back a Lua function   *)
(*             of its own for the interpreter to run                       *)
(*   "iter"    TFORLOOP, with the jump that follows it                     *)
(*   "unknown" an opcode cluaV_execute has no case for                     *)
(*   "return"                                                              *)
(* The host is external: it calls a spawned thread once, queues the thread *)
(* that runs before the function that waits raises its error, and calls    *)
(* what it finds on a queued thread later, one thread at a time.  A host   *)
(* thread is <<s, n>>: the one session s was spawned on (n = 0), or the    *)
(* one its n-th resumption made.                                           *)
(***************************************************************************)
EXTENDS Naturals, Sequences

CONSTANTS Sessions,  \* scripts handed to vm::LaunchVM
          Programs,  \* what they may compile to
          MaxHops    \* bound: resumptions of one session

Instructions == {"local", "read", "loop", "access", "call", "iter", "unknown",
                 "return"}

ASSUME BoundsAssumption == MaxHops \in Nat
ASSUME ProgramsAssumption ==
  Programs \subseteq {p \in Seq(Instructions) : p # <<>> /\ p[Len(p)] = "return"}

Hops == 0 .. MaxHops
NoThread == MaxHops + 1  \* the register was never written

VARIABLES
  gL,       \* "open", or "closed" once lua_close has freed the state
  stage,    \* where each session is
  code,     \* its compiled function
  pc,       \* pc of cluaV_execute, while it runs
  savedpc,  \* L->savedpc
  hostpc,   \* the pc it has stored in its host thread
  hop,      \* the host thread it runs on: <<s, hop[s]>>
  written,  \* the host thread whose frame holds the register's last value
  nCcalls,  \* L->nCcalls
  foreign,  \* sessions whose base is that of a host function nobody executes
  yielded,  \* history: pc of the instruction that yielded last, or 0
  queue,    \* host threads that the host will call again
  handler,  \* host threads on which ResumeVMClosure was left
  fault     \* TRUE once freed memory, or another function's frame, broke the host

session == <<code, pc, savedpc, hostpc, hop, written, nCcalls, foreign, yielded>>
vars == <<gL, stage, session, queue, handler, fault>>

Stages == {"none", "loaded", "rejected", "running", "waiting", "done",
           "stopped", "failed"}

Init ==
  /\ gL = "open" /\ queue = {} /\ handler = {} /\ foreign = {} /\ fault = FALSE
  /\ stage = [s \in Sessions |-> "none"]
  /\ code = [s \in Sessions |-> <<>>]
  /\ pc = [s \in Sessions |-> 1] /\ savedpc = pc /\ hostpc = pc
  /\ hop = [s \in Sessions |-> 0] /\ yielded = hop
  /\ nCcalls = hop
  /\ written = [s \in Sessions |-> NoThread]

(* The host runs one thread at a time. *)
HostIdle == \A s \in Sessions : stage[s] # "running"

Move(s, st) == stage' = [stage EXCEPT ![s] = st]

------------------------------------------------------------------------------
(* vm::LaunchVM: a thread for the script and a registry slot that keeps it;
   the script compiles, and its function and shared state get slots too. *)
LaunchVM(s) ==
  /\ HostIdle /\ stage[s] = "none" /\ gL = "open"
  /\ \E p \in Programs : code' = [code EXCEPT ![s] = p]
  /\ Move(s, "loaded")
  /\ UNCHANGED <<gL, pc, savedpc, hostpc, hop, written, nCcalls, foreign,
                 yielded, queue, handler, fault>>

(* vm::LaunchVM with a syntax error: lua_close(L), which takes the main thread
   of L's global state and frees everything that belongs to it. *)
LaunchVMRejects(s) ==
  /\ HostIdle /\ stage[s] = "none" /\ gL = "open"
  /\ gL' = "closed"
  /\ Move(s, "rejected")
  /\ UNCHANGED <<session, queue, handler, fault>>

(* rbx_spawn calls LaunchVMClosure, which looks the session up in gL and calls
   CallVMClosure protected; clua_call enters the function on L. *)
LaunchVMClosure(s) ==
  /\ HostIdle /\ stage[s] = "loaded" /\ gL = "open"
  /\ Move(s, "running")
  /\ nCcalls' = [nCcalls EXCEPT ![s] = @ + 1]
  /\ savedpc' = [savedpc EXCEPT ![s] = 1]
  /\ pc' = [pc EXCEPT ![s] = 1]
  /\ UNCHANGED <<gL, code, hostpc, hop, written, foreign, yielded, queue, handler,
                 fault>>

Called(s) == <<s, hop[s]>> \in queue \cap handler

(* The host calls what a yield left on the thread: ResumeVMClosure makes a new
   host thread and runs ResumeVMClosureInternal there, which looks the session
   up in gL and enters cluaV_execute at L->savedpc, without cluaD_call. *)
ResumeVMClosure_CountsDepth(s) ==
  /\ HostIdle /\ stage[s] = "waiting" /\ Called(s) /\ gL = "open"
  /\ hop[s] < MaxHops
  /\ queue' = queue \ {<<s, hop[s]>>}
  /\ handler' = handler \ {<<s, hop[s]>>}
  /\ hop' = [hop EXCEPT ![s] = @ + 1]
  /\ pc' = [pc EXCEPT ![s] = savedpc[s]]
  /\ nCcalls' = [nCcalls EXCEPT ![s] = @ + 1]
  /\ Move(s, "running")
  /\ UNCHANGED <<gL, code, savedpc, hostpc, written, foreign, yielded, fault>>

ResumeVMClosure(s) ==
  /\ HostIdle /\ stage[s] = "waiting" /\ Called(s) /\ gL = "open"
  /\ hop[s] < MaxHops
  /\ queue' = queue \ {<<s, hop[s]>>}
  /\ handler' = handler \ {<<s, hop[s]>>}
  /\ hop' = [hop EXCEPT ![s] = @ + 1]
  /\ pc' = [pc EXCEPT ![s] = savedpc[s]]
  /\ Move(s, "running")
  /\ UNCHANGED <<gL, code, savedpc, hostpc, written, nCcalls, foreign, yielded,
                 fault>>

(* Once gL is freed, the next script, or the host's call of a script that was
   spawned or waits, reads released memory. *)
SubmitToFreed(s) ==
  /\ HostIdle /\ gL = "closed" /\ stage[s] = "none"
  /\ fault' = TRUE
  /\ UNCHANGED <<gL, stage, session, queue, handler>>

UseFreedState(s) ==
  /\ HostIdle /\ gL = "closed"
  /\ stage[s] = "loaded" \/ (stage[s] = "waiting" /\ Called(s))
  /\ fault' = TRUE
  /\ UNCHANGED <<gL, stage, session, queue, handler>>

------------------------------------------------------------------------------
(* cluaV_execute *)

At(s, i) == stage[s] = "running" /\ code[s][pc[s]] = i

(* Both pcs are stored before the host is entered: pc already points to the
   next instruction. *)
SavePc_SameInstruction(s) == /\ savedpc' = [savedpc EXCEPT ![s] = pc[s]]
                             /\ hostpc' = [hostpc EXCEPT ![s] = pc[s]]

SavePc(s) == /\ savedpc' = [savedpc EXCEPT ![s] = pc[s] + 1]
             /\ hostpc' = [hostpc EXCEPT ![s] = pc[s] + 1]

(* TFORLOOP stores the host's pc only. *)
SaveIterPc(s) == /\ hostpc' = [hostpc EXCEPT ![s] = pc[s] + 1]
                 /\ UNCHANGED savedpc

Jump(s, target) == pc' = [pc EXCEPT ![s] = target]

(* Instructions that stay inside the interpreter. *)
Inside == <<gL, stage, code, savedpc, hostpc, hop, nCcalls, foreign, yielded,
            queue, handler, fault>>

Local(s) ==
  /\ At(s, "local")
  /\ written' = [written EXCEPT ![s] = hop[s]]
  /\ Jump(s, pc[s] + 1)
  /\ UNCHANGED Inside

Read(s) ==
  /\ At(s, "read")
  /\ Jump(s, pc[s] + 1)
  /\ UNCHANGED <<Inside, written>>

(* Nothing here says that a loop of the script ends. *)
Loop(s) ==
  /\ At(s, "loop")
  /\ Jump(s, 1) \/ Jump(s, pc[s] + 1)
  /\ UNCHANGED <<Inside, written>>

------------------------------------------------------------------------------
(* What may become of an instruction that enters the host. *)

Returns(s, target) ==
  Jump(s, target) /\ UNCHANGED <<stage, foreign, yielded, queue, handler>>

(* PCRLUA: the host has pushed the frame of a Lua function of its own. The
   interpreter starts again at L->savedpc, which is this function's, on the
   registers of that one; the count nexeccalls is never read. *)
EntersLua(s) ==
  /\ Jump(s, savedpc'[s])
  /\ foreign' = foreign \cup {s}
  /\ UNCHANGED <<stage, yielded, queue, handler>>

(* The handler of a yield: on information->RS after the first entry, later on
   the resumeThread whose rbx_pcall has failed. *)
LeaveHandler_OnCaller(s) ==
  handler' = handler \cup {<<s, IF hop[s] = 0 THEN 0 ELSE hop[s] - 1>>}

LeaveHandler(s) == handler' = handler \cup {<<s, hop[s]>>}

(* The host function yields: it queues the running thread, and its error unwinds
   cluaV_execute and cluaD_call, which does not get to its --nCcalls, up to the
   rbx_pcall, which drops the frames above its own. *)
Yields(s) ==
  /\ hop[s] < MaxHops
  /\ yielded' = [yielded EXCEPT ![s] = pc[s]]
  /\ queue' = queue \cup {<<s, hop[s]>>}
  /\ LeaveHandler(s)
  /\ foreign' = foreign \ {s}
  /\ Move(s, "waiting")
  /\ UNCHANGED pc

(* It raises some other error: rbx_pcall reports it and the session is over. *)
Raises(s) ==
  /\ foreign' = foreign \ {s}
  /\ Move(s, "failed")
  /\ UNCHANGED <<pc, yielded, queue, handler>>

Entered == <<gL, code, hop, written, nCcalls, fault>>

Access(s) ==
  /\ At(s, "access")
  /\ SavePc(s)
  /\ Returns(s, pc[s] + 1) \/ Yields(s) \/ Raises(s)
  /\ UNCHANGED Entered

Call(s) ==
  /\ At(s, "call")
  /\ SavePc(s)
  /\ Returns(s, pc[s] + 1) \/ EntersLua(s) \/ Yields(s) \/ Raises(s)
  /\ UNCHANGED Entered

(* rbxD_call runs Lua functions of the host to their end. A value jumps back to
   the top of the loop body, nil falls through. *)
Iter(s) ==
  /\ At(s, "iter")
  /\ SaveIterPc(s)
  /\ Returns(s, 1) \/ Returns(s, pc[s] + 1) \/ Yields(s) \/ Raises(s)
  /\ UNCHANGED Entered

(* RETURN leaves cluaV_execute without luaD_poscall; an unknown opcode ends the
   session in the same way. Only after the first entry does the return pass
   through cluaD_call, which takes its count back. *)
Leave(s) ==
  /\ \/ At(s, "return") /\ Move(s, "done")
     \/ At(s, "unknown") /\ Move(s, "stopped")
  /\ nCcalls' = [nCcalls EXCEPT ![s] = IF hop[s] = 0 THEN @ - 1 ELSE @]
  /\ UNCHANGED <<gL, code, pc, savedpc, hostpc, hop, written, foreign, yielded,
                 queue, handler, fault>>

Execute(s) ==
  Local(s) \/ Read(s) \/ Loop(s) \/ Access(s) \/ Call(s) \/ Iter(s) \/ Leave(s)

(* What the code says of PCRLUA: CLVM will crash. The frame has too few
   registers, or the host returns from the wrong function; nothing in the code
   says when. *)
Crash(s) ==
  /\ s \in foreign
  /\ fault' = TRUE
  /\ UNCHANGED <<gL, stage, session, queue, handler>>

Host(s) == \/ LaunchVM(s) \/ LaunchVMRejects(s) \/ LaunchVMClosure(s)
           \/ ResumeVMClosure(s) \/ SubmitToFreed(s) \/ UseFreedState(s)

Next == ~fault /\ \E s \in Sessions : Host(s) \/ Execute(s) \/ Crash(s)

(* A host function that was called comes back, a spawned thread is called, and
   a queued one is called again, freed state or not. Nothing makes a script be
   submitted, leave its loops, or crash. *)
Fairness ==
  \A s \in Sessions : /\ WF_vars(~fault /\ Execute(s))
                      /\ SF_vars(~fault /\ LaunchVMClosure(s))
                      /\ SF_vars(~fault /\ ResumeVMClosure(s))
                      /\ SF_vars(~fault /\ UseFreedState(s))

Spec == Init /\ [][Next]_vars /\ Fairness

------------------------------------------------------------------------------
TypeOK ==
  /\ gL \in {"open", "closed"} /\ fault \in BOOLEAN
  /\ stage \in [Sessions -> Stages] /\ foreign \subseteq Sessions
  /\ queue \subseteq Sessions \X Hops /\ handler \subseteq Sessions \X Hops
  /\ code \in [Sessions -> Programs \cup {<<>>}]
  /\ pc \in [Sessions -> Nat \ {0}]
  /\ savedpc \in [Sessions -> Nat \ {0}]
  /\ hostpc \in [Sessions -> Nat \ {0}]
  /\ hop \in [Sessions -> Hops]
  /\ written \in [Sessions -> 0 .. NoThread]
  /\ nCcalls \in [Sessions -> Nat] /\ yielded \in [Sessions -> Nat]

(* However the sessions interleave, one that yielded in a call or an access
   continues with the instruction after it; the host has held that pc meanwhile. *)
CallResumesNext ==
  [][ \A s \in Sessions :
        (stage[s] = "waiting" /\ stage'[s] = "running"
           /\ code[s][yielded[s]] \in {"call", "access"})
        => pc'[s] = yielded[s] + 1 /\ hostpc[s] = pc'[s] ]_vars

(* A yield loses one decrement of L->nCcalls, but resumptions do not add to
   it: a session never nears LUAI_MAXCCALLS however often it waits. *)
DepthBounded ==
  /\ TypeOK
  /\ \A s \in Sessions : /\ nCcalls[s] <= 1
                         /\ stage[s] = "waiting" => nCcalls[s] = 1

(* The host finds the handler on the thread that it calls: as long as no script
   runs for ever, one that was spawned, or that has yielded for the n-th time,
   is entered again, unless the process has been broken before. *)
WaitersGoOn ==
  (\A r \in Sessions : []<>(stage[r] # "running"))
    => \A s \in Sessions :
         stage[s] \in {"loaded", "waiting"} ~> (stage[s] = "running" \/ fault)

------------------------------------------------------------------------------
(* vm.cpp:75 `Every read/write MUST be replicated to Roblox': an instruction
   that reads a local finds the frame it was written to. (After PCRLUA the code
   itself expects to crash.) *)
LocalsSurvive ==
  \A s \in Sessions :
    (At(s, "read") /\ s \notin foreign) => written[s] \in {hop[s], NoThread}

==============================================================================
