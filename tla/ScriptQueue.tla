----------------------------- MODULE ScriptQueue -----------------------------
(***************************************************************************)
(* The list of pending scripts of entry.cpp and the two threads that share *)
(* it: the window thread (MainThread, then the message loop of SetupWindow *)
(* and its WM_COMMAND handler) and the host's render thread, which runs    *)
(* RenderSteppedFunc once per frame.  The vector is guarded by             *)
(* scriptListMtx; the drain loop walks it with iterators taken before the  *)
(* first pop_back.                                                         *)
(*                                                                         *)
(* A script is the number of its submission, so order and identity are     *)
(* visible and its text is not.  NoText is the empty script, one of the    *)
(* things a read of a destroyed std::string can give.                      *)
(***************************************************************************)
EXTENDS Naturals, Sequences

CONSTANT MaxSubmits  \* bound: how many times EXECUTE is pressed

ASSUME MaxSubmitsAssumption == MaxSubmits \in Nat

Scripts == 1 .. MaxSubmits
NoText == 0
Texts == Scripts \cup {NoText}

VARIABLES
  ui,         \* where the window thread is
  frame,      \* where RenderSteppedFunc is on the render thread
  owner,      \* the thread that holds scriptListMtx, or "free"
  submitted,  \* number of ExecuteFunction calls so far
  list,       \* scriptList: the live elements of the vector
  slots,      \* the range [begin, end) the drain loop captured
  pos,        \* the loop's iterator, an index of slots
  cur,        \* the loop variable `script'
  log,        \* history: what LaunchVM accepted or rejected, in order
  mark,       \* history: length of log when the running drain began
  aborts,     \* history: drains left by an error of the host
  vState,     \* TRUE once luaL_newstate gave MainThread a state
  alive       \* FALSE once the process has crashed

drain  == <<slots, pos, cur, mark>>
ghosts == <<log, aborts>>
window == <<ui, submitted, vState>>
vars   == <<window, frame, owner, list, drain, ghosts, alive>>

UiStates == {"starting", "vstate", "scheduled", "idle", "clicked", "pushing",
             "ended"}
FrameStates == {"off", "between", "locking", "loop", "launching", "spawned"}
Launch == [script : Texts, spawned : BOOLEAN]

(* The drain holds the lock from the capture of the iterators on. *)
Draining == frame \in {"loop", "launching", "spawned"}

Init ==
  /\ ui = "starting" /\ frame = "off" /\ owner = "free" /\ submitted = 0
  /\ list = <<>> /\ slots = <<>> /\ pos = 1 /\ cur = NoText
  /\ log = <<>> /\ mark = 0 /\ aborts = 0
  /\ vState = FALSE /\ alive = TRUE

------------------------------------------------------------------------------
(* The window thread *)

(* MainThread finds no script context and returns. *)
ScanFails ==
  /\ ui = "starting"
  /\ ui' = "ended"
  /\ UNCHANGED <<frame, owner, submitted, vState, list, drain, ghosts, alive>>

(* MainThread: vState is created before anything is scheduled; luaL_newstate
   returns NULL when memory is short, and the result is not looked at. *)
CreateState ==
  /\ ui = "starting"
  /\ ui' = "vstate"
  /\ vState' \in BOOLEAN
  /\ UNCHANGED <<frame, owner, submitted, list, drain, ghosts, alive>>

(* ScheduleCode connects RenderSteppedFunc from outside the host's scheduler;
   it may clash with the host and take the process down. *)
ScheduleCode ==
  /\ ui = "vstate"
  /\ \/ /\ ui' = "scheduled" /\ frame' = "between" /\ alive' = alive
     \/ /\ alive' = FALSE /\ UNCHANGED <<ui, frame>>
  /\ UNCHANGED <<owner, submitted, vState, list, drain, ghosts>>

(* SetupWindow enters the message loop, or returns when a window call fails. *)
SetupWindow ==
  /\ ui = "scheduled"
  /\ ui' \in {"idle", "ended"}
  /\ UNCHANGED <<frame, owner, submitted, vState, list, drain, ghosts, alive>>

(* EXECUTE with a non-empty text box calls ExecuteFunction on a copy. *)
ClickExecute ==
  /\ ui = "idle" /\ submitted < MaxSubmits
  /\ ui' = "clicked"
  /\ UNCHANGED <<frame, owner, submitted, vState, list, drain, ghosts, alive>>

(* ExecuteFunction: lock_guard on scriptListMtx ... *)
LockForPush_NoWait ==
  /\ ui = "clicked"
  /\ ui' = "pushing" /\ owner' = "window"
  /\ UNCHANGED <<frame, submitted, vState, list, drain, ghosts, alive>>

LockForPush ==
  /\ ui = "clicked" /\ owner = "free"
  /\ ui' = "pushing" /\ owner' = "window"
  /\ UNCHANGED <<frame, submitted, vState, list, drain, ghosts, alive>>

(* ... push_back, and the guard's destructor. *)
PushBack ==
  /\ ui = "pushing"
  /\ submitted' = submitted + 1
  /\ list' = Append(list, submitted + 1)
  /\ ui' = "idle" /\ owner' = "free"
  /\ UNCHANGED <<frame, vState, drain, ghosts, alive>>

(* WM_DESTROY ends the message loop; RenderSteppedFunc stays connected. *)
CloseWindow ==
  /\ ui = "idle"
  /\ ui' = "ended"
  /\ UNCHANGED <<frame, owner, submitted, vState, list, drain, ghosts, alive>>

------------------------------------------------------------------------------
(* The render thread: RenderSteppedFunc *)

(* The host fires RenderStepped; without a state the handler does nothing. *)
BeginFrame ==
  /\ frame = "between" /\ vState
  /\ frame' = "locking"
  /\ UNCHANGED <<window, owner, list, drain, ghosts, alive>>

(* lock_guard; the range-for takes begin() and end() once. *)
LockList_FromZero ==
  /\ frame = "locking" /\ owner = "free"
  /\ frame' = "loop" /\ owner' = "render"
  /\ slots' = list /\ pos' = 0 /\ mark' = Len(log)
  /\ UNCHANGED <<window, list, cur, ghosts, alive>>

LockList ==
  /\ frame = "locking" /\ owner = "free"
  /\ frame' = "loop" /\ owner' = "render"
  /\ slots' = list /\ pos' = 1 /\ mark' = Len(log)
  /\ UNCHANGED <<window, list, cur, ghosts, alive>>

(* What copying slot p can give: the element while it is alive; once pop_back
   has destroyed it, its old text or the empty one (or a crash, below). *)
Readable(p) ==
  IF p <= Len(list) THEN {slots[p]} ELSE {slots[p], NoText}

(* script = *it, then scriptList.pop_back(). *)
TakeScript_PopTwice ==
  /\ frame = "loop" /\ pos <= Len(slots)
  /\ cur' \in Readable(pos)
  /\ list' = SubSeq(list, 1, Len(list) - 2)
  /\ frame' = "launching"
  /\ UNCHANGED <<window, owner, slots, pos, mark, ghosts, alive>>

TakeScript ==
  /\ frame = "loop" /\ pos <= Len(slots)
  /\ cur' \in Readable(pos)
  /\ list' = SubSeq(list, 1, Len(list) - 1)
  /\ frame' = "launching"
  /\ UNCHANGED <<window, owner, slots, pos, mark, ghosts, alive>>

(* Copying a destroyed string whose buffer was freed may fault. *)
CopyFaults ==
  /\ frame = "loop" /\ pos <= Len(slots) /\ pos > Len(list)
  /\ alive' = FALSE
  /\ UNCHANGED <<window, frame, owner, list, drain, ghosts>>

(* The host raises an error while the script's thread is prepared (a field of
   nil, for one): the guard is released, the list is not cleared. *)
PrepareFails_KeepsLock ==
  /\ frame = "launching"
  /\ frame' = "between"
  /\ aborts' = aborts + 1
  /\ UNCHANGED <<window, owner, list, drain, log, alive>>

PrepareFails ==
  /\ frame = "launching"
  /\ frame' = "between" /\ owner' = "free"
  /\ aborts' = aborts + 1
  /\ UNCHANGED <<window, list, drain, log, alive>>

(* LaunchVM accepts the script: rbx_spawn starts its thread ... *)
LaunchSpawns ==
  /\ frame = "launching"
  /\ frame' = "spawned"
  /\ log' = Append(log, [script |-> cur, spawned |-> TRUE])
  /\ UNCHANGED <<window, owner, list, drain, aborts, alive>>

(* ... and returns, with the lock still held. *)
SpawnReturns ==
  /\ frame = "spawned"
  /\ frame' = "loop" /\ pos' = pos + 1
  /\ UNCHANGED <<window, owner, list, slots, cur, mark, ghosts, alive>>

(* LaunchVM finds a syntax error. *)
LaunchRejects ==
  /\ frame = "launching" /\ cur # NoText
  /\ frame' = "loop" /\ pos' = pos + 1
  /\ log' = Append(log, [script |-> cur, spawned |-> FALSE])
  /\ UNCHANGED <<window, owner, list, slots, cur, mark, aborts, alive>>

(* The iterator meets the captured end: clear(), and the guard's destructor. *)
EndDrain_KeepsLock ==
  /\ frame = "loop" /\ pos > Len(slots)
  /\ list' = <<>>
  /\ frame' = "between"
  /\ UNCHANGED <<window, owner, drain, ghosts, alive>>

EndDrain ==
  /\ frame = "loop" /\ pos > Len(slots)
  /\ list' = <<>>
  /\ frame' = "between" /\ owner' = "free"
  /\ UNCHANGED <<window, drain, ghosts, alive>>

------------------------------------------------------------------------------
Startup == ScanFails \/ CreateState \/ ScheduleCode \/ SetupWindow
Window  == ClickExecute \/ LockForPush \/ PushBack \/ CloseWindow
Iterate == \/ TakeScript \/ CopyFaults \/ PrepareFails \/ LaunchSpawns
           \/ SpawnReturns \/ LaunchRejects \/ EndDrain
Render  == BeginFrame \/ LockList \/ Iterate

Next == alive /\ (Startup \/ Window \/ Render)

(* The host keeps firing frames and rbx_spawn returns; a thread that waits for
   the mutex again and again while it is released gets it (both sides contend,
   so weak fairness would let one starve). Nothing makes the user act. *)
Fairness ==
  /\ WF_vars(alive /\ PushBack)
  /\ SF_vars(alive /\ LockForPush)
  /\ SF_vars(alive /\ LockList)
  /\ WF_vars(alive /\ (BeginFrame \/ Iterate))

Spec == Init /\ [][Next]_vars /\ Fairness

------------------------------------------------------------------------------
TypeOK ==
  /\ ui \in UiStates /\ frame \in FrameStates
  /\ owner \in {"free", "window", "render"}
  /\ submitted \in 0 .. MaxSubmits
  /\ list \in Seq(Scripts) /\ slots \in Seq(Scripts)
  /\ pos \in Nat \ {0} /\ cur \in Texts
  /\ log \in Seq(Launch) /\ mark \in Nat /\ aborts \in Nat
  /\ vState \in BOOLEAN /\ alive \in BOOLEAN

(* The mutex is held exactly by the thread that is inside a guarded scope, so
   never by both: ExecuteFunction and RenderSteppedFunc exclude each other. *)
LockDiscipline ==
  /\ (owner = "window") <=> (ui = "pushing")
  /\ (owner = "render") <=> Draining

(* How many elements the running drain has popped. *)
Popped == IF frame = "loop" THEN pos - 1 ELSE pos

(* While RenderSteppedFunc iterates, nobody else changes the vector: what is
   left of it is the captured range less one element per iteration. *)
DrainIsolated ==
  Draining =>
    /\ pos <= Len(slots) + (IF frame = "loop" THEN 1 ELSE 0)
    /\ Len(list) = Len(slots) - Popped
    /\ \A i \in 1 .. Len(list) : list[i] = slots[i]

(* pop_back is never called on an empty vector, for all that it runs once per
   iteration of a loop whose end was fixed before the first call. *)
PopNeverUnderflows ==
  (frame = "loop" /\ pos <= Len(slots)) => list # <<>>

(* The iterator outruns the shrinking vector half way: scripts of the first
   half of a batch (rounded up) are handed to LaunchVM intact. *)
FirstHalfIntact ==
  (frame = "launching" /\ 2 * pos <= Len(slots) + 1) => cur = slots[pos]

(* A drain that reached its end has popped everything: the final clear() of
   RenderSteppedFunc never discards a script. *)
ClearDiscardsNothing ==
  (frame = "loop" /\ pos > Len(slots)) => list = <<>>

(* A drain is one undisturbed pass: the mutex keeps the vector to it, every
   pop_back finds an element, and the final clear() finds none. *)
DrainSafe ==
  LockDiscipline /\ DrainIsolated /\ PopNeverUnderflows /\ ClearDiscardsNothing

(* A script reaches LaunchVM twice only after a drain was left by an error,
   which leaves copied scripts in the list. *)
RelaunchOnlyAfterAbort ==
  aborts = 0 => \A i, j \in 1 .. Len(log) :
                  log[i].script = log[j].script /\ log[i].script # NoText
                    => i = j

(* What is launched is what was submitted: the first half of a batch intact, and
   nothing twice before an error has cut a drain short. *)
LaunchesRight == FirstHalfIntact /\ RelaunchOnlyAfterAbort

(* ExecuteFunction returns: a click is not held up for ever by the drains. *)
ClickCompletes == ui = "clicked" ~> (ui = "idle" \/ ~alive)

(* Every batch leaves the list, also when every frame ends in an error. *)
ListDrains == (vState /\ list # <<>>) ~> (list = <<>> \/ ~alive)

------------------------------------------------------------------------------
(* What the two threads promise each other: to the window thread a whole drain
   is one step, taken when RenderSteppedFunc leaves the guarded scope. *)
Mailbox == INSTANCE ScriptMailbox WITH
             pending  <- IF Draining THEN slots ELSE list,
             launched <- IF Draining THEN SubSeq(log, 1, mark) ELSE log

ImplementsMailbox == Mailbox!Spec

==============================================================================
