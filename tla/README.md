# Verification of NostalgiaConv

NostalgiaConv is a Windows DLL that runs Lua scripts inside a host program
with its own Lua 5.1 runtime. It compiles a script with an embedded Lua 5.1.5
and either converts the compiled prototypes to the host's format
(`conversion/`) or interprets them itself on the registers of the host (the
"CLVM", `vm/`). `entry.cpp` and `window.cpp` bring scripts from a text box to
the host's render thread. The embedded runtime, `lua/`, is nine tenths of the
source: compiler, virtual machine, garbage collector, tables, coroutines and
libraries.

Everything below is read from the source under `src/NostalgiaConv/`.

## Components

| component | state | operations | hard behaviour | what makes it correct | module |
|---|---|---|---|---|---|
| Script list (`entry.cpp`, `window.cpp`) | `scriptList`, its mutex, `vState`, the handler connected to RenderStepped | `ExecuteFunction`, `RenderSteppedFunc`, `ScheduleCode`, `MainThread` | two threads; `pop_back` inside a range-for; errors of the host in the middle of a batch | a drain is atomic, removes exactly its batch, hands over at least half of it intact, launches nothing twice | `ScriptQueue` |
| CLVM sessions (`vm/vm.cpp`) | the shared state `gL`, one thread, pc and host thread per script | `LaunchVM`, `LaunchVMClosure`, `ResumeVMClosure`, `cluaV_execute` | yields are errors that unwind the interpreter; resumption on another host thread; one state for all | a yield resumes after the instruction that yielded; the handler of a yield is where the host looks; depth stays bounded | `ClvmSession` |
| Prototype conversion (`conversion/`, `update.hpp`) | caches of converted constants and prototypes, the host's GC threshold | `TranspileProto`, `ProtoConversion`, `CrackEncodeKey`, the encoders | cyclic caching, lookup by hash, errors before the threshold is restored | converted code decodes to the source's instructions and constants; the threshold comes back | `InstructionCodec`, `ProtoConversion` |
| Garbage collector (`lgc.c`) | colours, the lists gray, grayagain, weak and tmudata, phase, sweep positions | `singlestep`, `luaC_fullgc`, barriers | interleaved with the program step by step | nothing that can be reached is erased; garbage is; weak tables and finalizers keep their contracts | `LuaGC` |
| Functions and upvalues (`lfunc.c`) | open upvalues of each thread | `luaF_findupval`, `luaF_close` | written without barriers, found when dead, closed in any phase | see the collector | `LuaGC`, `Machine` |
| Tables (`ltable.c`) | array part, node part, `lastfree` | get, set, next, rehash, length | moving colliding nodes; keys dead but present; size boundaries | a table is a finite map; next visits every key once | `LuaTable` |
| Calls and coroutines (`ldo.c`, `lstate.c`) | CallInfo arrays, stack, `status`, `nCcalls`, jump buffers | call, return, resume, yield, pcall, throw | errors that unwind through C; limits | depth, frames and upvalues restored by every exit | `Calls` |
| Compiler (`lparser.c`, `lcode.c`) | token, active locals, free register, jump lists | one function per construct | back-patching, merging of instructions, register discipline, limits | the code means what the source means | `Parser`, `LuaCode` |
| Verifier and names (`ldebug.c`) | the last instruction that changed a register | `luaG_checkcode`, `getobjname` | jumps, data words among instructions | accepts what the compiler emits; names the operand at fault | `Verifier` |
| Dump and load (`ldump.c`, `lundump.c`) | position in the stream | `luaU_dump`, `luaU_undump` | truncated input, stripped functions | load undoes dump | `Chunk` |
| Interpreter (`lvm.c`) | pc, base, top, registers, open upvalues | the 38 instructions | open results, tail calls, varargs | the top of the stack; agrees with the meaning of the source | `Machine` |
| Metamethods (`ltm.c`, `lvm.c`) | the flags of a table | gets, sets, comparison, `setmetatable` | a cache that the search itself fills | an access ends where it would without the cache | `Metatables` |
| Sorting (`ltablib.c`) | the table, two indices, the Lua stack | `sort`, `auxsort` | comparison functions that are no order, or fail | a permutation, sorted under an order, logarithmic recursion | `Sort` |
| Patterns (`lstrlib.c`) | captures | `match` and what it calls, find, match, gmatch, gsub | backtracking that takes captures back; empty matches | the outcome the manual defines; none twice, none skipped | `Patterns`, `StringFunctions` |
| Registry references (`lauxlib.c`) | a list threaded through a table | `luaL_ref`, `luaL_unref` | the free list lives in the table it serves | references unique while held | `LuaTable` |
| Strings (`lstring.c`) | the table of all strings | `luaS_newlstr`, `luaS_resize` | a string found dead; growing and shrinking around a sweep by positions | one string for a text, never one that is erased | `StringTable`, `LuaGC` |
| Buffers (`lauxlib.c`) | an array of characters, pieces on the Lua stack | `luaL_addchar`, `luaL_addvalue`, ... | pieces are joined while others are added | nothing lost or out of order, few pieces | `Buffers` |
| Lexer, C API, other libraries, host integration | little of their own | | | | see "Not modelled" |

How they interact: the window thread appends to the script list; the render
thread drains it, and for each script calls `vm::LaunchVM` or
`conversion::ProtoConversion`, both of which call the compiler on a Lua state
of the DLL; the host then runs the closure that was left on its thread.
Everything that allocates in a Lua state may run one step of its collector,
which may call finalizers, which are Lua functions again. A compiled function
goes through the verifier when it is checked, and through dump and load when a
script stores it.

## Plan

Written, in this order: `ScriptQueue` with the abstract `ScriptMailbox`,
`ClvmSession`, `LuaGC`, `InstructionCodec` and `ProtoConversion`, `Calls`,
`LuaTable` with the abstract `TableMap`, the compiler with verifier, dump and
virtual machine, the library modules, and last
`StringTable` and `Buffers`; then the proofs, in the order of the section
"Proofs". What is left is listed there as only model-checked, with the reason.

## Modules

### ScriptQueue

The window thread is `ui` (start-up, then idle, clicked, pushing), the render
thread is `frame`; each action is the code between two points where the other
thread can get in. `owner` is `scriptListMtx`. A drain keeps the range it
captured in `slots` and its iterator in `pos`; `list` is the vector as it is.
Reading the element at `pos` after `pop_back` has destroyed it is undefined:
the action `TakeScript` then gives the old text or the empty one, and
`CopyFaults` ends the process. Failing calls of the host inside an iteration
(lines 143-168) are one action, `PrepareFails`, which leaves as an error leaves
the function: guard released, list not cleared. What a script does when it is
spawned is outside; the lock is held meanwhile (`LaunchSpawns`,
`SpawnReturns`).

`ScriptMailbox` is what the two threads promise each other, with a drain as one
step; `ScriptQueue!Mailbox` is the refinement mapping, which shows the list as
it was when the running drain began.

### ClvmSession

A session goes through `LaunchVM`, `LaunchVMClosure` (with `CallVMClosure`,
`clua_call`), some resumptions and `Leave`. An instruction is one of eight
classes, by what it does with the pc, the registers and the host. The host is
external: it runs one Lua thread at a time, queues the thread that runs before
the function that waits raises its error, and later calls what it finds on a
queued thread. `hop` is the host thread whose registers the interpreter uses: a
new one for every resumption. `queue` has the threads that the host will call,
`handler` those on which the code has left `ResumeVMClosure`; a thread that is
queued without a handler is never resumed.

A host function that is called returns, yields, raises, or is a Lua function of
the host (`EntersLua`, `vm.cpp:346`): the interpreter then goes on behind the
call with the registers of that function, which nobody executes. The session is
in `foreign` until an error unwinds it, and the host may crash meanwhile
(`Crash`), as the code says. A script's loops may run for ever (`Loop`, `Iter`).
After `lua_close` on a rejected script the next use of the shared state is a
fault (`SubmitToFreed`, `UseFreedState`).

### LuaGC

An address has a kind for good; `ptr` is the set of objects an object refers to
(the array, the upvalues, the stack, the metatable and environment alike),
`entry` the pairs of a weak table. A colour is one of two whites, gray (no bit
set) or black, and `isdead` is "of the other white". `singlestep` is seven
actions; the atomic step is one, written as the same sequence of markings as in
the code (`m1` to `m4`). Sweeping takes objects in any order, one at a time,
which includes every order and every batch size of `sweeplist`; a thread's open
upvalues are swept with it, as the code does. `luaC_fullgc` is `BeginFullGC`,
the sweep, `RestartFullGC` and a whole cycle, during which only finalizers run.

The mutator is the running thread: it may use what its stack and the globals
lead to (`Local`), and each action carries the barrier its code has, or none
where the code has none (stacks, open upvalues, moves between threads).
`GCTM` puts its userdata on the running stack, where the finalizer finds it.
The registry and the globals are one table, the root `Globals`.

### InstructionCodec and ProtoConversion

`InstructionCodec` is pure: the fields of an instruction word, the table of
operations, the exchange of operands B and C, the encoding of calls, closures
and returns bit by bit, and the search for the factor that undoes the host's
key. The operation has its 6 bits; the widths of A, B and C are constants.
`HostWord` and `Means` are how the host reads a word.

In `ProtoConversion`, `calls` is the C stack of `TranspileProto`, each call with
its own copy of the string cache (the maps are passed by value; `protoCache` is
written last, into a copy nobody reads, and is left out). One action converts
one constant, all instructions of a function, or begins or ends a nested
function; `heap` and `instructions` are the host's objects. `HostRaises` is an
error in any host call: it leaves everything as it is, the threshold and the
function on the stack of `vState` too. `HostCollects` takes what the host's
stack does not lead to, whenever `paused` lets it. Line numbers, upvalue names
and the fixed mask on numbers are data no property is about; the plain number
after a `SETLIST` with C = 0, which the code converts like an instruction, does
not occur in the model's code.

### Calls

`cs` is the stack of the C program: the activations of `luaV_execute`,
`luaD_call`, `luaD_pcall`, `lua_resume` and of C functions, each with the Lua
thread it works for. What is left to do when the activation above has returned
is an action of its own, so an error may come between any two of them:
`luaD_throw` cuts `cs` back to the innermost `luaD_rawrunprotected`
(`errorJmp`), and what the catcher does is `Recovered`. A thread has its
CallInfo array, the levels `base` and `top` of each frame and its open
upvalues; the values on the stack are left out. What a function does (call,
return, fail, yield, capture a variable, `pcall`, `xpcall`, resume) is left
open, so every program of the bound is included.

### LuaTable and TableMap

`array` and `node` are the two parts, `lastfree` the place from which free
nodes are looked for; a key is a number or an object, its hash a constant.
`newkey` moves the colliding node as the code does, `rehash` counts keys and
calls `resize`, which inserts again in the code's order. The collector may turn
the key of an empty entry into a dead one (`DEADKEY`) at any time. A traversal
is a client that asks `lua_next` for the next key while the script assigns to
fields that exist. Other clients are `table.insert`, `table.remove`, `SETLIST`
and `luaL_ref` / `luaL_unref`. `TableMap` is a map without parts, whose length
is any of its borders; `ImplementsMap` is the refinement.

### The compiler and the virtual machine

- `LuaOpcodes`: an instruction is a record of operation and operands.
- `LuaCode` (`lcode.c`): a function under compilation is a record; each
  operator of the module is the function of that name and gives the changed
  record. Jump lists are threaded through the code as in the source.
- `Parser` (`lparser.c`): one operator per production, on a sequence of tokens
  with one token of look-ahead. Whether all assertions of the source have held
  is in the field `ok`.
- `Verifier` (`ldebug.c`): `luaG_checkcode`, `symbexec` and `getobjname`.
- `Chunk` (`ldump.c`, `lundump.c`): a function as a sequence of items.
- `Machine` (`lvm.c`, with `luaD_precall`, `luaD_poscall` and `luaF_close`): an
  action per instruction. `luaV_execute` that is entered again for a call from
  C is one more element of `L.execs`.
- `LuaSemantics` says what a chunk means, by recursion on its syntax tree and
  with a cell for each variable: no registers, no jumps. It is the reference
  for the properties. `LuaSource` writes a tree as tokens, and `LuaChunks` has
  the trees that are checked, by construct.

A chunk is compiled, in some runs dumped (whole or stripped) and loaded, and
then run. Two values the script can tell apart only by identity are compared by
their kind when results are compared.

### The library

`Sort` is `auxsort` from one question to the comparison function to the next;
the values are named by the places they had. `Patterns` is the matcher, a
recursive operator per function with the captures in the state that it returns;
`StringFunctions` has the loops around it, an attempt per step, with what the
script answers to `gsub`. `PatternMeaning` is what the manual says of patterns,
from a list of items instead of text: all outcomes of a pattern at a place, the
preferred one first. `Metatables` has the flags of absent metamethods with
everything that sets or clears them; the handlers themselves are values. An
access is a number of turns (`gettable`, `settable`) up to `MAXTAGLOOP`; `Way`
is the same without flags.
`StringTable` is the table of strings, a chain being a set, with the collector
as far as it concerns strings: marking, the change of whites, the sweep of one
chain a step, `checkSizes`. `Buffers` is `luaL_Buffer`: a character is the
number of those added before it, so that order and loss can be told.

### MC modules

`MCScriptQueue` caps aborted drains, `MCClvmSession` gives programs in which
every class of instruction occurs before and after one that may yield,
`MCLuaGC` gives kinds to five or six addresses and selects the mutator's
actions for a run; the collector is whole in all of them. `MCProtoConversion`
has one script whose code sweeps the operations and operands. `MCCompiler` and
`MCLibrary` hold the inputs and the properties of what they extend; in
`MCLibrary` one of five independent parts works and the others rest, so its
run is five checks side by side.

Definitions whose name has an underscore and a suffix (`EndSweep_Early`) are
broken variants of the definition that follows; no specification uses them.
They document which bug each property is there to catch.

## Runs

| run | shows | bounds, and why they are enough |
|---|---|---|
| `queue` | type invariant; a drain is isolated, does not underflow and clears nothing else (`DrainSafe`); first half intact, nothing launched twice without an abort (`LaunchesRight`); the list implements `ScriptMailbox`; a click completes, a batch leaves the list | 4 submissions, 3 aborts: batches of 1 to 4, odd and even, pushes before, during and after a drain, several aborts in a row |
| `session` | resumption after the instruction that yielded, bounded depth (with the type invariant), a script that was spawned or waits is entered again (`WaitersGoOn`) | 2 sessions, 2 resumptions, four programs with loops of any number of turns: every order of yields and resumptions, also from a second resumption, whose handler is on another thread than the first one's |
| `session_locals` | counterexample, see "Findings" | - |
| `gc` | `Colours` (type invariant, tri-colour invariant, one list per object, nothing dead while marking) under both barriers, interning and full collections; a full collection is complete; nothing dangles | main thread, globals, a table, a C function and a string, 3 references: black-to-white stores in both directions and chains of two |
| `gc_upval` | upvalues and coroutines | two threads, a closure, an upvalue and a table, 4 references: a captured variable that outlives its thread |
| `gc_weak` | weak keys, weak values (`WeakEntriesAlive`, with `NoDangling`), finalizers | globals with weak values, a table with weak keys, a userdata and a string, 3 references: the userdata as key, as value and as both |
| `gc_live` | no garbage stays for good | a userdata and a table, 3 references |
| `conversion` | the host's words mean what the compiler wrote; constants are right up to strings of one hash that come earlier or outside; the collector is paused exactly during conversions, or after one that an error cut short; the closure is the whole script and nothing of it is collected on the way | 2 scripts; 4 functions nested 2 deep with 2 pairs of colliding strings, between neighbours and across levels; every operation with all 32 operands of fields of 1, 2 and 2 bits, so that carries and field borders occur, calls at 8 offsets; keys that are odd, even, and the last one |
| `calls` | `nCcalls` is what the C stack has of counted activations, in every state and whatever error unwinds it; frames, handlers and protected calls of a thread fit its activations; a yield leaves no C function behind; `coroutine.status` tells the coroutines that wait for another one from those that can be resumed | main thread and two coroutines (symmetric), 3 C calls and room for one more, 4 calls, CallInfo arrays of 4, 1 open upvalue, C stack of 6 activations, 4 calls deep: both limits are reached with errors in the error handler, and a coroutine resumes another one inside a `pcall` |
| `table` | every key is found from its main position and none twice, and the length is a border (`HashSound`); a traversal that assigns to existing fields and sees dead keys visits all; references keep their objects; it implements a map | indices 0 to 3 and two strings that collide with 0 and 1: node parts of 0, 1, 2 and 4, chains of three; references with 2 objects; a log of 4 visited keys |
| `compile` | the code of every chunk passes the verifier and the compiler's assertions, and no jump is left open; what is dumped is loaded, also stripped, and a dump that is cut is refused; between instructions the top of the stack is where the next one needs it; the chunk does what its tree means, call by call; a type error names the operand that the source has there | the limits are small so that chunks of a few tokens reach them: MAXINDEXRK 3, MAXARG_C 2 and 2 fields per flush (batches of a constructor, the extra word of `SETLIST`), the word 3 read as a `SETLIST`, 20 registers, 12 variables, 3 upvalues, 8 nested C levels, a stack of 60 |
| `library` | `SortSound`, `MatchesAsDefined`, `HandlersFound`, `StringsInterned`, `BufferSound` (below) | sort: all tables of 0 to 6 values with three ranks, so that all equalities occur, one of 10 values whose parts are as uneven as possible, and any answers at all up to 4 values; patterns of 1 to 3 items over subjects of up to 6 characters, all quantifiers, 2 captures; two tables, either of which may be its own or the other's metatable and handler, chains of 4; five texts, one of them fixed, in a table of 1, 2, 4 and 8 chains, so that it grows twice and shrinks, hash codes that share chains at every size; buffers of 2 characters and fewer than 4 pieces, 14 characters or a little more, added by up to 5 |

`SortSound`: whatever the function answers and wherever it fails, the table
holds its values and the two neighbours of the range, `auxsort` nests no deeper
than the logarithm of the length, and three values at most are on the Lua
stack; with an order, only places of the range are touched and the result is
sorted. `MatchesAsDefined`: every attempt has the outcome and the captures that
the manual's rules prefer; no place is skipped or tried twice; the call returns
what the attempts say. `HandlersFound`: in every state that gets, sets,
`rawset` and `setmetatable` can bring about, an access ends at the same field,
handler or error as without the cache, within as many turns. `StringsInterned`: wherever a sweep
stands and whatever sizes the table goes through, a text has one string at
most, in the chain where it is looked for; what is fixed or in use is there and
will not be erased, and a finished sweep has left no old colour. `BufferSound`:
a buffer holds what was added, in order, and takes fewer than `LIMIT` places.

`MaxRefs` bounds the references the mutator makes, never the collector.
Deadlock is checked in the collector's runs, in `calls` and in `table`; the
script list, the sessions, the conversions, the chunks and the library calls
really stop.

## Fairness

- `ScriptQueue`: the host keeps firing frames and a running drain goes on (weak
  fairness); a thread that waits for the mutex while it is released again and
  again gets it (strong fairness for both: weak fairness would let one starve).
  Nothing makes the user press EXECUTE.
- `ClvmSession`: an instruction that runs ends; the host calls a spawned thread,
  and a queued one that has a handler, in the end (strong fairness, as the host
  is busy now and then; also when the state has been freed, which it does not
  know). Nothing makes a loop of a script end or the host crash. A script that
  loops without waiting keeps the host busy for good, so `WaitersGoOn` assumes
  that no session runs for ever.
- `LuaGC`: the collector takes a step again and again. It always has one, so
  this is weak fairness; `luaC_checkGC` after every allocation justifies it for
  a program that allocates.
- The other specifications state none. A program decides whether it ends; a
  chunk of the run `compile` that looped without emitting anything would show
  as a run that ends in no state the properties speak of, and `table.sort` may
  really loop for ever (see "Findings").

## Proofs

A module `XProofs` has the theorems about `X`, for every value of its
constants. (`LibraryProofs` has those about `Metatables`, `Buffers` and
`StringTable`.) Each safety theorem rests on an inductive invariant that is stronger
than the property; what follows says what it adds and why that is needed.

**ScriptQueueProofs**, for every number of submissions and of aborted drains:
`TypeCorrect`, `DrainsAreSafe` and `LaunchesAreRight` (with the parts of these
as theorems of their own), and the refinement `MailboxImplemented`. The
invariant `Inv` is `TypeOK`, the lock discipline and the window of the drain:
its iterator lies in the captured range and the vector is that range less one
element per iteration. The window needs the lock discipline (nobody else may
push), and the underflow, the clear and the isolation follow from it by
arithmetic: after k iterations of n, n - k elements are left. The first half
needs one more step: the iterator is not past the vector while 2k <= n + 1, so
the copy reads a live element. That nothing is launched twice has an invariant
of its own, `InOrder`: without aborts the launched texts are numbered in order
of submission. For the refinement, `DrainRecord` says what the running drain
has appended to the log so far. Its steps are then hidden from the mailbox, and
the step that leaves the guarded scope is the whole `Drain`, a prefix of it or
its abort (`MailboxStep`).

**ClvmSessionProofs**, for any programs, sessions and resumptions:
`DepthStaysBounded`, the action property `CallsResumeNext` and
`WaitersCallable`. `Inv` adds the depth of the C stack in each stage of a
session (`Depth`: a yield leaves the count that `clua_call` added), and that a
session that waits in a call or an access has stored the pc behind it on both
its threads (`PcSaved`). `WaitersCallable` is the safety half of `WaitersGoOn`:
the handler of a session that waits is on the thread that was queued, which is
a different one for every resumption, so no other session's yield or resumption
can take it away.

**LuaGCProofs**, for every heap, whatever the kinds of its addresses, and every
order of steps of program and collector: `Invariance`, `ColoursHold`,
`NothingDangles`, `WeakEntriesLive`, `FinalizersKept` (an action property) and
`FullCollectsAll`. The invariant `IInv` has ten parts. The heart is
`LiveClosed`: what is not about to be erased refers to nothing that is. It is
not inductive by itself. While marking, `MarkSound` carries it: what is marked
and in no list is black with all its children marked. Threads and weak tables,
which are written without barriers, stay in the lists, and an open upvalue is
never black (`OpenNotBlack`), so the atomic step can catch up with them. The
atomic step then changes the white, and `Swept` and `SweepOrder` say what still
has the old one: the objects the sweep has not come to, userdata that wait for
their finalizer, and open upvalues of a thread not swept yet. `RootsLive`,
`HeapShape`, `OneList` and `FinalizedOK` are the book-keeping those need. What
is marked at the end of the atomic step is closed under references because
`Closure` is (`ChildrenClosed`) and no more than what can be reached because it
is the least such set (`ChildrenLeast`); no induction is needed for either.
`FullCollectsAll` has an invariant of its own, `FullMarks`: in the cycle that
`luaC_fullgc` starts, all that is marked can be reached from the roots of that
moment, as only finalizers run meanwhile.

**LibraryProofs** is about three parts of the library. *Metatables*, for any
number of tables, any metatables (cycles too) and any `MAXTAGLOOP`:
`FlagsHonest` and `HandlersAlwaysFound`. The invariant `Honest` says that a
flagged event is one the table has no field for, which a store breaks for an
instant and must restore. From it, each turn of an access goes where `Leads`
goes, which knows no flags, and leaves a heap that differs in flags only
(`GetTurn`, `SetTurn`); so both take the same number of turns, which is an
induction up to the limit (`GetWay`, `SetWay`). Assumed (`MetatableAssumption`):
a table is neither a string nor a function. *Buffers*, for any size of the
array, any lengths and any `LIMIT` from two on: `BufferIsSound`. `Says` is what
pieces and array say when put together; that joining the top pieces changes
nothing of it (`Joins`) is a fact about `FlattenSeq`, and that the pieces stay
few follows because `toget` goes on until fewer than `LIMIT` are left. With a
`LIMIT` of one, the theorem would be false: no piece could be stacked.
*Strings*, for any texts, hash codes, sizes and positions of a sweep:
`AlwaysInterned`. A string is told by its text, so `TableRight` (each
string in its chain, a text once, `nuse` the number of texts) is about the set
of texts only, and marking, sweeping, fixing and taking back a dead string are
one lemma (`Repaints`). `Swept` says which chains the sweep has cleaned, also
when the table grows or shrinks between two of its steps. Assumed: hash codes
are natural numbers, sizes positive, the fixed texts no more than the first size.

**CallsProofs**, for any number of coroutines and any limits: `DepthIsExact`,
`CallersFindTheirFrames`, `YieldsAreClean` and `StatusTellsTheTruth`, all from
`Invariance`. The parts of `IInv` are stated of any C stack and any threads,
because one step of the program makes several changes (an error in a resumed
coroutine cuts the stack, buries a thread and gives its resumer the message)
and the invariant holds of what is between them too:

- `Chain` says which activation may lie on which, and that a resumption begins
  the activations of its thread.
- `Depth`: the running thread's count is that of the stack; so is, at its place
  in the stack, every count that will be restored (`oldnCcalls` of a protected
  call, the resumer's own, the `baseCcalls` of a coroutine). Without the last
  two, an error or a yield could restore anything.
- `Match`: the CallInfo array of a thread has the entries its activations answer
  for, or is a suspended one (`Suspended`).
- `PcallsOK`: what `luaD_pcall` keeps (`old_ci`, `old_top`) still lies between
  the frames it lay between. This is what makes `TopOK` necessary: a call or an
  error begins above the `old_top` of every protected call of its thread.
- `Handlers`: an error handler belongs to the innermost protected call, in the
  thread and in what each protected call will restore.
- `Bounded`: the count stays below LUAI_MAXCCALLS and its room. It is kept by a
  throw because a throw never counts more activations than lay below the top.

A lemma for each kind of change (`Change` and what follows from it: push, set,
cut, another thread) keeps all six parts at once, and a step cites one to three
of them. Which activation is the innermost of a kind (the jump buffer, the
resumption of a coroutine, the last activation of a waiting one) is found by
`Least` and `Greatest`, from the well-foundedness of the natural numbers.
`Nested` and `Entries` count with `Cardinality`, of places and of pairs of a
place and a number: a sum over the stack would have needed induction.

**ProtoConversionProofs** proves five theorems for every tree
of functions, any constants, any hash and any moment of an error or collection.
`ConstantsAreRight` is the deep one: its invariant `Inv` adds that a call fills
a prototype of its own function with no more constants than that has
(`CallsFit`), and that its cache holds strings under their own hash which come
from constants it has passed or from functions around it (`CachesRight`). A
nested call keeps that because what encloses a function encloses those in it
(`EnclosingNested`), a return because the caller's copy was never touched.
`ClosuresAreScripts` rests on `Made`: what any prototype refers to is whole and
in the source's order (`HeapFits`), a waiting call lacks exactly the function
that is being converted (`CallsRun`), and nothing refers yet to what a running
call makes (`RunningApart`), so that a prototype never changes once something
leads to it. What the collector keeps is the least set closed under references
(`ReachClosed`, `ReachLeast`); no induction on paths is needed. `PausedOnlyThen` says that no
conversion runs with the collector on, and that a collector that is off at rest
is the trace of an error. `CodeMeansTheSame` is `CodeDecodes` for operands of any
width. The invariant is small (`KeyKept`: the key is cracked once and kept), the
work is in the words. A number is taken apart at bit n (`BitOf`), and numbers
are compared modulo a power of two (`Same`): because T1 has an odd and T2 an
even factor, a change of bit n turns bit n of T1 and no bit of T2 up to n
(`T1Turns`, `T2Stays`), so that the loop of the encoder settles one bit a turn
and disturbs none below (`NextBit`, `Encoded`) and the decoder reads each back
(`RoundTrip`). An odd key has an inverse modulo each power of two (`Inverses`,
bit by bit), and the search reaches it unless it is the last number of all
(`Cracked`). What the two recursions compute is a climb over the bits: the
function they define exists by `Iterated`, and `Climb` goes on from one bit to
the next; both come from the well-foundedness of the natural numbers. Assumed is
that the tree, the constants and the hash have their types, that B and C are
equally wide, and that the words of the compiler have an operation.

**SortProofs**, for tables of any length, any order and any answers of a
function that is none, or that fails: `SortsSoundly`, from `Invariance`. Its
first half holds whatever the function answers. The table is a rearrangement
because each step swaps two of its places, and the indices stay there because
`i` and `j` stop one place outside the range (`Waits`). `Nested` bounds the
recursion: a call with k calls below it has at most n / 2^k values left, since
the smaller part is at most half; that powers of two double is proved from the
sizes of sets of subsets (`Doubles`), as no induction is available. The second
half needs an order. `Settled` says that two places no call has left to sort
together are in order; `Apart` that the ranges of the calls are disjoint, so
that a swap in the innermost one moves no value past another range. `Pivot` is
the invariant of the partition: what lies below `i` is not above the pivot, what
lies above `j` not below it, and so the two ends of the range stop the indices,
which is why `invalid order function` is never raised. When no call is left,
`Settled` says that the table is sorted. Assumed: lengths are natural numbers
and an order gives each value an integer.

**LuaTableProofs**, for any set of keys, any hash codes and tables of any size:
`HashSoundHolds`, `TableIsMap` (the refinement of `TableMap`), `RefsHoldAlways`
and `TraversalIsComplete`, from `TableInvariant`. The invariant `Sound` is about
one table, so that it also holds in the middle of an operation, and `SetOK` says
that an assignment keeps it and changes one key of the map. Its heart is
`Shape`: the links of the nodes have no cycle and no node two predecessors; the
chain of a key begins at its main position with a node that is at its own main
position (`Headed`), so that newkey may move a node that is not without cutting
its chain; a live node comes before the dead ones of the same key (`LiveFirst`),
so that a search for a live key, or one that takes dead keys too, ends at the
same node. Chains are followed with `Reach` and `Acyclic`, which speak of closed
sets of nodes instead of paths; that a loop such as `Walk` or the search for a
border gives a result at all is `Iteration`. `FreeOK` says that every node from
`lastfree` on is in use. A table that `resize` has just made is `Staged` for a
set of keys that is no larger than its nodes: as long as only these come in,
`getfreepos` finds a node (`Room`, by counting), which is why `rehash` is never
called twice. `SizesOK` says what `computesizes` counts; `SearchOK` and
`UnboundOK` that the two searches for the length end at a border. Loops over
sequences are unfolded by `FoldMove` and its like. For references the invariant
adds `References`: the numbers that are free lead to each other, no two to the
same one (`FreeList`), and no number in use is among them. For traversals,
`Going`: what was seen has no larger index than the present key, and what stays
was seen or has a larger one; assignments to existing fields and marks of the
collector move no key (`SameIndex`). Assumed of the constants is
`TableAssumption`: with a number the smaller ones are keys too, and nil is no
value. Two definitions of the module are written as recursive functions of pairs
(`BinarySearch`, `unbound_search`), and the loops of `table.insert` and
`table.remove` as one operator (`Shift`).

Only model-checked:

- liveness, which is out of the prover's reach: `ClickCompletes`,
  `ListDrains`, `WaitersGoOn`, `GarbageGoes`;
- what is checked of the compiler and of patterns: `Parser`, `LuaSemantics` and
  `Patterns` use RECURSIVE operators, and what a recursive definition computes
  would need induction over data.

## Findings

The run `session_locals` shows that a script's locals are gone after a yield:
a resumption runs on the registers of a fresh host thread (`vm.cpp:552`), while
`vm.cpp:75` asks that every write reach the host. (Sessions in the frame of a
Lua function of the host are left out: there the code expects a crash.)

Other disagreements that were met while modelling are in the models as the code
has them:

- `entry.cpp:142`: "Copy & pop" copies the front and pops the back; the second
  half of a batch is read after its destruction (`TakeScript`).
- `vm.cpp:676`: a script that does not compile takes the others with it.
  `lua_close` on its thread closes the main thread of the state, `gL`
  (`lstate.c:200`), while `vm.cpp:663` has put each thread into the registry of
  `gL` so that it stays. The model has the close (`LaunchVMRejects`) and the
  fault that the next use is, which `WaitersGoOn` allows for.
- `vm.cpp:426`: the iterator instruction does not store `L->savedpc`;
  `CallResumesNext` is about calls and accesses.
- `lgc.c:664`: an assertion of the collector that a finalizer can make fail
  (assertions are off in the build, and what follows is harmless).
- `lbaselib.c:500`: a coroutine whose body is finished but which has values
  left on its stack is reported as suspended; `StatusIsTrue` is about the
  status "normal" only.
- `ltablib.c:227`: with a comparison function that is no order, the value after
  the last one can be moved into the range, its place taking one of the
  values, and the loop may run for ever. `SortSound` asks for a permutation of
  range and neighbours in that case, no more.

## Not modelled

- The host's own runtime. Of a Lua function of the host that a script calls
  (`vm.cpp:346`) only that the interpreter goes on in its frame and may crash is
  modelled, not which registers it then reads; `nexeccalls` is never read.
- Host integration: `ScanScriptContext`, the exception filter, console and
  window drawing are calls of the operating system on fixed addresses.
- Lexer and buffered input: characters to tokens, with no state that outlives a
  token. Module loader, input/output and operating system libraries,
  mathematics, string formatting: conversions and calls of the C library.
- `index2adr` and those functions of the C API that only move, count or convert
  values of the stack; argument checks of the auxiliary library.
- The debug library, hooks, lines of code, and "code too deep" on loading.
- In the collector, sizes and thresholds, because a step may follow any
  operation in the model. In the table of strings, the computation of hash
  codes, the order in a chain, and that the table stops growing at `MAX_INT / 2`.
- In tables, keys that are NaN or nil and sizes near the limit of a part.
- In the virtual machine, strings converted to numbers, quotients that are not
  whole, and what the language leaves open: the order of evaluation inside an
  expression or assignment where it matters, and the length of a table with
  holes. `LuaChunks` has no chunk that depends on them.
- In the library, comparison functions that change the table they sort, and
  calls of an iterator of `gmatch` after it has ended. The metamethods without
  a cache (arithmetic, order, concatenation, calls).
