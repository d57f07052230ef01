-------------------------- MODULE ProtoConversion --------------------------
(***************************************************************************)
(* conversion.cpp: a compiled script is converted, function by function,   *)
(* to the host's prototypes, and left as a closure on the host's stack.    *)
(* The host's collector is paused meanwhile.                               *)
(*                                                                         *)
(* The host is external: any call of it may raise an error, it collects    *)
(* what its stack does not lead to whenever its threshold lets it, and     *)
(* runs the closures.  It interns strings, so that one is known by its     *)
(* text.  Sizes, line numbers and the fixed mask on numbers are left out.  *)
(* protoCache is, too: it is passed by value and written last, so that no  *)
(* call ever finds anything in it.                                         *)
(***************************************************************************)
EXTENDS InstructionCodec

CONSTANTS Protos, Root,
          Kids,      \* the nested functions of a function, p->p
          Values,    \* what a constant can be
          Strings,   \* the strings among them
          Consts,    \* the constants of a function, p->k
          Hash,      \* their hash in the compiler's string table
          Cases,     \* the code of all functions, with the host's decode key
          MaxConversions   \* bound: scripts that are converted

ASSUME ProtosAssumption ==
  /\ Root \in Protos /\ Kids \in [Protos -> Seq(Protos)]
  /\ Consts \in [Protos -> Seq(Values)]
  /\ Strings \subseteq Values /\ DOMAIN Hash = Strings
  /\ Cases \subseteq [code : [Protos -> Seq(Instruction)], key : Word]
  /\ MaxConversions \in Nat

VARIABLES
  code, decodeKey,  \* what this behaviour converts
  encodeKey,        \* a static of TranspileProto, {} before its first use
  calls,            \* the running calls of TranspileProto, the innermost last
  heap,             \* the host's prototypes, in the order of their creation
  instructions,     \* the instruction table of each
  hostStrings,      \* the strings of the host
  stack,            \* the host's stack: the prototypes of the closures on it
  paused,           \* GCthreshold is MAX_LUMEM
  vTop,             \* what is left on the stack of vState
  conversions

source == <<code, decodeKey>>
vars == <<source, encodeKey, calls, heap, instructions, hostStrings,
          stack, paused, vTop, conversions>>

Blank(p) == [proto |-> p, k |-> <<>>, kids |-> <<>>, live |-> TRUE]
Freed == [Blank(Root) EXCEPT !.live = FALSE]

NoCache == [h \in {} |-> ""]

Init ==
  /\ \E case \in Cases : code = case.code /\ decodeKey = case.key
  /\ encodeKey = {} /\ calls = <<>> /\ heap = <<>> /\ instructions = <<>>
  /\ hostStrings = {} /\ stack = {} /\ paused = FALSE /\ vTop = 0 /\ conversions = 0

Idle == calls = <<>>
Call == calls[Len(calls)]
Source == Call.proto
Target == heap[Call.host]
TranspiledCode == instructions[Call.host] # <<>>

------------------------------------------------------------------------------
(* TranspileProto *)

(* Its call, with copies of the caches; rbx_fnewproto. *)
Enter(p, cache) ==
  /\ heap' = Append(heap, Blank(p)) /\ instructions' = Append(instructions, <<>>)
  /\ calls' = Append(calls, [proto |-> p, host |-> Len(heap) + 1, strings |-> cache])

(* A script that does not compile changes nothing. *)
ProtoConversionRejects ==
  /\ Idle /\ conversions < MaxConversions
  /\ conversions' = conversions + 1
  /\ UNCHANGED <<source, encodeKey, calls, heap, instructions, hostStrings, stack, paused, vTop>>

ProtoConversionBegins ==
  /\ Idle /\ conversions < MaxConversions
  /\ conversions' = conversions + 1 /\ vTop' = vTop + 1
  /\ paused' = TRUE
  /\ Enter(Root, NoCache)
  /\ UNCHANGED <<source, encodeKey, hostStrings, stack>>

(* The string a constant becomes: one with its hash that was made before. *)
Cached(cache, c) == IF Hash[c] \in DOMAIN cache THEN cache[Hash[c]] ELSE c

Remember(cache, c) == [h \in DOMAIN cache \cup {Hash[c]} |->
                         IF h \in DOMAIN cache THEN cache[h] ELSE c]

TranspileConstant ==
  /\ ~Idle /\ Len(Target.k) < Len(Consts[Source])
  /\ LET c == Consts[Source][Len(Target.k) + 1]
         string == c \in Strings
         value == IF string THEN Cached(Call.strings, c) ELSE c
     IN /\ heap' = [heap EXCEPT ![Call.host].k = Append(@, value)]
        /\ hostStrings' = hostStrings \cup
             (IF string /\ Hash[c] \notin DOMAIN Call.strings THEN {c} ELSE {})
        /\ calls' = [calls EXCEPT ![Len(calls)].strings =
                       IF string THEN Remember(@, c) ELSE @]
  /\ UNCHANGED <<source, encodeKey, instructions, stack, paused, vTop, conversions>>

Key == IF encodeKey = {} THEN CrackEncodeKey(decodeKey) ELSE CHOOSE k \in encodeKey : TRUE

TranspileCode ==
  /\ ~Idle /\ Len(Target.k) = Len(Consts[Source]) /\ ~TranspiledCode
  /\ encodeKey' = {Key}
  /\ instructions' = [instructions EXCEPT ![Call.host] =
       [n \in 1 .. Len(code[Source]) |-> Transpiled(code[Source][n], n - 1, Key)]]
  /\ UNCHANGED <<source, calls, heap, hostStrings, stack, paused, vTop, conversions>>

TranspileChild ==
  /\ ~Idle /\ TranspiledCode /\ Len(Target.kids) < Len(Kids[Source])
  /\ Enter(Kids[Source][Len(Target.kids) + 1], Call.strings)
  /\ UNCHANGED <<source, encodeKey, hostStrings, stack, paused, vTop, conversions>>

Done_LastChildMissing ==
  ~Idle /\ TranspiledCode /\ Len(Target.kids) >= Len(Kids[Source]) - 1

Done == ~Idle /\ TranspiledCode /\ Len(Target.kids) = Len(Kids[Source])

(* The prototype goes to the table of the caller, whose caches have seen
   nothing of what the call put into its own. *)
ReturnChild_SharedCache ==
  /\ Done /\ Len(calls) > 1
  /\ LET caller == Len(calls) - 1 IN
       /\ heap' = [heap EXCEPT ![calls[caller].host].kids = Append(@, Call.host)]
       /\ calls' = [n \in 1 .. caller |-> IF n = caller
                      THEN [calls[n] EXCEPT !.strings = Call.strings] ELSE calls[n]]
  /\ UNCHANGED <<source, encodeKey, instructions, hostStrings, stack, paused, vTop, conversions>>

ReturnChild ==
  /\ Done /\ Len(calls) > 1
  /\ LET caller == Len(calls) - 1 IN
       /\ heap' = [heap EXCEPT ![calls[caller].host].kids = Append(@, Call.host)]
       /\ calls' = SubSeq(calls, 1, caller)
  /\ UNCHANGED <<source, encodeKey, instructions, hostStrings, stack, paused, vTop, conversions>>

(* The closure is pushed before the host may collect again. *)
ProtoConversionEnds_StillPaused ==
  /\ Done /\ Len(calls) = 1
  /\ calls' = <<>>
  /\ stack' = stack \cup {Call.host}
  /\ vTop' = vTop - 1
  /\ UNCHANGED <<source, encodeKey, heap, instructions, hostStrings, paused, conversions>>

ProtoConversionEnds_PopsTwo ==
  /\ Done /\ Len(calls) = 1
  /\ calls' = <<>>
  /\ stack' = stack \cup {Call.host}
  /\ paused' = FALSE
  /\ vTop' = vTop - 2
  /\ UNCHANGED <<source, encodeKey, heap, instructions, hostStrings, conversions>>

ProtoConversionEnds ==
  /\ Done /\ Len(calls) = 1
  /\ calls' = <<>>
  /\ stack' = stack \cup {Call.host}
  /\ paused' = FALSE
  /\ vTop' = vTop - 1
  /\ UNCHANGED <<source, encodeKey, heap, instructions, hostStrings, conversions>>

Conversion ==
  \/ ProtoConversionRejects \/ ProtoConversionBegins \/ TranspileConstant
  \/ TranspileCode \/ TranspileChild \/ ReturnChild \/ ProtoConversionEnds

------------------------------------------------------------------------------
(* The host *)

(* An error of the host leaves every call at once: nothing is restored, and the
   compiled function stays on vState. *)
HostRaises ==
  /\ ~Idle
  /\ calls' = <<>>
  /\ UNCHANGED <<source, encodeKey, heap, instructions, hostStrings, stack, paused, vTop, conversions>>

References(h) == {heap[h].kids[i] : i \in DOMAIN heap[h].kids}

(* The least set that holds X and what its members refer to. *)
Reach(X) ==
  LET closed == {S \in SUBSET DOMAIN heap :
                   X \subseteq S /\ \A h \in S : References(h) \subseteq S}
  IN {h \in DOMAIN heap : \A S \in closed : h \in S}

StringsOf(h) == {heap[h].k[i] : i \in DOMAIN heap[h].k} \cap Strings

HostCollects ==
  /\ ~paused
  /\ LET kept == Reach(stack) IN
       /\ heap' = [h \in DOMAIN heap |-> IF h \in kept THEN heap[h] ELSE Freed]
       /\ instructions' = [h \in DOMAIN heap |-> IF h \in kept THEN instructions[h] ELSE <<>>]
       /\ hostStrings' = UNION {StringsOf(h) : h \in kept}
  /\ UNCHANGED <<source, encodeKey, calls, stack, paused, vTop, conversions>>

(* The thread of a script ends. *)
HostDrops(h) ==
  /\ Idle /\ h \in stack
  /\ stack' = stack \ {h}
  /\ UNCHANGED <<source, encodeKey, calls, heap, instructions, hostStrings, paused, vTop, conversions>>

Host == HostRaises \/ HostCollects \/ \E h \in stack : HostDrops(h)

Next == Conversion \/ Host

Spec == Init /\ [][Next]_vars

------------------------------------------------------------------------------
HostProto == [proto : Protos, k : Seq(Values), kids : Seq(Nat), live : BOOLEAN]
Hashes == {Hash[s] : s \in Strings}
Caches == UNION {[known -> Strings] : known \in SUBSET Hashes}

TypeOK ==
  /\ heap \in Seq(HostProto) /\ hostStrings \subseteq Strings
  /\ calls \in Seq([proto : Protos, host : 1 .. Len(heap), strings : Caches])
  /\ stack \subseteq 1 .. Len(heap)
  /\ paused \in BOOLEAN /\ vTop \in Nat /\ conversions \in 0 .. MaxConversions

(* Once written, the code of a function means to the host what the compiler
   wrote: decoded with the host's key, each word has the same operation and
   operands, wherever it stands.  The key must have an inverse that the search
   of CrackEncodeKey reaches: be odd, and not its own inverse at the very end. *)
CodeDecodes ==
  [][ decodeKey % 2 = 1 /\ decodeKey # Size - 1 =>
        \A h \in DOMAIN instructions : instructions'[h] # instructions[h] =>
          \A n \in DOMAIN instructions'[h] :
            Means(instructions'[h][n], n - 1, decodeKey, code[heap[h].proto][n]) ]_vars

(* The functions a function is nested in. *)
Parents(p) == {q \in Protos : \E i \in DOMAIN Kids[q] : Kids[q][i] = p}
Enclosing(p) ==
  {q \in Protos : \A S \in SUBSET Protos :
     Parents(p) \subseteq S /\ (\A x \in S : Parents(x) \subseteq S) => q \in S}

(* The first n constants of a function, and all of those around it. *)
ConstsBefore(p, n) ==
  {Consts[p][j] : j \in 1 .. n} \cup
  UNION {{Consts[q][j] : j \in DOMAIN Consts[q]} : q \in Enclosing(p)}

ConstantRight(p, i, made) ==
  LET meant == Consts[p][i] IN
    \/ made = meant
    \/ /\ {made, meant} \subseteq Strings /\ Hash[made] = Hash[meant]
       /\ made \in ConstsBefore(p, i - 1)

(* conversion.cpp:64 looks strings up by their hash alone.  All the same, a
   constant is the source's, unless a string with its hash comes earlier in the
   same function or in one around it: functions side by side do not mix. *)
ConstantsRight ==
  \A h \in DOMAIN heap : \A i \in DOMAIN heap[h].k :
    ConstantRight(heap[h].proto, i, heap[h].k[i])

(* conversion.cpp:371: what a conversion has made so far is not collected before
   the closure holds it, nor while the host keeps the closure. *)
NothingLost ==
  /\ \A n \in DOMAIN calls :
       LET cache == calls[n].strings IN {cache[h] : h \in DOMAIN cache} \subseteq hostStrings
  /\ \A h \in Reach(stack \cup {calls[n].host : n \in DOMAIN calls}) :
       heap[h].live /\ StringsOf(h) \subseteq hostStrings

(* The host can collect again after a conversion, unless one was cut short by
   an error, which leaves its function on vState as well (conversion.cpp:394,
   397); and while one is running it cannot. *)
PausedOnlyAfterFailure == (paused => vTop > 0) /\ (~Idle => paused)

(* What is on the host's stack is the whole script: every function with all its
   constants and code and its nested functions in their order, each of its own;
   and the host's collector has taken none of it, nor of what is being made. *)
ClosureIsTheScript ==
  /\ NothingLost
  /\ \A h \in stack : heap[h].proto = Root
  /\ \A h \in Reach(stack) :
       LET t == heap[h] IN
         /\ Len(t.k) = Len(Consts[t.proto]) /\ Len(instructions[h]) = Len(code[t.proto])
         /\ [i \in DOMAIN t.kids |-> heap[t.kids[i]].proto] = Kids[t.proto]
         /\ \A i, j \in DOMAIN t.kids : t.kids[i] = t.kids[j] => i = j

=============================================================================
