---------------------------- MODULE ScriptMailbox ----------------------------
(***************************************************************************)
(* What the script list of entry.cpp promises its two users: a submission  *)
(* appends one script; a drain is atomic.  A complete drain empties the    *)
(* mailbox and launches one text per script, the first half of them        *)
(* intact, each of the others intact or lost.  A drain that is cut short   *)
(* by an error in its k-th iteration has launched k - 1 scripts from the   *)
(* front, and has removed k scripts from the back.                         *)
(***************************************************************************)
EXTENDS Naturals, Sequences

CONSTANTS Scripts, NoText

VARIABLES pending, launched

vars == <<pending, launched>>

Init == pending = <<>> /\ launched = <<>>

Submit ==
  /\ \E s \in Scripts : pending' = Append(pending, s)
  /\ UNCHANGED launched

(* d is what k iterations over the batch may hand to LaunchVM. *)
Handed(d, k) ==
  /\ Len(d) = k
  /\ \A i \in 1 .. k :
       \/ d[i].script = pending[i]
       \/ d[i].script = NoText /\ d[i].spawned /\ 2 * i > Len(pending) + 1

(* The launches of this step, and the scripts that stay. *)
New == SubSeq(launched', Len(launched) + 1, Len(launched'))

Extends == SubSeq(launched', 1, Len(launched)) = launched

DrainAll ==
  /\ pending # <<>>
  /\ Len(launched') >= Len(launched) /\ Extends
  /\ Handed(New, Len(pending))
  /\ pending' = <<>>

DrainCutShort ==
  \E k \in 1 .. Len(pending) :
    /\ Len(launched') >= Len(launched) /\ Extends
    /\ Handed(New, k - 1)
    /\ pending' = SubSeq(pending, 1, Len(pending) - k)

Next == Submit \/ DrainAll \/ DrainCutShort

Spec == Init /\ [][Next]_vars

==============================================================================
