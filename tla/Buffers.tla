-------------------------------- MODULE Buffers --------------------------------
(* luaL_Buffer (lauxlib.c): characters are collected in a small array, and in
   pieces on the Lua stack that are put together now and then.  A character is
   the number of characters that were added before it, and itself. *)
EXTENDS Naturals, Sequences, FiniteSetsExt, SequencesExt

CONSTANTS BufferSize,    \* LUAL_BUFFERSIZE, BUFSIZ of the C library in the source
          Limit,         \* LIMIT, 10 in the source
          Lengths,       \* how many characters are added at once
          MaxAdded       \* bound: the characters that are added

ASSUME BufferAssumption ==
  /\ BufferSize \in Nat \ {0} /\ Limit \in Nat \ {0, 1} /\ Lengths \subseteq Nat

VARIABLES B,       \* p: the array as far as it is filled, lvl, and
                   \* stack: the pieces on the Lua stack
          added    \* how many characters were added so far

buffervars == <<B, added>>

New(k) == [x \in 1..k |-> added + x]
LastOf(s, k) == FlattenSeq(SubSeq(s, Len(s) - k + 1, Len(s)))
Joined(s, k) == Append(SubSeq(s, 1, Len(s) - k), LastOf(s, k))

emptybuffer(B1) ==
  IF B1.p = <<>> THEN B1 ELSE [p |-> <<>>, lvl |-> B1.lvl + 1, stack |-> Append(B1.stack, B1.p)]

(* The k pieces on top are put together with the one below: when there are too many
   pieces, and when they are longer than it. *)
Gets(B1, k) ==
  \/ B1.lvl - k + 1 >= Limit
  \/ Len(LastOf(B1.stack, k)) > Len(B1.stack[Len(B1.stack) - k])

toget(B1) == Min({k \in 1..B1.lvl : k = B1.lvl \/ ~Gets(B1, k)})

adjuststack(B1) ==
  LET k == toget(B1) IN
    IF B1.lvl > 1 THEN [B1 EXCEPT !.stack = Joined(@, k), !.lvl = @ - k + 1] ELSE B1

luaL_prepbuffer(B1) == IF B1.p = <<>> THEN B1 ELSE adjuststack(emptybuffer(B1))

luaL_addchar ==
  /\ B' = LET room == IF Len(B.p) < BufferSize THEN B ELSE luaL_prepbuffer(B)
          IN [room EXCEPT !.p = @ \o New(1)]
  /\ added' = added + 1

(* A function of C writes into the array itself (luaL_addsize). *)
luaL_addsize(k) ==
  /\ k <= BufferSize
  /\ B' = [luaL_prepbuffer(B) EXCEPT !.p = @ \o New(k)]
  /\ added' = added + k

(* Variant: the array goes above the value. *)
Above_Swapped(B1, s) == emptybuffer([B1 EXCEPT !.stack = Append(@, s)])

(* A string on the stack, with what is in the array below it *)
Above(B1, s) == LET e == emptybuffer(B1) IN [e EXCEPT !.stack = Append(@, s)]

luaL_addvalue(k) ==
  /\ B' = IF k <= BufferSize - Len(B.p) THEN [B EXCEPT !.p = @ \o New(k)]
          ELSE LET v == Above(B, New(k)) IN adjuststack([v EXCEPT !.lvl = @ + 1])
  /\ added' = added + k

luaL_pushresult ==
  /\ B' = LET e == emptybuffer(B) IN [e EXCEPT !.stack = Joined(@, e.lvl), !.lvl = 1]
  /\ UNCHANGED added

luaL_buffinit == B = [p |-> <<>>, lvl |-> 0, stack |-> <<>>] /\ added = 0

BufferNext ==
  /\ added < MaxAdded
  /\ luaL_addchar \/ luaL_pushresult \/ \E k \in Lengths : luaL_addsize(k) \/ luaL_addvalue(k)

BufferSpec == luaL_buffinit /\ [][BufferNext]_buffervars

------------------------------------------------------------------------------
(* lauxlib.c: whatever is added by characters, in the array itself or as values,
   a buffer holds all of it, in that order, with its pieces counted; and however
   much is added, they take fewer places on the Lua stack than LIMIT. *)
BufferSound ==
  /\ FlattenSeq(B.stack) \o B.p = [x \in 1..added |-> x]
  /\ Len(B.p) <= BufferSize
  /\ B.lvl = Len(B.stack) /\ B.lvl < Limit

==============================================================================
