---------------------------- MODULE PatternMeaning ----------------------------
(* What a pattern means, by the reference manual (5.4.1): a list of items, each
   with its text and the characters or the rule that it stands for.  A pattern
   has a list of outcomes in a subject, the preferred one first. *)
EXTENDS Integers, Sequences, SequencesExt, FiniteSetsExt

CONSTANTS MaxCaptures, Characters

Chars == Characters   \* every character, the one that ends a C string included

(* The text of an item *)
Text(it) ==
  CASE it[1] = "one"      -> it[2].text \o it[3]
    [] it[1] = "open"     -> <<"(">>
    [] it[1] = "place"    -> <<"(", ")">>
    [] it[1] = "close"    -> <<")">>
    [] it[1] = "back"     -> <<"%", <<"0", "1", "2">>[it[2] + 1]>>
    [] it[1] = "balanced" -> <<"%", "b", it[2], it[3]>>
    [] it[1] = "frontier" -> <<"%", "f">> \o it[2].text
    [] it[1] = "end"      -> <<"$">>
    [] it[1] = "bad"      -> it[2]

PatternText(items) == FlattenSeq([k \in DOMAIN items |-> Text(items[k])])

Error(msg) == [end |-> 0, caps |-> <<>>, err |-> msg]
Outcome(end, caps) == [end |-> end, caps |-> caps, err |-> "none"]

Open(caps) == {k \in DOMAIN caps : caps[k].len = -1}
Captured(src, c) == SubSeq(src, c.init, c.init + c.len - 1)

Char(src, k) == IF k \in DOMAIN src THEN src[k] ELSE "NUL"

(* The numbers of characters that an item may take, the preferred one first *)
Run(src, s, set) == Max({n \in 0..Len(src) + 1 - s : \A k \in s..s + n - 1 : src[k] \in set})
Counts(run, q) ==
  LET up(from, to) == [k \in 1..to - from + 1 |-> from + k - 1] IN
  CASE q = <<>>    -> IF run >= 1 THEN <<1>> ELSE <<>>
    [] q = <<"?">> -> IF run >= 1 THEN <<1, 0>> ELSE <<0>>
    [] q = <<"*">> -> Reverse(up(0, run))
    [] q = <<"+">> -> Reverse(up(1, run))
    [] q = <<"-">> -> up(0, run)

(* Where the text that opens at s with x and ends with y is balanced *)
Balanced(src, s, x, y) ==
  LET depth(e) == IF x = y THEN (IF e = s THEN 1 ELSE 0)
                  ELSE Cardinality({k \in s..e : src[k] = x}) - Cardinality({k \in s..e : src[k] = y})
      ends == {e \in s + 1..Len(src) : src[e] = y /\ depth(e) = 0}
  IN IF Char(src, s) # x \/ ends = {} THEN 0 ELSE Min(ends) + 1

RECURSIVE Outcomes(_, _, _, _)
Outcomes(items, src, s, caps) ==
  LET it == Head(items)
      on(e, c) == Outcomes(Tail(items), src, e, c)
      add(len) == IF Len(caps) >= MaxCaptures THEN <<Error("too many captures")>>
                  ELSE on(s, Append(caps, [init |-> s, len |-> len]))
      counts == Counts(Run(src, s, it[2].set), it[3])
      whole  == Balanced(src, s, it[2], it[3])
  IN
  IF items = <<>> THEN <<Outcome(s, caps)>>
  ELSE CASE it[1] = "one"   -> FlattenSeq([k \in DOMAIN counts |-> on(s + counts[k], caps)])
         [] it[1] = "open"  -> add(-1)
         [] it[1] = "place" -> add(-2)
         [] it[1] = "close" -> IF Open(caps) = {} THEN <<Error("invalid pattern capture")>>
                               ELSE on(s, [caps EXCEPT ![Max(Open(caps))].len = s - caps[Max(Open(caps))].init])
         [] it[1] = "back"  -> IF it[2] \notin DOMAIN caps \ Open(caps) THEN <<Error("invalid capture index")>>
                               ELSE LET c == caps[it[2]] IN
                                    IF c.len >= 0 /\ SubSeq(src, s, Min({s + c.len - 1, Len(src)})) = Captured(src, c)
                                    THEN on(s + c.len, caps) ELSE <<>>
         [] it[1] = "balanced" -> IF whole = 0 THEN <<>> ELSE on(whole, caps)
         [] it[1] = "frontier" -> IF Char(src, s - 1) \notin it[2].set /\ Char(src, s) \in it[2].set
                                  THEN on(s, caps) ELSE <<>>
         [] it[1] = "end"   -> IF s = Len(src) + 1 THEN on(s, caps) ELSE <<>>
         [] it[1] = "bad"   -> <<Error(it[3])>>

First(items, src, s) ==
  LET all == Outcomes(items, src, s, <<>>) IN IF all = <<>> THEN Outcome(0, <<>>) ELSE all[1]

==============================================================================
