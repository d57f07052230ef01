---------------------------- MODULE StringFunctions ----------------------------
(* The functions of the string library that search for a pattern (lstrlib.c):
   find, match, gmatch and gsub, an attempt to match at a time.  Between two
   attempts of gmatch and gsub the script may run. *)
EXTENDS Patterns

VARIABLES
  call,      \* the function and its arguments
  src,       \* the place of the next attempt
  tried,     \* the attempts so far: where, the outcome, and the answer of the script
  b,         \* the result of gsub so far
  outcome    \* "busy", "nil", "found", "done" or "error"

strvars == <<call, src, tried, b, outcome>>

Subject == call.src
SrcLen == Len(Subject)

------------------------------------------------------------------------------
(* Captures as values: the text, or a place *)

CaptureValue(ms, c) == IF c.len = CAP_POSITION THEN <<"place", c.init>>
                 ELSE <<"text", SubSeq(ms.src, c.init, c.init + c.len - 1)>>

Whole(ms, s) == <<"text", SubSeq(ms.src, s, ms.res - 1)>>

(* push_onecapture and push_captures: the whole match stands for the first
   capture where there is none. *)
Missing(ms, k) == k \notin DOMAIN ms.capture /\ (k # 1 \/ level(ms) > 0)
OneCapture(ms, k, s) ==
  IF k \in DOMAIN ms.capture THEN CaptureValue(ms, ms.capture[k]) ELSE Whole(ms, s)

CapturesErr(ms) == IF Unfinished(ms) # {} THEN "unfinished capture" ELSE "none"

------------------------------------------------------------------------------
(* find and match *)

SPECIALS == {"^", "$", "*", "+", "?", ".", "(", "[", "%", "-"}
Anchored == At(call.pat, 1) = "^" /\ call.fn # "gmatch"

posrelat(pos, len) ==
  LET p == IF pos < 0 THEN pos + len + 1 ELSE pos IN IF p >= 0 THEN p ELSE 0

FirstPlace(c) ==
  LET init == posrelat(c.init, Len(c.src)) - 1 IN
    IF init < 0 THEN 1 ELSE IF init > Len(c.src) THEN Len(c.src) + 1 ELSE init + 1

(* A search for s2 among the l1 characters from s1 on *)
RECURSIVE Search(_, _, _, _)
Search(s, s1, l1, s2) ==
  LET heads == {k \in s1..s1 + l1 - 1 : s[k] = s2[1]}
      init  == CHOOSE k \in heads : \A m \in heads : k <= m
  IN IF heads = {} THEN 0
     ELSE IF SubSeq(s, init + 1, init + Len(s2) - 1) = Tail(s2) THEN init
     ELSE Search(s, init + 1, l1 - (init + 1 - s1), s2)

lmemfind(s, s1, l1, s2) ==
  CASE s2 = <<>>      -> s1
    [] Len(s2) > l1   -> 0
    [] OTHER          -> Search(s, s1, l1 - (Len(s2) - 1), s2)

Plain == call.fn = "find" /\ (call.plain \/ ToSet(call.pat) \cap SPECIALS = {})

Try == match(MatchState(Subject, call.pat), src, IF Anchored THEN 2 ELSE 1)
Noted(ms, answer) == tried' = Append(tried, [at |-> src, ms |-> ms, answer |-> answer])

Raise(msg) == outcome' = "error" /\ UNCHANGED <<call, src, b>>

PlainFind ==
  LET k == lmemfind(Subject, src, SrcLen + 1 - src, call.pat) IN
    /\ call.fn = "find" /\ Plain
    /\ outcome' = IF k = 0 THEN "nil" ELSE "found"
    /\ src' = k
    /\ UNCHANGED <<call, tried, b>>

str_find_aux ==
  LET ms == Try
      err == IF ms.res # 0 THEN CapturesErr(ms) ELSE ms.err
  IN /\ call.fn \in {"find", "match"} /\ ~Plain
     /\ Noted(ms, "nothing")
     /\ CASE err # "none"  -> Raise(err)
          [] ms.res # 0    -> outcome' = "found" /\ UNCHANGED <<call, src, b>>
          [] src <= SrcLen /\ ~Anchored -> src' = src + 1 /\ UNCHANGED <<call, b, outcome>>
          [] OTHER         -> outcome' = "nil" /\ UNCHANGED <<call, src, b>>

------------------------------------------------------------------------------
(* gmatch: the place to go on from is kept between two calls of the iterator. *)

gmatch_aux ==
  LET ms == Try
      err == IF ms.res # 0 THEN CapturesErr(ms) ELSE ms.err
  IN /\ call.fn = "gmatch"
     /\ IF src > SrcLen + 1 THEN outcome' = "nil" /\ UNCHANGED <<call, src, tried, b>>
        ELSE /\ Noted(ms, "nothing")
             /\ src' = IF ms.res > src THEN ms.res ELSE src + 1
             /\ outcome' = IF err = "none" THEN outcome ELSE "error"
             /\ UNCHANGED <<call, b>>

------------------------------------------------------------------------------
(* gsub *)

(* add_s: the captures that the replacement names *)
RECURSIVE add_s(_, _, _, _)
add_s(ms, news, i, s) ==
  LET d == At(news, i + 1)
      k == Code(d) - Code("0")
      rest(width) == add_s(ms, news, i + width, s)
      c == OneCapture(ms, k, s)
  IN CASE i > Len(news)    -> [err |-> "none", put |-> <<>>]
       [] news[i] # "%"    -> [rest(1) EXCEPT !.put = <<news[i]>> \o @]
       [] d \notin Digits  -> [rest(2) EXCEPT !.put = <<d>> \o @]
       [] d = "0"          -> [rest(2) EXCEPT !.put = Whole(ms, s)[2] \o @]
       [] Missing(ms, k)   -> [err |-> "invalid capture index", put |-> <<>>]
       [] k \in Unfinished(ms) -> [err |-> "unfinished capture", put |-> <<>>]
       [] OTHER            -> [rest(2) EXCEPT !.put = (IF c[1] = "place" THEN <<ToString(c[2])>> ELSE c[2]) \o @]

(* add_value: what the script gives for the captures, where it is asked *)
add_value(ms, s, answer) ==
  LET text == Whole(ms, s)[2]
      err == IF call.repl[1] = "function" THEN CapturesErr(ms)
             ELSE IF 1 \in Unfinished(ms) THEN "unfinished capture" ELSE "none"
  IN IF call.repl[1] = "string" THEN add_s(ms, call.repl[2], 1, s)
     ELSE CASE err # "none"       -> [err |-> err, put |-> <<>>]
            [] answer = "nothing" -> [err |-> "none", put |-> text]
            [] answer = "table"   -> [err |-> "invalid replacement value", put |-> <<>>]
            [] OTHER              -> [err |-> "none", put |-> <<answer>>]

Substitutions == Cardinality({k \in DOMAIN tried : tried[k].ms.res # 0})

Finish(text, from) == /\ b' = text \o SubSeq(Subject, from, SrcLen)
                      /\ outcome' = "done" /\ src' = from
                      /\ UNCHANGED call

str_gsub(answer) ==
  LET ms == Try
      v  == IF ms.res # 0 THEN add_value(ms, src, answer) ELSE [err |-> ms.err, put |-> <<>>]
      new  == b \o v.put
      skip == ms.res > src
      copy == ~skip /\ src <= SrcLen
      next == IF skip THEN ms.res ELSE src + 1
      text == IF copy THEN Append(new, Subject[src]) ELSE new
  IN /\ call.fn = "gsub"
     /\ IF Substitutions >= call.max THEN Finish(b, src) /\ UNCHANGED tried
        ELSE /\ Noted(ms, answer)
             /\ IF v.err # "none" THEN Raise(v.err)
                ELSE IF (skip \/ copy) /\ ~Anchored
                THEN src' = next /\ b' = text /\ UNCHANGED <<call, outcome>>
                ELSE Finish(text, IF skip \/ copy THEN next ELSE src)

==============================================================================
