------------------------------- MODULE Patterns -------------------------------
(* The pattern functions of the string library (lstrlib.c): the matcher, that
   notes captures as it goes and takes them back where it fails, and the loops of
   find, match, gmatch and gsub around it.  Places in a string count from 1. *)
EXTENDS Integers, Sequences, SequencesExt, FiniteSets

CONSTANTS MaxCaptures,     \* LUA_MAXCAPTURES
          Collation        \* the characters in the order of their codes

NUL == Collation[1]
CAP_UNFINISHED == -1
CAP_POSITION == -2

(* C strings end with a character that is not one of their own. *)
At(str, k) == IF k \in DOMAIN str THEN str[k] ELSE NUL
Code(c) == CHOOSE k \in DOMAIN Collation : Collation[k] = c

(* The state of a match: the two strings, the captures so far, where the match
   ends (0 if there is none), and the error raised. *)
MatchState(src, pat) ==
  [src |-> src, pat |-> pat, capture |-> <<>>, res |-> 0, err |-> "none"]

Ends(ms, s) == [ms EXCEPT !.res = s]
Null(ms) == Ends(ms, 0)
luaL_error(ms, msg) == [ms EXCEPT !.res = 0, !.err = msg]
Settled(ms) == ms.res # 0 \/ ms.err # "none"
SrcEnd(ms) == Len(ms.src) + 1
level(ms) == Len(ms.capture)

------------------------------------------------------------------------------
(* Classes of characters *)

Digits == {"0", "1", "2"}
Lower == {"a", "b", "d", "s", "w", "z", "f"}
Upper == {"A", "D", "S", "W", "Z"}
Kinds == [a |-> Lower \cup Upper, d |-> Digits, s |-> {" "}, w |-> Lower \cup Upper \cup Digits,
          z |-> {NUL}, A |-> Lower \cup Upper, D |-> Digits, S |-> {" "},
          W |-> Lower \cup Upper \cup Digits, Z |-> {NUL}]

match_class(c, cl) ==
  IF cl \notin DOMAIN Kinds THEN cl = c ELSE (c \in Kinds[cl]) = (cl \in Lower)

RECURSIVE InSet(_, _, _, _)
InSet(pat, c, p, ec) ==
  /\ p < ec
  /\ IF At(pat, p) = "%" THEN match_class(c, At(pat, p + 1)) \/ InSet(pat, c, p + 2, ec)
     ELSE IF At(pat, p + 1) = "-" /\ p + 2 < ec
     THEN Code(c) \in Code(At(pat, p))..Code(At(pat, p + 2)) \/ InSet(pat, c, p + 3, ec)
     ELSE At(pat, p) = c \/ InSet(pat, c, p + 1, ec)

matchbracketclass(pat, c, p, ec) ==
  IF At(pat, p + 1) = "^" THEN ~InSet(pat, c, p + 2, ec) ELSE InSet(pat, c, p + 1, ec)

singlematch(pat, c, p, ep) ==
  CASE At(pat, p) = "." -> TRUE
    [] At(pat, p) = "%" -> match_class(c, At(pat, p + 1))
    [] At(pat, p) = "[" -> matchbracketclass(pat, c, p, ep - 1)
    [] OTHER            -> At(pat, p) = c

(* Where the single character or the class at p ends; the errors are negative. *)
EndsWithEsc == -1
MissingBracket == -2

RECURSIVE SetEnd(_, _)
SetEnd(pat, p) ==
  LET q == IF At(pat, p) = "%" /\ At(pat, p + 1) # NUL THEN p + 2 ELSE p + 1 IN
    IF At(pat, p) = NUL THEN MissingBracket
    ELSE IF At(pat, q) = "]" THEN q + 1 ELSE SetEnd(pat, q)

classend(pat, p) ==
  CASE At(pat, p) = "%" -> IF At(pat, p + 1) = NUL THEN EndsWithEsc ELSE p + 2
    [] At(pat, p) = "[" -> SetEnd(pat, IF At(pat, p + 1) = "^" THEN p + 2 ELSE p + 1)
    [] OTHER            -> p + 1

Malformed(ms, ep) ==
  luaL_error(ms, IF ep = EndsWithEsc THEN "ends with %" ELSE "missing ]")

------------------------------------------------------------------------------
(* Captures *)

Unfinished(ms) == {k \in DOMAIN ms.capture : ms.capture[k].len = CAP_UNFINISHED}

CaptureOf(ms, l) == SubSeq(ms.src, ms.capture[l].init, ms.capture[l].init + ms.capture[l].len - 1)

match_capture(ms, s, l) ==
  IF l \notin DOMAIN ms.capture \/ l \in Unfinished(ms) THEN luaL_error(ms, "invalid capture index")
  ELSE LET len == ms.capture[l].len IN
       IF len # CAP_POSITION /\ SrcEnd(ms) - s >= len /\ CaptureOf(ms, l) = SubSeq(ms.src, s, s + len - 1)
       THEN Ends(ms, s + len) ELSE Null(ms)

(* From an opening character to the one that closes it *)
RECURSIVE Balance(_, _, _, _, _)
Balance(ms, s, b, e, cont) ==
  CASE s >= SrcEnd(ms)   -> Null(ms)
    [] ms.src[s] = e     -> IF cont = 1 THEN Ends(ms, s + 1) ELSE Balance(ms, s + 1, b, e, cont - 1)
    [] OTHER             -> Balance(ms, s + 1, b, e, IF ms.src[s] = b THEN cont + 1 ELSE cont)

matchbalance(ms, s, p) ==
  LET b == At(ms.pat, p)
      e == At(ms.pat, p + 1)
  IN IF b = NUL \/ e = NUL THEN luaL_error(ms, "unbalanced pattern")
     ELSE IF At(ms.src, s) # b THEN Null(ms) ELSE Balance(ms, s + 1, b, e, 1)

------------------------------------------------------------------------------
(* The matcher *)

RECURSIVE match(_, _, _)

(* Variant: a capture that came to nothing stays. *)
start_capture_Keeps(ms, s, p, what) ==
  LET r == match([ms EXCEPT !.capture = Append(@, [init |-> s, len |-> what])], s, p) IN
    IF level(ms) >= MaxCaptures THEN luaL_error(ms, "too many captures") ELSE r

start_capture(ms, s, p, what) ==
  LET r == match([ms EXCEPT !.capture = Append(@, [init |-> s, len |-> what])], s, p) IN
    IF level(ms) >= MaxCaptures THEN luaL_error(ms, "too many captures")
    ELSE IF Settled(r) THEN r ELSE [r EXCEPT !.capture = Front(@)]

end_capture(ms, s, p) ==
  LET l == CHOOSE k \in Unfinished(ms) : \A m \in Unfinished(ms) : m <= k
      r == match([ms EXCEPT !.capture[l].len = s - ms.capture[l].init], s, p)
  IN IF Unfinished(ms) = {} THEN luaL_error(ms, "invalid pattern capture")
     ELSE IF Settled(r) THEN r ELSE [r EXCEPT !.capture[l].len = CAP_UNFINISHED]

Single(ms, s, p, ep) == s < SrcEnd(ms) /\ singlematch(ms.pat, At(ms.src, s), p, ep)

RECURSIVE Repetitions(_, _, _, _)
Repetitions(ms, s, p, ep) == IF Single(ms, s, p, ep) THEN 1 + Repetitions(ms, s + 1, p, ep) ELSE 0

RECURSIVE Fewer(_, _, _, _)
Fewer(ms, s, n, ep) ==
  LET r == match(ms, s + n, ep + 1) IN
    IF Settled(r) \/ n = 0 THEN r ELSE Fewer(r, s, n - 1, ep)

max_expand(ms, s, p, ep) == Fewer(ms, s, Repetitions(ms, s, p, ep), ep)

RECURSIVE min_expand(_, _, _, _)
min_expand(ms, s, p, ep) ==
  LET r == match(ms, s, ep + 1) IN
    IF Settled(r) THEN r
    ELSE IF Single(r, s, p, ep) THEN min_expand(r, s + 1, p, ep) ELSE Null(r)

(* An item with the suffix that says how often it may be there *)
Item(ms, s, p) ==
  LET ep == classend(ms.pat, p)
      m  == Single(ms, s, p, ep)
      one == match(ms, s + 1, ep + 1)
  IN CASE ep < 0               -> Malformed(ms, ep)
       [] At(ms.pat, ep) = "?" -> IF m /\ Settled(one) THEN one
                                  ELSE match(IF m THEN one ELSE ms, s, ep + 1)
       [] At(ms.pat, ep) = "*" -> max_expand(ms, s, p, ep)
       [] At(ms.pat, ep) = "+" -> IF m THEN max_expand(ms, s + 1, p, ep) ELSE Null(ms)
       [] At(ms.pat, ep) = "-" -> min_expand(ms, s, p, ep)
       [] OTHER                -> IF m THEN match(ms, s + 1, ep) ELSE Null(ms)

(* The change from characters that are not in the class to one that is *)
Frontier(ms, s, p) ==
  LET ep == classend(ms.pat, p)
      In(c) == matchbracketclass(ms.pat, c, p, ep - 1)
  IN CASE At(ms.pat, p) # "[" -> luaL_error(ms, "missing [ after %f")
       [] ep < 0              -> Malformed(ms, ep)
       [] OTHER -> IF In(At(ms.src, s - 1)) \/ ~In(At(ms.src, s)) THEN Null(ms) ELSE match(ms, s, ep)

After(r, p) == IF r.res = 0 THEN r ELSE match(r, r.res, p)

match(ms, s, p) ==
  LET c == At(ms.pat, p)
      d == At(ms.pat, p + 1)
  IN CASE c = "(" -> IF d = ")" THEN start_capture(ms, s, p + 2, CAP_POSITION)
                     ELSE start_capture(ms, s, p + 1, CAP_UNFINISHED)
       [] c = ")" -> end_capture(ms, s, p + 1)
       [] c = "%" /\ d = "b" -> After(matchbalance(ms, s, p + 2), p + 4)
       [] c = "%" /\ d = "f" -> Frontier(ms, s, p + 2)
       [] c = "%" /\ d \in Digits -> After(match_capture(ms, s, Code(d) - Code("0")), p + 2)
       [] c = NUL -> Ends(ms, s)
       [] c = "$" /\ d = NUL -> IF s = SrcEnd(ms) THEN Ends(ms, s) ELSE Null(ms)
       [] OTHER -> Item(ms, s, p)

==============================================================================
