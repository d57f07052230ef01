------------------------------ MODULE StringTable ------------------------------
(* The table of all strings (lstring.c), which grows when a string is made and
   shrinks when a sweep is over, and the collector that sweeps it a chain at a
   time (lgc.c).  A chain is a set of strings; a string has its text, a colour,
   "white0", "white1" or "marked", and may be fixed.  Hash codes are a constant. *)
EXTENDS Naturals, FiniteSets

CONSTANTS Texts,        \* what strings may say
          HashOf,       \* the hash code of each text
          FixedTexts,   \* those of the strings made at start-up that stay for good
          MinSize       \* MINSTRTABSIZE, 32 in the source

ASSUME StringTableAssumption ==
  /\ MinSize \in Nat \ {0} /\ HashOf \in [Texts -> Nat]
  /\ FixedTexts \subseteq Texts /\ IsFiniteSet(FixedTexts)
  /\ Cardinality(FixedTexts) <= MinSize

VARIABLES
  strt,          \* size, nuse, and hash: the chains, from 0 on
  gcstate,       \* "pause", "propagate", "sweepstring", "sweep" or "finalize"
  sweepstrgc,    \* the chain to be swept next
  currentwhite,  \* the white of new strings
  held           \* what the program still refers to

stringvars == <<strt, gcstate, sweepstrgc, currentwhite, held>>

otherwhite == IF currentwhite = "white0" THEN "white1" ELSE "white0"
isdead(ts) == ts.colour = otherwhite
lmod(text, size) == HashOf[text] % size
Chain(text) == strt.hash[lmod(text, strt.size)]
Strings(tb) == UNION {tb.hash[c] : c \in DOMAIN tb.hash}

------------------------------------------------------------------------------
(* lstring.c *)

luaS_resize(tb, newsize) ==
  IF gcstate = "sweepstring" THEN tb
  ELSE [tb EXCEPT !.size = newsize,
                  !.hash = [c \in 0..newsize - 1 |-> {ts \in Strings(tb) : lmod(ts.text, newsize) = c}]]

newlstr(text) ==
  LET ts == [text |-> text, colour |-> currentwhite, fixed |-> FALSE]
      tb == [strt EXCEPT !.hash[lmod(text, strt.size)] = @ \cup {ts}, !.nuse = @ + 1]
  IN IF tb.nuse > tb.size THEN luaS_resize(tb, tb.size * 2) ELSE tb

(* A string that is found may be dead. *)
luaS_newlstr(text) ==
  LET found == {ts \in Chain(text) : ts.text = text}
      ts == CHOOSE s \in found : TRUE
  IN /\ strt' = IF found = {} THEN newlstr(text)
                ELSE IF isdead(ts)
                THEN [strt EXCEPT !.hash[lmod(text, strt.size)] = (@ \ {ts}) \cup {[ts EXCEPT !.colour = currentwhite]}]
                ELSE strt
     /\ held' = held \cup {text}
     /\ UNCHANGED <<gcstate, sweepstrgc, currentwhite>>

Forget(text) == /\ text \in held /\ held' = held \ {text}
                /\ UNCHANGED <<strt, gcstate, sweepstrgc, currentwhite>>

------------------------------------------------------------------------------
(* lgc.c *)

Painted(tb, which(_), colour) ==
  [tb EXCEPT !.hash = [c \in DOMAIN @ |-> {IF which(ts) THEN [ts EXCEPT !.colour = colour] ELSE ts : ts \in @[c]}]]

markroot == /\ gcstate = "pause" /\ gcstate' = "propagate"
            /\ UNCHANGED <<strt, sweepstrgc, currentwhite, held>>

(* Marking comes to a string that the program refers to. *)
stringmark(text) ==
  /\ gcstate = "propagate" /\ text \in held
  /\ strt' = Painted(strt, LAMBDA ts : ts.text = text, "marked")
  /\ UNCHANGED <<gcstate, sweepstrgc, currentwhite, held>>

(* The rest is marked, and the whites change places. *)
atomic ==
  /\ gcstate = "propagate" /\ gcstate' = "sweepstring"
  /\ strt' = Painted(strt, LAMBDA ts : ts.text \in held, "marked")
  /\ currentwhite' = otherwhite /\ sweepstrgc' = 0
  /\ UNCHANGED held

(* Variant: the mask does not keep the fixed strings. *)
NotErased_FixedToo(ts) == ~isdead(ts)

(* The mask of what stays has the bit of fixed strings, besides the colours. *)
NotErased(ts) == ~isdead(ts) \/ ts.fixed

sweepwholelist ==
  LET kept == {ts \in strt.hash[sweepstrgc] : NotErased(ts)} IN
    /\ gcstate = "sweepstring"
    /\ strt' = [strt EXCEPT !.hash[sweepstrgc] = {[ts EXCEPT !.colour = currentwhite] : ts \in kept},
                            !.nuse = @ - Cardinality(strt.hash[sweepstrgc] \ kept)]
    /\ sweepstrgc' = sweepstrgc + 1
    /\ gcstate' = IF sweepstrgc' >= strt.size THEN "sweep" ELSE gcstate
    /\ UNCHANGED <<currentwhite, held>>

checkSizes ==
  /\ gcstate = "sweep" /\ gcstate' = "finalize"
  /\ strt' = IF strt.nuse < strt.size \div 4 /\ strt.size > MinSize * 2
             THEN luaS_resize(strt, strt.size \div 2) ELSE strt
  /\ UNCHANGED <<sweepstrgc, currentwhite, held>>

EndCycle == /\ gcstate = "finalize" /\ gcstate' = "pause"
            /\ UNCHANGED <<strt, sweepstrgc, currentwhite, held>>

singlestep ==
  \/ markroot \/ atomic \/ sweepwholelist \/ checkSizes \/ EndCycle
  \/ \E text \in Texts : stringmark(text)

(* After start-up: the words of the language and the names of events are fixed. *)
f_luaopen ==
  /\ strt = [size |-> MinSize, nuse |-> Cardinality(FixedTexts),
             hash |-> [c \in 0..MinSize - 1 |->
                        {[text |-> x, colour |-> "white0", fixed |-> TRUE] : x \in {y \in FixedTexts : lmod(y, MinSize) = c}}]]
  /\ gcstate = "pause" /\ sweepstrgc = 0 /\ currentwhite = "white0" /\ held = {}

StringNext == singlestep \/ \E text \in Texts : luaS_newlstr(text) \/ Forget(text)

StringSpec == f_luaopen /\ [][StringNext]_stringvars

------------------------------------------------------------------------------
(* lstring.c, lgc.c: whatever sizes the table goes through, and wherever a sweep
   stands, a string is in the chain where it is looked for, and there is one for a
   text; those that are fixed or referred to are there and not about to be erased;
   nuse counts them; and a sweep leaves none behind with an old colour. *)
StringsInterned ==
  LET all == Strings(strt)
      Fresh(c) == \A ts \in strt.hash[c] : ts.colour = currentwhite
  IN /\ strt.nuse = Cardinality(all) /\ strt.size = Cardinality(DOMAIN strt.hash)
     /\ \A c \in DOMAIN strt.hash : \A ts \in strt.hash[c] : lmod(ts.text, strt.size) = c
     /\ \A x, y \in all : x.text = y.text => x = y
     /\ \A text \in held \cup FixedTexts : \E ts \in all : ts.text = text /\ NotErased(ts)
     /\ gcstate = "sweepstring" => \A c \in 0..sweepstrgc - 1 : Fresh(c)
     /\ gcstate \in {"sweep", "finalize", "pause"} => \A c \in DOMAIN strt.hash : Fresh(c)

==============================================================================
