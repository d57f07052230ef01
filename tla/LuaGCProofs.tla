------------------------------ MODULE LuaGCProofs ------------------------------
(***************************************************************************)
(* Theorems about LuaGC for every heap, whatever the kinds of its          *)
(* addresses: the collector erases nothing that the program can reach,     *)
(* and keeps its own bookkeeping.  The inductive invariant is IInv.        *)
(***************************************************************************)
EXTENDS LuaGC, TLAPS

USE ObjsAssumption

Live == {o \in alive : ~isdead(o)}
OpenUps == {u \in Objs : openin[u] # None}

(* Only allocated addresses hold references, strings and weak tables none but
   entries; an open upvalue and its thread are allocated. *)
HeapShape ==
  /\ \A o \in Objs : ptr[o] # {} => o \in alive /\ o \notin Strings \cup WeakTabs
  /\ \A o \in Objs : entry[o] # {} => o \in alive \cap WeakTabs
  /\ \A u \in OpenUps : u \in alive \cap Upvals /\ openin[u] \in alive

RootsLive == {Main, Globals, running} \cup tmudata \subseteq Live

(* The heart of it: what is not about to be erased refers to nothing that is. *)
LiveClosed ==
  /\ \A o \in Live : ptr[o] \subseteq Live
  /\ \A o \in Live : \A e \in entry[o] : e[1] \in Live /\ e[2] \in Live
  /\ \A u \in OpenUps : openin[u] \in Live => ptr[u] \subseteq Live

SweepOrder ==
  /\ unswept \subseteq alive \ (tmudata \cup OpenUps)
  /\ ~Sweeping => unswept = {}

(* Between two mark phases everything has the current white but what is still to
   be swept, by itself or with its thread, and what waits for its finalizer. *)
Swept ==
  ~Marking => \A o \in alive :
    mark[o] = white \/ o \in tmudata \cup unswept \/ openin[o] \in unswept

------------------------------------------------------------------------------
(* Marking *)

NonWhite(m) == {o \in alive : m.mark[o] \notin Whites}
Pending(m) == m.gray \cup m.grayagain \cup m.weak

(* What is marked has its children marked, with the exception of E. *)
Settled(m, E) ==
  \A o \in NonWhite(m) \ E : Children(o) \cap alive \subseteq NonWhite(m)

(* While marking, what is marked and in no list has been traversed: it is black
   and all it refers to is marked, or it is an open upvalue, which the atomic
   step takes care of, a string, or waits for its finalizer.  Threads and weak
   tables, which are written without barriers, stay in the lists. *)
MarkedNow == {o \in alive : mark[o] \notin Whites}
Queued == gray \cup grayagain \cup weak

MarkSound ==
  Marking =>
    /\ Queued \subseteq alive
    /\ \A o \in Queued : mark[o] = "gray" /\ Listed(o)
    /\ \A o \in MarkedNow \ Queued : o \notin Threads \cup WeakTabs
    /\ \A o \in MarkedNow \ (Queued \cup OpenUps \cup tmudata \cup Strings) :
         mark[o] = "black" /\ ptr[o] \subseteq MarkedNow
    /\ {Main, Globals} \subseteq MarkedNow
    /\ \A o \in alive : ~isdead(o)

OpenNotBlack == \A u \in OpenUps : mark[u] # "black"

(* A userdata that is about to be erased has had its finalizer. *)
FinalizedOK ==
  /\ tmudata \subseteq finalized
  /\ \A u \in Udata \cap alive : isdead(u) => u \in finalized

IInv == /\ TypeOK /\ HeapShape /\ RootsLive /\ LiveClosed /\ SweepOrder /\ Swept
        /\ MarkSound /\ OneList /\ OpenNotBlack /\ FinalizedOK

------------------------------------------------------------------------------
(* The closures by which marking and reachability are defined *)

(* What is reached through userdata and upvalues: a closed set within W. *)
LEMMA ImmediateClosure ==
  ASSUME NEW X, NEW W
  PROVE  LET S == Closure(X, Immediate, W) IN
           /\ X \cap W \subseteq S /\ S \subseteq W
           /\ \A a \in S : Immediate(a) \cap W \subseteq S
<1> DEFINE base   == X \cap W
           rest   == W \ X
           next   == (UNION {Immediate(a) : a \in base}) \cap rest
           closed == {T \in SUBSET rest :
                        next \subseteq T /\ \A a \in T : Immediate(a) \cap rest \subseteq T}
           S      == base \cup {o \in rest : \A T \in closed : o \in T}
<1>1. Closure(X, Immediate, W) = S BY Zenon DEF Closure
<1>2. base \subseteq S /\ S \subseteq W OBVIOUS
<1>3. ASSUME NEW a \in S, NEW b \in Immediate(a) \cap W PROVE b \in S
  <2>1. CASE b \in X BY <2>1, <1>3
  <2>2. CASE b \notin X
    <3>1. b \in rest BY <1>3, <2>2
    <3>2. ASSUME NEW T \in closed PROVE b \in T
      <4>1. CASE a \in base
        <5>1. b \in next BY <1>3, <3>1, <4>1
        <5> QED BY <5>1, <3>2
      <4>2. CASE a \notin base BY <1>3, <3>1, <3>2, <4>2
      <4> QED BY <4>1, <4>2
    <3> QED BY <3>1, <3>2
  <2> QED BY <2>1, <2>2
<1> QED BY <1>1, <1>2, <1>3, Zenon

(* What is reached through all that is traversed: the least closed set. *)
LEMMA ChildrenClosed ==
  ASSUME NEW X, NEW W
  PROVE  LET S == Closure(X, Children, W) IN
           /\ X \cap W \subseteq S /\ S \subseteq W
           /\ \A a \in S : Children(a) \cap W \subseteq S
<1> DEFINE base   == X \cap W
           rest   == W \ X
           next   == (UNION {Children(a) : a \in base}) \cap rest
           closed == {T \in SUBSET rest :
                        next \subseteq T /\ \A a \in T : Children(a) \cap rest \subseteq T}
           S      == base \cup {o \in rest : \A T \in closed : o \in T}
<1>1. Closure(X, Children, W) = S BY Zenon DEF Closure
<1>2. base \subseteq S /\ S \subseteq W OBVIOUS
<1>3. ASSUME NEW a \in S, NEW b \in Children(a) \cap W PROVE b \in S
  <2>1. CASE b \in X BY <2>1, <1>3
  <2>2. CASE b \notin X
    <3>1. b \in rest BY <1>3, <2>2
    <3>2. ASSUME NEW T \in closed PROVE b \in T
      <4>1. CASE a \in base
        <5>1. b \in next BY <1>3, <3>1, <4>1
        <5> QED BY <5>1, <3>2
      <4>2. CASE a \notin base BY <1>3, <3>1, <3>2, <4>2
      <4> QED BY <4>1, <4>2
    <3> QED BY <3>1, <3>2
  <2> QED BY <2>1, <2>2
<1> QED BY <1>1, <1>2, <1>3, Zenon

LEMMA ChildrenLeast ==
  ASSUME NEW X, NEW W, NEW P, X \cap W \subseteq P,
         \A a \in P \cap W : Children(a) \cap W \subseteq P
  PROVE  Closure(X, Children, W) \subseteq P
<1> DEFINE base   == X \cap W
           rest   == W \ X
           next   == (UNION {Children(a) : a \in base}) \cap rest
           closed == {T \in SUBSET rest :
                        next \subseteq T /\ \A a \in T : Children(a) \cap rest \subseteq T}
           S      == base \cup {o \in rest : \A T \in closed : o \in T}
           T      == P \cap rest
<1>1. Closure(X, Children, W) = S BY Zenon DEF Closure
<1>2. next \subseteq T OBVIOUS
<1>3. T \in closed BY <1>2
<1>4. S \subseteq P BY <1>3
<1> QED BY <1>1, <1>4, Zenon

LEMMA ImmediateLeast ==
  ASSUME NEW X, NEW W, NEW P, X \cap W \subseteq P,
         \A a \in P \cap W : Immediate(a) \cap W \subseteq P
  PROVE  Closure(X, Immediate, W) \subseteq P
<1> DEFINE base   == X \cap W
           rest   == W \ X
           next   == (UNION {Immediate(a) : a \in base}) \cap rest
           closed == {T \in SUBSET rest :
                        next \subseteq T /\ \A a \in T : Immediate(a) \cap rest \subseteq T}
           S      == base \cup {o \in rest : \A T \in closed : o \in T}
           T      == P \cap rest
<1>1. Closure(X, Immediate, W) = S BY Zenon DEF Closure
<1>2. next \subseteq T OBVIOUS
<1>3. T \in closed BY <1>2
<1>4. S \subseteq P BY <1>3
<1> QED BY <1>1, <1>4, Zenon

------------------------------------------------------------------------------
(* The two steps of marking *)

Colour == Whites \cup {"gray", "black"}
MarkRecord == [mark : [Objs -> Colour], gray : SUBSET Objs, grayagain : SUBSET Objs,
               weak : SUBSET WeakTabs]

(* reallymarkobject marks what it is given and what that leads to at once; what
   has to be traversed is put in the list. *)
LEMMA MarkObjects ==
  ASSUME NEW m \in MarkRecord, NEW X, alive \subseteq Objs
  PROVE  LET r   == reallymarkobject(m, X)
             new == NonWhite(r) \ NonWhite(m) IN
           /\ r \in MarkRecord
           /\ r.grayagain = m.grayagain /\ r.weak = m.weak
           /\ r.gray = m.gray \cup {o \in new : Listed(o)}
           /\ NonWhite(m) \subseteq NonWhite(r) /\ X \cap alive \subseteq NonWhite(r)
           /\ \A o \in Objs \ new : r.mark[o] = m.mark[o]
           /\ \A o \in new : /\ r.mark[o] = Marked(o)
                             /\ Immediate(o) \cap alive \subseteq NonWhite(r)
<1> DEFINE S == Closure(X, Immediate, WhiteIn(m))
           r == reallymarkobject(m, X)
<1>1. /\ X \cap WhiteIn(m) \subseteq S /\ S \subseteq WhiteIn(m)
      /\ \A a \in S : Immediate(a) \cap WhiteIn(m) \subseteq S
  BY ImmediateClosure, Zenon
<1>2. r = [m EXCEPT !.mark = [o \in Objs |-> IF o \in S THEN Marked(o) ELSE @[o]],
                    !.gray = @ \cup {o \in S : Listed(o)}]
  BY Zenon DEF reallymarkobject
<1> HIDE DEF S, r
<1>3. S \subseteq alive /\ S \subseteq Objs BY <1>1 DEF WhiteIn
<1>4. /\ r = [mark      |-> [o \in Objs |-> IF o \in S THEN Marked(o) ELSE m.mark[o]],
              gray      |-> m.gray \cup {o \in S : Listed(o)},
              grayagain |-> m.grayagain,
              weak      |-> m.weak]
  BY <1>2 DEF MarkRecord
<1>5. \A o \in Objs : Marked(o) \in {"gray", "black"} BY DEF Marked
<1>6. r \in MarkRecord BY <1>3, <1>4, <1>5 DEF MarkRecord, Colour
<1>7. NonWhite(r) = NonWhite(m) \cup S
  BY <1>1, <1>3, <1>4, <1>5 DEF NonWhite, Whites, WhiteIn, MarkRecord
<1>8. NonWhite(m) \cap S = {} BY <1>1 DEF NonWhite, WhiteIn
<1>9. alive \ WhiteIn(m) = NonWhite(m) BY DEF NonWhite, WhiteIn
<1> QED BY <1>1, <1>3, <1>4, <1>6, <1>7, <1>8, <1>9 DEF r

(* propagateall traverses the gray objects, and all that they lead to. *)
LEMMA PropagateAll ==
  ASSUME NEW m \in MarkRecord, alive \subseteq Objs, m.gray \subseteq NonWhite(m)
  PROVE  LET r == propagateall(m) IN
           /\ r \in MarkRecord
           /\ r.gray = {} /\ m.gray \subseteq Done(m) /\ Done(m) \subseteq alive
           /\ r.grayagain = m.grayagain \cup (Done(m) \cap Threads)
           /\ r.weak = m.weak \cup (Done(m) \cap WeakTabs)
           /\ NonWhite(r) = NonWhite(m) \cup Done(m)
           /\ \A o \in Objs : r.mark[o] = IF o \in Done(m) THEN Traversed(o) ELSE m.mark[o]
           /\ \A o \in Done(m) : Children(o) \cap alive \subseteq NonWhite(r)
<1> DEFINE X == UNION {Children(o) : o \in m.gray}
           C == Closure(X, Children, WhiteIn(m))
           done == Done(m)
           r == propagateall(m)
<1>9. done = m.gray \cup C BY Zenon DEF Done
<1>2. r = [mark      |-> [o \in Objs |-> IF o \in done THEN Traversed(o) ELSE m.mark[o]],
           gray      |-> {},
           grayagain |-> m.grayagain \cup (done \cap Threads),
           weak      |-> m.weak \cup (done \cap WeakTabs)]
  BY Zenon DEF propagateall
<1>10. \A o \in m.gray : Children(o) \subseteq X OBVIOUS
<1> HIDE DEF X
<1>1. /\ X \cap WhiteIn(m) \subseteq C
      /\ C \subseteq WhiteIn(m)
      /\ \A a \in C : Children(a) \cap WhiteIn(m) \subseteq C
  BY ChildrenClosed, Zenon
<1> HIDE DEF C, r, done
<1>3. done \subseteq alive /\ done \subseteq Objs BY <1>1, <1>9 DEF WhiteIn, NonWhite
<1>4. \A o \in Objs : Traversed(o) \in {"gray", "black"} BY DEF Traversed, Marked
<1>5. r \in MarkRecord
  BY <1>2, <1>3, <1>4 DEF MarkRecord, Colour, WeakTabs, Threads, Of
<1>6. NonWhite(r) = NonWhite(m) \cup done
  BY <1>2, <1>3, <1>4 DEF NonWhite, Whites, MarkRecord
<1>7. alive = NonWhite(m) \cup WhiteIn(m) BY DEF NonWhite, WhiteIn
<1>8. ASSUME NEW o \in done PROVE Children(o) \cap alive \subseteq NonWhite(r)
  <2>1. Children(o) \cap WhiteIn(m) \subseteq C
    <3>1. CASE o \in m.gray BY <3>1, <1>1, <1>10
    <3>2. CASE o \in C BY <3>2, <1>1
    <3> QED BY <3>1, <3>2, <1>9
  <2> QED BY <2>1, <1>6, <1>7, <1>9
<1> QED BY <1>2, <1>3, <1>5, <1>6, <1>8, <1>9 DEF r, done

(* What both steps keep of a record of marks. *)
Consistent(m) ==
  /\ m \in MarkRecord
  /\ Pending(m) \subseteq NonWhite(m)
  /\ NonWhite(m) \cap WeakTabs \subseteq Pending(m)
  /\ {Main, Globals} \subseteq NonWhite(m)
  /\ \A o \in alive : m.mark[o] # OtherWhite
  /\ \A u \in OpenUps : m.mark[u] # "black"

LEMMA MarkConsistent ==
  ASSUME TypeOK, HeapShape, NEW m, Consistent(m), NEW X
  PROVE  Consistent(reallymarkobject(m, X))
<1> DEFINE r == reallymarkobject(m, X)
           new == NonWhite(r) \ NonWhite(m)
<1>1. /\ r \in MarkRecord
      /\ r.grayagain = m.grayagain /\ r.weak = m.weak
      /\ r.gray = m.gray \cup {o \in new : Listed(o)}
      /\ NonWhite(m) \subseteq NonWhite(r)
      /\ \A o \in Objs \ new : r.mark[o] = m.mark[o]
      /\ \A o \in new : r.mark[o] = Marked(o)
  BY MarkObjects DEF Consistent, TypeOK
<1> HIDE DEF r
<1>2. new \subseteq alive /\ alive \subseteq Objs BY DEF NonWhite, TypeOK
<1>3. Pending(r) = Pending(m) \cup {o \in new : Listed(o)} BY <1>1 DEF Pending
<1>4. \A o \in WeakTabs : Listed(o) BY DEF Listed, WeakTabs, Of
<1>5. \A o \in Objs : Marked(o) \in {"gray", "black"} BY DEF Marked
<1>6. \A u \in OpenUps : u \in Objs /\ Marked(u) = "gray"
  BY DEF OpenUps, HeapShape, Marked, Upvals, Of
<1>7. OtherWhite \in Whites BY DEF OtherWhite, Whites
<1>8. \A o \in alive : r.mark[o] # OtherWhite
  BY <1>1, <1>2, <1>5, <1>7 DEF Consistent, Whites
<1>9. \A u \in OpenUps : r.mark[u] # "black" BY <1>1, <1>6 DEF Consistent
<1> QED BY <1>1, <1>3, <1>4, <1>8, <1>9 DEF Consistent, r

LEMMA PropagateConsistent ==
  ASSUME TypeOK, HeapShape, NEW m, Consistent(m)
  PROVE  Consistent(propagateall(m))
<1> DEFINE r == propagateall(m)
           done == Done(m)
<1>1. /\ r \in MarkRecord
      /\ r.gray = {} /\ m.gray \subseteq done /\ done \subseteq alive
      /\ r.grayagain = m.grayagain \cup (done \cap Threads)
      /\ r.weak = m.weak \cup (done \cap WeakTabs)
      /\ NonWhite(r) = NonWhite(m) \cup done
      /\ \A o \in Objs : r.mark[o] = IF o \in done THEN Traversed(o) ELSE m.mark[o]
  BY PropagateAll DEF Consistent, Pending, TypeOK
<1> HIDE DEF r, done
<1>2. alive \subseteq Objs BY DEF TypeOK
<1>3. \A o \in Objs : Traversed(o) \in {"gray", "black"} BY DEF Traversed, Marked
<1>4. \A u \in OpenUps : u \in Objs /\ Traversed(u) = "gray"
  BY DEF OpenUps, HeapShape, Traversed, Marked, Listed, Upvals, WeakTabs, Of
<1>5. OtherWhite \in Whites BY DEF OtherWhite, Whites
<1>6. \A o \in alive : r.mark[o] # OtherWhite
  BY <1>1, <1>2, <1>3, <1>5 DEF Consistent, Whites
<1>7. \A u \in OpenUps : r.mark[u] # "black" BY <1>1, <1>4 DEF Consistent
<1>8. Pending(r) \subseteq NonWhite(r) BY <1>1 DEF Consistent, Pending
<1>9. NonWhite(r) \cap WeakTabs \subseteq Pending(r) BY <1>1 DEF Consistent, Pending
<1> QED BY <1>1, <1>6, <1>7, <1>8, <1>9 DEF Consistent, r

(* What reallymarkobject does not put in the list it has done with. *)
LEMMA UnlistedChildren ==
  ASSUME TypeOK, HeapShape, NEW o \in Objs, ~Listed(o)
  PROVE  Children(o) \subseteq Immediate(o)
<1>1. Kind[o] \in {"udata", "upval", "string"} BY DEF Listed
<1>2. Children(o) = ptr[o] BY <1>1 DEF Children
<1>3. Kind[o] = "string" => ptr[o] = {} BY DEF HeapShape, Strings, Of
<1> QED BY <1>1, <1>2, <1>3 DEF Immediate

(* What marking adds outside the list has its children marked with it. *)
LEMMA MarkSettles ==
  ASSUME TypeOK, HeapShape, NEW m \in MarkRecord, NEW X, NEW E, Settled(m, E)
  PROVE  Settled(reallymarkobject(m, X), E \cup reallymarkobject(m, X).gray)
<1> DEFINE r == reallymarkobject(m, X)
           new == NonWhite(r) \ NonWhite(m)
<1>1. /\ r.gray = m.gray \cup {o \in new : Listed(o)}
      /\ NonWhite(m) \subseteq NonWhite(r)
      /\ \A o \in new : Immediate(o) \cap alive \subseteq NonWhite(r)
  BY MarkObjects DEF TypeOK
<1> HIDE DEF r
<1>2. \A o \in Objs : ~Listed(o) => Children(o) \subseteq Immediate(o)
  BY UnlistedChildren
<1>3. NonWhite(r) \subseteq Objs BY DEF NonWhite, TypeOK
<1>4. ASSUME NEW o \in NonWhite(r) \ (E \cup r.gray)
      PROVE  Children(o) \cap alive \subseteq NonWhite(r)
  <2>1. CASE o \in NonWhite(m) BY <2>1, <1>1, <1>4 DEF Settled
  <2>2. CASE o \notin NonWhite(m) BY <2>2, <1>1, <1>2, <1>3, <1>4
  <2> QED BY <2>1, <2>2
<1> QED BY <1>4 DEF Settled, r

(* Propagation settles the objects of the list. *)
LEMMA PropagateSettles ==
  ASSUME TypeOK, NEW m \in MarkRecord, m.gray \subseteq NonWhite(m), NEW E, Settled(m, E)
  PROVE  Settled(propagateall(m), E \ m.gray)
<1> DEFINE r == propagateall(m)
<1>1. /\ m.gray \subseteq Done(m)
      /\ NonWhite(r) = NonWhite(m) \cup Done(m)
      /\ \A o \in Done(m) : Children(o) \cap alive \subseteq NonWhite(r)
  BY PropagateAll DEF TypeOK
<1> HIDE DEF r
<1>2. ASSUME NEW o \in NonWhite(r) \ (E \ m.gray)
      PROVE  Children(o) \cap alive \subseteq NonWhite(r)
  <2>1. CASE o \in Done(m) BY <2>1, <1>1
  <2>2. CASE o \notin Done(m) BY <2>2, <1>1, <1>2 DEF Settled
  <2> QED BY <2>1, <2>2
<1> QED BY <1>2 DEF Settled, r

LEMMA SettledWeaker ==
  ASSUME NEW m, NEW E, NEW F, Settled(m, E), E \subseteq F
  PROVE  Settled(m, F)
BY DEF Settled

------------------------------------------------------------------------------
(* The atomic step leaves no work to do *)

(* remarkupvals takes care of the open upvalues of threads that are garbage. *)
LEMMA RemarkSettles ==
  ASSUME TypeOK, HeapShape, NEW m, Consistent(m), NEW E, Settled(m, E \cup OpenUps)
  PROVE  Settled(remarkupvals(m), E \cup remarkupvals(m).gray)
<1> DEFINE X == UNION {ptr[u] : u \in {v \in alive \cap Upvals :
                                  openin[v] # None /\ m.mark[v] = "gray"}}
           r == reallymarkobject(m, X)
           new == NonWhite(r) \ NonWhite(m)
<1>1. remarkupvals(m) = r BY Zenon DEF remarkupvals
<1>2. \A u \in OpenUps : u \in alive /\ m.mark[u] = "gray" => ptr[u] \subseteq X
  <2> SUFFICES ASSUME NEW u \in OpenUps, u \in alive, m.mark[u] = "gray"
               PROVE  ptr[u] \subseteq X
    OBVIOUS
  <2>1. u \in {v \in alive \cap Upvals : openin[v] # None /\ m.mark[v] = "gray"}
    BY DEF HeapShape, OpenUps
  <2> QED BY <2>1
<1> HIDE DEF X
<1>3. /\ NonWhite(m) \subseteq NonWhite(r) /\ X \cap alive \subseteq NonWhite(r)
      /\ \A o \in new : Immediate(o) \cap alive \subseteq NonWhite(r)
  BY MarkObjects DEF Consistent, TypeOK
<1>4. Settled(r, (E \cup OpenUps) \cup r.gray) BY MarkSettles DEF Consistent
<1> HIDE DEF r
<1>5. \A o \in NonWhite(m) \cap OpenUps : m.mark[o] = "gray"
  BY DEF NonWhite, Consistent, MarkRecord, Colour, TypeOK
<1>6. \A o \in OpenUps : Children(o) = ptr[o] /\ Immediate(o) = ptr[o]
  BY DEF HeapShape, OpenUps, Upvals, Of, Children, Immediate
<1>7. NonWhite(m) \subseteq alive BY DEF NonWhite
<1>8. ASSUME NEW o \in NonWhite(r) \ (E \cup r.gray)
      PROVE  Children(o) \cap alive \subseteq NonWhite(r)
  <2>1. CASE o \notin OpenUps BY <2>1, <1>4, <1>8 DEF Settled
  <2>2. CASE o \in OpenUps \cap NonWhite(m) BY <2>2, <1>2, <1>3, <1>5, <1>6, <1>7
  <2>3. CASE o \in OpenUps \cap new BY <2>3, <1>3, <1>6
  <2> QED BY <2>1, <2>2, <2>3, <1>8
<1> QED BY <1>1, <1>8 DEF Settled

(* The queue of finalizers is marked anew, whatever its colours were. *)
LEMMA FinalizersSettle ==
  ASSUME TypeOK, HeapShape, NEW m, Consistent(m), NEW X, tmudata \subseteq X,
         X \subseteq Udata \cap alive, Pending(m) \cap Udata = {}, Settled(m, tmudata)
  PROVE  LET r == reallymarkobject(makewhite(m, X), X) IN
           /\ Consistent(r) /\ Settled(r, r.gray)
           /\ NonWhite(m) \cup X \subseteq NonWhite(r)
           /\ r.grayagain = m.grayagain
<1> DEFINE w == makewhite(m, X)
           r == reallymarkobject(w, X)
<1>1. w = [mark |-> [o \in Objs |-> IF o \in X THEN white ELSE m.mark[o]],
           gray |-> m.gray, grayagain |-> m.grayagain, weak |-> m.weak]
  BY DEF makewhite, Consistent, MarkRecord
<1>2. /\ w \in MarkRecord /\ Pending(w) = Pending(m)
      /\ NonWhite(w) = NonWhite(m) \ X
  BY <1>1 DEF Consistent, MarkRecord, Pending, NonWhite, TypeOK, Colour
<1>3. Consistent(w)
  <2>1. /\ Pending(w) \subseteq NonWhite(w)
        /\ NonWhite(w) \cap WeakTabs \subseteq Pending(w)
    BY <1>2 DEF Consistent
  <2>2. {Main, Globals} \subseteq NonWhite(w)
    BY <1>2 DEF Consistent, Udata, Of
  <2>3. \A o \in alive : w.mark[o] # OtherWhite
    BY <1>1 DEF Consistent, TypeOK, OtherWhite, Whites
  <2>4. \A u \in OpenUps : w.mark[u] # "black"
    BY <1>1 DEF Consistent, TypeOK, Whites, OpenUps
  <2> QED BY <1>2, <2>1, <2>2, <2>3, <2>4 DEF Consistent
<1>4. /\ Consistent(r) BY <1>3, MarkConsistent
<1> DEFINE new == NonWhite(r) \ NonWhite(w)
<1> HIDE DEF w
<1>5. /\ r.grayagain = w.grayagain
      /\ r.gray = w.gray \cup {o \in new : Listed(o)}
      /\ NonWhite(w) \subseteq NonWhite(r) /\ X \cap alive \subseteq NonWhite(r)
      /\ \A o \in new : Immediate(o) \cap alive \subseteq NonWhite(r)
  BY <1>2, MarkObjects DEF TypeOK
<1> HIDE DEF r
<1>6. NonWhite(m) \cup X \subseteq NonWhite(r) BY <1>2, <1>5
<1>7. NonWhite(r) \subseteq Objs BY DEF NonWhite, TypeOK
<1>8. ASSUME NEW o \in NonWhite(r) \ r.gray
      PROVE  Children(o) \cap alive \subseteq NonWhite(r)
  <2>1. CASE o \in NonWhite(w) BY <2>1, <1>2, <1>6 DEF Settled
  <2>2. CASE o \in new
    <3>1. ~Listed(o) BY <2>2, <1>5, <1>8
    <3>2. Children(o) \subseteq Immediate(o) BY <3>1, <1>7, <1>8, UnlistedChildren
    <3> QED BY <2>2, <3>2, <1>5
  <2> QED BY <2>1, <2>2, <1>8
<1>9. r.grayagain = m.grayagain BY <1>1, <1>5 DEF w
<1> QED BY <1>4, <1>6, <1>8, <1>9 DEF Settled, r, w

(* The records of atomic, in the order in which it makes them. *)
Remarked    == remarkupvals(Marks)
Weaks(m)    == reallymarkobject([m EXCEPT !.gray = m.weak, !.weak = {}], {running})
Grays(m)    == [m EXCEPT !.gray = m.grayagain, !.grayagain = {}]
Finals(m)   == tmudata \cup separateudata(m)
Final(m)    == reallymarkobject(makewhite(m, Finals(m)), Finals(m))
AtomicM1    == propagateall(Remarked)
AtomicM2    == propagateall(Weaks(AtomicM1))
AtomicM3    == propagateall(Grays(AtomicM2))
AtomicM4    == propagateall(Final(AtomicM3))

LEMMA WeaksSettle ==
  ASSUME TypeOK, HeapShape, RootsLive, NEW m, Consistent(m), NEW E,
         m.gray = {}, Settled(m, E \cup m.weak)
  PROVE  LET r == propagateall(Weaks(m)) IN
           /\ Consistent(r) /\ r.gray = {} /\ running \in NonWhite(r)
           /\ Settled(r, E) /\ m.grayagain \subseteq r.grayagain
<1> DEFINE w == [m EXCEPT !.gray = m.weak, !.weak = {}]
           x == reallymarkobject(w, {running})
           r == propagateall(x)
<1>0. w = [m EXCEPT !.gray = m.weak, !.weak = {}] /\ m \in MarkRecord
  BY DEF Consistent
<1> HIDE DEF w
<1>1. w = [mark |-> m.mark, gray |-> m.weak, grayagain |-> m.grayagain, weak |-> {}]
  BY <1>0 DEF MarkRecord
<1>2. WeakTabs \subseteq Objs BY DEF WeakTabs, Of
<1>3. NonWhite(w) = NonWhite(m) /\ Pending(w) = Pending(m)
  BY <1>1 DEF NonWhite, Pending
<1>4. Consistent(w) BY <1>1, <1>2, <1>3 DEF Consistent, MarkRecord
<1>5. Settled(w, E \cup m.weak) BY <1>3 DEF Settled
<1>6. Consistent(x) BY <1>4, MarkConsistent
<1>7. Settled(x, (E \cup m.weak) \cup x.gray) BY <1>4, <1>5, MarkSettles DEF Consistent
<1>8. running \in NonWhite(x) /\ w.gray \subseteq x.gray /\ x.grayagain = w.grayagain
  BY <1>4, MarkObjects DEF Consistent, TypeOK, RootsLive, Live
<1> HIDE DEF x
<1>9. x.gray \subseteq NonWhite(x) BY <1>6 DEF Consistent, Pending
<1>10. Consistent(r) BY <1>6, PropagateConsistent
<1>11. Settled(r, ((E \cup m.weak) \cup x.gray) \ x.gray)
  BY <1>6, <1>7, <1>9, PropagateSettles DEF Consistent
<1>12. /\ r.gray = {} /\ NonWhite(x) \subseteq NonWhite(r)
       /\ x.grayagain \subseteq r.grayagain
  BY <1>6, <1>9, PropagateAll DEF Consistent, TypeOK
<1> HIDE DEF r
<1>13. m.weak \subseteq x.gray /\ m.grayagain = x.grayagain BY <1>1, <1>8
<1>14. Settled(r, E) BY <1>11, <1>13, SettledWeaker
<1> QED BY <1>8, <1>10, <1>12, <1>13, <1>14 DEF r, x, w, Weaks

LEMMA GraysSettle ==
  ASSUME TypeOK, HeapShape, NEW m, Consistent(m), NEW E,
         m.gray = {}, Settled(m, E \cup m.grayagain)
  PROVE  LET r == propagateall(Grays(m)) IN
           /\ Consistent(r) /\ Settled(r, E) /\ NonWhite(m) \subseteq NonWhite(r)
           /\ r.gray = {} /\ r.grayagain \subseteq Threads /\ r.weak \subseteq WeakTabs
<1> DEFINE w == Grays(m)
           r == propagateall(w)
<1>0. w = [m EXCEPT !.gray = m.grayagain, !.grayagain = {}] /\ m \in MarkRecord
  BY DEF Consistent, Grays
<1> HIDE DEF w
<1>1. w = [mark |-> m.mark, gray |-> m.grayagain, grayagain |-> {}, weak |-> m.weak]
  BY <1>0 DEF MarkRecord
<1>2. NonWhite(w) = NonWhite(m) /\ Pending(w) = Pending(m)
  BY <1>1 DEF NonWhite, Pending
<1>3. Consistent(w) BY <1>1, <1>2 DEF Consistent, MarkRecord
<1>4. Settled(w, E \cup m.grayagain) BY <1>2 DEF Settled
<1>5. w.gray = m.grayagain /\ w.grayagain = {} /\ w.weak \subseteq WeakTabs
  BY <1>1 DEF Consistent, MarkRecord
<1>6. w.gray \subseteq NonWhite(w) BY <1>3 DEF Consistent, Pending
<1>7. Consistent(r) BY <1>3, PropagateConsistent
<1>8. Settled(r, (E \cup m.grayagain) \ w.gray)
  BY <1>3, <1>4, <1>6, PropagateSettles DEF Consistent
<1>9. /\ r.gray = {} /\ NonWhite(w) \subseteq NonWhite(r)
      /\ r.grayagain \subseteq w.grayagain \cup Threads
      /\ r.weak \subseteq w.weak \cup WeakTabs
  BY <1>3, <1>6, PropagateAll DEF Consistent, TypeOK
<1> HIDE DEF r
<1>10. Settled(r, E) BY <1>5, <1>8, SettledWeaker
<1> QED BY <1>2, <1>5, <1>7, <1>9, <1>10 DEF r, w

(* The marks of a mark phase, as a record. *)
LEMMA MarksConsistent ==
  ASSUME TypeOK, HeapShape, MarkSound, OpenNotBlack, Marking
  PROVE  /\ Consistent(Marks)
         /\ Settled(Marks, (Pending(Marks) \cup tmudata) \cup OpenUps)
<1>1. Marks \in MarkRecord BY DEF Marks, MarkRecord, TypeOK, Colour
<1>2. /\ NonWhite(Marks) = MarkedNow /\ Pending(Marks) = Queued
      /\ \A o \in Objs : Marks.mark[o] = mark[o]
  BY DEF Marks, NonWhite, MarkedNow, Pending, Queued
<1>3. Queued \subseteq MarkedNow BY DEF MarkSound, MarkedNow, Whites
<1>4. \A o \in alive : Marks.mark[o] # OtherWhite
  BY <1>2 DEF MarkSound, isdead, TypeOK
<1>5. \A u \in OpenUps : Marks.mark[u] # "black" BY <1>2 DEF OpenNotBlack, OpenUps
<1>6. Consistent(Marks) BY <1>1, <1>2, <1>3, <1>4, <1>5 DEF Consistent, MarkSound
<1>7. ASSUME NEW o \in MarkedNow \ ((Queued \cup tmudata) \cup OpenUps)
      PROVE  Children(o) \cap alive \subseteq MarkedNow
  <2>1. o \in Objs /\ o \notin Threads \cup WeakTabs
    BY <1>7 DEF MarkSound, MarkedNow, TypeOK
  <2>2. Children(o) = ptr[o] BY <2>1 DEF Children, Threads, WeakTabs, Of
  <2>3. o \in Strings => ptr[o] = {} BY <2>1 DEF HeapShape
  <2> QED BY <1>7, <2>2, <2>3 DEF MarkSound
<1> QED BY <1>2, <1>6, <1>7 DEF Settled

(* When atomic has propagated for the last time, everything marked is settled,
   with the roots and the queue of finalizers among it. *)
LEMMA AtomicMarks ==
  ASSUME TypeOK, HeapShape, RootsLive, MarkSound, OpenNotBlack, Marking
  PROVE  /\ Consistent(AtomicM4) /\ Settled(AtomicM4, {}) /\ AtomicM4.gray = {}
         /\ {Main, Globals, running} \cup Finals(AtomicM3) \subseteq NonWhite(AtomicM4)
         /\ NonWhite(AtomicM4) \cap WeakTabs \subseteq AtomicM4.weak
         /\ AtomicM3 \in MarkRecord /\ NonWhite(AtomicM3) \subseteq NonWhite(AtomicM4)
         /\ Consistent(Marks) /\ Consistent(Remarked) /\ Consistent(AtomicM1)
         /\ Consistent(AtomicM2) /\ Consistent(AtomicM3) /\ Consistent(Final(AtomicM3))
<1> DEFINE m0 == Remarked
           m1 == propagateall(m0)
           m2 == propagateall(Weaks(m1))
           m3 == propagateall(Grays(m2))
           f  == Final(m3)
           m4 == propagateall(f)
<1>1. Consistent(Marks) /\ Settled(Marks, (Pending(Marks) \cup tmudata) \cup OpenUps)
  BY MarksConsistent DEF Marking
<1>2. Consistent(m0) /\ Settled(m0, (Pending(Marks) \cup tmudata) \cup m0.gray)
      /\ Pending(Marks) \subseteq Pending(m0)
  <2> DEFINE X == UNION {ptr[u] : u \in {v \in alive \cap Upvals :
                                    openin[v] # None /\ Marks.mark[v] = "gray"}}
  <2>1. m0 = reallymarkobject(Marks, X) BY Zenon DEF Remarked, remarkupvals
  <2> HIDE DEF X
  <2>2. Consistent(m0) BY <1>1, <2>1, MarkConsistent
  <2>3. Settled(m0, (Pending(Marks) \cup tmudata) \cup m0.gray)
    BY <1>1, RemarkSettles DEF Remarked
  <2>4. /\ m0.grayagain = Marks.grayagain /\ m0.weak = Marks.weak
        /\ Marks.gray \subseteq m0.gray
    BY <1>1, <2>1, MarkObjects DEF Consistent, TypeOK
  <2> QED BY <2>2, <2>3, <2>4 DEF Pending
<1> HIDE DEF m0
<1>3. /\ Consistent(m1) /\ m1.gray = {}
      /\ Settled(m1, (m1.grayagain \cup tmudata) \cup m1.weak)
  <2>1. m0.gray \subseteq NonWhite(m0) BY <1>2 DEF Consistent, Pending
  <2>2. /\ m1.gray = {}
        /\ m0.grayagain \subseteq m1.grayagain /\ m0.weak \subseteq m1.weak
    BY <1>2, <2>1, PropagateAll DEF Consistent, TypeOK
  <2>3. Consistent(m1) BY <1>2, PropagateConsistent
  <2>4. Settled(m1, ((Pending(Marks) \cup tmudata) \cup m0.gray) \ m0.gray)
    BY <1>2, <2>1, PropagateSettles DEF Consistent
  <2> HIDE DEF m1
  <2>5. ((Pending(Marks) \cup tmudata) \cup m0.gray) \ m0.gray
           \subseteq (m1.grayagain \cup tmudata) \cup m1.weak
    BY <1>2, <2>2 DEF Pending
  <2> QED BY <2>2, <2>3, <2>4, <2>5, SettledWeaker
<1> HIDE DEF m1
<1>4. /\ Consistent(m2) /\ m2.gray = {} /\ running \in NonWhite(m2)
      /\ Settled(m2, tmudata \cup m2.grayagain)
  <2>1. /\ Consistent(m2) /\ m2.gray = {} /\ running \in NonWhite(m2)
        /\ Settled(m2, m1.grayagain \cup tmudata) /\ m1.grayagain \subseteq m2.grayagain
    BY <1>3, WeaksSettle
  <2> HIDE DEF m2
  <2> QED BY <2>1, SettledWeaker
<1> HIDE DEF m2
<1>5. /\ Consistent(m3) /\ Settled(m3, tmudata) /\ running \in NonWhite(m3)
      /\ m3.gray = {} /\ m3.grayagain \subseteq Threads /\ m3.weak \subseteq WeakTabs
  BY <1>4, GraysSettle
<1> HIDE DEF m3
<1>6. /\ Consistent(f) /\ Settled(f, f.gray)
      /\ NonWhite(m3) \cup Finals(m3) \subseteq NonWhite(f)
      /\ f.grayagain \subseteq Threads
  <2>1. Finals(m3) \subseteq Udata \cap alive /\ tmudata \subseteq Finals(m3)
    BY DEF Finals, separateudata, WhiteIn, RootsLive, Live, TypeOK
  <2>2. Pending(m3) \cap Udata = {}
    BY <1>5 DEF Pending, Threads, WeakTabs, Udata, Of
  <2> QED BY <1>5, <2>1, <2>2, FinalizersSettle DEF Final
<1> HIDE DEF f
<1>7. f.gray \subseteq NonWhite(f) BY <1>6 DEF Consistent, Pending
<1>8. Consistent(m4) BY <1>6, PropagateConsistent
<1>9. Settled(m4, {})
  <2>1. Settled(m4, f.gray \ f.gray)
    BY <1>6, <1>7, PropagateSettles DEF Consistent
  <2> QED BY <2>1, SettledWeaker
<1>10. /\ m4.gray = {} /\ NonWhite(f) \subseteq NonWhite(m4)
       /\ m4.grayagain \subseteq Threads
  BY <1>6, <1>7, PropagateAll DEF Consistent, TypeOK
<1> HIDE DEF m4
<1>11. NonWhite(m4) \cap WeakTabs \subseteq m4.weak
  BY <1>8, <1>10 DEF Consistent, Pending, Threads, WeakTabs, Of
<1>12. {Main, Globals, running} \cup Finals(m3) \subseteq NonWhite(m4)
  BY <1>5, <1>6, <1>8, <1>10 DEF Consistent
<1>13. /\ AtomicM4 = m4 /\ AtomicM3 = m3 /\ AtomicM2 = m2 /\ AtomicM1 = m1
       /\ Remarked = m0 /\ Final(AtomicM3) = f
  BY Zenon DEF AtomicM4, AtomicM3, AtomicM2, AtomicM1, m0, m1, m2, m3, f, m4
<1>14. m3 \in MarkRecord /\ NonWhite(m3) \subseteq NonWhite(m4)
  BY <1>5, <1>6, <1>10 DEF Consistent
<1> HIDE DEF Consistent, Settled
<1> QED BY <1>1, <1>2, <1>3, <1>4, <1>5, <1>6, <1>8, <1>9, <1>10, <1>11, <1>12, <1>13,
           <1>14

------------------------------------------------------------------------------
(* What the mutator works on is not about to be erased *)

LEMMA LocalLive ==
  ASSUME IInv
  PROVE  /\ Stack(running) \subseteq Live /\ Local \subseteq Live
         /\ Operands \subseteq Live \cap Values
         /\ \A x \in Local : Fields(x) \subseteq Live
         /\ Live \subseteq alive /\ alive \subseteq Objs
<1>0. Live \subseteq alive /\ alive \subseteq Objs BY DEF IInv, TypeOK, Live
<1>1. \A th \in Live : Stack(th) \subseteq Live
  <2> SUFFICES ASSUME NEW th \in Live, NEW x \in Stack(th) PROVE x \in Live
    OBVIOUS
  <2>1. CASE x \in ptr[th] BY <2>1 DEF IInv, LiveClosed
  <2>2. CASE x \in UNION {ptr[u] : u \in OpenUpvals(th)}
    <3>1. PICK u \in OpenUpvals(th) : x \in ptr[u] BY <2>2
    <3>2. u \in OpenUps /\ openin[u] = th
      BY <1>0, <3>1 DEF OpenUpvals, OpenUps, IInv, TypeOK
    <3> QED BY <3>1, <3>2 DEF IInv, LiveClosed
  <2> QED BY <2>1, <2>2 DEF Stack
<1>2. running \in Live /\ Globals \in Live BY DEF IInv, RootsLive
<1>3. Stack(running) \subseteq Live /\ Local \subseteq Live BY <1>1, <1>2 DEF Local
<1>4. Operands \subseteq Live \cap Values BY <1>3 DEF Operands
<1>5. ASSUME NEW x \in Live, NEW y \in Fields(x) PROVE y \in Live
  <2> DEFINE refs == IF Kind[x] = "thread" THEN Stack(x) ELSE ptr[x]
             held == UNION {ptr[u] : u \in refs \cap Upvals}
             keys == {e[1] : e \in entry[x]}
             vals == {e[2] : e \in entry[x]}
  <2>1. refs \subseteq Live BY <1>1 DEF IInv, LiveClosed
  <2>2. held \subseteq Live BY <2>1 DEF IInv, LiveClosed
  <2>3. keys \subseteq Live /\ vals \subseteq Live BY DEF IInv, LiveClosed
  <2>4. Fields(x) = (refs \cap Values) \cup held \cup keys \cup vals BY Zenon DEF Fields
  <2> HIDE DEF refs, held, keys, vals
  <2> QED BY <1>5, <2>1, <2>2, <2>3, <2>4
<1> QED BY <1>0, <1>3, <1>4, <1>5

THEOREM Initially == Init => IInv
<1> SUFFICES ASSUME Init PROVE IInv
  OBVIOUS
<1>1. Live = {Main, Globals} /\ OpenUps = {}
  BY DEF Init, Live, OpenUps, isdead, OtherWhite
<1>2. TypeOK
  BY DEF Init, TypeOK, Whites, Threads, WeakTabs, Of
<1>3. HeapShape /\ RootsLive /\ LiveClosed BY <1>1 DEF Init, HeapShape, RootsLive, LiveClosed
<1>4. SweepOrder /\ Swept /\ MarkSound /\ OneList
  BY <1>1 DEF Init, SweepOrder, Swept, MarkSound, OneList, Marking, Sweeping
<1>5. OpenNotBlack /\ FinalizedOK
  BY <1>1 DEF Init, OpenNotBlack, FinalizedOK, isdead, OtherWhite
<1> QED BY <1>2, <1>3, <1>4, <1>5 DEF IInv

(* A live object comes on the stack: a new one, an interned string that is taken
   back, or one that a live object refers to. *)
LEMMA PushStep ==
  ASSUME IInv, NEW o \in Objs, Push(o),
         alive' = alive \cup {o},
         mark' \in [Objs -> Colour], \A x \in Objs \ {o} : mark'[x] = mark[x],
         mark'[o] = IF o \in Live THEN mark[o] ELSE white,
         o \in Live \/ o \in Strings \/ o \notin alive,
         UNCHANGED <<entry, openin, running, finalized, lists, cycle>>
  PROVE  IInv'
<1>0. /\ UNCHANGED <<gray, grayagain, weak, gcstate, white, unswept, tmudata, full>>
      /\ UNCHANGED <<entry, openin, running, finalized>>
  BY DEF lists, cycle
<1> USE <1>0
<1>1. OtherWhite' = OtherWhite /\ white # OtherWhite /\ white \in Whites
  BY DEF OtherWhite, Whites, IInv, TypeOK
<1>2. /\ Live' = Live \cup {o} /\ OpenUps' = OpenUps /\ o \in Objs /\ running \in Objs
      /\ Live \subseteq alive /\ alive \subseteq Objs /\ running \in Threads
  BY <1>1 DEF Live, OpenUps, isdead, IInv, TypeOK, Values, Threads, Of
<1>21. o \notin Live => ptr[o] = {} /\ entry[o] = {} /\ o \notin Threads \cap alive
  BY <1>2 DEF IInv, HeapShape, Strings, WeakTabs, Threads, Of
<1>3. TypeOK' BY <1>2 DEF IInv, TypeOK, Push, Colour
<1>4. \A x \in Objs : ptr'[x] = IF x = running THEN ptr[x] \cup {o} ELSE ptr[x]
  BY <1>2 DEF Push, IInv, TypeOK
<1>5. running \in Live /\ running \in alive BY DEF IInv, RootsLive, Live
<1>6. HeapShape'
  BY <1>2, <1>4, <1>5 DEF HeapShape, IInv, Strings, WeakTabs, Threads, Of
<1>7. RootsLive' BY <1>2 DEF RootsLive, IInv
<1>8. running \notin OpenUps BY <1>2 DEF IInv, HeapShape, Threads, Upvals, Of
<1>9. LiveClosed'
  <2>1. \A x \in Live' : ptr'[x] \subseteq Live'
    BY <1>2, <1>21, <1>4, <1>5, ZenonT(30) DEF LiveClosed, IInv
  <2>2. \A x \in Live' : \A e \in entry'[x] : e[1] \in Live' /\ e[2] \in Live'
    BY <1>2, <1>21 DEF LiveClosed, IInv
  <2>3. ASSUME NEW u \in OpenUps, openin[u] \in Live' PROVE ptr'[u] \subseteq Live'
    <3>1. u \in Objs /\ ptr'[u] = ptr[u] BY <1>4, <1>8 DEF OpenUps
    <3>0. openin[u] \in alive BY DEF IInv, HeapShape
    <3>3. openin[u] \in Threads BY <3>1 DEF OpenUps, IInv, TypeOK
    <3>2. openin[u] \in Live BY <1>2, <1>21, <2>3, <3>0, <3>3
    <3> QED BY <1>2, <3>1, <3>2 DEF LiveClosed, IInv
  <2> QED BY <1>2, <2>1, <2>2, <2>3 DEF LiveClosed
<1>10. SweepOrder' BY <1>2 DEF SweepOrder, Sweeping, IInv
<1>11. Swept'
  <2>1. \A x \in alive' : mark'[x] = mark[x] \/ mark'[x] = white
    BY <1>2 DEF IInv, TypeOK
  <2>2. \A x \in alive' : x \in alive \/ mark'[x] = white BY <1>2 DEF Live
  <2> QED BY <2>1, <2>2 DEF Swept, Marking, IInv
<1>12. MarkSound'
  <2> SUFFICES ASSUME Marking PROVE MarkSound'
    BY DEF MarkSound, Marking
  <2>1. MarkedNow' = MarkedNow
    BY <1>1, <1>2 DEF MarkedNow, IInv, Whites, Live, MarkSound
  <2>2. Queued' = Queued BY DEF Queued
  <2>3. \A x \in MarkedNow' \ Threads : ptr'[x] = ptr[x]
    BY <1>2, <1>4, <2>1 DEF MarkedNow
  <2>4. \A x \in alive' : ~isdead(x)'
    BY <1>1, <1>2 DEF isdead, IInv, MarkSound
  <2>5. MarkedNow \subseteq alive BY DEF MarkedNow
  <2>6. \A x \in Queued' : mark'[x] = "gray" /\ Listed(x)
    BY <1>1, <1>2, <2>1, <2>2, <2>5 DEF MarkSound, IInv, Whites, MarkedNow
  <2>7. \A x \in MarkedNow' \ (Queued' \cup OpenUps' \cup tmudata' \cup Strings) :
          mark'[x] = "black" /\ ptr'[x] \subseteq MarkedNow'
    <3>1. \A x \in MarkedNow : mark'[x] = mark[x]
      BY <1>1, <1>2, <2>1 DEF MarkedNow
    <3> QED BY <1>2, <2>1, <2>2, <2>3, <3>1 DEF MarkSound, IInv
  <2> QED BY <1>2, <2>1, <2>2, <2>4, <2>6, <2>7 DEF MarkSound, IInv
<1>13. OneList' BY DEF OneList, Marking, IInv
<1>14. OpenNotBlack' BY <1>1, <1>2 DEF OpenNotBlack, IInv, OpenUps, Whites
<1>15. FinalizedOK' BY <1>1, <1>2 DEF FinalizedOK, isdead, IInv, Live, Udata, Of
<1> QED BY <1>3, <1>6, <1>7, <1>9, <1>10, <1>11, <1>12, <1>13, <1>14, <1>15 DEF IInv

(* The actions that push a value. *)
LEMMA NewStep ==
  ASSUME IInv, NEW o, New(o)
  PROVE  IInv'
<1>1. Push(o) /\ o \in Values /\ o \notin alive /\ alive' = alive \cup {o}
      /\ UNCHANGED <<entry, openin, running, finalized, lists, cycle>>
  BY DEF New
<1>2. mark' = [mark EXCEPT ![o] = white] BY DEF New
<1>3. o \in Objs /\ o \notin Live BY <1>1 DEF Values, Live
<1>4. mark' \in [Objs -> Colour] /\ mark'[o] = white
      /\ \A x \in Objs \ {o} : mark'[x] = mark[x]
  BY <1>2, <1>3 DEF IInv, TypeOK, Colour
<1> QED BY <1>1, <1>3, <1>4, PushStep

LEMMA InternStringStep ==
  ASSUME IInv, NEW s, InternString(s)
  PROVE  IInv'
<1>1. Push(s) /\ s \in Strings \cap alive /\ alive' = alive \cup {s}
      /\ UNCHANGED <<entry, openin, running, finalized, lists, cycle>>
  BY DEF InternString
<1>2. mark' = [mark EXCEPT ![s] = IF isdead(s) THEN white ELSE @] BY DEF InternString
<1>3. s \in Objs BY <1>1 DEF Strings, Of
<1>4. mark' \in [Objs -> Colour]
      /\ mark'[s] = (IF s \in Live THEN mark[s] ELSE white)
      /\ \A x \in Objs \ {s} : mark'[x] = mark[x]
  BY <1>1, <1>2 DEF IInv, TypeOK, Colour, Strings, Of, Live
<1> QED BY <1>1, <1>3, <1>4, PushStep

LEMMA LoadStep ==
  ASSUME IInv, NEW o, Load(o)
  PROVE  IInv'
<1>1. Push(o) /\ o \in UNION {Fields(x) : x \in Local}
      /\ UNCHANGED <<alive, entry, openin, running, mark, finalized, lists, cycle>>
  BY DEF Load
<1>2. o \in Live /\ o \in alive BY <1>1, LocalLive
<1>4. mark' \in [Objs -> Colour] /\ alive' = alive \cup {o}
      /\ \A x \in Objs : mark'[x] = mark[x]
  BY <1>1, <1>2 DEF IInv, TypeOK, Colour
<1> QED BY <1>1, <1>2, <1>4, LocalLive, PushStep

------------------------------------------------------------------------------
(* Writes to the heap *)

(* What all of them have in common; what the barrier does for the marks is a
   hypothesis here and proved below. *)
LEMMA HeapStep ==
  ASSUME IInv, TypeOK',
         UNCHANGED <<alive, finalized, cycle>>,
         \A o \in Objs : openin'[o] # openin[o] =>
           /\ openin'[o] = None
           /\ ~Marking => mark'[o] = white,
         running' \in Live,
         \A o \in Objs : ptr'[o] # ptr[o] =>
           /\ o \in Live /\ o \notin Strings \cup WeakTabs
           /\ ptr'[o] \subseteq ptr[o] \cup Live,
         \A o \in Objs : entry'[o] # entry[o] =>
           /\ o \in Live \cap WeakTabs
           /\ \A e \in entry'[o] : e \in entry[o] \/ (e[1] \in Live /\ e[2] \in Live),
         \A u \in OpenUps : ptr'[u] # ptr[u] => ptr'[u] \subseteq Live,
         \A o \in Objs : mark'[o] # mark[o] =>
           /\ mark'[o] # OtherWhite /\ mark[o] # OtherWhite
           /\ ~Marking => mark[o] # white
           /\ o \in OpenUps' => mark'[o] # "black",
         MarkSound', OneList'
  PROVE  IInv'
<1>0. UNCHANGED <<gcstate, white, unswept, tmudata, full>> BY DEF cycle
<1> USE <1>0
<1>1. TypeOK /\ HeapShape /\ RootsLive /\ LiveClosed /\ SweepOrder /\ Swept
      /\ OpenNotBlack /\ FinalizedOK
  BY DEF IInv
<1>2. OtherWhite' = OtherWhite BY DEF OtherWhite
<1>3. Live \subseteq alive /\ alive \subseteq Objs BY <1>1 DEF Live, TypeOK
<1>4. \A o \in Objs : isdead(o)' <=> isdead(o) BY <1>2 DEF isdead
<1>5. Live' = Live BY <1>3, <1>4 DEF Live
<1>51. OpenUps' \subseteq OpenUps /\ OpenUps \subseteq Objs
       /\ \A u \in OpenUps' : openin'[u] = openin[u]
  BY DEF OpenUps
<1>6. HeapShape'
  BY <1>1, <1>3, <1>51 DEF HeapShape
<1>7. RootsLive' BY <1>1, <1>5 DEF RootsLive
<1>8. LiveClosed'
  <2>1. \A o \in Live : ptr'[o] \subseteq Live BY <1>1, <1>3 DEF LiveClosed
  <2>2. \A o \in Live : \A e \in entry'[o] : e[1] \in Live /\ e[2] \in Live
    BY <1>1, <1>3 DEF LiveClosed
  <2>3. \A u \in OpenUps : openin[u] \in Live => ptr'[u] \subseteq Live
    BY <1>1 DEF LiveClosed, OpenUps
  <2> QED BY <1>5, <1>51, <2>1, <2>2, <2>3 DEF LiveClosed
<1>9. SweepOrder' BY <1>1, <1>51 DEF SweepOrder, Sweeping
<1>10. Swept'
  <2> SUFFICES ASSUME ~Marking, NEW o \in alive
               PROVE  mark'[o] = white \/ o \in tmudata \cup unswept
                        \/ openin'[o] \in unswept
    BY DEF Swept, Marking
  <2>1. o \in Objs BY <1>3
  <2>2. CASE openin'[o] # openin[o] BY <2>1, <2>2
  <2>3. CASE openin'[o] = openin[o] BY <1>1, <2>1, <2>3 DEF Swept
  <2> QED BY <2>2, <2>3
<1>11. OpenNotBlack' BY <1>1, <1>51 DEF OpenNotBlack
<1>12. FinalizedOK' BY <1>1, <1>4 DEF FinalizedOK, Udata, Of
<1> QED BY <1>6, <1>7, <1>8, <1>9, <1>10, <1>11, <1>12 DEF IInv

LEMMA WriteStep ==
  ASSUME IInv, TypeOK',
         UNCHANGED <<alive, openin, finalized, cycle>>,
         running' \in Live,
         \A o \in Objs : ptr'[o] # ptr[o] =>
           /\ o \in Live /\ o \notin Strings \cup WeakTabs
           /\ ptr'[o] \subseteq ptr[o] \cup Live,
         \A o \in Objs : entry'[o] # entry[o] =>
           /\ o \in Live \cap WeakTabs
           /\ \A e \in entry'[o] : e \in entry[o] \/ (e[1] \in Live /\ e[2] \in Live),
         \A u \in OpenUps : ptr'[u] # ptr[u] => ptr'[u] \subseteq Live,
         \A o \in Objs : mark'[o] # mark[o] =>
           /\ mark'[o] # OtherWhite /\ mark[o] # OtherWhite
           /\ ~Marking => mark[o] # white
           /\ o \in OpenUps' => mark'[o] # "black",
         MarkSound', OneList'
  PROVE  IInv'
BY HeapStep, Zenon

(* Without a barrier. *)
LEMMA PlainWrite ==
  ASSUME IInv, UNCHANGED <<alive, openin, mark, lists, finalized, cycle>>,
         Marking => \A o \in Objs : mark[o] = "black" =>
                      o \in Threads \/ ptr'[o] \subseteq ptr[o] \cup MarkedNow
  PROVE  /\ MarkSound' /\ OneList'
         /\ \A o \in Objs : mark'[o] = mark[o]
<1>0. UNCHANGED <<gcstate, white, tmudata, gray, grayagain, weak>> BY DEF cycle, lists
<1> USE <1>0
<1>1. MarkedNow' = MarkedNow /\ Queued' = Queued /\ OpenUps' = OpenUps
  BY DEF MarkedNow, Queued, OpenUps
<1>2. \A o \in alive : isdead(o)' <=> isdead(o) BY DEF isdead, OtherWhite
<1>3. MarkSound'
  <2> SUFFICES ASSUME Marking PROVE MarkSound'
    BY DEF MarkSound, Marking
  <2>1. MarkSound /\ MarkedNow \subseteq Objs BY DEF IInv, MarkedNow, TypeOK
  <2>2. ASSUME NEW o \in MarkedNow \ (Queued \cup OpenUps \cup tmudata \cup Strings)
        PROVE  mark'[o] = "black" /\ ptr'[o] \subseteq MarkedNow
    <3>1. mark[o] = "black" /\ ptr[o] \subseteq MarkedNow BY <2>1, <2>2 DEF MarkSound
    <3>2. o \in Objs /\ o \notin Threads
      BY <2>1, <2>2 DEF MarkSound
    <3> QED BY <3>1, <3>2
  <2> QED BY <1>1, <1>2, <2>1, <2>2 DEF MarkSound
<1>4. OneList' BY DEF OneList, Marking, IInv
<1> QED BY <1>3, <1>4

LEMMA PopStep ==
  ASSUME IInv, NEW o, Pop(o)
  PROVE  IInv'
<1>1. /\ o \in ptr[running] /\ ptr' = [ptr EXCEPT ![running] = @ \ {o}]
      /\ UNCHANGED <<alive, entry, openin, running, mark, finalized, lists, cycle>>
  BY DEF Pop
<1>2. running \in Objs /\ running \in Threads /\ running \in Live
  BY DEF IInv, TypeOK, Threads, Of, RootsLive
<1>3. \A x \in Objs : ptr'[x] = IF x = running THEN ptr[x] \ {o} ELSE ptr[x]
  BY <1>1, <1>2 DEF IInv, TypeOK
<1>4. TypeOK' BY <1>1, <1>2 DEF IInv, TypeOK, lists, cycle
<1>6. MarkSound' /\ OneList' BY <1>1, <1>3, <1>4, PlainWrite
<1>7. running \notin Strings \cup WeakTabs BY <1>2 DEF Strings, WeakTabs, Threads, Of
<1>8. running \notin OpenUps BY <1>2 DEF IInv, HeapShape, Threads, Upvals, Of
<1> QED BY <1>1, <1>2, <1>3, <1>4, <1>6, <1>7, <1>8, WriteStep

LEMMA SwitchStep ==
  ASSUME IInv, NEW th, NEW X, Switch(th, X)
  PROVE  IInv'
<1>1. /\ th \in (Local \cup {Main}) \cap Threads /\ X \subseteq ptr[running]
      /\ running' = th /\ ptr' = [ptr EXCEPT ![th] = @ \cup X]
      /\ UNCHANGED <<alive, entry, openin, mark, finalized, lists, cycle>>
  BY DEF Switch
<1>2. th \in Live /\ X \subseteq Live
  BY <1>1, LocalLive DEF IInv, RootsLive, LiveClosed
<1>3. th \in Objs /\ X \subseteq Objs BY <1>2 DEF Live, IInv, TypeOK
<1>4. \A x \in Objs : ptr'[x] = IF x = th THEN ptr[x] \cup X ELSE ptr[x]
  BY <1>1, <1>3 DEF IInv, TypeOK
<1>5. TypeOK' BY <1>1, <1>3 DEF IInv, TypeOK, lists, cycle
<1>6. MarkSound' /\ OneList' BY <1>1, <1>4, <1>5, PlainWrite
<1>7. th \notin Strings \cup WeakTabs BY <1>1 DEF Strings, WeakTabs, Threads, Of
<1>8. th \notin OpenUps BY <1>1 DEF IInv, HeapShape, Threads, Upvals, Of
<1>9. running' \in Live BY <1>1, <1>2
<1> QED BY <1>1, <1>2, <1>4, <1>5, <1>6, <1>7, <1>8, <1>9, WriteStep

LEMMA ClearStep ==
  ASSUME IInv, NEW o, NEW x, Clear(o, x)
  PROVE  IInv'
<1>1. /\ o \in Local \ Threads /\ x \in ptr[o]
      /\ ptr' = [ptr EXCEPT ![o] = @ \ {x}]
      /\ UNCHANGED <<alive, entry, openin, running, mark, finalized, lists, cycle>>
  BY DEF Clear
<1>2. o \in Live /\ o \in Objs BY <1>1, LocalLive
<1>3. \A y \in Objs : ptr'[y] = IF y = o THEN ptr[y] \ {x} ELSE ptr[y]
  BY <1>1, <1>2 DEF IInv, TypeOK
<1>4. TypeOK' BY <1>1, <1>2 DEF IInv, TypeOK, lists, cycle
<1>5. MarkSound' /\ OneList' BY <1>1, <1>3, <1>4, PlainWrite
<1>6. o \notin Strings \cup WeakTabs BY <1>1, <1>2 DEF IInv, HeapShape
<1>7. running' \in Live BY <1>1 DEF IInv, RootsLive
<1>8. \A u \in OpenUps : ptr'[u] # ptr[u] => ptr'[u] \subseteq Live
  BY <1>2, <1>3 DEF IInv, LiveClosed, OpenUps
<1> QED BY <1>1, <1>2, <1>3, <1>4, <1>5, <1>6, <1>7, <1>8, WriteStep

LEMMA ClearWeakStep ==
  ASSUME IInv, NEW t, NEW e, ClearWeak(t, e)
  PROVE  IInv'
<1>1. /\ t \in Local \cap WeakTabs
      /\ entry' = [entry EXCEPT ![t] = @ \ {e}]
      /\ UNCHANGED <<alive, ptr, openin, running, mark, finalized, lists, cycle>>
  BY DEF ClearWeak
<1>2. t \in Live /\ t \in Objs BY <1>1, LocalLive
<1>3. \A y \in Objs : entry'[y] = IF y = t THEN entry[y] \ {e} ELSE entry[y]
  BY <1>1, <1>2 DEF IInv, TypeOK
<1>4. TypeOK' BY <1>1, <1>2 DEF IInv, TypeOK, lists, cycle
<1>5. MarkSound' /\ OneList' BY <1>1, <1>4, PlainWrite
<1>6. running' \in Live BY <1>1 DEF IInv, RootsLive
<1> QED BY <1>1, <1>2, <1>3, <1>4, <1>5, <1>6, WriteStep

ColoursKept ==
  /\ mark' \in [Objs -> Colour] /\ gray' \subseteq Objs /\ grayagain' \subseteq Objs
  /\ weak' \subseteq WeakTabs
  /\ \A o \in Objs : mark'[o] # mark[o] =>
       /\ mark'[o] # OtherWhite /\ mark[o] # OtherWhite
       /\ ~Marking => mark[o] # white
       /\ o \in OpenUps' => mark'[o] # "black"
  /\ MarkSound' /\ OneList'

LEMMA PlainColours ==
  ASSUME IInv, UNCHANGED <<alive, openin, mark, lists, finalized, cycle>>,
         Marking => \A o \in Objs : mark[o] = "black" =>
                      o \in Threads \/ ptr'[o] \subseteq ptr[o] \cup MarkedNow
  PROVE  ColoursKept
BY PlainWrite DEF ColoursKept, IInv, TypeOK, lists, Colour

(* With the barrier for tables. *)
LEMMA BackBarrierWrite ==
  ASSUME IInv, NEW t \in Live, NEW X \in SUBSET Live, BackBarrier(t, X),
         UNCHANGED <<alive, openin, finalized, cycle>>,
         t \notin OpenUps, Listed(t),
         \A o \in Objs : ptr'[o] \subseteq ptr[o] \/ (o = t /\ ptr'[o] \subseteq ptr[o] \cup X)
  PROVE  ColoursKept
<1>0. UNCHANGED <<gcstate, white, tmudata>> BY DEF cycle
<1>1. Live \subseteq alive /\ alive \subseteq Objs BY DEF Live, IInv, TypeOK
<1>2. CASE mark[t] = "black" /\ \E x \in X : mark[x] \in Whites
  <2>1. /\ mark' = [mark EXCEPT ![t] = "gray"] /\ grayagain' = grayagain \cup {t}
        /\ gray' = gray /\ weak' = weak
    BY <1>2 DEF BackBarrier
  <2>2. t \in Objs BY <1>1
  <2>3. \A o \in Objs : mark'[o] = IF o = t THEN "gray" ELSE mark[o]
    BY <2>1, <2>2 DEF IInv, TypeOK
  <2>4. mark' \in [Objs -> Colour] BY <2>1 DEF IInv, TypeOK, Colour
  <2>5. OtherWhite \in Whites /\ white \in Whites BY DEF OtherWhite, Whites, IInv, TypeOK
  <2>6. MarkSound' /\ OneList'
    <3> SUFFICES ASSUME Marking PROVE MarkSound' /\ OneList'
      BY <1>0 DEF MarkSound, OneList, Marking
    <3>1. MarkSound /\ OneList BY DEF IInv
    <3>2. MarkedNow' = MarkedNow /\ MarkedNow \subseteq Objs /\ t \in MarkedNow
      BY <1>1, <1>2, <2>3 DEF MarkedNow, Whites
    <3>3. Queued' = Queued \cup {t} /\ t \notin Queued
      BY <1>2, <2>1, <3>1 DEF Queued, MarkSound
    <3>4. \A o \in alive : ~isdead(o)'
      BY <1>0, <1>1, <2>3, <2>5, <3>1 DEF MarkSound, isdead, OtherWhite, Whites
    <3>5. \A o \in Queued' : mark'[o] = "gray" /\ Listed(o)
      BY <1>1, <2>2, <2>3, <3>1, <3>3 DEF MarkSound
    <3>6. \A o \in MarkedNow' \ (Queued' \cup OpenUps' \cup tmudata' \cup Strings) :
            mark'[o] = "black" /\ ptr'[o] \subseteq MarkedNow'
      BY <1>0, <2>3, <3>1, <3>2, <3>3 DEF MarkSound, OpenUps
    <3>7. MarkSound' BY <1>1, <3>1, <3>2, <3>3, <3>4, <3>5, <3>6 DEF MarkSound
    <3>8. OneList' BY <2>1, <3>1, <3>3 DEF OneList, Queued
    <3> QED BY <3>7, <3>8
  <2> QED BY <1>2, <2>1, <2>2, <2>3, <2>4, <2>5, <2>6 DEF ColoursKept, IInv, TypeOK, Whites
<1>3. CASE ~(mark[t] = "black" /\ \E x \in X : mark[x] \in Whites)
  <2>1. UNCHANGED <<mark, lists>> BY <1>3 DEF BackBarrier
  <2>2. \A o \in Objs : mark[o] = "black" => ptr'[o] \subseteq ptr[o] \cup MarkedNow
    BY <1>1, <1>3 DEF MarkedNow
  <2> QED BY <2>1, <2>2, PlainColours
<1> QED BY <1>2, <1>3

LEMMA SetTableStep ==
  ASSUME IInv, NEW t, NEW x, SetTable(t, x)
  PROVE  IInv'
<1>1. /\ t \in Local /\ Kind[t] = "table" /\ x \in Operands
      /\ ptr' = [ptr EXCEPT ![t] = @ \cup {x}] /\ BackBarrier(t, {x})
      /\ UNCHANGED <<alive, entry, openin, running, finalized, cycle>>
  BY DEF SetTable
<1>2. t \in Live /\ t \in Objs /\ x \in Live /\ x \in Objs BY <1>1, LocalLive
<1>3. \A y \in Objs : ptr'[y] = IF y = t THEN ptr[y] \cup {x} ELSE ptr[y]
  BY <1>1, <1>2 DEF IInv, TypeOK
<1>4. t \notin OpenUps /\ Listed(t) BY <1>1 DEF IInv, HeapShape, Upvals, Of, Listed
<1>5. ColoursKept BY <1>1, <1>2, <1>3, <1>4, BackBarrierWrite
<1>6. TypeOK' BY <1>1, <1>2, <1>5 DEF IInv, TypeOK, cycle, ColoursKept, Colour
<1>7. t \notin Strings \cup WeakTabs BY <1>1 DEF Strings, WeakTabs, Of
<1>8. running' \in Live BY <1>1 DEF IInv, RootsLive
<1>9. OpenUps' = OpenUps BY <1>1 DEF OpenUps
<1> QED BY <1>1, <1>2, <1>3, <1>4, <1>5, <1>6, <1>7, <1>8, <1>9, WriteStep DEF ColoursKept

LEMMA SetWeakStep ==
  ASSUME IInv, NEW t, NEW k, NEW v, SetWeak(t, k, v)
  PROVE  IInv'
<1>1. /\ t \in Local \cap WeakTabs /\ {k, v} \subseteq Operands
      /\ entry' = [entry EXCEPT ![t] = {e \in @ : e[1] # k} \cup {<<k, v>>}]
      /\ BackBarrier(t, {k, v})
      /\ UNCHANGED <<alive, ptr, openin, running, finalized, cycle>>
  BY DEF SetWeak
<1>2. t \in Live /\ t \in Objs /\ {k, v} \subseteq Live /\ {k, v} \subseteq Values
  BY <1>1, LocalLive
<1>3. \A y \in Objs : entry'[y] = IF y = t THEN {e \in entry[y] : e[1] # k} \cup {<<k, v>>}
                                  ELSE entry[y]
  BY <1>1, <1>2 DEF IInv, TypeOK
<1>4. t \notin OpenUps /\ Listed(t)
  BY <1>1 DEF IInv, HeapShape, WeakTabs, Upvals, Of, Listed
<1>5. ColoursKept BY <1>1, <1>2, <1>4, BackBarrierWrite
<1>6. TypeOK'
  <2>1. entry' \in [Objs -> SUBSET (Values \X Values)]
    BY <1>1, <1>2 DEF IInv, TypeOK
  <2> QED BY <1>1, <1>2, <1>5, <2>1 DEF IInv, TypeOK, cycle, ColoursKept, Colour
<1>7. running' \in Live BY <1>1 DEF IInv, RootsLive
<1>8. \A e \in entry'[t] : e \in entry[t] \/ (e[1] \in Live /\ e[2] \in Live)
  <2> SUFFICES ASSUME NEW e \in entry'[t], e \notin entry[t]
               PROVE  e[1] \in Live /\ e[2] \in Live
    OBVIOUS
  <2>1. e = <<k, v>> BY <1>2, <1>3
  <2>2. e[1] = k /\ e[2] = v BY <2>1
  <2> QED BY <1>2, <2>2
<1>9. OpenUps' = OpenUps BY <1>1 DEF OpenUps
<1> QED BY <1>1, <1>2, <1>3, <1>5, <1>6, <1>7, <1>8, <1>9, WriteStep DEF ColoursKept

(* reallymarkobject on the state; m has the colours of the state, perhaps with a
   gray object turned black. *)
LEMMA Reallymark ==
  ASSUME IInv, NEW m \in MarkRecord, NEW X, Become(reallymarkobject(m, X)), alive' = alive,
         m.gray = gray, m.grayagain = grayagain, m.weak = weak,
         NonWhite(m) = MarkedNow
  PROVE  LET new == MarkedNow' \ MarkedNow IN
           /\ mark' \in [Objs -> Colour] /\ gray' \subseteq Objs
           /\ grayagain' = grayagain /\ weak' = weak
           /\ gray' = gray \cup {o \in new : Listed(o)}
           /\ MarkedNow \subseteq MarkedNow' /\ X \cap alive \subseteq MarkedNow'
           /\ \A o \in Objs \ new : mark'[o] = m.mark[o]
           /\ \A o \in new : /\ mark'[o] = Marked(o)
                             /\ Immediate(o) \cap alive \subseteq MarkedNow'
<1> DEFINE r == reallymarkobject(m, X)
<1>1. /\ r \in MarkRecord
      /\ r.grayagain = m.grayagain /\ r.weak = m.weak
      /\ r.gray = m.gray \cup {o \in NonWhite(r) \ NonWhite(m) : Listed(o)}
      /\ NonWhite(m) \subseteq NonWhite(r) /\ X \cap alive \subseteq NonWhite(r)
      /\ \A o \in Objs \ (NonWhite(r) \ NonWhite(m)) : r.mark[o] = m.mark[o]
      /\ \A o \in NonWhite(r) \ NonWhite(m) :
           /\ r.mark[o] = Marked(o)
           /\ Immediate(o) \cap alive \subseteq NonWhite(r)
  BY MarkObjects DEF IInv, TypeOK
<1>2. mark' = r.mark /\ gray' = r.gray /\ grayagain' = r.grayagain /\ weak' = r.weak
  BY DEF Become
<1> HIDE DEF r
<1>3. MarkedNow' = NonWhite(r) BY <1>2 DEF MarkedNow, NonWhite
<1> QED BY <1>1, <1>2, <1>3 DEF MarkRecord

(* What marking at a barrier does for the invariant. *)
LEMMA MarkAtBarrier ==
  ASSUME IInv, Marking, NEW m \in MarkRecord, NEW X, Become(reallymarkobject(m, X)),
         UNCHANGED <<alive, cycle>>,
         m.gray = gray, m.grayagain = grayagain, m.weak = weak,
         NonWhite(m) = MarkedNow,
         \A o \in Objs : m.mark[o] # mark[o] =>
           m.mark[o] = "black" /\ o \in MarkedNow \ (Queued \cup OpenUps'),
         OpenUps' \subseteq OpenUps, OpenUps \ OpenUps' \subseteq MarkedNow,
         \A o \in MarkedNow \ (Queued \cup OpenUps' \cup tmudata \cup Strings) :
           m.mark[o] = "black" /\ ptr'[o] \subseteq MarkedNow \cup X,
         \A o \in Objs : ptr'[o] # ptr[o] => o \in MarkedNow,
         \A o \in Objs : ptr'[o] \subseteq alive
  PROVE  ColoursKept
<1>0. UNCHANGED <<gcstate, white, tmudata>> BY DEF cycle
<1> DEFINE new == MarkedNow' \ MarkedNow
<1>1. /\ mark' \in [Objs -> Colour] /\ gray' \subseteq Objs
      /\ grayagain' = grayagain /\ weak' = weak
      /\ gray' = gray \cup {o \in new : Listed(o)}
      /\ MarkedNow \subseteq MarkedNow' /\ X \cap alive \subseteq MarkedNow'
      /\ \A o \in Objs \ new : mark'[o] = m.mark[o]
      /\ \A o \in new : /\ mark'[o] = Marked(o)
                        /\ Immediate(o) \cap alive \subseteq MarkedNow'
  BY Reallymark
<1>2. MarkSound /\ OneList /\ OpenNotBlack BY DEF IInv
<1>3. MarkedNow' \subseteq alive /\ new \subseteq alive /\ alive \subseteq Objs
      /\ \A o \in new : mark[o] \in Whites
  BY DEF MarkedNow, IInv, TypeOK
<1>4. new \cap Queued = {}
  BY <1>2, <1>3 DEF MarkSound, Whites
<1> HIDE DEF new
<1>5. Queued' = Queued \cup {o \in new : Listed(o)} BY <1>1 DEF Queued
<1>6. \A o \in Objs : Marked(o) \in {"gray", "black"} BY DEF Marked
<1>7. OtherWhite' = OtherWhite /\ OtherWhite \in Whites BY <1>0 DEF OtherWhite, Whites
<1>8. \A o \in alive : mark[o] # OtherWhite /\ mark'[o] # OtherWhite
  BY <1>1, <1>2, <1>3, <1>6, <1>7 DEF MarkSound, isdead, Whites
<1>9. \A o \in Queued' : mark'[o] = "gray" /\ Listed(o)
  <2>1. \A o \in new : Listed(o) => Marked(o) = "gray" BY <1>3 DEF Listed, Marked
  <2>2. \A o \in Queued : o \notin new /\ o \in Objs /\ m.mark[o] = mark[o]
    BY <1>2, <1>3, <1>4 DEF MarkSound
  <2> QED BY <1>1, <1>2, <1>5, <2>1, <2>2 DEF MarkSound
<1>10. \A o \in MarkedNow' \ Queued' : o \notin Threads \cup WeakTabs
  <2>1. \A o \in Threads \cup WeakTabs : Listed(o) BY DEF Listed, Threads, WeakTabs, Of
  <2> QED BY <1>2, <1>5, <2>1 DEF MarkSound, new
<1>11. ASSUME NEW o \in MarkedNow' \ (Queued' \cup OpenUps' \cup tmudata \cup Strings)
       PROVE  mark'[o] = "black" /\ ptr'[o] \subseteq MarkedNow'
  <2>1. CASE o \in MarkedNow
    <3>1. o \notin new /\ o \in Objs BY <2>1, <1>3, <1>11 DEF new
    <3>2. m.mark[o] = "black" /\ ptr'[o] \subseteq MarkedNow \cup X
      BY <1>5, <1>11, <2>1
    <3> QED BY <1>1, <1>3, <3>1, <3>2
  <2>2. CASE o \notin MarkedNow
    <3>1. o \in new /\ ~Listed(o) /\ o \in Objs BY <2>2, <1>3, <1>5, <1>11 DEF new
    <3>2. Kind[o] \in {"udata", "upval"} BY <3>1, <1>11 DEF Listed, Strings, Of
    <3>3. Immediate(o) = ptr[o] /\ ptr'[o] = ptr[o] BY <2>2, <3>1, <3>2 DEF Immediate
    <3>4. o \notin OpenUps BY <1>11, <2>2
    <3>5. Marked(o) = "black" BY <3>1, <3>2, <3>4 DEF Marked, OpenUps
    <3> QED BY <1>1, <3>1, <3>3, <3>5
  <2> QED BY <2>1, <2>2
<1>12. \A o \in OpenUps' : mark'[o] # "black"
  <2> SUFFICES ASSUME NEW o \in OpenUps' PROVE mark'[o] # "black"
    OBVIOUS
  <2>1. o \in OpenUps /\ o \in Objs /\ Kind[o] = "upval" /\ openin[o] # None
    BY DEF IInv, HeapShape, OpenUps, Upvals, Of
  <2>2. Marked(o) = "gray" BY <2>1 DEF Marked
  <2> QED BY <1>1, <1>2, <2>1, <2>2 DEF OpenNotBlack
<1>13. MarkSound'
  <2> USE <1>0
  <2>1. Queued' \subseteq alive' BY <1>2, <1>3, <1>5 DEF MarkSound
  <2>2. {Main, Globals} \subseteq MarkedNow' BY <1>1, <1>2 DEF MarkSound
  <2>3. \A o \in alive' : ~isdead(o)' BY <1>7, <1>8 DEF isdead
  <2> QED BY <1>9, <1>10, <1>11, <2>1, <2>2, <2>3 DEF MarkSound
<1>14. OneList' BY <1>1, <1>2, <1>4 DEF OneList, Queued
<1>15. ASSUME NEW o \in Objs, mark'[o] # mark[o]
       PROVE  mark'[o] # OtherWhite /\ mark[o] # OtherWhite
  <2>1. o \in alive BY <1>1, <1>3, <1>15
  <2> QED BY <1>8, <2>1
<1> QED BY <1>1, <1>12, <1>13, <1>14, <1>15 DEF ColoursKept, IInv, TypeOK

LEMMA MarksRecord ==
  ASSUME IInv
  PROVE  /\ Marks \in MarkRecord /\ NonWhite(Marks) = MarkedNow
         /\ Marks.mark = mark /\ Marks.gray = gray
         /\ Marks.grayagain = grayagain /\ Marks.weak = weak
BY DEF IInv, TypeOK, Marks, MarkRecord, Colour, NonWhite, MarkedNow

(* With the barrier for the other objects. *)
LEMMA ForwardBarrierWrite ==
  ASSUME IInv, NEW o \in Live, NEW x \in Live, ForwardBarrier(o, x),
         UNCHANGED <<alive, openin, finalized, cycle>>,
         \A y \in Objs : ptr'[y] \subseteq ptr[y] \/ (y = o /\ ptr'[y] \subseteq ptr[y] \cup {x}),
         \A y \in Objs : ptr'[y] # ptr[y] => y = o
  PROVE  ColoursKept
<1>0. UNCHANGED <<gcstate, white, tmudata>> BY DEF cycle
<1>1. Live \subseteq alive /\ alive \subseteq Objs BY DEF Live, IInv, TypeOK
<1>2. CASE ~Blocks(o, x)
  <2>1. UNCHANGED <<mark, lists>> BY <1>2 DEF ForwardBarrier
  <2>2. \A y \in Objs : mark[y] = "black" => ptr'[y] \subseteq ptr[y] \cup MarkedNow
    BY <1>1, <1>2 DEF MarkedNow, Blocks
  <2> QED BY <2>1, <2>2, PlainColours
<1>3. CASE Blocks(o, x) /\ Marking
  <2>1. Become(reallymarkobject(Marks, {x})) BY <1>3 DEF ForwardBarrier, Marking
  <2>2. OpenUps' = OpenUps BY DEF OpenUps
  <2>3. o \in MarkedNow BY <1>1, <1>3 DEF Blocks, MarkedNow, Whites
  <2>4. MarkSound BY DEF IInv
  <2>5. \A y \in MarkedNow \ (Queued \cup OpenUps' \cup tmudata \cup Strings) :
          Marks.mark[y] = "black" /\ ptr'[y] \subseteq MarkedNow \cup {x}
    <3> SUFFICES ASSUME NEW y \in MarkedNow \ (Queued \cup OpenUps \cup tmudata \cup Strings)
                 PROVE  mark[y] = "black" /\ ptr'[y] \subseteq MarkedNow \cup {x}
      BY <2>2, MarksRecord
    <3>1. mark[y] = "black" /\ ptr[y] \subseteq MarkedNow BY <1>3, <2>4 DEF MarkSound
    <3>2. y \in Objs BY <1>1 DEF MarkedNow
    <3> QED BY <3>1, <3>2
  <2>6. \A y \in Objs : ptr'[y] \subseteq alive
    <3>1. Live = alive BY <1>3, <2>4 DEF MarkSound, Live
    <3>2. \A y \in Objs : ptr[y] \subseteq alive
      BY <3>1 DEF IInv, HeapShape, LiveClosed
    <3> QED BY <1>1, <3>2
  <2>7. \A y \in Objs : ptr'[y] # ptr[y] => y \in MarkedNow BY <2>3
  <2>8. /\ Marks \in MarkRecord /\ NonWhite(Marks) = MarkedNow
        /\ \A y \in Objs : Marks.mark[y] = mark[y]
        /\ Marks.gray = gray /\ Marks.grayagain = grayagain /\ Marks.weak = weak
    BY MarksRecord
  <2> QED BY <1>3, <2>1, <2>2, <2>5, <2>6, <2>7, <2>8, MarkAtBarrier
<1>4. CASE Blocks(o, x) /\ ~Marking
  <2>1. Become(makewhite(Marks, {o})) BY <1>4 DEF ForwardBarrier, Marking
  <2>2. /\ mark' = [y \in Objs |-> IF y \in {o} THEN white ELSE mark[y]]
        /\ UNCHANGED lists
    BY <2>1 DEF Become, makewhite, Marks, lists
  <2>3. /\ mark[o] = "black" /\ white # OtherWhite /\ white \in Whites
        /\ OtherWhite \in Whites /\ white # "black"
    BY <1>4 DEF Blocks, OtherWhite, Whites, IInv, TypeOK
  <2>4. MarkSound' /\ OneList' BY <1>0, <1>4 DEF MarkSound, OneList, Marking
  <2>5. "black" \notin Whites BY DEF Whites
  <2> QED BY <1>1, <2>2, <2>3, <2>4, <2>5 DEF ColoursKept, IInv, TypeOK, lists, Colour
<1> QED BY <1>2, <1>3, <1>4

LEMMA SetFieldStep ==
  ASSUME IInv, NEW o, NEW x, SetField(o, x)
  PROVE  IInv'
<1>1. /\ o \in Local /\ Kind[o] \in {"closure", "udata"} /\ x \in Operands
      /\ ptr' = [ptr EXCEPT ![o] = @ \cup {x}] /\ ForwardBarrier(o, x)
      /\ UNCHANGED <<alive, entry, openin, running, finalized, cycle>>
  BY DEF SetField
<1>2. o \in Live /\ o \in Objs /\ x \in Live /\ x \in Objs BY <1>1, LocalLive
<1>3. \A y \in Objs : ptr'[y] = IF y = o THEN ptr[y] \cup {x} ELSE ptr[y]
  BY <1>1, <1>2 DEF IInv, TypeOK
<1>4. o \notin OpenUps BY <1>1 DEF IInv, HeapShape, Upvals, Of
<1>5. ColoursKept BY <1>1, <1>2, <1>3, ForwardBarrierWrite
<1>6. TypeOK' BY <1>1, <1>2, <1>5 DEF IInv, TypeOK, cycle, ColoursKept, Colour
<1>7. o \notin Strings \cup WeakTabs BY <1>1 DEF Strings, WeakTabs, Of
<1>8. running' \in Live BY <1>1 DEF IInv, RootsLive
<1>9. OpenUps' = OpenUps BY <1>1 DEF OpenUps
<1> QED BY <1>1, <1>2, <1>3, <1>4, <1>5, <1>6, <1>7, <1>8, <1>9, WriteStep DEF ColoursKept

LEMMA SetUpvalStep ==
  ASSUME IInv, NEW c, NEW u, NEW x, SetUpval(c, u, x)
  PROVE  IInv'
<1>1. /\ c \in Local /\ u \in ptr[c] \cap Upvals /\ x \in Operands
      /\ ptr' = [ptr EXCEPT ![u] = {x}] /\ ForwardBarrier(u, x)
      /\ UNCHANGED <<alive, entry, openin, running, finalized, cycle>>
  BY DEF SetUpval
<1>2. u \in Live /\ u \in Objs /\ x \in Live /\ x \in Objs
  BY <1>1, LocalLive DEF IInv, LiveClosed
<1>3. \A y \in Objs : ptr'[y] = IF y = u THEN {x} ELSE ptr[y]
  BY <1>1, <1>2 DEF IInv, TypeOK
<1>5. ColoursKept BY <1>1, <1>2, <1>3, ForwardBarrierWrite
<1>6. TypeOK' BY <1>1, <1>2, <1>5 DEF IInv, TypeOK, cycle, ColoursKept, Colour
<1>7. u \notin Strings \cup WeakTabs BY <1>1 DEF Strings, WeakTabs, Upvals, Of
<1>8. running' \in Live BY <1>1 DEF IInv, RootsLive
<1>9. OpenUps' = OpenUps BY <1>1 DEF OpenUps
<1> QED BY <1>1, <1>2, <1>3, <1>5, <1>6, <1>7, <1>8, <1>9, WriteStep DEF ColoursKept

(* Closing a live upvalue. *)
LEMMA LinkUpval ==
  ASSUME IInv, NEW u \in OpenUps \cap Live, luaC_linkupval(u),
         openin' = [openin EXCEPT ![u] = None],
         UNCHANGED <<alive, ptr, finalized, cycle>>
  PROVE  ColoursKept /\ (~Marking => mark'[u] = white)
<1>0. UNCHANGED <<gcstate, white, tmudata>> BY DEF cycle
<1>1. Live \subseteq alive /\ alive \subseteq Objs /\ u \in Objs /\ u \in alive
  BY DEF Live, IInv, TypeOK
<1>2. /\ OpenUps' = OpenUps \ {u} /\ u \in Upvals /\ openin[u] # None
      /\ OpenUps \subseteq Objs
  BY <1>1 DEF OpenUps, IInv, TypeOK, HeapShape
<1>3. MarkSound /\ OneList /\ OpenNotBlack BY DEF IInv
<1>4. ~Listed(u) /\ u \notin Strings \cup Threads \cup WeakTabs \cup Udata
  BY <1>2 DEF Listed, Upvals, Strings, Threads, WeakTabs, Udata, Of
<1>5. mark[u] \in Whites \cup {"gray"} /\ mark[u] # OtherWhite
  BY <1>1, <1>3 DEF IInv, TypeOK, OpenNotBlack, Live, isdead
<1>6. u \notin tmudata BY <1>4 DEF IInv, TypeOK
<1>7. CASE mark[u] # "gray"
  <2>1. UNCHANGED <<mark, lists>> BY <1>7 DEF luaC_linkupval
  <2>2. mark[u] = white BY <1>5, <1>7 DEF Whites, OtherWhite, IInv, TypeOK
  <2>3. u \notin MarkedNow BY <1>5, <1>7 DEF MarkedNow
  <2>4. MarkedNow' = MarkedNow /\ Queued' = Queued
    BY <2>1 DEF MarkedNow, Queued, lists
  <2>5. \A o \in alive : isdead(o)' <=> isdead(o) BY <1>0, <2>1 DEF isdead, OtherWhite
  <2>6. MarkSound'
    BY <1>0, <1>2, <1>3, <2>1, <2>3, <2>4, <2>5 DEF MarkSound, Marking
  <2>7. OneList' BY <1>0, <1>3, <2>1 DEF OneList, Marking, lists
  <2>8. \A o \in OpenUps' : mark'[o] # "black" BY <1>2, <1>3, <2>1 DEF OpenNotBlack
  <2> QED BY <2>1, <2>2, <2>6, <2>7, <2>8 DEF ColoursKept, IInv, TypeOK, lists, Colour
<1>8. CASE mark[u] = "gray" /\ Marking
  <2> DEFINE m == [Marks EXCEPT !.mark[u] = "black"]
  <2>1. Become(reallymarkobject(m, ptr[u]))
    BY <1>8, Zenon DEF luaC_linkupval, Marking
  <2>2. /\ Marks \in MarkRecord /\ NonWhite(Marks) = MarkedNow
        /\ Marks.mark = mark /\ Marks.gray = gray
        /\ Marks.grayagain = grayagain /\ Marks.weak = weak
    BY MarksRecord
  <2>0. m = [Marks EXCEPT !.mark[u] = "black"] OBVIOUS
  <2> HIDE DEF m
  <2>3. /\ m.gray = gray /\ m.grayagain = grayagain /\ m.weak = weak
        /\ m.mark = [mark EXCEPT ![u] = "black"]
    BY <2>0, <2>2 DEF MarkRecord
  <2>31. m \in MarkRecord
    BY <1>1, <2>0, <2>2 DEF MarkRecord, Colour
  <2>4. \A o \in Objs : m.mark[o] = IF o = u THEN "black" ELSE mark[o]
    BY <1>1, <2>3 DEF IInv, TypeOK
  <2>5. NonWhite(m) = MarkedNow /\ u \in MarkedNow
    BY <1>1, <1>8, <2>4 DEF NonWhite, MarkedNow, Whites
  <2>6. u \notin Queued BY <1>3, <1>4, <1>8 DEF MarkSound
  <2>7. \A o \in Objs : m.mark[o] # mark[o] =>
          m.mark[o] = "black" /\ o \in MarkedNow \ (Queued \cup OpenUps')
    BY <1>2, <2>4, <2>5, <2>6
  <2>8. \A o \in MarkedNow \ (Queued \cup OpenUps' \cup tmudata \cup Strings) :
          m.mark[o] = "black" /\ ptr'[o] \subseteq MarkedNow \cup ptr[u]
    <3> SUFFICES ASSUME NEW o \in MarkedNow \ (Queued \cup OpenUps' \cup tmudata \cup Strings)
                 PROVE  m.mark[o] = "black" /\ ptr[o] \subseteq MarkedNow \cup ptr[u]
      OBVIOUS
    <3>1. o \in Objs BY <1>1 DEF MarkedNow
    <3>2. CASE o = u BY <2>4, <3>1, <3>2
    <3>3. CASE o # u
      <4>1. o \notin OpenUps BY <1>2, <3>3
      <4>2. mark[o] = "black" /\ ptr[o] \subseteq MarkedNow
        BY <1>3, <1>8, <4>1 DEF MarkSound
      <4> QED BY <2>4, <3>1, <3>3, <4>2
    <3> QED BY <3>2, <3>3
  <2>9. \A o \in Objs : ptr'[o] \subseteq alive
    <3>1. Live = alive BY <1>3, <1>8 DEF MarkSound, Live
    <3> QED BY <3>1 DEF IInv, HeapShape, LiveClosed
  <2>10. /\ OpenUps' \subseteq OpenUps /\ OpenUps \ OpenUps' \subseteq MarkedNow
         /\ \A o \in Objs : ptr'[o] # ptr[o] => o \in MarkedNow
    BY <1>2, <2>5
  <2>11. ColoursKept
    BY <1>8, <2>1, <2>3, <2>31, <2>5, <2>7, <2>8, <2>9, <2>10, MarkAtBarrier
  <2> QED BY <1>8, <2>11
<1>9. CASE mark[u] = "gray" /\ ~Marking
  <2>1. Become(makewhite(Marks, {u})) BY <1>9 DEF luaC_linkupval, Marking
  <2>2. /\ mark' = [y \in Objs |-> IF y \in {u} THEN white ELSE mark[y]]
        /\ UNCHANGED lists
    BY <2>1 DEF Become, makewhite, Marks, lists
  <2>3. white # OtherWhite /\ white \in Whites /\ OtherWhite \in Whites /\ white # "gray"
    BY DEF OtherWhite, Whites, IInv, TypeOK
  <2>4. MarkSound' /\ OneList' BY <1>0, <1>9 DEF MarkSound, OneList, Marking
  <2>5. \A o \in OpenUps' : mark'[o] # "black"
    BY <1>2, <1>3, <2>2 DEF OpenNotBlack
  <2> QED BY <1>1, <1>9, <2>2, <2>3, <2>4, <2>5
          DEF ColoursKept, IInv, TypeOK, lists, Colour, Whites
<1> QED BY <1>7, <1>8, <1>9

LEMMA CloseUpvalStep ==
  ASSUME IInv, NEW u, CloseUpval(u)
  PROVE  IInv'
<1>1. /\ u \in OpenUpvals(running) /\ openin' = [openin EXCEPT ![u] = None]
      /\ UNCHANGED <<entry, running, finalized, cycle>>
  BY DEF CloseUpval
<1>2. /\ u \in OpenUps /\ u \in alive /\ u \in Objs /\ u \in Upvals
  BY <1>1 DEF OpenUpvals, OpenUps, IInv, TypeOK, Threads, Of
<1>3. \A o \in Objs : openin'[o] = IF o = u THEN None ELSE openin[o]
  BY <1>1, <1>2 DEF IInv, TypeOK
<1>4. openin' \in [Objs -> Threads \cup {None}] BY <1>1, <1>2 DEF IInv, TypeOK
<1>5. OpenUps' = OpenUps \ {u} BY <1>3 DEF OpenUps
<1>6. running \in Live BY DEF IInv, RootsLive
<1>7. CASE ~isdead(u)
  <2>1. UNCHANGED <<alive, ptr>> /\ luaC_linkupval(u) BY <1>7 DEF CloseUpval
  <2>2. u \in OpenUps \cap Live BY <1>2, <1>7 DEF Live
  <2>3. ColoursKept /\ (~Marking => mark'[u] = white)
    BY <1>1, <2>1, <2>2, LinkUpval
  <2>4. TypeOK' BY <1>1, <1>4, <2>1, <2>3 DEF IInv, TypeOK, cycle, ColoursKept, Colour
  <2> QED BY <1>1, <1>3, <1>6, <2>1, <2>3, <2>4, HeapStep DEF ColoursKept
<1>8. CASE isdead(u)
  <2>0. UNCHANGED <<gcstate, white, unswept, tmudata, full, gray, grayagain, weak>>
        /\ UNCHANGED <<mark, entry, running, finalized>>
        /\ alive' = alive \ {u} /\ ptr' = [ptr EXCEPT ![u] = {}]
    BY <1>1, <1>8 DEF CloseUpval, cycle, lists
  <2> USE <2>0
  <2>1. \A o \in Objs : ptr'[o] = IF o = u THEN {} ELSE ptr[o] BY <1>2 DEF IInv, TypeOK
  <2>2. \A o \in Objs : isdead(o)' <=> isdead(o) BY DEF isdead, OtherWhite
  <2>3. Live' = Live /\ u \notin Live /\ Live \subseteq alive /\ alive \subseteq Objs
    BY <1>8, <2>2 DEF Live, IInv, TypeOK
  <2>4. ~Marking BY <1>2, <1>8 DEF IInv, MarkSound
  <2>5. TypeOK' BY <1>4 DEF IInv, TypeOK
  <2>6. \A o \in Threads \cup Udata \cup WeakTabs : o # u
    BY <1>2 DEF Threads, Udata, WeakTabs, Upvals, Of
  <2>7. OpenUps \subseteq Objs /\ \A o \in OpenUps : openin[o] \in Threads
    BY DEF OpenUps, IInv, TypeOK
  <2>8. HeapShape'
    <3>1. HeapShape BY DEF IInv
    <3>2. \A o \in Objs : ptr'[o] # {} => o \in alive' /\ o \notin Strings \cup WeakTabs
      BY <2>1, <3>1 DEF HeapShape
    <3>3. \A o \in Objs : entry'[o] # {} => o \in alive' \cap WeakTabs
      BY <2>6, <3>1 DEF HeapShape
    <3>4. \A o \in OpenUps' : o \in alive' \cap Upvals /\ openin'[o] \in alive'
      BY <1>3, <1>5, <2>6, <2>7, <3>1 DEF HeapShape
    <3> QED BY <3>2, <3>3, <3>4 DEF HeapShape
  <2>9. RootsLive' BY <2>3 DEF IInv, RootsLive
  <2>10. LiveClosed'
    <3>1. LiveClosed BY DEF IInv
    <3>2. \A o \in Live : ptr'[o] = ptr[o] BY <2>1, <2>3
    <3>3. \A o \in OpenUps' : ptr'[o] = ptr[o] /\ openin'[o] = openin[o]
      BY <1>3, <1>5, <2>1, <2>7
    <3> QED BY <1>5, <2>3, <3>1, <3>2, <3>3 DEF LiveClosed
  <2>11. SweepOrder' BY <1>2, <1>5 DEF IInv, SweepOrder, Sweeping
  <2>12. Swept' BY <1>3, <2>3 DEF IInv, Swept, Marking
  <2>13. MarkSound' /\ OneList' BY <2>4 DEF MarkSound, OneList, Marking
  <2>14. OpenNotBlack' BY <1>5 DEF IInv, OpenNotBlack
  <2>15. FinalizedOK' BY <2>2, <2>3 DEF IInv, FinalizedOK
  <2> QED BY <2>5, <2>8, <2>9, <2>10, <2>11, <2>12, <2>13, <2>14, <2>15 DEF IInv
<1> QED BY <1>7, <1>8

(* A new closure over an upvalue, which is new as well, or found again. *)
LEMMA CaptureStep ==
  ASSUME IInv, NEW c \in Values, NEW u \in Upvals, c \notin alive, Kind[c] = "closure",
         u \in alive => openin[u] = running,
         alive' = alive \cup {c, u},
         mark' \in [Objs -> Colour], mark'[c] = white,
         mark'[u] = IF u \in Live THEN mark[u] ELSE white,
         \A o \in Objs \ {c, u} : mark'[o] = mark[o],
         ptr'[c] = {u}, ptr'[running] \subseteq ptr[running] \cup {c},
         IF u \in alive THEN ptr'[u] = ptr[u] ELSE ptr'[u] \subseteq Live,
         \A o \in Objs \ {c, u, running} : ptr'[o] = ptr[o],
         ptr' \in [Objs -> SUBSET Objs],
         openin' = [openin EXCEPT ![u] = running],
         UNCHANGED <<entry, running, finalized, lists, cycle>>
  PROVE  IInv'
<1>0. UNCHANGED <<gcstate, white, unswept, tmudata, full, gray, grayagain, weak>>
      /\ UNCHANGED <<entry, running, finalized>>
  BY DEF cycle, lists
<1> USE <1>0
<1>1. /\ c \in Objs /\ u \in Objs /\ running \in Objs /\ running \in Threads
      /\ running \in Live /\ Live \subseteq alive /\ alive \subseteq Objs
  BY DEF Values, Upvals, Threads, Of, IInv, TypeOK, RootsLive, Live
<1>2. /\ c \notin Upvals /\ c # u /\ c # running /\ u # running
      /\ c \notin Threads \cup Strings \cup WeakTabs \cup Udata
      /\ u \notin Threads \cup Strings \cup WeakTabs \cup Udata
      /\ running \notin Strings \cup WeakTabs \cup Upvals
  BY <1>1 DEF Values, Upvals, Threads, Strings, WeakTabs, Udata, Of
<1>3. OtherWhite' = OtherWhite /\ white # OtherWhite /\ white \in Whites
  BY DEF OtherWhite, Whites, IInv, TypeOK
<1>4. \A o \in Objs : openin'[o] = IF o = u THEN running ELSE openin[o]
  BY <1>1 DEF IInv, TypeOK
<1>5. OpenUps' = OpenUps \cup {u} /\ OpenUps \subseteq Objs /\ c \notin OpenUps
  BY <1>1, <1>2, <1>4 DEF OpenUps, IInv, TypeOK, HeapShape
<1>6. /\ \A o \in Objs \ {c, u} : isdead(o)' <=> isdead(o)
      /\ ~isdead(c)' /\ ~isdead(u)'
  BY <1>1, <1>3 DEF isdead, Live
<1>7. Live' = Live \cup {c, u}
  BY <1>1, <1>6 DEF Live
<1>8. TypeOK' BY <1>1 DEF IInv, TypeOK, Colour
<1>9. HeapShape'
  <2>1. HeapShape BY DEF IInv
  <2>2. \A o \in Objs : ptr'[o] # {} => o \in alive' /\ o \notin Strings \cup WeakTabs
    BY <1>1, <1>2, <2>1 DEF HeapShape
  <2>3. \A o \in Objs : entry'[o] # {} => o \in alive' \cap WeakTabs
    BY <2>1 DEF HeapShape
  <2>4. \A o \in OpenUps' : o \in alive' \cap Upvals /\ openin'[o] \in alive'
    BY <1>1, <1>4, <1>5, <2>1 DEF HeapShape
  <2> QED BY <2>2, <2>3, <2>4 DEF HeapShape
<1>10. RootsLive' BY <1>7 DEF IInv, RootsLive
<1>11. LiveClosed'
  <2>1. LiveClosed /\ HeapShape BY DEF IInv
  <2>2. /\ ptr[running] \subseteq Live /\ entry[c] = {} /\ entry[u] = {}
    BY <1>1, <1>2, <2>1 DEF LiveClosed, HeapShape
  <2>3. ptr'[u] \subseteq Live
    <3>1. CASE u \in alive
      <4>1. u \in OpenUps /\ openin[u] \in Live BY <1>1, <1>2, <3>1 DEF OpenUps, IInv, TypeOK
      <4> QED BY <1>1, <1>2, <2>1, <3>1, <4>1 DEF LiveClosed
    <3>2. CASE u \notin alive BY <1>1, <1>2, <3>2
    <3> QED BY <3>1, <3>2
  <2>4. \A o \in Live' : ptr'[o] \subseteq Live'
    BY <1>1, <1>7, <2>1, <2>2, <2>3 DEF LiveClosed
  <2>5. \A o \in Live' : \A e \in entry'[o] : e[1] \in Live' /\ e[2] \in Live'
    BY <1>7, <2>1, <2>2 DEF LiveClosed
  <2>6. ASSUME NEW o \in OpenUps', openin'[o] \in Live' PROVE ptr'[o] \subseteq Live'
    <3>1. CASE o = u BY <1>7, <2>3, <3>1
    <3>2. CASE o # u
      <4>1. o \in OpenUps /\ o \in Objs /\ openin'[o] = openin[o] BY <1>4, <1>5, <3>2
      <4>2. openin[o] \in alive /\ openin[o] \in Threads
        BY <2>1, <4>1 DEF HeapShape, OpenUps, IInv, TypeOK
      <4>3. openin[o] \in Live BY <1>2, <1>7, <2>6, <4>1, <4>2
      <4>4. o # c /\ o # running BY <1>2, <1>5, <2>1, <4>1 DEF HeapShape
      <4>5. ptr'[o] = ptr[o] BY <3>2, <4>1, <4>4
      <4> QED BY <1>7, <2>1, <4>1, <4>3, <4>5 DEF LiveClosed
    <3> QED BY <3>1, <3>2
  <2> QED BY <2>4, <2>5, <2>6 DEF LiveClosed
<1>12. SweepOrder'
  <2>1. SweepOrder BY DEF IInv
  <2>2. u \notin unswept
    BY <1>1, <2>1 DEF SweepOrder, OpenUps, IInv, TypeOK
  <2> QED BY <1>5, <2>1, <2>2 DEF SweepOrder, Sweeping
<1>13. Swept'
  <2> SUFFICES ASSUME ~Marking, NEW o \in alive'
               PROVE  mark'[o] = white \/ o \in tmudata \cup unswept
                        \/ openin'[o] \in unswept
    BY DEF Swept, Marking
  <2>1. CASE o = c \/ (o = u /\ u \notin Live) BY <2>1
  <2>2. CASE o \in alive /\ o # c /\ (o = u => u \in Live)
    <3>1. mark'[o] = mark[o] /\ openin'[o] = openin[o] BY <1>1, <1>4, <2>2
    <3> QED BY <2>2, <3>1 DEF IInv, Swept
  <2> QED BY <1>1, <2>1, <2>2
<1>14. MarkSound'
  <2> SUFFICES ASSUME Marking PROVE MarkSound'
    BY DEF MarkSound, Marking
  <2>1. MarkSound /\ Live = alive BY DEF IInv, MarkSound, Live
  <2>2. MarkedNow' = MarkedNow BY <1>1, <1>3, <2>1 DEF MarkedNow
  <2>3. Queued' = Queued BY DEF Queued
  <2>4. \A o \in MarkedNow : o \in Objs /\ o \in alive /\ mark'[o] = mark[o]
    BY <1>1, <1>3, <2>2 DEF MarkedNow, Live
  <2>5. u \in alive => u \in OpenUps BY <1>1 DEF OpenUps, IInv, TypeOK
  <2>6. \A o \in MarkedNow' \ (Queued' \cup OpenUps' \cup tmudata' \cup Strings) :
          mark'[o] = "black" /\ ptr'[o] \subseteq MarkedNow'
    <3> SUFFICES ASSUME NEW o \in MarkedNow \ (Queued \cup OpenUps' \cup tmudata \cup Strings)
                 PROVE  mark'[o] = "black" /\ ptr'[o] \subseteq MarkedNow
      BY <2>2, <2>3
    <3>1. o # u /\ o # c /\ o \notin OpenUps BY <1>5, <2>4
    <3>2. o # running BY <1>1, <2>1 DEF MarkSound
    <3> QED BY <2>1, <2>4, <3>1, <3>2 DEF MarkSound
  <2>7. \A o \in alive' : ~isdead(o)' BY <1>1, <1>6, <2>1 DEF MarkSound
  <2>8. \A o \in Queued' : mark'[o] = "gray" /\ Listed(o)
    BY <1>1, <2>1, <2>3 DEF MarkSound
  <2> QED BY <2>1, <2>2, <2>3, <2>6, <2>7, <2>8 DEF MarkSound
<1>15. OneList' BY DEF IInv, OneList, Marking
<1>16. OpenNotBlack'
  <2>1. u \in Live => u \in OpenUps BY <1>1 DEF OpenUps, IInv, TypeOK
  <2> QED BY <1>1, <1>3, <1>5, <2>1 DEF IInv, OpenNotBlack, Whites
<1>17. FinalizedOK' BY <1>2, <1>6 DEF IInv, FinalizedOK, Udata, Of
<1> QED BY <1>8, <1>9, <1>10, <1>11, <1>12, <1>13, <1>14, <1>15, <1>16, <1>17 DEF IInv

LEMMA CaptureNewStep ==
  ASSUME IInv, NEW c \in Values, NEW u, NEW x, CaptureNew(c, u, x)
  PROVE  IInv'
<1>1. /\ c \notin alive /\ Kind[c] = "closure" /\ u \in Upvals \ alive
      /\ x \in ptr[running] /\ alive' = alive \cup {c, u}
      /\ mark' = [mark EXCEPT ![c] = white, ![u] = white]
      /\ ptr' = [ptr EXCEPT ![c] = {u}, ![u] = {x}, ![running] = (@ \ {x}) \cup {c}]
      /\ openin' = [openin EXCEPT ![u] = running]
      /\ UNCHANGED <<entry, running, finalized, lists, cycle>>
  BY DEF CaptureNew
<1>2. /\ c \in Objs /\ u \in Objs /\ running \in Objs /\ running \in alive
      /\ running \in Live
  BY <1>1 DEF Values, Upvals, Of, IInv, TypeOK, RootsLive, Live, Threads
<1>3. c # running /\ u # running /\ c # u BY <1>1, <1>2 DEF Upvals, Of, Values
<1>4. x \in Live /\ x \in Objs BY <1>1, <1>2 DEF IInv, LiveClosed, TypeOK
<1>5. u \notin Live BY <1>1 DEF Live
<1>6. /\ mark' \in [Objs -> Colour] /\ mark'[c] = white /\ mark'[u] = white
      /\ \A o \in Objs \ {c, u} : mark'[o] = mark[o]
  BY <1>1, <1>2 DEF IInv, TypeOK, Colour
<1>7. /\ ptr' \in [Objs -> SUBSET Objs] /\ ptr'[c] = {u}
      /\ ptr'[running] \subseteq ptr[running] \cup {c} /\ ptr'[u] \subseteq Live
      /\ \A o \in Objs \ {c, u, running} : ptr'[o] = ptr[o]
  BY <1>1, <1>2, <1>3, <1>4 DEF IInv, TypeOK
<1> QED BY <1>1, <1>5, <1>6, <1>7, CaptureStep

LEMMA CaptureAgainStep ==
  ASSUME IInv, NEW c \in Values, NEW u, CaptureAgain(c, u)
  PROVE  IInv'
<1>1. /\ c \notin alive /\ Kind[c] = "closure" /\ u \in OpenUpvals(running)
      /\ alive' = alive \cup {c}
      /\ mark' = [mark EXCEPT ![c] = white, ![u] = IF isdead(u) THEN white ELSE @]
      /\ ptr' = [ptr EXCEPT ![c] = {u}, ![running] = @ \cup {c}]
      /\ UNCHANGED <<entry, openin, running, finalized, lists, cycle>>
  BY DEF CaptureAgain
<1>2. /\ c \in Objs /\ u \in Objs /\ running \in Objs /\ running \in alive
      /\ u \in alive /\ u \in Upvals /\ openin[u] = running
  BY <1>1 DEF Values, Upvals, Of, IInv, TypeOK, RootsLive, Live, Threads, OpenUpvals
<1>3. c # running /\ c # u BY <1>1, <1>2
<1>4. u # running BY <1>2 DEF IInv, TypeOK, Threads, Upvals, Of
<1>6. /\ mark' \in [Objs -> Colour] /\ mark'[c] = white
      /\ mark'[u] = (IF u \in Live THEN mark[u] ELSE white)
      /\ \A o \in Objs \ {c, u} : mark'[o] = mark[o]
  BY <1>1, <1>2, <1>3 DEF IInv, TypeOK, Colour, Live
<1>7. /\ ptr' \in [Objs -> SUBSET Objs] /\ ptr'[c] = {u}
      /\ ptr'[running] \subseteq ptr[running] \cup {c} /\ ptr'[u] = ptr[u]
      /\ \A o \in Objs \ {c, u, running} : ptr'[o] = ptr[o]
  BY <1>1, <1>2, <1>3, <1>4 DEF IInv, TypeOK
<1>8. openin' = [openin EXCEPT ![u] = running]
  BY <1>1, <1>2 DEF IInv, TypeOK
<1>9. alive' = alive \cup {c, u} BY <1>1, <1>2
<1> QED BY <1>1, <1>2, <1>6, <1>7, <1>8, <1>9, CaptureStep

------------------------------------------------------------------------------
(* The steps of the collector *)

LEMMA SameHeap ==
  ASSUME IInv, UNCHANGED heap, Live' = Live
  PROVE  /\ HeapShape' /\ LiveClosed' /\ OpenUps' = OpenUps
         /\ UNCHANGED <<alive, ptr, entry, openin, running>>
<1>1. UNCHANGED <<alive, ptr, entry, openin, running>> BY DEF heap
<1>2. OpenUps' = OpenUps BY <1>1 DEF OpenUps
<1>3. HeapShape' BY <1>1, <1>2 DEF IInv, HeapShape
<1>4. LiveClosed' BY <1>1, <1>2 DEF IInv, LiveClosed
<1> QED BY <1>1, <1>2, <1>3, <1>4

(* Marking begins, with everything white but the queue of finalizers. *)
LEMMA MarkRoot ==
  ASSUME IInv, markroot, gcstate \in {"pause", "finalize"},
         UNCHANGED <<heap, finalized, white, unswept, tmudata>>,
         full' \in {"no", "reset", "cycle"}
  PROVE  IInv'
<1> DEFINE m == [Marks EXCEPT !.gray = {}, !.grayagain = {}, !.weak = {}]
           X == {Main, Globals}
           r == reallymarkobject(m, X)
           new == NonWhite(r) \ NonWhite(m)
<1>1. /\ UNCHANGED <<alive, ptr, entry, openin, running, finalized, white, unswept, tmudata>>
      /\ gcstate' = "propagate" /\ Become(r)
  BY Zenon DEF heap, markroot
<1>0. m = [Marks EXCEPT !.gray = {}, !.grayagain = {}, !.weak = {}] OBVIOUS
<1> HIDE DEF m, X
<1>2. m = [mark |-> mark, gray |-> {}, grayagain |-> {}, weak |-> {}]
  BY <1>0 DEF Marks
<1>3. m \in MarkRecord /\ m.mark = mark /\ m.gray = {} /\ m.grayagain = {} /\ m.weak = {}
  BY <1>2 DEF MarkRecord, IInv, TypeOK, Colour
<1>4. /\ r \in MarkRecord
      /\ r.grayagain = {} /\ r.weak = {}
      /\ r.gray = {o \in new : Listed(o)}
      /\ NonWhite(m) \subseteq NonWhite(r) /\ {Main, Globals} \cap alive \subseteq NonWhite(r)
      /\ \A o \in Objs \ new : r.mark[o] = mark[o]
      /\ \A o \in new : /\ r.mark[o] = Marked(o)
                        /\ Immediate(o) \cap alive \subseteq NonWhite(r)
  <2>1. /\ r \in MarkRecord
        /\ r.grayagain = m.grayagain /\ r.weak = m.weak
        /\ r.gray = m.gray \cup {o \in new : Listed(o)}
        /\ NonWhite(m) \subseteq NonWhite(r)
        /\ X \cap alive \subseteq NonWhite(r)
        /\ \A o \in Objs \ new : r.mark[o] = m.mark[o]
        /\ \A o \in new : /\ r.mark[o] = Marked(o)
                          /\ Immediate(o) \cap alive \subseteq NonWhite(r)
    BY <1>3, MarkObjects DEF IInv, TypeOK
  <2> HIDE DEF r
  <2> QED BY <1>3, <2>1 DEF X
<1> USE <1>1
<1>5. mark' = r.mark /\ gray' = r.gray /\ grayagain' = r.grayagain /\ weak' = r.weak
  BY DEF Become
<1> HIDE DEF r
<1>6. MarkedNow' = NonWhite(r) /\ MarkedNow = NonWhite(m)
  BY <1>3, <1>5 DEF MarkedNow, NonWhite
<1>7. Queued' = {o \in new : Listed(o)} BY <1>4, <1>5 DEF Queued
<1>8. /\ new \subseteq alive /\ alive \subseteq Objs /\ Live \subseteq alive
      /\ new \cup MarkedNow = MarkedNow'
  BY <1>4, <1>6 DEF NonWhite, IInv, TypeOK, Live
<1>9. /\ OtherWhite' = OtherWhite /\ white # OtherWhite /\ white \in Whites
      /\ OtherWhite \in Whites
  BY DEF OtherWhite, Whites, IInv, TypeOK
<1>10. \A o \in alive : mark[o] = white \/ o \in tmudata
  <2>1. unswept = {} BY DEF IInv, SweepOrder, Sweeping
  <2> QED BY <2>1 DEF IInv, Swept, Marking
<1>11. \A o \in alive : ~isdead(o)
  BY <1>9, <1>10 DEF isdead, IInv, RootsLive, Live
<1>12. \A o \in Objs : Marked(o) \in {"gray", "black"} BY DEF Marked
<1>13. \A o \in alive : ~isdead(o)'
  BY <1>4, <1>5, <1>8, <1>9, <1>11, <1>12 DEF isdead, Whites
<1>14. Live' = Live BY <1>11, <1>13 DEF Live
<1>15. HeapShape' /\ LiveClosed' /\ OpenUps' = OpenUps BY <1>14, SameHeap
<1>16. RootsLive' BY <1>14 DEF IInv, RootsLive
<1>17. TypeOK' BY <1>4, <1>5, <1>8 DEF IInv, TypeOK, MarkRecord, Colour
<1>18. SweepOrder' BY <1>15 DEF IInv, SweepOrder, Sweeping
<1>19. Swept' BY DEF Swept, Marking
<1>20. MarkedNow \subseteq tmudata BY <1>9, <1>10 DEF MarkedNow
<1>21. MarkSound'
  <2>1. \A o \in Queued' : mark'[o] = "gray" /\ Listed(o)
    BY <1>4, <1>5, <1>7, <1>8 DEF Listed, Marked
  <2>2. \A o \in MarkedNow' \ Queued' : o \notin Threads \cup WeakTabs
    <3>1. \A o \in Threads \cup WeakTabs : Listed(o) /\ o \notin Udata
      BY DEF Listed, Threads, WeakTabs, Udata, Of
    <3>2. tmudata \subseteq Udata BY DEF IInv, TypeOK
    <3> QED BY <1>7, <1>8, <1>20, <3>1, <3>2
  <2>3. ASSUME NEW o \in MarkedNow' \ (Queued' \cup OpenUps' \cup tmudata' \cup Strings)
        PROVE  mark'[o] = "black" /\ ptr'[o] \subseteq MarkedNow'
    <3>1. o \in new /\ ~Listed(o) /\ o \in alive /\ o \in Objs /\ o \notin OpenUps
      BY <1>7, <1>8, <1>15, <1>20, <2>3
    <3>2. Kind[o] \in {"udata", "upval"} BY <3>1, <2>3 DEF Listed, Strings, Of
    <3>3. Immediate(o) = ptr[o] /\ Marked(o) = "black"
      BY <3>1, <3>2 DEF Immediate, Marked, OpenUps
    <3>4. ptr[o] \subseteq alive
      BY <1>11, <3>1 DEF IInv, LiveClosed, Live
    <3> QED BY <1>4, <1>5, <1>6, <3>1, <3>3, <3>4
  <2>4. {Main, Globals} \subseteq MarkedNow'
    BY <1>4, <1>6, <1>8 DEF IInv, RootsLive
  <2> QED BY <1>7, <1>8, <1>13, <2>1, <2>2, <2>3, <2>4 DEF MarkSound
<1>22. OneList' BY <1>4, <1>5 DEF OneList
<1>23. OpenNotBlack'
  <2>1. \A u \in OpenUps : u \in Objs /\ Marked(u) = "gray"
    BY DEF OpenUps, IInv, HeapShape, Marked, Upvals, Of
  <2> QED BY <1>4, <1>5, <1>15, <2>1 DEF IInv, OpenNotBlack
<1>24. FinalizedOK' BY <1>13 DEF IInv, FinalizedOK, Udata, Of
<1> QED BY <1>15, <1>16, <1>17, <1>18, <1>19, <1>21, <1>22, <1>23, <1>24 DEF IInv

LEMMA StartCycleStep ==
  ASSUME IInv, StartCycle
  PROVE  IInv'
<1>1. /\ markroot /\ gcstate = "pause"
      /\ UNCHANGED <<heap, finalized, white, unswept, tmudata>> /\ full' = full
  BY DEF StartCycle
<1>2. full' \in {"no", "reset", "cycle"} BY <1>1 DEF IInv, TypeOK
<1> QED BY <1>1, <1>2, MarkRoot

LEMMA RestartFullGCStep ==
  ASSUME IInv, RestartFullGC
  PROVE  IInv'
<1>1. /\ markroot /\ gcstate = "finalize" /\ full' = "cycle"
      /\ UNCHANGED <<heap, finalized, white, unswept, tmudata>>
  BY DEF RestartFullGC
<1> QED BY <1>1, MarkRoot

(* One object is traversed. *)
LEMMA PropagateStep ==
  ASSUME IInv, NEW o, propagatemark(o)
  PROVE  IInv'
<1> DEFINE m == [Marks EXCEPT !.gray = @ \ {o}]
           X == Children(o)
           r == reallymarkobject(m, X)
           s == [r EXCEPT !.mark[o] = Traversed(o),
                          !.grayagain = @ \cup ({o} \cap Threads),
                          !.weak = @ \cup ({o} \cap WeakTabs)]
           new == NonWhite(r) \ NonWhite(m)
<1>1. /\ gcstate = "propagate" /\ o \in gray /\ UNCHANGED <<heap, finalized, cycle>>
      /\ Become(s)
  BY Zenon DEF propagatemark
<1>2. m = [Marks EXCEPT !.gray = @ \ {o}] OBVIOUS
<1> HIDE DEF m, X
<1>3. m = [mark |-> mark, gray |-> gray \ {o}, grayagain |-> grayagain, weak |-> weak]
  BY <1>2 DEF Marks
<1>4. m \in MarkRecord /\ m.mark = mark /\ m.gray = gray \ {o}
      /\ m.grayagain = grayagain /\ m.weak = weak
  BY <1>3 DEF MarkRecord, IInv, TypeOK, Colour
<1>5. /\ r \in MarkRecord
      /\ r.grayagain = m.grayagain /\ r.weak = m.weak
      /\ r.gray = m.gray \cup {y \in new : Listed(y)}
      /\ NonWhite(m) \subseteq NonWhite(r)
      /\ X \cap alive \subseteq NonWhite(r)
      /\ \A y \in Objs \ new : r.mark[y] = m.mark[y]
      /\ \A y \in new : /\ r.mark[y] = Marked(y)
                        /\ Immediate(y) \cap alive \subseteq NonWhite(r)
  BY <1>4, MarkObjects DEF IInv, TypeOK
<1>6. s = [r EXCEPT !.mark[o] = Traversed(o),
                    !.grayagain = @ \cup ({o} \cap Threads),
                    !.weak = @ \cup ({o} \cap WeakTabs)]
  OBVIOUS
<1> HIDE DEF r, s
<1>7. /\ mark' = [r.mark EXCEPT ![o] = Traversed(o)]
      /\ gray' = (gray \ {o}) \cup {y \in new : Listed(y)}
      /\ grayagain' = grayagain \cup ({o} \cap Threads)
      /\ weak' = weak \cup ({o} \cap WeakTabs)
  <2>1. r = [mark |-> r.mark, gray |-> r.gray, grayagain |-> r.grayagain, weak |-> r.weak]
    BY <1>5 DEF MarkRecord
  <2>2. s = [mark |-> [r.mark EXCEPT ![o] = Traversed(o)], gray |-> r.gray,
             grayagain |-> r.grayagain \cup ({o} \cap Threads),
             weak |-> r.weak \cup ({o} \cap WeakTabs)]
    BY <1>6, <2>1
  <2> QED BY <1>1, <1>4, <1>5, <2>2 DEF Become
<1>8. /\ UNCHANGED <<gcstate, white, unswept, tmudata, full, finalized>>
      /\ UNCHANGED <<alive, ptr, entry, openin, running>>
  BY <1>1 DEF cycle, heap
<1> USE <1>8
<1>9. MarkSound /\ OneList /\ Marking BY <1>1 DEF IInv, Marking
<1>10. /\ o \in alive /\ alive \subseteq Objs /\ o \in Objs /\ mark[o] = "gray" /\ Listed(o)
       /\ o \in MarkedNow /\ o \notin grayagain /\ o \notin weak /\ o \in Queued
  BY <1>1, <1>9 DEF MarkSound, OneList, Queued, MarkedNow, Whites, IInv, TypeOK
<1>11. NonWhite(m) = MarkedNow BY <1>4 DEF NonWhite, MarkedNow
<1>12. Traversed(o) \in {"gray", "black"} BY DEF Traversed, Marked
<1>13. \A y \in Objs : mark'[y] = IF y = o THEN Traversed(o) ELSE r.mark[y]
  BY <1>5, <1>7, <1>10 DEF MarkRecord
<1>14. MarkedNow' = NonWhite(r)
  BY <1>5, <1>10, <1>11, <1>12, <1>13 DEF MarkedNow, NonWhite, Whites
<1>15. /\ new \subseteq alive /\ o \notin new /\ MarkedNow' = MarkedNow \cup new
       /\ \A y \in new : y \in Objs /\ mark[y] \in Whites /\ mark'[y] = Marked(y)
  BY <1>5, <1>10, <1>11, <1>13, <1>14 DEF NonWhite, MarkedNow
<1>16. \A y \in Objs \ (new \cup {o}) : mark'[y] = mark[y] BY <1>4, <1>5, <1>13
<1> HIDE DEF new
<1>17. Queued' = (Queued \ {o}) \cup {y \in new : Listed(y)} \cup ({o} \cap (Threads \cup WeakTabs))
  BY <1>7, <1>10 DEF Queued
<1>18. new \cap Queued = {} BY <1>9, <1>15 DEF MarkSound, Whites
<1>19. \A y \in Objs : Marked(y) \in {"gray", "black"} BY DEF Marked
<1>20. OtherWhite' = OtherWhite /\ OtherWhite \in Whites BY DEF OtherWhite, Whites
<1>21. \A y \in alive : ~isdead(y) /\ ~isdead(y)'
  <2> SUFFICES ASSUME NEW y \in alive PROVE mark[y] # OtherWhite /\ mark'[y] # OtherWhite
    BY <1>20 DEF isdead
  <2>1. mark[y] # OtherWhite /\ y \in Objs BY <1>9, <1>10 DEF MarkSound, isdead
  <2>2. CASE y = o BY <1>10, <1>12, <1>13, <1>20, <2>1, <2>2 DEF Whites
  <2>3. CASE y \in new BY <1>15, <1>19, <1>20, <2>1, <2>3 DEF Whites
  <2>4. CASE y # o /\ y \notin new BY <1>16, <2>1, <2>4
  <2> QED BY <2>2, <2>3, <2>4
<1>22. Live' = Live /\ Live = alive BY <1>21 DEF Live
<1>23. HeapShape' /\ LiveClosed' /\ OpenUps' = OpenUps BY <1>1, <1>22, SameHeap
<1>24. RootsLive' BY <1>22 DEF IInv, RootsLive
<1>25. TypeOK'
  <2>1. mark' \in [Objs -> Colour]
    BY <1>5, <1>7, <1>12 DEF MarkRecord, Colour
  <2>2. gray' \subseteq Objs /\ grayagain' \subseteq Objs /\ weak' \subseteq WeakTabs
    BY <1>7, <1>10, <1>15 DEF IInv, TypeOK
  <2> QED BY <2>1, <2>2 DEF IInv, TypeOK, Colour
<1>26. SweepOrder' BY <1>23 DEF IInv, SweepOrder, Sweeping
<1>27. Swept' BY <1>9 DEF Swept, Marking
<1>28. MarkSound'
  <2>1. \A y \in Queued' : mark'[y] = "gray" /\ Listed(y)
    <3>1. o \in Threads \cup WeakTabs => Traversed(o) = "gray"
      BY DEF Traversed, Threads, Of
    <3>2. \A y \in new : Listed(y) => Marked(y) = "gray" BY <1>15 DEF Listed, Marked
    <3>3. \A y \in Queued \ {o} : mark'[y] = "gray" /\ Listed(y)
      BY <1>9, <1>10, <1>16, <1>18 DEF MarkSound
    <3> QED BY <1>10, <1>13, <1>15, <1>17, <3>1, <3>2, <3>3
  <2>2. \A y \in MarkedNow' \ Queued' : y \notin Threads \cup WeakTabs
    <3>1. \A y \in Threads \cup WeakTabs : Listed(y)
      BY DEF Listed, Threads, WeakTabs, Of
    <3> QED BY <1>9, <1>15, <1>17, <3>1 DEF MarkSound
  <2>3. ASSUME NEW y \in MarkedNow' \ (Queued' \cup OpenUps' \cup tmudata' \cup Strings)
        PROVE  mark'[y] = "black" /\ ptr'[y] \subseteq MarkedNow'
    <3>0. y \in Objs /\ y \in alive /\ y \notin OpenUps
      BY <1>10, <1>23, <2>3 DEF MarkedNow
    <3>1. ptr[y] \subseteq alive BY <1>22, <3>0 DEF IInv, LiveClosed
    <3>2. CASE y = o
      <4>1. o \notin Threads \cup WeakTabs BY <1>17, <2>3, <3>2
      <4>2. Traversed(o) = "black" BY <1>10, <4>1 DEF Traversed, Threads, Of
      <4>3. X = ptr[o] BY <1>10, <4>1 DEF X, Children, Threads, WeakTabs, Of
      <4> QED BY <1>5, <1>13, <1>14, <3>0, <3>1, <3>2, <4>2, <4>3
    <3>3. CASE y \in new
      <4>1. ~Listed(y) BY <1>17, <2>3, <3>3
      <4>2. Kind[y] \in {"udata", "upval"} BY <2>3, <3>0, <4>1 DEF Listed, Strings, Of
      <4>3. Immediate(y) = ptr[y] /\ Marked(y) = "black"
        BY <3>0, <4>2 DEF Immediate, Marked, OpenUps
      <4>4. Immediate(y) \cap alive \subseteq NonWhite(r) BY <1>5, <3>3 DEF new
      <4> QED BY <1>14, <1>15, <3>1, <3>3, <4>3, <4>4
    <3>4. CASE y # o /\ y \notin new
      <4>1. y \in MarkedNow /\ y \notin Queued BY <1>15, <1>17, <2>3, <3>4
      <4>2. mark[y] = "black" /\ ptr[y] \subseteq MarkedNow
        BY <1>9, <2>3, <3>0, <4>1 DEF MarkSound
      <4> QED BY <1>15, <1>16, <3>0, <3>4, <4>2
    <3> QED BY <3>2, <3>3, <3>4
  <2>4. Queued' \subseteq alive' BY <1>9, <1>10, <1>15, <1>17 DEF MarkSound
  <2>5. {Main, Globals} \subseteq MarkedNow' BY <1>9, <1>15 DEF MarkSound
  <2> QED BY <1>21, <2>1, <2>2, <2>3, <2>4, <2>5 DEF MarkSound
<1>29. OneList'
  <2>1. Threads \cap WeakTabs = {} BY DEF Threads, WeakTabs, Of
  <2> QED BY <1>7, <1>9, <1>10, <1>15, <1>18, <2>1 DEF OneList, Queued
<1>30. OpenNotBlack'
  <2>1. \A u \in OpenUps : u \in Objs /\ Marked(u) = "gray" /\ ~Listed(u)
    BY DEF OpenUps, IInv, HeapShape, Marked, Listed, Upvals, Of
  <2> QED BY <1>10, <1>15, <1>16, <1>23, <2>1 DEF IInv, OpenNotBlack
<1>31. FinalizedOK' BY <1>21 DEF IInv, FinalizedOK, Udata, Of
<1> QED BY <1>23, <1>24, <1>25, <1>26, <1>27, <1>28, <1>29, <1>30, <1>31 DEF IInv

(* The atomic step in terms of its records. *)
LEMMA AtomicEffect ==
  ASSUME TypeOK, atomic, AtomicM4 \in MarkRecord
  PROVE  LET fin == finalized \cup separateudata(AtomicM3) IN
           /\ Marking /\ gray = {}
           /\ finalized' = fin /\ tmudata' = Finals(AtomicM3)
           /\ entry' = cleartable(AtomicM4, fin)
           /\ \A o \in Objs : mark'[o] = IF o \in StringsKept(AtomicM4) THEN "gray"
                                         ELSE AtomicM4.mark[o]
           /\ mark' \in [Objs -> Colour]
           /\ gray' = AtomicM4.gray /\ grayagain' = AtomicM4.grayagain
           /\ weak' = AtomicM4.weak
           /\ unswept' = {o \in alive \ Finals(AtomicM3) : openin[o] = None}
           /\ white' = OtherWhite /\ gcstate' = "sweepstring"
           /\ UNCHANGED <<alive, ptr, openin, running, full>>
<1> DEFINE fin == finalized \cup separateudata(AtomicM3)
           s == [AtomicM4 EXCEPT !.mark = [o \in Objs |->
                   IF o \in StringsKept(AtomicM4) THEN "gray" ELSE @[o]]]
<1>1. /\ gcstate = "propagate" /\ gray = {}
      /\ finalized' = fin /\ tmudata' = Finals(AtomicM3)
      /\ entry' = cleartable(AtomicM4, fin) /\ Become(s)
      /\ unswept' = {o \in alive \ Finals(AtomicM3) : openin[o] = None}
      /\ white' = OtherWhite /\ gcstate' = "sweepstring"
      /\ UNCHANGED <<alive, ptr, openin, running, full>>
  BY Zenon DEF atomic, AtomicM1, AtomicM2, AtomicM3, AtomicM4, Remarked, Weaks, Grays, Finals, Final
<1>2. s = [AtomicM4 EXCEPT !.mark = [o \in Objs |->
             IF o \in StringsKept(AtomicM4) THEN "gray" ELSE @[o]]]
  OBVIOUS
<1> HIDE DEF s, fin
<1>3. /\ s.mark = [o \in Objs |-> IF o \in StringsKept(AtomicM4) THEN "gray"
                                  ELSE AtomicM4.mark[o]]
      /\ s.gray = AtomicM4.gray /\ s.grayagain = AtomicM4.grayagain
      /\ s.weak = AtomicM4.weak
  BY <1>2 DEF MarkRecord
<1>4. mark' = s.mark /\ gray' = s.gray /\ grayagain' = s.grayagain /\ weak' = s.weak
  BY <1>1, SMTT(30) DEF Become
<1>5. mark' \in [Objs -> Colour] BY <1>3, <1>4, SMTT(30) DEF MarkRecord, Colour
<1> QED BY <1>1, <1>3, <1>4, <1>5 DEF fin, Marking

LEMMA AtomicStep ==
  ASSUME IInv, atomic
  PROVE  IInv'
<1> DEFINE M   == AtomicM4
           tmu == Finals(AtomicM3)
           fin == finalized \cup separateudata(AtomicM3)
           K   == StringsKept(M)
<1>1. Marking /\ TypeOK /\ HeapShape /\ RootsLive /\ LiveClosed /\ MarkSound
      /\ OpenNotBlack /\ FinalizedOK
  BY DEF atomic, IInv, Marking
<1>2. /\ Consistent(M) /\ Settled(M, {})
      /\ {Main, Globals, running} \cup tmu \subseteq NonWhite(M)
      /\ NonWhite(M) \cap WeakTabs \subseteq M.weak
      /\ AtomicM3 \in MarkRecord /\ NonWhite(AtomicM3) \subseteq NonWhite(M)
  BY <1>1, AtomicMarks
<1>3. M \in MarkRecord BY <1>2 DEF Consistent
<1>4. /\ finalized' = fin /\ tmudata' = tmu /\ entry' = cleartable(M, fin)
      /\ \A o \in Objs : mark'[o] = IF o \in K THEN "gray" ELSE M.mark[o]
      /\ mark' \in [Objs -> Colour]
      /\ gray' = M.gray /\ grayagain' = M.grayagain /\ weak' = M.weak
      /\ unswept' = {o \in alive \ tmu : openin[o] = None}
      /\ white' = OtherWhite /\ gcstate' = "sweepstring"
      /\ UNCHANGED <<alive, ptr, openin, running, full>>
  BY <1>1, <1>3, AtomicEffect
<1>5. tmu = tmudata \cup separateudata(AtomicM3) BY DEF Finals
<1> HIDE DEF M, tmu, fin, K
<1> USE <1>4
<1>6. Live = alive /\ alive \subseteq Objs BY <1>1 DEF MarkSound, Live, TypeOK
<1>7. \A o \in Objs : entry'[o] = IF o \in M.weak
                                  THEN {e \in entry[o] : ~Cleared(M, fin, e)} ELSE entry[o]
  BY DEF cleartable
<1>8. \A o \in Objs : \A e \in entry[o] :
        /\ o \in WeakTabs /\ e \in Values \X Values
        /\ e[1] \in alive /\ e[2] \in alive
  BY <1>1, <1>6 DEF HeapShape, LiveClosed, TypeOK
<1>9. K \subseteq alive \cap Strings
  BY <1>3, <1>8 DEF K, StringsKept, MarkRecord, WeakTabs, Of
<1>10. OtherWhite' = white /\ white # OtherWhite /\ {white, OtherWhite} = Whites
  BY <1>1 DEF OtherWhite, Whites, TypeOK
<1>11. \A o \in alive : M.mark[o] \in {white, "gray", "black"}
  BY <1>2, <1>3, <1>6, <1>10 DEF Consistent, MarkRecord, Colour
<1>12. Live' = NonWhite(M) \cup K
  <2>1. \A o \in alive : (o \in Live') <=> mark'[o] # white BY <1>10 DEF Live, isdead
  <2>2. \A o \in alive : mark'[o] # white <=> o \in NonWhite(M) \cup K
    BY <1>6, <1>10, <1>11 DEF NonWhite, Whites
  <2>3. Live' \subseteq alive /\ NonWhite(M) \subseteq alive BY DEF Live, NonWhite
  <2> QED BY <1>9, <2>1, <2>2, <2>3
<1>13. OpenUps' = OpenUps /\ OpenUps \subseteq Objs BY DEF OpenUps
<1>14. tmu \subseteq Udata /\ fin \subseteq Udata /\ tmu \subseteq fin
  BY <1>1, <1>5 DEF fin, separateudata, TypeOK, FinalizedOK
<1>15. TypeOK'
  <2>1. entry' \in [Objs -> SUBSET (Values \X Values)]
    <3>1. entry' = [o \in Objs |-> IF o \in M.weak
                                  THEN {e \in entry[o] : ~Cleared(M, fin, e)} ELSE entry[o]]
      BY DEF cleartable
    <3> QED BY <1>1, <3>1 DEF TypeOK
  <2>2. white' \in Whites BY <1>10
  <2>3. gray' \subseteq Objs /\ grayagain' \subseteq Objs /\ weak' \subseteq WeakTabs
    BY <1>3 DEF MarkRecord
  <2> QED BY <1>1, <1>6, <1>14, <2>1, <2>2, <2>3 DEF TypeOK, Colour
<1>16. HeapShape'
  BY <1>1, <1>7, <1>13 DEF HeapShape
<1>17. RootsLive' BY <1>2, <1>12 DEF RootsLive
<1>18. ASSUME NEW o \in NonWhite(M) PROVE Children(o) \cap alive \subseteq NonWhite(M)
  BY <1>2, <1>18 DEF Settled
<1>19. LiveClosed'
  <2>1. ASSUME NEW o \in Live' PROVE ptr[o] \subseteq Live'
    <3>1. o \in alive /\ o \in Objs /\ ptr[o] \subseteq alive
      BY <1>1, <1>6, <2>1 DEF Live, LiveClosed
    <3>2. CASE o \in K \/ o \in WeakTabs
      <4>1. ptr[o] = {} BY <1>1, <1>9, <3>1, <3>2 DEF HeapShape
      <4> QED BY <4>1
    <3>3. CASE o \in NonWhite(M) /\ o \notin WeakTabs
      <4>1. ptr[o] \subseteq Children(o)
        BY <3>1, <3>3 DEF Children, Stack, WeakTabs, Of
      <4> QED BY <1>12, <1>18, <3>1, <3>3, <4>1
    <3> QED BY <1>12, <2>1, <3>2, <3>3
  <2>2. ASSUME NEW o \in Live', NEW e \in entry'[o]
        PROVE  e[1] \in Live' /\ e[2] \in Live'
    <3>1. o \in Objs /\ e \in entry[o] BY <1>6, <1>7, <2>2 DEF Live
    <3>2. o \in WeakTabs /\ e[1] \in alive /\ e[2] \in alive BY <1>8, <3>1
    <3>3. o \notin Strings BY <3>2 DEF WeakTabs, Strings, Of
    <3>4. o \in M.weak BY <1>2, <1>9, <1>12, <2>2, <3>2, <3>3
    <3>5. ~Cleared(M, fin, e) BY <1>7, <2>2, <3>1, <3>4
    <3>6. e[1] \in Live'
      <4>1. CASE e[1] \in Strings
        <5>1. e[1] \in K BY <3>1, <3>4, <4>1 DEF K, StringsKept
        <5> QED BY <1>12, <5>1
      <4>2. CASE e[1] \notin Strings
        BY <1>12, <3>2, <3>5, <4>2 DEF Cleared, KeyCleared, NonWhite
      <4> QED BY <4>1, <4>2
    <3>7. e[2] \in Live'
      <4>1. CASE e[2] \in Strings
        <5>1. e[2] \in K BY <3>1, <3>4, <3>5, <4>1 DEF K, StringsKept, Cleared
        <5> QED BY <1>12, <5>1
      <4>2. CASE e[2] \notin Strings
        BY <1>12, <3>2, <3>5, <4>2 DEF Cleared, ValueCleared, NonWhite
      <4> QED BY <4>1, <4>2
    <3> QED BY <3>6, <3>7
  <2>3. ASSUME NEW u \in OpenUps, openin[u] \in Live' PROVE ptr[u] \subseteq Live'
    <3>1. /\ u \in Objs /\ openin[u] \in Threads /\ u \in alive \cap Upvals
          /\ openin[u] \in Objs
      BY <1>1, <1>13, <2>3 DEF OpenUps, TypeOK, HeapShape, Threads, Of
    <3>2. openin[u] \in NonWhite(M)
      <4>1. openin[u] \notin K BY <1>9, <3>1 DEF Strings, Threads, Of
      <4> QED BY <1>12, <2>3, <4>1
    <3>3. ptr[u] \subseteq Stack(openin[u]) BY <3>1 DEF Stack, OpenUpvals
    <3>4. Children(openin[u]) = Stack(openin[u])
      BY <3>1 DEF Children, Threads, Of
    <3>5. ptr[u] \subseteq alive BY <1>1, <1>6, <3>1 DEF LiveClosed
    <3> QED BY <1>12, <1>18, <3>2, <3>3, <3>4, <3>5
  <2> QED BY <1>13, <2>1, <2>2, <2>3 DEF LiveClosed
<1>20. SweepOrder'
  BY <1>6, <1>13 DEF SweepOrder, Sweeping, OpenUps
<1>21. Swept'
  <2> SUFFICES ASSUME NEW o \in alive, openin[o] # None, o \notin tmu
               PROVE  openin[o] \in unswept'
    BY DEF Swept
  <2>1. o \in OpenUps /\ o \in Objs BY <1>6 DEF OpenUps
  <2>2. openin[o] \in alive /\ openin[o] \in Threads
    BY <1>1, <2>1 DEF HeapShape, TypeOK
  <2>3. openin[o] \notin Upvals /\ openin[o] \notin Udata /\ openin[o] \in Objs
    BY <2>2 DEF Threads, Upvals, Udata, Of
  <2>4. openin[openin[o]] = None BY <1>1, <2>3 DEF HeapShape, OpenUps
  <2> QED BY <1>14, <2>2, <2>3, <2>4
<1>22. MarkSound' /\ OneList' BY DEF MarkSound, OneList, Marking
<1>23. OpenNotBlack' BY <1>2, <1>13 DEF OpenNotBlack, Consistent
<1>24. FinalizedOK'
  <2>1. ASSUME NEW u \in Udata \cap alive, isdead(u)' PROVE u \in fin
    <3>1. mark'[u] = white BY <1>10, <2>1 DEF isdead
    <3>2. u \notin NonWhite(M)
      BY <1>6, <1>10, <3>1 DEF NonWhite, Whites
    <3>3. u \notin NonWhite(AtomicM3) /\ u \notin tmu BY <1>2, <3>2
    <3>4. u \in WhiteIn(AtomicM3) BY <2>1, <3>3 DEF WhiteIn, NonWhite
    <3> QED BY <1>5, <2>1, <3>3, <3>4 DEF separateudata, fin
  <2> QED BY <1>14, <2>1 DEF FinalizedOK
<1> QED BY <1>15, <1>16, <1>17, <1>19, <1>20, <1>21, <1>22, <1>23, <1>24, SMTT(30) DEF IInv

(* One object is swept; a thread with the upvalues of its stack.  What lives keeps its
   references. *)
LEMMA SweepStep ==
  ASSUME IInv, NEW o \in unswept, sweeplist(o), Sweeping, gcstate' = gcstate
  PROVE  IInv' /\ Live' = Live /\ \A t \in Live : Children(t)' = Children(t)
<1> DEFINE ups  == IF o \in Threads THEN OpenUpvals(o) ELSE {}
           swept == {o} \cup ups
           dead == {x \in swept : isdead(x)}
           slots == UNION {ptr[u] : u \in dead \cap ups}
<1>1. /\ alive' = alive \ dead
      /\ mark' = [x \in Objs |-> IF x \in swept THEN white ELSE mark[x]]
      /\ ptr' = [x \in Objs |-> IF x \in dead THEN {}
                                ELSE IF x = o THEN ptr[o] \cup slots ELSE ptr[x]]
      /\ entry' = [x \in Objs |-> IF x \in dead THEN {} ELSE entry[x]]
      /\ openin' = [x \in Objs |-> IF x \in ups /\ (isdead(o) \/ x \in dead)
                                   THEN None ELSE openin[x]]
      /\ finalized' = finalized \ dead
      /\ unswept' = unswept \ {o}
      /\ UNCHANGED <<running, lists, white, tmudata, full>>
  BY Zenon DEF sweeplist
<1>2. gray' = gray /\ grayagain' = grayagain /\ weak' = weak BY <1>1 DEF lists
<1> USE <1>2
<1>3. /\ TypeOK /\ HeapShape /\ RootsLive /\ LiveClosed /\ SweepOrder /\ Swept
      /\ OpenNotBlack /\ FinalizedOK
  BY DEF IInv
<1>4. o \in alive /\ o \in Objs /\ o \notin OpenUps /\ o \notin tmudata
  BY <1>3 DEF SweepOrder, TypeOK
<1>5. ups \subseteq alive \cap OpenUps \cap Upvals /\ \A x \in ups : openin[x] = o /\ o \in Threads
  <2>1. o # None BY <1>4
  <2> QED BY <1>3, <1>4, <2>1 DEF OpenUpvals, OpenUps, TypeOK
<1>51. \A x \in OpenUps : openin[x] = o => x \in ups
  BY <1>3 DEF OpenUpvals, OpenUps, HeapShape, TypeOK
<1>52. \A x \in dead : x \in swept /\ isdead(x) OBVIOUS
<1>53. \A x \in swept : isdead(x) => x \in dead OBVIOUS
<1>55. \A x \in slots : \E u \in dead \cap ups : x \in ptr[u] OBVIOUS
<1>56. \A u \in dead \cap ups : ptr[u] \subseteq slots OBVIOUS
<1> HIDE DEF ups, dead, slots
<1>54. swept = {o} \cup ups OBVIOUS
<1> HIDE DEF swept
<1>6. alive \subseteq Objs /\ Live \subseteq alive /\ swept \subseteq alive /\ dead \cap Live = {}
  BY <1>3, <1>4, <1>5, <1>52, <1>54 DEF TypeOK, Live
<1>7. OtherWhite' = OtherWhite /\ white # OtherWhite /\ white \in Whites
  BY <1>1, <1>3 DEF OtherWhite, Whites, TypeOK
<1>8. \A x \in Objs : /\ x \in swept => ~isdead(x)'
                      /\ x \notin swept => (isdead(x)' <=> isdead(x))
  BY <1>1, <1>7 DEF isdead
<1>9. Live' = Live
  <2>1. \A x \in Objs : x \in Live' <=> x \in alive' /\ ~isdead(x)' BY DEF Live
  <2>2. \A x \in Objs : x \in Live <=> x \in alive /\ ~isdead(x) BY DEF Live
  <2>3. \A x \in Objs : x \in Live' <=> x \in Live
    BY <1>1, <1>6, <1>8, <1>52, <1>53, <2>1, <2>2
  <2>4. Live' \subseteq Objs BY <1>1, <1>6 DEF Live
  <2> QED BY <1>6, <2>3, <2>4
<1>57. slots \subseteq Objs /\ (slots # {} => o \in Threads)
  BY <1>3, <1>5, <1>6, <1>52, <1>54, <1>55 DEF TypeOK
<1>58. o \in Live => slots \subseteq Live
  BY <1>3, <1>5, <1>55 DEF LiveClosed
<1>10. TypeOK'
  BY <1>1, <1>3, <1>7, <1>57 DEF TypeOK
<1>11. /\ OpenUps' \subseteq OpenUps /\ OpenUps \subseteq Objs
       /\ \A x \in OpenUps' : openin'[x] = openin[x] /\ x \notin dead
  <2>1. ASSUME NEW x \in OpenUps' PROVE x \in OpenUps /\ openin'[x] = openin[x] /\ x \notin dead
    <3>1. x \in Objs /\ openin'[x] # None BY <2>1 DEF OpenUps
    <3>2. openin'[x] = openin[x] /\ ~(x \in ups /\ (isdead(o) \/ x \in dead)) BY <1>1, <3>1
    <3>3. x \in OpenUps BY <3>1, <3>2 DEF OpenUps
    <3>4. x \in dead => x \in ups BY <1>4, <1>52, <1>54, <3>3
    <3> QED BY <3>2, <3>3, <3>4
  <2> QED BY <2>1 DEF OpenUps
<1>12. HeapShape'
  <2>1. \A x \in Objs : ptr'[x] # {} => x \in alive' /\ x \notin Strings \cup WeakTabs
    <3>1. o \in Threads => o \notin Strings \cup WeakTabs
      BY DEF Threads, Strings, WeakTabs, Of
    <3> QED BY <1>1, <1>3, <1>4, <1>57, <3>1 DEF HeapShape
  <2>2. \A x \in Objs : entry'[x] # {} => x \in alive' \cap WeakTabs
    BY <1>1, <1>3 DEF HeapShape
  <2>3. ASSUME NEW x \in OpenUps' PROVE x \in alive' \cap Upvals /\ openin'[x] \in alive'
    <3>1. x \in OpenUps /\ openin'[x] = openin[x] /\ x \notin dead BY <1>11
    <3>2. x \in alive \cap Upvals /\ openin[x] \in alive BY <1>3, <3>1 DEF HeapShape
    <3>3. openin[x] \in Threads BY <1>3, <1>11, <3>1 DEF OpenUps, TypeOK
    <3>4. openin[x] \notin ups BY <1>5, <3>3 DEF Threads, Upvals, Of
    <3>5. openin[x] \notin dead
      <4> SUFFICES ASSUME openin[x] \in dead PROVE FALSE
        OBVIOUS
      <4>1. openin[x] = o /\ isdead(o) BY <1>52, <1>54, <3>4
      <4>2. x \in ups BY <1>51, <3>1, <4>1
      <4>3. openin'[x] = None BY <1>1, <1>11, <3>1, <4>1, <4>2
      <4> QED BY <2>1, <4>3 DEF OpenUps
    <3> QED BY <1>1, <3>1, <3>2, <3>5
  <2> QED BY <2>1, <2>2, <2>3 DEF HeapShape
<1>13. RootsLive' BY <1>1, <1>3, <1>9 DEF RootsLive
<1>14. LiveClosed'
  <2>1. \A x \in Live : /\ x \in Objs /\ entry'[x] = entry[x]
                        /\ ptr'[x] \subseteq ptr[x] \cup Live
    BY <1>1, <1>6, <1>58
  <2>2. \A x \in OpenUps' : ptr'[x] = ptr[x] /\ openin'[x] = openin[x] /\ x \in OpenUps
    BY <1>1, <1>4, <1>11
  <2> QED BY <1>3, <1>9, <2>1, <2>2 DEF LiveClosed
<1>15. SweepOrder'
  <2>1. dead \cap unswept \subseteq {o} BY <1>3, <1>5, <1>52, <1>54 DEF SweepOrder
  <2> QED BY <1>1, <1>3, <1>11, <2>1 DEF SweepOrder, Sweeping
<1>16. Swept'
  <2> SUFFICES ASSUME NEW x \in alive'
               PROVE  mark'[x] = white \/ x \in tmudata \cup unswept' \/ openin'[x] \in unswept'
    BY <1>1 DEF Swept
  <2>1. x \in alive /\ x \in Objs BY <1>1, <1>6
  <2>2. CASE x \in swept BY <1>1, <2>1, <2>2
  <2>3. CASE x \notin swept
    <3>1. mark'[x] = mark[x] /\ openin'[x] = openin[x] /\ x # o /\ x \notin ups
      BY <1>1, <1>54, <2>1, <2>3
    <3>2. mark[x] = white \/ x \in tmudata \cup unswept \/ openin[x] \in unswept
      BY <1>3, <2>1 DEF Swept, Marking, Sweeping
    <3>3. openin[x] = o => x \in ups BY <1>4, <1>51, <2>1 DEF OpenUps
    <3> QED BY <1>1, <3>1, <3>2, <3>3
  <2> QED BY <2>2, <2>3
<1>17. MarkSound' /\ OneList' BY DEF MarkSound, OneList, Marking, Sweeping
<1>18. OpenNotBlack' BY <1>1, <1>3, <1>7, <1>11 DEF OpenNotBlack, Whites
<1>19. FinalizedOK'
  <2>1. tmudata \cap dead = {} BY <1>3, <1>6 DEF RootsLive
  <2>2. tmudata' \subseteq finalized' BY <1>1, <1>3, <2>1 DEF FinalizedOK
  <2>3. ASSUME NEW u \in Udata \cap alive', isdead(u)' PROVE u \in finalized'
    <3>1. u \in alive /\ u \in Objs BY <1>1, <1>6, <2>3
    <3>2. u \notin swept /\ isdead(u) BY <1>8, <2>3, <3>1
    <3> QED BY <1>1, <1>3, <1>52, <2>3, <3>1, <3>2 DEF FinalizedOK
  <2> QED BY <2>2, <2>3 DEF FinalizedOK
<1>20. ASSUME NEW t \in Live PROVE Children(t)' = Children(t)
  <2>1. t \in Objs /\ t \notin dead /\ entry'[t] = entry[t] BY <1>1, <1>6
  <2>2. CASE t \notin Threads
    <3>1. t # o => ptr'[t] = ptr[t] BY <1>1, <2>1
    <3>2. t = o => ptr'[t] = ptr[t] BY <1>1, <1>57, <2>1, <2>2
    <3> QED BY <2>1, <2>2, <3>1, <3>2 DEF Children, Threads, Of
  <2>3. CASE t \in Threads
    <3>1. Stack(t)' \subseteq Stack(t)
      <4>1. ptr'[t] \subseteq Stack(t)
        BY <1>1, <1>5, <1>55, <2>1 DEF Stack, OpenUpvals
      <4>2. ASSUME NEW u \in OpenUpvals(t)' PROVE ptr'[u] \subseteq Stack(t)
        <5>1. u \in Objs /\ u \in OpenUps'
          BY <1>1, <1>6, <2>1, <4>2 DEF OpenUpvals, OpenUps
        <5>2. openin[u] = t /\ u \in alive \cap Upvals /\ u # o /\ u \notin dead
          BY <1>1, <1>4, <1>11, <4>2, <5>1 DEF OpenUpvals
        <5> QED BY <1>1, <5>1, <5>2 DEF Stack, OpenUpvals
      <4> QED BY <4>1, <4>2 DEF Stack
    <3>2. Stack(t) \subseteq Stack(t)'
      <4>1. ptr[t] \subseteq Stack(t)' BY <1>1, <2>1 DEF Stack
      <4>2. ASSUME NEW u \in OpenUpvals(t) PROVE ptr[u] \subseteq Stack(t)'
        <5>1. u \in Objs /\ u \in OpenUps /\ openin[u] = t /\ u \in alive \cap Upvals
          BY <1>6, <2>1, <4>2 DEF OpenUpvals, OpenUps
        <5>2. CASE u \in dead
          <6>1. u \in ups /\ t = o BY <1>4, <1>5, <1>52, <1>54, <5>1, <5>2
          <6>2. ptr[u] \subseteq ptr'[t] BY <1>1, <1>56, <2>1, <5>2, <6>1
          <6> QED BY <6>2 DEF Stack
        <5>3. CASE u \notin dead
          <6>1. isdead(o) => t # o BY <1>53, <1>54, <2>1
          <6>2. u \in ups => t = o BY <1>5, <5>1
          <6>3. openin'[u] = t /\ u \in alive' /\ ptr'[u] = ptr[u]
            BY <1>1, <1>4, <5>1, <5>3, <6>1, <6>2
          <6> QED BY <5>1, <6>3 DEF Stack, OpenUpvals
        <5> QED BY <5>2, <5>3
      <4> QED BY <4>1, <4>2 DEF Stack
    <3>3. Stack(t)' = Stack(t) BY <3>1, <3>2
    <3>4. Kind[t] = "thread" BY <2>3 DEF Threads, Of
    <3>5. Children(t) = Stack(t) /\ Children(t)' = Stack(t)' BY <3>4 DEF Children
    <3> QED BY <3>3, <3>5
  <2> QED BY <2>2, <2>3
<1> QED BY <1>9, <1>10, <1>12, <1>13, <1>14, <1>15, <1>16, <1>17, <1>18, <1>19, <1>20 DEF IInv

(* A finalizer is called: the userdata comes on the stack, as white as the rest. *)
LEMMA GCTMStep ==
  ASSUME IInv, NEW u, GCTM(u)
  PROVE  IInv'
<1>1. /\ gcstate = "finalize" /\ u \in tmudata /\ tmudata' = tmudata \ {u}
      /\ mark' = [mark EXCEPT ![u] = white]
      /\ ptr' = [ptr EXCEPT ![running] = @ \cup {u}]
      /\ UNCHANGED <<alive, entry, openin, running, finalized, lists, gcstate, white,
                     unswept, full>>
  BY DEF GCTM
<1>2. /\ TypeOK /\ HeapShape /\ RootsLive /\ LiveClosed /\ SweepOrder /\ Swept
      /\ OpenNotBlack /\ FinalizedOK
  BY DEF IInv
<1>3. UNCHANGED <<gray, grayagain, weak>> BY <1>1 DEF lists
<1>4. /\ u \in Live /\ u \in Objs /\ running \in Live /\ running \in Objs
      /\ running \in Threads /\ alive \subseteq Objs
  BY <1>1, <1>2 DEF RootsLive, Live, TypeOK
<1>5. /\ \A o \in Objs : mark'[o] = IF o = u THEN white ELSE mark[o]
      /\ \A o \in Objs : ptr'[o] = IF o = running THEN ptr[o] \cup {u} ELSE ptr[o]
      /\ OpenUps' = OpenUps
  BY <1>1, <1>2 DEF TypeOK, OpenUps
<1>6. white # OtherWhite /\ OtherWhite' = OtherWhite /\ white \in Whites
  BY <1>1, <1>2 DEF OtherWhite, TypeOK, Whites
<1>7. \A o \in Objs : isdead(o)' <=> isdead(o)
  BY <1>4, <1>5, <1>6 DEF isdead, Live
<1>8. Live' = Live BY <1>1, <1>4, <1>7 DEF Live
<1>9. TypeOK' BY <1>1, <1>2, <1>3, <1>4, <1>6 DEF TypeOK
<1>10. running \notin Strings \cup WeakTabs /\ running \notin OpenUps
  BY <1>2, <1>4 DEF HeapShape, Threads, Strings, WeakTabs, Upvals, Of
<1>11. HeapShape' BY <1>1, <1>2, <1>4, <1>5, <1>10 DEF HeapShape, Live
<1>12. RootsLive' BY <1>1, <1>2, <1>8 DEF RootsLive
<1>13. LiveClosed'
  <2>1. \A o \in Live : ptr'[o] \subseteq Live BY <1>2, <1>4, <1>5 DEF LiveClosed, Live
  <2>2. \A o \in OpenUps : ptr'[o] = ptr[o] BY <1>5, <1>10 DEF OpenUps
  <2> QED BY <1>1, <1>2, <1>5, <1>8, <2>1, <2>2 DEF LiveClosed
<1>14. SweepOrder' BY <1>1, <1>2, <1>5 DEF SweepOrder, Sweeping
<1>15. Swept' BY <1>1, <1>2, <1>4, <1>5 DEF Swept, Marking
<1>16. MarkSound' /\ OneList' BY <1>1 DEF MarkSound, OneList, Marking
<1>17. OpenNotBlack' BY <1>2, <1>5, <1>6 DEF OpenNotBlack, OpenUps, Whites
<1>18. FinalizedOK' BY <1>1, <1>2, <1>7 DEF FinalizedOK, Udata, Of
<1> QED BY <1>9, <1>11, <1>12, <1>13, <1>14, <1>15, <1>16, <1>17, <1>18 DEF IInv

(* A phase ends: nothing but the phase changes. *)
LEMMA PhaseStep ==
  ASSUME IInv, EndSweepString \/ EndSweep \/ EndCycle
  PROVE  IInv'
<1>1. UNCHANGED <<heap, mark, finalized, lists, white, unswept, tmudata>>
  BY DEF EndSweepString, EndSweep, EndCycle
<1>2. /\ gcstate \in {"sweepstring", "sweep", "finalize"}
      /\ gcstate' \in {"sweep", "finalize", "pause"}
      /\ full' \in {"no", "reset", "cycle"}
      /\ gcstate' # "sweep" => unswept = {}
  BY DEF EndSweepString, EndSweep, EndCycle, IInv, TypeOK, SweepOrder, Sweeping
<1>3. UNCHANGED <<gray, grayagain, weak>> BY <1>1 DEF lists
<1>4. Live' = Live BY <1>1 DEF Live, isdead, OtherWhite, heap
<1>5. /\ HeapShape' /\ LiveClosed' /\ OpenUps' = OpenUps
      /\ UNCHANGED <<alive, ptr, entry, openin, running>>
  BY <1>1, <1>4, SameHeap
<1>6. TypeOK' BY <1>1, <1>2, <1>3, <1>5 DEF IInv, TypeOK
<1>7. RootsLive' BY <1>1, <1>4, <1>5 DEF IInv, RootsLive
<1>8. SweepOrder' BY <1>1, <1>2, <1>5 DEF IInv, SweepOrder, Sweeping
<1>9. Swept' BY <1>1, <1>2, <1>5 DEF IInv, Swept, Marking
<1>10. MarkSound' /\ OneList' BY <1>2 DEF MarkSound, OneList, Marking
<1>11. OpenNotBlack' BY <1>1, <1>5 DEF IInv, OpenNotBlack
<1>12. FinalizedOK' BY <1>1, <1>5 DEF IInv, FinalizedOK, isdead, OtherWhite
<1> QED BY <1>5, <1>6, <1>7, <1>8, <1>9, <1>10, <1>11, <1>12 DEF IInv

(* luaC_fullgc gives up a mark phase: all that is allocated is to be swept. *)
LEMMA BeginFullGCStep ==
  ASSUME IInv, BeginFullGC
  PROVE  IInv'
<1>1. UNCHANGED <<heap, mark, finalized, white, tmudata>> /\ full' = "reset"
  BY DEF BeginFullGC
<1>2. Live' = Live BY <1>1 DEF Live, isdead, OtherWhite, heap
<1>3. /\ HeapShape' /\ LiveClosed' /\ OpenUps' = OpenUps
      /\ UNCHANGED <<alive, ptr, entry, openin, running>>
  BY <1>1, <1>2, SameHeap
<1>4. RootsLive' BY <1>1, <1>2, <1>3 DEF IInv, RootsLive
<1>5. OpenNotBlack' BY <1>1, <1>3 DEF IInv, OpenNotBlack
<1>6. FinalizedOK' BY <1>1, <1>3 DEF IInv, FinalizedOK, isdead, OtherWhite
<1>7. CASE gcstate \in {"pause", "propagate"}
  <2>1. /\ unswept' = {o \in alive \ tmudata : openin[o] = None}
        /\ gray' = {} /\ grayagain' = {} /\ weak' = {} /\ gcstate' = "sweepstring"
    BY <1>7 DEF BeginFullGC
  <2>2. TypeOK' BY <1>1, <1>3, <2>1 DEF IInv, TypeOK
  <2>3. SweepOrder' BY <1>1, <1>3, <2>1 DEF SweepOrder, Sweeping, OpenUps
  <2>4. Swept'
    <3> SUFFICES ASSUME NEW o \in alive, openin[o] # None, o \notin tmudata
                 PROVE  openin[o] \in unswept'
      BY <1>1, <1>3, <2>1 DEF Swept
    <3>1. o \in OpenUps /\ o \in Objs BY DEF OpenUps, IInv, TypeOK
    <3>2. openin[o] \in alive /\ openin[o] \in Threads
      BY <3>1 DEF IInv, HeapShape, TypeOK
    <3>3. /\ openin[o] \notin Upvals /\ openin[o] \notin tmudata
          /\ openin[o] \in Objs
      BY <3>2 DEF Threads, Upvals, Udata, Of, IInv, TypeOK
    <3>4. openin[openin[o]] = None BY <3>3 DEF IInv, HeapShape, OpenUps
    <3> QED BY <2>1, <3>2, <3>3, <3>4
  <2>5. MarkSound' /\ OneList' BY <2>1 DEF MarkSound, OneList, Marking
  <2> QED BY <1>3, <1>4, <1>5, <1>6, <2>2, <2>3, <2>4, <2>5 DEF IInv
<1>8. CASE gcstate \notin {"pause", "propagate"}
  <2>1. UNCHANGED <<unswept, gray, grayagain, weak, gcstate>>
    BY <1>8 DEF BeginFullGC, lists
  <2>2. TypeOK' BY <1>1, <1>3, <2>1 DEF IInv, TypeOK
  <2>3. SweepOrder' BY <1>1, <1>3, <2>1 DEF IInv, SweepOrder, Sweeping
  <2>4. Swept' BY <1>1, <1>3, <2>1 DEF IInv, Swept, Marking
  <2>5. MarkSound' /\ OneList' BY <1>8, <2>1 DEF MarkSound, OneList, Marking
  <2> QED BY <1>3, <1>4, <1>5, <1>6, <2>2, <2>3, <2>4, <2>5 DEF IInv
<1> QED BY <1>7, <1>8

------------------------------------------------------------------------------
(* Every step of the collector and of the mutator preserves the invariant *)

LEMMA CollectorStep ==
  ASSUME IInv, Collector
  PROVE  IInv'
<1>1. CASE StartCycle BY <1>1, StartCycleStep
<1>2. CASE atomic BY <1>2, AtomicStep
<1>3. CASE EndSweepString \/ EndSweep \/ EndCycle BY <1>3, PhaseStep
<1>4. CASE RestartFullGC BY <1>4, RestartFullGCStep
<1>5. ASSUME NEW o \in Objs, propagatemark(o) PROVE IInv' BY <1>5, PropagateStep
<1>6. ASSUME NEW o \in Objs, SweepString(o) \/ Sweep(o) PROVE IInv'
  <2>1. o \in unswept /\ sweeplist(o) /\ Sweeping /\ gcstate' = gcstate
    BY <1>6 DEF SweepString, Sweep, Sweeping
  <2> QED BY <2>1, SweepStep
<1>7. ASSUME NEW o \in Objs, GCTM(o) PROVE IInv' BY <1>7, GCTMStep
<1> QED BY <1>1, <1>2, <1>3, <1>4, <1>5, <1>6, <1>7 DEF Collector

LEMMA MutatorStep ==
  ASSUME IInv, Mutator
  PROVE  IInv'
<1>1. CASE BeginFullGC BY <1>1, BeginFullGCStep
<1>2. ASSUME NEW o \in Objs, New(o) PROVE IInv' BY <1>2, NewStep
<1>3. ASSUME NEW o \in Objs, InternString(o) PROVE IInv' BY <1>3, InternStringStep
<1>4. ASSUME NEW o \in Objs, Load(o) PROVE IInv' BY <1>4, LoadStep
<1>5. ASSUME NEW o \in Objs, Pop(o) PROVE IInv' BY <1>5, PopStep
<1>6. ASSUME NEW o \in Local, NEW x \in Operands, SetTable(o, x) PROVE IInv'
  BY <1>6, SetTableStep
<1>7. ASSUME NEW o \in Local, NEW x \in Operands, SetField(o, x) PROVE IInv'
  BY <1>7, SetFieldStep
<1>8. ASSUME NEW o \in Local, NEW k \in Operands, NEW v \in Operands, SetWeak(o, k, v)
      PROVE  IInv'
  BY <1>8, SetWeakStep
<1>9. ASSUME NEW o \in Local, NEW x \in ptr[o], Clear(o, x) PROVE IInv'
  BY <1>9, ClearStep
<1>10. ASSUME NEW o \in Local, NEW e \in entry[o], ClearWeak(o, e) PROVE IInv'
  BY <1>10, ClearWeakStep
<1>11. ASSUME NEW c \in Values, NEW u \in Upvals, NEW x \in ptr[running],
              CaptureNew(c, u, x)
       PROVE  IInv'
  BY <1>11, CaptureNewStep
<1>12. ASSUME NEW c \in Values, NEW u \in Upvals, CaptureAgain(c, u) PROVE IInv'
  BY <1>12, CaptureAgainStep
<1>13. ASSUME NEW c \in Local, NEW u \in Upvals, NEW x \in Operands, SetUpval(c, u, x)
       PROVE  IInv'
  BY <1>13, SetUpvalStep
<1>14. ASSUME NEW u \in Upvals, CloseUpval(u) PROVE IInv' BY <1>14, CloseUpvalStep
<1>15. ASSUME NEW th \in Threads, NEW X \in SUBSET ptr[running], Switch(th, X)
       PROVE  IInv'
  BY <1>15, SwitchStep
<1> QED BY Zenon, <1>1, <1>2, <1>3, <1>4, <1>5, <1>6, <1>7, <1>8, <1>9, <1>10, <1>11,
           <1>12, <1>13, <1>14, <1>15 DEF Mutator

(* IInv is inductive: no step of the collector or of the program leads out of it. *)
THEOREM Inductive == IInv /\ [Next]_vars => IInv'
<1> SUFFICES ASSUME IInv, [Next]_vars PROVE IInv'
  OBVIOUS
<1>1. CASE Collector BY <1>1, CollectorStep
<1>2. CASE Mutator BY <1>2, MutatorStep
<1>3. CASE UNCHANGED vars
  <2>1. /\ UNCHANGED <<alive, ptr, entry, openin, running, mark, finalized>>
        /\ UNCHANGED <<gray, grayagain, weak>>
        /\ UNCHANGED <<gcstate, white, unswept, tmudata, full>>
    BY <1>3 DEF vars, heap, lists, cycle
  <2>2. /\ UNCHANGED <<Live, OpenUps, MarkedNow, Queued, OtherWhite>>
        /\ \A o \in Objs : isdead(o)' <=> isdead(o)
    BY <2>1 DEF Live, OpenUps, MarkedNow, Queued, isdead, OtherWhite
  <2>3. (TypeOK /\ HeapShape /\ RootsLive /\ LiveClosed /\ SweepOrder)'
    BY <2>1, <2>2 DEF IInv, TypeOK, HeapShape, RootsLive, LiveClosed, SweepOrder, Sweeping
  <2>4. (Swept /\ MarkSound /\ OneList /\ OpenNotBlack /\ FinalizedOK)'
    BY <2>1, <2>2 DEF IInv, TypeOK, Swept, MarkSound, OneList, OpenNotBlack, FinalizedOK,
                      Marking, Udata, Of
  <2> QED BY <2>3, <2>4 DEF IInv
<1> QED BY <1>1, <1>2, <1>3 DEF Next

THEOREM Invariance == Spec => []IInv
BY Initially, Inductive, PTL DEF Spec

------------------------------------------------------------------------------
(* What follows from it *)

(* The four invariants of the colours, in which the assertions of lgc.c and lfunc.c
   have their reason, hold in every heap. *)
THEOREM ColoursHold == Spec => []Colours
<1>1. IInv => Colours
  <2> SUFFICES ASSUME IInv PROVE Colours
    OBVIOUS
  <2>1. alive \subseteq Objs /\ white # OtherWhite
    BY DEF IInv, TypeOK, OtherWhite, Whites
  <2>2. ASSUME Marking, NEW o \in alive \ tmudata, mark[o] = "black",
               NEW x \in Children(o)
        PROVE  mark[x] \notin Whites
    <3>1. MarkSound /\ OpenNotBlack /\ HeapShape BY DEF IInv
    <3>2. o \in MarkedNow /\ o \in Objs BY <2>1, <2>2 DEF MarkedNow, Whites
    <3>3. o \notin Queued /\ o \notin OpenUps
      BY <2>2, <3>1 DEF MarkSound, OpenNotBlack
    <3>4. o \notin Threads \cup WeakTabs BY <2>2, <3>1, <3>2, <3>3 DEF MarkSound
    <3>5. Children(o) = ptr[o] BY <3>2, <3>4 DEF Children, Threads, WeakTabs, Of
    <3>6. o \notin Strings BY <2>2, <3>1, <3>2, <3>5 DEF HeapShape
    <3>7. ptr[o] \subseteq MarkedNow BY <2>2, <3>1, <3>2, <3>3, <3>6 DEF MarkSound
    <3> QED BY <2>2, <3>5, <3>7 DEF MarkedNow
  <2>3. ASSUME gcstate \in {"pause", "propagate"}, NEW o \in alive PROVE ~isdead(o)
    <3>1. CASE Marking BY <2>3, <3>1 DEF IInv, MarkSound
    <3>2. CASE gcstate = "pause"
      <4>1. mark[o] = white \/ o \in tmudata
        BY <2>3, <3>2 DEF IInv, Swept, SweepOrder, Marking, Sweeping
      <4> QED BY <2>1, <4>1 DEF isdead, IInv, RootsLive, Live
    <3> QED BY <2>3, <3>1, <3>2 DEF Marking
  <2>4. ASSUME NEW u \in alive \cap Upvals, openin[u] # None
        PROVE  /\ mark[u] # "black"
               /\ gcstate \in {"pause", "finalize"} => mark[u] # "gray"
    <3>1. u \in OpenUps BY <2>1, <2>4 DEF OpenUps
    <3>2. u \notin tmudata BY <2>4 DEF IInv, TypeOK, Upvals, Udata, Of
    <3>3. gcstate \in {"pause", "finalize"} => mark[u] = white
      BY <2>4, <3>2 DEF IInv, Swept, SweepOrder, Marking, Sweeping
    <3>4. white # "gray" BY DEF IInv, TypeOK, Whites
    <3> QED BY <3>1, <3>3, <3>4 DEF IInv, OpenNotBlack
  <2> QED BY <2>2, <2>3, <2>4 DEF Colours, TriColour, NothingDeadWhileMarking,
                                  OpenUpvalsStayGray, IInv
<1> QED BY Invariance, <1>1, PTL

(* All that the program can reach is live. *)
LEMMA ReachableLive ==
  ASSUME IInv
  PROVE  Reachable \subseteq Live /\ Live \subseteq Objs
<1>1. Live \subseteq Objs BY DEF Live, IInv, TypeOK
<1>2. ASSUME NEW o \in Live PROVE Children(o) \subseteq Live
  <2>1. ptr[o] \subseteq Live /\ \A e \in entry[o] : e[1] \in Live /\ e[2] \in Live
    BY DEF IInv, LiveClosed
  <2>2. Stack(o) \subseteq Live
    <3> SUFFICES ASSUME NEW u \in OpenUpvals(o) PROVE ptr[u] \subseteq Live
      BY <2>1 DEF Stack
    <3>1. u \in OpenUps /\ openin[u] = o
      BY <1>1 DEF OpenUpvals, OpenUps, IInv, TypeOK
    <3> QED BY <3>1 DEF IInv, LiveClosed
  <2> QED BY <2>1, <2>2 DEF Children
<1> DEFINE roots == {Main, Globals, running} \cup tmudata
<1>3. roots \subseteq Live BY DEF IInv, RootsLive
<1>4. Reachable = Closure(roots, Children, Objs) BY Zenon DEF Reachable
<1> HIDE DEF roots
<1>5. roots \cap Objs \subseteq Live /\ \A o \in Live \cap Objs : Children(o) \cap Objs \subseteq Live
  BY <1>2, <1>3
<1>6. Closure(roots, Children, Objs) \subseteq Live BY <1>5, ChildrenLeast, Zenon
<1> QED BY <1>1, <1>4, <1>6

(* Nothing that can be reached, by a weak reference or otherwise, is erased. *)
THEOREM NothingDangles == Spec => []NoDangling
<1>1. IInv => NoDangling
  <2> SUFFICES ASSUME IInv PROVE NoDangling
    OBVIOUS
  <2>1. Reachable \subseteq Live /\ Live \subseteq alive BY ReachableLive DEF Live
  <2>2. \A t \in Live : \A e \in entry[t] : e[1] \in Live /\ e[2] \in Live
    BY DEF IInv, LiveClosed
  <2> QED BY <2>1, <2>2 DEF NoDangling
<1> QED BY Invariance, <1>1, PTL

(* What a weak table shows after a mark phase is not about to be erased. *)
THEOREM WeakEntriesLive == Spec => []WeakEntriesAlive
<1>1. IInv => (NoDangling => WeakEntriesAlive)
  <2> SUFFICES ASSUME IInv, NoDangling PROVE WeakEntriesAlive
    OBVIOUS
  <2>1. \A t \in Reachable : \A e \in entry[t] : e[1] \in Live /\ e[2] \in Live
    BY ReachableLive DEF IInv, LiveClosed
  <2> QED BY <2>1 DEF WeakEntriesAlive, Live
<1> QED BY Invariance, NothingDangles, <1>1, PTL

------------------------------------------------------------------------------
(* Finalizers *)

(* Only the sweep erases userdata, and only the atomic step queues them. *)
LEMMA UdataSteps ==
  ASSUME IInv, [Next]_vars
  PROVE  \/ atomic
         \/ \E o \in Objs : SweepString(o) \/ Sweep(o)
         \/ Udata \cap alive \subseteq alive' /\ tmudata' \subseteq tmudata
<1>1. CASE UNCHANGED vars BY <1>1 DEF vars, heap, cycle
<1>2. CASE Collector
  <2>1. CASE StartCycle \/ EndSweepString \/ EndSweep \/ EndCycle \/ RestartFullGC
    BY <2>1 DEF StartCycle, EndSweepString, EndSweep, EndCycle, RestartFullGC, heap
  <2>2. CASE \E o \in Objs : propagatemark(o) \/ GCTM(o)
    BY <2>2 DEF propagatemark, GCTM, heap, cycle
  <2> QED BY <1>2, <2>1, <2>2 DEF Collector
<1>3. CASE Mutator
  <2>1. CASE BeginFullGC BY <2>1 DEF BeginFullGC, heap
  <2>2. CASE \E o \in Objs : New(o) \/ InternString(o) \/ Load(o) \/ Pop(o)
    BY <2>2 DEF New, InternString, Load, Pop, cycle
  <2>3. CASE \E o \in Local : \/ \E x \in Operands : SetTable(o, x) \/ SetField(o, x)
                              \/ \E k, v \in Operands : SetWeak(o, k, v)
                              \/ \E x \in ptr[o] : Clear(o, x)
                              \/ \E e \in entry[o] : ClearWeak(o, e)
    BY <2>3, ZenonT(30) DEF SetTable, SetField, SetWeak, Clear, ClearWeak, cycle
  <2>4. CASE \E c \in Values, u \in Upvals :
               \/ \E x \in ptr[running] : CaptureNew(c, u, x)
               \/ CaptureAgain(c, u)
    BY <2>4 DEF CaptureNew, CaptureAgain, cycle
  <2>5. CASE \E c \in Local, u \in Upvals, x \in Operands : SetUpval(c, u, x)
    BY <2>5 DEF SetUpval, cycle
  <2>6. CASE \E u \in Upvals : CloseUpval(u)
    <3>1. PICK u \in Upvals : CloseUpval(u) BY <2>6
    <3>2. alive \ {u} \subseteq alive' /\ tmudata' = tmudata
      BY <3>1 DEF CloseUpval, cycle
    <3> QED BY <3>2 DEF Udata, Upvals, Of
  <2>7. CASE \E th \in Threads, X \in SUBSET ptr[running] :
               Cardinality(X) <= 1 /\ Switch(th, X)
    BY <2>7 DEF Switch, cycle
  <2> QED BY Zenon, <1>3, <2>1, <2>2, <2>3, <2>4, <2>5, <2>6, <2>7 DEF Mutator
<1> QED BY <1>1, <1>2, <1>3 DEF Next

(* The contract of finalizers: a userdata is queued once, before it is erased, and
   with it leaves every weak table that showed it as a value. *)
THEOREM FinalizersKept == Spec => Finalizers
<1> DEFINE First == \A u \in Udata :
             /\ (u \in alive /\ u \notin alive') => u \in finalized \ tmudata
             /\ (u \notin tmudata /\ u \in tmudata') => u \notin finalized
           Leave == tmudata' \ tmudata # {} =>
             \A t \in weak' : \A e \in entry'[t] : e[2] \notin tmudata'
<1>1. ASSUME IInv, [Next]_vars PROVE First /\ Leave
  <2>1. CASE atomic
    <3>1. TypeOK /\ HeapShape /\ RootsLive /\ MarkSound /\ OpenNotBlack /\ Marking
          /\ FinalizedOK
      BY <1>1, <2>1 DEF IInv, atomic, Marking
    <3>2. AtomicM4 \in MarkRecord BY <3>1, AtomicMarks DEF Consistent
    <3>3. /\ tmudata' = Finals(AtomicM3) /\ UNCHANGED alive
          /\ entry' = cleartable(AtomicM4, finalized \cup separateudata(AtomicM3))
          /\ weak' = AtomicM4.weak
      BY <2>1, <3>1, <3>2, AtomicEffect
    <3>4. First BY <3>3 DEF Finals, separateudata
    <3>5. ASSUME NEW t \in weak', NEW e \in entry'[t] PROVE e[2] \notin tmudata'
      <4>1. t \in Objs /\ t \in AtomicM4.weak
        BY <3>2, <3>3, <3>5 DEF MarkRecord, WeakTabs, Of
      <4>2. ~Cleared(AtomicM4, finalized \cup separateudata(AtomicM3), e)
        BY <3>3, <3>5, <4>1 DEF cleartable
      <4>3. e[2] \in Strings \/ e[2] \notin finalized \cup separateudata(AtomicM3)
        BY <4>2 DEF Cleared, ValueCleared
      <4>4. Finals(AtomicM3) \subseteq finalized \cup separateudata(AtomicM3)
        BY <3>1 DEF Finals, FinalizedOK
      <4>5. Finals(AtomicM3) \subseteq Udata
        BY <3>1 DEF Finals, separateudata, TypeOK
      <4> QED BY <3>3, <4>3, <4>4, <4>5 DEF Udata, Strings, Of
    <3> QED BY <3>4, <3>5, SMTT(30)
  <2>2. CASE \E o \in Objs : SweepString(o) \/ Sweep(o)
    <3>1. PICK o \in Objs : SweepString(o) \/ Sweep(o) BY <2>2
    <3> DEFINE ups == IF o \in Threads THEN OpenUpvals(o) ELSE {}
               dead == {x \in {o} \cup ups : isdead(x)}
    <3>2. alive' = alive \ dead /\ UNCHANGED tmudata
      BY <3>1 DEF SweepString, Sweep, sweeplist
    <3>3. \A x \in dead : isdead(x) OBVIOUS
    <3> HIDE DEF dead
    <3>4. tmudata \cap dead = {} BY <1>1, <3>3 DEF IInv, RootsLive, Live
    <3> QED BY <1>1, <3>2, <3>3, <3>4 DEF IInv, FinalizedOK
  <2>3. CASE Udata \cap alive \subseteq alive' /\ tmudata' \subseteq tmudata
    BY <2>3
  <2> QED BY <1>1, <2>1, <2>2, <2>3, UdataSteps, SMTT(30)
<1>2. IInv /\ [Next]_vars => First /\ Leave BY <1>1
<1>4. (First /\ Leave) => [First]_vars /\ [Leave]_vars OBVIOUS
<1>5. Spec => [][First]_vars /\ [][Leave]_vars
  BY Invariance, <1>2, <1>4, PTL DEF Spec
<1> QED BY <1>5, Zenon DEF Finalizers, FinalizedFirst, FinalizedLeaveValues

------------------------------------------------------------------------------
(* What a full collection leaves *)

(* Nothing is marked but what a closed set holds that has the roots of marking. *)
Closed(P) == \A a \in P : Children(a) \cap alive \subseteq P

LEMMA MarkWithin ==
  ASSUME NEW m \in MarkRecord, NEW X, NEW P, TypeOK, Closed(P),
         X \cap alive \subseteq P, NonWhite(m) \subseteq P
  PROVE  NonWhite(reallymarkobject(m, X)) \subseteq P
<1> DEFINE W == WhiteIn(m)
           S == Closure(X, Immediate, W)
           r == reallymarkobject(m, X)
<1>1. r = [m EXCEPT !.mark = [o \in Objs |-> IF o \in S THEN Marked(o) ELSE @[o]],
                    !.gray = @ \cup {o \in S : Listed(o)}]
  BY Zenon DEF reallymarkobject
<1>2. X \cap W \subseteq P BY DEF WhiteIn
<1>3. \A a \in P \cap W : Immediate(a) \cap W \subseteq P
  <2>1. \A a \in Objs : Immediate(a) \subseteq Children(a) BY DEF Immediate, Children
  <2> QED BY <2>1 DEF Closed, WhiteIn, TypeOK
<1>4. S \subseteq P
  <2> HIDE DEF W
  <2> QED BY <1>2, <1>3, ImmediateLeast
<1> HIDE DEF S, r
<1>5. r.mark = [o \in Objs |-> IF o \in S THEN Marked(o) ELSE m.mark[o]]
  BY <1>1 DEF MarkRecord
<1>6. NonWhite(r) \subseteq NonWhite(m) \cup S BY <1>5 DEF NonWhite, TypeOK
<1> QED BY <1>4, <1>6 DEF r

LEMMA PropagateWithin ==
  ASSUME NEW m \in MarkRecord, NEW P, TypeOK, Closed(P),
         m.gray \subseteq NonWhite(m), NonWhite(m) \subseteq P
  PROVE  NonWhite(propagateall(m)) \subseteq P
<1> DEFINE W == WhiteIn(m)
           X == UNION {Children(o) : o \in m.gray}
           C == Closure(X, Children, W)
<1>1. NonWhite(propagateall(m)) = NonWhite(m) \cup Done(m)
  BY PropagateAll DEF TypeOK
<1>2. Done(m) = m.gray \cup C BY Zenon DEF Done
<1>3. X \cap W \subseteq P BY DEF WhiteIn, Closed
<1>4. \A a \in P \cap W : Children(a) \cap W \subseteq P BY DEF WhiteIn, Closed
<1> HIDE DEF X, W
<1>5. C \subseteq P BY <1>3, <1>4, ChildrenLeast
<1> QED BY <1>1, <1>2, <1>5

(* The whole atomic step, from what is marked, the running thread and the queue of
   finalizers. *)
LEMMA AtomicWithin ==
  ASSUME TypeOK, HeapShape, RootsLive, MarkSound, OpenNotBlack, Marking,
         NEW P, Closed(P), MarkedNow \subseteq P,
         {running} \cup Finals(AtomicM3) \subseteq P
  PROVE  NonWhite(AtomicM4) \subseteq P
<1>1. /\ Consistent(Marks) /\ Consistent(Remarked) /\ Consistent(AtomicM1)
      /\ Consistent(AtomicM2) /\ Consistent(AtomicM3) /\ Consistent(Final(AtomicM3))
  BY AtomicMarks
<1>2. ASSUME NEW m, Consistent(m)
      PROVE  m \in MarkRecord /\ m.gray \subseteq NonWhite(m)
  BY <1>2 DEF Consistent, Pending
<1>3. NonWhite(Marks) \subseteq P BY DEF NonWhite, Marks, MarkedNow
<1>4. NonWhite(Remarked) \subseteq P
  <2> DEFINE X == UNION {ptr[u] : u \in {v \in alive \cap Upvals :
                                    openin[v] # None /\ Marks.mark[v] = "gray"}}
  <2>1. Remarked = reallymarkobject(Marks, X) BY Zenon DEF Remarked, remarkupvals
  <2>2. ASSUME NEW u \in alive \cap Upvals, Marks.mark[u] = "gray"
        PROVE  ptr[u] \cap alive \subseteq P
    <3>1. u \in NonWhite(Marks) BY <2>2 DEF NonWhite, Whites
    <3>2. Children(u) = ptr[u] BY DEF Children, Upvals, Of
    <3> QED BY <1>3, <3>1, <3>2 DEF Closed
  <2>3. X \cap alive \subseteq P BY <2>2
  <2> HIDE DEF X
  <2> QED BY <1>1, <1>2, <1>3, <2>1, <2>3, MarkWithin
<1>5. NonWhite(AtomicM1) \subseteq P BY <1>1, <1>2, <1>4, PropagateWithin DEF AtomicM1
<1>6. NonWhite(Weaks(AtomicM1)) \subseteq P /\ Weaks(AtomicM1) \in MarkRecord
      /\ Weaks(AtomicM1).gray \subseteq NonWhite(Weaks(AtomicM1))
  <2> DEFINE w == [AtomicM1 EXCEPT !.gray = AtomicM1.weak, !.weak = {}]
             x == reallymarkobject(w, {running})
  <2>1. w = [AtomicM1 EXCEPT !.gray = AtomicM1.weak, !.weak = {}]
        /\ AtomicM1 \in MarkRecord
    BY <1>1, <1>2
  <2> HIDE DEF w
  <2>2. w = [mark |-> AtomicM1.mark, gray |-> AtomicM1.weak,
             grayagain |-> AtomicM1.grayagain, weak |-> {}]
    BY <2>1 DEF MarkRecord
  <2>3. WeakTabs \subseteq Objs BY DEF WeakTabs, Of
  <2>4. w \in MarkRecord /\ NonWhite(w) = NonWhite(AtomicM1) /\ w.gray = AtomicM1.weak
    BY <2>1, <2>2, <2>3 DEF MarkRecord, NonWhite
  <2>5. NonWhite(x) \subseteq P BY <1>5, <2>4, MarkWithin
  <2>6. /\ x \in MarkRecord
        /\ x.gray = w.gray \cup {o \in NonWhite(x) \ NonWhite(w) : Listed(o)}
        /\ NonWhite(w) \subseteq NonWhite(x)
    BY <2>4, MarkObjects DEF TypeOK
  <2>7. w.gray \subseteq NonWhite(w) BY <1>1, <2>4 DEF Consistent, Pending
  <2>8. x.gray \subseteq NonWhite(x) BY <2>6, <2>7
  <2> QED BY Zenon, <2>5, <2>6, <2>8 DEF Weaks, w, x
<1>7. NonWhite(AtomicM2) \subseteq P BY <1>6, PropagateWithin DEF AtomicM2
<1>8. NonWhite(AtomicM3) \subseteq P
  <2> DEFINE w == Grays(AtomicM2)
  <2>0. w = [AtomicM2 EXCEPT !.gray = AtomicM2.grayagain, !.grayagain = {}]
        /\ AtomicM2 \in MarkRecord
    BY <1>1, <1>2 DEF Grays
  <2> HIDE DEF w
  <2>1. w = [mark |-> AtomicM2.mark, gray |-> AtomicM2.grayagain, grayagain |-> {},
             weak |-> AtomicM2.weak]
    BY <2>0 DEF MarkRecord
  <2>2. w \in MarkRecord /\ NonWhite(w) = NonWhite(AtomicM2)
        /\ w.gray = AtomicM2.grayagain
    BY <2>0, <2>1 DEF MarkRecord, NonWhite
  <2>3. w.gray \subseteq NonWhite(w) BY <1>1, <2>2 DEF Consistent, Pending
  <2> QED BY <1>7, <2>2, <2>3, PropagateWithin DEF AtomicM3, w
<1>9. NonWhite(Final(AtomicM3)) \subseteq P
  <2> DEFINE w == makewhite(AtomicM3, Finals(AtomicM3))
  <2>1. w = [mark |-> [o \in Objs |-> IF o \in Finals(AtomicM3) THEN white
                                      ELSE AtomicM3.mark[o]],
             gray |-> AtomicM3.gray, grayagain |-> AtomicM3.grayagain,
             weak |-> AtomicM3.weak]
    BY <1>1, <1>2 DEF makewhite, MarkRecord
  <2>2. w \in MarkRecord /\ NonWhite(w) \subseteq NonWhite(AtomicM3)
    BY <1>1, <1>2, <2>1 DEF MarkRecord, NonWhite, TypeOK, Colour
  <2> HIDE DEF w
  <2>3. NonWhite(w) \subseteq P BY <1>8, <2>2
  <2>4. NonWhite(reallymarkobject(w, Finals(AtomicM3))) \subseteq P
    BY <2>2, <2>3, MarkWithin
  <2> QED BY <2>4 DEF Final, w
<1> QED BY <1>1, <1>2, <1>9, PropagateWithin DEF AtomicM4

(* In a full collection's own cycle only what can be reached is marked, and in the
   end nothing else lives.  A heap with weak tables is left out: an entry that is
   taken out may have kept its other half. *)
FullMarks ==
  (WeakTabs = {} /\ full = "cycle") =>
    /\ gcstate # "pause"
    /\ Marking => MarkedNow \subseteq Reachable
    /\ Sweeping => Live \subseteq Reachable

ReachClosed ==
  /\ ({Main, Globals, running} \cup tmudata) \cap Objs \subseteq Reachable
  /\ Reachable \subseteq Objs
  /\ \A a \in Reachable : Children(a) \cap Objs \subseteq Reachable

LEMMA ReachableClosed == ReachClosed
BY ChildrenClosed, Zenon DEF ReachClosed, Reachable

ReachSound == Reachable \subseteq Live

LEMMA ReachableSound == IInv => ReachSound
BY ReachableLive DEF ReachSound

(* What is reached now is reached later, if the roots are and no reference of what
   is reached later is new. *)
LEMMA ReachableGrows ==
  ASSUME {Main, Globals, running} \cup tmudata
           \subseteq ({Main, Globals, running} \cup tmudata)',
         \A a \in Reachable' : Children(a) \subseteq Children(a)'
  PROVE  Reachable \subseteq Reachable'
<1> DEFINE roots == {Main, Globals, running} \cup tmudata
           P == Reachable'
<1>1. /\ roots' \cap Objs \subseteq P /\ P \subseteq Objs
      /\ \A a \in P : Children(a)' \cap Objs \subseteq P
  <2>1. ReachClosed' BY ReachableClosed, PTL
  <2> QED BY <2>1 DEF ReachClosed
<1>2. roots \cap Objs \subseteq P BY <1>1
<1>3. \A a \in P \cap Objs : Children(a) \cap Objs \subseteq P BY <1>1
<1>4. Reachable = Closure(roots, Children, Objs) BY Zenon DEF Reachable
<1> HIDE DEF roots, P
<1>5. Closure(roots, Children, Objs) \subseteq P BY <1>2, <1>3, ChildrenLeast
<1> QED BY <1>4, <1>5 DEF P

LEMMA SameChildren ==
  ASSUME TypeOK, UNCHANGED <<alive, ptr, entry, openin>>
  PROVE  \A a \in Objs : Children(a)' = Children(a)
BY DEF Children, Stack, OpenUpvals

(* Where the collector runs alone. *)
LEMMA MutatorWaits ==
  ASSUME Mutator, full' = "cycle"
  PROVE  gcstate' = "finalize"
<1>1. CASE BeginFullGC BY <1>1 DEF BeginFullGC
<1>2. CASE UNCHANGED cycle /\ MutatorRuns BY <1>2 DEF cycle, MutatorRuns
<1>3. BeginFullGC \/ (UNCHANGED cycle /\ MutatorRuns)
  <2>1. ASSUME NEW o \in Objs, New(o) \/ InternString(o) \/ Load(o) \/ Pop(o)
        PROVE  UNCHANGED cycle /\ MutatorRuns
    BY <2>1 DEF New, InternString, Load, Pop
  <2>2. ASSUME NEW o \in Local,
               \/ \E x \in Operands : SetTable(o, x) \/ SetField(o, x)
               \/ \E k, v \in Operands : SetWeak(o, k, v)
               \/ \E x \in ptr[o] : Clear(o, x)
               \/ \E e \in entry[o] : ClearWeak(o, e)
        PROVE  UNCHANGED cycle /\ MutatorRuns
    BY <2>2 DEF SetTable, SetField, SetWeak, Clear, ClearWeak
  <2>3. ASSUME NEW c \in Values, NEW u \in Upvals,
               \/ \E x \in ptr[running] : CaptureNew(c, u, x)
               \/ CaptureAgain(c, u)
        PROVE  UNCHANGED cycle /\ MutatorRuns
    BY <2>3 DEF CaptureNew, CaptureAgain
  <2>4. ASSUME NEW c \in Local, NEW u \in Upvals, NEW x \in Operands, SetUpval(c, u, x)
        PROVE  UNCHANGED cycle /\ MutatorRuns
    BY <2>4 DEF SetUpval
  <2>5. ASSUME NEW u \in Upvals, CloseUpval(u) PROVE UNCHANGED cycle /\ MutatorRuns
    BY <2>5 DEF CloseUpval
  <2>6. ASSUME NEW th \in Threads, NEW X \in SUBSET ptr[running], Switch(th, X)
        PROVE  UNCHANGED cycle /\ MutatorRuns
    BY <2>6 DEF Switch
  <2> QED BY Zenon, <2>1, <2>2, <2>3, <2>4, <2>5, <2>6 DEF Mutator
<1> QED BY <1>1, <1>2, <1>3

LEMMA RestartMarks ==
  ASSUME IInv, RestartFullGC
  PROVE  MarkedNow' \subseteq Reachable'
<1> DEFINE m == [Marks EXCEPT !.gray = {}, !.grayagain = {}, !.weak = {}]
           r == reallymarkobject(m, {Main, Globals})
<1>1. /\ UNCHANGED <<heap, tmudata>> /\ gcstate = "finalize" /\ Become(r)
  BY Zenon DEF RestartFullGC, markroot
<1>2. TypeOK /\ UNCHANGED <<alive, ptr, entry, openin, running, tmudata>>
  BY <1>1 DEF heap, IInv
<1>3. Reachable \subseteq Reachable'
  <2>1. \A a \in Objs : Children(a)' = Children(a) BY <1>2, SameChildren
  <2>2. ReachClosed' BY ReachableClosed, PTL
  <2> QED BY <1>2, <2>1, <2>2, ReachableGrows DEF ReachClosed
<1>0. m = [Marks EXCEPT !.gray = {}, !.grayagain = {}, !.weak = {}] OBVIOUS
<1> HIDE DEF m
<1>4. m = [mark |-> mark, gray |-> {}, grayagain |-> {}, weak |-> {}]
  BY <1>0 DEF Marks
<1>5. m \in MarkRecord /\ m.mark = mark
  BY <1>2, <1>4 DEF MarkRecord, TypeOK, Colour
<1>6. MarkedNow \subseteq tmudata
  <2>1. unswept = {} BY <1>1 DEF IInv, SweepOrder, Sweeping
  <2>2. openin \in [Objs -> Threads \cup {None}] BY <1>2 DEF TypeOK
  <2>3. \A o \in alive : mark[o] = white \/ o \in tmudata
    BY <1>1, <2>1 DEF IInv, Swept, Marking
  <2> QED BY <1>2, <2>3 DEF MarkedNow, TypeOK
<1>7. NonWhite(m) \subseteq Reachable
  BY <1>5, <1>6, ReachableClosed, <1>2 DEF ReachClosed, NonWhite, MarkedNow, TypeOK, Udata, Of
<1>8. Closed(Reachable) /\ {Main, Globals} \cap alive \subseteq Reachable
  BY <1>2, ReachableClosed DEF ReachClosed, Closed, TypeOK
<1>9. NonWhite(r) \subseteq Reachable BY <1>2, <1>5, <1>7, <1>8, MarkWithin
<1> HIDE DEF r
<1>10. mark' = r.mark BY <1>1 DEF Become
<1>11. MarkedNow' = NonWhite(r) BY <1>2, <1>10 DEF MarkedNow, NonWhite
<1> QED BY <1>3, <1>9, <1>11

LEMMA PropagateMarks ==
  ASSUME IInv, NEW o, propagatemark(o), MarkedNow \subseteq Reachable
  PROVE  MarkedNow' \subseteq Reachable'
<1> DEFINE m == [Marks EXCEPT !.gray = @ \ {o}]
           X == Children(o)
           r == reallymarkobject(m, X)
           s == [r EXCEPT !.mark[o] = Traversed(o),
                          !.grayagain = @ \cup ({o} \cap Threads),
                          !.weak = @ \cup ({o} \cap WeakTabs)]
<1>1. /\ gcstate = "propagate" /\ o \in gray /\ UNCHANGED <<heap, cycle>> /\ Become(s)
  BY Zenon DEF propagatemark
<1>2. TypeOK /\ UNCHANGED <<alive, ptr, entry, openin, running, tmudata>>
  BY <1>1 DEF heap, cycle, IInv
<1>3. Reachable \subseteq Reachable'
  <2>1. \A a \in Objs : Children(a)' = Children(a) BY <1>2, SameChildren
  <2>2. ReachClosed' BY ReachableClosed, PTL
  <2> QED BY <1>2, <2>1, <2>2, ReachableGrows DEF ReachClosed
<1>0. m = [Marks EXCEPT !.gray = @ \ {o}] OBVIOUS
<1> HIDE DEF m
<1>4. m = [mark |-> mark, gray |-> gray \ {o}, grayagain |-> grayagain, weak |-> weak]
  BY <1>0 DEF Marks
<1>5. m \in MarkRecord /\ m.mark = mark
  BY <1>2, <1>4 DEF MarkRecord, TypeOK, Colour
<1>6. NonWhite(m) = MarkedNow BY <1>5 DEF NonWhite, MarkedNow
<1>7. o \in MarkedNow BY <1>1 DEF IInv, MarkSound, Marking, Queued, MarkedNow, Whites
<1>8. Closed(Reachable) /\ X \cap alive \subseteq Reachable
  BY <1>2, <1>7, ReachableClosed DEF ReachClosed, Closed, TypeOK
<1> HIDE DEF X
<1>9. NonWhite(r) \subseteq Reachable BY <1>2, <1>5, <1>6, <1>8, MarkWithin
<1>10. r \in MarkRecord BY <1>2, <1>5, MarkObjects DEF TypeOK
<1>11. s = [r EXCEPT !.mark[o] = Traversed(o),
                     !.grayagain = @ \cup ({o} \cap Threads),
                     !.weak = @ \cup ({o} \cap WeakTabs)]
  OBVIOUS
<1> HIDE DEF r, s
<1>12. mark' = [r.mark EXCEPT ![o] = Traversed(o)]
  <2>1. r = [mark |-> r.mark, gray |-> r.gray, grayagain |-> r.grayagain, weak |-> r.weak]
    BY <1>10 DEF MarkRecord
  <2>2. s.mark = [r.mark EXCEPT ![o] = Traversed(o)] BY <1>11, <2>1
  <2> QED BY <1>1, <2>2 DEF Become
<1>13. MarkedNow' \subseteq NonWhite(r) \cup {o}
  BY <1>2, <1>10, <1>12, SMTT(30) DEF MarkedNow, NonWhite, MarkRecord, TypeOK
<1> QED BY <1>3, <1>7, <1>9, <1>13

(* After the atomic step what lives is what can be reached, the new finalizers'
   arguments included. *)
LEMMA AtomicReach ==
  ASSUME IInv, atomic, WeakTabs = {}, MarkedNow \subseteq Reachable
  PROVE  Live' \subseteq Reachable'
<1> DEFINE M == AtomicM4
           P == Reachable'
<1>1. /\ TypeOK /\ HeapShape /\ RootsLive /\ LiveClosed /\ MarkSound /\ OpenNotBlack
      /\ Marking /\ IInv'
  BY AtomicStep DEF atomic, IInv, Marking
<1>2. M \in MarkRecord /\ {running} \cup Finals(AtomicM3) \subseteq NonWhite(M)
      /\ \A o \in alive : M.mark[o] # OtherWhite
  BY <1>1, AtomicMarks DEF Consistent
<1>3. /\ tmudata' = Finals(AtomicM3) /\ entry' = cleartable(M, finalized')
      /\ \A o \in Objs : mark'[o] = IF o \in StringsKept(M) THEN "gray" ELSE M.mark[o]
      /\ white' = OtherWhite /\ UNCHANGED <<alive, ptr, openin, running>>
  BY <1>1, <1>2, AtomicEffect
<1> HIDE DEF M
<1>4. StringsKept(M) = {}
  <2>1. M.weak = {} BY <1>2 DEF MarkRecord
  <2> QED BY <2>1 DEF StringsKept
<1>5. entry' = entry
  <2>1. \A t \in Objs : entry[t] = {} BY <1>1 DEF HeapShape
  <2>2. M.weak = {} BY <1>2 DEF MarkRecord
  <2>3. entry' = [t \in Objs |-> entry[t]] BY <1>3, <2>2 DEF cleartable
  <2> QED BY <1>1, <2>3 DEF TypeOK
<1>6. \A a \in Objs : Children(a)' = Children(a) BY <1>1, <1>3, <1>5, SameChildren
<1>7. ReachClosed' BY ReachableClosed, PTL
<1>8. tmudata \subseteq tmudata' BY <1>3 DEF Finals
<1>9. Reachable \subseteq P BY <1>3, <1>6, <1>7, <1>8, ReachableGrows DEF ReachClosed
<1>10. {running} \cup Finals(AtomicM3) \subseteq P
  <2>1. {running} \cup Finals(AtomicM3) \subseteq Objs
    BY <1>1, <1>2 DEF NonWhite, TypeOK
  <2> QED BY <1>3, <1>7, <2>1 DEF ReachClosed
<1>11. Closed(P) BY <1>1, <1>6, <1>7 DEF Closed, ReachClosed, TypeOK
<1> HIDE DEF P
<1>12. NonWhite(M) \subseteq P BY <1>1, <1>9, <1>10, <1>11, AtomicWithin DEF M
<1>13. ASSUME NEW o \in Live' PROVE o \in NonWhite(M)
  <2>1. o \in alive /\ o \in Objs /\ mark'[o] # OtherWhite'
    BY <1>1, <1>3, <1>13 DEF Live, isdead, TypeOK
  <2>2. OtherWhite' = white /\ Whites = {white, OtherWhite}
    BY <1>1, <1>3 DEF OtherWhite, Whites, TypeOK
  <2> QED BY <1>2, <1>3, <1>4, <2>1, <2>2 DEF NonWhite
<1> QED BY <1>12, <1>13, SMTT(30) DEF P

LEMMA SweepReach ==
  ASSUME IInv, NEW o \in Objs, SweepString(o) \/ Sweep(o), Live \subseteq Reachable
  PROVE  Live' \subseteq Reachable'
<1>1. o \in unswept /\ sweeplist(o) /\ Sweeping /\ gcstate' = gcstate
  BY DEF SweepString, Sweep, Sweeping
<1>2. IInv' /\ Live' = Live /\ \A t \in Live : Children(t)' = Children(t)
  BY <1>1, SweepStep
<1>3. Reachable' \subseteq Live'
  <2>1. IInv' => ReachSound' BY ReachableSound, PTL
  <2> QED BY <1>2, <2>1 DEF ReachSound
<1>4. UNCHANGED <<running, tmudata>> BY <1>1 DEF sweeplist
<1>5. Reachable \subseteq Reachable' BY <1>2, <1>3, <1>4, ReachableGrows
<1> QED BY <1>2, <1>5

LEMMA FullMarksStep ==
  ASSUME IInv, FullMarks, [Next]_vars
  PROVE  FullMarks'
<1> SUFFICES ASSUME WeakTabs = {}, full' = "cycle"
             PROVE  /\ gcstate' # "pause"
                    /\ Marking' => MarkedNow' \subseteq Reachable'
                    /\ Sweeping' => Live' \subseteq Reachable'
  BY DEF FullMarks
<1>1. CASE Mutator BY <1>1, MutatorWaits DEF Marking, Sweeping
<1>2. CASE RestartFullGC
  BY <1>2, RestartMarks, SMTT(30) DEF RestartFullGC, markroot, Marking, Sweeping
<1>3. CASE atomic
  <2>1. MarkedNow \subseteq Reachable BY <1>3 DEF FullMarks, atomic, Marking
  <2> QED BY <1>3, <2>1, AtomicReach, ZenonT(30) DEF atomic, Marking, Sweeping
<1>4. ASSUME NEW o \in Objs, propagatemark(o) PROVE FullMarks'
  <2>1. gcstate = "propagate" /\ UNCHANGED cycle BY <1>4 DEF propagatemark
  <2>2. MarkedNow \subseteq Reachable BY <2>1 DEF FullMarks, cycle, Marking
  <2>3. MarkedNow' \subseteq Reachable' BY <1>4, <2>2, PropagateMarks
  <2> QED BY <2>1, <2>3 DEF FullMarks, cycle, Marking, Sweeping
<1>5. ASSUME NEW o \in Objs, SweepString(o) \/ Sweep(o) PROVE FullMarks'
  <2>1. /\ gcstate \in {"sweepstring", "sweep"} /\ gcstate' = gcstate
        /\ full' = full
    BY <1>5 DEF SweepString, Sweep, sweeplist
  <2>2. Live \subseteq Reachable BY <2>1 DEF FullMarks, Sweeping
  <2> QED BY <1>5, <2>1, <2>2, SweepReach DEF FullMarks, Marking, Sweeping
<1>6. CASE EndSweepString \/ EndSweep \/ UNCHANGED vars
  <2>1. UNCHANGED <<heap, mark, white, tmudata, full>>
    BY <1>6 DEF EndSweepString, EndSweep, vars, cycle
  <2>2. UNCHANGED <<alive, ptr, entry, openin, running>> BY <2>1 DEF heap
  <2>3. Reachable \subseteq Reachable'
    <3>1. \A a \in Objs : Children(a)' = Children(a)
      BY <2>2, SameChildren DEF IInv
    <3>2. ReachClosed' BY ReachableClosed, PTL
    <3> QED BY <2>1, <2>2, <3>1, <3>2, ReachableGrows DEF ReachClosed
  <2>4. MarkedNow' = MarkedNow /\ Live' = Live
    BY <2>1, <2>2 DEF MarkedNow, Live, isdead, OtherWhite
  <2>5. \/ gcstate' = gcstate
        \/ gcstate = "sweepstring" /\ gcstate' = "sweep"
        \/ gcstate' = "finalize"
    BY <1>6 DEF EndSweepString, EndSweep, vars, cycle
  <2> QED BY <2>1, <2>3, <2>4, <2>5 DEF FullMarks, Marking, Sweeping
<1>7. CASE StartCycle \/ EndCycle \/ \E o \in Objs : GCTM(o)
  BY <1>7 DEF StartCycle, EndCycle, GCTM, FullMarks, Marking, Sweeping
<1> QED BY <1>1, <1>2, <1>3, <1>4, <1>5, <1>6, <1>7 DEF Next, Collector, FullMarks

(* luaC_fullgc leaves no garbage, whatever part of a cycle it interrupts. *)
THEOREM FullCollectsAll == Spec => []FullCollects
<1>1. Init => FullMarks BY DEF Init, FullMarks
<1>2. IInv /\ FullMarks /\ [Next]_vars => FullMarks' BY FullMarksStep
<1>3. IInv /\ FullMarks => FullCollects
  <2> SUFFICES ASSUME IInv, FullMarks, WeakTabs = {}, full = "cycle",
                      gcstate = "sweep", unswept = {}, NEW o \in alive
               PROVE  o \in Reachable
    BY DEF FullCollects
  <2>1. mark[o] = white \/ o \in tmudata BY DEF IInv, Swept, Marking
  <2>2. white # OtherWhite BY DEF IInv, TypeOK, OtherWhite, Whites
  <2>3. o \in Live BY <2>1, <2>2 DEF Live, isdead, IInv, RootsLive
  <2> QED BY <2>3 DEF FullMarks, Sweeping
<1> QED BY Invariance, <1>1, <1>2, <1>3, PTL DEF Spec

==============================================================================
