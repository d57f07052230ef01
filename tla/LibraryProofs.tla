---------------------------- MODULE LibraryProofs ----------------------------
(***************************************************************************)
(* Three of the parts that the run "library" checks, for every value of    *)
(* their constants.                                                        *)
(*                                                                         *)
(* Metatables: the flags of a table are honest (Honest), so that each turn *)
(* of an access goes where it would without them (GetTurn, SetTurn); an    *)
(* access is as many turns as it takes (GetWay, SetWay).                   *)
(*                                                                         *)
(* Buffers: the pieces of a buffer and its array say, put together, what   *)
(* was added (Says); putting pieces together leaves that as it is (Joins). *)
(*                                                                         *)
(* Strings are interned.  A string is told by its text: the table is right *)
(* when each chain has the strings that belong there, no two have the same *)
(* text, and nuse is the number of texts.  All operations but the insertion*)
(* of a new string replace strings by others with the same text, or erase  *)
(* some, so one lemma (Repaints) stands for the collector and for the      *)
(* resurrection of a dead string.                                          *)
(***************************************************************************)
EXTENDS Metatables, Buffers, StringTable, FunctionTheorems, FiniteSetTheorems,
        SequenceTheorems, WellFoundedInduction, TLAPS

LEMMA Least ==
  ASSUME NEW S \in SUBSET Nat, S # {}
  PROVE  \E m \in S : \A k \in S : m <= k
<1> DEFINE R == OpToRel(<, Nat)
<1>1. IsWellFoundedOn(R, Nat) BY NatLessThanWellFounded
<1> HIDE DEF R
<1>2. PICK m \in S : \A k \in S : ~(<<k, m>> \in R) BY <1>1, WFMin
<1>3. \A k \in S : ~(k < m)
  <2> TAKE k \in S
  <2>1. k \in Nat /\ m \in Nat OBVIOUS
  <2>2. k < m => <<k, m>> \in R BY <2>1 DEF R, OpToRel
  <2> QED BY <1>2, <2>2
<1> QED BY <1>3

(* What holds at 0 and goes on by one holds up to a bound. *)
LEMMA Climb ==
  ASSUME NEW bound \in Nat, NEW P, 0 \in P, \A x \in 0..bound : x # 0 /\ x - 1 \in P => x \in P
  PROVE  bound \in P
<1> SUFFICES ASSUME bound \notin P PROVE FALSE OBVIOUS
<1> DEFINE S == {x \in 0..bound : x \notin P}
<1>1. S \in SUBSET Nat /\ S # {} OBVIOUS
<1>2. PICK m \in S : \A k \in S : m <= k BY <1>1, Least
<1>3. m \in 0..bound /\ m \notin P /\ m # 0 OBVIOUS
<1>4. m - 1 \in 0..bound /\ ~(m <= m - 1) BY <1>3
<1>5. m - 1 \in P BY <1>2, <1>4
<1> QED BY <1>3, <1>5

------------------------------------------------------------------------------
(* Metatables.  Flags are honest when no table has one for an event that it has a
   handler for; a search may add honest flags, and changes nothing else. *)

Record(h, f, m, g) == h \in [field : {f}, meta : {m}, flags : {g}]

Honest(h) ==
  /\ Record(h, h.field, h.meta, h.flags)
  /\ DOMAIN h.field = Tables /\ \A x \in Tables : DOMAIN h.field[x] = Keys
  /\ h.meta \in [Tables -> Tables \cup {"nil"}]
  /\ h.flags \in [Tables -> SUBSET Cached]
  /\ \A x \in Tables : \A e \in h.flags[x] : h.field[x][e] = "nil"

Searched(h, g) == g.field = h.field /\ g.meta = h.meta

LEMMA FasttmHonest ==
  ASSUME NEW h, Honest(h), NEW x \in Tables \cup {"nil"}, NEW e \in Cached
  PROVE  /\ Honest(fasttm(h, x, e).h) /\ Searched(h, fasttm(h, x, e).h)
         /\ fasttm(h, x, e).tm = IF x = "nil" THEN "nil" ELSE h.field[x][e]
<1> USE MetatableAssumption
<1>1. CASE x = "nil" BY <1>1 DEF fasttm, Found, Searched
<1>2. CASE x # "nil" /\ e \in h.flags[x] BY <1>2 DEF fasttm, Found, Searched, Honest
<1>3. CASE x # "nil" /\ e \notin h.flags[x] /\ h.field[x][e] # "nil"
  BY <1>3 DEF fasttm, Found, Searched, luaT_gettm
<1>4. CASE x # "nil" /\ e \notin h.flags[x] /\ h.field[x][e] = "nil"
  <2> DEFINE g == [h EXCEPT !.flags[x] = @ \cup {e}]
             fl == [h.flags EXCEPT ![x] = @ \cup {e}]
  <2>1. fasttm(h, x, e) = Found(g, "nil") BY <1>4 DEF fasttm, luaT_gettm
  <2>2. Record(h, h.field, h.meta, h.flags) BY DEF Honest
  <2>3. g.field = h.field /\ g.meta = h.meta /\ g.flags = fl /\ Record(g, g.field, g.meta, g.flags)
    BY <2>2 DEF Record
  <2>4. x \in Tables BY <1>4
  <2>5. h.flags \in [Tables -> SUBSET Cached] BY DEF Honest
  <2>6. fl \in [Tables -> SUBSET Cached] BY <2>4, <2>5
  <2>7. \A y \in Tables : \A d \in fl[y] : d \in h.flags[y] \/ (y = x /\ d = e) BY <2>4, <2>5
  <2> HIDE DEF fl, g
  <2>8. \A y \in Tables : \A d \in fl[y] : h.field[y][d] = "nil" BY <1>4, <2>7 DEF Honest
  <2>9. Honest(g) BY <2>3, <2>6, <2>8 DEF Honest
  <2> QED BY <1>4, <2>1, <2>3, <2>9 DEF Found, Searched
<1> QED BY <1>1, <1>2, <1>3, <1>4

LEMMA SameHandler ==
  ASSUME NEW h, NEW g, Searched(h, g), NEW v, NEW k, NEW e
  PROVE  Handler(g, v, e) = Handler(h, v, e) /\ Leads(g, v, k, e) = Leads(h, v, k, e)
BY DEF Searched, Handler, Leads

LEMMA HandlesHonest ==
  ASSUME NEW h, Honest(h), NEW v, NEW e \in Cached
  PROVE  /\ Honest(Handles(h, v, e).h) /\ Searched(h, Handles(h, v, e).h)
         /\ Handles(h, v, e).tm = Handler(h, v, e)
<1>1. CASE v \in Tables
  <2>1. h.meta[v] \in Tables \cup {"nil"} BY <1>1 DEF Honest
  <2>2. Handles(h, v, e) = fasttm(h, h.meta[v], e) BY <1>1 DEF Handles
  <2>3. Handler(h, v, e) = IF h.meta[v] = "nil" THEN "nil" ELSE h.field[h.meta[v]][e]
    BY <1>1, MetatableAssumption DEF Handler
  <2> QED BY <2>1, <2>2, <2>3, FasttmHonest
<1>2. CASE v \notin Tables
  BY <1>2 DEF Handles, Found, Searched, luaT_gettmbyobj, Handler
<1> QED BY <1>1, <1>2

(* A turn of an access *)
LEMMA GetTurn ==
  ASSUME NEW h, Honest(h), NEW v, NEW k \in Keys
  PROVE  /\ Honest(gettable(h, v, k).h) /\ Searched(h, gettable(h, v, k).h)
         /\ SameWay(gettable(h, v, k), Leads(h, v, k, "__index"))
<1> DEFINE m == Handles(h, v, "__index")
<1>1. Honest(m.h) /\ Searched(h, m.h) /\ m.tm = Handler(h, v, "__index") BY HandlesHonest DEF Cached
<1>2. Searched(h, h) BY DEF Searched
<1> HIDE DEF m
<1>3. CASE v \in Tables /\ h.field[v][k] # "nil"
  <2>1. gettable(h, v, k) = Settles(h, "field", v) BY <1>3 DEF gettable
  <2> QED BY <1>2, <1>3, <2>1 DEF SameWay, Leads, Settles
<1>4. CASE ~(v \in Tables /\ h.field[v][k] # "nil") /\ m.tm # "nil"
  <2>1. gettable(h, v, k) = Goes(m, v) BY <1>4 DEF gettable, m
  <2> QED BY <1>1, <1>4, <2>1 DEF SameWay, Leads, Settles, Goes
<1>5. CASE ~(v \in Tables /\ h.field[v][k] # "nil") /\ m.tm = "nil"
  <2>1. CASE v \in Tables
    <3>1. gettable(h, v, k) = Settles(m.h, "field", v) BY <1>5, <2>1 DEF gettable, m
    <3> QED BY <1>1, <1>5, <2>1, <3>1 DEF SameWay, Leads, Settles
  <2>2. CASE v \notin Tables
    <3>1. gettable(h, v, k) = Settles(m.h, "error", v) BY <1>5, <2>2 DEF gettable, m
    <3> QED BY <1>1, <1>5, <2>2, <3>1 DEF SameWay, Leads, Settles
  <2> QED BY <2>1, <2>2
<1> QED BY <1>3, <1>4, <1>5

LEMMA StoredHonest ==
  ASSUME NEW h, Honest(h), NEW x \in Tables, NEW k \in Keys, NEW v
  PROVE  Honest(Stored(h, x, k, v))
<1> DEFINE g == Stored(h, x, k, v)
           fd == [h.field EXCEPT ![x][k] = v]
           fl == [h.flags EXCEPT ![x] = {}]
<1>1. Record(h, h.field, h.meta, h.flags) BY DEF Honest
<1>2. g.field = fd /\ g.meta = h.meta /\ g.flags = fl /\ Record(g, g.field, g.meta, g.flags)
  BY <1>1 DEF Record, Stored
<1>3. DOMAIN fd = Tables /\ \A y \in Tables : DOMAIN fd[y] = Keys BY DEF Honest
<1>4. h.flags \in [Tables -> SUBSET Cached] BY DEF Honest
<1>5. fl \in [Tables -> SUBSET Cached] BY <1>4
<1>6. \A y \in Tables : \A d \in fl[y] : y # x /\ d \in h.flags[y] BY <1>4
<1>7. \A y \in Tables : y # x => fd[y] = h.field[y] BY DEF Honest
<1> HIDE DEF fl, g, fd
<1>8. \A y \in Tables : \A d \in fl[y] : fd[y][d] = "nil" BY <1>6, <1>7 DEF Honest
<1> QED BY <1>2, <1>3, <1>5, <1>8 DEF Honest, g

LEMMA SetHonest ==
  ASSUME NEW h, Honest(h), NEW x \in Tables
  PROVE  Honest(luaH_set(h, x)) /\ Searched(h, luaH_set(h, x))
<1> DEFINE g == luaH_set(h, x)
           fl == [h.flags EXCEPT ![x] = {}]
<1>1. Record(h, h.field, h.meta, h.flags) BY DEF Honest
<1>2. g.field = h.field /\ g.meta = h.meta /\ g.flags = fl /\ Record(g, g.field, g.meta, g.flags)
  BY <1>1 DEF Record, luaH_set
<1>3. h.flags \in [Tables -> SUBSET Cached] BY DEF Honest
<1>4. fl \in [Tables -> SUBSET Cached] /\ \A y \in Tables : \A d \in fl[y] : d \in h.flags[y] BY <1>3
<1> HIDE DEF fl, g
<1> QED BY <1>2, <1>4 DEF Honest, Searched, g

LEMMA SetTurn ==
  ASSUME NEW h, Honest(h), NEW x, NEW k \in Keys, NEW v
  PROVE  /\ Honest(settable(h, x, k, v).h)
         /\ settable(h, x, k, v).how = "loop" => Searched(h, settable(h, x, k, v).h)
         /\ SameWay(settable(h, x, k, v), Leads(h, x, k, "__newindex"))
<1> DEFINE s == IF x \in Tables THEN luaH_set(h, x) ELSE h
           m == Handles(s, x, "__newindex")
<1>1. Honest(s) /\ Searched(h, s) BY SetHonest DEF Searched
<1>2. Honest(m.h) /\ Searched(s, m.h) /\ m.tm = Handler(s, x, "__newindex")
  <2> HIDE DEF s
  <2> QED BY <1>1, HandlesHonest DEF Cached
<1>3. m.tm = Handler(h, x, "__newindex") /\ Searched(h, m.h)
  <2> HIDE DEF s, m
  <2> QED BY <1>1, <1>2, SameHandler DEF Searched
<1> HIDE DEF m, s
<1>4. CASE x \in Tables /\ h.field[x][k] # "nil"
  <2>1. settable(h, x, k, v) = Settles(Stored(s, x, k, v), "field", x) BY <1>4 DEF settable, s
  <2>2. Honest(Stored(s, x, k, v)) BY <1>1, <1>4, StoredHonest
  <2> QED BY <1>4, <2>1, <2>2 DEF SameWay, Leads, Settles
<1>5. CASE ~(x \in Tables /\ h.field[x][k] # "nil") /\ m.tm # "nil"
  <2>1. settable(h, x, k, v) = Goes(m, x) BY <1>5 DEF settable, m, s
  <2> QED BY <1>2, <1>3, <1>5, <2>1 DEF SameWay, Leads, Settles, Goes
<1>6. CASE x \in Tables /\ h.field[x][k] = "nil" /\ m.tm = "nil"
  <2>1. settable(h, x, k, v) = Settles(Stored(m.h, x, k, v), "field", x) BY <1>6 DEF settable, m, s
  <2>2. Honest(Stored(m.h, x, k, v)) BY <1>2, <1>6, StoredHonest
  <2> QED BY <1>3, <1>6, <2>1, <2>2 DEF SameWay, Leads, Settles
<1>7. CASE x \notin Tables /\ m.tm = "nil"
  <2>1. settable(h, x, k, v) = Settles(m.h, "error", x) BY <1>7 DEF settable, m, s
  <2> QED BY <1>2, <1>3, <1>7, <2>1 DEF SameWay, Leads, Settles
<1> QED BY <1>4, <1>5, <1>6, <1>7

(* The functions of the loops, which exist: each is the one of a turn less, and a turn
   more *)
GetLoop(f, h, v, k) ==
  f = [x \in 0..MaxTagLoop |->
         IF x = 0 THEN Settles(h, "loop", v)
         ELSE IF f[x - 1].how = "loop" THEN gettable(f[x - 1].h, f[x - 1].on, k)
         ELSE f[x - 1]]
SetLoop(f, h, v, k, w) ==
  f = [x \in 0..MaxTagLoop |->
         IF x = 0 THEN Settles(h, "loop", v)
         ELSE IF f[x - 1].how = "loop" THEN settable(f[x - 1].h, f[x - 1].on, k, w)
         ELSE f[x - 1]]
Along(f, h, v, k, e) ==
  f = [x \in 0..MaxTagLoop |->
         IF x = 0 THEN <<"loop", v>>
         ELSE IF f[x - 1][1] = "loop" THEN Leads(h, f[x - 1][2], k, e)
         ELSE f[x - 1]]

LEMMA GetTurns ==
  ASSUME NEW h, NEW v, NEW k
  PROVE  \E f : GetLoop(f, h, v, k)
<1> DEFINE More(r) == IF r.how = "loop" THEN gettable(r.h, r.on, k) ELSE r
           Runs(f, m) == f = [x \in 0..m |-> IF x = 0 THEN Settles(h, "loop", v) ELSE More(f[x - 1])]
           P == {m \in 0..MaxTagLoop : \E f : Runs(f, m)}
<1>1. MaxTagLoop \in Nat BY MetatableAssumption
<1>2. 0 \in P
  <2> HIDE DEF More
  <2>1. Runs([x \in 0..0 |-> Settles(h, "loop", v)], 0) OBVIOUS
  <2> HIDE DEF Runs
  <2> QED BY <1>1, <2>1
<1>3. ASSUME NEW m \in 0..MaxTagLoop, m # 0, m - 1 \in P PROVE m \in P
  <2> HIDE DEF More
  <2>1. PICK f : Runs(f, m - 1) BY <1>3
  <2> DEFINE g == [x \in 0..m |-> IF x = m THEN More(f[m - 1]) ELSE f[x]]
  <2>2. \A x \in 0..m - 1 : x \in 0..m /\ x # m /\ g[x] = f[x] BY <1>3
  <2>3. g[m] = More(f[m - 1]) /\ m - 1 \in 0..m - 1 BY <1>3
  <2>4. \A x \in 0..m : x # m => x \in 0..m - 1 /\ (x # 0 => x - 1 \in 0..m - 1) BY <1>3
  <2>5. \A x \in 0..m - 1 : f[x] = IF x = 0 THEN Settles(h, "loop", v) ELSE More(f[x - 1]) BY <2>1
  <2>6. g = [x \in 0..m |-> g[x]] OBVIOUS
  <2> HIDE DEF g
  <2>7. \A x \in 0..m : g[x] = IF x = 0 THEN Settles(h, "loop", v) ELSE More(g[x - 1])
    BY <1>3, <2>2, <2>3, <2>4, <2>5
  <2>8. Runs(g, m) BY <2>6, <2>7
  <2> HIDE DEF Runs
  <2> QED BY <2>8
<1>4. MaxTagLoop \in P
  <2> HIDE DEF P
  <2> QED BY <1>1, <1>2, <1>3, Climb
<1>5. PICK f : Runs(f, MaxTagLoop) BY <1>4
<1> QED BY <1>5 DEF GetLoop

LEMMA SetTurns ==
  ASSUME NEW h, NEW v, NEW k, NEW w
  PROVE  \E f : SetLoop(f, h, v, k, w)
<1> DEFINE More(r) == IF r.how = "loop" THEN settable(r.h, r.on, k, w) ELSE r
           Runs(f, m) == f = [x \in 0..m |-> IF x = 0 THEN Settles(h, "loop", v) ELSE More(f[x - 1])]
           P == {m \in 0..MaxTagLoop : \E f : Runs(f, m)}
<1>1. MaxTagLoop \in Nat BY MetatableAssumption
<1>2. 0 \in P
  <2> HIDE DEF More
  <2>1. Runs([x \in 0..0 |-> Settles(h, "loop", v)], 0) OBVIOUS
  <2> HIDE DEF Runs
  <2> QED BY <1>1, <2>1
<1>3. ASSUME NEW m \in 0..MaxTagLoop, m # 0, m - 1 \in P PROVE m \in P
  <2> HIDE DEF More
  <2>1. PICK f : Runs(f, m - 1) BY <1>3
  <2> DEFINE g == [x \in 0..m |-> IF x = m THEN More(f[m - 1]) ELSE f[x]]
  <2>2. \A x \in 0..m - 1 : x \in 0..m /\ x # m /\ g[x] = f[x] BY <1>3
  <2>3. g[m] = More(f[m - 1]) /\ m - 1 \in 0..m - 1 BY <1>3
  <2>4. \A x \in 0..m : x # m => x \in 0..m - 1 /\ (x # 0 => x - 1 \in 0..m - 1) BY <1>3
  <2>5. \A x \in 0..m - 1 : f[x] = IF x = 0 THEN Settles(h, "loop", v) ELSE More(f[x - 1]) BY <2>1
  <2>6. g = [x \in 0..m |-> g[x]] OBVIOUS
  <2> HIDE DEF g
  <2>7. \A x \in 0..m : g[x] = IF x = 0 THEN Settles(h, "loop", v) ELSE More(g[x - 1])
    BY <1>3, <2>2, <2>3, <2>4, <2>5
  <2>8. Runs(g, m) BY <2>6, <2>7
  <2> HIDE DEF Runs
  <2> QED BY <2>8
<1>4. MaxTagLoop \in P
  <2> HIDE DEF P
  <2> QED BY <1>1, <1>2, <1>3, Climb
<1>5. PICK f : Runs(f, MaxTagLoop) BY <1>4
<1> QED BY <1>5 DEF SetLoop

LEMMA Ways ==
  ASSUME NEW h, NEW v, NEW k, NEW e
  PROVE  \E f : Along(f, h, v, k, e)
<1> DEFINE More(r) == IF r[1] = "loop" THEN Leads(h, r[2], k, e) ELSE r
           Runs(f, m) == f = [x \in 0..m |-> IF x = 0 THEN <<"loop", v>> ELSE More(f[x - 1])]
           P == {m \in 0..MaxTagLoop : \E f : Runs(f, m)}
<1>1. MaxTagLoop \in Nat BY MetatableAssumption
<1>2. 0 \in P
  <2> HIDE DEF More
  <2>1. Runs([x \in 0..0 |-> <<"loop", v>>], 0) OBVIOUS
  <2> HIDE DEF Runs
  <2> QED BY <1>1, <2>1
<1>3. ASSUME NEW m \in 0..MaxTagLoop, m # 0, m - 1 \in P PROVE m \in P
  <2> HIDE DEF More
  <2>1. PICK f : Runs(f, m - 1) BY <1>3
  <2> DEFINE g == [x \in 0..m |-> IF x = m THEN More(f[m - 1]) ELSE f[x]]
  <2>2. \A x \in 0..m - 1 : x \in 0..m /\ x # m /\ g[x] = f[x] BY <1>3
  <2>3. g[m] = More(f[m - 1]) /\ m - 1 \in 0..m - 1 BY <1>3
  <2>4. \A x \in 0..m : x # m => x \in 0..m - 1 /\ (x # 0 => x - 1 \in 0..m - 1) BY <1>3
  <2>5. \A x \in 0..m - 1 : f[x] = IF x = 0 THEN <<"loop", v>> ELSE More(f[x - 1]) BY <2>1
  <2>6. g = [x \in 0..m |-> g[x]] OBVIOUS
  <2> HIDE DEF g
  <2>7. \A x \in 0..m : g[x] = IF x = 0 THEN <<"loop", v>> ELSE More(g[x - 1])
    BY <1>3, <2>2, <2>3, <2>4, <2>5
  <2>8. Runs(g, m) BY <2>6, <2>7
  <2> HIDE DEF Runs
  <2> QED BY <2>8
<1>4. MaxTagLoop \in P
  <2> HIDE DEF P
  <2> QED BY <1>1, <1>2, <1>3, Climb
<1>5. PICK f : Runs(f, MaxTagLoop) BY <1>4
<1> QED BY <1>5 DEF Along

LEMMA GetWay ==
  ASSUME NEW h, Honest(h), NEW v, NEW k \in Keys
  PROVE  /\ Honest(luaV_gettable(h, v, k).h)
         /\ SameWay(luaV_gettable(h, v, k), Way(h, v, k, "__index"))
<1> DEFINE turn == CHOOSE f : GetLoop(f, h, v, k)
           way == CHOOSE f : Along(f, h, v, k, "__index")
           P == {x \in 0..MaxTagLoop : /\ Honest(turn[x].h) /\ Searched(h, turn[x].h)
                                       /\ SameWay(turn[x], way[x])}
<1>1. MaxTagLoop \in Nat BY MetatableAssumption
<1>2. GetLoop(turn, h, v, k) /\ Along(way, h, v, k, "__index") BY GetTurns, Ways, Zenon
<1>3. luaV_gettable(h, v, k) = turn[MaxTagLoop] BY DEF luaV_gettable, Turns, GetLoop
<1>4. Way(h, v, k, "__index") = way[MaxTagLoop] BY DEF Way, Along
<1> HIDE DEF turn, way
<1>5. 0 \in P
  <2>1. turn[0] = Settles(h, "loop", v) /\ way[0] = <<"loop", v>> BY <1>1, <1>2 DEF GetLoop, Along
  <2> QED BY <1>1, <2>1 DEF Settles, SameWay, Searched
<1>6. ASSUME NEW x \in 0..MaxTagLoop, x # 0, x - 1 \in P PROVE x \in P
  <2> DEFINE r == turn[x - 1]
             w == way[x - 1]
  <2>1. Honest(r.h) /\ Searched(h, r.h) /\ SameWay(r, w) BY <1>6
  <2>2. turn[x] = IF r.how = "loop" THEN gettable(r.h, r.on, k) ELSE r BY <1>2, <1>6 DEF GetLoop
  <2>3. way[x] = IF w[1] = "loop" THEN Leads(h, w[2], k, "__index") ELSE w BY <1>2, <1>6 DEF Along
  <2> HIDE DEF r, w
  <2>4. CASE r.how = "loop"
    <3>1. /\ Honest(turn[x].h) /\ Searched(r.h, turn[x].h)
          /\ SameWay(turn[x], Leads(r.h, r.on, k, "__index"))
      BY <2>1, <2>2, <2>4, GetTurn
    <3>2. Leads(r.h, r.on, k, "__index") = way[x] BY <2>1, <2>3, <2>4, SameHandler DEF SameWay
    <3>3. Searched(h, turn[x].h) BY <2>1, <3>1 DEF Searched
    <3> QED BY <3>1, <3>2, <3>3
  <2>5. CASE r.how # "loop" BY <2>1, <2>2, <2>3, <2>5 DEF SameWay
  <2> QED BY <2>4, <2>5
<1>7. MaxTagLoop \in P
  <2> HIDE DEF P
  <2> QED BY <1>1, <1>5, <1>6, Climb
<1> QED BY <1>3, <1>4, <1>7

LEMMA SetWay ==
  ASSUME NEW h, Honest(h), NEW v, NEW k \in Keys, NEW new
  PROVE  /\ Honest(luaV_settable(h, v, k, new).h)
         /\ SameWay(luaV_settable(h, v, k, new), Way(h, v, k, "__newindex"))
<1> DEFINE turn == CHOOSE f : SetLoop(f, h, v, k, new)
           way == CHOOSE f : Along(f, h, v, k, "__newindex")
           P == {x \in 0..MaxTagLoop : /\ Honest(turn[x].h)
                                       /\ turn[x].how = "loop" => Searched(h, turn[x].h)
                                       /\ SameWay(turn[x], way[x])}
<1>1. MaxTagLoop \in Nat BY MetatableAssumption
<1>2. SetLoop(turn, h, v, k, new) /\ Along(way, h, v, k, "__newindex") BY SetTurns, Ways, Zenon
<1>3. luaV_settable(h, v, k, new) = turn[MaxTagLoop] BY DEF luaV_settable, Turns, SetLoop
<1>4. Way(h, v, k, "__newindex") = way[MaxTagLoop] BY DEF Way, Along
<1> HIDE DEF turn, way
<1>5. 0 \in P
  <2>1. turn[0] = Settles(h, "loop", v) /\ way[0] = <<"loop", v>> BY <1>1, <1>2 DEF SetLoop, Along
  <2> QED BY <1>1, <2>1 DEF Settles, SameWay, Searched
<1>6. ASSUME NEW x \in 0..MaxTagLoop, x # 0, x - 1 \in P PROVE x \in P
  <2> DEFINE r == turn[x - 1]
             w == way[x - 1]
  <2>1. Honest(r.h) /\ (r.how = "loop" => Searched(h, r.h)) /\ SameWay(r, w) BY <1>6
  <2>2. turn[x] = IF r.how = "loop" THEN settable(r.h, r.on, k, new) ELSE r BY <1>2, <1>6 DEF SetLoop
  <2>3. way[x] = IF w[1] = "loop" THEN Leads(h, w[2], k, "__newindex") ELSE w BY <1>2, <1>6 DEF Along
  <2> HIDE DEF r, w
  <2>4. CASE r.how = "loop"
    <3>1. /\ Honest(turn[x].h) /\ (turn[x].how = "loop" => Searched(r.h, turn[x].h))
          /\ SameWay(turn[x], Leads(r.h, r.on, k, "__newindex"))
      BY <2>1, <2>2, <2>4, SetTurn
    <3>2. Leads(r.h, r.on, k, "__newindex") = way[x] BY <2>1, <2>3, <2>4, SameHandler DEF SameWay
    <3>3. turn[x].how = "loop" => Searched(h, turn[x].h) BY <2>1, <2>4, <3>1 DEF Searched
    <3> QED BY <3>1, <3>2, <3>3
  <2>5. CASE r.how # "loop" BY <2>1, <2>2, <2>3, <2>5 DEF SameWay
  <2> QED BY <2>4, <2>5
<1>7. MaxTagLoop \in P
  <2> HIDE DEF P
  <2> QED BY <1>1, <1>5, <1>6, Climb
<1> QED BY <1>3, <1>4, <1>7

LEMMA EqualHonest ==
  ASSUME NEW h, Honest(h), NEW x \in Tables, NEW y \in Tables
  PROVE  /\ Honest(get_compTM(h, h.meta[x], h.meta[y]).h)
         /\ get_compTM(h, h.meta[x], h.meta[y]).tm = EqualBy(h, x, y)
<1> DEFINE a == fasttm(h, h.meta[x], "__eq")
           b == fasttm(a.h, h.meta[y], "__eq")
<1>1. h.meta[x] \in Tables \cup {"nil"} /\ h.meta[y] \in Tables \cup {"nil"} /\ "__eq" \in Cached
  BY DEF Honest, Cached
<1>2. Honest(a.h) /\ Searched(h, a.h)
      /\ a.tm = IF h.meta[x] = "nil" THEN "nil" ELSE h.field[h.meta[x]]["__eq"]
  BY <1>1, FasttmHonest
<1>3. Honest(b.h) /\ b.tm = IF h.meta[y] = "nil" THEN "nil" ELSE a.h.field[h.meta[y]]["__eq"]
  <2> HIDE DEF a
  <2> QED BY <1>1, <1>2, FasttmHonest
<1>4. /\ Handler(h, x, "__eq") = IF h.meta[x] = "nil" THEN "nil" ELSE h.field[h.meta[x]]["__eq"]
      /\ Handler(h, y, "__eq") = IF h.meta[y] = "nil" THEN "nil" ELSE h.field[h.meta[y]]["__eq"]
  BY MetatableAssumption DEF Handler
<1>5. get_compTM(h, h.meta[x], h.meta[y])
      = IF a.tm = "nil" \/ h.meta[x] = h.meta[y] THEN a ELSE IF b.tm = a.tm THEN b ELSE Found(b.h, "nil")
  BY DEF get_compTM
<1> HIDE DEF a, b
<1> QED BY <1>2, <1>3, <1>4, <1>5 DEF EqualBy, Found, Searched

(* The invariant: the flags are honest. *)
THEOREM FlagsHonest == MetaSpec => []Honest(heap)
<1>1. luaH_new => Honest(heap)
  <2> SUFFICES ASSUME luaH_new PROVE Honest(heap) OBVIOUS
  <2> QED BY DEF luaH_new, Honest, Record, Keys
<1>2. Honest(heap) /\ [MetaNext]_metavars => Honest(heap)'
  <2> SUFFICES ASSUME Honest(heap), [MetaNext]_metavars PROVE Honest(heap') OBVIOUS
  <2>1. ASSUME NEW x \in Tables, NEW k \in Keys, Get(x, k) PROVE Honest(heap')
    BY <2>1, GetWay DEF Get
  <2>2. ASSUME NEW x \in Tables, NEW k \in Keys, NEW v, Set(x, k, v) PROVE Honest(heap')
    BY <2>2, SetWay DEF Set
  <2>3. ASSUME NEW x \in Tables, NEW k \in Keys, NEW v, RawSet(x, k, v) PROVE Honest(heap')
    <3> DEFINE g == luaH_set(heap, x)
    <3>1. Honest(g) BY SetHonest
    <3>2. Honest(Stored(g, x, k, v)) BY <3>1, StoredHonest
    <3>3. heap' = [g EXCEPT !.field[x][k] = v] BY <2>3 DEF RawSet
    <3>4. g.flags[x] = {}
      <4>1. heap.flags \in [Tables -> SUBSET Cached] /\ Record(heap, heap.field, heap.meta, heap.flags) BY DEF Honest
      <4> QED BY <4>1 DEF luaH_set, Record
    <3> HIDE DEF g
    <3>5. heap' = Stored(g, x, k, v)
      <4>1. g.flags \in [Tables -> SUBSET Cached] /\ Record(g, g.field, g.meta, g.flags) BY <3>1 DEF Honest
      <4> QED BY <3>3, <3>4, <4>1 DEF Stored, Record
    <3> QED BY <3>2, <3>5
  <2>4. ASSUME NEW x \in Tables, NEW mt \in Tables \cup {"nil"}, setmetatable(x, mt) PROVE Honest(heap')
    <3>1. Record(heap, heap.field, heap.meta, heap.flags) /\ heap.meta \in [Tables -> Tables \cup {"nil"}]
      BY DEF Honest
    <3>2. heap' = [heap EXCEPT !.meta[x] = mt] BY <2>4 DEF setmetatable
    <3>3. /\ heap'.field = heap.field /\ heap'.meta = [heap.meta EXCEPT ![x] = mt]
          /\ heap'.flags = heap.flags /\ Record(heap', heap'.field, heap'.meta, heap'.flags)
      BY <3>1, <3>2 DEF Record
    <3>4. heap'.meta \in [Tables -> Tables \cup {"nil"}] BY <3>1, <3>3
    <3> QED BY <3>3, <3>4 DEF Honest
  <2>5. ASSUME NEW x \in Tables, NEW y \in Tables, Equal(x, y) PROVE Honest(heap')
    BY <2>5, EqualHonest DEF Equal
  <2>6. CASE UNCHANGED metavars BY <2>6 DEF metavars
  <2>7. Cached \subseteq Keys BY DEF Keys
  <2> QED BY <2>1, <2>2, <2>3, <2>4, <2>5, <2>6, <2>7 DEF MetaNext
<1> QED BY <1>1, <1>2, PTL DEF MetaSpec

(* ltm.c, lvm.c: an access ends where it would if every field was looked up every
   time, and so does a comparison: HandlersFound, for any number of tables and any
   limit to the handlers followed. *)
THEOREM HandlersAlwaysFound == MetaSpec => []HandlersFound
<1>1. Honest(heap) => HandlersFound
  BY GetWay, SetWay, EqualHonest DEF HandlersFound
<1> QED BY <1>1, FlagsHonest, PTL

------------------------------------------------------------------------------
(* The buffers of C functions: what a sequence of pieces says as a whole *)

Folded(f, s) == f = [i \in 1..Len(s) |-> IF i = 1 THEN s[i] ELSE f[i - 1] \o s[i]]

LEMMA FoldedExists ==
  ASSUME NEW s, Len(s) \in Nat
  PROVE  \E f : Folded(f, s)
<1> DEFINE Runs(f, m) == f = [i \in 1..m |-> IF i = 1 THEN s[i] ELSE f[i - 1] \o s[i]]
           P == {m \in 0..Len(s) : \E f : Runs(f, m)}
<1>1. 0 \in P
  <2>1. 1..0 = {} OBVIOUS
  <2>2. Runs(<<>>, 0) BY <2>1
  <2> HIDE DEF Runs
  <2> QED BY <2>2
<1>2. ASSUME NEW m \in 0..Len(s), m # 0, m - 1 \in P PROVE m \in P
  <2>1. PICK f : Runs(f, m - 1) BY <1>2
  <2> DEFINE g == [i \in 1..m |-> IF i = m THEN IF i = 1 THEN s[i] ELSE f[i - 1] \o s[i] ELSE f[i]]
  <2>2. \A i \in 1..m - 1 : i \in 1..m /\ i # m /\ g[i] = f[i] BY <1>2
  <2>3. m \in 1..m /\ g[m] = (IF m = 1 THEN s[m] ELSE f[m - 1] \o s[m]) BY <1>2
  <2>4. \A i \in 1..m : /\ i # m => i \in 1..m - 1
                        /\ i # 1 => i - 1 \in 1..m - 1
    BY <1>2
  <2>5. \A i \in 1..m - 1 : f[i] = IF i = 1 THEN s[i] ELSE f[i - 1] \o s[i] BY <2>1
  <2>6. g = [i \in 1..m |-> g[i]] OBVIOUS
  <2> HIDE DEF g
  <2>7. \A i \in 1..m : g[i] = IF i = 1 THEN s[i] ELSE g[i - 1] \o s[i]
    BY <1>2, <2>2, <2>3, <2>4, <2>5
  <2>8. Runs(g, m) BY <2>6, <2>7
  <2> HIDE DEF Runs
  <2> QED BY <2>8
<1>3. Len(s) \in P
  <2> HIDE DEF P
  <2> QED BY <1>1, <1>2, Climb, Zenon
<1>4. PICK f : Runs(f, Len(s)) BY <1>3
<1> QED BY <1>4 DEF Folded

LEMMA Whole ==
  ASSUME NEW S, NEW s \in Seq(Seq(S))
  PROVE  /\ Len(s) = 0 => FlattenSeq(s) = <<>>
         /\ Len(s) # 0 => \E f : Folded(f, s) /\ FlattenSeq(s) = f[Len(s)]
<1>1. Len(s) = 0 => s = <<>> OBVIOUS
<1>2. Len(s) = 0 => FlattenSeq(s) = s BY DEF FlattenSeq
<1> DEFINE f == CHOOSE g : Folded(g, s)
<1>3. Folded(f, s)
  <2>1. \E g : Folded(g, s) BY FoldedExists
  <2> QED BY <2>1, Zenon
<1>4. ASSUME Len(s) # 0 PROVE FlattenSeq(s) = f[Len(s)] BY <1>4 DEF FlattenSeq, Folded
<1> HIDE DEF f
<1> QED BY <1>1, <1>2, <1>3, <1>4

LEMMA FoldedStep ==
  ASSUME NEW s, NEW f, Folded(f, s)
  PROVE  \A i \in 1..Len(s) : f[i] = IF i = 1 THEN s[i] ELSE f[i - 1] \o s[i]
BY DEF Folded

LEMMA FlatType ==
  ASSUME NEW S, NEW s \in Seq(Seq(S))
  PROVE  FlattenSeq(s) \in Seq(S)
<1>1. CASE Len(s) = 0
  <2>1. FlattenSeq(s) = <<>> BY <1>1, Whole
  <2> QED BY <2>1
<1>2. CASE Len(s) # 0
  <2>1. PICK f : Folded(f, s) /\ FlattenSeq(s) = f[Len(s)] BY <1>2, Whole
  <2> DEFINE P == {i \in 0..Len(s) : i = 0 \/ f[i] \in Seq(S)}
  <2>2. Len(s) \in Nat /\ \A i \in 1..Len(s) : s[i] \in Seq(S) OBVIOUS
  <2>3. 0 \in P BY <2>2
  <2>4. ASSUME NEW i \in 0..Len(s), i # 0, i - 1 \in P PROVE i \in P
    <3>1. i \in 1..Len(s) /\ s[i] \in Seq(S) BY <2>2, <2>4
    <3>2. f[i] = IF i = 1 THEN s[i] ELSE f[i - 1] \o s[i] BY <2>1, <2>2, <3>1, FoldedStep
    <3>3. i # 1 => f[i - 1] \in Seq(S) BY <2>4
    <3>4. f[i] \in Seq(S) BY <3>1, <3>2, <3>3
    <3> QED BY <3>4
  <2>5. Len(s) \in P
    <3> HIDE DEF P
    <3> QED BY <2>2, <2>3, <2>4, Climb, Zenon
  <2> QED BY <1>2, <2>1, <2>5
<1> QED BY <1>1, <1>2

LEMMA FlatAppend ==
  ASSUME NEW S, NEW s \in Seq(Seq(S)), NEW e \in Seq(S)
  PROVE  FlattenSeq(Append(s, e)) = FlattenSeq(s) \o e
<1> DEFINE r == Append(s, e)
<1>1. /\ r \in Seq(Seq(S)) /\ Len(r) = Len(s) + 1 /\ Len(s) \in Nat
      /\ (\A i \in 1..Len(s) : r[i] = s[i]) /\ r[Len(s) + 1] = e
  OBVIOUS
<1> HIDE DEF r
<1>2. PICK g : Folded(g, r) /\ FlattenSeq(r) = g[Len(r)]
  <2>1. r \in Seq(Seq(S)) /\ Len(r) # 0 BY <1>1
  <2> QED BY <2>1, Whole, ZenonT(30)
<1>3. CASE Len(s) = 0
  <2>1. g[1] = e BY <1>1, <1>2, <1>3, FoldedStep
  <2>2. FlattenSeq(s) = <<>> BY <1>3, Whole
  <2> QED BY <1>1, <1>2, <1>3, <2>1, <2>2, ConcatEmptySeq DEF r
<1>4. CASE Len(s) # 0
  <2>1. PICK f : Folded(f, s) /\ FlattenSeq(s) = f[Len(s)] BY <1>4, Whole
  <2> DEFINE P == {i \in 0..Len(s) : i = 0 \/ g[i] = f[i]}
  <2>2. 0 \in P BY <1>1
  <2>3. ASSUME NEW i \in 0..Len(s), i # 0, i - 1 \in P PROVE i \in P
    <3>1. i \in 1..Len(s) /\ i \in 1..Len(r)
      <4>1. i \in 0..Len(s) /\ i # 0 /\ Len(r) = Len(s) + 1 /\ Len(s) \in Nat BY <1>1, <2>3
      <4> QED BY <4>1
    <3>5. r[i] = s[i] BY <1>1, <3>1
    <3>2. f[i] = IF i = 1 THEN s[i] ELSE f[i - 1] \o s[i] BY <2>1, <3>1, FoldedStep, ZenonT(30)
    <3>3. g[i] = IF i = 1 THEN r[i] ELSE g[i - 1] \o r[i] BY <1>2, <3>1, FoldedStep, ZenonT(30)
    <3>4. i # 1 => g[i - 1] = f[i - 1] BY <2>3
    <3> QED BY <3>1, <3>2, <3>3, <3>4, <3>5
  <2>4. Len(s) \in P
    <3> HIDE DEF P
    <3> QED BY <1>1, <2>2, <2>3, Climb, Zenon
  <2>5. g[Len(s)] = f[Len(s)] BY <1>4, <2>4
  <2>6. Len(s) + 1 \in 1..Len(r) /\ Len(s) + 1 # 1 /\ (Len(s) + 1) - 1 = Len(s) BY <1>1, <1>4
  <2>7. g[Len(s) + 1] = g[Len(s)] \o r[Len(s) + 1]
    <3>1. \A i \in 1..Len(r) : g[i] = IF i = 1 THEN r[i] ELSE g[i - 1] \o r[i]
      BY <1>2, FoldedStep
    <3> QED BY <2>6, <3>1, Zenon
  <2> QED BY <1>1, <1>2, <2>1, <2>5, <2>7 DEF r
<1> QED BY <1>3, <1>4

Associates(x, y, z) == (x \o y) \o z = x \o (y \o z)

LEMMA Regroup ==
  ASSUME NEW S, NEW x, NEW y, NEW z, x \in Seq(S), y \in Seq(S), z \in Seq(S)
  PROVE  Associates(x, y, z)
BY ConcatAssociative, SMTT(30) DEF Associates

LEMMA FlatConcat ==
  ASSUME NEW S, NEW s \in Seq(Seq(S)), NEW r \in Seq(Seq(S))
  PROVE  FlattenSeq(s \o r) = FlattenSeq(s) \o FlattenSeq(r)
<1> DEFINE h(m) == SubSeq(r, 1, m)
           P == {m \in 0..Len(r) : FlattenSeq(s \o h(m)) = FlattenSeq(s) \o FlattenSeq(h(m))}
<1>1. Len(r) \in Nat /\ \A m \in 1..Len(r) : r[m] \in Seq(S) OBVIOUS
<1>2. 0 \in P
  <2>1. h(0) = <<>> BY SubSeqEmpty
  <2>2. s \o <<>> = s BY ConcatEmptySeq
  <2>3. FlattenSeq(<<>>) = <<>>
    <3>1. <<>> \in Seq(Seq(S)) /\ Len(<<>>) = 0 OBVIOUS
    <3> QED BY <3>1, Whole
  <2>4. FlattenSeq(s) \o <<>> = FlattenSeq(s) BY FlatType, ConcatEmptySeq
  <2> HIDE DEF h
  <2>5. FlattenSeq(s \o h(0)) = FlattenSeq(s) \o FlattenSeq(h(0)) BY <2>1, <2>2, <2>3, <2>4
  <2> QED BY <1>1, <2>5
<1>3. ASSUME NEW m \in 0..Len(r), m # 0, m - 1 \in P PROVE m \in P
  <2> DEFINE a == h(m - 1)
             e == r[m]
  <2>1. m \in 1..Len(r) /\ e \in Seq(S) /\ m - 1 \in 0..Len(r) BY <1>1, <1>3
  <2>2. a \in Seq(Seq(S))
    <3>1. \A i \in 1..m - 1 : r[i] \in Seq(S) BY <1>1, <2>1
    <3> QED BY <3>1, <2>1, SubSeqProperties
  <2>3. h(m) = a \o <<e>> BY <2>1, SubSeqRecursiveSecond
  <2>4. FlattenSeq(s \o a) = FlattenSeq(s) \o FlattenSeq(a) BY <1>3
  <2> HIDE DEF a, e, h
  <2>5. a \o <<e>> = Append(a, e) BY <2>1, <2>2, AppendIsConcat
  <2>6. <<e>> \in Seq(Seq(S)) /\ s \o a \in Seq(Seq(S)) BY <2>1, <2>2
  <2>7. s \o (a \o <<e>>) = (s \o a) \o <<e>>
    <3>1. Associates(s, a, <<e>>) BY <2>2, <2>6, Regroup, ZenonT(30)
    <3> QED BY <3>1 DEF Associates
  <2>8. (s \o a) \o <<e>> = Append(s \o a, e) BY <2>1, <2>6, AppendIsConcat
  <2>9. FlattenSeq(s \o h(m)) = FlattenSeq(s \o a) \o e BY <2>1, <2>3, <2>6, <2>7, <2>8, FlatAppend
  <2>10. FlattenSeq(h(m)) = FlattenSeq(a) \o e BY <2>1, <2>2, <2>3, <2>5, FlatAppend
  <2>11. FlattenSeq(s) \in Seq(S) /\ FlattenSeq(a) \in Seq(S) BY <2>2, FlatType
  <2>12. (FlattenSeq(s) \o FlattenSeq(a)) \o e = FlattenSeq(s) \o (FlattenSeq(a) \o e)
    <3>1. Associates(FlattenSeq(s), FlattenSeq(a), e)
      BY <2>1, <2>11, Regroup, ZenonT(30)
    <3> QED BY <3>1 DEF Associates
  <2> QED BY <2>4, <2>9, <2>10, <2>12
<1>4. Len(r) \in P
  <2> HIDE DEF P
  <2> QED BY <1>1, <1>2, <1>3, Climb, Zenon
<1>5. h(Len(r)) = r BY SubSeqFull
<1> QED BY <1>4, <1>5

------------------------------------------------------------------------------
(* The pieces of a buffer *)

Pieces(b) ==
  /\ b \in [p : Seq(Nat), lvl : Nat, stack : Seq(Seq(Nat))]
  /\ b.lvl = Len(b.stack)

Says(b) == FlattenSeq(b.stack) \o b.p

(* Putting pieces together changes nothing of what they say. *)
LEMMA Joins ==
  ASSUME NEW s \in Seq(Seq(Nat)), NEW k \in 0..Len(s)
  PROVE  /\ Joined(s, k) \in Seq(Seq(Nat)) /\ Len(Joined(s, k)) = Len(s) - k + 1
         /\ FlattenSeq(Joined(s, k)) = FlattenSeq(s)
<1> DEFINE low == SubSeq(s, 1, Len(s) - k)
           top == SubSeq(s, Len(s) - k + 1, Len(s))
<1>1. Len(s) \in Nat /\ \A x \in 1..Len(s) : s[x] \in Seq(Nat) OBVIOUS
<1>2. low \in Seq(Seq(Nat)) /\ Len(low) = Len(s) - k
  <2>1. \A x \in 1..Len(s) - k : s[x] \in Seq(Nat) BY <1>1
  <2>2. 1 \in Int /\ Len(s) - k \in Nat BY <1>1
  <2> QED BY <2>1, <2>2, SubSeqProperties
<1>3. top \in Seq(Seq(Nat))
  <2>1. \A x \in Len(s) - k + 1..Len(s) : s[x] \in Seq(Nat) BY <1>1
  <2>2. Len(s) - k + 1 \in Int /\ Len(s) \in Int BY <1>1
  <2> QED BY <2>1, <2>2, SubSeqProperties
<1>4. low \o top = s
  <2>1. /\ 1 \in 1..Len(s) + 1 /\ Len(s) - k \in 1 - 1..Len(s) /\ Len(s) \in Len(s) - k..Len(s)
    BY <1>1
  <2>2. SubSeq(s, 1, Len(s) - k) \o SubSeq(s, Len(s) - k + 1, Len(s)) = SubSeq(s, 1, Len(s))
    BY <2>1, ConcatAdjacentSubSeq
  <2> QED BY <2>2, SubSeqFull
<1>5. Joined(s, k) = Append(low, FlattenSeq(top)) BY DEF Joined, LastOf
<1> HIDE DEF low, top
<1>6. FlattenSeq(top) \in Seq(Nat) /\ FlattenSeq(s) = FlattenSeq(low) \o FlattenSeq(top)
  BY <1>2, <1>3, <1>4, FlatType, FlatConcat
<1>7. FlattenSeq(Append(low, FlattenSeq(top))) = FlattenSeq(low) \o FlattenSeq(top)
  BY <1>2, <1>6, FlatAppend
<1>8. Append(low, FlattenSeq(top)) \in Seq(Seq(Nat)) /\ Len(Append(low, FlattenSeq(top))) = Len(low) + 1
  BY <1>2, <1>6, AppendProperties
<1> QED BY <1>1, <1>2, <1>5, <1>6, <1>7, <1>8

LEMMA Empties ==
  ASSUME NEW b, Pieces(b)
  PROVE  LET e == emptybuffer(b) IN
           /\ Pieces(e) /\ e.p = <<>> /\ Says(e) = Says(b)
           /\ b.p = <<>> => e = b
           /\ b.p # <<>> => e.lvl = b.lvl + 1
<1> DEFINE e == emptybuffer(b)
<1>1. b.p \in Seq(Nat) /\ b.stack \in Seq(Seq(Nat)) /\ b.lvl = Len(b.stack) /\ b.lvl \in Nat BY DEF Pieces
<1>2. CASE b.p = <<>> BY <1>2 DEF emptybuffer
<1>3. CASE b.p # <<>>
  <2>1. e = [p |-> <<>>, lvl |-> b.lvl + 1, stack |-> Append(b.stack, b.p)] BY <1>3 DEF emptybuffer
  <2> HIDE DEF e
  <2>2. Append(b.stack, b.p) \in Seq(Seq(Nat)) /\ Len(Append(b.stack, b.p)) = Len(b.stack) + 1
    BY <1>1, AppendProperties
  <2>3. Pieces(e) BY <1>1, <2>1, <2>2 DEF Pieces
  <2>4. FlattenSeq(e.stack) = Says(b) /\ e.p = <<>> BY <1>1, <2>1, FlatAppend DEF Says
  <2>5. FlattenSeq(e.stack) \in Seq(Nat) BY <2>3, FlatType DEF Pieces
  <2>6. Says(e) = Says(b) BY <2>4, <2>5, ConcatEmptySeq DEF Says
  <2> QED BY <1>3, <2>1, <2>3, <2>4, <2>6 DEF e
<1> QED BY <1>2, <1>3

(* Enough pieces are put together. *)
LEMMA Enough ==
  ASSUME NEW b, Pieces(b), b.lvl > 1
  PROVE  /\ toget(b) \in 1..b.lvl
         /\ toget(b) = b.lvl \/ b.lvl - toget(b) + 1 < Limit
<1> DEFINE K == {k \in 1..b.lvl : k = b.lvl \/ ~Gets(b, k)}
<1>1. b.lvl \in Nat /\ Limit \in Nat BY BufferAssumption DEF Pieces
<1>2. K \in SUBSET Nat /\ b.lvl \in K BY <1>1
<1>3. PICK k \in K : \A x \in K : k <= x
  <2> HIDE DEF K
  <2> QED BY <1>2, Least
<1>4. toget(b) = CHOOSE x \in K : \A y \in K : x =< y BY DEF toget, Min
<1> DEFINE g == toget(b)
<1>5. g \in K
  <2> HIDE DEF K
  <2> QED BY <1>3, <1>4
<1>6. g \in 1..b.lvl /\ (g = b.lvl \/ ~Gets(b, g))
  <2> HIDE DEF g
  <2> QED BY <1>5
<1> HIDE DEF g, K
<1>7. g # b.lvl => ~(b.lvl - g + 1 >= Limit) BY <1>6 DEF Gets
<1>8. g # b.lvl => b.lvl - g + 1 < Limit BY <1>1, <1>6, <1>7
<1> QED BY <1>6, <1>8 DEF g

LEMMA Adjusts ==
  ASSUME NEW b, Pieces(b), b.p = <<>>
  PROVE  LET a == adjuststack(b) IN
           Pieces(a) /\ a.p = <<>> /\ Says(a) = Says(b) /\ a.lvl < Limit
<1> DEFINE a == adjuststack(b)
           k == toget(b)
<1>1. b.p \in Seq(Nat) /\ b.stack \in Seq(Seq(Nat)) /\ b.lvl = Len(b.stack) /\ b.lvl \in Nat BY DEF Pieces
<1>2. Limit \in Nat /\ 1 < Limit BY BufferAssumption
<1>3. CASE ~(b.lvl > 1)
  <2>1. a = b BY <1>3 DEF adjuststack
  <2> QED BY <1>1, <1>2, <1>3, <2>1
<1>4. CASE b.lvl > 1
  <2>1. k \in 1..b.lvl /\ (k = b.lvl \/ b.lvl - k + 1 < Limit) BY <1>4, Enough
  <2>2. a = [b EXCEPT !.stack = Joined(@, k), !.lvl = @ - k + 1] BY <1>4 DEF adjuststack
  <2> HIDE DEF a, k
  <2>3. /\ Joined(b.stack, k) \in Seq(Seq(Nat)) /\ Len(Joined(b.stack, k)) = Len(b.stack) - k + 1
        /\ FlattenSeq(Joined(b.stack, k)) = FlattenSeq(b.stack)
    <3>1. k \in 0..Len(b.stack) BY <1>1, <2>1
    <3> QED BY <1>1, <3>1, Joins
  <2>4. /\ a.p = b.p /\ a.lvl = b.lvl - k + 1 /\ a.stack = Joined(b.stack, k)
        /\ a \in [p : {a.p}, lvl : {a.lvl}, stack : {a.stack}]
    BY <2>2 DEF Pieces
  <2>5. b.lvl - k + 1 \in Nat /\ b.lvl - k + 1 < Limit BY <1>1, <1>2, <2>1
  <2>6. Pieces(a) BY <1>1, <2>3, <2>4, <2>5 DEF Pieces
  <2>7. Says(a) = Says(b) BY <2>3, <2>4 DEF Says
  <2> QED BY <2>4, <2>5, <2>6, <2>7 DEF a
<1> QED BY <1>3, <1>4

LEMMA Prepares ==
  ASSUME NEW b, Pieces(b), b.lvl < Limit
  PROVE  LET a == luaL_prepbuffer(b) IN
           Pieces(a) /\ a.p = <<>> /\ Says(a) = Says(b) /\ a.lvl < Limit
<1>1. CASE b.p = <<>> BY <1>1 DEF luaL_prepbuffer
<1>2. CASE b.p # <<>>
  <2> DEFINE e == emptybuffer(b)
  <2>1. Pieces(e) /\ e.p = <<>> /\ Says(e) = Says(b) BY Empties
  <2>2. luaL_prepbuffer(b) = adjuststack(e) BY <1>2 DEF luaL_prepbuffer
  <2> HIDE DEF e
  <2> QED BY <2>1, <2>2, Adjusts
<1> QED BY <1>1, <1>2

Inorder(m) == [x \in 1..m |-> x]

LEMMA GoesOn ==
  ASSUME added \in Nat, NEW k \in Nat
  PROVE  /\ New(k) \in Seq(Nat) /\ Len(New(k)) = k
         /\ Inorder(added) \o New(k) = Inorder(added + k)
<1>1. /\ New(k) \in Seq(Nat) /\ Len(New(k)) = k /\ Inorder(added) \in Seq(Nat)
      /\ Len(Inorder(added)) = added
  BY DEF New, Inorder
<1>2. Inorder(added + k) \in Seq(Nat) /\ Len(Inorder(added + k)) = added + k BY DEF Inorder
<1> DEFINE w == Inorder(added) \o New(k)
<1>3. /\ w \in Seq(Nat) /\ Len(w) = added + k
      /\ \A x \in 1..added + k : w[x] = IF x <= added THEN Inorder(added)[x] ELSE New(k)[x - added]
  <2> DEFINE f == Inorder(added)
             g == New(k)
  <2> HIDE DEF f, g
  <2>1. f \in Seq(Nat) /\ g \in Seq(Nat) /\ Len(f) = added /\ Len(g) = k BY <1>1 DEF f, g
  <2>2. /\ f \o g \in Seq(Nat) /\ Len(f \o g) = Len(f) + Len(g)
        /\ \A x \in 1..Len(f) + Len(g) : (f \o g)[x] = IF x <= Len(f) THEN f[x] ELSE g[x - Len(f)]
    BY <2>1, ConcatProperties
  <2>3. w = f \o g BY DEF f, g
  <2> HIDE DEF w
  <2> QED BY <2>1, <2>2, <2>3 DEF f, g
<1>4. \A x \in 1..added + k : w[x] = Inorder(added + k)[x]
  <2> HIDE DEF w
  <2> TAKE x \in 1..added + k
  <2>1. Inorder(added + k)[x] = x BY DEF Inorder
  <2>2. x <= added => Inorder(added)[x] = x BY DEF Inorder
  <2>3. ~(x <= added) => New(k)[x - added] = x
    <3>1. ~(x <= added) => x - added \in 1..k OBVIOUS
    <3> QED BY <3>1 DEF New
  <2> QED BY <1>3, <2>1, <2>2, <2>3
<1> HIDE DEF w
<1>5. w = Inorder(added + k) BY <1>2, <1>3, <1>4, SeqEqual
<1> QED BY <1>1, <1>5 DEF w

(* What is added goes behind what the buffer says. *)
LEMMA Adds ==
  ASSUME NEW b, Pieces(b), added \in Nat, Says(b) = Inorder(added), NEW k \in Nat, NEW c,
         c = [b EXCEPT !.p = @ \o New(k)]
  PROVE  /\ Pieces(c) /\ Says(c) = Inorder(added + k) /\ c.lvl = b.lvl
         /\ Len(c.p) = Len(b.p) + k
<1>1. b.p \in Seq(Nat) /\ b.stack \in Seq(Seq(Nat)) /\ b.lvl = Len(b.stack) /\ b.lvl \in Nat BY DEF Pieces
<1>2. /\ c.p = b.p \o New(k) /\ c.lvl = b.lvl /\ c.stack = b.stack
      /\ c \in [p : {c.p}, lvl : {c.lvl}, stack : {c.stack}]
  BY DEF Pieces
<1>3. New(k) \in Seq(Nat) /\ Len(New(k)) = k /\ Inorder(added) \o New(k) = Inorder(added + k) BY GoesOn
<1>4. b.p \o New(k) \in Seq(Nat) /\ Len(b.p \o New(k)) = Len(b.p) + k BY <1>1, <1>3, ConcatProperties
<1>5. Pieces(c) BY <1>1, <1>2, <1>4 DEF Pieces
<1>6. FlattenSeq(b.stack) \in Seq(Nat) BY <1>1, FlatType
<1>7. FlattenSeq(b.stack) \o (b.p \o New(k)) = (FlattenSeq(b.stack) \o b.p) \o New(k)
  <2>1. Associates(FlattenSeq(b.stack), b.p, New(k))
    BY <1>1, <1>3, <1>6, Regroup, ZenonT(30)
  <2> QED BY <2>1 DEF Associates
<1>8. Says(c) = Inorder(added + k) BY <1>2, <1>3, <1>7 DEF Says
<1> QED BY <1>2, <1>4, <1>5, <1>8

(* The invariant of a buffer *)
BufferOK ==
  /\ Pieces(B) /\ added \in Nat
  /\ Says(B) = Inorder(added)
  /\ B.lvl < Limit /\ Len(B.p) <= BufferSize

LEMMA AddsChar == ASSUME BufferOK, luaL_addchar PROVE BufferOK'
<1> DEFINE room == IF Len(B.p) < BufferSize THEN B ELSE luaL_prepbuffer(B)
<1>1. Pieces(room) /\ Says(room) = Inorder(added) /\ room.lvl < Limit /\ Len(room.p) < BufferSize
  <2>1. CASE Len(B.p) < BufferSize BY <2>1 DEF BufferOK
  <2>2. CASE ~(Len(B.p) < BufferSize)
    <3>1. room = luaL_prepbuffer(B) BY <2>2
    <3> HIDE DEF room
    <3>2. Pieces(room) /\ room.p = <<>> /\ Says(room) = Says(B) /\ room.lvl < Limit
      BY <3>1, Prepares DEF BufferOK
    <3> QED BY <3>2, BufferAssumption DEF BufferOK
  <2> QED BY <2>1, <2>2
<1>2. B' = [room EXCEPT !.p = @ \o New(1)] /\ added' = added + 1 BY DEF luaL_addchar
<1> HIDE DEF room
<1>3. Pieces(B') /\ Says(B') = Inorder(added + 1) /\ B'.lvl = room.lvl /\ Len(B'.p) = Len(room.p) + 1
  BY <1>1, <1>2, Adds DEF BufferOK
<1>4. Len(room.p) \in Nat BY <1>1 DEF Pieces
<1>5. Len(B'.p) <= BufferSize BY <1>1, <1>3, <1>4, BufferAssumption
<1> QED BY <1>1, <1>2, <1>3, <1>5 DEF BufferOK

LEMMA AddsSize == ASSUME BufferOK, NEW k \in Lengths, luaL_addsize(k) PROVE BufferOK'
<1> DEFINE room == luaL_prepbuffer(B)
<1>1. Pieces(room) /\ room.p = <<>> /\ Says(room) = Inorder(added) /\ room.lvl < Limit
  BY Prepares DEF BufferOK
<1>2. k \in Nat /\ k <= BufferSize BY BufferAssumption DEF luaL_addsize
<1>3. B' = [room EXCEPT !.p = @ \o New(k)] /\ added' = added + k BY DEF luaL_addsize
<1> HIDE DEF room
<1>4. Pieces(B') /\ Says(B') = Inorder(added + k) /\ B'.lvl = room.lvl /\ Len(B'.p) = Len(room.p) + k
  BY <1>1, <1>2, <1>3, Adds DEF BufferOK
<1>5. Len(B'.p) <= BufferSize BY <1>1, <1>2, <1>4
<1> QED BY <1>1, <1>2, <1>3, <1>4, <1>5 DEF BufferOK

LEMMA AddsValue == ASSUME BufferOK, NEW k \in Lengths, luaL_addvalue(k) PROVE BufferOK'
<1>1. k \in Nat /\ added' = added + k BY BufferAssumption DEF luaL_addvalue
<1>2. CASE k <= BufferSize - Len(B.p)
  <2>1. B' = [B EXCEPT !.p = @ \o New(k)] BY <1>2 DEF luaL_addvalue
  <2>2. Pieces(B') /\ Says(B') = Inorder(added + k) /\ B'.lvl = B.lvl /\ Len(B'.p) = Len(B.p) + k
    BY <1>1, <2>1, Adds DEF BufferOK
  <2>3. Len(B.p) \in Nat BY DEF BufferOK, Pieces
  <2>4. Len(B'.p) <= BufferSize BY <1>1, <1>2, <2>2, <2>3, BufferAssumption
  <2> QED BY <1>1, <2>2, <2>4 DEF BufferOK
<1>3. CASE ~(k <= BufferSize - Len(B.p))
  <2> DEFINE e == emptybuffer(B)
             v == Above(B, New(k))
             w == [v EXCEPT !.lvl = @ + 1]
  <2>1. Pieces(e) /\ e.p = <<>> /\ Says(e) = Inorder(added) BY Empties DEF BufferOK
  <2>2. v = [e EXCEPT !.stack = Append(@, New(k))] BY DEF Above
  <2>3. B' = adjuststack(w) BY <1>3 DEF luaL_addvalue
  <2> HIDE DEF e, v
  <2>4. /\ w.p = e.p /\ w.lvl = e.lvl + 1 /\ w.stack = Append(e.stack, New(k))
        /\ w \in [p : {w.p}, lvl : {w.lvl}, stack : {w.stack}]
    BY <2>1, <2>2 DEF Pieces
  <2> HIDE DEF w
  <2>5. New(k) \in Seq(Nat) /\ Inorder(added) \o New(k) = Inorder(added + k) BY <1>1, GoesOn DEF BufferOK
  <2>6. e.stack \in Seq(Seq(Nat)) /\ e.lvl = Len(e.stack) /\ e.lvl \in Nat BY <2>1 DEF Pieces
  <2>7. Append(e.stack, New(k)) \in Seq(Seq(Nat)) /\ Len(Append(e.stack, New(k))) = Len(e.stack) + 1
    BY <2>5, <2>6, AppendProperties
  <2>8. Pieces(w)
    <3>1. w.p \in Seq(Nat) BY <2>1, <2>4 DEF Pieces
    <3>2. w.stack \in Seq(Seq(Nat)) /\ w.lvl \in Nat /\ w.lvl = Len(w.stack) BY <2>4, <2>6, <2>7
    <3> QED BY <2>4, <3>1, <3>2 DEF Pieces
  <2>9. FlattenSeq(e.stack) = Inorder(added)
    <3>1. FlattenSeq(e.stack) \in Seq(Nat) BY <2>6, FlatType
    <3> QED BY <2>1, <3>1, ConcatEmptySeq DEF Says
  <2>10. FlattenSeq(w.stack) = Inorder(added + k) BY <2>4, <2>5, <2>6, <2>9, FlatAppend
  <2>11. Says(w) = Inorder(added + k)
    <3>1. FlattenSeq(w.stack) \in Seq(Nat) BY <2>8, FlatType DEF Pieces
    <3> QED BY <2>1, <2>4, <2>10, <3>1, ConcatEmptySeq DEF Says
  <2>12. Pieces(B') /\ B'.p = <<>> /\ Says(B') = Inorder(added + k) /\ B'.lvl < Limit
    BY <2>1, <2>3, <2>4, <2>8, <2>11, Adjusts
  <2> QED BY <1>1, <2>12, BufferAssumption DEF BufferOK
<1> QED BY <1>2, <1>3

LEMMA PushesResult == ASSUME BufferOK, luaL_pushresult PROVE BufferOK'
<1> DEFINE e == emptybuffer(B)
<1>1. Pieces(e) /\ e.p = <<>> /\ Says(e) = Inorder(added) BY Empties DEF BufferOK
<1>2. B' = [e EXCEPT !.stack = Joined(@, e.lvl), !.lvl = 1] /\ added' = added BY DEF luaL_pushresult
<1> HIDE DEF e
<1>3. e.stack \in Seq(Seq(Nat)) /\ e.lvl = Len(e.stack) /\ e.lvl \in 0..Len(e.stack) BY <1>1 DEF Pieces
<1>4. /\ B'.p = e.p /\ B'.lvl = 1 /\ B'.stack = Joined(e.stack, e.lvl)
      /\ B' \in [p : {B'.p}, lvl : {B'.lvl}, stack : {B'.stack}]
  BY <1>1, <1>2 DEF Pieces
<1>5. /\ Joined(e.stack, e.lvl) \in Seq(Seq(Nat)) /\ Len(Joined(e.stack, e.lvl)) = Len(e.stack) - e.lvl + 1
      /\ FlattenSeq(Joined(e.stack, e.lvl)) = FlattenSeq(e.stack)
  BY <1>3, Joins
<1>6. Len(Joined(e.stack, e.lvl)) = 1 BY <1>3, <1>5
<1>7. Pieces(B') BY <1>1, <1>4, <1>5, <1>6 DEF Pieces
<1>8. Says(B') = Inorder(added) BY <1>1, <1>4, <1>5 DEF Says
<1> QED BY <1>1, <1>2, <1>4, <1>7, <1>8, BufferAssumption DEF BufferOK

LEMMA BufferStarts == luaL_buffinit => BufferOK
<1> SUFFICES ASSUME luaL_buffinit PROVE BufferOK OBVIOUS
<1>1. B = [p |-> <<>>, lvl |-> 0, stack |-> <<>>] /\ added = 0 BY DEF luaL_buffinit
<1>2. Pieces(B) BY <1>1 DEF Pieces
<1>3. FlattenSeq(B.stack) = <<>>
  <2>1. <<>> \in Seq(Seq(Nat)) /\ Len(<<>>) = 0 /\ B.stack = <<>> BY <1>1
  <2> QED BY <2>1, Whole
<1>4. Says(B) = <<>> BY <1>1, <1>3 DEF Says
<1>5. Inorder(0) = <<>> BY DEF Inorder
<1> QED BY <1>1, <1>2, <1>4, <1>5, BufferAssumption DEF BufferOK

(* lauxlib.c: a buffer holds all that is added, in order, its pieces are counted, and
   they are fewer than LIMIT: BufferSound, for any size of the array, any limit from
   two on and any lengths. *)
THEOREM BufferIsSound == BufferSpec => []BufferSound
<1>1. BufferOK /\ [BufferNext]_buffervars => BufferOK'
  <2>1. BufferOK /\ UNCHANGED buffervars => BufferOK'
    BY DEF buffervars, BufferOK, Pieces, Says, Inorder
  <2> QED BY <2>1, AddsChar, AddsSize, AddsValue, PushesResult DEF BufferNext
<1>2. BufferOK => BufferSound BY DEF BufferOK, BufferSound, Pieces, Says, Inorder
<1> QED BY <1>1, <1>2, BufferStarts, PTL DEF BufferSpec

------------------------------------------------------------------------------
(* The table of strings *)

Colours == {"white0", "white1", "marked"}
TString == [text : Texts, colour : Colours, fixed : BOOLEAN]
Names(set) == {ts.text : ts \in set}
Index(tb)  == 0 .. tb.size - 1

(* Each string is in its own chain, its text is no other's, and nuse counts. *)
TableTyped(tb) ==
  /\ tb = [size |-> tb.size, nuse |-> tb.nuse, hash |-> tb.hash]
  /\ tb.size \in Nat \ {0} /\ tb.hash \in [Index(tb) -> SUBSET TString]
Placed(tb) == \A c \in Index(tb) : \A ts \in tb.hash[c] : lmod(ts.text, tb.size) = c
Unique(set) == \A x, y \in set : x.text = y.text => x = y
Counts(tb) == /\ IsFiniteSet(Names(Strings(tb)))
              /\ tb.nuse = Cardinality(Names(Strings(tb)))
TableRight(tb) == TableTyped(tb) /\ Placed(tb) /\ Unique(Strings(tb)) /\ Counts(tb)

StringsTyped ==
  /\ gcstate \in {"pause", "propagate", "sweepstring", "sweep", "finalize"}
  /\ sweepstrgc \in Nat /\ currentwhite \in {"white0", "white1"}
  /\ held \subseteq Texts

(* The fixed strings stay, and so do those that are referred to. *)
FixedStay == \A text \in FixedTexts : \E ts \in Strings(strt) : ts.text = text /\ ts.fixed
HeldStay  == \A text \in held : \E ts \in Strings(strt) : ts.text = text /\ NotErased(ts)

Clean(c) == \A ts \in strt.hash[c] : ts.colour = currentwhite
Swept ==
  /\ gcstate = "sweepstring" => sweepstrgc < strt.size /\ \A c \in 0 .. sweepstrgc - 1 : Clean(c)
  /\ gcstate \in {"sweep", "finalize", "pause"} => \A c \in Index(strt) : Clean(c)

StringsOK == StringsTyped /\ TableRight(strt) /\ FixedStay /\ HeldStay /\ Swept

USE StringTableAssumption

------------------------------------------------------------------------------
LEMMA ChainExists ==
  ASSUME NEW text \in Texts, NEW size \in Nat \ {0}
  PROVE  lmod(text, size) \in 0 .. size - 1
  BY DEF lmod

LEMMA InStrings ==
  ASSUME NEW tb, TableTyped(tb)
  PROVE  /\ \A c \in Index(tb) : tb.hash[c] \subseteq Strings(tb)
         /\ \A ts \in Strings(tb) : \E c \in Index(tb) : ts \in tb.hash[c]
         /\ Strings(tb) \subseteq TString
         /\ DOMAIN tb.hash = Index(tb)
  BY DEF TableTyped, Strings

(* A set of strings with different texts has as many strings as texts. *)
LEMMA OneEach ==
  ASSUME NEW set, Unique(set), IsFiniteSet(Names(set))
  PROVE  IsFiniteSet(set) /\ Cardinality(set) = Cardinality(Names(set))
<1> DEFINE f == [ts \in set |-> ts.text]
<1>1. f \in [set -> Names(set)] BY DEF Names
<1>2. \A x, y \in set : f[x] = f[y] => x = y BY DEF Unique
<1>3. \A n \in Names(set) : \E x \in set : f[x] = n BY DEF Names
<1> HIDE DEF f
<1>4. f \in Injection(set, Names(set)) BY <1>1, <1>2 DEF Injection, IsInjective
<1>5. f \in Surjection(set, Names(set)) BY <1>1, <1>3 DEF Surjection
<1> QED BY <1>4, <1>5, FS_Injection

(* Strings are erased (those of `out') and the others repainted: g leaves text
   and mark of each one as they are. *)
Painter(g) ==
  /\ g \in [TString -> TString]
  /\ \A ts \in TString : g[ts].text = ts.text /\ (g[ts].fixed <=> ts.fixed)

Repainted(tb, tb2, out, g) ==
  /\ out \subseteq Strings(tb)
  /\ tb2 = [size |-> tb.size, nuse |-> tb.nuse - Cardinality(out), hash |-> tb2.hash]
  /\ tb2.hash \in [Index(tb) -> SUBSET TString]
  /\ \A c \in Index(tb) : \A x : x \in tb2.hash[c] <=> \E ts \in tb.hash[c] \ out : x = g[ts]

LEMMA Repaints ==
  ASSUME NEW tb, TableRight(tb), NEW g, Painter(g), NEW out, NEW tb2,
         Repainted(tb, tb2, out, g)
  PROVE  /\ TableRight(tb2) /\ tb2.size = tb.size
         /\ \A x : x \in Strings(tb2) <=> \E ts \in Strings(tb) \ out : x = g[ts]
<1> DEFINE hash == tb2.hash
<1>1. /\ TableTyped(tb) /\ Placed(tb) /\ Unique(Strings(tb)) /\ Counts(tb)
      /\ Strings(tb) \subseteq TString
      /\ \A c \in Index(tb) : tb.hash[c] \subseteq Strings(tb)
      /\ \A ts \in Strings(tb) : \E c \in Index(tb) : ts \in tb.hash[c]
  BY InStrings DEF TableRight
<1>2. tb2 = [size |-> tb.size, nuse |-> tb.nuse - Cardinality(out), hash |-> tb2.hash]
  BY DEF Repainted
<1>3. /\ tb2.size = tb.size /\ tb2.nuse = tb.nuse - Cardinality(out)
      /\ Index(tb2) = Index(tb)
  BY <1>2 DEF Index
<1>15. /\ \A c \in Index(tb) : \A x : x \in hash[c] <=> \E ts \in tb.hash[c] \ out : x = g[ts]
       /\ hash \in [Index(tb) -> SUBSET TString] /\ out \subseteq Strings(tb)
       /\ \A ts \in TString : g[ts].text = ts.text
  BY DEF Repainted, Painter
<1>4. TableTyped(tb2) BY <1>1, <1>2, <1>3, <1>15 DEF TableTyped
<1>5. \A x : x \in Strings(tb2) <=> \E ts \in Strings(tb) \ out : x = g[ts]
  <2>1. DOMAIN hash = Index(tb) BY <1>15
  <2>2. ASSUME NEW x \in Strings(tb2) PROVE \E ts \in Strings(tb) \ out : x = g[ts]
    <3>1. PICK c \in Index(tb) : x \in hash[c] BY <1>3, <2>1 DEF Strings
    <3>2. PICK ts \in tb.hash[c] \ out : x = g[ts] BY <1>15, <3>1
    <3> QED BY <1>1, <3>2
  <2>3. ASSUME NEW ts \in Strings(tb) \ out PROVE g[ts] \in Strings(tb2)
    <3>1. PICK c \in Index(tb) : ts \in tb.hash[c] BY <1>1
    <3>2. g[ts] \in hash[c] BY <1>15, <3>1
    <3> QED BY <1>3, <2>1, <3>2 DEF Strings
  <2> QED BY <2>2, <2>3
<1>6. Placed(tb2)
  <2> SUFFICES ASSUME NEW c \in Index(tb), NEW x \in hash[c]
               PROVE  lmod(x.text, tb.size) = c
    BY <1>3 DEF Placed
  <2>1. PICK ts \in tb.hash[c] : x = g[ts] BY <1>15
  <2>2. ts \in TString BY <1>1
  <2>3. x.text = ts.text BY <1>15, <2>1, <2>2
  <2> QED BY <1>1, <2>3 DEF Placed
<1>11. \A ts \in Strings(tb) : ts \in TString /\ g[ts].text = ts.text BY <1>1, <1>15
<1>12. \A x \in Strings(tb2) : \E ts \in Strings(tb) \ out : x = g[ts] BY <1>5
<1>13. \A ts \in Strings(tb) \ out : g[ts] \in Strings(tb2) BY <1>5
<1>14. \A x, y \in Strings(tb) : x.text = y.text => x = y BY <1>1 DEF Unique
<1>7. Unique(Strings(tb2))
  <2> SUFFICES ASSUME NEW x \in Strings(tb2), NEW y \in Strings(tb2), x.text = y.text
               PROVE  x = y
    BY Zenon DEF Unique
  <2>1. PICK r \in Strings(tb) \ out : x = g[r] BY <1>12
  <2>2. PICK s \in Strings(tb) \ out : y = g[s] BY <1>12
  <2>3. r.text = s.text BY <1>11, <2>1, <2>2
  <2>4. r = s BY <1>14, <2>3
  <2> QED BY <2>1, <2>2, <2>4
<1>8. Names(Strings(tb2)) = Names(Strings(tb)) \ Names(out)
  <2>1. ASSUME NEW x \in Strings(tb2)
        PROVE  x.text \in Names(Strings(tb)) /\ x.text \notin Names(out)
    <3>1. PICK r \in Strings(tb) \ out : x = g[r] BY <1>12
    <3>2. x.text = r.text BY <1>11, <3>1
    <3>3. ASSUME NEW y \in out, y.text = r.text PROVE FALSE
      BY <1>14, <1>15, <3>3
    <3> QED BY <3>2, <3>3 DEF Names
  <2>2. ASSUME NEW x \in Strings(tb), x.text \notin Names(out)
        PROVE  x.text \in Names(Strings(tb2))
    <3>1. x \in Strings(tb) \ out BY <2>2 DEF Names
    <3>2. g[x] \in Strings(tb2) /\ g[x].text = x.text BY <1>11, <1>13, <3>1
    <3>3. g[x].text \in Names(Strings(tb2)) BY <3>2, Zenon DEF Names
    <3> QED BY <3>2, <3>3
  <2>3. \A n \in Names(Strings(tb2)) : \E x \in Strings(tb2) : n = x.text BY DEF Names
  <2>4. \A n \in Names(Strings(tb)) : \E x \in Strings(tb) : n = x.text BY DEF Names
  <2>5. ASSUME NEW n \in Names(Strings(tb2))
        PROVE  n \in Names(Strings(tb)) \ Names(out)
    <3>1. PICK x \in Strings(tb2) : n = x.text BY <2>3
    <3> QED BY <2>1, <3>1
  <2>6. ASSUME NEW n \in Names(Strings(tb)) \ Names(out)
        PROVE  n \in Names(Strings(tb2))
    <3>1. PICK x \in Strings(tb) : n = x.text BY <2>4
    <3> QED BY <2>2, <3>1
  <2> QED BY <2>5, <2>6
<1>9. /\ IsFiniteSet(Names(out)) /\ Names(out) \subseteq Names(Strings(tb))
      /\ IsFiniteSet(out) /\ Cardinality(out) = Cardinality(Names(out))
  <2>1. Names(out) \subseteq Names(Strings(tb)) BY <1>15 DEF Names
  <2>2. IsFiniteSet(Names(out)) BY <1>1, <2>1, FS_Subset DEF Counts
  <2>3. Unique(out) BY <1>1, <1>15 DEF Unique
  <2> QED BY <2>1, <2>2, <2>3, OneEach
<1>10. Counts(tb2)
  <2>1. Names(Strings(tb)) \cap Names(out) = Names(out) BY <1>9
  <2> DEFINE all == Names(Strings(tb))
  <2>2. IsFiniteSet(all) /\ tb.nuse = Cardinality(all) BY <1>1 DEF Counts
  <2>3. /\ IsFiniteSet(all \ Names(out))
        /\ Cardinality(all \ Names(out)) = Cardinality(all) - Cardinality(all \cap Names(out))
    BY <2>2, FS_Difference
  <2>4. tb2.nuse = Cardinality(all) - Cardinality(all \cap Names(out))
    BY <1>3, <1>9, <2>1, <2>2
  <2> QED BY <1>8, <2>3, <2>4 DEF Counts
<1> QED BY <1>3, <1>4, <1>5, <1>6, <1>7, <1>10 DEF TableRight

(* A string with a new text goes to its chain. *)
Inserted(tb, tb2, s) ==
  /\ \A ts \in tb.hash[lmod(s.text, tb.size)] : ts.text # s.text
  /\ tb2 = [tb EXCEPT !.hash[lmod(s.text, tb.size)] = @ \cup {s}, !.nuse = @ + 1]

LEMMA Inserts ==
  ASSUME NEW tb, TableRight(tb), NEW s \in TString, NEW tb2, Inserted(tb, tb2, s)
  PROVE  /\ TableRight(tb2) /\ tb2.size = tb.size
         /\ Strings(tb2) = Strings(tb) \cup {s}
         /\ \A c \in Index(tb) : tb2.hash[c] \subseteq tb.hash[c] \cup {s}
<1> DEFINE m == lmod(s.text, tb.size)
           hash == [tb.hash EXCEPT ![m] = @ \cup {s}]
<1>1. /\ TableTyped(tb) /\ Placed(tb) /\ Unique(Strings(tb)) /\ Counts(tb)
      /\ \A c \in Index(tb) : tb.hash[c] \subseteq Strings(tb)
      /\ \A ts \in Strings(tb) : \E c \in Index(tb) : ts \in tb.hash[c]
      /\ DOMAIN tb.hash = Index(tb)
  BY InStrings DEF TableRight
<1>2. /\ tb = [size |-> tb.size, nuse |-> tb.nuse, hash |-> tb.hash]
      /\ tb.size \in Nat \ {0} /\ tb.hash \in [Index(tb) -> SUBSET TString]
  BY <1>1 DEF TableTyped
<1>3. tb2 = [size |-> tb.size, nuse |-> tb.nuse + 1, hash |-> hash]
  BY <1>2 DEF Inserted
<1>4. /\ tb2.size = tb.size /\ tb2.hash = hash /\ tb2.nuse = tb.nuse + 1
      /\ Index(tb2) = Index(tb)
  BY <1>3 DEF Index
<1>5. s.text \in Texts /\ m \in Index(tb)
  BY <1>2, ChainExists DEF TString, Index
<1> HIDE DEF m
<1>6. /\ hash \in [Index(tb) -> SUBSET TString]
      /\ hash[m] = tb.hash[m] \cup {s}
      /\ \A c \in Index(tb) \ {m} : hash[c] = tb.hash[c]
  BY <1>2, <1>5
<1> HIDE DEF hash
<1>7. TableTyped(tb2) BY <1>2, <1>3, <1>4, <1>6 DEF TableTyped
<1>8. Strings(tb2) = Strings(tb) \cup {s}
  <2>1. DOMAIN hash = Index(tb) BY <1>6
  <2>2. ASSUME NEW x \in Strings(tb2) PROVE x \in Strings(tb) \cup {s}
    <3>1. PICK c \in Index(tb) : x \in hash[c] BY <1>4, <2>1 DEF Strings
    <3> QED BY <1>1, <1>6, <3>1
  <2>3. ASSUME NEW x \in Strings(tb) \cup {s} PROVE x \in Strings(tb2)
    <3>1. \E c \in Index(tb) : x \in hash[c] BY <1>1, <1>5, <1>6
    <3> QED BY <1>4, <2>1, <3>1 DEF Strings
  <2> QED BY <2>2, <2>3
<1>9. Placed(tb2) BY <1>1, <1>4, <1>6 DEF Placed, m
<1>10. \A x \in Strings(tb) : x.text # s.text
  <2> SUFFICES ASSUME NEW x \in Strings(tb), x.text = s.text PROVE FALSE OBVIOUS
  <2>1. PICK c \in Index(tb) : x \in tb.hash[c] BY <1>1
  <2>2. c = m BY <1>1, <2>1 DEF Placed, m
  <2> QED BY <2>1, <2>2 DEF m, Inserted
<1>11. Unique(Strings(tb2)) BY <1>1, <1>8, <1>10 DEF Unique
<1>12. Counts(tb2)
  <2> DEFINE all == Names(Strings(tb))
  <2>1. IsFiniteSet(all) /\ tb.nuse = Cardinality(all) BY <1>1 DEF Counts
  <2>2. s.text \notin all BY <1>10 DEF Names
  <2>3. Names(Strings(tb2)) = all \cup {s.text} BY <1>8 DEF Names
  <2> HIDE DEF all
  <2>4. /\ IsFiniteSet(all \cup {s.text})
        /\ Cardinality(all \cup {s.text}) = Cardinality(all) + 1
    BY <2>1, <2>2, FS_AddElement
  <2> QED BY <1>4, <2>1, <2>3, <2>4 DEF Counts
<1>13. \A c \in Index(tb) : tb2.hash[c] \subseteq tb.hash[c] \cup {s}
  BY <1>4, <1>6
<1> QED BY <1>4, <1>7, <1>8, <1>9, <1>11, <1>12, <1>13 DEF TableRight

(* luaS_resize puts every string into the chain it has in the new table. *)
LEMMA Resizes ==
  ASSUME NEW tb, TableRight(tb), NEW size \in Nat \ {0}
  PROVE  LET tb2 == luaS_resize(tb, size) IN
           /\ TableRight(tb2) /\ Strings(tb2) = Strings(tb)
           /\ gcstate = "sweepstring" => tb2 = tb
<1> DEFINE tb2 == luaS_resize(tb, size)
           hash == [c \in 0 .. size - 1 |-> {ts \in Strings(tb) : lmod(ts.text, size) = c}]
<1>1. CASE gcstate = "sweepstring" BY <1>1 DEF luaS_resize
<1>2. CASE gcstate # "sweepstring"
  <2>1. /\ TableTyped(tb) /\ Unique(Strings(tb)) /\ Counts(tb)
        /\ Strings(tb) \subseteq TString
    BY InStrings DEF TableRight
  <2>2. tb2 = [size |-> size, nuse |-> tb.nuse, hash |-> hash]
    <3>1. tb2 = [tb EXCEPT !.size = size, !.hash = hash]
      BY <1>2, Zenon DEF luaS_resize
    <3>2. tb = [size |-> tb.size, nuse |-> tb.nuse, hash |-> tb.hash]
      BY <2>1 DEF TableTyped
    <3> HIDE DEF tb2, hash
    <3> QED BY <3>1, <3>2
  <2> HIDE DEF tb2
  <2>3. tb2.size = size /\ tb2.nuse = tb.nuse /\ tb2.hash = hash BY <2>2
  <2>4. hash \in [0 .. size - 1 -> SUBSET TString] BY <2>1
  <2>5. DOMAIN hash = 0 .. size - 1 OBVIOUS
  <2>6. \A c \in 0 .. size - 1 : \A x : x \in hash[c] <=> x \in Strings(tb) /\ lmod(x.text, size) = c
    OBVIOUS
  <2> HIDE DEF hash
  <2>7. TableTyped(tb2) BY <2>2, <2>3, <2>4 DEF TableTyped, Index
  <2>8. Placed(tb2) BY <2>3, <2>6 DEF Placed, Index
  <2>9. Strings(tb2) = Strings(tb)
    <3>1. ASSUME NEW x \in Strings(tb2) PROVE x \in Strings(tb)
      <4>1. PICK c \in 0 .. size - 1 : x \in hash[c] BY <2>3, <2>5 DEF Strings
      <4> QED BY <2>6, <4>1
    <3>2. ASSUME NEW x \in Strings(tb) PROVE x \in Strings(tb2)
      <4>1. x.text \in Texts BY <2>1 DEF TString
      <4>2. lmod(x.text, size) \in 0 .. size - 1 BY <4>1, ChainExists
      <4>3. x \in hash[lmod(x.text, size)] BY <2>6, <4>2
      <4> QED BY <2>3, <2>5, <4>2, <4>3 DEF Strings
    <3> QED BY <3>1, <3>2
  <2>10. Unique(Strings(tb2)) /\ Counts(tb2) BY <2>1, <2>3, <2>9 DEF Counts
  <2> QED BY <1>2, <2>7, <2>8, <2>9, <2>10 DEF TableRight, tb2
<1> QED BY <1>1, <1>2

(* Nothing is erased: each chain is the image of what it was. *)
LEMMA Paints ==
  ASSUME NEW tb, TableRight(tb), NEW g, Painter(g), NEW hash,
         hash = [c \in Index(tb) |-> {g[ts] : ts \in tb.hash[c]}],
         NEW tb2, tb2 = [tb EXCEPT !.hash = hash]
  PROVE  Repainted(tb, tb2, {}, g)
<1>1. /\ tb = [size |-> tb.size, nuse |-> tb.nuse, hash |-> tb.hash]
      /\ tb.hash \in [Index(tb) -> SUBSET TString]
      /\ tb.nuse \in Nat
  <2>1. TableTyped(tb) /\ Counts(tb) BY DEF TableRight
  <2>2. tb.nuse \in Nat BY <2>1, FS_CardinalityType DEF Counts
  <2> QED BY <2>1, <2>2 DEF TableTyped
<1>2. Cardinality({}) = 0 BY FS_EmptySet
<1>3. tb2 = [size |-> tb.size, nuse |-> tb.nuse, hash |-> hash] BY <1>1
<1>4. tb.nuse - Cardinality({}) = tb.nuse BY <1>1, <1>2
<1>5. tb2.hash = hash BY <1>3
<1>6. \A c \in Index(tb) : \A x : x \in hash[c] <=> \E ts \in tb.hash[c] \ {} : x = g[ts]
  OBVIOUS
<1>7. hash \in [Index(tb) -> SUBSET TString]
  <2>1. \A c \in Index(tb) : {g[ts] : ts \in tb.hash[c]} \subseteq TString
    BY <1>1 DEF Painter
  <2> QED BY <2>1
<1>8. tb2 = [size |-> tb.size, nuse |-> tb.nuse - Cardinality({}), hash |-> tb2.hash]
  BY <1>3, <1>4, <1>5
<1> QED BY <1>5, <1>6, <1>7, <1>8 DEF Repainted

------------------------------------------------------------------------------
(* The invariant *)

LEMMA InitInv == f_luaopen => StringsOK
<1> SUFFICES ASSUME f_luaopen PROVE StringsOK OBVIOUS
<1> DEFINE hash == [c \in 0 .. MinSize - 1 |->
                     {[text |-> x, colour |-> "white0", fixed |-> TRUE] :
                        x \in {y \in FixedTexts : lmod(y, MinSize) = c}}]
<1>1. /\ strt = [size |-> MinSize, nuse |-> Cardinality(FixedTexts), hash |-> hash]
      /\ gcstate = "pause" /\ sweepstrgc = 0 /\ currentwhite = "white0" /\ held = {}
  BY DEF f_luaopen
<1>2. strt.size = MinSize /\ strt.nuse = Cardinality(FixedTexts) /\ strt.hash = hash
  BY <1>1
<1>3. \A c \in 0 .. MinSize - 1 : \A ts :
        ts \in hash[c] <=>
          \E x \in FixedTexts : /\ lmod(x, MinSize) = c
                                /\ ts = [text |-> x, colour |-> "white0", fixed |-> TRUE]
  OBVIOUS
<1>4. DOMAIN hash = 0 .. MinSize - 1 OBVIOUS
<1>5. \A x \in Texts : [text |-> x, colour |-> "white0", fixed |-> TRUE] \in TString
  BY DEF TString, Colours
<1>6. hash \in [0 .. MinSize - 1 -> SUBSET TString] BY <1>5
<1> HIDE DEF hash
<1>7. TableTyped(strt) BY <1>1, <1>2, <1>6 DEF TableTyped, Index
<1>8. Placed(strt) BY <1>2, <1>3 DEF Placed, Index
<1>9. \A ts \in Strings(strt) :
        \E x \in FixedTexts : ts = [text |-> x, colour |-> "white0", fixed |-> TRUE]
  <2> SUFFICES ASSUME NEW ts \in Strings(strt)
               PROVE  \E x \in FixedTexts :
                        ts = [text |-> x, colour |-> "white0", fixed |-> TRUE]
    OBVIOUS
  <2>1. PICK c \in 0 .. MinSize - 1 : ts \in hash[c] BY <1>2, <1>4 DEF Strings
  <2> QED BY <1>3, <2>1
<1>10. \A x \in FixedTexts :
         [text |-> x, colour |-> "white0", fixed |-> TRUE] \in Strings(strt)
  <2> SUFFICES ASSUME NEW x \in FixedTexts
               PROVE  [text |-> x, colour |-> "white0", fixed |-> TRUE] \in Strings(strt)
    OBVIOUS
  <2>1. lmod(x, MinSize) \in 0 .. MinSize - 1 BY ChainExists
  <2>2. [text |-> x, colour |-> "white0", fixed |-> TRUE] \in hash[lmod(x, MinSize)]
    BY <1>3, <2>1
  <2> QED BY <1>2, <1>4, <2>1, <2>2 DEF Strings
<1>11. Unique(Strings(strt))
  <2> SUFFICES ASSUME NEW x \in Strings(strt), NEW y \in Strings(strt), x.text = y.text
               PROVE  x = y
    BY Zenon DEF Unique
  <2>1. PICK a \in FixedTexts : x = [text |-> a, colour |-> "white0", fixed |-> TRUE]
    BY <1>9
  <2>2. PICK b \in FixedTexts : y = [text |-> b, colour |-> "white0", fixed |-> TRUE]
    BY <1>9
  <2> QED BY <2>1, <2>2
<1>12. Names(Strings(strt)) = FixedTexts
  <2>1. ASSUME NEW n \in Names(Strings(strt)) PROVE n \in FixedTexts
    <3>1. PICK ts \in Strings(strt) : n = ts.text BY DEF Names
    <3> QED BY <1>9, <3>1
  <2>2. ASSUME NEW x \in FixedTexts PROVE x \in Names(Strings(strt))
    <3>1. [text |-> x, colour |-> "white0", fixed |-> TRUE].text \in Names(Strings(strt))
      BY <1>10, Zenon DEF Names
    <3> QED BY <3>1
  <2> QED BY <2>1, <2>2
<1>13. TableRight(strt) BY <1>2, <1>7, <1>8, <1>11, <1>12 DEF TableRight, Counts
<1>14. FixedStay
  <2> SUFFICES ASSUME NEW x \in FixedTexts
               PROVE  \E ts \in Strings(strt) : ts.text = x /\ ts.fixed
    BY DEF FixedStay
  <2>1. [text |-> x, colour |-> "white0", fixed |-> TRUE] \in Strings(strt) BY <1>10
  <2> QED BY <2>1
<1>15. HeldStay BY <1>1 DEF HeldStay
<1>16. Swept BY <1>1, <1>2, <1>3 DEF Swept, Clean, Index
<1>17. StringsTyped BY <1>1 DEF StringsTyped
<1> QED BY <1>13, <1>14, <1>15, <1>16, <1>17 DEF StringsOK

(* All chains have one colour when all strings have it. *)
LEMMA OneColour ==
  ASSUME NEW tb, TableRight(tb), NEW white
  PROVE  (\A c \in Index(tb) : \A ts \in tb.hash[c] : ts.colour = white)
            <=> \A ts \in Strings(tb) : ts.colour = white
  BY InStrings DEF TableRight

(* Strings that are not erased and marked, or become white, are not erased. *)
LEMMA MarkStep ==
  ASSUME StringsOK, NEW text \in Texts, stringmark(text)
  PROVE  StringsOK'
<1> DEFINE g == [ts \in TString |->
                  IF ts.text = text THEN [ts EXCEPT !.colour = "marked"] ELSE ts]
<1>1. /\ StringsTyped /\ TableRight(strt) /\ FixedStay /\ HeldStay
      /\ TableTyped(strt) /\ Strings(strt) \subseteq TString /\ DOMAIN strt.hash = Index(strt)
  BY InStrings DEF StringsOK, TableRight
<1>2. /\ gcstate = "propagate" /\ UNCHANGED <<gcstate, sweepstrgc, currentwhite, held>>
      /\ strt' = [strt EXCEPT !.hash = [c \in DOMAIN @ |->
                    {IF ts.text = text THEN [ts EXCEPT !.colour = "marked"] ELSE ts : ts \in @[c]}]]
  BY DEF stringmark, Painted
<1>3. g \in [TString -> TString] BY DEF TString, Colours
<1>4. \A ts \in TString : /\ g[ts].text = ts.text /\ (g[ts].fixed <=> ts.fixed)
                          /\ g[ts].colour \in {ts.colour, "marked"}
  BY DEF TString
<1>5. strt' = [strt EXCEPT !.hash = [c \in Index(strt) |-> {g[ts] : ts \in strt.hash[c]}]]
  <2>1. ASSUME NEW c \in Index(strt)
        PROVE {IF ts.text = text THEN [ts EXCEPT !.colour = "marked"] ELSE ts : ts \in strt.hash[c]}
                = {g[ts] : ts \in strt.hash[c]}
    <3>1. strt.hash[c] \subseteq TString BY <1>1 DEF TableTyped
    <3> QED BY <3>1
  <2> HIDE DEF g
  <2> QED BY <1>1, <1>2, <2>1
<1> HIDE DEF g
<1>11. Painter(g) BY <1>3, <1>4 DEF Painter
<1>12. Repainted(strt, strt', {}, g) BY <1>1, <1>5, <1>11, Paints
<1>6. TableRight(strt') /\ \A x : x \in Strings(strt') <=> \E ts \in Strings(strt) \ {} : x = g[ts]
  BY <1>1, <1>11, <1>12, Repaints
<1>7. FixedStay' BY <1>1, <1>4, <1>6 DEF FixedStay
<1>8. HeldStay'
  <2> SUFFICES ASSUME NEW x \in held
               PROVE  \E ts \in Strings(strt') : ts.text = x /\ NotErased(ts)'
    BY <1>2 DEF HeldStay
  <2>1. PICK ts \in Strings(strt) : ts.text = x /\ NotErased(ts) BY <1>1 DEF HeldStay
  <2>2. g[ts] \in Strings(strt') /\ ts \in TString BY <1>1, <1>6
  <2>3. g[ts].text = x /\ NotErased(g[ts])'
    BY <1>1, <1>2, <1>4, <2>1, <2>2 DEF NotErased, isdead, otherwhite, StringsTyped
  <2> QED BY <2>2, <2>3
<1>9. Swept' BY <1>2 DEF Swept
<1>10. StringsTyped' BY <1>1, <1>2 DEF StringsTyped
<1> QED BY <1>6, <1>7, <1>8, <1>9, <1>10 DEF StringsOK

LEMMA AtomicStep ==
  ASSUME StringsOK, atomic
  PROVE  StringsOK'
<1> DEFINE g == [ts \in TString |->
                  IF ts.text \in held THEN [ts EXCEPT !.colour = "marked"] ELSE ts]
<1>1. /\ StringsTyped /\ TableRight(strt) /\ FixedStay /\ HeldStay
      /\ TableTyped(strt) /\ Strings(strt) \subseteq TString /\ DOMAIN strt.hash = Index(strt)
  BY InStrings DEF StringsOK, TableRight
<1>2. /\ gcstate' = "sweepstring" /\ sweepstrgc' = 0 /\ held' = held
      /\ currentwhite' = otherwhite
      /\ strt' = [strt EXCEPT !.hash = [c \in DOMAIN @ |->
                    {IF ts.text \in held THEN [ts EXCEPT !.colour = "marked"] ELSE ts : ts \in @[c]}]]
  BY DEF atomic, Painted
<1>3. g \in [TString -> TString] BY DEF TString, Colours
<1>4. \A ts \in TString : /\ g[ts].text = ts.text /\ (g[ts].fixed <=> ts.fixed)
                          /\ ts.text \in held => g[ts].colour = "marked"
  BY DEF TString
<1>5. strt' = [strt EXCEPT !.hash = [c \in Index(strt) |-> {g[ts] : ts \in strt.hash[c]}]]
  <2>1. ASSUME NEW c \in Index(strt)
        PROVE {IF ts.text \in held THEN [ts EXCEPT !.colour = "marked"] ELSE ts : ts \in strt.hash[c]}
                = {g[ts] : ts \in strt.hash[c]}
    <3>1. strt.hash[c] \subseteq TString BY <1>1 DEF TableTyped
    <3> QED BY <3>1
  <2> HIDE DEF g
  <2> QED BY <1>1, <1>2, <2>1
<1> HIDE DEF g
<1>11. Painter(g) BY <1>3, <1>4 DEF Painter
<1>12. Repainted(strt, strt', {}, g) BY <1>1, <1>5, <1>11, Paints
<1>6. /\ TableRight(strt') /\ \A x : x \in Strings(strt') <=> \E ts \in Strings(strt) \ {} : x = g[ts]
      /\ strt'.size = strt.size
  BY <1>1, <1>11, <1>12, Repaints
<1>7. FixedStay' BY <1>1, <1>4, <1>6 DEF FixedStay
<1>8. HeldStay'
  <2> SUFFICES ASSUME NEW x \in held
               PROVE  \E ts \in Strings(strt') : ts.text = x /\ NotErased(ts)'
    BY <1>2 DEF HeldStay
  <2>1. PICK ts \in Strings(strt) : ts.text = x BY <1>1 DEF HeldStay
  <2>2. g[ts] \in Strings(strt') /\ ts \in TString BY <1>1, <1>6
  <2>3. g[ts].text = x /\ g[ts].colour = "marked" BY <1>4, <2>1, <2>2
  <2>4. PICK r \in Strings(strt') : r.text = x /\ r.colour = "marked" BY <2>2, <2>3
  <2>5. NotErased(r)' BY <2>4 DEF NotErased, isdead, otherwhite
  <2> QED BY <2>4, <2>5
<1>9. Swept'
  <2>1. 0 < strt.size BY <1>1 DEF TableTyped
  <2> QED BY <1>2, <1>6, <2>1 DEF Swept
<1>10. StringsTyped' BY <1>1, <1>2 DEF StringsTyped, otherwhite
<1> QED BY <1>6, <1>7, <1>8, <1>9, <1>10 DEF StringsOK

(* luaS_newlstr: a new string is white, and so is one that was dead. *)
LEMMA NewStep ==
  ASSUME StringsOK, NEW text \in Texts, luaS_newlstr(text)
  PROVE  StringsOK'
<1> DEFINE m == lmod(text, strt.size)
           found == {ts \in strt.hash[m] : ts.text = text}
           old == CHOOSE s \in found : TRUE
<1>1. /\ StringsTyped /\ TableRight(strt) /\ FixedStay /\ HeldStay /\ Swept
      /\ TableTyped(strt) /\ Placed(strt)
      /\ Strings(strt) \subseteq TString /\ DOMAIN strt.hash = Index(strt)
      /\ \A c \in Index(strt) : strt.hash[c] \subseteq Strings(strt)
  BY InStrings DEF StringsOK, TableRight
<1>2. m \in Index(strt) BY <1>1, ChainExists DEF TableTyped, Index
<1>3. /\ held' = held \cup {text} /\ UNCHANGED <<gcstate, sweepstrgc, currentwhite>>
      /\ found = {} => strt' = newlstr(text)
      /\ found # {} /\ isdead(old) =>
           strt' = [strt EXCEPT !.hash[m] = (@ \ {old}) \cup {[old EXCEPT !.colour = currentwhite]}]
      /\ found # {} /\ ~isdead(old) => strt' = strt
  BY DEF luaS_newlstr, Chain
<1>4. currentwhite \in {"white0", "white1"} /\ otherwhite # currentwhite /\ otherwhite' = otherwhite
  BY <1>1, <1>3 DEF StringsTyped, otherwhite
<1>5. StringsTyped' BY <1>1, <1>3 DEF StringsTyped
<1>6. CASE found = {}
  <2> DEFINE s  == [text |-> text, colour |-> currentwhite, fixed |-> FALSE]
             tb == [strt EXCEPT !.hash[m] = @ \cup {s}, !.nuse = @ + 1]
  <2>1. s \in TString /\ s.text = text /\ s.colour = currentwhite BY <1>4 DEF TString, Colours
  <2>2. strt' = IF tb.nuse > tb.size THEN luaS_resize(tb, tb.size * 2) ELSE tb
    BY <1>3, <1>6 DEF newlstr
  <2>3. tb = [strt EXCEPT !.hash[lmod(s.text, strt.size)] = @ \cup {s}, !.nuse = @ + 1]
    BY <2>1
  <2>4. \A ts \in strt.hash[lmod(s.text, strt.size)] : ts.text # s.text BY <1>6, <2>1
  <2> HIDE DEF s, tb
  <2>5. /\ TableRight(tb) /\ tb.size = strt.size
        /\ Strings(tb) = Strings(strt) \cup {s}
        /\ \A c \in Index(strt) : tb.hash[c] \subseteq strt.hash[c] \cup {s}
    <3>1. Inserted(strt, tb, s) BY <2>3, <2>4 DEF Inserted
    <3> QED BY <1>1, <2>1, <3>1, Inserts
  <2>6. tb.size * 2 \in Nat \ {0} BY <1>1, <2>5 DEF TableTyped
  <2>7. /\ TableRight(strt') /\ Strings(strt') = Strings(strt) \cup {s}
        /\ gcstate = "sweepstring" => strt' = tb
    <3>1. CASE tb.nuse > tb.size BY <2>2, <2>5, <2>6, <3>1, Resizes
    <3>2. CASE ~(tb.nuse > tb.size) BY <2>2, <2>5, <3>2
    <3> QED BY <3>1, <3>2
  <2>8. FixedStay' BY <1>1, <2>7 DEF FixedStay
  <2>9. HeldStay'
    <3>3. PICK r \in Strings(strt') : r.text = text /\ r.colour = currentwhite
      BY <2>1, <2>7
    <3>1. NotErased(r)' BY <1>4, <3>3 DEF NotErased, isdead
    <3>2. ASSUME NEW x \in held
          PROVE  \E ts \in Strings(strt') : ts.text = x /\ NotErased(ts)'
      BY <1>1, <1>4, <2>7 DEF HeldStay, NotErased, isdead
    <3> QED BY <1>3, <3>1, <3>2, <3>3 DEF HeldStay
  <2>10. Swept'
    <3>1. CASE gcstate = "sweepstring"
      <4>1. \A c \in 0 .. sweepstrgc - 1 : c \in Index(strt)
        BY <1>1, <3>1 DEF Swept, Index, StringsTyped, TableTyped
      <4>2. ASSUME NEW c \in 0 .. sweepstrgc - 1
            PROVE  \A ts \in strt'.hash[c] : ts.colour = currentwhite
        BY <1>1, <2>1, <2>5, <2>7, <3>1, <4>1 DEF Swept, Clean
      <4> QED BY <1>1, <1>3, <2>5, <2>7, <3>1, <4>2 DEF Swept, Clean
    <3>2. CASE gcstate \in {"sweep", "finalize", "pause"}
      <4>1. \A ts \in Strings(strt) : ts.colour = currentwhite
        BY <1>1, <3>2, OneColour DEF Swept, Clean
      <4>2. \A ts \in Strings(strt') : ts.colour = currentwhite BY <2>1, <2>7, <4>1
      <4>3. \A c \in Index(strt') : \A ts \in strt'.hash[c] : ts.colour = currentwhite
        BY <2>7, <4>2, OneColour
      <4> QED BY <1>3, <3>2, <4>3 DEF Swept, Clean
    <3>3. CASE gcstate = "propagate" BY <1>3, <3>3 DEF Swept
    <3> QED BY <1>1, <3>1, <3>2, <3>3 DEF StringsTyped
  <2> QED BY <1>5, <2>7, <2>8, <2>9, <2>10 DEF StringsOK
<1>7. CASE found # {} /\ isdead(old)
  <2> DEFINE g == [ts \in TString |-> IF ts = old THEN [ts EXCEPT !.colour = currentwhite] ELSE ts]
             hash == [strt.hash EXCEPT ![m] = (@ \ {old}) \cup {[old EXCEPT !.colour = currentwhite]}]
  <2>1. old \in found BY <1>7
  <2>2. old \in strt.hash[m] /\ old.text = text /\ old \in Strings(strt) /\ old \in TString
    BY <1>1, <1>2, <2>1
  <2>3. strt' = [strt EXCEPT !.hash[m] = (@ \ {old}) \cup {[old EXCEPT !.colour = currentwhite]}]
    BY <1>3, <1>7
  <2> HIDE DEF old, found
  <2>4. Painter(g) BY <1>4 DEF Painter, TString, Colours
  <2>5. /\ \A ts \in TString : g[ts].colour = currentwhite \/ (g[ts] = ts /\ ts # old)
        /\ g[old].colour = currentwhite /\ g[old] = [old EXCEPT !.colour = currentwhite]
        /\ \A ts \in TString : ts # old => g[ts] = ts
    BY <2>2 DEF TString
  <2> HIDE DEF g
  <2>6. Repainted(strt, strt', {}, g)
    <3>1. /\ strt = [size |-> strt.size, nuse |-> strt.nuse, hash |-> strt.hash]
          /\ strt.hash \in [Index(strt) -> SUBSET TString] /\ strt.nuse \in Nat
      BY <1>1, FS_CardinalityType DEF TableTyped, TableRight, Counts
    <3>2. Cardinality({}) = 0 BY FS_EmptySet
    <3>3. strt' = [size |-> strt.size, nuse |-> strt.nuse, hash |-> hash] BY <2>3, <3>1
    <3>4. strt.nuse - Cardinality({}) = strt.nuse BY <3>1, <3>2
    <3>5. /\ hash[m] = (strt.hash[m] \ {old}) \cup {g[old]}
          /\ \A c \in Index(strt) \ {m} : hash[c] = strt.hash[c]
          /\ hash \in [Index(strt) -> SUBSET TString]
      <4>1. (strt.hash[m] \ {old}) \cup {g[old]} \in SUBSET TString
        BY <1>2, <2>2, <2>4, <3>1 DEF Painter
      <4> QED BY <1>2, <2>5, <3>1, <4>1
    <3>6. strt'.hash = hash BY <3>3
    <3> HIDE DEF hash
    <3>7. ASSUME NEW c \in Index(strt), NEW x
          PROVE  x \in hash[c] <=> \E ts \in strt.hash[c] \ {} : x = g[ts]
      <4>0. \A ts \in strt.hash[c] : ts \in TString BY <3>1
      <4>1. CASE c = m BY <2>2, <2>5, <3>5, <4>0, <4>1
      <4>2. CASE c # m
        <5>1. old \notin strt.hash[c] BY <1>1, <2>2, <4>2 DEF Placed
        <5> QED BY <2>5, <3>5, <4>0, <4>2, <5>1
      <4> QED BY <4>1, <4>2
    <3>8. strt' = [size |-> strt.size, nuse |-> strt.nuse - Cardinality({}), hash |-> strt'.hash]
      BY <3>3, <3>4, <3>6
    <3> QED BY <3>5, <3>6, <3>7, <3>8 DEF Repainted
  <2> HIDE DEF hash
  <2>7. /\ TableRight(strt') /\ strt'.size = strt.size
        /\ \A x : x \in Strings(strt') <=> \E ts \in Strings(strt) \ {} : x = g[ts]
        /\ \A c \in Index(strt) : \A x : x \in strt'.hash[c] <=> \E ts \in strt.hash[c] \ {} : x = g[ts]
    BY <1>1, <2>4, <2>6, Repaints DEF Repainted
  <2>8. FixedStay' BY <1>1, <2>4, <2>7 DEF FixedStay, Painter
  <2>9. HeldStay'
    <3> SUFFICES ASSUME NEW x \in held \cup {text}
                 PROVE  \E ts \in Strings(strt') : ts.text = x /\ NotErased(ts)'
      BY <1>3 DEF HeldStay
    <3>1. CASE x = text
      <4>1. PICK r \in Strings(strt') : r.text = x /\ r.colour = currentwhite
        BY <2>2, <2>4, <2>5, <2>7, <3>1 DEF Painter
      <4>2. NotErased(r)' BY <1>4, <4>1 DEF NotErased, isdead
      <4> QED BY <4>1, <4>2
    <3>2. CASE x \in held
      <4>1. PICK ts \in Strings(strt) : ts.text = x /\ NotErased(ts) BY <1>1, <3>2 DEF HeldStay
      <4>2. PICK r \in Strings(strt') : r = g[ts] BY <2>7
      <4>3. r.text = x /\ (r.colour = currentwhite \/ r = ts)
        BY <1>1, <2>4, <2>5, <4>1, <4>2 DEF Painter
      <4>4. NotErased(r)' BY <1>4, <4>1, <4>3 DEF NotErased, isdead
      <4> QED BY <4>3, <4>4
    <3> QED BY <3>1, <3>2
  <2>10. ASSUME NEW c \in Index(strt), Clean(c)
         PROVE  \A ts \in strt'.hash[c] : ts.colour = currentwhite
    <3> SUFFICES ASSUME NEW x \in strt'.hash[c] PROVE x.colour = currentwhite OBVIOUS
    <3>1. PICK ts \in strt.hash[c] : x = g[ts] BY <2>7
    <3>2. ts \in TString /\ ts.colour = currentwhite BY <1>1, <2>10 DEF Clean
    <3> QED BY <2>5, <3>1, <3>2
  <2>11. Swept'
    <3>1. \A c \in 0 .. sweepstrgc - 1 : gcstate = "sweepstring" => c \in Index(strt)
      BY <1>1 DEF Swept, Index, StringsTyped, TableTyped
    <3>2. Index(strt') = Index(strt) BY <2>7 DEF Index
    <3> QED BY <1>1, <1>3, <2>7, <2>10, <3>1, <3>2 DEF Swept, Clean
  <2> QED BY <1>5, <2>7, <2>8, <2>9, <2>11 DEF StringsOK
<1>8. CASE found # {} /\ ~isdead(old)
  <2>1. old \in Strings(strt) /\ old.text = text BY <1>1, <1>2, <1>8
  <2>2. strt' = strt BY <1>3, <1>8
  <2> HIDE DEF old, found
  <2>3. NotErased(old)
    BY <1>8 DEF NotErased
  <2>4. HeldStay'
    <3>1. \A ts : NotErased(ts) => NotErased(ts)' BY <1>4 DEF NotErased, isdead
    <3> QED BY <1>1, <1>3, <2>1, <2>2, <2>3, <3>1 DEF HeldStay
  <2>5. TableRight(strt') /\ FixedStay' BY <1>1, <2>2 DEF FixedStay
  <2>6. Swept' BY <1>1, <1>3, <2>2 DEF Swept, Clean
  <2> QED BY <1>5, <2>4, <2>5, <2>6 DEF StringsOK
<1> QED BY <1>6, <1>7, <1>8

(* A chain is swept: what is erased is dead and not fixed. *)
LEMMA SweepStep ==
  ASSUME StringsOK, sweepwholelist
  PROVE  StringsOK'
<1> DEFINE c == sweepstrgc
           kept == {ts \in strt.hash[c] : NotErased(ts)}
           out == strt.hash[c] \ kept
           g == [ts \in TString |->
                  IF ts \in strt.hash[c] THEN [ts EXCEPT !.colour = currentwhite] ELSE ts]
           hash == [strt.hash EXCEPT ![c] = {[ts EXCEPT !.colour = currentwhite] : ts \in kept}]
<1>1. /\ StringsTyped /\ TableRight(strt) /\ FixedStay /\ HeldStay /\ Swept
      /\ TableTyped(strt) /\ Placed(strt)
      /\ Strings(strt) \subseteq TString /\ DOMAIN strt.hash = Index(strt)
      /\ \A d \in Index(strt) : strt.hash[d] \subseteq Strings(strt)
  BY InStrings DEF StringsOK, TableRight
<1>2. /\ gcstate = "sweepstring" /\ UNCHANGED <<currentwhite, held>>
      /\ sweepstrgc' = sweepstrgc + 1
      /\ gcstate' = IF sweepstrgc' >= strt.size THEN "sweep" ELSE gcstate
      /\ strt' = [strt EXCEPT !.hash[sweepstrgc] = {[ts EXCEPT !.colour = currentwhite] : ts \in kept},
                              !.nuse = @ - Cardinality(out)]
  BY Zenon DEF sweepwholelist
<1>3. c \in Index(strt) /\ c \in Nat /\ strt.size \in Nat \ {0} /\ c < strt.size
  BY <1>1, <1>2 DEF Swept, StringsTyped, Index, TableTyped
<1>4. /\ currentwhite \in {"white0", "white1"} /\ otherwhite # currentwhite
      /\ otherwhite' = otherwhite
  BY <1>1, <1>2 DEF StringsTyped, otherwhite
<1>5. Painter(g)
  BY <1>4 DEF Painter, TString, Colours
<1>6. /\ \A ts \in strt.hash[c] : /\ ts \in TString /\ g[ts].colour = currentwhite
                                  /\ g[ts] = [ts EXCEPT !.colour = currentwhite]
      /\ \A ts \in TString : ts \notin strt.hash[c] => g[ts] = ts
      /\ strt.hash[c] \subseteq Strings(strt)
  BY <1>1, <1>3 DEF TString
<1> HIDE DEF g
<1>20. \A ts : ts \in kept <=> ts \in strt.hash[c] \ out OBVIOUS
<1>21. out \subseteq strt.hash[c] /\ \A ts \in strt.hash[c] : ts \notin out <=> NotErased(ts)
  OBVIOUS
<1> HIDE DEF kept, out
<1>7. /\ out \subseteq strt.hash[c] /\ \A ts \in strt.hash[c] : ts \notin out <=> NotErased(ts)
      /\ \A x : x \in {[ts EXCEPT !.colour = currentwhite] : ts \in kept}
                  <=> \E ts \in strt.hash[c] \ out : x = g[ts]
  BY <1>6, <1>20, <1>21
<1>8. \A d \in Index(strt) \ {c} : strt.hash[d] \cap strt.hash[c] = {}
  BY <1>1, <1>3 DEF Placed
<1>9. /\ strt = [size |-> strt.size, nuse |-> strt.nuse, hash |-> strt.hash]
      /\ strt.hash \in [Index(strt) -> SUBSET TString]
  BY <1>1 DEF TableTyped
<1>10. /\ \A x : x \in hash[c] <=> \E ts \in strt.hash[c] \ out : x = g[ts]
       /\ \A d \in Index(strt) \ {c} : hash[d] = strt.hash[d]
       /\ hash \in [Index(strt) -> SUBSET TString]
  <2> DEFINE new == {[ts EXCEPT !.colour = currentwhite] : ts \in kept}
  <2>1. \A x : x \in new <=> \E ts \in strt.hash[c] \ out : x = g[ts] BY <1>7
  <2>2. new \subseteq TString
    <3> HIDE DEF new
    <3>1. ASSUME NEW x \in new PROVE x \in TString
      <4>1. PICK ts \in strt.hash[c] \ out : x = g[ts] BY <2>1
      <4> QED BY <1>5, <1>6, <4>1 DEF Painter
    <3> QED BY <3>1
  <2>3. hash = [strt.hash EXCEPT ![c] = new] OBVIOUS
  <2> HIDE DEF new, hash
  <2> QED BY <1>3, <1>9, <2>1, <2>2, <2>3
<1>11. strt' = [size |-> strt.size, nuse |-> strt.nuse - Cardinality(out), hash |-> hash]
  <2> QED BY <1>2, <1>9
<1> HIDE DEF hash
<1>12. strt'.hash = hash BY <1>11
<1>13. Repainted(strt, strt', out, g)
  <2>1. \A d \in Index(strt) : \A x : x \in hash[d] <=> \E ts \in strt.hash[d] \ out : x = g[ts]
    <3> SUFFICES ASSUME NEW d \in Index(strt)
                 PROVE  \A x : x \in hash[d] <=> \E ts \in strt.hash[d] \ out : x = g[ts]
      OBVIOUS
    <3>1. CASE d = c BY <1>10, <3>1
    <3>2. CASE d # c
      <4>1. \A ts \in strt.hash[d] : ts \notin out /\ g[ts] = ts
        BY <1>6, <1>7, <1>8, <1>9, <3>2
      <4> QED BY <1>10, <3>2, <4>1
    <3> QED BY <3>1, <3>2
  <2> QED BY <1>6, <1>7, <1>10, <1>11, <1>12, <2>1 DEF Repainted
<1>14. /\ TableRight(strt') /\ strt'.size = strt.size
       /\ \A x : x \in Strings(strt') <=> \E ts \in Strings(strt) \ out : x = g[ts]
  BY <1>1, <1>5, <1>13, Repaints
<1>15. FixedStay'
  <2> SUFFICES ASSUME NEW x \in FixedTexts
               PROVE  \E ts \in Strings(strt') : ts.text = x /\ ts.fixed
    BY DEF FixedStay
  <2>1. PICK ts \in Strings(strt) : ts.text = x /\ ts.fixed BY <1>1 DEF FixedStay
  <2>2. ts \notin out BY <1>7, <2>1 DEF NotErased
  <2>3. g[ts] \in Strings(strt') BY <1>14, <2>2
  <2>4. g[ts].text = x /\ g[ts].fixed BY <1>1, <1>5, <2>1 DEF Painter
  <2> QED BY <2>3, <2>4
<1>16. HeldStay'
  <2> SUFFICES ASSUME NEW x \in held
               PROVE  \E ts \in Strings(strt') : ts.text = x /\ NotErased(ts)'
    BY <1>2 DEF HeldStay
  <2>1. PICK ts \in Strings(strt) : ts.text = x /\ NotErased(ts) BY <1>1 DEF HeldStay
  <2>2. ts \notin out BY <1>7, <2>1
  <2>3. PICK r \in Strings(strt') : r = g[ts] BY <1>14, <2>2
  <2>4. r.text = x /\ (r.colour = currentwhite \/ r = ts)
    BY <1>1, <1>5, <1>6, <2>1, <2>3 DEF Painter
  <2>5. NotErased(r)' BY <1>4, <2>1, <2>4 DEF NotErased, isdead
  <2> QED BY <2>4, <2>5
<1>17. \A d \in 0 .. c : \A ts \in strt'.hash[d] : ts.colour = currentwhite
  <2> SUFFICES ASSUME NEW d \in 0 .. c, NEW x \in hash[d] PROVE x.colour = currentwhite
    BY <1>12
  <2>1. CASE d = c
    <3>1. PICK ts \in strt.hash[c] \ out : x = g[ts] BY <1>10, <2>1
    <3> QED BY <1>6, <3>1
  <2>2. CASE d # c
    <3>1. d \in 0 .. sweepstrgc - 1 BY <1>3, <2>2
    <3>2. d \in Index(strt) BY <1>3 DEF Index
    <3> QED BY <1>1, <1>2, <1>10, <2>2, <3>1, <3>2 DEF Swept, Clean
  <2> QED BY <2>1, <2>2
<1>18. Swept'
  <2>1. CASE sweepstrgc' >= strt.size
    <3>1. strt.size - 1 <= c BY <1>2, <1>3, <2>1
    <3>2. Index(strt') \subseteq 0 .. c BY <1>3, <1>14, <3>1 DEF Index
    <3> QED BY <1>2, <1>17, <2>1, <3>2 DEF Swept, Clean
  <2>2. CASE ~(sweepstrgc' >= strt.size)
    <3>1. sweepstrgc' - 1 = c /\ sweepstrgc' < strt.size BY <1>2, <1>3, <2>2
    <3> QED BY <1>2, <1>14, <1>17, <2>2, <3>1 DEF Swept, Clean
  <2> QED BY <2>1, <2>2
<1>19. StringsTyped' BY <1>1, <1>2 DEF StringsTyped
<1> QED BY <1>14, <1>15, <1>16, <1>18, <1>19 DEF StringsOK

LEMMA ShrinkStep ==
  ASSUME StringsOK, checkSizes
  PROVE  StringsOK'
<1>1. /\ StringsTyped /\ TableRight(strt) /\ FixedStay /\ HeldStay /\ Swept /\ TableTyped(strt)
  BY DEF StringsOK, TableRight
<1>2. /\ gcstate = "sweep" /\ gcstate' = "finalize" /\ UNCHANGED <<sweepstrgc, currentwhite, held>>
      /\ strt' = strt \/ (strt.size > MinSize * 2 /\ strt' = luaS_resize(strt, strt.size \div 2))
  BY DEF checkSizes
<1>3. TableRight(strt') /\ Strings(strt') = Strings(strt)
  <2>1. strt.size > MinSize * 2 => strt.size \div 2 \in Nat \ {0}
    BY <1>1 DEF TableTyped
  <2> QED BY <1>1, <1>2, <2>1, Resizes
<1>4. Swept'
  <2>1. \A ts \in Strings(strt) : ts.colour = currentwhite
    BY <1>1, <1>2, OneColour DEF Swept, Clean
  <2>2. \A c \in Index(strt') : \A ts \in strt'.hash[c] : ts.colour = currentwhite
    BY <1>3, <2>1, OneColour
  <2> QED BY <1>2, <2>2 DEF Swept, Clean
<1>5. FixedStay' BY <1>1, <1>3 DEF FixedStay
<1>6. HeldStay'
  <2>1. \A ts : NotErased(ts) => NotErased(ts)' BY <1>2 DEF NotErased, isdead, otherwhite
  <2> QED BY <1>1, <1>2, <1>3, <2>1 DEF HeldStay
<1>7. StringsTyped' BY <1>1, <1>2 DEF StringsTyped
<1> QED BY <1>3, <1>4, <1>5, <1>6, <1>7 DEF StringsOK

(* The other steps leave the table alone. *)
LEMMA OtherStep ==
  ASSUME StringsOK,
         markroot \/ EndCycle \/ (\E text \in Texts : Forget(text)) \/ UNCHANGED stringvars
  PROVE  StringsOK'
<1>1. /\ StringsTyped /\ TableRight(strt) /\ FixedStay /\ HeldStay /\ Swept BY DEF StringsOK
<1>2. /\ UNCHANGED <<strt, sweepstrgc, currentwhite>> /\ held' \subseteq held
      /\ \/ gcstate' = gcstate
         \/ gcstate = "pause" /\ gcstate' = "propagate"
         \/ gcstate = "finalize" /\ gcstate' = "pause"
  BY DEF markroot, EndCycle, Forget, stringvars
<1>3. \A ts : NotErased(ts) => NotErased(ts)' BY <1>2 DEF NotErased, isdead, otherwhite
<1>4. TableRight(strt') /\ FixedStay' BY <1>1, <1>2 DEF FixedStay
<1>5. HeldStay' BY <1>1, <1>2, <1>3 DEF HeldStay
<1>6. Swept' BY <1>1, <1>2 DEF Swept, Clean, Index
<1>7. StringsTyped' BY <1>1, <1>2 DEF StringsTyped
<1> QED BY <1>4, <1>5, <1>6, <1>7 DEF StringsOK

LEMMA AlwaysInv == StringSpec => []StringsOK
<1>1. StringsOK /\ [StringNext]_stringvars => StringsOK'
  <2> SUFFICES ASSUME StringsOK, [StringNext]_stringvars PROVE StringsOK' OBVIOUS
  <2>1. CASE \E text \in Texts : luaS_newlstr(text) \/ stringmark(text)
    BY <2>1, NewStep, MarkStep
  <2>2. CASE atomic \/ sweepwholelist \/ checkSizes
    BY <2>2, AtomicStep, SweepStep, ShrinkStep
  <2>3. CASE \/ markroot \/ EndCycle \/ (\E text \in Texts : Forget(text))
             \/ UNCHANGED stringvars
    BY <2>3, OtherStep
  <2> QED BY <2>1, <2>2, <2>3 DEF StringNext, singlestep
<1> QED BY InitInv, <1>1, PTL DEF StringSpec

(* lstring.c, lgc.c: whatever texts are made, and whenever a sweep or a resize
   comes between, equal strings are one string, found in its chain; the strings in
   use and the fixed ones stay; and nuse is the number of strings. *)
THEOREM AlwaysInterned == StringSpec => []StringsInterned
<1>1. StringsOK => StringsInterned
  <2> SUFFICES ASSUME StringsOK PROVE StringsInterned OBVIOUS
  <2>1. /\ StringsTyped /\ TableRight(strt) /\ FixedStay /\ HeldStay /\ Swept /\ TableTyped(strt)
        /\ Placed(strt) /\ Unique(Strings(strt)) /\ Counts(strt)
        /\ DOMAIN strt.hash = Index(strt)
    BY InStrings DEF StringsOK, TableRight
  <2>2. strt.nuse = Cardinality(Strings(strt)) BY <2>1, OneEach DEF Counts
  <2>3. strt.size = Cardinality(DOMAIN strt.hash)
    <3>1. strt.size - 1 \in Int /\ strt.size \in Nat \ {0} BY <2>1 DEF TableTyped
    <3>2. Cardinality(0 .. strt.size - 1) = strt.size
      <4> DEFINE n == strt.size - 1
      <4>1. n \in Int /\ n >= 0 /\ n - 0 + 1 = strt.size BY <3>1
      <4> HIDE DEF n
      <4>2. Cardinality(0 .. n) = IF 0 > n THEN 0 ELSE n - 0 + 1 BY <4>1, FS_Interval
      <4> QED BY <4>1, <4>2 DEF n
    <3> QED BY <2>1, <3>2 DEF Index
  <2>4. \A text \in held \cup FixedTexts : \E ts \in Strings(strt) : ts.text = text /\ NotErased(ts)
    BY <2>1 DEF HeldStay, FixedStay, NotErased
  <2>5. /\ gcstate = "sweepstring" =>
              \A c \in 0 .. sweepstrgc - 1 : \A ts \in strt.hash[c] : ts.colour = currentwhite
        /\ gcstate \in {"sweep", "finalize", "pause"} =>
              \A c \in DOMAIN strt.hash : \A ts \in strt.hash[c] : ts.colour = currentwhite
    BY <2>1 DEF Swept, Clean
  <2> QED BY <2>1, <2>2, <2>3, <2>4, <2>5 DEF StringsInterned, Placed, Unique
<1> QED BY AlwaysInv, <1>1, PTL

==============================================================================
