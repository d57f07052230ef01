---------------------------- MODULE LuaTableProofs ----------------------------
(***************************************************************************)
(* The tables: a table of any size, with any keys and any hash of them,    *)
(* finds what it holds (HashSound), is a map (ImplementsMap), keeps its    *)
(* references (RefsHold) and is traversed completely (TraversalComplete).  *)
(***************************************************************************)
EXTENDS LuaTable, FiniteSetTheorems, WellFoundedInduction, TLAPS

(* The links of the nodes, as a graph *)
Links(nd)       == [n \in DOMAIN nd |-> nd[n].next]
Graph(nx, D)    == nx \in [D -> D \cup {NULL}] /\ NULL \notin D
Closed(nx, S)   == \A x \in S : nx[x] # NULL => nx[x] \in S
Reach(nx, a, b) == \A S \in SUBSET DOMAIN nx : a \in S /\ Closed(nx, S) => b \in S
Acyclic(nx)     == \A S \in SUBSET DOMAIN nx : S # {} => \E x \in S : nx[x] \notin S
OnePred(nx)     == \A x, y \in DOMAIN nx : nx[x] = nx[y] /\ nx[x] # NULL => x = y

(* What Walk finds from a on: nothing, or one before the others *)
First(nx, a, sought, w) ==
  /\ w \in sought \cup {NULL}
  /\ w = NULL => \A y \in sought : ~Reach(nx, a, y)
  /\ w # NULL => Reach(nx, a, w) /\ \A y \in sought : Reach(nx, a, y) => Reach(nx, w, y)

------------------------------------------------------------------------------
(* Chains *)

LEMMA ReachSelf == ASSUME NEW nx, NEW a PROVE Reach(nx, a, a)
  BY DEF Reach

LEMMA ReachOn ==
  ASSUME NEW nx, NEW a, NEW b, NEW c, Reach(nx, a, b), Reach(nx, b, c)
  PROVE  Reach(nx, a, c)
  BY DEF Reach

LEMMA ReachNext ==
  ASSUME NEW nx, NEW a, NEW b, Reach(nx, a, b), nx[b] # NULL
  PROVE  Reach(nx, a, nx[b])
  BY DEF Reach, Closed

LEMMA ReachFrom ==
  ASSUME NEW nx, NEW D, Graph(nx, D), NEW a \in D, NEW b, Reach(nx, a, b), b # a
  PROVE  nx[a] # NULL /\ Reach(nx, nx[a], b)
<1>1. DOMAIN nx = D BY DEF Graph
<1>2. nx[a] # NULL
  <2> SUFFICES ASSUME nx[a] = NULL PROVE FALSE OBVIOUS
  <2>1. Closed(nx, {a}) BY DEF Closed
  <2>2. {a} \in SUBSET DOMAIN nx BY <1>1
  <2> QED BY <2>1, <2>2 DEF Reach
<1>3. ASSUME NEW S \in SUBSET DOMAIN nx, nx[a] \in S, Closed(nx, S) PROVE b \in S
  <2>1. Closed(nx, S \cup {a}) BY <1>3 DEF Closed
  <2>2. S \cup {a} \in SUBSET DOMAIN nx BY <1>1
  <2>3. b \in S \cup {a} BY <2>1, <2>2 DEF Reach
  <2> QED BY <2>3
<1> QED BY <1>2, <1>3 DEF Reach

LEMMA ReachIn ==
  ASSUME NEW nx, NEW D, Graph(nx, D), NEW a \in D, NEW b, Reach(nx, a, b)
  PROVE  b \in D
<1>1. DOMAIN nx = D BY DEF Graph
<1>2. Closed(nx, D) BY DEF Graph, Closed
<1> QED BY <1>1, <1>2 DEF Reach

LEMMA NoCycle ==
  ASSUME NEW nx, NEW D, Graph(nx, D), Acyclic(nx), NEW a \in D, NEW b \in D,
         Reach(nx, a, b), Reach(nx, b, a)
  PROVE  a = b
<1> SUFFICES ASSUME a # b PROVE FALSE OBVIOUS
<1> DEFINE S == {x \in D : Reach(nx, x, a) /\ Reach(nx, a, x)}
<1>1. DOMAIN nx = D BY DEF Graph
<1>2. a \in S BY ReachSelf
<1>3. S \in SUBSET DOMAIN nx /\ S # {} BY <1>1, <1>2
<1>4. PICK x \in S : nx[x] \notin S BY <1>3, Zenon DEF Acyclic
<1>5. x \in D /\ Reach(nx, x, a) /\ Reach(nx, a, x) OBVIOUS
<1>6. nx[x] # NULL /\ Reach(nx, nx[x], a)
  <2>1. CASE x # a BY <1>5, <2>1, ReachFrom
  <2>2. CASE x = a
    <3>1. nx[a] # NULL /\ Reach(nx, nx[a], b) BY ReachFrom
    <3> QED BY <2>2, <3>1, ReachOn
  <2> QED BY <2>1, <2>2
<1>7. Reach(nx, a, nx[x]) BY <1>5, <1>6, ReachNext
<1>8. nx[x] \in D BY <1>7, ReachIn
<1> QED BY <1>4, <1>6, <1>7, <1>8

(* The function of a loop that goes on to `succ' until it stops: there is one. *)
Loop(f, D, stop, succ, value) ==
  f = [n \in D |-> IF n \in stop THEN value[n] ELSE f[succ[n]]]

LEMMA Iteration ==
  ASSUME NEW D, NEW stop, NEW succ \in [D -> D], NEW value
  PROVE  \E f : Loop(f, D, stop, succ, value)
<1> DEFINE Goes(S) == \A x \in S : x \notin stop => succ[x] \in S
           R(n) == {y \in D : \A S \in SUBSET D : n \in S /\ Goes(S) => y \in S}
           W(n) == R(n) \cap stop
           g == [n \in D |-> value[CHOOSE y \in W(n) : TRUE]]
<1>1. ASSUME NEW n \in D, n \in stop PROVE W(n) = {n}
  <2>1. n \in R(n) OBVIOUS
  <2>2. ASSUME NEW y \in R(n) PROVE y = n
    <3>1. Goes({n}) /\ {n} \in SUBSET D BY <1>1
    <3> QED BY <3>1
  <2> HIDE DEF R
  <2> QED BY <1>1, <2>1, <2>2
<1>2. ASSUME NEW n \in D, n \notin stop PROVE W(n) = W(succ[n])
  <2> DEFINE m == succ[n]
  <2>1. m \in D OBVIOUS
  <2>2. ASSUME NEW y \in R(n), y # n PROVE y \in R(m)
    <3> SUFFICES ASSUME NEW S \in SUBSET D, m \in S, Goes(S) PROVE y \in S BY <2>2
    <3>1. Goes(S \cup {n}) /\ S \cup {n} \in SUBSET D OBVIOUS
    <3>2. y \in S \cup {n} BY <3>1
    <3> QED BY <2>2, <3>2
  <2>3. ASSUME NEW y \in R(m) PROVE y \in R(n)
    <3> SUFFICES ASSUME NEW S \in SUBSET D, n \in S, Goes(S) PROVE y \in S BY <2>3
    <3>1. m \in S BY <1>2
    <3> QED BY <3>1
  <2> HIDE DEF R, m
  <2>4. W(n) = W(m) BY <1>2, <2>2, <2>3
  <2> QED BY <2>4 DEF m
<1> DEFINE c(n) == CHOOSE y \in W(n) : TRUE
<1>3. ASSUME NEW n \in D, n \in stop PROVE c(n) = n
  <2>1. W(n) = {n} BY <1>1, <1>3
  <2> HIDE DEF W
  <2> QED BY <2>1
<1>4. ASSUME NEW n \in D, n \notin stop PROVE c(n) = c(succ[n])
  <2>1. W(n) = W(succ[n]) BY <1>2, <1>4
  <2> HIDE DEF W
  <2> QED BY <2>1
<1>5. \A n \in D : g[n] = value[c(n)] OBVIOUS
<1>6. \A n \in D : succ[n] \in D OBVIOUS
<1>7. g = [n \in D |-> g[n]] OBVIOUS
<1> HIDE DEF g, c
<1>8. \A n \in D : g[n] = IF n \in stop THEN value[n] ELSE g[succ[n]]
  BY <1>3, <1>4, <1>5, <1>6
<1>9. g = [n \in D |-> IF n \in stop THEN value[n] ELSE g[succ[n]]] BY <1>7, <1>8
<1> QED BY <1>9 DEF Loop

LEMMA Walker ==
  ASSUME NEW nx, NEW D, Graph(nx, D), Acyclic(nx), NEW sought \in SUBSET D, NEW f, NEW a \in D,
         f = [n \in D \cup {NULL} |-> IF n \in sought \cup {NULL} THEN n ELSE f[nx[n]]]
  PROVE  First(nx, a, sought, f[a])
<1>1. DOMAIN nx = D /\ NULL \notin D /\ \A x \in D : nx[x] \in D \cup {NULL} BY DEF Graph
<1>2. \A x \in sought : f[x] = x OBVIOUS
<1>3. \A x \in D : x \notin sought => f[x] = f[nx[x]] BY <1>1
<1>4. f[NULL] = NULL OBVIOUS
<1>5. f[a] \in sought \cup {NULL}
  <2> DEFINE S == {x \in D : f[x] \notin sought \cup {NULL}}
  <2> SUFFICES ASSUME f[a] \notin sought \cup {NULL} PROVE FALSE OBVIOUS
  <2>1. S \in SUBSET DOMAIN nx /\ S # {} BY <1>1
  <2>2. PICK x \in S : nx[x] \notin S BY <2>1, Zenon DEF Acyclic
  <2>3. x \in D /\ f[x] \notin sought \cup {NULL} OBVIOUS
  <2>4. x \notin sought BY <1>2, <2>3
  <2>5. f[nx[x]] \notin sought \cup {NULL} BY <1>3, <2>3, <2>4
  <2>6. nx[x] \in D BY <1>1, <1>4, <2>3, <2>5
  <2> QED BY <2>2, <2>5, <2>6
<1>6. ASSUME f[a] = NULL, NEW y \in sought, Reach(nx, a, y) PROVE FALSE
  <2> DEFINE S == {x \in D : f[x] = NULL}
  <2>1. \A x \in S : x \notin sought BY <1>1, <1>2
  <2>2. Closed(nx, S)
    <3> SUFFICES ASSUME NEW x \in S, nx[x] # NULL PROVE nx[x] \in S BY DEF Closed
    <3>1. x \in D /\ f[x] = NULL /\ x \notin sought BY <2>1
    <3> QED BY <1>1, <1>3, <3>1
  <2>3. a \in S /\ S \in SUBSET DOMAIN nx BY <1>1, <1>6
  <2>4. y \in S BY <1>6, <2>2, <2>3 DEF Reach
  <2> QED BY <2>1, <2>4
<1>7. ASSUME f[a] # NULL PROVE Reach(nx, a, f[a])
  <2> SUFFICES ASSUME NEW S \in SUBSET DOMAIN nx, a \in S, Closed(nx, S), f[a] \notin S PROVE FALSE
    BY DEF Reach
  <2> DEFINE B == {x \in S : f[x] = f[a]}
  <2>1. B \in SUBSET DOMAIN nx /\ B # {} OBVIOUS
  <2>2. PICK x \in B : nx[x] \notin B BY <2>1, Zenon DEF Acyclic
  <2>3. x \in S /\ x \in D /\ f[x] = f[a] BY <1>1
  <2>4. x \notin sought BY <1>2, <2>3
  <2>5. f[nx[x]] = f[a] BY <1>3, <2>3, <2>4
  <2>6. nx[x] # NULL BY <1>4, <1>7, <2>5
  <2>7. nx[x] \in S BY <2>3, <2>6 DEF Closed
  <2> QED BY <2>2, <2>5, <2>7
<1>8. ASSUME f[a] # NULL, NEW y \in sought, Reach(nx, a, y) PROVE Reach(nx, f[a], y)
  <2> SUFFICES ASSUME NEW S \in SUBSET DOMAIN nx, f[a] \in S, Closed(nx, S) PROVE y \in S
    BY DEF Reach
  <2> DEFINE B == S \cup {x \in D : f[x] = f[a] /\ x \notin sought}
  <2>1. Closed(nx, B)
    <3> SUFFICES ASSUME NEW x \in B, nx[x] # NULL PROVE nx[x] \in B BY DEF Closed
    <3>1. CASE x \in S BY <3>1 DEF Closed
    <3>2. CASE x \notin S
      <4>1. x \in D /\ f[x] = f[a] /\ x \notin sought BY <3>2
      <4>2. f[nx[x]] = f[a] /\ nx[x] \in D BY <1>1, <1>3, <4>1
      <4>3. nx[x] \in sought => nx[x] \in S BY <1>2, <4>2
      <4> QED BY <4>2, <4>3
    <3> QED BY <3>1, <3>2
  <2>2. a \in B BY <1>2
  <2>3. B \in SUBSET DOMAIN nx BY <1>1
  <2>4. y \in B BY <1>8, <2>1, <2>2, <2>3 DEF Reach
  <2> QED BY <2>4
<1> QED BY <1>5, <1>6, <1>7, <1>8 DEF First

------------------------------------------------------------------------------
(* The hash part: its nodes `nd' and the main position of every key *)

NodeOf(D) == [key : Keys \cup {Absent}, dead : BOOLEAN, val : Content, next : D \cup {NULL}]

Main(tab) == [k \in Keys |-> mainposition(tab, k)]

(* A node that was never used is in no chain. *)
Unused(nd) ==
  \A n \in DOMAIN nd : nd[n].key = Absent =>
    /\ ~nd[n].dead /\ nd[n].val = nil /\ nd[n].next = NULL
    /\ \A m \in DOMAIN nd : nd[m].next # n

(* The chain of a key begins with a node that is at its own main position. *)
Headed(nd, main) ==
  \A n \in DOMAIN nd : nd[n].key # Absent =>
    LET h == main[nd[n].key] IN
      Reach(Links(nd), h, n) /\ nd[h].key # Absent /\ main[nd[h].key] = h

(* A live node comes before the dead ones of its key. *)
LiveFirst(nd) ==
  /\ \A n \in DOMAIN nd : nd[n].dead => nd[n].val = nil
  /\ \A n, m \in DOMAIN nd :
       nd[n].key = nd[m].key /\ nd[n].key # Absent /\ ~nd[n].dead => Reach(Links(nd), n, m)

Shape(nd, main) ==
  /\ nd \in [DOMAIN nd -> NodeOf(DOMAIN nd)] /\ NULL \notin DOMAIN nd
  /\ main \in [Keys -> DOMAIN nd]
  /\ Acyclic(Links(nd)) /\ OnePred(Links(nd))
  /\ Unused(nd) /\ Headed(nd, main) /\ LiveFirst(nd)

Lives(nd, k)    == \E n \in DOMAIN nd : nd[n].key = k /\ ~nd[n].dead
Holds(nd, k, v) == \E n \in DOMAIN nd : nd[n].key = k /\ ~nd[n].dead /\ nd[n].val = v

Fields(tab, a, nd, l, d, g) ==
  tab \in [array : {a}, node : {nd}, lastfree : {l}, dummy : {d}, again : {g}]

ArrayOK(tab) ==
  /\ tab.array \in Seq(Content)
  /\ \A i \in 1..Len(tab.array) : i \notin Keys => tab.array[i] = nil

Sized(nd) == \E N \in Nat \ {0} : DOMAIN nd = 0..(N - 1)

(* The nodes from lastfree on are used; the dummy node is not. *)
FreeOK(tab) ==
  /\ tab.lastfree \in 0..sizenode(tab)
  /\ \A n \in Nodes(tab) : n >= tab.lastfree => tab.dummy \/ tab.node[n].key # Absent
  /\ tab.dummy \in BOOLEAN
  /\ tab.dummy => Nodes(tab) = {0} /\ tab.node[0].key = Absent /\ tab.lastfree = 0

Apart(tab) == \A k \in Keys : Lives(tab.node, k) => ~InArray(tab, k)

Sound(tab) ==
  /\ Fields(tab, tab.array, tab.node, tab.lastfree, tab.dummy, tab.again)
  /\ ArrayOK(tab) /\ Sized(tab.node) /\ Shape(tab.node, Main(tab))
  /\ FreeOK(tab) /\ Apart(tab) /\ tab.again = FALSE

LEMMA Types ==
  /\ 0 \in Keys /\ Absent \notin Keys /\ nil \in Content /\ Numbers \subseteq Content
  /\ Numbers \subseteq Nat /\ Numbers \subseteq Keys /\ Indices \subseteq Numbers /\ 0 \notin Indices
  /\ Values \subseteq Content /\ Objects \subseteq Content
  /\ nil \notin Values /\ nil \notin Objects /\ nil \notin Numbers
  /\ \A n \in Numbers : \A i \in 0..n : i \in Keys
BY TableAssumption DEF Numbers, Indices, Content

LEMMA SizedSize ==
  ASSUME NEW nd, NEW N \in Nat \ {0}, DOMAIN nd = 0..(N - 1)
  PROVE  IsFiniteSet(DOMAIN nd) /\ Cardinality(DOMAIN nd) = N
<1>1. 0 \in Int /\ N - 1 \in Int OBVIOUS
<1>2. Cardinality(0..(N - 1)) = IF 0 > N - 1 THEN 0 ELSE (N - 1) - 0 + 1 BY <1>1, FS_Interval
<1>3. IsFiniteSet(0..(N - 1)) BY <1>1, FS_Interval
<1> QED BY <1>2, <1>3

LEMMA ModRange == ASSUME NEW h \in Nat, NEW n \in Nat \ {0} PROVE h % n \in 0..(n - 1)
OBVIOUS

LEMMA MainType ==
  ASSUME NEW tab, Sized(tab.node)
  PROVE  Main(tab) \in [Keys -> DOMAIN tab.node]
<1>1. PICK N \in Nat \ {0} : DOMAIN tab.node = 0..(N - 1) BY DEF Sized
<1>2. sizenode(tab) = N BY <1>1, SizedSize DEF sizenode, Nodes
<1> SUFFICES ASSUME NEW k \in Keys PROVE mainposition(tab, k) \in 0..(N - 1) BY <1>1 DEF Main
<1>3. Hash[k] \in Nat BY TableAssumption
<1>4. CASE k = 0
  <2>1. mainposition(tab, k) = 0 BY <1>4 DEF mainposition
  <2> QED BY <2>1
<1>5. CASE k # 0 /\ k \in Numbers
  <2>1. mainposition(tab, k) = Hash[k] % (IF (N - 1) % 2 = 0 THEN (N - 1) + 1 ELSE N - 1)
    BY <1>2, <1>5 DEF mainposition, hashmod
  <2>2. CASE (N - 1) % 2 = 0
    <3>1. mainposition(tab, k) = Hash[k] % N BY <2>1, <2>2
    <3> QED BY <1>3, <3>1, ModRange
  <2>3. CASE (N - 1) % 2 # 0
    <3>1. N - 1 \in Nat \ {0}
      <4>1. N - 1 # 0 BY <2>3
      <4> QED BY <4>1
    <3> DEFINE M == N - 1
    <3>2. mainposition(tab, k) = Hash[k] % M BY <2>1, <2>3
    <3>3. Hash[k] % M \in 0..(M - 1) BY <1>3, <3>1, ModRange
    <3> QED BY <3>1, <3>2, <3>3
  <2> QED BY <2>2, <2>3
<1>6. CASE k # 0 /\ k \notin Numbers
  <2>1. mainposition(tab, k) = Hash[k] % N BY <1>2, <1>6 DEF mainposition
  <2> QED BY <1>3, <2>1, ModRange
<1> QED BY <1>4, <1>5, <1>6

LEMMA SameMain ==
  ASSUME NEW a, NEW b, DOMAIN a.node = DOMAIN b.node
  PROVE  Main(a) = Main(b) /\ sizenode(a) = sizenode(b)
BY DEF Main, mainposition, hashmod, sizenode, Nodes

LEMMA LinksGraph ==
  ASSUME NEW nd, NEW main, Shape(nd, main)
  PROVE  Graph(Links(nd), DOMAIN nd) /\ DOMAIN Links(nd) = DOMAIN nd
         /\ \A n \in DOMAIN nd : Links(nd)[n] = nd[n].next
<1>1. nd \in [DOMAIN nd -> NodeOf(DOMAIN nd)] /\ NULL \notin DOMAIN nd BY DEF Shape
<1>2. \A n \in DOMAIN nd : nd[n] \in NodeOf(DOMAIN nd) BY <1>1
<1>3. \A n \in DOMAIN nd : nd[n].next \in DOMAIN nd \cup {NULL} BY <1>2 DEF NodeOf
<1>4. Links(nd) = [n \in DOMAIN nd |-> nd[n].next] BY DEF Links
<1> QED BY <1>1, <1>3, <1>4 DEF Graph

LEMMA NodeTypes ==
  ASSUME NEW nd, NEW main, Shape(nd, main), NEW n \in DOMAIN nd
  PROVE  /\ nd[n] \in NodeOf(DOMAIN nd)
         /\ nd[n].key \in Keys \cup {Absent} /\ nd[n].dead \in BOOLEAN /\ nd[n].val \in Content
         /\ nd[n].next \in DOMAIN nd \cup {NULL}
<1>1. nd \in [DOMAIN nd -> NodeOf(DOMAIN nd)] BY DEF Shape
<1>2. nd[n] \in NodeOf(DOMAIN nd) BY <1>1
<1> QED BY <1>2 DEF NodeOf

LEMMA WalkFirst ==
  ASSUME NEW tab, Shape(tab.node, Main(tab)), NEW k \in Keys, NEW sought \in SUBSET DOMAIN tab.node
  PROVE  First(Links(tab.node), Main(tab)[k], sought, Walk(tab, k, sought))
<1> DEFINE D == DOMAIN tab.node
           nx == Links(tab.node)
           E == D \cup {NULL}
           stop == sought \cup {NULL}
           succ == [n \in E |-> IF n = NULL THEN NULL ELSE tab.node[n].next]
           value == [n \in E |-> n]
           P(f) == f = [n \in E |-> IF n \in stop THEN n ELSE f[tab.node[n].next]]
           from == CHOOSE f : P(f)
<1>1. Graph(nx, D) /\ (\A n \in D : nx[n] = tab.node[n].next) BY LinksGraph
<1>2. \A n \in D : tab.node[n].next \in E BY NodeTypes
<1>3. succ \in [E -> E] BY <1>2, ZenonT(40)
<1>4. \E f : Loop(f, E, stop, succ, value)
  <2> HIDE DEF E, stop, succ, value
  <2> QED BY <1>3, Iteration, ZenonT(40)
<1>5. PICK f : f = [n \in E |-> IF n \in stop THEN value[n] ELSE f[succ[n]]] BY <1>4 DEF Loop
<1>6. P(f)
  <2>1. \A n \in E : n \notin stop => succ[n] = tab.node[n].next OBVIOUS
  <2>2. \A n \in E : value[n] = n OBVIOUS
  <2>3. [n \in E |-> IF n \in stop THEN value[n] ELSE f[succ[n]]]
        = [n \in E |-> IF n \in stop THEN n ELSE f[tab.node[n].next]]
    <3> HIDE DEF E, stop, succ, value
    <3> QED BY <2>1, <2>2
  <2> QED BY <1>5, <2>3, ZenonT(30)
<1>7. P(from)
  <2> HIDE DEF P
  <2> QED BY <1>6
<1>8. from = [n \in D \cup {NULL} |-> IF n \in sought \cup {NULL} THEN n ELSE from[nx[n]]]
  <2> HIDE DEF from
  <2>1. \A n \in D : nx[n] = tab.node[n].next BY <1>1
  <2>2. from = [n \in D \cup {NULL} |-> IF n \in sought \cup {NULL} THEN n ELSE from[tab.node[n].next]]
    BY <1>7
  <2>3. [n \in D \cup {NULL} |-> IF n \in sought \cup {NULL} THEN n ELSE from[tab.node[n].next]]
        = [n \in D \cup {NULL} |-> IF n \in sought \cup {NULL} THEN n ELSE from[nx[n]]]
    <3> HIDE DEF D, nx
    <3> QED BY <2>1
  <2> QED BY <2>2, <2>3
<1>9. Main(tab)[k] \in D BY DEF Shape
<1>10. First(nx, Main(tab)[k], sought, from[Main(tab)[k]])
  <2>1. Acyclic(nx) BY DEF Shape
  <2> HIDE DEF from, nx, D, P
  <2>2. sought \in SUBSET D BY DEF D
  <2> QED BY <1>1, <1>8, <1>9, <2>1, <2>2, Walker
<1>11. Walk(tab, k, sought) = from[mainposition(tab, k)] BY DEF Walk, Nodes
<1>12. Main(tab)[k] = mainposition(tab, k) BY DEF Main
<1> QED BY <1>10, <1>11, <1>12

(* A search finds the live node of a key. *)
LEMMA FindLive ==
  ASSUME NEW tab, Shape(tab.node, Main(tab)), NEW n \in DOMAIN tab.node,
         tab.node[n].key # Absent, ~tab.node[n].dead
  PROVE  Find(tab, tab.node[n].key) = n
<1> DEFINE k == tab.node[n].key
           nx == Links(tab.node)
           live == {m \in Holding(tab, k) : ~tab.node[m].dead}
           w == Walk(tab, k, live)
<1>1. k \in Keys BY NodeTypes
<1>2. live \in SUBSET DOMAIN tab.node /\ n \in live BY DEF Holding, Nodes
<1>3. Reach(nx, Main(tab)[k], n) BY SMTT(30) DEF Shape, Headed
<1>4. First(nx, Main(tab)[k], live, w)
  <2> HIDE DEF live, k
  <2> QED BY <1>1, <1>2, WalkFirst, SMTT(30)
<1>5. w \in live /\ Reach(nx, w, n)
  <2> HIDE DEF w, live
  <2> QED BY <1>2, <1>3, <1>4, SMTT(30) DEF First
<1>6. w \in DOMAIN tab.node /\ tab.node[w].key = k BY <1>5 DEF Holding, Nodes
<1>7. Reach(nx, n, w)
  <2> HIDE DEF w
  <2> QED BY <1>6 DEF Shape, LiveFirst
<1>8. n = w
  <2> HIDE DEF w
  <2>1. Graph(nx, DOMAIN tab.node) /\ Acyclic(nx) BY LinksGraph DEF Shape
  <2> QED BY <1>5, <1>6, <1>7, <2>1, NoCycle
<1> QED BY <1>8 DEF Find

LEMMA FindNone ==
  ASSUME NEW tab, Shape(tab.node, Main(tab)), NEW k \in Keys, ~Lives(tab.node, k)
  PROVE  Find(tab, k) = NULL
<1> DEFINE live == {m \in Holding(tab, k) : ~tab.node[m].dead}
<1>1. live = {} BY DEF Holding, Nodes, Lives
<1>2. First(Links(tab.node), Main(tab)[k], {}, Walk(tab, k, {})) BY WalkFirst
<1> QED BY <1>1, <1>2 DEF First, Find

LEMMA FindLives ==
  ASSUME NEW tab, Shape(tab.node, Main(tab)), NEW k \in Keys
  PROVE  /\ Find(tab, k) # NULL <=> Lives(tab.node, k)
         /\ Find(tab, k) # NULL =>
              /\ Find(tab, k) \in DOMAIN tab.node
              /\ tab.node[Find(tab, k)].key = k /\ ~tab.node[Find(tab, k)].dead
<1>1. ASSUME Lives(tab.node, k)
      PROVE  /\ Find(tab, k) \in DOMAIN tab.node
             /\ tab.node[Find(tab, k)].key = k /\ ~tab.node[Find(tab, k)].dead
  <2>1. PICK n \in DOMAIN tab.node : tab.node[n].key = k /\ ~tab.node[n].dead BY <1>1 DEF Lives
  <2>2. k # Absent BY Types
  <2>3. Find(tab, k) = n BY <2>1, <2>2, FindLive
  <2> QED BY <2>1, <2>3
<1>2. NULL \notin DOMAIN tab.node BY DEF Shape
<1> QED BY <1>1, <1>2, FindNone

(* The value of a key that is not in the array part *)
LEMMA GetHolds ==
  ASSUME NEW tab, Shape(tab.node, Main(tab)), NEW k \in Keys, ~InArray(tab, k), NEW v, v # nil
  PROVE  luaH_get(tab, k) = v <=> Holds(tab.node, k, v)
<1>1. CASE Lives(tab.node, k)
  <2> DEFINE n == Find(tab, k)
  <2>1. n # NULL /\ n \in DOMAIN tab.node /\ tab.node[n].key = k /\ ~tab.node[n].dead BY <1>1, FindLives
  <2>2. luaH_get(tab, k) = tab.node[n].val BY <2>1 DEF luaH_get
  <2>3. ASSUME NEW m \in DOMAIN tab.node, tab.node[m].key = k, ~tab.node[m].dead PROVE m = n
    <3>1. k # Absent BY Types
    <3> QED BY <2>3, <3>1, FindLive
  <2> HIDE DEF n
  <2> QED BY <2>1, <2>2, <2>3 DEF Holds
<1>2. CASE ~Lives(tab.node, k)
  <2>1. luaH_get(tab, k) = nil BY <1>2, FindNone DEF luaH_get
  <2> QED BY <1>2, <2>1 DEF Holds, Lives
<1> QED BY <1>1, <1>2

------------------------------------------------------------------------------
(* What newkey does to the chains *)

(* A new node f is linked in after h. *)
LinkedIn(nx, ny, D, h, f) ==
  /\ ny \in [D -> D \cup {NULL}] /\ h \in D /\ f \in D /\ f # h
  /\ nx[f] = NULL /\ \A m \in D : nx[m] # f
  /\ ny[f] = nx[h] /\ ny[h] = f
  /\ \A m \in D \ {f, h} : ny[m] = nx[m]

(* The node h, whose predecessor is p, moves to f, and a new chain begins at h. *)
MovedOut(nx, ny, D, p, h, f) ==
  /\ ny \in [D -> D \cup {NULL}] /\ p \in D /\ h \in D /\ f \in D /\ f # h /\ f # p /\ p # h
  /\ nx[f] = NULL /\ \A m \in D : nx[m] # f
  /\ nx[p] = h
  /\ ny[p] = f /\ ny[f] = nx[h] /\ ny[h] = NULL
  /\ \A m \in D \ {p, f, h} : ny[m] = nx[m]

LEMMA LinkedInOnePred ==
  ASSUME NEW nx, NEW ny, NEW D, NEW h, NEW f, Graph(nx, D), LinkedIn(nx, ny, D, h, f), OnePred(nx)
  PROVE  OnePred(ny) /\ Graph(ny, D)
<1>1. DOMAIN nx = D /\ NULL \notin D /\ \A x \in D : nx[x] \in D \cup {NULL} BY DEF Graph
<1>2. Graph(ny, D) /\ DOMAIN ny = D BY DEF LinkedIn, Graph
<1> SUFFICES ASSUME NEW x \in D, NEW y \in D, ny[x] = ny[y], ny[x] # NULL PROVE x = y
  BY <1>2 DEF OnePred
<1>3. \A a, b \in D : nx[a] = nx[b] /\ nx[a] # NULL => a = b BY <1>1 DEF OnePred
<1>4. /\ \A m \in D : nx[m] # f
      /\ ny[f] = nx[h] /\ ny[h] = f /\ h \in D /\ f \in D
      /\ \A m \in D : m # f /\ m # h => ny[m] = nx[m]
  BY DEF LinkedIn
<1> QED BY <1>3, <1>4

LEMMA LinkedInAcyclic ==
  ASSUME NEW nx, NEW ny, NEW D, NEW h, NEW f, Graph(nx, D), LinkedIn(nx, ny, D, h, f), Acyclic(nx)
  PROVE  Acyclic(ny)
<1>1. DOMAIN nx = D /\ NULL \notin D /\ \A x \in D : nx[x] \in D \cup {NULL} BY DEF Graph
<1>2. DOMAIN ny = D BY DEF LinkedIn
<1>3. /\ h \in D /\ f \in D /\ f # h /\ \A m \in D : nx[m] # f
      /\ ny[f] = nx[h] /\ ny[h] = f
      /\ \A m \in D : m # f /\ m # h => ny[m] = nx[m]
  BY DEF LinkedIn
<1> SUFFICES ASSUME NEW S \in SUBSET D, S # {} PROVE \E x \in S : ny[x] \notin S
  BY <1>2 DEF Acyclic
<1>4. CASE S = {f} BY <1>3, <1>4
<1>5. CASE S # {f}
  <2> DEFINE T == S \ {f}
  <2>1. T \in SUBSET D /\ T # {} BY <1>5
  <2> HIDE DEF T
  <2>2. PICK x \in T : nx[x] \notin T BY <1>1, <2>1, Zenon DEF Acyclic
  <2>3. x \in S /\ x # f /\ x \in D BY <2>1, <2>2 DEF T
  <2>4. nx[x] \notin S BY <1>3, <2>2, <2>3 DEF T
  <2>5. CASE x = h BY <1>3, <2>3, <2>4, <2>5
  <2>6. CASE x # h BY <1>3, <2>3, <2>4, <2>6
  <2> QED BY <2>5, <2>6
<1> QED BY <1>4, <1>5

LEMMA LinkedInReach ==
  ASSUME NEW nx, NEW ny, NEW D, NEW h, NEW f, Graph(nx, D), LinkedIn(nx, ny, D, h, f),
         NEW a \in D, a # f, NEW b, Reach(nx, a, b)
  PROVE  Reach(ny, a, b)
<1>1. DOMAIN nx = D /\ NULL \notin D /\ \A x \in D : nx[x] \in D \cup {NULL} BY DEF Graph
<1>2. DOMAIN ny = D BY DEF LinkedIn
<1>3. /\ h \in D /\ f \in D /\ f # h /\ \A m \in D : nx[m] # f
      /\ ny[f] = nx[h] /\ ny[h] = f
      /\ \A m \in D : m # f /\ m # h => ny[m] = nx[m]
  BY DEF LinkedIn
<1> SUFFICES ASSUME NEW S \in SUBSET D, a \in S, Closed(ny, S) PROVE b \in S
  BY <1>2 DEF Reach
<1> DEFINE T == S \ {f}
<1>4. Closed(nx, T)
  <2> SUFFICES ASSUME NEW x \in T, nx[x] # NULL PROVE nx[x] \in T BY DEF Closed
  <2>1. x \in S /\ x # f /\ x \in D OBVIOUS
  <2>2. CASE x = h
    <3>1. f \in S
      <4>1. ny[h] # NULL BY <1>1, <1>3
      <4> QED BY <1>3, <2>1, <2>2, <4>1 DEF Closed
    <3>2. nx[h] \in S BY <1>3, <2>2, <3>1 DEF Closed
    <3> QED BY <1>3, <2>1, <2>2, <3>2
  <2>3. CASE x # h
    <3>1. ny[x] = nx[x] BY <1>3, <2>1, <2>3
    <3>2. nx[x] \in S BY <2>1, <3>1 DEF Closed
    <3> QED BY <1>3, <2>1, <3>2
  <2> QED BY <2>2, <2>3
<1>5. a \in T /\ T \in SUBSET DOMAIN nx BY <1>1
<1>6. b \in T BY <1>4, <1>5 DEF Reach
<1> QED BY <1>6

LEMMA MovedOutOnePred ==
  ASSUME NEW nx, NEW ny, NEW D, NEW p, NEW h, NEW f, Graph(nx, D), MovedOut(nx, ny, D, p, h, f),
         OnePred(nx)
  PROVE  OnePred(ny) /\ Graph(ny, D)
<1>1. DOMAIN nx = D /\ NULL \notin D /\ \A x \in D : nx[x] \in D \cup {NULL} BY DEF Graph
<1>2. Graph(ny, D) /\ DOMAIN ny = D BY DEF MovedOut, Graph
<1> SUFFICES ASSUME NEW x \in D, NEW y \in D, ny[x] = ny[y], ny[x] # NULL PROVE x = y
  BY <1>2 DEF OnePred
<1>3. \A a, b \in D : nx[a] = nx[b] /\ nx[a] # NULL => a = b BY <1>1 DEF OnePred
<1>4. /\ \A m \in D : nx[m] # f
      /\ ny[f] = nx[h] /\ ny[h] = NULL /\ ny[p] = f /\ h \in D /\ f \in D /\ p \in D
      /\ \A m \in D : m # f /\ m # h /\ m # p => ny[m] = nx[m]
  BY DEF MovedOut
<1> QED BY <1>3, <1>4

LEMMA MovedOutAcyclic ==
  ASSUME NEW nx, NEW ny, NEW D, NEW p, NEW h, NEW f, Graph(nx, D), MovedOut(nx, ny, D, p, h, f),
         Acyclic(nx), OnePred(nx)
  PROVE  Acyclic(ny)
<1>1. DOMAIN nx = D /\ NULL \notin D /\ \A x \in D : nx[x] \in D \cup {NULL} BY DEF Graph
<1>2. DOMAIN ny = D BY DEF MovedOut
<1>3. /\ h \in D /\ f \in D /\ p \in D /\ f # h /\ f # p /\ p # h
      /\ \A m \in D : nx[m] # f
      /\ nx[p] = h /\ ny[p] = f /\ ny[f] = nx[h] /\ ny[h] = NULL
      /\ \A m \in D : m # f /\ m # h /\ m # p => ny[m] = nx[m]
  BY DEF MovedOut
<1>4. \A a \in D : nx[a] = h => a = p BY <1>1, <1>3 DEF OnePred
<1> SUFFICES ASSUME NEW S \in SUBSET D, S # {} PROVE \E x \in S : ny[x] \notin S
  BY <1>2 DEF Acyclic
<1>5. CASE h \in S BY <1>1, <1>3, <1>5
<1>6. CASE h \notin S
  <2> DEFINE T == {x \in D \ {f} : IF x = h THEN f \in S ELSE x \in S}
  <2>1. \A x : x \in T <=> x \in D /\ x # f /\ IF x = h THEN f \in S ELSE x \in S OBVIOUS
  <2>2. T \in SUBSET D OBVIOUS
  <2> HIDE DEF T
  <2>3. T # {}
    <3>1. PICK s \in S : TRUE OBVIOUS
    <3>2. s \in D OBVIOUS
    <3>3. CASE s = f BY <1>3, <2>1, <3>1, <3>3
    <3>4. CASE s # f BY <1>6, <2>1, <3>1, <3>2, <3>4
    <3> QED BY <3>3, <3>4
  <2>4. PICK x \in T : nx[x] \notin T BY <1>1, <2>2, <2>3, Zenon DEF Acyclic
  <2>5. x \in D /\ x # f BY <2>1, <2>4
  <2>6. nx[x] # f /\ nx[x] \in D \cup {NULL} BY <1>1, <1>3, <2>5
  <2>7. CASE x = h
    <3>1. f \in S BY <2>1, <2>4, <2>7
    <3>2. nx[h] # h BY <1>3, <1>4
    <3>3. nx[h] \notin S
      <4>1. CASE nx[h] = NULL BY <1>1, <4>1
      <4>2. CASE nx[h] \in D BY <2>1, <2>4, <2>6, <2>7, <3>2, <4>2
      <4> QED BY <2>6, <2>7, <4>1, <4>2
    <3> QED BY <1>3, <3>1, <3>3
  <2>8. CASE x = p
    <3>1. h \notin T BY <1>3, <2>4, <2>8
    <3>2. f \notin S BY <1>3, <2>1, <3>1
    <3>3. p \in S BY <1>3, <2>1, <2>4, <2>8
    <3> QED BY <1>3, <3>2, <3>3
  <2>9. CASE x # h /\ x # p
    <3>1. x \in S BY <2>1, <2>4, <2>9
    <3>2. nx[x] # h BY <1>4, <2>5, <2>9
    <3>3. nx[x] \notin S
      <4>1. CASE nx[x] = NULL BY <1>1, <4>1
      <4>2. CASE nx[x] \in D BY <2>1, <2>4, <2>6, <3>2, <4>2
      <4> QED BY <2>6, <4>1, <4>2
    <3> QED BY <1>3, <2>5, <2>9, <3>1, <3>3
  <2> QED BY <2>7, <2>8, <2>9
<1> QED BY <1>5, <1>6

LEMMA MovedOutReach ==
  ASSUME NEW nx, NEW ny, NEW D, NEW p, NEW h, NEW f, Graph(nx, D), MovedOut(nx, ny, D, p, h, f),
         OnePred(nx), NEW a \in D, a # f, NEW b \in D, Reach(nx, a, b)
  PROVE  Reach(ny, IF a = h THEN f ELSE a, IF b = h THEN f ELSE b)
<1>1. DOMAIN nx = D /\ NULL \notin D /\ \A x \in D : nx[x] \in D \cup {NULL} BY DEF Graph
<1>2. DOMAIN ny = D BY DEF MovedOut
<1>3. /\ h \in D /\ f \in D /\ p \in D /\ f # h /\ f # p /\ p # h
      /\ \A m \in D : nx[m] # f
      /\ nx[p] = h /\ ny[p] = f /\ ny[f] = nx[h] /\ ny[h] = NULL
      /\ \A m \in D : m # f /\ m # h /\ m # p => ny[m] = nx[m]
  BY DEF MovedOut
<1>4. \A x \in D : nx[x] = h => x = p BY <1>1, <1>3 DEF OnePred
<1> SUFFICES ASSUME NEW S \in SUBSET D, (IF a = h THEN f ELSE a) \in S, Closed(ny, S)
             PROVE  (IF b = h THEN f ELSE b) \in S
  BY <1>2 DEF Reach
<1> DEFINE T == {x \in D \ {f} : IF x = h THEN f \in S ELSE x \in S}
<1>5. \A x : x \in T <=> x \in D /\ x # f /\ IF x = h THEN f \in S ELSE x \in S OBVIOUS
<1>6. T \in SUBSET DOMAIN nx BY <1>1
<1> HIDE DEF T
<1>7. \A x \in S : ny[x] # NULL => ny[x] \in S BY DEF Closed
<1>8. ASSUME NEW x \in T, nx[x] # NULL PROVE nx[x] \in T
  <2>1. x \in D /\ x # f /\ nx[x] \in D /\ nx[x] # f BY <1>1, <1>3, <1>5, <1>8
  <2>2. CASE x = h
    <3>1. f \in S BY <1>5, <2>2
    <3>2. nx[h] \in S BY <1>3, <1>7, <1>8, <2>2, <3>1
    <3>3. nx[h] # h BY <1>3, <1>4
    <3> QED BY <1>5, <2>1, <2>2, <3>2, <3>3
  <2>3. CASE x = p
    <3>1. p \in S BY <1>3, <1>5, <2>3
    <3>2. f \in S
      <4>1. ny[p] # NULL BY <1>1, <1>3
      <4> QED BY <1>3, <1>7, <3>1, <4>1
    <3> QED BY <1>3, <1>5, <2>3, <3>2
  <2>4. CASE x # h /\ x # p
    <3>1. x \in S /\ ny[x] = nx[x] BY <1>3, <1>5, <2>1, <2>4
    <3>2. nx[x] \in S BY <1>7, <1>8, <3>1
    <3>3. nx[x] # h BY <1>4, <2>1, <2>4
    <3> QED BY <1>5, <2>1, <3>2, <3>3
  <2> QED BY <2>2, <2>3, <2>4
<1>9. Closed(nx, T) BY <1>8 DEF Closed
<1>10. a \in T BY <1>3, <1>5
<1>11. b \in T BY <1>6, <1>9, <1>10 DEF Reach
<1> QED BY <1>5, <1>11

------------------------------------------------------------------------------
(* What newkey does to the nodes *)

Carries(r, k, d, v) == r.key = k /\ r.dead = d /\ r.val = v
Like(r, s)          == r.key = s.key /\ r.dead = s.dead /\ r.val = s.val

(* The nodes hold v for k as well. *)
Put(nd, new, k, v) ==
  /\ DOMAIN new = DOMAIN nd
  /\ \A n \in DOMAIN nd : new[n].key # Absent =>
       Carries(new[n], k, FALSE, v) \/ \E m \in DOMAIN nd : Like(new[n], nd[m])
  /\ \A m \in DOMAIN nd : nd[m].val # nil => \E n \in DOMAIN nd : Like(new[n], nd[m])
  /\ \E n \in DOMAIN nd : Carries(new[n], k, FALSE, v)
  /\ \A n \in DOMAIN nd : nd[n].key # Absent => new[n].key # Absent

(* A node whose value is nil is used again. *)
Reused(nd, new, h, k, v) ==
  /\ new \in [DOMAIN nd -> NodeOf(DOMAIN nd)] /\ h \in DOMAIN nd
  /\ Carries(new[h], k, FALSE, v) /\ new[h].next = nd[h].next
  /\ \A n \in DOMAIN nd \ {h} : new[n] = nd[n]

LEMMA ReusedShape ==
  ASSUME NEW nd, NEW main, Shape(nd, main), NEW k \in Keys, NEW v, NEW h, NEW new,
         Reused(nd, new, h, k, v), h = main[k], nd[h].val = nil, ~Lives(nd, k)
  PROVE  Shape(new, main) /\ Put(nd, new, k, v)
<1> DEFINE D == DOMAIN nd
<1>0. k # Absent /\ h \in D /\ DOMAIN new = D BY Types DEF Reused
<1>1. new[h].key = k /\ new[h].dead = FALSE /\ new[h].val = v /\ new[h].next = nd[h].next
      /\ \A n \in D : n # h => new[n] = nd[n]
  BY DEF Reused, Carries
<1>2. Links(new) = Links(nd) BY <1>0, <1>1 DEF Links
<1>3. main \in [Keys -> D] /\ NULL \notin D BY DEF Shape
<1>4. Unused(new)
  <2>1. \A n \in D : new[n].next = nd[n].next BY <1>1
  <2>2. \A n \in D : new[n].key = Absent => nd[n].key = Absent /\ new[n] = nd[n] BY <1>0, <1>1
  <2>3. \A n \in D : nd[n].key = Absent =>
           ~nd[n].dead /\ nd[n].val = nil /\ nd[n].next = NULL /\ \A m \in D : nd[m].next # n
    BY DEF Shape, Unused
  <2> QED BY <1>0, <2>1, <2>2, <2>3 DEF Unused
<1>5. Headed(new, main)
  <2> SUFFICES ASSUME NEW n \in D, new[n].key # Absent
               PROVE  LET g == main[new[n].key] IN
                        Reach(Links(nd), g, n) /\ new[g].key # Absent /\ main[new[g].key] = g
    BY <1>0, <1>2 DEF Headed
  <2>1. CASE n = h BY <1>0, <1>1, <2>1, ReachSelf
  <2>2. CASE n # h
    <3> DEFINE g == main[nd[n].key]
    <3>1. new[n] = nd[n] BY <1>1, <2>2
    <3>2. Reach(Links(nd), g, n) /\ nd[g].key # Absent /\ main[nd[g].key] = g
      BY <3>1 DEF Shape, Headed
    <3>3. g \in D
      <4>1. nd[n].key \in Keys BY <3>1, NodeTypes
      <4> QED BY <1>3, <4>1
    <3>4. new[g].key # Absent /\ main[new[g].key] = g
      <4> HIDE DEF g
      <4> QED BY <1>0, <1>1, <3>2, <3>3
    <3> QED BY <3>1, <3>2, <3>4
  <2> QED BY <2>1, <2>2
<1>6. LiveFirst(new)
  <2>1. ASSUME NEW n \in D, new[n].dead PROVE new[n].val = nil
    <3>1. n # h BY <1>1, <2>1
    <3>2. new[n] = nd[n] BY <1>1, <3>1
    <3> QED BY <2>1, <3>2 DEF Shape, LiveFirst
  <2>2. ASSUME NEW n \in D, NEW m \in D, new[n].key = new[m].key, new[n].key # Absent, ~new[n].dead
        PROVE  Reach(Links(nd), n, m)
    <3>1. CASE m = h /\ n # h
      <4>1. nd[n].key = k /\ ~nd[n].dead BY <1>1, <2>2, <3>1
      <4> QED BY <4>1 DEF Lives
    <3>2. CASE n = h /\ m # h
      <4>1. nd[m].key = k BY <1>1, <2>2, <3>2
      <4>2. Reach(Links(nd), main[k], m) BY <1>0, <4>1 DEF Shape, Headed
      <4> QED BY <3>2, <4>2
    <3>3. CASE n = h /\ m = h BY <3>3, ReachSelf
    <3>4. CASE n # h /\ m # h
      <4>1. new[n] = nd[n] /\ new[m] = nd[m] BY <1>1, <3>4
      <4> QED BY <2>2, <4>1 DEF Shape, LiveFirst
    <3> QED BY <3>1, <3>2, <3>3, <3>4
  <2> QED BY <1>0, <1>2, <2>1, <2>2 DEF LiveFirst
<1>7. new \in [DOMAIN new -> NodeOf(DOMAIN new)] BY <1>0 DEF Reused
<1>8. Shape(new, main) BY <1>0, <1>2, <1>3, <1>4, <1>5, <1>6, <1>7 DEF Shape
<1>9. Put(nd, new, k, v)
  <2>1. \A n \in D : new[n].key # Absent =>
          Carries(new[n], k, FALSE, v) \/ \E m \in D : Like(new[n], nd[m])
    BY <1>1 DEF Carries, Like
  <2>2. \A m \in D : nd[m].val # nil => \E n \in D : Like(new[n], nd[m]) BY <1>1 DEF Like
  <2>3. \E n \in D : Carries(new[n], k, FALSE, v) BY <1>0, <1>1 DEF Carries
  <2>4. \A n \in D : nd[n].key # Absent => new[n].key # Absent BY <1>0, <1>1
  <2> QED BY <1>0, <2>1, <2>2, <2>3, <2>4 DEF Put
<1> QED BY <1>8, <1>9

(* A node that was never used is linked in after the main position. *)
Linked(nd, new, h, f, k, v) ==
  /\ new \in [DOMAIN nd -> NodeOf(DOMAIN nd)] /\ h \in DOMAIN nd /\ f \in DOMAIN nd
  /\ Carries(new[f], k, FALSE, v) /\ new[f].next = nd[h].next
  /\ Like(new[h], nd[h]) /\ new[h].next = f
  /\ \A n \in DOMAIN nd \ {f, h} : new[n] = nd[n]

LEMMA LinkedShape ==
  ASSUME NEW nd, NEW main, Shape(nd, main), NEW k \in Keys, NEW v, NEW h, NEW f, NEW new,
         Linked(nd, new, h, f, k, v), h = main[k], nd[h].val # nil, nd[f].key = Absent,
         main[nd[h].key] = h, ~Lives(nd, k)
  PROVE  Shape(new, main) /\ Put(nd, new, k, v)
<1> DEFINE D == DOMAIN nd
           nx == Links(nd)
           ny == Links(new)
<1>0. k # Absent /\ h \in D /\ f \in D /\ DOMAIN new = D BY Types DEF Linked
<1>1. /\ new[f].key = k /\ new[f].dead = FALSE /\ new[f].val = v /\ new[f].next = nd[h].next
      /\ new[h].key = nd[h].key /\ new[h].dead = nd[h].dead /\ new[h].val = nd[h].val
      /\ new[h].next = f
      /\ \A n \in D : n # f /\ n # h => new[n] = nd[n]
  BY DEF Linked, Carries, Like
<1>2. main \in [Keys -> D] /\ NULL \notin D BY DEF Shape
<1>3. \A n \in D : nd[n].key = Absent =>
         ~nd[n].dead /\ nd[n].val = nil /\ nd[n].next = NULL /\ \A m \in D : nd[m].next # n
  BY DEF Shape, Unused
<1>4. f # h /\ nd[h].key # Absent BY <1>0, <1>3
<1>5. new \in [D -> NodeOf(D)] BY DEF Linked
<1>6. /\ Graph(nx, D) /\ Acyclic(nx) /\ OnePred(nx)
      /\ \A n \in D : nx[n] = nd[n].next /\ ny[n] = new[n].next
  BY <1>0, LinksGraph DEF Shape, Links
<1>7. LinkedIn(nx, ny, D, h, f)
  <2>1. \A n \in D : new[n].next \in D \cup {NULL}
    <3>1. \A n \in D : new[n] \in NodeOf(D) BY <1>5
    <3> QED BY <3>1 DEF NodeOf
  <2>2. ny \in [D -> D \cup {NULL}] BY <1>0, <2>1 DEF Links
  <2>3. nx[f] = NULL /\ (\A m \in D : nx[m] # f) BY <1>0, <1>3, <1>6
  <2>4. ny[f] = nx[h] /\ ny[h] = f /\ \A m \in D \ {f, h} : ny[m] = nx[m] BY <1>0, <1>1, <1>6
  <2> HIDE DEF nx, ny, D
  <2> QED BY <1>0, <1>4, <2>2, <2>3, <2>4 DEF LinkedIn
<1>8. Acyclic(ny) /\ OnePred(ny) /\ Graph(ny, D)
  <2> HIDE DEF nx, ny, D
  <2> QED BY <1>6, <1>7, LinkedInOnePred, LinkedInAcyclic
<1>9. ASSUME NEW a \in D, a # f, NEW b, Reach(nx, a, b) PROVE Reach(ny, a, b)
  <2> HIDE DEF nx, ny, D
  <2> QED BY <1>6, <1>7, <1>9, LinkedInReach
<1>10. Unused(new)
  <2> SUFFICES ASSUME NEW n \in D, new[n].key = Absent
               PROVE  /\ ~new[n].dead /\ new[n].val = nil /\ new[n].next = NULL
                      /\ \A m \in D : new[m].next # n
    BY <1>0 DEF Unused
  <2>1. n # f /\ n # h BY <1>0, <1>1, <1>4
  <2>2. new[n] = nd[n] /\ nd[n].key = Absent BY <1>1, <2>1
  <2>3. \A m \in D : new[m].next # n BY <1>0, <1>1, <1>3, <2>1, <2>2
  <2> QED BY <1>3, <2>2, <2>3
<1>11. Headed(new, main)
  <2> SUFFICES ASSUME NEW n \in D, new[n].key # Absent
               PROVE  LET g == main[new[n].key] IN
                        Reach(ny, g, n) /\ new[g].key # Absent /\ main[new[g].key] = g
    BY <1>0 DEF Headed
  <2>1. CASE n = f
    <3>1. Reach(ny, h, f)
      <4>1. Reach(ny, h, h) /\ ny[h] = f /\ ny[h] # NULL BY <1>0, <1>1, <1>2, <1>6, ReachSelf
      <4> HIDE DEF ny
      <4> QED BY <4>1, ReachNext
    <3> QED BY <1>1, <1>4, <2>1, <3>1
  <2>2. CASE n # f
    <3> DEFINE g == main[nd[n].key]
    <3>1. new[n].key = nd[n].key BY <1>1, <2>2
    <3>2. Reach(nx, g, n) /\ nd[g].key # Absent /\ main[nd[g].key] = g
      BY <3>1 DEF Shape, Headed
    <3>3. g \in D
      <4>1. nd[n].key \in Keys BY <3>1, NodeTypes
      <4> QED BY <1>2, <4>1
    <3> HIDE DEF g, nx, ny
    <3>4. g # f BY <3>2
    <3>5. new[g].key # Absent /\ main[new[g].key] = g BY <1>1, <3>2, <3>3, <3>4
    <3>6. Reach(ny, g, n) BY <1>9, <3>2, <3>3, <3>4
    <3> QED BY <3>1, <3>5, <3>6 DEF g
  <2> QED BY <2>1, <2>2
<1>12. LiveFirst(new)
  <2>1. ASSUME NEW n \in D, new[n].dead PROVE new[n].val = nil
    <3>1. n # f BY <1>1, <2>1
    <3>2. new[n].dead = nd[n].dead /\ new[n].val = nd[n].val BY <1>1, <3>1
    <3> QED BY <2>1, <3>2 DEF Shape, LiveFirst
  <2>2. ASSUME NEW n \in D, NEW m \in D, new[n].key = new[m].key, new[n].key # Absent, ~new[n].dead
        PROVE  Reach(ny, n, m)
    <3>1. CASE m = f /\ n # f
      <4>1. nd[n].key = k /\ ~nd[n].dead BY <1>1, <2>2, <3>1
      <4> QED BY <4>1 DEF Lives
    <3>2. CASE n = f /\ m # f
      <4>1. nd[m].key = k BY <1>1, <2>2, <3>2
      <4>2. Reach(nx, h, m) BY <1>0, <4>1 DEF Shape, Headed
      <4>3. m # h
        <5>1. ~nd[h].dead BY <1>0 DEF Shape, LiveFirst
        <5> QED BY <1>0, <4>1, <5>1 DEF Lives
      <4>4. nx[h] # NULL /\ Reach(nx, nx[h], m)
        <5> HIDE DEF nx, D
        <5> QED BY <1>0, <1>6, <4>2, <4>3, ReachFrom
      <4>5. nx[h] \in D /\ nx[h] # f BY <1>0, <1>3, <1>6, <4>4 DEF Graph
      <4>6. Reach(ny, nx[h], m) BY <1>9, <4>4, <4>5
      <4>7. Reach(ny, f, nx[h])
        <5>1. Reach(ny, f, f) /\ ny[f] = nx[h] BY <1>0, <1>1, <1>6, ReachSelf
        <5> HIDE DEF ny, nx
        <5> QED BY <4>4, <5>1, ReachNext
      <4> HIDE DEF ny, nx
      <4> QED BY <3>2, <4>6, <4>7, ReachOn
    <3>3. CASE n = f /\ m = f BY <3>3, ReachSelf
    <3>4. CASE n # f /\ m # f
      <4>1. nd[n].key = nd[m].key /\ nd[n].key # Absent /\ ~nd[n].dead BY <1>1, <2>2, <3>4
      <4>2. Reach(nx, n, m) BY <4>1 DEF Shape, LiveFirst
      <4> QED BY <1>9, <3>4, <4>2
    <3> QED BY <3>1, <3>2, <3>3, <3>4
  <2> QED BY <1>0, <2>1, <2>2 DEF LiveFirst
<1>13. Shape(new, main) BY <1>0, <1>2, <1>5, <1>8, <1>10, <1>11, <1>12 DEF Shape
<1>14. Put(nd, new, k, v)
  <2>1. \A n \in D : new[n].key # Absent =>
          Carries(new[n], k, FALSE, v) \/ \E m \in D : Like(new[n], nd[m])
    <3> TAKE n \in D
    <3>1. CASE n = f BY <1>1, <3>1 DEF Carries
    <3>2. CASE n # f BY <1>1, <3>2 DEF Like
    <3> QED BY <3>1, <3>2
  <2>2. \A m \in D : nd[m].val # nil => \E n \in D : Like(new[n], nd[m])
    <3> SUFFICES ASSUME NEW m \in D, nd[m].val # nil PROVE Like(new[m], nd[m]) OBVIOUS
    <3>1. m # f BY <1>3
    <3> QED BY <1>1, <3>1 DEF Like
  <2>3. \E n \in D : Carries(new[n], k, FALSE, v) BY <1>0, <1>1 DEF Carries
  <2>4. \A n \in D : nd[n].key # Absent => new[n].key # Absent BY <1>0, <1>1
  <2> QED BY <1>0, <2>1, <2>2, <2>3, <2>4 DEF Put
<1> QED BY <1>13, <1>14

(* The node at the main position moves to one that was never used. *)
Moved(nd, new, p, h, f, k, v) ==
  /\ new \in [DOMAIN nd -> NodeOf(DOMAIN nd)]
  /\ h \in DOMAIN nd /\ f \in DOMAIN nd /\ p \in DOMAIN nd /\ nd[p].next = h
  /\ Carries(new[h], k, FALSE, v) /\ new[h].next = NULL
  /\ Like(new[f], nd[h]) /\ new[f].next = nd[h].next
  /\ Like(new[p], nd[p]) /\ new[p].next = f
  /\ \A n \in DOMAIN nd \ {p, f, h} : new[n] = nd[n]

LEMMA MovedShape ==
  ASSUME NEW nd, NEW main, Shape(nd, main), NEW k \in Keys, NEW v, NEW p, NEW h, NEW f, NEW new,
         Moved(nd, new, p, h, f, k, v), h = main[k], p # h, nd[h].val # nil, nd[f].key = Absent,
         main[nd[h].key] # h
  PROVE  Shape(new, main) /\ Put(nd, new, k, v)
<1> DEFINE D == DOMAIN nd
           nx == Links(nd)
           ny == Links(new)
<1>0. k # Absent /\ h \in D /\ f \in D /\ p \in D /\ DOMAIN new = D BY Types DEF Moved
<1>1. /\ new[f].key = nd[h].key /\ new[f].dead = nd[h].dead /\ new[f].val = nd[h].val
      /\ new[f].next = nd[h].next
      /\ new[p].key = nd[p].key /\ new[p].dead = nd[p].dead /\ new[p].val = nd[p].val
      /\ new[p].next = f /\ nd[p].next = h
      /\ new[h].key = k /\ new[h].dead = FALSE /\ new[h].val = v /\ new[h].next = NULL
      /\ \A n \in D : n # f /\ n # h /\ n # p => new[n] = nd[n]
  BY DEF Moved, Carries, Like
<1>2. main \in [Keys -> D] /\ NULL \notin D BY DEF Shape
<1>3. \A n \in D : nd[n].key = Absent =>
         ~nd[n].dead /\ nd[n].val = nil /\ nd[n].next = NULL /\ \A m \in D : nd[m].next # n
  BY DEF Shape, Unused
<1>4. f # h /\ f # p /\ nd[h].key # Absent /\ nd[p].key # Absent
  <2>1. nd[p].next # NULL BY <1>0, <1>1, <1>2
  <2> QED BY <1>0, <1>3, <2>1
<1>5. new \in [D -> NodeOf(D)] BY DEF Moved
<1>6. /\ Graph(nx, D) /\ Acyclic(nx) /\ OnePred(nx)
      /\ \A n \in D : nx[n] = nd[n].next /\ ny[n] = new[n].next
  BY <1>0, LinksGraph DEF Shape, Links
<1>7. MovedOut(nx, ny, D, p, h, f)
  <2>1. \A n \in D : new[n].next \in D \cup {NULL}
    <3>1. \A n \in D : new[n] \in NodeOf(D) BY <1>5
    <3> QED BY <3>1 DEF NodeOf
  <2>2. ny \in [D -> D \cup {NULL}] BY <1>0, <2>1 DEF Links
  <2>3. nx[f] = NULL /\ (\A m \in D : nx[m] # f) /\ nx[p] = h BY <1>0, <1>1, <1>3, <1>6
  <2>4. ny[p] = f /\ ny[f] = nx[h] /\ ny[h] = NULL /\ \A m \in D \ {p, f, h} : ny[m] = nx[m]
    BY <1>0, <1>1, <1>6
  <2> HIDE DEF nx, ny, D
  <2> QED BY <1>0, <1>4, <2>2, <2>3, <2>4 DEF MovedOut
<1>8. Acyclic(ny) /\ OnePred(ny) /\ Graph(ny, D)
  <2> HIDE DEF nx, ny, D
  <2> QED BY <1>6, <1>7, MovedOutOnePred, MovedOutAcyclic
<1>9. ASSUME NEW a \in D, a # f, NEW b \in D, Reach(nx, a, b)
      PROVE  Reach(ny, IF a = h THEN f ELSE a, IF b = h THEN f ELSE b)
  <2> HIDE DEF nx, ny, D
  <2> QED BY <1>6, <1>7, <1>9, MovedOutReach
(* No key had its main position at h. *)
<1>10. ASSUME NEW n \in D, nd[n].key # Absent
       PROVE  /\ main[nd[n].key] \in D \ {f, h}
              /\ Reach(nx, main[nd[n].key], n)
              /\ nd[main[nd[n].key]].key # Absent
              /\ main[nd[main[nd[n].key]].key] = main[nd[n].key]
  <2> DEFINE g == main[nd[n].key]
  <2>1. Reach(nx, g, n) /\ nd[g].key # Absent /\ main[nd[g].key] = g
    BY <1>10 DEF Shape, Headed
  <2>2. g \in D
    <3>1. nd[n].key \in Keys BY <1>10, NodeTypes
    <3> QED BY <1>2, <3>1
  <2> HIDE DEF g
  <2>3. g # f /\ g # h BY <2>1
  <2> QED BY <2>1, <2>2, <2>3 DEF g
(* Every node has an origin. *)
<1>11. ASSUME NEW n \in D, n # h, new[n].key # Absent
       PROVE  \E m \in D : /\ Like(new[n], nd[m]) /\ m # f /\ nd[m].key # Absent
                           /\ n = IF m = h THEN f ELSE m
  <2>1. CASE n = f BY <1>0, <1>1, <1>4, <2>1 DEF Like
  <2>2. CASE n # f
    <3>1. Like(new[n], nd[n]) BY <1>1, <1>11, <2>2 DEF Like
    <3> QED BY <1>11, <2>2, <3>1 DEF Like
  <2> QED BY <2>1, <2>2
<1>12. Unused(new)
  <2> SUFFICES ASSUME NEW n \in D, new[n].key = Absent
               PROVE  /\ ~new[n].dead /\ new[n].val = nil /\ new[n].next = NULL
                      /\ \A m \in D : new[m].next # n
    BY <1>0 DEF Unused
  <2>1. n # f /\ n # h /\ n # p BY <1>0, <1>1, <1>4
  <2>2. new[n] = nd[n] /\ nd[n].key = Absent BY <1>1, <2>1
  <2>3. n # NULL BY <1>2
  <2>4. \A m \in D : new[m].next # n BY <1>0, <1>1, <1>3, <2>1, <2>2, <2>3
  <2> QED BY <1>3, <2>2, <2>4
<1>13. Headed(new, main)
  <2> SUFFICES ASSUME NEW n \in D, new[n].key # Absent
               PROVE  LET g == main[new[n].key] IN
                        Reach(ny, g, n) /\ new[g].key # Absent /\ main[new[g].key] = g
    BY <1>0 DEF Headed
  <2>1. CASE n = h BY <1>0, <1>1, <2>1, ReachSelf
  <2>2. CASE n # h
    <3>1. PICK m \in D : /\ Like(new[n], nd[m]) /\ m # f /\ nd[m].key # Absent
                         /\ n = IF m = h THEN f ELSE m
      BY <1>11, <2>2
    <3> DEFINE g == main[nd[m].key]
    <3>2. new[n].key = nd[m].key BY <3>1 DEF Like
    <3>3. g \in D \ {f, h} /\ Reach(nx, g, m) /\ nd[g].key # Absent /\ main[nd[g].key] = g
      BY <1>10, <3>1
    <3> HIDE DEF g, nx, ny
    <3>4. g \in D /\ g # f /\ g # h BY <3>3
    <3>5. new[g].key = nd[g].key BY <1>1, <3>4
    <3>6. Reach(ny, g, n) BY <1>9, <3>1, <3>3, <3>4
    <3> QED BY <3>2, <3>3, <3>5, <3>6 DEF g
  <2> QED BY <2>1, <2>2
<1>14. LiveFirst(new)
  <2>1. ASSUME NEW n \in D, new[n].dead PROVE new[n].val = nil
    <3>1. n # h BY <1>1, <2>1
    <3>2. CASE n = f
      <4>1. nd[h].dead /\ new[n].val = nd[h].val BY <1>1, <2>1, <3>2
      <4> QED BY <1>0, <4>1 DEF Shape, LiveFirst
    <3>3. CASE n # f
      <4>1. new[n].dead = nd[n].dead /\ new[n].val = nd[n].val BY <1>1, <3>1, <3>3
      <4> QED BY <2>1, <4>1 DEF Shape, LiveFirst
    <3> QED BY <3>2, <3>3
  <2>2. ASSUME NEW n \in D, new[n].key = k, n # h PROVE FALSE
    <3>1. PICK m \in D : Like(new[n], nd[m]) /\ nd[m].key # Absent BY <1>0, <1>11, <2>2
    <3>2. nd[m].key = k BY <2>2, <3>1 DEF Like
    <3> QED BY <1>10, <3>1, <3>2
  <2>3. ASSUME NEW n \in D, NEW m \in D, new[n].key = new[m].key, new[n].key # Absent, ~new[n].dead
        PROVE  Reach(ny, n, m)
    <3>1. CASE new[n].key = k
      <4>1. n = h /\ m = h BY <2>2, <2>3, <3>1
      <4> QED BY <4>1, ReachSelf
    <3>2. CASE new[n].key # k
      <4>1. n # h /\ m # h BY <1>1, <2>3, <3>2
      <4>2. PICK x \in D : /\ Like(new[n], nd[x]) /\ x # f /\ nd[x].key # Absent
                           /\ n = IF x = h THEN f ELSE x
        BY <1>11, <2>3, <4>1
      <4>3. PICK y \in D : /\ Like(new[m], nd[y]) /\ y # f /\ nd[y].key # Absent
                           /\ m = IF y = h THEN f ELSE y
        BY <1>11, <2>3, <4>1
      <4>4. nd[x].key = nd[y].key /\ ~nd[x].dead BY <2>3, <4>2, <4>3 DEF Like
      <4>5. Reach(nx, x, y) BY <4>2, <4>4 DEF Shape, LiveFirst
      <4> QED BY <1>9, <4>2, <4>3, <4>5
    <3> QED BY <3>1, <3>2
  <2> QED BY <1>0, <2>1, <2>3 DEF LiveFirst
<1>15. Shape(new, main) BY <1>0, <1>2, <1>5, <1>8, <1>12, <1>13, <1>14 DEF Shape
<1>16. Put(nd, new, k, v)
  <2>1. \A n \in D : new[n].key # Absent =>
          Carries(new[n], k, FALSE, v) \/ \E m \in D : Like(new[n], nd[m])
    <3> TAKE n \in D
    <3>1. CASE n = h BY <1>1, <3>1 DEF Carries
    <3>2. CASE n # h BY <1>11, <3>2
    <3> QED BY <3>1, <3>2
  <2>2. \A m \in D : nd[m].val # nil => \E n \in D : Like(new[n], nd[m])
    <3> SUFFICES ASSUME NEW m \in D, nd[m].val # nil PROVE \E n \in D : Like(new[n], nd[m]) OBVIOUS
    <3>1. m # f BY <1>3
    <3>2. CASE m = h BY <1>0, <1>1, <3>2 DEF Like
    <3>3. CASE m # h BY <1>1, <3>1, <3>3 DEF Like
    <3> QED BY <3>2, <3>3
  <2>3. \E n \in D : Carries(new[n], k, FALSE, v) BY <1>0, <1>1 DEF Carries
  <2>4. \A n \in D : nd[n].key # Absent => new[n].key # Absent BY <1>0, <1>1, <1>4
  <2> QED BY <1>0, <2>1, <2>2, <2>3, <2>4 DEF Put
<1> QED BY <1>15, <1>16

------------------------------------------------------------------------------
(* Least and greatest numbers *)

LEMMA LeastIs ==
  ASSUME NEW S \in SUBSET Nat, S # {}
  PROVE  Min(S) \in S /\ \A m \in S : Min(S) <= m
<1> DEFINE R == OpToRel(<, Nat)
<1>1. IsWellFoundedOn(R, Nat) BY NatLessThanWellFounded
<1> HIDE DEF R
<1>2. PICK n \in S : \A m \in S : ~(<<m, n>> \in R) BY <1>1, WFMin
<1>3. \A m \in S : n <= m
  <2> TAKE m \in S
  <2>1. m \in Nat /\ n \in Nat OBVIOUS
  <2>2. m < n => <<m, n>> \in R BY <2>1 DEF R, OpToRel
  <2> QED BY <1>2, <2>1, <2>2
<1> QED BY <1>3 DEF Min

LEMMA GreatestIs ==
  ASSUME NEW b \in Nat, NEW S \in SUBSET (0..b), S # {}
  PROVE  Max(S) \in S /\ \A m \in S : m <= Max(S)
<1> DEFINE T == {x \in 0..b : b - x \in S}
<1>1. T \in SUBSET Nat /\ T # {}
  <2>1. PICK s \in S : TRUE OBVIOUS
  <2>2. s \in 0..b OBVIOUS
  <2>3. b - s \in 0..b /\ b - (b - s) = s BY <2>2
  <2>4. b - s \in T BY <2>3
  <2>5. \A x \in T : x \in Nat OBVIOUS
  <2> HIDE DEF T
  <2> QED BY <2>4, <2>5
<1> DEFINE x == Min(T)
<1>2. x \in T /\ \A y \in T : x <= y
  <2> HIDE DEF T
  <2> QED BY <1>1, LeastIs
<1>3. ASSUME NEW m \in S PROVE b - x >= m
  <2>1. b - m \in 0..b /\ b - (b - m) = m OBVIOUS
  <2>2. x <= b - m BY <1>2, <2>1
  <2> QED BY <1>2, <2>2
<1>4. b - x \in S /\ \A m \in S : b - x >= m BY <1>2, <1>3
<1>5. Max(S) \in S /\ \A m \in S : Max(S) >= m
  <2> HIDE DEF x
  <2> QED BY <1>4 DEF Max
<1>6. \A m \in S : m \in Int OBVIOUS
<1> QED BY <1>5, <1>6

LEMMA Rising ==
  ASSUME NEW S, NEW b \in Nat, 0 \in S, \A i \in Nat : i < b /\ i \in S => i + 1 \in S
  PROVE  \A i \in 0..b : i \in S
<1> SUFFICES ASSUME NEW c \in 0..b, c \notin S PROVE FALSE OBVIOUS
<1> DEFINE T == {i \in Nat : i <= b /\ i \notin S}
<1>1. T \in SUBSET Nat /\ T # {} OBVIOUS
<1> DEFINE m == Min(T)
<1>2. m \in T /\ \A y \in T : m <= y
  <2> HIDE DEF T
  <2> QED BY <1>1, LeastIs
<1> HIDE DEF m
<1>3. m \in Nat /\ m <= b /\ m \notin S BY <1>2
<1>4. m # 0 BY <1>3
<1>5. m - 1 \in Nat /\ m - 1 < b /\ m - 1 <= b BY <1>3, <1>4
<1>6. m - 1 \in S
  <2> DEFINE c1 == m - 1
  <2> SUFFICES ASSUME c1 \notin S PROVE FALSE OBVIOUS
  <2>1. c1 \in Nat /\ c1 <= b BY <1>5
  <2>2. c1 < m BY <1>3
  <2> HIDE DEF c1
  <2>3. c1 \in T BY <2>1
  <2> QED BY <1>2, <1>3, <2>1, <2>2, <2>3
<1>7. (m - 1) + 1 \in S BY <1>5, <1>6
<1> QED BY <1>3, <1>7

------------------------------------------------------------------------------
(* PutNode *)

Full(tab) == tab.dummy \/ \A n \in Nodes(tab) : tab.node[n].key # Absent

Added(tab, new, k, v) ==
  /\ Sound(new) /\ new.array = tab.array /\ new.dummy = tab.dummy
  /\ Put(tab.node, new.node, k, v)

LEMMA PutLives ==
  ASSUME NEW nd, NEW new, NEW k, NEW v, Put(nd, new, k, v), NEW x \in Keys, Lives(new, x)
  PROVE  x = k \/ Lives(nd, x)
<1>1. PICK n \in DOMAIN nd : new[n].key = x /\ ~new[n].dead BY DEF Lives, Put
<1>2. new[n].key # Absent BY <1>1, Types
<1>3. Carries(new[n], k, FALSE, v) \/ \E m \in DOMAIN nd : Like(new[n], nd[m]) BY <1>2 DEF Put
<1>4. CASE Carries(new[n], k, FALSE, v) BY <1>1, <1>4 DEF Carries
<1>5. CASE \E m \in DOMAIN nd : Like(new[n], nd[m]) BY <1>1, <1>5 DEF Like, Lives
<1> QED BY <1>3, <1>4, <1>5

LEMMA PutHolds ==
  ASSUME NEW nd, NEW new, NEW k \in Keys, NEW v, Put(nd, new, k, v), ~Lives(nd, k),
         NEW x \in Keys, NEW w, w # nil
  PROVE  Holds(new, x, w) <=> IF x = k THEN w = v ELSE Holds(nd, x, w)
<1>0. k # Absent /\ x # Absent /\ DOMAIN new = DOMAIN nd BY Types DEF Put
<1>1. ASSUME x = k, Holds(new, x, w) PROVE w = v
  <2>1. PICK n \in DOMAIN nd : new[n].key = k /\ ~new[n].dead /\ new[n].val = w
    BY <1>0, <1>1 DEF Holds
  <2>2. Carries(new[n], k, FALSE, v) \/ \E m \in DOMAIN nd : Like(new[n], nd[m])
    BY <1>0, <2>1 DEF Put
  <2>3. CASE Carries(new[n], k, FALSE, v) BY <2>1, <2>3 DEF Carries
  <2>4. CASE \E m \in DOMAIN nd : Like(new[n], nd[m]) BY <2>1, <2>4 DEF Like, Lives
  <2> QED BY <2>2, <2>3, <2>4
<1>2. ASSUME x = k, w = v PROVE Holds(new, x, w)
  <2>1. PICK n \in DOMAIN nd : Carries(new[n], k, FALSE, v) BY DEF Put
  <2>2. new[n].key = x /\ new[n].dead = FALSE /\ new[n].val = w BY <1>2, <2>1 DEF Carries
  <2> QED BY <1>0, <2>2 DEF Holds
<1>3. ASSUME x # k, Holds(new, x, w) PROVE Holds(nd, x, w)
  <2>1. PICK n \in DOMAIN nd : new[n].key = x /\ ~new[n].dead /\ new[n].val = w
    BY <1>0, <1>3 DEF Holds
  <2>2. Carries(new[n], k, FALSE, v) \/ \E m \in DOMAIN nd : Like(new[n], nd[m])
    BY <1>0, <2>1 DEF Put
  <2>3. ~Carries(new[n], k, FALSE, v) BY <1>3, <2>1 DEF Carries
  <2> QED BY <2>1, <2>2, <2>3 DEF Like, Holds
<1>4. ASSUME x # k, Holds(nd, x, w) PROVE Holds(new, x, w)
  <2>1. PICK m \in DOMAIN nd : nd[m].key = x /\ ~nd[m].dead /\ nd[m].val = w BY <1>4 DEF Holds
  <2>2. PICK n \in DOMAIN nd : Like(new[n], nd[m]) BY <2>1 DEF Put
  <2> QED BY <1>0, <2>1, <2>2 DEF Like, Holds
<1> QED BY <1>1, <1>2, <1>3, <1>4

LEMMA PutSound ==
  ASSUME NEW tab, Sound(tab), ~tab.dummy, NEW k \in Keys, ~InArray(tab, k), NEW v,
         NEW nd, Shape(nd, Main(tab)), Put(tab.node, nd, k, v),
         NEW l, l \in 0..sizenode(tab), \A n \in Nodes(tab) : n >= l => nd[n].key # Absent,
         NEW new, Fields(new, tab.array, nd, l, FALSE, FALSE)
  PROVE  Added(tab, new, k, v)
<1>1. /\ new.array = tab.array /\ new.node = nd /\ new.lastfree = l /\ new.dummy = FALSE
      /\ new.again = FALSE
  BY DEF Fields
<1>2. DOMAIN nd = DOMAIN tab.node BY DEF Put
<1>3. Main(new) = Main(tab) /\ sizenode(new) = sizenode(tab) BY <1>1, <1>2, SameMain
<1>4. Fields(new, new.array, new.node, new.lastfree, new.dummy, new.again) BY <1>1
<1>5. ArrayOK(new) BY <1>1 DEF Sound, ArrayOK
<1>6. Sized(new.node) BY <1>1, <1>2 DEF Sound, Sized
<1>7. FreeOK(new) BY <1>1, <1>2, <1>3 DEF FreeOK, Nodes
<1>8. Apart(new)
  <2> SUFFICES ASSUME NEW x \in Keys, Lives(new.node, x) PROVE ~InArray(new, x) BY DEF Apart
  <2>1. InArray(new, x) <=> InArray(tab, x) BY <1>1 DEF InArray, sizearray
  <2>2. x = k \/ Lives(tab.node, x) BY <1>1, PutLives
  <2> QED BY <2>1, <2>2 DEF Sound, Apart
<1>9. Shape(new.node, Main(new)) BY <1>1, <1>3
<1> HIDE DEF Put
<1>10. Sound(new) BY <1>1, <1>4, <1>5, <1>6, <1>7, <1>8, <1>9 DEF Sound
<1>11. tab.dummy = FALSE BY DEF Sound, FreeOK
<1> QED BY <1>1, <1>10, <1>11 DEF Added

LEMMA Freepos ==
  ASSUME NEW tab, Sound(tab)
  PROVE  LET n == getfreepos(tab) IN
           /\ n = NULL => Full(tab)
           /\ n # NULL =>
                /\ n \in Nodes(tab) /\ n < tab.lastfree /\ tab.node[n].key = Absent /\ ~tab.dummy
                /\ n \in 0..sizenode(tab)
                /\ \A m \in Nodes(tab) : m >= n => m = n \/ tab.node[m].key # Absent
<1> DEFINE free == {n \in Nodes(tab) : n < tab.lastfree /\ tab.node[n].key = Absent}
<1>1. PICK N \in Nat \ {0} : DOMAIN tab.node = 0..(N - 1) BY DEF Sound, Sized
<1>2. sizenode(tab) = N BY <1>1, SizedSize DEF sizenode, Nodes
<1>3. tab.lastfree \in 0..N BY <1>2 DEF Sound, FreeOK
<1>4. /\ \A n \in Nodes(tab) : n >= tab.lastfree => tab.dummy \/ tab.node[n].key # Absent
      /\ tab.dummy => tab.lastfree = 0
  BY DEF Sound, FreeOK
<1>5. Nodes(tab) = 0..(N - 1) BY <1>1 DEF Nodes
<1>6. CASE free = {}
  <2>1. getfreepos(tab) = NULL BY <1>6 DEF getfreepos
  <2>2. Full(tab)
    <3> SUFFICES ASSUME NEW n \in Nodes(tab), ~tab.dummy PROVE tab.node[n].key # Absent BY DEF Full
    <3>1. n \notin free BY <1>6
    <3> QED BY <1>3, <1>4, <1>5, <3>1
  <2> QED BY <2>1, <2>2
<1>7. CASE free # {}
  <2>1. N - 1 \in Nat /\ free \in SUBSET (0..(N - 1)) BY <1>5
  <2>2. getfreepos(tab) = Max(free) BY <1>7 DEF getfreepos
  <2>3. Max(free) \in free /\ \A m \in free : m <= Max(free)
    <3> HIDE DEF free
    <3> QED BY <1>7, <2>1, GreatestIs
  <2> DEFINE n == Max(free)
  <2>4. n \in Nodes(tab) /\ n < tab.lastfree /\ tab.node[n].key = Absent BY <2>3
  <2> HIDE DEF n
  <2>5. n \in 0..(N - 1) BY <1>5, <2>4
  <2>6. ~tab.dummy BY <1>4, <2>4, <2>5
  <2>7. ASSUME NEW m \in Nodes(tab), m >= n, m # n, tab.node[m].key = Absent PROVE FALSE
    <3>1. m \in 0..(N - 1) BY <1>5
    <3>2. CASE m < tab.lastfree
      <4>1. m \in free BY <2>7, <3>2
      <4>2. m <= n BY <2>3, <4>1 DEF n
      <4> QED BY <2>5, <2>7, <3>1, <4>2
    <3>3. CASE ~(m < tab.lastfree) BY <1>3, <1>4, <2>6, <2>7, <3>1, <3>3
    <3> QED BY <3>2, <3>3
  <2>8. n # NULL /\ n \in 0..N BY <2>5 DEF NULL
  <2> QED BY <1>2, <2>2, <2>4, <2>6, <2>7, <2>8 DEF n
<1> QED BY <1>6, <1>7

LEMMA ReachPred ==
  ASSUME NEW nx, NEW D, Graph(nx, D), NEW a \in D, NEW b, Reach(nx, a, b), a # b
  PROVE  \E y \in D : nx[y] = b /\ Reach(nx, a, y)
<1> DEFINE S == {x \in D : Reach(nx, a, x)} \ {b}
<1>1. S \in SUBSET DOMAIN nx /\ a \in S BY ReachSelf DEF Graph
<1>2. ~Closed(nx, S)
  <2> SUFFICES ASSUME Closed(nx, S) PROVE FALSE OBVIOUS
  <2>1. b \in S
    <3> HIDE DEF S
    <3> QED BY <1>1 DEF Reach
  <2> QED BY <2>1
<1>3. PICK x \in S : nx[x] # NULL /\ nx[x] \notin S
  <2> HIDE DEF S
  <2> QED BY <1>2 DEF Closed
<1>4. x \in D /\ Reach(nx, a, x) OBVIOUS
<1>5. Reach(nx, a, nx[x]) BY <1>3, <1>4, ReachNext
<1>6. nx[x] \in D BY <1>5, ReachIn
<1>7. nx[x] = b BY <1>3, <1>5, <1>6
<1> QED BY <1>4, <1>7

LEMMA FieldsOf ==
  ASSUME NEW tab, NEW a, NEW nd, NEW l, NEW d, NEW g, Fields(tab, a, nd, l, d, g)
  PROVE  tab.array = a /\ tab.node = nd /\ tab.lastfree = l /\ tab.dummy = d /\ tab.again = g
BY DEF Fields

LEMMA PutNodeOK ==
  ASSUME NEW tab, Sound(tab), NEW k \in Keys, ~InArray(tab, k), ~Lives(tab.node, k),
         NEW v \in Content
  PROVE  LET put == PutNode(tab, k, v) IN
           (put.again = TRUE /\ Full(tab)) \/ (put.again = FALSE /\ Added(tab, put, k, v))
<1> DEFINE put == PutNode(tab, k, v)
           nd == tab.node
           D == DOMAIN nd
           main == Main(tab)
           h == mainposition(tab, k)
           f == getfreepos(tab)
           fresh == [FreeNode EXCEPT !.key = k, !.val = v]
           o == mainposition(tab, nd[h].key)
           p == Walk(tab, nd[h].key, {q \in Nodes(tab) : nd[q].next = h})
<1>1. /\ Fields(tab, tab.array, nd, tab.lastfree, tab.dummy, tab.again) /\ tab.again = FALSE
      /\ Shape(nd, main) /\ FreeOK(tab)
  BY DEF Sound
<1>2. nd \in [D -> NodeOf(D)] /\ NULL \notin D /\ main \in [Keys -> D] BY <1>1 DEF Shape
<1>3. h = main[k] /\ h \in D BY <1>2 DEF Main
<1>4. Nodes(tab) = D BY DEF Nodes
<1>5. \A x \in D \cup {NULL} : [fresh EXCEPT !.next = x] \in NodeOf(D)
        /\ LET r == [fresh EXCEPT !.next = x] IN
             r.key = k /\ r.dead = FALSE /\ r.val = v /\ r.next = x
  BY DEF FreeNode, NodeOf
<1>6. fresh \in NodeOf(D) /\ fresh.key = k /\ fresh.dead = FALSE /\ fresh.val = v /\ fresh.next = NULL
  BY DEF FreeNode, NodeOf
<1>7. nd[h].next \in D \cup {NULL} BY <1>1, <1>3, NodeTypes
<1> HIDE DEF fresh
<1>8. CASE nd[h].val = nil /\ ~tab.dummy
  <2> DEFINE new == [nd EXCEPT ![h] = [fresh EXCEPT !.next = nd[h].next]]
  <2>1. put = [tab EXCEPT !.node[h] = [fresh EXCEPT !.next = nd[h].next]]
    BY <1>8 DEF PutNode, fresh
  <2>2. Fields(put, tab.array, new, tab.lastfree, FALSE, FALSE)
    <3>1. tab.dummy = FALSE BY <1>1, <1>8 DEF FreeOK
    <3> HIDE DEF h, put
    <3> QED BY <1>1, <2>1, <3>1 DEF Fields
  <2>3. Reused(nd, new, h, k, v)
    <3> DEFINE r == [fresh EXCEPT !.next = nd[h].next]
    <3>1. r \in NodeOf(D) /\ Carries(r, k, FALSE, v) /\ r.next = nd[h].next
      BY <1>5, <1>7 DEF Carries
    <3> HIDE DEF r, h
    <3>2. new \in [D -> NodeOf(D)] /\ new[h] = r /\ \A n \in D \ {h} : new[n] = nd[n]
      BY <1>2, <1>3, <3>1 DEF r
    <3> HIDE DEF new
    <3> QED BY <1>3, <3>1, <3>2 DEF Reused
  <2>4. Shape(new, main) /\ Put(nd, new, k, v)
    <3> HIDE DEF new, h, main
    <3> QED BY <1>1, <1>3, <1>8, <2>3, ReusedShape
  <2>5. \A n \in Nodes(tab) : n >= tab.lastfree => new[n].key # Absent
    <3>1. \A n \in D : n >= tab.lastfree => nd[n].key # Absent BY <1>1, <1>4, <1>8 DEF FreeOK
    <3> HIDE DEF new
    <3> QED BY <1>4, <2>4, <3>1 DEF Put
  <2>6. tab.lastfree \in 0..sizenode(tab) BY <1>1 DEF FreeOK
  <2>7. Added(tab, put, k, v)
    <3> HIDE DEF put, new, main
    <3> QED BY <1>8, <2>2, <2>4, <2>5, <2>6, PutSound DEF main
  <2>8. put.again = FALSE
    <3> HIDE DEF put, new
    <3> QED BY <2>2, FieldsOf
  <2> QED BY <2>7, <2>8
<1>9. CASE ~(nd[h].val = nil /\ ~tab.dummy) /\ f = NULL
  <2>1. put = [tab EXCEPT !.again = TRUE] BY <1>9 DEF PutNode
  <2>2. put.again = TRUE
    <3> HIDE DEF put
    <3> QED BY <1>1, <2>1 DEF Fields
  <2>3. Full(tab) BY <1>9, Freepos
  <2> QED BY <2>2, <2>3
<1>10. CASE ~(nd[h].val = nil /\ ~tab.dummy) /\ f # NULL
  <2>1. /\ f \in D /\ f < tab.lastfree /\ nd[f].key = Absent /\ ~tab.dummy /\ f \in 0..sizenode(tab)
        /\ \A m \in D : m >= f => m = f \/ nd[m].key # Absent
    BY <1>4, <1>10, Freepos
  <2>2. nd[h].val # nil BY <1>10, <2>1
  <2>3. nd[h].key # Absent /\ nd[f].val = nil
    BY <1>1, <1>3, <2>1, <2>2 DEF Shape, Unused
  <2>4. nd[h].key \in Keys BY <1>1, <1>3, <2>3, NodeTypes
  <2>5. o = main[nd[h].key] BY <2>4 DEF Main
  <2>6. tab.dummy = FALSE BY <1>1, <2>1 DEF FreeOK
  (* What is left to show of a new hash part *)
  <2>7. ASSUME NEW new, Fields(put, tab.array, new, f, FALSE, FALSE), Shape(new, main),
               Put(nd, new, k, v), new[f].key # Absent
        PROVE  put.again = FALSE /\ Added(tab, put, k, v)
    <3>1. \A n \in Nodes(tab) : n >= f => new[n].key # Absent
      <4> TAKE n \in Nodes(tab)
      <4> HAVE n >= f
      <4>1. n = f \/ nd[n].key # Absent BY <1>4, <2>1
      <4> QED BY <1>4, <2>7, <4>1 DEF Put
    <3> HIDE DEF put, main, f
    <3>2. Added(tab, put, k, v) BY <2>1, <2>7, <3>1, PutSound DEF main
    <3>3. put.again = FALSE BY <2>7, FieldsOf
    <3> QED BY <3>2, <3>3
  <2>8. CASE o # h
    <3> DEFINE new == [nd EXCEPT ![p].next = f, ![f] = nd[h], ![h] = fresh]
    <3>1. put = [tab EXCEPT !.lastfree = f,
                   !.node = [@ EXCEPT ![p].next = f, ![f] = nd[h], ![h] = fresh]]
      BY <1>10, <2>8 DEF PutNode, fresh
    <3>2. Fields(put, tab.array, new, f, FALSE, FALSE)
      <4> HIDE DEF h, put, f, p
      <4> QED BY <1>1, <2>6, <3>1 DEF Fields
    <3>3. p \in D /\ nd[p].next = h /\ p # h
      <4> DEFINE sought == {q \in Nodes(tab) : nd[q].next = h}
                 nx == Links(nd)
      <4>1. sought \in SUBSET D BY <1>4
      <4>2. First(nx, main[nd[h].key], sought, p)
        <5> HIDE DEF sought, h
        <5> QED BY <1>1, <2>4, <4>1, WalkFirst, SMTT(30) DEF sought, h
      <4>3. Graph(nx, D) /\ OnePred(nx) /\ \A n \in D : nx[n] = nd[n].next BY <1>1, LinksGraph, SMTT(30) DEF Shape
      <4>4. Reach(nx, main[nd[h].key], h) BY <1>1, <1>3, <2>3 DEF Shape, Headed
      <4>5. main[nd[h].key] # h /\ main[nd[h].key] \in D BY <1>2, <2>4, <2>5, <2>8
      <4>6. PICK y \in D : nx[y] = h /\ Reach(nx, main[nd[h].key], y)
        <5> HIDE DEF nx, D, h, main
        <5> QED BY <4>3, <4>4, <4>5, ReachPred
      <4>7. y \in sought BY <1>4, <4>3, <4>6
      <4>8. p # NULL
        <5> HIDE DEF p, sought, nx, h, main
        <5> QED BY <4>2, <4>6, <4>7 DEF First
      <4>9. p \in sought
        <5> HIDE DEF p, sought, nx, h, main
        <5> QED BY <4>2, <4>8 DEF First
      <4>10. p \in D /\ nd[p].next = h BY <1>4, <4>9
      <4>11. p # h
        <5> SUFFICES ASSUME p = h PROVE FALSE OBVIOUS
        <5>1. nx[h] = h BY <1>3, <4>3, <4>10
        <5>2. Closed(nx, {x \in D : x # h})
          <6> SUFFICES ASSUME NEW x \in D, x # h, nx[x] # NULL PROVE nx[x] \in D /\ nx[x] # h
            BY DEF Closed
          <6>1. nx[x] \in D BY <4>3 DEF Graph
          <6>2. nx[x] # h
            <7> HIDE DEF nx, h, p
            <7>1. DOMAIN nx = D BY <4>3 DEF Graph
            <7> QED BY <1>3, <4>3, <5>1, <6>1, <7>1 DEF OnePred
          <6> QED BY <6>1, <6>2
        <5>3. {x \in D : x # h} \in SUBSET DOMAIN nx /\ main[nd[h].key] \in {x \in D : x # h}
          BY <4>3, <4>5 DEF Graph
        <5>4. h \in {x \in D : x # h}
          <6> HIDE DEF nx, h, main
          <6> QED BY <4>4, <5>2, <5>3 DEF Reach
        <5> QED BY <5>4
      <4> QED BY <4>10, <4>11
    <3>4. Moved(nd, new, p, h, f, k, v)
      <4> HIDE DEF p, h, f
      <4>1. f # h /\ f # p
        <5>1. nd[f].next = NULL BY <1>1, <2>1 DEF Shape, Unused
        <5> QED BY <1>2, <1>3, <2>1, <2>3, <3>3, <5>1
      <4>2. nd[h] \in NodeOf(D) /\ nd[p] \in NodeOf(D) BY <1>2, <1>3, <3>3
      <4>3. [nd[p] EXCEPT !.next = f] \in NodeOf(D) /\ [nd[p] EXCEPT !.next = f].next = f
            /\ Like([nd[p] EXCEPT !.next = f], nd[p])
        BY <2>1, <4>2 DEF NodeOf, Like
      <4>4. /\ new \in [D -> NodeOf(D)] /\ new[h] = fresh /\ new[f] = nd[h]
            /\ new[p] = [nd[p] EXCEPT !.next = f]
            /\ \A n \in D \ {p, f, h} : new[n] = nd[n]
        BY <1>2, <1>3, <1>6, <2>1, <3>3, <4>1, <4>2, <4>3
      <4> HIDE DEF new
      <4>5. Carries(new[h], k, FALSE, v) /\ new[h].next = NULL BY <1>6, <4>4 DEF Carries
      <4>6. Like(new[f], nd[h]) /\ new[f].next = nd[h].next BY <4>4 DEF Like
      <4>7. Like(new[p], nd[p]) /\ new[p].next = f BY <4>3, <4>4
      <4> QED BY <1>3, <2>1, <3>3, <4>4, <4>5, <4>6, <4>7 DEF Moved
    <3>5. Shape(new, main) /\ Put(nd, new, k, v)
      <4>1. main[nd[h].key] # h BY <2>5, <2>8
      <4> HIDE DEF new, h, main, f, p
      <4> QED BY <1>1, <1>3, <2>1, <2>2, <3>3, <3>4, <4>1, MovedShape
    <3>6. new[f].key # Absent
      <4> HIDE DEF new, h, f, p
      <4> QED BY <2>3, <3>4 DEF Moved, Like
    <3> HIDE DEF new
    <3> QED BY <2>7, <3>2, <3>5, <3>6
  <2>9. CASE o = h
    <3> DEFINE r == [fresh EXCEPT !.next = nd[h].next]
               new == [nd EXCEPT ![f] = r, ![h].next = f]
    <3>1. put = [tab EXCEPT !.lastfree = f, !.node = [@ EXCEPT ![f] = r, ![h].next = f]]
      BY <1>10, <2>9 DEF PutNode, fresh
    <3>2. Fields(put, tab.array, new, f, FALSE, FALSE)
      <4> HIDE DEF h, put, f, r
      <4> QED BY <1>1, <2>6, <3>1 DEF Fields
    <3>3. r \in NodeOf(D) /\ Carries(r, k, FALSE, v) /\ r.next = nd[h].next
      BY <1>5, <1>7 DEF Carries
    <3>4. Linked(nd, new, h, f, k, v)
      <4> HIDE DEF h, f, r
      <4>1. f # h BY <2>1, <2>3
      <4>2. nd[h] \in NodeOf(D) BY <1>2, <1>3
      <4>3. [nd[h] EXCEPT !.next = f] \in NodeOf(D) /\ [nd[h] EXCEPT !.next = f].next = f
            /\ Like([nd[h] EXCEPT !.next = f], nd[h])
        BY <2>1, <4>2 DEF NodeOf, Like
      <4>4. /\ new \in [D -> NodeOf(D)] /\ new[f] = r
            /\ new[h] = [nd[h] EXCEPT !.next = f]
            /\ \A n \in D \ {f, h} : new[n] = nd[n]
        BY <1>2, <1>3, <2>1, <3>3, <4>1, <4>2, <4>3
      <4> HIDE DEF new
      <4>5. Carries(new[f], k, FALSE, v) /\ new[f].next = nd[h].next BY <3>3, <4>4
      <4>6. Like(new[h], nd[h]) /\ new[h].next = f BY <4>3, <4>4
      <4> QED BY <1>3, <2>1, <4>4, <4>5, <4>6 DEF Linked
    <3>5. Shape(new, main) /\ Put(nd, new, k, v)
      <4>1. main[nd[h].key] = h BY <2>5, <2>9
      <4> HIDE DEF new, h, main, f
      <4> QED BY <1>1, <1>3, <2>1, <2>2, <3>4, <4>1, LinkedShape
    <3>6. new[f].key # Absent
      <4>1. k # Absent BY Types
      <4> HIDE DEF new, h, f
      <4> QED BY <3>4, <4>1 DEF Linked, Carries
    <3> HIDE DEF new
    <3> QED BY <2>7, <3>2, <3>5, <3>6
  <2> QED BY <2>8, <2>9
<1> QED BY <1>8, <1>9, <1>10

------------------------------------------------------------------------------
(* Assignments, as the map sees them *)

Assigned(tab, new, k, v) ==
  \A x \in Keys : luaH_get(new, x) = IF x = k THEN v ELSE luaH_get(tab, x)

LEMMA GetType ==
  ASSUME NEW tab, Sound(tab), NEW k \in Keys
  PROVE  luaH_get(tab, k) \in Content
<1>1. CASE InArray(tab, k)
  <2>1. tab.array \in Seq(Content) BY DEF Sound, ArrayOK
  <2>2. k \in 1..Len(tab.array) BY <1>1, Types, <2>1 DEF InArray, sizearray
  <2>3. tab.array[k] \in Content BY <2>1, <2>2
  <2> QED BY <1>1, <2>3 DEF luaH_get
<1>2. CASE ~InArray(tab, k)
  <2>1. Shape(tab.node, Main(tab)) BY DEF Sound
  <2>2. CASE Find(tab, k) = NULL BY <1>2, <2>2, Types DEF luaH_get
  <2>3. CASE Find(tab, k) # NULL
    <3>1. Find(tab, k) \in DOMAIN tab.node BY <2>1, <2>3, FindLives
    <3>2. tab.node[Find(tab, k)].val \in Content BY <2>1, <3>1, NodeTypes
    <3> QED BY <1>2, <2>3, <3>2 DEF luaH_get
  <2> QED BY <2>2, <2>3
<1> QED BY <1>1, <1>2

LEMMA ByHolding ==
  ASSUME NEW a, NEW b, \A w : w # nil => (a = w <=> b = w)
  PROVE  a = b
OBVIOUS

LEMMA AddedGet ==
  ASSUME NEW tab, Sound(tab), NEW k \in Keys, ~InArray(tab, k), ~Lives(tab.node, k),
         NEW v, NEW new, Added(tab, new, k, v)
  PROVE  Assigned(tab, new, k, v)
<1> SUFFICES ASSUME NEW x \in Keys
             PROVE  luaH_get(new, x) = IF x = k THEN v ELSE luaH_get(tab, x)
  BY DEF Assigned
<1>1. new.array = tab.array /\ Put(tab.node, new.node, k, v) BY DEF Added
<1>2. Shape(tab.node, Main(tab)) /\ Shape(new.node, Main(new)) BY DEF Added, Sound
<1>3. InArray(new, x) <=> InArray(tab, x) BY <1>1 DEF InArray, sizearray
<1>4. CASE InArray(tab, x)
  <2>1. x # k BY <1>4
  <2> QED BY <1>1, <1>3, <1>4, <2>1 DEF luaH_get
<1>5. CASE ~InArray(tab, x)
  <2>1. ASSUME NEW w, w # nil
        PROVE  luaH_get(new, x) = w <=> (IF x = k THEN v ELSE luaH_get(tab, x)) = w
    <3>1. luaH_get(new, x) = w <=> Holds(new.node, x, w) BY <1>2, <1>3, <1>5, <2>1, GetHolds
    <3>2. luaH_get(tab, x) = w <=> Holds(tab.node, x, w) BY <1>2, <1>5, <2>1, GetHolds
    <3>3. Holds(new.node, x, w) <=> IF x = k THEN w = v ELSE Holds(tab.node, x, w)
      BY <1>1, <2>1, PutHolds
    <3> QED BY <3>1, <3>2, <3>3
  <2> QED BY <2>1, ByHolding
<1> QED BY <1>4, <1>5

(* Values are changed, and keys marked as dead, in their places. *)
Repainted(nd, new) ==
  /\ new \in [DOMAIN nd -> NodeOf(DOMAIN nd)]
  /\ \A n \in DOMAIN nd :
       /\ new[n].key = nd[n].key /\ new[n].next = nd[n].next
       /\ nd[n].key = Absent => new[n] = nd[n]
       /\ nd[n].dead => new[n].dead
       /\ new[n].dead => new[n].val = nil

LEMMA RepaintedShape ==
  ASSUME NEW nd, NEW main, Shape(nd, main), NEW new, Repainted(nd, new)
  PROVE  Shape(new, main) /\ Links(new) = Links(nd) /\ DOMAIN new = DOMAIN nd
<1> DEFINE D == DOMAIN nd
<1>1. DOMAIN new = D /\ new \in [D -> NodeOf(D)] BY DEF Repainted
<1>2. \A n \in D : /\ new[n].key = nd[n].key /\ new[n].next = nd[n].next
                   /\ nd[n].key = Absent => new[n] = nd[n]
                   /\ nd[n].dead => new[n].dead
                   /\ new[n].dead => new[n].val = nil
  BY DEF Repainted
<1>3. Links(new) = Links(nd) BY <1>1, <1>2 DEF Links
<1>4. /\ main \in [Keys -> D] /\ NULL \notin D /\ Unused(nd) /\ Headed(nd, main) /\ LiveFirst(nd)
      /\ Acyclic(Links(nd)) /\ OnePred(Links(nd))
  BY DEF Shape
<1>5. Unused(new) BY <1>1, <1>2, <1>4 DEF Unused
<1>6. Headed(new, main)
  <2> SUFFICES ASSUME NEW n \in D, nd[n].key # Absent
               PROVE  LET h == main[nd[n].key] IN
                        Reach(Links(nd), h, n) /\ new[h].key # Absent /\ main[new[h].key] = h
    BY <1>1, <1>2, <1>3 DEF Headed
  <2> DEFINE h == main[nd[n].key]
  <2>1. Reach(Links(nd), h, n) /\ nd[h].key # Absent /\ main[nd[h].key] = h BY <1>4 DEF Headed
  <2>2. h \in D
    <3>1. nd[n].key \in Keys BY NodeTypes
    <3> QED BY <1>4, <3>1
  <2> HIDE DEF h
  <2>3. new[h].key = nd[h].key BY <1>2, <2>2
  <2> QED BY <2>1, <2>3 DEF h
<1>7. LiveFirst(new)
  <2>1. \A n \in D : new[n].dead => new[n].val = nil BY <1>2
  <2>2. ASSUME NEW n \in D, NEW m \in D, new[n].key = new[m].key, new[n].key # Absent, ~new[n].dead
        PROVE  Reach(Links(nd), n, m)
    <3>1. nd[n].key = nd[m].key /\ nd[n].key # Absent /\ ~nd[n].dead BY <1>2, <2>2
    <3> QED BY <1>4, <3>1 DEF LiveFirst
  <2> QED BY <1>1, <1>3, <2>1, <2>2 DEF LiveFirst
<1> QED BY <1>1, <1>3, <1>4, <1>5, <1>6, <1>7 DEF Shape

(* A table with other nodes, or another array, of the same sizes *)
LEMMA RepaintedSound ==
  ASSUME NEW tab, Sound(tab), NEW nd, Repainted(tab.node, nd),
         NEW new, Fields(new, tab.array, nd, tab.lastfree, tab.dummy, FALSE)
  PROVE  Sound(new)
<1>1. /\ new.array = tab.array /\ new.node = nd /\ new.lastfree = tab.lastfree
      /\ new.dummy = tab.dummy /\ new.again = FALSE
  BY FieldsOf, ZenonT(40)
<1>2. Shape(tab.node, Main(tab)) BY DEF Sound
<1>3. Shape(nd, Main(tab)) /\ DOMAIN nd = DOMAIN tab.node BY <1>2, RepaintedShape
<1>4. Main(new) = Main(tab) /\ sizenode(new) = sizenode(tab) BY <1>1, <1>3, SameMain
<1>5. \A n \in DOMAIN tab.node : nd[n].key = tab.node[n].key BY DEF Repainted
<1>6. Fields(new, new.array, new.node, new.lastfree, new.dummy, new.again) BY <1>1
<1>7. ArrayOK(new) /\ Sized(new.node) BY <1>1, <1>3 DEF Sound, ArrayOK, Sized
<1>8. FreeOK(new)
  <2>1. FreeOK(tab) BY DEF Sound
  <2>2. Nodes(new) = DOMAIN tab.node /\ Nodes(tab) = DOMAIN tab.node BY <1>1, <1>3 DEF Nodes
  <2>3. \A n \in DOMAIN tab.node : n >= tab.lastfree => tab.dummy \/ nd[n].key # Absent
    BY <1>5, <2>1, <2>2 DEF FreeOK
  <2>4. tab.dummy => DOMAIN tab.node = {0} /\ nd[0].key = Absent /\ tab.lastfree = 0
    BY <1>5, <2>1, <2>2 DEF FreeOK
  <2> QED BY <1>1, <1>4, <2>1, <2>2, <2>3, <2>4 DEF FreeOK
<1>9. Apart(new)
  <2> SUFFICES ASSUME NEW x \in Keys, Lives(nd, x) PROVE ~InArray(tab, x)
    BY <1>1 DEF Apart, InArray, sizearray
  <2>1. PICK n \in DOMAIN tab.node : nd[n].key = x /\ ~nd[n].dead BY <1>3 DEF Lives
  <2>2. tab.node[n].key = x /\ ~tab.node[n].dead BY <2>1 DEF Repainted
  <2>3. Lives(tab.node, x) BY <2>2 DEF Lives
  <2> QED BY <2>3 DEF Sound, Apart
<1> QED BY <1>1, <1>3, <1>4, <1>6, <1>7, <1>8, <1>9 DEF Sound

LEMMA ArraySound ==
  ASSUME NEW tab, Sound(tab), NEW a \in Seq(Content), Len(a) = Len(tab.array),
         \A i \in 1..Len(a) : i \notin Keys => a[i] = nil,
         NEW new, Fields(new, a, tab.node, tab.lastfree, tab.dummy, FALSE)
  PROVE  Sound(new)
<1>1. /\ new.array = a /\ new.node = tab.node /\ new.lastfree = tab.lastfree
      /\ new.dummy = tab.dummy /\ new.again = FALSE
  BY FieldsOf, ZenonT(40)
<1>2. Main(new) = Main(tab) /\ sizenode(new) = sizenode(tab) BY <1>1, SameMain
<1>3. Fields(new, new.array, new.node, new.lastfree, new.dummy, new.again) BY <1>1
<1>4. ArrayOK(new) /\ Sized(new.node) BY <1>1 DEF Sound, ArrayOK
<1>5. FreeOK(new) BY <1>1, <1>2 DEF Sound, FreeOK, Nodes
<1>6. Apart(new) BY <1>1 DEF Sound, Apart, InArray, sizearray
<1> QED BY <1>1, <1>2, <1>3, <1>4, <1>5, <1>6 DEF Sound

(* An assignment to a key that is there *)
Written(tab, new, v) ==
  /\ Len(new.array) = Len(tab.array) /\ new.dummy = tab.dummy
  /\ Repainted(tab.node, new.node)
  /\ \A n \in DOMAIN tab.node : new.node[n].dead = tab.node[n].dead
                                /\ new.node[n].val \in {tab.node[n].val, v}

LEMMA RepaintedSelf ==
  ASSUME NEW nd, NEW main, Shape(nd, main) PROVE Repainted(nd, nd)
BY DEF Shape, LiveFirst, Repainted

LEMMA OverwriteOK ==
  ASSUME NEW tab, Sound(tab), NEW k \in Keys, NEW v \in Content, Present(tab, k)
  PROVE  LET new == Overwrite(tab, k, v) IN
           Sound(new) /\ Assigned(tab, new, k, v) /\ Written(tab, new, v)
<1> DEFINE new == Overwrite(tab, k, v)
           nd == tab.node
           D == DOMAIN nd
<1>1. /\ Fields(tab, tab.array, nd, tab.lastfree, tab.dummy, FALSE) /\ Shape(nd, Main(tab))
      /\ ArrayOK(tab)
  BY DEF Sound
<1>2. CASE InArray(tab, k)
  <2> DEFINE a == [tab.array EXCEPT ![k] = v]
  <2>1. new = [tab EXCEPT !.array[k] = v] BY <1>2 DEF Overwrite
  <2>2. Fields(new, a, nd, tab.lastfree, tab.dummy, FALSE)
    <3> HIDE DEF new
    <3> QED BY <1>1, <2>1 DEF Fields
  <2>3. tab.array \in Seq(Content) /\ k \in 1..Len(tab.array)
    <3>1. tab.array \in Seq(Content) BY <1>1 DEF ArrayOK
    <3> QED BY <1>2, <3>1, Types DEF InArray, sizearray
  <2>4. /\ a \in Seq(Content) /\ Len(a) = Len(tab.array) /\ a[k] = v
        /\ \A i \in 1..Len(tab.array) : i # k => a[i] = tab.array[i]
    BY <2>3
  <2> HIDE DEF a, new
  <2>5. new.array = a /\ new.node = nd /\ new.dummy = tab.dummy BY <2>2, FieldsOf
  <2>6. \A i \in 1..Len(a) : i \notin Keys => a[i] = nil BY <1>1, <2>4 DEF ArrayOK
  <2>7. Sound(new) BY <2>2, <2>4, <2>6, ArraySound
  <2>8. Written(tab, new, v) BY <1>1, <2>4, <2>5, RepaintedSelf DEF Written
  <2>9. Assigned(tab, new, k, v)
    <3> SUFFICES ASSUME NEW x \in Keys
                 PROVE  luaH_get(new, x) = IF x = k THEN v ELSE luaH_get(tab, x)
      BY DEF Assigned
    <3>1. InArray(new, x) <=> InArray(tab, x) BY <2>4, <2>5 DEF InArray, sizearray
    <3>2. CASE InArray(tab, x)
      <4>1. x \in 1..Len(tab.array)
        <5>1. x \in Nat BY <3>2, Types DEF InArray
        <5> QED BY <2>3, <3>2, <5>1, Types DEF InArray, sizearray
      <4> QED BY <2>4, <2>5, <3>1, <3>2, <4>1 DEF luaH_get
    <3>3. CASE ~InArray(tab, x)
      <4>1. x # k BY <1>2, <3>3
      <4>2. Shape(new.node, Main(new)) BY <2>7 DEF Sound
      <4>3. ASSUME NEW w, w # nil PROVE luaH_get(new, x) = w <=> luaH_get(tab, x) = w
        BY <1>1, <2>5, <3>1, <3>3, <4>2, <4>3, GetHolds
      <4> QED BY <4>1, <4>3, ByHolding
    <3> QED BY <3>2, <3>3
  <2> QED BY <2>7, <2>8, <2>9 DEF new
<1>3. CASE ~InArray(tab, k)
  <2> DEFINE h == Find(tab, k)
             r == [nd[h] EXCEPT !.val = v]
             new2 == [nd EXCEPT ![h].val = v]
  <2>1. h \in D /\ nd[h].key = k /\ ~nd[h].dead
    <3>1. Find(tab, k) # NULL BY <1>3 DEF Present
    <3> QED BY <1>1, <3>1, FindLives
  <2>2. new = [tab EXCEPT !.node[h].val = v] BY <1>3 DEF Overwrite
  <2>3. Fields(new, tab.array, new2, tab.lastfree, tab.dummy, FALSE)
    <3> HIDE DEF new, h
    <3> QED BY <1>1, <2>2 DEF Fields
  <2>4. nd[h] \in NodeOf(D) /\ nd \in [D -> NodeOf(D)]
    <3> HIDE DEF h
    <3> QED BY <1>1, <2>1, NodeTypes DEF Shape
  <2> HIDE DEF h, new
  <2>5. r \in NodeOf(D) /\ r.key = k /\ r.dead = FALSE /\ r.val = v /\ r.next = nd[h].next
    BY <2>1, <2>4 DEF NodeOf
  <2>6. new2 \in [D -> NodeOf(D)] /\ new2[h] = r /\ \A n \in D : n # h => new2[n] = nd[n]
    <3> HIDE DEF D
    <3> QED BY <2>1, <2>4, <2>5
  <2> HIDE DEF new2, r
  <2>7. k # Absent BY Types
  <2>8. Repainted(nd, new2)
    <3>1. \A n \in D : nd[n].dead => nd[n].val = nil BY <1>1 DEF Shape, LiveFirst
    <3>2. \A n \in D : /\ new2[n].key = nd[n].key /\ new2[n].next = nd[n].next
                       /\ nd[n].key = Absent => new2[n] = nd[n]
                       /\ nd[n].dead => new2[n].dead
                       /\ new2[n].dead => new2[n].val = nil
      BY <2>1, <2>5, <2>6, <2>7, <3>1
    <3> QED BY <2>6, <3>2 DEF Repainted
  <2>9. new.array = tab.array /\ new.node = new2 /\ new.dummy = tab.dummy BY <2>3, FieldsOf
  <2>10. Sound(new) BY <2>3, <2>8, RepaintedSound
  <2>11. Written(tab, new, v)
    <3>1. \A n \in D : new2[n].dead = nd[n].dead /\ new2[n].val \in {nd[n].val, v}
      <4> TAKE n \in D
      <4>1. CASE n = h
        <5>1. nd[h].dead = FALSE BY <1>1, <2>1, NodeTypes
        <5> QED BY <2>5, <2>6, <4>1, <5>1
      <4>2. CASE n # h BY <2>6, <4>2
      <4> QED BY <4>1, <4>2
    <3> QED BY <2>8, <2>9, <3>1 DEF Written
  <2>12. Assigned(tab, new, k, v)
    <3> SUFFICES ASSUME NEW x \in Keys
                 PROVE  luaH_get(new, x) = IF x = k THEN v ELSE luaH_get(tab, x)
      BY DEF Assigned
    <3>1. InArray(new, x) <=> InArray(tab, x) BY <2>9 DEF InArray, sizearray
    <3>2. CASE InArray(tab, x)
      <4>1. x # k BY <1>3, <3>2
      <4> QED BY <2>9, <3>1, <3>2, <4>1 DEF luaH_get
    <3>3. CASE ~InArray(tab, x)
      <4>1. Shape(new2, Main(new)) BY <2>9, <2>10 DEF Sound
      <4>2. ASSUME NEW n \in D, nd[n].key = k, ~nd[n].dead PROVE n = h
        BY <1>1, <2>7, <4>2, FindLive DEF h
      <4>3. DOMAIN new2 = D BY <2>6
      <4>4. ASSUME NEW w, w # nil
            PROVE  luaH_get(new, x) = w <=> (IF x = k THEN v ELSE luaH_get(tab, x)) = w
        <5>1. luaH_get(new, x) = w <=> Holds(new2, x, w) BY <2>9, <3>1, <3>3, <4>1, <4>4, GetHolds
        <5>2. luaH_get(tab, x) = w <=> Holds(nd, x, w) BY <1>1, <3>3, <4>4, GetHolds
        <5>3. CASE x = k
          <6>1. Holds(new2, x, w) <=> w = v
            BY <2>1, <2>5, <2>6, <4>2, <4>3, <5>3 DEF Holds
          <6> QED BY <5>1, <5>3, <6>1
        <5>4. CASE x # k
          <6>1. Holds(new2, x, w) <=> Holds(nd, x, w)
            BY <2>1, <2>5, <2>6, <4>3, <5>4 DEF Holds
          <6> QED BY <5>1, <5>2, <5>4, <6>1
        <5> QED BY <5>3, <5>4
      <4> QED BY <4>4, ByHolding
    <3> QED BY <3>2, <3>3
  <2> QED BY <2>10, <2>11, <2>12 DEF new
<1> QED BY <1>2, <1>3

------------------------------------------------------------------------------
(* There is room for K *)

Within(nd, K) ==
  \A n \in DOMAIN nd : nd[n].key # Absent =>
    nd[n].key \in K /\ nd[n].dead = FALSE /\ nd[n].val # nil

LEMMA Room ==
  ASSUME NEW tab, Sound(tab), NEW K \in SUBSET Keys, IsFiniteSet(K),
         Cardinality(K) <= sizenode(tab), Within(tab.node, K), ~tab.dummy,
         NEW k \in K, ~Lives(tab.node, k)
  PROVE  ~Full(tab)
<1> SUFFICES ASSUME Full(tab) PROVE FALSE OBVIOUS
<1> DEFINE D == DOMAIN tab.node
           T == K \ {k}
           f == [n \in D |-> tab.node[n].key]
<1>1. Shape(tab.node, Main(tab)) BY DEF Sound
<1>2. \A n \in D : tab.node[n].key # Absent BY DEF Full, Nodes
<1>3. \A n \in D : tab.node[n].key \in K /\ ~tab.node[n].dead BY <1>2 DEF Within
<1>4. \A n \in D : tab.node[n].key \in T BY <1>3 DEF Lives
<1>5. ASSUME NEW n \in D, NEW m \in D, tab.node[n].key = tab.node[m].key PROVE n = m
  <2>1. Find(tab, tab.node[n].key) = n /\ Find(tab, tab.node[m].key) = m
    BY <1>1, <1>2, <1>3, FindLive
  <2> QED BY <1>5, <2>1
<1>6. f \in [D -> T] BY <1>4
<1>7. IsInjective(f) BY <1>5 DEF IsInjective
<1>8. f \in Injection(D, T) BY <1>6, <1>7 DEF Injection
<1>9. IsFiniteSet(T) /\ Cardinality(T) = Cardinality(K) - 1 BY FS_RemoveElement
<1>10. Cardinality(D) <= Cardinality(T)
  <2> HIDE DEF f, T, D
  <2> QED BY <1>8, <1>9, FS_Injection
<1>11. Cardinality(D) = sizenode(tab) BY DEF sizenode, Nodes
<1>12. sizenode(tab) \in Nat
  <2>1. PICK N \in Nat \ {0} : DOMAIN tab.node = 0..(N - 1) BY DEF Sound, Sized
  <2> QED BY <2>1, SizedSize DEF sizenode, Nodes
<1>13. Cardinality(K) \in Nat BY FS_CardinalityType
<1> HIDE DEF D, T
<1> QED BY <1>9, <1>10, <1>11, <1>12, <1>13

LEMMA PutWithin ==
  ASSUME NEW nd, NEW new, NEW K, NEW k \in K, NEW v, v # nil, Put(nd, new, k, v), Within(nd, K)
  PROVE  Within(new, K)
<1> SUFFICES ASSUME NEW n \in DOMAIN new, new[n].key # Absent
             PROVE  new[n].key \in K /\ new[n].dead = FALSE /\ new[n].val # nil
  BY DEF Within
<1>1. Carries(new[n], k, FALSE, v) \/ \E m \in DOMAIN nd : Like(new[n], nd[m]) BY DEF Put
<1>2. CASE Carries(new[n], k, FALSE, v) BY <1>2 DEF Carries
<1>3. CASE \E m \in DOMAIN nd : Like(new[n], nd[m])
  <2>1. PICK m \in DOMAIN nd : Like(new[n], nd[m]) BY <1>3
  <2>2. nd[m].key # Absent BY <2>1 DEF Like
  <2> QED BY <2>1, <2>2 DEF Like, Within
<1> QED BY <1>1, <1>2, <1>3

------------------------------------------------------------------------------
(* Folds: the elements are taken one after the other. *)

LEMMA TopOf ==
  ASSUME NEW c \in Nat, NEW s \in SUBSET (1..(c + 1))
  PROVE  /\ c + 1 \in s => Max(s) = c + 1 /\ s \ {c + 1} \in SUBSET (1..c)
         /\ c + 1 \notin s => s \in SUBSET (1..c)
         /\ s # {} => Max(s) \in s
<1>1. ASSUME c + 1 \in s PROVE Max(s) = c + 1
  <2>1. s \in SUBSET (0..(c + 1)) /\ s # {} /\ c + 1 \in Nat BY <1>1
  <2>2. Max(s) \in s /\ \A m \in s : m <= Max(s) BY <2>1, GreatestIs
  <2>3. Max(s) \in 1..(c + 1) /\ c + 1 <= Max(s) BY <1>1, <2>2
  <2> HIDE DEF Max
  <2> QED BY <2>3
<1>2. ASSUME NEW x \in s, x # c + 1 PROVE x \in 1..c
  <2>1. x \in 1..(c + 1) OBVIOUS
  <2> QED BY <1>2, <2>1
<1>3. ASSUME s # {} PROVE Max(s) \in s
  <2>1. s \in SUBSET (0..(c + 1)) /\ c + 1 \in Nat OBVIOUS
  <2> QED BY <1>3, <2>1, GreatestIs
<1> QED BY <1>1, <1>2, <1>3

LEMMA FirstOnes ==
  ASSUME NEW m \in Nat, NEW i \in Nat, i < m
  PROVE  /\ 1..(i + 1) \in SUBSET (1..m) /\ 1..(i + 1) # {}
         /\ Max(1..(i + 1)) = i + 1 /\ (1..(i + 1)) \ {i + 1} = 1..i
<1>1. i + 1 \in 1..(i + 1) /\ 1..(i + 1) \in SUBSET (1..(i + 1)) OBVIOUS
<1>2. Max(1..(i + 1)) = i + 1 BY <1>1, TopOf
<1>3. (1..(i + 1)) \ {i + 1} = 1..i OBVIOUS
<1>4. 1..(i + 1) \in SUBSET (1..m) OBVIOUS
<1> QED BY <1>1, <1>2, <1>3, <1>4

MovesTo(r, base, es, m) ==
  /\ r[0] = base /\ FoldLeft(MoveElement, base, es) = r[m]
  /\ \A i \in Nat : i < m => r[i + 1] = MoveElement(r[i], es[i + 1])

LEMMA FoldMove ==
  ASSUME NEW base, NEW m \in Nat, NEW es, DOMAIN es = 1..m
  PROVE  \E r : MovesTo(r, base, es, m)
<1> DEFINE Step(it, s) == MoveElement(it[s \ {Max(s)}], es[Max(s)])
           E(it, c) == it = [s \in SUBSET (1..c) |-> IF s = {} THEN base ELSE Step(it, s)]
           S == {c \in Nat : \E it : E(it, c)}
<1>1. 0 \in S
  <2> DEFINE it == [s \in SUBSET (1..0) |-> base]
  <2>1. \A s \in SUBSET (1..0) : s = {} OBVIOUS
  <2> HIDE DEF Step
  <2>2. E(it, 0) BY <2>1
  <2> HIDE DEF E
  <2> QED BY <2>2
<1>2. ASSUME NEW c \in Nat, c \in S PROVE c + 1 \in S
  <2>1. PICK it : E(it, c) BY <1>2
  <2> DEFINE T == SUBSET (1..c)
             U == SUBSET (1..(c + 1))
             new == [s \in U |-> IF c + 1 \in s THEN MoveElement(it[s \ {c + 1}], es[c + 1])
                                 ELSE it[s]]
  <2>2. \A s \in T : it[s] = IF s = {} THEN base ELSE MoveElement(it[s \ {Max(s)}], es[Max(s)])
    BY <2>1
  <2>3. ASSUME NEW s \in U
        PROVE  new[s] = IF s = {} THEN base ELSE MoveElement(new[s \ {Max(s)}], es[Max(s)])
    <3>1. CASE c + 1 \in s
      <4>1. Max(s) = c + 1 /\ s \ {c + 1} \in U BY <3>1, TopOf
      <4>2. new[s] = MoveElement(it[s \ {c + 1}], es[c + 1]) BY <3>1
      <4>3. new[s \ {c + 1}] = it[s \ {c + 1}] BY <4>1
      <4> HIDE DEF new
      <4> QED BY <3>1, <4>1, <4>2, <4>3
    <3>2. CASE c + 1 \notin s
      <4>1. s \in T /\ (s # {} => Max(s) \in s) BY <3>2, TopOf
      <4>2. new[s] = it[s] /\ new[s \ {Max(s)}] = it[s \ {Max(s)}] BY <3>2, <4>1
      <4> HIDE DEF new
      <4> QED BY <2>2, <4>1, <4>2
    <3> QED BY <3>1, <3>2
  <2>4. new = [s \in U |-> new[s]] OBVIOUS
  <2> HIDE DEF new
  <2>5. new = [s \in U |-> IF s = {} THEN base ELSE MoveElement(new[s \ {Max(s)}], es[Max(s)])]
    BY <2>3, <2>4
  <2>6. E(new, c + 1) BY <2>5
  <2> HIDE DEF E
  <2> QED BY <2>6
<1>3. m \in S
  <2> HIDE DEF S
  <2>1. \A i \in Nat : i < m /\ i \in S => i + 1 \in S BY <1>2
  <2>2. \A i \in 0..m : i \in S BY <1>1, <2>1, Rising
  <2> QED BY <2>2
<1> DEFINE fold == CHOOSE it : E(it, m)
           r == [i \in 0..m |-> fold[1..i]]
<1>4. E(fold, m)
  <2> HIDE DEF E
  <2> QED BY <1>3
<1>5. FoldLeft(MoveElement, base, es) = fold[1..m] BY DEF FoldLeft, MapThenFoldSet
<1> HIDE DEF fold
<1>6. \A s \in SUBSET (1..m) :
        fold[s] = IF s = {} THEN base ELSE MoveElement(fold[s \ {Max(s)}], es[Max(s)])
  BY <1>4
<1>7. r[0] = base /\ r[m] = fold[1..m]
  <2>1. 1..0 = {} OBVIOUS
  <2>2. fold[{}] = base BY <1>6
  <2> QED BY <2>1, <2>2
<1>8. ASSUME NEW i \in Nat, i < m PROVE r[i + 1] = MoveElement(r[i], es[i + 1])
  <2>1. /\ 1..(i + 1) \in SUBSET (1..m) /\ 1..(i + 1) # {}
        /\ Max(1..(i + 1)) = i + 1 /\ (1..(i + 1)) \ {i + 1} = 1..i
    BY <1>8, FirstOnes
  <2>2. r[i + 1] = fold[1..(i + 1)] /\ r[i] = fold[1..i] BY <1>8
  <2> HIDE DEF r
  <2> QED BY <1>6, <2>1, <2>2
<1> HIDE DEF r
<1> QED BY <1>5, <1>7, <1>8 DEF MovesTo

------------------------------------------------------------------------------
(* Powers of 2 *)

LEMMA Doubles ==
  /\ 2 ^ 0 = 1
  /\ \A k \in Nat : 2 ^ k \in Nat /\ 2 ^ (k + 1) = 2 * 2 ^ k
<1>1. 2 ^ 0 = 1
  <2>1. Cardinality(SUBSET {}) = 2 ^ Cardinality({}) BY FS_EmptySet, FS_SUBSET
  <2>2. Cardinality({{}}) = 1
    <3>1. Cardinality({} \cup {{}}) = Cardinality({}) + 1 BY FS_EmptySet, FS_AddElement
    <3>2. {} \cup {{}} = {{}} OBVIOUS
    <3> QED BY <3>1, <3>2, FS_EmptySet
  <2>3. SUBSET {} = {{}} OBVIOUS
  <2> QED BY <2>1, <2>2, <2>3, FS_EmptySet
<1>2. \A k \in Nat : IsFiniteSet(SUBSET (1..k)) /\ Cardinality(SUBSET (1..k)) = 2 ^ k
  <2> SUFFICES ASSUME NEW k \in Nat
      PROVE  IsFiniteSet(SUBSET (1..k)) /\ Cardinality(SUBSET (1..k)) = 2 ^ k
    OBVIOUS
  <2>1. IsFiniteSet(1..k) /\ Cardinality(1..k) = k
    <3>1. 1 \in Int /\ k \in Int OBVIOUS
    <3>2. IsFiniteSet(1..k) /\ Cardinality(1..k) = IF 1 > k THEN 0 ELSE k - 1 + 1
      BY <3>1, FS_Interval
    <3> QED BY <3>2
  <2> QED BY <2>1, FS_SUBSET
<1>3. ASSUME NEW k \in Nat PROVE 2 ^ k \in Nat /\ 2 ^ (k + 1) = 2 * 2 ^ k
  <2> DEFINE old == SUBSET (1..k)
             new == {s \cup {k + 1} : s \in old}
             f == [s \in old |-> s \cup {k + 1}]
  <2>1. IsFiniteSet(old) /\ Cardinality(old) = 2 ^ k BY <1>2
  <2>2. f \in Bijection(old, new)
    <3>1. f \in [old -> new] OBVIOUS
    <3>2. \A x, y \in old : f[x] = f[y] => x = y
      <4> SUFFICES ASSUME NEW x \in old, NEW y \in old, f[x] = f[y] PROVE x = y OBVIOUS
      <4>1. x \cup {k + 1} = y \cup {k + 1} OBVIOUS
      <4>2. k + 1 \notin x /\ k + 1 \notin y OBVIOUS
      <4> QED BY <4>1, <4>2
    <3>3. \A z \in new : \E x \in old : f[x] = z OBVIOUS
    <3> QED BY <3>1, <3>2, <3>3 DEF Bijection, Injection, Surjection, IsInjective
  <2>3. IsFiniteSet(new) /\ Cardinality(new) = 2 ^ k
    BY <2>1, <2>2, FS_Bijection DEF ExistsBijection
  <2>4. SUBSET (1..k + 1) = old \cup new
    <3>1. \A s \in SUBSET (1..k + 1) : s \in old \cup new
      <4> SUFFICES ASSUME NEW s \in SUBSET (1..k + 1) PROVE s \in old \cup new OBVIOUS
      <4>1. s \ {k + 1} \in old OBVIOUS
      <4>2. CASE k + 1 \in s
        <5>1. s = (s \ {k + 1}) \cup {k + 1} BY <4>2
        <5> QED BY <4>1, <5>1
      <4>3. CASE k + 1 \notin s BY <4>1, <4>3
      <4> QED BY <4>2, <4>3
    <3>2. \A s \in old \cup new : s \in SUBSET (1..k + 1) OBVIOUS
    <3> QED BY <3>1, <3>2
  <2>5. old \cap new = {}
    <3>1. \A s \in new : k + 1 \in s OBVIOUS
    <3>2. \A s \in old : k + 1 \notin s OBVIOUS
    <3> QED BY <3>1, <3>2
  <2>6. 2 ^ k \in Nat BY <2>1, FS_CardinalityType
  <2>7. Cardinality(SUBSET (1..k + 1)) = 2 ^ (k + 1)
    <3>1. k + 1 \in Nat OBVIOUS
    <3> QED BY <1>2, <3>1, Zenon
  <2> HIDE DEF old, new, f
  <2>8. Cardinality(old \cup new) = 2 ^ k + 2 ^ k - Cardinality({})
    BY <2>1, <2>3, <2>5, FS_Union
  <2>9. Cardinality({}) = 0 BY FS_EmptySet
  <2>10. 2 ^ (k + 1) = 2 ^ k + 2 ^ k - 0 BY <2>4, <2>7, <2>8, <2>9, Zenon
  <2>11. \A p \in Nat : p + p - 0 = 2 * p OBVIOUS
  <2> QED BY <2>6, <2>10, <2>11, Zenon
<1> QED BY <1>1, <1>3

LEMMA Exceeds == \A k \in Nat : k < 2 ^ k
<1> SUFFICES ASSUME NEW b \in Nat PROVE b < 2 ^ b OBVIOUS
<1> DEFINE S == {k \in Nat : k < 2 ^ k}
<1>1. 0 \in S BY Doubles
<1>2. ASSUME NEW k \in Nat, k \in S PROVE k + 1 \in S
  <2> DEFINE p == 2 ^ k
             q == 2 ^ (k + 1)
  <2>1. p \in Nat /\ q = 2 * p BY Doubles
  <2>2. k < p BY <1>2
  <2> HIDE DEF p, q
  <2>3. k + 1 < q BY <2>1, <2>2
  <2> QED BY <2>3 DEF q
<1>3. b \in S
  <2> HIDE DEF S
  <2>1. \A i \in Nat : i < b /\ i \in S => i + 1 \in S BY <1>2
  <2>2. \A i \in 0..b : i \in S BY <1>1, <2>1, Rising
  <2> QED BY <2>2
<1> QED BY <1>3

LEMMA Rises == ASSUME NEW a \in Nat, NEW b \in Nat, a <= b PROVE 2 ^ a <= 2 ^ b
<1> DEFINE S == {d \in Nat : 2 ^ a <= 2 ^ (a + d)}
<1>1. 0 \in S
  <2>1. a + 0 = a /\ 2 ^ a \in Nat BY Doubles
  <2>2. 2 ^ a <= 2 ^ (a + 0) BY <2>1
  <2> QED BY <2>2
<1>2. ASSUME NEW d \in Nat, d \in S PROVE d + 1 \in S
  <2> DEFINE p == 2 ^ a
             q == 2 ^ (a + d)
             r == 2 ^ ((a + d) + 1)
  <2>1. p \in Nat /\ q \in Nat /\ r = 2 * q BY Doubles
  <2>2. p <= q BY <1>2
  <2>3. (a + d) + 1 = a + (d + 1) OBVIOUS
  <2> HIDE DEF p, q, r
  <2>4. p <= r BY <2>1, <2>2
  <2>5. 2 ^ a <= 2 ^ (a + (d + 1)) BY <2>3, <2>4 DEF p, r
  <2> QED BY <2>5
<1>3. b - a \in S
  <2> HIDE DEF S
  <2>1. \A i \in Nat : i < b - a /\ i \in S => i + 1 \in S BY <1>2
  <2>2. b - a \in Nat OBVIOUS
  <2>3. \A i \in 0..(b - a) : i \in S BY <1>1, <2>1, <2>2, Rising
  <2> QED BY <2>2, <2>3
<1>4. a + (b - a) = b OBVIOUS
<1> QED BY <1>3, <1>4

LEMMA Log2 ==
  ASSUME NEW x \in Nat
  PROVE  /\ ceillog2(x) \in 0..x /\ x <= 2 ^ ceillog2(x)
         /\ ceillog2(x) = 0 \/ 2 ^ (ceillog2(x) - 1) < x
<1> DEFINE T == {n \in 0..x : x <= 2 ^ n}
           c == Min(T)
<1>1. T \in SUBSET Nat OBVIOUS
<1>2. T # {}
  <2>1. x < 2 ^ x /\ 2 ^ x \in Nat BY Exceeds, Doubles
  <2>2. x <= 2 ^ x
    <3> DEFINE p == 2 ^ x
    <3>1. x < p /\ p \in Nat BY <2>1
    <3> HIDE DEF p
    <3>2. x <= p BY <3>1
    <3> QED BY <3>2 DEF p
  <2>3. x \in T BY <2>2
  <2> QED BY <2>3
<1>3. c \in T /\ \A y \in T : c <= y
  <2> HIDE DEF T
  <2> QED BY <1>1, <1>2, LeastIs
<1>4. c \in 0..x /\ x <= 2 ^ c BY <1>3
<1> HIDE DEF c
<1>5. c = 0 \/ 2 ^ (c - 1) < x
  <2> SUFFICES ASSUME c # 0, ~(2 ^ (c - 1) < x) PROVE FALSE OBVIOUS
  <2>1. c - 1 \in 0..x /\ c - 1 < c BY <1>4
  <2>2. 2 ^ (c - 1) \in Nat
    <3>1. c - 1 \in Nat BY <2>1
    <3> QED BY <3>1, Doubles
  <2>3. x <= 2 ^ (c - 1)
    <3> DEFINE p == 2 ^ (c - 1)
    <3>1. ~(p < x) /\ p \in Nat BY <2>2
    <3> HIDE DEF p
    <3>2. x <= p BY <3>1
    <3> QED BY <3>2 DEF p
  <2>4. c - 1 \in T BY <2>1, <2>3
  <2>5. c <= c - 1 BY <1>3, <2>4
  <2> QED BY <1>4, <2>5
<1> DEFINE P(n) == 2 ^ n >= x /\ (n = 0 \/ 2 ^ (n - 1) < x)
           l == CHOOSE n \in 0..x : P(n)
<1>6. P(c)
  <2>1. 2 ^ c \in Nat
    <3>1. c \in Nat BY <1>4
    <3> QED BY <3>1, Doubles
  <2> DEFINE p == 2 ^ c
  <2>2. x <= p /\ p \in Nat BY <1>4, <2>1
  <2> HIDE DEF p
  <2>3. p >= x BY <2>2
  <2>4. 2 ^ c >= x BY <2>3 DEF p
  <2> QED BY <1>5, <2>4
<1>7. l \in 0..x /\ P(l)
  <2> HIDE DEF P
  <2> QED BY <1>4, <1>6
<1>8. ceillog2(x) = l BY DEF ceillog2
<1> HIDE DEF l
<1>9. x <= 2 ^ l
  <2>1. 2 ^ l \in Nat /\ 2 ^ l >= x
    <3>1. l \in Nat BY <1>7
    <3> QED BY <1>7, <3>1, Doubles
  <2> DEFINE p == 2 ^ l
  <2>2. p >= x /\ p \in Nat BY <2>1
  <2> HIDE DEF p
  <2>3. x <= p BY <2>2
  <2> QED BY <2>3 DEF p
<1> QED BY <1>7, <1>8, <1>9

------------------------------------------------------------------------------
(* The rebuilt table: n elements in the array, and a hash part for the keys of K *)

Staged(tab, K, n, N, d) ==
  /\ Sound(tab) /\ Len(tab.array) = n /\ sizenode(tab) = N /\ tab.dummy = d
  /\ Within(tab.node, K)

HasRoom(K, N, d) ==
  K \in SUBSET Keys /\ IsFiniteSet(K) /\ Cardinality(K) <= N /\ (K # {} => d = FALSE)

LEMMA ReinsertOK ==
  ASSUME NEW tab, NEW K, NEW n, NEW N, NEW d, Staged(tab, K, n, N, d), HasRoom(K, N, d),
         NEW k \in Keys, NEW v \in Content, k \in 1..n \/ k \in K
  PROVE  LET new == Reinsert(tab, k, v) IN
           Sound(new) /\ Assigned(tab, new, k, v) /\ (v # nil => Staged(new, K, n, N, d))
<1> DEFINE new == Reinsert(tab, k, v)
<1>1. /\ Sound(tab) /\ Len(tab.array) = n /\ sizenode(tab) = N /\ tab.dummy = d
      /\ Within(tab.node, K)
  BY DEF Staged
<1>2. Shape(tab.node, Main(tab)) BY <1>1 DEF Sound
<1>3. CASE Present(tab, k)
  <2>1. new = Overwrite(tab, k, v) BY <1>3 DEF Reinsert
  <2>2. Sound(new) /\ Assigned(tab, new, k, v) /\ Written(tab, new, v)
    <3> HIDE DEF new
    <3> QED BY <1>1, <1>3, <2>1, OverwriteOK
  <2> HIDE DEF new
  <2>3. Len(new.array) = n /\ new.dummy = d BY <1>1, <2>2 DEF Written
  <2>4. DOMAIN new.node = DOMAIN tab.node BY <2>2 DEF Written, Repainted
  <2>5. sizenode(new) = N BY <1>1, <2>4 DEF sizenode, Nodes
  <2>6. ASSUME v # nil PROVE Within(new.node, K)
    <3> SUFFICES ASSUME NEW m \in DOMAIN tab.node, new.node[m].key # Absent
                 PROVE  new.node[m].key \in K /\ new.node[m].dead = FALSE /\ new.node[m].val # nil
      BY <2>4 DEF Within
    <3>1. new.node[m].key = tab.node[m].key BY <2>2 DEF Written, Repainted
    <3>2. new.node[m].dead = tab.node[m].dead /\ new.node[m].val \in {tab.node[m].val, v}
      BY <2>2 DEF Written
    <3>3. tab.node[m].key \in K /\ tab.node[m].dead = FALSE /\ tab.node[m].val # nil
      BY <1>1, <3>1 DEF Within
    <3> QED BY <2>6, <3>1, <3>2, <3>3
  <2> QED BY <2>2, <2>3, <2>5, <2>6 DEF Staged, new
<1>4. CASE ~Present(tab, k)
  <2>1. new = PutNode(tab, k, v) BY <1>4 DEF Reinsert
  <2>2. ~InArray(tab, k) /\ ~Lives(tab.node, k) BY <1>2, <1>4, FindLives DEF Present
  <2>3. k \in K
    <3>1. CASE k \in 1..n
      <4>1. k \in Indices BY <3>1 DEF Indices, Numbers
      <4>2. tab.array \in Seq(Content) BY <1>1 DEF Sound, ArrayOK
      <4>3. n \in Nat BY <1>1, <4>2
      <4> QED BY <1>1, <2>2, <3>1, <4>1, <4>3 DEF InArray, sizearray
    <3> QED BY <3>1
  <2>4. ~Full(tab)
    <3>1. K \in SUBSET Keys /\ IsFiniteSet(K) /\ Cardinality(K) <= sizenode(tab) /\ ~tab.dummy
      BY <1>1, <2>3 DEF HasRoom
    <3> QED BY <1>1, <2>2, <2>3, <3>1, Room
  <2>5. Added(tab, new, k, v)
    <3>1. (new.again = TRUE /\ Full(tab)) \/ (new.again = FALSE /\ Added(tab, new, k, v))
      <4> HIDE DEF new
      <4> QED BY <1>1, <2>1, <2>2, PutNodeOK
    <3> QED BY <2>4, <3>1
  <2> HIDE DEF new
  <2>6. Assigned(tab, new, k, v) BY <1>1, <2>2, <2>5, AddedGet
  <2>7. Sound(new) /\ new.array = tab.array /\ new.dummy = tab.dummy /\ Put(tab.node, new.node, k, v)
    BY <2>5 DEF Added
  <2>8. sizenode(new) = N BY <1>1, <2>7 DEF sizenode, Nodes, Put
  <2>9. ASSUME v # nil PROVE Within(new.node, K) BY <1>1, <2>3, <2>7, <2>9, PutWithin
  <2> QED BY <1>1, <2>6, <2>7, <2>8, <2>9 DEF Staged, new
<1> QED BY <1>3, <1>4

(* An array part, copied in part *)
LEMMA ArraySeq ==
  ASSUME NEW m \in Nat, NEW S, NEW f \in [1..m -> S]
  PROVE  f \in Seq(S) /\ Len(f) = m
OBVIOUS

Blank(new, a, n, N, d) ==
  /\ Staged(new, {}, n, N, d)
  /\ \A x \in Keys : luaH_get(new, x) = IF x \in 1..n THEN a[x] ELSE nil

(* A table with an array and no key in its nodes *)
LEMMA BlankOK ==
  ASSUME NEW n \in Nat, NEW a \in [1..n -> Content], \A i \in 1..n : i \notin Keys => a[i] = nil,
         NEW N \in Nat \ {0}, NEW l, NEW d \in BOOLEAN, IF d THEN N = 1 /\ l = 0 ELSE l = N,
         NEW new, Fields(new, a, [i \in 0..(N - 1) |-> FreeNode], l, d, FALSE)
  PROVE  Blank(new, a, n, N, d)
<1> DEFINE D == 0..(N - 1)
           nd == [i \in D |-> FreeNode]
<1>3. Fields(new, a, nd, l, d, FALSE) OBVIOUS
<1>4. new.array = a /\ new.node = nd /\ new.lastfree = l /\ new.dummy = d /\ new.again = FALSE
  <2> HIDE DEF nd
  <2> QED BY <1>3, FieldsOf, Zenon
<1>5. DOMAIN nd = D /\ \A i \in D : nd[i] = FreeNode OBVIOUS
<1>6. sizenode(new) = N BY <1>4, <1>5, SizedSize DEF sizenode, Nodes
<1>7. Sized(new.node) BY <1>4, <1>5 DEF Sized
<1>8. Main(new) \in [Keys -> D] BY <1>4, <1>5, <1>7, MainType
<1>9. NULL \notin D BY DEF NULL
<1>10. FreeNode \in NodeOf(D) /\ FreeNode.key = Absent /\ FreeNode.dead = FALSE
       /\ FreeNode.val = nil /\ FreeNode.next = NULL
  BY Types DEF FreeNode, NodeOf
<1> HIDE DEF D, nd
<1>11. nd \in [D -> NodeOf(D)]
  <2>1. nd = [i \in D |-> FreeNode] BY DEF nd
  <2> QED BY <1>10, <2>1
<1>12. Links(nd) = [i \in D |-> NULL] BY <1>5, <1>10 DEF Links
<1>13. Shape(nd, Main(new))
  <2>1. Acyclic(Links(nd)) BY <1>9, <1>12 DEF Acyclic
  <2>2. OnePred(Links(nd)) BY <1>12 DEF OnePred
  <2>3. Unused(nd) BY <1>5, <1>9, <1>10 DEF Unused
  <2>4. Headed(nd, Main(new)) BY <1>5, <1>10 DEF Headed
  <2>5. LiveFirst(nd) BY <1>5, <1>10 DEF LiveFirst
  <2> QED BY <1>5, <1>8, <1>9, <1>11, <2>1, <2>2, <2>3, <2>4, <2>5 DEF Shape
<1>14. a \in Seq(Content) /\ Len(a) = n BY ArraySeq
<1>15. ArrayOK(new) BY <1>4, <1>14 DEF ArrayOK
<1>16. FreeOK(new)
  <2>1. Nodes(new) = D /\ new.lastfree \in 0..sizenode(new) BY <1>4, <1>5, <1>6 DEF Nodes
  <2>2. ASSUME NEW i \in D, i >= l PROVE d
    <3>1. i \in 0..(N - 1) BY DEF D
    <3> QED BY <2>2, <3>1
  <2>3. d => D = {0} /\ l = 0
    <3> SUFFICES ASSUME d PROVE D = {0} /\ l = 0 OBVIOUS
    <3>1. l = 0 /\ N = 1 OBVIOUS
    <3> QED BY <3>1 DEF D
  <2> QED BY <1>4, <1>5, <1>10, <2>1, <2>2, <2>3 DEF FreeOK
<1>17. \A x \in Keys : ~Lives(nd, x) BY <1>5, <1>10, Types DEF Lives
<1>18. Sound(new)
  <2>1. Apart(new) BY <1>4, <1>17 DEF Apart
  <2>2. Fields(new, new.array, new.node, new.lastfree, new.dummy, new.again) BY <1>3, <1>4
  <2> QED BY <1>4, <1>7, <1>13, <1>15, <1>16, <2>1, <2>2 DEF Sound
<1>19. Staged(new, {}, n, N, d)
  <2>1. Within(nd, {}) BY <1>5, <1>10 DEF Within
  <2> QED BY <1>4, <1>6, <1>14, <1>18, <2>1 DEF Staged
<1>20. ASSUME NEW x \in Keys PROVE luaH_get(new, x) = IF x \in 1..n THEN a[x] ELSE nil
  <2>1. InArray(new, x) <=> x \in 1..n
    BY <1>4, <1>14, Types DEF InArray, sizearray, Indices, Numbers
  <2>2. CASE x \in 1..n BY <1>4, <2>1, <2>2 DEF luaH_get
  <2>3. CASE x \notin 1..n
    <3>1. Find(new, x) = NULL BY <1>4, <1>13, <1>17, FindNone
    <3> QED BY <2>1, <2>3, <3>1 DEF luaH_get
  <2> QED BY <2>2, <2>3
<1> QED BY <1>19, <1>20 DEF Blank

Emptied(new, a, n, size, N) ==
  /\ N \in Nat /\ Staged(new, {}, n, N, size = 0) /\ size <= N
  /\ \A x \in Keys : luaH_get(new, x) = IF x \in 1..n THEN a[x] ELSE nil

LEMMA EmptiedOK ==
  ASSUME NEW tab, Sound(tab), NEW n \in Nat, NEW a \in [1..n -> Content],
         \A i \in 1..n : i \notin Keys => a[i] = nil, NEW size \in Nat
  PROVE  \E N : Emptied(setnodevector([tab EXCEPT !.array = a], size), a, n, size, N)
<1> DEFINE new == setnodevector([tab EXCEPT !.array = a], size)
           n2 == IF size = 0 THEN 0 ELSE 2 ^ ceillog2(size)
           N == IF n2 = 0 THEN 1 ELSE n2
           D == 0..(N - 1)
           nd == [i \in D |-> FreeNode]
           d == size = 0
<1>1. n2 \in Nat /\ (n2 = 0 <=> size = 0) /\ size <= n2
  <2>1. CASE size = 0 BY <2>1
  <2>2. CASE size # 0
    <3>1. ceillog2(size) \in Nat /\ size <= 2 ^ ceillog2(size)
      <4>1. ceillog2(size) \in 0..size /\ size <= 2 ^ ceillog2(size) BY Log2
      <4> QED BY <4>1
    <3>2. 2 ^ ceillog2(size) \in Nat BY <3>1, Doubles
    <3> DEFINE q == 2 ^ ceillog2(size)
    <3>3. n2 = q BY <2>2
    <3>4. q \in Nat /\ size <= q BY <3>1, <3>2
    <3> HIDE DEF q, n2
    <3> QED BY <2>2, <3>3, <3>4
  <2> QED BY <2>1, <2>2
<1>2. new.node = nd /\ Fields(new, a, nd, n2, d, FALSE)
  <2>1. Fields(tab, tab.array, tab.node, tab.lastfree, tab.dummy, FALSE) BY DEF Sound
  <2>2. (IF n2 = 0 THEN 0 ELSE n2 - 1) = N - 1
    <3> HIDE DEF n2
    <3> QED BY <1>1
  <2>3. d = (n2 = 0)
    <3> HIDE DEF n2
    <3> QED BY <1>1
  <2>4. new = [[tab EXCEPT !.array = a] EXCEPT
                 !.node = [i \in 0..(IF n2 = 0 THEN 0 ELSE n2 - 1) |-> FreeNode],
                 !.lastfree = n2, !.dummy = (n2 = 0)]
    BY DEF setnodevector
  <2> HIDE DEF n2, new, d, N
  <2>5. new = [[tab EXCEPT !.array = a] EXCEPT !.node = nd, !.lastfree = n2, !.dummy = d]
    BY <2>2, <2>3, <2>4
  <2> HIDE DEF nd
  <2>6. Fields(new, a, nd, n2, d, FALSE) BY <2>1, <2>5 DEF Fields
  <2> QED BY <2>6, FieldsOf
<1>3. N \in Nat \ {0} /\ size <= N /\ n2 <= N
  <2> HIDE DEF n2
  <2> QED BY <1>1
<1> HIDE DEF new, n2, N
<1>4. IF d THEN N = 1 /\ n2 = 0 ELSE n2 = N BY <1>1 DEF N
<1>5. d \in BOOLEAN OBVIOUS
<1>6. Blank(new, a, n, N, d)
  <2>1. Fields(new, a, [i \in 0..(N - 1) |-> FreeNode], n2, d, FALSE) BY <1>2
  <2> HIDE DEF d
  <2> QED BY <1>3, <1>4, <1>5, <2>1, BlankOK
<1>7. N \in Nat BY <1>3
<1>8. Emptied(new, a, n, size, N) BY <1>3, <1>6, <1>7 DEF Emptied, Blank
<1> QED BY <1>8 DEF new

LEMMA StagedMore ==
  ASSUME NEW tab, NEW K, NEW n, NEW N, NEW d, Staged(tab, {}, n, N, d)
  PROVE  Staged(tab, K, n, N, d)
BY DEF Staged, Within

LEMMA Concat ==
  ASSUME NEW p \in Nat, NEW q \in Nat, NEW f, NEW g, f = [i \in 1..p |-> f[i]], g = [i \in 1..q |-> g[i]]
  PROVE  /\ DOMAIN (f \o g) = 1..(p + q)
         /\ \A i \in 1..p : (f \o g)[i] = f[i]
         /\ \A i \in 1..q : (f \o g)[p + i] = g[i]
<1> DEFINE S == {f[i] : i \in 1..p} \cup {g[i] : i \in 1..q}
<1>1. f \in [1..p -> S] /\ g \in [1..q -> S]
  <2>1. \A i \in 1..p : f[i] \in S OBVIOUS
  <2>2. \A i \in 1..q : g[i] \in S OBVIOUS
  <2> HIDE DEF S
  <2> QED BY <2>1, <2>2
<1> HIDE DEF S
<1>2. f \in Seq(S) /\ Len(f) = p /\ g \in Seq(S) /\ Len(g) = q BY <1>1, ArraySeq
<1>3. f \o g \in Seq(S) /\ Len(f \o g) = p + q BY <1>2
<1>4. DOMAIN (f \o g) = 1..(p + q) BY <1>3
<1>5. ASSUME NEW i \in 1..p PROVE (f \o g)[i] = f[i] BY <1>2, <1>3
<1>6. ASSUME NEW i \in 1..q PROVE (f \o g)[p + i] = g[i]
  <2>1. p + i \in 1..(p + q) /\ p + i > p /\ (p + i) - p = i OBVIOUS
  <2> QED BY <1>2, <1>3, <2>1
<1> QED BY <1>4, <1>5, <1>6

SameMap(tab, new) == \A x \in Keys : luaH_get(new, x) = luaH_get(tab, x)

(* What resize puts into the new table: the rest of the array, and the nodes *)
Elements(tab, es, m, n) ==
  /\ DOMAIN es = 1..m
  /\ \A j \in 1..m : es[j].val # nil =>
       es[j].key \in Keys /\ luaH_get(tab, es[j].key) = es[j].val
  /\ \A x \in Keys : luaH_get(tab, x) # nil =>
       \/ x \in 1..n /\ x <= Len(tab.array)
       \/ \E j \in 1..m : es[j].val # nil /\ es[j].key = x

LEMMA NodeValue ==
  ASSUME NEW tab, Sound(tab), NEW i \in DOMAIN tab.node, tab.node[i].val # nil
  PROVE  /\ tab.node[i].key \in Keys /\ tab.node[i].dead = FALSE
         /\ ~InArray(tab, tab.node[i].key) /\ luaH_get(tab, tab.node[i].key) = tab.node[i].val
<1> DEFINE k == tab.node[i].key
<1>1. Shape(tab.node, Main(tab)) BY DEF Sound
<1>2. k # Absent /\ ~tab.node[i].dead BY <1>1 DEF Shape, Unused, LiveFirst
<1>3. k \in Keys /\ tab.node[i].dead = FALSE BY <1>1, <1>2, NodeTypes
<1>4. Lives(tab.node, k) BY <1>2 DEF Lives
<1>5. ~InArray(tab, k) BY <1>3, <1>4 DEF Sound, Apart
<1>6. Holds(tab.node, k, tab.node[i].val) BY <1>2 DEF Holds
<1>7. luaH_get(tab, k) = tab.node[i].val
  <2> HIDE DEF k
  <2> QED BY <1>1, <1>3, <1>5, <1>6, GetHolds
<1> QED BY <1>3, <1>5, <1>7

LEMMA ResizeElements ==
  ASSUME NEW tab, Sound(tab), NEW n \in Nat
  PROVE  LET old   == sizearray(tab)
             slice == [i \in 1..(IF n < old THEN old - n ELSE 0) |->
                         [key |-> n + i, val |-> tab.array[n + i]]]
             hash  == [i \in 1..sizenode(tab) |-> tab.node[sizenode(tab) - i]]
         IN  \E m \in Nat : Elements(tab, slice \o hash, m, n)
<1> DEFINE old   == sizearray(tab)
           p     == IF n < old THEN old - n ELSE 0
           slice == [i \in 1..p |-> [key |-> n + i, val |-> tab.array[n + i]]]
           q     == sizenode(tab)
           hash  == [i \in 1..q |-> tab.node[q - i]]
           es    == slice \o hash
           m     == p + q
<1>1. PICK N \in Nat \ {0} : DOMAIN tab.node = 0..(N - 1) BY DEF Sound, Sized
<1>2. q = N BY <1>1, SizedSize DEF sizenode, Nodes
<1>3. tab.array \in Seq(Content) /\ (\A i \in 1..old : i \notin Keys => tab.array[i] = nil)
      /\ old = Len(tab.array) /\ old \in Nat
  BY DEF Sound, ArrayOK, sizearray
<1> HIDE DEF old, q
<1>4. p \in Nat /\ q \in Nat /\ m \in Nat BY <1>2, <1>3
<1>5. /\ DOMAIN es = 1..m
      /\ \A i \in 1..p : es[i] = slice[i]
      /\ \A i \in 1..q : es[p + i] = hash[i]
  <2>1. slice = [i \in 1..p |-> slice[i]] /\ hash = [i \in 1..q |-> hash[i]] OBVIOUS
  <2> HIDE DEF slice, hash, p
  <2> QED BY <1>4, <2>1, Concat
<1> HIDE DEF es
<1>6. \A i \in 1..p : es[i].key = n + i /\ es[i].val = tab.array[n + i]
  <2> TAKE i \in 1..p
  <2>1. es[i] = slice[i] BY <1>5
  <2>2. slice[i] = [key |-> n + i, val |-> tab.array[n + i]] OBVIOUS
  <2> HIDE DEF slice
  <2> QED BY <2>1, <2>2
<1>7. \A i \in 1..q : es[p + i] = tab.node[q - i] BY <1>5
<1>8. \A i \in 1..p : n + i \in 1..old BY <1>3
<1>9. \A x \in Nat : n < x /\ x <= old => x - n \in 1..p /\ n + (x - n) = x BY <1>3
<1>10. \A j \in 1..m : j \in 1..p \/ (j - p \in 1..q /\ p + (j - p) = j) BY <1>4
<1>11. \A i \in 1..p : i \in 1..m BY <1>4
<1>12. \A i \in 1..q : p + i \in 1..m BY <1>4
<1> HIDE DEF p, m
<1>13. ASSUME NEW j \in 1..m, es[j].val # nil
       PROVE  es[j].key \in Keys /\ luaH_get(tab, es[j].key) = es[j].val
  <2>1. CASE j \in 1..p
    <3>1. es[j].key = n + j /\ es[j].val = tab.array[n + j] /\ n + j \in 1..old BY <1>6, <1>8, <2>1
    <3>2. n + j \in Keys BY <1>3, <1>13, <3>1
    <3>3. InArray(tab, n + j)
      <4>1. n + j \in Nat /\ n + j # 0 /\ n + j <= old BY <1>3, <2>1, <3>1
      <4> QED BY <3>2, <4>1 DEF InArray, Indices, Numbers, old
    <3> QED BY <3>1, <3>2, <3>3 DEF luaH_get
  <2>2. CASE j - p \in 1..q /\ p + (j - p) = j
    <3> DEFINE i == q - (j - p)
    <3>1. i \in DOMAIN tab.node BY <1>1, <1>2, <2>2
    <3>2. es[j] = tab.node[i] BY <1>7, <2>2
    <3> HIDE DEF i
    <3> QED BY <1>13, <3>1, <3>2, NodeValue
  <2> QED BY <1>10, <2>1, <2>2
<1>14. ASSUME NEW x \in Keys, luaH_get(tab, x) # nil
       PROVE  \/ x \in 1..n /\ x <= Len(tab.array)
              \/ \E j \in 1..m : es[j].val # nil /\ es[j].key = x
  <2>1. CASE InArray(tab, x)
    <3>1. x \in Nat /\ x # 0 /\ x <= old /\ x \in 1..old
      <4>1. x \in Nat /\ x # 0 /\ x <= old BY <2>1, Types DEF InArray, old
      <4> QED BY <1>3, <4>1
    <3>2. luaH_get(tab, x) = tab.array[x] BY <2>1 DEF luaH_get
    <3>3. CASE x <= n
      <4>1. x \in 1..n BY <3>1, <3>3
      <4> QED BY <1>3, <3>1, <4>1
    <3>4. CASE ~(x <= n)
      <4>1. n < x BY <3>1, <3>4
      <4>2. x - n \in 1..p /\ n + (x - n) = x BY <1>9, <3>1, <4>1
      <4> DEFINE j == x - n
      <4>3. j \in 1..p /\ n + j = x BY <4>2
      <4> HIDE DEF j
      <4>4. es[j].key = x /\ es[j].val = tab.array[x] BY <1>6, <4>3
      <4> QED BY <1>11, <1>14, <3>2, <4>3, <4>4
    <3> QED BY <3>3, <3>4
  <2>2. CASE ~InArray(tab, x)
    <3>1. Shape(tab.node, Main(tab)) BY DEF Sound
    <3>2. Holds(tab.node, x, luaH_get(tab, x)) BY <1>14, <2>2, <3>1, GetHolds
    <3>3. PICK i \in DOMAIN tab.node : tab.node[i].key = x /\ tab.node[i].val = luaH_get(tab, x)
      BY <3>2 DEF Holds
    <3>4. q - i \in 1..q /\ q - (q - i) = i BY <1>1, <1>2
    <3> DEFINE j == q - i
    <3>5. j \in 1..q /\ q - j = i BY <3>4
    <3> HIDE DEF j
    <3>6. es[p + j] = tab.node[i] BY <1>7, <3>5
    <3> QED BY <1>12, <1>14, <3>3, <3>5, <3>6
  <2> QED BY <2>1, <2>2
<1>15. Elements(tab, es, m, n) BY <1>5, <1>13, <1>14 DEF Elements
<1> QED BY <1>4, <1>15 DEF es, p, q, old

(* The keys that are in the array from the start, or among the first i elements *)
Done(tab, es, i, n) ==
  {x \in Keys : \/ x \in 1..n /\ x <= Len(tab.array)
                \/ \E j \in 1..i : es[j].val # nil /\ es[j].key = x}

Rebuilt(tab, r, es, i, n) ==
  \A x \in Keys : luaH_get(r, x) = IF x \in Done(tab, es, i, n) THEN luaH_get(tab, x) ELSE nil

LEMMA MoveOK ==
  ASSUME NEW tab, Sound(tab), NEW es, NEW m \in Nat, NEW n \in Nat, Elements(tab, es, m, n),
         NEW K, NEW N, NEW d, HasRoom(K, N, d),
         \A x \in Keys : luaH_get(tab, x) # nil => x \in 1..n \/ x \in K,
         NEW i \in Nat, i < m, NEW r, Staged(r, K, n, N, d), Rebuilt(tab, r, es, i, n)
  PROVE  LET new == MoveElement(r, es[i + 1]) IN
           Staged(new, K, n, N, d) /\ Rebuilt(tab, new, es, i + 1, n)
<1> DEFINE new == MoveElement(r, es[i + 1])
           k == es[i + 1].key
           v == es[i + 1].val
<1>1. i + 1 \in 1..m /\ \A j : j \in 1..(i + 1) <=> j \in 1..i \/ j = i + 1 OBVIOUS
<1>2. CASE v = nil
  <2>1. new = r BY <1>2 DEF MoveElement
  <2>2. Done(tab, es, i + 1, n) = Done(tab, es, i, n) BY <1>1, <1>2 DEF Done
  <2> QED BY <2>1, <2>2 DEF Rebuilt
<1>3. CASE v # nil
  <2>1. new = Reinsert(r, k, v) BY <1>3 DEF MoveElement
  <2>2. k \in Keys /\ luaH_get(tab, k) = v BY <1>1, <1>3 DEF Elements
  <2>3. v \in Content BY <2>2, GetType
  <2>4. k \in 1..n \/ k \in K BY <1>3, <2>2
  <2>5. Assigned(r, new, k, v) /\ Staged(new, K, n, N, d)
    <3> HIDE DEF new, k, v
    <3> QED BY <1>3, <2>1, <2>2, <2>3, <2>4, ReinsertOK
  <2>6. \A x \in Keys : x \in Done(tab, es, i + 1, n) <=> x \in Done(tab, es, i, n) \/ x = k
    BY <1>1, <1>3 DEF Done
  <2>7. Rebuilt(tab, new, es, i + 1, n)
    <3> HIDE DEF new, k, v
    <3> QED BY <2>2, <2>5, <2>6 DEF Rebuilt, Assigned
  <2> QED BY <2>5, <2>7
<1> QED BY <1>2, <1>3

LEMMA ResizeOK ==
  ASSUME NEW tab, Sound(tab), NEW n \in Nat, NEW size \in Nat, NEW K \in SUBSET Keys,
         IsFiniteSet(K), Cardinality(K) <= size,
         \A x \in Keys : luaH_get(tab, x) # nil => x \in 1..n \/ x \in K
  PROVE  LET new == resize(tab, n, size) IN
           /\ SameMap(tab, new)
           /\ \E N, d : Staged(new, K, n, N, d) /\ HasRoom(K, N, d)
<1> DEFINE old   == sizearray(tab)
           a     == [i \in 1..n |-> IF i <= old THEN tab.array[i] ELSE nil]
           base  == setnodevector([tab EXCEPT !.array = a], size)
           slice == [i \in 1..(IF n < old THEN old - n ELSE 0) |->
                       [key |-> n + i, val |-> tab.array[n + i]]]
           hash  == [i \in 1..sizenode(tab) |-> tab.node[sizenode(tab) - i]]
           es    == slice \o hash
           d     == size = 0
           new   == resize(tab, n, size)
<1>1. new = FoldLeft(MoveElement, base, es) BY DEF resize
<1>2. PICK m \in Nat : Elements(tab, es, m, n) BY ResizeElements
<1> HIDE DEF es
<1>3. tab.array \in Seq(Content) /\ (\A i \in 1..old : i \notin Keys => tab.array[i] = nil)
      /\ old = Len(tab.array) /\ old \in Nat
  BY DEF Sound, ArrayOK, sizearray
<1> HIDE DEF old
<1>4. \A i \in 1..n : a[i] = IF i <= old THEN tab.array[i] ELSE nil OBVIOUS
<1>5. a \in [1..n -> Content] BY <1>3, Types
<1> HIDE DEF a
<1>6. \A i \in 1..n : i \notin Keys => a[i] = nil BY <1>3, <1>4
<1>7. PICK N : /\ N \in Nat /\ Staged(base, {}, n, N, d) /\ size <= N
               /\ \A x \in Keys : luaH_get(base, x) = IF x \in 1..n THEN a[x] ELSE nil
  <2>1. \E N : Emptied(base, a, n, size, N) BY <1>5, <1>6, EmptiedOK, Zenon
  <2> HIDE DEF base
  <2> QED BY <2>1 DEF Emptied
<1> HIDE DEF base
<1>8. HasRoom(K, N, d)
  <2>1. Cardinality(K) \in Nat /\ (Cardinality(K) = 0 <=> K = {}) BY FS_CardinalityType, FS_EmptySet
  <2>2. K # {} => d = FALSE BY <2>1
  <2>3. Cardinality(K) <= N BY <1>7, <2>1
  <2> QED BY <2>2, <2>3 DEF HasRoom
<1>9. Staged(base, K, n, N, d)
  <2> HIDE DEF d
  <2> QED BY <1>7, StagedMore
<1>10. Rebuilt(tab, base, es, 0, n)
  <2> SUFFICES ASSUME NEW x \in Keys
               PROVE  luaH_get(base, x)
                      = IF x \in Done(tab, es, 0, n) THEN luaH_get(tab, x) ELSE nil
    BY DEF Rebuilt
  <2>1. x \in Done(tab, es, 0, n) <=> x \in 1..n /\ x <= Len(tab.array) BY DEF Done
  <2>2. CASE x \in 1..n /\ x <= Len(tab.array)
    <3>1. x \in Indices BY <2>2 DEF Indices, Numbers
    <3>2. InArray(tab, x) BY <2>2, <3>1 DEF InArray, sizearray
    <3> QED BY <1>3, <1>4, <1>7, <2>1, <2>2, <3>2 DEF luaH_get
  <2>3. CASE ~(x \in 1..n /\ x <= Len(tab.array)) BY <1>3, <1>4, <1>7, <2>1, <2>3
  <2> QED BY <2>2, <2>3
<1> HIDE DEF d
<1>11. PICK r : /\ r[0] = base /\ FoldLeft(MoveElement, base, es) = r[m]
                /\ \A i \in Nat : i < m => r[i + 1] = MoveElement(r[i], es[i + 1])
  <2>1. DOMAIN es = 1..m BY <1>2 DEF Elements
  <2>2. \E r : MovesTo(r, base, es, m) BY <2>1, FoldMove, Zenon
  <2> QED BY <2>2 DEF MovesTo
<1> DEFINE S == {i \in Nat : i <= m => Staged(r[i], K, n, N, d) /\ Rebuilt(tab, r[i], es, i, n)}
<1>12. 0 \in S BY <1>9, <1>10, <1>11
<1>13. ASSUME NEW i \in Nat, i < m, i \in S PROVE i + 1 \in S
  <2>1. Staged(r[i], K, n, N, d) /\ Rebuilt(tab, r[i], es, i, n) BY <1>13
  <2>2. r[i + 1] = MoveElement(r[i], es[i + 1]) BY <1>11, <1>13
  <2>3. Staged(r[i + 1], K, n, N, d) /\ Rebuilt(tab, r[i + 1], es, i + 1, n)
    <3> DEFINE q == r[i]
    <3> HIDE DEF q, S
    <3>1. Staged(q, K, n, N, d) /\ Rebuilt(tab, q, es, i, n) BY <2>1 DEF q
    <3>2. Staged(MoveElement(q, es[i + 1]), K, n, N, d)
          /\ Rebuilt(tab, MoveElement(q, es[i + 1]), es, i + 1, n)
      BY <1>2, <1>8, <1>13, <3>1, MoveOK
    <3> QED BY <2>2, <3>2 DEF q
  <2> QED BY <2>3
<1>14. m \in S
  <2> HIDE DEF S
  <2>1. \A i \in Nat : i < m /\ i \in S => i + 1 \in S BY <1>13
  <2>2. \A i \in 0..m : i \in S BY <1>12, <2>1, Rising
  <2> QED BY <2>2
<1>15. Staged(new, K, n, N, d) /\ Rebuilt(tab, new, es, m, n) BY <1>1, <1>11, <1>14
<1> HIDE DEF new
<1>16. SameMap(tab, new)
  <2> SUFFICES ASSUME NEW x \in Keys PROVE luaH_get(new, x) = luaH_get(tab, x) BY DEF SameMap
  <2>1. luaH_get(new, x) = IF x \in Done(tab, es, m, n) THEN luaH_get(tab, x) ELSE nil
    BY <1>15 DEF Rebuilt
  <2>2. luaH_get(tab, x) # nil => x \in Done(tab, es, m, n) BY <1>2 DEF Elements, Done
  <2> QED BY <2>1, <2>2
<1> QED BY <1>8, <1>15, <1>16 DEF new

------------------------------------------------------------------------------
(* The sizes rehash computes *)

SizeStep(count, narray, s, i) ==
  LET a == s.a + count[i] IN
    IF 2^i \div 2 >= narray \/ count[i] = 0 THEN [s EXCEPT !.a = a]
    ELSE IF a > 2^i \div 2 THEN [a |-> a, n |-> 2^i, na |-> a]
    ELSE [s EXCEPT !.a = a]

SizesRun(r, count, narray, base, es, m) ==
  /\ r[0] = base /\ FoldLeft(LAMBDA s, i : SizeStep(count, narray, s, i), base, es) = r[m]
  /\ \A i \in Nat : i < m => r[i + 1] = SizeStep(count, narray, r[i], es[i + 1])

LEMMA FoldSizes ==
  ASSUME NEW count, NEW narray, NEW base, NEW m \in Nat, NEW es, DOMAIN es = 1..m
  PROVE  \E r : SizesRun(r, count, narray, base, es, m)
<1> DEFINE Step(it, s) == SizeStep(count, narray, it[s \ {Max(s)}], es[Max(s)])
           E(it, c) == it = [s \in SUBSET (1..c) |-> IF s = {} THEN base ELSE Step(it, s)]
           S == {c \in Nat : \E it : E(it, c)}
<1>1. 0 \in S
  <2> DEFINE it == [s \in SUBSET (1..0) |-> base]
  <2>1. \A s \in SUBSET (1..0) : s = {} OBVIOUS
  <2> HIDE DEF Step
  <2>2. E(it, 0) BY <2>1
  <2> HIDE DEF E
  <2> QED BY <2>2
<1>2. ASSUME NEW c \in Nat, c \in S PROVE c + 1 \in S
  <2>1. PICK it : E(it, c) BY <1>2
  <2> DEFINE T == SUBSET (1..c)
             U == SUBSET (1..(c + 1))
             new == [s \in U |-> IF c + 1 \in s THEN SizeStep(count, narray, it[s \ {c + 1}], es[c + 1])
                                 ELSE it[s]]
  <2>2. \A s \in T : it[s] = IF s = {} THEN base ELSE SizeStep(count, narray, it[s \ {Max(s)}], es[Max(s)])
    BY <2>1
  <2>3. ASSUME NEW s \in U
        PROVE  new[s] = IF s = {} THEN base ELSE SizeStep(count, narray, new[s \ {Max(s)}], es[Max(s)])
    <3>1. CASE c + 1 \in s
      <4>1. Max(s) = c + 1 /\ s \ {c + 1} \in U BY <3>1, TopOf
      <4>2. new[s] = SizeStep(count, narray, it[s \ {c + 1}], es[c + 1]) BY <3>1
      <4>3. new[s \ {c + 1}] = it[s \ {c + 1}] BY <4>1
      <4> HIDE DEF new
      <4> QED BY <3>1, <4>1, <4>2, <4>3
    <3>2. CASE c + 1 \notin s
      <4>1. s \in T /\ (s # {} => Max(s) \in s) BY <3>2, TopOf
      <4>2. new[s] = it[s] /\ new[s \ {Max(s)}] = it[s \ {Max(s)}] BY <3>2, <4>1
      <4> HIDE DEF new
      <4> QED BY <2>2, <4>1, <4>2
    <3> QED BY <3>1, <3>2
  <2>4. new = [s \in U |-> new[s]] OBVIOUS
  <2> HIDE DEF new
  <2>5. new = [s \in U |-> IF s = {} THEN base ELSE SizeStep(count, narray, new[s \ {Max(s)}], es[Max(s)])]
    BY <2>3, <2>4
  <2>6. E(new, c + 1) BY <2>5
  <2> HIDE DEF E
  <2> QED BY <2>6
<1>3. m \in S
  <2> HIDE DEF S
  <2>1. \A i \in Nat : i < m /\ i \in S => i + 1 \in S BY <1>2
  <2>2. \A i \in 0..m : i \in S BY <1>1, <2>1, Rising
  <2> QED BY <2>2
<1> DEFINE fold == CHOOSE it : E(it, m)
           r == [i \in 0..m |-> fold[1..i]]
<1>4. E(fold, m)
  <2> HIDE DEF E
  <2> QED BY <1>3
<1>5. FoldLeft(LAMBDA s, i : SizeStep(count, narray, s, i), base, es) = fold[1..m] BY DEF FoldLeft, MapThenFoldSet
<1> HIDE DEF fold
<1>6. \A s \in SUBSET (1..m) :
        fold[s] = IF s = {} THEN base ELSE SizeStep(count, narray, fold[s \ {Max(s)}], es[Max(s)])
  BY <1>4
<1>7. r[0] = base /\ r[m] = fold[1..m]
  <2>1. 1..0 = {} OBVIOUS
  <2>2. fold[{}] = base BY <1>6
  <2> QED BY <2>1, <2>2
<1>8. ASSUME NEW i \in Nat, i < m PROVE r[i + 1] = SizeStep(count, narray, r[i], es[i + 1])
  <2>1. /\ 1..(i + 1) \in SUBSET (1..m) /\ 1..(i + 1) # {}
        /\ Max(1..(i + 1)) = i + 1 /\ (1..(i + 1)) \ {i + 1} = 1..i
    BY <1>8, FirstOnes
  <2>2. r[i + 1] = fold[1..(i + 1)] /\ r[i] = fold[1..i] BY <1>8
  <2> HIDE DEF r
  <2> QED BY <1>6, <2>1, <2>2
<1> HIDE DEF r
<1> QED BY <1>5, <1>7, <1>8 DEF SizesRun

LEMMA AtMostLog ==
  ASSUME NEW k \in Nat \ {0}, NEW i \in Nat
  PROVE  ceillog2(k) <= i <=> k <= 2 ^ i
<1> DEFINE c == ceillog2(k)
<1>1. c \in 0..k /\ k <= 2 ^ c /\ (c = 0 \/ 2 ^ (c - 1) < k) BY Log2
<1> HIDE DEF c
<1>2. c \in Nat /\ 2 ^ c \in Nat /\ 2 ^ i \in Nat
  <2>1. c \in Nat BY <1>1
  <2> QED BY <2>1, Doubles
<1>3. ASSUME c <= i PROVE k <= 2 ^ i
  <2>1. 2 ^ c <= 2 ^ i BY <1>2, <1>3, Rises
  <2> DEFINE p == 2 ^ c
             q == 2 ^ i
  <2>2. p \in Nat /\ q \in Nat /\ p <= q /\ k <= p BY <1>1, <1>2, <2>1
  <2> HIDE DEF p, q
  <2>3. k <= q BY <2>2
  <2> QED BY <2>3 DEF q
<1>4. ASSUME ~(c <= i) PROVE ~(k <= 2 ^ i)
  <2>1. c - 1 \in Nat /\ i <= c - 1 /\ c # 0 BY <1>2, <1>4
  <2>2. 2 ^ i <= 2 ^ (c - 1) /\ 2 ^ (c - 1) \in Nat BY <2>1, Rises, Doubles
  <2> DEFINE p == 2 ^ (c - 1)
             q == 2 ^ i
  <2>3. p \in Nat /\ q \in Nat /\ q <= p /\ p < k BY <1>1, <1>2, <2>1, <2>2
  <2> HIDE DEF p, q
  <2>4. ~(k <= q) BY <2>3
  <2> QED BY <2>4 DEF q
<1> QED BY <1>3, <1>4 DEF c

Sizes(s, ks, j) ==
  /\ s \in [a : Nat, n : Nat, na : Nat]
  /\ s.a = Cardinality({k \in ks \cap Indices : ceillog2(k) < j})
  /\ s.na = Cardinality(ks \cap (1..s.n))

LEMMA SizeStepOK ==
  ASSUME NEW ks \in SUBSET Keys, IsFiniteSet(ks), NEW j \in 0..MaxLog, NEW s, Sizes(s, ks, j), NEW narray
  PROVE  Sizes(SizeStep(nums(ks), narray, s, j), ks, j + 1)
<1> DEFINE low  == {k \in ks \cap Indices : ceillog2(k) < j}
           at   == {k \in ks \cap Indices : ceillog2(k) = j}
           next == {k \in ks \cap Indices : ceillog2(k) < j + 1}
           a    == s.a + nums(ks)[j]
           p    == 2 ^ j
           new  == SizeStep(nums(ks), narray, s, j)
<1>1. \A k \in Indices : k \in Nat \ {0} /\ ceillog2(k) \in Nat
  <2>1. \A k \in Indices : k \in Nat \ {0} BY Types
  <2>2. ASSUME NEW k \in Nat PROVE ceillog2(k) \in Nat
    <3>1. ceillog2(k) \in 0..k BY Log2
    <3> QED BY <3>1
  <2> QED BY <2>1, <2>2
<1>2. j \in Nat /\ p \in Nat
  <2>1. j \in Nat BY TableAssumption
  <2> QED BY <2>1, Doubles
<1>3. next = low \cup at /\ low \cap at = {} BY <1>1, <1>2
<1>4. IsFiniteSet(low) /\ IsFiniteSet(at) /\ IsFiniteSet(next)
  <2>1. low \in SUBSET ks /\ at \in SUBSET ks /\ next \in SUBSET ks OBVIOUS
  <2> HIDE DEF low, at, next
  <2> QED BY <2>1, FS_Subset
<1>5. Cardinality(next) = Cardinality(low) + Cardinality(at) /\ Cardinality(next) \in Nat
  <2> HIDE DEF low, at, next
  <2>1. Cardinality(low \cup at) = Cardinality(low) + Cardinality(at) - Cardinality(low \cap at)
    BY <1>4, FS_Union
  <2>2. Cardinality(low \cap at) = 0 BY <1>3, FS_EmptySet
  <2>3. Cardinality(low) \in Nat /\ Cardinality(at) \in Nat /\ Cardinality(next) \in Nat
    BY <1>4, FS_CardinalityType
  <2> QED BY <1>3, <2>1, <2>2, <2>3
<1>6. nums(ks)[j] = Cardinality(at) BY DEF nums
<1>7. a = Cardinality(next) /\ a \in Nat BY <1>5, <1>6 DEF Sizes
<1>8. next = ks \cap (1..p)
  <2>1. ASSUME NEW k \in ks PROVE k \in next <=> k \in 1..p
    <3>1. k \in Indices <=> k \in Nat /\ k # 0 BY DEF Indices, Numbers
    <3>2. CASE k \in Nat /\ k # 0
      <4>1. ceillog2(k) <= j <=> k <= 2 ^ j BY <1>2, <3>2, AtMostLog
      <4>2. ceillog2(k) \in Nat BY <1>1, <3>1, <3>2
      <4>3. ceillog2(k) < j + 1 <=> ceillog2(k) <= j BY <1>2, <4>2
      <4>4. k \in 1..p <=> k <= p
        <5> HIDE DEF p
        <5> QED BY <1>2, <3>2
      <4> QED BY <3>1, <3>2, <4>1, <4>3, <4>4
    <3>3. CASE ~(k \in Nat /\ k # 0)
      <4>1. k \notin 1..p
        <5> HIDE DEF p
        <5> QED BY <1>2, <3>3
      <4> QED BY <3>1, <3>3, <4>1
    <3> QED BY <3>2, <3>3
  <2>2. \A k \in next : k \in ks OBVIOUS
  <2> HIDE DEF next, p
  <2> QED BY <2>1, <2>2
<1>9. new = [s EXCEPT !.a = a] \/ new = [a |-> a, n |-> p, na |-> a] BY DEF SizeStep
<1> HIDE DEF new, a, p, next
<1>10. s \in [a : Nat, n : Nat, na : Nat] /\ s.na = Cardinality(ks \cap (1..s.n)) BY DEF Sizes
<1>11. /\ new \in [a : Nat, n : Nat, na : Nat] /\ new.a = a
       /\ (new.n = s.n /\ new.na = s.na) \/ (new.n = p /\ new.na = a)
  BY <1>2, <1>7, <1>9, <1>10
<1>12. new.na = Cardinality(ks \cap (1..new.n)) BY <1>7, <1>8, <1>10, <1>11
<1> QED BY <1>7, <1>11, <1>12 DEF Sizes, new, next

LEMMA SizesOK ==
  ASSUME NEW ks \in SUBSET Keys, IsFiniteSet(ks), NEW narray
  PROVE  LET s == computesizes(nums(ks), narray) IN
           s.n \in Nat /\ s.na = Cardinality(ks \cap (1..s.n))
<1> DEFINE count == nums(ks)
           base == [a |-> 0, n |-> 0, na |-> 0]
           es == [i \in 1..(MaxLog + 1) |-> i - 1]
           m == MaxLog + 1
           s == computesizes(count, narray)
<1>1. s = FoldLeft(LAMBDA u, i : SizeStep(count, narray, u, i), base, es)
  BY DEF computesizes, SizeStep, FoldLeft, MapThenFoldSet
<1>2. MaxLog \in Nat /\ m \in Nat /\ DOMAIN es = 1..m BY TableAssumption
<1>3. PICK r : SizesRun(r, count, narray, base, es, m)
  <2> HIDE DEF count, base, es, m
  <2> QED BY <1>2, FoldSizes, Zenon
<1>4. /\ r[0] = base /\ r[m] = s
      /\ \A i \in Nat : i < m => r[i + 1] = SizeStep(count, narray, r[i], es[i + 1])
  BY <1>1, <1>3 DEF SizesRun
<1> HIDE DEF s
<1>5. Sizes(base, ks, 0)
  <2>1. {k \in ks \cap Indices : ceillog2(k) < 0} = {}
    <3> SUFFICES ASSUME NEW k \in Indices, ceillog2(k) < 0 PROVE FALSE OBVIOUS
    <3>1. k \in Nat BY Types
    <3>2. ceillog2(k) \in 0..k BY <3>1, Log2
    <3> QED BY <3>1, <3>2
  <2>2. ks \cap (1..0) = {} OBVIOUS
  <2>3. Cardinality({}) = 0 BY FS_EmptySet
  <2> QED BY <2>1, <2>2, <2>3 DEF Sizes
<1> DEFINE S == {i \in Nat : i <= m => Sizes(r[i], ks, i)}
<1>6. 0 \in S BY <1>4, <1>5
<1>7. ASSUME NEW i \in Nat, i < m, i \in S PROVE i + 1 \in S
  <2>1. i \in 0..MaxLog /\ es[i + 1] = i BY <1>2, <1>7
  <2>2. Sizes(r[i], ks, i)
    <3>1. i <= m BY <1>2, <1>7
    <3> QED BY <1>7, <3>1
  <2>3. Sizes(SizeStep(count, narray, r[i], i), ks, i + 1)
    <3> HIDE DEF S, es, base
    <3> QED BY <2>1, <2>2, SizeStepOK
  <2>4. Sizes(r[i + 1], ks, i + 1) BY <1>4, <1>7, <2>1, <2>3
  <2> QED BY <2>4
<1>8. m \in S
  <2> HIDE DEF S, m
  <2>1. \A i \in Nat : i < m /\ i \in S => i + 1 \in S BY <1>7
  <2>2. \A i \in 0..m : i \in S BY <1>2, <1>6, <2>1, Rising
  <2> QED BY <1>2, <2>2
<1>9. Sizes(s, ks, m) BY <1>2, <1>4, <1>8
<1> QED BY <1>9 DEF Sizes, s

------------------------------------------------------------------------------
(* rehash, and with it every assignment *)

LEMMA UsedFinite ==
  ASSUME NEW tab, Sound(tab)
  PROVE  Used(tab) \in SUBSET Keys /\ IsFiniteSet(Used(tab))
<1> DEFINE D == DOMAIN tab.node
           f == [i \in D |-> tab.node[i].key]
           R == {tab.node[i].key : i \in D}
           A == 1..Len(tab.array)
<1>1. PICK N \in Nat \ {0} : D = 0..(N - 1) BY DEF Sound, Sized
<1>2. IsFiniteSet(D) BY <1>1, SizedSize
<1>3. IsFiniteSet(R)
  <2>1. f \in Surjection(D, R)
    <3>1. f \in [D -> R] OBVIOUS
    <3>2. \A y \in R : \E x \in D : f[x] = y OBVIOUS
    <3> QED BY <3>1, <3>2 DEF Surjection
  <2> HIDE DEF f, R, D
  <2> QED BY <1>2, <2>1, FS_Surjection
<1>4. IsFiniteSet(A)
  <2>1. Len(tab.array) \in Int /\ 1 \in Int
    <3>1. tab.array \in Seq(Content) BY DEF Sound, ArrayOK
    <3> QED BY <3>1
  <2> QED BY <2>1, FS_Interval
<1>5. Used(tab) \in SUBSET (A \cup R)
  <2> SUFFICES ASSUME NEW x \in Keys, luaH_get(tab, x) # nil PROVE x \in A \cup R BY DEF Used
  <2>1. CASE InArray(tab, x)
    <3>1. x \in Nat /\ x # 0 /\ x <= Len(tab.array) BY <2>1, Types DEF InArray, sizearray
    <3>2. Len(tab.array) \in Nat
      <4>1. tab.array \in Seq(Content) BY DEF Sound, ArrayOK
      <4> QED BY <4>1
    <3> QED BY <3>1, <3>2
  <2>2. CASE ~InArray(tab, x)
    <3>1. Shape(tab.node, Main(tab)) BY DEF Sound
    <3>2. Holds(tab.node, x, luaH_get(tab, x)) BY <2>2, <3>1, GetHolds
    <3> QED BY <3>2 DEF Holds
  <2> QED BY <2>1, <2>2
<1>6. IsFiniteSet(A \cup R)
  <2> HIDE DEF A, R
  <2> QED BY <1>3, <1>4, FS_Union
<1>7. IsFiniteSet(Used(tab))
  <2> HIDE DEF A, R
  <2> QED BY <1>5, <1>6, FS_Subset
<1> QED BY <1>7 DEF Used

Roomy(new, k) ==
  \E K, n, N, d : Staged(new, K, n, N, d) /\ HasRoom(K, N, d) /\ (k \in 1..n \/ k \in K)

LEMMA RehashOK ==
  ASSUME NEW tab, Sound(tab), NEW k \in Keys
  PROVE  SameMap(tab, rehash(tab, k)) /\ Roomy(rehash(tab, k), k)
<1> DEFINE keys == Used(tab) \cup {k}
           s    == computesizes(nums(keys), Cardinality(keys \cap Indices))
           n    == s.n
           K    == keys \ (1..n)
           size == Cardinality(keys) - s.na
           new  == rehash(tab, k)
<1>1. new = resize(tab, n, size) BY DEF rehash
<1>2. keys \in SUBSET Keys /\ IsFiniteSet(keys)
  <2>1. Used(tab) \in SUBSET Keys /\ IsFiniteSet(Used(tab)) BY UsedFinite
  <2> QED BY <2>1, FS_AddElement
<1>3. n \in Nat /\ s.na = Cardinality(keys \cap (1..n))
  <2> HIDE DEF keys
  <2> QED BY <1>2, SizesOK
<1>4. \A x \in Keys : luaH_get(tab, x) # nil => x \in 1..n \/ x \in K
  <2>1. \A x \in Keys : luaH_get(tab, x) # nil => x \in keys BY DEF Used
  <2> HIDE DEF keys, n
  <2> QED BY <2>1
<1>5. k \in 1..n \/ k \in K
  <2> HIDE DEF n
  <2> QED OBVIOUS
<1> HIDE DEF keys, s, new
<1>6. IsFiniteSet(K) /\ Cardinality(K) = size /\ K \in SUBSET Keys
  <2> HIDE DEF n
  <2> QED BY <1>2, <1>3, FS_Difference
<1>7. size \in Nat BY <1>6, FS_CardinalityType
<1> HIDE DEF n, K, size
<1>8. Cardinality(K) <= size BY <1>6, <1>7
<1>9. /\ SameMap(tab, new)
      /\ \E N, d : Staged(new, K, n, N, d) /\ HasRoom(K, N, d)
  BY <1>1, <1>3, <1>4, <1>6, <1>7, <1>8, ResizeOK
<1> QED BY <1>5, <1>9 DEF Roomy, new

LEMMA AssignedOn ==
  ASSUME NEW tab, NEW mid, NEW new, NEW k, NEW v, SameMap(tab, mid), Assigned(mid, new, k, v)
  PROVE  Assigned(tab, new, k, v)
BY DEF SameMap, Assigned

(* An assignment keeps the table sound and changes the map where it should. *)
LEMMA SetOK ==
  ASSUME NEW tab, Sound(tab), NEW k \in Keys, NEW v \in Content
  PROVE  /\ Sound(Set(tab, k, v)) /\ Assigned(tab, Set(tab, k, v), k, v)
         /\ Present(tab, k) => Written(tab, Set(tab, k, v), v)
<1> DEFINE new == Set(tab, k, v)
           put == PutNode(tab, k, v)
           mid == rehash(tab, k)
<1>1. CASE Present(tab, k)
  <2>1. new = Overwrite(tab, k, v) BY <1>1 DEF Set
  <2> HIDE DEF new
  <2>2. Sound(new) /\ Assigned(tab, new, k, v) /\ Written(tab, new, v)
    BY <1>1, <2>1, OverwriteOK
  <2> QED BY <2>2 DEF new
<1>2. CASE ~Present(tab, k)
  <2>1. new = IF put.again THEN Reinsert(mid, k, v) ELSE put BY <1>2 DEF Set, newkey
  <2>2. ~InArray(tab, k) /\ ~Lives(tab.node, k)
    <3>1. Shape(tab.node, Main(tab)) BY DEF Sound
    <3> QED BY <1>2, <3>1, FindLives DEF Present
  <2>3. put.again = TRUE \/ (put.again = FALSE /\ Added(tab, put, k, v))
    <3>1. (put.again = TRUE /\ Full(tab)) \/ (put.again = FALSE /\ Added(tab, put, k, v))
      BY <2>2, PutNodeOK
    <3> QED BY <3>1
  <2>4. SameMap(tab, mid) /\ Roomy(mid, k) BY RehashOK
  <2> HIDE DEF new, put, mid
  <2>5. CASE put.again = TRUE
    <3>1. new = Reinsert(mid, k, v) BY <2>1, <2>5
    <3>2. PICK K, n, N, d : Staged(mid, K, n, N, d) /\ HasRoom(K, N, d) /\ (k \in 1..n \/ k \in K)
      BY <2>4 DEF Roomy
    <3>3. Sound(new) /\ Assigned(mid, new, k, v) BY <3>1, <3>2, ReinsertOK
    <3> QED BY <1>2, <2>4, <3>3, AssignedOn DEF new
  <2>6. CASE put.again = FALSE /\ Added(tab, put, k, v)
    <3>1. new = put BY <2>1, <2>6
    <3>2. Assigned(tab, new, k, v) BY <2>2, <2>6, <3>1, AddedGet
    <3> QED BY <1>2, <2>6, <3>1, <3>2 DEF Added, new
  <2> QED BY <2>3, <2>5, <2>6
<1> QED BY <1>1, <1>2

LEMMA ResizeArrayOK ==
  ASSUME NEW tab, Sound(tab), NEW n \in Nat, n > sizearray(tab)
  PROVE  Sound(luaH_resizearray(tab, n)) /\ SameMap(tab, luaH_resizearray(tab, n))
<1> DEFINE D    == DOMAIN tab.node
           K    == Used(tab) \ (1..n)
           size == IF tab.dummy THEN 0 ELSE sizenode(tab)
           new  == luaH_resizearray(tab, n)
           f    == [x \in K |-> Find(tab, x)]
<1>1. new = resize(tab, n, size) BY DEF luaH_resizearray
<1>2. PICK N \in Nat \ {0} : D = 0..(N - 1) BY DEF Sound, Sized
<1>3. IsFiniteSet(D) /\ sizenode(tab) = N BY <1>2, SizedSize DEF sizenode, Nodes
<1>4. K \in SUBSET Keys /\ IsFiniteSet(K)
  <2>1. Used(tab) \in SUBSET Keys /\ IsFiniteSet(Used(tab)) BY UsedFinite
  <2> QED BY <2>1, FS_Difference
<1>5. \A x \in Keys : luaH_get(tab, x) # nil => x \in 1..n \/ x \in K BY DEF Used
<1>6. Shape(tab.node, Main(tab)) BY DEF Sound
<1>7. sizearray(tab) \in Nat
  <2>1. tab.array \in Seq(Content) BY DEF Sound, ArrayOK
  <2> QED BY <2>1 DEF sizearray
<1>8. ASSUME NEW x \in K
      PROVE  Find(tab, x) \in D /\ tab.node[Find(tab, x)].key = x /\ x # Absent
  <2>1. x \in Keys /\ luaH_get(tab, x) # nil /\ x \notin 1..n BY DEF Used
  <2>2. ~InArray(tab, x)
    <3> SUFFICES ASSUME InArray(tab, x) PROVE FALSE OBVIOUS
    <3>1. x \in Nat /\ x # 0 /\ x <= sizearray(tab) BY Types DEF InArray
    <3> QED BY <1>7, <2>1, <3>1
  <2>3. Find(tab, x) # NULL BY <2>1, <2>2 DEF luaH_get
  <2> QED BY <1>6, <2>1, <2>3, FindLives, Types
<1>9. Cardinality(K) <= size /\ size \in Nat
  <2>1. CASE tab.dummy
    <3>1. D = {0} /\ tab.node[0].key = Absent BY <2>1 DEF Sound, FreeOK, Nodes
    <3>2. K = {}
      <4> SUFFICES ASSUME NEW x \in K PROVE FALSE OBVIOUS
      <4>1. Find(tab, x) = 0 BY <1>8, <3>1
      <4> QED BY <1>8, <3>1, <4>1
    <3>3. Cardinality(K) = 0
      <4> HIDE DEF K
      <4> QED BY <3>2, FS_EmptySet
    <3> HIDE DEF K
    <3> QED BY <2>1, <3>3
  <2>2. CASE ~tab.dummy
    <3>1. f \in [K -> D] BY <1>8
    <3>2. IsInjective(f)
      <4> SUFFICES ASSUME NEW x \in K, NEW y \in K, Find(tab, x) = Find(tab, y) PROVE x = y
        BY DEF IsInjective
      <4>1. tab.node[Find(tab, x)].key = x /\ tab.node[Find(tab, y)].key = y BY <1>8
      <4> HIDE DEF K
      <4> QED BY <4>1
    <3> HIDE DEF f, K
    <3>3. f \in Injection(K, D) BY <3>1, <3>2 DEF Injection
    <3>4. Cardinality(K) <= Cardinality(D)
      <4> HIDE DEF D
      <4> QED BY <1>3, <3>3, FS_Injection
    <3>5. Cardinality(D) = N BY <1>2, SizedSize
    <3> QED BY <1>3, <2>2, <3>4, <3>5
  <2> QED BY <2>1, <2>2
<1> HIDE DEF K, size, new, f
<1>10. /\ SameMap(tab, new)
       /\ \E M, d : Staged(new, K, n, M, d) /\ HasRoom(K, M, d)
  BY <1>1, <1>4, <1>5, <1>9, ResizeOK
<1>11. Sound(new) BY <1>10 DEF Staged
<1> QED BY <1>10, <1>11 DEF new

------------------------------------------------------------------------------
(* The length *)

Border(tab, n) == n \in Nat /\ (n = 0 \/ Get(tab, n) # nil) /\ Get(tab, n + 1) = nil

(* An index that is present, or 0, before one that is absent *)
Between(tab, i, j) ==
  i \in Nat /\ j \in Nat /\ i < j /\ (i = 0 \/ Get(tab, i) # nil) /\ Get(tab, j) = nil

LEMMA SearchOK ==
  ASSUME NEW tab, NEW a, NEW b, Between(tab, a, b)
  PROVE  Border(tab, BinarySearch(tab, a, b))
<1> DEFINE I == 0..b
           D == I \X I
           mid(s) == (s[1] + s[2]) \div 2
           stop == {s \in D : s[2] - s[1] <= 1}
           value == [s \in D |-> s[1]]
           succ == [s \in D |-> IF Get(tab, mid(s)) = nil THEN <<s[1], mid(s)>> ELSE <<mid(s), s[2]>>]
           P(f) == f = [s \in D |->
                          IF s[2] - s[1] <= 1 THEN s[1]
                          ELSE f[IF Get(tab, mid(s)) = nil THEN <<s[1], mid(s)>> ELSE <<mid(s), s[2]>>]]
           search == CHOOSE f : P(f)
<1>1. a \in Nat /\ b \in Nat /\ a \in I /\ b \in I BY DEF Between
<1>2. ASSUME NEW s \in D PROVE s[1] \in I /\ s[2] \in I /\ mid(s) \in I
  <2>1. s[1] \in I /\ s[2] \in I OBVIOUS
  <2> DEFINE i == s[1]
             j == s[2]
  <2>2. i \in 0..b /\ j \in 0..b BY <2>1
  <2> HIDE DEF i, j
  <2>3. (i + j) \div 2 \in 0..b BY <1>1, <2>2
  <2> QED BY <2>1, <2>3 DEF i, j
<1>3. succ \in [D -> D]
  <2> SUFFICES ASSUME NEW s \in D
               PROVE  (IF Get(tab, mid(s)) = nil THEN <<s[1], mid(s)>> ELSE <<mid(s), s[2]>>) \in D
    OBVIOUS
  <2>1. s[1] \in I /\ s[2] \in I /\ mid(s) \in I BY <1>2, ZenonT(40)
  <2> HIDE DEF mid, I
  <2> QED BY <2>1
<1>4. PICK f : Loop(f, D, stop, succ, value)
  <2> HIDE DEF D, stop, succ, value
  <2> QED BY <1>3, Iteration, ZenonT(40)
<1>5. P(f)
  <2>1. f = [s \in D |-> IF s \in stop THEN value[s] ELSE f[succ[s]]] BY <1>4, ZenonT(30) DEF Loop
  <2>2. ASSUME NEW s \in D
        PROVE  (IF s \in stop THEN value[s] ELSE f[succ[s]])
               = IF s[2] - s[1] <= 1 THEN s[1]
                 ELSE f[IF Get(tab, mid(s)) = nil THEN <<s[1], mid(s)>> ELSE <<mid(s), s[2]>>]
    <3> HIDE DEF mid
    <3> QED OBVIOUS
  <2> HIDE DEF mid, stop, value, succ, D
  <2> QED BY <2>1, <2>2, SMTT(30)
<1>6. P(search)
  <2> HIDE DEF P
  <2> QED BY <1>5
<1>7. BinarySearch(tab, a, b) = search[<<a, b>>] BY DEF BinarySearch
<1> HIDE DEF search
<1>8. ASSUME NEW s \in D
      PROVE  search[s] = IF s[2] - s[1] <= 1 THEN s[1]
                         ELSE search[IF Get(tab, mid(s)) = nil THEN <<s[1], mid(s)>>
                                     ELSE <<mid(s), s[2]>>]
  <2> HIDE DEF mid, D
  <2> QED BY <1>6
<1> DEFINE G(i, j) == Between(tab, i, j) => Border(tab, search[<<i, j>>])
           S == {c \in Nat : \A i, j \in I : j - i <= c => G(i, j)}
<1>9. ASSUME NEW i \in I, NEW j \in I, Between(tab, i, j)
      PROVE  \/ j = i + 1 /\ search[<<i, j>>] = i
             \/ \E m \in I : /\ i < m /\ m < j
                             /\ \/ Get(tab, m) = nil /\ search[<<i, j>>] = search[<<i, m>>]
                                \/ Get(tab, m) # nil /\ search[<<i, j>>] = search[<<m, j>>]
  <2> DEFINE s == <<i, j>>
             m == (i + j) \div 2
  <2>1. s \in D /\ s[1] = i /\ s[2] = j OBVIOUS
  <2>2. search[s] = IF j - i <= 1 THEN i
                    ELSE search[IF Get(tab, m) = nil THEN <<i, m>> ELSE <<m, j>>]
    <3> HIDE DEF s, D
    <3> QED BY <1>8, <2>1
  <2>3. i \in Nat /\ j \in Nat /\ i < j BY <1>9 DEF Between
  <2>4. CASE j - i <= 1 BY <2>2, <2>3, <2>4
  <2>5. CASE ~(j - i <= 1)
    <3>1. i < m /\ m < j /\ m \in I BY <1>1, <2>3, <2>5
    <3> HIDE DEF m
    <3> QED BY <2>2, <2>5, <3>1
  <2> QED BY <2>4, <2>5
<1> HIDE DEF P
<1>10. 0 \in S
  <2>1. ASSUME NEW i \in I, NEW j \in I, j - i <= 0 PROVE G(i, j)
    <3>1. ~(i < j) BY <1>1, <2>1
    <3> QED BY <3>1 DEF Between
  <2> HIDE DEF G
  <2> QED BY <2>1
<1>11. ASSUME NEW c \in Nat, c \in S PROVE c + 1 \in S
  <2>1. ASSUME NEW i \in I, NEW j \in I, j - i <= c + 1, Between(tab, i, j)
        PROVE  Border(tab, search[<<i, j>>])
    <3>1. i \in Nat /\ j \in Nat BY <2>1 DEF Between
    <3>2. CASE j = i + 1 /\ search[<<i, j>>] = i BY <2>1, <3>1, <3>2 DEF Between, Border
    <3>3. CASE \E m \in I : /\ i < m /\ m < j
                            /\ \/ Get(tab, m) = nil /\ search[<<i, j>>] = search[<<i, m>>]
                               \/ Get(tab, m) # nil /\ search[<<i, j>>] = search[<<m, j>>]
      <4>1. PICK m \in I : /\ i < m /\ m < j
                           /\ \/ Get(tab, m) = nil /\ search[<<i, j>>] = search[<<i, m>>]
                              \/ Get(tab, m) # nil /\ search[<<i, j>>] = search[<<m, j>>]
        BY <3>3
      <4>2. m \in Nat /\ m - i <= c /\ j - m <= c
        <5>1. m \in Nat BY <1>1
        <5> QED BY <2>1, <3>1, <4>1, <5>1
      <4>3. G(i, m) /\ G(m, j) BY <1>11, <4>2
      <4>4. CASE Get(tab, m) = nil /\ search[<<i, j>>] = search[<<i, m>>]
        <5>1. Between(tab, i, m) BY <2>1, <4>1, <4>2, <4>4 DEF Between
        <5> QED BY <4>3, <4>4, <5>1
      <4>5. CASE Get(tab, m) # nil /\ search[<<i, j>>] = search[<<m, j>>]
        <5>1. Between(tab, m, j) BY <2>1, <4>1, <4>2, <4>5 DEF Between
        <5> QED BY <4>3, <4>5, <5>1
      <4> QED BY <4>1, <4>4, <4>5
    <3> QED BY <1>9, <2>1, <3>2, <3>3
  <2>2. \A i, j \in I : j - i <= c + 1 => G(i, j) BY <2>1
  <2> HIDE DEF G
  <2> QED BY <2>2
<1>12. b \in S
  <2> HIDE DEF S
  <2>1. \A i \in Nat : i < b /\ i \in S => i + 1 \in S BY <1>11
  <2>2. \A i \in 0..b : i \in S BY <1>1, <1>10, <2>1, Rising
  <2> QED BY <1>1, <2>2
<1>13. b - a <= b BY <1>1
<1>14. G(a, b)
  <2> HIDE DEF G
  <2> QED BY <1>1, <1>12, <1>13
<1> QED BY <1>7, <1>14

(* No index from some point on is in the table. *)
LEMMA Bounded ==
  ASSUME NEW tab, Sound(tab)
  PROVE  \E B \in Nat : \A i \in Nat : i > B => Get(tab, i) = nil
<1> DEFINE U == Used(tab) \cap Nat
<1>1. IsFiniteSet(U)
  <2>1. Used(tab) \in SUBSET Keys /\ IsFiniteSet(Used(tab)) BY UsedFinite
  <2>2. U \in SUBSET Used(tab) OBVIOUS
  <2> HIDE DEF U
  <2> QED BY <2>1, <2>2, FS_Subset
<1>2. \A i \in Nat : Get(tab, i) # nil => i \in U BY DEF Get, Used
<1>3. U \in SUBSET Nat OBVIOUS
<1> HIDE DEF U
<1>4. PICK m \in Nat : \E g : g \in Bijection(1..m, U)
  <2>1. Cardinality(U) \in Nat BY <1>1, FS_CardinalityType
  <2>2. ExistsBijection(1..Cardinality(U), U) BY <1>1, FS_CardinalityType
  <2> QED BY <2>1, <2>2 DEF ExistsBijection
<1>5. PICK g : g \in Bijection(1..m, U) BY <1>4
<1>6. g \in [1..m -> U] /\ \A y \in U : \E x \in 1..m : g[x] = y
  BY <1>5 DEF Bijection, Injection, Surjection
<1> DEFINE S == {c \in Nat : c <= m => \E B \in Nat : \A x \in 1..c : g[x] <= B}
<1>7. 0 \in S
  <2>1. \A x \in 1..0 : g[x] <= 0 OBVIOUS
  <2> QED BY <2>1
<1>8. ASSUME NEW c \in Nat, c < m, c \in S PROVE c + 1 \in S
  <2>1. PICK B \in Nat : \A x \in 1..c : g[x] <= B BY <1>8
  <2>2. \A x \in 1..m : g[x] \in Nat BY <1>3, <1>6
  <2>3. c + 1 \in 1..m BY <1>8
  <2> DEFINE last == g[c + 1]
             C == B + last
  <2>4. last \in Nat BY <2>2, <2>3
  <2>5. ASSUME NEW x \in 1..(c + 1) PROVE g[x] <= C
    <3>1. CASE x = c + 1
      <4>1. g[x] = last BY <3>1
      <4> HIDE DEF last
      <4> QED BY <2>4, <4>1
    <3>2. CASE x # c + 1
      <4>1. x \in 1..c /\ x \in 1..m BY <1>8, <3>2
      <4>2. g[x] <= B /\ g[x] \in Nat BY <2>1, <2>2, <4>1
      <4> HIDE DEF last
      <4> QED BY <2>4, <4>2
    <3> QED BY <3>1, <3>2
  <2>6. C \in Nat
    <3> HIDE DEF last
    <3> QED BY <2>4
  <2> HIDE DEF last, C
  <2> QED BY <2>5, <2>6
<1>9. m \in S
  <2> HIDE DEF S
  <2>1. \A i \in Nat : i < m /\ i \in S => i + 1 \in S BY <1>8
  <2>2. \A i \in 0..m : i \in S BY <1>7, <2>1, Rising
  <2> QED BY <2>2
<1>10. PICK B \in Nat : \A x \in 1..m : g[x] <= B BY <1>9
<1>11. ASSUME NEW i \in Nat, i > B PROVE Get(tab, i) = nil
  <2> SUFFICES ASSUME Get(tab, i) # nil PROVE FALSE OBVIOUS
  <2>1. PICK x \in 1..m : g[x] = i BY <1>2, <1>6
  <2>2. i <= B BY <1>10, <2>1
  <2> QED BY <1>11, <2>2
<1> QED BY <1>11

LEMMA UnboundOK ==
  ASSUME NEW tab, Sound(tab), NEW n \in Nat, n = 0 \/ Get(tab, n) # nil
  PROVE  Border(tab, unbound_search(tab, n))
<1> DEFINE D == Nat \X Nat
           stop == {s \in D : Get(tab, s[2]) = nil}
           value == [s \in D |-> BinarySearch(tab, s[1], s[2])]
           succ == [s \in D |-> <<s[2], 2 * s[2]>>]
           P(f) == f = [s \in D |-> IF Get(tab, s[2]) = nil THEN BinarySearch(tab, s[1], s[2])
                                    ELSE f[<<s[2], 2 * s[2]>>]]
           from == CHOOSE f : P(f)
<1>1. succ \in [D -> D] OBVIOUS
<1>2. PICK f : Loop(f, D, stop, succ, value)
  <2> HIDE DEF D, stop, succ, value
  <2> QED BY <1>1, Iteration
<1>3. P(f)
  <2>1. f = [s \in D |-> IF s \in stop THEN value[s] ELSE f[succ[s]]] BY <1>2 DEF Loop
  <2>2. ASSUME NEW s \in D
        PROVE  (IF s \in stop THEN value[s] ELSE f[succ[s]])
               = IF Get(tab, s[2]) = nil THEN BinarySearch(tab, s[1], s[2])
                 ELSE f[<<s[2], 2 * s[2]>>]
    OBVIOUS
  <2> HIDE DEF stop, value, succ, D
  <2> QED BY <2>1, <2>2
<1>4. P(from)
  <2> HIDE DEF P
  <2> QED BY <1>3
<1>5. unbound_search(tab, n) = from[<<n, n + 1>>] BY DEF unbound_search
<1> HIDE DEF from
<1>6. ASSUME NEW i \in Nat, NEW j \in Nat
      PROVE  from[<<i, j>>] = IF Get(tab, j) = nil THEN BinarySearch(tab, i, j)
                              ELSE from[<<j, 2 * j>>]
  <2> DEFINE s == <<i, j>>
  <2>1. s \in D /\ s[1] = i /\ s[2] = j OBVIOUS
  <2>2. \A x \in D : from[x] = IF Get(tab, x[2]) = nil THEN BinarySearch(tab, x[1], x[2])
                               ELSE from[<<x[2], 2 * x[2]>>]
    BY <1>4
  <2> HIDE DEF D, s, P
  <2>3. from[s] = IF Get(tab, j) = nil THEN BinarySearch(tab, i, j) ELSE from[<<j, 2 * j>>]
    BY <2>1, <2>2
  <2> QED BY <2>3 DEF s
<1> HIDE DEF P
<1>7. PICK B \in Nat : \A i \in Nat : i > B => Get(tab, i) = nil BY Bounded
<1> DEFINE Low(i, j) == i < j /\ (i = 0 \/ Get(tab, i) # nil)
           S == {c \in Nat : \A i, j \in Nat : B - j < c /\ Low(i, j) => Border(tab, from[<<i, j>>])}
<1>8. ASSUME NEW i \in Nat, NEW j \in Nat, Low(i, j), Get(tab, j) = nil
      PROVE  Border(tab, from[<<i, j>>])
  <2>1. Between(tab, i, j) BY <1>8 DEF Between
  <2>2. Border(tab, BinarySearch(tab, i, j)) BY <2>1, SearchOK
  <2>3. from[<<i, j>>] = BinarySearch(tab, i, j) BY <1>6, <1>8
  <2> QED BY <2>2, <2>3
<1>9. 0 \in S
  <2> SUFFICES ASSUME NEW i \in Nat, NEW j \in Nat, B - j < 0, Low(i, j)
               PROVE  Border(tab, from[<<i, j>>])
    OBVIOUS
  <2>1. j > B BY <1>7
  <2>2. Get(tab, j) = nil BY <1>7, <2>1
  <2> QED BY <1>8, <2>2
<1>10. ASSUME NEW c \in Nat, c \in S PROVE c + 1 \in S
  <2> SUFFICES ASSUME NEW i \in Nat, NEW j \in Nat, B - j < c + 1, Low(i, j)
               PROVE  Border(tab, from[<<i, j>>])
    OBVIOUS
  <2>1. CASE Get(tab, j) = nil BY <1>8, <2>1
  <2>2. CASE Get(tab, j) # nil
    <3>1. from[<<i, j>>] = from[<<j, 2 * j>>] BY <1>6, <2>2
    <3>2. 2 * j \in Nat /\ j < 2 * j /\ B - 2 * j < c OBVIOUS
    <3>3. Low(j, 2 * j) BY <2>2, <3>2
    <3> DEFINE k == 2 * j
    <3>4. k \in Nat /\ B - k < c /\ Low(j, k) BY <3>2, <3>3
    <3> HIDE DEF k
    <3>5. Border(tab, from[<<j, k>>]) BY <1>10, <3>4
    <3> QED BY <3>1, <3>5 DEF k
  <2> QED BY <2>1, <2>2
<1>11. B + 1 \in S
  <2> HIDE DEF S
  <2>1. \A i \in Nat : i < B + 1 /\ i \in S => i + 1 \in S BY <1>10
  <2>2. \A i \in 0..(B + 1) : i \in S BY <1>9, <2>1, Rising
  <2> QED BY <2>2
<1>12. n + 1 \in Nat /\ B - (n + 1) < B + 1 /\ Low(n, n + 1) OBVIOUS
<1> QED BY <1>5, <1>11, <1>12

(* luaH_getn returns a border. *)
LEMMA GetnOK ==
  ASSUME NEW tab, Sound(tab)
  PROVE  Border(tab, luaH_getn(tab)) /\ (luaH_getn(tab) # 0 => luaH_getn(tab) \in Indices)
<1> DEFINE j == sizearray(tab)
           n == luaH_getn(tab)
<1>1. ArrayOK(tab) /\ FreeOK(tab) /\ Shape(tab.node, Main(tab)) BY DEF Sound
<1>2. j \in Nat /\ j = Len(tab.array) BY <1>1 DEF ArrayOK, sizearray
<1>3. ASSUME j > 0 PROVE Get(tab, j) = tab.array[j]
  <2>1. CASE j \in Keys
    <3>1. InArray(tab, j) BY <1>2, <1>3, <2>1 DEF InArray, Indices, Numbers
    <3> QED BY <2>1, <3>1 DEF Get, luaH_get
  <2>2. CASE j \notin Keys
    <3>1. j \in 1..Len(tab.array) BY <1>2, <1>3
    <3>2. tab.array[j] = nil BY <1>1, <2>2, <3>1 DEF ArrayOK
    <3> QED BY <2>2, <3>2 DEF Get
  <2> QED BY <2>1, <2>2
<1>4. Border(tab, n)
  <2>1. CASE j > 0 /\ tab.array[j] = nil
    <3>1. n = BinarySearch(tab, 0, j) BY <2>1 DEF luaH_getn
    <3>2. Between(tab, 0, j) BY <1>2, <1>3, <2>1 DEF Between
    <3> QED BY <3>1, <3>2, SearchOK
  <2>2. CASE ~(j > 0 /\ tab.array[j] = nil) /\ tab.dummy
    <3>1. n = j BY <2>2 DEF luaH_getn
    <3>2. j = 0 \/ Get(tab, j) # nil BY <1>2, <1>3, <2>2
    <3>3. ASSUME NEW k \in Keys, ~InArray(tab, k) PROVE luaH_get(tab, k) = nil
      <4>1. Find(tab, k) = NULL
        <5> SUFFICES ASSUME Find(tab, k) # NULL PROVE FALSE OBVIOUS
        <5>1. Find(tab, k) \in DOMAIN tab.node /\ tab.node[Find(tab, k)].key = k
          BY <1>1, FindLives
        <5>2. Nodes(tab) = {0} /\ tab.node[0].key = Absent BY <1>1, <2>2 DEF FreeOK
        <5> QED BY <5>1, <5>2, Types DEF Nodes
      <4> QED BY <3>3, <4>1 DEF luaH_get
    <3>4. ~InArray(tab, j + 1) BY <1>2 DEF InArray
    <3>5. Get(tab, j + 1) = nil BY <3>3, <3>4 DEF Get
    <3> QED BY <1>2, <3>1, <3>2, <3>5 DEF Border
  <2>3. CASE ~(j > 0 /\ tab.array[j] = nil) /\ ~tab.dummy
    <3>1. n = unbound_search(tab, j) BY <2>3 DEF luaH_getn
    <3>2. j = 0 \/ Get(tab, j) # nil BY <1>2, <1>3, <2>3
    <3> QED BY <1>2, <3>1, <3>2, UnboundOK
  <2> QED BY <2>1, <2>2, <2>3
<1>5. n # 0 => n \in Indices BY <1>4 DEF Border, Get, Indices, Numbers
<1> QED BY <1>4, <1>5

------------------------------------------------------------------------------
(* The loops of OP_SETLIST, table.insert and table.remove *)

Shifted(by, u, i) == Set(u, i, luaH_get(u, i + by))

FillRun(r, v, base, es, m) ==
  /\ r[0] = base /\ FoldLeft(LAMBDA u, i : Set(u, i, v), base, es) = r[m]
  /\ \A i \in Nat : i < m => r[i + 1] = Set(r[i], es[i + 1], v)

LEMMA FoldFill ==
  ASSUME NEW v, NEW base, NEW m \in Nat, NEW es, DOMAIN es = 1..m
  PROVE  \E r : FillRun(r, v, base, es, m)
<1> DEFINE Step(it, s) == Set(it[s \ {Max(s)}], es[Max(s)], v)
           E(it, c) == it = [s \in SUBSET (1..c) |-> IF s = {} THEN base ELSE Step(it, s)]
           S == {c \in Nat : \E it : E(it, c)}
<1>1. 0 \in S
  <2> DEFINE it == [s \in SUBSET (1..0) |-> base]
  <2>1. \A s \in SUBSET (1..0) : s = {} OBVIOUS
  <2> HIDE DEF Step
  <2>2. E(it, 0) BY <2>1
  <2> HIDE DEF E
  <2> QED BY <2>2
<1>2. ASSUME NEW c \in Nat, c \in S PROVE c + 1 \in S
  <2>1. PICK it : E(it, c) BY <1>2
  <2> DEFINE T == SUBSET (1..c)
             U == SUBSET (1..(c + 1))
             new == [s \in U |-> IF c + 1 \in s THEN Set(it[s \ {c + 1}], es[c + 1], v)
                                 ELSE it[s]]
  <2>2. \A s \in T : it[s] = IF s = {} THEN base ELSE Set(it[s \ {Max(s)}], es[Max(s)], v)
    BY <2>1
  <2>3. ASSUME NEW s \in U
        PROVE  new[s] = IF s = {} THEN base ELSE Set(new[s \ {Max(s)}], es[Max(s)], v)
    <3>1. CASE c + 1 \in s
      <4>1. Max(s) = c + 1 /\ s \ {c + 1} \in U BY <3>1, TopOf
      <4>2. new[s] = Set(it[s \ {c + 1}], es[c + 1], v) BY <3>1
      <4>3. new[s \ {c + 1}] = it[s \ {c + 1}] BY <4>1
      <4> HIDE DEF new
      <4> QED BY <3>1, <4>1, <4>2, <4>3
    <3>2. CASE c + 1 \notin s
      <4>1. s \in T /\ (s # {} => Max(s) \in s) BY <3>2, TopOf
      <4>2. new[s] = it[s] /\ new[s \ {Max(s)}] = it[s \ {Max(s)}] BY <3>2, <4>1
      <4> HIDE DEF new
      <4> QED BY <2>2, <4>1, <4>2
    <3> QED BY <3>1, <3>2
  <2>4. new = [s \in U |-> new[s]] OBVIOUS
  <2> HIDE DEF new
  <2>5. new = [s \in U |-> IF s = {} THEN base ELSE Set(new[s \ {Max(s)}], es[Max(s)], v)]
    BY <2>3, <2>4
  <2>6. E(new, c + 1) BY <2>5
  <2> HIDE DEF E
  <2> QED BY <2>6
<1>3. m \in S
  <2> HIDE DEF S
  <2>1. \A i \in Nat : i < m /\ i \in S => i + 1 \in S BY <1>2
  <2>2. \A i \in 0..m : i \in S BY <1>1, <2>1, Rising
  <2> QED BY <2>2
<1> DEFINE fold == CHOOSE it : E(it, m)
           r == [i \in 0..m |-> fold[1..i]]
<1>4. E(fold, m)
  <2> HIDE DEF E
  <2> QED BY <1>3
<1>5. FoldLeft(LAMBDA u, i : Set(u, i, v), base, es) = fold[1..m] BY DEF FoldLeft, MapThenFoldSet
<1> HIDE DEF fold
<1>6. \A s \in SUBSET (1..m) :
        fold[s] = IF s = {} THEN base ELSE Set(fold[s \ {Max(s)}], es[Max(s)], v)
  BY <1>4
<1>7. r[0] = base /\ r[m] = fold[1..m]
  <2>1. 1..0 = {} OBVIOUS
  <2>2. fold[{}] = base BY <1>6
  <2> QED BY <2>1, <2>2
<1>8. ASSUME NEW i \in Nat, i < m PROVE r[i + 1] = Set(r[i], es[i + 1], v)
  <2>1. /\ 1..(i + 1) \in SUBSET (1..m) /\ 1..(i + 1) # {}
        /\ Max(1..(i + 1)) = i + 1 /\ (1..(i + 1)) \ {i + 1} = 1..i
    BY <1>8, FirstOnes
  <2>2. r[i + 1] = fold[1..(i + 1)] /\ r[i] = fold[1..i] BY <1>8
  <2> HIDE DEF r
  <2> QED BY <1>6, <2>1, <2>2
<1> HIDE DEF r
<1> QED BY <1>5, <1>7, <1>8 DEF FillRun

ShiftRun(r, by, base, es, m) ==
  /\ r[0] = base /\ Shift(base, by, es) = r[m]
  /\ \A i \in Nat : i < m => r[i + 1] = Shifted(by, r[i], es[i + 1])

LEMMA FoldShift ==
  ASSUME NEW by, NEW base, NEW m \in Nat, NEW es, DOMAIN es = 1..m
  PROVE  \E r : ShiftRun(r, by, base, es, m)
<1> DEFINE Step(it, s) == Shifted(by, it[s \ {Max(s)}], es[Max(s)])
           E(it, c) == it = [s \in SUBSET (1..c) |-> IF s = {} THEN base ELSE Step(it, s)]
           S == {c \in Nat : \E it : E(it, c)}
<1>1. 0 \in S
  <2> DEFINE it == [s \in SUBSET (1..0) |-> base]
  <2>1. \A s \in SUBSET (1..0) : s = {} OBVIOUS
  <2> HIDE DEF Step
  <2>2. E(it, 0) BY <2>1
  <2> HIDE DEF E
  <2> QED BY <2>2
<1>2. ASSUME NEW c \in Nat, c \in S PROVE c + 1 \in S
  <2>1. PICK it : E(it, c) BY <1>2
  <2> DEFINE T == SUBSET (1..c)
             U == SUBSET (1..(c + 1))
             new == [s \in U |-> IF c + 1 \in s THEN Shifted(by, it[s \ {c + 1}], es[c + 1])
                                 ELSE it[s]]
  <2>2. \A s \in T : it[s] = IF s = {} THEN base ELSE Shifted(by, it[s \ {Max(s)}], es[Max(s)])
    BY <2>1
  <2>3. ASSUME NEW s \in U
        PROVE  new[s] = IF s = {} THEN base ELSE Shifted(by, new[s \ {Max(s)}], es[Max(s)])
    <3>1. CASE c + 1 \in s
      <4>1. Max(s) = c + 1 /\ s \ {c + 1} \in U BY <3>1, TopOf
      <4>2. new[s] = Shifted(by, it[s \ {c + 1}], es[c + 1]) BY <3>1
      <4>3. new[s \ {c + 1}] = it[s \ {c + 1}] BY <4>1
      <4> HIDE DEF new
      <4> QED BY <3>1, <4>1, <4>2, <4>3
    <3>2. CASE c + 1 \notin s
      <4>1. s \in T /\ (s # {} => Max(s) \in s) BY <3>2, TopOf
      <4>2. new[s] = it[s] /\ new[s \ {Max(s)}] = it[s \ {Max(s)}] BY <3>2, <4>1
      <4> HIDE DEF new
      <4> QED BY <2>2, <4>1, <4>2
    <3> QED BY <3>1, <3>2
  <2>4. new = [s \in U |-> new[s]] OBVIOUS
  <2> HIDE DEF new
  <2>5. new = [s \in U |-> IF s = {} THEN base ELSE Shifted(by, new[s \ {Max(s)}], es[Max(s)])]
    BY <2>3, <2>4
  <2>6. E(new, c + 1) BY <2>5
  <2> HIDE DEF E
  <2> QED BY <2>6
<1>3. m \in S
  <2> HIDE DEF S
  <2>1. \A i \in Nat : i < m /\ i \in S => i + 1 \in S BY <1>2
  <2>2. \A i \in 0..m : i \in S BY <1>1, <2>1, Rising
  <2> QED BY <2>2
<1> DEFINE fold == CHOOSE it : E(it, m)
           r == [i \in 0..m |-> fold[1..i]]
<1>4. E(fold, m)
  <2> HIDE DEF E
  <2> QED BY <1>3
<1>5. Shift(base, by, es) = fold[1..m] BY DEF Shift, Shifted, FoldLeft, MapThenFoldSet
<1> HIDE DEF fold
<1>6. \A s \in SUBSET (1..m) :
        fold[s] = IF s = {} THEN base ELSE Shifted(by, fold[s \ {Max(s)}], es[Max(s)])
  BY <1>4
<1>7. r[0] = base /\ r[m] = fold[1..m]
  <2>1. 1..0 = {} OBVIOUS
  <2>2. fold[{}] = base BY <1>6
  <2> QED BY <2>1, <2>2
<1>8. ASSUME NEW i \in Nat, i < m PROVE r[i + 1] = Shifted(by, r[i], es[i + 1])
  <2>1. /\ 1..(i + 1) \in SUBSET (1..m) /\ 1..(i + 1) # {}
        /\ Max(1..(i + 1)) = i + 1 /\ (1..(i + 1)) \ {i + 1} = 1..i
    BY <1>8, FirstOnes
  <2>2. r[i + 1] = fold[1..(i + 1)] /\ r[i] = fold[1..i] BY <1>8
  <2> HIDE DEF r
  <2> QED BY <1>6, <2>1, <2>2
<1> HIDE DEF r
<1> QED BY <1>5, <1>7, <1>8 DEF ShiftRun

(* The first n elements, from the last one down, are v. *)
LEMMA FillOK ==
  ASSUME NEW tab, Sound(tab), NEW n \in Indices, NEW v \in Content
  PROVE  LET new == FoldLeft(LAMBDA u, i : Set(u, i, v), tab, [i \in 1..n |-> n + 1 - i]) IN
           /\ Sound(new)
           /\ \A x \in Keys : luaH_get(new, x) = IF x \in 1..n THEN v ELSE luaH_get(tab, x)
<1> DEFINE es == [i \in 1..n |-> n + 1 - i]
           new == FoldLeft(LAMBDA u, i : Set(u, i, v), tab, es)
<1>1. n \in Nat /\ n \in Numbers /\ DOMAIN es = 1..n BY Types
<1>2. PICK r : FillRun(r, v, tab, es, n)
  <2> HIDE DEF es
  <2> QED BY <1>1, FoldFill, Zenon
<1>3. /\ r[0] = tab /\ r[n] = new
      /\ \A i \in Nat : i < n => r[i + 1] = Set(r[i], es[i + 1], v)
  BY <1>2 DEF FillRun
<1> HIDE DEF new
<1> DEFINE P(c) == /\ Sound(r[c])
                   /\ \A x \in Keys : luaH_get(r[c], x) = IF x \in (n + 1 - c)..n THEN v ELSE luaH_get(tab, x)
           S == {c \in Nat : c <= n => P(c)}
<1>4. 0 \in S
  <2>1. (n + 1 - 0)..n = {} BY <1>1
  <2>2. P(0) BY <1>3, <2>1
  <2> QED BY <2>2
<1>5. ASSUME NEW c \in Nat, c < n, c \in S PROVE c + 1 \in S
  <2> DEFINE k == n - c
  <2>1. k \in 1..n /\ k \in Keys
    <3>1. k \in 1..n BY <1>1, <1>5
    <3> QED BY <1>1, <3>1, Types
  <2>2. es[c + 1] = k BY <1>1, <1>5
  <2>3. P(c)
    <3>1. c <= n BY <1>1, <1>5
    <3> HIDE DEF P
    <3> QED BY <1>5, <3>1
  <2>4. r[c + 1] = Set(r[c], k, v) BY <1>3, <1>5, <2>2
  <2>5. \A x : x \in (n + 1 - (c + 1))..n <=> x = k \/ x \in (n + 1 - c)..n BY <1>1, <1>5
  <2> HIDE DEF k
  <2>6. Sound(r[c + 1]) /\ Assigned(r[c], r[c + 1], k, v)
    <3>1. Sound(r[c]) BY <2>3
    <3> HIDE DEF P, S, es
    <3> QED BY <2>1, <2>4, <3>1, SetOK
  <2>7. P(c + 1) BY <2>3, <2>5, <2>6 DEF Assigned
  <2> HIDE DEF P
  <2> QED BY <2>7
<1>6. n \in S
  <2> HIDE DEF S
  <2>1. \A i \in Nat : i < n /\ i \in S => i + 1 \in S BY <1>5
  <2>2. \A i \in 0..n : i \in S BY <1>1, <1>4, <2>1, Rising
  <2> QED BY <1>1, <2>2
<1>7. n + 1 - n = 1 BY <1>1
<1>8. /\ Sound(new)
      /\ \A x \in Keys : luaH_get(new, x) = IF x \in 1..n THEN v ELSE luaH_get(tab, x)
  BY <1>1, <1>3, <1>6, <1>7
<1> QED BY <1>8 DEF new

(* The elements from pos on, to e - 1, move up. *)
LEMMA ShiftUp ==
  ASSUME NEW tab, Sound(tab), NEW pos \in Indices, NEW e \in Indices, pos <= e
  PROVE  LET new == Shift(tab, -1, [i \in 1..(e - pos) |-> e + 1 - i]) IN
           /\ Sound(new)
           /\ \A x \in Keys : luaH_get(new, x) = IF x \in (pos + 1)..e THEN luaH_get(tab, x - 1)
                                                 ELSE luaH_get(tab, x)
<1> DEFINE m == e - pos
           es == [i \in 1..m |-> e + 1 - i]
           new == Shift(tab, -1, es)
<1>1. pos \in Nat /\ e \in Nat /\ e \in Numbers /\ m \in Nat /\ DOMAIN es = 1..m /\ pos # 0
  <2>1. pos \in Nat /\ e \in Nat /\ e \in Numbers /\ pos # 0 BY Types
  <2> QED BY <2>1
<1>2. PICK r : ShiftRun(r, -1, tab, es, m)
  <2> HIDE DEF es, m
  <2> QED BY <1>1, FoldShift, Zenon
<1>3. /\ r[0] = tab /\ r[m] = new
      /\ \A i \in Nat : i < m => r[i + 1] = Shifted(-1, r[i], es[i + 1])
  BY <1>2 DEF ShiftRun
<1> HIDE DEF new
<1> DEFINE P(c) == /\ Sound(r[c])
                   /\ \A x \in Keys : luaH_get(r[c], x) = IF x \in (e + 1 - c)..e THEN luaH_get(tab, x - 1)
                                                          ELSE luaH_get(tab, x)
           S == {c \in Nat : c <= m => P(c)}
<1>4. 0 \in S
  <2>1. (e + 1 - 0)..e = {} BY <1>1
  <2>2. P(0) BY <1>3, <2>1
  <2> QED BY <2>2
<1>5. ASSUME NEW c \in Nat, c < m, c \in S PROVE c + 1 \in S
  <2> DEFINE k == e - c
             v == luaH_get(r[c], k - 1)
  <2>1. k \in 1..e /\ k - 1 \in 0..e /\ k - 1 < e + 1 - c BY <1>1, <1>5
  <2>2. k \in Keys /\ k - 1 \in Keys
    <3> HIDE DEF k
    <3> QED BY <1>1, <2>1, Types
  <2>3. es[c + 1] = k BY <1>1, <1>5
  <2>4. P(c)
    <3>1. c <= m BY <1>1, <1>5
    <3> HIDE DEF P, m
    <3> QED BY <1>5, <3>1
  <2>5. r[c + 1] = Set(r[c], k, v)
    <3>1. r[c + 1] = Shifted(-1, r[c], k) BY <1>3, <1>5, <2>3
    <3>2. k + -1 = k - 1 BY <1>1
    <3> HIDE DEF P, S, k
    <3> QED BY <3>1, <3>2 DEF Shifted
  <2>6. v = luaH_get(tab, k - 1) /\ v \in Content
    <3>1. k - 1 \notin (e + 1 - c)..e BY <1>1, <1>5
    <3>2. v = luaH_get(tab, k - 1)
      <4> HIDE DEF k
      <4> QED BY <2>2, <2>4, <3>1
    <3> HIDE DEF v, k
    <3> QED BY <2>2, <3>2, GetType
  <2>7. \A x : x \in (e + 1 - (c + 1))..e <=> x = k \/ x \in (e + 1 - c)..e BY <1>1, <1>5
  <2> HIDE DEF k, v
  <2>8. Sound(r[c + 1]) /\ Assigned(r[c], r[c + 1], k, v)
    <3>1. Sound(r[c]) BY <2>4
    <3> HIDE DEF P, S, es
    <3> QED BY <2>2, <2>5, <2>6, <3>1, SetOK
  <2>9. P(c + 1) BY <2>4, <2>6, <2>7, <2>8 DEF Assigned
  <2> HIDE DEF P
  <2> QED BY <2>9
<1>6. m \in S
  <2> HIDE DEF S, m
  <2>1. \A i \in Nat : i < m /\ i \in S => i + 1 \in S BY <1>5
  <2>2. \A i \in 0..m : i \in S BY <1>1, <1>4, <2>1, Rising
  <2> QED BY <1>1, <2>2
<1>7. e + 1 - m = pos + 1 BY <1>1
<1>8. /\ Sound(new)
      /\ \A x \in Keys : luaH_get(new, x) = IF x \in (pos + 1)..e THEN luaH_get(tab, x - 1)
                                            ELSE luaH_get(tab, x)
  <2>1. P(m) BY <1>1, <1>6
  <2> HIDE DEF m
  <2> QED BY <1>3, <1>7, <2>1
<1> QED BY <1>8 DEF new

(* The elements above pos, to e, move down. *)
LEMMA ShiftDown ==
  ASSUME NEW tab, Sound(tab), NEW e \in Indices, NEW pos \in 1..e
  PROVE  LET new == Shift(tab, 1, [i \in 1..(e - pos) |-> pos + i - 1]) IN
           /\ Sound(new)
           /\ \A x \in Keys : luaH_get(new, x) = IF x \in pos..(e - 1) THEN luaH_get(tab, x + 1)
                                                 ELSE luaH_get(tab, x)
<1> DEFINE m == e - pos
           es == [i \in 1..m |-> pos + i - 1]
           new == Shift(tab, 1, es)
<1>1. pos \in Nat /\ e \in Nat /\ e \in Numbers /\ m \in Nat /\ DOMAIN es = 1..m /\ pos # 0
  <2>1. e \in Nat /\ e \in Numbers BY Types
  <2> QED BY <2>1
<1>2. PICK r : ShiftRun(r, 1, tab, es, m)
  <2> HIDE DEF es, m
  <2> QED BY <1>1, FoldShift, Zenon
<1>3. /\ r[0] = tab /\ r[m] = new
      /\ \A i \in Nat : i < m => r[i + 1] = Shifted(1, r[i], es[i + 1])
  BY <1>2 DEF ShiftRun
<1> HIDE DEF new
<1> DEFINE P(c) == /\ Sound(r[c])
                   /\ \A x \in Keys : luaH_get(r[c], x) = IF x \in pos..(pos + c - 1) THEN luaH_get(tab, x + 1)
                                                          ELSE luaH_get(tab, x)
           S == {c \in Nat : c <= m => P(c)}
<1>4. 0 \in S
  <2>1. pos..(pos + 0 - 1) = {} BY <1>1
  <2>2. P(0) BY <1>3, <2>1
  <2> QED BY <2>2
<1>5. ASSUME NEW c \in Nat, c < m, c \in S PROVE c + 1 \in S
  <2> DEFINE k == pos + c
             v == luaH_get(r[c], k + 1)
  <2>1. k \in 1..e /\ k + 1 \in 0..e BY <1>1, <1>5
  <2>2. k \in Keys /\ k + 1 \in Keys
    <3> HIDE DEF k
    <3> QED BY <1>1, <2>1, Types
  <2>3. es[c + 1] = k BY <1>1, <1>5
  <2>4. P(c)
    <3>1. c <= m BY <1>1, <1>5
    <3> HIDE DEF P, m
    <3> QED BY <1>5, <3>1
  <2>5. r[c + 1] = Set(r[c], k, v)
    <3>1. r[c + 1] = Shifted(1, r[c], k) BY <1>3, <1>5, <2>3
    <3> HIDE DEF P, S, k
    <3> QED BY <3>1 DEF Shifted
  <2>6. v = luaH_get(tab, k + 1) /\ v \in Content
    <3>1. k + 1 \notin pos..(pos + c - 1) BY <1>1, <1>5
    <3>2. v = luaH_get(tab, k + 1)
      <4> HIDE DEF k
      <4> QED BY <2>2, <2>4, <3>1
    <3> HIDE DEF v, k
    <3> QED BY <2>2, <3>2, GetType
  <2>7. \A x : x \in pos..(pos + (c + 1) - 1) <=> x = k \/ x \in pos..(pos + c - 1) BY <1>1, <1>5
  <2> HIDE DEF k, v
  <2>8. Sound(r[c + 1]) /\ Assigned(r[c], r[c + 1], k, v)
    <3>1. Sound(r[c]) BY <2>4
    <3> HIDE DEF P, S, es
    <3> QED BY <2>2, <2>5, <2>6, <3>1, SetOK
  <2>9. P(c + 1) BY <2>4, <2>6, <2>7, <2>8 DEF Assigned
  <2> HIDE DEF P
  <2> QED BY <2>9
<1>6. m \in S
  <2> HIDE DEF S, m
  <2>1. \A i \in Nat : i < m /\ i \in S => i + 1 \in S BY <1>5
  <2>2. \A i \in 0..m : i \in S BY <1>1, <1>4, <2>1, Rising
  <2> QED BY <1>1, <2>2
<1>7. pos + m - 1 = e - 1 BY <1>1
<1>8. /\ Sound(new)
      /\ \A x \in Keys : luaH_get(new, x) = IF x \in pos..(e - 1) THEN luaH_get(tab, x + 1)
                                            ELSE luaH_get(tab, x)
  <2>1. P(m) BY <1>1, <1>6
  <2> HIDE DEF m
  <2> QED BY <1>3, <1>7, <2>1
<1> QED BY <1>8 DEF new

------------------------------------------------------------------------------
(* The operations *)

LEMMA ListOK ==
  ASSUME NEW tab, Sound(tab), NEW n \in Indices, NEW v \in Content
  PROVE  LET mid == IF n > sizearray(tab) THEN luaH_resizearray(tab, n) ELSE tab
             new == FoldLeft(LAMBDA u, i : Set(u, i, v), mid, [i \in 1..n |-> n + 1 - i]) IN
           /\ Sound(new)
           /\ \A x \in Keys : luaH_get(new, x) = IF x \in 1..n THEN v ELSE luaH_get(tab, x)
<1> DEFINE mid == IF n > sizearray(tab) THEN luaH_resizearray(tab, n) ELSE tab
           new == FoldLeft(LAMBDA u, i : Set(u, i, v), mid, [i \in 1..n |-> n + 1 - i])
<1>1. n \in Nat BY Types
<1>2. Sound(mid) /\ SameMap(tab, mid)
  <2>1. CASE n > sizearray(tab)
    <3>1. Sound(luaH_resizearray(tab, n)) /\ SameMap(tab, luaH_resizearray(tab, n))
      BY <1>1, <2>1, ResizeArrayOK
    <3> QED BY <2>1, <3>1
  <2>2. CASE ~(n > sizearray(tab)) BY <2>2 DEF SameMap
  <2> QED BY <2>1, <2>2
<1>3. /\ Sound(new)
      /\ \A x \in Keys : luaH_get(new, x) = IF x \in 1..n THEN v ELSE luaH_get(mid, x)
  <2> HIDE DEF mid
  <2> QED BY <1>2, FillOK
<1> HIDE DEF new, mid
<1>4. \A x \in Keys : luaH_get(new, x) = IF x \in 1..n THEN v ELSE luaH_get(tab, x)
  BY <1>2, <1>3 DEF SameMap
<1> QED BY <1>3, <1>4 DEF new, mid

LEMMA InsertOK ==
  ASSUME NEW tab, Sound(tab), NEW pos \in Indices, NEW e \in Indices, pos <= e, NEW v \in Content
  PROVE  LET new == Set(Shift(tab, -1, [i \in 1..(e - pos) |-> e + 1 - i]), pos, v) IN
           /\ Sound(new)
           /\ \A x \in Keys : luaH_get(new, x) = IF x = pos THEN v
                                ELSE IF x \in (pos + 1)..e THEN luaH_get(tab, x - 1) ELSE luaH_get(tab, x)
<1> DEFINE mid == Shift(tab, -1, [i \in 1..(e - pos) |-> e + 1 - i])
           new == Set(mid, pos, v)
<1>1. /\ Sound(mid)
      /\ \A x \in Keys : luaH_get(mid, x) = IF x \in (pos + 1)..e THEN luaH_get(tab, x - 1)
                                            ELSE luaH_get(tab, x)
  BY ShiftUp
<1> HIDE DEF mid
<1>2. pos \in Keys BY Types
<1>3. Sound(new) /\ Assigned(mid, new, pos, v) BY <1>1, <1>2, SetOK
<1> HIDE DEF new
<1>4. \A x \in Keys : luaH_get(new, x) = IF x = pos THEN v
                        ELSE IF x \in (pos + 1)..e THEN luaH_get(tab, x - 1) ELSE luaH_get(tab, x)
  BY <1>1, <1>3 DEF Assigned
<1> QED BY <1>3, <1>4 DEF new, mid

LEMMA RemoveOK ==
  ASSUME NEW tab, Sound(tab), NEW e \in Indices, NEW pos \in 1..e
  PROVE  LET new == Set(Shift(tab, 1, [i \in 1..(e - pos) |-> pos + i - 1]), e, nil) IN
           /\ Sound(new)
           /\ \A x \in Keys : luaH_get(new, x) = IF x = e THEN nil
                                ELSE IF x \in pos..(e - 1) THEN luaH_get(tab, x + 1) ELSE luaH_get(tab, x)
<1> DEFINE mid == Shift(tab, 1, [i \in 1..(e - pos) |-> pos + i - 1])
           new == Set(mid, e, nil)
<1>1. /\ Sound(mid)
      /\ \A x \in Keys : luaH_get(mid, x) = IF x \in pos..(e - 1) THEN luaH_get(tab, x + 1)
                                            ELSE luaH_get(tab, x)
  BY ShiftDown
<1> HIDE DEF mid
<1>2. e \in Keys /\ nil \in Content BY Types
<1>3. Sound(new) /\ Assigned(mid, new, e, nil) BY <1>1, <1>2, SetOK
<1> HIDE DEF new
<1>4. \A x \in Keys : luaH_get(new, x) = IF x = e THEN nil
                        ELSE IF x \in pos..(e - 1) THEN luaH_get(tab, x + 1) ELSE luaH_get(tab, x)
  BY <1>1, <1>3 DEF Assigned
<1> QED BY <1>3, <1>4 DEF new, mid

Swept(nd) ==
  [n \in DOMAIN nd |-> IF nd[n].val = nil /\ nd[n].key \notin Numbers \cup {Absent}
                       THEN [nd[n] EXCEPT !.dead = TRUE] ELSE nd[n]]

(* The collector's marks change neither what is found nor where. *)
LEMMA SweepOK ==
  ASSUME NEW tab, Sound(tab)
  PROVE  LET new == [tab EXCEPT !.node = Swept(tab.node)] IN
           Sound(new) /\ SameMap(tab, new) /\ Repainted(tab.node, new.node)
           /\ Len(new.array) = Len(tab.array)
           /\ \A n \in DOMAIN tab.node : new.node[n].val = tab.node[n].val
<1> DEFINE nd == tab.node
           sw == Swept(nd)
           new == [tab EXCEPT !.node = sw]
<1>1. /\ Fields(tab, tab.array, nd, tab.lastfree, tab.dummy, FALSE) /\ Shape(nd, Main(tab))
  BY DEF Sound
<1>2. \A n \in DOMAIN nd : nd[n] \in NodeOf(DOMAIN nd) BY <1>1, NodeTypes
<1>3. Repainted(nd, sw) /\ \A n \in DOMAIN nd : sw[n].val = nd[n].val
  <2>1. ASSUME NEW n \in DOMAIN nd
        PROVE  /\ sw[n] \in NodeOf(DOMAIN nd)
               /\ sw[n].key = nd[n].key /\ sw[n].next = nd[n].next /\ sw[n].val = nd[n].val
               /\ nd[n].key = Absent => sw[n] = nd[n]
               /\ nd[n].dead => sw[n].dead
               /\ sw[n].dead => sw[n].val = nil
    <3> DEFINE x == nd[n]
               y == sw[n]
    <3>1. x \in NodeOf(DOMAIN nd) BY <1>2
    <3>2. y = IF x.val = nil /\ x.key \notin Numbers \cup {Absent} THEN [x EXCEPT !.dead = TRUE] ELSE x
      BY DEF Swept
    <3>3. x.dead => x.val = nil BY <1>1 DEF Shape, LiveFirst
    <3> HIDE DEF x, y
    <3>4. /\ y \in NodeOf(DOMAIN nd)
          /\ y.key = x.key /\ y.next = x.next /\ y.val = x.val
          /\ x.key = Absent => y = x
          /\ x.dead => y.dead
          /\ y.dead => y.val = nil
      <4>1. CASE x.val = nil /\ x.key \notin Numbers \cup {Absent}
        <5>1. y = [x EXCEPT !.dead = TRUE] BY <3>2, <4>1
        <5>2. y \in NodeOf(DOMAIN nd) /\ y.key = x.key /\ y.next = x.next /\ y.val = x.val /\ y.dead = TRUE
          BY <3>1, <5>1 DEF NodeOf
        <5> QED BY <4>1, <5>2
      <4>2. CASE ~(x.val = nil /\ x.key \notin Numbers \cup {Absent})
        <5>1. y = x BY <3>2, <4>2
        <5> QED BY <3>1, <3>3, <5>1
      <4> QED BY <4>1, <4>2
    <3> QED BY <3>4 DEF x, y
  <2>2. sw = [n \in DOMAIN nd |-> sw[n]] BY DEF Swept
  <2> HIDE DEF sw, nd
  <2>3. sw \in [DOMAIN nd -> NodeOf(DOMAIN nd)] BY <2>1, <2>2
  <2> QED BY <2>1, <2>3 DEF Repainted
<1>4. Fields(new, tab.array, sw, tab.lastfree, tab.dummy, FALSE)
  <2> HIDE DEF sw, nd
  <2> QED BY <1>1 DEF Fields
<1> HIDE DEF new, sw
<1>5. Sound(new) BY <1>3, <1>4, RepaintedSound
<1>6. new.array = tab.array /\ new.node = sw BY <1>4, FieldsOf
<1>7. SameMap(tab, new)
  <2> SUFFICES ASSUME NEW x \in Keys PROVE luaH_get(new, x) = luaH_get(tab, x) BY DEF SameMap
  <2>1. InArray(new, x) <=> InArray(tab, x) BY <1>6 DEF InArray, sizearray
  <2>2. CASE InArray(tab, x) BY <1>6, <2>1, <2>2 DEF luaH_get
  <2>3. CASE ~InArray(tab, x)
    <3>1. ASSUME NEW w, w # nil PROVE luaH_get(new, x) = w <=> luaH_get(tab, x) = w
      <4>1. Shape(new.node, Main(new)) BY <1>5 DEF Sound
      <4>2. luaH_get(new, x) = w <=> Holds(new.node, x, w) BY <2>1, <2>3, <3>1, <4>1, GetHolds
      <4>3. luaH_get(tab, x) = w <=> Holds(nd, x, w) BY <1>1, <2>3, <3>1, GetHolds
      <4>4. Holds(sw, x, w) <=> Holds(nd, x, w)
        <5>1. DOMAIN sw = DOMAIN nd BY <1>3 DEF Repainted
        <5>2. \A n \in DOMAIN nd : /\ sw[n].key = nd[n].key /\ sw[n].val = nd[n].val
                                   /\ nd[n].dead => sw[n].dead
                                   /\ sw[n].dead => sw[n].val = nil
          BY <1>3 DEF Repainted
        <5> HIDE DEF nd
        <5> QED BY <3>1, <5>1, <5>2 DEF Holds
      <4> QED BY <1>6, <4>2, <4>3, <4>4
    <3> QED BY <3>1, ByHolding
  <2> QED BY <2>2, <2>3
<1>8. /\ Sound(new) /\ SameMap(tab, new) /\ Repainted(tab.node, new.node)
      /\ Len(new.array) = Len(tab.array)
      /\ \A n \in DOMAIN tab.node : new.node[n].val = tab.node[n].val
  BY <1>3, <1>5, <1>6, <1>7
<1> QED BY <1>8 DEF new, sw

LEMMA NewOK == Sound(luaH_new) /\ \A x \in Keys : luaH_get(luaH_new, x) = nil
<1> DEFINE new == luaH_new
           a == <<>>
<1>1. a \in [1..0 -> Content] /\ (\A i \in 1..0 : i \notin Keys => a[i] = nil) OBVIOUS
<1>2. Fields(new, a, [i \in 0..(1 - 1) |-> FreeNode], 0, TRUE, FALSE)
  <2>1. 0..(1 - 1) = {0} OBVIOUS
  <2> QED BY <2>1 DEF Fields, luaH_new
<1> HIDE DEF new, a
<1>3. Blank(new, a, 0, 1, TRUE) BY <1>1, <1>2, BlankOK
<1>4. \A x \in Keys : x \notin 1..0 OBVIOUS
<1>5. Sound(new) /\ \A x \in Keys : luaH_get(new, x) = nil BY <1>3, <1>4 DEF Blank, Staged
<1> QED BY <1>5 DEF new

------------------------------------------------------------------------------
(* The references *)

(* The numbers of F are free, and each comes after one of them or after 0. *)
FreeList(tab, F) ==
  /\ \A x \in F \cup {0} : luaH_get(tab, x) \in F \cup {nil}
  /\ \A x, y \in F \cup {0} : luaH_get(tab, x) = luaH_get(tab, y) /\ luaH_get(tab, x) # nil => x = y

References(tab, rs) ==
  /\ rs \subseteq Indices \X Objects
  /\ \A r, q \in rs : r[1] = q[1] => r = q
  /\ \A r \in rs : luaH_get(tab, r[1]) = r[2]
  /\ \E F \in SUBSET Indices : FreeList(tab, F) /\ \A r \in rs : r[1] \notin F

LEMMA NoReferences ==
  ASSUME NEW tab, luaH_get(tab, 0) = nil
  PROVE  References(tab, {})
<1>1. FreeList(tab, {}) BY DEF FreeList
<1> QED BY <1>1 DEF References

LEMMA SameReferences ==
  ASSUME NEW tab, NEW new, SameMap(tab, new), NEW rs, References(tab, rs)
  PROVE  References(new, rs)
<1>1. PICK F \in SUBSET Indices : FreeList(tab, F) /\ \A r \in rs : r[1] \notin F
  BY DEF References
<1>2. /\ rs \subseteq Indices \X Objects /\ \A r, q \in rs : r[1] = q[1] => r = q
      /\ \A r \in rs : luaH_get(tab, r[1]) = r[2]
  BY DEF References
<1>3. 0 \in Keys /\ \A x \in Indices : x \in Keys BY Types
<1>4. \A x \in F \cup {0} : luaH_get(new, x) = luaH_get(tab, x) BY <1>3 DEF SameMap
<1>5. FreeList(new, F) BY <1>1, <1>4 DEF FreeList
<1>6. \A r \in rs : luaH_get(new, r[1]) = r[2]
  <2> SUFFICES ASSUME NEW r \in rs PROVE luaH_get(new, r[1]) = r[2] OBVIOUS
  <2>1. r[1] \in Keys BY <1>2, <1>3
  <2> QED BY <1>2, <2>1 DEF SameMap
<1> QED BY <1>1, <1>2, <1>5, <1>6 DEF References

(* luaL_ref: the first free number, or one after the border *)
Referred(tab, new, ref, o) ==
  LET first == luaH_get(tab, 0) IN
    IF first = nil THEN Assigned(tab, new, ref, o)
    ELSE ref = first /\ \A x \in Keys : luaH_get(new, x) =
           IF x = ref THEN o ELSE IF x = 0 THEN luaH_get(tab, ref) ELSE luaH_get(tab, x)

LEMMA AfterBorder ==
  ASSUME NEW tab, Sound(tab), luaH_getn(tab) + 1 \in Keys
  PROVE  luaH_getn(tab) + 1 \in Indices /\ luaH_get(tab, luaH_getn(tab) + 1) = nil
<1> DEFINE n == luaH_getn(tab)
<1>1. n \in Nat /\ Get(tab, n + 1) = nil BY GetnOK DEF Border
<1> HIDE DEF n
<1>2. n + 1 \in Nat /\ n + 1 # 0 BY <1>1
<1> QED BY <1>1, <1>2 DEF Get, Indices, Numbers, n

LEMMA RefOK ==
  ASSUME NEW tab, Sound(tab), NEW rs, References(tab, rs), NEW o \in Objects
  PROVE  LET first  == Get(tab, 0)
             ref    == IF first = nil THEN luaH_getn(tab) + 1 ELSE first
             popped == IF first = nil THEN tab ELSE Set(tab, 0, luaH_get(tab, first))
             new    == Set(popped, ref, o)
         IN ref \in Keys => Sound(new) /\ Referred(tab, new, ref, o) /\ References(new, rs \cup {<<ref, o>>})
                            /\ ref \in Indices
<1> DEFINE first  == Get(tab, 0)
           ref    == IF first = nil THEN luaH_getn(tab) + 1 ELSE first
           popped == IF first = nil THEN tab ELSE Set(tab, 0, luaH_get(tab, first))
           new    == Set(popped, ref, o)
           more   == rs \cup {<<ref, o>>}
<1> SUFFICES ASSUME ref \in Keys
             PROVE  Sound(new) /\ Referred(tab, new, ref, o) /\ References(new, more) /\ ref \in Indices
  OBVIOUS
<1>1. 0 \in Keys /\ 0 \notin Indices /\ (\A x \in Indices : x \in Keys) /\ nil \notin Indices
      /\ o \in Content /\ nil \notin Objects
  BY Types
<1>2. first = luaH_get(tab, 0) BY <1>1 DEF Get
<1>3. PICK F \in SUBSET Indices : FreeList(tab, F) /\ \A r \in rs : r[1] \notin F
  BY DEF References
<1>4. /\ rs \subseteq Indices \X Objects /\ \A r, q \in rs : r[1] = q[1] => r = q
      /\ \A r \in rs : luaH_get(tab, r[1]) = r[2]
  BY DEF References
<1>5. ASSUME first # nil PROVE first \in F /\ first \in Indices /\ luaH_get(tab, first) \in F \cup {nil}
  <2>1. first \in F BY <1>2, <1>3, <1>5 DEF FreeList
  <2> QED BY <1>3, <2>1 DEF FreeList
<1>6. ref \in Indices
  <2>1. CASE first = nil BY <2>1, AfterBorder
  <2>2. CASE first # nil BY <1>5, <2>2
  <2> QED BY <2>1, <2>2
<1>7. Sound(popped) /\ (first # nil => Assigned(tab, popped, 0, luaH_get(tab, first)))
  <2>1. CASE first = nil BY <2>1
  <2>2. CASE first # nil
    <3>1. luaH_get(tab, first) \in Content BY <1>1, <1>5, <2>2, GetType
    <3>2. popped = Set(tab, 0, luaH_get(tab, first)) BY <2>2
    <3> HIDE DEF popped, first
    <3> QED BY <1>1, <3>1, <3>2, SetOK
  <2> QED BY <2>1, <2>2
<1>8. first = nil => popped = tab OBVIOUS
<1>9. Sound(new) /\ Assigned(popped, new, ref, o)
  <2> HIDE DEF popped, ref
  <2> QED BY <1>1, <1>7, SetOK
<1>10. first # nil => ref = first OBVIOUS
<1>11. first = nil => luaH_get(tab, ref) = nil BY AfterBorder
<1>12. Referred(tab, new, ref, o)
  <2> HIDE DEF new, ref, popped, first
  <2>1. CASE first = nil BY <1>2, <1>8, <1>9, <2>1 DEF Referred
  <2>2. CASE first # nil
    <3>1. ASSUME NEW x \in Keys
          PROVE  luaH_get(new, x) = IF x = ref THEN o ELSE IF x = 0 THEN luaH_get(tab, ref) ELSE luaH_get(tab, x)
      BY <1>7, <1>9, <1>10, <2>2 DEF Assigned
    <3> QED BY <1>2, <1>10, <2>2, <3>1 DEF Referred
  <2> QED BY <2>1, <2>2
<1> HIDE DEF new, ref, popped
<1>13. more \subseteq Indices \X Objects BY <1>4, <1>6
<1>14. \A r \in rs : r[1] # ref
  <2> SUFFICES ASSUME NEW r \in rs, r[1] = ref PROVE FALSE OBVIOUS
  <2>1. luaH_get(tab, ref) = r[2] /\ r[2] \in Objects BY <1>4
  <2>2. first # nil BY <1>1, <1>11, <2>1
  <2>3. ref \in F BY <1>5, <1>10, <2>2
  <2> QED BY <1>3, <2>3
<1>15. \A r, q \in more : r[1] = q[1] => r = q BY <1>4, <1>14
<1>16. \A r \in more : luaH_get(new, r[1]) = r[2]
  <2>1. luaH_get(new, ref) = o BY <1>1, <1>6, <1>9 DEF Assigned
  <2>2. ASSUME NEW r \in rs PROVE luaH_get(new, r[1]) = r[2]
    <3>1. r[1] \in Keys /\ r[1] # 0 /\ r[1] # ref /\ luaH_get(tab, r[1]) = r[2] BY <1>1, <1>4, <1>14
    <3> QED BY <1>12, <3>1 DEF Referred, Assigned
  <2> QED BY <2>1, <2>2
<1> DEFINE G == IF first = nil THEN {} ELSE F \ {ref}
<1>17. G \in SUBSET Indices OBVIOUS
<1>18. \A r \in more : r[1] \notin G
  <2>1. \A r \in rs : r[1] \notin G BY <1>3
  <2> QED BY <2>1
<1>19. FreeList(new, G)
  <2>1. CASE first = nil
    <3>1. luaH_get(new, 0) = nil BY <1>1, <1>2, <1>6, <1>12, <2>1 DEF Referred, Assigned
    <3> QED BY <2>1, <3>1 DEF FreeList
  <2>2. CASE first # nil
    <3>1. ref = luaH_get(tab, 0) /\ ref \in F BY <1>2, <1>5, <1>10, <2>2
    <3>2. luaH_get(new, 0) = luaH_get(tab, ref)
          /\ \A x \in G : luaH_get(new, x) = luaH_get(tab, x)
      <4>1. \A x \in Keys : luaH_get(new, x) =
              IF x = ref THEN o ELSE IF x = 0 THEN luaH_get(tab, ref) ELSE luaH_get(tab, x)
        BY <1>2, <1>12, <2>2 DEF Referred
      <4>2. ref # 0 BY <1>1, <1>6
      <4>3. \A x \in G : x \in Keys /\ x # ref /\ x # 0 BY <1>1
      <4> QED BY <1>1, <4>1, <4>2, <4>3
    <3>3. /\ \A x \in F \cup {0} : luaH_get(tab, x) \in F \cup {nil}
          /\ \A x, y \in F \cup {0} : luaH_get(tab, x) = luaH_get(tab, y) /\ luaH_get(tab, x) # nil => x = y
      BY <1>3 DEF FreeList
    <3>4. ref # 0 /\ ref # nil /\ G = F \ {ref} /\ 0 \notin F BY <1>1, <1>6, <2>2
    <3>5. \A x \in G \cup {ref} : luaH_get(tab, x) \in G \cup {nil}
      <4> SUFFICES ASSUME NEW x \in G \cup {ref} PROVE luaH_get(tab, x) # ref
        BY <3>1, <3>3, <3>4
      <4>1. x \in F /\ x # 0 BY <3>1, <3>4
      <4> QED BY <3>1, <3>3, <3>4, <4>1
    <3> HIDE DEF G
    <3>6. \A x \in G \cup {0} : luaH_get(new, x) \in G \cup {nil} BY <3>2, <3>5
    <3>7. ASSUME NEW x \in G \cup {0}, NEW y \in G \cup {0},
                 luaH_get(new, x) = luaH_get(new, y), luaH_get(new, x) # nil
          PROVE  x = y
      <4> DEFINE a == IF x = 0 THEN ref ELSE x
                 b == IF y = 0 THEN ref ELSE y
      <4>1. a \in F /\ b \in F BY <3>1, <3>4
      <4>2. luaH_get(new, x) = luaH_get(tab, a) /\ luaH_get(new, y) = luaH_get(tab, b) BY <3>2
      <4>3. a = b
        <5> HIDE DEF a, b
        <5> QED BY <3>3, <3>7, <4>1, <4>2
      <4> QED BY <3>4, <4>3
    <3> QED BY <3>6, <3>7 DEF FreeList
  <2> QED BY <2>1, <2>2
<1>20. References(new, more)
  <2> HIDE DEF more, G
  <2> QED BY <1>13, <1>15, <1>16, <1>17, <1>18, <1>19 DEF References
<1> QED BY <1>6, <1>9, <1>12, <1>20

(* luaL_unref: the number is the first free one, and leads to the next. *)
Unreferred(tab, new, n) ==
  \A x \in Keys : luaH_get(new, x) =
    IF x = 0 THEN n ELSE IF x = n THEN luaH_get(tab, 0) ELSE luaH_get(tab, x)

LEMMA UnrefOK ==
  ASSUME NEW tab, Sound(tab), NEW rs, References(tab, rs), NEW r \in rs
  PROVE  LET new == Set(Set(tab, r[1], Get(tab, 0)), 0, r[1])
         IN Sound(new) /\ Unreferred(tab, new, r[1]) /\ References(new, rs \ {r}) /\ r[1] \in Indices
<1> DEFINE n   == r[1]
           mid == Set(tab, n, Get(tab, 0))
           new == Set(mid, 0, n)
           less == rs \ {r}
<1>1. 0 \in Keys /\ 0 \notin Indices /\ (\A x \in Indices : x \in Keys /\ x \in Content) /\ nil \notin Indices
  BY Types
<1>2. PICK F \in SUBSET Indices : FreeList(tab, F) /\ \A q \in rs : q[1] \notin F
  BY DEF References
<1>3. /\ rs \subseteq Indices \X Objects /\ \A q, p \in rs : q[1] = p[1] => q = p
      /\ \A q \in rs : luaH_get(tab, q[1]) = q[2]
  BY DEF References
<1>4. n \in Indices /\ n \in Keys /\ n \in Content /\ n # 0 BY <1>1, <1>3
<1>5. Get(tab, 0) = luaH_get(tab, 0) /\ Get(tab, 0) \in Content BY <1>1, GetType DEF Get
<1> HIDE DEF n
<1>6. Sound(mid) /\ Assigned(tab, mid, n, luaH_get(tab, 0)) BY <1>4, <1>5, SetOK
<1> HIDE DEF mid
<1>7. Sound(new) /\ Assigned(mid, new, 0, n) BY <1>1, <1>4, <1>6, SetOK
<1> HIDE DEF new
<1>8. Unreferred(tab, new, n) BY <1>4, <1>6, <1>7 DEF Assigned, Unreferred
<1>9. \A q \in less : luaH_get(new, q[1]) = q[2]
  <2> SUFFICES ASSUME NEW q \in less PROVE luaH_get(new, q[1]) = q[2] OBVIOUS
  <2>1. q \in rs /\ q # r OBVIOUS
  <2>2. q[1] # n BY <1>3, <2>1 DEF n
  <2>3. q[1] \in Indices /\ luaH_get(tab, q[1]) = q[2] BY <1>3, <2>1
  <2>4. q[1] \in Keys /\ q[1] # 0 BY <1>1, <2>3
  <2> QED BY <1>8, <2>2, <2>3, <2>4 DEF Unreferred
<1> DEFINE G == F \cup {n}
<1>10. FreeList(new, G)
  <2>1. n \notin F BY <1>2 DEF n
  <2>2. /\ \A x \in F \cup {0} : luaH_get(tab, x) \in F \cup {nil}
        /\ \A x, y \in F \cup {0} : luaH_get(tab, x) = luaH_get(tab, y) /\ luaH_get(tab, x) # nil => x = y
    BY <1>2 DEF FreeList
  <2>3. 0 \notin F /\ nil # n BY <1>1, <1>4
  <2>4. \A x \in F : x \in Keys BY <1>1
  <2>5. /\ luaH_get(new, 0) = n /\ luaH_get(new, n) = luaH_get(tab, 0)
        /\ \A x \in F : luaH_get(new, x) = luaH_get(tab, x)
    BY <1>1, <1>4, <1>8, <2>1, <2>3, <2>4 DEF Unreferred
  <2>6. \A x \in G \cup {0} : luaH_get(new, x) \in G \cup {nil} BY <2>2, <2>5
  <2>7. ASSUME NEW x \in G \cup {0}, NEW y \in G \cup {0},
               luaH_get(new, x) = luaH_get(new, y), luaH_get(new, x) # nil
        PROVE  x = y
    <3>1. \A z \in F \cup {n} : luaH_get(new, z) # n BY <2>1, <2>2, <2>3, <2>5
    <3>2. CASE x = 0 BY <2>5, <2>7, <3>1, <3>2
    <3>3. CASE y = 0 BY <2>5, <2>7, <3>1, <3>3
    <3>4. CASE x # 0 /\ y # 0
      <4> DEFINE a == IF x = n THEN 0 ELSE x
                 b == IF y = n THEN 0 ELSE y
      <4>1. a \in F \cup {0} /\ b \in F \cup {0} BY <3>4
      <4>2. luaH_get(new, x) = luaH_get(tab, a) /\ luaH_get(new, y) = luaH_get(tab, b) BY <2>5, <3>4
      <4>3. a = b
        <5> HIDE DEF a, b
        <5> QED BY <2>2, <2>7, <4>1, <4>2
      <4> QED BY <3>4, <4>3
    <3> QED BY <3>2, <3>3, <3>4
  <2> HIDE DEF G
  <2> QED BY <2>6, <2>7 DEF FreeList
<1>11. G \in SUBSET Indices BY <1>4
<1>12. \A q \in less : q[1] \notin G
  <2> SUFFICES ASSUME NEW q \in less PROVE q[1] \notin F /\ q[1] # n OBVIOUS
  <2> QED BY <1>2, <1>3 DEF n
<1>13. less \subseteq Indices \X Objects /\ \A q, p \in less : q[1] = p[1] => q = p BY <1>3
<1>14. References(new, less)
  <2> HIDE DEF G, less
  <2> QED BY <1>9, <1>10, <1>11, <1>12, <1>13 DEF References
<1>15. Sound(new) /\ Unreferred(tab, new, n) /\ References(new, less) /\ n \in Indices
  BY <1>4, <1>7, <1>8, <1>14
<1> QED BY <1>15 DEF new, mid, n, less

------------------------------------------------------------------------------
(* The inductive invariant, and each step as a step of the map *)

IInv == Sound(t) /\ References(t, refs)

AsMap(tab) == [k \in Keys |-> luaH_get(tab, k)]

(* Outside of the registry there are no references, and 0 is not used. *)
LEMMA Outside ==
  ASSUME IInv, ~Registry
  PROVE  refs = {} /\ luaH_get(t, 0) = nil
BY Types DEF Registry, Get

LEMMA InitIInv == ASSUME Init PROVE IInv /\ Map!Init
<1>1. t = luaH_new /\ refs = {} BY DEF Init
<1>2. Sound(luaH_new) /\ \A x \in Keys : luaH_get(luaH_new, x) = nil BY NewOK
<1>3. 0 \in Keys BY Types
<1>4. References(luaH_new, {}) BY <1>2, <1>3, NoReferences
<1>5. IInv BY <1>1, <1>2, <1>4 DEF IInv
<1>6. Map!Init BY <1>1, <1>2 DEF Map!Init
<1> QED BY <1>5, <1>6

LEMMA SetStep ==
  ASSUME IInv, lua_rawset
  PROVE  IInv' /\ \E k \in Keys, v \in Values \cup {nil} : Map!Assign(k, v)
<1>1. PICK k \in Keys \ {0}, v \in Values \cup {nil} : t' = Set(t, k, v) BY DEF lua_rawset
<1>2. ~Registry /\ refs' = refs BY DEF lua_rawset
<1>3. Sound(t) /\ refs = {} /\ luaH_get(t, 0) = nil BY <1>2, Outside DEF IInv
<1>4. 0 \in Keys /\ v \in Content BY Types
<1> DEFINE new == Set(t, k, v)
<1>5. Sound(new) /\ Assigned(t, new, k, v) BY <1>3, <1>4, SetOK
<1> HIDE DEF new
<1>6. luaH_get(new, 0) = nil BY <1>3, <1>4, <1>5 DEF Assigned
<1>7. References(new, {}) BY <1>6, NoReferences
<1>8. t' = new /\ refs' = {} BY <1>1, <1>2, <1>3 DEF new
<1>9. IInv' BY <1>5, <1>7, <1>8 DEF IInv
<1>10. AsMap(new) = [AsMap(t) EXCEPT ![k] = v] BY <1>5 DEF Assigned, AsMap
<1>11. Map!Assign(k, v) BY <1>8, <1>10 DEF Map!Assign, AsMap
<1> QED BY <1>9, <1>11

LEMMA MapAt ==
  /\ Map!Indices = Indices /\ \A x : Map!At(x) = Get(t, x)
  /\ IInv => luaH_getn(t) \in Map!Borders
<1>1. Map!Indices = Indices BY DEF Map!Indices, Indices, Numbers
<1>2. ASSUME NEW x PROVE Map!At(x) = Get(t, x) BY DEF Map!At, Get
<1>3. ASSUME IInv PROVE luaH_getn(t) \in Map!Borders
  <2> DEFINE n == luaH_getn(t)
  <2>1. Border(t, n) /\ (n # 0 => n \in Indices) BY <1>3, GetnOK DEF IInv
  <2> HIDE DEF n
  <2>2. n \in Indices \cup {0} /\ (n = 0 \/ Get(t, n) # nil) /\ Get(t, n + 1) = nil
    BY <2>1 DEF Border
  <2>3. n \in Map!Borders BY <1>1, <1>2, <2>2 DEF Map!Borders
  <2> QED BY <2>3 DEF n
<1> QED BY <1>1, <1>2, <1>3

LEMMA ListStep ==
  ASSUME IInv, OP_SETLIST
  PROVE  IInv' /\ \E n \in Map!Indices, v \in Values : Map!List(n, v)
<1>1. ~Registry /\ refs' = refs BY DEF OP_SETLIST, Quiet
<1>2. PICK n \in Indices, v \in Values :
        t' = FoldLeft(LAMBDA tab, i : Set(tab, i, v),
                      IF n > sizearray(t) THEN luaH_resizearray(t, n) ELSE t,
                      [i \in 1..n |-> n + 1 - i])
  BY DEF OP_SETLIST
<1>3. Sound(t) /\ refs = {} /\ luaH_get(t, 0) = nil BY <1>1, Outside DEF IInv
<1>4. 0 \in Keys /\ v \in Content /\ n \in Nat BY Types
<1> DEFINE mid == IF n > sizearray(t) THEN luaH_resizearray(t, n) ELSE t
           new == FoldLeft(LAMBDA u, i : Set(u, i, v), mid, [i \in 1..n |-> n + 1 - i])
<1>5. /\ Sound(new)
      /\ \A x \in Keys : luaH_get(new, x) = IF x \in 1..n THEN v ELSE luaH_get(t, x)
  BY <1>3, <1>4, ListOK
<1>6. t' = new BY <1>2
<1> HIDE DEF new
<1>7. 0 \notin 1..n OBVIOUS
<1>8. luaH_get(new, 0) = nil BY <1>3, <1>4, <1>5, <1>7
<1>9. References(new, {}) BY <1>8, NoReferences
<1>10. IInv' BY <1>1, <1>3, <1>5, <1>6, <1>9 DEF IInv
<1>11. Map!List(n, v) BY <1>5, <1>6 DEF Map!List
<1> QED BY <1>10, <1>11, MapAt

LEMMA InsertStep ==
  ASSUME IInv, tinsert
  PROVE  IInv' /\ \E n \in Map!Borders, v \in Values, pos \in Map!Indices :
                    Map!Insert(IF pos > n + 1 THEN pos ELSE n + 1, pos, v)
<1> DEFINE n == luaH_getn(t)
<1>1. ~Registry /\ refs' = refs BY DEF tinsert, Quiet
<1>2. PICK pos \in Indices, v \in Values :
        LET e == IF pos > n + 1 THEN pos ELSE n + 1 IN
          e \in Keys /\ t' = Set(Shift(t, -1, [i \in 1..(e - pos) |-> e + 1 - i]), pos, v)
  BY DEF tinsert
<1> DEFINE e   == IF pos > n + 1 THEN pos ELSE n + 1
           new == Set(Shift(t, -1, [i \in 1..(e - pos) |-> e + 1 - i]), pos, v)
<1>3. Sound(t) /\ refs = {} /\ luaH_get(t, 0) = nil BY <1>1, Outside DEF IInv
<1>4. 0 \in Keys /\ v \in Content /\ pos \in Nat /\ pos # 0 BY Types
<1>5. n \in Nat BY <1>3, GetnOK DEF Border
<1>6. e \in Keys /\ t' = new BY <1>2
<1>7. e \in Nat /\ e # 0 /\ pos <= e
  <2> HIDE DEF n
  <2> QED BY <1>4, <1>5
<1>8. e \in Indices
  <2> HIDE DEF e
  <2> QED BY <1>6, <1>7 DEF Indices, Numbers
<1>9. n \in Map!Borders BY MapAt
<1> HIDE DEF n
<1>10. /\ Sound(new)
       /\ \A x \in Keys : luaH_get(new, x) = IF x = pos THEN v
                            ELSE IF x \in (pos + 1)..e THEN luaH_get(t, x - 1) ELSE luaH_get(t, x)
  <2> HIDE DEF e
  <2> QED BY <1>3, <1>4, <1>7, <1>8, InsertOK
<1> HIDE DEF new
<1>11. 0 # pos /\ 0 \notin (pos + 1)..e BY <1>4, <1>7
<1>12. luaH_get(new, 0) = nil
  <2> HIDE DEF e
  <2> QED BY <1>3, <1>4, <1>10, <1>11
<1>13. References(new, {}) BY <1>12, NoReferences
<1>14. IInv' BY <1>1, <1>3, <1>6, <1>10, <1>13 DEF IInv
<1>15. Map!Insert(e, pos, v)
  <2>1. ASSUME NEW x \in Keys, x \in (pos + 1)..e PROVE Map!At(x - 1) = luaH_get(t, x - 1)
    <3>1. x - 1 \in 0..e BY <1>4, <1>7, <2>1
    <3>2. e \in Numbers BY <1>8, Types
    <3>3. x - 1 \in Keys
      <4> HIDE DEF e
      <4> QED BY <3>1, <3>2, Types
    <3> QED BY <3>3, MapAt DEF Get
  <2> HIDE DEF e
  <2>2. \A x \in Keys : luaH_get(new, x) = IF x = pos THEN v
                          ELSE IF x \in (pos + 1)..e THEN Map!At(x - 1) ELSE luaH_get(t, x)
    BY <1>10, <2>1
  <2> QED BY <1>6, <2>2 DEF Map!Insert
<1>16. pos \in Map!Indices BY MapAt
<1> QED BY <1>9, <1>14, <1>15, <1>16

LEMMA RemoveStep ==
  ASSUME IInv, tremove
  PROVE  IInv' /\ \E e \in Map!Borders : \E pos \in 1..e : Map!Remove(e, pos)
<1> DEFINE e == luaH_getn(t)
<1>1. ~Registry /\ refs' = refs BY DEF tremove, Quiet
<1>2. PICK pos \in 1..e :
        t' = Set(Shift(t, 1, [i \in 1..(e - pos) |-> pos + i - 1]), e, nil)
  BY DEF tremove
<1> DEFINE new == Set(Shift(t, 1, [i \in 1..(e - pos) |-> pos + i - 1]), e, nil)
<1>3. Sound(t) /\ refs = {} /\ luaH_get(t, 0) = nil BY <1>1, Outside DEF IInv
<1>4. t' = new BY <1>2
<1>5. e \in Nat /\ (e # 0 => e \in Indices) BY <1>3, GetnOK DEF Border
<1>6. e \in Map!Borders BY MapAt
<1> HIDE DEF e
<1>7. e \in Indices /\ e \in Numbers /\ 0 \in Keys BY <1>5, Types
<1>8. /\ Sound(new)
      /\ \A x \in Keys : luaH_get(new, x) = IF x = e THEN nil
                           ELSE IF x \in pos..(e - 1) THEN luaH_get(t, x + 1) ELSE luaH_get(t, x)
  BY <1>3, <1>7, RemoveOK
<1> HIDE DEF new
<1>9. pos \in Nat /\ 0 # e /\ 0 \notin pos..(e - 1) BY <1>5
<1>10. luaH_get(new, 0) = nil BY <1>3, <1>7, <1>8, <1>9
<1>11. References(new, {}) BY <1>10, NoReferences
<1>12. IInv' BY <1>1, <1>3, <1>4, <1>8, <1>11 DEF IInv
<1>13. Map!Remove(e, pos)
  <2>1. ASSUME NEW x \in Keys, x \in pos..(e - 1) PROVE Map!At(x + 1) = luaH_get(t, x + 1)
    <3>1. x + 1 \in 0..e BY <1>5, <1>9, <2>1
    <3>2. x + 1 \in Keys BY <1>7, <3>1, Types
    <3> QED BY <3>2, MapAt DEF Get
  <2>2. \A x \in Keys : luaH_get(new, x) = IF x = e THEN nil
                          ELSE IF x \in pos..(e - 1) THEN Map!At(x + 1) ELSE luaH_get(t, x)
    BY <1>8, <2>1
  <2> QED BY <1>4, <2>2 DEF Map!Remove
<1> QED BY <1>6, <1>12, <1>13

LEMMA RefStep ==
  ASSUME IInv, luaL_ref
  PROVE  IInv' /\ \E o \in Objects : Map!Ref(o)
<1> DEFINE first  == Get(t, 0)
           ref    == IF first = nil THEN luaH_getn(t) + 1 ELSE first
           popped == IF first = nil THEN t ELSE Set(t, 0, luaH_get(t, first))
<1>1. PICK o \in Objects : ref \in Keys /\ t' = Set(popped, ref, o) /\ refs' = refs \cup {<<ref, o>>}
  BY DEF luaL_ref
<1> DEFINE new == Set(popped, ref, o)
           more == refs \cup {<<ref, o>>}
<1>2. Sound(new) /\ Referred(t, new, ref, o) /\ References(new, more) /\ ref \in Indices
  BY <1>1, RefOK DEF IInv
<1>3. t' = new /\ refs' = more /\ ref \in Keys BY <1>1
<1>4. luaH_getn(t) \in Map!Borders BY MapAt
<1>5. first = nil => ref = luaH_getn(t) + 1 OBVIOUS
<1>6. first # nil => ref = first OBVIOUS
<1>7. 0 \in Keys /\ first = luaH_get(t, 0) BY Types DEF Get
<1>8. 0 \notin Indices BY Types
<1> HIDE DEF new, more, ref, first
<1>9. IInv' BY <1>2, <1>3 DEF IInv
<1>10. Map!At(0) = first /\ Map!At(first) = Get(t, first) BY <1>7, MapAt DEF Get
<1>11. CASE first = nil
  <2>1. AsMap(new) = [AsMap(t) EXCEPT ![ref] = o] BY <1>2, <1>7, <1>11 DEF Referred, Assigned, AsMap
  <2> QED BY <1>3, <1>4, <1>5, <1>9, <1>10, <1>11, <2>1 DEF Map!Ref, AsMap
<1>12. CASE first # nil
  <2>1. ref = first /\ ref # 0 /\ Get(t, first) = luaH_get(t, ref) BY <1>2, <1>3, <1>6, <1>8, <1>12 DEF Get
  <2>2. \A x \in Keys : luaH_get(new, x) =
          IF x = ref THEN o ELSE IF x = 0 THEN luaH_get(t, ref) ELSE luaH_get(t, x)
    BY <1>2, <1>7, <1>12 DEF Referred
  <2>3. AsMap(new) = [AsMap(t) EXCEPT ![0] = Get(t, first), ![first] = o]
    BY <1>3, <1>7, <2>1, <2>2 DEF AsMap
  <2> QED BY <1>3, <1>9, <1>10, <1>12, <2>3 DEF Map!Ref, AsMap
<1> QED BY <1>11, <1>12

LEMMA UnrefStep ==
  ASSUME IInv, luaL_unref
  PROVE  IInv' /\ \E r \in Map!Indices : Map!Unref(r)
<1>1. PICK r \in refs : t' = Set(Set(t, r[1], Get(t, 0)), 0, r[1]) /\ refs' = refs \ {r}
  BY DEF luaL_unref
<1> DEFINE n   == r[1]
           new == Set(Set(t, n, Get(t, 0)), 0, n)
           less == refs \ {r}
<1>2. Sound(new) /\ Unreferred(t, new, n) /\ References(new, less) /\ n \in Indices
  BY <1>1, UnrefOK DEF IInv
<1>3. t' = new /\ refs' = less BY <1>1
<1> HIDE DEF new, less, n
<1>4. IInv' BY <1>2, <1>3 DEF IInv
<1>5. 0 \in Keys /\ n \in Keys BY <1>2, Types
<1>6. AsMap(new) = [AsMap(t) EXCEPT ![n] = AsMap(t)[0], ![0] = n]
  BY <1>2, <1>5 DEF Unreferred, AsMap
<1>7. Map!Unref(n) BY <1>3, <1>6 DEF Map!Unref, AsMap
<1> QED BY <1>2, <1>4, <1>7, MapAt

LEMMA SweepStep ==
  ASSUME IInv, removeentry
  PROVE  IInv' /\ SameMap(t, t')
<1> DEFINE new == [t EXCEPT !.node = Swept(t.node)]
<1>1. t' = new /\ refs' = refs BY DEF removeentry, Swept, Nodes
<1>2. Sound(new) /\ SameMap(t, new) BY SweepOK DEF IInv
<1> HIDE DEF new
<1>3. References(new, refs) BY <1>2, SameReferences DEF IInv
<1> QED BY <1>1, <1>2, <1>3 DEF IInv

LEMMA NextIInv ==
  ASSUME IInv, [Next]_vars
  PROVE  IInv' /\ [Map!Next]_([k \in Keys |-> luaH_get(t, k)])
<1> DEFINE Same == [k \in Keys |-> luaH_get(t, k)]' = [k \in Keys |-> luaH_get(t, k)]
<1>1. ASSUME t' = t, refs' = refs PROVE IInv' /\ Same BY <1>1 DEF IInv
<1>2. CASE Begin BY <1>1, <1>2 DEF Begin
<1>3. CASE lua_next BY <1>1, <1>3 DEF lua_next
<1>4. CASE UNCHANGED vars BY <1>1, <1>4 DEF vars
<1>5. CASE removeentry
  <2>1. IInv' /\ SameMap(t, t') BY <1>5, SweepStep
  <2>2. Same BY <2>1 DEF SameMap
  <2> QED BY <2>1, <2>2
<1>6. CASE lua_rawset BY <1>6, SetStep DEF Map!Next
<1>7. CASE OP_SETLIST BY <1>7, ListStep DEF Map!Next
<1>8. CASE tinsert BY <1>8, InsertStep DEF Map!Next
<1>9. CASE tremove BY <1>9, RemoveStep DEF Map!Next
<1>10. CASE luaL_ref BY <1>10, RefStep DEF Map!Next
<1>11. CASE luaL_unref BY <1>11, UnrefStep DEF Map!Next
<1> QED BY <1>2, <1>3, <1>4, <1>5, <1>6, <1>7, <1>8, <1>9, <1>10, <1>11 DEF Next

(* Every reachable table is sound, and its references are in order. *)
THEOREM TableInvariant == Spec => []IInv
<1>1. Init => IInv BY InitIInv
<1>2. IInv /\ [Next]_vars => IInv' BY NextIInv
<1> QED BY <1>1, <1>2, PTL DEF Spec

LEMMA IInvSound == ASSUME IInv PROVE HashSound /\ RefsHold
<1>1. Sound(t) /\ References(t, refs) BY DEF IInv
<1>2. ArrayOK(t) /\ Shape(t.node, Main(t)) /\ FreeOK(t) /\ Apart(t) /\ t.again = FALSE
  BY <1>1 DEF Sound
<1>3. refs \subseteq Indices \X Objects /\ \A r \in refs : luaH_get(t, r[1]) = r[2]
  BY <1>1 DEF References
<1>4. TypeOK
  <2>1. t.array \in Seq(Content) BY <1>2 DEF ArrayOK
  <2>2. t.node \in [Nodes(t) -> [key : Keys \cup {Absent}, dead : BOOLEAN, val : Content,
                                 next : Nodes(t) \cup {NULL}]]
    BY <1>2 DEF Shape, NodeOf, Nodes
  <2>3. t.dummy \in BOOLEAN /\ t.lastfree \in 0..sizenode(t) BY <1>2 DEF FreeOK
  <2>4. refs \subseteq Numbers \X Objects BY <1>3, Types
  <2> QED BY <1>2, <2>1, <2>2, <2>3, <2>4 DEF TypeOK
<1>5. ChainsFind
  <2> SUFFICES ASSUME NEW n \in Nodes(t), t.node[n].key # Absent, ~t.node[n].dead
               PROVE  Find(t, t.node[n].key) = n /\ ~InArray(t, t.node[n].key)
    BY DEF ChainsFind
  <2>1. n \in DOMAIN t.node BY DEF Nodes
  <2>2. Find(t, t.node[n].key) = n BY <1>2, <2>1, FindLive
  <2>3. t.node[n].key \in Keys BY <1>2, <2>1, NodeTypes
  <2>4. Lives(t.node, t.node[n].key) BY <2>1 DEF Lives
  <2> QED BY <1>2, <2>2, <2>3, <2>4 DEF Apart
<1>6. RehashOnce BY <1>2 DEF RehashOnce
<1>7. LengthIsBorder
  <2>1. Border(t, luaH_getn(t)) BY <1>1, GetnOK
  <2> QED BY <2>1 DEF Border, LengthIsBorder
<1>8. RefsHold
  <2> SUFFICES ASSUME NEW r \in refs PROVE Get(t, r[1]) = r[2] BY DEF RefsHold
  <2>1. r[1] \in Keys BY <1>3, Types
  <2> QED BY <1>3, <2>1 DEF Get
<1> QED BY <1>4, <1>5, <1>6, <1>7, <1>8 DEF HashSound

(* HashSound: a key in the table is found, whatever nodes newkey has moved or
   used again, a rehash has room for what it has counted, and luaH_getn is a
   border, wherever the array and the hash part meet. *)
THEOREM HashSoundHolds == Spec => []HashSound
<1>1. IInv => HashSound BY IInvSound
<1> QED BY <1>1, TableInvariant, PTL

(* RefsHold: what luaL_ref has given leads to its object until luaL_unref, while
   other numbers come from the free list and go back to it. *)
THEOREM RefsHoldAlways == Spec => []RefsHold
<1>1. IInv => RefsHold BY IInvSound
<1> QED BY <1>1, TableInvariant, PTL

(* ImplementsMap: the two parts, their moves and their sizes are not seen: each
   operation is one step of a map, or none. *)
THEOREM TableIsMap == Spec => ImplementsMap
<1>1. Init => Map!Init BY InitIInv
<1>2. IInv /\ [Next]_vars => [Map!Next]_([k \in Keys |-> luaH_get(t, k)]) BY NextIInv
<1> QED BY <1>1, <1>2, TableInvariant, PTL DEF Spec, ImplementsMap, Map!Spec

------------------------------------------------------------------------------
(* The traversal *)

LEMMA FirstUnique ==
  ASSUME NEW nx, NEW D, Graph(nx, D), Acyclic(nx), NEW a \in D, NEW sought \in SUBSET D,
         NEW v, NEW w, First(nx, a, sought, v), First(nx, a, sought, w)
  PROVE  v = w
<1>1. NULL \notin D BY DEF Graph
<1>2. CASE v = NULL \/ w = NULL BY <1>2 DEF First
<1>3. CASE v # NULL /\ w # NULL
  <2>1. v \in D /\ w \in D /\ Reach(nx, v, w) /\ Reach(nx, w, v) BY <1>3 DEF First
  <2> QED BY <2>1, NoCycle
<1> QED BY <1>2, <1>3

(* Dead keys included, a search begins with the live one. *)
LEMMA WalkLive ==
  ASSUME NEW tab, Shape(tab.node, Main(tab)), NEW n \in DOMAIN tab.node,
         tab.node[n].key # Absent, ~tab.node[n].dead
  PROVE  Walk(tab, tab.node[n].key, Holding(tab, tab.node[n].key)) = n
<1> DEFINE k == tab.node[n].key
           nx == Links(tab.node)
           same == Holding(tab, k)
           w == Walk(tab, k, same)
<1>1. k \in Keys BY NodeTypes
<1>2. same \in SUBSET DOMAIN tab.node /\ n \in same BY DEF Holding, Nodes
<1>3. Reach(nx, Main(tab)[k], n) BY DEF Shape, Headed
<1>4. First(nx, Main(tab)[k], same, w)
  <2> HIDE DEF same, k
  <2> QED BY <1>1, <1>2, WalkFirst
<1>5. w \in same /\ Reach(nx, w, n)
  <2> HIDE DEF w, same
  <2> QED BY <1>2, <1>3, <1>4 DEF First
<1>6. w \in DOMAIN tab.node /\ tab.node[w].key = k BY <1>5 DEF Holding, Nodes
<1>7. Reach(nx, n, w)
  <2> HIDE DEF w
  <2> QED BY <1>6 DEF Shape, LiveFirst
<1> HIDE DEF w
<1>8. Graph(nx, DOMAIN tab.node) /\ Acyclic(nx) BY LinksGraph DEF Shape
<1>9. n = w BY <1>5, <1>6, <1>7, <1>8, NoCycle
<1> QED BY <1>9 DEF w

(* Repainting a table moves no key. *)
LEMMA SameIndex ==
  ASSUME NEW tab, Sound(tab), NEW new, Repainted(tab.node, new.node),
         Len(new.array) = Len(tab.array), NEW k \in Keys \cup {Absent}
  PROVE  findindex(new, k) = findindex(tab, k)
<1> DEFINE nd == tab.node
           D == DOMAIN nd
           nx == Links(nd)
           same == Holding(tab, k)
<1>1. Shape(nd, Main(tab)) BY DEF Sound
<1>2. Shape(new.node, Main(tab)) /\ Links(new.node) = nx /\ DOMAIN new.node = D
  BY <1>1, RepaintedShape
<1>3. Main(new) = Main(tab) BY <1>2, SameMain
<1>4. (InArray(new, k) <=> InArray(tab, k)) /\ sizearray(new) = sizearray(tab)
  BY DEF InArray, sizearray
<1>5. \A n \in D : new.node[n].key = nd[n].key BY DEF Repainted
<1>6. Holding(new, k) = same BY <1>2, <1>5 DEF Holding, Nodes
<1>7. CASE k = Absent BY <1>7 DEF findindex
<1>8. CASE k # Absent
  <2>1. k \in Keys BY <1>8
  <2>2. same \in SUBSET D BY DEF Holding, Nodes
  <2> HIDE DEF same
  <2>3. First(nx, Main(tab)[k], same, Walk(tab, k, same)) BY <1>1, <2>1, <2>2, WalkFirst
  <2>4. First(nx, Main(tab)[k], same, Walk(new, k, same)) BY <1>2, <1>3, <2>1, <2>2, WalkFirst
  <2>5. Graph(nx, D) /\ Acyclic(nx) /\ Main(tab)[k] \in D BY <1>1, <2>1, LinksGraph DEF Shape
  <2>6. Walk(new, k, same) = Walk(tab, k, same) BY <2>2, <2>3, <2>4, <2>5, FirstUnique
  <2> QED BY <1>4, <1>6, <1>8, <2>6 DEF findindex, same
<1> QED BY <1>7, <1>8

Total(tab) == sizearray(tab) + sizenode(tab)

(* Entry i, if it is not empty, has the key with index i. *)
LEMMA EntryKey ==
  ASSUME NEW tab, Sound(tab), NEW i \in 1..Total(tab), Entry(tab, i).val # nil
  PROVE  /\ Entry(tab, i).key \in Keys /\ findindex(tab, Entry(tab, i).key) = i
<1> DEFINE m == sizearray(tab)
           nd == tab.node
<1>1. Shape(nd, Main(tab)) /\ ArrayOK(tab) /\ Apart(tab) /\ Sized(nd) BY DEF Sound
<1>2. m \in Nat /\ m = Len(tab.array) BY <1>1 DEF ArrayOK, sizearray
<1>3. PICK N \in Nat \ {0} : DOMAIN nd = 0..(N - 1) BY <1>1 DEF Sized
<1>4. sizenode(tab) = N BY <1>3, SizedSize DEF sizenode, Nodes
<1>5. i \in Nat /\ i # 0 /\ i <= m + N BY <1>2, <1>4 DEF Total
<1> HIDE DEF m
<1>6. CASE i <= m
  <2>1. Entry(tab, i).key = i /\ Entry(tab, i).val = tab.array[i] BY <1>6 DEF Entry, m
  <2>2. i \in 1..Len(tab.array) BY <1>2, <1>5, <1>6
  <2>3. i \in Keys BY <1>1, <2>1, <2>2 DEF ArrayOK
  <2>4. InArray(tab, i) BY <1>5, <1>6, <2>3 DEF InArray, Indices, Numbers, m
  <2>5. i # Absent BY <2>3, Types
  <2> QED BY <2>1, <2>3, <2>4, <2>5 DEF findindex
<1>7. CASE ~(i <= m)
  <2> DEFINE n == i - m - 1
             k == nd[n].key
  <2>1. Entry(tab, i) = nd[n] BY <1>7 DEF Entry, m
  <2>2. n \in DOMAIN nd BY <1>2, <1>3, <1>5, <1>7
  <2>3. n + 1 + m = i BY <1>2, <1>5
  <2> HIDE DEF n
  <2>4. nd[n].val # nil BY <2>1
  <2>5. k # Absent BY <1>1, <2>2, <2>4 DEF Shape, Unused
  <2>6. ~nd[n].dead BY <1>1, <2>2, <2>4 DEF Shape, LiveFirst
  <2>7. k \in Keys BY <1>1, <2>2, <2>5, NodeTypes
  <2>8. Lives(nd, k) BY <2>2, <2>6 DEF Lives
  <2>9. ~InArray(tab, k) BY <1>1, <2>7, <2>8 DEF Apart
  <2>10. Walk(tab, k, Holding(tab, k)) = n BY <1>1, <2>2, <2>5, <2>6, WalkLive
  <2>11. findindex(tab, k) = n + 1 + m BY <2>5, <2>9, <2>10 DEF findindex, m
  <2> QED BY <2>1, <2>3, <2>7, <2>11
<1> QED BY <1>6, <1>7

(* And a key that is there is in the entry with its index. *)
LEMMA KeyEntry ==
  ASSUME NEW tab, Sound(tab), NEW k \in Keys, luaH_get(tab, k) # nil
  PROVE  LET i == findindex(tab, k) IN
           i \in 1..Total(tab) /\ Entry(tab, i).key = k /\ Entry(tab, i).val # nil
<1> DEFINE m == sizearray(tab)
           nd == tab.node
           i == findindex(tab, k)
<1>1. Shape(nd, Main(tab)) /\ ArrayOK(tab) /\ Sized(nd) BY DEF Sound
<1>2. m \in Nat BY <1>1 DEF ArrayOK, sizearray
<1>3. PICK N \in Nat \ {0} : DOMAIN nd = 0..(N - 1) BY <1>1 DEF Sized
<1>4. sizenode(tab) = N BY <1>3, SizedSize DEF sizenode, Nodes
<1>5. Total(tab) = m + N BY <1>4 DEF Total
<1>6. k # Absent BY Types
<1> HIDE DEF m
<1>7. CASE InArray(tab, k)
  <2>1. i = k BY <1>6, <1>7 DEF findindex
  <2>2. k \in Nat /\ k # 0 /\ k <= m BY <1>7, Types DEF InArray, m
  <2>3. luaH_get(tab, k) = tab.array[k] BY <1>7 DEF luaH_get
  <2>4. Entry(tab, k).key = k /\ Entry(tab, k).val = tab.array[k] BY <2>2 DEF Entry, m
  <2>5. k \in 1..Total(tab) BY <1>2, <1>5, <2>2
  <2> HIDE DEF i
  <2>6. i \in 1..Total(tab) /\ Entry(tab, i).key = k /\ Entry(tab, i).val # nil
    BY <2>1, <2>3, <2>4, <2>5
  <2> QED BY <2>6 DEF i
<1>8. CASE ~InArray(tab, k)
  <2> DEFINE n == Find(tab, k)
  <2>1. n # NULL /\ luaH_get(tab, k) = nd[n].val BY <1>8 DEF luaH_get
  <2>2. n \in DOMAIN nd /\ nd[n].key = k /\ ~nd[n].dead BY <1>1, <2>1, FindLives
  <2> HIDE DEF n
  <2>3. Walk(tab, k, Holding(tab, k)) = n BY <1>1, <1>6, <2>2, WalkLive
  <2>4. i = n + 1 + m BY <1>6, <1>8, <2>3 DEF findindex, m
  <2> HIDE DEF i
  <2>5. i \in 1..Total(tab) /\ ~(i <= m) /\ i - m - 1 = n BY <1>2, <1>3, <1>5, <2>2, <2>4
  <2>6. Entry(tab, i) = nd[n] BY <2>5 DEF Entry, m
  <2>7. i \in 1..Total(tab) /\ Entry(tab, i).key = k /\ Entry(tab, i).val # nil
    BY <2>1, <2>2, <2>5, <2>6
  <2> QED BY <2>7 DEF i
<1> QED BY <1>7, <1>8

LEMMA IndexType ==
  ASSUME NEW tab, Sound(tab), NEW k \in Keys \cup {Absent}
  PROVE  findindex(tab, k) \in Nat
<1>1. Shape(tab.node, Main(tab)) /\ ArrayOK(tab) /\ Sized(tab.node) BY DEF Sound
<1>2. sizearray(tab) \in Nat BY <1>1 DEF ArrayOK, sizearray
<1>3. CASE k = Absent BY <1>3 DEF findindex
<1>4. CASE k # Absent /\ InArray(tab, k) BY <1>4, Types DEF findindex, InArray
<1>5. CASE k # Absent /\ ~InArray(tab, k)
  <2> DEFINE w == Walk(tab, k, Holding(tab, k))
  <2>1. Holding(tab, k) \in SUBSET DOMAIN tab.node BY DEF Holding, Nodes
  <2>2. First(Links(tab.node), Main(tab)[k], Holding(tab, k), w) BY <1>1, <1>5, <2>1, WalkFirst
  <2>3. findindex(tab, k) = w + 1 + sizearray(tab) BY <1>5 DEF findindex
  <2> HIDE DEF w
  <2>4. w \in DOMAIN tab.node \cup {NULL} BY <2>1, <2>2 DEF First
  <2>5. PICK N \in Nat \ {0} : DOMAIN tab.node = 0..(N - 1) BY <1>1 DEF Sized
  <2>6. w + 1 \in Nat BY <2>4, <2>5 DEF NULL
  <2> QED BY <1>2, <2>3, <2>6
<1> QED BY <1>3, <1>4, <1>5

LEMMA NextKey ==
  ASSUME NEW tab, Sound(tab), NEW k \in Keys \cup {Absent}
  PROVE  /\ luaH_next(tab, k) # Absent =>
              luaH_next(tab, k) \in Keys
              /\ findindex(tab, luaH_next(tab, k)) > findindex(tab, k)
         /\ \A x \in Keys : luaH_get(tab, x) # nil /\ findindex(tab, x) > findindex(tab, k) =>
              luaH_next(tab, k) # Absent
              /\ (x = luaH_next(tab, k) \/ findindex(tab, x) > findindex(tab, luaH_next(tab, k)))
<1> DEFINE c == findindex(tab, k)
           after == {i \in (c + 1)..(sizearray(tab) + sizenode(tab)) : Entry(tab, i).val # nil}
           n == luaH_next(tab, k)
           i == Min(after)
<1>1. c \in Nat BY IndexType
<1>2. n = IF after = {} THEN Absent ELSE Entry(tab, i).key BY DEF luaH_next
<1> HIDE DEF c
<1>3. after \in SUBSET Nat BY <1>1
<1>4. \A j : j \in after <=> j \in (c + 1)..Total(tab) /\ Entry(tab, j).val # nil BY DEF Total
<1>5. ASSUME after # {} PROVE i \in after /\ \A j \in after : i <= j
  <2> HIDE DEF after
  <2> QED BY <1>3, <1>5, LeastIs
<1> HIDE DEF n, i, after
<1>6. Total(tab) \in Nat
  <2>1. ArrayOK(tab) /\ Sized(tab.node) BY DEF Sound
  <2>2. sizearray(tab) \in Nat BY <2>1 DEF ArrayOK, sizearray
  <2>3. PICK N \in Nat \ {0} : DOMAIN tab.node = 0..(N - 1) BY <2>1 DEF Sized
  <2>4. sizenode(tab) = N BY <2>3, SizedSize DEF sizenode, Nodes
  <2> QED BY <2>2, <2>4 DEF Total
<1>7. ASSUME after # {} PROVE n # Absent /\ n \in Keys /\ findindex(tab, n) = i /\ i > c
  <2>1. i \in (c + 1)..Total(tab) /\ Entry(tab, i).val # nil BY <1>4, <1>5, <1>7
  <2>2. i \in 1..Total(tab) /\ i > c BY <1>1, <1>6, <2>1
  <2>3. Entry(tab, i).key \in Keys /\ findindex(tab, Entry(tab, i).key) = i BY <2>1, <2>2, EntryKey
  <2> QED BY <1>2, <1>7, <2>2, <2>3, Types
<1>8. ASSUME NEW x \in Keys, luaH_get(tab, x) # nil, findindex(tab, x) > c
      PROVE  n # Absent /\ (x = n \/ findindex(tab, x) > findindex(tab, n))
  <2> DEFINE j == findindex(tab, x)
  <2>1. j \in 1..Total(tab) /\ Entry(tab, j).key = x /\ Entry(tab, j).val # nil BY <1>8, KeyEntry
  <2>2. j > c BY <1>8
  <2> HIDE DEF j
  <2>3. j \in (c + 1)..Total(tab) BY <1>1, <1>6, <2>1, <2>2
  <2>4. j \in after BY <1>4, <2>1, <2>3
  <2>5. i <= j /\ i \in Nat BY <1>3, <1>5, <2>4
  <2>6. CASE i = j BY <1>2, <1>7, <2>1, <2>4, <2>6
  <2>7. CASE i # j
    <3>1. j > i BY <2>1, <2>5, <2>7
    <3> QED BY <1>7, <2>4, <3>1 DEF j
  <2> QED BY <2>6, <2>7
<1>9. n # Absent => n \in Keys /\ findindex(tab, n) > c BY <1>2, <1>7
<1> QED BY <1>8, <1>9 DEF n, c

(* Keys that stay have been seen, or come after the present one. *)
Going(tab, it) ==
  /\ it.key \in Keys \cup {Absent}
  /\ \A i \in 1..Len(it.seen) : findindex(tab, it.seen[i]) <= findindex(tab, it.key)
  /\ \A k \in it.kept : /\ luaH_get(tab, k) # nil
                        /\ \/ k \in Range(it.seen)
                           \/ findindex(tab, k) > findindex(tab, it.key)

Traversal(tab, it) ==
  /\ it \in [ph : {it.ph}, key : {it.key}, seen : Seq(Keys), kept : SUBSET Keys]
  /\ IsInjective(it.seen)
  /\ it.ph = "going" => Going(tab, it)
  /\ it.ph = "ended" => it.kept \subseteq Range(it.seen)

TInv == IInv /\ Traversal(t, iter)

LEMMA NoTraversal ==
  ASSUME NEW tab PROVE Traversal(tab, NoIter)
<1>1. NoIter \in [ph : {NoIter.ph}, key : {NoIter.key}, seen : Seq(Keys), kept : SUBSET Keys]
  BY DEF NoIter
<1>2. IsInjective(NoIter.seen) BY DEF NoIter, IsInjective
<1>3. NoIter.ph # "going" /\ NoIter.ph # "ended" BY DEF NoIter
<1> QED BY <1>1, <1>2, <1>3 DEF Traversal

LEMMA Appended ==
  ASSUME NEW s \in Seq(Keys), NEW k \in Keys
  PROVE  /\ Append(s, k) \in Seq(Keys) /\ Range(Append(s, k)) = Range(s) \cup {k}
         /\ Len(Append(s, k)) = Len(s) + 1 /\ Append(s, k)[Len(s) + 1] = k
         /\ \A i \in 1..Len(s) : Append(s, k)[i] = s[i]
<1> DEFINE a == Append(s, k)
           n == Len(s)
<1>1. n \in Nat /\ a \in Seq(Keys) /\ Len(a) = n + 1 /\ a[n + 1] = k /\ \A i \in 1..n : a[i] = s[i]
  OBVIOUS
<1>2. DOMAIN a = 1..(n + 1) /\ DOMAIN s = 1..n OBVIOUS
<1> HIDE DEF a, n
<1>3. Range(a) = Range(s) \cup {k}
  <2>1. ASSUME NEW x \in Range(a) PROVE x \in Range(s) \cup {k}
    <3>1. PICK i \in 1..(n + 1) : x = a[i] BY <1>2 DEF Range
    <3>2. CASE i = n + 1 BY <1>1, <3>1, <3>2
    <3>3. CASE i # n + 1
      <4>1. i \in 1..n BY <1>1, <3>3
      <4> QED BY <1>1, <1>2, <3>1, <4>1 DEF Range
    <3> QED BY <3>2, <3>3
  <2>2. ASSUME NEW x \in Range(s) PROVE x \in Range(a)
    <3>1. PICK i \in 1..n : x = s[i] BY <1>2 DEF Range
    <3>2. i \in 1..(n + 1) BY <1>1
    <3> QED BY <1>1, <1>2, <3>1, <3>2 DEF Range
  <2>3. k \in Range(a)
    <3>1. n + 1 \in 1..(n + 1) BY <1>1
    <3> QED BY <1>1, <1>2, <3>1 DEF Range
  <2> QED BY <2>1, <2>2, <2>3
<1> QED BY <1>1, <1>3 DEF a, n

(* The step of lua_next *)
LEMMA NextTraversal ==
  ASSUME NEW tab, Sound(tab), NEW it, Traversal(tab, it), it.ph = "going"
  PROVE  LET k == luaH_next(tab, it.key)
             new == IF k = Absent THEN [it EXCEPT !.ph = "ended"]
                    ELSE [it EXCEPT !.key = k, !.seen = Append(@, k)]
         IN Traversal(tab, new)
<1> DEFINE k == luaH_next(tab, it.key)
           new == IF k = Absent THEN [it EXCEPT !.ph = "ended"]
                  ELSE [it EXCEPT !.key = k, !.seen = Append(@, k)]
<1>1. /\ it \in [ph : {it.ph}, key : {it.key}, seen : Seq(Keys), kept : SUBSET Keys]
      /\ IsInjective(it.seen) /\ Going(tab, it)
  BY DEF Traversal
<1>2. /\ it.key \in Keys \cup {Absent}
      /\ \A i \in 1..Len(it.seen) : findindex(tab, it.seen[i]) <= findindex(tab, it.key)
      /\ \A x \in it.kept : /\ luaH_get(tab, x) # nil
                            /\ \/ x \in Range(it.seen)
                               \/ findindex(tab, x) > findindex(tab, it.key)
  BY <1>1 DEF Going
<1>3. it.seen \in Seq(Keys) /\ it.kept \in SUBSET Keys BY <1>1
<1>4. /\ k # Absent => k \in Keys /\ findindex(tab, k) > findindex(tab, it.key)
      /\ \A x \in Keys : luaH_get(tab, x) # nil /\ findindex(tab, x) > findindex(tab, it.key) =>
           k # Absent /\ (x = k \/ findindex(tab, x) > findindex(tab, k))
  BY <1>2, NextKey
<1> HIDE DEF k
<1>5. CASE k = Absent
  <2>1. new = [it EXCEPT !.ph = "ended"] BY <1>5
  <2> HIDE DEF new
  <2>2. /\ new \in [ph : {new.ph}, key : {new.key}, seen : Seq(Keys), kept : SUBSET Keys]
        /\ new.ph = "ended" /\ new.seen = it.seen /\ new.kept = it.kept
    BY <1>1, <2>1
  <2>3. it.kept \subseteq Range(it.seen) BY <1>2, <1>3, <1>4, <1>5
  <2>4. Traversal(tab, new) BY <1>1, <2>2, <2>3 DEF Traversal
  <2> QED BY <2>4 DEF new, k
<1>6. CASE k # Absent
  <2> DEFINE s == it.seen
             more == Append(s, k)
  <2>1. new = [it EXCEPT !.key = k, !.seen = more] BY <1>6
  <2>2. k \in Keys BY <1>4, <1>6
  <2>3. /\ more \in Seq(Keys) /\ Range(more) = Range(s) \cup {k}
        /\ Len(more) = Len(s) + 1 /\ more[Len(s) + 1] = k
        /\ \A i \in 1..Len(s) : more[i] = s[i]
    BY <1>3, <2>2, Appended
  <2> HIDE DEF new, more
  <2>4. /\ new \in [ph : {new.ph}, key : {new.key}, seen : Seq(Keys), kept : SUBSET Keys]
        /\ new.ph = "going" /\ new.key = k /\ new.seen = more /\ new.kept = it.kept
    BY <1>1, <2>1, <2>3
  <2>5. Len(s) \in Nat /\ \A i \in 1..Len(s) : s[i] \in Keys BY <1>3
  <2>6. \A x \in Keys \cup {Absent} : findindex(tab, x) \in Nat BY IndexType
  <2>7. \A i \in 1..Len(s) : findindex(tab, s[i]) < findindex(tab, k)
    <3> SUFFICES ASSUME NEW i \in 1..Len(s) PROVE findindex(tab, s[i]) < findindex(tab, k) OBVIOUS
    <3> DEFINE a == findindex(tab, s[i])
               b == findindex(tab, it.key)
               c == findindex(tab, k)
    <3>1. a \in Nat /\ b \in Nat /\ c \in Nat BY <1>2, <2>2, <2>5, <2>6
    <3>2. a <= b /\ b < c BY <1>2, <1>4, <1>6, <3>1
    <3> HIDE DEF a, b, c
    <3>3. a < c BY <3>1, <3>2
    <3> QED BY <3>3 DEF a, c
  <2>8. ASSUME NEW i \in 1..Len(more)
        PROVE  (i = Len(s) + 1 /\ more[i] = k) \/ (i \in 1..Len(s) /\ more[i] = s[i])
    BY <2>3, <2>5
  <2>9. IsInjective(more)
    <3>1. \A i, j \in 1..Len(s) : s[i] = s[j] => i = j
      <4>1. DOMAIN s = 1..Len(s) BY <1>3
      <4> QED BY <1>1, <4>1 DEF IsInjective
    <3>2. \A i \in 1..Len(s) : s[i] # k
      <4> SUFFICES ASSUME NEW i \in 1..Len(s), s[i] = k PROVE FALSE OBVIOUS
      <4>1. findindex(tab, k) < findindex(tab, k) BY <2>7
      <4> QED BY <2>2, <2>6, <4>1
    <3>3. DOMAIN more = 1..Len(more) BY <2>3
    <3>4. ASSUME NEW i \in 1..Len(more), NEW j \in 1..Len(more), more[i] = more[j] PROVE i = j
      BY <2>8, <3>1, <3>2, <3>4
    <3> QED BY <3>3, <3>4 DEF IsInjective
  <2>10. Going(tab, new)
    <3>1. \A i \in 1..Len(more) : findindex(tab, more[i]) <= findindex(tab, k)
      <4> SUFFICES ASSUME NEW i \in 1..Len(more) PROVE findindex(tab, more[i]) <= findindex(tab, k)
        OBVIOUS
      <4>1. CASE more[i] = k BY <2>2, <2>6, <4>1
      <4>2. CASE i \in 1..Len(s) /\ more[i] = s[i]
        <5>1. findindex(tab, more[i]) < findindex(tab, k) /\ findindex(tab, more[i]) \in Nat
          BY <2>5, <2>6, <2>7, <4>2
        <5> QED BY <2>2, <2>6, <5>1
      <4> QED BY <2>8, <4>1, <4>2
    <3>2. ASSUME NEW x \in it.kept
          PROVE  luaH_get(tab, x) # nil /\ (x \in Range(more) \/ findindex(tab, x) > findindex(tab, k))
      BY <1>2, <1>3, <1>4, <2>3
    <3> QED BY <2>2, <2>4, <3>1, <3>2 DEF Going
  <2>11. Traversal(tab, new) BY <2>4, <2>9, <2>10 DEF Traversal
  <2> QED BY <2>11 DEF new, k
<1> QED BY <1>5, <1>6

(* Fields are changed or cleared, or marked, behind the traversal's back. *)
LEMMA KeepsTraversal ==
  ASSUME NEW tab, Sound(tab), NEW new, Repainted(tab.node, new.node),
         Len(new.array) = Len(tab.array), NEW it, Traversal(tab, it),
         NEW kept \in SUBSET it.kept, \A k \in kept : luaH_get(new, k) # nil
  PROVE  Traversal(new, [it EXCEPT !.kept = kept])
<1> DEFINE jt == [it EXCEPT !.kept = kept]
<1>1. it \in [ph : {it.ph}, key : {it.key}, seen : Seq(Keys), kept : SUBSET Keys]
      /\ IsInjective(it.seen)
  BY DEF Traversal
<1>2. it.kept \subseteq Keys /\ it.seen \in Seq(Keys) BY <1>1
<1>3. jt \in [ph : {it.ph}, key : {it.key}, seen : {it.seen}, kept : {kept}] BY <1>1
<1>4. jt.ph = it.ph /\ jt.key = it.key /\ jt.seen = it.seen /\ jt.kept = kept BY <1>3
<1>5. jt \in [ph : {jt.ph}, key : {jt.key}, seen : Seq(Keys), kept : SUBSET Keys]
  BY <1>2, <1>3, <1>4
<1> HIDE DEF jt
<1>6. \A k \in Keys \cup {Absent} : findindex(new, k) = findindex(tab, k) BY SameIndex
<1>7. ASSUME it.ph = "going" PROVE Going(new, jt)
  <2>1. Going(tab, it) BY <1>7 DEF Traversal
  <2>2. \A i \in 1..Len(it.seen) : it.seen[i] \in Keys BY <1>2
  <2>3. it.key \in Keys \cup {Absent} BY <2>1 DEF Going
  <2>4. \A i \in 1..Len(it.seen) : findindex(new, it.seen[i]) <= findindex(new, it.key)
    BY <1>6, <2>1, <2>2, <2>3 DEF Going
  <2>5. \A k \in kept : /\ luaH_get(new, k) # nil
                        /\ \/ k \in Range(it.seen)
                           \/ findindex(new, k) > findindex(new, it.key)
    BY <1>2, <1>6, <2>1, <2>3 DEF Going
  <2> QED BY <1>4, <2>3, <2>4, <2>5 DEF Going
<1>8. ASSUME it.ph = "ended" PROVE kept \subseteq Range(it.seen) BY <1>8 DEF Traversal
<1>9. Traversal(new, jt) BY <1>1, <1>4, <1>5, <1>7, <1>8 DEF Traversal
<1> QED BY <1>9 DEF jt

LEMMA BeginStep ==
  ASSUME TInv, Begin
  PROVE  Traversal(t, iter')
<1> DEFINE new == [NoIter EXCEPT !.ph = "going", !.kept = Used(t)]
<1>1. Sound(t) /\ iter' = new BY DEF TInv, IInv, Begin
<1>2. Used(t) \in SUBSET Keys BY <1>1, UsedFinite
<1>3. /\ new \in [ph : {new.ph}, key : {new.key}, seen : Seq(Keys), kept : SUBSET Keys]
      /\ new.ph = "going" /\ new.key = Absent /\ new.seen = <<>> /\ new.kept = Used(t)
  <2>1. NoIter \in [ph : {"none"}, key : {Absent}, seen : {<<>>}, kept : {{}}] BY DEF NoIter
  <2>2. new \in [ph : {"going"}, key : {Absent}, seen : {<<>>}, kept : {Used(t)}] BY <2>1
  <2> HIDE DEF new
  <2>3. new.ph = "going" /\ new.key = Absent /\ new.seen = <<>> /\ new.kept = Used(t) BY <2>2
  <2>4. <<>> \in Seq(Keys) OBVIOUS
  <2>5. new \in [ph : {new.ph}, key : {new.key}, seen : Seq(Keys), kept : SUBSET Keys]
    BY <1>2, <2>2, <2>3, <2>4
  <2> QED BY <2>3, <2>5
<1> HIDE DEF new
<1>4. IsInjective(new.seen) BY <1>3 DEF IsInjective
<1>5. findindex(t, Absent) = 0 BY DEF findindex
<1>6. ASSUME NEW k \in Used(t)
      PROVE  luaH_get(t, k) # nil /\ findindex(t, k) > findindex(t, Absent)
  <2>1. k \in Keys /\ luaH_get(t, k) # nil BY <1>2 DEF Used
  <2>2. findindex(t, k) \in 1..Total(t) BY <1>1, <2>1, KeyEntry
  <2> DEFINE i == findindex(t, k)
  <2>3. i > 0
    <3>1. i \in 1..Total(t) BY <2>2
    <3> HIDE DEF i
    <3> QED BY <3>1
  <2> QED BY <1>5, <2>1, <2>3
<1>7. Going(t, new) BY <1>3, <1>6 DEF Going
<1> QED BY <1>1, <1>3, <1>4, <1>7 DEF Traversal

LEMMA SetTraversal ==
  ASSUME TInv, lua_rawset
  PROVE  Traversal(t', iter')
<1>1. PICK k \in Keys \ {0}, v \in Values \cup {nil} :
        /\ iter.ph = "going" => luaH_get(t, k) # nil
        /\ t' = Set(t, k, v)
        /\ iter' = IF iter.ph # "going" THEN NoIter
                   ELSE [iter EXCEPT !.kept = IF v = nil THEN @ \ {k} ELSE @]
  BY DEF lua_rawset
<1>2. Sound(t) /\ Traversal(t, iter) BY DEF TInv, IInv
<1>3. v \in Content BY Types
<1>4. CASE iter.ph # "going" BY <1>1, <1>4, NoTraversal
<1>5. CASE iter.ph = "going"
  <2> DEFINE kept == IF v = nil THEN iter.kept \ {k} ELSE iter.kept
             new  == Set(t, k, v)
  <2>1. luaH_get(t, k) # nil /\ t' = new /\ iter' = [iter EXCEPT !.kept = kept] BY <1>1, <1>5
  <2>2. Present(t, k) BY <2>1 DEF Present, luaH_get
  <2>3. Assigned(t, new, k, v) /\ Written(t, new, v) BY <1>2, <1>3, <2>2, SetOK
  <2> HIDE DEF new
  <2>4. kept \in SUBSET iter.kept OBVIOUS
  <2>5. \A x \in iter.kept : x \in Keys /\ luaH_get(t, x) # nil
    <3>1. Going(t, iter) /\ iter \in [ph : {iter.ph}, key : {iter.key}, seen : Seq(Keys), kept : SUBSET Keys]
      BY <1>2, <1>5 DEF Traversal
    <3>2. iter.kept \in SUBSET Keys BY <3>1
    <3> QED BY <3>1, <3>2 DEF Going
  <2>6. \A x \in kept : luaH_get(new, x) # nil
    <3> SUFFICES ASSUME NEW x \in kept PROVE luaH_get(new, x) # nil OBVIOUS
    <3>1. x \in Keys /\ luaH_get(t, x) # nil /\ (v = nil => x # k) BY <2>4, <2>5
    <3> QED BY <2>3, <3>1 DEF Assigned
  <2> HIDE DEF kept
  <2>7. Repainted(t.node, new.node) /\ Len(new.array) = Len(t.array) BY <2>3 DEF Written
  <2>8. Traversal(new, [iter EXCEPT !.kept = kept]) BY <1>2, <2>4, <2>6, <2>7, KeepsTraversal
  <2> QED BY <2>1, <2>8
<1> QED BY <1>4, <1>5

LEMMA SweepTraversal ==
  ASSUME TInv, removeentry
  PROVE  Traversal(t', iter')
<1> DEFINE new == [t EXCEPT !.node = Swept(t.node)]
<1>1. t' = new /\ iter' = iter BY DEF removeentry, Swept, Nodes
<1>2. Sound(t) /\ Traversal(t, iter) BY DEF TInv, IInv
<1>3. SameMap(t, new) /\ Repainted(t.node, new.node) /\ Len(new.array) = Len(t.array)
  BY <1>2, SweepOK
<1> HIDE DEF new
<1>4. iter \in [ph : {iter.ph}, key : {iter.key}, seen : Seq(Keys), kept : SUBSET Keys]
  BY <1>2 DEF Traversal
<1>5. CASE iter.ph = "going"
  <2>1. \A x \in iter.kept : luaH_get(new, x) # nil
    <3>1. Going(t, iter) BY <1>2, <1>5 DEF Traversal
    <3>2. iter.kept \in SUBSET Keys BY <1>4
    <3> QED BY <1>3, <3>1, <3>2 DEF Going, SameMap
  <2>2. Traversal(new, [iter EXCEPT !.kept = iter.kept]) BY <1>2, <1>3, <2>1, KeepsTraversal
  <2>3. [iter EXCEPT !.kept = iter.kept] = iter BY <1>4
  <2> QED BY <1>1, <2>2, <2>3
<1>6. CASE iter.ph # "going" BY <1>1, <1>2, <1>6 DEF Traversal
<1> QED BY <1>5, <1>6

LEMMA NextTInv ==
  ASSUME TInv, [Next]_vars
  PROVE  TInv'
<1>1. IInv' BY NextIInv DEF TInv
<1> SUFFICES Traversal(t', iter') BY <1>1 DEF TInv
<1>2. ASSUME t' = t, iter' = iter PROVE Traversal(t', iter') BY <1>2 DEF TInv
<1>3. ASSUME iter' = NoIter PROVE Traversal(t', iter') BY <1>3, NoTraversal
<1>4. CASE Begin BY <1>4, BeginStep DEF Begin
<1>5. CASE lua_next
  <2>1. Sound(t) /\ Traversal(t, iter) BY DEF TInv, IInv
  <2> DEFINE k   == luaH_next(t, iter.key)
             new == IF k = Absent THEN [iter EXCEPT !.ph = "ended"]
                    ELSE [iter EXCEPT !.key = k, !.seen = Append(@, k)]
  <2>2. iter.ph = "going" /\ iter' = new /\ t' = t BY <1>5 DEF lua_next
  <2>3. Traversal(t, new) BY <2>1, <2>2, NextTraversal, ZenonT(30)
  <2> HIDE DEF new
  <2> QED BY <2>2, <2>3
<1>6. CASE UNCHANGED vars BY <1>2, <1>6 DEF vars
<1>7. CASE removeentry BY <1>7, SweepTraversal
<1>8. CASE lua_rawset BY <1>8, SetTraversal
<1>9. CASE OP_SETLIST BY <1>3, <1>9 DEF OP_SETLIST, Quiet
<1>10. CASE tinsert BY <1>3, <1>10 DEF tinsert, Quiet
<1>11. CASE tremove BY <1>3, <1>11 DEF tremove, Quiet
<1>12. CASE luaL_ref BY <1>3, <1>12 DEF luaL_ref
<1>13. CASE luaL_unref BY <1>3, <1>13 DEF luaL_unref
<1> QED BY <1>4, <1>5, <1>6, <1>7, <1>8, <1>9, <1>10, <1>11, <1>12, <1>13 DEF Next

(* TraversalComplete: luaH_next goes through every field that stays, once each,
   though fields change on the way and the collector marks the keys of cleared
   ones, the one it goes on from among them. *)
THEOREM TraversalIsComplete == Spec => []TraversalComplete
<1>1. Init => TInv
  <2> SUFFICES ASSUME Init PROVE TInv OBVIOUS
  <2>1. IInv BY InitIInv
  <2>2. Traversal(t, iter) BY NoTraversal DEF Init
  <2> QED BY <2>1, <2>2 DEF TInv
<1>2. TInv /\ [Next]_vars => TInv' BY NextTInv
<1>3. TInv => TraversalComplete
  <2> SUFFICES ASSUME TInv PROVE TraversalComplete OBVIOUS
  <2>1. Traversal(t, iter) BY DEF TInv
  <2> QED BY <2>1 DEF Traversal, TraversalComplete
<1> QED BY <1>1, <1>2, <1>3, PTL DEF Spec

==============================================================================
