------------------------------ MODULE LuaTable ------------------------------
(***************************************************************************)
(* The tables of the embedded Lua (ltable.c): an array part, and a hash    *)
(* part that is a chained scatter table with Brent's variation, with the   *)
(* traversal of luaH_next, the marking of dead keys by the collector and,  *)
(* as clients, table.insert and table.remove (ltablib.c) and the           *)
(* references of luaL_ref (lauxlib.c).                                     *)
(*                                                                         *)
(* A key is a number or a collectable object.  The hash of a key is a      *)
(* constant: it comes from the bits of a number or a string.               *)
(***************************************************************************)
EXTENDS Integers, Sequences, FiniteSets, SequencesExt

CONSTANTS Keys,      \* numbers and collectable objects
          Hash,      \* of each of them
          Values, nil,
          Objects,   \* what luaL_ref is called for
          Absent,    \* no key
          MaxLog     \* bound: no table has more than 2^MaxLog positions

Numbers == Keys \cap Nat
Indices == Numbers \ {0}

ASSUME TableAssumption ==
  /\ 0 \in Numbers /\ \A n \in Numbers : 0..n \subseteq Keys
  /\ nil \notin Values \cup Objects \cup Numbers /\ Absent \notin Keys
  /\ Hash \in [Keys -> Nat] /\ MaxLog \in Nat

VARIABLES t,      \* [array, node, lastfree, dummy, again]
          iter,   \* a traversal: [key, seen, kept], or NoIter
          refs    \* the references given by luaL_ref, with their objects

vars == <<t, iter, refs>>

NULL     == -1
FreeNode == [key |-> Absent, dead |-> FALSE, val |-> nil, next |-> NULL]

sizearray(tab) == Len(tab.array)
Nodes(tab)     == DOMAIN tab.node
sizenode(tab)  == Cardinality(Nodes(tab))

ceillog2(x) == CHOOSE n \in 0..x : 2^n >= x /\ (n = 0 \/ 2^(n - 1) < x)

------------------------------------------------------------------------------
(* Search *)

hashmod(tab, h) ==
  LET n == sizenode(tab) - 1 IN h % (IF n % 2 = 0 THEN n + 1 ELSE n)

mainposition(tab, k) ==
  IF k = 0 THEN 0
  ELSE IF k \in Numbers THEN hashmod(tab, Hash[k])
  ELSE Hash[k] % sizenode(tab)

InArray(tab, k) == k \in Indices /\ k <= sizearray(tab)

(* The first node of the chain of k that is one of `sought' *)
Walk(tab, k, sought) ==
  LET from[n \in Nodes(tab) \cup {NULL}] ==
        IF n \in sought \cup {NULL} THEN n ELSE from[tab.node[n].next]
  IN from[mainposition(tab, k)]

Holding(tab, k) == {n \in Nodes(tab) : tab.node[n].key = k}

Find(tab, k) == Walk(tab, k, {n \in Holding(tab, k) : ~tab.node[n].dead})

luaH_get(tab, k) ==
  IF InArray(tab, k) THEN tab.array[k]
  ELSE IF Find(tab, k) = NULL THEN nil
  ELSE tab.node[Find(tab, k)].val

------------------------------------------------------------------------------
(* Insertion *)

(* A new key in a hash part that has room; `again' tells that it had none. *)
getfreepos(tab) ==
  LET free == {n \in Nodes(tab) : n < tab.lastfree /\ tab.node[n].key = Absent}
  IN IF free = {} THEN NULL ELSE Max(free)

PutNode_CutsChain(tab, k, v) ==
  LET mp  == mainposition(tab, k)
      new == [FreeNode EXCEPT !.key = k, !.val = v]
      n   == getfreepos(tab)
  IN IF tab.node[mp].val = nil /\ ~tab.dummy THEN [tab EXCEPT !.node[mp] = new]
     ELSE IF n = NULL THEN [tab EXCEPT !.again = TRUE]
     ELSE [tab EXCEPT !.lastfree = n, !.node =
             [@ EXCEPT ![n] = [new EXCEPT !.next = tab.node[mp].next], ![mp].next = n]]

PutNode(tab, k, v) ==
  LET mp  == mainposition(tab, k)
      new == [FreeNode EXCEPT !.key = k, !.val = v]
      n   == getfreepos(tab)
  IN IF tab.node[mp].val = nil /\ ~tab.dummy
     THEN [tab EXCEPT !.node[mp] = [new EXCEPT !.next = tab.node[mp].next]]
     ELSE IF n = NULL THEN [tab EXCEPT !.again = TRUE]
     ELSE LET othern == mainposition(tab, tab.node[mp].key) IN
       IF othern # mp   \* the colliding node moves
       THEN LET previous == Walk(tab, tab.node[mp].key,
                                 {p \in Nodes(tab) : tab.node[p].next = mp}) IN
              [tab EXCEPT !.lastfree = n, !.node =
                 [@ EXCEPT ![previous].next = n, ![n] = tab.node[mp], ![mp] = new]]
       ELSE [tab EXCEPT !.lastfree = n, !.node =
               [@ EXCEPT ![n] = [new EXCEPT !.next = tab.node[mp].next],
                         ![mp].next = n]]

(* luaH_set or luaH_setnum, and the assignment to what it returns *)
Present(tab, k) == InArray(tab, k) \/ Find(tab, k) # NULL

Overwrite(tab, k, v) ==
  IF InArray(tab, k) THEN [tab EXCEPT !.array[k] = v]
  ELSE [tab EXCEPT !.node[Find(tab, k)].val = v]

Reinsert(tab, k, v) ==
  IF Present(tab, k) THEN Overwrite(tab, k, v) ELSE PutNode(tab, k, v)

setnodevector(tab, size) ==
  LET n == IF size = 0 THEN 0 ELSE 2 ^ ceillog2(size) IN
    [tab EXCEPT !.node = [i \in 0..(IF n = 0 THEN 0 ELSE n - 1) |-> FreeNode],
                !.lastfree = n, !.dummy = (n = 0)]

(* An element of the array, or of the hash part, is put into the new table. *)
MoveElement(tab, e) == IF e.val = nil THEN tab ELSE Reinsert(tab, e.key, e.val)

resize_LosesSlice(tab, nasize, nhsize) ==
  LET array   == [i \in 1..nasize |->
                    IF i <= sizearray(tab) THEN tab.array[i] ELSE nil]
      emptied == setnodevector([tab EXCEPT !.array = array], nhsize)
      hash    == [i \in 1..sizenode(tab) |-> tab.node[sizenode(tab) - i]]
  IN FoldLeft(MoveElement, emptied, hash)

resize(tab, nasize, nhsize) ==
  LET old     == sizearray(tab)
      array   == [i \in 1..nasize |-> IF i <= old THEN tab.array[i] ELSE nil]
      emptied == setnodevector([tab EXCEPT !.array = array], nhsize)
      slice   == [i \in 1..(IF nasize < old THEN old - nasize ELSE 0) |->
                    [key |-> nasize + i, val |-> tab.array[nasize + i]]]
      hash    == [i \in 1..sizenode(tab) |-> tab.node[sizenode(tab) - i]]
  IN FoldLeft(MoveElement, emptied, slice \o hash)

(* nums[i] = number of keys between 2^(i-1) and 2^i *)
Used(tab) == {k \in Keys : luaH_get(tab, k) # nil}
nums(ks)  == [i \in 0..MaxLog |-> Cardinality({k \in ks \cap Indices : ceillog2(k) = i})]

(* The size of the array part, and how many of the keys go there *)
computesizes(count, narray) ==
  LET step(s, i) ==
        LET a == s.a + count[i] IN
          IF 2^i \div 2 >= narray \/ count[i] = 0 THEN [s EXCEPT !.a = a]
          ELSE IF a > 2^i \div 2 THEN [a |-> a, n |-> 2^i, na |-> a]
          ELSE [s EXCEPT !.a = a]
  IN FoldLeft(step, [a |-> 0, n |-> 0, na |-> 0], [i \in 1..(MaxLog + 1) |-> i - 1])

rehash(tab, ek) ==
  LET keys == Used(tab) \cup {ek}
      s    == computesizes(nums(keys), Cardinality(keys \cap Indices))
  IN resize(tab, s.n, Cardinality(keys) - s.na)

newkey(tab, k, v) ==
  LET put == PutNode(tab, k, v) IN
    IF put.again THEN Reinsert(rehash(tab, k), k, v) ELSE put

Set(tab, k, v) ==
  IF Present(tab, k) THEN Overwrite(tab, k, v) ELSE newkey(tab, k, v)

luaH_new ==
  [array |-> <<>>, node |-> [n \in {0} |-> FreeNode], lastfree |-> 0, dummy |-> TRUE,
   again |-> FALSE]

(* OP_SETLIST *)
luaH_resizearray(tab, nasize) ==
  resize(tab, nasize, IF tab.dummy THEN 0 ELSE sizenode(tab))

------------------------------------------------------------------------------
(* The length *)

Get(tab, k) == IF k \in Keys THEN luaH_get(tab, k) ELSE nil

(* Between an index that is present, or 0, and one that is absent *)
BinarySearch(tab, present, absent) ==
  LET search[s \in (0..absent) \X (0..absent)] ==   \* s = <<i, j>>
        LET m == (s[1] + s[2]) \div 2 IN
          IF s[2] - s[1] <= 1 THEN s[1]
          ELSE search[IF Get(tab, m) = nil THEN <<s[1], m>> ELSE <<m, s[2]>>]
  IN search[<<present, absent>>]

(* j doubles up to an absent index; no table is so large that it overflows. *)
unbound_search(tab, size) ==
  LET from[s \in Nat \X Nat] ==   \* s = <<i, j>>
        IF Get(tab, s[2]) = nil THEN BinarySearch(tab, s[1], s[2])
        ELSE from[<<s[2], 2 * s[2]>>]
  IN from[<<size, size + 1>>]

luaH_getn(tab) ==
  LET j == sizearray(tab) IN
    IF j > 0 /\ tab.array[j] = nil THEN BinarySearch(tab, 0, j)
    ELSE IF tab.dummy THEN j
    ELSE unbound_search(tab, j)

------------------------------------------------------------------------------
(* Traversal *)

(* findindex: the position of a key, counted from 1 as luaH_next goes on from
   it; the node may have a dead key. *)
findindex_LiveKeys(tab, k) ==
  IF k = Absent THEN 0
  ELSE IF InArray(tab, k) THEN k
  ELSE Find(tab, k) + 1 + sizearray(tab)

findindex(tab, k) ==
  IF k = Absent THEN 0
  ELSE IF InArray(tab, k) THEN k
  ELSE Walk(tab, k, Holding(tab, k)) + 1 + sizearray(tab)

Entry(tab, i) ==
  IF i <= sizearray(tab) THEN [key |-> i, val |-> tab.array[i]]
  ELSE tab.node[i - sizearray(tab) - 1]

(* luaH_next: the key after k, or Absent *)
luaH_next(tab, k) ==
  LET after == {i \in (findindex(tab, k) + 1)..(sizearray(tab) + sizenode(tab)) :
                  Entry(tab, i).val # nil}
  IN IF after = {} THEN Absent ELSE Entry(tab, Min(after)).key

Registry == refs # {} \/ Get(t, 0) # nil    \* it is left to luaL_ref

NoIter == [ph |-> "none", key |-> Absent, seen |-> <<>>, kept |-> {}]

Begin ==
  /\ iter.ph = "none" /\ ~Registry
  /\ iter' = [NoIter EXCEPT !.ph = "going", !.kept = Used(t)]
  /\ UNCHANGED <<t, refs>>

lua_next ==
  /\ iter.ph = "going"
  /\ LET k == luaH_next(t, iter.key) IN
       iter' = IF k = Absent THEN [iter EXCEPT !.ph = "ended"]
               ELSE [iter EXCEPT !.key = k, !.seen = Append(@, k)]
  /\ UNCHANGED <<t, refs>>

(* traversetable: the collector removes the empty entries. *)
removeentry ==
  /\ t' = [t EXCEPT !.node = [n \in Nodes(t) |->
             IF @[n].val = nil /\ @[n].key \notin Numbers \cup {Absent}
             THEN [@[n] EXCEPT !.dead = TRUE] ELSE @[n]]]
  /\ UNCHANGED <<iter, refs>>

------------------------------------------------------------------------------
(* The program.  In a traversal it may only assign to fields that exist. *)

lua_rawset ==
  /\ ~Registry
  /\ \E k \in Keys \ {0}, v \in Values \cup {nil} :
       /\ iter.ph = "going" => luaH_get(t, k) # nil
       /\ t' = Set(t, k, v)
       /\ iter' = IF iter.ph # "going" THEN NoIter
                  ELSE [iter EXCEPT !.kept = IF v = nil THEN @ \ {k} ELSE @]
  /\ UNCHANGED refs

Quiet == ~Registry /\ iter.ph # "going" /\ iter' = NoIter /\ UNCHANGED refs

(* OP_SETLIST: the elements from the last one down *)
OP_SETLIST ==
  /\ Quiet
  /\ \E n \in Indices, v \in Values :
       t' = FoldLeft(LAMBDA tab, i : Set(tab, i, v),
                     IF n > sizearray(t) THEN luaH_resizearray(t, n) ELSE t,
                     [i \in 1..n |-> n + 1 - i])

(* t[i] = t[i + by], for the indices `is' in this order *)
Shift(tab, by, is) ==
  FoldLeft(LAMBDA u, i : Set(u, i, luaH_get(u, i + by)), tab, is)

tinsert ==
  /\ Quiet
  /\ \E pos \in Indices, v \in Values :
       LET n == luaH_getn(t) + 1
           e == IF pos > n THEN pos ELSE n
       IN /\ e \in Keys
          /\ t' = Set(Shift(t, -1, [i \in 1..(e - pos) |-> e + 1 - i]), pos, v)

tremove ==
  /\ Quiet
  /\ LET e == luaH_getn(t) IN
       \E pos \in 1..e :
         t' = Set(Shift(t, 1, [i \in 1..(e - pos) |-> pos + i - 1]), e, nil)

------------------------------------------------------------------------------
(* References, with the free list from t[0] on *)

luaL_ref_KeepsFree ==
  /\ iter = NoIter /\ (Registry \/ Used(t) = {})
  /\ \E o \in Objects :
       LET ref == IF Get(t, 0) = nil THEN luaH_getn(t) + 1 ELSE Get(t, 0) IN
         /\ ref \in Keys
         /\ t' = Set(t, ref, o)
         /\ refs' = refs \cup {<<ref, o>>}
  /\ UNCHANGED iter

luaL_ref ==
  /\ iter = NoIter /\ (Registry \/ Used(t) = {})
  /\ \E o \in Objects :
       LET first == Get(t, 0)
           ref   == IF first = nil THEN luaH_getn(t) + 1 ELSE first
           popped == IF first = nil THEN t ELSE Set(t, 0, luaH_get(t, first))
       IN /\ ref \in Keys
          /\ t' = Set(popped, ref, o)
          /\ refs' = refs \cup {<<ref, o>>}
  /\ UNCHANGED iter

luaL_unref ==
  /\ iter = NoIter
  /\ \E r \in refs :
       /\ t' = Set(Set(t, r[1], Get(t, 0)), 0, r[1])
       /\ refs' = refs \ {r}
  /\ UNCHANGED iter

Init ==
  /\ t = luaH_new
  /\ iter = NoIter
  /\ refs = {}

Next ==
  \/ Begin \/ lua_next \/ removeentry \/ lua_rawset \/ OP_SETLIST \/ tinsert
  \/ tremove \/ luaL_ref \/ luaL_unref

Spec == Init /\ [][Next]_vars

------------------------------------------------------------------------------
Content == Values \cup Objects \cup Numbers \cup {nil}

TypeOK ==
  /\ t.array \in Seq(Content)
  /\ t.node \in [Nodes(t) -> [key : Keys \cup {Absent}, dead : BOOLEAN,
                              val : Content,
                              next : Nodes(t) \cup {NULL}]]
  /\ t.dummy \in BOOLEAN /\ t.again \in BOOLEAN /\ t.lastfree \in 0..sizenode(t)
  /\ refs \subseteq Numbers \X Objects

(* Every node of the hash part is in the chain that begins at the main position
   of its key, and its key is nowhere else. *)
ChainsFind ==
  \A n \in Nodes(t) : t.node[n].key # Absent /\ ~t.node[n].dead =>
    /\ Find(t, t.node[n].key) = n
    /\ ~InArray(t, t.node[n].key)

(* Re-inserting the keys that rehash has counted does not call it again. *)
RehashOnce == ~t.again

(* luaH_getn is a boundary. *)
LengthIsBorder ==
  LET n == luaH_getn(t) IN (n = 0 \/ Get(t, n) # nil) /\ Get(t, n + 1) = nil

(* ltable.c: a key that is in the table is found, whatever nodes newkey has moved
   or used again; the table rehash makes has room for what it has counted; and
   the length is a border, wherever the two parts meet. *)
HashSound == TypeOK /\ ChainsFind /\ RehashOnce /\ LengthIsBorder

(* ltable.c: a traversal in which fields are only changed or cleared shows every
   key that stays, and no key twice, even when the collector has marked the key
   from which it goes on as dead. *)
TraversalComplete ==
  /\ IsInjective(iter.seen)
  /\ iter.ph = "ended" => iter.kept \subseteq Range(iter.seen)

(* lauxlib.c: a reference gives back its object until it is released. *)
RefsHold == \A r \in refs : Get(t, r[1]) = r[2]

(* ltable.c, ltablib.c, lauxlib.c: it all amounts to a map. *)
Map == INSTANCE TableMap WITH
         map <- [k \in Keys |-> luaH_get(t, k)]

ImplementsMap == Map!Spec

==============================================================================
