------------------------------ MODULE TableMap ------------------------------
(***************************************************************************)
(* What a Lua table promises: it is a map from keys to values, and its     *)
(* length is any one of its borders.                                       *)
(***************************************************************************)
EXTENDS Integers

CONSTANTS Keys, Values, Objects, nil

VARIABLE map

Indices == {k \in Keys : k \in Nat \ {0}}
At(k)   == IF k \in Keys THEN map[k] ELSE nil
Borders == {n \in Indices \cup {0} : (n = 0 \/ At(n) # nil) /\ At(n + 1) = nil}

Init == map = [k \in Keys |-> nil]

Assign(k, v) == map' = [map EXCEPT ![k] = v]

(* The elements from pos to e make room for v. *)
Insert(e, pos, v) ==
  map' = [k \in Keys |-> IF k = pos THEN v
                         ELSE IF k \in (pos + 1)..e THEN At(k - 1) ELSE map[k]]

(* The elements above pos, to e, move down. *)
Remove(e, pos) ==
  map' = [k \in Keys |-> IF k = e THEN nil
                         ELSE IF k \in pos..(e - 1) THEN At(k + 1) ELSE map[k]]

(* The first n elements at once *)
List(n, v) == map' = [k \in Keys |-> IF k \in 1..n THEN v ELSE map[k]]

(* A reference is the first of the free ones, a list from 0 on, or a new one. *)
Ref(o) ==
  IF At(0) # nil THEN map' = [map EXCEPT ![0] = At(At(0)), ![At(0)] = o]
  ELSE \E n \in Borders : n + 1 \in Keys /\ map' = [map EXCEPT ![n + 1] = o]

Unref(r) == map' = [map EXCEPT ![r] = map[0], ![0] = r]

Next ==
  \/ \E k \in Keys, v \in Values \cup {nil} : Assign(k, v)
  \/ \E n \in Borders, v \in Values, pos \in Indices :
       Insert(IF pos > n + 1 THEN pos ELSE n + 1, pos, v)
  \/ \E e \in Borders : \E pos \in 1..e : Remove(e, pos)
  \/ \E n \in Indices, v \in Values : List(n, v)
  \/ \E o \in Objects : Ref(o)
  \/ \E r \in Indices : Unref(r)

Spec == Init /\ [][Next]_map
=============================================================================
