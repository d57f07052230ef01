--------------------------------- MODULE Sort ---------------------------------
(* table.sort (ltablib.c): a quicksort on the table itself that asks a function
   of the script about two values of the Lua stack at a time.  An action is what
   runs from the answer to one question to the next question.  The values are
   told apart by the places they had; place 0 and the place after the last one
   belong to the table too, although they are not to be sorted. *)
EXTENDS Integers, Sequences, SequencesExt

CONSTANTS
  Sizes,              \* the lengths of tables
  Orders(_)           \* for a length, the orders that the values may have

(* An order is a sequence of one element, the rank of each value; for <<>> the
   function of the script answers as it likes. *)
ASSUME SortAssumption ==
  /\ Sizes \subseteq Nat
  /\ \A len \in Sizes : \A o \in Orders(len) : o \in Seq([1..len -> Int])

VARIABLES
  order,    \* the order that the function knows
  n,        \* the length the table had when the call began
  t,        \* the table: the value of each place
  stack,    \* what is on the Lua stack above the two arguments
  calls,    \* the calls of auxsort under way, each with what it has left to sort
  i, j,     \* the two places of the innermost one
  asks,     \* the question it asks, or "none" between two turns of its loop
  result    \* "busy", "sorted", "invalid" or "failed"

sortvars == <<order, n, t, stack, calls, i, j, asks, result>>

l == Last(calls)[1]
u == Last(calls)[2]

------------------------------------------------------------------------------
(* The Lua stack: values from places of the table, and back *)

OnStack(k) == stack[Len(stack) + 1 + k]
Got(s, ks) == s \o [x \in DOMAIN ks |-> t[ks[x]]]
Pop(s, x) == SubSeq(s, 1, Len(s) - x)

set2(s, x, y) == [t EXCEPT ![x] = Last(s), ![y] = s[Len(s) - 1]]

(* Which value is said to be less than which: places on the stack *)
sort_comp ==
  [ends |-> <<-1, -2>>, low |-> <<-2, -1>>, high |-> <<-1, -2>>, up |-> <<-1, -2>>, down |-> <<-3, -1>>]

Asked == <<OnStack(sort_comp[asks][1]), OnStack(sort_comp[asks][2])>>

------------------------------------------------------------------------------
(* auxsort *)

Again(lu) == /\ calls' = [calls EXCEPT ![Len(calls)] = lu]
             /\ asks' = "none"

(* Nothing is left of this call, or its range begins with the two ends. *)
Return ==
  /\ asks = "none" /\ l >= u
  /\ calls' = Front(calls)
  /\ result' = IF Len(calls) = 1 THEN "sorted" ELSE result
  /\ UNCHANGED <<n, t, stack, i, j, asks>>

Begin ==
  /\ asks = "none" /\ l < u
  /\ stack' = Got(stack, <<l, u>>)
  /\ asks' = "ends"
  /\ UNCHANGED <<n, t, calls, i, j, result>>

(* a[u] < a[l]: swap them.  A range of two is sorted now. *)
TwoEnds(less) ==
  LET new == IF less THEN set2(stack, l, u) ELSE t
      mid == (l + u) \div 2
  IN /\ asks = "ends"
     /\ t' = new
     /\ IF u - l = 1 THEN /\ Again(<<u, u>>)
                          /\ stack' = Pop(stack, 2)
                          /\ UNCHANGED i
        ELSE /\ asks' = "low" /\ i' = mid
             /\ stack' = Pop(stack, 2) \o <<new[mid], new[l]>>
             /\ UNCHANGED calls
     /\ UNCHANGED <<n, j, result>>

(* The pivot is the middle one of three; it waits at u - 1. *)
Partition(new, s) ==
  IF u - l = 2 THEN /\ Again(<<u, u>>)
                    /\ t' = new /\ stack' = s
                    /\ UNCHANGED <<i, j>>
  ELSE /\ t' = [new EXCEPT ![i] = new[u - 1], ![u - 1] = new[i]]
       /\ i' = l + 1 /\ j' = u - 1
       /\ stack' = s \o <<new[i], t'[l + 1]>>
       /\ asks' = "up"
       /\ UNCHANGED calls

Low(less) ==
  /\ asks = "low"
  /\ IF less THEN Partition(set2(stack, i, l), Pop(stack, 2))
     ELSE /\ stack' = Append(Pop(stack, 1), t[u])
          /\ asks' = "high"
          /\ UNCHANGED <<t, calls, i, j>>
  /\ UNCHANGED <<n, result>>

High(less) ==
  /\ asks = "high"
  /\ Partition(IF less THEN set2(stack, i, u) ELSE t, Pop(stack, 2))
  /\ UNCHANGED <<n, result>>

Invalid == /\ result' = "invalid"
           /\ UNCHANGED <<n, t, stack, calls, i, j, asks>>

(* ++i until a[i] >= P *)
Up(less) ==
  /\ asks = "up"
  /\ IF less /\ i > u THEN Invalid
     ELSE /\ IF less THEN /\ i' = i + 1
                          /\ stack' = Append(Pop(stack, 1), t[i + 1])
                          /\ UNCHANGED <<j, asks>>
             ELSE /\ j' = j - 1
                  /\ stack' = Append(stack, t[j - 1])
                  /\ asks' = "down"
                  /\ UNCHANGED i
          /\ UNCHANGED <<n, t, calls, result>>

(* Variant: the larger part first. *)
Halves_LargeFirst ==
  IF i - l < u - i THEN [large |-> <<l, i - 1>>, small |-> <<i + 1, u>>]
  ELSE [large |-> <<i + 1, u>>, small |-> <<l, i - 1>>]

(* The call goes on with the larger part, after one of its own for the smaller. *)
Halves ==
  IF i - l < u - i THEN [small |-> <<l, i - 1>>, large |-> <<i + 1, u>>]
  ELSE [small |-> <<i + 1, u>>, large |-> <<l, i - 1>>]

(* --j until a[j] <= P; then a[i] and a[j] change places, or the two have met and
   the pivot goes between the parts. *)
Down(less) ==
  /\ asks = "down"
  /\ IF less /\ j < l THEN Invalid
     ELSE IF less
     THEN /\ j' = j - 1
          /\ stack' = Append(Pop(stack, 1), t[j - 1])
          /\ UNCHANGED <<n, t, calls, i, asks, result>>
     ELSE IF j >= i
     THEN /\ t' = set2(stack, i, j)
          /\ i' = i + 1
          /\ stack' = Append(Pop(stack, 2), t'[i + 1])
          /\ asks' = "up"
          /\ UNCHANGED <<n, calls, j, result>>
     ELSE /\ t' = [t EXCEPT ![u - 1] = t[i], ![i] = t[u - 1]]
          /\ stack' = Pop(stack, 3)
          /\ calls' = Append(Front(calls), Halves.large) \o <<Halves.small>>
          /\ asks' = "none"
          /\ UNCHANGED <<n, i, j, result>>

Answer(less) == TwoEnds(less) \/ Low(less) \/ High(less) \/ Up(less) \/ Down(less)

(* The function raises an error. *)
Fail == /\ asks # "none"
        /\ result' = "failed"
        /\ UNCHANGED <<n, t, stack, calls, i, j, asks>>

sort ==
  /\ n \in Sizes /\ order \in Orders(n)
  /\ t = [k \in 0..n + 1 |-> k]
  /\ stack = <<>> /\ calls = <<<<1, n>>>> /\ i = 0 /\ j = 0
  /\ asks = "none" /\ result = "busy"

Valid == order # <<>>
Rank(v) == order[1][v]
Less(x, y) == IF Valid THEN {Rank(x) < Rank(y)} ELSE BOOLEAN

SortNext ==
  /\ result = "busy"
  /\ \/ Return \/ Begin \/ Fail
     \/ asks # "none" /\ \E less \in Less(Asked[1], Asked[2]) : Answer(less)
  /\ UNCHANGED order

SortSpec == sort /\ [][SortNext]_sortvars

------------------------------------------------------------------------------
(* Whatever the function answers, and whenever it fails, the table and the two
   places next to the values hold what they held, at most in another order; the
   calls of auxsort nest no deeper on the C stack than the logarithm of the length,
   as the recursion on the smaller part is for, and leave nothing on the Lua stack
   for each other.  With an order, no other places are read or written and the
   values end up sorted. *)

SortSound ==
  /\ {t[k] : k \in 0..n + 1} = 0..n + 1
  /\ Len(calls) > 1 => 2 ^ (Len(calls) - 1) <= n
  /\ Len(stack) <= 3
  /\ Valid => /\ t[0] = 0 /\ t[n + 1] = n + 1 /\ result # "invalid"
              /\ asks # "none" => ToSet(Asked) \subseteq 1..n
              /\ result = "sorted" => \A k \in 1..n - 1 : Rank(t[k]) <= Rank(t[k + 1])

==============================================================================
