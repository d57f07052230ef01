------------------------------ MODULE SortProofs ------------------------------
(***************************************************************************)
(* table.sort is sound (SortSound), for tables of any length, any order    *)
(* and any answers of a function that is none.  The invariant has two      *)
(* parts.  What holds whatever the function answers: the table is a        *)
(* rearrangement, the indices stay next to the range, and a call below     *)
(* another has at most half of its range.  What holds under an order:      *)
(* values that are not in the range of one call any more are in order      *)
(* (Settled), and the two ends of a range hold the indices back (Pivot).   *)
(***************************************************************************)
EXTENDS Sort, FiniteSetTheorems, SequenceTheorems, TLAPS

(* The parts of the invariant speak of a table tt of m values, of calls c and of a
   question aa with indices ii and jj and values ss on the stack, for the range
   from lo to hi. *)

Shuffled(m, tt) ==
  /\ m \in Nat /\ tt \in [0..m + 1 -> 0..m + 1]
  /\ \A v \in 0..m + 1 : \E k \in 0..m + 1 : tt[k] = v

Part == Int \X Int    \* from where to where a call sorts

Lo(c) == c[Len(c)][1]
Hi(c) == c[Len(c)][2]

(* A call has been left at most m / 2^(k - 1) values when k - 1 calls are below it. *)
Nested(m, c) ==
  /\ c \in Seq(Part)
  /\ \A k \in 1..Len(c) :
       /\ 1 <= c[k][1] /\ c[k][2] <= m
       /\ (c[k][2] - c[k][1] + 1) * 2 ^ (k - 1) <= m
       /\ k > 1 => 2 ^ (k - 1) <= m

Waits(tt, lo, hi, ii, jj, ss, aa) ==
  /\ aa = "none" => ss = <<>>
  /\ aa = "ends" => lo < hi /\ ss = <<tt[lo], tt[hi]>>
  /\ aa = "low"  => lo < ii /\ ii < hi /\ (hi - lo = 2 => ii = lo + 1) /\ ss = <<tt[ii], tt[lo]>>
  /\ aa = "high" => lo < ii /\ ii < hi /\ (hi - lo = 2 => ii = lo + 1) /\ ss = <<tt[ii], tt[hi]>>
  /\ aa = "up"   => /\ hi - lo >= 3 /\ ii \in lo + 1..hi + 1 /\ jj \in lo + 1..hi - 1
                    /\ ss = <<tt[hi - 1], tt[ii]>>
  /\ aa = "down" => /\ hi - lo >= 3 /\ ii \in lo + 1..hi + 1 /\ jj \in lo - 1..hi - 2
                    /\ ss = <<tt[hi - 1], tt[ii], tt[jj]>>

(* What an order o adds *)
R(o, v) == o[1][v]

Inside(m, tt) == tt[0] = 0 /\ tt[m + 1] = m + 1 /\ \A k \in 1..m : tt[k] \in 1..m

Apart(c) ==
  \A p, q \in 1..Len(c) : p # q => c[p][2] < c[q][1] \/ c[q][2] < c[p][1]

Together(c, a, b) == \E p \in 1..Len(c) : c[p][1] <= a /\ b <= c[p][2]

Settled(o, m, tt, c) ==
  \A a, b \in 1..m : a < b /\ ~Together(c, a, b) => R(o, tt[a]) <= R(o, tt[b])

Pivot(o, tt, lo, hi, ii, jj, aa) ==
  /\ aa \in {"low", "high"} => R(o, tt[lo]) <= R(o, tt[hi])
  /\ aa = "high" => R(o, tt[lo]) <= R(o, tt[ii])
  /\ aa \in {"up", "down"} =>
       /\ ii <= hi - 1
       /\ \A k \in lo..ii - 1 : R(o, tt[k]) <= R(o, tt[hi - 1])
       /\ \A k \in jj + 1..hi : R(o, tt[hi - 1]) <= R(o, tt[k])
  /\ aa = "up" => R(o, tt[hi - 1]) <= R(o, tt[jj])
  /\ aa = "down" => lo <= jj /\ R(o, tt[hi - 1]) <= R(o, tt[ii])

Sorting(o, m, tt, c, ii, jj, ss, aa, rr) ==
  /\ o \in Seq([1..m -> Int])
  /\ Shuffled(m, tt) /\ Nested(m, c) /\ ii \in Int /\ jj \in Int
  /\ aa \in {"none", "ends", "low", "high", "up", "down"}
  /\ rr \in {"busy", "sorted", "invalid", "failed"}
  /\ rr \in {"busy", "invalid", "failed"} => c # <<>>
  /\ rr = "sorted" => c = <<>> /\ aa = "none"
  /\ Waits(tt, Lo(c), Hi(c), ii, jj, ss, aa)
  /\ o # <<>> => /\ Inside(m, tt) /\ Apart(c) /\ Settled(o, m, tt, c)
                 /\ Pivot(o, tt, Lo(c), Hi(c), ii, jj, aa)
                 /\ rr # "invalid"

Inv == Sorting(order, n, t, calls, i, j, stack, asks, result)

------------------------------------------------------------------------------
(* Powers of two: there are twice as many subsets of one element more. *)
LEMMA Doubles ==
  /\ 2 ^ 0 = 1
  /\ \A k \in Nat : 2 ^ k \in Nat /\ 2 ^ (k + 1) = 2 * 2 ^ k
<1>1. 2 ^ 0 = 1
  <2>1. Cardinality(SUBSET {}) = 2 ^ Cardinality({}) BY FS_EmptySet, FS_SUBSET
  <2>2. Cardinality({{}}) = 1
    <3>1. Cardinality({} \cup {{}}) = Cardinality({}) + 1 BY FS_EmptySet, FS_AddElement
    <3>2. {} \cup {{}} = {{}} OBVIOUS
    <3> QED BY <3>1, <3>2, FS_EmptySet
  <2>3. SUBSET {} = {{}} OBVIOUS
  <2> QED BY <2>1, <2>2, <2>3, FS_EmptySet
<1>2. \A k \in Nat : IsFiniteSet(SUBSET (1..k)) /\ Cardinality(SUBSET (1..k)) = 2 ^ k
  <2> SUFFICES ASSUME NEW k \in Nat
      PROVE  IsFiniteSet(SUBSET (1..k)) /\ Cardinality(SUBSET (1..k)) = 2 ^ k
    OBVIOUS
  <2>1. IsFiniteSet(1..k) /\ Cardinality(1..k) = k
    <3>1. 1 \in Int /\ k \in Int OBVIOUS
    <3>2. IsFiniteSet(1..k) /\ Cardinality(1..k) = IF 1 > k THEN 0 ELSE k - 1 + 1
      BY <3>1, FS_Interval
    <3> QED BY <3>2
  <2> QED BY <2>1, FS_SUBSET
<1>3. ASSUME NEW k \in Nat PROVE 2 ^ k \in Nat /\ 2 ^ (k + 1) = 2 * 2 ^ k
  <2> DEFINE old == SUBSET (1..k)
             new == {s \cup {k + 1} : s \in old}
             f == [s \in old |-> s \cup {k + 1}]
  <2>1. IsFiniteSet(old) /\ Cardinality(old) = 2 ^ k BY <1>2
  <2>2. f \in Bijection(old, new)
    <3>1. f \in [old -> new] OBVIOUS
    <3>2. \A x, y \in old : f[x] = f[y] => x = y
      <4> SUFFICES ASSUME NEW x \in old, NEW y \in old, f[x] = f[y] PROVE x = y OBVIOUS
      <4>1. x \cup {k + 1} = y \cup {k + 1} OBVIOUS
      <4>2. k + 1 \notin x /\ k + 1 \notin y OBVIOUS
      <4> QED BY <4>1, <4>2
    <3>3. \A z \in new : \E x \in old : f[x] = z OBVIOUS
    <3> QED BY <3>1, <3>2, <3>3 DEF Bijection, Injection, Surjection, IsInjective
  <2>3. IsFiniteSet(new) /\ Cardinality(new) = 2 ^ k
    BY <2>1, <2>2, FS_Bijection DEF ExistsBijection
  <2>4. SUBSET (1..k + 1) = old \cup new
    <3>1. \A s \in SUBSET (1..k + 1) : s \in old \cup new
      <4> SUFFICES ASSUME NEW s \in SUBSET (1..k + 1) PROVE s \in old \cup new OBVIOUS
      <4>1. s \ {k + 1} \in old OBVIOUS
      <4>2. CASE k + 1 \in s
        <5>1. s = (s \ {k + 1}) \cup {k + 1} BY <4>2
        <5> QED BY <4>1, <5>1
      <4>3. CASE k + 1 \notin s BY <4>1, <4>3
      <4> QED BY <4>2, <4>3
    <3>2. \A s \in old \cup new : s \in SUBSET (1..k + 1) OBVIOUS
    <3> QED BY <3>1, <3>2
  <2>5. old \cap new = {}
    <3>1. \A s \in new : k + 1 \in s OBVIOUS
    <3>2. \A s \in old : k + 1 \notin s OBVIOUS
    <3> QED BY <3>1, <3>2
  <2>6. 2 ^ k \in Nat BY <2>1, FS_CardinalityType
  <2>7. Cardinality(SUBSET (1..k + 1)) = 2 ^ (k + 1)
    <3>1. k + 1 \in Nat OBVIOUS
    <3> QED BY <1>2, <3>1, Zenon
  <2> HIDE DEF old, new, f
  <2>8. Cardinality(old \cup new) = 2 ^ k + 2 ^ k - Cardinality({})
    BY <2>1, <2>3, <2>5, FS_Union
  <2>9. Cardinality({}) = 0 BY FS_EmptySet
  <2>10. 2 ^ (k + 1) = 2 ^ k + 2 ^ k - 0 BY <2>4, <2>7, <2>8, <2>9, Zenon
  <2>11. \A p \in Nat : p + p - 0 = 2 * p OBVIOUS
  <2> QED BY <2>6, <2>10, <2>11, Zenon
<1> QED BY <1>1, <1>3

(* A part that is at most half of at least two values *)
LEMMA HalfFits ==
  ASSUME NEW p \in Nat, NEW m \in Nat, NEW z \in Int, z >= 2, z * p <= m,
         NEW s \in Int, 2 * s <= z
  PROVE  s * (2 * p) <= m /\ 2 * p <= m
<1>1. (2 * s) * p <= z * p OBVIOUS
<1>2. 2 * p <= z * p OBVIOUS
<1>3. s * (2 * p) = (2 * s) * p OBVIOUS
<1>4. s * (2 * p) \in Int /\ z * p \in Int /\ (2 * s) * p \in Int OBVIOUS
<1> QED BY <1>1, <1>2, <1>3, <1>4

LEMMA LessFits ==
  ASSUME NEW p \in Nat, NEW m \in Nat, NEW z \in Int, z * p <= m, NEW s \in Int, s <= z
  PROVE  s * p <= m
<1>1. s * p <= z * p OBVIOUS
<1>2. s * p \in Int /\ z * p \in Int OBVIOUS
<1> QED BY <1>1, <1>2

------------------------------------------------------------------------------
(* Swaps *)
Swapped(tt, x, y) == [tt EXCEPT ![x] = tt[y], ![y] = tt[x]]

IsSwap(m, tt, x, y, new) ==
  /\ new \in [0..m + 1 -> 0..m + 1] /\ new[x] = tt[y] /\ new[y] = tt[x]
  /\ \A k \in 0..m + 1 : k # x /\ k # y => new[k] = tt[k]

LEMMA SwapTwo ==
  ASSUME NEW m \in Nat, NEW tt \in [0..m + 1 -> 0..m + 1], NEW x \in 0..m + 1, NEW y \in 0..m + 1
  PROVE  IsSwap(m, tt, x, y, Swapped(tt, x, y))
<1> DEFINE S == 0..m + 1
<1>1. tt \in [S -> S] /\ x \in S /\ y \in S OBVIOUS
<1> HIDE DEF S
<1>2. /\ Swapped(tt, x, y) \in [S -> S]
      /\ Swapped(tt, x, y)[x] = tt[y] /\ Swapped(tt, x, y)[y] = tt[x]
      /\ \A k \in S : k # x /\ k # y => Swapped(tt, x, y)[k] = tt[k]
  BY <1>1 DEF Swapped
<1> QED BY <1>2 DEF S, IsSwap

LEMMA SwapShuffles ==
  ASSUME NEW m, NEW tt, Shuffled(m, tt), NEW x \in 0..m + 1, NEW y \in 0..m + 1
  PROVE  Shuffled(m, Swapped(tt, x, y))
<1> DEFINE new == Swapped(tt, x, y)
<1>1. m \in Nat /\ tt \in [0..m + 1 -> 0..m + 1] BY DEF Shuffled
<1>2. /\ new \in [0..m + 1 -> 0..m + 1] /\ new[x] = tt[y] /\ new[y] = tt[x]
      /\ \A k \in 0..m + 1 : k # x /\ k # y => new[k] = tt[k]
  <2>1. IsSwap(m, tt, x, y, new) BY <1>1, SwapTwo, Zenon
  <2> QED BY <2>1 DEF IsSwap
<1> HIDE DEF new
<1>3. ASSUME NEW v \in 0..m + 1 PROVE \E k \in 0..m + 1 : new[k] = v
  <2>1. PICK k \in 0..m + 1 : tt[k] = v BY DEF Shuffled
  <2>2. CASE k = x BY <1>2, <2>1, <2>2
  <2>3. CASE k = y BY <1>2, <2>1, <2>3
  <2>4. CASE k # x /\ k # y BY <1>2, <2>1, <2>4
  <2> QED BY <2>2, <2>3, <2>4
<1>4. Shuffled(m, new) BY <1>1, <1>2, <1>3 DEF Shuffled
<1> QED BY <1>4 DEF new

LEMMA SwapInside ==
  ASSUME NEW m \in Nat, NEW tt \in [0..m + 1 -> 0..m + 1], Inside(m, tt),
         NEW x \in 1..m, NEW y \in 1..m
  PROVE  Inside(m, Swapped(tt, x, y))
<1> DEFINE new == Swapped(tt, x, y)
<1>1. /\ new[x] = tt[y] /\ new[y] = tt[x]
      /\ \A k \in 0..m + 1 : k # x /\ k # y => new[k] = tt[k]
  <2>1. x \in 0..m + 1 /\ y \in 0..m + 1 OBVIOUS
  <2>2. IsSwap(m, tt, x, y, new) BY <2>1, SwapTwo, Zenon
  <2> QED BY <2>2 DEF IsSwap
<1> HIDE DEF new
<1>2. new[0] = tt[0] /\ new[m + 1] = tt[m + 1]
  <2>1. 0 \in 0..m + 1 /\ m + 1 \in 0..m + 1 /\ x # 0 /\ y # 0 /\ x # m + 1 /\ y # m + 1 OBVIOUS
  <2> QED BY <1>1, <2>1
<1>3. \A k \in 1..m : new[k] \in 1..m
  <2> SUFFICES ASSUME NEW k \in 1..m PROVE new[k] \in 1..m OBVIOUS
  <2>1. k \in 0..m + 1 OBVIOUS
  <2>2. tt[k] \in 1..m /\ tt[x] \in 1..m /\ tt[y] \in 1..m BY DEF Inside
  <2> QED BY <1>1, <2>1, <2>2
<1>4. Inside(m, new) BY <1>2, <1>3 DEF Inside
<1> QED BY <1>4 DEF new

LEMMA Between ==
  ASSUME NEW m \in Nat, NEW lo \in Int, NEW hi \in Int, 1 <= lo, hi <= m, NEW x \in lo..hi
  PROVE  x \in 1..m /\ x \in 0..m + 1
  OBVIOUS

(* Two places of which each is moved inside a range that does not hold both *)
Moved(lo, hi, a, a1) == a1 = a \/ (a \in lo..hi /\ a1 \in lo..hi)
AsFarApart(lo, hi, a, b, a1, b1) ==
  /\ a1 < b1 /\ ~(lo <= a1 /\ b1 <= hi)
  /\ \A l1, h1 \in Int : (h1 < lo \/ hi < l1) /\ l1 <= a1 /\ b1 <= h1 => l1 <= a /\ b <= h1

LEMMA StillBelow ==
  ASSUME NEW lo \in Int, NEW hi \in Int, NEW a \in Int, NEW b \in Int, a < b,
         ~(lo <= a /\ b <= hi),
         NEW a1 \in Int, Moved(lo, hi, a, a1), NEW b1 \in Int, Moved(lo, hi, b, b1)
  PROVE  AsFarApart(lo, hi, a, b, a1, b1)
  BY DEF Moved, AsFarApart

(* A swap inside the range of the innermost call leaves the rest settled. *)
LEMMA SwapSettled ==
  ASSUME NEW o, NEW m \in Nat, NEW tt \in [0..m + 1 -> 0..m + 1], NEW c,
         Nested(m, c), c # <<>>, Apart(c), Settled(o, m, tt, c),
         NEW x \in Lo(c)..Hi(c), NEW y \in Lo(c)..Hi(c)
  PROVE  Settled(o, m, Swapped(tt, x, y), c)
<1> DEFINE new == Swapped(tt, x, y)
           lo == Lo(c)
           hi == Hi(c)
           z == Len(c)
<1>1. z \in Nat \ {0} /\ lo \in Int /\ hi \in Int /\ 1 <= lo /\ hi <= m
      /\ \A p \in 1..z : c[p][1] \in Int /\ c[p][2] \in Int
  <2>1. c \in Seq(Part) BY DEF Nested
  <2>2. z \in Nat \ {0} BY <2>1
  <2>3. \A p \in 1..z : c[p] \in Part BY <2>1
  <2>4. \A p \in 1..z : c[p][1] \in Int /\ c[p][2] \in Int BY <2>3 DEF Part
  <2>5. z \in 1..z BY <2>2
  <2> QED BY <2>2, <2>4, <2>5 DEF Nested, Lo, Hi
<1>2. x \in 1..m /\ y \in 1..m /\ x \in 0..m + 1 /\ y \in 0..m + 1
  <2> HIDE DEF lo, hi
  <2>1. x \in lo..hi /\ y \in lo..hi BY DEF lo, hi
  <2>2. lo \in Int /\ hi \in Int /\ 1 <= lo /\ hi <= m BY <1>1
  <2> QED BY <2>1, <2>2, Between
<1>3. /\ new[x] = tt[y] /\ new[y] = tt[x]
      /\ \A k \in 0..m + 1 : k # x /\ k # y => new[k] = tt[k]
  <2>1. IsSwap(m, tt, x, y, new) BY <1>2, SwapTwo, Zenon
  <2> QED BY <2>1 DEF IsSwap
<1> HIDE DEF new
(* What a place holds was at the same place, or both are in the range. *)
<1>4. \A a \in 1..m : \E b \in 1..m :
        new[a] = tt[b] /\ Moved(lo, hi, a, b)
  <2> SUFFICES ASSUME NEW a \in 1..m
               PROVE  \E b \in 1..m : new[a] = tt[b] /\ Moved(lo, hi, a, b)
    OBVIOUS
  <2>0. x \in lo..hi /\ y \in lo..hi OBVIOUS
  <2>1. CASE a = x
    <3>1. Moved(lo, hi, x, y) BY <2>0 DEF Moved
    <3> QED BY <1>2, <1>3, <2>1, <3>1
  <2>2. CASE a = y
    <3>1. Moved(lo, hi, y, x) BY <2>0 DEF Moved
    <3> QED BY <1>2, <1>3, <2>2, <3>1
  <2>3. CASE a # x /\ a # y
    <3>1. a \in 0..m + 1 OBVIOUS
    <3>2. Moved(lo, hi, a, a) BY DEF Moved
    <3> QED BY <1>3, <2>3, <3>1, <3>2
  <2> QED BY <2>1, <2>2, <2>3
<1>5. \A p \in 1..z : p # z => c[p][2] < lo \/ hi < c[p][1]
  <2> SUFFICES ASSUME NEW p \in 1..z, p # z PROVE c[p][2] < lo \/ hi < c[p][1] OBVIOUS
  <2>1. z \in 1..z BY <1>1
  <2> QED BY <2>1 DEF Apart, Lo, Hi
<1>6. ASSUME NEW a \in 1..m, NEW b \in 1..m, a < b, ~Together(c, a, b)
      PROVE  R(o, new[a]) <= R(o, new[b])
  <2>1. PICK a1 \in 1..m : new[a] = tt[a1] /\ Moved(lo, hi, a, a1)
    BY <1>4
  <2>2. PICK b1 \in 1..m : new[b] = tt[b1] /\ Moved(lo, hi, b, b1)
    BY <1>4
  <2>3. ~(lo <= a /\ b <= hi)
    <3>1. z \in 1..z BY <1>1
    <3> QED BY <1>6, <3>1 DEF Together, Lo, Hi
  <2>4. AsFarApart(lo, hi, a, b, a1, b1)
    <3>1. lo \in Int /\ hi \in Int BY <1>1
    <3>2. Moved(lo, hi, a, a1) /\ Moved(lo, hi, b, b1) BY <2>1, <2>2
    <3>3. a \in Int /\ b \in Int /\ a1 \in Int /\ b1 \in Int /\ a < b BY <1>6
    <3> HIDE DEF lo, hi, z
    <3> QED BY <2>3, <3>1, <3>2, <3>3, StillBelow, Zenon
  <2>5. ~Together(c, a1, b1)
    <3> SUFFICES ASSUME NEW p \in 1..z, c[p][1] <= a1, b1 <= c[p][2] PROVE FALSE
      BY DEF Together
    <3>1. ~(c[p][1] <= a /\ b <= c[p][2]) BY <1>6 DEF Together
    <3>2. c[p][1] \in Int /\ c[p][2] \in Int BY <1>1
    <3>3. p = z \/ c[p][2] < lo \/ hi < c[p][1] BY <1>5
    <3>4. p = z => c[p][1] = lo /\ c[p][2] = hi BY DEF Lo, Hi
    <3> HIDE DEF lo, hi, z
    <3> QED BY <2>4, <3>1, <3>2, <3>3, <3>4 DEF AsFarApart
  <2>6. R(o, tt[a1]) <= R(o, tt[b1])
    <3>1. a1 < b1 BY <2>4 DEF AsFarApart
    <3> QED BY <2>5, <3>1 DEF Settled
  <2> QED BY <2>1, <2>2, <2>6
<1>7. Settled(o, m, new, c) BY <1>6 DEF Settled
<1> QED BY <1>7 DEF new

------------------------------------------------------------------------------
(* The calls *)
LEMMA Top ==
  ASSUME NEW m, NEW c, Nested(m, c), c # <<>>
  PROVE  /\ Len(c) \in Nat \ {0} /\ Lo(c) \in Int /\ Hi(c) \in Int /\ 1 <= Lo(c) /\ Hi(c) <= m
         /\ Last(c)[1] = Lo(c) /\ Last(c)[2] = Hi(c)
         /\ (Hi(c) - Lo(c) + 1) * 2 ^ (Len(c) - 1) <= m
<1>1. c \in Seq(Part) BY DEF Nested
<1>2. Len(c) \in Nat \ {0} BY <1>1
<1>3. Len(c) \in 1..Len(c) BY <1>2
<1>4. c[Len(c)] \in Part BY <1>1, <1>3
<1>5. c[Len(c)][1] \in Int /\ c[Len(c)][2] \in Int BY <1>4 DEF Part
<1> QED BY <1>2, <1>3, <1>5 DEF Nested, Lo, Hi, Last

LEMMA Parts ==
  /\ \A x \in Part : x[1] \in Int /\ x[2] \in Int
  /\ \A a, b \in Int : <<a, b>> \in Part
  BY DEF Part

LEMMA Shortened ==
  ASSUME NEW S, NEW c \in Seq(S), c # <<>>, NEW d, d = Front(c)
  PROVE  /\ d \in Seq(S) /\ Len(d) = Len(c) - 1
         /\ \A k \in 1..Len(c) - 1 : d[k] = c[k]
         /\ Len(c) = 1 <=> d = <<>>
<1>1. Len(c) \in Nat \ {0} OBVIOUS
<1>2. d \in Seq(S) /\ Len(d) = Len(c) - 1 /\ \A k \in 1..Len(c) - 1 : d[k] = c[k]
  <2> DEFINE z == Len(c) - 1
  <2>1. z \in Nat /\ z \in Int /\ 1 \in Int BY <1>1
  <2>2. \A k \in 1..z : c[k] \in S OBVIOUS
  <2>3. d = SubSeq(c, 1, z) BY DEF Front
  <2> HIDE DEF z
  <2>4. /\ d \in Seq(S) /\ Len(d) = IF 1 <= z THEN z - 1 + 1 ELSE 0
        /\ \A k \in 1..z - 1 + 1 : d[k] = c[1 + k - 1]
    BY <2>1, <2>2, <2>3, SubSeqProperties
  <2>5. Len(d) = z /\ \A k \in 1..z : d[k] = c[k]
    <3>1. \A k \in 1..z : k \in 1..z - 1 + 1 /\ 1 + k - 1 = k BY <2>1
    <3> QED BY <2>1, <2>4, <3>1
  <2> QED BY <2>4, <2>5 DEF z
<1>3. d = <<>> <=> Len(d) = 0 BY <1>2
<1> QED BY <1>1, <1>2, <1>3

LEMMA OneMore ==
  ASSUME NEW S, NEW g \in Seq(S), NEW y \in S
  PROVE  /\ g \o <<y>> \in Seq(S) /\ Len(g \o <<y>>) = Len(g) + 1
         /\ (g \o <<y>>)[Len(g) + 1] = y
         /\ \A k \in 1..Len(g) : (g \o <<y>>)[k] = g[k]
  OBVIOUS

Grown(c, x, y) == Append(Front(c), x) \o <<y>>

Grows(c, x, y, d) ==
  /\ d \in Seq(Part) /\ Len(d) = Len(c) + 1
  /\ d[Len(c)] = x /\ d[Len(c) + 1] = y
  /\ \A k \in 1..Len(c) : k # Len(c) => d[k] = c[k]

LEMMA Extended ==
  ASSUME NEW c \in Seq(Part), c # <<>>, NEW x \in Part, NEW y \in Part,
         NEW d, d = Grown(c, x, y)
  PROVE  Grows(c, x, y, d)
<1> DEFINE f == Front(c)
           g == Append(f, x)
<1>1. Len(c) \in Nat \ {0} OBVIOUS
<1>2. f \in Seq(Part) /\ Len(f) = Len(c) - 1 /\ \A k \in 1..Len(c) - 1 : f[k] = c[k]
  BY Shortened
<1> HIDE DEF f
<1>3. /\ g \in Seq(Part) /\ Len(g) = Len(c) /\ g[Len(c)] = x
      /\ \A k \in 1..Len(c) - 1 : g[k] = f[k]
  BY <1>1, <1>2
<1>4. \A k \in 1..Len(c) : k # Len(c) => k \in 1..Len(c) - 1 BY <1>1
<1>5. \A k \in 1..Len(c) : k # Len(c) => g[k] = c[k] BY <1>2, <1>3, <1>4
<1>6. d = g \o <<y>> BY DEF f, Grown
<1> HIDE DEF g
<1>7. /\ d \in Seq(Part) /\ Len(d) = Len(c) + 1 /\ d[Len(c) + 1] = y
      /\ \A k \in 1..Len(c) : d[k] = g[k]
  <2> DEFINE e == g \o <<y>>
  <2>1. /\ e \in Seq(Part) /\ Len(e) = Len(g) + 1 /\ e[Len(g) + 1] = y
        /\ \A k \in 1..Len(g) : e[k] = g[k]
    BY <1>3, OneMore
  <2>2. d = e BY <1>6
  <2> HIDE DEF e
  <2> QED BY <1>3, <2>1, <2>2, Zenon
<1> QED BY <1>1, <1>3, <1>5, <1>7 DEF Grows

(* The innermost call has less left to sort. *)
Narrows(c, a, b, d) ==
  /\ d \in Seq(Part) /\ Len(d) = Len(c) /\ d[Len(c)] = <<a, b>>
  /\ \A k \in 1..Len(c) : k # Len(c) => d[k] = c[k]

WellNested(m, c, a, b, d) ==
  /\ Nested(m, d) /\ d # <<>> /\ Lo(d) = a /\ Hi(d) = b
  /\ Apart(c) => Apart(d)

LEMMA Replaced ==
  ASSUME NEW c \in Seq(Part), c # <<>>, NEW a, NEW b, <<a, b>> \in Part
  PROVE  Narrows(c, a, b, [c EXCEPT ![Len(c)] = <<a, b>>])
<1> DEFINE x == <<a, b>>
           d == [c EXCEPT ![Len(c)] = x]
<1>1. x \in Part OBVIOUS
<1> HIDE DEF x
<1>2. /\ d \in Seq(Part) /\ Len(d) = Len(c) /\ d[Len(c)] = x
      /\ \A k \in 1..Len(c) : k # Len(c) => d[k] = c[k]
  BY <1>1
<1> HIDE DEF d
<1>3. Narrows(c, a, b, d) BY <1>2 DEF Narrows, x
<1> QED BY <1>3 DEF d, x

LEMMA LessThrough ==
  ASSUME NEW a \in Int, NEW b \in Int, NEW c \in Int, NEW d \in Int, a <= b, b < c, c <= d
  PROVE  a < d
  OBVIOUS

LEMMA Narrowed ==
  ASSUME NEW m \in Nat, NEW c, Nested(m, c), c # <<>>, NEW a \in Int, NEW b \in Int,
         Lo(c) <= a, b <= Hi(c), NEW d, Narrows(c, a, b, d)
  PROVE  WellNested(m, c, a, b, d)
<1> DEFINE z == Len(c)
<1>0. /\ d \in Seq(Part) /\ Len(d) = Len(c) /\ d[Len(c)] = <<a, b>>
      /\ \A k \in 1..Len(c) : k # Len(c) => d[k] = c[k]
  BY DEF Narrows
<1>1. c \in Seq(Part) /\ z \in Nat \ {0} /\ z \in 1..z BY Top DEF Nested
<1>2. Len(d) = z /\ \A k \in 1..z : k # z => d[k] = c[k] BY <1>0
<1>3. d # <<>> /\ Lo(d) = a /\ Hi(d) = b /\ d[z][1] = a /\ d[z][2] = b
  <2>1. d[z] = <<a, b>> /\ Len(d) = z /\ z # 0 BY <1>0, <1>1
  <2> HIDE DEF z
  <2>2. d[z][1] = a /\ d[z][2] = b BY <2>1
  <2>3. d # <<>> BY <2>1
  <2> QED BY <2>1, <2>2, <2>3 DEF Lo, Hi
<1>4. (b - a + 1) * 2 ^ (z - 1) <= m
  <2>1. 2 ^ (z - 1) \in Nat
    <3>1. z - 1 \in Nat BY <1>1
    <3> QED BY <3>1, Doubles
  <2>2. Lo(c) \in Int /\ Hi(c) \in Int /\ (Hi(c) - Lo(c) + 1) * 2 ^ (z - 1) <= m BY Top
  <2>3. b - a + 1 \in Int /\ Hi(c) - Lo(c) + 1 \in Int /\ b - a + 1 <= Hi(c) - Lo(c) + 1 BY <2>2
  <2> DEFINE p == 2 ^ (z - 1)
             x == b - a + 1
             y == Hi(c) - Lo(c) + 1
  <2>4. p \in Nat /\ x \in Int /\ y \in Int /\ x <= y /\ y * p <= m BY <2>1, <2>2, <2>3
  <2> HIDE DEF p, x, y
  <2>5. x * p <= m BY <2>4, LessFits
  <2> QED BY <2>5 DEF p, x
<1>5. Nested(m, d)
  <2> SUFFICES ASSUME NEW k \in 1..z
               PROVE  /\ 1 <= d[k][1] /\ d[k][2] <= m
                      /\ (d[k][2] - d[k][1] + 1) * 2 ^ (k - 1) <= m
                      /\ k > 1 => 2 ^ (k - 1) <= m
    BY <1>0, <1>2 DEF Nested
  <2>1. CASE k = z
    <3>1. d[k][1] = a /\ d[k][2] = b BY <1>3, <2>1
    <3>2. 1 <= a /\ b <= m
      <4>1. Lo(c) \in Int /\ Hi(c) \in Int /\ 1 <= Lo(c) /\ Hi(c) <= m BY Top
      <4> QED BY <4>1
    <3>3. k > 1 => 2 ^ (k - 1) <= m BY <2>1 DEF Nested
    <3> QED BY <1>4, <2>1, <3>1, <3>2, <3>3
  <2>2. CASE k # z
    <3>1. d[k] = c[k] BY <1>2, <2>2
    <3> QED BY <3>1 DEF Nested
  <2> QED BY <2>1, <2>2
<1>6. ASSUME Apart(c) PROVE Apart(d)
  <2> SUFFICES ASSUME NEW p \in 1..z, NEW q \in 1..z, p # q
               PROVE  d[p][2] < d[q][1] \/ d[q][2] < d[p][1]
    BY <1>2 DEF Apart
  <2>1. \A x \in 1..z : c[x][1] \in Int /\ c[x][2] \in Int
    <3>1. \A x \in 1..z : c[x] \in Part BY <1>1
    <3> QED BY <3>1, Parts
  <2>2. \A x \in 1..z : d[x][1] \in Int /\ d[x][2] \in Int /\ c[x][1] <= d[x][1] /\ d[x][2] <= c[x][2]
    <3> SUFFICES ASSUME NEW x \in 1..z
                 PROVE  d[x][1] \in Int /\ d[x][2] \in Int /\ c[x][1] <= d[x][1] /\ d[x][2] <= c[x][2]
      OBVIOUS
    <3>1. CASE x = z
      <4>1. c[x][1] = Lo(c) /\ c[x][2] = Hi(c) BY <3>1 DEF Lo, Hi
      <4> QED BY <1>3, <3>1, <4>1
    <3>2. CASE x # z
      <4>1. d[x] = c[x] BY <1>2, <3>2
      <4>2. c[x][1] \in Int /\ c[x][2] \in Int BY <2>1
      <4> HIDE DEF z
      <4> QED BY <4>1, <4>2
    <3> QED BY <3>1, <3>2
  <2>3. c[p][2] < c[q][1] \/ c[q][2] < c[p][1] BY <1>6 DEF Apart
  <2>4. /\ c[p][2] \in Int /\ d[p][2] \in Int /\ d[p][2] <= c[p][2]
        /\ c[p][1] \in Int /\ d[p][1] \in Int /\ c[p][1] <= d[p][1]
    BY <2>1, <2>2
  <2>5. /\ c[q][2] \in Int /\ d[q][2] \in Int /\ d[q][2] <= c[q][2]
        /\ c[q][1] \in Int /\ d[q][1] \in Int /\ c[q][1] <= d[q][1]
    BY <2>1, <2>2
  <2>6. CASE c[p][2] < c[q][1] BY <2>4, <2>5, <2>6, LessThrough, Zenon
  <2>7. CASE c[q][2] < c[p][1] BY <2>4, <2>5, <2>7, LessThrough, Zenon
  <2> QED BY <2>3, <2>6, <2>7
<1> QED BY <1>3, <1>5, <1>6 DEF WellNested

(* A call for one part is begun, the other part is left for after it. *)
Pushes(m, c, a, b, e, f, d) ==
  /\ m \in Nat /\ Nested(m, c) /\ c # <<>>
  /\ a \in Int /\ b \in Int /\ Lo(c) <= a /\ b <= Hi(c)
  /\ e \in Int /\ f \in Int /\ Lo(c) <= e /\ f <= Hi(c)
  /\ Hi(c) - Lo(c) >= 3 /\ 2 * (f - e + 1) <= Hi(c) - Lo(c) + 1
  /\ d \in Seq(Part) /\ Len(d) = Len(c) + 1
  /\ d[Len(c)] = <<a, b>> /\ d[Len(c) + 1] = <<e, f>>
  /\ \A k \in 1..Len(c) : k # Len(c) => d[k] = c[k]

LEMMA Pushed ==
  ASSUME NEW m, NEW c, NEW a, NEW b, NEW e, NEW f, NEW d,
         Pushes(m, c, a, b, e, f, d), b < e \/ f < a
  PROVE  WellNested(m, c, e, f, d)
<1> DEFINE z == Len(c)
           w == [c EXCEPT ![z] = <<a, b>>]
<1>0. /\ m \in Nat /\ Nested(m, c) /\ c # <<>>
      /\ a \in Int /\ b \in Int /\ Lo(c) <= a /\ b <= Hi(c)
      /\ e \in Int /\ f \in Int /\ Lo(c) <= e /\ f <= Hi(c)
      /\ Hi(c) - Lo(c) >= 3 /\ 2 * (f - e + 1) <= Hi(c) - Lo(c) + 1
  BY DEF Pushes
<1>1. c \in Seq(Part) /\ z \in Nat \ {0} /\ z \in 1..z BY <1>0, Top DEF Nested
<1>2. Narrows(c, a, b, w)
  <2>1. <<a, b>> \in Part BY <1>0, Parts
  <2> QED BY <1>0, <1>1, <2>1, Replaced, Zenon
<1> HIDE DEF w
<1>12. /\ w \in Seq(Part) /\ Len(w) = z /\ w[z] = <<a, b>>
       /\ \A k \in 1..z : k # z => w[k] = c[k]
  BY <1>2 DEF Narrows
<1>9. Nested(m, w) /\ (Apart(c) => Apart(w))
  <2>1. WellNested(m, c, a, b, w) BY <1>0, <1>2, Narrowed, Zenon
  <2> QED BY <2>1 DEF WellNested
<1>3. /\ d \in Seq(Part) /\ Len(d) = z + 1 /\ d[z + 1] = <<e, f>>
      /\ \A k \in 1..z : d[k] = w[k]
  <2>1. /\ d \in Seq(Part) /\ Len(d) = z + 1 /\ d[z] = <<a, b>> /\ d[z + 1] = <<e, f>>
        /\ \A k \in 1..z : k # z => d[k] = c[k]
    BY DEF Pushes
  <2> HIDE DEF z
  <2> QED BY <1>12, <2>1
<1>10. d[z + 1][1] = e /\ d[z + 1][2] = f
  <2> HIDE DEF z
  <2> QED BY <1>3
<1>11. w[z][1] = a /\ w[z][2] = b
  <2> HIDE DEF z
  <2> QED BY <1>12
<1>4. d # <<>> /\ Lo(d) = e /\ Hi(d) = f
  <2>1. Len(d) = z + 1 /\ z + 1 # 0 BY <1>1, <1>3
  <2> HIDE DEF z
  <2>2. d # <<>> BY <2>1
  <2> QED BY <1>10, <2>1, <2>2 DEF Lo, Hi
<1>6. Nested(m, d)
  <2> SUFFICES ASSUME NEW k \in 1..z + 1
               PROVE  /\ 1 <= d[k][1] /\ d[k][2] <= m
                      /\ (d[k][2] - d[k][1] + 1) * 2 ^ (k - 1) <= m
                      /\ k > 1 => 2 ^ (k - 1) <= m
    BY <1>3 DEF Nested
  <2>1. CASE k \in 1..z
    <3>1. d[k] = w[k] BY <1>3, <2>1
    <3> QED BY <1>12, <1>9, <2>1, <3>1 DEF Nested
  <2>2. CASE k = z + 1
    <3>1. d[k][1] = e /\ d[k][2] = f BY <1>10, <2>2
    <3>2. /\ Lo(c) \in Int /\ Hi(c) \in Int /\ 1 <= Lo(c) /\ Hi(c) <= m
          /\ (Hi(c) - Lo(c) + 1) * 2 ^ (z - 1) <= m
      BY <1>0, Top
    <3>6. /\ Lo(c) <= e /\ f <= Hi(c) /\ Hi(c) - Lo(c) >= 3
          /\ e \in Int /\ f \in Int /\ m \in Nat
      BY <1>0
    <3>3. 1 <= e /\ f <= m BY <3>2, <3>6
    <3>4. 2 ^ (z - 1) \in Nat /\ 2 ^ (k - 1) = 2 * 2 ^ (z - 1)
      <4>1. z - 1 \in Nat /\ (z - 1) + 1 = k - 1 BY <1>1, <2>2
      <4>2. 2 ^ (z - 1) \in Nat /\ 2 ^ ((z - 1) + 1) = 2 * 2 ^ (z - 1) BY <4>1, Doubles
      <4> QED BY <4>1, <4>2
    <3>5. (f - e + 1) * (2 * 2 ^ (z - 1)) <= m /\ 2 * 2 ^ (z - 1) <= m
      <4>1. Hi(c) - Lo(c) + 1 \in Int /\ Hi(c) - Lo(c) + 1 >= 2 /\ f - e + 1 \in Int BY <3>2, <3>6
      <4> DEFINE q == 2 ^ (z - 1)
                 x == f - e + 1
                 y == Hi(c) - Lo(c) + 1
      <4>2. /\ q \in Nat /\ x \in Int /\ y \in Int /\ y >= 2 /\ 2 * x <= y /\ y * q <= m
        BY <1>0, <3>2, <3>4, <4>1
      <4> HIDE DEF q, x, y
      <4>3. x * (2 * q) <= m /\ 2 * q <= m BY <1>0, <4>2, HalfFits
      <4> QED BY <4>3 DEF q, x
    <3> QED BY <3>1, <3>3, <3>4, <3>5
  <2> QED BY <1>1, <2>1, <2>2
<1>7. ASSUME Apart(c) PROVE Apart(d)
  <2>1. Apart(w) BY <1>7, <1>9
  <2>2. ASSUME NEW p \in 1..z PROVE w[p][2] < e \/ f < w[p][1]
    <3>1. CASE p = z BY <1>11, <3>1
    <3>2. CASE p # z
      <4>1. w[p] = c[p] BY <1>12, <3>2
      <4>2. c[p][2] < Lo(c) \/ Hi(c) < c[p][1] BY <1>1, <1>7, <3>2 DEF Apart, Lo, Hi
      <4>3. c[p][1] \in Int /\ c[p][2] \in Int /\ Lo(c) \in Int /\ Hi(c) \in Int
        <5>1. c[p] \in Part BY <1>1
        <5> QED BY <1>0, <5>1, Parts, Top
      <4>4. c[p][2] <= c[p][2] /\ Hi(c) <= Hi(c) /\ c[p][1] <= c[p][1] BY <4>3
      <4>5. CASE c[p][2] < Lo(c)
        <5>1. c[p][2] < e BY <1>0, <4>3, <4>4, <4>5, LessThrough, Zenon
        <5> QED BY <4>1, <5>1
      <4>6. CASE Hi(c) < c[p][1]
        <5>1. f < c[p][1] BY <1>0, <4>3, <4>4, <4>6, LessThrough, Zenon
        <5> QED BY <4>1, <5>1
      <4> QED BY <4>2, <4>5, <4>6
    <3> QED BY <3>1, <3>2
  <2> SUFFICES ASSUME NEW p \in 1..z + 1, NEW q \in 1..z + 1, p # q
               PROVE  d[p][2] < d[q][1] \/ d[q][2] < d[p][1]
    BY <1>3 DEF Apart
  <2>4. (p \in 1..z \/ p = z + 1) /\ (q \in 1..z \/ q = z + 1) BY <1>1
  <2>5. CASE p \in 1..z /\ q \in 1..z
    <3>1. d[p] = w[p] /\ d[q] = w[q] BY <1>3, <2>5
    <3> QED BY <1>12, <2>1, <2>5, <3>1 DEF Apart
  <2>6. CASE p \in 1..z /\ q = z + 1
    <3>1. d[p] = w[p] BY <1>3, <2>6
    <3> QED BY <2>2, <1>10, <2>6, <3>1
  <2>7. CASE p = z + 1 /\ q \in 1..z
    <3>1. d[q] = w[q] BY <1>3, <2>7
    <3> QED BY <2>2, <1>10, <2>7, <3>1
  <2> QED BY <2>4, <2>5, <2>6, <2>7
<1> QED BY <1>4, <1>6, <1>7 DEF WellNested

Pops(m, c, d) ==
  /\ Nested(m, d) /\ Len(d) = Len(c) - 1
  /\ \A k \in 1..Len(c) - 1 : d[k] = c[k]
  /\ Len(c) = 1 <=> d = <<>>
  /\ Apart(c) => Apart(d)

LEMMA Popped ==
  ASSUME NEW m, NEW c, Nested(m, c), c # <<>>, NEW d, d = Front(c)
  PROVE  Pops(m, c, d)
<1>1. c \in Seq(Part) BY DEF Nested
<1>2. /\ d \in Seq(Part) /\ Len(d) = Len(c) - 1 /\ (Len(c) = 1 <=> d = <<>>)
      /\ \A k \in 1..Len(c) - 1 : d[k] = c[k]
  BY <1>1, Shortened
<1>3. \A k \in 1..Len(d) : k \in 1..Len(c) /\ k \in 1..Len(c) - 1 BY <1>1, <1>2
<1>4. Nested(m, d) BY <1>2, <1>3 DEF Nested
<1>5. Apart(c) => Apart(d) BY <1>2, <1>3 DEF Apart
<1> QED BY <1>2, <1>4, <1>5 DEF Pops

------------------------------------------------------------------------------
(* What an order tells of the table *)
LEMMA RankInt ==
  ASSUME NEW o, NEW m, o \in Seq([1..m -> Int]), o # <<>>, NEW v \in 1..m
  PROVE  R(o, v) \in Int
<1>1. o[1] \in [1..m -> Int] OBVIOUS
<1> QED BY <1>1 DEF R

Rearranged(o, m, tt, c) ==
  Shuffled(m, tt) /\ (o # <<>> => Inside(m, tt) /\ Settled(o, m, tt, c))

LEMMA SwapRearranges ==
  ASSUME NEW o, NEW m, NEW tt, NEW c, Rearranged(o, m, tt, c), Nested(m, c), c # <<>>,
         o # <<>> => Apart(c), NEW x \in Lo(c)..Hi(c), NEW y \in Lo(c)..Hi(c)
  PROVE  Rearranged(o, m, Swapped(tt, x, y), c)
<1>1. m \in Nat /\ tt \in [0..m + 1 -> 0..m + 1] /\ Shuffled(m, tt) BY DEF Rearranged, Shuffled
<1>2. x \in 1..m /\ y \in 1..m /\ x \in 0..m + 1 /\ y \in 0..m + 1
  <2>1. Lo(c) \in Int /\ Hi(c) \in Int /\ 1 <= Lo(c) /\ Hi(c) <= m BY Top
  <2> QED BY <1>1, <2>1, Between
<1>3. Shuffled(m, Swapped(tt, x, y)) BY <1>1, <1>2, SwapShuffles
<1>4. ASSUME o # <<>> PROVE Inside(m, Swapped(tt, x, y)) /\ Settled(o, m, Swapped(tt, x, y), c)
  <2>1. Inside(m, tt) /\ Settled(o, m, tt, c) /\ Apart(c) BY <1>4 DEF Rearranged
  <2> QED BY <1>1, <1>2, <2>1, SwapInside, SwapSettled
<1> QED BY <1>3, <1>4 DEF Rearranged

(* The innermost call leaves its range to one with less, or to two: what it has
   put in order is what is not together in theirs. *)
LEMMA Resettled ==
  ASSUME NEW o, NEW m, NEW tt, NEW c, NEW d, Settled(o, m, tt, c), Len(c) \in Nat \ {0},
         Len(d) \in Nat, Len(c) - 1 <= Len(d),
         \A k \in 1..Len(c) - 1 : d[k] = c[k],
         \A a, b \in 1..m : /\ a < b /\ Lo(c) <= a /\ b <= Hi(c)
                            /\ ~Together(d, a, b)
                            => R(o, tt[a]) <= R(o, tt[b])
  PROVE  Settled(o, m, tt, d)
<1> SUFFICES ASSUME NEW a \in 1..m, NEW b \in 1..m, a < b, ~Together(d, a, b)
             PROVE  R(o, tt[a]) <= R(o, tt[b])
  BY DEF Settled
<1>1. CASE ~Together(c, a, b) BY <1>1 DEF Settled
<1>2. CASE Together(c, a, b)
  <2>1. PICK p \in 1..Len(c) : c[p][1] <= a /\ b <= c[p][2] BY <1>2 DEF Together
  <2>2. CASE p = Len(c) BY <2>1, <2>2 DEF Lo, Hi
  <2>3. CASE p # Len(c)
    <3>1. p \in 1..Len(c) - 1 /\ p \in 1..Len(d) BY <2>3
    <3>2. d[p] = c[p] BY <3>1
    <3> QED BY <2>1, <3>1, <3>2 DEF Together
  <2> QED BY <2>2, <2>3
<1> QED BY <1>1, <1>2

------------------------------------------------------------------------------
(* The question that is asked, by what is on the stack *)
LEMMA AskedIs ==
  ASSUME Inv, calls # <<>>
  PROVE  /\ l = Lo(calls) /\ u = Hi(calls)
         /\ asks = "ends" => Asked = <<t[u], t[l]>>
         /\ asks = "low"  => Asked = <<t[i], t[l]>>
         /\ asks = "high" => Asked = <<t[u], t[i]>>
         /\ asks = "up"   => Asked = <<t[i], t[u - 1]>>
         /\ asks = "down" => Asked = <<t[u - 1], t[j]>>
<1>1. l = Lo(calls) /\ u = Hi(calls) BY DEF l, u, Last, Lo, Hi
<1>2. Waits(t, l, u, i, j, stack, asks) BY <1>1 DEF Inv, Sorting
<1>3. ASSUME asks = "ends" PROVE Asked = <<t[u], t[l]>>
  <2>1. stack = <<t[l], t[u]>> BY <1>2, <1>3 DEF Waits
  <2>2. OnStack(-1) = t[u] /\ OnStack(-2) = t[l] BY <2>1 DEF OnStack
  <2> QED BY <1>3, <2>2 DEF Asked, sort_comp
<1>4. ASSUME asks = "low" PROVE Asked = <<t[i], t[l]>>
  <2>1. stack = <<t[i], t[l]>> BY <1>2, <1>4 DEF Waits
  <2>2. OnStack(-1) = t[l] /\ OnStack(-2) = t[i] BY <2>1 DEF OnStack
  <2> QED BY <1>4, <2>2 DEF Asked, sort_comp
<1>5. ASSUME asks = "high" PROVE Asked = <<t[u], t[i]>>
  <2>1. stack = <<t[i], t[u]>> BY <1>2, <1>5 DEF Waits
  <2>2. OnStack(-1) = t[u] /\ OnStack(-2) = t[i] BY <2>1 DEF OnStack
  <2> QED BY <1>5, <2>2 DEF Asked, sort_comp
<1>6. ASSUME asks = "up" PROVE Asked = <<t[i], t[u - 1]>>
  <2>1. stack = <<t[u - 1], t[i]>> BY <1>2, <1>6 DEF Waits
  <2>2. OnStack(-1) = t[i] /\ OnStack(-2) = t[u - 1] BY <2>1 DEF OnStack
  <2> QED BY <1>6, <2>2 DEF Asked, sort_comp
<1>7. ASSUME asks = "down" PROVE Asked = <<t[u - 1], t[j]>>
  <2>1. stack = <<t[u - 1], t[i], t[j]>> BY <1>2, <1>7 DEF Waits
  <2>2. OnStack(-1) = t[j] /\ OnStack(-3) = t[u - 1] BY <2>1 DEF OnStack
  <2> QED BY <1>7, <2>2 DEF Asked, sort_comp
<1> QED BY <1>1, <1>3, <1>4, <1>5, <1>6, <1>7

(* The invariant in a turn of the loop, in terms of l and u *)
LEMMA Turn ==
  ASSUME Inv, result = "busy"
  PROVE  /\ calls # <<>> /\ Nested(n, calls) /\ Len(calls) \in Nat \ {0}
         /\ l = Lo(calls) /\ u = Hi(calls)
         /\ l \in Int /\ u \in Int /\ 1 <= l /\ u <= n /\ n \in Nat
         /\ i \in Int /\ j \in Int
         /\ t \in [0..n + 1 -> 0..n + 1]
         /\ order \in Seq([1..n -> Int])
         /\ Rearranged(order, n, t, calls)
         /\ Waits(t, l, u, i, j, stack, asks)
         /\ Valid => Apart(calls) /\ Pivot(order, t, l, u, i, j, asks) /\ Inside(n, t)
         /\ Valid <=> order # <<>>
<1>1. calls # <<>> /\ Nested(n, calls) BY DEF Inv, Sorting
<1>2. l = Lo(calls) /\ u = Hi(calls) BY <1>1, AskedIs
<1> QED BY <1>1, <1>2, Top DEF Inv, Sorting, Rearranged, Shuffled, Valid

(* The invariant after a step that leaves the call to its table and indices *)
LEMMA TurnKept ==
  ASSUME NEW o, NEW m, NEW tt, NEW c, NEW ii, NEW jj, NEW ss, NEW aa, NEW rr,
         o \in Seq([1..m -> Int]), Rearranged(o, m, tt, c), Nested(m, c), c # <<>>,
         ii \in Int, jj \in Int,
         aa \in {"none", "ends", "low", "high", "up", "down"},
         rr \in {"busy", "invalid", "failed"},
         Waits(tt, Lo(c), Hi(c), ii, jj, ss, aa),
         o # <<>> => /\ Apart(c) /\ Pivot(o, tt, Lo(c), Hi(c), ii, jj, aa)
                     /\ rr # "invalid"
  PROVE  Sorting(o, m, tt, c, ii, jj, ss, aa, rr)
  BY DEF Sorting, Rearranged

(* The calls go on with narrower ranges, and no question is open. *)
LEMMA NextTurn ==
  ASSUME NEW o, NEW m, NEW tt, NEW c, NEW d, NEW ii, NEW jj,
         o \in Seq([1..m -> Int]), Rearranged(o, m, tt, c), Nested(m, d), d # <<>>,
         ii \in Int, jj \in Int, Len(c) \in Nat \ {0},
         Len(c) - 1 <= Len(d), \A k \in 1..Len(c) - 1 : d[k] = c[k],
         o # <<>> => /\ Apart(d)
                     /\ \A a, b \in 1..m : /\ a < b /\ Lo(c) <= a /\ b <= Hi(c)
                                           /\ ~Together(d, a, b)
                                           => R(o, tt[a]) <= R(o, tt[b])
  PROVE  Sorting(o, m, tt, d, ii, jj, <<>>, "none", "busy")
<1>1. d \in Seq(Part) BY DEF Nested
<1>2. Len(d) \in Nat BY <1>1
<1>3. o # <<>> => Settled(o, m, tt, d) BY <1>2, Resettled DEF Rearranged
<1>4. Rearranged(o, m, tt, d) BY <1>3 DEF Rearranged
<1>5. Waits(tt, Lo(d), Hi(d), ii, jj, <<>>, "none") BY DEF Waits
<1>6. Pivot(o, tt, Lo(d), Hi(d), ii, jj, "none") BY DEF Pivot
<1> QED BY <1>4, <1>5, <1>6, TurnKept

(* Again: the range is sorted but for its last place. *)
LEMMA AgainNext ==
  ASSUME NEW o, NEW m, NEW tt, NEW c, NEW d, NEW ii, NEW jj,
         o \in Seq([1..m -> Int]), Rearranged(o, m, tt, c), Nested(m, c), c # <<>>,
         ii \in Int, jj \in Int, Lo(c) < Hi(c),
         Narrows(c, Hi(c), Hi(c), d),
         o # <<>> => /\ Apart(c)
                     /\ \A a, b \in Lo(c)..Hi(c) : a < b => R(o, tt[a]) <= R(o, tt[b])
  PROVE  Sorting(o, m, tt, d, ii, jj, <<>>, "none", "busy")
<1>1. /\ c \in Seq(Part) /\ m \in Nat /\ Len(c) \in Nat \ {0} /\ Lo(c) \in Int /\ Hi(c) \in Int
  BY Top DEF Nested, Rearranged, Shuffled
<1>4. Lo(c) <= Hi(c) /\ Hi(c) <= Hi(c) BY <1>1
<1>5. Nested(m, d) /\ d # <<>> /\ (Apart(c) => Apart(d))
  <2>1. WellNested(m, c, Hi(c), Hi(c), d) BY <1>1, <1>4, Narrowed, Zenon
  <2> QED BY <2>1 DEF WellNested
<1>6. \A k \in 1..Len(c) - 1 : k \in 1..Len(c) /\ k # Len(c) BY <1>1
<1>7. \A k \in 1..Len(c) - 1 : d[k] = c[k] BY <1>6 DEF Narrows
<1>8. Len(c) - 1 <= Len(d) BY <1>1 DEF Narrows
<1>9. ASSUME o # <<>>, NEW a \in 1..m, NEW b \in 1..m, a < b, Lo(c) <= a, b <= Hi(c)
      PROVE  R(o, tt[a]) <= R(o, tt[b])
  <2>1. a \in Int /\ b \in Int OBVIOUS
  <2>2. a \in Lo(c)..Hi(c) /\ b \in Lo(c)..Hi(c)
    <3>1. Lo(c) \in Int /\ Hi(c) \in Int BY <1>1
    <3> QED BY <1>9, <2>1, <3>1
  <2> QED BY <1>9, <2>2, Zenon
<1> QED BY <1>1, <1>5, <1>7, <1>8, <1>9, NextTurn

LEMMA AgainDone ==
  ASSUME NEW o, NEW m, NEW tt, NEW c, NEW d, NEW ii, NEW jj,
         o \in Seq([1..m -> Int]), Rearranged(o, m, tt, c), Nested(m, c), c # <<>>,
         ii \in Int, jj \in Int, Lo(c) < Hi(c),
         d = [c EXCEPT ![Len(c)] = <<Hi(c), Hi(c)>>],
         o # <<>> => /\ Apart(c)
                     /\ \A a, b \in Lo(c)..Hi(c) : a < b => R(o, tt[a]) <= R(o, tt[b])
  PROVE  Sorting(o, m, tt, d, ii, jj, <<>>, "none", "busy")
<1>1. c \in Seq(Part) BY DEF Nested
<1>2. <<Hi(c), Hi(c)>> \in Part BY Top, Parts
<1>3. Narrows(c, Hi(c), Hi(c), d) BY <1>1, <1>2, Replaced, Zenon
<1> QED BY <1>3, AgainNext, Zenon

------------------------------------------------------------------------------
(* The actions *)
LEMMA StepReturn ==
  ASSUME Inv, result = "busy", Return, UNCHANGED order
  PROVE  Inv'
<1> DEFINE z == Len(calls)
<1>1. /\ calls # <<>> /\ Nested(n, calls) /\ z \in Nat \ {0} /\ l = Lo(calls) /\ u = Hi(calls)
      /\ l \in Int /\ u \in Int /\ n \in Nat /\ Rearranged(order, n, t, calls)
      /\ order \in Seq([1..n -> Int]) /\ i \in Int /\ j \in Int
      /\ Valid => Apart(calls)
      /\ Waits(t, l, u, i, j, stack, asks)
      /\ Valid <=> order # <<>>
  BY Turn
<1>2. /\ asks = "none" /\ l >= u /\ calls' = Front(calls)
      /\ n' = n /\ t' = t /\ stack' = stack /\ i' = i /\ j' = j /\ asks' = "none" /\ order' = order
      /\ result' = IF z = 1 THEN "sorted" ELSE "busy"
  BY DEF Return
<1>3. stack = <<>> BY <1>1, <1>2 DEF Waits
<1>4. /\ Nested(n, calls') /\ Len(calls') = z - 1
      /\ \A k \in 1..z - 1 : calls'[k] = calls[k]
      /\ z = 1 <=> calls' = <<>>
      /\ Apart(calls) => Apart(calls')
  <2>1. Pops(n, calls, calls') BY <1>1, <1>2, Popped, Zenon
  <2> QED BY <2>1 DEF Pops
<1>5. \A a, b \in 1..n : /\ a < b /\ Lo(calls) <= a /\ b <= Hi(calls)
                         /\ ~Together(calls', a, b)
                         => R(order, t[a]) <= R(order, t[b])
  BY <1>1, <1>2
<1>6. z - 1 <= Len(calls') /\ Len(calls') \in Nat BY <1>1, <1>4
<1>7. CASE z # 1
  <2> HIDE DEF z
  <2>1. Sorting(order, n, t, calls', i, j, <<>>, "none", "busy")
    BY <1>1, <1>4, <1>5, <1>6, <1>7, NextTurn DEF z
  <2> QED BY <1>2, <1>3, <1>7, <2>1 DEF Inv, z
<1>8. CASE z = 1
  <2>1. order # <<>> => Settled(order, n, t, calls')
    BY <1>1, <1>4, <1>5, <1>6, Resettled DEF Rearranged
  <2>2. Waits(t, Lo(calls'), Hi(calls'), i, j, <<>>, "none") BY DEF Waits
  <2>3. Pivot(order, t, Lo(calls'), Hi(calls'), i, j, "none") BY DEF Pivot
  <2>4. Sorting(order, n, t, calls', i, j, <<>>, "none", "sorted")
    BY <1>1, <1>4, <1>8, <2>1, <2>2, <2>3 DEF Sorting, Rearranged
  <2> QED BY <1>2, <1>3, <1>8, <2>4 DEF Inv
<1> QED BY <1>7, <1>8

LEMMA StepBegin ==
  ASSUME Inv, result = "busy", Begin, UNCHANGED order
  PROVE  Inv'
<1>1. /\ calls # <<>> /\ Nested(n, calls) /\ l = Lo(calls) /\ u = Hi(calls)
      /\ order \in Seq([1..n -> Int]) /\ i \in Int /\ j \in Int
      /\ Rearranged(order, n, t, calls)
      /\ Waits(t, l, u, i, j, stack, asks)
      /\ Valid => Apart(calls)
      /\ Valid <=> order # <<>>
  BY Turn
<1>2. /\ asks = "none" /\ l < u /\ stack' = Got(stack, <<l, u>>) /\ asks' = "ends"
      /\ n' = n /\ t' = t /\ calls' = calls /\ i' = i /\ j' = j /\ result' = "busy"
      /\ order' = order
  BY DEF Begin
<1>3. stack = <<>> BY <1>1, <1>2 DEF Waits
<1>4. stack' = <<t[l], t[u]>> BY <1>2, <1>3 DEF Got
<1>5. Waits(t, l, u, i, j, stack', "ends") BY <1>2, <1>4 DEF Waits
<1>6. Pivot(order, t, l, u, i, j, "ends") BY DEF Pivot
<1>7. Sorting(order, n, t, calls, i, j, stack', "ends", "busy")
  BY <1>1, <1>5, <1>6, TurnKept
<1> QED BY <1>2, <1>7 DEF Inv

LEMMA StepFail ==
  ASSUME Inv, result = "busy", Fail, UNCHANGED order
  PROVE  Inv'
  BY DEF Inv, Sorting, Fail

(* The function says whether x is less than y; what it says is true if it knows
   the order. *)
Answered(less, x, y) == less \in BOOLEAN /\ (Valid => (less <=> Rank(x) < Rank(y)))

LEMMA LessIs ==
  ASSUME NEW x, NEW y, NEW less \in Less(x, y)
  PROVE  Answered(less, x, y)
<1>1. CASE Valid
  <2>1. less = (Rank(x) < Rank(y)) BY <1>1, Zenon DEF Less
  <2>2. (Rank(x) < Rank(y)) \in BOOLEAN OBVIOUS
  <2>3. less \in BOOLEAN BY <2>1, <2>2, Zenon
  <2>4. less <=> Rank(x) < Rank(y) BY <2>1, Zenon
  <2> QED BY <2>3, <2>4, Zenon DEF Answered
<1>2. CASE ~Valid
  <2>1. less \in BOOLEAN BY <1>2, Zenon DEF Less
  <2> QED BY <1>2, <2>1, Zenon DEF Answered
<1> QED BY <1>1, <1>2

(* What the top two of the stack hold goes back to the two places swapped. *)
LEMMA SwapBack ==
  ASSUME NEW s, NEW a, NEW b, NEW x, NEW y, s = <<x, y>> \/ (\E p : s = <<p, x, y>>),
         x = t[a], y = t[b]
  PROVE  set2(s, a, b) = Swapped(t, a, b)
<1>1. Last(s) = y /\ s[Len(s) - 1] = x
  <2>1. CASE s = <<x, y>> BY <2>1 DEF Last
  <2>2. CASE \E p : s = <<p, x, y>> BY <2>2 DEF Last
  <2> QED BY <2>1, <2>2
<1>2. set2(s, a, b) = [t EXCEPT ![a] = y, ![b] = x] BY <1>1, Zenon DEF set2
<1> QED BY <1>2, Zenon DEF Swapped

(* A comparison that has the two places swapped puts them in order. *)
LEMMA Ordered ==
  ASSUME Inv, result = "busy", NEW a \in l..u, NEW b \in l..u, NEW less,
         Answered(less, t[b], t[a]), NEW new, new = IF less THEN Swapped(t, a, b) ELSE t
  PROVE  /\ Rearranged(order, n, new, calls) /\ new \in [0..n + 1 -> 0..n + 1]
         /\ \A k \in 0..n + 1 : k # a /\ k # b => new[k] = t[k]
         /\ Valid => R(order, new[a]) <= R(order, new[b])
         /\ new[a] = IF less THEN t[b] ELSE t[a]
         /\ new[b] = IF less THEN t[a] ELSE t[b]
<1>1. /\ calls # <<>> /\ Nested(n, calls) /\ l = Lo(calls) /\ u = Hi(calls)
      /\ l \in Int /\ u \in Int /\ 1 <= l /\ u <= n /\ n \in Nat
      /\ t \in [0..n + 1 -> 0..n + 1] /\ Rearranged(order, n, t, calls)
      /\ Valid => Apart(calls) /\ Inside(n, t)
      /\ Valid <=> order # <<>>
      /\ order \in Seq([1..n -> Int])
  BY Turn
<1>2. a \in 1..n /\ b \in 1..n /\ a \in 0..n + 1 /\ b \in 0..n + 1
  BY <1>1, Between
<1>3. less \in BOOLEAN BY DEF Answered
<1>4. ASSUME Valid
      PROVE  /\ R(order, t[a]) \in Int /\ R(order, t[b]) \in Int
             /\ less <=> R(order, t[b]) < R(order, t[a])
  <2>1. t[a] \in 1..n /\ t[b] \in 1..n BY <1>1, <1>2, <1>4 DEF Inside
  <2> QED BY <1>1, <1>4, <2>1, RankInt DEF Answered, Rank, R
<1>5. CASE less
  <2>1. new = Swapped(t, a, b) BY <1>5
  <2>2. Rearranged(order, n, new, calls) BY <1>1, <2>1, SwapRearranges
  <2>3. /\ new \in [0..n + 1 -> 0..n + 1] /\ new[a] = t[b] /\ new[b] = t[a]
        /\ \A k \in 0..n + 1 : k # a /\ k # b => new[k] = t[k]
    <3>1. n \in Nat /\ t \in [0..n + 1 -> 0..n + 1] BY <1>1
    <3>2. IsSwap(n, t, a, b, new) BY <1>2, <2>1, <3>1, SwapTwo, Zenon
    <3> QED BY <3>2 DEF IsSwap
  <2>4. Valid => R(order, new[a]) <= R(order, new[b]) BY <1>4, <1>5, <2>3
  <2> QED BY <1>5, <2>2, <2>3, <2>4
<1>6. CASE ~less
  <2>1. new = t BY <1>6
  <2>2. Valid => R(order, new[a]) <= R(order, new[b]) BY <1>4, <1>6, <2>1
  <2> QED BY <1>1, <1>6, <2>1, <2>2
<1> QED BY <1>3, <1>5, <1>6

LEMMA Ends ==
  ASSUME NEW lo \in Int, NEW hi \in Int, lo < hi
  PROVE  lo \in lo..hi /\ hi \in lo..hi
  OBVIOUS

LEMMA Middle ==
  ASSUME NEW lo \in Int, NEW hi \in Int, hi - lo >= 2
  PROVE  LET mid == (lo + hi) \div 2
         IN  mid \in Int /\ lo < mid /\ mid < hi /\ (hi - lo = 2 => mid = lo + 1)
  OBVIOUS

LEMMA TwoOnEmpty == \A x, y : <<>> \o <<x, y>> = <<x, y>>
  OBVIOUS

LEMMA StepTwoEnds ==
  ASSUME Inv, result = "busy", UNCHANGED order, NEW less, TwoEnds(less),
         Answered(less, t[u], t[l])
  PROVE  Inv'
<1> DEFINE new == IF less THEN set2(stack, l, u) ELSE t
           mid == (l + u) \div 2
           swapped == IF less THEN Swapped(t, l, u) ELSE t
<1>1. /\ calls # <<>> /\ Nested(n, calls) /\ l = Lo(calls) /\ u = Hi(calls)
      /\ l \in Int /\ u \in Int /\ 1 <= l /\ u <= n /\ n \in Nat
      /\ order \in Seq([1..n -> Int]) /\ i \in Int /\ j \in Int
      /\ Waits(t, l, u, i, j, stack, asks)
      /\ Valid => Apart(calls)
      /\ Valid <=> order # <<>>
  BY Turn
<1>2. /\ asks = "ends" /\ t' = new /\ n' = n /\ j' = j /\ result' = "busy" /\ order' = order
  BY DEF TwoEnds
<1>3. l < u /\ stack = <<t[l], t[u]>> BY <1>1, <1>2 DEF Waits
<1>4. new = swapped BY <1>3, SwapBack
<1>5. l \in l..u /\ u \in l..u BY <1>1, <1>3, Ends, Zenon
<1>6. /\ Rearranged(order, n, t', calls)
      /\ Valid => R(order, t'[l]) <= R(order, t'[u])
  BY <1>2, <1>4, <1>5, Ordered
<1>7. Pop(stack, 2) = <<>> BY <1>3 DEF Pop
<1>8. CASE u - l = 1
  <2>1. calls' = [calls EXCEPT ![Len(calls)] = <<u, u>>] /\ asks' = "none"
        /\ stack' = <<>> /\ i' = i
    BY <1>7, <1>8 DEF TwoEnds, Again
  <2>2. \A a, b \in l..u : a < b => a = l /\ b = u BY <1>1, <1>8
  <2>3. Valid => \A a, b \in l..u : a < b => R(order, t'[a]) <= R(order, t'[b])
    BY <1>6, <2>2
  <2> HIDE DEF new
  <2>4. Sorting(order, n, t', calls', i, j, <<>>, "none", "busy")
    BY <1>1, <1>3, <1>6, <2>1, <2>3, AgainDone
  <2> QED BY <1>2, <2>1, <2>4 DEF Inv
<1>9. CASE u - l # 1
  <2>1. asks' = "low" /\ i' = mid /\ stack' = Pop(stack, 2) \o <<new[mid], new[l]>>
        /\ calls' = calls
    BY <1>9 DEF TwoEnds
  <2>2. mid \in Int /\ l < mid /\ mid < u /\ (u - l = 2 => mid = l + 1)
    <3>1. u - l >= 2 BY <1>1, <1>3, <1>9
    <3> QED BY <1>1, <3>1, Middle
  <2> HIDE DEF new, mid
  <2>3. stack' = <<t'[mid], t'[l]>> BY <1>2, <1>7, <2>1, TwoOnEmpty
  <2>4. Waits(t', l, u, mid, j, stack', "low") BY <2>2, <2>3 DEF Waits
  <2>5. Valid => Pivot(order, t', l, u, mid, j, "low") BY <1>6 DEF Pivot
  <2>6. Sorting(order, n, t', calls, mid, j, stack', "low", "busy")
    BY <1>1, <1>6, <2>2, <2>4, <2>5, TurnKept
  <2> QED BY <1>2, <2>1, <2>6 DEF Inv
<1> QED BY <1>8, <1>9

(* The stack, popped and pushed *)
LEMMA PopTwo ==
  \A x, y : Pop(<<x, y>>, 1) = <<x>> /\ Pop(<<x, y>>, 2) = <<>>
<1> SUFFICES ASSUME NEW x, NEW y PROVE Pop(<<x, y>>, 1) = <<x>> /\ Pop(<<x, y>>, 2) = <<>>
  OBVIOUS
<1> DEFINE s == <<x, y>>
           d == SubSeq(s, 1, 1)
<1>1. Len(s) = 2 /\ s[1] = x OBVIOUS
<1> HIDE DEF s
<1>2. \A k \in 1..1 : s[k] \in {x} BY <1>1
<1>3. d \in Seq({x}) /\ Len(d) = 1 /\ d[1] = x BY <1>1, <1>2, SubSeqProperties
<1> HIDE DEF d
<1>4. d = <<x>> BY <1>3
<1>5. Pop(s, 1) = d BY <1>1 DEF Pop, d
<1>6. Pop(s, 2) = <<>> BY <1>1, SubSeqEmpty DEF Pop
<1> QED BY <1>4, <1>5, <1>6 DEF s

LEMMA PopThree ==
  \A x, y, z : /\ Pop(<<x, y, z>>, 1) = <<x, y>> /\ Pop(<<x, y, z>>, 2) = <<x>>
              /\ Pop(<<x, y, z>>, 3) = <<>>
<1> SUFFICES ASSUME NEW x, NEW y, NEW z
             PROVE  /\ Pop(<<x, y, z>>, 1) = <<x, y>> /\ Pop(<<x, y, z>>, 2) = <<x>>
                    /\ Pop(<<x, y, z>>, 3) = <<>>
  OBVIOUS
<1> DEFINE s == <<x, y, z>>
           d == SubSeq(s, 1, 1)
           e == SubSeq(s, 1, 2)
<1>1. Len(s) = 3 /\ s[1] = x /\ s[2] = y OBVIOUS
<1> HIDE DEF s
<1>2. /\ \A k \in 1..1 : s[k] \in {x, y}
      /\ \A k \in 1..2 : s[k] \in {x, y}
  BY <1>1
<1>3. d \in Seq({x, y}) /\ Len(d) = 1 /\ d[1] = x BY <1>1, <1>2, SubSeqProperties
<1>4. e \in Seq({x, y}) /\ Len(e) = 2 /\ e[1] = x /\ e[2] = y
  <2>1. \A k \in 1..2 - 1 + 1 : e[k] = s[1 + k - 1] BY <1>2, SubSeqProperties
  <2>2. e \in Seq({x, y}) /\ Len(e) = 2 BY <1>2, SubSeqProperties
  <2> HIDE DEF e
  <2> QED BY <1>1, <2>1, <2>2
<1> HIDE DEF d, e
<1>5. d = <<x>> /\ e = <<x, y>> BY <1>3, <1>4
<1>6. Pop(s, 1) = e /\ Pop(s, 2) = d BY <1>1 DEF Pop, d, e
<1>7. Pop(s, 3) = <<>> BY <1>1, SubSeqEmpty DEF Pop
<1> QED BY <1>5, <1>6, <1>7 DEF s

LEMMA OneAdded ==
  ASSUME NEW S, NEW s \in Seq(S), NEW x \in S, NEW d, d = Append(s, x)
  PROVE  /\ d \in Seq(S) /\ Len(d) = Len(s) + 1 /\ d[Len(s) + 1] = x
         /\ \A k \in 1..Len(s) : d[k] = s[k]
  OBVIOUS

LEMMA AppendOne ==
  /\ \A x, y : Append(<<x>>, y) = <<x, y>>
  /\ \A x, y, z : Append(<<x, y>>, z) = <<x, y, z>>
<1>1. ASSUME NEW x, NEW y PROVE Append(<<x>>, y) = <<x, y>>
  <2> DEFINE S == {x, y}
             s == <<x>>
             d == Append(s, y)
  <2>1. x \in S /\ y \in S OBVIOUS
  <2> HIDE DEF S
  <2>2. s \in Seq(S) /\ Len(s) = 1 /\ s[1] = x BY <2>1
  <2> HIDE DEF s
  <2>6. d = Append(s, y) OBVIOUS
  <2> HIDE DEF d
  <2>3. /\ d \in Seq(S) /\ Len(d) = Len(s) + 1
        /\ \A k \in 1..Len(s) : d[k] = s[k]
        /\ d[Len(s) + 1] = y
    BY <2>1, <2>2, <2>6, OneAdded
  <2>4. d \in Seq(S) /\ Len(d) = 2 /\ d[1] = x /\ d[2] = y BY <2>2, <2>3
  <2>5. d = <<x, y>> BY <2>4
  <2> QED BY <2>5 DEF d, s
<1>2. ASSUME NEW x, NEW y, NEW z PROVE Append(<<x, y>>, z) = <<x, y, z>>
  <2> DEFINE S == {x, y, z}
             s == <<x, y>>
             d == Append(s, z)
  <2>1. x \in S /\ y \in S /\ z \in S OBVIOUS
  <2> HIDE DEF S
  <2>2. s \in Seq(S) /\ Len(s) = 2 /\ s[1] = x /\ s[2] = y BY <2>1
  <2> HIDE DEF s
  <2>6. d = Append(s, z) OBVIOUS
  <2> HIDE DEF d
  <2>3. /\ d \in Seq(S) /\ Len(d) = Len(s) + 1
        /\ \A k \in 1..Len(s) : d[k] = s[k]
        /\ d[Len(s) + 1] = z
    BY <2>1, <2>2, <2>6, OneAdded
  <2>4. d \in Seq(S) /\ Len(d) = 3 /\ d[1] = x /\ d[2] = y /\ d[3] = z BY <2>2, <2>3
  <2>5. d = <<x, y, z>> BY <2>4
  <2> QED BY <2>5 DEF d, s
<1> QED BY <1>1, <1>2

LEMMA PivotUp ==
  ASSUME NEW o, NEW tt, NEW lo, NEW hi, NEW ii, NEW jj, ii <= hi - 1,
         \A k \in lo..ii - 1 : R(o, tt[k]) <= R(o, tt[hi - 1]),
         \A k \in jj + 1..hi : R(o, tt[hi - 1]) <= R(o, tt[k]),
         R(o, tt[hi - 1]) <= R(o, tt[jj])
  PROVE  Pivot(o, tt, lo, hi, ii, jj, "up")
  BY DEF Pivot

LEMMA PivotDown ==
  ASSUME NEW o, NEW tt, NEW lo, NEW hi, NEW ii, NEW jj, ii <= hi - 1, lo <= jj,
         \A k \in lo..ii - 1 : R(o, tt[k]) <= R(o, tt[hi - 1]),
         \A k \in jj + 1..hi : R(o, tt[hi - 1]) <= R(o, tt[k]),
         R(o, tt[hi - 1]) <= R(o, tt[ii])
  PROVE  Pivot(o, tt, lo, hi, ii, jj, "down")
  BY DEF Pivot

TwoOf(lo, ii, hi, a, b) == (a = lo /\ b = ii) \/ (a = lo /\ b = hi) \/ (a = ii /\ b = hi)

LEMMA TwoOfThree ==
  ASSUME NEW lo \in Int, NEW ii, NEW hi, ii = lo + 1, hi = lo + 2,
         NEW a \in lo..hi, NEW b \in lo..hi, a < b
  PROVE  TwoOf(lo, ii, hi, a, b)
  BY DEF TwoOf

LEMMA Inwards ==
  ASSUME NEW lo \in Int, NEW hi \in Int, NEW x \in Int, NEW m \in Nat,
         1 <= lo, hi <= m, hi - lo # 2, lo < x, x < hi
  PROVE  /\ hi - lo >= 3 /\ x \in lo..hi /\ hi - 1 \in lo..hi
         /\ x \in 0..m + 1 /\ hi - 1 \in 0..m + 1
         /\ lo \in 0..m + 1 /\ hi \in 0..m + 1
         /\ lo # x /\ lo # hi - 1 /\ hi # x /\ hi # hi - 1
         /\ hi - 1 \in 1..m /\ lo \in 1..m /\ hi \in 1..m
  OBVIOUS

(* The middle one of three values is at place i. *)
LEMMA StepPartition ==
  ASSUME Inv, result = "busy", NEW new, NEW s, s = <<>>, Partition(new, s),
         n' = n, order' = order, result' = "busy",
         new \in [0..n + 1 -> 0..n + 1], Rearranged(order, n, new, calls),
         l < i, i < u, u - l = 2 => i = l + 1,
         Valid => R(order, new[l]) <= R(order, new[i]) /\ R(order, new[i]) <= R(order, new[u]),
         u - l = 2 => asks' = "none"
  PROVE  Inv'
<1>1. /\ calls # <<>> /\ Nested(n, calls) /\ l = Lo(calls) /\ u = Hi(calls)
      /\ l \in Int /\ u \in Int /\ 1 <= l /\ u <= n /\ n \in Nat
      /\ order \in Seq([1..n -> Int]) /\ i \in Int /\ j \in Int
      /\ Valid => Apart(calls)
      /\ Valid <=> order # <<>>
  BY Turn
<1>5. l \in Int /\ u \in Int /\ 1 <= l /\ u <= n /\ n \in Nat /\ i \in Int BY <1>1
<1>2. Valid => \A k \in 1..n : R(order, new[k]) \in Int
  <2>1. Valid => Inside(n, new) BY <1>1 DEF Rearranged
  <2> QED BY <1>1, <2>1, RankInt DEF Inside
<1>3. CASE u - l = 2
  <2>1. calls' = [calls EXCEPT ![Len(calls)] = <<u, u>>] /\ asks' = "none"
        /\ t' = new /\ stack' = <<>> /\ i' = i /\ j' = j
    BY <1>3 DEF Partition, Again
  <2>2. ASSUME Valid, NEW a \in l..u, NEW b \in l..u, a < b
        PROVE  R(order, new[a]) <= R(order, new[b])
    <3>1. i = l + 1 /\ u = l + 2 BY <1>3, <1>5
    <3>2. (a = l /\ b = i) \/ (a = l /\ b = u) \/ (a = i /\ b = u)
      <4>1. a \in l..u /\ b \in l..u /\ a < b BY <2>2
      <4>2. TwoOf(l, i, u, a, b) BY <1>5, <3>1, <4>1, TwoOfThree, Zenon
      <4> QED BY <4>2 DEF TwoOf
    <3>3. l \in 1..n /\ i \in 1..n /\ u \in 1..n BY <1>5, <3>1
    <3>4. /\ R(order, new[l]) \in Int /\ R(order, new[i]) \in Int /\ R(order, new[u]) \in Int
      BY <1>2, <2>2, <3>3
    <3> QED BY <2>2, <3>2, <3>4
  <2>3. l < u BY <1>1, <1>3
  <2>4. Sorting(order, n, new, calls', i, j, <<>>, "none", "busy")
    BY <1>1, <2>1, <2>2, <2>3, AgainDone
  <2> QED BY <2>1, <2>4 DEF Inv
<1>4. CASE u - l # 2
  <2> DEFINE w == Swapped(new, i, u - 1)
  <2>1. /\ t' = w /\ i' = l + 1 /\ j' = u - 1 /\ asks' = "up" /\ calls' = calls
        /\ stack' = s \o <<new[i], t'[l + 1]>>
    BY <1>4 DEF Partition, Swapped
  <2>2. /\ u - l >= 3 /\ i \in l..u /\ u - 1 \in l..u /\ i \in 0..n + 1 /\ u - 1 \in 0..n + 1
        /\ l \in 0..n + 1 /\ u \in 0..n + 1 /\ l # i /\ l # u - 1 /\ u # i /\ u # u - 1
        /\ u - 1 \in 1..n /\ l \in 1..n /\ u \in 1..n
    BY <1>1, <1>4, <1>5, Inwards, Zenon
  <2>3. /\ w[u - 1] = new[i] /\ w[l] = new[l] /\ w[u] = new[u]
    <3>1. /\ w[u - 1] = new[i]
          /\ \A k \in 0..n + 1 : k # i /\ k # u - 1 => w[k] = new[k]
      <4>1. n \in Nat /\ i \in 0..n + 1 /\ u - 1 \in 0..n + 1 BY <1>5, <2>2
      <4>2. IsSwap(n, new, i, u - 1, w) BY <4>1, SwapTwo, Zenon
      <4> HIDE DEF w
      <4> QED BY <4>2 DEF IsSwap
    <3> HIDE DEF w
    <3> QED BY <2>2, <3>1
  <2>4. Rearranged(order, n, w, calls) BY <1>1, <2>2, SwapRearranges
  <2> HIDE DEF w
  <2>5. stack' = <<w[u - 1], w[l + 1]>> BY <2>1, <2>3, TwoOnEmpty
  <2>6. Waits(w, l, u, l + 1, u - 1, stack', "up")
    <3>1. u - l >= 3 BY <2>2
    <3>2. l + 1 \in l + 1..u + 1 /\ u - 1 \in l + 1..u - 1 BY <1>5, <3>1
    <3> QED BY <2>5, <3>1, <3>2 DEF Waits
  <2>7. ASSUME Valid PROVE Pivot(order, w, l, u, l + 1, u - 1, "up")
    <3>1. Inside(n, w) BY <1>1, <2>4, <2>7 DEF Rearranged
    <3>2. R(order, w[u - 1]) \in Int BY <1>1, <2>2, <2>7, <3>1, RankInt DEF Inside
    <3>3. l + 1 <= u - 1
      <4>1. u - l >= 3 BY <2>2
      <4> QED BY <1>5, <4>1
    <3>4. \A k \in l..(l + 1) - 1 : k = l BY <1>5
    <3>5. \A k \in u - 1 + 1..u : k = u BY <1>5
    <3>6. R(order, w[l]) <= R(order, w[u - 1]) /\ R(order, w[u - 1]) <= R(order, w[u])
      BY <2>3, <2>7
    <3>7. R(order, w[u - 1]) <= R(order, w[u - 1]) BY <3>2
    <3>8. \A k \in l..(l + 1) - 1 : R(order, w[k]) <= R(order, w[u - 1]) BY <3>4, <3>6
    <3>9. \A k \in u - 1 + 1..u : R(order, w[u - 1]) <= R(order, w[k]) BY <3>5, <3>6
    <3> QED BY <3>3, <3>7, <3>8, <3>9, PivotUp
  <2>8. l + 1 \in Int /\ u - 1 \in Int BY <1>5
  <2>9. Sorting(order, n, w, calls, l + 1, u - 1, stack', "up", "busy")
    BY <1>1, <2>4, <2>6, <2>7, <2>8, TurnKept
  <2> QED BY <2>1, <2>9 DEF Inv
<1> QED BY <1>3, <1>4

LEMMA StepLow ==
  ASSUME Inv, result = "busy", UNCHANGED order, NEW less, Low(less),
         Answered(less, t[i], t[l])
  PROVE  Inv'
<1> DEFINE new == IF less THEN Swapped(t, l, i) ELSE t
<1>1. /\ calls # <<>> /\ Nested(n, calls) /\ l = Lo(calls) /\ u = Hi(calls)
      /\ l \in Int /\ u \in Int /\ 1 <= l /\ u <= n /\ n \in Nat
      /\ order \in Seq([1..n -> Int]) /\ i \in Int /\ j \in Int
      /\ Waits(t, l, u, i, j, stack, asks)
      /\ Rearranged(order, n, t, calls)
      /\ Valid => Apart(calls) /\ Pivot(order, t, l, u, i, j, asks) /\ Inside(n, t)
      /\ Valid <=> order # <<>>
  BY Turn
<1>2. asks = "low" /\ n' = n /\ result' = "busy" /\ order' = order BY DEF Low
<1>3. l < i /\ i < u /\ (u - l = 2 => i = l + 1) /\ stack = <<t[i], t[l]>>
  BY <1>1, <1>2 DEF Waits
<1>4. /\ l \in l..u /\ i \in l..u /\ u \in 0..n + 1 /\ u # l /\ u # i
      /\ l \in 1..n /\ i \in 1..n /\ u \in 1..n
  <2>1. l \in Int /\ u \in Int /\ 1 <= l /\ u <= n /\ n \in Nat /\ i \in Int BY <1>1
  <2> QED BY <1>3, <2>1
<1>5. /\ Rearranged(order, n, new, calls) /\ new \in [0..n + 1 -> 0..n + 1]
      /\ \A k \in 0..n + 1 : k # l /\ k # i => new[k] = t[k]
      /\ Valid => R(order, new[l]) <= R(order, new[i])
      /\ new[l] = IF less THEN t[i] ELSE t[l]
      /\ new[i] = IF less THEN t[l] ELSE t[i]
  <2>1. new = IF less THEN Swapped(t, l, i) ELSE t OBVIOUS
  <2> HIDE DEF new
  <2> QED BY <1>4, <2>1, Ordered
<1>6. Valid => R(order, t[l]) <= R(order, t[u]) BY <1>1, <1>2 DEF Pivot
<1>7. CASE less
  <2>1. new = set2(stack, i, l)
    <3>1. set2(stack, i, l) = Swapped(t, i, l) BY <1>3, SwapBack
    <3>2. Swapped(t, i, l) = Swapped(t, l, i) BY <1>1, <1>3 DEF Swapped
    <3> QED BY <1>7, <3>1, <3>2
  <2>2. Pop(stack, 2) = <<>> BY <1>3 DEF Pop
  <2>3. Partition(new, <<>>) BY <1>7, <2>1, <2>2 DEF Low
  <2>4. new[i] = t[l] /\ new[u] = t[u] BY <1>4, <1>5, <1>7
  <2>5. u - l = 2 => asks' = "none" BY <2>3 DEF Partition, Again
  <2> HIDE DEF new
  <2> QED BY <1>2, <1>3, <1>5, <1>6, <2>3, <2>4, <2>5, StepPartition
<1>8. CASE ~less
  <2>1. /\ stack' = Append(Pop(stack, 1), t[u]) /\ asks' = "high"
        /\ t' = t /\ calls' = calls /\ i' = i /\ j' = j
    BY <1>8 DEF Low
  <2>2. stack' = <<t[i], t[u]>> BY <1>3, <2>1, PopTwo, AppendOne, Zenon
  <2>3. Waits(t, l, u, i, j, stack', "high") BY <1>3, <2>2 DEF Waits
  <2>4. Valid => R(order, t[l]) <= R(order, t[i]) BY <1>5, <1>8
  <2>5. Valid => Pivot(order, t, l, u, i, j, "high") BY <1>6, <2>4 DEF Pivot
  <2>6. Sorting(order, n, t, calls, i, j, stack', "high", "busy")
    BY <1>1, <2>3, <2>5, TurnKept
  <2> QED BY <1>2, <2>1, <2>6 DEF Inv
<1>9. less \in BOOLEAN BY DEF Answered
<1> QED BY <1>7, <1>8, <1>9

LEMMA StepHigh ==
  ASSUME Inv, result = "busy", UNCHANGED order, NEW less, High(less),
         Answered(less, t[u], t[i])
  PROVE  Inv'
<1> DEFINE new == IF less THEN Swapped(t, i, u) ELSE t
<1>1. /\ l \in Int /\ u \in Int /\ 1 <= l /\ u <= n /\ n \in Nat /\ i \in Int
      /\ Waits(t, l, u, i, j, stack, asks)
      /\ Valid => Pivot(order, t, l, u, i, j, asks)
  BY Turn
<1>2. asks = "high" /\ n' = n /\ result' = "busy" /\ order' = order BY DEF High
<1>3. l < i /\ i < u /\ (u - l = 2 => i = l + 1) /\ stack = <<t[i], t[u]>>
  BY <1>1, <1>2 DEF Waits
<1>4. i \in l..u /\ u \in l..u /\ l \in 0..n + 1 /\ l # i /\ l # u BY <1>1, <1>3
<1>5. /\ Rearranged(order, n, new, calls) /\ new \in [0..n + 1 -> 0..n + 1]
      /\ \A k \in 0..n + 1 : k # i /\ k # u => new[k] = t[k]
      /\ Valid => R(order, new[i]) <= R(order, new[u])
      /\ new[i] = IF less THEN t[u] ELSE t[i]
  <2>1. new = IF less THEN Swapped(t, i, u) ELSE t OBVIOUS
  <2> HIDE DEF new
  <2> QED BY <1>4, <2>1, Ordered
<1>6. Valid => R(order, t[l]) <= R(order, t[u]) /\ R(order, t[l]) <= R(order, t[i])
  BY <1>1, <1>2 DEF Pivot
<1>7. new[l] = t[l] BY <1>4, <1>5
<1>8. Valid => R(order, new[l]) <= R(order, new[i]) BY <1>5, <1>6, <1>7
<1>9. Partition(new, <<>>)
  <2>1. Pop(stack, 2) = <<>> BY <1>3 DEF Pop
  <2>2. new = IF less THEN set2(stack, i, u) ELSE t BY <1>3, SwapBack
  <2> HIDE DEF new
  <2> QED BY <2>1, <2>2 DEF High
<1>10. u - l = 2 => asks' = "none" BY <1>9 DEF Partition, Again
<1> HIDE DEF new
<1> QED BY <1>2, <1>3, <1>5, <1>8, <1>9, <1>10, StepPartition

(* What an order tells in the loop: the values below i are not above the pivot,
   those above j not below it. *)
LEMMA Ranked ==
  ASSUME Inv, result = "busy", Valid
  PROVE  /\ \A k \in 1..n : R(order, t[k]) \in Int
         /\ Inside(n, t) /\ Apart(calls) /\ Settled(order, n, t, calls)
  BY Turn, RankInt DEF Inside, Rearranged

LEMMA StepUp ==
  ASSUME Inv, result = "busy", UNCHANGED order, NEW less, Up(less),
         Answered(less, t[i], t[u - 1])
  PROVE  Inv'
<1>1. /\ calls # <<>> /\ Nested(n, calls) /\ l = Lo(calls) /\ u = Hi(calls)
      /\ order \in Seq([1..n -> Int])
      /\ Waits(t, l, u, i, j, stack, asks)
      /\ Rearranged(order, n, t, calls)
      /\ Valid => Apart(calls) /\ Pivot(order, t, l, u, i, j, asks)
      /\ Valid <=> order # <<>>
  BY Turn
<1>2. l \in Int /\ u \in Int /\ 1 <= l /\ u <= n /\ n \in Nat /\ i \in Int /\ j \in Int BY Turn
<1>3. asks = "up" /\ n' = n /\ t' = t /\ calls' = calls /\ order' = order
  BY DEF Up, Invalid
<1>4. /\ u - l >= 3 /\ i \in l + 1..u + 1 /\ j \in l + 1..u - 1 /\ stack = <<t[u - 1], t[i]>>
  BY <1>1, <1>3 DEF Waits
<1>5. ASSUME Valid
      PROVE  /\ i <= u - 1 /\ i \in 1..n /\ u - 1 \in 1..n /\ j \in 1..n
             /\ \A k \in l..i - 1 : R(order, t[k]) <= R(order, t[u - 1])
             /\ \A k \in j + 1..u : R(order, t[u - 1]) <= R(order, t[k])
             /\ R(order, t[u - 1]) <= R(order, t[j])
             /\ R(order, t[i]) \in Int /\ R(order, t[u - 1]) \in Int
             /\ less <=> R(order, t[i]) < R(order, t[u - 1])
  <2>1. /\ i <= u - 1
        /\ \A k \in l..i - 1 : R(order, t[k]) <= R(order, t[u - 1])
        /\ \A k \in j + 1..u : R(order, t[u - 1]) <= R(order, t[k])
        /\ R(order, t[u - 1]) <= R(order, t[j])
    BY <1>1, <1>3, <1>5, Zenon DEF Pivot
  <2>2. i <= u - 1 BY <2>1
  <2>3. i \in 1..n /\ u - 1 \in 1..n /\ j \in 1..n BY <1>2, <1>4, <2>2
  <2>4. R(order, t[i]) \in Int /\ R(order, t[u - 1]) \in Int BY <1>5, <2>3, Ranked
  <2>5. less <=> R(order, t[i]) < R(order, t[u - 1]) BY <1>5 DEF Answered, Rank, R
  <2> QED BY <2>1, <2>3, <2>4, <2>5
<1>6. CASE less /\ i > u
  <2>1. ~Valid BY <1>2, <1>5, <1>6
  <2>2. result' = "invalid" /\ stack' = stack /\ i' = i /\ j' = j /\ asks' = asks
    BY <1>6 DEF Up, Invalid
  <2>3. Sorting(order, n, t, calls, i, j, stack, asks, "invalid")
    BY <1>1, <1>2, <1>3, <2>1, TurnKept
  <2> QED BY <1>3, <2>2, <2>3 DEF Inv
<1>7. CASE less /\ ~(i > u)
  <2>1. /\ result' = "busy" /\ i' = i + 1 /\ j' = j /\ asks' = "up"
        /\ stack' = Append(Pop(stack, 1), t[i + 1])
    BY <1>3, <1>7 DEF Up
  <2>2. stack' = <<t[u - 1], t[i + 1]>> BY <1>4, <2>1, PopTwo, AppendOne, Zenon
  <2>3. i + 1 \in l + 1..u + 1 /\ i + 1 \in Int BY <1>2, <1>4, <1>7
  <2>4. Waits(t, l, u, i + 1, j, stack', "up") BY <1>4, <2>2, <2>3 DEF Waits
  <2>5. ASSUME Valid PROVE Pivot(order, t, l, u, i + 1, j, "up")
    <3>1. /\ i <= u - 1 /\ R(order, t[i]) \in Int /\ R(order, t[u - 1]) \in Int
          /\ R(order, t[i]) < R(order, t[u - 1])
      BY <1>5, <1>7, <2>5
    <3>2. i # u - 1 BY <3>1
    <3>3. i + 1 <= u - 1 BY <1>2, <3>1, <3>2
    <3>4. \A k \in l..(i + 1) - 1 : k \in l..i - 1 \/ k = i BY <1>2
    <3>5. \A k \in l..(i + 1) - 1 : R(order, t[k]) <= R(order, t[u - 1])
      BY <1>5, <2>5, <3>1, <3>4
    <3> QED BY <1>5, <2>5, <3>3, <3>5, PivotUp
  <2>6. Sorting(order, n, t, calls, i + 1, j, stack', "up", "busy")
    BY <1>1, <1>2, <2>3, <2>4, <2>5, TurnKept
  <2> QED BY <1>3, <2>1, <2>6 DEF Inv
<1>8. CASE ~less
  <2>1. /\ result' = "busy" /\ i' = i /\ j' = j - 1 /\ asks' = "down"
        /\ stack' = Append(stack, t[j - 1])
    BY <1>8 DEF Up
  <2>2. stack' = <<t[u - 1], t[i], t[j - 1]>> BY <1>4, <2>1, AppendOne, Zenon
  <2>3. j - 1 \in l - 1..u - 2 /\ j - 1 \in Int /\ l <= j - 1 BY <1>2, <1>4
  <2>4. Waits(t, l, u, i, j - 1, stack', "down") BY <1>4, <2>2, <2>3 DEF Waits
  <2>5. ASSUME Valid PROVE Pivot(order, t, l, u, i, j - 1, "down")
    <3>1. R(order, t[u - 1]) <= R(order, t[i]) BY <1>5, <1>8, <2>5
    <3>2. \A k \in (j - 1) + 1..u : k = j \/ k \in j + 1..u BY <1>2
    <3>3. \A k \in (j - 1) + 1..u : R(order, t[u - 1]) <= R(order, t[k])
      BY <1>5, <2>5, <3>2
    <3> QED BY <1>5, <2>3, <2>5, <3>1, <3>3, PivotDown
  <2>6. Sorting(order, n, t, calls, i, j - 1, stack', "down", "busy")
    BY <1>1, <1>2, <2>3, <2>4, <2>5, TurnKept
  <2> QED BY <1>3, <2>1, <2>6 DEF Inv
<1>9. less \in BOOLEAN BY DEF Answered
<1> QED BY <1>6, <1>7, <1>8, <1>9

(* i and j have met: the pivot goes between the parts. *)
LEMMA Straddles ==
  ASSUME NEW lo \in Int, NEW hi \in Int, NEW x \in Int, NEW a \in Int, NEW b \in Int,
         lo < x, x < hi, lo <= a, b <= hi, a < b, ~(b <= x - 1), ~(x + 1 <= a)
  PROVE  /\ a \in lo..hi /\ b \in lo..hi /\ x \in lo..hi
         /\ a = x \/ a \in lo..x - 1
         /\ b = x \/ b \in x + 1..hi
  OBVIOUS

LEMMA AroundPivot ==
  ASSUME NEW o, NEW lo \in Int, NEW hi \in Int, NEW x \in Int, NEW tt, lo < x, x < hi,
         \A k \in lo..hi : R(o, tt[k]) \in Int,
         \A k \in lo..x - 1 : R(o, tt[k]) <= R(o, tt[x]),
         \A k \in x + 1..hi : R(o, tt[x]) <= R(o, tt[k]),
         NEW a \in Int, NEW b \in Int, a < b, lo <= a, b <= hi, ~(b <= x - 1), ~(x + 1 <= a)
  PROVE  R(o, tt[a]) <= R(o, tt[b])
<1>1. /\ a \in lo..hi /\ b \in lo..hi /\ x \in lo..hi
      /\ a = x \/ a \in lo..x - 1
      /\ b = x \/ b \in x + 1..hi
  BY Straddles
<1>2. R(o, tt[a]) \in Int /\ R(o, tt[b]) \in Int /\ R(o, tt[x]) \in Int BY <1>1
<1>3. a = x \/ R(o, tt[a]) <= R(o, tt[x]) BY <1>1
<1>4. b = x \/ R(o, tt[x]) <= R(o, tt[b]) BY <1>1
<1> QED BY <1>2, <1>3, <1>4

LEMMA PartsSettled ==
  ASSUME NEW o, NEW lo \in Int, NEW hi \in Int, NEW x \in Int, NEW tt, lo < x, x < hi,
         NEW d, NEW z \in 1..Len(d), NEW y \in 1..Len(d),
         \/ d[z][1] = lo /\ d[z][2] = x - 1 /\ d[y][1] = x + 1 /\ d[y][2] = hi
         \/ d[y][1] = lo /\ d[y][2] = x - 1 /\ d[z][1] = x + 1 /\ d[z][2] = hi,
         \A k \in lo..hi : R(o, tt[k]) \in Int,
         \A k \in lo..x - 1 : R(o, tt[k]) <= R(o, tt[x]),
         \A k \in x + 1..hi : R(o, tt[x]) <= R(o, tt[k]),
         NEW a \in Int, NEW b \in Int, a < b, lo <= a, b <= hi, ~Together(d, a, b)
  PROVE  R(o, tt[a]) <= R(o, tt[b])
<1>1. ~(b <= x - 1) /\ ~(x + 1 <= a)
  <2>1. \A p \in 1..Len(d) : ~(d[p][1] <= a /\ b <= d[p][2]) BY DEF Together
  <2>2. ~(d[z][1] <= a /\ b <= d[z][2]) /\ ~(d[y][1] <= a /\ b <= d[y][2]) BY <2>1
  <2> QED BY <2>2
<1> QED BY <1>1, AroundPivot

LEMMA DownKnows ==
  ASSUME Inv, result = "busy", asks = "down", NEW less, Answered(less, t[u - 1], t[j])
  PROVE  /\ less \in BOOLEAN
         /\ u - l >= 3 /\ i \in l + 1..u + 1 /\ j \in l - 1..u - 2
         /\ stack = <<t[u - 1], t[i], t[j]>>
         /\ Valid => /\ i <= u - 1 /\ l <= j
                     /\ \A k \in l..u : R(order, t[k]) \in Int
                     /\ \A k \in l..i - 1 : R(order, t[k]) <= R(order, t[u - 1])
                     /\ \A k \in j + 1..u : R(order, t[u - 1]) <= R(order, t[k])
                     /\ R(order, t[u - 1]) <= R(order, t[i])
                     /\ less <=> R(order, t[u - 1]) < R(order, t[j])
<1>1. /\ Waits(t, l, u, i, j, stack, asks)
      /\ Valid => Pivot(order, t, l, u, i, j, asks)
  BY Turn
<1>2. l \in Int /\ u \in Int /\ 1 <= l /\ u <= n /\ n \in Nat BY Turn
<1>3. u - l >= 3 /\ i \in l + 1..u + 1 /\ j \in l - 1..u - 2 /\ stack = <<t[u - 1], t[i], t[j]>>
  BY <1>1 DEF Waits
<1>4. ASSUME Valid
      PROVE  /\ i <= u - 1 /\ l <= j
             /\ \A k \in l..i - 1 : R(order, t[k]) <= R(order, t[u - 1])
             /\ \A k \in j + 1..u : R(order, t[u - 1]) <= R(order, t[k])
             /\ R(order, t[u - 1]) <= R(order, t[i])
  BY <1>1, <1>4, Zenon DEF Pivot
<1>5. ASSUME Valid PROVE \A k \in l..u : R(order, t[k]) \in Int
  <2>1. \A k \in l..u : k \in 1..n BY <1>2
  <2> QED BY <1>5, <2>1, Ranked
<1>6. Valid => (less <=> R(order, t[u - 1]) < R(order, t[j])) BY DEF Answered, Rank, R
<1>7. less \in BOOLEAN BY DEF Answered
<1> QED BY <1>3, <1>4, <1>5, <1>6, <1>7

LEMMA DownPast ==
  ASSUME Inv, result = "busy", UNCHANGED order, asks = "down", NEW less, less,
         Answered(less, t[u - 1], t[j]), Down(less)
  PROVE  Inv'
<1>1. /\ calls # <<>> /\ Nested(n, calls) /\ l = Lo(calls) /\ u = Hi(calls)
      /\ order \in Seq([1..n -> Int]) /\ Rearranged(order, n, t, calls)
      /\ Waits(t, l, u, i, j, stack, asks)
      /\ Valid => Apart(calls)
      /\ Valid <=> order # <<>>
  BY Turn
<1>2. l \in Int /\ u \in Int /\ i \in Int /\ j \in Int BY Turn
<1>3. u - l >= 3 /\ i \in l + 1..u + 1 /\ j \in l - 1..u - 2 /\ stack = <<t[u - 1], t[i], t[j]>>
  BY DownKnows
<1>4. n' = n /\ t' = t /\ calls' = calls /\ order' = order /\ i' = i /\ asks' = asks
  BY DEF Down, Invalid
<1>5. CASE j < l
  <2>1. ~Valid
    <3>1. Valid => l <= j BY DownKnows
    <3> QED BY <1>2, <1>5, <3>1
  <2>2. result' = "invalid" /\ stack' = stack /\ j' = j BY <1>5 DEF Down, Invalid
  <2>3. Sorting(order, n, t, calls, i, j, stack, asks, "invalid")
    BY <1>1, <1>2, <2>1, TurnKept
  <2> QED BY <1>4, <2>2, <2>3 DEF Inv
<1>6. CASE ~(j < l)
  <2>1. result' = "busy" /\ j' = j - 1 /\ stack' = Append(Pop(stack, 1), t[j - 1])
    BY <1>6 DEF Down
  <2>2. stack' = <<t[u - 1], t[i], t[j - 1]>>
    <3>1. Pop(stack, 1) = <<t[u - 1], t[i]>> BY <1>3, PopThree, Zenon
    <3> QED BY <2>1, <3>1, AppendOne, Zenon
  <2>3. j - 1 \in l - 1..u - 2 /\ j - 1 \in Int /\ j \in l..u BY <1>2, <1>3, <1>6
  <2>4. Waits(t, l, u, i, j - 1, stack', "down") BY <1>3, <2>2, <2>3 DEF Waits
  <2>5. ASSUME Valid PROVE Pivot(order, t, l, u, i, j - 1, "down")
    <3>1. /\ i <= u - 1 /\ l <= j
          /\ \A k \in l..u : R(order, t[k]) \in Int
          /\ \A k \in l..i - 1 : R(order, t[k]) <= R(order, t[u - 1])
          /\ \A k \in j + 1..u : R(order, t[u - 1]) <= R(order, t[k])
          /\ R(order, t[u - 1]) <= R(order, t[i])
          /\ R(order, t[u - 1]) < R(order, t[j])
      BY <2>5, DownKnows
    <3>2. j # l
      <4>1. l \in l..i - 1 /\ l \in l..u /\ u - 1 \in l..u BY <1>2, <1>3
      <4>2. /\ R(order, t[l]) \in Int /\ R(order, t[u - 1]) \in Int
            /\ R(order, t[l]) <= R(order, t[u - 1])
        BY <3>1, <4>1
      <4> QED BY <3>1, <4>2
    <3>3. l <= j - 1 BY <1>2, <1>6, <3>2
    <3>4. \A k \in (j - 1) + 1..u : k = j \/ k \in j + 1..u BY <1>2
    <3>5. R(order, t[u - 1]) <= R(order, t[j])
      <4>1. u - 1 \in l..u BY <1>2, <1>3
      <4>2. R(order, t[j]) \in Int /\ R(order, t[u - 1]) \in Int BY <2>3, <3>1, <4>1
      <4> QED BY <3>1, <4>2
    <3>6. \A k \in (j - 1) + 1..u : R(order, t[u - 1]) <= R(order, t[k]) BY <3>1, <3>4, <3>5
    <3> QED BY <3>1, <3>3, <3>6, PivotDown
  <2>6. Sorting(order, n, t, calls, i, j - 1, stack', "down", "busy")
    BY <1>1, <1>2, <2>3, <2>4, <2>5, TurnKept
  <2> QED BY <1>4, <2>1, <2>6 DEF Inv
<1> QED BY <1>5, <1>6

Spared(m, lo, x, y, k) == k \in lo..x - 1 /\ k \in 0..m + 1 /\ k # x /\ k # y

LEMMA BelowSwap ==
  ASSUME NEW lo \in Int, NEW hi \in Int, NEW m \in Nat, NEW x \in Int, NEW y \in Int,
         1 <= lo, hi <= m, lo < x, x <= y, y < hi - 1
  PROVE  \A k \in lo..x : k = x \/ Spared(m, lo, x, y, k)
  BY DEF Spared

LEMMA AboveSwap ==
  ASSUME NEW lo \in Int, NEW hi \in Int, NEW m \in Nat, NEW x \in Int, NEW y \in Int,
         1 <= lo, hi <= m, lo < x, x <= y, y < hi - 1
  PROVE  \A k \in y + 1..hi : k \in 0..m + 1 /\ k # x /\ k # y
  OBVIOUS

LEMMA DownSwap ==
  ASSUME Inv, result = "busy", UNCHANGED order, asks = "down", NEW less, ~less, j >= i,
         Answered(less, t[u - 1], t[j]), Down(less)
  PROVE  Inv'
<1> DEFINE w == Swapped(t, i, j)
<1>1. /\ calls # <<>> /\ Nested(n, calls) /\ l = Lo(calls) /\ u = Hi(calls)
      /\ order \in Seq([1..n -> Int]) /\ Rearranged(order, n, t, calls)
      /\ Valid => Apart(calls)
      /\ Valid <=> order # <<>>
  BY Turn
<1>2. /\ l \in Int /\ u \in Int /\ i \in Int /\ j \in Int /\ n \in Nat /\ 1 <= l /\ u <= n
      /\ t \in [0..n + 1 -> 0..n + 1]
  BY Turn
<1>3. u - l >= 3 /\ i \in l + 1..u + 1 /\ j \in l - 1..u - 2 /\ stack = <<t[u - 1], t[i], t[j]>>
  BY DownKnows
<1>4. /\ n' = n /\ calls' = calls /\ order' = order /\ i' = i + 1 /\ j' = j /\ asks' = "up"
      /\ result' = "busy" /\ t' = set2(stack, i, j) /\ stack' = Append(Pop(stack, 2), t'[i + 1])
  BY DEF Down
<1>5. /\ l < i /\ i <= j /\ j < u - 1 /\ i \in l..u /\ j \in l..u /\ i \in 0..n + 1
      /\ j \in 0..n + 1 /\ u - 1 \in 0..n + 1
      /\ i + 1 \in l + 1..u + 1 /\ j \in l + 1..u - 1 /\ i + 1 \in Int
  BY <1>2, <1>3
<1>6. t' = w BY <1>3, <1>4, SwapBack
<1>7. /\ w[i] = t[j] /\ w[j] = t[i] /\ w[u - 1] = t[u - 1]
      /\ \A k \in 0..n + 1 : k # i /\ k # j => w[k] = t[k]
  <2>1. /\ w[i] = t[j] /\ w[j] = t[i]
        /\ \A k \in 0..n + 1 : k # i /\ k # j => w[k] = t[k]
    <3>1. /\ n \in Nat /\ t \in [0..n + 1 -> 0..n + 1] /\ i \in 0..n + 1 /\ j \in 0..n + 1
      BY <1>2, <1>5
    <3>2. IsSwap(n, t, i, j, w) BY <3>1, SwapTwo, Zenon
    <3> HIDE DEF w
    <3> QED BY <3>2 DEF IsSwap
  <2> HIDE DEF w
  <2>2. u - 1 # i /\ u - 1 # j BY <1>2, <1>5
  <2> QED BY <1>5, <2>1, <2>2
<1>8. Rearranged(order, n, w, calls) BY <1>1, <1>5, SwapRearranges
<1> HIDE DEF w
<1>9. stack' = <<w[u - 1], w[i + 1]>>
  <2>1. Pop(stack, 2) = <<t[u - 1]>> BY <1>3, PopThree, Zenon
  <2> QED BY <1>4, <1>6, <1>7, <2>1, AppendOne, Zenon
<1>10. Waits(w, l, u, i + 1, j, stack', "up") BY <1>3, <1>5, <1>9 DEF Waits
<1>11. ASSUME Valid PROVE Pivot(order, w, l, u, i + 1, j, "up")
  <2>1. /\ \A k \in l..u : R(order, t[k]) \in Int
        /\ \A k \in l..i - 1 : R(order, t[k]) <= R(order, t[u - 1])
        /\ \A k \in j + 1..u : R(order, t[u - 1]) <= R(order, t[k])
        /\ R(order, t[u - 1]) <= R(order, t[i])
        /\ ~(R(order, t[u - 1]) < R(order, t[j]))
    BY <1>11, DownKnows
  <2>2. R(order, w[i]) <= R(order, w[u - 1])
    <3>1. u - 1 \in l..u BY <1>2, <1>3
    <3>2. R(order, t[j]) \in Int /\ R(order, t[u - 1]) \in Int BY <1>5, <2>1, <3>1
    <3>3. R(order, t[j]) <= R(order, t[u - 1]) BY <2>1, <3>2
    <3> QED BY <1>7, <3>3
  <2>3. \A k \in l..(i + 1) - 1 : k = i \/ (k \in l..i - 1 /\ k \in 0..n + 1 /\ k # i /\ k # j)
    <3>1. \A k \in l..i : k = i \/ Spared(n, l, i, j, k) BY <1>2, <1>5, BelowSwap, Zenon
    <3>2. (i + 1) - 1 = i BY <1>2
    <3> QED BY <3>1, <3>2, Zenon DEF Spared
  <2>4. \A k \in l..(i + 1) - 1 : R(order, w[k]) <= R(order, w[u - 1])
    BY <1>7, <2>1, <2>2, <2>3
  <2>5. \A k \in j + 1..u : k \in 0..n + 1 /\ k # i /\ k # j BY <1>2, <1>5, AboveSwap, Zenon
  <2>6. \A k \in j + 1..u : R(order, w[u - 1]) <= R(order, w[k]) BY <1>7, <2>1, <2>5
  <2>7. R(order, w[u - 1]) <= R(order, w[j]) BY <1>7, <2>1
  <2>8. i + 1 <= u - 1 BY <1>2, <1>5
  <2> QED BY <2>4, <2>6, <2>7, <2>8, PivotUp
<1>12. Sorting(order, n, w, calls, i + 1, j, stack', "up", "busy")
  BY <1>1, <1>2, <1>5, <1>8, <1>10, <1>11, TurnKept
<1> QED BY <1>4, <1>6, <1>12 DEF Inv

LEMMA SmallFits ==
  ASSUME NEW lo \in Int, NEW hi \in Int, NEW x \in Int, hi - lo >= 3, lo < x, x <= hi + 1
  PROVE  /\ lo <= x + 1 /\ x - 1 <= hi /\ x - 1 < x + 1
         /\ x - lo < hi - x => 2 * ((x - 1) - lo + 1) <= hi - lo + 1
         /\ ~(x - lo < hi - x) => 2 * (hi - (x + 1) + 1) <= hi - lo + 1
  OBVIOUS

(* Which half is which *)
LEMMA HalvesFit ==
  ASSUME l \in Int, u \in Int, i \in Int, u - l >= 3, l < i, i <= u + 1
  PROVE  \E a, b, e, f \in Int :
           /\ Halves.large = <<a, b>> /\ Halves.small = <<e, f>>
           /\ l <= a /\ b <= u /\ l <= e /\ f <= u
           /\ 2 * (f - e + 1) <= u - l + 1
           /\ b < e \/ f < a
           /\ \/ a = l /\ b = i - 1 /\ e = i + 1 /\ f = u
              \/ e = l /\ f = i - 1 /\ a = i + 1 /\ b = u
<1>1. /\ l <= i + 1 /\ i - 1 <= u /\ i - 1 < i + 1 /\ l <= l /\ u <= u
      /\ i - 1 \in Int /\ i + 1 \in Int
      /\ i - l < u - i => 2 * ((i - 1) - l + 1) <= u - l + 1
      /\ ~(i - l < u - i) => 2 * (u - (i + 1) + 1) <= u - l + 1
  BY SmallFits
<1>2. CASE i - l < u - i
  <2>1. Halves.large = <<i + 1, u>> /\ Halves.small = <<l, i - 1>> BY <1>2 DEF Halves
  <2> QED BY <1>1, <1>2, <2>1, Zenon
<1>3. CASE ~(i - l < u - i)
  <2>1. Halves.large = <<l, i - 1>> /\ Halves.small = <<i + 1, u>> BY <1>3 DEF Halves
  <2> QED BY <1>1, <1>3, <2>1, Zenon
<1> QED BY <1>2, <1>3

LEMMA OneLonger ==
  ASSUME NEW z \in Nat \ {0}, NEW y, y = z + 1
  PROVE  /\ z \in 1..y /\ z + 1 \in 1..y /\ z - 1 <= y
         /\ \A k \in 1..z - 1 : k \in 1..z /\ k # z
  OBVIOUS

(* The parts of a range around the place of its pivot, as two calls *)
LEMMA Split ==
  ASSUME NEW o, NEW m, NEW tt, NEW c, NEW ii \in Int, NEW jj \in Int,
         o \in Seq([1..m -> Int]), Rearranged(o, m, tt, c), o # <<>> => Apart(c),
         NEW a, NEW b, NEW e, NEW f, NEW d, Pushes(m, c, a, b, e, f, d), b < e \/ f < a,
         NEW x \in Int,
         \/ a = Lo(c) /\ b = x - 1 /\ e = x + 1 /\ f = Hi(c)
         \/ e = Lo(c) /\ f = x - 1 /\ a = x + 1 /\ b = Hi(c),
         o # <<>> => /\ Lo(c) < x /\ x < Hi(c)
                     /\ \A k \in Lo(c)..Hi(c) : R(o, tt[k]) \in Int
                     /\ \A k \in Lo(c)..x - 1 : R(o, tt[k]) <= R(o, tt[x])
                     /\ \A k \in x + 1..Hi(c) : R(o, tt[x]) <= R(o, tt[k])
  PROVE  Sorting(o, m, tt, d, ii, jj, <<>>, "none", "busy")
<1> DEFINE z == Len(c)
<1>1. Nested(m, d) /\ d # <<>> /\ (Apart(c) => Apart(d))
  <2>1. WellNested(m, c, e, f, d) BY Pushed, Zenon
  <2> QED BY <2>1 DEF WellNested
<1>2. /\ z \in Nat \ {0} /\ Lo(c) \in Int /\ Hi(c) \in Int /\ Len(d) = z + 1
  BY Top DEF Pushes
<1>3. \A k \in 1..z : k # z => d[k] = c[k] BY DEF Pushes
<1>4. d[z] = <<a, b>> /\ d[z + 1] = <<e, f>> BY DEF Pushes
<1>5. z \in 1..Len(d) /\ z + 1 \in 1..Len(d) /\ z - 1 <= Len(d) BY <1>2, OneLonger, Zenon
<1>6. \A k \in 1..z - 1 : d[k] = c[k]
  <2>1. \A k \in 1..z - 1 : k \in 1..z /\ k # z BY <1>2, OneLonger, Zenon
  <2> QED BY <1>3, <2>1
<1>7. d[z][1] = a /\ d[z][2] = b /\ d[z + 1][1] = e /\ d[z + 1][2] = f
  <2> HIDE DEF z
  <2> QED BY <1>4
<1>8. \/ d[z][1] = Lo(c) /\ d[z][2] = x - 1 /\ d[z + 1][1] = x + 1 /\ d[z + 1][2] = Hi(c)
      \/ d[z + 1][1] = Lo(c) /\ d[z + 1][2] = x - 1 /\ d[z][1] = x + 1 /\ d[z][2] = Hi(c)
  BY <1>7, Zenon
<1>9. ASSUME o # <<>>, NEW v \in 1..m, NEW w \in 1..m, v < w, Lo(c) <= v, w <= Hi(c),
             ~Together(d, v, w)
      PROVE  R(o, tt[v]) <= R(o, tt[w])
  <2>1. v \in Int /\ w \in Int OBVIOUS
  <2>2. /\ Lo(c) < x /\ x < Hi(c)
        /\ \A k \in Lo(c)..Hi(c) : R(o, tt[k]) \in Int
        /\ \A k \in Lo(c)..x - 1 : R(o, tt[k]) <= R(o, tt[x])
        /\ \A k \in x + 1..Hi(c) : R(o, tt[x]) <= R(o, tt[k])
    BY <1>9
  <2> HIDE DEF z
  <2> QED BY <1>2, <1>5, <1>8, <1>9, <2>1, <2>2, PartsSettled, Zenon
<1> QED BY <1>1, <1>2, <1>5, <1>6, <1>9, NextTurn

LEMMA BelowPivot ==
  ASSUME NEW lo \in Int, NEW hi \in Int, NEW m \in Nat, NEW x \in Int,
         1 <= lo, hi <= m, lo < x, x <= hi - 1
  PROVE  \A k \in lo..x - 1 : k \in 0..m + 1 /\ k # hi - 1 /\ k # x
  OBVIOUS

LEMMA DownSplit ==
  ASSUME Inv, result = "busy", UNCHANGED order, asks = "down", NEW less, ~less, ~(j >= i),
         Answered(less, t[u - 1], t[j]), Down(less)
  PROVE  Inv'
<1> DEFINE w == Swapped(t, u - 1, i)
<1>1. /\ calls # <<>> /\ Nested(n, calls) /\ l = Lo(calls) /\ u = Hi(calls)
      /\ order \in Seq([1..n -> Int]) /\ Rearranged(order, n, t, calls)
      /\ Valid => Apart(calls)
      /\ Valid <=> order # <<>>
  BY Turn
<1>2. /\ l \in Int /\ u \in Int /\ i \in Int /\ j \in Int /\ n \in Nat /\ 1 <= l /\ u <= n
      /\ t \in [0..n + 1 -> 0..n + 1]
  BY Turn
<1>3. u - l >= 3 /\ i \in l + 1..u + 1 /\ j \in l - 1..u - 2 /\ stack = <<t[u - 1], t[i], t[j]>>
  BY DownKnows
<1>4. /\ n' = n /\ order' = order /\ i' = i /\ j' = j /\ asks' = "none" /\ result' = "busy"
      /\ t' = [t EXCEPT ![u - 1] = t[i], ![i] = t[u - 1]] /\ stack' = Pop(stack, 3)
      /\ calls' = Append(Front(calls), Halves.large) \o <<Halves.small>>
  BY DEF Down
<1>5. t' = w BY <1>4 DEF Swapped
<1>6. stack' = <<>> BY <1>3, <1>4, PopThree, Zenon
<1>7. u - 1 \in l..u /\ u - 1 \in 0..n + 1 /\ i \in 0..n + 1 /\ l < i /\ i <= u + 1
  BY <1>2, <1>3
<1>8. ASSUME Valid PROVE i <= u - 1 /\ i \in l..u
  <2>1. i <= u - 1 BY <1>8, DownKnows
  <2> QED BY <1>2, <1>7, <2>1
<1>9. Rearranged(order, n, w, calls)
  <2>1. CASE Valid BY <1>1, <1>7, <1>8, <2>1, SwapRearranges
  <2>2. CASE ~Valid
    <3>1. Shuffled(n, w) BY <1>1, <1>7, SwapShuffles DEF Rearranged
    <3> QED BY <1>1, <2>2, <3>1 DEF Rearranged
  <2> QED BY <2>1, <2>2
<1>10. /\ w[u - 1] = t[i] /\ w[i] = t[u - 1]
       /\ \A k \in 0..n + 1 : k # u - 1 /\ k # i => w[k] = t[k]
  <2>1. n \in Nat /\ t \in [0..n + 1 -> 0..n + 1] BY <1>2
  <2>2. IsSwap(n, t, u - 1, i, w) BY <1>7, <2>1, SwapTwo, Zenon
  <2> HIDE DEF w
  <2> QED BY <2>2 DEF IsSwap
<1> HIDE DEF w
<1>11. ASSUME Valid
       PROVE  /\ l < i /\ i < u
              /\ \A k \in l..u : R(order, w[k]) \in Int
              /\ \A k \in l..i - 1 : R(order, w[k]) <= R(order, w[i])
              /\ \A k \in i + 1..u : R(order, w[i]) <= R(order, w[k])
  <2>1. /\ \A k \in l..u : R(order, t[k]) \in Int
        /\ \A k \in l..i - 1 : R(order, t[k]) <= R(order, t[u - 1])
        /\ \A k \in j + 1..u : R(order, t[u - 1]) <= R(order, t[k])
        /\ R(order, t[u - 1]) <= R(order, t[i])
    BY <1>11, DownKnows
  <2>2. \A k \in l..u : k = u - 1 \/ k = i \/ (k \in 0..n + 1 /\ k # u - 1 /\ k # i)
    BY <1>2
  <2>3. \A k \in l..u : R(order, w[k]) \in Int BY <1>7, <1>8, <1>10, <1>11, <2>1, <2>2
  <2>4. \A k \in l..i - 1 : k \in 0..n + 1 /\ k # u - 1 /\ k # i
    <3>1. i <= u - 1 BY <1>8, <1>11
    <3> QED BY <1>2, <1>7, <3>1, BelowPivot
  <2>5. \A k \in l..i - 1 : R(order, w[k]) <= R(order, w[i]) BY <1>10, <2>1, <2>4
  <2>6. \A k \in i + 1..u : k = u - 1 \/ (k \in j + 1..u /\ k \in 0..n + 1 /\ k # u - 1 /\ k # i)
    BY <1>2, <1>7
  <2>7. \A k \in i + 1..u : R(order, w[i]) <= R(order, w[k]) BY <1>10, <2>1, <2>6
  <2>8. l < i /\ i < u BY <1>2, <1>7, <1>8, <1>11
  <2> QED BY <2>3, <2>5, <2>7, <2>8
<1>12. PICK a, b, e, f \in Int :
           /\ Halves.large = <<a, b>> /\ Halves.small = <<e, f>>
           /\ l <= a /\ b <= u /\ l <= e /\ f <= u
           /\ 2 * (f - e + 1) <= u - l + 1
           /\ b < e \/ f < a
           /\ \/ a = l /\ b = i - 1 /\ e = i + 1 /\ f = u
              \/ e = l /\ f = i - 1 /\ a = i + 1 /\ b = u
  BY <1>2, <1>3, <1>7, HalvesFit
<1>13. Pushes(n, calls, a, b, e, f, calls')
  <2>1. calls \in Seq(Part) /\ <<a, b>> \in Part /\ <<e, f>> \in Part BY <1>1, Parts DEF Nested
  <2>2. calls' = Append(Front(calls), <<a, b>>) \o <<<<e, f>>>> BY <1>4, <1>12
  <2>3. /\ calls' \in Seq(Part) /\ Len(calls') = Len(calls) + 1
        /\ calls'[Len(calls)] = <<a, b>> /\ calls'[Len(calls) + 1] = <<e, f>>
        /\ \A k \in 1..Len(calls) : k # Len(calls) => calls'[k] = calls[k]
    <3> DEFINE d == calls'
               x == <<a, b>>
               y == <<e, f>>
    <3>1. x \in Part /\ y \in Part /\ calls \in Seq(Part) BY <2>1
    <3>2. d = Grown(calls, x, y) BY <2>2 DEF Grown
    <3>3. calls # <<>> BY <1>1
    <3> HIDE DEF d, x, y
    <3>4. Grows(calls, x, y, d) BY <3>1, <3>2, <3>3, Extended, Zenon
    <3> QED BY <3>4 DEF Grows, d, x, y
  <2> QED BY <1>1, <1>2, <1>3, <1>12, <2>3, Zenon DEF Pushes
<1>14. Sorting(order, n, w, calls', i, j, <<>>, "none", "busy")
  BY <1>1, <1>2, <1>9, <1>11, <1>12, <1>13, Split
<1> QED BY <1>4, <1>5, <1>6, <1>14 DEF Inv

LEMMA StepDown ==
  ASSUME Inv, result = "busy", UNCHANGED order, NEW less, Down(less),
         Answered(less, t[u - 1], t[j])
  PROVE  Inv'
<1>1. asks = "down" BY DEF Down
<1>2. less \in BOOLEAN BY DEF Answered
<1>3. CASE less BY <1>1, <1>3, DownPast
<1>4. CASE ~less /\ j >= i BY <1>1, <1>4, DownSwap
<1>5. CASE ~less /\ ~(j >= i) BY <1>1, <1>5, DownSplit
<1> QED BY <1>2, <1>3, <1>4, <1>5

------------------------------------------------------------------------------
(* The invariant is one, and it says that the call is sound. *)
LEMMA OneCall ==
  ASSUME NEW m \in Nat, NEW c, c = <<<<1, m>>>>
  PROVE  /\ c # <<>> /\ Len(c) = 1 /\ c[1][1] = 1 /\ c[1][2] = m
         /\ c \in Seq(Part)
<1>1. <<1, m>> \in Part BY DEF Part
<1> DEFINE x == <<1, m>>
<1>2. x[1] = 1 /\ x[2] = m OBVIOUS
<1>3. x \in Part /\ c = <<x>> BY <1>1
<1> HIDE DEF x
<1>4. c # <<>> /\ Len(c) = 1 /\ c[1] = x /\ c \in Seq(Part) BY <1>3
<1> QED BY <1>2, <1>4

LEMMA Begins ==
  ASSUME NEW o, NEW m \in Nat, NEW c, c = <<<<1, m>>>>, o \in Seq([1..m -> Int]),
         NEW tt, tt = [k \in 0..m + 1 |-> k]
  PROVE  Sorting(o, m, tt, c, 0, 0, <<>>, "none", "busy")
<1>1. /\ c # <<>> /\ Len(c) = 1 /\ c[1][1] = 1 /\ c[1][2] = m
      /\ c \in Seq(Part)
  BY OneCall
<1>2. tt \in [0..m + 1 -> 0..m + 1] /\ \A k \in 0..m + 1 : tt[k] = k OBVIOUS
<1>3. Shuffled(m, tt) BY <1>2 DEF Shuffled
<1>4. Nested(m, c)
  <2> SUFFICES ASSUME NEW k \in 1..Len(c)
               PROVE  /\ 1 <= c[k][1] /\ c[k][2] <= m
                      /\ (c[k][2] - c[k][1] + 1) * 2 ^ (k - 1) <= m
                      /\ k > 1 => 2 ^ (k - 1) <= m
    BY <1>1 DEF Nested
  <2>1. k = 1 BY <1>1
  <2>2. k - 1 = 0 /\ ~(k > 1) BY <2>1
  <2>3. 2 ^ (k - 1) = 1 BY <2>2, Doubles, Zenon
  <2>4. c[k][1] = 1 /\ c[k][2] = m BY <1>1, <2>1
  <2>5. (m - 1 + 1) * 1 <= m OBVIOUS
  <2> QED BY <2>2, <2>3, <2>4, <2>5
<1>5. Inside(m, tt)
  <2>1. 0 \in 0..m + 1 /\ m + 1 \in 0..m + 1 /\ \A k \in 1..m : k \in 0..m + 1 OBVIOUS
  <2> QED BY <1>2, <2>1 DEF Inside
<1>6. Apart(c) BY <1>1 DEF Apart
<1>7. Settled(o, m, tt, c)
  <2> SUFFICES ASSUME NEW a \in 1..m, NEW b \in 1..m PROVE Together(c, a, b)
    BY DEF Settled
  <2>1. 1 \in 1..Len(c) /\ 1 <= a /\ b <= m BY <1>1
  <2> QED BY <1>1, <2>1 DEF Together
<1>8. Rearranged(o, m, tt, c) BY <1>3, <1>5, <1>7 DEF Rearranged
<1>9. Waits(tt, Lo(c), Hi(c), 0, 0, <<>>, "none") BY DEF Waits
<1>10. Pivot(o, tt, Lo(c), Hi(c), 0, 0, "none") BY DEF Pivot
<1>11. 0 \in Int /\ "busy" # "invalid" OBVIOUS
<1>12. /\ "none" \in {"none", "ends", "low", "high", "up", "down"}
       /\ "busy" \in {"busy", "invalid", "failed"}
  OBVIOUS
<1> QED BY <1>1, <1>4, <1>6, <1>8, <1>9, <1>10, <1>11, <1>12, TurnKept, Zenon

(* The invariant holds when the call begins and is kept by every step of it. *)
THEOREM Invariance == SortSpec => []Inv
<1>1. sort => Inv
  <2> SUFFICES ASSUME sort PROVE Inv OBVIOUS
  <2>1. n \in Nat /\ order \in Seq([1..n -> Int]) BY SortAssumption DEF sort
  <2> QED BY <2>1, Begins DEF sort, Inv
<1>2. Inv /\ [SortNext]_sortvars => Inv'
  <2> SUFFICES ASSUME Inv, [SortNext]_sortvars PROVE Inv' OBVIOUS
  <2>1. CASE UNCHANGED sortvars
    <3>1. /\ order' = order /\ n' = n /\ t' = t /\ stack' = stack /\ calls' = calls
          /\ i' = i /\ j' = j /\ asks' = asks /\ result' = result
      BY <2>1 DEF sortvars
    <3> QED BY <3>1 DEF Inv
  <2>2. CASE SortNext
    <3>1. result = "busy" /\ UNCHANGED order BY <2>2 DEF SortNext
    <3>2. CASE Return BY <3>1, <3>2, StepReturn
    <3>3. CASE Begin BY <3>1, <3>3, StepBegin
    <3>4. CASE Fail BY <3>1, <3>4, StepFail
    <3>5. CASE asks # "none" /\ \E less \in Less(Asked[1], Asked[2]) : Answer(less)
      <4>1. PICK less \in Less(Asked[1], Asked[2]) : Answer(less) BY <3>5
      <4>2. calls # <<>> BY <3>1, Turn
      <4>3. Answered(less, Asked[1], Asked[2]) BY LessIs
      <4>4. CASE TwoEnds(less)
        <5>1. Asked = <<t[u], t[l]>> BY <4>2, <4>4, AskedIs DEF TwoEnds
        <5>2. Answered(less, t[u], t[l]) BY <4>3, <5>1
        <5> QED BY <3>1, <4>4, <5>2, StepTwoEnds
      <4>5. CASE Low(less)
        <5>1. Asked = <<t[i], t[l]>> BY <4>2, <4>5, AskedIs DEF Low
        <5>2. Answered(less, t[i], t[l]) BY <4>3, <5>1
        <5> QED BY <3>1, <4>5, <5>2, StepLow
      <4>6. CASE High(less)
        <5>1. Asked = <<t[u], t[i]>> BY <4>2, <4>6, AskedIs DEF High
        <5>2. Answered(less, t[u], t[i]) BY <4>3, <5>1
        <5> QED BY <3>1, <4>6, <5>2, StepHigh
      <4>7. CASE Up(less)
        <5>1. Asked = <<t[i], t[u - 1]>> BY <4>2, <4>7, AskedIs DEF Up
        <5>2. Answered(less, t[i], t[u - 1]) BY <4>3, <5>1
        <5> QED BY <3>1, <4>7, <5>2, StepUp
      <4>8. CASE Down(less)
        <5>1. Asked = <<t[u - 1], t[j]>> BY <4>2, <4>8, AskedIs DEF Down
        <5>2. Answered(less, t[u - 1], t[j]) BY <4>3, <5>1
        <5> QED BY <3>1, <4>8, <5>2, StepDown
      <4> QED BY <4>1, <4>4, <4>5, <4>6, <4>7, <4>8 DEF Answer
    <3> QED BY <2>2, <3>2, <3>3, <3>4, <3>5 DEF SortNext
  <2> QED BY <2>1, <2>2
<1> QED BY <1>1, <1>2, PTL DEF SortSpec

(* The places that a question is about *)
LEMMA AskedPlaces ==
  ASSUME Inv, Valid, asks # "none"
  PROVE  ToSet(Asked) \subseteq 1..n
<1>1. /\ calls # <<>> /\ Nested(n, calls) /\ Inside(n, t) /\ n \in Nat
      /\ asks \in {"none", "ends", "low", "high", "up", "down"} /\ i \in Int /\ j \in Int
  BY DEF Inv, Sorting, Valid, Shuffled
<1>2. l = Lo(calls) /\ u = Hi(calls) BY <1>1, AskedIs
<1>3. l \in Int /\ u \in Int /\ 1 <= l /\ u <= n BY <1>1, <1>2, Top
<1>4. Waits(t, l, u, i, j, stack, asks) /\ Pivot(order, t, l, u, i, j, asks)
  BY <1>2 DEF Inv, Sorting, Valid
<1>5. \E x, y \in 1..n : Asked = <<t[x], t[y]>>
  <2>1. CASE asks = "ends"
    <3>1. l < u BY <1>4, <2>1 DEF Waits
    <3>2. l \in 1..n /\ u \in 1..n BY <1>1, <1>3, <3>1
    <3> QED BY <1>1, <2>1, <3>2, AskedIs, Zenon
  <2>2. CASE asks = "low"
    <3>1. l < i /\ i < u BY <1>4, <2>2 DEF Waits
    <3>2. l \in 1..n /\ i \in 1..n BY <1>1, <1>3, <3>1
    <3> QED BY <1>1, <2>2, <3>2, AskedIs, Zenon
  <2>3. CASE asks = "high"
    <3>1. l < i /\ i < u BY <1>4, <2>3 DEF Waits
    <3>2. u \in 1..n /\ i \in 1..n BY <1>1, <1>3, <3>1
    <3> QED BY <1>1, <2>3, <3>2, AskedIs, Zenon
  <2>4. CASE asks = "up"
    <3>1. u - l >= 3 /\ i \in l + 1..u + 1 BY <1>4, <2>4 DEF Waits
    <3>2. i <= u - 1 BY <1>4, <2>4 DEF Pivot
    <3>3. u - 1 \in 1..n /\ i \in 1..n BY <1>1, <1>3, <3>1, <3>2
    <3> QED BY <1>1, <2>4, <3>3, AskedIs, Zenon
  <2>5. CASE asks = "down"
    <3>1. u - l >= 3 /\ j \in l - 1..u - 2 BY <1>4, <2>5 DEF Waits
    <3>2. l <= j BY <1>4, <2>5 DEF Pivot
    <3>3. u - 1 \in 1..n /\ j \in 1..n BY <1>1, <1>3, <3>1, <3>2
    <3> QED BY <1>1, <2>5, <3>3, AskedIs, Zenon
  <2> QED BY <1>1, <2>1, <2>2, <2>3, <2>4, <2>5
<1>6. PICK x, y \in 1..n : Asked = <<t[x], t[y]>> BY <1>5
<1>7. t[x] \in 1..n /\ t[y] \in 1..n BY <1>1 DEF Inside
<1>8. ToSet(<<t[x], t[y]>>) \subseteq 1..n BY <1>7 DEF ToSet
<1> QED BY <1>6, <1>8

LEMMA InvSound == Inv => SortSound
<1> SUFFICES ASSUME Inv PROVE SortSound OBVIOUS
<1>1. /\ Shuffled(n, t) /\ Nested(n, calls)
      /\ asks \in {"none", "ends", "low", "high", "up", "down"}
      /\ Waits(t, Lo(calls), Hi(calls), i, j, stack, asks)
      /\ result = "sorted" => calls = <<>>
  BY DEF Inv, Sorting
<1>2. n \in Nat /\ t \in [0..n + 1 -> 0..n + 1] BY <1>1 DEF Shuffled
<1>3. {t[k] : k \in 0..n + 1} = 0..n + 1
  <2>1. \A k \in 0..n + 1 : t[k] \in 0..n + 1 BY <1>2
  <2>2. \A v \in 0..n + 1 : \E k \in 0..n + 1 : t[k] = v BY <1>1 DEF Shuffled
  <2> QED BY <2>1, <2>2
<1>4. Len(calls) > 1 => 2 ^ (Len(calls) - 1) <= n
  <2> SUFFICES ASSUME Len(calls) > 1 PROVE 2 ^ (Len(calls) - 1) <= n OBVIOUS
  <2>1. calls \in Seq(Part) BY <1>1 DEF Nested
  <2>2. Len(calls) \in 1..Len(calls) BY <2>1
  <2> QED BY <1>1, <2>2 DEF Nested
<1>5. Len(stack) <= 3
  <2>1. \/ stack = <<>>
        \/ \E x, y : stack = <<x, y>>
        \/ \E x, y, z : stack = <<x, y, z>>
    BY <1>1, Zenon DEF Waits
  <2>2. CASE stack = <<>> BY <2>2
  <2>3. CASE \E x, y : stack = <<x, y>> BY <2>3
  <2>4. CASE \E x, y, z : stack = <<x, y, z>> BY <2>4
  <2> QED BY <2>1, <2>2, <2>3, <2>4
<1>6. ASSUME Valid PROVE t[0] = 0 /\ t[n + 1] = n + 1 /\ result # "invalid"
  BY <1>6 DEF Inv, Sorting, Valid, Inside
<1>7. ASSUME Valid, result = "sorted", NEW k \in 1..n - 1
      PROVE  Rank(t[k]) <= Rank(t[k + 1])
  <2>1. Settled(order, n, t, calls) BY <1>7 DEF Inv, Sorting, Valid
  <2>2. calls = <<>> BY <1>1, <1>7
  <2>3. ~Together(calls, k, k + 1) BY <2>2 DEF Together
  <2>4. k \in 1..n /\ k + 1 \in 1..n /\ k < k + 1 BY <1>2
  <2> QED BY <2>1, <2>3, <2>4 DEF Settled, R, Rank
<1> QED BY <1>3, <1>4, <1>5, <1>6, <1>7, AskedPlaces DEF SortSound

(* table.sort keeps the values it sorts and the two places next to them, nests no
   deeper than the logarithm of the length, and under an order asks about no other
   places and leaves the values sorted: SortSound, for every table. *)
THEOREM SortsSoundly == SortSpec => []SortSound
<1>1. SortSpec => []Inv BY Invariance
<1> QED BY <1>1, InvSound, PTL

==============================================================================
