---------------------------- MODULE InputsProofs ----------------------------
(***************************************************************************)
(* How the numbers of Inputs are read, for any base, any digits and any    *)
(* widths: a number is its digits by their places, or it is refused.       *)
(*                                                                         *)
(* The argument: what a reader leaves after each digit is the value of     *)
(* what it has read.  A recursive function is one of loops (Loops), whose  *)
(* every step can be shown to keep such a fact.                            *)
(***************************************************************************)
EXTENDS Requests, FiniteSetTheorems, SequenceTheorems, WellFoundedInduction, TLAPS

-----------------------------------------------------------------------------
(***************************************************************************)
(* Loops and orders.                                                       *)
(***************************************************************************)

(* A set of numbers that is not empty has a first one.                     *)
LEMMA FirstOf ==
  ASSUME NEW T, T \subseteq Nat, T # {}
  PROVE  \E n \in T : \A m \in T : n <= m
<1>1. PICK n \in T : \A m \in T : ~(<<m, n>> \in OpToRel(<, Nat))
  BY WFMin, NatLessThanWellFounded
<1>2. \A m \in T : ~(m < n)
  BY <1>1 DEF OpToRel
<1> QED
  BY <1>2

(* A loop: what each of its n steps makes of what the one before left.     *)
Loops(f, n, start, step) ==
  /\ f[0] = start
  /\ \A m \in 1..n : f[m] = step[m][f[m - 1]]
  /\ f = [m \in 0..n |-> IF m = 0 THEN start ELSE step[m][f[m - 1]]]

(* A loop can be run for any number of steps.                              *)
LEMMA LoopRuns ==
  ASSUME NEW n \in Nat, NEW S, NEW start \in S, NEW step \in [1..n -> [S -> S]]
  PROVE  \E f \in [0..n -> S] : Loops(f, n, start, step)
<1> DEFINE Runs(m, f) == f[0] = start /\ \A k \in 1..m : f[k] = step[k][f[k - 1]]
           T == {m \in Nat : m <= n /\ ~\E f \in [0..m -> S] : Runs(m, f)}
<1>1. SUFFICES ASSUME T = {}
               PROVE  \E f \in [0..n -> S] : Loops(f, n, start, step)
  <2> SUFFICES ASSUME T # {}
               PROVE  FALSE
    OBVIOUS
  <2>1. PICK m \in T : \A k \in T : m <= k
    <3> HIDE DEF T
    <3>1. T \subseteq Nat
      BY DEF T
    <3> QED
      BY <3>1, FirstOf
  <2>2. m # 0
    <3> DEFINE f == [k \in 0..0 |-> start]
    <3>1. f \in [0..0 -> S] /\ f[0] = start
      OBVIOUS
    <3> HIDE DEF f
    <3>2. Runs(0, f)
      BY <3>1
    <3> QED
      BY <2>1, <3>1, <3>2, ZenonT(60)
  <2>3. m - 1 \in Nat /\ m \in 1..n /\ m - 1 <= n /\ m - 1 \notin T
    <3>1. m \in Nat /\ m <= n
      OBVIOUS
    <3>2. m - 1 \in Nat /\ m \in 1..n /\ m - 1 <= n
      BY <2>2, <3>1
    <3>3. ~(m <= m - 1)
      BY <3>1
    <3> HIDE DEF T
    <3> QED
      BY <2>1, <3>2, <3>3
  <2>4. PICK g \in [0..(m - 1) -> S] : Runs(m - 1, g)
    BY <2>3
  <2> DEFINE f == [k \in 0..m |-> IF k = m THEN step[m][g[m - 1]] ELSE g[k]]
  <2>5. /\ f[m] = step[m][g[m - 1]]
        /\ \A k \in 0..(m - 1) : f[k] = g[k]
    BY <2>3
  <2>6. f \in [0..m -> S]
    <3>1. step[m][g[m - 1]] \in S
      BY <2>3, <2>4
    <3>2. \A k \in 0..m : k # m => k \in 0..(m - 1)
      BY <2>3
    <3> QED
      BY <3>1, <3>2, <2>4
  <2> HIDE DEF f
  <2>7. f[0] = start
    BY <2>3, <2>4, <2>5
  <2>8. ASSUME NEW k \in 1..m
        PROVE  f[k] = step[k][f[k - 1]]
    <3>1. k - 1 \in 0..(m - 1)
      BY <2>3
    <3>2. f[k - 1] = g[k - 1]
      BY <2>5, <3>1
    <3>3. CASE k = m
      BY <2>5, <3>2, <3>3
    <3>4. CASE k # m
      <4>1. k \in 1..(m - 1) /\ k \in 0..(m - 1)
        BY <2>3, <3>4
      <4> QED
        BY <2>4, <2>5, <3>2, <4>1
    <3> QED
      BY <3>3, <3>4
  <2>9. Runs(m, f)
    BY <2>7, <2>8
  <2> QED
    BY <2>1, <2>6, <2>9
<1>2. PICK f \in [0..n -> S] : Runs(n, f)
  BY <1>1, SMTT(60)
<1>3. f = [m \in 0..n |-> IF m = 0 THEN start ELSE step[m][f[m - 1]]]
  <2>1. \A m \in 0..n : f[m] = IF m = 0 THEN start ELSE step[m][f[m - 1]]
    <3> TAKE m \in 0..n
    <3>1. m # 0 => m \in 1..n
      OBVIOUS
    <3> QED
      BY <1>2, <3>1
  <2> QED
    BY <2>1
<1> QED
  BY <1>2, <1>3 DEF Loops

(* What satisfies the rule of a loop is a run of it.                       *)
LEMMA LoopIs ==
  ASSUME NEW n \in Nat, NEW start, NEW step, NEW f,
         f = [m \in 0..n |-> IF m = 0 THEN start ELSE step[m][f[m - 1]]]
  PROVE  Loops(f, n, start, step)
<1>1. \A m \in 0..n : f[m] = IF m = 0 THEN start ELSE step[m][f[m - 1]]
  OBVIOUS
<1>2. 0 \in 0..n /\ \A m \in 1..n : m \in 0..n /\ m # 0
  OBVIOUS
<1> QED
  BY <1>1, <1>2 DEF Loops

(* A relation that puts the elements of a set one after the other.         *)
Orders(R, S) ==
  /\ \A x \in S : <<x, x>> \notin R
  /\ \A x, y \in S : x # y => <<x, y>> \in R \/ <<y, x>> \in R
  /\ \A x, y, z \in S : <<x, y>> \in R /\ <<y, z>> \in R => <<x, z>> \in R

(* The elements that come before x.                                        *)
Below(R, S, x) == {y \in S : <<y, x>> \in R}

(* A sequence of the set in that order.                                    *)
Lines(f, R, S) ==
  /\ f \in [1..Cardinality(S) -> S]
  /\ \A k \in 1..Cardinality(S) : Cardinality(Below(R, S, f[k])) = k - 1
  /\ \A x \in S : /\ Cardinality(Below(R, S, x)) + 1 \in 1..Cardinality(S)
                  /\ f[Cardinality(Below(R, S, x)) + 1] = x
  /\ \A i, j \in 1..Cardinality(S) : i < j <=> <<f[i], f[j]>> \in R

(* More come before what comes later.                                      *)
LEMMA BelowGrows ==
  ASSUME NEW S, IsFiniteSet(S), NEW R, Orders(R, S), NEW x \in S, NEW y \in S,
         <<x, y>> \in R
  PROVE  Cardinality(Below(R, S, x)) < Cardinality(Below(R, S, y))
<1>1. Below(R, S, y) \in SUBSET S /\ Below(R, S, x) \in SUBSET S
  BY DEF Below
<1>2. /\ IsFiniteSet(Below(R, S, y)) /\ IsFiniteSet(Below(R, S, x))
      /\ Cardinality(Below(R, S, y)) \in Nat /\ Cardinality(Below(R, S, x)) \in Nat
  BY <1>1, FS_Subset, FS_CardinalityType
<1>3. Below(R, S, x) \cup {x} \in SUBSET Below(R, S, y) /\ x \notin Below(R, S, x)
  BY DEF Below, Orders
<1>4. Cardinality(Below(R, S, x) \cup {x}) = Cardinality(Below(R, S, x)) + 1
  BY <1>2, <1>3, FS_AddElement
<1>5. Cardinality(Below(R, S, x) \cup {x}) <= Cardinality(Below(R, S, y))
  BY <1>2, <1>3, FS_Subset
<1> QED
  BY <1>2, <1>4, <1>5

(* A finite set can be put in order, by how many come before each.         *)
LEMMA OrderExists ==
  ASSUME NEW S, IsFiniteSet(S), NEW R, Orders(R, S)
  PROVE  \E f : Lines(f, R, S)
<1>1. PICK n \in Nat : n = Cardinality(S)
  BY FS_CardinalityType
<1> DEFINE Rank(x) == Cardinality(Below(R, S, x))
           g == [x \in S |-> Rank(x) + 1]
<1>2. ASSUME NEW x \in S
      PROVE  Rank(x) \in Nat /\ Rank(x) + 1 \in 1..n
  <2>1. /\ Below(R, S, x) \in SUBSET (S \ {x})
        /\ IsFiniteSet(S \ {x}) /\ Cardinality(S \ {x}) = n - 1
    BY <1>1, FS_RemoveElement DEF Below, Orders
  <2>2. IsFiniteSet(Below(R, S, x)) /\ Rank(x) <= n - 1
    BY <2>1, FS_Subset
  <2>3. Rank(x) \in Nat
    BY <2>2, FS_CardinalityType
  <2> QED
    BY <1>1, <2>2, <2>3
<1>3. ASSUME NEW x \in S, NEW y \in S
      PROVE  <<x, y>> \in R <=> Rank(x) < Rank(y)
  <2>1. <<x, y>> \in R => Rank(x) < Rank(y)
    BY BelowGrows
  <2>2. <<y, x>> \in R => Rank(y) < Rank(x)
    BY BelowGrows
  <2>3. Rank(x) \in Nat /\ Rank(y) \in Nat
    BY <1>2
  <2>4. x = y \/ <<x, y>> \in R \/ <<y, x>> \in R
    BY DEF Orders
  <2> QED
    BY <2>1, <2>2, <2>3, <2>4
<1>4. ASSUME NEW x \in S, NEW y \in S, Rank(x) = Rank(y)
      PROVE  x = y
  <2>1. Rank(x) \in Nat /\ Rank(y) \in Nat
    BY <1>2
  <2>2. ~(<<x, y>> \in R) /\ ~(<<y, x>> \in R)
    BY <1>3, <1>4, <2>1
  <2> QED
    BY <2>2 DEF Orders
<1>5. g \in Injection(S, 1..n)
  <2>1. g \in [S -> 1..n]
    BY <1>2
  <2>2. \A x, y \in S : g[x] = g[y] => x = y
    <3> TAKE x, y \in S
    <3>1. Rank(x) \in Nat /\ Rank(y) \in Nat
      BY <1>2
    <3>2. g[x] = Rank(x) + 1 /\ g[y] = Rank(y) + 1
      OBVIOUS
    <3>3. g[x] = g[y] => Rank(x) = Rank(y)
      BY <3>1, <3>2
    <3> QED
      BY <1>4, <3>3
  <2> HIDE DEF g
  <2> QED
    BY <2>1, <2>2 DEF Injection, IsInjective
<1>6. IsFiniteSet(1..n) /\ Cardinality(1..n) = n
  <2>1. 0 \in Int /\ 1 \in Int /\ n \in Int
    OBVIOUS
  <2>2. IsFiniteSet(1..n) /\ Cardinality(1..n) = IF 1 > n THEN 0 ELSE n - 1 + 1
    BY <2>1, FS_Interval
  <2>3. 1 > n => n = 0
    OBVIOUS
  <2> QED
    BY <2>2, <2>3
<1>7. g \in Surjection(S, 1..n)
  <2> HIDE DEF g
  <2> QED
    BY <1>1, <1>5, <1>6, FS_Injection
<1>8. \A k \in 1..n : \E x \in S : Rank(x) + 1 = k
  BY <1>7 DEF Surjection
<1> DEFINE f == [k \in 1..n |-> CHOOSE x \in S : Rank(x) + 1 = k]
<1>9. \A k \in 1..n : f[k] \in S /\ Rank(f[k]) + 1 = k
  <2> HIDE DEF Rank
  <2> QED
    BY <1>8
<1>10. f \in [1..n -> S]
  BY <1>9
<1> HIDE DEF f, g
<1>11. ASSUME NEW k \in 1..n
       PROVE  Rank(f[k]) = k - 1
  <2>1. f[k] \in S /\ Rank(f[k]) \in Nat
    BY <1>2, <1>9
  <2> HIDE DEF Rank
  <2> QED
    BY <1>9, <2>1
<1>12. ASSUME NEW x \in S
       PROVE  f[Rank(x) + 1] = x
  <2>1. Rank(x) + 1 \in 1..n /\ Rank(x) \in Nat
    BY <1>2
  <2>2. f[Rank(x) + 1] \in S /\ Rank(f[Rank(x) + 1]) = (Rank(x) + 1) - 1
    BY <1>9, <1>11, <2>1
  <2>3. Rank(f[Rank(x) + 1]) = Rank(x)
    BY <2>1, <2>2
  <2> QED
    BY <1>4, <2>2, <2>3
<1>13. ASSUME NEW i \in 1..n, NEW j \in 1..n
       PROVE  i < j <=> <<f[i], f[j]>> \in R
  <2>1. f[i] \in S /\ f[j] \in S /\ Rank(f[i]) = i - 1 /\ Rank(f[j]) = j - 1
    BY <1>9, <1>11
  <2>2. i < j <=> i - 1 < j - 1
    BY <1>1
  <2>3. <<f[i], f[j]>> \in R <=> i - 1 < j - 1
    BY <1>3, <2>1
  <2> QED
    BY <2>2, <2>3
<1>14. Lines(f, R, S)
  BY <1>1, <1>2, <1>10, <1>11, <1>12, <1>13 DEF Lines
<1> QED
  BY <1>14

(* What Ordered makes of a set and the ranks of its elements.              *)
ByRank(ranks, S) == [n \in 1..Cardinality(S) |-> (CHOOSE rank \in ranks : rank[1] = n - 1)[2]]

(* Ordered puts a set in the order it is given.                            *)
LEMMA OrderedIs ==
  ASSUME NEW S, IsFiniteSet(S), NEW R, Orders(R, S),
         NEW ranks, ranks = {<<Cardinality(Below(R, S, x)), x>> : x \in S}
  PROVE  Lines(ByRank(ranks, S), R, S)
<1>1. PICK n \in Nat : n = Cardinality(S)
  BY FS_CardinalityType
<1>2. PICK f : Lines(f, R, S)
  BY OrderExists
<1> DEFINE Rank(x) == Cardinality(Below(R, S, x))
<1>3. ASSUME NEW k \in 1..n
      PROVE  (CHOOSE rank \in ranks : rank[1] = k - 1)[2] = f[k]
  <2>1. f[k] \in S /\ Rank(f[k]) = k - 1
    BY <1>1, <1>2 DEF Lines
  <2>2. <<k - 1, f[k]>> \in ranks
    BY <2>1
  <2>3. ASSUME NEW rank \in ranks, rank[1] = k - 1
        PROVE  rank[2] = f[k]
    <3>1. PICK x \in S : rank = <<Rank(x), x>>
      OBVIOUS
    <3>2. rank[1] = Rank(x) /\ rank[2] = x
      BY <3>1
    <3>3. f[Rank(x) + 1] = x
      BY <1>2 DEF Lines
    <3>4. (k - 1) + 1 = k
      OBVIOUS
    <3> QED
      BY <2>3, <3>2, <3>3, <3>4
  <2>4. PICK r : r = CHOOSE rank \in ranks : rank[1] = k - 1
    OBVIOUS
  <2>5. <<k - 1, f[k]>>[1] = k - 1
    OBVIOUS
  <2>6. r \in ranks /\ r[1] = k - 1
    BY <2>2, <2>4, <2>5, Zenon
  <2> QED
    BY <2>3, <2>4, <2>6
<1>4. f = [k \in 1..n |-> f[k]]
  BY <1>1, <1>2 DEF Lines
<1>5. [k \in 1..n |-> (CHOOSE rank \in ranks : rank[1] = k - 1)[2]] = f
  BY <1>3, <1>4
<1> QED
  BY <1>1, <1>2, <1>5 DEF ByRank

(* Two loops with the same steps do the same, as far as both go.           *)
LEMMA LoopsAgree ==
  ASSUME NEW n \in Nat, NEW m \in Nat, NEW start, NEW s, NEW t, NEW f, NEW g,
         Loops(f, n, start, s), Loops(g, m, start, t),
         NEW k \in Nat, k <= n, k <= m, \A i \in 1..k : s[i] = t[i]
  PROVE  f[k] = g[k]
<1> DEFINE T == {i \in 0..k : f[i] # g[i]}
<1>1. SUFFICES ASSUME T # {}
               PROVE  FALSE
  OBVIOUS
<1>2. PICK i \in T : \A j \in T : i <= j
  <2>1. T \subseteq Nat
    OBVIOUS
  <2> HIDE DEF T
  <2> QED
    BY <1>1, <2>1, FirstOf
<1>3. i \in 0..k /\ f[i] # g[i]
  BY <1>2
<1>4. i # 0
  BY <1>3 DEF Loops
<1>5. /\ i \in 1..k /\ i \in 1..n /\ i \in 1..m
      /\ i - 1 \in 0..k /\ ~(i <= i - 1)
  BY <1>3, <1>4
<1>6. f[i - 1] = g[i - 1]
  BY <1>2, <1>5, SMTT(60)
<1>7. f[i] = s[i][f[i - 1]] /\ g[i] = t[i][g[i - 1]]
  BY <1>5 DEF Loops
<1> QED
  BY <1>3, <1>5, <1>6, <1>7

(* What goes through a loop's steps as long as they apply is a run of it.  *)
LEMMA LoopOnly ==
  ASSUME NEW n \in Nat, NEW S, NEW start \in S, NEW step \in [1..n -> [S -> S]], NEW g,
         g = [m \in 0..n |-> g[m]], g[0] = start,
         \A m \in 1..n : g[m - 1] \in S => g[m] = step[m][g[m - 1]]
  PROVE  g \in [0..n -> S] /\ Loops(g, n, start, step)
<1> DEFINE T == {i \in 0..n : g[i] \notin S}
<1>1. SUFFICES ASSUME T = {}
               PROVE  g \in [0..n -> S] /\ Loops(g, n, start, step)
  <2> SUFFICES ASSUME T # {}
               PROVE  FALSE
    OBVIOUS
  <2>1. PICK i \in T : \A j \in T : i <= j
    <3>1. T \subseteq Nat
      OBVIOUS
    <3> HIDE DEF T
    <3> QED
      BY <3>1, FirstOf
  <2>2. i \in 0..n /\ g[i] \notin S
    BY <2>1
  <2>3. /\ i \in 1..n /\ i - 1 \in 0..n /\ ~(i <= i - 1)
    BY <2>2
  <2>4. g[i - 1] \in S /\ step[i] \in [S -> S]
    BY <2>1, <2>3
  <2>5. g[i] = step[i][g[i - 1]]
    BY <2>3, <2>4
  <2> QED
    BY <2>2, <2>4, <2>5
<1>2. \A i \in 0..n : g[i] \in S
  BY <1>1
<1>3. g \in [0..n -> S]
  BY <1>2
<1>4. \A m \in 1..n : m - 1 \in 0..n /\ g[m] = step[m][g[m - 1]]
  <2>1. \A m \in 1..n : m - 1 \in 0..n
    OBVIOUS
  <2> QED
    BY <1>2, <2>1
<1>5. g = [m \in 0..n |-> IF m = 0 THEN start ELSE step[m][g[m - 1]]]
  <2>1. \A m \in 0..n : m # 0 => m \in 1..n
    OBVIOUS
  <2> QED
    BY <1>4, <2>1
<1> QED
  BY <1>3, <1>4, <1>5 DEF Loops

-----------------------------------------------------------------------------
(***************************************************************************)
(* Numbers.                                                                *)
(***************************************************************************)

(* The worth of a place, one place after the other.                        *)
LEMMA PlaceRuns ==
  ASSUME NEW k \in Nat
  PROVE  \E f \in [0..k -> Nat] : /\ f[k] = Place(k)
                                  /\ Loops(f, k, 1, [m \in 1..k |-> [v \in Nat |-> Base * v]])
<1> DEFINE step == [m \in 1..k |-> [v \in Nat |-> Base * v]]
           W(f) == [m \in 0..k |-> IF m = 0 THEN 1 ELSE step[m][f[m - 1]]]
<1>1. Base \in Nat
  BY WidthAssumption
<1>2. step \in [1..k -> [Nat -> Nat]]
  BY <1>1
<1>3. PICK f \in [0..k -> Nat] : Loops(f, k, 1, step)
  <2> HIDE DEF step
  <2> QED
    BY <1>2, LoopRuns
<1> DEFINE V(g) == [i \in 0..k |-> IF i = 0 THEN 1 ELSE Base * g[i - 1]]
<1>4. f = V(f)
  <2>1. f = W(f)
    BY <1>3 DEF Loops
  <2>2. \A i \in 0..k : i # 0 => i \in 1..k /\ f[i - 1] \in Nat
    BY <1>3
  <2>3. \A i \in 0..k : i # 0 => step[i][f[i - 1]] = Base * f[i - 1]
    BY <2>2
  <2> QED
    BY <2>1, <2>3
<1>5. PICK g : g = CHOOSE h : h = V(h)
  OBVIOUS
<1>6. g = V(g)
  BY <1>4, <1>5
<1>7. Place(k) = g[k]
  BY <1>5 DEF Place
<1>8. g = [i \in 0..k |-> g[i]] /\ g[0] = 1 /\ \A i \in 1..k : g[i] = Base * g[i - 1]
  BY <1>6
<1>9. g \in [0..k -> Nat] /\ Loops(g, k, 1, step)
  <2>1. \A i \in 1..k : g[i - 1] \in Nat => g[i] = step[i][g[i - 1]]
    BY <1>8
  <2> HIDE DEF step
  <2> QED
    BY <1>2, <1>8, <2>1, LoopOnly
<1> QED
  BY <1>7, <1>9

(* The least of a set is what is in it and below all of it.                *)
LEMMA LeastIsMin ==
  ASSUME NEW T \in SUBSET Int, NEW p \in T, \A y \in T : p <= y
  PROVE  Min(T) = p
<1> DEFINE least == Min(T)
<1>1. \E x \in T : \A y \in T : x <= y
  OBVIOUS
<1>2. least \in T /\ \A y \in T : least <= y
  BY <1>1, Zenon DEF Min
<1>3. p \in Int /\ least \in Int
  BY <1>2
<1>4. p <= least /\ least <= p
  BY <1>2
<1> HIDE DEF least
<1>5. least = p
  BY <1>3, <1>4, SMT
<1> QED BY <1>5 DEF least

(* A set of numbers that is not empty has its least among them.            *)
LEMMA MinIs ==
  ASSUME NEW T, T \subseteq Nat, T # {}
  PROVE  Min(T) \in T /\ \A y \in T : Min(T) <= y
<1>1. PICK p \in T : \A y \in T : p <= y
  BY FirstOf
<1>2. T \in SUBSET Int
  OBVIOUS
<1>3. Min(T) = p
  BY <1>1, <1>2, LeastIsMin
<1> QED
  BY <1>1, <1>3

(* The larger and the smaller of two.                                      *)
LEMMA MaxOfTwo ==
  ASSUME NEW a \in Int, NEW b \in Int
  PROVE  Max({a, b}) = IF a >= b THEN a ELSE b
<1> DEFINE most == Max({a, b})
<1>1. \E x \in {a, b} : \A y \in {a, b} : x >= y
  OBVIOUS
<1>2. most \in {a, b} /\ \A y \in {a, b} : most >= y
  BY <1>1, Zenon DEF Max
<1> HIDE DEF most
<1>3. most = IF a >= b THEN a ELSE b
  BY <1>2
<1> QED
  BY <1>3 DEF most

(* The smaller of two.                                                     *)
LEMMA MinOfTwo ==
  ASSUME NEW a \in Int, NEW b \in Int
  PROVE  Min({a, b}) = IF a <= b THEN a ELSE b
<1>1. CASE a <= b
  BY <1>1, LeastIsMin
<1>2. CASE ~(a <= b)
  BY <1>2, LeastIsMin
<1> QED
  BY <1>1, <1>2

(* The last place is worth one, and every place a natural number.          *)
LEMMA PlaceIs ==
  ASSUME NEW k \in Nat
  PROVE  Place(0) = 1 /\ Place(k) \in Nat
<1>1. PICK e \in [0..0 -> Nat] : e[0] = Place(0) /\ Loops(e, 0, 1, [m \in 1..0 |-> [v \in Nat |-> Base * v]])
  BY PlaceRuns
<1>2. Place(0) = 1
  BY <1>1 DEF Loops
<1>3. PICK f \in [0..k -> Nat] : f[k] = Place(k)
  BY PlaceRuns
<1>4. k \in 0..k
  OBVIOUS
<1> QED
  BY <1>2, <1>3, <1>4

(* Each place is worth a base of the one after it.                         *)
LEMMA PlaceNext ==
  ASSUME NEW k \in Nat
  PROVE  Place(k + 1) = Base * Place(k)
<1> DEFINE step(n) == [m \in 1..n |-> [v \in Nat |-> Base * v]]
<1>1. PICK n \in Nat : n = k + 1
  OBVIOUS
<1>2. PICK f \in [0..k -> Nat] : f[k] = Place(k) /\ Loops(f, k, 1, step(k))
  BY PlaceRuns
<1>3. PICK g \in [0..n -> Nat] : g[n] = Place(n) /\ Loops(g, n, 1, step(n))
  BY PlaceRuns
<1>4. PICK s : s = step(k)
  OBVIOUS
<1>5. PICK t : t = step(n)
  OBVIOUS
<1>6. \A i \in 1..k : s[i] = t[i]
  BY <1>1, <1>4, <1>5
<1>7. n \in 1..n /\ n - 1 = k /\ k \in 0..n /\ k <= n /\ k <= k
  BY <1>1
<1>8. g[n] = t[n][g[k]]
  BY <1>3, <1>5, <1>7 DEF Loops
<1>9. t[n][g[k]] = Base * g[k]
  <2>1. g[k] \in Nat
    BY <1>7
  <2> QED
    BY <1>5, <1>7, <2>1
<1> HIDE DEF step
<1>10. Loops(f, k, 1, s) /\ Loops(g, n, 1, t)
  BY <1>2, <1>3, <1>4, <1>5
<1>11. f[k] = g[k]
  BY <1>6, <1>7, <1>10, LoopsAgree, SMTT(60)
<1> QED
  BY <1>1, <1>2, <1>3, <1>8, <1>9, <1>11

(* The worth of a digit of a text of digits.                               *)
LEMMA DigitWorth ==
  ASSUME NEW text, Digits(text), NEW i \in DOMAIN text
  PROVE  DigitValue[text[i]] \in Nat /\ DigitValue[text[i]] < Base /\ Base \in Nat \ {0}
<1>1. Base \in Nat \ {0} /\ text[i] \in DOMAIN DigitValue
  BY WidthAssumption DEF Digits, IsDigit
<1>2. DigitValue[text[i]] \in 0..(Base - 1)
  BY <1>1, DigitAssumption
<1> QED
  BY <1>1, <1>2

(* strtoull adds a digit after the other.                                  *)
LEMMA PlainRuns ==
  ASSUME NEW S, NEW text \in Seq(S), Digits(text)
  PROVE  \E f \in [0..Len(text) -> Nat] :
            /\ f[Len(text)] = Plain(text) /\ f[0] = 0
            /\ \A i \in 1..Len(text) : f[i] = f[i - 1] * Base + DigitValue[text[i]]
<1>0. PICK n \in Nat : n = Len(text)
  OBVIOUS
<1> DEFINE D == [i \in 1..n |-> DigitValue[text[i]]]
           step == [m \in 1..n |-> [v \in Nat |-> v * Base + D[m]]]
           V(g) == [i \in 0..n |-> IF i = 0 THEN 0 ELSE g[i - 1] * Base + DigitValue[text[i]]]
<1>1. Base \in Nat /\ DOMAIN text = 1..n
  BY <1>0, WidthAssumption
<1>2. D \in [1..n -> Nat] /\ \A i \in 1..n : D[i] = DigitValue[text[i]]
  BY <1>1, DigitWorth
<1> HIDE DEF D
<1>3. step \in [1..n -> [Nat -> Nat]]
  BY <1>1, <1>2, SMTT(60)
<1>4. PICK f \in [0..n -> Nat] : Loops(f, n, 0, step)
  <2> HIDE DEF step
  <2> QED
    BY <1>1, <1>3, LoopRuns
<1>5. f = V(f)
  <2>1. f = [m \in 0..n |-> IF m = 0 THEN 0 ELSE step[m][f[m - 1]]]
    BY <1>4 DEF Loops
  <2>2. \A i \in 0..n : i # 0 => i \in 1..n /\ f[i - 1] \in Nat
    BY <1>4
  <2>3. \A i \in 0..n : i # 0 => step[i][f[i - 1]] = f[i - 1] * Base + DigitValue[text[i]]
    BY <1>2, <2>2
  <2> QED
    BY <2>1, <2>3
<1>6. PICK g : g = CHOOSE h : h = V(h)
  OBVIOUS
<1>7. g = V(g)
  BY <1>5, <1>6
<1>8. Plain(text) = g[n]
  BY <1>0, <1>6 DEF Plain
<1>9. /\ g = [i \in 0..n |-> g[i]] /\ g[0] = 0
      /\ \A i \in 1..n : g[i] = g[i - 1] * Base + DigitValue[text[i]]
  <2>1. g = [i \in 0..n |-> g[i]]
    BY <1>7, Zenon
  <2>2. \A i \in 0..n : g[i] = V(g)[i]
    BY <1>7, Zenon
  <2>3. 0 \in 0..n /\ \A i \in 1..n : i \in 0..n /\ i # 0
    OBVIOUS
  <2>4. g[0] = 0
    BY <2>2, <2>3
  <2> QED
    BY <2>1, <2>2, <2>3, <2>4
<1>10. g \in [0..n -> Nat] /\ Loops(g, n, 0, step)
  <2>1. \A i \in 1..n : g[i - 1] \in Nat => g[i] = step[i][g[i - 1]]
    BY <1>2, <1>9
  <2>2. g = [i \in 0..n |-> g[i]] /\ g[0] = 0 /\ 0 \in Nat
    BY <1>9
  <2> HIDE DEF step
  <2> QED
    BY <1>3, <2>1, <2>2, LoopOnly
<1> QED
  BY <1>0, <1>8, <1>9, <1>10

(* The sum of the digits by their places, from the last one.               *)
LEMMA ValueRuns ==
  ASSUME NEW S, NEW text \in Seq(S), Digits(text)
  PROVE  \E f \in [0..Len(text) -> Nat] :
            /\ f[Len(text)] = Value(text) /\ f[0] = 0
            /\ \A k \in 1..Len(text) :
                 f[k] = f[k - 1] + DigitValue[text[Len(text) - k + 1]] * Place(k - 1)
<1>0. PICK n \in Nat : n = Len(text)
  OBVIOUS
<1> DEFINE D == [k \in 1..n |-> DigitValue[text[n - k + 1]] * Place(k - 1)]
           step == [m \in 1..n |-> [v \in Nat |-> v + D[m]]]
           V(g) == [k \in 0..n |-> IF k = 0 THEN 0
                                   ELSE g[k - 1] + DigitValue[text[n - k + 1]] * Place(k - 1)]
<1>1. DOMAIN text = 1..n
  BY <1>0
<1>2. D \in [1..n -> Nat] /\ \A k \in 1..n : D[k] = DigitValue[text[n - k + 1]] * Place(k - 1)
  <2>1. \A k \in 1..n : n - k + 1 \in 1..n /\ k - 1 \in Nat
    BY <1>1
  <2>2. \A k \in 1..n : Place(k - 1) \in Nat
    BY <2>1, PlaceIs
  <2>3. \A k \in 1..n : DigitValue[text[n - k + 1]] \in Nat
    BY <1>1, <2>1, DigitWorth
  <2>4. \A a, b \in Nat : a * b \in Nat
    OBVIOUS
  <2> QED
    BY <2>2, <2>3, <2>4
<1> HIDE DEF D
<1>3. step \in [1..n -> [Nat -> Nat]]
  BY <1>1, <1>2
<1>4. PICK f \in [0..n -> Nat] : Loops(f, n, 0, step)
  <2> HIDE DEF step
  <2> QED
    BY <1>1, <1>3, LoopRuns
<1>5. f = V(f)
  <2>1. f = [m \in 0..n |-> IF m = 0 THEN 0 ELSE step[m][f[m - 1]]]
    BY <1>4 DEF Loops
  <2>2. \A i \in 0..n : i # 0 => i \in 1..n /\ f[i - 1] \in Nat
    BY <1>4
  <2>3. \A i \in 0..n : i # 0 => step[i][f[i - 1]]
                                   = f[i - 1] + DigitValue[text[n - i + 1]] * Place(i - 1)
    <3>1. \A i \in 0..n : i # 0 => step[i][f[i - 1]] = f[i - 1] + D[i]
      BY <2>2
    <3> QED
      BY <1>2, <2>2, <3>1
  <2> QED
    BY <2>1, <2>3
<1>6. PICK g : g = CHOOSE h : h = V(h)
  OBVIOUS
<1>7. g = V(g)
  BY <1>5, <1>6
<1>8. Value(text) = g[n]
  BY <1>0, <1>6 DEF Value
<1>9. /\ g = [i \in 0..n |-> g[i]] /\ g[0] = 0
      /\ \A k \in 1..n : g[k] = g[k - 1] + DigitValue[text[n - k + 1]] * Place(k - 1)
  <2>1. g = [i \in 0..n |-> g[i]]
    BY <1>7, Zenon
  <2>2. \A i \in 0..n : g[i] = V(g)[i]
    BY <1>7, Zenon
  <2>3. 0 \in 0..n /\ \A i \in 1..n : i \in 0..n /\ i # 0
    OBVIOUS
  <2>4. g[0] = 0
    BY <2>2, <2>3
  <2> QED
    BY <2>1, <2>2, <2>3, <2>4
<1>10. g \in [0..n -> Nat] /\ Loops(g, n, 0, step)
  <2>1. \A i \in 1..n : g[i - 1] \in Nat => g[i] = step[i][g[i - 1]]
    <3>1. \A i \in 1..n : g[i - 1] \in Nat => step[i][g[i - 1]] = g[i - 1] + D[i]
      OBVIOUS
    <3> QED
      BY <1>2, <1>9, <3>1
  <2>2. g = [i \in 0..n |-> g[i]] /\ g[0] = 0 /\ 0 \in Nat
    BY <1>9
  <2> HIDE DEF step
  <2> QED
    BY <1>3, <2>1, <2>2, LoopOnly
<1> QED
  BY <1>0, <1>8, <1>9, <1>10

(* Both are the same number.                                               *)
LEMMA PlainIsValue ==
  ASSUME NEW S, NEW text \in Seq(S), Digits(text)
  PROVE  Plain(text) = Value(text) /\ Value(text) \in Nat
<1>1. PICK n \in Nat : n = Len(text)
  OBVIOUS
<1>2. PICK f \in [0..n -> Nat] :
         /\ f[n] = Plain(text) /\ f[0] = 0
         /\ \A i \in 1..n : f[i] = f[i - 1] * Base + DigitValue[text[i]]
  BY <1>1, PlainRuns
<1>3. PICK g \in [0..n -> Nat] :
         /\ g[n] = Value(text) /\ g[0] = 0
         /\ \A k \in 1..n : g[k] = g[k - 1] + DigitValue[text[n - k + 1]] * Place(k - 1)
  BY <1>1, ValueRuns
<1> DEFINE Agree(i) == f[n] = f[n - i] * Place(i) + g[i]
           T == {i \in 0..n : ~Agree(i)}
<1>4. T = {}
  <2> SUFFICES ASSUME T # {}
               PROVE  FALSE
    OBVIOUS
  <2>1. PICK i \in T : \A j \in T : i <= j
    <3>1. T \subseteq Nat
      BY <1>1
    <3> HIDE DEF T
    <3> QED
      BY <3>1, FirstOf
  <2>2. i \in 0..n /\ ~Agree(i)
    BY <2>1
  <2>3. i # 0
    <3>1. Agree(0)
      <4>1. Place(0) = 1
        BY PlaceIs
      <4>2. n - 0 = n /\ n \in 0..n
        OBVIOUS
      <4>3. f[n] \in Nat
        BY <4>2
      <4>4. f[n] * 1 + 0 = f[n]
        BY <4>3
      <4> QED
        BY <1>3, <4>1, <4>2, <4>4, Zenon
    <3> QED
      BY <2>2, <3>1
  <2>4. PICK k \in Nat : k = i - 1
    BY <2>2, <2>3
  <2>5. /\ k \in 0..n /\ ~(i <= k) /\ i \in 1..n /\ n - i \in 0..n /\ n - i + 1 = n - k
        /\ n - k \in 1..n /\ (n - k) - 1 = n - i /\ i = k + 1
    BY <1>1, <2>2, <2>3, <2>4
  <2>6. Agree(k)
    BY <2>1, <2>5
  <2>7. f[n - k] = f[n - i] * Base + DigitValue[text[n - k]]
    BY <1>2, <2>5
  <2>8. g[i] = g[k] + DigitValue[text[n - k]] * Place(k)
    BY <1>3, <2>4, <2>5
  <2>9. Place(k) \in Nat /\ Place(i) = Base * Place(k)
    BY <2>5, PlaceNext, PlaceIs
  <2>10. \A v, b, d, p, s \in Nat : (v * b + d) * p + s = v * (b * p) + (s + d * p)
    OBVIOUS
  <2>11. /\ f[n - i] \in Nat /\ g[k] \in Nat /\ Base \in Nat
         /\ DigitValue[text[n - k]] \in Nat
    <3>1. DOMAIN text = 1..n
      BY <1>1
    <3> QED
      BY <2>5, <3>1, WidthAssumption, DigitWorth
  <2>12. (f[n - i] * Base + DigitValue[text[n - k]]) * Place(k) + g[k]
           = f[n - i] * (Base * Place(k)) + (g[k] + DigitValue[text[n - k]] * Place(k))
    <3>1. PICK v \in Nat : v = f[n - i]
      BY <2>11
    <3>2. PICK b \in Nat : b = Base
      BY <2>11
    <3>3. PICK d \in Nat : d = DigitValue[text[n - k]]
      BY <2>11
    <3>4. PICK p \in Nat : p = Place(k)
      BY <2>9
    <3>5. PICK s \in Nat : s = g[k]
      BY <2>11
    <3>6. (v * b + d) * p + s = v * (b * p) + (s + d * p)
      BY <2>10
    <3> QED
      BY <3>1, <3>2, <3>3, <3>4, <3>5, <3>6, Zenon
  <2>13. Agree(i)
    BY <2>6, <2>7, <2>8, <2>9, <2>12
  <2> QED
    BY <2>2, <2>13
<1>5. Agree(n)
  BY <1>1, <1>4
<1>6. /\ n - n = 0 /\ Place(n) \in Nat /\ g[n] \in Nat
  BY <1>1, PlaceIs
<1>7. f[n] = g[n]
  BY <1>2, <1>5, <1>6
<1> QED
  BY <1>2, <1>3, <1>6, <1>7

(* What one digit does to a number that may have overflown.                *)
LEMMA DecimalStep ==
  ASSUME NEW v \in Nat, NEW d \in Nat, NEW last,
         last = (IF v <= U32Max THEN v ELSE Bad)
  PROVE  (IF last = Bad \/ Overflows(last, d) THEN Bad
          ELSE (last * Base + d) % (U32Max + 1))
           = (IF v * Base + d <= U32Max THEN v * Base + d ELSE Bad)
<1>1. PICK b \in Nat \ {0} : b = Base
  BY WidthAssumption
<1>2. PICK m \in Nat \ {0} : m = U32Max
  BY WidthAssumption
<1>3. PICK w \in Nat : w = v * b + d
  <2>1. v * b + d \in Nat
    OBVIOUS
  <2> QED
    BY <2>1
<1>4. w >= v
  BY <1>3
<1>5. CASE v > m
  BY <1>1, <1>2, <1>3, <1>4, <1>5
<1>6. CASE v <= m
  <2>1. last = v /\ last # Bad
    BY <1>2, <1>6 DEF Bad
  <2>2. v > (m - d) \div b <=> v * b + d > m
    BY SMT
  <2>3. Overflows(last, d) <=> w > m
    BY <1>1, <1>2, <1>3, <2>1, <2>2 DEF Overflows
  <2>4. w <= m => w % (m + 1) = w
    BY SMT
  <2>5. last * Base + d = w
    BY <1>1, <1>3, <2>1
  <2> QED
    BY <1>1, <1>2, <1>3, <2>1, <2>3, <2>4, <2>5
<1> QED
  BY <1>5, <1>6

(* A number is read exactly as far as it fits.                             *)
LEMMA DecimalIs ==
  ASSUME NEW S, NEW text \in Seq(S), Digits(text)
  PROVE  Decimal(text) = IF Value(text) <= U32Max THEN Value(text) ELSE Bad
<1>1. PICK n \in Nat : n = Len(text)
  OBVIOUS
<1>2. PICK f \in [0..n -> Nat] :
         /\ f[n] = Plain(text) /\ f[0] = 0
         /\ \A i \in 1..n : f[i] = f[i - 1] * Base + DigitValue[text[i]]
  BY <1>1, PlainRuns
<1>3. \A i \in 1..n : DigitValue[text[i]] \in Nat
  <2>1. DOMAIN text = 1..n
    BY <1>1
  <2> QED
    BY <2>1, DigitWorth
<1> DEFINE Next1(last, digit) == IF last = Bad \/ Overflows(last, digit) THEN Bad
                                 ELSE (last * Base + digit) % (U32Max + 1)
           V(g) == [i \in 0..n |-> IF i = 0 THEN 0 ELSE Next1(g[i - 1], DigitValue[text[i]])]
           h == [i \in 0..n |-> IF f[i] <= U32Max THEN f[i] ELSE Bad]
<1>4. h[0] = 0 /\ \A i \in 0..n : h[i] = IF f[i] <= U32Max THEN f[i] ELSE Bad
  <2>1. 0 \in 0..n /\ 0 <= U32Max
    BY WidthAssumption
  <2> QED
    BY <1>2, <2>1
<1>5. h = [i \in 0..n |-> h[i]]
  OBVIOUS
<1> HIDE DEF h
<1>6. ASSUME NEW i \in 1..n
      PROVE  Next1(h[i - 1], DigitValue[text[i]]) = h[i]
  <2>1. i - 1 \in 0..n /\ i \in 0..n
    OBVIOUS
  <2>2. PICK v \in Nat : v = f[i - 1]
    BY <2>1
  <2>3. PICK d \in Nat : d = DigitValue[text[i]]
    BY <1>3
  <2>4. f[i] = v * Base + d
    BY <1>2, <2>2, <2>3
  <2>5. h[i - 1] = IF v <= U32Max THEN v ELSE Bad
    BY <1>4, <2>1, <2>2
  <2>6. h[i] = IF v * Base + d <= U32Max THEN v * Base + d ELSE Bad
    BY <1>4, <2>1, <2>4
  <2> QED
    BY <2>3, <2>5, <2>6, DecimalStep
<1>7. h = V(h)
  <2>1. \A i \in 0..n : i # 0 => i \in 1..n
    OBVIOUS
  <2>2. \A i \in 0..n : h[i] = IF i = 0 THEN 0 ELSE Next1(h[i - 1], DigitValue[text[i]])
    <3> HIDE DEF Next1
    <3> QED
      BY <1>4, <1>6, <2>1
  <2> HIDE DEF Next1
  <2> QED
    BY <1>5, <2>2, ZenonT(60)
<1>8. PICK g : g = CHOOSE g1 : g1 = V(g1)
  OBVIOUS
<1>9. g = V(g)
  BY <1>7, <1>8, ZenonT(60)
<1>10. Decimal(text) = g[n]
  BY <1>1, <1>8 DEF Decimal
<1> DEFINE T == {i \in 0..n : g[i] # h[i]}
<1>11. T = {}
  <2> SUFFICES ASSUME T # {}
               PROVE  FALSE
    OBVIOUS
  <2>1. PICK i \in T : \A j \in T : i <= j
    <3>1. T \subseteq Nat
      OBVIOUS
    <3> HIDE DEF T
    <3> QED
      BY <3>1, FirstOf
  <2>2. i \in 0..n /\ g[i] # h[i]
    BY <2>1
  <2> HIDE DEF Next1
  <2>3. \A k \in 0..n : g[k] = V(g)[k]
    BY <1>9, Zenon
  <2>4. i # 0
    <3>1. 0 \in 0..n
      OBVIOUS
    <3>2. g[0] = 0
      BY <2>3, <3>1
    <3> QED
      BY <1>4, <2>2, <3>2
  <2>5. i \in 1..n /\ i - 1 \in 0..n /\ ~(i <= i - 1)
    BY <2>2, <2>4
  <2>6. g[i - 1] = h[i - 1]
    BY <2>1, <2>5
  <2>7. g[i] = Next1(g[i - 1], DigitValue[text[i]])
    BY <2>2, <2>3, <2>4
  <2> QED
    BY <1>6, <2>2, <2>5, <2>6, <2>7
<1>12. g[n] = h[n] /\ n \in 0..n
  BY <1>11
<1> QED
  BY <1>2, <1>4, <1>10, <1>12, PlainIsValue

(* parse_u32_token reads exactly the numbers that fit.                     *)
LEMMA TokenExact ==
  ASSUME NEW S, NEW text \in Seq(S)
  PROVE  ParseToken(text) = Exact(text, 0, U32Max)
<1>1. U32Max \in Nat
  BY WidthAssumption
<1>2. CASE text = <<>> \/ ~Digits(text)
  BY <1>2 DEF ParseToken, Exact
<1>3. CASE text # <<>> /\ Digits(text)
  <2>1. Value(text) \in Nat
    BY <1>3, PlainIsValue
  <2>2. ParseToken(text) = Decimal(text)
    BY <1>3 DEF ParseToken
  <2>3. Value(text) \in 0..U32Max <=> Value(text) <= U32Max
    BY <1>1, <2>1
  <2> QED
    BY <1>3, <2>2, <2>3, DecimalIs DEF Exact
<1> QED
  BY <1>2, <1>3

(* Exact gives the number or nothing.                                      *)
LEMMA ExactIs ==
  ASSUME NEW S, NEW text \in Seq(S), NEW most \in Nat
  PROVE  /\ Exact(text, 0, most) \in {Bad} \cup 0..most
         /\ \A low \in Nat, high \in Nat : high <= most =>
              Exact(text, low, high) = IF Exact(text, 0, most) \in low..high
                                       THEN Exact(text, 0, most) ELSE Bad
<1>1. Bad = -1
  BY DEF Bad
<1>2. CASE text = <<>> \/ ~Digits(text)
  <2>1. \A low, high : Exact(text, low, high) = Bad
    BY <1>2 DEF Exact
  <2>2. \A low \in Nat : -1 \notin low..most
    OBVIOUS
  <2> QED
    BY <2>1
<1>3. CASE text # <<>> /\ Digits(text)
  <2>1. PICK v \in Nat : v = Value(text)
    BY <1>3, PlainIsValue
  <2>2. \A low, high : Exact(text, low, high) = IF v \in low..high THEN v ELSE Bad
    BY <1>3, <2>1 DEF Exact
  <2>3. Exact(text, 0, most) = IF v <= most THEN v ELSE Bad
    BY <2>2
  <2>4. \A low \in Nat, high \in Nat : high <= most =>
           (IF v \in low..high THEN v ELSE -1)
             = (IF (IF v <= most THEN v ELSE -1) \in low..high
                THEN (IF v <= most THEN v ELSE -1) ELSE -1)
    OBVIOUS
  <2> QED
    BY <1>1, <2>2, <2>3, <2>4
<1> QED
  BY <1>2, <1>3

(* The characters from i to j are spaces.                                  *)
Blank(text, i, j) == \A k \in i..j : IsSpace(text[k])

(* The characters from i to j are digits.                                  *)
Counted(text, i, j) == \A k \in i..j : IsDigit(text[k])

(* What is left of a text after its spaces.                                *)
LEMMA SkipSpaceIs ==
  ASSUME NEW S, NEW text \in Seq(S)
  PROVE  \/ Blank(text, 1, Len(text)) /\ SkipSpace(text) = <<>>
         \/ \E i \in 1..Len(text) :
               /\ ~IsSpace(text[i]) /\ Blank(text, 1, i - 1)
               /\ SkipSpace(text) = SubSeq(text, i, Len(text))
<1> DEFINE T == {i \in 1..Len(text) : ~IsSpace(text[i])}
<1>1. CASE T = {}
  <2>1. Blank(text, 1, Len(text))
    BY <1>1 DEF Blank
  <2>2. SkipSpace(text) = <<>>
    BY <1>1 DEF SkipSpace, SelectInSeq
  <2> QED
    BY <2>1, <2>2
<1>2. CASE T # {}
  <2>1. PICK i : i = Min(T)
    OBVIOUS
  <2>2. SkipSpace(text) = IF i = 0 THEN <<>> ELSE SubSeq(text, i, Len(text))
    BY <1>2, <2>1 DEF SkipSpace, SelectInSeq
  <2>3. T \subseteq Nat
    OBVIOUS
  <2>4. i \in T /\ \A y \in T : i <= y
    <3> HIDE DEF T
    <3> QED
      BY <1>2, <2>1, <2>3, MinIs
  <2>5. i \in 1..Len(text) /\ ~IsSpace(text[i]) /\ i # 0
    <3>1. i \in 1..Len(text) /\ ~IsSpace(text[i])
      BY <2>4
    <3>2. Len(text) \in Nat
      OBVIOUS
    <3>3. i # 0
      BY <3>1, <3>2
    <3> QED
      BY <3>1, <3>3
  <2>6. Blank(text, 1, i - 1)
    <3>0. Len(text) \in Nat /\ i \in 1..Len(text)
      BY <2>5
    <3>1. \A k \in 1..(i - 1) : k \in 1..Len(text) /\ ~(i <= k)
      BY <3>0
    <3>2. \A k \in 1..(i - 1) : k \notin T
      BY <2>4, <3>1
    <3> QED
      BY <3>1, <3>2 DEF Blank
  <2> QED
    BY <2>2, <2>5, <2>6
<1> QED
  BY <1>1, <1>2

(* The digits a text begins with.                                          *)
LEMMA LeadingDigitsIs ==
  ASSUME NEW S, NEW text \in Seq(S)
  PROVE  \/ Counted(text, 1, Len(text)) /\ LeadingDigits(text) = text
         \/ \E i \in 1..Len(text) :
               /\ ~IsDigit(text[i]) /\ Counted(text, 1, i - 1)
               /\ LeadingDigits(text) = SubSeq(text, 1, i - 1)
<1> DEFINE T == {i \in 1..Len(text) : ~IsDigit(text[i])}
<1>1. CASE T = {}
  <2>1. Counted(text, 1, Len(text))
    BY <1>1 DEF Counted
  <2>2. LeadingDigits(text) = text
    BY <1>1 DEF LeadingDigits, SelectInSeq
  <2> QED
    BY <2>1, <2>2
<1>2. CASE T # {}
  <2>1. PICK i : i = Min(T)
    OBVIOUS
  <2>2. LeadingDigits(text) = IF i = 0 THEN text ELSE SubSeq(text, 1, i - 1)
    BY <1>2, <2>1 DEF LeadingDigits, SelectInSeq
  <2>3. T \subseteq Nat
    OBVIOUS
  <2>4. i \in T /\ \A y \in T : i <= y
    <3> HIDE DEF T
    <3> QED
      BY <1>2, <2>1, <2>3, MinIs
  <2>5. i \in 1..Len(text) /\ ~IsDigit(text[i]) /\ i # 0
    BY <2>4
  <2>6. Counted(text, 1, i - 1)
    <3>1. \A k \in 1..(i - 1) : k \in 1..Len(text) /\ ~(i <= k)
      BY <2>5
    <3> QED
      BY <2>4, <3>1 DEF Counted
  <2> QED
    BY <2>2, <2>5, <2>6
<1> QED
  BY <1>1, <1>2

(* A piece of a text.                                                      *)
LEMMA PieceIs ==
  ASSUME NEW S, NEW text \in Seq(S), NEW i \in 1..Len(text), NEW j \in 0..Len(text),
         i <= j + 1
  PROVE  /\ SubSeq(text, i, j) \in Seq(S) /\ Len(SubSeq(text, i, j)) = j - i + 1
         /\ \A k \in 1..(j - i + 1) : SubSeq(text, i, j)[k] = text[i + k - 1]
         /\ \A k \in i..j : k - i + 1 \in 1..(j - i + 1) /\ text[k] = SubSeq(text, i, j)[k - i + 1]
<1>1. PICK n \in Nat : n = Len(text)
  OBVIOUS
<1>2. i \in 1..n /\ j \in 0..n /\ i..j \subseteq 1..n
  BY <1>1
<1>3. PICK m \in Nat : m = j - i + 1
  BY <1>2
<1>4. SubSeq(text, i, j) = [k \in 1..m |-> text[i + k - 1]]
  BY <1>2, <1>3
<1>5. \A k \in 1..m : i + k - 1 \in 1..n
  BY <1>2, <1>3
<1>6. \A k \in 1..m : text[i + k - 1] \in S
  <2>1. \A k \in 1..n : text[k] \in S
    BY <1>1
  <2> QED
    BY <1>5, <2>1
<1>7. SubSeq(text, i, j) \in Seq(S)
  <2>1. [k \in 1..m |-> text[i + k - 1]] \in [1..m -> S]
    BY <1>6
  <2>2. [1..m -> S] \subseteq Seq(S)
    OBVIOUS
  <2> QED
    BY <1>4, <2>1, <2>2
<1>8. Len(SubSeq(text, i, j)) = m
  BY <1>4
<1>9. \A k \in i..j : k - i + 1 \in 1..m /\ i + (k - i + 1) - 1 = k
  BY <1>2, <1>3
<1>10. \A k \in i..j : SubSeq(text, i, j)[k - i + 1] = text[k]
  <2> TAKE k \in i..j
  <2>1. PICK x \in 1..m : x = k - i + 1
    BY <1>9
  <2>2. SubSeq(text, i, j)[x] = text[i + x - 1]
    BY <1>4
  <2>3. i + x - 1 = k
    BY <1>9, <2>1
  <2> QED
    BY <2>1, <2>2, <2>3
<1> QED
  BY <1>3, <1>4, <1>7, <1>8, <1>9, <1>10

(* A text turned round.                                                    *)
LEMMA ReverseIs ==
  ASSUME NEW S, NEW text \in Seq(S)
  PROVE  /\ Reverse(text) \in Seq(S) /\ Len(Reverse(text)) = Len(text)
         /\ \A k \in 1..Len(text) : Reverse(text)[k] = text[Len(text) - k + 1]
<1>1. PICK n \in Nat : n = Len(text)
  OBVIOUS
<1>2. Reverse(text) = [i \in 1..n |-> text[(n - i) + 1]]
  BY <1>1 DEF Reverse
<1>3. \A i \in 1..n : (n - i) + 1 \in 1..n /\ text[(n - i) + 1] \in S
  <2>1. \A i \in 1..n : (n - i) + 1 \in 1..n
    OBVIOUS
  <2> QED
    BY <1>1, <2>1
<1>4. [i \in 1..n |-> text[(n - i) + 1]] \in Seq(S)
  <2>1. [i \in 1..n |-> text[(n - i) + 1]] \in [1..n -> S]
    BY <1>3
  <2> QED
    BY <2>1
<1>5. Len(Reverse(text)) = n
  BY <1>2
<1> QED
  BY <1>1, <1>2, <1>4, <1>5

(* A text without the spaces around it.                                    *)
LEMMA TrimIs ==
  ASSUME NEW S, NEW text \in Seq(S), NEW trimmed,
         trimmed = Reverse(SkipSpace(Reverse(SkipSpace(text))))
  PROVE  \/ Blank(text, 1, Len(text)) /\ trimmed = <<>>
         \/ \E i, j \in 1..Len(text) :
               /\ i <= j /\ trimmed = SubSeq(text, i, j)
               /\ ~IsSpace(text[i]) /\ Blank(text, 1, i - 1)
               /\ ~IsSpace(text[j]) /\ Blank(text, j + 1, Len(text))
<1>1. PICK n \in Nat : n = Len(text)
  OBVIOUS
<1>2. CASE Blank(text, 1, n) /\ SkipSpace(text) = <<>>
  <2>1. Reverse(<<>>) = <<>>
    BY DEF Reverse
  <2>2. SkipSpace(<<>>) = <<>>
    BY DEF SkipSpace, SelectInSeq
  <2> QED
    BY <1>1, <1>2, <2>1, <2>2
<1>3. ASSUME NEW i \in 1..n, ~IsSpace(text[i]), Blank(text, 1, i - 1),
             SkipSpace(text) = SubSeq(text, i, n)
      PROVE  \E j \in 1..n :
               /\ i <= j /\ trimmed = SubSeq(text, i, j)
               /\ ~IsSpace(text[j]) /\ Blank(text, j + 1, n)
  <2>1. PICK rest : rest = SubSeq(text, i, n)
    OBVIOUS
  <2>2. PICK m \in Nat : m = n - i + 1
    OBVIOUS
  <2>3. /\ rest \in Seq(S) /\ Len(rest) = m
        /\ \A k \in 1..m : rest[k] = text[i + k - 1]
    <3>1. i \in 1..Len(text) /\ n \in 0..Len(text) /\ i <= n + 1
      BY <1>1
    <3> QED
      BY <1>1, <2>1, <2>2, <3>1, PieceIs
  <2>4. PICK back : back = Reverse(rest)
    OBVIOUS
  <2>5. back \in Seq(S) /\ Len(back) = m /\ \A k \in 1..m : back[k] = rest[m - k + 1]
    BY <2>3, <2>4, ReverseIs
  <2>6. m \in 1..m /\ back[m] = text[i]
    <3>1. m \in 1..m /\ m - m + 1 = 1 /\ 1 \in 1..m /\ i + 1 - 1 = i
      BY <2>2
    <3> QED
      BY <2>3, <2>5, <3>1
  <2>7. PICK p \in 1..m : /\ ~IsSpace(back[p]) /\ Blank(back, 1, p - 1)
                          /\ SkipSpace(back) = SubSeq(back, p, m)
    <3>1. ~ Blank(back, 1, Len(back))
      BY <1>3, <2>5, <2>6 DEF Blank
    <3> QED
      BY <2>5, <3>1, SkipSpaceIs
  <2>8. PICK j \in 1..n : j = n - p + 1
    BY <1>1, <2>2, SMTT(60)
  <2>9. \A k \in 1..m : back[k] = text[n - k + 1]
    <3>1. \A k \in 1..m : m - k + 1 \in 1..m /\ i + (m - k + 1) - 1 = n - k + 1
      BY <1>1, <2>2
    <3>2. \A x \in 1..m : \A k \in 1..m : x = m - k + 1 => back[k] = text[i + x - 1]
      BY <2>3, <2>5
    <3> QED
      BY <3>1, <3>2, ZenonT(60)
  <2>10. ~IsSpace(text[j])
    BY <2>7, <2>8, <2>9
  <2>11. Blank(text, j + 1, n)
    <3>1. \A k \in (j + 1)..n : n - k + 1 \in 1..(p - 1) /\ n - k + 1 \in 1..m
                                /\ n - (n - k + 1) + 1 = k
      BY <2>2, <2>8
    <3>2. \A x \in 1..(p - 1) : \A k \in (j + 1)..n : x = n - k + 1 => IsSpace(text[k])
      BY <2>7, <2>9, <3>1 DEF Blank
    <3> QED
      BY <3>1, <3>2 DEF Blank
  <2>12. i <= j /\ j - i + 1 = m - p + 1
    BY <1>1, <2>2, <2>8
  <2>13. trimmed = SubSeq(text, i, j)
    <3>1. PICK q \in Nat : q = m - p + 1
      BY <2>2
    <3>2. trimmed = Reverse(SubSeq(back, p, m))
      BY <1>3, <2>1, <2>4, <2>7
    <3>3. SubSeq(back, p, m) = [k \in 1..q |-> back[p + k - 1]]
      BY <2>2, <3>1
    <3>4. Len(SubSeq(back, p, m)) = q
      BY <3>1, <3>3
    <3>5. trimmed = [k \in 1..q |-> SubSeq(back, p, m)[(q - k) + 1]]
      BY <3>2, <3>4 DEF Reverse
    <3>6. \A k \in 1..q : SubSeq(back, p, m)[(q - k) + 1] = text[i + k - 1]
      <4>1. \A k \in 1..q : /\ (q - k) + 1 \in 1..q /\ p + ((q - k) + 1) - 1 \in 1..m
                            /\ n - (p + ((q - k) + 1) - 1) + 1 = i + k - 1
        BY <1>1, <2>2, <3>1
      <4>2. \A x \in 1..q : SubSeq(back, p, m)[x] = back[p + x - 1]
        BY <3>3
      <4>3. \A k \in 1..q : SubSeq(back, p, m)[(q - k) + 1] = back[p + ((q - k) + 1) - 1]
        BY <4>1, <4>2
      <4>4. \A k \in 1..q : \A y \in 1..m : y = p + ((q - k) + 1) - 1 => back[y] = text[i + k - 1]
        BY <2>9, <4>1
      <4> QED
        BY <4>1, <4>3, <4>4
    <3>7. SubSeq(text, i, j) = [k \in 1..q |-> text[i + k - 1]]
      BY <1>1, <2>12, <3>1
    <3> QED
      BY <3>5, <3>6, <3>7
  <2> QED
    BY <2>10, <2>11, <2>12, <2>13
<1>4. \/ Blank(text, 1, n) /\ SkipSpace(text) = <<>>
      \/ \E i \in 1..n : /\ ~IsSpace(text[i]) /\ Blank(text, 1, i - 1)
                        /\ SkipSpace(text) = SubSeq(text, i, n)
  BY <1>1, SkipSpaceIs
<1>5. CASE \E i \in 1..n : /\ ~IsSpace(text[i]) /\ Blank(text, 1, i - 1)
                          /\ SkipSpace(text) = SubSeq(text, i, n)
  <2>1. PICK i \in 1..n : /\ ~IsSpace(text[i]) /\ Blank(text, 1, i - 1)
                          /\ SkipSpace(text) = SubSeq(text, i, n)
    BY <1>5
  <2>2. PICK j \in 1..n : /\ i <= j /\ trimmed = SubSeq(text, i, j)
                          /\ ~IsSpace(text[j]) /\ Blank(text, j + 1, n)
    BY <1>3, <2>1
  <2> QED
    BY <1>1, <2>1, <2>2
<1> QED
  BY <1>2, <1>4, <1>5

(* The number a file name or a tag shows: spaces, then digits.             *)
LEMMA PieceDigits ==
  ASSUME NEW S, NEW text \in Seq(S), NEW a \in 1..Len(text), NEW b \in 0..Len(text), a <= b + 1
  PROVE  Digits(SubSeq(text, a, b)) <=> Counted(text, a, b)
<1>1. PICK n \in Nat : n = Len(text)
  OBVIOUS
<1>2. /\ SubSeq(text, a, b) \in Seq(S) /\ Len(SubSeq(text, a, b)) = b - a + 1
      /\ \A k \in 1..(b - a + 1) : SubSeq(text, a, b)[k] = text[a + k - 1]
      /\ \A k \in a..b : k - a + 1 \in 1..(b - a + 1)
                         /\ text[k] = SubSeq(text, a, b)[k - a + 1]
  BY PieceIs
<1>3. DOMAIN SubSeq(text, a, b) = 1..(b - a + 1)
  BY <1>2
<1>4. a \in 1..n /\ b \in 0..n /\ \A k \in 1..(b - a + 1) : a + k - 1 \in a..b
  BY <1>1
<1>5. ASSUME Counted(text, a, b), NEW k \in 1..(b - a + 1)
      PROVE  IsDigit(SubSeq(text, a, b)[k])
  BY <1>2, <1>4, <1>5 DEF Counted
<1>6. ASSUME \A k \in 1..(b - a + 1) : IsDigit(SubSeq(text, a, b)[k]), NEW k \in a..b
      PROVE  IsDigit(text[k])
  BY <1>2, <1>6
<1> QED
  BY <1>3, <1>5, <1>6 DEF Digits, Counted

(* Where the part of a text is that Parts tells.                           *)
IsPart(text, n, i, j) ==
  /\ i \in 1..n /\ j \in 1..n /\ i <= j
  /\ Counted(text, i, j) /\ Blank(text, 1, i - 1)
  /\ j = n \/ ~IsDigit(text[j + 1])

(* The parts of a text are the stretches of IsPart.                        *)
LEMMA PartsAre ==
  ASSUME NEW S, NEW text \in Seq(S), NEW n \in Nat, n = Len(text)
  PROVE  Parts(text) = {part \in (1..n) \X (1..n) : IsPart(text, n, part[1], part[2])}
<1>1. ASSUME NEW a \in 1..n, NEW b \in 1..n, a <= b
      PROVE  Digits(SubSeq(text, a, b)) <=> Counted(text, a, b)
  <2>1. a \in 1..Len(text) /\ b \in 0..Len(text) /\ a <= b + 1
    BY <1>1
  <2> QED
    BY <2>1, PieceDigits
<1>2. \A part \in (1..n) \X (1..n) : part[1] \in 1..n /\ part[2] \in 1..n
  OBVIOUS
<1>3. Parts(text) = {part \in (1..n) \X (1..n) :
         /\ part[1] <= part[2] /\ Digits(SubSeq(text, part[1], part[2]))
         /\ Blank(text, 1, part[1] - 1)
         /\ part[2] = n \/ ~IsDigit(text[part[2] + 1])}
  BY Zenon DEF Parts, Blank, IsSpace
<1> QED
  BY <1>1, <1>2, <1>3 DEF IsPart

(* Two parts are the same one.                                             *)
LEMMA PartsMeet ==
  ASSUME NEW text, NEW n \in Nat, NEW i, NEW j, NEW a, NEW b,
         IsPart(text, n, i, j), IsPart(text, n, a, b)
  PROVE  ~(a < i) /\ (a = i => ~(b < j))
<1>1. \A c : IsSpace(c) => ~IsDigit(c)
  BY DigitAssumption, Zenon DEF IsDigit, IsSpace
<1>2. i \in 1..n /\ j \in 1..n /\ i <= j /\ a \in 1..n /\ b \in 1..n /\ a <= b
  BY DEF IsPart
<1>3. ASSUME a < i
      PROVE  FALSE
  <2>1. a \in a..b /\ a \in 1..(i - 1)
    BY <1>2, <1>3
  <2> QED
    BY <1>1, <2>1 DEF IsPart, Counted, Blank
<1>4. ASSUME a = i, b < j
      PROVE  FALSE
  <2>1. b # n /\ b + 1 \in i..j
    BY <1>2, <1>4
  <2> QED
    BY <2>1 DEF IsPart, Counted
<1> QED
  BY <1>3, <1>4

(* A text has no second one: its spaces end where its digits begin.        *)
LEMMA PartOnly ==
  ASSUME NEW S, NEW text \in Seq(S), NEW n \in Nat, n = Len(text), NEW i, NEW j,
         IsPart(text, n, i, j)
  PROVE  Parts(text) = {<<i, j>>}
<1>1. ASSUME NEW a \in 1..n, NEW b \in 1..n, IsPart(text, n, a, b)
      PROVE  a = i /\ b = j
  <2>1. ~(a < i) /\ (a = i => ~(b < j)) /\ ~(i < a) /\ (i = a => ~(j < b))
    BY <1>1, PartsMeet
  <2>2. i \in 1..n /\ j \in 1..n
    BY DEF IsPart
  <2> QED
    BY <2>1, <2>2
<1>2. <<i, j>> \in (1..n) \X (1..n) /\ <<i, j>>[1] = i /\ <<i, j>>[2] = j
  BY DEF IsPart
<1>3. \A part \in (1..n) \X (1..n) : IsPart(text, n, part[1], part[2]) => part = <<i, j>>
  BY <1>1
<1> QED
  BY <1>2, <1>3, PartsAre

(* There is none without a digit after the spaces.                         *)
LEMMA PartNone ==
  ASSUME NEW S, NEW text \in Seq(S), NEW n \in Nat, n = Len(text),
         \/ Blank(text, 1, n)
         \/ \E i \in 1..n : ~IsSpace(text[i]) /\ ~IsDigit(text[i]) /\ Blank(text, 1, i - 1)
  PROVE  Parts(text) = {}
<1> SUFFICES ASSUME NEW a \in 1..n, NEW b \in 1..n, IsPart(text, n, a, b)
             PROVE  FALSE
  BY PartsAre
<1>1. a \in a..b
  BY SMT DEF IsPart
<1>2. IsDigit(text[a])
  BY <1>1 DEF IsPart, Counted
<1>3. \A c : IsSpace(c) => ~IsDigit(c)
  BY DigitAssumption, Zenon DEF IsDigit, IsSpace
<1>4. PICK i \in 1..n : ~IsSpace(text[i]) /\ ~IsDigit(text[i]) /\ Blank(text, 1, i - 1)
  BY <1>2, <1>3 DEF Blank
<1>5. (a < i => a \in 1..(i - 1)) /\ (i < a => i \in 1..(a - 1)) /\ (a < i \/ i < a \/ a = i)
  OBVIOUS
<1> QED
  BY <1>2, <1>3, <1>4, <1>5 DEF IsPart, Blank

(* What a number in a file name or in a tag counts as.                     *)
Counts(text) == IF ParseToken(text) = Bad THEN 0 ELSE ParseToken(text)

(* Without a part there is no number.                                      *)
LEMMA NoneFound == \A text : Found(text, {}) = 0
BY DEF Found

(* No digits are no number.                                                *)
LEMMA EmptyCounts == Counts(<<>>) = 0
BY DEF Counts, ParseToken

(* Digits that are read count as their exact value.                        *)
LEMMA CountsExact ==
  ASSUME NEW S, NEW piece \in Seq(S)
  PROVE  Max({0, Exact(piece, 1, U32Max)}) = Counts(piece)
<1>1. PICK m \in Nat : m = U32Max
  BY WidthAssumption
<1>2. PICK x : x = Exact(piece, 0, m)
  OBVIOUS
<1>3. PICK y : y = Exact(piece, 1, m)
  OBVIOUS
<1>4. x \in {Bad} \cup 0..m /\ y = IF x \in 1..m THEN x ELSE Bad
  BY <1>1, <1>2, <1>3, ExactIs
<1>5. Counts(piece) = IF x = Bad THEN 0 ELSE x
  BY <1>1, <1>2, TokenExact DEF Counts
<1>6. Bad = -1
  BY DEF Bad
<1>7. Max({0, y}) = IF 0 >= y THEN 0 ELSE y
  <2>1. y \in Int
    BY <1>4, <1>6
  <2> QED
    BY <2>1, MaxOfTwo
<1>8. Max({0, y}) = Counts(piece)
  BY <1>4, <1>5, <1>6, <1>7
<1> QED
  BY <1>1, <1>3, <1>8

(* The number of a text with one part is what its digits count as.         *)
LEMMA OneFound ==
  ASSUME NEW S, NEW text, NEW i, NEW j, NEW piece \in Seq(S), piece = SubSeq(text, i, j)
  PROVE  Found(text, {<<i, j>>}) = Counts(piece)
<1>1. (CHOOSE p \in {<<i, j>>} : TRUE) = <<i, j>>
  OBVIOUS
<1>2. {<<i, j>>} # {} /\ <<i, j>>[1] = i /\ <<i, j>>[2] = j
  OBVIOUS
<1>3. Found(text, {<<i, j>>}) = Max({0, Exact(piece, 1, U32Max)})
  BY <1>1, <1>2 DEF Found
<1> QED
  BY <1>3, CountsExact, Zenon

(* The number of a tag.                                                    *)
LEMMA TagExact ==
  ASSUME NEW S, NEW text \in Seq(S)
  PROVE  TagNumber(text) = Found(text, Parts(text))
<1>1. PICK n \in Nat : n = Len(text)
  OBVIOUS
<1>2. PICK rest : rest = SkipSpace(text)
  OBVIOUS
<1>3. TagNumber(text) = Counts(LeadingDigits(rest))
  BY <1>2 DEF TagNumber, Counts
<1>4. CASE Blank(text, 1, n) /\ rest = <<>>
  <2>1. <<>> \in Seq(S) /\ Len(<<>>) = 0 /\ ~\E i \in 1..0 : TRUE
    OBVIOUS
  <2>2. LeadingDigits(rest) = <<>>
    BY <1>4, <2>1, LeadingDigitsIs
  <2>3. Parts(text) = {}
    BY <1>1, <1>4, PartNone
  <2> QED
    BY <1>3, <2>2, <2>3, NoneFound, EmptyCounts
<1>5. ASSUME NEW i \in 1..n, ~IsSpace(text[i]), Blank(text, 1, i - 1), rest = SubSeq(text, i, n)
      PROVE  TagNumber(text) = Found(text, Parts(text))
  <2>1. PICK m \in Nat : m = n - i + 1
    OBVIOUS
  <2>2. /\ rest \in Seq(S) /\ Len(rest) = m
        /\ \A k \in 1..m : rest[k] = text[i + k - 1]
        /\ \A k \in i..n : k - i + 1 \in 1..m /\ text[k] = rest[k - i + 1]
    <3>1. i \in 1..Len(text) /\ n \in 0..Len(text) /\ i <= n + 1
      BY <1>1
    <3> QED
      BY <1>5, <2>1, <3>1, PieceIs
  <2>3. CASE Counted(rest, 1, m) /\ LeadingDigits(rest) = rest
    <3>1. Counted(text, i, n)
      BY <2>2, <2>3 DEF Counted
    <3>2. IsPart(text, n, i, n)
      BY <1>5, <3>1 DEF IsPart
    <3>3. Parts(text) = {<<i, n>>}
      BY <1>1, <3>2, PartOnly
    <3>4. Found(text, {<<i, n>>}) = Counts(SubSeq(text, i, n))
      BY <1>5, <2>2, OneFound
    <3> QED
      BY <1>3, <1>5, <2>3, <3>3, <3>4
  <2>4. ASSUME NEW p \in 1..m, ~IsDigit(rest[p]), Counted(rest, 1, p - 1),
               LeadingDigits(rest) = SubSeq(rest, 1, p - 1)
        PROVE  TagNumber(text) = Found(text, Parts(text))
    <3>1. CASE p = 1
      <4>1. LeadingDigits(rest) = <<>>
        BY <2>4, <3>1
      <4>2. ~IsDigit(text[i])
        <5>1. i + 1 - 1 = i
          OBVIOUS
        <5> QED
          BY <2>2, <2>4, <3>1, <5>1
      <4>3. Parts(text) = {}
        BY <1>1, <1>5, <4>2, PartNone
      <4> QED
        BY <1>3, <4>1, <4>3, NoneFound, EmptyCounts
    <3>2. CASE p # 1
      <4>1. PICK j \in 1..n : j = i + p - 2
        BY <2>1, <3>2
      <4>2. /\ i <= j /\ j + 1 <= n /\ i + p - 1 = j + 1 /\ j - i + 1 = p - 1
            /\ \A k \in i..j : k - i + 1 \in 1..(p - 1) /\ k \in i..n
        BY <2>1, <3>2, <4>1
      <4>3. Counted(text, i, j)
        <5>1. \A k \in i..j : text[k] = rest[k - i + 1]
          BY <2>2, <4>2
        <5> QED
          BY <2>4, <4>2, <5>1 DEF Counted
      <4>4. ~IsDigit(text[j + 1])
        <5>1. rest[p] = text[i + p - 1]
          BY <2>2
        <5> QED
          BY <2>4, <4>2, <5>1
      <4>5. IsPart(text, n, i, j)
        BY <1>5, <4>2, <4>3, <4>4 DEF IsPart
      <4>6. Parts(text) = {<<i, j>>}
        BY <1>1, <4>5, PartOnly
      <4>7. SubSeq(text, i, j) \in Seq(S) /\ SubSeq(rest, 1, p - 1) = SubSeq(text, i, j)
        <5>1. i \in 1..Len(text) /\ j \in 0..Len(text) /\ i <= j + 1
          BY <1>1, <4>2
        <5>2. SubSeq(text, i, j) \in Seq(S)
          BY <5>1, PieceIs
        <5>3. PICK q \in Nat : q = p - 1
          OBVIOUS
        <5>4. SubSeq(rest, 1, p - 1) = [k \in 1..q |-> rest[1 + k - 1]]
          BY <5>3
        <5>5. SubSeq(text, i, j) = [k \in 1..q |-> text[i + k - 1]]
          BY <4>2, <5>3
        <5>6. \A k \in 1..q : 1 + k - 1 = k /\ k \in 1..m
          BY <5>3
        <5>7. \A k \in 1..q : rest[1 + k - 1] = text[i + k - 1]
          BY <2>2, <5>6
        <5> QED
          BY <5>2, <5>4, <5>5, <5>7
      <4>8. Found(text, {<<i, j>>}) = Counts(SubSeq(text, i, j))
        <5>1. PICK piece \in Seq(S) : piece = SubSeq(text, i, j)
          BY <4>7
        <5>2. Found(text, {<<i, j>>}) = Counts(piece)
          BY <5>1, OneFound
        <5> QED
          BY <5>1, <5>2
      <4> QED
        BY <1>3, <2>4, <4>6, <4>7, <4>8
    <3> QED
      BY <3>1, <3>2
  <2> QED
    BY <2>2, <2>3, <2>4, LeadingDigitsIs
<1> QED
  BY <1>1, <1>2, <1>4, <1>5, SkipSpaceIs

(* The number between two separators of a file name.                       *)
LEMMA NameExact ==
  ASSUME NEW S, NEW text \in Seq(S)
  PROVE  NumberSegment(text) =
           Found(text, {p \in Parts(text) : Blank(text, p[2] + 1, Len(text))})
<1>1. PICK n \in Nat : n = Len(text)
  OBVIOUS
<1>2. PICK trimmed : trimmed = Reverse(SkipSpace(Reverse(SkipSpace(text))))
  OBVIOUS
<1>3. NumberSegment(text) = Counts(trimmed)
  BY <1>2 DEF NumberSegment, Counts
<1> SUFFICES ASSUME NEW whole, whole = {p \in Parts(text) : Blank(text, p[2] + 1, Len(text))}
             PROVE  NumberSegment(text) = Found(text, whole)
  OBVIOUS
<1>4. CASE Blank(text, 1, n) /\ trimmed = <<>>
  <2>1. Parts(text) = {}
    BY <1>1, <1>4, PartNone
  <2>2. whole = {}
    BY <2>1
  <2> QED
    BY <1>3, <1>4, <2>2, NoneFound, EmptyCounts
<1>5. ASSUME NEW i \in 1..n, NEW j \in 1..n, i <= j, trimmed = SubSeq(text, i, j),
             ~IsSpace(text[i]), Blank(text, 1, i - 1), ~IsSpace(text[j]), Blank(text, j + 1, n)
      PROVE  NumberSegment(text) = Found(text, whole)
  <2>1. i \in 1..Len(text) /\ j \in 0..Len(text) /\ i <= j + 1
    BY <1>1, <1>5
  <2>2. trimmed \in Seq(S)
    BY <1>5, <2>1, PieceIs
  <2>3. Digits(trimmed) <=> Counted(text, i, j)
    BY <1>5, <2>1, PieceDigits
  <2>4. \A c : IsSpace(c) => ~IsDigit(c)
    BY DigitAssumption, Zenon DEF IsDigit, IsSpace
  <2>5. CASE Counted(text, i, j)
    <3>1. j = n \/ ~IsDigit(text[j + 1])
      <4>1. j # n => j + 1 \in (j + 1)..n
        OBVIOUS
      <4> QED
        BY <1>5, <2>4, <4>1 DEF Blank
    <3>2. IsPart(text, n, i, j)
      BY <1>5, <2>5, <3>1 DEF IsPart
    <3>3. Parts(text) = {<<i, j>>}
      BY <1>1, <3>2, PartOnly
    <3>4. whole = {<<i, j>>}
      BY <1>1, <1>5, <3>3
    <3>5. Found(text, {<<i, j>>}) = Counts(SubSeq(text, i, j))
      <4>1. PICK piece \in Seq(S) : piece = SubSeq(text, i, j)
        BY <1>5, <2>2
      <4>2. Found(text, {<<i, j>>}) = Counts(piece)
        BY <4>1, OneFound
      <4> QED
        BY <4>1, <4>2
    <3> QED
      BY <1>3, <1>5, <3>4, <3>5
  <2>6. CASE ~Counted(text, i, j)
    <3>1. ParseToken(trimmed) = Bad
      BY <2>3, <2>6 DEF ParseToken
    <3>2. ASSUME NEW a \in 1..n, NEW b \in 1..n, IsPart(text, n, a, b), Blank(text, b + 1, n)
          PROVE  FALSE
      <4>1. a <= b /\ IsDigit(text[a]) /\ IsDigit(text[b])
        <5>1. a <= b
          BY <3>2 DEF IsPart
        <5>2. a \in a..b /\ b \in a..b
          BY <5>1
        <5> QED
          BY <3>2, <5>1, <5>2 DEF IsPart, Counted
      <4>2. (a < i => a \in 1..(i - 1)) /\ (i < a => i \in 1..(a - 1))
        OBVIOUS
      <4>3. ~(a < i) /\ ~(i < a)
        BY <1>5, <2>4, <3>2, <4>1, <4>2 DEF IsPart, Blank
      <4>4. (b < j => j \in (b + 1)..n) /\ (j < b => b \in (j + 1)..n)
        OBVIOUS
      <4>5. ~(b < j) /\ ~(j < b)
        BY <1>5, <2>4, <3>2, <4>1, <4>4 DEF Blank
      <4>6. a = i /\ b = j
        BY <4>3, <4>5
      <4> QED
        BY <2>6, <3>2, <4>6 DEF IsPart
    <3>3. whole = {}
      BY <1>1, <3>2, PartsAre
    <3> QED
      BY <1>3, <3>1, <3>3, NoneFound DEF Counts
  <2> QED
    BY <2>5, <2>6
<1> QED
  BY <1>1, <1>2, <1>4, <1>5, TrimIs

(* The numbers of a body are read exactly, all or none.                    *)
LEMMA ArrayExact ==
  ASSUME NEW tokens \in Bodies, NEW room, NEW exact,
         exact = [i \in DOMAIN tokens |-> Exact(tokens[i], 0, U32Max)]
  PROVE  TokenArray(tokens, room) =
           IF Len(exact) > room \/ \E i \in DOMAIN exact : exact[i] = Bad THEN <<Bad>> ELSE exact
<1>1. tokens \in Seq(Range(tokens)) /\ \A text \in Range(tokens) : text \in Seq(Range(text))
  BY TextAssumption
<1>2. PICK n \in Nat : n = Len(tokens) /\ DOMAIN tokens = 1..n
  BY <1>1
<1>3. \A i \in 1..n : ParseToken(tokens[i]) = Exact(tokens[i], 0, U32Max)
  <2> TAKE i \in 1..n
  <2>1. tokens[i] \in Range(tokens)
    BY <1>2 DEF Range
  <2>2. tokens[i] \in Seq(Range(tokens[i]))
    BY <1>1, <2>1
  <2> QED
    BY <2>2, TokenExact
<1>4. [i \in DOMAIN tokens |-> ParseToken(tokens[i])] = exact
  BY <1>2, <1>3
<1>5. Len(exact) = Len(tokens)
  BY <1>2
<1>6. Bad \in Range(exact) <=> \E i \in DOMAIN exact : exact[i] = Bad
  BY DEF Range
<1> QED
  BY <1>4, <1>5, <1>6 DEF TokenArray

(* A patch sets a field to exactly the number it holds.                    *)
LEMMA PatchExact ==
  ASSUME NEW S, NEW token \in Seq(S)
  PROVE  PatchNumber(token) = "set" <=> Exact(token, 1, PatchMax) # Bad
<1>1. PICK m \in Nat : m = U32Max
  BY WidthAssumption
<1>2. PICK p \in Nat : p = PatchMax /\ p <= m
  BY <1>1, WidthAssumption
<1>3. PICK x : x = Exact(token, 0, m)
  OBVIOUS
<1>4. x \in {Bad} \cup 0..m /\ Exact(token, 1, p) = IF x \in 1..p THEN x ELSE Bad
  BY <1>1, <1>2, <1>3, ExactIs
<1>5. ParseToken(token) = x
  BY <1>1, <1>3, TokenExact
<1>6. Bad = -1
  BY DEF Bad
<1>7. Exact(token, 1, p) # Bad <=> x \in 1..p
  BY <1>4, <1>6
<1>8. CASE token = Missing
  <2>1. Exact(token, 1, PatchMax) = Bad
    BY <1>8 DEF Missing, Exact
  <2> QED
    BY <1>8, <2>1 DEF PatchNumber
<1>9. CASE token = Null
  <2>1. 1 \in DOMAIN token /\ token[1] = "n"
    BY <1>9 DEF Null
  <2>2. ~Digits(token)
    BY <2>1, DigitAssumption DEF Digits, IsDigit
  <2>3. Exact(token, 1, PatchMax) = Bad
    BY <2>2 DEF Exact
  <2> QED
    BY <1>9, <2>3 DEF PatchNumber
<1>10. CASE token # Missing /\ token # Null
  BY <1>2, <1>5, <1>7, <1>10 DEF PatchNumber
<1> QED
  BY <1>8, <1>9, <1>10

(* What strtoull makes of the digits of a text.                            *)
LEMMA StrtoullIs ==
  ASSUME NEW S, NEW text \in Seq(S), NEW n \in Nat, n = Len(text), Strtoull(text) # Bad
  PROVE  \E i \in 1..n :
           LET v == Value(SubSeq(text, i, n))
           IN /\ Digits(SubSeq(text, i, n)) /\ v \in 0..U64Max
              /\ \/ /\ Blank(text, 1, i - 1) /\ Strtoull(text) = v
                 \/ /\ i > 1 /\ Blank(text, 1, i - 2) /\ text[i - 1] = "+"
                    /\ Strtoull(text) = v
                 \/ /\ i > 1 /\ Blank(text, 1, i - 2) /\ text[i - 1] = "-"
                    /\ Strtoull(text) = (U64Max + 1 - v) % (U64Max + 1)
<1>1. PICK body : body = SkipSpace(text)
  OBVIOUS
<1>2. PICK signed : signed = (body # <<>> /\ Head(body) \in {"+", "-"})
  OBVIOUS
<1>3. PICK digits : digits = IF signed THEN Tail(body) ELSE body
  OBVIOUS
<1>4. Strtoull(text) = IF digits = <<>> \/ ~Digits(digits) \/ Plain(digits) > U64Max THEN Bad
     ELSE IF Head(body) = "-" THEN (U64Max + 1 - Plain(digits)) % (U64Max + 1)
     ELSE Plain(digits)
  BY <1>1, <1>2, <1>3 DEF Strtoull
<1>5. digits # <<>> /\ Digits(digits) /\ ~(Plain(digits) > U64Max)
  BY <1>4
<1>6. body # <<>>
  BY <1>2, <1>3, <1>5
<1>7. PICK i \in 1..n : ~IsSpace(text[i]) /\ Blank(text, 1, i - 1) /\ body = SubSeq(text, i, n)
  BY <1>1, <1>6, SkipSpaceIs
<1>8. /\ body \in Seq(S) /\ Len(body) = n - i + 1
      /\ \A k \in 1..(n - i + 1) : body[k] = text[i + k - 1]
  <2>1. i \in 1..Len(text) /\ n \in 0..Len(text) /\ i <= n + 1
    OBVIOUS
  <2> QED
    BY <1>7, <2>1, PieceIs, SMTT(60)
<1>9. Head(body) = text[i]
  <2>1. 1 \in 1..(n - i + 1) /\ i + 1 - 1 = i
    OBVIOUS
  <2>2. body[1] = text[i]
    BY <1>8, <2>1
  <2> QED
    BY <1>6, <1>8, <2>2
<1>10. ASSUME NEW v, digits \in Seq(S), v = Value(digits)
       PROVE  Plain(digits) = v /\ v \in 0..U64Max
  <2>1. Plain(digits) = v /\ v \in Nat
    BY <1>5, <1>10, PlainIsValue
  <2>2. U64Max \in Nat
    BY WidthAssumption
  <2> QED
    BY <1>5, <2>1, <2>2
<1>11. CASE ~signed
  <2>1. digits = SubSeq(text, i, n) /\ digits \in Seq(S)
    BY <1>3, <1>7, <1>8, <1>11
  <2>2. Plain(digits) = Value(digits) /\ Value(digits) \in 0..U64Max
    BY <1>10, <2>1
  <2>3. Head(body) # "-"
    BY <1>2, <1>6, <1>11
  <2>4. Strtoull(text) = Value(digits)
    BY <1>4, <1>5, <2>2, <2>3
  <2> QED
    BY <1>5, <1>7, <2>1, <2>2, <2>4
<1>12. CASE signed
  <2>1. PICK j \in Nat : j = i + 1
    OBVIOUS
  <2>2. digits = Tail(body)
    BY <1>3, <1>12
  <2>3. j <= n
    <3>1. n - i + 1 # 1
      <4>1. n - i + 1 = 1 => Tail(body) = <<>>
        BY <1>8
      <4> QED
        BY <1>5, <2>2, <4>1
    <3> QED
      BY <2>1, <3>1
  <2>4. digits = SubSeq(text, j, n) /\ digits \in Seq(S)
    <3>1. i \in 1..Len(text) /\ n \in i..Len(text) /\ i + 1 = j
      BY <2>1
    <3>2. Tail(SubSeq(text, i, n)) = SubSeq(text, i + 1, n)
      BY <3>1, HeadTailOfSubSeq
    <3>3. Tail(body) \in Seq(S)
      BY <1>6, <1>8, HeadTailProperties
    <3> QED
      BY <1>7, <2>2, <3>1, <3>2, <3>3
  <2>5. Plain(digits) = Value(digits) /\ Value(digits) \in 0..U64Max
    BY <1>10, <2>4
  <2>6. j \in 1..n /\ j > 1 /\ j - 1 = i /\ j - 2 = i - 1
    BY <2>1, <2>3
  <2>7. text[j - 1] \in {"+", "-"} /\ Head(body) = text[j - 1]
    BY <1>2, <1>9, <1>12, <2>6
  <2>8. Strtoull(text) = IF text[j - 1] = "-" THEN (U64Max + 1 - Value(digits)) % (U64Max + 1)
                         ELSE Value(digits)
    BY <1>4, <1>5, <2>5, <2>7
  <2>9. Blank(text, 1, j - 2)
    BY <1>7, <2>6
  <2> QED
    BY <1>5, <2>4, <2>5, <2>6, <2>7, <2>8, <2>9
<1> QED
  BY <1>11, <1>12

(* The id of a path.                                                       *)
LEMMA IdParamExact ==
  ASSUME NEW S, NEW text \in Seq(S)
  PROVE  IdExact(IdParam(text), text) /\ IdParam(text) \in 0..U32Max
<1>1. PICK n \in Nat : n = Len(text)
  OBVIOUS
<1>2. PICK m \in Nat \ {0} : m = U32Max
  BY WidthAssumption
<1>3. PICK w \in Nat \ {0} : w = U64Max /\ m < w
  BY <1>2, WidthAssumption
<1>4. IdParam(text) = (IF Strtoull(text) \in 1..m THEN Strtoull(text) ELSE 0)
  BY <1>2 DEF IdParam
<1>5. Bad = -1
  BY DEF Bad
<1>6. ASSUME Exact(text, 1, m) # Bad
      PROVE  IdParam(text) = Value(text)
  <2>1. text # <<>> /\ Digits(text) /\ Value(text) \in 1..m
    BY <1>6 DEF Exact
  <2>2. IsDigit(text[1]) /\ 1 \in 1..n
    BY <1>1, <2>1 DEF Digits
  <2>3. ~IsSpace(text[1])
    BY <2>2, DigitAssumption, Zenon DEF IsSpace, IsDigit
  <2>4. SkipSpace(text) = text
    <3>1. ~Blank(text, 1, n)
      BY <2>2, <2>3 DEF Blank
    <3>2. PICK i \in 1..n : Blank(text, 1, i - 1) /\ SkipSpace(text) = SubSeq(text, i, n)
      BY <1>1, <3>1, SkipSpaceIs
    <3>3. i # 1 => 1 \in 1..(i - 1)
      OBVIOUS
    <3>4. i = 1
      BY <2>3, <3>2, <3>3 DEF Blank
    <3>5. SubSeq(text, 1, n) = text
      BY <1>1
    <3> QED
      BY <3>2, <3>4, <3>5
  <2>5. Head(text) = text[1]
    BY <2>1
  <2>6. Head(text) \notin {"+", "-"}
    BY <2>2, <2>5, DigitAssumption DEF IsDigit
  <2>7. Plain(text) = Value(text)
    BY <2>1, PlainIsValue
  <2>8. ~(Plain(text) > U64Max)
    BY <1>3, <2>1, <2>7
  <2>9. Strtoull(text) = Plain(text)
    BY <2>1, <2>4, <2>6, <2>8 DEF Strtoull
  <2> QED
    BY <1>4, <2>1, <2>7, <2>9
<1>7. ASSUME IdParam(text) # 0
      PROVE  Spelt(IdParam(text), text)
  <2>1. IdParam(text) = Strtoull(text) /\ Strtoull(text) \in 1..m
    BY <1>4, <1>7
  <2>2. Strtoull(text) # Bad
    BY <1>5, <2>1
  <2>3. PICK i \in 1..n :
           LET v == Value(SubSeq(text, i, n))
           IN /\ Digits(SubSeq(text, i, n)) /\ v \in 0..w
              /\ \/ /\ Blank(text, 1, i - 1) /\ Strtoull(text) = v
                 \/ /\ i > 1 /\ Blank(text, 1, i - 2) /\ text[i - 1] = "+"
                    /\ Strtoull(text) = v
                 \/ /\ i > 1 /\ Blank(text, 1, i - 2) /\ text[i - 1] = "-"
                    /\ Strtoull(text) = (w + 1 - v) % (w + 1)
    BY <1>1, <1>3, <2>2, StrtoullIs
  <2>4. PICK v \in 0..w : v = Value(SubSeq(text, i, n))
    BY <2>3
  <2> DEFINE minus == i > 1 /\ text[i - 1] = "-"
             signs == \A k \in 1..(i - 1) : IsSpace(text[k]) \/ (k = i - 1 /\ text[k] \in {"+", "-"})
             sum == IF minus THEN (IdParam(text) + v) % (w + 1) = 0 ELSE IdParam(text) = v
  <2>5. signs /\ sum
    <3>1. \A k \in 1..(i - 1) : k = i - 1 \/ k \in 1..(i - 2)
      OBVIOUS
    <3>2. CASE Blank(text, 1, i - 1) /\ Strtoull(text) = v
      <4>1. i > 1 => i - 1 \in 1..(i - 1)
        OBVIOUS
      <4>2. \A c : IsSpace(c) => c # "-"
        BY Zenon DEF IsSpace
      <4>3. ~minus
        BY <3>2, <4>1, <4>2 DEF Blank
      <4> QED
        BY <2>1, <3>2, <4>3 DEF Blank
    <3>3. CASE i > 1 /\ Blank(text, 1, i - 2) /\ text[i - 1] = "+" /\ Strtoull(text) = v
      BY <2>1, <3>1, <3>3 DEF Blank
    <3>4. CASE /\ i > 1 /\ Blank(text, 1, i - 2) /\ text[i - 1] = "-"
               /\ Strtoull(text) = (w + 1 - v) % (w + 1)
      <4>1. signs
        BY <3>1, <3>4 DEF Blank
      <4>2. v # 0
        <5>1. (w + 1 - 0) % (w + 1) = 0
          OBVIOUS
        <5> QED
          BY <1>7, <2>1, <3>4, <5>1
      <4>3. (w + 1 - v) % (w + 1) = w + 1 - v
        BY <4>2
      <4>4. (w + 1 - v) + v = w + 1 /\ (w + 1) % (w + 1) = 0
        OBVIOUS
      <4>5. sum
        BY <2>1, <3>4, <4>3, <4>4
      <4> QED
        BY <4>1, <4>5
    <3> QED
      BY <2>3, <2>4, <3>2, <3>3, <3>4
  <2>6. i \in DOMAIN text /\ Value(SubSeq(text, i, n)) <= U64Max
    BY <1>1, <1>3, <2>4
  <2>7. /\ Digits(SubSeq(text, i, n))
        /\ IF minus THEN (IdParam(text) + Value(SubSeq(text, i, n))) % (U64Max + 1) = 0
           ELSE IdParam(text) = Value(SubSeq(text, i, n))
    BY <1>3, <2>3, <2>4, <2>5
  <2>8. signs
    BY <2>5
  <2> QED
    BY <1>1, <2>6, <2>7, <2>8, Zenon DEF Spelt, IsSpace
<1> QED
  BY <1>2, <1>4, <1>6, <1>7 DEF IdExact
=============================================================================
