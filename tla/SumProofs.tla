-------------------------------- MODULE SumProofs -------------------------------
(***************************************************************************)
(* The sum of an integer for each element of a finite set, MapThenSumSet   *)
(* of module FiniteSetsExt, which takes the elements one by one, in an     *)
(* order that CHOOSE fixes: the order does not matter.  Facts about sums   *)
(* for the proofs about the sections of a report (money spent) and about   *)
(* subscriptions (time paid for).  Also least and greatest elements, and   *)
(* division with a remainder.                                              *)
(***************************************************************************)
EXTENDS Integers, FiniteSetsExt, FiniteSetTheorems, WellFoundedInduction, TLAPS

\* The sum of w over S.
Total(w, S) == MapThenSumSet(LAMBDA p : w[p], S)

\* The sums of w over all subsets of S, whichever element is taken first.
IsSumOf(f, w, S) ==
    /\ f \in [SUBSET S -> Int]
    /\ f[{}] = 0
    /\ \A s \in SUBSET S : \A x \in s : f[s] = w[x] + f[s \ {x}]

\* Among sets of subsets of a finite set, there is a least one.
LEMMA LeastSubset ==
    ASSUME NEW S, IsFiniteSet(S), NEW B \in SUBSET SUBSET S, B # {}
    PROVE  \E s \in B : \A x \in s : s \ {x} \notin B
<1>1. IsWellFoundedOn(StrictSubsetOrdering(S), SUBSET S)
  BY FS_StrictSubsetOrderingWellFounded, FS_FiniteSubsetsOfFinite
<1>2. PICK s \in B : \A r \in B : <<r, s>> \notin StrictSubsetOrdering(S)
  BY <1>1, WFMin
<1>3. ASSUME NEW x \in s, s \ {x} \in B PROVE FALSE
  BY <1>2, <1>3 DEF StrictSubsetOrdering
<1> QED BY <1>3

LEMMA SumExists ==
    ASSUME NEW S, IsFiniteSet(S), NEW w \in [S -> Int]
    PROVE  \E f : IsSumOf(f, w, S)
<1> DEFINE Bad == {T \in SUBSET S : \A f : ~ IsSumOf(f, w, T)}
<1> SUFFICES ASSUME Bad # {} PROVE FALSE
  OBVIOUS
<1>1. PICK T \in Bad : \A x \in T : T \ {x} \notin Bad
  <2>1. Bad \in SUBSET SUBSET S
    OBVIOUS
  <2> HIDE DEF Bad
  <2> QED BY <2>1, LeastSubset
<1>2. T \in SUBSET S /\ \A f : ~ IsSumOf(f, w, T)
  OBVIOUS
<1>3. T # {}
  <2> SUFFICES ASSUME T = {} PROVE FALSE
    OBVIOUS
  <2> DEFINE z == [s \in SUBSET T |-> 0]
  <2>1. IsSumOf(z, w, T)
    BY DEF IsSumOf
  <2> QED BY <1>2, <2>1
<1>4. PICK x : x \in T
  BY <1>3
<1>5. PICK f : IsSumOf(f, w, T \ {x})
  <2>1. T \ {x} \in SUBSET S /\ T \ {x} \notin Bad
    BY <1>1, <1>2, <1>4
  <2> QED BY <2>1
<1> HIDE DEF Bad
<1> DEFINE g == [s \in SUBSET T |-> IF x \in s THEN w[x] + f[s \ {x}] ELSE f[s]]
<1>6. /\ f \in [SUBSET (T \ {x}) -> Int] /\ f[{}] = 0
      /\ \A s \in SUBSET (T \ {x}) : \A y \in s : f[s] = w[y] + f[s \ {y}]
  BY <1>5 DEF IsSumOf
<1>7. \A y \in T : w[y] \in Int
  BY <1>2
<1>8. g \in [SUBSET T -> Int]
  <2>1. ASSUME NEW s \in SUBSET T PROVE (IF x \in s THEN w[x] + f[s \ {x}] ELSE f[s]) \in Int
    <3>1. CASE x \in s
      <4>1. s \ {x} \in SUBSET (T \ {x})
        OBVIOUS
      <4> QED BY <1>4, <1>6, <1>7, <3>1, <4>1
    <3>2. CASE x \notin s
      <4>1. s \in SUBSET (T \ {x})
        BY <3>2
      <4> QED BY <1>6, <3>2, <4>1
    <3> QED BY <3>1, <3>2
  <2> QED BY <2>1
<1>9. g[{}] = 0
  BY <1>6
<1>10. ASSUME NEW s \in SUBSET T, NEW y \in s PROVE g[s] = w[y] + g[s \ {y}]
  <2>1. s \ {y} \in SUBSET T
    OBVIOUS
  <2>2. CASE y = x
    BY <2>1, <2>2
  <2>3. CASE y # x /\ x \notin s
    <3>1. s \in SUBSET (T \ {x}) /\ x \notin s \ {y}
      BY <2>3
    <3> QED BY <1>6, <2>1, <2>3, <3>1
  <2>4. CASE y # x /\ x \in s
    <3> DEFINE r == s \ {x}
    <3>1. r \in SUBSET (T \ {x}) /\ y \in r /\ (s \ {y}) \ {x} = r \ {y} /\ x \in s \ {y}
      BY <2>4
    <3>2. g[s] = w[x] + f[r] /\ g[s \ {y}] = w[x] + f[r \ {y}]
      BY <2>1, <2>4, <3>1
    <3>3. f[r] = w[y] + f[r \ {y}]
      BY <1>6, <3>1
    <3>4. f[r \ {y}] \in Int /\ w[x] \in Int /\ w[y] \in Int
      <4>1. r \ {y} \in SUBSET (T \ {x})
        BY <3>1
      <4> QED BY <1>4, <1>6, <1>7, <4>1
    <3> HIDE DEF g, r
    <3> QED BY <3>2, <3>3, <3>4
  <2> QED BY <2>2, <2>3, <2>4
<1>11. IsSumOf(g, w, T)
  <2> HIDE DEF g
  <2> QED BY <1>8, <1>9, <1>10 DEF IsSumOf
<1> QED BY <1>2, <1>11

\* Sums of the same numbers are the same.
LEMMA SumsAgree ==
    ASSUME NEW S, NEW R, NEW w, NEW v, NEW f, NEW g, IsSumOf(f, w, S), IsSumOf(g, v, R),
           NEW T, IsFiniteSet(T), T \subseteq S, T \subseteq R, \A x \in T : w[x] = v[x]
    PROVE  f[T] = g[T]
<1> DEFINE Bad == {s \in SUBSET T : f[s] # g[s]}
<1> SUFFICES ASSUME Bad # {} PROVE FALSE
  OBVIOUS
<1>1. PICK s \in Bad : \A x \in s : s \ {x} \notin Bad
  <2>1. Bad \in SUBSET SUBSET T
    OBVIOUS
  <2> HIDE DEF Bad
  <2> QED BY <2>1, LeastSubset
<1>2. s \in SUBSET T /\ f[s] # g[s]
  OBVIOUS
<1>3. s # {}
  BY <1>2 DEF IsSumOf
<1>4. PICK x : x \in s
  BY <1>3
<1>5. f[s \ {x}] = g[s \ {x}]
  BY <1>1, <1>2, <1>4
<1>6. f[s] = w[x] + f[s \ {x}] /\ g[s] = v[x] + g[s \ {x}]
  <2>1. s \in SUBSET S /\ s \in SUBSET R
    BY <1>2
  <2> QED BY <1>4, <2>1 DEF IsSumOf
<1> QED BY <1>2, <1>4, <1>5, <1>6

\* The sum that MapThenSumSet computes is that of IsSumOf.
LEMMA TotalIsSum ==
    ASSUME NEW S, IsFiniteSet(S), NEW w, NEW f, IsSumOf(f, w, S)
    PROVE  Total(w, S) = f[S]
<1> DEFINE Is(g) == g = [s \in SUBSET S |->
                           IF s = {} THEN 0
                           ELSE LET x == CHOOSE x \in s : TRUE
                                IN  w[x] + g[s \ {x}]]
           It == CHOOSE g : Is(g)
<1>1. Total(w, S) = It[S]
  BY DEF Total, MapThenSumSet, MapThenFoldSet
<1>2. Is(f)
  <2>1. ASSUME NEW s \in SUBSET S, s # {}
        PROVE  LET x == CHOOSE x \in s : TRUE IN f[s] = w[x] + f[s \ {x}]
    BY <2>1 DEF IsSumOf
  <2>2. f = [s \in SUBSET S |-> f[s]] /\ f[{}] = 0
    BY DEF IsSumOf
  <2> QED BY <2>1, <2>2
<1>3. Is(It)
  <2> HIDE DEF Is
  <2> QED BY <1>2
<1> DEFINE Bad == {s \in SUBSET S : It[s] # f[s]}
<1> SUFFICES ASSUME Bad # {} PROVE FALSE
  BY <1>1
<1>4. PICK s \in Bad : \A x \in s : s \ {x} \notin Bad
  <2>1. Bad \in SUBSET SUBSET S
    OBVIOUS
  <2> HIDE DEF Bad
  <2> QED BY <2>1, LeastSubset
<1> HIDE DEF It
<1>5. s \in SUBSET S /\ It[s] # f[s]
  OBVIOUS
<1>6. s # {}
  BY <1>2, <1>3, <1>5
<1> DEFINE x == CHOOSE x \in s : TRUE
<1>7. x \in s
  BY <1>6
<1>8. It[s] = w[x] + It[s \ {x}] /\ f[s] = w[x] + f[s \ {x}]
  BY <1>2, <1>3, <1>5, <1>6
<1> HIDE DEF x, Is
<1>9. It[s \ {x}] = f[s \ {x}]
  BY <1>4, <1>5, <1>7
<1> QED BY <1>5, <1>8, <1>9

LEMMA TotalType ==
    ASSUME NEW S, IsFiniteSet(S), NEW w \in [S -> Int]
    PROVE  Total(w, S) \in Int
<1>1. PICK f : IsSumOf(f, w, S)
  BY SumExists
<1>2. f[S] \in Int
  BY <1>1 DEF IsSumOf
<1> QED BY <1>1, <1>2, TotalIsSum

\* Any subset can be summed within a set that contains it.
LEMMA TotalOfSubset ==
    ASSUME NEW S, IsFiniteSet(S), NEW w, NEW f, IsSumOf(f, w, S), NEW T \in SUBSET S
    PROVE  Total(w, T) = f[T]
<1> DEFINE g == [s \in SUBSET T |-> f[s]]
<1>1. IsSumOf(g, w, T)
  <2>1. \A s \in SUBSET T : s \in SUBSET S /\ g[s] = f[s] /\ \A x \in s : s \ {x} \in SUBSET T
    OBVIOUS
  <2>2. g \in [SUBSET T -> Int]
    BY DEF IsSumOf
  <2> HIDE DEF g
  <2> QED BY <2>1, <2>2 DEF IsSumOf
<1>2. g[T] = f[T] /\ IsFiniteSet(T)
  BY FS_Subset
<1> HIDE DEF g
<1> QED BY <1>1, <1>2, TotalIsSum

\* One element more.
LEMMA TotalSplit ==
    ASSUME NEW S, IsFiniteSet(S), NEW w \in [S -> Int], NEW T \in SUBSET S, NEW x \in T
    PROVE  /\ Total(w, T) = w[x] + Total(w, T \ {x})
           /\ Total(w, T) \in Int /\ Total(w, T \ {x}) \in Int
<1>1. PICK f : IsSumOf(f, w, S)
  BY SumExists
<1>2. Total(w, T) = f[T] /\ Total(w, T \ {x}) = f[T \ {x}]
  <2>1. T \ {x} \in SUBSET S
    OBVIOUS
  <2> QED BY <1>1, <2>1, TotalOfSubset
<1>3. f[T] = w[x] + f[T \ {x}] /\ f[T] \in Int /\ f[T \ {x}] \in Int
  BY <1>1 DEF IsSumOf
<1> QED BY <1>2, <1>3

LEMMA TotalAgrees ==
    ASSUME NEW S, IsFiniteSet(S), NEW w \in [S -> Int], NEW v \in [S -> Int],
           NEW T \in SUBSET S, \A x \in T : w[x] = v[x]
    PROVE  Total(w, T) = Total(v, T)
<1>1. PICK f : IsSumOf(f, w, S)
  BY SumExists
<1>2. PICK g : IsSumOf(g, v, S)
  BY SumExists
<1>3. Total(w, T) = f[T] /\ Total(v, T) = g[T]
  BY <1>1, <1>2, TotalOfSubset
<1>4. f[T] = g[T]
  BY <1>1, <1>2, SumsAgree, FS_Subset
<1> QED BY <1>3, <1>4

\* One number grows by d.
LEMMA TotalGrows ==
    ASSUME NEW S, IsFiniteSet(S), NEW w \in [S -> Int], NEW v \in [S -> Int], NEW x \in S,
           NEW d \in Int, v[x] = w[x] + d, \A y \in S \ {x} : v[y] = w[y]
    PROVE  Total(v, S) = Total(w, S) + d
<1>1. Total(v, S \ {x}) = Total(w, S \ {x})
  <2> DEFINE T == S \ {x}
  <2>1. T \in SUBSET S /\ \A y \in T : v[y] = w[y]
    OBVIOUS
  <2> HIDE DEF T
  <2>2. Total(v, T) = Total(w, T)
    BY <2>1, TotalAgrees
  <2> QED BY <2>2 DEF T
<1>2. S \in SUBSET S /\ w[x] \in Int
  OBVIOUS
<1>3. Total(w, S) = w[x] + Total(w, S \ {x}) /\ Total(w, S \ {x}) \in Int
  BY <1>2, TotalSplit
<1>4. Total(v, S) = v[x] + Total(v, S \ {x})
  BY <1>2, TotalSplit
<1> QED BY <1>1, <1>2, <1>3, <1>4

\* All numbers are zero.
LEMMA TotalOfZeros ==
    ASSUME NEW S, IsFiniteSet(S), NEW w \in [S -> Int], \A x \in S : w[x] = 0
    PROVE  Total(w, S) = 0
<1> DEFINE f == [s \in SUBSET S |-> 0]
<1>1. \A s \in SUBSET S : \A x \in s : s \ {x} \in SUBSET S /\ w[x] = 0
  OBVIOUS
<1>2. IsSumOf(f, w, S)
  BY <1>1 DEF IsSumOf
<1>3. f[S] = 0
  OBVIOUS
<1> HIDE DEF f
<1> QED BY <1>2, <1>3, TotalIsSum

\* The sum of no numbers, and of natural ones.
LEMMA TotalOfNone == \A w : Total(w, {}) = 0
<1> SUFFICES ASSUME NEW w PROVE Total(w, {}) = 0
  OBVIOUS
<1> DEFINE f == [s \in SUBSET {} |-> 0]
<1>1. IsSumOf(f, w, {}) /\ f[{}] = 0
  BY DEF IsSumOf
<1> HIDE DEF f
<1> QED BY <1>1, TotalIsSum, FS_EmptySet

LEMMA TotalIsNat ==
    ASSUME NEW S, IsFiniteSet(S), NEW w \in [S -> Nat], NEW T \in SUBSET S
    PROVE  Total(w, T) \in Nat
<1> DEFINE Bad == {R \in SUBSET S : Total(w, R) \notin Nat}
<1> SUFFICES ASSUME Bad # {} PROVE FALSE
  OBVIOUS
<1>1. PICK R \in Bad : \A x \in R : R \ {x} \notin Bad
  <2>1. Bad \in SUBSET SUBSET S
    OBVIOUS
  <2> HIDE DEF Bad
  <2> QED BY <2>1, LeastSubset
<1>2. CASE R = {}
  <2>1. Total(w, {}) = 0
    BY TotalOfNone
  <2> QED BY <1>2, <2>1
<1>3. ASSUME NEW x \in R PROVE FALSE
  <2>1. R \ {x} \in SUBSET S /\ x \in S /\ R \in SUBSET S /\ w \in [S -> Int]
    OBVIOUS
  <2>2. Total(w, R \ {x}) \in Nat
    BY <1>1, <2>1
  <2>3. Total(w, R) = w[x] + Total(w, R \ {x})
    BY <1>3, <2>1, TotalSplit
  <2>4. w[x] \in Nat
    BY <2>1
  <2> HIDE DEF Bad
  <2>5. Total(w, R) \in Nat
    BY <2>2, <2>3, <2>4
  <2> QED BY <2>5 DEF Bad
<1> QED BY <1>2, <1>3

\* The sum of natural numbers with one more.
LEMMA TotalWith ==
    ASSUME NEW S, IsFiniteSet(S), NEW w \in [S -> Nat], NEW T \in SUBSET S, NEW x \in S
    PROVE  /\ Total(w, T) \in Nat /\ Total(w, T \union {x}) \in Nat
           /\ Total(w, T \union {x}) = Total(w, T) + (IF x \in T THEN 0 ELSE w[x])
<1> DEFINE U == T \union {x}
<1>1. U \in SUBSET S /\ x \in U /\ w \in [S -> Int] /\ w[x] \in Nat
  OBVIOUS
<1>2. x \notin T => U \ {x} = T
  OBVIOUS
<1>3. x \in T => U = T
  OBVIOUS
<1> HIDE DEF U
<1>4. Total(w, T) \in Nat /\ Total(w, U) \in Nat
  BY <1>1, TotalIsNat
<1>5. Total(w, U) = w[x] + Total(w, U \ {x})
  BY <1>1, TotalSplit
<1>6. Total(w, U) = Total(w, T) + (IF x \in T THEN 0 ELSE w[x])
  <2>1. CASE x \in T
    BY <1>3, <1>4, <2>1
  <2>2. CASE x \notin T
    <3>1. Total(w, U) = w[x] + Total(w, T)
      BY <1>2, <1>5, <2>2
    <3> QED BY <1>1, <1>4, <2>2, <3>1
  <2> QED BY <2>1, <2>2
<1> QED BY <1>4, <1>6 DEF U

-----------------------------------------------------------------------------
(* Least and greatest elements.                                            *)

\* A set of natural numbers has a least one.
LEMMA LeastNatural ==
    ASSUME NEW B \in SUBSET Nat, B # {}
    PROVE  \E m \in B : \A k \in B : m <= k
<1>1. PICK n \in B : TRUE
  OBVIOUS
<1> DEFINE S == 0 .. n
           T == {s \in SUBSET S : \E k \in B : s = 0 .. k}
<1>2. IsWellFoundedOn(StrictSubsetOrdering(S), SUBSET S)
  <2>1. IsFiniteSet(S)
    BY FS_Interval
  <2> HIDE DEF S
  <2> QED BY <2>1, FS_StrictSubsetOrderingWellFounded, FS_FiniteSubsetsOfFinite
<1>3. S \in T
  BY <1>1
<1>4. PICK s \in T : \A t \in T : <<t, s>> \notin StrictSubsetOrdering(S)
  <2>1. T \subseteq SUBSET S
    OBVIOUS
  <2> HIDE DEF T, S
  <2> QED BY <1>2, <1>3, <2>1, WFMin
<1>5. PICK m \in B : s = 0 .. m
  OBVIOUS
<1>6. ASSUME NEW k \in B, k < m PROVE FALSE
  <2>1. k \in Nat /\ m \in Nat
    OBVIOUS
  <2>2. 0 .. k \subseteq 0 .. m /\ m \in 0 .. m /\ m \notin 0 .. k
    BY <1>6, <2>1
  <2>3. 0 .. k \in SUBSET S /\ s \in SUBSET S
    BY <1>5, <2>2
  <2>4. 0 .. k \in T
    BY <2>3
  <2>5. <<0 .. k, s>> \in StrictSubsetOrdering(S)
    <3> HIDE DEF S
    <3> QED BY <1>5, <2>2, <2>3 DEF StrictSubsetOrdering
  <2> QED BY <1>4, <2>4, <2>5
<1> QED BY <1>5, <1>6

\* In a finite set some element has the greatest value.
LEMMA GreatestValue ==
    ASSUME NEW S, IsFiniteSet(S), S # {}, NEW f \in [S -> Int]
    PROVE  \E m \in S : \A x \in S : f[x] <= f[m]
<1> DEFINE Above(i) == {j \in S : f[j] >= f[i]}
           T == {Above(i) : i \in S}
<1>1. T \in SUBSET SUBSET S /\ T # {}
  <2>1. \A i \in S : Above(i) \in SUBSET S
    OBVIOUS
  <2> HIDE DEF Above
  <2> QED BY <2>1
<1>2. IsWellFoundedOn(StrictSubsetOrdering(S), SUBSET S)
  BY FS_StrictSubsetOrderingWellFounded, FS_FiniteSubsetsOfFinite
<1>3. PICK s \in T : \A t \in T : <<t, s>> \notin StrictSubsetOrdering(S)
  <2> HIDE DEF T
  <2> QED BY <1>1, <1>2, WFMin
<1>4. PICK m \in S : s = Above(m)
  OBVIOUS
<1>5. ASSUME NEW x \in S, f[x] > f[m] PROVE FALSE
  <2>1. f[x] \in Int /\ f[m] \in Int
    OBVIOUS
  <2>2. Above(x) \subseteq Above(m) /\ m \in Above(m) /\ m \notin Above(x)
    BY <1>5, <2>1
  <2>3. <<Above(x), Above(m)>> \in StrictSubsetOrdering(S)
    BY <2>2 DEF StrictSubsetOrdering
  <2> QED BY <1>3, <1>4, <2>3
<1> QED BY <1>5

-----------------------------------------------------------------------------
(* Division.                                                               *)

\* Division with a remainder, of negative numbers too.
LEMMA ModParts ==
    ASSUME NEW n \in Int, NEW c \in Nat \ {0}
    PROVE  (n \div c) \in Int /\ (n % c) \in 0 .. c - 1 /\ n = (c * (n \div c)) + (n % c)
OBVIOUS

\* Less than one turn away from zero there is no other multiple of a turn.
LEMMA NoMultiple ==
    ASSUME NEW k \in Int, NEW c \in Nat \ {0}, c * k < c, c * k > -c
    PROVE  k = 0
<1>1. CASE k >= 1
  <2>1. c * k >= c * 1
    BY <1>1
  <2> QED BY <2>1
<1>2. CASE k <= -1
  <2>1. c * (-k) >= c * 1
    BY <1>2
  <2>2. c * (-k) = -(c * k)
    OBVIOUS
  <2> QED BY <2>1, <2>2
<1> QED BY <1>1, <1>2

\* The remainder and the quotient are the only ones.
LEMMA ModUnique ==
    ASSUME NEW n \in Int, NEW c \in Nat \ {0}, NEW q \in Int, NEW r \in 0 .. c - 1, n = (c * q) + r
    PROVE  (n % c) = r /\ (n \div c) = q
<1> DEFINE p == n \div c
           s == n % c
<1>1. p \in Int /\ s \in 0 .. c - 1 /\ n = (c * p) + s
  BY ModParts
<1> HIDE DEF p, s
<1>2. c * (q - p) = s - r
  <2>1. c * (q - p) = (c * q) - (c * p)
    BY <1>1
  <2> QED BY <1>1, <2>1
<1>3. q - p = 0
  <2>1. c * (q - p) < c /\ c * (q - p) > -c
    BY <1>1, <1>2
  <2> QED BY <1>1, <2>1, NoMultiple
<1>4. s = r /\ p = q
  BY <1>1, <1>2, <1>3
<1> QED BY <1>4 DEF s, p
=============================================================================
