------------------------ MODULE ControllerCyclesProofs ------------------------
(***************************************************************************)
(* The properties of ControllerCycles for any controllers, periods, topic  *)
(* depth and spin budget.  The order of a window's rows, which a percentile *)
(* is read from, exists by a least counterexample; the rest is one inductive *)
(* invariant, in parts: what every record says, that a record is named by  *)
(* its controller and number, that it is in one place, and what each row   *)
(* was made of.                                                            *)
(***************************************************************************)
EXTENDS ControllerCycles, FiniteSetTheorems, SequenceTheorems, TLAPS

\* Every nonempty set of naturals has a least element: the induction the proofs
\* below need, from the well-foundedness of strict inclusion of finite sets.
LEMMA LeastNat ==
  ASSUME NEW T \in SUBSET Nat, T # {}
  PROVE  \E x \in T : \A y \in T : x <= y
<1> DEFINE W == {0 .. k : k \in T}
           R == StrictSubsetOrdering(Nat)
<1>1. W \subseteq FiniteSubsetsOf(Nat)
  <2>1. \A k \in T : IsFiniteSet(0 .. k)
    BY FS_Interval
  <2> QED
    BY <2>1 DEF FiniteSubsetsOf
<1>2. IsWellFoundedOn(R, FiniteSubsetsOf(Nat))
  BY FS_StrictSubsetOrderingWellFounded
<1>3. W # {}
  OBVIOUS
<1>4. PICK w \in W : \A v \in W : <<v, w>> \notin R
  <2> HIDE DEF W, R
  <2> QED
    BY <1>1, <1>2, <1>3, WFMin
<1>5. PICK x \in T : w = 0 .. x
  OBVIOUS
<1>6. ASSUME NEW y \in T, y < x PROVE FALSE
  <2>1. 0 .. y \subseteq 0 .. x /\ 0 .. y # 0 .. x /\ 0 .. y \in SUBSET Nat /\ 0 .. x \in SUBSET Nat
    BY <1>6
  <2>2. <<0 .. y, w>> \in R
    BY <1>5, <2>1 DEF StrictSubsetOrdering
  <2> QED
    BY <1>4, <2>2
<1> QED
  BY <1>6

\* What Max and Min return of two numbers.
LEMMA MaxOfTwo ==
  ASSUME NEW a \in Int, NEW b \in Int
  PROVE  Max({a, b}) = IF a >= b THEN a ELSE b
BY DEF Max

LEMMA MinOfTwo ==
  ASSUME NEW a \in Int, NEW b \in Int
  PROVE  Min({a, b}) = IF a <= b THEN a ELSE b
BY DEF Min

\* The rows of a sample can be put in order of their length.
Sorted(s, R) ==
  /\ s \in [1 .. Cardinality(R) -> R] /\ IsInjective(s)
  /\ \A i, j \in DOMAIN s : i < j => Length(s[i]) <= Length(s[j])

\* A least set that could not be put in order would have a shortest row to start with.
LEMMA SortExists ==
  ASSUME NEW U, \A r \in U : Length(r) \in Nat, IsFiniteSet(U)
  PROVE  \E s : Sorted(s, U)
<1> DEFINE Bad == {n \in Nat : \E R \in SUBSET U : Cardinality(R) = n /\ ~ \E s : Sorted(s, R)}
<1>1. SUFFICES ASSUME Bad # {} PROVE FALSE
  <2>1. Cardinality(U) \in Nat
    BY FS_CardinalityType
  <2> QED
    BY <2>1
<1>2. PICK n \in Bad : \A m \in Bad : n <= m
  <2>1. Bad \in SUBSET Nat
    OBVIOUS
  <2> QED
    BY <1>1, <2>1, LeastNat
<1>3. PICK R \in SUBSET U : Cardinality(R) = n /\ ~ \E s : Sorted(s, R)
  OBVIOUS
<1>4. IsFiniteSet(R) /\ n \in Nat
  BY FS_Subset
<1>5. R # {}
  <2> SUFFICES ASSUME R = {} PROVE FALSE
    OBVIOUS
  <2>1. Cardinality(R) = 0
    BY FS_EmptySet
  <2>2. Sorted([i \in 1 .. 0 |-> 0], R)
    BY <2>1 DEF Sorted, IsInjective
  <2> QED
    BY <1>3, <2>2
<1>6. PICK m \in R : \A r \in R : Length(m) <= Length(r)
  <2> DEFINE L == {Length(r) : r \in R}
  <2>1. L \in SUBSET Nat /\ L # {}
    BY <1>5
  <2>2. PICK x \in L : \A y \in L : x <= y
    <3> HIDE DEF L
    <3> QED
      BY <2>1, LeastNat
  <2> QED
    BY <2>2
<1>7. Cardinality(R \ {m}) = n - 1 /\ n - 1 \in Nat
  <2>1. IsFiniteSet(R \ {m}) /\ Cardinality(R \ {m}) = n - 1
    BY <1>3, <1>4, FS_RemoveElement
  <2> QED
    BY <2>1, FS_CardinalityType
<1>8. PICK s : Sorted(s, R \ {m})
  <2>1. n - 1 \notin Bad
    BY <1>2, <1>4
  <2> QED
    BY <1>7, <2>1
<1> DEFINE t == [i \in 1 .. n |-> IF i = 1 THEN m ELSE s[i - 1]]
<1>9. s \in [1 .. (n - 1) -> R \ {m}]
  BY <1>7, <1>8 DEF Sorted
<1>10. \A i \in 1 .. n : i = 1 \/ i - 1 \in 1 .. (n - 1)
  BY <1>7
<1>11. t \in [1 .. n -> R]
  BY <1>9, <1>10
<1>12. IsInjective(t)
  <2> SUFFICES ASSUME NEW i \in 1 .. n, NEW j \in 1 .. n, t[i] = t[j] PROVE i = j
    BY DEF IsInjective
  <2>1. \A a, b \in 1 .. (n - 1) : s[a] = s[b] => a = b
    BY <1>8, <1>9 DEF Sorted, IsInjective
  <2> QED
    BY <1>9, <1>10, <2>1
<1>13. ASSUME NEW i \in 1 .. n, NEW j \in 1 .. n, i < j PROVE Length(t[i]) <= Length(t[j])
  <2>1. j - 1 \in 1 .. (n - 1) /\ t[j] = s[j - 1]
    BY <1>10, <1>13
  <2>2. CASE i = 1
    BY <1>6, <1>9, <2>1, <2>2
  <2>3. CASE i # 1
    <3>1. \A a, b \in 1 .. (n - 1) : a < b => Length(s[a]) <= Length(s[b])
      BY <1>8, <1>9 DEF Sorted
    <3>2. i - 1 \in 1 .. (n - 1) /\ j - 1 \in 1 .. (n - 1) /\ i - 1 < j - 1
      BY <1>10, <1>13, <2>1, <2>3
    <3>3. t[i] = s[i - 1]
      BY <2>3
    <3> QED
      BY <2>1, <3>1, <3>2, <3>3
  <2> QED
    BY <2>2, <2>3
<1>14. Sorted(t, R)
  BY <1>3, <1>11, <1>12, <1>13 DEF Sorted
<1> QED
  BY <1>3, <1>14

\* As many images as there are elements.
LEMMA ImageCard ==
  ASSUME NEW S, IsFiniteSet(S), NEW f, S \subseteq DOMAIN f,
         \A a, b \in S : f[a] = f[b] => a = b
  PROVE  /\ IsFiniteSet({f[a] : a \in S})
         /\ Cardinality({f[a] : a \in S}) = Cardinality(S)
<1> DEFINE T == {f[a] : a \in S}
           g == [a \in S |-> f[a]]
<1>1. g \in Bijection(S, T)
  BY DEF Bijection, Injection, Surjection, IsInjective
<1>2. ExistsBijection(S, T)
  BY <1>1 DEF ExistsBijection
<1> QED
  BY <1>2, FS_Bijection

\* Apart, two sets count together what each counts.
LEMMA Apart ==
  ASSUME NEW S, NEW T, IsFiniteSet(S), IsFiniteSet(T), S \cap T = {}
  PROVE  /\ IsFiniteSet(S \cup T) /\ Cardinality(S) \in Nat /\ Cardinality(T) \in Nat
         /\ Cardinality(S \cup T) = Cardinality(S) + Cardinality(T)
<1>1. /\ IsFiniteSet(S \cup T)
      /\ Cardinality(S \cup T) = Cardinality(S) + Cardinality(T) - Cardinality(S \cap T)
  BY FS_Union
<1>2. Cardinality(S \cap T) = 0
  BY FS_EmptySet
<1>3. Cardinality(S) \in Nat /\ Cardinality(T) \in Nat
  BY FS_CardinalityType
<1> QED
  BY <1>1, <1>2, <1>3

\* ByLength puts the rows in order, every row in its place.
LEMMA ByLengthSorts ==
  ASSUME NEW R, IsFiniteSet(R), \A r \in R : Length(r) \in Nat
  PROVE  /\ Sorted(ByLength(R), R)
         /\ \A r \in R : \E i \in 1 .. Cardinality(R) : ByLength(R)[i] = r
<1> DEFINE n == Cardinality(R)
           s == ByLength(R)
<1>1. Sorted(s, R)
  <2>1. PICK t : Sorted(t, R)
    BY SortExists
  <2> QED
    BY <2>1 DEF Sorted, ByLength
<1>2. s \in Injection(1 .. n, R)
  BY <1>1 DEF Sorted, Injection
<1>3. n \in Nat /\ Cardinality(1 .. n) = n
  <2>1. n \in Nat
    BY FS_CardinalityType
  <2> QED
    BY <2>1, FS_Interval
<1>4. s \in Surjection(1 .. n, R)
  <2> HIDE DEF s
  <2> QED
    BY <1>2, <1>3, FS_Injection
<1> QED
  BY <1>1, <1>4 DEF Surjection

\* The length at place k: k rows are no longer, fewer than k are shorter.
LEMMA AtPlace ==
  ASSUME NEW R, IsFiniteSet(R), \A r \in R : Length(r) \in Nat, NEW k \in 1 .. Cardinality(R)
  PROVE  /\ ByLength(R)[k] \in R
         /\ Within(R, Length(ByLength(R)[k])) \in Nat
         /\ Within(R, Length(ByLength(R)[k])) >= k
         /\ Within(R, Length(ByLength(R)[k]) - 1) \in Nat
         /\ Within(R, Length(ByLength(R)[k]) - 1) < k
<1> DEFINE n == Cardinality(R)
           s == ByLength(R)
           v == Length(s[k])
           Upto == {r \in R : Length(r) <= v}
           Below == {r \in R : Length(r) <= v - 1}
<1>0. n \in Nat
  BY FS_CardinalityType
<1>1. s \in [1 .. n -> R] /\ DOMAIN s = 1 .. n
  BY ByLengthSorts DEF Sorted
<1>2. \A a, b \in 1 .. n : s[a] = s[b] => a = b
  BY <1>1, ByLengthSorts DEF Sorted, IsInjective
<1>3. \A a, b \in 1 .. n : a < b => Length(s[a]) <= Length(s[b])
  BY <1>1, ByLengthSorts DEF Sorted
<1>4. \A r \in R : \E i \in 1 .. n : s[i] = r
  BY ByLengthSorts
<1> HIDE DEF s
<1>5. ASSUME NEW m \in 0 .. n
      PROVE  IsFiniteSet({s[a] : a \in 1 .. m}) /\ Cardinality({s[a] : a \in 1 .. m}) = m
  <2>1. IsFiniteSet(1 .. m) /\ Cardinality(1 .. m) = m
    BY <1>0, FS_Interval
  <2>2. 1 .. m \subseteq 1 .. n
    BY <1>0
  <2>3. \A a, b \in 1 .. m : s[a] = s[b] => a = b
    BY <1>2, <2>2
  <2>4. 1 .. m \subseteq DOMAIN s
    BY <1>1, <2>2
  <2> HIDE DEF n
  <2> QED
    BY <2>1, <2>3, <2>4, ImageCard
<1>6. s[k] \in R /\ v \in Nat
  BY <1>1
<1>7. IsFiniteSet(Upto) /\ IsFiniteSet(Below)
  BY FS_Subset
<1>8. {s[a] : a \in 1 .. k} \subseteq Upto
  <2> SUFFICES ASSUME NEW a \in 1 .. k PROVE s[a] \in R /\ Length(s[a]) <= v
    OBVIOUS
  <2>1. a \in 1 .. n /\ (a < k \/ a = k)
    BY <1>0
  <2> QED
    BY <1>1, <1>3, <1>6, <2>1
<1>9. Below \subseteq {s[a] : a \in 1 .. (k - 1)}
  <2> SUFFICES ASSUME NEW r \in R, Length(r) <= v - 1 PROVE \E a \in 1 .. (k - 1) : s[a] = r
    OBVIOUS
  <2>1. PICK a \in 1 .. n : s[a] = r
    BY <1>4
  <2>2. ~(k < a) /\ k # a
    BY <1>3, <1>6, <2>1
  <2> QED
    BY <1>0, <2>1, <2>2
<1>10. Cardinality(Upto) >= k /\ Cardinality(Upto) \in Nat
  <2>1. Cardinality({s[a] : a \in 1 .. k}) = k
    BY <1>0, <1>5
  <2>2. Cardinality({s[a] : a \in 1 .. k}) <= Cardinality(Upto)
    BY <1>7, <1>8, FS_Subset
  <2> QED
    BY <1>7, <2>1, <2>2, FS_CardinalityType
<1>11. Cardinality(Below) <= k - 1 /\ Cardinality(Below) \in Nat
  <2>1. k - 1 \in 0 .. n
    BY <1>0
  <2>2. IsFiniteSet({s[a] : a \in 1 .. (k - 1)}) /\ Cardinality({s[a] : a \in 1 .. (k - 1)}) = k - 1
    BY <1>5, <2>1
  <2>3. Cardinality(Below) <= Cardinality({s[a] : a \in 1 .. (k - 1)})
    BY <1>9, <2>2, FS_Subset
  <2> QED
    BY <1>7, <2>2, <2>3, FS_CardinalityType
<1>12. Within(R, v) = Cardinality(Upto) /\ Within(R, v - 1) = Cardinality(Below)
  BY DEF Within
<1> QED
  BY <1>0, <1>6, <1>10, <1>11, <1>12 DEF s

\* Percentile is the nearest rank: a length that occurs, at or below which enough
\* rows lie, and below which too few do.
LEMMA PercentileIsNearestRank ==
  ASSUME NEW R, IsFiniteSet(R), R # {}, \A r \in R : Length(r) \in Nat, NEW percent \in 1 .. 100
  PROVE  IsPercentile(Percentile(R, percent), percent, R)
<1> DEFINE n == Cardinality(R)
           k == Rank(n, percent)
<1>1. n \in Nat \ {0}
  BY FS_CardinalityType, FS_EmptySet
<1> DEFINE p == percent * n
<1>2. p \in Nat /\ p >= n /\ p <= 100 * n
  <2>1. (100 - percent) * n \in Nat /\ (percent - 1) * n \in Nat
    BY <1>1
  <2>2. (100 - percent) * n = 100 * n - p /\ (percent - 1) * n = p - n /\ p \in Int
    BY <1>1
  <2> QED
    BY <1>1, <2>1, <2>2
<1>3. k = (p + 99) \div 100
  BY DEF Rank
<1> HIDE DEF p, n
<1>4. k \in 1 .. n /\ 100 * k >= p /\ 100 * (k - 1) < p
  BY <1>1, <1>2, <1>3
<1> HIDE DEF k
<1>5. Max({1, Min({k, n})}) = k
  <2>1. Min({k, n}) = k
    BY <1>1, <1>4, MinOfTwo
  <2>2. k \in Int /\ k >= 1
    BY <1>1, <1>4
  <2>3. Max({1, k}) = IF 1 >= k THEN 1 ELSE k
    BY <2>2, MaxOfTwo
  <2> QED
    BY <2>1, <2>2, <2>3
<1>6. Percentile(R, percent) = Length(ByLength(R)[k])
  BY <1>1, <1>5 DEF Percentile, n, k
<1> DEFINE v == Length(ByLength(R)[k])
<1>7. /\ Within(R, v) \in Nat /\ Within(R, v) >= k
      /\ Within(R, v - 1) \in Nat /\ Within(R, v - 1) < k
  BY <1>4, AtPlace DEF n
<1> HIDE DEF v
<1>8. 100 * Within(R, v) >= p /\ 100 * Within(R, v - 1) < p
  BY <1>1, <1>2, <1>4, <1>7
<1> QED
  BY <1>6, <1>8 DEF IsPercentile, p, n, v

\* The longest row is the hundredth percentile.
LEMMA MaxIsLast ==
  ASSUME NEW R, IsFiniteSet(R), R # {}, \A r \in R : Length(r) \in Nat
  PROVE  IsPercentile(Max({Length(r) : r \in R} \cup {0}), 100, R)
<1> DEFINE n == Cardinality(R)
           s == ByLength(R)
           v == Length(s[n])
<1>1. n \in Nat \ {0}
  BY FS_CardinalityType, FS_EmptySet
<1>2. s \in [1 .. n -> R] /\ DOMAIN s = 1 .. n
  BY ByLengthSorts DEF Sorted
<1>3. \A a, b \in 1 .. n : a < b => Length(s[a]) <= Length(s[b])
  BY <1>2, ByLengthSorts DEF Sorted
<1>4. \A r \in R : \E i \in 1 .. n : s[i] = r
  BY ByLengthSorts
<1> HIDE DEF s
<1>5. s[n] \in R /\ v \in Nat
  BY <1>1, <1>2
<1>6. \A r \in R : Length(r) <= v
  <2> SUFFICES ASSUME NEW r \in R PROVE Length(r) <= v
    OBVIOUS
  <2>1. PICK i \in 1 .. n : s[i] = r
    BY <1>4
  <2>2. i < n \/ i = n
    BY <1>1
  <2> QED
    BY <1>1, <1>3, <1>5, <2>1, <2>2
<1>7. Max({Length(r) : r \in R} \cup {0}) = v
  <2> DEFINE L == {Length(r) : r \in R} \cup {0}
  <2>1. v \in L /\ L \subseteq Nat /\ \A x \in L : v >= x
    BY <1>5, <1>6
  <2> HIDE DEF L, v
  <2>2. \A x \in L : (\A y \in L : x >= y) => x = v
    BY <2>1
  <2>3. Max(L) = v
    BY <2>1, <2>2 DEF Max
  <2> QED
    BY <2>3 DEF L
<1>8. /\ Within(R, v) \in Nat /\ Within(R, v) >= n
      /\ Within(R, v - 1) \in Nat /\ Within(R, v - 1) < n
  <2>1. n \in 1 .. n
    BY <1>1
  <2> HIDE DEF n
  <2> QED
    BY <2>1, AtPlace DEF n, s
<1> HIDE DEF v
<1> QED
  BY <1>1, <1>7, <1>8 DEF IsPercentile

-----------------------------------------------------------------------------
(* The topic *)

\* A sequence cut in two: every element is on one side, on one only if all differ.
LEMMA CutInTwo ==
  ASSUME NEW S, NEW q \in Seq(S), NEW n \in 0 .. Len(q)
  PROVE  LET front == SubSeq(q, 1, n)
             back == SubSeq(q, n + 1, Len(q))
         IN  /\ front \in Seq(S) /\ back \in Seq(S) /\ Len(back) = Len(q) - n
             /\ ToSet(q) = ToSet(front) \cup ToSet(back)
             /\ IsInjective(q) => IsInjective(back) /\ ToSet(front) \cap ToSet(back) = {}
<1> DEFINE front == SubSeq(q, 1, n)
           back == SubSeq(q, n + 1, Len(q))
           l == Len(q)
<1>1. l \in Nat /\ DOMAIN q = 1 .. l /\ \A i \in 1 .. l : q[i] \in S
  OBVIOUS
<1>2. front \in Seq(S) /\ Len(front) = n /\ \A i \in 1 .. n : front[i] = q[i]
  <2>1. \A i \in 1 .. n : q[i] \in S
    BY <1>1
  <2>2. /\ front \in Seq(S) /\ Len(front) = IF 1 <= n THEN n - 1 + 1 ELSE 0
        /\ \A i \in 1 .. n - 1 + 1 : front[i] = q[1 + i - 1]
    BY <2>1, <1>1, SubSeqProperties
  <2> HIDE DEF front
  <2> QED
    BY <1>1, <2>2
<1>3. back \in Seq(S) /\ Len(back) = l - n /\ \A i \in 1 .. l - n : back[i] = q[n + i]
  <2>1. \A i \in (n + 1) .. l : q[i] \in S
    BY <1>1
  <2>2. /\ back \in Seq(S) /\ Len(back) = IF n + 1 <= l THEN l - (n + 1) + 1 ELSE 0
        /\ \A i \in 1 .. l - (n + 1) + 1 : back[i] = q[(n + 1) + i - 1]
    BY <2>1, <1>1, SubSeqProperties
  <2> HIDE DEF back
  <2>3. Len(back) = l - n
    <3>1. l - n = IF n + 1 <= l THEN l - (n + 1) + 1 ELSE 0
      <4>1. n \in Int /\ l \in Int /\ n <= l
        BY <1>1
      <4> HIDE DEF l
      <4> QED
        BY <4>1
    <3> QED
      BY <2>2, <3>1
  <2>4. ASSUME NEW i \in 1 .. l - n PROVE back[i] = q[n + i]
    <3>1. i \in 1 .. l - (n + 1) + 1 /\ (n + 1) + i - 1 = n + i
      BY <1>1
    <3> QED
      BY <2>2, <3>1
  <2> QED
    BY <2>2, <2>3, <2>4
<1> HIDE DEF front, back
<1>4. DOMAIN front = 1 .. n /\ DOMAIN back = 1 .. l - n
  BY <1>2, <1>3
<1>5. ToSet(q) = ToSet(front) \cup ToSet(back)
  <2>1. ASSUME NEW i \in 1 .. l PROVE q[i] \in ToSet(front) \cup ToSet(back)
    <3>1. CASE i <= n
      BY <1>2, <1>4, <3>1 DEF ToSet
    <3>2. CASE i > n
      <4>1. i - n \in 1 .. l - n /\ n + (i - n) = i
        BY <1>1, <3>2
      <4>2. back[i - n] = q[i]
        BY <1>3, <4>1
      <4> QED
        BY <1>4, <4>1, <4>2 DEF ToSet
    <3> QED
      BY <1>1, <3>1, <3>2
  <2>2. ASSUME NEW i \in 1 .. n PROVE front[i] \in ToSet(q)
    BY <1>1, <1>2 DEF ToSet
  <2>3. ASSUME NEW i \in 1 .. l - n PROVE back[i] \in ToSet(q)
    <3>1. n + i \in 1 .. l
      BY <1>1
    <3> QED
      BY <1>1, <1>3, <3>1 DEF ToSet
  <2> QED
    BY <1>1, <1>4, <2>1, <2>2, <2>3 DEF ToSet
<1>6. ASSUME IsInjective(q)
      PROVE  IsInjective(back) /\ ToSet(front) \cap ToSet(back) = {}
  <2>1. \A a, b \in 1 .. l : q[a] = q[b] => a = b
    BY <1>1, <1>6 DEF IsInjective
  <2>2. ASSUME NEW a \in 1 .. l - n, NEW b \in 1 .. l - n, back[a] = back[b] PROVE a = b
    <3>1. n + a \in 1 .. l /\ n + b \in 1 .. l
      BY <1>1
    <3>2. q[n + a] = q[n + b]
      BY <1>3, <2>2
    <3> QED
      BY <1>1, <2>1, <3>1, <3>2
  <2>3. ASSUME NEW a \in 1 .. n, NEW b \in 1 .. l - n PROVE front[a] # back[b]
    <3>1. a \in 1 .. l /\ n + b \in 1 .. l /\ a # n + b
      BY <1>1
    <3> QED
      BY <1>2, <1>3, <2>1, <3>1
  <2> QED
    BY <1>4, <2>2, <2>3 DEF IsInjective, ToSet
<1> QED
  BY <1>2, <1>3, <1>5, <1>6 DEF front, back

\* The topic keeps the newest and drops the rest.
LEMMA KeepLastCuts ==
  ASSUME NEW S, NEW q \in Seq(S)
  PROVE  /\ KeepLast(q) \in Seq(S) /\ Len(KeepLast(q)) <= Depth
         /\ ToSet(q) = ToSet(KeepLast(q)) \cup Overflow(q)
         /\ IsInjective(q) => IsInjective(KeepLast(q)) /\ ToSet(KeepLast(q)) \cap Overflow(q) = {}
<1>1. Depth \in Nat /\ Len(q) \in Nat
  BY TimeAssumption
<1>2. CASE Len(q) <= Depth
  <2>1. SubSeq(q, 1, Len(q) - Depth) = <<>>
    <3>1. Len(q) - Depth \in Int /\ Len(q) - Depth < 1
      BY <1>1, <1>2
    <3> QED
      BY <3>1, SubSeqEmpty
  <2>2. Overflow(q) = {}
    <3>1. ToSet(<<>>) = {}
      BY DEF ToSet
    <3> QED
      BY <2>1, <3>1 DEF Overflow
  <2> QED
    BY <1>2, <2>2 DEF KeepLast
<1>3. CASE ~(Len(q) <= Depth)
  <2> DEFINE n == Len(q) - Depth
  <2>1. n \in 0 .. Len(q) /\ Len(q) - n = Depth
    BY <1>1, <1>3
  <2>2. KeepLast(q) = SubSeq(q, n + 1, Len(q)) /\ Overflow(q) = ToSet(SubSeq(q, 1, n))
    BY <1>3 DEF KeepLast, Overflow
  <2> HIDE DEF n
  <2> QED
    BY <1>1, <2>1, <2>2, CutInTwo
<1> QED
  BY <1>2, <1>3

\* A finite set made a sequence.
LEMMA SetToSeqLists ==
  ASSUME NEW S, IsFiniteSet(S)
  PROVE  SetToSeq(S) \in Seq(S) /\ IsInjective(SetToSeq(S)) /\ ToSet(SetToSeq(S)) = S
<1> DEFINE n == Cardinality(S)
           q == SetToSeq(S)
<1>1. n \in Nat /\ ExistsBijection(1 .. n, S)
  BY FS_CardinalityType
<1>2. PICK f : f \in Bijection(1 .. n, S)
  BY <1>1 DEF ExistsBijection
<1>3. f \in [1 .. n -> S] /\ IsInjective(f)
  BY <1>2 DEF Bijection, Injection
<1>4. q \in [1 .. n -> S] /\ IsInjective(q)
  BY <1>3 DEF SetToSeq
<1>5. q \in Injection(1 .. n, S)
  BY <1>4 DEF Injection
<1>6. Cardinality(1 .. n) = n
  BY <1>1, FS_Interval
<1> HIDE DEF q
<1>7. q \in Surjection(1 .. n, S)
  BY <1>5, <1>6, FS_Injection
<1>8. DOMAIN q = 1 .. n /\ q \in Seq(S)
  BY <1>1, <1>4
<1> QED
  BY <1>4, <1>7, <1>8 DEF Surjection, ToSet, q

\* New messages behind the old ones.
LEMMA Joined ==
  ASSUME NEW S, NEW q \in Seq(S), NEW r \in Seq(S)
  PROVE  /\ q \o r \in Seq(S)
         /\ ToSet(q \o r) = ToSet(q) \cup ToSet(r)
         /\ IsInjective(q) /\ IsInjective(r) /\ ToSet(q) \cap ToSet(r) = {} => IsInjective(q \o r)
<1> DEFINE s == q \o r
           l == Len(q)
           m == Len(r)
<1>1. l \in Nat /\ m \in Nat /\ DOMAIN q = 1 .. l /\ DOMAIN r = 1 .. m
  OBVIOUS
<1>2. /\ s \in Seq(S) /\ Len(s) = l + m
      /\ \A i \in 1 .. l + m : s[i] = IF i <= l THEN q[i] ELSE r[i - l]
  BY ConcatProperties
<1> HIDE DEF s
<1>3. DOMAIN s = 1 .. l + m
  BY <1>2
<1>4. \A i \in 1 .. l : i \in 1 .. l + m /\ s[i] = q[i]
  <2> SUFFICES ASSUME NEW i \in 1 .. l PROVE i \in 1 .. l + m /\ s[i] = q[i]
    OBVIOUS
  <2>1. i \in 1 .. l + m /\ i <= l
    BY <1>1
  <2> QED
    BY <1>2, <2>1
<1>5. \A i \in 1 .. m : l + i \in 1 .. l + m /\ s[l + i] = r[i]
  <2> SUFFICES ASSUME NEW i \in 1 .. m PROVE l + i \in 1 .. l + m /\ s[l + i] = r[i]
    OBVIOUS
  <2>1. l + i \in 1 .. l + m /\ ~(l + i <= l) /\ (l + i) - l = i
    BY <1>1
  <2> QED
    BY <1>2, <2>1
<1>6. \A i \in 1 .. l + m : i \in 1 .. l \/ \E j \in 1 .. m : i = l + j
  <2> SUFFICES ASSUME NEW i \in 1 .. l + m, i \notin 1 .. l PROVE \E j \in 1 .. m : i = l + j
    OBVIOUS
  <2>1. i - l \in 1 .. m /\ i = l + (i - l)
    BY <1>1
  <2> QED
    BY <2>1
<1> HIDE DEF l, m
<1>7. ToSet(s) = ToSet(q) \cup ToSet(r)
  <2>1. ASSUME NEW i \in 1 .. l + m PROVE s[i] \in ToSet(q) \cup ToSet(r)
    <3>1. CASE i \in 1 .. l
      BY <1>1, <1>4, <3>1 DEF ToSet
    <3>2. CASE i \notin 1 .. l
      <4>1. PICK j \in 1 .. m : i = l + j
        BY <1>6, <3>2
      <4> QED
        BY <1>1, <1>5, <4>1 DEF ToSet
    <3> QED
      BY <3>1, <3>2
  <2>2. ASSUME NEW i \in 1 .. l PROVE q[i] \in ToSet(s)
    BY <1>3, <1>4 DEF ToSet
  <2>3. ASSUME NEW i \in 1 .. m PROVE r[i] \in ToSet(s)
    BY <1>3, <1>5 DEF ToSet
  <2> QED
    BY <1>1, <1>3, <2>1, <2>2, <2>3 DEF ToSet
<1>8. ASSUME IsInjective(q), IsInjective(r), ToSet(q) \cap ToSet(r) = {} PROVE IsInjective(s)
  <2> SUFFICES ASSUME NEW a \in 1 .. l + m, NEW b \in 1 .. l + m, s[a] = s[b] PROVE a = b
    BY <1>3 DEF IsInjective
  <2>1. \A i \in 1 .. l, j \in 1 .. m : s[i] # s[l + j]
    BY <1>1, <1>4, <1>5, <1>8 DEF ToSet
  <2>2. CASE a \in 1 .. l /\ b \in 1 .. l
    BY <1>1, <1>4, <1>8, <2>2 DEF IsInjective
  <2>3. CASE a \notin 1 .. l /\ b \notin 1 .. l
    <3>1. PICK i \in 1 .. m : a = l + i
      BY <1>6, <2>3
    <3>2. PICK j \in 1 .. m : b = l + j
      BY <1>6, <2>3
    <3>3. r[i] = r[j]
      BY <1>5, <3>1, <3>2
    <3> QED
      BY <1>1, <1>8, <3>1, <3>2, <3>3 DEF IsInjective
  <2> QED
    BY <1>6, <2>1, <2>2, <2>3
<1> QED
  BY <1>2, <1>7, <1>8 DEF s

-----------------------------------------------------------------------------
(* What the steps that move records do *)

\* TypeOK, with the rows written a sequence.
TypeInv == TypeOK /\ \E S : samples \in Seq(S)

NewRecords == {NewRecord(c) : c \in Controllers}
Ready(A) == {r \in queue \cup A : IsReady(r)}
Mark(r) == [rec |-> r, window |-> window, ts |-> ts, late |-> IsLate(r)]

\* A new record: of its controller, the next number, from where the cycle was
\* expected to the later of now and a period after.
LEMMA NewRecordIs ==
  ASSUME TypeOK, NEW c \in Controllers
  PROVE  /\ ExpectedStart(c) \in Int /\ NewRecord(c) \in Record
         /\ NewRecord(c).name = c /\ NewRecord(c).seq = seq[c] + 1 /\ NewRecord(c).at = lastClock
         /\ NewRecord(c).start = Max({0, ExpectedStart(c)})
         /\ NewRecord(c).end = CycleEnd(NewRecord(c).start)
<1>1. /\ seq[c] \in Nat /\ lastClock \in Nat /\ Period \in Nat /\ expected[c] \in Int \cup {NULL}
      /\ NULL \notin Int
  BY TimeAssumption DEF TypeOK
<1> DEFINE e == ExpectedStart(c)
           start == Max({0, e})
           end == CycleEnd(start)
<1>2. e \in Int
  BY <1>1 DEF ExpectedStart
<1>3. start \in Nat
  BY <1>2, MaxOfTwo
<1>4. end \in Nat
  BY <1>1, <1>3, MaxOfTwo DEF CycleEnd
<1>5. NewRecord(c) = [name |-> c, seq |-> seq[c] + 1, start |-> start, end |-> end,
         lateStart |-> start > e, lateFinish |-> end > e + Period, at |-> lastClock]
  BY DEF NewRecord
<1> HIDE DEF end, start, e
<1>6. (start > e) \in BOOLEAN /\ (end > e + Period) \in BOOLEAN
  OBVIOUS
<1>7. NewRecord(c) \in Record
  BY <1>1, <1>3, <1>4, <1>5, <1>6 DEF Record
<1> QED
  BY <1>2, <1>5, <1>7 DEF e, start, end

LEMMA NewRecordsAre ==
  ASSUME TypeOK
  PROVE  NewRecords \subseteq Record /\ IsFiniteSet(NewRecords)
<1> DEFINE f == [c \in Controllers |-> NewRecord(c)]
<1>1. IsFiniteSet(Controllers)
  BY TimeAssumption
<1>2. \A a, b \in Controllers : f[a] = f[b] => a = b
  BY NewRecordIs
<1>3. IsFiniteSet({f[c] : c \in Controllers})
  <2>1. Controllers \subseteq DOMAIN f
    OBVIOUS
  <2> HIDE DEF f
  <2> QED
    BY <1>1, <1>2, <2>1, ImageCard
<1>4. NewRecords = {f[c] : c \in Controllers}
  BY DEF NewRecords
<1> QED
  BY <1>3, <1>4, NewRecordIs DEF NewRecords

\* A publication adds the new records to what the topic holds or has dropped.
LEMMA PublishMoves ==
  ASSUME TypeOK, PublishCycleMetrics
  PROVE  \E D : /\ topic' \in Seq(Record) /\ Len(topic') <= Depth
                /\ ToSet(topic) \cup NewRecords = ToSet(topic') \cup D /\ lost' = lost \cup D
                /\ IsInjective(topic) /\ ToSet(topic) \cap NewRecords = {} =>
                     IsInjective(topic') /\ ToSet(topic') \cap D = {}
<1> DEFINE more == SetToSeq(NewRecords)
           sent == topic \o more
<1>1. topic \in Seq(Record) /\ NewRecords \subseteq Record
  BY NewRecordsAre DEF TypeOK
<1>2. more \in Seq(NewRecords) /\ IsInjective(more) /\ ToSet(more) = NewRecords
  BY NewRecordsAre, SetToSeqLists
<1>3. topic' = KeepLast(sent) /\ lost' = lost \cup Overflow(sent)
  BY DEF PublishCycleMetrics, NewRecords
<1> HIDE DEF more
<1>4. more \in Seq(Record)
  BY <1>1, <1>2
<1>5. /\ sent \in Seq(Record) /\ ToSet(sent) = ToSet(topic) \cup NewRecords
      /\ IsInjective(topic) /\ ToSet(topic) \cap NewRecords = {} => IsInjective(sent)
  BY <1>1, <1>2, <1>4, Joined
<1> HIDE DEF sent
<1>6. /\ KeepLast(sent) \in Seq(Record) /\ Len(KeepLast(sent)) <= Depth
      /\ ToSet(sent) = ToSet(KeepLast(sent)) \cup Overflow(sent)
      /\ IsInjective(sent) => IsInjective(KeepLast(sent)) /\ ToSet(KeepLast(sent)) \cap Overflow(sent) = {}
  BY <1>5, KeepLastCuts
<1> WITNESS Overflow(sent)
<1> QED
  BY <1>3, <1>5, <1>6

\* A drain takes the oldest messages A off the topic, counts what is due of them
\* and the queue, and leaves the rest in the queue.
LEMMA DrainMoves ==
  ASSUME TypeOK, DrainWindow
  PROVE  \E A \in SUBSET ToSet(topic) :
           /\ topic' \in Seq(Record) /\ Len(topic') <= Depth
           /\ ToSet(topic) = A \cup ToSet(topic')
           /\ IsInjective(topic) => IsInjective(topic') /\ A \cap ToSet(topic') = {}
           /\ queue' = {r \in queue \cup A : ~IsReady(r)}
           /\ samples' = Append(samples, Sample(Ready(A)))
           /\ counted' = counted \cup {Mark(r) : r \in Ready(A)}
<1>1. topic \in Seq(Record) /\ Len(topic) <= Depth /\ Len(topic) \in Nat
  BY DEF TypeOK
<1>2. PICK n \in 0 .. Min({SpinBudget, Len(topic)}) :
        LET arrived == queue \cup ToSet(SubSeq(topic, 1, n))
            ready   == {r \in arrived : IsReady(r)}
        IN  /\ topic' = TopicLeft(n)
            /\ queue' = QueueLeft(arrived)
            /\ samples' = Append(samples, Sample(ready))
            /\ counted' = counted \cup
                {[rec |-> r, window |-> window, ts |-> ts, late |-> IsLate(r)] : r \in ready}
  BY DEF DrainWindow
<1>3. n \in 0 .. Len(topic)
  BY <1>1, MinOfTwo, TimeAssumption
<1> DEFINE A == ToSet(SubSeq(topic, 1, n))
<1>4. /\ topic' = SubSeq(topic, n + 1, Len(topic)) /\ queue' = {r \in queue \cup A : ~IsReady(r)}
      /\ samples' = Append(samples, Sample(Ready(A)))
      /\ counted' = counted \cup {Mark(r) : r \in Ready(A)}
  BY <1>2 DEF TopicLeft, QueueLeft, Ready, Mark
<1>5. /\ topic' \in Seq(Record) /\ Len(topic') = Len(topic) - n
      /\ ToSet(topic) = A \cup ToSet(topic')
      /\ IsInjective(topic) => IsInjective(topic') /\ A \cap ToSet(topic') = {}
  BY <1>1, <1>3, <1>4, CutInTwo
<1>6. Len(topic') <= Depth
  BY <1>1, <1>3, <1>5, TimeAssumption
<1> HIDE DEF A
<1> QED
  BY <1>4, <1>5, <1>6

\* A row for every known controller.
LEMMA SampleCovers ==
  ASSUME NEW R
  PROVE  /\ KnownControllers \subseteq DOMAIN Sample(R)
         /\ DOMAIN Sample(R) = KnownControllers \cup {r.name : r \in R}
         /\ \A c \in DOMAIN Sample(R) : Sample(R)[c] = ControllerSample({r \in R : r.name = c})
BY DEF Sample

\* What Append leaves of the rows, and what it adds.
LEMMA Appended ==
  ASSUME \E S : samples \in Seq(S), NEW x, samples' = Append(samples, x)
  PROVE  /\ \E S : samples' \in Seq(S)
         /\ Len(samples) \in Nat /\ Len(samples') = Len(samples) + 1
         /\ DOMAIN samples = 1 .. Len(samples) /\ DOMAIN samples' = 1 .. Len(samples) + 1
         /\ \A w \in DOMAIN samples : samples'[w] = samples[w]
         /\ samples'[Len(samples) + 1] = x
<1>1. PICK S : samples \in Seq(S)
  OBVIOUS
<1> DEFINE T == S \cup {x}
<1>2. samples \in Seq(T) /\ x \in T
  BY <1>1
<1>3. /\ samples' \in Seq(T) /\ Len(samples') = Len(samples) + 1
      /\ \A i \in 1 .. Len(samples) : samples'[i] = samples[i]
      /\ samples'[Len(samples) + 1] = x
  <2> HIDE DEF T
  <2> QED
    BY <1>2, AppendProperties
<1> QED
  BY <1>2, <1>3

-----------------------------------------------------------------------------
(* Types *)

LEMMA TypeInit == ASSUME Init PROVE TypeInv
<1>1. expected \in [Controllers -> Int \cup {NULL}] /\ seq \in [Controllers -> Nat]
  BY DEF Init
<1>2. topic \in Seq(Record) /\ Len(topic) = 0
  BY DEF Init
<1>3. samples \in Seq({}) /\ DOMAIN samples = {}
  BY DEF Init
<1>4. TypeOK
  BY <1>1, <1>2, <1>3, TimeAssumption DEF Init, TypeOK
<1> QED
  BY <1>3, <1>4 DEF TypeInv

LEMMA TypeStep ==
  ASSUME TypeInv, [Next]_vars
  PROVE  TypeInv'
<1> USE DEF TypeInv
<1>1. CASE OnClock
  <2>1. lastClock' \in Nat
    BY <1>1 DEF TypeOK, OnClock
  <2> QED
    BY <1>1, <2>1 DEF TypeOK, OnClock, loop, sink
<1>2. CASE PublishCycleMetrics
  <2>1. topic' \in Seq(Record) /\ Len(topic') <= Depth /\ lost' \subseteq Record
    <3>1. PICK D : /\ topic' \in Seq(Record) /\ Len(topic') <= Depth
                   /\ ToSet(topic) \cup NewRecords = ToSet(topic') \cup D /\ lost' = lost \cup D
      BY <1>2, PublishMoves
    <3>2. ToSet(topic) \subseteq Record /\ lost \subseteq Record
      BY DEF TypeOK, ToSet
    <3> QED
      BY <3>1, <3>2, NewRecordsAre
  <2>2. seq' \in [Controllers -> Nat]
    BY <1>2 DEF TypeOK, PublishCycleMetrics
  <2>3. expected' \in [Controllers -> Int \cup {NULL}]
    <3>1. \A c \in Controllers : NextExpected(c) \in Int
      <4>1. \A c \in Controllers : ExpectedStart(c) \in Int
        BY NewRecordIs
      <4>2. Period \in Int
        BY TimeAssumption
      <4> QED
        BY <4>1, <4>2 DEF NextExpected
    <3> QED
      BY <1>2, <3>1 DEF PublishCycleMetrics
  <2>4. fires' \in Nat
    BY <1>2 DEF TypeOK, PublishCycleMetrics
  <2> QED
    BY <1>2, <2>1, <2>2, <2>3, <2>4 DEF TypeOK, PublishCycleMetrics, loop, sink
<1>3. CASE DrainWindow
  <2>1. PICK A \in SUBSET ToSet(topic) :
           /\ topic' \in Seq(Record) /\ Len(topic') <= Depth
           /\ queue' = {r \in queue \cup A : ~IsReady(r)}
           /\ samples' = Append(samples, Sample(Ready(A)))
           /\ counted' = counted \cup {Mark(r) : r \in Ready(A)}
    BY <1>3, DrainMoves
  <2>2. A \subseteq Record /\ queue \subseteq Record
    BY DEF TypeOK, ToSet
  <2>3. queue' \subseteq Record
    BY <2>1, <2>2
  <2>4. counted' \subseteq [rec : Record, window : Nat, ts : Nat, late : BOOLEAN]
    <3> SUFFICES ASSUME NEW r \in Ready(A)
                 PROVE  Mark(r) \in [rec : Record, window : Nat, ts : Nat, late : BOOLEAN]
      BY <2>1 DEF TypeOK
    <3>1. r \in Record /\ window \in Nat /\ ts \in Nat /\ IsLate(r) \in BOOLEAN
      BY <2>2 DEF TypeOK, Ready, IsLate
    <3> QED
      BY <3>1 DEF Mark
  <2>5. (\E S : samples' \in Seq(S)) /\ \A w \in DOMAIN samples' : KnownControllers \subseteq DOMAIN samples'[w]
    <3>1. /\ \E S : samples' \in Seq(S)
          /\ Len(samples) \in Nat /\ DOMAIN samples = 1 .. Len(samples)
          /\ DOMAIN samples' = 1 .. Len(samples) + 1
          /\ \A w \in DOMAIN samples : samples'[w] = samples[w]
          /\ samples'[Len(samples) + 1] = Sample(Ready(A))
      BY <2>1, Appended
    <3>2. \A w \in 1 .. Len(samples) + 1 : w \in 1 .. Len(samples) \/ w = Len(samples) + 1
      BY <3>1
    <3>3. \A w \in DOMAIN samples : KnownControllers \subseteq DOMAIN samples[w]
      BY DEF TypeOK
    <3> QED
      BY <3>1, <3>2, <3>3, SampleCovers
  <2> QED
    BY <1>3, <2>1, <2>3, <2>4, <2>5 DEF TypeOK, DrainWindow, publisher
<1>4. CASE DefaultWindow
  <2>1. (\E S : samples' \in Seq(S)) /\ \A w \in DOMAIN samples' : KnownControllers \subseteq DOMAIN samples'[w]
    <3>0. samples' = Append(samples, Sample(DefaultRecords))
      BY <1>4 DEF DefaultWindow
    <3>1. /\ \E S : samples' \in Seq(S)
          /\ Len(samples) \in Nat /\ DOMAIN samples = 1 .. Len(samples)
          /\ DOMAIN samples' = 1 .. Len(samples) + 1
          /\ \A w \in DOMAIN samples : samples'[w] = samples[w]
          /\ samples'[Len(samples) + 1] = Sample(DefaultRecords)
      BY <3>0, Appended
    <3>2. \A w \in 1 .. Len(samples) + 1 : w \in 1 .. Len(samples) \/ w = Len(samples) + 1
      BY <3>1
    <3>3. \A w \in DOMAIN samples : KnownControllers \subseteq DOMAIN samples[w]
      BY DEF TypeOK
    <3> QED
      BY <3>1, <3>2, <3>3, SampleCovers
  <2> QED
    BY <1>4, <2>1 DEF TypeOK, DefaultWindow, publisher
<1>5. CASE Tick
  BY <1>5 DEF TypeOK, Tick, loop, publisher, sink
<1>6. CASE OpenWindow
  <2>1. window' \in Nat \ {0}
    BY <1>6 DEF TypeOK, OpenWindow
  <2> QED
    BY <1>6, <2>1 DEF TypeOK, OpenWindow, publisher, sink
<1>7. CASE UNCHANGED vars
  BY <1>7 DEF TypeOK, vars, loop, publisher, sink
<1> QED
  BY <1>1, <1>2, <1>3, <1>4, <1>5, <1>6, <1>7 DEF Next, Terminated

\* Every variable keeps its type, and the topic never holds more than its depth.
THEOREM TypeCorrect == Spec => []TypeOK
<1>1. Init => TypeInv
  BY TypeInit
<1>2. TypeInv /\ [Next]_vars => TypeInv'
  BY TypeStep
<1>3. TypeInv => TypeOK
  BY DEF TypeInv
<1> QED
  BY <1>1, <1>2, <1>3, PTL DEF Spec

-----------------------------------------------------------------------------
(* Time *)

\* A window is drained with the clock on its first microsecond, and left with the
\* clock on the first of the next.
TimeInv ==
  /\ ts = (window - 1) * StepLength
  /\ clock \in ts .. ts + StepLength /\ (phase = "drain" => clock = ts)
  /\ lastClock <= clock

LEMMA TimeInit == ASSUME Init PROVE TimeInv
BY TimeAssumption DEF Init, TimeInv

LEMMA NextMultiple ==
  ASSUME NEW k \in Int, NEW d \in Int
  PROVE  k * d \in Int /\ (k - 1) * d \in Int /\ k * d = (k - 1) * d + d
OBVIOUS

LEMMA TimeStep ==
  ASSUME TypeOK, TimeInv, [Next]_vars
  PROVE  TimeInv'
<1>0. /\ clock \in Nat /\ ts \in Nat /\ window \in Nat /\ lastClock \in Nat /\ StepLength \in Nat \ {0}
      /\ phase \in {"drain", "step"}
  BY TimeAssumption DEF TypeOK
<1>1. CASE OnClock
  BY <1>0, <1>1 DEF TimeInv, OnClock, loop
<1>2. CASE PublishCycleMetrics \/ UNCHANGED vars
  BY <1>2 DEF TimeInv, PublishCycleMetrics, vars, loop, publisher
<1>3. CASE DrainWindow \/ DefaultWindow
  BY <1>0, <1>3 DEF TimeInv, DrainWindow, DefaultWindow, publisher
<1>4. CASE Tick
  BY <1>0, <1>4 DEF TimeInv, Tick, loop, publisher
<1>5. CASE OpenWindow
  <2>1. window' = window + 1 /\ ts' = clock /\ clock' = clock /\ lastClock' = lastClock
        /\ clock = ts + StepLength
    BY <1>5 DEF OpenWindow, publisher
  <2>2. window * StepLength = (window - 1) * StepLength + StepLength
    BY <1>0, NextMultiple
  <2>3. ts' = (window' - 1) * StepLength
    <3>1. window' - 1 = window
      BY <1>0, <2>1
    <3> QED
      BY <2>1, <2>2, <3>1 DEF TimeInv
  <2> QED
    BY <1>0, <2>1, <2>3 DEF TimeInv
<1> QED
  BY <1>1, <1>2, <1>3, <1>4, <1>5 DEF Next, Terminated

-----------------------------------------------------------------------------
(* Records *)

CountedRecords == {e.rec : e \in counted}

\* What every record says of its controller: it starts where the controller's
\* next one is expected, less a period for each record from it on, and ends at
\* the clock it was published with or a period after its start.
RecordOK(r) ==
  /\ r \in Record
  /\ r.at <= lastClock /\ r.at <= r.end /\ r.end >= r.start + Period
  /\ r.end = r.at \/ r.end = r.start + Period
  /\ r.seq <= seq[r.name]
  /\ r.start = Max({0, expected[r.name] - Period * (seq[r.name] - r.seq + 1)})
RecordInv ==
  /\ \A r \in AllRecords : RecordOK(r)
  /\ \A c \in Controllers : seq[c] > 0 => expected[c] \in Int

\* Controller and number name one record, and every number up to the last is one's.
NamedInv ==
  /\ IsFiniteSet(AllRecords)
  /\ \A r, s \in AllRecords : r.name = s.name /\ r.seq = s.seq => r = s
  /\ \A c \in Controllers : \A k \in 1 .. seq[c] : \E r \in AllRecords : r.name = c /\ r.seq = k

LEMMA PublishAll ==
  ASSUME TypeOK, PublishCycleMetrics
  PROVE  AllRecords' = AllRecords \cup NewRecords
<1>1. PICK D : ToSet(topic) \cup NewRecords = ToSet(topic') \cup D /\ lost' = lost \cup D
  BY PublishMoves
<1>2. queue' = queue /\ counted' = counted
  BY DEF PublishCycleMetrics, sink
<1> QED
  BY <1>1, <1>2 DEF AllRecords

LEMMA DrainCounts ==
  ASSUME NEW A, counted' = counted \cup {Mark(r) : r \in Ready(A)}
  PROVE  CountedRecords' = CountedRecords \cup Ready(A)
<1>1. \A r : Mark(r).rec = r
  BY DEF Mark
<1> QED
  BY <1>1 DEF CountedRecords

LEMMA OthersKeepAll ==
  ASSUME TypeOK, [Next]_vars, ~PublishCycleMetrics
  PROVE  AllRecords' = AllRecords /\ seq' = seq /\ expected' = expected
<1>1. CASE DrainWindow
  <2>1. PICK A \in SUBSET ToSet(topic) :
           /\ ToSet(topic) = A \cup ToSet(topic')
           /\ queue' = {r \in queue \cup A : ~IsReady(r)}
           /\ counted' = counted \cup {Mark(r) : r \in Ready(A)}
    BY <1>1, DrainMoves
  <2>2. CountedRecords' = CountedRecords \cup Ready(A) /\ lost' = lost
        /\ seq' = seq /\ expected' = expected
    BY <1>1, <2>1, DrainCounts DEF DrainWindow, publisher
  <2>3. queue' \cup Ready(A) = queue \cup A
    BY <2>1 DEF Ready
  <2>4. AllRecords = ToSet(topic) \cup queue \cup CountedRecords \cup lost
    BY DEF AllRecords, CountedRecords
  <2>5. AllRecords' = ToSet(topic') \cup queue' \cup CountedRecords' \cup lost'
    BY DEF AllRecords, CountedRecords
  <2> QED
    BY <2>1, <2>2, <2>3, <2>4, <2>5
<1>2. CASE ~DrainWindow
  BY <1>2 DEF Next, OnClock, DefaultWindow, Tick, OpenWindow, Terminated, vars, sink, publisher, loop, AllRecords
<1> QED
  BY <1>1, <1>2

LEMMA RecordInit == ASSUME Init PROVE AllRecords = {} /\ RecordInv /\ NamedInv
<1>1. AllRecords = {}
  <2>1. ToSet(<<>>) = {}
    BY DEF ToSet
  <2> QED
    BY <2>1 DEF Init, AllRecords
<1>2. \A c \in Controllers : seq[c] = 0
  BY DEF Init
<1> QED
  BY <1>1, <1>2, FS_EmptySet DEF RecordInv, NamedInv

LEMMA RecordStep ==
  ASSUME TypeOK, RecordInv, [Next]_vars
  PROVE  RecordInv'
<1>0. /\ lastClock \in Nat /\ Period \in Nat \ {0} /\ NULL \notin Int
      /\ seq \in [Controllers -> Nat] /\ expected \in [Controllers -> Int \cup {NULL}]
  BY TimeAssumption DEF TypeOK
<1>1. CASE PublishCycleMetrics
  <2>1. \A c \in Controllers : seq'[c] = seq[c] + 1 /\ expected'[c] = ExpectedStart(c) + Period
                               /\ ExpectedStart(c) \in Int
    BY <1>1, NewRecordIs DEF PublishCycleMetrics, NextExpected
  <2>2. \A c \in Controllers : expected'[c] \in Int
    BY <1>0, <2>1
  <2>3. lastClock' = lastClock
    BY <1>1 DEF PublishCycleMetrics
  <2>4. ASSUME NEW r \in AllRecords PROVE RecordOK(r)'
    <3>1. RecordOK(r) /\ r \in Record
      BY DEF RecordInv, RecordOK
    <3> DEFINE c == r.name
               k == seq[c] - r.seq + 1
    <3>2. c \in Controllers /\ r.seq \in Nat \ {0} /\ r.seq <= seq[c] /\ seq[c] \in Nat
      BY <1>0, <3>1 DEF Record, RecordOK
    <3>3. expected[c] \in Int /\ ExpectedStart(c) = expected[c]
      BY <1>0, <3>2 DEF RecordInv, ExpectedStart
    <3>4. k \in Int /\ seq'[c] - r.seq + 1 = k + 1 /\ r.seq <= seq'[c]
      BY <2>1, <3>2
    <3> HIDE DEF k
    <3>5. Period * (k + 1) = Period * k + Period /\ Period * k \in Int
      BY <1>0, <3>4
    <3>6. expected'[c] - Period * (k + 1) = expected[c] - Period * k
      BY <1>0, <2>1, <3>2, <3>3, <3>5
    <3>7. r.start = Max({0, expected'[c] - Period * (seq'[c] - r.seq + 1)})
      BY <3>1, <3>4, <3>6 DEF RecordOK, k
    <3> QED
      BY <2>3, <3>1, <3>4, <3>7 DEF RecordOK
  <2>5. ASSUME NEW r \in NewRecords PROVE RecordOK(r)'
    <3>1. PICK c \in Controllers : r = NewRecord(c)
      BY DEF NewRecords
    <3> DEFINE e == ExpectedStart(c)
    <3>2. /\ e \in Int /\ r \in Record /\ r.name = c /\ r.seq = seq[c] + 1 /\ r.at = lastClock
          /\ r.start = Max({0, e}) /\ r.end = CycleEnd(r.start)
      BY <3>1, NewRecordIs
    <3> HIDE DEF e
    <3>3. r.start \in Nat /\ r.end = IF lastClock >= r.start + Period THEN lastClock ELSE r.start + Period
      <4>1. r.start \in Nat
        BY <3>2 DEF Record
      <4> QED
        BY <1>0, <3>2, <4>1, MaxOfTwo DEF CycleEnd
    <3>4. r.seq = seq'[c] /\ seq[c] \in Nat
      BY <1>0, <2>1, <3>2
    <3>5. expected'[c] - Period * (seq'[c] - r.seq + 1) = e
      <4>1. seq'[c] - r.seq + 1 = 1
        BY <3>2, <3>4
      <4>2. expected'[c] = e + Period
        BY <2>1 DEF e
      <4> QED
        BY <1>0, <3>2, <4>1, <4>2
    <3>6. r.at <= lastClock' /\ r.at <= r.end /\ r.end >= r.start + Period
          /\ (r.end = r.at \/ r.end = r.start + Period)
      BY <1>0, <2>3, <3>2, <3>3
    <3>7. r.seq <= seq'[r.name]
      BY <3>2, <3>4
    <3> QED
      BY <3>2, <3>5, <3>6, <3>7 DEF RecordOK
  <2> QED
    BY <1>1, <2>2, <2>4, <2>5, PublishAll DEF RecordInv
<1>2. CASE ~PublishCycleMetrics
  <2>1. AllRecords' = AllRecords /\ seq' = seq /\ expected' = expected
    BY <1>2, OthersKeepAll
  <2>2. lastClock' \in Nat /\ lastClock <= lastClock'
    BY <1>0, <1>2 DEF Next, OnClock, DrainWindow, DefaultWindow, Tick, OpenWindow, Terminated, vars, publisher
  <2>3. ASSUME NEW r \in AllRecords PROVE RecordOK(r)'
    <3>1. RecordOK(r) /\ r.at \in Nat
      BY DEF RecordInv, RecordOK, Record
    <3>2. r.at <= lastClock'
      BY <1>0, <2>2, <3>1 DEF RecordOK
    <3> QED
      BY <2>1, <3>1, <3>2 DEF RecordOK
  <2> QED
    BY <2>1, <2>3 DEF RecordInv
<1> QED
  BY <1>1, <1>2

LEMMA NamedStep ==
  ASSUME TypeOK, RecordInv, NamedInv, [Next]_vars
  PROVE  NamedInv'
<1>1. CASE PublishCycleMetrics
  <2>0. seq \in [Controllers -> Nat] /\ \A c \in Controllers : seq'[c] = seq[c] + 1
    BY <1>1 DEF TypeOK, PublishCycleMetrics
  <2>1. AllRecords' = AllRecords \cup NewRecords
    BY <1>1, PublishAll
  <2>2. IsFiniteSet(AllRecords')
    BY <2>1, NewRecordsAre, FS_Union DEF NamedInv
  <2>3. \A r \in NewRecords : r.name \in Controllers /\ r = NewRecord(r.name) /\ r.seq = seq[r.name] + 1
    <3> SUFFICES ASSUME NEW c \in Controllers
                 PROVE  NewRecord(c).name = c /\ NewRecord(c).seq = seq[c] + 1
      BY DEF NewRecords
    <3> QED
      BY NewRecordIs
  <2>4. \A r \in AllRecords : r.name \in Controllers /\ r.seq \in Nat \ {0} /\ r.seq <= seq[r.name]
    BY DEF RecordInv, RecordOK, Record
  <2>5. \A r \in AllRecords, s \in NewRecords : ~(r.name = s.name /\ r.seq = s.seq)
    BY <2>0, <2>3, <2>4
  <2>6. \A r, s \in AllRecords' : r.name = s.name /\ r.seq = s.seq => r = s
    <3> SUFFICES ASSUME NEW r \in AllRecords \cup NewRecords, NEW s \in AllRecords \cup NewRecords,
                        r.name = s.name, r.seq = s.seq
                 PROVE  r = s
      BY <2>1
    <3>1. CASE r \in AllRecords /\ s \in AllRecords
      BY <3>1 DEF NamedInv
    <3>2. CASE r \in NewRecords /\ s \in NewRecords
      BY <2>3, <3>2
    <3> QED
      BY <2>5, <3>1, <3>2
  <2>7. ASSUME NEW c \in Controllers, NEW k \in 1 .. seq'[c]
        PROVE  \E r \in AllRecords' : r.name = c /\ r.seq = k
    <3>1. CASE k \in 1 .. seq[c]
      BY <2>1, <3>1 DEF NamedInv
    <3>2. CASE k = seq[c] + 1
      <4>1. NewRecord(c) \in NewRecords /\ NewRecord(c).name = c /\ NewRecord(c).seq = k
        BY <3>2, NewRecordIs DEF NewRecords
      <4> QED
        BY <2>1, <4>1
    <3>3. k \in 1 .. seq[c] \/ k = seq[c] + 1
      BY <2>0
    <3> QED
      BY <3>1, <3>2, <3>3
  <2> QED
    BY <2>2, <2>6, <2>7 DEF NamedInv
<1>2. CASE ~PublishCycleMetrics
  BY <1>2, OthersKeepAll DEF NamedInv
<1> QED
  BY <1>1, <1>2

\* So the controller's records and their numbers are as many.
LEMMA AsManyAsNumbered ==
  ASSUME TypeOK, RecordInv, NamedInv, NEW c \in Controllers
  PROVE  IsFiniteSet(Of(AllRecords, c)) /\ Cardinality(Of(AllRecords, c)) = seq[c]
<1> DEFINE R == Of(AllRecords, c)
           f == [r \in R |-> r.seq]
<1>1. IsFiniteSet(R)
  BY FS_Subset DEF NamedInv, Of
<1>2. \A r \in R : r.seq \in 1 .. seq[c]
  <2> SUFFICES ASSUME NEW r \in R PROVE r.seq \in 1 .. seq[c]
    OBVIOUS
  <2>1. RecordOK(r) /\ r.name = c
    BY DEF Of, RecordInv
  <2>2. r.seq \in Nat \ {0} /\ r.seq <= seq[c] /\ seq[c] \in Nat
    BY <2>1 DEF RecordOK, Record, TypeOK
  <2> QED
    BY <2>2
<1>3. \A r, s \in R : f[r] = f[s] => r = s
  BY DEF Of, NamedInv
<1>4. {f[r] : r \in R} = 1 .. seq[c]
  <2>1. \A k \in 1 .. seq[c] : \E r \in R : r.seq = k
    BY DEF Of, NamedInv
  <2> HIDE DEF R
  <2> QED
    BY <1>2, <2>1
<1>5. Cardinality({f[r] : r \in R}) = Cardinality(R)
  <2>1. R \subseteq DOMAIN f
    OBVIOUS
  <2> HIDE DEF f, R
  <2> QED
    BY <1>1, <1>3, <2>1, ImageCard
<1>6. seq[c] \in Nat /\ Cardinality(1 .. seq[c]) = seq[c]
  <2>1. seq[c] \in Nat
    BY DEF TypeOK
  <2> QED
    BY <2>1, FS_Interval
<1> QED
  BY <1>1, <1>4, <1>5, <1>6

\* Two records of one controller are as many periods apart as their numbers.
LEMMA SpacedByPeriods ==
  ASSUME TypeOK, RecordInv
  PROVE  CyclesEvenlySpaced
<1>0. Period \in Nat \ {0} /\ seq \in [Controllers -> Nat]
  BY TimeAssumption DEF TypeOK
<1>1. ASSUME NEW r \in AllRecords PROVE r.end - r.start >= Period
  <2>1. RecordOK(r)
    BY DEF RecordInv
  <2> QED
    BY <1>0, <2>1 DEF RecordOK, Record
<1>2. ASSUME NEW r \in AllRecords, NEW s \in AllRecords, r.name = s.name, r.start > 0, s.seq > r.seq
      PROVE  s.start = r.start + Period * (s.seq - r.seq)
  <2>1. RecordOK(r) /\ RecordOK(s)
    BY DEF RecordInv
  <2> DEFINE c == r.name
             e == expected[c]
             k == seq[c] - r.seq + 1
             m == seq[c] - s.seq + 1
             d == s.seq - r.seq
  <2>2. c \in Controllers /\ r.seq \in Nat \ {0} /\ s.seq \in Nat \ {0} /\ seq[c] \in Nat
        /\ r.seq <= seq[c]
    BY <1>0, <2>1 DEF RecordOK, Record
  <2>3. e \in Int
    BY <2>2 DEF RecordInv
  <2>4. k \in Int /\ m \in Int /\ d \in Nat /\ k = m + d
    BY <1>2, <2>2
  <2>5. r.start = Max({0, e - Period * k}) /\ s.start = Max({0, e - Period * m})
    BY <1>2, <2>1 DEF RecordOK
  <2> HIDE DEF e, k, m, d
  <2>6. Period * k = Period * m + Period * d /\ Period * m \in Int /\ Period * d \in Nat
    BY <1>0, <2>4
  <2>7. r.start = e - Period * k
    <3>1. e - Period * k \in Int
      BY <2>3, <2>6, <1>0, <2>4
    <3> QED
      BY <1>2, <2>5, <3>1, MaxOfTwo
  <2>8. s.start = e - Period * m
    <3>1. e - Period * m \in Int /\ e - Period * m >= 0
      BY <1>2, <2>3, <2>6, <2>7
    <3>2. s.start = IF 0 >= e - Period * m THEN 0 ELSE e - Period * m
      BY <2>5, <3>1, MaxOfTwo
    <3> QED
      BY <3>1, <3>2
  <2> QED
    BY <2>3, <2>6, <2>7, <2>8 DEF d
<1> QED
  BY <1>1, <1>2 DEF CyclesEvenlySpaced

-----------------------------------------------------------------------------
(* Places *)

\* A record is in one place: the topic, the queue, a row, or dropped.
PlacesInv ==
  /\ IsInjective(topic)
  /\ ToSet(topic) \cap queue = {} /\ ToSet(topic) \cap CountedRecords = {} /\ ToSet(topic) \cap lost = {}
  /\ queue \cap CountedRecords = {} /\ queue \cap lost = {} /\ CountedRecords \cap lost = {}

LEMMA PlacesInit == ASSUME Init PROVE PlacesInv
<1>1. topic = <<>> /\ queue = {} /\ CountedRecords = {} /\ lost = {}
  BY DEF Init, CountedRecords
<1>2. IsInjective(topic)
  BY <1>1 DEF IsInjective
<1>3. ToSet(topic) = {}
  BY <1>1 DEF ToSet
<1> QED
  BY <1>1, <1>2, <1>3 DEF PlacesInv

LEMMA NewAreNew ==
  ASSUME TypeOK, RecordInv
  PROVE  NewRecords \cap AllRecords = {}
<1>1. ASSUME NEW c \in Controllers, NewRecord(c) \in AllRecords PROVE FALSE
  <2>1. NewRecord(c).name = c /\ NewRecord(c).seq = seq[c] + 1 /\ seq[c] \in Nat
    BY NewRecordIs DEF TypeOK
  <2>2. NewRecord(c).seq <= seq[NewRecord(c).name]
    BY <1>1 DEF RecordInv, RecordOK
  <2> QED
    BY <2>1, <2>2
<1> QED
  BY <1>1 DEF NewRecords

LEMMA PlacesStep ==
  ASSUME TypeOK, RecordInv, PlacesInv, [Next]_vars
  PROVE  PlacesInv'
<1>1. CASE PublishCycleMetrics
  <2>1. PICK D : /\ ToSet(topic) \cup NewRecords = ToSet(topic') \cup D /\ lost' = lost \cup D
                 /\ IsInjective(topic) /\ ToSet(topic) \cap NewRecords = {} =>
                     IsInjective(topic') /\ ToSet(topic') \cap D = {}
    BY <1>1, PublishMoves
  <2>2. queue' = queue /\ CountedRecords' = CountedRecords
    BY <1>1 DEF PublishCycleMetrics, sink, CountedRecords
  <2>3. /\ NewRecords \cap ToSet(topic) = {} /\ NewRecords \cap queue = {}
        /\ NewRecords \cap CountedRecords = {} /\ NewRecords \cap lost = {}
    BY NewAreNew DEF AllRecords, CountedRecords
  <2>4. IsInjective(topic') /\ ToSet(topic') \cap D = {}
    BY <2>1, <2>3 DEF PlacesInv
  <2>5. /\ ToSet(topic') \subseteq ToSet(topic) \cup NewRecords /\ D \subseteq ToSet(topic) \cup NewRecords
    BY <2>1
  <2> QED
    BY <2>1, <2>2, <2>3, <2>4, <2>5 DEF PlacesInv
<1>2. CASE DrainWindow
  <2>1. PICK A \in SUBSET ToSet(topic) :
           /\ ToSet(topic) = A \cup ToSet(topic')
           /\ IsInjective(topic) => IsInjective(topic') /\ A \cap ToSet(topic') = {}
           /\ queue' = {r \in queue \cup A : ~IsReady(r)}
           /\ counted' = counted \cup {Mark(r) : r \in Ready(A)}
    BY <1>2, DrainMoves
  <2>2. CountedRecords' = CountedRecords \cup Ready(A) /\ lost' = lost
    BY <1>2, <2>1, DrainCounts DEF DrainWindow
  <2>3. IsInjective(topic') /\ A \cap ToSet(topic') = {}
    BY <2>1 DEF PlacesInv
  <2>4. queue' \cap Ready(A) = {} /\ queue' \subseteq queue \cup A /\ Ready(A) \subseteq queue \cup A
    BY <2>1 DEF Ready
  <2> QED
    BY <2>1, <2>2, <2>3, <2>4 DEF PlacesInv
<1>3. CASE ~PublishCycleMetrics /\ ~DrainWindow
  <2>1. topic' = topic /\ queue' = queue /\ counted' = counted /\ lost' = lost
    BY <1>3 DEF Next, OnClock, DefaultWindow, Tick, OpenWindow, Terminated, vars, sink
  <2> QED
    BY <2>1 DEF PlacesInv, CountedRecords
<1> QED
  BY <1>1, <1>2, <1>3

-----------------------------------------------------------------------------
(* Rows *)

\* A division and the multiples it lies between.
LEMMA DivBelow ==
  ASSUME NEW a \in Nat, NEW k \in Int, NEW d \in Nat \ {0}
  PROVE  a \div d \in Nat /\ (a < k * d <=> a \div d < k)
<1> DEFINE q == a \div d
<1>1. q \in Int /\ q * d <= a /\ a < q * d + d
  <2>1. a = d * (a \div d) + (a % d) /\ 0 <= a % d /\ a % d < d /\ a \div d \in Int /\ a % d \in Int
    OBVIOUS
  <2> QED
    BY <2>1
<1> HIDE DEF q
<1>2. q >= 0
  <2>1. ASSUME q <= -1 PROVE FALSE
    <3>1. (-1 - q) * d >= 0 /\ (-1 - q) * d = -d - q * d
      BY <1>1, <2>1
    <3> QED
      BY <1>1, <3>1
  <2> QED
    BY <1>1, <2>1
<1>3. ASSUME q < k PROVE a < k * d
  <2>1. (k - q - 1) * d >= 0 /\ (k - q - 1) * d = k * d - q * d - d
    BY <1>1, <1>3
  <2> QED
    BY <1>1, <2>1
<1>4. ASSUME ~(q < k) PROVE ~(a < k * d)
  <2>1. (q - k) * d >= 0 /\ (q - k) * d = q * d - k * d
    BY <1>1, <1>4
  <2> QED
    BY <1>1, <2>1
<1> QED
  BY <1>1, <1>2, <1>3, <1>4 DEF q

\* Late is what lies in an earlier window.
LEMMA LateIsEarlier ==
  ASSUME NEW a \in Nat, NEW w \in Int
  PROVE  a < (w - 1) * StepLength <=> WindowOf(a) < w
<1>1. StepLength \in Nat \ {0}
  BY TimeAssumption
<1>2. a \div StepLength \in Nat /\ (a < (w - 1) * StepLength <=> a \div StepLength < w - 1)
  BY <1>1, DivBelow
<1> QED
  BY <1>2 DEF WindowOf

\* One row describes the records it is made of.
LEMMA SampleDescribes ==
  ASSUME TypeOK, TimeInv, NEW R, IsFiniteSet(R), R \subseteq Record, \A r \in R : r.end >= r.start
  PROVE  Describes(ControllerSample(R), R, window)
<1>1. \A r \in R : r.end \in Nat /\ Length(r) \in Nat
  BY DEF Record, Length
<1>2. {r \in R : IsLate(r)} = {r \in R : WindowOf(r.end) < window}
  <2> SUFFICES ASSUME NEW r \in R PROVE IsLate(r) <=> WindowOf(r.end) < window
    OBVIOUS
  <2>1. window \in Int /\ ts = (window - 1) * StepLength
    BY DEF TypeOK, TimeInv
  <2> QED
    BY <1>1, <2>1, LateIsEarlier DEF IsLate
<1>3. CASE R = {}
  <2>1. Cardinality(R) = 0
    BY <1>3, FS_EmptySet
  <2>2. Percentile(R, 50) = 0 /\ Percentile(R, 95) = 0
    BY <2>1 DEF Percentile
  <2>3. Max({Length(r) : r \in R} \cup {0}) = 0
    BY <1>3 DEF Max
  <2> QED
    BY <1>2, <1>3, <2>2, <2>3 DEF Describes, ControllerSample
<1>4. CASE R # {}
  <2>1. IsPercentile(Percentile(R, 50), 50, R) /\ IsPercentile(Percentile(R, 95), 95, R)
    BY <1>1, <1>4, PercentileIsNearestRank
  <2>2. IsPercentile(Max({Length(r) : r \in R} \cup {0}), 100, R)
    BY <1>1, <1>4, MaxIsLast
  <2> QED
    BY <1>2, <1>4, <2>1, <2>2 DEF Describes, ControllerSample
<1> QED
  BY <1>3, <1>4

\* The row of a loop without a source: one cycle, as long as the window.
LEMMA DefaultDescribes ==
  ASSUME TypeOK
  PROVE  LET s == Sample(DefaultRecords)
         IN  /\ DOMAIN s = KnownControllers
             /\ \A c \in KnownControllers :
                  /\ s[c].cycles = 1 /\ s[c].late = 0
                  /\ s[c].p50 = WindowLength /\ s[c].max = WindowLength
<1> DEFINE s == Sample(DefaultRecords)
           d(c) == [name |-> c, start |-> ts, end |-> ts + WindowLength,
                    lateStart |-> FALSE, lateFinish |-> FALSE]
<1>1. DefaultRecords = {d(c) : c \in KnownControllers}
  BY DEF DefaultRecords
<1>2. DOMAIN s = KnownControllers
  <2>1. {r.name : r \in DefaultRecords} = KnownControllers
    <3>1. \A c : d(c).name = c
      OBVIOUS
    <3> HIDE DEF d
    <3>2. {r.name : r \in DefaultRecords} \subseteq KnownControllers
      BY <1>1, <3>1
    <3>3. ASSUME NEW c \in KnownControllers PROVE c \in {r.name : r \in DefaultRecords}
      <4>1. d(c) \in DefaultRecords /\ d(c).name = c
        BY <1>1, <3>1
      <4> QED
        BY <4>1
    <3> QED
      BY <3>2, <3>3
  <2>2. DOMAIN s = KnownControllers \cup {r.name : r \in DefaultRecords}
    BY SampleCovers
  <2> QED
    BY <2>1, <2>2
<1>3. ASSUME NEW c \in KnownControllers
      PROVE  /\ s[c].cycles = 1 /\ s[c].late = 0
             /\ s[c].p50 = WindowLength /\ s[c].max = WindowLength
  <2> DEFINE R == {d(c)}
  <2>1. s[c] = ControllerSample(R)
    <3>1. {r \in DefaultRecords : r.name = c} = R
      BY <1>1
    <3>2. s[c] = ControllerSample({r \in DefaultRecords : r.name = c})
      BY <1>2, SampleCovers
    <3> HIDE DEF s, R
    <3> QED
      BY <3>1, <3>2
  <2>2. ts \in Nat /\ WindowLength \in Nat \ {0}
    BY TimeAssumption DEF TypeOK
  <2>3. Length(d(c)) = WindowLength /\ ~IsLate(d(c))
    BY <2>2 DEF Length, IsLate
  <2> HIDE DEF d
  <2>4. IsFiniteSet(R) /\ Cardinality(R) = 1 /\ R # {}
    BY FS_Singleton
  <2>5. Cardinality({r \in R : IsLate(r)}) = 0
    <3>1. {r \in R : IsLate(r)} = {}
      BY <2>3
    <3> QED
      BY <3>1, FS_EmptySet
  <2>6. Max({Length(r) : r \in R} \cup {0}) = WindowLength
    <3>1. {Length(r) : r \in R} \cup {0} = {WindowLength, 0}
      BY <2>3
    <3> HIDE DEF R
    <3> QED
      BY <2>2, <3>1, MaxOfTwo
  <2>7. Percentile(R, 50) = WindowLength
    <3>1. Rank(1, 50) = 1
      BY DEF Rank
    <3>2. Max({1, Min({1, 1})}) = 1
      BY MinOfTwo, MaxOfTwo
    <3>3. ByLength(R)[1] \in R
      <4>1. \A r \in R : Length(r) \in Nat
        BY <2>2, <2>3
      <4>2. 1 \in 1 .. Cardinality(R)
        BY <2>4
      <4> HIDE DEF R
      <4> QED
        BY <2>4, <4>1, <4>2, AtPlace
    <3> QED
      BY <2>3, <2>4, <3>1, <3>2, <3>3 DEF Percentile
  <2> HIDE DEF R
  <2> QED
    BY <2>1, <2>4, <2>5, <2>6, <2>7 DEF ControllerSample
<1> QED
  BY <1>2, <1>3

-----------------------------------------------------------------------------
(* What the rows were made of *)

\* One row for each window drained, and of every record counted the window, its
\* start, and whether the record ended before it.
CountInv ==
  /\ Len(samples) = (IF phase = "drain" THEN window - 1 ELSE window)
  /\ \A e \in counted :
       /\ e.window \in DOMAIN samples /\ e.ts = (e.window - 1) * StepLength
       /\ e.late <=> e.rec.end < e.ts
       /\ e.rec.end < e.ts + WindowLength /\ e.rec.at <= e.ts

\* The rows of a controller count as many cycles as records of it were counted.
Counts(c) == UNION {{w} \X (1 .. Cycles(w, c)) : w \in DOMAIN samples}
TotalInv ==
  sourced => \A c \in Controllers :
    IsFiniteSet(Counts(c)) /\ Cardinality(Counts(c)) = Cardinality(Of(CountedRecords, c))

CyclesInv ==
  /\ TypeInv /\ TimeInv /\ RecordInv /\ NamedInv /\ PlacesInv
  /\ CountInv /\ RowsDescribeCycles /\ TotalInv

\* What is ready has been published: a finite set of records not counted before.
LEMMA ReadyIs ==
  ASSUME CyclesInv, phase = "drain", NEW A \in SUBSET ToSet(topic)
  PROVE  /\ IsFiniteSet(Ready(A)) /\ Ready(A) \subseteq Record
         /\ Ready(A) \cap CountedRecords = {}
         /\ \A r \in Ready(A) : r.end >= r.start /\ r.at <= ts /\ r.end < ts + WindowLength
                                /\ r.end \in Nat /\ r.name \in Controllers
<1>1. Ready(A) \subseteq AllRecords /\ Ready(A) \subseteq ToSet(topic) \cup queue
  BY DEF Ready, AllRecords
<1>2. IsFiniteSet(Ready(A))
  BY <1>1, FS_Subset DEF CyclesInv, NamedInv
<1>3. Ready(A) \cap CountedRecords = {}
  BY <1>1 DEF CyclesInv, PlacesInv
<1>4. ASSUME NEW r \in Ready(A)
      PROVE  r \in Record /\ r.end >= r.start /\ r.at <= ts /\ r.end < ts + WindowLength
             /\ r.end \in Nat /\ r.name \in Controllers
  <2>1. RecordOK(r)
    BY <1>1 DEF CyclesInv, RecordInv
  <2>2. r \in Record /\ r.end \in Nat /\ r.start \in Nat /\ r.at \in Nat /\ r.name \in Controllers
    BY <2>1 DEF RecordOK, Record
  <2>3. lastClock <= ts /\ lastClock \in Nat /\ ts \in Nat /\ Period \in Nat
    BY TimeAssumption DEF CyclesInv, TypeInv, TypeOK, TimeInv
  <2>4. r.end < ts + WindowLength
    BY DEF Ready, IsReady
  <2> QED
    BY <2>1, <2>2, <2>3, <2>4 DEF RecordOK
<1> QED
  BY <1>2, <1>3, <1>4

LEMMA CountInit == ASSUME Init PROVE CountInv /\ RowsDescribeCycles /\ TotalInv
<1>1. samples = <<>> /\ DOMAIN samples = {} /\ Len(samples) = 0 /\ counted = {}
  BY DEF Init
<1>2. ASSUME NEW c PROVE Counts(c) = {} /\ Of(CountedRecords, c) = {}
  BY <1>1 DEF Counts, Of, CountedRecords
<1>3. CountInv
  BY <1>1 DEF Init, CountInv
<1>4. RowsDescribeCycles
  BY <1>1 DEF RowsDescribeCycles
<1> QED
  BY <1>2, <1>3, <1>4, FS_EmptySet DEF TotalInv

\* The new row: of the records ready, and of no others.
LEMMA NewRow ==
  ASSUME CyclesInv, phase = "drain", window' = window, NEW A \in SUBSET ToSet(topic),
         samples' = Append(samples, Sample(Ready(A))),
         counted' = counted \cup {Mark(r) : r \in Ready(A)}
  PROVE  /\ window \in Nat \ {0} /\ DOMAIN samples = 1 .. window - 1 /\ DOMAIN samples' = 1 .. window
         /\ \A w \in DOMAIN samples : samples'[w] = samples[w] /\ w # window
                                      /\ \A c : Rows(w, c)' = Rows(w, c)
         /\ samples'[window] = Sample(Ready(A))
         /\ \A c : Rows(window, c)' = Of(Ready(A), c)
<1>1. Len(samples) = window - 1 /\ window \in Nat \ {0}
  BY DEF CyclesInv, CountInv, TypeInv, TypeOK
<1>2. /\ DOMAIN samples = 1 .. window - 1 /\ DOMAIN samples' = 1 .. window
      /\ \A w \in DOMAIN samples : samples'[w] = samples[w]
      /\ samples'[window] = Sample(Ready(A))
  <2>1. /\ DOMAIN samples = 1 .. Len(samples) /\ DOMAIN samples' = 1 .. Len(samples) + 1
        /\ \A w \in DOMAIN samples : samples'[w] = samples[w]
        /\ samples'[Len(samples) + 1] = Sample(Ready(A))
    BY Appended DEF CyclesInv, TypeInv
  <2>2. Len(samples) + 1 = window
    BY <1>1
  <2> QED
    BY <1>1, <2>1, <2>2
<1>3. \A r : Mark(r).window = window /\ Mark(r).rec = r
  BY DEF Mark
<1>4. \A e \in counted : e.window \in DOMAIN samples
  BY DEF CyclesInv, CountInv
<1>5. \A w \in DOMAIN samples : w # window
  BY <1>1, <1>2
<1>6. ASSUME NEW w \in DOMAIN samples, NEW c PROVE Rows(w, c)' = Rows(w, c)
  <2>1. {x \in counted' : x.window = w /\ x.rec.name = c} = {x \in counted : x.window = w /\ x.rec.name = c}
    BY <1>3, <1>5
  <2> QED
    BY <2>1 DEF Rows
<1>7. ASSUME NEW c PROVE Rows(window, c)' = Of(Ready(A), c)
  <2> DEFINE N == {x \in counted' : x.window = window /\ x.rec.name = c}
  <2>1. N = {Mark(r) : r \in Of(Ready(A), c)}
    BY <1>3, <1>4, <1>5 DEF Of
  <2>2. {e.rec : e \in N} = Of(Ready(A), c)
    <3> HIDE DEF N
    <3> QED
      BY <1>3, <2>1
  <2>3. Rows(window, c)' = {e.rec : e \in N}
    BY DEF Rows
  <2> QED
    BY <2>2, <2>3
<1> QED
  BY <1>1, <1>2, <1>5, <1>6, <1>7

LEMMA CountStep ==
  ASSUME CyclesInv, [Next]_vars
  PROVE  CountInv'
<1>0. /\ window \in Nat \ {0} /\ Len(samples) = (IF phase = "drain" THEN window - 1 ELSE window)
      /\ ts = (window - 1) * StepLength
  BY DEF CyclesInv, TypeInv, TypeOK, CountInv, TimeInv
<1>1. CASE DrainWindow
  <2>0. phase = "drain" /\ phase' = "step" /\ window' = window /\ ts' = ts
    BY <1>1 DEF DrainWindow
  <2>1. PICK A \in SUBSET ToSet(topic) :
           /\ samples' = Append(samples, Sample(Ready(A)))
           /\ counted' = counted \cup {Mark(r) : r \in Ready(A)}
    BY <1>1, DrainMoves DEF CyclesInv, TypeInv
  <2>2. DOMAIN samples = 1 .. window - 1 /\ DOMAIN samples' = 1 .. window
    BY <2>0, <2>1, NewRow
  <2>3. Len(samples') = window'
    <3>1. Len(samples') = Len(samples) + 1
      BY <2>1, Appended DEF CyclesInv, TypeInv
    <3> QED
      BY <1>0, <2>0, <3>1
  <2>4. ASSUME NEW e \in counted'
        PROVE  /\ e.window \in DOMAIN samples' /\ e.ts = (e.window - 1) * StepLength
               /\ e.late <=> e.rec.end < e.ts
               /\ e.rec.end < e.ts + WindowLength /\ e.rec.at <= e.ts
    <3>1. CASE e \in counted
      <4>1. DOMAIN samples \subseteq DOMAIN samples'
        BY <1>0, <2>2
      <4> QED
        BY <3>1, <4>1 DEF CyclesInv, CountInv
    <3>2. CASE \E r \in Ready(A) : e = Mark(r)
      <4>1. PICK r \in Ready(A) : e = Mark(r)
        BY <3>2
      <4>2. e.rec = r /\ e.window = window /\ e.ts = ts /\ e.late = IsLate(r)
        BY <4>1 DEF Mark
      <4>3. r.end < ts + WindowLength /\ r.at <= ts
        BY <2>0, ReadyIs
      <4>4. window \in 1 .. window
        BY <1>0
      <4>5. e.late <=> r.end < ts
        BY <4>2 DEF IsLate
      <4> QED
        BY <1>0, <2>2, <4>2, <4>3, <4>4, <4>5
    <3> QED
      BY <2>1, <3>1, <3>2
  <2> QED
    BY <2>0, <2>3, <2>4 DEF CountInv
<1>2. CASE DefaultWindow
  <2>0. phase = "drain" /\ phase' = "step" /\ window' = window /\ counted' = counted
        /\ samples' = Append(samples, Sample(DefaultRecords))
    BY <1>2 DEF DefaultWindow
  <2>1. Len(samples') = Len(samples) + 1 /\ DOMAIN samples \subseteq DOMAIN samples'
    <3>1. /\ Len(samples) \in Nat /\ Len(samples') = Len(samples) + 1
          /\ DOMAIN samples = 1 .. Len(samples) /\ DOMAIN samples' = 1 .. Len(samples) + 1
      BY <2>0, Appended DEF CyclesInv, TypeInv
    <3> QED
      BY <3>1
  <2>2. Len(samples') = window'
    BY <1>0, <2>0, <2>1
  <2> QED
    BY <2>0, <2>1, <2>2 DEF CyclesInv, CountInv
<1>3. CASE OpenWindow
  <2>1. phase = "step" /\ phase' = "drain" /\ window' = window + 1 /\ samples' = samples /\ counted' = counted
    BY <1>3 DEF OpenWindow, sink
  <2>2. Len(samples') = window' - 1
    BY <1>0, <2>1
  <2> QED
    BY <2>1, <2>2 DEF CyclesInv, CountInv
<1>4. CASE OnClock \/ PublishCycleMetrics \/ Tick \/ UNCHANGED vars
  <2>1. phase' = phase /\ window' = window /\ samples' = samples /\ counted' = counted
    BY <1>4 DEF OnClock, PublishCycleMetrics, Tick, vars, loop, sink
  <2> QED
    BY <2>1 DEF CyclesInv, CountInv
<1> QED
  BY <1>1, <1>2, <1>3, <1>4 DEF Next, Terminated

\* Describing is a matter of the row and the records.
LEMMA RowsStep ==
  ASSUME CyclesInv, [Next]_vars
  PROVE  RowsDescribeCycles'
<1>1. CASE DrainWindow
  <2>0. phase = "drain" /\ window' = window /\ sourced /\ sourced' = sourced
    BY <1>1 DEF DrainWindow
  <2>1. PICK A \in SUBSET ToSet(topic) :
           /\ samples' = Append(samples, Sample(Ready(A)))
           /\ counted' = counted \cup {Mark(r) : r \in Ready(A)}
    BY <1>1, DrainMoves DEF CyclesInv, TypeInv
  <2>2. /\ window \in Nat \ {0} /\ DOMAIN samples = 1 .. window - 1 /\ DOMAIN samples' = 1 .. window
        /\ \A w \in DOMAIN samples : samples'[w] = samples[w] /\ w # window
                                     /\ \A c : Rows(w, c)' = Rows(w, c)
        /\ samples'[window] = Sample(Ready(A))
        /\ \A c : Rows(window, c)' = Of(Ready(A), c)
    BY <2>0, <2>1, NewRow
  <2>3. PICK n : n = window
    OBVIOUS
  <2>4. \A c : Rows(n, c)' = Of(Ready(A), c)
    BY <2>0, <2>2, <2>3 DEF Rows
  <2>5. ASSUME NEW w \in DOMAIN samples', NEW c \in DOMAIN samples'[w]
        PROVE  Describes(samples'[w][c], Rows(w, c)', w)
    <3>1. CASE w \in DOMAIN samples
      <4>1. samples'[w] = samples[w] /\ Rows(w, c)' = Rows(w, c)
        BY <2>2, <3>1
      <4>2. Describes(samples[w][c], Rows(w, c), w)
        BY <2>0, <3>1, <4>1 DEF CyclesInv, RowsDescribeCycles
      <4> QED
        BY <4>1, <4>2
    <3>2. CASE w = window
      <4>1. IsFiniteSet(Of(Ready(A), c)) /\ Of(Ready(A), c) \subseteq Record
            /\ \A r \in Of(Ready(A), c) : r.end >= r.start
        <5>1. IsFiniteSet(Ready(A)) /\ Ready(A) \subseteq Record /\ \A r \in Ready(A) : r.end >= r.start
          BY <2>0, ReadyIs
        <5>2. Of(Ready(A), c) \subseteq Ready(A)
          BY DEF Of
        <5> QED
          BY <5>1, <5>2, FS_Subset
      <4>2. Describes(ControllerSample(Of(Ready(A), c)), Of(Ready(A), c), window)
        BY <4>1, SampleDescribes DEF CyclesInv, TypeInv
      <4>3. samples'[w][c] = ControllerSample(Of(Ready(A), c))
        <5> DEFINE a == Sample(Ready(A))
        <5>1. \A d \in DOMAIN a : a[d] = ControllerSample({r \in Ready(A) : r.name = d})
          BY SampleCovers
        <5>2. Of(Ready(A), c) = {r \in Ready(A) : r.name = c}
          BY DEF Of
        <5>3. samples'[w] = a
          BY <2>2, <3>2
        <5> HIDE DEF a
        <5> QED
          BY <5>1, <5>2, <5>3
      <4>4. Rows(w, c)' = Of(Ready(A), c)
        BY <2>3, <2>4, <3>2
      <4> QED
        BY <3>2, <4>2, <4>3, <4>4
    <3> QED
      BY <2>2, <3>1, <3>2
  <2> QED
    BY <2>0, <2>5 DEF RowsDescribeCycles
<1>2. CASE DefaultWindow
  <2>0. ~sourced /\ sourced' = sourced /\ samples' = Append(samples, Sample(DefaultRecords))
    BY <1>2 DEF DefaultWindow
  <2>1. /\ Len(samples) \in Nat /\ DOMAIN samples = 1 .. Len(samples) /\ DOMAIN samples' = 1 .. Len(samples) + 1
        /\ \A w \in DOMAIN samples : samples'[w] = samples[w]
        /\ samples'[Len(samples) + 1] = Sample(DefaultRecords)
    BY <2>0, Appended DEF CyclesInv, TypeInv
  <2>2. ASSUME NEW w \in DOMAIN samples', NEW c \in DOMAIN samples'[w]
        PROVE  /\ c \in KnownControllers /\ samples'[w][c].cycles = 1 /\ samples'[w][c].late = 0
               /\ samples'[w][c].p50 = WindowLength /\ samples'[w][c].max = WindowLength
    <3>1. CASE w \in DOMAIN samples
      BY <2>0, <2>1, <3>1 DEF CyclesInv, RowsDescribeCycles
    <3>2. CASE w = Len(samples) + 1
      BY <2>1, <3>2, DefaultDescribes DEF CyclesInv, TypeInv
    <3> QED
      BY <2>1, <3>1, <3>2
  <2> QED
    BY <2>0, <2>2 DEF RowsDescribeCycles
<1>3. CASE ~DrainWindow /\ ~DefaultWindow
  <2>1. samples' = samples /\ counted' = counted /\ sourced' = sourced
    BY <1>3 DEF Next, OnClock, PublishCycleMetrics, Tick, OpenWindow, Terminated, vars, sink
  <2> QED
    BY <2>1 DEF CyclesInv, RowsDescribeCycles, Rows
<1> QED
  BY <1>1, <1>2, <1>3

LEMMA TotalStep ==
  ASSUME CyclesInv, [Next]_vars
  PROVE  TotalInv'
<1>1. CASE DrainWindow
  <2>0. phase = "drain" /\ window' = window /\ sourced /\ sourced' = sourced
    BY <1>1 DEF DrainWindow
  <2>1. PICK A \in SUBSET ToSet(topic) :
           /\ samples' = Append(samples, Sample(Ready(A)))
           /\ counted' = counted \cup {Mark(r) : r \in Ready(A)}
    BY <1>1, DrainMoves DEF CyclesInv, TypeInv
  <2>2. /\ window \in Nat \ {0} /\ DOMAIN samples = 1 .. window - 1 /\ DOMAIN samples' = 1 .. window
        /\ \A w \in DOMAIN samples : samples'[w] = samples[w] /\ w # window
        /\ samples'[window] = Sample(Ready(A))
    BY <2>0, <2>1, NewRow
  <2>3. CountedRecords' = CountedRecords \cup Ready(A)
    BY <2>1, DrainCounts
  <2>4. IsFiniteSet(Ready(A)) /\ Ready(A) \cap CountedRecords = {}
    BY <2>0, ReadyIs
  <2>5. ASSUME NEW c \in Controllers
        PROVE  IsFiniteSet(Counts(c)') /\ Cardinality(Counts(c)') = Cardinality(Of(CountedRecords, c)')
    <3> DEFINE R == Of(Ready(A), c)
               k == Cardinality(R)
               New == {window} \X (1 .. k)
    <3>1. IsFiniteSet(R) /\ k \in Nat
      BY <2>4, FS_Subset, FS_CardinalityType DEF Of
    <3>2. Cycles(window, c)' = k
      <4>1. CASE c \in DOMAIN Sample(Ready(A))
        <5>1. Sample(Ready(A))[c].cycles = k
          <6> DEFINE a == Sample(Ready(A))
          <6>1. \A d \in DOMAIN a : a[d] = ControllerSample({r \in Ready(A) : r.name = d})
            BY SampleCovers
          <6>2. R = {r \in Ready(A) : r.name = c}
            BY DEF Of
          <6>3. ControllerSample(R).cycles = k
            BY DEF ControllerSample
          <6> HIDE DEF a, R, k
          <6> QED
            BY <4>1, <6>1, <6>2, <6>3 DEF a
        <5> QED
          BY <2>0, <2>2, <4>1, <5>1 DEF Cycles
      <4>2. CASE c \notin DOMAIN Sample(Ready(A))
        <5>1. R = {}
          BY <4>2, SampleCovers DEF Of
        <5>2. k = 0
          BY <5>1, FS_EmptySet
        <5> HIDE DEF k
        <5> QED
          BY <2>0, <2>2, <4>2, <5>2 DEF Cycles
      <4> QED
        BY <4>1, <4>2
    <3>3. \A w \in DOMAIN samples : Cycles(w, c)' = Cycles(w, c)
      BY <2>2 DEF Cycles
    <3> HIDE DEF k
    <3>4. Counts(c)' = Counts(c) \cup New
      <4>1. DOMAIN samples' = DOMAIN samples \cup {window}
        BY <2>2
      <4>2. Counts(c)' = UNION {{w} \X (1 .. Cycles(w, c)') : w \in DOMAIN samples'}
        BY DEF Counts
      <4>3. PICK n : n = window
        OBVIOUS
      <4>4. Cycles(n, c)' = k
        BY <2>0, <3>2, <4>3 DEF Cycles
      <4> QED
        BY <3>3, <4>1, <4>2, <4>3, <4>4 DEF Counts
    <3>5. Counts(c) \cap New = {}
      BY <2>2 DEF Counts
    <3>6. IsFiniteSet(New) /\ Cardinality(New) = k
      <4> DEFINE K == 1 .. k
                 f == [i \in K |-> <<window, i>>]
      <4>1. IsFiniteSet(K) /\ Cardinality(K) = k
        BY <3>1, FS_Interval
      <4>2. New = {f[i] : i \in K}
        OBVIOUS
      <4> HIDE DEF K
      <4>3. \A a, b \in K : f[a] = f[b] => a = b
        OBVIOUS
      <4>4. K \subseteq DOMAIN f
        OBVIOUS
      <4> HIDE DEF f, New
      <4>5. IsFiniteSet({f[i] : i \in K}) /\ Cardinality({f[i] : i \in K}) = Cardinality(K)
        BY <4>1, <4>3, <4>4, ImageCard
      <4> QED
        BY <4>1, <4>2, <4>5
    <3>7. IsFiniteSet(Counts(c)) /\ Cardinality(Counts(c)) = Cardinality(Of(CountedRecords, c))
      BY <2>0 DEF CyclesInv, TotalInv
    <3>8. Of(CountedRecords, c)' = Of(CountedRecords, c) \cup R /\ Of(CountedRecords, c) \cap R = {}
      BY <2>3, <2>4 DEF Of
    <3>9. IsFiniteSet(Of(CountedRecords, c))
      <4>1. Of(CountedRecords, c) \subseteq AllRecords
        BY DEF Of, CountedRecords, AllRecords
      <4> QED
        BY <4>1, FS_Subset DEF CyclesInv, NamedInv
    <3> HIDE DEF New, R
    <3>10. IsFiniteSet(Counts(c)') /\ Cardinality(Counts(c)') = Cardinality(Counts(c)) + k
      <4>1. /\ IsFiniteSet(Counts(c) \cup New)
            /\ Cardinality(Counts(c) \cup New) = Cardinality(Counts(c)) + Cardinality(New)
        BY <3>5, <3>6, <3>7, Apart
      <4> QED
        BY <3>4, <3>6, <4>1
    <3>11. Cardinality(Of(CountedRecords, c)') = Cardinality(Of(CountedRecords, c)) + k
      <4>1. Cardinality(Of(CountedRecords, c) \cup R) = Cardinality(Of(CountedRecords, c)) + Cardinality(R)
        BY <3>1, <3>8, <3>9, Apart
      <4> QED
        BY <3>8, <4>1 DEF k
    <3> QED
      BY <3>7, <3>10, <3>11
  <2> QED
    BY <2>5 DEF TotalInv
<1>2. CASE DefaultWindow
  BY <1>2 DEF DefaultWindow, TotalInv
<1>3. CASE ~DrainWindow /\ ~DefaultWindow
  <2>1. samples' = samples /\ counted' = counted /\ sourced' = sourced
    BY <1>3 DEF Next, OnClock, PublishCycleMetrics, Tick, OpenWindow, Terminated, vars, sink
  <2> QED
    BY <2>1 DEF CyclesInv, TotalInv, Counts, Cycles, CountedRecords
<1> QED
  BY <1>1, <1>2, <1>3

LEMMA CyclesInvHolds == Spec => []CyclesInv
<1>1. Init => CyclesInv
  BY TypeInit, TimeInit, RecordInit, PlacesInit, CountInit DEF CyclesInv
<1>2. CyclesInv /\ [Next]_vars => CyclesInv'
  <2> SUFFICES ASSUME CyclesInv, [Next]_vars PROVE CyclesInv'
    OBVIOUS
  <2>1. TypeInv /\ TypeOK /\ TimeInv /\ RecordInv /\ NamedInv /\ PlacesInv
    BY DEF CyclesInv, TypeInv
  <2>2. TypeInv' /\ TimeInv' /\ RecordInv'
    BY <2>1, TypeStep, TimeStep, RecordStep
  <2>3. NamedInv' /\ PlacesInv'
    BY <2>1, NamedStep, PlacesStep
  <2>4. CountInv' /\ RowsDescribeCycles' /\ TotalInv'
    BY CountStep, RowsStep, TotalStep
  <2> QED
    BY <2>2, <2>3, <2>4 DEF CyclesInv
<1> QED
  BY <1>1, <1>2, PTL DEF Spec

-----------------------------------------------------------------------------
(* The properties *)

\* The cycles of a controller follow each other a period apart, and none is
\* shorter than the period, however irregularly timer and clock fire.
THEOREM Spacing == Spec => []CyclesEvenlySpaced
<1>1. CyclesInv => CyclesEvenlySpaced
  BY SpacedByPeriods DEF CyclesInv, TypeInv
<1> QED
  BY <1>1, CyclesInvHolds, PTL

\* A late record lies in a window before the one that counts it, and with steps
\* of a window's length every other is counted in the window it lies in.
THEOREM AttributionHolds == Spec => []Attribution
<1>1. CyclesInv => Attribution
  <2> SUFFICES ASSUME CyclesInv, NEW e \in counted
               PROVE  /\ e.late <=> WindowOf(e.rec.end) < e.window
                      /\ ~e.late /\ StepLength = WindowLength => WindowOf(e.rec.end) = e.window
    BY DEF Attribution
  <2>1. e.rec.end \in Nat /\ e.window \in Nat /\ e.ts \in Nat
    BY DEF CyclesInv, TypeInv, TypeOK, Record
  <2>2. /\ e.ts = (e.window - 1) * StepLength /\ e.rec.end < e.ts + WindowLength
        /\ e.late <=> e.rec.end < e.ts
    BY DEF CyclesInv, CountInv
  <2>3. e.late <=> WindowOf(e.rec.end) < e.window
    BY <2>1, <2>2, LateIsEarlier
  <2>4. ASSUME ~e.late, StepLength = WindowLength PROVE WindowOf(e.rec.end) = e.window
    <3>1. StepLength \in Int
      BY TimeAssumption
    <3>2. e.window * StepLength = e.ts + StepLength
      BY <2>1, <2>2, <3>1, NextMultiple
    <3>3. e.rec.end < ((e.window + 1) - 1) * StepLength
      <4>1. (e.window + 1) - 1 = e.window
        BY <2>1
      <4> QED
        BY <2>2, <2>4, <3>2, <4>1
    <3>4. WindowOf(e.rec.end) < e.window + 1
      BY <2>1, <3>3, LateIsEarlier
    <3>5. WindowOf(e.rec.end) \in Int
      BY <2>1, TimeAssumption, DivBelow DEF WindowOf
    <3> QED
      BY <2>1, <2>3, <2>4, <3>4, <3>5
  <2> QED
    BY <2>3, <2>4
<1> QED
  BY <1>1, CyclesInvHolds, PTL

\* Every row describes exactly the cycles its window counted.
THEOREM RowsDescribe == Spec => []RowsDescribeCycles
<1>1. CyclesInv => RowsDescribeCycles
  BY DEF CyclesInv
<1> QED
  BY <1>1, CyclesInvHolds, PTL

\* The clock stands while a window is drained: what ended inside it by the clock
\* is never counted on time.
THEOREM OnTimeProjected == Spec => []OnTimeIsBoundaryOrProjected
<1>1. CyclesInv => OnTimeIsBoundaryOrProjected
  <2> SUFFICES ASSUME CyclesInv, NEW e \in counted, ~e.late
               PROVE  e.rec.end = e.ts \/ e.rec.end > e.rec.at
    BY DEF OnTimeIsBoundaryOrProjected
  <2>1. e.rec.end \in Nat /\ e.rec.at \in Nat /\ e.ts \in Nat
    BY DEF CyclesInv, TypeInv, TypeOK, Record
  <2>2. e.rec.at <= e.ts /\ (e.late <=> e.rec.end < e.ts)
    BY DEF CyclesInv, CountInv
  <2> QED
    BY <2>1, <2>2
<1> QED
  BY <1>1, CyclesInvHolds, PTL

\* Every published cycle is counted in one row, once, or waits in the source or
\* the topic, or was dropped by a full topic.
THEOREM NoCycleVanishes == Spec => []CyclesConserved
<1>1. CyclesInv => CyclesConserved
  <2> SUFFICES ASSUME CyclesInv, sourced, NEW c \in Controllers
               PROVE  Total(c) + Cardinality(Of(queue, c))
                        + Cardinality({k \in DOMAIN topic : topic[k].name = c})
                        + Cardinality(Of(lost, c)) = seq[c]
    BY DEF CyclesConserved
  <2> DEFINE T == Of(ToSet(topic), c)
             Q == Of(queue, c)
             C == Of(CountedRecords, c)
             L == Of(lost, c)
             K == {k \in DOMAIN topic : topic[k].name = c}
  <2>1. Of(AllRecords, c) = T \cup Q \cup C \cup L
    BY DEF Of, AllRecords, CountedRecords
  <2>2. T \cap Q = {} /\ (T \cup Q) \cap C = {} /\ (T \cup Q \cup C) \cap L = {}
    BY DEF CyclesInv, PlacesInv, Of
  <2>3. IsFiniteSet(Of(AllRecords, c)) /\ Cardinality(Of(AllRecords, c)) = seq[c]
    BY AsManyAsNumbered DEF CyclesInv, TypeInv
  <2>4. Total(c) = Cardinality(C)
    BY DEF CyclesInv, TotalInv, Total, Counts
  <2>5. Cardinality(K) = Cardinality(T)
    <3>1. topic \in Seq(Record) /\ Len(topic) \in Nat /\ DOMAIN topic = 1 .. Len(topic)
      BY DEF CyclesInv, TypeInv, TypeOK
    <3>2. IsFiniteSet(K)
      <4>1. IsFiniteSet(1 .. Len(topic))
        BY <3>1, FS_Interval
      <4> QED
        BY <3>1, <4>1, FS_Subset
    <3>3. {topic[k] : k \in K} = T
      BY DEF Of, ToSet
    <3>4. \A a, b \in K : topic[a] = topic[b] => a = b
      BY DEF CyclesInv, PlacesInv, IsInjective
    <3>5. K \subseteq DOMAIN topic
      OBVIOUS
    <3> HIDE DEF K, T
    <3>6. Cardinality({topic[k] : k \in K}) = Cardinality(K)
      BY <3>2, <3>4, <3>5, ImageCard
    <3> QED
      BY <3>3, <3>6
  <2> HIDE DEF T, Q, C, L, K
  <2>6. IsFiniteSet(T) /\ IsFiniteSet(Q) /\ IsFiniteSet(C) /\ IsFiniteSet(L)
    BY <2>1, <2>3, FS_Subset
  <2> DEFINE TQ == T \cup Q
             TQC == TQ \cup C
  <2>7. /\ IsFiniteSet(TQ) /\ Cardinality(TQ) = Cardinality(T) + Cardinality(Q)
        /\ Cardinality(T) \in Nat /\ Cardinality(Q) \in Nat
    BY <2>2, <2>6, Apart
  <2> HIDE DEF TQ
  <2>8. /\ IsFiniteSet(TQC) /\ Cardinality(TQC) = Cardinality(TQ) + Cardinality(C)
        /\ Cardinality(C) \in Nat
    <3>1. TQ \cap C = {}
      BY <2>2 DEF TQ
    <3> QED
      BY <2>6, <2>7, <3>1, Apart
  <2>9. TQC \cap L = {} /\ Of(AllRecords, c) = TQC \cup L
    BY <2>1, <2>2 DEF TQ
  <2> HIDE DEF TQC
  <2>10. Cardinality(TQC \cup L) = Cardinality(TQC) + Cardinality(L) /\ Cardinality(L) \in Nat
    BY <2>6, <2>8, <2>9, Apart
  <2>11. Cardinality(T) + Cardinality(Q) + Cardinality(C) + Cardinality(L) = seq[c]
    BY <2>3, <2>7, <2>8, <2>9, <2>10
  <2> QED
    BY <2>4, <2>5, <2>7, <2>8, <2>10, <2>11 DEF Q, C, L, K
<1> QED
  BY <1>1, CyclesInvHolds, PTL
=============================================================================
