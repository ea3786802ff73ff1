---------------------------- MODULE NumberLemmas ----------------------------
(***************************************************************************)
(* What every proof about days, candles and attempts leans on: a set of    *)
(* numbers has a least element and a greatest one, and one of every rank;  *)
(* and what division and multiplication do to an order.                    *)
(***************************************************************************)
EXTENDS Integers, FiniteSetTheorems, WellFoundedInduction, TLAPS

(* The least of them: the sets 1..x are ordered by inclusion, which is     *)
(* well-founded.                                                           *)
LEMMA HasLeast ==
  ASSUME NEW K \in Nat, NEW T, T \subseteq 1..K, T # {}
  PROVE  \E x \in T : \A y \in T : x <= y
<1> DEFINE R == StrictSubsetOrdering(1..K)
           W == {1..x : x \in T}
<1>1. IsWellFoundedOn(R, FiniteSubsetsOf(1..K))
  BY FS_StrictSubsetOrderingWellFounded
<1>2. W \subseteq FiniteSubsetsOf(1..K) /\ W # {}
  <2>1. IsFiniteSet(1..K)
    BY FS_Interval
  <2>2. \A x \in T : 1..x \subseteq 1..K
    BY SMT
  <2>3. \A x \in T : IsFiniteSet(1..x)
    BY <2>1, <2>2, FS_Subset
  <2> QED
    BY <2>2, <2>3 DEF FiniteSubsetsOf
<1>3. PICK w \in W : \A y \in W : ~(<<y, w>> \in R)
  <2> HIDE DEF W, R
  <2> QED
    BY <1>1, <1>2, WFMin, Zenon
<1>4. PICK x \in T : w = 1..x
  BY <1>3
<1>5. ASSUME NEW y \in T PROVE x <= y
  <2>1. ~(<<1..y, 1..x>> \in R)
    BY <1>3, <1>4
  <2>2. CASE y < x
    <3>1. 1..y \in SUBSET (1..K) /\ 1..x \in SUBSET (1..K)
      BY SMT
    <3>2. 1..y \subseteq 1..x /\ 1..x # 1..y
      <4>1. x \in 1..x /\ x \notin 1..y
        BY <2>2, SMT
      <4>2. 1..y \subseteq 1..x
        BY <2>2, SMT
      <4> QED
        BY <4>1, <4>2
    <3> QED
      BY <3>1, <3>2, <2>1, Zenon DEF StrictSubsetOrdering
  <2> QED
    BY <2>2, SMT
<1> QED
  BY <1>5

(* The greatest is the least of what is left up to the bound. *)
LEMMA HasGreatest ==
  ASSUME NEW K \in Nat, NEW T, T \subseteq 1..K, T # {}
  PROVE  \E x \in T : \A y \in T : y <= x
<1> DEFINE U == {K + 1 - x : x \in T}
<1>1. PICK u \in U : \A y \in U : u <= y
  <2>1. U \subseteq 1..K
    <3>1. \A x \in T : K + 1 - x \in 1..K
      BY SMT
    <3> QED
      BY <3>1
  <2>2. U # {}
    OBVIOUS
  <2> HIDE DEF U
  <2> QED
    BY <2>1, <2>2, HasLeast
<1>2. PICK x \in T : u = K + 1 - x
  BY <1>1
<1>3. ASSUME NEW y \in T PROVE y <= x
  <2>1. u <= K + 1 - y
    BY <1>1
  <2> QED
    BY <1>2, <2>1, SMT
<1> QED
  BY <1>2, <1>3

(* Without a bound: the least below one of them. *)
LEMMA HasLeastNat ==
  ASSUME NEW T, T \subseteq Nat, T # {}
  PROVE  \E x \in T : \A y \in T : x <= y
<1>1. PICK k \in T : TRUE
  OBVIOUS
<1> DEFINE U == {n \in 1 .. k + 1 : n - 1 \in T}
<1>2. k \in Nat /\ U \subseteq 1 .. k + 1 /\ k + 1 \in U
  OBVIOUS
<1>3. PICK u \in U : \A n \in U : u <= n
  <2> HIDE DEF U
  <2>1. k + 1 \in Nat /\ U # {}
    BY <1>2
  <2> QED
    BY <1>2, <2>1, HasLeast
<1>4. u - 1 \in T /\ u \in 1 .. k + 1
  OBVIOUS
<1>5. ASSUME NEW y \in T PROVE u - 1 <= y
  <2>1. CASE y + 1 \in U
    BY <1>2, <1>3, <1>4, <2>1
  <2>2. CASE y + 1 \notin U
    BY <1>2, <1>4, <2>2
  <2> QED
    BY <2>1, <2>2
<1> QED
  BY <1>4, <1>5

(* A part of a finite set, and the rest of it. *)
LEMMA CountSplits ==
  ASSUME NEW S, IsFiniteSet(S), NEW A, NEW B, S = A \cup B, A \cap B = {}
  PROVE  /\ IsFiniteSet(A) /\ IsFiniteSet(B)
         /\ Cardinality(A) \in Nat /\ Cardinality(B) \in Nat
         /\ Cardinality(S) = Cardinality(A) + Cardinality(B)
<1>1. IsFiniteSet(A) /\ IsFiniteSet(B)
  <2>1. A \in SUBSET S /\ B \in SUBSET S
    OBVIOUS
  <2> QED
    BY <2>1, FS_Subset
<1>2. Cardinality(A) \in Nat /\ Cardinality(B) \in Nat
  BY <1>1, FS_CardinalityType
<1>3. Cardinality(A \cup B) = Cardinality(A) + Cardinality(B) - Cardinality(A \cap B)
  BY <1>1, FS_Union
<1>4. Cardinality(A \cap B) = 0
  BY FS_EmptySet
<1> QED
  BY <1>1, <1>2, <1>3, <1>4

(* A finite set of days has a newest one: the one with fewest days after it. *)
LEMMA HasNewest ==
  ASSUME NEW days, days \subseteq Nat, IsFiniteSet(days), days # {}
  PROVE  \E d \in days : \A x \in days : x <= d
<1> DEFINE After(d) == {x \in days : d < x}
           Sizes == {1 + Cardinality(After(d)) : d \in days}
<1>0. \A d \in days : d \in Nat
  OBVIOUS
<1>1. \A d \in days : /\ IsFiniteSet(After(d)) /\ Cardinality(After(d)) \in Nat
                      /\ Cardinality(After(d)) <= Cardinality(days)
  <2> SUFFICES ASSUME NEW d \in days
               PROVE  /\ IsFiniteSet(After(d)) /\ Cardinality(After(d)) \in Nat
                      /\ Cardinality(After(d)) <= Cardinality(days)
    OBVIOUS
  <2>1. After(d) \in SUBSET days
    OBVIOUS
  <2> HIDE DEF After
  <2> QED
    BY <2>1, FS_Subset, FS_CardinalityType
<1>2. Cardinality(days) \in Nat
  BY FS_CardinalityType
<1>3. Sizes \subseteq 1 .. 1 + Cardinality(days) /\ Sizes # {}
  <2>1. \A d \in days : 1 + Cardinality(After(d)) \in 1 .. 1 + Cardinality(days)
    <3> HIDE DEF After
    <3> QED
      BY <1>1, <1>2
  <2> HIDE DEF After
  <2> QED
    BY <2>1
<1>4. PICK least \in Sizes : \A n \in Sizes : least <= n
  <2> HIDE DEF Sizes
  <2>1. 1 + Cardinality(days) \in Nat
    BY <1>2
  <2> QED
    BY <1>3, <2>1, HasLeast
<1>5. PICK d \in days : least = 1 + Cardinality(After(d))
  BY <1>4
<1>6. ASSUME NEW x \in days, d < x PROVE FALSE
  <2>1. After(x) \in SUBSET After(d) /\ x \in After(d) /\ x \notin After(x)
    <3>1. d \in Nat /\ x \in Nat
      BY <1>0, <1>5, <1>6
    <3>2. \A y \in days : x < y => d < y
      BY <1>0, <1>6, <3>1
    <3>3. ~(x < x)
      BY <3>1
    <3> QED
      BY <1>6, <3>2, <3>3, Zenon
  <2>2. Cardinality(After(x)) <= Cardinality(After(d))
    BY <1>1, <1>5, <2>1, FS_Subset
  <2>3. Cardinality(After(x)) # Cardinality(After(d))
    BY <1>1, <1>5, <2>1, FS_Subset
  <2>4. 1 + Cardinality(After(d)) <= 1 + Cardinality(After(x))
    BY <1>4, <1>5
  <2>5. Cardinality(After(x)) \in Nat /\ Cardinality(After(d)) \in Nat
    BY <1>1, <1>5
  <2> HIDE DEF After
  <2> QED
    BY <2>2, <2>3, <2>4, <2>5
<1> QED
  BY <1>0, <1>5, <1>6

(* Of n days or more, one is the n-th oldest. *)
LEMMA RankIsTaken ==
  ASSUME NEW days, days \subseteq Nat, IsFiniteSet(days), NEW n \in 1 .. Cardinality(days)
  PROVE  \E d \in days : Cardinality({e \in days : e <= d}) = n
<1> DEFINE Till(d) == {e \in days : e <= d}
           C(d) == Cardinality(Till(d))
<1>0. \A d \in days : d \in Nat
  OBVIOUS
<1>1. \A d : IsFiniteSet(Till(d)) /\ C(d) \in Nat
  <2> SUFFICES ASSUME NEW d PROVE IsFiniteSet(Till(d)) /\ C(d) \in Nat
    OBVIOUS
  <2>1. Till(d) \in SUBSET days
    OBVIOUS
  <2> HIDE DEF Till
  <2> QED
    BY <2>1, FS_Subset, FS_CardinalityType
<1>2. PICK last \in days : \A d \in days : d <= last
  <2>1. days # {}
    <3>1. Cardinality(days) = 0 <=> days = {}
      BY FS_EmptySet
    <3>2. Cardinality(days) \in Nat
      BY FS_CardinalityType
    <3> QED
      BY <3>1, <3>2
  <2> QED
    BY <2>1, HasNewest
<1>3. C(last) = Cardinality(days)
  <2>1. Till(last) = days
    BY <1>0, <1>2
  <2> QED
    BY <2>1
<1> DEFINE Reach == {d \in days : n <= C(d)}
<1>4. PICK least \in Reach : \A d \in Reach : least <= d
  <2>1. last \in Reach /\ last \in Nat
    BY <1>2, <1>3
  <2>2. Reach \subseteq Nat
    BY <1>0
  <2> HIDE DEF Reach
  <2> QED
    BY <2>1, <2>2, HasLeastNat
<1>5. least \in days /\ least \in Nat /\ n <= C(least)
  BY <1>0
<1> DEFINE Below == {d \in days : d < least}
<1>6. /\ IsFiniteSet(Below) /\ Cardinality(Below) \in Nat
      /\ C(least) = Cardinality(Below) + 1
  <2>1. Till(least) = Below \cup {least} /\ Below \cap {least} = {}
    <3>1. \A d \in days : d <= least <=> d < least \/ d = least
      BY <1>0, <1>5
    <3>2. ~(least < least) /\ least \in days
      BY <1>0, <1>5
    <3> HIDE DEF C, Reach
    <3> QED
      BY <3>1, <3>2, Zenon
  <2>2. Cardinality({least}) = 1
    BY FS_Singleton
  <2>3. IsFiniteSet(Till(least))
    BY <1>1
  <2> DEFINE S == Till(least)
  <2>4. IsFiniteSet(S) /\ S = Below \cup {least} /\ Below \cap {least} = {}
    BY <2>1, <2>3
  <2> HIDE DEF Below, S
  <2>5. /\ IsFiniteSet(Below) /\ Cardinality(Below) \in Nat
        /\ Cardinality(S) = Cardinality(Below) + Cardinality({least})
    BY <2>4, CountSplits
  <2> QED
    BY <2>2, <2>5 DEF S
<1>7. C(least) = n
  <2>1. CASE Below = {}
    BY <1>1, <1>5, <1>6, <2>1, FS_EmptySet
  <2>2. CASE Below # {}
    <3>1. PICK g \in Below : \A d \in Below : d <= g
      <4>1. Below \subseteq Nat
        BY <1>0
      <4> HIDE DEF Below
      <4> QED
        BY <1>6, <2>2, <4>1, HasNewest
    <3>2. Till(g) = Below
      <4>1. \A d \in days : d <= g <=> d < least
        BY <1>0, <1>5, <3>1
      <4> QED
        BY <4>1
    <3>3. g \notin Reach
      BY <1>4, <1>5, <3>1
    <3>4. C(g) < n
      BY <1>1, <3>1, <3>3
    <3> HIDE DEF Below
    <3> QED
      BY <1>1, <1>5, <1>6, <3>2, <3>4
  <2> QED
    BY <2>1, <2>2
<1> QED
  BY <1>5, <1>7

-----------------------------------------------------------------------------
(* Integer division. *)
LEMMA DivisionIs ==
  ASSUME NEW n \in Int, NEW d \in Nat \ {0}
  PROVE  /\ n \div d \in Int /\ n % d \in 0 .. d - 1
         /\ d * (n \div d) <= n /\ n < d * (n \div d) + d
         /\ n % d = 0 => n = d * (n \div d)
<1>1. n \div d \in Int /\ n % d \in 0 .. d - 1
  BY SMT
<1>2. d * (n \div d) <= n
  BY SMT
<1>3. n < d * (n \div d) + d
  BY SMT
<1>4. n % d = 0 => n = d * (n \div d)
  BY SMT
<1> QED
  BY <1>1, <1>2, <1>3, <1>4

LEMMA ProductAtLeast ==
  ASSUME NEW d \in Nat \ {0}, NEW k \in Int
  PROVE  /\ d * k \in Int
         /\ k >= 1 => d * k >= d
         /\ k <= -1 => d * k <= -d
         /\ k >= 0 => d * k >= 0
<1> QED
  BY SMT

LEMMA Distributes ==
  ASSUME NEW a \in Int, NEW b \in Int, NEW c \in Int
  PROVE  /\ a * (b + c) = a * b + a * c /\ a * (b - c) = a * b - a * c
         /\ (b + c) * a = b * a + c * a /\ a * b = b * a /\ a * b \in Int
         /\ a * (b * c) = (a * b) * c
  BY SMT

LEMMA QuotientIs ==
  ASSUME NEW d \in Nat \ {0}, NEW q \in Int
  PROVE  (d * q) \div d = q
<1> DEFINE n == d * q
           k == n \div d
<1>1. n \in Int /\ k \in Int /\ d * k <= n /\ n < d * k + d
  BY DivisionIs, Distributes
<1>2. d * (q - k) = n - d * k /\ d * k \in Int
  BY <1>1, Distributes
<1>3. q - k \in Int
  BY <1>1
<1> HIDE DEF n, k
<1>4. ~(q - k >= 1) /\ ~(q - k <= -1)
  BY <1>1, <1>2, <1>3, ProductAtLeast
<1>5. q = k
  BY <1>1, <1>4
<1> QED
  BY <1>5 DEF n, k

LEMMA QuotientOfNat ==
  ASSUME NEW n \in Nat, NEW d \in Nat \ {0}
  PROVE  n \div d \in Nat /\ (n >= d => n \div d >= 1)
<1> DEFINE k == n \div d
<1>1. k \in Int /\ d * k <= n /\ n < d * k + d
  BY DivisionIs
<1> HIDE DEF k
<1>2. ~(k <= -1)
  BY <1>1, ProductAtLeast
<1>3. k = 0 => n < d
  BY <1>1
<1> QED
  BY <1>1, <1>2, <1>3 DEF k

LEMMA TimesGrows ==
  ASSUME NEW a \in Int, NEW b \in Int, NEW c \in Nat, a <= b
  PROVE  a * c <= b * c
<1>1. (b - a) * c >= 0
  BY SMT
<1> QED
  BY <1>1, Distributes, SMT

(* The greatest of a row of numbers. *)
LEMMA OneIsGreatest ==
  ASSUME NEW n \in Nat \ {0}, NEW f, \A i \in 1 .. n : f[i] \in Int
  PROVE  \E i \in 1 .. n : \A j \in 1 .. n : f[j] <= f[i]
<1> DEFINE Has(m) == \E i \in 1 .. m : \A j \in 1 .. m : f[j] <= f[i]
           T == {m \in 1 .. n : ~Has(m)}
<1>1. Has(1)
  OBVIOUS
<1>2. ASSUME T # {} PROVE FALSE
  <2>1. PICK x \in T : \A i \in T : x <= i
    <3> HIDE DEF T
    <3>1. T \subseteq 1 .. n
      BY DEF T
    <3> QED
      BY <1>2, <3>1, HasLeast
  <2>2. x \in 1 .. n /\ ~Has(x) /\ x # 1
    BY <1>1, <2>1
  <2>3. Has(x - 1)
    <3>1. x - 1 \in 1 .. n /\ ~(x <= x - 1)
      BY <2>2
    <3> HIDE DEF Has
    <3> QED
      BY <2>1, <3>1
  <2>4. PICK i \in 1 .. x - 1 : \A j \in 1 .. x - 1 : f[j] <= f[i]
    BY <2>3
  <2>5. f[x] \in Int /\ \A j \in 1 .. x : f[j] \in Int
    BY <2>2
  <2>6. CASE f[x] <= f[i]
    BY <2>2, <2>4, <2>5, <2>6
  <2>7. CASE f[i] < f[x]
    <3>1. \A j \in 1 .. x : f[j] <= f[x]
      <4> TAKE j \in 1 .. x
      <4>1. CASE j = x
        BY <4>1, <2>5
      <4>2. CASE j \in 1 .. x - 1
        BY <4>2, <2>2, <2>4, <2>5, <2>7
      <4> QED
        BY <4>1, <4>2, <2>2
    <3> QED
      BY <2>2, <3>1
  <2> QED
    BY <2>2, <2>4, <2>5, <2>6, <2>7
<1>3. Has(n)
  <2>1. n \in 1 .. n
    OBVIOUS
  <2> HIDE DEF Has
  <2> QED
    BY <1>2, <2>1
<1> QED
  BY <1>3

(* Of the parts of a finite set, some are minimal. *)
LEMMA HasMinimal ==
  ASSUME NEW S, IsFiniteSet(S), NEW W, W \subseteq SUBSET S, W # {}
  PROVE  \E T \in W : \A U \in W : U \subseteq T => U = T
<1> DEFINE R == StrictSubsetOrdering(S)
<1>1. IsWellFoundedOn(R, SUBSET S)
  BY FS_StrictSubsetOrderingWellFounded, FS_FiniteSubsetsOfFinite
<1>2. PICK T \in W : \A U \in W : ~(<<U, T>> \in R)
  <2> HIDE DEF R
  <2> QED
    BY <1>1, WFMin, Zenon
<1>3. ASSUME NEW U \in W, U \subseteq T PROVE U = T
  <2>1. U \in SUBSET S /\ T \in SUBSET S
    OBVIOUS
  <2>2. U # T => <<U, T>> \in R
    BY <1>3, <2>1 DEF StrictSubsetOrdering
  <2> QED
    BY <1>2, <2>2
<1> QED
  BY <1>2, <1>3

(* The parts of a set of at most so many elements.                          *)
Small(S, n) == {T \in SUBSET S : Cardinality(T) <= n}

\* Taking an element out of a part of n + 1 elements leaves one of n; the parts of
\* all sizes are the parts.
LEMMA SmallParts ==
  ASSUME NEW S, IsFiniteSet(S)
  PROVE  /\ Cardinality(S) \in Nat /\ Small(S, Cardinality(S)) = SUBSET S
         /\ Small(S, 0) = {{}}
         /\ \A T \in SUBSET S : \A e \in T, n \in Nat : T \in Small(S, n + 1) => T \ {e} \in Small(S, n)
         /\ \A n \in Nat : {} \in Small(S, n) /\ Small(S, n) \subseteq Small(S, n + 1)
<1>1. \A T \in SUBSET S : IsFiniteSet(T) /\ Cardinality(T) \in Nat /\ Cardinality(T) <= Cardinality(S)
  BY FS_Subset, FS_CardinalityType
<1>2. Cardinality(S) \in Nat
  BY <1>1
<1>3. \A T \in SUBSET S : Cardinality(T) = 0 <=> T = {}
  BY <1>1, FS_EmptySet
<1>4. ASSUME NEW T \in SUBSET S, NEW e \in T PROVE Cardinality(T \ {e}) = Cardinality(T) - 1
  BY <1>1, FS_RemoveElement
<1>5. Small(S, Cardinality(S)) = SUBSET S
  BY <1>1 DEF Small
<1>6. Small(S, 0) = {{}}
  <2>1. \A T \in SUBSET S : Cardinality(T) <= 0 <=> T = {}
    BY <1>1, <1>3
  <2> QED
    BY <2>1 DEF Small
<1>7. \A T \in SUBSET S : \A e \in T, n \in Nat : T \in Small(S, n + 1) => T \ {e} \in Small(S, n)
  <2> SUFFICES ASSUME NEW T \in SUBSET S, NEW e \in T, NEW n \in Nat, T \in Small(S, n + 1)
               PROVE  T \ {e} \in Small(S, n)
    OBVIOUS
  <2>1. Cardinality(T) \in Nat /\ Cardinality(T) <= n + 1 /\ Cardinality(T \ {e}) = Cardinality(T) - 1
    BY <1>1, <1>4 DEF Small
  <2> QED
    BY <2>1 DEF Small
<1>8. \A n \in Nat : {} \in Small(S, n) /\ Small(S, n) \subseteq Small(S, n + 1)
  BY <1>1, <1>3 DEF Small
<1> QED
  BY <1>2, <1>5, <1>6, <1>7, <1>8

\* The values over a finite set are finitely many.
LEMMA ImageIsFinite ==
  ASSUME NEW S, IsFiniteSet(S), NEW f
  PROVE  IsFiniteSet({f[x] : x \in S})
<1> DEFINE T == {f[x] : x \in S}
           g == [x \in S |-> f[x]]
<1>1. g \in Surjection(S, T)
  BY DEF Surjection
<1> HIDE DEF g
<1> QED
  BY <1>1, FS_Surjection

=============================================================================
