-------------------------- MODULE FiniteNumbers_proofs --------------------------
(***************************************************************************)
(* Facts about finite sets that the other proofs need: ranks, the largest  *)
(* and the smallest of some numbers, counting up to a bound, the states of *)
(* a loop, and putting a set in order.  Induction is not at hand; that a   *)
(* finite set is not in bijection with a part of itself does instead.      *)
(***************************************************************************)
EXTENDS Naturals, FiniteSets, FiniteSetsExt, FiniteSetTheorems, TLAPS

\* The values a function takes on a finite domain are finitely many.
LEMMA FiniteRange ==
  ASSUME NEW S, IsFiniteSet(S), NEW f, DOMAIN f = S
  PROVE  IsFiniteSet({f[x] : x \in S})
<1> DEFINE T == {f[x] : x \in S}
           g == [x \in S |-> f[x]]
<1>1. g \in Surjection(S, T)
  BY DEF Surjection
<1> QED
  BY <1>1, FS_Surjection

Below(numbers, n) == {m \in numbers : m < n}

\* What is below a smaller number is below a larger one.
LEMMA BelowIsMonotonic ==
  ASSUME NEW numbers \in SUBSET Nat, NEW m \in numbers, NEW n \in numbers, m < n
  PROVE  Below(numbers, m) \in SUBSET Below(numbers, n)
<1>1. ASSUME NEW k \in numbers, k < m PROVE k < n
  <2>1. k \in Nat /\ m \in Nat /\ n \in Nat
    OBVIOUS
  <2> QED
    BY <1>1, <2>1
<1> QED
  BY <1>1 DEF Below

\* The number of smaller elements tells the elements of a finite set apart,
\* and it is less than the number of elements.
LEMMA BelowIsInjective ==
  ASSUME NEW numbers \in SUBSET Nat, IsFiniteSet(numbers)
  PROVE  [n \in numbers |-> Cardinality(Below(numbers, n))]
           \in Injection(numbers, 0..(Cardinality(numbers) - 1))
<1>1. Cardinality(numbers) \in Nat
  BY FS_CardinalityType
<1>2. ASSUME NEW n \in numbers
      PROVE  /\ IsFiniteSet(Below(numbers, n))
             /\ Cardinality(Below(numbers, n)) \in 0..(Cardinality(numbers) - 1)
  <2>1. Below(numbers, n) \in SUBSET numbers /\ n \notin Below(numbers, n)
    BY DEF Below
  <2>2. /\ IsFiniteSet(Below(numbers, n))
        /\ Cardinality(Below(numbers, n)) <= Cardinality(numbers)
        /\ Cardinality(numbers) # Cardinality(Below(numbers, n))
    BY <2>1, FS_Subset
  <2>3. Cardinality(Below(numbers, n)) \in Nat
    BY <2>2, FS_CardinalityType
  <2> QED
    BY <1>1, <2>2, <2>3
<1>3. ASSUME NEW m \in numbers, NEW n \in numbers, m < n
      PROVE  Cardinality(Below(numbers, m)) # Cardinality(Below(numbers, n))
  <2>1. Below(numbers, m) \in SUBSET Below(numbers, n)
    BY <1>3, BelowIsMonotonic
  <2>2. m \in Below(numbers, n) /\ m \notin Below(numbers, m)
    BY <1>3 DEF Below
  <2>3. IsFiniteSet(Below(numbers, n))
    BY <1>2
  <2> QED
    BY <2>1, <2>2, <2>3, FS_Subset
<1>4. ASSUME NEW m \in numbers, NEW n \in numbers,
             Cardinality(Below(numbers, m)) = Cardinality(Below(numbers, n))
      PROVE  m = n
  BY <1>3, <1>4
<1> QED
  BY <1>2, <1>4 DEF Injection, IsInjective

\* Every rank below the cardinality is the rank of an element.
LEMMA IthSmallest ==
  ASSUME NEW numbers \in SUBSET Nat, IsFiniteSet(numbers),
         NEW i \in 1..Cardinality(numbers)
  PROVE  \E n \in numbers : Cardinality(Below(numbers, n)) = i - 1
<1> DEFINE f == [n \in numbers |-> Cardinality(Below(numbers, n))]
           T == 0..(Cardinality(numbers) - 1)
<1>1. Cardinality(numbers) \in Nat
  BY FS_CardinalityType
<1>2. f \in Injection(numbers, T)
  BY BelowIsInjective
<1>3. IsFiniteSet(T) /\ Cardinality(T) = Cardinality(numbers)
  <2>1. /\ 0 \in Int
        /\ Cardinality(numbers) - 1 \in Int
        /\ 0 <= Cardinality(numbers) - 1
    BY <1>1
  <2> QED
    BY <1>1, <2>1, FS_Interval
<1>4. f \in Surjection(numbers, T)
  <2> HIDE DEF f, T
  <2> QED BY <1>2, <1>3, FS_Injection
<1>5. i - 1 \in T
  BY <1>1
<1> QED
  BY <1>4, <1>5 DEF Surjection

\* A finite set of numbers that is not empty has a maximum.
LEMMA MaxOfFinite ==
  ASSUME NEW numbers \in SUBSET Nat, IsFiniteSet(numbers), numbers # {}
  PROVE  /\ Max(numbers) \in numbers
         /\ \A n \in numbers : n <= Max(numbers)
<1>1. Cardinality(numbers) \in Nat \ {0}
  BY FS_CardinalityType, FS_EmptySet
<1>2. PICK top \in numbers :
        Cardinality(Below(numbers, top)) = Cardinality(numbers) - 1
  BY <1>1, IthSmallest
<1>3. ASSUME NEW n \in numbers, n > top PROVE FALSE
  <2>1. Below(numbers, n) \in SUBSET numbers /\ n \notin Below(numbers, n)
    BY DEF Below
  <2>2. IsFiniteSet(Below(numbers, n))
    BY <2>1, FS_Subset
  <2>3. Cardinality(Below(numbers, n)) \in 0..(Cardinality(numbers) - 1)
    BY BelowIsInjective DEF Injection
  <2>4. Below(numbers, top) \in SUBSET Below(numbers, n)
    BY <1>3, BelowIsMonotonic
  <2>5. top \in Below(numbers, n) /\ top \notin Below(numbers, top)
    BY <1>3 DEF Below
  <2>6. /\ Cardinality(Below(numbers, top)) <= Cardinality(Below(numbers, n))
        /\ Cardinality(Below(numbers, n)) # Cardinality(Below(numbers, top))
    BY <2>2, <2>4, <2>5, FS_Subset
  <2> QED
    BY <1>1, <1>2, <2>3, <2>6
<1>4. \A n \in numbers : top >= n
  BY <1>3
<1>5. /\ Max(numbers) \in numbers
      /\ \A n \in numbers : Max(numbers) >= n
  BY <1>4 DEF Max
<1> QED
  BY <1>5

\* Max of two numbers, as the cursor uses it.
LEMMA MaxOfTwo ==
  ASSUME NEW a \in Nat, NEW b \in Nat
  PROVE  /\ Max({a, b}) \in {a, b}
         /\ a <= Max({a, b})
         /\ b <= Max({a, b})
<1>1. {a, b} = {a} \cup {b}
  OBVIOUS
<1>2. IsFiniteSet({a}) /\ IsFiniteSet({b})
  BY FS_Singleton
<1>3. IsFiniteSet({a, b})
  BY <1>1, <1>2, FS_Union
<1>4. {a, b} \in SUBSET Nat /\ {a, b} # {}
  OBVIOUS
<1>5. Max({a, b}) \in {a, b} /\ \A n \in {a, b} : n <= Max({a, b})
  BY <1>3, <1>4, MaxOfFinite
<1> QED
  BY <1>5

\* A finite set of numbers that is not empty has a minimum.
LEMMA MinOfFinite ==
  ASSUME NEW numbers \in SUBSET Nat, IsFiniteSet(numbers), numbers # {}
  PROVE  /\ Min(numbers) \in numbers
         /\ \A n \in numbers : Min(numbers) <= n
<1>1. Cardinality(numbers) \in Nat \ {0}
  BY FS_CardinalityType, FS_EmptySet
<1>2. PICK least \in numbers : Cardinality(Below(numbers, least)) = 0
  <2>1. 1 \in 1..Cardinality(numbers) /\ 1 - 1 = 0
    BY <1>1
  <2>2. \E n \in numbers : Cardinality(Below(numbers, n)) = 1 - 1
    BY <2>1, IthSmallest
  <2> QED
    BY <2>1, <2>2
<1>3. Below(numbers, least) \in SUBSET numbers
  BY DEF Below
<1>4. Below(numbers, least) = {}
  BY <1>2, <1>3, FS_Subset, FS_EmptySet
<1>5. ASSUME NEW n \in numbers PROVE least <= n
  <2>1. n \in Nat /\ least \in Nat /\ ~(n < least)
    BY <1>4 DEF Below
  <2> QED
    BY <2>1
<1> QED
  BY <1>5 DEF Min
--------------------------------------------------------------------------------
(***************************************************************************)
(* Counting and loops.  The induction theorems of the library take the     *)
(* property as an operator; here it is a set of numbers.                   *)
(***************************************************************************)

\* A set of numbers that is not empty has a least element.
LEMMA LeastNumber ==
  ASSUME NEW numbers \in SUBSET Nat, numbers # {}
  PROVE  \E least \in numbers : \A n \in numbers : least <= n
<1>1. PICK n \in numbers : TRUE
  OBVIOUS
<1> DEFINE low == {m \in numbers : m <= n}
<1>2. n \in Nat /\ low \in SUBSET Nat /\ n \in low
  <2>1. n \in Nat
    OBVIOUS
  <2>2. n \in low
    BY <2>1
  <2>3. low \in SUBSET numbers
    OBVIOUS
  <2> HIDE DEF low
  <2> QED
    BY <2>1, <2>2, <2>3
<1>3. IsFiniteSet(0..n)
  BY FS_Interval
<1>4. low \in SUBSET (0..n)
  <2>1. ASSUME NEW m \in low PROVE m \in 0..n
    <3>1. m \in Nat /\ m <= n
      OBVIOUS
    <3> QED
      BY <1>2, <3>1
  <2> QED
    BY <2>1
<1>5. IsFiniteSet(low)
  <2> HIDE DEF low
  <2> QED BY <1>3, <1>4, FS_Subset
<1>6. Min(low) \in low /\ \A m \in low : Min(low) <= m
  <2> HIDE DEF low
  <2> QED BY <1>2, <1>5, MinOfFinite
<1>7. ASSUME NEW m \in numbers PROVE Min(low) <= m
  <2>1. m \in Nat /\ Min(low) \in Nat /\ Min(low) <= n
    BY <1>6
  <2>2. CASE m <= n
    <3>1. m \in low
      BY <2>2
    <3> HIDE DEF low
    <3> QED
      BY <1>6, <3>1
  <2>3. CASE n < m
    <3> HIDE DEF low
    <3> QED
      BY <1>2, <2>1, <2>3
  <2> QED
    BY <1>2, <2>1, <2>2, <2>3
<1> QED
  BY <1>6, <1>7

\* Induction up to a bound.
LEMMA CountUp ==
  ASSUME NEW N \in Nat, NEW good, 0 \in good,
         \A n \in 1..N : n - 1 \in good => n \in good
  PROVE  \A n \in 0..N : n \in good
<1> SUFFICES ASSUME NEW m \in 0..N, m \notin good PROVE FALSE
  OBVIOUS
<1> DEFINE bad == {n \in 0..N : n \notin good}
<1>1. bad \in SUBSET Nat /\ bad # {}
  OBVIOUS
<1>2. PICK least \in bad : \A n \in bad : least <= n
  <2> HIDE DEF bad
  <2> QED BY <1>1, LeastNumber
<1>3. least \in 1..N /\ least - 1 \in 0..N /\ least - 1 \notin bad
  BY <1>2
<1> QED
  BY <1>2, <1>3

IsTurns(turn, N, S) == turn \in [1..N -> [S -> S]]
GoesThrough(f, N, S, start, turn) ==
  /\ f \in [0..N -> S]
  /\ f[0] = start
  /\ \A k \in 1..N : f[k] = turn[k][f[k - 1]]

\* A loop of N turns, each of which takes a state of S to a state of S, goes
\* through a sequence of states.
LEMMA LoopExists ==
  ASSUME NEW N \in Nat, NEW S, NEW start \in S, NEW turn, IsTurns(turn, N, S)
  PROVE  \E f : GoesThrough(f, N, S, start, turn)
<1> USE DEF IsTurns
<1> DEFINE Run(f, n) == f[0] = start /\ \A k \in 1..n : f[k] = turn[k][f[k - 1]]
           good == {n \in 0..N : \E f \in [0..n -> S] : Run(f, n)}
<1>1. 0 \in good
  <2> DEFINE f == [k \in 0..0 |-> start]
  <2>1. f \in [0..0 -> S]
    OBVIOUS
  <2>2. f[0] = start /\ 1..0 = {}
    OBVIOUS
  <2> HIDE DEF f
  <2>3. Run(f, 0) /\ 0 \in 0..N
    BY <2>2
  <2> HIDE DEF Run
  <2> QED
    BY <2>1, <2>3
<1>2. ASSUME NEW n \in 1..N, n - 1 \in good PROVE n \in good
  <2>1. PICK f \in [0..n - 1 -> S] : Run(f, n - 1)
    BY <1>2
  <2> DEFINE g == [k \in 0..n |-> IF k = n THEN turn[n][f[n - 1]] ELSE f[k]]
  <2>2. n - 1 \in 0..n - 1 /\ f[n - 1] \in S /\ turn[n][f[n - 1]] \in S
    OBVIOUS
  <2>3. \A k \in 0..n : k # n => k \in 0..n - 1
    OBVIOUS
  <2>4. g \in [0..n -> S]
    BY <2>2, <2>3
  <2>5. ASSUME NEW k \in 1..n PROVE g[k] = turn[k][g[k - 1]]
    <3>1. k - 1 \in 0..n /\ k - 1 # n /\ g[k - 1] = f[k - 1] /\ k \in 0..n
      OBVIOUS
    <3>2. CASE k = n
      BY <3>1, <3>2
    <3>3. CASE k # n
      <4>1. k \in 1..n - 1 /\ g[k] = f[k]
        BY <3>3
      <4> QED
        BY <2>1, <3>1, <4>1
    <3> QED
      BY <3>2, <3>3
  <2>6. g[0] = start
    <3>1. 0 \in 0..n /\ 0 # n
      OBVIOUS
    <3> QED
      BY <2>1, <3>1
  <2> HIDE DEF g
  <2>7. Run(g, n) /\ n \in 0..N
    BY <2>5, <2>6
  <2> HIDE DEF Run
  <2> QED
    BY <2>4, <2>7
<1>3. N \in good
  <2> HIDE DEF good
  <2>1. \A n \in 0..N : n \in good
    BY <1>1, <1>2, CountUp
  <2> QED
    BY <2>1
<1>4. PICK f \in [0..N -> S] : Run(f, N)
  BY <1>3
<1> QED
  BY <1>4 DEF GoesThrough

--------------------------------------------------------------------------------
(***************************************************************************)
(* Putting a finite set in order.  An order is a set of pairs.             *)
(***************************************************************************)

IsStrictOrder(order, S) ==
  /\ \A x, y \in S : x # y => (<<x, y>> \in order <=> <<y, x>> \notin order)
  /\ \A x \in S : <<x, x>> \notin order
  /\ \A x, y, z \in S : <<x, y>> \in order /\ <<y, z>> \in order => <<x, z>> \in order

Precede(order, S, x) == {y \in S : <<y, x>> \in order}

\* The elements in the order of how many precede them.
LEMMA OrderExists ==
  ASSUME NEW S, IsFiniteSet(S), NEW order, IsStrictOrder(order, S)
  PROVE  \E s \in [1..Cardinality(S) -> S] :
            /\ \A i, j \in 1..Cardinality(S) : i # j => s[i] # s[j]
            /\ \A i, j \in 1..Cardinality(S) : i < j => <<s[j], s[i]>> \notin order
<1> DEFINE n    == Cardinality(S)
           T    == 0..(n - 1)
           rank == [x \in S |-> Cardinality(Precede(order, S, x))]
<1>1. n \in Nat
  BY FS_CardinalityType
<1>2. ASSUME NEW x \in S
      PROVE  /\ IsFiniteSet(Precede(order, S, x))
             /\ Cardinality(Precede(order, S, x)) \in T
  <2>1. Precede(order, S, x) \in SUBSET S /\ x \notin Precede(order, S, x)
    BY DEF Precede, IsStrictOrder
  <2>2. /\ IsFiniteSet(Precede(order, S, x))
        /\ Cardinality(Precede(order, S, x)) <= n
        /\ n # Cardinality(Precede(order, S, x))
    BY <2>1, FS_Subset
  <2>3. Cardinality(Precede(order, S, x)) \in Nat
    BY <2>2, FS_CardinalityType
  <2> HIDE DEF n
  <2> QED
    BY <1>1, <2>2, <2>3
<1>3. ASSUME NEW x \in S, NEW y \in S, <<x, y>> \in order
      PROVE  rank[x] < rank[y]
  <2>1. Precede(order, S, x) \in SUBSET Precede(order, S, y)
    BY <1>3 DEF Precede, IsStrictOrder
  <2>2. x \in Precede(order, S, y) /\ x \notin Precede(order, S, x)
    BY <1>3 DEF Precede, IsStrictOrder
  <2>3. /\ Cardinality(Precede(order, S, x)) <= Cardinality(Precede(order, S, y))
        /\ Cardinality(Precede(order, S, x)) # Cardinality(Precede(order, S, y))
    BY <1>2, <2>1, <2>2, FS_Subset
  <2>4. rank[x] \in T /\ rank[y] \in T
    BY <1>2
  <2>5. rank[x] <= rank[y] /\ rank[x] # rank[y]
    BY <2>3
  <2> HIDE DEF rank
  <2> QED
    BY <1>1, <2>4, <2>5
<1>4. rank \in Injection(S, T)
  <2>1. rank \in [S -> T]
    BY <1>2
  <2>2. ASSUME NEW x \in S, NEW y \in S, rank[x] = rank[y], x # y PROVE FALSE
    <3>1. rank[x] \in Nat /\ rank[y] \in Nat
      BY <1>1, <2>1
    <3>2. <<x, y>> \in order \/ <<y, x>> \in order
      BY <2>2 DEF IsStrictOrder
    <3>3. rank[x] < rank[y] \/ rank[y] < rank[x]
      BY <1>3, <3>2
    <3> HIDE DEF rank
    <3> QED
      BY <2>2, <3>1, <3>3
  <2> HIDE DEF rank
  <2> QED
    BY <2>1, <2>2 DEF Injection, IsInjective
<1>5. IsFiniteSet(T) /\ Cardinality(T) = n
  <2>1. 0 \in Int /\ n - 1 \in Int /\ 0 <= n
    BY <1>1
  <2> HIDE DEF n
  <2> QED
    BY <1>1, <2>1, FS_Interval
<1>6. rank \in Surjection(S, T)
  <2> HIDE DEF rank, T
  <2> QED BY <1>4, <1>5, FS_Injection
<1>7. \A i \in 1..n : \E x \in S : rank[x] = i - 1
  <2>1. \A i \in 1..n : i - 1 \in T
    BY <1>1
  <2> HIDE DEF rank, T, n
  <2> QED BY <1>6, <2>1 DEF Surjection
<1> DEFINE s == [i \in 1..n |-> CHOOSE x \in S : rank[x] = i - 1]
<1>8. \A i \in 1..n : s[i] \in S /\ rank[s[i]] = i - 1
  <2> HIDE DEF rank, n
  <2> QED BY <1>7
<1>9. s \in [1..n -> S]
  BY <1>8
<1>10. \A i, j \in 1..n : i # j => s[i] # s[j]
  <2> HIDE DEF s, rank, n
  <2> QED BY <1>1, <1>8
<1>11. ASSUME NEW i \in 1..n, NEW j \in 1..n, i < j PROVE <<s[j], s[i]>> \notin order
  <2>1. SUFFICES ASSUME <<s[j], s[i]>> \in order PROVE FALSE
    OBVIOUS
  <2>2. s[i] \in S /\ s[j] \in S /\ rank[s[i]] = i - 1 /\ rank[s[j]] = j - 1
    BY <1>8
  <2>3. rank[s[j]] < rank[s[i]]
    <3> HIDE DEF s, rank
    <3> QED BY <1>3, <2>1, <2>2
  <2> HIDE DEF s, rank, n
  <2> QED
    BY <1>1, <1>11, <2>2, <2>3
<1> HIDE DEF s, n
<1>12. s \in [1..n -> S] /\ (\A i, j \in 1..n : i # j => s[i] # s[j])
        /\ (\A i, j \in 1..n : i < j => <<s[j], s[i]>> \notin order)
  BY <1>9, <1>10, <1>11
<1> USE DEF n
<1> QED
  BY <1>12

\* A strictly increasing map of 1..n to itself moves nothing.
LEMMA IncreasingIsIdentity ==
  ASSUME NEW n \in Nat, NEW at \in [1..n -> 1..n],
         \A i, j \in 1..n : i < j => at[i] < at[j]
  PROVE  \A i \in 1..n : at[i] = i
<1>1. \A i \in 1..n : at[i] >= i
  <2> DEFINE good == {k \in 0..n : k = 0 \/ at[k] >= k}
  <2>1. 0 \in good
    OBVIOUS
  <2>2. ASSUME NEW k \in 1..n, k - 1 \in good PROVE k \in good
    <3>1. CASE k = 1
      BY <3>1
    <3>2. CASE k # 1
      <4>1. k - 1 \in 1..n /\ at[k - 1] >= k - 1 /\ at[k - 1] < at[k]
        BY <2>2, <3>2
      <4>2. at[k] >= k
        BY <4>1
      <4> QED
        BY <4>2
    <3> QED
      BY <3>1, <3>2
  <2> HIDE DEF good
  <2>3. \A k \in 0..n : k \in good
    BY <2>1, <2>2, CountUp
  <2> QED
    BY <2>3 DEF good
<1>2. \A i \in 1..n : at[i] <= i
  <2> DEFINE good == {k \in 0..n : k = n \/ at[n - k] <= n - k}
  <2>1. 0 \in good
    <3>1. CASE n = 0
      BY <3>1
    <3>2. CASE n # 0
      <4>1. n \in 1..n /\ n - 0 = n
        BY <3>2
      <4> QED
        BY <4>1
    <3> QED
      BY <3>1, <3>2
  <2>2. ASSUME NEW k \in 1..n, k - 1 \in good PROVE k \in good
    <3>1. CASE k = n
      BY <3>1
    <3>2. CASE k # n
      <4>1. PICK a \in 1..n, b \in 1..n : a = n - k /\ b = n - (k - 1) /\ b = a + 1
        BY <3>2
      <4>2. at[b] <= b /\ at[a] < at[b]
        BY <2>2, <4>1
      <4>3. at[a] <= a
        BY <4>1, <4>2
      <4> QED
        BY <4>1, <4>3
    <3> QED
      BY <3>1, <3>2
  <2> HIDE DEF good
  <2>3. \A k \in 0..n : k \in good
    BY <2>1, <2>2, CountUp
  <2>4. ASSUME NEW i \in 1..n PROVE at[i] <= i
    <3>1. n - i \in 0..n /\ n - (n - i) = i /\ n - i # n
      OBVIOUS
    <3>2. n - i \in good
      BY <2>3, <3>1
    <3> QED
      BY <3>1, <3>2 DEF good
  <2> QED
    BY <2>4
<1> QED
  BY <1>1, <1>2

Fills(s, n, S)         == \A x \in S : \E i \in 1..n : s[i] = x
Differ(s, n)           == \A i, j \in 1..n : i # j => s[i] # s[j]
InOrder(order, s, n)  == \A i, j \in 1..n : i < j => <<s[i], s[j]>> \in order
NeverBack(order, s, n) == \A i, j \in 1..n : i < j => <<s[j], s[i]>> \notin order

\* There is only one way to put a set in order.
LEMMA OrderUnique ==
  ASSUME NEW S, NEW n \in Nat, NEW order,
         NEW s \in [1..n -> S], NEW t \in [1..n -> S],
         Fills(s, n, S), InOrder(order, s, n),
         Differ(t, n), NeverBack(order, t, n)
  PROVE  s = t
<1> DEFINE at == [i \in 1..n |-> CHOOSE k \in 1..n : s[k] = t[i]]
<1>1. at \in [1..n -> 1..n] /\ \A i \in 1..n : s[at[i]] = t[i]
  BY DEF Fills
<1> HIDE DEF at
<1>2. ASSUME NEW i \in 1..n, NEW j \in 1..n, i < j PROVE at[i] < at[j]
  <2>1. t[i] # t[j] /\ <<t[j], t[i]>> \notin order
    BY <1>2 DEF Differ, NeverBack
  <2>2. PICK a \in 1..n, b \in 1..n :
          a = at[i] /\ b = at[j] /\ s[a] = t[i] /\ s[b] = t[j]
    <3>1. /\ at[i] \in 1..n /\ s[at[i]] = t[i]
          /\ at[j] \in 1..n /\ s[at[j]] = t[j]
      BY <1>1
    <3> QED
      BY <3>1
  <2>3. a # b
    BY <2>1, <2>2
  <2>4. ~(b < a)
    BY <2>1, <2>2 DEF InOrder
  <2>5. a \in Nat /\ b \in Nat
    OBVIOUS
  <2>6. a < b
    BY <2>3, <2>4, <2>5
  <2> QED
    BY <2>2, <2>6
<1>3. \A i \in 1..n : at[i] = i
  BY <1>1, <1>2, IncreasingIsIdentity
<1> QED
  BY <1>1, <1>3
=================================================================================
