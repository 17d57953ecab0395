--------------------------- MODULE TextReplica_proofs ---------------------------
(***************************************************************************)
(* What a replica is follows from what it knows: proofs about TextReplica, *)
(* TextDocument and TextEdit, for every set of operations.                 *)
(*                                                                         *)
(* A sound replica is the one function of its known operations and of the  *)
(* pending inserts' order of arrival that ReplicaOf states.  The empty     *)
(* replica is sound, apply keeps it so, and a snapshot brings it back; the *)
(* walk of a sound replica shows DocumentOf what it knows.  The last part  *)
(* is about edits: what the diff keeps, and the operations it becomes.     *)
(***************************************************************************)
EXTENDS TextDocument, TextEdit, FiniteNumbers_proofs, SequenceTheorems

\* Identities start at client 1, Root is not among them.
Identities == (Nat \ {0}) \X Nat

\* What createInsertOperation, createDeleteOperation and the Lamport clocks
\* guarantee of any set of operations.
Lawful(operations) ==
  /\ IsFiniteSet(operations)
  /\ \A operation \in operations :
       /\ operation.kind \in {"insert", "delete"}
       /\ operation.id \in Identities
       /\ operation.lamport \in Nat
  /\ \A a, b \in operations : a.id = b.id => a = b
  /\ \A a, b \in Inserts(operations) : b.ref = a.id => a.lamport < b.lamport

\* A part of a lawful set is lawful.
LEMMA LawfulSubset ==
  ASSUME NEW operations, Lawful(operations), NEW part \in SUBSET operations
  PROVE  Lawful(part)
<1>1. IsFiniteSet(part)
  BY FS_Subset DEF Lawful
<1> QED
  BY <1>1 DEF Lawful, Inserts

LEMMA RootIsNoIdentity == Root \notin Identities
  BY DEF Root, Identities

--------------------------------------------------------------------------------
(***************************************************************************)
(* Sequences without repetition, and the elements of a set in order.       *)
(***************************************************************************)

Distinct(seq) == \A i, j \in 1..Len(seq) : i # j => seq[i] # seq[j]

LEMMA ToSetOfSeq ==
  ASSUME NEW S, NEW seq \in Seq(S)
  PROVE  /\ ToSet(seq) = {seq[i] : i \in 1..Len(seq)}
         /\ ToSet(seq) \in SUBSET S
  BY LenProperties DEF ToSet

LEMMA ToSetOfConcat ==
  ASSUME NEW S, NEW s \in Seq(S), NEW t \in Seq(S)
  PROVE  ToSet(s \o t) = ToSet(s) \cup ToSet(t)
<1>1. s \o t \in Seq(S)
  BY ConcatProperties
<1>2. ToSet(s \o t) = Range(s \o t) /\ ToSet(s) = Range(s) /\ ToSet(t) = Range(t)
  BY DEF ToSet, Range
<1> QED
  BY <1>2, RangeConcatenation

\* Any order on a finite set is the order of some enumeration.
LEMMA EnumerationExists ==
  ASSUME NEW S, IsFiniteSet(S), NEW order, IsStrictOrder(order, S)
  PROVE  \E s \in SetToSeqs(S) :
            \A i, j \in DOMAIN s : i < j => <<s[j], s[i]>> \notin order
<1>1. PICK s \in [1..Cardinality(S) -> S] :
        /\ \A i, j \in 1..Cardinality(S) : i # j => s[i] # s[j]
        /\ \A i, j \in 1..Cardinality(S) : i < j => <<s[j], s[i]>> \notin order
  BY OrderExists
<1>2. s \in SetToSeqs(S) /\ DOMAIN s = 1..Cardinality(S)
  BY <1>1 DEF SetToSeqs
<1> QED
  BY <1>1, <1>2

\* An enumeration is a sequence of all elements without repetition.
LEMMA EnumerationIsSeq ==
  ASSUME NEW S, IsFiniteSet(S), NEW s \in SetToSeqs(S)
  PROVE  /\ s \in Seq(S)
         /\ Len(s) = Cardinality(S)
         /\ Distinct(s)
         /\ ToSet(s) = S
         /\ s \in [1..Cardinality(S) -> S]
<1> DEFINE n == Cardinality(S)
<1>1. n \in Nat
  BY FS_CardinalityType
<1>2. s \in [1..n -> S] /\ \A i, j \in 1..n : i # j => s[i] # s[j]
  BY DEF SetToSeqs
<1> HIDE DEF n
<1>3. s \in Seq(S) /\ Len(s) = n
  BY <1>1, <1>2
<1>4. Distinct(s)
  BY <1>2, <1>3 DEF Distinct
<1>5. s \in Injection(1..n, S)
  BY <1>2 DEF Injection, IsInjective
<1>6. IsFiniteSet(1..n) /\ Cardinality(1..n) = n
  BY <1>1, FS_Interval
<1>7. s \in Surjection(1..n, S)
  BY <1>5, <1>6, FS_Injection DEF n
<1>8. ToSet(s) = S
  BY <1>2, <1>7 DEF ToSet, Surjection
<1> QED
  BY <1>2, <1>3, <1>4, <1>8 DEF n

\* Identities are told apart by ById.
LEMMA ByIdOrders ==
  ASSUME NEW a, NEW b, NEW c,
         a.id \in Identities, b.id \in Identities, c.id \in Identities
  PROVE  /\ a.id # b.id => (ById(a, b) <=> ~ById(b, a))
         /\ ~ById(a, a)
         /\ ById(a, b) /\ ById(b, c) => ById(a, c)
<1>1. PICK a1 \in Nat, a2 \in Nat : a.id = <<a1, a2>>
  BY DEF Identities
<1>2. PICK b1 \in Nat, b2 \in Nat : b.id = <<b1, b2>>
  BY DEF Identities
<1>3. PICK c1 \in Nat, c2 \in Nat : c.id = <<c1, c2>>
  BY DEF Identities
<1>4. a.id # b.id => a1 # b1 \/ a2 # b2
  BY <1>1, <1>2
<1>5. /\ ById(a, b) <=> (a1 < b1 \/ (a1 = b1 /\ a2 < b2))
      /\ ById(b, a) <=> (b1 < a1 \/ (a1 = b1 /\ b2 < a2))
      /\ ById(b, c) <=> (b1 < c1 \/ (b1 = c1 /\ b2 < c2))
      /\ ById(a, c) <=> (a1 < c1 \/ (a1 = c1 /\ a2 < c2))
      /\ ~ById(a, a)
  BY <1>1, <1>2, <1>3 DEF ById
<1> QED
  BY <1>4, <1>5

\* So are the operations of a lawful set by compareNodes.
LEMMA BeforeOrders ==
  ASSUME NEW S, Lawful(S), NEW a \in S, NEW b \in S, NEW c \in S
  PROVE  /\ a # b => (Before(a, b) <=> ~Before(b, a))
         /\ ~Before(a, a)
         /\ Before(a, b) /\ Before(b, c) => Before(a, c)
<1>1. /\ a.id \in Identities /\ b.id \in Identities /\ c.id \in Identities
      /\ a.lamport \in Nat /\ b.lamport \in Nat /\ c.lamport \in Nat
      /\ a # b => a.id # b.id
  BY DEF Lawful
<1>2. /\ a.id # b.id => (ById(a, b) <=> ~ById(b, a))
      /\ ~ById(a, a)
      /\ ById(a, b) /\ ById(b, c) => ById(a, c)
  BY <1>1, ByIdOrders
<1> QED
  BY <1>1, <1>2 DEF Before

\* What Sorted returns for each of the orders of the code.
IsListing(seq, S) ==
  /\ seq \in Seq(S)
  /\ Len(seq) = Cardinality(S)
  /\ Distinct(seq)
  /\ ToSet(seq) = S

LEMMA SortedBefore ==
  ASSUME NEW S, Lawful(S)
  PROVE  /\ IsListing(Sorted(S, Before), S)
         /\ Sorted(S, Before) \in [1..Cardinality(S) -> S]
         /\ \A i, j \in 1..Cardinality(S) :
              i < j => ~Before(Sorted(S, Before)[j], Sorted(S, Before)[i])
<1> DEFINE order == {p \in S \X S : Before(p[1], p[2])}
<1>1. \A x, y \in S : <<x, y>> \in order <=> Before(x, y)
  OBVIOUS
<1>2. IsFiniteSet(S)
  BY DEF Lawful
<1>3. IsStrictOrder(order, S)
  <2> HIDE DEF order
  <2> QED BY <1>1, BeforeOrders DEF IsStrictOrder
<1>4. PICK s \in SetToSeqs(S) : \A i, j \in DOMAIN s : i < j => <<s[j], s[i]>> \notin order
  <2> HIDE DEF order
  <2> QED BY <1>2, <1>3, EnumerationExists
<1>5. \A t \in SetToSeqs(S) : t \in [1..Cardinality(S) -> S]
  BY <1>2, EnumerationIsSeq
<1>6. \A i, j \in DOMAIN s : i < j => ~Before(s[j], s[i])
  <2> HIDE DEF order
  <2> QED BY <1>1, <1>4, <1>5
<1>7. /\ Sorted(S, Before) \in SetToSeqs(S)
      /\ \A i, j \in DOMAIN Sorted(S, Before) :
           i < j => ~Before(Sorted(S, Before)[j], Sorted(S, Before)[i])
  BY <1>6 DEF Sorted
<1> QED
  BY <1>2, <1>5, <1>7, EnumerationIsSeq DEF IsListing

LEMMA SortedById ==
  ASSUME NEW S, Lawful(S)
  PROVE  IsListing(Sorted(S, ById), S)
<1> DEFINE order == {p \in S \X S : ById(p[1], p[2])}
<1>1. \A x, y \in S : <<x, y>> \in order <=> ById(x, y)
  OBVIOUS
<1>2. IsFiniteSet(S)
  BY DEF Lawful
<1>3. IsStrictOrder(order, S)
  <2>1. ASSUME NEW x \in S, NEW y \in S, NEW z \in S
        PROVE  /\ x # y => (ById(x, y) <=> ~ById(y, x))
               /\ ~ById(x, x)
               /\ ById(x, y) /\ ById(y, z) => ById(x, z)
    <3>1. x.id \in Identities /\ y.id \in Identities /\ z.id \in Identities
          /\ (x # y => x.id # y.id)
      BY DEF Lawful
    <3> QED
      BY <3>1, ByIdOrders
  <2> HIDE DEF order
  <2> QED
    BY <1>1, <2>1 DEF IsStrictOrder
<1>4. PICK s \in SetToSeqs(S) : \A i, j \in DOMAIN s : i < j => <<s[j], s[i]>> \notin order
  <2> HIDE DEF order
  <2> QED BY <1>2, <1>3, EnumerationExists
<1>5. \A t \in SetToSeqs(S) : t \in [1..Cardinality(S) -> S]
  BY <1>2, EnumerationIsSeq
<1>6. \A i, j \in DOMAIN s : i < j => ~ById(s[j], s[i])
  <2> HIDE DEF order
  <2> QED BY <1>1, <1>4, <1>5
<1>7. Sorted(S, ById) \in SetToSeqs(S)
  BY <1>6 DEF Sorted
<1> QED
  BY <1>2, <1>7, EnumerationIsSeq DEF IsListing

LEMMA SortedAfter ==
  ASSUME NEW S, Lawful(S)
  PROVE  IsListing(Sorted(S, LAMBDA p, q : Before(q, p)), S)
<1> DEFINE order == {p \in S \X S : Before(p[2], p[1])}
<1>1. \A x, y \in S : <<x, y>> \in order <=> Before(y, x)
  OBVIOUS
<1>2. IsFiniteSet(S)
  BY DEF Lawful
<1>3. IsStrictOrder(order, S)
  <2> HIDE DEF order
  <2> QED BY <1>1, BeforeOrders DEF IsStrictOrder
<1>4. PICK s \in SetToSeqs(S) : \A i, j \in DOMAIN s : i < j => <<s[j], s[i]>> \notin order
  <2> HIDE DEF order
  <2> QED BY <1>2, <1>3, EnumerationExists
<1>5. \A t \in SetToSeqs(S) : t \in [1..Cardinality(S) -> S]
  BY <1>2, EnumerationIsSeq
<1>6. \A i, j \in DOMAIN s : i < j => ~Before(s[i], s[j])
  <2> HIDE DEF order
  <2> QED BY <1>1, <1>4, <1>5
<1>7. Sorted(S, LAMBDA p, q : Before(q, p)) \in SetToSeqs(S)
  BY <1>6 DEF Sorted
<1> QED
  BY <1>2, <1>7, EnumerationIsSeq DEF IsListing

\* A sequence of the set in the order of compareNodes is the one Sorted returns.
LEMMA SortedBeforeIs ==
  ASSUME NEW S, Lawful(S), NEW seq \in Seq(S), ToSet(seq) = S,
         \A i, j \in 1..Len(seq) : i < j => Before(seq[i], seq[j])
  PROVE  seq = Sorted(S, Before)
<1> DEFINE n     == Len(seq)
           order == {p \in S \X S : Before(p[1], p[2])}
           t     == Sorted(S, Before)
<1>1. n \in Nat /\ seq \in [1..n -> S] /\ DOMAIN seq = 1..n
  BY LenProperties
<1>2. \A x, y \in S : <<x, y>> \in order <=> Before(x, y)
  OBVIOUS
<1> HIDE DEF n, order, t
<1>3. \A x \in S : \E i \in 1..n : seq[i] = x
  BY <1>1, ToSetOfSeq DEF ToSet
<1>4. \A i, j \in 1..n : i < j => <<seq[i], seq[j]>> \in order
  BY <1>1, <1>2 DEF n
<1>6. Cardinality(S) = n
  <2>1. \A i, j \in 1..n : i # j => seq[i] # seq[j]
    <3>1. ASSUME NEW i \in 1..n, NEW j \in 1..n, i # j, seq[i] = seq[j] PROVE FALSE
      <4>1. i < j \/ j < i
        BY <3>1
      <4>2. Before(seq[i], seq[i]) /\ seq[i] \in S
        BY <1>1, <3>1, <4>1 DEF n
      <4> QED
        BY <4>2, BeforeOrders
    <3> QED
      BY <3>1
  <2>2. seq \in Injection(1..n, S) /\ seq \in Surjection(1..n, S)
    BY <1>1, <1>3, <2>1 DEF Injection, IsInjective, Surjection
  <2>3. IsFiniteSet(1..n) /\ Cardinality(1..n) = n
    BY <1>1, FS_Interval
  <2> QED
    BY <2>2, <2>3, FS_Surjection
<1>7. /\ t \in [1..n -> S]
      /\ \A i, j \in 1..n : i # j => t[i] # t[j]
      /\ \A i, j \in 1..n : i < j => <<t[j], t[i]>> \notin order
  <2>1. /\ t \in [1..n -> S] /\ Len(t) = n /\ Distinct(t)
        /\ \A i, j \in 1..n : i < j => ~Before(t[j], t[i])
    BY <1>6, SortedBefore DEF t, IsListing
  <2> QED
    BY <1>2, <2>1 DEF Distinct
<1>8. seq = t
  <2>1. Fills(seq, n, S) /\ InOrder(order, seq, n)
    BY <1>3, <1>4 DEF Fills, InOrder
  <2>2. Differ(t, n) /\ NeverBack(order, t, n) /\ t \in [1..n -> S]
    BY <1>7 DEF Differ, NeverBack
  <2> QED
    BY <1>1, <2>1, <2>2, OrderUnique
<1> QED
  BY <1>8 DEF t

\* InsertAt moves what is at the position and after it by one.
LEMMA InsertAtProperties ==
  ASSUME NEW S, NEW seq \in Seq(S), NEW e \in S, NEW p \in 1..Len(seq) + 1
  PROVE  /\ InsertAt(seq, p, e) \in Seq(S)
         /\ Len(InsertAt(seq, p, e)) = Len(seq) + 1
         /\ \A i \in 1..Len(seq) + 1 :
              InsertAt(seq, p, e)[i] = IF i < p THEN seq[i] ELSE IF i = p THEN e ELSE seq[i - 1]
<1> DEFINE n     == Len(seq)
           left  == SubSeq(seq, 1, p - 1)
           right == SubSeq(seq, p, n)
<1>1. n \in Nat /\ \A i \in 1..n : seq[i] \in S
  BY LenProperties
<1>2. /\ left \in Seq(S) /\ Len(left) = p - 1
      /\ \A i \in 1..p - 1 : left[i] = seq[i]
  <2>1. \A i \in 1..p - 1 : seq[i] \in S
    BY <1>1
  <2>2. 1 \in Int /\ p - 1 \in Int /\ p \in Int
    OBVIOUS
  <2> HIDE DEF n
  <2>3. /\ left \in Seq(S)
        /\ Len(left) = IF 1 <= p - 1 THEN p - 1 - 1 + 1 ELSE 0
        /\ \A i \in 1..p - 1 - 1 + 1 : left[i] = seq[1 + i - 1]
    BY <2>1, <2>2, SubSeqProperties
  <2> HIDE DEF left
  <2> QED
    BY <2>2, <2>3
<1>3. /\ right \in Seq(S) /\ Len(right) = n - p + 1
      /\ \A i \in 1..n - p + 1 : right[i] = seq[p + i - 1]
  <2>1. \A i \in p..n : seq[i] \in S
    BY <1>1
  <2>2. p \in Int /\ n \in Int /\ p <= n + 1
    BY <1>1
  <2> HIDE DEF n
  <2>3. /\ right \in Seq(S)
        /\ Len(right) = IF p <= n THEN n - p + 1 ELSE 0
        /\ \A i \in 1..n - p + 1 : right[i] = seq[p + i - 1]
    BY <2>1, <2>2, SubSeqProperties
  <2> HIDE DEF right
  <2> QED
    BY <2>2, <2>3
<1>4. <<e>> \in Seq(S) /\ Len(<<e>>) = 1 /\ <<e>>[1] = e
  OBVIOUS
<1> HIDE DEF left, right, n
<1> DEFINE front == left \o <<e>>
<1>5. /\ front \in Seq(S) /\ Len(front) = p
      /\ \A i \in 1..p : front[i] = IF i < p THEN seq[i] ELSE e
  <2>1. /\ front \in Seq(S) /\ Len(front) = Len(left) + 1
        /\ \A i \in 1..Len(left) + 1 :
             front[i] = IF i <= Len(left) THEN left[i] ELSE <<e>>[i - Len(left)]
    BY <1>2, <1>4, ConcatProperties
  <2>2. p - 1 + 1 = p /\ p - (p - 1) = 1
    OBVIOUS
  <2> HIDE DEF front
  <2>3. ASSUME NEW i \in 1..p PROVE front[i] = IF i < p THEN seq[i] ELSE e
    <3>1. CASE i < p
      BY <1>2, <2>1, <3>1
    <3>2. CASE i = p
      BY <1>2, <1>4, <2>1, <2>2, <3>2
    <3> QED
      BY <3>1, <3>2
  <2> QED
    BY <1>2, <2>1, <2>2, <2>3
<1> HIDE DEF front
<1> DEFINE whole == front \o right
<1>6. /\ whole \in Seq(S) /\ Len(whole) = p + (n - p + 1)
      /\ \A i \in 1..p + (n - p + 1) :
           whole[i] = IF i <= p THEN front[i] ELSE right[i - p]
  BY <1>3, <1>5, ConcatProperties
<1>7. whole = InsertAt(seq, p, e)
  BY DEF whole, front, left, right, n, InsertAt
<1> HIDE DEF whole
<1>8. p + (n - p + 1) = n + 1
  BY <1>1
<1>9. ASSUME NEW i \in 1..n + 1
      PROVE  whole[i] = IF i < p THEN seq[i] ELSE IF i = p THEN e ELSE seq[i - 1]
  <2>1. CASE i <= p
    BY <1>5, <1>6, <1>8, <2>1
  <2>2. CASE i > p
    <3>1. i - p \in 1..n - p + 1 /\ p + (i - p) - 1 = i - 1
      BY <1>1, <2>2
    <3> QED
      BY <1>3, <1>6, <1>8, <2>2, <3>1
  <2> QED
    BY <1>1, <2>1, <2>2
<1> QED
  BY <1>6, <1>7, <1>8, <1>9 DEF n

\* insertChild keeps siblings in order.
LEMMA InsertChildSorted ==
  ASSUME NEW S, NEW node, node \notin S, Lawful(S \cup {node})
  PROVE  InsertChild(Sorted(S, Before), node) = Sorted(S \cup {node}, Before)
<1> DEFINE T      == S \cup {node}
           s      == Sorted(S, Before)
           n      == Len(s)
           larger == {i \in DOMAIN s : Before(node, s[i])}
           p      == IF larger = {} THEN n + 1 ELSE Min(larger)
           t      == InsertAt(s, p, node)
<1>1. Lawful(S)
  BY LawfulSubset
<1>2. /\ s \in Seq(S) /\ Distinct(s) /\ ToSet(s) = S /\ n \in Nat /\ DOMAIN s = 1..n
      /\ \A i \in 1..n : s[i] \in S
  <2>1. s \in Seq(S) /\ Distinct(s) /\ ToSet(s) = S
    BY <1>1, SortedBefore DEF IsListing
  <2> QED
    BY <2>1, LenProperties
<1>3. \A i, j \in 1..n : i < j => Before(s[i], s[j])
  <2>1. \A i, j \in 1..n : i < j => ~Before(s[j], s[i])
    BY <1>1, SortedBefore DEF IsListing
  <2> HIDE DEF s, n
  <2>2. ASSUME NEW i \in 1..n, NEW j \in 1..n, i < j PROVE Before(s[i], s[j])
    <3>1. s[i] \in S /\ s[j] \in S /\ s[i] # s[j] /\ ~Before(s[j], s[i])
      BY <1>2, <2>1, <2>2 DEF Distinct, n
    <3> QED
      BY <1>1, <3>1, BeforeOrders
  <2> QED
    BY <2>2
<1> HIDE DEF s, n
<1>4. /\ p \in 1..n + 1
      /\ \A i \in 1..n : i < p => Before(s[i], node)
      /\ \A i \in 1..n : i >= p => Before(node, s[i])
  <2>1. ASSUME NEW i \in 1..n, ~Before(node, s[i]) PROVE Before(s[i], node)
    <3>1. s[i] \in T /\ node \in T /\ s[i] # node
      BY <1>2
    <3> QED
      BY <2>1, <3>1, BeforeOrders
  <2>2. CASE larger = {}
    <3>1. p = n + 1
      BY <2>2
    <3>2. \A i \in 1..n : ~Before(node, s[i])
      BY <1>2, <2>2
    <3> HIDE DEF p
    <3> QED
      BY <1>2, <2>1, <3>1, <3>2
  <2>3. CASE larger # {}
    <3>1. larger \in SUBSET (1..n) /\ IsFiniteSet(1..n)
      BY <1>2, FS_Interval
    <3>2. IsFiniteSet(larger) /\ larger \in SUBSET Nat
      <4>1. 1..n \in SUBSET Nat
        BY <1>2
      <4> HIDE DEF larger
      <4> QED
        BY <3>1, <4>1, FS_Subset
    <3>3. p = Min(larger)
      BY <2>3
    <3>4. p \in larger /\ \A i \in larger : p <= i
      <4> HIDE DEF larger, p
      <4> QED
        BY <2>3, <3>2, <3>3, MinOfFinite
    <3>5. p \in 1..n /\ Before(node, s[p])
      <4> HIDE DEF p
      <4> QED
        BY <1>2, <3>4
    <3>6. \A i \in 1..n : Before(node, s[i]) => p <= i
      <4> HIDE DEF p
      <4> QED
        BY <1>2, <3>4
    <3> HIDE DEF p, larger
    <3>7. ASSUME NEW i \in 1..n, i < p PROVE Before(s[i], node)
      <4>1. ~Before(node, s[i])
        BY <3>5, <3>6, <3>7
      <4> QED
        BY <2>1, <4>1
    <3>8. ASSUME NEW i \in 1..n, i >= p PROVE Before(node, s[i])
      <4>1. CASE i = p
        BY <3>5, <4>1
      <4>2. CASE i # p
        <5>1. Before(s[p], s[i])
          BY <1>3, <3>5, <3>8, <4>2
        <5>2. s[p] \in T /\ s[i] \in T /\ node \in T
          BY <1>2, <3>5
        <5> QED
          BY <3>5, <5>1, <5>2, BeforeOrders
      <4> QED
        BY <4>1, <4>2
    <3> QED
      BY <1>2, <3>5, <3>7, <3>8
  <2> QED
    BY <2>2, <2>3
<1>5. t = InsertChild(s, node)
  <2>1. DOMAIN s = 1..n /\ n = Len(s)
    BY <1>2 DEF n
  <2> QED
    BY <2>1 DEF InsertChild
<1> HIDE DEF p, larger
<1>6. /\ t \in Seq(T) /\ Len(t) = n + 1
      /\ \A i \in 1..n + 1 : t[i] = IF i < p THEN s[i] ELSE IF i = p THEN node ELSE s[i - 1]
  <2>1. s \in Seq(T) /\ node \in T
    BY <1>2, SeqMonotonic
  <2> QED
    BY <1>4, <2>1, InsertAtProperties DEF n
<1> HIDE DEF t
<1>7. ToSet(t) = T
  <2>1. ToSet(t) = {t[i] : i \in 1..n + 1} /\ S = {s[i] : i \in 1..n}
    BY <1>2, <1>6, ToSetOfSeq DEF n
  <2>2. ASSUME NEW x \in S PROVE x \in ToSet(t)
    <3>1. PICK i \in 1..n : s[i] = x
      BY <2>1
    <3>2. CASE i < p
      <4>1. i \in 1..n + 1 /\ t[i] = x
        BY <1>2, <1>6, <3>1, <3>2
      <4> QED
        BY <2>1, <4>1
    <3>3. CASE i >= p
      <4>1. i + 1 \in 1..n + 1 /\ i + 1 > p /\ i + 1 - 1 = i
        BY <1>2, <1>4, <3>3
      <4>2. t[i + 1] = x
        BY <1>4, <1>6, <3>1, <4>1
      <4> QED
        BY <2>1, <4>1, <4>2
    <3> QED
      BY <1>4, <3>2, <3>3
  <2>3. node \in ToSet(t)
    BY <1>4, <1>6, <2>1
  <2>4. ToSet(t) \in SUBSET T
    BY <1>6, ToSetOfSeq
  <2> QED
    BY <2>2, <2>3, <2>4
<1>8. ASSUME NEW i \in 1..n + 1, NEW j \in 1..n + 1, i < j PROVE Before(t[i], t[j])
  <2>1. CASE j < p
    <3>1. i \in 1..n /\ j \in 1..n /\ t[i] = s[i] /\ t[j] = s[j]
      BY <1>2, <1>4, <1>6, <1>8, <2>1
    <3> QED
      BY <1>3, <1>8, <3>1
  <2>2. CASE j = p
    <3>1. i \in 1..n /\ i < p /\ t[i] = s[i] /\ t[j] = node
      BY <1>2, <1>4, <1>6, <1>8, <2>2
    <3> QED
      BY <1>4, <3>1
  <2>3. CASE j > p /\ i < p
    <3>1. i \in 1..n /\ j - 1 \in 1..n /\ i < j - 1 /\ t[i] = s[i] /\ t[j] = s[j - 1]
      BY <1>2, <1>4, <1>6, <1>8, <2>3
    <3> QED
      BY <1>3, <3>1
  <2>4. CASE j > p /\ i = p
    <3>1. j - 1 \in 1..n /\ j - 1 >= p /\ t[i] = node /\ t[j] = s[j - 1]
      BY <1>2, <1>4, <1>6, <1>8, <2>4
    <3> QED
      BY <1>4, <3>1
  <2>5. CASE j > p /\ i > p
    <3>1. i - 1 \in 1..n /\ j - 1 \in 1..n /\ i - 1 < j - 1 /\ t[i] = s[i - 1] /\ t[j] = s[j - 1]
      BY <1>2, <1>4, <1>6, <1>8, <2>5
    <3> QED
      BY <1>3, <3>1
  <2>6. p \in Nat /\ i \in Nat /\ j \in Nat
    BY <1>4
  <2> QED
    BY <2>1, <2>2, <2>3, <2>4, <2>5, <2>6
<1>9. t = Sorted(T, Before)
  BY <1>6, <1>7, <1>8, SortedBeforeIs
<1> QED
  BY <1>5, <1>9 DEF s

--------------------------------------------------------------------------------
(***************************************************************************)
(* Lines: an element with everything it was, directly or not, inserted     *)
(* after.  Stamps decrease along a line, so it is a chain that has one     *)
(* element at most of every group of siblings.                             *)
(***************************************************************************)

LawfulInserts(inserts) ==
  Lawful(inserts) /\ \A insert \in inserts : insert.kind = "insert"

LEMMA InsertsAreLawful ==
  ASSUME NEW operations, Lawful(operations)
  PROVE  LawfulInserts(Inserts(operations))
<1>1. Inserts(operations) \in SUBSET operations
  BY DEF Inserts
<1> QED
  BY <1>1, LawfulSubset DEF LawfulInserts, Inserts

\* A set that has the anchor of each of its members.
Upward(S, inserts) ==
  \A y \in S, anchor \in inserts : anchor.id = y.ref => anchor \in S

LEMMA LineIsLeast ==
  ASSUME NEW inserts, NEW x \in inserts, NEW S \in SUBSET inserts,
         x \in S, Upward(S, inserts)
  PROVE  Line(x, inserts) \subseteq S
BY DEF Line, Upward

LEMMA LineBasics ==
  ASSUME NEW inserts, NEW x \in inserts
  PROVE  /\ Line(x, inserts) \in SUBSET inserts
         /\ x \in Line(x, inserts)
         /\ Upward(Line(x, inserts), inserts)
<1>1. Line(x, inserts) \in SUBSET inserts /\ x \in Line(x, inserts)
  BY DEF Line
<1>2. ASSUME NEW y \in Line(x, inserts), NEW anchor \in inserts, anchor.id = y.ref
      PROVE  anchor \in Line(x, inserts)
  <2>1. ASSUME NEW S \in SUBSET inserts, x \in S, Upward(S, inserts)
        PROVE  anchor \in S
    <3>1. y \in S
      BY <2>1, LineIsLeast
    <3> QED
      BY <1>2, <2>1, <3>1 DEF Upward
  <2> QED
    BY <2>1 DEF Line, Upward
<1> QED
  BY <1>1, <1>2 DEF Upward

LEMMA LineOfMember ==
  ASSUME NEW inserts, NEW x \in inserts, NEW y \in Line(x, inserts)
  PROVE  Line(y, inserts) \subseteq Line(x, inserts)
BY LineBasics, LineIsLeast

\* The line of an element is the element and the line of its anchor.
LEMMA LineOfAnchor ==
  ASSUME NEW inserts, LawfulInserts(inserts), NEW x \in inserts,
         NEW anchor \in inserts, anchor.id = x.ref
  PROVE  Line(x, inserts) = {x} \cup Line(anchor, inserts)
<1> DEFINE S == {x} \cup Line(anchor, inserts)
<1>1. Line(anchor, inserts) \in SUBSET inserts /\ Upward(Line(anchor, inserts), inserts)
      /\ anchor \in Line(anchor, inserts)
  BY LineBasics
<1>2. Upward(S, inserts)
  <2>1. \A z \in inserts : z.id = x.ref => z = anchor
    BY DEF LawfulInserts, Lawful
  <2> QED
    BY <1>1, <2>1 DEF Upward
<1>3. S \in SUBSET inserts
  BY <1>1
<1>4. Line(x, inserts) \subseteq S
  <2> HIDE DEF S
  <2>1. x \in S
    BY DEF S
  <2> QED
    BY <1>2, <1>3, <2>1, LineIsLeast
<1>5. x \in Line(x, inserts) /\ anchor \in Line(x, inserts)
  BY LineBasics DEF Upward
<1>6. Line(anchor, inserts) \subseteq Line(x, inserts)
  BY <1>5, LineOfMember
<1> QED
  BY <1>4, <1>5, <1>6

LEMMA LineWithoutAnchor ==
  ASSUME NEW inserts, NEW x \in inserts, \A y \in inserts : y.id # x.ref
  PROVE  Line(x, inserts) = {x}
<1>1. {x} \in SUBSET inserts /\ Upward({x}, inserts)
  BY DEF Upward
<1> QED
  BY <1>1, LineIsLeast, LineBasics

LEMMA StampsDecrease ==
  ASSUME NEW inserts, LawfulInserts(inserts), NEW x \in inserts,
         NEW y \in Line(x, inserts), y # x
  PROVE  y.lamport < x.lamport
<1> DEFINE S == {x} \cup {z \in inserts : z.lamport < x.lamport}
<1>1. \A a, b \in inserts :
         /\ a.lamport \in Nat
         /\ b.ref = a.id => a.lamport < b.lamport
  BY DEF LawfulInserts, Lawful, Inserts
<1>2. Upward(S, inserts)
  <2>1. ASSUME NEW b \in S, NEW a \in inserts, a.id = b.ref PROVE a \in S
    <3>1. b \in inserts /\ a.lamport < b.lamport /\ (b = x \/ b.lamport < x.lamport)
      BY <1>1, <2>1
    <3>2. a.lamport \in Nat /\ b.lamport \in Nat /\ x.lamport \in Nat
      BY <1>1, <3>1
    <3>3. a.lamport < x.lamport
      BY <3>1, <3>2
    <3> QED
      BY <3>3
  <2> QED
    BY <2>1 DEF Upward
<1>3. S \in SUBSET inserts /\ x \in S
  OBVIOUS
<1>4. y \in S
  <2> HIDE DEF S
  <2> QED BY <1>2, <1>3, LineIsLeast
<1> QED
  BY <1>4

\* Of two elements of a line one is in the line of the other.
LEMMA LineIsChain ==
  ASSUME NEW inserts, LawfulInserts(inserts), NEW x \in inserts,
         NEW a \in Line(x, inserts), NEW b \in Line(x, inserts)
  PROVE  a \in Line(b, inserts) \/ b \in Line(a, inserts)
<1> DEFINE Comparable(u) == \A v \in Line(x, inserts) :
                               u \in Line(v, inserts) \/ v \in Line(u, inserts)
           S == {u \in Line(x, inserts) : Comparable(u)}
<1>1. Line(x, inserts) \in SUBSET inserts /\ x \in Line(x, inserts)
  BY LineBasics
<1>2. x \in S
  BY <1>1
<1>3. ASSUME NEW u \in S, NEW z \in inserts, z.id = u.ref PROVE z \in S
  <2>1. z \in Line(x, inserts)
    BY <1>3, LineBasics DEF Upward
  <2>2. ASSUME NEW v \in Line(x, inserts)
        PROVE  z \in Line(v, inserts) \/ v \in Line(z, inserts)
    <3>1. u \in inserts /\ v \in inserts
      BY <1>1
    <3>2. CASE u \in Line(v, inserts)
      <4>1. Upward(Line(v, inserts), inserts)
        BY <3>1, LineBasics
      <4> QED
        BY <1>3, <3>2, <4>1 DEF Upward
    <3>3. CASE v \in Line(u, inserts)
      <4>1. Line(u, inserts) = {u} \cup Line(z, inserts)
        BY <1>3, <3>1, LineOfAnchor
      <4>2. z \in Line(u, inserts)
        BY <4>1, LineBasics
      <4> QED
        BY <3>3, <4>1, <4>2
    <3> QED
      BY <3>2, <3>3
  <2> QED
    BY <2>1, <2>2
<1>4. Upward(S, inserts) /\ S \in SUBSET inserts
  BY <1>1, <1>3 DEF Upward
<1>5. Line(x, inserts) \subseteq S
  <2> HIDE DEF S
  <2> QED BY <1>2, <1>4, LineIsLeast
<1> QED
  BY <1>5

\* A line has one element at most of every group of siblings.
LEMMA NoSiblingsInLine ==
  ASSUME NEW inserts, LawfulInserts(inserts), NEW x \in inserts,
         NEW a \in Line(x, inserts), NEW b \in Line(x, inserts), a.ref = b.ref
  PROVE  a = b
<1>1. Line(x, inserts) \in SUBSET inserts
  BY LineBasics
<1>2. ASSUME NEW u \in inserts, NEW v \in inserts, u.ref = v.ref, u # v,
             u \in Line(v, inserts)
      PROVE  FALSE
  <2>1. PICK z \in inserts : z.id = v.ref
    BY <1>2, LineWithoutAnchor
  <2>2. u \in Line(z, inserts)
    BY <1>2, <2>1, LineOfAnchor
  <2>3. z.lamport < u.lamport /\ z.lamport \in Nat /\ u.lamport \in Nat
    BY <1>2, <2>1 DEF LawfulInserts, Lawful, Inserts
  <2>4. u = z \/ u.lamport < z.lamport
    BY <2>2, StampsDecrease
  <2> QED
    BY <2>3, <2>4
<1> QED
  BY <1>1, <1>2, LineIsChain

\* Between an element and one further down there is a child of the first.
LEMMA ChildInLine ==
  ASSUME NEW inserts, NEW y \in inserts, NEW n \in Line(y, inserts), n # y
  PROVE  \E m \in Line(y, inserts) : m.ref = n.id
<1> SUFFICES ASSUME \A m \in Line(y, inserts) : m.ref # n.id PROVE FALSE
  OBVIOUS
<1> DEFINE S == Line(y, inserts) \ {n}
<1>1. S \in SUBSET inserts /\ y \in S /\ Upward(Line(y, inserts), inserts)
  BY LineBasics
<1>2. Upward(S, inserts)
  BY <1>1 DEF Upward
<1>3. Line(y, inserts) \subseteq S
  <2> HIDE DEF S
  <2> QED BY <1>1, <1>2, LineIsLeast
<1> QED
  BY <1>3

\* A line is the same in every set that has it.
LEMMA LineInPart ==
  ASSUME NEW inserts, NEW part \in SUBSET inserts, NEW x \in part,
         Upward(part, inserts)
  PROVE  Line(x, part) = Line(x, inserts)
<1>1. Line(x, inserts) \in SUBSET part
  BY LineIsLeast
<1>2. Upward(Line(x, inserts), part) /\ x \in Line(x, inserts)
  BY LineBasics DEF Upward
<1>3. Line(x, part) \subseteq Line(x, inserts)
  BY <1>1, <1>2, LineIsLeast
<1>4. Line(x, part) \in SUBSET part /\ Upward(Line(x, part), part) /\ x \in Line(x, part)
  BY LineBasics
<1>5. Upward(Line(x, part), inserts)
  BY <1>4 DEF Upward
<1>6. Line(x, inserts) \subseteq Line(x, part)
  BY <1>4, <1>5, LineIsLeast
<1> QED
  BY <1>3, <1>6

--------------------------------------------------------------------------------
(***************************************************************************)
(* A replica is made of the operations it knows, the inserts among them    *)
(* that are attached, and the table of those that wait.                    *)
(***************************************************************************)

Siblings(S) == Sorted(S, Before)

TreeOf(nodes) ==
  [parent \in {Root} \cup IdsOf(nodes) |-> Siblings({node \in nodes : node.ref = parent})]

ReplicaOf(known, nodes, pending) ==
  [known          |-> known,
   nodes          |-> nodes,
   tombstones     |-> {delete.ref : delete \in {d \in Deletes(known) : d.ref \in IdsOf(nodes)}},
   children       |-> TreeOf(nodes),
   pendingInserts |-> pending,
   pendingDeletes |-> {delete \in Deletes(known) : delete.ref \notin IdsOf(nodes)}]

\* What elements may be inserted after.
Anchors(nodes) == {Root} \cup IdsOf(nodes)

Entries(pending) == UNION {ToSet(pending[anchor]) : anchor \in DOMAIN pending}

\* Attached inserts have their anchors, waiting ones do not.
WellFormed(known, nodes, pending) ==
  /\ nodes \in SUBSET Inserts(known)
  /\ \A node \in nodes : node.ref \in Anchors(nodes)
  /\ pending \in [DOMAIN pending -> Seq(Inserts(known) \ nodes)]
  /\ \A anchor \in DOMAIN pending :
       /\ anchor \notin Anchors(nodes)
       /\ pending[anchor] # <<>>
       /\ Distinct(pending[anchor])
       /\ \A i \in 1..Len(pending[anchor]) : pending[anchor][i].ref = anchor

Without(pending, anchor) == [other \in DOMAIN pending \ {anchor} |-> pending[other]]

LEMMA SiblingsOfNone == Siblings({}) = <<>>
<1>1. Lawful({})
  BY FS_EmptySet DEF Lawful, Inserts
<1>2. Siblings({}) \in Seq({}) /\ Len(Siblings({})) = 0
  BY <1>1, SortedBefore, FS_EmptySet DEF IsListing, Siblings
<1> QED
  BY <1>2, EmptySeq

LEMMA SiblingsAreSorted ==
  ASSUME NEW S, Lawful(S)
  PROVE  IsListing(Siblings(S), S)
BY SortedBefore DEF Siblings

LEMMA SiblingsInsert ==
  ASSUME NEW S, NEW node, node \notin S, Lawful(S \cup {node})
  PROVE  InsertChild(Siblings(S), node) = Siblings(S \cup {node})
BY InsertChildSorted DEF Siblings

\* An insert that is not attached is not an anchor yet.
LEMMA NewNode ==
  ASSUME NEW known, Lawful(known), NEW nodes, NEW pending, WellFormed(known, nodes, pending),
         NEW node \in Inserts(known) \ nodes
  PROVE  node.id \notin Anchors(nodes)
<1>1. node \in known /\ nodes \in SUBSET known
  BY DEF WellFormed, Inserts
<1>2. node.id \in Identities
  BY <1>1 DEF Lawful
<1>3. node.id # Root
  BY <1>2, RootIsNoIdentity
<1>4. \A other \in nodes : other.id # node.id
  BY <1>1 DEF Lawful
<1> QED
  BY <1>3, <1>4 DEF Anchors, IdsOf

\* Attach makes the tree of the nodes with the new one.
LEMMA TreeOfAttach ==
  ASSUME NEW known, Lawful(known), NEW nodes, NEW pending, WellFormed(known, nodes, pending),
         NEW node \in Inserts(known) \ nodes, node.ref \in Anchors(nodes)
  PROVE  [parent \in DOMAIN TreeOf(nodes) \cup {node.id} |->
            IF parent = node.ref THEN InsertChild(TreeOf(nodes)[parent], node)
            ELSE IF parent = node.id THEN <<>> ELSE TreeOf(nodes)[parent]]
         = TreeOf(nodes \cup {node})
<1> DEFINE old(parent) == {n \in nodes : n.ref = parent}
           new(parent) == {n \in nodes \cup {node} : n.ref = parent}
<1>1. node.id \notin Anchors(nodes)
  BY NewNode
<1>2. \A n \in nodes : n.ref \in Anchors(nodes)
  BY DEF WellFormed
<1>3. Lawful(nodes \cup {node})
  <2>1. nodes \cup {node} \in SUBSET known
    BY DEF WellFormed, Inserts
  <2> QED
    BY <2>1, LawfulSubset
<1>4. DOMAIN TreeOf(nodes) = Anchors(nodes)
  BY DEF TreeOf, Anchors
<1>5. Anchors(nodes) \cup {node.id} = Anchors(nodes \cup {node})
  BY DEF Anchors, IdsOf
<1>6. \A parent \in Anchors(nodes) : TreeOf(nodes)[parent] = Siblings(old(parent))
  BY DEF TreeOf, Anchors
<1>7. ASSUME NEW parent \in Anchors(nodes) \cup {node.id}
      PROVE  (IF parent = node.ref THEN InsertChild(TreeOf(nodes)[parent], node)
              ELSE IF parent = node.id THEN <<>> ELSE TreeOf(nodes)[parent])
             = Siblings(new(parent))
  <2>1. CASE parent = node.ref
    <3>1. node \notin old(parent) /\ old(parent) \cup {node} = new(parent)
      BY <2>1
    <3>2. Lawful(new(parent))
      <4>1. new(parent) \in SUBSET (nodes \cup {node})
        OBVIOUS
      <4> HIDE DEF new
      <4> QED
        BY <1>3, <4>1, LawfulSubset
    <3>3. TreeOf(nodes)[parent] = Siblings(old(parent))
      BY <1>6, <2>1
    <3> HIDE DEF old, new
    <3>4. InsertChild(Siblings(old(parent)), node) = Siblings(new(parent))
      BY <3>1, <3>2, SiblingsInsert
    <3> QED
      BY <2>1, <3>3, <3>4
  <2>2. CASE parent # node.ref /\ parent = node.id
    <3>1. new(parent) = {}
      BY <1>1, <1>2, <2>2
    <3> HIDE DEF new
    <3> QED
      BY <2>2, <3>1, SiblingsOfNone
  <2>3. CASE parent # node.ref /\ parent # node.id
    <3>1. new(parent) = old(parent)
      BY <2>3
    <3> HIDE DEF new, old
    <3> QED
      BY <1>6, <2>3, <3>1
  <2> QED
    BY <2>1, <2>2, <2>3
<1>8. TreeOf(nodes \cup {node}) = [parent \in Anchors(nodes) \cup {node.id} |-> Siblings(new(parent))]
  BY <1>5 DEF TreeOf, Anchors
<1> HIDE DEF new
<1> QED
  BY <1>4, <1>7, <1>8

LEMMA AttachIs ==
  ASSUME NEW known, Lawful(known), NEW nodes, NEW pending, WellFormed(known, nodes, pending),
         NEW node \in Inserts(known) \ nodes, node.ref \in Anchors(nodes)
  PROVE  Attach(ReplicaOf(known, nodes, pending), node)
           = ReplicaOf(known, nodes \cup {node}, Without(pending, node.id))
<1> DEFINE r       == ReplicaOf(known, nodes, pending)
           s       == ReplicaOf(known, nodes \cup {node}, Without(pending, node.id))
           waiting == {delete \in r.pendingDeletes : delete.ref = node.id}
           tree    == [parent \in DOMAIN r.children \cup {node.id} |->
                         IF parent = node.ref THEN InsertChild(r.children[parent], node)
                         ELSE IF parent = node.id THEN <<>> ELSE r.children[parent]]
           table   == [anchor \in DOMAIN r.pendingInserts \ {node.id} |-> r.pendingInserts[anchor]]
           stones  == IF waiting = {} THEN r.tombstones ELSE r.tombstones \cup {node.id}
<1>1. tree = s.children
  BY TreeOfAttach DEF ReplicaOf
<1>2. table = s.pendingInserts
  BY DEF ReplicaOf, Without
<1>3. node.id \notin IdsOf(nodes) /\ IdsOf(nodes \cup {node}) = IdsOf(nodes) \cup {node.id}
  BY NewNode DEF Anchors, IdsOf
<1>4. r.pendingDeletes \ waiting = s.pendingDeletes
  BY <1>3 DEF ReplicaOf
<1>5. stones = s.tombstones
  <2>1. s.tombstones = {delete.ref : delete \in {d \in Deletes(known) : d.ref \in IdsOf(nodes) \cup {node.id}}}
    BY <1>3 DEF ReplicaOf
  <2>2. r.tombstones = {delete.ref : delete \in {d \in Deletes(known) : d.ref \in IdsOf(nodes)}}
    BY DEF ReplicaOf
  <2>3. waiting = {d \in Deletes(known) : d.ref = node.id}
    BY <1>3 DEF ReplicaOf
  <2> QED
    BY <2>1, <2>2, <2>3
<1>6. r.nodes \cup {node} = s.nodes /\ r.known = s.known
  BY DEF ReplicaOf
<1>7. Attach(r, node) = [r EXCEPT !.nodes = r.nodes \cup {node}, !.children = tree,
                                  !.tombstones = stones,
                                  !.pendingDeletes = r.pendingDeletes \ waiting,
                                  !.pendingInserts = table]
  BY DEF Attach
<1>8. r = [known |-> r.known, nodes |-> r.nodes, tombstones |-> r.tombstones,
           children |-> r.children, pendingInserts |-> r.pendingInserts,
           pendingDeletes |-> r.pendingDeletes]
  BY DEF ReplicaOf
<1>9. s = [known |-> s.known, nodes |-> s.nodes, tombstones |-> s.tombstones,
           children |-> s.children, pendingInserts |-> s.pendingInserts,
           pendingDeletes |-> s.pendingDeletes]
  BY DEF ReplicaOf
<1> HIDE DEF r, s, tree, table, stones, waiting
<1>10. Attach(r, node) = [known |-> r.known, nodes |-> r.nodes \cup {node}, tombstones |-> stones,
           children |-> tree, pendingInserts |-> table,
           pendingDeletes |-> r.pendingDeletes \ waiting]
  BY <1>7, <1>8
<1>11. Attach(r, node) = s
  BY <1>1, <1>2, <1>4, <1>5, <1>6, <1>9, <1>10
<1> QED
  BY <1>11 DEF r, s

--------------------------------------------------------------------------------
(***************************************************************************)
(* The loop of attachInsertAndResolve.                                     *)
(***************************************************************************)

AttachStays(S, n) == \A st \in S, k \in 1..n : AttachTurn(st, k) \in S

AttachRun(f, n, S, start) ==
  /\ f \in [0..n -> S]
  /\ f[0] = start
  /\ \A k \in 1..n : f[k] = AttachTurn(f[k - 1], k)
  /\ Loop(start, n, AttachTurn) = f[n]

LEMMA AttachLoop ==
  ASSUME NEW n \in Nat, NEW S, NEW start \in S, AttachStays(S, n)
  PROVE  \E f : AttachRun(f, n, S, start)
<1> USE DEF AttachStays
<1> DEFINE turn    == [k \in 1..n |-> [st \in S |-> AttachTurn(st, k)]]
           Is(f)   == f = [k \in 0..n |-> IF k = 0 THEN start ELSE AttachTurn(f[k - 1], k)]
           state   == CHOOSE f : Is(f)
<1>1. IsTurns(turn, n, S)
  BY DEF IsTurns
<1>2. PICK g : GoesThrough(g, n, S, start, turn)
  <2> HIDE DEF turn, Is, state
  <2> QED BY <1>1, LoopExists
<1>3. Is(g)
  <2>1. ASSUME NEW k \in 0..n
        PROVE  g[k] = IF k = 0 THEN start ELSE AttachTurn(g[k - 1], k)
    <3>1. CASE k = 0
      BY <1>2, <3>1 DEF GoesThrough
    <3>2. CASE k # 0
      <4>1. k \in 1..n /\ k - 1 \in 0..n
        BY <3>2
      <4>2. g[k] = turn[k][g[k - 1]] /\ g[k - 1] \in S
        BY <1>2, <3>2, <4>1 DEF GoesThrough
      <4> QED
        BY <3>2, <4>1, <4>2
    <3> QED
      BY <3>1, <3>2
  <2> HIDE DEF turn
  <2> QED
    BY <1>2, <2>1 DEF GoesThrough
<1>4. Is(state)
  <2> HIDE DEF Is
  <2> QED BY <1>3
<1>5. state = [k \in 0..n |-> IF k = 0 THEN start ELSE AttachTurn(state[k - 1], k)]
  BY <1>4
<1>6. Loop(start, n, AttachTurn) = state[n]
  BY DEF Loop
<1> HIDE DEF state, turn, Is
<1>7. state[0] = start /\ \A k \in 1..n : state[k] = AttachTurn(state[k - 1], k)
  BY <1>5
<1> DEFINE good == {k \in 0..n : state[k] \in S}
<1>8. 0 \in good /\ \A k \in 1..n : k - 1 \in good => k \in good
  BY <1>7
<1>9. \A k \in 0..n : k \in good
  <2> HIDE DEF good
  <2> QED BY <1>8, CountUp
<1>10. state \in [0..n -> S]
  BY <1>5, <1>9
<1> QED
  BY <1>6, <1>7, <1>10 DEF AttachRun

\* What the loop keeps: the inserts that are not attached wait in the table, or
\* are in the queue and have their anchors.
Proper(known, nodes, pending, queue) ==
  /\ WellFormed(known, nodes, pending)
  /\ queue \in Seq(Inserts(known) \ nodes)
  /\ Distinct(queue)
  /\ \A i \in 1..Len(queue) : queue[i].ref \in Anchors(nodes)
  /\ Inserts(known) \ nodes = Entries(pending) \cup ToSet(queue)

LEMMA WithoutWellFormed ==
  ASSUME NEW known, Lawful(known), NEW nodes, NEW pending, WellFormed(known, nodes, pending),
         NEW node \in Inserts(known) \ nodes, node.ref \in Anchors(nodes)
  PROVE  /\ WellFormed(known, nodes \cup {node}, Without(pending, node.id))
         /\ node \notin Entries(pending)
<1> DEFINE new   == nodes \cup {node}
           table == Without(pending, node.id)
<1>1. Anchors(new) = Anchors(nodes) \cup {node.id}
  BY DEF Anchors, IdsOf
<1>2. new \in SUBSET Inserts(known) /\ \A n \in new : n.ref \in Anchors(new)
  BY <1>1 DEF WellFormed
<1>3. DOMAIN table = DOMAIN pending \ {node.id} /\ \A anchor \in DOMAIN table : table[anchor] = pending[anchor]
  BY DEF Without
<1>4. ASSUME NEW anchor \in DOMAIN pending
      PROVE  /\ pending[anchor] \in Seq(Inserts(known) \ nodes)
             /\ \A i \in 1..Len(pending[anchor]) : pending[anchor][i] \in Inserts(known) \ nodes
             /\ \A i \in 1..Len(pending[anchor]) : pending[anchor][i] # node
             /\ ToSet(pending[anchor]) = {pending[anchor][i] : i \in 1..Len(pending[anchor])}
  <2>1. pending[anchor] \in Seq(Inserts(known) \ nodes)
    BY DEF WellFormed
  <2>2. \A i \in 1..Len(pending[anchor]) : pending[anchor][i] \in Inserts(known) \ nodes
    BY <2>1
  <2>3. \A i \in 1..Len(pending[anchor]) : pending[anchor][i].ref = anchor
    BY DEF WellFormed
  <2>4. anchor \notin Anchors(nodes)
    BY DEF WellFormed
  <2>5. ToSet(pending[anchor]) = {pending[anchor][i] : i \in 1..Len(pending[anchor])}
    BY <2>1, ToSetOfSeq
  <2> QED
    BY <2>1, <2>2, <2>3, <2>4, <2>5
<1>5. node \notin Entries(pending)
  BY <1>4 DEF Entries
<1>6. ASSUME NEW anchor \in DOMAIN table
      PROVE  pending[anchor] \in Seq(Inserts(known) \ new)
  <2>1. anchor \in DOMAIN pending
    BY <1>3
  <2>2. \A i \in 1..Len(pending[anchor]) : pending[anchor][i] \in Inserts(known) \ new
    BY <1>4, <2>1
  <2>3. pending[anchor] \in Seq(Inserts(known) \ nodes)
    BY <1>4, <2>1
  <2> HIDE DEF new
  <2> QED
    BY <2>2, <2>3
<1>7. table \in [DOMAIN table -> Seq(Inserts(known) \ new)]
  <2>1. table = [anchor \in DOMAIN table |-> table[anchor]]
    BY DEF Without
  <2> HIDE DEF table, new
  <2> QED
    BY <1>3, <1>6, <2>1
<1>8. ASSUME NEW anchor \in DOMAIN table
      PROVE  /\ anchor \notin Anchors(new)
             /\ table[anchor] # <<>>
             /\ Distinct(table[anchor])
             /\ \A i \in 1..Len(table[anchor]) : table[anchor][i].ref = anchor
  <2>1. anchor \in DOMAIN pending /\ anchor # node.id /\ table[anchor] = pending[anchor]
    BY <1>3
  <2> HIDE DEF table, new
  <2> QED
    BY <1>1, <2>1 DEF WellFormed
<1> HIDE DEF table, new
<1>9. WellFormed(known, new, table)
  BY <1>2, <1>7, <1>8 DEF WellFormed
<1> QED
  BY <1>5, <1>9 DEF table, new

\* The part of the table under an anchor.
WaitOnly(waiting, known, nodes, pending, anchor) ==
  /\ waiting \in Seq(Inserts(known) \ nodes)
  /\ Distinct(waiting)
  /\ \A i \in 1..Len(waiting) : waiting[i].ref = anchor
  /\ Entries(pending) = Entries(Without(pending, anchor)) \cup ToSet(waiting)

LEMMA WaitingForIs ==
  ASSUME NEW known, NEW nodes, NEW pending, WellFormed(known, nodes, pending), NEW anchor
  PROVE  WaitOnly(WaitingFor(ReplicaOf(known, nodes, pending), anchor), known, nodes, pending, anchor)
<1> USE DEF WaitOnly
<1> DEFINE waiting == WaitingFor(ReplicaOf(known, nodes, pending), anchor)
<1>1. waiting = IF anchor \in DOMAIN pending THEN pending[anchor] ELSE <<>>
  BY DEF WaitingFor, ReplicaOf
<1>2. DOMAIN Without(pending, anchor) = DOMAIN pending \ {anchor}
      /\ \A other \in DOMAIN pending \ {anchor} : Without(pending, anchor)[other] = pending[other]
  BY DEF Without
<1> HIDE DEF waiting
<1>3. CASE anchor \in DOMAIN pending
  <2>1. waiting = pending[anchor]
    BY <1>1, <1>3
  <2>2. Entries(pending) = Entries(Without(pending, anchor)) \cup ToSet(waiting)
    BY <1>2, <1>3, <2>1 DEF Entries
  <2> QED
    BY <1>3, <2>1, <2>2 DEF WellFormed, waiting
<1>4. CASE anchor \notin DOMAIN pending
  <2>1. waiting = <<>>
    BY <1>1, <1>4
  <2>2. ToSet(waiting) = {} /\ Distinct(waiting) /\ waiting \in Seq(Inserts(known) \ nodes)
        /\ 1..Len(waiting) = {}
    BY <2>1 DEF ToSet, Distinct
  <2>3. Entries(Without(pending, anchor)) = Entries(pending)
    BY <1>2, <1>4 DEF Entries
  <2> QED
    BY <2>2, <2>3 DEF waiting
<1> QED
  BY <1>3, <1>4

LEMMA ConcatDistinct ==
  ASSUME NEW S, NEW s \in Seq(S), NEW t \in Seq(S), Distinct(s), Distinct(t),
         ToSet(s) \cap ToSet(t) = {}
  PROVE  s \o t \in Seq(S) /\ Distinct(s \o t)
<1> DEFINE m == Len(s)
           n == Len(t)
           u == s \o t
<1>1. u \in Seq(S) /\ m \in Nat /\ n \in Nat /\ Len(u) = m + n
      /\ \A i \in 1..m + n : u[i] = IF i <= m THEN s[i] ELSE t[i - m]
  BY ConcatProperties, LenProperties
<1>2. \A i \in 1..m : s[i] \in ToSet(s)
  BY ToSetOfSeq
<1>3. \A i \in 1..n : t[i] \in ToSet(t)
  BY ToSetOfSeq
<1>4. ASSUME NEW i \in 1..m + n, NEW j \in 1..m + n, i < j PROVE u[i] # u[j]
  <2>1. CASE j <= m
    <3>1. i \in 1..m /\ j \in 1..m /\ i <= m /\ i # j
      BY <1>1, <1>4, <2>1
    <3> QED
      BY <1>1, <2>1, <3>1 DEF Distinct
  <2>2. CASE i <= m /\ ~(j <= m)
    <3>1. i \in 1..m /\ j - m \in 1..n
      BY <1>1, <1>4, <2>2
    <3>2. s[i] # t[j - m]
      BY <1>2, <1>3, <3>1
    <3> QED
      BY <1>1, <2>2, <3>2
  <2>3. CASE ~(i <= m)
    <3>1. i - m \in 1..n /\ j - m \in 1..n /\ i - m # j - m /\ ~(j <= m)
      BY <1>1, <1>4, <2>3
    <3>2. t[i - m] # t[j - m]
      BY <3>1 DEF Distinct
    <3> QED
      BY <1>1, <2>3, <3>1, <3>2
  <2> QED
    BY <2>1, <2>2, <2>3
<1> HIDE DEF u, m, n
<1>5. \A i, j \in 1..m + n : i # j => u[i] # u[j]
  <2>1. \A i, j \in 1..m + n : i # j => i < j \/ j < i
    BY <1>1
  <2> QED
    BY <1>4, <2>1
<1> QED
  BY <1>1, <1>5 DEF Distinct, u

\* A turn with a queue attaches its first insert; the inserts that waited for
\* it join the queue.
LEMMA TurnIs ==
  ASSUME NEW known, Lawful(known), NEW nodes, NEW pending, NEW queue,
         Proper(known, nodes, pending, queue), queue # <<>>, NEW turn
  PROVE  \E node, rest :
           /\ node \in Inserts(known) \ nodes
           /\ AttachTurn([replica |-> ReplicaOf(known, nodes, pending), queue |-> queue], turn)
                = [replica |-> ReplicaOf(known, nodes \cup {node}, Without(pending, node.id)),
                   queue   |-> rest]
           /\ Proper(known, nodes \cup {node}, Without(pending, node.id), rest)
<1> DEFINE free == Inserts(known) \ nodes
<1>0. queue \in Seq(free) /\ Len(queue) \in Nat \ {0} /\ Head(queue) = queue[1]
      /\ queue[1] \in free
  BY EmptySeq, LenProperties, HeadTailProperties DEF Proper
<1>1. PICK node \in Inserts(known) \ nodes :
        /\ queue \in Seq(free) /\ Len(queue) \in Nat \ {0}
        /\ node = Head(queue) /\ node = queue[1]
  BY <1>0
<1> DEFINE r       == ReplicaOf(known, nodes, pending)
           st      == [replica |-> r, queue |-> queue]
           waiting == WaitingFor(r, node.id)
           rest    == Tail(queue) \o waiting
           new     == nodes \cup {node}
           table   == Without(pending, node.id)
<1>2. WellFormed(known, nodes, pending) /\ node.ref \in Anchors(nodes)
  <2>1. 1 \in 1..Len(queue)
    BY <1>1
  <2> QED
    BY <1>1, <2>1 DEF Proper
<1>3. /\ WellFormed(known, new, table)
      /\ node \notin Entries(pending)
      /\ node.id \notin Anchors(nodes)
  BY <1>1, <1>2, WithoutWellFormed, NewNode
<1>4. /\ waiting \in Seq(free)
      /\ Distinct(waiting)
      /\ \A i \in 1..Len(waiting) : waiting[i].ref = node.id
      /\ Entries(pending) = Entries(table) \cup ToSet(waiting)
  <2>1. WaitOnly(waiting, known, nodes, pending, node.id)
    BY <1>2, WaitingForIs
  <2> HIDE DEF waiting
  <2> QED
    BY <2>1 DEF WaitOnly
<1>5. /\ Tail(queue) \in Seq(free) /\ Len(Tail(queue)) = Len(queue) - 1
      /\ \A i \in 1..Len(queue) - 1 : Tail(queue)[i] = queue[i + 1]
  BY <1>1, HeadTailProperties, EmptySeq
<1>6. /\ Distinct(Tail(queue))
      /\ \A i \in 1..Len(Tail(queue)) : Tail(queue)[i].ref \in Anchors(nodes) /\ Tail(queue)[i] # node
      /\ ToSet(queue) = {node} \cup ToSet(Tail(queue))
  <2>1. \A i \in 1..Len(queue) - 1 : i + 1 \in 1..Len(queue) /\ i + 1 # 1 /\ 1 \in 1..Len(queue)
    BY <1>1
  <2>2. \A i, j \in 1..Len(queue) - 1 : i # j => i + 1 # j + 1
    BY <1>1
  <2>3. Distinct(queue) /\ \A i \in 1..Len(queue) : queue[i].ref \in Anchors(nodes)
    BY DEF Proper
  <2>4. Distinct(Tail(queue))
    <3> QED
      BY <1>5, <2>1, <2>2, <2>3 DEF Distinct
  <2>5. \A i \in 1..Len(queue) - 1 : queue[i + 1].ref \in Anchors(nodes) /\ queue[i + 1] # node
    <3> QED
      BY <1>1, <2>1, <2>3 DEF Distinct
  <2>6. ToSet(queue) = {node} \cup ToSet(Tail(queue))
    <3>1. ToSet(queue) = {queue[i] : i \in 1..Len(queue)}
          /\ ToSet(Tail(queue)) = {Tail(queue)[i] : i \in 1..Len(queue) - 1}
      BY <1>1, <1>5, ToSetOfSeq
    <3>2. ASSUME NEW i \in 1..Len(queue) PROVE queue[i] \in {node} \cup ToSet(Tail(queue))
      <4>1. i = 1 \/ (i - 1 \in 1..Len(queue) - 1 /\ (i - 1) + 1 = i)
        BY <1>1
      <4> QED
        BY <1>1, <1>5, <3>1, <4>1
    <3>3. ASSUME NEW i \in 1..Len(queue) - 1 PROVE Tail(queue)[i] \in ToSet(queue)
      BY <1>5, <2>1, <3>1
    <3>4. node \in ToSet(queue)
      <4>1. 1 \in 1..Len(queue)
        BY <1>1
      <4> QED
        BY <1>1, <3>1, <4>1
    <3> QED
      BY <3>1, <3>2, <3>3, <3>4
  <2> QED
    BY <1>5, <2>4, <2>5, <2>6
<1>7. AttachTurn(st, turn) = [replica |-> ReplicaOf(known, new, table), queue |-> rest]
  <2>1. node \notin r.nodes /\ AnchorExists(r, node.ref)
    BY <1>1, <1>2 DEF ReplicaOf, AnchorExists, Anchors
  <2>2. AttachTurn(st, turn) = [replica |-> Attach(r, node), queue |-> rest]
    BY <1>1, <2>1 DEF AttachTurn
  <2>3. Attach(r, node) = ReplicaOf(known, new, table)
    <3> QED
      BY <1>1, <1>2, AttachIs
  <2> QED
    BY <2>2, <2>3
<1> HIDE DEF r, waiting, table, new
<1>8. node \notin ToSet(Tail(queue)) /\ node \notin ToSet(waiting)
      /\ ToSet(waiting) \subseteq Entries(pending)
      /\ ToSet(Tail(queue)) \cap ToSet(waiting) = {}
  <2>1. ToSet(waiting) = {waiting[i] : i \in 1..Len(waiting)}
        /\ ToSet(Tail(queue)) = {Tail(queue)[i] : i \in 1..Len(Tail(queue))}
    BY <1>4, <1>5, ToSetOfSeq
  <2> QED
    BY <1>3, <1>4, <1>6, <2>1
<1>9. rest \in Seq(free) /\ Distinct(rest) /\ ToSet(rest) = ToSet(Tail(queue)) \cup ToSet(waiting)
  <2> HIDE DEF free
  <2>1. rest \in Seq(free) /\ Distinct(rest)
    BY <1>4, <1>5, <1>6, <1>8, ConcatDistinct
  <2>2. ToSet(rest) = ToSet(Tail(queue)) \cup ToSet(waiting)
    BY <1>4, <1>5, ToSetOfConcat
  <2> QED
    BY <2>1, <2>2
<1> HIDE DEF rest
<1>10. ToSet(rest) = {rest[i] : i \in 1..Len(rest)}
  BY <1>9, ToSetOfSeq
<1>11. rest \in Seq(Inserts(known) \ new)
  <2>1. \A i \in 1..Len(rest) : rest[i] \in free /\ rest[i] # node
    BY <1>8, <1>9, <1>10
  <2> QED
    BY <1>9, <2>1 DEF new
<1>12. \A i \in 1..Len(rest) : rest[i].ref \in Anchors(new)
  <2>1. Anchors(new) = Anchors(nodes) \cup {node.id}
    BY DEF Anchors, IdsOf, new
  <2>2. \A x \in ToSet(Tail(queue)) : x.ref \in Anchors(nodes)
    <3>1. ToSet(Tail(queue)) = {Tail(queue)[i] : i \in 1..Len(Tail(queue))}
      BY <1>5, ToSetOfSeq
    <3> QED
      BY <1>6, <3>1
  <2>3. \A x \in ToSet(waiting) : x.ref = node.id
    <3>1. ToSet(waiting) = {waiting[i] : i \in 1..Len(waiting)}
      BY <1>4, ToSetOfSeq
    <3> QED
      BY <1>4, <3>1
  <2> QED
    BY <1>9, <1>10, <2>1, <2>2, <2>3
<1>13. Inserts(known) \ new = Entries(table) \cup ToSet(rest)
  <2>1. Inserts(known) \ nodes = Entries(pending) \cup ToSet(queue)
    BY DEF Proper
  <2>2. node \notin Entries(table)
    BY <1>3, <1>4
  <2> QED
    BY <1>4, <1>6, <1>8, <1>9, <2>1, <2>2 DEF new
<1>14. Proper(known, new, table, rest)
  BY <1>3, <1>9, <1>11, <1>12, <1>13 DEF Proper
<1> QED
  BY <1>1, <1>7, <1>14 DEF new, table, r

QueueState(known, nodes, pending, queue) ==
  [replica |-> ReplicaOf(known, nodes, pending), queue |-> queue]

TablesOf(known) ==
  UNION {[D -> Seq(Inserts(known))] : D \in SUBSET {insert.ref : insert \in Inserts(known)}}

ProperStates(known) ==
  {QueueState(known, t[1], t[2], t[3]) :
     t \in {u \in (SUBSET Inserts(known)) \X TablesOf(known) \X Seq(Inserts(known)) :
              Proper(known, u[1], u[2], u[3])}}

LEMMA ProperState ==
  ASSUME NEW known, NEW st
  PROVE  st \in ProperStates(known) <=>
           \E nodes, pending, queue :
             Proper(known, nodes, pending, queue) /\ st = QueueState(known, nodes, pending, queue)
<1>1. ASSUME st \in ProperStates(known)
      PROVE  \E nodes, pending, queue :
               Proper(known, nodes, pending, queue) /\ st = QueueState(known, nodes, pending, queue)
  BY <1>1 DEF ProperStates
<1>2. ASSUME NEW nodes, NEW pending, NEW queue, Proper(known, nodes, pending, queue)
      PROVE  QueueState(known, nodes, pending, queue) \in ProperStates(known)
  <2>1. WellFormed(known, nodes, pending) /\ queue \in Seq(Inserts(known) \ nodes)
    BY <1>2 DEF Proper
  <2>2. queue \in Seq(Inserts(known))
    BY <2>1
  <2>3. nodes \in SUBSET Inserts(known) /\ pending \in [DOMAIN pending -> Seq(Inserts(known) \ nodes)]
    BY <2>1 DEF WellFormed
  <2>4. ASSUME NEW anchor \in DOMAIN pending
        PROVE  /\ pending[anchor] \in Seq(Inserts(known))
               /\ anchor \in {insert.ref : insert \in Inserts(known)}
    <3>1. pending[anchor] \in Seq(Inserts(known) \ nodes) /\ pending[anchor] # <<>>
          /\ \A i \in 1..Len(pending[anchor]) : pending[anchor][i].ref = anchor
      BY <2>1 DEF WellFormed
    <3>2. Len(pending[anchor]) \in Nat \ {0}
      BY <3>1, EmptySeq, LenProperties
    <3>3. 1 \in 1..Len(pending[anchor])
      BY <3>2
    <3>4. pending[anchor][1] \in Inserts(known) \ nodes
      BY <3>1, <3>3
    <3> QED
      BY <3>1, <3>3, <3>4
  <2>5. pending \in [DOMAIN pending -> Seq(Inserts(known))]
    BY <2>3, <2>4
  <2>6. pending \in TablesOf(known)
    BY <2>4, <2>5 DEF TablesOf
  <2> DEFINE u == <<nodes, pending, queue>>
  <2>7. u \in (SUBSET Inserts(known)) \X TablesOf(known) \X Seq(Inserts(known))
        /\ u[1] = nodes /\ u[2] = pending /\ u[3] = queue
    BY <2>2, <2>3, <2>6
  <2> HIDE DEF u
  <2>8. Proper(known, u[1], u[2], u[3])
        /\ QueueState(known, nodes, pending, queue) = QueueState(known, u[1], u[2], u[3])
    BY <1>2, <2>7
  <2> QED
    BY <2>7, <2>8 DEF ProperStates
<1> QED
  BY <1>1, <1>2

\* The inserts that are not attached, counted.
Left(known, nodes) == Cardinality(Inserts(known) \ nodes)

\* The queue is empty when the loop ends, and all that is not attached waits.
LEMMA AttachAndResolveIs ==
  ASSUME NEW known, Lawful(known), NEW nodes, NEW pending, NEW insert,
         Proper(known, nodes, pending, <<insert>>)
  PROVE  \E new, table :
           /\ AttachAndResolve(ReplicaOf(known, nodes, pending), insert)
                = ReplicaOf(known, new, table)
           /\ WellFormed(known, new, table)
           /\ Entries(table) = Inserts(known) \ new
<1> DEFINE r     == ReplicaOf(known, nodes, pending)
           S     == ProperStates(known)
           start == QueueState(known, nodes, pending, <<insert>>)
           n     == Left(known, nodes)
<1>1. IsFiniteSet(Inserts(known)) /\ n \in Nat
  <2>1. Inserts(known) \in SUBSET known
    BY DEF Inserts
  <2>2. IsFiniteSet(Inserts(known))
    BY <2>1, FS_Subset DEF Lawful
  <2>3. IsFiniteSet(Inserts(known) \ nodes)
    BY <2>2, FS_Subset
  <2> QED
    BY <2>2, <2>3, FS_CardinalityType DEF Left
<1>2. start \in S
  BY ProperState
<1>3. ASSUME NEW more, NEW rows, NEW queue, Proper(known, more, rows, queue), NEW k
      PROVE  /\ AttachTurn(QueueState(known, more, rows, queue), k) \in S
             /\ queue = <<>> =>
                  AttachTurn(QueueState(known, more, rows, queue), k) = QueueState(known, more, rows, queue)
  <2>1. CASE queue = <<>>
    <3>1. QueueState(known, more, rows, queue).queue = <<>>
      BY <2>1 DEF QueueState
    <3>2. AttachTurn(QueueState(known, more, rows, queue), k) = QueueState(known, more, rows, queue)
      BY <3>1 DEF AttachTurn
    <3>3. QueueState(known, more, rows, queue) \in S
      BY <1>3, ProperState
    <3> QED
      BY <2>1, <3>2, <3>3
  <2>2. CASE queue # <<>>
    <3>1. PICK node, rest :
            /\ node \in Inserts(known) \ more
            /\ AttachTurn(QueueState(known, more, rows, queue), k)
                 = QueueState(known, more \cup {node}, Without(rows, node.id), rest)
            /\ Proper(known, more \cup {node}, Without(rows, node.id), rest)
      BY <1>3, <2>2, TurnIs DEF QueueState
    <3>2. QueueState(known, more \cup {node}, Without(rows, node.id), rest) \in S
      BY <3>1, ProperState
    <3> QED
      BY <2>2, <3>1, <3>2
  <2> QED
    BY <2>1, <2>2
<1>4. AttachStays(S, n)
  BY <1>3, ProperState DEF AttachStays
<1>5. PICK f : AttachRun(f, n, S, start)
  <2> HIDE DEF n, S, start
  <2> QED
    BY <1>1, <1>2, <1>4, AttachLoop
<1> USE DEF AttachRun
<1> DEFINE Fits(k, st) ==
             \E more, rows, queue :
               /\ Proper(known, more, rows, queue)
               /\ st = QueueState(known, more, rows, queue)
               /\ queue = <<>> \/ Left(known, more) + k <= n
           good == {k \in 0..n : Fits(k, f[k])}
<1>6. 0 \in good
  <2>1. 0 \in 0..n /\ Left(known, nodes) + 0 <= n
    BY <1>1
  <2> HIDE DEF n
  <2> QED
    BY <1>5, <2>1
<1>7. ASSUME NEW k \in 1..n, k - 1 \in good PROVE k \in good
  <2>1. PICK more, rows, queue :
          /\ Proper(known, more, rows, queue)
          /\ f[k - 1] = QueueState(known, more, rows, queue)
          /\ queue = <<>> \/ Left(known, more) + (k - 1) <= n
    BY <1>7
  <2>2. f[k] = AttachTurn(QueueState(known, more, rows, queue), k)
    BY <1>5, <2>1
  <2>3. CASE queue = <<>>
    <3>1. f[k] = QueueState(known, more, rows, queue)
      BY <1>3, <2>1, <2>2, <2>3
    <3> HIDE DEF n
    <3> QED
      BY <2>1, <2>3, <3>1
  <2>4. CASE queue # <<>>
    <3>1. PICK node, left, rest :
            /\ node \in Inserts(known) \ more
            /\ f[k] = QueueState(known, more \cup {node}, left, rest)
            /\ Proper(known, more \cup {node}, left, rest)
      <4>1. PICK node, rest :
              /\ node \in Inserts(known) \ more
              /\ AttachTurn(QueueState(known, more, rows, queue), k)
                   = QueueState(known, more \cup {node}, Without(rows, node.id), rest)
              /\ Proper(known, more \cup {node}, Without(rows, node.id), rest)
        BY <2>1, <2>4, TurnIs DEF QueueState
      <4> HIDE DEF n, S, start, good, Fits
      <4> QED
        BY <2>2, <4>1
    <3>2. Left(known, more) = Left(known, more \cup {node}) + 1 /\ Left(known, more \cup {node}) \in Nat
      <4> DEFINE rest2 == Inserts(known) \ (more \cup {node})
      <4>1. Inserts(known) \ more = rest2 \cup {node} /\ node \notin rest2 /\ IsFiniteSet(rest2)
        BY <1>1, <3>1, FS_Subset
      <4>2. Cardinality(rest2 \cup {node}) = Cardinality(rest2) + 1 /\ Cardinality(rest2) \in Nat
        <5> HIDE DEF rest2
        <5> QED BY <4>1, FS_AddElement, FS_CardinalityType
      <4> QED
        BY <4>1, <4>2 DEF Left
    <3>3. Left(known, more \cup {node}) + k <= n
      <4> HIDE DEF n
      <4> QED BY <1>1, <2>1, <2>4, <3>2
    <3> HIDE DEF n
    <3> QED
      BY <3>1, <3>3
  <2> QED
    BY <2>3, <2>4
<1>8. n \in good
  <2>1. \A k \in 0..n : k \in good
    <3> HIDE DEF good, n
    <3> QED BY <1>1, <1>6, <1>7, CountUp
  <2> HIDE DEF good, n
  <2> QED
    BY <1>1, <2>1
<1>9. PICK more, rows, queue :
        /\ Proper(known, more, rows, queue)
        /\ f[n] = QueueState(known, more, rows, queue)
        /\ queue = <<>> \/ Left(known, more) + n <= n
  BY <1>8
<1>10. queue = <<>>
  <2> SUFFICES ASSUME queue # <<>> PROVE FALSE
    OBVIOUS
  <2>1. Left(known, more) \in Nat
    BY <1>1, FS_Subset, FS_CardinalityType DEF Left
  <2>2. Left(known, more) = 0
    <3> HIDE DEF n
    <3> QED BY <1>1, <1>9, <2>1
  <2>3. Inserts(known) \ more = {}
    BY <1>1, <2>2, FS_Subset, FS_EmptySet DEF Left
  <2>4. queue \in Seq({})
    BY <1>9, <2>3 DEF Proper
  <2> QED
    BY <2>4, EmptySeq
<1>11. Entries(rows) = Inserts(known) \ more /\ WellFormed(known, more, rows)
  <2>1. ToSet(queue) = {}
    BY <1>10 DEF ToSet
  <2> QED
    BY <1>9, <2>1 DEF Proper
<1>12. AttachAndResolve(r, insert) = ReplicaOf(known, more, rows)
  <2>1. Cardinality(Inserts(r.known) \ r.nodes) = n /\ start = [replica |-> r, queue |-> <<insert>>]
    BY DEF ReplicaOf, QueueState, Left
  <2>2. AttachAndResolve(r, insert) = f[n].replica
    <3> HIDE DEF n, r, start, good
    <3> QED BY <1>5, <2>1 DEF AttachAndResolve
  <2> QED
    BY <1>9, <2>2 DEF QueueState
<1> QED
  BY <1>11, <1>12

--------------------------------------------------------------------------------
(***************************************************************************)
(* A sound replica: what apply makes of the operations that came.          *)
(***************************************************************************)

Sound(r) ==
  /\ Lawful(r.known)
  /\ r = ReplicaOf(r.known, r.nodes, r.pendingInserts)
  /\ WellFormed(r.known, r.nodes, r.pendingInserts)
  /\ Entries(r.pendingInserts) = Inserts(r.known) \ r.nodes

LEMMA SoundReplica ==
  ASSUME NEW known, Lawful(known), NEW nodes, NEW pending, WellFormed(known, nodes, pending),
         Entries(pending) = Inserts(known) \ nodes
  PROVE  Sound(ReplicaOf(known, nodes, pending)) /\ ReplicaOf(known, nodes, pending).known = known
<1>1. /\ ReplicaOf(known, nodes, pending).known = known
      /\ ReplicaOf(known, nodes, pending).nodes = nodes
      /\ ReplicaOf(known, nodes, pending).pendingInserts = pending
  BY DEF ReplicaOf
<1> QED
  BY <1>1 DEF Sound

LEMMA EmptySound == Sound(EmptyReplica) /\ EmptyReplica.known = {}
<1> DEFINE table == [anchor \in {} |-> <<>>]
<1>1. Lawful({})
  BY FS_EmptySet DEF Lawful, Inserts
<1>2. DOMAIN table = {} /\ table \in [DOMAIN table -> Seq(Inserts({}) \ {})]
  OBVIOUS
<1>3. Entries(table) = {} /\ Inserts({}) = {} /\ Deletes({}) = {} /\ IdsOf({}) = {}
  BY DEF Entries, Inserts, Deletes, IdsOf
<1>4. WellFormed({}, {}, table)
  BY <1>2, <1>3 DEF WellFormed
<1>5. TreeOf({}) = [parent \in {Root} |-> <<>>]
  <2>1. \A parent \in {Root} : Siblings({node \in {} : node.ref = parent}) = <<>>
    <3>1. \A parent \in {Root} : {node \in {} : node.ref = parent} = {}
      OBVIOUS
    <3> QED
      BY <3>1, SiblingsOfNone
  <2> QED
    BY <1>3, <2>1 DEF TreeOf
<1>6. ReplicaOf({}, {}, table) = EmptyReplica
  BY <1>3, <1>5 DEF ReplicaOf, EmptyReplica
<1> QED
  BY <1>1, <1>3, <1>4, <1>6, SoundReplica

\* Replicas that differ in one table.
LEMMA ReplicaWithTable ==
  ASSUME NEW known, NEW nodes, NEW pending, NEW table
  PROVE  [ReplicaOf(known, nodes, pending) EXCEPT !.pendingInserts = table]
           = ReplicaOf(known, nodes, table)
<1> DEFINE stones  == {delete.ref : delete \in {d \in Deletes(known) : d.ref \in IdsOf(nodes)}}
           waiting == {delete \in Deletes(known) : delete.ref \notin IdsOf(nodes)}
           Made(p) == [known |-> known, nodes |-> nodes, tombstones |-> stones,
                       children |-> TreeOf(nodes), pendingInserts |-> p,
                       pendingDeletes |-> waiting]
<1>1. ReplicaOf(known, nodes, pending) = Made(pending) /\ ReplicaOf(known, nodes, table) = Made(table)
  BY DEF ReplicaOf
<1> HIDE DEF stones, waiting
<1> QED
  BY <1>1

LEMMA ReplicaLearned ==
  ASSUME NEW known, NEW nodes, NEW pending, NEW more
  PROVE  LET stones  == {delete.ref : delete \in {d \in Deletes(known) : d.ref \in IdsOf(nodes)}}
             waiting == {delete \in Deletes(known) : delete.ref \notin IdsOf(nodes)}
         IN  [ReplicaOf(known, nodes, pending) EXCEPT !.known = more]
               = [known |-> more, nodes |-> nodes, tombstones |-> stones,
                  children |-> TreeOf(nodes), pendingInserts |-> pending,
                  pendingDeletes |-> waiting]
<1> DEFINE stones  == {delete.ref : delete \in {d \in Deletes(known) : d.ref \in IdsOf(nodes)}}
           waiting == {delete \in Deletes(known) : delete.ref \notin IdsOf(nodes)}
           Made(k) == [known |-> k, nodes |-> nodes, tombstones |-> stones,
                       children |-> TreeOf(nodes), pendingInserts |-> pending,
                       pendingDeletes |-> waiting]
<1>1. ReplicaOf(known, nodes, pending) = Made(known)
  BY DEF ReplicaOf
<1>2. [Made(known) EXCEPT !.known = more] = Made(more)
  <2> HIDE DEF stones, waiting
  <2> QED
    OBVIOUS
<1> HIDE DEF stones, waiting
<1>3. [ReplicaOf(known, nodes, pending) EXCEPT !.known = more] = Made(more)
  <2> HIDE DEF Made
  <2> QED
    BY <1>1, <1>2
<1> QED
  BY <1>3 DEF stones, waiting

LEMMA SeqSubset ==
  ASSUME NEW S, NEW T, S \subseteq T
  PROVE  Seq(S) \subseteq Seq(T)
<1>1. ASSUME NEW s \in Seq(S) PROVE s \in Seq(T)
  <2>1. \A i \in 1..Len(s) : s[i] \in T
    OBVIOUS
  <2> QED
    BY <2>1
<1> QED
  BY <1>1

\* More is known: what waits, waits still.
LEMMA WellFormedLearned ==
  ASSUME NEW known, NEW nodes, NEW pending, WellFormed(known, nodes, pending), NEW operation
  PROVE  WellFormed(known \cup {operation}, nodes, pending)
<1>1. Inserts(known) \subseteq Inserts(known \cup {operation})
  BY DEF Inserts
<1>2. Seq(Inserts(known) \ nodes) \subseteq Seq(Inserts(known \cup {operation}) \ nodes)
  <2>1. Inserts(known) \ nodes \subseteq Inserts(known \cup {operation}) \ nodes
    BY <1>1
  <2> QED
    BY <2>1, SeqSubset
<1> QED
  BY <1>1, <1>2 DEF WellFormed

LEMMA AddPendingIs ==
  ASSUME NEW known, NEW nodes, NEW pending, WellFormed(known, nodes, pending),
         NEW insert \in Inserts(known) \ nodes, insert \notin Entries(pending),
         insert.ref \notin Anchors(nodes)
  PROVE  \E table :
           /\ AddPending(ReplicaOf(known, nodes, pending), insert) = ReplicaOf(known, nodes, table)
           /\ WellFormed(known, nodes, table)
           /\ Entries(table) = Entries(pending) \cup {insert}
<1> DEFINE r     == ReplicaOf(known, nodes, pending)
           free  == Inserts(known) \ nodes
           list  == Append(WaitingFor(r, insert.ref), insert)
           table == [anchor \in DOMAIN pending \cup {insert.ref} |->
                       IF anchor = insert.ref THEN list ELSE pending[anchor]]
           old   == WaitingFor(r, insert.ref)
<1>1. /\ old \in Seq(free) /\ Distinct(old)
      /\ \A i \in 1..Len(old) : old[i].ref = insert.ref
      /\ Entries(pending) = Entries(Without(pending, insert.ref)) \cup ToSet(old)
  <2>1. WaitOnly(old, known, nodes, pending, insert.ref)
    BY WaitingForIs
  <2> HIDE DEF old
  <2> QED
    BY <2>1 DEF WaitOnly
<1>2. ToSet(old) = {old[i] : i \in 1..Len(old)} /\ ToSet(old) \subseteq Entries(pending)
  <2> HIDE DEF old
  <2> QED
    BY <1>1, ToSetOfSeq
<1>3. list = Append(old, insert)
  OBVIOUS
<1>4. AddPending(r, insert) = ReplicaOf(known, nodes, table)
  <2>1. AddPending(r, insert) =
          [r EXCEPT !.pendingInserts = [anchor \in DOMAIN r.pendingInserts \cup {insert.ref} |->
             IF anchor = insert.ref THEN Append(WaitingFor(r, anchor), insert)
             ELSE r.pendingInserts[anchor]]]
    BY DEF AddPending
  <2>2. r.pendingInserts = pending
    BY DEF ReplicaOf
  <2>3. [anchor \in DOMAIN pending \cup {insert.ref} |->
             IF anchor = insert.ref THEN Append(WaitingFor(r, anchor), insert)
             ELSE pending[anchor]] = table
    BY DEF WaitingFor
  <2>4. AddPending(r, insert) = [r EXCEPT !.pendingInserts = table]
    <3> HIDE DEF r, table
    <3> QED BY <2>1, <2>2, <2>3
  <2> HIDE DEF table
  <2>5. [r EXCEPT !.pendingInserts = table] = ReplicaOf(known, nodes, table)
    BY ReplicaWithTable
  <2> QED
    BY <2>4, <2>5
<1> HIDE DEF list, old
<1>5. /\ list \in Seq(free) /\ Len(list) = Len(old) + 1 /\ Len(old) \in Nat
      /\ \A i \in 1..Len(old) : list[i] = old[i]
      /\ list[Len(old) + 1] = insert
  BY <1>1, <1>3, AppendProperties, LenProperties
<1>6. \A i \in 1..Len(list) : i \in 1..Len(old) \/ i = Len(old) + 1
  BY <1>5
<1>7. Distinct(list) /\ list # <<>> /\ \A i \in 1..Len(list) : list[i].ref = insert.ref
  <2>1. \A i \in 1..Len(old) : old[i] # insert
    BY <1>2
  <2>2. \A i, j \in 1..Len(list) : i # j => list[i] # list[j]
    BY <1>1, <1>5, <1>6, <2>1 DEF Distinct
  <2>3. list # <<>>
    BY <1>5
  <2> QED
    BY <1>1, <1>5, <1>6, <2>2, <2>3 DEF Distinct
<1>8. ToSet(list) = ToSet(old) \cup {insert}
  <2>1. ToSet(list) = {list[i] : i \in 1..Len(list)}
    BY <1>5, ToSetOfSeq
  <2>2. 1..Len(list) = 1..Len(old) \cup {Len(old) + 1}
    BY <1>5
  <2> QED
    BY <1>2, <1>5, <2>1, <2>2
<1>9. DOMAIN table = DOMAIN pending \cup {insert.ref} /\ table[insert.ref] = list
      /\ \A anchor \in DOMAIN pending \ {insert.ref} : table[anchor] = pending[anchor]
  OBVIOUS
<1>10. \A anchor \in DOMAIN pending :
         pending[anchor] \in Seq(free)
  BY DEF WellFormed
<1>11. table \in [DOMAIN table -> Seq(free)]
  <2>1. \A anchor \in DOMAIN table : table[anchor] \in Seq(free)
    <3> HIDE DEF table, free
    <3> QED BY <1>5, <1>9, <1>10
  <2> HIDE DEF free
  <2> QED
    BY <1>9, <2>1
<1> HIDE DEF table
<1>12. \A anchor \in DOMAIN table :
         /\ anchor \notin Anchors(nodes)
         /\ table[anchor] # <<>>
         /\ Distinct(table[anchor])
         /\ \A i \in 1..Len(table[anchor]) : table[anchor][i].ref = anchor
  BY <1>7, <1>9 DEF WellFormed
<1>13. WellFormed(known, nodes, table)
  BY <1>11, <1>12 DEF WellFormed
<1>14. Entries(table) = Entries(pending) \cup {insert}
  <2>1. Entries(table) = Entries(Without(pending, insert.ref)) \cup ToSet(list)
    <3> DEFINE other == Without(pending, insert.ref)
    <3>1. DOMAIN other = DOMAIN pending \ {insert.ref}
          /\ \A anchor \in DOMAIN pending \ {insert.ref} : other[anchor] = pending[anchor]
      BY DEF Without
    <3>2. DOMAIN table = DOMAIN other \cup {insert.ref}
          /\ \A anchor \in DOMAIN other : table[anchor] = other[anchor]
      BY <1>9, <3>1
    <3> HIDE DEF other
    <3>3. \A x : x \in Entries(table) <=> x \in Entries(other) \/ x \in ToSet(list)
      BY <1>9, <3>1, <3>2 DEF Entries
    <3> QED
      BY <3>3 DEF other
  <2> QED
    BY <1>1, <1>8, <2>1
<1> QED
  BY <1>4, <1>13, <1>14

\* apply keeps a replica sound, and adds the operation to what is known.
LEMMA ApplySound ==
  ASSUME NEW r, Sound(r), NEW operation, Lawful(r.known \cup {operation})
  PROVE  Sound(Apply(r, operation)) /\ Apply(r, operation).known = r.known \cup {operation}
<1> DEFINE known   == r.known \cup {operation}
           nodes   == r.nodes
           pending == r.pendingInserts
           learned == [r EXCEPT !.known = r.known \cup {operation}]
<1>1. CASE operation.id \in IdsOf(r.known)
  <2>1. operation \in r.known
    BY <1>1 DEF Lawful, IdsOf
  <2>2. Apply(r, operation) = r
    BY <1>1 DEF Apply
  <2> QED
    BY <2>1, <2>2
<1>2. ASSUME operation.id \notin IdsOf(r.known)
      PROVE  /\ operation \notin r.known
             /\ WellFormed(r.known, nodes, pending)
             /\ WellFormed(known, nodes, pending)
             /\ r = ReplicaOf(r.known, nodes, pending)
             /\ Entries(pending) = Inserts(r.known) \ nodes
  BY <1>2, WellFormedLearned DEF Sound, IdsOf
<1>3. CASE operation.id \notin IdsOf(r.known) /\ operation.kind = "insert"
  <2>1. Deletes(known) = Deletes(r.known) /\ Inserts(known) = Inserts(r.known) \cup {operation}
        /\ operation \notin Inserts(r.known)
    BY <1>2, <1>3 DEF Deletes, Inserts
  <2>2. learned = ReplicaOf(known, nodes, pending)
    <3>1. learned = [ReplicaOf(r.known, nodes, pending) EXCEPT !.known = known]
      BY <1>2, <1>3
    <3> HIDE DEF learned, known, nodes, pending
    <3> QED
      BY <2>1, <3>1, ReplicaLearned DEF ReplicaOf
  <2>3. operation \in Inserts(known) \ nodes
    BY <1>2, <1>3, <2>1 DEF WellFormed
  <2>4. Apply(r, operation) = ApplyInsert(learned, operation)
    BY <1>3 DEF Apply
  <2>5. AnchorExists(learned, operation.ref) <=> operation.ref \in Anchors(nodes)
    BY DEF AnchorExists, Anchors
  <2>6. CASE operation.ref \in Anchors(nodes)
    <3>1. Proper(known, nodes, pending, <<operation>>)
      <4>1. <<operation>> \in Seq(Inserts(known) \ nodes) /\ Len(<<operation>>) = 1
            /\ <<operation>>[1] = operation
        BY <2>3
      <4>2. Distinct(<<operation>>) /\ \A i \in 1..Len(<<operation>>) : <<operation>>[i].ref \in Anchors(nodes)
        BY <2>6, <4>1 DEF Distinct
      <4>3. ToSet(<<operation>>) = {operation}
        BY <4>1 DEF ToSet
      <4> HIDE DEF known
      <4>4. Inserts(known) \ nodes = Entries(pending) \cup {operation}
        BY <1>2, <1>3, <2>1, <2>3
      <4> QED
        BY <1>2, <1>3, <4>1, <4>2, <4>3, <4>4 DEF Proper
    <3> HIDE DEF known, nodes, pending, learned
    <3>2. PICK new, table :
            /\ AttachAndResolve(ReplicaOf(known, nodes, pending), operation)
                 = ReplicaOf(known, new, table)
            /\ WellFormed(known, new, table)
            /\ Entries(table) = Inserts(known) \ new
      BY <3>1, AttachAndResolveIs DEF known
    <3>3. Apply(r, operation) = ReplicaOf(known, new, table)
      BY <2>2, <2>4, <2>5, <2>6, <3>2 DEF ApplyInsert
    <3>4. Lawful(known)
      BY DEF known
    <3> QED
      BY <3>2, <3>3, <3>4, SoundReplica DEF known
  <2>7. CASE operation.ref \notin Anchors(nodes)
    <3> HIDE DEF known, nodes, pending, learned
    <3>1. PICK table :
            /\ AddPending(ReplicaOf(known, nodes, pending), operation) = ReplicaOf(known, nodes, table)
            /\ WellFormed(known, nodes, table)
            /\ Entries(table) = Entries(pending) \cup {operation}
      <4>1. operation \notin Entries(pending)
        BY <1>2, <1>3, <2>1
      <4> QED
        BY <1>2, <1>3, <2>3, <2>7, <4>1, AddPendingIs
    <3>2. Apply(r, operation) = ReplicaOf(known, nodes, table)
      BY <2>2, <2>4, <2>5, <2>7, <3>1 DEF ApplyInsert
    <3>3. Entries(table) = Inserts(known) \ nodes
      BY <1>2, <1>3, <2>1, <2>3, <3>1
    <3>4. Lawful(known)
      BY DEF known
    <3> QED
      BY <3>1, <3>2, <3>3, <3>4, SoundReplica DEF known
  <2> QED
    BY <2>6, <2>7
<1>4. CASE operation.id \notin IdsOf(r.known) /\ operation.kind # "insert"
  <2>1. operation.kind = "delete"
    BY <1>4 DEF Lawful
  <2>2. Deletes(known) = Deletes(r.known) \cup {operation} /\ Inserts(known) = Inserts(r.known)
    BY <2>1 DEF Deletes, Inserts
  <2>3. Apply(r, operation) = ApplyDelete(learned, operation)
    BY <1>4 DEF Apply
  <2>4. Apply(r, operation) = ReplicaOf(known, nodes, pending)
    <3>1. learned = [known |-> known, nodes |-> nodes, tombstones |-> r.tombstones,
                     children |-> TreeOf(nodes), pendingInserts |-> pending,
                     pendingDeletes |-> r.pendingDeletes]
      <4>1. learned = [ReplicaOf(r.known, nodes, pending) EXCEPT !.known = known]
        BY <1>2, <1>4
      <4>2. r.tombstones = ReplicaOf(r.known, nodes, pending).tombstones
            /\ r.pendingDeletes = ReplicaOf(r.known, nodes, pending).pendingDeletes
        BY <1>2, <1>4
      <4> HIDE DEF learned, known, nodes, pending
      <4> QED
        BY <4>1, <4>2, ReplicaLearned DEF ReplicaOf
    <3>2. r.tombstones = {d.ref : d \in {e \in Deletes(r.known) : e.ref \in IdsOf(nodes)}}
          /\ r.pendingDeletes = {d \in Deletes(r.known) : d.ref \notin IdsOf(nodes)}
      BY <1>2, <1>4 DEF ReplicaOf
    <3> DEFINE stones == {d.ref : d \in {e \in Deletes(known) : e.ref \in IdsOf(nodes)}}
               rest   == {d \in Deletes(known) : d.ref \notin IdsOf(nodes)}
    <3>3. CASE operation.ref \in IdsOf(nodes)
      <4>1. stones = r.tombstones \cup {operation.ref} /\ rest = r.pendingDeletes
        BY <2>2, <3>2, <3>3
      <4>2. Apply(r, operation) = [learned EXCEPT !.tombstones = r.tombstones \cup {operation.ref}]
        <5>1. learned.nodes = nodes /\ learned.tombstones = r.tombstones
          BY <3>1
        <5> HIDE DEF learned, nodes
        <5> QED
          BY <2>3, <3>3, <5>1 DEF ApplyDelete
      <4> HIDE DEF learned, stones, rest, known, nodes, pending
      <4>3. Apply(r, operation) =
              [known |-> known, nodes |-> nodes, tombstones |-> stones,
               children |-> TreeOf(nodes), pendingInserts |-> pending, pendingDeletes |-> rest]
        BY <3>1, <4>1, <4>2
      <4> QED
        BY <4>3 DEF ReplicaOf, stones, rest
    <3>4. CASE operation.ref \notin IdsOf(nodes)
      <4>1. stones = r.tombstones /\ rest = r.pendingDeletes \cup {operation}
        BY <2>2, <3>2, <3>4
      <4>2. Apply(r, operation) = [learned EXCEPT !.pendingDeletes = r.pendingDeletes \cup {operation}]
        <5>1. learned.nodes = nodes /\ learned.pendingDeletes = r.pendingDeletes
          BY <3>1
        <5> HIDE DEF learned, nodes
        <5> QED
          BY <2>3, <3>4, <5>1 DEF ApplyDelete
      <4> HIDE DEF learned, stones, rest, known, nodes, pending
      <4>3. Apply(r, operation) =
              [known |-> known, nodes |-> nodes, tombstones |-> stones,
               children |-> TreeOf(nodes), pendingInserts |-> pending, pendingDeletes |-> rest]
        BY <3>1, <4>1, <4>2
      <4> QED
        BY <4>3 DEF ReplicaOf, stones, rest
    <3> QED
      BY <3>3, <3>4
  <2>5. Entries(pending) = Inserts(known) \ nodes /\ WellFormed(known, nodes, pending)
    BY <1>2, <1>4, <2>2
  <2>6. Lawful(known)
    OBVIOUS
  <2> HIDE DEF known, nodes, pending
  <2> QED
    BY <2>4, <2>5, <2>6, SoundReplica DEF known
<1> QED
  BY <1>1, <1>3, <1>4

--------------------------------------------------------------------------------
(***************************************************************************)
(* applyAll, and what a sound replica is made of.                          *)
(***************************************************************************)

StatesWithin(operations) == UNION {ProperStates(known) : known \in SUBSET operations}

SoundStates(operations) ==
  {st.replica : st \in {x \in StatesWithin(operations) : x.queue = <<>>}}

LEMMA SoundState ==
  ASSUME NEW operations, Lawful(operations), NEW r
  PROVE  r \in SoundStates(operations) <=> Sound(r) /\ r.known \in SUBSET operations
<1>1. ASSUME r \in SoundStates(operations)
      PROVE  Sound(r) /\ r.known \in SUBSET operations
  <2>1. PICK known \in SUBSET operations :
          \E st \in ProperStates(known) : r = st.replica /\ st.queue = <<>>
    BY <1>1 DEF SoundStates, StatesWithin
  <2>a. PICK st \in ProperStates(known) : r = st.replica /\ st.queue = <<>>
    BY <2>1
  <2>2. PICK nodes, pending, queue :
          Proper(known, nodes, pending, queue) /\ st = QueueState(known, nodes, pending, queue)
    BY ProperState
  <2>3. r = ReplicaOf(known, nodes, pending) /\ queue = <<>>
    BY <2>a, <2>2 DEF QueueState
  <2>4. Lawful(known)
    BY LawfulSubset
  <2>5. WellFormed(known, nodes, pending) /\ Entries(pending) = Inserts(known) \ nodes
    <3>1. ToSet(queue) = {}
      BY <2>3 DEF ToSet
    <3> QED
      BY <2>2, <3>1 DEF Proper
  <2> QED
    BY <2>3, <2>4, <2>5, SoundReplica
<1>2. ASSUME Sound(r), r.known \in SUBSET operations
      PROVE  r \in SoundStates(operations)
  <2> DEFINE none == <<>>
             st   == QueueState(r.known, r.nodes, r.pendingInserts, none)
  <2>1. none \in Seq(Inserts(r.known) \ r.nodes) /\ Distinct(none) /\ ToSet(none) = {}
        /\ 1..Len(none) = {}
    BY DEF Distinct, ToSet
  <2> HIDE DEF none
  <2>2. Proper(r.known, r.nodes, r.pendingInserts, none)
    BY <1>2, <2>1 DEF Proper, Sound
  <2>3. st \in ProperStates(r.known)
    BY <2>2, ProperState
  <2>4. st.replica = r /\ st.queue = <<>>
    BY <1>2 DEF Sound, QueueState, none
  <2> HIDE DEF st
  <2> QED
    BY <1>2, <2>3, <2>4 DEF SoundStates, StatesWithin
<1> QED
  BY <1>1, <1>2

ApplyStays(S, operations) ==
  \A st \in S, k \in 1..Len(operations) : Apply(st, operations[k]) \in S

ApplyRun(f, S, start, operations) ==
  /\ f \in [0..Len(operations) -> S]
  /\ f[0] = start
  /\ \A k \in 1..Len(operations) : f[k] = Apply(f[k - 1], operations[k])
  /\ ApplyAll(start, operations) = f[Len(operations)]

LEMMA ApplyLoop ==
  ASSUME NEW operations, Len(operations) \in Nat, NEW S, NEW start \in S,
         ApplyStays(S, operations)
  PROVE  \E f : ApplyRun(f, S, start, operations)
<1> DEFINE n     == Len(operations)
           turn  == [k \in 1..n |-> [st \in S |-> Apply(st, operations[k])]]
           Is(f) == f = [k \in 0..n |-> IF k = 0 THEN start ELSE Apply(f[k - 1], operations[k])]
           state == CHOOSE f : Is(f)
<1>1. IsTurns(turn, n, S)
  BY DEF IsTurns, ApplyStays
<1>2. PICK g : GoesThrough(g, n, S, start, turn)
  <2> HIDE DEF turn, Is, state
  <2> QED BY <1>1, LoopExists
<1>3. Is(g)
  <2>1. ASSUME NEW k \in 0..n
        PROVE  g[k] = IF k = 0 THEN start ELSE Apply(g[k - 1], operations[k])
    <3>1. CASE k = 0
      BY <1>2, <3>1 DEF GoesThrough
    <3>2. CASE k # 0
      <4>1. k \in 1..n /\ k - 1 \in 0..n
        BY <3>2
      <4>2. g[k] = turn[k][g[k - 1]] /\ g[k - 1] \in S
        BY <1>2, <3>2, <4>1 DEF GoesThrough
      <4> QED
        BY <3>2, <4>1, <4>2
    <3> QED
      BY <3>1, <3>2
  <2> HIDE DEF turn
  <2> QED
    BY <1>2, <2>1 DEF GoesThrough
<1>4. Is(state)
  <2> HIDE DEF Is
  <2> QED BY <1>3
<1>5. state = [k \in 0..n |-> IF k = 0 THEN start ELSE Apply(state[k - 1], operations[k])]
  BY <1>4
<1>6. ApplyAll(start, operations) = state[n]
  BY DEF Loop, ApplyAll
<1> HIDE DEF state, turn, Is
<1>7. state[0] = start /\ \A k \in 1..n : state[k] = Apply(state[k - 1], operations[k])
  BY <1>5
<1> DEFINE good == {k \in 0..n : state[k] \in S}
<1>8. 0 \in good /\ \A k \in 1..n : k - 1 \in good => k \in good
  BY <1>7 DEF ApplyStays
<1>9. \A k \in 0..n : k \in good
  <2> HIDE DEF good
  <2> QED BY <1>8, CountUp
<1>10. state \in [0..n -> S]
  BY <1>5, <1>9
<1> QED
  BY <1>6, <1>7, <1>10 DEF ApplyRun

\* applyAll adds what it is given to what is known.
LEMMA ApplyAllSound ==
  ASSUME NEW r, Sound(r), NEW S, NEW operations \in Seq(S), Lawful(r.known \cup ToSet(operations))
  PROVE  /\ Sound(ApplyAll(r, operations))
         /\ ApplyAll(r, operations).known = r.known \cup ToSet(operations)
<1> DEFINE all    == r.known \cup ToSet(operations)
           states == SoundStates(all)
           n      == Len(operations)
<1>1. n \in Nat /\ ToSet(operations) = {operations[i] : i \in 1..n}
  BY ToSetOfSeq, LenProperties
<1>2. r \in states
  BY SoundState
<1>3. ASSUME NEW st \in states, NEW k \in 1..n
      PROVE  /\ Apply(st, operations[k]) \in states
             /\ Apply(st, operations[k]).known = st.known \cup {operations[k]}
  <2>1. Sound(st) /\ st.known \in SUBSET all
    BY SoundState
  <2>2. st.known \cup {operations[k]} \in SUBSET all
    BY <1>1, <2>1
  <2>3. Lawful(st.known \cup {operations[k]})
    <3> HIDE DEF all
    <3>1. Lawful(all)
      BY DEF all
    <3> QED
      BY <2>2, <3>1, LawfulSubset
  <2>4. /\ Sound(Apply(st, operations[k]))
        /\ Apply(st, operations[k]).known = st.known \cup {operations[k]}
    BY <2>1, <2>3, ApplySound
  <2> QED
    BY <2>2, <2>4, SoundState
<1>4. PICK f : ApplyRun(f, states, r, operations)
  <2>1. ApplyStays(states, operations)
    BY <1>3 DEF ApplyStays
  <2> HIDE DEF states, n
  <2> QED
    BY <1>1, <1>2, <2>1, ApplyLoop DEF n
<1> DEFINE good == {k \in 0..n : f[k].known = r.known \cup {operations[i] : i \in 1..k}}
<1>5. 0 \in good
  <2>1. f[0] = r /\ 1..0 = {} /\ 0 \in 0..n
    BY <1>1, <1>4 DEF ApplyRun
  <2> HIDE DEF n
  <2> QED
    BY <2>1
<1>6. ASSUME NEW k \in 1..n, k - 1 \in good PROVE k \in good
  <2>1. f[k] = Apply(f[k - 1], operations[k]) /\ f[k - 1] \in states
    BY <1>4 DEF ApplyRun
  <2>2. f[k].known = f[k - 1].known \cup {operations[k]}
    BY <1>3, <2>1
  <2>3. 1..k = (1..k - 1) \cup {k}
    OBVIOUS
  <2>4. {operations[i] : i \in 1..k} = {operations[i] : i \in 1..k - 1} \cup {operations[k]}
    BY <2>3
  <2> HIDE DEF states
  <2> QED
    BY <1>6, <2>2, <2>4
<1>7. n \in good
  <2>1. \A k \in 0..n : k \in good
    <3> HIDE DEF good, n
    <3> QED BY <1>1, <1>5, <1>6, CountUp
  <2> HIDE DEF good, n
  <2> QED
    BY <1>1, <2>1
<1>8. ApplyAll(r, operations) = f[n] /\ f[n] \in states
  BY <1>1, <1>4 DEF ApplyRun
<1>9. Sound(f[n])
  BY <1>8, SoundState
<1> HIDE DEF n
<1> QED
  BY <1>1, <1>7, <1>8, <1>9

\* What is attached is what the known operations say.
LEMMA SoundNodes ==
  ASSUME NEW r, Sound(r)
  PROVE  r.nodes = AttachedInserts(r.known) /\ Upward(r.nodes, Inserts(r.known))
<1> DEFINE inserts == Inserts(r.known)
           nodes   == r.nodes
           waiting == inserts \ nodes
<1>1. /\ LawfulInserts(inserts)
      /\ nodes \in SUBSET inserts
      /\ \A node \in nodes : node.ref \in Anchors(nodes)
      /\ \A insert \in inserts : insert.id # Root
  <2>1. \A insert \in inserts : insert.id \in Identities
    BY DEF Sound, Lawful, Inserts
  <2> QED
    BY <2>1, InsertsAreLawful, RootIsNoIdentity DEF Sound, WellFormed
<1>2. \A x \in waiting : x.ref \notin Anchors(nodes)
  <2>1. ASSUME NEW x \in waiting PROVE x.ref \notin Anchors(nodes)
    <3>1. PICK anchor \in DOMAIN r.pendingInserts : x \in ToSet(r.pendingInserts[anchor])
      BY DEF Sound, Entries
    <3>2. r.pendingInserts[anchor] \in Seq(waiting)
          /\ anchor \notin Anchors(nodes)
          /\ \A i \in 1..Len(r.pendingInserts[anchor]) : r.pendingInserts[anchor][i].ref = anchor
      BY DEF Sound, WellFormed
    <3>3. ToSet(r.pendingInserts[anchor]) = {r.pendingInserts[anchor][i] : i \in 1..Len(r.pendingInserts[anchor])}
      BY <3>2, ToSetOfSeq
    <3> QED
      BY <3>1, <3>2, <3>3
  <2> QED
    BY <2>1
<1>3. Upward(nodes, inserts)
  <2>1. ASSUME NEW y \in nodes, NEW anchor \in inserts, anchor.id = y.ref PROVE anchor \in nodes
    <3>1. anchor.id \in IdsOf(nodes)
      BY <1>1, <2>1 DEF Anchors
    <3>2. PICK n \in nodes : n.id = anchor.id
      BY <3>1 DEF IdsOf
    <3> QED
      BY <1>1, <3>2 DEF LawfulInserts, Lawful
  <2> QED
    BY <2>1 DEF Upward
<1>4. ASSUME NEW x \in nodes PROVE x \in AttachedInserts(r.known)
  <2>1. SUFFICES ASSUME \A first \in Line(x, inserts) : first.ref # Root PROVE FALSE
    BY <1>1 DEF AttachedInserts
  <2>2. Line(x, inserts) \in SUBSET nodes /\ x \in Line(x, inserts)
        /\ Upward(Line(x, inserts), inserts)
    BY <1>1, <1>3, LineIsLeast, LineBasics
  <2>4. {y.lamport : y \in Line(x, inserts)} \in SUBSET Nat /\ {y.lamport : y \in Line(x, inserts)} # {}
    BY <1>1, <2>2 DEF LawfulInserts, Lawful
  <2>5. PICK y \in Line(x, inserts) : \A z \in Line(x, inserts) : y.lamport <= z.lamport
    <3> DEFINE stamps == {y.lamport : y \in Line(x, inserts)}
    <3>1. PICK least \in stamps : \A stamp \in stamps : least <= stamp
      <4> HIDE DEF stamps
      <4> QED
        BY <2>4, LeastNumber DEF stamps
    <3> QED
      BY <3>1
  <2>6. y \in nodes /\ y.ref # Root
    BY <2>1, <2>2
  <2>7. PICK z \in nodes : z.id = y.ref
    BY <1>1, <2>6 DEF Anchors, IdsOf
  <2>8. z \in Line(x, inserts)
    BY <1>1, <2>2, <2>7 DEF Upward
  <2>9. z.lamport < y.lamport /\ z.lamport \in Nat /\ y.lamport \in Nat
    BY <1>1, <2>6, <2>7 DEF LawfulInserts, Lawful, Inserts
  <2> QED
    BY <2>5, <2>8, <2>9
<1>5. ASSUME NEW x \in waiting PROVE x \notin AttachedInserts(r.known)
  <2>1. Upward(waiting, inserts)
    <3>1. ASSUME NEW y \in waiting, NEW anchor \in inserts, anchor.id = y.ref PROVE anchor \in waiting
      BY <1>2, <3>1 DEF Anchors, IdsOf
    <3> QED
      BY <3>1 DEF Upward
  <2>2. Line(x, inserts) \subseteq waiting
    BY <2>1, LineIsLeast
  <2>3. \A first \in Line(x, inserts) : first.ref # Root
    BY <1>2, <2>2 DEF Anchors
  <2> QED
    BY <2>3 DEF AttachedInserts
<1>6. AttachedInserts(r.known) \subseteq inserts
  BY DEF AttachedInserts
<1> QED
  BY <1>1, <1>3, <1>4, <1>5, <1>6

\* Everything but the order of what waits follows from what is known.
LEMMA SoundUnique ==
  ASSUME NEW r, Sound(r), NEW s, Sound(s), r.known = s.known
  PROVE  /\ r.nodes = s.nodes
         /\ r.children = s.children
         /\ r.tombstones = s.tombstones
         /\ r.pendingDeletes = s.pendingDeletes
         /\ Resolved(r) => r = s
<1>1. r.nodes = s.nodes
  BY SoundNodes
<1>2. /\ r = ReplicaOf(r.known, r.nodes, r.pendingInserts)
      /\ s = ReplicaOf(r.known, r.nodes, s.pendingInserts)
  BY <1>1 DEF Sound
<1>3. \A p : /\ ReplicaOf(r.known, r.nodes, p).children = TreeOf(r.nodes)
             /\ ReplicaOf(r.known, r.nodes, p).tombstones
                  = {delete.ref : delete \in {d \in Deletes(r.known) : d.ref \in IdsOf(r.nodes)}}
             /\ ReplicaOf(r.known, r.nodes, p).pendingDeletes
                  = {delete \in Deletes(r.known) : delete.ref \notin IdsOf(r.nodes)}
  BY DEF ReplicaOf
<1>4. ASSUME Resolved(r) PROVE r.pendingInserts = s.pendingInserts
  <2>1. ASSUME NEW t, Sound(t), Entries(t.pendingInserts) = {}
        PROVE  t.pendingInserts = [anchor \in {} |-> <<>>]
    <3>1. t.pendingInserts \in [DOMAIN t.pendingInserts -> Seq(Inserts(t.known) \ t.nodes)]
      BY <2>1 DEF Sound, WellFormed
    <3>2. ASSUME NEW anchor \in DOMAIN t.pendingInserts PROVE FALSE
      <4>1. t.pendingInserts[anchor] \in Seq(Inserts(t.known) \ t.nodes)
            /\ t.pendingInserts[anchor] # <<>>
        BY <2>1 DEF Sound, WellFormed
      <4>2. Len(t.pendingInserts[anchor]) \in Nat \ {0}
        BY <4>1, EmptySeq, LenProperties
      <4>3. 1 \in 1..Len(t.pendingInserts[anchor])
        BY <4>2
      <4>4. t.pendingInserts[anchor][1] \in ToSet(t.pendingInserts[anchor])
        BY <4>1, <4>3, ToSetOfSeq
      <4> QED
        BY <2>1, <4>4 DEF Entries
    <3> QED
      BY <3>1, <3>2
  <2>2. Entries(r.pendingInserts) = {}
    BY <1>4 DEF Resolved, Waiting, Entries
  <2>3. Entries(s.pendingInserts) = {}
    BY <1>1, <2>2 DEF Sound
  <2> QED
    BY <2>1, <2>2, <2>3
<1> QED
  BY <1>1, <1>2, <1>3, <1>4

--------------------------------------------------------------------------------
(***************************************************************************)
(* Snapshots: what is exported comes back.                                 *)
(***************************************************************************)

LEMMA SnapshotRoundTrip ==
  ASSUME NEW r, Sound(r), Resolved(r)
  PROVE  /\ FromSnapshot(ExportSnapshot(r)) = r
         /\ ValidSnapshot(ExportSnapshot(r))
         /\ SnapshotInserts(ExportSnapshot(r)) \cup ExportSnapshot(r).deleteOperations = r.known
<1> DEFINE snapshot == ExportSnapshot(r)
           inserts  == SnapshotInserts(snapshot)
<1>0. \A node : node \in snapshot.nodes <=>
         \E n \in r.nodes : node = [insert |-> n, tombstone |-> n.id \in r.tombstones]
  BY DEF ExportSnapshot
<1>1. inserts = r.nodes /\ snapshot.deleteOperations = Deletes(r.known)
  <2>1. snapshot.deleteOperations = Deletes(r.known)
    BY DEF ExportSnapshot
  <2>2. \A n \in r.nodes : \E node \in snapshot.nodes : node.insert = n
    <3>1. ASSUME NEW n \in r.nodes PROVE \E node \in snapshot.nodes : node.insert = n
      <4> DEFINE node == [insert |-> n, tombstone |-> n.id \in r.tombstones]
      <4>1. node \in snapshot.nodes /\ node.insert = n
        BY <1>0
      <4> HIDE DEF node, snapshot
      <4> QED
        BY <4>1
    <3> QED
      BY <3>1
  <2>3. \A node \in snapshot.nodes : node.insert \in r.nodes
    BY <1>0
  <2> HIDE DEF snapshot
  <2> QED
    BY <2>1, <2>2, <2>3 DEF SnapshotInserts
<1>2. Entries(r.pendingInserts) = {} /\ r.pendingDeletes = {}
  BY DEF Resolved, Waiting, Entries
<1>3. r.nodes = Inserts(r.known)
  BY <1>2 DEF Sound, WellFormed
<1>4. Inserts(r.known) \cup Deletes(r.known) = r.known
  BY DEF Sound, Lawful, Inserts, Deletes
<1>5. r = ReplicaOf(r.known, r.nodes, r.pendingInserts)
  BY DEF Sound
<1>6. /\ r.tombstones = {delete.ref : delete \in {d \in Deletes(r.known) : d.ref \in IdsOf(r.nodes)}}
      /\ r.children = TreeOf(r.nodes)
      /\ r.pendingDeletes = {delete \in Deletes(r.known) : delete.ref \notin IdsOf(r.nodes)}
  <2> DEFINE N == r.nodes
             K == r.known
             P == r.pendingInserts
  <2>1. r = ReplicaOf(K, N, P)
    BY <1>5
  <2> HIDE DEF N, K, P
  <2>2. /\ r.tombstones = {delete.ref : delete \in {d \in Deletes(K) : d.ref \in IdsOf(N)}}
        /\ r.children = TreeOf(N)
        /\ r.pendingDeletes = {delete \in Deletes(K) : delete.ref \notin IdsOf(N)}
    BY <2>1 DEF ReplicaOf
  <2> QED
    BY <2>2 DEF N, K
<1>7. ASSUME NEW node \in snapshot.nodes
      PROVE  node.insert \in r.nodes /\ node.tombstone = (node.insert.id \in r.tombstones)
  <2>1. PICK n \in r.nodes : node = [insert |-> n, tombstone |-> n.id \in r.tombstones]
    BY <1>0
  <2>2. node.insert = n
    BY <2>1
  <2>3. node.tombstone = (n.id \in r.tombstones)
    BY <2>1, Zenon
  <2> QED
    BY <2>2, <2>3
<1>8. {node.insert.id : node \in {n \in snapshot.nodes : n.tombstone}} = r.tombstones
  <2>1. \A id \in r.tombstones : \E n \in r.nodes : n.id = id
    BY <1>6 DEF IdsOf
  <2>2. ASSUME NEW id \in r.tombstones
        PROVE  id \in {node.insert.id : node \in {n \in snapshot.nodes : n.tombstone}}
    <3>1. PICK n \in r.nodes : n.id = id
      BY <2>1
    <3> DEFINE node == [insert |-> n, tombstone |-> n.id \in r.tombstones]
    <3>2. node \in snapshot.nodes /\ node.insert.id = id
      BY <1>0, <3>1
    <3>3. node.tombstone
      BY <1>7, <3>1, <3>2
    <3> HIDE DEF node
    <3> QED
      BY <3>2, <3>3
  <2>3. ASSUME NEW node \in snapshot.nodes, node.tombstone PROVE node.insert.id \in r.tombstones
    BY <1>7, <2>3
  <2> QED
    BY <2>2, <2>3
<1>9. [parent \in {Root} \cup IdsOf(inserts) |-> Sorted({node \in inserts : node.ref = parent}, Before)]
        = TreeOf(r.nodes)
  BY <1>1 DEF TreeOf, Siblings
<1>10. FromSnapshot(snapshot) = r
  <2>1. FromSnapshot(snapshot) =
          [EmptyReplica EXCEPT !.known = r.known, !.nodes = r.nodes,
                               !.tombstones = r.tombstones, !.children = TreeOf(r.nodes)]
    <3> HIDE DEF snapshot
    <3> QED
      BY <1>1, <1>3, <1>4, <1>8, <1>9 DEF FromSnapshot
  <2>2. FromSnapshot(snapshot) =
          [known |-> r.known, nodes |-> r.nodes, tombstones |-> r.tombstones,
           children |-> TreeOf(r.nodes), pendingInserts |-> EmptyReplica.pendingInserts,
           pendingDeletes |-> {}]
    <3> HIDE DEF snapshot
    <3> QED
      BY <2>1 DEF EmptyReplica
  <2> DEFINE s == FromSnapshot(snapshot)
             E == EmptyReplica.pendingInserts
  <2>3. /\ r.known = s.known /\ s = ReplicaOf(r.known, r.nodes, E)
        /\ Sound(s)
    <3>1. ReplicaOf(r.known, r.nodes, E)
            = [known |-> r.known, nodes |-> r.nodes, tombstones |-> r.tombstones,
               children |-> TreeOf(r.nodes), pendingInserts |-> E,
               pendingDeletes |-> {}]
      BY <1>2, <1>6 DEF ReplicaOf
    <3>2. s = ReplicaOf(r.known, r.nodes, E)
      <4> HIDE DEF E, snapshot
      <4> QED BY <2>2, <3>1 DEF E
    <3>3. Lawful(r.known)
      BY DEF Sound
    <3>4. E = [anchor \in {} |-> <<>>] /\ DOMAIN E = {}
      BY DEF EmptyReplica
    <3>5. WellFormed(r.known, r.nodes, E)
      <4>1. E \in [DOMAIN E -> Seq(Inserts(r.known) \ r.nodes)]
        BY <3>4
      <4> HIDE DEF E
      <4> QED BY <3>4, <4>1 DEF WellFormed, Sound
    <3>6. Entries(E) = Inserts(r.known) \ r.nodes
      <4> HIDE DEF E
      <4> QED
        BY <1>3, <3>4 DEF Entries
    <3> HIDE DEF E, s
    <3> QED
      BY <3>2, <3>3, <3>5, <3>6, SoundReplica
  <2> HIDE DEF s, E
  <2>4. s = r
    BY <2>3, SoundUnique
  <2> QED
    BY <2>4 DEF s
<1>11. ValidSnapshot(snapshot)
  <2>1. \A d \in Deletes(r.known) : d.ref \in IdsOf(r.nodes)
    BY <1>2, <1>6
  <2>2. \A n \in r.nodes : n.ref \in IdsOf(r.nodes) \cup {Root}
    BY DEF Sound, WellFormed, Anchors
  <2>3. \A n \in r.nodes : n.id \in r.tombstones <=> n.id \in {d.ref : d \in Deletes(r.known)}
    BY <1>6 DEF IdsOf
  <2>4. \A node \in snapshot.nodes :
          /\ node.insert.ref \in IdsOf(r.nodes) \cup {Root}
          /\ node.tombstone <=> node.insert.id \in {d.ref : d \in Deletes(r.known)}
    BY <1>7, <2>2, <2>3
  <2> HIDE DEF snapshot
  <2> QED
    BY <1>1, <2>1, <2>4 DEF ValidSnapshot
<1> QED
  BY <1>1, <1>3, <1>4, <1>10, <1>11

--------------------------------------------------------------------------------
(***************************************************************************)
(* The order of the document, and the preorder walk that follows it.       *)
(***************************************************************************)

Ahead(x, y, nodes) ==
  /\ x # y
  /\ \/ x \in Line(y, nodes)
     \/ \E a \in Line(x, nodes), b \in Line(y, nodes) : a.ref = b.ref /\ Before(a, b)

\* Siblings have everything in common that they were inserted after.
LEMMA SharedLine ==
  ASSUME NEW inserts, LawfulInserts(inserts), NEW a \in inserts, NEW b \in inserts,
         a.ref = b.ref, NEW u \in Line(a, inserts), u # a
  PROVE  u \in Line(b, inserts)
<1>1. PICK z \in inserts : z.id = a.ref
  BY LineWithoutAnchor
<1>2. u \in Line(z, inserts)
  BY <1>1, LineOfAnchor
<1>3. Line(b, inserts) = {b} \cup Line(z, inserts)
  BY <1>1, LineOfAnchor
<1> QED
  BY <1>2, <1>3

LEMMA AheadIsOneWay ==
  ASSUME NEW nodes, LawfulInserts(nodes), NEW x \in nodes, NEW y \in nodes,
         Ahead(x, y, nodes), Ahead(y, x, nodes)
  PROVE  FALSE
<1>1. /\ Line(x, nodes) \in SUBSET nodes /\ Line(y, nodes) \in SUBSET nodes
      /\ \A u, v \in nodes : u.lamport \in Nat
  BY LineBasics DEF LawfulInserts, Lawful
<1>2. \A u, v \in nodes : (Before(u, v) => ~Before(v, u)) /\ ~Before(u, u)
  <2>1. ASSUME NEW u \in nodes, NEW v \in nodes
        PROVE  (Before(u, v) => ~Before(v, u)) /\ ~Before(u, u)
    BY BeforeOrders DEF LawfulInserts
  <2> QED
    BY <2>1
<1>3. ASSUME NEW u \in nodes, NEW v \in nodes, u # v, u \in Line(v, nodes), Ahead(v, u, nodes)
      PROVE  FALSE
  <2>1. CASE v \in Line(u, nodes)
    <3>1. u.lamport < v.lamport /\ v.lamport < u.lamport
      BY <1>3, <2>1, StampsDecrease
    <3> QED
      BY <1>1, <3>1
  <2>2. CASE \E a \in Line(v, nodes), b \in Line(u, nodes) : a.ref = b.ref /\ Before(a, b)
    <3>1. PICK a \in Line(v, nodes), b \in Line(u, nodes) : a.ref = b.ref /\ Before(a, b)
      BY <2>2
    <3>2. b \in Line(v, nodes)
      BY <1>3, <3>1, LineOfMember
    <3>3. a = b /\ a \in nodes
      BY <3>1, <3>2, NoSiblingsInLine, LineBasics
    <3> QED
      BY <1>2, <3>1, <3>3
  <2> QED
    BY <1>3, <2>1, <2>2 DEF Ahead
<1>4. x # y
  BY DEF Ahead
<1>5. CASE x \in Line(y, nodes)
  BY <1>3, <1>4, <1>5
<1>6. CASE y \in Line(x, nodes)
  BY <1>3, <1>4, <1>6
<1>7. CASE /\ \E a \in Line(x, nodes), b \in Line(y, nodes) : a.ref = b.ref /\ Before(a, b)
           /\ \E a \in Line(y, nodes), b \in Line(x, nodes) : a.ref = b.ref /\ Before(a, b)
  <2>1. PICK a \in Line(x, nodes), b \in Line(y, nodes) : a.ref = b.ref /\ Before(a, b)
    BY <1>7
  <2>2. PICK c \in Line(y, nodes), d \in Line(x, nodes) : c.ref = d.ref /\ Before(c, d)
    BY <1>7
  <2>3. a \in nodes /\ b \in nodes /\ c \in nodes /\ d \in nodes
    BY <1>1
  <2>4. CASE a = d
    <3>1. b = c
      BY <2>1, <2>2, <2>4, NoSiblingsInLine
    <3> QED
      BY <1>2, <2>1, <2>2, <2>3, <2>4, <3>1
  <2>5. CASE a # d /\ a \in Line(d, nodes)
    <3>1. a \in Line(c, nodes)
      BY <2>2, <2>3, <2>5, SharedLine
    <3>2. a \in Line(y, nodes)
      BY <3>1, LineOfMember
    <3>3. a = b
      BY <2>1, <3>2, NoSiblingsInLine
    <3> QED
      BY <1>2, <2>1, <2>3, <3>3
  <2>6. CASE a # d /\ d \in Line(a, nodes)
    <3>1. d \in Line(b, nodes)
      BY <2>1, <2>3, <2>6, SharedLine
    <3>2. d \in Line(y, nodes)
      BY <3>1, LineOfMember
    <3>3. c = d
      BY <2>2, <3>2, NoSiblingsInLine
    <3> QED
      BY <1>2, <2>2, <2>3, <3>3
  <2> QED
    BY <2>4, <2>5, <2>6, LineIsChain
<1> QED
  BY <1>5, <1>6, <1>7 DEF Ahead

\* The subtree of an element.
Under(n, nodes) == {y \in nodes : n \in Line(y, nodes)}

\* It is the element and the subtrees of its children.
LEMMA UnderIs ==
  ASSUME NEW nodes, LawfulInserts(nodes), NEW node \in nodes
  PROVE  /\ \A y \in Under(node, nodes) :
              y = node \/ \E kid \in nodes : kid.ref = node.id /\ y \in Under(kid, nodes)
         /\ \A kid \in nodes : kid.ref = node.id =>
              Under(kid, nodes) \subseteq Under(node, nodes) /\ node \notin Under(kid, nodes)
         /\ node \in Under(node, nodes)
<1>1. ASSUME NEW y \in Under(node, nodes), y # node
      PROVE  \E kid \in nodes : kid.ref = node.id /\ y \in Under(kid, nodes)
  <2>1. y \in nodes /\ node \in Line(y, nodes)
    BY DEF Under
  <2>2. PICK kid \in Line(y, nodes) : kid.ref = node.id
    BY <1>1, <2>1, ChildInLine
  <2>3. kid \in nodes
    BY <2>1, LineBasics
  <2> QED
    BY <2>1, <2>2, <2>3 DEF Under
<1>2. ASSUME NEW kid \in nodes, kid.ref = node.id
      PROVE  Under(kid, nodes) \subseteq Under(node, nodes) /\ node \notin Under(kid, nodes)
  <2>1. ASSUME NEW y \in Under(kid, nodes) PROVE y \in Under(node, nodes)
    <3>1. y \in nodes /\ kid \in Line(y, nodes)
      BY DEF Under
    <3>2. node \in Line(y, nodes)
      BY <1>2, <3>1, LineBasics DEF Upward
    <3> QED
      BY <3>1, <3>2 DEF Under
  <2>2. ASSUME node \in Under(kid, nodes) PROVE FALSE
    <3>1. kid \in Line(node, nodes)
      BY <2>2 DEF Under
    <3>2. node.lamport < kid.lamport /\ node.lamport \in Nat /\ kid.lamport \in Nat
      BY <1>2 DEF LawfulInserts, Lawful, Inserts
    <3>3. kid = node \/ kid.lamport < node.lamport
      BY <3>1, StampsDecrease
    <3> QED
      BY <3>2, <3>3
  <2> QED
    BY <2>1, <2>2
<1>3. node \in Under(node, nodes)
  BY LineBasics DEF Under
<1> QED
  BY <1>1, <1>2, <1>3

\* Children in the order of compareNodes, as the tree holds them.
InTreeOrder(list, parent, nodes) ==
  /\ list \in Seq(nodes)
  /\ ToSet(list) = {node \in nodes : node.ref = parent}
  /\ \A i, j \in 1..Len(list) : i < j => Before(list[i], list[j])

LEMMA ChildrenInOrder ==
  ASSUME NEW nodes, LawfulInserts(nodes), NEW parent
  PROVE  InTreeOrder(Siblings({node \in nodes : node.ref = parent}), parent, nodes)
<1> DEFINE kids == {node \in nodes : node.ref = parent}
           list == Siblings(kids)
<1>1. Lawful(kids) /\ kids \in SUBSET nodes
  <2>1. kids \in SUBSET nodes
    OBVIOUS
  <2> HIDE DEF kids
  <2> QED
    BY <2>1, LawfulSubset DEF LawfulInserts
<1> HIDE DEF kids
<1>2. /\ IsListing(list, kids)
      /\ \A i, j \in 1..Cardinality(kids) : i < j => ~Before(list[j], list[i])
  BY <1>1, SortedBefore DEF Siblings
<1> HIDE DEF list
<1>3. list \in Seq(kids) /\ Len(list) = Cardinality(kids) /\ Distinct(list) /\ ToSet(list) = kids
  BY <1>2 DEF IsListing
<1>4. Len(list) \in Nat /\ \A i \in 1..Len(list) : list[i] \in kids
  BY <1>3, LenProperties
<1>5. ASSUME NEW i \in 1..Len(list), NEW j \in 1..Len(list), i < j
      PROVE  Before(list[i], list[j])
  <2>1. ~Before(list[j], list[i]) /\ list[i] # list[j] /\ list[i] \in kids /\ list[j] \in kids
    BY <1>2, <1>3, <1>4, <1>5 DEF Distinct
  <2> QED
    BY <1>1, <2>1, BeforeOrders
<1>6. list \in Seq(nodes)
  BY <1>1, <1>3, SeqSubset
<1> QED
  BY <1>3, <1>5, <1>6 DEF InTreeOrder, kids, list

\* What is still to come when a stack of elements is left.
ToCome(stack, nodes) ==
  {y \in nodes : \E i \in 1..Len(stack) : y \in Under(stack[i], nodes)}

StackInOrder(stack, nodes) ==
  \A i, j \in 1..Len(stack) : i < j =>
    \A x \in Under(stack[i], nodes), y \in Under(stack[j], nodes) : Ahead(x, y, nodes)

OutputInOrder(output, nodes) ==
  \A i, j \in 1..Len(output) : i < j => Ahead(output[i], output[j], nodes)

\* What the walk keeps: the output is what is visible and not to come, in
\* order, and before all that is to come.
Walked(output, stack, nodes, stones) ==
  /\ stack \in Seq(nodes)
  /\ StackInOrder(stack, nodes)
  /\ \A x \in nodes \ ToCome(stack, nodes), y \in ToCome(stack, nodes) : Ahead(x, y, nodes)
  /\ output \in Seq(nodes)
  /\ ToSet(output) = {node \in nodes \ ToCome(stack, nodes) : node.id \notin stones}
  /\ OutputInOrder(output, nodes)

\* The children of the top of the stack take its place.
LEMMA StackTurn ==
  ASSUME NEW nodes, LawfulInserts(nodes), NEW stack \in Seq(nodes), stack # <<>>,
         StackInOrder(stack, nodes), NEW kids, InTreeOrder(kids, Head(stack).id, nodes)
  PROVE  /\ kids \o Tail(stack) \in Seq(nodes)
         /\ StackInOrder(kids \o Tail(stack), nodes)
         /\ Head(stack) \in ToCome(stack, nodes)
         /\ ToCome(kids \o Tail(stack), nodes) = ToCome(stack, nodes) \ {Head(stack)}
         /\ \A y \in ToCome(kids \o Tail(stack), nodes) : Ahead(Head(stack), y, nodes)
<1>0. Len(stack) \in Nat \ {0} /\ Head(stack) = stack[1] /\ stack[1] \in nodes
  BY EmptySeq, LenProperties, HeadTailProperties
<1>1. PICK node \in nodes : node = Head(stack) /\ node = stack[1]
  BY <1>0
<1> DEFINE m    == Len(kids)
           n    == Len(stack) - 1
           next == kids \o Tail(stack)
<1>2. /\ Tail(stack) \in Seq(nodes) /\ Len(Tail(stack)) = n /\ n \in Nat
      /\ \A i \in 1..n : Tail(stack)[i] = stack[i + 1] /\ i + 1 \in 1..Len(stack)
  BY <1>0, HeadTailProperties, EmptySeq
<1>3. /\ kids \in Seq(nodes) /\ m \in Nat
      /\ \A i \in 1..m : kids[i] \in nodes /\ kids[i].ref = node.id
      /\ \A kid \in nodes : kid.ref = node.id => \E i \in 1..m : kids[i] = kid
      /\ \A i, j \in 1..m : i < j => Before(kids[i], kids[j])
  <2>1. kids \in Seq(nodes) /\ m \in Nat /\ ToSet(kids) = {k \in nodes : k.ref = node.id}
        /\ \A i, j \in 1..m : i < j => Before(kids[i], kids[j])
    BY <1>1, LenProperties DEF InTreeOrder
  <2>2. ToSet(kids) = {kids[i] : i \in 1..m}
    BY <2>1, ToSetOfSeq
  <2> HIDE DEF m
  <2> QED
    BY <2>1, <2>2
<1>4. /\ next \in Seq(nodes) /\ Len(next) = m + n
      /\ \A i \in 1..m + n : next[i] = IF i <= m THEN kids[i] ELSE Tail(stack)[i - m]
  BY <1>2, <1>3, ConcatProperties
<1>5. /\ \A y \in Under(node, nodes) :
           y = node \/ \E kid \in nodes : kid.ref = node.id /\ y \in Under(kid, nodes)
      /\ \A kid \in nodes : kid.ref = node.id =>
           Under(kid, nodes) \subseteq Under(node, nodes) /\ node \notin Under(kid, nodes)
      /\ node \in Under(node, nodes)
  BY UnderIs
<1> HIDE DEF m, n, next
<1>6. ASSUME NEW i \in 1..m + n
      PROVE  \/ i \in 1..m /\ next[i] = kids[i] /\ i <= m
             \/ i - m \in 1..n /\ i - m + 1 \in 1..Len(stack) /\ next[i] = stack[i - m + 1] /\ ~(i <= m)
  <2>1. CASE i <= m
    BY <1>2, <1>3, <1>4, <2>1
  <2>2. CASE ~(i <= m)
    <3>1. i - m \in 1..n
      BY <1>2, <1>3, <2>2
    <3>2. next[i] = Tail(stack)[i - m]
      BY <1>4, <2>2
    <3> QED
      BY <1>2, <2>2, <3>1, <3>2
  <2> QED
    BY <2>1, <2>2
<1>7. \A i \in 1..m : Under(next[i], nodes) = Under(kids[i], nodes) /\ i \in 1..m + n
  <2>1. \A i \in 1..m : i \in 1..m + n /\ i <= m
    BY <1>2, <1>3
  <2> QED
    BY <1>4, <2>1
<1>8. ASSUME NEW y \in nodes
      PROVE  y \in ToCome(next, nodes) <=> y \in ToCome(stack, nodes) /\ y # node
  <2>1. ASSUME y \in ToCome(next, nodes) PROVE y \in ToCome(stack, nodes) /\ y # node
    <3>1. PICK i \in 1..m + n : y \in Under(next[i], nodes)
      BY <1>4, <2>1 DEF ToCome
    <3>2. CASE i \in 1..m /\ next[i] = kids[i]
      <4>1. y \in Under(node, nodes) /\ y # node /\ 1 \in 1..Len(stack)
        BY <1>0, <1>3, <1>5, <3>1, <3>2
      <4> QED
        BY <1>1, <4>1 DEF ToCome
    <3>3. CASE i - m \in 1..n /\ i - m + 1 \in 1..Len(stack) /\ next[i] = stack[i - m + 1]
      <4>1. PICK k \in 1..Len(stack) : y \in Under(stack[k], nodes) /\ 1 < k
        <5>1. 1 < i - m + 1
          BY <1>2, <1>3, <3>3
        <5> QED
          BY <3>1, <3>3, <5>1
      <4>2. 1 \in 1..Len(stack)
        BY <1>0
      <4>3. Ahead(node, y, nodes)
        BY <1>1, <1>5, <4>1, <4>2 DEF StackInOrder
      <4> QED
        BY <4>1, <4>3 DEF ToCome, Ahead
    <3> QED
      BY <1>6, <3>2, <3>3
  <2>2. ASSUME y \in ToCome(stack, nodes), y # node PROVE y \in ToCome(next, nodes)
    <3>1. PICK k \in 1..Len(stack) : y \in Under(stack[k], nodes)
      BY <2>2 DEF ToCome
    <3>2. CASE k = 1
      <4>1. PICK kid \in nodes : kid.ref = node.id /\ y \in Under(kid, nodes)
        BY <1>1, <1>5, <2>2, <3>1, <3>2
      <4>2. PICK i \in 1..m : kids[i] = kid
        BY <1>3, <4>1
      <4> QED
        BY <1>4, <1>7, <4>1, <4>2 DEF ToCome
    <3>3. CASE k # 1
      <4>1. k - 1 \in 1..n /\ (k - 1) + 1 = k
        BY <1>0, <1>2, <3>3 DEF n
      <4>2. PICK p \in 1..m + n : ~(p <= m) /\ p - m = k - 1
        BY <1>2, <1>3, <4>1
      <4>3. next[p] = Tail(stack)[k - 1]
        BY <1>4, <4>2
      <4>4. Tail(stack)[k - 1] = stack[k]
        BY <1>2, <4>1
      <4> QED
        BY <1>4, <3>1, <4>3, <4>4 DEF ToCome
    <3> QED
      BY <3>2, <3>3
  <2> QED
    BY <2>1, <2>2
<1>9. node \in ToCome(stack, nodes)
  <2>1. 1 \in 1..Len(stack)
    BY <1>0
  <2> QED
    BY <1>1, <1>5, <2>1 DEF ToCome
<1>10. ASSUME NEW y \in ToCome(next, nodes) PROVE Ahead(node, y, nodes)
  <2>1. PICK i \in 1..m + n : y \in Under(next[i], nodes)
    BY <1>4 DEF ToCome
  <2>2. CASE i \in 1..m /\ next[i] = kids[i]
    <3>1. y \in Under(node, nodes) /\ y # node
      BY <1>3, <1>5, <2>1, <2>2
    <3> QED
      BY <3>1 DEF Under, Ahead
  <2>3. CASE i - m \in 1..n /\ i - m + 1 \in 1..Len(stack) /\ next[i] = stack[i - m + 1]
    <3>1. 1 < i - m + 1 /\ 1 \in 1..Len(stack)
      BY <1>0, <1>2, <1>3, <2>3
    <3> DEFINE k == i - m + 1
    <3>2. k \in 1..Len(stack) /\ y \in Under(stack[k], nodes) /\ 1 < k
      BY <2>1, <2>3, <3>1
    <3> HIDE DEF k
    <3> QED
      BY <1>1, <1>5, <3>1, <3>2 DEF StackInOrder
  <2> QED
    BY <1>6, <2>2, <2>3
<1>11. ASSUME NEW i \in 1..m + n, NEW j \in 1..m + n, i < j,
              NEW x \in Under(next[i], nodes), NEW y \in Under(next[j], nodes)
       PROVE  Ahead(x, y, nodes)
  <2>1. CASE i \in 1..m /\ j \in 1..m /\ next[i] = kids[i] /\ next[j] = kids[j]
    <3>1. kids[i] \in Line(x, nodes) /\ kids[j] \in Line(y, nodes) /\ x \in nodes /\ y \in nodes
      BY <2>1 DEF Under
    <3>2. kids[i].ref = kids[j].ref /\ Before(kids[i], kids[j]) /\ kids[i] \in nodes /\ kids[j] \in nodes
      BY <1>3, <1>11, <2>1
    <3>3. x # y
      <4>1. ASSUME x = y PROVE FALSE
        <5>1. kids[i] = kids[j]
          BY <3>1, <3>2, <4>1, NoSiblingsInLine
        <5>2. ~Before(kids[i], kids[i])
          BY <3>2, BeforeOrders DEF LawfulInserts
        <5> QED
          BY <3>2, <5>1, <5>2
      <4> QED
        BY <4>1
    <3> QED
      BY <3>1, <3>2, <3>3 DEF Ahead
  <2>2. CASE i \in 1..m /\ next[i] = kids[i] /\ ~(j <= m) /\ j - m + 1 \in 1..Len(stack)
             /\ next[j] = stack[j - m + 1]
    <3>1. x \in Under(node, nodes)
      BY <1>3, <1>5, <2>2
    <3> DEFINE k == j - m + 1
    <3>2. k \in 1..Len(stack) /\ y \in Under(stack[k], nodes) /\ 1 < k /\ 1 \in 1..Len(stack)
      BY <1>0, <1>2, <1>3, <2>2
    <3> HIDE DEF k
    <3> QED
      BY <1>1, <3>1, <3>2 DEF StackInOrder
  <2>3. CASE /\ ~(i <= m) /\ i - m + 1 \in 1..Len(stack) /\ next[i] = stack[i - m + 1]
             /\ ~(j <= m) /\ j - m + 1 \in 1..Len(stack) /\ next[j] = stack[j - m + 1]
    <3> DEFINE k == i - m + 1
               l == j - m + 1
    <3>1. k \in 1..Len(stack) /\ x \in Under(stack[k], nodes)
          /\ l \in 1..Len(stack) /\ y \in Under(stack[l], nodes) /\ k < l
      BY <1>2, <1>3, <1>11, <2>3
    <3> HIDE DEF k, l
    <3> QED
      BY <3>1 DEF StackInOrder
  <2>4. ~(~(i <= m) /\ j <= m)
    BY <1>2, <1>3, <1>11
  <2> QED
    BY <1>6, <2>1, <2>2, <2>3, <2>4
<1>12. StackInOrder(next, nodes)
  BY <1>4, <1>11 DEF StackInOrder
<1>13. ToCome(next, nodes) = ToCome(stack, nodes) \ {node}
  BY <1>8 DEF ToCome
<1> QED
  BY <1>1, <1>4, <1>9, <1>10, <1>12, <1>13 DEF next

Shown(output, node, stones) == IF node.id \in stones THEN output ELSE Append(output, node)

\* A turn of the walk keeps it.
LEMMA WalkedTurn ==
  ASSUME NEW nodes, LawfulInserts(nodes), NEW output, NEW stack, NEW stones,
         Walked(output, stack, nodes, stones), stack # <<>>,
         NEW kids, InTreeOrder(kids, Head(stack).id, nodes)
  PROVE  /\ Walked(Shown(output, Head(stack), stones), kids \o Tail(stack), nodes, stones)
         /\ Head(stack) \in ToCome(stack, nodes)
         /\ ToCome(kids \o Tail(stack), nodes) = ToCome(stack, nodes) \ {Head(stack)}
<1> DEFINE node == Head(stack)
           next == kids \o Tail(stack)
           out  == Shown(output, node, stones)
           gone == nodes \ ToCome(stack, nodes)
<1>1. stack \in Seq(nodes) /\ StackInOrder(stack, nodes)
  BY DEF Walked
<1>2. /\ next \in Seq(nodes) /\ StackInOrder(next, nodes)
      /\ node \in ToCome(stack, nodes)
      /\ ToCome(next, nodes) = ToCome(stack, nodes) \ {node}
      /\ \A y \in ToCome(next, nodes) : Ahead(node, y, nodes)
  BY <1>1, StackTurn
<1>3. /\ \A x \in gone, y \in ToCome(stack, nodes) : Ahead(x, y, nodes)
      /\ output \in Seq(nodes) /\ Len(output) \in Nat
      /\ ToSet(output) = {x \in gone : x.id \notin stones}
      /\ OutputInOrder(output, nodes)
  BY LenProperties DEF Walked
<1>4. node \in nodes /\ nodes \ ToCome(next, nodes) = gone \cup {node}
  BY <1>2 DEF ToCome
<1> HIDE DEF node, next
<1>5. \A x \in nodes \ ToCome(next, nodes), y \in ToCome(next, nodes) : Ahead(x, y, nodes)
  BY <1>2, <1>3, <1>4
<1>6. CASE node.id \in stones
  <2>1. out = output
    BY <1>6 DEF Shown
  <2>2. ToSet(out) = {x \in nodes \ ToCome(next, nodes) : x.id \notin stones}
    BY <1>3, <1>4, <1>6, <2>1
  <2> QED
    BY <1>2, <1>3, <1>5, <2>1, <2>2 DEF Walked, node, next
<1>7. CASE node.id \notin stones
  <2>1. out = Append(output, node)
    BY <1>7 DEF Shown
  <2>2. /\ out \in Seq(nodes) /\ Len(out) = Len(output) + 1
        /\ \A i \in 1..Len(output) : out[i] = output[i]
        /\ out[Len(output) + 1] = node
    BY <1>3, <1>4, <2>1, AppendProperties
  <2>3. ToSet(out) = ToSet(output) \cup {node}
    <3>1. ToSet(out) = {out[i] : i \in 1..Len(out)} /\ ToSet(output) = {output[i] : i \in 1..Len(output)}
      BY <1>3, <2>2, ToSetOfSeq
    <3>2. 1..Len(out) = 1..Len(output) \cup {Len(output) + 1}
      BY <1>3, <2>2
    <3> HIDE DEF out
    <3> QED
      BY <2>2, <3>1, <3>2
  <2>4. ToSet(out) = {x \in nodes \ ToCome(next, nodes) : x.id \notin stones}
    BY <1>3, <1>4, <1>7, <2>3
  <2>5. \A i \in 1..Len(output) : Ahead(output[i], node, nodes)
    <3>1. \A i \in 1..Len(output) : output[i] \in gone
      BY <1>3, ToSetOfSeq
    <3> QED
      BY <1>2, <1>3, <3>1
  <2>6. ASSUME NEW i \in 1..Len(out), NEW j \in 1..Len(out), i < j
        PROVE  Ahead(out[i], out[j], nodes)
    <3>1. i \in 1..Len(output) /\ out[i] = output[i]
      BY <1>3, <2>2, <2>6
    <3>2. CASE j \in 1..Len(output)
      BY <1>3, <2>2, <2>6, <3>1, <3>2 DEF OutputInOrder
    <3>3. CASE j = Len(output) + 1
      BY <2>2, <2>5, <3>1, <3>3
    <3>4. j \in 1..Len(output) \/ j = Len(output) + 1
      BY <1>3, <2>2
    <3> QED
      BY <3>2, <3>3, <3>4
  <2>7. OutputInOrder(out, nodes)
    BY <2>6 DEF OutputInOrder
  <2> HIDE DEF out
  <2>8. Walked(out, next, nodes, stones)
    BY <1>2, <1>5, <2>2, <2>4, <2>7 DEF Walked
  <2> QED
    BY <1>2, <2>8 DEF out, node, next
<1> QED
  BY <1>6, <1>7

WalkStays(S, replica) == \A st \in S : WalkTurn(replica, st) \in S

WalkRun(f, n, S, start, replica) ==
  /\ f \in [0..n -> S]
  /\ f[0] = start
  /\ \A k \in 1..n : f[k] = WalkTurn(replica, f[k - 1])
  /\ Loop(start, n, LAMBDA state, turn : WalkTurn(replica, state)) = f[n]

LEMMA WalkLoop ==
  ASSUME NEW replica, NEW n \in Nat, NEW S, NEW start \in S, WalkStays(S, replica)
  PROVE  \E f : WalkRun(f, n, S, start, replica)
<1> DEFINE turn  == [k \in 1..n |-> [st \in S |-> WalkTurn(replica, st)]]
           Is(f) == f = [k \in 0..n |-> IF k = 0 THEN start ELSE WalkTurn(replica, f[k - 1])]
           state == CHOOSE f : Is(f)
<1>1. IsTurns(turn, n, S)
  BY DEF IsTurns, WalkStays
<1>2. PICK g : GoesThrough(g, n, S, start, turn)
  <2> HIDE DEF turn, Is, state
  <2> QED BY <1>1, LoopExists
<1>3. Is(g)
  <2>1. ASSUME NEW k \in 0..n
        PROVE  g[k] = IF k = 0 THEN start ELSE WalkTurn(replica, g[k - 1])
    <3>1. CASE k = 0
      BY <1>2, <3>1 DEF GoesThrough
    <3>2. CASE k # 0
      <4>1. k \in 1..n /\ k - 1 \in 0..n
        BY <3>2
      <4>2. g[k] = turn[k][g[k - 1]] /\ g[k - 1] \in S
        BY <1>2, <3>2, <4>1 DEF GoesThrough
      <4> QED
        BY <3>2, <4>1, <4>2
    <3> QED
      BY <3>1, <3>2
  <2> HIDE DEF turn
  <2> QED
    BY <1>2, <2>1 DEF GoesThrough
<1>4. Is(state)
  <2> HIDE DEF Is
  <2> QED BY <1>3
<1>5. state = [k \in 0..n |-> IF k = 0 THEN start ELSE WalkTurn(replica, state[k - 1])]
  BY <1>4
<1>6. Loop(start, n, LAMBDA st, k : WalkTurn(replica, st)) = state[n]
  BY DEF Loop
<1> HIDE DEF state, turn, Is
<1>7. state[0] = start /\ \A k \in 1..n : state[k] = WalkTurn(replica, state[k - 1])
  BY <1>5
<1> DEFINE good == {k \in 0..n : state[k] \in S}
<1>8. 0 \in good /\ \A k \in 1..n : k - 1 \in good => k \in good
  BY <1>7 DEF WalkStays
<1>9. \A k \in 0..n : k \in good
  <2> HIDE DEF good
  <2> QED BY <1>8, CountUp
<1>10. state \in [0..n -> S]
  BY <1>5, <1>9
<1> QED
  BY <1>6, <1>7, <1>10 DEF WalkRun

WalkState(output, stack) == [output |-> output, stack |-> stack]

\* What a sound replica shows: its attached elements that are not deleted, in
\* the order of the document.
LEMMA VisibleIs ==
  ASSUME NEW r, Sound(r)
  PROVE  /\ VisibleElements(r) \in Seq(r.nodes)
         /\ ToSet(VisibleElements(r)) = {node \in r.nodes : node.id \notin r.tombstones}
         /\ OutputInOrder(VisibleElements(r), r.nodes)
<1> DEFINE nodes  == r.nodes
           stones == r.tombstones
           S      == {WalkState(p[1], p[2]) : p \in
                        {q \in Seq(nodes) \X Seq(nodes) : Walked(q[1], q[2], nodes, stones)}}
           n      == Cardinality(nodes)
           start  == WalkState(<<>>, r.children[Root])
<1>1. LawfulInserts(nodes) /\ IsFiniteSet(nodes) /\ n \in Nat
  <2>1. LawfulInserts(Inserts(r.known)) /\ nodes \in SUBSET Inserts(r.known)
    BY InsertsAreLawful DEF Sound, WellFormed
  <2>2. Lawful(nodes)
    BY <2>1, LawfulSubset DEF LawfulInserts
  <2>3. IsFiniteSet(nodes)
    BY <2>2 DEF Lawful
  <2>4. LawfulInserts(nodes)
    <3> HIDE DEF nodes
    <3> QED BY <2>1, <2>2 DEF LawfulInserts
  <2> QED
    BY <2>3, <2>4, FS_CardinalityType
<1>2. ASSUME NEW parent \in Anchors(nodes)
      PROVE  InTreeOrder(r.children[parent], parent, nodes)
  <2>1. r.children = TreeOf(nodes)
    <3> DEFINE K == r.known
               P == r.pendingInserts
    <3>1. r = ReplicaOf(K, nodes, P)
      BY DEF Sound
    <3> HIDE DEF K, nodes, P
    <3> QED
      BY <3>1 DEF ReplicaOf
  <2>2. r.children[parent] = Siblings({node \in nodes : node.ref = parent})
    <3> HIDE DEF nodes
    <3> QED BY <2>1 DEF TreeOf, Anchors
  <2> HIDE DEF nodes
  <2> QED
    BY <1>1, <2>2, ChildrenInOrder
<1>3. \A node \in nodes : node.ref \in Anchors(nodes) /\ node.id \in Anchors(nodes)
  BY DEF Sound, WellFormed, Anchors, IdsOf
<1>4. \A st : st \in S <=> \E output, stack : Walked(output, stack, nodes, stones) /\ st = WalkState(output, stack)
  <2>1. ASSUME NEW output, NEW stack, Walked(output, stack, nodes, stones)
        PROVE  WalkState(output, stack) \in S
    <3> DEFINE q == <<output, stack>>
    <3>1. q \in Seq(nodes) \X Seq(nodes) /\ q[1] = output /\ q[2] = stack
      BY <2>1 DEF Walked
    <3>2. Walked(q[1], q[2], nodes, stones) /\ WalkState(output, stack) = WalkState(q[1], q[2])
      BY <2>1
    <3> HIDE DEF q
    <3> QED
      BY <3>1, <3>2
  <2>2. ASSUME NEW st \in S
        PROVE  \E output, stack : Walked(output, stack, nodes, stones) /\ st = WalkState(output, stack)
    OBVIOUS
  <2> HIDE DEF S
  <2> QED
    BY <2>1, <2>2
<1>5. ToCome(r.children[Root], nodes) = nodes
  <2> DEFINE top == r.children[Root]
  <2>1. Root \in Anchors(nodes)
    BY DEF Anchors
  <2>2. InTreeOrder(top, Root, nodes)
    BY <1>2, <2>1
  <2> HIDE DEF top
  <2>3. top \in Seq(nodes) /\ {top[i] : i \in 1..Len(top)} = {node \in nodes : node.ref = Root}
    BY <2>2, ToSetOfSeq DEF InTreeOrder
  <2>4. ASSUME NEW y \in nodes PROVE y \in ToCome(top, nodes)
    <3>0. nodes = AttachedInserts(r.known) /\ Upward(nodes, Inserts(r.known))
      BY SoundNodes
    <3>1. y \in AttachedInserts(r.known) /\ Upward(nodes, Inserts(r.known))
          /\ nodes \in SUBSET Inserts(r.known)
      BY <3>0 DEF AttachedInserts
    <3>2. PICK first \in Line(y, Inserts(r.known)) : first.ref = Root
      BY <3>1 DEF AttachedInserts
    <3>3. Line(y, Inserts(r.known)) = Line(y, nodes)
      <4> HIDE DEF nodes
      <4> QED BY <3>1, LineInPart
    <3>4. first \in nodes /\ y \in Under(first, nodes)
      <4>1. first \in Line(y, nodes) /\ Line(y, nodes) \in SUBSET nodes
        BY <3>2, <3>3, LineBasics
      <4> HIDE DEF nodes
      <4> QED BY <4>1 DEF Under
    <3>5. PICK i \in 1..Len(top) : top[i] = first
      <4>1. first \in {top[i] : i \in 1..Len(top)}
        BY <2>3, <3>2, <3>4
      <4> QED
        BY <4>1
    <3> QED
      BY <3>4, <3>5 DEF ToCome
  <2> QED
    BY <2>4 DEF ToCome, top
<1>6. Walked(<<>>, r.children[Root], nodes, stones)
  <2> DEFINE top == r.children[Root]
             none == <<>>
  <2>1. InTreeOrder(top, Root, nodes)
    BY <1>2 DEF Anchors
  <2>2. ToCome(top, nodes) = nodes
    BY <1>5
  <2>3. none \in Seq(nodes) /\ ToSet(none) = {} /\ 1..Len(none) = {}
    BY DEF ToSet
  <2> HIDE DEF top, none, nodes
  <2>4. top \in Seq(nodes) /\ {top[i] : i \in 1..Len(top)} = {node \in nodes : node.ref = Root}
    BY <2>1, ToSetOfSeq DEF InTreeOrder
  <2>5. ASSUME NEW i \in 1..Len(top), NEW j \in 1..Len(top), i < j,
               NEW x \in Under(top[i], nodes), NEW y \in Under(top[j], nodes)
        PROVE  Ahead(x, y, nodes)
    <3>1. Before(top[i], top[j])
      BY <2>1, <2>5 DEF InTreeOrder
    <3>2. top[i] \in nodes /\ top[j] \in nodes /\ top[i].ref = Root /\ top[j].ref = Root
      BY <2>4
    <3>3. x \in nodes /\ y \in nodes /\ top[i] \in Line(x, nodes) /\ top[j] \in Line(y, nodes)
      BY DEF Under
    <3>4. x # y
      <4>1. ASSUME x = y PROVE FALSE
        <5>1. top[i] = top[j]
          BY <1>1, <3>2, <3>3, <4>1, NoSiblingsInLine
        <5>2. ~Before(top[i], top[i])
          BY <1>1, <3>2, BeforeOrders DEF LawfulInserts
        <5> QED
          BY <3>1, <5>1, <5>2
      <4> QED
        BY <4>1
    <3> QED
      BY <3>1, <3>2, <3>3, <3>4 DEF Ahead
  <2>6. StackInOrder(top, nodes)
    BY <2>5 DEF StackInOrder
  <2>7. OutputInOrder(none, nodes)
    BY <2>3 DEF OutputInOrder
  <2>8. Walked(none, top, nodes, stones)
    BY <2>2, <2>3, <2>4, <2>6, <2>7 DEF Walked
  <2> QED
    BY <2>8 DEF none, top
<1>7. ASSUME NEW output, NEW stack, Walked(output, stack, nodes, stones)
      PROVE  \/ /\ stack = <<>>
                /\ WalkTurn(r, WalkState(output, stack)) = WalkState(output, stack)
             \/ \E out, next : \E node \in nodes :
                  /\ stack # <<>>
                  /\ WalkTurn(r, WalkState(output, stack)) = WalkState(out, next)
                  /\ Walked(out, next, nodes, stones)
                  /\ node \in ToCome(stack, nodes)
                  /\ ToCome(next, nodes) = ToCome(stack, nodes) \ {node}
  <2>1. CASE stack = <<>>
    <3>1. WalkState(output, stack).stack = <<>>
      BY <2>1 DEF WalkState
    <3>2. WalkTurn(r, WalkState(output, stack)) = WalkState(output, stack)
      BY <3>1 DEF WalkTurn
    <3> QED
      BY <2>1, <3>2
  <2>2. CASE stack # <<>>
    <3>1. Head(stack) \in nodes
      <4>1. stack \in Seq(nodes)
        BY <1>7 DEF Walked
      <4> HIDE DEF nodes
      <4> QED
        BY <2>2, <4>1, HeadTailProperties
    <3> DEFINE node == Head(stack)
               kids == r.children[node.id]
               out  == Shown(output, node, stones)
               next == kids \o Tail(stack)
    <3>2. InTreeOrder(kids, node.id, nodes)
      BY <1>2, <1>3, <3>1
    <3>3. /\ Walked(out, next, nodes, stones)
          /\ node \in ToCome(stack, nodes)
          /\ ToCome(next, nodes) = ToCome(stack, nodes) \ {node}
      <4> HIDE DEF kids, nodes, stones
      <4> QED
        BY <1>1, <1>7, <2>2, <3>2, WalkedTurn
    <3>4. WalkTurn(r, WalkState(output, stack)) = WalkState(out, next)
      BY <2>2 DEF WalkTurn, WalkState, Shown
    <3> HIDE DEF node, out, next, nodes, stones
    <3> QED
      BY <2>2, <3>1, <3>3, <3>4 DEF node
  <2> QED
    BY <2>1, <2>2
<1> HIDE DEF S
<1>8. start \in S /\ WalkStays(S, r)
  <2>1. start \in S
    BY <1>4, <1>6
  <2>2. ASSUME NEW st \in S PROVE WalkTurn(r, st) \in S
    <3>1. PICK output, stack : Walked(output, stack, nodes, stones) /\ st = WalkState(output, stack)
      BY <1>4
    <3> HIDE DEF nodes, stones
    <3> QED
      BY <1>4, <1>7, <3>1
  <2> QED
    BY <2>1, <2>2 DEF WalkStays
<1>9. PICK f : WalkRun(f, n, S, start, r)
  <2> HIDE DEF n, start
  <2> QED BY <1>1, <1>8, WalkLoop
<1> DEFINE Fits(k, st) ==
             \E output, stack :
               /\ Walked(output, stack, nodes, stones)
               /\ st = WalkState(output, stack)
               /\ stack = <<>> \/ Cardinality(ToCome(stack, nodes)) + k <= n
           good == {k \in 0..n : Fits(k, f[k])}
<1>10. 0 \in good
  <2>1. f[0] = start
    BY <1>9 DEF WalkRun
  <2>2. Cardinality(ToCome(r.children[Root], nodes)) + 0 <= n /\ 0 \in 0..n
    BY <1>1, <1>5
  <2> HIDE DEF n, nodes, stones
  <2> QED
    BY <1>6, <2>1, <2>2
<1>11. ASSUME NEW k \in 1..n, k - 1 \in good PROVE k \in good
  <2>1. PICK output, stack :
          /\ Walked(output, stack, nodes, stones)
          /\ f[k - 1] = WalkState(output, stack)
          /\ stack = <<>> \/ Cardinality(ToCome(stack, nodes)) + (k - 1) <= n
    BY <1>11
  <2>2. f[k] = WalkTurn(r, WalkState(output, stack))
    BY <1>9, <2>1 DEF WalkRun
  <2>3. CASE stack = <<>> /\ WalkTurn(r, WalkState(output, stack)) = WalkState(output, stack)
    <3> HIDE DEF n, nodes, stones
    <3> QED
      BY <2>1, <2>2, <2>3
  <2>4. CASE \E out, next : \E node \in nodes :
               /\ stack # <<>>
               /\ WalkTurn(r, WalkState(output, stack)) = WalkState(out, next)
               /\ Walked(out, next, nodes, stones)
               /\ node \in ToCome(stack, nodes)
               /\ ToCome(next, nodes) = ToCome(stack, nodes) \ {node}
    <3>1. PICK out, next : \E node \in nodes :
            /\ stack # <<>>
            /\ WalkTurn(r, WalkState(output, stack)) = WalkState(out, next)
            /\ Walked(out, next, nodes, stones)
            /\ node \in ToCome(stack, nodes)
            /\ ToCome(next, nodes) = ToCome(stack, nodes) \ {node}
      BY <2>4
    <3>9. PICK node \in nodes :
            /\ node \in ToCome(stack, nodes)
            /\ ToCome(next, nodes) = ToCome(stack, nodes) \ {node}
      BY <3>1
    <3> DEFINE a == ToCome(stack, nodes)
               b == ToCome(next, nodes)
    <3>2. a \in SUBSET nodes /\ b \in SUBSET nodes
      BY DEF ToCome
    <3>3. a = b \cup {node} /\ node \notin b /\ IsFiniteSet(b)
      <4>1. IsFiniteSet(b)
        BY <1>1, <3>2, FS_Subset
      <4> HIDE DEF a, b
      <4>2. b = a \ {node} /\ node \in a
        BY <3>9 DEF a, b
      <4> QED
        BY <4>1, <4>2
    <3> HIDE DEF a, b, n
    <3>4. Cardinality(a) = Cardinality(b) + 1 /\ Cardinality(b) \in Nat
      BY <3>3, FS_AddElement, FS_CardinalityType
    <3>5. Cardinality(a) + (k - 1) <= n
      BY <2>1, <3>1 DEF a
    <3>6. Cardinality(b) + k <= n
      BY <1>1, <3>4, <3>5
    <3>7. k \in 0..n
      BY <1>1
    <3> HIDE DEF nodes, stones, Fits
    <3>8. Fits(k, f[k])
      BY <2>2, <3>1, <3>6 DEF b, Fits
    <3> QED
      BY <3>7, <3>8
  <2> QED
    BY <1>7, <2>1, <2>3, <2>4
<1>12. n \in good
  <2>1. \A k \in 0..n : k \in good
    <3> HIDE DEF good, n
    <3> QED BY <1>1, <1>10, <1>11, CountUp
  <2> HIDE DEF good, n
  <2> QED
    BY <1>1, <2>1
<1>13. PICK output, stack :
         /\ Walked(output, stack, nodes, stones)
         /\ f[n] = WalkState(output, stack)
         /\ stack = <<>> \/ Cardinality(ToCome(stack, nodes)) + n <= n
  BY <1>12
<1>14. ToCome(stack, nodes) = {}
  <2>1. CASE stack = <<>>
    BY <2>1 DEF ToCome
  <2>2. CASE stack # <<>>
    <3>1. ToCome(stack, nodes) \in SUBSET nodes
      BY DEF ToCome
    <3>2. IsFiniteSet(ToCome(stack, nodes))
      BY <1>1, <3>1, FS_Subset
    <3>3. Cardinality(ToCome(stack, nodes)) \in Nat
      BY <3>2, FS_CardinalityType
    <3>4. Cardinality(ToCome(stack, nodes)) = 0
      <4> HIDE DEF n
      <4> QED BY <1>1, <1>13, <2>2, <3>3
    <3> QED
      BY <3>2, <3>4, FS_EmptySet
  <2> QED
    BY <2>1, <2>2
<1>15. VisibleElements(r) = output
  <2>1. Loop(start, n, LAMBDA state, turn : WalkTurn(r, state)) = f[n]
    BY <1>9 DEF WalkRun
  <2>2. VisibleElements(r) = f[n].output
    <3>1. VisibleElements(r) = Loop(start, n, LAMBDA state, turn : WalkTurn(r, state)).output
      BY DEF VisibleElements, WalkState
    <3> HIDE DEF n, start
    <3> QED BY <2>1, <3>1
  <2> QED
    BY <1>13, <2>2 DEF WalkState
<1>16. nodes \ ToCome(stack, nodes) = nodes
  BY <1>14
<1> HIDE DEF stones, nodes
<1>17. /\ output \in Seq(nodes)
       /\ ToSet(output) = {node \in nodes : node.id \notin stones}
       /\ OutputInOrder(output, nodes)
  BY <1>13, <1>16 DEF Walked
<1> QED
  BY <1>15, <1>17 DEF nodes, stones

\* There is one sequence in the order of the document.
LEMMA InOrderIsInjective ==
  ASSUME NEW nodes, LawfulInserts(nodes), NEW s \in Seq(nodes), OutputInOrder(s, nodes)
  PROVE  /\ Distinct(s)
         /\ IsFiniteSet(ToSet(s)) /\ Cardinality(ToSet(s)) = Len(s)
<1> DEFINE n == Len(s)
<1>1. n \in Nat /\ ToSet(s) = {s[i] : i \in 1..n}
  BY ToSetOfSeq, LenProperties
<1>2. \A i, j \in 1..n : i # j => s[i] # s[j]
  <2>1. ASSUME NEW i \in 1..n, NEW j \in 1..n, i # j PROVE s[i] # s[j]
    <3>1. i < j \/ j < i
      BY <2>1
    <3> QED
      BY <3>1 DEF OutputInOrder, Ahead
  <2> QED
    BY <2>1
<1> DEFINE g == [i \in 1..n |-> s[i]]
<1>3. g \in Bijection(1..n, ToSet(s))
  <2>1. g \in [1..n -> ToSet(s)] /\ \A x \in ToSet(s) : \E i \in 1..n : g[i] = x
    BY <1>1
  <2>2. \A i, j \in 1..n : g[i] = g[j] => i = j
    BY <1>2
  <2> HIDE DEF g, n
  <2> QED
    BY <2>1, <2>2 DEF Bijection, Injection, IsInjective, Surjection
<1>4. IsFiniteSet(1..n) /\ Cardinality(1..n) = n
  BY <1>1, FS_Interval
<1>5. IsFiniteSet(ToSet(s)) /\ Cardinality(ToSet(s)) = n
  <2> HIDE DEF g, n
  <2> QED BY <1>3, <1>4, FS_Bijection, FS_Surjection DEF Bijection
<1> QED
  BY <1>2, <1>5 DEF Distinct

LEMMA InOrderIsUnique ==
  ASSUME NEW nodes, LawfulInserts(nodes), NEW s \in Seq(nodes), NEW t \in Seq(nodes),
         ToSet(s) = ToSet(t), OutputInOrder(s, nodes), OutputInOrder(t, nodes)
  PROVE  s = t
<1> DEFINE S     == ToSet(s)
           n     == Len(s)
           order == {p \in S \X S : Ahead(p[1], p[2], nodes)}
<1>1. n \in Nat /\ Len(t) = n /\ Distinct(t)
  <2>1. Cardinality(ToSet(s)) = Len(s) /\ Cardinality(ToSet(t)) = Len(t) /\ Distinct(t)
    BY InOrderIsInjective
  <2> QED
    BY <2>1, LenProperties
<1>2. S = {s[i] : i \in 1..n} /\ S = {t[i] : i \in 1..n} /\ S \in SUBSET nodes
  BY <1>1, ToSetOfSeq
<1>3. \A x, y \in S : <<x, y>> \in order <=> Ahead(x, y, nodes)
  OBVIOUS
<1> HIDE DEF order, S
<1>4. s \in [1..n -> S] /\ t \in [1..n -> S]
  <2>1. s = [i \in 1..n |-> s[i]] /\ t = [i \in 1..n |-> t[i]]
    BY <1>1, LenProperties
  <2> HIDE DEF n
  <2> QED
    BY <1>2, <2>1
<1> HIDE DEF n
<1>5. Fills(s, n, S) /\ InOrder(order, s, n)
  <2>1. \A i, j \in 1..n : i < j => Ahead(s[i], s[j], nodes)
    BY DEF OutputInOrder, n
  <2> QED
    BY <1>2, <1>3, <2>1 DEF Fills, InOrder
<1>6. Differ(t, n) /\ NeverBack(order, t, n)
  <2>1. \A i, j \in 1..n : i < j => Ahead(t[i], t[j], nodes)
    BY <1>1 DEF OutputInOrder
  <2>2. ASSUME NEW i \in 1..n, NEW j \in 1..n, i < j PROVE <<t[j], t[i]>> \notin order
    <3>1. t[i] \in nodes /\ t[j] \in nodes /\ t[i] \in S /\ t[j] \in S
      BY <1>2
    <3>2. ~Ahead(t[j], t[i], nodes)
      BY <2>1, <2>2, <3>1, AheadIsOneWay
    <3> QED
      BY <1>3, <3>1, <3>2
  <2> QED
    BY <1>1, <2>2 DEF Differ, NeverBack, Distinct
<1> QED
  BY <1>1, <1>4, <1>5, <1>6, OrderUnique

\* It is what Sorted returns for the order of TextDocument.
LEMMA DocumentIs ==
  ASSUME NEW known, Lawful(known), NEW nodes, nodes = AttachedInserts(known),
         Upward(nodes, Inserts(known)),
         NEW out \in Seq(nodes), OutputInOrder(out, nodes),
         ToSet(out) = {insert \in nodes : \A delete \in Deletes(known) : delete.ref # insert.id}
  PROVE  DocumentOf(known) = out
<1> DEFINE visible == {insert \in AttachedInserts(known) :
                         \A delete \in Deletes(known) : delete.ref # insert.id}
           line    == [insert \in visible |-> Line(insert, Inserts(known))]
           n       == Len(out)
           order   == {p \in visible \X visible : StandsBefore(p[1], p[2], line)}
           Good(s) == \A i, j \in DOMAIN s : i < j => ~StandsBefore(s[j], s[i], line)
<1>1. LawfulInserts(nodes) /\ nodes \in SUBSET Inserts(known)
  <2>1. nodes \in SUBSET Inserts(known)
    BY DEF AttachedInserts
  <2>2. LawfulInserts(Inserts(known))
    BY InsertsAreLawful
  <2> QED
    BY <2>1, <2>2, LawfulSubset DEF LawfulInserts
<1>2. visible \in SUBSET nodes /\ ToSet(out) = visible
  OBVIOUS
<1>3. ASSUME NEW x \in visible, NEW y \in visible
      PROVE  StandsBefore(x, y, line) <=> Ahead(x, y, nodes)
  <2>1. line[x] = Line(x, nodes) /\ line[y] = Line(y, nodes)
    <3>1. line[x] = Line(x, Inserts(known)) /\ line[y] = Line(y, Inserts(known))
      OBVIOUS
    <3>2. x \in nodes /\ y \in nodes
      BY <1>2
    <3> HIDE DEF line, visible
    <3> QED
      BY <1>1, <3>1, <3>2, LineInPart
  <2> HIDE DEF line, visible
  <2> QED
    BY <2>1 DEF StandsBefore, Ahead, Before
<1>4. Distinct(out) /\ IsFiniteSet(visible) /\ Cardinality(visible) = n /\ n \in Nat
  <2> HIDE DEF visible
  <2> QED BY <1>1, <1>2, InOrderIsInjective, LenProperties
<1>5. \A x, y \in visible : <<x, y>> \in order <=> Ahead(x, y, nodes)
  <2> HIDE DEF visible, line
  <2> QED BY <1>3
<1> HIDE DEF visible, line, order
<1>6. visible = {out[i] : i \in 1..n} /\ out \in [1..n -> visible]
  <2>1. visible = {out[i] : i \in 1..n}
    BY <1>2, ToSetOfSeq
  <2>2. out = [i \in 1..n |-> out[i]]
    BY LenProperties
  <2> HIDE DEF n
  <2> QED
    BY <2>1, <2>2
<1>7. ASSUME NEW i \in 1..n, NEW j \in 1..n, i < j
      PROVE  <<out[i], out[j]>> \in order /\ ~StandsBefore(out[j], out[i], line)
  <2>1. Ahead(out[i], out[j], nodes) /\ out[i] \in visible /\ out[j] \in visible
    BY <1>6, <1>7 DEF OutputInOrder
  <2>2. ~Ahead(out[j], out[i], nodes)
    BY <1>1, <1>2, <2>1, AheadIsOneWay
  <2> QED
    BY <1>3, <1>5, <2>1, <2>2
<1>8. out \in SetToSeqs(visible) /\ Good(out)
  <2>1. DOMAIN out = 1..n
    BY LenProperties
  <2>2. \A i, j \in 1..n : i # j => out[i] # out[j]
    BY <1>4 DEF Distinct
  <2>3. out \in SetToSeqs(visible)
    <3> HIDE DEF n
    <3> QED BY <1>4, <1>6, <2>2 DEF SetToSeqs
  <2> QED
    BY <1>7, <2>1, <2>3
<1> DEFINE t == Sorted(visible, LAMBDA x, y : StandsBefore(x, y, line))
<1>9. t \in SetToSeqs(visible) /\ \A i, j \in DOMAIN t : i < j => ~StandsBefore(t[j], t[i], line)
  BY <1>8 DEF Sorted
<1>10. DocumentOf(known) = t
  BY DEF DocumentOf, visible, line
<1> HIDE DEF t, Good
<1>11. t \in [1..n -> visible] /\ DOMAIN t = 1..n /\ Differ(t, n)
  <2>1. t \in [1..n -> visible] /\ Len(t) = n /\ Distinct(t)
    BY <1>4, <1>9, EnumerationIsSeq
  <2> QED
    BY <2>1 DEF Differ, Distinct
<1>12. NeverBack(order, t, n)
  <2>1. ASSUME NEW i \in 1..n, NEW j \in 1..n, i < j PROVE <<t[j], t[i]>> \notin order
    <3>1. t[i] \in visible /\ t[j] \in visible
      BY <1>11
    <3> QED
      BY <1>3, <1>5, <1>9, <1>11, <2>1, <3>1
  <2> QED
    BY <2>1 DEF NeverBack
<1>13. Fills(out, n, visible) /\ InOrder(order, out, n)
  BY <1>6, <1>7 DEF Fills, InOrder
<1>14. out = t
  <2> HIDE DEF n
  <2> QED BY <1>4, <1>6, <1>11, <1>12, <1>13, OrderUnique
<1> QED
  BY <1>10, <1>14

\* What a sound replica shows is the document of what it knows.
LEMMA SoundShowsDocument ==
  ASSUME NEW r, Sound(r)
  PROVE  VisibleElements(r) = DocumentOf(r.known)
<1> DEFINE nodes == r.nodes
           known == r.known
           out   == VisibleElements(r)
<1>1. /\ out \in Seq(nodes)
      /\ ToSet(out) = {node \in nodes : node.id \notin r.tombstones}
      /\ OutputInOrder(out, nodes)
  BY VisibleIs
<1>2. nodes = AttachedInserts(known) /\ Upward(nodes, Inserts(known)) /\ Lawful(known)
  BY SoundNodes DEF Sound
<1>3. \A node \in nodes : node.id \in r.tombstones <=> \E delete \in Deletes(known) : delete.ref = node.id
  <2>1. r.tombstones = {delete.ref : delete \in {d \in Deletes(known) : d.ref \in IdsOf(nodes)}}
    <3> DEFINE P == r.pendingInserts
    <3>1. r = ReplicaOf(known, nodes, P)
      BY DEF Sound
    <3> HIDE DEF P, nodes, known
    <3> QED
      BY <3>1 DEF ReplicaOf
  <2> QED
    BY <2>1 DEF IdsOf
<1> HIDE DEF out, known, nodes
<1>4. ToSet(out) = {insert \in nodes : \A delete \in Deletes(known) : delete.ref # insert.id}
  BY <1>1, <1>3
<1>5. DocumentOf(known) = out
  BY <1>1, <1>2, <1>4, DocumentIs
<1> QED
  BY <1>5 DEF out, known

\* The tombstones are the attached targets of the known deletes.
LEMMA TombstonesAre ==
  ASSUME NEW r, Sound(r)
  PROVE  r.tombstones = {delete.ref : delete \in {d \in Deletes(r.known) : d.ref \in IdsOf(r.nodes)}}
<1>1. r = ReplicaOf(r.known, r.nodes, r.pendingInserts)
  BY DEF Sound
<1> QED
  BY <1>1 DEF ReplicaOf

\* When every anchor is known no insert waits.
LEMMA AllAttached ==
  ASSUME NEW r, Sound(r), \A x \in Inserts(r.known) : x.ref \in Anchors(Inserts(r.known))
  PROVE  /\ r.nodes = Inserts(r.known)
         /\ Deletes(r.known) = {} => Resolved(r)
<1> DEFINE inserts == Inserts(r.known)
           nodes   == r.nodes
<1>1. /\ LawfulInserts(inserts)
      /\ \A x \in inserts : x.ref \in Anchors(inserts)
      /\ nodes = AttachedInserts(r.known) /\ nodes \in SUBSET inserts
  BY InsertsAreLawful, SoundNodes DEF Sound, WellFormed, Inserts
<1>2. ASSUME NEW x \in inserts PROVE x \in nodes
  <2> DEFINE line   == Line(x, inserts)
             stamps == {y.lamport : y \in line}
  <2>1. line \in SUBSET inserts /\ x \in line /\ Upward(line, inserts)
    BY <1>1, LineIsLeast, LineBasics
  <2>2. stamps \in SUBSET Nat /\ stamps # {}
    BY <1>1, <2>1 DEF LawfulInserts, Lawful
  <2>3. PICK y \in line : \A z \in line : y.lamport <= z.lamport
    <3>1. PICK least \in stamps : \A stamp \in stamps : least <= stamp
      <4> HIDE DEF stamps
      <4> QED
        BY <2>2, LeastNumber
    <3> QED
      BY <3>1
  <2>4. SUFFICES ASSUME y.ref # Root PROVE FALSE
    BY <1>1, <1>2, <2>1, <2>3 DEF AttachedInserts
  <2>5. PICK z \in inserts : z.id = y.ref
    BY <1>1, <2>1, <2>4 DEF Anchors, IdsOf
  <2>6. z \in line
    BY <1>1, <2>1, <2>5 DEF Upward
  <2>7. z.lamport < y.lamport /\ z.lamport \in Nat /\ y.lamport \in Nat
    BY <1>1, <2>1, <2>5 DEF LawfulInserts, Lawful, Inserts
  <2> QED
    BY <2>3, <2>6, <2>7
<1>3. Waiting(r) = {}
  BY <1>1, <1>2 DEF Sound, Entries, Waiting
<1>4. Deletes(r.known) = {} => r.pendingDeletes = {}
  <2>1. r = ReplicaOf(r.known, r.nodes, r.pendingInserts)
    BY DEF Sound
  <2>2. r.pendingDeletes = {delete \in Deletes(r.known) : delete.ref \notin IdsOf(nodes)}
    BY <2>1 DEF ReplicaOf
  <2> QED
    BY <2>2
<1> QED
  BY <1>1, <1>2, <1>3, <1>4 DEF Resolved

--------------------------------------------------------------------------------
(***************************************************************************)
(* The diff: what the edit between two texts leaves alone.                 *)
(***************************************************************************)

Agree(a, b, n) == n <= Len(a) /\ n <= Len(b) /\ \A i \in 1..n : a[i] = b[i]

LEMMA PrefixIs ==
  ASSUME NEW S, NEW a \in Seq(S), NEW b \in Seq(S), NEW n \in 1..Len(a)
  PROVE  IsPrefix(SubSeq(a, 1, n), b) <=> Agree(a, b, n)
<1> DEFINE s == SubSeq(a, 1, n)
<1>1. Len(a) \in Nat /\ Len(b) \in Nat /\ \A i \in 1..Len(a) : a[i] \in S
  BY LenProperties
<1>2. \A i \in 1..n : a[i] \in S /\ i \in 1..Len(a)
  BY <1>1
<1>3. s \in Seq(S) /\ Len(s) = n /\ \A i \in 1..n : s[i] = a[i]
  <2>1. /\ s \in Seq(S) /\ Len(s) = (IF 1 <= n THEN n - 1 + 1 ELSE 0)
        /\ \A i \in 1..n - 1 + 1 : s[i] = a[1 + i - 1]
    BY <1>2, SubSeqProperties
  <2> QED
    BY <2>1
<1> HIDE DEF s
<1>4. CASE n <= Len(b)
  <2> DEFINE t == SubSeq(b, 1, n)
             u == SubSeq(s, 1, n)
  <2>1. t \in Seq(S) /\ Len(t) = n /\ \A i \in 1..n : t[i] = b[i]
    <3>1. \A i \in 1..n : b[i] \in S
      BY <1>1, <1>4
    <3>2. /\ t \in Seq(S) /\ Len(t) = (IF 1 <= n THEN n - 1 + 1 ELSE 0)
          /\ \A i \in 1..n - 1 + 1 : t[i] = b[1 + i - 1]
      BY <3>1, SubSeqProperties
    <3> QED
      BY <3>2
  <2>2. u \in Seq(S) /\ Len(u) = n /\ \A i \in 1..n : u[i] = a[i]
    <3>1. \A i \in 1..n : s[i] \in S
      BY <1>2, <1>3
    <3>2. /\ u \in Seq(S) /\ Len(u) = (IF 1 <= n THEN n - 1 + 1 ELSE 0)
          /\ \A i \in 1..n - 1 + 1 : u[i] = s[1 + i - 1]
      BY <3>1, SubSeqProperties
    <3> QED
      BY <1>3, <3>2
  <2>3. IsPrefix(s, b) <=> u = t
    BY <1>3, <1>4 DEF IsPrefix
  <2> HIDE DEF t, u
  <2>4. u = t <=> \A i \in 1..n : u[i] = t[i]
    BY <2>1, <2>2
  <2> QED
    BY <1>1, <1>4, <2>1, <2>2, <2>3, <2>4 DEF Agree, s
<1>5. CASE ~(n <= Len(b))
  BY <1>3, <1>5 DEF IsPrefix, Agree, s
<1> QED
  BY <1>4, <1>5

LEMMA CommonPrefixIs ==
  ASSUME NEW S, NEW a \in Seq(S), NEW b \in Seq(S)
  PROVE  CommonPrefix(a, b) \in Nat /\ Agree(a, b, CommonPrefix(a, b))
<1> DEFINE good == {n \in DOMAIN a : IsPrefix(SubSeq(a, 1, n), b)}
           m    == Max(good)
<1>1. Len(a) \in Nat /\ Len(b) \in Nat /\ DOMAIN a = 1..Len(a)
  BY LenProperties
<1>2. \A n : n \in good <=> n \in 1..Len(a) /\ Agree(a, b, n)
  BY <1>1, PrefixIs
<1>3. CommonPrefix(a, b) = Cardinality(good)
  BY DEF CommonPrefix
<1> HIDE DEF good
<1>4. CASE good = {}
  <2>1. CommonPrefix(a, b) = 0
    BY <1>3, <1>4, FS_EmptySet
  <2> QED
    BY <1>1, <2>1 DEF Agree
<1>5. CASE good # {}
  <2>1. good \in SUBSET Nat /\ IsFiniteSet(good)
    <3>1. good \in SUBSET (1..Len(a))
      BY <1>2
    <3>2. IsFiniteSet(1..Len(a))
      BY <1>1, FS_Interval
    <3>3. IsFiniteSet(good)
      BY <3>1, <3>2, FS_Subset
    <3>4. good \in SUBSET Nat
      BY <1>1, <3>1
    <3> QED
      BY <3>3, <3>4
  <2>2. m \in good /\ \A n \in good : n <= m
    BY <1>5, <2>1, MaxOfFinite
  <2>3. good = 1..m /\ m \in Nat
    <3> HIDE DEF m
    <3>1. m \in 1..Len(a) /\ Agree(a, b, m)
      BY <1>2, <2>2
    <3>2. m \in Nat
      BY <1>1, <3>1
    <3>3. ASSUME NEW n \in 1..m PROVE n \in good
      <4>1. n \in 1..Len(a) /\ Agree(a, b, n)
        BY <1>1, <3>1, <3>2 DEF Agree
      <4> QED
        BY <1>2, <4>1
    <3>4. ASSUME NEW n \in good PROVE n \in 1..m
      <4>1. n \in 1..Len(a) /\ n <= m
        BY <1>2, <2>2
      <4> QED
        BY <1>1, <3>2, <4>1
    <3>5. good = 1..m
      BY <3>3, <3>4
    <3> QED
      BY <3>2, <3>5
  <2> HIDE DEF m
  <2>4. Cardinality(good) = m
    BY <2>3, FS_Interval
  <2> QED
    BY <1>2, <1>3, <2>2, <2>3, <2>4
<1> QED
  BY <1>4, <1>5

\* A part of a sequence.
LEMMA PartOf ==
  ASSUME NEW S, NEW a \in Seq(S), NEW m \in Nat, NEW n \in Nat, n <= Len(a)
  PROVE  /\ SubSeq(a, m + 1, n) \in Seq(S)
         /\ Len(SubSeq(a, m + 1, n)) = IF m <= n THEN n - m ELSE 0
         /\ \A i \in 1..n - m : SubSeq(a, m + 1, n)[i] = a[m + i]
<1>1. \A i \in m + 1..n : a[i] \in S
  <2>1. Len(a) \in Nat /\ \A i \in 1..Len(a) : a[i] \in S
    BY LenProperties
  <2> QED
    BY <2>1
<1>2. m + 1 \in Int /\ n \in Int
  OBVIOUS
<1>3. /\ SubSeq(a, m + 1, n) \in Seq(S)
      /\ Len(SubSeq(a, m + 1, n)) = (IF m + 1 <= n THEN n - (m + 1) + 1 ELSE 0)
      /\ \A i \in 1..n - (m + 1) + 1 : SubSeq(a, m + 1, n)[i] = a[(m + 1) + i - 1]
  BY <1>1, <1>2, SubSeqProperties
<1>4. \A i \in 1..n - m : SubSeq(a, m + 1, n)[i] = a[m + i]
  <2>1. \A i \in 1..n - m : i \in 1..n - (m + 1) + 1 /\ (m + 1) + i - 1 = m + i
    OBVIOUS
  <2> QED
    BY <1>3, <2>1
<1> QED
  BY <1>3, <1>4

\* The end of a sequence, read backwards.
LEMMA EndReversed ==
  ASSUME NEW S, NEW a \in Seq(S), NEW m \in Nat, m <= Len(a)
  PROVE  LET end == Reverse(SubSeq(a, m + 1, Len(a)))
         IN  /\ end \in Seq(S)
             /\ Len(end) = Len(a) - m
             /\ \A i \in 1..Len(a) - m : end[i] = a[Len(a) - i + 1]
<1> DEFINE part == SubSeq(a, m + 1, Len(a))
           end  == Reverse(part)
           l    == Len(a) - m
<1>1. Len(a) \in Nat /\ l \in Nat
  BY LenProperties
<1>2. part \in Seq(S) /\ Len(part) = l /\ \A i \in 1..l : part[i] = a[m + i]
  BY <1>1, PartOf
<1>3. end = [i \in 1..Len(part) |-> part[(Len(part) - i) + 1]]
  BY DEF Reverse
<1> HIDE DEF part, end
<1>4. \A i \in 1..l : (l - i) + 1 \in 1..l /\ part[(l - i) + 1] \in S
  <2>1. \A i \in 1..l : (l - i) + 1 \in 1..l
    BY <1>1
  <2> HIDE DEF l
  <2> QED
    BY <1>2, <2>1
<1>5. ASSUME NEW i \in 1..l PROVE end[i] = a[Len(a) - i + 1]
  <2>1. m + ((l - i) + 1) = Len(a) - i + 1
    BY <1>1
  <2>2. end[i] = part[(l - i) + 1]
    <3> HIDE DEF l
    <3> QED BY <1>2, <1>3
  <2>3. part[(l - i) + 1] = a[m + ((l - i) + 1)]
    <3> HIDE DEF l
    <3> QED BY <1>2, <1>4
  <2> QED
    BY <2>1, <2>2, <2>3
<1> HIDE DEF l
<1>6. end \in Seq(S) /\ Len(end) = l
  BY <1>1, <1>2, <1>3, <1>4
<1> QED
  BY <1>5, <1>6 DEF l, end, part

\* What the edit keeps of both texts: a beginning and an end, which do not
\* overlap in either.
Keeps(a, b, p, s) ==
  /\ p \in Nat /\ s \in Nat
  /\ p + s <= Len(a) /\ p + s <= Len(b)
  /\ \A i \in 1..p : a[i] = b[i]
  /\ \A i \in 1..s : a[Len(a) - i + 1] = b[Len(b) - i + 1]

LEMMA DiffKeeps ==
  ASSUME NEW S, NEW a \in Seq(S), NEW b \in Seq(S)
  PROVE  Keeps(a, b, CommonPrefix(a, b), CommonSuffix(a, b, CommonPrefix(a, b)))
<1> DEFINE p == CommonPrefix(a, b)
           s == CommonSuffix(a, b, p)
           endA == Reverse(SubSeq(a, p + 1, Len(a)))
           endB == Reverse(SubSeq(b, p + 1, Len(b)))
<1>1. Len(a) \in Nat /\ Len(b) \in Nat
  BY LenProperties
<1>2. p \in Nat /\ p <= Len(a) /\ p <= Len(b) /\ \A i \in 1..p : a[i] = b[i]
  BY CommonPrefixIs DEF Agree
<1>3. s = CommonPrefix(endA, endB)
  BY DEF CommonSuffix
<1> HIDE DEF p
<1>4. /\ endA \in Seq(S) /\ Len(endA) = Len(a) - p
      /\ \A i \in 1..Len(a) - p : endA[i] = a[Len(a) - i + 1]
  BY <1>2, EndReversed
<1>5. /\ endB \in Seq(S) /\ Len(endB) = Len(b) - p
      /\ \A i \in 1..Len(b) - p : endB[i] = b[Len(b) - i + 1]
  BY <1>2, EndReversed
<1> HIDE DEF s, endA, endB
<1>6. s \in Nat /\ Agree(endA, endB, s)
  BY <1>3, <1>4, <1>5, CommonPrefixIs
<1>7. p + s <= Len(a) /\ p + s <= Len(b)
  BY <1>1, <1>2, <1>4, <1>5, <1>6 DEF Agree
<1>8. ASSUME NEW i \in 1..s PROVE a[Len(a) - i + 1] = b[Len(b) - i + 1]
  <2>1. i \in 1..Len(a) - p /\ i \in 1..Len(b) - p
    BY <1>1, <1>2, <1>6, <1>7
  <2> QED
    BY <1>4, <1>5, <1>6, <2>1 DEF Agree
<1>9. Keeps(a, b, p, s)
  BY <1>2, <1>6, <1>7, <1>8 DEF Keeps
<1> QED
  BY <1>9 DEF p, s

--------------------------------------------------------------------------------
(***************************************************************************)
(* The operations of an edit.                                              *)
(***************************************************************************)

\* What new is: the deletes of what the edit from elements to next does not
\* keep, and a chain of inserts after the last element that the beginning keeps.
EditOperations(new, client, counter, clock, elements, next, p, s) ==
  LET deletes == Len(elements) - s - p
      inserts == Len(next) - s - p
  IN  /\ Keeps(Values(elements), next, p, s)
      /\ new \in Seq(ToSet(new))
      /\ DOMAIN new = 1..deletes + inserts
      /\ Len(new) = deletes + inserts
      /\ \A i \in 1..deletes + inserts :
           new[i].id = <<client, counter + i - 1>> /\ new[i].lamport = clock + i
      /\ \A i \in 1..deletes : new[i].kind = "delete" /\ new[i].ref = elements[p + i].id
      /\ \A i \in 1..inserts :
           /\ new[deletes + i].kind = "insert"
           /\ new[deletes + i].value = next[p + i]
           /\ new[deletes + i].ref = IF i = 1 THEN IF p = 0 THEN Root ELSE elements[p].id
                                     ELSE new[deletes + i - 1].id

LEMMA EditOperationsAre ==
  ASSUME NEW N, NEW elements \in Seq(N), NEW V, NEW next \in Seq(V),
         NEW client, NEW counter \in Nat, NEW clock \in Nat
  PROVE  LET new == OperationsOfEdit(client, counter, clock, ComputeLocalTextEdit(elements, next))
         IN  \E p, s : EditOperations(new, client, counter, clock, elements, next, p, s)
<1> DEFINE current == Values(elements)
           p == CommonPrefix(current, next)
           s == CommonSuffix(current, next, p)
           ids == [i \in DOMAIN elements |-> elements[i].id]
           edit == ComputeLocalTextEdit(elements, next)
           new == OperationsOfEdit(client, counter, clock, edit)
           S == V \cup {e.value : e \in N}
           I == {e.id : e \in N}
<1>1. /\ Len(elements) \in Nat /\ DOMAIN elements = 1..Len(elements)
      /\ \A i \in 1..Len(elements) : elements[i] \in N
      /\ Len(next) \in Nat
  BY LenProperties
<1>2. current \in Seq(S) /\ Len(current) = Len(elements)
  BY <1>1 DEF Values
<1>3. next \in Seq(S)
  BY SeqSubset
<1>4. ids \in Seq(I) /\ Len(ids) = Len(elements) /\ \A i \in 1..Len(elements) : ids[i] = elements[i].id
  BY <1>1
<1>5. edit = [deleteTargetIds |-> SubSeq(ids, p + 1, Len(current) - s),
              insertAfterId   |-> IF p = 0 THEN Root ELSE elements[p].id,
              insertValues    |-> SubSeq(next, p + 1, Len(next) - s)]
  BY DEF ComputeLocalTextEdit
<1> HIDE DEF current, ids, edit
<1>6. Keeps(current, next, p, s)
  <2> HIDE DEF S
  <2> QED
    BY <1>2, <1>3, DiffKeeps
<1> HIDE DEF p, s
<1> DEFINE deletes == Len(elements) - s - p
           inserts == Len(next) - s - p
<1>7. /\ p \in Nat /\ s \in Nat /\ deletes \in Nat /\ inserts \in Nat
      /\ Len(elements) - s \in Nat /\ Len(next) - s \in Nat
  BY <1>1, <1>2, <1>6 DEF Keeps
<1>8. /\ Len(edit.deleteTargetIds) = deletes
      /\ \A i \in 1..deletes : edit.deleteTargetIds[i] = elements[p + i].id
  <2> DEFINE q == Len(elements) - s
  <2>1. q \in Nat /\ q <= Len(ids) /\ (p <= q <=> p + s <= Len(elements)) /\ q - p = deletes
    BY <1>1, <1>4, <1>7
  <2>2. p <= q
    BY <1>1, <1>7
  <2> HIDE DEF q
  <2>3. /\ Len(SubSeq(ids, p + 1, q)) = q - p
        /\ \A i \in 1..q - p : SubSeq(ids, p + 1, q)[i] = ids[p + i]
    BY <1>4, <1>7, <2>1, <2>2, PartOf
  <2>4. edit.deleteTargetIds = SubSeq(ids, p + 1, q)
    BY <1>2, <1>5 DEF q
  <2>5. \A i \in 1..deletes : p + i \in 1..Len(elements)
    BY <1>1, <1>7
  <2> HIDE DEF deletes
  <2> QED
    BY <1>4, <2>1, <2>3, <2>4, <2>5
<1>9. /\ Len(edit.insertValues) = inserts
      /\ \A i \in 1..inserts : edit.insertValues[i] = next[p + i]
  <2> DEFINE q == Len(next) - s
  <2>1. q \in Nat /\ q <= Len(next) /\ p <= q /\ q - p = inserts
    BY <1>1, <1>7
  <2> HIDE DEF q
  <2>2. /\ Len(SubSeq(next, p + 1, q)) = q - p
        /\ \A i \in 1..q - p : SubSeq(next, p + 1, q)[i] = next[p + i]
    BY <1>7, <2>1, PartOf
  <2>3. edit.insertValues = SubSeq(next, p + 1, q)
    BY <1>5 DEF q
  <2> HIDE DEF inserts
  <2> QED
    BY <2>1, <2>2, <2>3
<1>10. edit.insertAfterId = IF p = 0 THEN Root ELSE elements[p].id
  BY <1>5
<1> HIDE DEF deletes, inserts
<1> DEFINE Id(i) == <<client, counter + i - 1>>
<1>11. new = [i \in 1..deletes + inserts |->
                IF i <= deletes
                THEN Delete(Id(i), clock + i, edit.deleteTargetIds[i])
                ELSE Insert(Id(i), clock + i,
                       IF i = deletes + 1 THEN edit.insertAfterId ELSE Id(i - 1),
                       edit.insertValues[i - deletes])]
  BY <1>8, <1>9 DEF OperationsOfEdit, EditSize
<1> HIDE DEF new
<1>12. DOMAIN new = 1..deletes + inserts /\ Len(new) = deletes + inserts
  <2>1. deletes + inserts \in Nat
    BY <1>7
  <2> QED
    BY <1>11, <2>1
<1>13. \A i \in 1..deletes + inserts : new[i].id = Id(i) /\ new[i].lamport = clock + i
  BY <1>11 DEF Delete, Insert
<1>14. ASSUME NEW i \in 1..deletes PROVE new[i].kind = "delete" /\ new[i].ref = elements[p + i].id
  <2>1. i \in 1..deletes + inserts /\ i <= deletes
    BY <1>7
  <2>2. new[i] = Delete(Id(i), clock + i, edit.deleteTargetIds[i])
    BY <1>11, <2>1
  <2> QED
    BY <1>8, <2>2 DEF Delete
<1>15. ASSUME NEW i \in 1..inserts
       PROVE  /\ new[deletes + i].kind = "insert"
              /\ new[deletes + i].value = next[p + i]
              /\ new[deletes + i].ref = IF i = 1 THEN IF p = 0 THEN Root ELSE elements[p].id
                                        ELSE new[deletes + i - 1].id
  <2> DEFINE k == deletes + i
  <2>1. k \in 1..deletes + inserts /\ ~(k <= deletes) /\ (k = deletes + 1 <=> i = 1) /\ k - deletes = i
        /\ (i # 1 => k - 1 \in 1..deletes + inserts)
    BY <1>7
  <2> HIDE DEF k
  <2>2. new[k] = Insert(Id(k), clock + k,
                   IF k = deletes + 1 THEN edit.insertAfterId ELSE Id(k - 1),
                   edit.insertValues[k - deletes])
    BY <1>11, <2>1
  <2>3. i # 1 => new[k - 1].id = Id(k - 1)
    BY <1>13, <2>1
  <2>4. /\ new[k].kind = "insert"
        /\ new[k].value = next[p + i]
        /\ new[k].ref = IF i = 1 THEN IF p = 0 THEN Root ELSE elements[p].id
                        ELSE new[k - 1].id
    <3> HIDE DEF Id
    <3> QED
      BY <1>9, <1>10, <2>1, <2>2, <2>3 DEF Insert
  <2>5. k = deletes + i
    BY DEF k
  <2> HIDE DEF Id, S, I
  <2>6. new[deletes + i].kind = "insert"
    BY <2>4, <2>5
  <2>7. new[deletes + i].value = next[p + i]
    BY <2>4, <2>5
  <2>8. new[deletes + i].ref = IF i = 1 THEN IF p = 0 THEN Root ELSE elements[p].id
                               ELSE new[deletes + i - 1].id
    <3>1. k - 1 = deletes + i - 1
      BY <1>7, <2>5
    <3>2. new[k].ref = new[deletes + i].ref
      BY <2>5
    <3> QED
      BY <2>4, <3>1, <3>2
  <2> QED
    BY <2>6, <2>7, <2>8
<1>16. new \in Seq(ToSet(new))
  <2> DEFINE k == deletes + inserts
             range == {new[i] : i \in 1..k}
  <2>1. k \in Nat
    BY <1>7
  <2>2. ToSet(new) = range
    BY <1>12 DEF ToSet
  <2>3. new = [i \in 1..k |-> new[i]]
    BY <1>11
  <2>4. \A i \in 1..k : new[i] \in range
    OBVIOUS
  <2> HIDE DEF k, range
  <2>5. new \in [1..k -> range]
    BY <2>3, <2>4
  <2> QED
    BY <2>1, <2>2, <2>5
<1>17. EditOperations(new, client, counter, clock, elements, next, p, s)
  <2>1. Keeps(Values(elements), next, p, s)
    BY <1>6 DEF current
  <2> QED
    BY <1>12, <1>13, <1>14, <1>15, <1>16, <2>1 DEF EditOperations, deletes, inserts
<1> QED
  BY <1>17 DEF new, edit

\* Operations that client makes next: with the next counters, stamps above its
\* clock, and references to nodes it has or to what it has just inserted.
Fresh(new, client, counter, clock, count, nodes, V) ==
  /\ IsFiniteSet(new)
  /\ \A x \in new :
       /\ x.kind \in {"insert", "delete"}
       /\ x.id \in Identities /\ x.id[1] = client
       /\ counter <= x.id[2] /\ x.id[2] < counter + count
       /\ x.lamport \in Nat /\ clock < x.lamport /\ x.lamport <= clock + count
       /\ x.ref \in Anchors(nodes) \cup IdsOf(Inserts(new))
       /\ x.kind = "insert" => x.value \in V
  /\ \A x, y \in new : x.id = y.id => x = y
  /\ \A x, y \in new : y.ref = x.id => x.lamport < y.lamport

\* The identities that client has given are below its counter.
Given(made, client, counter) ==
  \A x \in made : x.id \in Identities /\ (x.id[1] = client => x.id[2] < counter)

LEMMA EditIsFresh ==
  ASSUME NEW nodes, NEW elements \in Seq(nodes), NEW V, NEW next \in Seq(V),
         NEW client \in Nat \ {0}, NEW counter \in Nat, NEW clock \in Nat,
         Given(nodes, client, counter),
         NEW new, NEW p, NEW s, EditOperations(new, client, counter, clock, elements, next, p, s)
  PROVE  /\ Fresh(ToSet(new), client, counter, clock, Len(new), nodes, V)
         /\ new \in Seq(ToSet(new))
         /\ Len(new) \in Nat
<1> DEFINE d == Len(elements) - s - p
           n == Len(next) - s - p
<1>1. /\ Len(elements) \in Nat /\ Len(next) \in Nat
      /\ \A i \in 1..Len(elements) : elements[i] \in nodes
      /\ Len(Values(elements)) = Len(elements)
  <2>1. Len(elements) \in Nat /\ DOMAIN elements = 1..Len(elements)
    BY LenProperties
  <2>2. Len(Values(elements)) = Len(elements)
    BY <2>1 DEF Values
  <2> QED
    BY <2>1, <2>2, LenProperties
<1>2. p \in Nat /\ s \in Nat /\ d \in Nat /\ n \in Nat /\ \A i \in 1..d : p + i \in 1..Len(elements)
  <2>1. Keeps(Values(elements), next, p, s)
    BY DEF EditOperations
  <2> QED
    BY <1>1, <2>1 DEF Keeps
<1>3. p # 0 => p \in 1..Len(elements)
  BY <1>1, <1>2
<1>4. /\ DOMAIN new = 1..d + n /\ Len(new) = d + n
      /\ \A i \in 1..d + n :
           new[i].id = <<client, counter + i - 1>> /\ new[i].lamport = clock + i
      /\ \A i \in 1..d : new[i].kind = "delete" /\ new[i].ref = elements[p + i].id
      /\ \A i \in 1..n :
           /\ new[d + i].kind = "insert"
           /\ new[d + i].value = next[p + i]
           /\ new[d + i].ref = IF i = 1 THEN IF p = 0 THEN Root ELSE elements[p].id
                               ELSE new[d + i - 1].id
  BY DEF EditOperations
<1> HIDE DEF d, n
<1>5. d + n \in Nat /\ ToSet(new) = {new[i] : i \in 1..d + n}
  BY <1>2, <1>4 DEF ToSet
<1>6. new \in Seq(ToSet(new))
  BY DEF EditOperations
<1>7. \A i \in 1..d + n : new[i].ref \in Anchors(nodes) \/ \E j \in 1..d + n : i # j /\ new[j].kind = "insert" /\ j < i /\ new[i].ref = new[j].id
  <2> TAKE i \in 1..d + n
  <2>1. CASE i \in 1..d
    <3>1. new[i].ref = elements[p + i].id
      BY <1>4, <2>1
    <3>2. elements[p + i] \in nodes
      BY <1>1, <1>2, <2>1
    <3> QED
      BY <3>1, <3>2 DEF Anchors, IdsOf
  <2>2. CASE i \notin 1..d
    <3> DEFINE k == i - d
    <3>1. k \in 1..n /\ i = d + k
      BY <1>2, <2>2
    <3> HIDE DEF k
    <3>2. CASE k = 1
      <4>1. new[i].ref = IF p = 0 THEN Root ELSE elements[p].id
        BY <1>4, <3>1, <3>2
      <4> QED
        BY <1>1, <1>3, <4>1 DEF Anchors, IdsOf
    <3>3. CASE k # 1
      <4> DEFINE j == d + (k - 1)
      <4>1. k - 1 \in 1..n /\ j \in 1..d + n /\ j < i /\ i # j /\ j = d + k - 1
        BY <1>2, <3>1, <3>3
      <4>2. new[j].kind = "insert"
        BY <1>4, <4>1
      <4> HIDE DEF j
      <4>3. new[i].ref = new[j].id
        BY <1>4, <3>1, <3>3, <4>1
      <4> QED
        BY <4>1, <4>2, <4>3
    <3> QED
      BY <3>2, <3>3
  <2> QED
    BY <2>1, <2>2
<1>8. \A i, j \in 1..d + n : new[i].id = new[j].id => i = j
  <2> TAKE i, j \in 1..d + n
  <2>1. HAVE new[i].id = new[j].id
  <2>2. counter + i - 1 = counter + j - 1
    BY <1>4, <2>1
  <2> QED
    BY <1>5, <2>2
<1>9. \A i \in 1..d + n : new[i].id \notin Anchors(nodes)
  <2> TAKE i \in 1..d + n
  <2>1. new[i].id = <<client, counter + i - 1>>
    BY <1>4
  <2>2. new[i].id # Root
    BY <2>1 DEF Root
  <2>3. ASSUME NEW e \in nodes, e.id = new[i].id PROVE FALSE
    <3>1. e.id[1] = client /\ e.id[2] = counter + i - 1
      BY <2>1, <2>3
    <3>2. e.id[2] < counter
      BY <3>1 DEF Given
    <3> QED
      BY <3>1, <3>2
  <2> QED
    BY <2>2, <2>3 DEF Anchors, IdsOf
<1>10. ASSUME NEW x \in ToSet(new), NEW y \in ToSet(new) PROVE x.id = y.id => x = y
  BY <1>5, <1>8
<1>11. ASSUME NEW x \in ToSet(new), NEW y \in ToSet(new), y.ref = x.id PROVE x.lamport < y.lamport
  <2>1. PICK i \in 1..d + n, j \in 1..d + n : x = new[i] /\ y = new[j]
    BY <1>5
  <2>2. new[j].ref = new[i].id
    BY <1>11, <2>1
  <2>3. i < j
    BY <1>7, <1>8, <1>9, <2>2
  <2>4. x.lamport = clock + i /\ y.lamport = clock + j
    BY <1>4, <2>1
  <2> QED
    BY <2>3, <2>4
<1>12. ASSUME NEW x \in ToSet(new)
       PROVE  /\ x.kind \in {"insert", "delete"}
              /\ x.id \in Identities /\ x.id[1] = client
              /\ counter <= x.id[2] /\ x.id[2] < counter + Len(new)
              /\ x.lamport \in Nat /\ clock < x.lamport /\ x.lamport <= clock + Len(new)
              /\ x.ref \in Anchors(nodes) \cup IdsOf(Inserts(ToSet(new)))
              /\ x.kind = "insert" => x.value \in V
  <2>1. PICK i \in 1..d + n : x = new[i]
    BY <1>5
  <2>2. x.kind \in {"insert", "delete"}
    <3>1. CASE i \in 1..d
      BY <1>4, <2>1, <3>1
    <3>2. CASE i \notin 1..d
      <4>1. i - d \in 1..n /\ i = d + (i - d)
        BY <1>2, <3>2
      <4> QED
        BY <1>4, <2>1, <4>1
    <3> QED
      BY <3>1, <3>2
  <2>3. x.id = <<client, counter + i - 1>> /\ x.lamport = clock + i
    BY <1>4, <2>1
  <2>4. counter + i - 1 \in Nat /\ counter <= counter + i - 1 /\ counter + i - 1 < counter + Len(new)
    BY <1>4, <1>5
  <2>5. x.ref \in Anchors(nodes) \cup IdsOf(Inserts(ToSet(new)))
    BY <1>5, <1>7, <2>1 DEF IdsOf, Inserts
  <2>6. x.lamport \in Nat /\ clock < x.lamport /\ x.lamport <= clock + Len(new)
    BY <1>4, <1>5, <2>3
  <2>7. x.id \in Identities /\ x.id[1] = client /\ x.id[2] = counter + i - 1
    BY <2>3, <2>4 DEF Identities
  <2>8. x.kind = "insert" => x.value \in V
    <3>1. CASE i \in 1..d
      BY <1>4, <2>1, <3>1
    <3>2. CASE i \notin 1..d
      <4>1. i - d \in 1..n /\ i = d + (i - d) /\ p + (i - d) \in 1..Len(next)
        BY <1>1, <1>2, <3>2 DEF n
      <4>2. x.value = next[p + (i - d)]
        BY <1>4, <2>1, <4>1
      <4>3. next[p + (i - d)] \in V
        BY <4>1, LenProperties
      <4> QED
        BY <4>2, <4>3
    <3> QED
      BY <3>1, <3>2
  <2> QED
    BY <2>2, <2>4, <2>5, <2>6, <2>7, <2>8
<1>13. IsFiniteSet(ToSet(new))
  <2>1. IsFiniteSet(DOMAIN new)
    BY <1>4, <1>5, FS_Interval
  <2> QED
    BY <2>1, FiniteRange DEF ToSet
<1>14. Fresh(ToSet(new), client, counter, clock, Len(new), nodes, V)
  BY <1>10, <1>11, <1>12, <1>13 DEF Fresh
<1> QED
  BY <1>4, <1>5, <1>6, <1>14

LEMMA FreshIsLawful ==
  ASSUME NEW all, Lawful(all), NEW nodes \in SUBSET Inserts(all),
         NEW client \in Nat \ {0}, NEW counter \in Nat, NEW clock \in Nat, NEW count \in Nat,
         Given(all, client, counter),
         \A x \in all : x.ref \in Anchors(Inserts(all)),
         \A e \in nodes : e.lamport <= clock,
         NEW new, NEW V, Fresh(new, client, counter, clock, count, nodes, V)
  PROVE  Lawful(all \cup new)
<1>1. IsFiniteSet(all \cup new)
  BY FS_Union DEF Lawful, Fresh
<1>2. ASSUME NEW x \in all \cup new
      PROVE  x.kind \in {"insert", "delete"} /\ x.id \in Identities /\ x.lamport \in Nat
  BY DEF Lawful, Fresh
<1>3. ASSUME NEW x \in all, NEW y \in new, x.id = y.id PROVE FALSE
  <2>1. x.id[1] = client => x.id[2] < counter
    BY DEF Given
  <2>2. x.id[2] \in Nat
    BY <1>2 DEF Identities
  <2>3. y.id[1] = client /\ counter <= y.id[2]
    BY DEF Fresh
  <2> QED
    BY <1>3, <2>1, <2>2, <2>3
<1>4. ASSUME NEW x \in all \cup new, NEW y \in all \cup new, x.id = y.id PROVE x = y
  BY <1>3, <1>4 DEF Lawful, Fresh
<1>5. ASSUME NEW a \in Inserts(all \cup new), NEW b \in Inserts(all \cup new), b.ref = a.id
      PROVE  a.lamport < b.lamport
  <2>0. a.id # Root
    BY <1>2, RootIsNoIdentity DEF Inserts
  <2>1. CASE a \in all /\ b \in all
    BY <1>5, <2>1 DEF Lawful, Inserts
  <2>2. CASE a \in new /\ b \in all
    <3>1. PICK e \in all : e.id = a.id
      BY <1>5, <2>0, <2>2 DEF Anchors, IdsOf, Inserts
    <3> QED
      BY <1>3, <2>2, <3>1
  <2>3. CASE a \in all /\ b \in new
    <3>1. b.ref \in Anchors(nodes) \cup IdsOf(Inserts(new)) /\ clock < b.lamport /\ b.lamport \in Nat
      BY <2>3 DEF Fresh
    <3>2. a.id \notin IdsOf(Inserts(new))
      BY <1>3, <2>3 DEF IdsOf, Inserts
    <3>3. PICK e \in nodes : e.id = a.id
      BY <1>5, <2>0, <3>1, <3>2 DEF Anchors, IdsOf
    <3>4. e \in all
      BY DEF Inserts
    <3>5. e = a
      BY <1>4, <2>3, <3>3, <3>4
    <3>6. a.lamport <= clock /\ a.lamport \in Nat
      BY <1>2, <2>3, <3>5
    <3> QED
      BY <3>1, <3>6
  <2>4. CASE a \in new /\ b \in new
    BY <1>5, <2>4 DEF Fresh
  <2> QED
    BY <2>1, <2>2, <2>3, <2>4 DEF Inserts
<1> QED
  BY <1>1, <1>2, <1>4, <1>5 DEF Lawful
=================================================================================
