---------------------------- MODULE TimelineProofs ----------------------------
(***************************************************************************)
(* What TimelineMachine keeps for any timeline that is opened, any places  *)
(* and lengths and any bounds.  Most of it is about the operators edits    *)
(* are built from: what is in a sequence that has been filtered, taken     *)
(* apart or sorted.  Where recursion stands behind one of them, it is      *)
(* given by a CHOOSE, so that a function with that recursion exists is the *)
(* first thing to prove of it.                                             *)
(***************************************************************************)
EXTENDS TimelineMachine, SequenceTheorems, FiniteSetTheorems, WellFoundedInduction, TLAPS

-----------------------------------------------------------------------------
(* Numbers *)

\* Among some numbers one is the least.
LEMMA LeastNumber ==
  ASSUME NEW A \in SUBSET Nat, A # {}
  PROVE  \E x \in A : \A y \in A : x <= y
<1> DEFINE R == OpToRel(<, Nat)
<1>1. IsWellFoundedOn(R, Nat)
  BY NatLessThanWellFounded
<1>2. \A x, y \in Nat : x < y => <<x, y>> \in R
  BY DEF OpToRel
<1> HIDE DEF R
<1>3. PICK x \in A : \A y \in A : ~ (<<y, x>> \in R)
  BY <1>1, WFMin
<1>4. ASSUME NEW y \in A PROVE x <= y
  <2>1. x \in Nat /\ y \in Nat /\ <<y, x>> \notin R
    BY <1>3
  <2>2. ~ (y < x)
    BY <1>2, <2>1
  <2> QED
    BY <2>1, <2>2
<1> QED
  BY <1>4

\* What holds of 0, and of each number up to n if of the one before it, holds of all up to
\* n: T are those of which it holds.
LEMMA UpToInduction ==
  ASSUME NEW n \in Nat, NEW T, 0 \in T, \A k \in 1..n : k - 1 \in T => k \in T
  PROVE  \A k \in 0..n : k \in T
<1> DEFINE Bad == { k \in 0..n : k \notin T }
<1>1. SUFFICES ASSUME Bad # {} PROVE FALSE
  OBVIOUS
<1>2. PICK k \in Bad : \A j \in Bad : k <= j
  <2>1. Bad \in SUBSET Nat
    OBVIOUS
  <2> HIDE DEF Bad
  <2> QED
    BY <1>1, <2>1, LeastNumber
<1>3. k \in 1..n /\ k - 1 \in 0..n
  BY <1>2
<1>4. k - 1 \notin T
  BY <1>2, <1>3
<1>5. k - 1 \in Bad /\ ~ (k <= k - 1)
  BY <1>3, <1>4
<1> QED
  BY <1>2, <1>5

\* Ranges from 1 on are the same only with the same end.
LEMMA SameBounds ==
  ASSUME NEW m \in Nat, NEW n \in Nat, 1..m = 1..n
  PROVE  m = n
<1>1. m < n => n \in 1..n /\ n \notin 1..m
  OBVIOUS
<1>2. n < m => m \in 1..m /\ m \notin 1..n
  OBVIOUS
<1> QED
  BY <1>1, <1>2

\* A finite set of numbers that is not empty has a greatest and a least.
LEMMA MaxIsMember ==
  ASSUME NEW A \in SUBSET Int, IsFiniteSet(A), A # {}
  PROVE  Max(A) \in A /\ \A x \in A : x <= Max(A)
<1> DEFINE N == { Cardinality({ y \in A : x <= y }) : x \in A }
<1>0. \A y \in A : y \in Int
  OBVIOUS
<1>1. \A x \in A : IsFiniteSet({ y \in A : x <= y })
  BY FS_Subset
<1>2. N \in SUBSET Nat /\ N # {}
  BY <1>1, FS_CardinalityType
<1>3. PICK n \in N : \A m \in N : n <= m
  <2> HIDE DEF N
  <2> QED
    BY <1>2, LeastNumber
<1>4. PICK x \in A : n = Cardinality({ y \in A : x <= y })
  BY <1>3
<1>5. ASSUME NEW z \in A PROVE z <= x
  <2>0. SUFFICES ASSUME ~ (z <= x) PROVE FALSE
    OBVIOUS
  <2> DEFINE S == { y \in A : x <= y }
             T == { y \in A : z <= y }
  <2>1. T \in SUBSET S /\ x \in S /\ x \notin T
    <3>1. x \in Int /\ z \in Int
      BY <1>0
    <3>2. \A y \in A : z <= y => x <= y
      BY <1>0, <2>0, <3>1
    <3>3. ~ (z <= x) /\ x <= x
      BY <2>0, <3>1
    <3>4. T \subseteq S
      BY <3>2
    <3> QED
      BY <3>3, <3>4
  <2>2. IsFiniteSet(S) /\ IsFiniteSet(T)
    BY <1>1
  <2>3. Cardinality(T) <= Cardinality(S) /\ (Cardinality(S) = Cardinality(T) => S = T)
    <3> HIDE DEF S, T
    <3> QED
      BY <2>1, <2>2, FS_Subset
  <2>4. Cardinality(S) \in Nat /\ Cardinality(T) \in Nat
    BY <2>2, FS_CardinalityType
  <2>5. n = Cardinality(S) /\ n <= Cardinality(T)
    BY <1>3, <1>4
  <2> HIDE DEF S, T
  <2> QED
    BY <2>1, <2>3, <2>4, <2>5
<1>6. Max(A) \in A /\ \A y \in A : Max(A) >= y
  BY <1>5 DEF Max
<1> QED
  BY <1>6

\* The values of a function on a finite set are finitely many.
LEMMA ImageIsFinite ==
  ASSUME NEW S, IsFiniteSet(S), NEW f, DOMAIN f = S
  PROVE  IsFiniteSet({ f[x] : x \in S })
<1> DEFINE T == { f[x] : x \in S }
           g == [x \in S |-> f[x]]
<1>1. g \in [S -> T] /\ \A y \in T : \E x \in S : g[x] = y
  OBVIOUS
<1>2. g \in Surjection(S, T)
  <2> HIDE DEF g, T
  <2> QED
    BY <1>1 DEF Surjection
<1> HIDE DEF g, T
<1>3. IsFiniteSet(T)
  BY <1>2, FS_Surjection
<1> QED
  BY <1>3 DEF T

\* The least of finitely many numbers is one of them.
LEMMA MinIsMember ==
  ASSUME NEW A \in SUBSET Int, IsFiniteSet(A), A # {}
  PROVE  Min(A) \in A /\ \A x \in A : Min(A) <= x
<1> DEFINE B == { 0 - x : x \in A }
<1>0. \A x \in A : x \in Int
  OBVIOUS
<1>1. B \in SUBSET Int /\ B # {}
  <2>1. \A x \in A : 0 - x \in Int
    BY <1>0
  <2> QED
    BY <2>1
<1>2. IsFiniteSet(B)
  <2> DEFINE f == [x \in A |-> 0 - x]
  <2>1. DOMAIN f = A /\ { f[x] : x \in A } = B
    OBVIOUS
  <2> HIDE DEF f, B
  <2> QED
    BY <2>1, ImageIsFinite
<1>3. Max(B) \in B /\ \A x \in B : x <= Max(B)
  <2> HIDE DEF B
  <2> QED
    BY <1>1, <1>2, MaxIsMember
<1>4. PICK a \in A : Max(B) = 0 - a
  BY <1>3
<1>5. ASSUME NEW x \in A PROVE a <= x
  <2>1. 0 - x \in B
    OBVIOUS
  <2>2. 0 - x <= 0 - a
    BY <1>3, <1>4, <2>1
  <2> QED
    BY <1>0, <2>2
<1>6. Min(A) \in A /\ \A y \in A : Min(A) <= y
  BY <1>5 DEF Min
<1> QED
  BY <1>6

\* A rank among a finite set of numbers is a number.
LEMMA RankIsNumber ==
  ASSUME NEW ids, IsFiniteSet(ids), NEW id
  PROVE  Rank(id, ids) \in Nat
BY FS_Subset, FS_CardinalityType DEF Rank

-----------------------------------------------------------------------------
(* Recursion over a sequence *)

\* r begins with b, and G takes the value before and the number to the next value.
Recurs(r, b, G, n) == r[0] = b /\ \A k \in 1..n : r[k] = G[<<r[k - 1], k>>]

\* A recursion over the numbers up to n has a solution.
LEMMA Recursion ==
  ASSUME NEW n \in Nat, NEW S, NEW b \in S, NEW G \in [S \X (1..n) -> S]
  PROVE  \E r \in [0..n -> S] : Recurs(r, b, G, n)
<1> DEFINE Solves(r, k) == Recurs(r, b, G, k)
           T == { k \in 0..n : \E r \in [0..k -> S] : Solves(r, k) }
<1> USE DEF Recurs
<1>1. 0 \in T
  <2> DEFINE r == [j \in 0..0 |-> b]
  <2>1. r \in [0..0 -> S]
    OBVIOUS
  <2>2. Solves(r, 0)
    OBVIOUS
  <2>3. \E q \in [0..0 -> S] : Solves(q, 0)
    <3> HIDE DEF Solves, r
    <3> QED
      BY <2>1, <2>2
  <2> HIDE DEF Solves
  <2> QED
    BY <2>3
<1>2. ASSUME NEW k \in 1..n, k - 1 \in T PROVE k \in T
  <2>1. PICK r \in [0..(k - 1) -> S] : Solves(r, k - 1)
    BY <1>2
  <2> DEFINE v == G[<<r[k - 1], k>>]
             q == [j \in 0..k |-> IF j = k THEN v ELSE r[j]]
  <2>2. v \in S
    OBVIOUS
  <2> HIDE DEF v
  <2>3. q \in [0..k -> S]
    BY <2>2
  <2>4. \A j \in 0..(k - 1) : q[j] = r[j]
    OBVIOUS
  <2>5. q[k] = G[<<q[k - 1], k>>]
    <3>1. q[k] = v
      OBVIOUS
    <3>2. k - 1 \in 0..(k - 1)
      OBVIOUS
    <3>3. q[k - 1] = r[k - 1]
      BY <2>4, <3>2
    <3> HIDE DEF q
    <3> QED
      BY <3>1, <3>3 DEF v
  <2>6. ASSUME NEW j \in 1..k PROVE q[j] = G[<<q[j - 1], j>>]
    <3>1. CASE j = k
      BY <2>5, <3>1
    <3>2. CASE j # k
      <4>1. j \in 1..(k - 1) /\ j \in 0..(k - 1) /\ j - 1 \in 0..(k - 1)
        BY <3>2
      <4>2. r[j] = G[<<r[j - 1], j>>]
        BY <2>1, <4>1
      <4> HIDE DEF q
      <4> QED
        BY <2>4, <4>1, <4>2
    <3> QED
      BY <3>1, <3>2
  <2>7. q[0] = b
    BY <2>1
  <2> HIDE DEF q
  <2> QED
    BY <2>3, <2>6, <2>7
<1>3. \A k \in 0..n : k \in T
  <2> HIDE DEF T
  <2> QED
    BY <1>1, <1>2, UpToInduction
<1>4. n \in T
  <2> HIDE DEF T
  <2> QED
    BY <1>3
<1> QED
  BY <1>4

-----------------------------------------------------------------------------
(* Sequences *)

\* A function on the numbers up to n is a sequence.
LEMMA FunctionIsSeq ==
  ASSUME NEW n \in Nat, NEW S, NEW f \in [1..n -> S]
  PROVE  f \in Seq(S) /\ Len(f) = n /\ DOMAIN f = 1..n
OBVIOUS

\* What a sequence holds.
LEMMA InRange ==
  ASSUME NEW S, NEW s \in Seq(S)
  PROVE  /\ \A x : x \in Range(s) <=> \E i \in 1..Len(s) : s[i] = x
         /\ Range(s) \in SUBSET S
BY DEF Range

\* The partial results of FlattenSeq().
Flattens(f, ss) == f = [i \in 1..Len(ss) |-> IF i = 1 THEN ss[i] ELSE f[i - 1] \o ss[i]]

\* FlattenSeq is the last value of the function its recursion chooses.
LEMMA FlattenChoice ==
  ASSUME NEW ss, Len(ss) # 0
  PROVE  FlattenSeq(ss) = (CHOOSE f : Flattens(f, ss))[Len(ss)]
BY DEF FlattenSeq, Flattens

\* FlattenSeq() holds what is in one of the sequences.
LEMMA FlattenHolds ==
  ASSUME NEW S, NEW ss \in Seq(Seq(S))
  PROVE  /\ FlattenSeq(ss) \in Seq(S)
         /\ \A x : x \in Range(FlattenSeq(ss)) <=> \E i \in 1..Len(ss) : x \in Range(ss[i])
<1> DEFINE n == Len(ss)
<1>0. n \in Nat /\ DOMAIN ss = 1..n /\ \A i \in 1..n : ss[i] \in Seq(S)
  OBVIOUS
<1>1. CASE n = 0
  <2>1. FlattenSeq(ss) = <<>>
    BY <1>1 DEF FlattenSeq
  <2> QED
    BY <1>1, <2>1 DEF Range
<1>2. CASE n # 0
  <2> DEFINE f == CHOOSE g : Flattens(g, ss)
  <2>1. \E g : Flattens(g, ss)
    <3> DEFINE G == [p \in Seq(S) \X (1..n) |-> p[1] \o ss[p[2]]]
    <3>1. G \in [Seq(S) \X (1..n) -> Seq(S)]
      BY <1>0
    <3>2. \A s \in Seq(S), k \in 1..n : G[<<s, k>>] = s \o ss[k]
      OBVIOUS
    <3> HIDE DEF G, n
    <3>0. <<>> \in Seq(S)
      OBVIOUS
    <3>3. PICK r \in [0..n -> Seq(S)] : r[0] = <<>> /\ \A k \in 1..n : r[k] = G[<<r[k - 1], k>>]
      <4> DEFINE U == Seq(S)
      <4>1. <<>> \in U /\ G \in [U \X (1..n) -> U]
        BY <3>0, <3>1
      <4> HIDE DEF U
      <4>2. \E r \in [0..n -> U] : Recurs(r, <<>>, G, n)
        BY <1>0, <4>1, Recursion
      <4> QED
        BY <4>2 DEF U, Recurs
    <3>4. ASSUME NEW k \in 1..n PROVE r[k] = r[k - 1] \o ss[k]
      <4>1. k - 1 \in 0..n
        BY <1>0
      <4>2. r[k - 1] \in Seq(S)
        BY <3>3, <4>1
      <4> QED
        BY <3>2, <3>3, <4>2
    <3>5. r[1] = ss[1]
      <4>1. r[1] = r[0] \o ss[1] /\ ss[1] \in Seq(S)
        <5>1. 1 \in 1..n /\ 1 - 1 = 0
          BY <1>0, <1>2
        <5> QED
          BY <1>0, <3>4, <5>1
      <4> QED
        BY <3>3, <4>1, ConcatEmptySeq
    <3> DEFINE g == [i \in 1..n |-> r[i]]
    <3>6. \A i \in 1..n : g[i] = IF i = 1 THEN ss[i] ELSE g[i - 1] \o ss[i]
      <4> TAKE i \in 1..n
      <4>1. g[i] = r[i]
        OBVIOUS
      <4>2. CASE i = 1
        BY <3>5, <4>1, <4>2
      <4>3. CASE i # 1
        <5>1. i - 1 \in 1..n
          BY <1>0, <4>3
        <5>2. g[i - 1] = r[i - 1]
          BY <5>1
        <5> HIDE DEF g
        <5> QED
          BY <3>4, <4>1, <4>3, <5>2
      <4> QED
        BY <4>2, <4>3
    <3>7. g = [i \in 1..n |-> IF i = 1 THEN ss[i] ELSE g[i - 1] \o ss[i]]
      BY <3>6
    <3> QED
      BY <3>7 DEF Flattens, n
  <2>2. Flattens(f, ss)
    BY <2>1
  <2> HIDE DEF f
  <2>3. \A i \in 1..n : f[i] = IF i = 1 THEN ss[i] ELSE f[i - 1] \o ss[i]
    BY <2>2 DEF Flattens
  <2> DEFINE Good(k) == /\ f[k] \in Seq(S)
                        /\ \A x : x \in Range(f[k]) <=> \E i \in 1..k : x \in Range(ss[i])
             T == { k \in 0..n : k = 0 \/ Good(k) }
  <2>4. ASSUME NEW k \in 1..n, k - 1 \in T PROVE k \in T
    <3>1. CASE k = 1
      <4>1. f[1] = ss[1] /\ 1..1 = {1}
        BY <1>0, <2>3, <3>1
      <4> QED
        BY <1>0, <3>1, <4>1
    <3>2. CASE k # 1
      <4>0. k - 1 \in 1..n
        BY <1>0, <3>2
      <4>1. k - 1 \in 1..n /\ Good(k - 1) /\ f[k] = f[k - 1] \o ss[k]
        <5>1. k - 1 # 0
          BY <4>0
        <5>2. Good(k - 1)
          <6> HIDE DEF Good
          <6> QED
            BY <2>4, <5>1
        <5> QED
          BY <2>3, <3>2, <4>0, <5>2
      <4>2. f[k] \in Seq(S) /\ Range(f[k]) = Range(f[k - 1]) \cup Range(ss[k])
        BY <1>0, <4>1, ConcatProperties, RangeConcatenation
      <4>3. 1..k = (1..(k - 1)) \cup {k}
        BY <1>0, <4>1
      <4>4. \A x : x \in Range(f[k]) <=> \E i \in 1..k : x \in Range(ss[i])
        BY <4>1, <4>2, <4>3
      <4> QED
        <5>1. k \in 0..n
          BY <1>0
        <5>2. Good(k)
          BY <4>2, <4>4
        <5> HIDE DEF Good
        <5> QED
          BY <5>1, <5>2
    <3> QED
      BY <3>1, <3>2
  <2>5. 0 \in T
    BY <1>0
  <2>6. n \in T
    <3> HIDE DEF T, n
    <3>1. \A k \in 1..n : k - 1 \in T => k \in T
      BY <2>4
    <3>2. \A k \in 0..n : k \in T
      BY <1>0, <2>5, <3>1, UpToInduction
    <3> QED
      BY <1>0, <3>2
  <2>7. Good(n)
    BY <1>2, <2>6
  <2>8. FlattenSeq(ss) = f[n]
    BY <1>2, FlattenChoice DEF f
  <2> QED
    BY <2>7, <2>8
<1> QED
  BY <1>1, <1>2

\* What sequences of one element and of none hold.
LEMMA SmallRanges == (\A x : Range(<<x>>) = {x}) /\ Range(<<>>) = {}
BY DEF Range

\* Filters keep what has an id in a set, or what has none.
LEMMA WithHolds ==
  ASSUME NEW S, NEW clips \in Seq(S), NEW ids
  PROVE  /\ With(clips, ids) \in Seq(S)
         /\ Range(With(clips, ids)) = { c \in Range(clips) : c.id \in ids }
<1> DEFINE ss == [i \in DOMAIN clips |-> IF clips[i].id \in ids THEN <<clips[i]>> ELSE <<>>]
<1>1. ss \in Seq(Seq(S)) /\ Len(ss) = Len(clips) /\ Len(clips) \in Nat
  <2>1. DOMAIN clips = 1..Len(clips) /\ Len(clips) \in Nat /\ \A i \in 1..Len(clips) : clips[i] \in S
    OBVIOUS
  <2>2. ss \in [1..Len(clips) -> Seq(S)]
    BY <2>1
  <2> HIDE DEF ss
  <2> QED
    BY <2>1, <2>2, FunctionIsSeq
<1>2. \A i \in 1..Len(clips) : Range(ss[i]) = IF clips[i].id \in ids THEN {clips[i]} ELSE {}
  <2> TAKE i \in 1..Len(clips)
  <2>1. ss[i] = IF clips[i].id \in ids THEN <<clips[i]>> ELSE <<>>
    OBVIOUS
  <2> HIDE DEF ss
  <2> QED
    BY <2>1, SmallRanges
<1> HIDE DEF ss
<1>3. /\ FlattenSeq(ss) \in Seq(S)
      /\ \A x : x \in Range(FlattenSeq(ss)) <=> \E i \in 1..Len(ss) : x \in Range(ss[i])
  BY <1>1, FlattenHolds
<1>4. \A x : x \in Range(clips) <=> \E i \in 1..Len(clips) : clips[i] = x
  BY InRange
<1>5. ASSUME NEW x
      PROVE  x \in Range(FlattenSeq(ss)) <=> x \in Range(clips) /\ x.id \in ids
  <2>1. x \in Range(FlattenSeq(ss)) <=> \E i \in 1..Len(clips) : x \in Range(ss[i])
    BY <1>1, <1>3
  <2>2. \A i \in 1..Len(clips) : x \in Range(ss[i]) <=> clips[i].id \in ids /\ clips[i] = x
    BY <1>2
  <2>3. x \in Range(clips) <=> \E i \in 1..Len(clips) : clips[i] = x
    BY <1>4
  <2> QED
    BY <2>1, <2>2, <2>3
<1>6. With(clips, ids) = FlattenSeq(ss)
  BY DEF With, ss
<1> QED
  BY <1>3, <1>5, <1>6

\* And what is left without them.
LEMMA WithoutHolds ==
  ASSUME NEW S, NEW clips \in Seq(S), NEW ids
  PROVE  /\ Without(clips, ids) \in Seq(S)
         /\ Range(Without(clips, ids)) = { c \in Range(clips) : c.id \notin ids }
<1> DEFINE ss == [i \in DOMAIN clips |-> IF clips[i].id \in ids THEN <<>> ELSE <<clips[i]>>]
<1>1. ss \in Seq(Seq(S)) /\ Len(ss) = Len(clips) /\ Len(clips) \in Nat
  <2>1. DOMAIN clips = 1..Len(clips) /\ Len(clips) \in Nat /\ \A i \in 1..Len(clips) : clips[i] \in S
    OBVIOUS
  <2>2. ss \in [1..Len(clips) -> Seq(S)]
    BY <2>1
  <2> HIDE DEF ss
  <2> QED
    BY <2>1, <2>2, FunctionIsSeq
<1>2. \A i \in 1..Len(clips) : Range(ss[i]) = IF clips[i].id \in ids THEN {} ELSE {clips[i]}
  <2> TAKE i \in 1..Len(clips)
  <2>1. ss[i] = IF clips[i].id \in ids THEN <<>> ELSE <<clips[i]>>
    OBVIOUS
  <2> HIDE DEF ss
  <2> QED
    BY <2>1, SmallRanges
<1> HIDE DEF ss
<1>3. /\ FlattenSeq(ss) \in Seq(S)
      /\ \A x : x \in Range(FlattenSeq(ss)) <=> \E i \in 1..Len(ss) : x \in Range(ss[i])
  BY <1>1, FlattenHolds
<1>4. \A x : x \in Range(clips) <=> \E i \in 1..Len(clips) : clips[i] = x
  BY InRange
<1>5. ASSUME NEW x
      PROVE  x \in Range(FlattenSeq(ss)) <=> x \in Range(clips) /\ x.id \notin ids
  <2>1. x \in Range(FlattenSeq(ss)) <=> \E i \in 1..Len(clips) : x \in Range(ss[i])
    BY <1>1, <1>3
  <2>2. \A i \in 1..Len(clips) : x \in Range(ss[i]) <=> clips[i].id \notin ids /\ clips[i] = x
    BY <1>2
  <2>3. x \in Range(clips) <=> \E i \in 1..Len(clips) : clips[i] = x
    BY <1>4
  <2> QED
    BY <2>1, <2>2, <2>3
<1>6. Without(clips, ids) = FlattenSeq(ss)
  BY DEF Without, ss
<1> QED
  BY <1>3, <1>5, <1>6

-----------------------------------------------------------------------------
(* Sorting *)

\* The elements that come before element i, and itself.
UpToPlace(keys, i) ==
  { j \in DOMAIN keys : keys[j] < keys[i] \/ (keys[j] = keys[i] /\ j <= i) }

\* Every element has a place, and every place an element.
LEMMA PlacesAreTaken ==
  ASSUME NEW n \in Nat, NEW keys \in [1..n -> Int]
  PROVE  /\ \A i \in 1..n : PlaceOf(keys, i) \in 1..n
         /\ \A p \in 1..n : \E i \in 1..n : PlaceOf(keys, i) = p
<1> DEFINE U(i) == UpToPlace(keys, i)
<1>0. \A i \in 1..n : keys[i] \in Int
  OBVIOUS
<1>1. \A i \in 1..n : PlaceOf(keys, i) = Cardinality(U(i))
  BY DEF PlaceOf, UpToPlace
<1>2. IsFiniteSet(1..n) /\ Cardinality(1..n) = n
  BY FS_Interval
<1>3. \A i \in 1..n : i \in U(i) /\ U(i) \in SUBSET (1..n)
  BY <1>0 DEF UpToPlace
<1>4. \A i \in 1..n : IsFiniteSet(U(i)) /\ Cardinality(U(i)) \in Nat /\ Cardinality(U(i)) <= n
  <2> HIDE DEF U
  <2> TAKE i \in 1..n
  <2>1. IsFiniteSet(U(i)) /\ Cardinality(U(i)) <= n
    BY <1>2, <1>3, FS_Subset
  <2> QED
    BY <2>1, FS_CardinalityType
<1>5. \A i \in 1..n : Cardinality(U(i)) # 0
  <2> HIDE DEF U
  <2> QED
    BY <1>3, <1>4, FS_EmptySet
<1>6. \A i \in 1..n : PlaceOf(keys, i) \in 1..n
  <2> HIDE DEF U
  <2> QED
    BY <1>1, <1>4, <1>5
<1>7. ASSUME NEW i \in 1..n, NEW j \in 1..n, i # j
      PROVE  Cardinality(U(i)) # Cardinality(U(j))
  <2>1. \/ U(i) \subseteq U(j) /\ j \notin U(i)
        \/ U(j) \subseteq U(i) /\ i \notin U(j)
    <3>1. CASE keys[i] < keys[j] \/ (keys[i] = keys[j] /\ i < j)
      <4>1. j \notin U(i)
        BY <1>0, <3>1 DEF UpToPlace
      <4>2. ASSUME NEW k \in U(i) PROVE k \in U(j)
        <5>1. k \in 1..n /\ k \in Int /\ keys[k] \in Int /\ keys[i] \in Int /\ keys[j] \in Int
          BY <1>0, <1>3, <4>2
        <5>2. keys[k] < keys[i] \/ (keys[k] = keys[i] /\ k <= i)
          BY <4>2 DEF UpToPlace
        <5>3. keys[k] < keys[j] \/ (keys[k] = keys[j] /\ k <= j)
          BY <3>1, <5>1, <5>2
        <5> QED
          BY <5>1, <5>3 DEF UpToPlace
      <4> QED
        BY <4>1, <4>2
    <3>2. CASE keys[j] < keys[i] \/ (keys[j] = keys[i] /\ j < i)
      <4>1. i \notin U(j)
        BY <1>0, <3>2 DEF UpToPlace
      <4>2. ASSUME NEW k \in U(j) PROVE k \in U(i)
        <5>1. k \in 1..n /\ k \in Int /\ keys[k] \in Int /\ keys[i] \in Int /\ keys[j] \in Int
          BY <1>0, <1>3, <4>2
        <5>2. keys[k] < keys[j] \/ (keys[k] = keys[j] /\ k <= j)
          BY <4>2 DEF UpToPlace
        <5>3. keys[k] < keys[i] \/ (keys[k] = keys[i] /\ k <= i)
          BY <3>2, <5>1, <5>2
        <5> QED
          BY <5>1, <5>3 DEF UpToPlace
      <4> QED
        BY <4>1, <4>2
    <3>3. keys[i] \in Int /\ keys[j] \in Int
      BY <1>0
    <3> QED
      BY <1>7, <3>1, <3>2, <3>3
  <2>2. i \in U(i) /\ j \in U(j) /\ IsFiniteSet(U(i)) /\ IsFiniteSet(U(j))
    BY <1>3, <1>4
  <2> HIDE DEF U
  <2>3. U(i) \subseteq U(j) /\ j \notin U(i) => Cardinality(U(i)) # Cardinality(U(j))
    BY <2>2, FS_Subset
  <2>4. U(j) \subseteq U(i) /\ i \notin U(j) => Cardinality(U(i)) # Cardinality(U(j))
    BY <2>2, FS_Subset
  <2> QED
    BY <2>1, <2>3, <2>4
<1> DEFINE f == [i \in 1..n |-> PlaceOf(keys, i)]
<1>8. f \in [1..n -> 1..n] /\ \A i, j \in 1..n : f[i] = f[j] => i = j
  <2> HIDE DEF U
  <2>1. \A i, j \in 1..n : i # j => PlaceOf(keys, i) # PlaceOf(keys, j)
    BY <1>1, <1>7
  <2> QED
    BY <1>6, <2>1
<1>9. f \in Injection(1..n, 1..n)
  <2> HIDE DEF f
  <2> QED
    BY <1>8 DEF Injection, IsInjective
<1>10. f \in Surjection(1..n, 1..n)
  <2> HIDE DEF f
  <2> QED
    BY <1>2, <1>9, FS_Injection
<1>11. \A p \in 1..n : \E i \in 1..n : f[i] = p
  <2> HIDE DEF f
  <2> QED
    BY <1>10 DEF Surjection
<1> QED
  BY <1>6, <1>11

\* A sorted sequence holds what the sequence held.
LEMMA SortedByHolds ==
  ASSUME NEW S, NEW s \in Seq(S), NEW keys \in [1..Len(s) -> Int]
  PROVE  /\ SortedBy(s, keys) \in Seq(S)
         /\ Len(SortedBy(s, keys)) = Len(s)
         /\ Range(SortedBy(s, keys)) = Range(s)
<1> DEFINE n == Len(s)
           At(p) == CHOOSE i \in 1..n : PlaceOf(keys, i) = p
           r == [p \in 1..n |-> s[At(p)]]
<1>1. n \in Nat /\ DOMAIN s = 1..n /\ \A i \in 1..n : s[i] \in S
  OBVIOUS
<1>2. SortedBy(s, keys) = r
  BY <1>1 DEF SortedBy
<1> HIDE DEF n
<1>3. /\ \A i \in 1..n : PlaceOf(keys, i) \in 1..n
      /\ \A p \in 1..n : \E i \in 1..n : PlaceOf(keys, i) = p
  BY <1>1, PlacesAreTaken DEF n
<1>4. \A p \in 1..n : At(p) \in 1..n /\ PlaceOf(keys, At(p)) = p
  BY <1>3
<1> HIDE DEF At
<1>5. r \in [1..n -> S]
  BY <1>1, <1>4
<1>6. \A p \in 1..n : r[p] = s[At(p)]
  OBVIOUS
<1> HIDE DEF r
<1>7. r \in Seq(S) /\ Len(r) = n
  BY <1>1, <1>5, FunctionIsSeq
<1>8. \A i \in 1..n : \E p \in 1..n : At(p) = i
  <2> DEFINE f == [p \in 1..n |-> At(p)]
  <2>1. IsFiniteSet(1..n)
    BY <1>1, FS_Interval
  <2>2. f \in [1..n -> 1..n] /\ \A p, q \in 1..n : f[p] = f[q] => p = q
    <3>1. \A p, q \in 1..n : At(p) = At(q) => p = q
      BY <1>4
    <3> QED
      BY <1>4, <3>1
  <2> HIDE DEF f
  <2>3. f \in Injection(1..n, 1..n)
    BY <2>2 DEF Injection, IsInjective
  <2>4. f \in Surjection(1..n, 1..n)
    BY <2>1, <2>3, FS_Injection
  <2>5. \A i \in 1..n : \E p \in 1..n : f[p] = i
    BY <2>4 DEF Surjection
  <2> QED
    BY <2>5 DEF f
<1>9. ASSUME NEW x PROVE x \in Range(r) <=> x \in Range(s)
  <2>1. x \in Range(r) <=> \E p \in 1..n : r[p] = x
    BY <1>7, InRange
  <2>2. x \in Range(s) <=> \E i \in 1..n : s[i] = x
    BY InRange DEF n
  <2> QED
    BY <1>4, <1>6, <1>8, <2>1, <2>2
<1> QED
  BY <1>2, <1>7, <1>9 DEF n

-----------------------------------------------------------------------------
(* Clips *)

\* The fields of a clip.
LEMMA ClipFields ==
  ASSUME NEW c \in Clip
  PROVE  /\ c.id \in Int /\ c.source \in Sources /\ c.start \in Int /\ c.end \in Int
         /\ c.trim \in Int /\ c.start <= c.end
BY DEF Clip

\* What the helpers make of a clip is a clip, and which.
LEMMA ShiftedClip ==
  ASSUME NEW c \in Clip, NEW d \in Int
  PROVE  /\ Shifted(c, d) \in Clip
         /\ Shifted(c, d).id = c.id /\ Shifted(c, d).source = c.source
         /\ Shifted(c, d).start = c.start + d /\ Shifted(c, d).end = c.end + d
         /\ Shifted(c, d).trim = c.trim
<1> DEFINE R == [id : Int, source : Sources, start : Int, end : Int, trim : Int]
<1>1. c \in R /\ c.start <= c.end
  BY DEF Clip
<1>2. c.start \in Int /\ c.end \in Int /\ c.trim \in Int
  BY <1>1
<1>3. /\ Shifted(c, d).id = c.id /\ Shifted(c, d).source = c.source /\ Shifted(c, d).start = c.start + d
      /\ Shifted(c, d).end = c.end + d /\ Shifted(c, d).trim = c.trim
  BY <1>1 DEF Shifted
<1>4. Shifted(c, d) \in R
  <2> DEFINE r == [c EXCEPT !.start = c.start + d]
             v == c.end + d
  <2>1. r \in R /\ v \in Int
    BY <1>1, <1>2
  <2>2. Shifted(c, d) = [r EXCEPT !.end = v]
    BY <1>1 DEF Shifted
  <2> HIDE DEF r, v
  <2>3. [r EXCEPT !.end = v] \in R
    BY <2>1
  <2> QED
    BY <2>2, <2>3
<1> QED
  BY <1>1, <1>2, <1>3, <1>4 DEF Clip

\* What is cut off is a clip, up to the cut.
LEMMA CutClip ==
  ASSUME NEW c \in Clip, NEW e \in Int, c.start <= e
  PROVE  /\ Cut(c, e) \in Clip
         /\ Cut(c, e).id = c.id /\ Cut(c, e).source = c.source /\ Cut(c, e).start = c.start
         /\ Cut(c, e).end = e /\ Cut(c, e).trim = c.trim
BY DEF Clip, Cut

\* So is the rest, shown where it was shown.
LEMMA RestClip ==
  ASSUME NEW c \in Clip, NEW s \in Int, s <= c.end
  PROVE  /\ Rest(c, s) \in Clip
         /\ Rest(c, s).id = c.id /\ Rest(c, s).source = c.source /\ Rest(c, s).start = s
         /\ Rest(c, s).end = c.end /\ Rest(c, s).trim = c.trim + s - c.start
<1> DEFINE R == [id : Int, source : Sources, start : Int, end : Int, trim : Int]
<1>1. c \in R /\ c.start <= c.end
  BY DEF Clip
<1>2. c.start \in Int /\ c.end \in Int /\ c.trim \in Int
  BY <1>1
<1>3. /\ Rest(c, s).id = c.id /\ Rest(c, s).source = c.source /\ Rest(c, s).start = s
      /\ Rest(c, s).end = c.end /\ Rest(c, s).trim = c.trim + s - c.start
  BY <1>1 DEF Rest
<1>4. Rest(c, s) \in R
  <2> DEFINE r == [c EXCEPT !.start = s]
             v == c.trim + s - c.start
  <2>1. r \in R /\ v \in Int
    BY <1>1, <1>2
  <2>2. Rest(c, s) = [r EXCEPT !.trim = v]
    BY <1>1 DEF Rest
  <2> HIDE DEF r, v
  <2>3. [r EXCEPT !.trim = v] \in R
    BY <2>1
  <2> QED
    BY <2>2, <2>3
<1> QED
  BY <1>1, <1>2, <1>3, <1>4 DEF Clip

\* A clip with another id.
LEMMA RenamedClip ==
  ASSUME NEW c \in Clip, NEW id \in Int
  PROVE  LET d == [c EXCEPT !.id = id]
         IN  d \in Clip /\ d.id = id /\ d.source = c.source /\ d.start = c.start
             /\ d.end = c.end /\ d.trim = c.trim
BY DEF Clip

\* A clip with another start.
LEMMA StartedClip ==
  ASSUME NEW c \in Clip, NEW s \in Int, s <= c.end
  PROVE  [c EXCEPT !.start = s] \in Clip
BY DEF Clip

\* A clip with another end.
LEMMA EndedClip ==
  ASSUME NEW c \in Clip, NEW e \in Int, c.start <= e
  PROVE  [c EXCEPT !.end = e] \in Clip
BY DEF Clip

\* A clip from s to e.
LEMMA PlacedClip ==
  ASSUME NEW c \in Clip, NEW s \in Int, NEW e \in Int, s <= e
  PROVE  [c EXCEPT !.start = s, !.end = e] \in Clip
<1> DEFINE R == [id : Int, source : Sources, start : Int, end : Int, trim : Int]
           r == [c EXCEPT !.start = s]
           q == [c EXCEPT !.start = s, !.end = e]
<1>1. c \in R
  BY DEF Clip
<1>2. r \in R
  BY <1>1
<1>3. q = [r EXCEPT !.end = e]
  OBVIOUS
<1>4. q.start = s /\ q.end = e
  BY <1>1
<1> HIDE DEF r
<1>5. [r EXCEPT !.end = e] \in R
  BY <1>2
<1> HIDE DEF q
<1>6. q \in Clip
  BY <1>3, <1>4, <1>5 DEF Clip
<1> QED
  BY <1>6 DEF q

\* A new clip is one.
LEMMA NewClipIsClip ==
  ASSUME NEW id \in Int, NEW at \in Int, NEW len \in Nat
  PROVE  NewClip(id, "asset", at, len) \in Clip
BY ClipsAssumption DEF Clip, NewClip

\* The ids, the starts and the ends of a track's clips are finitely many numbers.
LEMMA ClipSetsFinite ==
  ASSUME NEW clips \in Seq(Clip)
  PROVE  /\ IsFiniteSet({ c.id : c \in Range(clips) }) /\ { c.id : c \in Range(clips) } \in SUBSET Int
         /\ IsFiniteSet({ c.start : c \in Range(clips) }) /\ { c.start : c \in Range(clips) } \in SUBSET Int
         /\ IsFiniteSet({ c.end : c \in Range(clips) }) /\ { c.end : c \in Range(clips) } \in SUBSET Int
<1> DEFINE n == Len(clips)
           F == [i \in 1..n |-> clips[i].id]
           G == [i \in 1..n |-> clips[i].start]
           H == [i \in 1..n |-> clips[i].end]
<1>1. n \in Nat /\ \A i \in 1..n : clips[i] \in Clip
  OBVIOUS
<1>2. IsFiniteSet(1..n)
  BY <1>1, FS_Interval
<1>3. \A x : x \in Range(clips) <=> \E i \in 1..n : clips[i] = x
  BY InRange
<1>4. Range(clips) \in SUBSET Clip
  BY InRange
<1> HIDE DEF n
<1>5. /\ { c.id : c \in Range(clips) } = { F[i] : i \in 1..n }
      /\ { c.start : c \in Range(clips) } = { G[i] : i \in 1..n }
      /\ { c.end : c \in Range(clips) } = { H[i] : i \in 1..n }
  BY <1>3
<1>6. DOMAIN F = 1..n /\ DOMAIN G = 1..n /\ DOMAIN H = 1..n
  OBVIOUS
<1> HIDE DEF F, G, H
<1>7. /\ IsFiniteSet({ F[i] : i \in 1..n }) /\ IsFiniteSet({ G[i] : i \in 1..n })
      /\ IsFiniteSet({ H[i] : i \in 1..n })
  BY <1>2, <1>6, ImageIsFinite
<1>8. \A c \in Range(clips) : c.id \in Int /\ c.start \in Int /\ c.end \in Int
  BY <1>4, ClipFields
<1> QED
  BY <1>5, <1>7, <1>8

\* No clip starts before the earliest start.
LEMMA EarliestIsStart ==
  ASSUME NEW clips \in Seq(Clip), clips # <<>>
  PROVE  Earliest(clips) \in Int /\ \A c \in Range(clips) : Earliest(clips) <= c.start
<1> DEFINE A == { c.start : c \in Range(clips) }
<1>1. A # {}
  <2>1. Len(clips) \in Nat /\ Len(clips) # 0 /\ 1 \in 1..Len(clips)
    BY EmptySeq
  <2>2. clips[1] \in Range(clips)
    BY <2>1, InRange
  <2> QED
    BY <2>2
<1>2. IsFiniteSet(A) /\ A \in SUBSET Int
  BY ClipSetsFinite
<1>3. \A c \in Range(clips) : c.start \in A
  OBVIOUS
<1>4. Earliest(clips) = Min(A)
  BY DEF Earliest
<1> HIDE DEF A
<1>5. Min(A) \in A /\ \A x \in A : Min(A) <= x
  BY <1>1, <1>2, MinIsMember
<1> QED
  BY <1>2, <1>3, <1>4, <1>5

\* No clip ends after the latest end.
LEMMA LatestIsEnd ==
  ASSUME NEW clips \in Seq(Clip), clips # <<>>
  PROVE  Latest(clips) \in Int /\ \A c \in Range(clips) : c.end <= Latest(clips)
<1> DEFINE A == { c.end : c \in Range(clips) }
<1>1. A # {}
  <2>1. Len(clips) \in Nat /\ Len(clips) # 0 /\ 1 \in 1..Len(clips)
    BY EmptySeq
  <2>2. clips[1] \in Range(clips)
    BY <2>1, InRange
  <2> QED
    BY <2>2
<1>2. IsFiniteSet(A) /\ A \in SUBSET Int
  BY ClipSetsFinite
<1>3. \A c \in Range(clips) : c.end \in A
  OBVIOUS
<1>4. Latest(clips) = Max(A)
  BY DEF Latest
<1> HIDE DEF A
<1>5. Max(A) \in A /\ \A x \in A : x <= Max(A)
  BY <1>1, <1>2, MaxIsMember
<1> QED
  BY <1>2, <1>3, <1>4, <1>5

\* Max() of a number and finitely many others is a number not less than it.
LEMMA MaxWith ==
  ASSUME NEW m \in Int, NEW A \in SUBSET Int, IsFiniteSet(A)
  PROVE  Max({m} \cup A) \in Int /\ m <= Max({m} \cup A) /\ \A x \in A : x <= Max({m} \cup A)
<1>1. IsFiniteSet(A \cup {m})
  BY FS_AddElement
<1>2. A \cup {m} = {m} \cup A
  OBVIOUS
<1> DEFINE B == {m} \cup A
<1>3. B \in SUBSET Int /\ m \in B /\ A \subseteq B /\ IsFiniteSet(B) /\ B # {}
  BY <1>1, <1>2
<1> HIDE DEF B
<1>4. Max(B) \in B /\ \A x \in B : x <= Max(B)
  BY <1>3, MaxIsMember
<1> QED
  BY <1>3, <1>4 DEF B

\* The last id given out is a number.
LEMMA LastIdIsNumber ==
  ASSUME NEW clips \in Seq(Clip), NEW n \in Int
  PROVE  LastId(clips, n) \in Int
BY ClipSetsFinite, MaxWith DEF LastId

-----------------------------------------------------------------------------
(* Tracks *)

\* The fields of a track.
LEMMA TrackFields ==
  ASSUME NEW t \in Track
  PROVE  t.id \in Int /\ t.order \in Int /\ t.locked \in BOOLEAN /\ t.clips \in Seq(Clip)
BY DEF Track

\* The tracks of a timeline.
LEMMA TracksIn ==
  ASSUME NEW tl \in Seq(Track)
  PROVE  /\ Len(tl) \in Nat /\ DOMAIN tl = 1..Len(tl)
         /\ \A i \in 1..Len(tl) : /\ tl[i] \in Track /\ tl[i].id \in Int /\ tl[i].order \in Int
                                  /\ tl[i].clips \in Seq(Clip)
BY TrackFields

\* A track with other clips.
LEMMA ReclippedTrack ==
  ASSUME NEW t \in Track, NEW clips \in Seq(Clip)
  PROVE  LET u == [t EXCEPT !.clips = clips]
         IN  u \in Track /\ u.id = t.id /\ u.order = t.order /\ u.clips = clips
BY DEF Track

\* The tracks' ids and their order.
Outline(tl) == [i \in DOMAIN tl |-> <<tl[i].id, tl[i].order>>]

\* `after` has the tracks of tl, whatever is on them.
SameTracks(tl, after) == after \in Seq(Track) /\ Outline(after) = Outline(tl)

\* Most edits give some tracks other clips.
Reclips(tl, on, E, after) ==
  /\ SameTracks(tl, after) /\ Len(after) = Len(tl)
  /\ \A i \in 1..Len(tl) : after[i].clips = IF tl[i].id \in on THEN E[i] ELSE tl[i].clips
  /\ \A i \in 1..Len(tl) : after[i].id = tl[i].id /\ after[i].locked = tl[i].locked

\* An edit that gives tracks other clips keeps the tracks.
LEMMA ReclippedKeeps ==
  ASSUME NEW tl \in Seq(Track), NEW on, NEW E, NEW after,
         \A i \in 1..Len(tl) : tl[i].id \in on => E[i] \in Seq(Clip),
         after = [i \in DOMAIN tl |-> IF tl[i].id \in on THEN [tl[i] EXCEPT !.clips = E[i]]
                                      ELSE tl[i]]
  PROVE  Reclips(tl, on, E, after)
<1>1. /\ Len(tl) \in Nat /\ DOMAIN tl = 1..Len(tl)
      /\ \A i \in 1..Len(tl) : tl[i] \in Track
  BY TracksIn
<1>2. ASSUME NEW i \in 1..Len(tl)
      PROVE  /\ after[i] \in Track /\ after[i].id = tl[i].id /\ after[i].order = tl[i].order
             /\ after[i].clips = IF tl[i].id \in on THEN E[i] ELSE tl[i].clips
             /\ after[i].locked = tl[i].locked
  <2>1. after[i] = IF tl[i].id \in on THEN [tl[i] EXCEPT !.clips = E[i]] ELSE tl[i]
    BY <1>1
  <2>2. CASE tl[i].id \in on
    <3>1. E[i] \in Seq(Clip) /\ tl[i] \in Track
      BY <1>1, <2>2
    <3>2. after[i] = [tl[i] EXCEPT !.clips = E[i]]
      BY <2>1, <2>2
    <3>3. after[i].locked = tl[i].locked
      BY <3>1, <3>2 DEF Track
    <3> QED
      BY <2>2, <3>1, <3>2, <3>3, ReclippedTrack
  <2>3. CASE tl[i].id \notin on
    BY <1>1, <2>1, <2>3
  <2> QED
    BY <2>2, <2>3
<1>3. after \in [1..Len(tl) -> Track]
  BY <1>1, <1>2
<1>4. after \in Seq(Track) /\ Len(after) = Len(tl) /\ DOMAIN after = 1..Len(tl)
  BY <1>1, <1>3, FunctionIsSeq
<1>5. Outline(after) = Outline(tl)
  BY <1>1, <1>2, <1>4 DEF Outline
<1> QED
  BY <1>2, <1>4, <1>5 DEF SameTracks, Reclips

\* The clips of a timeline and their ids.
LEMMA ClipsIn ==
  ASSUME NEW tl \in Seq(Track)
  PROVE  /\ IsFiniteSet(ClipIds(tl)) /\ ClipIds(tl) \in SUBSET Int
         /\ IsFiniteSet(TrackIds(tl)) /\ TrackIds(tl) \in SUBSET Int
         /\ \A id \in ClipIds(tl) : ClipOf(tl, id) \in Clip /\ ClipOf(tl, id).id = id
         /\ \A t \in TrackIds(tl) : IndexOf(tl, t) \in 1..Len(tl) /\ tl[IndexOf(tl, t)].id = t
<1> DEFINE n == Len(tl)
<1>1. /\ n \in Nat /\ DOMAIN tl = 1..n /\ IsFiniteSet(1..n)
      /\ \A i \in 1..n : tl[i].id \in Int /\ tl[i].clips \in Seq(Clip)
  <2>1. /\ n \in Nat /\ DOMAIN tl = 1..n
        /\ \A i \in 1..n : tl[i].id \in Int /\ tl[i].clips \in Seq(Clip)
    BY TracksIn
  <2> HIDE DEF n
  <2> QED
    BY <2>1, FS_Interval
<1> HIDE DEF n
<1>2. IsFiniteSet(TrackIds(tl)) /\ TrackIds(tl) \in SUBSET Int
  <2> DEFINE F == [i \in 1..n |-> tl[i].id]
  <2>1. DOMAIN F = 1..n /\ TrackIds(tl) = { F[i] : i \in 1..n }
    BY <1>1 DEF TrackIds
  <2> HIDE DEF F
  <2> QED
    BY <1>1, <2>1, ImageIsFinite DEF TrackIds
<1>3. IsFiniteSet(ClipIds(tl)) /\ ClipIds(tl) \in SUBSET Int
  <2> DEFINE F == [i \in 1..n |-> { c.id : c \in Range(tl[i].clips) }]
  <2>1. DOMAIN F = 1..n /\ ClipIds(tl) = UNION { F[i] : i \in 1..n }
    BY <1>1 DEF ClipIds
  <2>2. \A i \in 1..n : IsFiniteSet(F[i]) /\ F[i] \in SUBSET Int
    BY <1>1, ClipSetsFinite
  <2> HIDE DEF F
  <2>3. IsFiniteSet({ F[i] : i \in 1..n })
    BY <1>1, <2>1, ImageIsFinite
  <2>4. IsFiniteSet(UNION { F[i] : i \in 1..n })
    BY <2>2, <2>3, FS_UNION
  <2> QED
    BY <2>1, <2>2, <2>4
<1>4. \A i \in 1..n : Range(tl[i].clips) \in SUBSET Clip
  BY <1>1, InRange
<1>5. ASSUME NEW id \in ClipIds(tl)
      PROVE  ClipOf(tl, id) \in Clip /\ ClipOf(tl, id).id = id
  <2> DEFINE U == UNION { Range(tl[i].clips) : i \in DOMAIN tl }
  <2>1. U \in SUBSET Clip
    BY <1>1, <1>4
  <2>2. \E c \in U : c.id = id
    BY DEF ClipIds
  <2>3. ClipOf(tl, id) = CHOOSE c \in U : c.id = id
    BY DEF ClipOf
  <2> HIDE DEF U
  <2> QED
    BY <2>1, <2>2, <2>3
<1>6. ASSUME NEW t \in TrackIds(tl) PROVE IndexOf(tl, t) \in 1..n /\ tl[IndexOf(tl, t)].id = t
  BY <1>1 DEF TrackIds, IndexOf
<1> QED
  BY <1>1, <1>2, <1>3, <1>5, <1>6 DEF n

-----------------------------------------------------------------------------
(* Edits keep the tracks and leave clips on them *)

\* Removing clips keeps the tracks, and of each what Without leaves.
LEMMA RemoveClipsKeeps ==
  ASSUME NEW tl \in Seq(Track), NEW ids
  PROVE  /\ SameTracks(tl, RemoveClips(tl, ids)) /\ Len(RemoveClips(tl, ids)) = Len(tl)
         /\ \A i \in 1..Len(tl) : RemoveClips(tl, ids)[i].clips = Without(tl[i].clips, ids)
         /\ \A i \in 1..Len(tl) : RemoveClips(tl, ids)[i].id = tl[i].id
         /\ \A i \in 1..Len(tl) : RemoveClips(tl, ids)[i].locked = tl[i].locked
<1> DEFINE E == [i \in 1..Len(tl) |-> Without(tl[i].clips, ids)]
           after == RemoveClips(tl, ids)
<1>1. /\ Len(tl) \in Nat /\ DOMAIN tl = 1..Len(tl)
      /\ \A i \in 1..Len(tl) : tl[i].id \in TrackIds(tl) /\ tl[i].clips \in Seq(Clip)
  BY TracksIn DEF TrackIds
<1>2. after = [i \in DOMAIN tl |-> IF tl[i].id \in TrackIds(tl)
                                   THEN [tl[i] EXCEPT !.clips = E[i]] ELSE tl[i]]
  BY <1>1 DEF RemoveClips, OnTracks
<1>3. \A i \in 1..Len(tl) : E[i] = Without(tl[i].clips, ids) /\ E[i] \in Seq(Clip)
  BY <1>1, WithoutHolds
<1> HIDE DEF E, after
<1>4. Reclips(tl, TrackIds(tl), E, after)
  BY <1>2, <1>3, ReclippedKeeps
<1> QED
  BY <1>1, <1>3, <1>4 DEF after, Reclips

\* A clip that is appended.
LEMMA AppendedClips ==
  ASSUME NEW clips \in Seq(Clip), NEW c \in Clip
  PROVE  /\ Append(clips, c) \in Seq(Clip)
         /\ Range(Append(clips, c)) = Range(clips) \cup {c}
         /\ Append(clips, c) = clips \o <<c>>
<1>1. /\ Append(clips, c) \in Seq(Clip)
      /\ Append(clips, c) = clips \o <<c>>
  BY AppendProperties, AppendIsConcat
<1>2. <<c>> \in Seq(Clip) /\ Range(<<c>>) = {c}
  BY SmallRanges
<1>3. Range(clips \o <<c>>) = Range(clips) \cup Range(<<c>>)
  BY <1>2, RangeConcatenation
<1> QED
  BY <1>1, <1>2, <1>3

\* Duplicating a clip keeps the tracks.
LEMMA DuplicateClipKeeps ==
  ASSUME NEW tl \in Seq(Track), NEW id \in ClipIds(tl), NEW n \in Int
  PROVE  SameTracks(tl, DuplicateClip(tl, id, n))
<1> DEFINE c == ClipOf(tl, id)
           d == [Shifted(c, c.end - c.start) EXCEPT !.id = n + 1]
           E == [i \in 1..Len(tl) |-> Append(tl[i].clips, d)]
           after == DuplicateClip(tl, id, n)
<1>1. d \in Clip
  <2>1. c \in Clip
    BY ClipsIn
  <2> HIDE DEF c
  <2>2. c.end - c.start \in Int
    BY <2>1, ClipFields
  <2>3. Shifted(c, c.end - c.start) \in Clip
    BY <2>1, <2>2, ShiftedClip
  <2> QED
    BY <2>3, RenamedClip
<1>2. DOMAIN tl = 1..Len(tl) /\ \A i \in 1..Len(tl) : tl[i].clips \in Seq(Clip)
  BY TracksIn
<1>3. after = [i \in DOMAIN tl |-> IF tl[i].id \in {HomeOf(tl, id)}
                                   THEN [tl[i] EXCEPT !.clips = E[i]] ELSE tl[i]]
  <2> HIDE DEF c
  <2> QED
    BY <1>2 DEF DuplicateClip, OnTracks, c
<1> HIDE DEF d
<1>4. \A i \in 1..Len(tl) : E[i] \in Seq(Clip)
  BY <1>1, <1>2, AppendedClips
<1> HIDE DEF E, after
<1>5. SameTracks(tl, after)
  BY <1>3, <1>4, ReclippedKeeps DEF Reclips
<1> QED
  BY <1>5 DEF after

\* So does appending an asset.
LEMMA AppendAssetKeeps ==
  ASSUME NEW tl \in Seq(Track), NEW t, NEW at \in Int, NEW len \in Nat, NEW n \in Int
  PROVE  SameTracks(tl, AppendAsset(tl, t, at, len, n))
<1> DEFINE End(clips) == Max({at} \cup { c.end : c \in Range(clips) })
           E == [i \in 1..Len(tl) |-> Append(tl[i].clips,
                                             NewClip(n + 1, "asset", End(tl[i].clips), len))]
           after == AppendAsset(tl, t, at, len, n)
<1>1. DOMAIN tl = 1..Len(tl) /\ \A i \in 1..Len(tl) : tl[i].clips \in Seq(Clip)
  BY TracksIn
<1>2. after = [i \in DOMAIN tl |-> IF tl[i].id \in {t}
                                   THEN [tl[i] EXCEPT !.clips = E[i]] ELSE tl[i]]
  BY <1>1 DEF AppendAsset, OnTracks
<1>3. ASSUME NEW i \in 1..Len(tl) PROVE E[i] \in Seq(Clip)
  <2>1. tl[i].clips \in Seq(Clip)
    BY <1>1
  <2>2. End(tl[i].clips) \in Int
    BY <2>1, ClipSetsFinite, MaxWith
  <2> HIDE DEF End
  <2>3. NewClip(n + 1, "asset", End(tl[i].clips), len) \in Clip
    BY <2>2, NewClipIsClip
  <2>4. E[i] = Append(tl[i].clips, NewClip(n + 1, "asset", End(tl[i].clips), len))
    OBVIOUS
  <2> QED
    BY <2>1, <2>3, <2>4, AppendedClips
<1> HIDE DEF E, after
<1>4. SameTracks(tl, after)
  BY <1>2, <1>3, ReclippedKeeps DEF Reclips
<1> QED
  BY <1>4 DEF after

\* A piece of a clip with an id of its own.
LEMMA PieceClip ==
  ASSUME NEW c \in Clip, NEW id \in Int, NEW s \in Int, s <= c.end
  PROVE  [c EXCEPT !.id = id, !.start = s] \in Clip
<1> DEFINE r == [c EXCEPT !.id = id]
<1>1. r \in Clip /\ r.end = c.end
  BY RenamedClip
<1> HIDE DEF r
<1>2. [r EXCEPT !.start = s] \in Clip
  BY <1>1, StartedClip
<1>3. [c EXCEPT !.id = id, !.start = s] = [r EXCEPT !.start = s]
  BY DEF r
<1> QED
  BY <1>2, <1>3

\* Sequences of two, one and no element.
LEMMA PairIsSeq ==
  ASSUME NEW S, NEW a \in S, NEW b \in S
  PROVE  /\ <<a, b>> \in Seq(S) /\ <<a>> \in Seq(S) /\ <<>> \in Seq(S)
         /\ Range(<<a, b>>) = {a, b}
<1>1. DOMAIN <<a, b>> = {1, 2}
  OBVIOUS
<1> QED
  BY <1>1 DEF Range

\* The pieces clips are cut into.
LEMMA CutAtType ==
  ASSUME NEW clips \in Seq(Clip), NEW ids, IsFiniteSet(ids), NEW at \in Int, NEW n \in Int
  PROVE  CutAt(clips, ids, at, n) \in Seq(Clip)
<1> DEFINE Two(c) == <<Cut(c, at), [c EXCEPT !.id = n + Rank(c.id, ids), !.start = at]>>
           P(c) == IF c.id \in ids /\ Spans(c, at, at) THEN Two(c) ELSE <<c>>
           ss == [i \in DOMAIN clips |-> P(clips[i])]
<1>1. \A i \in 1..Len(clips) : clips[i] \in Clip
  OBVIOUS
<1>2. ASSUME NEW c \in Clip PROVE P(c) \in Seq(Clip)
  <2>1. CASE c.id \in ids /\ Spans(c, at, at)
    <3>1. c.start \in Int /\ c.end \in Int /\ c.start <= at /\ at <= c.end
      BY <2>1, ClipFields DEF Spans
    <3>2. n + Rank(c.id, ids) \in Int
      BY RankIsNumber
    <3>3. Cut(c, at) \in Clip /\ [c EXCEPT !.id = n + Rank(c.id, ids), !.start = at] \in Clip
      BY <3>1, <3>2, CutClip, PieceClip
    <3>4. Two(c) \in Seq(Clip)
      BY <3>3, PairIsSeq
    <3> HIDE DEF Two
    <3> QED
      BY <2>1, <3>4
  <2>2. CASE ~(c.id \in ids /\ Spans(c, at, at))
    <3> HIDE DEF Two
    <3> QED
      BY <2>2, PairIsSeq
  <2> QED
    BY <2>1, <2>2
<1>3. CutAt(clips, ids, at, n) = FlattenSeq(ss)
  BY DEF CutAt
<1> HIDE DEF P
<1>4. ss \in [1..Len(clips) -> Seq(Clip)] /\ Len(clips) \in Nat
  <2>1. DOMAIN clips = 1..Len(clips) /\ Len(clips) \in Nat
    OBVIOUS
  <2> QED
    BY <1>1, <1>2, <2>1
<1> HIDE DEF ss
<1>5. ss \in Seq(Seq(Clip))
  BY <1>4, FunctionIsSeq
<1> QED
  BY <1>3, <1>5, FlattenHolds

\* Splitting a clip keeps the tracks.
LEMMA SplitClipKeeps ==
  ASSUME NEW tl \in Seq(Track), NEW id, NEW at \in Int, NEW n \in Int
  PROVE  SameTracks(tl, SplitClip(tl, id, at, n))
<1> DEFINE E == [i \in 1..Len(tl) |-> CutAt(tl[i].clips, {id}, at, n)]
           after == SplitClip(tl, id, at, n)
<1>1. DOMAIN tl = 1..Len(tl) /\ \A i \in 1..Len(tl) : tl[i].clips \in Seq(Clip)
  BY TracksIn
<1>2. after = [i \in DOMAIN tl |-> IF tl[i].id \in TrackIds(tl)
                                   THEN [tl[i] EXCEPT !.clips = E[i]] ELSE tl[i]]
  BY <1>1 DEF SplitClip, OnTracks
<1>3. \A i \in 1..Len(tl) : E[i] \in Seq(Clip)
  BY <1>1, CutAtType, FS_Singleton
<1> HIDE DEF E, after
<1>4. SameTracks(tl, after)
  BY <1>2, <1>3, ReclippedKeeps DEF Reclips
<1> QED
  BY <1>4 DEF after

\* So does the razor.
LEMMA RazorAtKeeps ==
  ASSUME NEW tl \in Seq(Track), NEW at \in Int, NEW n \in Int
  PROVE  SameTracks(tl, RazorAt(tl, at, n))
<1> DEFINE E == [i \in 1..Len(tl) |-> CutAt(tl[i].clips, ClipIds(tl), at, n)]
           after == RazorAt(tl, at, n)
<1>1. DOMAIN tl = 1..Len(tl) /\ \A i \in 1..Len(tl) : tl[i].clips \in Seq(Clip)
  BY TracksIn
<1>2. after = [i \in DOMAIN tl |-> IF tl[i].id \in Unlocked(tl)
                                   THEN [tl[i] EXCEPT !.clips = E[i]] ELSE tl[i]]
  BY <1>1 DEF RazorAt, OnTracks
<1>3. \A i \in 1..Len(tl) : E[i] \in Seq(Clip)
  BY <1>1, CutAtType, ClipsIn
<1> HIDE DEF E, after
<1>4. SameTracks(tl, after)
  BY <1>2, <1>3, ReclippedKeeps DEF Reclips
<1> QED
  BY <1>4 DEF after

\* The partial sums of LengthOf().
Sums(f, clips) ==
  f = [k \in 0..Len(clips) |-> IF k = 0 THEN 0 ELSE f[k - 1] + clips[k].end - clips[k].start]

\* LengthOf is the last value of the sums its recursion chooses.
LEMMA LengthChoice ==
  ASSUME NEW clips
  PROVE  LengthOf(clips) = (CHOOSE f : Sums(f, clips))[Len(clips)]
BY DEF LengthOf, Sums

\* The length of clips is a number.
LEMMA LengthIsNumber ==
  ASSUME NEW clips \in Seq(Clip)
  PROVE  LengthOf(clips) \in Int
<1> DEFINE n == Len(clips)
           f == CHOOSE g : Sums(g, clips)
           G == [p \in Int \X (1..n) |-> p[1] + clips[p[2]].end - clips[p[2]].start]
<1>1. n \in Nat /\ \A i \in 1..n : clips[i].end \in Int /\ clips[i].start \in Int
  <2>1. n \in Nat /\ \A i \in 1..n : clips[i] \in Clip
    OBVIOUS
  <2> HIDE DEF n
  <2> QED
    BY <2>1, ClipFields
<1>2. \E g : Sums(g, clips)
  <2> HIDE DEF n
  <2>1. \A s \in Int, k \in 1..n : G[<<s, k>>] = s + clips[k].end - clips[k].start
    OBVIOUS
  <2>2. G \in [Int \X (1..n) -> Int]
    BY <1>1
  <2> HIDE DEF G
  <2>3. PICK r \in [0..n -> Int] : Recurs(r, 0, G, n)
    <3> DEFINE U == Int
    <3>1. 0 \in U /\ G \in [U \X (1..n) -> U]
      BY <2>2
    <3> HIDE DEF U
    <3>2. \E r \in [0..n -> U] : Recurs(r, 0, G, n)
      BY <1>1, <3>1, Recursion
    <3> QED
      BY <3>2 DEF U
  <2>4. \A k \in 1..n : k - 1 \in 0..n /\ r[k - 1] \in Int
    BY <1>1
  <2>5. \A k \in 1..n : r[k] = r[k - 1] + clips[k].end - clips[k].start
    BY <2>1, <2>3, <2>4 DEF Recurs
  <2>6. r[0] = 0
    BY <2>3 DEF Recurs
  <2>7. r = [k \in 0..n |-> IF k = 0 THEN 0 ELSE r[k - 1] + clips[k].end - clips[k].start]
    BY <1>1, <2>5, <2>6
  <2> QED
    BY <2>7 DEF Sums, n
<1>3. Sums(f, clips)
  BY <1>2
<1> HIDE DEF f
<1>4. \A k \in 0..n : f[k] = IF k = 0 THEN 0 ELSE f[k - 1] + clips[k].end - clips[k].start
  BY <1>3 DEF Sums
<1> DEFINE T == { k \in 0..n : f[k] \in Int }
<1> HIDE DEF n
<1>5. 0 \in T
  <2>1. 0 \in 0..n /\ f[0] = 0
    BY <1>1, <1>4
  <2> QED
    BY <2>1
<1>6. ASSUME NEW k \in 1..n, k - 1 \in T PROVE k \in T
  <2>1. k \in 0..n /\ k # 0 /\ f[k - 1] \in Int
    BY <1>1, <1>6
  <2>2. f[k] = f[k - 1] + clips[k].end - clips[k].start
    BY <1>4, <2>1
  <2>3. f[k] \in Int
    BY <1>1, <2>1, <2>2
  <2> QED
    BY <2>1, <2>3
<1>7. \A k \in 0..n : k \in T
  <2> HIDE DEF T
  <2> QED
    BY <1>1, <1>5, <1>6, UpToInduction
<1>8. f[n] \in Int
  BY <1>1, <1>7
<1> QED
  BY <1>8, LengthChoice DEF f, n

\* What extractSelection() leaves on a track.
LEMMA ExtractKeeps ==
  ASSUME NEW tl \in Seq(Track), NEW ids
  PROVE  SameTracks(tl, ExtractSelection(tl, ids))
<1> DEFINE Removed(clips) == With(clips, ids)
           Stays(clips) == Without(clips, ids)
           First(clips) == Earliest(Removed(clips))
           Length(clips) == LengthOf(Removed(clips))
           Closed(clips, c) == IF c.start <= First(clips) THEN c
                               ELSE [c EXCEPT !.start = Most(First(clips), @ - Length(clips)),
                                              !.end = Most(First(clips), @ - Length(clips))]
           Left(clips) == IF Removed(clips) = <<>> THEN clips
                          ELSE [i \in DOMAIN Stays(clips) |-> Closed(clips, Stays(clips)[i])]
           E == [i \in 1..Len(tl) |-> Left(tl[i].clips)]
           after == ExtractSelection(tl, ids)
<1>1. DOMAIN tl = 1..Len(tl) /\ \A i \in 1..Len(tl) : tl[i].clips \in Seq(Clip)
  BY TracksIn
<1>2. after = [i \in DOMAIN tl |-> IF tl[i].id \in TrackIds(tl)
                                   THEN [tl[i] EXCEPT !.clips = E[i]] ELSE tl[i]]
  BY <1>1 DEF ExtractSelection, OnTracks
<1>3. ASSUME NEW clips \in Seq(Clip) PROVE Left(clips) \in Seq(Clip)
  <2>1. Removed(clips) \in Seq(Clip) /\ Stays(clips) \in Seq(Clip)
    BY WithHolds, WithoutHolds
  <2>2. CASE Removed(clips) = <<>>
    BY <2>2
  <2>3. CASE Removed(clips) # <<>>
    <3> HIDE DEF Removed, Stays
    <3>1. First(clips) \in Int /\ Length(clips) \in Int
      BY <2>1, <2>3, EarliestIsStart, LengthIsNumber
    <3> HIDE DEF First, Length
    <3>2. ASSUME NEW c \in Clip PROVE Closed(clips, c) \in Clip
      <4> DEFINE s == Most(First(clips), c.start - Length(clips))
                 e == Most(First(clips), c.end - Length(clips))
                 d == Most(First(clips), c.end - Length(clips)) - c.end
      <4>1. c.start \in Int /\ c.end \in Int /\ c.start <= c.end
        BY ClipFields
      <4>2. s \in Int /\ e \in Int /\ s <= e
        BY <3>1, <4>1 DEF Most
      <4>3. Closed(clips, c) = IF c.start <= First(clips) THEN c
                               ELSE [c EXCEPT !.start = s, !.end = e]
        OBVIOUS
      <4> HIDE DEF s, e, Closed
      <4>4. [c EXCEPT !.start = s, !.end = e] \in Clip
        BY <4>2, PlacedClip
      <4> QED
        BY <4>3, <4>4
    <3> DEFINE n == Len(Stays(clips))
               g == [i \in 1..n |-> Closed(clips, Stays(clips)[i])]
    <3>3. n \in Nat /\ DOMAIN Stays(clips) = 1..n /\ \A i \in 1..n : Stays(clips)[i] \in Clip
      BY <2>1
    <3> HIDE DEF Closed, n
    <3>4. g \in [1..n -> Clip]
      BY <3>2, <3>3
    <3>5. Left(clips) = g
      BY <2>3, <3>3
    <3> HIDE DEF g
    <3> QED
      BY <3>3, <3>4, <3>5, FunctionIsSeq
  <2> QED
    BY <2>2, <2>3
<1>4. \A i \in 1..Len(tl) : E[i] \in Seq(Clip)
  <2> HIDE DEF Left
  <2> QED
    BY <1>1, <1>3
<1> HIDE DEF E, after
<1>5. SameTracks(tl, after)
  BY <1>2, <1>4, ReclippedKeeps DEF Reclips
<1> QED
  BY <1>5 DEF after

\* A sequence without its element n.
LEMMA RemoveAtIs ==
  ASSUME NEW S, NEW s \in Seq(S), NEW n \in 1..Len(s)
  PROVE  /\ RemoveAt(s, n) \in Seq(S) /\ Len(RemoveAt(s, n)) = Len(s) - 1
         /\ \A i \in 1..(Len(s) - 1) : RemoveAt(s, n)[i] = IF i < n THEN s[i] ELSE s[i + 1]
<1> DEFINE m == Len(s)
           a == SubSeq(s, 1, n - 1)
           b == SubSeq(s, n + 1, m)
<1>1. m \in Nat /\ n \in Int /\ \A i \in 1..m : s[i] \in S
  OBVIOUS
<1>2. /\ a \in Seq(S) /\ Len(a) = n - 1 /\ \A i \in 1..(n - 1) : a[i] = s[i]
  BY <1>1, SubSeqProperties
<1>3. /\ b \in Seq(S) /\ Len(b) = m - n /\ \A i \in 1..(m - n) : b[i] = s[n + i]
  BY <1>1, SubSeqProperties
<1>4. RemoveAt(s, n) = a \o b
  BY DEF RemoveAt
<1> HIDE DEF a, b, m
<1>5. /\ a \o b \in Seq(S) /\ Len(a \o b) = Len(a) + Len(b)
      /\ \A i \in 1..(Len(a) + Len(b)) :
           (a \o b)[i] = IF i <= Len(a) THEN a[i] ELSE b[i - Len(a)]
  BY <1>2, <1>3, ConcatProperties
<1>6. Len(a) + Len(b) = m - 1
  BY <1>1, <1>2, <1>3
<1>7. ASSUME NEW i \in 1..(m - 1)
      PROVE  (a \o b)[i] = IF i < n THEN s[i] ELSE s[i + 1]
  <2>1. CASE i < n
    <3>1. i \in 1..(n - 1) /\ i <= Len(a) /\ i \in 1..(Len(a) + Len(b))
      BY <1>1, <1>2, <1>6, <2>1
    <3> QED
      BY <1>2, <1>5, <2>1, <3>1
  <2>2. CASE ~ (i < n)
    <3>1. i - (n - 1) \in 1..(m - n) /\ ~ (i <= Len(a)) /\ i \in 1..(Len(a) + Len(b))
      BY <1>1, <1>2, <1>6, <2>2
    <3>2. (a \o b)[i] = b[i - (n - 1)]
      BY <1>2, <1>5, <3>1
    <3>3. b[i - (n - 1)] = s[n + (i - (n - 1))] /\ n + (i - (n - 1)) = i + 1
      BY <1>1, <1>3, <3>1
    <3> QED
      BY <2>2, <3>2, <3>3
  <2> QED
    BY <2>1, <2>2
<1> QED
  BY <1>4, <1>5, <1>6, <1>7 DEF m

\* A sequence with e as its element n.
LEMMA InsertAtIs ==
  ASSUME NEW S, NEW s \in Seq(S), NEW n \in 1..(Len(s) + 1), NEW e \in S
  PROVE  /\ InsertAt(s, n, e) \in Seq(S) /\ Len(InsertAt(s, n, e)) = Len(s) + 1
         /\ \A i \in 1..(Len(s) + 1) :
              InsertAt(s, n, e)[i] = IF i < n THEN s[i] ELSE IF i = n THEN e ELSE s[i - 1]
<1> DEFINE m == Len(s)
           a == SubSeq(s, 1, n - 1)
           b == SubSeq(s, n, m)
           ae == a \o <<e>>
<1>1. m \in Nat /\ n \in Int /\ n \in 1..(m + 1) /\ \A i \in 1..m : s[i] \in S
  OBVIOUS
<1>2. /\ a \in Seq(S) /\ Len(a) = n - 1 /\ \A i \in 1..(n - 1) : a[i] = s[i]
  BY <1>1, SubSeqProperties
<1>3. /\ b \in Seq(S) /\ Len(b) = m - n + 1 /\ \A i \in 1..(m - n + 1) : b[i] = s[n + i - 1]
  BY <1>1, SubSeqProperties
<1>4. InsertAt(s, n, e) = ae \o b
  BY DEF InsertAt
<1>5. <<e>> \in Seq(S) /\ Len(<<e>>) = 1 /\ <<e>>[1] = e
  OBVIOUS
<1> HIDE DEF a, b, m
<1>6. /\ ae \in Seq(S) /\ Len(ae) = n
      /\ \A i \in 1..n : ae[i] = IF i < n THEN s[i] ELSE e
  <2>1. /\ ae \in Seq(S) /\ Len(ae) = Len(a) + 1
        /\ \A i \in 1..(Len(a) + 1) : ae[i] = IF i <= Len(a) THEN a[i] ELSE <<e>>[i - Len(a)]
    BY <1>2, <1>5, ConcatProperties
  <2> HIDE DEF ae
  <2>2. ASSUME NEW i \in 1..n PROVE ae[i] = IF i < n THEN s[i] ELSE e
    <3>1. CASE i < n
      <4>1. i \in 1..(n - 1) /\ i <= Len(a) /\ i \in 1..(Len(a) + 1)
        BY <1>1, <1>2, <3>1
      <4> QED
        BY <1>2, <2>1, <3>1, <4>1
    <3>2. CASE ~ (i < n)
      <4>1. ~ (i <= Len(a)) /\ i - Len(a) = 1 /\ i \in 1..(Len(a) + 1)
        BY <1>1, <1>2, <3>2
      <4> QED
        BY <1>5, <2>1, <3>2, <4>1
    <3> QED
      BY <3>1, <3>2
  <2> QED
    BY <1>1, <1>2, <2>1, <2>2
<1> HIDE DEF ae
<1>7. /\ ae \o b \in Seq(S) /\ Len(ae \o b) = Len(ae) + Len(b)
      /\ \A i \in 1..(Len(ae) + Len(b)) :
           (ae \o b)[i] = IF i <= Len(ae) THEN ae[i] ELSE b[i - Len(ae)]
  BY <1>3, <1>6, ConcatProperties
<1>8. Len(ae) + Len(b) = m + 1
  BY <1>1, <1>3, <1>6
<1>9. ASSUME NEW i \in 1..(m + 1)
      PROVE  (ae \o b)[i] = IF i < n THEN s[i] ELSE IF i = n THEN e ELSE s[i - 1]
  <2>1. CASE i <= n
    <3>1. i \in 1..n /\ i <= Len(ae) /\ i \in 1..(Len(ae) + Len(b)) /\ (~ (i < n) => i = n)
      BY <1>1, <1>6, <1>8, <2>1
    <3> QED
      BY <1>6, <1>7, <2>1, <3>1
  <2>2. CASE ~ (i <= n)
    <3>1. i - n \in 1..(m - n + 1) /\ ~ (i <= Len(ae)) /\ i \in 1..(Len(ae) + Len(b))
          /\ ~ (i < n) /\ i # n
      BY <1>1, <1>6, <1>8, <2>2
    <3>2. (ae \o b)[i] = b[i - n]
      BY <1>6, <1>7, <3>1
    <3>3. b[i - n] = s[n + (i - n) - 1] /\ n + (i - n) - 1 = i - 1
      BY <1>1, <1>3, <3>1
    <3> QED
      BY <3>1, <3>2, <3>3
  <2> QED
    BY <2>1, <2>2
<1> QED
  BY <1>4, <1>7, <1>8, <1>9 DEF m

\* So does a track go into a timeline.
Inserts(p, tl, a, e) ==
  /\ Len(p) = Len(tl) + 1
  /\ \A i \in 1..(Len(tl) + 1) : p[i] = IF i < a THEN tl[i] ELSE IF i = a THEN e ELSE tl[i - 1]

\* A timeline with one more track is a timeline.
LEMMA TrackInserted ==
  ASSUME NEW tl \in Seq(Track), NEW a \in 1..(Len(tl) + 1), NEW e \in Track
  PROVE  InsertAt(tl, a, e) \in Seq(Track) /\ Inserts(InsertAt(tl, a, e), tl, a, e)
<1> DEFINE T == Track
<1>1. tl \in Seq(T) /\ e \in T
  OBVIOUS
<1> HIDE DEF T
<1>2. /\ InsertAt(tl, a, e) \in Seq(T) /\ Len(InsertAt(tl, a, e)) = Len(tl) + 1
      /\ \A i \in 1..(Len(tl) + 1) :
           InsertAt(tl, a, e)[i] = IF i < a THEN tl[i] ELSE IF i = a THEN e ELSE tl[i - 1]
  BY <1>1, InsertAtIs
<1> QED
  BY <1>2 DEF Inserts, T


\* In order, the tracks are where IndexOf() finds them.
LEMMA IndexOfTrack ==
  ASSUME NEW tl \in Seq(Track), InOrder(tl), NEW i \in 1..Len(tl)
  PROVE  IndexOf(tl, tl[i].id) = i /\ tl[i].id \in TrackIds(tl)
<1>1. DOMAIN tl = 1..Len(tl) /\ Len(tl) \in Nat
  BY TracksIn
<1>2. \A j \in 1..Len(tl) : tl[j].id = tl[i].id => j = i
  BY <1>1 DEF InOrder
<1> QED
  BY <1>1, <1>2 DEF IndexOf, TrackIds

\* Ripple delete keeps the tracks.
LEMMA RippleDeleteKeeps ==
  ASSUME NEW tl \in Seq(Track), InOrder(tl), NEW id \in ClipIds(tl)
  PROVE  SameTracks(tl, RippleDelete(tl, id))
<1> DEFINE home == HomeOf(tl, id)
           At(clips) == CHOOSE i \in DOMAIN clips : clips[i].id = id
           Stays(clips) == RemoveAt(clips, At(clips))
           Closed(clips, i) == IF i >= At(clips) /\ Stays(clips)[i].start >= clips[At(clips)].start
                               THEN Shifted(Stays(clips)[i],
                                            clips[At(clips)].start - clips[At(clips)].end)
                               ELSE Stays(clips)[i]
           Left(clips) == [i \in DOMAIN Stays(clips) |-> Closed(clips, i)]
           E == [i \in 1..Len(tl) |-> Left(tl[i].clips)]
           after == RippleDelete(tl, id)
<1>1. DOMAIN tl = 1..Len(tl) /\ \A i \in 1..Len(tl) : tl[i].clips \in Seq(Clip)
  BY TracksIn
<1>2. after = [i \in DOMAIN tl |-> IF tl[i].id \in {home}
                                   THEN [tl[i] EXCEPT !.clips = E[i]] ELSE tl[i]]
  <2> HIDE DEF home
  <2> QED
    BY <1>1 DEF RippleDelete, OnTracks, home
<1>3. \E c \in Range(tl[IndexOf(tl, home)].clips) : c.id = id
  <2>1. PICK i \in 1..Len(tl) : \E c \in Range(tl[i].clips) : c.id = id
    BY <1>1 DEF ClipIds
  <2>2. IndexOf(tl, tl[i].id) = i /\ tl[i].id \in TrackIds(tl)
    BY IndexOfTrack
  <2>3. \E t \in TrackIds(tl) : \E c \in Range(tl[IndexOf(tl, t)].clips) : c.id = id
    BY <2>1, <2>2
  <2> QED
    BY <2>3 DEF HomeOf
<1> HIDE DEF home
<1>4. ASSUME NEW clips \in Seq(Clip), \E c \in Range(clips) : c.id = id
      PROVE  Left(clips) \in Seq(Clip)
  <2> DEFINE n == At(clips)
             s == RemoveAt(clips, n)
             d == clips[n].start - clips[n].end
             m == Len(clips) - 1
             g == [i \in 1..m |-> Closed(clips, i)]
  <2>1. DOMAIN clips = 1..Len(clips) /\ \A i \in 1..Len(clips) : clips[i] \in Clip
    OBVIOUS
  <2>2. n \in 1..Len(clips)
    <3>1. \E i \in 1..Len(clips) : clips[i].id = id
      BY <1>4, InRange
    <3> QED
      BY <2>1, <3>1
  <2>3. d \in Int
    BY <2>1, <2>2, ClipFields
  <2> HIDE DEF n
  <2>4. s \in Seq(Clip) /\ Len(s) = m
    BY <2>2, RemoveAtIs
  <2>5. m \in Nat /\ DOMAIN s = 1..m /\ \A i \in 1..m : s[i] \in Clip
    <3> HIDE DEF s, m
    <3> QED
      BY <2>4
  <2>6. \A i : Closed(clips, i) = IF i >= n /\ s[i].start >= clips[n].start
                                  THEN Shifted(s[i], d) ELSE s[i]
    BY DEF n
  <2>7. Left(clips) = g
    BY <2>5 DEF n
  <2> HIDE DEF s, d, Closed
  <2>8. \A i \in 1..m : Closed(clips, i) \in Clip
    BY <2>3, <2>5, <2>6, ShiftedClip
  <2> HIDE DEF m
  <2>9. g \in [1..m -> Clip]
    BY <2>8
  <2> HIDE DEF g
  <2> QED
    BY <2>5, <2>7, <2>9, FunctionIsSeq
<1>5. ASSUME NEW i \in 1..Len(tl), tl[i].id = home PROVE E[i] \in Seq(Clip)
  <2>1. IndexOf(tl, home) = i
    BY <1>5, IndexOfTrack
  <2>2. Left(tl[i].clips) \in Seq(Clip)
    <3> HIDE DEF Left
    <3> QED
      BY <1>1, <1>3, <1>4, <2>1
  <2> HIDE DEF Left
  <2> QED
    BY <2>2
<1>6. \A i \in 1..Len(tl) : tl[i].id \in {home} => E[i] \in Seq(Clip)
  <2> HIDE DEF E
  <2> QED
    BY <1>5
<1> HIDE DEF E, after
<1>7. SameTracks(tl, after)
  BY <1>2, <1>6, ReclippedKeeps DEF Reclips
<1> QED
  BY <1>7 DEF after

\* Sorting by start keeps the clips.
LEMMA SortedHolds ==
  ASSUME NEW clips \in Seq(Clip)
  PROVE  Sorted(clips) \in Seq(Clip) /\ Range(Sorted(clips)) = Range(clips)
<1> DEFINE keys == [i \in DOMAIN clips |-> clips[i].start]
<1>1. DOMAIN clips = 1..Len(clips) /\ \A i \in 1..Len(clips) : clips[i] \in Clip
  OBVIOUS
<1>2. \A i \in 1..Len(clips) : clips[i].start \in Int
  BY <1>1, ClipFields
<1>3. keys \in [1..Len(clips) -> Int]
  BY <1>1, <1>2
<1>4. Sorted(clips) = SortedBy(clips, keys)
  BY DEF Sorted
<1> HIDE DEF keys
<1> QED
  BY <1>3, <1>4, SortedByHolds

\* What an overwrite leaves of a clip are clips.
LEMMA OverwrittenType ==
  ASSUME NEW c \in Clip, NEW from \in Int, NEW to \in Int
  PROVE  Overwritten(c, from, to) \in Seq(Clip)
<1>1. c.start \in Int /\ c.end \in Int /\ c.start <= c.end
  BY ClipFields
<1>2. c.start < from => Cut(c, from) \in Clip
  BY <1>1, CutClip
<1>3. c.end > to => Rest(c, to) \in Clip
  BY <1>1, RestClip
<1>4. <<>> \in Seq(Clip) /\ \A d \in Clip : <<d>> \in Seq(Clip)
  OBVIOUS
<1>5. CASE c.end <= from \/ c.start >= to
  BY <1>4, <1>5 DEF Overwritten
<1>6. CASE ~ (c.end <= from \/ c.start >= to) /\ c.start >= from /\ c.end <= to
  BY <1>4, <1>6 DEF Overwritten
<1>7. CASE ~ (c.end <= from \/ c.start >= to) /\ c.start < from
  <2>1. Overwritten(c, from, to) = <<Cut(c, from)>>
    BY <1>1, <1>7 DEF Overwritten
  <2> QED
    BY <1>2, <1>4, <1>7, <2>1
<1>8. CASE ~ (c.end <= from \/ c.start >= to) /\ ~ (c.start < from) /\ ~ (c.end <= to)
  <2>1. Overwritten(c, from, to) = <<Rest(c, to)>> /\ c.end > to
    BY <1>1, <1>8 DEF Overwritten
  <2> QED
    BY <1>3, <1>4, <2>1
<1> QED
  BY <1>1, <1>5, <1>6, <1>7, <1>8

\* An overwrite edit keeps the tracks.
LEMMA OverwriteEditKeeps ==
  ASSUME NEW tl \in Seq(Track), NEW targets \in Patched(tl), NEW at \in Int, NEW len \in Nat,
         NEW n \in Int
  PROVE  SameTracks(tl, OverwriteEdit(tl, targets, at, len, n))
<1> DEFINE Left(clips) == FlattenSeq([j \in DOMAIN clips |-> Overwritten(clips[j], at, at + len)])
           New(t) == NewClip(n + Rank(t, targets), "asset", at, len)
           E == [i \in 1..Len(tl) |-> Sorted(Append(Left(tl[i].clips), New(tl[i].id)))]
           after == OverwriteEdit(tl, targets, at, len, n)
<1>1. DOMAIN tl = 1..Len(tl) /\ \A i \in 1..Len(tl) : tl[i].clips \in Seq(Clip)
  BY TracksIn
<1>2. after = [i \in DOMAIN tl |-> IF tl[i].id \in targets
                                   THEN [tl[i] EXCEPT !.clips = E[i]] ELSE tl[i]]
  BY <1>1 DEF OverwriteEdit
<1>3. ASSUME NEW clips \in Seq(Clip) PROVE Left(clips) \in Seq(Clip)
  <2> DEFINE ss == [j \in DOMAIN clips |-> Overwritten(clips[j], at, at + len)]
  <2>1. /\ DOMAIN clips = 1..Len(clips) /\ Len(clips) \in Nat
        /\ \A j \in 1..Len(clips) : clips[j] \in Clip
    OBVIOUS
  <2>2. \A j \in 1..Len(clips) : Overwritten(clips[j], at, at + len) \in Seq(Clip)
    BY <2>1, OverwrittenType
  <2>3. ss \in [1..Len(clips) -> Seq(Clip)]
    BY <2>1, <2>2
  <2> HIDE DEF ss
  <2>4. ss \in Seq(Seq(Clip))
    BY <2>1, <2>3, FunctionIsSeq
  <2>5. FlattenSeq(ss) \in Seq(Clip)
    BY <2>4, FlattenHolds
  <2> QED
    BY <2>5 DEF ss
<1>4. ASSUME NEW t PROVE New(t) \in Clip
  <2>1. IsFiniteSet(targets)
    <3>1. targets \in SUBSET TrackIds(tl)
      BY DEF Patched, Unlocked
    <3> QED
      BY <3>1, ClipsIn, FS_Subset
  <2>2. n + Rank(t, targets) \in Int
    BY <2>1, RankIsNumber
  <2> QED
    BY <2>2, NewClipIsClip
<1> HIDE DEF Left, New
<1>5. \A i \in 1..Len(tl) : E[i] \in Seq(Clip)
  <2>1. \A i \in 1..Len(tl) : Append(Left(tl[i].clips), New(tl[i].id)) \in Seq(Clip)
    BY <1>1, <1>3, <1>4, AppendedClips
  <2> QED
    BY <2>1, SortedHolds
<1> HIDE DEF E, after
<1>6. SameTracks(tl, after)
  BY <1>2, <1>5, ReclippedKeeps DEF Reclips
<1> QED
  BY <1>6 DEF after

\* A clip that is pushed is a clip.
LEMMA PushedClip ==
  ASSUME NEW c \in Clip, NEW at \in Int, NEW len \in Int
  PROVE  Pushed(c, at, len) \in Clip
BY ShiftedClip DEF Pushed

\* Clips that have been pushed.
AllPushed(W, at, len) == { Pushed(c, at, len) : c \in W }

\* `is` holds the clips of `was`, pushed, and a new one.
HoldsPushed(is, was, at, len, new) ==
  Range(is) = AllPushed(Range(was), at, len) \cup {new}

\* No clip is across `at`.
IsCut(W, at) == \A c \in W : ~ Spans(c, at, at)

\* What insertEdit() makes of the clips, each for itself, and of the tails of those across.
LEMMA InsertedType ==
  ASSUME NEW clips \in Seq(Clip), NEW at \in Int, NEW len \in Nat, NEW new \in Clip, NEW n \in Int
  PROVE  /\ Inserted(clips, at, len, new, n) \in Seq(Clip)
         /\ IsCut(Range(clips), at)
            => HoldsPushed(Inserted(clips, at, len, new, n), clips, at, len, new)
<1> DEFINE across == { c \in Range(clips) : Spans(c, at, at) }
           Left(c) == IF c \in across THEN Cut(c, at) ELSE Pushed(c, at, len)
           ids == { c.id : c \in across }
           TailOf(c) == [Shifted(Rest(c, at), 2 * len) EXCEPT !.id = n + Rank(c.id, ids)]
           tails == [i \in DOMAIN clips |-> IF clips[i] \in across THEN <<TailOf(clips[i])>> ELSE <<>>]
           left == [i \in DOMAIN clips |-> Left(clips[i])]
<1>1. /\ DOMAIN clips = 1..Len(clips) /\ Len(clips) \in Nat
      /\ \A i \in 1..Len(clips) : clips[i] \in Clip
  OBVIOUS
<1>2. \A c \in across : c \in Clip /\ c.start < at /\ at < c.end
  <2>1. Range(clips) \in SUBSET Clip
    BY InRange
  <2>2. \A c \in across : c \in Clip /\ c.start < at /\ c.end > at
    BY <2>1 DEF Spans
  <2> QED
    BY <2>2, ClipFields
<1>3. Inserted(clips, at, len, new, n) = Sorted((left \o FlattenSeq(tails)) \o <<new>>)
  BY DEF Inserted
<1>4. IsFiniteSet(ids)
  <2>1. ids \in SUBSET { c.id : c \in Range(clips) }
    OBVIOUS
  <2> HIDE DEF ids
  <2> QED
    BY <2>1, ClipSetsFinite, FS_Subset
<1> HIDE DEF across, ids
<1>5. \A c \in Clip : Left(c) \in Clip
  <2> TAKE c \in Clip
  <2>1. CASE c \in across
    <3>1. c.start <= at
      BY <1>2, <2>1, ClipFields
    <3> QED
      BY <2>1, <3>1, CutClip
  <2>2. CASE c \notin across
    BY <2>2, PushedClip
  <2> QED
    BY <2>1, <2>2
<1>6. \A c \in across : TailOf(c) \in Clip
  <2> TAKE c \in across
  <2>1. c \in Clip /\ at <= c.end
    BY <1>2, ClipFields
  <2>2. Rest(c, at) \in Clip /\ 2 * len \in Int
    BY <2>1, RestClip
  <2>3. Shifted(Rest(c, at), 2 * len) \in Clip
    BY <2>2, ShiftedClip
  <2>4. n + Rank(c.id, ids) \in Int
    BY <1>4, RankIsNumber
  <2> QED
    BY <2>3, <2>4, RenamedClip
<1>7. left \in Seq(Clip) /\ Len(left) = Len(clips)
  <2>1. left \in [1..Len(clips) -> Clip]
    <3> HIDE DEF Left
    <3> QED
      BY <1>1, <1>5
  <2> HIDE DEF left
  <2> QED
    BY <1>1, <2>1, FunctionIsSeq
<1>8. Range(left) = { Left(c) : c \in Range(clips) }
  <2> HIDE DEF Left
  <2> QED
    BY DEF Range
<1>9. tails \in Seq(Seq(Clip)) /\ Len(tails) = Len(clips)
  <2> HIDE DEF TailOf
  <2>1. tails \in [1..Len(clips) -> Seq(Clip)]
    BY <1>1, <1>6
  <2> HIDE DEF tails
  <2> QED
    BY <1>1, <2>1, FunctionIsSeq
<1>10. \A i \in 1..Len(clips) : tails[i] = IF clips[i] \in across THEN <<TailOf(clips[i])>> ELSE <<>>
  BY <1>1
<1> HIDE DEF Left, TailOf, left, tails
<1>11. /\ FlattenSeq(tails) \in Seq(Clip)
       /\ \A x : x \in Range(FlattenSeq(tails)) <=> \E i \in 1..Len(tails) : x \in Range(tails[i])
  BY <1>9, FlattenHolds
<1> DEFINE t == FlattenSeq(tails)
           all == (left \o t) \o <<new>>
<1>12. t \in Seq(Clip)
  BY <1>11
<1>13. <<new>> \in Seq(Clip) /\ Range(<<new>>) = {new}
  BY SmallRanges
<1>14. left \o t \in Seq(Clip) /\ Range(left \o t) = Range(left) \cup Range(t)
  <2> HIDE DEF t
  <2> QED
    BY <1>7, <1>12, ConcatProperties, RangeConcatenation
<1>15. all \in Seq(Clip) /\ Range(all) = Range(left) \cup Range(t) \cup {new}
  <2> DEFINE u == left \o t
  <2> HIDE DEF t, u
  <2>0. u \in Seq(Clip) /\ Range(u) = Range(left) \cup Range(t)
    BY <1>14 DEF u
  <2>1. u \o <<new>> \in Seq(Clip) /\ Range(u \o <<new>>) = Range(u) \cup {new}
    BY <2>0, AppendedClips
  <2> QED
    BY <2>0, <2>1 DEF u
<1>16. Inserted(clips, at, len, new, n) = Sorted(all)
  BY <1>3
<1> HIDE DEF t, all
<1>17. Sorted(all) \in Seq(Clip) /\ Range(Sorted(all)) = Range(all)
  BY <1>15, SortedHolds
<1>18. ASSUME \A c \in Range(clips) : ~ Spans(c, at, at)
       PROVE  /\ \A c \in Range(clips) : Left(c) = Pushed(c, at, len)
              /\ Range(t) = {}
  <2>1. across = {}
    BY <1>18 DEF across
  <2>2. \A i \in 1..Len(clips) : Range(tails[i]) = {}
    BY <1>10, <2>1, SmallRanges
  <2>3. Range(t) = {}
    BY <1>9, <1>11, <2>2 DEF t
  <2> QED
    BY <2>1, <2>3 DEF Left
<1>19. ASSUME \A c \in Range(clips) : ~ Spans(c, at, at)
       PROVE  Range(all) = { Pushed(c, at, len) : c \in Range(clips) } \cup {new}
  <2>1. Range(left) = { Pushed(c, at, len) : c \in Range(clips) }
    BY <1>8, <1>18, <1>19
  <2> QED
    BY <1>15, <1>18, <1>19, <2>1
<1> QED
  BY <1>16, <1>17, <1>19 DEF AllPushed, IsCut, HoldsPushed

\* What becomes of the clips of a track an insert edit names, and of one it does not name.
OnTarget(was, is, at, len) ==
  \E id \in Int, m \in Int : is = Inserted(was, at, len, NewClip(id, "asset", at, len), m)
\* And of a sync-locked track.
Beside(was, is, at, len) == is = [j \in DOMAIN was |-> Pushed(was[j], at, len)]

\* What insertEdit() makes of a timeline: on a track it names, on one that is sync-locked and
\* on the others.
LEMMA InsertEditIs ==
  ASSUME NEW tl \in Seq(Track), NEW targets \in Patched(tl), NEW at \in Int, NEW len \in Nat,
         NEW n \in Int
  PROVE  /\ SameTracks(tl, InsertEdit(tl, targets, at, len, n))
         /\ \A i \in 1..Len(tl) :
              LET is == InsertEdit(tl, targets, at, len, n)[i].clips
              IN  /\ tl[i].id \in targets => OnTarget(tl[i].clips, is, at, len)
                  /\ tl[i].id \in SyncLocked /\ tl[i].id \notin targets =>
                       Beside(tl[i].clips, is, at, len)
<1> DEFINE base == n + Cardinality(targets)
           Id(t) == n + Rank(t, targets)
           Before(i) == Cardinality(UNION { { c.id : c \in Range(tl[j].clips) } : j \in 1..(i - 1) })
           E == [i \in 1..Len(tl) |->
                   IF tl[i].id \in targets
                   THEN Inserted(tl[i].clips, at, len, NewClip(Id(tl[i].id), "asset", at, len),
                                 base + Before(i))
                   ELSE [j \in DOMAIN tl[i].clips |-> Pushed(tl[i].clips[j], at, len)]]
           after == InsertEdit(tl, targets, at, len, n)
<1>1. /\ DOMAIN tl = 1..Len(tl) /\ Len(tl) \in Nat
      /\ \A i \in 1..Len(tl) : tl[i].clips \in Seq(Clip)
  BY TracksIn
<1>2. after = [i \in DOMAIN tl |-> IF tl[i].id \in targets \cup SyncLocked
                                   THEN [tl[i] EXCEPT !.clips = E[i]] ELSE tl[i]]
  <2> HIDE DEF Before
  <2>1. \A i \in 1..Len(tl) :
           E[i] = IF tl[i].id \in targets
                  THEN Inserted(tl[i].clips, at, len, NewClip(Id(tl[i].id), "asset", at, len),
                                base + Before(i))
                  ELSE [j \in DOMAIN tl[i].clips |-> Pushed(tl[i].clips[j], at, len)]
    OBVIOUS
  <2>2. after = [i \in DOMAIN tl |->
                   IF tl[i].id \in targets
                   THEN [tl[i] EXCEPT !.clips =
                           Inserted(@, at, len, NewClip(Id(tl[i].id), "asset", at, len),
                                    base + Before(i))]
                   ELSE IF tl[i].id \in SyncLocked
                   THEN [tl[i] EXCEPT !.clips = [j \in DOMAIN @ |-> Pushed(@[j], at, len)]]
                   ELSE tl[i]]
    BY DEF InsertEdit, Before
  <2> HIDE DEF E, after, base, Id
  <2> QED
    BY <1>1, <2>1, <2>2
<1>3. IsFiniteSet(targets) /\ base \in Int
  <2>1. targets \in SUBSET TrackIds(tl)
    BY DEF Patched, Unlocked
  <2>2. IsFiniteSet(targets)
    BY <2>1, ClipsIn, FS_Subset
  <2> QED
    BY <2>2, FS_CardinalityType
<1>4. \A t : Id(t) \in Int
  BY <1>3, RankIsNumber
<1>5. \A i \in 1..Len(tl) : Before(i) \in Int
  <2> TAKE i \in 1..Len(tl)
  <2> DEFINE F == [j \in 1..(i - 1) |-> { c.id : c \in Range(tl[j].clips) }]
             U == UNION { F[j] : j \in 1..(i - 1) }
  <2>1. \A j \in 1..(i - 1) : j \in 1..Len(tl)
    BY <1>1
  <2>2. DOMAIN F = 1..(i - 1) /\ \A j \in 1..(i - 1) : IsFiniteSet(F[j])
    BY <1>1, <2>1, ClipSetsFinite
  <2>3. Before(i) = Cardinality(U)
    OBVIOUS
  <2> HIDE DEF F, Before
  <2>4. IsFiniteSet(1..(i - 1))
    BY FS_Interval
  <2>5. IsFiniteSet({ F[j] : j \in 1..(i - 1) })
    BY <2>2, <2>4, ImageIsFinite
  <2>6. IsFiniteSet(U)
    BY <2>2, <2>5, FS_UNION
  <2> QED
    BY <2>3, <2>6, FS_CardinalityType
<1> HIDE DEF Before, base, Id
<1>6. ASSUME NEW i \in 1..Len(tl) PROVE E[i] \in Seq(Clip)
  <2>1. tl[i].clips \in Seq(Clip)
    BY <1>1
  <2>2. CASE tl[i].id \in targets
    <3>1. NewClip(Id(tl[i].id), "asset", at, len) \in Clip /\ base + Before(i) \in Int
      BY <1>3, <1>4, <1>5, NewClipIsClip
    <3> QED
      BY <2>1, <2>2, <3>1, InsertedType
  <2>3. CASE tl[i].id \notin targets
    <3> DEFINE clips == tl[i].clips
               g == [j \in DOMAIN clips |-> Pushed(clips[j], at, len)]
    <3>1. E[i] = g
      BY <2>3
    <3> HIDE DEF clips
    <3>2. DOMAIN clips = 1..Len(clips) /\ Len(clips) \in Nat /\ \A j \in 1..Len(clips) : clips[j] \in Clip
      BY <2>1 DEF clips
    <3>3. g \in [1..Len(clips) -> Clip]
      BY <3>2, PushedClip
    <3> HIDE DEF g
    <3> QED
      BY <3>1, <3>2, <3>3, FunctionIsSeq
  <2> QED
    BY <2>2, <2>3
<1>7. \A i \in 1..Len(tl) :
         /\ tl[i].id \in targets => OnTarget(tl[i].clips, E[i], at, len)
         /\ tl[i].id \notin targets => Beside(tl[i].clips, E[i], at, len)
  <2>1. \A i \in 1..Len(tl) : Id(tl[i].id) \in Int /\ base + Before(i) \in Int
    BY <1>3, <1>4, <1>5
  <2> QED
    BY <2>1 DEF OnTarget, Beside
<1> HIDE DEF E, after
<1>8. Reclips(tl, targets \cup SyncLocked, E, after)
  BY <1>2, <1>6, ReclippedKeeps
<1> QED
  BY <1>7, <1>8 DEF Reclips, after

\* Locking and unlocking keep the tracks' ids and their order.
LEMMA ToggleLockKeeps ==
  ASSUME NEW tl \in Seq(Track), NEW id
  PROVE  SameTracks(tl, ToggleLock(tl, id))
<1> DEFINE after == ToggleLock(tl, id)
<1>1. /\ DOMAIN tl = 1..Len(tl) /\ Len(tl) \in Nat
      /\ \A i \in 1..Len(tl) : tl[i] \in Track
  BY TracksIn
<1>2. \A t \in Track : /\ [t EXCEPT !.locked = ~ t.locked] \in Track
                       /\ [t EXCEPT !.locked = ~ t.locked].id = t.id
                       /\ [t EXCEPT !.locked = ~ t.locked].order = t.order
  <2> TAKE t \in Track
  <2> DEFINE b == ~ t.locked
  <2>1. b \in BOOLEAN
    OBVIOUS
  <2> HIDE DEF b
  <2>2. [t EXCEPT !.locked = b] \in Track /\ [t EXCEPT !.locked = b].id = t.id
        /\ [t EXCEPT !.locked = b].order = t.order
    BY <2>1 DEF Track
  <2> QED
    BY <2>2 DEF b
<1>3. after = [i \in 1..Len(tl) |-> IF tl[i].id = id THEN [tl[i] EXCEPT !.locked = ~ tl[i].locked]
                                    ELSE tl[i]]
  BY <1>1 DEF ToggleLock
<1>4. \A i \in 1..Len(tl) : /\ after[i] \in Track /\ after[i].id = tl[i].id
                            /\ after[i].order = tl[i].order
  <2> HIDE DEF after
  <2> QED
    BY <1>1, <1>2, <1>3
<1>5. after \in [1..Len(tl) -> Track]
  <2> HIDE DEF after
  <2> QED
    BY <1>3, <1>4
<1> HIDE DEF after
<1>6. after \in Seq(Track) /\ Len(after) = Len(tl) /\ DOMAIN after = 1..Len(tl)
  BY <1>1, <1>5, FunctionIsSeq
<1>7. Outline(after) = Outline(tl)
  BY <1>1, <1>4, <1>6 DEF Outline
<1> QED
  BY <1>6, <1>7 DEF SameTracks, after

-----------------------------------------------------------------------------
(* Inserts *)

\* The same tracks are in the same order.
LEMMA SameTracksInOrder ==
  ASSUME NEW tl \in Seq(Track), NEW after, SameTracks(tl, after), InOrder(tl)
  PROVE  /\ InOrder(after) /\ Len(after) = Len(tl)
         /\ \A i \in 1..Len(tl) : after[i].id = tl[i].id /\ after[i].order = tl[i].order
<1>1. /\ DOMAIN tl = 1..Len(tl) /\ DOMAIN after = 1..Len(after) /\ Len(tl) \in Nat /\ Len(after) \in Nat
      /\ after \in Seq(Track)
  BY TracksIn DEF SameTracks
<1>2. DOMAIN Outline(tl) = 1..Len(tl) /\ DOMAIN Outline(after) = 1..Len(after)
  BY <1>1 DEF Outline
<1>3. Len(after) = Len(tl)
  <2>1. 1..Len(after) = 1..Len(tl)
    BY <1>2 DEF SameTracks
  <2> QED
    BY <1>1, <2>1, SameBounds
<1>4. ASSUME NEW i \in 1..Len(tl) PROVE after[i].id = tl[i].id /\ after[i].order = tl[i].order
  <2>1. Outline(after)[i] = <<after[i].id, after[i].order>> /\ Outline(tl)[i] = <<tl[i].id, tl[i].order>>
    BY <1>1, <1>3 DEF Outline
  <2> QED
    BY <2>1 DEF SameTracks
<1>5. InOrder(after)
  BY <1>1, <1>3, <1>4 DEF InOrder
<1> QED
  BY <1>3, <1>4, <1>5

\* What clips show, as a set.
ShownBy(R, x) == { <<c.source, c.trim + x - c.start>> : c \in { d \in R : d.start <= x /\ x < d.end } }

\* What is shown depends on the set of the clips alone.
LEMMA ShowsIs ==
  ASSUME NEW clips, NEW x
  PROVE  Shows(clips, x) = ShownBy(Range(clips), x)
BY DEF Shows, ShownBy

\* A clip shows something at a time if it is there.
LEMMA Shown ==
  ASSUME NEW R, NEW x, NEW y
  PROVE  y \in ShownBy(R, x) <=> \E c \in R : /\ c.start <= x /\ x < c.end
                                              /\ y = <<c.source, c.trim + x - c.start>>
BY DEF ShownBy

\* R shows W, with what follows `at` moved by len, and what N adds.
ShowsPushed(R, W, N, at, len) ==
  /\ \A x \in Int : x < at => ShownBy(R, x) = ShownBy(W, x)
  /\ \A x \in Int : at <= x => ShownBy(R, x + len) = ShownBy(W, x)
  /\ \A x \in Int : at <= x /\ x < at + len => ShownBy(R, x) = ShownBy(N, x)

\* Clips none of which is across `at`, pushed by len to make room for new ones of that
\* length, show before `at` what they showed and after it what they showed len earlier.
LEMMA PushedShows ==
  ASSUME NEW W \in SUBSET Clip, NEW at \in Int, NEW len \in Nat \ {0},
         \A c \in W : ~ Spans(c, at, at),
         NEW N \in SUBSET Clip, \A c \in N : c.start = at /\ c.end = at + len,
         NEW R, R = AllPushed(W, at, len) \cup N
  PROVE  ShowsPushed(R, W, N, at, len)
<1>0. ASSUME NEW c \in W
      PROVE  /\ c.start \in Int /\ c.end \in Int /\ c.trim \in Int /\ c.start <= c.end
             /\ c.start >= at =>
                  /\ Pushed(c, at, len).start = c.start + len /\ Pushed(c, at, len).end = c.end + len
                  /\ Pushed(c, at, len).trim = c.trim /\ Pushed(c, at, len).source = c.source
             /\ c.start < at => Pushed(c, at, len) = c /\ c.end <= at
             /\ c.start < at \/ c.start >= at
  <2>1. c \in Clip
    OBVIOUS
  <2>2. c.start \in Int /\ c.end \in Int /\ c.trim \in Int /\ c.start <= c.end
    BY <2>1, ClipFields
  <2>3. c.start >= at =>
          /\ Pushed(c, at, len).start = c.start + len /\ Pushed(c, at, len).end = c.end + len
          /\ Pushed(c, at, len).trim = c.trim /\ Pushed(c, at, len).source = c.source
    BY <2>1, ShiftedClip DEF Pushed
  <2>4. c.start < at => Pushed(c, at, len) = c /\ c.end <= at
    BY <2>2 DEF Pushed, Spans
  <2> QED
    BY <2>2, <2>3, <2>4
<1>1. ASSUME NEW c \in R
      PROVE  c \in N \/ \E d \in W : c = Pushed(d, at, len)
  BY DEF AllPushed
<1>2. (\A d \in W : Pushed(d, at, len) \in R) /\ N \subseteq R
  BY DEF AllPushed
<1>3. ASSUME NEW x \in Int, x < at PROVE ShownBy(R, x) = ShownBy(W, x)
  <2>1. ASSUME NEW y, y \in ShownBy(R, x) PROVE y \in ShownBy(W, x)
    <3>1. PICK c \in R : c.start <= x /\ x < c.end /\ y = <<c.source, c.trim + x - c.start>>
      BY <2>1, Shown
    <3>2. c \notin N
      BY <1>3, <3>1
    <3>3. PICK d \in W : c = Pushed(d, at, len)
      BY <1>1, <3>2
    <3>4. d.start < at
      BY <1>0, <1>3, <3>1, <3>3
    <3>5. c = d
      BY <1>0, <3>3, <3>4
    <3> QED
      BY <3>1, <3>5, Shown
  <2>2. ASSUME NEW y, y \in ShownBy(W, x) PROVE y \in ShownBy(R, x)
    <3>1. PICK c \in W : c.start <= x /\ x < c.end /\ y = <<c.source, c.trim + x - c.start>>
      BY <2>2, Shown
    <3>2. c.start < at
      BY <1>0, <1>3, <3>1
    <3>3. Pushed(c, at, len) = c
      BY <1>0, <3>2
    <3> QED
      BY <1>2, <3>1, <3>3, Shown
  <2> QED
    BY <2>1, <2>2
<1>4. ASSUME NEW x \in Int, at <= x PROVE ShownBy(R, x + len) = ShownBy(W, x)
  <2>1. ASSUME NEW y, y \in ShownBy(R, x + len) PROVE y \in ShownBy(W, x)
    <3>1. PICK c \in R : /\ c.start <= x + len /\ x + len < c.end
                         /\ y = <<c.source, c.trim + (x + len) - c.start>>
      BY <2>1, Shown
    <3>2. c \notin N
      BY <1>4, <3>1
    <3>3. PICK d \in W : c = Pushed(d, at, len)
      BY <1>1, <3>2
    <3>4. d.start >= at
      BY <1>0, <1>4, <3>1, <3>3
    <3>5. c.start = d.start + len /\ c.end = d.end + len /\ c.trim = d.trim /\ c.source = d.source
      BY <1>0, <3>3, <3>4
    <3>6. d.start <= x /\ x < d.end /\ c.trim + (x + len) - c.start = d.trim + x - d.start
      BY <1>0, <3>1, <3>5
    <3>7. y = <<d.source, d.trim + x - d.start>>
      BY <3>1, <3>5, <3>6
    <3> QED
      BY <3>6, <3>7, Shown
  <2>2. ASSUME NEW y, y \in ShownBy(W, x) PROVE y \in ShownBy(R, x + len)
    <3>1. PICK d \in W : d.start <= x /\ x < d.end /\ y = <<d.source, d.trim + x - d.start>>
      BY <2>2, Shown
    <3>2. d.start >= at
      BY <1>0, <1>4, <3>1
    <3> DEFINE c == Pushed(d, at, len)
    <3>3. c \in R
      BY <1>2
    <3>4. c.start = d.start + len /\ c.end = d.end + len /\ c.trim = d.trim /\ c.source = d.source
      BY <1>0, <3>2
    <3> HIDE DEF c
    <3>5. /\ c.start <= x + len /\ x + len < c.end
          /\ c.trim + (x + len) - c.start = d.trim + x - d.start
      BY <1>0, <3>1, <3>4
    <3>6. y = <<c.source, c.trim + (x + len) - c.start>>
      BY <3>1, <3>4, <3>5
    <3> QED
      BY <3>3, <3>5, <3>6, Shown
  <2> QED
    BY <2>1, <2>2
<1>5. ASSUME NEW x \in Int, at <= x, x < at + len PROVE ShownBy(R, x) = ShownBy(N, x)
  <2>1. ASSUME NEW y, y \in ShownBy(R, x) PROVE y \in ShownBy(N, x)
    <3>1. PICK c \in R : c.start <= x /\ x < c.end /\ y = <<c.source, c.trim + x - c.start>>
      BY <2>1, Shown
    <3>2. ASSUME NEW d \in W, c = Pushed(d, at, len) PROVE FALSE
      <4>1. CASE d.start >= at
        BY <1>0, <1>5, <3>1, <3>2, <4>1
      <4>2. CASE d.start < at
        BY <1>0, <1>5, <3>1, <3>2, <4>2
      <4> QED
        BY <1>0, <4>1, <4>2
    <3>3. c \in N
      BY <1>1, <3>2
    <3> QED
      BY <3>1, <3>3, Shown
  <2>2. ASSUME NEW y, y \in ShownBy(N, x) PROVE y \in ShownBy(R, x)
    <3>1. PICK c \in N : c.start <= x /\ x < c.end /\ y = <<c.source, c.trim + x - c.start>>
      BY <2>2, Shown
    <3> QED
      BY <1>2, <3>1, Shown
  <2> QED
    BY <2>1, <2>2
<1> QED
  BY <1>3, <1>4, <1>5 DEF ShowsPushed

\* An insert edit at a cut shifts what follows, for itself.
Shifts(tl, targets, at, len, n) ==
  LET after == InsertEdit(tl, targets, at, len, n)
  IN  \A t \in (targets \cup SyncLocked) \cap TrackIds(tl) :
        LET was == ClipsOf(tl, t)
            is == ClipsOf(after, t)
        IN  (\A c \in Range(was) : ~Spans(c, at, at))
            => /\ \A x \in Int : x < at => Shows(is, x) = Shows(was, x)
               /\ \A x \in Int : at <= x => Shows(is, x + len) = Shows(was, x)
               /\ \A x \in Int : at <= x /\ x < at + len =>
                    Shows(is, x) = IF t \in targets THEN {<<"asset", x - at>>} ELSE {}

\* An insert edit at a cut shifts its targets and the sync-locked tracks.
LEMMA InsertEditShifts ==
  ASSUME NEW tl \in Seq(Track), InOrder(tl), NEW targets \in Patched(tl),
         NEW at \in Int, NEW len \in Nat \ {0}, NEW n \in Int
  PROVE  Shifts(tl, targets, at, len, n)
<1> DEFINE after == InsertEdit(tl, targets, at, len, n)
<1>0. SUFFICES ASSUME NEW t \in (targets \cup SyncLocked) \cap TrackIds(tl),
                      \A c \in Range(ClipsOf(tl, t)) : ~Spans(c, at, at)
               PROVE  /\ \A x \in Int : x < at => Shows(ClipsOf(after, t), x) = Shows(ClipsOf(tl, t), x)
                      /\ \A x \in Int : at <= x =>
                           Shows(ClipsOf(after, t), x + len) = Shows(ClipsOf(tl, t), x)
                      /\ \A x \in Int : at <= x /\ x < at + len =>
                           Shows(ClipsOf(after, t), x) = IF t \in targets THEN {<<"asset", x - at>>}
                                                         ELSE {}
  <2> HIDE DEF after
  <2> QED
    BY DEF Shifts, after
<1>1. PICK i \in 1..Len(tl) : tl[i].id = t
  BY TracksIn DEF TrackIds
<1>2. SameTracks(tl, after)
  BY InsertEditIs
<1> HIDE DEF after
<1>3. /\ InOrder(after) /\ Len(after) = Len(tl) /\ after[i].id = t /\ after \in Seq(Track)
  BY <1>1, <1>2, SameTracksInOrder DEF SameTracks
<1>4. ClipsOf(tl, t) = tl[i].clips /\ ClipsOf(after, t) = after[i].clips
  BY <1>1, <1>3, IndexOfTrack DEF ClipsOf
<1> DEFINE was == tl[i].clips
           is == after[i].clips
           W == Range(was)
<1>5. was \in Seq(Clip) /\ W \in SUBSET Clip
  BY TracksIn, InRange
<1>6. \A c \in W : ~Spans(c, at, at)
  BY <1>0, <1>4
<1>7. CASE t \in targets
  <2>0. OnTarget(was, is, at, len)
    <3>1. tl[i].id \in targets
      BY <1>1, <1>7
    <3> QED
      BY <3>1, InsertEditIs DEF after
  <2>1. PICK id \in Int, m \in Int : is = Inserted(was, at, len, NewClip(id, "asset", at, len), m)
    BY <2>0 DEF OnTarget
  <2> DEFINE new == NewClip(id, "asset", at, len)
  <2>2. new \in Clip /\ new.start = at /\ new.end = at + len /\ new.trim = 0 /\ new.source = "asset"
    BY NewClipIsClip DEF NewClip
  <2> HIDE DEF new, was, is
  <2>3. Range(is) = AllPushed(W, at, len) \cup {new}
    <3>1. is = Inserted(was, at, len, new, m)
      BY <2>1 DEF new
    <3>2. len \in Nat /\ was \in Seq(Clip) /\ new \in Clip /\ m \in Int /\ at \in Int
      BY <1>5, <2>1, <2>2
    <3>3. IsCut(Range(was), at)
      BY <1>6 DEF IsCut
    <3> HIDE DEF W
    <3>4. HoldsPushed(Inserted(was, at, len, new, m), was, at, len, new)
      BY <3>2, <3>3, InsertedType
    <3> QED
      BY <3>1, <3>4 DEF W, HoldsPushed
  <2> DEFINE R == Range(is)
             N == {new}
  <2>4. R = AllPushed(W, at, len) \cup N
    BY <2>3
  <2>5. N \in SUBSET Clip /\ \A c \in N : c.start = at /\ c.end = at + len
    BY <2>2
  <2> HIDE DEF R, N, W
  <2>6. ShowsPushed(R, W, N, at, len)
    BY <1>5, <1>6, <2>4, <2>5, PushedShows
  <2>7. ASSUME NEW x \in Int, at <= x, x < at + len PROVE ShownBy(N, x) = {<<"asset", x - at>>}
    <3>1. 0 + x - at = x - at
      OBVIOUS
    <3>2. \A y : y \in ShownBy(N, x) <=> y = <<"asset", x - at>>
      BY <2>2, <2>7, <3>1, Shown DEF N
    <3> QED
      BY <3>2
  <2> QED
    BY <1>4, <1>7, <2>6, <2>7, ShowsIs DEF was, is, R, W, ShowsPushed
<1>8. CASE t \notin targets
  <2>1. Beside(was, is, at, len)
    <3>1. tl[i].id \in SyncLocked /\ tl[i].id \notin targets
      BY <1>1, <1>8
    <3> QED
      BY <3>1, InsertEditIs DEF after
  <2> HIDE DEF was, is
  <2>2. Range(is) = AllPushed(W, at, len)
    BY <2>1 DEF Range, Beside, AllPushed
  <2> DEFINE R == Range(is)
             N == {}
  <2>4. R = AllPushed(W, at, len) \cup N
    BY <2>2
  <2>5. N \in SUBSET Clip /\ \A c \in N : c.start = at /\ c.end = at + len
    OBVIOUS
  <2> HIDE DEF R, N, W
  <2>6. ShowsPushed(R, W, N, at, len)
    BY <1>5, <1>6, <2>4, <2>5, PushedShows
  <2>7. \A x : ShownBy(N, x) = {}
    BY Shown DEF N
  <2> QED
    BY <1>4, <1>8, <2>6, <2>7, ShowsIs DEF was, is, R, W, ShowsPushed
<1> QED
  BY <1>7, <1>8

-----------------------------------------------------------------------------
(* Segment moves *)

\* R shows c where c is, and elsewhere what R0 shows.
Places(R, R0, c) ==
  \A x \in Int : ShownBy(R, x) = IF c.start <= x /\ x < c.end THEN ShownBy({c}, x) ELSE ShownBy(R0, x)

\* R shows nothing between from and to, and elsewhere what R0 shows.
Clears(R, R0, from, to) ==
  \A x \in Int : ShownBy(R, x) = IF from <= x /\ x < to THEN {} ELSE ShownBy(R0, x)

\* R shows what L shows and, where that is nothing, what W shows.
Replaces(R, L, W) ==
  \A x \in Int : ShownBy(R, x) = IF ShownBy(L, x) # {} THEN ShownBy(L, x) ELSE ShownBy(W, x)

\* No two clips overlap.
AllApart(L) == \A c, d \in L : c = d \/ c.end <= d.start \/ d.end <= c.start

\* One clip is cleared of a range: beside the range it is shown as it was.
LEMMA ClearedClears ==
  ASSUME NEW c \in Clip, NEW from \in Int, NEW to \in Int, from <= to, NEW id \in Int
  PROVE  Cleared(c, from, to, id) \in Seq(Clip) /\ Clears(Range(Cleared(c, from, to, id)), {c}, from, to)
<1>1. c.start \in Int /\ c.end \in Int /\ c.start <= c.end /\ c.trim \in Int
  BY ClipFields
<1>2. CASE Spans(c, from, to)
  <2> DEFINE a == Cut(c, from)
             r == Rest(c, to)
             b == [Rest(c, to) EXCEPT !.id = id]
  <2>1. c.start < from /\ c.end > to
    BY <1>2 DEF Spans
  <2>2. a \in Clip /\ a.start = c.start /\ a.end = from /\ a.trim = c.trim /\ a.source = c.source
    BY <1>1, <2>1, CutClip
  <2>3. r \in Clip /\ r.start = to /\ r.end = c.end /\ r.trim = c.trim + to - c.start /\ r.source = c.source
    BY <1>1, <2>1, RestClip
  <2>4. b \in Clip /\ b.start = to /\ b.end = c.end /\ b.trim = c.trim + to - c.start /\ b.source = c.source
    <3> HIDE DEF r
    <3>1. LET d == [r EXCEPT !.id = id]
          IN  d \in Clip /\ d.id = id /\ d.source = r.source /\ d.start = r.start
              /\ d.end = r.end /\ d.trim = r.trim
      BY <2>3, RenamedClip
    <3>2. b = [r EXCEPT !.id = id]
      BY DEF r
    <3> HIDE DEF b
    <3> QED
      BY <2>3, <3>1, <3>2
  <2>5. Cleared(c, from, to, id) = <<a, b>>
    BY <1>2 DEF Cleared
  <2> HIDE DEF a, b, r
  <2>6. Cleared(c, from, to, id) \in Seq(Clip) /\ Range(Cleared(c, from, to, id)) = {a, b}
    BY <2>2, <2>4, <2>5, PairIsSeq
  <2>7. ASSUME NEW x \in Int
        PROVE  ShownBy({a, b}, x) = IF from <= x /\ x < to THEN {} ELSE ShownBy({c}, x)
    <3>1. ASSUME from <= x, x < to PROVE ShownBy({a, b}, x) = {}
      BY <2>2, <2>4, <3>1, Shown
    <3>2. ASSUME x < from PROVE ShownBy({a, b}, x) = ShownBy({c}, x)
      <4>1. \A y : y \in ShownBy({a, b}, x) <=> a.start <= x /\ x < a.end
                                                /\ y = <<a.source, a.trim + x - a.start>>
        BY <2>4, <3>2, Shown
      <4>2. \A y : y \in ShownBy({c}, x) <=> c.start <= x /\ x < c.end
                                             /\ y = <<c.source, c.trim + x - c.start>>
        BY Shown
      <4>3. x < a.end /\ x < c.end
        BY <1>1, <2>1, <2>2, <3>2
      <4> QED
        BY <2>2, <4>1, <4>2, <4>3
    <3>3. ASSUME to <= x PROVE ShownBy({a, b}, x) = ShownBy({c}, x)
      <4>1. \A y : y \in ShownBy({a, b}, x) <=> b.start <= x /\ x < b.end
                                                /\ y = <<b.source, b.trim + x - b.start>>
        BY <2>2, <3>3, Shown
      <4>2. \A y : y \in ShownBy({c}, x) <=> c.start <= x /\ x < c.end
                                             /\ y = <<c.source, c.trim + x - c.start>>
        BY Shown
      <4>3. b.start <= x /\ c.start <= x /\ b.trim + x - b.start = c.trim + x - c.start
        BY <1>1, <2>1, <2>4, <3>3
      <4> QED
        BY <2>4, <4>1, <4>2, <4>3
    <3> QED
      BY <3>1, <3>2, <3>3
  <2> QED
    BY <2>6, <2>7 DEF Clears
<1>3. CASE ~ Spans(c, from, to)
  <2>1. Cleared(c, from, to, id) = Overwritten(c, from, to)
    BY <1>3 DEF Cleared
  <2>2. Overwritten(c, from, to) \in Seq(Clip)
    BY OverwrittenType
  <2> DEFINE R == Range(Overwritten(c, from, to))
  <2>3. c.start >= from \/ c.end <= to
    BY <1>1, <1>3 DEF Spans
  <2>4. ASSUME NEW x \in Int
        PROVE  ShownBy(R, x) = IF from <= x /\ x < to THEN {} ELSE ShownBy({c}, x)
    <3>0. \A y : y \in ShownBy({c}, x) <=> c.start <= x /\ x < c.end
                                           /\ y = <<c.source, c.trim + x - c.start>>
      BY Shown
    <3>1. CASE c.end <= from \/ c.start >= to
      <4>1. R = {c}
        BY <3>1, SmallRanges DEF Overwritten
      <4> HIDE DEF R
      <4>2. from <= x /\ x < to => ShownBy({c}, x) = {}
        <5>1. from <= x /\ x < to => ~ (c.start <= x /\ x < c.end)
          BY <1>1, <3>1
        <5> QED
          BY <3>0, <5>1
      <4> QED
        BY <4>1, <4>2
    <3>2. CASE ~ (c.end <= from \/ c.start >= to) /\ c.start >= from /\ c.end <= to
      <4>1. R = {}
        BY <3>2, SmallRanges DEF Overwritten
      <4> HIDE DEF R
      <4>2. ShownBy(R, x) = {}
        BY <4>1, Shown
      <4>3. ~ (from <= x /\ x < to) => ShownBy({c}, x) = {}
        <5>1. ~ (from <= x /\ x < to) => ~ (c.start <= x /\ x < c.end)
          BY <1>1, <3>2
        <5> QED
          BY <3>0, <5>1
      <4> QED
        BY <4>2, <4>3
    <3>3. CASE ~ (c.end <= from \/ c.start >= to) /\ c.start < from
      <4> DEFINE a == Cut(c, from)
      <4>1. R = {a}
        <5>1. Overwritten(c, from, to) = <<a>>
          BY <1>1, <3>3 DEF Overwritten
        <5> QED
          BY <5>1, SmallRanges
      <4>2. a.start = c.start /\ a.end = from /\ a.trim = c.trim /\ a.source = c.source
        BY <1>1, <3>3, CutClip
      <4> HIDE DEF R, a
      <4>3. \A y : y \in ShownBy(R, x) <=> c.start <= x /\ x < from
                                           /\ y = <<c.source, c.trim + x - c.start>>
        BY <4>1, <4>2, Shown
      <4>4. c.end <= to
        BY <1>1, <2>3, <3>3
      <4>5. from <= x /\ x < to => ShownBy(R, x) = {}
        BY <4>3
      <4>6. x < from => x < c.end
        BY <1>1, <3>3
      <4>7. ~ (from <= x /\ x < to) => (x < from <=> x < c.end)
        BY <1>1, <4>4, <4>6
      <4>8. ~ (from <= x /\ x < to) => ShownBy(R, x) = ShownBy({c}, x)
        BY <3>0, <4>3, <4>7
      <4> QED
        BY <4>5, <4>8
    <3>4. CASE ~ (c.end <= from \/ c.start >= to) /\ ~ (c.start < from) /\ ~ (c.end <= to)
      <4> DEFINE b == Rest(c, to)
      <4>1. R = {b}
        <5>1. Overwritten(c, from, to) = <<b>>
          BY <1>1, <3>4 DEF Overwritten
        <5> QED
          BY <5>1, SmallRanges
      <4>2. b.start = to /\ b.end = c.end /\ b.trim = c.trim + to - c.start /\ b.source = c.source
        BY <1>1, <3>4, RestClip
      <4> HIDE DEF R, b
      <4>3. (c.trim + to - c.start) + x - to = c.trim + x - c.start
        BY <1>1
      <4>4. \A y : y \in ShownBy(R, x) <=> to <= x /\ x < c.end
                                           /\ y = <<c.source, c.trim + x - c.start>>
        BY <4>1, <4>2, <4>3, Shown
      <4>5. from <= x /\ x < to => ShownBy(R, x) = {}
        BY <4>4
      <4>6. ~ (from <= x /\ x < to) => (to <= x <=> c.start <= x)
        BY <1>1, <3>4
      <4>7. ~ (from <= x /\ x < to) => ShownBy(R, x) = ShownBy({c}, x)
        BY <3>0, <4>4, <4>6
      <4> QED
        BY <4>5, <4>7
    <3> QED
      BY <1>1, <3>1, <3>2, <3>3, <3>4
  <2> HIDE DEF R
  <2> QED
    BY <2>1, <2>2, <2>4 DEF Clears, R
<1> QED
  BY <1>2, <1>3

\* So are the clips of a track.
LEMMA ClearRegionClears ==
  ASSUME NEW clips \in Seq(Clip), NEW from \in Int, NEW to \in Int, from <= to, NEW n \in Int
  PROVE  /\ ClearRegion(clips, from, to, n) \in Seq(Clip)
         /\ Clears(Range(ClearRegion(clips, from, to, n)), Range(clips), from, to)
<1> DEFINE ids == { c.id : c \in Range(clips) }
           P(c) == Cleared(c, from, to, n + Rank(c.id, ids))
           ss == [i \in DOMAIN clips |-> P(clips[i])]
           R == Range(FlattenSeq(ss))
<1>1. /\ DOMAIN clips = 1..Len(clips) /\ Len(clips) \in Nat
      /\ \A i \in 1..Len(clips) : clips[i] \in Clip
  OBVIOUS
<1>2. IsFiniteSet(ids)
  BY ClipSetsFinite
<1>3. ClearRegion(clips, from, to, n) = FlattenSeq(ss)
  BY DEF ClearRegion
<1> HIDE DEF ids
<1>4. \A c \in Clip : P(c) \in Seq(Clip) /\ Clears(Range(P(c)), {c}, from, to)
  <2> TAKE c \in Clip
  <2>1. n + Rank(c.id, ids) \in Int
    BY <1>2, RankIsNumber
  <2> QED
    BY <2>1, ClearedClears
<1> HIDE DEF P
<1>5. ss \in [1..Len(clips) -> Seq(Clip)] /\ \A i \in 1..Len(clips) : ss[i] = P(clips[i])
  BY <1>1, <1>4
<1> HIDE DEF ss
<1>6. ss \in Seq(Seq(Clip)) /\ Len(ss) = Len(clips)
  BY <1>1, <1>5, FunctionIsSeq
<1>7. /\ FlattenSeq(ss) \in Seq(Clip)
      /\ \A d : d \in R <=> \E i \in 1..Len(clips) : d \in Range(ss[i])
  BY <1>6, FlattenHolds
<1>8. \A c : c \in Range(clips) <=> \E i \in 1..Len(clips) : clips[i] = c
  BY InRange
<1> HIDE DEF R
<1>9. \A d : d \in R <=> \E c \in Range(clips) : d \in Range(P(c))
  BY <1>5, <1>7, <1>8
<1>10. \A c \in Range(clips) : c \in Clip
  BY <1>1, <1>8
<1>11. ASSUME NEW x \in Int, NEW y
       PROVE  y \in ShownBy(R, x) <=> ~ (from <= x /\ x < to) /\ y \in ShownBy(Range(clips), x)
  <2>1. \A c \in Range(clips) : y \in ShownBy(Range(P(c)), x)
                                <=> ~ (from <= x /\ x < to) /\ y \in ShownBy({c}, x)
    BY <1>4, <1>10 DEF Clears
  <2>2. y \in ShownBy(R, x) <=> \E c \in Range(clips) : y \in ShownBy(Range(P(c)), x)
    BY <1>9, Shown
  <2>3. y \in ShownBy(Range(clips), x) <=> \E c \in Range(clips) : y \in ShownBy({c}, x)
    <3> DEFINE W == Range(clips)
    <3> HIDE DEF W
    <3>1. y \in ShownBy(W, x) => \E c \in W : y \in ShownBy({c}, x)
      BY Shown
    <3>2. (\E c \in W : y \in ShownBy({c}, x)) => y \in ShownBy(W, x)
      BY Shown
    <3> QED
      BY <3>1, <3>2 DEF W
  <2> QED
    BY <2>1, <2>2, <2>3
<1>12. Clears(R, Range(clips), from, to)
  BY <1>11 DEF Clears
<1> QED
  BY <1>3, <1>7, <1>12 DEF R

\* Placing a clip shows it where it lies, and beside it what was shown there.
LEMMA PlacePlaces ==
  ASSUME NEW clips \in Seq(Clip), NEW c \in Clip, NEW n \in Int
  PROVE  Place(clips, c, n) \in Seq(Clip) /\ Places(Range(Place(clips, c, n)), Range(clips), c)
<1> DEFINE id == LastId(clips, n) + 1
           left == ClearRegion(clips, c.start, c.end, id)
           d == [c EXCEPT !.id = id]
<1>1. id \in Int
  BY LastIdIsNumber
<1>2. Place(clips, c, n) = Append(left, d)
  BY DEF Place
<1>3. c.start \in Int /\ c.end \in Int /\ c.start <= c.end
  BY ClipFields
<1> HIDE DEF id
<1>4. left \in Seq(Clip) /\ Clears(Range(left), Range(clips), c.start, c.end)
  BY <1>1, <1>3, ClearRegionClears
<1>5. d \in Clip /\ d.source = c.source /\ d.start = c.start /\ d.end = c.end /\ d.trim = c.trim
  BY <1>1, RenamedClip
<1> HIDE DEF left, d
<1>6. Append(left, d) \in Seq(Clip) /\ Range(Append(left, d)) = Range(left) \cup {d}
  BY <1>4, <1>5, AppendedClips
<1> DEFINE R == Range(Append(left, d))
<1>7. \A e : e \in R <=> e \in Range(left) \/ e = d
  BY <1>6
<1> HIDE DEF R
<1>8. ASSUME NEW x \in Int
      PROVE  ShownBy(R, x) = IF c.start <= x /\ x < c.end THEN ShownBy({c}, x)
                             ELSE ShownBy(Range(clips), x)
  <2>1. \A y : y \in ShownBy(R, x) <=> y \in ShownBy(Range(left), x) \/ y \in ShownBy({d}, x)
    BY <1>7, Shown
  <2>2. \A y : y \in ShownBy({d}, x) <=> y \in ShownBy({c}, x)
    BY <1>5, Shown
  <2>3. ~ (c.start <= x /\ x < c.end) => \A y : y \notin ShownBy({c}, x)
    BY Shown
  <2>4. c.start <= x /\ x < c.end => \A y : y \notin ShownBy(Range(left), x)
    BY <1>4 DEF Clears
  <2>5. ~ (c.start <= x /\ x < c.end) => ShownBy(Range(left), x) = ShownBy(Range(clips), x)
    BY <1>4 DEF Clears
  <2> QED
    BY <2>1, <2>2, <2>3, <2>4, <2>5
<1> QED
  BY <1>2, <1>6, <1>8 DEF Places, R

\* One more clip is placed, beside those that have been.
LEMMA OneMorePlaced ==
  ASSUME NEW W, NEW L \in SUBSET Clip, NEW c \in Clip, NEW R0, NEW R,
         Replaces(R0, L, W), Places(R, R0, c), AllApart(L \cup {c})
  PROVE  Replaces(R, L \cup {c}, W)
<1> DEFINE M == L \cup {c}
<1>1. \A x, y : y \in ShownBy(M, x) <=> y \in ShownBy(L, x) \/ y \in ShownBy({c}, x)
  BY Shown
<1>2. \A d \in L : d = c \/ d.end <= c.start \/ c.end <= d.start
  BY DEF AllApart
<1>3. \A d \in L : d.start \in Int /\ d.end \in Int
  BY ClipFields
<1>4. c.start \in Int /\ c.end \in Int
  BY ClipFields
<1> HIDE DEF M
<1>5. ASSUME NEW x \in Int
      PROVE  ShownBy(R, x) = IF ShownBy(M, x) # {} THEN ShownBy(M, x) ELSE ShownBy(W, x)
  <2>1. CASE c.start <= x /\ x < c.end
    <3>1. ShownBy(R, x) = ShownBy({c}, x)
      BY <2>1 DEF Places
    <3>2. <<c.source, c.trim + x - c.start>> \in ShownBy({c}, x)
      BY <2>1, Shown
    <3>3. ASSUME NEW y, y \in ShownBy(L, x) PROVE y \in ShownBy({c}, x)
      <4>1. PICK d \in L : d.start <= x /\ x < d.end /\ y = <<d.source, d.trim + x - d.start>>
        BY <3>3, Shown
      <4>2. d = c
        BY <1>2, <1>3, <1>4, <2>1, <4>1
      <4> QED
        BY <4>1, <4>2, Shown
    <3>4. ShownBy(M, x) = ShownBy({c}, x)
      BY <1>1, <3>3
    <3> QED
      BY <3>1, <3>2, <3>4
  <2>2. CASE ~ (c.start <= x /\ x < c.end)
    <3>1. ShownBy(R, x) = ShownBy(R0, x)
      BY <2>2 DEF Places
    <3>2. \A y : y \notin ShownBy({c}, x)
      BY <2>2, Shown
    <3>3. ShownBy(M, x) = ShownBy(L, x)
      BY <1>1, <3>2
    <3>4. ShownBy(R0, x) = IF ShownBy(L, x) # {} THEN ShownBy(L, x) ELSE ShownBy(W, x)
      BY DEF Replaces
    <3> QED
      BY <3>1, <3>3, <3>4
  <2> QED
    BY <2>1, <2>2
<1> QED
  BY <1>5 DEF Replaces, M


\* What clips are left when one of `landed` after the other is placed.
PlacedFrom(f, clips, landed, n) ==
  f = [k \in 0..Len(landed) |-> IF k = 0 THEN clips ELSE Place(f[k - 1], landed[k], n)]

\* Placed is the last value of the function its recursion chooses.
LEMMA PlacedChoice ==
  ASSUME NEW clips, NEW landed, NEW n
  PROVE  Placed(clips, landed, n) = (CHOOSE f : PlacedFrom(f, clips, landed, n))[Len(landed)]
BY DEF Placed, PlacedFrom

\* The first k of them.
LandedUpTo(landed, k) == { landed[j] : j \in 1..k }

\* The clips that have been placed replace what was there.
LEMMA PlacedReplaces ==
  ASSUME NEW clips \in Seq(Clip), NEW landed \in Seq(Clip), NEW n \in Int
  PROVE  /\ Placed(clips, landed, n) \in Seq(Clip)
         /\ AllApart(Range(landed)) =>
              Replaces(Range(Placed(clips, landed, n)), Range(landed), Range(clips))
<1> DEFINE m == Len(landed)
           f == CHOOSE g : PlacedFrom(g, clips, landed, n)
           G == [p \in Seq(Clip) \X (1..m) |-> Place(p[1], landed[p[2]], n)]
           L(k) == LandedUpTo(landed, k)
<1>1. m \in Nat /\ \A i \in 1..m : landed[i] \in Clip
  OBVIOUS
<1>2. \E g : PlacedFrom(g, clips, landed, n)
  <2> HIDE DEF m
  <2>1. \A s \in Seq(Clip), k \in 1..m : G[<<s, k>>] = Place(s, landed[k], n)
    OBVIOUS
  <2>2. G \in [Seq(Clip) \X (1..m) -> Seq(Clip)]
    BY <1>1, PlacePlaces
  <2> HIDE DEF G
  <2>3. PICK r \in [0..m -> Seq(Clip)] : Recurs(r, clips, G, m)
    <3> DEFINE U == Seq(Clip)
    <3>1. clips \in U /\ G \in [U \X (1..m) -> U]
      BY <2>2
    <3> HIDE DEF U
    <3>2. \E r \in [0..m -> U] : Recurs(r, clips, G, m)
      BY <1>1, <3>1, Recursion
    <3> QED
      BY <3>2 DEF U
  <2>4. \A k \in 1..m : k - 1 \in 0..m /\ r[k - 1] \in Seq(Clip)
    BY <1>1
  <2>5. \A k \in 1..m : r[k] = Place(r[k - 1], landed[k], n)
    BY <2>1, <2>3, <2>4 DEF Recurs
  <2>6. r[0] = clips
    BY <2>3 DEF Recurs
  <2>7. r = [k \in 0..m |-> IF k = 0 THEN clips ELSE Place(r[k - 1], landed[k], n)]
    BY <1>1, <2>5, <2>6
  <2> QED
    BY <2>7 DEF PlacedFrom, m
<1>3. PlacedFrom(f, clips, landed, n)
  BY <1>2
<1> HIDE DEF f
<1>4. \A k \in 0..m : f[k] = IF k = 0 THEN clips ELSE Place(f[k - 1], landed[k], n)
  BY <1>3 DEF PlacedFrom
<1>5. /\ f[0] = clips
      /\ \A k \in 1..m : k - 1 \in 0..m /\ f[k] = Place(f[k - 1], landed[k], n)
  <2> HIDE DEF m
  <2>1. 0 \in 0..m /\ \A k \in 1..m : k \in 0..m /\ k # 0 /\ k - 1 \in 0..m
    BY <1>1
  <2> QED
    BY <1>4, <2>1
<1> DEFINE T == { k \in 0..m : f[k] \in Seq(Clip) }
<1>6. \A k \in 0..m : f[k] \in Seq(Clip)
  <2> HIDE DEF m
  <2>1. 0 \in T
    BY <1>1, <1>5
  <2>2. ASSUME NEW k \in 1..m, k - 1 \in T PROVE k \in T
    <3>1. f[k - 1] \in Seq(Clip) /\ k \in 0..m
      BY <1>1, <2>2
    <3>2. f[k] \in Seq(Clip)
      BY <1>1, <1>5, <3>1, PlacePlaces
    <3> QED
      BY <3>1, <3>2
  <2>3. \A k \in 0..m : k \in T
    <3> HIDE DEF T
    <3> QED
      BY <1>1, <2>1, <2>2, UpToInduction
  <2> QED
    BY <2>3
<1>7. ASSUME AllApart(Range(landed))
      PROVE  \A k \in 0..m : Replaces(Range(f[k]), L(k), Range(clips))
  <2> DEFINE V == { k \in 0..m : Replaces(Range(f[k]), L(k), Range(clips)) }
  <2>0. \A x : x \in Range(landed) <=> \E j \in 1..m : landed[j] = x
    BY InRange
  <2> HIDE DEF m
  <2>1. 0 \in V
    <3>1. \A x : ShownBy(L(0), x) = {}
      BY Shown DEF LandedUpTo
    <3>2. Replaces(Range(clips), L(0), Range(clips))
      <4> HIDE DEF L
      <4> QED
        BY <3>1 DEF Replaces
    <3> QED
      BY <1>1, <1>5, <3>2
  <2>2. ASSUME NEW k \in 1..m, k - 1 \in V PROVE k \in V
    <3> DEFINE c == landed[k]
               M == L(k - 1)
    <3>1. k - 1 \in 0..m /\ k \in 0..m /\ f[k - 1] \in Seq(Clip) /\ c \in Clip
      BY <1>1, <1>5, <1>6
    <3>2. Replaces(Range(f[k - 1]), M, Range(clips))
      BY <2>2
    <3>3. f[k] = Place(f[k - 1], c, n)
      BY <1>5
    <3>4. Places(Range(f[k]), Range(f[k - 1]), c)
      <4>1. Places(Range(Place(f[k - 1], c, n)), Range(f[k - 1]), c)
        <5> HIDE DEF c
        <5> QED
          BY <3>1, PlacePlaces
      <4> QED
        BY <3>3, <4>1
    <3>5. M \in SUBSET Clip
      <4>1. \A j \in 1..(k - 1) : j \in 1..m
        BY <1>1
      <4> QED
        BY <1>1, <4>1 DEF LandedUpTo
    <3>6. L(k) = M \cup {c}
      <4>1. 1..k = (1..(k - 1)) \cup {k}
        BY <1>1
      <4> QED
        BY <4>1 DEF LandedUpTo
    <3>7. L(k) \subseteq Range(landed)
      <4>1. \A j \in 1..k : j \in 1..m
        BY <1>1
      <4> QED
        BY <2>0, <4>1 DEF LandedUpTo
    <3>8. AllApart(M \cup {c})
      <4>1. \A d \in M \cup {c} : d \in Range(landed)
        BY <3>6, <3>7
      <4> QED
        BY <1>7, <4>1 DEF AllApart
    <3> DEFINE R == Range(f[k])
               R0 == Range(f[k - 1])
               W == Range(clips)
    <3> HIDE DEF M, c, R, R0, W, L
    <3>9. Replaces(R, M \cup {c}, W)
      <4>1. Replaces(R0, M, W) /\ Places(R, R0, c)
        BY <3>2, <3>4 DEF R, R0, W
      <4> QED
        BY <3>1, <3>5, <3>8, <4>1, OneMorePlaced
    <3>10. Replaces(Range(f[k]), L(k), Range(clips))
      BY <3>6, <3>9 DEF R, W
    <3> QED
      BY <3>1, <3>10
  <2>3. \A k \in 0..m : k \in V
    <3> HIDE DEF V
    <3> QED
      BY <1>1, <2>1, <2>2, UpToInduction
  <2> QED
    BY <2>3
<1>8. L(m) = Range(landed)
  <2>1. \A x : x \in Range(landed) <=> \E j \in 1..m : landed[j] = x
    BY InRange
  <2> HIDE DEF m
  <2>2. \A x : x \in L(m) <=> \E j \in 1..m : landed[j] = x
    BY DEF LandedUpTo
  <2> QED
    BY <2>1, <2>2
<1>9. m \in 0..m /\ Placed(clips, landed, n) = f[m]
  <2>1. Placed(clips, landed, n) = f[m]
    BY PlacedChoice DEF f
  <2> HIDE DEF m
  <2> QED
    BY <1>1, <2>1
<1>10. f[m] \in Seq(Clip)
  BY <1>6, <1>9
<1>11. AllApart(Range(landed)) => Replaces(Range(f[m]), Range(landed), Range(clips))
  BY <1>7, <1>8, <1>9
<1> QED
  BY <1>9, <1>10, <1>11

\* The clips that are moved are clips of the timeline, and there are some where there are
\* some with an id that is moved.
LEMMA MovingHolds ==
  ASSUME NEW tl \in Seq(Track), NEW ids
  PROVE  Moving(tl, ids) \in Seq(Clip) /\ (ids \cap ClipIds(tl) # {} => Moving(tl, ids) # <<>>)
<1> DEFINE ss == [i \in DOMAIN tl |-> tl[i].clips]
           all == FlattenSeq(ss)
<1>1. /\ Len(tl) \in Nat /\ DOMAIN tl = 1..Len(tl)
      /\ \A i \in 1..Len(tl) : tl[i].clips \in Seq(Clip)
  BY TracksIn
<1>2. ss \in [1..Len(tl) -> Seq(Clip)] /\ \A i \in 1..Len(tl) : ss[i] = tl[i].clips
  BY <1>1
<1>3. Moving(tl, ids) = With(all, ids)
  BY DEF Moving
<1> HIDE DEF ss
<1>4. ss \in Seq(Seq(Clip)) /\ Len(ss) = Len(tl)
  BY <1>1, <1>2, FunctionIsSeq
<1>5. all \in Seq(Clip) /\ \A x : x \in Range(all) <=> \E i \in 1..Len(tl) : x \in Range(ss[i])
  BY <1>4, FlattenHolds
<1> HIDE DEF all
<1>6. /\ With(all, ids) \in Seq(Clip)
      /\ Range(With(all, ids)) = { c \in Range(all) : c.id \in ids }
  BY <1>5, WithHolds
<1>7. ASSUME ids \cap ClipIds(tl) # {} PROVE With(all, ids) # <<>>
  <2>0. PICK i \in 1..Len(tl) : \E c \in Range(tl[i].clips) : c.id \in ids
    BY <1>1, <1>7 DEF ClipIds
  <2>1. PICK c \in Range(tl[i].clips) : c.id \in ids
    BY <2>0
  <2>2. c \in Range(all)
    BY <1>2, <1>5, <2>1
  <2>3. c \in Range(With(all, ids))
    BY <1>6, <2>1, <2>2
  <2> QED
    BY <2>3, SmallRanges
<1> QED
  BY <1>3, <1>6, <1>7

\* They are moved together: apart before, they are apart after.
LEMMA LandedHolds ==
  ASSUME NEW tl \in Seq(Track), NEW ids, Moving(tl, ids) # <<>>, NEW at \in Int
  PROVE  /\ Landed(tl, ids, at) \in Seq(Clip) /\ Landed(tl, ids, at) # <<>>
         /\ AllApart(Range(Moving(tl, ids))) => AllApart(Range(Landed(tl, ids, at)))
<1> DEFINE moving == Moving(tl, ids)
           n == Len(moving)
           d == at - Earliest(moving)
           landed == Landed(tl, ids, at)
<1>1. moving \in Seq(Clip) /\ moving # <<>>
  BY MovingHolds
<1> HIDE DEF moving
<1>2. /\ n \in Nat /\ n # 0 /\ DOMAIN moving = 1..n
      /\ \A i \in 1..n : moving[i] \in Clip
  BY <1>1, EmptySeq
<1>3. d \in Int
  BY <1>1, EarliestIsStart
<1>4. landed = [i \in 1..n |-> Shifted(moving[i], d)]
  BY <1>2 DEF Landed, moving
<1> HIDE DEF landed, d
<1>5. \A i \in 1..n : landed[i] \in Clip
  BY <1>2, <1>3, <1>4, ShiftedClip
<1>6. landed \in [1..n -> Clip]
  BY <1>4, <1>5
<1>7. landed \in Seq(Clip) /\ Len(landed) = n
  BY <1>2, <1>6, FunctionIsSeq
<1>8. landed # <<>>
  BY <1>2, <1>7
<1>9. ASSUME AllApart(Range(moving)) PROVE AllApart(Range(landed))
  <2>1. ASSUME NEW a \in Range(landed), NEW b \in Range(landed)
        PROVE  a = b \/ a.end <= b.start \/ b.end <= a.start
    <3>1. PICK i \in 1..n : landed[i] = a
      BY <1>7, InRange
    <3>2. PICK j \in 1..n : landed[j] = b
      BY <1>7, InRange
    <3> DEFINE p == moving[i]
               q == moving[j]
    <3>3. p \in Clip /\ q \in Clip /\ a = Shifted(p, d) /\ b = Shifted(q, d)
      BY <1>2, <1>4, <3>1, <3>2
    <3>4. p \in Range(moving) /\ q \in Range(moving)
      BY <1>1, InRange
    <3>5. p = q \/ p.end <= q.start \/ q.end <= p.start
      BY <1>9, <3>4 DEF AllApart
    <3> HIDE DEF p, q
    <3>6. /\ p.start \in Int /\ p.end \in Int /\ q.start \in Int /\ q.end \in Int
          /\ a.start = p.start + d /\ a.end = p.end + d
          /\ b.start = q.start + d /\ b.end = q.end + d
      BY <1>3, <3>3, ClipFields, ShiftedClip
    <3> QED
      BY <1>3, <3>3, <3>5, <3>6
  <2> QED
    BY <2>1 DEF AllApart
<1> QED
  BY <1>7, <1>8, <1>9 DEF landed, moving

\* What a segment move changes: the clips leave their tracks, and land on one.
OnLanding(tl, after, ids, track, is) ==
  /\ SameTracks(tl, after)
  /\ ClipsOf(RemoveClips(tl, ids), track) \in Seq(Clip)
  /\ ClipsOf(after, track) = is

\* The clips of one track become others.
LEMMA OneReclipped ==
  ASSUME NEW tl \in Seq(Track), InOrder(tl), NEW ids, NEW track \in TrackIds(tl),
         NEW is \in Seq(Clip), NEW after,
         after = [i \in DOMAIN RemoveClips(tl, ids) |->
                    IF RemoveClips(tl, ids)[i].id \in {track}
                    THEN [RemoveClips(tl, ids)[i] EXCEPT !.clips = is]
                    ELSE RemoveClips(tl, ids)[i]]
  PROVE  OnLanding(tl, after, ids, track, is)
<1> DEFINE left == RemoveClips(tl, ids)
           E == [i \in 1..Len(left) |-> is]
<1>1. SameTracks(tl, left)
  BY RemoveClipsKeeps
<1> HIDE DEF left
<1>2. left \in Seq(Track) /\ InOrder(left) /\ Len(left) = Len(tl)
  BY <1>1, SameTracksInOrder DEF SameTracks
<1>3. DOMAIN left = 1..Len(left)
  BY <1>2, TracksIn
<1>4. after = [i \in DOMAIN left |-> IF left[i].id \in {track}
                                     THEN [left[i] EXCEPT !.clips = E[i]] ELSE left[i]]
  BY <1>3 DEF left
<1>5. \A i \in 1..Len(left) : left[i].id \in {track} => E[i] \in Seq(Clip)
  OBVIOUS
<1>6. \A i \in 1..Len(left) : E[i] = is
  OBVIOUS
<1> HIDE DEF E
<1>7. Reclips(left, {track}, E, after)
  BY <1>2, <1>4, <1>5, ReclippedKeeps
<1>8. SameTracks(left, after)
  BY <1>7 DEF Reclips
<1>9. SameTracks(tl, after)
  BY <1>1, <1>8 DEF SameTracks
<1>10. InOrder(after) /\ Len(after) = Len(tl) /\ after \in Seq(Track)
  BY <1>9, SameTracksInOrder DEF SameTracks
<1>11. PICK i \in 1..Len(tl) : tl[i].id = track
  BY TracksIn DEF TrackIds
<1>12. left[i].id = track /\ after[i].id = track
  BY <1>1, <1>9, <1>11, SameTracksInOrder
<1>13. IndexOf(left, track) = i /\ IndexOf(after, track) = i
  BY <1>2, <1>10, <1>12, IndexOfTrack
<1>14. ClipsOf(left, track) = left[i].clips /\ ClipsOf(after, track) = after[i].clips
  BY <1>13 DEF ClipsOf
<1>15. left[i].clips \in Seq(Clip)
  BY <1>2, TracksIn
<1>16. after[i].clips = is
  BY <1>2, <1>6, <1>7, <1>12 DEF Reclips
<1> QED
  BY <1>9, <1>14, <1>15, <1>16 DEF OnLanding, left

\* What a move makes of the track it lands on: `landed` replaces what it covers of `rest`.
Replaced(is, landed, rest) ==
  \A x \in Int : Shows(is, x) = IF Shows(landed, x) # {} THEN Shows(landed, x) ELSE Shows(rest, x)
\* What OverwriteSegmentTo() makes of the track it goes to, when the segment's clips do
\* not overlap.
OverwriteReplaces(tl, after, ids, track, at) ==
  Apart(Moving(tl, ids)) =>
    Replaced(ClipsOf(after, track), Landed(tl, ids, at), ClipsOf(RemoveClips(tl, ids), track))

\* A segment that is dragged onto other material replaces what it covers.
LEMMA OverwriteSegmentLands ==
  ASSUME NEW tl \in Seq(Track), InOrder(tl), NEW ids, NEW track, CanMoveSegment(tl, ids, track),
         NEW at \in Int, NEW n \in Int
  PROVE  LET after == OverwriteSegmentTo(tl, ids, track, at, n)
         IN  SameTracks(tl, after) /\ OverwriteReplaces(tl, after, ids, track, at)
<1> DEFINE after == OverwriteSegmentTo(tl, ids, track, at, n)
           left == RemoveClips(tl, ids)
           rest == ClipsOf(left, track)
           landed == Landed(tl, ids, at)
           placed == Placed(rest, landed, n)
           is == Sorted(placed)
<1>1. track \in TrackIds(tl) /\ ids \cap ClipIds(tl) # {}
  BY DEF CanMoveSegment, Unlocked
<1>2. Moving(tl, ids) # <<>>
  BY <1>1, MovingHolds
<1>3. landed \in Seq(Clip) /\ (AllApart(Range(Moving(tl, ids))) => AllApart(Range(landed)))
  BY <1>2, LandedHolds
<1>4. SameTracks(tl, left)
  BY RemoveClipsKeeps
<1>5. after = [i \in DOMAIN left |-> IF left[i].id \in {track}
                 THEN [left[i] EXCEPT !.clips = Sorted(Placed(left[i].clips, landed, n))]
                 ELSE left[i]]
  BY DEF OverwriteSegmentTo, OnTracks
<1> HIDE DEF left, landed, after
<1>6. left \in Seq(Track) /\ InOrder(left) /\ DOMAIN left = 1..Len(left) /\ track \in TrackIds(left)
  <2>1. left \in Seq(Track) /\ InOrder(left) /\ Len(left) = Len(tl)
        /\ \A i \in 1..Len(tl) : left[i].id = tl[i].id
    BY <1>4, SameTracksInOrder DEF SameTracks
  <2>2. DOMAIN left = 1..Len(left) /\ DOMAIN tl = 1..Len(tl)
    BY <2>1, TracksIn
  <2> QED
    BY <1>1, <2>1, <2>2 DEF TrackIds
<1>7. \A i \in 1..Len(left) : left[i].id = track => left[i].clips = rest
  BY <1>6, IndexOfTrack DEF ClipsOf
<1>8. rest \in Seq(Clip)
  <2>1. IndexOf(left, track) \in 1..Len(left)
    BY <1>6, ClipsIn
  <2> QED
    BY <1>6, <2>1, TracksIn DEF ClipsOf
<1>9. after = [i \in DOMAIN left |-> IF left[i].id \in {track}
                 THEN [left[i] EXCEPT !.clips = is] ELSE left[i]]
  BY <1>5, <1>6, <1>7
<1> HIDE DEF rest
<1>10. /\ placed \in Seq(Clip)
       /\ AllApart(Range(landed)) => Replaces(Range(placed), Range(landed), Range(rest))
  BY <1>3, <1>8, PlacedReplaces
<1> HIDE DEF placed
<1>11. is \in Seq(Clip) /\ Range(is) = Range(placed)
  BY <1>10, SortedHolds
<1> HIDE DEF is
<1>12. OnLanding(tl, after, ids, track, is)
  BY <1>1, <1>9, <1>11, OneReclipped DEF left
<1>13. ClipsOf(after, track) = is /\ SameTracks(tl, after)
  BY <1>12 DEF OnLanding
<1>14. ASSUME Apart(Moving(tl, ids)) PROVE Replaced(is, landed, rest)
  <2>1. AllApart(Range(landed))
    BY <1>3, <1>14 DEF Apart, AllApart
  <2>2. Replaces(Range(is), Range(landed), Range(rest))
    BY <1>10, <1>11, <2>1
  <2> QED
    BY <2>2, ShowsIs DEF Replaces, Replaced
<1> QED
  BY <1>13, <1>14 DEF OverwriteReplaces, after, left, landed, rest

\* One that is spliced in keeps the tracks.
LEMMA SpliceSegmentKeeps ==
  ASSUME NEW tl \in Seq(Track), NEW ids, NEW track, CanMoveSegment(tl, ids, track),
         NEW at \in Int, NEW n \in Int
  PROVE  SameTracks(tl, SpliceSegmentTo(tl, ids, track, at, n))
<1> DEFINE after == SpliceSegmentTo(tl, ids, track, at, n)
           left == RemoveClips(tl, ids)
           moving == Moving(tl, ids)
           landed == Landed(tl, ids, at)
           span == Latest(moving) - Earliest(moving)
           new == [i \in DOMAIN landed |-> [landed[i] EXCEPT !.id = n + i]]
           Left(clips) == [i \in DOMAIN clips |-> Pushed(clips[i], at, span)]
           E == [i \in 1..Len(left) |-> Sorted(Left(left[i].clips) \o new)]
<1>1. moving # <<>> /\ moving \in Seq(Clip)
  BY MovingHolds DEF CanMoveSegment
<1>2. span \in Int
  BY <1>1, EarliestIsStart, LatestIsEnd
<1>3. landed \in Seq(Clip)
  BY <1>1, LandedHolds
<1>4. SameTracks(tl, left) /\ left \in Seq(Track)
  BY RemoveClipsKeeps DEF SameTracks
<1>5. DOMAIN left = 1..Len(left) /\ \A i \in 1..Len(left) : left[i].clips \in Seq(Clip)
  BY <1>4, TracksIn
<1>6. after = [i \in DOMAIN left |-> IF left[i].id \in {track}
                 THEN [left[i] EXCEPT !.clips = E[i]] ELSE left[i]]
  <2> HIDE DEF left, landed, moving
  <2> QED
    BY <1>5 DEF SpliceSegmentTo, OnTracks, left, landed, moving
<1> HIDE DEF left, landed, after, span
<1>7. new \in Seq(Clip)
  <2>1. Len(landed) \in Nat /\ DOMAIN landed = 1..Len(landed)
        /\ \A i \in 1..Len(landed) : landed[i] \in Clip /\ n + i \in Int
    BY <1>3
  <2>2. \A i \in 1..Len(landed) : [landed[i] EXCEPT !.id = n + i] \in Clip
    BY <2>1, RenamedClip
  <2>3. new \in [1..Len(landed) -> Clip]
    BY <2>1, <2>2
  <2> HIDE DEF new
  <2> QED
    BY <2>1, <2>3, FunctionIsSeq
<1>8. ASSUME NEW clips \in Seq(Clip) PROVE Left(clips) \in Seq(Clip)
  <2>1. Len(clips) \in Nat /\ DOMAIN clips = 1..Len(clips)
        /\ \A i \in 1..Len(clips) : clips[i] \in Clip
    OBVIOUS
  <2>2. \A i \in 1..Len(clips) : Pushed(clips[i], at, span) \in Clip
    BY <1>2, <2>1, PushedClip
  <2>3. Left(clips) \in [1..Len(clips) -> Clip]
    BY <2>1, <2>2
  <2> HIDE DEF Left
  <2> QED
    BY <2>1, <2>3, FunctionIsSeq
<1> HIDE DEF new, Left
<1>9. \A i \in 1..Len(left) : E[i] \in Seq(Clip)
  <2>1. \A i \in 1..Len(left) : Left(left[i].clips) \o new \in Seq(Clip)
    BY <1>5, <1>7, <1>8, ConcatProperties
  <2> QED
    BY <2>1, SortedHolds
<1> HIDE DEF E
<1>10. Reclips(left, {track}, E, after)
  BY <1>4, <1>6, <1>9, ReclippedKeeps
<1>11. SameTracks(left, after)
  BY <1>10 DEF Reclips
<1> QED
  BY <1>4, <1>11 DEF SameTracks, after

-----------------------------------------------------------------------------
(* Outlines and contents *)

\* What two timelines with the same outline, and with the same content, have in common.
SameOutline(tl, u) ==
  /\ Len(tl) = Len(u)
  /\ \A i \in 1..Len(tl) : tl[i].id = u[i].id /\ tl[i].order = u[i].order
\* Two timelines of the same content, track by track.
SameContent(tl, u) ==
  /\ Len(tl) = Len(u)
  /\ \A i \in 1..Len(tl) :
       /\ tl[i].id = u[i].id /\ tl[i].order = u[i].order /\ tl[i].locked = u[i].locked
       /\ Range(tl[i].clips) = Range(u[i].clips)

\* Outlines are the same when they are the same track by track.
LEMMA OutlineGives ==
  ASSUME NEW tl \in Seq(Track), NEW u \in Seq(Track), Outline(tl) = Outline(u)
  PROVE  SameOutline(tl, u)
<1>1. /\ DOMAIN tl = 1..Len(tl) /\ DOMAIN u = 1..Len(u) /\ Len(tl) \in Nat /\ Len(u) \in Nat
  BY TracksIn
<1>2. DOMAIN Outline(tl) = 1..Len(tl) /\ DOMAIN Outline(u) = 1..Len(u)
  BY <1>1 DEF Outline
<1>3. Len(u) = Len(tl)
  <2>1. 1..Len(u) = 1..Len(tl)
    BY <1>2
  <2> QED
    BY <1>1, <2>1, SameBounds
<1>4. ASSUME NEW i \in 1..Len(tl) PROVE tl[i].id = u[i].id /\ tl[i].order = u[i].order
  <2>1. Outline(u)[i] = <<u[i].id, u[i].order>> /\ Outline(tl)[i] = <<tl[i].id, tl[i].order>>
    BY <1>1, <1>3 DEF Outline
  <2> QED
    BY <2>1
<1> QED
  BY <1>3, <1>4 DEF SameOutline

\* And the other way round.
LEMMA OutlineFrom ==
  ASSUME NEW tl \in Seq(Track), NEW u \in Seq(Track), SameOutline(tl, u)
  PROVE  Outline(tl) = Outline(u)
BY TracksIn DEF SameOutline, Outline

\* A track with the set of its clips.
Held(t) == [id |-> t.id, order |-> t.order, locked |-> t.locked, clips |-> Range(t.clips)]
\* What timelines hold.
Contents == Seq([id : Int, order : Int, locked : BOOLEAN, clips : SUBSET Clip])

\* The content of a timeline, track by track.
LEMMA ContentHeld ==
  ASSUME NEW tl \in Seq(Track)
  PROVE  Content(tl) = [i \in 1..Len(tl) |-> Held(tl[i])] /\ Content(tl) \in Contents
<1>1. DOMAIN tl = 1..Len(tl) /\ Len(tl) \in Nat /\ \A i \in 1..Len(tl) : tl[i] \in Track
  BY TracksIn
<1>2. ASSUME NEW t \in Track
      PROVE  /\ [t EXCEPT !.clips = Range(@)] = Held(t)
             /\ Held(t) \in [id : Int, order : Int, locked : BOOLEAN, clips : SUBSET Clip]
  <2>1. t = [id |-> t.id, order |-> t.order, locked |-> t.locked, clips |-> t.clips]
    BY DEF Track
  <2>2. t.id \in Int /\ t.order \in Int /\ t.locked \in BOOLEAN /\ t.clips \in Seq(Clip)
    BY TrackFields
  <2>3. Range(t.clips) \in SUBSET Clip
    BY <2>2, InRange
  <2> DEFINE a == t.id
             b == t.order
             d == t.locked
             e == t.clips
             f == Range(t.clips)
  <2>4. [t EXCEPT !.clips = f] = [id |-> a, order |-> b, locked |-> d, clips |-> f]
    <3>1. t = [id |-> a, order |-> b, locked |-> d, clips |-> e]
      BY <2>1
    <3> HIDE DEF a, b, d, e, f
    <3>2. [[id |-> a, order |-> b, locked |-> d, clips |-> e] EXCEPT !.clips = f]
            = [id |-> a, order |-> b, locked |-> d, clips |-> f]
      OBVIOUS
    <3> QED
      BY <3>1, <3>2
  <2>5. [t EXCEPT !.clips = Range(@)] = [t EXCEPT !.clips = f]
    OBVIOUS
  <2>6. Held(t) = [id |-> a, order |-> b, locked |-> d, clips |-> f]
    BY DEF Held
  <2>7. a \in Int /\ b \in Int /\ d \in BOOLEAN /\ f \in SUBSET Clip
    BY <2>2, <2>3
  <2> HIDE DEF a, b, d, e, f
  <2>8. [id |-> a, order |-> b, locked |-> d, clips |-> f]
          \in [id : Int, order : Int, locked : BOOLEAN, clips : SUBSET Clip]
    BY <2>7
  <2> QED
    BY <2>4, <2>5, <2>6, <2>8
<1>3. Content(tl) = [i \in 1..Len(tl) |-> Held(tl[i])]
  BY <1>1, <1>2 DEF Content
<1>4. Content(tl) \in Contents
  <2> DEFINE S == [id : Int, order : Int, locked : BOOLEAN, clips : SUBSET Clip]
  <2>1. \A i \in 1..Len(tl) : Held(tl[i]) \in S
    BY <1>1, <1>2
  <2> HIDE DEF S
  <2>2. Content(tl) \in [1..Len(tl) -> S]
    BY <1>3, <2>1
  <2>3. Content(tl) \in Seq(S)
    BY <1>1, <2>2, FunctionIsSeq
  <2> QED
    BY <2>3 DEF Contents, S
<1> QED
  BY <1>3, <1>4

\* Contents are the same when they are the same track by track.
LEMMA ContentGives ==
  ASSUME NEW tl \in Seq(Track), NEW u \in Seq(Track), Content(tl) = Content(u)
  PROVE  SameContent(tl, u)
<1>1. Len(tl) \in Nat /\ Len(u) \in Nat
  BY TracksIn
<1>2. /\ Content(tl) = [i \in 1..Len(tl) |-> Held(tl[i])]
      /\ Content(u) = [i \in 1..Len(u) |-> Held(u[i])]
  BY ContentHeld
<1>3. Len(tl) = Len(u)
  <2>1. 1..Len(u) = 1..Len(tl)
    BY <1>2
  <2> QED
    BY <1>1, <2>1, SameBounds
<1>4. \A i \in 1..Len(tl) : Held(tl[i]) = Held(u[i])
  <2> TAKE i \in 1..Len(tl)
  <2>1. Content(tl)[i] = Held(tl[i]) /\ Content(u)[i] = Held(u[i])
    BY <1>2, <1>3
  <2> QED
    BY <2>1
<1>5. ASSUME NEW t, NEW v, Held(t) = Held(v)
      PROVE  /\ t.id = v.id /\ t.order = v.order /\ t.locked = v.locked
             /\ Range(t.clips) = Range(v.clips)
  <2>1. Held(t).id = t.id /\ Held(t).order = t.order /\ Held(t).locked = t.locked
        /\ Held(t).clips = Range(t.clips)
    BY DEF Held
  <2>2. Held(v).id = v.id /\ Held(v).order = v.order /\ Held(v).locked = v.locked
        /\ Held(v).clips = Range(v.clips)
    BY DEF Held
  <2> QED
    BY <1>5, <2>1, <2>2
<1> QED
  BY <1>3, <1>4, <1>5 DEF SameContent

\* And the other way round.
LEMMA ContentFrom ==
  ASSUME NEW tl \in Seq(Track), NEW u \in Seq(Track), SameContent(tl, u)
  PROVE  Content(tl) = Content(u)
<1>1. /\ Content(tl) = [i \in 1..Len(tl) |-> Held(tl[i])]
      /\ Content(u) = [i \in 1..Len(u) |-> Held(u[i])]
  BY ContentHeld
<1>2. Len(tl) = Len(u)
  BY DEF SameContent
<1>3. \A i \in 1..Len(tl) : Held(tl[i]) = Held(u[i])
  BY DEF SameContent, Held
<1> QED
  BY <1>1, <1>2, <1>3

\* The content tells the outline.
LEMMA ContentOutline ==
  ASSUME NEW tl \in Seq(Track), NEW u \in Seq(Track), SameContent(tl, u)
  PROVE  SameOutline(tl, u)
BY DEF SameContent, SameOutline

\* Order is a matter of the outline.
LEMMA SameOutlineInOrder ==
  ASSUME NEW tl \in Seq(Track), NEW u \in Seq(Track), SameOutline(tl, u), InOrder(tl)
  PROVE  InOrder(u)
BY TracksIn DEF SameOutline, InOrder

-----------------------------------------------------------------------------
(* Moves and trims *)

\* What moving a clip changes.
Moved(tl, id, track, c, after) ==
  /\ SameTracks(tl, after) /\ Len(after) = Len(tl)
  /\ \A i \in 1..Len(tl) : after[i].locked = tl[i].locked
  /\ \A i \in 1..Len(tl) :
       \A d : d \in Range(after[i].clips) <=>
                \/ d \in Range(tl[i].clips) /\ d.id # id
                \/ tl[i].id = track /\ d = c

\* What moveClip() does to a clip there is.
LEMMA MoveClipIs ==
  ASSUME NEW tl \in Seq(Track), NEW id \in ClipIds(tl), NEW track, NEW at \in Int
  PROVE  LET c == ClipOf(tl, id)
         IN  Moved(tl, id, track, Shifted(c, at - c.start), MoveClip(tl, id, track, at))
<1> DEFINE c == ClipOf(tl, id)
           e == Shifted(c, at - c.start)
           left == RemoveClips(tl, {id})
           E == [i \in 1..Len(tl) |-> Append(left[i].clips, e)]
           after == MoveClip(tl, id, track, at)
<1>1. e \in Clip
  <2>1. c \in Clip
    BY ClipsIn
  <2> HIDE DEF c
  <2>2. at - c.start \in Int
    BY <2>1, ClipFields
  <2> QED
    BY <2>1, <2>2, ShiftedClip
<1>2. /\ SameTracks(tl, left) /\ Len(left) = Len(tl)
      /\ \A i \in 1..Len(tl) : /\ left[i].clips = Without(tl[i].clips, {id})
                               /\ left[i].id = tl[i].id /\ left[i].locked = tl[i].locked
  BY RemoveClipsKeeps
<1>3. after = [i \in DOMAIN left |-> IF left[i].id \in {track}
                                     THEN [left[i] EXCEPT !.clips = Append(@, e)] ELSE left[i]]
  <2> HIDE DEF c
  <2> QED
    BY DEF MoveClip, OnTracks, c
<1> HIDE DEF left, e, after
<1>4. left \in Seq(Track)
  BY <1>2 DEF SameTracks
<1>5. DOMAIN left = 1..Len(tl) /\ \A i \in 1..Len(tl) : left[i].clips \in Seq(Clip)
  BY <1>2, <1>4, TracksIn
<1>6. after = [i \in DOMAIN left |-> IF left[i].id \in {track}
                                     THEN [left[i] EXCEPT !.clips = E[i]] ELSE left[i]]
  BY <1>3, <1>5
<1>7. \A i \in 1..Len(tl) : /\ E[i] \in Seq(Clip) /\ E[i] = Append(left[i].clips, e)
                            /\ \A d : d \in Range(E[i]) <=> d \in Range(left[i].clips) \/ d = e
  <2> TAKE i \in 1..Len(tl)
  <2> DEFINE clips == left[i].clips
  <2>1. clips \in Seq(Clip) /\ E[i] = Append(clips, e)
    BY <1>5
  <2> HIDE DEF clips, E
  <2>2. Append(clips, e) \in Seq(Clip) /\ Range(Append(clips, e)) = Range(clips) \cup {e}
    BY <1>1, <2>1, AppendedClips
  <2> QED
    BY <2>1, <2>2 DEF clips
<1> HIDE DEF E
<1>8. Reclips(left, {track}, E, after)
  BY <1>2, <1>4, <1>6, <1>7, ReclippedKeeps
<1>9. SameTracks(tl, after) /\ Len(after) = Len(tl)
  BY <1>2, <1>8 DEF Reclips, SameTracks
<1>10. \A i \in 1..Len(tl) : after[i].locked = tl[i].locked
  BY <1>2, <1>8 DEF Reclips
<1>11. \A i \in 1..Len(tl) : \A d :
          d \in Range(left[i].clips) <=> d \in Range(tl[i].clips) /\ d.id # id
  <2> TAKE i \in 1..Len(tl)
  <2> DEFINE clips == tl[i].clips
  <2>1. clips \in Seq(Clip) /\ left[i].clips = Without(clips, {id})
    BY <1>2, TracksIn
  <2> HIDE DEF clips
  <2>2. Range(Without(clips, {id})) = { d \in Range(clips) : d.id \notin {id} }
    BY <2>1, WithoutHolds
  <2> QED
    BY <2>1, <2>2 DEF clips
<1>12. \A i \in 1..Len(tl) : after[i].clips = IF tl[i].id = track THEN E[i] ELSE left[i].clips
  BY <1>2, <1>8 DEF Reclips
<1>13. ASSUME NEW i \in 1..Len(tl), NEW d
       PROVE  d \in Range(after[i].clips) <=>
                \/ d \in Range(tl[i].clips) /\ d.id # id
                \/ tl[i].id = track /\ d = e
  BY <1>7, <1>11, <1>12
<1> QED
  BY <1>9, <1>10, <1>13 DEF Moved, e, after

\* Moving keeps the tracks, also of a clip that is not there.
LEMMA MoveClipKeeps ==
  ASSUME NEW tl \in Seq(Track), NEW id, NEW track, NEW at \in Int
  PROVE  SameTracks(tl, MoveClip(tl, id, track, at))
<1>1. CASE id \in ClipIds(tl)
  BY <1>1, MoveClipIs DEF Moved
<1>2. CASE id \notin ClipIds(tl)
  BY <1>2 DEF MoveClip, SameTracks
<1> QED
  BY <1>1, <1>2

\* x is the one clip with its id, and it is on the tracks called `home`.
Alone(tl, x, home) ==
  /\ x \in Clip /\ home \in TrackIds(tl)
  /\ \A i \in 1..Len(tl) : \A d \in Range(tl[i].clips) : d.id = x.id => d = x /\ tl[i].id = home
  /\ \A i \in 1..Len(tl) : tl[i].id = home => x \in Range(tl[i].clips)

\* A clip that has its id alone is the one found by it.
LEMMA AloneIs ==
  ASSUME NEW tl \in Seq(Track), NEW x, NEW home, Alone(tl, x, home)
  PROVE  x.id \in ClipIds(tl) /\ ClipOf(tl, x.id) = x
<1>1. DOMAIN tl = 1..Len(tl)
  BY TracksIn
<1>2. PICK i \in 1..Len(tl) : tl[i].id = home
  BY <1>1 DEF Alone, TrackIds
<1> DEFINE U == UNION { Range(tl[j].clips) : j \in DOMAIN tl }
<1>3. x \in U
  BY <1>1, <1>2 DEF Alone
<1>4. \A d \in U : d.id = x.id => d = x
  BY <1>1 DEF Alone
<1>5. x.id \in ClipIds(tl)
  BY <1>3 DEF ClipIds
<1>6. ClipOf(tl, x.id) = CHOOSE d \in U : d.id = x.id
  BY DEF ClipOf
<1> HIDE DEF U
<1> QED
  BY <1>3, <1>4, <1>5, <1>6

\* A clip that has been moved is alone.
LEMMA MovedAlone ==
  ASSUME NEW tl \in Seq(Track), NEW track \in TrackIds(tl), NEW c \in Clip, NEW after,
         Moved(tl, c.id, track, c, after)
  PROVE  Alone(after, c, track)
<1>1. /\ after \in Seq(Track) /\ Len(after) = Len(tl)
      /\ \A i \in 1..Len(tl) : after[i].id = tl[i].id
  <2>1. after \in Seq(Track) /\ Outline(tl) = Outline(after)
    BY DEF Moved, SameTracks
  <2>2. SameOutline(tl, after)
    BY <2>1, OutlineGives
  <2> QED
    BY <2>1, <2>2 DEF SameOutline
<1>2. DOMAIN after = 1..Len(tl) /\ DOMAIN tl = 1..Len(tl)
  BY <1>1, TracksIn
<1>3. track \in TrackIds(after)
  BY <1>1, <1>2 DEF TrackIds
<1> QED
  BY <1>1, <1>3 DEF Alone, Moved

\* A clip that is alone is alone in every timeline of the same content.
LEMMA AloneSame ==
  ASSUME NEW tl \in Seq(Track), NEW u \in Seq(Track), SameContent(tl, u), NEW x, NEW home,
         Alone(tl, x, home)
  PROVE  Alone(u, x, home)
<1>1. DOMAIN u = 1..Len(u) /\ DOMAIN tl = 1..Len(tl) /\ Len(tl) = Len(u)
  BY TracksIn DEF SameContent
<1>2. home \in TrackIds(u)
  BY <1>1 DEF Alone, TrackIds, SameContent
<1> QED
  BY <1>1, <1>2 DEF Alone, SameContent

\* Moving a clip that is alone comes to the same where the content is the same.
LEMMA MoveAgain ==
  ASSUME NEW tl \in Seq(Track), NEW u \in Seq(Track), SameContent(tl, u), NEW x, NEW home,
         Alone(tl, x, home), NEW track, NEW at \in Int
  PROVE  SameContent(MoveClip(u, x.id, track, at), MoveClip(tl, x.id, track, at))
<1> DEFINE e == Shifted(x, at - x.start)
           p == MoveClip(tl, x.id, track, at)
           q == MoveClip(u, x.id, track, at)
           id == x.id
<1>1. Alone(u, x, home)
  BY AloneSame
<1>2. id \in ClipIds(tl) /\ ClipOf(tl, id) = x /\ id \in ClipIds(u) /\ ClipOf(u, id) = x
  BY <1>1, AloneIs
<1>3. Moved(tl, id, track, e, p) /\ Moved(u, id, track, e, q)
  BY <1>2, MoveClipIs
<1> HIDE DEF e, p, q, id
<1>4. /\ Len(p) = Len(tl) /\ Len(q) = Len(tl) /\ Len(u) = Len(tl)
      /\ p \in Seq(Track) /\ q \in Seq(Track)
  BY <1>3 DEF Moved, SameTracks, SameContent
<1>5. SameOutline(tl, p) /\ SameOutline(u, q)
  BY <1>3, <1>4, OutlineGives DEF Moved, SameTracks
<1>6. ASSUME NEW i \in 1..Len(tl)
      PROVE  /\ p[i].id = q[i].id /\ p[i].order = q[i].order /\ p[i].locked = q[i].locked
             /\ Range(p[i].clips) = Range(q[i].clips)
  <2>1. p[i].id = q[i].id /\ p[i].order = q[i].order
    BY <1>4, <1>5 DEF SameOutline, SameContent
  <2>2. p[i].locked = tl[i].locked /\ q[i].locked = u[i].locked
    BY <1>3, <1>4 DEF Moved
  <2>3. tl[i].locked = u[i].locked /\ tl[i].id = u[i].id /\ Range(tl[i].clips) = Range(u[i].clips)
    BY DEF SameContent
  <2>4. \A d : d \in Range(p[i].clips) <=> d \in Range(q[i].clips)
    BY <1>3, <1>4, <2>3 DEF Moved
  <2> QED
    BY <2>1, <2>2, <2>3, <2>4
<1> QED
  BY <1>4, <1>6 DEF SameContent, p, q, id

\* Moved back to where it was alone, a clip is there as it was.
LEMMA MoveBack ==
  ASSUME NEW tl \in Seq(Track), NEW x, NEW home, Alone(tl, x, home),
         NEW track \in TrackIds(tl), NEW at \in Int, NEW u \in Seq(Track),
         SameContent(u, MoveClip(tl, x.id, track, at))
  PROVE  SameContent(MoveClip(u, x.id, home, x.start), tl)
<1> DEFINE e == Shifted(x, at - x.start)
           p == MoveClip(tl, x.id, track, at)
           q == MoveClip(u, x.id, home, x.start)
           f == Shifted(e, x.start - e.start)
           id == x.id
<1>1. x \in Clip /\ x.start \in Int /\ x.end \in Int
  BY ClipFields DEF Alone
<1>2. id \in ClipIds(tl) /\ ClipOf(tl, id) = x
  BY AloneIs
<1>3. Moved(tl, id, track, e, p)
  BY <1>2, MoveClipIs
<1>4. at - x.start \in Int
  BY <1>1
<1>5. e \in Clip /\ e.id = id /\ e.start = at /\ e.end = x.end + (at - x.start)
      /\ e.source = x.source /\ e.trim = x.trim
  <2>1. /\ e \in Clip /\ e.id = x.id /\ e.source = x.source /\ e.start = x.start + (at - x.start)
        /\ e.end = x.end + (at - x.start) /\ e.trim = x.trim
    BY <1>1, <1>4, ShiftedClip
  <2> QED
    BY <1>1, <2>1
<1>6. f = x
  <2> HIDE DEF e
  <2>1. x.start - e.start \in Int
    BY <1>1, <1>5
  <2>2. f \in Clip /\ f.id = e.id /\ f.source = e.source
        /\ f.start = e.start + (x.start - e.start) /\ f.end = e.end + (x.start - e.start)
        /\ f.trim = e.trim
    BY <1>5, <2>1, ShiftedClip
  <2> HIDE DEF f
  <2>3. f.id = x.id /\ f.source = x.source /\ f.start = x.start /\ f.end = x.end /\ f.trim = x.trim
    BY <1>1, <1>5, <2>2
  <2> QED
    BY <1>1, <2>2, <2>3 DEF Clip
<1>7. p \in Seq(Track) /\ Len(p) = Len(tl) /\ Outline(tl) = Outline(p)
  BY <1>3 DEF Moved, SameTracks
<1>8. SameOutline(tl, p)
  BY <1>7, OutlineGives
<1>9. Alone(p, e, track)
  <2>1. Moved(tl, e.id, track, e, p)
    BY <1>3, <1>5
  <2> HIDE DEF e, p
  <2> QED
    BY <1>5, <2>1, MovedAlone
<1>10. SameContent(p, u)
  BY <1>7 DEF SameContent
<1> HIDE DEF e, p
<1>11. Alone(u, e, track)
  BY <1>7, <1>9, <1>10, AloneSame
<1>12. e.id \in ClipIds(u) /\ ClipOf(u, e.id) = e
  BY <1>11, AloneIs
<1>13. Moved(u, id, home, x, q)
  <2>1. Moved(u, e.id, home, Shifted(e, x.start - e.start), MoveClip(u, e.id, home, x.start))
    BY <1>1, <1>12, MoveClipIs
  <2> QED
    BY <1>5, <1>6, <2>1
<1> HIDE DEF q, f
<1>14. q \in Seq(Track) /\ Len(q) = Len(u) /\ Outline(u) = Outline(q)
  BY <1>13 DEF Moved, SameTracks
<1>15. SameOutline(u, q)
  BY <1>14, OutlineGives
<1>16. Len(u) = Len(tl) /\ Len(q) = Len(tl)
  BY <1>7, <1>10, <1>14 DEF SameContent
<1>17. ASSUME NEW i \in 1..Len(tl)
       PROVE  /\ q[i].id = tl[i].id /\ q[i].order = tl[i].order /\ q[i].locked = tl[i].locked
              /\ Range(q[i].clips) = Range(tl[i].clips)
  <2>1. u[i].id = tl[i].id /\ u[i].order = tl[i].order
    BY <1>7, <1>8, <1>10 DEF SameOutline, SameContent
  <2>2. q[i].id = tl[i].id /\ q[i].order = tl[i].order
    BY <1>15, <1>16, <2>1 DEF SameOutline
  <2>3. p[i].locked = tl[i].locked /\ q[i].locked = u[i].locked /\ u[i].locked = p[i].locked
    BY <1>3, <1>7, <1>10, <1>13, <1>16 DEF Moved, SameContent
  <2>4. \A d : d \in Range(q[i].clips) <=>
                 (d \in Range(u[i].clips) /\ d.id # id) \/ (tl[i].id = home /\ d = x)
    <3>1. i \in 1..Len(u)
      BY <1>16
    <3>2. \A d : d \in Range(q[i].clips) <=>
                   (d \in Range(u[i].clips) /\ d.id # id) \/ (u[i].id = home /\ d = x)
      BY <1>13, <3>1 DEF Moved
    <3> QED
      BY <2>1, <3>2
  <2>5. \A d : d \in Range(u[i].clips) <=>
                 (d \in Range(tl[i].clips) /\ d.id # id) \/ (tl[i].id = track /\ d = e)
    <3>1. Range(p[i].clips) = Range(u[i].clips)
      BY <1>7, <1>10 DEF SameContent
    <3>2. \A d : d \in Range(p[i].clips) <=>
                   (d \in Range(tl[i].clips) /\ d.id # id) \/ (tl[i].id = track /\ d = e)
      BY <1>3 DEF Moved
    <3> QED
      BY <3>1, <3>2
  <2>6. \A d \in Range(tl[i].clips) : d.id = id => d = x /\ tl[i].id = home
    BY DEF Alone, id
  <2>7. tl[i].id = home => x \in Range(tl[i].clips)
    BY DEF Alone
  <2>8. \A d : d \in Range(q[i].clips) <=> d \in Range(tl[i].clips)
    BY <1>5, <2>4, <2>5, <2>6, <2>7
  <2> QED
    BY <2>2, <2>3, <2>8
<1> QED
  BY <1>16, <1>17 DEF SameContent, q, id

\* What a trim makes of a clip.
TrimmedTo(c, id, side, at) ==
  IF c.id # id THEN c
  ELSE IF side = "left" THEN [c EXCEPT !.start = Least(at, c.end - MinLength)]
  ELSE [c EXCEPT !.end = Most(at, c.start + MinLength)]

\* A trimmed clip is a clip, whose other end has not moved.
LEMMA TrimmedClip ==
  ASSUME NEW c \in Clip, NEW id, NEW side, NEW at \in Int
  PROVE  /\ TrimmedTo(c, id, side, at) \in Clip
         /\ TrimmedTo(c, id, side, at).id = c.id
         /\ side = "left" => TrimmedTo(c, id, side, at).end = c.end
         /\ side # "left" => TrimmedTo(c, id, side, at).start = c.start
<1>1. c.start \in Int /\ c.end \in Int /\ MinLength \in Nat
  BY ClipFields, ClipsAssumption
<1> DEFINE s == Least(at, c.end - MinLength)
           e == Most(at, c.start + MinLength)
<1>2. s \in Int /\ s <= c.end /\ e \in Int /\ c.start <= e
  BY <1>1 DEF Least, Most
<1>3. CASE c.id # id
  BY <1>3 DEF TrimmedTo
<1>4. CASE c.id = id /\ side = "left"
  <2>1. TrimmedTo(c, id, side, at) = [c EXCEPT !.start = s]
    BY <1>4 DEF TrimmedTo
  <2> HIDE DEF s
  <2>2. [c EXCEPT !.start = s] \in Clip
    BY <1>2, StartedClip
  <2>3. [c EXCEPT !.start = s].id = c.id /\ [c EXCEPT !.start = s].end = c.end
    BY DEF Clip
  <2> QED
    BY <1>4, <2>1, <2>2, <2>3
<1>5. CASE c.id = id /\ side # "left"
  <2>1. TrimmedTo(c, id, side, at) = [c EXCEPT !.end = e]
    BY <1>5 DEF TrimmedTo
  <2> HIDE DEF e
  <2>2. [c EXCEPT !.end = e] \in Clip
    BY <1>2, EndedClip
  <2>3. [c EXCEPT !.end = e].id = c.id /\ [c EXCEPT !.end = e].start = c.start
    BY DEF Clip
  <2> QED
    BY <1>5, <2>1, <2>2, <2>3
<1> QED
  BY <1>3, <1>4, <1>5

\* The edge that is trimmed goes where the other edge lets it, wherever it was.
LEMMA TrimmedAnew ==
  ASSUME NEW c \in Clip, NEW id, NEW side, NEW at \in Int, NEW prev \in Int
  PROVE  TrimmedTo(TrimmedTo(c, id, side, at), id, side, prev) = TrimmedTo(c, id, side, prev)
<1> DEFINE d == TrimmedTo(c, id, side, at)
<1>1. d \in Clip /\ d.id = c.id /\ (side = "left" => d.end = c.end)
      /\ (side # "left" => d.start = c.start)
  BY TrimmedClip
<1>2. CASE c.id # id
  BY <1>2 DEF TrimmedTo
<1>3. CASE c.id = id /\ side = "left"
  <2> DEFINE v == Least(at, c.end - MinLength)
             w == Least(prev, c.end - MinLength)
  <2>1. d = [c EXCEPT !.start = v]
    BY <1>3 DEF TrimmedTo
  <2>2. TrimmedTo(c, id, side, prev) = [c EXCEPT !.start = w]
    BY <1>3 DEF TrimmedTo
  <2> HIDE DEF d
  <2>3. TrimmedTo(d, id, side, prev) = [d EXCEPT !.start = w]
    BY <1>1, <1>3 DEF TrimmedTo
  <2> HIDE DEF v, w
  <2>4. [d EXCEPT !.start = w] = [c EXCEPT !.start = w]
    BY <2>1
  <2> QED
    BY <2>2, <2>3, <2>4 DEF d
<1>4. CASE c.id = id /\ side # "left"
  <2> DEFINE v == Most(at, c.start + MinLength)
             w == Most(prev, c.start + MinLength)
  <2>1. d = [c EXCEPT !.end = v]
    BY <1>4 DEF TrimmedTo
  <2>2. TrimmedTo(c, id, side, prev) = [c EXCEPT !.end = w]
    BY <1>4 DEF TrimmedTo
  <2> HIDE DEF d
  <2>3. TrimmedTo(d, id, side, prev) = [d EXCEPT !.end = w]
    BY <1>1, <1>4 DEF TrimmedTo
  <2> HIDE DEF v, w
  <2>4. [d EXCEPT !.end = w] = [c EXCEPT !.end = w]
    BY <2>1
  <2> QED
    BY <2>2, <2>3, <2>4 DEF d
<1> QED
  BY <1>2, <1>3, <1>4

\* What a trim changes.
Trims(tl, id, side, at, after) ==
  /\ SameTracks(tl, after) /\ Len(after) = Len(tl)
  /\ \A i \in 1..Len(tl) : after[i].locked = tl[i].locked
  /\ \A i \in 1..Len(tl) :
       \A d : d \in Range(after[i].clips) <=>
                \E e \in Range(tl[i].clips) : d = TrimmedTo(e, id, side, at)

\* What trimClip() does.
LEMMA TrimClipIs ==
  ASSUME NEW tl \in Seq(Track), NEW id, NEW side, NEW at \in Int
  PROVE  Trims(tl, id, side, at, TrimClip(tl, id, side, at))
<1> DEFINE To(clips) == [j \in DOMAIN clips |-> TrimmedTo(clips[j], id, side, at)]
           E == [i \in 1..Len(tl) |-> To(tl[i].clips)]
           after == TrimClip(tl, id, side, at)
<1>1. /\ DOMAIN tl = 1..Len(tl) /\ \A i \in 1..Len(tl) : tl[i].clips \in Seq(Clip)
      /\ \A i \in 1..Len(tl) : tl[i].id \in TrackIds(tl)
  BY TracksIn DEF TrackIds
<1>2. after = [i \in DOMAIN tl |-> IF tl[i].id \in TrackIds(tl)
                                   THEN [tl[i] EXCEPT !.clips = E[i]] ELSE tl[i]]
  BY <1>1 DEF TrimClip, OnTracks, TrimmedTo
<1>3. ASSUME NEW clips \in Seq(Clip)
      PROVE  /\ To(clips) \in Seq(Clip)
             /\ \A d : d \in Range(To(clips)) <=>
                         \E e \in Range(clips) : d = TrimmedTo(e, id, side, at)
  <2> DEFINE r == To(clips)
  <2>1. Len(clips) \in Nat /\ DOMAIN clips = 1..Len(clips)
        /\ \A j \in 1..Len(clips) : clips[j] \in Clip
    OBVIOUS
  <2>2. r \in [1..Len(clips) -> Clip]
        /\ \A j \in 1..Len(clips) : r[j] = TrimmedTo(clips[j], id, side, at)
    BY <2>1, TrimmedClip
  <2> HIDE DEF r
  <2>3. r \in Seq(Clip) /\ Len(r) = Len(clips)
    BY <2>1, <2>2, FunctionIsSeq
  <2>4. \A d : d \in Range(r) <=> \E j \in 1..Len(clips) : r[j] = d
    BY <2>3, InRange
  <2>5. \A e : e \in Range(clips) <=> \E j \in 1..Len(clips) : clips[j] = e
    BY InRange
  <2>6. \A d : d \in Range(r) <=> \E e \in Range(clips) : d = TrimmedTo(e, id, side, at)
    BY <2>2, <2>4, <2>5
  <2> QED
    BY <2>3, <2>6 DEF r
<1>4. \A i \in 1..Len(tl) : E[i] = To(tl[i].clips)
  OBVIOUS
<1> HIDE DEF To
<1>5. \A i \in 1..Len(tl) : /\ E[i] \in Seq(Clip)
                            /\ \A d : d \in Range(E[i]) <=>
                                 \E e \in Range(tl[i].clips) : d = TrimmedTo(e, id, side, at)
  BY <1>1, <1>3, <1>4
<1> HIDE DEF E, after
<1>6. Reclips(tl, TrackIds(tl), E, after)
  BY <1>2, <1>5, ReclippedKeeps
<1>7. SameTracks(tl, after) /\ Len(after) = Len(tl)
      /\ \A i \in 1..Len(tl) : after[i].locked = tl[i].locked /\ after[i].clips = E[i]
  BY <1>1, <1>6 DEF Reclips
<1>8. \A i \in 1..Len(tl) :
        \A d : d \in Range(after[i].clips) <=>
                 \E e \in Range(tl[i].clips) : d = TrimmedTo(e, id, side, at)
  BY <1>5, <1>7
<1> QED
  BY <1>7, <1>8 DEF Trims, after

\* A trim comes to the same where the content is the same.
LEMMA TrimAgain ==
  ASSUME NEW tl \in Seq(Track), NEW u \in Seq(Track), SameContent(tl, u), NEW id, NEW side,
         NEW at \in Int
  PROVE  SameContent(TrimClip(u, id, side, at), TrimClip(tl, id, side, at))
<1> DEFINE p == TrimClip(tl, id, side, at)
           q == TrimClip(u, id, side, at)
<1>1. Trims(tl, id, side, at, p) /\ Trims(u, id, side, at, q)
  BY TrimClipIs
<1> HIDE DEF p, q
<1>2. /\ Len(p) = Len(tl) /\ Len(q) = Len(tl) /\ Len(u) = Len(tl)
      /\ p \in Seq(Track) /\ q \in Seq(Track)
  BY <1>1 DEF Trims, SameTracks, SameContent
<1>3. SameOutline(tl, p) /\ SameOutline(u, q)
  BY <1>1, <1>2, OutlineGives DEF Trims, SameTracks
<1>4. ASSUME NEW i \in 1..Len(tl)
      PROVE  /\ q[i].id = p[i].id /\ q[i].order = p[i].order /\ q[i].locked = p[i].locked
             /\ Range(q[i].clips) = Range(p[i].clips)
  <2>1. q[i].id = p[i].id /\ q[i].order = p[i].order
    BY <1>2, <1>3 DEF SameOutline, SameContent
  <2>2. q[i].locked = p[i].locked
    BY <1>1, <1>2 DEF Trims, SameContent
  <2>3. Range(tl[i].clips) = Range(u[i].clips)
    BY DEF SameContent
  <2>4. \A d : d \in Range(p[i].clips) <=>
                 \E e \in Range(tl[i].clips) : d = TrimmedTo(e, id, side, at)
    BY <1>1 DEF Trims
  <2>5. \A d : d \in Range(q[i].clips) <=>
                 \E e \in Range(u[i].clips) : d = TrimmedTo(e, id, side, at)
    BY <1>1, <1>2 DEF Trims
  <2>6. \A d : d \in Range(q[i].clips) <=> d \in Range(p[i].clips)
    BY <2>3, <2>4, <2>5
  <2> QED
    BY <2>1, <2>2, <2>6
<1> QED
  BY <1>2, <1>4 DEF SameContent, p, q

\* Of a timeline whose edges have been put to `prev`, a trim and the trim back make the same.
LEMMA TrimBack ==
  ASSUME NEW t \in Seq(Track), NEW id, NEW side, NEW at \in Int, NEW prev \in Int,
         NEW tl, tl = TrimClip(t, id, side, prev),
         NEW u \in Seq(Track), SameContent(u, TrimClip(tl, id, side, at))
  PROVE  SameContent(TrimClip(u, id, side, prev), tl)
<1> DEFINE p == TrimClip(tl, id, side, at)
           q == TrimClip(u, id, side, prev)
<1>1. Trims(t, id, side, prev, tl)
  BY TrimClipIs
<1>2. tl \in Seq(Track) /\ Len(tl) = Len(t)
  BY <1>1 DEF Trims, SameTracks
<1>3. Trims(tl, id, side, at, p) /\ Trims(u, id, side, prev, q)
  BY <1>2, TrimClipIs
<1>4. SameContent(u, p)
  OBVIOUS
<1> HIDE DEF p, q
<1>5. /\ Len(p) = Len(tl) /\ Len(u) = Len(tl) /\ Len(q) = Len(tl)
      /\ p \in Seq(Track) /\ q \in Seq(Track)
  BY <1>3, <1>4 DEF Trims, SameTracks, SameContent
<1>6. SameOutline(tl, p) /\ SameOutline(u, q)
  BY <1>2, <1>3, <1>5, OutlineGives DEF Trims, SameTracks
<1>7. ASSUME NEW i \in 1..Len(tl)
      PROVE  /\ q[i].id = tl[i].id /\ q[i].order = tl[i].order /\ q[i].locked = tl[i].locked
             /\ Range(q[i].clips) = Range(tl[i].clips)
  <2>1. q[i].id = tl[i].id /\ q[i].order = tl[i].order
    BY <1>4, <1>5, <1>6 DEF SameOutline, SameContent
  <2>2. q[i].locked = tl[i].locked
    BY <1>3, <1>4, <1>5 DEF Trims, SameContent
  <2>3. \A d : d \in Range(tl[i].clips) <=>
                 \E e \in Range(t[i].clips) : d = TrimmedTo(e, id, side, prev)
    BY <1>1, <1>2 DEF Trims
  <2>4. \A d : d \in Range(p[i].clips) <=>
                 \E e \in Range(tl[i].clips) : d = TrimmedTo(e, id, side, at)
    BY <1>3 DEF Trims
  <2>5. Range(u[i].clips) = Range(p[i].clips)
    BY <1>4, <1>5 DEF SameContent
  <2>6. \A d : d \in Range(q[i].clips) <=>
                 \E e \in Range(u[i].clips) : d = TrimmedTo(e, id, side, prev)
    BY <1>3, <1>5 DEF Trims
  <2>7. \A e \in Range(tl[i].clips) :
          TrimmedTo(TrimmedTo(e, id, side, at), id, side, prev) = e
    <3> TAKE e \in Range(tl[i].clips)
    <3>1. PICK c \in Range(t[i].clips) : e = TrimmedTo(c, id, side, prev)
      BY <2>3
    <3>2. c \in Clip /\ e \in Clip
      <4>1. t[i].clips \in Seq(Clip) /\ tl[i].clips \in Seq(Clip)
        BY <1>2, TracksIn
      <4> DEFINE a == t[i].clips
                 b == tl[i].clips
      <4>2. a \in Seq(Clip) /\ b \in Seq(Clip) /\ c \in Range(a) /\ e \in Range(b)
        BY <4>1
      <4> HIDE DEF a, b
      <4> QED
        BY <4>2, InRange
    <3>3. TrimmedTo(TrimmedTo(e, id, side, at), id, side, prev) = TrimmedTo(e, id, side, prev)
      BY <3>2, TrimmedAnew
    <3>4. TrimmedTo(e, id, side, prev) = TrimmedTo(c, id, side, prev)
      <4>1. TrimmedTo(TrimmedTo(c, id, side, prev), id, side, prev) = TrimmedTo(c, id, side, prev)
        BY <3>2, TrimmedAnew
      <4> QED
        BY <3>1, <4>1
    <3> QED
      BY <3>1, <3>3, <3>4
  <2>8. \A d : d \in Range(q[i].clips) <=> d \in Range(tl[i].clips)
    BY <2>4, <2>5, <2>6, <2>7
  <2> QED
    BY <2>1, <2>2, <2>8
<1> QED
  BY <1>5, <1>7 DEF SameContent, p, q

-----------------------------------------------------------------------------
(* Tracks that are added and removed *)

\* Sorted in, a track comes to stand before place a: behind those with the same order.
IsPlace(tl, order, a) == \A j \in 1..Len(tl) : tl[j].order <= order <=> j < a

\* There is a place for a track of any order.
LEMMA PlaceExists ==
  ASSUME NEW tl \in Seq(Track), InOrder(tl), NEW order \in Int
  PROVE  \E a \in 1..(Len(tl) + 1) : IsPlace(tl, order, a)
<1> DEFINE n == Len(tl)
           A == { j \in 1..(n + 1) : j = n + 1 \/ tl[j].order > order }
<1>1. n \in Nat /\ DOMAIN tl = 1..n /\ \A i \in 1..n : tl[i].order \in Int
  BY TracksIn
<1> HIDE DEF n
<1>2. A \in SUBSET Nat /\ A # {}
  <2>1. n + 1 \in A
    BY <1>1
  <2> QED
    BY <1>1, <2>1
<1>3. PICK a \in A : \A y \in A : a <= y
  <2> HIDE DEF A
  <2> QED
    BY <1>2, LeastNumber
<1>4. a \in 1..(n + 1) /\ (a = n + 1 \/ tl[a].order > order)
  BY <1>3
<1>5. ASSUME NEW j \in 1..n PROVE tl[j].order <= order <=> j < a
  <2>1. CASE j < a
    <3>1. j \notin A
      BY <1>1, <1>3, <1>4, <2>1
    <3>2. j \in 1..(n + 1)
      BY <1>1
    <3>3. ~ (tl[j].order > order)
      BY <3>1, <3>2
    <3> QED
      BY <1>1, <2>1, <3>3
  <2>2. CASE ~ (j < a)
    <3>1. a \in 1..n /\ tl[a].order > order /\ a <= j
      BY <1>1, <1>4, <2>2
    <3>2. tl[a].order <= tl[j].order
      <4>1. a = j \/ a < j
        BY <1>1, <3>1
      <4> QED
        BY <1>1, <3>1, <4>1 DEF InOrder
    <3> QED
      BY <1>1, <2>2, <3>1, <3>2
  <2> QED
    BY <2>1, <2>2
<1>6. IsPlace(tl, order, a)
  BY <1>5 DEF IsPlace, n
<1> QED
  BY <1>4, <1>6 DEF n

\* 1..n is finite.
LEMMA UpToIsFinite ==
  ASSUME NEW n \in Nat
  PROVE  IsFiniteSet(1..n) /\ Cardinality(1..n) = n
BY FS_Interval

\* Sorted in, a track is inserted.
LEMMA AddTrackIs ==
  ASSUME NEW tl \in Seq(Track), InOrder(tl), NEW new \in Track,
         NEW a \in 1..(Len(tl) + 1), IsPlace(tl, new.order, a)
  PROVE  AddTrack(tl, new) = InsertAt(tl, a, new)
<1> DEFINE n == Len(tl)
           grown == Append(tl, new)
           keys == [i \in 1..(n + 1) |-> grown[i].order]
           key == new.order
           U(i) == UpToPlace(keys, i)
<1>1. n \in Nat /\ DOMAIN tl = 1..n /\ \A i \in 1..n : tl[i] \in Track /\ tl[i].order \in Int
  BY TracksIn
<1>2. key \in Int
  BY TrackFields
<1>3. /\ grown \in Seq(Track) /\ Len(grown) = n + 1
      /\ \A i \in 1..n : grown[i] = tl[i]
      /\ grown[n + 1] = new
  BY AppendProperties
<1>4. AddTrack(tl, new) = SortedBy(grown, keys) /\ DOMAIN grown = 1..(n + 1)
  <2>1. DOMAIN grown = 1..(n + 1)
    BY <1>3
  <2> QED
    BY <2>1 DEF AddTrack
<1> HIDE DEF grown
<1>5. /\ \A i \in 1..n : keys[i] = tl[i].order /\ keys[i] \in Int
      /\ keys[n + 1] = key /\ DOMAIN keys = 1..(n + 1)
  <2> HIDE DEF n
  <2>1. \A i \in 1..n : i \in 1..(n + 1)
    BY <1>1
  <2>2. n + 1 \in 1..(n + 1)
    BY <1>1
  <2> QED
    BY <1>1, <1>3, <2>1, <2>2 DEF n
<1> HIDE DEF keys
<1>6. \A i \in 1..n : keys[i] <= key <=> i < a
  BY <1>5 DEF IsPlace
<1>7. \A i, j \in 1..n : i <= j => keys[i] <= keys[j]
  <2> TAKE i, j \in 1..n
  <2>1. i < j => tl[i].order <= tl[j].order
    BY <1>1 DEF InOrder
  <2> QED
    BY <1>1, <1>5, <2>1
<1>8. a \in 1..(n + 1)
  OBVIOUS
<1>9. \A i : PlaceOf(keys, i) = Cardinality(U(i))
  BY DEF PlaceOf, UpToPlace
<1>10. \A i, j : j \in U(i) <=> j \in 1..(n + 1) /\ (keys[j] < keys[i] \/ (keys[j] = keys[i] /\ j <= i))
  BY <1>5 DEF UpToPlace
<1> HIDE DEF U, n, key
<1>11. ASSUME NEW i \in 1..n, i < a PROVE PlaceOf(keys, i) = i
  <2>1. keys[i] <= key
    BY <1>6, <1>11
  <2>2. ASSUME NEW j PROVE j \in U(i) <=> j \in 1..i
    <3>1. CASE j \in 1..n
      <4>1. j <= i => keys[j] <= keys[i]
        BY <1>7, <3>1
      <4>2. i <= j => keys[i] <= keys[j]
        BY <1>7, <3>1
      <4>3. j \in 1..(n + 1) /\ keys[j] \in Int /\ keys[i] \in Int
        BY <1>1, <1>5, <3>1
      <4>4. j \in U(i) <=> (keys[j] < keys[i] \/ (keys[j] = keys[i] /\ j <= i))
        BY <1>10, <4>3
      <4>5. j \in 1..i <=> j <= i
        BY <1>1, <3>1
      <4>6. j <= i \/ i <= j
        BY <1>1, <3>1
      <4> QED
        BY <1>1, <3>1, <4>1, <4>2, <4>3, <4>4, <4>5, <4>6
    <3>2. CASE j = n + 1
      <4>1. ~ (keys[j] < keys[i]) /\ ~ (j <= i)
        BY <1>1, <1>2, <1>5, <2>1, <3>2
      <4> QED
        BY <1>1, <1>10, <3>2, <4>1
    <3>3. CASE j \notin 1..(n + 1)
      <4>1. j \notin 1..i
        BY <1>1, <3>3
      <4> QED
        BY <1>10, <3>3, <4>1
    <3>4. j \in 1..(n + 1) => j \in 1..n \/ j = n + 1
      BY <1>1
    <3> QED
      BY <3>1, <3>2, <3>3, <3>4
  <2>3. U(i) = 1..i
    BY <2>2
  <2>4. i \in Nat
    BY <1>1
  <2>5. Cardinality(1..i) = i
    BY <2>4, FS_Interval
  <2> QED
    BY <1>9, <2>3, <2>5
<1>12. ASSUME NEW i \in 1..n, ~ (i < a) PROVE PlaceOf(keys, i) = i + 1
  <2>1. key < keys[i]
    BY <1>2, <1>5, <1>6, <1>12
  <2>2. ASSUME NEW j PROVE j \in U(i) <=> j \in (1..i) \cup {n + 1}
    <3>1. CASE j \in 1..n
      <4>1. j <= i => keys[j] <= keys[i]
        BY <1>7, <3>1
      <4>2. i <= j => keys[i] <= keys[j]
        BY <1>7, <3>1
      <4>3. j \in 1..(n + 1) /\ keys[j] \in Int /\ keys[i] \in Int
        BY <1>1, <1>5, <3>1
      <4>4. j \in U(i) <=> (keys[j] < keys[i] \/ (keys[j] = keys[i] /\ j <= i))
        BY <1>10, <4>3
      <4>5. j \in (1..i) \cup {n + 1} <=> j <= i
        BY <1>1, <3>1
      <4>6. j <= i \/ i <= j
        BY <1>1, <3>1
      <4> QED
        BY <1>1, <3>1, <4>1, <4>2, <4>3, <4>4, <4>5, <4>6
    <3>2. CASE j = n + 1
      <4>1. keys[j] < keys[i]
        BY <1>5, <2>1, <3>2
      <4> QED
        BY <1>1, <1>10, <3>2, <4>1
    <3>3. CASE j \notin 1..(n + 1)
      <4>1. j \notin (1..i) \cup {n + 1}
        BY <1>1, <3>3
      <4> QED
        BY <1>10, <3>3, <4>1
    <3>4. j \in 1..(n + 1) => j \in 1..n \/ j = n + 1
      BY <1>1
    <3> QED
      BY <3>1, <3>2, <3>3, <3>4
  <2>3. U(i) = (1..i) \cup {n + 1}
    BY <2>2
  <2>4. i \in Nat /\ n + 1 \notin 1..i
    BY <1>1
  <2>5. IsFiniteSet(1..i) /\ Cardinality(1..i) = i
    BY <2>4, FS_Interval
  <2>6. Cardinality((1..i) \cup {n + 1}) = i + 1
    BY <2>4, <2>5, FS_AddElement
  <2> QED
    BY <1>9, <2>3, <2>6
<1>13. PlaceOf(keys, n + 1) = a
  <2>1. ASSUME NEW j PROVE j \in U(n + 1) <=> j \in (1..(a - 1)) \cup {n + 1}
    <3>1. CASE j \in 1..n
      <4>1. j \in 1..(n + 1) /\ keys[j] \in Int /\ keys[n + 1] = key /\ j <= n + 1 /\ j # n + 1
        BY <1>1, <1>5, <3>1
      <4>2. j \in U(n + 1) <=> keys[j] <= key
        BY <1>2, <1>10, <4>1
      <4>3. j \in (1..(a - 1)) \cup {n + 1} <=> j < a
        BY <1>1, <1>8, <3>1
      <4> QED
        BY <1>6, <3>1, <4>2, <4>3
    <3>2. CASE j = n + 1
      BY <1>1, <1>10, <3>2
    <3>3. CASE j \notin 1..(n + 1)
      <4>1. j \notin (1..(a - 1)) \cup {n + 1}
        BY <1>1, <1>8, <3>3
      <4> QED
        BY <1>10, <3>3, <4>1
    <3>4. j \in 1..(n + 1) => j \in 1..n \/ j = n + 1
      BY <1>1
    <3> QED
      BY <3>1, <3>2, <3>3, <3>4
  <2>2. U(n + 1) = (1..(a - 1)) \cup {n + 1}
    BY <2>1
  <2>3. a - 1 \in Nat /\ n + 1 \notin 1..(a - 1)
    BY <1>1, <1>8
  <2> DEFINE m == a - 1
  <2>4. m \in Nat /\ n + 1 \notin 1..m /\ m + 1 = a
    BY <1>1, <1>8, <2>3
  <2>5. U(n + 1) = (1..m) \cup {n + 1}
    BY <2>2
  <2> HIDE DEF m
  <2>6. IsFiniteSet(1..m) /\ Cardinality(1..m) = m
    <3>1. m \in Nat
      BY <2>4
    <3> QED
      BY <3>1, UpToIsFinite
  <2>7. Cardinality((1..m) \cup {n + 1}) = m + 1
    BY <2>4, <2>6, FS_AddElement
  <2>8. PlaceOf(keys, n + 1) = Cardinality(U(n + 1))
    BY <1>9
  <2> QED
    BY <2>4, <2>5, <2>7, <2>8
<1> DEFINE At(p) == CHOOSE i \in 1..(n + 1) : PlaceOf(keys, i) = p
           r == [p \in 1..(n + 1) |-> grown[At(p)]]
<1>14. SortedBy(grown, keys) = r
  BY <1>4 DEF SortedBy
<1>15. \A i \in 1..(n + 1) : i \in 1..n \/ i = n + 1
  BY <1>1
<1>16. ASSUME NEW p \in 1..(n + 1)
       PROVE  r[p] = IF p < a THEN tl[p] ELSE IF p = a THEN new ELSE tl[p - 1]
  <2>0. r[p] = grown[At(p)]
    OBVIOUS
  <2>1. CASE p < a
    <3>1. p \in 1..n
      BY <1>1, <1>8, <2>1
    <3>2. PlaceOf(keys, p) = p
      BY <1>11, <2>1, <3>1
    <3>3. ASSUME NEW i \in 1..(n + 1), PlaceOf(keys, i) = p PROVE i = p
      <4>1. CASE i = n + 1
        BY <1>1, <1>8, <1>13, <2>1, <3>3, <4>1
      <4>2. CASE i \in 1..n /\ i < a
        BY <1>11, <3>3, <4>2
      <4>3. CASE i \in 1..n /\ ~ (i < a)
        BY <1>1, <1>8, <1>12, <2>1, <3>3, <4>3
      <4> QED
        BY <1>15, <4>1, <4>2, <4>3
    <3>4. At(p) = p
      BY <3>2, <3>3
    <3> HIDE DEF At, r
    <3> QED
      BY <1>3, <2>0, <2>1, <3>1, <3>4 DEF n
  <2>2. CASE p = a
    <3>1. n + 1 \in 1..(n + 1)
      BY <1>1
    <3>2. \A i \in 1..(n + 1) : PlaceOf(keys, i) = p => i = n + 1
      BY <1>1, <1>8, <1>11, <1>12, <1>13, <1>15, <2>2
    <3>3. At(p) = n + 1
      BY <1>13, <2>2, <3>1, <3>2
    <3> HIDE DEF At, r
    <3> QED
      BY <1>3, <1>8, <2>0, <2>2, <3>3 DEF n
  <2>3. CASE a < p
    <3>1. p - 1 \in 1..n /\ p - 1 \in 1..(n + 1) /\ ~ (p - 1 < a) /\ (p - 1) + 1 = p
      BY <1>1, <1>8, <2>3
    <3>2. PlaceOf(keys, p - 1) = p
      BY <1>12, <3>1
    <3>3. \A i \in 1..(n + 1) : PlaceOf(keys, i) = p => i = p - 1
      BY <1>1, <1>8, <1>11, <1>12, <1>13, <1>15, <2>3
    <3>4. At(p) = p - 1
      BY <3>1, <3>2, <3>3
    <3>5. ~ (p < a) /\ p # a
      BY <1>1, <1>8, <2>3
    <3> HIDE DEF At, r
    <3> QED
      BY <1>3, <2>0, <3>1, <3>4, <3>5 DEF n
  <2> QED
    BY <1>1, <1>8, <2>1, <2>2, <2>3
<1> DEFINE s == InsertAt(tl, a, new)
<1>17. /\ s \in Seq(Track) /\ Len(s) = n + 1
       /\ \A i \in 1..(n + 1) : s[i] = IF i < a THEN tl[i] ELSE IF i = a THEN new ELSE tl[i - 1]
  <2>1. s \in Seq(Track) /\ Inserts(s, tl, a, new)
    BY TrackInserted
  <2> HIDE DEF s
  <2> QED
    BY <2>1 DEF Inserts, n
<1>18. DOMAIN r = 1..(n + 1)
  OBVIOUS
<1> HIDE DEF r, s
<1>19. DOMAIN s = 1..(n + 1) /\ s = [i \in DOMAIN s |-> s[i]] /\ r = [i \in DOMAIN r |-> r[i]]
  <2>1. DOMAIN s = 1..(n + 1) /\ s = [i \in DOMAIN s |-> s[i]]
    BY <1>17
  <2>2. r = [i \in DOMAIN r |-> r[i]]
    BY DEF r
  <2> QED
    BY <2>1, <2>2
<1>20. r = s
  <2>1. \A i \in 1..(n + 1) : r[i] = s[i]
    BY <1>16, <1>17
  <2> QED
    BY <1>18, <1>19, <2>1
<1> QED
  BY <1>4, <1>14, <1>20 DEF s

\* Two timelines look the same to a view of their tracks.
SameBy(V, tl, u) == Len(tl) = Len(u) /\ \A i \in 1..Len(tl) : V[tl[i]] = V[u[i]]
\* Views of a track: what its outline shows, and all it holds.
IdAndOrder == [t \in Track |-> <<t.id, t.order>>]
AllHeld == [t \in Track |-> Held(t)]

\* Outlines are the same by id and order.
LEMMA OutlineView ==
  ASSUME NEW tl \in Seq(Track), NEW u \in Seq(Track)
  PROVE  (SameOutline(tl, u) => SameBy(IdAndOrder, tl, u))
         /\ (SameBy(IdAndOrder, tl, u) => SameOutline(tl, u))
<1>1. /\ \A i \in 1..Len(tl) : tl[i] \in Track
      /\ \A i \in 1..Len(u) : u[i] \in Track
  BY TracksIn
<1> QED
  BY <1>1 DEF SameOutline, SameBy, IdAndOrder

\* Contents are the same by all that tracks hold.
LEMMA ContentView ==
  ASSUME NEW tl \in Seq(Track), NEW u \in Seq(Track)
  PROVE  (SameContent(tl, u) => SameBy(AllHeld, tl, u))
         /\ (SameBy(AllHeld, tl, u) => SameContent(tl, u))
<1>1. /\ \A i \in 1..Len(tl) : tl[i] \in Track
      /\ \A i \in 1..Len(u) : u[i] \in Track
  BY TracksIn
<1>2. ASSUME NEW t, NEW v, Held(t) = Held(v)
      PROVE  /\ t.id = v.id /\ t.order = v.order /\ t.locked = v.locked
             /\ Range(t.clips) = Range(v.clips)
  <2>1. Held(t).id = t.id /\ Held(t).order = t.order /\ Held(t).locked = t.locked
        /\ Held(t).clips = Range(t.clips)
    BY DEF Held
  <2>2. Held(v).id = v.id /\ Held(v).order = v.order /\ Held(v).locked = v.locked
        /\ Held(v).clips = Range(v.clips)
    BY DEF Held
  <2> QED
    BY <1>2, <2>1, <2>2
<1>3. SameContent(tl, u) => SameBy(AllHeld, tl, u)
  <2>1. SameContent(tl, u) => Len(tl) = Len(u) /\ \A i \in 1..Len(tl) : Held(tl[i]) = Held(u[i])
    BY DEF SameContent, Held
  <2> QED
    BY <1>1, <2>1 DEF SameBy, AllHeld
<1>4. SameBy(AllHeld, tl, u) => SameContent(tl, u)
  <2>1. SameBy(AllHeld, tl, u) =>
          Len(tl) = Len(u) /\ \A i \in 1..Len(tl) : Held(tl[i]) = Held(u[i])
    BY <1>1 DEF SameBy, AllHeld
  <2> QED
    BY <1>2, <2>1 DEF SameContent
<1> QED
  BY <1>3, <1>4

\* Insertions and removals come to the same where the timelines look the same, and undo
\* each other.
LEMMA InsertSame ==
  ASSUME NEW V, NEW tl \in Seq(Track), NEW u \in Seq(Track), SameBy(V, tl, u),
         NEW a \in 1..(Len(tl) + 1), NEW e \in Track
  PROVE  InsertAt(u, a, e) \in Seq(Track) /\ SameBy(V, InsertAt(u, a, e), InsertAt(tl, a, e))
<1> DEFINE p == InsertAt(tl, a, e)
           q == InsertAt(u, a, e)
           n == Len(tl)
<1>1. n \in Nat /\ Len(u) = n /\ \A i \in 1..n : V[tl[i]] = V[u[i]]
  BY TracksIn DEF SameBy
<1>2. /\ p \in Seq(Track) /\ Len(p) = n + 1
      /\ \A i \in 1..(n + 1) : p[i] = IF i < a THEN tl[i] ELSE IF i = a THEN e ELSE tl[i - 1]
  <2>1. p \in Seq(Track) /\ Inserts(p, tl, a, e)
    BY TrackInserted
  <2> HIDE DEF p
  <2> QED
    BY <2>1 DEF Inserts, n
<1>3. /\ q \in Seq(Track) /\ Len(q) = n + 1
      /\ \A i \in 1..(n + 1) : q[i] = IF i < a THEN u[i] ELSE IF i = a THEN e ELSE u[i - 1]
  <2>1. a \in 1..(Len(u) + 1)
    BY <1>1
  <2>2. u \in Seq(Track) /\ q \in Seq(Track) /\ Inserts(q, u, a, e)
    BY <2>1, TrackInserted
  <2> HIDE DEF q
  <2> QED
    BY <1>1, <2>2 DEF Inserts
<1>4. a \in 1..(n + 1)
  OBVIOUS
<1> HIDE DEF p, q, n
<1>5. ASSUME NEW i \in 1..(n + 1) PROVE V[q[i]] = V[p[i]]
  <2>1. CASE i < a
    <3>1. i \in 1..n
      BY <1>1, <1>4, <2>1
    <3> QED
      BY <1>1, <1>2, <1>3, <2>1, <3>1
  <2>2. CASE i = a
    BY <1>1, <1>2, <1>3, <1>4, <2>2
  <2>3. CASE ~ (i < a) /\ i # a
    <3>1. i - 1 \in 1..n
      BY <1>1, <1>4, <2>3
    <3> QED
      BY <1>1, <1>2, <1>3, <2>3, <3>1
  <2> QED
    BY <2>1, <2>2, <2>3
<1>6. SameBy(V, q, p)
  BY <1>2, <1>3, <1>5 DEF SameBy
<1> QED
  BY <1>3, <1>6 DEF p, q

\* So do they with a track removed.
LEMMA RemoveSame ==
  ASSUME NEW V, NEW tl \in Seq(Track), NEW u \in Seq(Track), SameBy(V, tl, u),
         NEW a \in 1..Len(tl)
  PROVE  RemoveAt(u, a) \in Seq(Track) /\ SameBy(V, RemoveAt(u, a), RemoveAt(tl, a))
<1> DEFINE p == RemoveAt(tl, a)
           q == RemoveAt(u, a)
           n == Len(tl)
<1>1. n \in Nat /\ Len(u) = n /\ \A i \in 1..n : V[tl[i]] = V[u[i]]
  BY TracksIn DEF SameBy
<1>2. /\ p \in Seq(Track) /\ Len(p) = n - 1
      /\ \A i \in 1..(n - 1) : p[i] = IF i < a THEN tl[i] ELSE tl[i + 1]
  BY RemoveAtIs
<1>3. /\ q \in Seq(Track) /\ Len(q) = n - 1
      /\ \A i \in 1..(n - 1) : q[i] = IF i < a THEN u[i] ELSE u[i + 1]
  <2>1. a \in 1..Len(u)
    BY <1>1
  <2> QED
    BY <1>1, <2>1, RemoveAtIs
<1> HIDE DEF p, q, n
<1>5. ASSUME NEW i \in 1..(n - 1) PROVE V[q[i]] = V[p[i]]
  <2>1. i \in 1..n /\ i + 1 \in 1..n
    BY <1>1
  <2> QED
    BY <1>1, <1>2, <1>3, <2>1
<1>6. SameBy(V, q, p)
  BY <1>2, <1>3, <1>5 DEF SameBy
<1> QED
  BY <1>3, <1>6 DEF p, q

\* Removing the track that was inserted leads back.
LEMMA RemoveInserted ==
  ASSUME NEW tl \in Seq(Track), NEW a \in 1..(Len(tl) + 1), NEW e \in Track
  PROVE  RemoveAt(InsertAt(tl, a, e), a) = tl
<1> DEFINE p == InsertAt(tl, a, e)
           q == RemoveAt(p, a)
           n == Len(tl)
<1>1. n \in Nat
  BY TracksIn
<1>2. /\ p \in Seq(Track) /\ Len(p) = n + 1
      /\ \A i \in 1..(n + 1) : p[i] = IF i < a THEN tl[i] ELSE IF i = a THEN e ELSE tl[i - 1]
  <2>1. p \in Seq(Track) /\ Inserts(p, tl, a, e)
    BY TrackInserted
  <2> HIDE DEF p
  <2> QED
    BY <2>1 DEF Inserts, n
<1>3. a \in 1..(n + 1)
  OBVIOUS
<1> HIDE DEF p
<1>4. /\ q \in Seq(Track) /\ Len(q) = Len(p) - 1
      /\ \A i \in 1..(Len(p) - 1) : q[i] = IF i < a THEN p[i] ELSE p[i + 1]
  <2>1. a \in 1..Len(p)
    BY <1>2, <1>3
  <2> QED
    BY <1>2, <2>1, RemoveAtIs
<1> HIDE DEF q, n
<1>5. Len(q) = n
  BY <1>1, <1>2, <1>4
<1>6. ASSUME NEW i \in 1..n PROVE q[i] = tl[i]
  <2>1. i \in 1..(n + 1) /\ i + 1 \in 1..(n + 1) /\ i \in 1..(Len(p) - 1) /\ (i + 1) - 1 = i
    BY <1>1, <1>2
  <2>2. CASE i < a
    BY <1>2, <1>4, <2>1, <2>2
  <2>3. CASE ~ (i < a)
    <3>1. ~ (i + 1 < a) /\ i + 1 # a
      BY <1>1, <1>3, <2>3
    <3> QED
      BY <1>2, <1>4, <2>1, <2>3, <3>1
  <2> QED
    BY <2>2, <2>3
<1>7. q = tl
  BY <1>4, <1>5, <1>6 DEF n
<1> QED
  BY <1>7 DEF q, p

\* So does inserting the one that was removed.
LEMMA InsertRemoved ==
  ASSUME NEW tl \in Seq(Track), NEW a \in 1..Len(tl)
  PROVE  InsertAt(RemoveAt(tl, a), a, tl[a]) = tl
<1> DEFINE p == RemoveAt(tl, a)
           e == tl[a]
           q == InsertAt(p, a, e)
           n == Len(tl)
<1>1. n \in Nat /\ e \in Track
  BY TracksIn
<1>2. /\ p \in Seq(Track) /\ Len(p) = n - 1
      /\ \A i \in 1..(n - 1) : p[i] = IF i < a THEN tl[i] ELSE tl[i + 1]
  BY RemoveAtIs
<1>3. a \in 1..n
  OBVIOUS
<1> HIDE DEF p, e
<1>4. /\ q \in Seq(Track) /\ Len(q) = Len(p) + 1
      /\ \A i \in 1..(Len(p) + 1) : q[i] = IF i < a THEN p[i] ELSE IF i = a THEN e ELSE p[i - 1]
  <2>1. a \in 1..(Len(p) + 1)
    BY <1>1, <1>2, <1>3
  <2>2. q \in Seq(Track) /\ Inserts(q, p, a, e)
    BY <1>1, <1>2, <2>1, TrackInserted
  <2> HIDE DEF q
  <2> QED
    BY <2>2 DEF Inserts
<1> HIDE DEF q, n
<1>5. Len(q) = n
  BY <1>1, <1>2, <1>4
<1>6. ASSUME NEW i \in 1..n PROVE q[i] = tl[i]
  <2>1. i \in 1..(Len(p) + 1)
    BY <1>1, <1>2
  <2>2. CASE i < a
    <3>1. i \in 1..(n - 1)
      BY <1>1, <1>3, <2>2
    <3> QED
      BY <1>2, <1>4, <2>1, <2>2, <3>1
  <2>3. CASE i = a
    <3>1. ~ (i < a)
      BY <1>1, <1>3, <2>3
    <3> QED
      BY <1>4, <2>1, <2>3, <3>1 DEF e
  <2>4. CASE ~ (i < a) /\ i # a
    <3>1. i - 1 \in 1..(n - 1) /\ ~ (i - 1 < a) /\ (i - 1) + 1 = i
      BY <1>1, <1>3, <2>4
    <3> QED
      BY <1>2, <1>4, <2>1, <2>4, <3>1
  <2> QED
    BY <2>2, <2>3, <2>4
<1>7. q = tl
  BY <1>4, <1>5, <1>6 DEF n
<1> QED
  BY <1>7 DEF q, p, e

\* In order, a track is removed where it is.
LEMMA RemoveTrackIs ==
  ASSUME NEW tl \in Seq(Track), InOrder(tl), NEW i \in 1..Len(tl)
  PROVE  RemoveTrack(tl, tl[i].id) = RemoveAt(tl, i)
BY IndexOfTrack DEF RemoveTrack

\* Order stays without a track.
LEMMA RemovedInOrder ==
  ASSUME NEW tl \in Seq(Track), InOrder(tl), NEW a \in 1..Len(tl)
  PROVE  RemoveAt(tl, a) \in Seq(Track) /\ InOrder(RemoveAt(tl, a))
<1> DEFINE p == RemoveAt(tl, a)
           n == Len(tl)
<1>1. n \in Nat /\ DOMAIN tl = 1..n
  BY TracksIn
<1>2. /\ p \in Seq(Track) /\ Len(p) = n - 1
      /\ \A i \in 1..(n - 1) : p[i] = IF i < a THEN tl[i] ELSE tl[i + 1]
  BY RemoveAtIs
<1>3. a \in 1..n
  OBVIOUS
<1> HIDE DEF p, n
<1>4. DOMAIN p = 1..(n - 1)
  BY <1>2
<1>5. ASSUME NEW i \in 1..(n - 1), NEW j \in 1..(n - 1), i < j
      PROVE  p[i].id # p[j].id /\ p[i].order <= p[j].order
  <2> DEFINE k == IF i < a THEN i ELSE i + 1
             m == IF j < a THEN j ELSE j + 1
  <2>1. k \in 1..n /\ m \in 1..n /\ k < m
    BY <1>1, <1>3, <1>5
  <2>2. p[i] = tl[k] /\ p[j] = tl[m]
    BY <1>2
  <2> HIDE DEF k, m
  <2> QED
    BY <1>1, <2>1, <2>2 DEF InOrder
<1>6. InOrder(p)
  BY <1>4, <1>5 DEF InOrder
<1> QED
  BY <1>2, <1>6 DEF p

\* And with one more in its place.
LEMMA InsertedInOrder ==
  ASSUME NEW tl \in Seq(Track), InOrder(tl), NEW e \in Track, e.id \notin TrackIds(tl),
         NEW a \in 1..(Len(tl) + 1), IsPlace(tl, e.order, a)
  PROVE  InsertAt(tl, a, e) \in Seq(Track) /\ InOrder(InsertAt(tl, a, e))
<1> DEFINE p == InsertAt(tl, a, e)
           n == Len(tl)
<1>1. n \in Nat /\ DOMAIN tl = 1..n /\ \A i \in 1..n : tl[i].order \in Int
  BY TracksIn
<1>2. /\ p \in Seq(Track) /\ Len(p) = n + 1
      /\ \A i \in 1..(n + 1) : p[i] = IF i < a THEN tl[i] ELSE IF i = a THEN e ELSE tl[i - 1]
  <2>1. p \in Seq(Track) /\ Inserts(p, tl, a, e)
    BY TrackInserted
  <2> HIDE DEF p
  <2> QED
    BY <2>1 DEF Inserts, n
<1>3. a \in 1..(n + 1)
  OBVIOUS
<1>4. \A j \in 1..n : tl[j].order <= e.order <=> j < a
  BY DEF IsPlace
<1>5. \A j \in 1..n : tl[j].id # e.id
  BY <1>1 DEF TrackIds
<1>0. e.order \in Int
  BY TrackFields
<1> HIDE DEF p, n
<1>6. DOMAIN p = 1..(n + 1)
  BY <1>2
<1>7. ASSUME NEW i \in 1..(n + 1), NEW j \in 1..(n + 1), i < j
      PROVE  p[i].id # p[j].id /\ p[i].order <= p[j].order
  <2> DEFINE k == IF i < a THEN i ELSE i - 1
             m == IF j < a THEN j ELSE j - 1
  <2>1. CASE i # a /\ j # a
    <3>1. k \in 1..n /\ m \in 1..n /\ k < m
      BY <1>1, <1>3, <1>7, <2>1
    <3>2. p[i] = tl[k] /\ p[j] = tl[m]
      BY <1>2, <2>1
    <3> HIDE DEF k, m
    <3> QED
      BY <1>1, <3>1, <3>2 DEF InOrder
  <2>2. CASE i = a
    <3>1. j - 1 \in 1..n /\ ~ (j < a) /\ j # a /\ ~ (j - 1 < a) /\ ~ (i < a)
      BY <1>1, <1>3, <1>7, <2>2
    <3>2. p[i] = e /\ p[j] = tl[j - 1]
      BY <1>2, <2>2, <3>1
    <3> QED
      BY <1>0, <1>1, <1>4, <1>5, <3>1, <3>2
  <2>3. CASE j = a
    <3>1. i \in 1..n /\ i < a /\ ~ (j < a)
      BY <1>1, <1>3, <1>7, <2>3
    <3>2. p[j] = e /\ p[i] = tl[i]
      BY <1>2, <2>3, <3>1
    <3> QED
      BY <1>0, <1>1, <1>4, <1>5, <3>1, <3>2
  <2> QED
    BY <2>1, <2>2, <2>3
<1>8. InOrder(p)
  BY <1>6, <1>7 DEF InOrder
<1> QED
  BY <1>2, <1>8 DEF p

-----------------------------------------------------------------------------
(* Commands *)

\* The commands there are.
Commands ==
  [type : {"move"}, clip : Int, track : Int, at : Int, prevTrack : Int, prev : Int]
  \cup [type : {"trim"}, clip : Int, side : {"left", "right"}, at : Int, prev : Int]
  \cup [type : {"segment"}, ids : SUBSET Int, mode : {"overwrite", "splice"}, track : Int,
        at : Int, before : Seq(Track), after : Seq(Track)]
  \cup [type : {"add"}, new : Track]
  \cup [type : {"remove"}, saved : Track, index : Nat]

\* A command makes of a timeline with outline p one with outline q, and undo takes it back.
Bridges(c, p, q) ==
  /\ \A tl \in Seq(Track) : Outline(tl) = p =>
       Executed(tl, c) \in Seq(Track) /\ Outline(Executed(tl, c)) = q
  /\ \A tl \in Seq(Track) : Outline(tl) = q =>
       Reverted(tl, c) \in Seq(Track) /\ Outline(Reverted(tl, c)) = p

\* So it does with contents.
Leads(c, A, B) ==
  /\ \A tl \in Seq(Track) : InOrder(tl) /\ Content(tl) = A => Content(Executed(tl, c)) = B
  /\ \A tl \in Seq(Track) : InOrder(tl) /\ Content(tl) = B => Content(Reverted(tl, c)) = A

\* SegmentLands of one command.
Lands(c) ==
  (c.type = "segment" /\ c.mode = "overwrite" /\ Apart(Moving(c.before, c.ids)))
  => LET is == ClipsOf(c.after, c.track)
         rest == ClipsOf(RemoveClips(c.before, c.ids), c.track)
         landed == Landed(c.before, c.ids, c.at)
     IN  \A x \in 0..Latest(landed \o rest) :
           Shows(is, x) = IF Shows(landed, x) # {} THEN Shows(landed, x) ELSE Shows(rest, x)

\* A command that makes `after` of `base` can be undone and done again.
Reversible(base, c, after) ==
  /\ after \in Seq(Track) /\ InOrder(after) /\ c \in Commands
  /\ Bridges(c, Outline(base), Outline(after)) /\ Leads(c, Content(base), Content(after))
  /\ Lands(c)

\* By views, there and back.
GoesBy(c, base, after) ==
  /\ \A u \in Seq(Track) : SameOutline(u, base) =>
       Executed(u, c) \in Seq(Track) /\ SameOutline(Executed(u, c), after)
  /\ \A u \in Seq(Track) : SameOutline(u, after) =>
       Reverted(u, c) \in Seq(Track) /\ SameOutline(Reverted(u, c), base)
  /\ \A u \in Seq(Track) : InOrder(u) /\ SameContent(u, base) => SameContent(Executed(u, c), after)
  /\ \A u \in Seq(Track) : InOrder(u) /\ SameContent(u, after) => SameContent(Reverted(u, c), base)

\* Such a command can be undone and done again.
LEMMA ReversibleBy ==
  ASSUME NEW base \in Seq(Track), NEW after \in Seq(Track), InOrder(after), NEW c \in Commands,
         GoesBy(c, base, after), Lands(c)
  PROVE  Reversible(base, c, after)
<1>1. ASSUME NEW tl \in Seq(Track), Outline(tl) = Outline(base)
      PROVE  Executed(tl, c) \in Seq(Track) /\ Outline(Executed(tl, c)) = Outline(after)
  <2>1. SameOutline(tl, base)
    BY <1>1, OutlineGives
  <2>2. Executed(tl, c) \in Seq(Track) /\ SameOutline(Executed(tl, c), after)
    BY <2>1 DEF GoesBy
  <2> QED
    BY <2>2, OutlineFrom
<1>2. ASSUME NEW tl \in Seq(Track), Outline(tl) = Outline(after)
      PROVE  Reverted(tl, c) \in Seq(Track) /\ Outline(Reverted(tl, c)) = Outline(base)
  <2>1. SameOutline(tl, after)
    BY <1>2, OutlineGives
  <2>2. Reverted(tl, c) \in Seq(Track) /\ SameOutline(Reverted(tl, c), base)
    BY <2>1 DEF GoesBy
  <2> QED
    BY <2>2, OutlineFrom
<1>3. ASSUME NEW tl \in Seq(Track), InOrder(tl), Content(tl) = Content(base)
      PROVE  Content(Executed(tl, c)) = Content(after)
  <2>1. SameContent(tl, base)
    BY <1>3, ContentGives
  <2>2. SameContent(Executed(tl, c), after)
    BY <1>3, <2>1 DEF GoesBy
  <2>3. Executed(tl, c) \in Seq(Track)
    BY <2>1, ContentOutline DEF GoesBy
  <2> QED
    BY <2>2, <2>3, ContentFrom
<1>4. ASSUME NEW tl \in Seq(Track), InOrder(tl), Content(tl) = Content(after)
      PROVE  Content(Reverted(tl, c)) = Content(base)
  <2>1. SameContent(tl, after)
    BY <1>4, ContentGives
  <2>2. SameContent(Reverted(tl, c), base)
    BY <1>4, <2>1 DEF GoesBy
  <2>3. Reverted(tl, c) \in Seq(Track)
    BY <2>1, ContentOutline DEF GoesBy
  <2> QED
    BY <2>2, <2>3, ContentFrom
<1>5. Bridges(c, Outline(base), Outline(after))
  BY <1>1, <1>2 DEF Bridges
<1>6. Leads(c, Content(base), Content(after))
  BY <1>3, <1>4 DEF Leads
<1> QED
  BY <1>5, <1>6 DEF Reversible

\* A clip's home is one of the tracks.
LEMMA HomeIsTrack ==
  ASSUME NEW tl \in Seq(Track), InOrder(tl), NEW id \in ClipIds(tl)
  PROVE  HomeOf(tl, id) \in TrackIds(tl) /\ HomeOf(tl, id) \in Int
<1>1. DOMAIN tl = 1..Len(tl)
  BY TracksIn
<1>2. PICK i \in 1..Len(tl) : \E c \in Range(tl[i].clips) : c.id = id
  BY <1>1 DEF ClipIds
<1>3. IndexOf(tl, tl[i].id) = i /\ tl[i].id \in TrackIds(tl)
  BY IndexOfTrack
<1>4. \E t \in TrackIds(tl) : \E c \in Range(tl[IndexOf(tl, t)].clips) : c.id = id
  BY <1>2, <1>3
<1>5. HomeOf(tl, id) \in TrackIds(tl)
  BY <1>4 DEF HomeOf
<1> QED
  BY <1>5, ClipsIn

\* The timeline without the previews of a drag.
LEMMA BaseIs ==
  ASSUME NEW tl \in Seq(Track), InOrder(tl), NEW id \in ClipIds(tl),
         NEW base, base = MoveClip(tl, id, HomeOf(tl, id), ClipOf(tl, id).start)
  PROVE  /\ SameTracks(tl, base) /\ base \in Seq(Track) /\ InOrder(base)
         /\ TrackIds(base) = TrackIds(tl)
         /\ \E x : x.id = id /\ x.start = ClipOf(tl, id).start /\ Alone(base, x, HomeOf(tl, id))
<1> DEFINE c == ClipOf(tl, id)
           home == HomeOf(tl, id)
           x == Shifted(c, c.start - c.start)
<1>1. c \in Clip /\ c.id = id /\ home \in TrackIds(tl)
  BY ClipsIn, HomeIsTrack
<1>2. c.start \in Int
  BY <1>1, ClipFields
<1>3. x \in Clip /\ x.id = id /\ x.start = c.start
  <2> HIDE DEF c
  <2>1. c.start - c.start \in Int /\ c.start + (c.start - c.start) = c.start
    BY <1>2
  <2>2. x \in Clip /\ x.id = c.id /\ x.start = c.start + (c.start - c.start)
    BY <1>1, <2>1, ShiftedClip
  <2> QED
    BY <1>1, <2>1, <2>2
<1>4. Moved(tl, id, home, x, base)
  BY <1>2, MoveClipIs
<1> HIDE DEF c, home, x
<1>5. SameTracks(tl, base)
  BY <1>4 DEF Moved
<1>6. base \in Seq(Track) /\ InOrder(base) /\ Len(base) = Len(tl)
      /\ \A i \in 1..Len(tl) : base[i].id = tl[i].id
  BY <1>5, SameTracksInOrder DEF SameTracks
<1>7. TrackIds(base) = TrackIds(tl)
  <2>1. DOMAIN base = 1..Len(tl) /\ DOMAIN tl = 1..Len(tl)
    BY <1>6, TracksIn
  <2> QED
    BY <1>6, <2>1 DEF TrackIds
<1>8. Alone(base, x, home)
  <2>1. Moved(tl, x.id, home, x, base)
    BY <1>3, <1>4
  <2> QED
    BY <1>1, <1>3, <2>1, MovedAlone
<1>9. \E y : y.id = id /\ y.start = c.start /\ Alone(base, y, home)
  BY <1>3, <1>8
<1> QED
  BY <1>5, <1>6, <1>7, <1>9 DEF c, home

\* To have the same outline, and the same content, is an equivalence.
LEMMA SameOutlineTwice ==
  ASSUME NEW tl \in Seq(Track), NEW u \in Seq(Track), NEW v \in Seq(Track),
         SameOutline(tl, u), SameOutline(u, v)
  PROVE  SameOutline(tl, v)
BY DEF SameOutline

\* It is symmetric.
LEMMA SameOutlineBack ==
  ASSUME NEW tl \in Seq(Track), NEW u \in Seq(Track), SameOutline(tl, u)
  PROVE  SameOutline(u, tl)
BY DEF SameOutline

\* So it is for contents.
LEMMA SameContentBack ==
  ASSUME NEW tl \in Seq(Track), NEW u \in Seq(Track), SameContent(tl, u)
  PROVE  SameContent(u, tl)
BY DEF SameContent

\* An edit that keeps the tracks keeps the outline.
LEMMA SameTracksOutline ==
  ASSUME NEW tl \in Seq(Track), NEW after, SameTracks(tl, after)
  PROVE  after \in Seq(Track) /\ SameOutline(after, tl)
BY OutlineGives DEF SameTracks

\* Commands that keep the tracks bridge the outline with itself.
KeepsTracks(c) ==
  \A u \in Seq(Track) : SameTracks(u, Executed(u, c)) /\ SameTracks(u, Reverted(u, c))
\* They lead on and back.
LeadsBy(c, base, after) ==
  /\ \A u \in Seq(Track) : SameContent(u, base) => SameContent(Executed(u, c), after)
  /\ \A u \in Seq(Track) : SameContent(u, after) => SameContent(Reverted(u, c), base)

\* Commands that keep the tracks can be undone if they lead back and on by contents.
LEMMA KeepsReversible ==
  ASSUME NEW base \in Seq(Track), InOrder(base), NEW c \in Commands, c.type # "segment",
         KeepsTracks(c), LeadsBy(c, base, Executed(base, c))
  PROVE  Reversible(base, c, Executed(base, c))
<1> DEFINE after == Executed(base, c)
<1>1. SameTracks(base, after)
  BY DEF KeepsTracks
<1>2. LeadsBy(c, base, after)
  OBVIOUS
<1> HIDE DEF after
<1>3. after \in Seq(Track) /\ InOrder(after) /\ SameOutline(after, base)
  BY <1>1, SameTracksInOrder, SameTracksOutline
<1>4. SameOutline(base, after)
  BY <1>3, SameOutlineBack
<1>5. ASSUME NEW u \in Seq(Track), SameOutline(u, base)
      PROVE  Executed(u, c) \in Seq(Track) /\ SameOutline(Executed(u, c), after)
  <2> DEFINE v == Executed(u, c)
  <2>1. SameTracks(u, v)
    BY DEF KeepsTracks
  <2> HIDE DEF v
  <2>2. v \in Seq(Track) /\ SameOutline(v, u)
    BY <2>1, SameTracksOutline
  <2>3. SameOutline(v, base)
    BY <1>5, <2>2, SameOutlineTwice
  <2>4. SameOutline(v, after)
    BY <1>3, <1>4, <2>2, <2>3, SameOutlineTwice
  <2> QED
    BY <2>2, <2>4 DEF v
<1>6. ASSUME NEW u \in Seq(Track), SameOutline(u, after)
      PROVE  Reverted(u, c) \in Seq(Track) /\ SameOutline(Reverted(u, c), base)
  <2> DEFINE v == Reverted(u, c)
  <2>1. SameTracks(u, v)
    BY DEF KeepsTracks
  <2> HIDE DEF v
  <2>2. v \in Seq(Track) /\ SameOutline(v, u)
    BY <2>1, SameTracksOutline
  <2>3. SameOutline(v, after)
    BY <1>3, <1>6, <2>2, SameOutlineTwice
  <2>4. SameOutline(v, base)
    BY <1>3, <2>2, <2>3, SameOutlineTwice
  <2> QED
    BY <2>2, <2>4 DEF v
<1>7. GoesBy(c, base, after)
  BY <1>2, <1>5, <1>6 DEF GoesBy, LeadsBy
<1>8. Lands(c)
  BY DEF Lands
<1> QED
  BY <1>3, <1>7, <1>8, ReversibleBy DEF after

\* Dragging a clip: without its previews, the timeline is one to which undo leads back.
LEMMA MoveReversible ==
  ASSUME NEW tl \in Seq(Track), InOrder(tl), NEW id \in ClipIds(tl), NEW track \in TrackIds(tl),
         NEW at \in Int, NEW base, NEW c,
         base = MoveClip(tl, id, HomeOf(tl, id), ClipOf(tl, id).start),
         c = [type |-> "move", clip |-> id, track |-> track, at |-> at,
              prevTrack |-> HomeOf(tl, id), prev |-> ClipOf(tl, id).start]
  PROVE  SameTracks(tl, base) /\ Reversible(base, c, Executed(base, c))
<1> DEFINE home == HomeOf(tl, id)
           prev == ClipOf(tl, id).start
           after == Executed(base, c)
<1>1. /\ SameTracks(tl, base) /\ base \in Seq(Track) /\ InOrder(base) /\ track \in TrackIds(base)
  BY BaseIs
<1>2. PICK x : x.id = id /\ x.start = prev /\ Alone(base, x, home)
  BY BaseIs
<1>3. home \in Int /\ prev \in Int /\ id \in Int /\ track \in Int
  <2>1. ClipOf(tl, id) \in Clip /\ id \in Int /\ track \in Int
    BY ClipsIn
  <2> QED
    BY <2>1, ClipFields, HomeIsTrack
<1>4. c = [type |-> "move", clip |-> id, track |-> track, at |-> at, prevTrack |-> home, prev |-> prev]
  OBVIOUS
<1> HIDE DEF home, prev
<1>5. c \in Commands /\ c.type = "move" /\ c.clip = id /\ c.track = track /\ c.at = at
      /\ c.prevTrack = home /\ c.prev = prev
  BY <1>3, <1>4 DEF Commands
<1>6. \A u : /\ Executed(u, c) = MoveClip(u, id, track, at)
             /\ Reverted(u, c) = MoveClip(u, id, home, prev)
  BY <1>5 DEF Executed, Reverted
<1>7. KeepsTracks(c)
  BY <1>3, <1>6, MoveClipKeeps DEF KeepsTracks
<1>8. ASSUME NEW u \in Seq(Track), SameContent(u, base)
      PROVE  SameContent(Executed(u, c), after)
  <2>1. SameContent(base, u)
    BY <1>1, <1>8, SameContentBack
  <2>2. SameContent(MoveClip(u, x.id, track, at), MoveClip(base, x.id, track, at))
    BY <1>1, <1>2, <2>1, MoveAgain
  <2> QED
    BY <1>2, <1>6, <2>2
<1>9. ASSUME NEW u \in Seq(Track), SameContent(u, after)
      PROVE  SameContent(Reverted(u, c), base)
  <2>1. SameContent(u, MoveClip(base, x.id, track, at))
    BY <1>2, <1>6, <1>9
  <2>2. SameContent(MoveClip(u, x.id, home, x.start), base)
    BY <1>1, <1>2, <2>1, MoveBack
  <2> QED
    BY <1>2, <1>6, <2>2
<1>10. LeadsBy(c, base, after)
  BY <1>8, <1>9 DEF LeadsBy
<1> QED
  BY <1>1, <1>5, <1>7, <1>10, KeepsReversible

\* Dragging an edge of a clip.
LEMMA TrimReversible ==
  ASSUME NEW tl \in Seq(Track), InOrder(tl), NEW id \in ClipIds(tl),
         NEW side \in {"left", "right"}, NEW at \in Int, NEW prev \in Int, NEW base, NEW c,
         base = TrimClip(tl, id, side, prev),
         c = [type |-> "trim", clip |-> id, side |-> side, at |-> at, prev |-> prev]
  PROVE  SameTracks(tl, base) /\ Reversible(base, c, Executed(base, c))
<1> DEFINE after == Executed(base, c)
<1>1. SameTracks(tl, base)
  BY TrimClipIs DEF Trims
<1>2. base \in Seq(Track) /\ InOrder(base)
  BY <1>1, SameTracksInOrder DEF SameTracks
<1>3. id \in Int
  BY ClipsIn
<1>4. c \in Commands /\ c.type = "trim" /\ c.clip = id /\ c.side = side /\ c.at = at /\ c.prev = prev
  BY <1>3 DEF Commands
<1>5. \A u : /\ Executed(u, c) = TrimClip(u, id, side, at)
             /\ Reverted(u, c) = TrimClip(u, id, side, prev)
  BY <1>4 DEF Executed, Reverted
<1>6. KeepsTracks(c)
  BY <1>5, TrimClipIs DEF KeepsTracks, Trims
<1>7. ASSUME NEW u \in Seq(Track), SameContent(u, base)
      PROVE  SameContent(Executed(u, c), after)
  <2>1. SameContent(base, u)
    BY <1>2, <1>7, SameContentBack
  <2>2. SameContent(TrimClip(u, id, side, at), TrimClip(base, id, side, at))
    BY <1>2, <2>1, TrimAgain
  <2> QED
    BY <1>5, <2>2
<1>8. ASSUME NEW u \in Seq(Track), SameContent(u, after)
      PROVE  SameContent(Reverted(u, c), base)
  <2>1. SameContent(u, TrimClip(base, id, side, at))
    BY <1>5, <1>8
  <2>2. SameContent(TrimClip(u, id, side, prev), base)
    BY <2>1, TrimBack
  <2> QED
    BY <1>5, <2>2
<1>9. LeadsBy(c, base, after)
  BY <1>7, <1>8 DEF LeadsBy
<1> QED
  BY <1>1, <1>2, <1>4, <1>6, <1>9, KeepsReversible

\* Dragging a segment, whose command restores the snapshots it has taken.
LEMMA SegmentReversible ==
  ASSUME NEW base \in Seq(Track), InOrder(base), NEW ids \in SUBSET Int,
         NEW mode \in {"overwrite", "splice"}, NEW track, CanMoveSegment(base, ids, track),
         NEW at \in Int, NEW n \in Int, NEW after, NEW c,
         after = IF mode = "overwrite" THEN OverwriteSegmentTo(base, ids, track, at, n)
                 ELSE SpliceSegmentTo(base, ids, track, at, n),
         c = [type |-> "segment", ids |-> ids, mode |-> mode, track |-> track, at |-> at,
              before |-> base, after |-> after]
  PROVE  Reversible(base, c, after)
<1>1. SameTracks(base, after)
      /\ (mode = "overwrite" => OverwriteReplaces(base, after, ids, track, at))
  <2>1. mode = "overwrite" =>
          SameTracks(base, after) /\ OverwriteReplaces(base, after, ids, track, at)
    BY OverwriteSegmentLands
  <2>2. mode # "overwrite" => SameTracks(base, after)
    BY SpliceSegmentKeeps
  <2> QED
    BY <2>1, <2>2
<1>2. after \in Seq(Track) /\ InOrder(after) /\ SameOutline(after, base)
  BY <1>1, SameTracksInOrder, SameTracksOutline
<1>3. track \in Int
  BY ClipsIn DEF CanMoveSegment, Unlocked
<1>4. c \in Commands /\ c.type = "segment" /\ c.before = base /\ c.after = after /\ c.ids = ids
      /\ c.mode = mode /\ c.track = track /\ c.at = at
  BY <1>2, <1>3 DEF Commands
<1>5. \A u : Executed(u, c) = after /\ Reverted(u, c) = base
  BY <1>4 DEF Executed, Reverted
<1>6. GoesBy(c, base, after)
  <2>1. SameOutline(after, after) /\ SameOutline(base, base)
    BY DEF SameOutline
  <2>2. SameContent(after, after) /\ SameContent(base, base)
    BY DEF SameContent
  <2> QED
    BY <1>2, <1>5, <2>1, <2>2 DEF GoesBy
<1>7. Lands(c)
  <2> DEFINE landed == Landed(base, ids, at)
             rest == ClipsOf(RemoveClips(base, ids), track)
             is == ClipsOf(after, track)
  <2>1. SUFFICES ASSUME mode = "overwrite", Apart(Moving(base, ids))
                 PROVE  \A x \in 0..Latest(landed \o rest) :
                          Shows(is, x) = IF Shows(landed, x) # {} THEN Shows(landed, x)
                                         ELSE Shows(rest, x)
    <3> HIDE DEF landed, rest, is
    <3> QED
      BY <1>4 DEF Lands, landed, rest, is
  <2>2. Replaced(is, landed, rest)
    BY <1>1, <2>1 DEF OverwriteReplaces
  <2> HIDE DEF landed, rest, is
  <2>3. \A x \in 0..Latest(landed \o rest) : x \in Int
    OBVIOUS
  <2> QED
    BY <2>2, <2>3 DEF Replaced
<1> QED
  BY <1>2, <1>4, <1>6, <1>7, ReversibleBy

\* What looks the same to every view has the same outline and the same content.
LEMMA ThereAndBack ==
  ASSUME NEW base \in Seq(Track), NEW after \in Seq(Track), NEW c,
         ASSUME NEW V, NEW u \in Seq(Track), SameOutline(u, base), SameBy(V, base, u)
         PROVE  Executed(u, c) \in Seq(Track) /\ SameBy(V, Executed(u, c), after),
         ASSUME NEW V, NEW u \in Seq(Track), SameOutline(u, after), SameBy(V, after, u)
         PROVE  Reverted(u, c) \in Seq(Track) /\ SameBy(V, Reverted(u, c), base)
  PROVE  GoesBy(c, base, after)
<1>1. ASSUME NEW u \in Seq(Track), SameOutline(u, base)
      PROVE  Executed(u, c) \in Seq(Track) /\ SameOutline(Executed(u, c), after)
  <2> DEFINE v == Executed(u, c)
  <2>1. SameBy(IdAndOrder, base, u)
    BY <1>1, SameOutlineBack, OutlineView
  <2>2. v \in Seq(Track) /\ SameBy(IdAndOrder, v, after)
    BY <1>1, <2>1
  <2> HIDE DEF v
  <2>3. SameOutline(v, after)
    BY <2>2, OutlineView
  <2> QED
    BY <2>2, <2>3 DEF v
<1>2. ASSUME NEW u \in Seq(Track), SameOutline(u, after)
      PROVE  Reverted(u, c) \in Seq(Track) /\ SameOutline(Reverted(u, c), base)
  <2> DEFINE v == Reverted(u, c)
  <2>1. SameBy(IdAndOrder, after, u)
    BY <1>2, SameOutlineBack, OutlineView
  <2>2. v \in Seq(Track) /\ SameBy(IdAndOrder, v, base)
    BY <1>2, <2>1
  <2> HIDE DEF v
  <2>3. SameOutline(v, base)
    BY <2>2, OutlineView
  <2> QED
    BY <2>2, <2>3 DEF v
<1>3. ASSUME NEW u \in Seq(Track), SameContent(u, base)
      PROVE  SameContent(Executed(u, c), after)
  <2> DEFINE v == Executed(u, c)
  <2>1. SameBy(AllHeld, base, u) /\ SameOutline(u, base)
    BY <1>3, SameContentBack, ContentView, ContentOutline
  <2>2. v \in Seq(Track) /\ SameBy(AllHeld, v, after)
    BY <2>1
  <2> HIDE DEF v
  <2>3. SameContent(v, after)
    BY <2>2, ContentView
  <2> QED
    BY <2>3 DEF v
<1>4. ASSUME NEW u \in Seq(Track), SameContent(u, after)
      PROVE  SameContent(Reverted(u, c), base)
  <2> DEFINE v == Reverted(u, c)
  <2>1. SameBy(AllHeld, after, u) /\ SameOutline(u, after)
    BY <1>4, SameContentBack, ContentView, ContentOutline
  <2>2. v \in Seq(Track) /\ SameBy(AllHeld, v, base)
    BY <2>1
  <2> HIDE DEF v
  <2>3. SameContent(v, base)
    BY <2>2, ContentView
  <2> QED
    BY <2>3 DEF v
<1> QED
  BY <1>1, <1>2, <1>3, <1>4 DEF GoesBy

\* Adding a track.
LEMMA AddReversible ==
  ASSUME NEW tl \in Seq(Track), InOrder(tl), NEW new \in Track, new.id \notin TrackIds(tl),
         NEW c, c = [type |-> "add", new |-> new]
  PROVE  Reversible(tl, c, Executed(tl, c))
<1>1. c \in Commands /\ c.type = "add" /\ c.new = new
  BY DEF Commands
<1>2. \A u : Executed(u, c) = AddTrack(u, new) /\ Reverted(u, c) = RemoveTrack(u, new.id)
  BY <1>1 DEF Executed, Reverted
<1>3. new.order \in Int
  BY TrackFields
<1>4. PICK a \in 1..(Len(tl) + 1) : IsPlace(tl, new.order, a)
  BY <1>3, PlaceExists
<1> DEFINE after == InsertAt(tl, a, new)
<1>5. Executed(tl, c) = after
  BY <1>2, <1>4, AddTrackIs
<1>6. after \in Seq(Track) /\ InOrder(after)
  BY <1>4, InsertedInOrder
<1>7. Len(after) = Len(tl) + 1 /\ a \in 1..Len(after) /\ after[a] = new
  <2>1. Len(tl) \in Nat
    BY TracksIn
  <2>2. Inserts(after, tl, a, new)
    BY <1>4, TrackInserted
  <2> HIDE DEF after
  <2>3. /\ Len(after) = Len(tl) + 1
        /\ \A i \in 1..(Len(tl) + 1) :
             after[i] = IF i < a THEN tl[i] ELSE IF i = a THEN new ELSE tl[i - 1]
    BY <2>2 DEF Inserts
  <2> QED
    BY <2>1, <2>3
<1>8. RemoveAt(after, a) = tl
  BY RemoveInserted
<1>9. ASSUME NEW V, NEW u \in Seq(Track), SameOutline(u, tl), SameBy(V, tl, u)
      PROVE  Executed(u, c) \in Seq(Track) /\ SameBy(V, Executed(u, c), after)
  <2>1. SameOutline(tl, u)
    BY <1>9, SameOutlineBack
  <2>2. InOrder(u)
    BY <2>1, SameOutlineInOrder
  <2>3. Len(u) = Len(tl) /\ IsPlace(u, new.order, a)
    BY <1>4, <1>9 DEF SameOutline, IsPlace
  <2>4. Executed(u, c) = InsertAt(u, a, new)
    <3>1. a \in 1..(Len(u) + 1)
      BY <2>3
    <3> QED
      BY <1>2, <2>2, <2>3, <3>1, AddTrackIs
  <2>5. InsertAt(u, a, new) \in Seq(Track) /\ SameBy(V, InsertAt(u, a, new), InsertAt(tl, a, new))
    BY <1>9, InsertSame
  <2> QED
    BY <2>4, <2>5
<1> HIDE DEF after
<1>10. ASSUME NEW V, NEW u \in Seq(Track), SameOutline(u, after), SameBy(V, after, u)
       PROVE  Reverted(u, c) \in Seq(Track) /\ SameBy(V, Reverted(u, c), tl)
  <2>1. SameOutline(after, u)
    BY <1>6, <1>10, SameOutlineBack
  <2>2. InOrder(u)
    BY <1>6, <2>1, SameOutlineInOrder
  <2>3. a \in 1..Len(u) /\ u[a].id = new.id
    BY <1>7, <2>1 DEF SameOutline
  <2>4. Reverted(u, c) = RemoveAt(u, a)
    <3>1. RemoveTrack(u, u[a].id) = RemoveAt(u, a)
      BY <2>2, <2>3, RemoveTrackIs
    <3> QED
      BY <1>2, <2>3, <3>1
  <2>5. RemoveAt(u, a) \in Seq(Track) /\ SameBy(V, RemoveAt(u, a), RemoveAt(after, a))
    BY <1>6, <1>7, <1>10, RemoveSame
  <2> QED
    BY <1>8, <2>4, <2>5
<1>11. GoesBy(c, tl, after)
  BY <1>6, <1>9, <1>10, ThereAndBack
<1>12. Lands(c)
  BY <1>1 DEF Lands
<1> QED
  BY <1>1, <1>5, <1>6, <1>11, <1>12, ReversibleBy

\* Removing a track, which undo puts back where it was.
LEMMA RemoveReversible ==
  ASSUME NEW tl \in Seq(Track), InOrder(tl), NEW a \in 1..Len(tl),
         NEW c, c = [type |-> "remove", saved |-> tl[a], index |-> a]
  PROVE  Reversible(tl, c, Executed(tl, c))
<1> DEFINE saved == tl[a]
           after == RemoveAt(tl, a)
<1>0. saved \in Track /\ a \in Nat /\ Len(tl) \in Nat
  BY TracksIn
<1>1. c \in Commands /\ c.type = "remove" /\ c.saved = saved /\ c.index = a
  <2> HIDE DEF saved
  <2>1. c = [type |-> "remove", saved |-> saved, index |-> a]
    BY DEF saved
  <2> QED
    BY <1>0, <2>1 DEF Commands
<1>2. \A u : Executed(u, c) = RemoveTrack(u, saved.id) /\ Reverted(u, c) = InsertAt(u, a, saved)
  BY <1>1 DEF Executed, Reverted, InsertTrack
<1>3. Executed(tl, c) = after
  BY <1>2, RemoveTrackIs
<1>4. after \in Seq(Track) /\ InOrder(after)
  BY RemovedInOrder
<1>5. Len(after) = Len(tl) - 1 /\ a \in 1..(Len(after) + 1)
  <2>1. Len(RemoveAt(tl, a)) = Len(tl) - 1
    BY RemoveAtIs
  <2> QED
    BY <1>0, <2>1
<1>6. InsertAt(after, a, saved) = tl
  BY InsertRemoved
<1>7. ASSUME NEW V, NEW u \in Seq(Track), SameOutline(u, tl), SameBy(V, tl, u)
      PROVE  Executed(u, c) \in Seq(Track) /\ SameBy(V, Executed(u, c), after)
  <2>1. SameOutline(tl, u)
    BY <1>7, SameOutlineBack
  <2>2. InOrder(u)
    BY <2>1, SameOutlineInOrder
  <2>3. a \in 1..Len(u) /\ u[a].id = saved.id
    BY <2>1 DEF SameOutline
  <2>4. Executed(u, c) = RemoveAt(u, a)
    <3>1. RemoveTrack(u, u[a].id) = RemoveAt(u, a)
      BY <2>2, <2>3, RemoveTrackIs
    <3> QED
      BY <1>2, <2>3, <3>1
  <2>5. RemoveAt(u, a) \in Seq(Track) /\ SameBy(V, RemoveAt(u, a), RemoveAt(tl, a))
    BY <1>7, RemoveSame
  <2> QED
    BY <2>4, <2>5
<1> HIDE DEF after, saved
<1>8. ASSUME NEW V, NEW u \in Seq(Track), SameOutline(u, after), SameBy(V, after, u)
      PROVE  Reverted(u, c) \in Seq(Track) /\ SameBy(V, Reverted(u, c), tl)
  <2>1. /\ InsertAt(u, a, saved) \in Seq(Track)
        /\ SameBy(V, InsertAt(u, a, saved), InsertAt(after, a, saved))
    BY <1>0, <1>4, <1>5, <1>8, InsertSame
  <2> QED
    BY <1>2, <1>6, <2>1
<1>9. GoesBy(c, tl, after)
  BY <1>4, <1>7, <1>8, ThereAndBack
<1>10. Lands(c)
  BY <1>1 DEF Lands
<1> QED
  BY <1>1, <1>3, <1>4, <1>9, <1>10, ReversibleBy

-----------------------------------------------------------------------------
(* The history as a chain of commands *)

\* The last elements of a sequence.
LEMMA LastOfIs ==
  ASSUME NEW S, NEW s \in Seq(S), NEW m \in Nat \ {0}
  PROVE  LET d == IF Len(s) <= m THEN 0 ELSE Len(s) - m
         IN  /\ LastOf(s, m) \in Seq(S) /\ Len(LastOf(s, m)) = Len(s) - d
             /\ \A k \in 1..(Len(s) - d) : LastOf(s, m)[k] = s[k + d]
<1> DEFINE d == IF Len(s) <= m THEN 0 ELSE Len(s) - m
           a == Most(1, Len(s) - m + 1)
           n == Len(s)
<1>1. n \in Nat /\ \A i \in 1..n : s[i] \in S
  BY ElementOfSeq, LenProperties
<1>2. a = d + 1 /\ d \in Nat /\ d <= n
  BY <1>1 DEF Most
<1>3. LastOf(s, m) = SubSeq(s, a, n)
  BY DEF LastOf
<1> HIDE DEF a, d, n
<1>4. \A i \in a..n : s[i] \in S
  BY <1>1, <1>2
<1>5. a \in Int /\ n \in Int
  BY <1>1, <1>2
<1>6. /\ SubSeq(s, a, n) \in Seq(S)
      /\ Len(SubSeq(s, a, n)) = IF a <= n THEN n - a + 1 ELSE 0
      /\ \A i \in 1..(n - a + 1) : SubSeq(s, a, n)[i] = s[a + i - 1]
  BY <1>4, <1>5, SubSeqProperties
<1>7. (IF a <= n THEN n - a + 1 ELSE 0) = n - d /\ n - a + 1 = n - d
  BY <1>1, <1>2
<1>8. \A i \in 1..(n - d) : a + i - 1 = i + d
  BY <1>1, <1>2
<1> QED
  BY <1>3, <1>6, <1>7, <1>8 DEF d, n

\* The commands of the history from the first on, done ones and those to be done again.
Done(undo, redo, k) ==
  IF k <= Len(undo) THEN undo[k] ELSE redo[Len(undo) + Len(redo) + 1 - k]

\* Every timeline of an outline is in its order.
Ordered(p) == \A tl \in Seq(Track) : Outline(tl) = p => InOrder(tl)

\* A command between two outlines, and between what is known of the contents there.
Link(c, p, q, A, B) ==
  Bridges(c, p, q) /\ Lands(c) /\ \A a \in A, b \in B : Leads(c, a, b)

\* The commands link the outlines o, and the contents the history is known to lead through.
Chain(undo, redo, lvd, o) ==
  /\ undo \in Seq(Commands) /\ redo \in Seq(Commands) /\ lvd \in Seq(SUBSET Contents)
  /\ Len(lvd) = Len(undo) + Len(redo) + 1
  /\ \A k \in 1..(Len(undo) + Len(redo) + 1) : Ordered(o[k])
  /\ \A k \in 1..(Len(undo) + Len(redo)) :
       Link(Done(undo, redo, k), o[k], o[k + 1], lvd[k], lvd[k + 1])

\* The timeline stands at place n of the chain.
Standing(tl, n, o, lvd) ==
  /\ tl \in Seq(Track) /\ Outline(tl) = o[n]
  /\ lvd[n] \subseteq {Content(tl)}
  /\ lvd[n] = {} => \A k \in 1..Len(lvd) : lvd[k] = {}

\* A link holds as well without what is known of the contents.
LEMMA LinkForgets ==
  ASSUME NEW c, NEW p, NEW q, NEW A, NEW B, Link(c, p, q, A, B)
  PROVE  Link(c, p, q, {}, {})
BY DEF Link

\* Undo shifts the place of a command between the stacks, not in the history.
LEMMA UndoneChain ==
  ASSUME NEW undo, NEW redo, NEW lvd, NEW o, Chain(undo, redo, lvd, o), undo # <<>>
  PROVE  /\ Len(undo) \in Nat \ {0} /\ Len(Front(undo)) = Len(undo) - 1
         /\ Len(Append(redo, Last(undo))) = Len(redo) + 1
         /\ Last(undo) = Done(undo, redo, Len(undo))
         /\ Chain(Front(undo), Append(redo, Last(undo)), lvd, o)
<1> DEFINE n == Len(undo)
           m == Len(redo)
           u == Front(undo)
           r == Append(redo, Last(undo))
<1>0. undo \in Seq(Commands) /\ redo \in Seq(Commands)
  BY DEF Chain
<1>1. n \in Nat \ {0} /\ m \in Nat /\ \A i \in 1..n : undo[i] \in Commands
  BY <1>0, EmptySeq, LenProperties, ElementOfSeq
<1>2. Last(undo) = undo[n] /\ undo[n] \in Commands
  BY <1>1 DEF Last
<1>3. r \in Seq(Commands) /\ Len(r) = m + 1 /\ r[m + 1] = undo[n]
      /\ \A i \in 1..m : r[i] = redo[i]
  BY <1>0, <1>2, AppendProperties
<1>4. u \in Seq(Commands) /\ Len(u) = n - 1 /\ \A i \in 1..(n - 1) : u[i] = undo[i]
  <2>1. \A i \in 1..(n - 1) : undo[i] \in Commands
    BY <1>1
  <2>2. 1 \in Int /\ n - 1 \in Int
    BY <1>1
  <2>3. u = SubSeq(undo, 1, n - 1)
    BY DEF Front
  <2> HIDE DEF n, u
  <2>4. /\ SubSeq(undo, 1, n - 1) \in Seq(Commands)
        /\ Len(SubSeq(undo, 1, n - 1)) = IF 1 <= n - 1 THEN n - 1 - 1 + 1 ELSE 0
        /\ \A i \in 1..(n - 1 - 1 + 1) : SubSeq(undo, 1, n - 1)[i] = undo[1 + i - 1]
    BY <2>1, <2>2, SubSeqProperties
  <2>5. (IF 1 <= n - 1 THEN n - 1 - 1 + 1 ELSE 0) = n - 1 /\ n - 1 - 1 + 1 = n - 1
        /\ \A i \in 1..(n - 1) : 1 + i - 1 = i
    BY <1>1
  <2> QED
    BY <2>3, <2>4, <2>5
<1> HIDE DEF u, r
<1>5. \A k \in 1..(n + m) : Done(u, r, k) = Done(undo, redo, k)
  <2> SUFFICES ASSUME NEW k \in 1..(n + m)
               PROVE  Done(u, r, k) = Done(undo, redo, k)
    OBVIOUS
  <2> HIDE DEF n, m
  <2>1. CASE k <= n - 1
    BY <1>1, <1>4, <2>1 DEF Done, n
  <2>2. CASE k = n
    <3>1. Len(u) + Len(r) + 1 - k = m + 1 /\ ~ k <= Len(u)
      BY <1>1, <1>3, <1>4, <2>2
    <3> QED
      BY <1>1, <1>3, <2>2, <3>1 DEF Done, n
  <2>3. CASE k > n
    <3>1. Len(u) + Len(r) + 1 - k = n + m + 1 - k /\ ~ k <= Len(u) /\ n + m + 1 - k \in 1..m
          /\ ~ k <= n
      BY <1>1, <1>3, <1>4, <2>3
    <3> QED
      BY <1>3, <3>1 DEF Done, n, m
  <2> QED
    BY <1>1, <2>1, <2>2, <2>3
<1>6. Len(u) + Len(r) = n + m
  BY <1>1, <1>3, <1>4
<1>7. Chain(u, r, lvd, o)
  BY <1>3, <1>4, <1>5, <1>6 DEF Chain
<1>8. Last(undo) = Done(undo, redo, n)
  BY <1>1, <1>2 DEF Done
<1> QED
  BY <1>1, <1>3, <1>4, <1>7, <1>8 DEF u, r

\* So does redo.
LEMMA RedoneChain ==
  ASSUME NEW undo, NEW redo, NEW lvd, NEW o, Chain(undo, redo, lvd, o), redo # <<>>
  PROVE  /\ Len(redo) \in Nat \ {0} /\ Len(Append(undo, Last(redo))) = Len(undo) + 1
         /\ Len(undo) \in Nat /\ Len(Front(redo)) = Len(redo) - 1
         /\ Last(redo) = Done(undo, redo, Len(undo) + 1)
         /\ Chain(Append(undo, Last(redo)), Front(redo), lvd, o)
<1> DEFINE n == Len(undo)
           m == Len(redo)
           u == Append(undo, Last(redo))
           r == Front(redo)
<1>0. undo \in Seq(Commands) /\ redo \in Seq(Commands)
  BY DEF Chain
<1>1. m \in Nat \ {0} /\ n \in Nat /\ \A i \in 1..m : redo[i] \in Commands
  BY <1>0, EmptySeq, LenProperties, ElementOfSeq
<1>2. Last(redo) = redo[m] /\ redo[m] \in Commands
  BY <1>1 DEF Last
<1>3. u \in Seq(Commands) /\ Len(u) = n + 1 /\ u[n + 1] = redo[m]
      /\ \A i \in 1..n : u[i] = undo[i]
  BY <1>0, <1>2, AppendProperties
<1>4. r \in Seq(Commands) /\ Len(r) = m - 1 /\ \A i \in 1..(m - 1) : r[i] = redo[i]
  <2>1. \A i \in 1..(m - 1) : redo[i] \in Commands
    BY <1>1
  <2>2. 1 \in Int /\ m - 1 \in Int
    BY <1>1
  <2>3. r = SubSeq(redo, 1, m - 1)
    BY DEF Front
  <2> HIDE DEF m, r
  <2>4. /\ SubSeq(redo, 1, m - 1) \in Seq(Commands)
        /\ Len(SubSeq(redo, 1, m - 1)) = IF 1 <= m - 1 THEN m - 1 - 1 + 1 ELSE 0
        /\ \A i \in 1..(m - 1 - 1 + 1) : SubSeq(redo, 1, m - 1)[i] = redo[1 + i - 1]
    BY <2>1, <2>2, SubSeqProperties
  <2>5. (IF 1 <= m - 1 THEN m - 1 - 1 + 1 ELSE 0) = m - 1 /\ m - 1 - 1 + 1 = m - 1
        /\ \A i \in 1..(m - 1) : 1 + i - 1 = i
    BY <1>1
  <2> QED
    BY <2>3, <2>4, <2>5
<1> HIDE DEF u, r
<1>5. \A k \in 1..(n + m) : Done(u, r, k) = Done(undo, redo, k)
  <2> SUFFICES ASSUME NEW k \in 1..(n + m)
               PROVE  Done(u, r, k) = Done(undo, redo, k)
    OBVIOUS
  <2> HIDE DEF n, m
  <2>1. CASE k <= n
    <3>1. k <= Len(u) /\ k \in 1..n
      BY <1>1, <1>3, <2>1
    <3> QED
      BY <1>3, <2>1, <3>1 DEF Done, n
  <2>2. CASE k = n + 1
    <3>1. k <= Len(u) /\ ~ k <= n /\ n + m + 1 - k = m
      BY <1>1, <1>3, <2>2
    <3> QED
      BY <1>3, <2>2, <3>1 DEF Done, n, m
  <2>3. CASE k > n + 1
    <3>1. Len(u) + Len(r) + 1 - k = n + m + 1 - k /\ ~ k <= Len(u) /\ n + m + 1 - k \in 1..(m - 1)
          /\ ~ k <= n
      BY <1>1, <1>3, <1>4, <2>3
    <3> QED
      BY <1>4, <3>1 DEF Done, n, m
  <2> QED
    BY <1>1, <2>1, <2>2, <2>3
<1>6. Len(u) + Len(r) = n + m
  BY <1>1, <1>3, <1>4
<1>7. Chain(u, r, lvd, o)
  BY <1>3, <1>4, <1>5, <1>6 DEF Chain
<1>8. Last(redo) = Done(undo, redo, n + 1)
  <2>1. ~ n + 1 <= n /\ n + m + 1 - (n + 1) = m
    BY <1>1
  <2> QED
    BY <1>2, <2>1 DEF Done
<1> QED
  BY <1>1, <1>3, <1>4, <1>7, <1>8 DEF u, r

\* The contents may be forgotten.
LEMMA ForgottenChain ==
  ASSUME NEW undo, NEW redo, NEW lvd, NEW o, Chain(undo, redo, lvd, o),
         NEW none, none = [i \in DOMAIN lvd |-> {}]
  PROVE  /\ Chain(undo, redo, none, o)
         /\ \A tl \in Seq(Track), n \in 1..Len(lvd) :
              Outline(tl) = o[n] => Standing(tl, n, o, none)
<1>1. lvd \in Seq(SUBSET Contents) /\ Len(lvd) \in Nat /\ DOMAIN lvd = 1..Len(lvd)
  BY LenProperties DEF Chain
<1>2. none \in Seq(SUBSET Contents) /\ Len(none) = Len(lvd)
  <2>1. none \in [1..Len(lvd) -> SUBSET Contents]
    BY <1>1
  <2> QED
    BY <1>1, <2>1, FunctionIsSeq
<1>3. \A k \in 1..Len(lvd) : none[k] = {}
  BY <1>1
<1>4. ASSUME NEW k \in 1..(Len(undo) + Len(redo))
      PROVE  Link(Done(undo, redo, k), o[k], o[k + 1], none[k], none[k + 1])
  <2>1. Len(undo) \in Nat /\ Len(redo) \in Nat /\ Len(lvd) = Len(undo) + Len(redo) + 1
    BY LenProperties DEF Chain
  <2>2. k \in 1..Len(lvd) /\ k + 1 \in 1..Len(lvd)
    BY <2>1
  <2>3. Link(Done(undo, redo, k), o[k], o[k + 1], {}, {})
    BY LinkForgets DEF Chain
  <2> QED
    BY <1>3, <2>2, <2>3
<1>5. Chain(undo, redo, none, o)
  BY <1>2, <1>4 DEF Chain
<1> QED
  BY <1>2, <1>3, <1>5 DEF Standing

\* Where undo of a command leads: one place back in the chain.
LEMMA UndoneStands ==
  ASSUME NEW undo, NEW redo, NEW lvd, NEW o, Chain(undo, redo, lvd, o),
         NEW n \in 1..(Len(undo) + Len(redo)), NEW tl, Standing(tl, n + 1, o, lvd),
         NEW c, c = Done(undo, redo, n), NEW led,
         led = IF lvd[n] = {} THEN [i \in DOMAIN lvd |-> {}] ELSE lvd
  PROVE  Chain(undo, redo, led, o) /\ Standing(Reverted(tl, c), n, o, led)
<1> DEFINE after == Reverted(tl, c)
           none == [i \in DOMAIN lvd |-> {}]
<1>0. tl \in Seq(Track) /\ Outline(tl) = o[n + 1]
  BY DEF Standing
<1>1. Len(undo) \in Nat /\ Len(redo) \in Nat /\ Len(lvd) = Len(undo) + Len(redo) + 1
  BY LenProperties DEF Chain
<1>2. n \in 1..Len(lvd) /\ n + 1 \in 1..Len(lvd)
  BY <1>1
<1>3. Link(c, o[n], o[n + 1], lvd[n], lvd[n + 1]) /\ Ordered(o[n + 1])
  <2>1. n + 1 \in 1..(Len(undo) + Len(redo) + 1)
    BY <1>1
  <2> QED
    BY <2>1 DEF Chain
<1>4. after \in Seq(Track) /\ Outline(after) = o[n]
  BY <1>0, <1>3 DEF Link, Bridges
<1>5. InOrder(tl)
  BY <1>0, <1>3 DEF Ordered
<1>6. CASE lvd[n] = {}
  <2>1. led = none
    BY <1>6
  <2>2. Chain(undo, redo, none, o) /\ Standing(after, n, o, none)
    <3> HIDE DEF after
    <3> QED
      BY <1>2, <1>4, ForgottenChain
  <2> QED
    BY <2>1, <2>2
<1>7. CASE lvd[n] # {}
  <2>1. led = lvd
    BY <1>7
  <2>2. lvd[n + 1] # {}
    BY <1>2, <1>7 DEF Standing
  <2>3. Content(tl) \in lvd[n + 1]
    BY <2>2 DEF Standing
  <2>4. \A A \in lvd[n] : Leads(c, A, Content(tl))
    BY <1>3, <2>3 DEF Link
  <2>5. \A A \in lvd[n] : Content(after) = A
    BY <1>0, <1>5, <2>4 DEF Leads
  <2> HIDE DEF after
  <2>6. Standing(after, n, o, lvd)
    BY <1>4, <1>7, <2>5 DEF Standing
  <2> QED
    BY <2>1, <2>6 DEF after
<1> QED
  BY <1>6, <1>7

\* Where redo leads: one place on.
LEMMA RedoneStands ==
  ASSUME NEW undo, NEW redo, NEW lvd, NEW o, Chain(undo, redo, lvd, o),
         NEW n \in 1..(Len(undo) + Len(redo)), NEW tl, Standing(tl, n, o, lvd),
         NEW c, c = Done(undo, redo, n), NEW led,
         led = IF lvd[n + 1] = {} THEN [i \in DOMAIN lvd |-> {}] ELSE lvd
  PROVE  Chain(undo, redo, led, o) /\ Standing(Executed(tl, c), n + 1, o, led)
<1> DEFINE after == Executed(tl, c)
           none == [i \in DOMAIN lvd |-> {}]
<1>0. tl \in Seq(Track) /\ Outline(tl) = o[n]
  BY DEF Standing
<1>1. Len(undo) \in Nat /\ Len(redo) \in Nat /\ Len(lvd) = Len(undo) + Len(redo) + 1
  BY LenProperties DEF Chain
<1>2. n \in 1..Len(lvd) /\ n + 1 \in 1..Len(lvd)
  BY <1>1
<1>3. Link(c, o[n], o[n + 1], lvd[n], lvd[n + 1]) /\ Ordered(o[n])
  <2>1. n \in 1..(Len(undo) + Len(redo) + 1)
    BY <1>1
  <2> QED
    BY <2>1 DEF Chain
<1>4. after \in Seq(Track) /\ Outline(after) = o[n + 1]
  BY <1>0, <1>3 DEF Link, Bridges
<1>5. InOrder(tl)
  BY <1>0, <1>3 DEF Ordered
<1>6. CASE lvd[n + 1] = {}
  <2>1. led = none
    BY <1>6
  <2>2. Chain(undo, redo, none, o) /\ Standing(after, n + 1, o, none)
    <3> HIDE DEF after
    <3> QED
      BY <1>2, <1>4, ForgottenChain
  <2> QED
    BY <2>1, <2>2
<1>7. CASE lvd[n + 1] # {}
  <2>1. led = lvd
    BY <1>7
  <2>2. lvd[n] # {}
    BY <1>2, <1>7 DEF Standing
  <2>3. Content(tl) \in lvd[n]
    BY <2>2 DEF Standing
  <2>4. \A B \in lvd[n + 1] : Leads(c, Content(tl), B)
    BY <1>3, <2>3 DEF Link
  <2>5. \A B \in lvd[n + 1] : Content(after) = B
    BY <1>0, <1>5, <2>4 DEF Leads
  <2> HIDE DEF after
  <2>6. Standing(after, n + 1, o, lvd)
    BY <1>4, <1>7, <2>5 DEF Standing
  <2> QED
    BY <2>1, <2>6 DEF after
<1> QED
  BY <1>6, <1>7

\* The outline of a timeline in order is one of order.
LEMMA InOrderOrdered ==
  ASSUME NEW tl \in Seq(Track), InOrder(tl)
  PROVE  Ordered(Outline(tl))
<1> SUFFICES ASSUME NEW u \in Seq(Track), Outline(u) = Outline(tl)
             PROVE  InOrder(u)
  BY DEF Ordered
<1>1. SameOutline(tl, u)
  BY OutlineGives
<1> QED
  BY <1>1, SameOutlineInOrder

\* What is known of the contents before a command that finds `base` where tl was.
KnownBefore(base, tl, n, lvd) ==
  IF Content(base) = Content(tl) THEN SubSeq(lvd, 1, n) ELSE [i \in 1..n |-> {}]

\* A command that can be undone makes the chain one longer, whatever was to be done again.
LEMMA PerformedChain ==
  ASSUME NEW undo, NEW redo, NEW lvd, NEW o, Chain(undo, redo, lvd, o),
         NEW tl, Standing(tl, Len(undo) + 1, o, lvd),
         NEW base \in Seq(Track), Outline(base) = Outline(tl), NEW c, NEW after,
         Reversible(base, c, after),
         NEW before, before = KnownBefore(base, tl, Len(undo), lvd)
  PROVE  /\ Len(Append(undo, c)) = Len(undo) + 1
         /\ \E p : /\ Chain(Append(undo, c), <<>>, before \o <<{Content(base)}, {Content(after)}>>, p)
                   /\ Standing(after, Len(undo) + 2, p,
                               before \o <<{Content(base)}, {Content(after)}>>)
<1> DEFINE n == Len(undo)
           A == Content(base)
           B == Content(after)
           u == Append(undo, c)
           l == before \o <<{A}, {B}>>
           p == [k \in 1..(n + 2) |-> IF k <= n + 1 THEN o[k] ELSE Outline(after)]
<1>0. undo \in Seq(Commands) /\ redo \in Seq(Commands) /\ lvd \in Seq(SUBSET Contents)
  BY DEF Chain
<1>1. /\ n \in Nat /\ Len(redo) \in Nat /\ Len(lvd) = n + Len(redo) + 1
      /\ \A k \in 1..Len(lvd) : lvd[k] \in SUBSET Contents
  <2>1. n \in Nat /\ Len(redo) \in Nat /\ Len(lvd) = n + Len(redo) + 1
    BY <1>0, LenProperties DEF Chain
  <2> QED
    BY <1>0, <2>1, ElementOfSeq
<1>2. after \in Seq(Track) /\ InOrder(after) /\ c \in Commands
      /\ Bridges(c, Outline(base), Outline(after)) /\ Leads(c, A, B) /\ Lands(c)
  BY DEF Reversible
<1>3. A \in Contents /\ B \in Contents
  BY <1>2, ContentHeld
<1>4. u \in Seq(Commands) /\ Len(u) = n + 1 /\ u[n + 1] = c /\ \A k \in 1..n : u[k] = undo[k]
  BY <1>0, <1>2, AppendProperties
<1> HIDE DEF n, A, B, u
<1>5. /\ before \in Seq(SUBSET Contents) /\ Len(before) = n
      /\ \A k \in 1..n : before[k] = {} \/ (A = Content(tl) /\ before[k] = lvd[k])
  <2>1. CASE A = Content(tl)
    <3>1. before = SubSeq(lvd, 1, n)
      BY <2>1 DEF A, n, KnownBefore
    <3>2. \A i \in 1..n : lvd[i] \in SUBSET Contents
      BY <1>1
    <3>3. 1 \in Int /\ n \in Int
      BY <1>1
    <3>4. /\ SubSeq(lvd, 1, n) \in Seq(SUBSET Contents)
          /\ Len(SubSeq(lvd, 1, n)) = IF 1 <= n THEN n - 1 + 1 ELSE 0
          /\ \A i \in 1..(n - 1 + 1) : SubSeq(lvd, 1, n)[i] = lvd[1 + i - 1]
      BY <3>2, <3>3, SubSeqProperties
    <3>5. (IF 1 <= n THEN n - 1 + 1 ELSE 0) = n /\ n - 1 + 1 = n
          /\ \A i \in 1..n : 1 + i - 1 = i
      BY <1>1
    <3> QED
      BY <2>1, <3>1, <3>4, <3>5
  <2>2. CASE A # Content(tl)
    <3>1. before = [i \in 1..n |-> {}]
      BY <2>2 DEF A, n, KnownBefore
    <3>2. before \in [1..n -> SUBSET Contents]
      BY <3>1
    <3>3. before \in Seq(SUBSET Contents) /\ Len(before) = n
      BY <1>1, <3>2, FunctionIsSeq
    <3> QED
      BY <3>1, <3>3
  <2> QED
    BY <2>1, <2>2
<1>6. l \in Seq(SUBSET Contents) /\ Len(l) = n + 2 /\ l[n + 1] = {A} /\ l[n + 2] = {B}
      /\ \A k \in 1..n : l[k] = before[k]
  <2> DEFINE q == <<{A}, {B}>>
  <2>1. q \in Seq(SUBSET Contents)
    <3>1. {A} \in SUBSET Contents /\ {B} \in SUBSET Contents
      BY <1>3
    <3> QED
      BY <3>1, PairIsSeq
  <2>2. Len(q) = 2 /\ q[1] = {A} /\ q[2] = {B}
    OBVIOUS
  <2>0. l = before \o q
    OBVIOUS
  <2> HIDE DEF q, l
  <2>3. /\ before \o q \in Seq(SUBSET Contents)
        /\ Len(before \o q) = Len(before) + Len(q)
        /\ \A i \in 1..(Len(before) + Len(q)) :
             (before \o q)[i] = IF i <= Len(before) THEN before[i] ELSE q[i - Len(before)]
    BY <1>5, <2>1, ConcatProperties
  <2>4. n + 1 \in 1..(n + 2) /\ n + 2 \in 1..(n + 2) /\ ~ n + 1 <= n /\ ~ n + 2 <= n
        /\ n + 1 - n = 1 /\ n + 2 - n = 2 /\ \A k \in 1..n : k \in 1..(n + 2) /\ k <= n
    BY <1>1
  <2>5. l \in Seq(SUBSET Contents) /\ Len(l) = n + 2
        /\ \A i \in 1..(n + 2) : l[i] = IF i <= n THEN before[i] ELSE q[i - n]
    BY <1>5, <2>0, <2>2, <2>3
  <2>6. l[n + 1] = q[1] /\ l[n + 2] = q[2] /\ \A k \in 1..n : l[k] = before[k]
    <3>1. \A k \in 1..n : l[k] = before[k]
      BY <2>4, <2>5
    <3>2. l[n + 1] = q[n + 1 - n]
      BY <1>1, <2>4, <2>5
    <3>3. l[n + 2] = q[n + 2 - n]
      BY <1>1, <2>4, <2>5
    <3> QED
      BY <2>4, <3>1, <3>2, <3>3
  <2> QED
    BY <2>2, <2>5, <2>6
<1>7. p[n + 2] = Outline(after) /\ \A k \in 1..(n + 1) : p[k] = o[k]
  BY <1>1
<1>8. o[n + 1] = Outline(base)
  BY DEF Standing, n
<1> HIDE DEF l, p
<1>9. \A k \in 1..(n + 2) : Ordered(p[k])
  <2>1. Ordered(Outline(after))
    BY <1>2, InOrderOrdered
  <2>2. \A k \in 1..(n + 1) : Ordered(o[k])
    <3>1. \A k \in 1..(n + 1) : k \in 1..(n + Len(redo) + 1)
      BY <1>1
    <3> QED
      BY <3>1 DEF Chain, n
  <2>3. \A k \in 1..(n + 2) : k \in 1..(n + 1) \/ k = n + 2
    BY <1>1
  <2> QED
    BY <1>7, <2>1, <2>2, <2>3
<1>10. ASSUME NEW k \in 1..(n + 1)
       PROVE  Link(u[k], p[k], p[k + 1], l[k], l[k + 1])
  <2>1. CASE k = n + 1
    <3>1. Link(c, o[n + 1], Outline(after), {A}, {B})
      BY <1>2, <1>8 DEF Link
    <3>2. k + 1 = n + 2
      BY <1>1, <2>1
    <3> QED
      BY <1>4, <1>6, <1>7, <2>1, <3>1, <3>2
  <2>2. CASE k \in 1..n
    <3>1. Link(undo[k], o[k], o[k + 1], lvd[k], lvd[k + 1])
      <4>1. k \in 1..(n + Len(redo)) /\ k <= n
        BY <1>1, <2>2
      <4> QED
        BY <4>1 DEF Chain, Done, n
    <3>2. p[k] = o[k] /\ p[k + 1] = o[k + 1] /\ u[k] = undo[k]
      <4>1. k \in 1..(n + 1) /\ k + 1 \in 1..(n + 1)
        BY <1>1, <2>2
      <4> QED
        BY <1>4, <1>7, <2>2, <4>1
    <3>3. CASE l[k] = {}
      BY <3>1, <3>2, <3>3 DEF Link
    <3>4. CASE l[k] # {}
      <4>1. A = Content(tl) /\ l[k] = lvd[k]
        BY <1>5, <1>6, <2>2, <3>4
      <4>2. lvd[n + 1] = {A}
        <5>1. k \in 1..Len(lvd)
          BY <1>1, <2>2
        <5>2. lvd[n + 1] # {}
          BY <3>4, <4>1, <5>1 DEF Standing, n
        <5> QED
          BY <4>1, <5>2 DEF Standing, n
      <4>3. l[k + 1] \subseteq lvd[k + 1]
        <5>1. CASE k = n
          BY <1>6, <4>2, <5>1
        <5>2. CASE k # n
          <6>1. k + 1 \in 1..n
            BY <1>1, <2>2, <5>2
          <6> QED
            BY <1>5, <1>6, <6>1
        <5> QED
          BY <5>1, <5>2
      <4> QED
        BY <3>1, <3>2, <4>1, <4>3 DEF Link
    <3> QED
      BY <3>3, <3>4
  <2> QED
    BY <1>1, <2>1, <2>2
<1>11. Chain(u, <<>>, l, p)
  <2> DEFINE e == <<>>
  <2>1. e \in Seq(Commands) /\ Len(e) = 0
    OBVIOUS
  <2> HIDE DEF e
  <2>2. Len(u) + Len(e) = n + 1 /\ Len(u) + Len(e) + 1 = n + 2
    BY <1>1, <1>4, <2>1
  <2>3. \A k \in 1..(n + 1) : Done(u, e, k) = u[k]
    BY <1>4 DEF Done
  <2>4. Chain(u, e, l, p)
    BY <1>4, <1>6, <1>9, <1>10, <2>1, <2>2, <2>3 DEF Chain
  <2> QED
    BY <2>4 DEF e
<1>12. Standing(after, n + 2, p, l)
  BY <1>2, <1>6, <1>7 DEF Standing, B
<1> QED
  BY <1>4, <1>11, <1>12 DEF n, u, l, A, B

\* Of a long history the oldest commands are dropped.
LEMMA ChoppedChain ==
  ASSUME NEW undo, NEW lvd, NEW o, Chain(undo, <<>>, lvd, o), NEW m \in Nat \ {0},
         NEW tl, Standing(tl, Len(undo) + 1, o, lvd)
  PROVE  /\ Len(LastOf(undo, m)) \in 0..m
         /\ \E p : /\ Chain(LastOf(undo, m), <<>>, LastOf(lvd, m + 1), p)
                   /\ Standing(tl, Len(LastOf(undo, m)) + 1, p, LastOf(lvd, m + 1))
<1> DEFINE n == Len(undo)
           d == IF n <= m THEN 0 ELSE n - m
           e == <<>>
           u == LastOf(undo, m)
           l == LastOf(lvd, m + 1)
           p == [k \in 1..(n + 1 - d) |-> o[k + d]]
<1>0. e \in Seq(Commands) /\ Len(e) = 0
  OBVIOUS
<1> HIDE DEF e
<1>00. Chain(undo, e, lvd, o)
  BY DEF e
<1>1. undo \in Seq(Commands) /\ lvd \in Seq(SUBSET Contents) /\ n \in Nat /\ Len(lvd) = n + 1
  <2>1. undo \in Seq(Commands) /\ lvd \in Seq(SUBSET Contents) /\ Len(lvd) = n + Len(e) + 1
    BY <1>00 DEF Chain
  <2>2. n \in Nat
    BY <2>1, LenProperties
  <2> QED
    BY <1>0, <2>1, <2>2
<1>2. d \in Nat /\ d <= n /\ n - d <= m
  BY <1>1
<1>3. u \in Seq(Commands) /\ Len(u) = n - d /\ \A k \in 1..(n - d) : u[k] = undo[k + d]
  BY <1>1, LastOfIs
<1>4. l \in Seq(SUBSET Contents) /\ Len(l) = n + 1 - d /\ \A k \in 1..(n + 1 - d) : l[k] = lvd[k + d]
  <2> DEFINE f == IF Len(lvd) <= m + 1 THEN 0 ELSE Len(lvd) - (m + 1)
  <2>1. f = d
    BY <1>1
  <2>2. m + 1 \in Nat \ {0}
    OBVIOUS
  <2>3. LastOf(lvd, m + 1) \in Seq(SUBSET Contents) /\ Len(LastOf(lvd, m + 1)) = Len(lvd) - f
        /\ \A k \in 1..(Len(lvd) - f) : LastOf(lvd, m + 1)[k] = lvd[k + f]
    BY <1>1, <2>2, LastOfIs
  <2>4. Len(lvd) - f = n + 1 - d
    <3> HIDE DEF f, d
    <3> QED
      BY <1>1, <1>2, <2>1
  <2>5. l = LastOf(lvd, m + 1)
    OBVIOUS
  <2> HIDE DEF f, d, l
  <2> QED
    BY <2>1, <2>3, <2>4, <2>5
<1>5. \A k \in 1..(n + 1 - d) : p[k] = o[k + d]
  OBVIOUS
<1> HIDE DEF d, u, l, p
<1>6. \A k \in 1..(n + 1 - d) : Ordered(p[k])
  <2>1. \A k \in 1..(n + 1 - d) : k + d \in 1..(n + Len(e) + 1)
    BY <1>0, <1>1, <1>2
  <2> QED
    BY <1>00, <1>5, <2>1 DEF Chain
<1>7. ASSUME NEW k \in 1..(n - d)
      PROVE  Link(u[k], p[k], p[k + 1], l[k], l[k + 1])
  <2>1. k + d \in 1..(n + Len(e)) /\ k + d <= n /\ k \in 1..(n + 1 - d) /\ k + 1 \in 1..(n + 1 - d)
        /\ k + d + 1 = k + 1 + d
    BY <1>0, <1>1, <1>2
  <2>2. Link(undo[k + d], o[k + d], o[k + d + 1], lvd[k + d], lvd[k + d + 1])
    BY <1>00, <2>1 DEF Chain, Done
  <2> QED
    BY <1>3, <1>4, <1>5, <2>1, <2>2
<1>8. Chain(u, e, l, p)
  <2>1. Len(u) + Len(e) = n - d /\ n - d + 1 = n + 1 - d
    BY <1>0, <1>1, <1>2, <1>3
  <2>2. \A k \in 1..(n - d) : Done(u, e, k) = u[k]
    BY <1>2, <1>3 DEF Done
  <2> QED
    BY <1>0, <1>3, <1>4, <1>6, <1>7, <2>1, <2>2 DEF Chain
<1>9. Standing(tl, n - d + 1, p, l)
  <2>1. n - d + 1 \in 1..(n + 1 - d) /\ n - d + 1 + d = n + 1
    BY <1>1, <1>2
  <2>2. p[n - d + 1] = o[n + 1] /\ l[n - d + 1] = lvd[n + 1]
    BY <1>4, <1>5, <2>1
  <2>3. \A k \in 1..(n + 1 - d) : k + d \in 1..Len(lvd)
    BY <1>1, <1>2
  <2> QED
    BY <1>4, <2>2, <2>3 DEF Standing
<1>10. Len(u) \in 0..m
  BY <1>1, <1>2, <1>3
<1> QED
  BY <1>3, <1>8, <1>9, <1>10 DEF e, u, l

-----------------------------------------------------------------------------
(* What every timeline keeps with its history *)

\* The two stacks are one chain of commands, and the timeline stands between them.
HistoryIsChain ==
  /\ made \in Int
  /\ Len(undoStack) + Len(redoStack) <= MaxHistory
  /\ \E o : Chain(undoStack, redoStack, lived, o)
            /\ Standing(tracks, Len(undoStack) + 1, o, lived)

\* The timeline is one of order, and the stacks hold commands.
LEMMA ChainGives ==
  ASSUME HistoryIsChain
  PROVE  /\ tracks \in Seq(Track) /\ InOrder(tracks)
         /\ undoStack \in Seq(Commands) /\ Len(undoStack) \in Nat
         /\ redoStack \in Seq(Commands) /\ Len(redoStack) \in Nat
         /\ Len(lived) = Len(undoStack) + 1 + Len(redoStack)
<1>1. PICK o : Chain(undoStack, redoStack, lived, o)
               /\ Standing(tracks, Len(undoStack) + 1, o, lived)
  BY DEF HistoryIsChain
<1>2. undoStack \in Seq(Commands) /\ redoStack \in Seq(Commands)
      /\ Len(lived) = Len(undoStack) + Len(redoStack) + 1
  BY <1>1 DEF Chain
<1>3. Len(undoStack) \in Nat /\ Len(redoStack) \in Nat
  BY <1>2, LenProperties
<1>4. Ordered(o[Len(undoStack) + 1])
  <2>1. Len(undoStack) + 1 \in 1..(Len(undoStack) + Len(redoStack) + 1)
    BY <1>3
  <2> QED
    BY <1>1, <2>1 DEF Chain
<1>5. tracks \in Seq(Track) /\ InOrder(tracks)
  BY <1>1, <1>4 DEF Standing, Ordered
<1> QED
  BY <1>2, <1>3, <1>5

\* The last id given out is a number.
LEMMA MadeIsNumber ==
  ASSUME NEW after \in Seq(Track), made \in Int
  PROVE  MadeBy(after) \in Int
BY ClipsIn, MaxWith DEF MadeBy

\* At first the chain has no command.
LEMMA InitChain == Init => HistoryIsChain
<1> SUFFICES ASSUME Init PROVE HistoryIsChain
  OBVIOUS
<1> DEFINE e == <<>>
           l == <<{Content(Initial)}>>
           o == [k \in 1..1 |-> Outline(Initial)]
<1>1. Initial \in Seq(Track) /\ InOrder(Initial)
  BY InitialAssumption
<1>2. made \in Int
  <2>1. 0 \in Int
    OBVIOUS
  <2> QED
    BY <1>1, <2>1, ClipsIn, MaxWith DEF Init
<1>3. e \in Seq(Commands) /\ Len(e) = 0
  OBVIOUS
<1>4. l \in Seq(SUBSET Contents) /\ Len(l) = 1 /\ l[1] = {Content(Initial)}
  <2>1. {Content(Initial)} \in SUBSET Contents
    BY <1>1, ContentHeld
  <2>2. l \in Seq(SUBSET Contents)
    BY <2>1, PairIsSeq
  <2> QED
    BY <2>2
<1>5. o[1] = Outline(Initial) /\ Ordered(Outline(Initial))
  BY <1>1, InOrderOrdered
<1>6. tracks = Initial /\ undoStack = e /\ redoStack = e /\ lived = l
  BY DEF Init
<1> HIDE DEF e, l, o
<1>7. Chain(e, e, l, o)
  BY <1>3, <1>4, <1>5 DEF Chain
<1>8. Standing(Initial, Len(e) + 1, o, l)
  BY <1>1, <1>3, <1>4, <1>5 DEF Standing
<1>9. Len(e) + Len(e) <= MaxHistory
  BY <1>3, BoundsAssumption
<1> QED
  BY <1>2, <1>6, <1>7, <1>8, <1>9 DEF HistoryIsChain

\* A command that can be undone.
LEMMA PerformKeeps ==
  ASSUME HistoryIsChain, NEW base, SameTracks(tracks, base), NEW c, NEW after,
         Reversible(base, c, after), Perform(base, c, after)
  PROVE  HistoryIsChain'
<1> DEFINE n == Len(undoStack)
           before == KnownBefore(base, tracks, n, lived)
           u == Append(undoStack, c)
           l == before \o <<{Content(base)}, {Content(after)}>>
<1>1. PICK o : Chain(undoStack, redoStack, lived, o) /\ Standing(tracks, n + 1, o, lived)
  BY DEF HistoryIsChain
<1>2. base \in Seq(Track) /\ Outline(base) = Outline(tracks)
  BY DEF SameTracks
<1>3. n \in Nat /\ n + 1 - 1 = n
  BY ChainGives
<1>4. /\ tracks' = after /\ redoStack' = <<>> /\ made' = MadeBy(after)
      /\ undoStack' = LastOf(u, MaxHistory) /\ lived' = LastOf(l, MaxHistory + 1)
  BY <1>3 DEF Perform, KnownBefore
<1>5. /\ Len(u) = n + 1
      /\ \E p : Chain(u, <<>>, l, p) /\ Standing(after, n + 2, p, l)
  <2>1. before = KnownBefore(base, tracks, Len(undoStack), lived)
    OBVIOUS
  <2> HIDE DEF before
  <2> QED
    BY <1>1, <1>2, <2>1, PerformedChain
<1> HIDE DEF n, u, l
<1>6. PICK p : Chain(u, <<>>, l, p) /\ Standing(after, n + 2, p, l)
  BY <1>5
<1>7. n + 2 = Len(u) + 1
  BY <1>3, <1>5
<1>8. MaxHistory \in Nat \ {0}
  BY BoundsAssumption
<1>9. /\ Len(LastOf(u, MaxHistory)) \in 0..MaxHistory
      /\ \E q : /\ Chain(LastOf(u, MaxHistory), <<>>, LastOf(l, MaxHistory + 1), q)
                /\ Standing(after, Len(LastOf(u, MaxHistory)) + 1, q, LastOf(l, MaxHistory + 1))
  BY <1>6, <1>7, <1>8, ChoppedChain
<1>10. /\ Len(undoStack') \in 0..MaxHistory
       /\ \E q : /\ Chain(undoStack', redoStack', lived', q)
                 /\ Standing(tracks', Len(undoStack') + 1, q, lived')
  BY <1>4, <1>9
<1>11. made' \in Int
  <2>1. after \in Seq(Track)
    BY DEF Reversible
  <2> QED
    BY <1>4, <2>1, MadeIsNumber DEF HistoryIsChain
<1>12. Len(undoStack') + Len(redoStack') <= MaxHistory
  <2> DEFINE e == <<>>
             k == Len(undoStack')
  <2>1. Len(e) = 0 /\ redoStack' = e
    BY <1>4
  <2>2. k \in 0..MaxHistory
    BY <1>10
  <2> HIDE DEF e, k
  <2>3. k + Len(e) <= MaxHistory
    BY <1>8, <2>1, <2>2
  <2> QED
    BY <2>1, <2>3 DEF k
<1> QED
  BY <1>10, <1>11, <1>12 DEF HistoryIsChain

\* Every command of the user can be undone.
LEMMA CommandKeeps ==
  ASSUME HistoryIsChain, Command
  PROVE  HistoryIsChain'
<1>0. tracks \in Seq(Track) /\ InOrder(tracks)
  BY ChainGives
<1>1. /\ IsFiniteSet(TrackIds(tracks)) /\ ClipIds(tracks) \in SUBSET Int
      /\ TrackIds(tracks) \in SUBSET Int /\ Positions \in SUBSET Int /\ made \in Int
      /\ DOMAIN tracks = 1..Len(tracks) /\ Len(tracks) \in Nat
  BY <1>0, ClipsIn, TracksIn, BoundsAssumption DEF HistoryIsChain
<1>2. SameTracks(tracks, tracks)
  BY <1>0 DEF SameTracks
<1>3. ASSUME NEW id \in ClipIds(tracks), NEW t \in TrackIds(tracks), NEW at \in Positions,
             DragClip(id, t, at)
      PROVE  HistoryIsChain'
  <2> DEFINE base == MoveClip(tracks, id, HomeOf(tracks, id), ClipOf(tracks, id).start)
             c == [type |-> "move", clip |-> id, track |-> t, at |-> at,
                   prevTrack |-> HomeOf(tracks, id), prev |-> ClipOf(tracks, id).start]
  <2>1. at \in Int
    BY <1>1
  <2>2. SameTracks(tracks, base) /\ Reversible(base, c, Executed(base, c))
    <3> DEFINE b == base
               d == c
    <3>1. b = MoveClip(tracks, id, HomeOf(tracks, id), ClipOf(tracks, id).start)
      OBVIOUS
    <3>2. d = [type |-> "move", clip |-> id, track |-> t, at |-> at,
               prevTrack |-> HomeOf(tracks, id), prev |-> ClipOf(tracks, id).start]
      OBVIOUS
    <3> HIDE DEF b, d
    <3>3. SameTracks(tracks, b) /\ Reversible(b, d, Executed(b, d))
      BY <1>0, <2>1, <3>1, <3>2, MoveReversible
    <3> QED
      BY <3>3 DEF b, d
  <2>3. Perform(base, c, Executed(base, c))
    BY <1>3 DEF DragClip
  <2> HIDE DEF base, c
  <2> QED
    BY <2>2, <2>3, PerformKeeps
<1>4. ASSUME NEW id \in ClipIds(tracks), NEW side \in {"left", "right"}, NEW at \in Positions,
             DragEdge(id, side, at)
      PROVE  HistoryIsChain'
  <2> DEFINE prev == IF side = "left" THEN ClipOf(tracks, id).start ELSE ClipOf(tracks, id).end
             base == TrimClip(tracks, id, side, prev)
             c == [type |-> "trim", clip |-> id, side |-> side, at |-> at, prev |-> prev]
  <2>1. at \in Int /\ prev \in Int
    BY <1>0, <1>1, ClipsIn, ClipFields
  <2>2. Perform(base, c, Executed(base, c))
    BY <1>4 DEF DragEdge
  <2> HIDE DEF prev
  <2>3. base = TrimClip(tracks, id, side, prev)
        /\ c = [type |-> "trim", clip |-> id, side |-> side, at |-> at, prev |-> prev]
    OBVIOUS
  <2> HIDE DEF base, c
  <2>4. SameTracks(tracks, base) /\ Reversible(base, c, Executed(base, c))
    BY <1>0, <2>1, <2>3, TrimReversible
  <2> QED
    BY <2>2, <2>4, PerformKeeps
<1>5. ASSUME NEW id \in ClipIds(tracks), NEW t \in TrackIds(tracks), NEW at \in Positions,
             NEW ids \in SUBSET ClipIds(tracks), NEW mode \in {"overwrite", "splice"},
             DragSegment(id, ids, mode, t, at)
      PROVE  HistoryIsChain'
  <2> DEFINE base == MoveClip(tracks, id, HomeOf(tracks, id), ClipOf(tracks, id).start)
             after == IF mode = "overwrite" THEN OverwriteSegmentTo(base, ids, t, at, made)
                      ELSE SpliceSegmentTo(base, ids, t, at, made)
             c == [type |-> "segment", ids |-> ids, mode |-> mode, track |-> t, at |-> at,
                   before |-> base, after |-> after]
  <2>1. CanMoveSegment(base, ids, t) /\ Perform(base, c, after)
    BY <1>5 DEF DragSegment
  <2>2. base = MoveClip(tracks, id, HomeOf(tracks, id), ClipOf(tracks, id).start)
    OBVIOUS
  <2> HIDE DEF base
  <2>3. SameTracks(tracks, base) /\ base \in Seq(Track) /\ InOrder(base)
    BY <1>0, <2>2, BaseIs
  <2>4. ids \in SUBSET Int /\ at \in Int /\ made \in Int
    BY <1>1
  <2>5. after = IF mode = "overwrite" THEN OverwriteSegmentTo(base, ids, t, at, made)
                ELSE SpliceSegmentTo(base, ids, t, at, made)
    OBVIOUS
  <2> HIDE DEF after
  <2>6. c = [type |-> "segment", ids |-> ids, mode |-> mode, track |-> t, at |-> at,
             before |-> base, after |-> after]
    OBVIOUS
  <2> HIDE DEF c
  <2>7. Reversible(base, c, after)
    BY <2>1, <2>3, <2>4, <2>5, <2>6, SegmentReversible
  <2> QED
    BY <2>1, <2>3, <2>7, PerformKeeps
<1>6. ASSUME ClickAddTrack
      PROVE  HistoryIsChain'
  <2> DEFINE m == Max({0} \cup TrackIds(tracks))
             new == NewTrack(1 + m, Len(tracks))
             c == [type |-> "add", new |-> new]
  <2>1. m \in Int /\ \A x \in TrackIds(tracks) : x <= m
    <3>1. 0 \in Int
      OBVIOUS
    <3> QED
      BY <1>1, <3>1, MaxWith
  <2>2. Perform(tracks, c, Executed(tracks, c))
    BY <1>6 DEF ClickAddTrack
  <2> HIDE DEF m
  <2>3. new.id = 1 + m /\ new \in Track
    <3> DEFINE e == <<>>
    <3>1. e \in Seq(Clip)
      OBVIOUS
    <3>2. new = [id |-> 1 + m, order |-> Len(tracks), locked |-> FALSE, clips |-> e]
      BY DEF NewTrack
    <3> HIDE DEF e, new
    <3>3. 1 + m \in Int /\ Len(tracks) \in Int
      BY <1>1, <2>1
    <3> QED
      BY <3>1, <3>2, <3>3 DEF Track
  <2>4. new.id \notin TrackIds(tracks)
    BY <1>1, <2>1, <2>3
  <2> HIDE DEF new
  <2>5. c = [type |-> "add", new |-> new]
    OBVIOUS
  <2> HIDE DEF c
  <2>6. Reversible(tracks, c, Executed(tracks, c))
    BY <1>0, <2>3, <2>4, <2>5, AddReversible
  <2> QED
    BY <1>2, <2>2, <2>6, PerformKeeps
<1>7. ASSUME NEW id \in TrackIds(tracks), ClickRemoveTrack(id)
      PROVE  HistoryIsChain'
  <2> DEFINE i == IndexOf(tracks, id)
             c == [type |-> "remove", saved |-> tracks[i], index |-> i]
  <2>1. i \in 1..Len(tracks)
    BY <1>0, ClipsIn
  <2>2. Perform(tracks, c, Executed(tracks, c))
    BY <1>7 DEF ClickRemoveTrack
  <2> HIDE DEF i
  <2>3. c = [type |-> "remove", saved |-> tracks[i], index |-> i]
    OBVIOUS
  <2> HIDE DEF c
  <2>4. Reversible(tracks, c, Executed(tracks, c))
    BY <1>0, <2>1, <2>3, RemoveReversible
  <2> QED
    BY <1>2, <2>2, <2>4, PerformKeeps
<1> QED
  BY <1>3, <1>4, <1>5, <1>6, <1>7 DEF Command

\* Undo goes one place back in the chain.
LEMMA UndoKeeps ==
  ASSUME HistoryIsChain, Undo
  PROVE  HistoryIsChain'
<1> DEFINE n == Len(undoStack)
           c == Last(undoStack)
           u == Front(undoStack)
           r == Append(redoStack, c)
<1>1. PICK o : Chain(undoStack, redoStack, lived, o) /\ Standing(tracks, n + 1, o, lived)
  BY DEF HistoryIsChain
<1>2. /\ n \in Nat \ {0} /\ Len(u) = n - 1 /\ Len(r) = Len(redoStack) + 1
      /\ c = Done(undoStack, redoStack, n) /\ Len(redoStack) \in Nat
  <2>1. undoStack # <<>>
    BY DEF Undo
  <2> QED
    BY <1>1, <2>1, UndoneChain, ChainGives
<1>3. /\ tracks' = Reverted(tracks, c) /\ undoStack' = u /\ redoStack' = r /\ made' = made
      /\ lived' = IF lived[n] = {} THEN [i \in DOMAIN lived |-> {}] ELSE lived
  BY DEF Undo, Led
<1>4. undoStack # <<>>
  BY DEF Undo
<1> HIDE DEF n, c
<1>5. n \in 1..(Len(undoStack) + Len(redoStack))
  BY <1>2 DEF n
<1>6. Chain(undoStack, redoStack, lived', o) /\ Standing(tracks', n, o, lived')
  BY <1>1, <1>2, <1>3, <1>5, UndoneStands
<1>7. Chain(u, r, lived', o)
  BY <1>4, <1>6, UndoneChain DEF c
<1> HIDE DEF u, r
<1>8. n = Len(u) + 1 /\ Len(u) + Len(r) = n + Len(redoStack)
  BY <1>2
<1> QED
  BY <1>3, <1>6, <1>7, <1>8 DEF HistoryIsChain, n

\* Redo goes one place on.
LEMMA RedoKeeps ==
  ASSUME HistoryIsChain, Redo
  PROVE  HistoryIsChain'
<1> DEFINE n == Len(undoStack)
           c == Last(redoStack)
           u == Append(undoStack, c)
           r == Front(redoStack)
<1>1. PICK o : Chain(undoStack, redoStack, lived, o) /\ Standing(tracks, n + 1, o, lived)
  BY DEF HistoryIsChain
<1>4. redoStack # <<>>
  BY DEF Redo
<1>2. /\ n \in Nat /\ Len(redoStack) \in Nat \ {0} /\ Len(u) = n + 1
      /\ Len(r) = Len(redoStack) - 1 /\ c = Done(undoStack, redoStack, n + 1)
  BY <1>1, <1>4, RedoneChain
<1>3. /\ tracks' = Executed(tracks, c) /\ undoStack' = u /\ redoStack' = r /\ made' = made
      /\ lived' = IF lived[n + 2] = {} THEN [i \in DOMAIN lived |-> {}] ELSE lived
  BY DEF Redo, Led
<1> HIDE DEF n, c
<1>5. n + 1 \in 1..(Len(undoStack) + Len(redoStack)) /\ n + 1 + 1 = n + 2
  BY <1>2 DEF n
<1>6. Chain(undoStack, redoStack, lived', o) /\ Standing(tracks', n + 1 + 1, o, lived')
  BY <1>1, <1>2, <1>3, <1>5, RedoneStands
<1>7. Chain(u, r, lived', o)
  BY <1>4, <1>6, RedoneChain DEF c
<1> HIDE DEF u, r
<1>8. n + 1 + 1 = Len(u) + 1 /\ Len(u) + Len(r) = n + Len(redoStack)
  BY <1>2
<1> QED
  BY <1>3, <1>6, <1>7, <1>8 DEF HistoryIsChain, n

\* An edit past the history leaves the chain, without what was known of its contents.
LEMMA EditKeeps ==
  ASSUME HistoryIsChain, NEW after, SameTracks(tracks, after), Edit(after)
  PROVE  HistoryIsChain'
<1>1. PICK o : Chain(undoStack, redoStack, lived, o)
               /\ Standing(tracks, Len(undoStack) + 1, o, lived)
  BY DEF HistoryIsChain
<1>2. after \in Seq(Track) /\ Outline(after) = o[Len(undoStack) + 1]
  BY <1>1 DEF SameTracks, Standing
<1>3. Len(undoStack) + 1 \in 1..Len(lived)
  BY ChainGives
<1>4. /\ tracks' = after /\ made' = MadeBy(after) /\ undoStack' = undoStack /\ redoStack' = redoStack
      /\ lived' = [i \in DOMAIN lived |-> {}]
  BY DEF Edit
<1>5. Chain(undoStack, redoStack, lived', o) /\ Standing(after, Len(undoStack) + 1, o, lived')
  BY <1>1, <1>2, <1>3, <1>4, ForgottenChain
<1>6. made' \in Int
  BY <1>2, <1>4, MadeIsNumber DEF HistoryIsChain
<1> QED
  BY <1>4, <1>5, <1>6 DEF HistoryIsChain

\* Every edit past the history keeps the tracks.
LEMMA DirectKeeps ==
  ASSUME HistoryIsChain, Direct
  PROVE  HistoryIsChain'
<1>0. tracks \in Seq(Track) /\ InOrder(tracks) /\ made \in Int
  BY ChainGives DEF HistoryIsChain
<1>1. Positions \in SUBSET Int /\ Lengths \in SUBSET Nat
  BY BoundsAssumption
<1>2. PICK after : SameTracks(tracks, after) /\ Edit(after)
  <2>1. CASE \E ids \in SUBSET ClipIds(tracks) :
               Edit(RemoveClips(tracks, ids)) \/ Edit(ExtractSelection(tracks, ids))
    BY <1>0, <2>1, RemoveClipsKeeps, ExtractKeeps
  <2>2. CASE \E id \in ClipIds(tracks) :
               Edit(DuplicateClip(tracks, id, made)) \/ Edit(RippleDelete(tracks, id))
    BY <1>0, <2>2, DuplicateClipKeeps, RippleDeleteKeeps
  <2>3. CASE \E id \in ClipIds(tracks), at \in Positions : Edit(SplitClip(tracks, id, at, made))
    BY <1>0, <1>1, <2>3, SplitClipKeeps
  <2>4. CASE \E at \in Positions : Edit(RazorAt(tracks, at, made))
    BY <1>0, <1>1, <2>4, RazorAtKeeps
  <2>5. CASE \E at \in Positions, len \in Lengths, t \in AppendTargets(tracks) :
               Edit(AppendAsset(tracks, t, at, len, made))
    BY <1>0, <1>1, <2>5, AppendAssetKeeps
  <2>6. CASE \E at \in Positions, len \in Lengths, targets \in Patched(tracks) :
               Edit(OverwriteEdit(tracks, targets, at, len, made))
    BY <1>0, <1>1, <2>6, OverwriteEditKeeps
  <2>7. CASE \E at \in Positions, len \in Lengths, targets \in Patched(tracks) :
               Edit(InsertEdit(tracks, targets, at, len, made))
    BY <1>0, <1>1, <2>7, InsertEditIs
  <2>8. CASE \E id \in TrackIds(tracks) : Edit(ToggleLock(tracks, id))
    BY <1>0, <2>8, ToggleLockKeeps
  <2> QED
    BY <2>1, <2>2, <2>3, <2>4, <2>5, <2>6, <2>7, <2>8 DEF Direct
<1> QED
  BY <1>2, EditKeeps

\* So every step keeps the chain.
LEMMA StepKeeps == HistoryIsChain /\ [Next]_vars => HistoryIsChain'
<1> SUFFICES ASSUME HistoryIsChain, [Next]_vars
             PROVE  HistoryIsChain'
  OBVIOUS
<1>1. CASE UNCHANGED vars
  BY <1>1 DEF vars, HistoryIsChain
<1> QED
  BY <1>1, CommandKeeps, UndoKeeps, RedoKeeps, DirectKeeps DEF Next

\* What is done and what is undone is always one history of at most MaxHistory commands:
\* one leads from outline to outline, the other back, whatever edits go past them.
THEOREM OneHistory == Spec => []HistoryIsChain
<1> QED
  BY InitChain, StepKeeps, PTL DEF Spec

\* Undo and redo lead exactly through the timelines there were, as long as no edit goes
\* past the history.
THEOREM UndoIsExact == Spec => []HistoryExact
<1>1. HistoryIsChain => HistoryExact
  BY DEF HistoryIsChain, Standing, HistoryExact
<1> QED
  BY <1>1, OneHistory, PTL

\* A segment that was dragged replaces what it covers and nothing else, however often its
\* command is undone and done again.
THEOREM SegmentsLand == Spec => []SegmentLands
<1>1. HistoryIsChain => SegmentLands
  <2> SUFFICES ASSUME HistoryIsChain PROVE SegmentLands
    OBVIOUS
  <2>1. \A c \in Range(undoStack) : Lands(c)
    <3>1. PICK o : Chain(undoStack, redoStack, lived, o)
      BY DEF HistoryIsChain
    <3>2. undoStack \in Seq(Commands) /\ Len(undoStack) \in Nat /\ Len(redoStack) \in Nat
      BY ChainGives
    <3>3. ASSUME NEW k \in 1..Len(undoStack)
          PROVE  Lands(undoStack[k])
      <4>1. k \in 1..(Len(undoStack) + Len(redoStack)) /\ k <= Len(undoStack)
        BY <3>2
      <4>2. Link(Done(undoStack, redoStack, k), o[k], o[k + 1], lived[k], lived[k + 1])
        BY <3>1, <4>1 DEF Chain
      <4> QED
        BY <4>1, <4>2 DEF Link, Done
    <3> QED
      BY <3>2, <3>3, InRange
  <2> QED
    BY <2>1 DEF SegmentLands, Lands
<1> QED
  BY <1>1, OneHistory, PTL

\* An insert edit at a cut keeps its targets and the sync-locked tracks in sync.
THEOREM InsertsShift == Spec => []InsertShifts
<1>1. HistoryIsChain => InsertShifts
  <2> SUFFICES ASSUME HistoryIsChain, NEW targets \in Patched(tracks), NEW at \in Positions,
                      NEW len \in Lengths, NEW t \in (targets \cup SyncLocked) \cap TrackIds(tracks),
                      \A c \in Range(ClipsOf(tracks, t)) : ~Spans(c, at, at)
               PROVE  LET after == InsertEdit(tracks, targets, at, len, made)
                          was == ClipsOf(tracks, t)
                          is == ClipsOf(after, t)
                      IN  /\ \A x \in 0..(at - 1) : Shows(is, x) = Shows(was, x)
                          /\ \A x \in at..Latest(<<NewClip(0, "asset", at, len)>> \o was) :
                               Shows(is, x + len) = Shows(was, x)
                          /\ \A x \in at..(at + len - 1) :
                               Shows(is, x) = IF t \in targets THEN {<<"asset", x - at>>} ELSE {}
    BY DEF InsertShifts
  <2> DEFINE was == ClipsOf(tracks, t)
             is == ClipsOf(InsertEdit(tracks, targets, at, len, made), t)
             last == Latest(<<NewClip(0, "asset", at, len)>> \o was)
  <2>1. tracks \in Seq(Track) /\ InOrder(tracks) /\ made \in Int
    BY ChainGives DEF HistoryIsChain
  <2>2. at \in Int /\ len \in Nat \ {0}
    BY BoundsAssumption
  <2>3. Shifts(tracks, targets, at, len, made)
    BY <2>1, <2>2, InsertEditShifts
  <2>4. /\ \A x \in Int : x < at => Shows(is, x) = Shows(was, x)
        /\ \A x \in Int : at <= x => Shows(is, x + len) = Shows(was, x)
        /\ \A x \in Int : at <= x /\ x < at + len =>
             Shows(is, x) = IF t \in targets THEN {<<"asset", x - at>>} ELSE {}
    BY <2>3 DEF Shifts
  <2> HIDE DEF was, is, last
  <2>5. /\ \A x \in 0..(at - 1) : x \in Int /\ x < at
        /\ \A x \in at..last : x \in Int /\ at <= x
        /\ \A x \in at..(at + len - 1) : x \in Int /\ at <= x /\ x < at + len
    BY <2>2
  <2>6. \A x \in 0..(at - 1) : Shows(is, x) = Shows(was, x)
    BY <2>4, <2>5
  <2>7. \A x \in at..last : Shows(is, x + len) = Shows(was, x)
    BY <2>4, <2>5
  <2>8. \A x \in at..(at + len - 1) :
          Shows(is, x) = IF t \in targets THEN {<<"asset", x - at>>} ELSE {}
    BY <2>4, <2>5
  <2> QED
    BY <2>6, <2>7, <2>8 DEF was, is, last
<1> QED
  BY <1>1, OneHistory, PTL

=============================================================================
