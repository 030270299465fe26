-------------------------- MODULE SequenceLemmas --------------------------
(***************************************************************************)
(* What the helpers on sequences that the models are built from return,    *)
(* for every sequence.                                                     *)
(***************************************************************************)
EXTENDS SequencesExt, SequenceTheorems, FiniteSetTheorems, WellFoundedInduction, TLAPS

\* A non-empty set of naturals has a least element, and Min is it.
LEMMA MinIsLeast ==
  ASSUME NEW S \in SUBSET Nat, S # {}
  PROVE  Min(S) \in S /\ \A n \in S : Min(S) <= n
<1> DEFINE Less == OpToRel(<, Nat)
<1>1. \A m, n \in Nat : n < m => <<n, m>> \in Less
  BY DEF OpToRel
<1>2. \E m \in S : \A n \in S : <<n, m>> \notin Less
  BY NatLessThanWellFounded, WFMin
<1> HIDE DEF Less
<1>3. PICK m \in S : \A n \in S : <<n, m>> \notin Less
  BY <1>2
<1>4. ASSUME NEW n \in S
      PROVE  m <= n
  <2>1. <<n, m>> \notin Less
    BY <1>3
  <2>2. ~(n < m)
    BY <1>1, <2>1
  <2>3. n \in Nat /\ m \in Nat
    OBVIOUS
  <2> QED
    BY <2>2, <2>3
<1> QED
  BY <1>4 DEF Min

\* RemoveAt shortens a sequence by one and keeps its type.
LEMMA RemoveAtType ==
  ASSUME NEW S, NEW s \in Seq(S), NEW i \in 1..Len(s)
  PROVE  /\ RemoveAt(s, i) \in Seq(S)
         /\ Len(RemoveAt(s, i)) = Len(s) - 1
<1> DEFINE front == SubSeq(s, 1, i - 1)
           rest == SubSeq(s, i + 1, Len(s))
<1>1. front \in Seq(S) /\ Len(front) = i - 1
  BY SubSeqProperties, ElementOfSeq
<1>2. rest \in Seq(S) /\ Len(rest) = Len(s) - i
  BY SubSeqProperties, ElementOfSeq
<1>3. RemoveAt(s, i) = front \o rest
  BY DEF RemoveAt
<1> HIDE DEF front, rest
<1>4. front \o rest \in Seq(S) /\ Len(front \o rest) = Len(front) + Len(rest)
  BY <1>1, <1>2, ConcatProperties
<1>5. i \in Int /\ Len(s) \in Int
  OBVIOUS
<1> QED
  BY <1>1, <1>2, <1>3, <1>4, <1>5

\* RemoveFirst removes one element of a sequence that has it, and nothing else.
LEMMA RemoveFirstType ==
  ASSUME NEW S, NEW s \in Seq(S), NEW e
  PROVE  /\ RemoveFirst(s, e) \in Seq(S)
         /\ Len(RemoveFirst(s, e)) <= Len(s)
<1>1. CASE \E i \in 1..Len(s) : s[i] = e
  <2> DEFINE I == {i \in 1..Len(s) : s[i] = e}
  <2>1. I \in SUBSET Nat /\ I # {}
    BY <1>1
  <2>2. Min(I) \in 1..Len(s)
    BY <2>1, MinIsLeast
  <2>3. RemoveFirst(s, e) = RemoveAt(s, Min(I))
    BY <1>1, <2>1 DEF RemoveFirst, SelectInSeq
  <2> HIDE DEF I
  <2> QED
    BY <2>2, <2>3, RemoveAtType
<1>2. CASE ~ \E i \in 1..Len(s) : s[i] = e
  BY <1>2 DEF RemoveFirst
<1> QED
  BY <1>1, <1>2

\* Reversing keeps length and type.
LEMMA ReverseType ==
  ASSUME NEW S, NEW s \in Seq(S)
  PROVE  Reverse(s) \in Seq(S) /\ Len(Reverse(s)) = Len(s)
BY DEF Reverse

\* How often x is in s.
Positions(s, x) == {i \in DOMAIN s : s[i] = x}
Count(s, x) == Cardinality(Positions(s, x))

LEMMA PositionsFinite ==
  ASSUME NEW S, NEW s \in Seq(S), NEW x
  PROVE  IsFiniteSet(Positions(s, x)) /\ Count(s, x) \in Nat
<1>1. IsFiniteSet(1..Len(s))
  BY FS_Interval
<1>2. Positions(s, x) \in SUBSET (1..Len(s))
  BY DEF Positions
<1> QED
  BY <1>1, <1>2, FS_Subset, FS_CardinalityType DEF Count

\* An element that is appended counts once more.
LEMMA CountAppend ==
  ASSUME NEW S, NEW s \in Seq(S), NEW e \in S, NEW x
  PROVE  Count(Append(s, e), x) = Count(s, x) + (IF e = x THEN 1 ELSE 0)
<1> DEFINE last == Len(s) + 1
<1>1. IsFiniteSet(Positions(s, x)) /\ Count(s, x) \in Nat
  BY PositionsFinite
<1>2. last \notin Positions(s, x)
  BY DEF Positions
<1>3. CASE e = x
  <2>1. Positions(Append(s, e), x) = Positions(s, x) \cup {last}
    BY <1>3 DEF Positions
  <2> QED
    BY <1>1, <1>2, <1>3, <2>1, FS_AddElement DEF Count
<1>4. CASE e # x
  <2>1. Positions(Append(s, e), x) = Positions(s, x)
    BY <1>4 DEF Positions
  <2> QED
    BY <1>1, <1>4, <2>1 DEF Count
<1> QED
  BY <1>3, <1>4

\* The tail counts what the sequence does without its head.
LEMMA CountTail ==
  ASSUME NEW S, NEW s \in Seq(S), s # <<>>, NEW x
  PROVE  Count(s, x) = Count(Tail(s), x) + (IF Head(s) = x THEN 1 ELSE 0)
<1> DEFINE T == Positions(Tail(s), x)
           P == Positions(s, x) \ {1}
           shift == [i \in T |-> i + 1]
<1>1. Tail(s) \in Seq(S) /\ Len(s) >= 1 /\ Len(s) \in Nat
  BY EmptySeq
<1>2. IsFiniteSet(T) /\ IsFiniteSet(Positions(s, x)) /\ Count(s, x) \in Nat
      /\ Count(Tail(s), x) \in Nat
  BY <1>1, PositionsFinite
<1>3. shift \in Bijection(T, P)
  <2>1. ASSUME NEW i \in T PROVE i \in Nat /\ i + 1 \in P
    BY <1>1 DEF Positions
  <2>2. ASSUME NEW i \in P PROVE i - 1 \in T /\ i \in Nat /\ i = (i - 1) + 1
    BY <1>1 DEF Positions
  <2> HIDE DEF T, P
  <2>3. shift \in [T -> P]
    BY <2>1
  <2>4. ASSUME NEW i \in T, NEW j \in T, shift[i] = shift[j] PROVE i = j
    BY <2>1, <2>4
  <2>5. ASSUME NEW i \in P PROVE \E j \in T : shift[j] = i
    BY <2>2
  <2> QED
    BY <2>3, <2>4, <2>5 DEF Bijection, Injection, Surjection, IsInjective
<1>4. Cardinality(P) = Cardinality(T)
  BY <1>2, <1>3, FS_Bijection DEF ExistsBijection
<1>5. Cardinality(P) = IF 1 \in Positions(s, x) THEN Count(s, x) - 1 ELSE Count(s, x)
  BY <1>2, FS_RemoveElement DEF Count
<1>6. 1 \in Positions(s, x) <=> Head(s) = x
  BY <1>1 DEF Positions
<1> QED
  BY <1>2, <1>4, <1>5, <1>6 DEF Count
=============================================================================
