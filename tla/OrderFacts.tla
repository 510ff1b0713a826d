----------------------------- MODULE OrderFacts -----------------------------
(***************************************************************************)
(* Sets of numbers have a least and, when bounded, a greatest element: what *)
(* CHOOSE in the models of the schedulers rests on.                        *)
(***************************************************************************)
EXTENDS Integers, WellFoundedInduction, TLAPS

\* A set of natural numbers has a least element.
LEMMA LeastExists ==
  ASSUME NEW S \in SUBSET Nat, S # {}
  PROVE  \E m \in S : \A n \in S : m <= n
  <1> DEFINE R == OpToRel(<, Nat)
  <1>1. IsWellFoundedOn(R, Nat)
    BY NatLessThanWellFounded
  <1>2. \A x, y \in Nat : x < y => <<x, y>> \in R
    BY DEF OpToRel
  <1> HIDE DEF R
  <1>3. PICK m \in S : \A n \in S : <<n, m>> \notin R
    BY <1>1, WFMin
  <1>4. \A n \in S : ~(n < m)
    BY <1>2, <1>3
  <1>5. \A n \in S : m \in Int /\ n \in Int
    OBVIOUS
  <1> QED
    BY <1>4, <1>5

\* A bounded one has a greatest.
LEMMA GreatestExists ==
  ASSUME NEW N \in Nat, NEW S \in SUBSET (0..N), S # {}
  PROVE  \E m \in S : \A n \in S : n <= m
  <1> DEFINE T == {k \in Nat : \E n \in S : k = N - n}
  <1>1. PICK n \in S : TRUE
    OBVIOUS
  <1>2. n \in 0..N /\ N - n \in Nat
    OBVIOUS
  <1>3. N - n \in T
    BY <1>2
  <1>4. PICK t \in T : \A u \in T : t <= u
    BY <1>3, LeastExists
  <1>5. PICK m \in S : t = N - m
    BY <1>4
  <1>6. ASSUME NEW k \in S PROVE k <= m
    <2>1. k \in 0..N /\ m \in 0..N
      OBVIOUS
    <2>2. N - k \in T
      BY <2>1
    <2> QED
      BY <1>4, <1>5, <2>1, <2>2
  <1> QED
    BY <1>6
=============================================================================
