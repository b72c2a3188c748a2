---------------------------- MODULE FiniteNumbers ----------------------------
(***************************************************************************)
(* The largest and the smallest of some numbers are among them: what a     *)
(* query for the highest sequence or version number, or for the first free *)
(* one, returns.  And counting up to a number, for what goes through a     *)
(* sequence.                                                               *)
(***************************************************************************)
EXTENDS Integers, FiniteSetsExt, FiniteSetTheorems, WellFoundedInduction, TLAPS

(* A smallest counterexample would have an element to take out. *)
LEMMA FiniteSetHasMax ==
    ASSUME NEW S \in SUBSET Nat, IsFiniteSet(S), S # {}
    PROVE  Max(S) \in S /\ \A y \in S : y <= Max(S)
  <1> DEFINE HasMax(T) == \E x \in T : \A y \in T : x >= y
             Bad == {T \in SUBSET S : T # {} /\ ~HasMax(T)}
  <1>1. Bad = {}
    <2> SUFFICES ASSUME Bad # {} PROVE FALSE
      OBVIOUS
    <2>1. PICK T \in Bad : \A U \in Bad : ~(<<U, T>> \in StrictSubsetOrdering(S))
      <3>1. IsWellFoundedOn(StrictSubsetOrdering(S), FiniteSubsetsOf(S))
        BY FS_StrictSubsetOrderingWellFounded
      <3>2. Bad \subseteq FiniteSubsetsOf(S)
        BY FS_Subset DEF FiniteSubsetsOf
      <3>3. QED
        BY <3>1, <3>2, WFMin
    <2>2. PICK x \in T : TRUE
      OBVIOUS
    <2>3. <<T \ {x}, T>> \in StrictSubsetOrdering(S)
      BY <2>2 DEF StrictSubsetOrdering
    <2>4. T \ {x} = {} \/ HasMax(T \ {x})
      BY <2>1, <2>3
    <2>5. HasMax(T)
      <3>1. CASE T \ {x} = {}
        BY <2>2, <3>1
      <3>2. CASE HasMax(T \ {x})
        <4>1. PICK m \in T \ {x} : \A y \in T \ {x} : m >= y
          BY <3>2
        <4>2. m \in Nat /\ x \in Nat
          BY <2>2, <4>1
        <4>3. CASE m >= x
          BY <4>1, <4>2, <4>3
        <4>4. CASE x > m
          <5>1. \A y \in T : y \in Nat
            OBVIOUS
          <5>2. \A y \in T : x >= y
            BY <4>1, <4>2, <4>4, <5>1
          <5>3. QED
            BY <2>2, <5>2
        <4>5. QED
          BY <4>2, <4>3, <4>4
      <3>3. QED
        BY <2>4, <3>1, <3>2
    <2>6. QED
      BY <2>1, <2>5
  <1>2. HasMax(S)
    BY <1>1
  <1>3. Max(S) \in S /\ \A y \in S : Max(S) >= y
    BY <1>2 DEF Max
  <1>4. QED
    BY <1>3

(* The ordering of the numbers is well-founded. *)
LEMMA NumbersHaveMin ==
    ASSUME NEW S \in SUBSET Nat, S # {}
    PROVE  Min(S) \in S /\ \A y \in S : Min(S) <= y
  <1>1. PICK x \in S : \A y \in S : ~(<<y, x>> \in OpToRel(<, Nat))
    BY NatLessThanWellFounded, WFMin, Zenon
  <1>2. \A y \in S : ~(y < x)
    BY <1>1 DEF OpToRel
  <1>3. \A y \in S : x <= y
    BY <1>2
  <1>4. QED
    BY <1>3 DEF Min

(* The values of a sequence's rows are finitely many, no more than rows. *)
LEMMA ValuesOfRows ==
    ASSUME NEW n \in Nat, NEW f, NEW D \in SUBSET (1 .. n)
    PROVE  LET V == {f[k] : k \in D}
           IN  IsFiniteSet(V) /\ Cardinality(V) <= n
  <1> DEFINE V == {f[k] : k \in D}
             g == [k \in D |-> f[k]]
  <1>1. IsFiniteSet(D) /\ Cardinality(D) <= n
    <2>1. IsFiniteSet(1 .. n) /\ Cardinality(1 .. n) = n
      BY FS_Interval
    <2>2. QED
      BY <2>1, FS_Subset
  <1>2. g \in Surjection(D, V)
    BY DEF Surjection
  <1> HIDE DEF g, V
  <1>3. IsFiniteSet(V) /\ Cardinality(V) <= Cardinality(D)
    BY <1>1, <1>2, FS_Surjection
  <1>4. Cardinality(V) \in Nat /\ Cardinality(D) \in Nat
    BY <1>1, <1>3, FS_CardinalityType
  <1>5. IsFiniteSet(V) /\ Cardinality(V) <= n
    BY <1>1, <1>3, <1>4
  <1>6. QED
    BY <1>5 DEF V

(* What holds at 0 and is carried from each number to the next holds up to *)
(* n.                                                                      *)
LEMMA CountUp ==
    ASSUME NEW n \in Nat, NEW S, 0 \in S,
           \A k \in 0 .. n : k \in S /\ k < n => k + 1 \in S
    PROVE  \A k \in 0 .. n : k \in S
  <1> DEFINE Out == {k \in 0 .. n : k \notin S}
  <1> SUFFICES ASSUME Out # {} PROVE FALSE
    OBVIOUS
  <1>1. Min(Out) \in Out /\ \A y \in Out : Min(Out) <= y
    <2>1. Out \in SUBSET Nat
      OBVIOUS
    <2> HIDE DEF Out
    <2>2. QED
      BY <2>1, NumbersHaveMin
  <1> DEFINE x == Min(Out)
  <1> HIDE DEF x
  <1>2. x \in 0 .. n /\ x \notin S /\ \A y \in Out : x <= y
    BY <1>1 DEF x
  <1>3. x # 0
    BY <1>2
  <1>4. x - 1 \in 0 .. n /\ x - 1 < n /\ (x - 1) + 1 = x
    BY <1>2, <1>3
  <1>5. x - 1 \in S
    BY <1>2, <1>4
  <1>6. QED
    BY <1>2, <1>4, <1>5
=============================================================================
