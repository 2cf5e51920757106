--------------------------- MODULE FiniteInduction ---------------------------
(* Induction over finite sets, over numbers and over sums. The theorems of   *)
(* the library take a formula as a parameter, which no prover instantiates;  *)
(* the lemmas here name the smallest counterexample instead.                 *)
EXTENDS Integers, FiniteSets, FiniteSetTheorems, WellFoundedInduction, TLAPS

(* Among subsets of a finite set one has none of the others below it.        *)
LEMMA SmallestSubset ==
    ASSUME NEW D, IsFiniteSet(D), NEW C, C \subseteq SUBSET D, C # {}
    PROVE  \E A \in C : \A B \in C : B \subseteq A => B = A
<1>1. FiniteSubsetsOf(D) = SUBSET D
  BY FS_FiniteSubsetsOfFinite
<1>2. IsWellFoundedOn(StrictSubsetOrdering(D), FiniteSubsetsOf(D))
  BY FS_StrictSubsetOrderingWellFounded
<1>3. \E A \in C : \A B \in C : ~ (<<B, A>> \in StrictSubsetOrdering(D))
  BY <1>1, <1>2, WFMin
<1>4. QED
  BY <1>3 DEF StrictSubsetOrdering

(* Among the values of a function one has none of the others below it.      *)
LEMMA SmallestValue ==
    ASSUME NEW D, IsFiniteSet(D), NEW A, A # {}, NEW f \in [A -> SUBSET D]
    PROVE  \E e \in A : \A x \in A : f[x] \subseteq f[e] => f[x] = f[e]
<1> DEFINE C == {f[x] : x \in A}
<1>1. C \subseteq SUBSET D /\ C # {} /\ \A x \in A : f[x] \in C
  OBVIOUS
<1>2. PICK S \in C : \A T \in C : T \subseteq S => T = S
  <2> HIDE DEF C
  <2>1. QED
    BY <1>1, SmallestSubset
<1>3. PICK e \in A : S = f[e]
  BY <1>2
<1> HIDE DEF C
<1>4. QED
  BY <1>1, <1>2, <1>3

(* Of some numbers one has none before it.                                   *)
LEMMA SmallestNumber ==
    ASSUME NEW N \in Nat, NEW C, C \subseteq 0 .. N, C # {}
    PROVE  \E m \in C : m # 0 => m - 1 \in 0 .. N /\ m - 1 \notin C
<1> DEFINE D == 0 .. N
           Begins == {0 .. m : m \in C}
<1>0. IsFiniteSet(D)
  BY FS_Interval
<1>1. Begins \subseteq SUBSET D /\ Begins # {}
  <2>1. ASSUME NEW m \in C PROVE 0 .. m \subseteq D
    <3>1. m \in Nat /\ m <= N
      OBVIOUS
    <3>2. QED
      BY <3>1
  <2>2. QED
    BY <2>1
<1>2. \E A \in Begins : \A B \in Begins : B \subseteq A => B = A
  <2> HIDE DEF D, Begins
  <2>1. QED
    BY <1>0, <1>1, SmallestSubset
<1>3. PICK m \in C : \A n \in C : 0 .. n \subseteq 0 .. m => 0 .. n = 0 .. m
  <2>1. PICK A \in Begins : \A B \in Begins : B \subseteq A => B = A
    BY <1>2
  <2>2. PICK m \in C : A = 0 .. m
    OBVIOUS
  <2>3. \A n \in C : 0 .. n \in Begins
    OBVIOUS
  <2> HIDE DEF Begins
  <2>4. QED
    BY <2>1, <2>2, <2>3
<1>4. ASSUME m # 0 PROVE m - 1 \in 0 .. N /\ m - 1 \notin C
  <2>1. /\ m - 1 \in 0 .. N /\ 0 .. (m - 1) \subseteq 0 .. m
        /\ m \in 0 .. m /\ m \notin 0 .. (m - 1)
    BY <1>4
  <2>2. QED
    BY <1>3, <2>1
<1>5. QED
  BY <1>4

(* Some numbers have a largest one.                                          *)
LEMMA LargestNumber ==
    ASSUME NEW S, IsFiniteSet(S), \A x \in S : x \in Nat, S # {}
    PROVE  \E m \in S : \A n \in S : n <= m
<1> DEFINE Wrong == {A \in SUBSET S : A # {} /\ ~ \E m \in A : \A n \in A : n <= m}
<1>1. Wrong = {}
  <2>1. SUFFICES ASSUME Wrong # {} PROVE FALSE
    OBVIOUS
  <2>2. PICK A \in Wrong : \A B \in Wrong : B \subseteq A => B = A
    <3>1. Wrong \subseteq SUBSET S
      OBVIOUS
    <3> HIDE DEF Wrong
    <3>2. QED
      BY <2>1, <3>1, SmallestSubset
  <2>3. PICK x \in A : TRUE
    OBVIOUS
  <2>4. A \ {x} \notin Wrong /\ A \ {x} \subseteq S
    BY <2>2, <2>3
  <2>5. CASE A \ {x} = {}
    <3>1. x \in Nat /\ A = {x}
      BY <2>3, <2>5
    <3>2. \A n \in A : n <= x
      BY <3>1
    <3>3. QED
      BY <2>3, <3>2
  <2>6. CASE A \ {x} # {}
    <3>1. PICK m \in A \ {x} : \A n \in A \ {x} : n <= m
      BY <2>4, <2>6
    <3>2. m \in Nat /\ x \in Nat /\ \A n \in A : n \in Nat
      BY <2>3
    <3>3. CASE x <= m
      BY <3>1, <3>2, <3>3
    <3>4. CASE m <= x
      <4>1. ASSUME NEW n \in A PROVE n <= x
        BY <3>1, <3>2, <3>4
      <4>2. QED
        BY <2>3, <4>1
    <3>5. QED
      BY <3>2, <3>3, <3>4
  <2>7. QED
    BY <2>5, <2>6
<1>2. QED
  BY <1>1

-----------------------------------------------------------------------------
(* Sums.                                                                   *)

(* As many units as the values of f on A amount to.                          *)
Units(f, A) == UNION {{x} \X (1 .. f[x]) : x \in A}

LEMMA UnitsOfOne ==
    ASSUME NEW x, NEW n \in Nat
    PROVE  IsFiniteSet({x} \X (1 .. n)) /\ Cardinality({x} \X (1 .. n)) = n
<1>1. IsFiniteSet({x}) /\ Cardinality({x}) = 1
  BY FS_Singleton
<1>2. IsFiniteSet(1 .. n) /\ Cardinality(1 .. n) = n
  BY FS_Interval
<1>3. /\ IsFiniteSet({x} \X (1 .. n))
      /\ Cardinality({x} \X (1 .. n)) = Cardinality({x}) * Cardinality(1 .. n)
  BY <1>1, <1>2, FS_Product
<1>4. QED
  BY <1>1, <1>2, <1>3

LEMMA UnitsFinite ==
    ASSUME NEW D, NEW f \in [D -> Nat], NEW A, A \subseteq D, IsFiniteSet(A)
    PROVE  IsFiniteSet(Units(f, A)) /\ Cardinality(Units(f, A)) \in Nat
<1> DEFINE Parts == {{x} \X (1 .. f[x]) : x \in A}
           part == [x \in A |-> {x} \X (1 .. f[x])]
<1>1. part \in Surjection(A, Parts)
  BY DEF Surjection
<1> HIDE DEF part
<1>2. IsFiniteSet(Parts)
  BY <1>1, FS_Surjection
<1>3. ASSUME NEW x \in A PROVE IsFiniteSet({x} \X (1 .. f[x]))
  <2>1. f[x] \in Nat
    OBVIOUS
  <2>2. QED
    BY <2>1, UnitsOfOne
<1>6. \A P \in Parts : IsFiniteSet(P)
  BY <1>3
<1> HIDE DEF Parts
<1>4. IsFiniteSet(UNION Parts)
  BY <1>2, <1>6, FS_UNION
<1>5. QED
  BY <1>4, FS_CardinalityType DEF Units, Parts

(* One element more counts for its value.                                    *)
LEMMA UnitsWith ==
    ASSUME NEW D, NEW f \in [D -> Nat], NEW A, A \subseteq D, IsFiniteSet(A), NEW x \in A
    PROVE  Cardinality(Units(f, A)) = f[x] + Cardinality(Units(f, A \ {x}))
<1>1. IsFiniteSet(A \ {x})
  BY FS_RemoveElement
<1>2. IsFiniteSet(Units(f, A \ {x})) /\ Cardinality(Units(f, A \ {x})) \in Nat
  BY <1>1, UnitsFinite
<1>3. f[x] \in Nat /\ IsFiniteSet({x} \X (1 .. f[x])) /\ Cardinality({x} \X (1 .. f[x])) = f[x]
  BY UnitsOfOne
<1>4. /\ Units(f, A) = ({x} \X (1 .. f[x])) \cup Units(f, A \ {x})
      /\ ({x} \X (1 .. f[x])) \cap Units(f, A \ {x}) = {}
  BY DEF Units
<1>5. Cardinality(Units(f, A)) = f[x] + Cardinality(Units(f, A \ {x})) - Cardinality({})
  BY <1>2, <1>3, <1>4, FS_Union
<1>6. QED
  BY <1>2, <1>3, <1>5, FS_EmptySet
==============================================================================
