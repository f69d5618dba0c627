------------------------------ MODULE Induction -------------------------------
(***************************************************************************)
(* Induction over the natural numbers and over finite sets, and functions  *)
(* defined by recursion, stated for sets: a property is the set of those   *)
(* that have it.  So the facts can be cited without an operator to match.  *)
(***************************************************************************)
EXTENDS Integers, FiniteSets, FiniteSetTheorems, WellFoundedInduction, TLAPS

(* A set of natural numbers that is not empty has a least one. *)
LEMMA LeastNatural ==
  ASSUME NEW T \in SUBSET Nat, T # {}
  PROVE  \E least \in T : \A n \in T : least <= n
<1>1. IsWellFoundedOn(OpToRel(<, Nat), Nat)
  BY NatLessThanWellFounded
<1>2. PICK least \in T : \A n \in T : ~(<<n, least>> \in OpToRel(<, Nat))
  BY <1>1, WFMin
<1>3. \A n \in T : ~(n < least)
  BY <1>2 DEF OpToRel
<1>4. least \in Nat /\ \A n \in T : n \in Nat
  BY <1>2
<1>5. \A n \in T : least <= n
  BY <1>3, <1>4
<1>6. QED
  BY <1>2, <1>5

(* A set that has 0 and with each natural number its successor has them all. *)
LEMMA InductionOnNat ==
  ASSUME NEW S, 0 \in S, \A n \in Nat : n \in S => n + 1 \in S
  PROVE  Nat \subseteq S
<1>1. SUFFICES ASSUME Nat \ S # {} PROVE FALSE
  OBVIOUS
<1>2. PICK least \in Nat \ S : \A n \in Nat \ S : least <= n
  BY <1>1, LeastNatural
<1>3. least - 1 \in Nat /\ least - 1 \in S
  BY <1>2
<1>4. QED
  BY <1>2, <1>3

(* The same up to a bound. *)
LEMMA InductionUpTo ==
  ASSUME NEW N \in Nat, NEW S, 0 \in S, \A n \in 0 .. N - 1 : n \in S => n + 1 \in S
  PROVE  0 .. N \subseteq S
<1> DEFINE G == {n \in Nat : n <= N => n \in S}
<1>1. 0 \in G
  OBVIOUS
<1>2. \A n \in Nat : n \in G => n + 1 \in G
  <2>1. SUFFICES ASSUME NEW n \in Nat, n \in G, n + 1 <= N
                 PROVE  n + 1 \in S
    OBVIOUS
  <2>2. n \in S /\ n \in 0 .. N - 1
    BY <2>1
  <2>3. QED
    BY <2>2
<1>3. Nat \subseteq G
  <2> HIDE DEF G
  <2>1. QED
    BY <1>1, <1>2, InductionOnNat
<1>4. QED
  BY <1>3

(* A family of subsets of a finite set that has {} and is closed under adding *)
(* an element has the set itself.                                             *)
LEMMA InductionOnFiniteSet ==
  ASSUME NEW S, IsFiniteSet(S), NEW F, {} \in F,
         \A T \in SUBSET S, x \in S : T \in F => T \cup {x} \in F
  PROVE  S \in F
<1> DEFINE G == {n \in Nat : \A T \in SUBSET S : Cardinality(T) = n => T \in F}
<1>1. 0 \in G
  <2>1. SUFFICES ASSUME NEW T \in SUBSET S, Cardinality(T) = 0
                 PROVE  T \in F
    OBVIOUS
  <2>2. T = {}
    BY <2>1, FS_Subset, FS_EmptySet
  <2>3. QED
    BY <2>2
<1>2. \A n \in Nat : n \in G => n + 1 \in G
  <2>1. SUFFICES ASSUME NEW n \in Nat, n \in G,
                        NEW T \in SUBSET S, Cardinality(T) = n + 1
                 PROVE  T \in F
    OBVIOUS
  <2>2. IsFiniteSet(T)
    BY <2>1, FS_Subset
  <2>3. PICK x \in T : TRUE
    <3>1. Cardinality({}) = 0
      BY FS_EmptySet
    <3>2. T # {}
      BY <2>1, <3>1
    <3>3. QED
      BY <3>2
  <2>4. Cardinality(T \ {x}) = n
    <3>1. Cardinality(T \ {x}) = Cardinality(T) - 1
      BY <2>2, <2>3, FS_RemoveElement
    <3>2. QED
      BY <2>1, <3>1
  <2>5. T \ {x} \in F
    BY <2>1, <2>4
  <2>6. (T \ {x}) \cup {x} = T /\ T \ {x} \in SUBSET S /\ x \in S
    BY <2>3
  <2>7. QED
    BY <2>5, <2>6
<1>3. Nat \subseteq G
  <2> HIDE DEF G
  <2>1. QED
    BY <1>1, <1>2, InductionOnNat
<1>4. Cardinality(S) \in G
  <2>1. Cardinality(S) \in Nat
    BY FS_CardinalityType
  <2>2. QED
    BY <1>3, <2>1
<1>5. QED
  BY <1>4

(* f is what N steps make of start. *)
Follows(f, N, start, step) ==
  f[0] = start /\ \A n \in 1 .. N : f[n] = step[n][f[n - 1]]

(* There is such a function, in the type that the steps keep to. *)
LEMMA RecursionExists ==
  ASSUME NEW N \in Nat, NEW E, NEW start \in E,
         NEW step, \A n \in 1 .. N, e \in E : step[n][e] \in E
  PROVE  \E f \in [0 .. N -> E] : Follows(f, N, start, step)
<1> DEFINE Solves(f, m) == Follows(f, m, start, step)
           G == {m \in Nat : m <= N => \E f \in [0 .. m -> E] : Solves(f, m)}
<1>1. 0 \in G
  <2> USE DEF Follows
  <2>1. Solves([n \in 0 .. 0 |-> start], 0) /\ [n \in 0 .. 0 |-> start] \in [0 .. 0 -> E]
    OBVIOUS
  <2>2. QED
    BY <2>1
<1>2. ASSUME NEW m \in Nat, m \in G
      PROVE  m + 1 \in G
  <2>1. SUFFICES ASSUME m + 1 <= N
                 PROVE  \E f \in [0 .. m + 1 -> E] : Solves(f, m + 1)
    <3> HIDE DEF Solves
    <3>1. QED
      OBVIOUS
  <2>2. PICK f \in [0 .. m -> E] : Solves(f, m)
    <3>1. m <= N
      BY <2>1
    <3> HIDE DEF Solves
    <3>2. QED
      BY <1>2, <3>1
  <2> DEFINE g == [n \in 0 .. m + 1 |-> IF n <= m THEN f[n] ELSE step[m + 1][f[m]]]
  <2>3. f[m] \in E /\ m + 1 \in 1 .. N
    BY <2>1, <2>2
  <2>4. step[m + 1][f[m]] \in E
    BY <2>3
  <2>5. g \in [0 .. m + 1 -> E]
    BY <2>2, <2>4
  <2>6. Solves(g, m + 1)
    <3>1. g[0] = start
      BY <2>2 DEF Follows
    <3>2. ASSUME NEW n \in 1 .. m + 1
          PROVE  g[n] = step[n][g[n - 1]]
      <4>1. CASE n <= m
        BY <2>2, <4>1 DEF Follows
      <4>2. CASE n = m + 1
        BY <4>2
      <4>3. QED
        BY <4>1, <4>2
    <3>3. QED
      BY <3>1, <3>2 DEF Follows
  <2>7. QED
    BY <2>5, <2>6
<1>3. Nat \subseteq G
  <2> HIDE DEF G
  <2>1. QED
    BY <1>1, <1>2, InductionOnNat
<1>4. QED
  BY <1>3

=============================================================================
