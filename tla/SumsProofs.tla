------------------------------- MODULE SumsProofs -------------------------------
(***************************************************************************)
(* What a proof needs to know about Total: the sum over no accounts, over  *)
(* one more, over one less, and that it depends on the summed accounts     *)
(* only.                                                                   *)
(***************************************************************************)
EXTENDS Sums, TLAPS, FiniteSetTheorems

LEMMA UnitsMember ==
  ASSUME NEW f, NEW S, NEW u
  PROVE  u \in Units(f, S) <=> \E i \in S : u \in {i} \X (1 .. f[i])
  BY DEF Units

\* Nothing to sum.
LEMMA TotalEmpty ==
  ASSUME NEW f
  PROVE  IsFiniteSet(Units(f, {})) /\ Total(f, {}) = 0
  <1>1. Units(f, {}) = {}
    BY DEF Units
  <1> QED BY <1>1, FS_EmptySet DEF Total

\* Only the values on S count.
LEMMA TotalCongruence ==
  ASSUME NEW f, NEW g, NEW S, \A i \in S : f[i] = g[i]
  PROVE  Units(f, S) = Units(g, S) /\ Total(f, S) = Total(g, S)
  <1>1. ASSUME NEW u PROVE u \in Units(f, S) <=> u \in Units(g, S)
    BY UnitsMember
  <1>2. Units(f, S) = Units(g, S)
    BY <1>1
  <1> QED BY <1>2 DEF Total

LEMMA TotalSingle ==
  ASSUME NEW i, NEW n \in Nat
  PROVE  /\ IsFiniteSet({i} \X (1 .. n))
         /\ Cardinality({i} \X (1 .. n)) = n
  <1>1. IsFiniteSet({i}) /\ Cardinality({i}) = 1
    BY FS_Singleton
  <1>2. IsFiniteSet(1 .. n) /\ Cardinality(1 .. n) = n
    BY FS_Interval
  <1>3. /\ IsFiniteSet({i} \X (1 .. n))
        /\ Cardinality({i} \X (1 .. n)) = Cardinality({i}) * Cardinality(1 .. n)
    BY <1>1, <1>2, FS_Product
  <1> QED BY <1>1, <1>2, <1>3

\* One more account.
LEMMA TotalAdd ==
  ASSUME NEW f, NEW S, NEW i, i \notin S, f[i] \in Nat, IsFiniteSet(Units(f, S))
  PROVE  /\ IsFiniteSet(Units(f, S \cup {i}))
         /\ Total(f, S \cup {i}) = Total(f, S) + f[i]
  <1> DEFINE A == Units(f, S)
             B == {i} \X (1 .. f[i])
  <1>1. Units(f, S \cup {i}) = A \cup B
    BY UnitsMember
  <1>2. A \cap B = {}
    BY UnitsMember
  <1>3. IsFiniteSet(B) /\ Cardinality(B) = f[i]
    BY TotalSingle
  <1> HIDE DEF A, B
  <1>4. /\ IsFiniteSet(A \cup B)
        /\ Cardinality(A \cup B) = Cardinality(A) + Cardinality(B) - Cardinality(A \cap B)
    BY <1>3, FS_Union DEF A
  <1>5. Cardinality(A \cap B) = 0 /\ Cardinality(A) \in Nat
    BY <1>2, FS_EmptySet, FS_CardinalityType DEF A
  <1>6. Cardinality(A \cup B) = Cardinality(A) + f[i]
    BY <1>3, <1>4, <1>5
  <1>7. Total(f, S) = Cardinality(A) /\ Total(f, S \cup {i}) = Cardinality(A \cup B)
    BY <1>1 DEF Total, A
  <1> QED BY <1>1, <1>4, <1>6, <1>7

\* A part of a finite sum is finite and no larger.
LEMMA TotalPart ==
  ASSUME NEW f, NEW S, NEW R \in SUBSET S, IsFiniteSet(Units(f, S))
  PROVE  /\ IsFiniteSet(Units(f, R))
         /\ Total(f, R) \in Nat
         /\ Total(f, S) \in Nat
         /\ Total(f, R) <= Total(f, S)
  <1>1. Units(f, R) \in SUBSET Units(f, S)
    BY UnitsMember
  <1>2. /\ IsFiniteSet(Units(f, R))
        /\ Cardinality(Units(f, R)) <= Cardinality(Units(f, S))
    BY <1>1, FS_Subset
  <1> QED BY <1>2, FS_CardinalityType DEF Total

\* One account less.
LEMMA TotalRemove ==
  ASSUME NEW f, NEW S, NEW i \in S, f[i] \in Nat, IsFiniteSet(Units(f, S))
  PROVE  /\ IsFiniteSet(Units(f, S \ {i}))
         /\ Total(f, S \ {i}) = Total(f, S) - f[i]
         /\ f[i] <= Total(f, S)
  <1>1. /\ IsFiniteSet(Units(f, S \ {i}))
        /\ Total(f, S \ {i}) \in Nat
    BY TotalPart
  <1>2. (S \ {i}) \cup {i} = S
    OBVIOUS
  <1>3. Total(f, S) = Total(f, S \ {i}) + f[i]
    BY <1>1, <1>2, TotalAdd
  <1> QED BY <1>1, <1>3

\* Natural numbers over finitely many accounts have a natural sum.
LEMMA TotalFinite ==
  ASSUME NEW f, NEW S, IsFiniteSet(S), \A i \in S : f[i] \in Nat
  PROVE  IsFiniteSet(Units(f, S)) /\ Total(f, S) \in Nat
  <1> DEFINE part == [i \in S |-> {i} \X (1 .. f[i])]
             parts == {{i} \X (1 .. f[i]) : i \in S}
  <1>1. part \in Surjection(S, parts)
    BY DEF Surjection
  <1>2. IsFiniteSet(parts)
    <2> HIDE DEF part, parts
    <2> QED BY <1>1, FS_Surjection
  <1>3. \A T \in parts : IsFiniteSet(T)
    <2>1. ASSUME NEW i \in S PROVE IsFiniteSet({i} \X (1 .. f[i]))
      BY TotalSingle
    <2> QED BY <2>1
  <1>4. Units(f, S) = UNION parts
    BY DEF Units
  <1> HIDE DEF parts
  <1>5. IsFiniteSet(Units(f, S))
    BY <1>2, <1>3, <1>4, FS_UNION
  <1> QED BY <1>5, FS_CardinalityType DEF Total

=================================================================================
