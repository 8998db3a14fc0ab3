-------------------------- MODULE TokenUnits_proofs --------------------------
(***************************************************************************)
(* Lemmas about TokenUnits: what Scheduler and CounterToken count is       *)
(* finite, and one dependency more or less counts for what it needs.       *)
(***************************************************************************)
EXTENDS TokenUnits, FiniteSetTheorems, TLAPS

\* A dependency stands for as many units as its need.
LEMMA UnitsOne ==
  ASSUME NEW n \in Nat, NEW d
  PROVE  IsFiniteSet({d} \X (1 .. n)) /\ Cardinality({d} \X (1 .. n)) = n
<1>1. IsFiniteSet(1 .. n) /\ Cardinality(1 .. n) = n
  BY FS_Interval
<1>2. IsFiniteSet({d}) /\ Cardinality({d}) = 1
  BY FS_Singleton
<1>3. /\ IsFiniteSet({d} \X (1 .. n))
      /\ Cardinality({d} \X (1 .. n)) = Cardinality({d}) * Cardinality(1 .. n)
  BY <1>1, <1>2, FS_Product
<1>4. 1 * n = n
  OBVIOUS
<1>5. QED
  BY <1>1, <1>2, <1>3, <1>4

\* The needs of finitely many dependencies are finitely many units.
LEMMA UnitsFinite ==
  ASSUME NEW S, IsFiniteSet(S), NEW need, \A d \in S : need[d] \in Nat
  PROVE  IsFiniteSet(UnitsOf(need, S)) /\ Cardinality(UnitsOf(need, S)) \in Nat
<1> DEFINE T == {{d} \X (1 .. need[d]) : d \in S}
           f == [d \in S |-> {d} \X (1 .. need[d])]
<1>1. f \in Surjection(S, T)
  BY DEF Surjection
<1>2. IsFiniteSet(T)
  BY <1>1, FS_Surjection
<1>3. \A U \in T : IsFiniteSet(U)
  BY UnitsOne
<1>4. IsFiniteSet(UnitsOf(need, S))
  BY <1>2, <1>3, FS_UNION DEF UnitsOf
<1>5. QED
  BY <1>4, FS_CardinalityType

LEMMA UnitsNone ==
  ASSUME NEW need
  PROVE  Cardinality(UnitsOf(need, {})) = 0
<1>1. UnitsOf(need, {}) = {}
  BY DEF UnitsOf
<1>2. QED
  BY <1>1, FS_EmptySet

\* One more dependency adds what it needs.
LEMMA UnitsAdd ==
  ASSUME NEW S, IsFiniteSet(S), NEW need, \A e \in S : need[e] \in Nat,
         NEW d, d \notin S, need[d] \in Nat
  PROVE  Cardinality(UnitsOf(need, S \cup {d})) = Cardinality(UnitsOf(need, S)) + need[d]
<1> DEFINE U == {d} \X (1 .. need[d])
           V == UnitsOf(need, S)
<1>1. UnitsOf(need, S \cup {d}) = V \cup U
  BY DEF UnitsOf
<1>2. V \cap U = {}
  BY DEF UnitsOf
<1>3. IsFiniteSet(V) /\ IsFiniteSet(U) /\ Cardinality(U) = need[d]
  BY UnitsFinite, UnitsOne
<1>4. Cardinality(V \cap U) = 0
  BY <1>2, FS_EmptySet
<1>5. Cardinality(V) \in Nat /\ need[d] \in Nat
  BY <1>3, FS_CardinalityType
<1> HIDE DEF U, V
<1>6. Cardinality(V \cup U) = Cardinality(V) + Cardinality(U) - Cardinality(V \cap U)
  BY <1>3, FS_Union
<1>7. Cardinality(V \cup U) = Cardinality(V) + need[d] - 0
  BY <1>3, <1>4, <1>6
<1>8. Cardinality(V \cup U) = Cardinality(V) + need[d]
  BY <1>5, <1>7
<1>9. QED
  BY <1>1, <1>8 DEF V

\* More dependencies need at least as much.
LEMMA UnitsMonotone ==
  ASSUME NEW T, IsFiniteSet(T), NEW S \in SUBSET T, NEW need, \A d \in T : need[d] \in Nat
  PROVE  Cardinality(UnitsOf(need, S)) <= Cardinality(UnitsOf(need, T))
<1>1. UnitsOf(need, S) \subseteq UnitsOf(need, T)
  BY DEF UnitsOf
<1>2. QED
  BY <1>1, UnitsFinite, FS_Subset
=============================================================================
