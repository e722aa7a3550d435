---------------------------- MODULE UnitCounting ----------------------------
(***************************************************************************)
(* Lemmas on totals.  OrderStock, ContainerReturns and StockIns state a    *)
(* total over documents, lines or entries as the number of their units, a  *)
(* unit being a document and a number up to its quantity.                  *)
(***************************************************************************)
EXTENDS Integers, FiniteSets, FiniteSetTheorems, TLAPS

\* The units of the documents in S, of which d has f[d].
UnitsOf(S, f) == UNION {{d} \X (1 .. f[d]) : d \in S}

Total(S, f) == Cardinality(UnitsOf(S, f))

\* The units of one document are as many as its quantity.
LEMMA UnitsOfOne ==
  ASSUME NEW d, NEW n \in Nat
  PROVE  IsFiniteSet({d} \X (1 .. n)) /\ Cardinality({d} \X (1 .. n)) = n
  <1> DEFINE D == {d}
             N == 1 .. n
  <1>1. IsFiniteSet(D) /\ Cardinality(D) = 1
    BY FS_Singleton
  <1>2. IsFiniteSet(N) /\ Cardinality(N) = n
    BY FS_Interval
  <1>3. IsFiniteSet(D \X N) /\ Cardinality(D \X N) = Cardinality(D) * Cardinality(N)
    <2> HIDE DEF D, N
    <2>1. QED
      BY <1>1, <1>2, FS_Product
  <1>4. QED
    BY <1>1, <1>2, <1>3

\* Finitely many documents have finitely many units.
LEMMA TotalType ==
  ASSUME NEW S, IsFiniteSet(S), NEW f, \A d \in S : f[d] \in Nat
  PROVE  IsFiniteSet(UnitsOf(S, f)) /\ Total(S, f) \in Nat
  <1> DEFINE T == {{d} \X (1 .. f[d]) : d \in S}
             g == [d \in S |-> {d} \X (1 .. f[d])]
  <1>1. g \in Surjection(S, T)
    BY DEF Surjection
  <1>2. IsFiniteSet(T)
    BY <1>1, FS_Surjection
  <1>3. ASSUME NEW U \in T PROVE IsFiniteSet(U)
    <2>1. PICK d \in S : U = {d} \X (1 .. f[d])
      OBVIOUS
    <2>2. f[d] \in Nat
      OBVIOUS
    <2>3. QED
      BY <2>1, <2>2, UnitsOfOne
  <1>4. IsFiniteSet(UNION T)
    <2> HIDE DEF T
    <2>1. QED
      BY <1>2, <1>3, FS_UNION
  <1>5. QED
    BY <1>4, FS_CardinalityType DEF UnitsOf, Total

\* No document, no unit.
LEMMA TotalEmpty ==
  ASSUME NEW f
  PROVE  Total({}, f) = 0
  <1>1. UnitsOf({}, f) = {}
    BY DEF UnitsOf
  <1>2. QED
    BY <1>1, FS_EmptySet DEF Total

\* Only the quantities of the documents in S count.
LEMMA TotalSame ==
  ASSUME NEW S, NEW f, NEW g, \A d \in S : f[d] = g[d]
  PROVE  Total(S, f) = Total(S, g)
  <1>1. UnitsOf(S, f) = UnitsOf(S, g)
    BY DEF UnitsOf
  <1>2. QED
    BY <1>1 DEF Total

\* One document more adds its quantity.
LEMMA TotalAdd ==
  ASSUME NEW S, IsFiniteSet(S), NEW p, p \notin S,
         NEW f, \A d \in S \union {p} : f[d] \in Nat
  PROVE  Total(S \union {p}, f) = Total(S, f) + f[p]
  <1> DEFINE A == UnitsOf(S, f)
             B == {p} \X (1 .. f[p])
  <1>1. IsFiniteSet(A) /\ IsFiniteSet(B) /\ Cardinality(B) = f[p] /\ Cardinality(A) \in Nat
    BY TotalType, UnitsOfOne DEF Total
  <1>2. UnitsOf(S \union {p}, f) = A \union B
    BY DEF UnitsOf
  <1>3. A \intersect B = {}
    BY DEF UnitsOf
  <1>4. Cardinality(A \union B) = Cardinality(A) + Cardinality(B) - Cardinality({})
    <2> HIDE DEF A, B
    <2>1. QED
      BY <1>1, <1>3, FS_Union
  <1>5. f[p] \in Nat
    OBVIOUS
  <1>6. Cardinality(A \union B) = Cardinality(A) + f[p]
    <2> HIDE DEF A, B
    <2>1. QED
      BY <1>1, <1>4, <1>5, FS_EmptySet
  <1>7. QED
    BY <1>2, <1>6 DEF Total

\* One document less takes its quantity away.
LEMMA TotalRemove ==
  ASSUME NEW S, IsFiniteSet(S), NEW p \in S, NEW f, \A d \in S : f[d] \in Nat
  PROVE  Total(S, f) = Total(S \ {p}, f) + f[p] /\ f[p] <= Total(S, f)
  <1>1. IsFiniteSet(S \ {p})
    BY FS_RemoveElement
  <1>2. Total((S \ {p}) \union {p}, f) = Total(S \ {p}, f) + f[p]
    BY <1>1, TotalAdd
  <1>3. (S \ {p}) \union {p} = S
    OBVIOUS
  <1>4. Total(S \ {p}, f) \in Nat /\ f[p] \in Nat
    BY <1>1, TotalType
  <1>5. Total(S, f) = Total(S \ {p}, f) + f[p]
    BY <1>2, <1>3, Zenon
  <1>6. QED
    BY ONLY <1>4, <1>5

\* A changed quantity of one document changes the total by the difference.
LEMMA TotalChange ==
  ASSUME NEW S, IsFiniteSet(S), NEW p \in S,
         NEW f, \A d \in S : f[d] \in Nat, NEW g, \A d \in S : g[d] \in Nat,
         \A d \in S \ {p} : g[d] = f[d]
  PROVE  Total(S, g) = Total(S, f) - f[p] + g[p]
  <1>1. Total(S, f) = Total(S \ {p}, f) + f[p] /\ Total(S, g) = Total(S \ {p}, g) + g[p]
    BY TotalRemove
  <1>2. Total(S \ {p}, f) = Total(S \ {p}, g)
    BY TotalSame
  <1>3. IsFiniteSet(S \ {p})
    BY FS_RemoveElement
  <1>4. Total(S \ {p}, f) \in Nat
    BY <1>3, TotalType
  <1>5. QED
    BY <1>1, <1>2, <1>4
=============================================================================
