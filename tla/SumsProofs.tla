----------------------------- MODULE SumsProofs -----------------------------
(***************************************************************************)
(* How a sum over a finite set changes when the set or one value changes.  *)
(* The inductions are over sets of finite sets: a set of counterexamples   *)
(* has a smallest element, by WFMin.                                       *)
(***************************************************************************)
EXTENDS Sums, Integers, FiniteSets, FiniteSetTheorems, WellFoundedInduction, TLAPS

\* A nonempty set of natural numbers has a least element.
LEMMA LeastNatural ==
    ASSUME NEW T, T \subseteq Nat, T # {}
    PROVE  \E x \in T : \A y \in T : ~(y < x)
  <1>1. \E x \in T : \A y \in T : ~(<<y, x>> \in OpToRel(<, Nat))
    BY NatLessThanWellFounded, WFMin
  <1> QED
    BY <1>1 DEF OpToRel

\* Induction over finite sets: G holds every subset of S when it holds each one that
\* loses an element to members of G only.
LEMMA FiniteInduction ==
    ASSUME NEW S, IsFiniteSet(S), NEW G,
           \A T \in SUBSET S : (\A x \in T : T \ {x} \in G) => T \in G
    PROVE  S \in G
  <1> DEFINE N == {n \in Nat : \E T \in SUBSET S : Cardinality(T) = n /\ T \notin G}
  <1>1. SUFFICES ASSUME S \notin G PROVE FALSE
    OBVIOUS
  <1>2. \A T \in SUBSET S : IsFiniteSet(T) /\ Cardinality(T) \in Nat
    BY FS_Subset, FS_CardinalityType
  <1>3. N \subseteq Nat /\ N # {}
    BY <1>1, <1>2
  <1>4. PICK n \in N : \A m \in N : ~(m < n)
    BY <1>3, LeastNatural
  <1>5. PICK T \in SUBSET S : Cardinality(T) = n /\ T \notin G
    BY <1>4
  <1>6. PICK x \in T : T \ {x} \notin G
    BY <1>5
  <1>7. Cardinality(T \ {x}) = n - 1
    BY <1>2, <1>5, <1>6, FS_RemoveElement
  <1>8. n - 1 \in N
    BY <1>2, <1>5, <1>6, <1>7
  <1> QED
    BY <1>3, <1>4, <1>8

-----------------------------------------------------------------------------
(* What SumOver chooses is a function that satisfies the recursion.        *)

Some(S) == CHOOSE x \in S : TRUE
Rest(S) == S \ {Some(S)}

\* The recursion, on the subsets of S.
Recursion(f, S, sum) ==
  sum = [T \in SUBSET S |-> IF T = {} THEN 0 ELSE f[Some(T)] + sum[Rest(T)]]

Partial(f, S) == CHOOSE sum : Recursion(f, S, sum)

LEMMA SumUnfolds ==
    ASSUME NEW f, NEW S PROVE SumOver(f, S) = Partial(f, S)[S]
  BY Zenon DEF SumOver, MapThenSumSet, MapThenFoldSet, Partial, Recursion, Some, Rest

LEMMA SomeRest == ASSUME NEW S, S # {} PROVE Some(S) \in S /\ Rest(S) \subseteq S
  BY DEF Some, Rest

\* Two solutions agree wherever both are defined.
LEMMA RecursionUnique ==
    ASSUME NEW f, NEW S, NEW T, NEW U, IsFiniteSet(U), U \subseteq S, U \subseteq T,
           NEW g, NEW h, Recursion(f, S, g), Recursion(f, T, h)
    PROVE  g[U] = h[U]
  <1> DEFINE G == {V \in SUBSET U : g[V] = h[V]}
  <1>1. ASSUME NEW V \in SUBSET U, \A x \in V : V \ {x} \in G PROVE V \in G
    <2>1. V \in SUBSET S /\ V \in SUBSET T
      OBVIOUS
    <2>2. CASE V = {}
      BY <2>1, <2>2 DEF Recursion
    <2>3. CASE V # {}
      <3>1. g[Rest(V)] = h[Rest(V)]
        BY <1>1, <2>3, SomeRest DEF Rest
      <3>2. g[V] = f[Some(V)] + g[Rest(V)]
        BY <2>1, <2>3 DEF Recursion
      <3>3. h[V] = f[Some(V)] + h[Rest(V)]
        BY <2>1, <2>3 DEF Recursion
      <3> QED
        BY <3>1, <3>2, <3>3
    <2> QED
      BY <2>2, <2>3
  <1>2. U \in G
    <2> HIDE DEF G
    <2> QED
      BY <1>1, FiniteInduction
  <1> QED
    BY <1>2

\* The recursion has a solution on every finite set.
LEMMA RecursionSolved ==
    ASSUME NEW f, NEW S, IsFiniteSet(S) PROVE Recursion(f, S, Partial(f, S))
  <1> DEFINE G == {T \in SUBSET S : \A U \in SUBSET T : Recursion(f, U, Partial(f, U))}
  <1>1. ASSUME NEW T \in SUBSET S, \A x \in T : T \ {x} \in G PROVE T \in G
    <2>1. ASSUME NEW U \in SUBSET T, U # T PROVE Recursion(f, U, Partial(f, U))
      <3>1. PICK x \in T : x \notin U
        BY <2>1
      <3>2. U \in SUBSET (T \ {x})
        BY <3>1
      <3> QED
        BY <1>1, <3>1, <3>2
    <2>2. \A U \in SUBSET T : IsFiniteSet(U)
      BY FS_Subset
    <2> DEFINE Value(U) == Partial(f, U)[U]
    <2> DEFINE g == [U \in SUBSET T |-> IF U = T /\ T # {}
                       THEN f[Some(T)] + Value(Rest(T)) ELSE Value(U)]
    <2>3. ASSUME NEW U \in SUBSET T
          PROVE  g[U] = IF U = {} THEN 0 ELSE f[Some(U)] + g[Rest(U)]
      <3>1. CASE U = T /\ T # {}
        <4>1. Rest(T) \in SUBSET T /\ Rest(T) # T
          BY <3>1, SomeRest DEF Rest
        <4>2. g[Rest(T)] = Value(Rest(T))
          BY <4>1
        <4> QED
          BY <3>1, <4>2
      <3>2. CASE U # T
        <4>1. Recursion(f, U, Partial(f, U)) /\ g[U] = Value(U)
          BY <2>1, <3>2
        <4>2. U \in SUBSET U
          OBVIOUS
        <4>3. Value(U) = IF U = {} THEN 0 ELSE f[Some(U)] + Partial(f, U)[Rest(U)]
          BY <4>1, <4>2 DEF Recursion
        <4>4. CASE U # {}
          <5>1. Rest(U) \in SUBSET T /\ Rest(U) # T /\ Rest(U) \subseteq U
            BY <3>2, <4>4, SomeRest
          <5>2. Recursion(f, Rest(U), Partial(f, Rest(U)))
            BY <2>1, <5>1
          <5>3. Partial(f, U)[Rest(U)] = Partial(f, Rest(U))[Rest(U)]
            <6>1. PICK V, h, k : V = Rest(U) /\ h = Partial(f, U) /\ k = Partial(f, V)
              OBVIOUS
            <6>2. /\ IsFiniteSet(V) /\ V \subseteq U /\ V \subseteq V
                  /\ Recursion(f, U, h) /\ Recursion(f, V, k)
              BY <2>2, <4>1, <5>1, <5>2, <6>1
            <6>3. h[V] = k[V]
              BY <6>2, RecursionUnique
            <6> QED
              BY <6>1, <6>3
          <5>4. g[Rest(U)] = Value(Rest(U))
            BY <5>1
          <5> QED
            BY <4>1, <4>3, <4>4, <5>3, <5>4
        <4> QED
          BY <4>1, <4>3, <4>4
      <3>3. CASE U = T /\ T = {}
        <4>1. g[U] = Value({})
          BY <3>3
        <4>2. \E h : Recursion(f, {}, h)
          <5> DEFINE h == [V \in SUBSET {} |-> 0]
          <5>1. h = [V \in SUBSET {} |-> IF V = {} THEN 0 ELSE f[Some(V)] + h[Rest(V)]]
            OBVIOUS
          <5> QED
            BY <5>1 DEF Recursion
        <4>3. Recursion(f, {}, Partial(f, {}))
          BY <4>2 DEF Partial
        <4>4. Value({}) = 0
          BY <4>3 DEF Recursion
        <4> QED
          BY <3>3, <4>1, <4>4
      <3> QED
        BY <3>1, <3>2, <3>3
    <2>4. Recursion(f, T, g)
      BY <2>3 DEF Recursion
    <2>5. Recursion(f, T, Partial(f, T))
      BY <2>4, Zenon DEF Partial
    <2> QED
      BY <2>1, <2>5
  <1>2. S \in G
    <2> HIDE DEF G
    <2> QED
      BY <1>1, FiniteInduction
  <1> QED
    BY <1>2

-----------------------------------------------------------------------------
(* The facts about sums that the proofs use.                               *)

LEMMA SumEmpty == ASSUME NEW f PROVE SumOver(f, {}) = 0
  <1>1. Recursion(f, {}, Partial(f, {}))
    BY RecursionSolved, FS_EmptySet
  <1> QED
    BY <1>1, SumUnfolds DEF Recursion

LEMMA SumStep ==
    ASSUME NEW f, NEW S, IsFiniteSet(S), S # {}
    PROVE  SumOver(f, S) = f[Some(S)] + SumOver(f, Rest(S))
  <1>1. PICK R, g, h : R = Rest(S) /\ g = Partial(f, S) /\ h = Partial(f, R)
    OBVIOUS
  <1>2. R \subseteq S /\ IsFiniteSet(R) /\ R \in SUBSET S /\ S \in SUBSET S
    BY <1>1, SomeRest, FS_Subset
  <1>3. Recursion(f, S, g) /\ Recursion(f, R, h)
    BY <1>1, <1>2, RecursionSolved
  <1>4. g[S] = f[Some(S)] + g[R]
    BY <1>1, <1>2, <1>3 DEF Recursion
  <1>5. g[R] = h[R]
    <2>1. R \subseteq S /\ R \subseteq R /\ IsFiniteSet(R)
      BY <1>2
    <2> QED
      BY <1>3, <2>1, RecursionUnique
  <1> QED
    BY <1>1, <1>4, <1>5, SumUnfolds

\* The sum is a number.
LEMMA SumType ==
    ASSUME NEW f, NEW S, IsFiniteSet(S), \A x \in S : f[x] \in Int
    PROVE  SumOver(f, S) \in Int
  <1> DEFINE G == {T \in SUBSET S : SumOver(f, T) \in Int}
  <1>1. ASSUME NEW T \in SUBSET S, \A x \in T : T \ {x} \in G PROVE T \in G
    <2>1. CASE T = {}
      BY <2>1, SumEmpty
    <2>2. CASE T # {}
      <3>1. Some(T) \in T /\ Rest(T) = T \ {Some(T)} /\ IsFiniteSet(T)
        BY <2>2, SomeRest, FS_Subset DEF Rest
      <3>2. SumOver(f, Rest(T)) \in Int /\ f[Some(T)] \in Int
        BY <1>1, <3>1
      <3>3. SumOver(f, T) = f[Some(T)] + SumOver(f, Rest(T))
        BY <2>2, <3>1, SumStep
      <3> QED
        BY <3>2, <3>3
    <2> QED
      BY <2>1, <2>2
  <1>2. S \in G
    <2> HIDE DEF G
    <2> QED
      BY <1>1, FiniteInduction
  <1> QED
    BY <1>2

\* The sum of natural numbers is one.
LEMMA SumNat ==
    ASSUME NEW f, NEW S, IsFiniteSet(S), \A x \in S : f[x] \in Nat
    PROVE  SumOver(f, S) \in Nat
  <1> DEFINE G == {T \in SUBSET S : SumOver(f, T) \in Nat}
  <1>1. ASSUME NEW T \in SUBSET S, \A x \in T : T \ {x} \in G PROVE T \in G
    <2>1. CASE T = {}
      BY <2>1, SumEmpty
    <2>2. CASE T # {}
      <3>1. Some(T) \in T /\ Rest(T) = T \ {Some(T)} /\ IsFiniteSet(T)
        BY <2>2, SomeRest, FS_Subset DEF Rest
      <3>2. SumOver(f, Rest(T)) \in Nat /\ f[Some(T)] \in Nat
        BY <1>1, <3>1
      <3>3. SumOver(f, T) = f[Some(T)] + SumOver(f, Rest(T))
        BY <2>2, <3>1, SumStep
      <3> QED
        BY <3>2, <3>3
    <2> QED
      BY <2>1, <2>2
  <1>2. S \in G
    <2> HIDE DEF G
    <2> QED
      BY <1>1, FiniteInduction
  <1> QED
    BY <1>2

\* Any element may be taken out first.
LEMMA SumRemove ==
    ASSUME NEW f, NEW S, IsFiniteSet(S), \A x \in S : f[x] \in Int, NEW x \in S
    PROVE  SumOver(f, S) = f[x] + SumOver(f, S \ {x})
  <1> DEFINE G == {T \in SUBSET S : \A y \in T : SumOver(f, T) = f[y] + SumOver(f, T \ {y})}
  <1>1. ASSUME NEW T \in SUBSET S, \A y \in T : T \ {y} \in G PROVE T \in G
    <2>1. ASSUME NEW y \in T PROVE SumOver(f, T) = f[y] + SumOver(f, T \ {y})
      <3>1. PICK z : z = Some(T)
        OBVIOUS
      <3>2. z \in T /\ Rest(T) = T \ {z} /\ IsFiniteSet(T)
        BY <3>1, SomeRest, FS_Subset DEF Rest
      <3>3. SumOver(f, T) = f[z] + SumOver(f, T \ {z})
        BY <3>1, <3>2, SumStep
      <3>4. CASE z = y
        BY <3>3, <3>4
      <3>5. CASE z # y
        <4>1. PICK R : R = (T \ {y}) \ {z} /\ R = (T \ {z}) \ {y}
          OBVIOUS
        <4>2. SumOver(f, T \ {z}) = f[y] + SumOver(f, R)
          BY <1>1, <3>2, <3>5, <4>1
        <4>3. SumOver(f, T \ {y}) = f[z] + SumOver(f, R)
          BY <1>1, <3>2, <3>5, <4>1
        <4>4. IsFiniteSet(R) /\ R \subseteq S
          BY <3>2, <4>1, FS_Subset
        <4>5. f[y] \in Int /\ f[z] \in Int /\ SumOver(f, R) \in Int
          BY <3>2, <4>4, SumType
        <4> QED
          BY <3>3, <4>2, <4>3, <4>5
      <3> QED
        BY <3>4, <3>5
    <2> QED
      BY <2>1
  <1>2. S \in G
    <2> HIDE DEF G
    <2> QED
      BY <1>1, FiniteInduction
  <1> QED
    BY <1>2

\* The sum depends on the values in the set only.
LEMMA SumSame ==
    ASSUME NEW f, NEW g, NEW S, IsFiniteSet(S), \A x \in S : f[x] = g[x]
    PROVE  SumOver(f, S) = SumOver(g, S)
  <1> DEFINE G == {T \in SUBSET S : SumOver(f, T) = SumOver(g, T)}
  <1>1. ASSUME NEW T \in SUBSET S, \A x \in T : T \ {x} \in G PROVE T \in G
    <2>1. CASE T = {}
      BY <2>1, SumEmpty
    <2>2. CASE T # {}
      <3>1. Some(T) \in T /\ Rest(T) = T \ {Some(T)} /\ IsFiniteSet(T)
        BY <2>2, SomeRest, FS_Subset DEF Rest
      <3>2. SumOver(f, Rest(T)) = SumOver(g, Rest(T)) /\ f[Some(T)] = g[Some(T)]
        BY <1>1, <3>1
      <3>3. /\ SumOver(f, T) = f[Some(T)] + SumOver(f, Rest(T))
            /\ SumOver(g, T) = g[Some(T)] + SumOver(g, Rest(T))
        BY <2>2, <3>1, SumStep
      <3> QED
        BY <3>2, <3>3
    <2> QED
      BY <2>1, <2>2
  <1>2. S \in G
    <2> HIDE DEF G
    <2> QED
      BY <1>1, FiniteInduction
  <1> QED
    BY <1>2

\* A new element adds its value.
LEMMA SumAdd ==
    ASSUME NEW f, NEW S, IsFiniteSet(S), NEW x, x \notin S, \A y \in S \cup {x} : f[y] \in Int
    PROVE  SumOver(f, S \cup {x}) = SumOver(f, S) + f[x]
  <1>1. PICK T : T = S \cup {x}
    OBVIOUS
  <1>2. IsFiniteSet(T) /\ x \in T /\ T \ {x} = S
    BY <1>1, FS_AddElement
  <1>3. SumOver(f, T) = f[x] + SumOver(f, S)
    BY <1>1, <1>2, SumRemove
  <1>4. SumOver(f, S) \in Int /\ f[x] \in Int
    BY SumType
  <1> QED
    BY <1>1, <1>3, <1>4

\* Disjoint sets add up.
LEMMA SumUnion ==
    ASSUME NEW f, NEW S, NEW T, IsFiniteSet(S), IsFiniteSet(T), S \cap T = {},
           \A y \in S \cup T : f[y] \in Int
    PROVE  /\ IsFiniteSet(S \cup T)
           /\ SumOver(f, S) \in Int /\ SumOver(f, T) \in Int
           /\ SumOver(f, S \cup T) = SumOver(f, S) + SumOver(f, T)
  <1> DEFINE G == {U \in SUBSET T : SumOver(f, S \cup U) = SumOver(f, S) + SumOver(f, U)}
  <1>1. SumOver(f, S) \in Int /\ \A U \in SUBSET T : IsFiniteSet(U) /\ SumOver(f, U) \in Int
    <2>1. ASSUME NEW U \in SUBSET T PROVE IsFiniteSet(U) /\ SumOver(f, U) \in Int
      <3>1. IsFiniteSet(U) /\ \A y \in U : f[y] \in Int
        BY FS_Subset
      <3> QED
        BY <3>1, SumType
    <2>2. \A y \in S : f[y] \in Int
      OBVIOUS
    <2> QED
      BY <2>1, <2>2, SumType
  <1>2. ASSUME NEW U \in SUBSET T, \A x \in U : U \ {x} \in G PROVE U \in G
    <2>1. CASE U = {}
      <3>1. S \cup U = S
        BY <2>1
      <3> QED
        BY <1>1, <2>1, <3>1, SumEmpty
    <2>2. CASE U # {}
      <3>1. PICK x \in U : TRUE
        BY <2>2
      <3>2. PICK V, W : V = U \ {x} /\ W = S \cup V
        OBVIOUS
      <3>3. /\ V \in SUBSET T /\ U = V \cup {x} /\ S \cup U = W \cup {x}
            /\ x \notin V /\ x \notin W /\ f[x] \in Int
        BY <3>1, <3>2
      <3>4. IsFiniteSet(V) /\ IsFiniteSet(W) /\ SumOver(f, V) \in Int
        BY <1>1, <3>2, <3>3, FS_Union
      <3>5. SumOver(f, W) = SumOver(f, S) + SumOver(f, V)
        BY <1>2, <3>1, <3>2
      <3>6. \A y \in W \cup {x} : f[y] \in Int
        BY <3>2, <3>3
      <3>7. SumOver(f, W \cup {x}) = SumOver(f, W) + f[x]
        BY <3>3, <3>4, <3>6, SumAdd
      <3>8. SumOver(f, V \cup {x}) = SumOver(f, V) + f[x]
        <4>1. \A y \in V \cup {x} : f[y] \in Int
          BY <3>2, <3>6
        <4> QED
          BY <3>3, <3>4, <4>1, SumAdd
      <3>9. SumOver(f, S \cup U) = SumOver(f, S) + SumOver(f, U)
        <4>1. /\ SumOver(f, S \cup U) = SumOver(f, W) + f[x]
              /\ SumOver(f, U) = SumOver(f, V) + f[x]
          BY <3>3, <3>7, <3>8
        <4>2. SumOver(f, S) \in Int /\ SumOver(f, V) \in Int /\ f[x] \in Int
          BY <1>1, <3>3, <3>4
        <4> QED
          BY <3>5, <4>1, <4>2
      <3> QED
        BY <3>9
    <2> QED
      BY <2>1, <2>2
  <1>3. T \in G
    <2> HIDE DEF G
    <2> QED
      BY <1>2, FiniteInduction
  <1> QED
    BY <1>1, <1>3, FS_Union

\* A sum less the summand of one element, which may not be in the set.
Others(f, S, x) == SumOver(f, S) - (IF x \in S THEN f[x] ELSE 0)

LEMMA SumWithout ==
    ASSUME NEW f, NEW S, NEW x, IsFiniteSet(S), \A y \in S : f[y] \in Int
    PROVE  SumOver(f, S) \in Int /\ Others(f, S, x) = SumOver(f, S \ {x})
  <1>1. PICK R : R = S \ {x}
    OBVIOUS
  <1>2. SumOver(f, S) \in Int /\ SumOver(f, R) \in Int
    <2>1. IsFiniteSet(R) /\ \A y \in R : f[y] \in Int
      BY <1>1, FS_Subset
    <2> QED
      BY <2>1, SumType
  <1>3. x \in S => SumOver(f, S) = f[x] + SumOver(f, R) /\ f[x] \in Int
    BY <1>1, SumRemove
  <1>4. x \notin S => R = S
    BY <1>1
  <1>5. Others(f, S, x) = SumOver(f, R)
    BY <1>2, <1>3, <1>4 DEF Others
  <1> QED
    BY <1>1, <1>2, <1>5

\* One element enters, leaves or changes its value: the sum of the others stays.
LEMMA SumChange ==
    ASSUME NEW f, NEW g, NEW S, NEW T, NEW x, IsFiniteSet(S), S \ {x} = T \ {x},
           \A y \in S : f[y] \in Int, \A y \in T : g[y] \in Int,
           \A y \in S \ {x} : f[y] = g[y]
    PROVE  /\ IsFiniteSet(T) /\ SumOver(f, S) \in Int /\ SumOver(g, T) \in Int
           /\ Others(g, T, x) = Others(f, S, x)
  <1>1. PICK R : R = S \ {x} /\ R = T \ {x}
    OBVIOUS
  <1>2. IsFiniteSet(R) /\ IsFiniteSet(T)
    <2>1. IsFiniteSet(R)
      BY <1>1, FS_Subset
    <2>2. IsFiniteSet(R \cup {x})
      BY <2>1, FS_AddElement
    <2>3. T \subseteq R \cup {x}
      BY <1>1
    <2> QED
      BY <2>1, <2>2, <2>3, FS_Subset
  <1>3. SumOver(f, R) = SumOver(g, R)
    BY <1>1, <1>2, SumSame
  <1>4. SumOver(f, S) \in Int /\ Others(f, S, x) = SumOver(f, S \ {x})
    BY SumWithout
  <1>5. SumOver(g, T) \in Int /\ Others(g, T, x) = SumOver(g, T \ {x})
    BY <1>2, SumWithout
  <1> QED
    BY <1>1, <1>2, <1>3, <1>4, <1>5

\* What a sum becomes when one element enters or leaves the set.
LEMMA SumMove ==
    ASSUME NEW f, NEW S, NEW T, NEW x, IsFiniteSet(S), S \ {x} = T \ {x},
           \A y \in S : f[y] \in Int, \A y \in T : f[y] \in Int
    PROVE  /\ IsFiniteSet(T) /\ SumOver(f, S) \in Int /\ SumOver(f, T) \in Int
           /\ Others(f, T, x) = Others(f, S, x)
  <1>1. \A y \in S \ {x} : f[y] = f[y]
    OBVIOUS
  <1> QED
    BY <1>1, SumChange

\* The same for the number of elements.
LEMMA CountChange ==
    ASSUME NEW S, NEW T, NEW x, IsFiniteSet(S), S \ {x} = T \ {x}
    PROVE  /\ IsFiniteSet(T) /\ Cardinality(S) \in Nat /\ Cardinality(T) \in Nat
           /\ Cardinality(T) - (IF x \in T THEN 1 ELSE 0)
                = Cardinality(S) - (IF x \in S THEN 1 ELSE 0)
  <1>1. PICK R : R = S \ {x} /\ R = T \ {x}
    OBVIOUS
  <1>2. IsFiniteSet(R) /\ x \notin R /\ Cardinality(R) \in Nat
    BY <1>1, FS_Subset, FS_CardinalityType
  <1>3. IsFiniteSet(R \cup {x}) /\ Cardinality(R \cup {x}) = Cardinality(R) + 1
    BY <1>2, FS_AddElement
  <1>4. /\ x \in S => S = R \cup {x}
        /\ x \notin S => S = R
        /\ x \in T => T = R \cup {x}
        /\ x \notin T => T = R
    BY <1>1
  <1>5. Cardinality(S) = Cardinality(R) + (IF x \in S THEN 1 ELSE 0)
    <2>1. CASE x \in S
      BY <1>3, <1>4, <2>1
    <2>2. CASE x \notin S
      BY <1>2, <1>4, <2>2
    <2> QED
      BY <2>1, <2>2
  <1>6. Cardinality(T) = Cardinality(R) + (IF x \in T THEN 1 ELSE 0) /\ IsFiniteSet(T)
    <2>1. CASE x \in T
      BY <1>3, <1>4, <2>1
    <2>2. CASE x \notin T
      BY <1>2, <1>4, <2>2
    <2> QED
      BY <2>1, <2>2
  <1> QED
    BY <1>2, <1>5, <1>6
=============================================================================
