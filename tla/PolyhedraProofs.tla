--------------------------- MODULE PolyhedraProofs ---------------------------
(***************************************************************************)
(* SMTParser keeps the meaning of every formula it parses: an affine term  *)
(* is worth what its expression is, distribution is conjunction, negation  *)
(* is exact, and no polyhedron with a solution is dropped.                 *)
(***************************************************************************)
EXTENDS Polyhedra, TLAPS, WellFoundedInduction, FiniteSetTheorems, SequenceTheorems

LEMMA NatLeast == ASSUME NEW T \in SUBSET Nat, T # {}
                  PROVE  \E k \in T : \A l \in T : k <= l
<1>1. IsWellFoundedOn(OpToRel(<, Nat), Nat)
  BY NatLessThanWellFounded
<1>2. PICK k \in T : \A l \in T : ~(<<l, k>> \in OpToRel(<, Nat))
  BY <1>1, WFMin
<1>3. \A l \in T : ~(l < k)
  BY <1>2 DEF OpToRel
<1>4. k \in Nat /\ \A l \in T : l \in Nat
  OBVIOUS
<1> QED BY <1>3, <1>4

\* Induction up to n, for a set: the least number that is not in S is neither zero
\* nor the successor of a member.
LEMMA UpTo == ASSUME NEW n \in Nat, NEW S, 0 \in S,
                     \A k \in 1..n : k - 1 \in S => k \in S
              PROVE  \A k \in 0..n : k \in S
<1> DEFINE T == {k \in 0..n : k \notin S}
<1>1. SUFFICES ASSUME T # {} PROVE FALSE
  OBVIOUS
<1>2. T \in SUBSET Nat
  OBVIOUS
<1>3. PICK k \in T : \A l \in T : k <= l
  BY <1>1, <1>2, NatLeast
<1>4. k \in Nat /\ k # 0 /\ k <= n
  OBVIOUS
<1>5. k - 1 \in 0..n /\ k - 1 \notin T
  BY <1>3, <1>4
<1> QED BY <1>4, <1>5

----------------------------------------------------------------------------
(* Sums over finite sets of names.                                         *)

\* Induction over the subsets of a finite set, for a set of them.
LEMMA FiniteInduct == ASSUME NEW S, IsFiniteSet(S), NEW P,
                             \A T \in SUBSET S : (\A x \in T : T \ {x} \in P) => T \in P
                      PROVE  S \in P
<1> DEFINE n == Cardinality(S)
           K == {k \in 0..n : \A T \in SUBSET S : Cardinality(T) = k => T \in P}
<1>1. n \in Nat
  BY FS_CardinalityType
<1>2. \A T \in SUBSET S : IsFiniteSet(T) /\ Cardinality(T) \in Nat
  BY FS_Subset, FS_CardinalityType
<1>3. 0 \in K
  <2>1. SUFFICES ASSUME NEW T \in SUBSET S, Cardinality(T) = 0 PROVE T \in P
    BY <1>1
  <2>2. T = {}
    BY <1>2, <2>1, FS_EmptySet
  <2> QED BY <2>2
<1>4. ASSUME NEW k \in 1..n, k - 1 \in K PROVE k \in K
  <2>1. SUFFICES ASSUME NEW T \in SUBSET S, Cardinality(T) = k PROVE T \in P
    OBVIOUS
  <2>2. ASSUME NEW x \in T PROVE T \ {x} \in P
    <3>1. Cardinality(T \ {x}) = k - 1
      BY <1>2, <2>1, FS_RemoveElement
    <3> QED BY <1>4, <3>1
  <2> QED BY <2>2
<1>5. n \in K
  <2> HIDE DEF K, n
  <2> QED BY <1>1, <1>3, <1>4, UpTo
<1> QED BY <1>5

\* The sum of c[x] * env[x] for the members x of S.
Weighted(c, env, S) == MapThenSumSet(LAMBDA x : c[x] * env[x], S)

Part(c, env, x) == c[x] * env[x]

Some(s) == CHOOSE x \in s : TRUE

IsWeighing(g, c, env, D) ==
  g = [s \in D |-> IF s = {} THEN 0 ELSE Part(c, env, Some(s)) + g[s \ {Some(s)}]]

Weighing(c, env, S) == CHOOSE g : IsWeighing(g, c, env, SUBSET S)

LEMMA WeightedIs == ASSUME NEW c, NEW env, NEW S
                    PROVE  Weighted(c, env, S) = Weighing(c, env, S)[S]
BY Zenon DEF Weighted, MapThenSumSet, MapThenFoldSet, Weighing, IsWeighing, Some, Part

LEMMA SomeIn == ASSUME NEW s, s # {} PROVE Some(s) \in s
BY DEF Some

\* The weighings of the subsets with at most k members are made from k = 0 on.
LEMMA WeighingExists == ASSUME NEW S, IsFiniteSet(S), NEW c, NEW env
                        PROVE  \E g : IsWeighing(g, c, env, SUBSET S)
<1> DEFINE n == Cardinality(S)
           D(k) == {s \in SUBSET S : Cardinality(s) <= k}
           K == {k \in 0..n : \E g : IsWeighing(g, c, env, D(k))}
<1>1. n \in Nat
  BY FS_CardinalityType
<1>2. \A T \in SUBSET S : IsFiniteSet(T) /\ Cardinality(T) \in Nat /\ Cardinality(T) <= n
  BY FS_Subset, FS_CardinalityType
<1>3. \A T \in SUBSET S : T = {} <=> Cardinality(T) = 0
  BY <1>2, FS_EmptySet
<1>4. 0 \in K
  <2> DEFINE g == [s \in D(0) |-> 0]
  <2>1. \A s \in D(0) : s = {}
    BY <1>2, <1>3
  <2>2. g = [s \in D(0) |-> IF s = {} THEN 0 ELSE Part(c, env, Some(s)) + g[s \ {Some(s)}]]
    BY <2>1
  <2>3. IsWeighing(g, c, env, D(0))
    BY <2>2, Zenon DEF IsWeighing
  <2>4. \E f : IsWeighing(f, c, env, D(0))
    <3> HIDE DEF g, D
    <3> QED BY <2>3
  <2> QED BY <1>1, <2>4
<1>5. ASSUME NEW k \in 1..n, k - 1 \in K PROVE k \in K
  <2>1. PICK g : IsWeighing(g, c, env, D(k - 1))
    BY <1>5
  <2> DEFINE h == [s \in D(k) |-> IF s = {} THEN 0
                                  ELSE Part(c, env, Some(s)) + g[s \ {Some(s)}]]
  <2>2. ASSUME NEW s \in D(k - 1) PROVE s \in D(k) /\ h[s] = g[s]
    <3>1. s \in D(k)
      <4>1. Cardinality(s) \in Nat /\ Cardinality(s) <= k - 1
        BY <1>2
      <4> QED BY <4>1
    <3>2. g[s] = IF s = {} THEN 0 ELSE Part(c, env, Some(s)) + g[s \ {Some(s)}]
      BY <2>1, Zenon DEF IsWeighing
    <3> QED BY <3>1, <3>2, Zenon
  <2>3. ASSUME NEW s \in D(k), s # {} PROVE s \ {Some(s)} \in D(k - 1)
    BY <1>2, <2>3, SomeIn, FS_RemoveElement
  <2>4. \A s \in D(k) : h[s] = IF s = {} THEN 0 ELSE Part(c, env, Some(s)) + h[s \ {Some(s)}]
    <3> HIDE DEF D
    <3> QED BY <2>2, <2>3, Zenon
  <2>5. IsWeighing(h, c, env, D(k))
    <3> HIDE DEF D
    <3>1. h = [s \in D(k) |-> h[s]]
      BY Zenon
    <3>2. [s \in D(k) |-> h[s]]
          = [s \in D(k) |-> IF s = {} THEN 0 ELSE Part(c, env, Some(s)) + h[s \ {Some(s)}]]
      <4> HIDE DEF h
      <4> QED BY <2>4, Zenon
    <3> HIDE DEF h
    <3> QED BY <3>1, <3>2, Zenon DEF IsWeighing
  <2> QED BY <2>5
<1>6. n \in K
  <2> HIDE DEF K, n
  <2> QED BY <1>1, <1>4, <1>5, UpTo
<1>7. D(n) = SUBSET S
  BY <1>2
<1> QED BY <1>6, <1>7

LEMMA WeighingIs == ASSUME NEW S, IsFiniteSet(S), NEW c, NEW env
                    PROVE  IsWeighing(Weighing(c, env, S), c, env, SUBSET S)
BY WeighingExists, Zenon DEF Weighing

LEMMA WeighingStep ==
  ASSUME NEW S, IsFiniteSet(S), NEW c, NEW env, NEW s \in SUBSET S
  PROVE  /\ s = {} => Weighing(c, env, S)[s] = 0
         /\ s # {} => Weighing(c, env, S)[s]
                        = Part(c, env, Some(s)) + Weighing(c, env, S)[s \ {Some(s)}]
<1> DEFINE g == Weighing(c, env, S)
           value(t) == IF t = {} THEN 0 ELSE Part(c, env, Some(t)) + g[t \ {Some(t)}]
<1>1. IsWeighing(g, c, env, SUBSET S)
  BY WeighingIs
<1>2. g = [t \in SUBSET S |-> value(t)]
  BY <1>1, Zenon DEF IsWeighing
<1>3. g[s] = value(s)
  <2> HIDE DEF g, value
  <2> QED BY <1>2
<1>4. CASE s = {}
  BY <1>3, <1>4, Zenon
<1>5. CASE s # {}
  BY <1>3, <1>5, Zenon
<1> QED BY <1>4, <1>5

\* What a subset weighs does not depend on the set it was taken from.
LEMMA WeighingOfSubset == ASSUME NEW S, IsFiniteSet(S), NEW c, NEW env, NEW T \in SUBSET S
                          PROVE  Weighing(c, env, S)[T] = Weighing(c, env, T)[T]
<1> DEFINE g == Weighing(c, env, S)
           h == Weighing(c, env, T)
           P == {s \in SUBSET T : g[s] = h[s]}
<1>1. IsFiniteSet(T)
  BY FS_Subset
<1>2. ASSUME NEW s \in SUBSET T, \A x \in s : s \ {x} \in P PROVE s \in P
  <2>1. s \in SUBSET S
    OBVIOUS
  <2>2. CASE s = {}
    <3>1. g[s] = 0 /\ h[s] = 0
      BY <1>1, <2>1, <2>2, WeighingStep
    <3> QED BY <3>1
  <2>3. CASE s # {}
    <3> DEFINE x == Some(s)
    <3>1. x \in s
      BY <2>3, SomeIn
    <3>2. g[s \ {x}] = h[s \ {x}]
      BY <1>2, <3>1
    <3>3. g[s] = Part(c, env, x) + g[s \ {x}]
      BY <2>1, <2>3, WeighingStep
    <3>4. h[s] = Part(c, env, x) + h[s \ {x}]
      BY <1>1, <2>3, WeighingStep
    <3>5. g[s] = h[s]
      BY <3>2, <3>3, <3>4, Zenon
    <3> QED BY <3>5
  <2> QED BY <2>2, <2>3
<1>3. T \in P
  <2> HIDE DEF P
  <2> QED BY <1>1, <1>2, FiniteInduct
<1> QED BY <1>3

LEMMA WeightedEmpty == ASSUME NEW c, NEW env PROVE Weighted(c, env, {}) = 0
<1>1. IsFiniteSet({}) /\ {} \in SUBSET {}
  BY FS_EmptySet
<1>2. Weighing(c, env, {})[{}] = 0
  BY <1>1, WeighingStep
<1> QED BY <1>2, WeightedIs

LEMMA WeightedSome ==
  ASSUME NEW S, IsFiniteSet(S), S # {}, NEW c, NEW env
  PROVE  Weighted(c, env, S) = Part(c, env, Some(S)) + Weighted(c, env, S \ {Some(S)})
<1>1. S \ {Some(S)} \in SUBSET S /\ S \in SUBSET S
  OBVIOUS
<1>2. Weighing(c, env, S)[S] = Part(c, env, Some(S)) + Weighing(c, env, S)[S \ {Some(S)}]
  BY <1>1, WeighingStep
<1>3. Weighing(c, env, S)[S \ {Some(S)}] = Weighing(c, env, S \ {Some(S)})[S \ {Some(S)}]
  BY <1>1, WeighingOfSubset
<1> QED BY <1>2, <1>3, WeightedIs

\* What is summed is integers.
Numbers(c, env, S) == \A x \in S : c[x] \in Int /\ env[x] \in Int

LEMMA WeightedType == ASSUME NEW S, IsFiniteSet(S), NEW c, NEW env, Numbers(c, env, S)
                      PROVE  Weighted(c, env, S) \in Int
<1> DEFINE P == {T \in SUBSET S : Weighted(c, env, T) \in Int}
<1>1. ASSUME NEW T \in SUBSET S, \A x \in T : T \ {x} \in P PROVE T \in P
  <2>1. CASE T = {}
    BY <2>1, WeightedEmpty
  <2>2. CASE T # {}
    <3>1. Some(T) \in T /\ T \ {Some(T)} \in P /\ IsFiniteSet(T)
      BY <1>1, <2>2, SomeIn, FS_Subset
    <3>2. c[Some(T)] \in Int /\ env[Some(T)] \in Int
      BY <3>1 DEF Numbers
    <3>3. Weighted(c, env, T) = c[Some(T)] * env[Some(T)] + Weighted(c, env, T \ {Some(T)})
      BY <2>2, <3>1, WeightedSome DEF Part
    <3> QED BY <3>1, <3>2, <3>3
  <2> QED BY <2>1, <2>2
<1>2. S \in P
  <2> HIDE DEF P
  <2> QED BY <1>1, FiniteInduct
<1> QED BY <1>2

\* Any member can be taken out of the sum.
LEMMA WeightedStep ==
  ASSUME NEW S, IsFiniteSet(S), NEW c, NEW env, Numbers(c, env, S), NEW y \in S
  PROVE  Weighted(c, env, S) = c[y] * env[y] + Weighted(c, env, S \ {y})
<1> DEFINE W(T) == Weighted(c, env, T)
           P == {T \in SUBSET S : \A z \in T : W(T) = c[z] * env[z] + W(T \ {z})}
<1>1. ASSUME NEW T \in SUBSET S, \A x \in T : T \ {x} \in P PROVE T \in P
  <2>1. SUFFICES ASSUME NEW z \in T PROVE W(T) = c[z] * env[z] + W(T \ {z})
    OBVIOUS
  <2> DEFINE x == Some(T)
  <2>2. x \in T /\ IsFiniteSet(T)
    BY SomeIn, FS_Subset
  <2>3. W(T) = c[x] * env[x] + W(T \ {x})
    BY <2>2, WeightedSome DEF Part
  <2>4. CASE z = x
    BY <2>3, <2>4
  <2>5. CASE z # x
    <3>1. T \ {x} \in P /\ T \ {z} \in P /\ z \in T \ {x} /\ x \in T \ {z}
      BY <1>1, <2>2, <2>5
    <3>2. W(T \ {x}) = c[z] * env[z] + W((T \ {x}) \ {z})
      BY <3>1
    <3>3. W(T \ {z}) = c[x] * env[x] + W((T \ {z}) \ {x})
      BY <3>1
    <3>4. (T \ {x}) \ {z} = (T \ {z}) \ {x}
      OBVIOUS
    <3> DEFINE rest == W((T \ {x}) \ {z})
    <3>5. rest \in Int
      <4>1. IsFiniteSet((T \ {x}) \ {z}) /\ Numbers(c, env, (T \ {x}) \ {z})
        BY <2>2, FS_Subset DEF Numbers
      <4> QED BY <4>1, WeightedType
    <3>6. c[x] * env[x] \in Int /\ c[z] * env[z] \in Int
      BY <2>2 DEF Numbers
    <3>7. W(T) = c[x] * env[x] + (c[z] * env[z] + rest) /\ W(T \ {z}) = c[x] * env[x] + rest
      BY <2>3, <3>2, <3>3, <3>4, Zenon
    <3> HIDE DEF rest, W
    <3> QED BY <3>5, <3>6, <3>7
  <2> QED BY <2>4, <2>5
<1>2. S \in P
  <2> HIDE DEF P
  <2> QED BY <1>1, FiniteInduct
<1> QED BY <1>2

\* A sum over a larger set, where the other members count for nothing.
LEMMA WeightedSupport ==
  ASSUME NEW S, IsFiniteSet(S), NEW T \in SUBSET S, NEW c, NEW d, NEW env,
         Numbers(c, env, T), Numbers(d, env, S),
         \A x \in T : c[x] = d[x], \A x \in S \ T : d[x] = 0
  PROVE  Weighted(d, env, S) = Weighted(c, env, T)
<1> DEFINE P == {U \in SUBSET S : Weighted(d, env, U) = Weighted(c, env, U \cap T)}
<1>1. ASSUME NEW U \in SUBSET S, \A x \in U : U \ {x} \in P PROVE U \in P
  <2>1. IsFiniteSet(U) /\ IsFiniteSet(U \cap T) /\ Numbers(d, env, U) /\ Numbers(c, env, U \cap T)
    <3>1. U \cap T \in SUBSET S
      OBVIOUS
    <3> QED BY <3>1, FS_Subset DEF Numbers
  <2>2. CASE U = {}
    <3>1. U \cap T = {}
      BY <2>2
    <3> QED BY <2>2, <3>1, WeightedEmpty
  <2>3. CASE U # {}
    <3> DEFINE x == Some(U)
    <3>1. x \in U
      BY <2>3, SomeIn
    <3>2. Weighted(d, env, U \ {x}) = Weighted(c, env, (U \ {x}) \cap T)
      BY <1>1, <3>1
    <3>3. Weighted(d, env, U) = d[x] * env[x] + Weighted(d, env, U \ {x})
      BY <2>1, <3>1, WeightedStep
    <3>4. /\ d[x] \in Int /\ env[x] \in Int
          /\ Weighted(d, env, U \ {x}) \in Int
      <4>1. IsFiniteSet(U \ {x}) /\ Numbers(d, env, U \ {x})
        BY <2>1, FS_Subset DEF Numbers
      <4> QED BY <2>1, <3>1, <4>1, WeightedType DEF Numbers
    <3>5. CASE x \in T
      <4>1. Weighted(c, env, U \cap T) = c[x] * env[x] + Weighted(c, env, (U \cap T) \ {x})
        BY <2>1, <3>1, <3>5, WeightedStep
      <4>2. (U \cap T) \ {x} = (U \ {x}) \cap T
        OBVIOUS
      <4>3. c[x] = d[x]
        BY <3>5
      <4>4. Weighted(d, env, U) = Weighted(c, env, U \cap T)
        BY <3>2, <3>3, <4>1, <4>2, <4>3, Zenon
      <4> QED BY <4>4
    <3>6. CASE x \notin T
      <4>1. U \cap T = (U \ {x}) \cap T
        BY <3>6
      <4>2. d[x] * env[x] = 0
        BY <3>1, <3>4, <3>6
      <4>3. Weighted(d, env, U) = Weighted(d, env, U \ {x})
        BY <3>3, <3>4, <4>2
      <4> QED BY <3>2, <4>1, <4>3
    <3> QED BY <3>5, <3>6
  <2> QED BY <2>2, <2>3
<1>2. S \in P
  <2> HIDE DEF P
  <2> QED BY <1>1, FiniteInduct
<1>3. S \cap T = T
  OBVIOUS
<1> QED BY <1>2, <1>3

LEMMA WeightedAdd ==
  ASSUME NEW S, IsFiniteSet(S), NEW c, NEW d, NEW e, NEW env,
         Numbers(c, env, S), Numbers(d, env, S), \A x \in S : e[x] = c[x] + d[x]
  PROVE  Weighted(e, env, S) = Weighted(c, env, S) + Weighted(d, env, S)
<1> DEFINE P == {T \in SUBSET S : Weighted(e, env, T) = Weighted(c, env, T) + Weighted(d, env, T)}
<1>1. ASSUME NEW T \in SUBSET S, \A x \in T : T \ {x} \in P PROVE T \in P
  <2>1. /\ IsFiniteSet(T)
        /\ Numbers(c, env, T) /\ Numbers(d, env, T) /\ Numbers(e, env, T)
    BY FS_Subset DEF Numbers
  <2>2. CASE T = {}
    BY <2>2, WeightedEmpty
  <2>3. CASE T # {}
    <3> DEFINE x == Some(T)
               rest == T \ {x}
    <3>1. x \in T
      BY <2>3, SomeIn
    <3>2. Weighted(e, env, rest) = Weighted(c, env, rest) + Weighted(d, env, rest)
      BY <1>1, <3>1
    <3>3. /\ Weighted(c, env, T) = c[x] * env[x] + Weighted(c, env, rest)
          /\ Weighted(d, env, T) = d[x] * env[x] + Weighted(d, env, rest)
          /\ Weighted(e, env, T) = e[x] * env[x] + Weighted(e, env, rest)
      BY <2>1, <3>1, WeightedStep
    <3>4. Weighted(c, env, rest) \in Int /\ Weighted(d, env, rest) \in Int
      <4>1. IsFiniteSet(rest) /\ Numbers(c, env, rest) /\ Numbers(d, env, rest)
        BY <2>1, FS_Subset DEF Numbers
      <4> QED BY <4>1, WeightedType
    <3>5. c[x] \in Int /\ d[x] \in Int /\ env[x] \in Int /\ e[x] = c[x] + d[x]
      BY <3>1 DEF Numbers
    <3>6. e[x] * env[x] = c[x] * env[x] + d[x] * env[x]
      <4> DEFINE p == c[x]
                 q == d[x]
                 r == env[x]
      <4>1. p \in Int /\ q \in Int /\ r \in Int /\ e[x] = p + q
        BY <3>5
      <4> HIDE DEF p, q, r
      <4>2. (p + q) * r = p * r + q * r
        BY <4>1
      <4>3. e[x] * r = p * r + q * r
        BY <4>1, <4>2
      <4> QED BY <4>3 DEF p, q, r
    <3>7. c[x] * env[x] \in Int /\ d[x] * env[x] \in Int
      BY <3>5
    <3> HIDE DEF x, rest
    <3>8. Weighted(e, env, T) = Weighted(c, env, T) + Weighted(d, env, T)
      BY <3>2, <3>3, <3>4, <3>6, <3>7
    <3> QED BY <3>8
  <2> QED BY <2>2, <2>3
<1>2. S \in P
  <2> HIDE DEF P
  <2> QED BY <1>1, FiniteInduct
<1> QED BY <1>2

LEMMA WeightedScale ==
  ASSUME NEW S, IsFiniteSet(S), NEW c, NEW e, NEW k \in Int, NEW env,
         Numbers(c, env, S), \A x \in S : e[x] = k * c[x]
  PROVE  Weighted(e, env, S) = k * Weighted(c, env, S)
<1> DEFINE P == {T \in SUBSET S : Weighted(e, env, T) = k * Weighted(c, env, T)}
<1>1. ASSUME NEW T \in SUBSET S, \A x \in T : T \ {x} \in P PROVE T \in P
  <2>1. IsFiniteSet(T) /\ Numbers(c, env, T) /\ Numbers(e, env, T)
    BY FS_Subset DEF Numbers
  <2>2. CASE T = {}
    BY <2>2, WeightedEmpty
  <2>3. CASE T # {}
    <3> DEFINE x == Some(T)
               rest == T \ {x}
               w == Weighted(c, env, rest)
    <3>1. x \in T
      BY <2>3, SomeIn
    <3>2. Weighted(e, env, rest) = k * w
      BY <1>1, <3>1
    <3>3. /\ Weighted(c, env, T) = c[x] * env[x] + w
          /\ Weighted(e, env, T) = e[x] * env[x] + Weighted(e, env, rest)
      BY <2>1, <3>1, WeightedStep
    <3>4. w \in Int
      <4>1. IsFiniteSet(rest) /\ Numbers(c, env, rest)
        BY <2>1, FS_Subset DEF Numbers
      <4> QED BY <4>1, WeightedType
    <3> DEFINE p == c[x]
               r == env[x]
    <3>5. p \in Int /\ r \in Int /\ e[x] = k * p
      BY <3>1 DEF Numbers
    <3> HIDE DEF p, r, w
    <3>6. (k * p) * r = k * (p * r) /\ p * r \in Int
      BY <3>5
    <3>7. k * (p * r + w) = k * (p * r) + k * w
      BY <3>4, <3>6
    <3>8. Weighted(e, env, T) = (k * p) * r + k * w
      BY <3>2, <3>3, <3>5 DEF r
    <3>9. Weighted(c, env, T) = p * r + w
      BY <3>3 DEF p, r, w
    <3>10. Weighted(e, env, T) = k * Weighted(c, env, T)
      BY <3>6, <3>7, <3>8, <3>9
    <3> QED BY <3>10
  <2> QED BY <2>2, <2>3
<1>2. S \in P
  <2> HIDE DEF P
  <2> QED BY <1>1, FiniteInduct
<1> QED BY <1>2

----------------------------------------------------------------------------
(* Affine terms over a set N of names, and the inequalities made of them.   *)

Coefs(N) == {c \in UNION {[D -> Int] : D \in SUBSET N} : IsFiniteSet(DOMAIN c)}

AffineTerms(N) == [st : {"ok"}, coef : Coefs(N), const : Int]

Inequalities(N) == [coef : Coefs(N), const : Int, strict : BOOLEAN]

LEMMA CoefsAre == ASSUME NEW N, NEW c
                  PROVE  c \in Coefs(N) <=> /\ c \in [DOMAIN c -> Int]
                                            /\ DOMAIN c \in SUBSET N
                                            /\ IsFiniteSet(DOMAIN c)
<1>1. ASSUME c \in Coefs(N) PROVE c \in [DOMAIN c -> Int] /\ DOMAIN c \in SUBSET N /\ IsFiniteSet(DOMAIN c)
  <2>1. PICK D \in SUBSET N : c \in [D -> Int]
    BY <1>1 DEF Coefs
  <2>2. DOMAIN c = D
    BY <2>1
  <2>3. IsFiniteSet(DOMAIN c)
    BY <1>1 DEF Coefs
  <2> QED BY <2>1, <2>2, <2>3
<1>2. ASSUME c \in [DOMAIN c -> Int], DOMAIN c \in SUBSET N, IsFiniteSet(DOMAIN c) PROVE c \in Coefs(N)
  BY <1>2 DEF Coefs
<1> QED BY <1>1, <1>2

LEMMA CoefsWeigh == ASSUME NEW N, NEW c \in Coefs(N), NEW env \in [N -> Int]
                    PROVE  Numbers(c, env, DOMAIN c) /\ Weighted(c, env, DOMAIN c) \in Int
<1>1. c \in [DOMAIN c -> Int] /\ DOMAIN c \in SUBSET N /\ IsFiniteSet(DOMAIN c)
  BY CoefsAre
<1>2. Numbers(c, env, DOMAIN c)
  BY <1>1 DEF Numbers
<1> QED BY <1>1, <1>2, WeightedType

LEMMA ValueIs == ASSUME NEW a, NEW env
                 PROVE  Value(a, env) = Weighted(a.coef, env, DOMAIN a.coef) + a.const
BY Zenon DEF Value, Weighted

LEMMA ValueType == ASSUME NEW N, NEW a, a.coef \in Coefs(N), a.const \in Int, NEW env \in [N -> Int]
                   PROVE  Value(a, env) \in Int
<1>1. Weighted(a.coef, env, DOMAIN a.coef) \in Int
  BY CoefsWeigh
<1> QED BY <1>1, ValueIs

\* Dropping the zero entries changes nothing.
LEMMA AffineValue ==
  ASSUME NEW N, NEW c \in Coefs(N), NEW k \in Int
  PROVE  /\ Affine(c, k) \in AffineTerms(N)
         /\ Affine(c, k).coef \in Coefs(N) /\ Affine(c, k).const = k
         /\ \A env \in [N -> Int] : Value(Affine(c, k), env) = Weighted(c, env, DOMAIN c) + k
<1> DEFINE D == {x \in DOMAIN c : c[x] # 0}
           a == Affine(c, k)
<1>1. c \in [DOMAIN c -> Int] /\ DOMAIN c \in SUBSET N /\ IsFiniteSet(DOMAIN c)
  BY CoefsAre
<1>2. a.coef = [x \in D |-> c[x]] /\ a.const = k /\ a.st = "ok"
      /\ a = [st |-> "ok", coef |-> a.coef, const |-> a.const]
  BY Zenon DEF Affine, Restrict
<1>3. DOMAIN a.coef = D /\ \A x \in D : a.coef[x] = c[x]
  BY <1>2
<1>4. IsFiniteSet(D)
  BY <1>1, FS_Subset
<1>5. a.coef \in Coefs(N)
  <2>1. a.coef \in [DOMAIN a.coef -> Int] /\ DOMAIN a.coef \in SUBSET N /\ IsFiniteSet(DOMAIN a.coef)
    <3> HIDE DEF a
    <3> QED BY <1>1, <1>2, <1>3, <1>4
  <2> HIDE DEF a
  <2> QED BY <2>1, CoefsAre
<1>6. a \in AffineTerms(N)
  <2> HIDE DEF a
  <2> QED BY <1>2, <1>5 DEF AffineTerms
<1>7. ASSUME NEW env \in [N -> Int] PROVE Value(a, env) = Weighted(c, env, DOMAIN c) + k
  <2>1. Weighted(c, env, DOMAIN c) = Weighted(a.coef, env, D)
    <3>1. Numbers(a.coef, env, D) /\ Numbers(c, env, DOMAIN c)
      <4> HIDE DEF a
      <4> QED BY <1>3, <1>5, CoefsWeigh
    <3>2. D \in SUBSET DOMAIN c /\ \A x \in D : a.coef[x] = c[x]
      BY <1>3
    <3>3. \A x \in DOMAIN c \ D : c[x] = 0
      OBVIOUS
    <3> HIDE DEF a, D
    <3> QED BY <1>1, <3>1, <3>2, <3>3, WeightedSupport
  <2>2. Value(a, env) = Weighted(a.coef, env, DOMAIN a.coef) + a.const
    BY ValueIs
  <2> HIDE DEF a
  <2> QED BY <1>2, <1>3, <2>1, <2>2
<1> QED BY <1>2, <1>5, <1>6, <1>7

LEMMA ConstantValue ==
  ASSUME NEW N, NEW k \in Int
  PROVE  /\ Constant(k) \in AffineTerms(N)
         /\ \A env \in [N -> Int] : Value(Constant(k), env) = k
<1> DEFINE c == << >>
<1>1. DOMAIN c = {} /\ c \in [{} -> Int] /\ Constant(k) = Affine(c, k)
  BY DEF Constant
<1> HIDE DEF c
<1>2. c \in Coefs(N)
  <2>1. c \in [DOMAIN c -> Int] /\ DOMAIN c \in SUBSET N /\ IsFiniteSet(DOMAIN c)
    BY <1>1, FS_EmptySet
  <2> QED BY <2>1, CoefsAre
<1>3. ASSUME NEW env \in [N -> Int] PROVE Value(Constant(k), env) = k
  <2>1. Value(Constant(k), env) = Weighted(c, env, DOMAIN c) + k
    BY <1>1, <1>2, AffineValue
  <2>2. Weighted(c, env, {}) = 0
    BY WeightedEmpty
  <2> QED BY <1>1, <2>1, <2>2
<1> QED BY <1>1, <1>2, <1>3, AffineValue

LEMMA UnknownValue ==
  ASSUME NEW N, NEW x \in N
  PROVE  /\ Unknown(x) \in AffineTerms(N)
         /\ \A env \in [N -> Int] : Value(Unknown(x), env) = env[x]
<1> DEFINE c == [y \in {x} |-> 1]
<1>1. c \in Coefs(N) /\ DOMAIN c = {x}
  <2>1. DOMAIN c = {x} /\ c \in [{x} -> Int]
    OBVIOUS
  <2> QED BY <2>1, CoefsAre, FS_Singleton
<1>2. ASSUME NEW env \in [N -> Int] PROVE Value(Unknown(x), env) = env[x]
  <2>1. Value(Unknown(x), env) = Weighted(c, env, {x}) + 0
    BY <1>1, AffineValue DEF Unknown
  <2>2. Weighted(c, env, {x}) = c[x] * env[x] + Weighted(c, env, {x} \ {x})
    <3>1. IsFiniteSet({x}) /\ Numbers(c, env, {x})
      BY <1>1, FS_Singleton DEF Numbers
    <3> QED BY <3>1, WeightedStep
  <2>3. {x} \ {x} = {} /\ c[x] = 1
    OBVIOUS
  <2>4. Weighted(c, env, {x} \ {x}) = 0
    BY <2>3, WeightedEmpty
  <2>5. env[x] \in Int
    OBVIOUS
  <2> HIDE DEF c
  <2> QED BY <2>1, <2>2, <2>3, <2>4, <2>5
<1> QED BY <1>1, <1>2, AffineValue DEF Unknown

LEMMA ScaleValue ==
  ASSUME NEW N, NEW a, a.coef \in Coefs(N), a.const \in Int, NEW k \in Int
  PROVE  /\ Scale(a, k) \in AffineTerms(N)
         /\ \A env \in [N -> Int] : Value(Scale(a, k), env) = k * Value(a, env)
<1> DEFINE c == a.coef
           e == [x \in DOMAIN c |-> k * c[x]]
<1>1. c \in [DOMAIN c -> Int] /\ DOMAIN c \in SUBSET N /\ IsFiniteSet(DOMAIN c)
  BY CoefsAre
<1>2. DOMAIN e = DOMAIN c /\ e \in [DOMAIN c -> Int] /\ \A x \in DOMAIN c : e[x] = k * c[x]
  BY <1>1
<1>3. e \in Coefs(N)
  <2> HIDE DEF e, c
  <2>1. e \in [DOMAIN e -> Int] /\ DOMAIN e \in SUBSET N /\ IsFiniteSet(DOMAIN e)
    BY <1>1, <1>2
  <2> QED BY <2>1, CoefsAre
<1>4. Scale(a, k) = Affine(e, k * a.const) /\ k * a.const \in Int
  BY DEF Scale
<1>5. ASSUME NEW env \in [N -> Int] PROVE Value(Scale(a, k), env) = k * Value(a, env)
  <2> DEFINE w == Weighted(c, env, DOMAIN c)
             v == a.const
  <2>1. Value(Scale(a, k), env) = Weighted(e, env, DOMAIN e) + k * v
    BY <1>3, <1>4, AffineValue
  <2>2. Numbers(c, env, DOMAIN c) /\ w \in Int
    BY CoefsWeigh
  <2>3. Weighted(e, env, DOMAIN c) = k * w
    <3> HIDE DEF e, c
    <3> QED BY <1>1, <1>2, <2>2, WeightedScale
  <2>4. Value(a, env) = w + v
    BY ValueIs
  <2>5. v \in Int /\ Weighted(e, env, DOMAIN e) = k * w
    BY <1>2, <2>3
  <2> HIDE DEF w, v, e
  <2>6. k * (w + v) = k * w + k * v
    BY <2>2, <2>5
  <2> QED BY <2>1, <2>4, <2>5, <2>6
<1> QED BY <1>3, <1>4, <1>5, AffineValue

LEMMA AddValue ==
  ASSUME NEW N, NEW a, a.coef \in Coefs(N), a.const \in Int,
         NEW b, b.coef \in Coefs(N), b.const \in Int
  PROVE  /\ Add(a, b) \in AffineTerms(N)
         /\ \A env \in [N -> Int] : Value(Add(a, b), env) = Value(a, env) + Value(b, env)
<1> DEFINE c == a.coef
           d == b.coef
           D == DOMAIN c \cup DOMAIN d
           p == [x \in D |-> At(c, x)]
           q == [x \in D |-> At(d, x)]
           e == [x \in D |-> At(c, x) + At(d, x)]
<1>1. /\ c \in [DOMAIN c -> Int] /\ DOMAIN c \in SUBSET N /\ IsFiniteSet(DOMAIN c)
      /\ d \in [DOMAIN d -> Int] /\ DOMAIN d \in SUBSET N /\ IsFiniteSet(DOMAIN d)
  BY CoefsAre
<1>2. IsFiniteSet(D) /\ D \in SUBSET N
  BY <1>1, FS_Union
<1>3. \A x \in D : At(c, x) \in Int /\ At(d, x) \in Int
  BY <1>1 DEF At
<1>4. /\ \A x \in D : p[x] = At(c, x) /\ q[x] = At(d, x) /\ e[x] = p[x] + q[x]
      /\ DOMAIN e = D /\ e \in [D -> Int]
  BY <1>3
<1>5. e \in Coefs(N)
  <2> HIDE DEF e, D
  <2>1. e \in [DOMAIN e -> Int] /\ DOMAIN e \in SUBSET N /\ IsFiniteSet(DOMAIN e)
    BY <1>2, <1>4
  <2> QED BY <2>1, CoefsAre
<1>6. Add(a, b) = Affine(e, a.const + b.const) /\ a.const + b.const \in Int
  BY DEF Add
<1>7. ASSUME NEW env \in [N -> Int] PROVE Value(Add(a, b), env) = Value(a, env) + Value(b, env)
  <2>1. Value(Add(a, b), env) = Weighted(e, env, D) + (a.const + b.const)
    BY <1>4, <1>5, <1>6, AffineValue
  <2>2. Numbers(p, env, D) /\ Numbers(q, env, D)
    BY <1>2, <1>3, <1>4 DEF Numbers
  <2>3. Weighted(e, env, D) = Weighted(p, env, D) + Weighted(q, env, D)
    <3> HIDE DEF e, p, q, D
    <3> QED BY <1>2, <1>4, <2>2, WeightedAdd
  <2>4. Weighted(p, env, D) = Weighted(c, env, DOMAIN c)
    <3>1. \A x \in DOMAIN c : c[x] = p[x]
      BY <1>4 DEF At
    <3>2. \A x \in D \ DOMAIN c : p[x] = 0
      BY <1>4 DEF At
    <3>3. DOMAIN c \in SUBSET D /\ Numbers(c, env, DOMAIN c)
      BY CoefsWeigh
    <3> HIDE DEF p, D, c
    <3> QED BY <1>2, <2>2, <3>1, <3>2, <3>3, WeightedSupport
  <2>5. Weighted(q, env, D) = Weighted(d, env, DOMAIN d)
    <3>1. \A x \in DOMAIN d : d[x] = q[x]
      BY <1>4 DEF At
    <3>2. \A x \in D \ DOMAIN d : q[x] = 0
      BY <1>4 DEF At
    <3>3. DOMAIN d \in SUBSET D /\ Numbers(d, env, DOMAIN d)
      BY CoefsWeigh
    <3> HIDE DEF q, D, d
    <3> QED BY <1>2, <2>2, <3>1, <3>2, <3>3, WeightedSupport
  <2>6. Value(a, env) = Weighted(c, env, DOMAIN c) + a.const
    BY ValueIs
  <2>7. Value(b, env) = Weighted(d, env, DOMAIN d) + b.const
    BY ValueIs
  <2>8. Weighted(c, env, DOMAIN c) \in Int /\ Weighted(d, env, DOMAIN d) \in Int
    BY CoefsWeigh
  <2> HIDE DEF c, d, D, e, p, q
  <2> QED BY <2>1, <2>3, <2>4, <2>5, <2>6, <2>7, <2>8
<1> QED BY <1>5, <1>6, <1>7, AffineValue

LEMMA TermParts == ASSUME NEW N, NEW a \in AffineTerms(N)
                   PROVE  a.st = "ok" /\ a.coef \in Coefs(N) /\ a.const \in Int
BY DEF AffineTerms

AreSums(g, n, a) == g = [k \in 0..n |-> IF k = 0 THEN Constant(0) ELSE Add(g[k - 1], a[k])]

LEMMA SumsExist == ASSUME NEW n \in Nat, NEW a PROVE \E g : AreSums(g, n, a)
<1> DEFINE S == {k \in 0..n : \E g : AreSums(g, k, a)}
<1>1. 0 \in S
  <2>1. AreSums([k \in 0..0 |-> Constant(0)], 0, a)
    BY DEF AreSums
  <2> QED BY <2>1
<1>2. ASSUME NEW k \in 1..n, k - 1 \in S PROVE k \in S
  <2>1. PICK g : AreSums(g, k - 1, a)
    BY <1>2
  <2> DEFINE h == [l \in 0..k |-> IF l = k THEN Add(g[k - 1], a[k]) ELSE g[l]]
  <2>2. \A l \in 0..k : h[l] = IF l = 0 THEN Constant(0) ELSE Add(h[l - 1], a[l])
    BY <2>1 DEF AreSums
  <2>3. AreSums(h, k, a)
    BY <2>2 DEF AreSums
  <2> QED BY <2>3
<1>3. n \in S
  <2> HIDE DEF S
  <2> QED BY <1>1, <1>2, UpTo
<1> QED BY <1>3

LEMMA AddAllIs == ASSUME NEW a, Len(a) \in Nat
                  PROVE  \E g : AreSums(g, Len(a), a) /\ AddAll(a) = g[Len(a)]
<1> DEFINE g == CHOOSE h : AreSums(h, Len(a), a)
<1>1. AreSums(g, Len(a), a)
  BY SumsExist, Zenon
<1>2. AddAll(a) = g[Len(a)]
  BY Zenon DEF AddAll, AreSums
<1> QED BY <1>1, <1>2

\* n is w[1] + ... + w[Len(w)].
IsSum(n, w) == \E s \in [0..Len(w) -> Int] : /\ s[0] = 0
                                             /\ \A k \in 1..Len(w) : s[k] = s[k - 1] + w[k]
                                             /\ n = s[Len(w)]

LEMMA AddAllValue ==
  ASSUME NEW N, NEW env \in [N -> Int], NEW a, Len(a) \in Nat,
         \A i \in 1..Len(a) : a[i] \in AffineTerms(N),
         NEW w, Len(w) = Len(a), \A i \in 1..Len(a) : w[i] = Value(a[i], env),
         NEW n, IsSum(n, w)
  PROVE  AddAll(a) \in AffineTerms(N) /\ Value(AddAll(a), env) = n
<1> DEFINE m == Len(a)
<1>0. m \in Nat
  OBVIOUS
<1>1. PICK g : AreSums(g, m, a) /\ AddAll(a) = g[m]
  BY AddAllIs
<1>2. PICK s \in [0..m -> Int] : s[0] = 0 /\ (\A k \in 1..m : s[k] = s[k - 1] + w[k]) /\ n = s[m]
  BY DEF IsSum
<1> DEFINE S == {k \in 0..m : g[k] \in AffineTerms(N) /\ Value(g[k], env) = s[k]}
<1>3. 0 \in S
  <2>1. g[0] = Constant(0)
    BY <1>1 DEF AreSums
  <2>2. 0 \in Int
    OBVIOUS
  <2> QED BY <1>2, <2>1, <2>2, ConstantValue
<1>4. ASSUME NEW k \in 1..m, k - 1 \in S PROVE k \in S
  <2>1. g[k] = Add(g[k - 1], a[k])
    <3>1. k \in 0..m /\ k # 0
      BY <1>0
    <3> HIDE DEF m
    <3> QED BY <1>1, <3>1 DEF AreSums
  <2>2. /\ g[k - 1].coef \in Coefs(N) /\ g[k - 1].const \in Int
        /\ a[k].coef \in Coefs(N) /\ a[k].const \in Int
    BY <1>4, TermParts
  <2>3. /\ Add(g[k - 1], a[k]) \in AffineTerms(N)
        /\ Value(Add(g[k - 1], a[k]), env) = Value(g[k - 1], env) + Value(a[k], env)
    BY <2>2, AddValue
  <2>4. Value(g[k - 1], env) = s[k - 1] /\ Value(a[k], env) = w[k] /\ s[k] = s[k - 1] + w[k]
    BY <1>2, <1>4
  <2>5. g[k] \in AffineTerms(N) /\ Value(g[k], env) = s[k]
    BY <2>1, <2>3, <2>4
  <2> QED BY <2>5
<1>5. m \in S
  <2> HIDE DEF S, m
  <2>1. \A k \in 0..m : k \in S
    BY <1>0, <1>3, <1>4, UpTo
  <2> QED BY <1>0, <2>1
<1> QED BY <1>1, <1>2, <1>5

LEMMA NoNames == ASSUME NEW N, NEW a \in AffineTerms(N), a.coef = << >>, NEW env \in [N -> Int]
                 PROVE  Value(a, env) = a.const
<1>1. DOMAIN a.coef = {}
  <2> DEFINE c == << >>
  <2>1. DOMAIN c = {}
    OBVIOUS
  <2> QED BY <2>1
<1>2. Weighted(a.coef, env, DOMAIN a.coef) = 0
  BY <1>1, WeightedEmpty
<1>3. a.const \in Int
  BY TermParts
<1> QED BY <1>2, <1>3, ValueIs

LEMMA ProductValue ==
  ASSUME NEW N, NEW env \in [N -> Int], NEW a \in AffineTerms(N), NEW b \in AffineTerms(N),
         Product(a, b).st = "ok"
  PROVE  /\ Product(a, b) \in AffineTerms(N)
         /\ Value(Product(a, b), env) = Value(a, env) * Value(b, env)
<1>1. /\ a.coef \in Coefs(N) /\ a.const \in Int
      /\ b.coef \in Coefs(N) /\ b.const \in Int
  BY TermParts
<1>2. Value(a, env) \in Int /\ Value(b, env) \in Int
  BY <1>1, ValueType
<1>3. CASE a.coef = << >>
  <2>1. Product(a, b) = Scale(b, a.const)
    BY <1>3 DEF Product
  <2>2. Value(a, env) = a.const
    BY <1>3, NoNames
  <2> QED BY <1>1, <2>1, <2>2, ScaleValue
<1>4. CASE a.coef # << >> /\ b.coef = << >>
  <2>1. Product(a, b) = Scale(a, b.const)
    BY <1>4 DEF Product
  <2>2. Value(b, env) = b.const
    BY <1>4, NoNames
  <2>3. Scale(a, b.const) \in AffineTerms(N)
        /\ Value(Scale(a, b.const), env) = b.const * Value(a, env)
    BY <1>1, ScaleValue
  <2>4. b.const * Value(a, env) = Value(a, env) * b.const
    BY <1>1, <1>2
  <2> QED BY <2>1, <2>2, <2>3, <2>4
<1>5. CASE a.coef # << >> /\ b.coef # << >>
  <2>1. Product(a, b) = Thrown("nla")
    BY <1>5 DEF Product
  <2>2. Product(a, b).st = "nla"
    BY <2>1 DEF Thrown
  <2> QED BY <2>2
<1> QED BY <1>3, <1>4, <1>5

LEMMA MinIn == ASSUME NEW T \in SUBSET Nat, T # {} PROVE Min(T) \in T
<1>1. \E k \in T : \A l \in T : k <= l
  BY NatLeast
<1> QED BY <1>1 DEF Min

----------------------------------------------------------------------------
(* Expressions.                                                             *)

\* What the term t means, the integers w being what its arguments mean.
IsWorth(t, w, env, n) ==
  /\ t.op = "num" => n = t.n
  /\ t.op = "var" => n = env[t.name]
  /\ t.op = "+" => IsSum(n, w)
  /\ t.op = "-" /\ Len(w) = 1 => n = -w[1]
  /\ t.op = "-" /\ Len(w) = 2 => n = w[1] - w[2]
  /\ t.op = "*" /\ Len(w) = 2 => n = w[1] * w[2]

\* The leaves of expressions are integers and the names in N.
LeafOver(t, N) == (t.op = "num" => t.n \in Int) /\ (t.op = "var" => t.name \in N)

LEMMA ArithExprValue ==
  ASSUME NEW N, NEW env \in [N -> Int], NEW t, LeafOver(t, N), NEW m \in Nat,
         NEW a, Len(a) = m, DOMAIN a = 1..m, NEW w, Len(w) = m,
         \A i \in 1..m : a[i].st = "ok" => a[i] \in AffineTerms(N) /\ Value(a[i], env) = w[i],
         NEW n, IsWorth(t, w, env, n),
         ArithExpr(t, a).st = "ok"
  PROVE  ArithExpr(t, a) \in AffineTerms(N) /\ Value(ArithExpr(t, a), env) = n
<1> DEFINE thrown == {i \in DOMAIN a : a[i].st # "ok"}
           Goal == ArithExpr(t, a) \in AffineTerms(N) /\ Value(ArithExpr(t, a), env) = n
<1> SUFFICES Goal
  OBVIOUS
<1>1. thrown # {} => a[Min(thrown)].st # "ok"
  <2>1. thrown \in SUBSET Nat
    OBVIOUS
  <2>2. thrown # {} => Min(thrown) \in thrown
    BY <2>1, MinIn
  <2> QED BY <2>2
<1>2. thrown = {} => \A i \in 1..m : a[i] \in AffineTerms(N) /\ Value(a[i], env) = w[i]
  OBVIOUS
<1> HIDE DEF thrown
<1>3. CASE t.op = "num"
  <2>1. ArithExpr(t, a) = Constant(t.n)
    BY <1>3 DEF ArithExpr
  <2>2. t.n \in Int /\ n = t.n
    BY <1>3 DEF LeafOver, IsWorth
  <2> QED BY <2>1, <2>2, ConstantValue
<1>4. CASE t.op = "var"
  <2>1. ArithExpr(t, a) = Unknown(t.name)
    BY <1>4 DEF ArithExpr
  <2>2. t.name \in N /\ n = env[t.name]
    BY <1>4 DEF LeafOver, IsWorth
  <2> QED BY <2>1, <2>2, UnknownValue
<1>5. CASE t.op = "+"
  <2>1. ArithExpr(t, a) = IF thrown = {} THEN AddAll(a) ELSE a[Min(thrown)]
    BY <1>5 DEF ArithExpr, thrown
  <2>2. thrown = {}
    BY <1>1, <2>1
  <2>3. IsSum(n, w)
    BY <1>5 DEF IsWorth
  <2>4. AddAll(a) \in AffineTerms(N) /\ Value(AddAll(a), env) = n
    BY <1>2, <2>2, <2>3, AddAllValue
  <2> QED BY <2>1, <2>2, <2>4
<1>6. CASE t.op = "-" /\ m = 1
  <2>1. ArithExpr(t, a) = IF thrown = {} THEN Scale(a[1], -1) ELSE a[Min(thrown)]
    BY <1>6 DEF ArithExpr, thrown
  <2>2. thrown = {}
    BY <1>1, <2>1
  <2>3. a[1] \in AffineTerms(N) /\ Value(a[1], env) = w[1]
    BY <1>2, <1>6, <2>2
  <2>4. a[1].coef \in Coefs(N) /\ a[1].const \in Int /\ w[1] \in Int
    BY <2>3, TermParts, ValueType
  <2>5. Scale(a[1], -1) \in AffineTerms(N) /\ Value(Scale(a[1], -1), env) = (-1) * w[1]
    BY <2>3, <2>4, ScaleValue
  <2>6. n = -w[1]
    BY <1>6 DEF IsWorth
  <2> QED BY <2>1, <2>2, <2>4, <2>5, <2>6
<1>7. CASE t.op = "-" /\ m = 2
  <2> DEFINE b == Scale(a[2], -1)
  <2>1. ArithExpr(t, a) = IF thrown = {} THEN Add(a[1], b) ELSE a[Min(thrown)]
    BY <1>7 DEF ArithExpr, thrown
  <2>2. thrown = {}
    BY <1>1, <2>1
  <2>3. /\ a[1] \in AffineTerms(N) /\ Value(a[1], env) = w[1]
        /\ a[2] \in AffineTerms(N) /\ Value(a[2], env) = w[2]
    BY <1>2, <1>7, <2>2
  <2>4. /\ a[1].coef \in Coefs(N) /\ a[1].const \in Int /\ w[1] \in Int
        /\ a[2].coef \in Coefs(N) /\ a[2].const \in Int /\ w[2] \in Int
    BY <2>3, TermParts, ValueType
  <2>5. b \in AffineTerms(N) /\ Value(b, env) = (-1) * w[2]
    <3>1. -1 \in Int
      OBVIOUS
    <3>2. Scale(a[2], -1) \in AffineTerms(N) /\ Value(Scale(a[2], -1), env) = (-1) * Value(a[2], env)
      BY <2>4, <3>1, ScaleValue
    <3> QED BY <2>3, <3>2
  <2>6. Add(a[1], b) \in AffineTerms(N) /\ Value(Add(a[1], b), env) = w[1] + (-1) * w[2]
    <3> HIDE DEF b
    <3>1. b.coef \in Coefs(N) /\ b.const \in Int
      BY <2>5, TermParts
    <3>2. /\ Add(a[1], b) \in AffineTerms(N)
          /\ Value(Add(a[1], b), env) = Value(a[1], env) + Value(b, env)
      BY <2>4, <3>1, AddValue
    <3> QED BY <2>3, <2>5, <3>2
  <2>7. n = w[1] - w[2]
    BY <1>7 DEF IsWorth
  <2> HIDE DEF b
  <2> QED BY <2>1, <2>2, <2>4, <2>6, <2>7
<1>8. CASE t.op = "*" /\ m = 2
  <2>1. ArithExpr(t, a) = IF thrown = {} THEN Product(a[1], a[2]) ELSE a[Min(thrown)]
    BY <1>8 DEF ArithExpr, thrown
  <2>2. thrown = {}
    BY <1>1, <2>1
  <2>3. /\ a[1] \in AffineTerms(N) /\ Value(a[1], env) = w[1]
        /\ a[2] \in AffineTerms(N) /\ Value(a[2], env) = w[2]
    BY <1>2, <1>8, <2>2
  <2>4. n = w[1] * w[2]
    BY <1>8 DEF IsWorth
  <2>5. Product(a[1], a[2]).st = "ok"
    BY <2>1, <2>2
  <2>6. /\ Product(a[1], a[2]) \in AffineTerms(N)
        /\ Value(Product(a[1], a[2]), env) = Value(a[1], env) * Value(a[2], env)
    BY <2>3, <2>5, ProductValue
  <2> QED BY <2>1, <2>2, <2>3, <2>4, <2>6
<1>9. CASE t.op = "*" /\ m # 2
  <2>1. ArithExpr(t, a) = Thrown("nla")
    BY <1>9 DEF ArithExpr
  <2> QED BY <2>1 DEF Thrown
<1>10. CASE /\ t.op \notin {"num", "var", "+", "*"}
            /\ ~(t.op = "-" /\ m = 1)
            /\ ~(t.op = "-" /\ m = 2)
  <2>1. ArithExpr(t, a) = Thrown("error")
    BY <1>10 DEF ArithExpr
  <2> QED BY <2>1 DEF Thrown
<1> HIDE DEF Goal
<1> QED BY <1>3, <1>4, <1>5, <1>6, <1>7, <1>8, <1>9, <1>10

----------------------------------------------------------------------------
(* Inequalities and polyhedra.                                              *)

Polys(N) == Seq(Inequalities(N))
DNFs(N) == Seq(Polys(N))

LEMMA IneqParts == ASSUME NEW N, NEW i \in Inequalities(N), NEW env \in [N -> Int]
                   PROVE  /\ i.coef \in Coefs(N) /\ i.const \in Int /\ i.strict \in BOOLEAN
                          /\ Value(i, env) \in Int
<1>1. i.coef \in Coefs(N) /\ i.const \in Int /\ i.strict \in BOOLEAN
  BY DEF Inequalities
<1> QED BY <1>1, ValueType

LEMMA InequalityOf ==
  ASSUME NEW N, NEW a \in AffineTerms(N), NEW s \in BOOLEAN
  PROVE  /\ Inequality(a, s) \in Inequalities(N)
         /\ \A env : Satisfied(Inequality(a, s), env)
                       <=> IF s THEN Value(a, env) > 0 ELSE Value(a, env) >= 0
<1> DEFINE i == Inequality(a, s)
<1>1. i.coef = a.coef /\ i.const = a.const /\ i.strict = s
  BY DEF Inequality
<1>2. i \in Inequalities(N)
  BY TermParts DEF Inequality, Inequalities
<1>3. ASSUME NEW env PROVE Value(i, env) = Value(a, env)
  <2>1. Value(i, env) = Weighted(i.coef, env, DOMAIN i.coef) + i.const
    BY ValueIs
  <2>2. Value(a, env) = Weighted(a.coef, env, DOMAIN a.coef) + a.const
    BY ValueIs
  <2> HIDE DEF i
  <2> QED BY <1>1, <2>1, <2>2
<1> HIDE DEF i
<1>4. \A env : Satisfied(i, env) <=> IF s THEN Value(a, env) > 0 ELSE Value(a, env) >= 0
  BY <1>1, <1>3 DEF Satisfied
<1> QED BY <1>2, <1>4 DEF i

\* The negation of an inequality holds exactly where it does not.
LEMMA NegatedIsNot ==
  ASSUME NEW N, NEW i \in Inequalities(N)
  PROVE  /\ Negated(i) \in Inequalities(N)
         /\ \A env \in [N -> Int] : Satisfied(Negated(i), env) <=> ~Satisfied(i, env)
<1>1. i.coef \in Coefs(N) /\ i.const \in Int /\ i.strict \in BOOLEAN
  BY DEF Inequalities
<1>2. -1 \in Int /\ (~i.strict) \in BOOLEAN
  BY <1>1
<1>3. Scale(i, -1) \in AffineTerms(N)
  BY <1>1, <1>2, ScaleValue
<1>4. ASSUME NEW env \in [N -> Int] PROVE Satisfied(Negated(i), env) <=> ~Satisfied(i, env)
  <2>1. Value(Scale(i, -1), env) = (-1) * Value(i, env)
    BY <1>1, <1>2, ScaleValue
  <2>2. Value(i, env) \in Int
    BY IneqParts
  <2>3. Satisfied(Negated(i), env)
          <=> IF ~i.strict THEN Value(Scale(i, -1), env) > 0 ELSE Value(Scale(i, -1), env) >= 0
    BY <1>2, <1>3, InequalityOf DEF Negated
  <2> QED BY <1>1, <2>1, <2>2, <2>3 DEF Satisfied
<1> QED BY <1>2, <1>3, <1>4, InequalityOf DEF Negated

LEMMA TautologyHolds ==
  ASSUME NEW N
  PROVE  Tautology \in Inequalities(N) /\ \A env \in [N -> Int] : Satisfied(Tautology, env)
<1>1. 0 \in Int
  OBVIOUS
<1>2. Constant(0) \in AffineTerms(N) /\ \A env \in [N -> Int] : Value(Constant(0), env) = 0
  BY <1>1, ConstantValue
<1>3. Inequality(Constant(0), FALSE) \in Inequalities(N)
  BY <1>2, InequalityOf
<1>4. \A env : Satisfied(Inequality(Constant(0), FALSE), env) <=> Value(Constant(0), env) >= 0
  BY <1>2, InequalityOf
<1>5. ASSUME NEW env \in [N -> Int] PROVE Satisfied(Inequality(Constant(0), FALSE), env)
  <2>1. Value(Constant(0), env) = 0
    BY <1>2
  <2>2. (Value(Constant(0), env) >= 0)
    BY <2>1
  <2>3. Satisfied(Inequality(Constant(0), FALSE), env) <=> Value(Constant(0), env) >= 0
    BY <1>4
  <2> QED BY <2>2, <2>3, Zenon
<1> QED BY <1>3, <1>5, Zenon DEF Tautology

LEMMA ContradictionFails ==
  ASSUME NEW N
  PROVE  Contradiction \in Inequalities(N) /\ \A env \in [N -> Int] : ~Satisfied(Contradiction, env)
<1>1. -1 \in Int
  OBVIOUS
<1>2. Constant(-1) \in AffineTerms(N) /\ \A env \in [N -> Int] : Value(Constant(-1), env) = -1
  BY <1>1, ConstantValue
<1>3. Inequality(Constant(-1), FALSE) \in Inequalities(N)
  BY <1>2, InequalityOf
<1>4. \A env : Satisfied(Inequality(Constant(-1), FALSE), env) <=> Value(Constant(-1), env) >= 0
  BY <1>2, InequalityOf
<1>5. ASSUME NEW env \in [N -> Int] PROVE ~Satisfied(Inequality(Constant(-1), FALSE), env)
  <2>1. Value(Constant(-1), env) = -1
    BY <1>2
  <2>2. ~(Value(Constant(-1), env) >= 0)
    BY <2>1
  <2>3. Satisfied(Inequality(Constant(-1), FALSE), env) <=> Value(Constant(-1), env) >= 0
    BY <1>4
  <2> QED BY <2>2, <2>3, Zenon
<1> QED BY <1>3, <1>5, Zenon DEF Contradiction

LEMMA OneName == ASSUME NEW N, NEW env \in [N -> Int], NEW i \in Inequalities(N),
                        NEW x, DOMAIN i.coef = {x}
                 PROVE  /\ i.coef[x] \in Int /\ env[x] \in Int
                        /\ Value(i, env) = i.coef[x] * env[x] + i.const
<1>1. /\ i.coef \in [DOMAIN i.coef -> Int] /\ DOMAIN i.coef \in SUBSET N
      /\ i.const \in Int /\ i.coef \in Coefs(N)
  BY CoefsAre DEF Inequalities
<1>2. i.coef[x] \in Int /\ env[x] \in Int
  BY <1>1
<1>3. Weighted(i.coef, env, {x}) = i.coef[x] * env[x] + Weighted(i.coef, env, {x} \ {x})
  <2>1. IsFiniteSet({x}) /\ Numbers(i.coef, env, {x})
    BY <1>2, FS_Singleton DEF Numbers
  <2> QED BY <2>1, WeightedStep
<1>4. Weighted(i.coef, env, {x} \ {x}) = 0
  <2>1. {x} \ {x} = {}
    OBVIOUS
  <2> QED BY <2>1, WeightedEmpty
<1>5. i.coef[x] * env[x] \in Int
  BY <1>2
<1>6. Value(i, env) = Weighted(i.coef, env, {x}) + i.const
  BY ValueIs
<1> QED BY <1>1, <1>2, <1>3, <1>4, <1>5, <1>6

\* c*v + k >= 0 with c > 0, and d*v + l >= 0 with d < 0.
LEMMA BoundsCross ==
  ASSUME NEW c \in Int, NEW d \in Int, NEW k \in Int, NEW l \in Int, NEW v \in Int,
         c > 0, d < 0, c * v + k >= 0, d * v + l >= 0
  PROVE  ~(k * d > l * c)
<1> DEFINE p == c * v + k
           q == d * v + l
<1>1. p \in Int /\ q \in Int /\ p >= 0 /\ q >= 0
  OBVIOUS
<1>2. p * (-d) >= 0 /\ q * c >= 0
  <2> HIDE DEF p, q
  <2>1. \A a, b \in Int : a >= 0 /\ b >= 0 => a * b >= 0
    OBVIOUS
  <2>2. -d \in Int /\ -d >= 0 /\ c >= 0
    OBVIOUS
  <2> QED BY <1>1, <2>1, <2>2
<1>3. p * (-d) = -(c * (v * d)) - k * d
  OBVIOUS
<1>4. q * c = c * (v * d) + l * c
  OBVIOUS
<1>5. c * (v * d) \in Int /\ k * d \in Int /\ l * c \in Int
  OBVIOUS
<1> HIDE DEF p, q
<1> QED BY <1>2, <1>3, <1>4, <1>5

\* isTriviallyUnsat: the polyhedra that are dropped during distribution have no
\* solution, so that no execution of the line is dropped with them.
THEOREM UnsatIsEmpty ==
  ASSUME NEW N, NEW env \in [N -> Int], NEW poly \in Polys(N), IsTriviallyUnsat(poly)
  PROVE  ~Inside(poly, env)
<1>1. SUFFICES ASSUME Inside(poly, env) PROVE FALSE
  OBVIOUS
<1>2. \A i \in Range(poly) : i \in Inequalities(N) /\ Satisfied(i, env)
  BY <1>1 DEF Inside, Range, Polys
<1>3. CASE \E i \in Range(poly) : i.coef = <<>> /\ i.const < 0
  <2>1. PICK i \in Range(poly) : i.coef = <<>> /\ i.const < 0
    BY <1>3
  <2>2. i \in Inequalities(N) /\ Satisfied(i, env)
    BY <1>2
  <2>3. DOMAIN i.coef = {}
    <3> DEFINE c == << >>
    <3>1. DOMAIN c = {}
      OBVIOUS
    <3> QED BY <2>1, <3>1
  <2>4. Weighted(i.coef, env, DOMAIN i.coef) = 0
    BY <2>3, WeightedEmpty
  <2>5. i.const \in Int
    BY <2>2 DEF Inequalities
  <2>6. Value(i, env) < 0
    BY <2>1, <2>4, <2>5, ValueIs
  <2>7. Value(i, env) \in Int
    BY <2>2, IneqParts
  <2> QED BY <2>2, <2>6, <2>7 DEF Satisfied
<1>4. CASE \E i, j \in Range(poly) : \E x \in DOMAIN i.coef :
             /\ DOMAIN i.coef = {x} /\ DOMAIN j.coef = {x}
             /\ i.coef[x] > 0 /\ j.coef[x] < 0
             /\ i.const * j.coef[x] > j.const * i.coef[x]
  <2>0. PICK i \in Range(poly), j \in Range(poly) : \E x \in DOMAIN i.coef :
             /\ DOMAIN i.coef = {x} /\ DOMAIN j.coef = {x}
             /\ i.coef[x] > 0 /\ j.coef[x] < 0
             /\ i.const * j.coef[x] > j.const * i.coef[x]
    BY <1>4
  <2>1. PICK x \in DOMAIN i.coef :
             /\ DOMAIN i.coef = {x} /\ DOMAIN j.coef = {x}
             /\ i.coef[x] > 0 /\ j.coef[x] < 0
             /\ i.const * j.coef[x] > j.const * i.coef[x]
    BY <2>0
  <2>2. /\ i \in Inequalities(N) /\ Satisfied(i, env)
        /\ j \in Inequalities(N) /\ Satisfied(j, env)
    BY <1>2
  <2>3. /\ i.coef[x] \in Int /\ env[x] \in Int
        /\ Value(i, env) = i.coef[x] * env[x] + i.const
    BY <2>1, <2>2, OneName
  <2>4. j.coef[x] \in Int /\ Value(j, env) = j.coef[x] * env[x] + j.const
    BY <2>1, <2>2, OneName
  <2>5. /\ Value(i, env) \in Int /\ Value(j, env) \in Int
        /\ i.const \in Int /\ j.const \in Int
    BY <2>2, IneqParts
  <2>6. Value(i, env) >= 0 /\ Value(j, env) >= 0
    BY <2>2, <2>5 DEF Satisfied
  <2>7. i.coef[x] * env[x] + i.const >= 0 /\ j.coef[x] * env[x] + j.const >= 0
    BY <2>3, <2>4, <2>6
  <2>8. ~(i.const * j.coef[x] > j.const * i.coef[x])
    BY <2>1, <2>3, <2>4, <2>5, <2>7, BoundsCross
  <2> QED BY <2>1, <2>8
<1> QED BY <1>3, <1>4 DEF IsTriviallyUnsat

----------------------------------------------------------------------------
(* Flattened sequences.                                                     *)

Member(x, s) == \E k \in DOMAIN s : s[k] = x

IsFlattening(g, n, s) == g = [i \in 1..n |-> IF i = 1 THEN s[i] ELSE g[i - 1] \o s[i]]

LEMMA FlatteningExists == ASSUME NEW n \in Nat, NEW s PROVE \E g : IsFlattening(g, n, s)
<1> DEFINE S == {k \in 0..n : \E g : IsFlattening(g, k, s)}
<1>1. 0 \in S
  <2>1. IsFlattening([i \in 1..0 |-> s[i]], 0, s)
    BY DEF IsFlattening
  <2> QED BY <2>1
<1>2. ASSUME NEW k \in 1..n, k - 1 \in S PROVE k \in S
  <2>1. PICK g : IsFlattening(g, k - 1, s)
    BY <1>2
  <2> DEFINE h == [i \in 1..k |-> IF i = k THEN IF k = 1 THEN s[1] ELSE g[k - 1] \o s[k] ELSE g[i]]
  <2>2. ASSUME NEW i \in 1..k PROVE h[i] = IF i = 1 THEN s[i] ELSE h[i - 1] \o s[i]
    <3>1. CASE i = k /\ k = 1
      BY <3>1
    <3>2. CASE i = k /\ k # 1
      <4>1. k - 1 \in 1..k /\ k - 1 # k
        BY <3>2
      <4> QED BY <3>2, <4>1
    <3>3. CASE i # k
      <4>1. i \in 1..k - 1 /\ (i # 1 => i - 1 \in 1..k - 1 /\ i - 1 # k)
        BY <3>3
      <4>2. g[i] = IF i = 1 THEN s[i] ELSE g[i - 1] \o s[i]
        BY <2>1, <4>1 DEF IsFlattening
      <4> QED BY <3>3, <4>1, <4>2
    <3> QED BY <3>1, <3>2, <3>3
  <2>3. IsFlattening(h, k, s)
    BY <2>2 DEF IsFlattening
  <2> QED BY <2>3
<1>3. n \in S
  <2> HIDE DEF S
  <2> QED BY <1>1, <1>2, UpTo
<1> QED BY <1>3

LEMMA FlattenIs ==
  ASSUME NEW s, Len(s) \in Nat \ {0}
  PROVE  \E g : IsFlattening(g, Len(s), s) /\ FlattenSeq(s) = g[Len(s)]
<1> DEFINE g == CHOOSE h : IsFlattening(h, Len(s), s)
<1>1. IsFlattening(g, Len(s), s)
  BY FlatteningExists, Zenon
<1>2. Len(s) # 0
  OBVIOUS
<1>3. FlattenSeq(s) = g[Len(s)]
  BY <1>2, Zenon DEF FlattenSeq, IsFlattening
<1> QED BY <1>1, <1>3

LEMMA ConcatMembers ==
  ASSUME NEW T, NEW s \in Seq(T), NEW t \in Seq(T)
  PROVE  s \o t \in Seq(T) /\ \A x : Member(x, s \o t) <=> Member(x, s) \/ Member(x, t)
<1>1. /\ s \o t \in Seq(T)
      /\ Len(s \o t) = Len(s) + Len(t)
      /\ \A i \in 1..Len(s) + Len(t) : (s \o t)[i] = IF i <= Len(s) THEN s[i] ELSE t[i - Len(s)]
  BY ConcatProperties
<1>2. /\ DOMAIN s = 1..Len(s) /\ DOMAIN t = 1..Len(t) /\ DOMAIN (s \o t) = 1..Len(s) + Len(t)
      /\ Len(s) \in Nat /\ Len(t) \in Nat
  BY <1>1, LenProperties
<1> DEFINE u == s \o t
           m == Len(s)
           n == Len(t)
<1> HIDE DEF u, m, n
<1>3. ASSUME NEW x PROVE Member(x, u) <=> Member(x, s) \/ Member(x, t)
  <2>1. ASSUME Member(x, u) PROVE Member(x, s) \/ Member(x, t)
    <3>1. PICK i \in 1..m + n : u[i] = x
      BY <1>2, <2>1 DEF Member, u, m, n
    <3>2. CASE i <= m
      <4>1. i \in DOMAIN s /\ s[i] = x
        BY <1>1, <1>2, <3>1, <3>2 DEF u, m, n
      <4> QED BY <4>1 DEF Member
    <3>3. CASE ~(i <= m)
      <4>1. i - m \in DOMAIN t /\ t[i - m] = x
        BY <1>1, <1>2, <3>1, <3>3 DEF u, m, n
      <4> QED BY <4>1 DEF Member
    <3> QED BY <3>2, <3>3
  <2>2. ASSUME Member(x, s) PROVE Member(x, u)
    <3>1. PICK i \in 1..m : s[i] = x
      BY <1>2, <2>2 DEF Member, m
    <3>2. i \in DOMAIN u /\ u[i] = x
      BY <1>1, <1>2, <3>1 DEF u, m, n
    <3> QED BY <3>2 DEF Member
  <2>3. ASSUME Member(x, t) PROVE Member(x, u)
    <3>1. PICK i \in 1..n : t[i] = x
      BY <1>2, <2>3 DEF Member, n
    <3>2. i + m \in DOMAIN u /\ u[i + m] = t[(i + m) - m] /\ (i + m) - m = i
      BY <1>1, <1>2, <3>1 DEF u, m, n
    <3>3. u[i + m] = x
      BY <3>1, <3>2
    <3> QED BY <3>2, <3>3 DEF Member
  <2> QED BY <2>1, <2>2, <2>3
<1> QED BY <1>1, <1>3 DEF u

LEMMA FlattenMembers ==
  ASSUME NEW T, NEW s \in Seq(Seq(T))
  PROVE  /\ FlattenSeq(s) \in Seq(T)
         /\ \A x : Member(x, FlattenSeq(s)) <=> \E i \in DOMAIN s : Member(x, s[i])
<1> DEFINE n == Len(s)
<1>1. n \in Nat /\ DOMAIN s = 1..n /\ \A i \in 1..n : s[i] \in Seq(T)
  BY LenProperties, ElementOfSeq
<1>2. CASE n = 0
  <2>1. FlattenSeq(s) = s /\ DOMAIN s = {} /\ s = << >>
    BY <1>1, <1>2, EmptySeq DEF FlattenSeq
  <2> QED BY <2>1 DEF Member
<1>3. CASE n # 0
  <2>1. PICK g : IsFlattening(g, n, s) /\ FlattenSeq(s) = g[n]
    BY <1>1, <1>3, FlattenIs
  <2> DEFINE K == {k \in 0..n : k # 0 => /\ g[k] \in Seq(T)
                                         /\ \A x : Member(x, g[k]) <=> \E i \in 1..k : Member(x, s[i])}
  <2>2. 0 \in K
    BY <1>1
  <2> HIDE DEF n
  <2>3. ASSUME NEW k \in 1..n, k - 1 \in K PROVE k \in K
    <3>1. k \in Nat /\ k # 0 /\ s[k] \in Seq(T)
      BY <1>1
    <3>2. CASE k = 1
      <4>1. g[1] = s[1] /\ 1..1 = {1}
        BY <2>1, <3>2 DEF IsFlattening
      <4> QED BY <3>1, <3>2, <4>1
    <3>3. CASE k # 1
      <4>1. g[k] = g[k - 1] \o s[k]
        BY <2>1, <3>3 DEF IsFlattening
      <4>2. /\ g[k - 1] \in Seq(T)
            /\ \A x : Member(x, g[k - 1]) <=> \E i \in 1..k - 1 : Member(x, s[i])
        BY <2>3, <3>1, <3>3
      <4>3. g[k] \in Seq(T) /\ \A x : Member(x, g[k]) <=> Member(x, g[k - 1]) \/ Member(x, s[k])
        BY <3>1, <4>1, <4>2, ConcatMembers
      <4>4. \A i : i \in 1..k <=> i \in 1..k - 1 \/ i = k
        BY <3>1
      <4>5. ASSUME NEW x PROVE Member(x, g[k]) <=> \E i \in 1..k : Member(x, s[i])
        BY <4>2, <4>3, <4>4
      <4> QED BY <4>3, <4>5
    <3> QED BY <3>2, <3>3
  <2>4. n \in K
    <3> HIDE DEF K
    <3>1. \A k \in 0..n : k \in K
      BY <1>1, <2>2, <2>3, UpTo
    <3> QED BY <1>1, <3>1
  <2> QED BY <1>1, <1>3, <2>1, <2>4
<1> QED BY <1>2, <1>3

----------------------------------------------------------------------------
(* Conjunction and negation of DNFs.                                        *)

LEMMA FunctionIsSeq == ASSUME NEW T, NEW n \in Nat, NEW f \in [1..n -> T]
                       PROVE  f \in Seq(T) /\ Len(f) = n /\ DOMAIN f = 1..n
<1>1. f \in Seq(T)
  BY SeqDef
<1>2. DOMAIN f = 1..n /\ DOMAIN f = 1..Len(f) /\ Len(f) \in Nat
  BY <1>1, LenProperties
<1> QED BY <1>1, <1>2

LEMMA InsideMembers == ASSUME NEW p, NEW env
                       PROVE  Inside(p, env) <=> \A x : Member(x, p) => Satisfied(x, env)
BY DEF Inside, Member

LEMMA HoldsMembers == ASSUME NEW d, NEW env
                      PROVE  DNFHolds(d, env) <=> \E p : Member(p, d) /\ Inside(p, env)
BY DEF DNFHolds, Member

LEMMA InsideConcat ==
  ASSUME NEW N, NEW p \in Polys(N), NEW q \in Polys(N), NEW env
  PROVE  /\ p \o q \in Polys(N)
         /\ Inside(p \o q, env) <=> Inside(p, env) /\ Inside(q, env)
<1>1. p \o q \in Polys(N) /\ \A x : Member(x, p \o q) <=> Member(x, p) \/ Member(x, q)
  BY ConcatMembers DEF Polys
<1> QED BY <1>1, InsideMembers

LEMMA BothMembers ==
  ASSUME NEW N, NEW d \in DNFs(N), NEW e \in DNFs(N)
  PROVE  /\ Both(d, e) \in DNFs(N)
         /\ \A r : Member(r, Both(d, e)) <=>
              \E i \in DOMAIN d, j \in DOMAIN e : r = d[i] \o e[j] /\ ~IsTriviallyUnsat(r)
<1> DEFINE P == Polys(N)
           combined(p, q) == IF IsTriviallyUnsat(p \o q) THEN <<>> ELSE <<p \o q>>
           row(p) == [j \in DOMAIN e |-> combined(p, e[j])]
           rows == [i \in DOMAIN d |-> FlattenSeq(row(d[i]))]
<1>1. /\ Len(d) \in Nat /\ DOMAIN d = 1..Len(d) /\ \A i \in DOMAIN d : d[i] \in P
      /\ Len(e) \in Nat /\ DOMAIN e = 1..Len(e) /\ \A j \in DOMAIN e : e[j] \in P
  BY LenProperties, ElementOfSeq DEF DNFs
<1>2. ASSUME NEW p \in P, NEW q \in P
      PROVE  /\ combined(p, q) \in Seq(P)
             /\ \A r : Member(r, combined(p, q)) <=> r = p \o q /\ ~IsTriviallyUnsat(r)
  <2>1. p \o q \in P
    BY InsideConcat
  <2>2. CASE IsTriviallyUnsat(p \o q)
    <3> DEFINE c == << >>
    <3>1. combined(p, q) = c
      BY <2>2
    <3>2. c \in Seq(P) /\ DOMAIN c = {}
      BY EmptySeq
    <3> HIDE DEF c, combined
    <3>3. \A r : ~Member(r, c)
      BY <3>2 DEF Member
    <3> QED BY <2>2, <3>1, <3>2, <3>3
  <2>3. CASE ~IsTriviallyUnsat(p \o q)
    <3> DEFINE r0 == p \o q
    <3> HIDE DEF r0
    <3>1. combined(p, q) = <<r0>>
      BY <2>3 DEF r0
    <3>2. <<r0>> \in Seq(P)
      BY <2>1 DEF r0
    <3>3. \A r : Member(r, <<r0>>) <=> r = r0
      BY DEF Member
    <3> QED BY <2>3, <3>1, <3>2, <3>3 DEF r0
  <2> QED BY <2>2, <2>3
<1> HIDE DEF combined, P
<1>3. ASSUME NEW p \in P
      PROVE  /\ FlattenSeq(row(p)) \in Seq(P)
             /\ \A r : Member(r, FlattenSeq(row(p))) <=>
                  \E j \in DOMAIN e : r = p \o e[j] /\ ~IsTriviallyUnsat(r)
  <2>1. row(p) \in [1..Len(e) -> Seq(P)]
    BY <1>1, <1>2
  <2>2. row(p) \in Seq(Seq(P)) /\ DOMAIN row(p) = DOMAIN e
    <3> HIDE DEF row
    <3> QED BY <1>1, <2>1, FunctionIsSeq
  <2>3. \A j \in DOMAIN e : row(p)[j] = combined(p, e[j])
    OBVIOUS
  <2>4. /\ FlattenSeq(row(p)) \in Seq(P)
        /\ \A r : Member(r, FlattenSeq(row(p))) <=> \E j \in DOMAIN row(p) : Member(r, row(p)[j])
    <3> HIDE DEF row
    <3> QED BY <2>2, FlattenMembers
  <2> HIDE DEF row
  <2>5. \A r : Member(r, FlattenSeq(row(p))) <=> \E j \in DOMAIN e : Member(r, combined(p, e[j]))
    BY <2>2, <2>3, <2>4
  <2>6. \A j \in DOMAIN e : \A r : Member(r, combined(p, e[j])) <=> r = p \o e[j] /\ ~IsTriviallyUnsat(r)
    BY <1>1, <1>2
  <2> QED BY <2>4, <2>5, <2>6
<1> HIDE DEF row
<1>4. rows \in [1..Len(d) -> Seq(P)]
  BY <1>1, <1>3
<1>5. rows \in Seq(Seq(P)) /\ DOMAIN rows = DOMAIN d
  <2> HIDE DEF rows
  <2> QED BY <1>1, <1>4, FunctionIsSeq
<1>6. \A i \in DOMAIN d : rows[i] = FlattenSeq(row(d[i]))
  OBVIOUS
<1>7. Both(d, e) = FlattenSeq(rows)
  BY Zenon DEF Both, rows, row, combined
<1> HIDE DEF rows
<1>8. /\ FlattenSeq(rows) \in Seq(P)
      /\ \A r : Member(r, FlattenSeq(rows)) <=> \E i \in DOMAIN d : Member(r, FlattenSeq(row(d[i])))
  BY <1>5, <1>6, FlattenMembers
<1>9. \A i \in DOMAIN d : \A r :
        Member(r, FlattenSeq(row(d[i]))) <=>
          \E j \in DOMAIN e : r = d[i] \o e[j] /\ ~IsTriviallyUnsat(r)
  BY <1>1, <1>3
<1>10. ASSUME NEW r
       PROVE  Member(r, FlattenSeq(rows)) <=>
                \E i \in DOMAIN d, j \in DOMAIN e : r = d[i] \o e[j] /\ ~IsTriviallyUnsat(r)
  BY <1>8, <1>9
<1> QED BY <1>7, <1>8, <1>10 DEF DNFs, P

LEMMA BothHolds ==
  ASSUME NEW N, NEW env \in [N -> Int], NEW d \in DNFs(N), NEW e \in DNFs(N)
  PROVE  /\ Both(d, e) \in DNFs(N)
         /\ DNFHolds(Both(d, e), env) <=> DNFHolds(d, env) /\ DNFHolds(e, env)
<1>1. /\ \A i \in DOMAIN d : d[i] \in Polys(N)
      /\ \A j \in DOMAIN e : e[j] \in Polys(N)
  BY LenProperties, ElementOfSeq DEF DNFs
<1>2. /\ Both(d, e) \in DNFs(N)
      /\ \A r : Member(r, Both(d, e)) <=>
              \E i \in DOMAIN d, j \in DOMAIN e : r = d[i] \o e[j] /\ ~IsTriviallyUnsat(r)
  BY BothMembers
<1>3. ASSUME DNFHolds(Both(d, e), env) PROVE DNFHolds(d, env) /\ DNFHolds(e, env)
  <2>1. PICK r : Member(r, Both(d, e)) /\ Inside(r, env)
    BY <1>3, HoldsMembers
  <2>2. PICK i \in DOMAIN d, j \in DOMAIN e : r = d[i] \o e[j]
    BY <1>2, <2>1
  <2>3. Inside(d[i], env) /\ Inside(e[j], env)
    BY <1>1, <2>1, <2>2, InsideConcat
  <2> QED BY <2>3 DEF DNFHolds
<1>4. ASSUME DNFHolds(d, env), DNFHolds(e, env) PROVE DNFHolds(Both(d, e), env)
  <2>1. PICK i \in DOMAIN d : Inside(d[i], env)
    BY <1>4 DEF DNFHolds
  <2>2. PICK j \in DOMAIN e : Inside(e[j], env)
    BY <1>4 DEF DNFHolds
  <2> DEFINE r == d[i] \o e[j]
  <2>3. r \in Polys(N) /\ Inside(r, env)
    BY <1>1, <2>1, <2>2, InsideConcat
  <2>4. ~IsTriviallyUnsat(r)
    <3> HIDE DEF r
    <3> QED BY <2>3, UnsatIsEmpty
  <2>5. Member(r, Both(d, e))
    BY <1>2, <2>4
  <2> HIDE DEF r
  <2> QED BY <2>3, <2>5, HoldsMembers
<1> QED BY <1>2, <1>3, <1>4

IsProduct(g, n, s) == g = [i \in 1..n |-> IF i = 1 THEN s[1] ELSE Both(g[i - 1], s[i])]

LEMMA ProductExists == ASSUME NEW n \in Nat, NEW s PROVE \E g : IsProduct(g, n, s)
<1> DEFINE S == {k \in 0..n : \E g : IsProduct(g, k, s)}
<1>1. 0 \in S
  <2>1. IsProduct([i \in 1..0 |-> s[i]], 0, s)
    BY DEF IsProduct
  <2> QED BY <2>1
<1>2. ASSUME NEW k \in 1..n, k - 1 \in S PROVE k \in S
  <2>1. PICK g : IsProduct(g, k - 1, s)
    BY <1>2
  <2> DEFINE h == [i \in 1..k |-> IF i = k THEN IF k = 1 THEN s[1] ELSE Both(g[k - 1], s[k]) ELSE g[i]]
  <2>2. ASSUME NEW i \in 1..k PROVE h[i] = IF i = 1 THEN s[1] ELSE Both(h[i - 1], s[i])
    <3>1. CASE i = k /\ k = 1
      BY <3>1
    <3>2. CASE i = k /\ k # 1
      <4>1. k - 1 \in 1..k /\ k - 1 # k
        BY <3>2
      <4> QED BY <3>2, <4>1
    <3>3. CASE i # k
      <4>1. i \in 1..k - 1 /\ (i # 1 => i - 1 \in 1..k - 1 /\ i - 1 # k)
        BY <3>3
      <4>2. g[i] = IF i = 1 THEN s[1] ELSE Both(g[i - 1], s[i])
        BY <2>1, <4>1 DEF IsProduct
      <4> QED BY <3>3, <4>1, <4>2
    <3> QED BY <3>1, <3>2, <3>3
  <2>3. IsProduct(h, k, s)
    BY <2>2 DEF IsProduct
  <2> QED BY <2>3
<1>3. n \in S
  <2> HIDE DEF S
  <2> QED BY <1>1, <1>2, UpTo
<1> QED BY <1>3

\* distributeAND: the DNF it builds, without the polyhedra it drops, holds where
\* every operand of the conjunction does.
THEOREM DistributeHolds ==
  ASSUME NEW N, NEW env \in [N -> Int], NEW s \in Seq(DNFs(N))
  PROVE  /\ DistributeAND(s) \in DNFs(N)
         /\ DNFHolds(DistributeAND(s), env) <=> \A i \in DOMAIN s : DNFHolds(s[i], env)
<1> DEFINE n == Len(s)
<1>1. n \in Nat /\ DOMAIN s = 1..n /\ \A i \in 1..n : s[i] \in DNFs(N)
  BY LenProperties, ElementOfSeq
<1>2. CASE s = << >>
  <2> DEFINE p == << >>
  <2>1. DistributeAND(s) = <<p>> /\ DOMAIN s = {}
    BY <1>2 DEF DistributeAND
  <2>2. p \in Polys(N) /\ DOMAIN p = {}
    BY DEF Polys
  <2> HIDE DEF p
  <2>3. <<p>> \in DNFs(N) /\ Inside(p, env)
    BY <2>2 DEF DNFs, Inside
  <2>4. DNFHolds(<<p>>, env)
    BY <2>3 DEF DNFHolds
  <2> QED BY <2>1, <2>3, <2>4
<1>3. CASE s # << >>
  <2>0. n # 0
    BY <1>3, EmptySeq
  <2> DEFINE g == CHOOSE h : IsProduct(h, n, s)
  <2>1. IsProduct(g, n, s)
    BY <1>1, ProductExists, Zenon
  <2>2. DistributeAND(s) = g[n]
    BY <1>1, <1>3, Zenon DEF DistributeAND, IsProduct
  <2> HIDE DEF g, n
  <2> DEFINE K == {k \in 0..n : k # 0 =>
                     /\ g[k] \in DNFs(N)
                     /\ DNFHolds(g[k], env) <=> \A i \in 1..k : DNFHolds(s[i], env)}
  <2>3. 0 \in K
    BY <1>1
  <2>4. ASSUME NEW k \in 1..n, k - 1 \in K PROVE k \in K
    <3>1. k \in Nat /\ k # 0 /\ s[k] \in DNFs(N)
      BY <1>1
    <3>2. CASE k = 1
      <4>1. g[1] = s[1] /\ 1..1 = {1}
        BY <2>1, <3>2 DEF IsProduct
      <4> QED BY <3>1, <3>2, <4>1
    <3>3. CASE k # 1
      <4>1. g[k] = Both(g[k - 1], s[k])
        BY <2>1, <3>3 DEF IsProduct
      <4>2. /\ g[k - 1] \in DNFs(N)
            /\ DNFHolds(g[k - 1], env) <=> \A i \in 1..k - 1 : DNFHolds(s[i], env)
        BY <2>4, <3>1, <3>3
      <4>3. /\ g[k] \in DNFs(N)
            /\ DNFHolds(g[k], env) <=> DNFHolds(g[k - 1], env) /\ DNFHolds(s[k], env)
        BY <3>1, <4>1, <4>2, BothHolds
      <4>4. \A i : i \in 1..k <=> i \in 1..k - 1 \/ i = k
        BY <3>1
      <4>5. DNFHolds(g[k], env) <=> \A i \in 1..k : DNFHolds(s[i], env)
        BY <4>2, <4>3, <4>4
      <4> QED BY <4>3, <4>5
    <3> QED BY <3>2, <3>3
  <2>5. n \in K
    <3> HIDE DEF K
    <3>1. \A k \in 0..n : k \in K
      BY <1>1, <2>3, <2>4, UpTo
    <3> QED BY <1>1, <3>1
  <2> QED BY <1>1, <2>0, <2>2, <2>5
<1> QED BY <1>2, <1>3

\* What is left of a polyhedron's complement is all of it.
LEMMA NegateConjunctionHolds ==
  ASSUME NEW N, NEW env \in [N -> Int], NEW poly \in Polys(N)
  PROVE  /\ NegateConjunction(poly) \in DNFs(N)
         /\ DNFHolds(NegateConjunction(poly), env) <=> ~Inside(poly, env)
<1> DEFINE n == Len(poly)
<1>1. n \in Nat /\ DOMAIN poly = 1..n /\ \A k \in 1..n : poly[k] \in Inequalities(N)
  BY LenProperties, ElementOfSeq DEF Polys
<1>2. CASE poly = << >>
  <2> DEFINE p == <<Contradiction>>
  <2>1. NegateConjunction(poly) = <<p>> /\ DOMAIN poly = {}
    BY <1>2 DEF NegateConjunction
  <2>2. p \in Polys(N) /\ DOMAIN p = {1} /\ p[1] = Contradiction
    BY ContradictionFails DEF Polys
  <2>3. ~Satisfied(Contradiction, env)
    BY ContradictionFails
  <2> HIDE DEF p
  <2>4. ~Inside(p, env) /\ Inside(poly, env)
    BY <2>1, <2>2, <2>3 DEF Inside
  <2>5. <<p>> \in DNFs(N)
    BY <2>2 DEF DNFs
  <2>6. ~DNFHolds(<<p>>, env)
    BY <2>4 DEF DNFHolds
  <2> QED BY <2>1, <2>4, <2>5, <2>6
<1>3. CASE poly # << >>
  <2> DEFINE d == [k \in 1..n |-> <<Negated(poly[k])>>]
  <2>1. NegateConjunction(poly) = d
    BY <1>1, <1>3, Zenon DEF NegateConjunction
  <2>2. ASSUME NEW k \in 1..n
        PROVE  /\ <<Negated(poly[k])>> \in Polys(N)
               /\ Inside(<<Negated(poly[k])>>, env) <=> ~Satisfied(poly[k], env)
    <3> DEFINE i == Negated(poly[k])
    <3>1. i \in Inequalities(N) /\ (Satisfied(i, env) <=> ~Satisfied(poly[k], env))
      BY <1>1, NegatedIsNot
    <3> HIDE DEF i
    <3>2. <<i>> \in Polys(N)
      BY <3>1 DEF Polys
    <3>3. Inside(<<i>>, env) <=> Satisfied(i, env)
      BY DEF Inside
    <3> QED BY <3>1, <3>2, <3>3 DEF i
  <2>3. d \in [1..n -> Polys(N)] /\ \A k \in 1..n : d[k] = <<Negated(poly[k])>>
    BY <2>2
  <2>4. d \in DNFs(N) /\ DOMAIN d = 1..n
    <3> HIDE DEF d, n
    <3> QED BY <1>1, <2>3, FunctionIsSeq DEF DNFs
  <2>5. DNFHolds(d, env) <=> \E k \in 1..n : ~Satisfied(poly[k], env)
    <3> HIDE DEF d
    <3> QED BY <2>2, <2>3, <2>4 DEF DNFHolds
  <2>6. Inside(poly, env) <=> \A k \in 1..n : Satisfied(poly[k], env)
    BY <1>1 DEF Inside
  <2> HIDE DEF d
  <2> QED BY <2>1, <2>4, <2>5, <2>6
<1> QED BY <1>2, <1>3

\* parseFormulaToDNF on `not`: the DNF of a negation holds where the negated one
\* does not, strict and non-strict inequalities being swapped.
THEOREM NegationHolds ==
  ASSUME NEW N, NEW env \in [N -> Int], NEW d \in DNFs(N)
  PROVE  /\ Negation(d) \in DNFs(N)
         /\ DNFHolds(Negation(d), env) <=> ~DNFHolds(d, env)
<1> DEFINE n == Len(d)
           s == [k \in DOMAIN d |-> NegateConjunction(d[k])]
<1>1. n \in Nat /\ DOMAIN d = 1..n /\ \A k \in 1..n : d[k] \in Polys(N)
  BY LenProperties, ElementOfSeq DEF DNFs
<1>2. \A k \in 1..n : /\ NegateConjunction(d[k]) \in DNFs(N)
                      /\ DNFHolds(NegateConjunction(d[k]), env) <=> ~Inside(d[k], env)
  BY <1>1, NegateConjunctionHolds
<1>3. s \in [1..n -> DNFs(N)] /\ \A k \in 1..n : s[k] = NegateConjunction(d[k])
  BY <1>1, <1>2
<1>4. s \in Seq(DNFs(N)) /\ DOMAIN s = 1..n
  <2> HIDE DEF s, n
  <2> QED BY <1>1, <1>3, FunctionIsSeq
<1>5. Negation(d) = DistributeAND(s)
  BY Zenon DEF Negation
<1> HIDE DEF s
<1>6. /\ DistributeAND(s) \in DNFs(N)
      /\ DNFHolds(DistributeAND(s), env) <=> \A k \in 1..n : DNFHolds(s[k], env)
  BY <1>4, DistributeHolds
<1>7. DNFHolds(d, env) <=> \E k \in 1..n : Inside(d[k], env)
  BY <1>1 DEF DNFHolds
<1> QED BY <1>2, <1>3, <1>5, <1>6, <1>7

----------------------------------------------------------------------------
(* Expressions and formulas of any size.  E is a set of expressions that    *)
(* contains the arguments of its members, F one of formulas; depth says     *)
(* that a term is deeper than its arguments, so that there is an end to     *)
(* them.  parse and dnf are what the parser makes of each term.             *)

ExpressionsOver(E, N, depth) ==
  /\ depth \in [E -> Nat]
  /\ \A t \in E : /\ LeafOver(t, N) /\ t.args \in Seq(E)
                  /\ \A i \in DOMAIN t.args : depth[t.args[i]] < depth[t]

ParsedExpressions(E, parse) ==
  \A t \in E : parse[t] = ArithExpr(t, [i \in DOMAIN t.args |-> parse[t.args[i]]])

\* worth is what SMT-LIB says the expressions are worth.
Worths(E, env, worth) ==
  /\ worth \in [E -> Int]
  /\ \A t \in E : IsWorth(t, [i \in DOMAIN t.args |-> worth[t.args[i]]], env, worth[t])

\* parseArithExpr, for every expression: unless it throws, the affine term it
\* returns is worth what the expression is.
THEOREM ExpressionsKeepTheirWorth ==
  ASSUME NEW N, NEW env \in [N -> Int], NEW E, NEW depth, ExpressionsOver(E, N, depth),
         NEW parse, ParsedExpressions(E, parse), NEW worth, Worths(E, env, worth)
  PROVE  \A t \in E : parse[t].st = "ok" =>
           parse[t] \in AffineTerms(N) /\ Value(parse[t], env) = worth[t]
<1> DEFINE Kept(t) == parse[t].st = "ok" =>
             parse[t] \in AffineTerms(N) /\ Value(parse[t], env) = worth[t]
<1>1. ASSUME NEW t \in E, \A i \in DOMAIN t.args : Kept(t.args[i]) PROVE Kept(t)
  <2> DEFINE a == [i \in DOMAIN t.args |-> parse[t.args[i]]]
             w == [i \in DOMAIN t.args |-> worth[t.args[i]]]
             m == Len(t.args)
  <2>1. m \in Nat /\ DOMAIN t.args = 1..m /\ \A i \in 1..m : t.args[i] \in E
    BY LenProperties, ElementOfSeq DEF ExpressionsOver
  <2>2. /\ DOMAIN a = 1..m /\ DOMAIN w = 1..m
        /\ \A i \in 1..m : a[i] = parse[t.args[i]] /\ w[i] = worth[t.args[i]]
    BY <2>1
  <2>3. Len(a) = m /\ Len(w) = m
    <3>1. a \in [1..m -> {parse[t.args[i]] : i \in 1..m}] /\ w \in [1..m -> {worth[t.args[i]] : i \in 1..m}]
      BY <2>1, <2>2
    <3> HIDE DEF a, w, m
    <3> QED BY <2>1, <3>1, FunctionIsSeq
  <2>4. parse[t] = ArithExpr(t, a) /\ IsWorth(t, w, env, worth[t]) /\ LeafOver(t, N)
    BY Zenon DEF ParsedExpressions, Worths, ExpressionsOver
  <2>5. \A i \in 1..m : a[i].st = "ok" => a[i] \in AffineTerms(N) /\ Value(a[i], env) = w[i]
    BY <1>1, <2>1, <2>2
  <2>6. ArithExpr(t, a).st = "ok" =>
          ArithExpr(t, a) \in AffineTerms(N) /\ Value(ArithExpr(t, a), env) = worth[t]
    <3> HIDE DEF a, w, m
    <3> QED BY <2>1, <2>2, <2>3, <2>4, <2>5, ArithExprValue
  <2> QED BY <2>4, <2>6
<1> HIDE DEF Kept
<1>2. SUFFICES ASSUME NEW t0 \in E PROVE Kept(t0)
  BY DEF Kept
<1> DEFINE n == depth[t0] + 1
           K == {k \in 0..n : \A t \in E : depth[t] < k => Kept(t)}
<1>3. n \in Nat /\ \A t \in E : depth[t] \in Nat
  BY DEF ExpressionsOver
<1>4. 0 \in K
  BY <1>3
<1>5. ASSUME NEW k \in 1..n, k - 1 \in K PROVE k \in K
  <2>1. SUFFICES ASSUME NEW t \in E, depth[t] < k PROVE Kept(t)
    OBVIOUS
  <2>2. ASSUME NEW i \in DOMAIN t.args PROVE Kept(t.args[i])
    <3>1. t.args[i] \in E /\ depth[t.args[i]] < depth[t]
      BY LenProperties, ElementOfSeq DEF ExpressionsOver
    <3>2. depth[t.args[i]] < k - 1
      BY <1>3, <2>1, <3>1
    <3> QED BY <1>5, <3>1, <3>2
  <2> QED BY <1>1, <2>2
<1>6. n \in K
  <2> HIDE DEF K, n
  <2>1. \A k \in 0..n : k \in K
    BY <1>3, <1>4, <1>5, UpTo
  <2> QED BY <1>3, <2>1
<1> QED BY <1>3, <1>6

Connectives == {"not", "and", "or", "var", "num"}

FormulasOver(F, E, depth) ==
  /\ depth \in [F -> Nat]
  /\ \A t \in F :
       \/ /\ t.op \in {"not", "and", "or"} /\ t.args \in Seq(F)
          /\ \A i \in DOMAIN t.args : depth[t.args[i]] < depth[t]
       \/ t.op = "var" /\ t.name \in {"true", "false"}
       \/ t.op \notin Connectives /\ t.args \in Seq(E)

ParsedFormulas(F, parse, nla, dnf) ==
  \A t \in F :
    dnf[t] = IF t.op \in Connectives
             THEN Connective(t, [i \in DOMAIN t.args |-> dnf[t.args[i]]])
             ELSE AtomicFormula(t, [i \in DOMAIN t.args |-> parse[t.args[i]]], nla)

\* The comparison of two integers.
Compares(op, x, y, v) == /\ op = ">=" => (v <=> x >= y)
                         /\ op = ">" => (v <=> x > y)
                         /\ op = "<=" => (v <=> x =< y)
                         /\ op = "<" => (v <=> x < y)

\* truth is what SMT-LIB says of the formulas.
Truths(F, worth, truth) ==
  /\ truth \in [F -> BOOLEAN]
  /\ \A t \in F :
       /\ t.op = "not" => (truth[t] <=> ~truth[t.args[1]])
       /\ t.op = "and" => (truth[t] <=> \A i \in DOMAIN t.args : truth[t.args[i]])
       /\ t.op = "or" => (truth[t] <=> \E i \in DOMAIN t.args : truth[t.args[i]])
       /\ t.op = "var" => (truth[t] <=> t.name = "true")
       /\ t.op \notin Connectives => Compares(t.op, worth[t.args[1]], worth[t.args[2]], truth[t])

LEMMA AtomHolds ==
  ASSUME NEW N, NEW env \in [N -> Int], NEW a \in AffineTerms(N), NEW b \in AffineTerms(N),
         NEW s \in BOOLEAN
  PROVE  LET d == << <<Inequality(Add(a, Scale(b, -1)), s)>> >>
         IN  /\ d \in DNFs(N)
             /\ DNFHolds(d, env) <=> IF s THEN Value(a, env) > Value(b, env)
                                     ELSE Value(a, env) >= Value(b, env)
<1> DEFINE c == Scale(b, -1)
           e == Add(a, c)
           i == Inequality(e, s)
<1>1. /\ a.coef \in Coefs(N) /\ a.const \in Int
      /\ b.coef \in Coefs(N) /\ b.const \in Int
  BY TermParts
<1>2. Value(a, env) \in Int /\ Value(b, env) \in Int
  BY <1>1, ValueType
<1>3. c \in AffineTerms(N) /\ Value(c, env) = (-1) * Value(b, env)
  <2>1. -1 \in Int
    OBVIOUS
  <2> QED BY <1>1, <2>1, ScaleValue
<1>4. e \in AffineTerms(N) /\ Value(e, env) = Value(a, env) + (-1) * Value(b, env)
  <2> HIDE DEF c
  <2>1. c.coef \in Coefs(N) /\ c.const \in Int
    BY <1>3, TermParts
  <2>2. e \in AffineTerms(N) /\ Value(e, env) = Value(a, env) + Value(c, env)
    BY <1>1, <2>1, AddValue
  <2> QED BY <1>3, <2>2
<1> HIDE DEF e
<1>5. i \in Inequalities(N)
      /\ (Satisfied(i, env) <=> IF s THEN Value(e, env) > 0 ELSE Value(e, env) >= 0)
  BY <1>4, InequalityOf
<1> HIDE DEF i
<1>6. Satisfied(i, env) <=> IF s THEN Value(a, env) > Value(b, env)
                            ELSE Value(a, env) >= Value(b, env)
  <2>1. CASE s
    BY <1>2, <1>4, <1>5, <2>1
  <2>2. CASE ~s
    BY <1>2, <1>4, <1>5, <2>2
  <2> QED BY <2>1, <2>2
<1>7. << <<i>> >> \in DNFs(N)
  BY <1>5 DEF DNFs, Polys
<1>8. DNFHolds(<< <<i>> >>, env) <=> Satisfied(i, env)
  BY DEF DNFHolds, Inside
<1> QED BY <1>6, <1>7, <1>8 DEF i, e, c

\* How the DNF d follows a truth value v: nothing is lost, nothing is added.
Follows(d, env, v, noLoss, noGain) == /\ noLoss => (v => DNFHolds(d, env))
                                      /\ noGain => (DNFHolds(d, env) => v)

NlaModes == {"overapproximate", "underapproximate", "none"}

LEMMA AtomicFormulaHolds ==
  ASSUME NEW N, NEW env \in [N -> Int], NEW nla \in NlaModes, NEW t, t.op \notin Connectives,
         NEW a, NEW w, Len(a) = 2 => \A i \in 1..2 : a[i].st = "ok" =>
                         a[i] \in AffineTerms(N) /\ Value(a[i], env) = w[i],
         NEW v \in BOOLEAN, Compares(t.op, w[1], w[2], v),
         AtomicFormula(t, a, nla).st = "ok"
  PROVE  LET d == AtomicFormula(t, a, nla).dnf
             exact == Len(a) = 2 => \A i \in 1..2 : a[i].st # "nla"
         IN  /\ d \in DNFs(N)
             /\ Follows(d, env, v, exact \/ nla # "underapproximate",
                                   exact \/ nla # "overapproximate")
<1> DEFINE r == AtomicFormula(t, a, nla)
           st == IF a[1].st # "ok" THEN a[1].st ELSE a[2].st
           atom(x, y) == << <<Inequality(Add(x, Scale(y, -1)), t.op \in {">", "<"})>> >>
           exact == Len(a) = 2 => \A i \in 1..2 : a[i].st # "nla"
           Goal == /\ r.dnf \in DNFs(N)
                   /\ Follows(r.dnf, env, v, exact \/ nla # "underapproximate",
                                             exact \/ nla # "overapproximate")
<1> SUFFICES Goal
  BY Zenon
<1>0. Failed.st = "error" /\ \A d : Ok(d).st = "ok" /\ Ok(d).dnf = d
  BY DEF Failed, Ok
<1>1. Len(a) = 2 /\ t.op \notin {"=", "div", "mod", "store"}
  <2>1. ASSUME ~(Len(a) = 2 /\ t.op \notin {"=", "div", "mod", "store"}) PROVE r = Failed
    BY <2>1, Zenon DEF AtomicFormula
  <2> HIDE DEF r
  <2>2. r.st = "ok"
    BY DEF r
  <2> QED BY <1>0, <2>1, <2>2
<1>2. r = CASE st = "nla" -> NlaAtom(nla)
            [] st = "ok" /\ t.op \in {">=", ">"} -> Ok(atom(a[1], a[2]))
            [] st = "ok" /\ t.op \in {"<=", "<"} -> Ok(atom(a[2], a[1]))
            [] OTHER -> Failed
  BY <1>1, Zenon DEF AtomicFormula
<1>3. CASE st = "nla"
  <2>1. r = NlaAtom(nla)
    BY <1>2, <1>3
  <2>2. ~exact
    BY <1>1, <1>3
  <2>3. CASE nla = "overapproximate"
    <3> DEFINE d == << <<Tautology>> >>
    <3>1. r.dnf = d
      BY <1>0, <2>1, <2>3 DEF NlaAtom
    <3>2. d \in DNFs(N) /\ DNFHolds(d, env)
      BY TautologyHolds DEF DNFs, Polys, DNFHolds, Inside
    <3> HIDE DEF d, r, exact
    <3> QED BY <2>2, <2>3, <3>1, <3>2 DEF Follows
  <2>4. CASE nla = "underapproximate"
    <3> DEFINE d == << <<Contradiction>> >>
    <3>1. r.dnf = d
      BY <1>0, <2>1, <2>4 DEF NlaAtom
    <3>2. d \in DNFs(N) /\ ~DNFHolds(d, env)
      BY ContradictionFails DEF DNFs, Polys, DNFHolds, Inside
    <3> HIDE DEF d, r, exact
    <3> QED BY <2>2, <2>4, <3>1, <3>2 DEF Follows
  <2>5. CASE nla = "none"
    <3>1. r.st = "error"
      BY <1>0, <2>1, <2>5 DEF NlaAtom
    <3> QED BY <3>1
  <2> QED BY <2>3, <2>4, <2>5 DEF NlaModes
<1>4. CASE st = "ok" /\ t.op \in {">=", ">"}
  <2>1. r.dnf = atom(a[1], a[2])
    BY <1>0, <1>2, <1>4
  <2>2. /\ a[1] \in AffineTerms(N) /\ Value(a[1], env) = w[1]
        /\ a[2] \in AffineTerms(N) /\ Value(a[2], env) = w[2]
    BY <1>1, <1>4
  <2>3. /\ atom(a[1], a[2]) \in DNFs(N)
        /\ DNFHolds(atom(a[1], a[2]), env) <=>
             IF t.op \in {">", "<"} THEN Value(a[1], env) > Value(a[2], env)
             ELSE Value(a[1], env) >= Value(a[2], env)
    <3> DEFINE s == t.op \in {">", "<"}
    <3>1. s \in BOOLEAN
      OBVIOUS
    <3> HIDE DEF s
    <3>2. LET d == << <<Inequality(Add(a[1], Scale(a[2], -1)), s)>> >>
          IN  /\ d \in DNFs(N)
              /\ DNFHolds(d, env) <=> IF s THEN Value(a[1], env) > Value(a[2], env)
                                      ELSE Value(a[1], env) >= Value(a[2], env)
      BY <2>2, <3>1, AtomHolds
    <3> QED BY <3>2, Zenon DEF s
  <2>4. v <=> IF t.op \in {">", "<"} THEN w[1] > w[2] ELSE w[1] >= w[2]
    BY <1>4 DEF Compares
  <2> HIDE DEF atom, r, exact
  <2>5. DNFHolds(r.dnf, env) <=> v
    BY <2>1, <2>2, <2>3, <2>4
  <2> QED BY <2>1, <2>3, <2>5 DEF Follows
<1>5. CASE st = "ok" /\ t.op \in {"<=", "<"}
  <2>1. r.dnf = atom(a[2], a[1])
    BY <1>0, <1>2, <1>5
  <2>2. /\ a[1] \in AffineTerms(N) /\ Value(a[1], env) = w[1]
        /\ a[2] \in AffineTerms(N) /\ Value(a[2], env) = w[2]
    BY <1>1, <1>5
  <2>3. /\ atom(a[2], a[1]) \in DNFs(N)
        /\ DNFHolds(atom(a[2], a[1]), env) <=>
             IF t.op \in {">", "<"} THEN Value(a[2], env) > Value(a[1], env)
             ELSE Value(a[2], env) >= Value(a[1], env)
    <3> DEFINE s == t.op \in {">", "<"}
    <3>1. s \in BOOLEAN
      OBVIOUS
    <3> HIDE DEF s
    <3>2. LET d == << <<Inequality(Add(a[2], Scale(a[1], -1)), s)>> >>
          IN  /\ d \in DNFs(N)
              /\ DNFHolds(d, env) <=> IF s THEN Value(a[2], env) > Value(a[1], env)
                                      ELSE Value(a[2], env) >= Value(a[1], env)
      BY <2>2, <3>1, AtomHolds
    <3> QED BY <3>2, Zenon DEF s
  <2>4. v <=> IF t.op \in {">", "<"} THEN w[1] < w[2] ELSE w[1] =< w[2]
    BY <1>5 DEF Compares
  <2>5. Value(a[1], env) \in Int /\ Value(a[2], env) \in Int
    BY <2>2, TermParts, ValueType
  <2> HIDE DEF atom, r, exact
  <2>6. DNFHolds(r.dnf, env) <=> v
    BY <2>1, <2>2, <2>3, <2>4, <2>5
  <2> QED BY <2>1, <2>3, <2>6 DEF Follows
<1>6. CASE /\ st # "nla" /\ ~(st = "ok" /\ t.op \in {">=", ">"})
           /\ ~(st = "ok" /\ t.op \in {"<=", "<"})
  <2>1. r = Failed
    BY <1>2, <1>6
  <2> QED BY <1>0, <2>1
<1> HIDE DEF Goal, st
<1> QED BY <1>3, <1>4, <1>5, <1>6

\* What a connective makes of the truth values of m operands.
Connects(op, m, v, whole) ==
  /\ op = "not" => (whole <=> ~v[1])
  /\ op = "and" => (whole <=> \A i \in 1..m : v[i])
  /\ op = "or" => (whole <=> \E i \in 1..m : v[i])

\* Those of the operands o that were parsed follow their truth values v.
AllFollow(N, env, m, o, v, noLoss, noGain) ==
  \A i \in 1..m : o[i].st = "ok" =>
    o[i].dnf \in DNFs(N) /\ Follows(o[i].dnf, env, v[i], noLoss, noGain)

LEMMA ConnectiveHolds ==
  ASSUME NEW N, NEW env \in [N -> Int], NEW t, t.op \in {"not", "and", "or"},
         NEW m \in Nat, NEW o, DOMAIN o = 1..m, Len(o) = m, NEW v,
         NEW noLoss \in BOOLEAN, NEW noGain \in BOOLEAN, t.op = "not" => (noLoss <=> noGain),
         AllFollow(N, env, m, o, v, noLoss, noGain),
         NEW whole \in BOOLEAN, Connects(t.op, m, v, whole),
         Connective(t, o).st = "ok"
  PROVE  /\ Connective(t, o).dnf \in DNFs(N)
         /\ Follows(Connective(t, o).dnf, env, whole, noLoss, noGain)
<1> DEFINE r == Connective(t, o)
           s == [i \in DOMAIN o |-> o[i].dnf]
           fine == \A i \in DOMAIN o : o[i].st = "ok"
           Goal == r.dnf \in DNFs(N) /\ Follows(r.dnf, env, whole, noLoss, noGain)
<1> SUFFICES Goal
  OBVIOUS
<1>0. Failed.st = "error" /\ \A d : Ok(d).st = "ok" /\ Ok(d).dnf = d
  BY DEF Failed, Ok
<1>1. /\ t.op = "not" => r = IF Len(s) = 1 THEN IF fine THEN Ok(Negation(s[1])) ELSE Failed ELSE Failed
      /\ t.op = "and" => r = IF fine THEN Ok(DistributeAND(s)) ELSE Failed
      /\ t.op = "or" => r = IF fine THEN Ok(FlattenSeq(s)) ELSE Failed
  BY DEF Connective
<1>2. r.st = "ok"
  OBVIOUS
<1> HIDE DEF r
<1>3. fine
  BY <1>0, <1>1, <1>2
<1>4. \A i \in 1..m : s[i] \in DNFs(N) /\ Follows(s[i], env, v[i], noLoss, noGain)
  BY <1>3 DEF AllFollow
<1>5. s \in [1..m -> DNFs(N)]
  BY <1>4
<1> HIDE DEF s, fine
<1>6. s \in Seq(DNFs(N)) /\ Len(s) = m /\ DOMAIN s = 1..m
  BY <1>5, FunctionIsSeq
<1>7. CASE t.op = "not"
  <2>1. m = 1 /\ r.dnf = Negation(s[1])
    BY <1>0, <1>1, <1>2, <1>3, <1>6, <1>7
  <2>2. s[1] \in DNFs(N) /\ Follows(s[1], env, v[1], noLoss, noGain)
    BY <1>4, <2>1
  <2>3. Negation(s[1]) \in DNFs(N) /\ (DNFHolds(Negation(s[1]), env) <=> ~DNFHolds(s[1], env))
    BY <2>2, NegationHolds
  <2>4. (whole <=> ~v[1]) /\ (noLoss <=> noGain)
    BY <1>7 DEF Connects
  <2>5. Follows(r.dnf, env, whole, noLoss, noGain)
    BY <2>1, <2>2, <2>3, <2>4, Zenon DEF Follows
  <2> QED BY <2>1, <2>3, <2>5
<1>8. CASE t.op = "and"
  <2>1. r.dnf = DistributeAND(s)
    BY <1>0, <1>1, <1>3, <1>8
  <2>2. /\ DistributeAND(s) \in DNFs(N)
        /\ DNFHolds(DistributeAND(s), env) <=> \A i \in 1..m : DNFHolds(s[i], env)
    BY <1>6, DistributeHolds
  <2>3. whole <=> \A i \in 1..m : v[i]
    BY <1>8 DEF Connects
  <2>4. Follows(r.dnf, env, whole, noLoss, noGain)
    BY <1>4, <2>1, <2>2, <2>3, Zenon DEF Follows
  <2> QED BY <2>1, <2>2, <2>4
<1>9. CASE t.op = "or"
  <2>1. r.dnf = FlattenSeq(s)
    BY <1>0, <1>1, <1>3, <1>9
  <2>2. /\ FlattenSeq(s) \in DNFs(N)
        /\ \A x : Member(x, FlattenSeq(s)) <=> \E i \in 1..m : Member(x, s[i])
    BY <1>6, FlattenMembers DEF DNFs
  <2>3. DNFHolds(FlattenSeq(s), env) <=> \E i \in 1..m : DNFHolds(s[i], env)
    BY <2>2, HoldsMembers
  <2>4. whole <=> \E i \in 1..m : v[i]
    BY <1>9 DEF Connects
  <2>5. Follows(r.dnf, env, whole, noLoss, noGain)
    BY <1>4, <2>1, <2>3, <2>4, Zenon DEF Follows
  <2> QED BY <2>1, <2>2, <2>5
<1> HIDE DEF Goal
<1> QED BY <1>7, <1>8, <1>9

\* parseFormulaToDNF, for every formula: unless it throws, its DNF holds of a
\* valuation when the formula is true there, and only then.  With -nla, which
\* replaces the comparisons of products, only one of the two is left, and that
\* one only where there is no negation (SMTParser negates the replacement).
THEOREM FormulasKeepTheirMeaning ==
  ASSUME NEW N, NEW env \in [N -> Int], NEW nla \in NlaModes,
         NEW E, NEW edepth, ExpressionsOver(E, N, edepth),
         NEW parse, ParsedExpressions(E, parse), NEW worth, Worths(E, env, worth),
         NEW F, NEW fdepth, FormulasOver(F, E, fdepth),
         NEW dnf, ParsedFormulas(F, parse, nla, dnf), NEW truth, Truths(F, worth, truth)
  PROVE  LET exact == nla = "none" \/ \A u \in E : parse[u].st # "nla"
             positive == \A t \in F : t.op # "not"
         IN  \A t \in F : dnf[t].st = "ok" =>
               /\ dnf[t].dnf \in DNFs(N)
               /\ Follows(dnf[t].dnf, env, truth[t],
                          exact \/ (positive /\ nla = "overapproximate"),
                          exact \/ (positive /\ nla = "underapproximate"))
<1> DEFINE exact == nla = "none" \/ \A u \in E : parse[u].st # "nla"
           positive == \A t \in F : t.op # "not"
           noLoss == exact \/ (positive /\ nla = "overapproximate")
           noGain == exact \/ (positive /\ nla = "underapproximate")
           Kept(t) == dnf[t].st = "ok" =>
             dnf[t].dnf \in DNFs(N) /\ Follows(dnf[t].dnf, env, truth[t], noLoss, noGain)
<1>0. \A t \in E : parse[t].st = "ok" =>
        parse[t] \in AffineTerms(N) /\ Value(parse[t], env) = worth[t]
  BY ExpressionsKeepTheirWorth
<1>1. ASSUME NEW t \in F, t.op \notin Connectives, dnf[t].st = "ok" PROVE Kept(t)
  <2> DEFINE a == [i \in DOMAIN t.args |-> parse[t.args[i]]]
             w == [i \in DOMAIN t.args |-> worth[t.args[i]]]
             m == Len(t.args)
             precise == Len(a) = 2 => \A i \in 1..2 : a[i].st # "nla"
  <2>1. t.args \in Seq(E)
    BY <1>1 DEF FormulasOver, Connectives
  <2>2. m \in Nat /\ DOMAIN t.args = 1..m /\ \A i \in 1..m : t.args[i] \in E
    BY <2>1, LenProperties, ElementOfSeq
  <2>3. DOMAIN a = 1..m /\ \A i \in 1..m : a[i] = parse[t.args[i]] /\ w[i] = worth[t.args[i]]
    BY <2>2
  <2>4. Len(a) = m
    <3>1. a \in [1..m -> {parse[t.args[i]] : i \in 1..m}]
      BY <2>2, <2>3
    <3> HIDE DEF a, w, m
    <3> QED BY <2>2, <3>1, FunctionIsSeq
  <2>5. dnf[t] = AtomicFormula(t, a, nla)
    BY <1>1, Zenon DEF ParsedFormulas
  <2>6. truth[t] \in BOOLEAN /\ Compares(t.op, worth[t.args[1]], worth[t.args[2]], truth[t])
    BY <1>1 DEF Truths
  <2> HIDE DEF a, w, m
  <2>7. Len(a) = 2 => \A i \in 1..2 : a[i].st = "ok" =>
          a[i] \in AffineTerms(N) /\ Value(a[i], env) = worth[t.args[i]]
    BY <1>0, <2>2, <2>3, <2>4
  <2>8. AtomicFormula(t, a, nla).st = "ok"
    BY <1>1, <2>5
  <2>9. /\ AtomicFormula(t, a, nla).dnf \in DNFs(N)
        /\ Follows(AtomicFormula(t, a, nla).dnf, env, truth[t],
                   precise \/ nla # "underapproximate", precise \/ nla # "overapproximate")
    <3> DEFINE v == [i \in 1..2 |-> worth[t.args[i]]]
    <3>1. v[1] = worth[t.args[1]] /\ v[2] = worth[t.args[2]]
      OBVIOUS
    <3>2. Compares(t.op, v[1], v[2], truth[t])
      BY <2>6, <3>1
    <3>3. Len(a) = 2 => \A i \in 1..2 : a[i].st = "ok" =>
            a[i] \in AffineTerms(N) /\ Value(a[i], env) = v[i]
      BY <2>7
    <3> HIDE DEF v
    <3> QED BY <1>1, <2>6, <2>8, <3>2, <3>3, AtomicFormulaHolds
  <2>10. /\ noLoss => precise \/ nla # "underapproximate"
         /\ noGain => precise \/ nla # "overapproximate"
    <3>1. (\A u \in E : parse[u].st # "nla") => precise
      BY <2>2, <2>3, <2>4
    <3> HIDE DEF precise
    <3> QED BY <3>1
  <2> HIDE DEF noLoss, noGain, precise
  <2> QED BY <2>5, <2>9, <2>10 DEF Follows
<1>2. ASSUME NEW t \in F, t.op = "var", dnf[t].st = "ok" PROVE Kept(t)
  <2> DEFINE o == [i \in DOMAIN t.args |-> dnf[t.args[i]]]
             yes == << <<Tautology>> >>
             no == << <<Contradiction>> >>
  <2>1. dnf[t] = Connective(t, o)
    BY <1>2, Zenon DEF ParsedFormulas, Connectives
  <2>2. /\ t.name = "true" => Connective(t, o) = Ok(yes)
        /\ t.name = "false" => Connective(t, o) = Ok(no)
    BY <1>2 DEF Connective
  <2>3. (t.name = "true" \/ t.name = "false") /\ (truth[t] <=> t.name = "true")
    BY <1>2 DEF FormulasOver, Truths, Connectives
  <2>4. yes \in DNFs(N) /\ DNFHolds(yes, env)
    BY TautologyHolds DEF DNFs, Polys, DNFHolds, Inside
  <2>5. no \in DNFs(N) /\ ~DNFHolds(no, env)
    BY ContradictionFails DEF DNFs, Polys, DNFHolds, Inside
  <2>6. \A d : Ok(d).dnf = d
    BY DEF Ok
  <2> HIDE DEF o, yes, no, noLoss, noGain
  <2>7. CASE t.name = "true"
    BY <2>1, <2>2, <2>3, <2>4, <2>6, <2>7 DEF Follows
  <2>8. CASE t.name = "false"
    BY <2>1, <2>2, <2>3, <2>5, <2>6, <2>8 DEF Follows
  <2> QED BY <2>3, <2>7, <2>8
<1>3. ASSUME NEW t \in F, t.op \in {"not", "and", "or"}, dnf[t].st = "ok",
             \A i \in DOMAIN t.args : Kept(t.args[i])
      PROVE  Kept(t)
  <2> DEFINE o == [i \in DOMAIN t.args |-> dnf[t.args[i]]]
             v == [i \in DOMAIN t.args |-> truth[t.args[i]]]
             m == Len(t.args)
  <2>1. t.args \in Seq(F)
    BY <1>3 DEF FormulasOver, Connectives
  <2>2. m \in Nat /\ DOMAIN t.args = 1..m /\ \A i \in 1..m : t.args[i] \in F
    BY <2>1, LenProperties, ElementOfSeq
  <2>3. DOMAIN o = 1..m /\ \A i \in 1..m : o[i] = dnf[t.args[i]] /\ v[i] = truth[t.args[i]]
    BY <2>2
  <2>4. Len(o) = m
    <3>1. o \in [1..m -> {dnf[t.args[i]] : i \in 1..m}]
      BY <2>2, <2>3
    <3> HIDE DEF o, v, m
    <3> QED BY <2>2, <3>1, FunctionIsSeq
  <2>5. dnf[t] = Connective(t, o)
    BY <1>3, Zenon DEF ParsedFormulas, Connectives
  <2>6. truth[t] \in BOOLEAN
    BY DEF Truths
  <2>7. t.op = "not" => (noLoss <=> noGain)
    BY DEF noLoss
  <2>8. (noLoss \in BOOLEAN) /\ (noGain \in BOOLEAN)
    OBVIOUS
  <2> HIDE DEF o, noLoss, noGain
  <2>9. \A i \in 1..m : o[i].st = "ok" =>
          o[i].dnf \in DNFs(N) /\ Follows(o[i].dnf, env, v[i], noLoss, noGain)
    BY <1>3, <2>2, <2>3
  <2>10. /\ t.op = "and" => (truth[t] <=> \A i \in 1..m : v[i])
         /\ t.op = "or" => (truth[t] <=> \E i \in 1..m : v[i])
    BY <2>2, <2>3 DEF Truths
  <2>11. Connective(t, o).st = "ok"
    BY <1>3, <2>5
  <2>12. t.op = "not" => (truth[t] <=> ~v[1])
    <3>1. ASSUME t.op = "not" PROVE m = 1
      <4>1. Failed.st = "error"
        BY DEF Failed
      <4>2. Len([i \in DOMAIN o |-> o[i].dnf]) = 1
        BY <2>11, <3>1, <4>1 DEF Connective
      <4>3. [i \in DOMAIN o |-> o[i].dnf] \in [1..m -> {o[i].dnf : i \in 1..m}]
        BY <2>3
      <4>4. Len([i \in DOMAIN o |-> o[i].dnf]) = m
        BY <2>2, <4>3, FunctionIsSeq
      <4> QED BY <4>2, <4>4
    <3>2. ASSUME t.op = "not" PROVE truth[t] <=> ~truth[t.args[1]]
      BY <3>2 DEF Truths
    <3> QED BY <2>2, <2>3, <3>1, <3>2
  <2>13. /\ Connective(t, o).dnf \in DNFs(N)
         /\ Follows(Connective(t, o).dnf, env, truth[t], noLoss, noGain)
    <3> HIDE DEF v, m
    <3>1. t.op \in {"not", "and", "or"} /\ m \in Nat /\ DOMAIN o = 1..m
      BY <1>3, <2>2, <2>3
    <3>2. Connects(t.op, m, v, truth[t])
      BY <2>10, <2>12 DEF Connects
    <3>3. AllFollow(N, env, m, o, v, noLoss, noGain)
      BY <2>9 DEF AllFollow
    <3> QED BY <2>4, <2>6, <2>7, <2>8, <2>11, <3>1, <3>2, <3>3, ConnectiveHolds
  <2> QED BY <2>5, <2>13
<1>4. SUFFICES ASSUME NEW t0 \in F PROVE Kept(t0)
  BY Zenon
<1> DEFINE n == fdepth[t0] + 1
           K == {k \in 0..n : \A t \in F : fdepth[t] < k => Kept(t)}
<1> HIDE DEF Kept
<1>5. n \in Nat /\ \A t \in F : fdepth[t] \in Nat
  BY DEF FormulasOver
<1>6. 0 \in K
  BY <1>5
<1>7. ASSUME NEW k \in 1..n, k - 1 \in K PROVE k \in K
  <2>1. SUFFICES ASSUME NEW t \in F, fdepth[t] < k PROVE Kept(t)
    OBVIOUS
  <2>2. CASE dnf[t].st # "ok"
    BY <2>2 DEF Kept
  <2>3. CASE dnf[t].st = "ok" /\ t.op \in {"not", "and", "or"}
    <3>1. ASSUME NEW i \in DOMAIN t.args PROVE Kept(t.args[i])
      <4>1. t.args[i] \in F /\ fdepth[t.args[i]] < fdepth[t]
        BY <2>3, LenProperties, ElementOfSeq DEF FormulasOver, Connectives
      <4>2. fdepth[t.args[i]] < k - 1
        BY <1>5, <2>1, <4>1
      <4> QED BY <1>7, <4>1, <4>2
    <3> QED BY <1>3, <2>3, <3>1
  <2>4. CASE dnf[t].st = "ok" /\ t.op \notin {"not", "and", "or"}
    <3>1. t.op = "var" \/ t.op \notin Connectives
      BY <2>4 DEF FormulasOver
    <3> QED BY <1>1, <1>2, <2>4, <3>1
  <2> QED BY <2>2, <2>3, <2>4
<1>8. n \in K
  <2> HIDE DEF K, n
  <2>1. \A k \in 0..n : k \in K
    BY <1>5, <1>6, <1>7, UpTo
  <2> QED BY <1>5, <2>1
<1> QED BY <1>5, <1>8

=============================================================================
