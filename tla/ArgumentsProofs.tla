--------------------------- MODULE ArgumentsProofs ---------------------------
(***************************************************************************)
(* What a geometric non-termination argument is worth, for every lasso and *)
(* however far the run is followed: the state x1 can be reached through    *)
(* the stem, every iteration satisfies the polyhedron that was chosen, and *)
(* each starts where the one before it ended.                              *)
(*                                                                         *)
(* Run together, the two techniques are what they are alone: every         *)
(* behaviour of the composition is one of each technique, so that what is  *)
(* proved of a technique holds of the composition.                         *)
(***************************************************************************)
EXTENDS Arguments, RankingProofs

\* The part of an inequality that depends on the names.
Linear(ineq, v) == Sum(NumNames, [i \in Names |-> ineq.coef[i] * v[i]])

----------------------------------------------------------------------------
(* Valuations of the names of a transition.                                *)

LEMMA ValuationType ==
    ASSUME NEW t, NEW y \in IntPoints, NEW y2 \in IntPoints, NEW hidden,
           \A i \in DOMAIN hidden : hidden[i] \in Int
    PROVE  Valuation(t, y, y2, hidden) \in Valuations
<1> DEFINE v == Valuation(t, y, y2, hidden)
<1>1. \A i \in Names : v[i] \in Int
  <2> TAKE i \in Names
  <2>1. CASE \E u \in Vars : t.in[u] = i
    <3> DEFINE u == CHOOSE u \in Vars : t.in[u] = i
    <3>1. u \in Vars
      BY <2>1
    <3>2. v[i] = y[u]
      BY <2>1 DEF Valuation
    <3> QED BY <3>1, <3>2 DEF IntPoints
  <2>2. CASE ~(\E u \in Vars : t.in[u] = i) /\ \E u \in Vars : t.out[u] = i
    <3> DEFINE u == CHOOSE u \in Vars : t.out[u] = i
    <3>1. u \in Vars
      BY <2>2
    <3>2. v[i] = y2[u]
      BY <2>2 DEF Valuation
    <3> QED BY <3>1, <3>2 DEF IntPoints
  <2>3. CASE ~(\E u \in Vars : t.in[u] = i) /\ ~(\E u \in Vars : t.out[u] = i)
    <3>1. v[i] = IF i \in DOMAIN hidden THEN hidden[i] ELSE 0
      BY <2>3 DEF Valuation
    <3>2. CASE i \in DOMAIN hidden
      BY <3>1, <3>2
    <3>3. CASE i \notin DOMAIN hidden
      BY <3>1, <3>3
    <3> QED BY <3>2, <3>3
  <2> QED BY <2>1, <2>2, <2>3
<1>2. v = [i \in Names |-> v[i]]
  BY DEF Valuation
<1> HIDE DEF v
<1> QED BY <1>1, <1>2 DEF Valuations, v

\* The name a variable has before the step gets its value before, the name it has
\* after the step its value after, unless the two are one name.
LEMMA ValuationReads ==
    ASSUME NEW t \in Transition, DistinctNames(t), NEW y, NEW y2, NEW hidden, NEW u \in Vars
    PROVE  /\ Valuation(t, y, y2, hidden)[t.in[u]] = y[u]
           /\ t.in[u] # t.out[u] => Valuation(t, y, y2, hidden)[t.out[u]] = y2[u]
<1>1. t.in[u] \in Names /\ t.out[u] \in Names
  BY DEF Transition
<1>2. \A u2 \in Vars : t.in[u2] = t.in[u] => u2 = u
  BY DEF DistinctNames
<1>3. \A u2 \in Vars : t.out[u2] = t.out[u] => u2 = u
  BY DEF DistinctNames
<1>4. \A u2 \in Vars : t.in[u2] = t.out[u] => u2 = u
  BY DEF DistinctNames
<1>5. Valuation(t, y, y2, hidden)[t.in[u]] = y[u]
  <2> DEFINE k == CHOOSE u2 \in Vars : t.in[u2] = t.in[u]
  <2>1. k = u
    BY <1>2
  <2>2. Valuation(t, y, y2, hidden)[t.in[u]] = y[k]
    BY <1>1 DEF Valuation
  <2> QED BY <2>1, <2>2
<1>6. ASSUME t.in[u] # t.out[u]
      PROVE  Valuation(t, y, y2, hidden)[t.out[u]] = y2[u]
  <2> DEFINE k == CHOOSE u2 \in Vars : t.out[u2] = t.out[u]
  <2>1. k = u
    BY <1>3
  <2>2. ~\E u2 \in Vars : t.in[u2] = t.out[u]
    BY <1>4, <1>6
  <2>3. Valuation(t, y, y2, hidden)[t.out[u]] = y2[k]
    BY <1>1, <2>2 DEF Valuation
  <2> QED BY <2>1, <2>3
<1> QED BY <1>5, <1>6

----------------------------------------------------------------------------
(* Inequalities along rays.                                                *)

LEMMA LinearType ==
    ASSUME NEW ineq \in Inequality, NEW v \in Valuations
    PROVE  /\ Linear(ineq, v) \in Int /\ ineq.const \in Int /\ ineq.strict \in BOOLEAN
           /\ Value(ineq, v) = Linear(ineq, v) + ineq.const
           /\ RayHolds(ineq, v) <=> Linear(ineq, v) >= 0
BY Products DEF Linear, Value, RayHolds, Inequality

\* k times v plus m times v2
LEMMA LinearCombines ==
    ASSUME NEW ineq \in Inequality, NEW v \in Valuations, NEW v2 \in Valuations, NEW k \in Int, NEW m \in Int
    PROVE  LET v3 == [i \in Names |-> k * v[i] + m * v2[i]]
           IN  v3 \in Valuations /\ Linear(ineq, v3) = k * Linear(ineq, v) + m * Linear(ineq, v2)
<1> DEFINE v3 == [i \in Names |-> k * v[i] + m * v2[i]]
           f == [i \in Names |-> ineq.coef[i] * v[i]]
           f2 == [i \in Names |-> ineq.coef[i] * v2[i]]
           g == [i \in Names |-> k * f[i]]
           g2 == [i \in Names |-> m * f2[i]]
           h == [i \in Names |-> ineq.coef[i] * v3[i]]
<1>1. \A i \in 1..NumNames : ineq.coef[i] \in Int /\ v[i] \in Int /\ v2[i] \in Int
  BY DEF Inequality, Valuations, Names
<1>2. \A i \in 1..NumNames : /\ f[i] = ineq.coef[i] * v[i] /\ f2[i] = ineq.coef[i] * v2[i]
                             /\ g[i] = k * f[i] /\ g2[i] = m * f2[i]
                             /\ v3[i] = k * v[i] + m * v2[i] /\ h[i] = ineq.coef[i] * v3[i]
  BY DEF Names
<1>3. v3 \in Valuations
  <2>1. \A i \in Names : k * v[i] + m * v2[i] \in Int
    BY <1>1 DEF Names
  <2> QED BY <2>1 DEF Valuations
<1>4. Linear(ineq, v) = Sum(NumNames, f) /\ Linear(ineq, v2) = Sum(NumNames, f2)
      /\ Linear(ineq, v3) = Sum(NumNames, h)
  BY DEF Linear
<1> HIDE DEF v3, f, f2, g, g2, h
<1>5. \A i \in 1..NumNames : f[i] \in Int /\ f2[i] \in Int /\ g[i] \in Int /\ g2[i] \in Int
  BY <1>1, <1>2
<1>6. \A i \in 1..NumNames : h[i] = g[i] + g2[i]
  <2> TAKE i \in 1..NumNames
  <2> DEFINE a == ineq.coef[i]
             b == v[i]
             b2 == v2[i]
  <2>1. a \in Int /\ b \in Int /\ b2 \in Int
    BY <1>1
  <2>2. h[i] = a * (k * b + m * b2) /\ g[i] = k * (a * b) /\ g2[i] = m * (a * b2)
    BY <1>2
  <2> HIDE DEF a, b, b2
  <2>3. a * (k * b + m * b2) = k * (a * b) + m * (a * b2)
    BY <2>1
  <2> QED BY <2>2, <2>3
<1>7. Sum(NumNames, h) = Sum(NumNames, g) + Sum(NumNames, g2)
  BY <1>5, <1>6, SumAdd, SizesAreNat
<1>8. Sum(NumNames, g) = k * Sum(NumNames, f)
  BY <1>2, <1>5, SumScale, SizesAreNat
<1>9. Sum(NumNames, g2) = m * Sum(NumNames, f2)
  BY <1>2, <1>5, SumScale, SizesAreNat
<1> QED BY <1>3, <1>4, <1>7, <1>8, <1>9 DEF v3

\* Adding all the rays adds up what they add to an inequality.
LEMMA LinearSum ==
    ASSUME NEW ineq \in Inequality, NEW v \in Valuations, NEW n \in Nat, NEW rays \in [1..n -> Valuations]
    PROVE  /\ NextIteration(v, rays) \in Valuations
           /\ Linear(ineq, NextIteration(v, rays))
                = Linear(ineq, v) + Sum(n, [k \in 1..n |-> Linear(ineq, rays[k])])
<1> DEFINE total == [i \in Names |-> Sum(n, [k \in 1..n |-> rays[k][i]])]
           f == [k \in 1..n |-> [i \in Names |-> ineq.coef[i] * rays[k][i]]]
           g == [i \in Names |-> [k \in 1..n |-> ineq.coef[i] * rays[k][i]]]
           rows == [k \in 1..n |-> Linear(ineq, rays[k])]
           columns == [i \in Names |-> ineq.coef[i] * total[i]]
           base == [i \in Names |-> ineq.coef[i] * v[i]]
           v3 == [i \in Names |-> v[i] + total[i]]
           h == [i \in Names |-> ineq.coef[i] * v3[i]]
<1>1. \A i \in Names : ineq.coef[i] \in Int /\ v[i] \in Int /\ \A k \in 1..n : rays[k][i] \in Int
  BY DEF Inequality, Valuations
<1>2. \A i \in Names : total[i] \in Int
  <2> TAKE i \in Names
  <2> DEFINE q == [k \in 1..n |-> rays[k][i]]
  <2>1. \A k \in 1..n : q[k] \in Int
    BY <1>1
  <2>2. total[i] = Sum(n, q)
    OBVIOUS
  <2> HIDE DEF q, total
  <2> QED BY <2>1, <2>2, SumType
<1>3. \A i \in Names : columns[i] = Sum(n, g[i])
  <2> TAKE i \in Names
  <2> DEFINE q == [k \in 1..n |-> rays[k][i]]
             r == g[i]
  <2>1. \A k \in 1..n : q[k] \in Int /\ r[k] = ineq.coef[i] * q[k]
    BY <1>1
  <2>2. total[i] = Sum(n, q) /\ columns[i] = ineq.coef[i] * total[i] /\ ineq.coef[i] \in Int
    BY <1>1
  <2> HIDE DEF q, r, total, columns
  <2>3. Sum(n, r) = ineq.coef[i] * Sum(n, q)
    BY <2>1, <2>2, SumScale
  <2> QED BY <2>2, <2>3 DEF r
<1>4. Matrix(n, NumNames, f, g, rows, columns)
  <2>1. \A k \in 1..n, i \in 1..NumNames : f[k][i] \in Int /\ g[i][k] = f[k][i]
    BY <1>1 DEF Names
  <2>2. \A k \in 1..n : rows[k] = Sum(NumNames, f[k])
    BY DEF Linear
  <2>3. \A i \in 1..NumNames : columns[i] = Sum(n, g[i])
    BY <1>3 DEF Names
  <2> HIDE DEF f, g, rows, columns
  <2> QED BY <2>1, <2>2, <2>3 DEF Matrix
<1>5. Sum(n, rows) = Sum(NumNames, columns)
  <2> HIDE DEF f, g, rows, columns
  <2> QED BY <1>4, SumSwap, SizesAreNat
<1>6. Len(rays) = n
  OBVIOUS
<1>7. NextIteration(v, rays) = v3
  BY <1>6 DEF NextIteration
<1>8. \A i \in Names : v3[i] = v[i] + total[i] /\ h[i] = ineq.coef[i] * v3[i]
                       /\ base[i] = ineq.coef[i] * v[i] /\ columns[i] = ineq.coef[i] * total[i]
  OBVIOUS
<1>9. v3 \in Valuations
  <2>1. \A i \in Names : v[i] + total[i] \in Int
    BY <1>1, <1>2
  <2> HIDE DEF total
  <2> QED BY <2>1 DEF Valuations
<1>10. Linear(ineq, v3) = Sum(NumNames, h) /\ Linear(ineq, v) = Sum(NumNames, base)
  BY DEF Linear
<1> HIDE DEF total, f, g, rows, columns, base, v3, h
<1>11. \A i \in 1..NumNames : base[i] \in Int /\ columns[i] \in Int /\ h[i] = base[i] + columns[i]
  <2> TAKE i \in 1..NumNames
  <2> DEFINE a == ineq.coef[i]
             b == v[i]
             c == total[i]
  <2>1. a \in Int /\ b \in Int /\ c \in Int
    BY <1>1, <1>2 DEF Names
  <2>2. h[i] = a * (b + c) /\ base[i] = a * b /\ columns[i] = a * c
    BY <1>8 DEF Names
  <2> HIDE DEF a, b, c
  <2>3. a * (b + c) = a * b + a * c /\ a * b \in Int /\ a * c \in Int
    BY <2>1
  <2> QED BY <2>2, <2>3
<1>12. Sum(NumNames, h) = Sum(NumNames, base) + Sum(NumNames, columns)
  BY <1>11, SumAdd, SizesAreNat
<1> QED BY <1>5, <1>7, <1>9, <1>10, <1>12 DEF rows

LEMMA SatisfiesNext ==
    ASSUME NEW poly \in Seq(Inequality), NEW v \in Valuations, NEW n \in Nat,
           NEW rays \in [1..n -> Valuations],
           Satisfies(poly, v), \A k \in 1..n : RaySatisfies(poly, rays[k])
    PROVE  Satisfies(poly, NextIteration(v, rays))
<1> SUFFICES ASSUME NEW j \in 1..Len(poly) PROVE Holds(poly[j], NextIteration(v, rays))
  BY DEF Satisfies
<1> DEFINE e == poly[j]
           next == NextIteration(v, rays)
           added == [k \in 1..n |-> Linear(e, rays[k])]
<1>1. e \in Inequality
  OBVIOUS
<1>2. Holds(e, v) /\ \A k \in 1..n : RayHolds(e, rays[k])
  BY DEF Satisfies, RaySatisfies
<1> HIDE DEF e
<1>3. next \in Valuations /\ Linear(e, next) = Linear(e, v) + Sum(n, added)
  BY <1>1, LinearSum
<1>4. Linear(e, v) \in Int /\ e.const \in Int /\ Value(e, v) = Linear(e, v) + e.const
  BY <1>1, LinearType
<1>5. \A k \in 1..n : added[k] \in Int /\ added[k] >= 0
  BY <1>1, <1>2, LinearType
<1> HIDE DEF added, next
<1>6. Sum(n, added) \in Int /\ Sum(n, added) >= 0
  BY <1>5, SumType, SumNonneg
<1>7. Linear(e, next) \in Int /\ Value(e, next) = Linear(e, next) + e.const
  BY <1>1, <1>3, LinearType
<1>8. Value(e, next) >= Value(e, v) /\ Value(e, next) \in Int /\ Value(e, v) \in Int
  BY <1>3, <1>4, <1>6, <1>7
<1>9. CASE e.strict
  <2>1. Value(e, v) > 0
    BY <1>2, <1>9 DEF Holds
  <2>2. Value(e, next) > 0
    BY <1>8, <2>1
  <2> QED BY <1>9, <2>2 DEF Holds, e, next
<1>10. CASE ~e.strict
  <2>1. Value(e, v) >= 0
    BY <1>2, <1>10 DEF Holds
  <2>2. Value(e, next) >= 0
    BY <1>8, <2>1
  <2> QED BY <1>10, <2>2 DEF Holds, e, next
<1> QED BY <1>9, <1>10

RayFactors(c, n) == c.lambdas \in [1..n -> Nat] /\ c.nus \in [1..(n - 1) -> Nat]

\* A combination of two rays with factors that are not negative is a ray.
LEMMA RayCombines ==
    ASSUME NEW a \in Nat, NEW b \in Nat, NEW v \in Valuations, NEW v2 \in Valuations,
           NEW r, r = [i \in Names |-> a * v[i] + b * v2[i]]
    PROVE  /\ r \in Valuations
           /\ \A e \in Inequality : RayHolds(e, v) /\ RayHolds(e, v2) => RayHolds(e, r)
<1>1. a \in Int /\ b \in Int
  OBVIOUS
<1>2. \A i \in Names : a * v[i] + b * v2[i] \in Int
  <2> TAKE i \in Names
  <2>1. v[i] \in Int /\ v2[i] \in Int
    BY DEF Valuations
  <2> DEFINE p == v[i]
             q == v2[i]
  <2>2. p \in Int /\ q \in Int
    BY <2>1
  <2> HIDE DEF p, q
  <2>3. a * p + b * q \in Int
    BY <1>1, <2>2
  <2> QED BY <2>3 DEF p, q
<1>3. r \in Valuations
  BY <1>2 DEF Valuations
<1>4. ASSUME NEW e \in Inequality, RayHolds(e, v), RayHolds(e, v2)
      PROVE  RayHolds(e, r)
  <2>1. Linear(e, r) = a * Linear(e, v) + b * Linear(e, v2)
    BY <1>1, LinearCombines
  <2>2. Linear(e, v) \in Int /\ Linear(e, v) >= 0 /\ Linear(e, v2) \in Int /\ Linear(e, v2) >= 0
    BY <1>4, LinearType
  <2> DEFINE p == Linear(e, v)
             q == Linear(e, v2)
  <2>3. p \in Nat /\ q \in Nat
    BY <2>2
  <2> HIDE DEF p, q
  <2>4. a * p \in Nat /\ b * q \in Nat
    BY <2>3
  <2>5. Linear(e, r) >= 0
    BY <2>1, <2>4 DEF p, q
  <2> QED BY <1>3, <2>5, LinearType
<1> QED BY <1>3, <1>4

LEMMA RaySatisfiesNext ==
    ASSUME NEW poly \in Seq(Inequality), NEW n \in Nat, NEW rays \in [1..n -> Valuations],
           NEW c, RayFactors(c, n), \A k \in 1..n : RaySatisfies(poly, rays[k])
    PROVE  /\ NextRays(c, rays) \in [1..n -> Valuations]
           /\ \A k \in 1..n : RaySatisfies(poly, NextRays(c, rays)[k])
<1>1. Len(rays) = n
  OBVIOUS
<1>2. ASSUME NEW k \in 1..n
      PROVE  \E a, b \in Nat, m \in 1..n :
               NextRays(c, rays)[k] = [i \in Names |-> a * rays[k][i] + b * rays[m][i]]
  <2>1. c.lambdas[k] \in Nat
    BY DEF RayFactors
  <2>2. CASE k < n
    <3>1. k + 1 \in 1..n /\ c.nus[k] \in Nat
      BY <2>2 DEF RayFactors
    <3>2. NextRays(c, rays)[k] = [i \in Names |-> c.lambdas[k] * rays[k][i] + c.nus[k] * rays[k + 1][i]]
      BY <1>1, <2>2 DEF NextRays
    <3> QED BY <2>1, <3>1, <3>2
  <2>3. CASE ~(k < n)
    <3>1. NextRays(c, rays)[k] = [i \in Names |-> c.lambdas[k] * rays[k][i]]
      BY <1>1, <2>3 DEF NextRays
    <3>2. ASSUME NEW i \in Names
          PROVE  c.lambdas[k] * rays[k][i] = c.lambdas[k] * rays[k][i] + 0 * rays[k][i]
      <4> DEFINE p == rays[k][i]
                 q == c.lambdas[k]
      <4>1. p \in Int /\ q \in Int
        BY <2>1 DEF Valuations
      <4> HIDE DEF p, q
      <4>2. q * p = q * p + 0 * p
        BY <4>1
      <4> QED BY <4>2 DEF p, q
    <3>3. NextRays(c, rays)[k] = [i \in Names |-> c.lambdas[k] * rays[k][i] + 0 * rays[k][i]]
      BY <3>1, <3>2, Zenon
    <3> QED BY <2>1, <3>3
  <2> QED BY <2>2, <2>3
<1>3. ASSUME NEW k \in 1..n
      PROVE  /\ NextRays(c, rays)[k] \in Valuations
             /\ \A e \in Inequality : (\A m \in 1..n : RayHolds(e, rays[m]))
                                        => RayHolds(e, NextRays(c, rays)[k])
  <2>1. PICK a \in Nat, b \in Nat, m \in 1..n :
          NextRays(c, rays)[k] = [i \in Names |-> a * rays[k][i] + b * rays[m][i]]
    BY <1>2
  <2>2. rays[k] \in Valuations /\ rays[m] \in Valuations
    OBVIOUS
  <2> DEFINE r == NextRays(c, rays)[k]
  <2>3. r = [i \in Names |-> a * rays[k][i] + b * rays[m][i]]
    BY <2>1
  <2> HIDE DEF r
  <2>4. /\ r \in Valuations
        /\ \A e \in Inequality : RayHolds(e, rays[k]) /\ RayHolds(e, rays[m]) => RayHolds(e, r)
    BY <2>2, <2>3, RayCombines
  <2> QED BY <2>4 DEF r
<1>4. NextRays(c, rays) \in [1..n -> Valuations]
  <2>1. NextRays(c, rays) = [k \in 1..n |-> NextRays(c, rays)[k]]
    BY <1>1 DEF NextRays
  <2> QED BY <1>3, <2>1
<1>5. ASSUME NEW k \in 1..n, NEW j \in 1..Len(poly)
      PROVE  RayHolds(poly[j], NextRays(c, rays)[k])
  <2>1. poly[j] \in Inequality /\ \A m \in 1..n : RayHolds(poly[j], rays[m])
    BY DEF RaySatisfies
  <2> QED BY <1>3, <2>1
<1> QED BY <1>4, <1>5 DEF RaySatisfies

----------------------------------------------------------------------------
(* Each iteration starts where the one before it ended.                    *)

\* What ray k is one iteration later, for name i.
Ahead(c, n, rays, k, i) ==
    c.lambdas[k] * rays[k][i] + (IF k < n THEN c.nus[k] * rays[k + 1][i] ELSE 0)

Connected(t, c, n, v, rays) ==
    /\ \A u \in Vars : v[t.out[u]] = v[t.in[u]] + Sum(n, [k \in 1..n |-> rays[k][t.in[u]]])
    /\ \A k \in 1..n, u \in Vars : rays[k][t.out[u]] = Ahead(c, n, rays, k, t.in[u])

LEMMA NextRaysAt ==
    ASSUME NEW n \in Nat, NEW rays \in [1..n -> Valuations], NEW c, RayFactors(c, n),
           NEW k \in 1..n, NEW i \in Names
    PROVE  NextRays(c, rays)[k][i] = Ahead(c, n, rays, k, i)
<1>1. Len(rays) = n
  OBVIOUS
<1>2. CASE k < n
  BY <1>1, <1>2 DEF NextRays, Ahead
<1>3. CASE ~(k < n)
  <2>1. NextRays(c, rays)[k][i] = c.lambdas[k] * rays[k][i]
    BY <1>1, <1>3 DEF NextRays
  <2> DEFINE p == rays[k][i]
             q == c.lambdas[k]
  <2>2. p \in Int /\ q \in Int
    BY DEF Valuations, RayFactors
  <2>3. Ahead(c, n, rays, k, i) = q * p + 0
    BY <1>3 DEF Ahead
  <2> HIDE DEF p, q
  <2>4. q * p + 0 = q * p
    BY <2>2
  <2> QED BY <2>1, <2>3, <2>4 DEF p, q
<1> QED BY <1>2, <1>3

LEMMA StaysConnected ==
    ASSUME NEW t \in Transition, NEW n \in Nat, NEW rays \in [1..n -> Valuations],
           NEW v \in Valuations, NEW c, RayFactors(c, n), Connected(t, c, n, v, rays)
    PROVE  /\ \A u \in Vars : NextIteration(v, rays)[t.in[u]] = v[t.out[u]]
           /\ Connected(t, c, n, NextIteration(v, rays), NextRays(c, rays))
<1> DEFINE v2 == NextIteration(v, rays)
           rays2 == NextRays(c, rays)
<1>1. Len(rays) = n
  OBVIOUS
<1>2. \A i \in Names : v2[i] = v[i] + Sum(n, [k \in 1..n |-> rays[k][i]])
  BY <1>1 DEF NextIteration
<1>3. \A u \in Vars : t.in[u] \in Names /\ t.out[u] \in Names
  BY DEF Transition
<1>4. \A u \in Vars : v2[t.in[u]] = v[t.out[u]]
  BY <1>2, <1>3 DEF Connected
<1>5. \A k \in 1..n, u \in Vars : rays2[k][t.in[u]] = rays[k][t.out[u]]
  BY <1>3, NextRaysAt DEF Connected
<1>6. ASSUME NEW u \in Vars
      PROVE  v2[t.out[u]] = v2[t.in[u]] + Sum(n, [k \in 1..n |-> rays2[k][t.in[u]]])
  <2> DEFINE f == [k \in 1..n |-> rays[k][t.out[u]]]
             g == [k \in 1..n |-> rays2[k][t.in[u]]]
  <2>1. v2[t.out[u]] = v[t.out[u]] + Sum(n, f)
    BY <1>2, <1>3
  <2>2. \A k \in 1..n : f[k] = g[k]
    BY <1>5
  <2> HIDE DEF f, g, v2
  <2>3. Sum(n, f) = Sum(n, g)
    BY <2>2, SumSame
  <2> QED BY <1>4, <2>1, <2>3 DEF g
<1>7. ASSUME NEW k \in 1..n, NEW u \in Vars
      PROVE  rays2[k][t.out[u]] = Ahead(c, n, rays2, k, t.in[u])
  <2>1. rays2[k][t.out[u]] = Ahead(c, n, rays, k, t.out[u])
    BY <1>3, NextRaysAt
  <2>2. rays2[k][t.in[u]] = rays[k][t.out[u]]
    BY <1>5
  <2>3. k < n => rays2[k + 1][t.in[u]] = rays[k + 1][t.out[u]]
    BY <1>5
  <2> HIDE DEF rays2
  <2> QED BY <2>1, <2>2, <2>3 DEF Ahead
<1> QED BY <1>4, <1>6, <1>7 DEF Connected

----------------------------------------------------------------------------
(* What is in a claim.                                                     *)

ClaimShape(c, l, s) ==
    /\ c.p \in 1..Len(l.loop.polys)
    /\ c.ys \in [1..s.gevs -> Points] /\ c.rays \in [1..s.gevs -> Hidden(l.loop)]
    /\ c.x0 \in Points /\ c.x1 \in Points
    /\ c.aux \in Hidden(l.stem) /\ c.iter \in Hidden(l.loop)
    /\ RayFactors(c, s.gevs)

ClaimOf(c, l, s) ==
    /\ ClaimShape(c, l, s)
    /\ IdentityConstraints(l, c, s.linear)
    /\ RayConstraints(l, c)
    /\ FirstIterationConstraints(l, c)
    /\ StemConstraints(l, c.x0, c.x1, c.aux)

LEMMA FactorsAreNatural ==
    ASSUME NEW s \in Settings, NEW c, c.lambdas \in Lambdas(s), c.nus \in Nus(s)
    PROVE  s.gevs \in Nat /\ RayFactors(c, s.gevs)
<1>1. s.gevs \in Nat
  BY SettingsAssumption
<1>2. (IF s.linear THEN {1} ELSE 0..MaxLambda) \subseteq Nat
  BY ClaimAssumption
<1>3. (IF s.linear /\ s.nilpotent THEN {0, 1} ELSE {0}) \subseteq Nat
  OBVIOUS
<1>4. c.lambdas \in [1..s.gevs -> Nat]
  BY <1>2 DEF Lambdas
<1>5. c.nus \in [1..(s.gevs - 1) -> Nat]
  BY <1>3 DEF Nus
<1> QED BY <1>1, <1>4, <1>5 DEF RayFactors

LEMMA ClaimFacts ==
    ASSUME NEW l \in Lassos, NEW s \in Settings, NEW e \in SatisfyingClaims[l][s]
    PROVE  s.gevs \in Nat /\ ClaimOf(e, l, s) /\ e # NoClaim
<1>1. e \in Claims(l, s)
  BY DEF SatisfyingClaims
<1>2. PICK c \in Rays(l, s), d \in Starts(l) :
        /\ e = [p |-> c.p, ys |-> c.ys, lambdas |-> c.lambdas, nus |-> c.nus, rays |-> c.rays,
                x0 |-> d.x0, x1 |-> d.x1, aux |-> d.aux, iter |-> d.iter]
        /\ FirstIterationConstraints(l, e)
  BY <1>1 DEF Claims
<1>3. /\ c.p \in Branches(l) /\ c.ys \in [1..s.gevs -> Points] /\ c.lambdas \in Lambdas(s)
      /\ c.nus \in Nus(s) /\ c.rays \in [1..s.gevs -> Hidden(l.loop)]
      /\ IdentityConstraints(l, c, s.linear) /\ RayConstraints(l, c)
  BY DEF Rays
<1>4. /\ d.x0 \in Points /\ d.x1 \in Points /\ d.aux \in Hidden(l.stem) /\ d.iter \in Hidden(l.loop)
      /\ StemConstraints(l, d.x0, d.x1, d.aux)
  BY DEF Starts
<1>5. Branches(l) \subseteq 1..Len(l.loop.polys)
  BY DEF Branches
<1>6. /\ e.p = c.p /\ e.ys = c.ys /\ e.lambdas = c.lambdas /\ e.nus = c.nus /\ e.rays = c.rays
      /\ e.x0 = d.x0 /\ e.x1 = d.x1 /\ e.aux = d.aux /\ e.iter = d.iter
  BY <1>2
<1>7. RayFactors(e, s.gevs) /\ s.gevs \in Nat
  BY <1>3, <1>6, FactorsAreNatural
<1>8. ClaimShape(e, l, s)
  BY <1>3, <1>4, <1>5, <1>6, <1>7 DEF ClaimShape
<1>9. IdentityConstraints(l, e, s.linear)
  <2>1. Total(e) = Total(c) /\ \A i : NextRay(e, i) = NextRay(c, i)
    BY <1>6 DEF Total, NextRay, Successor
  <2> QED BY <1>3, <1>6, <2>1 DEF IdentityConstraints
<1>10. RayConstraints(l, e)
  BY <1>3, <1>6, Zenon DEF RayConstraints, RayIteration, NextRay, Successor
<1>11. StemConstraints(l, e.x0, e.x1, e.aux)
  BY <1>4, <1>6
<1>12. e # NoClaim
  <2>1. DOMAIN e = {"p", "ys", "lambdas", "nus", "rays", "x0", "x1", "aux", "iter"}
    BY <1>2
  <2>2. DOMAIN NoClaim = {"none"}
    BY DEF NoClaim
  <2> QED BY <2>1, <2>2
<1> QED BY <1>2, <1>7, <1>8, <1>9, <1>10, <1>11, <1>12 DEF ClaimOf

LEMMA PointsAreInt ==
    /\ Points \subseteq IntPoints
    /\ \A t, h : h \in Hidden(t) => \A i \in DOMAIN h : h[i] \in Int
<1>1. ASSUME NEW y \in Points PROVE y \in IntPoints
  <2>1. \A u \in Vars : y[u] \in Int
    BY ClaimAssumption DEF Points
  <2> QED BY <2>1 DEF Points, IntPoints
<1>2. ASSUME NEW t, NEW h \in Hidden(t), NEW i \in DOMAIN h PROVE h[i] \in Int
  <2>1. h[i] \in ClaimValues
    BY DEF Hidden
  <2> QED BY <2>1, ClaimAssumption
<1> QED BY <1>1, <1>2

LEMMA RayTypes ==
    ASSUME NEW l, NEW s \in Settings, NEW c, s.gevs \in Nat, ClaimShape(c, l, s)
    PROVE  /\ Len(c.ys) = s.gevs
           /\ \A k \in 1..s.gevs : c.ys[k] \in IntPoints /\ NextRay(c, k) \in IntPoints
           /\ Total(c) \in IntPoints
           /\ c.x0 \in IntPoints /\ c.x1 \in IntPoints
           /\ [u \in Vars |-> c.x1[u] + Total(c)[u]] \in IntPoints
<1>1. c.ys \in [1..s.gevs -> Points] /\ Len(c.ys) = s.gevs /\ RayFactors(c, s.gevs)
  BY DEF ClaimShape
<1>2. \A k \in 1..s.gevs : c.ys[k] \in IntPoints
  BY <1>1, PointsAreInt
<1>3. ASSUME NEW k \in 1..s.gevs PROVE NextRay(c, k) \in IntPoints
  <2>1. ASSUME NEW u \in Vars PROVE Successor(c, k)[u] \in Int
    <3>1. CASE k < s.gevs
      <4>0. k \in 1..(s.gevs - 1) /\ k + 1 \in 1..s.gevs
        BY <3>1
      <4>1. c.nus[k] \in Int /\ c.ys[k + 1] \in IntPoints
        BY <1>1, <1>2, <4>0 DEF RayFactors
      <4>2. Successor(c, k)[u] = c.nus[k] * c.ys[k + 1][u]
        BY <1>1, <3>1 DEF Successor
      <4> DEFINE p == c.ys[k + 1][u]
                 q == c.nus[k]
      <4>3. p \in Int /\ q \in Int
        BY <4>1 DEF IntPoints
      <4> HIDE DEF p, q
      <4>4. q * p \in Int
        BY <4>3
      <4> QED BY <4>2, <4>4 DEF p, q
    <3>2. CASE ~(k < s.gevs)
      BY <1>1, <3>2 DEF Successor
    <3> QED BY <3>1, <3>2
  <2>2. ASSUME NEW u \in Vars PROVE c.lambdas[k] * c.ys[k][u] + Successor(c, k)[u] \in Int
    <3> DEFINE p == c.ys[k][u]
               q == c.lambdas[k]
               r == Successor(c, k)[u]
    <3>1. p \in Int /\ q \in Int /\ r \in Int
      BY <1>1, <1>2, <2>1 DEF IntPoints, RayFactors
    <3> HIDE DEF p, q, r
    <3>2. q * p + r \in Int
      BY <3>1
    <3> QED BY <3>2 DEF p, q, r
  <2> QED BY <2>2 DEF NextRay, IntPoints
<1>4. Total(c) \in IntPoints
  <2>1. ASSUME NEW u \in Vars PROVE Total(c)[u] \in Int
    <3> DEFINE f == [i \in 1..s.gevs |-> c.ys[i][u]]
    <3>1. \A i \in 1..s.gevs : f[i] \in Int
      BY <1>2 DEF IntPoints
    <3>2. Total(c)[u] = Sum(s.gevs, f)
      BY <1>1 DEF Total
    <3> HIDE DEF f
    <3> QED BY <3>1, <3>2, SumType
  <2>2. Total(c) = [u \in Vars |-> Total(c)[u]]
    BY DEF Total
  <2> QED BY <2>1, <2>2 DEF IntPoints
<1>5. c.x0 \in IntPoints /\ c.x1 \in IntPoints
  BY PointsAreInt DEF ClaimShape
<1>6. [u \in Vars |-> c.x1[u] + Total(c)[u]] \in IntPoints
  BY <1>4, <1>5 DEF IntPoints
<1> QED BY <1>1, <1>2, <1>3, <1>4, <1>5, <1>6

\* The first iteration and the rays of a claim.
FirstRays(l, s, c) == [i \in 1..s.gevs |-> RayIteration(l, c, i)]

LEMMA ClaimStarts ==
    ASSUME NEW l \in Lassos, NEW s \in Settings, NEW c, s.gevs \in Nat, ClaimOf(c, l, s)
    PROVE  /\ FirstIteration(l, c) \in Valuations
           /\ FirstRays(l, s, c) \in [1..s.gevs -> Valuations]
           /\ Satisfies(l.loop.polys[c.p], FirstIteration(l, c))
           /\ \A k \in 1..s.gevs : RaySatisfies(l.loop.polys[c.p], FirstRays(l, s, c)[k])
           /\ Connected(l.loop, c, s.gevs, FirstIteration(l, c), FirstRays(l, s, c))
<1> DEFINE n == s.gevs
           t == l.loop
           v == FirstIteration(l, c)
           rays == FirstRays(l, s, c)
<1>1. ClaimShape(c, l, s)
  BY DEF ClaimOf
<1>2. /\ Len(c.ys) = n /\ c.x1 \in IntPoints
      /\ \A k \in 1..n : c.ys[k] \in IntPoints /\ NextRay(c, k) \in IntPoints
      /\ Total(c) \in IntPoints /\ [u \in Vars |-> c.x1[u] + Total(c)[u]] \in IntPoints
  BY <1>1, RayTypes
<1>3. t \in Transition /\ DistinctNames(t)
  BY LassosAssumption, NamesAssumption
<1>4. v \in Valuations
  <2>1. c.iter \in Hidden(t)
    BY <1>1 DEF ClaimShape
  <2>2. \A i \in DOMAIN c.iter : c.iter[i] \in Int
    BY <2>1, PointsAreInt
  <2> QED BY <1>2, <2>2, ValuationType DEF FirstIteration
<1>5. ASSUME NEW k \in 1..n PROVE RayIteration(l, c, k) \in Valuations
  <2>1. c.rays[k] \in Hidden(t)
    BY <1>1 DEF ClaimShape
  <2>2. \A i \in DOMAIN c.rays[k] : c.rays[k][i] \in Int
    BY <2>1, PointsAreInt
  <2> QED BY <1>2, <2>2, ValuationType DEF RayIteration
<1>6. rays \in [1..n -> Valuations]
  BY <1>5 DEF FirstRays
<1>7. \A k \in 1..n : RaySatisfies(t.polys[c.p], rays[k])
  BY <1>2 DEF ClaimOf, RayConstraints, FirstRays
<1>8. Satisfies(t.polys[c.p], v)
  BY DEF ClaimOf, FirstIterationConstraints
<1>9. \A u \in Vars : /\ v[t.in[u]] = c.x1[u]
                      /\ t.in[u] # t.out[u] => v[t.out[u]] = c.x1[u] + Total(c)[u]
  <2> TAKE u \in Vars
  <2> DEFINE y2 == [u2 \in Vars |-> c.x1[u2] + Total(c)[u2]]
  <2>1. y2[u] = c.x1[u] + Total(c)[u]
    OBVIOUS
  <2>2. v = Valuation(t, c.x1, y2, c.iter)
    BY DEF FirstIteration
  <2> HIDE DEF y2, v
  <2> QED BY <1>3, <2>1, <2>2, ValuationReads
<1>10. \A k \in 1..n, u \in Vars :
          /\ rays[k][t.in[u]] = c.ys[k][u]
          /\ t.in[u] # t.out[u] => rays[k][t.out[u]] = NextRay(c, k)[u]
  <2> TAKE k \in 1..n, u \in Vars
  <2>1. rays[k] = Valuation(t, c.ys[k], NextRay(c, k), c.rays[k])
    BY DEF FirstRays, RayIteration
  <2> HIDE DEF rays
  <2> QED BY <1>3, <2>1, ValuationReads
<1>11. \A u \in Vars : Total(c)[u] = Sum(n, [k \in 1..n |-> rays[k][t.in[u]]])
  <2> TAKE u \in Vars
  <2> DEFINE f == [k \in 1..n |-> c.ys[k][u]]
             g == [k \in 1..n |-> rays[k][t.in[u]]]
  <2>1. \A k \in 1..n : f[k] = g[k]
    BY <1>10
  <2>2. Total(c)[u] = Sum(n, f)
    BY <1>2 DEF Total
  <2> HIDE DEF f, g
  <2>3. Sum(n, f) = Sum(n, g)
    BY <2>1, SumSame
  <2> QED BY <2>2, <2>3 DEF g
<1>12. \A k \in 1..n, u \in Vars : NextRay(c, k)[u] = Ahead(c, n, rays, k, t.in[u])
  <2> TAKE k \in 1..n, u \in Vars
  <2>1. rays[k][t.in[u]] = c.ys[k][u] /\ (k < n => rays[k + 1][t.in[u]] = c.ys[k + 1][u])
    BY <1>10
  <2>2. NextRay(c, k)[u] = c.lambdas[k] * c.ys[k][u] + Successor(c, k)[u]
    BY DEF NextRay
  <2>3. Successor(c, k)[u] = IF k < n THEN c.nus[k] * c.ys[k + 1][u] ELSE 0
    BY <1>2 DEF Successor
  <2> HIDE DEF rays
  <2> QED BY <2>1, <2>2, <2>3 DEF Ahead
<1>13. \A u \in Vars : t.in[u] = t.out[u] =>
          Total(c)[u] = 0 /\ \A k \in 1..n : c.ys[k][u] = NextRay(c, k)[u]
  <2> SUFFICES ASSUME NEW u \in Vars, t.in[u] = t.out[u]
               PROVE  Total(c)[u] = 0 /\ \A k \in 1..n : c.ys[k][u] = NextRay(c, k)[u]
    OBVIOUS
  <2>1. Total(c)[u] = 0 /\ \A k \in 1..n : c.ys[k][u] = IF s.linear THEN 0 ELSE NextRay(c, k)[u]
    BY <1>2 DEF ClaimOf, IdentityConstraints
  <2>2. ASSUME NEW k \in 1..n, s.linear PROVE NextRay(c, k)[u] = 0
    <3>1. c.ys[k][u] = 0 /\ (k < n => c.ys[k + 1][u] = 0)
      BY <2>1, <2>2
    <3>2. c.lambdas[k] \in Int /\ (k < n => c.nus[k] \in Int)
      BY <1>1 DEF ClaimShape, RayFactors
    <3>3. NextRay(c, k)[u] = c.lambdas[k] * 0 + (IF k < n THEN c.nus[k] * 0 ELSE 0)
      BY <1>2, <3>1 DEF NextRay, Successor
    <3> QED BY <3>2, <3>3
  <2> QED BY <2>1, <2>2
<1> HIDE DEF v, rays
<1>14. ASSUME NEW u \in Vars
       PROVE  v[t.out[u]] = v[t.in[u]] + Sum(n, [k \in 1..n |-> rays[k][t.in[u]]])
  <2>1. c.x1[u] \in Int
    BY <1>2 DEF IntPoints
  <2>2. v[t.out[u]] = c.x1[u] + Total(c)[u]
    BY <1>9, <1>13, <2>1
  <2> QED BY <1>9, <1>11, <2>2
<1>15. ASSUME NEW k \in 1..n, NEW u \in Vars
       PROVE  rays[k][t.out[u]] = Ahead(c, n, rays, k, t.in[u])
  BY <1>10, <1>12, <1>13
<1>16. Connected(t, c, n, v, rays)
  BY <1>14, <1>15 DEF Connected
<1> QED BY <1>4, <1>6, <1>7, <1>8, <1>16 DEF v, rays

----------------------------------------------------------------------------
(* The technique and the run it claims.                                    *)

\* What is known of iteration z and rays w of the run claimed with c.
OnTrack(l, s, c, v, rays) ==
    /\ v \in Valuations /\ rays \in [1..s.gevs -> Valuations]
    /\ Satisfies(l.loop.polys[c.p], v)
    /\ \A k \in 1..s.gevs : RaySatisfies(l.loop.polys[c.p], rays[k])
    /\ Connected(l.loop, c, s.gevs, v, rays)

GeometricInv ==
    /\ GeometricTypeOK
    /\ gresult = "NON_TERMINATING" =>
          /\ gpc = "done"
          /\ claim \in SatisfyingClaims[lasso][settings]
          /\ OnTrack(lasso, settings, claim, z, w)

LEMMA FollowStays ==
    ASSUME NEW l \in Lassos, NEW s \in Settings, NEW c \in SatisfyingClaims[l][s],
           NEW v, NEW rays, OnTrack(l, s, c, v, rays)
    PROVE  /\ OnTrack(l, s, c, NextIteration(v, rays), NextRays(c, rays))
           /\ \A u \in Vars : NextIteration(v, rays)[l.loop.in[u]] = v[l.loop.out[u]]
<1> DEFINE n == s.gevs
           poly == l.loop.polys[c.p]
<1>1. n \in Nat /\ RayFactors(c, n) /\ c.p \in 1..Len(l.loop.polys)
  BY ClaimFacts DEF ClaimOf, ClaimShape
<1>2. l.loop \in Transition
  BY LassosAssumption
<1>3. poly \in Seq(Inequality)
  BY <1>1, <1>2 DEF Transition
<1>4. /\ v \in Valuations /\ rays \in [1..n -> Valuations] /\ Satisfies(poly, v)
      /\ \A k \in 1..n : RaySatisfies(poly, rays[k])
      /\ Connected(l.loop, c, n, v, rays)
  BY DEF OnTrack
<1> HIDE DEF n, poly
<1>5. Satisfies(poly, NextIteration(v, rays))
  BY <1>1, <1>3, <1>4, SatisfiesNext
<1>6. /\ NextRays(c, rays) \in [1..n -> Valuations]
      /\ \A k \in 1..n : RaySatisfies(poly, NextRays(c, rays)[k])
  BY <1>1, <1>3, <1>4, RaySatisfiesNext
<1>7. NextIteration(v, rays) \in Valuations
  <2> DEFINE e == [coef |-> [i \in Names |-> 0], const |-> 0, strict |-> FALSE,
                   param |-> FALSE, motzkin |-> "ONE"]
  <2>1. e \in Inequality
    BY DEF Inequality, MotzkinCoefficient
  <2> HIDE DEF e
  <2> QED BY <1>1, <1>4, <2>1, LinearSum
<1>8. /\ \A u \in Vars : NextIteration(v, rays)[l.loop.in[u]] = v[l.loop.out[u]]
      /\ Connected(l.loop, c, n, NextIteration(v, rays), NextRays(c, rays))
  BY <1>1, <1>2, <1>4, StaysConnected
<1> QED BY <1>5, <1>6, <1>7, <1>8 DEF OnTrack, n, poly

LEMMA GeometricInitially == GeometricInit => GeometricInv
BY ClaimAssumption DEF GeometricInit, GeoInit, GeometricInv, GeometricTypeOK

LEMMA GeometricStep ==
    ASSUME GeometricInv, [GeoNext]_geometricVars
    PROVE  GeometricInv'
<1> USE DEF GeometricInv, GeometricTypeOK
<1>1. CASE GeoInitialize
  BY <1>1 DEF GeoInitialize
<1>2. CASE ArgumentFound
  <2>1. /\ claim' \in SatisfyingClaims[lasso][settings] /\ lasso \in Lassos /\ settings \in Settings
        /\ lasso' = lasso /\ settings' = settings /\ followed' = followed
        /\ gresult' = "NON_TERMINATING" /\ gpc' = "done"
        /\ z' = FirstIteration(lasso, claim') /\ w' = FirstRays(lasso, settings, claim')
    BY <1>2 DEF ArgumentFound, FirstRays
  <2>2. settings.gevs \in Nat /\ ClaimOf(claim', lasso, settings) /\ claim' # NoClaim
    BY <2>1, ClaimFacts
  <2>3. OnTrack(lasso, settings, claim', z', w')
    BY <2>1, <2>2, ClaimStarts DEF OnTrack
  <2>4. z' \in [Names -> Int] /\ w' \in [1..settings.gevs -> [Names -> Int]]
    BY <2>3 DEF OnTrack, Valuations
  <2> QED BY <2>1, <2>2, <2>3, <2>4
<1>3. CASE NoArgumentFound
  BY <1>3 DEF NoArgumentFound
<1>4. CASE EncodingFails
  BY <1>4 DEF EncodingFails
<1>5. CASE Follow
  <2>1. /\ lasso' = lasso /\ settings' = settings /\ gpc' = gpc /\ gresult' = gresult /\ claim' = claim
        /\ z' = NextIteration(z, w) /\ w' = NextRays(claim, w)
        /\ gresult = "NON_TERMINATING" /\ followed < MaxFollowed /\ followed' = followed + 1
    BY <1>5 DEF Follow
  <2>2. OnTrack(lasso, settings, claim, z', w')
    BY <2>1, FollowStays
  <2>3. z' \in [Names -> Int] /\ w' \in [1..settings.gevs -> [Names -> Int]]
    BY <2>2 DEF OnTrack, Valuations
  <2>4. followed' \in 0..MaxFollowed
    BY <2>1, ClaimAssumption
  <2> QED BY <2>1, <2>2, <2>3, <2>4
<1>6. CASE UNCHANGED geometricVars
  BY <1>6 DEF geometricVars, geoVars
<1> QED BY <1>1, <1>2, <1>3, <1>4, <1>5, <1>6 DEF GeoNext

\* GeometricTypeOK: the technique's variables keep their types.
THEOREM GeometricTypes == GeometricSpec => []GeometricTypeOK
<1>1. GeometricInv => GeometricTypeOK
  BY DEF GeometricInv
<1> QED BY <1>1, GeometricInitially, GeometricStep, PTL DEF GeometricSpec

\* ClaimedRunIsARun: however far a claimed run is followed, its iterations satisfy
\* the polyhedron of the loop it was claimed with.
THEOREM ClaimsAreRuns == GeometricSpec => []ClaimedRunIsARun
<1>1. GeometricInv => ClaimedRunIsARun
  BY DEF GeometricInv, OnTrack, ClaimedRunIsARun
<1> QED BY <1>1, GeometricInitially, GeometricStep, PTL DEF GeometricSpec

\* ClaimedRunIsConnected: each iteration of a claimed run starts where the one
\* before it ended, for the variables the loop writes and those it leaves alone.
THEOREM ClaimsAreConnected == GeometricSpec => ClaimedRunIsConnected
<1>1. GeometricInv /\ [GeoNext]_geometricVars
        => [Follow => \A u \in Vars : z'[lasso.loop.in[u]] = z[lasso.loop.out[u]]]_geometricVars
  <2> SUFFICES ASSUME GeometricInv, Follow
               PROVE  \A u \in Vars : z'[lasso.loop.in[u]] = z[lasso.loop.out[u]]
    OBVIOUS
  <2>1. /\ lasso \in Lassos /\ settings \in Settings /\ claim \in SatisfyingClaims[lasso][settings]
        /\ OnTrack(lasso, settings, claim, z, w) /\ z' = NextIteration(z, w)
    BY DEF GeometricInv, GeometricTypeOK, Follow
  <2> QED BY <2>1, FollowStays
<1> QED BY <1>1, GeometricInitially, GeometricStep, PTL DEF GeometricSpec, ClaimedRunIsConnected

----------------------------------------------------------------------------
(* The way into the loop.                                                  *)

\* Two valuations that agree on the names a polyhedron mentions.
LEMMA SameWhereMentioned ==
    ASSUME NEW poly \in Seq(Inequality), NEW v \in Valuations, NEW v2 \in Valuations,
           \A i \in Names : Mentions(poly, i) => v[i] = v2[i], Satisfies(poly, v)
    PROVE  Satisfies(poly, v2)
<1> SUFFICES ASSUME NEW j \in 1..Len(poly) PROVE Holds(poly[j], v2)
  BY DEF Satisfies
<1> DEFINE e == poly[j]
           f == [i \in Names |-> e.coef[i] * v[i]]
           g == [i \in Names |-> e.coef[i] * v2[i]]
<1>1. e \in Inequality /\ Holds(e, v)
  BY DEF Satisfies
<1>2. \A i \in 1..NumNames : f[i] = g[i]
  <2> TAKE i \in 1..NumNames
  <2>1. i \in Names /\ f[i] = e.coef[i] * v[i] /\ g[i] = e.coef[i] * v2[i]
    BY DEF Names
  <2>2. v[i] \in Int /\ v2[i] \in Int
    BY <2>1 DEF Valuations
  <2>3. CASE e.coef[i] = 0
    <3> DEFINE a == v[i]
               b == v2[i]
    <3>1. a \in Int /\ b \in Int
      BY <2>2
    <3>2. f[i] = 0 * a /\ g[i] = 0 * b
      BY <2>1, <2>3
    <3> HIDE DEF a, b, f, g
    <3> QED BY <3>1, <3>2
  <2>4. CASE e.coef[i] # 0
    <3>1. Mentions(poly, i)
      BY <2>4 DEF Mentions
    <3>2. v[i] = v2[i]
      BY <2>1, <3>1
    <3> HIDE DEF f, g, e
    <3> QED BY <2>1, <3>2
  <2> QED BY <2>3, <2>4
<1>3. Value(e, v) = Sum(NumNames, f) + e.const /\ Value(e, v2) = Sum(NumNames, g) + e.const
  BY DEF Value
<1> HIDE DEF e, f, g
<1>4. Sum(NumNames, f) = Sum(NumNames, g)
  BY <1>2, SumSame, SizesAreNat
<1>5. Value(e, v) = Value(e, v2)
  BY <1>3, <1>4
<1>6. Holds(e, v2)
  BY <1>1, <1>5 DEF Holds
<1> QED BY <1>6 DEF e

LEMMA StemReaches ==
    ASSUME NEW l \in Lassos, NEW s \in Settings, NEW c \in SatisfyingClaims[l][s]
    PROVE  LET v == Valuation(l.stem, StartOf(l, c), c.x1, c.aux)
           IN  /\ Reads(l.stem, v, StartOf(l, c), c.x1)
               /\ \E p \in 1..Len(l.stem.polys) : Satisfies(l.stem.polys[p], v)
<1> DEFINE t == l.stem
           start == StartOf(l, c)
           v == Valuation(t, start, c.x1, c.aux)
           v0 == Valuation(t, c.x0, c.x1, c.aux)
           used == {p \in 1..Len(t.polys) : t.polys[p] # <<>>}
<1>1. t \in Transition /\ DistinctNames(t) /\ Len(t.polys) > 0
  BY LassosAssumption, NamesAssumption, PolyhedraAssumption
<1>2. s.gevs \in Nat /\ ClaimOf(c, l, s)
  BY ClaimFacts
<1>3. ClaimShape(c, l, s) /\ StemConstraints(l, c.x0, c.x1, c.aux)
  BY <1>2 DEF ClaimOf
<1>4. c.x0 \in IntPoints /\ c.x1 \in IntPoints
  BY <1>2, <1>3, RayTypes
<1>5. start \in IntPoints
  BY <1>4 DEF StartOf, IntPoints
<1>6. \A i \in DOMAIN c.aux : c.aux[i] \in Int
  BY <1>3, PointsAreInt DEF ClaimShape
<1>7. v \in Valuations /\ v0 \in Valuations
  BY <1>4, <1>5, <1>6, ValuationType
<1>8. Reads(t, v, start, c.x1)
  <2>1. ASSUME NEW u \in Vars PROVE v[t.in[u]] = start[u] /\ v[t.out[u]] = c.x1[u]
    <3>1. v[t.in[u]] = start[u] /\ (t.in[u] # t.out[u] => v[t.out[u]] = c.x1[u])
      BY <1>1, ValuationReads
    <3>2. t.in[u] = t.out[u] => start[u] = c.x1[u]
      BY DEF StartOf
    <3> QED BY <3>1, <3>2
  <2> QED BY <2>1 DEF Reads
<1>9. ASSUME NEW p \in used, NEW i \in Names, Mentions(t.polys[p], i)
      PROVE  v0[i] = v[i]
  <2>1. CASE \E u \in Vars : t.in[u] = i
    <3>1. PICK u \in Vars : t.in[u] = i
      BY <2>1
    <3>2. v0[i] = c.x0[u] /\ v[i] = start[u]
      BY <1>1, <3>1, ValuationReads
    <3>3. start[u] = IF t.in[u] = t.out[u] THEN c.x1[u] ELSE c.x0[u]
      BY DEF StartOf
    <3>4. t.in[u] = t.out[u] => c.x0[u] = c.x1[u]
      BY <1>3, <1>9, <3>1 DEF StemConstraints
    <3> QED BY <3>2, <3>3, <3>4
  <2>2. CASE ~\E u \in Vars : t.in[u] = i
    BY <2>2 DEF Valuation
  <2> QED BY <2>1, <2>2
<1>10. \E p \in 1..Len(t.polys) : Satisfies(t.polys[p], v)
  <2>1. CASE used = {}
    <3>1. 1 \in 1..Len(t.polys) /\ t.polys[1] = <<>>
      <4>1. 1 \in 1..Len(t.polys)
        BY <1>1 DEF Transition
      <4> QED BY <2>1, <4>1
    <3>2. Satisfies(<<>>, v)
      BY DEF Satisfies
    <3> QED BY <3>1, <3>2
  <2>2. CASE used # {}
    <3>1. PICK p \in used : Satisfies(t.polys[p], v0)
      BY <1>3, <2>2 DEF StemConstraints
    <3>2. t.polys[p] \in Seq(Inequality)
      BY <1>1 DEF Transition
    <3> HIDE DEF v, v0
    <3>3. Satisfies(t.polys[p], v)
      BY <1>7, <1>9, <3>1, <3>2, SameWhereMentioned
    <3> QED BY <3>3
  <2> QED BY <2>1, <2>2
<1> QED BY <1>8, <1>10

\* HondaIsReachable: the state a claim starts its loop in can be reached through the
\* stem, though x0 is not tied to x1 where no inequality of the stem speaks of a
\* variable.
THEOREM ClaimsAreReachable == GeometricSpec => []HondaIsReachable
<1>1. GeometricInv => HondaIsReachable
  <2> SUFFICES ASSUME GeometricInv, gresult = "NON_TERMINATING" PROVE HondaIsReachable
    BY DEF HondaIsReachable
  <2>1. lasso \in Lassos /\ settings \in Settings /\ claim \in SatisfyingClaims[lasso][settings]
    BY DEF GeometricInv, GeometricTypeOK
  <2> QED BY <2>1, StemReaches DEF HondaIsReachable
<1> QED BY <1>1, GeometricInitially, GeometricStep, PTL DEF GeometricSpec

----------------------------------------------------------------------------
(* The two techniques on one lasso.                                         *)

LEMMA RankingStepOf ==
    ASSUME [ArgumentsNext]_argumentVars
    PROVE  [RankingNext]_rankingVars
<1>1. CASE Ranking
  BY <1>1 DEF Ranking, RankingNext
<1>2. CASE Geometric
  <2>1. lasso' = lasso
    BY <1>2 DEF Geometric, GeoNext, GeoInitialize, ArgumentFound, NoArgumentFound, EncodingFails, Follow
  <2> QED BY <1>2, <2>1 DEF Geometric, rankingVars
<1>3. CASE Run
  BY <1>3 DEF Run, RankingNext
<1>4. CASE UNCHANGED argumentVars
  BY <1>4 DEF argumentVars, rankingVars
<1> QED BY <1>1, <1>2, <1>3, <1>4 DEF ArgumentsNext

LEMMA GeometricStepOf ==
    ASSUME [ArgumentsNext]_argumentVars
    PROVE  [GeoNext]_geometricVars
<1>1. CASE Ranking
  <2>1. lasso' = lasso
    BY <1>1 DEF Ranking, TechNext, Initialize, Cancel, Analyze, TryConfiguration, TemplateThrows,
               MoreComponents, GiveUp, NotFound, Found
  <2> QED BY <1>1, <2>1 DEF Ranking, geometricVars
<1>2. CASE Geometric
  BY <1>2 DEF Geometric
<1>3. CASE Run
  <2>1. lasso' = lasso
    BY <1>3 DEF Run, RunNext, Enter, Iterate, Leave
  <2> QED BY <1>3, <2>1 DEF Run, geometricVars
<1>4. CASE UNCHANGED argumentVars
  BY <1>4 DEF argumentVars, geometricVars
<1> QED BY <1>1, <1>2, <1>3, <1>4 DEF ArgumentsNext

\* The composition implements both techniques: neither gets in the other's way.
THEOREM CompositionImplements == ArgumentsSpec => RankingSpec /\ GeometricSpec
<1>1. ArgumentsInit => RankingInit /\ GeometricInit
  BY DEF ArgumentsInit, GeometricInit, RankingInit, RunInit
<1> QED BY <1>1, RankingStepOf, GeometricStepOf, PTL DEF ArgumentsSpec, RankingSpec, GeometricSpec

\* What the non-termination technique promises, whatever runs beside it:
\* ClaimedRunIsARun, ClaimedRunIsConnected and HondaIsReachable.
THEOREM ClaimsHoldTogether ==
    ArgumentsSpec => [](ClaimedRunIsARun /\ HondaIsReachable) /\ ClaimedRunIsConnected
BY CompositionImplements, ClaimsAreRuns, ClaimsAreReachable, ClaimsAreConnected, PTL

\* What the termination techniques promise, for loops of one polyhedron and lassos
\* without hidden names: SupportingInvariantsHold and EveryIterationRanks.
THEOREM ArgumentsHoldTogether ==
    ASSUME SingleBranch, NamesKnown
    PROVE  ArgumentsSpec => []SupportingInvariantsHold /\ EveryIterationRanks
BY CompositionImplements, InvariantsAreInvariant, ArgumentsRank, PTL

----------------------------------------------------------------------------
(* The two kinds of argument exclude each other.                           *)

\* Where an iteration of the run claimed with c can start.
Visited(l, s, c) ==
    {y \in IntPoints : \E v, rays : OnTrack(l, s, c, v, rays)
                                    /\ \A u \in Vars : v[l.loop.in[u]] = y[u]}

\* The run a non-termination argument describes never has to leave the loop, nor the
\* branch it was claimed in.
THEOREM ClaimsAreRecurrent ==
    ASSUME NEW l \in Lassos, NEW s \in Settings, NEW c \in SatisfyingClaims[l][s]
    PROVE  c.p \in 1..Len(l.loop.polys) /\ RecurrentSet(l, c.p, Visited(l, s, c))
<1>1. /\ l.loop \in Transition /\ DistinctNames(l.loop)
      /\ s.gevs \in Nat /\ ClaimOf(c, l, s) /\ ClaimShape(c, l, s)
  BY LassosAssumption, NamesAssumption, ClaimFacts DEF ClaimOf
<1>2. c.x0 \in IntPoints /\ c.x1 \in IntPoints
  BY <1>1, RayTypes
<1>3. c.x1 \in Visited(l, s, c)
  <2> DEFINE v == FirstIteration(l, c)
  <2>1. OnTrack(l, s, c, v, FirstRays(l, s, c))
    BY <1>1, ClaimStarts DEF OnTrack
  <2>2. \A u \in Vars : v[l.loop.in[u]] = c.x1[u]
    BY <1>1, ValuationReads DEF FirstIteration
  <2> HIDE DEF v
  <2> QED BY <1>2, <2>1, <2>2 DEF Visited
<1>4. StepsTo(l.stem, StartOf(l, c), c.x1)
  <2> DEFINE v == Valuation(l.stem, StartOf(l, c), c.x1, c.aux)
  <2>1. Reads(l.stem, v, StartOf(l, c), c.x1) /\ \E p \in 1..Len(l.stem.polys) : Satisfies(l.stem.polys[p], v)
    BY StemReaches
  <2>2. StartOf(l, c) \in IntPoints
    BY <1>2 DEF StartOf, IntPoints
  <2>3. \A i \in DOMAIN c.aux : c.aux[i] \in Int
    BY <1>1, PointsAreInt DEF ClaimShape
  <2>4. v \in Valuations
    BY <1>2, <2>2, <2>3, ValuationType
  <2> QED BY <2>1, <2>4 DEF StepsTo, StepsThrough
<1>5. ASSUME NEW y \in Visited(l, s, c)
      PROVE  \E y2 \in Visited(l, s, c) : StepsThrough(l.loop, c.p, y, y2)
  <2>1. PICK v, rays : OnTrack(l, s, c, v, rays) /\ \A u \in Vars : v[l.loop.in[u]] = y[u]
    BY DEF Visited
  <2> DEFINE y2 == [u \in Vars |-> v[l.loop.out[u]]]
             next == NextIteration(v, rays)
  <2>2. v \in Valuations /\ Satisfies(l.loop.polys[c.p], v) /\ c.p \in 1..Len(l.loop.polys)
    BY <1>1, <2>1 DEF OnTrack, ClaimShape
  <2>3. y2 \in IntPoints
    BY <1>1, <2>2 DEF Transition, Valuations, IntPoints
  <2>4. StepsThrough(l.loop, c.p, y, y2)
    BY <2>1, <2>2 DEF StepsThrough, Reads
  <2>5. OnTrack(l, s, c, next, NextRays(c, rays)) /\ \A u \in Vars : next[l.loop.in[u]] = y2[u]
    BY <2>1, FollowStays
  <2> HIDE DEF next, y2
  <2>6. y2 \in Visited(l, s, c)
    BY <2>3, <2>5 DEF Visited
  <2> QED BY <2>4, <2>6
<1> QED BY <1>1, <1>3, <1>4, <1>5 DEF RecurrentSet, Visited, ClaimShape

\* NoContradiction: for lassos without hidden names the portfolio may keep whichever
\* answer comes first, the other technique cannot give the opposite one.  That holds
\* for loops of several branches too, although a termination argument for such a loop
\* need not be right (MCBranchLocal): a claimed run keeps to one branch, and the
\* invariants of that branch hold along it.
THEOREM AnswersAgree ==
    ASSUME NamesKnown
    PROVE  ArgumentsSpec => []NoContradiction
<1>1. RankingInv /\ GeometricInv => NoContradiction
  <2> SUFFICES ASSUME RankingInv, GeometricInv, result = "TERMINATING", gresult = "NON_TERMINATING"
               PROVE  FALSE
    BY DEF NoContradiction
  <2>1. /\ lasso \in Lassos /\ settings \in Settings
        /\ claim \in SatisfyingClaims[lasso][settings]
    BY DEF GeometricInv, GeometricTypeOK
  <2>2. Good(argument, lasso)
    BY DEF RankingInv
  <2> QED BY <2>1, <2>2, ClaimsAreRecurrent, ArgumentsExcludeRecurrence
<1>2. RankingSpec => []RankingInv
  BY RankingInitially, RankingStep, PTL DEF RankingSpec
<1>3. GeometricSpec => []GeometricInv
  BY GeometricInitially, GeometricStep, PTL DEF GeometricSpec
<1> QED BY <1>1, <1>2, <1>3, CompositionImplements, PTL

=============================================================================
