---------------------------- MODULE RankingProofs ----------------------------
(***************************************************************************)
(* What a termination argument is worth: for every lasso with one loop     *)
(* polyhedron whose names the synthesizer knows, the supporting invariants *)
(* hold at the head of the loop and every iteration lowers the ranking     *)
(* function.  The two hypotheses are needed: the runs MCBranchLocal and    *)
(* MCHiddenNames show what happens without one of them.                    *)
(*                                                                         *)
(* It rests on facts about Sum and the operators built on it, for any      *)
(* number of names, and on the soundness of Motzkin's transformation,      *)
(* which come first.                                                       *)
(***************************************************************************)
EXTENDS RankingTechnique, TLAPS, WellFoundedInduction

LEMMA NatLeast == ASSUME NEW T \in SUBSET Nat, T # {}
                  PROVE  \E k \in T : \A l \in T : k <= l
<1>1. IsWellFoundedOn(OpToRel(<, Nat), Nat)
  BY NatLessThanWellFounded
<1>2. PICK k \in T : \A l \in T : ~(<<l, k>> \in OpToRel(<, Nat))
  BY <1>1, WFMin
<1>3. \A l \in T : ~(l < k)
  BY <1>2 DEF OpToRel
<1>4. k \in Nat /\ \A l \in T : l \in Nat
  OBVIOUS
<1> QED BY <1>3, <1>4

\* Induction up to n, for a set: the least number that is not in S is neither zero
\* nor the successor of a member.
LEMMA UpTo == ASSUME NEW n \in Nat, NEW S, 0 \in S,
                     \A k \in 1..n : k - 1 \in S => k \in S
              PROVE  \A k \in 0..n : k \in S
<1> DEFINE T == {k \in 0..n : k \notin S}
<1>1. SUFFICES ASSUME T # {} PROVE FALSE
  OBVIOUS
<1>2. T \in SUBSET Nat
  OBVIOUS
<1>3. PICK k \in T : \A l \in T : k <= l
  BY <1>1, <1>2, NatLeast
<1>4. k \in Nat /\ k # 0 /\ k <= n
  OBVIOUS
<1>5. k - 1 \in 0..n /\ k - 1 \notin T
  BY <1>3, <1>4
<1> QED BY <1>4, <1>5

----------------------------------------------------------------------------
(* Sum is what its recursion says.                                         *)

Partial(n, f) ==
    LET S[k \in 0..n] == IF k = 0 THEN 0 ELSE S[k - 1] + f[k]
    IN  S

IsPartial(g, n, f) == g = [k \in 0..n |-> IF k = 0 THEN 0 ELSE g[k - 1] + f[k]]

LEMMA PartialExists == ASSUME NEW n \in Nat, NEW f PROVE \E g : IsPartial(g, n, f)
<1> DEFINE S == {k \in 0..n : \E g : IsPartial(g, k, f)}
<1>1. 0 \in S
  <2>1. IsPartial([k \in 0..0 |-> 0], 0, f)
    BY DEF IsPartial
  <2> QED BY <2>1
<1>2. ASSUME NEW k \in 1..n, k - 1 \in S PROVE k \in S
  <2>1. PICK g : IsPartial(g, k - 1, f)
    BY <1>2
  <2> DEFINE h == [l \in 0..k |-> IF l = k THEN g[k - 1] + f[k] ELSE g[l]]
  <2>2. \A l \in 0..k : h[l] = IF l = 0 THEN 0 ELSE h[l - 1] + f[l]
    BY <2>1 DEF IsPartial
  <2>3. IsPartial(h, k, f)
    BY <2>2 DEF IsPartial
  <2> QED BY <2>3
<1>3. n \in S
  <2> HIDE DEF S
  <2> QED BY <1>1, <1>2, UpTo
<1> QED BY <1>3

LEMMA PartialIs == ASSUME NEW n \in Nat, NEW f PROVE IsPartial(Partial(n, f), n, f)
<1>1. PICK g : IsPartial(g, n, f)
  BY PartialExists
<1> QED BY <1>1, Zenon DEF Partial, IsPartial

LEMMA SumIsPartial == ASSUME NEW n, NEW f PROVE Sum(n, f) = Partial(n, f)[n]
BY Zenon DEF Sum, Partial

\* The partial sums do not depend on how many summands there are.
LEMMA PartialPrefix == ASSUME NEW n \in Nat, NEW f, NEW m \in 0..n
                       PROVE  Partial(n, f)[m] = Partial(m, f)[m]
<1> DEFINE S == {k \in 0..m : Partial(n, f)[k] = Partial(m, f)[k]}
<1>1. IsPartial(Partial(n, f), n, f) /\ IsPartial(Partial(m, f), m, f)
  BY PartialIs
<1>2. \A k \in 0..m :
        /\ Partial(n, f)[k] = IF k = 0 THEN 0 ELSE Partial(n, f)[k - 1] + f[k]
        /\ Partial(m, f)[k] = IF k = 0 THEN 0 ELSE Partial(m, f)[k - 1] + f[k]
  BY <1>1 DEF IsPartial
<1>3. 0 \in S /\ \A k \in 1..m : k - 1 \in S => k \in S
  BY <1>2
<1>4. m \in S
  <2> HIDE DEF S
  <2> QED BY <1>3, UpTo
<1> QED BY <1>4

LEMMA SumZero == ASSUME NEW f PROVE Sum(0, f) = 0
<1>1. IsPartial(Partial(0, f), 0, f)
  BY PartialIs
<1>2. Partial(0, f)[0] = 0
  BY <1>1 DEF IsPartial
<1> QED BY <1>2, SumIsPartial

LEMMA SumStep == ASSUME NEW n \in Nat \ {0}, NEW f PROVE Sum(n, f) = Sum(n - 1, f) + f[n]
<1>1. IsPartial(Partial(n, f), n, f)
  BY PartialIs
<1>2. Partial(n, f)[n] = Partial(n, f)[n - 1] + f[n]
  BY <1>1 DEF IsPartial
<1>3. Partial(n, f)[n - 1] = Partial(n - 1, f)[n - 1]
  BY PartialPrefix
<1> QED BY <1>2, <1>3, SumIsPartial

----------------------------------------------------------------------------
(* Sums of integers.                                                       *)

LEMMA SumType == ASSUME NEW n \in Nat, NEW f, \A i \in 1..n : f[i] \in Int
                 PROVE  Sum(n, f) \in Int
<1> DEFINE S == {m \in 0..n : Sum(m, f) \in Int}
<1>1. 0 \in S
  BY SumZero
<1>2. \A m \in 1..n : m - 1 \in S => m \in S
  BY SumStep
<1>3. n \in S
  <2> HIDE DEF S
  <2> QED BY <1>1, <1>2, UpTo
<1> QED BY <1>3

LEMMA SumSame == ASSUME NEW n \in Nat, NEW f, NEW g, \A i \in 1..n : f[i] = g[i]
                 PROVE  Sum(n, f) = Sum(n, g)
<1> DEFINE S == {m \in 0..n : Sum(m, f) = Sum(m, g)}
<1>1. 0 \in S
  BY SumZero
<1>2. \A m \in 1..n : m - 1 \in S => m \in S
  BY SumStep
<1>3. n \in S
  <2> HIDE DEF S
  <2> QED BY <1>1, <1>2, UpTo
<1> QED BY <1>3

LEMMA SumAdd == ASSUME NEW n \in Nat, NEW f, NEW g, NEW h,
                       \A i \in 1..n : f[i] \in Int /\ g[i] \in Int /\ h[i] = f[i] + g[i]
                PROVE  Sum(n, h) = Sum(n, f) + Sum(n, g)
<1> DEFINE S == {m \in 0..n : Sum(m, h) = Sum(m, f) + Sum(m, g)}
<1>1. 0 \in S
  BY SumZero
<1>2. ASSUME NEW m \in 1..n, m - 1 \in S PROVE m \in S
  <2>1. Sum(m - 1, f) \in Int /\ Sum(m - 1, g) \in Int
    BY SumType
  <2>2. /\ Sum(m, f) = Sum(m - 1, f) + f[m]
        /\ Sum(m, g) = Sum(m - 1, g) + g[m]
        /\ Sum(m, h) = Sum(m - 1, h) + h[m]
    BY SumStep
  <2> QED BY <1>2, <2>1, <2>2
<1>3. n \in S
  <2> HIDE DEF S
  <2> QED BY <1>1, <1>2, UpTo
<1> QED BY <1>3

LEMMA SumScale == ASSUME NEW n \in Nat, NEW f, NEW g, NEW c \in Int,
                         \A i \in 1..n : f[i] \in Int /\ g[i] = c * f[i]
                  PROVE  Sum(n, g) = c * Sum(n, f)
<1> DEFINE S == {m \in 0..n : Sum(m, g) = c * Sum(m, f)}
<1>1. 0 \in S
  BY SumZero
<1>2. ASSUME NEW m \in 1..n, m - 1 \in S PROVE m \in S
  <2>1. Sum(m - 1, f) \in Int /\ f[m] \in Int
    BY SumType
  <2>2. Sum(m, f) = Sum(m - 1, f) + f[m] /\ Sum(m, g) = Sum(m - 1, g) + g[m]
    BY SumStep
  <2>3. c * (Sum(m - 1, f) + f[m]) = c * Sum(m - 1, f) + c * f[m]
    BY <2>1
  <2> QED BY <1>2, <2>2, <2>3
<1>3. n \in S
  <2> HIDE DEF S
  <2> QED BY <1>1, <1>2, UpTo
<1> QED BY <1>3

LEMMA SumNonneg == ASSUME NEW n \in Nat, NEW f, \A i \in 1..n : f[i] \in Int /\ f[i] >= 0
                   PROVE  Sum(n, f) >= 0
<1> DEFINE S == {m \in 0..n : Sum(m, f) \in Int /\ Sum(m, f) >= 0}
<1>1. 0 \in S
  BY SumZero
<1>2. \A m \in 1..n : m - 1 \in S => m \in S
  BY SumStep
<1>3. n \in S
  <2> HIDE DEF S
  <2> QED BY <1>1, <1>2, UpTo
<1> QED BY <1>3

LEMMA SumAllZero == ASSUME NEW n \in Nat, NEW f, \A i \in 1..n : f[i] = 0
                    PROVE  Sum(n, f) = 0
<1> DEFINE S == {m \in 0..n : Sum(m, f) = 0}
<1>1. 0 \in S
  BY SumZero
<1>2. \A m \in 1..n : m - 1 \in S => m \in S
  BY SumStep
<1>3. n \in S
  <2> HIDE DEF S
  <2> QED BY <1>1, <1>2, UpTo
<1> QED BY <1>3

\* A sum with a single summand that is not zero.
LEMMA SumSingle == ASSUME NEW n \in Nat, NEW f, NEW k \in 1..n, f[k] \in Int,
                          \A i \in 1..n : i # k => f[i] = 0
                   PROVE  Sum(n, f) = f[k]
<1> DEFINE S == {m \in 0..n : Sum(m, f) = IF m < k THEN 0 ELSE f[k]}
<1>1. 0 \in S
  BY SumZero
<1>2. ASSUME NEW m \in 1..n, m - 1 \in S PROVE m \in S
  <2>1. Sum(m, f) = Sum(m - 1, f) + f[m]
    BY SumStep
  <2>2. CASE m < k
    BY <1>2, <2>1, <2>2
  <2>3. CASE m = k
    BY <1>2, <2>1, <2>3
  <2>4. CASE m > k
    BY <1>2, <2>1, <2>4
  <2> QED BY <2>2, <2>3, <2>4
<1>3. n \in S
  <2> HIDE DEF S
  <2> QED BY <1>1, <1>2, UpTo
<1> QED BY <1>3

\* A sum of summands >= 0 is at least each of them.
LEMMA SumAtLeast == ASSUME NEW n \in Nat, NEW f, NEW k \in 1..n,
                           \A i \in 1..n : f[i] \in Int /\ f[i] >= 0
                    PROVE  Sum(n, f) >= f[k]
<1> DEFINE S == {m \in 0..n : Sum(m, f) \in Int /\ Sum(m, f) >= IF m < k THEN 0 ELSE f[k]}
<1>1. 0 \in S
  BY SumZero
<1>2. ASSUME NEW m \in 1..n, m - 1 \in S PROVE m \in S
  <2>1. Sum(m, f) = Sum(m - 1, f) + f[m]
    BY SumStep
  <2>2. CASE m < k
    BY <1>2, <2>1, <2>2
  <2>3. CASE m = k
    BY <1>2, <2>1, <2>3
  <2>4. CASE m > k
    BY <1>2, <2>1, <2>4
  <2> QED BY <2>2, <2>3, <2>4
<1>3. n \in S
  <2> HIDE DEF S
  <2> QED BY <1>1, <1>2, UpTo
<1> QED BY <1>3

\* f as a matrix of n rows and m columns, g the same transposed, with their sums.
Matrix(n, m, f, g, rows, columns) ==
    /\ \A i \in 1..n, j \in 1..m : f[i][j] \in Int /\ g[j][i] = f[i][j]
    /\ \A i \in 1..n : rows[i] = Sum(m, f[i])
    /\ \A j \in 1..m : columns[j] = Sum(n, g[j])

\* A sum of sums, in either order.
LEMMA SumSwap ==
    ASSUME NEW n \in Nat, NEW m \in Nat, NEW f, NEW g, NEW rows, NEW columns,
           Matrix(n, m, f, g, rows, columns)
    PROVE  Sum(n, rows) = Sum(m, columns)
<1> USE DEF Matrix
<1> DEFINE below(k) == [j \in 1..m |-> Sum(k, g[j])]
           S == {k \in 0..n : Sum(k, rows) = Sum(m, below(k))}
<1>1. 0 \in S
  <2>1. \A j \in 1..m : below(0)[j] = 0
    BY SumZero
  <2>2. Sum(m, below(0)) = 0
    <3> HIDE DEF below
    <3> QED BY <2>1, SumAllZero
  <2> QED BY <2>2, SumZero
<1>2. ASSUME NEW k \in 1..n, k - 1 \in S PROVE k \in S
  <2> DEFINE lower == below(k - 1)
             upper == below(k)
  <2>1. Sum(k, rows) = Sum(k - 1, rows) + Sum(m, f[k])
    BY SumStep
  <2>2. \A j \in 1..m : Sum(k - 1, g[j]) \in Int
    <3> TAKE j \in 1..m
    <3>1. k - 1 \in Nat /\ \A i \in 1..(k - 1) : g[j][i] \in Int
      OBVIOUS
    <3> QED BY <3>1, SumType
  <2>3. \A j \in 1..m : Sum(k, g[j]) = Sum(k - 1, g[j]) + f[k][j]
    BY SumStep
  <2>4. \A j \in 1..m : /\ lower[j] \in Int /\ f[k][j] \in Int
                        /\ upper[j] = lower[j] + f[k][j]
    BY <2>2, <2>3
  <2>5. Sum(m, upper) = Sum(m, lower) + Sum(m, f[k])
    <3> HIDE DEF lower, upper
    <3> QED BY <2>4, SumAdd
  <2>6. Sum(k - 1, rows) = Sum(m, lower)
    BY <1>2
  <2>7. k \in S <=> Sum(k, rows) = Sum(m, upper)
    OBVIOUS
  <2> HIDE DEF S, lower, upper
  <2> QED BY <2>1, <2>5, <2>6, <2>7
<1>3. n \in S
  <2> HIDE DEF S
  <2> QED BY <1>1, <1>2, UpTo
<1>4. \A j \in 1..m : below(n)[j] = columns[j]
  OBVIOUS
<1>5. Sum(m, below(n)) = Sum(m, columns)
  <2> HIDE DEF below
  <2> QED BY <1>4, SumSame
<1> QED BY <1>3, <1>5

----------------------------------------------------------------------------
(* What the operations on inequalities do to their values.                 *)

Valuations == [Names -> Int]

\* Values of the program variables.
IntPoints == [Vars -> Int]

LEMMA SizesAreNat == NumNames \in Nat /\ NumVars \in Nat
BY SizesAssumption

LEMMA Products == ASSUME NEW ineq \in Inequality, NEW v \in Valuations
                  PROVE  /\ \A i \in Names : ineq.coef[i] * v[i] \in Int
                         /\ Sum(NumNames, [i \in Names |-> ineq.coef[i] * v[i]]) \in Int
                         /\ Value(ineq, v) \in Int
<1> DEFINE p == [i \in Names |-> ineq.coef[i] * v[i]]
<1>1. \A i \in Names : ineq.coef[i] \in Int /\ v[i] \in Int
  BY DEF Inequality, Valuations
<1>2. \A i \in 1..NumNames : p[i] \in Int
  BY <1>1 DEF Names
<1>3. Sum(NumNames, p) \in Int
  <2> HIDE DEF p
  <2> QED BY <1>2, SumType, SizesAreNat
<1>4. ineq.const \in Int
  BY DEF Inequality
<1> QED BY <1>1, <1>3, <1>4 DEF Value

LEMMA ValuePlus == ASSUME NEW a \in Inequality, NEW b \in Inequality, NEW v \in Valuations
                   PROVE  Plus(a, b) \in Inequality /\ Value(Plus(a, b), v) = Value(a, v) + Value(b, v)
<1> DEFINE p(c) == [i \in Names |-> c.coef[i] * v[i]]
           s == Plus(a, b)
<1>1. \A i \in Names : a.coef[i] \in Int /\ b.coef[i] \in Int /\ v[i] \in Int
  BY DEF Inequality, Valuations
<1>2. s \in Inequality
  BY DEF Plus, Inequality, MotzkinCoefficient
<1>3. \A i \in 1..NumNames : /\ p(a)[i] \in Int /\ p(b)[i] \in Int
                             /\ p(s)[i] = p(a)[i] + p(b)[i]
  BY <1>1 DEF Names, Plus
<1>4. Sum(NumNames, p(s)) = Sum(NumNames, p(a)) + Sum(NumNames, p(b))
  <2> HIDE DEF p, s
  <2> QED BY <1>3, SumAdd, SizesAreNat
<1>5. s.const = a.const + b.const /\ a.const \in Int /\ b.const \in Int
  BY DEF Plus, Inequality
<1>6. Sum(NumNames, p(a)) \in Int /\ Sum(NumNames, p(b)) \in Int
  BY Products
<1>7. /\ Value(s, v) = Sum(NumNames, p(s)) + s.const
      /\ Value(a, v) = Sum(NumNames, p(a)) + a.const
      /\ Value(b, v) = Sum(NumNames, p(b)) + b.const
  BY DEF Value
<1>8. Value(s, v) = Value(a, v) + Value(b, v)
  <2> HIDE DEF p, s
  <2> QED BY <1>4, <1>5, <1>6, <1>7
<1> QED BY <1>2, <1>8

LEMMA ValueNegate == ASSUME NEW a \in Inequality, NEW v \in Valuations
                     PROVE  Negate(a) \in Inequality /\ Value(Negate(a), v) = -Value(a, v)
<1> DEFINE p(c) == [i \in Names |-> c.coef[i] * v[i]]
           s == Negate(a)
<1>1. \A i \in Names : a.coef[i] \in Int /\ v[i] \in Int
  BY DEF Inequality, Valuations
<1>2. /\ s \in Inequality
      /\ s.coef = [i \in Names |-> -a.coef[i]] /\ s.const = -a.const
  <2>1. [i \in Names |-> -a.coef[i]] \in [Names -> Int] /\ -a.const \in Int
    BY <1>1 DEF Inequality
  <2> DEFINE c == [i \in Names |-> -a.coef[i]]
  <2>2. s = [a EXCEPT !.coef = c, !.const = -a.const]
    BY DEF Negate
  <2> HIDE DEF c, s
  <2>3. s \in Inequality /\ s.coef = c /\ s.const = -a.const
    BY <2>1, <2>2 DEF Inequality, c
  <2> QED BY <2>3 DEF c
<1>3. \A i \in 1..NumNames : p(a)[i] \in Int /\ p(s)[i] = (-1) * p(a)[i]
  BY <1>1, <1>2 DEF Names
<1>4. Sum(NumNames, p(s)) = (-1) * Sum(NumNames, p(a))
  <2> HIDE DEF p, s
  <2> QED BY <1>3, SumScale, SizesAreNat
<1>5. a.const \in Int /\ Sum(NumNames, p(a)) \in Int
  BY Products DEF Inequality
<1>6. /\ Value(s, v) = Sum(NumNames, p(s)) + s.const
      /\ Value(a, v) = Sum(NumNames, p(a)) + a.const
  BY DEF Value
<1>7. Value(s, v) = -Value(a, v)
  <2> HIDE DEF p, s
  <2> QED BY <1>2, <1>4, <1>5, <1>6
<1> QED BY <1>2, <1>7

\* An affine function over SSA names has the value it has over the variables they
\* stand for.
LEMMA ValueGenerate ==
    ASSUME NEW f \in Affine, NEW ssa \in [Vars -> Names], NEW v \in Valuations
    PROVE  /\ Generate(f, ssa) \in Inequality
           /\ Value(Generate(f, ssa), v) = AffineValue(f, [u \in Vars |-> v[ssa[u]]])
<1> DEFINE g == Generate(f, ssa)
           part == [i \in Names |-> [u \in Vars |-> IF ssa[u] = i THEN f.coef[u] ELSE 0]]
           cell == [i \in Names |-> [u \in Vars |-> IF ssa[u] = i THEN f.coef[u] * v[i] ELSE 0]]
           column == [u \in Vars |-> [i \in Names |-> cell[i][u]]]
           point == [u \in Vars |-> v[ssa[u]]]
<1>1. \A i \in Names, u \in Vars : /\ f.coef[u] \in Int /\ v[i] \in Int /\ ssa[u] \in Names
                                   /\ part[i][u] \in Int /\ cell[i][u] \in Int
                                   /\ cell[i][u] = v[i] * part[i][u]
  BY DEF Affine, Valuations
<1>2. \A i \in Names : Sum(NumVars, part[i]) \in Int
  <2> TAKE i \in Names
  <2>1. \A u \in 1..NumVars : part[i][u] \in Int
    BY <1>1 DEF Vars
  <2> HIDE DEF part
  <2> QED BY <2>1, SumType, SizesAreNat
<1>3. /\ g \in Inequality
      /\ \A i \in Names : g.coef[i] = Sum(NumVars, part[i])
      /\ g.const = f.const
  <2>1. \A i \in Names : Sum(NumVars, part[i]) =
            Sum(NumVars, [u \in Vars |-> IF ssa[u] = i THEN f.coef[u] ELSE 0])
    OBVIOUS
  <2>2. [i \in Names |-> Sum(NumVars, part[i])] \in [Names -> Int]
    BY <1>2
  <2>3. g.coef = [i \in Names |-> Sum(NumVars, part[i])]
    BY DEF Generate
  <2>4. f.const \in Int
    BY DEF Affine
  <2> QED BY <2>2, <2>3, <2>4 DEF Generate, Inequality, MotzkinCoefficient
<1>4. \A i \in Names : Sum(NumVars, cell[i]) = v[i] * Sum(NumVars, part[i])
  <2> TAKE i \in Names
  <2>1. \A u \in 1..NumVars : part[i][u] \in Int /\ cell[i][u] = v[i] * part[i][u]
    BY <1>1 DEF Vars
  <2>2. v[i] \in Int
    BY <1>1, SizesAreNat DEF Valuations
  <2> HIDE DEF part, cell
  <2> QED BY <2>1, <2>2, SumScale, SizesAreNat
<1> DEFINE prods == [j \in Names |-> g.coef[j] * v[j]]
           rows == [i \in 1..NumNames |-> Sum(NumVars, cell[i])]
<1>5. \A i \in 1..NumNames : prods[i] = rows[i]
  <2> TAKE i \in 1..NumNames
  <2>1. i \in Names /\ v[i] \in Int
    BY DEF Names, Valuations
  <2>2. g.coef[i] * v[i] = v[i] * Sum(NumVars, part[i])
    BY <1>2, <1>3, <2>1
  <2> QED BY <1>4, <2>1, <2>2
<1>6. Sum(NumNames, prods) = Sum(NumNames, rows)
  <2> HIDE DEF prods, rows
  <2> QED BY <1>5, SumSame, SizesAreNat
<1>7. \A u \in 1..NumVars : Sum(NumNames, column[u]) = f.coef[u] * point[u]
  <2> TAKE u \in 1..NumVars
  <2>1. u \in Vars /\ ssa[u] \in 1..NumNames
    BY DEF Vars, Names
  <2>2. column[u][ssa[u]] = f.coef[u] * point[u] /\ column[u][ssa[u]] \in Int
    BY <1>1, <2>1 DEF Names
  <2>3. \A i \in 1..NumNames : i # ssa[u] => column[u][i] = 0
    BY <2>1 DEF Names
  <2> HIDE DEF column
  <2>4. Sum(NumNames, column[u]) = column[u][ssa[u]]
    BY <2>1, <2>2, <2>3, SumSingle, SizesAreNat
  <2> QED BY <2>2, <2>4
<1> DEFINE values == [u \in Vars |-> f.coef[u] * point[u]]
<1>8. \A i \in 1..NumNames, u \in 1..NumVars : cell[i][u] \in Int /\ column[u][i] = cell[i][u]
  BY <1>1 DEF Names, Vars
<1>9. Sum(NumNames, rows) = Sum(NumVars, values)
  <2>1. \A i \in 1..NumNames : rows[i] = Sum(NumVars, cell[i])
    OBVIOUS
  <2>2. \A u \in 1..NumVars : values[u] = Sum(NumNames, column[u])
    BY <1>7 DEF Vars
  <2> HIDE DEF rows, values, cell, column
  <2>3. Matrix(NumNames, NumVars, cell, column, rows, values)
    BY <1>8, <2>1, <2>2 DEF Matrix
  <2> QED BY <2>3, SumSwap, SizesAreNat
<1>10. Value(g, v) = AffineValue(f, point)
  <2>1. Value(g, v) = Sum(NumNames, [j \in Names |-> g.coef[j] * v[j]]) + g.const
    BY DEF Value
  <2>2. AffineValue(f, point) = Sum(NumVars, values) + f.const
    BY DEF AffineValue
  <2>3. Value(g, v) = Sum(NumNames, prods) + g.const
    BY <2>1
  <2> HIDE DEF g, point, prods, rows, values
  <2> QED BY <1>3, <1>6, <1>9, <2>2, <2>3
<1> QED BY <1>3, <1>10

----------------------------------------------------------------------------
(* Motzkin's transformation is sound.                                      *)

Combination(ctx, lam, vars, v) ==
    /\ ctx \in Seq(Inequality) /\ v \in Valuations
    /\ lam \in [1..Len(ctx) -> Nat]
    /\ \A i \in Names \ vars : \A j \in 1..Len(ctx) : ctx[j].coef[i] = 0
    /\ EqualityConstraints(ctx, lam, vars)

\* When the variables cancel, the weighted sum of the values of the inequalities is
\* the weighted sum of their constants.
LEMMA VariablesCancel ==
    ASSUME NEW ctx, NEW lam, NEW vars \in SUBSET Names, NEW v, Combination(ctx, lam, vars, v)
    PROVE  Weighted(ctx, lam, [j \in 1..Len(ctx) |-> Value(ctx[j], v)])
             = Weighted(ctx, lam, [j \in 1..Len(ctx) |-> ctx[j].const])
<1> DEFINE n == Len(ctx)
           linear == [j \in 1..n |-> Sum(NumNames, [i \in Names |-> ctx[j].coef[i] * v[i]])]
           f == [j \in 1..n |-> [i \in Names |-> lam[j] * (ctx[j].coef[i] * v[i])]]
           g == [i \in Names |-> [j \in 1..n |-> lam[j] * (ctx[j].coef[i] * v[i])]]
           rows == [j \in 1..n |-> Sum(NumNames, f[j])]
           columns == [i \in Names |-> Sum(n, g[i])]
<1>1. n \in Nat /\ \A j \in 1..n : ctx[j] \in Inequality /\ lam[j] \in Nat
  BY DEF Combination
<1>2. \A j \in 1..n, i \in Names : ctx[j].coef[i] \in Int /\ v[i] \in Int
  BY <1>1 DEF Inequality, Combination, Valuations
<1>3. \A j \in 1..n, i \in Names : ctx[j].coef[i] * v[i] \in Int /\ lam[j] * (ctx[j].coef[i] * v[i]) \in Int
  BY <1>1, <1>2
<1>4. \A j \in 1..n : linear[j] \in Int /\ rows[j] = lam[j] * linear[j]
  <2> TAKE j \in 1..n
  <2> DEFINE p == [i \in Names |-> ctx[j].coef[i] * v[i]]
             q == f[j]
  <2>1. \A i \in 1..NumNames : p[i] \in Int /\ q[i] = lam[j] * p[i]
    BY <1>3 DEF Names
  <2>2. linear[j] = Sum(NumNames, p) /\ rows[j] = Sum(NumNames, q) /\ lam[j] \in Int
    BY <1>1
  <2> HIDE DEF p, q
  <2>3. Sum(NumNames, p) \in Int
    BY <2>1, SumType, SizesAreNat
  <2>4. Sum(NumNames, q) = lam[j] * Sum(NumNames, p)
    BY <2>1, <2>2, SumScale, SizesAreNat
  <2> HIDE DEF linear, rows
  <2> QED BY <2>2, <2>3, <2>4
<1>5. \A i \in Names : columns[i] = 0
  <2> TAKE i \in Names
  <2> DEFINE p == [j \in 1..n |-> lam[j] * ctx[j].coef[i]]
             q == g[i]
  <2>1. columns[i] = Sum(n, q)
    OBVIOUS
  <2>2. CASE i \in vars
    <3> DEFINE w == [j \in 1..n |-> ctx[j].coef[i]]
               p2 == [j \in 1..n |-> lam[j] * w[j]]
    <3>1. Sum(n, p2) = 0
      BY <2>2, Zenon DEF Combination, EqualityConstraints, Weighted
    <3>2. \A j \in 1..n : p2[j] \in Int /\ q[j] = v[i] * p2[j]
      <4> TAKE j \in 1..n
      <4>1. lam[j] \in Int /\ ctx[j].coef[i] \in Int /\ v[i] \in Int
        BY <1>1, <1>2
      <4>2. p2[j] = lam[j] * ctx[j].coef[i] /\ q[j] = lam[j] * (ctx[j].coef[i] * v[i])
        OBVIOUS
      <4>3. \A a, b, c \in Int : a * (b * c) = c * (a * b)
        OBVIOUS
      <4>4. lam[j] * (ctx[j].coef[i] * v[i]) = v[i] * (lam[j] * ctx[j].coef[i])
        BY <4>1, <4>3, Zenon
      <4>5. lam[j] * ctx[j].coef[i] \in Int
        BY <4>1
      <4> HIDE DEF p2, q
      <4> QED BY <4>2, <4>4, <4>5, Zenon
    <3>3. v[i] \in Int
      BY DEF Combination, Valuations
    <3> HIDE DEF p2, q
    <3>4. Sum(n, q) = v[i] * Sum(n, p2)
      BY <3>2, <3>3, <1>1, SumScale
    <3> QED BY <2>1, <3>1, <3>3, <3>4
  <2>3. CASE i \notin vars
    <3>1. \A j \in 1..n : q[j] = 0
      BY <2>3, <1>1, <1>2 DEF Combination
    <3> HIDE DEF q
    <3> QED BY <2>1, <3>1, <1>1, SumAllZero
  <2> QED BY <2>2, <2>3
<1>6. Sum(n, rows) = 0
  <2>1. Matrix(n, NumNames, f, g, rows, columns)
    <3>1. \A j \in 1..n, i \in 1..NumNames : f[j][i] \in Int /\ g[i][j] = f[j][i]
      BY <1>3 DEF Names
    <3>2. \A j \in 1..n : rows[j] = Sum(NumNames, f[j])
      OBVIOUS
    <3>3. \A i \in 1..NumNames : columns[i] = Sum(n, g[i])
      BY DEF Names
    <3> HIDE DEF f, g, rows, columns
    <3> QED BY <3>1, <3>2, <3>3 DEF Matrix
  <2>2. Sum(n, rows) = Sum(NumNames, columns)
    <3> HIDE DEF f, g, rows, columns, n
    <3> QED BY <2>1, <1>1, SumSwap, SizesAreNat
  <2>3. Sum(NumNames, columns) = 0
    <3> HIDE DEF columns
    <3> QED BY <1>5, SumAllZero, SizesAreNat DEF Names
  <2> QED BY <2>2, <2>3
<1> DEFINE values == [j \in 1..n |-> lam[j] * [k \in 1..n |-> Value(ctx[k], v)][j]]
           consts == [j \in 1..n |-> lam[j] * [k \in 1..n |-> ctx[k].const][j]]
<1>7. \A j \in 1..n : /\ rows[j] \in Int /\ consts[j] \in Int
                      /\ values[j] = rows[j] + consts[j]
  <2> TAKE j \in 1..n
  <2>1. lam[j] \in Int /\ linear[j] \in Int /\ ctx[j].const \in Int
    <3>1. ctx[j] \in Inequality
      BY <1>1
    <3>2. ctx[j].const \in Int
      BY <3>1 DEF Inequality
    <3>3. lam[j] \in Int
      BY <1>1
    <3>4. linear[j] \in Int
      BY <1>4
    <3> QED BY <3>2, <3>3, <3>4
  <2>2. values[j] = lam[j] * (linear[j] + ctx[j].const) /\ consts[j] = lam[j] * ctx[j].const
    BY DEF Value
  <2>3. \A a, b, c \in Int : a * (b + c) = a * b + a * c /\ a * b \in Int
    OBVIOUS
  <2> HIDE DEF linear, rows, values, consts
  <2> QED BY <1>4, <2>1, <2>2, <2>3
<1>8. Sum(n, values) = Sum(n, rows) + Sum(n, consts) /\ Sum(n, consts) \in Int
  <2> HIDE DEF rows, values, consts
  <2> QED BY <1>1, <1>7, SumAdd, SumType
<1>9. /\ Weighted(ctx, lam, [j \in 1..Len(ctx) |-> Value(ctx[j], v)]) = Sum(n, values)
      /\ Weighted(ctx, lam, [j \in 1..Len(ctx) |-> ctx[j].const]) = Sum(n, consts)
  BY Zenon DEF Weighted
<1> HIDE DEF rows, values, consts
<1> QED BY <1>6, <1>8, <1>9

\* A certificate is what its name says: no valuation satisfies the whole context.
LEMMA CertificateIsSound ==
    ASSUME NEW ctx, NEW lam, NEW vars \in SUBSET Names, NEW v, Combination(ctx, lam, vars, v),
           Certifies(ctx, lam, vars)
    PROVE  \E j \in 1..Len(ctx) : ~Holds(ctx[j], v)
<1> SUFFICES ASSUME \A j \in 1..Len(ctx) : Holds(ctx[j], v) PROVE FALSE
  OBVIOUS
<1> DEFINE n == Len(ctx)
           weighted(w) == [j \in 1..n |-> lam[j] * w[j]]
           V == [j \in 1..n |-> Value(ctx[j], v)]
           C == [j \in 1..n |-> ctx[j].const]
           L == [j \in 1..n |-> IF ctx[j].strict THEN 0 ELSE ctx[j].const]
           N == [j \in 1..n |-> IF ctx[j].strict THEN 1 ELSE 0]
<1>1. n \in Nat /\ \A j \in 1..n : ctx[j] \in Inequality /\ lam[j] \in Nat
  BY DEF Combination
<1>2. \A j \in 1..n : V[j] \in Int /\ V[j] >= 0 /\ (ctx[j].strict => V[j] > 0)
  <2> TAKE j \in 1..n
  <2>1. Value(ctx[j], v) \in Int
    <3>1. ctx[j] \in Inequality /\ v \in Valuations
      BY <1>1 DEF Combination
    <3> QED BY <3>1, Products
  <2>2. Holds(ctx[j], v) /\ V[j] = Value(ctx[j], v)
    OBVIOUS
  <2>3. CASE ctx[j].strict
    <3>1. V[j] > 0
      BY <2>2, <2>3, Zenon DEF Holds
    <3> HIDE DEF V
    <3> QED BY <2>1, <2>2, <3>1
  <2>4. CASE ~ctx[j].strict
    <3>1. V[j] >= 0
      BY <2>2, <2>4, Zenon DEF Holds
    <3> QED BY <2>1, <2>2, <2>4, <3>1
  <2> QED BY <2>3, <2>4
<1>3. \A j \in 1..n : weighted(V)[j] \in Int /\ weighted(V)[j] >= 0
  <2>1. \A a \in Nat, b \in Int : b >= 0 => a * b \in Int /\ a * b >= 0
    OBVIOUS
  <2>2. \A j \in 1..n : weighted(V)[j] = lam[j] * V[j]
    OBVIOUS
  <2> HIDE DEF V
  <2> QED BY <1>1, <1>2, <2>1, <2>2
<1>4. /\ Weighted(ctx, lam, V) = Sum(n, weighted(V))
      /\ Weighted(ctx, lam, C) = Sum(n, weighted(C))
      /\ Weighted(ctx, lam, L) = Sum(n, weighted(L))
      /\ Weighted(ctx, lam, N) = Sum(n, weighted(N))
  BY Zenon DEF Weighted
<1>5. Weighted(ctx, lam, V) = Weighted(ctx, lam, C)
  BY VariablesCancel
<1>6. /\ Weighted(ctx, lam, C) <= 0
      /\ Weighted(ctx, lam, L) < 0 \/ Weighted(ctx, lam, N) > 0
  BY Zenon DEF Certifies, ConstantConstraint, StrictConstraint
<1>7. \A j \in 1..n : ctx[j].strict => lam[j] = 0
  <2> SUFFICES ASSUME NEW j \in 1..n, ctx[j].strict, lam[j] # 0 PROVE FALSE
    OBVIOUS
  <2>1. lam[j] \in Nat /\ lam[j] > 0 /\ V[j] \in Int /\ V[j] > 0
    BY <1>1, <1>2
  <2>2. weighted(V)[j] = lam[j] * V[j]
    OBVIOUS
  <2>3. weighted(V)[j] > 0
    <3>1. \A a \in Nat, b \in Int : a > 0 /\ b > 0 => a * b > 0
      OBVIOUS
    <3> HIDE DEF V, weighted
    <3> QED BY <2>1, <2>2, <3>1
  <2>4. Sum(n, weighted(V)) >= weighted(V)[j] /\ Sum(n, weighted(V)) \in Int
    <3> HIDE DEF V, weighted
    <3> QED BY <1>1, <1>3, SumAtLeast, SumType
  <2> HIDE DEF V, C, L, N, weighted
  <2> QED BY <1>3, <1>4, <1>5, <1>6, <2>3, <2>4
<1>8. Sum(n, weighted(N)) = 0
  <2>1. \A j \in 1..n : weighted(N)[j] = 0
    BY <1>1, <1>7
  <2> HIDE DEF N, weighted
  <2> QED BY <1>1, <2>1, SumAllZero
<1>9. Sum(n, weighted(L)) = Sum(n, weighted(C))
  <2>1. \A j \in 1..n : weighted(L)[j] = weighted(C)[j]
    <3> TAKE j \in 1..n
    <3>1. CASE ctx[j].strict
      <4>1. lam[j] = 0 /\ ctx[j].const \in Int
        BY <1>1, <1>7, <3>1 DEF Inequality
      <4> QED BY <4>1
    <3>2. CASE ~ctx[j].strict
      BY <3>2
    <3> QED BY <3>1, <3>2
  <2> HIDE DEF L, C, weighted
  <2> QED BY <1>1, <2>1, SumSame
<1>10. Sum(n, weighted(V)) \in Int /\ Sum(n, weighted(V)) >= 0
  <2> HIDE DEF V, weighted
  <2> QED BY <1>1, <1>3, SumType, SumNonneg
<1> HIDE DEF V, C, L, N, weighted
<1> QED BY <1>4, <1>5, <1>6, <1>8, <1>9, <1>10

\* Nothing satisfies a context the transformation refutes, provided every name
\* with a coefficient is one of those it was told to cancel.
THEOREM MotzkinIsSound ==
    ASSUME NEW ctx \in Seq(Inequality), ctx # <<>>, NEW vars \in SUBSET Names, NEW v \in Valuations,
           \A i \in Names \ vars : \A j \in 1..Len(ctx) : ctx[j].coef[i] = 0,
           Refuted(ctx, vars)
    PROVE  \E j \in 1..Len(ctx) : ~Holds(ctx[j], v)
<1>1. PICK lam \in [1..Len(ctx) -> 0..MaxMultiplier] : Certifies(ctx, lam, vars)
  BY DEF Refuted
<1>2. lam \in [1..Len(ctx) -> Nat]
  BY MultiplierAssumption
<1>3. EqualityConstraints(ctx, lam, vars)
  BY <1>1 DEF Certifies
<1>4. Combination(ctx, lam, vars, v)
  BY <1>2, <1>3 DEF Combination
<1> QED BY <1>1, <1>4, CertificateIsSound

----------------------------------------------------------------------------
(* The hypotheses on the lassos.                                           *)

\* The loop has one polyhedron: invariants are shown inductive branch by branch.
SingleBranch == \A l \in Lassos : Len(l.loop.polys) = 1

\* The names that belong to no program variable are declared auxiliary ones.
NamesKnown ==
    \A l \in Lassos : HiddenNames(l.stem) \subseteq l.aux /\ HiddenNames(l.loop) \subseteq l.aux

----------------------------------------------------------------------------
(* Contexts.                                                               *)

Known(ineq, vars) == \A i \in Names \ vars : ineq.coef[i] = 0

LEMMA LastFails ==
    ASSUME NEW pre \in Seq(Inequality), NEW d \in Inequality, NEW vars \in SUBSET Names,
           NEW v \in Valuations, Refuted(Append(pre, d), vars),
           Known(d, vars), \A j \in 1..Len(pre) : Known(pre[j], vars) /\ Holds(pre[j], v)
    PROVE  ~Holds(d, v)
<1> DEFINE ctx == Append(pre, d)
<1>1. ctx \in Seq(Inequality) /\ Len(ctx) = Len(pre) + 1 /\ ctx # <<>> /\ Len(pre) \in Nat
  <2>1. ctx \in Seq(Inequality)
    OBVIOUS
  <2>2. Len(ctx) = Len(pre) + 1 /\ Len(pre) \in Nat
    OBVIOUS
  <2>3. Len(<<>>) = 0
    OBVIOUS
  <2> HIDE DEF ctx
  <2> QED BY <2>1, <2>2, <2>3
<1>2. \A j \in 1..Len(ctx) : ctx[j] = IF j <= Len(pre) THEN pre[j] ELSE d
  OBVIOUS
<1>3. \A i \in Names \ vars : \A j \in 1..Len(ctx) : ctx[j].coef[i] = 0
  <2> TAKE i \in Names \ vars
  <2> TAKE j \in 1..Len(ctx)
  <2>1. CASE j <= Len(pre)
    <3>1. j \in 1..Len(pre) /\ ctx[j] = pre[j]
      BY <1>1, <1>2, <2>1
    <3> QED BY <3>1 DEF Known
  <2>2. CASE ~(j <= Len(pre))
    <3>1. ctx[j] = d
      BY <1>1, <1>2, <2>2
    <3> QED BY <3>1 DEF Known
  <2> QED BY <2>1, <2>2
<1>4. PICK j \in 1..Len(ctx) : ~Holds(ctx[j], v)
  <2> HIDE DEF ctx
  <2>1. Refuted(ctx, vars)
    BY DEF ctx
  <2> QED BY <1>1, <1>3, <2>1, MotzkinIsSound
<1>5. ~(j <= Len(pre))
  <2> SUFFICES ASSUME j <= Len(pre) PROVE FALSE
    OBVIOUS
  <2>1. j \in 1..Len(pre) /\ ctx[j] = pre[j]
    BY <1>1, <1>2
  <2> QED BY <1>4, <2>1
<1> QED BY <1>1, <1>2, <1>4, <1>5

LEMMA DeniedFails ==
    ASSUME NEW c \in Inequality, NEW v \in Valuations
    PROVE  Denied(c) \in Inequality /\ (Holds(Denied(c), v) <=> ~Holds(c, v))
<1> DEFINE d == Denied(c)
<1>1. Negate(c) \in Inequality /\ Value(Negate(c), v) = -Value(c, v) /\ Value(c, v) \in Int
  BY ValueNegate, Products
<1>2. d = [Negate(c) EXCEPT !.strict = ~c.strict] /\ c.strict \in BOOLEAN
  BY DEF Denied, Inequality
<1>3. d \in Inequality /\ d.coef = Negate(c).coef /\ d.const = Negate(c).const /\ d.strict = ~c.strict
  <2> HIDE DEF d
  <2> QED BY <1>1, <1>2 DEF Inequality
<1>4. Value(d, v) = Value(Negate(c), v)
  BY <1>3 DEF Value
<1> HIDE DEF d
<1>5. CASE c.strict
  <2>1. (Holds(d, v) <=> Value(d, v) >= 0) /\ (Holds(c, v) <=> Value(c, v) > 0)
    BY <1>3, <1>5, Zenon DEF Holds
  <2> QED BY <1>1, <1>3, <1>4, <2>1 DEF d
<1>6. CASE ~c.strict
  <2>1. (Holds(d, v) <=> Value(d, v) > 0) /\ (Holds(c, v) <=> Value(c, v) >= 0)
    BY <1>3, <1>6, Zenon DEF Holds
  <2> QED BY <1>1, <1>3, <1>4, <2>1 DEF d
<1> QED BY <1>5, <1>6

\* A tag for the transformation changes nothing of what an inequality says.
LEMMA TagKeeps ==
    ASSUME NEW c \in Inequality, NEW tag \in MotzkinCoefficient, NEW v
    PROVE  LET d == [c EXCEPT !.motzkin = tag]
           IN  /\ d \in Inequality /\ (Holds(d, v) <=> Holds(c, v))
               /\ \A vars : Known(d, vars) <=> Known(c, vars)
<1> DEFINE d == [c EXCEPT !.motzkin = tag]
<1>1. d \in Inequality /\ d.coef = c.coef /\ d.const = c.const /\ d.strict = c.strict
  BY DEF Inequality
<1>2. Holds(d, v) <=> Holds(c, v)
  <2> HIDE DEF d
  <2> QED BY <1>1 DEF Holds, Value
<1>3. \A vars : Known(d, vars) <=> Known(c, vars)
  <2> HIDE DEF d
  <2> QED BY <1>1 DEF Known
<1> QED BY <1>1, <1>2, <1>3

LEMMA StrictKeeps ==
    ASSUME NEW c \in Inequality, NEW strict \in BOOLEAN, NEW v
    PROVE  LET d == [c EXCEPT !.strict = strict]
           IN  /\ d \in Inequality /\ d.strict = strict /\ Value(d, v) = Value(c, v)
               /\ \A vars : Known(d, vars) <=> Known(c, vars)
<1> DEFINE d == [c EXCEPT !.strict = strict]
<1>1. d \in Inequality /\ d.coef = c.coef /\ d.const = c.const /\ d.strict = strict
  BY DEF Inequality
<1> HIDE DEF d
<1>2. Value(d, v) = Value(c, v)
  BY <1>1 DEF Value
<1>3. \A vars : Known(d, vars) <=> Known(c, vars)
  BY <1>1 DEF Known
<1> QED BY <1>1, <1>2, <1>3 DEF d

LEMMA KnownNegate ==
    ASSUME NEW c \in Inequality, NEW vars, Known(c, vars)
    PROVE  Known(Negate(c), vars) /\ Known(Denied(c), vars)
<1>1. c.coef \in [Names -> Int]
  BY DEF Inequality
<1>2. Negate(c).coef = [i \in Names |-> -c.coef[i]] /\ Denied(c).coef = [i \in Names |-> -c.coef[i]]
  <2>1. DOMAIN c = {"coef", "const", "strict", "param", "motzkin"}
    BY DEF Inequality
  <2> QED BY <2>1 DEF Negate, Denied
<1> QED BY <1>1, <1>2 DEF Known

LEMMA KnownPlus ==
    ASSUME NEW a \in Inequality, NEW b \in Inequality, NEW vars, Known(a, vars), Known(b, vars)
    PROVE  Known(Plus(a, b), vars)
<1>1. a.coef \in [Names -> Int] /\ b.coef \in [Names -> Int]
  BY DEF Inequality
<1>2. Plus(a, b).coef = [i \in Names |-> a.coef[i] + b.coef[i]]
  BY DEF Plus
<1> QED BY <1>1, <1>2 DEF Known

\* The names ssa gives the variables are among vars; v gives them the values of y.
Within(ssa, vars) == \A u \in Vars : ssa[u] \in vars
Gives(v, ssa, y) == \A u \in Vars : v[ssa[u]] = y[u]

LEMMA KnownGenerate ==
    ASSUME NEW f \in Affine, NEW ssa \in [Vars -> Names], NEW vars, Within(ssa, vars)
    PROVE  Known(Generate(f, ssa), vars)
<1> SUFFICES ASSUME NEW i \in Names \ vars PROVE Generate(f, ssa).coef[i] = 0
  BY DEF Known
<1> DEFINE g == [u \in Vars |-> IF ssa[u] = i THEN f.coef[u] ELSE 0]
<1>1. Generate(f, ssa).coef[i] = Sum(NumVars, g)
  BY DEF Generate
<1>2. \A u \in 1..NumVars : g[u] = 0
  BY DEF Vars, Within
<1> HIDE DEF g
<1> QED BY <1>1, <1>2, SumAllZero, SizesAreNat

\* An affine function over the SSA names of x has its value at x.
LEMMA GenerateAt ==
    ASSUME NEW f \in Affine, NEW ssa \in [Vars -> Names], NEW v \in Valuations,
           NEW y \in IntPoints, Gives(v, ssa, y)
    PROVE  /\ Generate(f, ssa) \in Inequality
           /\ Value(Generate(f, ssa), v) = AffineValue(f, y) /\ AffineValue(f, y) \in Int
<1>1. y = [u \in Vars |-> v[ssa[u]]]
  BY DEF IntPoints, Gives
<1> QED BY <1>1, ValueGenerate, Products

----------------------------------------------------------------------------
(* Steps of the lasso.                                                     *)

LEMMA StateIsInt == ASSUME NEW y \in State PROVE y \in IntPoints /\ \A u \in Vars : y[u] \in Int
BY DomainAssumption DEF State, IntPoints

\* t has a step from y to z through polyhedron p when its variables and its other
\* names range over all integers (and not over the values of Domain only).
StepsThrough(t, p, y, z) ==
    \E v \in Valuations : Reads(t, v, y, z) /\ Satisfies(t.polys[p], v)

StepsTo(t, y, z) == \E p \in 1..Len(t.polys) : StepsThrough(t, p, y, z)

\* A step of the run is one of these.
LEMMA StepValuation ==
    ASSUME NEW l \in Lassos, NEW t \in {l.stem, l.loop}, NEW y \in State, NEW z \in State,
           Related(t, y, z)
    PROVE  StepsTo(t, y, z)
<1>1. PICK p \in 1..Len(t.polys) : RelatedBy(t, p, y, z)
  BY DEF Related
<1>2. PICK hidden \in [HiddenNames(t) -> Domain] :
         LET v == Valuation(t, y, z, hidden) IN Reads(t, v, y, z) /\ Satisfies(t.polys[p], v)
  BY <1>1 DEF RelatedBy
<1> DEFINE v == Valuation(t, y, z, hidden)
<1>3. \A i \in Names : v[i] \in Int
  <2> TAKE i \in Names
  <2>1. CASE \E u \in Vars : t.in[u] = i
    <3> DEFINE w == CHOOSE u \in Vars : t.in[u] = i
    <3>1. w \in Vars
      BY <2>1
    <3>2. v[i] = y[w]
      BY <2>1 DEF Valuation
    <3> QED BY <3>1, <3>2, StateIsInt
  <2>2. CASE ~(\E u \in Vars : t.in[u] = i) /\ \E u \in Vars : t.out[u] = i
    <3> DEFINE w == CHOOSE u \in Vars : t.out[u] = i
    <3>1. w \in Vars
      BY <2>2
    <3>2. v[i] = z[w]
      BY <2>2 DEF Valuation
    <3> QED BY <3>1, <3>2, StateIsInt
  <2>3. CASE ~(\E u \in Vars : t.in[u] = i) /\ ~(\E u \in Vars : t.out[u] = i)
    <3>1. v[i] = IF i \in DOMAIN hidden THEN hidden[i] ELSE 0
      BY <2>3 DEF Valuation
    <3>2. CASE i \in DOMAIN hidden
      <4>1. hidden[i] \in Domain /\ v[i] = hidden[i]
        BY <3>1, <3>2
      <4> QED BY <4>1, DomainAssumption
    <3>3. CASE i \notin DOMAIN hidden
      BY <3>1, <3>3
    <3> QED BY <3>2, <3>3
  <2> QED BY <2>1, <2>2, <2>3
<1>4. v \in Valuations
  <2>1. v = [i \in Names |-> v[i]]
    BY DEF Valuation
  <2> HIDE DEF v
  <2> QED BY <1>3, <2>1 DEF Valuations
<1> QED BY <1>2, <1>4 DEF StepsTo, StepsThrough

\* The names of a polyhedron are variables of the lasso or auxiliary names.
LEMMA PolyhedronKnown ==
    ASSUME NamesKnown, NEW l \in Lassos, NEW t \in {l.stem, l.loop}, NEW p \in 1..Len(t.polys)
    PROVE  /\ t.polys[p] \in Seq(Inequality)
           /\ t.in \in [Vars -> Names] /\ t.out \in [Vars -> Names]
           /\ AllVars(l) \in SUBSET Names
           /\ Within(t.in, AllVars(l)) /\ Within(t.out, AllVars(l))
           /\ \A j \in 1..Len(t.polys[p]) : Known(t.polys[p][j], AllVars(l))
<1>1. /\ l.stem \in Transition /\ l.loop \in Transition /\ l.aux \in SUBSET Names
      /\ t \in Transition
  BY LassosAssumption
<1>2. t.polys \in Seq(Seq(Inequality)) /\ t.in \in [Vars -> Names] /\ t.out \in [Vars -> Names]
  BY <1>1 DEF Transition
<1>3. /\ l.stem.in \in [Vars -> Names] /\ l.stem.out \in [Vars -> Names]
      /\ l.loop.in \in [Vars -> Names] /\ l.loop.out \in [Vars -> Names]
  BY <1>1 DEF Transition
<1>4. AllVars(l) \in SUBSET Names
  BY <1>1, <1>3 DEF AllVars
<1>5. \A u \in Vars : t.in[u] \in AllVars(l) /\ t.out[u] \in AllVars(l)
  BY DEF AllVars
<1>6. HiddenNames(t) \subseteq AllVars(l)
  BY DEF NamesKnown, AllVars
<1>7. ASSUME NEW j \in 1..Len(t.polys[p]), NEW i \in Names \ AllVars(l)
      PROVE  t.polys[p][j].coef[i] = 0
  <2>1. i \notin HiddenNames(t) /\ \A u \in Vars : t.in[u] # i /\ t.out[u] # i
    BY <1>5, <1>6
  <2> QED BY <2>1 DEF HiddenNames
<1> QED BY <1>2, <1>4, <1>5, <1>7 DEF Known, Within

----------------------------------------------------------------------------
(* Supporting invariants and ranking functions over a step.                *)

SIHolds(s, c, k, y) ==
    IF isStrict(c, k) THEN AffineValue(s[k], y) > 0 ELSE AffineValue(s[k], y) >= 0

Configuration == [strict : Nat, nonstrict : Nat]

Invariants(c) == [1..(c.strict + c.nonstrict) -> Supports]

LEMMA InvariantIndices ==
    ASSUME NEW c \in Configuration, NEW s \in Invariants(c)
    PROVE  /\ s \in Seq(Affine) /\ Len(s) = c.strict + c.nonstrict
           /\ \A k \in 1..Len(s) : s[k] \in Affine
<1>1. c.strict + c.nonstrict \in Nat
  BY DEF Configuration
<1>2. s \in Seq(Supports) /\ Len(s) = c.strict + c.nonstrict
  BY <1>1 DEF Invariants
<1>3. \A k \in 1..Len(s) : s[k] \in Affine
  BY <1>2, CandidatesAssumption
<1>4. s \in Seq(Affine)
  BY <1>2, CandidatesAssumption
<1> QED BY <1>2, <1>3, <1>4

\* The inequality of an invariant says of the names what the invariant says of the
\* state they are the names of.
LEMMA SIAt ==
    ASSUME NEW c, NEW s, NEW k, s[k] \in Affine, NEW ssa \in [Vars -> Names],
           NEW vars, Within(ssa, vars),
           NEW v \in Valuations, NEW y \in IntPoints, Gives(v, ssa, y)
    PROVE  /\ SI(s, c, k, ssa) \in Inequality /\ Known(SI(s, c, k, ssa), vars)
           /\ Holds(SI(s, c, k, ssa), v) <=> SIHolds(s, c, k, y)
<1> DEFINE g == Generate(s[k], ssa)
           d == SI(s, c, k, ssa)
<1>1. g \in Inequality /\ Value(g, v) = AffineValue(s[k], y)
  BY GenerateAt
<1>2. Known(g, vars)
  BY KnownGenerate
<1>3. isStrict(c, k) \in BOOLEAN
  BY DEF isStrict
<1>4. d = [g EXCEPT !.strict = isStrict(c, k)]
  BY DEF SI
<1> HIDE DEF g, d
<1>5. /\ d \in Inequality /\ d.strict = isStrict(c, k) /\ Value(d, v) = Value(g, v)
      /\ Known(d, vars)
  BY <1>1, <1>2, <1>3, <1>4, StrictKeeps
<1>6. Holds(d, v) <=> SIHolds(s, c, k, y)
  BY <1>1, <1>5, Zenon DEF Holds, SIHolds
<1> QED BY <1>5, <1>6 DEF d

LEMMA StemEstablishes ==
    ASSUME NamesKnown, NEW l \in Lassos, NEW c \in Configuration, NEW s \in Invariants(c),
           Initiated(l, s, c), NEW w, NEW y \in IntPoints, StepsTo(l.stem, w, y),
           NEW k \in 1..Len(s)
    PROVE  SIHolds(s, c, k, y)
<1>1. PICK v \in Valuations, p \in 1..Len(l.stem.polys) :
         Reads(l.stem, v, w, y) /\ Satisfies(l.stem.polys[p], v)
  BY DEF StepsTo, StepsThrough
<1> DEFINE vars == AllVars(l)
           poly == l.stem.polys[p]
           si == SI(s, c, k, l.stem.out)
           d == [Denied(si) EXCEPT !.motzkin = "ONE"]
<1>2. /\ poly \in Seq(Inequality) /\ l.stem.out \in [Vars -> Names] /\ vars \in SUBSET Names
      /\ Within(l.stem.out, vars)
      /\ \A j \in 1..Len(poly) : Known(poly[j], vars)
  BY PolyhedronKnown
<1>3. s[k] \in Affine /\ Gives(v, l.stem.out, y)
  BY <1>1, InvariantIndices DEF Reads, Gives
<1>4. si \in Inequality /\ Known(si, vars) /\ (Holds(si, v) <=> SIHolds(s, c, k, y))
  BY <1>2, <1>3, SIAt
<1> HIDE DEF vars, si
<1>5. /\ Denied(si) \in Inequality /\ Known(Denied(si), vars)
      /\ Holds(Denied(si), v) <=> ~Holds(si, v)
  BY <1>4, DeniedFails, KnownNegate
<1>6. d \in Inequality /\ Known(d, vars) /\ (Holds(d, v) <=> ~Holds(si, v))
  <2>1. "ONE" \in MotzkinCoefficient
    BY DEF MotzkinCoefficient
  <2> QED BY <1>5, <2>1, TagKeeps
<1>7. Refuted(Append(poly, d), vars)
  BY <1>1 DEF Initiated, Phi1, vars, si
<1>8. \A j \in 1..Len(poly) : Holds(poly[j], v)
  BY <1>1 DEF Satisfies
<1> HIDE DEF d, poly
<1>9. ~Holds(d, v)
  BY <1>2, <1>6, <1>7, <1>8, LastFails DEF vars
<1> QED BY <1>4, <1>6, <1>9

\* The invariants of a polyhedron of the loop survive a step through it.
LEMMA LoopKeeps ==
    ASSUME NamesKnown, NEW l \in Lassos, NEW c \in Configuration, NEW s \in Invariants(c),
           NEW p \in 1..Len(l.loop.polys), Inductive(l, p, s, c),
           NEW v \in Valuations, NEW y \in IntPoints, NEW z \in IntPoints,
           Reads(l.loop, v, y, z), Satisfies(l.loop.polys[p], v),
           NEW k \in 1..Len(s), SIHolds(s, c, k, y)
    PROVE  SIHolds(s, c, k, z)
<1> DEFINE vars == AllVars(l)
           poly == l.loop.polys[p]
           before == SI(s, c, k, l.loop.in)
           after == SI(s, c, k, l.loop.out)
           d == [Denied(after) EXCEPT !.motzkin = "ZERO_AND_ONE"]
           pre == Append(poly, before)
<1>2. /\ poly \in Seq(Inequality) /\ vars \in SUBSET Names
      /\ l.loop.in \in [Vars -> Names] /\ l.loop.out \in [Vars -> Names]
      /\ Within(l.loop.in, vars) /\ Within(l.loop.out, vars)
      /\ \A j \in 1..Len(poly) : Known(poly[j], vars)
  BY PolyhedronKnown
<1>3. s[k] \in Affine /\ Gives(v, l.loop.in, y) /\ Gives(v, l.loop.out, z)
  BY InvariantIndices DEF Reads, Gives
<1>4. before \in Inequality /\ Known(before, vars) /\ Holds(before, v)
  BY <1>2, <1>3, SIAt
<1>5. after \in Inequality /\ Known(after, vars) /\ (Holds(after, v) <=> SIHolds(s, c, k, z))
  BY <1>2, <1>3, SIAt
<1>6. Refuted(Append(pre, d), vars)
  BY DEF Inductive, Phi2
<1>7. \A j \in 1..Len(poly) : Holds(poly[j], v)
  BY DEF Satisfies
<1> HIDE DEF vars, before, after, poly
<1>8. /\ Denied(after) \in Inequality /\ Known(Denied(after), vars)
      /\ Holds(Denied(after), v) <=> ~Holds(after, v)
  BY <1>5, DeniedFails, KnownNegate
<1>9. d \in Inequality /\ Known(d, vars) /\ (Holds(d, v) <=> ~Holds(after, v))
  <2>1. "ZERO_AND_ONE" \in MotzkinCoefficient
    BY DEF MotzkinCoefficient
  <2> QED BY <1>8, <2>1, TagKeeps
<1>10. pre \in Seq(Inequality)
  BY <1>2, <1>4
<1>11. ASSUME NEW j \in 1..Len(pre) PROVE Known(pre[j], vars) /\ Holds(pre[j], v)
  <2>1. Len(pre) = Len(poly) + 1 /\ Len(poly) \in Nat
    BY <1>2
  <2>2. CASE j <= Len(poly)
    <3>1. j \in 1..Len(poly) /\ pre[j] = poly[j]
      BY <1>2, <2>1, <2>2
    <3> QED BY <1>2, <1>7, <3>1
  <2>3. CASE ~(j <= Len(poly))
    <3>1. pre[j] = before
      BY <1>2, <2>1, <2>3
    <3> QED BY <1>4, <3>1
  <2> QED BY <2>2, <2>3
<1> HIDE DEF d, pre
<1>12. ~Holds(d, v)
  BY <1>2, <1>6, <1>9, <1>10, <1>11, LastFails
<1> QED BY <1>5, <1>9, <1>12

LEMMA Concatenation ==
    ASSUME NEW S, NEW a \in Seq(S), NEW b \in Seq(S)
    PROVE  /\ a \o b \in Seq(S) /\ Len(a) \in Nat /\ Len(b) \in Nat
           /\ Len(a \o b) = Len(a) + Len(b)
           /\ \A j \in 1..Len(a) : (a \o b)[j] = a[j]
           /\ \A j \in Len(a) + 1 .. Len(a) + Len(b) : (a \o b)[j] = b[j - Len(a)]
<1>1. a \o b \in Seq(S) /\ Len(a) \in Nat /\ Len(b) \in Nat
  OBVIOUS
<1>2. Len(a \o b) = Len(a) + Len(b)
  OBVIOUS
<1>3. \A j \in 1..Len(a) : (a \o b)[j] = a[j]
  OBVIOUS
<1>4. \A j \in Len(a) + 1 .. Len(a) + Len(b) : (a \o b)[j] = b[j - Len(a)]
  OBVIOUS
<1> QED BY <1>1, <1>2, <1>3, <1>4

\* A requirement on the loop of which the invariants of its polyhedron are premises:
\* what Phi34 has refuted the negation of holds over every step.
LEMMA RequirementHolds ==
    ASSUME NamesKnown, NEW l \in Lassos, NEW c \in Configuration, NEW s \in Invariants(c),
           NEW p \in 1..Len(l.loop.polys),
           NEW v \in Valuations, NEW y \in IntPoints, NEW z \in IntPoints,
           Reads(l.loop, v, y, z), Satisfies(l.loop.polys[p], v),
           \A k \in 1..Len(s) : SIHolds(s, c, k, y),
           NEW e \in Inequality, Known(e, AllVars(l)),
           Refuted(Append(l.loop.polys[p] \o [k \in 1..Len(s) |-> Premise(s, c, k, l.loop.in)],
                          Denied(e)), AllVars(l))
    PROVE  Holds(e, v)
<1> DEFINE vars == AllVars(l)
           poly == l.loop.polys[p]
           premises == [k \in 1..Len(s) |-> Premise(s, c, k, l.loop.in)]
           pre == poly \o premises
<1>1. /\ poly \in Seq(Inequality) /\ vars \in SUBSET Names
      /\ l.loop.in \in [Vars -> Names] /\ Within(l.loop.in, vars)
      /\ \A j \in 1..Len(poly) : Known(poly[j], vars)
  BY PolyhedronKnown
<1>2. \A j \in 1..Len(poly) : Holds(poly[j], v)
  BY DEF Satisfies
<1>3. Refuted(Append(pre, Denied(e)), vars)
  OBVIOUS
<1>4. ASSUME NEW k \in 1..Len(s)
      PROVE  /\ Premise(s, c, k, l.loop.in) \in Inequality
             /\ Known(Premise(s, c, k, l.loop.in), vars)
             /\ Holds(Premise(s, c, k, l.loop.in), v)
  <2> DEFINE si == SI(s, c, k, l.loop.in)
             tag == IF isStrict(c, k) THEN "ANYTHING" ELSE "ONE"
  <2>1. s[k] \in Affine /\ Gives(v, l.loop.in, y)
    BY InvariantIndices DEF Reads, Gives
  <2>2. si \in Inequality /\ Known(si, vars) /\ (Holds(si, v) <=> SIHolds(s, c, k, y))
    BY <1>1, <2>1, SIAt
  <2>3. tag \in MotzkinCoefficient
    BY DEF MotzkinCoefficient
  <2>4. Premise(s, c, k, l.loop.in) = [si EXCEPT !.motzkin = tag]
    BY DEF Premise
  <2> HIDE DEF si, tag, vars
  <2> QED BY <2>2, <2>3, <2>4, TagKeeps
<1>5. Len(s) \in Nat
  BY InvariantIndices
<1> HIDE DEF vars, poly
<1>6. /\ premises \in Seq(Inequality) /\ Len(premises) = Len(s)
      /\ \A k \in 1..Len(s) : premises[k] = Premise(s, c, k, l.loop.in)
  BY <1>4, <1>5
<1> HIDE DEF premises
<1>7. /\ pre \in Seq(Inequality) /\ Len(pre) = Len(poly) + Len(s) /\ Len(poly) \in Nat
      /\ \A j \in 1..Len(poly) : pre[j] = poly[j]
      /\ \A j \in Len(poly) + 1 .. Len(poly) + Len(s) : pre[j] = premises[j - Len(poly)]
  <2>1. poly \in Seq(Inequality) /\ premises \in Seq(Inequality)
    BY <1>1, <1>6
  <2>2. pre \in Seq(Inequality) /\ Len(poly) \in Nat
    BY <2>1, Concatenation
  <2>3. Len(pre) = Len(poly) + Len(premises)
    BY <2>1, Concatenation
  <2>4. \A j \in 1..Len(poly) : pre[j] = poly[j]
    BY <2>1, Concatenation
  <2>5. \A j \in Len(poly) + 1 .. Len(poly) + Len(premises) : pre[j] = premises[j - Len(poly)]
    BY <2>1, Concatenation
  <2> QED BY <1>6, <2>2, <2>3, <2>4, <2>5
<1> HIDE DEF pre
<1>8. ASSUME NEW j \in 1..Len(pre) PROVE Known(pre[j], vars) /\ Holds(pre[j], v)
  <2>1. CASE j <= Len(poly)
    <3>1. j \in 1..Len(poly) /\ pre[j] = poly[j]
      BY <1>7, <2>1
    <3> QED BY <1>1, <1>2, <3>1
  <2>2. CASE ~(j <= Len(poly))
    <3>1. j - Len(poly) \in 1..Len(s) /\ pre[j] = premises[j - Len(poly)]
      BY <1>5, <1>7, <2>2
    <3> QED BY <1>4, <1>6, <3>1
  <2> QED BY <2>1, <2>2
<1>9. Denied(e) \in Inequality /\ Known(Denied(e), vars) /\ (Holds(Denied(e), v) <=> ~Holds(e, v))
  BY DeniedFails, KnownNegate DEF vars
<1>10. ~Holds(Denied(e), v)
  BY <1>1, <1>3, <1>7, <1>8, <1>9, LastFails
<1> QED BY <1>9, <1>10

\* What decrement m and the bound say of a step from y to z.
Drop(t, fs, delta, m, y, z) ==
    AffineValue(fs[m], y) - AffineValue(fs[m], z)
      + (IF m = 1 THEN -delta ELSE AffineValue(fs[m - 1], y))

Meets(t, value) == IF Strict(t) THEN value > 0 ELSE value >= 0

LEMMA ConclusionAt ==
    ASSUME NEW e \in Inequality, NEW t, NEW vars, Known(e, vars), NEW v \in Valuations
    PROVE  /\ Conclusion(e, Strict(t)) \in Inequality /\ Known(Conclusion(e, Strict(t)), vars)
           /\ Holds(Conclusion(e, Strict(t)), v) <=> Meets(t, Value(e, v))
<1> DEFINE d == [e EXCEPT !.strict = Strict(t)]
           f == [d EXCEPT !.motzkin = "ONE"]
<1>1. Strict(t) \in BOOLEAN
  BY DEF Strict
<1>2. d \in Inequality /\ d.strict = Strict(t) /\ Value(d, v) = Value(e, v) /\ Known(d, vars)
  BY <1>1, StrictKeeps
<1>3. "ONE" \in MotzkinCoefficient
  BY DEF MotzkinCoefficient
<1> HIDE DEF d
<1>4. f \in Inequality /\ Known(f, vars) /\ (Holds(f, v) <=> Holds(d, v))
  BY <1>2, <1>3, TagKeeps
<1>5. Conclusion(e, Strict(t)) = f
  BY DEF Conclusion, d, Inequality
<1>6. Holds(d, v) <=> Meets(t, Value(e, v))
  BY <1>2, Zenon DEF Holds, Meets
<1> HIDE DEF f
<1> QED BY <1>4, <1>5, <1>6

LEMMA MinusAt ==
    ASSUME NEW e \in Inequality, NEW k \in Int, NEW vars, Known(e, vars), NEW v \in Valuations
    PROVE  /\ Minus(e, k) \in Inequality /\ Known(Minus(e, k), vars)
           /\ Value(Minus(e, k), v) = Value(e, v) - k
<1>1. /\ Minus(e, k) \in Inequality /\ Minus(e, k).coef = e.coef
      /\ Minus(e, k).const = e.const - k
  BY DEF Minus, Inequality
<1>2. Known(Minus(e, k), vars)
  BY <1>1 DEF Known
<1>3. Value(Minus(e, k), v) = Value(e, v) - k
  <2>1. Sum(NumNames, [i \in Names |-> e.coef[i] * v[i]]) \in Int /\ e.const \in Int
    BY Products DEF Inequality
  <2> DEFINE linear == Sum(NumNames, [i \in Names |-> e.coef[i] * v[i]])
  <2>2. Value(Minus(e, k), v) = linear + (e.const - k) /\ Value(e, v) = linear + e.const
    BY <1>1 DEF Value
  <2> HIDE DEF linear
  <2> QED BY <2>1, <2>2 DEF linear
<1> QED BY <1>1, <1>2, <1>3

LEMMA DecreaseAt ==
    ASSUME NEW t, NEW n \in Nat \ {0}, NEW fs \in [1..n -> Functions], NEW delta \in 1..MaxDelta,
           NEW in \in [Vars -> Names], NEW out \in [Vars -> Names], NEW vars,
           Within(in, vars), Within(out, vars), NEW m \in 1..n,
           NEW v \in Valuations, NEW y \in IntPoints, NEW z \in IntPoints, Gives(v, in, y), Gives(v, out, z)
    PROVE  LET e == getConstraintsDec(t, fs, delta, in, out, m)
           IN  /\ e \in Inequality /\ Known(e, vars)
               /\ Holds(e, v) <=> Meets(t, Drop(t, fs, delta, m, y, z))
<1> DEFINE g == Generate(fs[m], in)
           h == Generate(fs[m], out)
           drop == Plus(g, Negate(h))
           value == AffineValue(fs[m], y) - AffineValue(fs[m], z)
<1>1. fs[m] \in Affine /\ (m # 1 => fs[m - 1] \in Affine)
  BY CandidatesAssumption
<1>2. g \in Inequality /\ Value(g, v) = AffineValue(fs[m], y) /\ AffineValue(fs[m], y) \in Int
  BY <1>1, GenerateAt
<1>3. h \in Inequality /\ Value(h, v) = AffineValue(fs[m], z) /\ AffineValue(fs[m], z) \in Int
  BY <1>1, GenerateAt
<1>4. Known(g, vars) /\ Known(h, vars)
  BY <1>1, KnownGenerate
<1> HIDE DEF g, h
<1>5. Negate(h) \in Inequality /\ Value(Negate(h), v) = -Value(h, v) /\ Known(Negate(h), vars)
  BY <1>3, <1>4, ValueNegate, KnownNegate
<1>6. drop \in Inequality /\ Value(drop, v) = value /\ Known(drop, vars) /\ value \in Int
  <2>1. drop \in Inequality /\ Value(drop, v) = Value(g, v) + Value(Negate(h), v)
    BY <1>2, <1>5, ValuePlus
  <2>2. Known(drop, vars)
    BY <1>2, <1>4, <1>5, KnownPlus
  <2> QED BY <1>2, <1>3, <1>5, <2>1, <2>2
<1> DEFINE e == IF m = 1 THEN Minus(drop, delta) ELSE Plus(drop, Generate(fs[m - 1], in))
<1>7. getConstraintsDec(t, fs, delta, in, out, m) = Conclusion(e, Strict(t))
  BY DEF getConstraintsDec, g, h
<1> HIDE DEF drop, value
<1>8. e \in Inequality /\ Known(e, vars) /\ Value(e, v) = Drop(t, fs, delta, m, y, z)
  <2>1. CASE m = 1
    <3>1. delta \in Int
      BY CandidatesAssumption
    <3>2. /\ Minus(drop, delta) \in Inequality /\ Known(Minus(drop, delta), vars)
          /\ Value(Minus(drop, delta), v) = Value(drop, v) - delta
      BY <1>6, <3>1, MinusAt
    <3>3. Drop(t, fs, delta, m, y, z) = value + (-delta)
      BY <2>1 DEF Drop, value
    <3> QED BY <1>6, <2>1, <3>1, <3>2, <3>3
  <2>2. CASE m # 1
    <3> DEFINE k == Generate(fs[m - 1], in)
    <3>1. /\ k \in Inequality /\ Value(k, v) = AffineValue(fs[m - 1], y)
          /\ Known(k, vars)
      BY <1>1, <2>2, GenerateAt, KnownGenerate
    <3>2. Drop(t, fs, delta, m, y, z) = value + AffineValue(fs[m - 1], y)
      BY <2>2 DEF Drop, value
    <3>3. e = Plus(drop, k)
      BY <2>2
    <3> HIDE DEF k, e
    <3>4. Plus(drop, k) \in Inequality /\ Value(Plus(drop, k), v) = Value(drop, v) + Value(k, v)
      BY <1>6, <3>1, ValuePlus
    <3>5. Known(Plus(drop, k), vars)
      BY <1>6, <3>1, KnownPlus
    <3> QED BY <1>6, <3>1, <3>2, <3>3, <3>4, <3>5
  <2> QED BY <2>1, <2>2
<1> HIDE DEF e
<1> QED BY <1>7, <1>8, ConclusionAt

LEMMA BoundAt ==
    ASSUME NEW t, NEW n \in Nat \ {0}, NEW fs \in [1..n -> Functions],
           NEW in \in [Vars -> Names], NEW vars, Within(in, vars),
           NEW v \in Valuations, NEW y \in IntPoints, Gives(v, in, y)
    PROVE  LET e == getConstraintsBounded(t, fs, in)
           IN  /\ e \in Inequality /\ Known(e, vars)
               /\ Holds(e, v) <=> Meets(t, AffineValue(fs[n], y))
<1>1. Len(fs) = n /\ fs[n] \in Affine
  <2>1. fs[n] \in Functions
    OBVIOUS
  <2>2. fs \in Seq(Functions) /\ Len(fs) = n
    OBVIOUS
  <2> QED BY <2>1, <2>2, CandidatesAssumption
<1> DEFINE g == Generate(fs[n], in)
<1>2. g \in Inequality /\ Value(g, v) = AffineValue(fs[n], y) /\ Known(g, vars)
  BY <1>1, GenerateAt, KnownGenerate
<1>3. getConstraintsBounded(t, fs, in) = Conclusion(g, Strict(t))
  BY <1>1 DEF getConstraintsBounded
<1> HIDE DEF g
<1> QED BY <1>2, <1>3, ConclusionAt

----------------------------------------------------------------------------
(* What is in an argument.                                                 *)

Parts(l, n) == (1..Len(l.loop.polys)) \X (1..(n + 1))

\* The invariants of part q are inductive for its polyhedron, the stem establishes
\* them, and they are enough for what part q requires.
PartProved(a, l, t, n, c, q) ==
    /\ a.si[q] \in Invariants(c)
    /\ Initiated(l, a.si[q], c) /\ Inductive(l, q[1], a.si[q], c)
    /\ Refuted(Phi34(l, q[1], q[2], t, a.fs, a.delta, a.si[q], c), AllVars(l))

ArgumentOf(a, l, t, n, c) ==
    /\ a.template = t /\ a.c = c
    /\ a.fs \in [1..n -> Functions] /\ a.delta \in 1..MaxDelta
    /\ DOMAIN a.si = Parts(l, n)
    /\ \A q \in Parts(l, n) : PartProved(a, l, t, n, c, q)

LEMMA ArgumentFacts ==
    ASSUME NEW l, NEW t, NEW n, NEW c, NEW a \in Arguments(l, t, n, c)
    PROVE  ArgumentOf(a, l, t, n, c)
<1>0. PICK shape \in [1..n -> Functions] \X (1..MaxDelta) :
         a \in ArgumentsWith(l, t, n, c, shape[1], shape[2])
  BY DEF Arguments
<1>1. PICK fs \in [1..n -> Functions], delta \in 1..MaxDelta :
         a \in ArgumentsWith(l, t, n, c, fs, delta)
  BY <1>0
<1>2. PICK si \in Supports34(l, t, n, c, fs, delta) :
         a = [template |-> t, fs |-> fs, delta |-> delta, c |-> c, si |-> si]
  BY <1>1 DEF ArgumentsWith
<1>3. DOMAIN si = PartsOf(l, n)
  BY DEF Supports34
<1>4. ASSUME NEW q \in Parts(l, n)
      PROVE  PartProved(a, l, t, n, c, q)
  <2>1. q \in PartsOf(l, n) /\ q[1] \in 1..Len(l.loop.polys)
    BY DEF Parts, PartsOf
  <2>2. /\ si[q] \in Supporting(l, q[1], c)
        /\ Refuted(Phi34(l, q[1], q[2], t, fs, delta, si[q], c), AllVars(l))
    BY <2>1 DEF Supports34
  <2>3. a.si = si /\ a.fs = fs /\ a.delta = delta
    BY <1>2
  <2> QED BY <2>2, <2>3 DEF PartProved, Supporting, Invariants
<1> QED BY <1>2, <1>3, <1>4 DEF ArgumentOf, Parts, PartsOf

\* An argument that was found, for the lasso and some shape of argument.
Good(a, l) ==
    \E t \in Templates, n \in Nat \ {0}, c \in Configuration :
        (t = "AffineTemplate" => n = 1) /\ ArgumentOf(a, l, t, n, c)

LEMMA StemSupports ==
    ASSUME NamesKnown, NEW l \in Lassos, NEW a, Good(a, l), NEW w, NEW y \in IntPoints,
           StepsTo(l.stem, w, y)
    PROVE  Supported(a, y)
<1>1. PICK t \in Templates, n \in Nat \ {0}, c \in Configuration : ArgumentOf(a, l, t, n, c)
  BY DEF Good
<1> SUFFICES ASSUME NEW q \in DOMAIN a.si, NEW k \in 1..Len(a.si[q]) PROVE SIHolds(a.si[q], c, k, y)
  BY <1>1 DEF Supported, SIHolds, ArgumentOf
<1>2. a.si[q] \in Invariants(c) /\ Initiated(l, a.si[q], c)
  BY <1>1 DEF ArgumentOf, PartProved
<1> QED BY <1>2, StemEstablishes

\* The invariants that belong to polyhedron p hold at y.
SupportedIn(a, p, y) ==
    \A q \in DOMAIN a.si : q[1] = p => \A k \in 1..Len(a.si[q]) : SIHolds(a.si[q], a.c, k, y)

LEMMA SupportedSplits ==
    ASSUME NEW a, NEW y
    PROVE  Supported(a, y) <=> \A p : SupportedIn(a, p, y)
<1>1. Supported(a, y) <=>
        \A q \in DOMAIN a.si : \A k \in 1..Len(a.si[q]) : SIHolds(a.si[q], a.c, k, y)
  BY DEF Supported, SIHolds
<1> QED BY <1>1 DEF SupportedIn

\* A step keeps the invariants of the polyhedron it goes through.
LEMMA BranchSupports ==
    ASSUME NamesKnown, NEW l \in Lassos, NEW a, Good(a, l), NEW p \in 1..Len(l.loop.polys),
           NEW y \in IntPoints, NEW z \in IntPoints, StepsThrough(l.loop, p, y, z),
           SupportedIn(a, p, y)
    PROVE  SupportedIn(a, p, z)
<1>1. PICK t \in Templates, n \in Nat \ {0}, c \in Configuration : ArgumentOf(a, l, t, n, c)
  BY DEF Good
<1>2. PICK v \in Valuations : Reads(l.loop, v, y, z) /\ Satisfies(l.loop.polys[p], v)
  BY DEF StepsThrough
<1> SUFFICES ASSUME NEW q \in DOMAIN a.si, q[1] = p, NEW k \in 1..Len(a.si[q])
             PROVE  SIHolds(a.si[q], c, k, z)
  BY <1>1 DEF SupportedIn, ArgumentOf
<1>3. a.si[q] \in Invariants(c) /\ Inductive(l, p, a.si[q], c)
  BY <1>1 DEF ArgumentOf, PartProved
<1>4. SIHolds(a.si[q], c, k, y)
  BY <1>1 DEF SupportedIn, ArgumentOf
<1> QED BY <1>2, <1>3, <1>4, LoopKeeps

LEMMA LoopSupports ==
    ASSUME SingleBranch, NamesKnown, NEW l \in Lassos, NEW a, Good(a, l),
           NEW y \in IntPoints, NEW z \in IntPoints, StepsTo(l.loop, y, z), Supported(a, y)
    PROVE  Supported(a, z)
<1>1. PICK t \in Templates, n \in Nat \ {0}, c \in Configuration : ArgumentOf(a, l, t, n, c)
  BY DEF Good
<1>2. PICK p \in 1..Len(l.loop.polys) : StepsThrough(l.loop, p, y, z)
  BY DEF StepsTo
<1>3. \A q \in DOMAIN a.si : q[1] = p
  <2>1. Len(l.loop.polys) = 1
    BY DEF SingleBranch
  <2>2. \A q \in DOMAIN a.si : q[1] \in 1..Len(l.loop.polys)
    BY <1>1 DEF ArgumentOf, Parts
  <2> QED BY <2>1, <2>2
<1>4. SupportedIn(a, p, z)
  BY <1>2, SupportedSplits, BranchSupports
<1> QED BY <1>3, <1>4, SupportedSplits DEF SupportedIn

LEMMA StepRanks ==
    ASSUME NamesKnown, NEW l \in Lassos, NEW a, Good(a, l),
           NEW p \in 1..Len(l.loop.polys), NEW y \in IntPoints, NEW z \in IntPoints,
           StepsThrough(l.loop, p, y, z), SupportedIn(a, p, y)
    PROVE  Ranks(a, y, z)
<1>1. PICK t \in Templates, n \in Nat \ {0}, c \in Configuration :
         (t = "AffineTemplate" => n = 1) /\ ArgumentOf(a, l, t, n, c)
  BY DEF Good
<1>2. PICK v \in Valuations : Reads(l.loop, v, y, z) /\ Satisfies(l.loop.polys[p], v)
  BY DEF StepsThrough
<1>3. a.fs \in [1..n -> Functions] /\ a.delta \in 1..MaxDelta /\ a.template = t
  BY <1>1 DEF ArgumentOf
<1>4. /\ l.loop.in \in [Vars -> Names] /\ l.loop.out \in [Vars -> Names]
      /\ Within(l.loop.in, AllVars(l)) /\ Within(l.loop.out, AllVars(l))
      /\ Gives(v, l.loop.in, y) /\ Gives(v, l.loop.out, z)
  BY <1>2, PolyhedronKnown DEF Reads, Gives
<1>5. Len(a.fs) = n
  BY <1>3
<1>6. ASSUME NEW m \in 1..(n + 1), NEW e \in Inequality, Known(e, AllVars(l)),
             Denied(e) = Denied(IF m <= Len(a.fs)
                 THEN getConstraintsDec(t, a.fs, a.delta, l.loop.in, l.loop.out, m)
                 ELSE getConstraintsBounded(t, a.fs, l.loop.in))
      PROVE  Holds(e, v)
  <2> DEFINE q == <<p, m>>
             s == a.si[q]
  <2>1. q \in Parts(l, n) /\ q[1] = p /\ q[2] = m
    BY DEF Parts
  <2>2. PartProved(a, l, t, n, c, q) /\ q \in DOMAIN a.si
    BY <1>1, <2>1 DEF ArgumentOf
  <2>3. s \in Invariants(c) /\ Refuted(Phi34(l, p, m, t, a.fs, a.delta, s, c), AllVars(l))
    BY <2>1, <2>2 DEF PartProved
  <2>4. \A k \in 1..Len(s) : SIHolds(s, c, k, y)
    BY <1>1, <2>1, <2>2 DEF SupportedIn, ArgumentOf
  <2> HIDE DEF s, q
  <2>5. Refuted(Append(l.loop.polys[p] \o [k \in 1..Len(s) |-> Premise(s, c, k, l.loop.in)],
                       Denied(e)), AllVars(l))
    BY <1>6, <2>3 DEF Phi34
  <2> QED BY <1>2, <1>6, <2>3, <2>4, <2>5, RequirementHolds
<1>7. ASSUME NEW m \in 1..n PROVE Meets(t, Drop(t, a.fs, a.delta, m, y, z))
  <2> DEFINE e == getConstraintsDec(t, a.fs, a.delta, l.loop.in, l.loop.out, m)
  <2>1. /\ e \in Inequality /\ Known(e, AllVars(l))
        /\ Holds(e, v) <=> Meets(t, Drop(t, a.fs, a.delta, m, y, z))
    BY <1>3, <1>4, DecreaseAt
  <2>2. m \in 1..(n + 1) /\ m <= Len(a.fs)
    BY <1>5
  <2>3. Denied(e) = Denied(IF m <= Len(a.fs)
                 THEN getConstraintsDec(t, a.fs, a.delta, l.loop.in, l.loop.out, m)
                 ELSE getConstraintsBounded(t, a.fs, l.loop.in))
    BY <2>2
  <2> HIDE DEF e
  <2> QED BY <1>6, <2>1, <2>2, <2>3
<1>8. Meets(t, AffineValue(a.fs[n], y))
  <2> DEFINE e == getConstraintsBounded(t, a.fs, l.loop.in)
  <2>1. e \in Inequality /\ Known(e, AllVars(l)) /\ (Holds(e, v) <=> Meets(t, AffineValue(a.fs[n], y)))
    BY <1>3, <1>4, BoundAt
  <2>2. n + 1 \in 1..(n + 1) /\ ~(n + 1 <= Len(a.fs))
    BY <1>5
  <2>3. Denied(e) = Denied(IF n + 1 <= Len(a.fs)
                 THEN getConstraintsDec(t, a.fs, a.delta, l.loop.in, l.loop.out, n + 1)
                 ELSE getConstraintsBounded(t, a.fs, l.loop.in))
    BY <2>2
  <2> HIDE DEF e
  <2> QED BY <1>6, <2>1, <2>2, <2>3
<1>9. \A m \in 1..n : AffineValue(a.fs[m], y) \in Int /\ AffineValue(a.fs[m], z) \in Int
  BY <1>3, <1>4, GenerateAt, CandidatesAssumption
<1>10. a.delta \in Int /\ 1 \in 1..n
  BY <1>3, CandidatesAssumption
<1>11. CASE Strict(t)
  <2>1. AffineValue(a.fs[n], y) > 0
    BY <1>8, <1>11 DEF Meets
  <2>2. AffineValue(a.fs[1], y) - AffineValue(a.fs[1], z) > a.delta
    <3>1. Drop(t, a.fs, a.delta, 1, y, z) > 0
      BY <1>7, <1>10, <1>11 DEF Meets
    <3> QED BY <1>9, <1>10, <3>1 DEF Drop
  <2>3. ASSUME NEW m \in 2..n
        PROVE  AffineValue(a.fs[m], y) - AffineValue(a.fs[m], z) + AffineValue(a.fs[m - 1], y) > 0
    <3>1. m \in 1..n /\ m # 1
      OBVIOUS
    <3>2. Drop(t, a.fs, a.delta, m, y, z) > 0
      BY <1>7, <1>11, <3>1 DEF Meets
    <3> QED BY <3>1, <3>2 DEF Drop
  <2> QED BY <1>3, <1>5, <1>11, <2>1, <2>2, <2>3 DEF Ranks
<1>12. CASE ~Strict(t)
  <2>1. n = 1
    BY <1>1, <1>12 DEF Strict
  <2>2. AffineValue(a.fs[1], y) >= 0
    BY <1>8, <1>12, <2>1 DEF Meets
  <2>3. AffineValue(a.fs[1], y) - AffineValue(a.fs[1], z) >= a.delta
    <3>1. Drop(t, a.fs, a.delta, 1, y, z) >= 0
      BY <1>7, <1>10, <1>12 DEF Meets
    <3> QED BY <1>9, <1>10, <3>1 DEF Drop
  <2> QED BY <1>3, <1>12, <2>2, <2>3 DEF Ranks
<1> QED BY <1>11, <1>12

----------------------------------------------------------------------------
(* A set of states that never has to be left contradicts a ranking         *)
(* function.                                                               *)

\* From every member of C a step that a ranks leads to a member of C.
RankedSet(a, C) ==
    /\ C \subseteq IntPoints /\ C # {}
    /\ \A y \in C : \E z \in C : Ranks(a, y, z)

\* A measure that is bounded from below cannot go down for ever.
LEMMA Bottom ==
    ASSUME NEW C, C # {}, NEW m,
           \A y \in C : m[y] \in Int /\ m[y] >= 0,
           \A y \in C : \E z \in C : m[z] < m[y]
    PROVE  FALSE
<1> DEFINE T == {m[y] : y \in C}
<1>1. T \in SUBSET Nat /\ T # {}
  OBVIOUS
<1>2. PICK k \in T : \A j \in T : k <= j
  <2> HIDE DEF T
  <2> QED BY <1>1, NatLeast
<1>3. PICK y \in C : k = m[y]
  OBVIOUS
<1>4. PICK y2 \in C : m[y2] < m[y]
  OBVIOUS
<1>5. m[y] <= m[y2] /\ m[y] \in Int /\ m[y2] \in Int
  BY <1>2, <1>3
<1> QED BY <1>4, <1>5

LEMMA AffineIsInt ==
    ASSUME NEW f \in Affine, NEW y \in IntPoints
    PROVE  AffineValue(f, y) \in Int
<1> DEFINE p == [u \in Vars |-> f.coef[u] * y[u]]
<1>1. ASSUME NEW u \in 1..NumVars PROVE p[u] \in Int
  <2>1. f.coef[u] \in Int /\ y[u] \in Int /\ p[u] = f.coef[u] * y[u]
    BY DEF Affine, IntPoints, Vars
  <2> QED BY <2>1
<1>2. Sum(NumVars, p) \in Int
  <2> HIDE DEF p
  <2> QED BY <1>1, SumType, SizesAreNat
<1> QED BY <1>2 DEF AffineValue, Affine

\* The components have integer values, and an affine template has one of them.
RankingShape(a, n) ==
    /\ n \in Nat \ {0} /\ a.fs \in [1..n -> Affine] /\ Len(a.fs) = n
    /\ a.delta \in Nat \ {0}
    /\ ~Strict(a.template) => n = 1

\* The members of C where component i is negative; all of C before the first one.
Below(a, C, i) == IF i = 0 THEN C ELSE {y \in C : AffineValue(a.fs[i], y) < 0}

\* Component 1 goes down at every step, and component i wherever component i - 1 is
\* negative: from somewhere on it is negative too, and stays so.
LEMMA NextComponentSinks ==
    ASSUME NEW a, NEW n, RankingShape(a, n), Strict(a.template), NEW i \in 1..n,
           NEW C, RankedSet(a, C), i > 1 => C = Below(a, C, i - 1)
    PROVE  RankedSet(a, Below(a, C, i))
<1> DEFINE f(j, y) == AffineValue(a.fs[j], y)
           D == Below(a, C, i)
<1>1. \A j \in 1..n : \A y \in C : f(j, y) \in Int
  BY AffineIsInt DEF RankingShape, RankedSet
<1>2. ASSUME NEW y \in C, NEW z \in C, Ranks(a, y, z)
      PROVE  f(i, z) < f(i, y)
  <2>1. /\ f(1, y) - f(1, z) > a.delta /\ a.delta \in Nat
        /\ \A j \in 2..n : f(j, y) - f(j, z) + f(j - 1, y) > 0
    BY <1>2 DEF Ranks, RankingShape
  <2>2. CASE i = 1
    <3>1. f(1, y) \in Int /\ f(1, z) \in Int
      BY <1>1, <2>2
    <3> HIDE DEF f
    <3> QED BY <2>1, <2>2, <3>1
  <2>3. CASE i # 1
    <3>1. i \in 2..n /\ i - 1 \in 1..n /\ i - 1 # 0
      BY <2>3 DEF RankingShape
    <3>2. f(i - 1, y) < 0
      BY <3>1 DEF Below
    <3>3. f(i, y) - f(i, z) + f(i - 1, y) > 0
      BY <2>1, <3>1
    <3>4. f(i, y) \in Int /\ f(i, z) \in Int /\ f(i - 1, y) \in Int
      BY <1>1, <3>1
    <3> HIDE DEF f
    <3> QED BY <3>2, <3>3, <3>4
  <2> QED BY <2>2, <2>3
<1>3. \A y \in C : \E z \in C : Ranks(a, y, z)
  BY DEF RankedSet
<1>4. D = {y \in C : f(i, y) < 0}
  BY DEF Below
<1>5. D # {}
  <2> SUFFICES ASSUME D = {} PROVE FALSE
    OBVIOUS
  <2> DEFINE m == [y \in C |-> f(i, y)]
  <2>1. \A y \in C : m[y] \in Int /\ m[y] >= 0
    <3> SUFFICES ASSUME NEW y \in C PROVE f(i, y) \in Int /\ f(i, y) >= 0
      OBVIOUS
    <3>1. f(i, y) \in Int /\ ~(f(i, y) < 0)
      BY <1>1, <1>4
    <3> HIDE DEF f
    <3> QED BY <3>1
  <2>2. \A y \in C : \E z \in C : m[z] < m[y]
    BY <1>2, <1>3
  <2>3. C # {}
    BY DEF RankedSet
  <2> HIDE DEF m
  <2> QED BY <2>1, <2>2, <2>3, Bottom
<1>6. ASSUME NEW y \in D PROVE \E z \in D : Ranks(a, y, z)
  <2>1. y \in C /\ f(i, y) < 0
    BY <1>4
  <2>2. PICK z \in C : Ranks(a, y, z)
    BY <1>3, <2>1
  <2>3. f(i, z) < f(i, y) /\ f(i, z) \in Int /\ f(i, y) \in Int
    BY <1>1, <1>2, <2>1, <2>2
  <2>4. f(i, z) < 0
    <3> HIDE DEF f
    <3> QED BY <2>1, <2>3
  <2> QED BY <1>4, <2>2, <2>4
<1>7. D \subseteq IntPoints
  BY <1>4 DEF RankedSet
<1> QED BY <1>5, <1>6, <1>7 DEF RankedSet

LEMMA NothingIsRankedForEver ==
    ASSUME NEW a, NEW n, RankingShape(a, n), NEW C, RankedSet(a, C)
    PROVE  FALSE
<1> DEFINE f(j, y) == AffineValue(a.fs[j], y)
<1>1. n \in Nat /\ n >= 1 /\ Len(a.fs) = n /\ a.delta \in Nat /\ a.delta >= 1
  BY DEF RankingShape
<1>2. CASE ~Strict(a.template)
  <2> DEFINE m == [y \in C |-> f(1, y)]
  <2>1. ASSUME NEW y \in C PROVE f(1, y) \in Int
    <3>1. y \in IntPoints /\ a.fs[1] \in Affine
      BY <1>1 DEF RankingShape, RankedSet
    <3> QED BY <3>1, AffineIsInt
  <2>2. \A y \in C : \E z \in C : f(1, y) >= 0 /\ f(1, y) - f(1, z) >= a.delta
    BY <1>2 DEF RankedSet, Ranks
  <2> HIDE DEF f
  <2>3. \A y \in C : m[y] \in Int /\ m[y] >= 0
    BY <2>1, <2>2
  <2>4. ASSUME NEW y \in C PROVE \E z \in C : m[z] < m[y]
    <3>1. PICK z \in C : f(1, y) - f(1, z) >= a.delta
      BY <2>2
    <3>2. f(1, y) \in Int /\ f(1, z) \in Int
      BY <2>1
    <3>3. m[z] = f(1, z) /\ m[y] = f(1, y)
      OBVIOUS
    <3>4. f(1, z) < f(1, y)
      BY <1>1, <3>1, <3>2
    <3> QED BY <3>3, <3>4
  <2>5. C # {}
    BY DEF RankedSet
  <2> HIDE DEF m
  <2> QED BY <2>3, <2>4, <2>5, Bottom
<1>3. CASE Strict(a.template)
  <2> DEFINE Sinks(i) == \E D : RankedSet(a, D) /\ (i > 0 => D = Below(a, D, i))
             S == {i \in 0..n : Sinks(i)}
  <2>1. 0 \in S
    BY <1>1
  <2>2. ASSUME NEW i \in 1..n, i - 1 \in S PROVE i \in S
    <3>1. PICK D : RankedSet(a, D) /\ (i - 1 > 0 => D = Below(a, D, i - 1))
      BY <2>2
    <3>2. RankedSet(a, Below(a, D, i))
      <4>1. i > 1 => D = Below(a, D, i - 1)
        BY <3>1
      <4> QED BY <1>3, <3>1, <4>1, NextComponentSinks
    <3>3. Below(a, D, i) = Below(a, Below(a, D, i), i)
      BY DEF Below
    <3> DEFINE E == Below(a, D, i)
    <3>4. RankedSet(a, E) /\ (i > 0 => E = Below(a, E, i))
      BY <3>2, <3>3
    <3> HIDE DEF E
    <3>5. Sinks(i)
      BY <3>4
    <3> HIDE DEF Sinks
    <3>6. i \in 0..n
      BY <1>1
    <3> QED BY <3>5, <3>6
  <2>3. n \in S
    <3> HIDE DEF S
    <3>1. n \in Nat /\ n \in 0..n
      BY <1>1
    <3>2. \A k \in 1..n : k - 1 \in S => k \in S
      BY <2>2
    <3> QED BY <2>1, <3>1, <3>2, UpTo
  <2>4. PICK D : RankedSet(a, D) /\ D = Below(a, D, n)
    BY <1>1, <2>3
  <2>5. PICK y \in D : f(n, y) < 0
    BY <1>1, <2>4 DEF RankedSet, Below
  <2>6. f(n, y) > 0
    <3>1. PICK z \in D : Ranks(a, y, z)
      BY <2>4 DEF RankedSet
    <3> QED BY <1>1, <1>3, <3>1 DEF Ranks
  <2>7. f(n, y) \in Int
    <3>1. y \in IntPoints /\ a.fs[n] \in Affine
      BY <1>1, <2>4 DEF RankedSet, RankingShape
    <3> QED BY <3>1, AffineIsInt
  <2> HIDE DEF f
  <2> QED BY <2>5, <2>6, <2>7
<1> QED BY <1>2, <1>3

\* A set of integer states the stem leads into and the loop never has to leave,
\* going through polyhedron p only.
RecurrentSet(l, p, C) ==
    /\ C \subseteq IntPoints
    /\ \E y \in C : \E w : StepsTo(l.stem, w, y)
    /\ \A y \in C : \E z \in C : StepsThrough(l.loop, p, y, z)

\* A lasso without hidden names that a termination argument was found for cannot
\* take one branch of its loop for ever: what the synthesizer asks of the solver is
\* enough for that over all integers, however many branches there are.
THEOREM ArgumentsExcludeRecurrence ==
    ASSUME NamesKnown, NEW l \in Lassos, NEW a, Good(a, l), NEW p \in 1..Len(l.loop.polys)
    PROVE  \A C : ~RecurrentSet(l, p, C)
<1> SUFFICES ASSUME NEW C, RecurrentSet(l, p, C) PROVE FALSE
  OBVIOUS
<1> DEFINE D == {y \in C : SupportedIn(a, p, y)}
<1>1. D # {}
  <2>1. PICK y \in C : \E w : StepsTo(l.stem, w, y)
    BY DEF RecurrentSet
  <2>2. SupportedIn(a, p, y)
    BY <2>1, StemSupports, SupportedSplits DEF RecurrentSet
  <2> QED BY <2>2
<1>2. ASSUME NEW y \in D PROVE \E z \in D : Ranks(a, y, z)
  <2>1. PICK z \in C : StepsThrough(l.loop, p, y, z)
    BY DEF RecurrentSet
  <2>2. y \in IntPoints /\ z \in IntPoints /\ SupportedIn(a, p, y)
    BY DEF RecurrentSet
  <2>3. SupportedIn(a, p, z) /\ Ranks(a, y, z)
    BY <2>1, <2>2, BranchSupports, StepRanks
  <2> QED BY <2>3
<1>3. RankedSet(a, D)
  BY <1>1, <1>2 DEF RankedSet, RecurrentSet
<1>4. PICK t \in Templates, n \in Nat \ {0}, c \in Configuration :
         (t = "AffineTemplate" => n = 1) /\ ArgumentOf(a, l, t, n, c)
  BY DEF Good
<1>5. RankingShape(a, n)
  <2>1. a.fs \in [1..n -> Functions] /\ a.delta \in 1..MaxDelta /\ a.template = t
    BY <1>4 DEF ArgumentOf
  <2>2. a.fs \in [1..n -> Affine] /\ Len(a.fs) = n /\ a.delta \in Nat \ {0}
    BY <2>1, CandidatesAssumption
  <2> QED BY <1>4, <2>1, <2>2 DEF RankingShape, Strict
<1> QED BY <1>3, <1>5, NothingIsRankedForEver

\* With one branch that is termination: from wherever the stem leads, the loop stops.
THEOREM RunsStop ==
    ASSUME SingleBranch, NamesKnown, NEW l \in Lassos, NEW a, Good(a, l),
           NEW r \in [Nat -> IntPoints], NEW w, StepsTo(l.stem, w, r[0])
    PROVE  \E k \in Nat : ~StepsTo(l.loop, r[k], r[k + 1])
<1> SUFFICES ASSUME \A k \in Nat : StepsTo(l.loop, r[k], r[k + 1]) PROVE FALSE
  OBVIOUS
<1> DEFINE C == {r[k] : k \in Nat}
<1>1. C \subseteq IntPoints /\ r[0] \in C
  OBVIOUS
<1>2. Len(l.loop.polys) = 1 /\ 1 \in 1..Len(l.loop.polys)
  <2>1. Len(l.loop.polys) = 1
    BY DEF SingleBranch
  <2> QED BY <2>1
<1>3. ASSUME NEW y \in C PROVE \E z \in C : StepsThrough(l.loop, 1, y, z)
  <2>1. PICK k \in Nat : y = r[k]
    OBVIOUS
  <2>2. StepsTo(l.loop, y, r[k + 1]) /\ r[k + 1] \in C
    BY <2>1
  <2> QED BY <1>2, <2>2 DEF StepsTo
<1>4. RecurrentSet(l, 1, C)
  <2> HIDE DEF C
  <2> QED BY <1>1, <1>3 DEF RecurrentSet
<1> QED BY <1>2, <1>4, ArgumentsExcludeRecurrence

----------------------------------------------------------------------------
(* The technique.                                                          *)

\* The counters of the search are in range when the solver is asked; whatever was
\* answered TERMINATING is an argument for this lasso; the program's run starts only
\* after that, and TERMINATING is final.
RankingInv ==
    /\ RankingTypeOK
    /\ (rpc \in {"search", "solving"}) => (nc >= 1 /\ config >= 1)
    /\ (rpc = "solving") => (config <= Len(tech.configs))
    /\ (result = "TERMINATING") => (rpc = "done" /\ Good(argument, lasso))
    /\ (result # "TERMINATING") => (at = "entry")

TypeAndArgument == RankingInv /\ SupportingInvariantsHold

LEMMA TechniqueFacts ==
    ASSUME NEW t \in Techniques
    PROVE  /\ t.template \in Templates /\ t.components \in Nat /\ t.max \in Nat
           /\ t.configs \in Seq(Configuration) /\ Len(t.configs) \in Nat
           /\ \A i \in 1..Len(t.configs) : t.configs[i] \in Configuration
<1>1. t.template \in Templates /\ t.components \in Nat /\ t.max \in Nat
  BY TechniquesAssumption
<1>2. t.configs \in Seq([strict : Nat, nonstrict : Nat])
  BY TechniquesAssumption
<1>3. t.configs \in Seq(Configuration)
  BY <1>2 DEF Configuration
<1> QED BY <1>1, <1>3

LEMMA SomeState == (CHOOSE s \in State : TRUE) \in State
<1>1. PICK d \in Domain : TRUE
  BY DomainAssumption
<1>2. [u \in Vars |-> d] \in State
  BY DEF State
<1> QED BY <1>2

LEMMA RankingInitially == RankingInit => RankingInv
<1> SUFFICES ASSUME RankingInit PROVE RankingInv
  OBVIOUS
<1>1. x \in State
  BY SomeState DEF RankingInit, RunInit
<1> QED BY <1>1 DEF RankingInit, RunInit, TechInit, RankingInv, RankingTypeOK

LEMMA FoundIsGood ==
    ASSUME RankingInv, Found
    PROVE  Good(argument', lasso) /\ argument' # NoArgument
<1> DEFINE n == Components(tech.template, nc)
           c == tech.configs[config]
<1>1. /\ tech \in Techniques /\ nc \in Nat /\ nc >= 1 /\ config \in 1..Len(tech.configs)
  BY TechniqueFacts DEF RankingInv, RankingTypeOK, Found
<1>2. n \in Nat \ {0} /\ (tech.template = "AffineTemplate" => n = 1)
  BY <1>1 DEF Components
<1>3. c \in Configuration /\ tech.template \in Templates
  BY <1>1, TechniqueFacts
<1>4. argument' \in Arguments(lasso, tech.template, n, c)
  BY DEF Found
<1> HIDE DEF n, c
<1>5. ArgumentOf(argument', lasso, tech.template, n, c)
  BY <1>4, ArgumentFacts
<1>6. Good(argument', lasso)
  BY <1>2, <1>3, <1>5 DEF Good
<1>7. argument' # NoArgument
  <2>1. PICK shape \in [1..n -> Functions] \X (1..MaxDelta) :
           argument' \in ArgumentsWith(lasso, tech.template, n, c, shape[1], shape[2])
    BY <1>4 DEF Arguments
  <2>2. DOMAIN argument' = {"template", "fs", "delta", "c", "si"}
    BY <2>1 DEF ArgumentsWith
  <2>3. DOMAIN NoArgument = {"none"} /\ "fs" # "none"
    BY DEF NoArgument
  <2> QED BY <2>2, <2>3
<1> QED BY <1>6, <1>7

LEMMA SearchStep ==
    ASSUME RankingInv, TechNext
    PROVE  RankingInv'
<1> USE DEF RankingInv, RankingTypeOK, runVars
<1>1. CASE Initialize
  BY <1>1 DEF Initialize
<1>2. CASE Cancel
  BY <1>2 DEF Cancel
<1>3. CASE Analyze
  <2>1. ncMin \in Nat /\ ncMin >= 1
    BY TechniqueFacts DEF ncMin
  <2> QED BY <1>3, <2>1 DEF Analyze
<1>4. CASE TryConfiguration
  BY <1>4 DEF TryConfiguration, Searching
<1>5. CASE TemplateThrows
  BY <1>5 DEF TemplateThrows, Searching
<1>6. CASE MoreComponents
  BY <1>6 DEF MoreComponents, Searching
<1>7. CASE GiveUp
  BY <1>7 DEF GiveUp, Searching
<1>8. CASE NotFound
  BY <1>8 DEF NotFound
<1>9. CASE Found
  <2>1. Good(argument', lasso) /\ argument' # NoArgument
    BY <1>9, FoundIsGood
  <2> QED BY <1>9, <2>1 DEF Found
<1> QED BY <1>1, <1>2, <1>3, <1>4, <1>5, <1>6, <1>7, <1>8, <1>9 DEF TechNext

LEMMA ProgramStep ==
    ASSUME RankingInv, RunNext
    PROVE  RankingInv'
<1>1. x' \in State
  BY DEF RankingInv, RankingTypeOK, RunNext, Enter, Iterate, Leave
<1>2. /\ lasso' = lasso /\ at' \in {"entry", "loop", "stuck"}
      /\ tech' = tech /\ rpc' = rpc /\ nc' = nc /\ config' = config
      /\ cancelled' = cancelled /\ result' = result /\ argument' = argument
      /\ result = "TERMINATING"
  BY DEF RankingInv, RankingTypeOK, RunNext, Enter, Iterate, Leave, techVars
<1> QED BY <1>1, <1>2 DEF RankingInv, RankingTypeOK

LEMMA RankingStep ==
    ASSUME RankingInv, [RankingNext]_rankingVars
    PROVE  RankingInv'
<1>1. CASE TechNext
  BY <1>1, SearchStep
<1>2. CASE RunNext
  BY <1>2, ProgramStep
<1>3. CASE UNCHANGED rankingVars
  BY <1>3 DEF rankingVars, runVars, techVars, RankingInv, RankingTypeOK
<1> QED BY <1>1, <1>2, <1>3 DEF RankingNext

\* RankingTypeOK: the technique's variables keep their types, whatever the lassos.
THEOREM RankingTypes == RankingSpec => []RankingTypeOK
<1>1. RankingInv => RankingTypeOK
  BY DEF RankingInv
<1> QED BY <1>1, RankingInitially, RankingStep, PTL DEF RankingSpec

LEMMA SupportStep ==
    ASSUME SingleBranch, NamesKnown, TypeAndArgument, [RankingNext]_rankingVars
    PROVE  SupportingInvariantsHold'
<1> SUFFICES ASSUME result' = "TERMINATING", at' # "entry" PROVE Supported(argument', x')
  BY DEF SupportingInvariantsHold
<1>1. CASE TechNext
  <2>1. at' = at /\ x' = x
    BY <1>1 DEF TechNext, Initialize, Cancel, Analyze, TryConfiguration, TemplateThrows,
               MoreComponents, GiveUp, NotFound, Found, runVars
  <2>2. result = "TERMINATING"
    BY <2>1 DEF TypeAndArgument, RankingInv
  <2>3. argument' = argument
    BY <1>1, <2>2 DEF TechNext, Initialize, Cancel, Analyze, TryConfiguration, TemplateThrows,
               MoreComponents, GiveUp, NotFound, Found, TypeAndArgument, RankingInv
  <2> QED BY <2>1, <2>2, <2>3 DEF TypeAndArgument, SupportingInvariantsHold
<1>2. CASE RunNext
  <2>1. /\ lasso \in Lassos /\ x \in State /\ Good(argument, lasso) /\ argument' = argument
        /\ result = "TERMINATING"
    BY <1>2 DEF RunNext, techVars, TypeAndArgument, RankingInv, RankingTypeOK
  <2>2. CASE Enter
    <3>1. PICK w \in State, y \in State : Related(lasso.stem, w, y) /\ x' = y
      BY <2>2 DEF Enter
    <3>2. StepsTo(lasso.stem, w, y) /\ y \in IntPoints
      BY <2>1, <3>1, StepValuation, StateIsInt
    <3> QED BY <2>1, <3>1, <3>2, StemSupports
  <2>3. CASE Iterate
    <3>1. PICK y \in State : Related(lasso.loop, x, y) /\ x' = y
      BY <2>3 DEF Iterate
    <3>2. Supported(argument, x)
      BY <2>1, <2>3 DEF Iterate, TypeAndArgument, SupportingInvariantsHold
    <3>3. StepsTo(lasso.loop, x, y) /\ x \in IntPoints /\ y \in IntPoints
      BY <2>1, <3>1, StepValuation, StateIsInt
    <3> QED BY <2>1, <3>1, <3>2, <3>3, LoopSupports
  <2>4. CASE Leave
    BY <2>1, <2>4 DEF Leave, TypeAndArgument, SupportingInvariantsHold
  <2> QED BY <1>2, <2>2, <2>3, <2>4 DEF RunNext
<1>3. CASE UNCHANGED rankingVars
  BY <1>3 DEF rankingVars, runVars, techVars, TypeAndArgument, SupportingInvariantsHold
<1> QED BY <1>1, <1>2, <1>3 DEF RankingNext

\* SupportingInvariantsHold: for loops of one polyhedron and lassos without hidden
\* names, what buildPhi12Contexts asks of the supporting invariants is enough for
\* them to hold at the head of the loop for ever, whatever the solver chose.
THEOREM InvariantsAreInvariant ==
    ASSUME SingleBranch, NamesKnown
    PROVE  RankingSpec => []SupportingInvariantsHold
<1>1. RankingInit => TypeAndArgument
  <2>1. RankingInit => SupportingInvariantsHold
    BY DEF RankingInit, RunInit, SupportingInvariantsHold
  <2> QED BY <2>1, RankingInitially DEF TypeAndArgument
<1>2. TypeAndArgument /\ [RankingNext]_rankingVars => TypeAndArgument'
  BY RankingStep, SupportStep DEF TypeAndArgument
<1>3. TypeAndArgument => SupportingInvariantsHold
  BY DEF TypeAndArgument
<1> QED BY <1>1, <1>2, <1>3, PTL DEF RankingSpec

\* EveryIterationRanks: under the same hypotheses every iteration after the answer
\* TERMINATING finds the ranking function bounded and lowers it.
THEOREM ArgumentsRank ==
    ASSUME SingleBranch, NamesKnown
    PROVE  RankingSpec => EveryIterationRanks
<1>1. RankingInit => TypeAndArgument
  <2>1. RankingInit => SupportingInvariantsHold
    BY DEF RankingInit, RunInit, SupportingInvariantsHold
  <2> QED BY <2>1, RankingInitially DEF TypeAndArgument
<1>2. TypeAndArgument /\ [RankingNext]_rankingVars => TypeAndArgument'
  BY RankingStep, SupportStep DEF TypeAndArgument
<1>3. TypeAndArgument /\ [RankingNext]_rankingVars
        => [(result = "TERMINATING" /\ Iterate) => Ranks(argument, x, x')]_rankingVars
  <2> SUFFICES ASSUME TypeAndArgument, result = "TERMINATING", Iterate
               PROVE  Ranks(argument, x, x')
    OBVIOUS
  <2>1. /\ lasso \in Lassos /\ x \in State /\ Good(argument, lasso) /\ Supported(argument, x)
    BY DEF TypeAndArgument, RankingInv, RankingTypeOK, SupportingInvariantsHold, Iterate
  <2>2. PICK y \in State : Related(lasso.loop, x, y) /\ x' = y
    BY DEF Iterate
  <2>3. StepsTo(lasso.loop, x, y) /\ x \in IntPoints /\ y \in IntPoints
    BY <2>1, <2>2, StepValuation, StateIsInt
  <2> QED BY <2>1, <2>2, <2>3, StepRanks, SupportedSplits DEF StepsTo
<1> QED BY <1>1, <1>2, <1>3, PTL DEF RankingSpec, EveryIterationRanks
=============================================================================
