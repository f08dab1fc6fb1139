--------------------------- MODULE RewritingProofs ---------------------------
(***************************************************************************)
(* The handlers of src/rewriting/ and src/linearization/ keep the meaning  *)
(* of the formulas they rewrite, for terms of any size.                    *)
(*                                                                         *)
(* T is a set of terms that contains their arguments; val is what they are *)
(* worth when env gives the names their values.                            *)
(***************************************************************************)
EXTENDS Rewriting, PolyhedraProofs

Binders == {"let", "bind", "forall", "exists"}

Closed(T) == \A t \in T : t.args \in Seq(T) /\ t.op \notin Binders

Deep(T, depth) == /\ depth \in [T -> Nat]
                  /\ \A t \in T : \A i \in DOMAIN t.args : depth[t.args[i]] < depth[t]

Meaning(T, env, val) ==
  \A t \in T : val[t] = Applied(t.op, t.n, Named(t.name, env), [i \in DOMAIN t.args |-> val[t.args[i]]])

----------------------------------------------------------------------------
(* What single operators are worth.                                         *)

LEMMA Same ==
  ASSUME NEW a \in BOOLEAN, NEW b \in BOOLEAN, a <=> b
  PROVE  a = b
  OBVIOUS

LEMMA Compared ==
  ASSUME NEW v, Len(v) = 2, NEW n, NEW x
  PROVE  /\ Applied("=", n, x, v) \in BOOLEAN
         /\ Applied("=", n, x, v) <=> v[1] = v[2]
         /\ Applied("<=", n, x, v) \in BOOLEAN
         /\ Applied("<=", n, x, v) <=> v[1] =< v[2]
         /\ Applied("<", n, x, v) \in BOOLEAN
         /\ Applied("<", n, x, v) <=> v[1] < v[2]
         /\ Applied(">=", n, x, v) \in BOOLEAN
         /\ Applied(">=", n, x, v) <=> v[1] >= v[2]
         /\ Applied(">", n, x, v) \in BOOLEAN
         /\ Applied(">", n, x, v) <=> v[1] > v[2]
<1>1. 2..Len(v) = {2} /\ 2 - 1 = 1
  OBVIOUS
<1>2. Applied("=", n, x, v) = (\A i \in 2..Len(v) : v[i - 1] = v[i])
  BY Zenon DEF Applied, Operation
<1>3. Applied("=", n, x, v) \in BOOLEAN /\ (Applied("=", n, x, v) <=> v[1] = v[2])
  BY <1>1, <1>2
<1>4. Applied("<=", n, x, v) = (\A i \in 2..Len(v) : v[i - 1] =< v[i])
  BY Zenon DEF Applied, Operation
<1>5. Applied("<=", n, x, v) \in BOOLEAN /\ (Applied("<=", n, x, v) <=> v[1] =< v[2])
  BY <1>1, <1>4
<1>6. Applied("<", n, x, v) = (\A i \in 2..Len(v) : v[i - 1] < v[i])
  BY Zenon DEF Applied, Operation
<1>7. Applied("<", n, x, v) \in BOOLEAN /\ (Applied("<", n, x, v) <=> v[1] < v[2])
  BY <1>1, <1>6
<1>8. Applied(">=", n, x, v) = (\A i \in 2..Len(v) : v[i - 1] >= v[i])
  BY Zenon DEF Applied, Operation
<1>9. Applied(">=", n, x, v) \in BOOLEAN /\ (Applied(">=", n, x, v) <=> v[1] >= v[2])
  BY <1>1, <1>8
<1>10. Applied(">", n, x, v) = (\A i \in 2..Len(v) : v[i - 1] > v[i])
  BY Zenon DEF Applied, Operation
<1>11. Applied(">", n, x, v) \in BOOLEAN /\ (Applied(">", n, x, v) <=> v[1] > v[2])
  BY <1>1, <1>10
<1> QED BY <1>3, <1>5, <1>7, <1>9, <1>11

LEMMA Joined ==
  ASSUME NEW v, NEW n, NEW x
  PROVE  /\ Applied("and", n, x, v) = \A i \in DOMAIN v : v[i]
         /\ Applied("or", n, x, v) = \E i \in DOMAIN v : v[i]
         /\ Applied("not", n, x, v) = ~v[1]
<1>1. Applied("and", n, x, v) = \A i \in DOMAIN v : v[i]
  BY Zenon DEF Applied, Operation
<1>2. Applied("or", n, x, v) = \E i \in DOMAIN v : v[i]
  BY Zenon DEF Applied, Operation
<1>3. Applied("not", n, x, v) = ~v[1]
  BY Zenon DEF Applied, Operation
<1> QED BY <1>1, <1>2, <1>3

LEMMA Leaves ==
  ASSUME NEW v, NEW n, NEW x
  PROVE  /\ Applied("num", n, x, v) = n
         /\ Applied("var", n, x, v) = x
         /\ Applied("call", n, x, v) = Read(x, v[1])
<1>1. Applied("num", n, x, v) = n
  BY Zenon DEF Applied, Operation
<1>2. Applied("var", n, x, v) = x
  BY Zenon DEF Applied, Operation
<1>3. Applied("call", n, x, v) = Read(x, v[1])
  BY Zenon DEF Applied, Operation
<1> QED BY <1>1, <1>2, <1>3

LEMMA Computed ==
  ASSUME NEW v, NEW n, NEW x
  PROVE  /\ Applied("+", n, x, v) = Total(v)
         /\ Len(v) = 2 => /\ Applied("-", n, x, v) = v[1] - v[2]
                          /\ Applied("*", n, x, v) = v[1] * v[2]
         /\ Applied("div", n, x, v) = Quotient(v[1], v[2])
         /\ Applied("mod", n, x, v) = Remainder(v[1], v[2])
         /\ Applied("select", n, x, v) = Read(v[1], v[2])
<1>1. Applied("+", n, x, v) = Total(v)
  BY Zenon DEF Applied, Operation
<1>2. Applied("-", n, x, v) = CASE Len(v) = 1 -> -v[1]
                                [] Len(v) = 2 -> v[1] - v[2]
                                [] OTHER -> FoldLeft(LAMBDA a, b : a - b, v[1], Tail(v))
  BY Zenon DEF Applied, Operation
<1>3. ASSUME Len(v) = 2 PROVE Applied("-", n, x, v) = v[1] - v[2]
  <2>1. Len(v) # 1
    BY <1>3
  <2> QED BY <1>2, <1>3, <2>1, Zenon
<1>4. Applied("*", n, x, v) = IF Len(v) = 2 THEN v[1] * v[2]
                              ELSE FoldLeft(LAMBDA a, b : a * b, 1, v)
  BY Zenon DEF Applied, Operation
<1>5. Len(v) = 2 => Applied("*", n, x, v) = v[1] * v[2]
  BY <1>4, Zenon
<1>6. Applied("div", n, x, v) = Quotient(v[1], v[2])
  BY Zenon DEF Applied, Operation
<1>7. Applied("mod", n, x, v) = Remainder(v[1], v[2])
  BY Zenon DEF Applied, Operation
<1>8. Applied("select", n, x, v) = Read(v[1], v[2])
  BY Zenon DEF Applied, Operation
<1> QED BY <1>1, <1>3, <1>5, <1>6, <1>7, <1>8, Zenon

\* The name of a term matters to variables and calls only.
LEMMA Nameless ==
  ASSUME NEW op, op \notin {"num", "var", "call"}, NEW n, NEW x, NEW v
  PROVE  Applied(op, n, x, v) = Operation(op, v)
  BY DEF Applied

----------------------------------------------------------------------------
(* Terms below a term, and terms made of terms.                             *)

\* val is what the terms of T are worth; no term of T is below itself.
Reading(T, env, val) == Closed(T) /\ Meaning(T, env, val) /\ \E depth : Deep(T, depth)

LEMMA DepthInduct ==
  ASSUME NEW T, NEW depth, Deep(T, depth), NEW P,
         \A t \in T : (\A u \in T : depth[u] < depth[t] => u \in P) => t \in P
  PROVE  \A t \in T : t \in P
<1>1. SUFFICES ASSUME NEW t0 \in T PROVE t0 \in P
  OBVIOUS
<1> DEFINE n == depth[t0] + 1
           K == {k \in 0..n : \A t \in T : depth[t] < k => t \in P}
<1>2. n \in Nat /\ \A t \in T : depth[t] \in Nat
  BY DEF Deep
<1>3. 0 \in K
  BY <1>2
<1>4. ASSUME NEW k \in 1..n, k - 1 \in K PROVE k \in K
  <2>1. SUFFICES ASSUME NEW t \in T, depth[t] < k PROVE t \in P
    BY <1>4
  <2>2. \A u \in T : depth[u] < depth[t] => depth[u] < k - 1
    BY <1>2, <2>1
  <2>3. \A u \in T : depth[u] < k - 1 => u \in P
    BY <1>4
  <2> QED BY <2>2, <2>3
<1> HIDE DEF n, K
<1>5. n \in K
  BY <1>2, <1>3, <1>4, UpTo
<1> QED BY <1>2, <1>5 DEF n, K

LEMMA Below ==
  ASSUME NEW T, Closed(T), NEW t \in T
  PROVE  /\ Len(t.args) \in Nat /\ DOMAIN t.args = 1..Len(t.args)
         /\ \A i \in DOMAIN t.args : t.args[i] \in T
         /\ t.op \notin Binders
<1>1. t.args \in Seq(T) /\ t.op \notin Binders
  BY DEF Closed
<1> QED BY <1>1, LenProperties, ElementOfSeq

LEMMA OpIn ==
  ASSUME NEW U, Closed(U), NEW op, NEW args, Op(op, args) \in U
  PROVE  args \in Seq(U) /\ op \notin Binders
BY DEF Closed, Op, Term

LEMMA TwoIn ==
  ASSUME NEW U, Closed(U), NEW op, NEW a, NEW b, Op(op, <<a, b>>) \in U
  PROVE  a \in U /\ b \in U
<1>1. <<a, b>> \in Seq(U)
  BY OpIn
<1> QED BY <1>1, ElementOfSeq

LEMMA OpWorth ==
  ASSUME NEW U, NEW env, NEW val, Meaning(U, env, val),
         NEW op, op \notin {"num", "var", "call"}, NEW args, Op(op, args) \in U
  PROVE  val[Op(op, args)] = Operation(op, [i \in DOMAIN args |-> val[args[i]]])
<1> DEFINE t == Op(op, args)
<1>1. t.op = op /\ t.args = args
  BY DEF Op, Term
<1>2. val[t] = Applied(t.op, t.n, Named(t.name, env), [i \in DOMAIN t.args |-> val[t.args[i]]])
  BY DEF Meaning
<1> HIDE DEF t
<1>3. val[t] = Operation(op, [i \in DOMAIN args |-> val[args[i]]])
  BY <1>1, <1>2, Nameless
<1> QED BY <1>3 DEF t

\* What a comparison or a sum of two terms is worth.
LEMMA TwoWorth ==
  ASSUME NEW U, NEW env, NEW val, Meaning(U, env, val), NEW a, NEW b
  PROVE  /\ Le(a, b) \in U => /\ val[Le(a, b)] \in BOOLEAN
                              /\ val[Le(a, b)] <=> val[a] =< val[b]
         /\ Ge(a, b) \in U => /\ val[Ge(a, b)] \in BOOLEAN
                              /\ val[Ge(a, b)] <=> val[a] >= val[b]
         /\ Eq(a, b) \in U => /\ val[Eq(a, b)] \in BOOLEAN
                              /\ val[Eq(a, b)] <=> val[a] = val[b]
         /\ Plus(a, b) \in U => val[Plus(a, b)] = Total([i \in DOMAIN <<a, b>> |-> val[<<a, b>>[i]]])
<1> DEFINE v == [i \in DOMAIN <<a, b>> |-> val[<<a, b>>[i]]]
<1>1. v = <<val[a], val[b]>>
  OBVIOUS
<1>2. Len(v) = 2 /\ v[1] = val[a] /\ v[2] = val[b]
  BY <1>1
<1>3. \A op : op \notin {"num", "var", "call"} /\ Op(op, <<a, b>>) \in U =>
        val[Op(op, <<a, b>>)] = Operation(op, v)
  BY OpWorth
<1> HIDE DEF v
<1>4. \A op : op \notin {"num", "var", "call"} => Applied(op, 0, 0, v) = Operation(op, v)
  BY Nameless
<1>5. \A op : op \notin {"num", "var", "call"} /\ Op(op, <<a, b>>) \in U =>
        val[Op(op, <<a, b>>)] = Applied(op, 0, 0, v)
  BY <1>3, <1>4
<1>6. Le(a, b) \in U => val[Le(a, b)] \in BOOLEAN /\ (val[Le(a, b)] <=> val[a] =< val[b])
  BY <1>2, <1>5, Compared DEF Le
<1>7. Ge(a, b) \in U => val[Ge(a, b)] \in BOOLEAN /\ (val[Ge(a, b)] <=> val[a] >= val[b])
  BY <1>2, <1>5, Compared DEF Ge
<1>8. Eq(a, b) \in U => val[Eq(a, b)] \in BOOLEAN /\ (val[Eq(a, b)] <=> val[a] = val[b])
  BY <1>2, <1>5, Compared DEF Eq
<1>9. Plus(a, b) \in U => val[Plus(a, b)] = Total(v)
  BY <1>5, Computed DEF Plus
<1> QED BY <1>6, <1>7, <1>8, <1>9 DEF v

LEMMA JoinedWorth ==
  ASSUME NEW U, NEW env, NEW val, Meaning(U, env, val), NEW args
  PROVE  /\ And(args) \in U => /\ val[And(args)] \in BOOLEAN
                               /\ val[And(args)] <=> \A i \in DOMAIN args : val[args[i]]
         /\ Or(args) \in U => /\ val[Or(args)] \in BOOLEAN
                              /\ val[Or(args)] <=> \E i \in DOMAIN args : val[args[i]]
<1> DEFINE v == [i \in DOMAIN args |-> val[args[i]]]
<1>1. DOMAIN v = DOMAIN args /\ \A i \in DOMAIN args : v[i] = val[args[i]]
  OBVIOUS
<1>2. \A op : op \notin {"num", "var", "call"} /\ Op(op, args) \in U =>
        val[Op(op, args)] = Applied(op, 0, 0, v)
  BY OpWorth, Nameless
<1> HIDE DEF v
<1>3. And(args) \in U => val[And(args)] = \A i \in DOMAIN v : v[i]
  BY <1>2, Joined DEF And
<1>4. Or(args) \in U => val[Or(args)] = \E i \in DOMAIN v : v[i]
  BY <1>2, Joined DEF Or
<1>5. (\A i \in DOMAIN v : v[i]) = (\A i \in DOMAIN args : val[args[i]])
  BY <1>1
<1>6. (\E i \in DOMAIN v : v[i]) = (\E i \in DOMAIN args : val[args[i]])
  BY <1>1
<1> QED BY <1>3, <1>4, <1>5, <1>6

LEMMA LeafWorth ==
  ASSUME NEW U, NEW env, NEW val, Meaning(U, env, val), NEW n, NEW x
  PROVE  /\ Num(n) \in U => val[Num(n)] = n
         /\ Var(x) \in U => val[Var(x)] = Named(x, env)
<1>1. ASSUME Num(n) \in U PROVE val[Num(n)] = n
  <2>1. PICK y, v : val[Num(n)] = Applied("num", n, y, v)
    BY <1>1 DEF Meaning, Num, Term
  <2> QED BY <2>1, Leaves
<1>2. ASSUME Var(x) \in U PROVE val[Var(x)] = Named(x, env)
  <2>1. PICK v : val[Var(x)] = Applied("var", 0, Named(x, env), v)
    BY <1>2 DEF Meaning, Var, Term
  <2> QED BY <2>1, Leaves
<1> QED BY <1>1, <1>2

\* Total, as AreSums is of AddAll.
AreTotals(g, n, v) == g = [k \in 0..n |-> IF k = 0 THEN 0 ELSE g[k - 1] + v[k]]

LEMMA TotalsExist == ASSUME NEW n \in Nat, NEW v PROVE \E g : AreTotals(g, n, v)
<1> DEFINE S == {k \in 0..n : \E g : AreTotals(g, k, v)}
<1>1. 0 \in S
  <2>1. AreTotals([k \in 0..0 |-> 0], 0, v)
    BY DEF AreTotals
  <2> QED BY <2>1
<1>2. ASSUME NEW k \in 1..n, k - 1 \in S PROVE k \in S
  <2>1. PICK g : AreTotals(g, k - 1, v)
    BY <1>2
  <2> DEFINE h == [l \in 0..k |-> IF l = k THEN g[k - 1] + v[k] ELSE g[l]]
  <2>2. \A l \in 0..k : h[l] = IF l = 0 THEN 0 ELSE h[l - 1] + v[l]
    BY <2>1 DEF AreTotals
  <2>3. AreTotals(h, k, v)
    BY <2>2 DEF AreTotals
  <2> QED BY <2>3
<1>3. n \in S
  <2> HIDE DEF S
  <2> QED BY <1>1, <1>2, UpTo
<1> QED BY <1>3

LEMMA TotalIs == ASSUME NEW v, Len(v) \in Nat
                 PROVE  \E g : AreTotals(g, Len(v), v) /\ Total(v) = g[Len(v)]
<1> DEFINE g == CHOOSE h : AreTotals(h, Len(v), v)
<1>1. AreTotals(g, Len(v), v)
  BY TotalsExist, Zenon
<1>2. Total(v) = g[Len(v)]
  BY Zenon DEF Total, AreTotals
<1> QED BY <1>1, <1>2

LEMMA TotalIsSum ==
  ASSUME NEW n \in Nat, NEW v, Len(v) = n, \A i \in 1..n : v[i] \in Int
  PROVE  Total(v) \in Int /\ IsSum(Total(v), v)
<1>1. PICK g : AreTotals(g, n, v) /\ Total(v) = g[n]
  BY TotalIs
<1>2. DOMAIN g = 0..n /\ g = [k \in 0..n |-> g[k]]
  BY <1>1 DEF AreTotals
<1>3. g[0] = 0
  BY <1>1 DEF AreTotals
<1>4. \A k \in 1..n : g[k] = g[k - 1] + v[k]
  <2>1. SUFFICES ASSUME NEW k \in 1..n PROVE g[k] = g[k - 1] + v[k]
    OBVIOUS
  <2>2. k \in 0..n /\ k # 0
    OBVIOUS
  <2> QED BY <1>1, <2>2 DEF AreTotals
<1>5. \A k \in 0..n : g[k] \in Int
  <2> DEFINE S == {k \in 0..n : g[k] \in Int}
  <2>1. 0 \in S
    BY <1>3
  <2>2. ASSUME NEW k \in 1..n, k - 1 \in S PROVE k \in S
    BY <1>4, <2>2
  <2>3. \A k \in 0..n : k \in S
    <3> HIDE DEF S
    <3> QED BY <2>1, <2>2, UpTo
  <2> QED BY <2>3
<1>6. g \in [0..n -> Int]
  BY <1>2, <1>5
<1>7. Total(v) \in Int
  BY <1>1, <1>5
<1>8. \E h \in [0..Len(v) -> Int] : /\ h[0] = 0
                                    /\ \A k \in 1..Len(v) : h[k] = h[k - 1] + v[k]
                                    /\ Total(v) = h[Len(v)]
  <2>1. Len(v) = n
    OBVIOUS
  <2>2. g \in [0..Len(v) -> Int] /\ Total(v) = g[Len(v)] /\ \A k \in 1..Len(v) : g[k] = g[k - 1] + v[k]
    BY <1>1, <1>4, <1>6, <2>1
  <2> QED BY <1>3, <2>2, Zenon
<1> QED BY <1>7, <1>8, Zenon DEF IsSum

LEMMA TotalOfTwo ==
  ASSUME NEW v, Len(v) = 2, v[1] \in Int, v[2] \in Int
  PROVE  Total(v) = v[1] + v[2]
<1>0. Len(v) \in Nat
  OBVIOUS
<1>1. PICK g : AreTotals(g, 2, v) /\ Total(v) = g[2]
  <2>1. \E g : AreTotals(g, Len(v), v) /\ Total(v) = g[Len(v)]
    BY <1>0, TotalIs
  <2> QED BY <2>1
<1>2. g[0] = 0 /\ g[1] = g[0] + v[1] /\ g[2] = g[1] + v[2]
  BY <1>1 DEF AreTotals
<1> QED BY <1>1, <1>2

LEMMA MinusWorth ==
  ASSUME NEW U, NEW env, NEW val, Meaning(U, env, val), NEW a, NEW b, Minus(a, b) \in U
  PROVE  val[Minus(a, b)] = val[a] - val[b]
<1> DEFINE v == [i \in DOMAIN <<a, b>> |-> val[<<a, b>>[i]]]
<1>1. v = <<val[a], val[b]>>
  OBVIOUS
<1>2. Len(v) = 2 /\ v[1] = val[a] /\ v[2] = val[b]
  BY <1>1
<1>3. val[Minus(a, b)] = Operation("-", v)
  BY OpWorth DEF Minus
<1> HIDE DEF v
<1>4. Applied("-", 0, 0, v) = Operation("-", v)
  BY Nameless
<1>5. Applied("-", 0, 0, v) = v[1] - v[2]
  BY <1>2, Computed, Zenon
<1> QED BY <1>2, <1>3, <1>4, <1>5, Zenon

LEMMA TimesWorth ==
  ASSUME NEW U, NEW env, NEW val, Meaning(U, env, val), NEW a, NEW b, Times(a, b) \in U
  PROVE  val[Times(a, b)] = val[a] * val[b]
<1> DEFINE v == [i \in DOMAIN <<a, b>> |-> val[<<a, b>>[i]]]
<1>1. v = <<val[a], val[b]>>
  OBVIOUS
<1>2. Len(v) = 2 /\ v[1] = val[a] /\ v[2] = val[b]
  BY <1>1
<1>3. val[Times(a, b)] = Operation("*", v)
  BY OpWorth DEF Times
<1> HIDE DEF v
<1>4. Applied("*", 0, 0, v) = Operation("*", v)
  BY Nameless
<1>5. Applied("*", 0, 0, v) = v[1] * v[2]
  BY <1>2, Computed, Zenon
<1> QED BY <1>2, <1>3, <1>4, <1>5, Zenon

LEMMA PlusWorth ==
  ASSUME NEW U, NEW env, NEW val, Meaning(U, env, val), NEW a, NEW b, Plus(a, b) \in U,
         val[a] \in Int, val[b] \in Int
  PROVE  val[Plus(a, b)] = val[a] + val[b]
<1> DEFINE v == [i \in DOMAIN <<a, b>> |-> val[<<a, b>>[i]]]
<1>1. Len(v) = 2 /\ v[1] = val[a] /\ v[2] = val[b]
  <2>1. v = <<val[a], val[b]>>
    OBVIOUS
  <2> QED BY <2>1
<1>2. val[Plus(a, b)] = Total(v)
  BY TwoWorth
<1> HIDE DEF v
<1> QED BY <1>1, <1>2, TotalOfTwo

\* A term is worth what it was when its arguments and its name are.
LEMMA ThroughoutKeeps ==
  ASSUME NEW T, NEW env, NEW val, Meaning(T, env, val), NEW t \in T,
         NEW U, NEW there, NEW worth, Meaning(U, there, worth),
         NEW args, DOMAIN args = DOMAIN t.args, With(t, args) \in U,
         \A i \in DOMAIN t.args : worth[args[i]] = val[t.args[i]],
         t.op \in {"var", "call"} => Named(t.name, there) = Named(t.name, env)
  PROVE  worth[With(t, args)] = val[t]
<1> DEFINE u == With(t, args)
           v == [i \in DOMAIN t.args |-> val[t.args[i]]]
           w == [i \in DOMAIN args |-> worth[args[i]]]
<1>1. v = w
  OBVIOUS
<1>2. u.op = t.op /\ u.name = t.name /\ u.n = t.n /\ u.args = args
  BY DEF With, Term
<1>3. val[t] = Applied(t.op, t.n, Named(t.name, env), v)
  BY DEF Meaning
<1>4. worth[u] = Applied(u.op, u.n, Named(u.name, there), [i \in DOMAIN u.args |-> worth[u.args[i]]])
  BY DEF Meaning
<1> HIDE DEF u, v, w
<1>5. worth[u] = Applied(t.op, t.n, Named(t.name, there), w)
  BY <1>2, <1>4 DEF w
<1>6. Applied(t.op, t.n, Named(t.name, there), v) = Applied(t.op, t.n, Named(t.name, env), v)
  <2>1. CASE t.op \in {"var", "call"}
    BY <2>1
  <2>2. CASE t.op = "num"
    BY <2>2, Leaves
  <2>3. CASE t.op \notin {"num", "var", "call"}
    BY <2>3, Nameless
  <2> QED BY <2>1, <2>2, <2>3
<1>7. worth[u] = val[t]
  BY <1>1, <1>3, <1>5, <1>6
<1> QED BY <1>7 DEF u

----------------------------------------------------------------------------
(* RewriteEquality, RewriteStrictInequality, RewriteBooleans.               *)

\* The terms of T compare integers with the operators ops (SMTParser knows no other
\* comparison), and negate one formula at a time.
ComparesIntegers(T, val, ops) ==
  \A t \in T : /\ t.op \in ops /\ Len(t.args) = 2 => val[t.args[1]] \in Int /\ val[t.args[2]] \in Int
               /\ t.op = "not" => Len(t.args) = 1

LEMMA EqualityOfIntegers ==
  ASSUME NEW p \in Int, NEW q \in Int
  PROVE  /\ (p =< q /\ p >= q) <=> p = q
         /\ (p >= q + 1 \/ p =< q - 1) <=> p # q
  OBVIOUS

LEMMA TwoJoined ==
  ASSUME NEW U, NEW env, NEW val, Meaning(U, env, val), NEW p, NEW q
  PROVE  /\ And(<<p, q>>) \in U => /\ val[And(<<p, q>>)] \in BOOLEAN
                                   /\ val[And(<<p, q>>)] <=> val[p] /\ val[q]
         /\ Or(<<p, q>>) \in U => /\ val[Or(<<p, q>>)] \in BOOLEAN
                                  /\ val[Or(<<p, q>>)] <=> val[p] \/ val[q]
<1> DEFINE args == <<p, q>>
<1>1. DOMAIN args = {1, 2} /\ args[1] = p /\ args[2] = q
  OBVIOUS
<1> HIDE DEF args
<1>2. And(args) \in U => /\ val[And(args)] \in BOOLEAN
                         /\ val[And(args)] <=> \A i \in DOMAIN args : val[args[i]]
  BY JoinedWorth
<1>3. Or(args) \in U => /\ val[Or(args)] \in BOOLEAN
                        /\ val[Or(args)] <=> \E i \in DOMAIN args : val[args[i]]
  BY JoinedWorth
<1>4. And(args) \in U => val[And(args)] \in BOOLEAN /\ (val[And(args)] <=> val[p] /\ val[q])
  BY <1>1, <1>2
<1>5. Or(args) \in U => val[Or(args)] \in BOOLEAN /\ (val[Or(args)] <=> val[p] \/ val[q])
  BY <1>1, <1>3
<1> QED BY <1>4, <1>5 DEF args

LEMMA NotWorth ==
  ASSUME NEW T, NEW env, NEW val, Meaning(T, env, val), NEW t \in T, t.op = "not", 1 \in DOMAIN t.args
  PROVE  val[t] \in BOOLEAN /\ (val[t] <=> ~val[t.args[1]])
<1> DEFINE v == [i \in DOMAIN t.args |-> val[t.args[i]]]
<1>1. v[1] = val[t.args[1]]
  OBVIOUS
<1>2. val[t] = Applied("not", t.n, Named(t.name, env), v)
  BY DEF Meaning
<1> HIDE DEF v
<1>3. val[t] = ~v[1]
  BY <1>2, Joined
<1> QED BY <1>1, <1>3

\* A comparison of T.
LEMMA ComparisonWorth ==
  ASSUME NEW T, NEW env, NEW val, Meaning(T, env, val), NEW t \in T,
         Len(t.args) = 2, DOMAIN t.args = 1..2
  PROVE  /\ t.op = "=" => val[t] \in BOOLEAN /\ (val[t] <=> val[t.args[1]] = val[t.args[2]])
         /\ t.op = "<" => val[t] \in BOOLEAN /\ (val[t] <=> val[t.args[1]] < val[t.args[2]])
         /\ t.op = ">" => val[t] \in BOOLEAN /\ (val[t] <=> val[t.args[1]] > val[t.args[2]])
<1> DEFINE v == [i \in DOMAIN t.args |-> val[t.args[i]]]
           S == {val[t.args[1]], val[t.args[2]]}
<1>1. v[1] = val[t.args[1]] /\ v[2] = val[t.args[2]] /\ v \in [1..2 -> S]
  OBVIOUS
<1>2. val[t] = Applied(t.op, t.n, Named(t.name, env), v)
  BY DEF Meaning
<1> HIDE DEF v, S
<1>3. Len(v) = 2
  <2>1. 2 \in Nat
    OBVIOUS
  <2> QED BY <1>1, <2>1, FunctionIsSeq
<1>4. t.op = "=" => val[t] \in BOOLEAN /\ (val[t] <=> v[1] = v[2])
  BY <1>2, <1>3, Compared
<1>5. t.op = "<" => val[t] \in BOOLEAN /\ (val[t] <=> v[1] < v[2])
  BY <1>2, <1>3, Compared
<1>6. t.op = ">" => val[t] \in BOOLEAN /\ (val[t] <=> v[1] > v[2])
  BY <1>2, <1>3, Compared
<1> QED BY <1>1, <1>4, <1>5, <1>6

\* rewrite_equality.cpp: whatever integers a formula of any size compares, it is as true
\* after (= a b) has become a =< b /\ a >= b, and not (= a b) a >= b + 1 \/ a =< b - 1,
\* everywhere in it.
THEOREM EqualityKeepsMeaning ==
  ASSUME NEW T, NEW env, NEW val, Reading(T, env, val), ComparesIntegers(T, val, {"="}),
         NEW U, NEW worth, Reading(U, env, worth), NEW integers,
         NEW rw \in [T -> U], \A t \in T : rw[t] = WithoutEquality(t, rw, integers)
  PROVE  \A t \in T : worth[rw[t]] = val[t]
<1> DEFINE P == {t \in T : worth[rw[t]] = val[t]}
           IsEq(u) == u.op = "=" /\ Len(u.args) = 2
<1>1. /\ Closed(T) /\ Meaning(T, env, val) /\ Closed(U) /\ Meaning(U, env, worth)
      /\ \A t \in T : rw[t] \in U
  BY DEF Reading
<1>2. PICK depth : Deep(T, depth)
  BY DEF Reading
<1>3. ASSUME NEW t \in T, \A u \in T : depth[u] < depth[t] => u \in P PROVE t \in P
  <2>1. /\ Len(t.args) \in Nat /\ DOMAIN t.args = 1..Len(t.args)
        /\ \A i \in DOMAIN t.args : t.args[i] \in T
    BY <1>1, Below
  <2>2. \A i \in DOMAIN t.args : t.args[i] \in P /\ depth[t.args[i]] < depth[t]
    BY <1>2, <1>3, <2>1 DEF Deep
  <2>3. CASE integers /\ t.op = "not" /\ IsEq(t.args[1])
    <3> DEFINE e == t.args[1]
               a == rw[e.args[1]]
               b == rw[e.args[2]]
    <3>1. Len(t.args) = 1 /\ 1 \in DOMAIN t.args
      BY <2>1, <2>3 DEF ComparesIntegers
    <3>2. e \in T /\ depth[e] < depth[t]
      BY <2>1, <2>2, <3>1
    <3>3. /\ Len(e.args) = 2 /\ DOMAIN e.args = 1..2
          /\ e.args[1] \in T /\ e.args[2] \in T
      BY <1>1, <2>3, <3>2, Below
    <3>4. e.args[1] \in P /\ e.args[2] \in P
      <4>1. /\ depth[e.args[1]] < depth[e] /\ depth[e.args[2]] < depth[e]
            /\ depth[e.args[1]] \in Nat /\ depth[e.args[2]] \in Nat
            /\ depth[e] \in Nat /\ depth[t] \in Nat
        BY <1>2, <3>2, <3>3 DEF Deep
      <4>2. depth[e.args[1]] < depth[t] /\ depth[e.args[2]] < depth[t]
        BY <3>2, <4>1
      <4> QED BY <1>3, <3>3, <4>2
    <3>5. worth[a] = val[e.args[1]] /\ worth[b] = val[e.args[2]] /\ worth[a] \in Int /\ worth[b] \in Int
      BY <2>3, <3>2, <3>3, <3>4 DEF ComparesIntegers
    <3>6. rw[t] = Or(<<Ge(a, Plus(b, One)), Le(a, Minus(b, One))>>)
      BY <2>3 DEF WithoutEquality
    <3>7. val[t] \in BOOLEAN /\ (val[t] <=> ~val[e])
      BY <1>1, <2>3, <3>1, NotWorth
    <3>8. val[e] <=> val[e.args[1]] = val[e.args[2]]
      BY <1>1, <2>3, <3>2, <3>3, ComparisonWorth
    <3> HIDE DEF e, a, b, P
    <3>9. Or(<<Ge(a, Plus(b, One)), Le(a, Minus(b, One))>>) \in U
      BY <1>1, <3>6
    <3>10. /\ Ge(a, Plus(b, One)) \in U /\ Le(a, Minus(b, One)) \in U
      BY <1>1, <3>9, TwoIn DEF Or
    <3>11. Plus(b, One) \in U /\ Minus(b, One) \in U
      BY <1>1, <3>10, TwoIn DEF Ge, Le
    <3>12. One \in U
      BY <1>1, <3>11, TwoIn DEF Plus
    <3>13. worth[One] = 1
      BY <1>1, <3>12, LeafWorth DEF One
    <3>14. worth[Plus(b, One)] = worth[b] + 1
      <4>1. worth[One] \in Int
        BY <3>13
      <4>2. worth[Plus(b, One)] = worth[b] + worth[One]
        BY <1>1, <3>5, <3>11, <4>1, PlusWorth
      <4> QED BY <3>13, <4>2
    <3>15. worth[Minus(b, One)] = worth[b] - 1
      <4>1. worth[Minus(b, One)] = worth[b] - worth[One]
        BY <1>1, <3>11, MinusWorth
      <4> QED BY <3>13, <4>1
    <3>16. /\ worth[Ge(a, Plus(b, One))] <=> worth[a] >= worth[b] + 1
           /\ worth[Le(a, Minus(b, One))] <=> worth[a] =< worth[b] - 1
      <4>1. /\ worth[Ge(a, Plus(b, One))] <=> worth[a] >= worth[Plus(b, One)]
            /\ worth[Le(a, Minus(b, One))] <=> worth[a] =< worth[Minus(b, One)]
        BY <1>1, <3>10, TwoWorth, Zenon
      <4> QED BY <3>14, <3>15, <4>1
    <3>17. worth[rw[t]] \in BOOLEAN
           /\ (worth[rw[t]] <=> worth[Ge(a, Plus(b, One))] \/ worth[Le(a, Minus(b, One))])
      BY <1>1, <3>6, <3>9, TwoJoined
    <3>18. worth[rw[t]] <=> worth[a] # worth[b]
      BY <3>5, <3>16, <3>17, EqualityOfIntegers
    <3>19. val[t] <=> worth[a] # worth[b]
      BY <3>5, <3>7, <3>8
    <3>20. worth[rw[t]] = val[t]
      BY <3>7, <3>17, <3>18, <3>19
    <3> QED BY <3>20 DEF P
  <2>4. CASE ~(integers /\ t.op = "not" /\ IsEq(t.args[1])) /\ IsEq(t)
    <3> DEFINE a == rw[t.args[1]]
               b == rw[t.args[2]]
    <3>1. /\ Len(t.args) = 2 /\ DOMAIN t.args = 1..2
          /\ t.args[1] \in T /\ t.args[2] \in T
      BY <2>1, <2>4
    <3>2. worth[a] = val[t.args[1]] /\ worth[b] = val[t.args[2]] /\ worth[a] \in Int /\ worth[b] \in Int
      BY <2>2, <2>4, <3>1 DEF ComparesIntegers
    <3>3. rw[t] = And(<<Le(a, b), Ge(a, b)>>)
      BY <2>4 DEF WithoutEquality
    <3>4. val[t] \in BOOLEAN /\ (val[t] <=> val[t.args[1]] = val[t.args[2]])
      BY <1>1, <2>4, <3>1, ComparisonWorth
    <3> HIDE DEF a, b, P
    <3>5. And(<<Le(a, b), Ge(a, b)>>) \in U
      BY <1>1, <3>3
    <3>6. Le(a, b) \in U /\ Ge(a, b) \in U
      BY <1>1, <3>5, TwoIn DEF And
    <3>7. /\ worth[Le(a, b)] <=> worth[a] =< worth[b]
          /\ worth[Ge(a, b)] <=> worth[a] >= worth[b]
      BY <1>1, <3>6, TwoWorth
    <3>8. worth[rw[t]] \in BOOLEAN /\ (worth[rw[t]] <=> worth[Le(a, b)] /\ worth[Ge(a, b)])
      BY <1>1, <3>3, <3>5, TwoJoined
    <3>9. worth[rw[t]] <=> worth[a] = worth[b]
      BY <3>2, <3>7, <3>8, EqualityOfIntegers
    <3>10. worth[rw[t]] = val[t]
      BY <3>2, <3>4, <3>8, <3>9
    <3> QED BY <3>10 DEF P
  <2>5. CASE ~(integers /\ t.op = "not" /\ IsEq(t.args[1])) /\ ~IsEq(t)
    <3> DEFINE args == [i \in DOMAIN t.args |-> rw[t.args[i]]]
    <3>1. rw[t] = With(t, args)
      BY <2>5 DEF WithoutEquality, Throughout
    <3>2. \A i \in DOMAIN t.args : worth[args[i]] = val[t.args[i]]
      BY <2>2
    <3>3. DOMAIN args = DOMAIN t.args
      OBVIOUS
    <3> HIDE DEF args
    <3>4. worth[rw[t]] = val[t]
      BY <1>1, <3>1, <3>2, <3>3, ThroughoutKeeps
    <3> QED BY <3>4
  <2> QED BY <2>3, <2>4, <2>5
<1> HIDE DEF P
<1>4. \A t \in T : t \in P
  BY <1>2, <1>3, DepthInduct
<1> QED BY <1>4 DEF P

\* rewrite_strict_inequalities.cpp: so it is after a < b has become a =< b - 1 and a > b
\* a >= b + 1: the code does so when every variable is an integer.
THEOREM StrictKeepsMeaning ==
  ASSUME NEW T, NEW env, NEW val, Reading(T, env, val), ComparesIntegers(T, val, {"<", ">"}),
         NEW U, NEW worth, Reading(U, env, worth),
         NEW rw \in [T -> U], \A t \in T : rw[t] = WithoutStrict(t, rw)
  PROVE  \A t \in T : worth[rw[t]] = val[t]
<1> DEFINE P == {t \in T : worth[rw[t]] = val[t]}
<1>1. /\ Closed(T) /\ Meaning(T, env, val) /\ Closed(U) /\ Meaning(U, env, worth)
      /\ \A t \in T : rw[t] \in U
  BY DEF Reading
<1>2. PICK depth : Deep(T, depth)
  BY DEF Reading
<1>3. ASSUME NEW t \in T, \A u \in T : depth[u] < depth[t] => u \in P PROVE t \in P
  <2>1. /\ Len(t.args) \in Nat /\ DOMAIN t.args = 1..Len(t.args)
        /\ \A i \in DOMAIN t.args : t.args[i] \in T
    BY <1>1, Below
  <2>2. \A i \in DOMAIN t.args : t.args[i] \in P
    BY <1>2, <1>3, <2>1 DEF Deep
  <2>3. CASE t.op \in {"<", ">"} /\ Len(t.args) = 2
    <3> DEFINE a == rw[t.args[1]]
               b == rw[t.args[2]]
    <3>1. DOMAIN t.args = 1..2
      BY <2>1, <2>3
    <3>2. worth[a] = val[t.args[1]] /\ worth[b] = val[t.args[2]] /\ worth[a] \in Int /\ worth[b] \in Int
      BY <2>2, <2>3, <3>1 DEF ComparesIntegers
    <3>3. /\ t.op = "<" => val[t] \in BOOLEAN /\ (val[t] <=> val[t.args[1]] < val[t.args[2]])
          /\ t.op = ">" => val[t] \in BOOLEAN /\ (val[t] <=> val[t.args[1]] > val[t.args[2]])
      BY <1>1, <2>3, <3>1, ComparisonWorth
    <3>4. /\ t.op = "<" => rw[t] = Le(a, Minus(b, One))
          /\ t.op = ">" => rw[t] = Ge(a, Plus(b, One))
      BY <2>3 DEF WithoutStrict
    <3> HIDE DEF a, b, P
    <3>5. ASSUME t.op = "<" PROVE worth[rw[t]] = val[t]
      <4>1. Le(a, Minus(b, One)) \in U
        BY <1>1, <3>4, <3>5
      <4>2. Minus(b, One) \in U
        BY <1>1, <4>1, TwoIn DEF Le
      <4>3. One \in U
        BY <1>1, <4>2, TwoIn DEF Minus
      <4>4. worth[One] = 1 /\ worth[Minus(b, One)] = worth[b] - worth[One]
        BY <1>1, <4>2, <4>3, LeafWorth, MinusWorth DEF One
      <4>5. /\ worth[Le(a, Minus(b, One))] \in BOOLEAN
            /\ worth[Le(a, Minus(b, One))] <=> worth[a] =< worth[Minus(b, One)]
        BY <1>1, <4>1, TwoWorth
      <4>6. worth[a] =< worth[Minus(b, One)] <=> worth[a] < worth[b]
        BY <3>2, <4>4
      <4> QED BY <3>2, <3>3, <3>4, <3>5, <4>5, <4>6
    <3>6. ASSUME t.op = ">" PROVE worth[rw[t]] = val[t]
      <4>1. Ge(a, Plus(b, One)) \in U
        BY <1>1, <3>4, <3>6
      <4>2. Plus(b, One) \in U
        BY <1>1, <4>1, TwoIn DEF Ge
      <4>3. One \in U
        BY <1>1, <4>2, TwoIn DEF Plus
      <4>4. worth[One] = 1
        BY <1>1, <4>3, LeafWorth DEF One
      <4>5. worth[Plus(b, One)] = worth[b] + worth[One]
        BY <1>1, <3>2, <4>2, <4>4, PlusWorth
      <4>6. /\ worth[Ge(a, Plus(b, One))] \in BOOLEAN
            /\ worth[Ge(a, Plus(b, One))] <=> worth[a] >= worth[Plus(b, One)]
        BY <1>1, <4>1, TwoWorth
      <4>7. worth[a] >= worth[Plus(b, One)] <=> worth[a] > worth[b]
        BY <3>2, <4>4, <4>5
      <4> QED BY <3>2, <3>3, <3>4, <3>6, <4>6, <4>7
    <3> QED BY <2>3, <3>5, <3>6 DEF P
  <2>4. CASE ~(t.op \in {"<", ">"} /\ Len(t.args) = 2)
    <3> DEFINE args == [i \in DOMAIN t.args |-> rw[t.args[i]]]
    <3>1. rw[t] = With(t, args)
      BY <2>4 DEF WithoutStrict, Throughout
    <3>2. \A i \in DOMAIN t.args : worth[args[i]] = val[t.args[i]]
      BY <2>2
    <3>3. DOMAIN args = DOMAIN t.args
      OBVIOUS
    <3> HIDE DEF args
    <3>4. worth[rw[t]] = val[t]
      BY <1>1, <3>1, <3>2, <3>3, ThroughoutKeeps
    <3> QED BY <3>4
  <2> QED BY <2>3, <2>4
<1> HIDE DEF P
<1>4. \A t \in T : t \in P
  BY <1>2, <1>3, DepthInduct
<1> QED BY <1>4 DEF P

\* there gives the names of boolVars 1 for true and 0 for false, the others what env does.
AsIntegers(T, env, boolVars, there) ==
  /\ \A x \in boolVars : /\ x \notin {"true", "false"} /\ env[x] \in BOOLEAN
                         /\ there[x] = IF env[x] THEN 1 ELSE 0
  /\ \A t \in T : /\ t.op = "var" /\ t.name \notin boolVars => Named(t.name, there) = Named(t.name, env)
                  /\ t.op = "call" => Named(t.name, there) = Named(t.name, env)

LEMMA VarWorth ==
  ASSUME NEW T, NEW env, NEW val, Meaning(T, env, val), NEW t \in T, t.op = "var"
  PROVE  val[t] = Named(t.name, env)
<1>1. PICK v : val[t] = Applied("var", t.n, Named(t.name, env), v)
  BY DEF Meaning
<1> QED BY <1>1, Leaves

\* rewrite_booleans.cpp: every formula is as true once a Boolean variable stands for an
\* integer that is 1 when it is true and 0 when it is false.
THEOREM BooleansKeepMeaning ==
  ASSUME NEW T, NEW env, NEW val, Reading(T, env, val), ComparesIntegers(T, val, {}),
         NEW boolVars, NEW there, AsIntegers(T, env, boolVars, there),
         NEW U, NEW worth, Reading(U, there, worth),
         NEW rw \in [T -> U], \A t \in T : rw[t] = WithoutBooleans(t, rw, boolVars)
  PROVE  \A t \in T : worth[rw[t]] = val[t]
<1> DEFINE P == {t \in T : worth[rw[t]] = val[t]}
           isBool(u) == u.op = "var" /\ u.name \in boolVars
<1>1. /\ Closed(T) /\ Meaning(T, env, val) /\ Closed(U) /\ Meaning(U, there, worth)
      /\ \A t \in T : rw[t] \in U
  BY DEF Reading
<1>2. PICK depth : Deep(T, depth)
  BY DEF Reading
<1>3. ASSUME NEW u \in T, isBool(u), u \in U
      PROVE  val[u] \in BOOLEAN /\ worth[u] = IF val[u] THEN 1 ELSE 0
  <2>1. val[u] = Named(u.name, env) /\ worth[u] = Named(u.name, there)
    BY <1>1, <1>3, VarWorth
  <2>2. Named(u.name, env) = env[u.name] /\ Named(u.name, there) = there[u.name]
    BY <1>3 DEF AsIntegers, Named
  <2> QED BY <1>3, <2>1, <2>2 DEF AsIntegers
<1>4. ASSUME NEW t \in T, \A u \in T : depth[u] < depth[t] => u \in P PROVE t \in P
  <2>1. /\ Len(t.args) \in Nat /\ DOMAIN t.args = 1..Len(t.args)
        /\ \A i \in DOMAIN t.args : t.args[i] \in T
    BY <1>1, Below
  <2>2. \A i \in DOMAIN t.args : t.args[i] \in P
    BY <1>2, <1>4, <2>1 DEF Deep
  <2>3. CASE isBool(t)
    <3>1. rw[t] = Ge(t, One)
      BY <2>3 DEF WithoutBooleans
    <3> HIDE DEF P
    <3>2. Ge(t, One) \in U
      BY <1>1, <3>1
    <3>3. t \in U /\ One \in U
      BY <1>1, <3>2, TwoIn DEF Ge
    <3>4. worth[One] = 1
      BY <1>1, <3>3, LeafWorth DEF One
    <3>5. /\ worth[Ge(t, One)] \in BOOLEAN
          /\ worth[Ge(t, One)] <=> worth[t] >= worth[One]
      BY <1>1, <3>2, TwoWorth
    <3>6. val[t] \in BOOLEAN /\ worth[t] = IF val[t] THEN 1 ELSE 0
      BY <1>3, <2>3, <3>3
    <3>7. worth[t] >= worth[One] <=> val[t]
      BY <3>4, <3>6
    <3> QED BY <3>1, <3>5, <3>6, <3>7 DEF P
  <2>4. CASE ~isBool(t) /\ t.op = "not" /\ isBool(t.args[1])
    <3> DEFINE b == t.args[1]
               zero == Num(0)
    <3>1. 1 \in DOMAIN t.args /\ b \in T
      BY <2>1, <2>4 DEF ComparesIntegers
    <3>2. rw[t] = Le(b, zero)
      BY <2>4 DEF WithoutBooleans
    <3>3. val[t] \in BOOLEAN /\ (val[t] <=> ~val[b])
      BY <1>1, <2>4, <3>1, NotWorth
    <3>4. isBool(b)
      BY <2>4
    <3> HIDE DEF P, b, zero
    <3>5. Le(b, zero) \in U
      BY <1>1, <3>2
    <3>6. b \in U /\ zero \in U
      BY <1>1, <3>5, TwoIn DEF Le
    <3>7. worth[zero] = 0
      BY <1>1, <3>6, LeafWorth DEF zero
    <3>8. /\ worth[Le(b, zero)] \in BOOLEAN
          /\ worth[Le(b, zero)] <=> worth[b] =< worth[zero]
      BY <1>1, <3>5, TwoWorth
    <3>9. val[b] \in BOOLEAN /\ worth[b] = IF val[b] THEN 1 ELSE 0
      BY <1>3, <3>1, <3>4, <3>6
    <3>10. worth[b] =< worth[zero] <=> ~val[b]
      BY <3>7, <3>9
    <3> QED BY <3>2, <3>3, <3>8, <3>10 DEF P
  <2>5. CASE ~isBool(t) /\ ~(t.op = "not" /\ isBool(t.args[1]))
    <3> DEFINE args == [i \in DOMAIN t.args |-> rw[t.args[i]]]
    <3>1. rw[t] = With(t, args)
      BY <2>5 DEF WithoutBooleans, Throughout
    <3>2. \A i \in DOMAIN t.args : worth[args[i]] = val[t.args[i]]
      BY <2>2
    <3>3. DOMAIN args = DOMAIN t.args
      OBVIOUS
    <3>4. t.op \in {"var", "call"} => Named(t.name, there) = Named(t.name, env)
      BY <2>5 DEF AsIntegers
    <3> HIDE DEF args
    <3>5. worth[rw[t]] = val[t]
      BY <1>1, <3>1, <3>2, <3>3, <3>4, ThroughoutKeeps
    <3> QED BY <3>5
  <2> QED BY <2>3, <2>4, <2>5
<1> HIDE DEF P
<1>5. \A t \in T : t \in P
  BY <1>2, <1>4, DepthInduct
<1> QED BY <1>5 DEF P

----------------------------------------------------------------------------
(* RewriteDivisionMod: the constraints.                                     *)

LEMMA DivMod ==
  ASSUME NEW a \in Int, NEW b \in Int, b > 0
  PROVE  /\ a \div b \in Int /\ a % b \in Int
         /\ a = b * (a \div b) + (a % b)
         /\ 0 =< a % b /\ a % b < b
<1>1. a \div b \in Int /\ a % b \in Int
  OBVIOUS
<1>2. a = b * (a \div b) + (a % b)
  OBVIOUS
<1>3. 0 =< a % b
  OBVIOUS
<1>4. a % b < b
  OBVIOUS
<1> QED BY <1>1, <1>2, <1>3, <1>4

LEMMA NextMultiple ==
  ASSUME NEW b \in Int, b > 0, NEW q \in Int, NEW d \in Int, q < d
  PROVE  b * q + b =< b * d
<1>1. PICK e \in Int : d = q + 1 + e /\ e >= 0
  <2>1. d - q - 1 \in Int /\ d - q - 1 >= 0 /\ d = q + 1 + (d - q - 1)
    OBVIOUS
  <2> QED BY <2>1
<1>2. b * d = b * q + b + b * e
  BY <1>1
<1>3. b * e >= 0
  BY <1>1
<1>4. b * q \in Int /\ b * e \in Int
  BY <1>1
<1> QED BY <1>2, <1>3, <1>4

LEMMA QuotientIs ==
  ASSUME NEW a \in Int, NEW b \in Int, b > 0, NEW q \in Int
  PROVE  (b * q =< a /\ a =< b * q + b - 1) <=> q = a \div b
<1> DEFINE d == a \div b
           r == a % b
<1>1. d \in Int /\ r \in Int /\ a = b * d + r /\ 0 =< r /\ r < b
  BY DivMod
<1> HIDE DEF d, r
<1>2. b * d \in Int /\ b * q \in Int
  BY <1>1
<1>3. ASSUME q = d PROVE b * q =< a /\ a =< b * q + b - 1
  BY <1>1, <1>2, <1>3
<1>4. ASSUME q < d PROVE ~(a =< b * q + b - 1)
  <2>1. b * q + b =< b * d
    BY <1>1, <1>4, NextMultiple
  <2> QED BY <1>1, <1>2, <2>1
<1>5. ASSUME d < q PROVE ~(b * q =< a)
  <2>1. b * d + b =< b * q
    BY <1>1, <1>5, NextMultiple
  <2> QED BY <1>1, <1>2, <2>1
<1>6. q = d \/ q < d \/ d < q
  BY <1>1
<1>7. (b * q =< a /\ a =< b * q + b - 1) <=> q = d
  BY <1>3, <1>4, <1>5, <1>6, <1>1
<1> QED BY <1>7 DEF d

LEMMA QuotientType ==
  ASSUME NEW a \in Int, NEW b \in Int, b # 0
  PROVE  Quotient(a, b) \in Int /\ Remainder(a, b) \in Int
<1>1. CASE b > 0
  BY <1>1, DivMod DEF Quotient, Remainder
<1>2. CASE ~(b > 0)
  <2>1. -b \in Int /\ -b > 0
    BY <1>2
  <2>2. a \div (-b) \in Int /\ a % (-b) \in Int
    BY <2>1, DivMod
  <2> QED BY <1>2, <2>2 DEF Quotient, Remainder
<1> QED BY <1>1, <1>2

\* What the two disjuncts of a quotient's constraint say.
LEMMA QuotientBounds ==
  ASSUME NEW a \in Int, NEW b \in Int, b # 0, NEW q \in Int
  PROVE  (\/ b >= 1 /\ b * q =< a /\ a =< b * (q + 1) - 1
          \/ b =< -1 /\ b * q =< a /\ a =< b * (q - 1) - 1)
         <=> q = Quotient(a, b)
<1>1. b * q \in Int /\ b * (q + 1) = b * q + b /\ b * (q - 1) = b * q - b
  OBVIOUS
<1>2. CASE b > 0
  <2>1. (b * q =< a /\ a =< b * q + b - 1) <=> q = a \div b
    BY <1>2, QuotientIs
  <2>2. Quotient(a, b) = a \div b
    BY <1>2 DEF Quotient
  <2>3. b >= 1 /\ ~(b =< -1) /\ b * (q + 1) - 1 = b * q + b - 1
    BY <1>1, <1>2
  <2> QED BY <2>1, <2>2, <2>3
<1>3. CASE b < 0
  <2> DEFINE c == -b
             p == -q
  <2>1. c \in Int /\ c > 0 /\ p \in Int
    BY <1>3
  <2>2. (c * p =< a /\ a =< c * p + c - 1) <=> p = a \div c
    BY <2>1, QuotientIs
  <2>3. c * p = b * q
    OBVIOUS
  <2>4. a \div c \in Int /\ Quotient(a, b) = -(a \div c)
    BY <1>3, <2>1, DivMod DEF Quotient
  <2>5. p = a \div c <=> q = -(a \div c)
    BY <2>4
  <2>6. ~(b >= 1) /\ b =< -1 /\ b * (q - 1) - 1 = c * p + c - 1
    BY <1>1, <1>3, <2>3
  <2> HIDE DEF c, p
  <2> QED BY <2>2, <2>3, <2>4, <2>5, <2>6
<1> QED BY <1>2, <1>3

\* So of a remainder's, q being the quotient.
LEMMA RemainderBounds ==
  ASSUME NEW a \in Int, NEW b \in Int, b # 0, NEW r \in Int, NEW q, q = Quotient(a, b)
  PROVE  (\/ b >= 1 /\ 0 =< r /\ r =< b - 1 /\ a = b * q + r
          \/ b =< -1 /\ 0 =< r /\ r =< (0 - b) - 1 /\ a = b * q + r)
         <=> r = Remainder(a, b)
<1>1. CASE b > 0
  <2>1. /\ a % b \in Int /\ a \div b \in Int /\ a = b * (a \div b) + (a % b)
        /\ 0 =< a % b /\ a % b < b
    BY <1>1, DivMod
  <2>2. q = a \div b /\ Remainder(a, b) = a % b
    BY <1>1 DEF Quotient, Remainder
  <2>3. b * q \in Int /\ a = b * q + (a % b)
    BY <2>1, <2>2
  <2> QED BY <1>1, <2>1, <2>2, <2>3
<1>2. CASE b < 0
  <2> DEFINE c == -b
             d == a \div c
             m == a % c
  <2>1. c \in Int /\ c > 0
    BY <1>2
  <2>2. m \in Int /\ d \in Int /\ a = c * d + m /\ 0 =< m /\ m < c
    BY <2>1, DivMod
  <2>3. q = -d /\ Remainder(a, b) = m
    BY <1>2 DEF Quotient, Remainder
  <2>4. b * q = c * d /\ c * d \in Int
    <3> HIDE DEF d
    <3> QED BY <2>2, <2>3
  <2>5. (0 - b) - 1 = c - 1
    OBVIOUS
  <2> HIDE DEF d, m
  <2> QED BY <1>2, <2>2, <2>3, <2>4, <2>5
<1> QED BY <1>1, <1>2

----------------------------------------------------------------------------
(* Handlers with a cache: rw makes of a term and of what the handler has   *)
(* kept so far, one of S, a term of U and one of S.                        *)

Results(U, S) == [t : U, s : S]

\* What rw makes of t is in Good, is worth t where what was kept is right, and nothing that
\* was right or sound gets lost.
Keeps(rw, t, S, Sound, Right, Good, val, worth) ==
  \A s \in S : LET r == rw[<<t, s>>]
               IN  /\ s \in Sound => r.s \in Sound
                   /\ r.s \in Right => s \in Right /\ worth[r.t] = val[t]
                   /\ r.t \in Good

\* So it is with the arguments of t, which are in T.
AllKeep(rw, T, U, t, S, Sound, Right, Good, val, worth) ==
  /\ rw \in [T \X S -> Results(U, S)] /\ t.args \in Seq(T)
  /\ \A i \in DOMAIN t.args : Keeps(rw, t.args[i], S, Sound, Right, Good, val, worth)

AreDone(g, n, args, s, rw) ==
  g = [k \in 0..n |-> IF k = 0 THEN [args |-> <<>>, s |-> s]
                      ELSE LET before == g[k - 1]
                               r == rw[<<args[k], before.s>>]
                           IN  [args |-> Append(before.args, r.t), s |-> r.s]]

LEMMA DoneExists == ASSUME NEW n \in Nat, NEW args, NEW s, NEW rw
                    PROVE  \E g : AreDone(g, n, args, s, rw)
<1> DEFINE S == {k \in 0..n : \E g : AreDone(g, k, args, s, rw)}
           first == [args |-> <<>>, s |-> s]
           next(before, k) == LET r == rw[<<args[k], before.s>>]
                              IN  [args |-> Append(before.args, r.t), s |-> r.s]
<1>1. 0 \in S
  <2>1. AreDone([k \in 0..0 |-> first], 0, args, s, rw)
    BY DEF AreDone
  <2> QED BY <2>1
<1>2. ASSUME NEW k \in 1..n, k - 1 \in S PROVE k \in S
  <2>1. PICK g : AreDone(g, k - 1, args, s, rw)
    BY <1>2
  <2>2. g = [l \in 0..(k - 1) |-> IF l = 0 THEN first ELSE next(g[l - 1], l)]
    BY <2>1 DEF AreDone
  <2> DEFINE h == [l \in 0..k |-> IF l = k THEN next(g[k - 1], k) ELSE g[l]]
  <2> HIDE DEF next, first
  <2>3. \A l \in 0..k : h[l] = IF l = 0 THEN first ELSE next(h[l - 1], l)
    BY <2>2
  <2>4. h = [l \in 0..k |-> IF l = 0 THEN first ELSE next(h[l - 1], l)]
    BY <2>3
  <2>5. AreDone(h, k, args, s, rw)
    <3> HIDE DEF h
    <3> QED BY <2>4 DEF AreDone, next, first
  <2> QED BY <2>5
<1>3. n \in S
  <2> HIDE DEF S
  <2> QED BY <1>1, <1>2, UpTo
<1> QED BY <1>3

Ordered(rw, t, s) == InOrder(LAMBDA u, c : rw[<<u, c>>], t, s)

LEMMA InOrderIs ==
  ASSUME NEW t, Len(t.args) \in Nat, NEW s, NEW rw
  PROVE  \E g : /\ AreDone(g, Len(t.args), t.args, s, rw)
                /\ Ordered(rw, t, s)
                     = [t |-> With(t, g[Len(t.args)].args), s |-> g[Len(t.args)].s]
<1> DEFINE g == CHOOSE h : AreDone(h, Len(t.args), t.args, s, rw)
<1>1. AreDone(g, Len(t.args), t.args, s, rw)
  BY DoneExists, Zenon
<1>2. Ordered(rw, t, s)
        = [t |-> With(t, g[Len(t.args)].args), s |-> g[Len(t.args)].s]
  BY Zenon DEF Ordered, InOrder, AreDone
<1> QED BY <1>1, <1>2

LEMMA NamedWorth ==
  ASSUME NEW U, NEW env, NEW val, Meaning(U, env, val), NEW x, Var(x) \in U
  PROVE  val[Var(x)] = Named(x, env)
  BY LeafWorth

\* What the arguments of t have become.
LEMMA InOrderKeeps ==
  ASSUME NEW T, NEW U, NEW S, NEW rw, NEW Sound, NEW Right, NEW Good, NEW val, NEW worth, NEW t,
         AllKeep(rw, T, U, t, S, Sound, Right, Good, val, worth), NEW s \in S
  PROVE  \E args \in Seq(U), end \in S :
           /\ Ordered(rw, t, s) = [t |-> With(t, args), s |-> end]
           /\ DOMAIN args = DOMAIN t.args /\ Len(args) = Len(t.args)
           /\ s \in Sound => end \in Sound
           /\ end \in Right =>
                s \in Right /\ \A i \in DOMAIN t.args : worth[args[i]] = val[t.args[i]]
           /\ \A i \in DOMAIN t.args : args[i] \in Good
<1> DEFINE n == Len(t.args)
<1>1. n \in Nat /\ DOMAIN t.args = 1..n /\ \A i \in 1..n : t.args[i] \in T
  BY LenProperties, ElementOfSeq DEF AllKeep
<1>2. PICK g : /\ AreDone(g, n, t.args, s, rw)
               /\ Ordered(rw, t, s) = [t |-> With(t, g[n].args), s |-> g[n].s]
  BY <1>1, InOrderIs
<1> DEFINE Kept(k) ==
             /\ g[k].s \in S /\ g[k].args \in Seq(U) /\ Len(g[k].args) = k
             /\ s \in Sound => g[k].s \in Sound
             /\ g[k].s \in Right => s \in Right /\ \A i \in 1..k : worth[g[k].args[i]] = val[t.args[i]]
             /\ \A i \in 1..k : g[k].args[i] \in Good
           K == {k \in 0..n : Kept(k)}
<1> HIDE DEF n
<1>0. n \in Nat /\ 0 \in 0..n
  BY <1>1
<1>3. g[0] = [args |-> <<>>, s |-> s]
  BY <1>0, <1>2 DEF AreDone
<1>4. 0 \in K
  <2>1. g[0].s = s /\ g[0].args = <<>>
    BY <1>3
  <2>2. 1..0 = {} /\ <<>> \in Seq(U) /\ Len(<<>>) = 0
    OBVIOUS
  <2>3. Kept(0)
    BY <2>1, <2>2
  <2> QED BY <1>1, <2>3
<1>5. ASSUME NEW k \in 1..n, k - 1 \in K PROVE k \in K
  <2> DEFINE before == g[k - 1]
             r == rw[<<t.args[k], before.s>>]
  <2>1. g[k] = [args |-> Append(before.args, r.t), s |-> r.s]
    <3>1. k \in 0..n /\ k # 0
      BY <1>1
    <3> QED BY <1>2, <3>1 DEF AreDone
  <2>2. /\ before.s \in S /\ before.args \in Seq(U) /\ Len(before.args) = k - 1
        /\ s \in Sound => before.s \in Sound
        /\ before.s \in Right =>
             s \in Right /\ \A i \in 1..(k - 1) : worth[before.args[i]] = val[t.args[i]]
        /\ \A i \in 1..(k - 1) : before.args[i] \in Good
    BY <1>5
  <2>3. t.args[k] \in T /\ k \in DOMAIN t.args
    BY <1>1
  <2>4. r.t \in U /\ r.s \in S
    <3>1. r \in Results(U, S)
      BY <2>2, <2>3 DEF AllKeep
    <3> QED BY <3>1 DEF Results
  <2>5. /\ before.s \in Sound => r.s \in Sound
        /\ r.s \in Right => before.s \in Right /\ worth[r.t] = val[t.args[k]]
        /\ r.t \in Good
    BY <2>2, <2>3 DEF AllKeep, Keeps
  <2> DEFINE after == Append(before.args, r.t)
  <2>6. g[k].args = after /\ g[k].s = r.s
    BY <2>1
  <2> HIDE DEF r, before
  <2>7. after \in Seq(U) /\ Len(after) = k /\ after[k] = r.t
        /\ \A i \in 1..(k - 1) : after[i] = before.args[i]
    <3>1. /\ after \in Seq(U) /\ Len(after) = Len(before.args) + 1
          /\ \A i \in 1..Len(before.args) : after[i] = before.args[i]
          /\ after[Len(before.args) + 1] = r.t
      BY <2>2, <2>4, AppendProperties
    <3>2. k - 1 + 1 = k
      OBVIOUS
    <3> HIDE DEF after
    <3> QED BY <2>2, <3>1, <3>2
  <2> HIDE DEF after
  <2>8. \A i \in 1..k : i = k \/ i \in 1..(k - 1)
    OBVIOUS
  <2>9. \A i \in 1..k : after[i] \in Good
    BY <2>2, <2>5, <2>7, <2>8
  <2>10. r.s \in Right => s \in Right /\ \A i \in 1..k : worth[after[i]] = val[t.args[i]]
    BY <2>2, <2>5, <2>7, <2>8
  <2>11. Kept(k)
    BY <2>2, <2>4, <2>5, <2>6, <2>7, <2>9, <2>10
  <2> HIDE DEF Kept
  <2> QED BY <1>1, <2>11
<1>6. n \in K
  <2> HIDE DEF K
  <2>1. \A k \in 0..n : k \in K
    BY <1>0, <1>4, <1>5, UpTo
  <2> QED BY <1>0, <2>1
<1>7. Kept(n)
  BY <1>6
<1>8. DOMAIN g[n].args = 1..n
  BY <1>7, LenProperties
<1> QED BY <1>1, <1>2, <1>7, <1>8 DEF n

Entries(U, Names) == [call : U, name : Names]
Caches(U, Names) == Seq(Entries(U, Names))

\* Every name of the cache is worth the call it stands for.
Stands(cache, there, worth) ==
  \A i \in DOMAIN cache : Named(cache[i].name, there) = worth[cache[i].call]

LEMMA StandsAppended ==
  ASSUME NEW X, NEW cache \in Seq(X), NEW e \in X, NEW there, NEW worth
  PROVE  Stands(Append(cache, e), there, worth)
           <=> Stands(cache, there, worth) /\ Named(e.name, there) = worth[e.call]
<1> DEFINE after == Append(cache, e)
           n == Len(cache)
<1>1. n \in Nat /\ DOMAIN cache = 1..n
  BY LenProperties
<1>2. /\ after \in Seq(X) /\ Len(after) = n + 1
      /\ \A i \in 1..n : after[i] = cache[i]
      /\ after[n + 1] = e
  BY AppendProperties
<1> HIDE DEF after, n
<1>3. DOMAIN after = 1..(n + 1)
  BY <1>2, LenProperties
<1>4. \A i \in 1..(n + 1) : i = n + 1 \/ i \in 1..n
  BY <1>1
<1>5. n + 1 \in 1..(n + 1) /\ \A i \in 1..n : i \in 1..(n + 1)
  BY <1>1
<1>6. Stands(after, there, worth) <=> Stands(cache, there, worth) /\ Named(e.name, there) = worth[e.call]
  BY <1>1, <1>2, <1>3, <1>4, <1>5 DEF Stands
<1> QED BY <1>6 DEF after

LEMMA LastIn ==
  ASSUME NEW X, NEW Y, NEW c \in Seq(Y), NEW e, Append(c, e) \in Seq(X)
  PROVE  e \in X
<1> DEFINE after == Append(c, e)
           n == Len(c)
<1>1. n \in Nat /\ c \in Seq(Y \cup {e})
  BY LenProperties
<1>2. Len(after) = n + 1 /\ after[n + 1] = e
  BY <1>1, AppendProperties
<1>3. after \in Seq(X)
  OBVIOUS
<1> HIDE DEF after, n
<1>4. n + 1 \in 1..(n + 1)
  BY <1>1
<1>5. after[n + 1] \in X
  BY <1>2, <1>3, <1>4, ElementOfSeq
<1> QED BY <1>2, <1>5

LEMMA CachedIs ==
  ASSUME NEW U, NEW Names, NEW cache \in Seq(Entries(U, Names)), NEW call, Cached(cache, call),
         NEW there, NEW worth
  PROVE  /\ call \in U /\ NameOf(cache, call) \in Names
         /\ Stands(cache, there, worth) => Named(NameOf(cache, call), there) = worth[call]
<1> DEFINE e == CHOOSE x \in Range(cache) : x.call = call
<1>1. e \in Range(cache) /\ e.call = call
  <2>1. \E x \in Range(cache) : x.call = call
    BY DEF Cached, Range
  <2> QED BY <2>1
<1>2. NameOf(cache, call) = e.name
  BY DEF NameOf
<1> HIDE DEF e
<1>3. PICK i \in DOMAIN cache : cache[i] = e
  BY <1>1 DEF Range
<1>4. e \in Entries(U, Names)
  <2>1. DOMAIN cache = 1..Len(cache)
    BY LenProperties
  <2> QED BY <1>3, <2>1, ElementOfSeq
<1> QED BY <1>1, <1>2, <1>3, <1>4 DEF Stands, Entries

\* The names of T are worth the same here and there.
SameNames(T, env, there) ==
  \A t \in T : t.op \in {"var", "call"} => Named(t.name, there) = Named(t.name, env)

\* rw is FormulaLinearizer on T: the term and the cache it makes of a term and a cache.
Linearizes(rw, T, U, caches, functions, hasArrays) ==
  /\ rw \in [T \X caches -> Results(U, caches)]
  /\ \A t \in T, s \in caches :
       rw[<<t, s>>] = WithoutCalls(t, Ordered(rw, t, s), functions, hasArrays)

\* formula_linearizer.cpp: the calls of functions and the reads of arrays of a formula of any
\* size become variables, and wherever every variable made so far is worth the call it was
\* made for, the formula is worth what it was, and the earlier ones still stand for theirs.
THEOREM CallsKeepMeaning ==
  ASSUME NEW T, NEW env, NEW val, Reading(T, env, val),
         NEW U, NEW there, NEW worth, Reading(U, there, worth), SameNames(T, env, there),
         NEW Names, NEW functions, NEW hasArrays,
         NEW rw, Linearizes(rw, T, U, Caches(U, Names), functions, hasArrays)
  PROVE  \A t \in T, s \in Caches(U, Names) :
           LET r == rw[<<t, s>>]
           IN  Stands(r.s, there, worth) => Stands(s, there, worth) /\ worth[r.t] = val[t]
<1> DEFINE S == Caches(U, Names)
           Right == {s \in S : Stands(s, there, worth)}
           P == {t \in T : Keeps(rw, t, S, S, Right, U, val, worth)}
<1>1. Closed(T) /\ Meaning(T, env, val) /\ Closed(U) /\ Meaning(U, there, worth)
  BY DEF Reading
<1>2. PICK depth : Deep(T, depth)
  BY DEF Reading
<1>3. \A t \in T, s \in S : rw[<<t, s>>] \in Results(U, S)
  BY DEF Linearizes
<1>4. \A t \in T, s \in S : rw[<<t, s>>].t \in U /\ rw[<<t, s>>].s \in S
  BY <1>3 DEF Results
<1>5. ASSUME NEW t \in T, \A u \in T : depth[u] < depth[t] => u \in P PROVE t \in P
  <2>1. t.args \in Seq(T)
    BY <1>1 DEF Closed
  <2>2. \A i \in DOMAIN t.args : t.args[i] \in P
    BY <1>1, <1>2, <1>5, Below DEF Deep
  <2> DEFINE AsWell(s) == LET r == rw[<<t, s>>]
                          IN  r.s \in Right => s \in Right /\ worth[r.t] = val[t]
  <2>3. ASSUME NEW s \in S PROVE AsWell(s)
    <3> DEFINE r == rw[<<t, s>>]
    <3>1. AllKeep(rw, T, U, t, S, S, Right, U, val, worth)
      BY <2>1, <2>2 DEF AllKeep, Linearizes
    <3>3. r.t \in U /\ r.s \in S
      BY <1>4
    <3>4. r = LET q == Ordered(rw, t, s)
                  name == Prefix(t) \o "__" \o ToString(Len(q.s))
                  handled == CanHandle(t, functions, hasArrays)
              IN  CASE ~handled -> q
                    [] handled /\ Cached(q.s, q.t) -> [t |-> Var(NameOf(q.s, q.t)), s |-> q.s]
                    [] OTHER -> [t |-> Var(name),
                                 s |-> Append(q.s, [call |-> q.t, name |-> name])]
      <4>1. r = WithoutCalls(t, Ordered(rw, t, s), functions, hasArrays)
        BY Zenon DEF Linearizes
      <4> HIDE DEF r
      <4> QED BY <4>1, Zenon DEF WithoutCalls
    <3>5. \A x : x \in Right <=> x \in S /\ Stands(x, there, worth)
      OBVIOUS
    <3> HIDE DEF P, Right, S, r
    <3>6. PICK args \in Seq(U), end \in S :
            /\ Ordered(rw, t, s) = [t |-> With(t, args), s |-> end]
            /\ DOMAIN args = DOMAIN t.args
            /\ end \in Right =>
                 s \in Right /\ \A i \in DOMAIN t.args : worth[args[i]] = val[t.args[i]]
      <4>1. \E args \in Seq(U), end \in S :
              /\ Ordered(rw, t, s) = [t |-> With(t, args), s |-> end]
              /\ DOMAIN args = DOMAIN t.args /\ Len(args) = Len(t.args)
              /\ s \in S => end \in S
              /\ end \in Right =>
                   s \in Right /\ \A i \in DOMAIN t.args : worth[args[i]] = val[t.args[i]]
              /\ \A i \in DOMAIN t.args : args[i] \in U
        BY <2>3, <3>1, InOrderKeeps
      <4> QED BY <4>1
    <3> DEFINE call == With(t, args)
               name == Prefix(t) \o "__" \o ToString(Len(end))
               handled == CanHandle(t, functions, hasArrays)
               entry == [call |-> call, name |-> name]
    <3>7. Ordered(rw, t, s).t = call /\ Ordered(rw, t, s).s = end
      BY <3>6
    <3>8. /\ ~handled => r.t = call /\ r.s = end
          /\ handled /\ Cached(end, call) => r.t = Var(NameOf(end, call)) /\ r.s = end
          /\ handled /\ ~Cached(end, call) => r.t = Var(name) /\ r.s = Append(end, entry)
      <4> HIDE DEF call
      <4> QED BY <3>4, <3>7
    <3>9. call \in U /\ end \in Right => worth[call] = val[t]
      BY <1>1, <3>6, ThroughoutKeeps DEF SameNames
    <3>10. \A x : Var(x) \in U => worth[Var(x)] = Named(x, there)
      BY <1>1, NamedWorth
    <3>11. end \in Seq(Entries(U, Names))
      BY <3>6 DEF S, Caches
    <3> HIDE DEF call, name, handled, entry
    <3>12. CASE ~handled
      BY <3>3, <3>6, <3>8, <3>9, <3>12 DEF r
    <3>13. CASE handled /\ Cached(end, call)
      <4>1. call \in U /\ (Stands(end, there, worth) => Named(NameOf(end, call), there) = worth[call])
        BY <3>11, <3>13, CachedIs
      <4> QED BY <3>3, <3>5, <3>6, <3>8, <3>9, <3>10, <3>13, <4>1 DEF r
    <3>14. CASE handled /\ ~Cached(end, call)
      <4>1. r.t = Var(name) /\ r.s = Append(end, entry)
        BY <3>8, <3>14
      <4>2. Append(end, entry) \in Seq(Entries(U, Names))
        BY <3>3, <4>1 DEF S, Caches
      <4>3. entry \in Entries(U, Names)
        BY <3>11, <4>2, LastIn
      <4>4. entry.name = name /\ entry.call = call
        BY DEF entry
      <4>5. call \in U
        BY <4>3, <4>4 DEF Entries
      <4>6. r.s \in Right => Stands(end, there, worth) /\ Named(name, there) = worth[call]
        BY <3>5, <3>11, <4>1, <4>3, <4>4, StandsAppended
      <4> QED BY <3>3, <3>5, <3>6, <3>9, <3>10, <4>1, <4>5, <4>6 DEF r
    <3> QED BY <3>12, <3>13, <3>14
  <2>4. Keeps(rw, t, S, S, Right, U, val, worth)
    BY <1>4, <2>3 DEF Keeps
  <2> QED BY <2>4
<1>6. \A t \in T : t \in P
  <2> HIDE DEF P
  <2> QED BY <1>2, <1>5, DepthInduct
<1>7. \A t \in T, s \in S : rw[<<t, s>>].s \in Right => s \in Right /\ worth[rw[<<t, s>>].t] = val[t]
  BY <1>6 DEF Keeps
<1>8. \A t \in T, s \in S : rw[<<t, s>>].s \in S
  BY <1>4
<1> QED BY <1>7, <1>8

----------------------------------------------------------------------------
(* RewriteDivisionMod: the terms of the constraints.                        *)

LEMMA JoinIn ==
  ASSUME NEW U, Closed(U), NEW op, NEW args, Op(op, args) \in U
  PROVE  \A i \in DOMAIN args : args[i] \in U
<1>1. args \in Seq(U)
  BY OpIn
<1> QED BY <1>1, LenProperties, ElementOfSeq

\* b >= 1, or b =< -1.
LEMMA SignWorth ==
  ASSUME NEW U, NEW env, NEW val, Closed(U), Meaning(U, env, val), NEW b, val[b] \in Int
  PROVE  /\ Ge(b, One) \in U => val[Ge(b, One)] \in BOOLEAN /\ (val[Ge(b, One)] <=> val[b] >= 1)
         /\ Le(b, Minus(Num(0), One)) \in U =>
              /\ val[Le(b, Minus(Num(0), One))] \in BOOLEAN
              /\ val[Le(b, Minus(Num(0), One))] <=> val[b] =< -1
<1>1. One \in U => val[One] = 1
  BY LeafWorth DEF One
<1>2. ASSUME Ge(b, One) \in U
      PROVE  val[Ge(b, One)] \in BOOLEAN /\ (val[Ge(b, One)] <=> val[b] >= 1)
  <2>1. One \in U
    BY <1>2, TwoIn DEF Ge
  <2>2. val[Ge(b, One)] \in BOOLEAN /\ (val[Ge(b, One)] <=> val[b] >= val[One])
    BY <1>2, TwoWorth
  <2> QED BY <1>1, <2>1, <2>2
<1>3. ASSUME Le(b, Minus(Num(0), One)) \in U
      PROVE  /\ val[Le(b, Minus(Num(0), One))] \in BOOLEAN
             /\ val[Le(b, Minus(Num(0), One))] <=> val[b] =< -1
  <2> DEFINE zero == Num(0)
             m == Minus(zero, One)
  <2>1. m \in U
    BY <1>3, TwoIn DEF Le
  <2>2. zero \in U /\ One \in U
    BY <2>1, TwoIn DEF Minus
  <2>3. val[zero] = 0
    BY <2>2, LeafWorth
  <2>4. val[m] = val[zero] - val[One]
    BY <2>1, MinusWorth
  <2>5. val[m] = -1
    BY <1>1, <2>2, <2>3, <2>4
  <2>6. val[Le(b, m)] \in BOOLEAN /\ (val[Le(b, m)] <=> val[b] =< val[m])
    BY <1>3, TwoWorth
  <2> HIDE DEF m
  <2> QED BY <2>5, <2>6 DEF m
<1> QED BY <1>2, <1>3

LEMMA LeWorth ==
  ASSUME NEW U, NEW env, NEW val, Meaning(U, env, val), NEW a, NEW b, Le(a, b) \in U
  PROVE  val[Le(a, b)] \in BOOLEAN /\ (val[Le(a, b)] <=> val[a] =< val[b])
  BY TwoWorth

LEMMA ThreeJoined ==
  ASSUME NEW U, NEW env, NEW val, Closed(U), Meaning(U, env, val), NEW p, NEW q, NEW r,
         And(<<p, q, r>>) \in U
  PROVE  /\ p \in U /\ q \in U /\ r \in U
         /\ val[And(<<p, q, r>>)] \in BOOLEAN
         /\ val[And(<<p, q, r>>)] <=> val[p] /\ val[q] /\ val[r]
<1> DEFINE args == <<p, q, r>>
<1>1. DOMAIN args = {1, 2, 3} /\ args[1] = p /\ args[2] = q /\ args[3] = r
  OBVIOUS
<1> HIDE DEF args
<1>2. val[And(args)] \in BOOLEAN /\ (val[And(args)] <=> \A i \in DOMAIN args : val[args[i]])
  BY JoinedWorth DEF args
<1>3. \A i \in DOMAIN args : args[i] \in U
  BY JoinIn DEF And, args
<1>4. p \in U /\ q \in U /\ r \in U
  BY <1>1, <1>3
<1>5. (\A i \in DOMAIN args : val[args[i]]) <=> val[p] /\ val[q] /\ val[r]
  BY <1>1
<1> QED BY <1>2, <1>4, <1>5 DEF args

LEMMA FourJoined ==
  ASSUME NEW U, NEW env, NEW val, Closed(U), Meaning(U, env, val), NEW p, NEW q, NEW r, NEW s,
         And(<<p, q, r, s>>) \in U
  PROVE  /\ p \in U /\ q \in U /\ r \in U /\ s \in U
         /\ val[And(<<p, q, r, s>>)] \in BOOLEAN
         /\ val[And(<<p, q, r, s>>)] <=> val[p] /\ val[q] /\ val[r] /\ val[s]
<1> DEFINE args == <<p, q, r, s>>
<1>1. DOMAIN args = {1, 2, 3, 4} /\ args[1] = p /\ args[2] = q /\ args[3] = r /\ args[4] = s
  OBVIOUS
<1> HIDE DEF args
<1>2. val[And(args)] \in BOOLEAN /\ (val[And(args)] <=> \A i \in DOMAIN args : val[args[i]])
  BY JoinedWorth DEF args
<1>3. \A i \in DOMAIN args : args[i] \in U
  BY JoinIn DEF And, args
<1>4. p \in U /\ q \in U /\ r \in U /\ s \in U
  BY <1>1, <1>3
<1>5. (\A i \in DOMAIN args : val[args[i]]) <=> val[p] /\ val[q] /\ val[r] /\ val[s]
  BY <1>1
<1> QED BY <1>2, <1>4, <1>5 DEF args

\* b * (q + 1) - 1 and b * (q - 1) - 1.
LEMMA ProductLessOne ==
  ASSUME NEW U, NEW env, NEW val, Closed(U), Meaning(U, env, val), NEW b, NEW q,
         val[b] \in Int, val[q] \in Int
  PROVE  /\ Minus(Times(b, Plus(q, One)), One) \in U =>
              val[Minus(Times(b, Plus(q, One)), One)] = val[b] * (val[q] + 1) - 1
         /\ Minus(Times(b, Minus(q, One)), One) \in U =>
              val[Minus(Times(b, Minus(q, One)), One)] = val[b] * (val[q] - 1) - 1
<1>1. One \in U => val[One] = 1
  BY LeafWorth DEF One
<1>2. ASSUME Minus(Times(b, Plus(q, One)), One) \in U
      PROVE  val[Minus(Times(b, Plus(q, One)), One)] = val[b] * (val[q] + 1) - 1
  <2> DEFINE p == Plus(q, One)
             m == Times(b, p)
  <2>1. m \in U /\ One \in U
    BY <1>2, TwoIn DEF Minus
  <2>2. p \in U
    BY <2>1, TwoIn DEF Times
  <2>3. val[p] = val[q] + 1
    <3>1. val[p] = val[q] + val[One]
      BY <1>1, <2>1, <2>2, PlusWorth
    <3> QED BY <1>1, <2>1, <3>1
  <2>4. val[m] = val[b] * val[p]
    BY <2>1, TimesWorth
  <2>5. val[Minus(m, One)] = val[m] - val[One]
    BY <1>2, MinusWorth
  <2> HIDE DEF p, m
  <2>6. val[Minus(m, One)] = val[b] * (val[q] + 1) - 1
    BY <1>1, <2>1, <2>3, <2>4, <2>5, Zenon
  <2> QED BY <2>6 DEF m, p
<1>3. ASSUME Minus(Times(b, Minus(q, One)), One) \in U
      PROVE  val[Minus(Times(b, Minus(q, One)), One)] = val[b] * (val[q] - 1) - 1
  <2> DEFINE p == Minus(q, One)
             m == Times(b, p)
  <2>1. m \in U /\ One \in U
    BY <1>3, TwoIn DEF Minus
  <2>2. p \in U
    BY <2>1, TwoIn DEF Times
  <2>3. val[p] = val[q] - 1
    <3>1. val[p] = val[q] - val[One]
      BY <2>2, MinusWorth
    <3> QED BY <1>1, <2>1, <3>1, Zenon
  <2>4. val[m] = val[b] * val[p]
    BY <2>1, TimesWorth
  <2>5. val[Minus(m, One)] = val[m] - val[One]
    BY <1>3, MinusWorth
  <2> HIDE DEF p, m
  <2>6. val[Minus(m, One)] = val[b] * (val[q] - 1) - 1
    BY <1>1, <2>1, <2>3, <2>4, <2>5, Zenon
  <2> QED BY <2>6 DEF m, p
<1> QED BY <1>2, <1>3

\* rewrite_division_modulo.cpp: the constraint of a quotient says that it is SMT-LIB's.
LEMMA QuotientConstraintWorth ==
  ASSUME NEW U, NEW env, NEW val, Closed(U), Meaning(U, env, val), NEW a, NEW b, NEW q,
         val[a] \in Int, val[b] \in Int, val[b] # 0, val[q] \in Int,
         QuotientConstraint(a, b, q) \in U
  PROVE  val[QuotientConstraint(a, b, q)] <=> val[q] = Quotient(val[a], val[b])
<1> DEFINE pos == Ge(b, One)
           neg == Le(b, Minus(Num(0), One))
           low == Le(Times(b, q), a)
           over == Minus(Times(b, Plus(q, One)), One)
           under == Minus(Times(b, Minus(q, One)), One)
           up == Le(a, over)
           down == Le(a, under)
           first == And(<<pos, low, up>>)
           second == And(<<neg, low, down>>)
<1>1. QuotientConstraint(a, b, q) = Or(<<first, second>>)
  BY DEF QuotientConstraint
<1>2. first \in U /\ second \in U
  BY <1>1, TwoIn DEF Or
<1>3. val[Or(<<first, second>>)] <=> val[first] \/ val[second]
  BY <1>1, TwoJoined
<1>4. pos \in U /\ low \in U /\ up \in U /\ (val[first] <=> val[pos] /\ val[low] /\ val[up])
  BY <1>2, ThreeJoined
<1>5. neg \in U /\ down \in U /\ (val[second] <=> val[neg] /\ val[low] /\ val[down])
  BY <1>2, ThreeJoined
<1>6. (val[pos] <=> val[b] >= 1) /\ (val[neg] <=> val[b] =< -1)
  BY <1>4, <1>5, SignWorth
<1>7. Times(b, q) \in U /\ over \in U /\ under \in U
  BY <1>4, <1>5, TwoIn DEF Le
<1>8. val[Times(b, q)] = val[b] * val[q]
  BY <1>7, TimesWorth
<1>9. val[over] = val[b] * (val[q] + 1) - 1 /\ val[under] = val[b] * (val[q] - 1) - 1
  BY <1>7, ProductLessOne
<1>10. /\ val[low] <=> val[Times(b, q)] =< val[a]
       /\ val[up] <=> val[a] =< val[over]
       /\ val[down] <=> val[a] =< val[under]
  BY <1>4, <1>5, LeWorth
<1> DEFINE va == val[a]
           vb == val[b]
           vq == val[q]
<1>11. (\/ vb >= 1 /\ vb * vq =< va /\ va =< vb * (vq + 1) - 1
        \/ vb =< -1 /\ vb * vq =< va /\ va =< vb * (vq - 1) - 1)
         <=> vq = Quotient(va, vb)
  BY QuotientBounds
<1> HIDE DEF pos, neg, low, over, under, up, down, first, second
<1> QED BY <1>1, <1>3, <1>4, <1>5, <1>6, <1>8, <1>9, <1>10, <1>11, Zenon

LEMMA EqWorth ==
  ASSUME NEW U, NEW env, NEW val, Meaning(U, env, val), NEW a, NEW b, Eq(a, b) \in U
  PROVE  val[Eq(a, b)] \in BOOLEAN /\ (val[Eq(a, b)] <=> val[a] = val[b])
  BY TwoWorth

\* And the constraint of a remainder, whose quotient is right, that it is SMT-LIB's.
LEMMA RemainderConstraintWorth ==
  ASSUME NEW U, NEW env, NEW val, Closed(U), Meaning(U, env, val), NEW a, NEW b, NEW q, NEW r,
         val[a] \in Int, val[b] \in Int, val[b] # 0, val[r] \in Int,
         val[q] = Quotient(val[a], val[b]), RemainderConstraint(a, b, q, r) \in U
  PROVE  val[RemainderConstraint(a, b, q, r)] <=> val[r] = Remainder(val[a], val[b])
<1> DEFINE zero == Num(0)
           bq == Times(b, q)
           whole == Plus(bq, r)
           sum == Eq(a, whole)
           pos == Ge(b, One)
           neg == Le(b, Minus(Num(0), One))
           low == Le(zero, r)
           most == Minus(b, One)
           opposite == Minus(zero, b)
           least == Minus(opposite, One)
           up == Le(r, most)
           down == Le(r, least)
           first == And(<<pos, low, up, sum>>)
           second == And(<<neg, low, down, sum>>)
<1>1. RemainderConstraint(a, b, q, r) = Or(<<first, second>>)
  BY DEF RemainderConstraint
<1>2. first \in U /\ second \in U
  BY <1>1, TwoIn DEF Or
<1>3. val[Or(<<first, second>>)] <=> val[first] \/ val[second]
  BY <1>1, TwoJoined
<1>4. /\ pos \in U /\ low \in U /\ up \in U /\ sum \in U
      /\ val[first] <=> val[pos] /\ val[low] /\ val[up] /\ val[sum]
  BY <1>2, FourJoined
<1>5. /\ neg \in U /\ down \in U
      /\ val[second] <=> val[neg] /\ val[low] /\ val[down] /\ val[sum]
  BY <1>2, FourJoined
<1>6. (val[pos] <=> val[b] >= 1) /\ (val[neg] <=> val[b] =< -1)
  BY <1>4, <1>5, SignWorth
<1>7. zero \in U /\ most \in U /\ least \in U /\ whole \in U
  BY <1>4, <1>5, TwoIn DEF Le, Eq
<1>8. opposite \in U /\ One \in U /\ bq \in U
  BY <1>7, TwoIn DEF Minus, Plus
<1>9. val[zero] = 0 /\ val[One] = 1
  BY <1>7, <1>8, LeafWorth DEF One
<1>10. val[most] = val[b] - val[One]
  BY <1>7, MinusWorth
<1>11. val[opposite] = val[zero] - val[b]
  BY <1>8, MinusWorth
<1>12. val[least] = val[opposite] - val[One]
  BY <1>7, MinusWorth
<1>13. val[bq] = val[b] * val[q]
  BY <1>8, TimesWorth
<1>14. val[q] \in Int
  BY QuotientType
<1>15. val[bq] \in Int
  BY <1>13, <1>14
<1>16. val[whole] = val[bq] + val[r]
  BY <1>7, <1>15, PlusWorth
<1>17. /\ val[low] <=> val[zero] =< val[r]
       /\ val[up] <=> val[r] =< val[most]
       /\ val[down] <=> val[r] =< val[least]
  BY <1>4, <1>5, LeWorth
<1>18. val[sum] <=> val[a] = val[whole]
  BY <1>4, EqWorth
<1> DEFINE va == val[a]
           vb == val[b]
           vq == val[q]
           vr == val[r]
<1>19. (\/ vb >= 1 /\ 0 =< vr /\ vr =< vb - 1 /\ va = vb * vq + vr
        \/ vb =< -1 /\ 0 =< vr /\ vr =< (0 - vb) - 1 /\ va = vb * vq + vr)
         <=> vr = Remainder(va, vb)
  BY RemainderBounds
<1> HIDE DEF zero, bq, whole, sum, pos, neg, low, most, opposite, least, up, down, first, second
<1>20. /\ val[most] = vb - 1 /\ val[least] = (0 - vb) - 1 /\ val[whole] = vb * vq + vr
  BY <1>9, <1>10, <1>11, <1>12, <1>13, <1>16, Zenon
<1>21. /\ val[low] <=> 0 =< vr
       /\ val[up] <=> vr =< vb - 1
       /\ val[down] <=> vr =< (0 - vb) - 1
       /\ val[sum] <=> va = vb * vq + vr
  BY <1>9, <1>17, <1>18, <1>20, Zenon
<1>22. val[Or(<<first, second>>)] <=> vr = Remainder(va, vb)
  BY <1>3, <1>4, <1>5, <1>6, <1>19, <1>21, ZenonT(60)
<1> QED BY <1>1, <1>22, Zenon

----------------------------------------------------------------------------
(* RewriteDivisionMod: terms of any size.                                   *)

Holding(constraints, worth) == \A i \in DOMAIN constraints : worth[constraints[i]]

LEMMA HoldingAppended ==
  ASSUME NEW X, NEW constraints \in Seq(X), NEW c \in X, NEW worth
  PROVE  Holding(Append(constraints, c), worth) <=> Holding(constraints, worth) /\ worth[c]
<1> DEFINE after == Append(constraints, c)
           n == Len(constraints)
<1>1. n \in Nat /\ DOMAIN constraints = 1..n
  BY LenProperties
<1>2. /\ after \in Seq(X) /\ Len(after) = n + 1
      /\ \A i \in 1..n : after[i] = constraints[i]
      /\ after[n + 1] = c
  BY AppendProperties
<1> HIDE DEF after, n
<1>3. DOMAIN after = 1..(n + 1)
  BY <1>2, LenProperties
<1>4. \A i \in 1..(n + 1) : i = n + 1 \/ i \in 1..n
  BY <1>1
<1>5. n + 1 \in 1..(n + 1) /\ \A i \in 1..n : i \in 1..(n + 1)
  BY <1>1
<1>6. Holding(after, worth) <=> Holding(constraints, worth) /\ worth[c]
  BY <1>1, <1>2, <1>3, <1>4, <1>5 DEF Holding
<1> QED BY <1>6 DEF after

\* What RewriteDivisionMod keeps of a line: its cache, and the constraints of the line.
Kept(U, Names) == [cache : Caches(U, Names), constraints : Seq(U)]

\* The constraints of the line say, given what was known before, that the names stand for
\* their divisions.
Says(s, given, there, worth) ==
  Stands(s.cache, there, worth) <=> given /\ Holding(s.constraints, worth)

\* Then c says that the name of entry stands for its call.
Binds(c, entry, s, there, worth) ==
  Stands(s.cache, there, worth) => (worth[c] <=> Named(entry.name, there) = worth[entry.call])

\* One more name, with its constraint.
WithOneMore(s, entry, c) ==
  [cache |-> Append(s.cache, entry), constraints |-> Append(s.constraints, c)]

LEMMA FreshSays ==
  ASSUME NEW U, NEW Names, NEW there, NEW worth, NEW given,
         NEW s \in Kept(U, Names), NEW entry \in Entries(U, Names), NEW c \in U,
         Binds(c, entry, s, there, worth)
  PROVE  LET r == WithOneMore(s, entry, c)
         IN  /\ Says(s, given, there, worth) => Says(r, given, there, worth)
             /\ Stands(r.cache, there, worth) =>
                  Stands(s.cache, there, worth) /\ Named(entry.name, there) = worth[entry.call]
<1> DEFINE r == WithOneMore(s, entry, c)
<1>1. s.cache \in Seq(Entries(U, Names)) /\ s.constraints \in Seq(U)
  BY DEF Kept, Caches
<1>2. r.cache = Append(s.cache, entry) /\ r.constraints = Append(s.constraints, c)
  BY DEF WithOneMore
<1> HIDE DEF r
<1>3. Stands(r.cache, there, worth)
        <=> Stands(s.cache, there, worth) /\ Named(entry.name, there) = worth[entry.call]
  BY <1>1, <1>2, StandsAppended
<1>4. Holding(r.constraints, worth) <=> Holding(s.constraints, worth) /\ worth[c]
  BY <1>1, <1>2, HoldingAppended
<1> QED BY <1>3, <1>4 DEF Says, Binds, r

IntegerNames(Names, there) == \A x \in Names : Named(x, there) \in Int

\* The operands of a division are integers, its divisor is not 0.
Divisible(a, b, worth) == worth[a] \in Int /\ worth[b] \in Int /\ worth[b] # 0

\* They are when what was kept is right.
DivisibleIn(s, a, b, there, worth) == Stands(s.cache, there, worth) => Divisible(a, b, worth)

\* All is there to make r of a, b and s.
Ready(U, Names, there, worth, s, a, b, r) ==
  /\ Closed(U) /\ Meaning(U, there, worth) /\ IntegerNames(Names, there)
  /\ s \in Kept(U, Names) /\ DivisibleIn(s, a, b, there, worth)
  /\ r.t \in U /\ r.s \in Kept(U, Names)

LEMMA CallWorth ==
  ASSUME NEW U, NEW env, NEW val, Meaning(U, env, val), NEW a, NEW b
  PROVE  /\ Op("div", <<a, b>>) \in U => val[Op("div", <<a, b>>)] = Quotient(val[a], val[b])
         /\ Op("mod", <<a, b>>) \in U => val[Op("mod", <<a, b>>)] = Remainder(val[a], val[b])
<1> DEFINE v == [i \in DOMAIN <<a, b>> |-> val[<<a, b>>[i]]]
<1>1. v = <<val[a], val[b]>>
  OBVIOUS
<1>2. v[1] = val[a] /\ v[2] = val[b]
  BY <1>1
<1>3. \A op : op \notin {"num", "var", "call"} /\ Op(op, <<a, b>>) \in U =>
        val[Op(op, <<a, b>>)] = Operation(op, v)
  BY OpWorth
<1> HIDE DEF v
<1>4. \A op : op \notin {"num", "var", "call"} => Applied(op, 0, 0, v) = Operation(op, v)
  BY Nameless
<1>5. /\ Op("div", <<a, b>>) \in U => val[Op("div", <<a, b>>)] = Applied("div", 0, 0, v)
      /\ Op("mod", <<a, b>>) \in U => val[Op("mod", <<a, b>>)] = Applied("mod", 0, 0, v)
  BY <1>3, <1>4
<1>6. Applied("div", 0, 0, v) = Quotient(v[1], v[2]) /\ Applied("mod", 0, 0, v) = Remainder(v[1], v[2])
  BY Computed, Zenon
<1> QED BY <1>2, <1>5, <1>6, Zenon

LEMMA BeforeLastIn ==
  ASSUME NEW X, NEW Y, NEW c \in Seq(Y), NEW e, Append(c, e) \in Seq(X)
  PROVE  c \in Seq(X)
<1> DEFINE after == Append(c, e)
           n == Len(c)
<1>1. n \in Nat /\ DOMAIN c = 1..n /\ c \in Seq(Y \cup {e})
  BY LenProperties
<1>2. Len(after) = n + 1 /\ \A i \in 1..n : after[i] = c[i]
  BY <1>1, AppendProperties
<1>3. after \in Seq(X)
  OBVIOUS
<1>4. c \in [1..n -> Y]
  BY <1>1, LenProperties
<1> HIDE DEF after, n
<1>5. \A i \in 1..n : i \in 1..(n + 1)
  BY <1>1
<1>6. \A i \in 1..n : c[i] \in X
  BY <1>2, <1>3, <1>5, ElementOfSeq
<1>7. c \in [1..n -> X]
  BY <1>4, <1>6
<1> QED BY <1>1, <1>7, FunctionIsSeq

\* GetOrCreateDivVar: its variable stands for the quotient.
LEMMA DivVarKeeps ==
  ASSUME NEW U, NEW there, NEW worth, NEW Names, NEW given, NEW s, NEW a, NEW b, NEW r,
         Ready(U, Names, there, worth, s, a, b, r), r = GetOrCreateDivVar(a, b, s)
  PROVE  /\ Says(s, given, there, worth) => Says(r.s, given, there, worth)
         /\ Stands(r.s.cache, there, worth) =>
              Stands(s.cache, there, worth) /\ worth[r.t] = Quotient(worth[a], worth[b])
         /\ r.t.op = "var"
<1> DEFINE call == Op("div", <<a, b>>)
           name == "div_aux" \o "_" \o ToString(Len(s.cache))
           entry == [call |-> call, name |-> name]
           c == QuotientConstraint(a, b, Var(name))
<1>0. /\ Closed(U) /\ Meaning(U, there, worth) /\ IntegerNames(Names, there)
      /\ s \in Kept(U, Names) /\ DivisibleIn(s, a, b, there, worth)
      /\ r.t \in U /\ r.s \in Kept(U, Names)
  BY DEF Ready
<1>a. s.cache \in Seq(Entries(U, Names)) /\ s.constraints \in Seq(U)
  BY <1>0 DEF Kept, Caches
<1>1. /\ Cached(s.cache, call) => r.t = Var(NameOf(s.cache, call)) /\ r.s = s
      /\ ~Cached(s.cache, call) =>
           r.t = Var(name) /\ r.s = [cache |-> Append(s.cache, entry), constraints |-> Append(s.constraints, c)]
  BY <1>0 DEF GetOrCreateDivVar, Fresh, NextVar, Var, Term
<1>2. call \in U => worth[call] = Quotient(worth[a], worth[b])
  BY <1>0, CallWorth
<1>3. \A x : Var(x) \in U => worth[Var(x)] = Named(x, there)
  BY <1>0, NamedWorth
<1>4. \A x : Var(x).op = "var"
  BY <1>0 DEF Var, Term
<1>5. entry.name = name /\ entry.call = call
  OBVIOUS
<1> HIDE DEF call, name, entry, c
<1>6. CASE Cached(s.cache, call)
  <2>1. call \in U /\ (Stands(s.cache, there, worth) => Named(NameOf(s.cache, call), there) = worth[call])
    BY <1>0, <1>a, <1>6, CachedIs
  <2> QED BY <1>0, <1>1, <1>2, <1>3, <1>4, <1>6, <2>1
<1>7. CASE ~Cached(s.cache, call)
  <2>1. r.t = Var(name)
        /\ r.s = [cache |-> Append(s.cache, entry), constraints |-> Append(s.constraints, c)]
    BY <1>0, <1>1, <1>7
  <2>2. Append(s.cache, entry) \in Seq(Entries(U, Names)) /\ Append(s.constraints, c) \in Seq(U)
    BY <1>0, <2>1 DEF Kept, Caches
  <2>3. entry \in Entries(U, Names) /\ c \in U
    BY <1>0, <1>a, <2>2, LastIn
  <2>4. call \in U /\ name \in Names
    BY <1>0, <1>5, <2>3 DEF Entries
  <2>5. worth[Var(name)] = Named(name, there) /\ Named(name, there) \in Int
    BY <1>0, <1>3, <2>1, <2>4 DEF IntegerNames
  <2>6. Binds(c, entry, s, there, worth)
    <3> SUFFICES ASSUME Stands(s.cache, there, worth)
                 PROVE  worth[c] <=> Named(entry.name, there) = worth[entry.call]
      BY <1>0 DEF Binds
    <3>1. worth[a] \in Int /\ worth[b] \in Int /\ worth[b] # 0 /\ worth[Var(name)] \in Int
      BY <1>0, <2>5 DEF Divisible, DivisibleIn
    <3>2. worth[c] <=> worth[Var(name)] = Quotient(worth[a], worth[b])
      BY <1>0, <2>3, <3>1, QuotientConstraintWorth DEF c
    <3> QED BY <1>0, <1>2, <1>5, <2>4, <2>5, <3>2
  <2>7. /\ Says(s, given, there, worth) => Says(r.s, given, there, worth)
        /\ Stands(r.s.cache, there, worth) =>
              Stands(s.cache, there, worth) /\ Named(entry.name, there) = worth[entry.call]
    <3>1. r.s = WithOneMore(s, entry, c)
      BY <1>0, <2>1 DEF WithOneMore
    <3> QED BY <1>0, <2>3, <2>6, <3>1, FreshSays
  <2> QED BY <1>0, <1>2, <1>4, <1>5, <2>1, <2>4, <2>5, <2>7
<1> QED BY <1>0, <1>6, <1>7

LEMMA RemainderConstraintIn ==
  ASSUME NEW U, Closed(U), NEW a, NEW b, NEW q, NEW r, RemainderConstraint(a, b, q, r) \in U
  PROVE  q \in U
<1> DEFINE bq == Times(b, q)
           whole == Plus(bq, r)
           sum == Eq(a, whole)
           pos == Ge(b, One)
           low == Le(Num(0), r)
           up == Le(r, Minus(b, One))
           args == <<pos, low, up, sum>>
<1>1. And(args) \in U
  BY TwoIn DEF RemainderConstraint, Or
<1>2. 4 \in DOMAIN args /\ args[4] = sum
  OBVIOUS
<1>3. sum \in U
  <2> HIDE DEF args, sum
  <2> QED BY <1>1, <1>2, JoinIn DEF And
<1>4. whole \in U
  BY <1>3, TwoIn DEF Eq
<1>5. bq \in U
  BY <1>4, TwoIn DEF Plus
<1> QED BY <1>5, TwoIn DEF Times

\* GetOrCreateModVar: its variable stands for the remainder.
LEMMA ModVarKeeps ==
  ASSUME NEW U, NEW there, NEW worth, NEW Names, NEW given, NEW s, NEW a, NEW b, NEW r,
         Ready(U, Names, there, worth, s, a, b, r), r = GetOrCreateModVar(a, b, s)
  PROVE  /\ Says(s, given, there, worth) => Says(r.s, given, there, worth)
         /\ Stands(r.s.cache, there, worth) =>
              Stands(s.cache, there, worth) /\ worth[r.t] = Remainder(worth[a], worth[b])
         /\ r.t.op = "var"
<1> DEFINE call == Op("mod", <<a, b>>)
           q == GetOrCreateDivVar(a, b, s)
           name == "mod_aux" \o "_" \o ToString(Len(q.s.cache))
           entry == [call |-> call, name |-> name]
           c == RemainderConstraint(a, b, q.t, Var(name))
<1>0. /\ Closed(U) /\ Meaning(U, there, worth) /\ IntegerNames(Names, there)
      /\ s \in Kept(U, Names) /\ DivisibleIn(s, a, b, there, worth)
      /\ r.t \in U /\ r.s \in Kept(U, Names)
  BY DEF Ready
<1>a. s.cache \in Seq(Entries(U, Names)) /\ s.constraints \in Seq(U)
  BY <1>0 DEF Kept, Caches
<1> HIDE DEF q
<1>1. /\ Cached(s.cache, call) => r.t = Var(NameOf(s.cache, call)) /\ r.s = s
      /\ ~Cached(s.cache, call) =>
           r.t = Var(name) /\ r.s = [cache |-> Append(q.s.cache, entry),
                                     constraints |-> Append(q.s.constraints, c)]
  BY <1>0 DEF GetOrCreateModVar, Fresh, NextVar, Var, Term, q
<1>2. call \in U => worth[call] = Remainder(worth[a], worth[b])
  BY <1>0, CallWorth
<1>3. \A x : Var(x) \in U => worth[Var(x)] = Named(x, there)
  BY <1>0, NamedWorth
<1>4. \A x : Var(x).op = "var"
  BY <1>0 DEF Var, Term
<1>5. entry.name = name /\ entry.call = call
  OBVIOUS
<1> HIDE DEF call, name, entry, c
<1>6. CASE Cached(s.cache, call)
  <2>1. call \in U /\ (Stands(s.cache, there, worth) => Named(NameOf(s.cache, call), there) = worth[call])
    BY <1>0, <1>a, <1>6, CachedIs
  <2> QED BY <1>0, <1>1, <1>2, <1>3, <1>4, <1>6, <2>1
<1>7. CASE ~Cached(s.cache, call)
  <2>1. r.t = Var(name)
        /\ r.s = [cache |-> Append(q.s.cache, entry), constraints |-> Append(q.s.constraints, c)]
    BY <1>0, <1>1, <1>7
  <2>2. Append(q.s.cache, entry) \in Seq(Entries(U, Names)) /\ Append(q.s.constraints, c) \in Seq(U)
    BY <1>0, <2>1 DEF Kept, Caches
  <2>3. q.s \in Kept(U, Names)
    <3> DEFINE div == Op("div", <<a, b>>)
               made == [call |-> div, name |-> "div_aux" \o "_" \o ToString(Len(s.cache))]
               bound == QuotientConstraint(a, b, Var("div_aux" \o "_" \o ToString(Len(s.cache))))
    <3>1. \/ q.s = s
          \/ q.s = [cache |-> Append(s.cache, made), constraints |-> Append(s.constraints, bound)]
      BY <1>0 DEF GetOrCreateDivVar, Fresh, NextVar, Var, Term, q
    <3> HIDE DEF made, bound
    <3>2. CASE q.s = s
      BY <1>0, <3>2
    <3>3. CASE q.s = [cache |-> Append(s.cache, made), constraints |-> Append(s.constraints, bound)]
      <4>1. q.s.cache = Append(s.cache, made) /\ q.s.constraints = Append(s.constraints, bound)
        BY <1>0, <3>3
      <4>2. q.s.cache \in Seq(Entries(U, Names) \cup {made})
        <5>1. s.cache \in Seq(Entries(U, Names) \cup {made})
          BY <1>0, <1>a
        <5> QED BY <1>0, <4>1, <5>1, AppendProperties
      <4>3. q.s.constraints \in Seq(U \cup {bound})
        <5>1. s.constraints \in Seq(U \cup {bound})
          BY <1>0, <1>a
        <5> QED BY <1>0, <4>1, <5>1, AppendProperties
      <4>4. q.s.cache \in Seq(Entries(U, Names)) /\ q.s.constraints \in Seq(U)
        BY <1>0, <2>2, <4>2, <4>3, BeforeLastIn
      <4>5. q.s = [cache |-> q.s.cache, constraints |-> q.s.constraints]
        BY <1>0, <3>3
      <4> QED BY <1>0, <4>4, <4>5 DEF Kept, Caches
    <3> QED BY <1>0, <3>1, <3>2, <3>3
  <2>4. q.s.cache \in Seq(Entries(U, Names)) /\ q.s.constraints \in Seq(U)
    BY <1>0, <2>3 DEF Kept, Caches
  <2>5. entry \in Entries(U, Names) /\ c \in U
    BY <1>0, <2>2, <2>4, LastIn
  <2>6. q.t \in U
    BY <1>0, <2>5, RemainderConstraintIn DEF c
  <2>7. /\ Says(s, given, there, worth) => Says(q.s, given, there, worth)
        /\ Stands(q.s.cache, there, worth) =>
             Stands(s.cache, there, worth) /\ worth[q.t] = Quotient(worth[a], worth[b])
    <3>1. Ready(U, Names, there, worth, s, a, b, q)
      BY <1>0, <2>3, <2>6 DEF Ready
    <3> QED BY <3>1, DivVarKeeps DEF q
  <2>8. call \in U /\ name \in Names
    BY <1>0, <1>5, <2>5 DEF Entries
  <2>9. worth[Var(name)] = Named(name, there) /\ Named(name, there) \in Int
    BY <1>0, <1>3, <2>1, <2>8 DEF IntegerNames
  <2>10. Binds(c, entry, q.s, there, worth)
    <3> SUFFICES ASSUME Stands(q.s.cache, there, worth)
                 PROVE  worth[c] <=> Named(entry.name, there) = worth[entry.call]
      BY <1>0 DEF Binds
    <3>1. /\ worth[a] \in Int /\ worth[b] \in Int /\ worth[b] # 0 /\ worth[Var(name)] \in Int
          /\ worth[q.t] = Quotient(worth[a], worth[b])
      BY <1>0, <2>7, <2>9 DEF Divisible, DivisibleIn
    <3>2. worth[c] <=> worth[Var(name)] = Remainder(worth[a], worth[b])
      BY <1>0, <2>5, <3>1, RemainderConstraintWorth DEF c
    <3> QED BY <1>0, <1>2, <1>5, <2>8, <2>9, <3>2
  <2>11. /\ Says(q.s, given, there, worth) => Says(r.s, given, there, worth)
         /\ Stands(r.s.cache, there, worth) =>
              Stands(q.s.cache, there, worth) /\ Named(entry.name, there) = worth[entry.call]
    <3>1. r.s = WithOneMore(q.s, entry, c)
      BY <1>0, <2>1 DEF WithOneMore
    <3> DEFINE before == q.s
               after == WithOneMore(before, entry, c)
    <3>2. before \in Kept(U, Names) /\ Binds(c, entry, before, there, worth)
      BY <1>0, <2>3, <2>10
    <3> HIDE DEF before
    <3>3. /\ Says(before, given, there, worth) => Says(after, given, there, worth)
          /\ Stands(after.cache, there, worth) =>
               Stands(before.cache, there, worth) /\ Named(entry.name, there) = worth[entry.call]
      BY <1>0, <2>5, <3>2, FreshSays
    <3> QED BY <1>0, <3>1, <3>3 DEF before
  <2> QED BY <1>0, <1>2, <1>4, <1>5, <2>1, <2>7, <2>8, <2>9, <2>11
<1> QED BY <1>0, <1>6, <1>7

LEMMA FoldedIs ==
  ASSUME NEW op \in {"div", "mod"}, NEW a \in Nat, NEW b \in Nat
  PROVE  \E k \in Nat : /\ Folded(op, a, b) = Num(k)
                        /\ b # 0 => k = IF op = "div" THEN Quotient(a, b) ELSE Remainder(a, b)
<1>1. CASE b = 0
  <2>1. Folded(op, a, b) = Num(0)
    BY <1>1 DEF Folded
  <2> QED BY <1>1, <2>1
<1>2. CASE b # 0
  <2>1. b > 0 /\ a \in Int /\ b \in Int
    BY <1>2
  <2>2. a % b \in Nat /\ a \div b \in Nat
    <3>1. a \div b \in Int /\ a % b \in Int /\ a = b * (a \div b) + (a % b) /\ 0 =< a % b /\ a % b < b
      BY <2>1, DivMod
    <3> DEFINE d == a \div b
               m == a % b
    <3> HIDE DEF d, m
    <3>2. d \in Int /\ m \in Int /\ a = b * d + m /\ 0 =< m /\ m < b
      BY <3>1 DEF d, m
    <3>3. ASSUME d < 0 PROVE FALSE
      <4>1. b * d + b =< b * 0
        BY <2>1, <3>2, <3>3, NextMultiple
      <4>2. b * 0 = 0 /\ b * d \in Int
        BY <3>2
      <4> QED BY <2>1, <3>2, <4>1, <4>2
    <3>4. d >= 0
      BY <3>2, <3>3
    <3> QED BY <3>2, <3>4 DEF d, m
  <2>3. Quotient(a, b) = a \div b /\ Remainder(a, b) = a % b
    BY <2>1 DEF Quotient, Remainder
  <2>4. Truncated(a, b) = a \div b
    <3>1. ~(a < 0) /\ ~(b < 0)
      BY <2>1
    <3>2. (a < 0 <=> b < 0) /\ (IF a < 0 THEN -a ELSE a) = a /\ (IF b < 0 THEN -b ELSE b) = b
      BY <3>1
    <3> QED BY <3>2, Zenon DEF Truncated
  <2>5. Folded(op, a, b) = Num(IF op = "div" THEN a \div b ELSE a % b)
    BY <1>2, <2>3, <2>4 DEF Folded
  <2> QED BY <2>2, <2>3, <2>5
<1> QED BY <1>1, <1>2

LEMMA NumWorth ==
  ASSUME NEW T, NEW env, NEW val, Meaning(T, env, val), NEW t \in T, t.op = "num"
  PROVE  val[t] = t.n
<1>1. PICK v, x : val[t] = Applied("num", t.n, x, v)
  BY DEF Meaning
<1> QED BY <1>1, Leaves

LEMMA DivisionWorth ==
  ASSUME NEW T, NEW env, NEW val, Meaning(T, env, val), NEW t \in T, DOMAIN t.args = 1..2
  PROVE  /\ t.op = "div" => val[t] = Quotient(val[t.args[1]], val[t.args[2]])
         /\ t.op = "mod" => val[t] = Remainder(val[t.args[1]], val[t.args[2]])
<1> DEFINE v == [i \in DOMAIN t.args |-> val[t.args[i]]]
<1>1. v[1] = val[t.args[1]] /\ v[2] = val[t.args[2]]
  OBVIOUS
<1>2. val[t] = Applied(t.op, t.n, Named(t.name, env), v)
  BY DEF Meaning
<1> HIDE DEF v
<1>3. t.op = "div" => val[t] = Quotient(v[1], v[2])
  BY <1>2, Computed
<1>4. t.op = "mod" => val[t] = Remainder(v[1], v[2])
  BY <1>2, Computed
<1> QED BY <1>1, <1>3, <1>4

\* rw is RewriteDivisionMod on T.
Divides(rw, T, U, states) ==
  /\ rw \in [T \X states -> Results(U, states)]
  /\ \A t \in T, s \in states : rw[<<t, s>>] = WithoutDivMod(t, Ordered(rw, t, s))

\* The divisions of T are of integers by integers other than 0; a numeral has no sign.
IntegerDivisions(T, val) ==
  \A t \in T : /\ t.op \in {"div", "mod"} => /\ Len(t.args) = 2
                                             /\ Divisible(t.args[1], t.args[2], val)
               /\ t.op = "num" => t.n \in Nat

Saying(U, Names, given, there, worth) == {s \in Kept(U, Names) : Says(s, given, there, worth)}
Standing(U, Names, there, worth) == {s \in Kept(U, Names) : Stands(s.cache, there, worth)}
Unsigned(U) == {u \in U : u.op = "num" => u.n \in Nat}

LEMMA DivModKeeps ==
  ASSUME NEW T, NEW env, NEW val, Reading(T, env, val), IntegerDivisions(T, val),
         NEW U, NEW there, NEW worth, Reading(U, there, worth), SameNames(T, env, there),
         NEW Names, IntegerNames(Names, there),
         NEW rw, Divides(rw, T, U, Kept(U, Names)), NEW given
  PROVE  \A t \in T : Keeps(rw, t, Kept(U, Names), Saying(U, Names, given, there, worth),
                           Standing(U, Names, there, worth), Unsigned(U), val, worth)
<1> DEFINE S == Kept(U, Names)
           Sound == Saying(U, Names, given, there, worth)
           Right == Standing(U, Names, there, worth)
           Good == Unsigned(U)
           P == {t \in T : Keeps(rw, t, S, Sound, Right, Good, val, worth)}
<1>1. Closed(T) /\ Meaning(T, env, val) /\ Closed(U) /\ Meaning(U, there, worth)
  BY DEF Reading
<1>2. PICK depth : Deep(T, depth)
  BY DEF Reading
<1>3. \A t \in T, s \in S : rw[<<t, s>>] \in Results(U, S)
  BY DEF Divides
<1>4. \A t \in T, s \in S : rw[<<t, s>>].t \in U /\ rw[<<t, s>>].s \in S
  BY <1>3 DEF Results
<1>5. /\ \A x : x \in Right <=> x \in S /\ Stands(x.cache, there, worth)
      /\ \A x : x \in Sound <=> x \in S /\ Says(x, given, there, worth)
      /\ \A x : x \in Good <=> x \in U /\ (x.op = "num" => x.n \in Nat)
  BY DEF Saying, Standing, Unsigned
<1>6. ASSUME NEW t \in T, \A u \in T : depth[u] < depth[t] => u \in P PROVE t \in P
  <2>1. t.args \in Seq(T) /\ DOMAIN t.args = 1..Len(t.args)
    BY <1>1, Below DEF Closed
  <2>2. \A i \in DOMAIN t.args : t.args[i] \in P
    BY <1>1, <1>2, <1>6, Below DEF Deep
  <2> DEFINE AsWell(s) == LET r == rw[<<t, s>>]
                          IN  /\ s \in Sound => r.s \in Sound
                              /\ r.s \in Right => s \in Right /\ worth[r.t] = val[t]
                              /\ r.t \in Good
  <2>3. ASSUME NEW s \in S PROVE AsWell(s)
    <3> DEFINE r == rw[<<t, s>>]
    <3>1. AllKeep(rw, T, U, t, S, Sound, Right, Good, val, worth)
      BY <2>1, <2>2 DEF AllKeep, Divides
    <3>2. r.t \in U /\ r.s \in S
      BY <1>4
    <3>3. r = LET q == Ordered(rw, t, s)
                  a == q.t.args[1]
                  b == q.t.args[2]
              IN  CASE t.op \notin {"div", "mod"} -> q
                    [] t.op \in {"div", "mod"} /\ a.op = "num" /\ b.op = "num" ->
                         [t |-> Folded(t.op, a.n, b.n), s |-> q.s]
                    [] t.op = "div" /\ ~(a.op = "num" /\ b.op = "num") -> GetOrCreateDivVar(a, b, q.s)
                    [] t.op = "mod" /\ ~(a.op = "num" /\ b.op = "num") -> GetOrCreateModVar(a, b, q.s)
      <4>1. r = WithoutDivMod(t, Ordered(rw, t, s))
        BY Zenon DEF Divides
      <4> HIDE DEF r
      <4> QED BY <4>1, Zenon DEF WithoutDivMod
    <3> HIDE DEF P, Right, S, Sound, Good, r
    <3>4. PICK args \in Seq(U), end \in S :
            /\ Ordered(rw, t, s) = [t |-> With(t, args), s |-> end]
            /\ DOMAIN args = DOMAIN t.args
            /\ s \in Sound => end \in Sound
            /\ end \in Right =>
                 s \in Right /\ \A i \in DOMAIN t.args : worth[args[i]] = val[t.args[i]]
            /\ \A i \in DOMAIN t.args : args[i] \in Good
      <4>1. \E args \in Seq(U), end \in S :
              /\ Ordered(rw, t, s) = [t |-> With(t, args), s |-> end]
              /\ DOMAIN args = DOMAIN t.args /\ Len(args) = Len(t.args)
              /\ s \in Sound => end \in Sound
              /\ end \in Right =>
                   s \in Right /\ \A i \in DOMAIN t.args : worth[args[i]] = val[t.args[i]]
              /\ \A i \in DOMAIN t.args : args[i] \in Good
        BY <2>3, <3>1, InOrderKeeps
      <4> QED BY <4>1
    <3> DEFINE a == args[1]
               b == args[2]
               folds == a.op = "num" /\ b.op = "num"
    <3>5. /\ Ordered(rw, t, s).t = With(t, args) /\ Ordered(rw, t, s).s = end
          /\ With(t, args).args = args
      BY <3>4 DEF With, Term
    <3>6. /\ t.op \notin {"div", "mod"} => r.t = With(t, args) /\ r.s = end
          /\ t.op \in {"div", "mod"} /\ folds => r.t = Folded(t.op, a.n, b.n) /\ r.s = end
          /\ t.op = "div" /\ ~folds => r = GetOrCreateDivVar(a, b, end)
          /\ t.op = "mod" /\ ~folds => r = GetOrCreateModVar(a, b, end)
      BY <3>3, <3>5
    <3>7. CASE t.op \notin {"div", "mod"}
      <4>1. r.t = With(t, args) /\ r.s = end
        BY <3>6, <3>7
      <4>2. end \in Right => s \in Right /\ worth[With(t, args)] = val[t]
        BY <1>1, <3>2, <3>4, <4>1, ThroughoutKeeps DEF SameNames
      <4>3. r.t.op = t.op /\ r.t.n = t.n
        BY <4>1 DEF With, Term
      <4>4. r.t \in Good
        BY <1>5, <3>2, <4>3 DEF IntegerDivisions
      <4> QED BY <3>4, <4>1, <4>2, <4>4 DEF r
    <3>8. CASE t.op \in {"div", "mod"}
      <4>1. /\ DOMAIN t.args = 1..2 /\ t.args[1] \in T /\ t.args[2] \in T
            /\ Divisible(t.args[1], t.args[2], val)
        BY <1>1, <2>1, <3>8, Below DEF IntegerDivisions
      <4>2. /\ end \in Right => /\ s \in Right
                                /\ worth[a] = val[t.args[1]] /\ worth[b] = val[t.args[2]]
                                /\ Divisible(a, b, worth)
            /\ a \in Good /\ b \in Good
        BY <3>4, <4>1 DEF Divisible
      <4>3. /\ t.op = "div" => val[t] = Quotient(val[t.args[1]], val[t.args[2]])
            /\ t.op = "mod" => val[t] = Remainder(val[t.args[1]], val[t.args[2]])
        BY <1>1, <4>1, DivisionWorth
      <4> HIDE DEF a, b
      <4>4. CASE folds
        <5>1. r.t = Folded(t.op, a.n, b.n) /\ r.s = end
          BY <3>6, <3>8, <4>4
        <5>2. a \in U /\ b \in U /\ a.n \in Nat /\ b.n \in Nat
          BY <1>5, <4>2, <4>4
        <5>3. worth[a] = a.n /\ worth[b] = b.n
          BY <1>1, <4>4, <5>2, NumWorth
        <5>4. PICK k \in Nat :
                /\ Folded(t.op, a.n, b.n) = Num(k)
                /\ b.n # 0 => k = IF t.op = "div" THEN Quotient(a.n, b.n) ELSE Remainder(a.n, b.n)
          BY <3>8, <5>2, FoldedIs
        <5>5. worth[r.t] = k
          BY <1>1, <3>2, <5>1, <5>4, LeafWorth
        <5>6. r.t \in Good
          BY <1>5, <3>2, <5>1, <5>4 DEF Num, Term
        <5>7. end \in Right => worth[r.t] = val[t]
          BY <3>8, <4>2, <4>3, <5>3, <5>4, <5>5 DEF Divisible
        <5> QED BY <3>4, <4>2, <5>1, <5>6, <5>7 DEF r
      <4>5. CASE ~folds
        <5>1. end \in Kept(U, Names) /\ r.s \in Kept(U, Names)
          BY <3>2 DEF S
        <5>2. DivisibleIn(end, a, b, there, worth)
          BY <1>5, <4>2 DEF DivisibleIn
        <5>3. Ready(U, Names, there, worth, end, a, b, r)
          BY <1>1, <3>2, <5>1, <5>2 DEF Ready
        <5>4. /\ Says(end, given, there, worth) => Says(r.s, given, there, worth)
              /\ Stands(r.s.cache, there, worth) => Stands(end.cache, there, worth)
              /\ t.op = "div" /\ Stands(r.s.cache, there, worth) =>
                   worth[r.t] = Quotient(worth[a], worth[b])
              /\ t.op = "mod" /\ Stands(r.s.cache, there, worth) =>
                   worth[r.t] = Remainder(worth[a], worth[b])
              /\ r.t.op = "var"
          <6>1. CASE t.op = "div"
            <7>1. r = GetOrCreateDivVar(a, b, end)
              BY <3>6, <4>5, <6>1
            <7>2. /\ Says(end, given, there, worth) => Says(r.s, given, there, worth)
                  /\ Stands(r.s.cache, there, worth) =>
                       Stands(end.cache, there, worth) /\ worth[r.t] = Quotient(worth[a], worth[b])
                  /\ r.t.op = "var"
              BY <5>3, <7>1, DivVarKeeps
            <7> QED BY <6>1, <7>2
          <6>2. CASE t.op = "mod"
            <7>1. r = GetOrCreateModVar(a, b, end)
              BY <3>6, <4>5, <6>2
            <7>2. /\ Says(end, given, there, worth) => Says(r.s, given, there, worth)
                  /\ Stands(r.s.cache, there, worth) =>
                       Stands(end.cache, there, worth) /\ worth[r.t] = Remainder(worth[a], worth[b])
                  /\ r.t.op = "var"
              BY <5>3, <7>1, ModVarKeeps
            <7> QED BY <6>2, <7>2
          <6> QED BY <3>8, <6>1, <6>2
        <5>5. r.t \in Good
          BY <1>5, <3>2, <5>4
        <5>6. s \in Sound => r.s \in Sound
          BY <1>5, <3>2, <3>4, <5>4
        <5>7. r.s \in Right => end \in Right
          BY <1>5, <3>4, <5>4
        <5>8. r.s \in Right => worth[r.t] = val[t]
          BY <1>5, <3>8, <4>2, <4>3, <5>4, <5>7
        <5> QED BY <4>2, <5>5, <5>6, <5>7, <5>8 DEF r
      <4> QED BY <4>4, <4>5
    <3> QED BY <3>7, <3>8
  <2>4. Keeps(rw, t, S, Sound, Right, Good, val, worth)
    BY <2>3 DEF Keeps
  <2> QED BY <2>4
<1>7. \A t \in T : t \in P
  <2> HIDE DEF P
  <2> QED BY <1>2, <1>6, DepthInduct
<1> QED BY <1>7

LEMMA LineWorth ==
  ASSUME NEW U, NEW env, NEW val, Meaning(U, env, val), NEW t \in U, NEW constraints \in Seq(U),
         And(<<t>> \o constraints) \in U
  PROVE  val[And(<<t>> \o constraints)] <=> val[t] /\ Holding(constraints, val)
<1> DEFINE args == <<t>> \o constraints
           n == Len(constraints)
<1>1. n \in Nat /\ DOMAIN constraints = 1..n
  BY LenProperties
<1>2. <<t>> \in Seq(U) /\ Len(<<t>>) = 1 /\ <<t>>[1] = t
  OBVIOUS
<1>3. /\ args \in Seq(U) /\ Len(args) = 1 + n
      /\ args[1] = t /\ \A i \in 1..n : args[1 + i] = constraints[i]
  <2> DEFINE first == <<t>>
  <2>1. first \in Seq(U) /\ Len(first) = 1 /\ first[1] = t
    BY <1>2
  <2> HIDE DEF first
  <2>2. /\ first \o constraints \in Seq(U) /\ Len(first \o constraints) = 1 + n
        /\ (first \o constraints)[1] = t
        /\ \A i \in 1..n : (first \o constraints)[1 + i] = constraints[i]
    <3>1. /\ first \o constraints \in Seq(U) /\ Len(first \o constraints) = 1 + n
          /\ \A i \in 1..(1 + n) : (first \o constraints)[i] = IF i <= 1 THEN first[i] ELSE constraints[i - 1]
      BY <2>1, ConcatProperties
    <3>2. 1 \in 1..(1 + n)
      BY <1>1
    <3>3. \A i \in 1..n : 1 + i \in 1..(1 + n) /\ ~(1 + i <= 1) /\ (1 + i) - 1 = i
      BY <1>1
    <3> HIDE DEF n
    <3> QED BY <2>1, <3>1, <3>2, <3>3
  <2> QED BY <2>2 DEF first
<1> HIDE DEF args, n
<1>4. DOMAIN args = 1..(1 + n)
  BY <1>3, LenProperties
<1>5. \A i \in 1..(1 + n) : i = 1 \/ \E j \in 1..n : i = 1 + j
  <2>1. SUFFICES ASSUME NEW i \in 1..(1 + n), i # 1 PROVE \E j \in 1..n : i = 1 + j
    OBVIOUS
  <2>2. i - 1 \in 1..n /\ i = 1 + (i - 1)
    BY <1>1, <2>1
  <2> QED BY <2>2
<1>6. 1 \in 1..(1 + n) /\ \A j \in 1..n : 1 + j \in 1..(1 + n)
  BY <1>1
<1>7. val[And(args)] <=> \A i \in DOMAIN args : val[args[i]]
  BY JoinedWorth DEF args
<1>8. ASSUME \A i \in DOMAIN args : val[args[i]] PROVE val[t] /\ Holding(constraints, val)
  <2>1. \A i \in 1..n : val[args[1 + i]]
    BY <1>4, <1>6, <1>8
  <2> QED BY <1>1, <1>3, <1>4, <1>6, <1>8, <2>1 DEF Holding
<1>9. ASSUME val[t], Holding(constraints, val), NEW i \in DOMAIN args PROVE val[args[i]]
  <2>1. i \in 1..(1 + n)
    BY <1>4
  <2>2. CASE i = 1
    BY <1>3, <1>9, <2>2
  <2>3. ASSUME NEW j \in 1..n, i = 1 + j PROVE val[args[i]]
    <3>1. args[i] = constraints[j] /\ j \in DOMAIN constraints
      BY <1>1, <1>3, <2>3
    <3> QED BY <1>9, <3>1 DEF Holding
  <2> QED BY <1>5, <2>1, <2>2, <2>3
<1> QED BY <1>7, <1>8, <1>9 DEF args

\* rewrite_division_modulo.cpp: wherever every variable made so far is worth the division it was
\* made for, a formula of any size is worth what it was; and the line, the formula with the
\* constraints of the variables it needed, is true just where it was and they are: the
\* constraints leave a variable no other value, and exclude none of the others'.
THEOREM DivisionsKeepMeaning ==
  ASSUME NEW T, NEW env, NEW val, Reading(T, env, val), IntegerDivisions(T, val),
         NEW U, NEW there, NEW worth, Reading(U, there, worth), SameNames(T, env, there),
         NEW Names, IntegerNames(Names, there),
         NEW rw, Divides(rw, T, U, Kept(U, Names))
  PROVE  \A t \in T, s \in Kept(U, Names) :
           LET r == rw[<<t, s>>]
               line == IF r.s.constraints = <<>> THEN r.t ELSE And(<<r.t>> \o r.s.constraints)
           IN  /\ Stands(r.s.cache, there, worth) => Stands(s.cache, there, worth) /\ worth[r.t] = val[t]
               /\ s.constraints = <<>> /\ Stands(s.cache, there, worth) /\ line \in U =>
                    (worth[line] <=> val[t] /\ Stands(r.s.cache, there, worth))
<1> SUFFICES ASSUME NEW t \in T, NEW s \in Kept(U, Names)
             PROVE  LET r == rw[<<t, s>>]
                        line == IF r.s.constraints = <<>> THEN r.t ELSE And(<<r.t>> \o r.s.constraints)
                    IN  /\ Stands(r.s.cache, there, worth) =>
                             Stands(s.cache, there, worth) /\ worth[r.t] = val[t]
                        /\ s.constraints = <<>> /\ Stands(s.cache, there, worth) /\ line \in U =>
                             (worth[line] <=> val[t] /\ Stands(r.s.cache, there, worth))
  OBVIOUS
<1> DEFINE r == rw[<<t, s>>]
           line == IF r.s.constraints = <<>> THEN r.t ELSE And(<<r.t>> \o r.s.constraints)
           given == Stands(s.cache, there, worth)
           Sound == Saying(U, Names, given, there, worth)
           Right == Standing(U, Names, there, worth)
           Good == Unsigned(U)
<1>1. Meaning(U, there, worth)
  BY DEF Reading
<1>2. r.t \in U /\ r.s \in Kept(U, Names)
  <2>1. r \in Results(U, Kept(U, Names))
    BY DEF Divides
  <2> QED BY <2>1 DEF Results
<1>3. Keeps(rw, t, Kept(U, Names), Sound, Right, Good, val, worth)
  BY DivModKeeps
<1>4. /\ s \in Sound => r.s \in Sound
      /\ r.s \in Right => s \in Right /\ worth[r.t] = val[t]
  BY <1>3 DEF Keeps
<1> HIDE DEF r
<1>5. Stands(r.s.cache, there, worth) => Stands(s.cache, there, worth) /\ worth[r.t] = val[t]
  BY <1>2, <1>4 DEF Standing
<1>6. ASSUME s.constraints = <<>>, Stands(s.cache, there, worth), line \in U
      PROVE  worth[line] <=> val[t] /\ Stands(r.s.cache, there, worth)
  <2>1. Says(s, given, there, worth)
    <3> DEFINE none == <<>>
    <3>1. DOMAIN none = {} /\ s.constraints = none
      BY <1>6
    <3> HIDE DEF none
    <3>2. Holding(s.constraints, worth)
      BY <3>1 DEF Holding
    <3> QED BY <1>6, <3>2 DEF Says
  <2>2. Stands(r.s.cache, there, worth) <=> Holding(r.s.constraints, worth)
    <3>1. Says(r.s, given, there, worth)
      BY <1>2, <1>4, <2>1 DEF Saying
    <3> QED BY <1>6, <3>1 DEF Says
  <2>3. CASE r.s.constraints = <<>>
    <3> DEFINE none == <<>>
    <3>1. DOMAIN none = {} /\ r.s.constraints = none
      BY <2>3
    <3> HIDE DEF none
    <3>2. Holding(r.s.constraints, worth)
      BY <3>1 DEF Holding
    <3> QED BY <1>5, <2>2, <2>3, <3>2
  <2>4. CASE r.s.constraints # <<>>
    <3>1. r.s.constraints \in Seq(U)
      BY <1>2 DEF Kept
    <3>2. line = And(<<r.t>> \o r.s.constraints)
      BY <2>4
    <3>3. worth[line] <=> worth[r.t] /\ Holding(r.s.constraints, worth)
      BY <1>1, <1>2, <1>6, <3>1, <3>2, LineWorth
    <3> QED BY <1>5, <2>2, <3>3
  <2> QED BY <2>3, <2>4
<1> QED BY <1>5, <1>6 DEF r

----------------------------------------------------------------------------
(* RewriteLet's substitution, ArrayHandler's read over write.               *)

\* rewrite_let.cpp: with x worth what u is, a term of any size is worth what it is once u has
\* been substituted for x everywhere in it.
THEOREM SubstitutionKeepsMeaning ==
  ASSUME NEW T, NEW env, NEW val, Reading(T, env, val),
         NEW U, NEW there, NEW worth, Reading(U, there, worth),
         NEW x, x \notin {"true", "false"}, NEW u \in U, env[x] = worth[u],
         \A t \in T : t.op \in {"var", "call"} /\ ~(t.op = "var" /\ t.name = x) =>
                        Named(t.name, there) = Named(t.name, env),
         NEW rw \in [T -> U], \A t \in T : rw[t] = Substituted(t, x, u, rw)
  PROVE  \A t \in T : worth[rw[t]] = val[t]
<1> DEFINE P == {t \in T : worth[rw[t]] = val[t]}
<1>1. /\ Closed(T) /\ Meaning(T, env, val) /\ Closed(U) /\ Meaning(U, there, worth)
      /\ \A t \in T : rw[t] \in U
  BY DEF Reading
<1>2. PICK depth : Deep(T, depth)
  BY DEF Reading
<1>3. ASSUME NEW t \in T, \A v \in T : depth[v] < depth[t] => v \in P PROVE t \in P
  <2>1. /\ DOMAIN t.args = 1..Len(t.args)
        /\ \A i \in DOMAIN t.args : t.args[i] \in T
    BY <1>1, Below
  <2>2. \A i \in DOMAIN t.args : t.args[i] \in P
    BY <1>2, <1>3, <2>1 DEF Deep
  <2>3. CASE t.op = "var" /\ t.name = x
    <3>1. rw[t] = u
      BY <2>3 DEF Substituted
    <3>2. val[t] = Named(x, env)
      BY <1>1, <2>3, VarWorth
    <3>3. Named(x, env) = env[x]
      BY DEF Named
    <3> QED BY <3>1, <3>2, <3>3
  <2>4. CASE ~(t.op = "var" /\ t.name = x)
    <3> DEFINE args == [i \in DOMAIN t.args |-> rw[t.args[i]]]
    <3>1. rw[t] = With(t, args)
      BY <2>4 DEF Substituted, Throughout
    <3>2. \A i \in DOMAIN t.args : worth[args[i]] = val[t.args[i]]
      BY <2>2
    <3>3. DOMAIN args = DOMAIN t.args
      OBVIOUS
    <3>4. t.op \in {"var", "call"} => Named(t.name, there) = Named(t.name, env)
      BY <2>4
    <3> HIDE DEF args
    <3>5. worth[rw[t]] = val[t]
      BY <1>1, <3>1, <3>2, <3>3, <3>4, ThroughoutKeeps
    <3> QED BY <3>5
  <2> QED BY <2>3, <2>4
<1> HIDE DEF P
<1>4. \A t \in T : t \in P
  BY <1>2, <1>3, DepthInduct
<1> QED BY <1>4 DEF P

LEMMA WrittenRead ==
  ASSUME NEW a, NEW i, NEW e, NEW j
  PROVE  Read(Written(a, i, e), j) = IF i = j THEN e ELSE Read(a, j)
BY DEF Read, Written

LEMMA SelectWorth ==
  ASSUME NEW T, NEW env, NEW val, Meaning(T, env, val), NEW t \in T, t.op = "select",
         1 \in DOMAIN t.args, 2 \in DOMAIN t.args
  PROVE  val[t] = Read(val[t.args[1]], val[t.args[2]])
<1> DEFINE v == [i \in DOMAIN t.args |-> val[t.args[i]]]
<1>1. v[1] = val[t.args[1]] /\ v[2] = val[t.args[2]]
  OBVIOUS
<1>2. val[t] = Applied("select", t.n, Named(t.name, env), v)
  BY DEF Meaning
<1> HIDE DEF v
<1> QED BY <1>1, <1>2, Computed

LEMMA StoreWorth ==
  ASSUME NEW T, NEW env, NEW val, Meaning(T, env, val), NEW t \in T, t.op = "store",
         DOMAIN t.args = 1..3
  PROVE  val[t] = Written(val[t.args[1]], val[t.args[2]], val[t.args[3]])
<1> DEFINE v == [i \in DOMAIN t.args |-> val[t.args[i]]]
<1>1. v[1] = val[t.args[1]] /\ v[2] = val[t.args[2]] /\ v[3] = val[t.args[3]]
  OBVIOUS
<1>2. val[t] = Applied("store", t.n, Named(t.name, env), v)
  BY DEF Meaning
<1> HIDE DEF v
<1>3. Applied("store", t.n, Named(t.name, env), v) = Written(v[1], v[2], v[3])
  BY Zenon DEF Applied, Operation
<1> QED BY <1>1, <1>2, <1>3

\* A store has an array, an index and a value, a read an array and an index.
ArrayTerms(T) == \A t \in T : /\ t.op = "store" => Len(t.args) = 3
                              /\ t.op = "select" => Len(t.args) = 2

\* A read of an array that has become a store becomes one of the array below, of a smaller
\* depth; the index terms the two compare are worth the same only when they are the same.
ReadsOver(T, val, depth, rw) ==
  \A t \in T :
    LET array == rw[t.args[1]]
        index == rw[t.args[2]]
        below == Op("select", <<array.args[1], index>>)
    IN  t.op = "select" /\ array.op = "store" /\ array.args[2] # index =>
          /\ below \in T /\ depth[below] < depth[t]
          /\ val[array.args[2]] # val[index]

\* array_handler.cpp: a formula of any size is worth what it was after every read of a store
\* has become the value stored or a read of the array below, if the index terms the handler
\* takes for different indices are worth different ones.
THEOREM ReadsOverWritesKeepMeaning ==
  ASSUME NEW T, NEW env, NEW val, Closed(T), Meaning(T, env, val), ArrayTerms(T),
         NEW depth, Deep(T, depth), NEW rw \in [T -> T], ReadsOver(T, val, depth, rw),
         \A t \in T : rw[t] = LET treated == Throughout(t, rw)
                               IN  ReadOverWrite(treated, rw[ReadBelow(treated)])
  PROVE  \A t \in T : val[rw[t]] = val[t]
<1> DEFINE P == {t \in T : val[rw[t]] = val[t]}
<1>1. ASSUME NEW t \in T, \A u \in T : depth[u] < depth[t] => u \in P PROVE t \in P
  <2> DEFINE args == [i \in DOMAIN t.args |-> rw[t.args[i]]]
             array == args[1]
             index == args[2]
  <2>1. /\ DOMAIN t.args = 1..Len(t.args)
        /\ \A i \in DOMAIN t.args : t.args[i] \in T
    BY Below
  <2>2. \A i \in DOMAIN t.args : t.args[i] \in P
    BY <1>1, <2>1 DEF Deep
  <2>3. /\ DOMAIN args = DOMAIN t.args
        /\ \A i \in DOMAIN t.args : args[i] = rw[t.args[i]] /\ args[i] \in T /\ val[args[i]] = val[t.args[i]]
    BY <2>1, <2>2
  <2>4. rw[t] = CASE t.op # "select" \/ array.op # "store" -> With(t, args)
                  [] t.op = "select" /\ array.op = "store" ->
                       IF array.args[2] = index THEN array.args[3]
                       ELSE rw[Op("select", <<array.args[1], index>>)]
    <3> DEFINE treated == With(t, args)
    <3>1. rw[t] = ReadOverWrite(treated, rw[ReadBelow(treated)])
      BY DEF Throughout
    <3>2. treated.args = args /\ treated.op = t.op
      BY DEF With, Term
    <3> HIDE DEF treated
    <3>3. rw[t] = CASE t.op # "select" \/ array.op # "store" -> treated
                    [] t.op = "select" /\ array.op = "store" ->
                         IF array.args[2] = index THEN array.args[3] ELSE rw[ReadBelow(treated)]
      BY <3>1, <3>2, Zenon DEF ReadOverWrite
    <3>4. ReadBelow(treated) = Op("select", <<array.args[1], index>>)
      BY <3>2, Zenon DEF ReadBelow
    <3> QED BY <3>3, <3>4, Zenon DEF treated
  <2> HIDE DEF args
  <2>5. CASE t.op # "select" \/ array.op # "store"
    <3>1. rw[t] = With(t, args)
      BY <2>4, <2>5
    <3> HIDE DEF P
    <3>2. With(t, args) \in T
      BY <3>1
    <3>3. val[With(t, args)] = val[t]
      BY <2>3, <3>2, ThroughoutKeeps
    <3> QED BY <3>1, <3>3 DEF P
  <2>6. CASE t.op = "select" /\ array.op = "store"
    <3>1. DOMAIN t.args = 1..2 /\ array \in T /\ index \in T
          /\ array = rw[t.args[1]] /\ index = rw[t.args[2]]
          /\ val[array] = val[t.args[1]] /\ val[index] = val[t.args[2]]
      <4>1. Len(t.args) = 2
        BY <2>6 DEF ArrayTerms
      <4> QED BY <2>1, <2>3, <4>1
    <3>2. DOMAIN array.args = 1..3 /\ \A i \in 1..3 : array.args[i] \in T
      BY <2>6, <3>1, Below DEF ArrayTerms
    <3> DEFINE a == val[array.args[1]]
               i == val[array.args[2]]
               e == val[array.args[3]]
               j == val[index]
               below == Op("select", <<array.args[1], index>>)
    <3>3. val[t] = Read(val[array], j)
      BY <2>6, <3>1, SelectWorth
    <3>4. val[array] = Written(a, i, e)
      BY <2>6, <3>1, <3>2, StoreWorth
    <3>5. val[t] = IF i = j THEN e ELSE Read(a, j)
      BY <3>3, <3>4, WrittenRead
    <3>6. CASE array.args[2] = index
      <4>1. rw[t] = array.args[3] /\ i = j
        BY <2>4, <2>6, <3>6
      <4> QED BY <3>5, <4>1
    <3>7. CASE array.args[2] # index
      <4>1. below \in T /\ depth[below] < depth[t] /\ i # j
        BY <2>6, <3>1, <3>7 DEF ReadsOver
      <4>2. rw[t] = rw[below]
        BY <2>4, <2>6, <3>7
      <4>3. below \in P
        BY <1>1, <4>1
      <4>4. below.op = "select" /\ below.args = <<array.args[1], index>>
        BY DEF Op, Term
      <4> HIDE DEF array, index, below, P
      <4>5. 1 \in DOMAIN below.args /\ 2 \in DOMAIN below.args
            /\ below.args[1] = array.args[1] /\ below.args[2] = index
        BY <4>4
      <4>6. val[below] = Read(a, j)
        BY <4>1, <4>4, <4>5, SelectWorth
      <4> QED BY <3>5, <4>1, <4>2, <4>3, <4>6 DEF P
    <3> QED BY <3>6, <3>7
  <2> QED BY <2>5, <2>6
<1> HIDE DEF P
<1>2. \A t \in T : t \in P
  BY <1>1, DepthInduct
<1> QED BY <1>2 DEF P

----------------------------------------------------------------------------
(* A set of terms has a meaning, and one only.                              *)

\* The terms of a depth below n.
Level(T, depth, n) == {t \in T : depth[t] < n}

MeaningBelow(T, env, depth, n, f) ==
  f = [t \in Level(T, depth, n) |->
         Applied(t.op, t.n, Named(t.name, env), [i \in DOMAIN t.args |-> f[t.args[i]]])]

LEMMA ArgsBelow ==
  ASSUME NEW T, Closed(T), NEW depth, Deep(T, depth), NEW n \in Nat, NEW t \in Level(T, depth, n)
  PROVE  /\ t \in T /\ depth[t] \in Nat
         /\ \A i \in DOMAIN t.args : t.args[i] \in Level(T, depth, depth[t])
         /\ \A i \in DOMAIN t.args : t.args[i] \in Level(T, depth, n)
<1>1. t \in T /\ depth[t] \in Nat /\ depth[t] < n
  BY DEF Level, Deep
<1>2. \A i \in DOMAIN t.args : t.args[i] \in T /\ depth[t.args[i]] \in Nat /\ depth[t.args[i]] < depth[t]
  BY <1>1, Below DEF Deep
<1> QED BY <1>1, <1>2 DEF Level

LEMMA MeaningBelowIsOne ==
  ASSUME NEW T, NEW env, Closed(T), NEW depth, Deep(T, depth), NEW n \in Nat, NEW m \in Nat,
         NEW f, MeaningBelow(T, env, depth, n, f), NEW g, MeaningBelow(T, env, depth, m, g)
  PROVE  \A t \in T : depth[t] < n /\ depth[t] < m => f[t] = g[t]
<1> DEFINE P == {t \in T : depth[t] < n /\ depth[t] < m => f[t] = g[t]}
<1>1. ASSUME NEW t \in T, \A u \in T : depth[u] < depth[t] => u \in P PROVE t \in P
  <2> SUFFICES ASSUME depth[t] < n, depth[t] < m PROVE f[t] = g[t]
    OBVIOUS
  <2>1. t \in Level(T, depth, n) /\ t \in Level(T, depth, m)
    BY DEF Level
  <2>2. /\ f[t] = Applied(t.op, t.n, Named(t.name, env), [i \in DOMAIN t.args |-> f[t.args[i]]])
        /\ g[t] = Applied(t.op, t.n, Named(t.name, env), [i \in DOMAIN t.args |-> g[t.args[i]]])
    BY <2>1, Zenon DEF MeaningBelow
  <2>3. \A i \in DOMAIN t.args : f[t.args[i]] = g[t.args[i]]
    <3>1. TAKE i \in DOMAIN t.args
    <3>2. t.args[i] \in T /\ depth[t.args[i]] < depth[t]
      BY Below DEF Deep
    <3>3. t.args[i] \in P
      BY <1>1, <3>2
    <3>4. depth[t.args[i]] \in Nat /\ depth[t] \in Nat
      BY <3>2 DEF Deep
    <3>5. depth[t.args[i]] < n /\ depth[t.args[i]] < m
      BY <3>2, <3>4
    <3> QED BY <3>3, <3>5
  <2>4. [i \in DOMAIN t.args |-> f[t.args[i]]] = [i \in DOMAIN t.args |-> g[t.args[i]]]
    BY <2>3
  <2> QED BY <2>2, <2>4
<1> HIDE DEF P
<1>2. \A t \in T : t \in P
  BY <1>1, DepthInduct
<1> QED BY <1>2 DEF P

LEMMA MeaningBelowExists ==
  ASSUME NEW T, NEW env, Closed(T), NEW depth, Deep(T, depth), NEW n \in Nat
  PROVE  \E f : MeaningBelow(T, env, depth, n, f)
<1> DEFINE K == {k \in 0..n : \E f : MeaningBelow(T, env, depth, k, f)}
<1>1. 0 \in K
  <2>1. Level(T, depth, 0) = {}
    BY DEF Level, Deep
  <2> DEFINE none == [t \in {} |-> 0]
  <2>2. MeaningBelow(T, env, depth, 0, none)
    BY <2>1, Zenon DEF MeaningBelow
  <2> QED BY <2>2
<1>2. ASSUME NEW k \in 1..n, k - 1 \in K PROVE k \in K
  <2>1. PICK f : MeaningBelow(T, env, depth, k - 1, f)
    BY <1>2
  <2> DEFINE Of(t, h) == Applied(t.op, t.n, Named(t.name, env), [i \in DOMAIN t.args |-> h[t.args[i]]])
             g == [t \in Level(T, depth, k) |-> Of(t, f)]
  <2>2. \A t \in Level(T, depth, k - 1) : t \in Level(T, depth, k) /\ f[t] = Of(t, f)
    <3>1. TAKE t \in Level(T, depth, k - 1)
    <3>2. t \in Level(T, depth, k)
      BY DEF Level, Deep
    <3>3. f[t] = Of(t, f)
      BY <2>1, Zenon DEF MeaningBelow
    <3> QED BY <3>2, <3>3
  <2>3. \A t \in Level(T, depth, k - 1) : g[t] = f[t]
    BY <2>2
  <2>4. \A t \in Level(T, depth, k) : Of(t, g) = Of(t, f)
    <3>1. TAKE t \in Level(T, depth, k)
    <3>2. depth[t] \in Nat /\ depth[t] =< k - 1 /\ \A i \in DOMAIN t.args : t.args[i] \in Level(T, depth, depth[t])
      BY ArgsBelow DEF Level, Deep
    <3>3. \A i \in DOMAIN t.args : t.args[i] \in Level(T, depth, k - 1)
      BY <3>2 DEF Level, Deep
    <3>4. \A i \in DOMAIN t.args : g[t.args[i]] = f[t.args[i]]
      BY <2>3, <3>3
    <3> HIDE DEF g
    <3>5. [i \in DOMAIN t.args |-> g[t.args[i]]] = [i \in DOMAIN t.args |-> f[t.args[i]]]
      BY <3>4
    <3> QED BY <3>5
  <2>5. g = [t \in Level(T, depth, k) |-> Of(t, g)]
    <3> HIDE DEF Of
    <3>1. g = [t \in Level(T, depth, k) |-> Of(t, f)]
      OBVIOUS
    <3> HIDE DEF g
    <3> QED BY <2>4, <3>1
  <2>6. MeaningBelow(T, env, depth, k, g)
    <3> HIDE DEF g
    <3> QED BY <2>5, Zenon DEF MeaningBelow
  <2> QED BY <2>6
<1> HIDE DEF K
<1>3. n \in K
  BY <1>1, <1>2, UpTo
<1> QED BY <1>3 DEF K

\* Every set of terms that contains their arguments, none being below itself, has just one
\* meaning for given values of the names: the theorems above are about every formula.
THEOREM TermsHaveOneMeaning ==
  ASSUME NEW T, NEW env, Closed(T), NEW depth, Deep(T, depth)
  PROVE  /\ \E val : Reading(T, env, val)
         /\ \A val, other : Meaning(T, env, val) /\ Meaning(T, env, other) => \A t \in T : val[t] = other[t]
<1> DEFINE upTo == [n \in Nat |-> CHOOSE f : MeaningBelow(T, env, depth, n, f)]
           val == [t \in T |-> upTo[depth[t] + 1][t]]
<1>1. \A n \in Nat : MeaningBelow(T, env, depth, n, upTo[n])
  BY MeaningBelowExists, Zenon
<1>2. Meaning(T, env, val)
  <2> SUFFICES ASSUME NEW t \in T
               PROVE  val[t] = Applied(t.op, t.n, Named(t.name, env), [i \in DOMAIN t.args |-> val[t.args[i]]])
    BY DEF Meaning
  <2> DEFINE n == depth[t] + 1
             f == upTo[n]
  <2>1. n \in Nat /\ t \in Level(T, depth, n)
    BY DEF Level, Deep
  <2>2. MeaningBelow(T, env, depth, n, f)
    BY <1>1, <2>1
  <2> HIDE DEF f, n
  <2>3. f[t] = Applied(t.op, t.n, Named(t.name, env), [i \in DOMAIN t.args |-> f[t.args[i]]])
    BY <2>1, <2>2, Zenon DEF MeaningBelow
  <2>4. val[t] = f[t]
    BY DEF f, n
  <2>5. \A i \in DOMAIN t.args : val[t.args[i]] = f[t.args[i]]
    <3>1. TAKE i \in DOMAIN t.args
    <3> DEFINE u == t.args[i]
               m == depth[u] + 1
    <3>2. u \in T /\ depth[u] \in Nat /\ depth[u] < n
      BY <2>1, ArgsBelow DEF Level, Deep
    <3>3. m \in Nat /\ depth[u] < m
      BY <3>2
    <3>4. MeaningBelow(T, env, depth, m, upTo[m])
      BY <1>1, <3>3
    <3>5. val[u] = upTo[m][u]
      BY <3>2
    <3> HIDE DEF u, m, upTo, val
    <3>6. upTo[m][u] = f[u]
      BY <2>1, <2>2, <3>2, <3>3, <3>4, MeaningBelowIsOne
    <3> QED BY <3>5, <3>6 DEF u
  <2> HIDE DEF val
  <2>6. [i \in DOMAIN t.args |-> val[t.args[i]]] = [i \in DOMAIN t.args |-> f[t.args[i]]]
    BY <2>5
  <2> QED BY <2>3, <2>4, <2>6
<1>3. ASSUME NEW v, NEW w, Meaning(T, env, v), Meaning(T, env, w) PROVE \A t \in T : v[t] = w[t]
  <2> DEFINE P == {t \in T : v[t] = w[t]}
  <2>1. ASSUME NEW t \in T, \A u \in T : depth[u] < depth[t] => u \in P PROVE t \in P
    <3>1. \A i \in DOMAIN t.args : v[t.args[i]] = w[t.args[i]]
      BY <2>1, Below DEF Deep
    <3>2. [i \in DOMAIN t.args |-> v[t.args[i]]] = [i \in DOMAIN t.args |-> w[t.args[i]]]
      BY <3>1
    <3> QED BY <1>3, <3>2 DEF Meaning
  <2> HIDE DEF P
  <2>2. \A t \in T : t \in P
    BY <2>1, DepthInduct
  <2> QED BY <2>2 DEF P
<1> HIDE DEF val
<1> QED BY <1>2, <1>3 DEF Reading

----------------------------------------------------------------------------
(* From the formula of a line to its polyhedra.                             *)

\* The expressions of E are integers, the formulas of F are true or false, and a
\* comparison has two operands.
Sorted(E, F, val) ==
  /\ \A t \in E : val[t] \in Int
  /\ \A t \in F : /\ val[t] \in BOOLEAN
                  /\ t.op = "not" => Len(t.args) = 1
                  /\ t.op \notin Connectives => Len(t.args) = 2

LEMMA Subtraction ==
  ASSUME NEW v, NEW n, NEW x, Len(v) = 1
  PROVE  Applied("-", n, x, v) = -v[1]
<1>1. Applied("-", n, x, v) = CASE Len(v) = 1 -> -v[1]
                                [] Len(v) = 2 -> v[1] - v[2]
                                [] OTHER -> FoldLeft(LAMBDA a, b : a - b, v[1], Tail(v))
  BY Zenon DEF Applied, Operation
<1>2. Len(v) # 2
  OBVIOUS
<1> QED BY <1>1, <1>2, Zenon

\* What SMT-LIB says of expressions is what PolyhedraProofs takes for their worth.
LEMMA WorthsAre ==
  ASSUME NEW T, NEW env, NEW val, Meaning(T, env, val),
         NEW E \in SUBSET T, NEW N, N \cap {"true", "false"} = {}, NEW depth, ExpressionsOver(E, N, depth),
         \A t \in E : val[t] \in Int, NEW ints, \A x \in N : ints[x] = env[x]
  PROVE  Worths(E, ints, [t \in E |-> val[t]])
<1> DEFINE worth == [t \in E |-> val[t]]
<1>1. worth \in [E -> Int]
  OBVIOUS
<1>2. ASSUME NEW t \in E
      PROVE  IsWorth(t, [i \in DOMAIN t.args |-> worth[t.args[i]]], ints, worth[t])
  <2> DEFINE w == [i \in DOMAIN t.args |-> worth[t.args[i]]]
             v == [i \in DOMAIN t.args |-> val[t.args[i]]]
             m == Len(t.args)
  <2>1. m \in Nat /\ DOMAIN t.args = 1..m /\ \A i \in 1..m : t.args[i] \in E
    BY LenProperties, ElementOfSeq DEF ExpressionsOver
  <2>2. v = w
    BY <2>1
  <2>3. Len(v) = m /\ \A i \in 1..m : v[i] \in Int
    <3>1. v \in [1..m -> Int]
      BY <2>1
    <3> HIDE DEF v, m
    <3> QED BY <2>1, <3>1, FunctionIsSeq
  <2>4. val[t] = Applied(t.op, t.n, Named(t.name, env), v)
    BY DEF Meaning
  <2>5. worth[t] = val[t] /\ LeafOver(t, N)
    BY DEF ExpressionsOver
  <2> HIDE DEF v, w, worth, m
  <2>6. t.op = "num" => val[t] = t.n
    BY <2>4, Leaves
  <2>7. t.op = "var" => val[t] = ints[t.name]
    <3>1. t.op = "var" => t.name \in N /\ t.name \notin {"true", "false"} /\ val[t] = Named(t.name, env)
      BY <2>4, <2>5, Leaves DEF LeafOver
    <3> QED BY <3>1 DEF Named
  <2>8. t.op = "+" => IsSum(val[t], v)
    <3>1. t.op = "+" => val[t] = Total(v)
      BY <2>4, Computed
    <3> QED BY <2>1, <2>3, <3>1, TotalIsSum
  <2>9. t.op = "-" /\ Len(v) = 1 => val[t] = -v[1]
    BY <2>4, Subtraction
  <2>10. /\ t.op = "-" /\ Len(v) = 2 => val[t] = v[1] - v[2]
         /\ t.op = "*" /\ Len(v) = 2 => val[t] = v[1] * v[2]
    BY <2>4, Computed
  <2>11. IsWorth(t, v, ints, val[t])
    BY <2>6, <2>7, <2>8, <2>9, <2>10 DEF IsWorth
  <2> QED BY <2>2, <2>5, <2>11 DEF w
<1> HIDE DEF worth
<1> QED BY <1>1, <1>2 DEF Worths, worth

LEMMA ComparesWorth ==
  ASSUME NEW T, NEW env, NEW val, Meaning(T, env, val), NEW t \in T,
         Len(t.args) = 2, DOMAIN t.args = 1..2
  PROVE  Compares(t.op, val[t.args[1]], val[t.args[2]], val[t])
<1> DEFINE v == [i \in DOMAIN t.args |-> val[t.args[i]]]
           S == {val[t.args[1]], val[t.args[2]]}
<1>1. v[1] = val[t.args[1]] /\ v[2] = val[t.args[2]] /\ v \in [1..2 -> S]
  OBVIOUS
<1>2. val[t] = Applied(t.op, t.n, Named(t.name, env), v)
  BY DEF Meaning
<1> HIDE DEF v, S
<1>3. Len(v) = 2
  <2>1. 2 \in Nat
    OBVIOUS
  <2> QED BY <1>1, <2>1, FunctionIsSeq
<1>4. t.op = ">=" => (val[t] <=> v[1] >= v[2])
  BY <1>2, <1>3, Compared
<1>5. t.op = ">" => (val[t] <=> v[1] > v[2])
  BY <1>2, <1>3, Compared
<1>6. t.op = "<=" => (val[t] <=> v[1] =< v[2])
  BY <1>2, <1>3, Compared
<1>7. t.op = "<" => (val[t] <=> v[1] < v[2])
  BY <1>2, <1>3, Compared
<1> QED BY <1>1, <1>4, <1>5, <1>6, <1>7 DEF Compares

LEMMA TruthsAre ==
  ASSUME NEW T, NEW env, NEW val, Meaning(T, env, val),
         NEW E \in SUBSET T, NEW F \in SUBSET T, NEW depth, FormulasOver(F, E, depth), Sorted(E, F, val)
  PROVE  Truths(F, [t \in E |-> val[t]], [t \in F |-> val[t]])
<1> DEFINE worth == [t \in E |-> val[t]]
           truth == [t \in F |-> val[t]]
<1>1. truth \in [F -> BOOLEAN]
  BY DEF Sorted
<1>2. ASSUME NEW t \in F
      PROVE  /\ t.op = "not" => (truth[t] <=> ~truth[t.args[1]])
             /\ t.op = "and" => (truth[t] <=> \A i \in DOMAIN t.args : truth[t.args[i]])
             /\ t.op = "or" => (truth[t] <=> \E i \in DOMAIN t.args : truth[t.args[i]])
             /\ t.op = "var" => (truth[t] <=> t.name = "true")
             /\ t.op \notin Connectives => Compares(t.op, worth[t.args[1]], worth[t.args[2]], truth[t])
  <2> DEFINE v == [i \in DOMAIN t.args |-> val[t.args[i]]]
  <2>1. val[t] = Applied(t.op, t.n, Named(t.name, env), v)
    BY DEF Meaning
  <2>2. truth[t] = val[t] /\ \A u \in F : truth[u] = val[u]
    OBVIOUS
  <2>3. CASE t.op \in {"not", "and", "or"}
    <3>1. t.args \in Seq(F)
      BY <2>3 DEF FormulasOver, Connectives
    <3>2. DOMAIN t.args = 1..Len(t.args) /\ \A i \in DOMAIN t.args : t.args[i] \in F
      BY <3>1, LenProperties, ElementOfSeq
    <3>3. DOMAIN v = DOMAIN t.args /\ \A i \in DOMAIN t.args : v[i] = truth[t.args[i]]
      BY <2>2, <3>2
    <3> HIDE DEF v, truth
    <3>4. t.op = "and" => (val[t] <=> \A i \in DOMAIN t.args : truth[t.args[i]])
      <4>1. t.op = "and" => val[t] = \A i \in DOMAIN v : v[i]
        BY <2>1, Joined
      <4>2. (\A i \in DOMAIN v : v[i]) = (\A i \in DOMAIN t.args : truth[t.args[i]])
        BY <3>3
      <4> QED BY <4>1, <4>2
    <3>5. t.op = "or" => (val[t] <=> \E i \in DOMAIN t.args : truth[t.args[i]])
      <4>1. t.op = "or" => val[t] = \E i \in DOMAIN v : v[i]
        BY <2>1, Joined
      <4>2. (\E i \in DOMAIN v : v[i]) = (\E i \in DOMAIN t.args : truth[t.args[i]])
        BY <3>3
      <4> QED BY <4>1, <4>2
    <3>6. t.op = "not" => (val[t] <=> ~truth[t.args[1]])
      <4>1. t.op = "not" => Len(t.args) = 1
        BY <2>3 DEF Sorted, Connectives
      <4>2. ASSUME t.op = "not" PROVE 1 \in DOMAIN t.args
        <5>1. Len(t.args) = 1
          BY <4>1, <4>2
        <5>2. DOMAIN t.args = 1..1
          BY <3>2, <5>1
        <5> QED BY <5>2
      <4>3. t.op = "not" => val[t] = ~v[1]
        BY <2>1, Joined
      <4> QED BY <3>3, <4>2, <4>3
    <3> QED BY <2>2, <2>3, <3>4, <3>5, <3>6 DEF Connectives
  <2>4. CASE t.op = "var"
    <3>1. t.name \in {"true", "false"}
      BY <2>4 DEF FormulasOver, Connectives
    <3>2. val[t] = Named(t.name, env)
      BY <2>4, VarWorth
    <3>3. val[t] <=> t.name = "true"
      BY <3>1, <3>2 DEF Named
    <3> QED BY <2>2, <2>4, <3>3 DEF Connectives
  <2>5. CASE t.op \notin Connectives
    <3>1. t.args \in Seq(E) /\ Len(t.args) = 2
      BY <2>5 DEF FormulasOver, Connectives, Sorted
    <3>2. DOMAIN t.args = 1..2 /\ t.args[1] \in E /\ t.args[2] \in E
      BY <3>1, LenProperties, ElementOfSeq
    <3>3. Compares(t.op, val[t.args[1]], val[t.args[2]], val[t])
      BY <3>1, <3>2, ComparesWorth
    <3>4. worth[t.args[1]] = val[t.args[1]] /\ worth[t.args[2]] = val[t.args[2]]
      BY <3>2
    <3> QED BY <2>2, <2>5, <3>3, <3>4 DEF Connectives
  <2>6. t.op # "num"
    BY DEF FormulasOver, Connectives
  <2> QED BY <2>3, <2>4, <2>5, <2>6 DEF Connectives
<1> HIDE DEF truth, worth
<1> QED BY <1>1, <1>2 DEF Truths, truth, worth

\* What each handler does, between the terms it gets and those it makes of them.
DivisionStage(T, env, val, U, there, Names, divide) ==
  /\ IntegerDivisions(T, val) /\ SameNames(T, env, there) /\ IntegerNames(Names, there)
  /\ Divides(divide, T, U, Kept(U, Names))

BooleanStage(T, env, val, U, there, boolVars, rw) ==
  /\ ComparesIntegers(T, val, {}) /\ AsIntegers(T, env, boolVars, there)
  /\ rw \in [T -> U] /\ \A t \in T : rw[t] = WithoutBooleans(t, rw, boolVars)

EqualityStage(T, val, U, rw) ==
  /\ ComparesIntegers(T, val, {"="})
  /\ rw \in [T -> U] /\ \A t \in T : rw[t] = WithoutEquality(t, rw, TRUE)

StrictStage(T, val, U, rw) ==
  /\ ComparesIntegers(T, val, {"<", ">"})
  /\ rw \in [T -> U] /\ \A t \in T : rw[t] = WithoutStrict(t, rw)

ReadStage(T, val, rw) ==
  /\ ArrayTerms(T) /\ \E depth : Deep(T, depth) /\ ReadsOver(T, val, depth, rw)
  /\ rw \in [T -> T]
  /\ \A t \in T : rw[t] = LET treated == Throughout(t, rw)
                          IN  ReadOverWrite(treated, rw[ReadBelow(treated)])

CallStage(T, env, U, there, Names, functions, hasArrays, linearize) ==
  /\ SameNames(T, env, there)
  /\ Linearizes(linearize, T, U, Caches(U, Names), functions, hasArrays)

\* SMTParser: E are the expressions and F the formulas over the integers named N.
ParserStage(T, env, val, N, E, F, parse, nla, dnf) ==
  /\ nla \in NlaModes /\ N \cap {"true", "false"} = {} /\ \A x \in N : env[x] \in Int
  /\ E \in SUBSET T /\ F \in SUBSET T /\ Sorted(E, F, val)
  /\ \E depth : ExpressionsOver(E, N, depth)
  /\ \E depth : FormulasOver(F, E, depth)
  /\ ParsedExpressions(E, parse) /\ ParsedFormulas(F, parse, nla, dnf)

LEMMA BooleanStageKeeps ==
  ASSUME NEW T, NEW env, NEW val, Reading(T, env, val), NEW U, NEW there, NEW worth, Reading(U, there, worth),
         NEW boolVars, NEW rw, BooleanStage(T, env, val, U, there, boolVars, rw), NEW t \in T
  PROVE  rw[t] \in U /\ worth[rw[t]] = val[t]
<1>1. /\ ComparesIntegers(T, val, {}) /\ AsIntegers(T, env, boolVars, there)
      /\ rw \in [T -> U] /\ \A u \in T : rw[u] = WithoutBooleans(u, rw, boolVars)
  BY DEF BooleanStage
<1>2. \A u \in T : worth[rw[u]] = val[u]
  BY <1>1, BooleansKeepMeaning
<1> QED BY <1>1, <1>2

LEMMA EqualityStageKeeps ==
  ASSUME NEW T, NEW env, NEW val, Reading(T, env, val), NEW U, NEW worth, Reading(U, env, worth),
         NEW rw, EqualityStage(T, val, U, rw), NEW t \in T
  PROVE  rw[t] \in U /\ worth[rw[t]] = val[t]
<1> DEFINE integers == TRUE
<1>1. /\ ComparesIntegers(T, val, {"="})
      /\ rw \in [T -> U] /\ \A u \in T : rw[u] = WithoutEquality(u, rw, integers)
  BY DEF EqualityStage
<1> HIDE DEF integers
<1>2. \A u \in T : worth[rw[u]] = val[u]
  BY <1>1, EqualityKeepsMeaning
<1> QED BY <1>1, <1>2

LEMMA StrictStageKeeps ==
  ASSUME NEW T, NEW env, NEW val, Reading(T, env, val), NEW U, NEW worth, Reading(U, env, worth),
         NEW rw, StrictStage(T, val, U, rw), NEW t \in T
  PROVE  rw[t] \in U /\ worth[rw[t]] = val[t]
<1>1. /\ ComparesIntegers(T, val, {"<", ">"})
      /\ rw \in [T -> U] /\ \A u \in T : rw[u] = WithoutStrict(u, rw)
  BY DEF StrictStage
<1>2. \A u \in T : worth[rw[u]] = val[u]
  BY <1>1, StrictKeepsMeaning
<1> QED BY <1>1, <1>2

LEMMA ReadStageKeeps ==
  ASSUME NEW T, NEW env, NEW val, Reading(T, env, val), NEW rw, ReadStage(T, val, rw), NEW t \in T
  PROVE  rw[t] \in T /\ val[rw[t]] = val[t]
<1>1. PICK depth : Deep(T, depth) /\ ReadsOver(T, val, depth, rw)
  BY DEF ReadStage
<1>2. /\ ArrayTerms(T) /\ rw \in [T -> T]
      /\ \A u \in T : rw[u] = LET treated == Throughout(u, rw)
                              IN  ReadOverWrite(treated, rw[ReadBelow(treated)])
  BY DEF ReadStage
<1>3. Closed(T) /\ Meaning(T, env, val)
  BY DEF Reading
<1>4. \A u \in T : val[rw[u]] = val[u]
  BY <1>1, <1>2, <1>3, ReadsOverWritesKeepMeaning
<1> QED BY <1>2, <1>4

LEMMA CallStageKeeps ==
  ASSUME NEW T, NEW env, NEW val, Reading(T, env, val), NEW U, NEW there, NEW worth, Reading(U, there, worth),
         NEW Names, NEW functions, NEW hasArrays, NEW linearize,
         CallStage(T, env, U, there, Names, functions, hasArrays, linearize),
         NEW t \in T, NEW c \in Caches(U, Names), Stands(linearize[<<t, c>>].s, there, worth)
  PROVE  worth[linearize[<<t, c>>].t] = val[t]
<1>1. SameNames(T, env, there) /\ Linearizes(linearize, T, U, Caches(U, Names), functions, hasArrays)
  BY DEF CallStage
<1>2. LET r == linearize[<<t, c>>]
      IN  Stands(r.s, there, worth) => Stands(c, there, worth) /\ worth[r.t] = val[t]
  BY <1>1, CallsKeepMeaning
<1> QED BY <1>2

LEMMA DivisionStageKeeps ==
  ASSUME NEW T, NEW env, NEW val, Reading(T, env, val), NEW U, NEW there, NEW worth, Reading(U, there, worth),
         NEW Names, NEW divide, DivisionStage(T, env, val, U, there, Names, divide),
         NEW t \in T, NEW s \in Kept(U, Names), s.constraints = <<>>, Stands(s.cache, there, worth),
         NEW r, r = divide[<<t, s>>],
         NEW line \in U, line = IF r.s.constraints = <<>> THEN r.t ELSE And(<<r.t>> \o r.s.constraints)
  PROVE  worth[line] <=> val[t] /\ Stands(r.s.cache, there, worth)
<1>1. /\ IntegerDivisions(T, val) /\ SameNames(T, env, there) /\ IntegerNames(Names, there)
      /\ Divides(divide, T, U, Kept(U, Names))
  BY DEF DivisionStage
<1>2. LET q == divide[<<t, s>>]
          whole == IF q.s.constraints = <<>> THEN q.t ELSE And(<<q.t>> \o q.s.constraints)
      IN  s.constraints = <<>> /\ Stands(s.cache, there, worth) /\ whole \in U =>
            (worth[whole] <=> val[t] /\ Stands(q.s.cache, there, worth))
  BY <1>1, DivisionsKeepMeaning
<1> QED BY <1>2, Zenon

LEMMA ParserStageKeeps ==
  ASSUME NEW T, NEW env, NEW val, Reading(T, env, val),
         NEW N, NEW E, NEW F, NEW parse, NEW nla, NEW dnf,
         ParserStage(T, env, val, N, E, F, parse, nla, dnf), NEW t \in F, dnf[t].st = "ok"
  PROVE  LET exact == nla = "none" \/ \A u \in E : parse[u].st # "nla"
             positive == \A u \in F : u.op # "not"
         IN  Follows(dnf[t].dnf, [x \in N |-> env[x]], val[t],
                     exact \/ (positive /\ nla = "overapproximate"),
                     exact \/ (positive /\ nla = "underapproximate"))
<1> DEFINE ints == [x \in N |-> env[x]]
           worth == [u \in E |-> val[u]]
           truth == [u \in F |-> val[u]]
           exact == nla = "none" \/ \A u \in E : parse[u].st # "nla"
           positive == \A u \in F : u.op # "not"
<1>1. /\ nla \in NlaModes /\ N \cap {"true", "false"} = {} /\ \A x \in N : env[x] \in Int
      /\ E \in SUBSET T /\ F \in SUBSET T /\ Sorted(E, F, val)
      /\ ParsedExpressions(E, parse) /\ ParsedFormulas(F, parse, nla, dnf)
  BY DEF ParserStage
<1>2. PICK edepth : ExpressionsOver(E, N, edepth)
  BY DEF ParserStage
<1>3. PICK fdepth : FormulasOver(F, E, fdepth)
  BY DEF ParserStage
<1>4. ints \in [N -> Int] /\ \A x \in N : ints[x] = env[x]
  BY <1>1
<1>5. Meaning(T, env, val)
  BY DEF Reading
<1>6. truth[t] = val[t]
  OBVIOUS
<1> HIDE DEF ints
<1>7. Worths(E, ints, worth)
  BY <1>1, <1>2, <1>4, <1>5, WorthsAre DEF Sorted
<1>8. Truths(F, worth, truth)
  BY <1>1, <1>3, <1>5, TruthsAre
<1> HIDE DEF worth, truth
<1>9. Follows(dnf[t].dnf, ints, truth[t],
              exact \/ (positive /\ nla = "overapproximate"),
              exact \/ (positive /\ nla = "underapproximate"))
  BY <1>1, <1>2, <1>3, <1>4, <1>7, <1>8, FormulasKeepTheirMeaning
<1> QED BY <1>6, <1>9 DEF ints

\* parseTransition: of a line of any size, once its lets are substituted, the polyhedra hold
\* exactly where the line is true and every variable made for a division is worth it,
\* whatever the caches hold, if the variables made for calls and reads are worth those.
\* With products of unknowns one direction is left, as for FormulasKeepTheirMeaning.
THEOREM LinesKeepTheirMeaning ==
  ASSUME NEW T1, NEW env1, NEW val1, Reading(T1, env1, val1),
         NEW T2, NEW env2, NEW val2, Reading(T2, env2, val2),
         NEW quotients, NEW divide, DivisionStage(T1, env1, val1, T2, env2, quotients, divide),
         NEW T3, NEW env3, NEW val3, Reading(T3, env3, val3),
         NEW boolVars, NEW booleans, BooleanStage(T2, env2, val2, T3, env3, boolVars, booleans),
         NEW T4, NEW val4, Reading(T4, env3, val4),
         NEW equality, EqualityStage(T3, val3, T4, equality),
         NEW T5, NEW val5, Reading(T5, env3, val5),
         NEW strict, StrictStage(T4, val4, T5, strict),
         NEW reads, ReadStage(T5, val5, reads),
         NEW T6, NEW env6, NEW val6, Reading(T6, env6, val6),
         NEW results, NEW functions, NEW hasArrays, NEW linearize,
         CallStage(T5, env3, T6, env6, results, functions, hasArrays, linearize),
         NEW N, NEW E, NEW F, NEW parse, NEW nla, NEW dnf,
         ParserStage(T6, env6, val6, N, E, F, parse, nla, dnf),
         NEW t \in T1, NEW s \in Kept(T2, quotients), s.constraints = <<>>, Stands(s.cache, env2, val2),
         NEW c \in Caches(T6, results)
  PROVE  LET r == divide[<<t, s>>]
             line == IF r.s.constraints = <<>> THEN r.t ELSE And(<<r.t>> \o r.s.constraints)
             q == linearize[<<reads[strict[equality[booleans[line]]]], c>>]
             exact == nla = "none" \/ \A u \in E : parse[u].st # "nla"
             positive == \A u \in F : u.op # "not"
         IN  line \in T2 /\ Stands(q.s, env6, val6) /\ q.t \in F /\ dnf[q.t].st = "ok" =>
               Follows(dnf[q.t].dnf, [x \in N |-> env6[x]], val1[t] /\ Stands(r.s.cache, env2, val2),
                       exact \/ (positive /\ nla = "overapproximate"),
                       exact \/ (positive /\ nla = "underapproximate"))
<1> DEFINE r == divide[<<t, s>>]
           line == IF r.s.constraints = <<>> THEN r.t ELSE And(<<r.t>> \o r.s.constraints)
           before == reads[strict[equality[booleans[line]]]]
           q == linearize[<<before, c>>]
           true == val1[t] /\ Stands(r.s.cache, env2, val2)
           noLoss == \/ nla = "none" \/ \A u \in E : parse[u].st # "nla"
                     \/ (\A u \in F : u.op # "not") /\ nla = "overapproximate"
           noGain == \/ nla = "none" \/ \A u \in E : parse[u].st # "nla"
                     \/ (\A u \in F : u.op # "not") /\ nla = "underapproximate"
           ints == [x \in N |-> env6[x]]
<1>1. SUFFICES ASSUME line \in T2, Stands(q.s, env6, val6), q.t \in F, dnf[q.t].st = "ok"
               PROVE  Follows(dnf[q.t].dnf, ints, true, noLoss, noGain)
  BY Zenon
<1>2. val2[line] <=> true
  <2> HIDE DEF r
  <2>1. r = divide[<<t, s>>]
    BY DEF r
  <2> HIDE DEF line
  <2>2. line = IF r.s.constraints = <<>> THEN r.t ELSE And(<<r.t>> \o r.s.constraints)
    BY DEF line
  <2>3. line \in T2
    BY <1>1
  <2>4. val2[line] <=> val1[t] /\ Stands(r.s.cache, env2, val2)
    BY <2>1, <2>2, <2>3, DivisionStageKeeps, SMTT(60)
  <2> QED BY <2>4
<1> HIDE DEF true, line
<1>3. booleans[line] \in T3 /\ val3[booleans[line]] = val2[line]
  BY <1>1, BooleanStageKeeps
<1>4. equality[booleans[line]] \in T4 /\ val4[equality[booleans[line]]] = val3[booleans[line]]
  BY <1>3, EqualityStageKeeps
<1>5. /\ strict[equality[booleans[line]]] \in T5
      /\ val5[strict[equality[booleans[line]]]] = val4[equality[booleans[line]]]
  BY <1>4, StrictStageKeeps
<1>6. before \in T5 /\ val5[before] = val5[strict[equality[booleans[line]]]]
  BY <1>5, ReadStageKeeps
<1> HIDE DEF before
<1>7. val6[q.t] = val5[before]
  BY <1>1, <1>6, CallStageKeeps
<1> HIDE DEF q
<1>8. val6[q.t] <=> true
  BY <1>2, <1>3, <1>4, <1>5, <1>6, <1>7
<1>9. Follows(dnf[q.t].dnf, ints, val6[q.t], noLoss, noGain)
  <2> DEFINE u == q.t
  <2>1. u \in F /\ dnf[u].st = "ok"
    BY <1>1
  <2> HIDE DEF u
  <2>2. LET exact == nla = "none" \/ \A w \in E : parse[w].st # "nla"
            positive == \A w \in F : w.op # "not"
        IN  Follows(dnf[u].dnf, [x \in N |-> env6[x]], val6[u],
                    exact \/ (positive /\ nla = "overapproximate"),
                    exact \/ (positive /\ nla = "underapproximate"))
    BY <2>1, ParserStageKeeps
  <2> QED BY <2>2, Zenon DEF Follows, u
<1> QED BY <1>8, <1>9, Zenon DEF Follows
==============================================================================
