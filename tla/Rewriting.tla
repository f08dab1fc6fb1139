------------------------------ MODULE Rewriting ------------------------------
(***************************************************************************)
(* The handlers of src/rewriting/ and src/linearization/ one operator at a *)
(* time: what a handler makes of a term, R[u] being what it makes of a     *)
(* term u below it.  Formula follows the terms down.                       *)
(*                                                                         *)
(* A handler that keeps a cache takes it and returns it with the term, as  *)
(* [t, s].  A cache is the sequence of [call, name], in the order of their *)
(* creation: name stands for call.                                         *)
(***************************************************************************)
EXTENDS Terms

\* The arguments of t, and theirs.
TermsBelow(t) == Range(t.args) \cup UNION {Range(u.args) : u \in Range(t.args)}

Throughout(t, R) == With(t, [i \in DOMAIN t.args |-> R[t.args[i]]])

\* u in place of x.
Substituted(t, x, u, R) == IF t.op = "var" /\ t.name = x THEN u ELSE Throughout(t, R)

WithoutBooleans(t, R, boolVars) ==
  LET isBool(u) == u.op = "var" /\ u.name \in boolVars
  IN  CASE isBool(t) -> Ge(t, One)
        [] t.op = "not" /\ isBool(t.args[1]) -> Le(t.args[1], Num(0))
        [] OTHER -> Throughout(t, R)

WithoutEquality(t, R, integers) ==
  LET IsEq(u) == u.op = "=" /\ Len(u.args) = 2
      side(i) == R[t.args[i]]
      inner(i) == R[t.args[1].args[i]]
  IN  CASE integers /\ t.op = "not" /\ IsEq(t.args[1]) ->
             Or(<<Ge(inner(1), Plus(inner(2), One)), Le(inner(1), Minus(inner(2), One))>>)
        [] IsEq(t) -> And(<<Le(side(1), side(2)), Ge(side(1), side(2))>>)
        [] OTHER -> Throughout(t, R)

WithoutStrict(t, R) ==
  LET side(i) == R[t.args[i]]
  IN  CASE t.op = "<" /\ Len(t.args) = 2 -> Le(side(1), Minus(side(2), One))
        [] t.op = ">" /\ Len(t.args) = 2 -> Ge(side(1), Plus(side(2), One))
        [] OTHER -> Throughout(t, R)

\* The same read of what was there before the last write.
ReadBelow(t) == Op("select", <<t.args[1].args[1], t.args[2]>>)

\* The arguments of t have been treated, and below is what becomes of ReadBelow(t).
\* Different index terms are taken for different indices.
ReadOverWrite(t, below) ==
  CASE t.op # "select" \/ t.args[1].op # "store" -> t
    [] t.op = "select" /\ t.args[1].op = "store" ->
         IF t.args[1].args[2] = t.args[2] THEN t.args[1].args[3] ELSE below

----------------------------------------------------------------------------
(* Handlers with a cache.                                                   *)

Cached(cache, call) == \E i \in DOMAIN cache : cache[i].call = call
NameOf(cache, call) == (CHOOSE e \in Range(cache) : e.call = call).name

\* Rewrites the arguments of t from left to right; s is what the caches are.
InOrder(R(_, _), t, s) ==
  LET done[k \in 0 .. Len(t.args)] ==
        IF k = 0 THEN [args |-> <<>>, s |-> s]
        ELSE LET before == done[k - 1]
                 r == R(t.args[k], before.s)
             IN  [args |-> Append(before.args, r.t), s |-> r.s]
      all == done[Len(t.args)]
  IN  [t |-> With(t, all.args), s |-> all.s]

\* Seeded fault: nothing bounds the dividend from above.
QuotientConstraint_OneSided(a, b, q) ==
  Or(<<And(<<Ge(b, One), Le(Times(b, q), a)>>),
       And(<<Le(b, Minus(Num(0), One)), Le(Times(b, q), a)>>)>>)

\* What makes q the quotient of a by b, for b > 0 and for b < 0.
QuotientConstraint(a, b, q) ==
  Or(<<And(<<Ge(b, One), Le(Times(b, q), a),
             Le(a, Minus(Times(b, Plus(q, One)), One))>>),
       And(<<Le(b, Minus(Num(0), One)), Le(Times(b, q), a),
             Le(a, Minus(Times(b, Minus(q, One)), One))>>)>>)

RemainderConstraint(a, b, q, r) ==
  LET sum == Eq(a, Plus(Times(b, q), r))
  IN  Or(<<And(<<Ge(b, One), Le(Num(0), r), Le(r, Minus(b, One)), sum>>),
           And(<<Le(b, Minus(Num(0), One)), Le(Num(0), r),
                 Le(r, Minus(Minus(Num(0), b), One)), sum>>)>>)

\* s has the cache and the constraints of the line being read.
NextVar(s, prefix) == Var(prefix \o "_" \o ToString(Len(s.cache)))

Fresh(s, call, x, constraint) ==
  [t |-> x, s |-> [cache |-> Append(s.cache, [call |-> call, name |-> x.name]),
                   constraints |-> Append(s.constraints, constraint)]]

GetOrCreateDivVar(a, b, s) ==
  LET call == Op("div", <<a, b>>)
      q == NextVar(s, "div_aux")
  IN  IF Cached(s.cache, call) THEN [t |-> Var(NameOf(s.cache, call)), s |-> s]
      ELSE Fresh(s, call, q, QuotientConstraint(a, b, q))

GetOrCreateModVar(a, b, s) ==
  LET call == Op("mod", <<a, b>>)
      q == GetOrCreateDivVar(a, b, s)
      r == NextVar(q.s, "mod_aux")
  IN  IF Cached(s.cache, call) THEN [t |-> Var(NameOf(s.cache, call)), s |-> s]
      ELSE Fresh(q.s, call, r, RemainderConstraint(a, b, q.t, r))

\* C++'s division, which div of two literals folds with.
Truncated(a, b) == LET Size(k) == IF k < 0 THEN -k ELSE k
                       q == Size(a) \div Size(b)
                   IN  IF a < 0 <=> b < 0 THEN q ELSE -q

\* Two literals fold, to 0 when the divisor is 0.
Folded(op, a, b) ==
  Num(IF b = 0 THEN 0 ELSE IF op = "div" THEN Truncated(a, b) ELSE Remainder(a, b))

\* What becomes of t once InOrder has made r of it and of the state.
WithoutDivMod(t, r) ==
  LET a == r.t.args[1]
      b == r.t.args[2]
  IN  CASE t.op \notin {"div", "mod"} -> r
        [] t.op \in {"div", "mod"} /\ a.op = "num" /\ b.op = "num" ->
             [t |-> Folded(t.op, a.n, b.n), s |-> r.s]
        [] t.op = "div" /\ ~(a.op = "num" /\ b.op = "num") -> GetOrCreateDivVar(a, b, r.s)
        [] t.op = "mod" /\ ~(a.op = "num" /\ b.op = "num") -> GetOrCreateModVar(a, b, r.s)

\* A call of a declared function (UFHandler), a read of an array (ArrayHandler).
CanHandle(t, functions, hasArrays) == \/ t.op = "call" /\ t.name \in functions
                                      \/ t.op = "select" /\ hasArrays

Prefix(t) == IF t.op = "call" THEN "uf__" \o t.name ELSE "arr__select"

WithoutCalls(t, r, functions, hasArrays) ==
  LET name == Prefix(t) \o "__" \o ToString(Len(r.s))
      handled == CanHandle(t, functions, hasArrays)
  IN  CASE ~handled -> r
        [] handled /\ Cached(r.s, r.t) -> [t |-> Var(NameOf(r.s, r.t)), s |-> r.s]
        [] OTHER -> [t |-> Var(name), s |-> Append(r.s, [call |-> r.t, name |-> name])]
==============================================================================
