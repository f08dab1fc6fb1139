------------------------------ MODULE Polyhedra ------------------------------
(***************************************************************************)
(* SMTParser one operator at a time: what an expression or a formula       *)
(* becomes, given what its arguments have become.  Formula follows the     *)
(* arguments down; nothing here is recursive in the term.                  *)
(*                                                                         *)
(* An affine term is [st, coef, const]: coef keeps the non-zero            *)
(* coefficients (a map from names), st says whether parsing it threw, and  *)
(* what.  An inequality says that such a term is >= 0, or > 0 when it is   *)
(* strict; a polyhedron is a sequence of inequalities, all of which hold   *)
(* in it, and a DNF is a sequence of polyhedra.                            *)
(***************************************************************************)
EXTENDS Integers, SequencesExt

At(f, x) == IF x \in DOMAIN f THEN f[x] ELSE 0

Thrown(st) == [st |-> st, coef |-> <<>>, const |-> 0]

Affine(coef, const) ==
  [st |-> "ok", coef |-> Restrict(coef, {x \in DOMAIN coef : coef[x] # 0}), const |-> const]

Constant(k) == Affine(<<>>, k)

Unknown(x) == Affine([y \in {x} |-> 1], 0)

Scale(a, k) == Affine([x \in DOMAIN a.coef |-> k * a.coef[x]], k * a.const)

Add(a, b) == Affine([x \in DOMAIN a.coef \cup DOMAIN b.coef |-> At(a.coef, x) + At(b.coef, x)],
                    a.const + b.const)

\* a[1] + ... + a[Len(a)]
AddAll(a) ==
  LET sum[k \in 0 .. Len(a)] == IF k = 0 THEN Constant(0) ELSE Add(sum[k - 1], a[k])
  IN  sum[Len(a)]

Product(a, b) == CASE a.coef = <<>> -> Scale(b, a.const)
                   [] a.coef # <<>> /\ b.coef = <<>> -> Scale(a, b.const)
                   [] OTHER -> Thrown("nla")

\* The operands are parsed from left to right: the first exception is the one thrown.
ArithExpr(t, a) ==
  LET thrown == {i \in DOMAIN a : a[i].st # "ok"}
      ofOperands(value) == IF thrown = {} THEN value ELSE a[Min(thrown)]
  IN  CASE t.op = "num" -> Constant(t.n)
        [] t.op = "var" -> Unknown(t.name)
        [] t.op = "+" -> ofOperands(AddAll(a))
        [] t.op = "-" /\ Len(a) = 1 -> ofOperands(Scale(a[1], -1))
        [] t.op = "-" /\ Len(a) = 2 -> ofOperands(Add(a[1], Scale(a[2], -1)))
        [] t.op = "*" /\ Len(a) = 2 -> ofOperands(Product(a[1], a[2]))
        [] t.op = "*" /\ Len(a) # 2 -> Thrown("nla")
        [] OTHER -> Thrown("error")

----------------------------------------------------------------------------
Inequality(a, strict) == [coef |-> a.coef, const |-> a.const, strict |-> strict]
Tautology == Inequality(Constant(0), FALSE)
Contradiction == Inequality(Constant(-1), FALSE)

Failed == [st |-> "error", dnf |-> <<>>]
Ok(dnf) == [st |-> "ok", dnf |-> dnf]

\* What -nla makes of an inequality between products of two unknowns.
NlaAtom(nla) == CASE nla = "overapproximate" -> Ok(<< <<Tautology>> >>)
                  [] nla = "underapproximate" -> Ok(<< <<Contradiction>> >>)
                  [] nla = "none" -> Failed

AtomicFormula(t, a, nla) ==
  LET st == IF a[1].st # "ok" THEN a[1].st ELSE a[2].st
      Atom(greater, less) ==
        Ok(<< <<Inequality(Add(greater, Scale(less, -1)), t.op \in {">", "<"})>> >>)
  IN  IF Len(a) # 2 \/ t.op \in {"=", "div", "mod", "store"} THEN Failed
      ELSE CASE st = "nla" -> NlaAtom(nla)
             [] st = "ok" /\ t.op \in {">=", ">"} -> Atom(a[1], a[2])
             [] st = "ok" /\ t.op \in {"<=", "<"} -> Atom(a[2], a[1])
             [] OTHER -> Failed

\* Seeded fault: equal bounds are taken for contradictory ones.
IsTriviallyUnsat_OrEqual(poly) ==
  \/ \E i \in Range(poly) : i.coef = <<>> /\ i.const < 0
  \/ \E i, j \in Range(poly) : \E x \in DOMAIN i.coef :
       /\ DOMAIN i.coef = {x} /\ DOMAIN j.coef = {x}
       /\ i.coef[x] > 0 /\ j.coef[x] < 0
       /\ i.const * j.coef[x] >= j.const * i.coef[x]

\* k >= 0 with k < 0, or a lower bound of a variable above an upper one.
IsTriviallyUnsat(poly) ==
  \/ \E i \in Range(poly) : i.coef = <<>> /\ i.const < 0
  \/ \E i, j \in Range(poly) : \E x \in DOMAIN i.coef :
       /\ DOMAIN i.coef = {x} /\ DOMAIN j.coef = {x}
       /\ i.coef[x] > 0 /\ j.coef[x] < 0
       /\ i.const * j.coef[x] > j.const * i.coef[x]

\* Every polyhedron of d with every one of e.
Both(d, e) ==
  LET Combined(p, q) == IF IsTriviallyUnsat(p \o q) THEN <<>> ELSE <<p \o q>>
      WithEach(p) == FlattenSeq([j \in DOMAIN e |-> Combined(p, e[j])])
  IN  FlattenSeq([i \in DOMAIN d |-> WithEach(d[i])])

DistributeAND(operands) ==
  LET product[k \in DOMAIN operands] ==
        IF k = 1 THEN operands[1] ELSE Both(product[k - 1], operands[k])
  IN  IF operands = <<>> THEN << <<>> >> ELSE product[Len(operands)]

Negated(i) == Inequality(Scale(i, -1), ~i.strict)

NegateConjunction(poly) ==
  IF poly = <<>> THEN << <<Contradiction>> >>
  ELSE [k \in DOMAIN poly |-> <<Negated(poly[k])>>]

Negation(d) == DistributeAND([k \in DOMAIN d |-> NegateConjunction(d[k])])

\* A formula that is no comparison, from what its operands have become.
Connective(t, operands) ==
  LET dnf == [i \in DOMAIN operands |-> operands[i].dnf]
      ofOperands(d) == IF \A i \in DOMAIN operands : operands[i].st = "ok" THEN Ok(d) ELSE Failed
  IN  CASE t.op = "not" -> IF Len(dnf) = 1 THEN ofOperands(Negation(dnf[1])) ELSE Failed
        [] t.op = "and" -> ofOperands(DistributeAND(dnf))
        [] t.op = "or"  -> ofOperands(FlattenSeq(dnf))
        [] t.op \in {"var", "num"} ->
             Ok(CASE t.op = "var" /\ t.name = "true"  -> << <<Tautology>> >>
                  [] t.op = "var" /\ t.name = "false" -> << <<Contradiction>> >>
                  [] OTHER -> << <<>> >>)

----------------------------------------------------------------------------
(* What they mean for the valuation env of the names.                       *)

Value(a, env) == MapThenSumSet(LAMBDA x : a.coef[x] * env[x], DOMAIN a.coef) + a.const

Satisfied(i, env) == IF i.strict THEN Value(i, env) > 0 ELSE Value(i, env) >= 0

Inside(poly, env) == \A k \in DOMAIN poly : Satisfied(poly[k], env)

DNFHolds(d, env) == \E k \in DOMAIN d : Inside(d[k], env)
==============================================================================
