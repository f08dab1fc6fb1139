-------------------------------- MODULE Terms --------------------------------
(***************************************************************************)
(* The SMT-LIB terms of a trace, as trees: what sexpr_utils.h splits one   *)
(* level at a time out of the text (splitSExpr), without the text.  The    *)
(* module also says what an operator makes of its arguments' values in     *)
(* SMT-LIB, with which every component that rewrites or reads a formula is *)
(* compared (TermMeaning says it of terms).                                *)
(*   num: the number n          var: the variable name (true, false too)   *)
(*   call: name(args)           bind: name is worth args[1]                *)
(*   let, forall, exists: bind, ..., bind, body (a quantifier's bind has   *)
(*   the sort of its name)                                                 *)
(* any other op is the SMT-LIB operator of that name.                      *)
(***************************************************************************)
EXTENDS Integers, SequencesExt

Term(op, name, n, args) == [op |-> op, name |-> name, n |-> n, args |-> args]

Num(n) == Term("num", "", n, <<>>)
Var(x) == Term("var", x, 0, <<>>)
Op(op, args) == Term(op, "", 0, args)
Call(f, x) == Term("call", f, 0, <<x>>)
Bind(x, t) == Term("bind", x, 0, <<t>>)
Let(bindings, body) == Term("let", "", 0, bindings \o <<body>>)

Quantifier(op, x, sort, body) == Op(op, <<Bind(x, Var(sort)), body>>)
Forall(x, body) == Quantifier("forall", x, "Int", body)
Exists(x, body) == Quantifier("exists", x, "Int", body)

True == Var("true")
False == Var("false")
One == Num(1)

Le(a, b) == Op("<=", <<a, b>>)
Ge(a, b) == Op(">=", <<a, b>>)
Eq(a, b) == Op("=", <<a, b>>)
And(args) == Op("and", args)
Or(args) == Op("or", args)
Plus(a, b) == Op("+", <<a, b>>)
Minus(a, b) == Op("-", <<a, b>>)
Times(a, b) == Op("*", <<a, b>>)

\* The term t, with other arguments.
With(t, args) == Term(t.op, t.name, t.n, args)

\* SMT-LIB's integer division: the remainder is never negative.
Quotient(a, b) == IF b > 0 THEN a \div b ELSE -(a \div (-b))
Remainder(a, b) == IF b > 0 THEN a % b ELSE a % (-b)

\* An array, or a function of one argument, is 0 where nothing was given.
Read(a, i) == IF i \in DOMAIN a THEN a[i] ELSE 0
Written(a, i, x) == [k \in {i} \cup DOMAIN a |-> IF k = i THEN x ELSE a[k]]

\* v[1] + ... + v[Len(v)]
Total(v) == LET sum[k \in 0 .. Len(v)] == IF k = 0 THEN 0 ELSE sum[k - 1] + v[k]
            IN  sum[Len(v)]

Named(x, env) == IF x \in {"true", "false"} THEN x = "true" ELSE env[x]

\* The value of the operator op when v are the values of its arguments.
Operation(op, v) ==
  LET All(P(_, _)) == \A i \in 2 .. Len(v) : P(v[i - 1], v[i])
  IN CASE op = "and"    -> \A i \in DOMAIN v : v[i]
       [] op = "or"     -> \E i \in DOMAIN v : v[i]
       [] op = "not"    -> ~v[1]
       [] op = "=>"     -> v[1] => v[2]
       [] op = "ite"    -> IF v[1] THEN v[2] ELSE v[3]
       [] op = "="      -> All(LAMBDA a, b : a = b)
       [] op = "distinct" -> IsInjective(v)
       [] op = "<="     -> All(LAMBDA a, b : a =< b)
       [] op = "<"      -> All(LAMBDA a, b : a < b)
       [] op = ">="     -> All(LAMBDA a, b : a >= b)
       [] op = ">"      -> All(LAMBDA a, b : a > b)
       [] op = "+"      -> Total(v)
       [] op = "*"      -> IF Len(v) = 2 THEN v[1] * v[2] ELSE FoldLeft(LAMBDA a, b : a * b, 1, v)
       [] op = "-"      -> CASE Len(v) = 1 -> -v[1]
                             [] Len(v) = 2 -> v[1] - v[2]
                             [] OTHER -> FoldLeft(LAMBDA a, b : a - b, v[1], Tail(v))
       [] op = "div"    -> Quotient(v[1], v[2])
       [] op = "mod"    -> Remainder(v[1], v[2])
       [] op = "select" -> Read(v[1], v[2])
       [] op = "store"  -> Written(v[1], v[2], v[3])

\* The same of the operator of a term, n being a numeral's number and x what its name
\* is worth.  It says nothing of what binds names.
Applied(op, n, x, v) ==
  CASE op = "num"  -> n
    [] op = "var"  -> x
    [] op = "call" -> Read(x, v[1])
    [] OTHER       -> Operation(op, v)
==============================================================================
