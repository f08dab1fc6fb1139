------------------------------ MODULE MCFormula ------------------------------
(* Lines of the kinds the examples have: updates, guards, divisions, booleans, *)
(* arrays, calls and products, over the values -1..1.                          *)
EXTENDS TraceToSolver

x == Var("x")
y == Var("y")
z == Var("z")
b == Var("b")
a == Var("a")
c == Var("c")
m == Var("m")
k == Var("k")
h == Var("h")
f(t) == Call("f", t)
two == Num(2)
Not(t) == Op("not", <<t>>)
Lt(s, t) == Op("<", <<s, t>>)
Gt(s, t) == Op(">", <<s, t>>)
Div(s, t) == Op("div", <<s, t>>)
Mod(s, t) == Op("mod", <<s, t>>)
Select(s, t) == Op("select", <<s, t>>)
Store(s, i, t) == Op("store", <<s, i, t>>)

\* What an SSA variable of a line may be compared with.
Sides == {Num(0), x, Plus(x, One), Minus(y, x), Times(two, y), Op("-", <<x>>),
          Times(Minus(x, x), y), Div(x, two), Mod(Plus(x, y), two), Div(Num(3), two),
          Mod(x, Minus(Num(0), two)), Plus(Div(x, two), Mod(x, two)),
          Select(a, x), f(x), f(Div(y, two)), Plus(f(x), f(y)),
          Select(Store(a, x, y), x), Select(Store(a, x, One), y), Select(a, f(x)),
          Op("ite", <<b, x, y>>)}

Atoms == {Eq(z, t) : t \in Sides}
         \cup {Gt(x, y), Lt(x, One), Le(x, z), b, Not(b), True, Eq(z, Select(Select(m, x), y)),
               Eq(a, c), Not(Eq(a, c)), Eq(a, Store(c, x, y))}

Conditions ==
  {Not(Eq(x, t)) : t \in {y, Div(y, two), f(y)}}
  \cup {Not(Gt(x, y)), Not(And(<<Lt(x, y), Le(z, x)>>)), Not(Or(<<Gt(x, y), b>>)),
        Or(<<Gt(x, Num(0)), Lt(x, Num(0)), Eq(z, y)>>), Or(<<Eq(x, Num(0)), Gt(x, y)>>),
        And(<<Or(<<Gt(x, y), b>>), Or(<<Lt(x, One), Not(b)>>)>>),
        And(<<Gt(x, Num(0)), Lt(x, Num(0))>>),
        Op("=>", <<b, Gt(x, y)>>), Op("=", <<x, y, z>>), And(<<>>), Or(<<>>),
        Le(Mod(x, two), Mod(y, two)), Not(Lt(Div(x, two), y)),
        Let(<<Bind("u", Plus(x, One)), Bind("w", y)>>, Eq(z, Plus(Var("u"), Var("w")))),
        Let(<<Bind("u", x)>>, Let(<<Bind("u", Plus(Var("u"), One))>>, Gt(z, Var("u"))))}

WithProducts ==
  {Eq(z, Times(x, y)), Gt(Times(x, x), y), And(<<Lt(x, y), Gt(Times(x, y), Num(0))>>),
   Or(<<Lt(x, y), Gt(Times(x, y), Num(0))>>), Eq(z, Op("*", <<two, x, y>>)),
   Eq(z, Times(f(x), y))}

Modes == {"overapproximate", "underapproximate", "none"}

Trace(stem, loop, axioms, nlaMode, ints) ==
  [stem |-> stem, loop |-> loop, axioms |-> axioms, nla |-> nlaMode, integerMode |-> ints]

SecondLines == {Eq(x, Div(x, two)), Eq(y, f(x)), Gt(Mod(x, two), y), Le(Select(a, x), y)}

Divisions(t) == {u.args : u \in {w \in Subterms(t) : w.op \in {"div", "mod"}}}

\* Quantified formulas: the techniques that read the formulas raw accept them.
Quantified ==
  {Exists("w", And(<<Gt(z, Var("w")), Lt(Var("w"), y)>>)), Forall("x", Le(f(x), One)),
   Let(<<Bind("u", Plus(y, One))>>, Exists("w", Eq(Var("u"), Plus(Var("w"), x)))),
   Quantifier("forall", "p", "Bool", Or(<<Var("p"), Lt(x, y)>>)),
   Quantifier("exists", "x", "Bool", And(<<Var("x"), Lt(y, z)>>)),
   Op("distinct", <<x, y>>)}

\* k is a constant, h an auxiliary variable of a havoc.
WithOtherNames == {Eq(z, Plus(k, h)), And(<<Lt(k, f(h)), Gt(z, k)>>)}

Axioms == {<<Forall("x", Op(">=", <<f(x), Num(0)>>))>>, <<Gt(f(Num(0)), f(One))>>,
           <<Le(f(k), k)>>}

\* A stem and a loop that divide the same terms share the quotient, whose
\* constraint only the stem has: these are in mcSharedDivision.
mcTraces ==
  {Trace(<<>>, <<t>>, <<>>, "overapproximate", ints) :
     t \in Atoms \cup Conditions \cup Quantified \cup WithOtherNames, ints \in BOOLEAN}
  \cup {Trace(<<>>, <<t>>, <<>>, mode0, TRUE) : t \in WithProducts, mode0 \in Modes}
  \cup {Trace(<<>>, <<Eq(z, s), u>>, <<>>, "none", TRUE) : s \in Sides, u \in SecondLines}
  \cup {Trace(<<Eq(z, s)>>, <<u>>, <<>>, "underapproximate", FALSE) :
          <<s, u>> \in {p \in Sides \X SecondLines : Divisions(p[1]) \cap Divisions(p[2]) = {}}}
  \cup {Trace(<<>>, <<t>>, q, "overapproximate", TRUE) : t \in {Eq(z, f(x)), Lt(x, y)}, q \in Axioms}

\* A guard the program writes with not over a product.
mcNegatedProducts == {Trace(<<>>, <<Not(Lt(Times(x, y), Num(0)))>>, <<>>, "overapproximate", TRUE),
                      Trace(<<>>, <<Not(Gt(Times(x, x), y))>>, <<>>, "overapproximate", TRUE)}

\* Traces no run reads; README.md says which property each of them breaks.
mcSharedDivision ==
  {Trace(<<Eq(z, Div(x, two))>>, <<Eq(y, Div(x, two))>>, <<>>, "overapproximate", TRUE)}
mcSwap ==
  {Trace(<<>>, <<Let(<<Bind("x", y), Bind("y", x)>>, Lt(x, y))>>, <<>>, "overapproximate", TRUE)}
mcCapture ==
  {Trace(<<>>, <<Let(<<Bind("u", x)>>, Exists("x", Lt(x, Var("u"))))>>, <<>>, "overapproximate", TRUE)}

Values == -1..1
Arrays == [Values -> 0..1]

mcUniverse == Values

mcSorts == [n \in {"x", "y", "z", "k", "h"} |-> "Int"] @@ [n \in {"a", "c"} |-> "Array"]
           @@ ("m" :> "Arrays") @@ ("b" :> "Bool")

mcValuesOf == [n \in {"x", "y", "z", "k", "h"} |-> Values] @@ [n \in {"a", "c", "f"} |-> Arrays]
              @@ ("b" :> BOOLEAN)
              @@ ("m" :> {[i \in Values |-> g] : g \in Arrays})

mcAuxValues == -2..2
==============================================================================
