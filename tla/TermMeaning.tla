----------------------------- MODULE TermMeaning -----------------------------
(***************************************************************************)
(* What a term means: SMT-LIB's reading of it, from its leaves up.         *)
(***************************************************************************)
EXTENDS Terms

CONSTANT Universe  \* the integers a quantifier ranges over

ASSUME UniverseAssumption == Universe \subseteq Int

RECURSIVE Subterms(_)
Subterms(t) == {t} \cup UNION {Subterms(t.args[i]) : i \in DOMAIN t.args}

\* The values a quantifier's binders, each a name and its sort, may take together.
Bindings(binders) ==
  LET values(b) == IF b.args[1].name = "Bool" THEN BOOLEAN ELSE Universe
  IN  FoldLeft(LAMBDA Q, b : {(b.name :> e) @@ q : e \in values(b), q \in Q}, {<<>>}, binders)

RECURSIVE Eval(_, _)
Eval(t, env) ==
  LET v == [i \in DOMAIN t.args |-> Eval(t.args[i], env)]
      Valued(e, i) == (t.args[i].name :> v[i]) @@ e
      Under(q) == Eval(Last(t.args), q @@ env)
  IN CASE t.op = "bind"   -> v[1]
       [] t.op = "let"    -> Under(FoldLeft(Valued, <<>>, [i \in 1 .. Len(t.args) - 1 |-> i]))
       [] t.op = "forall" -> \A q \in Bindings(Front(t.args)) : Under(q)
       [] t.op = "exists" -> \E q \in Bindings(Front(t.args)) : Under(q)
       [] OTHER           -> Applied(t.op, t.n, Named(t.name, env), v)
==============================================================================
