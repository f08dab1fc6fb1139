---------------------------- MODULE FormulaMeaning ----------------------------
(***************************************************************************)
(* What the polyhedra of a part have to do with its formulas.  A valuation *)
(* gives every name of the trace a value; the names the handlers made are  *)
(* worth what they stand for.                                              *)
(***************************************************************************)
EXTENDS Formula

CONSTANTS
  ValuesOf,    \* the values tried for every name of the trace
  AuxValues    \* the values tried for a quotient or a remainder

ASSUME ValuesAssumption == DOMAIN ValuesOf = DOMAIN Sorts \cup FunctionNames

TermsOf(formulas) == UNION {Subterms(t) : t \in Range(formulas)}

\* array_handler.cpp:75 supposes that two index terms are two indices.
IndicesDiffer(v) ==
  \A s, t \in {u.args[2] : u \in {w \in TermsOf(lines) : w.op \in {"select", "store"}}} :
    s # t => Eval(s, v) # Eval(t, v)

\* The valuations of the names the trace uses.
Valuations ==
  LET used == {t.name : t \in TermsOf(lines \o trace.axioms)} \cap DOMAIN ValuesOf
      all == FoldSet(LAMBDA n, V : {(n :> e) @@ v : e \in ValuesOf[n], v \in V}, {<<>>}, used)
  IN  IF HasOp({"store"}) THEN {v \in all : IndicesDiffer(v)} ELSE all

\* The valuation v, with what every name of the cache stands for.
Extended(cache, v) == FoldLeft(LAMBDA env, e : (e.name :> Eval(e.call, env)) @@ env, v, cache)

\* An array of digits as the number it writes: two arrays are two numbers.
ArrayNumber(a) ==
  MapThenSumSet(LAMBDA i : a[i] * 10 ^ Cardinality({j \in DOMAIN a : j < i}), DOMAIN a)

\* As the polyhedra see it: true is 1, and an array is a number.
AsNumbers(env) == [x \in DOMAIN env |-> CASE x \in BoolVars -> IF env[x] THEN 1 ELSE 0
                                           [] x \in ArrayVars -> ArrayNumber(env[x])
                                           [] OTHER -> env[x]]

\* An empty DNF is TRUE for everything that reads it.
PolyhedraHold(part, env) ==
  \A l \in part : dnfs[l] = <<>> \/ DNFHolds(dnfs[l], env)

FormulasHold(part, v) == \A l \in part : Eval(lines[l], v)

\* The lines of the stem and those of the loop, when the trace has been read.
Parts == IF mode # "reading" \/ at =< Len(lines) THEN {}
         ELSE {1 .. Len(trace.stem), Len(trace.stem) + 1 .. Len(lines)}

\* The products SMTParser may hand to -nla.
Products == {t \in TermsOf(lines) : /\ t.op = "*"
                           /\ \/ Len(t.args) # 2
                              \/ \A u \in Range(t.args) : \E w \in Subterms(u) : w.op = "var"}

\* Type invariant: every line read has one DNF, over names of the trace or of
\* the caches, and no name of a cache stands for two calls.
FormulaTypeOK ==
  LET names == {e.name : e \in Range(divMod.cache \o calls)}
  IN  /\ stage \in 0 .. Len(Handlers)
      /\ Len(dnfs) = at - 1 /\ at \in 1 .. Len(lines) + 1
      /\ Cardinality(names) = Len(divMod.cache) + Len(calls)
      /\ \A l \in DOMAIN dnfs : \A p \in Range(dnfs[l]) : \A i \in Range(p) :
           /\ i.const \in Int /\ i.strict \in BOOLEAN
           /\ DOMAIN i.coef \subseteq names \cup DOMAIN ValuesOf
           /\ \A x \in DOMAIN i.coef : i.coef[x] \in Int \ {0}

\* Soundness of a termination argument (parseTransition and everything it
\* calls): unless -nla is underapproximate, every execution of a part is in its
\* polyhedra, with the made names worth what they stand for.
NothingIsLost ==
  nla # "underapproximate" =>
    \A part \in Parts : \A v \in Valuations :
      FormulasHold(part, v) => PolyhedraHold(part, AsNumbers(Extended(divMod.cache \o calls, v)))

\* Soundness of a non-termination argument: when no line was given up and no
\* product was over-approximated, the polyhedra of a part hold of its executions
\* only, whatever quotients and remainders the solver picks.
NothingIsAdded ==
  /\ \A l \in DOMAIN dnfs : dnfs[l] # <<>>
  /\ Products = {} \/ nla = "underapproximate"
  => \A part \in Parts : \A v \in Valuations :
       \A aux \in [{e.name : e \in Range(divMod.cache)} -> AuxValues] :
         PolyhedraHold(part, AsNumbers(Extended(calls, aux @@ v))) => FormulasHold(part, v)
===============================================================================
