------------------------------ MODULE SmtReader ------------------------------
(***************************************************************************)
(* How the wrappers SMTSolverZ3 and SMTSolverCVC5 are told about a lasso:  *)
(* LassoProgram::declareSolverContext, then, when the formulas are not     *)
(* linearized, the raw formulas (fixpoint_technique.cpp:122 and 201).  The *)
(* wrappers declare, read the text of an assertion into a term of their    *)
(* solver, and assert it.  What a session does afterwards is               *)
(* SolverSession.                                                          *)
(*                                                                         *)
(* Of the sorts the model has Int, Bool, arrays of Int and arrays of those;*)
(* an ill-sorted application is an exception of the solver's interface    *)
(* (true of equalities and reads; z3++ asserts the sorts of a sum, which   *)
(* no trace gets wrong).                                                   *)
(***************************************************************************)
EXTENDS Terms

VARIABLES
  backend,      \* the wrapper: "z3" or "cvc5"
  todo,         \* the calls still to be made to it
  variables,    \* m_variables: the sort of every declared name
  functions,    \* m_functions: [domain, range] of every declared function
  asked,        \* the axioms and assertions it was called with
  assertions,   \* the terms it asserted
  interrupted,  \* m_interrupted
  thrown        \* an exception left the wrapper

readerVars == <<backend, todo, variables, functions, asked, assertions, interrupted, thrown>>

Request(call, name, sort, term) == [call |-> call, name |-> name, sort |-> sort, term |-> term]

Got(term, sort) == [st |-> "ok", t |-> term, sort |-> sort]
RuntimeError == [st |-> "error", t |-> True, sort |-> ""]
SolverException == [st |-> "solver", t |-> True, sort |-> ""]

\* buildTerm: the operators, with the numbers of arguments they take.
Arity(op, n) == CASE op \in {"+", "-", "*", "and", "or"} -> n >= 1
                  [] op = "distinct" -> n >= 2
                  [] op = "not" -> n = 1
                  [] op \in {"ite", "store"} -> n = 3
                  [] op \in {"div", "mod", "=", "<", "<=", ">", ">=", "=>", "select"} -> n = 2
                  [] OTHER -> FALSE

\* The sort of an application, none when it is ill-sorted.
SortOf(op, s) ==
  LET among(S, result) == IF Range(s) \subseteq S THEN result ELSE "none"
  IN  CASE op \in {"+", "-", "*", "div", "mod"} -> among({"Int"}, "Int")
        [] op \in {"<", "<=", ">", ">="} -> among({"Int"}, "Bool")
        [] op \in {"and", "or", "not", "=>"} -> among({"Bool"}, "Bool")
        [] op \in {"=", "distinct"} -> among({s[1]}, "Bool")
        [] op = "ite" -> IF s[1] = "Bool" /\ s[2] = s[3] THEN s[2] ELSE "none"
        [] op = "select" -> CASE s = <<"Array", "Int">> -> "Int"
                              [] s = <<"Arrays", "Int">> -> "Array"
                              [] OTHER -> "none"
        [] op = "store" -> IF s = <<"Array", "Int", "Int">> THEN "Array" ELSE "none"

Built(t, args) ==
  LET s == [i \in DOMAIN args |-> args[i].sort]
      sort == IF t.op # "call" THEN SortOf(t.op, s)
              ELSE IF s = functions[t.name].domain THEN functions[t.name].range ELSE "none"
  IN  IF IF t.op = "call" THEN t.name \notin DOMAIN functions ELSE ~Arity(t.op, Len(args))
      THEN RuntimeError
      ELSE IF sort = "none" THEN SolverException
      ELSE Got([t EXCEPT !.args = [i \in DOMAIN args |-> args[i].t]], sort)

\* The sort of a binder; another one is Int to CVC5's wrapper, and no trace has one.
BinderSort(b) == IF b.args[1].name = "Bool" THEN "Bool" ELSE "Int"

\* Z3 binds the constant of that name and sort; CVC5 makes a variable that is new.
BoundName(b, depth) ==
  LET same == b.name \in DOMAIN variables => variables[b.name] = BinderSort(b)
  IN  IF backend = "z3" /\ same THEN b.name ELSE b.name \o "'" \o ToString(depth)

FirstFailure(read, otherwise) ==
  LET failures == SelectSeq(read, LAMBDA r : r.st # "ok")
  IN  IF failures = <<>> THEN otherwise ELSE failures[1]

\* bound maps a name to what was read for it: with the binders of t, bound to Value.
BoundBy(t, bound, Value(_)) ==
  FoldLeft(LAMBDA m, i : (t.args[i].name :> Value(i)) @@ m, bound,
           [i \in 1 .. Len(t.args) - 1 |-> i])

\* parseSexpTokensWithBindings, parseLet and parseQuantifier.
RECURSIVE ReadTerm(_, _, _), ReadLet(_, _, _), ReadQuantifier(_, _, _)

\* The terms are read under the outer bindings, whatever they are called.
ReadLet(t, bound, depth) ==
  LET terms == [i \in 1 .. Len(t.args) - 1 |-> ReadTerm(t.args[i].args[1], bound, depth + 1)]
  IN  FirstFailure(terms, ReadTerm(Last(t.args), BoundBy(t, bound, LAMBDA i : terms[i]), depth + 1))

ReadQuantifier(t, bound, depth) ==
  LET quantified(i) == Got(Var(BoundName(t.args[i], depth)), BinderSort(t.args[i]))
      body == ReadTerm(Last(t.args), BoundBy(t, bound, quantified), depth + 1)
      binders == [i \in 1 .. Len(t.args) - 1 |-> [t.args[i] EXCEPT !.name = BoundName(t.args[i], depth)]]
  IN  IF body.st # "ok" THEN body
      ELSE IF body.sort # "Bool" THEN SolverException
      ELSE Got([t EXCEPT !.args = Append(binders, body.t)], "Bool")

\* A bound name hides a declared one, which hides true and false.
ReadTerm(t, bound, depth) ==
  CASE t.op = "num" -> Got(t, "Int")
    [] t.op = "var" -> IF t.name \in DOMAIN bound THEN bound[t.name]
                       ELSE IF t.name \in DOMAIN variables THEN Got(t, variables[t.name])
                       ELSE IF t \in {True, False} THEN Got(t, "Bool")
                       ELSE RuntimeError
    [] t.op = "let" -> ReadLet(t, bound, depth)
    [] t.op \in {"forall", "exists"} -> ReadQuantifier(t, bound, depth)
    [] OTHER -> LET read == [i \in DOMAIN t.args |-> ReadTerm(t.args[i], bound, depth + 1)]
                IN  FirstFailure(read, Built(t, read))

\* parseSmtLib2, and the solver's refusal of what is no formula.
ParseSmtLib2(t) == LET r == ReadTerm(t, <<>>, 0)
                   IN  IF r.st = "ok" /\ r.sort # "Bool" THEN SolverException ELSE r

----------------------------------------------------------------------------
ReaderInit ==
  /\ backend \in {"z3", "cvc5"}
  /\ todo = <<>> /\ variables = <<>> /\ functions = <<>>
  /\ asked = <<>> /\ assertions = <<>>
  /\ interrupted = FALSE /\ thrown = FALSE

\* Z3's wrapper declares and asserts nothing once interrupted; CVC5's goes on.
Deaf == interrupted /\ backend = "z3"

Called(call) == /\ ~thrown /\ todo # <<>> /\ Head(todo).call = call
                /\ todo' = Tail(todo)

DeclareVariable ==
  /\ Called("declareVariable")
  /\ variables' = IF Deaf THEN variables
                  ELSE variables @@ (Head(todo).name :> Head(todo).sort)
  /\ UNCHANGED <<backend, functions, asked, assertions, interrupted, thrown>>

\* Seeded fault: the function is declared as a variable.
DeclareFunction_AsVariable ==
  /\ Called("declareFunction")
  /\ variables' = variables @@ (Head(todo).name :> "Int")
  /\ UNCHANGED <<backend, functions, asked, assertions, interrupted, thrown>>

DeclareFunction ==
  /\ Called("declareFunction")
  /\ functions' = functions @@ (Head(todo).name :> Head(todo).sort)
  /\ UNCHANGED <<backend, variables, asked, assertions, interrupted, thrown>>

\* An axiom is read whether interrupted or not; every exception goes on.
AddAxiom ==
  /\ Called("addAxiom")
  /\ LET r == ParseSmtLib2(Head(todo).term)
     IN  /\ thrown' = (r.st # "ok")
         /\ assertions' = IF r.st = "ok" THEN Append(assertions, r.t) ELSE assertions
  /\ asked' = Append(asked, Head(todo).term)
  /\ UNCHANGED <<backend, variables, functions, interrupted>>

\* Seeded fault: Z3's exception is swallowed and nothing remembers it.
AddAssertion_Forgotten ==
  /\ Called("addAssertion")
  /\ LET r == ParseSmtLib2(Head(todo).term)
     IN  /\ assertions' = IF r.st = "ok" /\ ~Deaf THEN Append(assertions, r.t) ELSE assertions
         /\ thrown' = (r.st # "ok" /\ ~Deaf /\ ~(r.st = "solver" /\ backend = "z3"))
  /\ asked' = Append(asked, Head(todo).term)
  /\ UNCHANGED <<backend, variables, functions, interrupted>>

\* Z3's wrapper turns an exception of the solver into an interruption.
AddAssertion ==
  /\ Called("addAssertion")
  /\ LET r == ParseSmtLib2(Head(todo).term)
         swallowed == r.st = "solver" /\ backend = "z3"
     IN  IF Deaf THEN UNCHANGED <<assertions, interrupted, thrown>>
         ELSE /\ assertions' = IF r.st = "ok" THEN Append(assertions, r.t) ELSE assertions
              /\ interrupted' = (interrupted \/ swallowed)
              /\ thrown' = (r.st # "ok" /\ ~swallowed)
  /\ asked' = Append(asked, Head(todo).term)
  /\ UNCHANGED <<backend, variables, functions>>

\* cancel() of the technique, from another thread.
InterruptReader ==
  /\ todo # <<>> /\ ~thrown
  /\ interrupted' = TRUE
  /\ UNCHANGED <<backend, todo, variables, functions, asked, assertions, thrown>>

ReaderNext == \/ DeclareVariable \/ DeclareFunction \/ AddAxiom \/ AddAssertion \/ InterruptReader
==============================================================================
