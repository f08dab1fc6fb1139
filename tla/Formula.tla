------------------------------- MODULE Formula -------------------------------
(***************************************************************************)
(* From the formula of a transition line to its polyhedra:                 *)
(* JsonTraceParser::parseTransition with linearize, the handlers of        *)
(* src/rewriting/, those of src/linearization/, and SMTParser.             *)
(*                                                                         *)
(* A behaviour reads the lines of the stem, then those of the loop.  A     *)
(* line goes through the handlers the parser installed, one action each,   *)
(* and ends as a DNF, a sequence of polyhedra.  A line whose parsing       *)
(* throws keeps an empty DNF, which everything after it takes for TRUE     *)
(* (transition.cpp:263).  The handlers keep their caches from one line to  *)
(* the next, and from the stem to the loop.                                *)
(*                                                                         *)
(* Not modelled: the real division "/", whose quotients are no integers,   *)
(* and the expansion of store equalities (array_handler.cpp:130-284):      *)
(* RewriteEquality has replaced every equality when it looks for them.     *)
(***************************************************************************)
EXTENDS TermMeaning, Rewriting, Polyhedra

CONSTANTS
  Traces,     \* what may be read: [stem, loop (sequences of lines), axioms, nla, integerMode]
  Sorts,      \* the sort of every SSA variable: Int, Bool, Array or Arrays (of arrays)
  FunctionNames  \* the functions the trace declares

\* nla is what -nla says (NLA_HANDLING), integerMode whether a variable is an Int.
ASSUME TracesAssumption ==
  \A t \in Traces : /\ t.nla \in {"overapproximate", "underapproximate", "none"}
                    /\ t.integerMode \in BOOLEAN

VARIABLES
  trace,        \* the trace
  mode,         \* "reading", or how it was handed over: "linearized", "raw"
  at,           \* the line being read
  stage,        \* how many of the handlers have treated it
  formula,      \* formula_to_parse
  divMod,       \* RewriteDivisionMod: its cache, and the constraints of this line
  calls,        \* FormulaLinearizer::m_abstractions, in the order of their creation
  dnfs          \* the dnf of every line read

formulaVars == <<trace, mode, at, stage, formula, divMod, calls, dnfs>>

\* var_types names program variables; an SSA name contains its variable's.
BoolVars == {x \in DOMAIN Sorts : Sorts[x] = "Bool"}
ArrayVars == {x \in DOMAIN Sorts : Sorts[x] \in {"Array", "Arrays"}}

nla == trace.nla
integerMode == trace.integerMode
lines == trace.stem \o trace.loop

HasOp(ops) == \E i \in DOMAIN lines : \E t \in Subterms(lines[i]) : t.op \in ops

HasDivMod == HasOp({"div", "mod"})
NeedsLinearizer == FunctionNames # {} \/ ArrayVars # {} \/ HasDivMod \/ BoolVars # {}

\* The handlers parse() installs, in its order, and the two last steps.
Handlers ==
  LET If(condition, name) == IF condition THEN <<name>> ELSE <<>>
  IN  <<"let">> \o If(HasDivMod, "divmod") \o If(BoolVars # {}, "booleans")
      \o <<"equality">> \o If(integerMode, "strict")
      \o If(NeedsLinearizer, "linearizer") \o <<"dnf">>

----------------------------------------------------------------------------
(* The handlers: Rewriting, down the term.                                  *)

RECURSIVE Substitute(_, _, _)
Substitute(t, x, u) == Substituted(t, x, u, [arg \in TermsBelow(t) |-> Substitute(arg, x, u)])

\* The bindings are substituted one after the other.
RECURSIVE RewriteLet(_)
RewriteLet(t) ==
  LET args == [i \in DOMAIN t.args |-> RewriteLet(t.args[i])]
  IN  IF t.op = "let"
      THEN FoldLeft(LAMBDA body, b : Substitute(body, b.name, b.args[1]), Last(args), Front(args))
      ELSE With(t, args)

RECURSIVE RewriteBooleans(_), RewriteEquality(_), RewriteStrict(_), SimplifySelectStore(_)
RewriteBooleans(t) == WithoutBooleans(t, [u \in TermsBelow(t) |-> RewriteBooleans(u)], BoolVars)
RewriteEquality(t) == WithoutEquality(t, [u \in TermsBelow(t) |-> RewriteEquality(u)], integerMode)
RewriteStrict(t) == WithoutStrict(t, [u \in TermsBelow(t) |-> RewriteStrict(u)])

SimplifySelectStore(t) ==
  LET treated == Throughout(t, [u \in TermsBelow(t) |-> SimplifySelectStore(u)])
  IN  ReadOverWrite(treated, SimplifySelectStore(ReadBelow(treated)))

RECURSIVE DivModExpr(_, _), LinearizeExpr(_, _)
DivModExpr(t, s) == WithoutDivMod(t, InOrder(DivModExpr, t, s))
LinearizeExpr(t, s) == WithoutCalls(t, InOrder(LinearizeExpr, t, s), FunctionNames, ArrayVars # {})

----------------------------------------------------------------------------
(* SMTParser: Polyhedra, from the leaves of the term up.                    *)

RECURSIVE ParseArithExpr(_)
ParseArithExpr(t) == ArithExpr(t, [i \in DOMAIN t.args |-> ParseArithExpr(t.args[i])])

RECURSIVE ParseFormulaToDNF(_)
ParseFormulaToDNF(t) ==
  IF t.op \in {"not", "and", "or", "var", "num"}
  THEN Connective(t, [i \in DOMAIN t.args |-> ParseFormulaToDNF(t.args[i])])
  ELSE AtomicFormula(t, [i \in DOMAIN t.args |-> ParseArithExpr(t.args[i])], nla)

----------------------------------------------------------------------------
(* Reading the lines of a trace.                                            *)

FormulaInit ==
  /\ trace \in Traces /\ mode = "reading"
  /\ at = 1 /\ stage = 0 /\ formula = True
  /\ divMod = [cache |-> <<>>, constraints |-> <<>>]
  /\ calls = <<>> /\ dnfs = <<>>

\* The formula true is replaced where it is read.
ReadLine ==
  /\ mode = "reading" /\ stage = 0 /\ at =< Len(lines)
  /\ formula' = IF lines[at] = True THEN Ge(One, Num(0)) ELSE lines[at]
  /\ stage' = 1
  /\ UNCHANGED <<trace, mode, at, divMod, calls, dnfs>>

Turn(name) == stage > 0 /\ Handlers[stage] = name /\ stage' = stage + 1

Rewrite(name, rewritten) ==
  Turn(name) /\ formula' = rewritten /\ UNCHANGED <<trace, mode, at, divMod, calls, dnfs>>

RewriteLets == Rewrite("let", RewriteLet(formula))
RewriteBooleanVars == Rewrite("booleans", RewriteBooleans(formula))
RewriteEqualities == Rewrite("equality", RewriteEquality(formula))
RewriteStrictInequalities == Rewrite("strict", RewriteStrict(formula))

\* The constraints of the variables made for this line are conjoined to it.
RewriteDivisionMod ==
  /\ Turn("divmod")
  /\ LET r == DivModExpr(formula, [divMod EXCEPT !.constraints = <<>>])
     IN  /\ divMod' = r.s
         /\ formula' = IF r.s.constraints = <<>> THEN r.t ELSE And(<<r.t>> \o r.s.constraints)
  /\ UNCHANGED <<trace, mode, at, calls, dnfs>>

Linearize ==
  /\ Turn("linearizer")
  /\ LET r == LinearizeExpr(IF ArrayVars # {} THEN SimplifySelectStore(formula) ELSE formula, calls)
     IN  formula' = r.t /\ calls' = r.s
  /\ UNCHANGED <<trace, mode, at, divMod, dnfs>>

\* Seeded fault: a line that cannot be parsed leaves no DNF at all.
ParseToDNF_Dropped ==
  /\ stage > 0 /\ Handlers[stage] = "dnf"
  /\ LET r == ParseFormulaToDNF(formula)
     IN  dnfs' = IF r.st = "ok" THEN Append(dnfs, r.dnf) ELSE dnfs
  /\ at' = at + 1 /\ stage' = 0
  /\ UNCHANGED <<trace, mode, formula, divMod, calls>>

\* Whatever parsing throws is caught: the line keeps an empty DNF.
ParseToDNF ==
  /\ stage > 0 /\ Handlers[stage] = "dnf"
  /\ dnfs' = Append(dnfs, ParseFormulaToDNF(formula).dnf)
  /\ at' = at + 1 /\ stage' = 0
  /\ UNCHANGED <<trace, mode, formula, divMod, calls>>

FormulaNext == \/ ReadLine \/ RewriteLets \/ RewriteDivisionMod \/ RewriteBooleanVars
               \/ RewriteEqualities \/ RewriteStrictInequalities \/ Linearize \/ ParseToDNF
==============================================================================
