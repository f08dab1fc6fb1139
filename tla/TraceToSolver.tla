---------------------------- MODULE TraceToSolver ----------------------------
(***************************************************************************)
(* The parser and a solver's wrapper together: a trace is read (Formula),  *)
(* or kept raw for the techniques that need no linear formula, and the     *)
(* wrapper is then told about the lasso (SmtReader).                       *)
(*                                                                         *)
(* All lines name a variable alike, and a line's maps have the variables   *)
(* of its formula.  So composing the lines renames nothing; LassoCalls is  *)
(* about lines with names of their own.                                    *)
(***************************************************************************)
EXTENDS FormulaMeaning, SmtReader

CONSTANTS
  Constants,  \* the names the trace declares as constants
  FreeVars    \* those it lists as aux_vars of a line; the others are variables'

ASSUME NamesAssumption ==
  /\ Constants \subseteq DOMAIN Sorts /\ FreeVars \subseteq DOMAIN Sorts \ Constants
  /\ \A n \in FreeVars : Sorts[n] = "Int"

vars == <<formulaVars, readerVars>>
lineVars == <<trace, at, stage, formula, divMod, calls, dnfs>>

Declare(name, sort) == Request("declareVariable", name, sort, True)
ToAssert(t) == Request("addAssertion", "", "", t)
Each(S, R(_)) == FoldSet(LAMBDA e, q : Append(q, R(e)), <<>>, S)
All(q, R(_)) == [i \in DOMAIN q |-> R(q[i])]

\* A boolean variable is an Int once the formulas are linearized.
SortOfVariable(n, linearized) ==
  IF linearized /\ Sorts[n] = "Bool" THEN "Int" ELSE Sorts[n]

Variables == DOMAIN Sorts \ (Constants \cup FreeVars)
Mentioned(formulas) == {t.name : t \in {u \in TermsOf(formulas) : u.op = "var"}}

\* The variables that the loop's first line reads and the stem's formulas do not
\* mention: the stem ends with a fresh name for them (removeDeadVariables and step
\* 7b of parseToLasso; a linearized lasso's variables have no arrays).
LeftFresh ==
  IF trace.stem = <<>> \/ trace.loop = <<>> THEN {}
  ELSE (Mentioned(<<Head(trace.loop)>>) \ Mentioned(trace.stem)) \cap (Variables \ ArrayVars)

FreshName(n) == "v_" \o n \o "_fresh_stem_out"

\* storeAbstractFunctionsToLasso: in every call, of the stem's lines and the loop's,
\* the name the loop's first line reads becomes the one the stem ends with.
StoredCalls ==
  All(calls, LAMBDA e : [e EXCEPT !.call =
    FoldSet(LAMBDA n, t : Substitute(t, n, Var(FreshName(n))), @, LeftFresh)])

\* Seeded fault: the linearizer's names are declared and left free.
Context_Free(linearized) ==
  Each(Constants, LAMBDA n : Declare(n, Sorts[n]))
  \o Each(FunctionNames, LAMBDA f : Request("declareFunction", f,
                                            [domain |-> <<"Int">>, range |-> "Int"], True))
  \o All(trace.axioms, LAMBDA t : Request("addAxiom", "", "", t))
  \o Each(Variables, LAMBDA n : Declare(n, SortOfVariable(n, linearized)))
  \o Each(LeftFresh, LAMBDA n : Declare(FreshName(n), SortOfVariable(n, linearized)))
  \o All(divMod.cache \o calls, LAMBDA e : Declare(e.name, "Int"))
  \o Each(FreeVars, LAMBDA n : Declare(n, "Int"))

\* The calls declareSolverContext makes: the constants (their values are not
\* asserted), functions, axioms, the variables of the transitions, the names the
\* handlers made, with what they stand for, and the auxiliary variables.
Context(linearized) ==
  Each(Constants, LAMBDA n : Declare(n, Sorts[n]))
  \o Each(FunctionNames, LAMBDA f : Request("declareFunction", f,
                                            [domain |-> <<"Int">>, range |-> "Int"], True))
  \o All(trace.axioms, LAMBDA t : Request("addAxiom", "", "", t))
  \o Each(Variables, LAMBDA n : Declare(n, SortOfVariable(n, linearized)))
  \o Each(LeftFresh, LAMBDA n : Declare(FreshName(n), SortOfVariable(n, linearized)))
  \o All(divMod.cache, LAMBDA e : Declare(e.name, "Int"))
  \o FlattenSeq(All(StoredCalls,
       LAMBDA e : <<Declare(e.name, "Int"), ToAssert(Eq(Var(e.name), e.call))>>))
  \o Each(FreeVars, LAMBDA n : Declare(n, "Int"))

Init == FormulaInit /\ ReaderInit

\* parseToLasso with linearize.
ReadTrace == FormulaNext /\ UNCHANGED readerVars

DeclareLinearized ==
  /\ mode = "reading" /\ at > Len(lines)
  /\ mode' = "linearized" /\ todo' = Context(TRUE)
  /\ UNCHANGED <<lineVars, backend, variables, functions, asked, assertions, interrupted, thrown>>

\* parseToLasso without: the formulas stay as they were written.
DeclareRaw ==
  /\ mode = "reading" /\ at = 1 /\ stage = 0
  /\ mode' = "raw" /\ todo' = Context(FALSE) \o All(lines, ToAssert)
  /\ UNCHANGED <<lineVars, backend, variables, functions, asked, assertions, interrupted, thrown>>

TellSolver == mode # "reading" /\ ReaderNext /\ UNCHANGED formulaVars

Next == ReadTrace \/ DeclareLinearized \/ DeclareRaw \/ TellSolver

Spec == Init /\ [][Next]_vars

ToldEverything == mode # "reading" /\ todo = <<>> /\ ~thrown /\ ~Deaf

\* The names bound somewhere in a term, and the functions and free names it uses.
BoundIn(t) == {b.name : b \in {u \in Subterms(t) : u.op = "bind"}}
                \cup {"Int", "Bool"}   \* the sorts of binders
UsedIn(op, t) == {u.name : u \in {w \in Subterms(t) : w.op = op}}

\* Type invariant of the wrapper: it asserts no more than it was asked, and only
\* over functions and names that it has declared (or bound in the assertion).
ReaderTypeOK ==
  /\ Len(assertions) =< Len(asked)
  /\ interrupted \in BOOLEAN /\ thrown \in BOOLEAN
  /\ DOMAIN functions \subseteq FunctionNames
  /\ DOMAIN variables \cap FunctionNames = {}
  /\ \A t \in Range(assertions) :
       /\ UsedIn("call", t) \subseteq DOMAIN functions
       /\ UsedIn("var", t) \subseteq DOMAIN variables \cup BoundIn(t) \cup {"true", "false"}

\* A valuation, with values for the fresh names: any would do.
WithFresh(v) == [n \in {FreshName(k) : k \in LeftFresh} |->
                   v[CHOOSE k \in LeftFresh : FreshName(k) = n]] @@ v

\* What the wrapper asserted is, one by one and for every valuation, what it was
\* asked to assert (addAxiom, addAssertion, parseSexpTokensWithBindings):
\* nothing is dropped without the session being interrupted or an exception.
AssertedIsAsked ==
  ToldEverything =>
    /\ Len(assertions) = Len(asked)
    /\ \A v \in Valuations :
         LET env == Extended(divMod.cache \o calls, WithFresh(v))
         IN  \A i \in DOMAIN asked : Eval(assertions[i], env) = Eval(asked[i], env)

\* The solver may give the names the linearizer made the values of the calls
\* they stand for and no others (declareSolverContext): so NothingIsAdded may
\* take them for granted.  The hypothesis is that the stem mentions what the loop
\* reads; LassoCalls shows what becomes of a call otherwise.
CallsHaveTheirValues ==
  ToldEverything /\ mode = "linearized" /\ LeftFresh = {} =>
    \A v \in Valuations : \A aux \in [{e.name : e \in Range(calls)} -> AuxValues] :
      LET env == Extended(divMod.cache, v)
      IN  (\A t \in Range(assertions) : Eval(t, aux @@ env))
            <=> /\ \A t \in Range(trace.axioms) : Eval(t, v)
                /\ \A e \in Range(calls) : aux[e.name] = Extended(calls, env)[e.name]
==============================================================================
