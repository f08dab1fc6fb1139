------------------------------ MODULE LassoCalls ------------------------------
(***************************************************************************)
(* The calls that the linearizer has replaced by fresh variables, from the *)
(* lines to the lasso: storeAbstractFunctionsToLasso                       *)
(* (src/parser/json_trace_parser.cpp), which renames the arguments of each *)
(* original_call as the composition of the lines and the connection of the *)
(* two parts have renamed the transitions.                                 *)
(*                                                                         *)
(* LassoBuilder with the calls: a line's calls mention names of its        *)
(* formula, so a call is, like a formula, the occurrences in it.  The call *)
(* of a given text is cached once, and the names of a text do not depend   *)
(* on the line it is in.                                                   *)
(***************************************************************************)
EXTENDS LassoBuilder, TLC

VARIABLES
  calls,        \* of each part's lines: the occurrences in the original_calls
  stem_subst,   \* cumulative_raw_subst of the stem, whose entries are those that
                \* the function collects again from stem_lines
  first_in,     \* loop_lines[0].in_vars
  stored        \* storeAbstractFunctionsToLasso has returned

callVars == <<calls, stem_subst, first_in, stored>>

CallsInit ==
  /\ LassoInit
  /\ calls = [part \in Parts |-> {}]
  /\ stem_subst = EmptyMap /\ first_in = EmptyMap
  /\ stored = FALSE

\* ReadLine, with the names of the line's formula in its calls.
ReadLineAndCalls(part) ==
  /\ phase = part /\ lines < Bound(part) /\ MayGoOn(part)
  /\ \E text \in NextLines(part), fails \in MayFail :
       /\ BuildFromLine(part, text, fails)
       /\ calls' = [calls EXCEPT ![part] = @ \cup text.formula.occ]
       /\ first_in' = IF part = "loop" /\ lines = 0 THEN text.in ELSE first_in
  /\ UNCHANGED <<reading, phase, program_vars, verdict, asserted, spans, stem_subst, stored>>

EndStemAndCalls ==
  /\ EndStem
  /\ stem_subst' = raw_subst
  /\ UNCHANGED <<calls, first_in, stored>>

\* Seeded fault, used by no specification: the connection of the stem to the loop is
\* forgotten.
composition_subst_LinesOnly == stem_subst @@ raw_subst

\* composition_subst: the entries of the loop's lines, overridden by those of the
\* stem's, overridden by the connection's.  The stem's names are those it has by
\* now; the loop's are the first line's own, so a name that has become
\* _loop_fresh_ is not followed, nor is a name that is itself replaced.
composition_subst ==
  LET connected  == IF stem.raw = {} \/ loop.raw = {} THEN {}
                    ELSE {v \in DOMAIN stem.out \cap DOMAIN first_in : first_in[v] # stem.out[v]}
      connection == [name \in {first_in[v] : v \in connected} |->
                       stem.out[CHOOSE v \in connected : first_in[v] = name]]
  IN  connection @@ stem_subst @@ raw_subst

\* every call of either part, by one and the same map
storeAbstractFunctionsToLasso ==
  /\ phase = "built" /\ Linearize /\ ~stored
  /\ calls' = [part \in Parts |->
       {[o EXCEPT !.name = SubInOrder(composition_subst, @)] : o \in calls[part]}]
  /\ stored' = TRUE
  /\ UNCHANGED <<lassoVars, stem_subst, first_in>>

CallsNext ==
  \/ \E part \in Parts : ReadLineAndCalls(part)
  \/ EndStemAndCalls
  \/ /\ EndLoop \/ connectStemToLoop \/ removeDeadVariables \/ EnsureMappings \/ FixpointAnalyze
     /\ UNCHANGED callVars
  \/ storeAbstractFunctionsToLasso

CallsSpec == CallsInit /\ [][CallsNext]_<<lassoVars, callVars>>

-----------------------------------------------------------------------------
(* Properties *)

\* json_trace_parser.cpp:332-335, "When transitions [T1, T2] are composed, T2.in_vars
\* are substituted by T1.out_vars. We need to apply these same substitutions to the
\* original_call in each function abstraction": in the end, the names in the calls of
\* a part and those in its polyhedra and maps are equal when they denote the same
\* value, and only then.
CallsAligned ==
  stored =>
    \A part \in Parts :
      LET t == Transition(part)
      IN  Aligned(PolyOcc(t) \cup calls[part], t, part, Vars \ Arrays)

\* No name that composition_subst puts in is one that it replaces.
Unchained ==
  \A name \in DOMAIN composition_subst : composition_subst[name] \notin DOMAIN composition_subst

\* No name that the stem ended with has been dropped as dead, and the map completed,
\* before storeAbstractFunctionsToLasso looks there for what the loop's was renamed to.
StemNamesKept ==
  \A name \in DOMAIN composition_subst : ~IsFresh(composition_subst[name])

\* No line of the loop is an edge of the stem again: composition_subst is applied to the
\* calls of both parts, so a name must not be used in one that the other's is renamed from.
NoneShared == \A v \in Vars : \A e \in edges["loop"][v] : ~IsShared(e, v)

\* A call is told to the solver with the values it has in the lasso, over any lines
\* with names of their own and their connection, when one pass over composition_subst
\* is enough (Unchained), the stem's names are still there (StemNamesKept) and no
\* name is used in both parts (NoneShared).
CallsFollowTheLines == Unchained /\ StemNamesKept /\ NoneShared => CallsAligned

\* json_trace_parser.cpp:819-820, "These must be declared before linearizer abstractions
\* because the linearizer's original_call may reference" them: what a call refers to is
\* declared when declareSolverContext asserts the call's value; else addAssertion throws,
\* out of init().
CallsAreDeclared ==
  stored => \A part \in Parts : \A o \in calls[part] : o.name \in Declared
=============================================================================
