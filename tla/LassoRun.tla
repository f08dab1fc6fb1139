------------------------------ MODULE LassoRun ------------------------------
(***************************************************************************)
(* What a lasso means: a program that runs the stem once and then the loop *)
(* again and again (LassoProgram and LinearTransition).  A transition is a *)
(* disjunction of polyhedra over SSA names with the names its program      *)
(* variables have before and after it; a step satisfies one polyhedron.    *)
(* The two may be the same name (the transition leaves the variable        *)
(* alone), and a polyhedron may speak of names that are neither.           *)
(*                                                                         *)
(* The run starts when the analysis is over: it is the judge of what the   *)
(* analysis claimed, and in the program it happens elsewhere or never.     *)
(***************************************************************************)
EXTENDS Motzkin

CONSTANTS Lassos,     \* the lassos given to the analysis
          Domain      \* the values of the variables

ASSUME DomainAssumption == Domain \subseteq Int /\ Domain # {}

Transition == [polys : Seq(Seq(Inequality)), in : [Vars -> Names], out : [Vars -> Names]]

Lasso == [stem : Transition, loop : Transition, aux : SUBSET Names]

ASSUME LassosAssumption ==
    \A l \in Lassos : l.stem \in Transition /\ l.loop \in Transition /\ l.aux \in SUBSET Names

\* Two variables share no name.
DistinctNames(t) ==
    \A u, u2 \in Vars : {t.in[u], t.out[u]} \cap {t.in[u2], t.out[u2]} # {} => u = u2

ASSUME NamesAssumption == \A l \in Lassos : DistinctNames(l.stem) /\ DistinctNames(l.loop)

State == [Vars -> Domain]

Satisfies(poly, v) == \A j \in 1..Len(poly) : Holds(poly[j], v)

\* v gives the names of t their values: x before the step, y after it.
Reads(t, v, x, y) == \A u \in Vars : v[t.in[u]] = x[u] /\ v[t.out[u]] = y[u]

\* Names a polyhedron of t speaks of that belong to no program variable.
HiddenNames(t) ==
    {i \in Names : /\ \A u \in Vars : t.in[u] # i /\ t.out[u] # i
                   /\ \E p \in 1..Len(t.polys) : \E j \in 1..Len(t.polys[p]) :
                         t.polys[p][j].coef[i] # 0}

Valuation(t, x, y, hidden) ==
    [i \in Names |-> IF \E u \in Vars : t.in[u] = i
                     THEN x[CHOOSE u \in Vars : t.in[u] = i]
                     ELSE IF \E u \in Vars : t.out[u] = i
                          THEN y[CHOOSE u \in Vars : t.out[u] = i]
                          ELSE IF i \in DOMAIN hidden THEN hidden[i] ELSE 0]

\* t has a step from x to y, through polyhedron p.
RelatedBy(t, p, x, y) ==
    \E hidden \in [HiddenNames(t) -> Domain] :
        LET v == Valuation(t, x, y, hidden)
        IN  Reads(t, v, x, y) /\ Satisfies(t.polys[p], v)

Related(t, x, y) == \E p \in 1..Len(t.polys) : RelatedBy(t, p, x, y)

VARIABLES
    lasso,      \* the lasso under analysis
    at,         \* "entry", "loop" or "stuck": where the run is
    x           \* the values of the program variables there

runVars == <<at, x>>

\* Before the stem x means nothing.
RunInit == lasso \in Lassos /\ at = "entry" /\ x = CHOOSE s \in State : TRUE

\* The stem, from whatever values the variables have.
Enter == /\ at = "entry"
         /\ \E w, y \in State : Related(lasso.stem, w, y) /\ x' = y
         /\ at' = "loop"
         /\ UNCHANGED lasso

Iterate == /\ at = "loop"
           /\ \E y \in State : Related(lasso.loop, x, y) /\ x' = y
           /\ UNCHANGED <<lasso, at>>

\* No polyhedron of the loop has a step from here: the lasso has been left.
Leave == /\ at = "loop"
         /\ ~ \E y \in State : Related(lasso.loop, x, y)
         /\ at' = "stuck"
         /\ UNCHANGED <<lasso, x>>
=============================================================================
