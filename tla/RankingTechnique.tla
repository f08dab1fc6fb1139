--------------------------- MODULE RankingTechnique ---------------------------
(***************************************************************************)
(* The termination techniques: RankingBasedTechnique (the search over      *)
(* numbers of components and configurations), GenericTerminationSynthesizer *)
(* (what is asked of the solver) and the templates.  A ranking function f  *)
(* is sought together with supporting invariants: affine functions that    *)
(* are >= 0 (> 0 when strict) whenever the loop is entered.  Every         *)
(* requirement is a context that MotzkinTransformation has to refute: the  *)
(* premises and the negation of the conclusion.                            *)
(*                                                                         *)
(* The solver's answer is a choice: any template values that satisfy what  *)
(* was asserted, or none (unsat, unknown, an interrupt, an exception: the  *)
(* synthesizer treats them alike).                                         *)
(***************************************************************************)
EXTENDS LassoRun

CONSTANTS
    Techniques,   \* records [template, components, max, configs]: the constructor's
                  \* arguments; a configuration says how many strict and how many
                  \* other supporting invariants to look for
    Functions,    \* the ranking functions and
    Supports,     \* the supporting invariants the solver may come up with
    MaxDelta      \* bound on the value of DELTA

Templates == {"AffineTemplate", "NestedTemplate", "LexicographicTemplate"}

ASSUME TechniquesAssumption ==
    \A t \in Techniques :
        /\ t.template \in Templates /\ t.components \in Nat /\ t.max \in Nat
        /\ t.configs \in Seq([strict : Nat, nonstrict : Nat])
ASSUME CandidatesAssumption ==
    Functions \subseteq Affine /\ Supports \subseteq Affine /\ MaxDelta \in Nat

VARIABLES
    tech,        \* the technique's constructor arguments
    rpc,         \* "created", "ready", "search", "solving", "done" or "thrown"
    nc, config,  \* the two loop counters of analyze()
    cancelled,   \* cancelled_
    result,      \* proof_.status
    argument     \* the termination argument found, or NoArgument

techVars == <<tech, rpc, nc, config, cancelled, result, argument>>
rankingVars == <<lasso, runVars, techVars>>

NoArgument == [none |-> TRUE]

----------------------------------------------------------------------------
(* What the templates ask for.                                             *)

\* Names of the lasso the equality constraints range over.
AllVars(l) == {l.loop.in[u] : u \in Vars} \cup {l.loop.out[u] : u \in Vars}
              \cup {l.stem.in[u] : u \in Vars} \cup {l.stem.out[u] : u \in Vars} \cup l.aux

Strict(t) == t # "AffineTemplate"

\* createTemplate: the affine template takes no number of components.
Components(t, n) == IF t = "AffineTemplate" THEN 1 ELSE n

Minus(ineq, c) == [ineq EXCEPT !.const = @ - c]

Conclusion(ineq, strict) == [ineq EXCEPT !.strict = strict, !.motzkin = "ONE"]

\* Seeded fault: the first component only has not to grow.
getConstraintsDec_NoDelta(t, fs, delta, in, out, m) ==
    LET drop == Plus(Generate(fs[m], in), Negate(Generate(fs[m], out)))
    IN  Conclusion(IF m = 1 THEN drop ELSE Plus(drop, Generate(fs[m - 1], in)), Strict(t))

\* Decrement m: f1(x) - f1(x') - delta, then fm(x) - fm(x') + f(m-1)(x).
getConstraintsDec(t, fs, delta, in, out, m) ==
    LET drop == Plus(Generate(fs[m], in), Negate(Generate(fs[m], out)))
    IN  Conclusion(IF m = 1 THEN Minus(drop, delta) ELSE Plus(drop, Generate(fs[m - 1], in)),
                   Strict(t))

getConstraintsBounded(t, fs, in) == Conclusion(Generate(fs[Len(fs)], in), Strict(t))

\* Seeded fault: the conclusion is negated, its strictness is not.
Denied_SameStrictness(ineq) == Negate(ineq)

\* not (e >= 0) is -e > 0.
Denied(ineq) == [Negate(ineq) EXCEPT !.strict = ~ineq.strict]

----------------------------------------------------------------------------
(* Supporting invariants: s is the sequence of functions of one SIG, its    *)
(* first c.strict members are strict.                                       *)

isStrict(c, k) == k <= c.strict

SI(s, c, k, ssa) == [Generate(s[k], ssa) EXCEPT !.strict = isStrict(c, k)]

Premise(s, c, k, ssa) ==
    [SI(s, c, k, ssa) EXCEPT !.motzkin = IF isStrict(c, k) THEN "ANYTHING" ELSE "ONE"]

Phi1(l, p, s, c, k) ==
    Append(l.stem.polys[p], [Denied(SI(s, c, k, l.stem.out)) EXCEPT !.motzkin = "ONE"])

Phi2(l, p, s, c, k) ==
    Append(Append(l.loop.polys[p], SI(s, c, k, l.loop.in)),
           [Denied(SI(s, c, k, l.loop.out)) EXCEPT !.motzkin = "ZERO_AND_ONE"])

\* Decrements m = 1..Len(fs); the last part is the bound.
Phi34(l, p, m, t, fs, delta, s, c) ==
    Append(l.loop.polys[p] \o [k \in 1..Len(s) |-> Premise(s, c, k, l.loop.in)],
           Denied(IF m <= Len(fs)
                  THEN getConstraintsDec(t, fs, delta, l.loop.in, l.loop.out, m)
                  ELSE getConstraintsBounded(t, fs, l.loop.in)))

Initiated(l, s, c) ==
    \A k \in 1..Len(s), p \in 1..Len(l.stem.polys) :
        Refuted(Phi1(l, p, s, c, k), AllVars(l))

\* The invariants of branch p are shown to survive branch p, and no other.
Inductive(l, p, s, c) ==
    \A k \in 1..Len(s) : Refuted(Phi2(l, p, s, c, k), AllVars(l))

Supporting(l, p, c) ==
    {s \in [1..(c.strict + c.nonstrict) -> Supports] :
        Initiated(l, s, c) /\ Inductive(l, p, s, c)}

\* Seeded fault: the parts are numbered without the bound.
PartsOf_NoBound(l, n) == (1..Len(l.loop.polys)) \X (1..n)

\* createLocalSIGs: invariants of their own for each loop polyhedron and part.
PartsOf(l, n) == (1..Len(l.loop.polys)) \X (1..(n + 1))

\* Invariants for every part, each enough for what its part requires of fs.
Supports34(l, t, n, c, fs, delta) ==
    LET sup == [p \in 1..Len(l.loop.polys) |-> Supporting(l, p, c)]
        enough == [q \in PartsOf(l, n) |->
                     {s \in sup[q[1]] :
                        Refuted(Phi34(l, q[1], q[2], t, fs, delta, s, c), AllVars(l))}]
    IN  {g \in [PartsOf(l, n) -> UNION {enough[q] : q \in PartsOf(l, n)}] :
            \A q \in PartsOf(l, n) : g[q] \in enough[q]}

ArgumentsWith(l, t, n, c, fs, delta) ==
    {[template |-> t, fs |-> fs, delta |-> delta, c |-> c, si |-> si] :
        si \in Supports34(l, t, n, c, fs, delta)}

\* Template values the solver may answer with: a model of all the contexts.
Arguments(l, t, n, c) ==
    UNION {ArgumentsWith(l, t, n, c, shape[1], shape[2]) :
             shape \in [1..n -> Functions] \X (1..MaxDelta)}

----------------------------------------------------------------------------
(* The technique.                                                          *)

TechInit == /\ tech \in Techniques
            /\ rpc = "created"
            /\ nc = 0 /\ config = 0
            /\ cancelled = FALSE
            /\ result = "UNKNOWN"
            /\ argument = NoArgument

isNested == tech.template \in {"NestedTemplate", "LexicographicTemplate"}
ncMin == IF tech.components > 0 THEN tech.components ELSE 1
ncMax == IF isNested THEN tech.max ELSE ncMin

\* init() forgets a cancel that came before it.
Initialize == /\ rpc = "created"
              /\ rpc' = "ready"
              /\ cancelled' = FALSE
              /\ UNCHANGED <<lasso, runVars, tech, nc, config, result, argument>>

Cancel == /\ rpc \notin {"done", "thrown"}
          /\ cancelled' = TRUE
          /\ UNCHANGED <<lasso, runVars, tech, rpc, nc, config, result, argument>>

\* analyze() up to its loops; validateConfiguration refuses an empty configs_.
Analyze == /\ rpc = "ready"
           /\ IF tech.configs = <<>>
              THEN rpc' = "done" /\ UNCHANGED <<nc, config>>
              ELSE rpc' = "search" /\ nc' = ncMin /\ config' = 1
           /\ UNCHANGED <<lasso, runVars, tech, cancelled, result, argument>>

Searching == rpc = "search" /\ nc <= ncMax /\ ~cancelled

\* The next configuration: the solver is reset, the template created.
TryConfiguration ==
    /\ Searching
    /\ config <= Len(tech.configs)
    /\ ~(isNested /\ nc < 2)
    /\ rpc' = "solving"
    /\ UNCHANGED <<lasso, runVars, tech, nc, config, cancelled, result, argument>>

\* The constructors of the nested templates refuse fewer than two components;
\* nothing in analyze() catches that.
TemplateThrows ==
    /\ Searching
    /\ config <= Len(tech.configs)
    /\ isNested /\ nc < 2
    /\ rpc' = "thrown"
    /\ UNCHANGED <<lasso, runVars, tech, nc, config, cancelled, result, argument>>

MoreComponents ==
    /\ Searching
    /\ config > Len(tech.configs)
    /\ nc' = nc + 1 /\ config' = 1
    /\ UNCHANGED <<lasso, runVars, tech, rpc, cancelled, result, argument>>

GiveUp == /\ rpc = "search" /\ ~Searching
          /\ rpc' = "done"
          /\ UNCHANGED <<lasso, runVars, tech, nc, config, cancelled, result, argument>>

\* Seeded fault: the status is set before the answer of the solver is known.
NotFound_StatusSet ==
    /\ rpc = "solving"
    /\ rpc' = "search" /\ config' = config + 1 /\ result' = "TERMINATING"
    /\ UNCHANGED <<lasso, runVars, tech, nc, cancelled, argument>>

\* Unsat, unknown or an exception: on to the next configuration.
NotFound == /\ rpc = "solving"
            /\ rpc' = "search" /\ config' = config + 1
            /\ UNCHANGED <<lasso, runVars, tech, nc, cancelled, result, argument>>

\* The lexicographic template has no constraints in the form the synthesizer
\* asks for: it throws, and nothing is ever found.
Found == /\ rpc = "solving"
         /\ tech.template # "LexicographicTemplate"
         /\ argument' \in Arguments(lasso, tech.template, Components(tech.template, nc),
                                 tech.configs[config])
         /\ result' = "TERMINATING"
         /\ rpc' = "done"
         /\ UNCHANGED <<lasso, runVars, tech, nc, config, cancelled>>

TechNext == \/ Initialize \/ Cancel \/ Analyze \/ TryConfiguration \/ TemplateThrows
            \/ MoreComponents \/ GiveUp \/ NotFound \/ Found

\* The program runs once the analysis has called it TERMINATING.
RunNext == result = "TERMINATING" /\ UNCHANGED techVars /\ (Enter \/ Iterate \/ Leave)

RankingInit == RunInit /\ TechInit
RankingNext == TechNext \/ RunNext
RankingSpec == RankingInit /\ [][RankingNext]_rankingVars

\* The program does not stop on its own in the middle of its loop.
RankingFairness == WF_rankingVars(RunNext)
FairRankingSpec == RankingSpec /\ RankingFairness

----------------------------------------------------------------------------
(* Properties.                                                             *)

\* The technique's variables have their types, and an argument is there
\* exactly when the status is TERMINATING.
RankingTypeOK ==
    /\ lasso \in Lassos /\ at \in {"entry", "loop", "stuck"} /\ x \in State
    /\ tech \in Techniques
    /\ rpc \in {"created", "ready", "search", "solving", "done", "thrown"}
    /\ nc \in Nat /\ config \in Nat
    /\ cancelled \in BOOLEAN
    /\ result \in {"UNKNOWN", "TERMINATING"}
    /\ (result = "TERMINATING") <=> (argument # NoArgument)

\* What f, or the components f1..fn, have to do from y to z.
Ranks(a, y, z) ==
    LET f(i, w) == AffineValue(a.fs[i], w)
        n == Len(a.fs)
    IN  IF Strict(a.template)
        THEN /\ f(n, y) > 0
             /\ f(1, y) - f(1, z) > a.delta
             /\ \A i \in 2..n : f(i, y) - f(i, z) + f(i - 1, y) > 0
        ELSE f(1, y) >= 0 /\ f(1, y) - f(1, z) >= a.delta

\* Once TERMINATING has been answered, every iteration of the loop the program
\* can make finds the ranking function bounded and lowers it: whatever the
\* values the stem left and whatever branch the loop takes.
EveryIterationRanks ==
    [][(result = "TERMINATING" /\ Iterate) => Ranks(argument, x, x')]_rankingVars

Supported(a, y) ==
    \A q \in DOMAIN a.si : \A k \in 1..Len(a.si[q]) :
        IF isStrict(a.c, k) THEN AffineValue(a.si[q][k], y) > 0
                            ELSE AffineValue(a.si[q][k], y) >= 0

\* The supporting invariants the argument rests on hold whenever the run is at
\* the head of the loop (or has just left it).
SupportingInvariantsHold ==
    (result = "TERMINATING" /\ at # "entry") => Supported(argument, x)

\* A lasso that was called TERMINATING is left.
TerminatingLassosAreLeft == (result = "TERMINATING" /\ at = "loop") ~> (at = "stuck")
=============================================================================
