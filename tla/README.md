# PaSTTeL in TLA+

PaSTTeL decides termination of *lasso* programs (`stem; loop*`). It runs a
portfolio of techniques on a thread pool (ranking templates prove termination,
a fixpoint and a geometric argument prove non-termination), each with its own
SMT solver (Z3 or CVC5), and reports the first conclusive answer. This
directory models the program in TLA+, checks it with TLC and proves theorems
about it with TLAPS. Paths below are relative to the repository; TLA+ names are
those of the code where the code has one.

To check by hand: `tlc -config MCPortfolio.cfg MCPortfolio.tla`,
`tlapm PortfolioProofs.tla`. `PROJECT.json` lists every run with the properties
it checks, the source lines each definition translates, a seeded fault of the
code that each property detects, the hazards the properties are for, the
disagreements found, and the theorems.

## 1. Inventory

| Part | State | Operations | Hard part | What makes it correct |
|---|---|---|---|---|
| Thread pool `include/thread_pool.h` | FIFO of tasks, `pending_`, `stop_`, `killed_`, workers, two condition variables | constructor, `enqueue`, `waitAll`, `waitUntil`, `killAll`, destructor, `workerLoop` | every interleaving; notifications after the unlock; deadlines, spurious wakeups, `pthread_cancel`; destruction | no task lost or run twice, FIFO, no lost wakeup, a wait ends exactly when the tasks are done |
| Portfolio `src/portfolio_orchestrator.cpp` | `conclusive_found_`, `stop_early_`, `all_results_`, `final_result_`, the techniques, the pool | `addTechnique`, `solve`, `runTechnique`, `cancelTechniques`, `join` | several winners at once, cancellation against start-up, the timeout against a late answer, killing the pool | one winner, its proof reported, UNKNOWN only when nothing was proved, join returns |
| Technique interface `include/analysis_technique_interface.h` | a solver, a proof certificate | `init`, `analyze`, `cancel`, `getProof` | `cancel` comes from another thread at any time | a cancelled technique ends; a conclusive status is backed by a proof |
| Ranking technique `src/termination/ranking_based_technique.cpp` | `cancelled_`, configurations, last synthesizer | loop over component counts and configurations: reset, synthesize, extract | cancellation between two configurations; one synthesis failing | every configuration is tried on a clean solver; a proof belongs to the configuration it names |
| Fixpoint and geometric techniques `src/nontermination/` | lasso, solver, extracted argument | encode the stem, the loop and the argument; check; extract | variables left out of the encoding, branches of the loop | a model of the constraints is an infinite run |
| SMT wrappers `src/smtsolvers/` | declared variables, assertion counters, `m_interrupted`, the backend | declare, push/pop, addAssertion, checkSat, getValue, reset, interrupt, clone | exceptions of the backend, interrupt from another thread | a check is about all that was asserted; an interrupt ends it |
| Termination synthesis `src/termination/` (synthesizer, Motzkin transform, supporting invariants) | template parameters, Motzkin contexts | build phi1 to phi4, apply Motzkin, extract | per-branch supporting invariants, strict against weak | a model is a ranking function and inductive invariants |
| Templates `src/templates/` | parameters | constraints, extraction | nested components, integer against rational | constraints imply a ranking function |
| Lasso and transitions `src/lasso_program.cpp`, `src/transition.cpp` | polyhedra in DNF, SSA maps, raw formulas | compose, buildFromLines, linearize, declare in a solver | SSA names captured, lost or left unresolved over several lines; dropped disjuncts | a name denotes one value between two lines; the composition is the relational product |
| Parser `src/parser/smt_parser.cpp`, `src/linear_inequality.cpp`, `src/affine_term.cpp` | none | formula to DNF, negation, distribution | non-linear atoms dropped under a negation | the DNF has the meaning of the formula, or over-approximates it |
| JSON trace parser `src/parser/json_trace_parser.cpp` | lasso under construction | lines to transitions, connecting stem and loop, dead variable removal, completing the maps, renaming the abstracted calls | edges shared by stem and loop, liveness decided on one formula and applied to another, calls renamed after the fact | the lasso has the behaviours of the trace, its calls are on the lasso's values |
| Rewriting `src/rewriting/`, linearization `src/linearization/` | fresh variables | let, div/mod, booleans, (in)equalities, arrays, functions, products | fresh names, side conditions, congruence | each rewriting preserves satisfiability |
| Result validation `src/termination/ranking_and_invariant_validator.cpp` | none | re-check an argument | disabled (`USE_VALIDATOR` is false) | - |
| Command line `src/pasttel.cpp` | settings | parse options, build the portfolio, print the report | - | choice of techniques |
| `scripts/`, `benchmarks/`, `examples/`, `tools/` | - | evaluation and data | - | not the program |

How they interact. `runAnalysis` (pasttel.cpp) parses the lasso, registers the
techniques, each with its own solver object, and calls `solve` and `join`.
`solve` enqueues one pool task per technique; a task calls `init`, `analyze`,
`getProof` of its technique on a worker thread. The winner's thread, or the
main thread on timeout, calls `cancel` of the other techniques, which sets a
flag and calls `interrupt` of a solver that another thread is using. `join`
waits on the pool, kills it and builds the report.

## 2. Modules

The models form three groups, for the three questions one may ask of the
program: does it run right (pool, portfolio, solver session), does it read right
(lines to lasso, formula to polyhedra, formula to solver), does it argue right
(ranking and geometric arguments against the program they are about).

| Module | Models | Extended by |
|---|---|---|
| `ThreadPool` | `include/thread_pool.h` under any legal client | `Portfolio` |
| `Portfolio` | `src/portfolio_orchestrator.cpp` and what it sees of a technique, on the pool | `MCPortfolio` |
| `PortfolioVerdict` | what `solve()` and `join()` promise together (abstract) | refined by `Portfolio` |
| `SolverSession` | `SMTSolverZ3` or `SMTSolverCVC5`, one object and its backend | `MCSolverSession` |
| `LassoBuilder` | `src/transition.cpp` (composition), `parseToLasso` of `src/parser/json_trace_parser.cpp`, what `src/nontermination/fixpoint_technique.cpp` asserts | `LassoCalls` |
| `LassoCalls` | `storeAbstractFunctionsToLasso` of the JSON parser: the calls of the lines, renamed for the lasso | `MCLassoBuilder` |
| `Terms` | SMT-LIB terms as trees (`src/parser/sexpr_utils.cpp` without the text) and what each operator makes of its arguments' values | `TermMeaning`, `Rewriting`, `SmtReader` |
| `TermMeaning` | no code: what SMT-LIB says a whole term is worth | `Formula` |
| `Rewriting` | the handlers of `src/rewriting/` and `src/linearization/` one operator at a time, given what became of the arguments | `Formula` |
| `Polyhedra` | `src/parser/smt_parser.cpp` one operator at a time: affine terms, inequalities, distribution, negation | `Formula` |
| `Formula` | `parseTransition` of the JSON parser: the handlers (`Rewriting`) and `src/parser/smt_parser.cpp` (`Polyhedra`) down the terms of a line, and their order | `FormulaMeaning` |
| `FormulaMeaning` | no code: what polyhedra and formulas have to do with each other | `TraceToSolver` |
| `SmtReader` | how both wrappers are told about a lasso: declarations, axioms, assertions read from text | `TraceToSolver` |
| `TraceToSolver` | `declareSolverContext` of `src/lasso_program.cpp` and the raw assertions of the fixpoint technique; composes `Formula` and `SmtReader` | `MCFormula` |
| `Linear` | `src/linear_inequality.cpp`, `src/affine_term.cpp`, `src/termination/affine_function_generator.cpp` | `Motzkin` |
| `Motzkin` | `src/termination/motzkin_transform.cpp` | `LassoRun` |
| `LassoRun` | what a lasso means: the program's run, the judge of the arguments | `RankingTechnique`, `GeometricTechnique` |
| `RankingTechnique` | `ranking_based_technique.cpp`, `generic_termination_synthesizer.cpp`, the supporting invariants and the templates | `Arguments` |
| `GeometricTechnique` | `src/nontermination/geometric_technique.cpp` | `Arguments` |
| `Arguments` | both techniques on one lasso, and the program | `MCArguments` |
| `MC*` | the constants' values for TLC | the `.cfg` files |
| `ThreadPoolProofs`, `PortfolioProofs`, `SolverSessionProofs`, `RankingProofs`, `ArgumentsProofs`, `LassoBuilderProofs`, `PolyhedraProofs`, `RewritingProofs` | theorems | - |

A seeded fault (an operator with an underscore in its name, such as `Finish_NoDoneNotify`)
stands before the definition it is a fault of; no specification uses it.

### ThreadPool

A critical section under `mutex_` is one action. What the code does outside it
is an action of its own: `notify_one` in `enqueue`, `notify_all` and
`pthread_cancel` in `killAll`, the notification and the joins of the
destructor, and the call of the task. A wait is split at the release of the
mutex (`WaitCheck` is the predicate's evaluation, "blocked" is asleep). A worker
is at `loop` (about to lock), `wait`, `run`, `done` (back from the task, before
the second lock), or gone. Condition variables may wake spuriously; a cancelled
worker ends at some later point; a worker that is still in `workerLoop` when the
pool's memory is gone goes to `fault`. `submitted`, `started` and `finished`
are history variables.

### Portfolio

`runTechnique` is cut at every access to state that another thread uses: the
two tests of `stop_early_`, the clearing of `cancelled_` inside `init`, the
push to `all_results_`, the compare-exchange, the store of `stop_early_`, each
`cancel()` of the loop in `cancelTechniques`, the store of `final_result_`. The
main thread goes through `solve` (one enqueue at a time), the first wait, the
timeout branch, the second wait, `killAll`, the destruction of the pool and the
report. `init` may throw (it is outside the try block: the process ends) and
`analyze` may throw (caught: the technique stores nothing). An `analyze` is one
step at an arbitrary time; what it answers is free among what its kind of
technique can prove.

`PortfolioVerdict` is the abstract election: techniques answer, at most one
conclusive answer is elected, the report is the elected answer or UNKNOWN when
there is none. The refinement maps `given` to the answers that have left
`analyze`, `elected` to the technique between the compare-exchange and the store
of `final_result_`, or the one stored, and `verdict` to the report.

### SolverSession

`Backend` is the wrapper an object is. The technique's thread pushes, pops,
asserts, resets and checks; any thread may
call `interrupt()` in between. `SMTSolverZ3` catches a failing backend call and
sets `m_interrupted`, after which it ignores every call; `SMTSolverCVC5` lets
the exception through (the error path belongs to the caller). A check is
three steps: the test of the flag, the start of the search, its end.
`asked` and `askedLevels` are history: what the technique believes is asserted.

### LassoBuilder

A trace gives each line as a formula with SSA names and two maps, `in_vars` and
`out_vars`. The code renames names until equal names mean equal values; nothing
in it depends on what the formulas say of the values. So a formula is
abstracted to the set of its *occurrences*: a name, and the *cell* it denotes,
which is a program variable and how often it has been written so far. The code
sees and renames only the names. Cells are history, put there when a line is
read.

One behaviour reads one trace. `ReadLine` picks a line and folds it into the
transition (`AddLine`: `compose` for the polyhedra and maps,
`ExtendRawSubst` and `substituteInFormula` for `raw_formula`). `EndStem`,
`EndLoop`, `connectStemToLoop`, `removeDeadVariables` and `EnsureMappings` are
the steps of `parseToLasso` in its order, and `FixpointAnalyze` is
`FixpointTechnique::analyze` up to the answer of the solver.

Which traces are read is `Namings`: names are written once (SSA); a line reads
the name the line before left, or a new one (`MaxRenamed` says for how many
lines of a part). A member of `Readings` says the rest: whether the formulas are
linearized, how many lines each part has and disjuncts each line, whether a loop
line may be an edge of the stem again (`shared`), whether a line may leave a
variable it does not read out of `in_vars` (`partial`), whether the DNF parser
may refuse a line (`mayFail`). The traces in `examples/` have all of these.

### LassoCalls

The linearizer replaces a call by a variable and keeps the call, over the line's own
names, in `original_call`. A call is abstracted like a formula, to its occurrences;
`ReadLineAndCalls` records them while `LassoBuilder` composes the line.
`storeAbstractFunctionsToLasso` comes after `EnsureMappings` and makes one map,
`composition_subst`: the entries of the loop's lines, overridden by the stem's,
overridden by the connection of the two parts. It is applied in the map's order to
every call of both parts. `CallsAligned` asks that the names in the calls and in the
transitions are equal exactly where they denote one value. It holds under three hypotheses:
no name the map puts in is one that it replaces (`Unchained`), no stem name it puts in was
dropped as dead (`StemNamesKept`), and no name is used in both parts (`NoneShared`).
Section 5 says what happens otherwise.

### Formula, SmtReader, TraceToSolver

A line's formula is a term, and goes through the handlers in the order
`parseTransition` installs them, one action each: `RewriteLets`,
`RewriteDivisionMod`, `RewriteBooleanVars`, `RewriteEqualities`,
`RewriteStrictInequalities` (when every variable is an Int), `Linearize`,
`ParseToDNF`. `Handlers` says which of them a trace needs; `Turn` enforces the
order. `divMod` and `calls` are the caches of quotients and of abstracted calls
and array reads, which the handlers keep from line to line. A handler that
throws gives the line up: its DNF stays empty, and everything after it takes an
empty DNF for TRUE (transition.cpp:263).

`FormulaMeaning` judges the result. `NothingIsLost`: an execution of the
formula is in the polyhedra, with the quotients and calls worth what SMT-LIB
says (needed by a termination argument). `NothingIsAdded`: the polyhedra hold of
no other valuation, whatever quotients the solver picks (needed by a
non-termination argument). A quotient's constraint is part of a line; what a call
is worth is told to the solver, so `NothingIsAdded` takes it for granted and
`CallsHaveTheirValues` shows that it may.

`SmtReader` is the wrapper between its construction and the first check: a list of
calls (`todo`), each of which declares a name, or reads a term and asserts what it
has read. `ReadTerm`, `ReadLet` and `ReadQuantifier` are the recursive readers with
their bindings; `Deaf` is Z3's `m_interrupted`, which makes every later call but
`addAxiom` return at once, and `InterruptReader` may set it at any point.
`TraceToSolver` makes the list from what was parsed (`Context`), in the order of
`declareSolverContext`: constants (declared, their values are not asserted), functions,
axioms, variables, the quotients' names, the calls' names each with the equality to its
call as `storeAbstractFunctionsToLasso` left it (`StoredCalls`), and the auxiliary
variables of the lines (`FreeVars`). Then the fixpoint technique adds the raw formulas
(`DeclareRaw`). All lines of these traces name a variable alike, so composing them renames
nothing; one renaming is left, of a variable the stem does not mention (`LeftFresh`). Lines
with names of their own are the subject of `LassoCalls`.

### Linear, Motzkin, LassoRun

An inequality holds over the SSA names of a lasso, numbered. The source
multiplies affine terms over template parameters; the model takes the value
they have in the solver's answer, and remembers whether there was one (`param`),
since that decides which multipliers Motzkin's transformation tries.
`Refuted(ctx, vars)` is what `addConstraintsToSolver` asks the solver for:
multipliers under which the names of `vars` cancel and the constants contradict.
`LassoRun` is the program: `Enter` runs the stem, `Iterate` the loop, `Leave`
stops when no polyhedron of the loop holds.

### RankingTechnique

`Initialize`, `Analyze`, `TryConfiguration`, `Found`, `NotFound`,
`MoreComponents`, `TemplateThrows` and `GiveUp` are the two nested loops of
`RankingBasedTechnique::analyze`; `Cancel` may come at any point. What the solver
answers is a choice among `Arguments(l, t, n, c)`: the template values under which
every context of phi1 to phi4 is `Refuted`, as `buildPhi12Contexts` and
`buildPhi34Contexts` build them (`Initiated`, `Inductive`, `PartsOf`).

### GeometricTechnique

`SatisfyingClaims` are the models of what `analyze` asserts: `StemConstraints`,
`FirstIterationConstraints`, `RayConstraints`, `IdentityConstraints` (one name for
two values), `EigenvalueConstraints`. `ArgumentFound` picks one; `EncodingFails` is
the exception of an empty conjunction; `Follow` then walks along the claimed run,
iteration by iteration, keeping the values of every name and ray.

### Arguments

Both techniques get the same lasso, and the program it came from runs as a
judge. The techniques share no variable, so the composition lets one finish
before the other starts, and a behaviour either runs the program or the second
technique: every other interleaving ends as one of these.

## 3. Runs

| Run | Shows | Bounds |
|---|---|---|
| MCThreadPool | counting, FIFO, no lost wakeup, complete waits, the inductive invariant; a wait returns, the destructor returns | 2 workers, 4 tasks: tasks queue while both run, and both sleep |
| MCPortfolio | election, cancellation, report; the inductive invariant; `Portfolio` implements `PortfolioVerdict`; `join` with a limit returns, abandoned tasks and process end apart | 3 techniques on 2 workers: one is queued while two run, two may win at once and the third be cancelled at start-up; one may throw in `init`, one has an invalid configuration |
| MCSolverSession | for both wrappers, a search is about all that was asserted, counters follow the backend, nothing starts after an interrupt, a search told to stop ends | 2 formulas, 3 assertions, 2 levels: an assertion below, between and above pushes |
| MCLassoBuilder | the transitions given to the polyhedra techniques mean what the lines do, raw formulas stay aligned with the maps, what the fixpoint technique checks is a fixpoint, the calls are about the lasso's values where the three hypotheses of `CallsFollowTheLines` hold | one variable; linearized: 1 stem line, 3 loop lines, 2 disjuncts; raw: 2 and 2; 9 indices: a composition of a composition, one collision with the stem. Lines may share an edge or leave the variable out in parts of one line, and one line of a part may read under a name of its own (section 5 says what happens beyond) |
| MCFormula | linearization loses and adds no execution, each wrapper asserts what it is asked | some 290 traces of one or two lines with every operator the parser knows, constants and auxiliary variables, alone and with a second line that meets the caches; values -1..1, arrays and functions from these to 0..1, quotients -2..2, divisors that are numerals; both wrappers, interrupted anywhere |
| MCArguments | an accepted ranking argument ranks every iteration and its invariants hold, a claimed run is a run from a reachable start, the techniques never disagree, a lasso called terminating is left | 15 lassos over 2 variables and 4 names, with one and two branches; six registrations of the ranking technique, two of the geometric; values -2..2, coefficients -1..1, 2 rays, eigenvalues up to 2, 3 iterations followed |
| MCPortfolioHang, MCPortfolioPoolLifetime, MCLassoRawChain, MCBranchLocal, MCHiddenNames, MCNegatedProduct | a statement of the repository that the code does not keep (section 5) | the smallest instance that shows it |

One variable is enough for `LassoBuilder`: names of different variables never
meet, since a substitution is built per variable and a name belongs to one.
The new names a line takes are the lowest or the highest free index, since only
their order matters (`substituteInFormula` replaces in the map's order).
In `MCFormula` the handlers look at operators and numerals and not at values, so
one term of each shape, and of each shape inside another, is what matters; the
values only have to tell the meanings apart, which the seeded faults confirm.
In `MCArguments` a bound makes the techniques find fewer arguments, never other
ones; every template, both verdicts, a cancelled search, both exceptions and all
branches of the encoding occur.

CHECK_DEADLOCK is FALSE throughout: a pool that is destroyed, a portfolio that
has reported, an aborted process, a solver nobody calls, a lasso that is built
and a technique that has answered do stop.

**Fairness.** A thread that is not blocked runs (WF on its steps). Nothing is
assumed of the client's calls, spurious wakeups, `pthread_cancel`, or an
`analyze` that has not been interrupted. The deadline of `waitUntil` gets SF,
since the clock advances however often the wait is woken spuriously. In
`MCPortfolio` an interrupted solver is assumed to return: that is Z3's
contract (`Interruptible`), and CVC5 does not have it (section 5). `init` is
assumed to end except for the techniques in `SlowInit`, which the runs leave empty
(section 5 has what happens otherwise).
`SolverSession` assumes that a search told to stop ends, and no other does.
`Arguments` assumes that the analysed program runs on while it can (WF on `Run`),
and nothing of the techniques.

## 4. Theorems

All constants are arbitrary: any finite set of workers, any number of
techniques, any lassos, templates, bounds, any number of program variables and of
lines of a trace. The assumptions are the ASSUMEs of the
modules, named after the constants they are about; TLC evaluates them in the runs.

* `ThreadPoolProofs`: `PoolInv` is inductive. The three stated invariants
  (`PendingCounts`, `FIFO`, `NoLostWakeup`) are not by themselves: the counting
  needs that no pool is used after `killAll` (`EndOfLife`), complete waits need
  that a started task is either running or finished (`StartedAccounted`).
  The proof has one lemma per conjunct, a case per action in each.
  `PoolTypes`, `PendingIsRight`, `FirstInFirstOut`, `PoolSafety` and
  `WaitCompleteness` follow.
* `PortfolioProofs`: `PortfolioInv` contains `PoolInv` (every step of the
  portfolio is a pool step, or leaves the pool alone: lemma `PoolPart`) and adds
  where the main thread is with respect to the pool (`JoinFollowsPool`), that
  `join` decides only when every technique is over (`DecidedWhenOver`, which
  rests on `WaitIsComplete`'s argument), the uniqueness of the winner, and that a
  cancel pass leaves every technique it passed interrupted (`CancelAfterStop`).
  The type invariant, four safety properties, the action property
  `FirstAnswerWins`, and the refinement of `PortfolioVerdict` follow.
* `SolverSessionProofs`: `SessionInv` says that the backend holds what was asked
  for until the wrapper starts to ignore calls, and that levels are nested
  (`Nested`), which a `pop` needs to take both back to the same length.
  `SearchSeesAll`, `CountersMatch` and the action property
  `NoSearchAfterInterrupt` follow.
* `RankingProofs`, first part: `MotzkinIsSound`. Multipliers that pass the three conditions of
  `motzkin_transform.cpp`, over all the names, refute the context: exchange the
  two sums, the names cancel, and what is left is a sum of nonnegative terms
  that would have to be negative.
* `RankingProofs`, second part: an argument the solver may give is `Good`; by `MotzkinIsSound`
  each context is a true implication. `RankingInv` (where the search is, and that
  TERMINATING comes with a good argument) is inductive, and with it
  `SupportingInvariantsHold` (`TypeAndArgument`), by induction over the
  iterations of the run. `ArgumentsRank` is the action property
  `EveryIterationRanks`. Two hypotheses, both necessary: the loop is one
  polyhedron (`SingleBranch`; without it `MCBranchLocal`) and the names that
  belong to no variable are declared (`NamesKnown`; without it `MCHiddenNames`).
* `ArgumentsProofs`, first part: `GeometricInv` says that the iteration and the rays reached
  satisfy what the first ones did (`OnTrack`): a step adds the sum of the rays to
  the iteration and replaces each ray by its successor. `ClaimsAreRuns`,
  `ClaimsAreConnected` and `ClaimsAreReachable` follow, for any number of rays and
  iterations and without further hypotheses.
* `ArgumentsProofs`, second part: the composition implements `RankingSpec` and
  `GeometricSpec` (`CompositionImplements`), so that what was proved of each
  technique holds of both together; and the two never disagree (below).
* `LassoBuilderProofs`, `PolyhedraProofs` and `RewritingProofs`: see below.

**The techniques agree.** `ArgumentsExcludeRecurrence` (in `RankingProofs`): once
there is a termination argument, no set of integer states that the stem leads
into has, for each member, an iteration through one given branch of the loop to a
member. If there were one, an affine rank would go down for ever on it, against
the least element of a set of naturals (`Bottom`). A nested or lexicographic
function has components of which each goes down wherever the one before is
negative (`NextComponentSinks`): so the members where it is negative are again
such a set, and the last component, which has to stay positive, is negative on one. `RunsStop`
is its reading for programs: with a one-polyhedron loop every run ends, although the model
only follows a bounded number of steps. `ClaimsAreRecurrent` (in
`ArgumentsProofs`): the run behind a geometric argument is such a set, the union
of all its iterations, with `GeometricInv` extended from
the iterations the model follows to all of them. `AnswersAgree` combines the
two: `NoContradiction`, for any lasso without hidden names, and loops of any number of branches,
since a geometric argument stays in one.

**A name means one value.** `TypeInv` of `LassoBuilderProofs` needs nothing of
the trace, and `LassoTypes` follows. The other three theorems are about
`PlainTraces`: no line is an edge of the stem again, leaves a variable out or is
refused, no name is quoted, and a value gets a second name at most where a part's
second line reads it (`MaxRenamed <= 1`). Section 5 has a wrong lasso for each of
these, so none of them can simply be dropped; that the properties hold when such a
line is the only one of its part is model-checked in `MCLassoBuilder`. Neither property is inductive: what makes the
renaming right is known only while the lines are read. `NamesInv` says, phase by
phase:
  - while a part is read (`BeingRead`) there is a *naming* of its cells, an index for
    every cell and no two alike (`IsNaming`), that the accumulated raw formula
    follows (`Canonical`), as do the polyhedra and maps of a composition (`Composed`)
    or the maps of the last line where there are no polyhedra (`LastLine`); the naming
    uses indices of the part's lines, and of the stem's only for the cell
    between the parts (`Apart`); and `cumulative_raw_subst` takes the names the next
    line reads to the naming's (`Substituting`);
  - `connectStemToLoop` keeps a naming: with polyhedra, the one that takes the stem's
    name for the first cell (`Joined`). Its two halves together are one substitution
    (`NetIs`), because a name both parts end with is one the loop keeps
    (`CollidingKept`);
  - after it, names are only dropped or added, and what the formula mentions keeps
    its place (`PartAligned`; `FixpointNames` for the names the solver will know).

A line more is the long case: the naming is extended by the indices of the cells the
line writes (`NamingAfter`), and one lemma each shows that the formula, the composition,
the last line's maps and the substitution follow it (`RawAfter`, `FirstComposed` and
`NextComposed`, `LastLineAfter`, `SubstitutingLine`). `SubInOrderIsSubName` says that
the order in which `substituteInFormula` replaces does not matter while no name it
puts in is one it replaces, which is what fails in `MCLassoRawChain`. `RawFormulas`, `LassoMeaning` and
`Fixpoints` follow; the last one for lassos without arrays, which are never equated.
`CallsKeepTheLasso` carries them over to `LassoCalls`: recording calls and renaming
them leaves the construction of the lasso alone.

**A formula keeps its meaning.** `PolyhedraProofs` is about what `SMTParser` builds,
for any number of names and polyhedra, and for valuations in the integers.
  - A sum over names is independent of their order (`WeightedStep`, from the
    definition of the community modules' `MapThenSumSet`), so that scaling and adding affine
    terms scales and adds what they are worth (`ScaleValue`, `AddValue`), terms
    without a coefficient of 0 included.
  - `UnsatIsEmpty`: multiplying the two bounds `isTriviallyUnsat` compares by each other's
    coefficient gives a sum that would be negative. So dropping such polyhedra leaves distribution
    a conjunction (`DistributeHolds`), and negation, which distributes, exact (`NegationHolds`).
  - `ExpressionsKeepTheirWorth` and `FormulasKeepTheirMeaning` are about terms of
    any size. Their hypotheses describe a set of terms closed under arguments, in which
    a term is deeper than its arguments (`ExpressionsOver`, `FormulasOver`); results that
    satisfy the equations by which `ParseArithExpr` and `ParseFormulaToDNF` are defined
    (`ParsedExpressions`, `ParsedFormulas`); and meanings that satisfy SMT-LIB's (`Worths`,
    `Truths`). The subterms of any finite formula have all of these. The proof is by
    induction on the depth, with one lemma for each level (`ArithExprValue`,
    `AtomicFormulaHolds`, `ConnectiveHolds`).

The conclusion of `FormulasKeepTheirMeaning` is what `NothingIsLost` and `NothingIsAdded` rest
on: where nothing throws, the DNF of a formula holds where the formula is true, and only
there. When a product of unknowns occurs, one of the two remains, the one `-nla` promises, and only
if nothing is negated: `MCNegatedProduct` shows why that hypothesis is needed. The only
variables such a formula may use as formulas are `true` and `false`: `RewriteBooleans`
has replaced the others. An empty DNF is false here, as it is inside `SMTParser`;
that `compose` takes it for TRUE is in section 5.

**A line keeps its meaning.** `RewritingProofs` is about the handlers that come before
`SMTParser`, for formulas of any size and any number of lines. A handler is a function
on a set of terms closed under arguments (`Closed`, `Deep`) which satisfies the equation the
module `Rewriting` defines it by; a meaning (`Reading`) satisfies SMT-LIB's equations.
`TermsHaveOneMeaning` shows that each such set has one meaning, and no other, for given
values of the names, so that no theorem speaks of an empty class.
  - `EqualityKeepsMeaning`, `StrictKeepsMeaning`, `BooleansKeepMeaning`,
    `SubstitutionKeepsMeaning` and `ReadsOverWritesKeepMeaning`: a term is worth what it was.
  - `CallsKeepMeaning` and `DivisionsKeepMeaning`: the handlers that make variables pass a
    cache from argument to argument and from line to line. Where every variable of the cache
    is worth the call or the division it was made for (`Stands`), the term is worth
    what it was. The constraints of a division leave its variable this value only, and
    exclude none (`QuotientConstraintWorth`, `RemainderConstraintWorth`); so a
    line with its constraints is true exactly where the line was true and the cache stands.
  - `LinesKeepTheirMeaning` puts them in the order of `parseTransition`, with
    `FormulasKeepTheirMeaning` at the end: whatever the caches hold from the lines before,
    the polyhedra of a line hold exactly where the line is true and each quotient and remainder
    is worth its division, when the calls' variables are worth their calls (what
    `CallsHaveTheirValues` checks of the solver).

The induction is on the depth of a term, and inside it on the number of arguments done,
since the cache an argument is given is what the one before it left. What
the theorems need is in their `...Stage` hypotheses: lets and quantifiers
are gone; compared operands and the names of divisions are integers; `not` has one
argument; a divisor is not 0 and a numeral has no sign (section 5); index terms
that `ArrayHandler` takes for different are worth different indices (`ReadsOver`: it compares
text, array_handler.cpp:105, and line 76 states the assumption); and the line is in integer mode, in which strict inequalities
are rewritten.

Only model-checked: everything under fairness (`WaitReturns`,
`DestructorReturns`, `JoinReturnsUnlessAbandoned`, `StoppedSearchEnds`,
`TerminatingLassosAreLeft`), which is out of the prover's reach; `LassoBuilder` on
traces that are not plain; `CallsFollowTheLines`; and, as invariants of a state machine, `FormulaTypeOK`, `NothingIsLost`,
`NothingIsAdded`, `ReaderTypeOK`, `AssertedIsAsked` and `CallsHaveTheirValues`, because
`Formula`, `SmtReader` and what extends them go down terms by recursive operators. What
`NothingIsLost` and `NothingIsAdded` rest on for each line is `LinesKeepTheirMeaning`; what stays with
TLC is that the recursive operators satisfy its equations, the substitution of several
bindings of a let, and the handlers that throw.

## 5. Disagreements found

Each of these is a run that TLC finds violated:

1. `MCPortfolioHang`: `workerLoop` sets `stop_` when `pending_` reaches 0. If a
   technique ends before `solve` has enqueued the next one, idle workers leave;
   the later tasks are never run and `join` never returns, with or without a time
   limit.
2. `MCPortfolioPoolLifetime`: the pool is destroyed right after its workers are
   cancelled and detached, while they may still be about to lock its mutex.
3. `MCLassoRawChain`: with three lines that have names of their own,
   `raw_formula` keeps an unresolved name; `removeDeadVariables` then drops a
   live name from the maps, and the polyhedra lose the variable.
4. `MCBranchLocal`: supporting invariants are made and shown inductive per branch of
   the loop, and used after iterations through the other branches. A lasso whose
   other branch breaks the invariant is reported TERMINATING.
5. `MCHiddenNames`: the values between two lines of a loop have names in the
   polyhedra that are missing from the names Motzkin's transformation has to
   cancel; `x := x + 1; assume x >= 1; x := x - 1` is reported TERMINATING.
6. `MCNegatedProduct`: a comparison of products is replaced by true before its
   negation is taken, so that `-nla overapproximate` removes executions.

These were seen with a change of constants of a run above, and have no run of
their own. The passing runs exclude them by these constants, or by the hypotheses named here.

| Constants | Property | What happens |
|---|---|---|
| MCPortfolioHang with one technique and `Interruptible = {}` | JoinReturns | `SMTSolverCVC5::interrupt` only sets a flag tested before a search; the second wait of `join` has no deadline |
| MCPortfolioHang with `SlowInit = {1}` | ResultKillsThreads | `killAll` comes after the waits (portfolio_orchestrator.cpp:160, 170), which end when every task has returned: a technique inside `init` holds up the result that was found, and nothing is left to kill. The comment at 174 says "result found: kill threads immediately (don't wait for init())" |
| MCPortfolioHang with `InitMayThrow = {2}` | ResultSurvives | `init` is called outside the try block of `runTechnique` (47, 66): when it throws, the process ends, though another technique's proof is stored; include/portfolio_orchestrator.h:47 promises it to the caller |
| MCLassoBuilder with `Readings <- mcOneLine`, `Arrays = {x}` | FixpointIsReal | an array that the loop changes gets no `x = x'` (fixpoint_technique.cpp:301), so one iteration is reported as an infinite run; fixpoint_technique.h:16 promises the equality for every variable |
| MCLassoBuilder, raw, one line in each part, `shared = "any"` | FixpointIsReal | a loop output that collides with a stem output is renamed `_loop_fresh_` (json_trace_parser.cpp:171), and fixpoint_technique.cpp:296 takes it for a variable the trace does not have |
| MCLassoBuilder, raw, `partial = "any"` | FixpointIsReal | the last line of the loop writes, unread, a variable that an earlier line reads: the variable is left out of `in_vars` and not equated |
| MCLassoBuilder, linearized, two loop lines, `shared = "any"` | LassoMeansItsLines | only the loop's final names are compared with the stem's (json_trace_parser.cpp:166), so a name inside the loop is captured |
| MCLassoRawChain, not linearized, two loop lines | RawAligned without its hypothesis that the lines are linearized | without polyhedra `compose` returns the other transition (transition.cpp:255): the maps are the last line's, the raw formula is everyone's |
| MCLassoRawChain with `mayFail = TRUE`, `MaxRenamed = 1` | LassoMeansItsLines | a line the parser refuses is kept without constraints (json_trace_parser.cpp:1095) |
| MCLassoRawChain with one loop line, `Quoted = {x}` | LassoMeansItsLines | `collectLiveSSAs` splits quoted names at spaces, so the variable is taken for dead (json_trace_parser.cpp:46) |
| MCLassoBuilder | CallsFollowTheLines without `StemNamesKept` | `storeAbstractFunctionsToLasso` takes the stem's names (json_trace_parser.cpp:368) after the dead ones have been replaced (799): the call of a variable that the stem does not mention gets a fresh name that nothing else uses, and is unrelated to the loop's variable. Line 334 says "We need to apply these same substitutions to the original_call" |
| MCLassoBuilder | CallsFollowTheLines without `Unchained` | two loop lines, of which the first leaves x as it is: the second one's name `q` is mapped to the first's, `p`, and `p` to the stem's; applied in the map's order (json_trace_parser.cpp:381) `q` may end as `p`, which is gone |
| MCLassoBuilder | CallsFollowTheLines without `NoneShared` | the loop repeats an edge of the stem: its name `_loop_fresh_` (171) is not known to the calls, and the stem's calls are renamed as the loop's are, from a name that in the stem means another value |
| MCLassoBuilder with `Readings <- mcTwoLines` | CallsAreDeclared | a call on the value between two lines of the loop mentions a name that is in no map: `declareSolverContext` asserts its equality (lasso_program.cpp:93) without having declared it, and the wrapper's exception leaves `init` |
| MCFormula with `Traces <- mcSharedDivision` | NothingIsAdded | a quotient the stem created is not constrained again in the loop (rewrite_division_modulo.cpp:171): the loop has a free quotient |
| MCFormula with `Traces <- mcSwap` | NothingIsLost | `let ((x y) (y x))` is substituted one binding after the other (rewrite_let.cpp:46) |
| MCFormula with `Traces <- mcCapture` | AssertedIsAsked | a quantifier under a `let` reuses a name of the let's value: Z3's wrapper binds the global constant of that name (SMTSolverZ3.cpp:883), CVC5's a new variable |

What a reader of the code should also know. No path produces the
TIMEOUT verdict of README.md:100. A check of CVC5 in progress is not ended
by `interrupt` (SMTSolverCVC5.h:161 says it is). With `-nla underapproximate` a
line whose DNF lost every polyhedron, and in any mode a line that a handler gave
up, count as TRUE (transition.cpp:263): fine for a termination argument, unsound
for a non-termination one, and `NothingIsAdded` excludes such lines by its
hypothesis. An element of an array of arrays is abstracted by an Int, whose
equality with the array read is ill-sorted: Z3's wrapper swallows the exception
and ignores every call from there on, `reset()` included, so the technique's
answer is UNKNOWN; CVC5's throws. A division whose divisor is 0 gets a constraint that is
false, where SMT-LIB leaves the quotient open, but folds to 0 when both operands are literals
(rewrite_division_modulo.cpp:114). A division of two literals truncates, as the comments
there say (115, 192), but the constraint of any other division rounds as SMT-LIB does: they differ
for a literal with a minus sign only, and the literals that the traces in `benchmarks/` and
`examples/` divide by are positive (binomialCoefficient divides by variables).

## 6. Abstractions and limits

* Memory is sequentially consistent. `stop_early_` is read relaxed
  (portfolio_orchestrator.cpp:49) after a seq_cst store of `cancelled_`; on a
  weakly ordered machine the argument of `NoLostCancel` needs more.
  `m_interrupted` of `SMTSolverZ3` is a plain bool shared by two threads; its
  reads are separated by calls the compiler cannot see through, and only `true`
  is ever stored after construction.
* One `solve`/`join` pair per process, as pasttel.cpp does, and the order in
  which `addTechnique` sorts. `setNumberThreads(0)` is excluded by the command line.
* Names are model values. So the substring tests on names are left out
  (`isBoolVar`, rewrite_booleans.cpp:12, takes an integer whose name contains a
  boolean's for a boolean), and so are formulas' text, statistics and logging.
* Arithmetic is over the integers: real division and rational coefficients are
  not modelled, nor is the solvers' own decision procedure (its answer is a
  choice among the models of what was asserted).
* In `TraceToSolver` all lines name a variable alike, and binders have the sorts Int and
  Bool; the wrappers read Real as well, which no trace of `benchmarks/` or `examples/` binds.
* Ill-sorted applications are equalities and array reads; other operators are
  applied to the sorts they need in every trace of the runs.

Not modelled, and why: reading a model's values back, the normalisation by a gcd
and printing (`ModelExtractionUtils.h`, the `extract` functions: conversions of
text; the arguments are judged as the solver gave them); the expansion of store
equalities (array_handler.cpp:130-284 looks for equalities that `RewriteEquality`
has replaced); the product handler (installed nowhere);
`convertLassoStringToLassoProgram` and `clone` (no caller); the multiphase
template (`createTemplate` never makes it); the validator (`USE_VALIDATOR` is
false); the command line and report.

## 7. Plan

Done: all the modules of section 2; proofs for the concurrent components, for both
kinds of argument and their agreement, for the lasso built from plain traces, and
for a line's way from its formula to its polyhedra. What remains worth doing, in this order:

1. `LassoBuilder` on traces with one shared or partial line, where the properties
   are model-checked and hold.
2. `LassoBuilder` on polyhedra of `Formula` instead of occurrences, which would
   join the two halves of the parser in one run.
3. Rational arithmetic: model extraction, and the normalisation of nested
   ranking functions, which divides each component by its own gcd.
4. A store-buffer model of `stop_early_` and `cancelled_`.
