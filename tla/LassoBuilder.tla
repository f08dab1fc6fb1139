----------------------------- MODULE LassoBuilder -----------------------------
(***************************************************************************)
(* From the lines of a trace to the lasso the techniques analyse:          *)
(* LinearTransition::buildFromLines and compose (src/transition.cpp),      *)
(* JsonTraceParser::parseToLasso and the functions it calls                *)
(* (src/parser/json_trace_parser.cpp), and the constraints FixpointTechni- *)
(* que asserts about it (src/nontermination/fixpoint_technique.cpp).       *)
(*                                                                         *)
(* Every line names the values of the program variables it reads and       *)
(* writes by SSA names of its own; the program's work is to rename them    *)
(* until two names are equal exactly when they stand for the same value.   *)
(* So a formula is abstracted to the occurrences in it of names, each with *)
(* the cell, the value of a variable between two lines, that it denotes.   *)
(* The code sees and renames the names; the cells are history.  Which      *)
(* inequalities hold between the values plays no part in the renaming.     *)
(*                                                                         *)
(* One behaviour reads one trace.  Its lines are chosen as they are read   *)
(* (parseTransition), which is also when buildFromLines gets to them.      *)
(***************************************************************************)
EXTENDS Integers

CONSTANTS
  Vars,         \* the program variables
  Arrays,       \* those of them of an Array sort
  Quoted,       \* those whose names are quoted and have a space inside
  MaxName,      \* bound: SSA indices of one variable
  MaxRenamed,   \* bound: lines after a part's first that may read a value under
                \* a name of their own
  Readings      \* the readings the model covers: records that bound the trace and
                \* give parseToLasso's arguments

\* linearize: parseToLasso's argument, TRUE for the polyhedra techniques.  stem,
\* loop: bounds on their lines.  disjuncts: bound for a line that mentions all its
\* names (else one).  shared: which loops may have an edge of the stem again.
\* partial: which parts may leave variables out of in_vars.  mayFail: the DNF
\* parser may refuse a line.
Extent == {"none", "one line", "any"}

ASSUME VarsAssumption == Arrays \subseteq Vars /\ Quoted \subseteq Vars
ASSUME BoundsAssumption == MaxName \in Nat /\ MaxRenamed \in Nat
ASSUME ReadingsAssumption ==
  \A r \in Readings : /\ {r.stem, r.loop, r.disjuncts} \subseteq Nat
                      /\ {r.linearize, r.mayFail} \subseteq BOOLEAN
                      /\ {r.shared, r.partial} \subseteq Extent

VARIABLES
  reading,       \* the reading this behaviour is
  phase,         \* the step of parseToLasso
  stem, loop,    \* lasso.stem and lasso.loop; while they are built, accumulated
  lines,         \* how many lines the current part has
  prev_out,      \* out_vars of the line before
  raw_subst,     \* cumulative_raw_subst
  program_vars,
  verdict,       \* the fixpoint technique's: none, UNKNOWN, CHECKED
  asserted,      \* what it asserted: occurrences and equated variables
  now,           \* history: the cell of each variable between the lines
  edges,         \* history: the pairs of indices of each part's lines
  spans,         \* history: the cells each part starts and ends with
  choices        \* history: the disjuncts of each part's lines, combined

lassoVars == <<reading, phase, stem, loop, lines, prev_out, raw_subst, program_vars, verdict,
               asserted, now, edges, spans, choices>>
ghosts == <<reading, now, edges, spans, choices>>

Parts == {"stem", "loop"}
Linearize == reading.linearize

\* the name of a variable in a trace, and the fresh names the builder makes
Ssa(v, n)      == [var |-> v, n |-> n, tag |-> "ssa"]
FreshName(v, t) == [var |-> v, n |-> 0, tag |-> t]
IsFresh(name)  == name.tag # "ssa"

\* a std::map from program variables to names
EmptyMap == [v \in {} |-> Ssa(v, 0)]
NamesIn(map) == {map[v] : v \in DOMAIN map}

\* An atom has the line and the disjunct it comes from, and its occurrences.
AtomNames(a) == {o.name : o \in a.occ}
PolyOcc(t)   == UNION {UNION {a.occ : a \in p} : p \in t.polyhedra}
RawOcc(t)    == UNION {a.occ : a \in t.raw}
RawNames(t)  == {o.name : o \in RawOcc(t)}

NoTransition == [in |-> EmptyMap, out |-> EmptyMap, polyhedra |-> {{}}, raw |-> {}]

-----------------------------------------------------------------------------
(* Substitutions: a function from some names to names                       *)

SubName(s, name) == IF name \in DOMAIN s THEN s[name] ELSE name
SubMap(s, map)   == [v \in DOMAIN map |-> SubName(s, map[v])]
SubAtom(s, a)    == [a EXCEPT !.occ = {[o EXCEPT !.name = SubName(s, @)] : o \in a.occ}]
SubPolyhedra(s, ps) == {{SubAtom(s, a) : a \in p} : p \in ps}
SubRaw(s, as)    == {SubAtom(s, a) : a \in as}

\* substituteInFormula: the entries one after the other, in the map's order, so
\* that a later one replaces what an earlier one has put in
SubInOrder(s, name) ==
  LET f[k \in 0 .. MaxName] ==
        LET cur == IF k = 0 THEN name ELSE f[k - 1]
        IN  IF cur.tag = "ssa" /\ cur.n = k THEN SubName(s, cur) ELSE cur
  IN  f[MaxName]

substituteInFormula(s, a) ==
  [a EXCEPT !.occ = {[o EXCEPT !.name = SubInOrder(s, @)] : o \in a.occ}]

-----------------------------------------------------------------------------
(* transition.cpp *)

isTrue(t) == t.polyhedra = {{}}

\* Seeded faults: an operator named X_Y is a plausible wrong version of the
\* operator X that follows it; no specification uses it.

\* The names other ends with are not renamed.
compose_OutAsIs(this, other) ==
  LET shared == DOMAIN this.out \cap DOMAIN other.in
      substitution_map ==
        [name \in {other.in[v] : v \in shared} |->
           this.out[CHOOSE v \in shared : other.in[v] = name]]
  IN  IF isTrue(this) THEN other
      ELSE IF isTrue(other) THEN this
      ELSE [in  |-> this.in, out |-> other.out,
            polyhedra |-> {p \cup q : p \in this.polyhedra,
                                      q \in SubPolyhedra(substitution_map, other.polyhedra)},
            raw |-> this.raw]

\* this.compose(other): other's names for what it reads become this's names for
\* what it wrote.  (The constraint added for an empty product is not modelled: a
\* transition has at least one polyhedron.)
compose(this, other) ==
  LET shared == DOMAIN this.out \cap DOMAIN other.in
      substitution_map ==
        [name \in {other.in[v] : v \in shared} |->
           this.out[CHOOSE v \in shared : other.in[v] = name]]
  IN  IF isTrue(this) THEN other
      ELSE IF isTrue(other) THEN this
      ELSE [in  |-> this.in,
            out |-> SubMap(substitution_map, other.out),
            polyhedra |-> {p \cup q : p \in this.polyhedra,
                                      q \in SubPolyhedra(substitution_map, other.polyhedra)},
            raw |-> this.raw]

\* It renames the line before instead of the line.
ExtendRawSubst_Swapped(s, before, in) ==
  LET renamed == {v \in DOMAIN in \cap DOMAIN before : before[v] # in[v]}
      names   == {before[v] : v \in renamed}
  IN  [name \in DOMAIN s \cup names |->
         IF name \in names THEN in[CHOOSE v \in renamed : before[v] = name] ELSE s[name]]

\* cumulative_raw_subst after a line: the line before is taken as it is in the
\* trace, not as it was renamed
ExtendRawSubst(s, before, in) ==
  LET renamed == {v \in DOMAIN in \cap DOMAIN before : before[v] # in[v]}
      names   == {in[v] : v \in renamed}
  IN  [name \in DOMAIN s \cup names |->
         IF name \in names THEN before[CHOOSE v \in renamed : in[v] = name] ELSE s[name]]

\* one round of buildFromLines' loop: the accumulated transition after a line
AddLine(t, line, s) ==
  LET current == [in |-> line.in, out |-> line.out, raw |-> {},
                  polyhedra |-> IF line.dnf = {} THEN {{}} ELSE line.dnf]
      composed == IF lines = 0 THEN current ELSE compose(t, current)
  IN  [composed EXCEPT !.raw = t.raw \cup {substituteInFormula(s, line.formula)}]

-----------------------------------------------------------------------------
(* Reading the lines *)

Transition(part) == IF part = "stem" THEN stem ELSE loop
Bound(part)      == IF part = "stem" THEN reading.stem ELSE reading.loop

\* the indices of a variable that the lines of a part use
Used(part, v) == UNION {{e[1], e[2]} : e \in edges[part][v]}

\* A new name has the lowest or the highest index that no line has used: the
\* order of the names is all that matters.
NewIndices(v) ==
  LET free == (1 .. MaxName) \ (Used("stem", v) \cup Used("loop", v))
  IN  {n \in free : (\A m \in free : n <= m) \/ (\A m \in free : n >= m)}

\* A line that writes an edge of the stem again, or leaves out in_vars.
IsShared(e, v)  == e[1] # e[2] /\ e \in edges["stem"][v]
IsPartial(e)    == e[1] = 0

\* The lines read so far allow another one.
MayGoOn(part) ==
  lines > 0 =>
    \A v \in Vars : \A e \in edges[part][v] :
      /\ IsPartial(e) => reading.partial = "any"
      /\ part = "loop" /\ IsShared(e, v) => reading.shared = "any"

\* The indices of a variable in a line's in_vars and out_vars; 0: not mapped.
\* SSA names are written once.  A value read has the name it was written under
\* or, at the start of a part and in the lines MaxRenamed allows, a new one.
Namings(part, v) ==
  LET first == v \notin DOMAIN prev_out
      read == (IF first THEN {} ELSE {prev_out[v].n})
                \cup (IF first \/ lines <= MaxRenamed THEN NewIndices(v) ELSE {})
                \cup (IF part = "loop" /\ lines = 0 /\ v \in DOMAIN stem.out
                      THEN {stem.out[v].n} ELSE {})
      again == {e \in edges["stem"][v] : e[2] \notin Used("loop", v)}
      unread == {<<0, 0>>} \cup ({0} \X NewIndices(v))
  IN  {e \in read \X (read \cup NewIndices(v)) : e[2] = e[1] \/ e[2] \in NewIndices(v)}
        \cup (IF reading.partial = "any" \/ (reading.partial = "one line" /\ lines = 0) THEN unread ELSE {})
        \cup (IF part = "loop" /\ (reading.shared = "any" \/ (reading.shared = "one line" /\ lines = 0))
              THEN again ELSE {})

\* the line of a trace with given names, that mentions those of a set and has
\* some number of disjuncts
Line(part, naming, mention, disjuncts) ==
  LET written(v) == naming[v][2] # naming[v][1]
      occIn  == {[name |-> Ssa(v, naming[v][1]), cell |-> <<v, now[v]>>] :
                   v \in {u \in Vars : naming[u][1] # 0}}
      occOut == {[name |-> Ssa(v, naming[v][2]), cell |-> <<v, now[v] + 1>>] :
                   v \in {u \in Vars : written(u)}}
      occ    == {o \in occIn \cup occOut : o.name \in mention}
      atom(d) == [line |-> <<part, lines>>, disjunct |-> d, occ |-> occ]
  IN  [in  |-> [v \in {u \in Vars : naming[u][1] # 0} |-> Ssa(v, naming[v][1])],
       out |-> [v \in {u \in Vars : naming[u][2] # 0} |-> Ssa(v, naming[v][2])],
       dnf |-> {{atom(d)} : d \in 1 .. disjuncts},
       formula |-> atom(0)]

\* the lines with given names: they mention some of them, or all of them in each
\* of their disjuncts
LinesNamed(part, naming) ==
  LET names == {Ssa(v, k) : v \in Vars, k \in 1 .. MaxName}
                 \cap UNION {{Ssa(v, naming[v][1]), Ssa(v, naming[v][2])} : v \in Vars}
  IN  {Line(part, naming, mention, 1) : mention \in SUBSET names}
        \cup {Line(part, naming, names, d) : d \in IF Linearize THEN 1 .. reading.disjuncts ELSE {1}}

\* the lines the trace may go on with
NextLines(part) ==
  UNION {LinesNamed(part, f) : f \in {g \in [Vars -> (0 .. MaxName) \X (0 .. MaxName)] :
                                       \A v \in Vars : g[v] \in Namings(part, v)}}

\* parseTransition: an exception of the parser leaves the DNF empty
parseTransition(line, fails) ==
  IF Linearize /\ ~fails THEN line ELSE [line EXCEPT !.dnf = {}]

IndexIn(map, v) == IF v \in DOMAIN map THEN map[v].n ELSE 0

\* a round of the loops of parseToLasso and buildFromLines
BuildFromLine(part, text, fails) ==
  LET line == parseTransition(text, fails)
      subst == ExtendRawSubst(raw_subst, prev_out, line.in)
      t == AddLine(Transition(part), line, subst)
      edge(v) == <<IndexIn(line.in, v), IndexIn(line.out, v)>>
  IN  /\ raw_subst' = subst /\ prev_out' = line.out /\ lines' = lines + 1
      /\ stem' = IF part = "stem" THEN t ELSE stem
      /\ loop' = IF part = "loop" THEN t ELSE loop
      /\ now' = [v \in Vars |-> IF edge(v)[1] = edge(v)[2] THEN now[v] ELSE now[v] + 1]
      /\ edges' = [edges EXCEPT ![part] = [v \in Vars |-> @[v] \cup {edge(v)}]]
      /\ choices' = [choices EXCEPT ![part] =
           {c \cup {<<a.line, a.disjunct>> : a \in p} : c \in @, p \in text.dnf}]

MayFail == IF reading.mayFail THEN BOOLEAN ELSE {FALSE}

ReadLine(part) ==
  /\ phase = part /\ lines < Bound(part) /\ MayGoOn(part)
  /\ \E text \in NextLines(part), fails \in MayFail : BuildFromLine(part, text, fails)
  /\ UNCHANGED <<reading, phase, program_vars, verdict, asserted, spans>>

EndStem ==
  /\ phase = "stem"
  /\ phase' = "loop" /\ lines' = 0 /\ prev_out' = EmptyMap /\ raw_subst' = EmptyMap
  /\ spans' = [spans EXCEPT !["stem"].to = now, !["loop"].from = now]
  /\ UNCHANGED <<reading, stem, loop, program_vars, verdict, asserted, now, edges, choices>>

EndLoop ==
  /\ phase = "loop"
  /\ phase' = "connect"
  /\ spans' = [spans EXCEPT !["loop"].to = now]
  /\ UNCHANGED <<reading, stem, loop, lines, prev_out, raw_subst, program_vars, verdict, asserted,
                 now, edges, choices>>

-----------------------------------------------------------------------------
(* json_trace_parser.cpp: the steps after both transitions are built        *)

\* the first half of connectStemToLoop: a name the loop writes that is also one
\* the stem ends with becomes a fresh one, for the value read too if it is kept
RenameCollisions(t, stemOut) ==
  LET colliding  == {v \in DOMAIN t.out : t.out[v] \in NamesIn(stemOut)}
      out_rename == [name \in {t.out[v] : v \in colliding} |->
                       FreshName((CHOOSE v \in colliding : t.out[v] = name), "loop_fresh")]
      kept(v)    == v \in colliding /\ t.in[v] = t.out[v]
  IN  [in  |-> [v \in DOMAIN t.in |-> IF v \in DOMAIN t.out /\ kept(v)
                                      THEN out_rename[t.in[v]] ELSE t.in[v]],
       out |-> SubMap(out_rename, t.out),
       polyhedra |-> SubPolyhedra(out_rename, t.polyhedra),
       raw |-> SubRaw(out_rename, t.raw)]

\* the second half: the names the loop reads become those the stem ends with
SubstituteIn(t, stemOut) ==
  LET renamed == {v \in DOMAIN t.in \cap DOMAIN stemOut : t.in[v] # stemOut[v]}
      substitution == [name \in {t.in[v] : v \in renamed} |->
                         stemOut[CHOOSE v \in renamed : t.in[v] = name]]
  IN  [in  |-> SubMap(substitution, t.in),
       out |-> SubMap(substitution, t.out),
       polyhedra |-> SubPolyhedra(substitution, t.polyhedra),
       raw |-> SubRaw(substitution, t.raw)]

connectStemToLoop ==
  /\ phase = "connect"
  /\ loop' = SubstituteIn(RenameCollisions(loop, stem.out), stem.out)
  /\ phase' = "prune"
  /\ UNCHANGED <<stem, lines, prev_out, raw_subst, program_vars, verdict, asserted, ghosts>>

\* collectLiveSSAs: it splits the formula at spaces, quoted names too
Live(t) == {name \in RawNames(t) : name.var \notin Quoted}

\* removeDeadVariables: of a program variable, the names that its own part's
\* formula does not mention; a variable that has no name left is dropped
PruneMap(map, live) ==
  [v \in {u \in DOMAIN map : u \in program_vars => map[u] \in live} |-> map[v]]

PruneTransition(t) ==
  [t EXCEPT !.in = PruneMap(@, Live(t)), !.out = PruneMap(@, Live(t))]

removeDeadVariables ==
  /\ phase = "prune"
  /\ stem' = PruneTransition(stem) /\ loop' = PruneTransition(loop)
  /\ program_vars' = {v \in program_vars :
       \/ v \in DOMAIN stem'.in \/ v \in DOMAIN stem'.out
       \/ v \in DOMAIN loop'.in \/ v \in DOMAIN loop'.out}
  /\ phase' = "ensure"
  /\ UNCHANGED <<lines, prev_out, raw_subst, verdict, asserted, ghosts>>

\* step 7b: every program variable gets its four names
ensureMapping(map, tag) ==
  [v \in DOMAIN map \cup program_vars |->
     IF v \in DOMAIN map THEN map[v] ELSE FreshName(v, tag)]

\* It completes the loop's maps only.
EnsureMappings_Loop ==
  /\ phase = "ensure"
  /\ loop' = [loop EXCEPT !.in  = ensureMapping(@, "fresh_loop_in"),
                          !.out = ensureMapping(@, "fresh_loop_out")]
  /\ phase' = "built"
  /\ UNCHANGED <<stem, lines, prev_out, raw_subst, program_vars, verdict, asserted, ghosts>>

EnsureMappings ==
  /\ phase = "ensure"
  /\ stem' = [stem EXCEPT !.in  = ensureMapping(@, "fresh_stem_in"),
                          !.out = ensureMapping(@, "fresh_stem_out")]
  /\ loop' = [loop EXCEPT !.in  = ensureMapping(@, "fresh_loop_in"),
                          !.out = ensureMapping(@, "fresh_loop_out")]
  /\ phase' = "built"
  /\ UNCHANGED <<lines, prev_out, raw_subst, program_vars, verdict, asserted, ghosts>>

-----------------------------------------------------------------------------
(* fixpoint_technique.cpp, on the lasso that was not linearized             *)

hasNoStem == isTrue(stem) /\ stem.raw = {}

\* A name the maps do not have is declared when it is met.
Declared_OnDemand == RawNames(stem) \cup RawNames(loop)

\* LassoProgram::declareSolverContext: the names the solver knows
Declared ==
  NamesIn(loop.in) \cup NamesIn(loop.out)
    \cup (IF hasNoStem THEN {} ELSE NamesIn(stem.in) \cup NamesIn(stem.out))

\* addFixpointConstraints: x = x' for the variables it does not skip
Equated ==
  {v \in DOMAIN loop.in : /\ loop.in[v] # loop.out[v]
                          /\ ~IsFresh(loop.in[v]) /\ ~IsFresh(loop.out[v])
                          /\ v \notin Arrays}

\* analyze(), up to the solver's answer: nothing to check for a loop without
\* formula, an exception for a name that is not declared, else CHECKED
FixpointAnalyze ==
  /\ phase = "built" /\ ~Linearize
  /\ phase' = "done"
  /\ IF loop.raw = {} /\ isTrue(loop)
     THEN verdict' = "TRIVIAL" /\ UNCHANGED asserted
     ELSE IF RawNames(stem) \cup RawNames(loop) \subseteq Declared
     THEN /\ verdict' = "CHECKED"
          /\ asserted' = [stem |-> RawOcc(stem), loop |-> RawOcc(loop), equated |-> Equated]
     ELSE verdict' = "UNKNOWN" /\ UNCHANGED asserted
  /\ UNCHANGED <<stem, loop, lines, prev_out, raw_subst, program_vars, ghosts>>

-----------------------------------------------------------------------------
LassoInit ==
  /\ reading \in Readings
  /\ phase = "stem" /\ stem = NoTransition /\ loop = NoTransition
  /\ lines = 0 /\ prev_out = EmptyMap /\ raw_subst = EmptyMap
  /\ program_vars = IF Linearize THEN Vars \ Arrays ELSE Vars
  /\ verdict = "none" /\ asserted = [stem |-> {}, loop |-> {}, equated |-> {}]
  /\ now = [v \in Vars |-> 0]
  /\ edges = [p \in Parts |-> [v \in Vars |-> {}]]
  /\ spans = [p \in Parts |-> [from |-> now, to |-> now]]
  /\ choices = [p \in Parts |-> {{}}]

LassoNext ==
  \/ \E part \in Parts : ReadLine(part)
  \/ EndStem \/ EndLoop
  \/ connectStemToLoop \/ removeDeadVariables \/ EnsureMappings
  \/ FixpointAnalyze

LassoSpec == LassoInit /\ [][LassoNext]_lassoVars

-----------------------------------------------------------------------------
(* Properties *)

\* parseToLasso has returned the lasso
Built == phase \in {"built", "done"}

\* Among the occurrences of a formula and the ends of its maps, two names are
\* equal exactly when their cells are.  Only cells the formula mentions count:
\* a map may give any name to a value nothing is said of.
Aligned(occ, t, part, vars) ==
  /\ \A o, p \in occ : o.name = p.name <=> o.cell = p.cell
  /\ \A o \in occ, v \in vars :
       /\ v \in DOMAIN t.in  => (o.name = t.in[v]  <=> o.cell = <<v, spans[part].from[v]>>)
       /\ v \in DOMAIN t.out => (o.name = t.out[v] <=> o.cell = <<v, spans[part].to[v]>>)
       /\ v \notin DOMAIN t.in  => o.cell # <<v, spans[part].from[v]>>
       /\ v \notin DOMAIN t.out => o.cell # <<v, spans[part].to[v]>>

\* The type of every variable: a map gives a variable names of that variable only,
\* and in the end each map has all program variables, as getSSAVar() expects.
LassoTypeOK ==
  LET Tags  == {"ssa", "loop_fresh", "fresh_stem_in", "fresh_stem_out", "fresh_loop_in",
                "fresh_loop_out"}
      Named(v) == [var : {v}, n : 0 .. MaxName, tag : Tags]
      MapOK(map) == DOMAIN map \subseteq Vars /\ \A v \in DOMAIN map : map[v] \in Named(v)
      OccOK(occ) == \A o \in occ : o.name \in Named(o.cell[1]) /\ o.cell \in Vars \X Nat
  IN  /\ reading \in Readings /\ phase \in {"stem", "loop", "connect", "prune", "ensure", "built", "done"}
      /\ \A t \in {stem, loop} : /\ MapOK(t.in) /\ MapOK(t.out)
                                /\ OccOK(PolyOcc(t)) /\ OccOK(RawOcc(t))
      /\ lines \in Nat /\ MapOK(prev_out) /\ DOMAIN raw_subst \subseteq UNION {Named(v) : v \in Vars}
      /\ program_vars \subseteq Vars
      /\ verdict \in {"none", "UNKNOWN", "TRIVIAL", "CHECKED"}
      /\ OccOK(asserted.stem) /\ OccOK(asserted.loop) /\ asserted.equated \subseteq Vars
      /\ now \in [Vars -> Nat]
      /\ Built => \A map \in {stem.in, stem.out, loop.in, loop.out} : program_vars \subseteq DOMAIN map

\* The transitions the techniques get mean what the lines of the trace do: each
\* has one polyhedron for every way to take a disjunct of every line, and in its
\* polyhedra and maps a name denotes one value between two lines and no other.
LassoMeansItsLines ==
  Built /\ Linearize =>
    \A part \in Parts :
      LET t == Transition(part)
      IN  /\ Aligned(PolyOcc(t), t, part, Vars \ Arrays)
          /\ {{<<a.line, a.disjunct>> : a \in p} : p \in t.polyhedra} = choices[part]

\* For the polyhedra techniques raw_formula is aligned with var_to_ssa_in and
\* var_to_ssa_out once the lines of a part are composed (the comment of
\* transition.cpp:391); without polyhedra compose keeps the last line's maps.
RawAligned ==
  Linearize =>
    /\ phase = "loop" /\ lines = 0 => Aligned(RawOcc(stem), stem, "stem", Vars)
    /\ phase = "connect" => Aligned(RawOcc(loop), loop, "loop", Vars)

\* When the fixpoint technique asks the solver, a model gives a state that stem
\* reaches and loop maps to itself, but for what it overwrites unread: no value of
\* the run has two names in what is asserted, and a variable of which the loop
\* mentions the values before and after it is equated.
FixpointIsReal ==
  verdict = "CHECKED" =>
    /\ \A o, p \in asserted.stem \cup asserted.loop : o.cell = p.cell => o.name = p.name
    /\ \A o, p \in asserted.loop, v \in Vars :
         /\ o.cell = <<v, spans["loop"].from[v]>>
         /\ p.cell = <<v, spans["loop"].to[v]>>
         => v \in asserted.equated \/ o.name = p.name
=============================================================================
