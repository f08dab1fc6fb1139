-------------------------- MODULE GeometricTechnique --------------------------
(***************************************************************************)
(* GeometricTechnique (geometric_technique.cpp): a lasso does not          *)
(* terminate when the stem reaches some x1 from which the loop can go on   *)
(* for ever along a sum of rays, x1, x1 + Y, x1 + Y + Y', ..., where Y is  *)
(* y1 + ... + yn and each ray becomes yi' = lambda_i yi + nu_i y(i+1).     *)
(* The technique asks the solver for x0, x1 and the rays such that the     *)
(* first iteration satisfies one polyhedron of the loop and every ray the  *)
(* same inequalities without their constants.                              *)
(*                                                                         *)
(* After a claim the module follows the run it describes, for MaxFollowed  *)
(* iterations: z gives every SSA name of the loop its value in the current *)
(* iteration, w[i] its value in ray i.                                     *)
(***************************************************************************)
EXTENDS LassoRun

CONSTANTS
    Settings,     \* records [gevs, bounded, nilpotent, linear]
    ClaimValues,  \* the values the solver may give to x0, x1, rays, other names
    MaxLambda,    \* and to the eigenvalues
    MaxFollowed

ASSUME SettingsAssumption ==
    Settings \subseteq [gevs : Nat, bounded : BOOLEAN, nilpotent : BOOLEAN, linear : BOOLEAN]
ASSUME ClaimAssumption ==
    ClaimValues \subseteq Int /\ MaxLambda \in Nat /\ MaxFollowed \in Nat

\* A transition has at least one polyhedron (a formula that is false becomes -1 >= 0).
ASSUME PolyhedraAssumption ==
    \A l \in Lassos : Len(l.loop.polys) > 0 /\ Len(l.stem.polys) > 0

VARIABLES
    settings,    \* settings_
    gpc,         \* "created", "ready", "done", "thrown" or "followed"
    gresult,     \* proof_.status
    claim,       \* the argument extractGNTA reads from the solver, or NoClaim
    z, w,        \* the names of the loop in the current iteration and rays
    followed     \* iterations followed so far

geoVars == <<settings, gpc, gresult, claim, z, w, followed>>
geometricVars == <<lasso, geoVars>>

NoClaim == [none |-> TRUE]

----------------------------------------------------------------------------
(* The constraints.                                                        *)

Mentions(poly, i) == \E j \in 1..Len(poly) : poly[j].coef[i] # 0

\* Value of an inequality along a ray: its constant does not count, and a strict
\* inequality only has to be kept.
RayHolds(ineq, v) == Sum(NumNames, [i \in Names |-> ineq.coef[i] * v[i]]) >= 0

RaySatisfies(poly, v) == \A j \in 1..Len(poly) : RayHolds(poly[j], v)

\* Seeded fault: x0 and x1 are not tied where the stem leaves a variable alone.
StemConstraints_NoIdentity(l, x0, x1, aux) ==
    LET used == {p \in 1..Len(l.stem.polys) : l.stem.polys[p] # <<>>}
    IN  used = {} \/ \E p \in used : Satisfies(l.stem.polys[p], Valuation(l.stem, x0, x1, aux))

\* addStemConstraints: the polyhedra without an inequality are skipped, also when
\* there are others; a variable the stem leaves alone has the same value in x0 and
\* x1, provided some inequality of the stem speaks of it.
StemConstraints(l, x0, x1, aux) ==
    LET used == {p \in 1..Len(l.stem.polys) : l.stem.polys[p] # <<>>}
    IN  /\ \/ used = {}
           \/ \E p \in used : Satisfies(l.stem.polys[p], Valuation(l.stem, x0, x1, aux))
        /\ \A u \in Vars :
              (l.stem.in[u] = l.stem.out[u] /\ \E p \in used : Mentions(l.stem.polys[p], l.stem.in[u]))
                  => x0[u] = x1[u]

\* y(i+1), times nu_i: the last ray has no successor.
Successor(c, i) ==
    IF i < Len(c.ys) THEN [u \in Vars |-> c.nus[i] * c.ys[i + 1][u]] ELSE [u \in Vars |-> 0]

\* lambda_i yi + nu_i y(i+1)
NextRay(c, i) == [u \in Vars |-> c.lambdas[i] * c.ys[i][u] + Successor(c, i)[u]]

Total(c) == [u \in Vars |-> Sum(Len(c.ys), [i \in 1..Len(c.ys) |-> c.ys[i][u]])]

\* The names of the loop in the first iteration, and along ray i.
FirstIteration(l, c) ==
    Valuation(l.loop, c.x1, [u \in Vars |-> c.x1[u] + Total(c)[u]], c.iter)
RayIteration(l, c, i) == Valuation(l.loop, c.ys[i], NextRay(c, i), c.rays[i])

FirstIterationConstraints(l, c) == Satisfies(l.loop.polys[c.p], FirstIteration(l, c))

\* Seeded fault: each ray may pick a polyhedron of its own.
RayConstraints_AnyBranch(l, c) ==
    \A i \in 1..Len(c.ys) :
        \E p \in 1..Len(l.loop.polys) : RaySatisfies(l.loop.polys[p], RayIteration(l, c, i))

\* The rays keep to the polyhedron of the first iteration.
RayConstraints(l, c) ==
    \A i \in 1..Len(c.ys) : RaySatisfies(l.loop.polys[c.p], RayIteration(l, c, i))

\* Seeded fault: a variable the loop leaves alone is not tied to itself.
IdentityConstraints_None(l, c, linear) == TRUE

\* addIdentityVariableConstraints: a variable the loop leaves alone does not move.
IdentityConstraints(l, c, linear) ==
    \A u \in Vars : l.loop.in[u] = l.loop.out[u] =>
        /\ Total(c)[u] = 0
        /\ \A i \in 1..Len(c.ys) :
              c.ys[i][u] = IF linear THEN 0 ELSE NextRay(c, i)[u]

EigenvalueConstraints(c, bounded) ==
    ~bounded => /\ \A i \in 1..Len(c.ys) : c.lambdas[i] >= 1
                /\ \E i \in 1..Len(c.ys), u \in Vars : c.ys[i][u] # 0

\* Polyhedra of the disjunction; one without an inequality adds no clause.
Branches(l) ==
    LET used == {p \in 1..Len(l.loop.polys) : l.loop.polys[p] # <<>>}
    IN  IF used = {} THEN 1..Len(l.loop.polys) ELSE used

Hidden(t) == [HiddenNames(t) -> ClaimValues]
Points == [Vars -> ClaimValues]

\* Eigenvalues are 1 in linear mode, and nu is only there with nilpotent components.
Lambdas(s) == [1..s.gevs -> IF s.linear THEN {1} ELSE 0..MaxLambda]
Nus(s) == [1..(s.gevs - 1) -> IF s.linear /\ s.nilpotent THEN {0, 1} ELSE {0}]

Rays(l, s) ==
    {c \in [p : Branches(l), ys : [1..s.gevs -> Points], lambdas : Lambdas(s), nus : Nus(s),
            rays : [1..s.gevs -> Hidden(l.loop)]] :
        /\ IdentityConstraints(l, c, s.linear)
        /\ EigenvalueConstraints(c, s.bounded)
        /\ RayConstraints(l, c)}

Starts(l) ==
    {c \in [x0 : Points, x1 : Points, aux : Hidden(l.stem), iter : Hidden(l.loop)] :
        StemConstraints(l, c.x0, c.x1, c.aux)}

\* What the solver may answer: addCombinedLoopConstraints asks for one polyhedron
\* that the first iteration and all the rays satisfy.
Claims(l, s) ==
    LET starts == Starts(l)
        Claim(c, d) == [p |-> c.p, ys |-> c.ys, lambdas |-> c.lambdas, nus |-> c.nus, rays |-> c.rays,
                        x0 |-> d.x0, x1 |-> d.x1, aux |-> d.aux, iter |-> d.iter]
    IN  UNION {{e \in {Claim(c, d) : d \in starts} : FirstIterationConstraints(l, e)} :
               c \in Rays(l, s)}

\* (A table, so that TLC computes each entry once.)
SatisfyingClaims == [l \in Lassos |-> [s \in Settings |-> Claims(l, s)]]

\* In the enumeration over nu a polyhedron that mentions no variable gives an
\* empty (and), which the reader of the solver wrapper refuses; in nonlinear mode
\* the names nu_i are used and never declared.
EncodingThrows(l, s) ==
    /\ s.nilpotent /\ s.gevs >= 2
    /\ IF s.linear
       THEN \E p \in 1..Len(l.loop.polys) : \A i \in Names : ~Mentions(l.loop.polys[p], i)
       ELSE \E u \in Vars :
               \/ l.loop.in[u] = l.loop.out[u]
               \/ \E p \in 1..Len(l.loop.polys) : Mentions(l.loop.polys[p], l.loop.out[u])

----------------------------------------------------------------------------
(* The technique, and the run it describes.                                *)

GeoInit == /\ settings \in Settings
           /\ gpc = "created"
           /\ gresult = "UNKNOWN"
           /\ claim = NoClaim
           /\ z = <<>> /\ w = <<>>
           /\ followed = 0

GeoInitialize == /\ gpc = "created"
                 /\ gpc' = "ready"
                 /\ UNCHANGED <<lasso, settings, gresult, claim, z, w, followed>>

\* analyze() finds an argument; z and w are those of the first iteration.
ArgumentFound ==
    /\ gpc = "ready"
    /\ ~EncodingThrows(lasso, settings)
    /\ claim' \in SatisfyingClaims[lasso][settings]
    /\ gresult' = "NON_TERMINATING"
    /\ gpc' = "done"
    /\ z' = FirstIteration(lasso, claim')
    /\ w' = [i \in 1..settings.gevs |-> RayIteration(lasso, claim', i)]
    /\ UNCHANGED <<lasso, settings, followed>>

\* Seeded fault: the status is set before the answer of the solver is known.
NoArgumentFound_StatusSet ==
    /\ gpc = "ready"
    /\ ~EncodingThrows(lasso, settings)
    /\ gpc' = "done" /\ gresult' = "NON_TERMINATING"
    /\ UNCHANGED <<lasso, settings, claim, z, w, followed>>

\* Unsat, unknown or interrupted.
NoArgumentFound ==
    /\ gpc = "ready"
    /\ ~EncodingThrows(lasso, settings)
    /\ gpc' = "done"
    /\ UNCHANGED <<lasso, settings, gresult, claim, z, w, followed>>

EncodingFails ==
    /\ gpc = "ready"
    /\ EncodingThrows(lasso, settings)
    /\ gpc' = "thrown"
    /\ UNCHANGED <<lasso, settings, gresult, claim, z, w, followed>>

NextIteration(z0, w0) ==
    [i \in Names |-> z0[i] + Sum(Len(w0), [k \in 1..Len(w0) |-> w0[k][i]])]

\* lambda_k w_k + nu_k w_(k+1)
NextRays(c, w0) ==
    [k \in 1..Len(w0) |->
        IF k < Len(w0) THEN [i \in Names |-> c.lambdas[k] * w0[k][i] + c.nus[k] * w0[k + 1][i]]
                       ELSE [i \in Names |-> c.lambdas[k] * w0[k][i]]]

\* One more iteration of the run that was claimed.
Follow ==
    /\ gresult = "NON_TERMINATING"
    /\ followed < MaxFollowed
    /\ followed' = followed + 1
    /\ z' = NextIteration(z, w)
    /\ w' = NextRays(claim, w)
    /\ UNCHANGED <<lasso, settings, gpc, gresult, claim>>

GeoNext == GeoInitialize \/ ArgumentFound \/ NoArgumentFound \/ EncodingFails \/ Follow

GeometricInit == lasso \in Lassos /\ GeoInit
GeometricSpec == GeometricInit /\ [][GeoNext]_geometricVars

----------------------------------------------------------------------------
(* Properties.                                                             *)

GeometricTypeOK ==
    /\ lasso \in Lassos /\ settings \in Settings
    /\ gpc \in {"created", "ready", "done", "thrown"}
    /\ gresult \in {"UNKNOWN", "NON_TERMINATING"}
    /\ (gresult = "NON_TERMINATING") <=> (claim # NoClaim)
    /\ followed \in 0..MaxFollowed
    /\ gresult = "NON_TERMINATING" =>
          z \in [Names -> Int] /\ w \in [1..settings.gevs -> [Names -> Int]]

\* However far the claimed run is followed, each of its iterations satisfies the
\* polyhedron of the loop the claim was made with.
ClaimedRunIsARun ==
    gresult = "NON_TERMINATING" => Satisfies(lasso.loop.polys[claim.p], z)

\* Each iteration of the claimed run starts where the one before it ended, also in
\* the variables the loop does not touch.
ClaimedRunIsConnected ==
    [][Follow => \A u \in Vars : z'[lasso.loop.in[u]] = z[lasso.loop.out[u]]]_geometricVars

\* A start from which the stem leads to x1: x0, except where the stem keeps a
\* variable and x0 was never tied to x1.
StartOf(l, c) == [u \in Vars |-> IF l.stem.in[u] = l.stem.out[u] THEN c.x1[u] ELSE c.x0[u]]

\* The state the claimed run starts its loop in can be reached through the stem.
HondaIsReachable ==
    gresult = "NON_TERMINATING" =>
        LET v == Valuation(lasso.stem, StartOf(lasso, claim), claim.x1, claim.aux)
        IN  /\ Reads(lasso.stem, v, StartOf(lasso, claim), claim.x1)
            /\ \E p \in 1..Len(lasso.stem.polys) : Satisfies(lasso.stem.polys[p], v)
=============================================================================
