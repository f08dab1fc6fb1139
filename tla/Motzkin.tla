------------------------------- MODULE Motzkin ------------------------------
(***************************************************************************)
(* MotzkinTransformation::addConstraintsToSolver (motzkin_transform.cpp):  *)
(* a conjunction of inequalities, the context, has no solution when some   *)
(* combination of them with multipliers >= 0 cancels every variable and    *)
(* leaves a contradiction between constants.  The source asserts the       *)
(* conditions on the multipliers to the solver; the model says for which   *)
(* multipliers they hold.  Multipliers are integers up to MaxMultiplier    *)
(* (the solver's are reals: a rational solution becomes an integer one     *)
(* when the whole combination is scaled).                                  *)
(***************************************************************************)
EXTENDS Linear

CONSTANT MaxMultiplier

ASSUME MultiplierAssumption == MaxMultiplier \in Nat \ {0}

\* registerMotzkinCoefficients and the enumeration of the fixed indices: ONE is
\* the literal 1, an inequality that holds a parameter is tried with 0 and 1,
\* and so is one tagged ZERO_AND_ONE; any other has an unknown of its own.
Multipliers(ineq) ==
    IF ineq.motzkin = "ONE" THEN {1}
    ELSE IF ineq.param \/ ineq.motzkin = "ZERO_AND_ONE" THEN {0, 1}
    ELSE 0..MaxMultiplier

Weighted(ctx, lam, w) ==
    Sum(Len(ctx), [j \in 1..Len(ctx) |-> lam[j] * w[j]])

\* The combination has no term left in any of the names listed in vars.
EqualityConstraints(ctx, lam, vars) ==
    \A i \in vars : Weighted(ctx, lam, [j \in 1..Len(ctx) |-> ctx[j].coef[i]]) = 0

ConstantConstraint(ctx, lam) ==
    Weighted(ctx, lam, [j \in 1..Len(ctx) |-> ctx[j].const]) <= 0

\* Either the constants of the non-strict inequalities contradict one another,
\* or a strict inequality takes part.
StrictConstraint(ctx, lam) ==
    \/ Weighted(ctx, lam, [j \in 1..Len(ctx) |->
                             IF ctx[j].strict THEN 0 ELSE ctx[j].const]) < 0
    \/ Weighted(ctx, lam, [j \in 1..Len(ctx) |->
                             IF ctx[j].strict THEN 1 ELSE 0]) > 0

Certifies(ctx, lam, vars) ==
    /\ \A j \in 1..Len(ctx) : lam[j] \in Multipliers(ctx[j])
    /\ EqualityConstraints(ctx, lam, vars)
    /\ ConstantConstraint(ctx, lam)
    /\ StrictConstraint(ctx, lam)

\* The solver can satisfy what the transformation asserts for this context.  A
\* context without inequality asserts nothing.
Refuted(ctx, vars) ==
    \/ ctx = <<>>
    \/ \E lam \in [1..Len(ctx) -> 0..MaxMultiplier] : Certifies(ctx, lam, vars)
=============================================================================
