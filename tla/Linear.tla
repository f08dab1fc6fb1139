------------------------------- MODULE Linear -------------------------------
(***************************************************************************)
(* The linear inequalities PaSTTeL computes with: linear_inequality.cpp    *)
(* and affine_term.cpp.  An inequality is                                  *)
(*     coef[1]*v[1] + ... + coef[NumNames]*v[NumNames] + const  >= 0       *)
(* (> 0 when it is strict) over the SSA names of a lasso, numbered from 1. *)
(* The source keeps a map from the names to affine terms over the template *)
(* parameters and drops the zero entries; the model takes the value the    *)
(* parameters have in the solver's answer, so that a term is an integer,   *)
(* an absent name is a zero, and param remembers whether the term held a   *)
(* parameter (then the transformation may not multiply it by an unknown).  *)
(***************************************************************************)
EXTENDS Integers, Sequences

CONSTANTS NumVars,    \* the program variables of the lasso are 1..NumVars
          NumNames    \* its SSA names are 1..NumNames

ASSUME SizesAssumption == NumVars \in Nat /\ NumNames \in Nat

Vars == 1..NumVars
Names == 1..NumNames

MotzkinCoefficient == {"ONE", "ZERO_AND_ONE", "ANYTHING"}

Inequality == [coef : [Names -> Int], const : Int, strict : BOOLEAN,
               param : BOOLEAN, motzkin : MotzkinCoefficient]

\* An affine function of the program variables: what the parameters of one
\* AffineFunctionGenerator are worth in an answer of the solver.
Affine == [coef : [Vars -> Int], const : Int]

\* f[1] + ... + f[n]
Sum(n, f) ==
    LET S[k \in 0..n] == IF k = 0 THEN 0 ELSE S[k - 1] + f[k]
    IN  S[n]

Value(ineq, v) == Sum(NumNames, [i \in Names |-> ineq.coef[i] * v[i]]) + ineq.const

Holds(ineq, v) == IF ineq.strict THEN Value(ineq, v) > 0 ELSE Value(ineq, v) >= 0

AffineValue(f, x) == Sum(NumVars, [i \in Vars |-> f.coef[i] * x[i]]) + f.const

\* The signs flip; what the relation is (strict or not) does not.
Negate(ineq) == [ineq EXCEPT !.coef = [i \in Names |-> -ineq.coef[i]],
                             !.const = -ineq.const]

Plus(a, b) == [coef    |-> [i \in Names |-> a.coef[i] + b.coef[i]],
               const   |-> a.const + b.const,
               strict  |-> a.strict \/ b.strict,
               param   |-> a.param \/ b.param,
               motzkin |-> IF "ONE" \in {a.motzkin, b.motzkin} THEN "ONE"
                           ELSE IF "ZERO_AND_ONE" \in {a.motzkin, b.motzkin}
                                THEN "ZERO_AND_ONE" ELSE "ANYTHING"]

\* AffineFunctionGenerator::generate: f over the SSA names given to the
\* variables (different variables have different names).
Generate(f, ssa) ==
    [coef    |-> [i \in Names |->
                    Sum(NumVars, [u \in Vars |-> IF ssa[u] = i THEN f.coef[u] ELSE 0])],
     const   |-> f.const,
     strict  |-> FALSE,
     param   |-> TRUE,
     motzkin |-> "ANYTHING"]
=============================================================================
