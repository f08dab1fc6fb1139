----------------------------- MODULE MCArguments -----------------------------
(* Lassos over two program variables, x (SSA names 1 and 2) and y (3, and 4 *)
(* where the loop writes it).                                               *)
EXTENDS Arguments

Geq(c, b) == [coef |-> c, const |-> b, strict |-> FALSE, param |-> FALSE, motzkin |-> "ANYTHING"]
Eq(c, b) == <<Geq(c, b), Geq([i \in Names |-> -c[i]], -b)>>

LassoOf(stem, loop, yOut) ==
    [stem |-> [polys |-> <<stem>>, in |-> <<1, 3>>, out |-> <<1, 3>>],
     loop |-> [polys |-> loop, in |-> <<1, 3>>, out |-> <<2, yOut>>],
     aux |-> {}]

\* x >= 0, x >= y; x := x - y, x := x - 1, x := x + y; nothing or y >= 1.
Guards == {Geq(<<1, 0, 0, 0>>, 0), Geq(<<1, 0, -1, 0>>, 0)}
Updates == {Eq(<<1, -1, -1, 0>>, 0), Eq(<<1, -1, 0, 0>>, -1), Eq(<<1, -1, 1, 0>>, 0)}
Stems == {<<>>, <<Geq(<<0, 0, 1, 0>>, -1)>>}

OneBranch == {LassoOf(s, <<<<g>> \o u>>, 3) : s \in Stems, g \in Guards, u \in Updates}

\* x >= 1 then x := x - 1, or x <= -1 then x := x + 1: terminates, without a
\* ranking function of these forms and with rays that fit only one branch each.
TwoBranches ==
    {LassoOf(<<>>, <<<<Geq(<<1, 0, 0, 0>>, -1)>> \o Eq(<<1, -1, 0, 0>>, -1),
                     <<Geq(<<-1, 0, 0, 0>>, -1)>> \o Eq(<<1, -1, 0, 0>>, 1)>>, 3)}

\* A loop without an inequality, and one in which x falls by two and y grows by x.
Others == {LassoOf(<<>>, << <<>> >>, 3),
           LassoOf(<<>>, <<<<Geq(<<0, 0, 1, 0>>, -1)>> \o Eq(<<1, -1, 0, 0>>, -2)
                            \o Eq(<<1, 0, 1, -1>>, 0)>>, 4)}

mcLassos == OneBranch \cup TwoBranches \cup Others

\* y starts at 1; the loop subtracts y from x, or takes 1 from x and turns y to -1.
mcTwoBranches ==
    {LassoOf(<<Geq(<<0, 0, 1, 0>>, -1)>>,
             <<<<Geq(<<1, 0, 0, 0>>, 0)>> \o Eq(<<1, -1, -1, 0>>, 0) \o Eq(<<0, 0, 1, -1>>, 0),
               <<Geq(<<1, 0, 0, 0>>, 0)>> \o Eq(<<1, -1, 0, 0>>, -1) \o Eq(<<0, 0, 0, 1>>, 1)>>, 4)}

\* One variable (NumVars = 1): x := x + 1; assume x >= 1; x := x - 1.  Name 3 is the
\* value of x between the two assignments.
mcHidden ==
    {[stem |-> [polys |-> << <<>> >>, in |-> <<1>>, out |-> <<1>>],
      loop |-> [polys |-> <<Eq(<<1, 0, -1, 0>>, 1) \o <<Geq(<<0, 0, 1, 0>>, -1)>>
                            \o Eq(<<0, 1, -1, 0>>, 1)>>,
                in |-> <<1>>, out |-> <<2>>],
      aux |-> {}]}

mcFunctions == [coef : [Vars -> -1..1], const : 0..1]
mcSupports == [coef : {[u \in Vars |-> IF u = NumVars THEN b ELSE 0] : b \in 0..1}, const : -1..0]

Technique(t, n, m, cs) == [template |-> t, components |-> n, max |-> m, configs |-> cs]
OneSI == <<[strict |-> 0, nonstrict |-> 1]>>
mcAffine == {Technique("AffineTemplate", 0, 0, OneSI)}
mcTechniques ==
    {Technique("AffineTemplate", 0, 0, OneSI),
     Technique("AffineTemplate", 0, 0, <<[strict |-> 0, nonstrict |-> 0], [strict |-> 1, nonstrict |-> 0]>>),
     Technique("AffineTemplate", 0, 0, <<>>),
     Technique("NestedTemplate", 2, 2, <<[strict |-> 0, nonstrict |-> 0]>>),
     Technique("NestedTemplate", 0, 5, OneSI),
     Technique("LexicographicTemplate", 2, 3, OneSI)}

Setting(n, b, nil, lin) == [gevs |-> n, bounded |-> b, nilpotent |-> nil, linear |-> lin]
mcSettings == {Setting(2, TRUE, TRUE, TRUE), Setting(1, FALSE, TRUE, FALSE)}
mcOneSetting == {Setting(1, TRUE, TRUE, TRUE)}

mcDomain == -2..2
mcClaimValues == -1..1
=============================================================================
