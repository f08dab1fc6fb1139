-------------------------- MODULE LassoBuilderProofs --------------------------
(***************************************************************************)
(* From the lines of a trace to the lasso, for any number of variables,    *)
(* lines, disjuncts and names: the types, and, for traces in which a value *)
(* has one name but for what MaxRenamed allows, that a name means one      *)
(* value in everything the techniques are given.                           *)
(***************************************************************************)
EXTENDS LassoCalls, TLAPS, WellFoundedInduction

----------------------------------------------------------------------------
(* Types.                                                                  *)

Tags == {"ssa", "loop_fresh", "fresh_stem_in", "fresh_stem_out", "fresh_loop_in", "fresh_loop_out"}

NamesOf(v) == [var : {v}, n : 0 .. MaxName, tag : Tags]
AnyName == [var : Vars, n : 0 .. MaxName, tag : Tags]

NameMap(map) == DOMAIN map \subseteq Vars /\ \A v \in DOMAIN map : map[v] \in NamesOf(v)

Occurrences == {o \in [name : AnyName, cell : Vars \X Nat] : o.name.var = o.cell[1]}
Atoms == [line : Parts \X Nat, disjunct : Nat, occ : SUBSET Occurrences]

IsTransition(t) ==
    /\ t = [in |-> t.in, out |-> t.out, polyhedra |-> t.polyhedra, raw |-> t.raw]
    /\ NameMap(t.in) /\ NameMap(t.out)
    /\ t.polyhedra \in SUBSET SUBSET Atoms /\ t.raw \in SUBSET Atoms

\* A substitution renames within a variable.
IsSubstitution(s) == DOMAIN s \subseteq AnyName /\ \A name \in DOMAIN s : s[name] \in NamesOf(name.var)

LEMMA NamesOfVar ==
    ASSUME NEW v \in Vars, NEW name
    PROVE  name \in NamesOf(v) <=> name \in AnyName /\ name.var = v
BY DEF NamesOf, AnyName

LEMMA SsaType ==
    ASSUME NEW v \in Vars, NEW n \in 0 .. MaxName
    PROVE  Ssa(v, n) \in NamesOf(v) /\ Ssa(v, n) \in AnyName
BY DEF Ssa, NamesOf, AnyName, Tags

LEMMA FreshType ==
    ASSUME NEW v \in Vars, NEW t \in Tags
    PROVE  FreshName(v, t) \in NamesOf(v) /\ FreshName(v, t) \in AnyName
BY BoundsAssumption DEF FreshName, NamesOf, AnyName

LEMMA SubNameType ==
    ASSUME NEW s, IsSubstitution(s), NEW v \in Vars, NEW name \in NamesOf(v)
    PROVE  SubName(s, name) \in NamesOf(v)
<1>1. name.var = v
  BY NamesOfVar
<1> QED BY <1>1 DEF SubName, IsSubstitution

LEMMA SubMapType ==
    ASSUME NEW s, IsSubstitution(s), NEW map, NameMap(map)
    PROVE  NameMap(SubMap(s, map)) /\ DOMAIN SubMap(s, map) = DOMAIN map
<1>1. DOMAIN SubMap(s, map) = DOMAIN map
  BY DEF SubMap
<1>2. ASSUME NEW v \in DOMAIN map PROVE SubMap(s, map)[v] \in NamesOf(v)
  BY SubNameType DEF NameMap, SubMap
<1> QED BY <1>1, <1>2 DEF NameMap

\* An occurrence of a name and the same one under another name of its variable.
LEMMA Renamed ==
    ASSUME NEW o \in Occurrences, NEW name \in NamesOf(o.cell[1])
    PROVE  LET r == [o EXCEPT !.name = name]
           IN  r \in Occurrences /\ r.name = name /\ r.cell = o.cell
<1>1. o \in [name : AnyName, cell : Vars \X Nat] /\ o.cell[1] \in Vars
  BY DEF Occurrences
<1>2. name \in AnyName /\ name.var = o.cell[1]
  BY <1>1, NamesOfVar
<1> QED BY <1>1, <1>2 DEF Occurrences

LEMMA OccurrenceName ==
    ASSUME NEW o \in Occurrences
    PROVE  o.cell[1] \in Vars /\ o.cell[2] \in Nat /\ o.name \in NamesOf(o.cell[1])
<1>1. o.name \in AnyName /\ o.cell \in Vars \X Nat /\ o.name.var = o.cell[1]
  BY DEF Occurrences
<1> QED BY <1>1, NamesOfVar

LEMMA SubAtomType ==
    ASSUME NEW s, IsSubstitution(s), NEW a \in Atoms
    PROVE  LET b == SubAtom(s, a)
           IN  /\ b \in Atoms /\ b.line = a.line /\ b.disjunct = a.disjunct
               /\ b.occ = {[o EXCEPT !.name = SubName(s, o.name)] : o \in a.occ}
<1> DEFINE occ == {[o EXCEPT !.name = SubName(s, o.name)] : o \in a.occ}
<1>1. a \in [line : Parts \X Nat, disjunct : Nat, occ : SUBSET Occurrences]
  BY DEF Atoms
<1>2. occ = {[o EXCEPT !.name = SubName(s, @)] : o \in a.occ}
  OBVIOUS
<1>3. occ \in SUBSET Occurrences
  <2> SUFFICES ASSUME NEW o \in a.occ PROVE [o EXCEPT !.name = SubName(s, o.name)] \in Occurrences
    OBVIOUS
  <2>1. o \in Occurrences
    BY <1>1
  <2>2. SubName(s, o.name) \in NamesOf(o.cell[1])
    BY <2>1, OccurrenceName, SubNameType
  <2> QED BY <2>1, <2>2, Renamed
<1>4. SubAtom(s, a) = [a EXCEPT !.occ = occ]
  BY <1>2 DEF SubAtom
<1> HIDE DEF occ
<1> QED BY <1>1, <1>3, <1>4 DEF Atoms, occ

LEMMA SubSetsType ==
    ASSUME NEW s, IsSubstitution(s), NEW ps \in SUBSET SUBSET Atoms, NEW as \in SUBSET Atoms
    PROVE  SubPolyhedra(s, ps) \in SUBSET SUBSET Atoms /\ SubRaw(s, as) \in SUBSET Atoms
<1>1. \A a \in Atoms : SubAtom(s, a) \in Atoms
  BY SubAtomType
<1>2. ASSUME NEW q \in SubPolyhedra(s, ps), NEW b \in q PROVE b \in Atoms
  <2>1. PICK p \in ps : q = {SubAtom(s, a) : a \in p}
    BY DEF SubPolyhedra
  <2>2. PICK a \in p : b = SubAtom(s, a)
    BY <2>1
  <2> QED BY <1>1, <2>2
<1>3. ASSUME NEW b \in SubRaw(s, as) PROVE b \in Atoms
  <2>1. PICK a \in as : b = SubAtom(s, a)
    BY DEF SubRaw
  <2> QED BY <1>1, <2>1
<1> QED BY <1>2, <1>3

----------------------------------------------------------------------------
(* Substitution in a formula: the entries one after the other.             *)

LEMMA LeastNumber ==
    ASSUME NEW T \in SUBSET Nat, T # {}
    PROVE  \E k \in T : \A l \in T : k <= l
<1>1. IsWellFoundedOn(OpToRel(<, Nat), Nat)
  BY NatLessThanWellFounded
<1>2. PICK k \in T : \A l \in T : ~(<<l, k>> \in OpToRel(<, Nat))
  BY <1>1, WFMin
<1>3. \A l \in T : ~(l < k) /\ l \in Nat /\ k \in Nat
  BY <1>2 DEF OpToRel
<1> QED BY <1>3

\* Induction up to n, for a set.
LEMMA UpToBound ==
    ASSUME NEW n \in Nat, NEW S, 0 \in S, \A k \in 1..n : k - 1 \in S => k \in S
    PROVE  \A k \in 0..n : k \in S
<1> DEFINE T == {k \in 0..n : k \notin S}
<1>1. SUFFICES ASSUME T # {} PROVE FALSE
  OBVIOUS
<1>2. PICK k \in T : \A l \in T : k <= l
  <2>1. T \in SUBSET Nat
    OBVIOUS
  <2> HIDE DEF T
  <2> QED BY <1>1, <2>1, LeastNumber
<1>3. k \in 1..n /\ k - 1 \in 0..n /\ k - 1 \notin T
  BY <1>2
<1> QED BY <1>3

\* The name after the entries up to index k.
Entry(s, cur, k) == IF cur.tag = "ssa" /\ cur.n = k THEN SubName(s, cur) ELSE cur

IsChain(f, s, name, n) ==
    f = [k \in 0..n |-> Entry(s, IF k = 0 THEN name ELSE f[k - 1], k)]

LEMMA ChainExists ==
    ASSUME NEW n \in Nat, NEW s, NEW name
    PROVE  \E f : IsChain(f, s, name, n)
<1> DEFINE S == {k \in 0..n : \E f : IsChain(f, s, name, k)}
<1>1. 0 \in S
  <2> DEFINE f == [k \in 0..0 |-> Entry(s, name, k)]
  <2>1. IsChain(f, s, name, 0)
    BY DEF IsChain
  <2> QED BY <2>1
<1>2. ASSUME NEW k \in 1..n, k - 1 \in S PROVE k \in S
  <2>1. PICK f : IsChain(f, s, name, k - 1)
    BY <1>2
  <2> DEFINE g == [j \in 0..k |-> IF j = k THEN Entry(s, f[k - 1], k) ELSE f[j]]
  <2>2. \A j \in 0..(k - 1) : f[j] = Entry(s, IF j = 0 THEN name ELSE f[j - 1], j)
    BY <2>1 DEF IsChain
  <2>3. \A j \in 0..k : g[j] = Entry(s, IF j = 0 THEN name ELSE g[j - 1], j)
    BY <2>2
  <2>4. g = [j \in 0..k |-> Entry(s, IF j = 0 THEN name ELSE g[j - 1], j)]
    BY <2>3
  <2>5. IsChain(g, s, name, k)
    BY <2>4 DEF IsChain
  <2> QED BY <2>5
<1>3. n \in S
  <2> HIDE DEF S
  <2> QED BY <1>1, <1>2, UpToBound
<1> QED BY <1>3

LEMMA SubInOrderIsChain ==
    ASSUME NEW s, NEW name
    PROVE  \E f : IsChain(f, s, name, MaxName) /\ SubInOrder(s, name) = f[MaxName]
<1> DEFINE g == CHOOSE f : IsChain(f, s, name, MaxName)
<1>1. IsChain(g, s, name, MaxName)
  BY ChainExists, BoundsAssumption
<1>2. SubInOrder(s, name) = g[MaxName]
  BY DEF SubInOrder, IsChain, Entry
<1> QED BY <1>1, <1>2

LEMMA SubInOrderType ==
    ASSUME NEW s, IsSubstitution(s), NEW v \in Vars, NEW name \in NamesOf(v)
    PROVE  SubInOrder(s, name) \in NamesOf(v)
<1>1. PICK f : IsChain(f, s, name, MaxName) /\ SubInOrder(s, name) = f[MaxName]
  BY SubInOrderIsChain
<1>2. \A k \in 0..MaxName : f[k] = Entry(s, IF k = 0 THEN name ELSE f[k - 1], k)
  BY <1>1 DEF IsChain
<1>3. \A cur \in NamesOf(v) : \A k : Entry(s, cur, k) \in NamesOf(v)
  BY SubNameType DEF Entry
<1> DEFINE S == {k \in 0..MaxName : f[k] \in NamesOf(v)}
<1>4. 0 \in S
  BY <1>2, <1>3, BoundsAssumption
<1>5. ASSUME NEW k \in 1..MaxName, k - 1 \in S PROVE k \in S
  <2>1. f[k] = Entry(s, f[k - 1], k) /\ k \in 0..MaxName
    BY <1>2, BoundsAssumption
  <2> QED BY <1>3, <1>5, <2>1
<1>6. MaxName \in S
  <2> HIDE DEF S
  <2> QED BY <1>4, <1>5, UpToBound, BoundsAssumption
<1> QED BY <1>1, <1>6

\* When no entry gives a name that another entry replaces, the order does not count.
LEMMA SubInOrderIsSubName ==
    ASSUME NEW s, \A k \in DOMAIN s : k.tag = "ssa" /\ k.n \in 0..MaxName /\ s[k] \notin DOMAIN s,
           NEW name
    PROVE  SubInOrder(s, name) = SubName(s, name)
<1>1. PICK f : IsChain(f, s, name, MaxName) /\ SubInOrder(s, name) = f[MaxName]
  BY SubInOrderIsChain
<1>2. \A k \in 0..MaxName : f[k] = Entry(s, IF k = 0 THEN name ELSE f[k - 1], k)
  BY <1>1 DEF IsChain
<1>3. SubName(s, SubName(s, name)) = SubName(s, name)
  BY DEF SubName
<1> DEFINE S == {k \in 0..MaxName :
                   f[k] = IF name \in DOMAIN s /\ name.n <= k THEN SubName(s, name) ELSE name}
<1>4. 0 \in S
  <2>1. f[0] = Entry(s, name, 0) /\ 0 \in 0..MaxName
    BY <1>2, BoundsAssumption
  <2> QED BY <2>1 DEF Entry, SubName
<1>5. ASSUME NEW k \in 1..MaxName, k - 1 \in S PROVE k \in S
  <2>1. f[k] = Entry(s, f[k - 1], k) /\ k \in 0..MaxName /\ k \in Int
    BY <1>2, BoundsAssumption
  <2>2. CASE name \in DOMAIN s /\ name.n <= k - 1
    <3>1. f[k - 1] = SubName(s, name) /\ name.n <= k
      BY <1>5, <2>1, <2>2
    <3>2. f[k] = SubName(s, name)
      BY <1>3, <2>1, <3>1 DEF Entry
    <3> QED BY <2>1, <2>2, <3>1, <3>2
  <2>3. CASE name \in DOMAIN s /\ ~(name.n <= k - 1)
    <3>1. f[k - 1] = name
      BY <1>5, <2>3
    <3>2. name.tag = "ssa" /\ name.n \in Int /\ (name.n <= k <=> name.n = k)
      BY <2>1, <2>3
    <3>3. f[k] = IF name.n = k THEN SubName(s, name) ELSE name
      BY <2>1, <3>1, <3>2 DEF Entry
    <3> QED BY <2>1, <2>3, <3>2, <3>3
  <2>4. CASE name \notin DOMAIN s
    <3>1. f[k - 1] = name
      BY <1>5, <2>4
    <3>2. f[k] = name
      BY <2>1, <2>4, <3>1 DEF Entry, SubName
    <3> QED BY <2>1, <2>4, <3>2
  <2> QED BY <2>2, <2>3, <2>4
<1>6. MaxName \in S
  <2> HIDE DEF S
  <2> QED BY <1>4, <1>5, UpToBound, BoundsAssumption
<1>7. CASE name \in DOMAIN s
  <2>1. name.n <= MaxName
    BY <1>7, BoundsAssumption
  <2> QED BY <1>1, <1>6, <1>7, <2>1
<1>8. CASE name \notin DOMAIN s
  BY <1>1, <1>6, <1>8 DEF SubName
<1> QED BY <1>7, <1>8

----------------------------------------------------------------------------
(* Substitutions made from two maps.                                       *)

\* The name m1 has for a variable of S becomes the one m2 has for it.
Pairing(m1, m2, S) == [name \in {m1[v] : v \in S} |-> m2[CHOOSE v \in S : m1[v] = name]]

LEMMA PairingIs ==
    ASSUME NEW m1, NameMap(m1), NEW m2, NameMap(m2), NEW S, S \subseteq DOMAIN m1 \cap DOMAIN m2
    PROVE  LET P == Pairing(m1, m2, S)
           IN  /\ IsSubstitution(P)
               /\ \A name \in DOMAIN P : name.var \in S /\ m1[name.var] = name /\ P[name] = m2[name.var]
               /\ \A v \in S : m1[v] \in DOMAIN P /\ P[m1[v]] = m2[v]
<1> DEFINE P == Pairing(m1, m2, S)
<1>1. \A v \in S : v \in Vars /\ m1[v] \in AnyName /\ m1[v].var = v /\ m2[v] \in NamesOf(v)
  BY NamesOfVar DEF NameMap
<1>2. DOMAIN P = {m1[v] : v \in S}
  BY DEF Pairing
<1>3. ASSUME NEW v \in S PROVE P[m1[v]] = m2[v]
  <2> DEFINE u == CHOOSE u \in S : m1[u] = m1[v]
  <2>1. u \in S /\ m1[u] = m1[v]
    OBVIOUS
  <2>2. u = v
    BY <1>1, <2>1
  <2> QED BY <2>2 DEF Pairing
<1> HIDE DEF P
<1>4. ASSUME NEW name \in DOMAIN P
      PROVE  name.var \in S /\ m1[name.var] = name /\ P[name] = m2[name.var]
  <2>1. PICK v \in S : name = m1[v]
    BY <1>2
  <2> QED BY <1>1, <1>3, <2>1
<1>5. IsSubstitution(P)
  BY <1>1, <1>2, <1>4 DEF IsSubstitution
<1> QED BY <1>2, <1>3, <1>4, <1>5 DEF P

LEMMA ExtendType ==
    ASSUME NEW s, IsSubstitution(s), NEW before, NameMap(before), NEW in, NameMap(in)
    PROVE  LET e == ExtendRawSubst(s, before, in)
               P == Pairing(in, before, {v \in DOMAIN in \cap DOMAIN before : before[v] # in[v]})
           IN  /\ IsSubstitution(e)
               /\ DOMAIN e = DOMAIN s \cup DOMAIN P
               /\ \A name \in DOMAIN e : e[name] = IF name \in DOMAIN P THEN P[name] ELSE s[name]
<1> DEFINE e == ExtendRawSubst(s, before, in)
           S == {v \in DOMAIN in \cap DOMAIN before : before[v] # in[v]}
           P == Pairing(in, before, S)
<1>1. DOMAIN P = {in[v] : v \in S}
  BY DEF Pairing
<1>2. DOMAIN e = DOMAIN s \cup DOMAIN P
  BY <1>1 DEF ExtendRawSubst
<1>3. \A name \in DOMAIN e : e[name] = IF name \in DOMAIN P THEN P[name] ELSE s[name]
  BY <1>1 DEF ExtendRawSubst, Pairing
<1>4. IsSubstitution(P)
  BY PairingIs
<1> HIDE DEF e, P
<1>5. IsSubstitution(e)
  BY <1>2, <1>3, <1>4 DEF IsSubstitution
<1> QED BY <1>2, <1>3, <1>5 DEF e, P

LEMMA ComposeType ==
    ASSUME NEW t, IsTransition(t), NEW o, IsTransition(o)
    PROVE  IsTransition(compose(t, o))
<1> DEFINE P == Pairing(o.in, t.out, DOMAIN t.out \cap DOMAIN o.in)
           ps == {p \cup q : p \in t.polyhedra, q \in SubPolyhedra(P, o.polyhedra)}
           c == [in |-> t.in, out |-> SubMap(P, o.out), polyhedra |-> ps, raw |-> t.raw]
<1>1. compose(t, o) = IF isTrue(t) THEN o ELSE IF isTrue(o) THEN t ELSE c
  BY DEF compose, Pairing
<1>2. NameMap(t.in) /\ NameMap(t.out) /\ NameMap(o.in) /\ NameMap(o.out)
      /\ t.polyhedra \in SUBSET SUBSET Atoms /\ o.polyhedra \in SUBSET SUBSET Atoms /\ t.raw \in SUBSET Atoms
      /\ o.raw \in SUBSET Atoms
  BY DEF IsTransition
<1>3. IsSubstitution(P)
  BY <1>2, PairingIs
<1> HIDE DEF P
<1>4. NameMap(SubMap(P, o.out))
  BY <1>2, <1>3, SubMapType
<1>5. SubPolyhedra(P, o.polyhedra) \in SUBSET SUBSET Atoms
  BY <1>2, <1>3, SubSetsType
<1>6. ps \in SUBSET SUBSET Atoms
  BY <1>2, <1>5
<1>7. IsTransition(c)
  <2> HIDE DEF ps
  <2> QED BY <1>2, <1>4, <1>6 DEF IsTransition
<1> HIDE DEF c
<1> QED BY <1>1, <1>7

\* c is made of t and of o under the names that P gives.
IsComposition(c, t, o, P) ==
    /\ c.in = t.in /\ c.out = SubMap(P, o.out)
    /\ \A r : r \in c.polyhedra <=> \E p \in t.polyhedra, q \in SubPolyhedra(P, o.polyhedra) : r = p \cup q

LEMMA ComposeIs ==
    ASSUME NEW t, NEW o, ~isTrue(t), ~isTrue(o)
    PROVE  IsComposition(compose(t, o), t, o, Pairing(o.in, t.out, DOMAIN t.out \cap DOMAIN o.in))
BY DEF compose, Pairing, IsComposition

----------------------------------------------------------------------------
(* The lines of a trace.                                                   *)

SomeNaming == [Vars -> (0 .. MaxName) \X (0 .. MaxName)]

\* What is read from the trace: the naming, the names mentioned, the disjuncts.
LEMMA LineRead ==
    ASSUME NEW part, NEW text \in NextLines(part), reading \in Readings
    PROVE  \E f \in SomeNaming, d \in Nat \ {0} : \E mention :
             /\ \A v \in Vars : f[v] \in Namings(part, v)
             /\ text = Line(part, f, mention, d)
<1>4. PICK f \in SomeNaming : (\A v \in Vars : f[v] \in Namings(part, v)) /\ text \in LinesNamed(part, f)
  BY DEF NextLines, SomeNaming
<1> DEFINE Names(g) == {Ssa(v, k) : v \in Vars, k \in 1 .. MaxName}
                          \cap UNION {{Ssa(v, g[v][1]), Ssa(v, g[v][2])} : v \in Vars}
           Some(g) == {Line(part, g, mention, 1) : mention \in SUBSET Names(g)}
           D == IF Linearize THEN 1 .. reading.disjuncts ELSE {1}
           All(g) == {Line(part, g, Names(g), d) : d \in D}
<1>5. LinesNamed(part, f) = Some(f) \cup All(f)
  BY DEF LinesNamed
<1> HIDE DEF Some, All
<1>1. text \in Some(f) \cup All(f)
  BY <1>4, <1>5
<1> USE DEF Some, All
<1> HIDE DEF Names
<1>2. CASE text \in Some(f)
  <2>1. PICK mention \in SUBSET Names(f) : text = Line(part, f, mention, 1)
    BY <1>2
  <2>2. 1 \in Nat \ {0}
    OBVIOUS
  <2> WITNESS f \in SomeNaming, 1 \in Nat \ {0}
  <2> WITNESS mention
  <2> QED BY <1>4, <2>1
<1>3. CASE text \in All(f)
  <2>1. PICK d \in D : text = Line(part, f, Names(f), d)
    <3> HIDE DEF D
    <3> QED BY <1>3
  <2>2. d \in Nat \ {0}
    <3>1. reading.disjuncts \in Nat
      <4>1. {reading.stem, reading.loop, reading.disjuncts} \subseteq Nat
        BY ReadingsAssumption
      <4> QED BY <4>1
    <3>2. d \in 1 .. reading.disjuncts \/ d = 1
      BY <2>1
    <3> QED BY <3>1, <3>2
  <2> USE <2>2
  <2> WITNESS f \in SomeNaming, d \in Nat \ {0}
  <2> WITNESS Names(f)
  <2> QED BY <1>4, <2>1
<1> QED BY <1>1, <1>2, <1>3

\* The occurrences a line can mention, and those it does.
OccIn(f, v) == [name |-> Ssa(v, f[v][1]), cell |-> <<v, now[v]>>]
OccOut(f, v) == [name |-> Ssa(v, f[v][2]), cell |-> <<v, now[v] + 1>>]
Mentioned(f, mention) ==
    {o \in {OccIn(f, v) : v \in {u \in Vars : f[u][1] # 0}}
            \cup {OccOut(f, v) : v \in {u \in Vars : f[u][2] # f[u][1]}} : o.name \in mention}

\* A line of the trace as it is read.
IsLine(line) ==
    /\ line = [in |-> line.in, out |-> line.out, dnf |-> line.dnf, formula |-> line.formula]
    /\ NameMap(line.in) /\ NameMap(line.out)
    /\ line.dnf \in SUBSET SUBSET Atoms /\ line.formula \in Atoms

\* A line's disjunct.
LineAtom(part, k, f, mention) == [line |-> <<part, lines>>, disjunct |-> k, occ |-> Mentioned(f, mention)]

LEMMA LineFields ==
    ASSUME NEW part, NEW f, NEW mention, NEW d
    PROVE  /\ Line(part, f, mention, d).formula = LineAtom(part, 0, f, mention)
           /\ Line(part, f, mention, d).formula.occ = Mentioned(f, mention)
           /\ \A p : p \in Line(part, f, mention, d).dnf <=> \E k \in 1..d : p = {LineAtom(part, k, f, mention)}
BY DEF Line, LineAtom, Mentioned, OccIn, OccOut

LEMMA LineType ==
    ASSUME NEW part \in Parts, NEW f \in SomeNaming, NEW mention, NEW d \in Nat \ {0},
           lines \in Nat, now \in [Vars -> Nat]
    PROVE  LET text == Line(part, f, mention, d)
           IN  /\ IsLine(text)
               /\ \A v \in Vars :
                    /\ v \in DOMAIN text.in <=> f[v][1] # 0
                    /\ v \in DOMAIN text.in => text.in[v] = Ssa(v, f[v][1])
                    /\ v \in DOMAIN text.out <=> f[v][2] # 0
                    /\ v \in DOMAIN text.out => text.out[v] = Ssa(v, f[v][2])
<1> DEFINE text == Line(part, f, mention, d)
           atom(k) == [line |-> <<part, lines>>, disjunct |-> k, occ |-> Mentioned(f, mention)]
<1>1. /\ text.in = [v \in {u \in Vars : f[u][1] # 0} |-> Ssa(v, f[v][1])]
      /\ text.out = [v \in {u \in Vars : f[u][2] # 0} |-> Ssa(v, f[v][2])]
      /\ text.dnf = {{atom(k)} : k \in 1..d} /\ text.formula = atom(0)
      /\ text = [in |-> text.in, out |-> text.out, dnf |-> text.dnf, formula |-> text.formula]
  BY DEF Line, Mentioned, OccIn, OccOut
<1>2. \A v \in Vars : f[v][1] \in 0..MaxName /\ f[v][2] \in 0..MaxName
  BY DEF SomeNaming
<1>3. NameMap(text.in) /\ NameMap(text.out)
  <2>1. \A v \in Vars : Ssa(v, f[v][1]) \in NamesOf(v) /\ Ssa(v, f[v][2]) \in NamesOf(v)
    BY <1>2, SsaType
  <2>2. /\ DOMAIN text.in = {u \in Vars : f[u][1] # 0}
        /\ \A v \in DOMAIN text.in : text.in[v] = Ssa(v, f[v][1])
    BY DEF Line
  <2>3. /\ DOMAIN text.out = {u \in Vars : f[u][2] # 0}
        /\ \A v \in DOMAIN text.out : text.out[v] = Ssa(v, f[v][2])
    BY DEF Line
  <2> HIDE DEF text
  <2>4. NameMap(text.in)
    BY <2>1, <2>2 DEF NameMap
  <2>5. NameMap(text.out)
    BY <2>1, <2>3 DEF NameMap
  <2> QED BY <2>4, <2>5
<1>4. Mentioned(f, mention) \subseteq Occurrences
  <2> SUFFICES ASSUME NEW o \in Mentioned(f, mention) PROVE o \in Occurrences
    OBVIOUS
  <2>1. PICK v \in Vars : o = OccIn(f, v) \/ o = OccOut(f, v)
    BY DEF Mentioned
  <2>2. now[v] \in Nat /\ now[v] + 1 \in Nat
    OBVIOUS
  <2>3. PICK n \in 0..MaxName, c \in Nat : o = [name |-> Ssa(v, n), cell |-> <<v, c>>]
    BY <1>2, <2>1, <2>2 DEF OccIn, OccOut
  <2>4. Ssa(v, n) \in AnyName /\ Ssa(v, n).var = v
    BY SsaType DEF Ssa
  <2> QED BY <2>3, <2>4 DEF Occurrences
<1>5. \A k \in Nat : atom(k) \in Atoms
  BY <1>4 DEF Atoms
<1> HIDE DEF atom, text
<1>6. text.dnf \in SUBSET SUBSET Atoms /\ text.formula \in Atoms
  BY <1>1, <1>5
<1>7. IsLine(text)
  BY <1>1, <1>3, <1>6 DEF IsLine
<1>9. \A v \in Vars :
        /\ v \in DOMAIN text.in <=> f[v][1] # 0
        /\ v \in DOMAIN text.in => text.in[v] = Ssa(v, f[v][1])
        /\ v \in DOMAIN text.out <=> f[v][2] # 0
        /\ v \in DOMAIN text.out => text.out[v] = Ssa(v, f[v][2])
  BY <1>1
<1> QED BY <1>7, <1>9 DEF text

\* A formula and what the code's substitution makes of it.
LEMMA FormulaType ==
    ASSUME NEW s, IsSubstitution(s), NEW a \in Atoms
    PROVE  LET b == substituteInFormula(s, a)
           IN  /\ b \in Atoms /\ b.line = a.line /\ b.disjunct = a.disjunct
               /\ b.occ = {[o EXCEPT !.name = SubInOrder(s, o.name)] : o \in a.occ}
<1> DEFINE occ == {[o EXCEPT !.name = SubInOrder(s, o.name)] : o \in a.occ}
<1>1. a \in [line : Parts \X Nat, disjunct : Nat, occ : SUBSET Occurrences]
  BY DEF Atoms
<1>2. occ = {[o EXCEPT !.name = SubInOrder(s, @)] : o \in a.occ}
  OBVIOUS
<1>3. occ \in SUBSET Occurrences
  <2> SUFFICES ASSUME NEW o \in a.occ PROVE [o EXCEPT !.name = SubInOrder(s, o.name)] \in Occurrences
    OBVIOUS
  <2>1. o \in Occurrences
    BY <1>1
  <2>2. SubInOrder(s, o.name) \in NamesOf(o.cell[1])
    BY <2>1, OccurrenceName, SubInOrderType
  <2> QED BY <2>1, <2>2, Renamed
<1>4. substituteInFormula(s, a) = [a EXCEPT !.occ = occ]
  BY <1>2 DEF substituteInFormula
<1> HIDE DEF occ
<1> QED BY <1>1, <1>3, <1>4 DEF Atoms, occ

LEMMA ParseIs ==
    ASSUME NEW text, IsLine(text), NEW fails
    PROVE  LET line == parseTransition(text, fails)
           IN  /\ IsLine(line)
               /\ line.in = text.in /\ line.out = text.out /\ line.formula = text.formula
               /\ line.dnf = IF Linearize /\ ~fails THEN text.dnf ELSE {}
<1>1. CASE Linearize /\ ~fails
  BY <1>1 DEF parseTransition
<1>2. CASE ~(Linearize /\ ~fails)
  <2>1. parseTransition(text, fails)
          = [in |-> text.in, out |-> text.out, dnf |-> {}, formula |-> text.formula]
    BY <1>2 DEF parseTransition, IsLine
  <2> HIDE <1>2
  <2>2. {} \in SUBSET SUBSET Atoms
    OBVIOUS
  <2> QED BY <1>2, <2>1, <2>2 DEF IsLine
<1> QED BY <1>1, <1>2

\* The transition of a line alone.
LineAlone(line) == [in |-> line.in, out |-> line.out, raw |-> {},
                    polyhedra |-> IF line.dnf = {} THEN {{}} ELSE line.dnf]

LEMMA AddLineIs ==
    ASSUME NEW t, IsTransition(t), NEW line, IsLine(line), NEW s, IsSubstitution(s)
    PROVE  LET c == IF lines = 0 THEN LineAlone(line) ELSE compose(t, LineAlone(line))
               u == AddLine(t, line, s)
           IN  /\ IsTransition(u) /\ IsTransition(LineAlone(line))
               /\ u.in = c.in /\ u.out = c.out /\ u.polyhedra = c.polyhedra
               /\ u.raw = t.raw \cup {substituteInFormula(s, line.formula)}
<1> DEFINE c == IF lines = 0 THEN LineAlone(line) ELSE compose(t, LineAlone(line))
           raw == t.raw \cup {substituteInFormula(s, line.formula)}
<1>1. IsTransition(LineAlone(line))
  <2>1. (IF line.dnf = {} THEN {{}} ELSE line.dnf) \in SUBSET SUBSET Atoms /\ {} \in SUBSET Atoms
    BY DEF IsLine
  <2> DEFINE ps == IF line.dnf = {} THEN {{}} ELSE line.dnf
  <2>2. LineAlone(line) = [in |-> line.in, out |-> line.out, polyhedra |-> ps, raw |-> {}]
    BY DEF LineAlone
  <2> HIDE DEF ps
  <2>3. ps \in SUBSET SUBSET Atoms
    BY <2>1 DEF ps
  <2> QED BY <2>1, <2>2, <2>3 DEF IsTransition, IsLine
<1>2. IsTransition(c)
  BY <1>1, ComposeType
<1>3. substituteInFormula(s, line.formula) \in Atoms
  BY FormulaType DEF IsLine
<1>4. raw \in SUBSET Atoms
  BY <1>3 DEF IsTransition
<1>5. AddLine(t, line, s) = [c EXCEPT !.raw = raw]
  BY DEF AddLine, LineAlone
<1> HIDE DEF c, raw
<1>6. [c EXCEPT !.raw = raw] = [in |-> c.in, out |-> c.out, polyhedra |-> c.polyhedra, raw |-> raw]
  BY <1>2 DEF IsTransition
<1> QED BY <1>1, <1>2, <1>4, <1>5, <1>6 DEF IsTransition, c, raw

----------------------------------------------------------------------------
(* The steps after both transitions are built.                             *)

\* What renames the transition t: everything in it but its in_vars.
IsRenaming(u, s, t) ==
    /\ u.out = SubMap(s, t.out)
    /\ u.polyhedra = SubPolyhedra(s, t.polyhedra) /\ u.raw = SubRaw(s, t.raw)

LEMMA RenamingType ==
    ASSUME NEW t, IsTransition(t), NEW s, IsSubstitution(s), NEW u, IsRenaming(u, s, t),
           u = [in |-> u.in, out |-> u.out, polyhedra |-> u.polyhedra, raw |-> u.raw],
           NameMap(u.in)
    PROVE  IsTransition(u)
<1>1. NameMap(t.out) /\ t.polyhedra \in SUBSET SUBSET Atoms /\ t.raw \in SUBSET Atoms
  BY DEF IsTransition
<1>2. NameMap(u.out)
  BY <1>1, SubMapType DEF IsRenaming
<1>3. u.polyhedra \in SUBSET SUBSET Atoms /\ u.raw \in SUBSET Atoms
  BY <1>1, SubSetsType DEF IsRenaming
<1> QED BY <1>2, <1>3 DEF IsTransition

\* The fresh names of connectStemToLoop.
LoopFresh == [v \in Vars |-> FreshName(v, "loop_fresh")]
Colliding(t, stemOut) == {v \in DOMAIN t.out : t.out[v] \in NamesIn(stemOut)}
Collisions(t, stemOut) == Pairing(t.out, LoopFresh, Colliding(t, stemOut))

LEMMA LoopFreshType == NameMap(LoopFresh) /\ DOMAIN LoopFresh = Vars
<1>1. \A v \in Vars : FreshName(v, "loop_fresh") \in NamesOf(v)
  BY FreshType DEF Tags
<1> QED BY <1>1 DEF LoopFresh, NameMap

LEMMA CollisionsType ==
    ASSUME NEW t, IsTransition(t), NEW so, NameMap(so)
    PROVE  LET R == Collisions(t, so)
           IN  /\ IsSubstitution(R)
               /\ \A name \in DOMAIN R :
                    /\ name.var \in Colliding(t, so) /\ t.out[name.var] = name
                    /\ R[name] = FreshName(name.var, "loop_fresh")
               /\ \A v \in Colliding(t, so) :
                    t.out[v] \in DOMAIN R /\ R[t.out[v]] = FreshName(v, "loop_fresh")
<1> DEFINE R == Collisions(t, so)
           S == Colliding(t, so)
<1>1. NameMap(t.out) /\ S \subseteq DOMAIN t.out \cap DOMAIN LoopFresh
  BY LoopFreshType DEF IsTransition, NameMap, Colliding
<1>2. \A v \in S : LoopFresh[v] = FreshName(v, "loop_fresh")
  BY <1>1, LoopFreshType DEF LoopFresh
<1> HIDE DEF S
<1>3. /\ IsSubstitution(R)
      /\ \A name \in DOMAIN R : name.var \in S /\ t.out[name.var] = name /\ R[name] = LoopFresh[name.var]
      /\ \A v \in S : t.out[v] \in DOMAIN R /\ R[t.out[v]] = LoopFresh[v]
  BY <1>1, LoopFreshType, PairingIs DEF Collisions, S
<1> HIDE DEF R
<1> QED BY <1>2, <1>3 DEF R, S

LEMMA RenameCollisionsIs ==
    ASSUME NEW t, IsTransition(t), NEW so, NameMap(so)
    PROVE  LET r == RenameCollisions(t, so)
           IN  /\ IsTransition(r) /\ IsRenaming(r, Collisions(t, so), t)
               /\ DOMAIN r.in = DOMAIN t.in
               /\ \A v \in DOMAIN t.in :
                    r.in[v] = IF v \in Colliding(t, so) /\ t.in[v] = t.out[v]
                              THEN FreshName(v, "loop_fresh") ELSE t.in[v]
<1> DEFINE r == RenameCollisions(t, so)
           R == Collisions(t, so)
           S == Colliding(t, so)
           Choice(name) == CHOOSE v \in S : t.out[v] = name
           out_rename == [name \in {t.out[v] : v \in S} |-> FreshName(Choice(name), "loop_fresh")]
           in == [v \in DOMAIN t.in |-> IF v \in DOMAIN t.out /\ (v \in S /\ t.in[v] = t.out[v])
                                        THEN out_rename[t.in[v]] ELSE t.in[v]]
<1>1. r = [in |-> in, out |-> SubMap(out_rename, t.out),
           polyhedra |-> SubPolyhedra(out_rename, t.polyhedra), raw |-> SubRaw(out_rename, t.raw)]
  BY DEF RenameCollisions, Colliding
<1>2. out_rename = R
  <2>1. S \subseteq Vars
    BY DEF Colliding, IsTransition, NameMap
  <2>2. ASSUME NEW name \in {t.out[v] : v \in S}
        PROVE  FreshName(Choice(name), "loop_fresh") = LoopFresh[Choice(name)]
    <3>1. Choice(name) \in S
      OBVIOUS
    <3> HIDE DEF Choice
    <3> QED BY <2>1, <3>1 DEF LoopFresh
  <2> QED BY <2>2 DEF Collisions, Pairing
<1> HIDE DEF out_rename
<1>3. /\ IsSubstitution(R)
      /\ \A v \in S : t.out[v] \in DOMAIN R /\ R[t.out[v]] = FreshName(v, "loop_fresh")
  BY CollisionsType
<1>4. S \subseteq DOMAIN t.out
  BY DEF Colliding
<1> HIDE DEF R, S
<1>5. /\ DOMAIN in = DOMAIN t.in
      /\ \A v \in DOMAIN t.in : in[v] = IF v \in S /\ t.in[v] = t.out[v]
                                        THEN FreshName(v, "loop_fresh") ELSE t.in[v]
  BY <1>2, <1>3, <1>4
<1> HIDE DEF in
<1>6. NameMap(in)
  <2>1. NameMap(t.in)
    BY DEF IsTransition
  <2>2. \A v \in Vars : FreshName(v, "loop_fresh") \in NamesOf(v)
    BY FreshType DEF Tags
  <2> QED BY <1>5, <2>1, <2>2 DEF NameMap
<1>7. IsRenaming(r, R, t) /\ r.in = in
  BY <1>1, <1>2 DEF IsRenaming
<1>8. IsTransition(r)
  <2>1. r = [in |-> r.in, out |-> r.out, polyhedra |-> r.polyhedra, raw |-> r.raw]
    BY <1>1
  <2> HIDE DEF r
  <2> QED BY <1>3, <1>6, <1>7, <2>1, RenamingType
<1> HIDE DEF r
<1> QED BY <1>5, <1>7, <1>8 DEF r, R, S

\* The names the loop reads become those the stem ends with.
StemNames(t, stemOut) ==
    Pairing(t.in, stemOut, {v \in DOMAIN t.in \cap DOMAIN stemOut : t.in[v] # stemOut[v]})

LEMMA SubstituteInIs ==
    ASSUME NEW t, IsTransition(t), NEW so, NameMap(so)
    PROVE  LET u == SubstituteIn(t, so)
           IN  /\ IsTransition(u) /\ IsRenaming(u, StemNames(t, so), t)
               /\ u.in = SubMap(StemNames(t, so), t.in)
<1> DEFINE u == SubstituteIn(t, so)
           P == StemNames(t, so)
<1>1. u = [in |-> SubMap(P, t.in), out |-> SubMap(P, t.out),
           polyhedra |-> SubPolyhedra(P, t.polyhedra), raw |-> SubRaw(P, t.raw)]
  BY DEF SubstituteIn, StemNames, Pairing
<1>2. NameMap(t.in)
  BY DEF IsTransition
<1>3. IsSubstitution(P)
  BY <1>2, PairingIs DEF StemNames
<1> HIDE DEF P
<1>4. IsRenaming(u, P, t) /\ u.in = SubMap(P, t.in)
      /\ u = [in |-> u.in, out |-> u.out, polyhedra |-> u.polyhedra, raw |-> u.raw]
  BY <1>1 DEF IsRenaming
<1>5. NameMap(u.in)
  BY <1>2, <1>3, <1>4, SubMapType
<1> HIDE DEF u
<1>6. IsTransition(u)
  BY <1>3, <1>4, <1>5, RenamingType
<1> QED BY <1>4, <1>6 DEF u, P

LEMMA NewMaps ==
    ASSUME NEW t, IsTransition(t), NEW in, NEW out
    PROVE  [t EXCEPT !.in = in, !.out = out] = [in |-> in, out |-> out, polyhedra |-> t.polyhedra, raw |-> t.raw]
<1> DEFINE u == [t EXCEPT !.in = in]
           w == [u EXCEPT !.out = out]
<1>1. t = [in |-> t.in, out |-> t.out, polyhedra |-> t.polyhedra, raw |-> t.raw]
  BY DEF IsTransition
<1>2. u = [in |-> in, out |-> t.out, polyhedra |-> t.polyhedra, raw |-> t.raw]
  BY <1>1
<1>3. [t EXCEPT !.in = in, !.out = out] = w
  OBVIOUS
<1> HIDE DEF u
<1>4. w = [in |-> in, out |-> out, polyhedra |-> t.polyhedra, raw |-> t.raw]
  BY <1>2
<1> QED BY <1>3, <1>4

LEMMA PruneIs ==
    ASSUME NEW t, IsTransition(t)
    PROVE  LET u == PruneTransition(t)
           IN  /\ IsTransition(u) /\ u.polyhedra = t.polyhedra /\ u.raw = t.raw
               /\ u.in = PruneMap(t.in, Live(t)) /\ u.out = PruneMap(t.out, Live(t))
<1> DEFINE u == PruneTransition(t)
<1>1. u = [in |-> PruneMap(t.in, Live(t)), out |-> PruneMap(t.out, Live(t)),
           polyhedra |-> t.polyhedra, raw |-> t.raw]
  <2> DEFINE a == PruneMap(t.in, Live(t))
             b == PruneMap(t.out, Live(t))
  <2>1. u = [t EXCEPT !.in = a, !.out = b]
    BY DEF PruneTransition
  <2> HIDE DEF a, b
  <2>2. u = [in |-> a, out |-> b, polyhedra |-> t.polyhedra, raw |-> t.raw]
    BY <2>1, NewMaps
  <2> QED BY <2>2 DEF a, b
<1>2. NameMap(u.in) /\ NameMap(u.out)
  <2>1. ASSUME NEW map, NEW live, NameMap(map) PROVE NameMap(PruneMap(map, live))
    BY <2>1 DEF PruneMap, NameMap
  <2> QED BY <1>1, <2>1 DEF IsTransition
<1> HIDE DEF u
<1>3. IsTransition(u)
  BY <1>1, <1>2 DEF IsTransition
<1> QED BY <1>1, <1>3 DEF u

\* What step 7b makes of a transition.
Ensured(t, tagIn, tagOut) ==
    [in |-> ensureMapping(t.in, tagIn), out |-> ensureMapping(t.out, tagOut),
     polyhedra |-> t.polyhedra, raw |-> t.raw]

LEMMA EnsuredIs ==
    ASSUME NEW t, IsTransition(t), program_vars \subseteq Vars, NEW tagIn \in Tags, NEW tagOut \in Tags
    PROVE  LET u == Ensured(t, tagIn, tagOut)
           IN  /\ IsTransition(u) /\ u.polyhedra = t.polyhedra /\ u.raw = t.raw
               /\ u.in = ensureMapping(t.in, tagIn) /\ u.out = ensureMapping(t.out, tagOut)
               /\ program_vars \subseteq DOMAIN u.in /\ program_vars \subseteq DOMAIN u.out
<1> DEFINE u == Ensured(t, tagIn, tagOut)
<1>1. u = [in |-> ensureMapping(t.in, tagIn), out |-> ensureMapping(t.out, tagOut),
           polyhedra |-> t.polyhedra, raw |-> t.raw]
  BY DEF Ensured
<1>2. ASSUME NEW map, NEW tag \in Tags, NameMap(map)
      PROVE  NameMap(ensureMapping(map, tag)) /\ program_vars \subseteq DOMAIN ensureMapping(map, tag)
  <2>1. \A v \in Vars : FreshName(v, tag) \in NamesOf(v)
    BY FreshType
  <2> QED BY <1>2, <2>1 DEF NameMap, ensureMapping
<1> HIDE DEF u
<1>3. NameMap(u.in) /\ NameMap(u.out) /\ program_vars \subseteq DOMAIN u.in /\ program_vars \subseteq DOMAIN u.out
  BY <1>1, <1>2 DEF IsTransition
<1>4. IsTransition(u)
  BY <1>1, <1>3 DEF IsTransition
<1> QED BY <1>1, <1>3, <1>4 DEF u

LEMMA EnsureMappingsIs ==
    ASSUME EnsureMappings, IsTransition(stem), IsTransition(loop)
    PROVE  /\ stem' = Ensured(stem, "fresh_stem_in", "fresh_stem_out")
           /\ loop' = Ensured(loop, "fresh_loop_in", "fresh_loop_out")
<1> DEFINE a == ensureMapping(stem.in, "fresh_stem_in")
           b == ensureMapping(stem.out, "fresh_stem_out")
           c == ensureMapping(loop.in, "fresh_loop_in")
           d == ensureMapping(loop.out, "fresh_loop_out")
<1>1. stem' = [stem EXCEPT !.in = a, !.out = b] /\ loop' = [loop EXCEPT !.in = c, !.out = d]
  BY DEF EnsureMappings
<1>2. /\ Ensured(stem, "fresh_stem_in", "fresh_stem_out")
           = [in |-> a, out |-> b, polyhedra |-> stem.polyhedra, raw |-> stem.raw]
      /\ Ensured(loop, "fresh_loop_in", "fresh_loop_out")
           = [in |-> c, out |-> d, polyhedra |-> loop.polyhedra, raw |-> loop.raw]
  BY DEF Ensured
<1> HIDE DEF a, b, c, d
<1> QED BY <1>1, <1>2, NewMaps

----------------------------------------------------------------------------
(* The types, for every behaviour.                                         *)

Phases == {"stem", "loop", "connect", "prune", "ensure", "built", "done"}

OccsIn(t) == RawOcc(t) \cup PolyOcc(t)

TypeInv ==
    /\ reading \in Readings /\ phase \in Phases
    /\ IsTransition(stem) /\ IsTransition(loop)
    /\ lines \in Nat /\ NameMap(prev_out) /\ IsSubstitution(raw_subst)
    /\ program_vars \subseteq Vars
    /\ verdict \in {"none", "UNKNOWN", "TRIVIAL", "CHECKED"}
    /\ asserted.stem \subseteq Occurrences /\ asserted.loop \subseteq Occurrences
    /\ asserted.equated \subseteq Vars
    /\ now \in [Vars -> Nat]
    /\ Built => /\ program_vars \subseteq DOMAIN stem.in /\ program_vars \subseteq DOMAIN stem.out
                /\ program_vars \subseteq DOMAIN loop.in /\ program_vars \subseteq DOMAIN loop.out

LEMMA OccsType ==
    ASSUME NEW t, IsTransition(t)
    PROVE  RawOcc(t) \subseteq Occurrences /\ PolyOcc(t) \subseteq Occurrences
<1>1. t.polyhedra \in SUBSET SUBSET Atoms /\ t.raw \in SUBSET Atoms
  BY DEF IsTransition
<1>2. \A a \in Atoms : a.occ \in SUBSET Occurrences
  BY DEF Atoms
<1>3. RawOcc(t) \subseteq Occurrences
  BY <1>1, <1>2 DEF RawOcc
<1>4. ASSUME NEW o \in PolyOcc(t) PROVE o \in Occurrences
  <2>1. PICK p \in t.polyhedra : o \in UNION {a.occ : a \in p}
    BY DEF PolyOcc
  <2>2. PICK a \in p : o \in a.occ
    BY <2>1
  <2> QED BY <1>1, <1>2, <2>2
<1> QED BY <1>3, <1>4

LEMMA EmptyTypes == NameMap(EmptyMap) /\ IsSubstitution(EmptyMap) /\ IsTransition(NoTransition)
<1>1. DOMAIN EmptyMap = {}
  BY DEF EmptyMap
<1>2. NameMap(EmptyMap) /\ IsSubstitution(EmptyMap)
  BY <1>1 DEF NameMap, IsSubstitution
<1> QED BY <1>2 DEF NoTransition, IsTransition

LEMMA TypeInit == LassoInit => TypeInv
<1> SUFFICES ASSUME LassoInit PROVE TypeInv
  OBVIOUS
<1>1. program_vars \subseteq Vars
  BY DEF LassoInit
<1>2. now \in [Vars -> Nat]
  BY DEF LassoInit
<1>3. asserted.stem \subseteq Occurrences /\ asserted.loop \subseteq Occurrences /\ asserted.equated \subseteq Vars
  BY DEF LassoInit
<1> QED BY <1>1, <1>2, <1>3, EmptyTypes DEF LassoInit, TypeInv, Phases, Built

\* What ReadLine does, with the naming of the line.
Reads(part, text, f, mention, d, fails) ==
    LET line == parseTransition(text, fails)
        subst == ExtendRawSubst(raw_subst, prev_out, line.in)
    IN  /\ phase = part /\ part \in Parts
        /\ f \in SomeNaming /\ d \in Nat \ {0} /\ fails \in BOOLEAN
        /\ fails => reading.mayFail
        /\ \A v \in Vars : f[v] \in Namings(part, v)
        /\ text = Line(part, f, mention, d) /\ IsLine(text) /\ IsLine(line)
        /\ raw_subst' = subst /\ prev_out' = line.out /\ lines' = lines + 1
        /\ stem' = IF part = "stem" THEN AddLine(stem, line, subst) ELSE stem
        /\ loop' = IF part = "loop" THEN AddLine(loop, line, subst) ELSE loop
        /\ now' = [v \in Vars |-> IF f[v][1] = f[v][2] THEN now[v] ELSE now[v] + 1]
        /\ edges' = [edges EXCEPT ![part] = [v \in Vars |-> edges[part][v] \cup {f[v]}]]
        /\ choices' = [choices EXCEPT ![part] =
             {c \cup {<<a.line, a.disjunct>> : a \in p} : c \in choices[part], p \in text.dnf}]
        /\ UNCHANGED <<reading, phase, program_vars, verdict, asserted, spans>>

LEMMA ReadLineReads ==
    ASSUME TypeInv, NEW part \in Parts, ReadLine(part)
    PROVE  \E f \in SomeNaming, d \in Nat \ {0}, fails \in BOOLEAN : \E text, mention :
             Reads(part, text, f, mention, d, fails)
<1>0. PICK text \in NextLines(part), fails \in MayFail : BuildFromLine(part, text, fails)
  BY DEF ReadLine
<1>2. reading \in Readings /\ lines \in Nat /\ now \in [Vars -> Nat]
  BY DEF TypeInv
<1>3. PICK f \in SomeNaming, d \in Nat \ {0} : \E mention :
        /\ \A v \in Vars : f[v] \in Namings(part, v)
        /\ text = Line(part, f, mention, d)
  BY <1>2, LineRead
<1>4. PICK mention : (\A v \in Vars : f[v] \in Namings(part, v)) /\ text = Line(part, f, mention, d)
  BY <1>3
<1> DEFINE line == parseTransition(text, fails)
           subst == ExtendRawSubst(raw_subst, prev_out, line.in)
           edge(v) == <<IndexIn(line.in, v), IndexIn(line.out, v)>>
<1>5. /\ IsLine(text)
      /\ \A v \in Vars :
           /\ v \in DOMAIN text.in <=> f[v][1] # 0
           /\ v \in DOMAIN text.in => text.in[v] = Ssa(v, f[v][1])
           /\ v \in DOMAIN text.out <=> f[v][2] # 0
           /\ v \in DOMAIN text.out => text.out[v] = Ssa(v, f[v][2])
  BY <1>2, <1>4, LineType
<1>6. IsLine(line) /\ line.in = text.in /\ line.out = text.out
  BY <1>5, ParseIs
<1>1. /\ raw_subst' = subst /\ prev_out' = line.out /\ lines' = lines + 1
      /\ stem' = IF part = "stem" THEN AddLine(stem, line, subst) ELSE stem
      /\ loop' = IF part = "loop" THEN AddLine(loop, line, subst) ELSE loop
      /\ now' = [v \in Vars |-> IF edge(v)[1] = edge(v)[2] THEN now[v] ELSE now[v] + 1]
      /\ edges' = [edges EXCEPT ![part] = [v \in Vars |-> edges[part][v] \cup {edge(v)}]]
      /\ choices' = [choices EXCEPT ![part] =
             {c \cup {<<a.line, a.disjunct>> : a \in p} : c \in choices[part], p \in text.dnf}]
  BY <1>0 DEF BuildFromLine, Transition, Parts
<1>7. ASSUME NEW v \in Vars PROVE edge(v) = f[v]
  <2>1. f[v] = <<f[v][1], f[v][2]>> /\ f[v] \in (0 .. MaxName) \X (0 .. MaxName)
    BY DEF SomeNaming
  <2> HIDE DEF line
  <2>2. \A n : Ssa(v, n).n = n
    BY DEF Ssa
  <2>3. IndexIn(line.in, v) = f[v][1]
    BY <1>5, <1>6, <2>2 DEF IndexIn
  <2>4. IndexIn(line.out, v) = f[v][2]
    BY <1>5, <1>6, <2>2 DEF IndexIn
  <2> QED BY <2>1, <2>3, <2>4
<1> HIDE DEF edge, subst, line
<1>8. now' = [v \in Vars |-> IF f[v][1] = f[v][2] THEN now[v] ELSE now[v] + 1]
  BY <1>1, <1>7
<1>9. edges' = [edges EXCEPT ![part] = [v \in Vars |-> edges[part][v] \cup {f[v]}]]
  BY <1>1, <1>7
<1>10. fails \in BOOLEAN /\ (fails => reading.mayFail)
  BY DEF MayFail
<1> USE DEF subst, line
<1>12. phase = part /\ UNCHANGED <<reading, phase, program_vars, verdict, asserted, spans>>
  BY DEF ReadLine
<1>13. Reads(part, text, f, mention, d, fails)
  <2>1. /\ phase = part /\ part \in Parts
        /\ f \in SomeNaming /\ d \in Nat \ {0} /\ fails \in BOOLEAN
        /\ fails => reading.mayFail
        /\ \A v \in Vars : f[v] \in Namings(part, v)
        /\ text = Line(part, f, mention, d) /\ IsLine(text) /\ IsLine(line)
    BY <1>4, <1>5, <1>6, <1>10, <1>12
  <2> HIDE DEF line, subst
  <2>2. /\ raw_subst' = subst /\ prev_out' = line.out /\ lines' = lines + 1
        /\ stem' = IF part = "stem" THEN AddLine(stem, line, subst) ELSE stem
        /\ loop' = IF part = "loop" THEN AddLine(loop, line, subst) ELSE loop
    BY <1>1
  <2>3. choices' = [choices EXCEPT ![part] =
             {c \cup {<<a.line, a.disjunct>> : a \in p} : c \in choices[part], p \in text.dnf}]
    BY <1>1
  <2> USE DEF line, subst
  <2> QED BY <1>8, <1>9, <1>12, <2>1, <2>2, <2>3 DEF Reads
<1> QED BY <1>10, <1>13

LEMMA TypeReadLine ==
    ASSUME TypeInv, NEW part \in Parts, ReadLine(part)
    PROVE  TypeInv'
<1>1. PICK f \in SomeNaming, d \in Nat \ {0}, fails \in BOOLEAN :
        \E text, mention : Reads(part, text, f, mention, d, fails)
  BY ReadLineReads
<1>2. PICK text, mention : Reads(part, text, f, mention, d, fails)
  BY <1>1
<1> DEFINE line == parseTransition(text, fails)
           subst == ExtendRawSubst(raw_subst, prev_out, line.in)
<1>3. /\ IsLine(line) /\ phase = part
      /\ raw_subst' = subst /\ prev_out' = line.out /\ lines' = lines + 1
      /\ stem' = IF part = "stem" THEN AddLine(stem, line, subst) ELSE stem
      /\ loop' = IF part = "loop" THEN AddLine(loop, line, subst) ELSE loop
      /\ now' = [v \in Vars |-> IF f[v][1] = f[v][2] THEN now[v] ELSE now[v] + 1]
      /\ UNCHANGED <<reading, phase, program_vars, verdict, asserted, spans>>
  BY <1>2 DEF Reads
<1> HIDE DEF line
<1>4. NameMap(line.in) /\ NameMap(line.out)
  BY <1>3 DEF IsLine
<1>5. IsSubstitution(subst)
  BY <1>4, ExtendType DEF TypeInv
<1> HIDE DEF subst
<1>6. IsTransition(AddLine(stem, line, subst)) /\ IsTransition(AddLine(loop, line, subst))
  BY <1>3, <1>5, AddLineIs DEF TypeInv
<1>7. now' \in [Vars -> Nat]
  <2>1. \A v \in Vars : now[v] \in Nat /\ now[v] + 1 \in Nat
    BY DEF TypeInv
  <2> QED BY <1>3, <2>1
<1>8. ~Built'
  BY <1>3 DEF Built, Parts
<1> QED BY <1>3, <1>4, <1>5, <1>6, <1>7, <1>8 DEF TypeInv

LEMMA TypeNext == TypeInv /\ [LassoNext]_lassoVars => TypeInv'
<1> SUFFICES ASSUME TypeInv, [LassoNext]_lassoVars PROVE TypeInv'
  OBVIOUS
<1>1. CASE \E part \in Parts : ReadLine(part)
  BY <1>1, TypeReadLine
<1>2. CASE EndStem
  BY <1>2, EmptyTypes DEF EndStem, TypeInv, Phases, Built
<1>3. CASE EndLoop
  BY <1>3 DEF EndLoop, TypeInv, Phases, Built
<1>4. CASE connectStemToLoop
  <2>1. IsTransition(loop) /\ NameMap(stem.out)
    BY DEF TypeInv, IsTransition
  <2>2. IsTransition(RenameCollisions(loop, stem.out))
    BY <2>1, RenameCollisionsIs
  <2>3. IsTransition(SubstituteIn(RenameCollisions(loop, stem.out), stem.out))
    BY <2>1, <2>2, SubstituteInIs
  <2>4. IsTransition(loop')
    BY <1>4, <2>3 DEF connectStemToLoop
  <2> QED BY <1>4, <2>4 DEF connectStemToLoop, ghosts, TypeInv, Phases, Built
<1>5. CASE removeDeadVariables
  <2>1. IsTransition(PruneTransition(stem)) /\ IsTransition(PruneTransition(loop))
    BY PruneIs DEF TypeInv
  <2> QED BY <1>5, <2>1 DEF removeDeadVariables, ghosts, TypeInv, Phases, Built
<1>6. CASE EnsureMappings
  <2>1. /\ stem' = Ensured(stem, "fresh_stem_in", "fresh_stem_out")
        /\ loop' = Ensured(loop, "fresh_loop_in", "fresh_loop_out")
    BY <1>6, EnsureMappingsIs DEF TypeInv
  <2>2. /\ IsTransition(stem') /\ IsTransition(loop')
        /\ program_vars \subseteq DOMAIN stem'.in /\ program_vars \subseteq DOMAIN stem'.out
        /\ program_vars \subseteq DOMAIN loop'.in /\ program_vars \subseteq DOMAIN loop'.out
    BY <2>1, EnsuredIs DEF TypeInv, Tags
  <2> QED BY <1>6, <2>2 DEF EnsureMappings, ghosts, TypeInv, Phases, Built
<1>7. CASE FixpointAnalyze
  <2>1. /\ RawOcc(stem) \subseteq Occurrences /\ RawOcc(loop) \subseteq Occurrences
        /\ Equated \subseteq Vars
    BY OccsType DEF TypeInv, IsTransition, NameMap, Equated
  <2>2. /\ asserted'.stem \subseteq Occurrences /\ asserted'.loop \subseteq Occurrences
        /\ asserted'.equated \subseteq Vars
        /\ verdict' \in {"none", "UNKNOWN", "TRIVIAL", "CHECKED"}
    BY <1>7, <2>1 DEF FixpointAnalyze, TypeInv
  <2> QED BY <1>7, <2>2 DEF FixpointAnalyze, ghosts, TypeInv, Phases, Built
<1>8. CASE UNCHANGED lassoVars
  BY <1>8 DEF lassoVars, TypeInv, Built
<1> QED BY <1>1, <1>2, <1>3, <1>4, <1>5, <1>6, <1>7, <1>8 DEF LassoNext

LEMMA TypeInvImplies == TypeInv => LassoTypeOK
<1> SUFFICES ASSUME TypeInv PROVE LassoTypeOK
  OBVIOUS
<1> DEFINE MapOK(map) == DOMAIN map \subseteq Vars /\ \A v \in DOMAIN map : map[v] \in NamesOf(v)
           OccOK(occ) == \A o \in occ : o.name \in NamesOf(o.cell[1]) /\ o.cell \in Vars \X Nat
<1>1. \A o \in Occurrences : o.name \in NamesOf(o.cell[1]) /\ o.cell \in Vars \X Nat
  BY OccurrenceName DEF Occurrences
<1>2. \A t \in {stem, loop} : /\ MapOK(t.in) /\ MapOK(t.out)
                             /\ OccOK(PolyOcc(t)) /\ OccOK(RawOcc(t))
  BY <1>1, OccsType DEF TypeInv, IsTransition, NameMap
<1>3. OccOK(asserted.stem) /\ OccOK(asserted.loop) /\ asserted.equated \subseteq Vars
  BY <1>1 DEF TypeInv
<1>4. lines \in Nat /\ MapOK(prev_out) /\ DOMAIN raw_subst \subseteq UNION {NamesOf(v) : v \in Vars}
  <2>1. ASSUME NEW name \in AnyName PROVE \E v \in Vars : name \in NamesOf(v)
    <3>1. name.var \in Vars
      BY DEF AnyName
    <3> QED BY <3>1, NamesOfVar
  <2> QED BY <2>1 DEF TypeInv, NameMap, IsSubstitution
<1>5. Built => \A map \in {stem.in, stem.out, loop.in, loop.out} : program_vars \subseteq DOMAIN map
  BY DEF TypeInv
<1>6. /\ reading \in Readings /\ phase \in {"stem", "loop", "connect", "prune", "ensure", "built", "done"}
      /\ program_vars \subseteq Vars
      /\ verdict \in {"none", "UNKNOWN", "TRIVIAL", "CHECKED"}
      /\ now \in [Vars -> Nat]
  BY DEF TypeInv, Phases
<1> QED BY <1>2, <1>3, <1>4, <1>5, <1>6 DEF LassoTypeOK, NamesOf, Tags

\* The maps, occurrences and substitutions of the builder keep their types, and
\* every program variable has its four names in the end, as getSSAVar() of
\* lasso_program.h expects, whatever the trace is.
THEOREM LassoTypes == LassoSpec => []LassoTypeOK
<1>1. LassoInit => TypeInv
  BY TypeInit
<1>2. TypeInv /\ [LassoNext]_lassoVars => TypeInv'
  BY TypeNext
<1>3. TypeInv => LassoTypeOK
  BY TypeInvImplies
<1> QED BY <1>1, <1>2, <1>3, PTL DEF LassoSpec

----------------------------------------------------------------------------
(* The names of the values.                                                *)

\* Traces in which a value has one name: no line writes an edge of the stem again,
\* leaves a variable out, or is refused; a value gets a second name in a part's
\* second line at most, where the code's record of it is right.
PlainTraces ==
    /\ MaxRenamed <= 1 /\ Quoted = {}
    /\ \A r \in Readings : r.shared = "none" /\ r.partial = "none" /\ ~r.mayFail

HistoryOK ==
    /\ edges \in [Parts -> [Vars -> SUBSET (Nat \X Nat)]]
    /\ spans \in [Parts -> [from : [Vars -> Nat], to : [Vars -> Nat]]]
    /\ DOMAIN choices = Parts
    /\ \A part \in Parts, v \in Vars : 0 \notin Used(part, v)
    /\ phase # "stem" => spans["stem"].to = spans["loop"].from

\* The cells of a variable in a part that ends with hi.
First(part, v) == spans[part].from[v]
Cells(part, hi, v) == First(part, v) .. hi[v]

\* nm gives every cell of the part an index of its own.
IsNaming(nm, part, hi) ==
    /\ nm \in [Vars -> [Nat -> Nat]]
    /\ \A v \in Vars : First(part, v) <= hi[v]
    /\ \A v \in Vars : \A c, d \in Cells(part, hi, v) : nm[v][c] = nm[v][d] => c = d

\* The occurrences name the cells of the part as nm does.
Canonical(occ, part, hi, nm) ==
    \A o \in occ : /\ o.cell[2] \in Cells(part, hi, o.cell[1])
                   /\ o.name = Ssa(o.cell[1], nm[o.cell[1]][o.cell[2]])

\* The ways to take a disjunct of every line.
Taken(t) == {{<<a.line, a.disjunct>> : a \in p} : p \in t.polyhedra}

\* The transition is the composition of the lines.
Composed(t, part, hi, nm) ==
    /\ \A v \in Vars : t.in[v] = Ssa(v, nm[v][First(part, v)]) /\ t.out[v] = Ssa(v, nm[v][hi[v]])
    /\ PolyOcc(t) \subseteq RawOcc(t)
    /\ {} \notin t.polyhedra /\ Taken(t) = choices[part]

\* The transition has the maps of the last line: of a variable that the line
\* writes, the name of the last cell; of another, that or one that no cell has.
LastLine(t, part, hi, nm) ==
    /\ isTrue(t)
    /\ \A v \in Vars :
         /\ t.in[v] = Ssa(v, t.in[v].n) /\ t.in[v].n \in Used(part, v)
         /\ t.out[v] = Ssa(v, t.out[v].n) /\ t.out[v].n \in Used(part, v)
         /\ t.out[v] # t.in[v] => t.out[v].n = nm[v][hi[v]] /\ First(part, v) < hi[v]
         /\ t.out[v] = t.in[v] => \/ t.out[v].n = nm[v][hi[v]]
                                  \/ \A c \in Cells(part, hi, v) : t.out[v].n # nm[v][c]
         /\ part = "loop" /\ t.in[v].n \in Used("stem", v) => t.in[v].n = nm[v][First(part, v)]

\* A name of the loop is one of the stem for the cell between them only.
Apart(part, hi, nm) ==
    \A v \in Vars : \A c \in Cells(part, hi, v) :
      /\ nm[v][c] \in Used(part, v)
      /\ part = "loop" /\ c # First(part, v) => nm[v][c] \notin Used("stem", v)
      /\ part = "loop" /\ c = First(part, v) /\ nm[v][c] \in Used("stem", v)
           => v \in DOMAIN stem.out /\ stem.out[v] = Ssa(v, nm[v][c])

Named(t, part, hi, nm) ==
    /\ IsNaming(nm, part, hi) /\ Apart(part, hi, nm)
    /\ Canonical(RawOcc(t), part, hi, nm)
    /\ DOMAIN t.in = Vars /\ DOMAIN t.out = Vars
    /\ Linearize => Composed(t, part, hi, nm)
    /\ ~Linearize => LastLine(t, part, hi, nm)

\* No line of the part has been read.
Unread(t, part) ==
    /\ t = NoTransition /\ choices[part] = {{}} /\ \A v \in Vars : edges[part][v] = {}

\* What the names of the next line will be replaced by.
Substituting(part, nm) ==
    /\ \A v \in Vars :
         /\ v \in DOMAIN prev_out
         /\ prev_out[v] = Ssa(v, prev_out[v].n) /\ prev_out[v].n \in Used(part, v)
         /\ SubName(raw_subst, prev_out[v]) = Ssa(v, nm[v][now[v]])
         /\ part = "loop" /\ prev_out[v].n \in Used("stem", v) => prev_out[v].n = nm[v][First(part, v)]
    /\ \A k \in DOMAIN raw_subst :
         /\ k = Ssa(k.var, k.n) /\ k.n \in Used(part, k.var)
         /\ part = "loop" => k.n \notin Used("stem", k.var)
         /\ \A c \in Cells(part, now, k.var) : nm[k.var][c] # k.n
         /\ \E c \in Cells(part, now, k.var) : raw_subst[k] = Ssa(k.var, nm[k.var][c])
    /\ lines = 1 => DOMAIN raw_subst = {}

BeingRead(t, part) ==
    /\ lines = 0 => /\ Unread(t, part) /\ prev_out = EmptyMap /\ raw_subst = EmptyMap
                    /\ now = spans[part].from
    /\ lines # 0 => \E nm : Named(t, part, now, nm) /\ Substituting(part, nm)

HasBeenRead(t, part) == Unread(t, part) \/ \E nm : Named(t, part, spans[part].to, nm)

\* What connectStemToLoop leaves of it, for the polyhedra techniques.
Meant(t, part, nm) ==
    /\ IsNaming(nm, part, spans[part].to)
    /\ Canonical(RawOcc(t), part, spans[part].to, nm)
    /\ DOMAIN t.in = Vars /\ DOMAIN t.out = Vars
    /\ Composed(t, part, spans[part].to, nm)

PartMeans(t, part) == Unread(t, part) \/ \E nm : Meant(t, part, nm)

\* What remains of it once names are dropped.
PartAligned(t, part) ==
    /\ Aligned(PolyOcc(t), t, part, Vars \ Arrays)
    /\ \A o \in PolyOcc(t) : ~IsFresh(o.name)
    /\ Taken(t) = choices[part]

\* And for the fixpoint technique: of the names that are in the maps.
Known == NamesIn(stem.in) \cup NamesIn(stem.out) \cup NamesIn(loop.in) \cup NamesIn(loop.out)

FixpointNames ==
    /\ \A o, p \in RawOcc(stem) \cup RawOcc(loop) :
         o.cell = p.cell /\ o.name \in Known /\ p.name \in Known => o.name = p.name
    /\ \A o, p \in RawOcc(loop), v \in Vars :
         /\ o.cell = <<v, First("loop", v)>> /\ p.cell = <<v, spans["loop"].to[v]>>
         /\ o.name \in Known /\ p.name \in Known
         => \/ o.name = p.name
            \/ /\ v \in DOMAIN loop.in /\ loop.in[v] = o.name
               /\ v \in DOMAIN loop.out /\ loop.out[v] = p.name
    /\ \A o \in RawOcc(stem) \cup RawOcc(loop) : ~IsFresh(o.name)

NamesInv ==
    /\ TypeInv /\ HistoryOK
    /\ phase = "stem" => BeingRead(stem, "stem") /\ Unread(loop, "loop")
    /\ phase = "loop" => HasBeenRead(stem, "stem") /\ BeingRead(loop, "loop")
    /\ phase = "connect" => HasBeenRead(stem, "stem") /\ HasBeenRead(loop, "loop")
    /\ Linearize =>
         /\ phase = "prune" => /\ program_vars = Vars \ Arrays
                               /\ PartMeans(stem, "stem") /\ PartMeans(loop, "loop")
         /\ phase \in {"ensure", "built", "done"} => PartAligned(stem, "stem") /\ PartAligned(loop, "loop")
         /\ phase \in {"stem", "loop", "connect"} => program_vars = Vars \ Arrays
    /\ ~Linearize /\ phase \in {"prune", "ensure", "built", "done"} => FixpointNames
    /\ verdict = "CHECKED" => phase = "done"
    /\ Arrays = {} => FixpointIsReal

----------------------------------------------------------------------------
(* A line more.                                                            *)

LEMMA NewIndex ==
    ASSUME NEW v \in Vars, NEW n \in NewIndices(v)
    PROVE  n \in Nat /\ n # 0 /\ n \notin Used("stem", v) /\ n \notin Used("loop", v)
BY BoundsAssumption DEF NewIndices

LEMMA PlainNamings ==
    ASSUME PlainTraces, reading \in Readings, lines \in Nat,
           NEW part, NEW v \in Vars, NEW e \in Namings(part, v)
    PROVE  /\ e[2] = e[1] \/ e[2] \in NewIndices(v)
           /\ \/ e[1] \in NewIndices(v) /\ (v \in DOMAIN prev_out => lines <= 1)
              \/ v \in DOMAIN prev_out /\ e[1] = prev_out[v].n
              \/ part = "loop" /\ lines = 0 /\ v \in DOMAIN stem.out /\ e[1] = stem.out[v].n
<1>1. reading.shared = "none" /\ reading.partial = "none" /\ MaxRenamed <= 1 /\ MaxRenamed \in Int
  BY BoundsAssumption DEF PlainTraces
<1> DEFINE first == v \notin DOMAIN prev_out
           new == NewIndices(v)
           old == IF first THEN {} ELSE {prev_out[v].n}
           fresh == IF first \/ lines <= MaxRenamed THEN new ELSE {}
           ofStem == IF part = "loop" /\ lines = 0 /\ v \in DOMAIN stem.out THEN {stem.out[v].n} ELSE {}
           read == old \cup fresh \cup ofStem
           again == {d \in edges["stem"][v] : d[2] \notin Used("loop", v)}
           unread == {<<0, 0>>} \cup ({0} \X new)
           plain == {d \in read \X (read \cup new) : d[2] = d[1] \/ d[2] \in new}
<1>2. Namings(part, v) =
        plain \cup (IF reading.partial = "any" \/ (reading.partial = "one line" /\ lines = 0) THEN unread ELSE {})
              \cup (IF part = "loop" /\ (reading.shared = "any" \/ (reading.shared = "one line" /\ lines = 0))
                    THEN again ELSE {})
  BY DEF Namings
<1> HIDE DEF plain, again, unread
<1>3. e \in plain
  BY <1>1, <1>2
<1> HIDE DEF read
<1>4. e[1] \in read /\ (e[2] = e[1] \/ e[2] \in new)
  BY <1>3 DEF plain
<1>5. e[1] \in old \/ e[1] \in fresh \/ e[1] \in ofStem
  BY <1>4 DEF read
<1> QED BY <1>1, <1>4, <1>5

LEMMA UsedNow ==
    ASSUME HistoryOK, NEW part \in Parts, NEW f \in SomeNaming,
           edges' = [edges EXCEPT ![part] = [v \in Vars |-> edges[part][v] \cup {f[v]}]]
    PROVE  /\ \A v \in Vars : /\ Used(part, v)' = Used(part, v) \cup {f[v][1], f[v][2]}
                              /\ \A q \in Parts \ {part} : Used(q, v)' = Used(q, v)
           /\ edges' \in [Parts -> [Vars -> SUBSET (Nat \X Nat)]]
<1>1. \A v \in Vars : f[v] \in Nat \X Nat
  BY BoundsAssumption DEF SomeNaming
<1>2. edges' \in [Parts -> [Vars -> SUBSET (Nat \X Nat)]]
  BY <1>1 DEF HistoryOK
<1>3. \A v \in Vars : edges'[part][v] = edges[part][v] \cup {f[v]}
  BY DEF HistoryOK
<1>4. \A q \in Parts \ {part} : edges'[q] = edges[q]
  BY DEF HistoryOK
<1>5. ASSUME NEW v \in Vars
      PROVE  Used(part, v)' = Used(part, v) \cup {f[v][1], f[v][2]}
  BY <1>3, <1>5 DEF Used
<1>6. ASSUME NEW v \in Vars, NEW q \in Parts \ {part}
      PROVE  Used(q, v)' = Used(q, v)
  BY <1>4, <1>6 DEF Used
<1> QED BY <1>2, <1>5, <1>6

\* The indices the naming of a line may have.
LineNaming(part, f, nm) ==
    \A v \in Vars :
      /\ f[v][1] \in Nat \ {0} /\ f[v][2] \in Nat \ {0}
      /\ f[v][2] = f[v][1] \/ f[v][2] \in NewIndices(v)
      /\ \A c \in Cells(part, now, v) :
           /\ nm[v][c] \in Used(part, v) \cup {f[v][1]}
           /\ part = "loop" /\ c # First(part, v) => nm[v][c] \notin Used("stem", v)
           /\ part = "loop" /\ c = First(part, v) /\ nm[v][c] \in Used("stem", v)
                => v \in DOMAIN stem.out /\ stem.out[v] = Ssa(v, nm[v][c])
      /\ part = "loop" /\ f[v][1] \in Used("stem", v) => f[v][1] = nm[v][First(part, v)]
      /\ f[v][1] = nm[v][now[v]] \/ \A c \in Cells(part, now, v) : f[v][1] # nm[v][c]

\* s gives the value that the line reads its name.
LineSubstitution(part, f, nm, s) ==
    /\ \A v \in Vars : SubName(s, Ssa(v, f[v][1])) = Ssa(v, nm[v][now[v]])
    /\ \A k \in DOMAIN s :
         /\ k = Ssa(k.var, k.n) /\ k.var \in Vars /\ k.n \in Used(part, k.var) \cup {f[k.var][1]}
         /\ part = "loop" => k.n \notin Used("stem", k.var)
         /\ \A c \in Cells(part, now, k.var) : nm[k.var][c] # k.n
         /\ \E c \in Cells(part, now, k.var) : s[k] = Ssa(k.var, nm[k.var][c])

\* What is known before the line: of the names nm of the cells so far.
LineBase(part, t, f, nm, s) ==
    /\ IsNaming(nm, part, now) /\ Canonical(RawOcc(t), part, now, nm)
    /\ LineNaming(part, f, nm) /\ LineSubstitution(part, f, nm, s)

\* The names the stem ends with are names of its lines.
LEMMA StemOutUsed ==
    ASSUME HistoryOK, TypeInv, HasBeenRead(stem, "stem"), NEW v \in DOMAIN stem.out
    PROVE  v \in Vars /\ stem.out[v] = Ssa(v, stem.out[v].n) /\ stem.out[v].n \in Used("stem", v)
<1>0. v \in Vars
  BY DEF TypeInv, IsTransition, NameMap
<1>1. ~Unread(stem, "stem")
  BY DEF Unread, NoTransition, EmptyMap
<1>2. PICK nm : Named(stem, "stem", spans["stem"].to, nm)
  BY <1>1 DEF HasBeenRead
<1>3. CASE Linearize
  <2>1. stem.out[v] = Ssa(v, nm[v][spans["stem"].to[v]])
    BY <1>0, <1>2, <1>3 DEF Named, Composed
  <2>2. spans["stem"].to[v] \in Cells("stem", spans["stem"].to, v)
    <3>1. First("stem", v) \in Int /\ spans["stem"].to[v] \in Int /\ First("stem", v) <= spans["stem"].to[v]
      BY <1>0, <1>2 DEF Named, IsNaming, HistoryOK, First, Parts
    <3> QED BY <3>1 DEF Cells
  <2>3. nm[v][spans["stem"].to[v]] \in Used("stem", v)
    BY <1>0, <1>2, <2>2 DEF Named, Apart
  <2> QED BY <1>0, <2>1, <2>3 DEF Ssa
<1>4. CASE ~Linearize
  BY <1>0, <1>2, <1>4 DEF Named, LastLine
<1> QED BY <1>3, <1>4

LEMMA CellsAre ==
    ASSUME HistoryOK, TypeInv, NEW part \in Parts, NEW v \in Vars
    PROVE  /\ First(part, v) \in Nat /\ now[v] \in Nat /\ spans[part].to[v] \in Nat
           /\ \A hi, c : c \in Cells(part, hi, v) <=> c \in Int /\ First(part, v) <= c /\ c <= hi[v]
<1>1. spans[part].from[v] \in Nat /\ spans[part].to[v] \in Nat
  BY DEF HistoryOK
<1>2. now[v] \in Nat
  BY DEF TypeInv
<1>3. First(part, v) \in Nat
  BY <1>1 DEF First
<1> QED BY <1>1, <1>2, <1>3 DEF Cells

LEMMA SsaIs ==
    ASSUME NEW v, NEW n
    PROVE  /\ Ssa(v, n).var = v /\ Ssa(v, n).n = n /\ Ssa(v, n).tag = "ssa"
           /\ \A w, m : Ssa(v, n) = Ssa(w, m) <=> v = w /\ n = m
BY DEF Ssa

\* The maps of a line of a plain trace.
LEMMA LineMaps ==
    ASSUME TypeInv, NEW part, NEW text, NEW f, NEW mention, NEW d, NEW fails,
           Reads(part, text, f, mention, d, fails),
           \A v \in Vars : f[v][1] # 0 /\ f[v][2] # 0
    PROVE  LET line == parseTransition(text, fails)
           IN  /\ DOMAIN line.in = Vars /\ DOMAIN line.out = Vars
               /\ \A v \in Vars : line.in[v] = Ssa(v, f[v][1]) /\ line.out[v] = Ssa(v, f[v][2])
<1> DEFINE line == parseTransition(text, fails)
<1>1. /\ part \in Parts /\ f \in SomeNaming /\ d \in Nat \ {0}
      /\ text = Line(part, f, mention, d) /\ IsLine(text)
  BY DEF Reads
<1>2. /\ IsLine(text)
      /\ \A v \in Vars :
           /\ v \in DOMAIN text.in <=> f[v][1] # 0
           /\ v \in DOMAIN text.in => text.in[v] = Ssa(v, f[v][1])
           /\ v \in DOMAIN text.out <=> f[v][2] # 0
           /\ v \in DOMAIN text.out => text.out[v] = Ssa(v, f[v][2])
  <2>1. lines \in Nat /\ now \in [Vars -> Nat]
    BY DEF TypeInv
  <2>2. part \in Parts /\ f \in SomeNaming /\ d \in Nat \ {0} /\ text = Line(part, f, mention, d)
    BY <1>1
  <2> QED BY <2>1, <2>2, LineType
<1>3. DOMAIN text.in \subseteq Vars /\ DOMAIN text.out \subseteq Vars
  BY <1>1 DEF IsLine, NameMap
<1>4. line.in = text.in /\ line.out = text.out
  BY <1>1, ParseIs
<1> HIDE DEF line
<1>5. DOMAIN line.in = Vars /\ DOMAIN line.out = Vars
  BY <1>2, <1>3, <1>4
<1> QED BY <1>2, <1>4, <1>5 DEF line

LEMMA FirstLineBase ==
    ASSUME PlainTraces, TypeInv, HistoryOK, NEW part \in Parts, NEW t, BeingRead(t, part), lines = 0,
           part = "loop" => HasBeenRead(stem, "stem"),
           NEW text, NEW f, NEW mention, NEW d, NEW fails, Reads(part, text, f, mention, d, fails)
    PROVE  /\ \A v \in Vars : f[v][1] # 0 /\ f[v][2] # 0
           /\ LineBase(part, t, f, [v \in Vars |-> [c \in Nat |-> f[v][1]]], raw_subst')
           /\ raw_subst' = raw_subst
<1> DEFINE nm == [v \in Vars |-> [c \in Nat |-> f[v][1]]]
           line == parseTransition(text, fails)
<1>1. /\ t = NoTransition /\ prev_out = EmptyMap /\ raw_subst = EmptyMap /\ now = spans[part].from
      /\ \A v \in Vars : edges[part][v] = {}
  BY DEF BeingRead, Unread
<1>2. f \in SomeNaming /\ \A v \in Vars : f[v] \in Namings(part, v)
  BY DEF Reads
<1>3. reading \in Readings /\ lines \in Nat
  BY DEF TypeInv
<1>4. ASSUME NEW v \in Vars
      PROVE  /\ f[v][2] = f[v][1] \/ f[v][2] \in NewIndices(v)
             /\ \/ f[v][1] \in NewIndices(v)
                \/ part = "loop" /\ v \in DOMAIN stem.out /\ f[v][1] = stem.out[v].n
  BY <1>1, <1>2, <1>3, PlainNamings DEF EmptyMap
<1>5. ASSUME NEW v \in Vars
      PROVE  /\ f[v][1] \in Nat \ {0} /\ f[v][2] \in Nat \ {0}
             /\ part = "loop" /\ f[v][1] \in Used("stem", v)
                  => v \in DOMAIN stem.out /\ stem.out[v] = Ssa(v, f[v][1])
  <2>1. f[v][1] \in Nat /\ f[v][2] \in Nat
    BY <1>2, BoundsAssumption DEF SomeNaming
  <2>2. CASE f[v][1] \in NewIndices(v)
    BY <1>4, <2>1, <2>2, NewIndex
  <2>3. CASE part = "loop" /\ v \in DOMAIN stem.out /\ f[v][1] = stem.out[v].n
    <3>1. stem.out[v] = Ssa(v, f[v][1]) /\ f[v][1] \in Used("stem", v)
      BY <2>3, StemOutUsed
    <3>2. 0 \notin Used("stem", v)
      BY DEF HistoryOK, Parts
    <3> QED BY <1>4, <2>1, <2>3, <3>1, <3>2, NewIndex
  <2> QED BY <1>4, <2>2, <2>3
<1>6. ASSUME NEW v \in Vars
      PROVE  /\ First(part, v) = now[v] /\ now[v] \in Nat
             /\ \A c \in Cells(part, now, v) : c = now[v] /\ nm[v][c] = f[v][1]
  <2>1. First(part, v) = now[v]
    BY <1>1 DEF First
  <2>2. \A c \in Cells(part, now, v) : c = now[v]
    BY <2>1, CellsAre
  <2> QED BY <2>1, <2>2, CellsAre
<1>7. nm \in [Vars -> [Nat -> Nat]]
  BY <1>5
<1>8. IsNaming(nm, part, now)
  <2> HIDE DEF nm
  <2> QED BY <1>6, <1>7 DEF IsNaming
<1>9. Canonical(RawOcc(t), part, now, nm)
  BY <1>1 DEF Canonical, RawOcc, NoTransition
<1>10. LineNaming(part, f, nm)
  <2>1. \A v \in Vars : nm[v][now[v]] = f[v][1] /\ nm[v][First(part, v)] = f[v][1]
    BY <1>6
  <2> HIDE DEF nm
  <2> QED BY <1>4, <1>5, <1>6, <2>1 DEF LineNaming
<1>11. raw_subst' = raw_subst
  <2>1. IsLine(line) /\ raw_subst' = ExtendRawSubst(raw_subst, prev_out, line.in)
    BY DEF Reads
  <2>2. DOMAIN EmptyMap = {}
    BY DEF EmptyMap
  <2> HIDE DEF line
  <2>3. ExtendRawSubst(EmptyMap, EmptyMap, line.in) = EmptyMap
    BY DEF ExtendRawSubst, EmptyMap
  <2> QED BY <1>1, <2>1, <2>3
<1>12. LineSubstitution(part, f, nm, raw_subst')
  <2>1. DOMAIN raw_subst' = {}
    BY <1>1, <1>11 DEF EmptyMap
  <2>2. \A v \in Vars : SubName(raw_subst', Ssa(v, f[v][1])) = Ssa(v, nm[v][now[v]])
    BY <1>6, <2>1 DEF SubName
  <2> QED BY <2>1, <2>2 DEF LineSubstitution
<1> QED BY <1>5, <1>8, <1>9, <1>10, <1>11, <1>12 DEF LineBase

LEMMA NextLineBase ==
    ASSUME PlainTraces, TypeInv, HistoryOK, NEW part \in Parts, NEW t, lines # 0,
           NEW nm, Named(t, part, now, nm), Substituting(part, nm),
           NEW text, NEW f, NEW mention, NEW d, NEW fails, Reads(part, text, f, mention, d, fails)
    PROVE  /\ \A v \in Vars : f[v][1] # 0 /\ f[v][2] # 0
           /\ LineBase(part, t, f, nm, raw_subst')
<1> DEFINE line == parseTransition(text, fails)
           in == line.in
           s == ExtendRawSubst(raw_subst, prev_out, in)
           S == {v \in DOMAIN in \cap DOMAIN prev_out : prev_out[v] # in[v]}
           P == Pairing(in, prev_out, S)
<1>1. f \in SomeNaming /\ \A v \in Vars : f[v] \in Namings(part, v)
  BY DEF Reads
<1>2. reading \in Readings /\ lines \in Nat
  BY DEF TypeInv
<1>3. \A v \in Vars : /\ v \in DOMAIN prev_out /\ prev_out[v] = Ssa(v, prev_out[v].n)
                      /\ prev_out[v].n \in Used(part, v)
  BY DEF Substituting
<1>4. ASSUME NEW v \in Vars
      PROVE  /\ f[v][2] = f[v][1] \/ f[v][2] \in NewIndices(v)
             /\ (f[v][1] \in NewIndices(v) /\ lines = 1) \/ f[v][1] = prev_out[v].n
  BY <1>1, <1>2, <1>3, PlainNamings
<1>5. ASSUME NEW v \in Vars
      PROVE  f[v][1] \in Nat \ {0} /\ f[v][2] \in Nat \ {0}
  <2>1. f[v][1] \in Nat /\ f[v][2] \in Nat
    BY <1>1, BoundsAssumption DEF SomeNaming
  <2>2. 0 \notin Used(part, v)
    BY DEF HistoryOK
  <2> QED BY <1>3, <1>4, <2>1, <2>2, NewIndex
<1>6. /\ NameMap(in) /\ NameMap(prev_out) /\ IsSubstitution(raw_subst)
      /\ raw_subst' = s
      /\ DOMAIN in = Vars /\ \A v \in Vars : in[v] = Ssa(v, f[v][1])
  <2>1. IsLine(line) /\ raw_subst' = s
    BY DEF Reads
  <2>2. DOMAIN in = Vars /\ \A v \in Vars : in[v] = Ssa(v, f[v][1])
    BY <1>5, LineMaps
  <2> HIDE DEF line, s
  <2> QED BY <2>1, <2>2 DEF IsLine, TypeInv
<1> HIDE DEF in, line
<1>7. S = {v \in Vars : prev_out[v].n # f[v][1]}
  BY <1>3, <1>6, SsaIs
<1> HIDE DEF S
<1>8. /\ \A k \in DOMAIN P : k.var \in S /\ in[k.var] = k /\ P[k] = prev_out[k.var]
      /\ \A v \in S : in[v] \in DOMAIN P /\ P[in[v]] = prev_out[v]
  <2>1. S \subseteq DOMAIN in \cap DOMAIN prev_out
    BY <1>3, <1>6, <1>7
  <2> QED BY <1>6, <2>1, PairingIs
<1>9. /\ DOMAIN s = DOMAIN raw_subst \cup DOMAIN P
      /\ \A k \in DOMAIN s : s[k] = IF k \in DOMAIN P THEN P[k] ELSE raw_subst[k]
  <2>1. DOMAIN P = {in[v] : v \in S}
    BY DEF Pairing
  <2>2. DOMAIN s = DOMAIN raw_subst \cup DOMAIN P
    BY <2>1 DEF ExtendRawSubst, S
  <2>3. \A k \in DOMAIN s : s[k] = IF k \in DOMAIN P THEN P[k] ELSE raw_subst[k]
    BY <2>1 DEF ExtendRawSubst, Pairing, S
  <2> QED BY <2>2, <2>3
<1> HIDE DEF s, P
<1>10. IsNaming(nm, part, now) /\ Apart(part, now, nm) /\ Canonical(RawOcc(t), part, now, nm)
  BY DEF Named
<1>11. \A v \in Vars : \A c \in Cells(part, now, v) : nm[v][c] \in Used(part, v)
  BY <1>10 DEF Apart
<1>12. ASSUME NEW v \in S
       PROVE  lines = 1 /\ f[v][1] \notin Used(part, v) /\ f[v][1] \notin Used("stem", v)
  <2>1. v \in Vars /\ f[v][1] # prev_out[v].n
    BY <1>7
  <2>2. f[v][1] \in NewIndices(v) /\ lines = 1
    BY <1>4, <2>1
  <2>3. f[v][1] \notin Used("stem", v) /\ f[v][1] \notin Used("loop", v)
    BY <2>1, <2>2, NewIndex
  <2> QED BY <2>2, <2>3 DEF Parts
<1>13. ASSUME NEW v \in Vars PROVE now[v] \in Cells(part, now, v)
  <2>1. now[v] \in Int /\ First(part, v) <= now[v] /\ now[v] <= now[v]
    BY <1>10, CellsAre DEF IsNaming
  <2> QED BY <2>1, CellsAre
<1>14. ASSUME NEW k \in DOMAIN raw_subst
       PROVE  /\ k = Ssa(k.var, k.n) /\ k.var \in Vars /\ k.n \in Used(part, k.var)
              /\ part = "loop" => k.n \notin Used("stem", k.var)
              /\ \A c \in Cells(part, now, k.var) : nm[k.var][c] # k.n
              /\ \E c \in Cells(part, now, k.var) : raw_subst[k] = Ssa(k.var, nm[k.var][c])
  <2>1. k.var \in Vars
    BY <1>6 DEF IsSubstitution, AnyName
  <2> QED BY <2>1 DEF Substituting
<1>15. \A v \in Vars : SubName(raw_subst, prev_out[v]) = Ssa(v, nm[v][now[v]])
  BY DEF Substituting
<1>16. ASSUME NEW v \in Vars PROVE SubName(s, Ssa(v, f[v][1])) = Ssa(v, nm[v][now[v]])
  <2>1. CASE v \in S
    <3>1. SubName(s, in[v]) = prev_out[v]
      BY <1>8, <1>9, <2>1 DEF SubName
    <3>2. DOMAIN raw_subst = {}
      BY <1>12, <2>1 DEF Substituting
    <3>3. prev_out[v] = Ssa(v, nm[v][now[v]])
      BY <1>15, <3>2 DEF SubName
    <3> QED BY <1>6, <3>1, <3>3
  <2>2. CASE v \notin S
    <3>1. in[v] = prev_out[v]
      BY <1>3, <1>6, <1>7, <2>2
    <3>2. in[v] \notin DOMAIN P
      BY <1>6, <1>8, <2>2, SsaIs
    <3>3. SubName(s, in[v]) = SubName(raw_subst, in[v])
      BY <1>9, <3>2 DEF SubName
    <3> QED BY <1>6, <1>15, <3>1, <3>3
  <2> QED BY <2>1, <2>2
<1>17. ASSUME NEW k \in DOMAIN s
       PROVE  /\ k = Ssa(k.var, k.n) /\ k.var \in Vars /\ k.n \in Used(part, k.var) \cup {f[k.var][1]}
              /\ part = "loop" => k.n \notin Used("stem", k.var)
              /\ \A c \in Cells(part, now, k.var) : nm[k.var][c] # k.n
              /\ \E c \in Cells(part, now, k.var) : s[k] = Ssa(k.var, nm[k.var][c])
  <2>1. CASE k \in DOMAIN P
    <3> DEFINE v == k.var
    <3>1. v \in S /\ v \in Vars /\ k = Ssa(v, f[v][1]) /\ s[k] = prev_out[v]
      BY <1>6, <1>7, <1>8, <1>9, <2>1
    <3>2. k.n = f[v][1] /\ k = Ssa(v, k.n)
      BY <3>1, SsaIs
    <3>3. DOMAIN raw_subst = {}
      BY <1>12, <3>1 DEF Substituting
    <3>4. prev_out[v] = Ssa(v, nm[v][now[v]])
      BY <1>15, <3>1, <3>3 DEF SubName
    <3> HIDE DEF v
    <3>5. \E c \in Cells(part, now, v) : s[k] = Ssa(v, nm[v][c])
      BY <1>13, <3>1, <3>4
    <3>6. k.n \notin Used("stem", v) /\ \A c \in Cells(part, now, v) : nm[v][c] # k.n
      BY <1>11, <1>12, <3>1, <3>2
    <3> QED BY <3>1, <3>2, <3>5, <3>6 DEF v
  <2>2. CASE k \notin DOMAIN P
    BY <1>9, <1>14, <2>2
  <2> QED BY <2>1, <2>2
<1>18. LineSubstitution(part, f, nm, s)
  BY <1>16, <1>17 DEF LineSubstitution
<1>19. ASSUME NEW v \in Vars
       PROVE  /\ part = "loop" /\ f[v][1] \in Used("stem", v) => f[v][1] = nm[v][First(part, v)]
              /\ f[v][1] = nm[v][now[v]] \/ \A c \in Cells(part, now, v) : f[v][1] # nm[v][c]
  <2>1. CASE f[v][1] \in NewIndices(v)
    <3>1. f[v][1] \notin Used(part, v) /\ f[v][1] \notin Used("stem", v)
      BY <2>1, NewIndex DEF Parts
    <3> QED BY <1>11, <3>1
  <2>2. CASE f[v][1] = prev_out[v].n
    <3>1. part = "loop" /\ f[v][1] \in Used("stem", v) => f[v][1] = nm[v][First(part, v)]
      BY <2>2 DEF Substituting
    <3>2. CASE prev_out[v] \in DOMAIN raw_subst
      BY <1>3, <1>14, <2>2, <3>1, <3>2, SsaIs
    <3>3. CASE prev_out[v] \notin DOMAIN raw_subst
      <4>1. prev_out[v] = Ssa(v, nm[v][now[v]])
        BY <1>15, <3>3 DEF SubName
      <4> QED BY <2>2, <3>1, <4>1, SsaIs
    <3> QED BY <3>2, <3>3
  <2> QED BY <1>4, <2>1, <2>2
<1>20. LineNaming(part, f, nm)
  BY <1>4, <1>5, <1>10, <1>11, <1>19 DEF LineNaming, Apart
<1> QED BY <1>5, <1>6, <1>10, <1>18, <1>20 DEF LineBase

\* The names of the cells after the line.
NamingAfter(nm, f) ==
    [v \in Vars |-> [c \in Nat |-> IF c = now[v] + 1 /\ f[v][2] # f[v][1] THEN f[v][2] ELSE nm[v][c]]]

\* The cells of the variables after the line.
Moves(f) == now' = [v \in Vars |-> IF f[v][1] = f[v][2] THEN now[v] ELSE now[v] + 1]

LEMMA CellsAfter ==
    ASSUME TypeInv, HistoryOK, NEW part \in Parts, NEW t, NEW f, NEW nm, NEW s, LineBase(part, t, f, nm, s),
           Moves(f), NEW v \in Vars
    PROVE  LET m == NamingAfter(nm, f)
           IN  /\ First(part, v) <= now'[v] /\ now[v] \in Cells(part, now, v)
               /\ now'[v] \in Cells(part, now', v) /\ First(part, v) \in Cells(part, now, v)
               /\ \A c \in Cells(part, now, v) :
                    c \in Nat /\ c <= now[v] /\ c \in Cells(part, now', v) /\ m[v][c] = nm[v][c]
               /\ f[v][2] # f[v][1] => now'[v] = now[v] + 1 /\ m[v][now'[v]] = f[v][2]
               /\ f[v][2] = f[v][1] => now'[v] = now[v]
               /\ \A c \in Cells(part, now', v) :
                    c \in Nat /\ (c \in Cells(part, now, v) \/ (c = now'[v] /\ c = now[v] + 1 /\ f[v][2] # f[v][1]))
<1> DEFINE m == NamingAfter(nm, f)
<1>1. First(part, v) \in Nat /\ now[v] \in Nat /\ First(part, v) <= now[v]
  BY CellsAre DEF LineBase, IsNaming
<1>2. now'[v] = IF f[v][1] = f[v][2] THEN now[v] ELSE now[v] + 1
  BY DEF Moves
<1>3. \A hi, c : c \in Cells(part, hi, v) <=> c \in Int /\ First(part, v) <= c /\ c <= hi[v]
  BY CellsAre
<1>4. \A c \in Nat : m[v][c] = IF c = now[v] + 1 /\ f[v][2] # f[v][1] THEN f[v][2] ELSE nm[v][c]
  BY DEF NamingAfter
<1> HIDE DEF m
<1>5. \A c \in Cells(part, now, v) :
        c \in Nat /\ c <= now[v] /\ c \in Cells(part, now', v) /\ m[v][c] = nm[v][c]
  <2> SUFFICES ASSUME NEW c \in Cells(part, now, v)
               PROVE  c \in Nat /\ c <= now[v] /\ c \in Cells(part, now', v) /\ m[v][c] = nm[v][c]
    OBVIOUS
  <2>1. c \in Nat /\ c <= now[v] /\ First(part, v) <= c
    BY <1>1, <1>3
  <2>2. c <= now'[v] /\ c # now[v] + 1
    BY <1>1, <1>2, <2>1
  <2> QED BY <1>3, <1>4, <2>1, <2>2
<1>6. \A c \in Cells(part, now', v) :
        c \in Nat /\ (c \in Cells(part, now, v) \/ (c = now'[v] /\ c = now[v] + 1 /\ f[v][2] # f[v][1]))
  BY <1>1, <1>2, <1>3
<1>7. now'[v] \in Nat /\ First(part, v) <= now'[v]
  BY <1>1, <1>2
<1>8. now[v] \in Cells(part, now, v) /\ now'[v] \in Cells(part, now', v) /\ First(part, v) \in Cells(part, now, v)
  BY <1>1, <1>3, <1>7
<1>9. f[v][2] # f[v][1] => now'[v] = now[v] + 1 /\ m[v][now'[v]] = f[v][2]
  BY <1>1, <1>2, <1>4
<1> QED BY <1>2, <1>5, <1>6, <1>7, <1>8, <1>9 DEF m

\* s gives names of cells to names of no cell, after the line.
KeysAfter(part, s, m) ==
    \A k \in DOMAIN s : /\ \A c \in Cells(part, now', k.var) : m[k.var][c] # k.n
                        /\ \E c \in Cells(part, now', k.var) : s[k] = Ssa(k.var, m[k.var][c])

LEMMA NamedAfter ==
    ASSUME TypeInv, HistoryOK, NEW part \in Parts, NEW t, NEW f, NEW nm, NEW s, LineBase(part, t, f, nm, s),
           Moves(f)
    PROVE  LET m == NamingAfter(nm, f)
           IN  /\ IsNaming(m, part, now')
               /\ \A v \in Vars :
                    /\ SubName(s, Ssa(v, f[v][1])) = Ssa(v, m[v][now[v]])
                    /\ SubName(s, Ssa(v, f[v][2])) = Ssa(v, m[v][now'[v]])
                    /\ \A c \in Cells(part, now', v) :
                         /\ m[v][c] \in Used(part, v) \cup {f[v][1], f[v][2]}
                         /\ part = "loop" /\ c # First(part, v) => m[v][c] \notin Used("stem", v)
                         /\ part = "loop" /\ c = First(part, v) /\ m[v][c] \in Used("stem", v)
                              => v \in DOMAIN stem.out /\ stem.out[v] = Ssa(v, m[v][c])
               /\ KeysAfter(part, s, m)
<1> DEFINE m == NamingAfter(nm, f)
<1>1. LineNaming(part, f, nm) /\ LineSubstitution(part, f, nm, s) /\ IsNaming(nm, part, now)
  BY DEF LineBase
<1>2. ASSUME NEW v \in Vars
      PROVE  /\ First(part, v) <= now'[v] /\ now[v] \in Cells(part, now, v)
             /\ now'[v] \in Cells(part, now', v) /\ First(part, v) \in Cells(part, now, v)
             /\ \A c \in Cells(part, now, v) :
                  c \in Nat /\ c <= now[v] /\ c \in Cells(part, now', v) /\ m[v][c] = nm[v][c]
             /\ f[v][2] # f[v][1] => now'[v] = now[v] + 1 /\ m[v][now'[v]] = f[v][2]
             /\ f[v][2] = f[v][1] => now'[v] = now[v]
             /\ \A c \in Cells(part, now', v) :
                  c \in Nat /\ (c \in Cells(part, now, v) \/ (c = now'[v] /\ c = now[v] + 1 /\ f[v][2] # f[v][1]))
  BY CellsAfter
<1>3. m \in [Vars -> [Nat -> Nat]]
  <2>1. nm \in [Vars -> [Nat -> Nat]]
    BY <1>1 DEF IsNaming
  <2>2. \A v \in Vars : f[v][2] \in Nat
    BY <1>1 DEF LineNaming
  <2> QED BY <2>1, <2>2 DEF NamingAfter
<1> HIDE DEF m
\* What a line writes has a name that neither the part nor the stem has used.
<1>4. ASSUME NEW v \in Vars, f[v][2] # f[v][1]
      PROVE  /\ f[v][2] \notin Used(part, v) /\ f[v][2] \notin Used("stem", v)
             /\ \A c \in Cells(part, now, v) : m[v][c] # f[v][2]
  <2>1. f[v][2] \in NewIndices(v)
    BY <1>1, <1>4 DEF LineNaming
  <2>2. f[v][2] \notin Used(part, v) /\ f[v][2] \notin Used("stem", v)
    BY <2>1, NewIndex DEF Parts
  <2>3. \A c \in Cells(part, now, v) : nm[v][c] \in Used(part, v) \cup {f[v][1]}
    BY <1>1 DEF LineNaming
  <2> QED BY <1>2, <1>4, <2>2, <2>3
<1>5. IsNaming(m, part, now')
  <2>1. ASSUME NEW v \in Vars, NEW c \in Cells(part, now', v), NEW d \in Cells(part, now', v), m[v][c] = m[v][d]
        PROVE  c = d
    <3>1. CASE c \in Cells(part, now, v) /\ d \in Cells(part, now, v)
      <4>1. nm[v][c] = nm[v][d]
        BY <1>2, <2>1, <3>1
      <4> QED BY <1>1, <3>1, <4>1 DEF IsNaming
    <3>2. CASE ~(c \in Cells(part, now, v) /\ d \in Cells(part, now, v))
      BY <1>2, <1>4, <2>1, <3>2
    <3> QED BY <3>1, <3>2
  <2> QED BY <1>2, <1>3, <2>1 DEF IsNaming
<1>6. ASSUME NEW v \in Vars
      PROVE  /\ SubName(s, Ssa(v, f[v][1])) = Ssa(v, m[v][now[v]])
             /\ SubName(s, Ssa(v, f[v][2])) = Ssa(v, m[v][now'[v]])
  <2>1. SubName(s, Ssa(v, f[v][1])) = Ssa(v, m[v][now[v]])
    <3>1. SubName(s, Ssa(v, f[v][1])) = Ssa(v, nm[v][now[v]])
      BY <1>1 DEF LineSubstitution
    <3>2. m[v][now[v]] = nm[v][now[v]]
      BY <1>2
    <3> QED BY <3>1, <3>2
  <2>2. CASE f[v][2] = f[v][1]
    BY <1>2, <2>1, <2>2
  <2>3. CASE f[v][2] # f[v][1]
    <3>1. Ssa(v, f[v][2]) \notin DOMAIN s
      <4> SUFFICES ASSUME Ssa(v, f[v][2]) \in DOMAIN s PROVE FALSE
        OBVIOUS
      <4>1. f[v][2] \in Used(part, v) \cup {f[v][1]}
        BY <1>1, SsaIs DEF LineSubstitution
      <4> QED BY <1>4, <2>3, <4>1
    <3> QED BY <1>2, <2>1, <2>3, <3>1 DEF SubName
  <2> QED BY <2>2, <2>3, <2>1
<1>7. ASSUME NEW v \in Vars, NEW c \in Cells(part, now', v)
      PROVE  /\ m[v][c] \in Used(part, v) \cup {f[v][1], f[v][2]}
             /\ part = "loop" /\ c # First(part, v) => m[v][c] \notin Used("stem", v)
             /\ part = "loop" /\ c = First(part, v) /\ m[v][c] \in Used("stem", v)
                  => v \in DOMAIN stem.out /\ stem.out[v] = Ssa(v, m[v][c])
  <2>1. CASE c \in Cells(part, now, v)
    <3>1. m[v][c] = nm[v][c]
      BY <1>2, <2>1
    <3> QED BY <1>1, <2>1, <3>1 DEF LineNaming
  <2>2. CASE c = now'[v] /\ f[v][2] # f[v][1]
    <3>1. m[v][c] = f[v][2] /\ f[v][2] \notin Used("stem", v)
      BY <1>2, <1>4, <2>2
    <3> QED BY <3>1
  <2> QED BY <1>2, <2>1, <2>2
<1>8. ASSUME NEW k \in DOMAIN s
      PROVE  /\ \A c \in Cells(part, now', k.var) : m[k.var][c] # k.n
             /\ \E c \in Cells(part, now', k.var) : s[k] = Ssa(k.var, m[k.var][c])
  <2>1. /\ k.var \in Vars /\ k.n \in Used(part, k.var) \cup {f[k.var][1]}
        /\ \A c \in Cells(part, now, k.var) : nm[k.var][c] # k.n
        /\ \E c \in Cells(part, now, k.var) : s[k] = Ssa(k.var, nm[k.var][c])
    BY <1>1 DEF LineSubstitution
  <2>2. ASSUME NEW c \in Cells(part, now', k.var) PROVE m[k.var][c] # k.n
    <3>1. CASE c \in Cells(part, now, k.var)
      BY <1>2, <2>1, <3>1
    <3>2. CASE c = now'[k.var] /\ f[k.var][2] # f[k.var][1]
      BY <1>2, <1>4, <2>1, <3>2
    <3> QED BY <1>2, <2>1, <3>1, <3>2
  <2>3. \E c \in Cells(part, now', k.var) : s[k] = Ssa(k.var, m[k.var][c])
    BY <1>2, <2>1
  <2> QED BY <2>2, <2>3
<1>9. KeysAfter(part, s, m)
  BY <1>8 DEF KeysAfter
<1> QED BY <1>5, <1>6, <1>7, <1>9 DEF m

----------------------------------------------------------------------------
(* The occurrences of a line, under the names of the cells.                *)

CanonicalName(nm, o) == Ssa(o.cell[1], nm[o.cell[1]][o.cell[2]])

LEMMA MentionedIs ==
    ASSUME TypeInv, HistoryOK, NEW part \in Parts, NEW t, NEW f, NEW nm, NEW s, LineBase(part, t, f, nm, s),
           Moves(f), NEW mention, NEW o \in Mentioned(f, mention)
    PROVE  LET m == NamingAfter(nm, f)
               v == o.cell[1]
           IN  /\ v \in Vars /\ o.cell[2] \in Cells(part, now', v)
               /\ \/ o.name = Ssa(v, f[v][1]) /\ o.cell[2] = now[v]
                  \/ o.name = Ssa(v, f[v][2]) /\ o.cell[2] = now'[v]
               /\ SubName(s, o.name) = CanonicalName(m, o)
<1> DEFINE m == NamingAfter(nm, f)
<1>1. PICK v \in Vars : o = OccIn(f, v) \/ (o = OccOut(f, v) /\ f[v][2] # f[v][1])
  BY DEF Mentioned
<1>2. /\ now[v] \in Cells(part, now', v) /\ now'[v] \in Cells(part, now', v)
      /\ f[v][2] # f[v][1] => now'[v] = now[v] + 1
  BY CellsAfter
<1>3. /\ SubName(s, Ssa(v, f[v][1])) = Ssa(v, m[v][now[v]])
      /\ SubName(s, Ssa(v, f[v][2])) = Ssa(v, m[v][now'[v]])
  BY NamedAfter
<1> HIDE DEF m
<1>4. CASE o = OccIn(f, v)
  <2>1. o.name = Ssa(v, f[v][1]) /\ o.cell[1] = v /\ o.cell[2] = now[v]
    BY <1>4 DEF OccIn
  <2> QED BY <1>2, <1>3, <2>1 DEF CanonicalName, m
<1>5. CASE o = OccOut(f, v) /\ f[v][2] # f[v][1]
  <2>1. o.name = Ssa(v, f[v][2]) /\ o.cell[1] = v /\ o.cell[2] = now'[v]
    BY <1>2, <1>5 DEF OccOut
  <2> QED BY <1>2, <1>3, <2>1 DEF CanonicalName, m
<1> QED BY <1>1, <1>4, <1>5

\* The same occurrences under the names of their cells.
Renames(s, f, m) ==
    \A v \in Vars : /\ SubName(s, Ssa(v, f[v][1])) = Ssa(v, m[v][now[v]])
                    /\ SubName(s, Ssa(v, f[v][2])) = Ssa(v, m[v][now'[v]])

CanonicalOcc(m, o) == [o EXCEPT !.name = CanonicalName(m, o)]

LEMMA CanonicalOccIs ==
    ASSUME NEW m, NEW o \in Occurrences
    PROVE  CanonicalOcc(m, o).name = CanonicalName(m, o) /\ CanonicalOcc(m, o).cell = o.cell
BY DEF CanonicalOcc, Occurrences

LEMMA MentionedRenamed ==
    ASSUME TypeInv, HistoryOK, NEW part \in Parts, NEW t, NEW f, NEW nm, NEW s, LineBase(part, t, f, nm, s),
           Moves(f), NEW mention, NEW o \in Mentioned(f, mention),
           NEW z, Renames(z, f, NamingAfter(nm, f))
    PROVE  SubName(z, o.name) = CanonicalName(NamingAfter(nm, f), o)
<1>1. /\ o.cell[1] \in Vars
      /\ \/ o.name = Ssa(o.cell[1], f[o.cell[1]][1]) /\ o.cell[2] = now[o.cell[1]]
         \/ o.name = Ssa(o.cell[1], f[o.cell[1]][2]) /\ o.cell[2] = now'[o.cell[1]]
  BY MentionedIs
<1> QED BY <1>1 DEF Renames, CanonicalName

LEMMA MentionedType ==
    ASSUME TypeInv, NEW f \in SomeNaming, NEW mention
    PROVE  Mentioned(f, mention) \subseteq Occurrences
<1> SUFFICES ASSUME NEW o \in Mentioned(f, mention) PROVE o \in Occurrences
  OBVIOUS
<1>1. PICK v \in Vars : o = OccIn(f, v) \/ o = OccOut(f, v)
  BY DEF Mentioned
<1>2. now[v] \in Nat /\ now[v] + 1 \in Nat
  BY DEF TypeInv
<1>3. f[v][1] \in 0..MaxName /\ f[v][2] \in 0..MaxName
  BY DEF SomeNaming
<1>4. PICK n \in 0..MaxName, c \in Nat : o = [name |-> Ssa(v, n), cell |-> <<v, c>>]
  BY <1>1, <1>2, <1>3 DEF OccIn, OccOut
<1>5. Ssa(v, n) \in AnyName /\ Ssa(v, n).var = v
  BY SsaType DEF Ssa
<1> QED BY <1>4, <1>5 DEF Occurrences

\* The code's substitution in a formula is the one the entries say.
LEMMA InOrder ==
    ASSUME TypeInv, HistoryOK, NEW part \in Parts, NEW t, NEW f, NEW nm, NEW s, LineBase(part, t, f, nm, s),
           IsSubstitution(s), NEW name
    PROVE  SubInOrder(s, name) = SubName(s, name)
<1>1. LineSubstitution(part, f, nm, s)
  BY DEF LineBase
<1>2. ASSUME NEW k \in DOMAIN s PROVE k.tag = "ssa" /\ k.n \in 0..MaxName /\ s[k] \notin DOMAIN s
  <2>1. k = Ssa(k.var, k.n) /\ k \in AnyName
    BY <1>1 DEF LineSubstitution, IsSubstitution
  <2>2. k.tag = "ssa" /\ k.n \in 0..MaxName
    BY <2>1 DEF Ssa, AnyName
  <2>3. PICK c \in Cells(part, now, k.var) : s[k] = Ssa(k.var, nm[k.var][c])
    BY <1>1 DEF LineSubstitution
  <2>4. s[k].var = k.var /\ s[k].n = nm[k.var][c]
    BY <2>3, SsaIs
  <2>5. s[k] \in DOMAIN s => nm[k.var][c] # nm[k.var][c]
    BY <1>1, <2>4 DEF LineSubstitution
  <2> QED BY <2>2, <2>5
<1> QED BY <1>2, SubInOrderIsSubName

LEMMA RawAfter ==
    ASSUME TypeInv, HistoryOK, NEW part \in Parts, NEW t, IsTransition(t),
           NEW text, NEW f, NEW mention, NEW d, NEW fails, Reads(part, text, f, mention, d, fails),
           NEW nm, LineBase(part, t, f, nm, raw_subst')
    PROVE  LET u == AddLine(t, parseTransition(text, fails), raw_subst')
               m == NamingAfter(nm, f)
           IN  /\ RawOcc(u) = RawOcc(t) \cup {CanonicalOcc(m, o) : o \in Mentioned(f, mention)}
               /\ Canonical(RawOcc(u), part, now', m)
<1> DEFINE line == parseTransition(text, fails)
           s == raw_subst'
           m == NamingAfter(nm, f)
           sf == substituteInFormula(s, line.formula)
<1>1. /\ text = Line(part, f, mention, d) /\ IsLine(text) /\ IsLine(line) /\ f \in SomeNaming
      /\ s = ExtendRawSubst(raw_subst, prev_out, line.in) /\ Moves(f)
  BY DEF Reads, Moves
<1>2. IsSubstitution(s)
  BY <1>1, ExtendType DEF TypeInv, IsLine
<1>3. line.formula \in Atoms /\ line.formula.occ = Mentioned(f, mention)
  <2>1. line.formula = text.formula
    BY <1>1, ParseIs
  <2>2. text.formula.occ = Mentioned(f, mention)
    BY <1>1, LineFields
  <2>3. text.formula \in Atoms
    BY <1>1 DEF IsLine
  <2> QED BY <2>1, <2>2, <2>3
<1> HIDE DEF line
<1>4. sf.occ = {[o EXCEPT !.name = SubInOrder(s, o.name)] : o \in Mentioned(f, mention)}
  BY <1>2, <1>3, FormulaType
<1> HIDE DEF s
<1>5. ASSUME NEW o \in Mentioned(f, mention)
      PROVE  [o EXCEPT !.name = SubInOrder(s, o.name)] = CanonicalOcc(m, o)
  <2>1. SubInOrder(s, o.name) = CanonicalName(m, o)
    BY <1>1, <1>2, InOrder, MentionedIs DEF s
  <2> HIDE DEF m
  <2> QED BY <2>1 DEF CanonicalOcc
<1> HIDE DEF m, sf
<1>6. sf.occ = {CanonicalOcc(m, o) : o \in Mentioned(f, mention)}
  BY <1>4, <1>5
<1> DEFINE u == AddLine(t, line, s)
<1>7. u.raw = t.raw \cup {sf}
  BY <1>1, <1>2, AddLineIs DEF sf
<1> HIDE DEF u
<1>8. RawOcc(u) = RawOcc(t) \cup sf.occ
  BY <1>7 DEF RawOcc
<1>9. ASSUME NEW o \in RawOcc(u)
      PROVE  /\ o.cell[2] \in Cells(part, now', o.cell[1])
             /\ o.name = Ssa(o.cell[1], m[o.cell[1]][o.cell[2]])
  <2>1. CASE o \in RawOcc(t)
    <3>1. /\ o.cell[2] \in Cells(part, now, o.cell[1])
          /\ o.name = Ssa(o.cell[1], nm[o.cell[1]][o.cell[2]])
      BY <2>1 DEF LineBase, Canonical
    <3>2. o.cell[1] \in Vars
      BY <2>1, OccsType, OccurrenceName
    <3>3. o.cell[2] \in Cells(part, now', o.cell[1]) /\ m[o.cell[1]][o.cell[2]] = nm[o.cell[1]][o.cell[2]]
      BY <1>1, <3>1, <3>2, CellsAfter DEF m
    <3> QED BY <3>1, <3>3
  <2>2. CASE o \in sf.occ
    <3>1. PICK b \in Mentioned(f, mention) : o = CanonicalOcc(m, b)
      BY <1>6, <2>2
    <3>2. b \in Occurrences
      BY <1>1, MentionedType
    <3>3. o.name = CanonicalName(m, b) /\ o.cell = b.cell
      BY <3>1, <3>2, CanonicalOccIs
    <3>4. b.cell[2] \in Cells(part, now', b.cell[1])
      BY <1>1, MentionedIs
    <3> QED BY <3>3, <3>4 DEF CanonicalName
  <2> QED BY <1>8, <2>1, <2>2
<1>10. Canonical(RawOcc(u), part, now', m)
  BY <1>9 DEF Canonical
<1> QED BY <1>6, <1>8, <1>10 DEF u, m, s, line

----------------------------------------------------------------------------
(* The transition after a line.                                            *)

Pairs(p) == {<<a.line, a.disjunct>> : a \in p}

LEMMA TakenIs ==
    ASSUME NEW t
    PROVE  Taken(t) = {Pairs(p) : p \in t.polyhedra}
BY DEF Taken, Pairs

LEMMA ChoicesAfter ==
    ASSUME HistoryOK, NEW part, NEW text, NEW f, NEW mention, NEW d, NEW fails,
           Reads(part, text, f, mention, d, fails)
    PROVE  choices'[part] = {c \cup Pairs(p) : c \in choices[part], p \in text.dnf}
<1> DEFINE new == {c \cup {<<a.line, a.disjunct>> : a \in p} : c \in choices[part], p \in text.dnf}
<1>1. choices' = [choices EXCEPT ![part] = new] /\ part \in Parts
  BY DEF Reads
<1>2. new = {c \cup Pairs(p) : c \in choices[part], p \in text.dnf}
  BY DEF Pairs
<1> HIDE DEF new
<1> QED BY <1>1, <1>2 DEF HistoryOK

LEMMA PolyOccIs ==
    ASSUME NEW t, NEW o
    PROVE  o \in PolyOcc(t) <=> \E p \in t.polyhedra : \E a \in p : o \in a.occ
BY DEF PolyOcc

\* What the line's polyhedra are, one per disjunct, and not empty.
LEMMA DnfIs ==
    ASSUME PlainTraces, TypeInv, Linearize,
           NEW part, NEW text, NEW f, NEW mention, NEW d, NEW fails, Reads(part, text, f, mention, d, fails)
    PROVE  LET l == LineAlone(parseTransition(text, fails))
           IN  /\ l.polyhedra = text.dnf /\ ~isTrue(l) /\ {} \notin text.dnf
               /\ text.dnf \in SUBSET SUBSET Atoms
               /\ \A p \in text.dnf : \A a \in p : a \in Atoms /\ a.occ = Mentioned(f, mention)
<1> DEFINE line == parseTransition(text, fails)
<1>1. /\ IsLine(text) /\ text = Line(part, f, mention, d) /\ d \in Nat \ {0} /\ ~fails
  BY DEF Reads, PlainTraces, TypeInv
<1>2. line.dnf = text.dnf
  BY <1>1, ParseIs
<1>3. \A p : p \in text.dnf <=> \E k \in 1..d : p = {LineAtom(part, k, f, mention)}
  BY <1>1, LineFields
<1>4. text.dnf # {} /\ {} \notin text.dnf
  <2>1. 1 \in 1..d
    BY <1>1
  <2>2. {LineAtom(part, 1, f, mention)} \in text.dnf
    BY <1>3, <2>1
  <2>3. \A p \in text.dnf : p # {}
    BY <1>3
  <2> QED BY <2>2, <2>3
<1>5. text.dnf \in SUBSET SUBSET Atoms
  BY <1>1 DEF IsLine
<1>6. \A p \in text.dnf : \A a \in p : a \in Atoms /\ a.occ = Mentioned(f, mention)
  <2>1. \A k : LineAtom(part, k, f, mention).occ = Mentioned(f, mention)
    BY DEF LineAtom
  <2> QED BY <1>3, <1>5, <2>1
<1> HIDE DEF line
<1>7. LineAlone(line).polyhedra = text.dnf
  BY <1>2, <1>4 DEF LineAlone
<1> QED BY <1>4, <1>5, <1>6, <1>7 DEF isTrue, line

\* u is the composition of the lines, after a line.
ComposedAfter(u, part, m) ==
    /\ DOMAIN u.in = Vars /\ DOMAIN u.out = Vars
    /\ \A v \in Vars : u.in[v] = Ssa(v, m[v][First(part, v)]) /\ u.out[v] = Ssa(v, m[v][now'[v]])
    /\ PolyOcc(u) \subseteq RawOcc(u)
    /\ {} \notin u.polyhedra /\ Taken(u) = choices'[part]

LEMMA FirstComposed ==
    ASSUME PlainTraces, TypeInv, HistoryOK, Linearize, lines = 0,
           NEW part, NEW t, IsTransition(t), Unread(t, part),
           NEW text, NEW f, NEW mention, NEW d, NEW fails, Reads(part, text, f, mention, d, fails),
           \A v \in Vars : f[v][1] # 0 /\ f[v][2] # 0,
           NEW nm, LineBase(part, t, f, nm, raw_subst'), DOMAIN raw_subst' = {},
           \A v \in Vars : nm[v][First(part, v)] = f[v][1]
    PROVE  ComposedAfter(AddLine(t, parseTransition(text, fails), raw_subst'), part, NamingAfter(nm, f))
<1> DEFINE line == parseTransition(text, fails)
           s == raw_subst'
           m == NamingAfter(nm, f)
           u == AddLine(t, line, s)
<1>1. /\ part \in Parts /\ f \in SomeNaming /\ IsLine(line) /\ Moves(f)
      /\ s = ExtendRawSubst(raw_subst, prev_out, line.in)
  BY DEF Reads, Moves
<1>2. IsSubstitution(s)
  BY <1>1, ExtendType DEF TypeInv, IsLine
<1>3. u.in = line.in /\ u.out = line.out /\ u.polyhedra = LineAlone(line).polyhedra
  <2>1. LineAlone(line).in = line.in /\ LineAlone(line).out = line.out
    BY DEF LineAlone
  <2> HIDE DEF line, s
  <2> QED BY <1>1, <1>2, <2>1, AddLineIs
<1>4. /\ DOMAIN line.in = Vars /\ DOMAIN line.out = Vars
      /\ \A v \in Vars : line.in[v] = Ssa(v, f[v][1]) /\ line.out[v] = Ssa(v, f[v][2])
  BY LineMaps
<1>5. /\ LineAlone(line).polyhedra = text.dnf /\ {} \notin text.dnf
      /\ \A p \in text.dnf : \A a \in p : a.occ = Mentioned(f, mention)
  BY DnfIs
<1>6. RawOcc(u) = RawOcc(t) \cup {CanonicalOcc(m, o) : o \in Mentioned(f, mention)}
  BY <1>1, RawAfter
<1> HIDE DEF u, line
<1>7. ASSUME NEW name PROVE SubName(s, name) = name
  BY DEF SubName
<1>8. Renames(s, f, m)
  BY <1>1, NamedAfter DEF Renames
<1>9. ASSUME NEW v \in Vars
      PROVE  u.in[v] = Ssa(v, m[v][First(part, v)]) /\ u.out[v] = Ssa(v, m[v][now'[v]])
  <2>1. m[v][First(part, v)] = nm[v][First(part, v)]
    BY <1>1, CellsAfter
  <2>2. Ssa(v, f[v][2]) = Ssa(v, m[v][now'[v]])
    BY <1>7, <1>8 DEF Renames
  <2> QED BY <1>3, <1>4, <2>1, <2>2
<1>10. ASSUME NEW o \in Mentioned(f, mention) PROVE o = CanonicalOcc(m, o)
  <2>1. o.name = CanonicalName(m, o)
    BY <1>1, <1>7, MentionedIs
  <2>2. o \in Occurrences
    BY <1>1, MentionedType
  <2>3. o = [name |-> o.name, cell |-> o.cell]
    BY <2>2 DEF Occurrences
  <2> HIDE DEF m
  <2> QED BY <2>1, <2>3 DEF CanonicalOcc
<1>11. PolyOcc(u) \subseteq RawOcc(u)
  BY <1>3, <1>5, <1>6, <1>10, PolyOccIs
<1>12. Taken(u) = choices'[part]
  <2>1. choices[part] = {{}}
    BY DEF Unread
  <2>2. choices'[part] = {c \cup Pairs(p) : c \in choices[part], p \in text.dnf}
    BY ChoicesAfter
  <2>3. choices'[part] = {Pairs(p) : p \in text.dnf}
    BY <2>1, <2>2
  <2>4. Taken(u) = {Pairs(p) : p \in text.dnf}
    BY <1>3, <1>5, TakenIs
  <2> QED BY <2>3, <2>4
<1> HIDE DEF m
<1> QED BY <1>3, <1>4, <1>5, <1>9, <1>11, <1>12 DEF ComposedAfter, u, line, m, s

\* A polyhedron under other names has the same disjuncts.
SubSet(s, p) == {SubAtom(s, a) : a \in p}

LEMMA SubSetIs ==
    ASSUME NEW s, IsSubstitution(s), NEW p \in SUBSET Atoms
    PROVE  /\ Pairs(SubSet(s, p)) = Pairs(p)
           /\ SubSet(s, p) = {} <=> p = {}
           /\ \A b \in SubSet(s, p) : \E a \in p : b = SubAtom(s, a)
           /\ \A a \in p : SubAtom(s, a) \in SubSet(s, p)
<1>1. \A a \in p : SubAtom(s, a).line = a.line /\ SubAtom(s, a).disjunct = a.disjunct
  BY SubAtomType
<1>2. \A x : x \in Pairs(SubSet(s, p)) <=> \E a \in p : x = <<SubAtom(s, a).line, SubAtom(s, a).disjunct>>
  BY DEF Pairs, SubSet
<1>3. \A x : x \in Pairs(p) <=> \E a \in p : x = <<a.line, a.disjunct>>
  BY DEF Pairs
<1>4. \A x : x \in Pairs(SubSet(s, p)) <=> x \in Pairs(p)
  BY <1>1, <1>2, <1>3
<1>5. Pairs(SubSet(s, p)) = Pairs(p)
  BY <1>4
<1> QED BY <1>5 DEF SubSet

LEMMA SubPolyhedraIs ==
    ASSUME NEW s, NEW ps, NEW q
    PROVE  q \in SubPolyhedra(s, ps) <=> \E p \in ps : q = SubSet(s, p)
BY DEF SubPolyhedra, SubSet

LEMMA PairsUnion ==
    ASSUME NEW p, NEW q
    PROVE  Pairs(p \cup q) = Pairs(p) \cup Pairs(q)
BY DEF Pairs

\* The disjuncts of the polyhedra under other names.
LEMMA SubTaken ==
    ASSUME NEW s, IsSubstitution(s), NEW t, IsTransition(t), NEW u, u.polyhedra = SubPolyhedra(s, t.polyhedra)
    PROVE  /\ Taken(u) = Taken(t)
           /\ {} \in u.polyhedra <=> {} \in t.polyhedra
<1>1. \A p \in t.polyhedra : p \in SUBSET Atoms
  BY DEF IsTransition
<1>2. \A p \in t.polyhedra : Pairs(SubSet(s, p)) = Pairs(p) /\ (SubSet(s, p) = {} <=> p = {})
  BY <1>1, SubSetIs
<1>3. \A q : q \in u.polyhedra <=> \E p \in t.polyhedra : q = SubSet(s, p)
  BY SubPolyhedraIs
<1>4. \A x : x \in Taken(u) <=> \E q \in u.polyhedra : x = Pairs(q)
  BY TakenIs
<1>5. \A x : x \in Taken(t) <=> \E q \in t.polyhedra : x = Pairs(q)
  BY TakenIs
<1>6. \A x : x \in Taken(u) <=> x \in Taken(t)
  BY <1>2, <1>3, <1>4, <1>5
<1>7. Taken(u) = Taken(t)
  BY <1>6
<1>8. {} \in u.polyhedra <=> {} \in t.polyhedra
  BY <1>2, <1>3
<1> QED BY <1>7, <1>8

\* The occurrences of the polyhedra under other names.
LEMMA SubPolyOcc ==
    ASSUME NEW s, IsSubstitution(s), NEW ps \in SUBSET SUBSET Atoms, NEW q \in SubPolyhedra(s, ps),
           NEW b \in q, NEW o \in b.occ
    PROVE  \E p \in ps : \E a \in p : \E x \in a.occ : o = [x EXCEPT !.name = SubName(s, x.name)]
<1>1. PICK p \in ps : q = SubSet(s, p)
  BY SubPolyhedraIs
<1>2. PICK a \in p : b = SubAtom(s, a)
  BY <1>1 DEF SubSet
<1>3. a \in Atoms
  OBVIOUS
<1>4. b.occ = {[x EXCEPT !.name = SubName(s, x.name)] : x \in a.occ}
  BY <1>2, <1>3, SubAtomType
<1>5. PICK x \in a.occ : o = [x EXCEPT !.name = SubName(s, x.name)]
  BY <1>4
<1> QED BY <1>5

LEMMA NextComposed ==
    ASSUME PlainTraces, TypeInv, HistoryOK, Linearize, lines # 0,
           NEW part, NEW t, IsTransition(t),
           NEW text, NEW f, NEW mention, NEW d, NEW fails, Reads(part, text, f, mention, d, fails),
           \A v \in Vars : f[v][1] # 0 /\ f[v][2] # 0,
           NEW nm, LineBase(part, t, f, nm, raw_subst'), Named(t, part, now, nm)
    PROVE  ComposedAfter(AddLine(t, parseTransition(text, fails), raw_subst'), part, NamingAfter(nm, f))
<1> DEFINE line == parseTransition(text, fails)
           s == raw_subst'
           m == NamingAfter(nm, f)
           u == AddLine(t, line, s)
           P == Pairing(line.in, t.out, Vars)
<1>1. /\ part \in Parts /\ f \in SomeNaming /\ IsLine(line) /\ Moves(f)
      /\ s = ExtendRawSubst(raw_subst, prev_out, line.in)
  BY DEF Reads, Moves
<1>2. IsSubstitution(s)
  BY <1>1, ExtendType DEF TypeInv, IsLine
<1>3. /\ LineAlone(line).polyhedra = text.dnf /\ {} \notin text.dnf /\ ~isTrue(LineAlone(line))
      /\ text.dnf \in SUBSET SUBSET Atoms
      /\ \A p \in text.dnf : \A a \in p : a \in Atoms /\ a.occ = Mentioned(f, mention)
  BY DnfIs
<1>4. /\ DOMAIN line.in = Vars /\ DOMAIN line.out = Vars
      /\ \A v \in Vars : line.in[v] = Ssa(v, f[v][1]) /\ line.out[v] = Ssa(v, f[v][2])
  BY LineMaps
<1>5. /\ \A v \in Vars : t.in[v] = Ssa(v, nm[v][First(part, v)]) /\ t.out[v] = Ssa(v, nm[v][now[v]])
      /\ PolyOcc(t) \subseteq RawOcc(t) /\ {} \notin t.polyhedra /\ Taken(t) = choices[part]
      /\ DOMAIN t.in = Vars /\ DOMAIN t.out = Vars
  BY DEF Named, Composed
<1>6. ~isTrue(t)
  BY <1>5 DEF isTrue
<1>7. RawOcc(u) = RawOcc(t) \cup {CanonicalOcc(m, o) : o \in Mentioned(f, mention)}
  BY <1>1, RawAfter
<1>8. u.in = t.in /\ u.out = SubMap(P, line.out)
      /\ \A r : r \in u.polyhedra <=> \E p \in t.polyhedra, q \in SubPolyhedra(P, text.dnf) : r = p \cup q
  <2>1. LineAlone(line).in = line.in /\ LineAlone(line).out = line.out
    BY DEF LineAlone
  <2> DEFINE l == LineAlone(line)
             c == compose(t, l)
  <2>2. u.in = c.in /\ u.out = c.out /\ u.polyhedra = c.polyhedra
    <3> HIDE DEF line, s
    <3> QED BY <1>1, <1>2, AddLineIs
  <2> DEFINE Q == Pairing(l.in, t.out, DOMAIN t.out \cap DOMAIN l.in)
  <2>3. IsComposition(c, t, l, Q)
    <3>1. ~isTrue(l)
      BY <1>3
    <3> HIDE DEF l
    <3> QED BY <1>6, <3>1, ComposeIs
  <2>4. Q = P
    BY <1>4, <1>5, <2>1
  <2> HIDE DEF c, Q, P, u
  <2> QED BY <1>3, <2>1, <2>2, <2>3, <2>4 DEF IsComposition
<1>9. /\ IsSubstitution(P)
      /\ \A name \in DOMAIN P : name.var \in Vars /\ line.in[name.var] = name /\ P[name] = t.out[name.var]
      /\ \A v \in Vars : line.in[v] \in DOMAIN P /\ P[line.in[v]] = t.out[v]
  <2>1. NameMap(line.in) /\ NameMap(t.out)
    BY <1>1 DEF IsLine, IsTransition
  <2>2. Vars \subseteq DOMAIN line.in \cap DOMAIN t.out
    BY <1>4, <1>5
  <2> HIDE DEF line
  <2> QED BY <2>1, <2>2, PairingIs
<1> HIDE DEF u, line, P, s
<1>10. Renames(P, f, m)
  <2> SUFFICES ASSUME NEW v \in Vars
               PROVE  /\ SubName(P, Ssa(v, f[v][1])) = Ssa(v, m[v][now[v]])
                      /\ SubName(P, Ssa(v, f[v][2])) = Ssa(v, m[v][now'[v]])
    BY DEF Renames
  <2>1. /\ now[v] \in Cells(part, now, v) /\ m[v][now[v]] = nm[v][now[v]]
        /\ f[v][2] # f[v][1] => now'[v] = now[v] + 1 /\ m[v][now'[v]] = f[v][2]
        /\ f[v][2] = f[v][1] => now'[v] = now[v]
    <3> HIDE DEF m
    <3> QED BY <1>1, CellsAfter DEF m
  <2> HIDE DEF m
  <2>2. SubName(P, Ssa(v, f[v][1])) = Ssa(v, m[v][now[v]])
    BY <1>4, <1>5, <1>9, <2>1 DEF SubName
  <2>3. CASE f[v][2] = f[v][1]
    BY <2>1, <2>2, <2>3
  <2>4. CASE f[v][2] # f[v][1]
    <3>1. Ssa(v, f[v][2]) \notin DOMAIN P
      BY <1>4, <1>9, <2>4, SsaIs
    <3>2. SubName(P, Ssa(v, f[v][2])) = Ssa(v, f[v][2])
      BY <3>1 DEF SubName
    <3> QED BY <2>1, <2>2, <2>4, <3>2
  <2> QED BY <2>2, <2>3, <2>4
<1> HIDE DEF m
<1>11. ASSUME NEW v \in Vars
       PROVE  u.in[v] = Ssa(v, m[v][First(part, v)]) /\ u.out[v] = Ssa(v, m[v][now'[v]])
  <2>1. m[v][First(part, v)] = nm[v][First(part, v)]
    BY <1>1, CellsAfter DEF m
  <2>2. u.out[v] = SubName(P, line.out[v])
    BY <1>4, <1>8 DEF SubMap
  <2> QED BY <1>4, <1>5, <1>8, <1>10, <2>1, <2>2 DEF Renames
<1>12. DOMAIN u.in = Vars /\ DOMAIN u.out = Vars
  BY <1>4, <1>5, <1>8 DEF SubMap
<1>13. ASSUME NEW o \in PolyOcc(u) PROVE o \in RawOcc(u)
  <2>1. PICK r \in u.polyhedra : \E a \in r : o \in a.occ
    BY PolyOccIs
  <2>2. PICK a \in r : o \in a.occ
    BY <2>1
  <2>3. PICK p \in t.polyhedra, q \in SubPolyhedra(P, text.dnf) : r = p \cup q
    BY <1>8
  <2>4. CASE a \in p
    <3>1. o \in PolyOcc(t)
      BY <2>2, <2>4, PolyOccIs
    <3> QED BY <1>5, <1>7, <3>1
  <2>5. CASE a \in q
    <3>1. PICK p1 \in text.dnf : \E a1 \in p1 : \E x \in a1.occ : o = [x EXCEPT !.name = SubName(P, x.name)]
      BY <1>3, <1>9, <2>2, <2>5, SubPolyOcc
    <3>2. PICK a1 \in p1 : \E x \in a1.occ : o = [x EXCEPT !.name = SubName(P, x.name)]
      BY <3>1
    <3>3. PICK x \in Mentioned(f, mention) : o = [x EXCEPT !.name = SubName(P, x.name)]
      BY <1>3, <3>2
    <3>4. SubName(P, x.name) = CanonicalName(m, x)
      BY <1>1, <1>10, MentionedRenamed DEF m, s
    <3>5. o = CanonicalOcc(m, x)
      BY <3>3, <3>4 DEF CanonicalOcc
    <3> QED BY <1>7, <3>5
  <2> QED BY <2>2, <2>3, <2>4, <2>5
<1>14. {} \notin u.polyhedra
  <2>1. ASSUME NEW p \in t.polyhedra, NEW q PROVE p \cup q # {}
    <3>1. PICK x : x \in p
      BY <1>5
    <3> QED BY <3>1
  <2> QED BY <1>8, <2>1
<1>15. Taken(u) = choices'[part]
  <2>1. choices'[part] = {c \cup Pairs(q) : c \in choices[part], q \in text.dnf}
    BY ChoicesAfter
  <2>2. \A x : x \in choices'[part] <=> \E p \in t.polyhedra, q \in text.dnf : x = Pairs(p) \cup Pairs(q)
    <3>1. \A c : c \in choices[part] <=> \E p \in t.polyhedra : c = Pairs(p)
      BY <1>5, TakenIs
    <3> QED BY <2>1, <3>1
  <2>3. \A x : x \in Taken(u) <=> \E r \in u.polyhedra : x = Pairs(r)
    BY TakenIs
  <2>4. \A r : r \in u.polyhedra <=> \E p \in t.polyhedra, q \in text.dnf : r = p \cup SubSet(P, q)
    <3>1. \A r : r \in u.polyhedra <=> \E p \in t.polyhedra, y \in SubPolyhedra(P, text.dnf) : r = p \cup y
      BY <1>8
    <3>2. \A y : y \in SubPolyhedra(P, text.dnf) <=> \E q \in text.dnf : y = SubSet(P, q)
      BY SubPolyhedraIs
    <3> QED BY <3>1, <3>2
  <2>5. \A q \in text.dnf : Pairs(SubSet(P, q)) = Pairs(q)
    BY <1>3, <1>9, SubSetIs
  <2>6. \A p \in t.polyhedra, q \in text.dnf : Pairs(p \cup SubSet(P, q)) = Pairs(p) \cup Pairs(q)
    BY <2>5, PairsUnion
  <2>7. ASSUME NEW x \in Taken(u) PROVE x \in choices'[part]
    <3>1. PICK r \in u.polyhedra : x = Pairs(r)
      BY <2>3
    <3>2. PICK p \in t.polyhedra, q \in text.dnf : r = p \cup SubSet(P, q)
      BY <2>4
    <3>3. x = Pairs(p) \cup Pairs(q)
      BY <2>6, <3>1, <3>2
    <3> QED BY <2>2, <3>3
  <2>8. ASSUME NEW x \in choices'[part] PROVE x \in Taken(u)
    <3>1. PICK p \in t.polyhedra, q \in text.dnf : x = Pairs(p) \cup Pairs(q)
      BY <2>2
    <3>2. p \cup SubSet(P, q) \in u.polyhedra
      BY <2>4
    <3>3. x = Pairs(p \cup SubSet(P, q))
      BY <2>6, <3>1
    <3> QED BY <2>3, <3>2, <3>3
  <2> QED BY <2>7, <2>8
<1> QED BY <1>11, <1>12, <1>13, <1>14, <1>15 DEF ComposedAfter, u, line, m, s

\* Without polyhedra, the maps of the line are what remains.
LEMMA LastLineAfter ==
    ASSUME PlainTraces, TypeInv, HistoryOK, ~Linearize,
           NEW part, NEW t, IsTransition(t), isTrue(t),
           NEW text, NEW f, NEW mention, NEW d, NEW fails, Reads(part, text, f, mention, d, fails),
           \A v \in Vars : f[v][1] # 0 /\ f[v][2] # 0,
           NEW nm, LineBase(part, t, f, nm, raw_subst'), NEW m, m = NamingAfter(nm, f),
           NEW u, u = AddLine(t, parseTransition(text, fails), raw_subst')
    PROVE  DOMAIN u.in = Vars /\ DOMAIN u.out = Vars /\ LastLine(u, part, now, m)'
<1> DEFINE line == parseTransition(text, fails)
           s == raw_subst'
           l == LineAlone(line)
<1>1. /\ part \in Parts /\ f \in SomeNaming /\ IsLine(line) /\ Moves(f) /\ IsLine(text)
      /\ s = ExtendRawSubst(raw_subst, prev_out, line.in)
      /\ edges' = [edges EXCEPT ![part] = [v \in Vars |-> edges[part][v] \cup {f[v]}]]
      /\ spans' = spans
  BY DEF Reads, Moves
<1>0. u = AddLine(t, line, s)
  OBVIOUS
<1>2. IsSubstitution(s)
  BY <1>1, ExtendType DEF TypeInv, IsLine
<1>3. l.in = line.in /\ l.out = line.out /\ isTrue(l)
  <2>1. line.dnf = {}
    BY <1>1, ParseIs
  <2> HIDE DEF line
  <2> QED BY <2>1 DEF LineAlone, isTrue
<1>4. u.in = line.in /\ u.out = line.out /\ isTrue(u)
  <2> DEFINE c == IF lines = 0 THEN l ELSE compose(t, l)
  <2>1. u.in = c.in /\ u.out = c.out /\ u.polyhedra = c.polyhedra
    <3> HIDE DEF line, s
    <3> QED BY <1>0, <1>1, <1>2, AddLineIs
  <2>2. compose(t, l) = l
    <3> HIDE DEF l
    <3> QED BY DEF compose
  <2>3. c = l
    <3> HIDE DEF l
    <3> QED BY <2>2
  <2> HIDE DEF c, l
  <2> QED BY <1>3, <2>1, <2>3 DEF isTrue
<1>5. /\ DOMAIN line.in = Vars /\ DOMAIN line.out = Vars
      /\ \A v \in Vars : line.in[v] = Ssa(v, f[v][1]) /\ line.out[v] = Ssa(v, f[v][2])
  BY LineMaps
<1>6. LineNaming(part, f, nm)
  BY DEF LineBase
<1> HIDE DEF l, line, s
<1>8. ASSUME NEW v \in Vars
      PROVE  /\ u.in[v] = Ssa(v, u.in[v].n) /\ u.in[v].n \in Used(part, v)'
             /\ u.out[v] = Ssa(v, u.out[v].n) /\ u.out[v].n \in Used(part, v)'
             /\ u.out[v] # u.in[v] => u.out[v].n = m[v][now'[v]] /\ First(part, v)' < now'[v]
             /\ u.out[v] = u.in[v] => \/ u.out[v].n = m[v][now'[v]]
                                      \/ \A c \in Cells(part, now, v)' : u.out[v].n # m[v][c]
             /\ part = "loop" /\ u.in[v].n \in Used("stem", v)' => u.in[v].n = m[v][First(part, v)']
  <2>1. /\ First(part, v) <= now'[v] /\ now[v] \in Cells(part, now, v)
        /\ First(part, v) \in Cells(part, now, v)
        /\ \A c \in Cells(part, now, v) :
             c \in Nat /\ c <= now[v] /\ c \in Cells(part, now', v) /\ m[v][c] = nm[v][c]
        /\ f[v][2] # f[v][1] => now'[v] = now[v] + 1 /\ m[v][now'[v]] = f[v][2]
        /\ f[v][2] = f[v][1] => now'[v] = now[v]
        /\ \A c \in Cells(part, now', v) :
             c \in Nat /\ (c \in Cells(part, now, v) \/ (c = now'[v] /\ c = now[v] + 1 /\ f[v][2] # f[v][1]))
    BY <1>1, CellsAfter
  <2>2. First(part, v)' = First(part, v) /\ Cells(part, now, v)' = Cells(part, now', v)
    BY <1>1 DEF First, Cells
  <2>3. /\ Used(part, v)' = Used(part, v) \cup {f[v][1], f[v][2]}
        /\ part = "loop" => Used("stem", v)' = Used("stem", v)
    BY <1>1, UsedNow DEF Parts
  <2>4. /\ u.in[v] = Ssa(v, f[v][1]) /\ u.in[v].n = f[v][1]
        /\ u.out[v] = Ssa(v, f[v][2]) /\ u.out[v].n = f[v][2]
        /\ u.out[v] = u.in[v] <=> f[v][2] = f[v][1]
    BY <1>4, <1>5, SsaIs
  <2>5. /\ part = "loop" /\ f[v][1] \in Used("stem", v) => f[v][1] = nm[v][First(part, v)]
        /\ f[v][1] = nm[v][now[v]] \/ \A c \in Cells(part, now, v) : f[v][1] # nm[v][c]
    BY <1>6 DEF LineNaming
  <2>6. u.out[v] # u.in[v] => u.out[v].n = m[v][now'[v]] /\ First(part, v)' < now'[v]
    <3>1. First(part, v) \in Nat /\ now[v] \in Nat
      BY <1>1, CellsAre
    <3>2. First(part, v) <= now[v]
      BY <2>1
    <3> QED BY <2>1, <2>2, <2>4, <3>1, <3>2
  <2>7. u.out[v] = u.in[v] => \/ u.out[v].n = m[v][now'[v]]
                              \/ \A c \in Cells(part, now, v)' : u.out[v].n # m[v][c]
    <3> SUFFICES ASSUME f[v][2] = f[v][1]
                 PROVE  f[v][1] = m[v][now'[v]] \/ \A c \in Cells(part, now', v) : f[v][1] # m[v][c]
      BY <2>2, <2>4
    <3>1. now'[v] = now[v] /\ m[v][now'[v]] = nm[v][now[v]]
      BY <2>1
    <3>2. \A c \in Cells(part, now', v) : c \in Cells(part, now, v) /\ m[v][c] = nm[v][c]
      BY <2>1
    <3> QED BY <2>5, <3>1, <3>2
  <2>8. part = "loop" /\ u.in[v].n \in Used("stem", v)' => u.in[v].n = m[v][First(part, v)']
    BY <2>1, <2>2, <2>3, <2>4, <2>5
  <2> QED BY <2>3, <2>4, <2>6, <2>7, <2>8
<1>9. LastLine(u, part, now, m)'
  BY <1>4, <1>8 DEF LastLine
<1>10. DOMAIN u.in = Vars /\ DOMAIN u.out = Vars
  BY <1>4, <1>5
<1> QED BY <1>9, <1>10

----------------------------------------------------------------------------
(* What is known of a part's names after a line of it.                     *)

\* The names nm before a line: of the first line, those it reads.
NamesBefore(part, t, f, nm) ==
    /\ \A v \in Vars : f[v][1] # 0 /\ f[v][2] # 0
    /\ LineBase(part, t, f, nm, raw_subst')
    /\ lines = 0 => /\ Unread(t, part) /\ DOMAIN raw_subst' = {}
                    /\ \A v \in Vars : nm[v][First(part, v)] = f[v][1]
    /\ lines # 0 => Named(t, part, now, nm)

LEMMA NamesBeforeLine ==
    ASSUME PlainTraces, TypeInv, HistoryOK, NEW part, NEW t, BeingRead(t, part),
           part = "loop" => HasBeenRead(stem, "stem"),
           NEW text, NEW f, NEW mention, NEW d, NEW fails, Reads(part, text, f, mention, d, fails)
    PROVE  \E nm : NamesBefore(part, t, f, nm)
<1>0. part \in Parts
  BY DEF Reads
<1>1. CASE lines = 0
  <2> DEFINE nm == [v \in Vars |-> [c \in Nat |-> f[v][1]]]
  <2>1. /\ \A v \in Vars : f[v][1] # 0 /\ f[v][2] # 0
        /\ LineBase(part, t, f, nm, raw_subst')
        /\ raw_subst' = raw_subst
    BY <1>0, <1>1, FirstLineBase
  <2>2. Unread(t, part) /\ raw_subst = EmptyMap
    BY <1>1 DEF BeingRead
  <2>3. DOMAIN raw_subst' = {}
    BY <2>1, <2>2 DEF EmptyMap
  <2>4. \A v \in Vars : nm[v][First(part, v)] = f[v][1]
    BY <1>0, CellsAre
  <2> HIDE DEF nm
  <2>5. NamesBefore(part, t, f, nm)
    BY <1>1, <2>1, <2>2, <2>3, <2>4 DEF NamesBefore
  <2> QED BY <2>5
<1>2. CASE lines # 0
  <2>1. PICK nm : Named(t, part, now, nm) /\ Substituting(part, nm)
    BY <1>2 DEF BeingRead
  <2>2. /\ \A v \in Vars : f[v][1] # 0 /\ f[v][2] # 0
        /\ LineBase(part, t, f, nm, raw_subst')
    BY <1>0, <1>2, <2>1, NextLineBase
  <2>3. NamesBefore(part, t, f, nm)
    BY <1>2, <2>1, <2>2 DEF NamesBefore
  <2> QED BY <2>3
<1> QED BY <1>1, <1>2

LEMMA NamedLine ==
    ASSUME PlainTraces, TypeInv, HistoryOK, NEW part, NEW t, IsTransition(t),
           NEW text, NEW f, NEW mention, NEW d, NEW fails, Reads(part, text, f, mention, d, fails),
           NEW nm, NamesBefore(part, t, f, nm), NEW m, m = NamingAfter(nm, f),
           NEW u, u = AddLine(t, parseTransition(text, fails), raw_subst')
    PROVE  Named(u, part, now, m)'
<1>1. /\ part \in Parts /\ f \in SomeNaming /\ Moves(f) /\ spans' = spans /\ reading' = reading
      /\ edges' = [edges EXCEPT ![part] = [v \in Vars |-> edges[part][v] \cup {f[v]}]]
      /\ part = "loop" => stem' = stem
  BY DEF Reads, Moves
<1>2. /\ \A v \in Vars : f[v][1] # 0 /\ f[v][2] # 0
      /\ LineBase(part, t, f, nm, raw_subst')
  BY DEF NamesBefore
<1>3. \A v \in Vars : First(part, v)' = First(part, v) /\ Cells(part, now, v)' = Cells(part, now', v)
  BY <1>1 DEF First, Cells
<1>4. /\ IsNaming(m, part, now')
      /\ \A v \in Vars :
           \A c \in Cells(part, now', v) :
             /\ m[v][c] \in Used(part, v) \cup {f[v][1], f[v][2]}
             /\ part = "loop" /\ c # First(part, v) => m[v][c] \notin Used("stem", v)
             /\ part = "loop" /\ c = First(part, v) /\ m[v][c] \in Used("stem", v)
                  => v \in DOMAIN stem.out /\ stem.out[v] = Ssa(v, m[v][c])
  BY <1>1, <1>2, NamedAfter
<1>5. IsNaming(m, part, now)'
  BY <1>1, <1>3, <1>4 DEF IsNaming
<1>6. Apart(part, now, m)'
  <2> SUFFICES ASSUME NEW v \in Vars, NEW c \in Cells(part, now', v)
               PROVE  /\ m[v][c] \in Used(part, v)'
                      /\ part = "loop" /\ c # First(part, v) => m[v][c] \notin Used("stem", v)'
                      /\ part = "loop" /\ c = First(part, v) /\ m[v][c] \in Used("stem", v)'
                           => v \in DOMAIN stem'.out /\ stem'.out[v] = Ssa(v, m[v][c])
    BY <1>3 DEF Apart
  <2>1. /\ Used(part, v)' = Used(part, v) \cup {f[v][1], f[v][2]}
        /\ part = "loop" => Used("stem", v)' = Used("stem", v)
    BY <1>1, UsedNow DEF Parts
  <2> QED BY <1>1, <1>4, <2>1
<1>7. Canonical(RawOcc(u), part, now, m)'
  <2> DEFINE y == AddLine(t, parseTransition(text, fails), raw_subst')
             n == NamingAfter(nm, f)
  <2>0. Canonical(RawOcc(y), part, now', n)
    BY <1>1, <1>2, RawAfter
  <2>1. Canonical(RawOcc(u), part, now', m)
    <3>1. y = u /\ n = m
      OBVIOUS
    <3> HIDE DEF y, n
    <3> QED BY <2>0, <3>1
  <2>2. \A o \in RawOcc(u) : o.cell[2] \in Cells(part, now', o.cell[1])
                             /\ o.name = Ssa(o.cell[1], m[o.cell[1]][o.cell[2]])
    BY <2>1 DEF Canonical
  <2>3. \A v : Cells(part, now, v)' = Cells(part, now', v)
    BY <1>1 DEF First, Cells
  <2> QED BY <2>2, <2>3 DEF Canonical, RawOcc
<1>8. CASE Linearize
  <2>1. /\ DOMAIN u.in = Vars /\ DOMAIN u.out = Vars
        /\ \A v \in Vars : u.in[v] = Ssa(v, m[v][First(part, v)]) /\ u.out[v] = Ssa(v, m[v][now'[v]])
        /\ PolyOcc(u) \subseteq RawOcc(u)
        /\ {} \notin u.polyhedra /\ Taken(u) = choices'[part]
    <3> DEFINE y == AddLine(t, parseTransition(text, fails), raw_subst')
               n == NamingAfter(nm, f)
    <3>1. ASSUME lines = 0 PROVE ComposedAfter(y, part, n)
      <4>1. /\ Unread(t, part) /\ DOMAIN raw_subst' = {}
            /\ \A v \in Vars : nm[v][First(part, v)] = f[v][1]
        BY <3>1 DEF NamesBefore
      <4> QED BY <1>2, <1>8, <3>1, <4>1, FirstComposed
    <3>2. ASSUME lines # 0 PROVE ComposedAfter(y, part, n)
      <4>1. Named(t, part, now, nm)
        BY <3>2 DEF NamesBefore
      <4> QED BY <1>2, <1>8, <3>2, <4>1, NextComposed
    <3>3. y = u /\ n = m
      OBVIOUS
    <3> HIDE DEF y, n
    <3> QED BY <3>1, <3>2, <3>3 DEF ComposedAfter
  <2>2. Composed(u, part, now, m)'
    BY <1>3, <2>1 DEF Composed, PolyOcc, RawOcc, Taken
  <2>3. Linearize'
    BY <1>1, <1>8 DEF Linearize
  <2> QED BY <1>5, <1>6, <1>7, <2>1, <2>2, <2>3 DEF Named
<1>9. CASE ~Linearize
  <2>1. isTrue(t)
    <3>1. CASE lines = 0
      BY <3>1 DEF NamesBefore, Unread, NoTransition, isTrue
    <3>2. CASE lines # 0
      BY <1>9, <3>2 DEF NamesBefore, Named, LastLine
    <3> QED BY <3>1, <3>2
  <2>2. DOMAIN u.in = Vars /\ DOMAIN u.out = Vars /\ LastLine(u, part, now, m)'
    BY <1>2, <1>9, <2>1, LastLineAfter
  <2>3. ~Linearize'
    BY <1>1, <1>9 DEF Linearize
  <2> QED BY <1>5, <1>6, <1>7, <2>2, <2>3 DEF Named
<1> QED BY <1>8, <1>9

LEMMA SubstitutingLine ==
    ASSUME PlainTraces, TypeInv, HistoryOK, NEW part, NEW t, IsTransition(t),
           NEW text, NEW f, NEW mention, NEW d, NEW fails, Reads(part, text, f, mention, d, fails),
           NEW nm, NamesBefore(part, t, f, nm), NEW m, m = NamingAfter(nm, f)
    PROVE  Substituting(part, m)'
<1> DEFINE line == parseTransition(text, fails)
           s == raw_subst'
<1>1. /\ part \in Parts /\ f \in SomeNaming /\ Moves(f) /\ spans' = spans
      /\ edges' = [edges EXCEPT ![part] = [v \in Vars |-> edges[part][v] \cup {f[v]}]]
      /\ prev_out' = line.out /\ lines' = lines + 1 /\ lines \in Nat
  BY DEF Reads, Moves, TypeInv
<1>2. /\ \A v \in Vars : f[v][1] # 0 /\ f[v][2] # 0
      /\ LineBase(part, t, f, nm, s)
      /\ lines = 0 => DOMAIN s = {}
  BY DEF NamesBefore
<1>3. LineNaming(part, f, nm) /\ LineSubstitution(part, f, nm, s)
  BY <1>2 DEF LineBase
<1>4. /\ DOMAIN line.out = Vars
      /\ \A v \in Vars : line.out[v] = Ssa(v, f[v][2])
  BY <1>2, LineMaps
<1>5. /\ \A v \in Vars : SubName(s, Ssa(v, f[v][2])) = Ssa(v, m[v][now'[v]])
      /\ \A k \in DOMAIN s :
           /\ \A c \in Cells(part, now', k.var) : m[k.var][c] # k.n
           /\ \E c \in Cells(part, now', k.var) : s[k] = Ssa(k.var, m[k.var][c])
  <2> DEFINE n == NamingAfter(nm, f)
  <2>1. \A v \in Vars : SubName(s, Ssa(v, f[v][2])) = Ssa(v, n[v][now'[v]])
    BY <1>1, <1>2, NamedAfter
  <2>2. KeysAfter(part, s, n)
    BY <1>1, <1>2, NamedAfter
  <2>3. n = m
    OBVIOUS
  <2> HIDE DEF n
  <2> QED BY <2>1, <2>2, <2>3 DEF KeysAfter
<1>6. \A w : First(part, w)' = First(part, w) /\ Cells(part, now, w)' = Cells(part, now', w)
  BY <1>1 DEF First, Cells
<1>7. \A v \in Vars : /\ Used(part, v)' = Used(part, v) \cup {f[v][1], f[v][2]}
                      /\ part = "loop" => Used("stem", v)' = Used("stem", v)
  BY <1>1, UsedNow DEF Parts
<1> HIDE DEF line
<1>8. ASSUME NEW v \in Vars
      PROVE  /\ v \in DOMAIN prev_out'
             /\ prev_out'[v] = Ssa(v, prev_out'[v].n) /\ prev_out'[v].n \in Used(part, v)'
             /\ SubName(s, prev_out'[v]) = Ssa(v, m[v][now'[v]])
             /\ part = "loop" /\ prev_out'[v].n \in Used("stem", v)' => prev_out'[v].n = m[v][First(part, v)']
  <2>1. prev_out'[v] = Ssa(v, f[v][2]) /\ prev_out'[v].n = f[v][2]
    BY <1>1, <1>4, SsaIs
  <2>2. ASSUME part = "loop", f[v][2] \in Used("stem", v)
        PROVE  f[v][2] = m[v][First(part, v)]
    <3>1. f[v][2] = f[v][1]
      <4>1. f[v][2] = f[v][1] \/ f[v][2] \in NewIndices(v)
        BY <1>3 DEF LineNaming
      <4> QED BY <2>2, <4>1, NewIndex
    <3>2. f[v][1] = nm[v][First(part, v)]
      BY <1>3, <2>2, <3>1 DEF LineNaming
    <3>3. m[v][First(part, v)] = nm[v][First(part, v)]
      BY <1>1, <1>2, CellsAfter
    <3> QED BY <3>1, <3>2, <3>3
  <2> QED BY <1>1, <1>4, <1>5, <1>6, <1>7, <2>1, <2>2
<1>9. ASSUME NEW k \in DOMAIN s
      PROVE  /\ k = Ssa(k.var, k.n) /\ k.n \in Used(part, k.var)'
             /\ part = "loop" => k.n \notin Used("stem", k.var)'
             /\ \A c \in Cells(part, now, k.var)' : m[k.var][c] # k.n
             /\ \E c \in Cells(part, now, k.var)' : s[k] = Ssa(k.var, m[k.var][c])
  <2>1. /\ k = Ssa(k.var, k.n) /\ k.var \in Vars /\ k.n \in Used(part, k.var) \cup {f[k.var][1]}
        /\ part = "loop" => k.n \notin Used("stem", k.var)
    BY <1>3 DEF LineSubstitution
  <2> QED BY <1>5, <1>6, <1>7, <2>1
<1>10. lines' = 1 => DOMAIN s = {}
  BY <1>1, <1>2
<1> QED BY <1>8, <1>9, <1>10 DEF Substituting

----------------------------------------------------------------------------
(* What a step does not touch: a part whose lines are not read.            *)

SamePart(part) ==
    /\ reading' = reading /\ choices'[part] = choices[part] /\ edges'[part] = edges[part]
    /\ spans'[part].from = spans[part].from
    /\ part = "loop" => stem' = stem /\ edges'["stem"] = edges["stem"]

LEMMA SameNames ==
    ASSUME NEW part, SamePart(part), NEW t, NEW hi, NEW nm, Named(t, part, hi, nm)
    PROVE  Named(t, part, hi, nm)'
<1>1. \A v : First(part, v)' = First(part, v) /\ Cells(part, hi, v)' = Cells(part, hi, v)
  BY DEF SamePart, First, Cells
<1>2. \A v : /\ Used(part, v)' = Used(part, v)
             /\ part = "loop" => Used("stem", v)' = Used("stem", v)
  BY DEF SamePart, Used
<1>3. IsNaming(nm, part, hi)'
  BY <1>1 DEF Named, IsNaming
<1>4. Apart(part, hi, nm)'
  BY <1>1, <1>2 DEF Named, Apart, SamePart
<1>5. Canonical(RawOcc(t), part, hi, nm)'
  <2>1. RawOcc(t)' = RawOcc(t)
    BY DEF RawOcc
  <2> QED BY <1>1, <2>1 DEF Named, Canonical
<1>6. Linearize' = Linearize
  BY DEF SamePart, Linearize
<1>7. ASSUME Linearize PROVE Composed(t, part, hi, nm)'
  <2>1. PolyOcc(t)' = PolyOcc(t) /\ RawOcc(t)' = RawOcc(t) /\ Taken(t)' = Taken(t)
    BY DEF PolyOcc, RawOcc, Taken
  <2>2. Composed(t, part, hi, nm)
    BY <1>7 DEF Named
  <2> QED BY <1>1, <2>1, <2>2 DEF Composed, SamePart
<1>8. ASSUME ~Linearize PROVE LastLine(t, part, hi, nm)'
  <2>1. LastLine(t, part, hi, nm) /\ isTrue(t)' = isTrue(t)
    BY <1>8 DEF Named, isTrue
  <2> QED BY <1>1, <1>2, <2>1 DEF LastLine
<1> QED BY <1>3, <1>4, <1>5, <1>6, <1>7, <1>8 DEF Named

LEMMA SameUnread ==
    ASSUME NEW part, SamePart(part), NEW t, Unread(t, part)
    PROVE  Unread(t, part)'
BY DEF SamePart, Unread

LEMMA SameRead ==
    ASSUME NEW part, SamePart(part), spans'[part].to = spans[part].to, NEW t, HasBeenRead(t, part)
    PROVE  HasBeenRead(t, part)'
<1>1. CASE Unread(t, part)
  BY <1>1, SameUnread DEF HasBeenRead
<1>2. CASE \E nm : Named(t, part, spans[part].to, nm)
  <2>1. PICK nm : Named(t, part, spans[part].to, nm)
    BY <1>2
  <2>2. PICK hi : hi = spans[part].to
    OBVIOUS
  <2>3. Named(t, part, hi, nm)'
    BY <2>1, <2>2, SameNames
  <2>4. hi = spans'[part].to
    BY <2>2
  <2>5. Named(t, part, spans[part].to, nm)'
    BY <2>3, <2>4
  <2> QED BY <2>5 DEF HasBeenRead
<1> QED BY <1>1, <1>2 DEF HasBeenRead

LEMMA HistoryAfterLine ==
    ASSUME TypeInv, HistoryOK, NEW part, NEW text, NEW f, NEW mention, NEW d, NEW fails,
           Reads(part, text, f, mention, d, fails),
           \A v \in Vars : f[v][1] # 0 /\ f[v][2] # 0
    PROVE  HistoryOK'
<1>1. /\ part \in Parts /\ f \in SomeNaming /\ spans' = spans /\ phase' = phase
      /\ edges' = [edges EXCEPT ![part] = [v \in Vars |-> edges[part][v] \cup {f[v]}]]
      /\ DOMAIN choices' = DOMAIN choices
  BY DEF Reads
<1>2. /\ \A v \in Vars : /\ Used(part, v)' = Used(part, v) \cup {f[v][1], f[v][2]}
                         /\ \A q \in Parts \ {part} : Used(q, v)' = Used(q, v)
      /\ edges' \in [Parts -> [Vars -> SUBSET (Nat \X Nat)]]
  BY <1>1, UsedNow
<1>3. ASSUME NEW q \in Parts, NEW v \in Vars PROVE 0 \notin Used(q, v)'
  <2>1. 0 \notin Used(q, v)
    BY DEF HistoryOK
  <2>2. CASE q = part
    BY <1>2, <2>1, <2>2
  <2>3. CASE q # part
    BY <1>2, <2>1, <2>3
  <2> QED BY <2>2, <2>3
<1> QED BY <1>1, <1>2, <1>3 DEF HistoryOK

\* A line, in the part it is of.
LEMMA LineBeingRead ==
    ASSUME PlainTraces, TypeInv, HistoryOK, NEW part, NEW t, IsTransition(t), BeingRead(t, part),
           part = "loop" => HasBeenRead(stem, "stem"),
           NEW text, NEW f, NEW mention, NEW d, NEW fails, Reads(part, text, f, mention, d, fails),
           NEW u, u = AddLine(t, parseTransition(text, fails), raw_subst')
    PROVE  BeingRead(u, part)' /\ HistoryOK'
<1>1. PICK nm : NamesBefore(part, t, f, nm)
  BY NamesBeforeLine
<1>2. PICK m : m = NamingAfter(nm, f)
  OBVIOUS
<1>3. Named(u, part, now, m)'
  BY <1>1, <1>2, NamedLine
<1>4. Substituting(part, m)'
  BY <1>1, <1>2, SubstitutingLine
<1>5. lines' # 0
  BY DEF Reads, TypeInv
<1>6. BeingRead(u, part)'
  BY <1>3, <1>4, <1>5 DEF BeingRead
<1>7. HistoryOK'
  BY <1>1, HistoryAfterLine DEF NamesBefore
<1> QED BY <1>6, <1>7

LEMMA ReadLineNames ==
    ASSUME PlainTraces, NamesInv, NEW part \in Parts, ReadLine(part)
    PROVE  NamesInv'
<1>1. TypeInv /\ HistoryOK
  BY DEF NamesInv
<1>2. TypeInv'
  BY <1>1, TypeReadLine
<1>3. PICK f \in SomeNaming, d \in Nat \ {0}, fails \in BOOLEAN :
        \E text, mention : Reads(part, text, f, mention, d, fails)
  BY <1>1, ReadLineReads
<1>4. PICK text, mention : Reads(part, text, f, mention, d, fails)
  BY <1>3
<1> DEFINE line == parseTransition(text, fails)
<1>5. /\ phase = part /\ phase' = phase /\ verdict' = verdict /\ program_vars' = program_vars
      /\ reading' = reading /\ spans' = spans
      /\ stem' = IF part = "stem" THEN AddLine(stem, line, raw_subst') ELSE stem
      /\ loop' = IF part = "loop" THEN AddLine(loop, line, raw_subst') ELSE loop
      /\ edges' = [edges EXCEPT ![part] = [v \in Vars |-> edges[part][v] \cup {f[v]}]]
  BY <1>4 DEF Reads
<1> DEFINE new == {c \cup {<<a.line, a.disjunct>> : a \in p} : c \in choices[part], p \in text.dnf}
<1>12. choices' = [choices EXCEPT ![part] = new]
  BY <1>4 DEF Reads
<1> HIDE DEF new
<1>6. \A q \in Parts \ {part} : choices'[q] = choices[q] /\ edges'[q] = edges[q]
  BY <1>1, <1>5, <1>12 DEF HistoryOK
<1>7. IsTransition(stem) /\ IsTransition(loop)
  BY <1>1 DEF TypeInv
<1> HIDE DEF line
<1>8. verdict' # "CHECKED" /\ FixpointIsReal'
  BY <1>5 DEF NamesInv, FixpointIsReal, Parts
<1>9. Linearize' = Linearize /\ (Linearize => program_vars' = Vars \ Arrays)
  BY <1>5 DEF NamesInv, Linearize, Parts
<1>10. CASE part = "stem"
  <2>1. BeingRead(stem, "stem") /\ Unread(loop, "loop")
    BY <1>5, <1>10 DEF NamesInv
  <2>2. PICK t : t = stem
    OBVIOUS
  <2>3. PICK u : u = AddLine(t, parseTransition(text, fails), raw_subst')
    OBVIOUS
  <2>4. BeingRead(u, "stem")' /\ HistoryOK'
    BY <1>1, <1>4, <1>7, <1>10, <2>1, <2>2, <2>3, LineBeingRead
  <2>5. stem' = u /\ loop' = loop
    BY <1>5, <1>10, <2>2, <2>3 DEF line
  <2>6. BeingRead(stem, "stem")'
    BY <2>4, <2>5
  <2>7. Unread(loop, "loop")'
    BY <1>6, <1>10, <2>1, <2>5 DEF Unread, Parts
  <2> QED BY <1>2, <1>5, <1>8, <1>9, <1>10, <2>4, <2>6, <2>7 DEF NamesInv
<1>11. CASE part = "loop"
  <2>1. HasBeenRead(stem, "stem") /\ BeingRead(loop, "loop")
    BY <1>5, <1>11 DEF NamesInv
  <2>2. PICK t : t = loop
    OBVIOUS
  <2>3. PICK u : u = AddLine(t, parseTransition(text, fails), raw_subst')
    OBVIOUS
  <2>4. BeingRead(u, "loop")' /\ HistoryOK'
    BY <1>1, <1>4, <1>7, <1>11, <2>1, <2>2, <2>3, LineBeingRead
  <2>5. loop' = u /\ stem' = stem
    BY <1>5, <1>11, <2>2, <2>3 DEF line
  <2>6. BeingRead(loop, "loop")'
    BY <2>4, <2>5
  <2>7. HasBeenRead(stem, "stem")'
    <3>1. PICK x : x = stem
      OBVIOUS
    <3>2. SamePart("stem")
      BY <1>5, <1>6, <1>11 DEF SamePart, Parts
    <3>3. HasBeenRead(x, "stem")'
      BY <1>5, <2>1, <3>1, <3>2, SameRead
    <3> QED BY <2>5, <3>1, <3>3
  <2> QED BY <1>2, <1>5, <1>8, <1>9, <1>11, <2>4, <2>6, <2>7 DEF NamesInv
<1> QED BY <1>10, <1>11 DEF Parts

LEMMA NamesInit == LassoInit => NamesInv
<1> SUFFICES ASSUME LassoInit PROVE NamesInv
  OBVIOUS
<1>1. TypeInv
  BY TypeInit
<1>2. /\ edges = [p \in Parts |-> [v \in Vars |-> {}]] /\ choices = [p \in Parts |-> {{}}]
      /\ now = [v \in Vars |-> 0] /\ spans = [p \in Parts |-> [from |-> now, to |-> now]]
  BY DEF LassoInit
<1>3. \A part \in Parts : /\ choices[part] = {{}} /\ spans[part].from = now
                          /\ \A v \in Vars : edges[part][v] = {}
  BY <1>2
<1>4. edges \in [Parts -> [Vars -> SUBSET (Nat \X Nat)]]
  <2>1. [v \in Vars |-> {}] \in [Vars -> SUBSET (Nat \X Nat)]
    OBVIOUS
  <2> QED BY <1>2, <2>1
<1>5. spans \in [Parts -> [from : [Vars -> Nat], to : [Vars -> Nat]]]
  <2>1. now \in [Vars -> Nat]
    BY <1>2
  <2> QED BY <1>2, <2>1
<1>6. \A part \in Parts, v \in Vars : 0 \notin Used(part, v)
  BY <1>3 DEF Used
<1>7. /\ phase = "stem" /\ stem = NoTransition /\ loop = NoTransition /\ lines = 0
      /\ prev_out = EmptyMap /\ raw_subst = EmptyMap /\ verdict = "none"
      /\ Linearize => program_vars = Vars \ Arrays
  BY DEF LassoInit
<1>8. HistoryOK
  BY <1>2, <1>4, <1>5, <1>6, <1>7 DEF HistoryOK
<1>9. Unread(stem, "stem") /\ Unread(loop, "loop")
  BY <1>3, <1>7 DEF Unread, Parts
<1>10. BeingRead(stem, "stem")
  BY <1>3, <1>7, <1>9 DEF BeingRead, Parts
<1> QED BY <1>1, <1>7, <1>8, <1>9, <1>10 DEF NamesInv, FixpointIsReal

\* Between its first and last line a part is being read, then it has been read.
LEMMA EndPart ==
    ASSUME NEW part, NEW t, BeingRead(t, part), SamePart(part), spans'[part].to = now
    PROVE  HasBeenRead(t, part)'
<1>1. CASE lines = 0
  <2>1. Unread(t, part)
    BY <1>1 DEF BeingRead
  <2> QED BY <2>1, SameUnread DEF HasBeenRead
<1>2. CASE lines # 0
  <2>1. PICK nm : Named(t, part, now, nm)
    BY <1>2 DEF BeingRead
  <2>2. PICK hi : hi = now
    OBVIOUS
  <2>3. Named(t, part, hi, nm)'
    BY <2>1, <2>2, SameNames
  <2>4. hi = spans'[part].to
    BY <2>2
  <2>5. Named(t, part, spans[part].to, nm)'
    BY <2>3, <2>4
  <2> QED BY <2>5 DEF HasBeenRead
<1> QED BY <1>1, <1>2

LEMMA EndStemNames ==
    ASSUME NamesInv, EndStem
    PROVE  NamesInv'
<1>1. TypeInv'
  BY TypeNext DEF LassoNext, NamesInv
<1>2. TypeInv /\ HistoryOK /\ BeingRead(stem, "stem") /\ Unread(loop, "loop")
  BY DEF NamesInv, EndStem
<1> DEFINE a == [spans["stem"] EXCEPT !.to = now]
           b == [spans["loop"] EXCEPT !.from = now]
<1>3. spans' = [spans EXCEPT !["stem"].to = now, !["loop"].from = now]
      /\ spans \in [Parts -> [from : [Vars -> Nat], to : [Vars -> Nat]]] /\ now \in [Vars -> Nat]
  BY <1>2 DEF EndStem, HistoryOK, TypeInv
<1>4. spans'["stem"] = a /\ spans'["loop"] = b /\ DOMAIN spans' = Parts
      /\ spans' = [p \in Parts |-> IF p = "stem" THEN a ELSE b]
  BY <1>3 DEF Parts
<1>5. a \in [from : [Vars -> Nat], to : [Vars -> Nat]] /\ b \in [from : [Vars -> Nat], to : [Vars -> Nat]]
      /\ a.to = now /\ a.from = spans["stem"].from /\ b.from = now
  BY <1>3 DEF Parts
<1> HIDE DEF a, b
<1>6. spans' \in [Parts -> [from : [Vars -> Nat], to : [Vars -> Nat]]]
  BY <1>4, <1>5
<1>7. /\ phase = "stem" /\ phase' = "loop" /\ lines' = 0 /\ prev_out' = EmptyMap /\ raw_subst' = EmptyMap
      /\ UNCHANGED <<reading, stem, loop, program_vars, verdict, asserted, now, edges, choices>>
  BY DEF EndStem
<1>8. \A p, v : Used(p, v)' = Used(p, v)
  BY <1>7 DEF Used
<1>9. HistoryOK'
  BY <1>2, <1>4, <1>5, <1>6, <1>7, <1>8 DEF HistoryOK
<1>10. HasBeenRead(stem, "stem")'
  <2>1. PICK t : t = stem
    OBVIOUS
  <2>2. SamePart("stem")
    BY <1>4, <1>5, <1>7 DEF SamePart
  <2>3. HasBeenRead(t, "stem")'
    BY <1>2, <1>4, <1>5, <2>1, <2>2, EndPart
  <2> QED BY <1>7, <2>1, <2>3
<1>11. BeingRead(loop, "loop")'
  <2>1. Unread(loop, "loop")'
    BY <1>2, <1>7 DEF Unread
  <2> QED BY <1>4, <1>5, <1>7, <2>1 DEF BeingRead
<1>12. verdict' # "CHECKED" /\ FixpointIsReal'
  BY <1>7 DEF NamesInv, FixpointIsReal
<1>13. Linearize' = Linearize /\ (Linearize => program_vars' = Vars \ Arrays)
  BY <1>7 DEF NamesInv, Linearize
<1> QED BY <1>1, <1>7, <1>9, <1>10, <1>11, <1>12, <1>13 DEF NamesInv

LEMMA EndLoopNames ==
    ASSUME NamesInv, EndLoop
    PROVE  NamesInv'
<1>1. TypeInv'
  BY TypeNext DEF LassoNext, NamesInv
<1>2. TypeInv /\ HistoryOK /\ HasBeenRead(stem, "stem") /\ BeingRead(loop, "loop")
  BY DEF NamesInv, EndLoop
<1> DEFINE b == [spans["loop"] EXCEPT !.to = now]
<1>3. spans' = [spans EXCEPT !["loop"].to = now]
      /\ spans \in [Parts -> [from : [Vars -> Nat], to : [Vars -> Nat]]] /\ now \in [Vars -> Nat]
  BY <1>2 DEF EndLoop, HistoryOK, TypeInv
<1>4. spans'["stem"] = spans["stem"] /\ spans'["loop"] = b
      /\ spans' = [spans EXCEPT !["loop"] = b]
  BY <1>3 DEF Parts
<1>5. b \in [from : [Vars -> Nat], to : [Vars -> Nat]] /\ b.to = now /\ b.from = spans["loop"].from
  BY <1>3 DEF Parts
<1> HIDE DEF b
<1>6. spans' \in [Parts -> [from : [Vars -> Nat], to : [Vars -> Nat]]]
  BY <1>3, <1>4, <1>5 DEF Parts
<1>7. /\ phase = "loop" /\ phase' = "connect"
      /\ UNCHANGED <<reading, stem, loop, program_vars, verdict, asserted, now, edges, choices>>
  BY DEF EndLoop
<1>8. \A p, v : Used(p, v)' = Used(p, v)
  BY <1>7 DEF Used
<1>9. HistoryOK'
  BY <1>2, <1>4, <1>5, <1>6, <1>7, <1>8 DEF HistoryOK
<1>10. HasBeenRead(stem, "stem")'
  <2>1. PICK t : t = stem
    OBVIOUS
  <2>2. SamePart("stem") /\ spans'["stem"].to = spans["stem"].to
    BY <1>4, <1>7 DEF SamePart
  <2>3. HasBeenRead(t, "stem")'
    BY <1>2, <2>1, <2>2, SameRead
  <2> QED BY <1>7, <2>1, <2>3
<1>11. HasBeenRead(loop, "loop")'
  <2>1. PICK t : t = loop
    OBVIOUS
  <2>2. SamePart("loop")
    BY <1>4, <1>5, <1>7 DEF SamePart
  <2>3. HasBeenRead(t, "loop")'
    BY <1>2, <1>4, <1>5, <2>1, <2>2, EndPart
  <2> QED BY <1>7, <2>1, <2>3
<1>12. verdict' # "CHECKED" /\ FixpointIsReal'
  BY <1>7 DEF NamesInv, FixpointIsReal
<1>13. Linearize' = Linearize /\ (Linearize => program_vars' = Vars \ Arrays)
  BY <1>7 DEF NamesInv, Linearize
<1> QED BY <1>1, <1>7, <1>9, <1>10, <1>11, <1>12, <1>13 DEF NamesInv

----------------------------------------------------------------------------
(* A part that has been read, with polyhedra, means its lines.             *)

LEMMA NamedMeant ==
    ASSUME Linearize, NEW part, NEW t, NEW nm, Named(t, part, spans[part].to, nm)
    PROVE  Meant(t, part, nm)
BY DEF Named, Meant

LEMMA MeantAligned ==
    ASSUME TypeInv, HistoryOK, NEW part \in Parts, NEW t, IsTransition(t), NEW nm, Meant(t, part, nm),
           NEW occ \in SUBSET RawOcc(t), NEW vars \in SUBSET Vars
    PROVE  Aligned(occ, t, part, vars)
<1> DEFINE hi == spans[part].to
<1>1. /\ IsNaming(nm, part, hi) /\ Canonical(RawOcc(t), part, hi, nm)
      /\ DOMAIN t.in = Vars /\ DOMAIN t.out = Vars
      /\ \A v \in Vars : t.in[v] = Ssa(v, nm[v][First(part, v)]) /\ t.out[v] = Ssa(v, nm[v][hi[v]])
  BY DEF Meant, Composed
<1>2. ASSUME NEW v \in Vars
      PROVE  /\ First(part, v) \in Cells(part, hi, v) /\ hi[v] \in Cells(part, hi, v)
             /\ \A c, d \in Cells(part, hi, v) : nm[v][c] = nm[v][d] => c = d
  <2>1. First(part, v) <= hi[v] /\ \A c, d \in Cells(part, hi, v) : nm[v][c] = nm[v][d] => c = d
    BY <1>1 DEF IsNaming
  <2>2. First(part, v) \in Nat /\ hi[v] \in Nat
    BY CellsAre
  <2> QED BY <2>1, <2>2, CellsAre
<1> HIDE DEF hi
<1>3. ASSUME NEW o \in occ
      PROVE  \E v \in Vars : \E c \in Cells(part, hi, v) : o.cell = <<v, c>> /\ o.name = Ssa(v, nm[v][c])
  <2>1. o \in Occurrences /\ o \in RawOcc(t)
    BY OccsType
  <2>2. /\ o.cell[2] \in Cells(part, hi, o.cell[1])
        /\ o.name = Ssa(o.cell[1], nm[o.cell[1]][o.cell[2]])
    BY <1>1, <2>1 DEF Canonical
  <2>3. o.cell = <<o.cell[1], o.cell[2]>> /\ o.cell[1] \in Vars
    BY <2>1 DEF Occurrences
  <2> QED BY <2>2, <2>3
<1>4. ASSUME NEW o \in occ, NEW p \in occ PROVE o.name = p.name <=> o.cell = p.cell
  <2>1. PICK v \in Vars : \E c \in Cells(part, hi, v) : o.cell = <<v, c>> /\ o.name = Ssa(v, nm[v][c])
    BY <1>3
  <2>2. PICK c \in Cells(part, hi, v) : o.cell = <<v, c>> /\ o.name = Ssa(v, nm[v][c])
    BY <2>1
  <2>3. PICK w \in Vars : \E c1 \in Cells(part, hi, w) : p.cell = <<w, c1>> /\ p.name = Ssa(w, nm[w][c1])
    BY <1>3
  <2>4. PICK c1 \in Cells(part, hi, w) : p.cell = <<w, c1>> /\ p.name = Ssa(w, nm[w][c1])
    BY <2>3
  <2>5. o.name = p.name <=> v = w /\ nm[v][c] = nm[w][c1]
    BY <2>2, <2>4, SsaIs
  <2>6. o.cell = p.cell <=> v = w /\ c = c1
    BY <2>2, <2>4
  <2> QED BY <1>2, <2>5, <2>6
<1>5. ASSUME NEW o \in occ, NEW v \in vars
      PROVE  /\ o.name = t.in[v] <=> o.cell = <<v, spans[part].from[v]>>
             /\ o.name = t.out[v] <=> o.cell = <<v, hi[v]>>
  <2>1. PICK w \in Vars : \E c \in Cells(part, hi, w) : o.cell = <<w, c>> /\ o.name = Ssa(w, nm[w][c])
    BY <1>3
  <2>2. PICK c \in Cells(part, hi, w) : o.cell = <<w, c>> /\ o.name = Ssa(w, nm[w][c])
    BY <2>1
  <2>3. v \in Vars
    OBVIOUS
  <2>4. o.name = t.in[v] <=> w = v /\ nm[w][c] = nm[v][First(part, v)]
    BY <1>1, <2>2, <2>3, SsaIs
  <2>5. o.name = t.out[v] <=> w = v /\ nm[w][c] = nm[v][hi[v]]
    BY <1>1, <2>2, <2>3, SsaIs
  <2>6. o.cell = <<v, First(part, v)>> <=> w = v /\ c = First(part, v)
    BY <2>2
  <2>7. o.cell = <<v, hi[v]>> <=> w = v /\ c = hi[v]
    BY <2>2
  <2>8. o.name = t.in[v] <=> o.cell = <<v, First(part, v)>>
    BY <1>2, <2>2, <2>3, <2>4, <2>6
  <2>9. o.name = t.out[v] <=> o.cell = <<v, hi[v]>>
    BY <1>2, <2>2, <2>3, <2>5, <2>7
  <2> QED BY <2>8, <2>9 DEF First
<1>6. vars \subseteq DOMAIN t.in /\ vars \subseteq DOMAIN t.out
  BY <1>1
<1> QED BY <1>4, <1>5, <1>6 DEF Aligned, hi

LEMMA EmptyAligned ==
    ASSUME NEW t, NEW part, NEW vars
    PROVE  Aligned({}, t, part, vars)
BY DEF Aligned

LEMMA NoOccurrence == RawOcc(NoTransition) = {} /\ PolyOcc(NoTransition) = {}
BY DEF RawOcc, PolyOcc, NoTransition

LEMMA ReadAligned ==
    ASSUME TypeInv, HistoryOK, Linearize, NEW part \in Parts, NEW t, IsTransition(t), HasBeenRead(t, part)
    PROVE  Aligned(RawOcc(t), t, part, Vars)
<1>1. CASE Unread(t, part)
  BY <1>1, NoOccurrence, EmptyAligned DEF Unread
<1>2. CASE \E nm : Named(t, part, spans[part].to, nm)
  BY <1>2, NamedMeant, MeantAligned
<1> QED BY <1>1, <1>2 DEF HasBeenRead

LEMMA NamesRawAligned == NamesInv => RawAligned
<1> SUFFICES ASSUME NamesInv, Linearize
             PROVE  /\ phase = "loop" /\ lines = 0 => Aligned(RawOcc(stem), stem, "stem", Vars)
                    /\ phase = "connect" => Aligned(RawOcc(loop), loop, "loop", Vars)
  BY DEF RawAligned
<1>1. TypeInv /\ HistoryOK /\ IsTransition(stem) /\ IsTransition(loop)
  BY DEF NamesInv, TypeInv
<1>2. ASSUME phase = "loop" PROVE Aligned(RawOcc(stem), stem, "stem", Vars)
  <2>1. HasBeenRead(stem, "stem")
    BY <1>2 DEF NamesInv
  <2> QED BY <1>1, <2>1, ReadAligned DEF Parts
<1>3. ASSUME phase = "connect" PROVE Aligned(RawOcc(loop), loop, "loop", Vars)
  <2>1. HasBeenRead(loop, "loop")
    BY <1>3 DEF NamesInv
  <2> QED BY <1>1, <2>1, ReadAligned DEF Parts
<1> QED BY <1>2, <1>3

----------------------------------------------------------------------------
(* connectStemToLoop: what its two renamings make of the loop's names.     *)

LEMMA RenamedOccs ==
    ASSUME NEW t, IsTransition(t), NEW s, IsSubstitution(s), NEW u, IsRenaming(u, s, t)
    PROVE  /\ \A o \in RawOcc(u) : \E x \in RawOcc(t) : o.cell = x.cell /\ o.name = SubName(s, x.name)
           /\ PolyOcc(t) \subseteq RawOcc(t) => PolyOcc(u) \subseteq RawOcc(u)
           /\ Taken(u) = Taken(t) /\ ({} \in u.polyhedra <=> {} \in t.polyhedra)
<1> DEFINE r(x) == [x EXCEPT !.name = SubName(s, x.name)]
<1>0. t.polyhedra \in SUBSET SUBSET Atoms /\ t.raw \in SUBSET Atoms
  BY DEF IsTransition
<1>1. u.polyhedra = SubPolyhedra(s, t.polyhedra) /\ u.raw = {SubAtom(s, a) : a \in t.raw}
  BY DEF IsRenaming, SubRaw
<1>2. \A a \in Atoms : SubAtom(s, a).occ = {r(x) : x \in a.occ}
  BY SubAtomType
<1>3. \A x \in RawOcc(t) : r(x).name = SubName(s, x.name) /\ r(x).cell = x.cell
  <2>1. RawOcc(t) \subseteq Occurrences
    BY OccsType
  <2>2. \A x \in Occurrences : x = [name |-> x.name, cell |-> x.cell]
    BY DEF Occurrences
  <2> QED BY <2>1, <2>2
<1> HIDE DEF r
<1>4. \A o : o \in RawOcc(u) <=> \E a \in t.raw : \E x \in a.occ : o = r(x)
  <2>1. \A o : o \in RawOcc(u) <=> \E a \in t.raw : o \in SubAtom(s, a).occ
    BY <1>1 DEF RawOcc
  <2>2. \A a \in t.raw : SubAtom(s, a).occ = {r(x) : x \in a.occ}
    BY <1>0, <1>2
  <2>3. \A a \in t.raw : \A o : o \in SubAtom(s, a).occ <=> \E x \in a.occ : o = r(x)
    BY <2>2
  <2> QED BY <2>1, <2>3
<1>5. \A o : o \in RawOcc(u) <=> \E x \in RawOcc(t) : o = r(x)
  <2>1. \A x : x \in RawOcc(t) <=> \E a \in t.raw : x \in a.occ
    BY DEF RawOcc
  <2> QED BY <1>4, <2>1
<1>6. \A o \in RawOcc(u) : \E x \in RawOcc(t) : o.cell = x.cell /\ o.name = SubName(s, x.name)
  BY <1>3, <1>5
<1>7. ASSUME PolyOcc(t) \subseteq RawOcc(t), NEW o \in PolyOcc(u)
      PROVE  o \in RawOcc(u)
  <2>1. PICK q \in u.polyhedra : \E b \in q : o \in b.occ
    BY PolyOccIs
  <2>2. PICK b \in q : o \in b.occ
    BY <2>1
  <2>3. PICK p \in t.polyhedra : \E a \in p : \E x \in a.occ : o = [x EXCEPT !.name = SubName(s, x.name)]
    BY <1>0, <1>1, <2>2, SubPolyOcc
  <2>4. PICK a \in p : \E x \in a.occ : o = r(x)
    BY <2>3 DEF r
  <2>5. PICK x \in a.occ : o = r(x)
    BY <2>4
  <2>6. x \in PolyOcc(t)
    BY PolyOccIs
  <2> QED BY <1>5, <1>7, <2>5, <2>6
<1>8. Taken(u) = Taken(t) /\ ({} \in u.polyhedra <=> {} \in t.polyhedra)
  BY <1>1, SubTaken
<1> QED BY <1>6, <1>7, <1>8

\* The names of a map are names of the trace.
SsaMap(map) == \A v \in DOMAIN map : map[v] = Ssa(v, map[v].n)
SsaOccs(occ) == \A o \in occ : o.name = Ssa(o.cell[1], o.name.n)

LEMMA SsaMapVar ==
    ASSUME NEW map, SsaMap(map), NEW v \in DOMAIN map
    PROVE  map[v].var = v /\ map[v].tag = "ssa"
<1>1. map[v] = Ssa(v, map[v].n)
  BY DEF SsaMap
<1>2. Ssa(v, map[v].n).var = v /\ Ssa(v, map[v].n).tag = "ssa"
  BY SsaIs
<1> QED BY <1>1, <1>2

\* What they do together: the name the loop reads becomes the one the stem ends with.
Net(t, so, x) == IF x.var \in DOMAIN t.in \cap DOMAIN so /\ x = t.in[x.var] THEN so[x.var] ELSE x

\* A variable of which both parts end with the same name is one the loop keeps.
CollidingKept(t, so) == \A v \in Colliding(t, so) : v \in DOMAIN t.in /\ t.in[v] = t.out[v]

LEMMA NetIs ==
    ASSUME NEW t, IsTransition(t), NEW so, NameMap(so), SsaMap(so), SsaMap(t.in), SsaMap(t.out),
           CollidingKept(t, so), NEW v \in Vars, NEW k \in 0..MaxName
    PROVE  LET r == RenameCollisions(t, so)
           IN  SubName(StemNames(r, so), SubName(Collisions(t, so), Ssa(v, k))) = Net(t, so, Ssa(v, k))
<1> DEFINE r == RenameCollisions(t, so)
           R == Collisions(t, so)
           P == StemNames(r, so)
           S == {w \in DOMAIN r.in \cap DOMAIN so : r.in[w] # so[w]}
           x == Ssa(v, k)
           fresh == FreshName(v, "loop_fresh")
<1>1. /\ IsTransition(r) /\ DOMAIN r.in = DOMAIN t.in
      /\ \A w \in DOMAIN t.in :
           r.in[w] = IF w \in Colliding(t, so) /\ t.in[w] = t.out[w]
                     THEN FreshName(w, "loop_fresh") ELSE t.in[w]
  BY RenameCollisionsIs
<1>2. /\ \A name \in DOMAIN R :
           /\ name.var \in Colliding(t, so) /\ t.out[name.var] = name
           /\ R[name] = FreshName(name.var, "loop_fresh")
      /\ \A w \in Colliding(t, so) :
           t.out[w] \in DOMAIN R /\ R[t.out[w]] = FreshName(w, "loop_fresh")
  BY CollisionsType
<1> HIDE DEF r, R
<1>3. /\ \A name \in DOMAIN P : name.var \in S /\ r.in[name.var] = name /\ P[name] = so[name.var]
      /\ \A w \in S : r.in[w] \in DOMAIN P /\ P[r.in[w]] = so[w]
  <2>1. NameMap(r.in)
    BY <1>1 DEF IsTransition
  <2>2. S \subseteq DOMAIN r.in \cap DOMAIN so /\ P = Pairing(r.in, so, S)
    BY DEF StemNames
  <2> HIDE DEF P, S
  <2> QED BY <2>1, <2>2, PairingIs
<1> HIDE DEF P
<1>4. x.var = v /\ x.n = k /\ x.tag = "ssa" /\ fresh.var = v /\ fresh.tag = "loop_fresh"
  BY DEF Ssa, FreshName
<1>5. \A w \in DOMAIN so : so[w].tag = "ssa" /\ so[w].var = w
  BY DEF SsaMap, Ssa
<1> HIDE DEF x, fresh
\* A name the loop shares with the end of the stem is made fresh and back.
<1>6. CASE v \in Colliding(t, so)
  <2>1. v \in DOMAIN t.in /\ t.in[v] = t.out[v] /\ v \in DOMAIN t.out /\ t.out[v] \in NamesIn(so)
    BY <1>6 DEF CollidingKept, Colliding
  <2>2. PICK w \in DOMAIN so : t.out[v] = so[w]
    BY <2>1 DEF NamesIn
  <2>3. w = v
    <3>1. t.out[v].var = v /\ so[w].var = w
      BY <1>5, <2>1, SsaMapVar
    <3> QED BY <2>2, <3>1
  <2>4. r.in[v] = fresh /\ so[v] # fresh /\ v \in S
    BY <1>1, <1>4, <1>5, <1>6, <2>1, <2>2, <2>3 DEF fresh
  <2>5. SubName(P, fresh) = so[v]
    BY <1>3, <2>4 DEF SubName
  <2>6. CASE x = t.out[v]
    <3>1. SubName(R, x) = fresh
      BY <1>2, <1>6, <2>6 DEF SubName, fresh
    <3>2. Net(t, so, x) = so[v]
      BY <1>4, <2>1, <2>2, <2>3, <2>6 DEF Net
    <3> QED BY <2>5, <3>1, <3>2 DEF r, R, P, x
  <2>7. CASE x # t.out[v]
    <3>1. SubName(R, x) = x
      BY <1>2, <1>4, <2>7 DEF SubName
    <3>2. x \notin DOMAIN P
      BY <1>3, <1>4, <2>4
    <3>3. Net(t, so, x) = x
      BY <1>4, <2>1, <2>7 DEF Net
    <3> QED BY <3>1, <3>2, <3>3 DEF SubName, r, R, P, x
  <2> QED BY <2>6, <2>7
<1>7. CASE v \notin Colliding(t, so)
  <2>1. SubName(R, x) = x
    BY <1>2, <1>4, <1>7 DEF SubName
  <2>2. v \in DOMAIN t.in => r.in[v] = t.in[v]
    BY <1>1, <1>7
  <2>3. CASE v \in DOMAIN t.in \cap DOMAIN so /\ x = t.in[v]
    <3>1. Net(t, so, x) = so[v]
      BY <1>4, <2>3 DEF Net
    <3>2. SubName(P, x) = so[v]
      BY <1>1, <1>3, <1>4, <2>2, <2>3 DEF SubName
    <3> QED BY <2>1, <3>1, <3>2 DEF r, R, P, x
  <2>4. CASE ~(v \in DOMAIN t.in \cap DOMAIN so /\ x = t.in[v])
    <3>1. Net(t, so, x) = x
      BY <1>4, <2>4 DEF Net
    <3>2. x \notin DOMAIN P
      BY <1>1, <1>3, <1>4, <2>2, <2>4
    <3> QED BY <2>1, <3>1, <3>2 DEF SubName, r, R, P, x
  <2> QED BY <2>3, <2>4
<1> QED BY <1>6, <1>7

\* The loop after connectStemToLoop.
IsConnected(u, t, so) ==
    /\ DOMAIN u.in = DOMAIN t.in /\ DOMAIN u.out = DOMAIN t.out
    /\ \A v \in DOMAIN t.in : u.in[v] = IF v \in DOMAIN so THEN so[v] ELSE t.in[v]
    /\ \A v \in DOMAIN t.out : u.out[v] = Net(t, so, t.out[v])
    /\ \A o \in RawOcc(u) : \E x \in RawOcc(t) : o.cell = x.cell /\ o.name = Net(t, so, x.name)
    /\ PolyOcc(t) \subseteq RawOcc(t) => PolyOcc(u) \subseteq RawOcc(u)
    /\ Taken(u) = Taken(t) /\ ({} \in u.polyhedra <=> {} \in t.polyhedra)

LEMMA Connected ==
    ASSUME NEW t, IsTransition(t), NEW so, NameMap(so), SsaMap(so), SsaMap(t.in), SsaMap(t.out),
           SsaOccs(RawOcc(t)), CollidingKept(t, so)
    PROVE  IsConnected(SubstituteIn(RenameCollisions(t, so), so), t, so)
<1> DEFINE r == RenameCollisions(t, so)
           R == Collisions(t, so)
           P == StemNames(r, so)
           u == SubstituteIn(r, so)
<1>1. /\ IsTransition(r) /\ IsRenaming(r, R, t) /\ DOMAIN r.in = DOMAIN t.in
      /\ \A v \in DOMAIN t.in :
           r.in[v] = IF v \in Colliding(t, so) /\ t.in[v] = t.out[v]
                     THEN FreshName(v, "loop_fresh") ELSE t.in[v]
  BY RenameCollisionsIs
<1>2. IsSubstitution(R)
  BY CollisionsType
<1>3. ASSUME NEW v \in Vars, NEW k \in 0..MaxName
      PROVE  SubName(P, SubName(R, Ssa(v, k))) = Net(t, so, Ssa(v, k))
  BY NetIs
<1> HIDE DEF r, R
<1>4. IsTransition(u) /\ IsRenaming(u, P, r) /\ u.in = SubMap(P, r.in)
  BY <1>1, SubstituteInIs
<1> DEFINE S == {w \in DOMAIN r.in \cap DOMAIN so : r.in[w] # so[w]}
<1>5. /\ IsSubstitution(P)
      /\ \A name \in DOMAIN P : name.var \in S /\ r.in[name.var] = name /\ P[name] = so[name.var]
      /\ \A w \in S : r.in[w] \in DOMAIN P /\ P[r.in[w]] = so[w]
  <2>1. NameMap(r.in)
    BY <1>1 DEF IsTransition
  <2>2. S \subseteq DOMAIN r.in \cap DOMAIN so /\ P = Pairing(r.in, so, S)
    BY DEF StemNames
  <2> HIDE DEF P, S
  <2> QED BY <2>1, <2>2, PairingIs
<1> HIDE DEF P, u
<1>6. \A v \in DOMAIN t.out : v \in Vars /\ t.out[v] = Ssa(v, t.out[v].n) /\ t.out[v].n \in 0..MaxName
  BY DEF IsTransition, NameMap, NamesOf, SsaMap
<1>7. /\ DOMAIN r.out = DOMAIN t.out /\ DOMAIN u.out = DOMAIN t.out
      /\ \A v \in DOMAIN t.out : u.out[v] = SubName(P, SubName(R, t.out[v]))
  BY <1>1, <1>4 DEF IsRenaming, SubMap
<1>8. \A v \in DOMAIN t.out : u.out[v] = Net(t, so, t.out[v])
  BY <1>3, <1>6, <1>7
<1>9. DOMAIN u.in = DOMAIN t.in /\ \A v \in DOMAIN t.in : u.in[v] = SubName(P, r.in[v])
  BY <1>1, <1>4 DEF SubMap
<1>10. ASSUME NEW v \in DOMAIN t.in
       PROVE  u.in[v] = IF v \in DOMAIN so THEN so[v] ELSE t.in[v]
  <2>0. NameMap(r.in) /\ NameMap(t.in)
    BY <1>1 DEF IsTransition
  <2>1. r.in[v].var = v
    BY <1>1, <2>0 DEF NameMap, NamesOf
  <2>2. CASE v \in S
    BY <1>5, <1>9, <2>2 DEF SubName
  <2>3. CASE v \notin S
    <3>1. r.in[v] \notin DOMAIN P
      BY <1>5, <2>1, <2>3
    <3>2. u.in[v] = r.in[v]
      BY <1>9, <3>1 DEF SubName
    <3>3. CASE v \in DOMAIN so
      BY <1>1, <2>3, <3>2, <3>3
    <3>4. CASE v \notin DOMAIN so
      <4>1. v \notin Colliding(t, so)
        <5>1. SUFFICES ASSUME v \in Colliding(t, so) PROVE FALSE
          OBVIOUS
        <5>2. PICK w \in DOMAIN so : t.out[v] = so[w]
          BY <5>1 DEF Colliding, NamesIn
        <5>3. v \in DOMAIN t.out
          BY <5>1 DEF Colliding
        <5>4. t.out[v].var = v /\ so[w].var = w
          BY <5>3, SsaMapVar
        <5>5. w = v
          BY <5>2, <5>4
        <5> QED BY <3>4, <5>5
      <4> QED BY <1>1, <3>2, <3>4, <4>1
    <3> QED BY <3>3, <3>4
  <2> QED BY <2>2, <2>3
<1>11. ASSUME NEW o \in RawOcc(u)
       PROVE  \E x \in RawOcc(t) : o.cell = x.cell /\ o.name = Net(t, so, x.name)
  <2>1. PICK y \in RawOcc(r) : o.cell = y.cell /\ o.name = SubName(P, y.name)
    BY <1>1, <1>4, <1>5, RenamedOccs
  <2>2. PICK x \in RawOcc(t) : y.cell = x.cell /\ y.name = SubName(R, x.name)
    BY <1>1, <1>2, RenamedOccs
  <2>3. x.cell[1] \in Vars /\ x.name = Ssa(x.cell[1], x.name.n) /\ x.name.n \in 0..MaxName
    <3>1. x \in Occurrences
      BY OccsType
    <3>2. x.cell[1] \in Vars /\ x.name \in NamesOf(x.cell[1])
      BY <3>1, OccurrenceName
    <3> QED BY <3>2 DEF NamesOf, SsaOccs
  <2>4. SubName(P, SubName(R, x.name)) = Net(t, so, x.name)
    BY <1>3, <2>3
  <2> QED BY <2>1, <2>2, <2>4
<1>12. PolyOcc(t) \subseteq RawOcc(t) => PolyOcc(u) \subseteq RawOcc(u)
  <2>1. PolyOcc(t) \subseteq RawOcc(t) => PolyOcc(r) \subseteq RawOcc(r)
    BY <1>1, <1>2, RenamedOccs
  <2>2. PolyOcc(r) \subseteq RawOcc(r) => PolyOcc(u) \subseteq RawOcc(u)
    BY <1>1, <1>4, <1>5, RenamedOccs
  <2> QED BY <2>1, <2>2
<1>13. Taken(u) = Taken(t) /\ ({} \in u.polyhedra <=> {} \in t.polyhedra)
  <2>1. Taken(r) = Taken(t) /\ ({} \in r.polyhedra <=> {} \in t.polyhedra)
    BY <1>1, <1>2, RenamedOccs
  <2>2. Taken(u) = Taken(r) /\ ({} \in u.polyhedra <=> {} \in r.polyhedra)
    BY <1>1, <1>4, <1>5, RenamedOccs
  <2> QED BY <2>1, <2>2
<1>14. IsConnected(u, t, so)
  BY <1>7, <1>8, <1>9, <1>10, <1>11, <1>12, <1>13 DEF IsConnected
<1> QED BY <1>14 DEF u, r

LEMMA ReadSsa ==
    ASSUME TypeInv, HistoryOK, NEW part \in Parts, NEW t, IsTransition(t), HasBeenRead(t, part)
    PROVE  SsaMap(t.in) /\ SsaMap(t.out) /\ SsaOccs(RawOcc(t))
<1>1. CASE Unread(t, part)
  <2>1. DOMAIN t.in = {} /\ DOMAIN t.out = {} /\ RawOcc(t) = {}
    BY <1>1, NoOccurrence DEF Unread, NoTransition, EmptyMap
  <2> QED BY <2>1 DEF SsaMap, SsaOccs
<1>2. CASE \E nm : Named(t, part, spans[part].to, nm)
  <2>1. PICK nm : Named(t, part, spans[part].to, nm)
    BY <1>2
  <2>2. SsaOccs(RawOcc(t))
    <3> SUFFICES ASSUME NEW o \in RawOcc(t) PROVE o.name = Ssa(o.cell[1], o.name.n)
      BY DEF SsaOccs
    <3>1. o.name = Ssa(o.cell[1], nm[o.cell[1]][o.cell[2]])
      BY <2>1 DEF Named, Canonical
    <3>2. Ssa(o.cell[1], nm[o.cell[1]][o.cell[2]]).n = nm[o.cell[1]][o.cell[2]]
      BY SsaIs
    <3> QED BY <3>1, <3>2
  <2>3. DOMAIN t.in = Vars /\ DOMAIN t.out = Vars
    BY <2>1 DEF Named
  <2>4. ASSUME NEW v \in Vars
        PROVE  t.in[v] = Ssa(v, t.in[v].n) /\ t.out[v] = Ssa(v, t.out[v].n)
    <3>1. CASE Linearize
      <4>1. /\ t.in[v] = Ssa(v, nm[v][First(part, v)])
            /\ t.out[v] = Ssa(v, nm[v][spans[part].to[v]])
        BY <2>1, <3>1 DEF Named, Composed
      <4>2. /\ Ssa(v, nm[v][First(part, v)]).n = nm[v][First(part, v)]
            /\ Ssa(v, nm[v][spans[part].to[v]]).n = nm[v][spans[part].to[v]]
        BY SsaIs
      <4> QED BY <4>1, <4>2
    <3>2. CASE ~Linearize
      BY <2>1, <3>2 DEF Named, LastLine
    <3> QED BY <3>1, <3>2
  <2> QED BY <2>2, <2>3, <2>4 DEF SsaMap
<1> QED BY <1>1, <1>2 DEF HasBeenRead

\* The loop keeps what it ends with under a name the stem ends with too.
LEMMA Kept ==
    ASSUME TypeInv, HistoryOK, HasBeenRead(stem, "stem"), HasBeenRead(loop, "loop")
    PROVE  CollidingKept(loop, stem.out)
<1> SUFFICES ASSUME NEW v \in DOMAIN loop.out, loop.out[v] \in NamesIn(stem.out)
             PROVE  v \in DOMAIN loop.in /\ loop.in[v] = loop.out[v]
  BY DEF CollidingKept, Colliding
<1>0. IsTransition(loop)
  BY DEF TypeInv
<1>1. PICK w \in DOMAIN stem.out : loop.out[v] = stem.out[w]
  BY DEF NamesIn
<1>2. w \in Vars /\ stem.out[w] = Ssa(w, stem.out[w].n) /\ stem.out[w].n \in Used("stem", w)
  BY StemOutUsed
<1>3. loop.out[v].var = v
  <2>1. SsaMap(loop.out)
    BY <1>0, ReadSsa DEF Parts
  <2> QED BY <2>1, SsaMapVar
<1>4. w = v
  BY <1>1, <1>2, <1>3, SsaIs
<1>5. loop.out[v].n \in Used("stem", v) /\ v \in Vars
  BY <1>1, <1>2, <1>4
<1>6. ~Unread(loop, "loop")
  BY DEF Unread, NoTransition, EmptyMap
<1> DEFINE hi == spans["loop"].to
<1>7. PICK nm : Named(loop, "loop", hi, nm)
  BY <1>6 DEF HasBeenRead
<1>8. /\ First("loop", v) \in Cells("loop", hi, v) /\ hi[v] \in Cells("loop", hi, v)
      /\ First("loop", v) \in Nat /\ hi[v] \in Nat
  <2>1. First("loop", v) <= hi[v]
    BY <1>5, <1>7 DEF Named, IsNaming
  <2>2. First("loop", v) \in Nat /\ hi[v] \in Nat
    BY <1>5, CellsAre DEF Parts
  <2> QED BY <2>1, <2>2 DEF Cells
<1> HIDE DEF hi
<1>9. hi[v] # First("loop", v) => nm[v][hi[v]] \notin Used("stem", v)
  BY <1>5, <1>7, <1>8 DEF Named, Apart
<1>10. DOMAIN loop.in = Vars
  BY <1>7 DEF Named
<1>11. CASE Linearize
  <2>1. /\ loop.in[v] = Ssa(v, nm[v][First("loop", v)])
        /\ loop.out[v] = Ssa(v, nm[v][hi[v]])
    BY <1>5, <1>7, <1>11 DEF Named, Composed
  <2>2. loop.out[v].n = nm[v][hi[v]]
    BY <2>1, SsaIs
  <2> QED BY <1>5, <1>9, <1>10, <2>1, <2>2
<1>12. CASE ~Linearize
  <2>1. loop.out[v] # loop.in[v] => loop.out[v].n = nm[v][hi[v]] /\ First("loop", v) < hi[v]
    BY <1>5, <1>7, <1>12 DEF Named, LastLine
  <2> QED BY <1>5, <1>8, <1>9, <1>10, <2>1
<1> QED BY <1>11, <1>12

LEMMA ConnectStep ==
    ASSUME TypeInv, HistoryOK, HasBeenRead(stem, "stem"), HasBeenRead(loop, "loop"), connectStemToLoop
    PROVE  IsConnected(loop', loop, stem.out)
<1>1. IsTransition(stem) /\ IsTransition(loop) /\ NameMap(stem.out)
  BY DEF TypeInv, IsTransition
<1>2. SsaMap(stem.out) /\ SsaMap(loop.in) /\ SsaMap(loop.out) /\ SsaOccs(RawOcc(loop))
  BY <1>1, ReadSsa DEF Parts
<1>3. CollidingKept(loop, stem.out)
  BY Kept
<1>4. IsConnected(SubstituteIn(RenameCollisions(loop, stem.out), stem.out), loop, stem.out)
  BY <1>1, <1>2, <1>3, Connected
<1> QED BY <1>4 DEF connectStemToLoop

LEMMA NothingToConnect ==
    ASSUME NEW so
    PROVE  SubstituteIn(RenameCollisions(NoTransition, so), so) = NoTransition
<1>1. \A s : SubPolyhedra(s, {{}}) = {{}} /\ SubRaw(s, {}) = {}
  BY DEF SubPolyhedra, SubRaw
<1>2. \A s : SubMap(s, EmptyMap) = EmptyMap
  BY DEF SubMap, EmptyMap
<1>3. RenameCollisions(NoTransition, so) = NoTransition
  BY <1>1, <1>2 DEF RenameCollisions, NoTransition, EmptyMap
<1>4. SubstituteIn(NoTransition, so) = NoTransition
  BY <1>1, <1>2 DEF SubstituteIn, NoTransition
<1> QED BY <1>3, <1>4

\* The naming of the loop that has the stem's name for what is between them.
Joined(nm, so) ==
    [v \in Vars |-> [c \in Nat |-> IF c = First("loop", v) /\ v \in DOMAIN so THEN so[v].n ELSE nm[v][c]]]

LEMMA JoinedIs ==
    ASSUME TypeInv, HistoryOK, HasBeenRead(stem, "stem"), NEW nm, Named(loop, "loop", spans["loop"].to, nm)
    PROVE  LET j == Joined(nm, stem.out)
               hi == spans["loop"].to
           IN  /\ IsNaming(j, "loop", hi)
               /\ \A v \in Vars : \A c \in Cells("loop", hi, v) :
                    /\ c \in Nat
                    /\ c # First("loop", v) => j[v][c] = nm[v][c]
                    /\ c = First("loop", v) /\ v \in DOMAIN stem.out => Ssa(v, j[v][c]) = stem.out[v]
                    /\ v \notin DOMAIN stem.out => j[v][c] = nm[v][c]
<1> DEFINE so == stem.out
           hi == spans["loop"].to
           j == Joined(nm, so)
<1>1. /\ nm \in [Vars -> [Nat -> Nat]]
      /\ \A v \in Vars : First("loop", v) <= hi[v]
      /\ \A v \in Vars : \A c, d \in Cells("loop", hi, v) : nm[v][c] = nm[v][d] => c = d
  BY DEF Named, IsNaming
<1>2. \A v \in Vars : \A c \in Cells("loop", hi, v) :
        c # First("loop", v) => nm[v][c] \notin Used("stem", v)
  BY DEF Named, Apart
<1>3. \A v \in DOMAIN so : v \in Vars /\ so[v] = Ssa(v, so[v].n) /\ so[v].n \in Used("stem", v)
  BY StemOutUsed
<1>4. \A v \in DOMAIN so : so[v].n \in Nat
  <2>1. NameMap(so)
    BY DEF TypeInv, IsTransition
  <2> QED BY <2>1, BoundsAssumption DEF NameMap, NamesOf
<1>5. \A v \in Vars : \A c \in Cells("loop", hi, v) : c \in Nat
  <2> SUFFICES ASSUME NEW v \in Vars, NEW c \in Cells("loop", hi, v) PROVE c \in Nat
    OBVIOUS
  <2>1. First("loop", v) \in Nat
    BY CellsAre DEF Parts
  <2>2. c \in Int /\ First("loop", v) <= c
    BY CellsAre DEF Parts
  <2> QED BY <2>1, <2>2
<1>6. j \in [Vars -> [Nat -> Nat]]
  BY <1>1, <1>4 DEF Joined
<1>7. \A v \in Vars : \A c \in Nat :
        j[v][c] = IF c = First("loop", v) /\ v \in DOMAIN so THEN so[v].n ELSE nm[v][c]
  BY DEF Joined
<1> HIDE DEF j, so, hi
<1>8. ASSUME NEW v \in Vars, NEW c \in Cells("loop", hi, v), NEW d \in Cells("loop", hi, v), j[v][c] = j[v][d]
      PROVE  c = d
  <2>1. c \in Nat /\ d \in Nat
    BY <1>5
  <2> QED BY <1>1, <1>2, <1>3, <1>7, <1>8, <2>1
<1>9. IsNaming(j, "loop", hi)
  BY <1>1, <1>6, <1>8 DEF IsNaming
<1>10. ASSUME NEW v \in Vars, NEW c \in Cells("loop", hi, v)
       PROVE  /\ c \in Nat
              /\ c # First("loop", v) => j[v][c] = nm[v][c]
              /\ c = First("loop", v) /\ v \in DOMAIN so => Ssa(v, j[v][c]) = so[v]
              /\ v \notin DOMAIN so => j[v][c] = nm[v][c]
  BY <1>3, <1>5, <1>7
<1> QED BY <1>9, <1>10 DEF j, so, hi

LEMMA SamePartMeans ==
    ASSUME NEW part, SamePart(part), spans'[part] = spans[part], NEW t, PartMeans(t, part)
    PROVE  PartMeans(t, part)'
<1>1. CASE Unread(t, part)
  BY <1>1, SameUnread DEF PartMeans
<1>2. CASE \E nm : Meant(t, part, nm)
  <2>1. PICK nm : Meant(t, part, nm)
    BY <1>2
  <2>2. PICK hi : hi = spans[part].to
    OBVIOUS
  <2>3. hi = spans'[part].to
    BY <2>2
  <2>4. \A v : First(part, v)' = First(part, v) /\ Cells(part, hi, v)' = Cells(part, hi, v)
    BY DEF First, Cells
  <2>5. IsNaming(nm, part, hi)'
    BY <2>1, <2>2, <2>4 DEF Meant, IsNaming
  <2>6. PolyOcc(t)' = PolyOcc(t) /\ RawOcc(t)' = RawOcc(t) /\ Taken(t)' = Taken(t)
    BY DEF PolyOcc, RawOcc, Taken
  <2>7. Canonical(RawOcc(t), part, hi, nm)'
    BY <2>1, <2>2, <2>4, <2>6 DEF Meant, Canonical
  <2>8. Composed(t, part, hi, nm)'
    <3>1. Composed(t, part, hi, nm) /\ choices'[part] = choices[part]
      BY <2>1, <2>2 DEF Meant, SamePart
    <3> QED BY <2>4, <2>6, <3>1 DEF Composed
  <2>9. DOMAIN t.in = Vars /\ DOMAIN t.out = Vars
    BY <2>1 DEF Meant
  <2>10. Meant(t, part, nm)'
    BY <2>3, <2>5, <2>7, <2>8, <2>9 DEF Meant
  <2> QED BY <2>10 DEF PartMeans
<1> QED BY <1>1, <1>2 DEF PartMeans

LEMMA ConnectedMeans ==
    ASSUME TypeInv, HistoryOK, Linearize, HasBeenRead(stem, "stem"), NEW nm,
           Named(loop, "loop", spans["loop"].to, nm),
           NEW u, IsTransition(u), IsConnected(u, loop, stem.out)
    PROVE  Meant(u, "loop", Joined(nm, stem.out))
<1> DEFINE so == stem.out
           hi == spans["loop"].to
           j == Joined(nm, so)
<1>1. /\ IsNaming(j, "loop", hi)
      /\ \A v \in Vars : \A c \in Cells("loop", hi, v) :
           /\ c \in Nat
           /\ c # First("loop", v) => j[v][c] = nm[v][c]
           /\ c = First("loop", v) /\ v \in DOMAIN so => Ssa(v, j[v][c]) = so[v]
           /\ v \notin DOMAIN so => j[v][c] = nm[v][c]
  BY JoinedIs
<1>2. /\ \A v \in Vars : loop.in[v] = Ssa(v, nm[v][First("loop", v)]) /\ loop.out[v] = Ssa(v, nm[v][hi[v]])
      /\ PolyOcc(loop) \subseteq RawOcc(loop)
      /\ {} \notin loop.polyhedra /\ Taken(loop) = choices["loop"]
      /\ DOMAIN loop.in = Vars /\ DOMAIN loop.out = Vars
      /\ Canonical(RawOcc(loop), "loop", hi, nm) /\ IsNaming(nm, "loop", hi)
  BY DEF Named, Composed
<1>3. /\ DOMAIN u.in = Vars /\ DOMAIN u.out = Vars
      /\ \A v \in Vars : u.in[v] = IF v \in DOMAIN so THEN so[v] ELSE loop.in[v]
      /\ \A v \in Vars : u.out[v] = Net(loop, so, loop.out[v])
      /\ \A o \in RawOcc(u) : \E x \in RawOcc(loop) : o.cell = x.cell /\ o.name = Net(loop, so, x.name)
      /\ PolyOcc(u) \subseteq RawOcc(u)
      /\ {} \notin u.polyhedra /\ Taken(u) = choices["loop"]
  BY <1>2 DEF IsConnected
<1> HIDE DEF j, hi, so
<1>4. ASSUME NEW v \in Vars, NEW c \in Cells("loop", hi, v)
      PROVE  Net(loop, so, Ssa(v, nm[v][c])) = Ssa(v, j[v][c])
  <2> DEFINE x == Ssa(v, nm[v][c])
  <2>1. x.var = v
    BY SsaIs
  <2>2. First("loop", v) \in Cells("loop", hi, v)
    <3>1. First("loop", v) <= hi[v]
      BY <1>2 DEF IsNaming
    <3>2. First("loop", v) \in Nat
      BY CellsAre DEF Parts
    <3> QED BY <3>1, <3>2, CellsAre DEF Parts
  <2>3. x = loop.in[v] <=> c = First("loop", v)
    <3>1. x = loop.in[v] <=> nm[v][c] = nm[v][First("loop", v)]
      BY <1>2, SsaIs
    <3>2. nm[v][c] = nm[v][First("loop", v)] => c = First("loop", v)
      BY <1>2, <2>2 DEF IsNaming
    <3> QED BY <3>1, <3>2
  <2> HIDE DEF x
  <2>4. CASE v \in DOMAIN so /\ c = First("loop", v)
    <3>1. Net(loop, so, x) = so[v]
      BY <1>2, <2>1, <2>3, <2>4 DEF Net
    <3> QED BY <1>1, <2>4, <3>1 DEF x
  <2>5. CASE ~(v \in DOMAIN so /\ c = First("loop", v))
    <3>1. Net(loop, so, x) = x
      BY <1>2, <2>1, <2>3, <2>5 DEF Net
    <3>2. j[v][c] = nm[v][c]
      BY <1>1, <2>5
    <3> QED BY <3>1, <3>2 DEF x
  <2> QED BY <2>4, <2>5
<1>5. ASSUME NEW v \in Vars
      PROVE  First("loop", v) \in Cells("loop", hi, v) /\ hi[v] \in Cells("loop", hi, v)
  <2>1. First("loop", v) <= hi[v]
    BY <1>2 DEF IsNaming
  <2>2. First("loop", v) \in Nat /\ hi[v] \in Nat
    BY CellsAre DEF Parts, hi
  <2> QED BY <2>1, <2>2, CellsAre DEF Parts
<1>6. ASSUME NEW v \in Vars
      PROVE  u.in[v] = Ssa(v, j[v][First("loop", v)]) /\ u.out[v] = Ssa(v, j[v][hi[v]])
  <2>1. u.out[v] = Ssa(v, j[v][hi[v]])
    BY <1>2, <1>3, <1>4, <1>5
  <2>2. u.in[v] = Ssa(v, j[v][First("loop", v)])
    <3>1. CASE v \in DOMAIN so
      BY <1>1, <1>3, <1>5, <3>1
    <3>2. CASE v \notin DOMAIN so
      BY <1>1, <1>2, <1>3, <1>5, <3>2
    <3> QED BY <3>1, <3>2
  <2> QED BY <2>1, <2>2
<1>7. ASSUME NEW o \in RawOcc(u)
      PROVE  o.cell[2] \in Cells("loop", hi, o.cell[1]) /\ o.name = Ssa(o.cell[1], j[o.cell[1]][o.cell[2]])
  <2>1. PICK x \in RawOcc(loop) : o.cell = x.cell /\ o.name = Net(loop, so, x.name)
    BY <1>3
  <2>2. x.cell[2] \in Cells("loop", hi, x.cell[1]) /\ x.name = Ssa(x.cell[1], nm[x.cell[1]][x.cell[2]])
    BY <1>2 DEF Canonical
  <2>3. x.cell[1] \in Vars
    <3>1. IsTransition(loop)
      BY DEF TypeInv
    <3>2. x \in Occurrences
      BY <3>1, OccsType
    <3> QED BY <3>2, OccurrenceName
  <2> QED BY <1>4, <2>1, <2>2, <2>3
<1>8. Composed(u, "loop", hi, j)
  BY <1>3, <1>6 DEF Composed
<1>9. Canonical(RawOcc(u), "loop", hi, j)
  BY <1>7 DEF Canonical
<1>10. Meant(u, "loop", j)
  BY <1>1, <1>3, <1>8, <1>9 DEF Meant, hi
<1> QED BY <1>10 DEF j, so

LEMMA ConnectPolyhedra ==
    ASSUME NamesInv, TypeInv', connectStemToLoop, Linearize
    PROVE  PartMeans(stem, "stem")' /\ PartMeans(loop, "loop")'
<1>1. TypeInv /\ HistoryOK /\ HasBeenRead(stem, "stem") /\ HasBeenRead(loop, "loop")
  BY DEF NamesInv, connectStemToLoop
<1>2. /\ stem' = stem /\ reading' = reading /\ spans' = spans /\ choices' = choices /\ edges' = edges
      /\ loop' = SubstituteIn(RenameCollisions(loop, stem.out), stem.out)
  BY DEF connectStemToLoop, ghosts
<1>3. SamePart("stem") /\ SamePart("loop")
  BY <1>2 DEF SamePart
<1>4. PartMeans(stem, "stem")'
  <2>1. PICK t : t = stem
    OBVIOUS
  <2>2. PartMeans(t, "stem")
    BY <1>1, <2>1, NamedMeant DEF PartMeans, HasBeenRead
  <2>3. PartMeans(t, "stem")'
    BY <1>2, <1>3, <2>2, SamePartMeans
  <2> QED BY <1>2, <2>1, <2>3
<1>5. PartMeans(loop, "loop")'
  <2>1. PICK u : u = loop'
    OBVIOUS
  <2>2. IsTransition(u) /\ IsConnected(u, loop, stem.out)
    <3>1. IsTransition(loop')
      BY DEF TypeInv
    <3>2. IsConnected(loop', loop, stem.out)
      BY <1>1, ConnectStep
    <3> QED BY <2>1, <3>1, <3>2
  <2>3. PartMeans(u, "loop")
    <3>1. CASE Unread(loop, "loop")
      <4>1. u = NoTransition
        BY <1>2, <2>1, <3>1, NothingToConnect DEF Unread
      <4> QED BY <3>1, <4>1 DEF PartMeans, Unread
    <3>2. CASE \E nm : Named(loop, "loop", spans["loop"].to, nm)
      <4>1. PICK nm : Named(loop, "loop", spans["loop"].to, nm)
        BY <3>2
      <4>2. Meant(u, "loop", Joined(nm, stem.out))
        BY <1>1, <2>2, <4>1, ConnectedMeans
      <4> QED BY <4>2 DEF PartMeans
    <3> QED BY <1>1, <3>1, <3>2 DEF HasBeenRead
  <2>4. PartMeans(u, "loop")'
    BY <1>2, <1>3, <2>3, SamePartMeans
  <2> QED BY <2>1, <2>4
<1> QED BY <1>4, <1>5

----------------------------------------------------------------------------
(* The steps after it: names that a part's formula does not mention are    *)
(* dropped, and fresh ones take their places.                              *)

LEMMA PruneMapIs ==
    ASSUME NEW map, NEW live
    PROVE  /\ \A v : v \in DOMAIN PruneMap(map, live)
                     <=> v \in DOMAIN map /\ (v \in program_vars => map[v] \in live)
           /\ \A v \in DOMAIN PruneMap(map, live) : PruneMap(map, live)[v] = map[v]
BY DEF PruneMap

LEMMA EnsureMapIs ==
    ASSUME NEW map, NEW tag
    PROVE  /\ \A v : v \in DOMAIN ensureMapping(map, tag) <=> v \in DOMAIN map \/ v \in program_vars
           /\ \A v \in DOMAIN map : ensureMapping(map, tag)[v] = map[v]
           /\ \A v \in program_vars : v \notin DOMAIN map => ensureMapping(map, tag)[v] = FreshName(v, tag)
BY DEF ensureMapping

LEMMA LiveIs ==
    ASSUME Quoted = {}, NEW t
    PROVE  \A o \in RawOcc(t) : o.name \in Live(t)
BY DEF Live, RawNames

LEMMA PrunedAligned ==
    ASSUME TypeInv, HistoryOK, Quoted = {}, program_vars = Vars \ Arrays,
           NEW part \in Parts, NEW t, IsTransition(t), PartMeans(t, part)
    PROVE  PartAligned(PruneTransition(t), part)
<1> DEFINE u == PruneTransition(t)
<1>1. /\ u.polyhedra = t.polyhedra /\ u.raw = t.raw
      /\ u.in = PruneMap(t.in, Live(t)) /\ u.out = PruneMap(t.out, Live(t))
  BY PruneIs
<1> HIDE DEF u
<1>2. PolyOcc(u) = PolyOcc(t) /\ Taken(u) = Taken(t)
  BY <1>1 DEF PolyOcc, Taken
<1>3. CASE Unread(t, part)
  <2>1. PolyOcc(u) = {}
    BY <1>2, <1>3, NoOccurrence DEF Unread
  <2>2. Taken(t) = choices[part]
    <3>1. t.polyhedra = {{}} /\ choices[part] = {{}}
      BY <1>3 DEF Unread, NoTransition
    <3>2. Taken(t) = {Pairs({})}
      BY <3>1, TakenIs
    <3>3. Pairs({}) = {}
      BY DEF Pairs
    <3> QED BY <3>1, <3>2, <3>3
  <2> QED BY <1>2, <2>1, <2>2, EmptyAligned DEF PartAligned, u
<1>4. CASE \E nm : Meant(t, part, nm)
  <2>1. PICK nm : Meant(t, part, nm)
    BY <1>4
  <2>2. PolyOcc(t) \subseteq RawOcc(t) /\ Taken(t) = choices[part] /\ DOMAIN t.in = Vars /\ DOMAIN t.out = Vars
    BY <2>1 DEF Meant, Composed
  <2>3. Aligned(PolyOcc(t), t, part, Vars \ Arrays)
    BY <2>1, <2>2, MeantAligned
  <2>4. \A o \in PolyOcc(t) : o.name \in Live(t)
    BY <2>2, LiveIs
  <2>5. /\ \A v : v \in DOMAIN u.in <=> v \in DOMAIN t.in /\ (v \in program_vars => t.in[v] \in Live(t))
        /\ \A v \in DOMAIN u.in : u.in[v] = t.in[v]
    BY <1>1, PruneMapIs
  <2>6. /\ \A v : v \in DOMAIN u.out <=> v \in DOMAIN t.out /\ (v \in program_vars => t.out[v] \in Live(t))
        /\ \A v \in DOMAIN u.out : u.out[v] = t.out[v]
    BY <1>1, PruneMapIs
  <2>7. ASSUME NEW o \in PolyOcc(t), NEW v \in Vars \ Arrays
        PROVE  /\ v \in DOMAIN u.in  => (o.name = u.in[v]  <=> o.cell = <<v, spans[part].from[v]>>)
               /\ v \in DOMAIN u.out => (o.name = u.out[v] <=> o.cell = <<v, spans[part].to[v]>>)
               /\ v \notin DOMAIN u.in  => o.cell # <<v, spans[part].from[v]>>
               /\ v \notin DOMAIN u.out => o.cell # <<v, spans[part].to[v]>>
    <3>1. /\ o.name = t.in[v]  <=> o.cell = <<v, spans[part].from[v]>>
          /\ o.name = t.out[v] <=> o.cell = <<v, spans[part].to[v]>>
      BY <2>2, <2>3 DEF Aligned
    <3>2. v \notin DOMAIN u.in => o.name # t.in[v]
      BY <2>2, <2>4, <2>5
    <3>3. v \notin DOMAIN u.out => o.name # t.out[v]
      BY <2>2, <2>4, <2>6
    <3> QED BY <2>5, <2>6, <3>1, <3>2, <3>3
  <2>8. \A o, p \in PolyOcc(t) : o.name = p.name <=> o.cell = p.cell
    BY <2>3 DEF Aligned
  <2>9. Aligned(PolyOcc(u), u, part, Vars \ Arrays)
    BY <1>2, <2>7, <2>8 DEF Aligned
  <2>10. ASSUME NEW o \in PolyOcc(t) PROVE ~IsFresh(o.name)
    <3>1. o.name = Ssa(o.cell[1], nm[o.cell[1]][o.cell[2]])
      BY <2>1, <2>2 DEF Meant, Canonical
    <3> QED BY <3>1, SsaIs DEF IsFresh
  <2> QED BY <1>2, <2>2, <2>9, <2>10 DEF PartAligned, u
<1> QED BY <1>3, <1>4 DEF PartMeans

LEMMA EnsuredAligned ==
    ASSUME TypeInv, NEW part \in Parts, NEW t, IsTransition(t), PartAligned(t, part),
           NEW tagIn \in Tags \ {"ssa"}, NEW tagOut \in Tags \ {"ssa"}
    PROVE  PartAligned(Ensured(t, tagIn, tagOut), part)
<1> DEFINE u == Ensured(t, tagIn, tagOut)
<1>1. /\ u.polyhedra = t.polyhedra
      /\ u.in = ensureMapping(t.in, tagIn) /\ u.out = ensureMapping(t.out, tagOut)
  BY DEF Ensured
<1> HIDE DEF u
<1>2. PolyOcc(u) = PolyOcc(t) /\ Taken(u) = Taken(t)
  BY <1>1 DEF PolyOcc, Taken
<1>3. /\ \A v : v \in DOMAIN u.in <=> v \in DOMAIN t.in \/ v \in program_vars
      /\ \A v \in DOMAIN t.in : u.in[v] = t.in[v]
      /\ \A v \in program_vars : v \notin DOMAIN t.in => u.in[v] = FreshName(v, tagIn)
  BY <1>1, EnsureMapIs
<1>4. /\ \A v : v \in DOMAIN u.out <=> v \in DOMAIN t.out \/ v \in program_vars
      /\ \A v \in DOMAIN t.out : u.out[v] = t.out[v]
      /\ \A v \in program_vars : v \notin DOMAIN t.out => u.out[v] = FreshName(v, tagOut)
  BY <1>1, EnsureMapIs
<1>5. \A v : FreshName(v, tagIn).tag # "ssa" /\ FreshName(v, tagOut).tag # "ssa"
  BY DEF FreshName
<1>6. /\ Aligned(PolyOcc(t), t, part, Vars \ Arrays)
      /\ \A o \in PolyOcc(t) : o.name.tag = "ssa"
      /\ Taken(t) = choices[part]
  BY DEF PartAligned, IsFresh
<1>7. ASSUME NEW o \in PolyOcc(t), NEW v \in Vars \ Arrays
      PROVE  /\ v \in DOMAIN u.in  => (o.name = u.in[v]  <=> o.cell = <<v, spans[part].from[v]>>)
             /\ v \in DOMAIN u.out => (o.name = u.out[v] <=> o.cell = <<v, spans[part].to[v]>>)
             /\ v \notin DOMAIN u.in  => o.cell # <<v, spans[part].from[v]>>
             /\ v \notin DOMAIN u.out => o.cell # <<v, spans[part].to[v]>>
  <2>1. /\ v \in DOMAIN t.in  => (o.name = t.in[v]  <=> o.cell = <<v, spans[part].from[v]>>)
        /\ v \in DOMAIN t.out => (o.name = t.out[v] <=> o.cell = <<v, spans[part].to[v]>>)
        /\ v \notin DOMAIN t.in  => o.cell # <<v, spans[part].from[v]>>
        /\ v \notin DOMAIN t.out => o.cell # <<v, spans[part].to[v]>>
    BY <1>6 DEF Aligned
  <2>2. o.name # FreshName(v, tagIn) /\ o.name # FreshName(v, tagOut)
    BY <1>5, <1>6
  <2> QED BY <1>3, <1>4, <2>1, <2>2
<1>8. \A o, p \in PolyOcc(t) : o.name = p.name <=> o.cell = p.cell
  BY <1>6 DEF Aligned
<1>9. Aligned(PolyOcc(u), u, part, Vars \ Arrays)
  BY <1>2, <1>7, <1>8 DEF Aligned
<1> QED BY <1>2, <1>6, <1>9 DEF PartAligned, IsFresh, u

LEMMA SamePartAligned ==
    ASSUME NEW part, SamePart(part), spans'[part] = spans[part], NEW t, PartAligned(t, part)
    PROVE  PartAligned(t, part)'
<1>1. PolyOcc(t)' = PolyOcc(t) /\ Taken(t)' = Taken(t)
  BY DEF PolyOcc, Taken
<1>2. Aligned(PolyOcc(t), t, part, Vars \ Arrays)'
  BY <1>1 DEF PartAligned, Aligned
<1> QED BY <1>1, <1>2 DEF PartAligned, SamePart

----------------------------------------------------------------------------
(* The names of the fixpoint technique's lasso, once both parts are read.  *)

\* The names of a variable in the maps of both parts, the loop's being lo's.
KnownOf(lo, v) ==
    {x \in NamesIn(stem.in) \cup NamesIn(stem.out) \cup NamesIn(lo.in) \cup NamesIn(lo.out) : x.var = v}

LEMMA NamesInVar ==
    ASSUME NEW map, NameMap(map), NEW v, NEW x \in NamesIn(map), x.var = v
    PROVE  v \in DOMAIN map /\ x = map[v]
<1>1. PICK w \in DOMAIN map : x = map[w]
  BY DEF NamesIn
<1>2. map[w].var = w
  BY DEF NameMap, NamesOf
<1> QED BY <1>1, <1>2

LEMMA KnownOfIs ==
    ASSUME TypeInv, NEW lo, IsTransition(lo), NEW v, NEW x \in KnownOf(lo, v)
    PROVE  \/ v \in DOMAIN stem.in /\ x = stem.in[v]
           \/ v \in DOMAIN stem.out /\ x = stem.out[v]
           \/ v \in DOMAIN lo.in /\ x = lo.in[v]
           \/ v \in DOMAIN lo.out /\ x = lo.out[v]
<1>1. NameMap(stem.in) /\ NameMap(stem.out) /\ NameMap(lo.in) /\ NameMap(lo.out)
  BY DEF TypeInv, IsTransition
<1>2. x.var = v
  BY DEF KnownOf
<1>3. x \in NamesIn(stem.in) \/ x \in NamesIn(stem.out) \/ x \in NamesIn(lo.in) \/ x \in NamesIn(lo.out)
  BY DEF KnownOf
<1> QED BY <1>1, <1>2, <1>3, NamesInVar

\* The maps of a part that was read without polyhedra.
LEMMA LastLineIs ==
    ASSUME TypeInv, HistoryOK, ~Linearize, NEW part \in Parts, NEW t, NEW nm,
           Named(t, part, spans[part].to, nm), NEW v \in Vars
    PROVE  /\ v \in DOMAIN t.in /\ v \in DOMAIN t.out
           /\ t.in[v] = Ssa(v, t.in[v].n) /\ t.in[v].n \in Used(part, v)
           /\ t.out[v] = Ssa(v, t.out[v].n) /\ t.out[v].n \in Used(part, v)
           /\ t.out[v] # t.in[v] => /\ t.out[v].n = nm[v][spans[part].to[v]]
                                    /\ First(part, v) < spans[part].to[v]
           /\ First(part, v) \in Cells(part, spans[part].to, v)
           /\ spans[part].to[v] \in Cells(part, spans[part].to, v)
           /\ \A c \in Cells(part, spans[part].to, v) :
                /\ nm[v][c] \in Used(part, v)
                /\ \A d \in Cells(part, spans[part].to, v) : nm[v][c] = nm[v][d] => c = d
<1>1. /\ IsNaming(nm, part, spans[part].to) /\ Apart(part, spans[part].to, nm)
      /\ DOMAIN t.in = Vars /\ DOMAIN t.out = Vars /\ LastLine(t, part, spans[part].to, nm)
  BY DEF Named
<1>2. /\ First(part, v) \in Cells(part, spans[part].to, v)
      /\ spans[part].to[v] \in Cells(part, spans[part].to, v)
  <2>1. First(part, v) <= spans[part].to[v]
    BY <1>1 DEF IsNaming
  <2>2. First(part, v) \in Nat /\ spans[part].to[v] \in Nat
    BY CellsAre
  <2> QED BY <2>1, <2>2, CellsAre
<1>3. \A c \in Cells(part, spans[part].to, v) :
        /\ nm[v][c] \in Used(part, v)
        /\ \A d \in Cells(part, spans[part].to, v) : nm[v][c] = nm[v][d] => c = d
  BY <1>1 DEF IsNaming, Apart
<1> QED BY <1>1, <1>2, <1>3 DEF LastLine

\* What the three lemmas below are about: the loop u after connectStemToLoop.
JustConnected(u, nm) ==
    /\ TypeInv /\ HistoryOK /\ ~Linearize /\ phase = "connect" /\ HasBeenRead(stem, "stem")
    /\ Named(loop, "loop", spans["loop"].to, nm)
    /\ IsTransition(u) /\ IsConnected(u, loop, stem.out)

LEMMA ConnectedMaps ==
    ASSUME NEW u, NEW nm, JustConnected(u, nm), NEW v \in Vars
    PROVE  /\ v \in DOMAIN u.in /\ v \in DOMAIN u.out
           /\ u.in[v] = IF v \in DOMAIN stem.out THEN stem.out[v] ELSE loop.in[v]
           /\ u.out[v] = IF v \in DOMAIN stem.out /\ loop.out[v] = loop.in[v] THEN stem.out[v] ELSE loop.out[v]
           /\ \A n : Net(loop, stem.out, Ssa(v, n))
                       = IF v \in DOMAIN stem.out /\ Ssa(v, n) = loop.in[v] THEN stem.out[v] ELSE Ssa(v, n)
<1>1. /\ v \in DOMAIN loop.in /\ v \in DOMAIN loop.out /\ loop.out[v] = Ssa(v, loop.out[v].n)
  BY LastLineIs DEF JustConnected, Parts
<1>2. /\ v \in DOMAIN u.in /\ v \in DOMAIN u.out
      /\ u.in[v] = IF v \in DOMAIN stem.out THEN stem.out[v] ELSE loop.in[v]
      /\ u.out[v] = Net(loop, stem.out, loop.out[v])
  BY <1>1 DEF JustConnected, IsConnected
<1>3. ASSUME NEW n
      PROVE  Net(loop, stem.out, Ssa(v, n))
               = IF v \in DOMAIN stem.out /\ Ssa(v, n) = loop.in[v] THEN stem.out[v] ELSE Ssa(v, n)
  <2>1. Ssa(v, n).var = v
    BY SsaIs
  <2> QED BY <1>1, <2>1 DEF Net
<1> QED BY <1>1, <1>2, <1>3

LEMMA StemMaps ==
    ASSUME NEW u, NEW nm, JustConnected(u, nm), NEW v \in Vars
    PROVE  /\ v \in DOMAIN stem.in => v \in DOMAIN stem.out /\ stem.in[v].n \in Used("stem", v)
           /\ v \in DOMAIN stem.out => stem.out[v].n \in Used("stem", v)
<1>1. CASE Unread(stem, "stem")
  <2>1. DOMAIN stem.in = {} /\ DOMAIN stem.out = {}
    BY <1>1 DEF Unread, NoTransition, EmptyMap
  <2> QED BY <2>1
<1>2. CASE \E sm : Named(stem, "stem", spans["stem"].to, sm)
  BY <1>2, LastLineIs DEF JustConnected, Parts
<1> QED BY <1>1, <1>2 DEF JustConnected, HasBeenRead

\* What the loop writes last has a name of its own.
LEMMA LoopOut ==
    ASSUME NEW u, NEW nm, JustConnected(u, nm), NEW v \in Vars
    PROVE  /\ u.out[v] = u.in[v]
              \/ /\ First("loop", v) < spans["loop"].to[v] /\ u.out[v].n = nm[v][spans["loop"].to[v]]
                 /\ u.out[v] = Ssa(v, u.out[v].n)
           /\ First("loop", v) < spans["loop"].to[v] =>
                /\ nm[v][spans["loop"].to[v]] \notin Used("stem", v)
                /\ nm[v][spans["loop"].to[v]] # nm[v][First("loop", v)]
<1> DEFINE hi == spans["loop"].to
<1>1. Named(loop, "loop", hi, nm) /\ TypeInv /\ HistoryOK /\ ~Linearize
  BY DEF JustConnected
<1>2. /\ loop.out[v] # loop.in[v] => loop.out[v].n = nm[v][hi[v]] /\ First("loop", v) < hi[v]
      /\ First("loop", v) \in Cells("loop", hi, v) /\ hi[v] \in Cells("loop", hi, v)
      /\ loop.out[v] = Ssa(v, loop.out[v].n)
      /\ \A c, d \in Cells("loop", hi, v) : nm[v][c] = nm[v][d] => c = d
  BY <1>1, LastLineIs DEF Parts
<1>3. First("loop", v) \in Nat /\ hi[v] \in Nat
  BY <1>1, CellsAre DEF Parts
<1>4. /\ u.in[v] = IF v \in DOMAIN stem.out THEN stem.out[v] ELSE loop.in[v]
      /\ u.out[v] = IF v \in DOMAIN stem.out /\ loop.out[v] = loop.in[v] THEN stem.out[v] ELSE loop.out[v]
  BY ConnectedMaps
<1> HIDE DEF hi
<1>5. ASSUME First("loop", v) < hi[v]
      PROVE  nm[v][hi[v]] \notin Used("stem", v) /\ nm[v][hi[v]] # nm[v][First("loop", v)]
  <2>1. hi[v] # First("loop", v)
    BY <1>3, <1>5
  <2> QED BY <1>1, <1>2, <2>1 DEF Named, Apart
<1>6. CASE loop.out[v] = loop.in[v]
  BY <1>4, <1>5, <1>6 DEF hi
<1>7. CASE loop.out[v] # loop.in[v]
  <2>1. u.out[v] = loop.out[v]
    BY <1>4, <1>7
  <2> QED BY <1>2, <1>5, <1>7, <2>1 DEF hi
<1> QED BY <1>6, <1>7

\* Of the stem's names for what it ends with, the maps have the one the loop reads.
LEMMA StemEnd ==
    ASSUME NEW u, NEW nm, JustConnected(u, nm), NEW sm, Named(stem, "stem", spans["stem"].to, sm),
           NEW v \in Vars, Ssa(v, sm[v][First("loop", v)]) \in KnownOf(u, v)
    PROVE  Ssa(v, sm[v][First("loop", v)]) = u.in[v]
<1> DEFINE e == Ssa(v, sm[v][First("loop", v)])
           to == spans["stem"].to
<1>1. TypeInv /\ HistoryOK /\ ~Linearize /\ IsTransition(u) /\ phase = "connect"
  BY DEF JustConnected
<1>2. First("loop", v) = to[v]
  BY <1>1 DEF HistoryOK, First
<1>3. /\ v \in DOMAIN stem.in /\ v \in DOMAIN stem.out
      /\ stem.out[v] = Ssa(v, stem.out[v].n)
      /\ stem.out[v] # stem.in[v] => stem.out[v].n = sm[v][to[v]]
      /\ to[v] \in Cells("stem", to, v)
      /\ \A c \in Cells("stem", to, v) : sm[v][c] \in Used("stem", v)
  BY <1>1, LastLineIs DEF Parts
<1>4. e.n \in Used("stem", v) /\ e.n = sm[v][to[v]]
  BY <1>2, <1>3, SsaIs
<1>5. u.in[v] = stem.out[v]
  BY <1>3, ConnectedMaps
<1>6. e = stem.in[v] \/ e = stem.out[v] \/ e = u.in[v] \/ e = u.out[v]
  <2> HIDE DEF e
  <2>1. e \in KnownOf(u, v)
    BY DEF e
  <2> QED BY <1>1, <2>1, KnownOfIs
<1> HIDE DEF to
<1>7. CASE e = stem.in[v]
  <2>1. CASE stem.out[v] = stem.in[v]
    BY <1>5, <1>7, <2>1
  <2>2. CASE stem.out[v] # stem.in[v]
    BY <1>2, <1>3, <1>5, <2>2
  <2> QED BY <2>1, <2>2
<1>8. CASE e = u.out[v]
  <2>1. CASE u.out[v] = u.in[v]
    BY <1>8, <2>1
  <2>2. CASE u.out[v] # u.in[v]
    <3>1. u.out[v].n \notin Used("stem", v)
      BY <2>2, LoopOut
    <3> HIDE DEF e
    <3> QED BY <1>4, <1>8, <3>1
  <2> QED BY <2>1, <2>2
<1> QED BY <1>5, <1>6, <1>7, <1>8

\* And so it is of the loop's names for it.
LEMMA LoopStart ==
    ASSUME NEW u, NEW nm, JustConnected(u, nm), NEW v \in Vars,
           Net(loop, stem.out, Ssa(v, nm[v][First("loop", v)])) \in KnownOf(u, v)
    PROVE  Net(loop, stem.out, Ssa(v, nm[v][First("loop", v)])) = u.in[v]
<1> DEFINE x == Ssa(v, nm[v][First("loop", v)])
           b == Net(loop, stem.out, x)
           hi == spans["loop"].to
<1>1. TypeInv /\ HistoryOK /\ ~Linearize /\ IsTransition(u) /\ Named(loop, "loop", hi, nm)
  BY DEF JustConnected
<1>2. /\ u.in[v] = IF v \in DOMAIN stem.out THEN stem.out[v] ELSE loop.in[v]
      /\ b = IF v \in DOMAIN stem.out /\ x = loop.in[v] THEN stem.out[v] ELSE x
  BY ConnectedMaps
<1>3. /\ v \in DOMAIN stem.in => v \in DOMAIN stem.out /\ stem.in[v].n \in Used("stem", v)
      /\ v \in DOMAIN stem.out => stem.out[v].n \in Used("stem", v)
  BY StemMaps
<1>4. First("loop", v) \in Cells("loop", hi, v)
  BY <1>1, LastLineIs DEF Parts
<1>5. x.n = nm[v][First("loop", v)]
  BY SsaIs
<1>6. x.n \in Used("stem", v) => v \in DOMAIN stem.out /\ stem.out[v] = x
  BY <1>1, <1>4, <1>5 DEF Named, Apart
<1>7. u.out[v] = u.in[v] \/ u.out[v].n # x.n
  BY <1>5, LoopOut
<1> HIDE DEF b, x
<1>8. b \in KnownOf(u, v)
  BY DEF b, x
<1>9. \/ v \in DOMAIN stem.in /\ b = stem.in[v] 
      \/ v \in DOMAIN stem.out /\ b = stem.out[v]
      \/ b = u.in[v] \/ b = u.out[v]
  BY <1>1, <1>8, KnownOfIs
<1>10. CASE b = x
  BY <1>2, <1>3, <1>6, <1>7, <1>9, <1>10 DEF b, x
<1>11. CASE b # x
  BY <1>2, <1>11 DEF b, x
<1> QED BY <1>10, <1>11

\* Of its names for what it ends with, if it is something else, the maps have
\* that one or the one it ends with.
LEMMA LoopEnd ==
    ASSUME NEW u, NEW nm, JustConnected(u, nm), NEW v \in Vars,
           First("loop", v) < spans["loop"].to[v],
           Net(loop, stem.out, Ssa(v, nm[v][spans["loop"].to[v]])) \in KnownOf(u, v)
    PROVE  \/ Net(loop, stem.out, Ssa(v, nm[v][spans["loop"].to[v]])) = u.in[v]
           \/ Net(loop, stem.out, Ssa(v, nm[v][spans["loop"].to[v]])) = u.out[v]
<1> DEFINE hi == spans["loop"].to
           x == Ssa(v, nm[v][hi[v]])
           h == Net(loop, stem.out, x)
<1>1. TypeInv /\ HistoryOK /\ ~Linearize /\ IsTransition(u)
  BY DEF JustConnected
<1>2. /\ u.in[v] = IF v \in DOMAIN stem.out THEN stem.out[v] ELSE loop.in[v]
      /\ h = IF v \in DOMAIN stem.out /\ x = loop.in[v] THEN stem.out[v] ELSE x
  BY ConnectedMaps
<1>3. /\ v \in DOMAIN stem.in => v \in DOMAIN stem.out /\ stem.in[v].n \in Used("stem", v)
      /\ v \in DOMAIN stem.out => stem.out[v].n \in Used("stem", v)
  BY StemMaps
<1>4. x.n \notin Used("stem", v)
  <2>1. x.n = nm[v][hi[v]]
    BY SsaIs
  <2> QED BY <2>1, LoopOut
<1> HIDE DEF h, x
<1>5. h \in KnownOf(u, v)
  BY DEF h, x
<1>6. \/ v \in DOMAIN stem.in /\ h = stem.in[v]
      \/ v \in DOMAIN stem.out /\ h = stem.out[v]
      \/ h = u.in[v] \/ h = u.out[v]
  BY <1>1, <1>5, KnownOfIs
<1>7. CASE h = x
  BY <1>3, <1>4, <1>6, <1>7 DEF h, x
<1>8. CASE h # x
  BY <1>2, <1>8 DEF h, x
<1> QED BY <1>7, <1>8

\* The occurrences of the stem and of the connected loop.
LEMMA StemOccurrence ==
    ASSUME TypeInv, HistoryOK, NEW sm, Named(stem, "stem", spans["stem"].to, sm), NEW o \in RawOcc(stem)
    PROVE  \E v \in Vars : \E c \in Cells("stem", spans["stem"].to, v) :
             o.cell = <<v, c>> /\ o.name = Ssa(v, sm[v][c])
<1>1. o \in Occurrences
  BY OccsType DEF TypeInv
<1>2. /\ o.cell[2] \in Cells("stem", spans["stem"].to, o.cell[1])
      /\ o.name = Ssa(o.cell[1], sm[o.cell[1]][o.cell[2]])
  BY DEF Named, Canonical
<1>3. o.cell = <<o.cell[1], o.cell[2]>> /\ o.cell[1] \in Vars
  BY <1>1 DEF Occurrences
<1> QED BY <1>2, <1>3

LEMMA LoopOccurrence ==
    ASSUME NEW u, NEW nm, JustConnected(u, nm), NEW o \in RawOcc(u)
    PROVE  \E v \in Vars : \E c \in Cells("loop", spans["loop"].to, v) :
             o.cell = <<v, c>> /\ o.name = Net(loop, stem.out, Ssa(v, nm[v][c]))
<1>1. PICK x \in RawOcc(loop) : o.cell = x.cell /\ o.name = Net(loop, stem.out, x.name)
  BY DEF JustConnected, IsConnected
<1>2. x \in Occurrences
  BY OccsType DEF JustConnected, TypeInv
<1>3. /\ x.cell[2] \in Cells("loop", spans["loop"].to, x.cell[1])
      /\ x.name = Ssa(x.cell[1], nm[x.cell[1]][x.cell[2]])
  BY DEF JustConnected, Named, Canonical
<1>4. x.cell = <<x.cell[1], x.cell[2]>> /\ x.cell[1] \in Vars
  BY <1>2 DEF Occurrences
<1> QED BY <1>1, <1>3, <1>4

LEMMA NetSsa ==
    ASSUME NEW u, NEW nm, JustConnected(u, nm), NEW v \in Vars, NEW n
    PROVE  Net(loop, stem.out, Ssa(v, n)).var = v /\ Net(loop, stem.out, Ssa(v, n)).tag = "ssa"
<1>1. SsaMap(stem.out)
  BY ReadSsa DEF JustConnected, TypeInv, Parts
<1>2. v \in DOMAIN stem.out => stem.out[v].var = v /\ stem.out[v].tag = "ssa"
  BY <1>1, SsaMapVar
<1>3. Net(loop, stem.out, Ssa(v, n)) = IF v \in DOMAIN stem.out /\ Ssa(v, n) = loop.in[v] THEN stem.out[v] ELSE Ssa(v, n)
  BY ConnectedMaps
<1>4. Ssa(v, n).var = v /\ Ssa(v, n).tag = "ssa"
  BY SsaIs
<1> QED BY <1>2, <1>3, <1>4

\* The names that are in the maps once the loop is u.
KnownWith(u) == NamesIn(stem.in) \cup NamesIn(stem.out) \cup NamesIn(u.in) \cup NamesIn(u.out)

LEMMA KnownVar ==
    ASSUME NEW u, NEW v, NEW x \in KnownWith(u), x.var = v
    PROVE  x \in KnownOf(u, v)
BY DEF KnownWith, KnownOf

\* A value of the stem that the loop has too is the one between them.
LEMMA SharedCell ==
    ASSUME NEW u, NEW nm, JustConnected(u, nm), NEW o \in RawOcc(stem), NEW p \in RawOcc(u),
           o.cell = p.cell, o.name \in KnownWith(u), p.name \in KnownWith(u)
    PROVE  o.name = p.name
<1>1. TypeInv /\ HistoryOK /\ phase = "connect" /\ HasBeenRead(stem, "stem")
  BY DEF JustConnected
<1>2. ~Unread(stem, "stem")
  BY NoOccurrence DEF Unread
<1>3. PICK sm : Named(stem, "stem", spans["stem"].to, sm)
  BY <1>1, <1>2 DEF HasBeenRead
<1>4. PICK v \in Vars : \E c \in Cells("stem", spans["stem"].to, v) :
        o.cell = <<v, c>> /\ o.name = Ssa(v, sm[v][c])
  BY <1>1, <1>3, StemOccurrence
<1>5. PICK c \in Cells("stem", spans["stem"].to, v) : o.cell = <<v, c>> /\ o.name = Ssa(v, sm[v][c])
  BY <1>4
<1>6. PICK w \in Vars : \E d \in Cells("loop", spans["loop"].to, w) :
        p.cell = <<w, d>> /\ p.name = Net(loop, stem.out, Ssa(w, nm[w][d]))
  BY LoopOccurrence
<1>7. PICK d \in Cells("loop", spans["loop"].to, w) :
        p.cell = <<w, d>> /\ p.name = Net(loop, stem.out, Ssa(w, nm[w][d]))
  BY <1>6
<1>8. w = v /\ d = c
  <2>1. <<v, c>> = <<w, d>>
    BY <1>5, <1>7
  <2> QED BY <2>1
<1>9. c = First("loop", v)
  <2>1. c \in Int /\ c <= spans["stem"].to[v]
    BY <1>1, <1>5, CellsAre DEF Parts
  <2>2. First("loop", v) <= c
    BY <1>1, <1>7, <1>8, CellsAre DEF Parts
  <2>3. First("loop", v) = spans["stem"].to[v] /\ First("loop", v) \in Nat
    <3>1. spans["stem"].to = spans["loop"].from
      BY <1>1 DEF HistoryOK
    <3> QED BY <1>1, <3>1, CellsAre DEF First, Parts
  <2> QED BY <2>1, <2>2, <2>3
<1>10. o.name = Ssa(v, sm[v][First("loop", v)])
  BY <1>5, <1>9
<1>11. p.name = Net(loop, stem.out, Ssa(v, nm[v][First("loop", v)]))
  BY <1>7, <1>8, <1>9
<1>12. Ssa(v, sm[v][First("loop", v)]) \in KnownOf(u, v)
  BY <1>10, KnownVar, SsaIs
<1>13. Net(loop, stem.out, Ssa(v, nm[v][First("loop", v)])) \in KnownOf(u, v)
  BY <1>11, KnownVar, NetSsa
<1>14. o.name = u.in[v]
  BY <1>3, <1>10, <1>12, StemEnd
<1>15. p.name = u.in[v]
  BY <1>11, <1>13, LoopStart
<1> QED BY <1>14, <1>15

LEMMA StemOneName ==
    ASSUME HasBeenRead(stem, "stem"), NEW o \in RawOcc(stem), NEW p \in RawOcc(stem), o.cell = p.cell
    PROVE  o.name = p.name /\ ~IsFresh(o.name)
<1>1. ~Unread(stem, "stem")
  BY NoOccurrence DEF Unread
<1>2. PICK sm : Named(stem, "stem", spans["stem"].to, sm)
  BY <1>1 DEF HasBeenRead
<1>3. /\ o.name = Ssa(o.cell[1], sm[o.cell[1]][o.cell[2]])
      /\ p.name = Ssa(p.cell[1], sm[p.cell[1]][p.cell[2]])
  BY <1>2 DEF Named, Canonical
<1> QED BY <1>3, SsaIs DEF IsFresh

LEMMA OneName ==
    ASSUME NEW u, NEW nm, JustConnected(u, nm),
           NEW o \in RawOcc(stem) \cup RawOcc(u), NEW p \in RawOcc(stem) \cup RawOcc(u),
           o.cell = p.cell, o.name \in KnownWith(u), p.name \in KnownWith(u)
    PROVE  o.name = p.name
<1>1. CASE o \in RawOcc(stem) /\ p \in RawOcc(stem)
  BY <1>1, StemOneName DEF JustConnected
<1>2. CASE o \in RawOcc(u) /\ p \in RawOcc(u)
  <2>1. PICK v \in Vars : \E c \in Cells("loop", spans["loop"].to, v) :
          o.cell = <<v, c>> /\ o.name = Net(loop, stem.out, Ssa(v, nm[v][c]))
    BY <1>2, LoopOccurrence
  <2>2. PICK c : o.cell = <<v, c>> /\ o.name = Net(loop, stem.out, Ssa(v, nm[v][c]))
    BY <2>1
  <2>3. PICK w \in Vars : \E d \in Cells("loop", spans["loop"].to, w) :
          p.cell = <<w, d>> /\ p.name = Net(loop, stem.out, Ssa(w, nm[w][d]))
    BY <1>2, LoopOccurrence
  <2>4. PICK d : p.cell = <<w, d>> /\ p.name = Net(loop, stem.out, Ssa(w, nm[w][d]))
    BY <2>3
  <2>5. w = v /\ d = c
    <3>1. <<v, c>> = <<w, d>>
      BY <2>2, <2>4
    <3> QED BY <3>1
  <2> QED BY <2>2, <2>4, <2>5
<1>3. CASE o \in RawOcc(stem) /\ p \in RawOcc(u)
  BY <1>3, SharedCell
<1>4. CASE o \in RawOcc(u) /\ p \in RawOcc(stem)
  BY <1>4, SharedCell
<1> QED BY <1>1, <1>2, <1>3, <1>4

LEMMA BothEnds ==
    ASSUME NEW u, NEW nm, JustConnected(u, nm), NEW o \in RawOcc(u), NEW p \in RawOcc(u), NEW v \in Vars,
           o.cell = <<v, First("loop", v)>>, p.cell = <<v, spans["loop"].to[v]>>,
           o.name \in KnownWith(u), p.name \in KnownWith(u)
    PROVE  \/ o.name = p.name
           \/ v \in DOMAIN u.in /\ u.in[v] = o.name /\ v \in DOMAIN u.out /\ u.out[v] = p.name
<1>1. TypeInv /\ HistoryOK
  BY DEF JustConnected
<1>2. PICK w \in Vars : \E c \in Cells("loop", spans["loop"].to, w) :
        o.cell = <<w, c>> /\ o.name = Net(loop, stem.out, Ssa(w, nm[w][c]))
  BY LoopOccurrence
<1>3. PICK c \in Cells("loop", spans["loop"].to, w) :
        o.cell = <<w, c>> /\ o.name = Net(loop, stem.out, Ssa(w, nm[w][c]))
  BY <1>2
<1>4. o.name = Net(loop, stem.out, Ssa(v, nm[v][First("loop", v)]))
  <2>1. w = v /\ c = First("loop", v)
    BY <1>3
  <2> QED BY <1>3, <2>1
<1>5. PICK x \in Vars : \E d \in Cells("loop", spans["loop"].to, x) :
        p.cell = <<x, d>> /\ p.name = Net(loop, stem.out, Ssa(x, nm[x][d]))
  BY LoopOccurrence
<1>6. PICK d \in Cells("loop", spans["loop"].to, x) :
        p.cell = <<x, d>> /\ p.name = Net(loop, stem.out, Ssa(x, nm[x][d]))
  BY <1>5
<1>7. p.name = Net(loop, stem.out, Ssa(v, nm[v][spans["loop"].to[v]]))
  <2>1. x = v /\ d = spans["loop"].to[v]
    BY <1>6
  <2> QED BY <1>6, <2>1
<1>8. Net(loop, stem.out, Ssa(v, nm[v][First("loop", v)])) \in KnownOf(u, v)
  BY <1>4, KnownVar, NetSsa
<1>9. Net(loop, stem.out, Ssa(v, nm[v][spans["loop"].to[v]])) \in KnownOf(u, v)
  BY <1>7, KnownVar, NetSsa
<1>10. o.name = u.in[v]
  BY <1>4, <1>8, LoopStart
<1>11. CASE First("loop", v) < spans["loop"].to[v]
  <2>1. p.name = u.in[v] \/ p.name = u.out[v]
    BY <1>7, <1>9, <1>11, LoopEnd
  <2>2. v \in DOMAIN u.in /\ v \in DOMAIN u.out
    BY ConnectedMaps
  <2> QED BY <1>10, <2>1, <2>2
<1>12. CASE ~(First("loop", v) < spans["loop"].to[v])
  <2>1. First("loop", v) \in Nat /\ spans["loop"].to[v] \in Nat
    BY <1>1, CellsAre DEF Parts
  <2>2. First("loop", v) <= spans["loop"].to[v]
    BY DEF JustConnected, Named, IsNaming
  <2>3. First("loop", v) = spans["loop"].to[v]
    BY <1>12, <2>1, <2>2
  <2> QED BY <1>4, <1>7, <2>3
<1> QED BY <1>11, <1>12

LEMMA LoopNotFresh ==
    ASSUME NEW u, NEW nm, JustConnected(u, nm), NEW o \in RawOcc(u)
    PROVE  ~IsFresh(o.name)
<1>1. PICK w \in Vars : \E c \in Cells("loop", spans["loop"].to, w) :
        o.cell = <<w, c>> /\ o.name = Net(loop, stem.out, Ssa(w, nm[w][c]))
  BY LoopOccurrence
<1>2. PICK c \in Cells("loop", spans["loop"].to, w) :
        o.cell = <<w, c>> /\ o.name = Net(loop, stem.out, Ssa(w, nm[w][c]))
  BY <1>1
<1> QED BY <1>2, NetSsa DEF IsFresh

\* FixpointNames, of the loop u.
FixpointNamesWith(u) ==
    /\ \A o, p \in RawOcc(stem) \cup RawOcc(u) :
         o.cell = p.cell /\ o.name \in KnownWith(u) /\ p.name \in KnownWith(u) => o.name = p.name
    /\ \A o, p \in RawOcc(u), v \in Vars :
         /\ o.cell = <<v, First("loop", v)>> /\ p.cell = <<v, spans["loop"].to[v]>>
         /\ o.name \in KnownWith(u) /\ p.name \in KnownWith(u)
         => \/ o.name = p.name
            \/ v \in DOMAIN u.in /\ u.in[v] = o.name /\ v \in DOMAIN u.out /\ u.out[v] = p.name
    /\ \A o \in RawOcc(stem) \cup RawOcc(u) : ~IsFresh(o.name)

LEMMA ConnectFixpoint ==
    ASSUME TypeInv, HistoryOK, ~Linearize, HasBeenRead(stem, "stem"), HasBeenRead(loop, "loop"),
           phase = "connect", connectStemToLoop, IsTransition(loop')
    PROVE  FixpointNamesWith(loop')
<1>1. PICK u : u = loop'
  OBVIOUS
<1>2. CASE Unread(loop, "loop")
  <2>1. u = NoTransition
    BY <1>1, <1>2, NothingToConnect DEF Unread, connectStemToLoop
  <2>2. RawOcc(u) = {}
    BY <2>1, NoOccurrence
  <2>3. \A o, p \in RawOcc(stem) : o.cell = p.cell => o.name = p.name /\ ~IsFresh(o.name)
    BY StemOneName
  <2>4. FixpointNamesWith(u)
    BY <2>2, <2>3 DEF FixpointNamesWith
  <2> QED BY <1>1, <2>4
<1>3. CASE \E nm : Named(loop, "loop", spans["loop"].to, nm)
  <2>1. PICK nm : Named(loop, "loop", spans["loop"].to, nm)
    BY <1>3
  <2>2. IsConnected(loop', loop, stem.out)
    BY ConnectStep
  <2>3. JustConnected(u, nm)
    BY <1>1, <2>1, <2>2 DEF JustConnected
  <2>4. \A o, p \in RawOcc(stem) \cup RawOcc(u) :
          o.cell = p.cell /\ o.name \in KnownWith(u) /\ p.name \in KnownWith(u) => o.name = p.name
    BY <2>3, OneName
  <2>5. \A o, p \in RawOcc(u), v \in Vars :
         /\ o.cell = <<v, First("loop", v)>> /\ p.cell = <<v, spans["loop"].to[v]>>
         /\ o.name \in KnownWith(u) /\ p.name \in KnownWith(u)
         => \/ o.name = p.name
            \/ v \in DOMAIN u.in /\ u.in[v] = o.name /\ v \in DOMAIN u.out /\ u.out[v] = p.name
    BY <2>3, BothEnds
  <2>6. \A o \in RawOcc(stem) \cup RawOcc(u) : ~IsFresh(o.name)
    BY <2>3, LoopNotFresh, StemOneName
  <2>7. FixpointNamesWith(u)
    BY <2>4, <2>5, <2>6 DEF FixpointNamesWith
  <2> QED BY <1>1, <2>7
<1> QED BY <1>2, <1>3 DEF HasBeenRead

LEMMA ConnectNames ==
    ASSUME NamesInv, connectStemToLoop
    PROVE  NamesInv'
<1>1. TypeInv'
  BY TypeNext DEF LassoNext, NamesInv
<1>2. TypeInv /\ HistoryOK /\ HasBeenRead(stem, "stem") /\ HasBeenRead(loop, "loop")
  BY DEF NamesInv, connectStemToLoop
<1>3. /\ phase = "connect" /\ phase' = "prune"
      /\ UNCHANGED <<stem, program_vars, verdict, asserted, reading, now, edges, spans, choices>>
  BY DEF connectStemToLoop, ghosts
<1>4. HistoryOK'
  <2>1. \A p, v : Used(p, v)' = Used(p, v)
    BY <1>3 DEF Used
  <2> QED BY <1>2, <1>3, <2>1 DEF HistoryOK
<1>5. Linearize' = Linearize /\ verdict' # "CHECKED"
  BY <1>3 DEF NamesInv, Linearize
<1>6. ASSUME Linearize
      PROVE  /\ program_vars' = Vars \ Arrays
             /\ PartMeans(stem, "stem")' /\ PartMeans(loop, "loop")'
  <2>1. PartMeans(stem, "stem")' /\ PartMeans(loop, "loop")'
    BY <1>1, <1>6, ConnectPolyhedra
  <2> QED BY <1>3, <1>6, <2>1 DEF NamesInv
<1>7. ASSUME ~Linearize PROVE FixpointNames'
  <2>1. FixpointNamesWith(loop')
    BY <1>1, <1>2, <1>3, <1>7, ConnectFixpoint DEF TypeInv
  <2>2. Known' = KnownWith(loop') /\ RawOcc(stem)' = RawOcc(stem) /\ RawOcc(loop)' = RawOcc(loop')
    BY <1>3 DEF Known, KnownWith, RawOcc, NamesIn
  <2>3. \A v : First("loop", v)' = First("loop", v)
    BY <1>3 DEF First
  <2> QED BY <1>3, <2>1, <2>2, <2>3 DEF FixpointNames, FixpointNamesWith
<1>8. FixpointIsReal'
  BY <1>5 DEF FixpointIsReal
<1> QED BY <1>1, <1>3, <1>4, <1>5, <1>6, <1>7, <1>8 DEF NamesInv

----------------------------------------------------------------------------
(* The steps, one by one.                                                  *)

LEMMA SameHistory ==
    ASSUME HistoryOK, UNCHANGED <<edges, spans, choices>>, phase' # "stem" => phase # "stem"
    PROVE  HistoryOK'
<1>1. \A p, v : Used(p, v)' = Used(p, v)
  BY DEF Used
<1> QED BY <1>1 DEF HistoryOK

\* The fixpoint technique's names stay right while the names in the maps that a
\* formula mentions stay where they are and no other comes in.
LEMMA FixpointKept ==
    ASSUME FixpointNames, spans' = spans, stem'.raw = stem.raw, loop'.raw = loop.raw,
           \A o \in RawOcc(stem) \cup RawOcc(loop) : o.name \in Known' => o.name \in Known,
           \A o \in RawOcc(loop), v \in Vars :
             /\ v \in DOMAIN loop.in /\ loop.in[v] = o.name => v \in DOMAIN loop'.in /\ loop'.in[v] = o.name
             /\ v \in DOMAIN loop.out /\ loop.out[v] = o.name => v \in DOMAIN loop'.out /\ loop'.out[v] = o.name
    PROVE  FixpointNames'
<1>1. RawOcc(stem)' = RawOcc(stem) /\ RawOcc(loop)' = RawOcc(loop)
  BY DEF RawOcc
<1>2. \A v : First("loop", v)' = First("loop", v)
  BY DEF First
<1>3. (\A o, p \in RawOcc(stem) \cup RawOcc(loop) :
         o.cell = p.cell /\ o.name \in Known /\ p.name \in Known => o.name = p.name)'
  BY <1>1 DEF FixpointNames
<1>4. ASSUME NEW o \in RawOcc(loop), NEW p \in RawOcc(loop), NEW v \in Vars,
             o.cell = <<v, First("loop", v)>>, p.cell = <<v, spans["loop"].to[v]>>,
             o.name \in Known', p.name \in Known'
      PROVE  \/ o.name = p.name
             \/ /\ v \in DOMAIN loop'.in /\ loop'.in[v] = o.name
                /\ v \in DOMAIN loop'.out /\ loop'.out[v] = p.name
  <2>1. o.name \in Known /\ p.name \in Known
    BY <1>4
  <2>2. \/ o.name = p.name
        \/ /\ v \in DOMAIN loop.in /\ loop.in[v] = o.name
           /\ v \in DOMAIN loop.out /\ loop.out[v] = p.name
    BY <1>4, <2>1 DEF FixpointNames
  <2> QED BY <2>2
<1> QED BY <1>1, <1>2, <1>3, <1>4 DEF FixpointNames

LEMMA PruneNames ==
    ASSUME PlainTraces, NamesInv, removeDeadVariables
    PROVE  NamesInv'
<1>1. TypeInv'
  BY TypeNext DEF LassoNext, NamesInv
<1>2. TypeInv /\ HistoryOK /\ Quoted = {} /\ IsTransition(stem) /\ IsTransition(loop)
  BY DEF NamesInv, TypeInv, PlainTraces
<1>3. /\ phase = "prune" /\ phase' = "ensure"
      /\ stem' = PruneTransition(stem) /\ loop' = PruneTransition(loop)
      /\ UNCHANGED <<verdict, asserted, reading, now, edges, spans, choices>>
  BY DEF removeDeadVariables, ghosts
<1>4. HistoryOK'
  BY <1>2, <1>3, SameHistory
<1>5. Linearize' = Linearize /\ verdict' # "CHECKED"
  BY <1>3 DEF NamesInv, Linearize
<1>6. ASSUME Linearize
      PROVE  PartAligned(stem, "stem")' /\ PartAligned(loop, "loop")'
  <2>1. program_vars = Vars \ Arrays /\ PartMeans(stem, "stem") /\ PartMeans(loop, "loop")
    BY <1>3, <1>6 DEF NamesInv
  <2>2. PICK s : s = PruneTransition(stem)
    OBVIOUS
  <2>3. PICK u : u = PruneTransition(loop)
    OBVIOUS
  <2>4. PartAligned(s, "stem") /\ PartAligned(u, "loop")
    BY <1>2, <2>1, <2>2, <2>3, PrunedAligned DEF Parts
  <2>5. PartAligned(s, "stem")'
    BY <1>3, <2>4 DEF PartAligned, Aligned, PolyOcc, Taken
  <2>6. PartAligned(u, "loop")'
    BY <1>3, <2>4 DEF PartAligned, Aligned, PolyOcc, Taken
  <2> QED BY <1>3, <2>2, <2>3, <2>5, <2>6
<1>7. ASSUME ~Linearize PROVE FixpointNames'
  <2>1. FixpointNames
    BY <1>3, <1>7 DEF NamesInv
  <2>2. /\ stem'.raw = stem.raw /\ loop'.raw = loop.raw
        /\ stem'.in = PruneMap(stem.in, Live(stem)) /\ stem'.out = PruneMap(stem.out, Live(stem))
        /\ loop'.in = PruneMap(loop.in, Live(loop)) /\ loop'.out = PruneMap(loop.out, Live(loop))
    BY <1>2, <1>3, PruneIs
  <2>3. \A map, live : NamesIn(PruneMap(map, live)) \subseteq NamesIn(map)
    BY PruneMapIs DEF NamesIn
  <2>4. Known' \subseteq Known
    BY <2>2, <2>3 DEF Known
  <2>5. ASSUME NEW o \in RawOcc(loop), NEW v \in Vars, NEW map, v \in DOMAIN map, map[v] = o.name
        PROVE  v \in DOMAIN PruneMap(map, Live(loop)) /\ PruneMap(map, Live(loop))[v] = o.name
    <3>1. o.name \in Live(loop)
      BY <1>2, LiveIs
    <3> QED BY <2>5, <3>1, PruneMapIs
  <2>6. \A o \in RawOcc(loop), v \in Vars :
          /\ v \in DOMAIN loop.in /\ loop.in[v] = o.name => v \in DOMAIN loop'.in /\ loop'.in[v] = o.name
          /\ v \in DOMAIN loop.out /\ loop.out[v] = o.name => v \in DOMAIN loop'.out /\ loop'.out[v] = o.name
    BY <2>2, <2>5
  <2> QED BY <1>3, <2>1, <2>2, <2>4, <2>6, FixpointKept
<1>8. FixpointIsReal'
  BY <1>5 DEF FixpointIsReal
<1> QED BY <1>1, <1>3, <1>4, <1>5, <1>6, <1>7, <1>8 DEF NamesInv

LEMMA EnsureNames ==
    ASSUME NamesInv, EnsureMappings
    PROVE  NamesInv'
<1>1. TypeInv'
  BY TypeNext DEF LassoNext, NamesInv
<1>2. TypeInv /\ HistoryOK /\ IsTransition(stem) /\ IsTransition(loop)
  BY DEF NamesInv, TypeInv
<1>3. /\ phase = "ensure" /\ phase' = "built"
      /\ UNCHANGED <<program_vars, verdict, asserted, reading, now, edges, spans, choices>>
  BY DEF EnsureMappings, ghosts
<1>4. /\ stem' = Ensured(stem, "fresh_stem_in", "fresh_stem_out")
      /\ loop' = Ensured(loop, "fresh_loop_in", "fresh_loop_out")
  BY <1>2, EnsureMappingsIs
<1>5. HistoryOK'
  BY <1>2, <1>3, SameHistory
<1>6. Linearize' = Linearize /\ verdict' # "CHECKED"
  BY <1>3 DEF NamesInv, Linearize
<1>7. ASSUME Linearize
      PROVE  PartAligned(stem, "stem")' /\ PartAligned(loop, "loop")'
  <2>1. PartAligned(stem, "stem") /\ PartAligned(loop, "loop")
    BY <1>3, <1>7 DEF NamesInv
  <2>2. PICK s : s = Ensured(stem, "fresh_stem_in", "fresh_stem_out")
    OBVIOUS
  <2>3. PICK u : u = Ensured(loop, "fresh_loop_in", "fresh_loop_out")
    OBVIOUS
  <2>4. PartAligned(s, "stem") /\ PartAligned(u, "loop")
    BY <1>2, <2>1, <2>2, <2>3, EnsuredAligned DEF Parts, Tags
  <2>5. PartAligned(s, "stem")'
    BY <1>3, <2>4 DEF PartAligned, Aligned, PolyOcc, Taken
  <2>6. PartAligned(u, "loop")'
    BY <1>3, <2>4 DEF PartAligned, Aligned, PolyOcc, Taken
  <2> QED BY <1>4, <2>2, <2>3, <2>5, <2>6
<1>8. ASSUME ~Linearize PROVE FixpointNames'
  <2>1. FixpointNames
    BY <1>3, <1>8 DEF NamesInv
  <2>2. /\ stem'.raw = stem.raw /\ loop'.raw = loop.raw
        /\ stem'.in = ensureMapping(stem.in, "fresh_stem_in")
        /\ stem'.out = ensureMapping(stem.out, "fresh_stem_out")
        /\ loop'.in = ensureMapping(loop.in, "fresh_loop_in")
        /\ loop'.out = ensureMapping(loop.out, "fresh_loop_out")
    BY <1>4 DEF Ensured
  <2>3. ASSUME NEW map, NEW tag \in Tags \ {"ssa"}, NEW x \in NamesIn(ensureMapping(map, tag)), ~IsFresh(x)
        PROVE  x \in NamesIn(map)
    <3>1. PICK v \in DOMAIN ensureMapping(map, tag) : x = ensureMapping(map, tag)[v]
      BY <2>3 DEF NamesIn
    <3>2. v \in DOMAIN map \/ v \in program_vars
      BY EnsureMapIs
    <3>3. CASE v \in DOMAIN map
      BY <3>1, <3>3, EnsureMapIs DEF NamesIn
    <3>4. CASE v \notin DOMAIN map
      <4>1. x = FreshName(v, tag)
        BY <3>1, <3>2, <3>4, EnsureMapIs
      <4> QED BY <2>3, <4>1 DEF IsFresh, FreshName
    <3> QED BY <3>3, <3>4
  <2>4. \A x : x \in Known' /\ ~IsFresh(x) => x \in Known
    BY <2>2, <2>3 DEF Known, Tags
  <2>5. \A o \in RawOcc(stem) \cup RawOcc(loop) : o.name \in Known' => o.name \in Known
    BY <2>1, <2>4 DEF FixpointNames
  <2>6. \A o \in RawOcc(loop), v \in Vars :
          /\ v \in DOMAIN loop.in /\ loop.in[v] = o.name => v \in DOMAIN loop'.in /\ loop'.in[v] = o.name
          /\ v \in DOMAIN loop.out /\ loop.out[v] = o.name => v \in DOMAIN loop'.out /\ loop'.out[v] = o.name
    BY <2>2, EnsureMapIs
  <2> QED BY <1>3, <2>1, <2>2, <2>5, <2>6, FixpointKept
<1>9. FixpointIsReal'
  BY <1>6 DEF FixpointIsReal
<1> QED BY <1>1, <1>3, <1>5, <1>6, <1>7, <1>8, <1>9 DEF NamesInv

LEMMA AnalyzeNames ==
    ASSUME NamesInv, FixpointAnalyze
    PROVE  NamesInv'
<1>1. TypeInv'
  BY TypeNext DEF LassoNext, NamesInv
<1>2. HistoryOK /\ FixpointNames
  BY DEF NamesInv, FixpointAnalyze
<1>3. /\ phase = "built" /\ phase' = "done" /\ ~Linearize
      /\ UNCHANGED <<stem, loop, program_vars, reading, now, edges, spans, choices>>
  BY DEF FixpointAnalyze, ghosts
<1>4. HistoryOK'
  BY <1>2, <1>3, SameHistory
<1>5. ~Linearize'
  BY <1>3 DEF Linearize
<1>6. FixpointNames'
  <2>1. Known' = Known
    BY <1>3 DEF Known, NamesIn
  <2> QED BY <1>2, <1>3, <2>1, FixpointKept
<1>7. ASSUME Arrays = {} PROVE FixpointIsReal'
  <2>1. SUFFICES ASSUME verdict' = "CHECKED" PROVE FixpointIsReal'
    BY DEF FixpointIsReal
  <2>2. /\ RawNames(stem) \cup RawNames(loop) \subseteq Declared
        /\ asserted' = [stem |-> RawOcc(stem), loop |-> RawOcc(loop), equated |-> Equated]
    BY <2>1 DEF FixpointAnalyze, NamesInv
  <2>3. \A o \in RawOcc(stem) \cup RawOcc(loop) : o.name \in Known
    <3>1. Declared \subseteq Known
      BY DEF Declared, Known
    <3>2. \A o \in RawOcc(stem) \cup RawOcc(loop) : o.name \in RawNames(stem) \cup RawNames(loop)
      BY DEF RawNames
    <3> QED BY <2>2, <3>1, <3>2
  <2>4. ASSUME NEW o \in RawOcc(stem) \cup RawOcc(loop), NEW p \in RawOcc(stem) \cup RawOcc(loop),
               o.cell = p.cell
        PROVE  o.name = p.name
    BY <1>2, <2>3, <2>4 DEF FixpointNames
  <2>5. ASSUME NEW o \in RawOcc(loop), NEW p \in RawOcc(loop), NEW v \in Vars,
               o.cell = <<v, spans["loop"].from[v]>>, p.cell = <<v, spans["loop"].to[v]>>
        PROVE  v \in Equated \/ o.name = p.name
    <3>1. \/ o.name = p.name
          \/ /\ v \in DOMAIN loop.in /\ loop.in[v] = o.name
             /\ v \in DOMAIN loop.out /\ loop.out[v] = p.name
      BY <1>2, <2>3, <2>5 DEF FixpointNames, First
    <3>2. ~IsFresh(o.name) /\ ~IsFresh(p.name)
      BY <1>2 DEF FixpointNames
    <3> QED BY <1>7, <3>1, <3>2 DEF Equated
  <2>6. asserted'.stem = RawOcc(stem) /\ asserted'.loop = RawOcc(loop) /\ asserted'.equated = Equated
    BY <2>2
  <2> QED BY <1>3, <2>4, <2>5, <2>6 DEF FixpointIsReal
<1> QED BY <1>1, <1>3, <1>4, <1>5, <1>6, <1>7 DEF NamesInv

LEMMA StutterNames ==
    ASSUME NamesInv, UNCHANGED lassoVars
    PROVE  NamesInv'
<1>1. TypeInv'
  BY TypeNext DEF NamesInv
<1>2. /\ UNCHANGED <<reading, phase, stem, loop, lines, prev_out, raw_subst, program_vars>>
      /\ UNCHANGED <<verdict, asserted, now, edges, spans, choices>>
  BY DEF lassoVars
<1>3. HistoryOK'
  BY <1>2, SameHistory DEF NamesInv
<1>4. PICK s : s = stem
  OBVIOUS
<1>5. PICK u : u = loop
  OBVIOUS
<1>6. s = stem' /\ u = loop'
  BY <1>2, <1>4, <1>5
<1>7. \A part : SamePart(part) /\ spans'[part] = spans[part] /\ Linearize' = Linearize
  BY <1>2 DEF SamePart, Linearize
<1>8. ASSUME NEW part, NEW t, BeingRead(t, part) PROVE BeingRead(t, part)'
  <2>1. ASSUME lines # 0 PROVE \E nm : Named(t, part, now, nm)' /\ Substituting(part, nm)'
    <3>1. PICK nm : Named(t, part, now, nm) /\ Substituting(part, nm)
      BY <1>8, <2>1 DEF BeingRead
    <3>2. PICK hi : hi = now
      OBVIOUS
    <3>3. Named(t, part, hi, nm)'
      BY <1>7, <3>1, <3>2, SameNames
    <3>4. hi = now'
      BY <1>2, <3>2
    <3>5. Named(t, part, now, nm)'
      BY <3>3, <3>4
    <3>6. \A v : /\ First(part, v)' = First(part, v) /\ Cells(part, now, v)' = Cells(part, now, v)
                 /\ Used(part, v)' = Used(part, v) /\ Used("stem", v)' = Used("stem", v)
      BY <1>2 DEF First, Cells, Used
    <3>7. \A x : SubName(raw_subst, x)' = SubName(raw_subst, x)
      BY <1>2 DEF SubName
    <3>8. Substituting(part, nm)'
      BY <1>2, <3>1, <3>6, <3>7 DEF Substituting
    <3> QED BY <3>5, <3>8
  <2>2. ASSUME lines = 0
        PROVE  Unread(t, part)' /\ prev_out' = EmptyMap /\ raw_subst' = EmptyMap /\ now' = spans'[part].from
    <3>1. Unread(t, part)
      BY <1>8, <2>2 DEF BeingRead
    <3>2. Unread(t, part)'
      BY <1>7, <3>1, SameUnread
    <3> QED BY <1>2, <1>8, <2>2, <3>2 DEF BeingRead
  <2> QED BY <1>2, <2>1, <2>2 DEF BeingRead
<1>9. \A part, t : /\ HasBeenRead(t, part) => HasBeenRead(t, part)'
                   /\ Unread(t, part) => Unread(t, part)'
                   /\ PartMeans(t, part) => PartMeans(t, part)'
                   /\ PartAligned(t, part) => PartAligned(t, part)'
  BY <1>7, SameRead, SameUnread, SamePartMeans, SamePartAligned
<1>10. ASSUME FixpointNames PROVE FixpointNames'
  <2>1. Known' = Known
    BY <1>2 DEF Known, NamesIn
  <2> QED BY <1>2, <1>10, <2>1, FixpointKept
<1>11. FixpointIsReal => FixpointIsReal'
  BY <1>2 DEF FixpointIsReal
<1>12. CASE phase = "stem"
  <2>1. BeingRead(s, "stem") /\ Unread(u, "loop")
    BY <1>4, <1>5, <1>12 DEF NamesInv
  <2>2. BeingRead(s, "stem")' /\ Unread(u, "loop")'
    BY <1>8, <1>9, <2>1
  <2> QED BY <1>1, <1>2, <1>3, <1>6, <1>7, <1>11, <1>12, <2>2 DEF NamesInv
<1>13. CASE phase = "loop"
  <2>1. HasBeenRead(s, "stem") /\ BeingRead(u, "loop")
    BY <1>4, <1>5, <1>13 DEF NamesInv
  <2>2. HasBeenRead(s, "stem")' /\ BeingRead(u, "loop")'
    BY <1>8, <1>9, <2>1
  <2> QED BY <1>1, <1>2, <1>3, <1>6, <1>7, <1>11, <1>13, <2>2 DEF NamesInv
<1>14. CASE phase = "connect"
  <2>1. HasBeenRead(s, "stem") /\ HasBeenRead(u, "loop")
    BY <1>4, <1>5, <1>14 DEF NamesInv
  <2>2. HasBeenRead(s, "stem")' /\ HasBeenRead(u, "loop")'
    BY <1>9, <2>1
  <2> QED BY <1>1, <1>2, <1>3, <1>6, <1>7, <1>11, <1>14, <2>2 DEF NamesInv
<1>15. CASE phase = "prune"
  <2>1. Linearize => program_vars = Vars \ Arrays /\ PartMeans(s, "stem") /\ PartMeans(u, "loop")
    BY <1>4, <1>5, <1>15 DEF NamesInv
  <2>2. Linearize => PartMeans(s, "stem")' /\ PartMeans(u, "loop")'
    BY <1>9, <2>1
  <2>3. ~Linearize => FixpointNames
    BY <1>15 DEF NamesInv
  <2> QED BY <1>1, <1>2, <1>3, <1>6, <1>7, <1>10, <1>11, <1>15, <2>1, <2>2, <2>3 DEF NamesInv
<1>16. CASE phase \in {"ensure", "built", "done"}
  <2>1. Linearize => PartAligned(s, "stem") /\ PartAligned(u, "loop")
    BY <1>4, <1>5, <1>16 DEF NamesInv
  <2>2. Linearize => PartAligned(s, "stem")' /\ PartAligned(u, "loop")'
    BY <1>9, <2>1
  <2>3. ~Linearize => FixpointNames
    BY <1>16 DEF NamesInv
  <2> QED BY <1>1, <1>2, <1>3, <1>6, <1>7, <1>10, <1>11, <1>16, <2>2, <2>3 DEF NamesInv
<1> QED BY <1>12, <1>13, <1>14, <1>15, <1>16 DEF NamesInv, TypeInv, Phases

LEMMA NamesNext ==
    ASSUME PlainTraces, NamesInv, [LassoNext]_lassoVars
    PROVE  NamesInv'
<1>1. CASE \E part \in Parts : ReadLine(part)
  BY <1>1, ReadLineNames
<1>2. CASE EndStem
  BY <1>2, EndStemNames
<1>3. CASE EndLoop
  BY <1>3, EndLoopNames
<1>4. CASE connectStemToLoop
  BY <1>4, ConnectNames
<1>5. CASE removeDeadVariables
  BY <1>5, PruneNames
<1>6. CASE EnsureMappings
  BY <1>6, EnsureNames
<1>7. CASE FixpointAnalyze
  BY <1>7, AnalyzeNames
<1>8. CASE UNCHANGED lassoVars
  BY <1>8, StutterNames
<1> QED BY <1>1, <1>2, <1>3, <1>4, <1>5, <1>6, <1>7, <1>8 DEF LassoNext

LEMMA NamesMean == NamesInv => LassoMeansItsLines
<1> SUFFICES ASSUME NamesInv, Built, Linearize, NEW part \in Parts
             PROVE  /\ Aligned(PolyOcc(Transition(part)), Transition(part), part, Vars \ Arrays)
                    /\ {{<<a.line, a.disjunct>> : a \in p} : p \in Transition(part).polyhedra} = choices[part]
  BY DEF LassoMeansItsLines
<1>1. PartAligned(stem, "stem") /\ PartAligned(loop, "loop")
  BY DEF NamesInv, Built
<1>2. PartAligned(Transition(part), part)
  BY <1>1 DEF Transition, Parts
<1> QED BY <1>2 DEF PartAligned, Taken

----------------------------------------------------------------------------
(* What holds of every plain trace.                                        *)

\* buildFromLines and compose leave names that are equal exactly when the values
\* are: cumulative_raw_subst keeps raw_formula in step with the maps of the
\* composition, as the comment of transition.cpp:391 says.
THEOREM RawFormulas == PlainTraces => (LassoSpec => []RawAligned)
<1> SUFFICES ASSUME PlainTraces PROVE LassoSpec => []RawAligned
  OBVIOUS
<1>1. LassoInit => NamesInv
  BY NamesInit
<1>2. NamesInv /\ [LassoNext]_lassoVars => NamesInv'
  BY NamesNext
<1>3. NamesInv => RawAligned
  BY NamesRawAligned
<1> QED BY <1>1, <1>2, <1>3, PTL DEF LassoSpec

\* parseToLasso gives the polyhedra techniques transitions that do what the lines
\* do: neither connectStemToLoop, nor removeDeadVariables, nor the mappings that
\* step 7b completes make two values one or one value two.
THEOREM LassoMeaning == PlainTraces => (LassoSpec => []LassoMeansItsLines)
<1> SUFFICES ASSUME PlainTraces PROVE LassoSpec => []LassoMeansItsLines
  OBVIOUS
<1>1. LassoInit => NamesInv
  BY NamesInit
<1>2. NamesInv /\ [LassoNext]_lassoVars => NamesInv'
  BY NamesNext
<1>3. NamesInv => LassoMeansItsLines
  BY NamesMean
<1> QED BY <1>1, <1>2, <1>3, PTL DEF LassoSpec

\* The state FixpointTechnique::analyze finds is one the stem reaches and the loop
\* maps to itself, for lassos without arrays (an array is never equated).
THEOREM Fixpoints == PlainTraces /\ Arrays = {} => (LassoSpec => []FixpointIsReal)
<1> SUFFICES ASSUME PlainTraces, Arrays = {} PROVE LassoSpec => []FixpointIsReal
  OBVIOUS
<1>1. LassoInit => NamesInv
  BY NamesInit
<1>2. NamesInv /\ [LassoNext]_lassoVars => NamesInv'
  BY NamesNext
<1>3. NamesInv => FixpointIsReal
  BY DEF NamesInv
<1> QED BY <1>1, <1>2, <1>3, PTL DEF LassoSpec

----------------------------------------------------------------------------
(* The calls.                                                              *)

\* Recording the calls of the lines and renaming them at the end is no other
\* construction of the lasso: parseToLasso with storeAbstractFunctionsToLasso
\* implements LassoSpec, so what is proved above holds of the lasso the calls are about.
THEOREM CallsKeepTheLasso == CallsSpec => LassoSpec
<1>1. CallsInit => LassoInit
  BY DEF CallsInit
<1>2. [CallsNext]_<<lassoVars, callVars>> => [LassoNext]_lassoVars
  <2> SUFFICES ASSUME [CallsNext]_<<lassoVars, callVars>> PROVE LassoNext \/ UNCHANGED lassoVars
    OBVIOUS
  <2>1. ASSUME NEW part \in Parts, ReadLineAndCalls(part) PROVE LassoNext
    <3>1. ReadLine(part)
      BY <2>1 DEF ReadLineAndCalls, ReadLine
    <3> QED BY <3>1 DEF LassoNext
  <2>2. CASE EndStemAndCalls
    BY <2>2 DEF EndStemAndCalls, LassoNext
  <2>3. CASE EndLoop \/ connectStemToLoop \/ removeDeadVariables \/ EnsureMappings \/ FixpointAnalyze
    BY <2>3 DEF LassoNext
  <2>4. CASE storeAbstractFunctionsToLasso
    BY <2>4 DEF storeAbstractFunctionsToLasso
  <2>5. CASE UNCHANGED <<lassoVars, callVars>>
    BY <2>5
  <2> QED BY <2>1, <2>2, <2>3, <2>4, <2>5 DEF CallsNext
<1> QED BY <1>1, <1>2, PTL DEF CallsSpec, LassoSpec

=============================================================================
