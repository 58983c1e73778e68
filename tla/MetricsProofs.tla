---------------------------- MODULE MetricsProofs ----------------------------
(***************************************************************************)
(* Theorems about the merges of metrics: what the merged report says of the  *)
(* numbers, the least, the greatest and the common values, whatever the       *)
(* nodes report and in whatever order their reports come.                    *)
(***************************************************************************)
EXTENDS MetricsReports, FiniteSetTheorems, WellFoundedInduction, TLAPS

----------------------------------------------------------------------------
(* Sums over finite sets.  A sum is a CHOSEn function on the subsets; that    *)
(* there is one, and only one, is shown of the least subset that would be     *)
(* without, so that no induction theorem with an operator parameter is used.  *)

\* Among sets of elements of a finite set one is least.
LEMMA LeastSet ==
  ASSUME NEW S, IsFiniteSet(S), NEW B, B \subseteq SUBSET S, B # {}
  PROVE  \E s \in B : \A t \in B : t \subseteq s => t = s
<1>1. IsWellFoundedOn(StrictSubsetOrdering(S), SUBSET S)
  BY FS_StrictSubsetOrderingWellFounded, FS_FiniteSubsetsOfFinite
<1>2. \E s \in B : \A t \in B : ~ (<<t, s>> \in StrictSubsetOrdering(S))
  BY <1>1, WFMin
<1> QED BY <1>2 DEF StrictSubsetOrdering

OneOf(s) == CHOOSE x \in s : TRUE
SumsUp(g, S, v) == g = [s \in SUBSET S |-> IF s = {} THEN 0 ELSE v[OneOf(s)] + g[s \ {OneOf(s)}]]

LEMMA SumIs == \A S, v : SumFunctionOnSet(v, S) = (CHOOSE g : SumsUp(g, S, v))[S]
BY DEF SumFunctionOnSet, FoldFunctionOnSet, MapThenFoldSet, SumsUp, OneOf

\* What is summed up is unique ...
LEMMA SumUnique ==
  ASSUME NEW S, IsFiniteSet(S), NEW T, NEW U, S \subseteq T, S \subseteq U, NEW v, NEW w,
         \A x \in S : v[x] = w[x], NEW g, SumsUp(g, T, v), NEW h, SumsUp(h, U, w)
  PROVE  \A s \in SUBSET S : g[s] = h[s]
<1>1. PICK B : B = {s \in SUBSET S : g[s] # h[s]}
  OBVIOUS
<1>2. CASE B = {}
  BY <1>1, <1>2
<1>3. CASE B # {}
  <2>1. B \subseteq SUBSET S
    BY <1>1
  <2>2. PICK s \in B : \A t \in B : t \subseteq s => t = s
    BY <1>3, <2>1, LeastSet
  <2>3. s \subseteq S /\ s \in SUBSET T /\ s \in SUBSET U /\ g[s] # h[s]
    BY <1>1, <2>2
  <2>4. /\ g[s] = IF s = {} THEN 0 ELSE v[OneOf(s)] + g[s \ {OneOf(s)}]
        /\ h[s] = IF s = {} THEN 0 ELSE w[OneOf(s)] + h[s \ {OneOf(s)}]
    BY <2>3 DEF SumsUp
  <2>5. s # {} /\ OneOf(s) \in s
    BY <2>3, <2>4 DEF OneOf
  <2>6. s \ {OneOf(s)} \in SUBSET S /\ s \ {OneOf(s)} # s /\ s \ {OneOf(s)} \subseteq s
    BY <2>3, <2>5
  <2>7. g[s \ {OneOf(s)}] = h[s \ {OneOf(s)}]
    BY <1>1, <2>2, <2>6
  <2>8. v[OneOf(s)] = w[OneOf(s)]
    BY <2>3, <2>5
  <2> QED BY <2>3, <2>4, <2>5, <2>7, <2>8
<1> QED BY <1>2, <1>3

\* ... and there is such a function, for every set of numbers.
LEMMA SumExists ==
  ASSUME NEW S, IsFiniteSet(S), NEW v, \A x \in S : v[x] \in Nat
  PROVE  \E g : SumsUp(g, S, v)
<1>1. PICK B : B = {s \in SUBSET S : ~ \E g : SumsUp(g, s, v)}
  OBVIOUS
<1>2. CASE B = {}
  BY <1>1, <1>2
<1>3. CASE B # {}
  <2>1. B \subseteq SUBSET S
    BY <1>1
  <2>2. PICK s \in B : \A t \in B : t \subseteq s => t = s
    BY <1>3, <2>1, LeastSet
  <2>3. s \subseteq S /\ ~ \E g : SumsUp(g, s, v)
    BY <1>1, <2>2
  <2>4. PICK G : G = [t \in SUBSET s |-> CHOOSE g : SumsUp(g, t, v)]
    OBVIOUS
  <2>5. ASSUME NEW t \in SUBSET s, t # s PROVE SumsUp(G[t], t, v)
    <3>1. t \in SUBSET S /\ t \notin B
      BY <2>2, <2>3, <2>5
    <3>2. \E g : SumsUp(g, t, v)
      BY <1>1, <3>1
    <3>3. G[t] = CHOOSE g : SumsUp(g, t, v)
      BY <2>4
    <3> QED BY <3>2, <3>3
  <2>6. PICK g : g = [t \in SUBSET s |-> IF t = {} THEN 0 ELSE v[OneOf(t)] + G[t \ {OneOf(t)}][t \ {OneOf(t)}]]
    OBVIOUS
  <2>7. ASSUME NEW t \in SUBSET s, t # s PROVE g[t] = G[t][t]
    <3>1. SumsUp(G[t], t, v)
      BY <2>5, <2>7
    <3>2. G[t][t] = IF t = {} THEN 0 ELSE v[OneOf(t)] + G[t][t \ {OneOf(t)}]
      BY <3>1 DEF SumsUp
    <3>3. CASE t = {}
      BY <2>6, <3>2, <3>3
    <3>4. CASE t # {}
      <4>1. PICK u : u = t \ {OneOf(t)}
        OBVIOUS
      <4>2. u \in SUBSET t /\ u \in SUBSET s /\ u # s /\ u \subseteq S
        BY <2>3, <2>7, <4>1
      <4>3. SumsUp(G[u], u, v) /\ IsFiniteSet(u)
        BY <2>5, <4>2, FS_Subset
      <4>4. G[u][u] = G[t][u]
        <5>1. PICK p, q : p = G[u] /\ q = G[t]
          OBVIOUS
        <5>2. SumsUp(p, u, v) /\ SumsUp(q, t, v) /\ \A x \in u : v[x] = v[x]
          BY <3>1, <4>3, <5>1
        <5>3. \A r \in SUBSET u : p[r] = q[r]
          BY <4>2, <4>3, <5>2, SumUnique
        <5> QED BY <5>1, <5>3
      <4> QED BY <2>6, <3>2, <3>4, <4>1, <4>4
    <3> QED BY <3>3, <3>4
  <2>8. \A t \in SUBSET s : t # {} => t \ {OneOf(t)} \in SUBSET s /\ t \ {OneOf(t)} # s
    <3>1. \A t \in SUBSET s : t # {} => OneOf(t) \in t
      BY DEF OneOf
    <3> QED BY <3>1
  <2>9. SumsUp(g, s, v)
    <3>1. \A t \in SUBSET s : g[t] = IF t = {} THEN 0 ELSE v[OneOf(t)] + g[t \ {OneOf(t)}]
      BY <2>6, <2>7, <2>8
    <3>2. g = [t \in SUBSET s |-> g[t]]
      BY <2>6
    <3> QED BY <3>1, <3>2 DEF SumsUp
  <2> QED BY <2>3, <2>9
<1> QED BY <1>2, <1>3

\* The sums over the subsets of S.
Sums(S, v) == CHOOSE g : SumsUp(g, S, v)

LEMMA SumsAre ==
  ASSUME NEW S, IsFiniteSet(S), NEW v, \A x \in S : v[x] \in Nat
  PROVE  /\ SumsUp(Sums(S, v), S, v)
         /\ \A s \in SUBSET S : SumFunctionOnSet(v, s) = Sums(S, v)[s]
<1>1. SumsUp(Sums(S, v), S, v)
  BY SumExists DEF Sums
<1>2. ASSUME NEW s \in SUBSET S PROVE SumFunctionOnSet(v, s) = Sums(S, v)[s]
  <2>1. IsFiniteSet(s) /\ \A x \in s : v[x] \in Nat
    BY FS_Subset
  <2>2. SumsUp(Sums(s, v), s, v)
    BY <2>1, SumExists DEF Sums
  <2>3. Sums(s, v)[s] = Sums(S, v)[s]
    BY <1>1, <2>1, <2>2, SumUnique
  <2> QED BY <2>3, SumIs DEF Sums
<1> QED BY <1>1, <1>2

\* The order of the addends does not matter.
LEMMA SumTake ==
  ASSUME NEW S, IsFiniteSet(S), NEW v, \A x \in S : v[x] \in Nat, NEW g, SumsUp(g, S, v)
  PROVE  \A s \in SUBSET S : g[s] \in Nat /\ \A y \in s : g[s] = v[y] + g[s \ {y}]
<1>0. \A s \in SUBSET S : g[s] = IF s = {} THEN 0 ELSE v[OneOf(s)] + g[s \ {OneOf(s)}]
  BY DEF SumsUp
<1>1. PICK B : B = {s \in SUBSET S : ~(g[s] \in Nat /\ \A y \in s : g[s] = v[y] + g[s \ {y}])}
  OBVIOUS
<1>2. CASE B = {}
  BY <1>1, <1>2
<1>3. CASE B # {}
  <2>1. B \subseteq SUBSET S
    BY <1>1
  <2>2. PICK s \in B : \A t \in B : t \subseteq s => t = s
    BY <1>3, <2>1, LeastSet
  <2>3. s \subseteq S
    BY <1>1, <2>2
  <2>4. ASSUME NEW t, t \subseteq s, t # s PROVE g[t] \in Nat /\ \A y \in t : g[t] = v[y] + g[t \ {y}]
    <3>1. t \in SUBSET S /\ t \notin B
      BY <2>2, <2>3, <2>4
    <3> QED BY <1>1, <3>1
  <2>5. CASE s = {}
    <3>1. g[s] = 0
      BY <1>0, <2>3, <2>5
    <3> QED BY <1>1, <2>2, <2>5, <3>1
  <2>6. CASE s # {}
    <3>1. PICK x : x = OneOf(s)
      OBVIOUS
    <3>2. x \in s /\ g[s] = v[x] + g[s \ {x}]
      BY <1>0, <2>3, <2>6, <3>1 DEF OneOf
    <3>3. g[s \ {x}] \in Nat /\ v[x] \in Nat
      <4>1. s \ {x} \subseteq s /\ s \ {x} # s
        BY <3>2
      <4> QED BY <2>3, <2>4, <3>2, <4>1
    <3>4. ASSUME NEW y \in s, y # x PROVE g[s] = v[y] + g[s \ {y}]
      <4>1. PICK t : t = s \ {x}
        OBVIOUS
      <4>2. PICK u : u = s \ {y}
        OBVIOUS
      <4>3. t \subseteq s /\ t # s /\ y \in t /\ u \subseteq s /\ u # s /\ x \in u /\ t \ {y} = u \ {x}
        BY <3>2, <3>4, <4>1, <4>2
      <4>4. g[t] = v[y] + g[t \ {y}] /\ g[u] = v[x] + g[u \ {x}] /\ g[u] \in Nat
        BY <2>4, <4>3
      <4>5. t \ {y} \subseteq s /\ t \ {y} # s
        BY <4>3
      <4>6. g[t \ {y}] \in Nat /\ v[y] \in Nat
        BY <2>3, <2>4, <4>5
      <4>7. PICK m : m = g[t \ {y}]
        OBVIOUS
      <4>8. g[s] = v[x] + (v[y] + m) /\ g[u] = v[x] + m
        BY <3>2, <4>1, <4>3, <4>4, <4>7
      <4> QED BY <3>3, <4>2, <4>6, <4>7, <4>8
    <3>5. g[s] \in Nat
      BY <3>2, <3>3
    <3>6. \A y \in s : g[s] = v[y] + g[s \ {y}]
      BY <3>2, <3>4
    <3> QED BY <1>1, <2>2, <3>5, <3>6
  <2> QED BY <2>5, <2>6
<1> QED BY <1>2, <1>3

\* One more addend.
LEMMA SumGrows ==
  ASSUME NEW S, IsFiniteSet(S), NEW y, y \notin S, NEW v, \A x \in S \cup {y} : v[x] \in Nat
  PROVE  /\ SumFunctionOnSet(v, S) \in Nat
         /\ SumFunctionOnSet(v, S \cup {y}) = SumFunctionOnSet(v, S) + v[y]
<1>1. PICK T : T = S \cup {y}
  OBVIOUS
<1>2. IsFiniteSet(T) /\ \A x \in T : v[x] \in Nat
  BY <1>1, FS_AddElement
<1>3. PICK g : SumsUp(g, T, v) /\ \A s \in SUBSET T : SumFunctionOnSet(v, s) = g[s]
  BY <1>2, SumsAre
<1>4. S \in SUBSET T /\ T \in SUBSET T /\ y \in T /\ T \ {y} = S
  BY <1>1
<1>5. g[S] \in Nat /\ g[T] = v[y] + g[T \ {y}]
  BY <1>2, <1>3, <1>4, SumTake
<1>6. v[y] \in Nat
  BY <1>2, <1>4
<1>7. SumFunctionOnSet(v, S) = g[S] /\ SumFunctionOnSet(v, T) = g[T]
  BY <1>3, <1>4
<1>8. g[T] = v[y] + g[S]
  BY <1>4, <1>5
<1>9. g[T] = g[S] + v[y]
  BY <1>5, <1>6, <1>8
<1> QED BY <1>1, <1>5, <1>7, <1>9

LEMMA SumOfNone == \A v : SumFunctionOnSet(v, {}) = 0
<1> SUFFICES ASSUME NEW v PROVE SumFunctionOnSet(v, {}) = 0
  OBVIOUS
<1>1. IsFiniteSet({}) /\ \A x \in {} : v[x] \in Nat
  BY FS_EmptySet
<1>2. SumsUp(Sums({}, v), {}, v) /\ SumFunctionOnSet(v, {}) = Sums({}, v)[{}]
  BY <1>1, SumsAre
<1> QED BY <1>2 DEF SumsUp

LEMMA SumOfZeros ==
  ASSUME NEW S, IsFiniteSet(S), NEW v, \A x \in S : v[x] = 0
  PROVE  SumFunctionOnSet(v, S) = 0
<1>1. PICK g, h : g = Sums(S, v) /\ h = [s \in SUBSET S |-> 0]
  OBVIOUS
<1>2. \A x \in S : v[x] \in Nat
  OBVIOUS
<1>3. SumsUp(g, S, v) /\ SumFunctionOnSet(v, S) = g[S]
  BY <1>1, <1>2, SumsAre
<1>4. SumsUp(h, S, v)
  <2>1. \A s \in SUBSET S : s # {} => v[OneOf(s)] = 0 /\ s \ {OneOf(s)} \in SUBSET S
    BY DEF OneOf
  <2>2. \A s \in SUBSET S : h[s] = IF s = {} THEN 0 ELSE v[OneOf(s)] + h[s \ {OneOf(s)}]
    BY <1>1, <2>1
  <2> QED BY <1>1, <2>2 DEF SumsUp
<1>5. \A x \in S : v[x] = v[x]
  OBVIOUS
<1>6. \A s \in SUBSET S : g[s] = h[s]
  BY <1>3, <1>4, <1>5, SumUnique
<1> QED BY <1>1, <1>3, <1>6

\* Only the addends count.
LEMMA SumSame ==
  ASSUME NEW S, IsFiniteSet(S), NEW v, NEW w, \A x \in S : v[x] \in Nat /\ v[x] = w[x]
  PROVE  SumFunctionOnSet(v, S) = SumFunctionOnSet(w, S)
<1>1. \A x \in S : w[x] \in Nat
  OBVIOUS
<1>2. SumsUp(Sums(S, v), S, v) /\ SumsUp(Sums(S, w), S, w)
  BY <1>1, SumExists DEF Sums
<1>3. Sums(S, v)[S] = Sums(S, w)[S]
  <2>1. PICK p, q : p = Sums(S, v) /\ q = Sums(S, w)
    OBVIOUS
  <2>2. SumsUp(p, S, v) /\ SumsUp(q, S, w) /\ \A x \in S : v[x] = w[x]
    BY <1>2, <2>1
  <2>3. \A r \in SUBSET S : p[r] = q[r]
    BY <2>2, SumUnique
  <2> QED BY <2>1, <2>3
<1> QED BY <1>3, SumIs DEF Sums

\* The sum over a function is the sum of its values where they are reported.
LEMMA SumOverIs ==
  ASSUME NEW S, IsFiniteSet(S), NEW v, \A x \in S : v[x] \in Nat, NEW w, w = [x \in S |-> v[x]]
  PROVE  SumFunction(w) = SumFunctionOnSet(v, S)
<1>1. SumFunction(w) = SumFunctionOnSet(w, S)
  BY DEF SumFunction
<1>2. \A x \in S : v[x] \in Nat /\ v[x] = w[x]
  OBVIOUS
<1>3. SumFunctionOnSet(v, S) = SumFunctionOnSet(w, S)
  BY <1>2, SumSame
<1> QED BY <1>1, <1>3

----------------------------------------------------------------------------
(* The least, the greatest and the common one of what the nodes in S report.  *)

IsLeast(m, S, v)    == m \in Nat /\ (\E x \in S : m = v[x]) /\ \A x \in S : m <= v[x]
IsGreatest(m, S, v) == m \in Nat /\ (\E x \in S : m = v[x]) /\ \A x \in S : m >= v[x]

\* w is the value of all in S, or Nil if they have several.
IsCommon(w, S, v) == IF \E u : \A x \in S : v[x] = u THEN \A x \in S : v[x] = w ELSE w = Nil

LEMMA LeastOne ==
  ASSUME NEW i, NEW v, v[i] \in Nat
  PROVE  IsLeast(v[i], {i}, v) /\ IsGreatest(v[i], {i}, v)
BY DEF IsLeast, IsGreatest

LEMMA LeastGrows ==
  ASSUME NEW S, NEW i, NEW v, v[i] \in Nat, \A x \in S : v[x] \in Nat, NEW m, IsLeast(m, S, v)
  PROVE  IsLeast(Smaller(m, v[i]), S \cup {i}, v)
BY DEF IsLeast, Smaller

LEMMA GreatestGrows ==
  ASSUME NEW S, NEW i, NEW v, v[i] \in Nat, \A x \in S : v[x] \in Nat, NEW m, IsGreatest(m, S, v)
  PROVE  IsGreatest(Larger(m, v[i]), S \cup {i}, v)
BY DEF IsGreatest, Larger

LEMMA LowestIs ==
  ASSUME NEW S, NEW v, NEW m, IsLeast(m, S, v), NEW T, T = {v[x] : x \in S}, \A x \in S : v[x] \in Nat
  PROVE  m = Lowest(T)
<1>1. m \in T /\ \A b \in T : m <= b /\ b \in Nat
  BY DEF IsLeast
<1>2. Lowest(T) \in T /\ \A b \in T : Lowest(T) <= b
  BY <1>1 DEF Lowest
<1> QED BY <1>1, <1>2

LEMMA HighestIs ==
  ASSUME NEW S, NEW v, NEW m, IsGreatest(m, S, v), NEW T, T = {v[x] : x \in S}, \A x \in S : v[x] \in Nat
  PROVE  m = Highest(T)
<1>1. m \in T /\ \A b \in T : m >= b /\ b \in Nat
  BY DEF IsGreatest
<1>2. Highest(T) \in T /\ \A b \in T : Highest(T) >= b
  BY <1>1 DEF Highest
<1>3. m >= Highest(T) /\ Highest(T) >= m /\ m \in Nat /\ Highest(T) \in Nat
  BY <1>1, <1>2
<1>4. \A a, b \in Nat : a >= b /\ b >= a => a = b
  OBVIOUS
<1> QED BY <1>3, <1>4

\* One more: the value is given up unless it is the same.
LEMMA CommonGrows ==
  ASSUME NEW S, S # {}, NEW i, NEW v, NEW w, IsCommon(w, S, v)
  PROVE  IsCommon(IF w = v[i] THEN w ELSE Nil, S \cup {i}, v)
BY DEF IsCommon

LEMMA CommonIs ==
  ASSUME NEW f, NEW w, IsCommon(w, Nodes, [i \in Nodes |-> sent[i][f]])
  PROVE  w = Common(f)
<1>1. PICK vs : vs = {sent[i][f] : i \in Nodes}
  OBVIOUS
<1>2. IsFiniteSet(vs) /\ vs # {}
  <2>1. [i \in Nodes |-> sent[i][f]] \in Surjection(Nodes, vs)
    BY <1>1 DEF Surjection
  <2> QED BY <2>1, <1>1, MergeAssumption, FS_Surjection DEF ExistsSurjection
<1>3. Common(f) = IF Cardinality(vs) = 1 THEN CHOOSE v \in vs : TRUE ELSE Nil
  BY <1>1 DEF Common
<1>4. CASE \E u : vs = {u}
  <2>1. PICK u : vs = {u}
    BY <1>4
  <2>2. Cardinality(vs) = 1
    BY <2>1, FS_Singleton
  <2>3. \A i \in Nodes : sent[i][f] = u
    BY <1>1, <2>1
  <2>4. w = u
    BY <2>3, MergeAssumption DEF IsCommon
  <2> QED BY <1>3, <2>1, <2>2, <2>4
<1>5. CASE ~ \E u : vs = {u}
  <2>1. Cardinality(vs) # 1
    BY <1>2, <1>5, FS_Singleton
  <2>2. ~ \E u : \A i \in Nodes : sent[i][f] = u
    BY <1>1, <1>5, MergeAssumption
  <2>3. w = Nil
    BY <2>2 DEF IsCommon
  <2> QED BY <1>3, <2>1, <2>3
<1> QED BY <1>4, <1>5

\* A common value is that of all.
LEMMA CommonOfAll == \A f : Common(f) # Nil => \A i \in Nodes : sent[i][f] = Common(f)
<1> SUFFICES ASSUME NEW f, Common(f) # Nil PROVE \A i \in Nodes : sent[i][f] = Common(f)
  OBVIOUS
<1>1. PICK v : v = [i \in Nodes |-> sent[i][f]]
  OBVIOUS
<1>2. CASE \E u : \A x \in Nodes : v[x] = u
  <2>1. PICK u : \A x \in Nodes : v[x] = u
    BY <1>2
  <2>2. IsCommon(u, Nodes, [i \in Nodes |-> sent[i][f]])
    BY <1>1, <2>1 DEF IsCommon
  <2>3. u = Common(f)
    BY <2>2, CommonIs
  <2> QED BY <1>1, <2>1, <2>3
<1>3. CASE ~ \E u : \A x \in Nodes : v[x] = u
  <2>1. IsCommon(Nil, Nodes, [i \in Nodes |-> sent[i][f]])
    BY <1>1, <1>3 DEF IsCommon
  <2>2. Nil = Common(f)
    BY <2>1, CommonIs
  <2> QED BY <2>2
<1> QED BY <1>2, <1>3

----------------------------------------------------------------------------
(* The parts of a DiskMetric, when the reports v of the nodes in S are merged. *)

Col(v, f)    == [x \in Nodes |-> v[x][f]]
Having(S, v) == {x \in S : v[x] # Nil}
Seen(S, v)   == {x \in S : v[x] # Nil /\ v[x].count > 0}

StateIs(a, S, v) ==
  IF Having(S, v) = {} THEN a = Nil ELSE a \in Nat /\ a = SumFunctionOnSet(v, Having(S, v))

SpaceIs(a, S, v) ==
  /\ a \in Spaces /\ a.total = SumFunctionOnSet(Col(v, "total"), S)
  /\ IsGreatest(a.max, S, Col(v, "max"))
  /\ \E x \in S : a.min = Col(v, "min")[x]
  /\ \A x \in S : v[x].n > 0 => a.n > 0 /\ a.min <= Col(v, "min")[x]

ActionsAre(a, T, v) ==
  /\ a \in Actions /\ a.count = SumFunctionOnSet(Col(v, "count"), T)
  /\ a.count = 0 <=> T = {}
  /\ T # {} => IsLeast(a.min, T, Col(v, "min")) /\ IsGreatest(a.max, T, Col(v, "max"))

OpIs(a, S, v) == IF Having(S, v) = {} THEN a = Nil ELSE ActionsAre(a, Seen(S, v), v)

LEMMA SumOfOne ==
  ASSUME NEW y, NEW v, v[y] \in Nat
  PROVE  SumFunctionOnSet(v, {y}) = v[y]
<1>1. PICK S : S = {}
  OBVIOUS
<1>2. IsFiniteSet(S) /\ y \notin S /\ \A x \in S \cup {y} : v[x] \in Nat
  BY <1>1, FS_EmptySet
<1>3. SumFunctionOnSet(v, S) = 0 /\ S \cup {y} = {y}
  BY <1>1, SumOfNone
<1>4. SumFunctionOnSet(v, S \cup {y}) = SumFunctionOnSet(v, S) + v[y]
  BY <1>2, SumGrows
<1>5. \A z \in Nat : 0 + z = z
  OBVIOUS
<1>6. SumFunctionOnSet(v, {y}) = 0 + v[y]
  BY <1>3, <1>4
<1> QED BY <1>5, <1>6

LEMMA StateOne ==
  ASSUME NEW i, NEW v, v[i] \in Maybe(Nat)
  PROVE  StateIs(v[i], {i}, v)
<1>1. CASE v[i] = Nil
  BY <1>1 DEF StateIs, Having
<1>2. CASE v[i] # Nil
  <2>1. Having({i}, v) = {i} /\ v[i] \in Nat
    BY <1>2 DEF Having, Maybe
  <2> QED BY <2>1, SumOfOne DEF StateIs
<1> QED BY <1>1, <1>2

LEMMA StateGrows ==
  ASSUME NEW S, IsFiniteSet(S), NEW i, i \notin S, NEW v, \A x \in S \cup {i} : v[x] \in Maybe(Nat),
         NEW a, StateIs(a, S, v)
  PROVE  StateIs(StateMerge(a, v[i]), S \cup {i}, v)
<1>0. Nil \notin Nat
  BY MergeAssumption
<1>1. CASE v[i] = Nil
  <2>1. Having(S \cup {i}, v) = Having(S, v)
    BY <1>1 DEF Having
  <2> QED BY <1>1, <2>1 DEF StateIs, StateMerge
<1>2. CASE v[i] # Nil
  <2>1. PICK T : T = Having(S, v)
    OBVIOUS
  <2>2. Having(S \cup {i}, v) = T \cup {i} /\ T \subseteq S
    BY <1>2, <2>1 DEF Having
  <2>3. IsFiniteSet(T) /\ i \notin T /\ \A x \in T \cup {i} : v[x] \in Nat
    <3>1. IsFiniteSet(T)
      BY <2>2, FS_Subset
    <3> QED BY <1>2, <2>1, <3>1 DEF Having, Maybe
  <2>4. SumFunctionOnSet(v, T) \in Nat /\ SumFunctionOnSet(v, T \cup {i}) = SumFunctionOnSet(v, T) + v[i]
    BY <2>3, SumGrows
  <2>5. CASE T = {}
    <3>1. a = Nil /\ v[i] \in Nat /\ T \cup {i} = {i}
      BY <2>1, <2>3, <2>5 DEF StateIs
    <3>2. SumFunctionOnSet(v, T \cup {i}) = v[i]
      BY <3>1, SumOfOne
    <3>3. StateMerge(a, v[i]) = v[i]
      BY <1>2, <3>1 DEF StateMerge
    <3> QED BY <2>2, <3>1, <3>2, <3>3 DEF StateIs
  <2>6. CASE T # {}
    <3>1. a \in Nat /\ a = SumFunctionOnSet(v, T) /\ v[i] \in Nat
      BY <2>1, <2>3, <2>6 DEF StateIs
    <3>2. StateMerge(a, v[i]) = a + v[i]
      BY <1>0, <1>2, <3>1 DEF StateMerge
    <3>3. PICK b : b = StateMerge(a, v[i])
      OBVIOUS
    <3>4. PICK c : c = SumFunctionOnSet(v, T \cup {i})
      OBVIOUS
    <3>5. b = c
      BY <2>4, <3>1, <3>2, <3>3, <3>4
    <3>6. b \in Nat
      BY <3>1, <3>2, <3>3
    <3> QED BY <2>2, <3>3, <3>4, <3>5, <3>6 DEF StateIs
  <2> QED BY <2>5, <2>6
<1> QED BY <1>1, <1>2

\* Spaces of no drives before the first do not count.
LEMMA SpaceFirst ==
  ASSUME NEW S, IsFiniteSet(S), S \subseteq Nodes, NEW i \in Nodes, i \notin S,
         NEW v, \A x \in S \cup {i} : v[x] \in Spaces, \A x \in S : v[x] = Zero.space
  PROVE  SpaceIs(v[i], S \cup {i}, v)
<1>1. PICK t, lo, hi : t = Col(v, "total") /\ lo = Col(v, "min") /\ hi = Col(v, "max")
  OBVIOUS
<1>2. \A x \in S \cup {i} : t[x] = v[x].total /\ lo[x] = v[x].min /\ hi[x] = v[x].max
  BY <1>1 DEF Col
<1>3. \A x \in S \cup {i} : t[x] \in Nat /\ lo[x] \in Nat /\ hi[x] \in Nat /\ v[x].n \in Nat
  BY <1>2 DEF Spaces
<1>4. \A x \in S : t[x] = 0 /\ hi[x] = 0 /\ v[x].n = 0
  BY <1>2 DEF Zero
<1>5. SumFunctionOnSet(t, S \cup {i}) = t[i]
  <2>1. SumFunctionOnSet(t, S \cup {i}) = SumFunctionOnSet(t, S) + t[i]
    BY <1>3, SumGrows
  <2>2. SumFunctionOnSet(t, S) = 0
    BY <1>4, SumOfZeros
  <2>3. \A z \in Nat : 0 + z = z
    OBVIOUS
  <2> QED BY <1>3, <2>1, <2>2, <2>3
<1>6. IsGreatest(hi[i], S \cup {i}, hi)
  BY <1>3, <1>4 DEF IsGreatest
<1>7. \A x \in S \cup {i} : v[x].n > 0 => v[i].n > 0 /\ lo[i] <= lo[x]
  BY <1>3, <1>4
<1> QED BY <1>1, <1>2, <1>5, <1>6, <1>7 DEF SpaceIs

LEMMA SpaceGrows ==
  ASSUME NEW S, IsFiniteSet(S), S \subseteq Nodes, NEW i \in Nodes, i \notin S,
         NEW v, \A x \in S \cup {i} : v[x] \in Spaces, NEW a, SpaceIs(a, S, v)
  PROVE  SpaceIs(SpaceMerge(a, v[i]), S \cup {i}, v)
<1>1. PICK t, lo, hi : t = Col(v, "total") /\ lo = Col(v, "min") /\ hi = Col(v, "max")
  OBVIOUS
<1>2. \A x \in S \cup {i} : t[x] = v[x].total /\ lo[x] = v[x].min /\ hi[x] = v[x].max
  BY <1>1 DEF Col
<1>3. \A x \in S \cup {i} : t[x] \in Nat /\ lo[x] \in Nat /\ hi[x] \in Nat /\ v[x].n \in Nat
  BY <1>2 DEF Spaces
<1>4. a \in Spaces /\ v[i] \in Spaces
  BY DEF SpaceIs
<1>5. PICK m : m = SpaceMerge(a, v[i])
  OBVIOUS
<1>6. m \in Spaces /\ m.n = a.n + v[i].n /\ m.total = a.total + v[i].total /\ m.max = Larger(a.max, v[i].max)
  BY <1>4, <1>5 DEF SpaceMerge, Larger, Spaces
<1>7. m.total = SumFunctionOnSet(t, S \cup {i})
  <2>1. SumFunctionOnSet(t, S \cup {i}) = SumFunctionOnSet(t, S) + t[i]
    BY <1>3, SumGrows
  <2>2. a.total = SumFunctionOnSet(t, S)
    BY <1>1 DEF SpaceIs
  <2> QED BY <1>2, <1>6, <2>1, <2>2
<1>8. IsGreatest(m.max, S \cup {i}, hi)
  <2>1. PICK b : b = a.max
    OBVIOUS
  <2>2. IsGreatest(b, S, hi)
    BY <1>1, <2>1 DEF SpaceIs
  <2>3. IsGreatest(Larger(b, hi[i]), S \cup {i}, hi)
    BY <1>3, <2>2, GreatestGrows
  <2> QED BY <1>2, <1>6, <2>1, <2>3
<1>9. /\ \E x \in S : a.min = lo[x]
      /\ \A x \in S : v[x].n > 0 => a.n > 0 /\ a.min <= lo[x]
  BY <1>1 DEF SpaceIs
<1>10. m.min = IF m.n = 0 \/ a.min > lo[i] THEN lo[i] ELSE a.min
  BY <1>2, <1>5, <1>6 DEF SpaceMerge
<1>11. a.min \in Nat /\ a.n \in Nat /\ m.n \in Nat
  BY <1>4, <1>6 DEF Spaces
<1>12. \E x \in S \cup {i} : m.min = lo[x]
  BY <1>9, <1>10
<1>13. ASSUME NEW x \in S \cup {i}, v[x].n > 0 PROVE m.n > 0 /\ m.min <= lo[x]
  <2>1. x # i => a.n > 0 /\ a.min <= lo[x]
    BY <1>9, <1>13
  <2>2. m.n > 0
    BY <1>3, <1>6, <1>11, <1>13, <2>1
  <2>3. lo[i] \in Nat /\ lo[x] \in Nat
    BY <1>3
  <2> QED BY <1>10, <1>11, <2>1, <2>2, <2>3
<1> QED BY <1>1, <1>5, <1>6, <1>7, <1>8, <1>12, <1>13 DEF SpaceIs

LEMMA ActionsOne ==
  ASSUME NEW i \in Nodes, NEW v, v[i] \in Actions, NEW T, T = IF v[i].count > 0 THEN {i} ELSE {}
  PROVE  ActionsAre(v[i], T, v)
<1>1. PICK n, lo, hi : n = Col(v, "count") /\ lo = Col(v, "min") /\ hi = Col(v, "max")
  OBVIOUS
<1>2. n[i] = v[i].count /\ lo[i] = v[i].min /\ hi[i] = v[i].max
  BY <1>1 DEF Col
<1>3. n[i] \in Nat /\ lo[i] \in Nat /\ hi[i] \in Nat
  BY <1>2 DEF Actions
<1>4. CASE n[i] = 0
  <2>1. T = {}
    BY <1>2, <1>4
  <2>2. SumFunctionOnSet(n, T) = 0
    BY <2>1, SumOfNone
  <2> QED BY <1>1, <1>2, <1>4, <2>1, <2>2 DEF ActionsAre
<1>5. CASE n[i] # 0
  <2>1. T = {i}
    BY <1>2, <1>3, <1>5
  <2>2. SumFunctionOnSet(n, T) = n[i]
    BY <1>3, <2>1, SumOfOne
  <2>3. IsLeast(lo[i], {i}, lo) /\ IsGreatest(hi[i], {i}, hi)
    BY <1>3, LeastOne
  <2> QED BY <1>1, <1>2, <1>5, <2>1, <2>2, <2>3 DEF ActionsAre
<1> QED BY <1>4, <1>5

LEMMA ActionsGrow ==
  ASSUME NEW T, IsFiniteSet(T), T \subseteq Nodes, NEW i \in Nodes, i \notin T,
         NEW v, \A x \in T \cup {i} : v[x] \in Actions, NEW a, ActionsAre(a, T, v),
         NEW U, U = IF v[i].count > 0 THEN T \cup {i} ELSE T
  PROVE  ActionsAre(ActionAdd(a, v[i]), U, v)
<1>1. PICK n, lo, hi : n = Col(v, "count") /\ lo = Col(v, "min") /\ hi = Col(v, "max")
  OBVIOUS
<1>2. \A x \in T \cup {i} : n[x] = v[x].count /\ lo[x] = v[x].min /\ hi[x] = v[x].max
  BY <1>1 DEF Col
<1>3. \A x \in T \cup {i} : n[x] \in Nat /\ lo[x] \in Nat /\ hi[x] \in Nat
  BY <1>2 DEF Actions
<1>4. /\ a \in [count : Nat, min : Nat, max : Nat] /\ v[i] \in [count : Nat, min : Nat, max : Nat]
      /\ (a.count = 0 => a.max = 0) /\ (v[i].count = 0 => v[i].max = 0)
  BY DEF ActionsAre, Actions
<1>5. PICK m : m = ActionAdd(a, v[i])
  OBVIOUS
<1>6. PICK first : first = IF a.count = 0 THEN v[i].min ELSE a.min
  OBVIOUS
<1>7. m = [count |-> a.count + v[i].count, min |-> IF v[i].count > 0 THEN Smaller(first, v[i].min) ELSE first,
           max |-> Larger(a.max, v[i].max)]
  BY <1>5, <1>6 DEF ActionAdd
<1>8. m \in Actions
  BY <1>4, <1>6, <1>7 DEF Actions, Smaller, Larger
<1>9. a.count = SumFunctionOnSet(n, T) /\ (a.count = 0 <=> T = {})
      /\ (T # {} => IsLeast(a.min, T, lo) /\ IsGreatest(a.max, T, hi))
  BY <1>1 DEF ActionsAre
<1>10. CASE v[i].count = 0
  <2>1. U = T /\ m.count = a.count
    BY <1>4, <1>7, <1>10
  <2>2. m.max = a.max
    BY <1>4, <1>7, <1>10 DEF Larger
  <2>3. T # {} => m.min = a.min
    BY <1>4, <1>6, <1>7, <1>9, <1>10
  <2> QED BY <1>1, <1>5, <1>8, <1>9, <2>1, <2>2, <2>3 DEF ActionsAre
<1>11. CASE v[i].count # 0
  <2>1. U = T \cup {i} /\ v[i].count > 0
    BY <1>4, <1>11
  <2>2. m.count = SumFunctionOnSet(n, U)
    <3>1. SumFunctionOnSet(n, T \cup {i}) = SumFunctionOnSet(n, T) + n[i]
      BY <1>3, SumGrows
    <3> QED BY <1>2, <1>7, <1>9, <2>1, <3>1
  <2>3. m.count # 0
    BY <1>4, <1>7, <2>1
  <2>4. m.min = Smaller(first, lo[i]) /\ m.max = Larger(a.max, hi[i])
    BY <1>2, <1>7, <2>1
  <2>5. CASE T = {}
    <3>1. first = lo[i] /\ a.max = 0
      BY <1>2, <1>4, <1>6, <1>9, <2>5
    <3>2. m.min = lo[i] /\ m.max = hi[i]
      BY <1>3, <2>4, <3>1 DEF Smaller, Larger
    <3>3. IsLeast(lo[i], {i}, lo) /\ IsGreatest(hi[i], {i}, hi) /\ U = {i}
      BY <1>3, <2>1, <2>5, LeastOne
    <3> QED BY <1>1, <1>5, <1>8, <2>2, <2>3, <3>2, <3>3 DEF ActionsAre
  <2>6. CASE T # {}
    <3>1. first = a.min
      BY <1>6, <1>9, <2>6
    <3>2. IsLeast(Smaller(a.min, lo[i]), T \cup {i}, lo)
      BY <1>3, <1>9, <2>6, LeastGrows
    <3>3. IsGreatest(Larger(a.max, hi[i]), T \cup {i}, hi)
      BY <1>3, <1>9, <2>6, GreatestGrows
    <3> QED BY <1>1, <1>5, <1>8, <2>1, <2>2, <2>3, <2>4, <3>1, <3>2, <3>3 DEF ActionsAre
  <2> QED BY <2>5, <2>6
<1> QED BY <1>10, <1>11

LEMMA OpOne ==
  ASSUME NEW i \in Nodes, NEW v, v[i] \in Maybe(Actions)
  PROVE  OpIs(v[i], {i}, v)
<1>1. CASE v[i] = Nil
  BY <1>1 DEF OpIs, Having
<1>2. CASE v[i] # Nil
  <2>1. Having({i}, v) = {i} /\ v[i] \in Actions
    BY <1>2 DEF Having, Maybe
  <2>2. Seen({i}, v) = IF v[i].count > 0 THEN {i} ELSE {}
    BY <1>2 DEF Seen
  <2>3. ActionsAre(v[i], Seen({i}, v), v)
    BY <2>1, <2>2, ActionsOne
  <2> QED BY <2>1, <2>3 DEF OpIs
<1> QED BY <1>1, <1>2

LEMMA OpGrows ==
  ASSUME NEW S, IsFiniteSet(S), S \subseteq Nodes, NEW i \in Nodes, i \notin S,
         NEW v, \A x \in S \cup {i} : v[x] \in Maybe(Actions), NEW a, OpIs(a, S, v)
  PROVE  OpIs(OpMerge(a, v[i]), S \cup {i}, v)
<1>1. CASE v[i] = Nil
  <2>1. Having(S \cup {i}, v) = Having(S, v) /\ Seen(S \cup {i}, v) = Seen(S, v)
    BY <1>1 DEF Having, Seen
  <2> QED BY <1>1, <2>1 DEF OpIs, OpMerge
<1>2. CASE v[i] # Nil
  <2>1. PICK T : T = Seen(S, v)
    OBVIOUS
  <2>2. PICK U : U = Seen(S \cup {i}, v)
    OBVIOUS
  <2>3. U = IF v[i].count > 0 THEN T \cup {i} ELSE T
    BY <1>2, <2>1, <2>2 DEF Seen
  <2>4. T \subseteq S /\ T \subseteq Nodes /\ i \notin T /\ v[i] \in Actions /\ i \in Having(S \cup {i}, v)
    BY <1>2, <2>1 DEF Seen, Having, Maybe
  <2>5. IsFiniteSet(T)
    BY <2>4, FS_Subset
  <2>6. \A x \in T \cup {i} : v[x] \in Actions
    BY <2>1, <2>4 DEF Seen, Maybe
  <2>7. PICK b : b = IF a = Nil THEN ZeroOp ELSE a
    OBVIOUS
  <2>8. ActionsAre(b, T, v)
    <3>1. CASE Having(S, v) = {}
      <4>1. a = Nil /\ T = {} /\ b = ZeroOp
        BY <2>1, <2>7, <3>1 DEF OpIs, Having, Seen
      <4>2. SumFunctionOnSet(Col(v, "count"), T) = 0
        BY <4>1, SumOfNone
      <4>3. ZeroOp \in Actions /\ ZeroOp.count = 0
        BY DEF ZeroOp, Actions
      <4> QED BY <4>1, <4>2, <4>3 DEF ActionsAre
    <3>2. CASE Having(S, v) # {}
      <4>1. ActionsAre(a, T, v)
        BY <2>1, <3>2 DEF OpIs
      <4>2. a # Nil
        BY <4>1, DiskAssumption DEF ActionsAre
      <4> QED BY <2>7, <4>1, <4>2
    <3> QED BY <3>1, <3>2
  <2>9. ActionsAre(ActionAdd(b, v[i]), U, v)
    BY <2>3, <2>4, <2>5, <2>6, <2>8, ActionsGrow
  <2>10. OpMerge(a, v[i]) = ActionAdd(b, v[i])
    BY <1>2, <2>7 DEF OpMerge
  <2> QED BY <2>2, <2>4, <2>9, <2>10 DEF OpIs
<1> QED BY <1>1, <1>2

----------------------------------------------------------------------------
(* Series of statistics.  Time is divided into slots of p seconds.            *)

LEMMA Multiples == \A a, b, p \in Nat : a < b => a * p + p <= b * p
OBVIOUS

LEMMA Quotient == \A n \in Nat, p \in Nat \ {0} : n \div p \in Nat /\ (n \div p) * p <= n /\ n < (n \div p) * p + p
OBVIOUS

LEMMA QuotientIs ==
  ASSUME NEW k \in Nat, NEW p \in Nat \ {0}, NEW r \in 0..(p - 1)
  PROVE  (k * p + r) \div p = k
<1>1. PICK n, q : n = k * p + r /\ q = n \div p
  OBVIOUS
<1>2. n \in Nat /\ q \in Nat /\ q * p <= n /\ n < q * p + p
  BY <1>1, Quotient
<1>3. ~ q < k
  <2>1. q < k => q * p + p <= k * p
    BY <1>2, Multiples
  <2> QED BY <2>1, <1>1, <1>2
<1>4. ~ k < q
  <2>1. k < q => k * p + p <= q * p
    BY <1>2, Multiples
  <2> QED BY <2>1, <1>1, <1>2
<1> QED BY <1>1, <1>2, <1>3, <1>4

\* The slot at which the series d begins, and what it has in slot k.
Slot(d, p) == d.first \div p
InSlot(d, p, k) ==
  IF Slot(d, p) <= k /\ k < Slot(d, p) + Len(d.segs) THEN d.segs[k - Slot(d, p) + 1] ELSE 0

Lasts(d, p) == d \in Series /\ d.step = p /\ d.segs # <<>>

LEMMA SlotIs ==
  ASSUME NEW p \in Nat \ {0}, NEW d, Lasts(d, p)
  PROVE  /\ Slot(d, p) \in Nat /\ Len(d.segs) \in Nat \ {0} /\ d.segs \in Seq(Nat)
         /\ d.first \in Nat /\ d.first = Slot(d, p) * p /\ EndOf(d) = (Slot(d, p) + Len(d.segs)) * p
         /\ \A i \in Nat : InSlot(d, p, i) \in Nat
<1>1. d.step = p /\ d.first \in Nat /\ d.segs \in Seq(Nat) /\ d.segs # <<>> /\ d.first % p = 0
  BY DEF Lasts, Series
<1>2. PICK f, k, n : f = d.first /\ k = Slot(d, p) /\ n = Len(d.segs)
  OBVIOUS
<1>3. f \in Nat /\ f % p = 0 /\ k = f \div p
  BY <1>1, <1>2 DEF Slot
<1>4. k \in Nat /\ f = k * p
  BY <1>3
<1>5. n \in Nat \ {0}
  BY <1>1, <1>2
<1>6. EndOf(d) = f + n * p
  BY <1>1, <1>2 DEF EndOf
<1>7. f + n * p = (k + n) * p
  BY <1>4, <1>5
<1>8. ASSUME NEW i \in Nat PROVE InSlot(d, p, i) \in Nat
  <2>1. CASE k <= i /\ i < k + n
    <3>1. i - k + 1 \in 1..n
      BY <1>4, <1>5, <2>1
    <3>2. InSlot(d, p, i) = d.segs[i - k + 1]
      BY <1>2, <2>1 DEF InSlot
    <3> QED BY <1>1, <1>2, <3>1, <3>2
  <2>2. CASE ~(k <= i /\ i < k + n)
    BY <1>2, <2>2 DEF InSlot
  <2> QED BY <2>1, <2>2
<1> QED BY <1>1, <1>2, <1>4, <1>5, <1>6, <1>7, <1>8

\* r has in every slot what s and o have in it, and reaches over both.
Joins(r, s, o, p) ==
  /\ Lasts(r, p)
  /\ r.first = Smaller(s.first, o.first) /\ EndOf(r) = Larger(EndOf(s), EndOf(o))
  /\ \A k \in Nat : InSlot(r, p, k) = InSlot(s, p, k) + InSlot(o, p, k)

LEMMA SameTimesJoin ==
  ASSUME NEW p \in Nat \ {0}, NEW s, Lasts(s, p), NEW o, Lasts(o, p), SameTimes(s, o)
  PROVE  Joins([s EXCEPT !.segs = [i \in DOMAIN s.segs |-> s.segs[i] + o.segs[i]]], s, o, p)
<1>1. PICK r, t, u, n : /\ r = [s EXCEPT !.segs = [i \in DOMAIN s.segs |-> s.segs[i] + o.segs[i]]]
                        /\ t = s.segs /\ u = o.segs /\ n = Len(s.segs)
  OBVIOUS
<1>2. /\ t \in Seq(Nat) /\ u \in Seq(Nat) /\ Len(t) = n /\ Len(u) = n /\ n \in Nat /\ n # 0
      /\ s.first = o.first /\ s.first \in Nat /\ s.first % p = 0 /\ s.step = p /\ o.step = p
  BY <1>1 DEF Lasts, Series, SameTimes
<1>3. s \in [step : Nat, first : Nat, segs : Seq(Nat)]
  BY DEF Lasts, Series
<1>4. [i \in 1..n |-> t[i] + u[i]] \in Seq(Nat) /\ Len([i \in 1..n |-> t[i] + u[i]]) = n
  <2>1. \A i \in 1..n : t[i] + u[i] \in Nat
    BY <1>2
  <2> QED BY <1>2, <2>1
<1>5. r.step = p /\ r.first = s.first /\ r.segs = [i \in 1..n |-> t[i] + u[i]]
  BY <1>1, <1>2, <1>3
<1>6. Lasts(r, p)
  <2>1. PICK w : w = [i \in 1..n |-> t[i] + u[i]]
    OBVIOUS
  <2>2. w \in Seq(Nat) /\ Len(w) = n /\ w # <<>>
    <3>1. w \in Seq(Nat) /\ Len(w) = n
      BY <1>4, <2>1
    <3> QED BY <1>2, <3>1
  <2>3. r = [s EXCEPT !.segs = w]
    <3>1. [i \in DOMAIN s.segs |-> s.segs[i] + o.segs[i]] = w
      BY <1>1, <1>2, <2>1
    <3> QED BY <1>1, <3>1
  <2>4. r \in [step : Nat, first : Nat, segs : Seq(Nat)] /\ r.segs = w
    BY <1>3, <2>2, <2>3
  <2> QED BY <1>2, <1>5, <2>2, <2>4 DEF Lasts, Series
<1>7. EndOf(r) = EndOf(s) /\ EndOf(o) = EndOf(s)
  BY <1>1, <1>2, <1>4, <1>5 DEF EndOf
<1>8. ASSUME NEW k \in Nat PROVE InSlot(r, p, k) = InSlot(s, p, k) + InSlot(o, p, k)
  <2>1. PICK m : m = Slot(s, p)
    OBVIOUS
  <2>2. m \in Nat /\ Slot(r, p) = m /\ Slot(o, p) = m
    <3>1. m \in Nat
      BY <2>1, SlotIs
    <3> QED BY <1>2, <1>5, <2>1, <3>1 DEF Slot
  <2>3. CASE m <= k /\ k < m + n
    <3>1. k - m + 1 \in 1..n
      BY <1>2, <2>2, <2>3
    <3>2. InSlot(r, p, k) = r.segs[k - m + 1] /\ InSlot(s, p, k) = t[k - m + 1] /\ InSlot(o, p, k) = u[k - m + 1]
      BY <1>1, <1>2, <1>4, <1>5, <2>1, <2>2, <2>3 DEF InSlot
    <3> QED BY <1>5, <3>1, <3>2
  <2>4. CASE ~(m <= k /\ k < m + n)
    <3>1. InSlot(r, p, k) = 0 /\ InSlot(s, p, k) = 0 /\ InSlot(o, p, k) = 0
      BY <1>1, <1>2, <1>4, <1>5, <2>1, <2>2, <2>4 DEF InSlot
    <3> QED BY <3>1
  <2> QED BY <2>3, <2>4
<1>9. r.first = Smaller(s.first, o.first) /\ EndOf(r) = Larger(EndOf(s), EndOf(o))
  BY <1>2, <1>5, <1>7 DEF Smaller, Larger
<1> QED BY <1>1, <1>6, <1>8, <1>9 DEF Joins

\* What a series brings to a timeline that begins at slot c.
LEMMA AtIs ==
  ASSUME NEW p \in Nat \ {0}, NEW s, Lasts(s, p), NEW c \in Nat, c <= Slot(s, p), NEW k \in Nat, c <= k
  PROVE  /\ Offset(s, c * p) = Slot(s, p) - c
         /\ At(s, Offset(s, c * p), k - c + 1) = InSlot(s, p, k)
<1>1. PICK m, n, f : m = Slot(s, p) /\ n = Len(s.segs) /\ f = s.first
  OBVIOUS
<1>2. m \in Nat /\ n \in Nat \ {0} /\ f = m * p /\ s.step = p
  BY <1>1, SlotIs DEF Lasts
<1>3. Offset(s, c * p) = m - c
  <2>1. PICK d : d = m - c
    OBVIOUS
  <2>2. d \in Nat /\ m * p - c * p = d * p + 0
    BY <1>1, <1>2, <2>1
  <2>3. 0 \in 0..(p - 1)
    OBVIOUS
  <2>4. (d * p + 0) \div p = d
    BY <2>2, <2>3, QuotientIs
  <2> QED BY <1>1, <1>2, <2>1, <2>2, <2>4 DEF Offset
<1>4. PICK i, e : i = k - c + 1 /\ e = m - c
  OBVIOUS
<1>5. (i - 1 >= e /\ i - e <= n) <=> (m <= k /\ k < m + n)
  BY <1>1, <1>2, <1>4
<1>6. i - e = k - m + 1
  BY <1>1, <1>2, <1>4
<1>7. At(s, e, i) = InSlot(s, p, k)
  BY <1>1, <1>5, <1>6 DEF At, InSlot
<1> QED BY <1>1, <1>3, <1>4, <1>7

LEMMA OverlaidJoins ==
  ASSUME NEW p \in Nat \ {0}, NEW s, Lasts(s, p), NEW o, Lasts(o, p)
  PROVE  Joins(Overlaid(s, o), s, o, p)
<1>1. PICK m, n, a, b : m = Slot(s, p) /\ n = Len(s.segs) /\ a = Slot(o, p) /\ b = Len(o.segs)
  OBVIOUS
<1>2. /\ m \in Nat /\ n \in Nat \ {0} /\ s.first = m * p /\ EndOf(s) = (m + n) * p /\ s.step = p
      /\ \A i \in Nat : InSlot(s, p, i) \in Nat
  BY <1>1, SlotIs DEF Lasts
<1>3. /\ a \in Nat /\ b \in Nat \ {0} /\ o.first = a * p /\ EndOf(o) = (a + b) * p /\ o.step = p
      /\ \A i \in Nat : InSlot(o, p, i) \in Nat
  BY <1>1, SlotIs DEF Lasts
<1>4. \A x, y \in Nat : Smaller(x * p, y * p) = Smaller(x, y) * p /\ Larger(x * p, y * p) = Larger(x, y) * p
  <2> SUFFICES ASSUME NEW x \in Nat, NEW y \in Nat
        PROVE Smaller(x * p, y * p) = Smaller(x, y) * p /\ Larger(x * p, y * p) = Larger(x, y) * p
    OBVIOUS
  <2>1. x < y => x * p + p <= y * p
    BY Multiples
  <2>2. y < x => y * p + p <= x * p
    BY Multiples
  <2> QED BY <2>1, <2>2 DEF Smaller, Larger
<1>5. PICK c, e : c = Smaller(m, a) /\ e = Larger(m + n, a + b)
  OBVIOUS
<1>6. c \in Nat /\ e \in Nat /\ c < e /\ c <= m /\ c <= a /\ m + n <= e /\ a + b <= e
  BY <1>2, <1>3, <1>5 DEF Smaller, Larger
<1>7. Earlier(s.first, o.first) = c * p /\ Later(EndOf(s), EndOf(o)) = e * p
  <2>1. Smaller(m * p, a * p) = c * p
    BY <1>2, <1>3, <1>4, <1>5
  <2>2. Larger((m + n) * p, (a + b) * p) = e * p
    BY <1>2, <1>3, <1>4, <1>5
  <2> QED BY <1>2, <1>3, <2>1, <2>2 DEF Smaller, Larger, Earlier, Later
<1>8. PICK l : l = e - c
  OBVIOUS
<1>9. l \in Nat \ {0} /\ (e * p - c * p) \div p = l
  <2>1. l \in Nat \ {0} /\ e * p - c * p = l * p + 0
    BY <1>6, <1>8
  <2>2. 0 \in 0..(p - 1)
    OBVIOUS
  <2>3. (l * p + 0) \div p = l
    BY <2>1, <2>2, QuotientIs
  <2> QED BY <2>1, <2>3
<1>10. PICK r, t : /\ r = Overlaid(s, o)
                   /\ t = [i \in 1..l |-> At(s, Offset(s, c * p), i) + At(o, Offset(o, c * p), i)]
  OBVIOUS
<1>11. r = [step |-> p, first |-> c * p, segs |-> t]
  BY <1>2, <1>7, <1>9, <1>10 DEF Overlaid
<1>12. ASSUME NEW i \in 1..l PROVE t[i] = InSlot(s, p, c + i - 1) + InSlot(o, p, c + i - 1)
  <2>1. PICK k : k = c + i - 1
    OBVIOUS
  <2>2. k \in Nat /\ c <= k /\ k - c + 1 = i
    BY <1>6, <1>8, <1>9, <2>1
  <2>3. At(s, Offset(s, c * p), k - c + 1) = InSlot(s, p, k)
    BY <1>1, <1>6, <2>2, AtIs
  <2>4. At(o, Offset(o, c * p), k - c + 1) = InSlot(o, p, k)
    BY <1>1, <1>6, <2>2, AtIs
  <2> QED BY <1>10, <2>1, <2>2, <2>3, <2>4
<1>13. t \in Seq(Nat) /\ Len(t) = l
  <2>1. \A i \in 1..l : t[i] \in Nat
    <3>1. \A i \in 1..l : c + i - 1 \in Nat
      BY <1>6, <1>9
    <3> QED BY <1>2, <1>3, <1>12, <3>1
  <2>2. t = [i \in 1..l |-> t[i]]
    BY <1>10
  <2> QED BY <1>9, <2>1, <2>2
<1>14. Lasts(r, p) /\ Slot(r, p) = c /\ r.first = c * p /\ EndOf(r) = e * p
  <2>1. (c * p) \div p = c
    <3>1. 0 \in 0..(p - 1) /\ c * p = c * p + 0
      BY <1>6
    <3>2. (c * p + 0) \div p = c
      BY <1>6, <3>1, QuotientIs
    <3> QED BY <3>1, <3>2
  <2>2. (c * p) % p = 0
    <3>1. PICK x : x = c * p
      OBVIOUS
    <3>2. x \in Nat /\ x \div p = c /\ x = c * p
      BY <1>6, <2>1, <3>1
    <3> QED BY <3>1, <3>2
  <2>3. t # <<>> /\ c * p \in Nat
    BY <1>6, <1>9, <1>13
  <2>4. Lasts(r, p)
    BY <1>11, <1>13, <2>2, <2>3 DEF Lasts, Series
  <2>5. c * p + l * p = e * p
    BY <1>6, <1>8, <1>9
  <2> QED BY <1>11, <1>13, <2>1, <2>4, <2>5 DEF Slot, EndOf
<1>15. ASSUME NEW k \in Nat PROVE InSlot(r, p, k) = InSlot(s, p, k) + InSlot(o, p, k)
  <2>1. CASE c <= k /\ k < c + l
    <3>1. PICK i : i = k - c + 1
      OBVIOUS
    <3>2. i \in 1..l /\ c + i - 1 = k
      BY <1>6, <1>9, <2>1, <3>1
    <3>3. InSlot(r, p, k) = t[i]
      BY <1>11, <1>13, <1>14, <2>1, <3>1 DEF InSlot
    <3> QED BY <1>12, <3>2, <3>3
  <2>2. CASE ~(c <= k /\ k < c + l)
    <3>1. InSlot(r, p, k) = 0
      BY <1>11, <1>13, <1>14, <2>2 DEF InSlot
    <3>2. ~(m <= k /\ k < m + n) /\ ~(a <= k /\ k < a + b)
      BY <1>2, <1>3, <1>6, <1>8, <2>2
    <3>3. InSlot(s, p, k) = 0 /\ InSlot(o, p, k) = 0
      BY <1>1, <3>2 DEF InSlot
    <3> QED BY <3>1, <3>3
  <2> QED BY <2>1, <2>2
<1>16. r.first = Smaller(s.first, o.first) /\ EndOf(r) = Larger(EndOf(s), EndOf(o))
  BY <1>7, <1>14 DEF Smaller, Larger, Earlier, Later
<1> QED BY <1>10, <1>14, <1>15, <1>16 DEF Joins

\* Segmented.Add of two series of one resolution.
LEMMA SegmentsJoin ==
  ASSUME NEW p \in Nat \ {0}, NEW s, Lasts(s, p), NEW o, Lasts(o, p)
  PROVE  Joins(SegmentsAdd(s, o), s, o, p)
<1>1. s.segs # <<>> /\ o.segs # <<>> /\ s.step = p /\ o.step = p
  BY DEF Lasts
<1>2. CASE SameTimes(s, o)
  <2>1. SegmentsAdd(s, o) = [s EXCEPT !.segs = [i \in DOMAIN s.segs |-> s.segs[i] + o.segs[i]]]
    BY <1>1, <1>2 DEF SegmentsAdd
  <2>2. Joins([s EXCEPT !.segs = [i \in DOMAIN s.segs |-> s.segs[i] + o.segs[i]]], s, o, p)
    BY <1>2, SameTimesJoin
  <2> QED BY <2>1, <2>2
<1>3. CASE ~SameTimes(s, o)
  <2>1. SegmentsAdd(s, o) = Overlaid(s, o)
    BY <1>1, <1>3 DEF SegmentsAdd
  <2>2. Joins(Overlaid(s, o), s, o, p)
    BY OverlaidJoins
  <2> QED BY <2>1, <2>2
<1> QED BY <1>2, <1>3

\* The nodes in S that report a series, all with slots of p seconds.
Lasting(S, v) == {x \in S : v[x] # Nil /\ v[x].segs # <<>>}
Steady(p, v)  == p \in Nat \ {0} /\ \A x \in Nodes : v[x] = Nil \/ v[x].segs = <<>> \/ Lasts(v[x], p)

Ends(v) == [x \in Nodes |-> EndOf(v[x])]
SlotsAt(k, p, v) == [x \in Nodes |-> InSlot(v[x], p, k)]

SeriesIs(a, p, L, v) ==
  /\ Lasts(a, p) /\ IsLeast(a.first, L, Col(v, "first")) /\ IsGreatest(EndOf(a), L, Ends(v))
  /\ \A k \in Nat : InSlot(a, p, k) = SumFunctionOnSet(SlotsAt(k, p, v), L)

DayIs(a, p, S, v) ==
  IF Lasting(S, v) = {} THEN a = Nil \/ a.segs = <<>> ELSE SeriesIs(a, p, Lasting(S, v), v)

LEMMA LastingIs ==
  ASSUME NEW p, NEW v, Steady(p, v)
  PROVE  \A x \in Lasting(Nodes, v) :
           /\ x \in Nodes /\ Lasts(v[x], p)
           /\ Col(v, "first")[x] = v[x].first /\ v[x].first \in Nat
           /\ Ends(v)[x] = EndOf(v[x]) /\ EndOf(v[x]) \in Nat
           /\ \A k \in Nat : SlotsAt(k, p, v)[x] = InSlot(v[x], p, k) /\ InSlot(v[x], p, k) \in Nat
<1> SUFFICES ASSUME NEW x \in Lasting(Nodes, v)
    PROVE /\ x \in Nodes /\ Lasts(v[x], p)
          /\ Col(v, "first")[x] = v[x].first /\ v[x].first \in Nat
          /\ Ends(v)[x] = EndOf(v[x]) /\ EndOf(v[x]) \in Nat
          /\ \A k \in Nat : SlotsAt(k, p, v)[x] = InSlot(v[x], p, k) /\ InSlot(v[x], p, k) \in Nat
  OBVIOUS
<1>1. x \in Nodes /\ Lasts(v[x], p) /\ p \in Nat \ {0}
  BY DEF Lasting, Steady
<1>2. PICK d, m, n : d = v[x] /\ m = Slot(d, p) /\ n = Len(d.segs)
  OBVIOUS
<1>3. /\ m \in Nat /\ n \in Nat /\ d.first \in Nat /\ EndOf(d) = (m + n) * p
      /\ \A k \in Nat : InSlot(d, p, k) \in Nat
  BY <1>1, <1>2, SlotIs
<1>4. EndOf(d) \in Nat
  BY <1>1, <1>3
<1> QED BY <1>1, <1>2, <1>3, <1>4 DEF Col, Ends, SlotsAt

LEMMA SeriesOne ==
  ASSUME NEW p, NEW v, Steady(p, v), NEW i \in Lasting(Nodes, v)
  PROVE  SeriesIs(v[i], p, {i}, v)
<1>1. PICK d, f, e : d = v[i] /\ f = Col(v, "first") /\ e = Ends(v)
  OBVIOUS
<1>2. /\ Lasts(d, p) /\ f[i] = d.first /\ f[i] \in Nat /\ e[i] = EndOf(d) /\ e[i] \in Nat
      /\ \A k \in Nat : SlotsAt(k, p, v)[i] = InSlot(d, p, k) /\ InSlot(d, p, k) \in Nat
  BY <1>1, LastingIs
<1>3. IsLeast(f[i], {i}, f)
  BY <1>2, LeastOne
<1>4. IsGreatest(e[i], {i}, e)
  BY <1>2, LeastOne
<1>5. ASSUME NEW k \in Nat PROVE InSlot(d, p, k) = SumFunctionOnSet(SlotsAt(k, p, v), {i})
  <2>1. PICK w : w = SlotsAt(k, p, v)
    OBVIOUS
  <2>2. w[i] = InSlot(d, p, k) /\ w[i] \in Nat
    BY <1>2, <2>1
  <2>3. SumFunctionOnSet(w, {i}) = w[i]
    BY <2>2, SumOfOne
  <2> QED BY <2>1, <2>2, <2>3
<1> QED BY <1>1, <1>2, <1>3, <1>4, <1>5 DEF SeriesIs

LEMMA SeriesGrows ==
  ASSUME NEW p, NEW v, Steady(p, v), NEW L, IsFiniteSet(L), L \subseteq Lasting(Nodes, v),
         NEW i \in Lasting(Nodes, v), i \notin L, NEW a, SeriesIs(a, p, L, v)
  PROVE  SeriesIs(SegmentsAdd(a, v[i]), p, L \cup {i}, v)
<1>1. PICK d, f, e, r : d = v[i] /\ f = Col(v, "first") /\ e = Ends(v) /\ r = SegmentsAdd(a, d)
  OBVIOUS
<1>2. /\ Lasts(d, p) /\ f[i] = d.first /\ f[i] \in Nat /\ e[i] = EndOf(d) /\ e[i] \in Nat
      /\ \A k \in Nat : SlotsAt(k, p, v)[i] = InSlot(d, p, k)
  BY <1>1, LastingIs
<1>3. \A x \in L : f[x] \in Nat /\ e[x] \in Nat
  <2>1. \A x \in Lasting(Nodes, v) : f[x] \in Nat /\ e[x] \in Nat
    BY <1>1, LastingIs
  <2> QED BY <2>1
<1>4. p \in Nat \ {0} /\ Lasts(a, p)
  BY DEF Steady, SeriesIs
<1>5. Joins(r, a, d, p)
  BY <1>1, <1>2, <1>4, SegmentsJoin
<1>6. IsLeast(r.first, L \cup {i}, f)
  <2>1. PICK m : m = a.first
    OBVIOUS
  <2>2. IsLeast(m, L, f) /\ f[i] \in Nat /\ \A x \in L : f[x] \in Nat
    BY <1>1, <1>2, <1>3, <2>1 DEF SeriesIs
  <2>3. IsLeast(Smaller(m, f[i]), L \cup {i}, f)
    BY <2>2, LeastGrows
  <2>4. r.first = Smaller(m, f[i])
    BY <1>2, <1>5, <2>1 DEF Joins
  <2> QED BY <2>3, <2>4
<1>7. IsGreatest(EndOf(r), L \cup {i}, e)
  <2>1. PICK m : m = EndOf(a)
    OBVIOUS
  <2>2. IsGreatest(m, L, e) /\ e[i] \in Nat /\ \A x \in L : e[x] \in Nat
    BY <1>1, <1>2, <1>3, <2>1 DEF SeriesIs
  <2>3. IsGreatest(Larger(m, e[i]), L \cup {i}, e)
    BY <2>2, GreatestGrows
  <2>4. EndOf(r) = Larger(m, e[i])
    BY <1>2, <1>5, <2>1 DEF Joins
  <2> QED BY <2>3, <2>4
<1>8. ASSUME NEW k \in Nat PROVE InSlot(r, p, k) = SumFunctionOnSet(SlotsAt(k, p, v), L \cup {i})
  <2>1. PICK w : w = SlotsAt(k, p, v)
    OBVIOUS
  <2>2. \A x \in L \cup {i} : w[x] \in Nat
    <3>1. \A x \in Lasting(Nodes, v) : SlotsAt(k, p, v)[x] = InSlot(v[x], p, k) /\ InSlot(v[x], p, k) \in Nat
      BY LastingIs
    <3> QED BY <2>1, <3>1
  <2>3. SumFunctionOnSet(w, L \cup {i}) = SumFunctionOnSet(w, L) + w[i]
    BY <2>2, SumGrows
  <2>4. InSlot(a, p, k) = SumFunctionOnSet(w, L)
    BY <2>1 DEF SeriesIs
  <2>5. InSlot(r, p, k) = InSlot(a, p, k) + InSlot(d, p, k)
    BY <1>5 DEF Joins
  <2>6. w[i] = InSlot(d, p, k)
    BY <1>2, <2>1
  <2> QED BY <2>1, <2>3, <2>4, <2>5, <2>6
<1>9. Lasts(r, p)
  BY <1>5 DEF Joins
<1> QED BY <1>1, <1>6, <1>7, <1>8, <1>9 DEF SeriesIs

LEMMA DayOne ==
  ASSUME NEW p, NEW v, Steady(p, v), NEW i \in Nodes
  PROVE  DayIs(v[i], p, {i}, v)
<1>1. CASE v[i] = Nil \/ v[i].segs = <<>>
  <2>1. Lasting({i}, v) = {}
    BY <1>1 DEF Lasting
  <2> QED BY <1>1, <2>1 DEF DayIs
<1>2. CASE ~(v[i] = Nil \/ v[i].segs = <<>>)
  <2>1. Lasting({i}, v) = {i} /\ i \in Lasting(Nodes, v)
    BY <1>2 DEF Lasting
  <2> QED BY <2>1, SeriesOne DEF DayIs
<1> QED BY <1>1, <1>2

LEMMA DayGrows ==
  ASSUME NEW p, NEW v, Steady(p, v), NEW S, IsFiniteSet(S), S \subseteq Nodes,
         NEW i \in Nodes, i \notin S, NEW a, DayIs(a, p, S, v)
  PROVE  DayIs(DayMerge(a, v[i]), p, S \cup {i}, v)
<1>1. PICK L, o, b : L = Lasting(S, v) /\ o = v[i] /\ b = IF a = Nil THEN Empty ELSE a
  OBVIOUS
<1>2. L \subseteq S /\ L \subseteq Lasting(Nodes, v) /\ i \notin L
  BY <1>1 DEF Lasting
<1>3. IsFiniteSet(L)
  BY <1>2, FS_Subset
<1>4. L # {} => SeriesIs(a, p, L, v) /\ Lasts(a, p) /\ a # Nil /\ a.segs # <<>> /\ b = a
  <2>1. ASSUME L # {} PROVE SeriesIs(a, p, L, v) /\ Lasts(a, p)
    BY <1>1, <2>1 DEF DayIs, SeriesIs
  <2>2. Lasts(a, p) => a # Nil /\ a.segs # <<>>
    BY DiskAssumption DEF Lasts
  <2> QED BY <1>1, <2>1, <2>2
<1>5. L = {} => b.segs = <<>>
  <2>1. L = {} => a = Nil \/ a.segs = <<>>
    BY <1>1 DEF DayIs
  <2>2. Empty.segs = <<>>
    BY DEF Empty
  <2> QED BY <1>1, <2>1, <2>2
<1>6. CASE o = Nil
  <2>1. Lasting(S \cup {i}, v) = L /\ DayMerge(a, o) = a
    BY <1>1, <1>6 DEF Lasting, DayMerge
  <2> QED BY <1>1, <2>1 DEF DayIs
<1>7. CASE o # Nil /\ o.segs = <<>>
  <2>1. Lasting(S \cup {i}, v) = L
    BY <1>1, <1>7 DEF Lasting
  <2>2. DayMerge(a, o) = b
    BY <1>1, <1>7 DEF DayMerge, SegmentsAdd
  <2>3. CASE L = {}
    BY <1>1, <1>5, <2>1, <2>2, <2>3 DEF DayIs
  <2>4. CASE L # {}
    BY <1>1, <1>4, <2>1, <2>2, <2>4 DEF DayIs
  <2> QED BY <2>3, <2>4
<1>8. CASE o # Nil /\ o.segs # <<>>
  <2>1. Lasting(S \cup {i}, v) = L \cup {i} /\ i \in Lasting(Nodes, v)
    BY <1>1, <1>8 DEF Lasting
  <2>2. DayMerge(a, o) = SegmentsAdd(b, o)
    BY <1>1, <1>8 DEF DayMerge
  <2>3. CASE L = {}
    <3>1. SegmentsAdd(b, o) = o
      BY <1>5, <1>8, <2>3 DEF SegmentsAdd
    <3>2. SeriesIs(v[i], p, {i}, v)
      BY <2>1, SeriesOne
    <3>3. Lasting(S \cup {i}, v) = {i}
      BY <2>1, <2>3
    <3> QED BY <1>1, <2>2, <3>1, <3>2, <3>3 DEF DayIs
  <2>4. CASE L # {}
    <3>1. SeriesIs(SegmentsAdd(a, v[i]), p, L \cup {i}, v)
      BY <1>2, <1>3, <1>4, <2>1, <2>4, SeriesGrows
    <3>2. L \cup {i} # {} /\ DayMerge(a, v[i]) = SegmentsAdd(a, v[i])
      BY <1>1, <1>4, <2>2, <2>4
    <3> QED BY <2>1, <3>1, <3>2 DEF DayIs
  <2> QED BY <2>3, <2>4
<1> QED BY <1>6, <1>7, <1>8

\* The series of a handler or target is taken over and added to in the same way.
LEMMA DaysGrow ==
  ASSUME NEW p, NEW v, Steady(p, v), NEW S, IsFiniteSet(S), S \subseteq Nodes,
         NEW i \in Nodes, i \notin S, NEW a, DayIs(a, p, S, v)
  PROVE  DayIs(DaysMerge(a, v[i]), p, S \cup {i}, v)
<1>1. PICK o : o = v[i]
  OBVIOUS
<1>2. CASE a = Nil /\ o # Nil /\ o.segs = <<>>
  <2>1. DaysMerge(a, o) = o
    BY <1>2 DEF DaysMerge
  <2>2. Lasting(S \cup {i}, v) = Lasting(S, v)
    BY <1>1, <1>2 DEF Lasting
  <2>3. Lasting(S, v) = {}
    <3>1. Lasting(S, v) # {} => a \in Series
      BY DEF DayIs, SeriesIs, Lasts
    <3> QED BY <1>2, <3>1, DiskAssumption
  <2> QED BY <1>1, <1>2, <2>1, <2>2, <2>3 DEF DayIs
<1>3. CASE ~(a = Nil /\ o # Nil /\ o.segs = <<>>)
  <2>1. DayIs(DayMerge(a, v[i]), p, S \cup {i}, v)
    BY DayGrows
  <2>2. DaysMerge(a, o) = DayMerge(a, o)
    BY <1>3 DEF DaysMerge, DayMerge, SegmentsAdd, Empty
  <2> QED BY <1>1, <2>1, <2>2
<1> QED BY <1>2, <1>3

\* What a series says of a time is what it has in the slot of that time.
LEMMA ValueIs ==
  ASSUME NEW p \in Nat \ {0}, NEW d, Lasts(d, p), NEW t \in Nat
  PROVE  ValueAt(d, t) = InSlot(d, p, t \div p)
<1>1. PICK m, n, k, r : m = Slot(d, p) /\ n = Len(d.segs) /\ k = t \div p /\ r = t - (t \div p) * p
  OBVIOUS
<1>2. /\ m \in Nat /\ n \in Nat \ {0} /\ d.first = m * p /\ EndOf(d) = (m + n) * p
      /\ d.step = p /\ d.segs # <<>>
  BY <1>1, SlotIs DEF Lasts
<1>3. k \in Nat /\ r \in 0..(p - 1) /\ t = k * p + r
  <2>1. k \in Nat /\ k * p <= t /\ t < k * p + p
    BY <1>1, Quotient
  <2> QED BY <1>1, <2>1
<1>4. \A i \in Nat : i * p <= t <=> i <= k
  <2> SUFFICES ASSUME NEW i \in Nat PROVE i * p <= t <=> i <= k
    OBVIOUS
  <2>1. i < k => i * p + p <= k * p
    BY <1>3, Multiples
  <2>2. k < i => k * p + p <= i * p
    BY <1>3, Multiples
  <2>3. i = k => i * p = k * p
    OBVIOUS
  <2>4. PICK x, y, z : x = i * p /\ y = k * p /\ z = p
    OBVIOUS
  <2>5. x \in Nat /\ y \in Nat /\ z \in Nat /\ r \in 0..(z - 1) /\ t = y + r
    BY <1>3, <2>4
  <2>6. CASE i <= k
    <3>1. x <= y
      BY <1>3, <2>1, <2>3, <2>4, <2>5, <2>6
    <3>2. x <= t
      BY <2>5, <3>1
    <3> QED BY <2>4, <2>6, <3>2
  <2>7. CASE k < i
    <3>1. y + z <= x
      BY <2>2, <2>4, <2>7
    <3>2. ~ x <= t
      BY <2>5, <3>1
    <3> QED BY <1>3, <2>4, <2>7, <3>2
  <2> QED BY <1>3, <2>6, <2>7
<1>5. Covers(d, t) <=> m <= k /\ k < m + n
  <2>1. d.first <= t <=> m <= k
    BY <1>2, <1>4
  <2>2. (m + n) * p <= t <=> m + n <= k
    <3>1. PICK j : j = m + n
      OBVIOUS
    <3>2. j * p <= t <=> j <= k
      BY <1>2, <1>4, <3>1
    <3> QED BY <3>1, <3>2
  <2>3. PICK e : e = (m + n) * p /\ e \in Nat
    BY <1>2
  <2>4. t < EndOf(d) <=> k < m + n
    BY <1>2, <1>3, <2>2, <2>3
  <2> QED BY <1>2, <2>1, <2>4 DEF Covers
<1>6. ASSUME m <= k PROVE (t - d.first) \div d.step = k - m
  <2>1. PICK j : j = k - m
    OBVIOUS
  <2>2. j \in Nat /\ t - m * p = j * p + r
    BY <1>2, <1>3, <1>6, <2>1
  <2>3. (j * p + r) \div p = j
    BY <1>3, <2>2, QuotientIs
  <2> QED BY <1>2, <2>1, <2>2, <2>3
<1>7. CASE m <= k /\ k < m + n
  <2>1. ValueAt(d, t) = d.segs[(t - d.first) \div d.step + 1]
    BY <1>5, <1>7 DEF ValueAt
  <2>2. InSlot(d, p, k) = d.segs[k - m + 1]
    BY <1>1, <1>7 DEF InSlot
  <2> QED BY <1>1, <1>6, <1>7, <2>1, <2>2
<1>8. CASE ~(m <= k /\ k < m + n)
  BY <1>1, <1>5, <1>8 DEF ValueAt, InSlot
<1> QED BY <1>7, <1>8

\* What LastDayKept says of the series a, when the nodes in L report one.
DayAdds(a, L, s) ==
  /\ a.first = Lowest({s[i].day.first : i \in L})
  /\ EndOf(a) = Highest({EndOf(s[i].day) : i \in L})
  /\ \A t \in Nat : ValueAt(a, t) = SumFunction([i \in L |-> ValueAt(s[i].day, t)])

LEMMA DayOfAll ==
  ASSUME NEW p, NEW s, NEW v, v = Col(s, "day"), Steady(p, v), IsFiniteSet(Nodes), NEW a, DayIs(a, p, Nodes, v),
         NEW with, with = Lasting(Nodes, v), with # {}
  PROVE  DayAdds(a, with, s)
<1>1. SeriesIs(a, p, with, v)
  BY DEF DayIs
<1>2. p \in Nat \ {0} /\ Lasts(a, p)
  BY <1>1 DEF Steady, SeriesIs
<1>3. \A x \in with : x \in Nodes /\ v[x] = s[x].day /\ Lasts(v[x], p)
  <2>1. \A x \in with : x \in Nodes /\ Lasts(v[x], p)
    BY LastingIs
  <2> QED BY <2>1 DEF Col
<1>4. PICK f, e : f = Col(v, "first") /\ e = Ends(v)
  OBVIOUS
<1>5. \A x \in with : f[x] = s[x].day.first /\ f[x] \in Nat /\ e[x] = EndOf(s[x].day) /\ e[x] \in Nat
  <2>1. \A x \in with : f[x] = v[x].first /\ v[x].first \in Nat /\ e[x] = EndOf(v[x]) /\ EndOf(v[x]) \in Nat
    BY <1>4, LastingIs
  <2> QED BY <1>3, <2>1
<1>6. a.first = Lowest({s[i].day.first : i \in with})
  <2>1. PICK T, m : T = {s[i].day.first : i \in with} /\ m = a.first
    OBVIOUS
  <2>2. T = {f[x] : x \in with} /\ (\A x \in with : f[x] \in Nat) /\ IsLeast(m, with, f)
    BY <1>1, <1>4, <1>5, <2>1 DEF SeriesIs
  <2>3. m = Lowest(T)
    BY <2>2, LowestIs
  <2> QED BY <2>1, <2>3
<1>7. EndOf(a) = Highest({EndOf(s[i].day) : i \in with})
  <2>1. PICK T, m : T = {EndOf(s[i].day) : i \in with} /\ m = EndOf(a)
    OBVIOUS
  <2>2. T = {e[x] : x \in with} /\ (\A x \in with : e[x] \in Nat) /\ IsGreatest(m, with, e)
    BY <1>1, <1>4, <1>5, <2>1 DEF SeriesIs
  <2>3. m = Highest(T)
    BY <2>2, HighestIs
  <2> QED BY <2>1, <2>3
<1>8. ASSUME NEW t \in Nat PROVE ValueAt(a, t) = SumFunction([i \in with |-> ValueAt(s[i].day, t)])
  <2>1. PICK k, w, u : k = t \div p /\ w = SlotsAt(k, p, v) /\ u = [i \in with |-> ValueAt(s[i].day, t)]
    OBVIOUS
  <2>2. k \in Nat
    BY <1>2, <2>1, Quotient
  <2>3. ValueAt(a, t) = InSlot(a, p, k)
    BY <1>2, <2>1, ValueIs
  <2>4. InSlot(a, p, k) = SumFunctionOnSet(w, with)
    BY <1>1, <2>1, <2>2 DEF SeriesIs
  <2>5. \A x \in with : w[x] = InSlot(v[x], p, k) /\ w[x] \in Nat
    BY <2>1, <2>2, LastingIs
  <2>6. \A x \in with : w[x] = ValueAt(s[x].day, t)
    <3> SUFFICES ASSUME NEW x \in with PROVE w[x] = ValueAt(s[x].day, t)
      OBVIOUS
    <3>1. PICK d : d = v[x]
      OBVIOUS
    <3>2. Lasts(d, p) /\ d = s[x].day
      BY <1>3, <3>1
    <3>3. ValueAt(d, t) = InSlot(d, p, k)
      BY <1>2, <2>1, <3>2, ValueIs
    <3> QED BY <2>5, <3>1, <3>2, <3>3
  <2>7. u = [x \in with |-> w[x]]
    BY <2>1, <2>6
  <2>8. IsFiniteSet(with)
    <3>1. with \subseteq Nodes
      BY <1>3
    <3> QED BY <3>1, FS_Subset
  <2>9. SumFunction(u) = SumFunctionOnSet(w, with)
    BY <2>5, <2>7, <2>8, SumOverIs
  <2> QED BY <2>1, <2>3, <2>4, <2>9
<1> QED BY <1>6, <1>7, <1>8 DEF DayAdds

----------------------------------------------------------------------------
(* All of a DiskMetric: a is the reports s of the nodes in S, merged.         *)

\* The time is that of a report, and none with drives is later.
TimeIs(t, S, s) ==
  t \in Nat /\ (\E x \in S : t = s[x].at) /\ \A x \in S : s[x].n > 0 => s[x].at <= t

\* The pool p and the set q are those of every report with drives, or given up;
\* they are there if all reports have them.
PlaceIs(p, q, S, s) ==
  /\ p = Nil => q = Nil
  /\ \A x \in S : s[x].n > 0 => p \in {Nil, s[x].pool} /\ q \in {Nil, s[x].set}
  /\ \A u : u # Nil /\ (\A x \in S : s[x].pool = u) =>
       p = u /\ \A w : w # Nil /\ (\A x \in S : s[x].set = w) => q = w

DiskIs(a, S, s) ==
  /\ a.n \in Nat /\ a.n = SumFunctionOnSet(Col(s, "n"), S)
  /\ a.n = 0 => \A x \in S : s[x].n = 0
  /\ TimeIs(a.at, S, s)
  /\ PlaceIs(a.pool, a.set, S, s)
  /\ StateIs(a.state, S, Col(s, "state"))
  /\ SpaceIs(a.space, S, Col(s, "space"))
  /\ OpIs(a.op, S, Col(s, "op"))
  /\ \A p : Steady(p, Col(s, "day")) => DayIs(a.day, p, S, Col(s, "day"))

LEMMA DiskTypes ==
  ASSUME NEW s, \A x \in Nodes : s[x] \in Reports
  PROVE  \A x \in Nodes :
           /\ s[x].n \in Nat /\ s[x].at \in Nat /\ s[x].state \in Maybe(Nat)
           /\ s[x].space \in Spaces /\ s[x].op \in Maybe(Actions) /\ s[x].day \in Maybe(Series)
           /\ s[x].pool = Nil => s[x].set = Nil
           /\ s[x] = [f \in DOMAIN s[x] |-> s[x][f]]
BY DiskAssumption DEF DiskMetrics

\* A report of no drives says nothing of them.
LEMMA BareReports ==
  ASSUME NEW s, \A x \in Nodes : s[x] \in Reports
  PROVE  \A x \in Nodes : s[x].n = 0 =>
           s[x].state = Nil /\ s[x].op = Nil /\ s[x].day = Nil /\ s[x].space = Zero.space
<1> SUFFICES ASSUME NEW x \in Nodes, s[x].n = 0
    PROVE s[x].state = Nil /\ s[x].op = Nil /\ s[x].day = Nil /\ s[x].space = Zero.space
  OBVIOUS
<1>1. PICK r : r = s[x]
  OBVIOUS
<1>2. r = [Zero EXCEPT !.at = r.at, !.pool = r.pool, !.set = r.set]
  <2>1. r \in DiskMetrics /\ r.n = 0
    BY <1>1, DiskAssumption
  <2> QED BY <2>1 DEF DiskMetrics
<1>3. r.state = Zero.state /\ r.op = Zero.op /\ r.day = Zero.day /\ r.space = Zero.space
  BY <1>2 DEF Zero
<1> QED BY <1>1, <1>3 DEF Zero

\* What comes after reports of no drives is taken over as it is.
LEMMA DiskFirst ==
  ASSUME NEW s, \A x \in Nodes : s[x] \in Reports, NEW S, IsFiniteSet(S), S \subseteq Nodes,
         \A x \in S : s[x].n = 0, NEW i \in Nodes, i \notin S
  PROVE  DiskIs(s[i], S \cup {i}, s)
<1>1. PICK n, state, space, op, day :
        n = Col(s, "n") /\ state = Col(s, "state") /\ space = Col(s, "space") /\ op = Col(s, "op") /\ day = Col(s, "day")
  OBVIOUS
<1>2. \A x \in S \cup {i} : n[x] = s[x].n /\ state[x] = s[x].state /\ space[x] = s[x].space /\ op[x] = s[x].op /\ day[x] = s[x].day
  BY <1>1 DEF Col
<1>3. \A x \in S \cup {i} :
        /\ n[x] \in Nat /\ s[x].at \in Nat /\ state[x] \in Maybe(Nat) /\ space[x] \in Spaces
        /\ op[x] \in Maybe(Actions) /\ (s[x].pool = Nil => s[x].set = Nil)
  <2>1. \A x \in Nodes : /\ s[x].n \in Nat /\ s[x].at \in Nat /\ s[x].state \in Maybe(Nat)
        /\ s[x].space \in Spaces /\ s[x].op \in Maybe(Actions) /\ (s[x].pool = Nil => s[x].set = Nil)
    BY DiskTypes
  <2> QED BY <1>2, <2>1
<1>4. \A x \in S : n[x] = 0 /\ state[x] = Nil /\ op[x] = Nil /\ day[x] = Nil /\ space[x] = Zero.space
  <2>1. \A x \in Nodes : s[x].n = 0 => s[x].state = Nil /\ s[x].op = Nil /\ s[x].day = Nil /\ s[x].space = Zero.space
    BY BareReports
  <2> QED BY <1>2, <2>1
<1>5. SumFunctionOnSet(n, S \cup {i}) = n[i]
  <2>1. SumFunctionOnSet(n, S \cup {i}) = SumFunctionOnSet(n, S) + n[i]
    BY <1>3, SumGrows
  <2>2. SumFunctionOnSet(n, S) = 0
    BY <1>4, SumOfZeros
  <2>3. \A z \in Nat : 0 + z = z
    OBVIOUS
  <2> QED BY <1>3, <2>1, <2>2, <2>3
<1>6. s[i].n = 0 => \A x \in S \cup {i} : s[x].n = 0
  OBVIOUS
<1>7. TimeIs(s[i].at, S \cup {i}, s)
  BY <1>3 DEF TimeIs
<1>8. PlaceIs(s[i].pool, s[i].set, S \cup {i}, s)
  BY <1>3 DEF PlaceIs
<1>9. StateIs(state[i], S \cup {i}, state)
  <2>1. StateIs(state[i], {i}, state)
    BY <1>3, StateOne
  <2>2. Having(S \cup {i}, state) = Having({i}, state)
    BY <1>4 DEF Having
  <2> QED BY <2>1, <2>2 DEF StateIs
<1>10. SpaceIs(space[i], S \cup {i}, space)
  <2>1. (\A x \in S \cup {i} : space[x] \in Spaces) /\ \A x \in S : space[x] = Zero.space
    BY <1>3, <1>4
  <2> QED BY <2>1, SpaceFirst
<1>11. OpIs(op[i], S \cup {i}, op)
  <2>1. OpIs(op[i], {i}, op)
    BY <1>3, OpOne
  <2>2. Having(S \cup {i}, op) = Having({i}, op) /\ Seen(S \cup {i}, op) = Seen({i}, op)
    BY <1>4 DEF Having, Seen
  <2> QED BY <2>1, <2>2 DEF OpIs
<1>12. ASSUME NEW p, Steady(p, day) PROVE DayIs(day[i], p, S \cup {i}, day)
  <2>1. DayIs(day[i], p, {i}, day)
    BY <1>12, DayOne
  <2>2. Lasting(S \cup {i}, day) = Lasting({i}, day)
    BY <1>4 DEF Lasting
  <2> QED BY <2>1, <2>2 DEF DayIs
<1>13. s[i].n \in Nat /\ n[i] = s[i].n /\ state[i] = s[i].state /\ space[i] = s[i].space /\ op[i] = s[i].op /\ day[i] = s[i].day
  BY <1>2, <1>3
<1> QED BY <1>1, <1>5, <1>6, <1>7, <1>8, <1>9, <1>10, <1>11, <1>12, <1>13 DEF DiskIs

\* An index is that of both, or given up.
LEMMA IdxIs == \A d, o : IdxMerge(d, o, FALSE) = IF d = o THEN d ELSE Nil
BY DEF IdxMerge

LEMMA DiskGrows ==
  ASSUME NEW s, \A x \in Nodes : s[x] \in Reports, NEW S, IsFiniteSet(S), S \subseteq Nodes, S # {},
         NEW i \in Nodes, i \notin S, NEW a, DiskIs(a, S, s), a.n # 0
  PROVE  DiskIs(Merged(a, s[i]), S \cup {i}, s)
<1>1. PICK n, state, space, op :
        n = Col(s, "n") /\ state = Col(s, "state") /\ space = Col(s, "space") /\ op = Col(s, "op")
  OBVIOUS
<1>2. \A x \in S \cup {i} : n[x] = s[x].n /\ state[x] = s[x].state /\ space[x] = s[x].space /\ op[x] = s[x].op
  BY <1>1 DEF Col
<1>3. \A x \in S \cup {i} :
      /\ n[x] \in Nat /\ s[x].at \in Nat /\ state[x] \in Maybe(Nat) /\ space[x] \in Spaces
      /\ op[x] \in Maybe(Actions) /\ (s[x].pool = Nil => s[x].set = Nil)
  <2>1. \A x \in Nodes :
        /\ s[x].n \in Nat /\ s[x].at \in Nat /\ s[x].state \in Maybe(Nat)
        /\ s[x].space \in Spaces /\ s[x].op \in Maybe(Actions) /\ (s[x].pool = Nil => s[x].set = Nil)
    BY DiskTypes
  <2> QED BY <1>2, <2>1
<1>4. PICK m : m = Merged(a, s[i])
  OBVIOUS
<1>5. /\ m.n = a.n + n[i] /\ m.at = Larger(a.at, s[i].at) /\ m.pool = IdxMerge(a.pool, s[i].pool, FALSE)
      /\ m.set = IdxMerge(a.set, s[i].set, m.pool = Nil) /\ m.state = StateMerge(a.state, state[i])
      /\ m.space = SpaceMerge(a.space, space[i]) /\ m.op = OpMerge(a.op, op[i])
  BY <1>2, <1>4 DEF Merged
<1>6. /\ a.n \in Nat \ {0} /\ a.n = SumFunctionOnSet(n, S) /\ TimeIs(a.at, S, s)
      /\ PlaceIs(a.pool, a.set, S, s) /\ StateIs(a.state, S, state) /\ SpaceIs(a.space, S, space)
      /\ OpIs(a.op, S, op)
  BY <1>1 DEF DiskIs
<1>7. m.n \in Nat \ {0} /\ m.n = SumFunctionOnSet(n, S \cup {i})
  <2>1. SumFunctionOnSet(n, S \cup {i}) = SumFunctionOnSet(n, S) + n[i]
    BY <1>3, SumGrows
  <2>2. m.n \in Nat \ {0}
    BY <1>3, <1>5, <1>6
  <2> QED BY <1>5, <1>6, <2>1, <2>2
<1>8. TimeIs(m.at, S \cup {i}, s)
  <2>1. \A x \in S : s[x].at \in Nat
    BY <1>3
  <2>2. s[i].at \in Nat
    BY <1>3
  <2> QED BY <1>5, <1>6, <2>1, <2>2 DEF TimeIs, Larger
<1>9. m.pool = (IF a.pool = s[i].pool THEN a.pool ELSE Nil)
      /\ m.set = (IF m.pool # Nil /\ a.set = s[i].set THEN a.set ELSE Nil)
  BY <1>5, IdxIs DEF IdxMerge
<1>10. PlaceIs(m.pool, m.set, S \cup {i}, s)
  <2>1. ASSUME NEW x \in S \cup {i}, s[x].n > 0 PROVE m.pool \in {Nil, s[x].pool} /\ m.set \in {Nil, s[x].set}
    BY <1>6, <1>9, <2>1 DEF PlaceIs
  <2>2. ASSUME NEW u, u # Nil, \A x \in S \cup {i} : s[x].pool = u
        PROVE  m.pool = u /\ \A w : w # Nil /\ (\A x \in S \cup {i} : s[x].set = w) => m.set = w
    <3>1. a.pool = u /\ s[i].pool = u /\ m.pool = u
      BY <1>6, <1>9, <2>2 DEF PlaceIs
    <3>2. ASSUME NEW w, w # Nil, \A x \in S \cup {i} : s[x].set = w PROVE m.set = w
      <4>1. (\A x \in S : s[x].pool = u) /\ (\A x \in S : s[x].set = w) /\ s[i].set = w
        BY <2>2, <3>2
      <4>2. a.set = w
        BY <1>6, <2>2, <3>2, <4>1 DEF PlaceIs
      <4> QED BY <1>9, <2>2, <3>1, <4>1, <4>2
    <3> QED BY <3>1, <3>2
  <2>3. m.pool = Nil => m.set = Nil
    BY <1>9
  <2> QED BY <2>1, <2>2, <2>3 DEF PlaceIs
<1>11. StateIs(m.state, S \cup {i}, state)
  <2>1. PICK b : b = a.state
    OBVIOUS
  <2>2. (\A x \in S \cup {i} : state[x] \in Maybe(Nat)) /\ StateIs(b, S, state)
    BY <1>3, <1>6, <2>1
  <2>3. StateIs(StateMerge(b, state[i]), S \cup {i}, state)
    BY <2>2, StateGrows
  <2> QED BY <1>5, <2>1, <2>3
<1>12. SpaceIs(m.space, S \cup {i}, space)
  <2>1. PICK b : b = a.space
    OBVIOUS
  <2>2. (\A x \in S \cup {i} : space[x] \in Spaces) /\ SpaceIs(b, S, space)
    BY <1>3, <1>6, <2>1
  <2>3. SpaceIs(SpaceMerge(b, space[i]), S \cup {i}, space)
    BY <2>2, SpaceGrows
  <2> QED BY <1>5, <2>1, <2>3
<1>13. OpIs(m.op, S \cup {i}, op)
  <2>1. PICK b : b = a.op
    OBVIOUS
  <2>2. (\A x \in S \cup {i} : op[x] \in Maybe(Actions)) /\ OpIs(b, S, op)
    BY <1>3, <1>6, <2>1
  <2>3. OpIs(OpMerge(b, op[i]), S \cup {i}, op)
    BY <2>2, OpGrows
  <2> QED BY <1>5, <2>1, <2>3
<1>14. ASSUME NEW p, Steady(p, Col(s, "day")) PROVE DayIs(m.day, p, S \cup {i}, Col(s, "day"))
  <2>1. PICK v, b : v = Col(s, "day") /\ b = a.day
    OBVIOUS
  <2>2. Steady(p, v) /\ DayIs(b, p, S, v)
    BY <1>14, <2>1 DEF DiskIs
  <2>3. DayIs(DayMerge(b, v[i]), p, S \cup {i}, v)
    BY <2>2, DayGrows
  <2>4. m.day = DayMerge(b, v[i])
    BY <1>4, <2>1 DEF Merged, Col
  <2> QED BY <2>1, <2>3, <2>4
<1> QED BY <1>1, <1>4, <1>7, <1>8, <1>10, <1>11, <1>12, <1>13, <1>14 DEF DiskIs

----------------------------------------------------------------------------
(* The merge of DiskMetrics: what was merged is in acc, what was not is as it *)
(* was sent, since no map of it is shared yet.                               *)

Done == Nodes \ todo

DiskInv ==
  /\ kind = "Disk" /\ sent \in [Nodes -> Reports] /\ todo \subseteq Nodes
  /\ shares \in [Maps -> Nodes \cup {Nil}] /\ \A f \in Maps : shares[f] \notin todo
  /\ \A j \in todo : reports[j] = sent[j]
  /\ IF Done = {} THEN acc = Zero ELSE DiskIs(acc, Done, sent)

LEMMA DiskInit == Init => DiskInv
<1> SUFFICES ASSUME Init PROVE DiskInv
  OBVIOUS
<1>1. shares \in [Maps -> Nodes \cup {Nil}] /\ \A f \in Maps : shares[f] \notin todo
  BY MergeAssumption DEF Init
<1>2. Done = {}
  BY DEF Init, Done
<1> QED BY <1>1, <1>2 DEF Init, DiskInv

LEMMA FirstStep ==
  ASSUME DiskInv, NEW i \in Nodes, Merge(i), First(i)
  PROVE  DiskInv'
<1>1. kind = "Disk" /\ i \in todo /\ todo' = todo \ {i} /\ kind' = kind /\ sent' = sent
  BY DEF Merge
<1>2. acc.n = 0 /\ acc' = reports[i] /\ reports' = reports
      /\ shares' = [f \in Maps |-> IF reports[i][f] = Nil THEN Nil ELSE i]
  BY DEF First
<1>3. sent \in [Nodes -> Reports] /\ todo \subseteq Nodes /\ \A j \in todo : reports[j] = sent[j]
  BY DEF DiskInv
<1>4. \A x \in Done : sent[x].n = 0
  BY <1>2 DEF DiskInv, DiskIs
<1>5. Done' = Done \cup {i} /\ i \notin Done /\ Done \subseteq Nodes
  BY <1>1, <1>3 DEF Done
<1>6. IsFiniteSet(Done)
  BY <1>5, MergeAssumption, FS_Subset
<1>7. DiskIs(sent[i], Done \cup {i}, sent)
  <2>1. PICK S, s : S = Done /\ s = sent
    OBVIOUS
  <2>2. (\A x \in Nodes : s[x] \in Reports) /\ IsFiniteSet(S) /\ S \subseteq Nodes /\ (\A x \in S : s[x].n = 0) /\ i \notin S
    BY <1>3, <1>4, <1>5, <1>6, <2>1
  <2>3. DiskIs(s[i], S \cup {i}, s)
    BY <2>2, DiskFirst
  <2> QED BY <2>1, <2>3
<1>8. DiskIs(acc', Done', sent') /\ Done' # {}
  BY <1>1, <1>2, <1>3, <1>5, <1>7
<1>9. shares' \in [Maps -> Nodes \cup {Nil}] /\ \A f \in Maps : shares'[f] \notin todo'
  BY <1>1, <1>2, <1>3, MergeAssumption
<1> QED BY <1>1, <1>2, <1>3, <1>8, <1>9 DEF DiskInv

LEMMA FurtherStep ==
  ASSUME DiskInv, NEW i \in Nodes, Merge(i), Further(i)
  PROVE  DiskInv'
<1>1. kind = "Disk" /\ i \in todo /\ todo' = todo \ {i} /\ kind' = kind /\ sent' = sent
  BY DEF Merge
<1>2. acc.n # 0 /\ acc' = Merged(acc, reports[i])
  BY DEF Further
<1>3. /\ sent \in [Nodes -> Reports] /\ todo \subseteq Nodes /\ \A j \in todo : reports[j] = sent[j]
      /\ shares \in [Maps -> Nodes \cup {Nil}] /\ \A f \in Maps : shares[f] \notin todo
  BY DEF DiskInv
<1>4. Done # {} /\ DiskIs(acc, Done, sent)
  BY <1>2 DEF DiskInv, Zero
<1>5. Done' = Done \cup {i} /\ i \notin Done /\ Done \subseteq Nodes
  BY <1>1, <1>3 DEF Done
<1>6. IsFiniteSet(Done)
  BY <1>5, MergeAssumption, FS_Subset
<1>7. DiskIs(acc', Done', sent')
  <2>1. PICK S, s, a : S = Done /\ s = sent /\ a = acc
    OBVIOUS
  <2>2. /\ (\A x \in Nodes : s[x] \in Reports) /\ IsFiniteSet(S) /\ S \subseteq Nodes /\ S # {} /\ i \notin S
        /\ DiskIs(a, S, s) /\ a.n # 0
    BY <1>2, <1>3, <1>4, <1>5, <1>6, <2>1
  <2>3. DiskIs(Merged(a, s[i]), S \cup {i}, s)
    BY <2>2, DiskGrows
  <2>4. reports[i] = s[i]
    BY <1>1, <1>3, <2>1
  <2> QED BY <1>1, <1>2, <1>5, <2>1, <2>3, <2>4
<1>8. shares' \in [Maps -> Nodes \cup {Nil}] /\ \A f \in Maps : shares'[f] \notin todo'
  <2>1. shares' = [shares EXCEPT !["cache"] = IF acc.cache = Nil /\ reports[i].cache # Nil THEN i ELSE @]
    BY DEF Further
  <2> QED BY <1>1, <1>3, <2>1, MergeAssumption
<1>9. ASSUME NEW j \in todo' PROVE reports'[j] = sent'[j]
  <2>1. j \in todo /\ j \in Nodes /\ reports[j] = sent[j]
    BY <1>1, <1>3
  <2>2. reports'[j] = [f \in DOMAIN reports[j] |->
                         IF f \in Maps /\ shares'[f] = j THEN acc'[f] ELSE reports[j][f]]
    BY <2>1 DEF Further
  <2>3. \A f \in Maps : shares'[f] # j
    BY <1>8
  <2>4. reports'[j] = [f \in DOMAIN reports[j] |-> reports[j][f]]
    BY <2>2, <2>3
  <2>5. sent[j] = [f \in DOMAIN sent[j] |-> sent[j][f]]
    <3>1. PICK s : s = sent
      OBVIOUS
    <3>2. \A x \in Nodes : s[x] \in Reports
      BY <1>3, <3>1
    <3>3. \A x \in Nodes : s[x] = [f \in DOMAIN s[x] |-> s[x][f]]
      BY <3>2, DiskTypes
    <3> QED BY <2>1, <3>1, <3>3
  <2> QED BY <1>1, <2>1, <2>4, <2>5
<1>10. todo' \subseteq Nodes /\ Done' # {}
  BY <1>1, <1>3, <1>5
<1> QED BY <1>1, <1>3, <1>7, <1>8, <1>9, <1>10 DEF DiskInv

LEMMA DiskStep == DiskInv /\ [Next]_vars => DiskInv'
<1> SUFFICES ASSUME DiskInv, [Next]_vars PROVE DiskInv'
  OBVIOUS
<1>1. ASSUME NEW i \in Nodes, Merge(i) PROVE DiskInv'
  <2>1. First(i) \/ Further(i)
    BY <1>1 DEF Merge
  <2> QED BY <1>1, <2>1, FirstStep, FurtherStep
<1>2. CASE UNCHANGED vars
  BY <1>2 DEF vars, DiskInv, Done
<1> QED BY <1>1, <1>2 DEF Next

LEMMA DiskAlways == Spec => []DiskInv
BY DiskInit, DiskStep, PTL DEF Spec

LEMMA DiskDone ==
  ASSUME DiskInv, All
  PROVE  /\ DiskIs(acc, Nodes, sent) /\ IsFiniteSet(Nodes)
         /\ \A x \in Nodes :
              /\ sent[x] \in Reports /\ sent[x].at \in Nat /\ sent[x].n \in Nat /\ sent[x].state \in Maybe(Nat)
              /\ sent[x].space \in Spaces /\ sent[x].op \in Maybe(Actions)
<1>1. Done = Nodes /\ Done # {}
  BY MergeAssumption DEF All, Done
<1>2. DiskIs(acc, Nodes, sent) /\ sent \in [Nodes -> Reports]
  BY <1>1 DEF DiskInv
<1>3. PICK s : s = sent
  OBVIOUS
<1>4. \A x \in Nodes : s[x] \in Reports
  BY <1>2, <1>3
<1>5. \A x \in Nodes : s[x].n \in Nat /\ s[x].at \in Nat /\ s[x].state \in Maybe(Nat)
                       /\ s[x].space \in Spaces /\ s[x].op \in Maybe(Actions)
  BY <1>4, DiskTypes
<1> QED BY <1>2, <1>3, <1>4, <1>5, MergeAssumption

LEMMA DiskIndependent == DiskInv => IndependentOfOrder
<1> SUFFICES ASSUME DiskInv, All PROVE
      /\ acc.n = SumFunction([i \in Nodes |-> sent[i].n])
      /\ acc.at \in {sent[i].at : i \in Nodes} /\ \A i \in Drives : sent[i].at <= acc.at
      /\ acc.state = IF Of("state") = {} THEN Nil ELSE SumFunction([i \in Of("state") |-> sent[i].state])
      /\ acc.space.total = SumFunction([i \in Nodes |-> sent[i].space.total])
      /\ \A f \in {"pool", "set"} : acc[f] # Nil => \A i \in Drives : sent[i][f] = acc[f]
      /\ Common("pool") # Nil => acc.pool = Common("pool") /\ Common("set") \in {Nil, acc.set}
      /\ acc.pool = Nil => acc.set = Nil
  BY DEF IndependentOfOrder
<1>1. /\ DiskIs(acc, Nodes, sent) /\ IsFiniteSet(Nodes)
      /\ \A x \in Nodes :
           /\ sent[x] \in Reports /\ sent[x].at \in Nat /\ sent[x].n \in Nat /\ sent[x].state \in Maybe(Nat)
           /\ sent[x].space \in Spaces /\ sent[x].op \in Maybe(Actions)
  BY DiskDone
<1>2. PICK n, state, space :
        n = Col(sent, "n") /\ state = Col(sent, "state") /\ space = Col(sent, "space")
  OBVIOUS
<1>3. \A x \in Nodes : n[x] = sent[x].n /\ state[x] = sent[x].state /\ space[x] = sent[x].space
  BY <1>2 DEF Col
<1>4. acc.n = SumFunction([i \in Nodes |-> sent[i].n])
  <2>1. PICK w : w = [i \in Nodes |-> sent[i].n]
    OBVIOUS
  <2>2. (\A x \in Nodes : n[x] \in Nat) /\ w = [x \in Nodes |-> n[x]]
    BY <1>1, <1>3, <2>1
  <2>3. SumFunction(w) = SumFunctionOnSet(n, Nodes)
    BY <1>1, <2>2, SumOverIs
  <2> QED BY <1>1, <1>2, <2>1, <2>3 DEF DiskIs
<1>5. acc.at \in {sent[i].at : i \in Nodes} /\ \A i \in Drives : sent[i].at <= acc.at
  <2>1. TimeIs(acc.at, Nodes, sent)
    BY <1>1 DEF DiskIs
  <2> QED BY <2>1 DEF TimeIs, Drives
<1>6. acc.state = IF Of("state") = {} THEN Nil ELSE SumFunction([i \in Of("state") |-> sent[i].state])
  <2>1. PICK S, w : S = Of("state") /\ w = [i \in S |-> sent[i].state]
    OBVIOUS
  <2>2. S = Having(Nodes, state) /\ S \subseteq Nodes
    BY <1>3, <2>1 DEF Of, Having
  <2>3. IsFiniteSet(S)
    BY <1>1, <2>2, FS_Subset
  <2>4. (\A x \in S : state[x] \in Nat) /\ w = [x \in S |-> state[x]]
    BY <1>1, <1>3, <2>1, <2>2 DEF Having, Maybe
  <2>5. SumFunction(w) = SumFunctionOnSet(state, S)
    BY <2>3, <2>4, SumOverIs
  <2>6. StateIs(acc.state, Nodes, state)
    BY <1>1, <1>2 DEF DiskIs
  <2>7. acc.state = IF S = {} THEN Nil ELSE SumFunction(w)
    BY <2>2, <2>5, <2>6 DEF StateIs
  <2> QED BY <2>1, <2>7
<1>7. acc.space.total = SumFunction([i \in Nodes |-> sent[i].space.total])
  <2>1. PICK t, w : t = Col(space, "total") /\ w = [i \in Nodes |-> sent[i].space.total]
    OBVIOUS
  <2>2. \A x \in Nodes : t[x] = sent[x].space.total /\ t[x] \in Nat
    BY <1>1, <1>3, <2>1 DEF Col, Spaces
  <2>3. w = [x \in Nodes |-> t[x]]
    BY <2>1, <2>2
  <2>4. SumFunction(w) = SumFunctionOnSet(t, Nodes)
    BY <1>1, <2>2, <2>3, SumOverIs
  <2> QED BY <1>1, <1>2, <2>1, <2>4 DEF DiskIs, SpaceIs
<1>8. PlaceIs(acc.pool, acc.set, Nodes, sent)
  BY <1>1 DEF DiskIs
<1>9. \A f \in {"pool", "set"} : acc[f] # Nil => \A i \in Drives : sent[i][f] = acc[f]
  BY <1>8 DEF PlaceIs, Drives
<1>10. ASSUME Common("pool") # Nil PROVE acc.pool = Common("pool") /\ Common("set") \in {Nil, acc.set}
  <2>1. PICK u, w : u = Common("pool") /\ w = Common("set")
    OBVIOUS
  <2>2. \A x \in Nodes : sent[x].pool = u
    BY <1>10, <2>1, CommonOfAll
  <2>3. w # Nil => \A x \in Nodes : sent[x].set = w
    BY <2>1, CommonOfAll
  <2>4. acc.pool = u /\ (w # Nil => acc.set = w)
    BY <1>8, <1>10, <2>1, <2>2, <2>3 DEF PlaceIs
  <2> QED BY <2>1, <2>4
<1>11. acc.pool = Nil => acc.set = Nil
  BY <1>8 DEF PlaceIs
<1> QED BY <1>4, <1>5, <1>6, <1>7, <1>9, <1>10, <1>11

LEMMA DiskExtremes == DiskInv => ExtremesOfActions
<1> SUFFICES ASSUME DiskInv, All, acc.op # Nil, acc.op.count > 0,
                    NEW seen, seen = {i \in Of("op") : sent[i].op.count > 0}
    PROVE /\ acc.op.min = Lowest({sent[i].op.min : i \in seen})
          /\ acc.op.max = Highest({sent[i].op.max : i \in seen})
          /\ acc.op.count = SumFunction([i \in seen |-> sent[i].op.count])
  BY DEF ExtremesOfActions
<1>1. /\ DiskIs(acc, Nodes, sent) /\ IsFiniteSet(Nodes)
      /\ \A x \in Nodes : sent[x].op \in Maybe(Actions)
  BY DiskDone
<1>2. PICK op, n, lo, hi, a :
        op = Col(sent, "op") /\ n = Col(op, "count") /\ lo = Col(op, "min") /\ hi = Col(op, "max") /\ a = acc.op
  OBVIOUS
<1>3. \A x \in Nodes : op[x] = sent[x].op /\ n[x] = op[x].count /\ lo[x] = op[x].min /\ hi[x] = op[x].max
  BY <1>2 DEF Col
<1>4. seen = Seen(Nodes, op) /\ seen \subseteq Nodes
  BY <1>3 DEF Of, Seen
<1>5. \A x \in seen : /\ n[x] = sent[x].op.count /\ lo[x] = sent[x].op.min /\ hi[x] = sent[x].op.max
                      /\ n[x] \in Nat /\ lo[x] \in Nat /\ hi[x] \in Nat
  <2>1. \A x \in seen : op[x] \in Actions
    BY <1>1, <1>3, <1>4 DEF Seen, Maybe
  <2> QED BY <1>3, <1>4, <2>1 DEF Actions
<1>6. IsFiniteSet(seen)
  BY <1>1, <1>4, FS_Subset
<1>7. ActionsAre(a, seen, op)
  BY <1>1, <1>2, <1>4 DEF DiskIs, OpIs
<1>8. seen # {}
  BY <1>2, <1>7 DEF ActionsAre
<1>9. a.count = SumFunctionOnSet(n, seen) /\ IsLeast(a.min, seen, lo) /\ IsGreatest(a.max, seen, hi)
  BY <1>2, <1>7, <1>8 DEF ActionsAre
<1>10. acc.op.min = Lowest({sent[i].op.min : i \in seen})
  <2>1. PICK T, m : T = {sent[i].op.min : i \in seen} /\ m = a.min
    OBVIOUS
  <2>2. T = {lo[x] : x \in seen} /\ (\A x \in seen : lo[x] \in Nat) /\ IsLeast(m, seen, lo)
    BY <1>5, <1>9, <2>1
  <2>3. m = Lowest(T)
    BY <2>2, LowestIs
  <2> QED BY <1>2, <2>1, <2>3
<1>11. acc.op.max = Highest({sent[i].op.max : i \in seen})
  <2>1. PICK T, m : T = {sent[i].op.max : i \in seen} /\ m = a.max
    OBVIOUS
  <2>2. T = {hi[x] : x \in seen} /\ (\A x \in seen : hi[x] \in Nat) /\ IsGreatest(m, seen, hi)
    BY <1>5, <1>9, <2>1
  <2>3. m = Highest(T)
    BY <2>2, HighestIs
  <2> QED BY <1>2, <2>1, <2>3
<1>12. acc.op.count = SumFunction([i \in seen |-> sent[i].op.count])
  <2>1. PICK w : w = [i \in seen |-> sent[i].op.count]
    OBVIOUS
  <2>2. (\A x \in seen : n[x] \in Nat) /\ w = [x \in seen |-> n[x]]
    BY <1>5, <2>1
  <2>3. SumFunction(w) = SumFunctionOnSet(n, seen)
    BY <1>6, <2>2, SumOverIs
  <2> QED BY <1>2, <1>9, <2>1, <2>3
<1> QED BY <1>10, <1>11, <1>12

\* The series a is the one of the reports s of all nodes.
DaysAre(a, S, s) == \A p : Steady(p, Col(s, "day")) => DayIs(a, p, S, Col(s, "day"))

LEMMA DaysKept ==
  ASSUME \A x \in Nodes : sent[x].day \in Maybe(Series), DaysAre(acc.day, Nodes, sent)
  PROVE  LastDayKept
<1> DEFINE with == {i \in Of("day") : sent[i].day.segs # <<>>}
<1> SUFFICES ASSUME NEW p \in {sent[i].day.step : i \in with}, p > 0,
                    \A i \in with : sent[i].day.step = p
      PROVE /\ acc.day.first = Lowest({sent[i].day.first : i \in with})
            /\ EndOf(acc.day) = Highest({EndOf(sent[i].day) : i \in with})
            /\ \A t \in acc.day.first..EndOf(acc.day) :
                 ValueAt(acc.day, t) = SumFunction([i \in with |-> ValueAt(sent[i].day, t)])
  BY DEF LastDayKept
<1>1. PICK s, v, a, L : s = sent /\ v = Col(s, "day") /\ a = acc.day /\ L = Lasting(Nodes, v)
  OBVIOUS
<1>2. IsFiniteSet(Nodes)
  BY MergeAssumption
<1>3. \A x \in Nodes : v[x] = s[x].day /\ v[x] \in Maybe(Series)
  BY <1>1 DEF Col
<1>4. with = L /\ L # {}
  <2>1. with = L
    BY <1>1, <1>3 DEF Of, Lasting
  <2> QED BY <2>1
<1>5. \A x \in L : v[x] \in Series /\ v[x].segs # <<>> /\ v[x].step = p
  <2>1. \A x \in L : x \in Nodes /\ v[x] # Nil /\ v[x].segs # <<>>
    BY <1>1 DEF Lasting
  <2>2. \A x \in L : s[x].day.step = p
    BY <1>1, <1>4
  <2> QED BY <1>3, <2>1, <2>2 DEF Maybe
<1>6. p \in Nat \ {0}
  <2>1. p \in Nat
    BY <1>4, <1>5 DEF Series
  <2> QED BY <2>1
<1>7. Steady(p, v)
  <2>1. \A x \in Nodes : x \in L \/ v[x] = Nil \/ v[x].segs = <<>>
    BY <1>1 DEF Lasting
  <2> QED BY <1>5, <1>6, <2>1 DEF Steady, Lasts
<1>8. DayIs(a, p, Nodes, v)
  BY <1>1, <1>7 DEF DaysAre
<1>9. /\ a.first = Lowest({s[i].day.first : i \in L})
      /\ EndOf(a) = Highest({EndOf(s[i].day) : i \in L})
      /\ \A t \in Nat : ValueAt(a, t) = SumFunction([i \in L |-> ValueAt(s[i].day, t)])
  <2>1. DayAdds(a, L, s)
    BY <1>1, <1>2, <1>4, <1>7, <1>8, DayOfAll
  <2> QED BY <2>1 DEF DayAdds
<1>10. a.first..EndOf(a) \subseteq Nat
  <2>1. Lasts(a, p)
    BY <1>1, <1>4, <1>8 DEF DayIs, SeriesIs
  <2>2. a.first \in Nat
    BY <1>6, <2>1, SlotIs
  <2> QED BY <2>2
<1> QED BY <1>1, <1>4, <1>9, <1>10

LEMMA DiskDays == DiskInv => LastDayKept
<1>1. CASE ~All
  BY <1>1 DEF DiskInv, All, LastDayKept
<1>2. CASE DiskInv /\ All
  <2>1. DiskIs(acc, Nodes, sent) /\ \A x \in Nodes : sent[x] \in Reports
    BY <1>2, DiskDone
  <2>2. \A x \in Nodes : sent[x].day \in Maybe(Series)
    BY <2>1, DiskTypes
  <2>3. DaysAre(acc.day, Nodes, sent)
    BY <2>1 DEF DiskIs, DaysAre
  <2> QED BY <2>2, <2>3, DaysKept
<1> QED BY <1>1, <1>2

LEMMA DiskSpace == DiskInv => SpaceExtremes
<1> SUFFICES ASSUME DiskInv, All
    PROVE /\ acc.space.max = Highest({sent[i].space.max : i \in Nodes})
          /\ acc.space.min \in {sent[i].space.min : i \in Nodes}
          /\ \A i \in Nodes : sent[i].space.n > 0 => acc.space.min <= sent[i].space.min
  BY DEF SpaceExtremes
<1>1. DiskIs(acc, Nodes, sent) /\ \A x \in Nodes : sent[x].space \in Spaces
  BY DiskDone
<1>2. PICK space, lo, hi : space = Col(sent, "space") /\ lo = Col(space, "min") /\ hi = Col(space, "max")
  OBVIOUS
<1>3. \A x \in Nodes : space[x] = sent[x].space /\ lo[x] = space[x].min /\ hi[x] = space[x].max
  BY <1>2 DEF Col
<1>4. /\ IsGreatest(acc.space.max, Nodes, hi) /\ \E x \in Nodes : acc.space.min = lo[x]
      /\ \A x \in Nodes : space[x].n > 0 => acc.space.min <= lo[x]
  BY <1>1, <1>2 DEF DiskIs, SpaceIs
<1>5. PICK U, o : U = {sent[i].space.max : i \in Nodes} /\ o = acc.space.max
  OBVIOUS
<1>6. U = {hi[x] : x \in Nodes}
  BY <1>3, <1>5
<1>7. \A x \in Nodes : hi[x] \in Nat
  BY <1>1, <1>3 DEF Spaces
<1>8. IsGreatest(o, Nodes, hi)
  BY <1>4, <1>5
<1>9. o = Highest(U)
  BY <1>6, <1>7, <1>8, HighestIs
<1> QED BY <1>3, <1>4, <1>5, <1>9

----------------------------------------------------------------------------
(* The other reports.  Which of the Merge methods is called.                  *)

Counting == {"API", "RPC", "Replication", "Connection", "Memory", "CPU", "Sensor", "Healing", "Runtime", "Process"}

LEMMA CombinedIs ==
  \A a, b :
    /\ kind = "API" => Combined(a, b) = APIMerge(a, b)
    /\ kind = "RPC" => Combined(a, b) = RPCMerge(a, b)
    /\ kind = "Replication" => Combined(a, b) = ReplicationAdd(a, b)
    /\ kind = "Connection" => Combined(a, b) = ConnectionMerge(a, b)
    /\ kind = "Memory" => Combined(a, b) = MemoryMerge(a, b)
    /\ kind = "CPU" => Combined(a, b) = CPUMerge(a, b)
    /\ kind = "Sensor" => Combined(a, b) = SensorMerge(a, b)
    /\ kind = "Jobs" => Combined(a, b) = JobsMerge(a, b)
    /\ kind = "Resync" => Combined(a, b) = ResyncMerge(a, b)
    /\ kind = "Scanner" => Combined(a, b) = ScannerMerge(a, b)
    /\ kind = "Hosts" => Combined(a, b) = HostsMerge(a, b)
    /\ kind = "Healing" => Combined(a, b) = HealingMerge(a, b)
    /\ kind = "Runtime" => Combined(a, b) = RuntimeMerge(a, b)
    /\ kind = "Process" => Combined(a, b) = ProcessMerge(a, b)
    /\ kind = "Handlers" => Combined(a, b) = [by |-> HandlersMerge(a.by, b.by)]
    /\ kind = "Net" => Combined(a, b) = [by |-> NetMerge(a.by, b.by)]
    /\ kind = "Days" => Combined(a, b) = [day |-> DaysMerge(a.day, b.day)]
BY DEF Combined

LEMMA ZeroFields ==
  /\ DOMAIN ZeroOf["API"] = {"count", "from", "least", "most"}
  /\ DOMAIN ZeroOf["RPC"] = {"count", "from"}
  /\ DOMAIN ZeroOf["Replication"] = {"nodes", "count", "from", "most"}
  /\ DOMAIN ZeroOf["Connection"] = {"count", "pong", "ping", "most"}
  /\ DOMAIN ZeroOf["Memory"] = {"count", "addr"}
  /\ DOMAIN ZeroOf["CPU"] = {"count", "least", "most"}
  /\ DOMAIN ZeroOf["Sensor"] = {"count", "least", "most"}
  /\ DOMAIN ZeroOf["Jobs"] = {"at", "by"}
  /\ DOMAIN ZeroOf["Resync"] = {"at", "by"}
  /\ DOMAIN ZeroOf["Scanner"] = {"by", "names", "prefixes"}
  /\ DOMAIN ZeroOf["Hosts"] = {"at", "by", "names"}
  /\ DOMAIN ZeroOf["Healing"] = {"count", "by", "sets", "parity"}
  /\ DOMAIN ZeroOf["Runtime"] = {"count", "hist"}
  /\ DOMAIN ZeroOf["Process"] = {"count", "at"}
  /\ DOMAIN ZeroOf["Handlers"] = {"by"}
  /\ DOMAIN ZeroOf["Net"] = {"by"}
  /\ DOMAIN ZeroOf["Days"] = {"day"}
BY DEF ZeroOf

LEMMA CountedKinds == \A k \in Kinds : "count" \in DOMAIN ZeroOf[k] <=> k \in Counting
<1> SUFFICES ASSUME NEW k \in Kinds PROVE "count" \in DOMAIN ZeroOf[k] <=> k \in Counting
  OBVIOUS
<1>1. CASE k \in Counting
  BY <1>1, ZeroFields DEF Counting
<1>2. CASE k \notin Counting
  <2>1. k \in {"Jobs", "Resync", "Scanner", "Hosts", "Handlers", "Net", "Days"}
    BY <1>2 DEF Counting, Kinds
  <2> QED BY <1>2, <2>1, ZeroFields
<1> QED BY <1>1, <1>2

LEMMA CombinedFields ==
  ASSUME NEW a, NEW b, kind \in Kinds, DOMAIN a = DOMAIN ZeroOf[kind], DOMAIN b = DOMAIN ZeroOf[kind]
  PROVE  DOMAIN Combined(a, b) = DOMAIN ZeroOf[kind]
<1>1. CASE kind = "API"
  <2>1. Combined(a, b) = APIMerge(a, b)
    BY <1>1, CombinedIs
  <2>2. DOMAIN a = DOMAIN ZeroOf["API"] /\ DOMAIN b = DOMAIN ZeroOf["API"] => DOMAIN APIMerge(a, b) = DOMAIN ZeroOf["API"]
    BY ZeroFields DEF APIMerge
  <2> QED BY <1>1, <2>1, <2>2
<1>2. CASE kind = "RPC"
  <2>1. Combined(a, b) = RPCMerge(a, b)
    BY <1>2, CombinedIs
  <2>2. DOMAIN a = DOMAIN ZeroOf["RPC"] /\ DOMAIN b = DOMAIN ZeroOf["RPC"] => DOMAIN RPCMerge(a, b) = DOMAIN ZeroOf["RPC"]
    BY ZeroFields DEF RPCMerge
  <2> QED BY <1>2, <2>1, <2>2
<1>3. CASE kind = "Replication"
  <2>1. Combined(a, b) = ReplicationAdd(a, b)
    BY <1>3, CombinedIs
  <2>2. DOMAIN a = DOMAIN ZeroOf["Replication"] /\ DOMAIN b = DOMAIN ZeroOf["Replication"] => DOMAIN ReplicationAdd(a, b) = DOMAIN ZeroOf["Replication"]
    BY ZeroFields DEF ReplicationAdd
  <2> QED BY <1>3, <2>1, <2>2
<1>4. CASE kind = "Connection"
  <2>1. Combined(a, b) = ConnectionMerge(a, b)
    BY <1>4, CombinedIs
  <2>2. DOMAIN a = DOMAIN ZeroOf["Connection"] /\ DOMAIN b = DOMAIN ZeroOf["Connection"] => DOMAIN ConnectionMerge(a, b) = DOMAIN ZeroOf["Connection"]
    BY ZeroFields DEF ConnectionMerge
  <2> QED BY <1>4, <2>1, <2>2
<1>5. CASE kind = "Memory"
  <2>1. Combined(a, b) = MemoryMerge(a, b)
    BY <1>5, CombinedIs
  <2>2. DOMAIN a = DOMAIN ZeroOf["Memory"] /\ DOMAIN b = DOMAIN ZeroOf["Memory"] => DOMAIN MemoryMerge(a, b) = DOMAIN ZeroOf["Memory"]
    BY ZeroFields DEF MemoryMerge
  <2> QED BY <1>5, <2>1, <2>2
<1>6. CASE kind = "CPU"
  <2>1. Combined(a, b) = CPUMerge(a, b)
    BY <1>6, CombinedIs
  <2>2. DOMAIN a = DOMAIN ZeroOf["CPU"] /\ DOMAIN b = DOMAIN ZeroOf["CPU"] => DOMAIN CPUMerge(a, b) = DOMAIN ZeroOf["CPU"]
    BY ZeroFields DEF CPUMerge
  <2> QED BY <1>6, <2>1, <2>2
<1>7. CASE kind = "Sensor"
  <2>1. Combined(a, b) = SensorMerge(a, b)
    BY <1>7, CombinedIs
  <2>2. DOMAIN a = DOMAIN ZeroOf["Sensor"] /\ DOMAIN b = DOMAIN ZeroOf["Sensor"] => DOMAIN SensorMerge(a, b) = DOMAIN ZeroOf["Sensor"]
    BY ZeroFields DEF SensorMerge
  <2> QED BY <1>7, <2>1, <2>2
<1>8. CASE kind = "Jobs"
  <2>1. Combined(a, b) = JobsMerge(a, b)
    BY <1>8, CombinedIs
  <2>2. DOMAIN a = DOMAIN ZeroOf["Jobs"] /\ DOMAIN b = DOMAIN ZeroOf["Jobs"] => DOMAIN JobsMerge(a, b) = DOMAIN ZeroOf["Jobs"]
    BY ZeroFields DEF JobsMerge
  <2> QED BY <1>8, <2>1, <2>2
<1>9. CASE kind = "Resync"
  <2>1. Combined(a, b) = ResyncMerge(a, b)
    BY <1>9, CombinedIs
  <2>2. DOMAIN a = DOMAIN ZeroOf["Resync"] /\ DOMAIN b = DOMAIN ZeroOf["Resync"] => DOMAIN ResyncMerge(a, b) = DOMAIN ZeroOf["Resync"]
    BY ZeroFields DEF ResyncMerge
  <2> QED BY <1>9, <2>1, <2>2
<1>10. CASE kind = "Scanner"
  <2>1. Combined(a, b) = ScannerMerge(a, b)
    BY <1>10, CombinedIs
  <2>2. DOMAIN a = DOMAIN ZeroOf["Scanner"] /\ DOMAIN b = DOMAIN ZeroOf["Scanner"] => DOMAIN ScannerMerge(a, b) = DOMAIN ZeroOf["Scanner"]
    BY ZeroFields DEF ScannerMerge
  <2> QED BY <1>10, <2>1, <2>2
<1>11. CASE kind = "Hosts"
  <2>1. Combined(a, b) = HostsMerge(a, b)
    BY <1>11, CombinedIs
  <2>2. DOMAIN a = DOMAIN ZeroOf["Hosts"] /\ DOMAIN b = DOMAIN ZeroOf["Hosts"] => DOMAIN HostsMerge(a, b) = DOMAIN ZeroOf["Hosts"]
    BY ZeroFields DEF HostsMerge
  <2> QED BY <1>11, <2>1, <2>2
<1>12. CASE kind = "Healing"
  <2>1. Combined(a, b) = HealingMerge(a, b)
    BY <1>12, CombinedIs
  <2>2. DOMAIN a = DOMAIN ZeroOf["Healing"] /\ DOMAIN b = DOMAIN ZeroOf["Healing"] => DOMAIN HealingMerge(a, b) = DOMAIN ZeroOf["Healing"]
    BY ZeroFields DEF HealingMerge
  <2> QED BY <1>12, <2>1, <2>2
<1>13. CASE kind = "Runtime"
  <2>1. Combined(a, b) = RuntimeMerge(a, b)
    BY <1>13, CombinedIs
  <2>2. DOMAIN a = DOMAIN ZeroOf["Runtime"] /\ DOMAIN b = DOMAIN ZeroOf["Runtime"] => DOMAIN RuntimeMerge(a, b) = DOMAIN ZeroOf["Runtime"]
    BY ZeroFields DEF RuntimeMerge
  <2> QED BY <1>13, <2>1, <2>2
<1>14. CASE kind = "Process"
  <2>1. Combined(a, b) = ProcessMerge(a, b)
    BY <1>14, CombinedIs
  <2>2. DOMAIN a = DOMAIN ZeroOf["Process"] /\ DOMAIN b = DOMAIN ZeroOf["Process"] => DOMAIN ProcessMerge(a, b) = DOMAIN ZeroOf["Process"]
    BY ZeroFields DEF ProcessMerge
  <2> QED BY <1>14, <2>1, <2>2
<1>15. CASE kind = "Handlers"
  <2>1. Combined(a, b) = [by |-> HandlersMerge(a.by, b.by)]
    BY <1>15, CombinedIs
  <2>2. DOMAIN a = DOMAIN ZeroOf["Handlers"] /\ DOMAIN b = DOMAIN ZeroOf["Handlers"] => DOMAIN [by |-> HandlersMerge(a.by, b.by)] = DOMAIN ZeroOf["Handlers"]
    BY ZeroFields 
  <2> QED BY <1>15, <2>1, <2>2
<1>16. CASE kind = "Net"
  <2>1. Combined(a, b) = [by |-> NetMerge(a.by, b.by)]
    BY <1>16, CombinedIs
  <2>2. DOMAIN a = DOMAIN ZeroOf["Net"] /\ DOMAIN b = DOMAIN ZeroOf["Net"] => DOMAIN [by |-> NetMerge(a.by, b.by)] = DOMAIN ZeroOf["Net"]
    BY ZeroFields 
  <2> QED BY <1>16, <2>1, <2>2
<1>17. CASE kind = "Days"
  <2>1. Combined(a, b) = [day |-> DaysMerge(a.day, b.day)]
    BY <1>17, CombinedIs
  <2>2. DOMAIN a = DOMAIN ZeroOf["Days"] /\ DOMAIN b = DOMAIN ZeroOf["Days"] => DOMAIN [day |-> DaysMerge(a.day, b.day)] = DOMAIN ZeroOf["Days"]
    BY ZeroFields 
  <2> QED BY <1>17, <2>1, <2>2
<1> QED BY <1>1, <1>2, <1>3, <1>4, <1>5, <1>6, <1>7, <1>8, <1>9, <1>10, <1>11, <1>12, <1>13, <1>14, <1>15, <1>16, <1>17 DEF Kinds

LEMMA CombinedCount ==
  ASSUME NEW a, NEW b, kind \in Counting
  PROVE  Combined(a, b).count = IF kind = "Replication" /\ b.nodes = 0 THEN a.count ELSE a.count + b.count
<1>1. CASE kind = "API"
  <2>1. Combined(a, b) = APIMerge(a, b)
    BY <1>1, CombinedIs
  <2>2. APIMerge(a, b).count = a.count + b.count
    BY DEF APIMerge
  <2> QED BY <1>1, <2>1, <2>2
<1>2. CASE kind = "RPC"
  <2>1. Combined(a, b) = RPCMerge(a, b)
    BY <1>2, CombinedIs
  <2>2. RPCMerge(a, b).count = a.count + b.count
    BY DEF RPCMerge
  <2> QED BY <1>2, <2>1, <2>2
<1>3. CASE kind = "Connection"
  <2>1. Combined(a, b) = ConnectionMerge(a, b)
    BY <1>3, CombinedIs
  <2>2. ConnectionMerge(a, b).count = a.count + b.count
    BY DEF ConnectionMerge
  <2> QED BY <1>3, <2>1, <2>2
<1>4. CASE kind = "Memory"
  <2>1. Combined(a, b) = MemoryMerge(a, b)
    BY <1>4, CombinedIs
  <2>2. MemoryMerge(a, b).count = a.count + b.count
    BY DEF MemoryMerge
  <2> QED BY <1>4, <2>1, <2>2
<1>5. CASE kind = "CPU"
  <2>1. Combined(a, b) = CPUMerge(a, b)
    BY <1>5, CombinedIs
  <2>2. CPUMerge(a, b).count = a.count + b.count
    BY DEF CPUMerge
  <2> QED BY <1>5, <2>1, <2>2
<1>6. CASE kind = "Sensor"
  <2>1. Combined(a, b) = SensorMerge(a, b)
    BY <1>6, CombinedIs
  <2>2. SensorMerge(a, b).count = a.count + b.count
    BY DEF SensorMerge
  <2> QED BY <1>6, <2>1, <2>2
<1>7. CASE kind = "Healing"
  <2>1. Combined(a, b) = HealingMerge(a, b)
    BY <1>7, CombinedIs
  <2>2. HealingMerge(a, b).count = a.count + b.count
    BY DEF HealingMerge
  <2> QED BY <1>7, <2>1, <2>2
<1>8. CASE kind = "Runtime"
  <2>1. Combined(a, b) = RuntimeMerge(a, b)
    BY <1>8, CombinedIs
  <2>2. RuntimeMerge(a, b).count = a.count + b.count
    BY DEF RuntimeMerge
  <2> QED BY <1>8, <2>1, <2>2
<1>9. CASE kind = "Process"
  <2>1. Combined(a, b) = ProcessMerge(a, b)
    BY <1>9, CombinedIs
  <2>2. ProcessMerge(a, b).count = a.count + b.count
    BY DEF ProcessMerge
  <2> QED BY <1>9, <2>1, <2>2
<1>10. CASE kind = "Replication"
  <2>1. Combined(a, b) = ReplicationAdd(a, b)
    BY <1>10, CombinedIs
  <2>2. ReplicationAdd(a, b).count = IF b.nodes = 0 THEN a.count ELSE a.count + b.count
    BY DEF ReplicationAdd
  <2> QED BY <1>10, <2>1, <2>2
<1> QED BY <1>1, <1>2, <1>3, <1>4, <1>5, <1>6, <1>7, <1>8, <1>9, <1>10 DEF Counting

----------------------------------------------------------------------------
(* What a, the reports s of kind k of the nodes in S merged, says.            *)

Speaking(k, S, s) == {i \in S : k = "Replication" => s[i].nodes > 0}
Requested(S, s)   == {i \in S : s[i].count > 0}
With(h, S, s)     == {i \in S : h \in DOMAIN s[i].by}

\* The counts, of the whole and of each handler or interface.
CountIs(k, a, S, s) ==
  k \in Counting => a.count \in Nat /\ a.count = SumFunctionOnSet(Col(s, "count"), Speaking(k, S, s))

CountsOf(h, s) == [i \in Nodes |-> s[i].by[h].count]

ByIs(a, S, s) ==
  /\ DOMAIN a = UNION {DOMAIN s[i].by : i \in S}
  /\ \A h \in DOMAIN a : a[h].count \in Nat /\ a[h].count = SumFunctionOnSet(CountsOf(h, s), With(h, S, s))

LEMMA ReportTypes ==
  ASSUME NEW k \in DOMAIN Given, NEW s, \A x \in Nodes : s[x] \in Given[k]
  PROVE  /\ k \in Kinds
         /\ \A x \in Nodes :
              /\ DOMAIN s[x] = DOMAIN ZeroOf[k] /\ s[x] = [f \in DOMAIN s[x] |-> s[x][f]]
              /\ k \in Counting => s[x].count \in Nat
              /\ k \in {"API", "Sensor", "CPU"} => s[x].least \in Nat /\ s[x].most \in Nat
              /\ k = "Replication" => s[x].nodes \in Nat
              /\ k = "Runtime" => s[x].hist \in Maybe(Nat)
              /\ k = "Days" => s[x].day \in Maybe(Series)
              /\ k \in {"Handlers", "Net"} => \A h \in DOMAIN s[x].by : s[x].by[h].count \in Nat
<1>1. k \in Kinds /\ \A x \in Nodes : Typed(k, s[x])
  BY ReportsAssumption
<1> SUFFICES ASSUME NEW x \in Nodes
    PROVE /\ DOMAIN s[x] = DOMAIN ZeroOf[k] /\ s[x] = [f \in DOMAIN s[x] |-> s[x][f]]
          /\ k \in Counting => s[x].count \in Nat
          /\ k \in {"API", "Sensor", "CPU"} => s[x].least \in Nat /\ s[x].most \in Nat
          /\ k = "Replication" => s[x].nodes \in Nat
          /\ k = "Runtime" => s[x].hist \in Maybe(Nat)
          /\ k = "Days" => s[x].day \in Maybe(Series)
          /\ k \in {"Handlers", "Net"} => \A h \in DOMAIN s[x].by : s[x].by[h].count \in Nat
  BY <1>1
<1>2. PICK r : r = s[x]
  OBVIOUS
<1>3. DOMAIN r = DOMAIN ZeroOf[k] /\ r = [f \in DOMAIN r |-> r[f]]
  BY <1>1, <1>2 DEF Typed
<1>4. \A f \in DOMAIN r : f \in {"nodes", "count", "least", "most", "at", "pong"} => r[f] \in Nat
  BY <1>1, <1>2 DEF Typed
<1>5. k \in Counting => r.count \in Nat
  BY <1>1, <1>3, <1>4, CountedKinds
<1>6. k \in {"API", "Sensor", "CPU"} => r.least \in Nat /\ r.most \in Nat
  BY <1>3, <1>4, ZeroFields
<1>7. k = "Replication" => r.nodes \in Nat
  BY <1>3, <1>4, ZeroFields
<1>8. k = "Runtime" => r.hist \in Maybe(Nat)
  BY <1>1, <1>2 DEF Typed
<1>9. k \in {"Handlers", "Net"} => \A h \in DOMAIN r.by : r.by[h].count \in Nat
  BY <1>1, <1>2 DEF Typed
<1>10. k = "Days" => r.day \in Maybe(Series)
  BY <1>1, <1>2 DEF Typed
<1> QED BY <1>2, <1>3, <1>5, <1>6, <1>7, <1>8, <1>9, <1>10

LEMMA CountNone == \A s : kind \in Kinds => CountIs(kind, ZeroOf[kind], {}, s)
<1> SUFFICES ASSUME NEW s, kind \in Counting PROVE CountIs(kind, ZeroOf[kind], {}, s)
  BY DEF CountIs
<1>1. ZeroOf[kind].count = 0
  BY DEF Counting, ZeroOf
<1>2. Speaking(kind, {}, s) = {}
  BY DEF Speaking
<1> QED BY <1>1, <1>2, SumOfNone DEF CountIs

LEMMA CountGrows ==
  ASSUME kind \in DOMAIN Given, NEW s, \A x \in Nodes : s[x] \in Given[kind],
         NEW S, IsFiniteSet(S), S \subseteq Nodes, NEW i \in Nodes, i \notin S, NEW a, CountIs(kind, a, S, s)
  PROVE  CountIs(kind, Combined(a, s[i]), S \cup {i}, s)
<1> SUFFICES ASSUME kind \in Counting PROVE CountIs(kind, Combined(a, s[i]), S \cup {i}, s)
  BY DEF CountIs
<1>1. PICK n, T, m : n = Col(s, "count") /\ T = Speaking(kind, S, s) /\ m = Combined(a, s[i])
  OBVIOUS
<1>2. \A x \in Nodes : n[x] = s[x].count
  BY <1>1 DEF Col
<1>3. PICK k : k = kind
  OBVIOUS
<1>4. \A x \in Nodes : (k \in Counting => s[x].count \in Nat) /\ (k = "Replication" => s[x].nodes \in Nat)
  <2>1. k \in DOMAIN Given /\ \A x \in Nodes : s[x] \in Given[k]
    BY <1>3
  <2> QED BY <2>1, ReportTypes
<1>5. T \subseteq S /\ IsFiniteSet(T) /\ i \notin T /\ \A x \in T \cup {i} : n[x] \in Nat
  <2>1. T \subseteq S
    BY <1>1 DEF Speaking
  <2> QED BY <1>2, <1>3, <1>4, <2>1, FS_Subset
<1>6. a.count \in Nat /\ a.count = SumFunctionOnSet(n, T)
  BY <1>1 DEF CountIs
<1>7. m.count = IF kind = "Replication" /\ s[i].nodes = 0 THEN a.count ELSE a.count + s[i].count
  BY <1>1, CombinedCount
<1>8. CASE kind = "Replication" /\ s[i].nodes = 0
  <2>1. Speaking(kind, S \cup {i}, s) = T
    BY <1>1, <1>8 DEF Speaking
  <2> QED BY <1>1, <1>6, <1>7, <1>8, <2>1 DEF CountIs
<1>9. CASE ~(kind = "Replication" /\ s[i].nodes = 0)
  <2>1. Speaking(kind, S \cup {i}, s) = T \cup {i}
    BY <1>1, <1>3, <1>4, <1>9 DEF Speaking
  <2>2. SumFunctionOnSet(n, T \cup {i}) = SumFunctionOnSet(n, T) + n[i]
    BY <1>5, SumGrows
  <2>3. m.count = a.count + n[i]
    BY <1>2, <1>7, <1>9
  <2>4. m.count \in Nat
    BY <1>5, <1>6, <2>3
  <2> QED BY <1>1, <1>6, <2>1, <2>2, <2>3, <2>4 DEF CountIs
<1> QED BY <1>8, <1>9

\* By handler and by interface: the number of requests is added up, or taken over.
AddsUp(m, a, b) ==
  /\ DOMAIN m = DOMAIN a \cup DOMAIN b
  /\ \A h \in DOMAIN m : \/ h \notin DOMAIN b /\ m[h].count = a[h].count
                         \/ h \notin DOMAIN a /\ h \in DOMAIN b /\ (b[h].count \in Nat => m[h].count = b[h].count)
                         \/ h \in DOMAIN a /\ h \in DOMAIN b /\ m[h].count = a[h].count + b[h].count

LEMMA ByFields == \A a, b : AddsUp(HandlersMerge(a, b), a, b) /\ AddsUp(NetMerge(a, b), a, b)
<1> SUFFICES ASSUME NEW a, NEW b, NEW m, m = HandlersMerge(a, b) \/ m = NetMerge(a, b) PROVE AddsUp(m, a, b)
  OBVIOUS
<1>1. CASE m = HandlersMerge(a, b)
  <2>1. DOMAIN m = DOMAIN a \cup DOMAIN b
    BY <1>1 DEF HandlersMerge
  <2>2. ASSUME NEW h \in DOMAIN m, h \in DOMAIN b
        PROVE  m[h].count = IF h \in DOMAIN a THEN a[h].count + b[h].count ELSE 0 + b[h].count
    <3>1. m[h] = RPCMerge(IF h \in DOMAIN a THEN a[h] ELSE ZeroOf["RPC"], b[h])
      BY <1>1, <2>1, <2>2 DEF HandlersMerge
    <3>2. \A x, y : RPCMerge(x, y).count = x.count + y.count
      BY DEF RPCMerge
    <3>3. ZeroOf["RPC"].count = 0
      BY DEF ZeroOf
    <3> QED BY <3>1, <3>2, <3>3
  <2>3. ASSUME NEW h \in DOMAIN m, h \notin DOMAIN b PROVE m[h].count = a[h].count
    BY <1>1, <2>1, <2>3 DEF HandlersMerge
  <2>4. \A z \in Nat : 0 + z = z
    OBVIOUS
  <2> QED BY <2>1, <2>2, <2>3, <2>4 DEF AddsUp
<1>2. CASE m = NetMerge(a, b)
  <2>1. DOMAIN m = DOMAIN a \cup DOMAIN b
    BY <1>2 DEF NetMerge
  <2>2. ASSUME NEW h \in DOMAIN m
        PROVE  m[h] = IF h \notin DOMAIN b THEN a[h]
                      ELSE IF h \notin DOMAIN a THEN [b[h] EXCEPT !.n = 0]
                      ELSE [n |-> a[h].n, count |-> a[h].count + b[h].count]
    BY <1>2, <2>1, <2>2 DEF NetMerge
  <2>3. \A r : [r EXCEPT !.n = 0].count = r.count
    OBVIOUS
  <2> QED BY <2>1, <2>2, <2>3 DEF AddsUp
<1> QED BY <1>1, <1>2

LEMMA ByGrows ==
  ASSUME NEW s, NEW S, IsFiniteSet(S), S \subseteq Nodes, NEW i \in Nodes, i \notin S,
         \A x \in S \cup {i} : \A h \in DOMAIN s[x].by : s[x].by[h].count \in Nat,
         NEW a, ByIs(a, S, s), NEW m, m = HandlersMerge(a, s[i].by) \/ m = NetMerge(a, s[i].by)
  PROVE  ByIs(m, S \cup {i}, s)
<1>1. PICK b : b = s[i].by
  OBVIOUS
<1>2. AddsUp(m, a, b)
  BY <1>1, ByFields
<1>3. DOMAIN m = DOMAIN a \cup DOMAIN b /\ DOMAIN a = UNION {DOMAIN s[x].by : x \in S}
  BY <1>2 DEF ByIs, AddsUp
<1>4. DOMAIN m = UNION {DOMAIN s[x].by : x \in S \cup {i}}
  BY <1>1, <1>3
<1>5. ASSUME NEW h \in DOMAIN m
      PROVE  m[h].count \in Nat /\ m[h].count = SumFunctionOnSet(CountsOf(h, s), With(h, S \cup {i}, s))
  <2>1. PICK v, T : v = CountsOf(h, s) /\ T = With(h, S, s)
    OBVIOUS
  <2>2. T \subseteq S /\ i \notin T /\ \A x \in T : v[x] \in Nat
    BY <2>1 DEF With, CountsOf
  <2>3. IsFiniteSet(T)
    BY <2>2, FS_Subset
  <2>4. h \in DOMAIN a => a[h].count \in Nat /\ a[h].count = SumFunctionOnSet(v, T)
    BY <2>1 DEF ByIs
  <2>5. h \in DOMAIN a <=> T # {}
    BY <1>3, <2>1 DEF With
  <2>6. CASE h \notin DOMAIN b
    <3>1. With(h, S \cup {i}, s) = T
      BY <1>1, <2>1, <2>6 DEF With
    <3>2. h \in DOMAIN a /\ m[h].count = a[h].count
      BY <1>2, <1>3, <2>6 DEF AddsUp
    <3> QED BY <2>1, <2>4, <3>1, <3>2
  <2>7. CASE h \in DOMAIN b
    <3>1. With(h, S \cup {i}, s) = T \cup {i}
      BY <1>1, <2>1, <2>7 DEF With
    <3>2. v[i] = b[h].count /\ v[i] \in Nat
      BY <1>1, <2>1, <2>7 DEF CountsOf
    <3>3. CASE h \notin DOMAIN a
      <4>1. m[h].count = v[i]
        BY <1>2, <2>7, <3>2, <3>3 DEF AddsUp
      <4>2. T \cup {i} = {i}
        BY <2>5, <3>3
      <4>3. SumFunctionOnSet(v, {i}) = v[i]
        BY <3>2, SumOfOne
      <4> QED BY <2>1, <3>1, <3>2, <4>1, <4>2, <4>3
    <3>4. CASE h \in DOMAIN a
      <4>1. m[h].count = a[h].count + v[i]
        BY <1>2, <2>7, <3>2, <3>4 DEF AddsUp
      <4>2. SumFunctionOnSet(v, T \cup {i}) = SumFunctionOnSet(v, T) + v[i]
        BY <2>2, <2>3, <3>2, SumGrows
      <4>3. m[h].count \in Nat
        BY <2>4, <3>2, <3>4, <4>1
      <4>4. m[h].count = SumFunctionOnSet(v, T \cup {i})
        BY <2>4, <3>4, <4>1, <4>2
      <4> QED BY <2>1, <3>1, <4>3, <4>4
    <3> QED BY <3>3, <3>4
  <2> QED BY <2>6, <2>7
<1> QED BY <1>4, <1>5 DEF ByIs

\* The least and the greatest: of API metrics, of the reports B with requests ...
ExtremesAre(a, B, s) ==
  /\ a.count \in Nat /\ (a.count = 0 <=> B = {})
  /\ B = {} => a.least = 0 /\ a.most = 0
  /\ B # {} => IsLeast(a.least, B, Col(s, "least")) /\ IsGreatest(a.most, B, Col(s, "most"))

\* One more report of API metrics.
Widened(m, a, b) ==
  /\ m.count = a.count + b.count
  /\ b.count = 0 => m.least = a.least /\ m.most = a.most
  /\ b.count > 0 => m.least = (IF a.count = 0 THEN b.least ELSE Smaller(a.least, b.least))
                    /\ m.most = (IF a.count = 0 THEN b.most ELSE Larger(a.most, b.most))

LEMMA ExtremesNumbers ==
  ASSUME NEW a, NEW B, NEW s, ExtremesAre(a, B, s)
  PROVE  a.count \in Nat /\ a.least \in Nat /\ a.most \in Nat /\ (a.count = 0 => a.least = 0 /\ a.most = 0)
BY DEF ExtremesAre, IsLeast, IsGreatest

LEMMA APIWidens ==
  ASSUME NEW a, NEW b, a.count \in Nat, b.count \in Nat, a.least \in Nat, a.most \in Nat, b.least \in Nat, b.most \in Nat
  PROVE  Widened(APIMerge(a, b), a, b)
<1>1. PICK m : m = APIMerge(a, b)
  OBVIOUS
<1>2. PICK at, bt : at = (IF a.count + b.count = b.count THEN b ELSE a) /\ bt = IF b.count = 0 THEN at ELSE b
  OBVIOUS
<1>3. Bounds(a, b) = <<at, bt>>
  BY <1>2 DEF Bounds
<1>4. /\ m.count = a.count + b.count
      /\ m.least = IF a.count + b.count # 0 THEN Smaller(at.least, bt.least) ELSE a.least
      /\ m.most = IF a.count + b.count # 0 THEN Larger(at.most, bt.most) ELSE a.most
  BY <1>1, <1>3 DEF APIMerge
<1>5. CASE b.count = 0
  <2>1. CASE a.count = 0
    BY <1>1, <1>4, <1>5, <2>1 DEF Widened
  <2>2. CASE a.count # 0
    <3>1. at = a /\ bt = a
      BY <1>2, <1>5, <2>2
    <3>2. m.least = a.least /\ m.most = a.most
      BY <1>4, <1>5, <2>2, <3>1 DEF Smaller, Larger
    <3> QED BY <1>1, <1>4, <1>5, <3>2 DEF Widened
  <2> QED BY <2>1, <2>2
<1>6. CASE b.count # 0
  <2>1. bt = b /\ at = IF a.count = 0 THEN b ELSE a
    BY <1>2, <1>6
  <2>2. a.count + b.count # 0
    BY <1>6
  <2>3. m.least = Smaller(at.least, b.least) /\ m.most = Larger(at.most, b.most)
    BY <1>4, <2>1, <2>2
  <2>4. a.count = 0 => m.least = b.least /\ m.most = b.most
    BY <2>1, <2>3 DEF Smaller, Larger
  <2> QED BY <1>1, <1>4, <1>6, <2>1, <2>3, <2>4 DEF Widened
<1> QED BY <1>5, <1>6

LEMMA APIGrows ==
  ASSUME kind = "API", NEW s, \A x \in Nodes : s[x].count \in Nat /\ s[x].least \in Nat /\ s[x].most \in Nat,
         NEW S, S \subseteq Nodes, NEW i \in Nodes, i \notin S, NEW a, ExtremesAre(a, Requested(S, s), s)
  PROVE  ExtremesAre(Combined(a, s[i]), Requested(S \cup {i}, s), s)
<1>1. PICK lo, hi, B, m, b :
        lo = Col(s, "least") /\ hi = Col(s, "most") /\ B = Requested(S, s) /\ m = Combined(a, s[i]) /\ b = s[i]
  OBVIOUS
<1>2. \A x \in Nodes : lo[x] = s[x].least /\ hi[x] = s[x].most
  BY <1>1 DEF Col
<1>3. ExtremesAre(a, B, s) /\ a.count \in Nat /\ a.least \in Nat /\ a.most \in Nat /\ (a.count = 0 => a.least = 0 /\ a.most = 0)
  BY <1>1, ExtremesNumbers
<1>4. B \subseteq S /\ i \notin B
  BY <1>1 DEF Requested
<1>5. Widened(m, a, b)
  <2>1. b.count \in Nat /\ b.least \in Nat /\ b.most \in Nat
    BY <1>1
  <2>2. Widened(APIMerge(a, b), a, b)
    BY <1>3, <2>1, APIWidens
  <2> QED BY <1>1, <2>2, CombinedIs
<1>6. CASE b.count = 0
  <2>1. Requested(S \cup {i}, s) = B
    BY <1>1, <1>6 DEF Requested
  <2>2. m.count = a.count /\ m.least = a.least /\ m.most = a.most
    BY <1>3, <1>5, <1>6 DEF Widened
  <2> QED BY <1>1, <1>3, <2>1, <2>2 DEF ExtremesAre
<1>7. CASE b.count # 0
  <2>1. b.count \in Nat /\ b.count > 0
    BY <1>1, <1>7
  <2>2. Requested(S \cup {i}, s) = B \cup {i}
    BY <1>1, <2>1 DEF Requested
  <2>3. m.count \in Nat /\ m.count # 0
    BY <1>3, <1>5, <2>1 DEF Widened
  <2>4. /\ m.least = IF a.count = 0 THEN lo[i] ELSE Smaller(a.least, lo[i])
        /\ m.most = IF a.count = 0 THEN hi[i] ELSE Larger(a.most, hi[i])
    BY <1>1, <1>2, <1>5, <2>1 DEF Widened
  <2>5. lo[i] \in Nat /\ hi[i] \in Nat /\ \A x \in B : lo[x] \in Nat /\ hi[x] \in Nat
    BY <1>2, <1>4
  <2>6. CASE a.count = 0
    <3>1. B = {} /\ B \cup {i} = {i}
      BY <1>3, <2>6 DEF ExtremesAre
    <3>2. IsLeast(lo[i], {i}, lo) /\ IsGreatest(hi[i], {i}, hi)
      BY <2>5, LeastOne
    <3> QED BY <1>1, <2>2, <2>3, <2>4, <2>6, <3>1, <3>2 DEF ExtremesAre
  <2>7. CASE a.count # 0
    <3>1. IsLeast(a.least, B, lo) /\ IsGreatest(a.most, B, hi)
      BY <1>1, <1>3, <2>7 DEF ExtremesAre
    <3>2. IsLeast(Smaller(a.least, lo[i]), B \cup {i}, lo)
      BY <2>5, <3>1, LeastGrows
    <3>3. IsGreatest(Larger(a.most, hi[i]), B \cup {i}, hi)
      BY <2>5, <3>1, GreatestGrows
    <3> QED BY <1>1, <2>2, <2>3, <2>4, <2>7, <3>2, <3>3 DEF ExtremesAre
  <2> QED BY <2>6, <2>7
<1> QED BY <1>6, <1>7

\* ... of a sensor, some that were reported, and none read lies outside ...
SensorIs(a, S, s) ==
  /\ a.count \in Nat /\ a.least \in Nat /\ a.most \in Nat /\ (a.count = 0 <=> Requested(S, s) = {})
  /\ S # {} => (\E x \in S : a.least = s[x].least) /\ (\E x \in S : a.most = s[x].most)
  /\ \A x \in Requested(S, s) : a.least <= s[x].least /\ s[x].most <= a.most

LEMMA SensorGrows ==
  ASSUME NEW s, \A x \in Nodes : s[x].count \in Nat /\ s[x].least \in Nat /\ s[x].most \in Nat,
         NEW S, S \subseteq Nodes, NEW i \in Nodes, i \notin S, NEW a, SensorIs(a, S, s)
  PROVE  SensorIs(SensorMerge(a, s[i]), S \cup {i}, s)
<1>1. PICK m, b, B, A : /\ m = SensorMerge(a, s[i]) /\ b = s[i] /\ B = Requested(S, s)
                        /\ A = Requested(S \cup {i}, s)
  OBVIOUS
<1>2. /\ m.count = a.count + b.count
      /\ m.least = IF a.count = 0 THEN b.least ELSE Smaller(a.least, b.least)
      /\ m.most = IF a.count = 0 THEN b.most ELSE Larger(a.most, b.most)
  BY <1>1 DEF SensorMerge
<1>3. /\ a.count \in Nat /\ a.least \in Nat /\ a.most \in Nat /\ (a.count = 0 <=> B = {})
      /\ S # {} => (\E x \in S : a.least = s[x].least) /\ (\E x \in S : a.most = s[x].most)
      /\ \A x \in B : a.least <= s[x].least /\ s[x].most <= a.most
  BY <1>1 DEF SensorIs
<1>4. b.count \in Nat /\ b.least \in Nat /\ b.most \in Nat
  BY <1>1
<1>5. B \subseteq S /\ B \subseteq A /\ (\A x \in A : x \in B \/ x = i) /\ (i \in A <=> b.count # 0)
  BY <1>1, <1>4 DEF Requested
<1>6. m.count \in Nat /\ m.least \in Nat /\ m.most \in Nat /\ (m.count = 0 <=> A = {})
  <2>1. m.count \in Nat /\ (m.count = 0 <=> a.count = 0 /\ b.count = 0)
    BY <1>2, <1>3, <1>4
  <2>2. m.least \in Nat /\ m.most \in Nat
    BY <1>2, <1>3, <1>4 DEF Smaller, Larger
  <2>3. A = {} <=> B = {} /\ i \notin A
    BY <1>5
  <2> QED BY <1>3, <1>5, <2>1, <2>2, <2>3
<1>7. CASE a.count = 0
  <2>1. m.least = s[i].least /\ m.most = s[i].most /\ \A x \in A : x = i
    BY <1>1, <1>2, <1>3, <1>5, <1>7
  <2>2. \A x \in A : m.least <= s[x].least /\ s[x].most <= m.most
    BY <2>1
  <2>3. (\E x \in S \cup {i} : m.least = s[x].least) /\ (\E x \in S \cup {i} : m.most = s[x].most)
    BY <2>1
  <2> QED BY <1>1, <1>6, <2>2, <2>3 DEF SensorIs
<1>8. CASE a.count # 0
  <2>1. S # {} /\ m.least = Smaller(a.least, b.least) /\ m.most = Larger(a.most, b.most)
    BY <1>2, <1>3, <1>5, <1>8
  <2>2. /\ m.least <= a.least /\ m.least <= b.least /\ a.most <= m.most /\ b.most <= m.most
        /\ m.least \in {a.least, b.least} /\ m.most \in {a.most, b.most}
    BY <1>3, <1>4, <2>1 DEF Smaller, Larger
  <2>3. \A x \in A : m.least <= s[x].least /\ s[x].most <= m.most
    <3>1. SUFFICES ASSUME NEW x \in A PROVE m.least <= s[x].least /\ s[x].most <= m.most
      OBVIOUS
    <3>2. CASE x = i
      BY <1>1, <2>2, <3>2
    <3>3. CASE x \in B
      <4>1. a.least <= s[x].least /\ s[x].most <= a.most /\ s[x].least \in Nat /\ s[x].most \in Nat
        BY <1>3, <1>5, <3>3
      <4> QED BY <1>3, <1>6, <2>2, <4>1
    <3> QED BY <1>5, <3>2, <3>3
  <2>4. (\E x \in S \cup {i} : m.least = s[x].least) /\ (\E x \in S \cup {i} : m.most = s[x].most)
    BY <1>1, <1>3, <2>1, <2>2
  <2> QED BY <1>1, <1>6, <2>3, <2>4 DEF SensorIs
<1> QED BY <1>7, <1>8

\* ... and of frequencies, the least one of those known in S, if not the zero of an
\* unknown one.
Known(S, s) == {x \in S : s[x].least > 0}

CPUIs(a, S, s) ==
  /\ a.count \in Nat /\ a.least \in Nat /\ (a.count = 0 <=> Requested(S, s) = {})
  /\ IF S = {} THEN a.most = 0 ELSE IsGreatest(a.most, S, Col(s, "most"))
  /\ a.least = 0 \/ \E x \in Known(S, s) : a.least = s[x].least
  /\ Known(Nodes, s) \subseteq Requested(Nodes, s) => \A x \in Known(S, s) : a.least <= s[x].least
  /\ Known(Nodes, s) = Requested(Nodes, s) => Requested(S, s) = {} \/ a.least > 0

LEMMA CPUGrows ==
  ASSUME NEW s, \A x \in Nodes : s[x].count \in Nat /\ s[x].least \in Nat /\ s[x].most \in Nat,
         NEW S, S \subseteq Nodes, NEW i \in Nodes, i \notin S, NEW a, CPUIs(a, S, s)
  PROVE  CPUIs(CPUMerge(a, s[i]), S \cup {i}, s)
<1>1. PICK m, b, B, A, K, L, hi :
        /\ m = CPUMerge(a, s[i]) /\ b = s[i] /\ B = Requested(S, s) /\ A = Requested(S \cup {i}, s)
        /\ K = Known(S, s) /\ L = Known(S \cup {i}, s) /\ hi = Col(s, "most")
  OBVIOUS
<1>2. /\ m.count = a.count + b.count
      /\ m.least = IF b.least > 0 /\ (a.count = 0 \/ b.least < a.least) THEN b.least ELSE a.least
      /\ m.most = Larger(a.most, b.most)
  BY <1>1 DEF CPUMerge
<1>3. /\ a.count \in Nat /\ a.least \in Nat /\ (a.count = 0 <=> B = {})
      /\ IF S = {} THEN a.most = 0 ELSE IsGreatest(a.most, S, hi)
      /\ a.least = 0 \/ \E x \in K : a.least = s[x].least
  BY <1>1 DEF CPUIs
<1>4. b.count \in Nat /\ b.least \in Nat /\ b.most \in Nat /\ hi[i] = b.most /\ \A x \in Nodes : hi[x] \in Nat
  BY <1>1 DEF Col
<1>5. B \subseteq S /\ B \subseteq A /\ (\A x \in A : x \in B \/ x = i) /\ (i \in A <=> b.count # 0)
  BY <1>1, <1>4 DEF Requested
<1>6. K \subseteq S /\ K \subseteq L /\ (\A x \in L : x \in K \/ x = i) /\ (i \in L <=> b.least > 0)
  BY <1>1 DEF Known
<1>7. m.count \in Nat /\ m.least \in Nat /\ (m.count = 0 <=> A = {})
  <2>1. m.count \in Nat /\ (m.count = 0 <=> a.count = 0 /\ b.count = 0)
    BY <1>2, <1>3, <1>4
  <2>2. A = {} <=> B = {} /\ i \notin A
    BY <1>5
  <2> QED BY <1>2, <1>3, <1>4, <1>5, <2>1, <2>2
<1>8. IsGreatest(m.most, S \cup {i}, hi)
  <2>1. CASE S = {}
    <3>1. m.most = hi[i] /\ S \cup {i} = {i}
      BY <1>2, <1>3, <1>4, <2>1 DEF Larger
    <3>2. hi[i] \in Nat
      BY <1>4
    <3>3. IsGreatest(hi[i], {i}, hi)
      BY <3>2, LeastOne
    <3> QED BY <3>1, <3>3
  <2>2. CASE S # {}
    <3>1. PICK o : o = a.most
      OBVIOUS
    <3>2. IsGreatest(o, S, hi) /\ hi[i] \in Nat /\ \A x \in S : hi[x] \in Nat
      BY <1>3, <1>4, <2>2, <3>1
    <3>3. IsGreatest(Larger(o, hi[i]), S \cup {i}, hi)
      BY <3>2, GreatestGrows
    <3> QED BY <1>2, <1>4, <3>1, <3>3
  <2> QED BY <2>1, <2>2
<1>9. m.least = 0 \/ \E x \in L : m.least = s[x].least
  <2>1. m.least = a.least \/ (b.least > 0 /\ m.least = b.least)
    BY <1>2
  <2> QED BY <1>1, <1>3, <1>6, <2>1
<1>10. ASSUME Known(Nodes, s) \subseteq Requested(Nodes, s), NEW x \in L PROVE m.least <= s[x].least
  <2>1. \A y \in K : a.least <= s[y].least /\ s[y].least \in Nat
    BY <1>1, <1>6, <1>10 DEF CPUIs
  <2>2. K \subseteq B
    BY <1>1, <1>10 DEF Known, Requested
  <2>3. CASE x = i
    <3>1. b.least > 0 /\ b.least = s[x].least
      BY <1>1, <1>6, <1>10, <2>3
    <3> QED BY <1>2, <1>3, <1>4, <3>1
  <2>4. CASE x \in K
    <3>1. a.count # 0 /\ a.least <= s[x].least /\ s[x].least \in Nat
      BY <1>3, <2>1, <2>2, <2>4
    <3>2. m.least <= a.least
      BY <1>2, <1>3, <1>4, <3>1
    <3> QED BY <1>3, <1>7, <3>1, <3>2
  <2> QED BY <1>6, <1>10, <2>3, <2>4
<1>11. ASSUME Known(Nodes, s) = Requested(Nodes, s), A # {} PROVE m.least > 0
  <2>1. B = {} \/ a.least > 0
    BY <1>1, <1>11 DEF CPUIs
  <2>2. i \in A <=> b.least > 0
    BY <1>1, <1>11 DEF Known, Requested
  <2>3. CASE b.least > 0
    BY <1>2, <1>3, <1>4, <2>1, <2>3
  <2>4. CASE ~(b.least > 0)
    BY <1>2, <1>5, <1>11, <2>1, <2>2, <2>4
  <2> QED BY <2>3, <2>4
<1>12. S \cup {i} # {}
  OBVIOUS
<1> QED BY <1>1, <1>7, <1>8, <1>9, <1>10, <1>11, <1>12 DEF CPUIs

ExtremesOf(k, a, S, s) ==
  /\ k = "API" => ExtremesAre(a, Requested(S, s), s)
  /\ k = "Sensor" => SensorIs(a, S, s)
  /\ k = "CPU" => CPUIs(a, S, s)

LEMMA ExtremesNone == \A s : ExtremesOf(kind, ZeroOf[kind], {}, s)
<1> SUFFICES ASSUME NEW s PROVE ExtremesOf(kind, ZeroOf[kind], {}, s)
  OBVIOUS
<1>1. Requested({}, s) = {} /\ Known({}, s) = {}
  BY DEF Requested, Known
<1>2. kind \in {"API", "Sensor", "CPU"} => ZeroOf[kind].count = 0 /\ ZeroOf[kind].least = 0 /\ ZeroOf[kind].most = 0
  BY DEF ZeroOf
<1> QED BY <1>1, <1>2 DEF ExtremesOf, ExtremesAre, SensorIs, CPUIs

LEMMA ExtremesGrow ==
  ASSUME kind \in DOMAIN Given, NEW s, \A x \in Nodes : s[x] \in Given[kind],
         NEW S, S \subseteq Nodes, NEW i \in Nodes, i \notin S, NEW a, ExtremesOf(kind, a, S, s)
  PROVE  ExtremesOf(kind, Combined(a, s[i]), S \cup {i}, s)
<1>1. PICK k : k = kind
  OBVIOUS
<1>2. k \in {"API", "Sensor", "CPU"} => \A x \in Nodes : s[x].count \in Nat /\ s[x].least \in Nat /\ s[x].most \in Nat
  <2>1. k \in DOMAIN Given /\ \A x \in Nodes : s[x] \in Given[k]
    BY <1>1
  <2>2. k \in {"API", "Sensor", "CPU"} => k \in Counting
    BY DEF Counting
  <2> QED BY <2>1, <2>2, ReportTypes
<1>3. CASE kind = "API"
  <2>1. \A x \in Nodes : s[x].count \in Nat /\ s[x].least \in Nat /\ s[x].most \in Nat
    BY <1>1, <1>2, <1>3
  <2>2. ExtremesAre(a, Requested(S, s), s)
    BY <1>3 DEF ExtremesOf
  <2>3. ExtremesAre(Combined(a, s[i]), Requested(S \cup {i}, s), s)
    BY <1>3, <2>1, <2>2, APIGrows
  <2> QED BY <1>3, <2>3 DEF ExtremesOf
<1>4. CASE kind = "Sensor"
  <2>1. \A x \in Nodes : s[x].count \in Nat /\ s[x].least \in Nat /\ s[x].most \in Nat
    BY <1>1, <1>2, <1>4
  <2>2. SensorIs(a, S, s)
    BY <1>4 DEF ExtremesOf
  <2>3. SensorIs(SensorMerge(a, s[i]), S \cup {i}, s)
    BY <2>1, <2>2, SensorGrows
  <2>4. SensorIs(Combined(a, s[i]), S \cup {i}, s)
    BY <1>4, <2>3, CombinedIs
  <2> QED BY <1>4, <2>4 DEF ExtremesOf
<1>5. CASE kind = "CPU"
  <2>1. \A x \in Nodes : s[x].count \in Nat /\ s[x].least \in Nat /\ s[x].most \in Nat
    BY <1>1, <1>2, <1>5
  <2>2. CPUIs(a, S, s)
    BY <1>5 DEF ExtremesOf
  <2>3. CPUIs(CPUMerge(a, s[i]), S \cup {i}, s)
    BY <2>1, <2>2, CPUGrows
  <2>4. CPUIs(Combined(a, s[i]), S \cup {i}, s)
    BY <1>5, <2>3, CombinedIs
  <2> QED BY <1>5, <2>4 DEF ExtremesOf
<1> QED BY <1>3, <1>4, <1>5 DEF ExtremesOf

\* The time range x of the reports in S, of which those in B have requests, n in all.
RangeIs(x, n, S, B, v) ==
  /\ n \in Nat /\ (n = 0 <=> B = {})
  /\ x # Nil => (\E y \in S : v[y] = x) /\ \A y \in B : v[y] \in {x, Nil}
  /\ \A p : (\A y \in B : v[y] = p) /\ (\A y \in S : v[y] \in {p, Nil}) => x = p \/ (B = {} /\ x = Nil)

LEMMA RangeGrows ==
  ASSUME NEW x, NEW n, NEW S, NEW B, NEW v, RangeIs(x, n, S, B, v), NEW i, NEW c \in Nat,
         NEW A, A = IF c = 0 THEN B ELSE B \cup {i}
  PROVE  RangeIs(RangeMerge(x, n, v[i]), n + c, S \cup {i}, A, v)
<1>1. PICK w, f, r : w = v[i] /\ f = (IF x = Nil /\ n = 0 THEN w ELSE x) /\ r = RangeMerge(x, n, w)
  OBVIOUS
<1>2. r = IF f # Nil /\ w # Nil /\ f # w THEN Nil ELSE f
  BY <1>1 DEF RangeMerge
<1>3. n \in Nat /\ (n = 0 <=> B = {})
  BY DEF RangeIs
<1>4. n + c \in Nat /\ (n + c = 0 <=> A = {})
  <2>1. n + c \in Nat /\ (n + c = 0 <=> n = 0 /\ c = 0)
    BY <1>3
  <2> QED BY <1>3, <2>1
<1>5. ASSUME r # Nil PROVE (\E y \in S \cup {i} : v[y] = r) /\ \A y \in A : v[y] \in {r, Nil}
  <2>1. CASE x = Nil /\ n = 0
    BY <1>1, <1>2, <1>3, <1>5, <2>1
  <2>2. CASE ~(x = Nil /\ n = 0)
    <3>1. x # Nil /\ r = x /\ w \in {x, Nil}
      BY <1>1, <1>2, <1>5, <2>2
    <3>2. (\E y \in S : v[y] = x) /\ \A y \in B : v[y] \in {x, Nil}
      BY <3>1 DEF RangeIs
    <3> QED BY <1>1, <3>1, <3>2
  <2> QED BY <2>1, <2>2
<1>6. ASSUME NEW p, \A y \in A : v[y] = p, \A y \in S \cup {i} : v[y] \in {p, Nil}
      PROVE  r = p \/ (A = {} /\ r = Nil)
  <2>1. (\A y \in B : v[y] = p) /\ (\A y \in S : v[y] \in {p, Nil}) /\ w \in {p, Nil}
    BY <1>1, <1>6
  <2>2. x = p \/ (B = {} /\ x = Nil)
    BY <2>1 DEF RangeIs
  <2>3. c # 0 => w = p
    BY <1>1, <1>6
  <2>4. CASE x = Nil /\ n = 0
    <3>1. r = w /\ B = {}
      BY <1>1, <1>2, <1>3, <2>4
    <3> QED BY <2>1, <2>3, <3>1
  <2>5. CASE ~(x = Nil /\ n = 0)
    BY <1>1, <1>2, <1>3, <2>1, <2>2, <2>5
  <2> QED BY <2>4, <2>5
<1> QED BY <1>1, <1>4, <1>5, <1>6 DEF RangeIs

\* The node x of the reports of memory in S.
AddrIs(x, n, S, B, v) ==
  /\ n \in Nat /\ (n = 0 <=> B = {}) /\ (S = {} => n = 0 /\ x = Nil)
  /\ x # Nil => \A y \in B : v[y] = x
  /\ \A p : S # {} /\ (\A y \in S : v[y] = p) => x = p

LEMMA AddrGrows ==
  ASSUME NEW a, NEW b, b.count \in Nat, NEW S, NEW B, NEW v, NEW i, v[i] = b.addr,
         AddrIs(a.addr, a.count, S, B, v), NEW A, A = IF b.count = 0 THEN B ELSE B \cup {i}
  PROVE  AddrIs(MemoryMerge(a, b).addr, MemoryMerge(a, b).count, S \cup {i}, A, v)
<1>1. PICK m, x, n, c, w : m = MemoryMerge(a, b) /\ x = a.addr /\ n = a.count /\ c = b.count /\ w = v[i]
  OBVIOUS
<1>2. m.count = n + c /\ m.addr = IF n = 0 /\ x = Nil THEN w ELSE IF x # w THEN Nil ELSE x
  BY <1>1 DEF MemoryMerge
<1>3. /\ n \in Nat /\ (n = 0 <=> B = {}) /\ (S = {} => n = 0 /\ x = Nil)
      /\ x # Nil => \A y \in B : v[y] = x
      /\ \A p : S # {} /\ (\A y \in S : v[y] = p) => x = p
  BY <1>1 DEF AddrIs
<1>4. m.count \in Nat /\ (m.count = 0 <=> A = {})
  <2>1. c \in Nat /\ m.count \in Nat /\ (m.count = 0 <=> n = 0 /\ c = 0)
    BY <1>1, <1>2, <1>3
  <2> QED BY <1>1, <1>3, <2>1
<1>5. ASSUME m.addr # Nil PROVE \A y \in A : v[y] = m.addr
  BY <1>1, <1>2, <1>3, <1>5
<1>6. ASSUME NEW p, \A y \in S \cup {i} : v[y] = p PROVE m.addr = p
  <2>1. w = p /\ (S # {} => x = p)
    BY <1>1, <1>3, <1>6
  <2>2. CASE S = {}
    BY <1>2, <1>3, <2>1, <2>2
  <2>3. CASE S # {}
    BY <1>2, <2>1, <2>3
  <2> QED BY <2>2, <2>3
<1> QED BY <1>1, <1>4, <1>5, <1>6 DEF AddrIs

Ranging == {"API", "RPC", "Replication"}

\* The reports with requests among those of S that count.
Asked(k, S, s) == Requested(Speaking(k, S, s), s)

RangesAre(k, a, S, s) ==
  /\ k \in Ranging => RangeIs(a.from, a.count, Speaking(k, S, s), Asked(k, S, s), Col(s, "from"))
  /\ k = "Memory" => AddrIs(a.addr, a.count, S, Requested(S, s), Col(s, "addr"))

LEMMA RangesNone == \A s : RangesAre(kind, ZeroOf[kind], {}, s)
<1> SUFFICES ASSUME NEW s PROVE RangesAre(kind, ZeroOf[kind], {}, s)
  OBVIOUS
<1>1. Speaking(kind, {}, s) = {} /\ Asked(kind, {}, s) = {} /\ Requested({}, s) = {}
  BY DEF Speaking, Asked, Requested
<1>2. kind \in Ranging => ZeroOf[kind].from = Nil /\ ZeroOf[kind].count = 0
  BY DEF ZeroOf, Ranging
<1>3. kind = "Memory" => ZeroOf[kind].addr = Nil /\ ZeroOf[kind].count = 0
  BY DEF ZeroOf
<1>4. \A v : RangeIs(Nil, 0, {}, {}, v) /\ AddrIs(Nil, 0, {}, {}, v)
  BY DEF RangeIs, AddrIs
<1> QED BY <1>1, <1>2, <1>3, <1>4 DEF RangesAre

LEMMA RangesGrow ==
  ASSUME kind \in DOMAIN Given, NEW s, \A x \in Nodes : s[x] \in Given[kind],
         NEW S, S \subseteq Nodes, NEW i \in Nodes, NEW a, RangesAre(kind, a, S, s)
  PROVE  RangesAre(kind, Combined(a, s[i]), S \cup {i}, s)
<1>1. PICK m, b, k : m = Combined(a, s[i]) /\ b = s[i] /\ k = kind
  OBVIOUS
<1>2. (k \in Counting => b.count \in Nat) /\ (k = "Replication" => b.nodes \in Nat)
  <2>1. k \in DOMAIN Given /\ \A x \in Nodes : s[x] \in Given[k]
    BY <1>1
  <2> QED BY <1>1, <2>1, ReportTypes
<1>3. ASSUME k \in Ranging
      PROVE  RangeIs(m.from, m.count, Speaking(k, S \cup {i}, s), Asked(k, S \cup {i}, s), Col(s, "from"))
  <2>1. PICK v, x, n, c, T, B, A :
          /\ v = Col(s, "from") /\ x = a.from /\ n = a.count /\ c = b.count
          /\ T = Speaking(k, S, s) /\ B = Asked(k, S, s) /\ A = Asked(k, S \cup {i}, s)
    OBVIOUS
  <2>2. c \in Nat /\ v[i] = b.from /\ RangeIs(x, n, T, B, v)
    BY <1>1, <1>2, <1>3, <2>1 DEF Ranging, Counting, Col, RangesAre
  <2>3. CASE k = "Replication" /\ b.nodes = 0
    <3>1. Speaking(k, S \cup {i}, s) = T
      BY <1>1, <2>1, <2>3 DEF Speaking
    <3>2. A = B
      BY <2>1, <3>1 DEF Asked
    <3>3. m = a
      BY <1>1, <2>3, CombinedIs DEF ReplicationAdd
    <3> QED BY <2>1, <2>2, <3>1, <3>2, <3>3
  <2>4. CASE ~(k = "Replication" /\ b.nodes = 0)
    <3>1. Speaking(k, S \cup {i}, s) = T \cup {i}
      BY <1>1, <1>2, <2>1, <2>4 DEF Speaking
    <3>2. A = IF c = 0 THEN B ELSE B \cup {i}
      <4>1. A = Requested(T \cup {i}, s) /\ B = Requested(T, s)
        BY <2>1, <3>1 DEF Asked
      <4>2. s[i].count = c /\ (c > 0 <=> c # 0)
        BY <1>1, <2>1, <2>2
      <4> QED BY <4>1, <4>2 DEF Requested
    <3>3. m.from = RangeMerge(x, n, v[i]) /\ m.count = n + c
      <4>1. CASE k = "API"
        BY <1>1, <2>1, <2>2, <4>1, CombinedIs DEF APIMerge
      <4>2. CASE k = "RPC"
        BY <1>1, <2>1, <2>2, <4>2, CombinedIs DEF RPCMerge
      <4>3. CASE k = "Replication"
        <5>1. m = ReplicationAdd(a, b)
          BY <1>1, <4>3, CombinedIs
        <5> QED BY <2>1, <2>2, <2>4, <4>3, <5>1 DEF ReplicationAdd
      <4> QED BY <1>3, <4>1, <4>2, <4>3 DEF Ranging
    <3>4. RangeIs(RangeMerge(x, n, v[i]), n + c, T \cup {i}, A, v)
      BY <2>2, <3>2, RangeGrows
    <3> QED BY <2>1, <3>1, <3>3, <3>4
  <2> QED BY <2>3, <2>4
<1>4. ASSUME k = "Memory"
      PROVE  AddrIs(m.addr, m.count, S \cup {i}, Requested(S \cup {i}, s), Col(s, "addr"))
  <2>1. PICK v, B, A : v = Col(s, "addr") /\ B = Requested(S, s) /\ A = Requested(S \cup {i}, s)
    OBVIOUS
  <2>2. b.count \in Nat /\ v[i] = b.addr /\ AddrIs(a.addr, a.count, S, B, v)
    BY <1>1, <1>2, <1>4, <2>1 DEF Counting, Col, RangesAre
  <2>3. A = IF b.count = 0 THEN B ELSE B \cup {i}
    BY <1>1, <2>1, <2>2 DEF Requested
  <2>4. AddrIs(MemoryMerge(a, b).addr, MemoryMerge(a, b).count, S \cup {i}, A, v)
    BY <2>2, <2>3, AddrGrows
  <2>5. m = MemoryMerge(a, b)
    BY <1>1, <1>4, CombinedIs
  <2> QED BY <2>1, <2>4, <2>5
<1> QED BY <1>1, <1>3, <1>4 DEF RangesAre

\* What is reported by name: nothing is lost, and what is said was reported.
Naming == {"Jobs", "Scanner", "Hosts", "Healing"}

Told(k, b) == {j \in DOMAIN b : k = "Scanner" => b[j] # <<>>}

KeysAre(k, a, S, s) ==
  /\ \A i \in S : Told(k, s[i].by) \subseteq DOMAIN a
  /\ \A j \in DOMAIN a : \E i \in S : j \in Told(k, s[i].by) /\ a[j] = s[i].by[j]

Mixes(m, a, b, K) ==
  /\ DOMAIN m = DOMAIN a \cup K
  /\ \A j \in DOMAIN m : (j \in DOMAIN a /\ m[j] = a[j]) \/ (j \in K /\ m[j] = b[j])

Lies(m, f, g) ==
  /\ DOMAIN m = DOMAIN f \cup DOMAIN g
  /\ \A j \in DOMAIN m : m[j] = IF j \in DOMAIN f THEN f[j] ELSE g[j]

LEMMA OverlayLies == \A f, g : Lies(Overlay(f, g), f, g)
BY DEF Overlay, Lies

\* For every name the newer of two.
Newest(m, f, g) ==
  /\ DOMAIN m = DOMAIN f \cup DOMAIN g
  /\ \A j \in DOMAIN m : m[j] = IF j \in DOMAIN g /\ (j \notin DOMAIN f \/ f[j].at < g[j].at) THEN g[j] ELSE f[j]

LEMMA JobsBy == \A a, b : Newest(JobsMerge(a, b).by, a.by, b.by)
<1> SUFFICES ASSUME NEW a, NEW b, NEW m, m = JobsMerge(a, b).by PROVE Newest(m, a.by, b.by)
  OBVIOUS
<1>1. CASE b.by = NoEntry
  <2>1. DOMAIN b.by = {} /\ m = a.by
    BY <1>1 DEF NoEntry, JobsMerge
  <2> QED BY <2>1 DEF Newest
<1>2. CASE b.by # NoEntry
  <2>1. PICK f : f = [k \in {j \in DOMAIN b.by : j \notin DOMAIN a.by \/ Newer(a.by[j], b.by[j])} |-> b.by[k]]
    OBVIOUS
  <2>2. m = Overlay(f, a.by)
    BY <1>2, <2>1 DEF JobsMerge
  <2>3. DOMAIN f = {j \in DOMAIN b.by : j \notin DOMAIN a.by \/ a.by[j].at < b.by[j].at}
        /\ \A j \in DOMAIN f : f[j] = b.by[j]
    BY <2>1 DEF Newer
  <2>4. Lies(m, f, a.by)
    BY <2>2, OverlayLies
  <2> QED BY <2>3, <2>4 DEF Lies, Newest
<1> QED BY <1>1, <1>2

LEMMA CombinedMixes ==
  ASSUME kind \in Naming, NEW a, NEW b
  PROVE  Mixes(Combined(a, b).by, a.by, b.by, Told(kind, b.by))
<1>1. PICK m, f, g, K : m = Combined(a, b).by /\ f = a.by /\ g = b.by /\ K = Told(kind, g)
  OBVIOUS
<1>2. CASE kind = "Jobs"
  <2>1. Combined(a, b) = JobsMerge(a, b)
    BY <1>2, CombinedIs
  <2>2. K = DOMAIN g
    BY <1>1, <1>2 DEF Told
  <2>3. Newest(m, f, g)
    BY <1>1, <2>1, JobsBy
  <2>4. Mixes(m, f, g, K)
    BY <2>2, <2>3 DEF Mixes, Newest
  <2> QED BY <1>1, <2>4
<1>3. CASE kind = "Scanner"
  <2>1. K = {j \in DOMAIN g : g[j] # <<>>}
    BY <1>1, <1>3 DEF Told
  <2>2. Combined(a, b) = ScannerMerge(a, b)
    BY <1>3, CombinedIs
  <2>3. PICK e : e = [k \in {j \in DOMAIN g : g[j] # <<>>} |-> g[k]]
    OBVIOUS
  <2>4. ScannerMerge(a, b).by = Overlay(f, e)
    BY <1>1, <2>3 DEF ScannerMerge
  <2>5. DOMAIN e = K /\ \A j \in K : e[j] = g[j]
    BY <2>1, <2>3
  <2>6. m = Overlay(f, e)
    BY <1>1, <2>2, <2>4
  <2>7. Lies(m, f, e)
    BY <2>6, OverlayLies
  <2>8. Mixes(m, f, g, K)
    BY <2>5, <2>7 DEF Mixes, Lies
  <2> QED BY <1>1, <2>8
<1>4. CASE kind \in {"Hosts", "Healing"}
  <2>1. K = DOMAIN g
    BY <1>1, <1>4 DEF Told
  <2>2. m = Overlay(g, f)
    <3>1. CASE kind = "Hosts"
      <4>1. HostsMerge(a, b).by = Overlay(g, f)
        BY <1>1 DEF HostsMerge, ByMerge
      <4> QED BY <1>1, <3>1, <4>1, CombinedIs
    <3>2. CASE kind = "Healing"
      <4>1. HealingMerge(a, b).by = Overlay(g, f)
        BY <1>1 DEF HealingMerge
      <4> QED BY <1>1, <3>2, <4>1, CombinedIs
    <3> QED BY <1>4, <3>1, <3>2
  <2>3. Lies(m, g, f)
    BY <2>2, OverlayLies
  <2>4. Mixes(m, f, g, K)
    BY <2>1, <2>3 DEF Mixes, Lies
  <2> QED BY <1>1, <2>4
<1> QED BY <1>2, <1>3, <1>4 DEF Naming

LEMMA KeysGrow ==
  ASSUME kind \in Naming, NEW s, NEW S, NEW i, NEW a, KeysAre(kind, a.by, S, s)
  PROVE  KeysAre(kind, Combined(a, s[i]).by, S \cup {i}, s)
<1>1. PICK m, f, g : m = Combined(a, s[i]).by /\ f = a.by /\ g = s[i].by
  OBVIOUS
<1>2. Mixes(m, f, g, Told(kind, g))
  BY <1>1, CombinedMixes
<1>3. KeysAre(kind, f, S, s)
  BY <1>1
<1>4. \A x \in S \cup {i} : Told(kind, s[x].by) \subseteq DOMAIN m
  BY <1>1, <1>2, <1>3 DEF Mixes, KeysAre
<1>5. ASSUME NEW j \in DOMAIN m PROVE \E x \in S \cup {i} : j \in Told(kind, s[x].by) /\ m[j] = s[x].by[j]
  <2>1. CASE j \in DOMAIN f /\ m[j] = f[j]
    BY <1>3, <2>1 DEF KeysAre
  <2>2. CASE j \in Told(kind, g) /\ m[j] = g[j]
    BY <1>1, <2>2
  <2> QED BY <1>2, <2>1, <2>2 DEF Mixes
<1> QED BY <1>1, <1>4, <1>5 DEF KeysAre

\* The newest of what is replaced.
NewestJobs(a, S, s) ==
  \A i \in S : \A j \in DOMAIN s[i].by : j \in DOMAIN a /\ a[j].at \in Nat /\ a[j].at >= s[i].by[j].at

NewestResync(a, S, s) == a.at \in Nat /\ \A i \in S : a.at >= s[i].at

NewestPing(a, S, s) ==
  /\ a.pong \in Nat /\ \A i \in S : a.pong >= s[i].pong
  /\ a.pong > 0 => \E i \in S : a.pong = s[i].pong /\ a.ping = s[i].ping

ParityIs(x, S, s) == IF S = {} THEN x = Nil ELSE x \in {s[i].parity : i \in S}

LEMMA NewestGrow ==
  ASSUME NEW s, NEW S, NEW i, NEW a
  PROVE  /\ kind = "Jobs" /\ (\A x \in S \cup {i} : \A j \in DOMAIN s[x].by : s[x].by[j].at \in Nat)
            /\ NewestJobs(a.by, S, s) /\ KeysAre("Jobs", a.by, S, s) => NewestJobs(Combined(a, s[i]).by, S \cup {i}, s)
         /\ kind = "Resync" /\ (\A x \in S \cup {i} : s[x].at \in Nat) /\ NewestResync(a, S, s) =>
              NewestResync(Combined(a, s[i]), S \cup {i}, s)
         /\ kind = "Connection" /\ (\A x \in S \cup {i} : s[x].pong \in Nat) /\ NewestPing(a, S, s) =>
              NewestPing(Combined(a, s[i]), S \cup {i}, s)
         /\ kind = "Healing" /\ (\A x \in S \cup {i} : s[x].parity # Nil) /\ ParityIs(a.parity, S, s) =>
              ParityIs(Combined(a, s[i]).parity, S \cup {i}, s)
<1>1. PICK m, b : m = Combined(a, s[i]) /\ b = s[i]
  OBVIOUS
<1>2. ASSUME kind = "Jobs", \A x \in S \cup {i} : \A j \in DOMAIN s[x].by : s[x].by[j].at \in Nat,
             NewestJobs(a.by, S, s), KeysAre("Jobs", a.by, S, s)
      PROVE  NewestJobs(m.by, S \cup {i}, s)
  <2>1. PICK f, g, h : f = a.by /\ g = b.by /\ h = m.by
    OBVIOUS
  <2>2. m = JobsMerge(a, b)
    BY <1>1, <1>2, CombinedIs
  <2>3. /\ DOMAIN h = DOMAIN f \cup DOMAIN g
        /\ \A j \in DOMAIN h : h[j] = IF j \in DOMAIN g /\ (j \notin DOMAIN f \/ f[j].at < g[j].at) THEN g[j] ELSE f[j]
    BY <2>1, <2>2, JobsBy DEF Newest
  <2>4. \A j \in DOMAIN g : g[j].at \in Nat
    BY <1>1, <1>2, <2>1
  <2>5. \A j \in DOMAIN f : f[j].at \in Nat
    BY <1>2, <2>1 DEF KeysAre, Told
  <2>6. ASSUME NEW x \in S \cup {i}, NEW j \in DOMAIN s[x].by
        PROVE  j \in DOMAIN h /\ h[j].at \in Nat /\ h[j].at >= s[x].by[j].at
    <3>1. s[x].by[j].at \in Nat
      BY <1>2
    <3>2. CASE x \in S
      <4>1. j \in DOMAIN f /\ f[j].at >= s[x].by[j].at
        BY <1>2, <2>1, <3>2 DEF NewestJobs
      <4> QED BY <2>3, <2>4, <2>5, <3>1, <4>1
    <3>3. CASE x = i
      <4>1. j \in DOMAIN g /\ s[x].by[j] = g[j]
        BY <1>1, <2>1, <3>3
      <4> QED BY <2>3, <2>4, <2>5, <4>1
    <3> QED BY <3>2, <3>3
  <2> QED BY <2>1, <2>6 DEF NewestJobs
<1>3. ASSUME kind = "Resync", \A x \in S \cup {i} : s[x].at \in Nat, NewestResync(a, S, s)
      PROVE  NewestResync(m, S \cup {i}, s)
  <2>1. m = IF a.at < b.at THEN b ELSE a
    BY <1>1, <1>3, CombinedIs DEF ResyncMerge
  <2>2. b.at \in Nat /\ a.at \in Nat /\ \A x \in S : a.at >= s[x].at /\ s[x].at \in Nat
    BY <1>1, <1>3 DEF NewestResync
  <2>3. m.at \in Nat /\ m.at >= a.at /\ m.at >= b.at
    BY <2>1, <2>2
  <2> QED BY <1>1, <2>2, <2>3 DEF NewestResync
<1>4. ASSUME kind = "Connection", \A x \in S \cup {i} : s[x].pong \in Nat, NewestPing(a, S, s)
      PROVE  NewestPing(m, S \cup {i}, s)
  <2>1. m.pong = Larger(a.pong, b.pong) /\ m.ping = IF a.pong < b.pong THEN b.ping ELSE a.ping
    BY <1>1, <1>4, CombinedIs DEF ConnectionMerge
  <2>2. b.pong \in Nat /\ a.pong \in Nat /\ \A x \in S : a.pong >= s[x].pong /\ s[x].pong \in Nat
    BY <1>1, <1>4 DEF NewestPing
  <2>3. m.pong \in Nat /\ m.pong >= a.pong /\ m.pong >= b.pong
    BY <2>1, <2>2 DEF Larger
  <2>4. \A x \in S \cup {i} : m.pong >= s[x].pong
    BY <1>1, <2>2, <2>3
  <2>5. CASE a.pong < b.pong
    <3>1. m.pong = b.pong /\ m.ping = b.ping
      BY <2>1, <2>2, <2>5 DEF Larger
    <3> QED BY <1>1, <2>3, <2>4, <3>1 DEF NewestPing
  <2>6. CASE ~(a.pong < b.pong)
    <3>1. m.pong = a.pong /\ m.ping = a.ping
      BY <2>1, <2>2, <2>6 DEF Larger
    <3>2. m.pong > 0 => \E x \in S : m.pong = s[x].pong /\ m.ping = s[x].ping
      BY <1>4, <3>1 DEF NewestPing
    <3> QED BY <2>3, <2>4, <3>2 DEF NewestPing
  <2> QED BY <2>5, <2>6
<1>5. ASSUME kind = "Healing", \A x \in S \cup {i} : s[x].parity # Nil, ParityIs(a.parity, S, s)
      PROVE  ParityIs(m.parity, S \cup {i}, s)
  <2>1. HealingMerge(a, b).parity = IF a.parity = Nil THEN (IF b.parity = Nil THEN 0 ELSE b.parity) ELSE a.parity
    BY DEF HealingMerge
  <2>2. m.parity = IF a.parity = Nil THEN b.parity ELSE a.parity
    BY <1>1, <1>5, <2>1, CombinedIs
  <2>3. CASE S = {}
    BY <1>1, <1>5, <2>2, <2>3 DEF ParityIs
  <2>4. CASE S # {}
    BY <1>1, <1>5, <2>2, <2>4 DEF ParityIs
  <2> QED BY <2>3, <2>4
<1> QED BY <1>1, <1>2, <1>3, <1>4, <1>5

----------------------------------------------------------------------------
(* Lists in order.  Sorted puts at index i the element whose place is i.      *)

Numbers(key, n) == DOMAIN key = 1..n /\ \A j \in 1..n : key[j] \in Nat
Below(key, j)   == {k \in DOMAIN key : key[k] < key[j] \/ (key[k] = key[j] /\ k <= j)}

\* No two have one place, and the places are in the order of the numbers.
LEMMA PlaceOrdered ==
  ASSUME NEW n \in Nat, NEW key, Numbers(key, n), NEW i \in 1..n, NEW j \in 1..n
  PROVE  /\ Place(key, i) \in 1..n
         /\ key[i] < key[j] \/ (key[i] = key[j] /\ i < j) => Place(key, i) < Place(key, j)
<1>1. PICK B, C, x, y : B = Below(key, i) /\ C = Below(key, j) /\ x = key[i] /\ y = key[j]
  OBVIOUS
<1>2. Place(key, i) = Cardinality(B) /\ Place(key, j) = Cardinality(C)
  BY <1>1 DEF Place, Below
<1>3. B \in SUBSET (1..n) /\ C \in SUBSET (1..n) /\ i \in B /\ j \in C /\ x \in Nat /\ y \in Nat
  BY <1>1 DEF Below, Numbers
<1>4. IsFiniteSet(1..n) /\ Cardinality(1..n) = n
  BY FS_Interval
<1>5. /\ IsFiniteSet(B) /\ IsFiniteSet(C) /\ Cardinality(B) \in Nat /\ Cardinality(C) \in Nat
      /\ Cardinality(B) <= n
  <2>1. IsFiniteSet(B) /\ IsFiniteSet(C) /\ Cardinality(B) <= n
    BY <1>3, <1>4, FS_Subset
  <2> QED BY <2>1, FS_CardinalityType
<1>6. Cardinality(B) # 0
  BY <1>3, <1>5, FS_EmptySet
<1>7. ASSUME x < y \/ (x = y /\ i < j) PROVE Cardinality(B) < Cardinality(C)
  <2>1. B \subseteq C
    <3> SUFFICES ASSUME NEW k \in B PROVE k \in C
      OBVIOUS
    <3>1. PICK z : z = key[k]
      OBVIOUS
    <3>2. k \in 1..n /\ z \in Nat /\ (z < x \/ (z = x /\ k <= i))
      BY <1>1, <1>3, <3>1 DEF Below, Numbers
    <3>3. z < y \/ (z = y /\ k <= j)
      BY <1>3, <1>7, <3>2
    <3> QED BY <1>1, <3>1, <3>2, <3>3 DEF Below, Numbers
  <2>2. j \notin B
    <3>1. ~ (y < x \/ (y = x /\ j <= i))
      BY <1>3, <1>7
    <3> QED BY <1>1, <3>1 DEF Below
  <2>3. Cardinality(B) <= Cardinality(C) /\ (Cardinality(C) = Cardinality(B) => C = B)
    BY <1>5, <2>1, FS_Subset
  <2> QED BY <1>3, <1>5, <2>2, <2>3
<1> QED BY <1>1, <1>2, <1>5, <1>6, <1>7

\* p goes through 1..n in the order of key.
Orders(p, n, key) ==
  /\ p \in [1..n -> 1..n]
  /\ \A i \in 1..n : \E j \in 1..n : p[j] = i
  /\ \A i, j \in 1..n : p[i] = p[j] => i = j
  /\ \A i, j \in 1..n : i < j => key[p[i]] <= key[p[j]]

LEMMA SortedIs ==
  ASSUME NEW n \in Nat, NEW s, DOMAIN s = 1..n, NEW key, Numbers(key, n)
  PROVE  \E p : Orders(p, n, key) /\ Sorted(s, key) = [i \in 1..n |-> s[p[i]]]
<1>1. PICK f, p : /\ f = [j \in 1..n |-> Place(key, j)]
                  /\ p = [i \in 1..n |-> CHOOSE j \in 1..n : Place(key, j) = i]
  OBVIOUS
<1>2. \A i, j \in 1..n : key[i] < key[j] \/ (key[i] = key[j] /\ i < j) => f[i] < f[j]
  BY <1>1, PlaceOrdered
<1>3. f \in [1..n -> 1..n]
  <2>1. \A j \in 1..n : Place(key, j) \in 1..n
    BY PlaceOrdered
  <2> QED BY <1>1, <2>1
<1>4. \A i, j \in 1..n : f[i] = f[j] => i = j
  <2> SUFFICES ASSUME NEW i \in 1..n, NEW j \in 1..n, f[i] = f[j] PROVE i = j
    OBVIOUS
  <2>1. ~ f[i] < f[j] /\ ~ f[j] < f[i]
    BY <1>3
  <2>2. key[i] \in Nat /\ key[j] \in Nat
    BY DEF Numbers
  <2>3. key[i] = key[j]
    BY <1>2, <2>1, <2>2
  <2> QED BY <1>2, <2>1, <2>3
<1>5. f \in Injection(1..n, 1..n)
  BY <1>3, <1>4 DEF Injection, IsInjective
<1>6. f \in Surjection(1..n, 1..n)
  <2>1. IsFiniteSet(1..n)
    BY FS_Interval
  <2> QED BY <1>5, <2>1, FS_Injection
<1>7. \A i \in 1..n : p[i] \in 1..n /\ f[p[i]] = i
  <2> SUFFICES ASSUME NEW i \in 1..n PROVE p[i] \in 1..n /\ f[p[i]] = i
    OBVIOUS
  <2>1. \E j \in 1..n : f[j] = i
    BY <1>6 DEF Surjection
  <2>2. \E j \in 1..n : Place(key, j) = i
    BY <1>1, <2>1
  <2>3. p[i] = CHOOSE j \in 1..n : Place(key, j) = i
    BY <1>1
  <2>4. p[i] \in 1..n /\ Place(key, p[i]) = i
    BY <2>2, <2>3
  <2> QED BY <1>1, <2>4
<1>8. Orders(p, n, key)
  <2>1. p \in [1..n -> 1..n]
    BY <1>1, <1>7
  <2>2. \A i \in 1..n : \E j \in 1..n : p[j] = i
    BY <1>3, <1>4, <1>7
  <2>3. \A i, j \in 1..n : p[i] = p[j] => i = j
    BY <1>7
  <2>4. ASSUME NEW i \in 1..n, NEW j \in 1..n, i < j PROVE key[p[i]] <= key[p[j]]
    <3>1. PICK x, y : x = p[i] /\ y = p[j]
      OBVIOUS
    <3>2. x \in 1..n /\ y \in 1..n /\ f[x] = i /\ f[y] = j
      BY <1>7, <3>1
    <3>3. key[x] \in Nat /\ key[y] \in Nat
      BY <3>2 DEF Numbers
    <3>4. ~ key[y] < key[x]
      BY <1>2, <2>4, <3>2
    <3> QED BY <3>1, <3>3, <3>4
  <2> QED BY <2>1, <2>2, <2>3, <2>4 DEF Orders
<1>9. Sorted(s, key) = [i \in 1..n |-> s[p[i]]]
  <2>1. Sorted(s, key) = [i \in 1..n |-> s[CHOOSE j \in 1..n : Place(key, j) = i]]
    BY DEF Sorted
  <2> QED BY <1>1, <2>1
<1> QED BY <1>8, <1>9

\* How often x is in the list s.
Times(s, x) == Cardinality({j \in DOMAIN s : s[j] = x})

\* r is the list s in order: as long, with each number as often.
InOrder(r, s) ==
  /\ r \in Seq(Nat) /\ Len(r) = Len(s)
  /\ \A i, j \in 1..Len(s) : i < j => r[i] <= r[j]
  /\ \A x : Times(r, x) = Times(s, x)
  /\ (\A i, j \in 1..Len(s) : s[i] = s[j] => i = j) => \A i, j \in 1..Len(s) : i < j => r[i] < r[j]
  /\ \A x : (\E i \in 1..Len(s) : r[i] = x) <=> (\E i \in 1..Len(s) : s[i] = x)

LEMMA SortedInOrder ==
  ASSUME NEW s \in Seq(Nat)
  PROVE  InOrder(Sorted(s, s), s)
<1>1. PICK n, r : n = Len(s) /\ r = Sorted(s, s)
  OBVIOUS
<1>2. n \in Nat /\ DOMAIN s = 1..n /\ Numbers(s, n)
  BY <1>1 DEF Numbers
<1>3. PICK p : Orders(p, n, s) /\ r = [i \in 1..n |-> s[p[i]]]
  BY <1>1, <1>2, SortedIs
<1>4. \A i \in 1..n : p[i] \in 1..n /\ r[i] = s[p[i]] /\ r[i] \in Nat
  BY <1>2, <1>3 DEF Orders, Numbers
<1>5. r \in Seq(Nat) /\ Len(r) = n
  <2>1. r = [i \in 1..n |-> r[i]]
    BY <1>3
  <2> QED BY <1>2, <1>4, <2>1
<1>6. \A i, j \in 1..n : i < j => r[i] <= r[j]
  BY <1>3, <1>4 DEF Orders
<1>7. ASSUME NEW x PROVE Times(r, x) = Times(s, x)
  <2>1. PICK R, T, g : /\ R = {j \in 1..n : r[j] = x} /\ T = {j \in 1..n : s[j] = x}
                       /\ g = [j \in R |-> p[j]]
    OBVIOUS
  <2>2. g \in Bijection(R, T)
    <3>1. g \in [R -> T]
      BY <1>4, <2>1
    <3>2. \A i, j \in R : g[i] = g[j] => i = j
      BY <1>3, <2>1 DEF Orders
    <3>3. \A t \in T : \E i \in R : g[i] = t
      <4> SUFFICES ASSUME NEW t \in T PROVE \E i \in R : g[i] = t
        OBVIOUS
      <4>1. PICK i \in 1..n : p[i] = t
        BY <1>3, <2>1 DEF Orders
      <4>2. i \in R
        BY <1>4, <2>1, <4>1
      <4> QED BY <2>1, <4>1, <4>2
    <3> QED BY <3>1, <3>2, <3>3 DEF Bijection, Injection, Surjection, IsInjective
  <2>3. IsFiniteSet(R)
    <3>1. IsFiniteSet(1..n) /\ R \in SUBSET (1..n)
      BY <1>2, <2>1, FS_Interval
    <3> QED BY <3>1, FS_Subset
  <2>4. Cardinality(T) = Cardinality(R)
    <3>1. ExistsBijection(R, T)
      BY <2>2 DEF ExistsBijection
    <3> QED BY <2>3, <3>1, FS_Bijection
  <2>5. DOMAIN r = 1..n /\ DOMAIN s = 1..n
    BY <1>2, <1>3
  <2> QED BY <2>1, <2>4, <2>5 DEF Times
<1>8. ASSUME \A i, j \in 1..n : s[i] = s[j] => i = j, NEW i \in 1..n, NEW j \in 1..n, i < j
      PROVE  r[i] < r[j]
  <2>1. p[i] # p[j] /\ p[i] \in 1..n /\ p[j] \in 1..n
    <3>1. i # j
      BY <1>2, <1>8
    <3> QED BY <1>3, <1>4, <3>1 DEF Orders
  <2>2. r[i] # r[j]
    BY <1>4, <1>8, <2>1
  <2> QED BY <1>4, <1>6, <1>8, <2>2
<1>9. ASSUME NEW x PROVE (\E i \in 1..n : r[i] = x) <=> (\E i \in 1..n : s[i] = x)
  <2>1. ASSUME NEW i \in 1..n, r[i] = x PROVE \E j \in 1..n : s[j] = x
    BY <1>4, <2>1
  <2>2. ASSUME NEW j \in 1..n, s[j] = x PROVE \E i \in 1..n : r[i] = x
    <3>1. PICK i \in 1..n : p[i] = j
      BY <1>3 DEF Orders
    <3> QED BY <1>4, <2>2, <3>1
  <2> QED BY <2>1, <2>2
<1> QED BY <1>1, <1>5, <1>6, <1>7, <1>8, <1>9 DEF InOrder

LEMMA TimesType ==
  ASSUME NEW s \in Seq(Nat), NEW x
  PROVE  Times(s, x) \in Nat
<1>1. PICK n, R : n = Len(s) /\ R = {j \in DOMAIN s : s[j] = x}
  OBVIOUS
<1>2. n \in Nat /\ R \in SUBSET (1..n)
  BY <1>1
<1>3. IsFiniteSet(1..n)
  BY <1>2, FS_Interval
<1>4. IsFiniteSet(R)
  BY <1>2, <1>3, FS_Subset
<1> QED BY <1>1, <1>4, FS_CardinalityType DEF Times

LEMMA TimesBoth ==
  ASSUME NEW s \in Seq(Nat), NEW t \in Seq(Nat), NEW x
  PROVE  Times(s \o t, x) = Times(s, x) + Times(t, x)
<1>1. PICK m, k, w : m = Len(s) /\ k = Len(t) /\ w = s \o t
  OBVIOUS
<1>2. m \in Nat /\ k \in Nat /\ DOMAIN s = 1..m /\ DOMAIN t = 1..k /\ DOMAIN w = 1..(m + k)
  BY <1>1
<1>3. \A j \in 1..(m + k) : w[j] = IF j <= m THEN s[j] ELSE t[j - m]
  BY <1>1
<1>4. PICK R, T, V, g : /\ R = {j \in 1..m : s[j] = x} /\ T = {j \in 1..k : t[j] = x}
                        /\ V = {j \in (m + 1)..(m + k) : t[j - m] = x} /\ g = [j \in T |-> m + j]
  OBVIOUS
<1>5. {j \in 1..(m + k) : w[j] = x} = R \cup V
  <2>1. \A j \in R \cup V : j \in 1..(m + k) /\ w[j] = x
    <3>1. \A j \in R : j \in 1..(m + k) /\ w[j] = x
      BY <1>2, <1>3, <1>4
    <3>2. \A j \in V : j \in 1..(m + k) /\ ~ j <= m /\ t[j - m] = x
      BY <1>2, <1>4
    <3> QED BY <1>3, <3>1, <3>2
  <2>2. ASSUME NEW j \in 1..(m + k), w[j] = x PROVE j \in R \cup V
    <3>1. CASE j <= m
      BY <1>2, <1>3, <1>4, <2>2, <3>1
    <3>2. CASE ~ j <= m
      <4>1. j \in (m + 1)..(m + k) /\ t[j - m] = x
        BY <1>2, <1>3, <2>2, <3>2
      <4> QED BY <1>4, <4>1
    <3> QED BY <3>1, <3>2
  <2> QED BY <2>1, <2>2
<1>6. R \cap V = {}
  BY <1>2, <1>4
<1>7. IsFiniteSet(R) /\ IsFiniteSet(T) /\ IsFiniteSet(V)
  <2>1. IsFiniteSet(1..m) /\ IsFiniteSet(1..k) /\ IsFiniteSet((m + 1)..(m + k))
    BY <1>2, FS_Interval
  <2>2. R \in SUBSET (1..m) /\ T \in SUBSET (1..k) /\ V \in SUBSET ((m + 1)..(m + k))
    BY <1>4
  <2> QED BY <2>1, <2>2, FS_Subset
<1>8. Cardinality(V) = Cardinality(T)
  <2>1. \A j \in T : j \in 1..k /\ m + j \in V
    BY <1>2, <1>4
  <2>2. g \in [T -> V] /\ \A i, j \in T : g[i] = g[j] => i = j
    BY <1>2, <1>4, <2>1
  <2>3. \A j \in V : j - m \in T /\ g[j - m] = j
    BY <1>2, <1>4
  <2>4. g \in Bijection(T, V)
    BY <2>2, <2>3 DEF Bijection, Injection, Surjection, IsInjective
  <2>5. ExistsBijection(T, V)
    BY <2>4 DEF ExistsBijection
  <2> QED BY <1>7, <2>5, FS_Bijection
<1>9. Cardinality(R \cup V) = Cardinality(R) + Cardinality(V)
  <2>1. Cardinality(R \cup V) = Cardinality(R) + Cardinality(V) - Cardinality(R \cap V)
    BY <1>7, FS_Union
  <2>2. Cardinality(R \cap V) = 0
    BY <1>6, FS_EmptySet
  <2>3. Cardinality(R) \in Nat /\ Cardinality(V) \in Nat
    BY <1>7, FS_CardinalityType
  <2> QED BY <2>1, <2>2, <2>3
<1> QED BY <1>1, <1>2, <1>4, <1>5, <1>8, <1>9 DEF Times

\* The names that the nodes in S list, in order and each as often as it is listed.
TimesOf(x, s) == [i \in Nodes |-> Times(s[i].names, x)]

NamesAre(a, S, s) ==
  /\ a \in Seq(Nat) /\ \A i, j \in 1..Len(a) : i < j => a[i] <= a[j]
  /\ \A x : Times(a, x) = SumFunctionOnSet(TimesOf(x, s), S)

LEMMA NamesNone == \A s : NamesAre(<<>>, {}, s)
<1> SUFFICES ASSUME NEW s PROVE NamesAre(<<>>, {}, s)
  OBVIOUS
<1>1. ASSUME NEW x PROVE Times(<<>>, x) = SumFunctionOnSet(TimesOf(x, s), {})
  <2>1. {j \in DOMAIN <<>> : <<>>[j] = x} = {}
    OBVIOUS
  <2>2. Times(<<>>, x) = 0
    BY <2>1, FS_EmptySet DEF Times
  <2>3. SumFunctionOnSet(TimesOf(x, s), {}) = 0
    BY SumOfNone
  <2> QED BY <2>2, <2>3
<1> QED BY <1>1 DEF NamesAre

LEMMA NamesGrow ==
  ASSUME NEW s, NEW S, IsFiniteSet(S), S \subseteq Nodes, NEW i \in Nodes, i \notin S,
         \A x \in S \cup {i} : s[x].names \in Seq(Nat), NEW a, NamesAre(a, S, s)
  PROVE  NamesAre(SortedBoth(a, s[i].names), S \cup {i}, s)
<1>1. PICK b, u, r : b = s[i].names /\ u = a \o b /\ r = Sorted(u, u)
  OBVIOUS
<1>2. a \in Seq(Nat) /\ b \in Seq(Nat) /\ u \in Seq(Nat)
  BY <1>1 DEF NamesAre
<1>3. /\ r \in Seq(Nat) /\ Len(r) = Len(u) /\ \A x : Times(r, x) = Times(u, x)
      /\ \A x, y \in 1..Len(u) : x < y => r[x] <= r[y]
  <2>1. InOrder(r, u)
    BY <1>1, <1>2, SortedInOrder
  <2>2. InOrder(r, u) => /\ r \in Seq(Nat) /\ Len(r) = Len(u) /\ \A x : Times(r, x) = Times(u, x)
                         /\ \A x, y \in 1..Len(u) : x < y => r[x] <= r[y]
    BY DEF InOrder
  <2> QED BY <2>1, <2>2
<1>4. ASSUME NEW n PROVE Times(r, n) = SumFunctionOnSet(TimesOf(n, s), S \cup {i})
  <2>1. PICK v : v = TimesOf(n, s)
    OBVIOUS
  <2>2. \A x \in S \cup {i} : v[x] = Times(s[x].names, n) /\ v[x] \in Nat
    BY <2>1, TimesType DEF TimesOf
  <2>3. SumFunctionOnSet(v, S \cup {i}) = SumFunctionOnSet(v, S) + v[i]
    BY <2>2, SumGrows
  <2>4. Times(u, n) = Times(a, n) + Times(b, n)
    BY <1>1, <1>2, TimesBoth
  <2>5. Times(a, n) = SumFunctionOnSet(v, S)
    BY <2>1 DEF NamesAre
  <2>6. v[i] = Times(b, n)
    BY <1>1, <2>2
  <2> QED BY <1>3, <2>1, <2>3, <2>4, <2>5, <2>6
<1> QED BY <1>1, <1>3, <1>4 DEF NamesAre, SortedBoth

\* The elements of a finite set of numbers, once each and in order.
Increasing(a) == a \in Seq(Nat) /\ \A i, j \in 1..Len(a) : i < j => a[i] < a[j]

LEMMA ListedIs ==
  ASSUME NEW P \in SUBSET Nat, IsFiniteSet(P)
  PROVE  Increasing(Listed(P)) /\ ToSet(Listed(P)) = P
<1>1. PICK n, q, r : n = Cardinality(P) /\ q = SetToSeq(P) /\ r = Sorted(q, q)
  OBVIOUS
<1>2. n \in Nat /\ \E f : f \in Bijection(1..n, P)
  BY <1>1, FS_CardinalityType DEF ExistsBijection
<1>3. \E f \in [1..n -> P] : IsInjective(f)
  <2>1. PICK f : f \in Bijection(1..n, P)
    BY <1>2
  <2>2. f \in [1..n -> P] /\ IsInjective(f)
    BY <2>1 DEF Bijection, Injection
  <2> QED BY <2>2
<1>4. q \in [1..n -> P] /\ IsInjective(q)
  BY <1>1, <1>3 DEF SetToSeq
<1>5. q \in Injection(1..n, P)
  BY <1>4 DEF Injection
<1>6. q \in Surjection(1..n, P)
  <2>1. Cardinality(1..n) = n
    BY <1>2, FS_Interval
  <2> QED BY <1>1, <1>5, <2>1, FS_Injection
<1>7. q \in Seq(Nat) /\ Len(q) = n
  <2>1. q \in [1..n -> Nat]
    BY <1>4
  <2> QED BY <1>2, <2>1
<1>8. \A i, j \in 1..Len(q) : q[i] = q[j] => i = j
  BY <1>4, <1>7 DEF IsInjective
<1>9. /\ r \in Seq(Nat) /\ Len(r) = n /\ \A i, j \in 1..n : i < j => r[i] < r[j]
      /\ \A x : (\E i \in 1..n : r[i] = x) <=> (\E i \in 1..n : q[i] = x)
  <2>1. InOrder(r, q)
    BY <1>1, <1>7, SortedInOrder
  <2> QED BY <1>7, <1>8, <2>1 DEF InOrder
<1>10. ToSet(r) = P
  <2>1. \A x : x \in P <=> \E i \in 1..n : q[i] = x
    BY <1>4, <1>6 DEF Surjection
  <2>2. \A x : x \in ToSet(r) <=> \E i \in 1..n : r[i] = x
    <3>1. DOMAIN r = 1..n
      BY <1>9
    <3>2. ToSet(r) = {r[i] : i \in 1..n}
      BY <3>1 DEF ToSet
    <3> QED BY <3>2
  <2> QED BY <1>9, <2>1, <2>2
<1> QED BY <1>1, <1>9, <1>10 DEF Increasing, Listed

LEMMA ToSetFinite ==
  ASSUME NEW q \in Seq(Nat)
  PROVE  ToSet(q) \in SUBSET Nat /\ IsFiniteSet(ToSet(q))
<1>1. PICK n : n = Len(q)
  OBVIOUS
<1>2. n \in Nat /\ DOMAIN q = 1..n /\ q \in [1..n -> Nat]
  BY <1>1
<1>3. q \in Surjection(1..n, ToSet(q)) /\ ToSet(q) \in SUBSET Nat
  <2>1. \A i \in 1..n : q[i] \in ToSet(q) /\ q[i] \in Nat
    BY <1>2 DEF ToSet
  <2>2. \A x \in ToSet(q) : \E i \in 1..n : q[i] = x
    BY <1>2 DEF ToSet
  <2> QED BY <1>2, <2>1, <2>2 DEF Surjection
<1>4. IsFiniteSet(1..n)
  BY <1>2, FS_Interval
<1>5. IsFiniteSet(ToSet(q))
  BY <1>3, <1>4, FS_Surjection
<1> QED BY <1>3, <1>5

PrefixesAre(a, S, s) == Increasing(a) /\ ToSet(a) = UNION {ToSet(s[i].prefixes) : i \in S}

LEMMA PrefixesNone == \A s : PrefixesAre(<<>>, {}, s)
BY DEF PrefixesAre, Increasing, ToSet

LEMMA PrefixesGrow ==
  ASSUME NEW s, NEW S, NEW i, s[i].prefixes \in Seq(Nat), NEW a, PrefixesAre(a, S, s), NEW r,
         r = IF s[i].prefixes = <<>> THEN a ELSE Listed(ToSet(a) \union ToSet(s[i].prefixes))
  PROVE  PrefixesAre(r, S \cup {i}, s)
<1>1. PICK b, U : b = s[i].prefixes /\ U = UNION {ToSet(s[x].prefixes) : x \in S}
  OBVIOUS
<1>2. UNION {ToSet(s[x].prefixes) : x \in S \cup {i}} = U \cup ToSet(b)
  BY <1>1
<1>3. Increasing(a) /\ ToSet(a) = U
  BY <1>1 DEF PrefixesAre
<1>4. Increasing(r) /\ ToSet(r) = ToSet(a) \cup ToSet(b)
  <2>1. CASE b = <<>>
    <3>1. ToSet(b) = {}
      BY <2>1 DEF ToSet
    <3> QED BY <1>1, <1>3, <2>1, <3>1
  <2>2. CASE b # <<>>
    <3>1. PICK P : P = ToSet(a) \cup ToSet(b)
      OBVIOUS
    <3>2. ToSet(a) \in SUBSET Nat /\ IsFiniteSet(ToSet(a)) /\ ToSet(b) \in SUBSET Nat /\ IsFiniteSet(ToSet(b))
      BY <1>1, <1>3, ToSetFinite DEF Increasing
    <3>3. P \in SUBSET Nat /\ IsFiniteSet(P)
      BY <3>1, <3>2, FS_Union
    <3>4. Increasing(Listed(P)) /\ ToSet(Listed(P)) = P
      BY <3>3, ListedIs
    <3> QED BY <1>1, <2>2, <3>1, <3>4
  <2> QED BY <2>1, <2>2
<1> QED BY <1>2, <1>3, <1>4 DEF PrefixesAre

\* Sets of drives, each once.
DriveSets == [id : Nat, disks : Seq(Nat)]
Once(u)      == u \in Seq(DriveSets) /\ \A i, j \in 1..Len(u) : u[i].id = u[j].id => i = j
HasSet(u, d) == \E i \in 1..Len(u) : u[i].id = d.id /\ ToSet(d.disks) \subseteq ToSet(u[i].disks)

LEMMA DisksBoth ==
  ASSUME NEW q \in Seq(Nat), NEW t \in Seq(Nat)
  PROVE  q \o t \in Seq(Nat) /\ ToSet(q) \subseteq ToSet(q \o t) /\ ToSet(t) \subseteq ToSet(q \o t)
<1>1. PICK m, k, w : m = Len(q) /\ k = Len(t) /\ w = q \o t
  OBVIOUS
<1>2. /\ m \in Nat /\ k \in Nat /\ DOMAIN q = 1..m /\ DOMAIN t = 1..k /\ DOMAIN w = 1..(m + k)
      /\ w \in Seq(Nat)
  BY <1>1
<1>3. \A j \in 1..m : w[j] = q[j] /\ j \in 1..(m + k)
  BY <1>1, <1>2
<1>4. \A j \in 1..k : w[m + j] = t[j] /\ m + j \in 1..(m + k)
  BY <1>1, <1>2
<1>5. ToSet(q) \subseteq ToSet(w)
  BY <1>2, <1>3 DEF ToSet
<1>6. ToSet(t) \subseteq ToSet(w)
  BY <1>2, <1>4 DEF ToSet
<1> QED BY <1>1, <1>2, <1>5, <1>6

\* One set that is added: it is there, and nothing that was is lost.
LEMMA AddSetIs ==
  ASSUME NEW u, Once(u), NEW d \in DriveSets
  PROVE  /\ Once(AddSet(u, d)) /\ HasSet(AddSet(u, d), d)
         /\ \A e : HasSet(u, e) => HasSet(AddSet(u, d), e)
<1>1. PICK n, F, v : n = Len(u) /\ F = {i \in 1..n : u[i].id = d.id} /\ v = AddSet(u, d)
  OBVIOUS
<1>2. /\ n \in Nat /\ u \in Seq(DriveSets) /\ DOMAIN u = 1..n /\ u \in [1..n -> DriveSets]
      /\ \A i, j \in 1..n : u[i].id = u[j].id => i = j
  BY <1>1 DEF Once
<1>3. CASE F = {}
  <2>1. v = Append(u, d)
    BY <1>1, <1>2, <1>3 DEF AddSet
  <2>2. /\ v \in Seq(DriveSets) /\ Len(v) = n + 1 /\ v[n + 1] = d
        /\ \A i \in 1..n : v[i] = u[i]
    BY <1>1, <1>2, <2>1
  <2>3. \A i \in 1..(n + 1) : i \in 1..n \/ i = n + 1
    BY <1>2
  <2>4. \A i \in 1..n : u[i].id # d.id
    BY <1>1, <1>3
  <2>5. \A i, j \in 1..(n + 1) : v[i].id = v[j].id => i = j
    BY <1>2, <2>2, <2>3, <2>4
  <2>6. HasSet(v, d)
    <3>1. n + 1 \in 1..Len(v)
      BY <1>2, <2>2
    <3> QED BY <2>2, <3>1 DEF HasSet
  <2>7. \A e : HasSet(u, e) => HasSet(v, e)
    <3>1. \A i \in 1..n : i \in 1..Len(v)
      BY <1>2, <2>2
    <3> QED BY <1>1, <2>2, <3>1 DEF HasSet
  <2> QED BY <1>1, <2>2, <2>5, <2>6, <2>7 DEF Once
<1>4. CASE F # {}
  <2>1. PICK f : f \in 1..n /\ u[f].id = d.id
    BY <1>1, <1>4
  <2>2. F = {f}
    BY <1>1, <1>2, <2>1
  <2>3. (CHOOSE i \in F : \A j \in F : j <= i) = f
    BY <1>2, <2>2
  <2>4. PICK w, x : w = u[f].disks \o d.disks /\ x = [u[f] EXCEPT !.disks = w]
    OBVIOUS
  <2>5. /\ u[f] \in DriveSets /\ u[f].disks \in Seq(Nat) /\ d.disks \in Seq(Nat)
    BY <1>2, <2>1 DEF DriveSets
  <2>6. w \in Seq(Nat) /\ ToSet(u[f].disks) \subseteq ToSet(w) /\ ToSet(d.disks) \subseteq ToSet(w)
    BY <2>4, <2>5, DisksBoth
  <2>7. x \in DriveSets /\ x.id = d.id /\ x.disks = w
    BY <2>1, <2>4, <2>5, <2>6 DEF DriveSets
  <2>8. v = [u EXCEPT ![f] = x]
    <3>1. v = [u EXCEPT ![CHOOSE i \in F : \A j \in F : j <= i].disks = @ \o d.disks]
      BY <1>1, <1>2, <1>4 DEF AddSet
    <3>2. v = [u EXCEPT ![f].disks = @ \o d.disks]
      BY <2>3, <3>1
    <3> QED BY <2>4, <3>2
  <2>9. v \in Seq(DriveSets) /\ Len(v) = n /\ v[f] = x /\ \A i \in 1..n : i # f => v[i] = u[i]
    <3>1. v \in [1..n -> DriveSets] /\ v[f] = x /\ \A i \in 1..n : i # f => v[i] = u[i]
      BY <1>2, <2>1, <2>7, <2>8
    <3> QED BY <1>2, <3>1
  <2>10. \A i \in 1..n : v[i].id = u[i].id /\ ToSet(u[i].disks) \subseteq ToSet(v[i].disks)
    BY <2>1, <2>6, <2>7, <2>9
  <2>11. Once(v)
    BY <1>2, <2>9, <2>10 DEF Once
  <2>12. HasSet(v, d)
    BY <2>1, <2>6, <2>7, <2>9 DEF HasSet
  <2>13. \A e : HasSet(u, e) => HasSet(v, e)
    <3> SUFFICES ASSUME NEW e, HasSet(u, e) PROVE HasSet(v, e)
      OBVIOUS
    <3>1. PICK i \in 1..n : u[i].id = e.id /\ ToSet(e.disks) \subseteq ToSet(u[i].disks)
      BY <1>1 DEF HasSet
    <3>2. v[i].id = e.id /\ ToSet(e.disks) \subseteq ToSet(v[i].disks)
      BY <2>10, <3>1
    <3> QED BY <2>9, <3>2 DEF HasSet
  <2> QED BY <1>1, <2>11, <2>12, <2>13
<1> QED BY <1>3, <1>4

\* A fold along a sequence is, like a sum, a CHOSEn function on the subsets of the
\* indices.
AddsOn(g, u, D, q) ==
  g = [s \in SUBSET D |-> IF s = {} THEN u ELSE AddSet(g[s \ {Max(s)}], q[Max(s)])]

AddedTo(u, q) == FoldLeft(AddSet, u, q)

LEMMA AddedToIs == \A u, q : AddedTo(u, q) = (CHOOSE g : AddsOn(g, u, DOMAIN q, q))[DOMAIN q]
BY DEF AddedTo, FoldLeft, MapThenFoldSet, AddsOn

LEMMA LeastNumber ==
  ASSUME NEW B \in SUBSET Nat, B # {}
  PROVE  \E m \in B : \A k \in B : ~ k < m
<1>1. \E m \in B : \A k \in B : ~ (<<k, m>> \in OpToRel(<, Nat))
  BY NatLessThanWellFounded, WFMin
<1> QED BY <1>1 DEF OpToRel

LEMMA MaxOf ==
  ASSUME NEW m \in Nat, NEW s \in SUBSET (1..m), m \in s
  PROVE  Max(s) = m
<1>1. \A x \in s : x \in Nat /\ x <= m
  OBVIOUS
<1>2. \A x \in s : (\A y \in s : x >= y) => x = m
  BY <1>1
<1>3. \A y \in s : m >= y
  BY <1>1
<1> QED BY <1>2, <1>3 DEF Max

LEMMA AddsExist ==
  ASSUME NEW n \in Nat, NEW u, NEW q
  PROVE  \E g : AddsOn(g, u, 1..n, q)
<1>1. PICK B : B = {m \in 0..n : ~ \E g : AddsOn(g, u, 1..m, q)}
  OBVIOUS
<1>2. CASE B = {}
  BY <1>1, <1>2
<1>3. CASE B # {}
  <2>1. B \in SUBSET Nat
    BY <1>1
  <2>2. PICK m \in B : \A k \in B : ~ k < m
    BY <1>3, <2>1, LeastNumber
  <2>3. m \in 0..n /\ ~ \E g : AddsOn(g, u, 1..m, q)
    BY <1>1, <2>2
  <2>4. CASE m = 0
    <3>1. PICK g : g = [s \in SUBSET (1..m) |-> u]
      OBVIOUS
    <3>2. \A s \in SUBSET (1..m) : s = {}
      BY <2>4
    <3>3. AddsOn(g, u, 1..m, q)
      BY <3>1, <3>2 DEF AddsOn
    <3> QED BY <2>3, <3>3
  <2>5. CASE m # 0
    <3>1. PICK k : k = m - 1
      OBVIOUS
    <3>2. k \in 0..n /\ k < m /\ m = k + 1 /\ m \in Nat /\ k \in Nat
      BY <2>3, <2>5, <3>1
    <3>3. k \notin B
      BY <2>2, <3>2
    <3>4. PICK h : AddsOn(h, u, 1..k, q)
      BY <1>1, <3>2, <3>3
    <3>5. PICK g : g = [s \in SUBSET (1..m) |-> IF m \in s THEN AddSet(h[s \ {m}], q[m]) ELSE h[s]]
      OBVIOUS
    <3>6. ASSUME NEW s \in SUBSET (1..m)
          PROVE  g[s] = IF s = {} THEN u ELSE AddSet(g[s \ {Max(s)}], q[Max(s)])
      <4>1. PICK x, t : x = Max(s) /\ t = s \ {x}
        OBVIOUS
      <4>2. t \in SUBSET (1..m)
        BY <4>1
      <4>3. CASE m \in s
        <5>1. x = m
          BY <3>2, <4>1, <4>3, MaxOf
        <5>2. g[s] = AddSet(h[t], q[m])
          BY <3>5, <4>1, <4>3, <5>1
        <5>3. g[t] = h[t]
          BY <3>5, <4>1, <4>2, <5>1
        <5> QED BY <4>1, <4>3, <5>1, <5>2, <5>3
      <4>4. CASE m \notin s
        <5>1. s \in SUBSET (1..k) /\ t \in SUBSET (1..k)
          <6>1. \A y \in 1..m : y = m \/ y \in 1..k
            BY <3>2
          <6>2. s \in SUBSET (1..k)
            BY <4>4, <6>1
          <6> QED BY <4>1, <6>2
        <5>2. g[s] = h[s] /\ g[t] = h[t]
          BY <3>5, <4>1, <4>2, <4>4
        <5>3. h[s] = IF s = {} THEN u ELSE AddSet(h[s \ {Max(s)}], q[Max(s)])
          BY <3>4, <5>1 DEF AddsOn
        <5> QED BY <4>1, <5>2, <5>3
      <4> QED BY <4>3, <4>4
    <3>7. g = [s \in SUBSET (1..m) |-> g[s]]
      BY <3>5
    <3>8. AddsOn(g, u, 1..m, q)
      BY <3>6, <3>7 DEF AddsOn
    <3> QED BY <2>3, <3>8
  <2> QED BY <2>4, <2>5
<1> QED BY <1>2, <1>3

\* What was there is there, and the first k sets of q as well.
Added(v, u, q, k) ==
  Once(v) /\ (\A e : HasSet(u, e) => HasSet(v, e)) /\ \A j \in 1..k : HasSet(v, q[j])

LEMMA AddedToAre ==
  ASSUME NEW u, Once(u), NEW q \in Seq(DriveSets)
  PROVE  Added(AddedTo(u, q), u, q, Len(q))
<1>1. PICK n, g : n = Len(q) /\ g = CHOOSE h : AddsOn(h, u, DOMAIN q, q)
  OBVIOUS
<1>2. n \in Nat /\ DOMAIN q = 1..n /\ q \in [1..n -> DriveSets]
  BY <1>1
<1>3. AddsOn(g, u, 1..n, q)
  <2>1. \E h : AddsOn(h, u, 1..n, q)
    BY <1>2, AddsExist
  <2> QED BY <1>1, <1>2, <2>1
<1>4. PICK B : B = {m \in 0..n : ~ Added(g[1..m], u, q, m)}
  OBVIOUS
<1>5. \A s \in SUBSET (1..n) : g[s] = IF s = {} THEN u ELSE AddSet(g[s \ {Max(s)}], q[Max(s)])
  BY <1>3 DEF AddsOn
<1>6. CASE B # {}
  <2>1. B \in SUBSET Nat
    BY <1>4
  <2>2. PICK m \in B : \A k \in B : ~ k < m
    BY <1>6, <2>1, LeastNumber
  <2>3. m \in 0..n /\ ~ Added(g[1..m], u, q, m)
    BY <1>4, <2>2
  <2>4. CASE m = 0
    <3>1. 1..m = {} /\ 1..m \in SUBSET (1..n)
      BY <2>4
    <3>2. g[1..m] = u
      BY <1>5, <3>1
    <3>3. Added(u, u, q, m)
      BY <3>1 DEF Added
    <3> QED BY <2>3, <3>2, <3>3
  <2>5. CASE m # 0
    <3>1. PICK k : k = m - 1
      OBVIOUS
    <3>2. k \in 0..n /\ k < m /\ m = k + 1 /\ m \in Nat /\ m \in 1..n
      BY <1>2, <2>3, <2>5, <3>1
    <3>3. k \notin B
      BY <2>2, <3>2
    <3>4. Added(g[1..k], u, q, k)
      BY <1>4, <3>2, <3>3
    <3>5. 1..m \in SUBSET (1..n) /\ m \in 1..m /\ 1..m # {} /\ (1..m) \ {m} = 1..k
      <4>1. \A j \in 1..m : j \in 1..n
        BY <1>2, <3>2
      <4>2. \A j \in 1..m : j = m \/ j \in 1..k
        BY <3>2
      <4>3. \A j \in 1..k : j \in 1..m /\ j # m
        BY <3>2
      <4>4. (1..m) \ {m} = 1..k
        BY <4>2, <4>3
      <4>5. m \in 1..m
        BY <3>2
      <4> QED BY <4>1, <4>4, <4>5
    <3>6. Max(1..m) = m
      BY <3>2, <3>5, MaxOf
    <3>7. PICK w, v, d : w = g[1..k] /\ v = g[1..m] /\ d = q[m]
      OBVIOUS
    <3>8. v = AddSet(w, d) /\ d \in DriveSets
      BY <1>2, <1>5, <3>2, <3>5, <3>6, <3>7
    <3>9. Once(w) /\ (\A e : HasSet(u, e) => HasSet(w, e)) /\ \A j \in 1..k : HasSet(w, q[j])
      BY <3>4, <3>7 DEF Added
    <3>10. Once(v) /\ HasSet(v, d) /\ \A e : HasSet(w, e) => HasSet(v, e)
      BY <3>8, <3>9, AddSetIs
    <3>11. \A j \in 1..m : j \in 1..k \/ j = m
      BY <3>2
    <3>12. Added(v, u, q, m)
      BY <3>7, <3>9, <3>10, <3>11 DEF Added
    <3> QED BY <2>3, <3>7, <3>12
  <2> QED BY <2>4, <2>5
<1>7. CASE B = {}
  <2>1. Added(g[1..n], u, q, n)
    BY <1>2, <1>4, <1>7
  <2>2. AddedTo(u, q) = g[1..n]
    BY <1>1, <1>2, AddedToIs
  <2> QED BY <1>1, <2>1, <2>2
<1> QED BY <1>6, <1>7

\* The sets in order.
LEMMA BySetIs ==
  ASSUME NEW u, Once(u)
  PROVE  /\ Once(BySet(u)) /\ \A e : HasSet(u, e) => HasSet(BySet(u), e)
         /\ \A i, j \in 1..Len(BySet(u)) : i < j => BySet(u)[i].id < BySet(u)[j].id
<1>1. PICK n, key, r : n = Len(u) /\ key = [i \in DOMAIN u |-> u[i].id] /\ r = BySet(u)
  OBVIOUS
<1>2. n \in Nat /\ DOMAIN u = 1..n /\ u \in [1..n -> DriveSets] /\ \A i, j \in 1..n : u[i].id = u[j].id => i = j
  BY <1>1 DEF Once
<1>3. DOMAIN key = 1..n /\ \A i \in 1..n : key[i] = u[i].id /\ key[i] \in Nat
  BY <1>1, <1>2 DEF DriveSets
<1>4. PICK p : Orders(p, n, key) /\ Sorted(u, key) = [i \in 1..n |-> u[p[i]]]
  <2>1. Numbers(key, n)
    BY <1>3 DEF Numbers
  <2> QED BY <1>2, <2>1, SortedIs
<1>5. r = [i \in 1..n |-> u[p[i]]]
  BY <1>1, <1>4 DEF BySet
<1>6. \A i \in 1..n : p[i] \in 1..n /\ r[i] = u[p[i]] /\ r[i] \in DriveSets
  BY <1>2, <1>4, <1>5 DEF Orders
<1>7. r \in Seq(DriveSets) /\ Len(r) = n
  <2>1. r \in [1..n -> DriveSets]
    BY <1>5, <1>6
  <2> QED BY <1>2, <2>1
<1>8. \A i, j \in 1..n : r[i].id = r[j].id => i = j
  <2>1. \A i, j \in 1..n : p[i] = p[j] => i = j
    BY <1>4 DEF Orders
  <2>2. \A i, j \in 1..n : u[p[i]].id = u[p[j]].id => p[i] = p[j]
    BY <1>2, <1>6
  <2> QED BY <1>6, <2>1, <2>2
<1>9. \A e : HasSet(u, e) => HasSet(r, e)
  <2> SUFFICES ASSUME NEW e, HasSet(u, e) PROVE HasSet(r, e)
    OBVIOUS
  <2>1. PICK j \in 1..n : u[j].id = e.id /\ ToSet(e.disks) \subseteq ToSet(u[j].disks)
    BY <1>1 DEF HasSet
  <2>2. PICK i \in 1..n : p[i] = j
    BY <1>4 DEF Orders
  <2>3. r[i] = u[j]
    BY <1>6, <2>2
  <2> QED BY <1>7, <2>1, <2>3 DEF HasSet
<1>10. ASSUME NEW i \in 1..n, NEW j \in 1..n, i < j PROVE r[i].id < r[j].id
  <2>1. PICK x, y : x = p[i] /\ y = p[j]
    OBVIOUS
  <2>2. key[x] <= key[y] /\ x \in 1..n /\ y \in 1..n
    BY <1>4, <1>6, <1>10, <2>1 DEF Orders
  <2>3. key[x] = r[i].id /\ key[y] = r[j].id /\ key[x] \in Nat /\ key[y] \in Nat
    BY <1>3, <1>6, <2>1, <2>2
  <2>4. i # j
    BY <1>2, <1>10
  <2>5. r[i].id # r[j].id
    BY <1>8, <2>4
  <2> QED BY <2>2, <2>3, <2>5
<1> QED BY <1>1, <1>7, <1>8, <1>9, <1>10 DEF Once

\* Every set that a node in S reports is in the list a, with its drives.
SetsAre(a, S, s) ==
  /\ Once(a) /\ \A i, j \in 1..Len(a) : i < j => a[i].id < a[j].id
  /\ \A x \in S : \A k \in 1..Len(s[x].sets) : HasSet(a, s[x].sets[k])

LEMMA SetsNone == \A s : SetsAre(<<>>, {}, s)
BY DEF SetsAre, Once

LEMMA SetsGrow ==
  ASSUME NEW s, NEW S, NEW i, s[i].sets \in Seq(DriveSets), NEW a, SetsAre(a, S, s)
  PROVE  SetsAre(BySet(AddedTo(a, s[i].sets)), S \cup {i}, s)
<1>1. PICK q, v, r : q = s[i].sets /\ v = AddedTo(a, q) /\ r = BySet(v)
  OBVIOUS
<1>2. Once(a) /\ q \in Seq(DriveSets)
  BY <1>1 DEF SetsAre
<1>3. Added(v, a, q, Len(q))
  BY <1>1, <1>2, AddedToAre
<1>4. Once(v) /\ (\A e : HasSet(a, e) => HasSet(v, e)) /\ \A k \in 1..Len(q) : HasSet(v, q[k])
  BY <1>3 DEF Added
<1>5. /\ Once(r) /\ (\A e : HasSet(v, e) => HasSet(r, e))
      /\ \A x, y \in 1..Len(r) : x < y => r[x].id < r[y].id
  BY <1>1, <1>4, BySetIs
<1>6. ASSUME NEW x \in S \cup {i}, NEW k \in 1..Len(s[x].sets) PROVE HasSet(r, s[x].sets[k])
  <2>1. CASE x \in S
    <3>1. HasSet(a, s[x].sets[k])
      BY <1>6, <2>1 DEF SetsAre
    <3> QED BY <1>4, <1>5, <3>1
  <2>2. CASE x = i
    BY <1>1, <1>4, <1>5, <1>6, <2>2
  <2> QED BY <2>1, <2>2
<1> QED BY <1>1, <1>5, <1>6 DEF SetsAre

\* All that is listed in a report of kind k.
ListsAre(k, a, S, s) ==
  /\ k \in {"Hosts", "Scanner"} => NamesAre(a.names, S, s)
  /\ k = "Scanner" => PrefixesAre(a.prefixes, S, s)
  /\ k = "Healing" => SetsAre(a.sets, S, s)

HasLists(k, s) ==
  \A x \in Nodes :
    /\ k \in {"Hosts", "Scanner"} => s[x].names \in Seq(Nat)
    /\ k = "Scanner" => s[x].prefixes \in Seq(Nat)
    /\ k = "Healing" => s[x].sets \in Seq(DriveSets)

LEMMA ListsTyped ==
  ASSUME NEW k \in DOMAIN Given, NEW s, \A x \in Nodes : s[x] \in Given[k]
  PROVE  HasLists(k, s)
<1>1. \A x \in Nodes : Typed(k, s[x])
  BY ReportsAssumption
<1> SUFFICES ASSUME NEW x \in Nodes
    PROVE /\ k \in {"Hosts", "Scanner"} => s[x].names \in Seq(Nat)
          /\ k = "Scanner" => s[x].prefixes \in Seq(Nat)
          /\ k = "Healing" => s[x].sets \in Seq(DriveSets)
  BY DEF HasLists
<1>2. PICK r : r = s[x]
  OBVIOUS
<1>3. k \in {"Hosts", "Scanner"} => r.names \in Seq(Nat)
  BY <1>1, <1>2 DEF Typed
<1>4. k = "Scanner" => r.prefixes \in Seq(Nat)
  BY <1>1, <1>2 DEF Typed
<1>5. k = "Healing" => r.sets \in Seq(DriveSets)
  BY <1>1, <1>2 DEF Typed, DriveSets
<1> QED BY <1>2, <1>3, <1>4, <1>5

LEMMA ListsNone == \A s : ListsAre(kind, ZeroOf[kind], {}, s)
<1> SUFFICES ASSUME NEW s PROVE ListsAre(kind, ZeroOf[kind], {}, s)
  OBVIOUS
<1>1. kind \in {"Hosts", "Scanner"} => ZeroOf[kind].names = <<>>
  BY DEF ZeroOf
<1>2. kind = "Scanner" => ZeroOf[kind].prefixes = <<>>
  BY DEF ZeroOf
<1>3. kind = "Healing" => ZeroOf[kind].sets = <<>>
  BY DEF ZeroOf
<1>4. NamesAre(<<>>, {}, s) /\ PrefixesAre(<<>>, {}, s) /\ SetsAre(<<>>, {}, s)
  BY NamesNone, PrefixesNone, SetsNone
<1> QED BY <1>1, <1>2, <1>3, <1>4 DEF ListsAre

LEMMA ListsGrow ==
  ASSUME NEW s, HasLists(kind, s), NEW S, IsFiniteSet(S), S \subseteq Nodes,
         NEW i \in Nodes, i \notin S, NEW a, ListsAre(kind, a, S, s)
  PROVE  ListsAre(kind, Combined(a, s[i]), S \cup {i}, s)
<1>1. PICK m, b : m = Combined(a, s[i]) /\ b = s[i]
  OBVIOUS
<1>2. ASSUME kind \in {"Hosts", "Scanner"} PROVE NamesAre(m.names, S \cup {i}, s)
  <2>1. PICK w : w = a.names
    OBVIOUS
  <2>2. NamesAre(w, S, s) /\ \A x \in S \cup {i} : s[x].names \in Seq(Nat)
    BY <1>2, <2>1 DEF ListsAre, HasLists
  <2>3. NamesAre(SortedBoth(w, s[i].names), S \cup {i}, s)
    BY <2>2, NamesGrow
  <2>4. m.names = SortedBoth(w, b.names)
    <3>1. CASE kind = "Hosts"
      BY <1>1, <2>1, <3>1, CombinedIs DEF HostsMerge
    <3>2. CASE kind = "Scanner"
      <4>1. m = ScannerMerge(a, b)
        BY <1>1, <3>2, CombinedIs
      <4>2. m.names = SortedBoth(a.names, b.names)
        BY <4>1 DEF ScannerMerge
      <4> QED BY <2>1, <4>2
    <3> QED BY <1>2, <3>1, <3>2
  <2> QED BY <1>1, <2>3, <2>4
<1>3. ASSUME kind = "Scanner" PROVE PrefixesAre(m.prefixes, S \cup {i}, s)
  <2>1. PICK w, r : w = a.prefixes /\ r = m.prefixes
    OBVIOUS
  <2>2. PrefixesAre(w, S, s) /\ s[i].prefixes \in Seq(Nat)
    BY <1>3, <2>1 DEF ListsAre, HasLists
  <2>3. r = IF s[i].prefixes = <<>> THEN w ELSE Listed(ToSet(w) \union ToSet(s[i].prefixes))
    <3>1. m = ScannerMerge(a, b)
      BY <1>1, <1>3, CombinedIs
    <3>2. m.prefixes = IF b.prefixes = <<>> THEN a.prefixes
                       ELSE Listed(ToSet(a.prefixes) \union ToSet(b.prefixes))
      BY <3>1 DEF ScannerMerge
    <3> QED BY <1>1, <2>1, <3>2
  <2>4. PrefixesAre(r, S \cup {i}, s)
    BY <2>2, <2>3, PrefixesGrow
  <2> QED BY <2>1, <2>4
<1>4. ASSUME kind = "Healing" PROVE SetsAre(m.sets, S \cup {i}, s)
  <2>1. PICK w : w = a.sets
    OBVIOUS
  <2>2. SetsAre(w, S, s) /\ s[i].sets \in Seq(DriveSets)
    BY <1>4, <2>1 DEF ListsAre, HasLists
  <2>3. SetsAre(BySet(AddedTo(w, s[i].sets)), S \cup {i}, s)
    BY <2>2, SetsGrow
  <2>4. m = HealingMerge(a, b)
    BY <1>1, <1>4, CombinedIs
  <2>5. m.sets = BySet(FoldLeft(AddSet, a.sets, b.sets))
    BY <2>4 DEF HealingMerge
  <2>6. m.sets = BySet(AddedTo(w, b.sets))
    BY <2>1, <2>5 DEF AddedTo
  <2> QED BY <1>1, <2>3, <2>6
<1> QED BY <1>1, <1>2, <1>3, <1>4 DEF ListsAre

----------------------------------------------------------------------------
(* All of that, kind by kind.                                                 *)

WithParity(k, s) == k = "Healing" /\ \A i \in Nodes : s[i].parity # Nil

ReportIs(k, a, S, s) ==
  /\ DOMAIN a = DOMAIN ZeroOf[k]
  /\ CountIs(k, a, S, s)
  /\ k \in {"Handlers", "Net"} => ByIs(a.by, S, s)
  /\ k = "Runtime" => StateIs(a.hist, S, Col(s, "hist"))
  /\ k = "Days" => DaysAre(a.day, S, s)
  /\ ExtremesOf(k, a, S, s)
  /\ RangesAre(k, a, S, s)
  /\ k \in Naming => KeysAre(k, a.by, S, s)
  /\ k = "Jobs" => NewestJobs(a.by, S, s)
  /\ k = "Resync" => NewestResync(a, S, s)
  /\ k = "Connection" => NewestPing(a, S, s)
  /\ WithParity(k, s) => ParityIs(a.parity, S, s)
  /\ ListsAre(k, a, S, s)

LEMMA ReportNone ==
  ASSUME kind \in Kinds, NEW s
  PROVE  ReportIs(kind, ZeroOf[kind], {}, s)
<1>1. PICK k, a : k = kind /\ a = ZeroOf[kind]
  OBVIOUS
<1>2. CountIs(k, a, {}, s)
  BY <1>1, CountNone
<1>3. k \in {"Handlers", "Net"} => ByIs(a.by, {}, s)
  <2>1. k \in {"Handlers", "Net"} => DOMAIN a.by = {}
    BY <1>1 DEF ZeroOf, NoEntry
  <2> QED BY <2>1 DEF ByIs
<1>4. k = "Runtime" => StateIs(a.hist, {}, Col(s, "hist"))
  BY <1>1 DEF ZeroOf, StateIs, Having
<1>5. k = "Days" => DaysAre(a.day, {}, s)
  <2>1. k = "Days" => a.day = Nil
    BY <1>1 DEF ZeroOf
  <2>2. \A v : Lasting({}, v) = {}
    BY DEF Lasting
  <2> QED BY <2>1, <2>2 DEF DaysAre, DayIs
<1>6. ExtremesOf(k, a, {}, s)
  BY <1>1, ExtremesNone
<1>7. RangesAre(k, a, {}, s)
  BY <1>1, RangesNone
<1>8. k \in Naming => KeysAre(k, a.by, {}, s)
  <2>1. k \in Naming => DOMAIN a.by = {}
    BY <1>1 DEF ZeroOf, NoEntry, Naming
  <2> QED BY <2>1 DEF KeysAre
<1>9. NewestJobs(a.by, {}, s)
  BY DEF NewestJobs
<1>10. k = "Resync" => NewestResync(a, {}, s)
  <2>1. k = "Resync" => a.at = 0
    BY <1>1 DEF ZeroOf
  <2> QED BY <2>1 DEF NewestResync
<1>11. k = "Connection" => NewestPing(a, {}, s)
  <2>1. k = "Connection" => a.pong = 0
    BY <1>1 DEF ZeroOf
  <2> QED BY <2>1 DEF NewestPing
<1>12. WithParity(k, s) => ParityIs(a.parity, {}, s)
  <2>1. k = "Healing" => a.parity = Nil
    BY <1>1 DEF ZeroOf
  <2> QED BY <2>1 DEF WithParity, ParityIs
<1>13. ListsAre(k, a, {}, s)
  BY <1>1, ListsNone
<1> QED BY <1>1, <1>2, <1>3, <1>4, <1>5, <1>6, <1>7, <1>8, <1>9, <1>10, <1>11, <1>12, <1>13 DEF ReportIs

LEMMA ReportTimes ==
  ASSUME NEW k \in DOMAIN Given, NEW s, \A x \in Nodes : s[x] \in Given[k]
  PROVE  \A x \in Nodes :
           /\ k = "Resync" => s[x].at \in Nat
           /\ k = "Connection" => s[x].pong \in Nat
           /\ k = "Jobs" => \A j \in DOMAIN s[x].by : s[x].by[j].at \in Nat
<1>1. \A x \in Nodes : Typed(k, s[x])
  BY ReportsAssumption
<1> SUFFICES ASSUME NEW x \in Nodes
    PROVE /\ k = "Resync" => s[x].at \in Nat
          /\ k = "Connection" => s[x].pong \in Nat
          /\ k = "Jobs" => \A j \in DOMAIN s[x].by : s[x].by[j].at \in Nat
  OBVIOUS
<1>2. PICK r : r = s[x]
  OBVIOUS
<1>3. DOMAIN r = DOMAIN ZeroOf[k]
  BY <1>1, <1>2 DEF Typed
<1>4. \A f \in DOMAIN r : f \in {"nodes", "count", "least", "most", "at", "pong"} => r[f] \in Nat
  BY <1>1, <1>2 DEF Typed
<1>5. k = "Resync" => r.at \in Nat
  BY <1>3, <1>4, ZeroFields
<1>6. k = "Connection" => r.pong \in Nat
  BY <1>3, <1>4, ZeroFields
<1>7. k = "Jobs" => \A j \in DOMAIN r.by : r.by[j].at \in Nat
  BY <1>1, <1>2 DEF Typed
<1> QED BY <1>2, <1>5, <1>6, <1>7

LEMMA ReportGrows ==
  ASSUME kind \in DOMAIN Given, NEW s, \A x \in Nodes : s[x] \in Given[kind],
         NEW S, IsFiniteSet(S), S \subseteq Nodes, NEW i \in Nodes, i \notin S, NEW a, ReportIs(kind, a, S, s)
  PROVE  ReportIs(kind, Combined(a, s[i]), S \cup {i}, s)
<1>1. PICK k, m, b : k = kind /\ m = Combined(a, s[i]) /\ b = s[i]
  OBVIOUS
<1>2. k \in DOMAIN Given /\ \A x \in Nodes : s[x] \in Given[k]
  BY <1>1
<1>3. k \in Kinds /\ \A x \in Nodes :
        /\ DOMAIN s[x] = DOMAIN ZeroOf[k]
        /\ k \in Counting => s[x].count \in Nat
        /\ k = "Runtime" => s[x].hist \in Maybe(Nat)
        /\ k \in {"Handlers", "Net"} => \A h \in DOMAIN s[x].by : s[x].by[h].count \in Nat
  <2>1. k \in Kinds /\ \A x \in Nodes : DOMAIN s[x] = DOMAIN ZeroOf[k]
    BY <1>2, ReportsAssumption DEF Typed
  <2>2. \A x \in Nodes : k \in Counting => s[x].count \in Nat
    BY <1>2, ReportTypes
  <2>3. \A x \in Nodes : k = "Runtime" => s[x].hist \in Maybe(Nat)
    BY <1>2, ReportTypes
  <2>4. \A x \in Nodes : k \in {"Handlers", "Net"} => \A h \in DOMAIN s[x].by : s[x].by[h].count \in Nat
    BY <1>2, ReportTypes
  <2> QED BY <2>1, <2>2, <2>3, <2>4
<1>4. \A x \in Nodes :
        /\ k = "Resync" => s[x].at \in Nat
        /\ k = "Connection" => s[x].pong \in Nat
        /\ k = "Jobs" => \A j \in DOMAIN s[x].by : s[x].by[j].at \in Nat
  BY <1>2, ReportTimes
<1>5. S \cup {i} \subseteq Nodes
  OBVIOUS
<1>6. DOMAIN m = DOMAIN ZeroOf[k]
  <2>1. kind \in Kinds /\ DOMAIN a = DOMAIN ZeroOf[kind] /\ DOMAIN b = DOMAIN ZeroOf[kind]
    BY <1>1, <1>3 DEF ReportIs
  <2>2. DOMAIN Combined(a, b) = DOMAIN ZeroOf[kind]
    BY <2>1, CombinedFields
  <2> QED BY <1>1, <2>2
<1>7. CountIs(k, m, S \cup {i}, s)
  <2>1. CountIs(kind, a, S, s)
    BY DEF ReportIs
  <2>2. CountIs(kind, Combined(a, s[i]), S \cup {i}, s)
    BY <2>1, CountGrows
  <2> QED BY <1>1, <2>2
<1>8. k \in {"Handlers", "Net"} => ByIs(m.by, S \cup {i}, s)
  <2>1. SUFFICES ASSUME k \in {"Handlers", "Net"} PROVE ByIs(m.by, S \cup {i}, s)
    OBVIOUS
  <2>2. PICK f, h : f = a.by /\ h = m.by
    OBVIOUS
  <2>3. ByIs(f, S, s)
    BY <1>1, <2>1, <2>2 DEF ReportIs
  <2>4. \A x \in S \cup {i} : \A j \in DOMAIN s[x].by : s[x].by[j].count \in Nat
    BY <1>3, <1>5, <2>1
  <2>5. m = [by |-> HandlersMerge(f, b.by)] \/ m = [by |-> NetMerge(f, b.by)]
    BY <1>1, <2>1, <2>2, CombinedIs
  <2>6. h = HandlersMerge(f, s[i].by) \/ h = NetMerge(f, s[i].by)
    BY <1>1, <2>2, <2>5
  <2>7. ByIs(h, S \cup {i}, s)
    BY <2>3, <2>4, <2>6, ByGrows
  <2> QED BY <2>2, <2>7
<1>9. k = "Runtime" => StateIs(m.hist, S \cup {i}, Col(s, "hist"))
  <2>1. SUFFICES ASSUME k = "Runtime" PROVE StateIs(m.hist, S \cup {i}, Col(s, "hist"))
    OBVIOUS
  <2>2. PICK v, x : v = Col(s, "hist") /\ x = a.hist
    OBVIOUS
  <2>3. StateIs(x, S, v)
    BY <1>1, <2>1, <2>2 DEF ReportIs
  <2>4. \A y \in S \cup {i} : v[y] \in Maybe(Nat)
    BY <1>3, <1>5, <2>1, <2>2 DEF Col
  <2>5. StateIs(StateMerge(x, v[i]), S \cup {i}, v)
    BY <2>3, <2>4, StateGrows
  <2>6. m = RuntimeMerge(a, b)
    BY <1>1, <2>1, CombinedIs
  <2>7. v[i] = b.hist
    BY <1>1, <2>2 DEF Col
  <2>8. m.hist = StateMerge(x, v[i])
    BY <2>2, <2>6, <2>7 DEF RuntimeMerge, StateMerge
  <2> QED BY <2>2, <2>5, <2>8
<1>10. ExtremesOf(k, m, S \cup {i}, s)
  <2>1. ExtremesOf(kind, a, S, s)
    BY DEF ReportIs
  <2>2. ExtremesOf(kind, Combined(a, s[i]), S \cup {i}, s)
    BY <2>1, ExtremesGrow
  <2> QED BY <1>1, <2>2
<1>11. RangesAre(k, m, S \cup {i}, s)
  <2>1. RangesAre(kind, a, S, s)
    BY DEF ReportIs
  <2>2. RangesAre(kind, Combined(a, s[i]), S \cup {i}, s)
    BY <2>1, RangesGrow
  <2> QED BY <1>1, <2>2
<1>12. k = "Days" => DaysAre(m.day, S \cup {i}, s)
  <2>1. SUFFICES ASSUME kind = "Days", NEW p, Steady(p, Col(s, "day"))
        PROVE DayIs(m.day, p, S \cup {i}, Col(s, "day"))
    BY <1>1 DEF DaysAre
  <2>2. PICK v, d : v = Col(s, "day") /\ d = a.day
    OBVIOUS
  <2>3. DayIs(d, p, S, v) /\ Steady(p, v)
    BY <2>1, <2>2 DEF ReportIs, DaysAre
  <2>4. DayIs(DaysMerge(d, v[i]), p, S \cup {i}, v)
    BY <2>3, DaysGrow
  <2>5. m = [day |-> DaysMerge(a.day, b.day)] /\ v[i] = b.day
    BY <1>1, <2>1, <2>2, CombinedIs DEF Col
  <2>6. m.day = DaysMerge(d, v[i])
    BY <2>2, <2>5
  <2> QED BY <2>2, <2>4, <2>6
<1>14. k \in Naming => KeysAre(k, m.by, S \cup {i}, s)
  <2>1. SUFFICES ASSUME kind \in Naming PROVE KeysAre(k, m.by, S \cup {i}, s)
    BY <1>1
  <2>2. KeysAre(kind, a.by, S, s)
    BY <2>1 DEF ReportIs
  <2>3. KeysAre(kind, Combined(a, s[i]).by, S \cup {i}, s)
    BY <2>1, <2>2, KeysGrow
  <2> QED BY <1>1, <2>3
<1>15. k = "Jobs" => NewestJobs(m.by, S \cup {i}, s)
  <2>1. SUFFICES ASSUME kind = "Jobs" PROVE NewestJobs(Combined(a, s[i]).by, S \cup {i}, s)
    BY <1>1
  <2>2. NewestJobs(a.by, S, s) /\ KeysAre("Jobs", a.by, S, s)
    BY <2>1 DEF ReportIs, Naming
  <2>3. \A x \in S \cup {i} : \A j \in DOMAIN s[x].by : s[x].by[j].at \in Nat
    BY <1>1, <1>4, <1>5, <2>1
  <2> QED BY <2>1, <2>2, <2>3, NewestGrow
<1>16. k = "Resync" => NewestResync(m, S \cup {i}, s)
  <2>1. SUFFICES ASSUME kind = "Resync" PROVE NewestResync(Combined(a, s[i]), S \cup {i}, s)
    BY <1>1
  <2>2. NewestResync(a, S, s) /\ \A x \in S \cup {i} : s[x].at \in Nat
    BY <1>1, <1>4, <1>5, <2>1 DEF ReportIs
  <2> QED BY <2>1, <2>2, NewestGrow
<1>17. k = "Connection" => NewestPing(m, S \cup {i}, s)
  <2>1. SUFFICES ASSUME kind = "Connection" PROVE NewestPing(Combined(a, s[i]), S \cup {i}, s)
    BY <1>1
  <2>2. NewestPing(a, S, s) /\ \A x \in S \cup {i} : s[x].pong \in Nat
    BY <1>1, <1>4, <1>5, <2>1 DEF ReportIs
  <2> QED BY <2>1, <2>2, NewestGrow
<1>18. WithParity(k, s) => ParityIs(m.parity, S \cup {i}, s)
  <2>1. SUFFICES ASSUME WithParity(kind, s) PROVE ParityIs(Combined(a, s[i]).parity, S \cup {i}, s)
    BY <1>1
  <2>2. kind = "Healing" /\ ParityIs(a.parity, S, s) /\ \A x \in S \cup {i} : s[x].parity # Nil
    BY <1>5, <2>1 DEF ReportIs, WithParity
  <2> QED BY <2>2, NewestGrow
<1>19. ListsAre(k, m, S \cup {i}, s)
  <2>1. HasLists(kind, s)
    BY ListsTyped
  <2>2. ListsAre(kind, a, S, s)
    BY DEF ReportIs
  <2>3. ListsAre(kind, Combined(a, s[i]), S \cup {i}, s)
    BY <2>1, <2>2, ListsGrow
  <2> QED BY <1>1, <2>3
<1>20. ReportIs(k, m, S \cup {i}, s)
  BY <1>6, <1>7, <1>8, <1>9, <1>10, <1>11, <1>12, <1>14, <1>15, <1>16, <1>17, <1>18, <1>19 DEF ReportIs
<1> QED BY <1>1, <1>20

----------------------------------------------------------------------------
(* The merge of the other reports.  The one histogram that is shared is that  *)
(* of a report merged before.                                                 *)

ReportsInv ==
  /\ kind \in DOMAIN Given /\ sent \in [Nodes -> Given[kind]] /\ todo \subseteq Nodes
  /\ shares \in [{"hist"} -> Nodes \cup {Nil}] /\ shares["hist"] \notin todo
  /\ \A j \in todo : reports[j] = sent[j]
  /\ ReportIs(kind, acc, Done, sent)

LEMMA ReportsStart == ReportsInit => ReportsInv
<1> SUFFICES ASSUME ReportsInit PROVE ReportsInv
  OBVIOUS
<1>1. Done = {} /\ kind \in Kinds
  BY ReportsAssumption DEF ReportsInit, Done
<1>2. ReportIs(kind, acc, Done, sent)
  BY <1>1, ReportNone DEF ReportsInit
<1>3. shares \in [{"hist"} -> Nodes \cup {Nil}] /\ shares["hist"] = Nil /\ Nil \notin Nodes
  BY MergeAssumption DEF ReportsInit
<1> QED BY <1>2, <1>3 DEF ReportsInit, ReportsInv

LEMMA ReportStep ==
  ASSUME ReportsInv, NEW i \in Nodes, MergeReport(i)
  PROVE  ReportsInv'
<1>1. i \in todo /\ todo' = todo \ {i} /\ kind' = kind /\ sent' = sent /\ acc' = Combined(acc, reports[i])
  BY DEF MergeReport
<1>2. /\ kind \in DOMAIN Given /\ sent \in [Nodes -> Given[kind]] /\ todo \subseteq Nodes
      /\ \A j \in todo : reports[j] = sent[j]
  BY DEF ReportsInv
<1>3. Done' = Done \cup {i} /\ i \notin Done /\ Done \subseteq Nodes
  BY <1>1, <1>2 DEF Done
<1>4. IsFiniteSet(Done)
  BY <1>3, MergeAssumption, FS_Subset
<1>5. ReportIs(kind', acc', Done', sent')
  <2>1. PICK S, s, a : S = Done /\ s = sent /\ a = acc
    OBVIOUS
  <2>2. (\A x \in Nodes : s[x] \in Given[kind]) /\ IsFiniteSet(S) /\ S \subseteq Nodes /\ i \notin S /\ ReportIs(kind, a, S, s)
    BY <1>2, <1>3, <1>4, <2>1 DEF ReportsInv
  <2>3. ReportIs(kind, Combined(a, s[i]), S \cup {i}, s)
    BY <1>2, <2>2, ReportGrows
  <2>4. reports[i] = s[i]
    BY <1>1, <1>2, <2>1
  <2> QED BY <1>1, <1>3, <2>1, <2>3, <2>4
<1>6. shares' = [f \in {"hist"} |-> IF kind = "Runtime" THEN SharedHist(i) ELSE Nil]
  BY DEF MergeReport
<1>7. Nil \notin Nodes /\ shares["hist"] \in Nodes \cup {Nil} /\ shares["hist"] \notin todo
  BY MergeAssumption DEF ReportsInv
<1>8. SharedHist(i) \in Nodes \cup {Nil} /\ SharedHist(i) \notin todo'
  BY <1>1, <1>7 DEF SharedHist
<1>11. shares' \in [{"hist"} -> Nodes \cup {Nil}] /\ shares'["hist"] \notin todo'
  BY <1>1, <1>2, <1>6, <1>7, <1>8
<1>12. \A j \in Nodes : sent[j] = [f \in DOMAIN sent[j] |-> sent[j][f]]
  BY <1>2, ReportsAssumption DEF Typed
<1>13. ASSUME NEW j \in Nodes, reports[j] = sent[j], shares'["hist"] # j PROVE reports'[j] = sent[j]
  <2>1. reports'[j] = [f \in DOMAIN reports[j] |->
                         IF f = "hist" /\ shares'[f] = j THEN acc'[f] ELSE reports[j][f]]
    BY DEF MergeReport
  <2>2. \A f \in {"hist"} : shares'[f] # j
    BY <1>13
  <2>3. reports'[j] = [f \in DOMAIN sent[j] |-> sent[j][f]]
    BY <1>13, <2>1, <2>2
  <2> QED BY <1>12, <2>3
<1>14. \A j \in todo' : reports'[j] = sent'[j]
  BY <1>1, <1>2, <1>11, <1>13
<1> QED BY <1>1, <1>2, <1>5, <1>11, <1>14 DEF ReportsInv

LEMMA ReportsStep == ReportsInv /\ [ReportsNext]_vars => ReportsInv'
<1> SUFFICES ASSUME ReportsInv, [ReportsNext]_vars PROVE ReportsInv'
  OBVIOUS
<1>1. ASSUME NEW i \in Nodes, MergeReport(i) PROVE ReportsInv'
  BY <1>1, ReportStep
<1>2. CASE UNCHANGED vars
  BY <1>2 DEF vars, ReportsInv, Done
<1> QED BY <1>1, <1>2 DEF ReportsNext

LEMMA ReportsAlways == ReportsSpec => []ReportsInv
BY ReportsStart, ReportsStep, PTL DEF ReportsSpec

----------------------------------------------------------------------------
(* What the properties say, when all are merged.                              *)

LEMMA ReportsDone ==
  ASSUME ReportsInv, todo = {}
  PROVE  /\ ReportIs(kind, acc, Nodes, sent) /\ IsFiniteSet(Nodes) /\ Nodes # {}
         /\ kind \in DOMAIN Given /\ \A x \in Nodes : sent[x] \in Given[kind]
<1>1. Done = Nodes
  BY DEF Done
<1> QED BY <1>1, MergeAssumption DEF ReportsInv

LEMMA ReportsExtremes == ReportsInv => ExtremesOfReports
<1> DEFINE known == {i \in Nodes : sent[i].least > 0}
<1> SUFFICES ASSUME ReportsInv, todo = {}
    PROVE /\ kind = "API" /\ Busy # {} =>
               /\ acc.least = Lowest({sent[i].least : i \in Busy})
               /\ acc.most = Highest({sent[i].most : i \in Busy})
          /\ kind = "Sensor" =>
               /\ acc.least \in Sent("least") /\ acc.most \in Sent("most")
               /\ \A i \in Busy : acc.least <= sent[i].least /\ sent[i].most <= acc.most
          /\ kind = "CPU" =>
               /\ acc.most = Highest(Sent("most"))
               /\ acc.least \in {0} \cup {sent[i].least : i \in known}
               /\ known \subseteq Busy => \A i \in known : acc.least <= sent[i].least
               /\ known = Busy /\ Busy # {} => acc.least > 0
  BY DEF ExtremesOfReports, Ready
<1>1. /\ ReportIs(kind, acc, Nodes, sent) /\ Nodes # {}
      /\ kind \in DOMAIN Given /\ \A x \in Nodes : sent[x] \in Given[kind]
  BY ReportsDone
<1>2. PICK B, s, lo, hi : B = Busy /\ s = sent /\ lo = Col(s, "least") /\ hi = Col(s, "most")
  OBVIOUS
<1>3. B = Requested(Nodes, s) /\ B \subseteq Nodes
  BY <1>2 DEF Busy, Requested
<1>4. kind \in {"API", "Sensor", "CPU"} => \A x \in Nodes : s[x].least \in Nat /\ s[x].most \in Nat
  <2>1. PICK k : k = kind
    OBVIOUS
  <2>2. k \in DOMAIN Given /\ \A x \in Nodes : s[x] \in Given[k]
    BY <1>1, <1>2, <2>1
  <2> QED BY <2>1, <2>2, ReportTypes
<1>5. \A x \in Nodes : lo[x] = s[x].least /\ hi[x] = s[x].most
  BY <1>2 DEF Col
<1>6. ExtremesOf(kind, acc, Nodes, s)
  BY <1>1, <1>2 DEF ReportIs
<1>7. ASSUME kind = "API", Busy # {}
      PROVE  /\ acc.least = Lowest({sent[i].least : i \in Busy})
             /\ acc.most = Highest({sent[i].most : i \in Busy})
  <2>1. IsLeast(acc.least, B, lo) /\ IsGreatest(acc.most, B, hi)
    BY <1>2, <1>3, <1>6, <1>7 DEF ExtremesOf, ExtremesAre
  <2>2. PICK T, U, m, o : /\ T = {sent[i].least : i \in Busy} /\ m = acc.least
                          /\ U = {sent[i].most : i \in Busy} /\ o = acc.most
    OBVIOUS
  <2>3. T = {lo[x] : x \in B} /\ U = {hi[x] : x \in B}
    <3>1. \A x \in B : lo[x] = sent[x].least /\ hi[x] = sent[x].most
      BY <1>2, <1>3, <1>5
    <3>2. T = {sent[i].least : i \in B} /\ U = {sent[i].most : i \in B}
      BY <1>2, <2>2
    <3>3. T = {lo[x] : x \in B}
      BY <3>1, <3>2
    <3>4. U = {hi[x] : x \in B}
      BY <3>1, <3>2
    <3> QED BY <3>3, <3>4
  <2>4. (\A x \in B : lo[x] \in Nat /\ hi[x] \in Nat) /\ IsLeast(m, B, lo) /\ IsGreatest(o, B, hi)
    BY <1>3, <1>4, <1>5, <1>7, <2>1, <2>2
  <2>5. m = Lowest(T)
    BY <2>3, <2>4, LowestIs
  <2>6. o = Highest(U)
    BY <2>3, <2>4, HighestIs
  <2> QED BY <2>2, <2>5, <2>6
<1>8. ASSUME kind = "Sensor"
      PROVE  /\ acc.least \in Sent("least") /\ acc.most \in Sent("most")
             /\ \A i \in Busy : acc.least <= sent[i].least /\ sent[i].most <= acc.most
  <2>1. /\ (\E x \in Nodes : acc.least = s[x].least) /\ (\E x \in Nodes : acc.most = s[x].most)
        /\ \A x \in B : acc.least <= s[x].least /\ s[x].most <= acc.most
    BY <1>1, <1>3, <1>6, <1>8 DEF ExtremesOf, SensorIs
  <2>2. acc.least \in Sent("least") /\ acc.most \in Sent("most")
    BY <1>2, <2>1 DEF Sent
  <2> QED BY <1>2, <2>1, <2>2
<1>9. ASSUME kind = "CPU"
      PROVE  /\ acc.most = Highest(Sent("most"))
             /\ acc.least \in {0} \cup {sent[i].least : i \in known}
             /\ known \subseteq Busy => \A i \in known : acc.least <= sent[i].least
             /\ known = Busy /\ Busy # {} => acc.least > 0
  <2>1. PICK K : K = known
    OBVIOUS
  <2>2. K = Known(Nodes, s)
    BY <1>2, <2>1 DEF Known
  <2>3. /\ IsGreatest(acc.most, Nodes, hi)
        /\ acc.least = 0 \/ \E x \in K : acc.least = s[x].least
        /\ K \subseteq B => \A x \in K : acc.least <= s[x].least
        /\ K = B => B = {} \/ acc.least > 0
    BY <1>1, <1>2, <1>3, <1>6, <1>9, <2>2 DEF ExtremesOf, CPUIs
  <2>4. acc.most = Highest(Sent("most"))
    <3>1. PICK U, o : U = Sent("most") /\ o = acc.most
      OBVIOUS
    <3>2. U = {hi[x] : x \in Nodes}
      <4>1. \A x \in Nodes : hi[x] = sent[x]["most"]
        BY <1>2, <1>5
      <4> QED BY <3>1, <4>1 DEF Sent
    <3>3. (\A x \in Nodes : hi[x] \in Nat) /\ IsGreatest(o, Nodes, hi)
      BY <1>4, <1>5, <1>9, <2>3, <3>1
    <3>4. o = Highest(U)
      BY <3>2, <3>3, HighestIs
    <3> QED BY <3>1, <3>4
  <2>5. acc.least \in {0} \cup {sent[i].least : i \in K}
    BY <1>2, <2>3
  <2> QED BY <1>2, <2>1, <2>3, <2>4, <2>5
<1> QED BY <1>7, <1>8, <1>9

LEMMA ReportsRange == ReportsInv => RangeIfAllAgree
<1> SUFFICES ASSUME ReportsInv, todo = {}
    PROVE /\ kind \in Ranging =>
               /\ acc.from # Nil =>
                    /\ acc.from \in {sent[i].from : i \in Heard}
                    /\ \A i \in Busy \cap Heard : sent[i].from \in {acc.from, Nil}
               /\ \A p \in {sent[i].from : i \in Busy \cap Heard} :
                    (\A i \in Busy \cap Heard : sent[i].from = p) /\ (\A i \in Heard : sent[i].from \in {p, Nil})
                    => acc.from = p
          /\ kind = "Memory" =>
               /\ acc.addr # Nil => \A i \in Busy : sent[i].addr = acc.addr
               /\ Common("addr") # Nil => acc.addr = Common("addr")
  BY DEF RangeIfAllAgree, Ready, Ranging
<1>1. ReportIs(kind, acc, Nodes, sent) /\ Nodes # {}
  BY ReportsDone
<1>2. RangesAre(kind, acc, Nodes, sent)
  BY <1>1 DEF ReportIs
<1>3. Busy = Requested(Nodes, sent) /\ Heard = Speaking(kind, Nodes, sent) /\ Busy \cap Heard = Asked(kind, Nodes, sent)
  BY DEF Busy, Heard, Requested, Speaking, Asked
<1>4. ASSUME kind \in Ranging
      PROVE  /\ acc.from # Nil =>
                  /\ acc.from \in {sent[i].from : i \in Heard}
                  /\ \A i \in Busy \cap Heard : sent[i].from \in {acc.from, Nil}
             /\ \A p \in {sent[i].from : i \in Busy \cap Heard} :
                  (\A i \in Busy \cap Heard : sent[i].from = p) /\ (\A i \in Heard : sent[i].from \in {p, Nil})
                  => acc.from = p
  <2>1. PICK v, x, T, B : v = Col(sent, "from") /\ x = acc.from /\ T = Heard /\ B = Busy \cap Heard
    OBVIOUS
  <2>2. \A y \in T : v[y] = sent[y].from
    BY <2>1 DEF Col, Heard
  <2>3. B \subseteq T
    BY <2>1
  <2>4. RangeIs(x, acc.count, T, B, v)
    BY <1>2, <1>3, <1>4, <2>1 DEF RangesAre
  <2>5. /\ x # Nil => (\E y \in T : v[y] = x) /\ \A y \in B : v[y] \in {x, Nil}
        /\ \A p : (\A y \in B : v[y] = p) /\ (\A y \in T : v[y] \in {p, Nil}) => x = p \/ (B = {} /\ x = Nil)
    BY <2>4 DEF RangeIs
  <2>6. x # Nil => x \in {sent[i].from : i \in T} /\ \A i \in B : sent[i].from \in {x, Nil}
    BY <2>2, <2>3, <2>5
  <2>7. ASSUME NEW p, \A i \in B : sent[i].from = p, \A i \in T : sent[i].from \in {p, Nil}, B # {}
        PROVE x = p
    BY <2>2, <2>3, <2>5, <2>7
  <2> QED BY <2>1, <2>6, <2>7
<1>5. ASSUME kind = "Memory"
      PROVE  /\ acc.addr # Nil => \A i \in Busy : sent[i].addr = acc.addr
             /\ Common("addr") # Nil => acc.addr = Common("addr")
  <2>1. PICK v, x, B : v = Col(sent, "addr") /\ x = acc.addr /\ B = Busy
    OBVIOUS
  <2>2. (\A y \in Nodes : v[y] = sent[y].addr) /\ B \subseteq Nodes
    BY <2>1 DEF Col, Busy
  <2>3. AddrIs(x, acc.count, Nodes, B, v)
    BY <1>2, <1>3, <1>5, <2>1 DEF RangesAre
  <2>4. /\ x # Nil => \A y \in B : v[y] = x
        /\ \A p : (\A y \in Nodes : v[y] = p) => x = p
    BY <1>1, <2>3 DEF AddrIs
  <2>5. Common("addr") # Nil => \A y \in Nodes : sent[y]["addr"] = Common("addr")
    BY CommonOfAll
  <2>6. Common("addr") # Nil => x = Common("addr")
    BY <2>2, <2>4, <2>5
  <2> QED BY <2>1, <2>2, <2>4, <2>6
<1> QED BY <1>4, <1>5

LEMMA ReportsDays == ReportsInv => LastDayKept
<1>1. ReportsInv => kind # "Disk"
  BY ReportsAssumption DEF ReportsInv, Kinds
<1>2. CASE todo # {} \/ kind # "Days"
  BY <1>1, <1>2 DEF LastDayKept
<1>3. CASE ReportsInv /\ todo = {} /\ kind = "Days"
  <2>1. /\ ReportIs(kind, acc, Nodes, sent)
        /\ kind \in DOMAIN Given /\ \A x \in Nodes : sent[x] \in Given[kind]
    BY <1>3, ReportsDone
  <2>2. \A x \in Nodes : sent[x].day \in Maybe(Series)
    <3>1. PICK k, s : k = kind /\ s = sent
      OBVIOUS
    <3>2. k \in DOMAIN Given /\ \A x \in Nodes : s[x] \in Given[k]
      BY <2>1, <3>1
    <3>3. \A x \in Nodes : k = "Days" => s[x].day \in Maybe(Series)
      BY <3>2, ReportTypes
    <3> QED BY <1>3, <3>1, <3>3
  <2>3. DaysAre(acc.day, Nodes, sent)
    BY <1>3, <2>1 DEF ReportIs
  <2> QED BY <2>2, <2>3, DaysKept
<1> QED BY <1>2, <1>3

LEMMA HandlersCount ==
  ASSUME ReportsInv, todo = {}, kind \in {"Handlers", "Net"}, NEW k \in UNION {DOMAIN m : m \in Sent("by")}
  PROVE  /\ k \in DOMAIN acc.by
         /\ acc.by[k].count =
              SumFunction([i \in {j \in Nodes : k \in DOMAIN sent[j].by} |-> sent[i].by[k].count])
<1>1. /\ ReportIs(kind, acc, Nodes, sent) /\ IsFiniteSet(Nodes)
      /\ kind \in DOMAIN Given /\ \A x \in Nodes : sent[x] \in Given[kind]
  BY ReportsDone
<1>2. PICK s, S, v, w : /\ s = sent /\ S = {j \in Nodes : k \in DOMAIN sent[j].by} /\ v = CountsOf(k, s)
                        /\ w = [i \in S |-> sent[i].by[k].count]
  OBVIOUS
<1>3. PICK a : a = acc.by
  OBVIOUS
<1>4. ByIs(a, Nodes, s)
  BY <1>1, <1>2, <1>3 DEF ReportIs
<1>5. k \in DOMAIN a
  BY <1>2, <1>4 DEF ByIs, Sent
<1>6. S = With(k, Nodes, s) /\ S \subseteq Nodes
  BY <1>2 DEF With
<1>7. a[k].count = SumFunctionOnSet(v, S)
  BY <1>2, <1>4, <1>5, <1>6 DEF ByIs
<1>8. \A x \in S : v[x] = s[x].by[k].count
  BY <1>2 DEF CountsOf
<1>9. \A x \in S : v[x] \in Nat
  <2>1. PICK h : h = kind
    OBVIOUS
  <2>2. h \in DOMAIN Given /\ \A x \in Nodes : s[x] \in Given[h]
    BY <1>1, <1>2, <2>1
  <2>3. \A x \in Nodes : \A j \in DOMAIN s[x].by : s[x].by[j].count \in Nat
    BY <2>1, <2>2, ReportTypes
  <2>4. \A x \in S : x \in Nodes /\ k \in DOMAIN s[x].by
    BY <1>2
  <2> QED BY <1>8, <2>3, <2>4
<1>10. w = [x \in S |-> v[x]]
  <2>1. \A x \in S : v[x] = sent[x].by[k].count
    BY <1>2, <1>8
  <2> QED BY <1>2, <2>1
<1>11. IsFiniteSet(S)
  BY <1>1, <1>6, FS_Subset
<1>12. SumFunction(w) = SumFunctionOnSet(v, S)
  BY <1>9, <1>10, <1>11, SumOverIs
<1>13. acc.by[k].count = SumFunction(w)
  BY <1>3, <1>7, <1>12
<1> QED BY <1>2, <1>3, <1>5, <1>13

LEMMA WholeCount ==
  ASSUME ReportsInv, todo = {}, "count" \in DOMAIN acc
  PROVE  acc.count =
           SumFunction([i \in {j \in Nodes : kind = "Replication" => sent[j].nodes > 0} |-> sent[i].count])
<1>1. /\ ReportIs(kind, acc, Nodes, sent) /\ IsFiniteSet(Nodes)
      /\ kind \in DOMAIN Given /\ \A x \in Nodes : sent[x] \in Given[kind]
  BY ReportsDone
<1>2. kind \in Counting
  <2>1. kind \in Kinds /\ DOMAIN acc = DOMAIN ZeroOf[kind]
    BY <1>1, ReportsAssumption DEF ReportIs
  <2> QED BY <2>1, CountedKinds
<1>3. PICK s, S, v, w : /\ s = sent /\ S = {j \in Nodes : kind = "Replication" => sent[j].nodes > 0}
                        /\ v = Col(s, "count") /\ w = [i \in S |-> sent[i].count]
  OBVIOUS
<1>4. S = Speaking(kind, Nodes, s) /\ S \subseteq Nodes
  BY <1>3 DEF Speaking
<1>5. acc.count = SumFunctionOnSet(v, S)
  BY <1>1, <1>2, <1>3, <1>4 DEF ReportIs, CountIs
<1>6. \A x \in Nodes : v[x] = s[x].count
  BY <1>3 DEF Col
<1>7. \A x \in S : v[x] \in Nat
  <2>1. PICK h : h = kind
    OBVIOUS
  <2>2. h \in DOMAIN Given /\ \A x \in Nodes : s[x] \in Given[h]
    BY <1>1, <1>3, <2>1
  <2>3. \A x \in Nodes : s[x].count \in Nat
    BY <1>2, <2>1, <2>2, ReportTypes
  <2> QED BY <1>4, <1>6, <2>3
<1>8. w = [x \in S |-> v[x]]
  <2>1. \A x \in S : v[x] = sent[x].count
    BY <1>3, <1>4, <1>6
  <2> QED BY <1>3, <2>1
<1>9. IsFiniteSet(S)
  BY <1>1, <1>4, FS_Subset
<1>10. SumFunction(w) = SumFunctionOnSet(v, S)
  BY <1>7, <1>8, <1>9, SumOverIs
<1> QED BY <1>3, <1>5, <1>10

LEMMA HistogramCount ==
  ASSUME ReportsInv, todo = {}, kind = "Runtime", acc.hist # Nil
  PROVE  acc.hist = SumFunction([i \in Of("hist") |-> sent[i].hist])
<1>1. /\ ReportIs(kind, acc, Nodes, sent) /\ IsFiniteSet(Nodes)
      /\ kind \in DOMAIN Given /\ \A x \in Nodes : sent[x] \in Given[kind]
  BY ReportsDone
<1>2. PICK s, S, v, w : /\ s = sent /\ S = Of("hist")
                        /\ v = Col(s, "hist") /\ w = [i \in S |-> sent[i].hist]
  OBVIOUS
<1>3. \A x \in Nodes : v[x] = s[x].hist
  BY <1>2 DEF Col
<1>4. S = Having(Nodes, v) /\ S \subseteq Nodes
  BY <1>2, <1>3 DEF Of, Having
<1>5. acc.hist = SumFunctionOnSet(v, S)
  BY <1>1, <1>2, <1>4 DEF ReportIs, StateIs
<1>6. \A x \in S : v[x] \in Nat
  <2>1. PICK h : h = kind
    OBVIOUS
  <2>2. h \in DOMAIN Given /\ \A x \in Nodes : s[x] \in Given[h]
    BY <1>1, <1>2, <2>1
  <2>3. \A x \in Nodes : s[x].hist \in Maybe(Nat)
    BY <2>1, <2>2, ReportTypes
  <2> QED BY <1>3, <1>4, <2>3 DEF Maybe, Having
<1>7. w = [x \in S |-> v[x]]
  <2>1. \A x \in S : v[x] = sent[x].hist
    BY <1>2, <1>3, <1>4
  <2> QED BY <1>2, <2>1
<1>8. IsFiniteSet(S)
  BY <1>1, <1>4, FS_Subset
<1>9. SumFunction(w) = SumFunctionOnSet(v, S)
  BY <1>6, <1>7, <1>8, SumOverIs
<1> QED BY <1>2, <1>5, <1>9

LEMMA ReportsCounts == ReportsInv => CountsAddUp
BY HandlersCount, WholeCount, HistogramCount DEF CountsAddUp, Ready

LEMMA ReportsNewest == ReportsInv => LatestWins
<1> SUFFICES ASSUME ReportsInv, todo = {}
    PROVE /\ kind = "Jobs" => \A i \in Nodes : \A j \in DOMAIN sent[i].by :
               j \in DOMAIN acc.by /\ acc.by[j].at >= sent[i].by[j].at
          /\ kind = "Resync" => \A i \in Nodes : acc.at >= sent[i].at
          /\ kind = "Connection" /\ acc.pong > 0 =>
               \E i \in Nodes : sent[i].pong = Highest(Sent("pong")) /\ acc.ping = sent[i].ping
  BY DEF LatestWins, Ready
<1>1. /\ ReportIs(kind, acc, Nodes, sent)
      /\ kind \in DOMAIN Given /\ \A x \in Nodes : sent[x] \in Given[kind]
  BY ReportsDone
<1>2. ASSUME kind = "Jobs", NEW i \in Nodes, NEW j \in DOMAIN sent[i].by
      PROVE  j \in DOMAIN acc.by /\ acc.by[j].at >= sent[i].by[j].at
  BY <1>1, <1>2 DEF ReportIs, NewestJobs
<1>3. ASSUME kind = "Resync" PROVE \A i \in Nodes : acc.at >= sent[i].at
  BY <1>1, <1>3 DEF ReportIs, NewestResync
<1>4. ASSUME kind = "Connection", acc.pong > 0
      PROVE  \E i \in Nodes : sent[i].pong = Highest(Sent("pong")) /\ acc.ping = sent[i].ping
  <2>1. PICK s, v, T, m : s = sent /\ v = Col(s, "pong") /\ T = Sent("pong") /\ m = acc.pong
    OBVIOUS
  <2>2. NewestPing(acc, Nodes, s)
    BY <1>1, <1>4, <2>1 DEF ReportIs
  <2>3. PICK i \in Nodes : m = s[i].pong /\ acc.ping = s[i].ping
    BY <1>4, <2>1, <2>2 DEF NewestPing
  <2>4. \A x \in Nodes : v[x] = s[x].pong /\ m >= s[x].pong
    BY <2>1, <2>2 DEF Col, NewestPing
  <2>5. \A x \in Nodes : v[x] \in Nat
    <3>1. PICK h : h = kind
      OBVIOUS
    <3>2. h \in DOMAIN Given /\ \A x \in Nodes : s[x] \in Given[h]
      BY <1>1, <2>1, <3>1
    <3>3. \A x \in Nodes : s[x].pong \in Nat
      BY <1>4, <3>1, <3>2, ReportTimes
    <3> QED BY <2>4, <3>3
  <2>6. m \in Nat
    BY <2>1, <2>2 DEF NewestPing
  <2>7. IsGreatest(m, Nodes, v)
    BY <2>3, <2>4, <2>6 DEF IsGreatest
  <2>8. T = {v[x] : x \in Nodes}
    <3>1. \A x \in Nodes : v[x] = sent[x]["pong"]
      BY <2>1, <2>4
    <3> QED BY <2>1, <3>1 DEF Sent
  <2>9. m = Highest(T)
    BY <2>5, <2>7, <2>8, HighestIs
  <2> QED BY <2>1, <2>3, <2>9
<1> QED BY <1>2, <1>3, <1>4

LEMMA ReportsNamed == ReportsInv => KeyedReportsKept
<1> DEFINE has(k) == {i \in Nodes : k \in DOMAIN sent[i].by /\ (kind = "Scanner" => sent[i].by[k] # <<>>)}
<1> SUFFICES ASSUME ReportsInv, todo = {}, kind \in {"Jobs", "Scanner", "Hosts", "Healing"}
    PROVE /\ \A i \in Nodes : \A k \in DOMAIN sent[i].by : has(k) # {} => k \in DOMAIN acc.by
          /\ \A k \in DOMAIN acc.by : \E i \in has(k) : acc.by[k] = sent[i].by[k]
          /\ kind = "Healing" /\ Nil \notin Sent("parity") => acc.parity \in Sent("parity")
  BY DEF KeyedReportsKept
<1>1. ReportIs(kind, acc, Nodes, sent) /\ Nodes # {}
  BY ReportsDone
<1>2. KeysAre(kind, acc.by, Nodes, sent)
  BY <1>1 DEF ReportIs, Naming
<1>3. \A k, i : i \in has(k) <=> i \in Nodes /\ k \in Told(kind, sent[i].by)
  BY DEF Told
<1>4. ASSUME NEW k, has(k) # {} PROVE k \in DOMAIN acc.by
  BY <1>2, <1>3, <1>4 DEF KeysAre
<1>5. ASSUME NEW k \in DOMAIN acc.by PROVE \E i \in has(k) : acc.by[k] = sent[i].by[k]
  BY <1>2, <1>3 DEF KeysAre
<1>6. ASSUME kind = "Healing", Nil \notin Sent("parity") PROVE acc.parity \in Sent("parity")
  <2>1. WithParity(kind, sent)
    BY <1>6 DEF WithParity, Sent
  <2>2. ParityIs(acc.parity, Nodes, sent)
    BY <1>1, <2>1 DEF ReportIs
  <2> QED BY <1>1, <2>2 DEF ParityIs, Sent
<1> QED BY <1>4, <1>5, <1>6

LEMMA ReportLists ==
  ASSUME ReportsInv, todo = {}
  PROVE  ListsAre(kind, acc, Nodes, sent) /\ HasLists(kind, sent)
<1>1. /\ ReportIs(kind, acc, Nodes, sent)
      /\ kind \in DOMAIN Given /\ \A x \in Nodes : sent[x] \in Given[kind]
  BY ReportsDone
<1>2. ListsAre(kind, acc, Nodes, sent)
  BY <1>1 DEF ReportIs
<1>3. PICK k, s : k = kind /\ s = sent
  OBVIOUS
<1>4. HasLists(k, s)
  BY <1>1, <1>3, ListsTyped
<1> QED BY <1>2, <1>3, <1>4

LEMMA ReportsListed == ReportsInv => SortedListings
<1> DEFINE times(s, n) == Cardinality({j \in DOMAIN s : s[j] = n})
<1> SUFFICES ASSUME ReportsInv, todo = {}, kind \in {"Hosts", "Scanner"}
    PROVE /\ IsSorted(acc.names, <=)
          /\ \A n \in UNION {ToSet(s) : s \in Sent("names")} :
               times(acc.names, n) = SumFunction([i \in Nodes |-> times(sent[i].names, n)])
          /\ kind = "Scanner" =>
               /\ IsSorted(acc.prefixes, <)
               /\ ToSet(acc.prefixes) = UNION {ToSet(s) : s \in Sent("prefixes")}
  BY DEF SortedListings, Ready
<1>1. PICK s, a : s = sent /\ a = acc.names
  OBVIOUS
<1>2. NamesAre(a, Nodes, s) /\ \A x \in Nodes : s[x].names \in Seq(Nat)
  BY <1>1, ReportLists DEF ListsAre, HasLists
<1>3. IsSorted(a, <=)
  BY <1>2 DEF NamesAre, IsSorted
<1>4. ASSUME NEW n PROVE times(a, n) = SumFunction([i \in Nodes |-> times(s[i].names, n)])
  <2>1. PICK v, w : v = TimesOf(n, s) /\ w = [i \in Nodes |-> times(s[i].names, n)]
    OBVIOUS
  <2>2. \A x \in Nodes : v[x] = Times(s[x].names, n) /\ v[x] \in Nat
    BY <1>2, <2>1, TimesType DEF TimesOf
  <2>3. w = [x \in Nodes |-> v[x]]
    BY <2>1, <2>2 DEF Times
  <2>4. SumFunction(w) = SumFunctionOnSet(v, Nodes)
    BY <2>2, <2>3, MergeAssumption, SumOverIs
  <2>5. Times(a, n) = SumFunctionOnSet(v, Nodes)
    BY <1>2, <2>1 DEF NamesAre
  <2> QED BY <2>1, <2>4, <2>5 DEF Times
<1>5. ASSUME kind = "Scanner"
      PROVE  /\ IsSorted(acc.prefixes, <)
             /\ ToSet(acc.prefixes) = UNION {ToSet(q) : q \in Sent("prefixes")}
  <2>1. PICK p : p = acc.prefixes
    OBVIOUS
  <2>2. Increasing(p) /\ ToSet(p) = UNION {ToSet(sent[i].prefixes) : i \in Nodes}
    BY <1>5, <2>1, ReportLists DEF ListsAre, PrefixesAre
  <2>3. IsSorted(p, <)
    BY <2>2 DEF Increasing, IsSorted
  <2>4. ToSet(p) = UNION {ToSet(q) : q \in Sent("prefixes")}
    BY <2>2 DEF Sent
  <2> QED BY <2>1, <2>3, <2>4
<1> QED BY <1>1, <1>3, <1>4, <1>5

LEMMA ReportsDrives == ReportsInv => DrivesInTheirSets
<1> SUFFICES ASSUME ReportsInv, todo = {}, kind = "Healing" PROVE DrivesInTheirSets
  BY DEF DrivesInTheirSets, Ready
<1>1. PICK s, a : s = sent /\ a = acc.sets
  OBVIOUS
<1>2. SetsAre(a, Nodes, s) /\ \A x \in Nodes : s[x].sets \in Seq(DriveSets)
  BY <1>1, ReportLists DEF ListsAre, HasLists
<1>3. DOMAIN a = 1..Len(a) /\ \A x \in Nodes : DOMAIN s[x].sets = 1..Len(s[x].sets)
  BY <1>2 DEF SetsAre, Once
<1>4. \A i, j \in DOMAIN a : i < j => a[i].id < a[j].id
  BY <1>2, <1>3 DEF SetsAre
<1>5. \A x \in Nodes : \A k \in DOMAIN s[x].sets : \E i \in DOMAIN a :
        a[i].id = s[x].sets[k].id /\ ToSet(s[x].sets[k].disks) \subseteq ToSet(a[i].disks)
  <2>1. \A x \in Nodes : \A k \in 1..Len(s[x].sets) : HasSet(a, s[x].sets[k])
    BY <1>2 DEF SetsAre
  <2>2. \A d : HasSet(a, d) => \E i \in DOMAIN a : a[i].id = d.id /\ ToSet(d.disks) \subseteq ToSet(a[i].disks)
    BY <1>3 DEF HasSet
  <2>3. SUFFICES ASSUME NEW x \in Nodes, NEW k \in DOMAIN s[x].sets
        PROVE  \E i \in DOMAIN a : a[i].id = s[x].sets[k].id /\ ToSet(s[x].sets[k].disks) \subseteq ToSet(a[i].disks)
    OBVIOUS
  <2>4. HasSet(a, s[x].sets[k])
    BY <1>3, <2>1, <2>3
  <2> QED BY <2>2, <2>4
<1> QED BY <1>1, <1>4, <1>5 DEF DrivesInTheirSets

----------------------------------------------------------------------------
(* The total over the handlers of a report.  As a sum is, a fold is a CHOSEn  *)
(* function on the subsets of its indices; there is only one, and a sum with   *)
(* the range all agree on is such a one.                                      *)

FoldsUp(g, D, q) ==
  g = [s \in SUBSET D |-> IF s = {} THEN ZeroOf["RPC"] ELSE RPCMerge(g[s \ {Max(s)}], q[Max(s)])]

Folded(q) == FoldLeft(RPCMerge, ZeroOf["RPC"], q)

LEMMA FoldIs == \A q : Folded(q) = (CHOOSE g : FoldsUp(g, DOMAIN q, q))[DOMAIN q]
BY DEF Folded, FoldLeft, MapThenFoldSet, FoldsUp

\* The greatest of finitely many numbers.
LEMMA MaxIs ==
  ASSUME NEW n \in Nat, NEW s \in SUBSET (1..n), s # {}
  PROVE  Max(s) \in s
<1>1. PICK B : B = {m \in 0..n : \A x \in s : x <= m}
  OBVIOUS
<1>2. B \subseteq Nat /\ n \in B
  BY <1>1
<1>3. \E m \in B : \A k \in B : ~ (<<k, m>> \in OpToRel(<, Nat))
  BY <1>2, NatLessThanWellFounded, WFMin
<1>4. PICK m \in B : \A k \in B : ~ (k < m)
  BY <1>2, <1>3 DEF OpToRel
<1>5. m \in s
  <2>1. SUFFICES ASSUME m \notin s PROVE FALSE
    OBVIOUS
  <2>2. m # 0
    <3>1. PICK x : x \in s /\ x \in 1..n
      OBVIOUS
    <3> QED BY <1>1, <3>1
  <2>3. m \in 0..n /\ \A x \in s : x \in 1..n /\ x <= m /\ x # m
    BY <1>1, <2>1
  <2>4. m - 1 \in 0..n /\ \A x \in s : x <= m - 1
    BY <2>2, <2>3
  <2>5. m - 1 \in B
    BY <1>1, <2>4
  <2> QED BY <2>3, <1>4, <2>5
<1>6. \A y \in s : m >= y
  BY <1>1
<1> QED BY <1>5, <1>6 DEF Max

LEMMA FoldUnique ==
  ASSUME NEW n \in Nat, NEW q, NEW g, FoldsUp(g, 1..n, q), NEW h, FoldsUp(h, 1..n, q)
  PROVE  \A s \in SUBSET (1..n) : g[s] = h[s]
<1>1. PICK B, D : D = 1..n /\ B = {s \in SUBSET D : g[s] # h[s]}
  OBVIOUS
<1>2. IsFiniteSet(D)
  BY <1>1, FS_Interval
<1>3. CASE B = {}
  BY <1>1, <1>3
<1>4. CASE B # {}
  <2>1. B \subseteq SUBSET D
    BY <1>1
  <2>2. PICK s \in B : \A t \in B : t \subseteq s => t = s
    BY <1>2, <1>4, <2>1, LeastSet
  <2>3. s \in SUBSET D /\ g[s] # h[s]
    BY <1>1, <2>2
  <2>4. /\ g[s] = IF s = {} THEN ZeroOf["RPC"] ELSE RPCMerge(g[s \ {Max(s)}], q[Max(s)])
        /\ h[s] = IF s = {} THEN ZeroOf["RPC"] ELSE RPCMerge(h[s \ {Max(s)}], q[Max(s)])
    BY <1>1, <2>3 DEF FoldsUp
  <2>5. s # {}
    BY <2>3, <2>4
  <2>6. Max(s) \in s
    BY <1>1, <2>3, <2>5, MaxIs
  <2>7. s \ {Max(s)} \in SUBSET D /\ s \ {Max(s)} # s /\ s \ {Max(s)} \subseteq s
    BY <2>3, <2>6
  <2>8. g[s \ {Max(s)}] = h[s \ {Max(s)}]
    BY <1>1, <2>2, <2>7
  <2> QED BY <2>3, <2>4, <2>5, <2>8
<1> QED BY <1>3, <1>4

\* What all of S agree on: some value, if all have one, and else nothing.
OneRange(w, S, v) == IF S = {} THEN w = Nil ELSE IsCommon(w, S, v)
Agreed(S, v) == CHOOSE w : OneRange(w, S, v)

LEMMA AgreedFound ==
  ASSUME NEW S, NEW v
  PROVE  OneRange(Agreed(S, v), S, v) /\ \A w : OneRange(w, S, v) => w = Agreed(S, v)
<1>1. \E w : OneRange(w, S, v)
  BY DEF OneRange, IsCommon
<1>2. \A w, u : OneRange(w, S, v) /\ OneRange(u, S, v) => w = u
  BY DEF OneRange, IsCommon
<1> QED BY <1>1, <1>2 DEF Agreed

\* Handlers of which either all have a time range or none has.
Ranges(S, v) == (\A x \in S : v[x] = Nil) \/ (\A x \in S : v[x] # Nil)

LEMMA AgreedMore ==
  ASSUME NEW T, NEW v, Ranges(T, v), NEW S, S \subseteq T, NEW i \in T, NEW n \in Nat, n = 0 <=> S = {}
  PROVE  RangeMerge(Agreed(S, v), n, v[i]) = Agreed(S \cup {i}, v)
<1>1. PICK w : w = Agreed(S, v) /\ OneRange(w, S, v)
  BY AgreedFound
<1>2. OneRange(RangeMerge(w, n, v[i]), S \cup {i}, v)
  <2>1. S \cup {i} # {}
    OBVIOUS
  <2>2. CASE S = {}
    <3>1. w = Nil /\ n = 0 /\ S \cup {i} = {i}
      BY <1>1, <2>2 DEF OneRange
    <3>2. RangeMerge(w, n, v[i]) = v[i]
      BY <3>1 DEF RangeMerge
    <3> QED BY <2>1, <3>1, <3>2 DEF OneRange, IsCommon
  <2>3. CASE S # {} /\ \A x \in T : v[x] = Nil
    <3>1. w = Nil /\ v[i] = Nil /\ RangeMerge(w, n, v[i]) = Nil
      BY <1>1, <2>3 DEF OneRange, IsCommon, RangeMerge
    <3>2. \A x \in S \cup {i} : v[x] = Nil
      BY <2>3
    <3> QED BY <2>1, <3>1, <3>2 DEF OneRange, IsCommon
  <2>4. CASE S # {} /\ \A x \in T : v[x] # Nil
    <3>1. IsCommon(w, S, v) /\ n # 0
      BY <1>1, <2>4 DEF OneRange
    <3>2. RangeMerge(w, n, v[i]) = IF w = v[i] THEN w ELSE Nil
      BY <2>4, <3>1 DEF RangeMerge
    <3>3. IsCommon(IF w = v[i] THEN w ELSE Nil, S \cup {i}, v)
      BY <2>4, <3>1, CommonGrows
    <3> QED BY <2>1, <3>2, <3>3 DEF OneRange
  <2> QED BY <2>2, <2>3, <2>4 DEF Ranges
<1>3. \A u : OneRange(u, S \cup {i}, v) => u = Agreed(S \cup {i}, v)
  BY AgreedFound
<1> QED BY <1>1, <1>2, <1>3

\* The total over the handlers in S, of which n are the numbers of requests.
TotalOf(S, n, v) == [count |-> SumFunctionOnSet(n, S), from |-> Agreed(S, v)]

LEMMA TotalNone == \A n, v : TotalOf({}, n, v) = ZeroOf["RPC"]
<1>1. \A v : Agreed({}, v) = Nil
  BY AgreedFound DEF OneRange
<1> QED BY <1>1, SumOfNone DEF TotalOf, ZeroOf

LEMMA SumPositive ==
  ASSUME NEW S, IsFiniteSet(S), NEW n, \A x \in S : n[x] \in Nat \ {0}
  PROVE  SumFunctionOnSet(n, S) \in Nat /\ (SumFunctionOnSet(n, S) = 0 <=> S = {})
<1>1. CASE S = {}
  BY <1>1, SumOfNone
<1>2. CASE S # {}
  <2>1. PICK y \in S : TRUE
    BY <1>2
  <2>2. PICK T : T = S \ {y}
    OBVIOUS
  <2>3. IsFiniteSet(T) /\ y \notin T /\ S = T \cup {y} /\ \A x \in T \cup {y} : n[x] \in Nat
    BY <2>1, <2>2, FS_Subset
  <2>4. PICK p, q : p = SumFunctionOnSet(n, S) /\ q = SumFunctionOnSet(n, T)
    OBVIOUS
  <2>5. q \in Nat /\ p = q + n[y]
    BY <2>3, <2>4, SumGrows
  <2>6. n[y] \in Nat \ {0}
    BY <2>1
  <2>7. p \in Nat /\ p # 0
    BY <2>5, <2>6
  <2> QED BY <1>2, <2>4, <2>7
<1> QED BY <1>1, <1>2

\* The handlers in T have n requests each and ranges v, and all have requests or
\* none has a range; such a handler is b.
Counted(T, n, v) ==
  /\ IsFiniteSet(T) /\ \A x \in T : n[x] \in Nat
  /\ ((\A x \in T : n[x] # 0) /\ Ranges(T, v)) \/ \A x \in T : v[x] = Nil
Says(b, i, n, v) == b.count = n[i] /\ b.from = v[i]

LEMMA TotalMore ==
  ASSUME NEW T, NEW n, NEW v, Counted(T, n, v),
         NEW S, S \subseteq T, NEW i, i \in T, i \notin S, NEW b, Says(b, i, n, v)
  PROVE  RPCMerge(TotalOf(S, n, v), b) = TotalOf(S \cup {i}, n, v)
<1>0. /\ IsFiniteSet(T) /\ (\A x \in T : n[x] \in Nat) /\ b.count = n[i] /\ b.from = v[i]
      /\ ((\A x \in T : n[x] # 0) /\ Ranges(T, v)) \/ \A x \in T : v[x] = Nil
  BY DEF Counted, Says
<1>1. PICK c, w : c = SumFunctionOnSet(n, S) /\ w = Agreed(S, v)
  OBVIOUS
<1>2. IsFiniteSet(S)
  BY <1>0, FS_Subset
<1>4. RangeMerge(w, c, v[i]) = Agreed(S \cup {i}, v)
  <2>1. CASE (\A x \in T : n[x] # 0) /\ Ranges(T, v)
    <3>1. \A x \in S : n[x] \in Nat \ {0}
      BY <1>0, <2>1
    <3>2. c \in Nat /\ (c = 0 <=> S = {})
      BY <1>1, <1>2, <3>1, SumPositive
    <3>3. RangeMerge(Agreed(S, v), c, v[i]) = Agreed(S \cup {i}, v)
      BY <2>1, <3>2, AgreedMore
    <3> QED BY <1>1, <3>3
  <2>2. CASE \A x \in T : v[x] = Nil
    <3>1. OneRange(Nil, S, v) /\ OneRange(Nil, S \cup {i}, v)
      BY <2>2 DEF OneRange, IsCommon
    <3>2. Agreed(S, v) = Nil /\ Agreed(S \cup {i}, v) = Nil
      BY <3>1, AgreedFound
    <3>3. RangeMerge(Nil, c, Nil) = Nil
      BY DEF RangeMerge
    <3> QED BY <1>1, <2>2, <3>2, <3>3
  <2> QED BY <1>0, <2>1, <2>2
<1>5. SumFunctionOnSet(n, S \cup {i}) = c + n[i]
  <2>1. \A x \in S \cup {i} : n[x] \in Nat
    BY <1>0
  <2>2. SumFunctionOnSet(n, S \cup {i}) = SumFunctionOnSet(n, S) + n[i]
    BY <1>2, <2>1, SumGrows
  <2> QED BY <1>1, <2>2
<1>6. TotalOf(S, n, v) = [count |-> c, from |-> w]
  BY <1>1 DEF TotalOf
<1> QED BY <1>0, <1>4, <1>5, <1>6 DEF RPCMerge, TotalOf

\* o visits m of the handlers in T, one after another, and finds q.
Visits(o, m, T) == m \in Nat /\ (\A k \in 1..m : o[k] \in T) /\ \A j, k \in 1..m : j # k => o[j] # o[k]
Visited(S, o, m) == S = {o[k] : k \in 1..m}
Finds(q, o, m, n, v) == DOMAIN q = 1..m /\ \A k \in 1..m : Says(q[k], o[k], n, v)

\* The fold along an order of handlers, of which q are the statistics.
LEMMA TotalIs ==
  ASSUME NEW T, NEW n, NEW v, Counted(T, n, v), NEW m, NEW o, Visits(o, m, T),
         NEW q, Finds(q, o, m, n, v), NEW S, Visited(S, o, m)
  PROVE  Folded(q) = TotalOf(S, n, v)
<1>0. /\ m \in Nat /\ (\A k \in 1..m : o[k] \in T) /\ \A j, k \in 1..m : j # k => o[j] # o[k]
      /\ DOMAIN q = 1..m /\ (\A k \in 1..m : Says(q[k], o[k], n, v)) /\ S = {o[k] : k \in 1..m}
  BY DEF Visits, Visited, Finds
<1>1. PICK g : g = [s \in SUBSET (1..m) |-> TotalOf({o[k] : k \in s}, n, v)]
  OBVIOUS
<1>2. ASSUME NEW s \in SUBSET (1..m)
      PROVE  g[s] = IF s = {} THEN ZeroOf["RPC"] ELSE RPCMerge(g[s \ {Max(s)}], q[Max(s)])
  <2>1. CASE s = {}
    <3>1. {o[k] : k \in s} = {}
      BY <2>1
    <3> QED BY <1>1, <2>1, <3>1, TotalNone
  <2>2. CASE s # {}
    <3>1. PICK l, t : l = Max(s) /\ t = s \ {l}
      OBVIOUS
    <3>2. l \in s /\ l \in 1..m /\ t \in SUBSET (1..m) /\ s = t \cup {l}
      BY <1>0, <2>2, <3>1, MaxIs
    <3>3. PICK R, i, b : R = {o[k] : k \in t} /\ i = o[l] /\ b = q[l]
      OBVIOUS
    <3>4. R \subseteq T /\ i \in T /\ Says(b, i, n, v)
      BY <1>0, <3>2, <3>3
    <3>5. i \notin R
      <4>1. \A k \in t : k # l /\ k \in 1..m
        BY <3>1, <3>2
      <4> QED BY <1>0, <3>2, <3>3, <4>1
    <3>6. RPCMerge(TotalOf(R, n, v), b) = TotalOf(R \cup {i}, n, v)
      BY <3>4, <3>5, TotalMore
    <3>7. R \cup {i} = {o[k] : k \in s}
      BY <3>2, <3>3
    <3>8. g[s] = TotalOf(R \cup {i}, n, v)
      BY <1>1, <3>7
    <3>9. g[t] = TotalOf(R, n, v)
      BY <1>1, <3>2, <3>3
    <3> QED BY <2>2, <3>1, <3>3, <3>6, <3>8, <3>9
  <2> QED BY <2>1, <2>2
<1>3. FoldsUp(g, 1..m, q)
  <2>1. g = [s \in SUBSET (1..m) |-> g[s]]
    BY <1>1
  <2> QED BY <1>2, <2>1 DEF FoldsUp
<1>4. PICK h : h = CHOOSE f : FoldsUp(f, 1..m, q)
  OBVIOUS
<1>5. FoldsUp(h, 1..m, q)
  BY <1>3, <1>4
<1>6. (1..m) \in SUBSET (1..m)
  OBVIOUS
<1>7. h[1..m] = g[1..m]
  BY <1>0, <1>3, <1>5, <1>6, FoldUnique
<1>8. Folded(q) = h[1..m]
  BY <1>0, <1>4, FoldIs
<1> QED BY <1>0, <1>1, <1>6, <1>7, <1>8

LEMMA TotalledAre ==
  ASSUME NEW s, DOMAIN s = Nodes, NEW x \in Nodes, DOMAIN s[x] = {"count", "from"}
  PROVE  /\ Totalled(s[x], s).count = s[x].count
         /\ Totalled(s[x], s).from =
              IF \E y, z \in Nodes : s[y].from # Nil /\ s[z].from = Nil THEN Nil ELSE s[x].from
<1>1. PICK r, c : r = s[x] /\ c = Totalled(r, s)
  OBVIOUS
<1>2. (\E t, u \in Range(s) : t.from # Nil /\ u.from = Nil) <=> \E y, z \in Nodes : s[y].from # Nil /\ s[z].from = Nil
  BY DEF Range
<1>3. c = IF \E y, z \in Nodes : s[y].from # Nil /\ s[z].from = Nil THEN [r EXCEPT !.from = Nil] ELSE r
  BY <1>1, <1>2 DEF Totalled
<1>4. [r EXCEPT !.from = Nil].count = r.count /\ [r EXCEPT !.from = Nil].from = Nil
  BY <1>1
<1> QED BY <1>1, <1>3, <1>4

LEMMA ReportsTotal == ReportsInv => TotalIndependent
<1> SUFFICES ASSUME ReportsInv, todo = {}, kind = "RPC", \A i \in Nodes : sent[i].count = 0 => sent[i].from = Nil,
                    NEW o \in SetToSeqs(Nodes), NEW q \in SetToSeqs(Nodes)
    PROVE LastMinuteTotal(sent, o) = LastMinuteTotal(sent, q)
  BY DEF TotalIndependent, Ready
<1>1. /\ IsFiniteSet(Nodes) /\ kind \in DOMAIN Given /\ \A x \in Nodes : sent[x] \in Given[kind]
      /\ DOMAIN sent = Nodes
  BY ReportsDone DEF ReportsInv
<1>2. PICK s, t : s = sent /\ t = [x \in Nodes |-> Totalled(s[x], s)]
  OBVIOUS
<1>3. PICK n, v : n = Col(s, "count") /\ v = Col(t, "from")
  OBVIOUS
<1>4. \A x \in Nodes : DOMAIN s[x] = {"count", "from"} /\ s[x].count \in Nat
  <2>1. PICK h : h = kind
    OBVIOUS
  <2>2. h \in DOMAIN Given /\ \A x \in Nodes : s[x] \in Given[h]
    BY <1>1, <1>2, <2>1
  <2>3. \A x \in Nodes : DOMAIN s[x] = DOMAIN ZeroOf[h]
    BY <2>2, ReportsAssumption DEF Typed
  <2>4. h \in Counting => \A x \in Nodes : s[x].count \in Nat
    BY <2>2, ReportTypes
  <2>5. DOMAIN ZeroOf["RPC"] = {"count", "from"}
    BY DEF ZeroOf
  <2>6. h = "RPC" /\ h \in Counting
    BY <2>1 DEF Counting
  <2> QED BY <2>3, <2>4, <2>5, <2>6
<1>5. \A x \in Nodes : n[x] = s[x].count /\ n[x] \in Nat /\ v[x] = t[x].from
  BY <1>3, <1>4 DEF Col
<1>6. \A x \in Nodes : /\ t[x].count = n[x]
                       /\ v[x] = IF \E y, z \in Nodes : s[y].from # Nil /\ s[z].from = Nil THEN Nil ELSE s[x].from
  <2> SUFFICES ASSUME NEW x \in Nodes
        PROVE /\ t[x].count = n[x]
              /\ v[x] = IF \E y, z \in Nodes : s[y].from # Nil /\ s[z].from = Nil THEN Nil ELSE s[x].from
    OBVIOUS
  <2>1. DOMAIN s = Nodes /\ DOMAIN s[x] = {"count", "from"}
    BY <1>1, <1>2, <1>4
  <2>2. t[x] = Totalled(s[x], s)
    BY <1>2
  <2>3. Totalled(s[x], s).count = s[x].count
    BY <2>1, TotalledAre
  <2>4. Totalled(s[x], s).from =
          IF \E y, z \in Nodes : s[y].from # Nil /\ s[z].from = Nil THEN Nil ELSE s[x].from
    BY <2>1, TotalledAre
  <2> QED BY <1>5, <2>2, <2>3, <2>4
<1>7. Counted(Nodes, n, v)
  <2>1. Ranges(Nodes, v)
    BY <1>6 DEF Ranges
  <2>2. ASSUME NEW z \in Nodes, n[z] = 0 PROVE \A x \in Nodes : v[x] = Nil
    <3>1. s[z].from = Nil
      BY <1>2, <1>5, <2>2
    <3> QED BY <1>6, <3>1
  <2> QED BY <1>1, <1>5, <2>1, <2>2 DEF Counted
<1>8. ASSUME NEW p \in SetToSeqs(Nodes) PROVE LastMinuteTotal(sent, p) = TotalOf(Nodes, n, v)
  <2>1. PICK m : m = Cardinality(Nodes)
    OBVIOUS
  <2>2. m \in Nat /\ p \in [1..m -> Nodes] /\ \A j, k \in 1..m : j # k => p[j] # p[k]
    BY <1>1, <2>1, FS_CardinalityType DEF SetToSeqs
  <2>3. {p[k] : k \in 1..m} = Nodes
    <3>1. p \in Injection(1..m, Nodes)
      BY <2>2 DEF Injection, IsInjective
    <3>2. Cardinality(1..m) = m
      BY <2>2, FS_Interval
    <3>3. p \in Surjection(1..m, Nodes)
      BY <1>1, <2>1, <3>1, <3>2, FS_Injection
    <3> QED BY <2>2, <3>3 DEF Surjection
  <2>4. PICK e : e = [k \in DOMAIN p |-> Totalled(s[p[k]], s)]
    OBVIOUS
  <2>5. DOMAIN e = 1..m /\ \A k \in 1..m : p[k] \in Nodes
    BY <2>2, <2>4
  <2>6. \A k \in 1..m : Says(e[k], p[k], n, v)
    <3> SUFFICES ASSUME NEW k \in 1..m PROVE Says(e[k], p[k], n, v)
      OBVIOUS
    <3>1. PICK x \in Nodes : x = p[k]
      BY <2>5
    <3>2. e[k] = Totalled(s[x], s)
      BY <2>2, <2>4, <3>1
    <3>3. e[k] = t[x]
      BY <1>2, <3>2
    <3> QED BY <1>5, <1>6, <3>1, <3>3 DEF Says
  <2>7. Folded(e) = TotalOf(Nodes, n, v)
    <3>1. Visits(p, m, Nodes)
      BY <2>2, <2>5 DEF Visits
    <3>2. Visited(Nodes, p, m)
      BY <2>3 DEF Visited
    <3>3. Finds(e, p, m, n, v)
      BY <2>5, <2>6 DEF Finds
    <3> QED BY <1>7, <3>1, <3>2, <3>3, TotalIs
  <2> QED BY <1>2, <2>3, <2>4, <2>7 DEF LastMinuteTotal, Folded
<1> QED BY <1>8

----------------------------------------------------------------------------
(* The theorems.                                                              *)

\* Rules 1 and 5 of metrics.go:291-299 for DiskMetric.Merge: whatever drives any
\* number of nodes report, or that they have none, and in whatever order the reports
\* are merged, the numbers and spaces are added up.  The time is that of a report
\* and not before any report with drives; a pool or a set is given only if all
\* reports with drives agree on it, and given if all reports do.
THEOREM MergeIndependentOfOrder == Spec => []IndependentOfOrder
BY DiskAlways, DiskIndependent, PTL

\* DiskAction.Add, TotalMinMaxUint64.Merge, and the Merge methods of API, CPU and
\* sensor metrics.  Of actions and API requests the least and the greatest are
\* those of the reports that have some, whichever comes first and however many come
\* without.  Of spaces the greatest is exact, and the least was reported and is
\* not above that of any report with drives.  No temperature that was read lies
\* outside those given, which were reported.  Of frequencies the greatest is exact,
\* and the least, if it is known, was reported; where only reports with processors
\* know one it is not above any, and where these all do it is known.
THEOREM MergeExtremesKept == (Spec => []ExtremesKept) /\ (ReportsSpec => []ExtremesKept)
<1>1. DiskInv => ExtremesKept
  <2>1. DiskInv => ExtremesOfReports
    BY DEF DiskInv, ExtremesOfReports, Ready
  <2> QED BY <2>1, DiskExtremes, DiskSpace DEF ExtremesKept
<1>2. ReportsInv => ExtremesKept
  <2>1. ReportsInv => ~All
    BY ReportsAssumption DEF ReportsInv, All, Kinds
  <2>2. ~All => ExtremesOfActions /\ SpaceExtremes
    BY DEF ExtremesOfActions, SpaceExtremes
  <2> QED BY <2>1, <2>2, ReportsExtremes DEF ExtremesKept
<1>3. Spec => []ExtremesKept
  BY <1>1, DiskAlways, PTL
<1>4. ReportsSpec => []ExtremesKept
  BY <1>2, ReportsAlways, PTL
<1> QED BY <1>3, <1>4

\* "All metrics must be accumulated" (metrics.go:295): the counts of every kind of
\* metric, of each handler and interface, and the histograms are those of all
\* reports, but for those of replication that speak for no node.
THEOREM MergeCountsAddUp == ReportsSpec => []CountsAddUp
BY ReportsAlways, ReportsCounts, PTL

\* A time range is given with a total only if no report with requests has another,
\* and is given if all of these have it and no report speaks against it
\* (metrics.go:1614); the node likewise (metrics.go:1157).  And
\* RPCMetrics.LastMinuteTotal does not depend on the order in which the map of
\* handlers is walked (metrics.go:1378), if those without requests have no range.
THEOREM MergeRangesAgree == ReportsSpec => []RangesAgree
<1>1. ReportsInv => RangesAgree
  BY ReportsRange, ReportsTotal DEF RangesAgree
<1> QED BY <1>1, ReportsAlways, PTL

\* What is reported with a name or a place: no host, disk, bucket or job is lost and
\* what is said of it was reported by some node; of jobs, resynchronisations and
\* pings it is the newest ("Use latest metrics", metrics.go:1003); hosts, paths and
\* prefixes are listed in order, each as often as it was reported or, prefixes,
\* once; and every drive is in its set (heal-commands.go:478).
THEOREM MergeEntriesKept == ReportsSpec => []EntriesKept
<1>1. ReportsInv => EntriesKept
  BY ReportsNamed, ReportsNewest, ReportsListed, ReportsDrives DEF EntriesKept
<1> QED BY <1>1, ReportsAlways, PTL

\* Segmented.Add and the LastDay fields of drives, handlers and targets: for every
\* time of the last day the merged series has what the reports have for it, however
\* their series lie, given one resolution.
THEOREM MergeLastDayKept == (Spec => []LastDayKept) /\ (ReportsSpec => []LastDayKept)
<1>1. Spec => []LastDayKept
  BY DiskAlways, DiskDays, PTL
<1>2. ReportsSpec => []LastDayKept
  BY ReportsAlways, ReportsDays, PTL
<1> QED BY <1>1, <1>2

=============================================================================
