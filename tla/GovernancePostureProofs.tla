----------------------- MODULE GovernancePostureProofs -----------------------
(* Proofs about the posture, for every choice of the subjects and any number of *)
(* edits.  The averages are folds over sets, so the first lemmas give the fold  *)
(* the laws of a sum, each by a smallest counterexample: the prover cannot      *)
(* instantiate the library's induction, which takes an operator.                *)
EXTENDS GovernancePosture, FiniteSetTheorems, WellFoundedInduction, NaturalsInduction, TLAPS

LessOnNat == {p \in Nat \X Nat : p[1] < p[2]}

LEMMA LeastNumber ==
    ASSUME NEW S \in SUBSET Nat, S # {}
    PROVE  \E i \in S : \A j \in S : i <= j
<1>1. IsWellFoundedOn(LessOnNat, Nat)
    BY NatLessThanWellFounded DEF OpToRel, LessOnNat
<1>2. PICK i \in S : \A j \in S : <<j, i>> \notin LessOnNat
    BY <1>1, WFMin
<1>3. ASSUME NEW j \in S, j < i PROVE FALSE
  <2>1. <<j, i>> \in Nat \X Nat /\ <<j, i>>[1] = j /\ <<j, i>>[2] = i
    OBVIOUS
  <2>2. <<j, i>> \in LessOnNat
    BY Zenon, <1>3, <2>1 DEF LessOnNat
  <2> QED
    BY <1>2, <2>2
<1> QED
    BY <1>3

\* Of a family of finite sets that is not empty, one is smallest.
LEMMA SmallestSet ==
    ASSUME NEW B, B # {}, \A s \in B : IsFiniteSet(s)
    PROVE  \E s \in B : \A t \in B : Cardinality(s) <= Cardinality(t)
<1> DEFINE N == {Cardinality(s) : s \in B}
<1>1. N \in SUBSET Nat /\ N # {}
    BY FS_CardinalityType
<1>2. PICK i \in N : \A j \in N : i <= j
  <2> HIDE DEF N
  <2> QED
      BY <1>1, LeastNumber
<1>3. PICK s \in B : Cardinality(s) = i
    OBVIOUS
<1> QED
    BY <1>2, <1>3
-----------------------------------------------------------------------------
(* The sum of a function over a finite set. *)

Some(s) == CHOOSE x \in s : TRUE

\* What the fold evaluates: g sums f over every subset of S.
SumsOver(g, f, S) ==
    g = [s \in SUBSET S |-> IF s = {} THEN 0 ELSE f[Some(s)] + g[s \ {Some(s)}]]

\* The same up to n elements.
SumsUpTo(g, f, S, n) ==
    g = [s \in {t \in SUBSET S : Cardinality(t) <= n} |->
            IF s = {} THEN 0 ELSE f[Some(s)] + g[s \ {Some(s)}]]

LEMMA SomeIsMember ==
    ASSUME NEW s, s # {}
    PROVE  Some(s) \in s
BY DEF Some

LEMMA OneLess ==
    ASSUME NEW s, IsFiniteSet(s), NEW x \in s
    PROVE  /\ IsFiniteSet(s \ {x})
           /\ Cardinality(s \ {x}) \in Nat /\ Cardinality(s) = Cardinality(s \ {x}) + 1
<1>1. IsFiniteSet(s \ {x}) /\ Cardinality(s \ {x}) = Cardinality(s) - 1
    BY FS_RemoveElement
<1>2. Cardinality(s) \in Nat /\ Cardinality(s \ {x}) \in Nat
    BY <1>1, FS_CardinalityType
<1> QED
    BY <1>1, <1>2

LEMMA SumsExistUpTo ==
    ASSUME NEW f, NEW S, IsFiniteSet(S), NEW n \in Nat
    PROVE  \E g : SumsUpTo(g, f, S, n)
<1> DEFINE Bad == {k \in Nat : ~\E g : SumsUpTo(g, f, S, k)}
<1>1. SUFFICES ASSUME Bad # {} PROVE FALSE
    OBVIOUS
<1>2. PICK k \in Bad : \A j \in Bad : k <= j
  <2>1. Bad \in SUBSET Nat
      OBVIOUS
  <2> HIDE DEF Bad
  <2> QED
      BY <1>1, <2>1, LeastNumber
<1>3. k \in Nat /\ ~\E g : SumsUpTo(g, f, S, k)
    OBVIOUS
<1>4. \A s \in SUBSET S : IsFiniteSet(s) /\ Cardinality(s) \in Nat
    BY FS_Subset, FS_CardinalityType
<1>5. CASE k = 0
  <2> DEFINE g == [s \in {t \in SUBSET S : Cardinality(t) <= 0} |-> 0]
  <2>1. \A s \in {t \in SUBSET S : Cardinality(t) <= 0} : s = {}
      BY <1>4, FS_EmptySet
  <2>2. SumsUpTo(g, f, S, 0)
      BY <2>1 DEF SumsUpTo
  <2> QED
      BY <1>3, <1>5, <2>2
<1>6. CASE k # 0
  <2>1. k - 1 \in Nat /\ k - 1 \notin Bad
      BY <1>2, <1>3, <1>6
  <2>2. PICK g : SumsUpTo(g, f, S, k - 1)
      BY <2>1
  <2> DEFINE D(m) == {t \in SUBSET S : Cardinality(t) <= m}
             h == [s \in D(k) |-> IF s = {} THEN 0 ELSE f[Some(s)] + g[s \ {Some(s)}]]
  <2>3. \A s \in D(k - 1) : h[s] = g[s]
    <3>1. D(k - 1) \subseteq D(k)
        BY <1>3, <1>4
    <3>2. g = [s \in D(k - 1) |-> IF s = {} THEN 0 ELSE f[Some(s)] + g[s \ {Some(s)}]]
        BY <2>2 DEF SumsUpTo
    <3> HIDE DEF D
    <3>3. \A s \in D(k - 1) : g[s] = IF s = {} THEN 0 ELSE f[Some(s)] + g[s \ {Some(s)}]
        BY Zenon, <3>2
    <3>4. \A s \in D(k) : h[s] = IF s = {} THEN 0 ELSE f[Some(s)] + g[s \ {Some(s)}]
        OBVIOUS
    <3> QED
        BY Zenon, <3>1, <3>3, <3>4
  <2>4. \A s \in D(k) : s # {} => s \ {Some(s)} \in D(k - 1)
      BY <1>3, <1>4, <1>6, SomeIsMember, OneLess
  <2>5. \A s \in D(k) : s # {} => h[s \ {Some(s)}] = g[s \ {Some(s)}]
      BY <2>3, <2>4
  <2>6. h = [s \in D(k) |-> IF s = {} THEN 0 ELSE f[Some(s)] + h[s \ {Some(s)}]]
    <3> HIDE DEF D
    <3> QED
        BY <2>5
  <2>7. SumsUpTo(h, f, S, k)
      BY <2>6 DEF SumsUpTo
  <2> QED
      BY <1>3, <2>7
<1> QED
    BY <1>5, <1>6

LEMMA SumsExist ==
    ASSUME NEW f, NEW S, IsFiniteSet(S)
    PROVE  \E g : SumsOver(g, f, S)
<1>1. Cardinality(S) \in Nat
    BY FS_CardinalityType
<1>2. PICK g : SumsUpTo(g, f, S, Cardinality(S))
    BY <1>1, SumsExistUpTo
<1>3. {t \in SUBSET S : Cardinality(t) <= Cardinality(S)} = SUBSET S
    BY FS_Subset
<1> QED
    BY <1>2, <1>3 DEF SumsUpTo, SumsOver

\* The model's sum is what such a function gives for the whole set.
LEMMA SumOverIsSum ==
    ASSUME NEW f, NEW S, IsFiniteSet(S)
    PROVE  \E g : SumsOver(g, f, S) /\ SumOver(f, S) = g[S]
<1> DEFINE it == CHOOSE g : SumsOver(g, f, S)
<1>1. SumsOver(it, f, S)
    BY Zenon, SumsExist
<1>2. SumOver(f, S) = it[S]
    BY Zenon DEF SumOver, FoldSet, MapThenFoldSet, SumsOver, Some
<1> QED
    BY <1>1, <1>2

LEMMA SumOfSubset ==
    ASSUME NEW f, NEW S, NEW g, SumsOver(g, f, S)
    PROVE  /\ g[{}] = 0
           /\ \A s \in SUBSET S : s # {} =>
                Some(s) \in s /\ g[s] = f[Some(s)] + g[s \ {Some(s)}]
<1>1. \A s \in SUBSET S : g[s] = IF s = {} THEN 0 ELSE f[Some(s)] + g[s \ {Some(s)}]
    BY Zenon DEF SumsOver
<1>2. {} \in SUBSET S
    OBVIOUS
<1> QED
    BY <1>1, <1>2, SomeIsMember

LEMMA SumBounds ==
    ASSUME NEW f, NEW S, IsFiniteSet(S), NEW g, SumsOver(g, f, S), \A x \in S : f[x] \in 0..2
    PROVE  \A s \in SUBSET S : g[s] \in 0..(2 * Cardinality(s))
<1> DEFINE Bad == {s \in SUBSET S : g[s] \notin 0..(2 * Cardinality(s))}
<1>1. SUFFICES ASSUME Bad # {} PROVE FALSE
    OBVIOUS
<1>2. \A s \in SUBSET S : IsFiniteSet(s) /\ Cardinality(s) \in Nat
    BY FS_Subset, FS_CardinalityType
<1>3. PICK s \in Bad : \A t \in Bad : Cardinality(s) <= Cardinality(t)
  <2>1. \A t \in Bad : IsFiniteSet(t)
      BY <1>2
  <2> HIDE DEF Bad
  <2> QED
      BY <1>1, <2>1, SmallestSet
<1>4. s # {}
  <2>1. g[{}] = 0 /\ Cardinality({}) = 0
      BY SumOfSubset, FS_EmptySet
  <2>2. g[{}] \in 0..(2 * Cardinality({}))
      BY <2>1
  <2> QED
      BY <2>2
<1> DEFINE x == Some(s)
           t == s \ {x}
<1>5. x \in s /\ g[s] = f[x] + g[t]
    BY <1>4, SumOfSubset
<1>6. Cardinality(t) \in Nat /\ Cardinality(s) = Cardinality(t) + 1
    BY <1>2, <1>5, OneLess
<1>7. t \in SUBSET S /\ t \notin Bad
  <2>1. t \in SUBSET S
      OBVIOUS
  <2> HIDE DEF Bad, t
  <2>2. t \in Bad => Cardinality(s) <= Cardinality(t)
      BY <1>3
  <2> QED
      BY <1>6, <2>1, <2>2
<1>8. g[t] \in 0..(2 * Cardinality(t)) /\ f[x] \in 0..2
    BY <1>5, <1>7
<1> HIDE DEF x, t
<1> QED
    BY <1>3, <1>5, <1>6, <1>8

\* Any element may be taken out first.
LEMMA SumTakesAny ==
    ASSUME NEW f, NEW S, IsFiniteSet(S), NEW g, SumsOver(g, f, S), \A x \in S : f[x] \in 0..2
    PROVE  \A s \in SUBSET S : \A x \in s : g[s] = f[x] + g[s \ {x}]
<1> DEFINE Bad == {s \in SUBSET S : ~\A x \in s : g[s] = f[x] + g[s \ {x}]}
<1>1. SUFFICES ASSUME Bad # {} PROVE FALSE
    OBVIOUS
<1>2. \A s \in SUBSET S : IsFiniteSet(s) /\ Cardinality(s) \in Nat
    BY FS_Subset, FS_CardinalityType
<1>3. PICK s \in Bad : \A t \in Bad : Cardinality(s) <= Cardinality(t)
  <2>1. \A t \in Bad : IsFiniteSet(t)
      BY <1>2
  <2> HIDE DEF Bad
  <2> QED
      BY <1>1, <2>1, SmallestSet
<1>4. PICK x \in s : g[s] # f[x] + g[s \ {x}]
    OBVIOUS
<1> DEFINE y == Some(s)
<1>5. y \in s /\ g[s] = f[y] + g[s \ {y}]
    BY <1>4, SumOfSubset
<1>6. x # y
    BY <1>4, <1>5
<1>7. \A z \in s : s \ {z} \in SUBSET S /\ s \ {z} \notin Bad
  <2>1. TAKE z \in s
  <2>2. s \ {z} \in SUBSET S /\ IsFiniteSet(s)
      BY <1>2
  <2>3. Cardinality(s \ {z}) \in Nat /\ Cardinality(s) = Cardinality(s \ {z}) + 1
      BY <2>2, OneLess
  <2> HIDE DEF Bad
  <2>4. s \ {z} \in Bad => Cardinality(s) <= Cardinality(s \ {z})
      BY <1>3
  <2> QED
      BY <2>2, <2>3, <2>4
<1>8. g[s \ {y}] = f[x] + g[(s \ {y}) \ {x}]
    BY <1>4, <1>5, <1>6, <1>7
<1>9. g[s \ {x}] = f[y] + g[(s \ {x}) \ {y}]
    BY <1>4, <1>5, <1>6, <1>7
<1>10. (s \ {x}) \ {y} = (s \ {y}) \ {x} /\ (s \ {x}) \ {y} \in SUBSET S
    OBVIOUS
<1>11. f[x] \in 0..2 /\ f[y] \in 0..2 /\ g[(s \ {x}) \ {y}] \in Int
  <2>1. g[(s \ {x}) \ {y}] \in 0..(2 * Cardinality((s \ {x}) \ {y}))
      BY <1>10, SumBounds
  <2> QED
      BY <1>4, <1>5, <2>1
<1> DEFINE a == g[(s \ {x}) \ {y}]
<1>12. g[s] = f[y] + (f[x] + a) /\ g[s \ {x}] = f[y] + a
    BY <1>5, <1>8, <1>9, <1>10
<1>13. a \in Int /\ f[x] \in Int /\ f[y] \in Int
    BY <1>11
<1> HIDE DEF y, a
<1> QED
    BY <1>4, <1>12, <1>13

\* A sum of greater terms is greater.
LEMMA SumsOrdered ==
    ASSUME NEW f, NEW S, IsFiniteSet(S), NEW g, SumsOver(g, f, S), \A x \in S : f[x] \in 0..2,
           NEW e, NEW R, IsFiniteSet(R), NEW h, SumsOver(h, e, R), \A x \in R : e[x] \in 0..2,
           NEW T, T \subseteq S, T \subseteq R, \A x \in T : f[x] <= e[x]
    PROVE  g[T] <= h[T]
<1> DEFINE Bad == {s \in SUBSET T : ~(g[s] <= h[s])}
<1>1. SUFFICES ASSUME Bad # {} PROVE FALSE
    OBVIOUS
<1>2. \A s \in SUBSET T : IsFiniteSet(s) /\ Cardinality(s) \in Nat
    BY FS_Subset, FS_CardinalityType
<1>3. PICK s \in Bad : \A t \in Bad : Cardinality(s) <= Cardinality(t)
  <2>1. \A t \in Bad : IsFiniteSet(t)
      BY <1>2
  <2> HIDE DEF Bad
  <2> QED
      BY <1>1, <2>1, SmallestSet
<1>4. s # {}
  <2>1. g[{}] = 0 /\ h[{}] = 0
      BY SumOfSubset
  <2> QED
      BY <2>1
<1> DEFINE x == Some(s)
           t == s \ {x}
<1>5. x \in s /\ g[s] = f[x] + g[t] /\ h[s] = e[x] + h[t]
    BY <1>4, SumOfSubset
<1>6. Cardinality(t) \in Nat /\ Cardinality(s) = Cardinality(t) + 1
    BY <1>2, <1>5, OneLess
<1>7. t \in SUBSET T /\ t \notin Bad
  <2>1. t \in SUBSET T
      OBVIOUS
  <2> HIDE DEF Bad, t
  <2>2. t \in Bad => Cardinality(s) <= Cardinality(t)
      BY <1>3
  <2> QED
      BY <1>6, <2>1, <2>2
<1>8. g[t] <= h[t] /\ f[x] <= e[x]
    BY <1>5, <1>7
<1>9. g[t] \in Int /\ h[t] \in Int /\ f[x] \in Int /\ e[x] \in Int
  <2>1. g[t] \in 0..(2 * Cardinality(t)) /\ h[t] \in 0..(2 * Cardinality(t))
      BY <1>7, SumBounds
  <2> QED
      BY <1>5, <2>1
<1> HIDE DEF x, t
<1> QED
    BY <1>3, <1>5, <1>8, <1>9

\* The laws of SumOver the averages need.
LEMMA SumOverBounds ==
    ASSUME NEW f, NEW S, IsFiniteSet(S), \A x \in S : f[x] \in 0..2
    PROVE  SumOver(f, S) \in 0..(2 * Cardinality(S))
BY SumOverIsSum, SumBounds

LEMMA SumOverOrdered ==
    ASSUME NEW f, NEW e, NEW S, IsFiniteSet(S),
           \A x \in S : f[x] \in 0..2 /\ e[x] \in 0..2 /\ f[x] <= e[x]
    PROVE  SumOver(f, S) <= SumOver(e, S)
<1>1. PICK g : SumsOver(g, f, S) /\ SumOver(f, S) = g[S]
    BY SumOverIsSum
<1>2. PICK h : SumsOver(h, e, S) /\ SumOver(e, S) = h[S]
    BY SumOverIsSum
<1>3. g[S] <= h[S]
    BY <1>1, <1>2, SumsOrdered
<1> QED
    BY <1>1, <1>2, <1>3

LEMMA SumOverOneMore ==
    ASSUME NEW f, NEW e, NEW S, IsFiniteSet(S), NEW y, y \notin S,
           \A x \in S : f[x] \in 0..2 /\ e[x] = f[x], e[y] \in 0..2
    PROVE  SumOver(e, S \union {y}) = e[y] + SumOver(f, S)
<1> DEFINE R == S \union {y}
<1>1. IsFiniteSet(R) /\ (\A x \in R : e[x] \in 0..2) /\ R \ {y} = S /\ y \in R /\ S \subseteq R
    BY FS_AddElement
<1>2. PICK g : SumsOver(g, f, S) /\ SumOver(f, S) = g[S]
    BY SumOverIsSum
<1> HIDE DEF R
<1>3. PICK h : SumsOver(h, e, R) /\ SumOver(e, R) = h[R]
    BY <1>1, SumOverIsSum
<1>4. h[R] = e[y] + h[S]
    BY <1>1, <1>3, SumTakesAny
<1>5. g[S] <= h[S] /\ h[S] <= g[S]
  <2>1. /\ \A x \in S : f[x] \in 0..2 /\ e[x] \in 0..2
        /\ \A x \in S : f[x] <= e[x] /\ e[x] <= f[x]
      OBVIOUS
  <2>2. g[S] <= h[S]
      BY <1>1, <1>2, <1>3, <2>1, SumsOrdered
  <2>3. h[S] <= g[S]
      BY <1>1, <1>2, <1>3, <2>1, SumsOrdered
  <2> QED
      BY <2>2, <2>3
<1>6. g[S] \in Int /\ h[S] \in Int
    BY <1>1, <1>2, <1>3, SumBounds
<1> QED
    BY <1>2, <1>3, <1>4, <1>5, <1>6 DEF R
-----------------------------------------------------------------------------
(* The registers and their types. *)

IncidentStatuses == {"open", "investigating", "resolved"}
Accesses == {"none", "read_only", "write", "external_system"}

UseCaseRecords ==
    [gate : GateStatuses, risk : Risks, access : Accesses, evidence : EvidenceStatuses,
     authority : Authorities, details : SUBSET EvidenceKeys, agents : SUBSET DOMAIN DemoAgents,
     model : DOMAIN DemoModels \union {"none"}, sources : SUBSET DOMAIN DemoSources,
     eval : (0..100) \X {"PASS", "FIX", "FAIL", "ESCALATE"}]

\* A register whose records have one of these statuses, and these other fields.
Rated(r, keys, S, F) ==
    /\ r = [x \in keys |-> r[x]]
    /\ \A x \in keys : {"status"} \union F \subseteq DOMAIN r[x] /\ r[x].status \in S

PostureInv ==
    /\ DOMAIN useCases \in {DOMAIN DemoUseCases, DOMAIN DemoUseCases \union {"uc-new"}}
    /\ useCases \in [DOMAIN useCases -> UseCaseRecords]
    /\ Rated(models, DOMAIN DemoModels, EvidenceStatuses, {})
    /\ Rated(sources, DOMAIN DemoSources, EvidenceStatuses, {})
    /\ Rated(security, DOMAIN DemoSecurity, EvidenceStatuses, {"assets"})
    /\ Rated(privacy, DOMAIN DemoPrivacy, EvidenceStatuses, {"assets"})
    /\ Rated(mappings, DOMAIN DemoMappings, EvidenceStatuses, {})
    /\ Rated(agents, DOMAIN DemoAgents, AgentStatuses, {})
    /\ Rated(incidents, DOMAIN DemoIncidents, IncidentStatuses, {"asset"})
    /\ reviews \subseteq (DOMAIN useCases) \X Decisions

LEMMA TableHasRows ==
    ASSUME NEW rows
    PROVE  /\ Table(rows) = [key \in {row[1] : row \in rows} |-> Table(rows)[key]]
           /\ DOMAIN Table(rows) = {row[1] : row \in rows}
           /\ \A key \in DOMAIN Table(rows) : \E row \in rows : Table(rows)[key] = row[2]
<1> DEFINE row(key) == CHOOSE r \in rows : r[1] = key
<1>1. Table(rows) = [key \in {r[1] : r \in rows} |-> row(key)[2]]
    BY Zenon DEF Table
<1>2. \A key \in {r[1] : r \in rows} : row(key) \in rows
    OBVIOUS
<1> HIDE DEF row
<1>3. DOMAIN Table(rows) = {r[1] : r \in rows}
    BY <1>1
<1>4. \A key \in {r[1] : r \in rows} : Table(rows)[key] = row(key)[2]
    BY Zenon, <1>1
<1>5. Table(rows) = [key \in {r[1] : r \in rows} |-> Table(rows)[key]]
    BY <1>1
<1> QED
    BY <1>2, <1>3, <1>4, <1>5

LEMMA RatedTable ==
    ASSUME NEW rows, NEW S, NEW F,
           \A row \in rows : {"status"} \union F \subseteq DOMAIN row[2] /\ row[2].status \in S
    PROVE  Rated(Table(rows), DOMAIN Table(rows), S, F)
<1> DEFINE T == Table(rows)
<1>1. T = [key \in DOMAIN T |-> T[key]]
    BY TableHasRows
<1>2. \A key \in DOMAIN T : \E row \in rows : T[key] = row[2]
    BY TableHasRows
<1> HIDE DEF T
<1>3. Rated(T, DOMAIN T, S, F)
    BY <1>1, <1>2 DEF Rated
<1> QED
    BY <1>3 DEF T

LEMMA GateStatusesAre ==
    GateStatuses = {"BLOCKED", "ESCALATE_REQUIRED", "REPAIR_REQUIRED",
                    "GOVERNANCE_REVIEW_REQUIRED", "READY_FOR_AUTHORITY_REVIEW"}
BY DEF GateStatuses, Range, GateStatusOrder

LEMMA DemoKeys ==
    /\ {"agent-001", "agent-002", "agent-003", "agent-004", "agent-005", "agent-006"}
        \subseteq DOMAIN DemoAgents
    /\ {"model-001", "model-002", "model-003", "model-004", "model-005", "model-006", "model-007"}
        \subseteq DOMAIN DemoModels
    /\ {"ds-001", "ds-002", "ds-003", "ds-004", "ds-005", "ds-006", "ds-007", "ds-008", "ds-009",
        "ds-010"} \subseteq DOMAIN DemoSources
<1>1. {"agent-001", "agent-002", "agent-003", "agent-004", "agent-005", "agent-006"}
        \subseteq DOMAIN DemoAgents
    BY DEF DemoAgents, Table
<1>2. {"model-001", "model-002", "model-003", "model-004", "model-005", "model-006", "model-007"}
        \subseteq DOMAIN DemoModels
    BY DEF DemoModels, Table
<1>3. {"ds-001", "ds-002", "ds-003", "ds-004", "ds-005", "ds-006", "ds-007", "ds-008", "ds-009",
        "ds-010"} \subseteq DOMAIN DemoSources
    BY DEF DemoSources, Table
<1> QED
    BY <1>1, <1>2, <1>3

LEMMA DemoUseCasesTyped ==
    DemoUseCases \in [DOMAIN DemoUseCases -> UseCaseRecords]
<1> DEFINE Rows ==
      {<<"uc-01", uc01>>, <<"uc-02", uc02>>, <<"uc-03", uc03>>, <<"uc-04", uc04>>,
       <<"uc-05", uc05>>, <<"uc-06", uc06>>, <<"uc-07", uc07>>, <<"uc-08", uc08>>,
       <<"uc-09", uc09>>, <<"uc-10", uc10>>, <<"uc-11", uc11>>, <<"uc-12", uc12>>,
       <<"uc-13", uc13>>, <<"uc-14", uc14>>, <<"uc-15", uc15>>}
<1> USE DemoKeys, GateStatusesAre DEF Asset, UseCaseRecords, Risks, Accesses, EvidenceStatuses,
        Authorities, EvidenceKeys
<1>1. uc01 \in UseCaseRecords /\ uc02 \in UseCaseRecords /\ uc03 \in UseCaseRecords
    BY DEF uc01, uc02, uc03
<1>2. uc04 \in UseCaseRecords /\ uc05 \in UseCaseRecords /\ uc06 \in UseCaseRecords
    BY DEF uc04, uc05, uc06
<1>3. uc07 \in UseCaseRecords /\ uc08 \in UseCaseRecords /\ uc09 \in UseCaseRecords
    BY DEF uc07, uc08, uc09
<1>4. uc10 \in UseCaseRecords /\ uc11 \in UseCaseRecords /\ uc12 \in UseCaseRecords
    BY DEF uc10, uc11, uc12
<1>5. uc13 \in UseCaseRecords /\ uc14 \in UseCaseRecords /\ uc15 \in UseCaseRecords
    BY DEF uc13, uc14, uc15
<1> HIDE DemoKeys, GateStatusesAre DEF Asset, UseCaseRecords, Risks, Accesses, EvidenceStatuses,
        Authorities, EvidenceKeys
<1>6. \A row \in Rows : row[2] \in UseCaseRecords
    BY <1>1, <1>2, <1>3, <1>4, <1>5
<1>7. DemoUseCases = Table(Rows)
    BY DEF DemoUseCases
<1> HIDE DEF Rows
<1> DEFINE T == Table(Rows)
<1>8. T = [key \in DOMAIN T |-> T[key]]
    BY TableHasRows
<1>9. \A key \in DOMAIN T : T[key] \in UseCaseRecords
    BY <1>6, TableHasRows
<1> HIDE DEF T
<1>10. T \in [DOMAIN T -> UseCaseRecords]
    BY <1>8, <1>9
<1> QED
    BY <1>7, <1>10 DEF T

LEMMA DemoRegistersRated ==
    /\ Rated(DemoModels, DOMAIN DemoModels, EvidenceStatuses, {})
    /\ Rated(DemoSources, DOMAIN DemoSources, EvidenceStatuses, {})
    /\ Rated(DemoSecurity, DOMAIN DemoSecurity, EvidenceStatuses, {"assets"})
    /\ Rated(DemoPrivacy, DOMAIN DemoPrivacy, EvidenceStatuses, {"assets"})
    /\ Rated(DemoMappings, DOMAIN DemoMappings, EvidenceStatuses, {})
    /\ Rated(DemoAgents, DOMAIN DemoAgents, AgentStatuses, {})
    /\ Rated(DemoIncidents, DOMAIN DemoIncidents, IncidentStatuses, {"asset"})
<1> USE RatedTable DEF EvidenceStatuses, AgentStatuses, IncidentStatuses
<1>1. Rated(DemoModels, DOMAIN DemoModels, EvidenceStatuses, {})
    BY DEF DemoModels
<1>2. Rated(DemoSources, DOMAIN DemoSources, EvidenceStatuses, {})
    BY DEF DemoSources
<1>3. Rated(DemoSecurity, DOMAIN DemoSecurity, EvidenceStatuses, {"assets"})
    BY DEF DemoSecurity
<1>4. Rated(DemoPrivacy, DOMAIN DemoPrivacy, EvidenceStatuses, {"assets"})
    BY DEF DemoPrivacy
<1>5. Rated(DemoMappings, DOMAIN DemoMappings, EvidenceStatuses, {})
    BY DEF DemoMappings
<1>6. Rated(DemoAgents, DOMAIN DemoAgents, AgentStatuses, {})
    BY DEF DemoAgents
<1>7. Rated(DemoIncidents, DOMAIN DemoIncidents, IncidentStatuses, {"asset"})
    BY DEF DemoIncidents
<1> QED
    BY <1>1, <1>2, <1>3, <1>4, <1>5, <1>6, <1>7

LEMMA DemoReviewsTyped ==
    DemoReviews \subseteq (DOMAIN DemoUseCases) \X Decisions
<1>1. {"uc-01", "uc-02", "uc-03", "uc-04", "uc-05", "uc-06", "uc-07", "uc-08", "uc-09", "uc-10",
       "uc-11", "uc-12", "uc-13", "uc-14", "uc-15"} \subseteq DOMAIN DemoUseCases
    BY DEF DemoUseCases, Table
<1> QED
    BY <1>1 DEF DemoReviews, Decisions

LEMMA FourMore ==
    ASSUME NEW S, IsFiniteSet(S), NEW a, NEW b, NEW c, NEW d
    PROVE  IsFiniteSet(S \union {a, b, c, d})
<1>1. IsFiniteSet(S \union {a})
    BY FS_AddElement
<1>2. IsFiniteSet((S \union {a}) \union {b})
    BY <1>1, FS_AddElement
<1>3. IsFiniteSet(((S \union {a}) \union {b}) \union {c})
    BY <1>2, FS_AddElement
<1>4. IsFiniteSet((((S \union {a}) \union {b}) \union {c}) \union {d})
    BY <1>3, FS_AddElement
<1>5. (((S \union {a}) \union {b}) \union {c}) \union {d} = S \union {a, b, c, d}
    OBVIOUS
<1> QED
    BY <1>4, <1>5

LEMMA UpToSixteen ==
    ASSUME NEW a, NEW b, NEW c, NEW d, NEW e, NEW f, NEW g, NEW h,
           NEW i, NEW j, NEW k, NEW l, NEW m, NEW n, NEW o, NEW p
    PROVE  IsFiniteSet({a, b, c, d, e, f, g, h, i, j, k, l, m, n, o, p})
<1>1. IsFiniteSet({} \union {a, b, c, d})
    BY FS_EmptySet, FourMore
<1>2. IsFiniteSet(({} \union {a, b, c, d}) \union {e, f, g, h})
    BY <1>1, FourMore
<1>3. IsFiniteSet((({} \union {a, b, c, d}) \union {e, f, g, h}) \union {i, j, k, l})
    BY <1>2, FourMore
<1>4. IsFiniteSet(((({} \union {a, b, c, d}) \union {e, f, g, h}) \union {i, j, k, l})
                    \union {m, n, o, p})
    BY <1>3, FourMore
<1>5. ((({} \union {a, b, c, d}) \union {e, f, g, h}) \union {i, j, k, l}) \union {m, n, o, p}
        = {a, b, c, d, e, f, g, h, i, j, k, l, m, n, o, p}
    OBVIOUS
<1> QED
    BY <1>4, <1>5

LEMMA RegistersAreFinite ==
    /\ IsFiniteSet(DOMAIN DemoUseCases) /\ IsFiniteSet(DOMAIN DemoModels)
    /\ IsFiniteSet(DOMAIN DemoSources) /\ IsFiniteSet(DOMAIN DemoSecurity)
    /\ IsFiniteSet(DOMAIN DemoPrivacy) /\ IsFiniteSet(DOMAIN DemoMappings)
    /\ IsFiniteSet(DOMAIN DemoAgents)
<1> DEFINE U == {"uc-01", "uc-02", "uc-03", "uc-04", "uc-05", "uc-06", "uc-07", "uc-08", "uc-09",
                 "uc-10", "uc-11", "uc-12", "uc-13", "uc-14", "uc-15", "uc-15"}
           R == {"model-001", "model-002", "model-003", "model-004", "model-005", "model-006",
                 "model-007", "model-008", "ds-001", "ds-002", "ds-003", "ds-004", "ds-005", "ds-006",
                 "ds-007", "ds-008"}
           C == {"ds-009", "ds-010", "sec-001", "sec-002", "sec-003", "sec-004", "sec-005", "sec-006",
                 "sec-007", "sec-008", "priv-001", "priv-002", "priv-003", "priv-004", "priv-005",
                 "priv-006"}
           M == {"cm-001", "cm-002", "cm-003", "cm-004", "cm-005", "cm-006", "cm-007", "cm-008",
                 "cm-009", "cm-010", "cm-011", "cm-012", "cm-012", "cm-012", "cm-012", "cm-012"}
           A == {"agent-001", "agent-002", "agent-003", "agent-004", "agent-005", "agent-006",
                 "agent-006", "agent-006", "agent-006", "agent-006", "agent-006", "agent-006",
                 "agent-006", "agent-006", "agent-006", "agent-006"}
<1>1. IsFiniteSet(U) /\ IsFiniteSet(R) /\ IsFiniteSet(C) /\ IsFiniteSet(M) /\ IsFiniteSet(A)
    BY UpToSixteen
<1>2. DOMAIN DemoUseCases \subseteq U
    BY DEF DemoUseCases, Table
<1>3. DOMAIN DemoModels \subseteq R
    BY DEF DemoModels, Table
<1>4. DOMAIN DemoSources \subseteq R \union C
    BY DEF DemoSources, Table
<1>5. DOMAIN DemoSecurity \subseteq C
    BY DEF DemoSecurity, Table
<1>6. DOMAIN DemoPrivacy \subseteq C
    BY DEF DemoPrivacy, Table
<1>7. DOMAIN DemoMappings \subseteq M
    BY DEF DemoMappings, Table
<1>8. DOMAIN DemoAgents \subseteq A
    BY DEF DemoAgents, Table
<1> HIDE DEF U, R, C, M, A
<1>9. IsFiniteSet(R \union C)
    BY <1>1, FS_Union
<1> QED
    BY <1>1, <1>2, <1>3, <1>4, <1>5, <1>6, <1>7, <1>8, <1>9, FS_Subset
-----------------------------------------------------------------------------
(* The invariant. *)

\* A record restated keeps its register typed, and every other field.
LEMMA RestatedKeeps ==
    ASSUME NEW r, NEW keys, NEW S, NEW F, Rated(r, keys, S, F), NEW x \in keys, NEW s \in S,
           NEW q, q = [r EXCEPT ![x].status = s], "status" \notin F
    PROVE  /\ Rated(q, keys, S, F)
           /\ \A y \in keys, field \in F : q[y][field] = r[y][field]
<1> DEFINE new == [r[x] EXCEPT !["status"] = s]
<1>1. q = [r EXCEPT ![x] = new]
    OBVIOUS
<1>2. DOMAIN r = keys /\ r = [y \in keys |-> r[y]]
    BY DEF Rated
<1>3. \A y \in keys : {"status"} \union F \subseteq DOMAIN r[y] /\ r[y].status \in S
    BY DEF Rated
<1>4. /\ DOMAIN new = DOMAIN r[x] /\ new["status"] = s
      /\ \A field \in F : new[field] = r[x][field]
    BY <1>3
<1> HIDE DEF new
<1>5. /\ DOMAIN q = keys /\ q = [y \in keys |-> q[y]]
      /\ q[x] = new /\ \A y \in keys \ {x} : q[y] = r[y]
    BY <1>1, <1>2
<1>6. \A y \in keys : {"status"} \union F \subseteq DOMAIN q[y] /\ q[y].status \in S
    BY <1>3, <1>4, <1>5
<1> QED
    BY <1>4, <1>5, <1>6 DEF Rated

\* The records of a use case that is edited exist.
LEMMA EditedExist ==
    ASSUME PostureInv
    PROVE  /\ Edited \subseteq DOMAIN useCases
           /\ \A u \in DOMAIN useCases :
                /\ useCases[u] \in UseCaseRecords
                /\ useCases[u].sources \subseteq DOMAIN DemoSources
                /\ useCases[u].agents \subseteq DOMAIN DemoAgents
                /\ useCases[u].model \in DOMAIN DemoModels \union {"none"}
<1>1. DOMAIN DemoUseCases \subseteq DOMAIN useCases
    BY DEF PostureInv
<1>2. Edited \subseteq DOMAIN useCases
    BY <1>1, PostureAssumption DEF Edited
<1>3. \A u \in DOMAIN useCases : useCases[u] \in UseCaseRecords
    BY DEF PostureInv
<1>4. ASSUME NEW r \in UseCaseRecords
      PROVE  /\ r.sources \subseteq DOMAIN DemoSources
             /\ r.agents \subseteq DOMAIN DemoAgents
             /\ r.model \in DOMAIN DemoModels \union {"none"}
    BY DEF UseCaseRecords
<1> QED
    BY <1>2, <1>3, <1>4

\* The links between the records stay as they are.
LinksKept ==
    /\ \A c \in DOMAIN DemoSecurity : security'[c].assets = security[c].assets
    /\ \A c \in DOMAIN DemoPrivacy : privacy'[c].assets = privacy[c].assets
    /\ \A i \in DOMAIN DemoIncidents : incidents'[i].asset = incidents[i].asset

LEMMA UseCaseEdited ==
    ASSUME PostureInv, NEW u \in DOMAIN useCases, NEW record \in UseCaseRecords,
           EditUseCase(u, record)
    PROVE  PostureInv' /\ LinksKept /\ DOMAIN useCases' = DOMAIN useCases
<1>1. useCases' = [useCases EXCEPT ![u] = record]
    BY DEF EditUseCase
<1>2. DOMAIN useCases' = DOMAIN useCases /\ useCases' \in [DOMAIN useCases' -> UseCaseRecords]
    BY <1>1 DEF PostureInv
<1> QED
    BY <1>2 DEF PostureInv, EditUseCase, LinksKept

\* What an edit makes of a use case's record is a record.
LEMMA RecordUpdates ==
    ASSUME NEW r \in UseCaseRecords
    PROVE  /\ \A key \in EvidenceKeys : [r EXCEPT !.details = @ \union {key}] \in UseCaseRecords
           /\ \A a \in DOMAIN DemoAgents : [r EXCEPT !.agents = @ \union {a}] \in UseCaseRecords
           /\ [r EXCEPT !.evidence = "complete"] \in UseCaseRecords
           /\ \A status \in Authorities : [r EXCEPT !.authority = status] \in UseCaseRecords
           /\ \A status \in GateStatuses : [r EXCEPT !.gate = status] \in UseCaseRecords
<1>1. ASSUME NEW key \in EvidenceKeys
      PROVE  [r EXCEPT !.details = @ \union {key}] \in UseCaseRecords
  <2>1. r.details \union {key} \in SUBSET EvidenceKeys
      BY DEF UseCaseRecords
  <2> QED
      BY <2>1 DEF UseCaseRecords
<1>2. ASSUME NEW a \in DOMAIN DemoAgents
      PROVE  [r EXCEPT !.agents = @ \union {a}] \in UseCaseRecords
  <2>1. r.agents \union {a} \in SUBSET DOMAIN DemoAgents
      BY DEF UseCaseRecords
  <2> QED
      BY <2>1 DEF UseCaseRecords
<1>3. [r EXCEPT !.evidence = "complete"] \in UseCaseRecords
  <2>1. "complete" \in EvidenceStatuses
      BY DEF EvidenceStatuses
  <2> QED
      BY <2>1 DEF UseCaseRecords
<1>4. \A status \in Authorities : [r EXCEPT !.authority = status] \in UseCaseRecords
    BY DEF UseCaseRecords
<1>5. \A status \in GateStatuses : [r EXCEPT !.gate = status] \in UseCaseRecords
    BY DEF UseCaseRecords
<1> QED
    BY <1>1, <1>2, <1>3, <1>4, <1>5

LEMMA UseCaseStepKeeps ==
    ASSUME PostureInv, NEW u \in DOMAIN useCases,
           \/ CollectEvidence(u) \/ CompleteEvidence(u) \/ ConfirmAuthority(u)
           \/ LoseAuthority(u) \/ MoveGate(u)
           \/ \E a \in DOMAIN agents : RegisterAgent(u, a)
    PROVE  PostureInv' /\ LinksKept /\ DOMAIN useCases' = DOMAIN useCases
<1> DEFINE Good == PostureInv' /\ LinksKept /\ DOMAIN useCases' = DOMAIN useCases
<1>1. useCases[u] \in UseCaseRecords
    BY EditedExist
<1>2. ASSUME NEW record \in UseCaseRecords, EditUseCase(u, record) PROVE Good
    BY <1>2, UseCaseEdited
<1> HIDE DEF Good
<1>3. CASE CollectEvidence(u)
  <2>1. PICK key \in EvidenceKeys \ useCases[u].details :
            EditUseCase(u, [useCases[u] EXCEPT !.details = @ \union {key}])
      BY <1>3 DEF CollectEvidence
  <2>2. [useCases[u] EXCEPT !.details = @ \union {key}] \in UseCaseRecords
      BY <1>1, RecordUpdates
  <2> QED
      BY <1>2, <2>1, <2>2 DEF Good
<1>4. CASE CompleteEvidence(u)
  <2>1. [useCases[u] EXCEPT !.evidence = "complete"] \in UseCaseRecords
      BY <1>1, RecordUpdates
  <2> QED
      BY <1>2, <1>4, <2>1 DEF CompleteEvidence, Good
<1>5. CASE ConfirmAuthority(u)
  <2>1. [useCases[u] EXCEPT !.authority = "confirmed"] \in UseCaseRecords
      BY <1>1, RecordUpdates DEF Authorities
  <2> QED
      BY <1>2, <1>5, <2>1 DEF ConfirmAuthority, Good
<1>6. CASE LoseAuthority(u)
  <2>1. PICK status \in {"missing", "escalation_required"} :
            EditUseCase(u, [useCases[u] EXCEPT !.authority = status])
      BY <1>6 DEF LoseAuthority
  <2>2. status \in Authorities
      BY DEF Authorities
  <2>3. [useCases[u] EXCEPT !.authority = status] \in UseCaseRecords
      BY <1>1, <2>2, RecordUpdates
  <2> QED
      BY <1>2, <2>1, <2>3 DEF Good
<1>7. CASE MoveGate(u)
  <2>1. PICK status \in GateStatuses : EditUseCase(u, [useCases[u] EXCEPT !.gate = status])
      BY <1>7 DEF MoveGate
  <2>2. [useCases[u] EXCEPT !.gate = status] \in UseCaseRecords
      BY <1>1, RecordUpdates
  <2> QED
      BY <1>2, <2>1, <2>2 DEF Good
<1>8. CASE \E a \in DOMAIN agents : RegisterAgent(u, a)
  <2>1. PICK a \in DOMAIN agents : EditUseCase(u, [useCases[u] EXCEPT !.agents = @ \union {a}])
      BY <1>8 DEF RegisterAgent
  <2>2. a \in DOMAIN DemoAgents
      BY <2>1 DEF PostureInv, Rated
  <2>3. [useCases[u] EXCEPT !.agents = @ \union {a}] \in UseCaseRecords
      BY <1>1, <2>2, RecordUpdates
  <2> QED
      BY <1>2, <2>1, <2>3 DEF Good
<1> QED
    BY <1>3, <1>4, <1>5, <1>6, <1>7, <1>8

\* A status that is restated was one of a record that exists.
RestateOne ==
    \/ \E s \in DOMAIN DemoSources : RestateSource(s)
    \/ \E m \in DOMAIN DemoModels : RestateModel(m)
    \/ \E c \in DOMAIN DemoSecurity : RestateSecurity(c)
    \/ \E c \in DOMAIN DemoPrivacy : RestatePrivacy(c)
    \/ \E m \in DOMAIN DemoMappings : RestateMapping(m)
    \/ \E a \in DOMAIN DemoAgents : RestateAgent(a)
    \/ \E i \in DOMAIN DemoIncidents : RestateIncident(i)

LEMMA RestateKeeps ==
    ASSUME PostureInv, RestateOne
    PROVE  PostureInv' /\ LinksKept /\ UNCHANGED useCases
<1>1. CASE \E s \in DOMAIN DemoSources : RestateSource(s)
  <2>1. PICK s \in DOMAIN DemoSources, status \in EvidenceStatuses :
            /\ sources' = [sources EXCEPT ![s].status = status]
            /\ UNCHANGED <<useCases, agents, models, security, privacy, reviews, incidents, mappings>>
      BY <1>1 DEF RestateSource, Restated
  <2>2. Rated(sources', DOMAIN DemoSources, EvidenceStatuses, {})
      BY <2>1, RestatedKeeps DEF PostureInv
  <2> QED
      BY <2>1, <2>2 DEF PostureInv, LinksKept
<1>2. CASE \E m \in DOMAIN DemoModels : RestateModel(m)
  <2>1. PICK m \in DOMAIN DemoModels, status \in EvidenceStatuses :
            /\ models' = [models EXCEPT ![m].status = status]
            /\ UNCHANGED <<useCases, agents, sources, security, privacy, reviews, incidents, mappings>>
      BY <1>2 DEF RestateModel, Restated
  <2>2. Rated(models', DOMAIN DemoModels, EvidenceStatuses, {})
      BY <2>1, RestatedKeeps DEF PostureInv
  <2> QED
      BY <2>1, <2>2 DEF PostureInv, LinksKept
<1>3. CASE \E c \in DOMAIN DemoSecurity : RestateSecurity(c)
  <2>1. PICK c \in DOMAIN DemoSecurity, status \in EvidenceStatuses :
            /\ security' = [security EXCEPT ![c].status = status]
            /\ UNCHANGED <<useCases, agents, models, sources, privacy, reviews, incidents, mappings>>
      BY <1>3 DEF RestateSecurity, Restated
  <2>2. /\ Rated(security', DOMAIN DemoSecurity, EvidenceStatuses, {"assets"})
        /\ \A y \in DOMAIN DemoSecurity : security'[y]["assets"] = security[y]["assets"]
    <3> DEFINE F == {"assets"}
    <3>1. "status" \notin F /\ "assets" \in F /\ Rated(security, DOMAIN DemoSecurity, EvidenceStatuses, F)
        BY DEF PostureInv
    <3> HIDE DEF F
    <3>2. Rated(security', DOMAIN DemoSecurity, EvidenceStatuses, F)
        BY <2>1, <3>1, RestatedKeeps
    <3>3. \A y \in DOMAIN DemoSecurity, field \in F : security'[y][field] = security[y][field]
        BY <2>1, <3>1, RestatedKeeps
    <3> QED
        BY <3>1, <3>2, <3>3 DEF F
  <2> QED
      BY <2>1, <2>2 DEF PostureInv, LinksKept
<1>4. CASE \E c \in DOMAIN DemoPrivacy : RestatePrivacy(c)
  <2>1. PICK c \in DOMAIN DemoPrivacy, status \in EvidenceStatuses :
            /\ privacy' = [privacy EXCEPT ![c].status = status]
            /\ UNCHANGED <<useCases, agents, models, sources, security, reviews, incidents, mappings>>
      BY <1>4 DEF RestatePrivacy, Restated
  <2>2. /\ Rated(privacy', DOMAIN DemoPrivacy, EvidenceStatuses, {"assets"})
        /\ \A y \in DOMAIN DemoPrivacy : privacy'[y]["assets"] = privacy[y]["assets"]
    <3> DEFINE F == {"assets"}
    <3>1. "status" \notin F /\ "assets" \in F /\ Rated(privacy, DOMAIN DemoPrivacy, EvidenceStatuses, F)
        BY DEF PostureInv
    <3> HIDE DEF F
    <3>2. Rated(privacy', DOMAIN DemoPrivacy, EvidenceStatuses, F)
        BY <2>1, <3>1, RestatedKeeps
    <3>3. \A y \in DOMAIN DemoPrivacy, field \in F : privacy'[y][field] = privacy[y][field]
        BY <2>1, <3>1, RestatedKeeps
    <3> QED
        BY <3>1, <3>2, <3>3 DEF F
  <2> QED
      BY <2>1, <2>2 DEF PostureInv, LinksKept
<1>5. CASE \E m \in DOMAIN DemoMappings : RestateMapping(m)
  <2>1. PICK m \in DOMAIN DemoMappings, status \in EvidenceStatuses :
            /\ mappings' = [mappings EXCEPT ![m].status = status]
            /\ UNCHANGED <<useCases, agents, models, sources, security, privacy, reviews, incidents>>
      BY <1>5 DEF RestateMapping, Restated
  <2>2. Rated(mappings', DOMAIN DemoMappings, EvidenceStatuses, {})
      BY <2>1, RestatedKeeps DEF PostureInv
  <2> QED
      BY <2>1, <2>2 DEF PostureInv, LinksKept
<1>6. CASE \E a \in DOMAIN DemoAgents : RestateAgent(a)
  <2>1. PICK a \in DOMAIN DemoAgents, status \in AgentStatuses :
            /\ agents' = [agents EXCEPT ![a].status = status]
            /\ UNCHANGED <<useCases, models, sources, security, privacy, reviews, incidents, mappings>>
      BY <1>6 DEF RestateAgent, Restated
  <2>2. Rated(agents', DOMAIN DemoAgents, AgentStatuses, {})
      BY <2>1, RestatedKeeps DEF PostureInv
  <2> QED
      BY <2>1, <2>2 DEF PostureInv, LinksKept
<1>7. CASE \E i \in DOMAIN DemoIncidents : RestateIncident(i)
  <2>1. PICK i \in DOMAIN DemoIncidents, status \in IncidentStatuses :
            /\ incidents' = [incidents EXCEPT ![i].status = status]
            /\ UNCHANGED <<useCases, agents, models, sources, security, privacy, reviews, mappings>>
      BY <1>7 DEF RestateIncident, Restated, IncidentStatuses
  <2>2. /\ Rated(incidents', DOMAIN DemoIncidents, IncidentStatuses, {"asset"})
        /\ \A y \in DOMAIN DemoIncidents : incidents'[y]["asset"] = incidents[y]["asset"]
    <3> DEFINE F == {"asset"}
    <3>1. "status" \notin F /\ "asset" \in F /\ Rated(incidents, DOMAIN DemoIncidents, IncidentStatuses, F)
        BY DEF PostureInv
    <3> HIDE DEF F
    <3>2. Rated(incidents', DOMAIN DemoIncidents, IncidentStatuses, F)
        BY <2>1, <3>1, RestatedKeeps
    <3>3. \A y \in DOMAIN DemoIncidents, field \in F : incidents'[y][field] = incidents[y][field]
        BY <2>1, <3>1, RestatedKeeps
    <3> QED
        BY <3>1, <3>2, <3>3 DEF F
  <2> QED
      BY <2>1, <2>2 DEF PostureInv, LinksKept
<1> QED
    BY <1>1, <1>2, <1>3, <1>4, <1>5, <1>6, <1>7 DEF RestateOne

LEMMA ReviewStepKeeps ==
    ASSUME PostureInv, NEW u \in DOMAIN useCases,
           DropReview(u) \/ \E decision \in Decisions : RecordReview(u, decision)
    PROVE  PostureInv' /\ LinksKept /\ UNCHANGED useCases
<1>1. CASE DropReview(u)
    BY <1>1 DEF DropReview, PostureInv, LinksKept
<1>2. CASE \E decision \in Decisions : RecordReview(u, decision)
  <2>1. PICK decision \in Decisions : RecordReview(u, decision)
      BY <1>2
  <2>2. <<u, decision>> \in (DOMAIN useCases) \X Decisions
      OBVIOUS
  <2>3. reviews' \subseteq (DOMAIN useCases) \X Decisions
      BY <2>1, <2>2 DEF RecordReview, PostureInv
  <2> QED
      BY <2>1, <2>3 DEF RecordReview, PostureInv, LinksKept
<1> QED
    BY <1>1, <1>2

LEMMA NeutralIsRecord ==
    ASSUME NEW risk \in Risks, NEW access \in Accesses
    PROVE  NeutralUseCase(risk, access) \in UseCaseRecords
BY GateStatusesAre DEF NeutralUseCase, Asset, UseCaseRecords, EvidenceStatuses, Authorities

LEMMA CreateKeeps ==
    ASSUME PostureInv, CreateUseCase
    PROVE  PostureInv' /\ LinksKept
<1>1. PICK risk \in Risks, access \in Accesses :
        useCases' = [u \in DOMAIN useCases \union {"uc-new"} |->
                      IF u = "uc-new" THEN NeutralUseCase(risk, access) ELSE useCases[u]]
    BY DEF CreateUseCase, Accesses
<1> DEFINE new == NeutralUseCase(risk, access)
<1>2. new \in UseCaseRecords
    BY NeutralIsRecord
<1> HIDE DEF new
<1>3. /\ DOMAIN useCases' = DOMAIN useCases \union {"uc-new"}
      /\ useCases' \in [DOMAIN useCases' -> UseCaseRecords]
    BY <1>1, <1>2 DEF PostureInv, new
<1>4. DOMAIN useCases' = DOMAIN DemoUseCases \union {"uc-new"}
    BY <1>3 DEF PostureInv
<1>5. UNCHANGED <<agents, models, sources, security, privacy, reviews, incidents, mappings>>
    BY DEF CreateUseCase
<1>6. reviews' \subseteq (DOMAIN useCases') \X Decisions
    BY <1>3, <1>5 DEF PostureInv
<1> QED
    BY <1>3, <1>4, <1>5, <1>6 DEF PostureInv, LinksKept

LEMMA StepKeeps ==
    ASSUME PostureInv, Next
    PROVE  PostureInv' /\ LinksKept
<1>1. CASE CreateUseCase
    BY <1>1, CreateKeeps
<1>2. ASSUME NEW u \in Edited,
             \/ CollectEvidence(u) \/ CompleteEvidence(u) \/ ConfirmAuthority(u)
             \/ LoseAuthority(u) \/ MoveGate(u)
             \/ \E a \in DOMAIN agents : RegisterAgent(u, a)
      PROVE  PostureInv' /\ LinksKept
    BY <1>2, EditedExist, UseCaseStepKeeps
<1>3. ASSUME NEW u \in Edited, DropReview(u) \/ \E decision \in Decisions : RecordReview(u, decision)
      PROVE  PostureInv' /\ LinksKept
    BY <1>3, EditedExist, ReviewStepKeeps
<1>4. ASSUME NEW u \in Edited,
             \/ \E s \in useCases[u].sources : RestateSource(s)
             \/ \E m \in {useCases[u].model} \ {"none"} : RestateModel(m)
             \/ \E c \in Applied(security, u) : RestateSecurity(c)
             \/ \E c \in Applied(privacy, u) : RestatePrivacy(c)
             \/ \E a \in useCases[u].agents : RestateAgent(a)
             \/ \E i \in {j \in DOMAIN incidents : incidents[j].asset = u} : RestateIncident(i)
      PROVE  PostureInv' /\ LinksKept
  <2>1. /\ useCases[u].sources \subseteq DOMAIN DemoSources
        /\ useCases[u].agents \subseteq DOMAIN DemoAgents
        /\ useCases[u].model \in DOMAIN DemoModels \union {"none"}
      BY EditedExist
  <2>2. /\ Applied(security, u) \subseteq DOMAIN DemoSecurity
        /\ Applied(privacy, u) \subseteq DOMAIN DemoPrivacy
        /\ DOMAIN incidents = DOMAIN DemoIncidents
      BY DEF PostureInv, Rated, Applied
  <2>3. RestateOne
      BY <1>4, <2>1, <2>2 DEF RestateOne
  <2> QED
      BY <2>3, RestateKeeps
<1>5. CASE \E m \in DOMAIN mappings : RestateMapping(m)
  <2>1. DOMAIN mappings = DOMAIN DemoMappings
      BY DEF PostureInv, Rated
  <2> QED
      BY <1>5, <2>1, RestateKeeps DEF RestateOne
<1> QED
    BY <1>1, <1>2, <1>3, <1>4, <1>5 DEF Next

\* Whatever the forms edit, the registers stay typed, and only use cases that exist are
\* reviewed: what governance-engine.ts and integrity.ts compute from.
THEOREM PostureInvariant == Spec => []PostureInv
<1>1. Init => PostureInv
    BY DemoUseCasesTyped, DemoRegistersRated, DemoReviewsTyped DEF Init, PostureInv
<1>2. PostureInv /\ [Next]_vars => PostureInv'
  <2>1. PostureInv /\ Next => PostureInv'
      BY StepKeeps
  <2>2. PostureInv /\ UNCHANGED vars => PostureInv'
      BY DEF PostureInv, vars
  <2> QED
      BY <2>1, <2>2
<1> QED
    BY <1>1, <1>2, PTL DEF Spec

\* OversightChecksAgree: the oversight layer of governance-engine.ts and the oversight check
\* of integrity.ts agree on who lacks a review.
THEOREM OversightAgrees == Spec => []OversightChecksAgree
<1>1. PostureInv => OversightChecksAgree
    BY DEF OversightChecksAgree, MissingReview, NeedsExplicitOversight, DecisionPacketLayers,
           OversightSeverity, ReadyOrHighRisk
<1> QED
    BY <1>1, PostureInvariant, PTL

LEMMA StatusesRated ==
    ASSUME NEW r, NEW keys, NEW F, Rated(r, keys, EvidenceStatuses, F), NEW S, S \subseteq keys
    PROVE  /\ \A x \in S : r[x].status \in StatusesOf(r, S)
           /\ \A status \in StatusesOf(r, S) :
                status \in EvidenceStatuses /\ \E x \in S : r[x].status = status
BY DEF Rated, StatusesOf

\* The severity of a set of statuses, and whether all of them are complete.
LEMMA SeverityOfSet ==
    ASSUME NEW S, S \subseteq EvidenceStatuses
    PROVE  /\ SeverityOf(S) = "critical" <=> "missing" \in S
           /\ SeverityOf(S) = "ok" <=> S = {"complete"}
           /\ SeverityOf(S) \in {"ok", "warning", "critical"}
BY DEF SeverityOf, EvidenceStatuses

\* SeverityMatchesGap: in the layers governance-engine.ts computes from the registers a
\* critical layer names a gap, and a layer that names one is not ok.
THEOREM SeverityMatches == Spec => []SeverityMatchesGap
<1>1. PostureInv => SeverityMatchesGap
  <2> SUFFICES ASSUME PostureInv, NEW u \in DOMAIN useCases,
                      NEW layer \in Layers \ {"ai_inventory", "human_oversight"}
               PROVE  /\ DecisionPacketLayers(u)[layer] = "critical" => layer \in GapNamed(u)
                      /\ layer \in GapNamed(u) => DecisionPacketLayers(u)[layer] # "ok"
      BY DEF SeverityMatchesGap
  <2>1. /\ Rated(sources, DOMAIN DemoSources, EvidenceStatuses, {})
        /\ Rated(models, DOMAIN DemoModels, EvidenceStatuses, {})
        /\ Rated(security, DOMAIN DemoSecurity, EvidenceStatuses, {"assets"})
        /\ Rated(privacy, DOMAIN DemoPrivacy, EvidenceStatuses, {"assets"})
      BY DEF PostureInv
  <2>2. /\ useCases[u].sources \subseteq DOMAIN DemoSources
        /\ useCases[u].model \in DOMAIN DemoModels \union {"none"}
      BY EditedExist
  <2>3. CASE layer = "data_foundation"
    <3> DEFINE S == useCases[u].sources
               T == StatusesOf(sources, S)
    <3>1. /\ \A x \in S : sources[x].status \in T
          /\ \A status \in T : status \in EvidenceStatuses /\ \E x \in S : sources[x].status = status
        BY <2>1, <2>2, StatusesRated
    <3>2. layer \in GapNamed(u) <=> \E s \in S : sources[s].status # "complete"
        BY <2>3 DEF GapNamed, Layers
    <3>3. DecisionPacketLayers(u)[layer] = SeverityOf(T)
        BY <2>3 DEF DecisionPacketLayers
    <3> HIDE DEF S, T
    <3>4. T \subseteq EvidenceStatuses
        BY <3>1
    <3> QED
        BY <3>1, <3>2, <3>3, <3>4, SeverityOfSet
  <2>4. CASE layer = "model_lifecycle"
    <3> DEFINE T == ModelStatuses(u)
    <3>1. T \subseteq EvidenceStatuses
        BY <2>1, <2>2 DEF ModelStatuses, Rated
    <3>2. layer \in GapNamed(u) <=> T # {"complete"}
        BY <2>4 DEF GapNamed, Layers
    <3>3. DecisionPacketLayers(u)[layer] = SeverityOf(T)
        BY <2>4 DEF DecisionPacketLayers
    <3> HIDE DEF T
    <3> QED
        BY <3>1, <3>2, <3>3, SeverityOfSet
  <2>5. CASE layer = "data_security_privacy"
    <3> DEFINE T == ControlStatuses(u)
    <3>1. T \subseteq EvidenceStatuses
      <4>1. Applied(security, u) \subseteq DOMAIN DemoSecurity /\ Applied(privacy, u) \subseteq DOMAIN DemoPrivacy
          BY <2>1 DEF Rated, Applied
      <4>2. StatusesOf(security, Applied(security, u)) \subseteq EvidenceStatuses
          BY <2>1, <4>1, StatusesRated
      <4>3. StatusesOf(privacy, Applied(privacy, u)) \subseteq EvidenceStatuses
          BY <2>1, <4>1, StatusesRated
      <4> QED
          BY <4>2, <4>3 DEF ControlStatuses
    <3>2. layer \in GapNamed(u) <=> T \ {"complete"} # {}
        BY <2>5 DEF GapNamed, Layers
    <3>3. DecisionPacketLayers(u)[layer] = SeverityOf(T)
        BY <2>5 DEF DecisionPacketLayers
    <3> HIDE DEF T
    <3> QED
        BY <3>1, <3>2, <3>3, SeverityOfSet
  <2>6. CASE layer = "access_control"
    <3>1. layer \in GapNamed(u) <=> "policy_boundary" \notin useCases[u].details
        BY <2>6 DEF GapNamed, Layers
    <3> QED
        BY <2>6, <3>1 DEF DecisionPacketLayers
  <2>7. CASE layer = "agent_governance"
    <3>1. layer \in GapNamed(u) <=> LacksAgent(u)
        BY <2>7 DEF GapNamed, Layers
    <3> QED
        BY <2>7, <3>1 DEF DecisionPacketLayers, AgentSeverity
  <2>8. CASE layer = "compliance_audit"
    <3>1. layer \in GapNamed(u) <=> useCases[u].evidence # "complete"
        BY Zenon, <2>8 DEF GapNamed, Layers
    <3> QED
        BY <2>8, <3>1 DEF DecisionPacketLayers
  <2> QED
      BY <2>3, <2>4, <2>5, <2>6, <2>7, <2>8 DEF Layers
<1> QED
    BY <1>1, PostureInvariant, PTL
-----------------------------------------------------------------------------
(* The averages. *)

LEMMA Quotient ==
    ASSUME NEW a \in Nat, NEW n \in Nat \ {0}
    PROVE  a \div n \in Nat /\ (a \div n) * n <= a /\ a < (a \div n) * n + n
OBVIOUS

LEMMA QuotientAtLeast ==
    ASSUME NEW a \in Nat, NEW n \in Nat \ {0}, NEW q \in Nat, q * n <= a
    PROVE  q <= a \div n
<1> DEFINE p == a \div n
<1>1. p \in Nat /\ a < p * n + n
    BY Quotient
<1> HIDE DEF p
<1>2. ASSUME p < q PROVE FALSE
  <2>1. p + 1 <= q
      BY <1>1, <1>2
  <2>2. PICK k \in Nat : q = p + 1 + k
    <3>1. q - (p + 1) \in Nat /\ q = p + 1 + (q - (p + 1))
        BY <1>1, <2>1
    <3> QED
        BY <3>1
  <2>3. q * n = p * n + n + k * n
      BY <1>1, <2>2
  <2>4. k * n \in Nat /\ p * n \in Nat
      BY <1>1
  <2> QED
      BY <1>1, <2>3, <2>4
<1>3. q <= p
    BY <1>1, <1>2
<1> QED
    BY <1>3 DEF p

LEMMA QuotientOrdered ==
    ASSUME NEW a \in Nat, NEW b \in Nat, a <= b, NEW n \in Nat \ {0}
    PROVE  a \div n <= b \div n
<1>1. a \div n \in Nat /\ (a \div n) * n <= a
    BY Quotient
<1> DEFINE q == a \div n
<1>2. q \in Nat /\ q * n \in Nat /\ q * n <= b
    BY <1>1
<1> HIDE DEF q
<1>3. q <= b \div n
    BY <1>2, QuotientAtLeast
<1> QED
    BY <1>3 DEF q

LEMMA QuotientAtMost ==
    ASSUME NEW a \in Nat, NEW n \in Nat \ {0}, NEW q \in Nat, a < q * n + n
    PROVE  a \div n <= q
<1> DEFINE p == a \div n
<1>1. p \in Nat /\ p * n <= a
    BY Quotient
<1> HIDE DEF p
<1>2. ASSUME q < p PROVE FALSE
  <2>1. PICK k \in Nat : p = q + 1 + k
    <3>1. p - (q + 1) \in Nat /\ p = q + 1 + (p - (q + 1))
        BY <1>1, <1>2
    <3> QED
        BY <3>1
  <2>2. p * n = q * n + n + k * n
      BY <2>1
  <2>3. k * n \in Nat /\ q * n \in Nat
      OBVIOUS
  <2> QED
      BY <1>1, <2>2, <2>3
<1>3. p <= q
    BY <1>1, <1>2
<1> QED
    BY <1>3 DEF p

LEMMA PercentBounds ==
    ASSUME NEW f, NEW S, IsFiniteSet(S), \A x \in S : f[x] \in 0..2
    PROVE  AveragePercent(f, S) \in 0..100
<1>1. CASE S = {}
    BY <1>1 DEF AveragePercent
<1>2. CASE S # {}
  <2> DEFINE n == Cardinality(S)
             s == SumOver(f, S)
  <2>1. n \in Nat \ {0} /\ s \in 0..(2 * n)
      BY <1>2, SumOverBounds, FS_CardinalityType, FS_EmptySet
  <2>2. AveragePercent(f, S) = (100 * s + n) \div (2 * n)
      BY <1>2 DEF AveragePercent
  <2> HIDE DEF n, s
  <2>3. 100 * s + n \in Nat /\ 2 * n \in Nat \ {0} /\ 100 * s + n < 100 * (2 * n) + 2 * n
      BY <2>1
  <2>4. (100 * s + n) \div (2 * n) \in Nat /\ (100 * s + n) \div (2 * n) <= 100
      BY <2>3, Quotient, QuotientAtMost
  <2> QED
      BY <2>2, <2>4
<1> QED
    BY <1>1, <1>2

LEMMA PercentOrdered ==
    ASSUME NEW f, NEW e, NEW S, IsFiniteSet(S),
           \A x \in S : f[x] \in 0..2 /\ e[x] \in 0..2 /\ f[x] <= e[x]
    PROVE  AveragePercent(f, S) <= AveragePercent(e, S)
<1>1. CASE S = {}
    BY <1>1 DEF AveragePercent
<1>2. CASE S # {}
  <2> DEFINE n == Cardinality(S)
             s == SumOver(f, S)
             t == SumOver(e, S)
  <2>1. n \in Nat \ {0} /\ s \in 0..(2 * n) /\ t \in 0..(2 * n)
      BY <1>2, SumOverBounds, FS_CardinalityType, FS_EmptySet
  <2>2. s <= t
      BY SumOverOrdered
  <2>3. /\ AveragePercent(f, S) = (100 * s + n) \div (2 * n)
        /\ AveragePercent(e, S) = (100 * t + n) \div (2 * n)
      BY <1>2 DEF AveragePercent
  <2> HIDE DEF n, s, t
  <2>4. /\ 100 * s + n \in Nat /\ 100 * t + n \in Nat /\ 2 * n \in Nat \ {0}
        /\ 100 * s + n <= 100 * t + n
      BY <2>1, <2>2
  <2> QED
      BY <2>3, <2>4, QuotientOrdered
<1> QED
    BY <1>1, <1>2

\* A full score that is added never lowers an average.
LEMMA PercentOneMore ==
    ASSUME NEW f, NEW e, NEW S, IsFiniteSet(S), NEW y, y \notin S,
           \A x \in S : f[x] \in 0..2 /\ e[x] = f[x], e[y] = 2
    PROVE  AveragePercent(f, S) <= AveragePercent(e, S \union {y})
<1> DEFINE R == S \union {y}
<1>1. IsFiniteSet(R) /\ (\A x \in R : e[x] \in 0..2) /\ Cardinality(R) = Cardinality(S) + 1
    BY FS_AddElement
<1>2. R # {}
    OBVIOUS
<1>3. SumOver(e, R) = 2 + SumOver(f, S)
  <2>1. e[y] \in 0..2
      OBVIOUS
  <2> QED
      BY <2>1, SumOverOneMore
<1> DEFINE n == Cardinality(S)
           s == SumOver(f, S)
<1>4. n \in Nat /\ s \in 0..(2 * n)
    BY SumOverBounds, FS_CardinalityType
<1>5. AveragePercent(e, R) = (100 * (2 + s) + (n + 1)) \div (2 * (n + 1))
    BY <1>1, <1>2, <1>3 DEF AveragePercent
<1>6. AveragePercent(e, R) \in 0..100
    BY <1>1, PercentBounds
<1>7. CASE S = {}
  <2>1. AveragePercent(f, S) = 0
      BY <1>7 DEF AveragePercent
  <2> QED
      BY <1>6, <2>1
<1>8. CASE S # {}
  <2> DEFINE q == AveragePercent(f, S)
  <2>1. q = (100 * s + n) \div (2 * n) /\ n # 0
      BY <1>8, FS_EmptySet DEF AveragePercent
  <2>2. q \in 0..100
      BY PercentBounds
  <2> HIDE DEF R, n, s, q
  <2>3. q * (2 * n) <= 100 * s + n
    <3>1. 100 * s + n \in Nat /\ 2 * n \in Nat \ {0}
        BY <1>4, <2>1
    <3> QED
        BY <2>1, <3>1, Quotient
  <2>4. q * (2 * (n + 1)) = q * (2 * n) + 2 * q
      BY <1>4, <2>2
  <2>5. q * (2 * (n + 1)) <= 100 * (2 + s) + (n + 1)
      BY <1>4, <2>2, <2>3, <2>4
  <2>6. 100 * (2 + s) + (n + 1) \in Nat /\ 2 * (n + 1) \in Nat \ {0} /\ q \in Nat
      BY <1>4, <2>2
  <2>7. q <= (100 * (2 + s) + (n + 1)) \div (2 * (n + 1))
      BY <2>5, <2>6, QuotientAtLeast
  <2> QED
      BY <1>5, <2>7 DEF q, R
<1> QED
    BY <1>7, <1>8

LEMMA StatusScores ==
    /\ StatusScore("complete") = 2 /\ StatusScore("partial") = 1 /\ StatusScore("missing") = 0
    /\ \A status \in EvidenceStatuses : StatusScore(status) \in 0..2
<1>1. StatusScore("complete") = 2 /\ StatusScore("partial") = 1 /\ StatusScore("missing") = 0
    BY DEF StatusScore
<1> QED
    BY <1>1 DEF EvidenceStatuses

LEMMA ReviewScores ==
    ASSUME NEW review
    PROVE  /\ ReviewScore(review) \in 0..2
           /\ review[2] = "approved_for_next_stage" => ReviewScore(review) = 2
<1>1. /\ review[2] = "approved_for_next_stage" => ReviewScore(review) = 2
      /\ review[2] # "approved_for_next_stage" /\ review[2] = "escalated" => ReviewScore(review) = 1
      /\ review[2] # "approved_for_next_stage" /\ review[2] # "escalated" => ReviewScore(review) = 0
    BY Zenon DEF ReviewScore
<1> QED
    BY <1>1
-----------------------------------------------------------------------------
(* Mending steps. *)

\* What a mending step may do to a use case's record.
MendedRecord(r, q) ==
    /\ <<q.gate, q.risk, q.access, q.agents, q.model, q.sources>>
        = <<r.gate, r.risk, r.access, r.agents, r.model, r.sources>>
    /\ r.details \subseteq q.details
    /\ q.evidence \in {r.evidence, "complete"} /\ q.authority \in {r.authority, "confirmed"}

\* What it does to a register.
MendedRegister(r, q, keys) ==
    \A x \in keys : \/ q[x].status = r[x].status
                    \/ r[x].status = "missing"
                    \/ q[x].status \in {"complete", "active", "resolved"}

\* Registers, reviews and use cases after a step are those before, mended.
Mended ==
    /\ DOMAIN useCases' = DOMAIN useCases
    /\ \A u \in DOMAIN useCases : MendedRecord(useCases[u], useCases'[u])
    /\ \/ reviews' = reviews
       \/ \E u \in DOMAIN useCases : reviews' = reviews \union {<<u, "approved_for_next_stage">>}
    /\ MendedRegister(models, models', DOMAIN DemoModels)
    /\ MendedRegister(sources, sources', DOMAIN DemoSources)
    /\ MendedRegister(security, security', DOMAIN DemoSecurity)
    /\ MendedRegister(privacy, privacy', DOMAIN DemoPrivacy)
    /\ MendedRegister(mappings, mappings', DOMAIN DemoMappings)
    /\ MendedRegister(agents, agents', DOMAIN DemoAgents)
    /\ MendedRegister(incidents, incidents', DOMAIN DemoIncidents)

LEMMA RecordMended ==
    ASSUME PostureInv, NEW u \in DOMAIN useCases, NEW record \in UseCaseRecords,
           MendedRecord(useCases[u], record), EditUseCase(u, record)
    PROVE  /\ DOMAIN useCases' = DOMAIN useCases /\ reviews' = reviews
           /\ \A v \in DOMAIN useCases : MendedRecord(useCases[v], useCases'[v])
<1>1. useCases' = [useCases EXCEPT ![u] = record] /\ reviews' = reviews
    BY DEF EditUseCase
<1>2. \A v \in DOMAIN useCases : useCases'[v] = IF v = u THEN record ELSE useCases[v]
    BY <1>1
<1>3. \A v \in DOMAIN useCases : MendedRecord(useCases[v], useCases[v])
    BY DEF MendedRecord
<1> QED
    BY <1>1, <1>2, <1>3

LEMMA MendingMends ==
    ASSUME PostureInv, Mending
    PROVE  Mended
<1>1. /\ MendedRegister(models, models', DOMAIN DemoModels)
      /\ MendedRegister(sources, sources', DOMAIN DemoSources)
      /\ MendedRegister(security, security', DOMAIN DemoSecurity)
      /\ MendedRegister(privacy, privacy', DOMAIN DemoPrivacy)
      /\ MendedRegister(mappings, mappings', DOMAIN DemoMappings)
      /\ MendedRegister(agents, agents', DOMAIN DemoAgents)
      /\ MendedRegister(incidents, incidents', DOMAIN DemoIncidents)
    BY DEF Mending, Improved, MendedRegister, PostureInv, Rated
<1> DEFINE Same ==
      /\ DOMAIN useCases' = DOMAIN useCases /\ reviews' = reviews
      /\ \A v \in DOMAIN useCases : MendedRecord(useCases[v], useCases'[v])
<1>2. ASSUME NEW u \in DOMAIN useCases, NEW record \in UseCaseRecords,
             MendedRecord(useCases[u], record), EditUseCase(u, record)
      PROVE  Same
    BY <1>2, RecordMended
<1>3. \A v \in DOMAIN useCases : MendedRecord(useCases[v], useCases[v])
    BY DEF MendedRecord
<1>4. ASSUME NEW u \in DOMAIN useCases, CollectEvidence(u) PROVE Same
  <2>1. PICK key \in EvidenceKeys \ useCases[u].details :
            EditUseCase(u, [useCases[u] EXCEPT !.details = @ \union {key}])
      BY <1>4 DEF CollectEvidence
  <2> DEFINE record == [useCases[u] EXCEPT !.details = @ \union {key}]
  <2>2. useCases[u] \in UseCaseRecords /\ record \in UseCaseRecords
      BY EditedExist, RecordUpdates
  <2>3. MendedRecord(useCases[u], record)
      BY <2>2 DEF MendedRecord, UseCaseRecords
  <2> HIDE DEF Same
  <2> QED
      BY <1>2, <2>1, <2>2, <2>3
<1>5. ASSUME NEW u \in DOMAIN useCases, CompleteEvidence(u) PROVE Same
  <2> DEFINE record == [useCases[u] EXCEPT !.evidence = "complete"]
  <2>1. useCases[u] \in UseCaseRecords /\ record \in UseCaseRecords
      BY EditedExist, RecordUpdates
  <2>2. MendedRecord(useCases[u], record)
      BY <2>1 DEF MendedRecord, UseCaseRecords
  <2> HIDE DEF Same
  <2> QED
      BY <1>2, <1>5, <2>1, <2>2 DEF CompleteEvidence
<1>6. ASSUME NEW u \in DOMAIN useCases, ConfirmAuthority(u) PROVE Same
  <2> DEFINE record == [useCases[u] EXCEPT !.authority = "confirmed"]
  <2>1. useCases[u] \in UseCaseRecords /\ record \in UseCaseRecords
      BY EditedExist, RecordUpdates DEF Authorities
  <2>2. MendedRecord(useCases[u], record)
      BY <2>1 DEF MendedRecord, UseCaseRecords
  <2> HIDE DEF Same
  <2> QED
      BY <1>2, <1>6, <2>1, <2>2 DEF ConfirmAuthority
<1>7. ASSUME NEW u \in DOMAIN useCases, RecordReview(u, "approved_for_next_stage")
      PROVE  useCases' = useCases /\ reviews' = reviews \union {<<u, "approved_for_next_stage">>}
    BY <1>7 DEF RecordReview
<1>8. ASSUME UNCHANGED useCases, UNCHANGED reviews PROVE Same
    BY <1>3, <1>8
<1>9. \/ Same
      \/ \E u \in DOMAIN useCases :
            useCases' = useCases /\ reviews' = reviews \union {<<u, "approved_for_next_stage">>}
  <2> HIDE DEF Same
  <2> QED
      BY <1>4, <1>5, <1>6, <1>7, <1>8 DEF Mending
<1> QED
    BY <1>1, <1>3, <1>9 DEF Mended

\* The average over a register does not fall.
LEMMA StatusMended ==
    ASSUME NEW r, NEW q, NEW keys, IsFiniteSet(keys), NEW F, Rated(r, keys, EvidenceStatuses, F),
           Rated(q, keys, EvidenceStatuses, F), MendedRegister(r, q, keys)
    PROVE  \A x \in keys : /\ StatusScore(r[x].status) \in 0..2 /\ StatusScore(q[x].status) \in 0..2
                           /\ StatusScore(r[x].status) <= StatusScore(q[x].status)
<1> SUFFICES ASSUME NEW x \in keys
             PROVE  /\ StatusScore(r[x].status) \in 0..2 /\ StatusScore(q[x].status) \in 0..2
                    /\ StatusScore(r[x].status) <= StatusScore(q[x].status)
    OBVIOUS
<1>1. r[x].status \in EvidenceStatuses /\ q[x].status \in EvidenceStatuses
    BY DEF Rated
<1>2. \/ q[x].status = r[x].status
      \/ r[x].status = "missing"
      \/ q[x].status = "complete"
    BY <1>1 DEF MendedRegister, EvidenceStatuses
<1> QED
    BY <1>1, <1>2, StatusScores

LEMMA StatusPercentMended ==
    ASSUME NEW r, NEW q, NEW keys, IsFiniteSet(keys), NEW F, Rated(r, keys, EvidenceStatuses, F),
           Rated(q, keys, EvidenceStatuses, F), MendedRegister(r, q, keys)
    PROVE  StatusPercent(r) <= StatusPercent(q)
<1> DEFINE f == [x \in keys |-> StatusScore(r[x].status)]
           e == [x \in keys |-> StatusScore(q[x].status)]
<1>1. \A x \in keys : f[x] \in 0..2 /\ e[x] \in 0..2 /\ f[x] <= e[x]
    BY StatusMended
<1>2. DOMAIN r = keys /\ DOMAIN q = keys
    BY DEF Rated
<1>3. StatusPercent(r) = AveragePercent(f, keys) /\ StatusPercent(q) = AveragePercent(e, keys)
    BY <1>2 DEF StatusPercent
<1> HIDE DEF f, e
<1> QED
    BY <1>1, <1>3, PercentOrdered

LEMMA ControlPercentMended ==
    ASSUME PostureInv, PostureInv', Mended
    PROVE  ControlPercent(security, privacy) <= ControlPercent(security', privacy')
<1> DEFINE A == DOMAIN DemoSecurity
           B == DOMAIN DemoPrivacy
           K == A \union B
           f == [x \in K |-> StatusScore(IF x \in A THEN security[x].status ELSE privacy[x].status)]
           e == [x \in K |-> StatusScore(IF x \in A THEN security'[x].status ELSE privacy'[x].status)]
<1>1. /\ \A x \in A : /\ StatusScore(security[x].status) \in 0..2 /\ StatusScore(security'[x].status) \in 0..2
                      /\ StatusScore(security[x].status) <= StatusScore(security'[x].status)
      /\ \A x \in B : /\ StatusScore(privacy[x].status) \in 0..2 /\ StatusScore(privacy'[x].status) \in 0..2
                      /\ StatusScore(privacy[x].status) <= StatusScore(privacy'[x].status)
  <2>1. /\ Rated(security, A, EvidenceStatuses, {"assets"}) /\ Rated(security', A, EvidenceStatuses, {"assets"})
        /\ MendedRegister(security, security', A)
        /\ Rated(privacy, B, EvidenceStatuses, {"assets"}) /\ Rated(privacy', B, EvidenceStatuses, {"assets"})
        /\ MendedRegister(privacy, privacy', B)
        /\ IsFiniteSet(A) /\ IsFiniteSet(B)
      BY RegistersAreFinite DEF PostureInv, Mended
  <2> QED
      BY <2>1, StatusMended
<1>2. /\ DOMAIN security = A /\ DOMAIN security' = A /\ DOMAIN privacy = B /\ DOMAIN privacy' = B
    BY DEF PostureInv, Rated
<1>3. \A x \in K : f[x] \in 0..2 /\ e[x] \in 0..2 /\ f[x] <= e[x]
  <2> HIDE DEF A, B
  <2> QED
      BY <1>1
<1>4. /\ ControlPercent(security, privacy) = AveragePercent(f, K)
      /\ ControlPercent(security', privacy') = AveragePercent(e, K)
  <2> HIDE DEF A, B
  <2> QED
      BY Zenon, <1>2 DEF ControlPercent
<1>5. IsFiniteSet(K)
    BY RegistersAreFinite, FS_Union
<1> HIDE DEF f, e, K
<1> QED
    BY <1>3, <1>4, <1>5, PercentOrdered

LEMMA UseCasesAreFinite ==
    ASSUME PostureInv
    PROVE  IsFiniteSet(DOMAIN useCases)
<1>1. IsFiniteSet(DOMAIN DemoUseCases) /\ IsFiniteSet(DOMAIN DemoUseCases \union {"uc-new"})
    BY RegistersAreFinite, FS_AddElement
<1> QED
    BY <1>1 DEF PostureInv

LEMMA RecordFields ==
    ASSUME NEW r \in UseCaseRecords
    PROVE  r.evidence \in EvidenceStatuses /\ r.authority \in Authorities
BY DEF UseCaseRecords

LEMMA AgentPercentMended ==
    ASSUME PostureInv, PostureInv', Mended
    PROVE  AgentPercent(agents) <= AgentPercent(agents')
<1> DEFINE K == DOMAIN DemoAgents
           A == {a \in K : agents[a].status = "active"}
           B == {a \in K : agents'[a].status = "active"}
           total == IF K = {} THEN 1 ELSE Cardinality(K)
<1>1. IsFiniteSet(K) /\ DOMAIN agents = K /\ DOMAIN agents' = K
    BY RegistersAreFinite DEF PostureInv, Rated
<1>2. \A a \in K : \/ agents'[a].status = agents[a].status
                   \/ agents'[a].status = "active"
  <2>1. \A a \in K : agents[a].status \in AgentStatuses /\ agents'[a].status \in AgentStatuses
      BY DEF PostureInv, Rated
  <2> QED
      BY <2>1 DEF Mended, MendedRegister, AgentStatuses
<1>3. A \subseteq B /\ B \subseteq K
    BY <1>2
<1>4. /\ AgentPercent(agents) = (200 * Cardinality(A) + total) \div (2 * total)
      /\ AgentPercent(agents') = (200 * Cardinality(B) + total) \div (2 * total)
  <2> HIDE DEF K
  <2> QED
      BY Zenon, <1>1 DEF AgentPercent
<1> HIDE DEF A, B, K
<1>5. /\ Cardinality(A) \in Nat /\ Cardinality(B) \in Nat /\ Cardinality(A) <= Cardinality(B)
      /\ total \in Nat \ {0}
  <2>1. IsFiniteSet(B)
      BY <1>1, <1>3, FS_Subset
  <2>2. IsFiniteSet(A) /\ Cardinality(A) <= Cardinality(B)
      BY <1>3, <2>1, FS_Subset
  <2>3. Cardinality(K) \in Nat /\ (K # {} => Cardinality(K) # 0)
      BY <1>1, FS_CardinalityType, FS_EmptySet
  <2> QED
      BY <2>1, <2>2, <2>3, FS_CardinalityType
<1> HIDE DEF total
<1>6. /\ 200 * Cardinality(A) + total \in Nat /\ 200 * Cardinality(B) + total \in Nat
      /\ 200 * Cardinality(A) + total <= 200 * Cardinality(B) + total /\ 2 * total \in Nat \ {0}
    BY <1>5
<1> QED
    BY <1>4, <1>6, QuotientOrdered

LEMMA ReviewsAreFinite ==
    ASSUME PostureInv
    PROVE  IsFiniteSet(reviews)
<1>1. IsFiniteSet(Decisions)
  <2>1. IsFiniteSet({} \union {"approved_for_next_stage", "returned_for_repair", "escalated", "escalated"})
      BY FS_EmptySet, FourMore
  <2>2. Decisions = {} \union {"approved_for_next_stage", "returned_for_repair", "escalated", "escalated"}
      BY DEF Decisions
  <2> QED
      BY <2>1, <2>2
<1>2. IsFiniteSet((DOMAIN useCases) \X Decisions)
    BY <1>1, UseCasesAreFinite, FS_Product
<1> QED
    BY <1>2, FS_Subset DEF PostureInv

LEMMA ReviewPercentMended ==
    ASSUME PostureInv, Mended
    PROVE  AveragePercent([r \in reviews |-> ReviewScore(r)], reviews)
            <= AveragePercent([r \in reviews' |-> ReviewScore(r)], reviews')
<1> DEFINE f == [r \in reviews |-> ReviewScore(r)]
<1>1. IsFiniteSet(reviews)
    BY ReviewsAreFinite
<1>2. \A r \in reviews : f[r] \in 0..2 /\ f[r] <= f[r]
    BY ReviewScores
<1>3. AveragePercent(f, reviews) <= AveragePercent(f, reviews)
  <2> HIDE DEF f
  <2> QED
      BY <1>1, <1>2, PercentOrdered
<1>4. CASE reviews' = reviews
    BY <1>3, <1>4
<1>5. ASSUME NEW y, y[2] = "approved_for_next_stage", y \notin reviews, reviews' = reviews \union {y}
      PROVE  AveragePercent(f, reviews) <= AveragePercent([r \in reviews' |-> ReviewScore(r)], reviews')
  <2> DEFINE R == reviews \union {y}
             e == [r \in R |-> ReviewScore(r)]
  <2>1. e[y] = 2 /\ \A r \in reviews : f[r] \in 0..2 /\ e[r] = f[r]
      BY <1>5, ReviewScores
  <2> HIDE DEF f, e
  <2>2. AveragePercent(f, reviews) <= AveragePercent(e, R)
      BY <1>1, <1>5, <2>1, PercentOneMore
  <2> QED
      BY <1>5, <2>2 DEF e
<1>6. ASSUME NEW u \in DOMAIN useCases, reviews' = reviews \union {<<u, "approved_for_next_stage">>}
      PROVE  AveragePercent(f, reviews) <= AveragePercent([r \in reviews' |-> ReviewScore(r)], reviews')
  <2> DEFINE y == <<u, "approved_for_next_stage">>
  <2>1. y[2] = "approved_for_next_stage" /\ reviews' = reviews \union {y}
      BY <1>6
  <2> HIDE DEF y, f
  <2>2. CASE y \in reviews
    <3>1. reviews' = reviews
        BY <2>1, <2>2
    <3> QED
        BY <1>4, <3>1 DEF f
  <2>3. CASE y \notin reviews
      BY <1>5, <2>1, <2>3
  <2> QED
      BY <2>2, <2>3
<1> QED
    BY <1>4, <1>6 DEF Mended

\* No layer's readiness falls.
LEMMA ReadinessMended ==
    ASSUME PostureInv, PostureInv', Mended
    PROVE  \A layer \in Layers : LayerReadiness'[layer] >= LayerReadiness[layer]
<1> DEFINE U == DOMAIN useCases
           evidence == [u \in U |-> StatusScore(useCases[u].evidence)]
           evidence2 == [u \in U |-> StatusScore(useCases'[u].evidence)]
           policy == [u \in U |-> IF "policy_boundary" \in useCases[u].details THEN 2 ELSE 0]
           policy2 == [u \in U |-> IF "policy_boundary" \in useCases'[u].details THEN 2 ELSE 0]
<1>1. /\ IsFiniteSet(U) /\ DOMAIN useCases' = U
      /\ \A u \in U : /\ useCases[u] \in UseCaseRecords /\ useCases'[u] \in UseCaseRecords
                      /\ MendedRecord(useCases[u], useCases'[u])
    BY UseCasesAreFinite DEF Mended, PostureInv
<1>2. AveragePercent(evidence, U) <= AveragePercent(evidence2, U)
  <2>1. ASSUME NEW u \in U
        PROVE  /\ evidence[u] \in 0..2 /\ evidence2[u] \in 0..2 /\ evidence[u] <= evidence2[u]
    <3>1. useCases[u].evidence \in EvidenceStatuses /\ useCases'[u].evidence \in EvidenceStatuses
        BY <1>1, RecordFields
    <3>2. useCases'[u].evidence \in {useCases[u].evidence, "complete"}
        BY <1>1 DEF MendedRecord
    <3> QED
        BY <3>1, <3>2, StatusScores
  <2> HIDE DEF evidence, evidence2
  <2> QED
      BY <1>1, <2>1, PercentOrdered
<1>3. AveragePercent(policy, U) <= AveragePercent(policy2, U)
  <2>1. \A u \in U : useCases[u].details \subseteq useCases'[u].details
      BY <1>1 DEF MendedRecord
  <2>2. \A u \in U : policy[u] \in 0..2 /\ policy2[u] \in 0..2 /\ policy[u] <= policy2[u]
      BY <2>1
  <2> HIDE DEF policy, policy2
  <2> QED
      BY <1>1, <2>2, PercentOrdered
<1>4. StatusPercent(sources) <= StatusPercent(sources')
    BY RegistersAreFinite, StatusPercentMended DEF PostureInv, Mended
<1>5. StatusPercent(models) <= StatusPercent(models')
    BY RegistersAreFinite, StatusPercentMended DEF PostureInv, Mended
<1>6. StatusPercent(mappings) <= StatusPercent(mappings')
    BY RegistersAreFinite, StatusPercentMended DEF PostureInv, Mended
<1>7. ControlPercent(security, privacy) <= ControlPercent(security', privacy')
    BY ControlPercentMended
<1>8. AgentPercent(agents) <= AgentPercent(agents')
    BY AgentPercentMended
<1>9. AveragePercent([r \in reviews |-> ReviewScore(r)], reviews)
        <= AveragePercent([r \in reviews' |-> ReviewScore(r)], reviews')
    BY ReviewPercentMended
<1>10. /\ LayerReadiness.ai_inventory = AveragePercent(evidence, U)
       /\ LayerReadiness.access_control = AveragePercent(policy, U)
       /\ LayerReadiness.data_foundation = StatusPercent(sources)
       /\ LayerReadiness.model_lifecycle = StatusPercent(models)
       /\ LayerReadiness.compliance_audit = StatusPercent(mappings)
       /\ LayerReadiness.data_security_privacy = ControlPercent(security, privacy)
       /\ LayerReadiness.agent_governance = AgentPercent(agents)
       /\ LayerReadiness.human_oversight = AveragePercent([r \in reviews |-> ReviewScore(r)], reviews)
    BY DEF LayerReadiness
<1>11. /\ LayerReadiness'.ai_inventory = AveragePercent(evidence2, U)
       /\ LayerReadiness'.access_control = AveragePercent(policy2, U)
       /\ LayerReadiness'.data_foundation = StatusPercent(sources')
       /\ LayerReadiness'.model_lifecycle = StatusPercent(models')
       /\ LayerReadiness'.compliance_audit = StatusPercent(mappings')
       /\ LayerReadiness'.data_security_privacy = ControlPercent(security', privacy')
       /\ LayerReadiness'.agent_governance = AgentPercent(agents')
       /\ LayerReadiness'.human_oversight = AveragePercent([r \in reviews' |-> ReviewScore(r)], reviews')
    BY <1>1 DEF LayerReadiness
<1> HIDE DEF evidence, evidence2, policy, policy2, U
<1>12. \A layer \in Layers : LayerReadiness[layer] <= LayerReadiness'[layer]
    BY <1>2, <1>3, <1>4, <1>5, <1>6, <1>7, <1>8, <1>9, <1>10, <1>11 DEF Layers
<1> QED
    BY <1>12

-----------------------------------------------------------------------------
(* The packet under a mending step. *)

LEMMA SeverityRanks ==
    SeverityRank("ok") = 0 /\ SeverityRank("warning") = 1 /\ SeverityRank("critical") = 2
<1>1. SeverityRank("ok") = 0
    BY Zenon DEF SeverityRank
<1>2. "warning" # "ok" /\ "critical" # "ok" /\ "critical" # "warning"
    OBVIOUS
<1>3. SeverityRank("warning") = 1
    BY Zenon, <1>2 DEF SeverityRank
<1>4. SeverityRank("critical") = 2
    BY Zenon, <1>2 DEF SeverityRank
<1> QED
    BY <1>1, <1>3, <1>4

\* S stays empty or not, and what is new in it is complete, unless something was missing.
MendedStatuses(S, T) ==
    /\ S = {} <=> T = {}
    /\ "missing" \in S \/ T \subseteq S \union {"complete"}

LEMMA SeverityMended ==
    ASSUME NEW S, NEW T, S \subseteq EvidenceStatuses, T \subseteq EvidenceStatuses,
           MendedStatuses(S, T)
    PROVE  SeverityRank(SeverityOf(T)) <= SeverityRank(SeverityOf(S))
<1>1. SeverityOf(S) \in {"ok", "warning", "critical"} /\ SeverityOf(T) \in {"ok", "warning", "critical"}
    BY SeverityOfSet
<1>2. CASE "missing" \in S
  <2>1. SeverityOf(S) = "critical"
      BY <1>2, SeverityOfSet
  <2> QED
      BY <1>1, <2>1, SeverityRanks
<1>3. CASE "missing" \notin S
  <2>1. SeverityOf(T) # "critical"
      BY <1>3, SeverityOfSet DEF MendedStatuses
  <2>2. SeverityOf(S) = "ok" => SeverityOf(T) = "ok"
      BY <1>3, SeverityOfSet DEF MendedStatuses
  <2> QED
      BY <1>1, <2>1, <2>2, SeverityRanks
<1> QED
    BY <1>2, <1>3

LEMMA RegisterStatusesMended ==
    ASSUME NEW r, NEW q, NEW keys, NEW F, Rated(r, keys, EvidenceStatuses, F),
           Rated(q, keys, EvidenceStatuses, F), MendedRegister(r, q, keys), NEW S, S \subseteq keys
    PROVE  /\ StatusesOf(r, S) \subseteq EvidenceStatuses /\ StatusesOf(q, S) \subseteq EvidenceStatuses
           /\ MendedStatuses(StatusesOf(r, S), StatusesOf(q, S))
<1>1. \A x \in S : r[x].status \in EvidenceStatuses /\ q[x].status \in EvidenceStatuses
    BY DEF Rated
<1>2. \A x \in S : \/ q[x].status = r[x].status
                   \/ r[x].status = "missing"
                   \/ q[x].status = "complete"
    BY <1>1 DEF MendedRegister, EvidenceStatuses
<1> QED
    BY <1>1, <1>2 DEF StatusesOf, MendedStatuses

\* What both packets of a use case look at.
MendedUseCase(u) ==
    /\ u \in DOMAIN useCases /\ u \in DOMAIN useCases'
    /\ useCases[u] \in UseCaseRecords /\ useCases'[u] \in UseCaseRecords
    /\ MendedRecord(useCases[u], useCases'[u])

LEMMA UseCasesMended ==
    ASSUME PostureInv, PostureInv', Mended, NEW u \in DOMAIN useCases
    PROVE  /\ MendedUseCase(u)
           /\ useCases'[u].gate = useCases[u].gate /\ useCases'[u].risk = useCases[u].risk
           /\ useCases'[u].access = useCases[u].access /\ useCases'[u].agents = useCases[u].agents
           /\ useCases'[u].model = useCases[u].model /\ useCases'[u].sources = useCases[u].sources
<1>1. MendedUseCase(u)
    BY DEF Mended, PostureInv, MendedUseCase
<1> QED
    BY <1>1 DEF MendedUseCase, MendedRecord

\* The layer that counts data sources.
LEMMA SourceLayerMended ==
    ASSUME PostureInv, PostureInv', Mended, NEW u \in DOMAIN useCases
    PROVE  SeverityRank(SeverityOf(StatusesOf(sources', useCases'[u].sources)))
            <= SeverityRank(SeverityOf(StatusesOf(sources, useCases[u].sources)))
<1>1. useCases'[u].sources = useCases[u].sources /\ useCases[u].sources \subseteq DOMAIN DemoSources
    BY UseCasesMended, EditedExist
<1>2. /\ Rated(sources, DOMAIN DemoSources, EvidenceStatuses, {})
      /\ Rated(sources', DOMAIN DemoSources, EvidenceStatuses, {})
      /\ MendedRegister(sources, sources', DOMAIN DemoSources)
    BY DEF PostureInv, Mended
<1> QED
    BY <1>1, <1>2, RegisterStatusesMended, SeverityMended

\* The layer that looks at the model.
LEMMA ModelLayerMended ==
    ASSUME PostureInv, PostureInv', Mended, NEW u \in DOMAIN useCases
    PROVE  SeverityRank(SeverityOf(ModelStatuses(u)')) <= SeverityRank(SeverityOf(ModelStatuses(u)))
<1> DEFINE m == useCases[u].model
           S == IF m = "none" THEN {} ELSE {m}
<1>1. useCases'[u].model = m /\ m \in DOMAIN DemoModels \union {"none"}
    BY UseCasesMended, EditedExist
<1>2. /\ Rated(models, DOMAIN DemoModels, EvidenceStatuses, {})
      /\ Rated(models', DOMAIN DemoModels, EvidenceStatuses, {})
      /\ MendedRegister(models, models', DOMAIN DemoModels)
    BY DEF PostureInv, Mended
<1>3. ModelStatuses(u) = StatusesOf(models, S)
    BY DEF ModelStatuses, StatusesOf
<1>4. ModelStatuses(u)' = StatusesOf(models', S)
    BY <1>1 DEF ModelStatuses, StatusesOf
<1>5. S \subseteq DOMAIN DemoModels
    BY <1>1
<1> HIDE DEF S, m
<1> QED
    BY <1>2, <1>3, <1>4, <1>5, RegisterStatusesMended, SeverityMended

\* The layer that counts security and privacy controls.
LEMMA ControlLayerMended ==
    ASSUME PostureInv, PostureInv', LinksKept, Mended, NEW u \in DOMAIN useCases
    PROVE  SeverityRank(SeverityOf(ControlStatuses(u)')) <= SeverityRank(SeverityOf(ControlStatuses(u)))
<1> DEFINE A == Applied(security, u)
           B == Applied(privacy, u)
<1>1. /\ Rated(security, DOMAIN DemoSecurity, EvidenceStatuses, {"assets"})
      /\ Rated(security', DOMAIN DemoSecurity, EvidenceStatuses, {"assets"})
      /\ MendedRegister(security, security', DOMAIN DemoSecurity)
      /\ Rated(privacy, DOMAIN DemoPrivacy, EvidenceStatuses, {"assets"})
      /\ Rated(privacy', DOMAIN DemoPrivacy, EvidenceStatuses, {"assets"})
      /\ MendedRegister(privacy, privacy', DOMAIN DemoPrivacy)
    BY DEF PostureInv, Mended
<1>2. /\ DOMAIN security = DOMAIN DemoSecurity /\ DOMAIN security' = DOMAIN DemoSecurity
      /\ DOMAIN privacy = DOMAIN DemoPrivacy /\ DOMAIN privacy' = DOMAIN DemoPrivacy
    BY <1>1 DEF Rated
<1>3. /\ Applied(security', u) = A /\ A \subseteq DOMAIN DemoSecurity
      /\ Applied(privacy', u) = B /\ B \subseteq DOMAIN DemoPrivacy
    BY <1>2 DEF Applied, LinksKept
<1>4. /\ ControlStatuses(u) = StatusesOf(security, A) \union StatusesOf(privacy, B)
      /\ ControlStatuses(u)' = StatusesOf(security', A) \union StatusesOf(privacy', B)
    BY <1>3 DEF ControlStatuses
<1> HIDE DEF A, B
<1>5. /\ StatusesOf(security, A) \subseteq EvidenceStatuses /\ StatusesOf(security', A) \subseteq EvidenceStatuses
      /\ MendedStatuses(StatusesOf(security, A), StatusesOf(security', A))
    BY <1>1, <1>3, RegisterStatusesMended
<1>6. /\ StatusesOf(privacy, B) \subseteq EvidenceStatuses /\ StatusesOf(privacy', B) \subseteq EvidenceStatuses
      /\ MendedStatuses(StatusesOf(privacy, B), StatusesOf(privacy', B))
    BY <1>1, <1>3, RegisterStatusesMended
<1>7. MendedStatuses(ControlStatuses(u), ControlStatuses(u)')
    BY <1>4, <1>5, <1>6 DEF MendedStatuses
<1>8. ControlStatuses(u) \subseteq EvidenceStatuses /\ ControlStatuses(u)' \subseteq EvidenceStatuses
    BY <1>4, <1>5, <1>6
<1> QED
    BY <1>7, <1>8, SeverityMended

\* The layer that looks at the agents.
LEMMA AgentLayerMended ==
    ASSUME PostureInv, PostureInv', Mended, NEW u \in DOMAIN useCases
    PROVE  SeverityRank(AgentSeverity(u)') <= SeverityRank(AgentSeverity(u))
<1>1. useCases'[u].agents = useCases[u].agents /\ useCases'[u].access = useCases[u].access
    BY UseCasesMended
<1>2. DOMAIN agents = DOMAIN DemoAgents /\ DOMAIN agents' = DOMAIN DemoAgents
    BY DEF PostureInv, Rated
<1>3. LinkedAgents(u)' = LinkedAgents(u) /\ LinkedAgents(u) \subseteq DOMAIN DemoAgents
    BY <1>1, <1>2 DEF LinkedAgents
<1>4. LacksAgent(u)' <=> LacksAgent(u)
    BY <1>1, <1>3 DEF LacksAgent
<1>5. \A a \in DOMAIN DemoAgents :
        agents'[a].status = "under_review" => agents[a].status = "under_review"
  <2>1. \A a \in DOMAIN DemoAgents : agents[a].status \in AgentStatuses
      BY DEF PostureInv, Rated
  <2> QED
      BY <2>1 DEF Mended, MendedRegister, AgentStatuses
<1>6. "under_review" \in StatusesOf(agents', LinkedAgents(u))
        => "under_review" \in StatusesOf(agents, LinkedAgents(u))
    BY <1>3, <1>5 DEF StatusesOf
<1>7. /\ LacksAgent(u) => AgentSeverity(u)' = "critical" /\ AgentSeverity(u) = "critical"
      /\ ~LacksAgent(u) => /\ AgentSeverity(u)' \in {"warning", "ok"} /\ AgentSeverity(u) \in {"warning", "ok"}
                           /\ AgentSeverity(u) = "ok" => AgentSeverity(u)' = "ok"
    BY <1>3, <1>4, <1>6 DEF AgentSeverity
<1> QED
    BY <1>7, SeverityRanks

\* The oversight layer, with its exception.
LEMMA OversightLayerMended ==
    ASSUME PostureInv, PostureInv', LinksKept, Mended, NEW u \in DOMAIN useCases
    PROVE  \/ SeverityRank(OversightSeverity(u)') <= SeverityRank(OversightSeverity(u))
           \/ ~Reviewed(u) /\ Reviewed(u)' /\ useCases[u].authority = "missing"
<1>1. /\ useCases'[u].gate = useCases[u].gate /\ useCases'[u].risk = useCases[u].risk
      /\ MendedUseCase(u)
    BY UseCasesMended
<1>2. useCases'[u].authority = "missing" => useCases[u].authority = "missing"
    BY <1>1 DEF MendedUseCase, MendedRecord
<1>3. Reviewed(u) => Reviewed(u)'
    BY DEF Mended, Reviewed
<1>4. OpenIncident(u)' => OpenIncident(u)
  <2>1. DOMAIN incidents = DOMAIN DemoIncidents /\ DOMAIN incidents' = DOMAIN DemoIncidents
      BY DEF PostureInv, Rated
  <2>2. \A i \in DOMAIN DemoIncidents :
          incidents'[i].status # "resolved" => incidents[i].status # "resolved"
    <3>1. \A i \in DOMAIN DemoIncidents :
            incidents[i].status \in IncidentStatuses /\ incidents'[i].status \in IncidentStatuses
        BY DEF PostureInv, Rated
    <3> QED
        BY <3>1 DEF Mended, MendedRegister, IncidentStatuses
  <2> QED
      BY <2>1, <2>2 DEF OpenIncident, LinksKept
<1>5. OversightSeverity(u) \in {"ok", "warning", "critical"} /\ OversightSeverity(u)' \in {"ok", "warning", "critical"}
    BY DEF OversightSeverity
<1>6. CASE ~Reviewed(u)'
  <2>1. OversightSeverity(u)' = OversightSeverity(u)
      BY <1>1, <1>3, <1>6 DEF OversightSeverity, ReadyOrHighRisk
  <2> QED
      BY <1>5, <2>1, SeverityRanks
<1>7. CASE Reviewed(u)' /\ useCases[u].authority = "missing"
  <2>1. Reviewed(u) => OversightSeverity(u) = "critical"
      BY <1>7 DEF OversightSeverity
  <2> QED
      BY <1>5, <1>7, <2>1, SeverityRanks
<1>8. CASE Reviewed(u)' /\ useCases[u].authority # "missing"
  <2>1. OversightSeverity(u)' \in {"warning", "ok"}
      BY <1>2, <1>8 DEF OversightSeverity
  <2>2. ~Reviewed(u) => OversightSeverity(u) # "ok"
      BY DEF OversightSeverity
  <2>3. Reviewed(u) => (OversightSeverity(u) = "ok" => OversightSeverity(u)' = "ok")
      BY <1>2, <1>4, <1>8 DEF OversightSeverity
  <2> QED
      BY <1>5, <2>1, <2>2, <2>3, SeverityRanks
<1> QED
    BY <1>6, <1>7, <1>8

\* No layer of a packet gets worse, the exception apart.
LEMMA PacketMended ==
    ASSUME PostureInv, PostureInv', LinksKept, Mended, NEW u \in DOMAIN useCases, NEW layer \in Layers
    PROVE  \/ SeverityRank(DecisionPacketLayers(u)'[layer]) <= SeverityRank(DecisionPacketLayers(u)[layer])
           \/ /\ layer = "human_oversight"
              /\ ~Reviewed(u) /\ Reviewed(u)'
              /\ useCases[u].authority = "missing"
<1>1. /\ useCases'[u].gate = useCases[u].gate
      /\ useCases[u].details \subseteq useCases'[u].details
      /\ useCases[u].evidence = "complete" => useCases'[u].evidence = "complete"
    BY UseCasesMended DEF MendedUseCase, MendedRecord
<1>2. CASE layer = "ai_inventory"
  <2>1. /\ DecisionPacketLayers(u)[layer] = GateStatusSeverity(useCases[u].gate)
        /\ DecisionPacketLayers(u)'[layer] = GateStatusSeverity(useCases[u].gate)
      BY <1>1, <1>2 DEF DecisionPacketLayers
  <2>2. GateStatusSeverity(useCases[u].gate) \in {"ok", "warning", "critical"}
      BY Zenon DEF GateStatusSeverity
  <2> QED
      BY <2>1, <2>2, SeverityRanks
<1>3. CASE layer = "data_foundation"
    BY <1>3, SourceLayerMended DEF DecisionPacketLayers
<1>4. CASE layer = "model_lifecycle"
    BY <1>4, ModelLayerMended DEF DecisionPacketLayers
<1>5. CASE layer = "data_security_privacy"
    BY <1>5, ControlLayerMended DEF DecisionPacketLayers
<1>6. CASE layer = "access_control"
  <2>1. /\ DecisionPacketLayers(u)[layer] \in {"ok", "warning"}
        /\ DecisionPacketLayers(u)'[layer] \in {"ok", "warning"}
        /\ DecisionPacketLayers(u)[layer] = "ok" => DecisionPacketLayers(u)'[layer] = "ok"
      BY <1>1, <1>6 DEF DecisionPacketLayers
  <2> QED
      BY <2>1, SeverityRanks
<1>7. CASE layer = "agent_governance"
    BY <1>7, AgentLayerMended DEF DecisionPacketLayers
<1>8. CASE layer = "human_oversight"
    BY <1>8, OversightLayerMended DEF DecisionPacketLayers
<1>9. CASE layer = "compliance_audit"
  <2>1. /\ DecisionPacketLayers(u)[layer] \in {"ok", "warning"}
        /\ DecisionPacketLayers(u)'[layer] \in {"ok", "warning"}
        /\ DecisionPacketLayers(u)[layer] = "ok" => DecisionPacketLayers(u)'[layer] = "ok"
      BY <1>1, <1>9 DEF DecisionPacketLayers
  <2> QED
      BY <2>1, SeverityRanks
<1> QED
    BY <1>2, <1>3, <1>4, <1>5, <1>6, <1>7, <1>8, <1>9 DEF Layers

\* MendingNeverWorsens: mending a record never makes the readiness of a layer fall or a packet
\* look worse in governance-engine.ts, but for the first review of a use case without authority.
THEOREM MendingIsMonotone == Spec => MendingNeverWorsens
<1> DEFINE Step ==
      Mending =>
       /\ LET before == LayerReadiness
              after == LayerReadiness'
          IN  \A layer \in Layers : after[layer] >= before[layer]
       /\ \A u \in DOMAIN useCases :
            LET before == DecisionPacketLayers(u)
                after == DecisionPacketLayers(u)'
            IN  \A layer \in Layers :
                  \/ SeverityRank(after[layer]) <= SeverityRank(before[layer])
                  \/ /\ layer = "human_oversight"
                     /\ ~Reviewed(u) /\ Reviewed(u)'
                     /\ useCases[u].authority = "missing"
<1>1. PostureInv /\ [Next]_vars => [Step]_vars
  <2>1. ASSUME PostureInv, Next, Mending PROVE Step
    <3>1. PostureInv' /\ LinksKept /\ Mended
        BY <2>1, StepKeeps, MendingMends
    <3>2. \A layer \in Layers : LayerReadiness'[layer] >= LayerReadiness[layer]
        BY <2>1, <3>1, ReadinessMended
    <3> QED
        BY <2>1, <3>1, <3>2, PacketMended
  <2> QED
      BY <2>1
<1> QED
    BY <1>1, PostureInvariant, PTL DEF Spec, MendingNeverWorsens
-----------------------------------------------------------------------------
(* The dashboard. *)

\* Counts by value add up to the count of what has one of the values.
LEMMA SumOfCounts ==
    ASSUME NEW U, IsFiniteSet(U), NEW h, NEW V, IsFiniteSet(V), NEW f,
           \A v \in V : f[v] = Cardinality({u \in U : h[u] = v})
    PROVE  SumOver(f, V) = Cardinality({u \in U : h[u] \in V})
<1> DEFINE Having(s) == {u \in U : h[u] \in s}
<1>1. PICK g : SumsOver(g, f, V) /\ SumOver(f, V) = g[V]
    BY SumOverIsSum
<1> DEFINE Bad == {s \in SUBSET V : g[s] # Cardinality(Having(s))}
<1>2. SUFFICES ASSUME Bad # {} PROVE FALSE
    BY <1>1
<1>3. \A s \in SUBSET V : IsFiniteSet(s) /\ Cardinality(s) \in Nat
    BY FS_Subset, FS_CardinalityType
<1>4. PICK s \in Bad : \A t \in Bad : Cardinality(s) <= Cardinality(t)
  <2>1. \A t \in Bad : IsFiniteSet(t)
      BY <1>3
  <2> HIDE DEF Bad
  <2> QED
      BY <1>2, <2>1, SmallestSet
<1>5. s \in SUBSET V /\ g[s] # Cardinality(Having(s))
    OBVIOUS
<1>6. s # {}
  <2>1. ASSUME s = {} PROVE FALSE
    <3>1. Having(s) = {} /\ g[s] = 0
        BY <1>1, <2>1, SumOfSubset
    <3> QED
        BY <1>5, <3>1, FS_EmptySet
  <2> QED
      BY <2>1
<1> DEFINE x == Some(s)
           t == s \ {x}
<1>7. x \in s /\ g[s] = f[x] + g[t]
    BY <1>1, <1>5, <1>6, SumOfSubset
<1>8. t \in SUBSET V /\ t \notin Bad
  <2>1. Cardinality(s) = Cardinality(t) + 1 /\ Cardinality(t) \in Nat
      BY <1>3, <1>5, <1>7, OneLess
  <2>2. ASSUME t \in Bad PROVE FALSE
    <3> HIDE DEF Bad
    <3>1. Cardinality(s) <= Cardinality(t)
        BY Zenon, <1>4, <2>2
    <3> QED
        BY <2>1, <3>1
  <2>3. t \in SUBSET V
      BY <1>5
  <2> QED
      BY <2>2, <2>3
<1>9. g[t] = Cardinality(Having(t))
    BY <1>8
<1>10. f[x] = Cardinality({u \in U : h[u] = x})
    BY <1>5, <1>7
<1>11. Cardinality(Having(s)) = Cardinality({u \in U : h[u] = x}) + Cardinality(Having(t))
  <2> DEFINE A == {u \in U : h[u] = x}
             B == Having(t)
  <2>1. IsFiniteSet(A) /\ IsFiniteSet(B)
      BY FS_Subset
  <2>2. A \intersect B = {} /\ A \union B = Having(s)
      BY <1>7
  <2> HIDE DEF A, B, Having
  <2>3. Cardinality(A \union B) = Cardinality(A) + Cardinality(B) - Cardinality(A \intersect B)
      BY <2>1, FS_Union
  <2>4. Cardinality(A) \in Nat /\ Cardinality(B) \in Nat /\ Cardinality({}) = 0
      BY <2>1, FS_CardinalityType, FS_EmptySet
  <2>5. Cardinality(A \union B) = Cardinality(A) + Cardinality(B)
    <3>1. Cardinality(A \intersect B) = 0
        BY Zenon, <2>2, <2>4
    <3> DEFINE a == Cardinality(A)
               b == Cardinality(B)
    <3>2. a \in Nat /\ b \in Nat /\ Cardinality(A \union B) = a + b - 0
        BY <2>3, <2>4, <3>1
    <3> HIDE DEF a, b
    <3>3. Cardinality(A \union B) = a + b
        BY <3>2
    <3> QED
        BY <3>3 DEF a, b
  <2>6. Cardinality(Having(s)) = Cardinality(A) + Cardinality(B)
      BY <2>2, <2>5
  <2> QED
      BY <2>6 DEF A, B
<1> QED
    BY <1>5, <1>7, <1>9, <1>10, <1>11

LEMMA FieldDistribution ==
    ASSUME PostureInv, NEW field, NEW V, IsFiniteSet(V),
           \A u \in DOMAIN useCases : useCases[u][field] \in V
    PROVE  SumOver([v \in V |-> CountOf(field, {v})], V) = Cardinality(DOMAIN useCases)
<1> DEFINE U == DOMAIN useCases
           h == [u \in U |-> useCases[u][field]]
           f == [v \in V |-> CountOf(field, {v})]
<1>1. \A v \in V : f[v] = Cardinality({u \in U : h[u] = v})
  <2>1. ASSUME NEW v \in V PROVE CountOf(field, {v}) = Cardinality({u \in U : h[u] = v})
    <3>1. {u \in U : h[u] = v} = {u \in U : useCases[u][field] \in {v}}
        OBVIOUS
    <3> QED
        BY <3>1 DEF CountOf
  <2> QED
      BY <2>1
<1>2. {u \in U : h[u] \in V} = U
    OBVIOUS
<1>3. IsFiniteSet(U)
    BY UseCasesAreFinite
<1> HIDE DEF U, h, f
<1>4. SumOver(f, V) = Cardinality({u \in U : h[u] \in V})
    BY <1>1, <1>3, SumOfCounts
<1> QED
    BY <1>2, <1>4 DEF f, U

\* A wider choice of values counts at least as many.
LEMMA CountsOrdered ==
    ASSUME PostureInv, NEW field, NEW V, NEW W, V \subseteq W
    PROVE  CountOf(field, V) <= CountOf(field, W)
<1> DEFINE A == {u \in DOMAIN useCases : useCases[u][field] \in V}
           B == {u \in DOMAIN useCases : useCases[u][field] \in W}
<1>1. A \subseteq B /\ B \subseteq DOMAIN useCases
    OBVIOUS
<1>2. IsFiniteSet(B)
    BY <1>1, UseCasesAreFinite, FS_Subset
<1> HIDE DEF A, B
<1>3. Cardinality(A) <= Cardinality(B)
    BY <1>1, <1>2, FS_Subset
<1> QED
    BY <1>3 DEF A, B, CountOf

\* DashboardReconciles: the distributions of the dashboard add up to the totals of its cards,
\* and the cards about tools are nested.
THEOREM DashboardAddsUp == Spec => []DashboardReconciles
<1>1. PostureInv => DashboardReconciles
  <2> SUFFICES ASSUME PostureInv PROVE DashboardReconciles
      OBVIOUS
  <2>1. IsFiniteSet(GateStatuses) /\ IsFiniteSet(Risks)
    <3>1. IsFiniteSet({} \union {"BLOCKED", "ESCALATE_REQUIRED", "REPAIR_REQUIRED",
                                 "GOVERNANCE_REVIEW_REQUIRED"})
        BY FS_EmptySet, FourMore
    <3>2. IsFiniteSet(({} \union {"BLOCKED", "ESCALATE_REQUIRED", "REPAIR_REQUIRED",
                                  "GOVERNANCE_REVIEW_REQUIRED"}) \union {"READY_FOR_AUTHORITY_REVIEW"})
        BY <3>1, FS_AddElement
    <3>3. GateStatuses = ({} \union {"BLOCKED", "ESCALATE_REQUIRED", "REPAIR_REQUIRED",
                                     "GOVERNANCE_REVIEW_REQUIRED"}) \union {"READY_FOR_AUTHORITY_REVIEW"}
        BY GateStatusesAre
    <3>4. IsFiniteSet({} \union {"low", "medium", "high", "high"})
        BY FS_EmptySet, FourMore
    <3>5. Risks = {} \union {"low", "medium", "high", "high"}
        BY DEF Risks
    <3> QED
        BY <3>2, <3>3, <3>4, <3>5
  <2>2. \A u \in DOMAIN useCases : useCases[u].gate \in GateStatuses /\ useCases[u].risk \in Risks
      BY DEF PostureInv, UseCaseRecords
  <2>3. SumOver(StatusDistribution, GateStatuses) = Kpis.total
    <3>1. SumOver([v \in GateStatuses |-> CountOf("gate", {v})], GateStatuses) = Cardinality(DOMAIN useCases)
        BY <2>1, <2>2, FieldDistribution
    <3> QED
        BY <3>1 DEF StatusDistribution, Kpis
  <2>4. SumOver(RiskDistribution, Risks) = Kpis.total
    <3>1. SumOver([v \in Risks |-> CountOf("risk", {v})], Risks) = Cardinality(DOMAIN useCases)
        BY <2>1, <2>2, FieldDistribution
    <3> QED
        BY <3>1 DEF RiskDistribution, Kpis
  <2>5. StatusDistribution["BLOCKED"] = Kpis.blocked /\ RiskDistribution["high"] = Kpis.highRisk
    <3>1. "BLOCKED" \in GateStatuses /\ "high" \in Risks
        BY GateStatusesAre DEF Risks
    <3> QED
        BY <3>1 DEF StatusDistribution, RiskDistribution, Kpis
  <2>6. /\ CountOf("access", {"external_system"}) <= CountOf("access", WriteCapable)
        /\ CountOf("access", WriteCapable) <= CountOf("access", {"read_only"} \union WriteCapable)
      BY CountsOrdered DEF WriteCapable
  <2> QED
      BY <2>3, <2>4, <2>5, <2>6 DEF DashboardReconciles, Kpis
<1> QED
    BY <1>1, PostureInvariant, PTL
-----------------------------------------------------------------------------
(* What a new use case shows. *)

\* Controls are only ever applied to use cases of the shipped portfolio.
ControlsOfShipped ==
    /\ \A c \in DOMAIN DemoSecurity : security[c].assets \subseteq DOMAIN DemoUseCases
    /\ \A c \in DOMAIN DemoPrivacy : privacy[c].assets \subseteq DOMAIN DemoUseCases

LEMMA DemoControlsOfShipped ==
    /\ \A c \in DOMAIN DemoSecurity : DemoSecurity[c].assets \subseteq DOMAIN DemoUseCases
    /\ \A c \in DOMAIN DemoPrivacy : DemoPrivacy[c].assets \subseteq DOMAIN DemoUseCases
<1>1. {"uc-01", "uc-02", "uc-03", "uc-04", "uc-05", "uc-06", "uc-07", "uc-08", "uc-09", "uc-10",
       "uc-11", "uc-12", "uc-13", "uc-14", "uc-15"} \subseteq DOMAIN DemoUseCases
    BY DEF DemoUseCases, Table
<1>2. ASSUME NEW rows, \A row \in rows : row[2].assets \subseteq DOMAIN DemoUseCases
      PROVE  \A c \in DOMAIN Table(rows) : Table(rows)[c].assets \subseteq DOMAIN DemoUseCases
  <2> DEFINE T == Table(rows)
  <2>1. \A c \in DOMAIN T : \E row \in rows : T[c] = row[2]
      BY TableHasRows
  <2> HIDE DEF T
  <2>2. \A c \in DOMAIN T : T[c].assets \subseteq DOMAIN DemoUseCases
      BY <1>2, <2>1
  <2> QED
      BY <2>2 DEF T
<1>3. \A c \in DOMAIN DemoSecurity : DemoSecurity[c].assets \subseteq DOMAIN DemoUseCases
    BY <1>1, <1>2 DEF DemoSecurity
<1>4. \A c \in DOMAIN DemoPrivacy : DemoPrivacy[c].assets \subseteq DOMAIN DemoUseCases
    BY <1>1, <1>2 DEF DemoPrivacy
<1> QED
    BY <1>3, <1>4

LEMMA ControlsInvariant == Spec => []ControlsOfShipped
<1>1. Init => ControlsOfShipped
    BY DemoControlsOfShipped DEF Init, ControlsOfShipped
<1>2. PostureInv /\ ControlsOfShipped /\ [Next]_vars => ControlsOfShipped'
  <2>1. PostureInv /\ ControlsOfShipped /\ Next => ControlsOfShipped'
      BY StepKeeps DEF ControlsOfShipped, LinksKept
  <2>2. ControlsOfShipped /\ UNCHANGED vars => ControlsOfShipped'
      BY DEF ControlsOfShipped, vars
  <2> QED
      BY <2>1, <2>2
<1> QED
    BY <1>1, <1>2, PostureInvariant, PTL DEF Spec

\* NewUseCaseShowsItsGaps: what createUseCase inserts warns in every layer but the agents',
\* which is critical when it may write or reach other systems.
THEOREM NewUseCasesShowGaps == Spec => []NewUseCaseShowsItsGaps
<1>1. PostureInv /\ ControlsOfShipped => NewUseCaseShowsItsGaps
  <2> SUFFICES ASSUME PostureInv, ControlsOfShipped, NEW u \in DOMAIN useCases \ DOMAIN DemoUseCases,
                      useCases[u] = NeutralUseCase(useCases[u].risk, useCases[u].access), ~Reviewed(u)
               PROVE  /\ \A layer \in Layers \ {"agent_governance"} : DecisionPacketLayers(u)[layer] # "ok"
                      /\ useCases[u].access \in {"write", "external_system"}
                           <=> DecisionPacketLayers(u).agent_governance = "critical"
      BY DEF NewUseCaseShowsItsGaps
  <2>1. /\ useCases[u].gate = "GOVERNANCE_REVIEW_REQUIRED" /\ useCases[u].evidence = "missing"
        /\ useCases[u].details = {} /\ useCases[u].agents = {}
        /\ useCases[u].model = "none" /\ useCases[u].sources = {}
      BY DEF NeutralUseCase, Asset
  <2>2. SeverityOf({}) # "ok"
      BY DEF SeverityOf
  <2>3. GateStatusSeverity("GOVERNANCE_REVIEW_REQUIRED") # "ok"
      BY DEF GateStatusSeverity
  <2>4. /\ StatusesOf(sources, useCases[u].sources) = {} /\ ModelStatuses(u) = {}
        /\ ControlStatuses(u) = {}
    <3>1. Applied(security, u) = {} /\ Applied(privacy, u) = {}
        BY DEF Applied, ControlsOfShipped, PostureInv, Rated
    <3> QED
        BY <2>1, <3>1 DEF StatusesOf, ModelStatuses, ControlStatuses
  <2>5. OversightSeverity(u) # "ok"
      BY DEF OversightSeverity
  <2>6. \A layer \in Layers \ {"agent_governance"} : DecisionPacketLayers(u)[layer] # "ok"
      BY <2>1, <2>2, <2>3, <2>4, <2>5 DEF DecisionPacketLayers, Layers
  <2>7. LinkedAgents(u) = {}
      BY <2>1 DEF LinkedAgents
  <2>8. DecisionPacketLayers(u).agent_governance = AgentSeverity(u)
      BY DEF DecisionPacketLayers
  <2> QED
      BY <2>6, <2>7, <2>8 DEF AgentSeverity, LacksAgent
<1> QED
    BY <1>1, PostureInvariant, ControlsInvariant, PTL
-----------------------------------------------------------------------------
(* The types, and the readiness figures among them. *)

LEMMA StatusPercentBounds ==
    ASSUME NEW r, NEW keys, IsFiniteSet(keys), NEW F, Rated(r, keys, EvidenceStatuses, F)
    PROVE  StatusPercent(r) \in 0..100
<1> DEFINE f == [x \in keys |-> StatusScore(r[x].status)]
<1>1. \A x \in keys : f[x] \in 0..2
    BY StatusScores DEF Rated
<1>2. StatusPercent(r) = AveragePercent(f, keys)
    BY DEF StatusPercent, Rated
<1> HIDE DEF f
<1> QED
    BY <1>1, <1>2, PercentBounds

LEMMA ControlPercentBounds ==
    ASSUME PostureInv
    PROVE  ControlPercent(security, privacy) \in 0..100
<1> DEFINE A == DOMAIN DemoSecurity
           B == DOMAIN DemoPrivacy
           K == A \union B
           f == [x \in K |-> StatusScore(IF x \in A THEN security[x].status ELSE privacy[x].status)]
<1>1. /\ \A x \in A : StatusScore(security[x].status) \in 0..2
      /\ \A x \in B : StatusScore(privacy[x].status) \in 0..2
    BY StatusScores DEF PostureInv, Rated
<1>2. DOMAIN security = A /\ DOMAIN privacy = B
    BY DEF PostureInv, Rated
<1>3. \A x \in K : f[x] \in 0..2
  <2> HIDE DEF A, B
  <2> QED
      BY <1>1
<1>4. ControlPercent(security, privacy) = AveragePercent(f, K)
  <2> HIDE DEF A, B
  <2> QED
      BY Zenon, <1>2 DEF ControlPercent
<1>5. IsFiniteSet(K)
    BY RegistersAreFinite, FS_Union
<1> HIDE DEF f, K
<1> QED
    BY <1>3, <1>4, <1>5, PercentBounds

LEMMA AgentPercentBounds ==
    ASSUME PostureInv
    PROVE  AgentPercent(agents) \in 0..100
<1> DEFINE K == DOMAIN DemoAgents
           A == {a \in K : agents[a].status = "active"}
           total == IF K = {} THEN 1 ELSE Cardinality(K)
<1>1. IsFiniteSet(K) /\ DOMAIN agents = K
    BY RegistersAreFinite DEF PostureInv, Rated
<1>2. A \subseteq K
    OBVIOUS
<1>3. AgentPercent(agents) = (200 * Cardinality(A) + total) \div (2 * total)
  <2> HIDE DEF K
  <2> QED
      BY Zenon, <1>1 DEF AgentPercent
<1> HIDE DEF A, K
<1>4. Cardinality(A) \in Nat /\ total \in Nat \ {0} /\ Cardinality(A) <= total
  <2>1. IsFiniteSet(A) /\ Cardinality(A) <= Cardinality(K)
      BY <1>1, <1>2, FS_Subset
  <2>2. Cardinality(K) \in Nat /\ (Cardinality(K) = 0 <=> K = {}) /\ Cardinality(A) \in Nat
      BY <1>1, <2>1, FS_CardinalityType, FS_EmptySet
  <2> QED
      BY <2>1, <2>2
<1> HIDE DEF total
<1> DEFINE n == Cardinality(A)
<1> HIDE DEF n
<1>5. n \in Nat /\ total \in Nat \ {0} /\ n <= total
    BY <1>4 DEF n
<1>6. 200 * n + total \in Nat /\ 2 * total \in Nat \ {0} /\ 200 * n + total < 100 * (2 * total) + 2 * total
    BY <1>5
<1>7. (200 * n + total) \div (2 * total) \in 0..100
  <2> DEFINE m == 200 * n + total
             d == 2 * total
  <2>1. m \in Nat /\ d \in Nat \ {0} /\ m < 100 * d + d
      BY <1>6
  <2> HIDE DEF m, d
  <2>2. m \div d \in Nat /\ m \div d <= 100
      BY <2>1, Quotient, QuotientAtMost
  <2> QED
      BY <2>2 DEF m, d
<1> QED
    BY <1>3, <1>7 DEF n

LEMMA ReadinessIsPercent ==
    ASSUME PostureInv
    PROVE  \A layer \in Layers : LayerReadiness[layer] \in 0..100
<1> DEFINE U == DOMAIN useCases
           evidence == [u \in U |-> StatusScore(useCases[u].evidence)]
           policy == [u \in U |-> IF "policy_boundary" \in useCases[u].details THEN 2 ELSE 0]
           score == [r \in reviews |-> ReviewScore(r)]
<1>1. IsFiniteSet(U) /\ \A u \in U : useCases[u] \in UseCaseRecords
    BY UseCasesAreFinite DEF PostureInv
<1>2. AveragePercent(evidence, U) \in 0..100
  <2>1. \A u \in U : evidence[u] \in 0..2
      BY <1>1, RecordFields, StatusScores
  <2> HIDE DEF evidence
  <2> QED
      BY <1>1, <2>1, PercentBounds
<1>3. AveragePercent(policy, U) \in 0..100
  <2>1. \A u \in U : policy[u] \in 0..2
      OBVIOUS
  <2> HIDE DEF policy
  <2> QED
      BY <1>1, <2>1, PercentBounds
<1>4. AveragePercent(score, reviews) \in 0..100
  <2>1. \A r \in reviews : score[r] \in 0..2
      BY ReviewScores
  <2> HIDE DEF score
  <2> QED
      BY <2>1, ReviewsAreFinite, PercentBounds
<1>5. /\ StatusPercent(sources) \in 0..100 /\ StatusPercent(models) \in 0..100
      /\ StatusPercent(mappings) \in 0..100
    BY RegistersAreFinite, StatusPercentBounds DEF PostureInv
<1>6. ControlPercent(security, privacy) \in 0..100 /\ AgentPercent(agents) \in 0..100
    BY ControlPercentBounds, AgentPercentBounds
<1>7. /\ LayerReadiness.ai_inventory = AveragePercent(evidence, U)
      /\ LayerReadiness.access_control = AveragePercent(policy, U)
      /\ LayerReadiness.data_foundation = StatusPercent(sources)
      /\ LayerReadiness.model_lifecycle = StatusPercent(models)
      /\ LayerReadiness.compliance_audit = StatusPercent(mappings)
      /\ LayerReadiness.data_security_privacy = ControlPercent(security, privacy)
      /\ LayerReadiness.agent_governance = AgentPercent(agents)
      /\ LayerReadiness.human_oversight = AveragePercent(score, reviews)
    BY DEF LayerReadiness
<1> HIDE DEF U, evidence, policy, score
<1> QED
    BY <1>2, <1>3, <1>4, <1>5, <1>6, <1>7 DEF Layers

\* TypeOK: the registers have their types, and every readiness figure that is shown is a
\* percentage, a register with no records included.
THEOREM PostureTypeCorrect == Spec => []TypeOK
<1>1. PostureInv => TypeOK
  <2> SUFFICES ASSUME PostureInv PROVE TypeOK
      OBVIOUS
  <2>1. DOMAIN useCases \ DOMAIN DemoUseCases \subseteq {"uc-new"}
      BY DEF PostureInv
  <2>2. \A u \in DOMAIN useCases : IsUseCase(useCases[u])
    <3>1. \A u \in DOMAIN useCases : useCases[u] \in UseCaseRecords
        BY DEF PostureInv
    <3>2. \A r \in UseCaseRecords : IsUseCase(r)
        BY DEF UseCaseRecords, IsUseCase, Accesses
    <3> QED
        BY <3>1, <3>2
  <2>3. \A r \in {models, sources, security, privacy, mappings} :
          \A x \in DOMAIN r : r[x].status \in EvidenceStatuses
      BY DEF PostureInv, Rated
  <2>4. \A a \in DOMAIN agents : agents[a].status \in AgentStatuses
      BY DEF PostureInv, Rated
  <2>5. reviews \subseteq ((DOMAIN useCases) \X Decisions)
      BY DEF PostureInv
  <2> QED
      BY <2>1, <2>2, <2>3, <2>4, <2>5, ReadinessIsPercent DEF TypeOK
<1> QED
    BY <1>1, PostureInvariant, PTL
=============================================================================
