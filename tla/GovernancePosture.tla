-------------------------- MODULE GovernancePosture --------------------------
(* What the control plane computes from its registers: the decision packet of a *)
(* use case with the severity of its eight layers, the readiness of every layer *)
(* and the figures of the dashboard (lib/governance-engine.ts,                  *)
(* lib/governance-model.ts), and the integrity checks to be run before the data *)
(* is committed (lib/integrity.ts).                                             *)
(*                                                                              *)
(* The computations are pure; what changes is the data.  The portfolio starts   *)
(* as the one the application ships with (DemoPortfolio) and is edited record   *)
(* by record, a status of one register at a time, or gains the neutral record   *)
(* createUseCase inserts.  Every property compares two computations the code    *)
(* keeps apart, over the shipped portfolio and every portfolio MaxEdits edits   *)
(* away from it.                                                                *)
EXTENDS Integers, Sequences, FiniteSets, SequencesExt, DemoPortfolio

CONSTANTS
  Subjects,   \* the shipped use cases whose records are edited
  MaxEdits    \* bound on the number of edits

ASSUME PostureAssumption == Subjects \subseteq DOMAIN DemoUseCases /\ MaxEdits \in Nat

VARIABLES useCases, agents, models, sources, security, privacy, reviews,
          incidents, mappings,
          edits   \* how many edits were made

registers == <<useCases, agents, models, sources, security, privacy, reviews, incidents, mappings>>
vars == <<useCases, agents, models, sources, security, privacy, reviews, incidents, mappings, edits>>

-----------------------------------------------------------------------------
(* Vocabulary. *)

GateStatusOrder == <<"BLOCKED", "ESCALATE_REQUIRED", "REPAIR_REQUIRED",
                     "GOVERNANCE_REVIEW_REQUIRED", "READY_FOR_AUTHORITY_REVIEW">>

GateStatuses == Range(GateStatusOrder)
Risks == {"low", "medium", "high"}
EvidenceStatuses == {"complete", "partial", "missing"}
Authorities == {"confirmed", "missing", "escalation_required"}
AgentStatuses == {"active", "suspended", "under_review"}
Decisions == {"approved_for_next_stage", "returned_for_repair", "escalated"}
Layers == {"ai_inventory", "data_foundation", "model_lifecycle", "data_security_privacy",
           "access_control", "agent_governance", "human_oversight", "compliance_audit"}

IsUseCase(r) ==
  /\ r.gate \in GateStatuses /\ r.risk \in Risks
  /\ r.access \in {"none", "read_only", "write", "external_system"}
  /\ r.evidence \in EvidenceStatuses /\ r.authority \in Authorities
  /\ r.details \subseteq EvidenceKeys /\ r.agents \subseteq DOMAIN DemoAgents
  /\ r.model \in DOMAIN DemoModels \union {"none"} /\ r.sources \subseteq DOMAIN DemoSources
  /\ r.eval \in (0..100) \X {"PASS", "FIX", "FAIL", "ESCALATE"}

-----------------------------------------------------------------------------
(* Readiness of the eight layers. *)

(* Twice the score, so that a half is a whole number. *)
\* Mutant: what is missing scores above what is partial.
MissingAboveScore(status) == CASE status = "complete" -> 2 [] status = "missing" -> 1 [] OTHER -> 0
StatusScore(status) == CASE status = "complete" -> 2 [] status = "partial" -> 1 [] OTHER -> 0

SumOver(f, S) == FoldSet(LAMBDA x, sum : f[x] + sum, 0, S)

(* The percentage f[x] / 2 averages to over S, rounded half up. *)
AveragePercent(f, S) ==
  IF S = {} THEN 0 ELSE (100 * SumOver(f, S) + Cardinality(S)) \div (2 * Cardinality(S))

StatusPercent(r) == AveragePercent([x \in DOMAIN r |-> StatusScore(r[x].status)], DOMAIN r)

ControlPercent(r1, r2) ==
  AveragePercent([x \in DOMAIN r1 \union DOMAIN r2 |->
                    StatusScore(IF x \in DOMAIN r1 THEN r1[x].status ELSE r2[x].status)],
                 DOMAIN r1 \union DOMAIN r2)

AgentPercent(r) ==
  LET total == IF DOMAIN r = {} THEN 1 ELSE Cardinality(DOMAIN r)
  IN  (200 * Cardinality({a \in DOMAIN r : r[a].status = "active"}) + total) \div (2 * total)

ReviewScore(review) ==
  CASE review[2] = "approved_for_next_stage" -> 2 [] review[2] = "escalated" -> 1 [] OTHER -> 0

LayerReadiness ==
  [ai_inventory |-> AveragePercent([u \in DOMAIN useCases |-> StatusScore(useCases[u].evidence)],
                                   DOMAIN useCases),
   data_foundation |-> StatusPercent(sources),
   model_lifecycle |-> StatusPercent(models),
   data_security_privacy |-> ControlPercent(security, privacy),
   access_control |-> AveragePercent(
     [u \in DOMAIN useCases |-> IF "policy_boundary" \in useCases[u].details THEN 2 ELSE 0],
     DOMAIN useCases),
   agent_governance |-> AgentPercent(agents),
   human_oversight |-> AveragePercent([r \in reviews |-> ReviewScore(r)], reviews),
   compliance_audit |-> StatusPercent(mappings)]

-----------------------------------------------------------------------------
(* The decision packet of a use case. *)

Reviewed(u) == \E r \in reviews : r[1] = u
OpenIncident(u) == \E i \in DOMAIN incidents : incidents[i].asset = u /\ incidents[i].status # "resolved"
StatusesOf(r, S) == {r[x].status : x \in S}
Applied(r, u) == {c \in DOMAIN r : u \in r[c].assets}
ControlStatuses(u) == StatusesOf(security, Applied(security, u)) \union StatusesOf(privacy, Applied(privacy, u))
LinkedAgents(u) == useCases[u].agents \intersect DOMAIN agents
LacksAgent(u) == useCases[u].access \in {"write", "external_system"} /\ LinkedAgents(u) = {}

GateStatusSeverity(status) ==
  CASE status \in {"BLOCKED", "ESCALATE_REQUIRED"} -> "critical"
    [] status \in {"REPAIR_REQUIRED", "GOVERNANCE_REVIEW_REQUIRED"} -> "warning"
    [] OTHER -> "ok"

(* The severity of a set of statuses: nothing registered is a warning. *)
\* Mutant: only a missing status counts.
SeverityOfMissing(statuses) ==
  CASE "missing" \in statuses -> "critical" [] statuses = {} -> "warning" [] OTHER -> "ok"

SeverityOf(statuses) ==
  IF "missing" \in statuses THEN "critical"
  ELSE IF statuses = {} \/ "partial" \in statuses THEN "warning" ELSE "ok"

ModelStatuses(u) == IF useCases[u].model = "none" THEN {} ELSE {models[useCases[u].model].status}

\* Mutant: a blocked use case needs no review.
ReadyOrRiskOnly(u) == useCases[u].gate = "READY_FOR_AUTHORITY_REVIEW" \/ useCases[u].risk = "high"
ReadyOrHighRisk(u) ==
  useCases[u].gate \in {"READY_FOR_AUTHORITY_REVIEW", "BLOCKED"} \/ useCases[u].risk = "high"

OversightSeverity(u) ==
  IF ~Reviewed(u) THEN (IF ReadyOrHighRisk(u) THEN "critical" ELSE "warning")
  ELSE IF useCases[u].authority = "missing" THEN "critical"
  ELSE IF OpenIncident(u) THEN "warning" ELSE "ok"

AgentSeverity(u) ==
  IF LacksAgent(u) THEN "critical"
  ELSE IF "under_review" \in StatusesOf(agents, LinkedAgents(u)) THEN "warning" ELSE "ok"

DecisionPacketLayers(u) ==
  [ai_inventory |-> GateStatusSeverity(useCases[u].gate),
   data_foundation |-> SeverityOf(StatusesOf(sources, useCases[u].sources)),
   model_lifecycle |-> SeverityOf(ModelStatuses(u)),
   data_security_privacy |-> SeverityOf(ControlStatuses(u)),
   access_control |-> IF "policy_boundary" \in useCases[u].details THEN "ok" ELSE "warning",
   agent_governance |-> AgentSeverity(u),
   human_oversight |-> OversightSeverity(u),
   compliance_audit |-> IF useCases[u].evidence = "complete" THEN "ok" ELSE "warning"]

(* The controls the packet lists as missing: pieces of evidence and authority. *)
MissingControls(u) ==
  (EvidenceKeys \ useCases[u].details) \union ({useCases[u].authority} \ {"confirmed"})

(* The layers whose "missing control" is anything but "no critical gap". *)
GapNamed(u) ==
  {layer \in Layers :
     CASE layer = "ai_inventory" -> MissingControls(u) # {}
       [] layer = "data_foundation" -> \E s \in useCases[u].sources : sources[s].status # "complete"
       [] layer = "model_lifecycle" -> ModelStatuses(u) # {"complete"}
       [] layer = "data_security_privacy" -> ControlStatuses(u) \ {"complete"} # {}
       [] layer = "access_control" -> "policy_boundary" \notin useCases[u].details
       [] layer = "agent_governance" -> LacksAgent(u)
       [] layer = "human_oversight" -> useCases[u].authority = "missing" \/ OpenIncident(u)
       [] OTHER -> useCases[u].evidence # "complete"}

-----------------------------------------------------------------------------
(* The dashboard. *)

WriteCapable == {"write", "external_system"}

(* How many use cases have one of the values in a field. *)
CountOf(field, values) == Cardinality({u \in DOMAIN useCases : useCases[u][field] \in values})

Kpis ==
  [total |-> Cardinality(DOMAIN useCases),
   toolEnabled |-> CountOf("access", {"read_only"} \union WriteCapable),
   highRisk |-> CountOf("risk", {"high"}),
   blocked |-> CountOf("gate", {"BLOCKED"}),
   missingAuthority |-> CountOf("authority", {"missing"}),
   missingEvidence |-> CountOf("evidence", {"missing"}),
   externalSystem |-> CountOf("access", {"external_system"}),
   writeCapable |-> CountOf("access", WriteCapable)]

StatusDistribution == [status \in GateStatuses |-> CountOf("gate", {status})]
RiskDistribution == [risk \in Risks |-> CountOf("risk", {risk})]

UrgencyWeight ==
  [BLOCKED |-> 4, ESCALATE_REQUIRED |-> 3, REPAIR_REQUIRED |-> 2,
   GOVERNANCE_REVIEW_REQUIRED |-> 1, READY_FOR_AUTHORITY_REVIEW |-> 0]

RiskWeight == [high |-> 2, medium |-> 1, low |-> 0]

Urgency(u) == UrgencyWeight[useCases[u].gate] * 10 + RiskWeight[useCases[u].risk]

(* The first "limit" of the unready use cases by falling urgency; those equally  *)
(* urgent stay in the order they were read in, which is any.                     *)
UrgentItems(limit) ==
  LET unready == {u \in DOMAIN useCases : useCases[u].gate # "READY_FOR_AUTHORITY_REVIEW"}
      placed(u, list) == InsertAt(list,
        1 + Cardinality({i \in DOMAIN list : Urgency(list[i]) >= Urgency(u)}), u)
      sorted == FoldSet(placed, <<>>, unready)
  IN  SubSeq(sorted, 1, IF Len(sorted) < limit THEN Len(sorted) ELSE limit)

-----------------------------------------------------------------------------
(* The integrity checks. *)

ComplianceMappingIntegrity ==
  \A m \in DOMAIN mappings :
    /\ mappings[m].status = "complete" => mappings[m].controls # {}
    /\ mappings[m].controls \subseteq (DOMAIN security \union DOMAIN privacy)

NeedsExplicitOversight(u) ==
  useCases[u].gate \in {"READY_FOR_AUTHORITY_REVIEW", "BLOCKED"} \/ useCases[u].risk = "high"

MissingReview(u) == NeedsExplicitOversight(u) /\ ~Reviewed(u)

AllIntegrityChecks ==
  /\ ComplianceMappingIntegrity
  /\ \A u \in DOMAIN useCases : ~MissingReview(u)

-----------------------------------------------------------------------------
(* The data and its edits. *)

Init ==
  /\ useCases = DemoUseCases
  /\ agents = DemoAgents
  /\ models = DemoModels
  /\ sources = DemoSources
  /\ security = DemoSecurity
  /\ privacy = DemoPrivacy
  /\ reviews = DemoReviews
  /\ incidents = DemoIncidents
  /\ mappings = DemoMappings
  /\ edits = 0

Edit == edits < MaxEdits /\ edits' = edits + 1

EditUseCase(u, record) ==
  /\ Edit
  /\ useCases' = [useCases EXCEPT ![u] = record]
  /\ UNCHANGED <<agents, models, sources, security, privacy, reviews, incidents, mappings>>

CollectEvidence(u) ==
  \E key \in EvidenceKeys \ useCases[u].details :
    EditUseCase(u, [useCases[u] EXCEPT !.details = @ \union {key}])

CompleteEvidence(u) ==
  /\ useCases[u].evidence # "complete"
  /\ EditUseCase(u, [useCases[u] EXCEPT !.evidence = "complete"])

ConfirmAuthority(u) ==
  /\ useCases[u].authority # "confirmed"
  /\ EditUseCase(u, [useCases[u] EXCEPT !.authority = "confirmed"])

RegisterAgent(u, a) ==
  /\ a \notin useCases[u].agents
  /\ EditUseCase(u, [useCases[u] EXCEPT !.agents = @ \union {a}])

LoseAuthority(u) ==
  \E status \in {"missing", "escalation_required"} \ {useCases[u].authority} :
    EditUseCase(u, [useCases[u] EXCEPT !.authority = status])

MoveGate(u) ==
  \E status \in GateStatuses \ {useCases[u].gate} :
    EditUseCase(u, [useCases[u] EXCEPT !.gate = status])

(* A status of one register rises or falls by one edit. *)
Restated(r, x, S) == \E status \in S \ {r[x].status} : r' = [r EXCEPT ![x].status = status]

RestateSource(s) ==
  Edit /\ Restated(sources, s, EvidenceStatuses)
       /\ UNCHANGED <<useCases, agents, models, security, privacy, reviews, incidents, mappings>>
RestateModel(m) ==
  Edit /\ Restated(models, m, EvidenceStatuses)
       /\ UNCHANGED <<useCases, agents, sources, security, privacy, reviews, incidents, mappings>>
RestateSecurity(c) ==
  Edit /\ Restated(security, c, EvidenceStatuses)
       /\ UNCHANGED <<useCases, agents, models, sources, privacy, reviews, incidents, mappings>>
RestatePrivacy(c) ==
  Edit /\ Restated(privacy, c, EvidenceStatuses)
       /\ UNCHANGED <<useCases, agents, models, sources, security, reviews, incidents, mappings>>
RestateMapping(m) ==
  Edit /\ Restated(mappings, m, EvidenceStatuses)
       /\ UNCHANGED <<useCases, agents, models, sources, security, privacy, reviews, incidents>>
RestateAgent(a) ==
  Edit /\ Restated(agents, a, AgentStatuses)
       /\ UNCHANGED <<useCases, models, sources, security, privacy, reviews, incidents, mappings>>
RestateIncident(i) ==
  Edit /\ Restated(incidents, i, {"open", "investigating", "resolved"})
       /\ UNCHANGED <<useCases, agents, models, sources, security, privacy, reviews, mappings>>

RecordReview(u, decision) ==
  /\ Edit
  /\ <<u, decision>> \notin reviews
  /\ reviews' = reviews \union {<<u, decision>>}
  /\ UNCHANGED <<useCases, agents, models, sources, security, privacy, incidents, mappings>>

DropReview(u) ==
  /\ Edit
  /\ Reviewed(u)
  /\ reviews' = {r \in reviews : r[1] # u}
  /\ UNCHANGED <<useCases, agents, models, sources, security, privacy, incidents, mappings>>

NeutralUseCase(risk, access) ==
  Asset("GOVERNANCE_REVIEW_REQUIRED", risk, access, "missing", "missing", {}, {}, "none", {}, <<0, "FIX">>)

CreateUseCase ==
  /\ Edit
  /\ "uc-new" \notin DOMAIN useCases
  /\ \E risk \in Risks, access \in {"none", "read_only", "write", "external_system"} :
       useCases' = [u \in DOMAIN useCases \union {"uc-new"} |->
                      IF u = "uc-new" THEN NeutralUseCase(risk, access) ELSE useCases[u]]
  /\ UNCHANGED <<agents, models, sources, security, privacy, reviews, incidents, mappings>>

Edited == Subjects \union (DOMAIN useCases \ DOMAIN DemoUseCases)

Next ==
  \/ CreateUseCase
  \/ \E u \in Edited :
       \/ CollectEvidence(u) \/ CompleteEvidence(u) \/ ConfirmAuthority(u)
       \/ LoseAuthority(u) \/ MoveGate(u) \/ DropReview(u)
       \/ \E a \in DOMAIN agents : RegisterAgent(u, a)
       \/ \E decision \in Decisions : RecordReview(u, decision)
       \/ \E s \in useCases[u].sources : RestateSource(s)
       \/ \E m \in {useCases[u].model} \ {"none"} : RestateModel(m)
       \/ \E c \in Applied(security, u) : RestateSecurity(c)
       \/ \E c \in Applied(privacy, u) : RestatePrivacy(c)
       \/ \E a \in useCases[u].agents : RestateAgent(a)
       \/ \E i \in {j \in DOMAIN incidents : incidents[j].asset = u} : RestateIncident(i)
  \/ \E m \in DOMAIN mappings : RestateMapping(m)

Spec == Init /\ [][Next]_vars

-----------------------------------------------------------------------------
(* Properties. *)

TypeOK ==
  /\ DOMAIN useCases \ DOMAIN DemoUseCases \subseteq {"uc-new"}
  /\ \A u \in DOMAIN useCases : IsUseCase(useCases[u])
  /\ \A r \in {models, sources, security, privacy, mappings} :
       \A x \in DOMAIN r : r[x].status \in EvidenceStatuses
  /\ \A a \in DOMAIN agents : agents[a].status \in AgentStatuses
  /\ reviews \subseteq ((DOMAIN useCases) \X Decisions)
  /\ LET readiness == LayerReadiness IN \A layer \in Layers : readiness[layer] \in 0..100

(* The portfolio as shipped is in order: the integrity checks pass, the links   *)
(* between use cases, agents, models, data sources and lineage are the same     *)
(* from both ends, the evaluation ledger repeats the use cases' own result, and *)
(* a use case is ready for authority review only when no layer of its packet    *)
(* has anything to say (mock-data.ts and integrity.ts are edited by hand, and   *)
(* nothing runs these checks).                                                  *)
ShippedPortfolioIsSound ==
  edits = 0 =>
    /\ AllIntegrityChecks
    /\ \A a \in DOMAIN agents, u \in DOMAIN useCases :
         a \in useCases[u].agents <=> agents[a].asset = u
    /\ \A m \in DOMAIN models : models[m].usedBy = {u \in DOMAIN useCases : useCases[u].model = m}
    /\ \A s \in DOMAIN sources : sources[s].usedBy = {u \in DOMAIN useCases : s \in useCases[u].sources}
    /\ \A link \in DemoLineage : link[2] \in sources[link[1]].usedBy
    /\ \A u \in DOMAIN useCases : useCases[u].eval = DemoEvaluations[u]
    /\ \A u \in DOMAIN useCases :
         useCases[u].gate = "READY_FOR_AUTHORITY_REVIEW"
           => \A layer \in Layers : DecisionPacketLayers(u)[layer] = "ok"

(* The oversight layer of a packet and the oversight check agree, although each *)
(* spells out for itself which use cases need a review: a use case without one  *)
(* is critical exactly when the check reports it.                               *)
OversightChecksAgree ==
  \A u \in DOMAIN useCases :
    MissingReview(u) <=> (~Reviewed(u) /\ DecisionPacketLayers(u).human_oversight = "critical")

(* In the layers computed from the registers the severity and the named gap are *)
(* two computations over the same records: a critical layer names a gap, and a  *)
(* layer that names one is not ok.                                              *)
SeverityMatchesGap ==
  \A u \in DOMAIN useCases :
    LET packet == DecisionPacketLayers(u)
        named == GapNamed(u)
    IN  \A layer \in Layers \ {"ai_inventory", "human_oversight"} :
          /\ packet[layer] = "critical" => layer \in named
          /\ layer \in named => packet[layer] # "ok"

(* The cards, the distributions and the urgent list of the dashboard count the  *)
(* same records: the distributions add up to the totals on the cards, and the   *)
(* cards about tools are nested.                                                *)
DashboardReconciles ==
  /\ SumOver(StatusDistribution, GateStatuses) = Kpis.total
  /\ SumOver(RiskDistribution, Risks) = Kpis.total
  /\ StatusDistribution["BLOCKED"] = Kpis.blocked
  /\ RiskDistribution["high"] = Kpis.highRisk
  /\ Kpis.externalSystem <= Kpis.writeCapable
  /\ Kpis.writeCapable <= Kpis.toolEnabled

Position(status) == CHOOSE i \in DOMAIN GateStatusOrder : GateStatusOrder[i] = status

(* The urgent list follows the gate order the board uses, which is kept in      *)
(* another table: it is as long as it can be, it never shows a use case before  *)
(* a worse one, and it leaves out none worse than one it shows.                 *)
UrgentListFollowsGateOrder ==
  LET list == UrgentItems(5)
      listed == Range(list)
      place(u) == Position(useCases[u].gate)
      unready == {u \in DOMAIN useCases : useCases[u].gate # "READY_FOR_AUTHORITY_REVIEW"}
  IN  /\ listed \subseteq unready
      /\ Len(list) = 5 \/ listed = unready
      /\ \A i, j \in DOMAIN list : i < j => place(list[i]) <= place(list[j])
      /\ \A u \in unready \ listed, v \in listed : place(v) <= place(u)

(* A use case that was only just created shows what it lacks: every layer of    *)
(* its packet but the agent layer warns until something is registered for it,   *)
(* and the agent layer is critical when it may write or reach other systems.    *)
NewUseCaseShowsItsGaps ==
  \A u \in DOMAIN useCases \ DOMAIN DemoUseCases :
    useCases[u] = NeutralUseCase(useCases[u].risk, useCases[u].access) /\ ~Reviewed(u) =>
      /\ \A layer \in Layers \ {"agent_governance"} : DecisionPacketLayers(u)[layer] # "ok"
      /\ useCases[u].access \in {"write", "external_system"}
           <=> DecisionPacketLayers(u).agent_governance = "critical"

SeverityRank(severity) == CASE severity = "ok" -> 0 [] severity = "warning" -> 1 [] OTHER -> 2

Improved(r) ==
  \A x \in DOMAIN r : \/ r'[x].status = r[x].status
                      \/ r[x].status = "missing"
                      \/ r'[x].status \in {"complete", "active", "resolved"}

(* The steps that only mend: evidence collected or completed, authority         *)
(* confirmed, a status raised, an incident resolved, an approving review.       *)
Mending ==
  /\ \E u \in DOMAIN useCases :
       \/ CollectEvidence(u) \/ CompleteEvidence(u) \/ ConfirmAuthority(u)
       \/ RecordReview(u, "approved_for_next_stage")
       \/ UNCHANGED useCases /\ UNCHANGED reviews
  /\ Improved(models) /\ Improved(sources) /\ Improved(security)
  /\ Improved(privacy) /\ Improved(mappings) /\ Improved(agents) /\ Improved(incidents)

(* Mending one record never makes a packet or the coverage of a layer look      *)
(* worse.  One exception is in the code: the severity of the oversight layer    *)
(* looks at the authority only once there is a review, so the first review of a *)
(* use case without authority turns its warning into a critical finding.        *)
MendingNeverWorsens ==
  [][Mending =>
       /\ LET before == LayerReadiness
              after == LayerReadiness'
          IN  \A layer \in Layers : after[layer] >= before[layer]
       /\ \A u \in DOMAIN useCases :
            LET before == DecisionPacketLayers(u)
                after == DecisionPacketLayers(u)'
            IN  \A layer \in Layers :
                  \/ SeverityRank(after[layer]) <= SeverityRank(before[layer])
                  \/ /\ layer = "human_oversight"
                     /\ ~Reviewed(u) /\ Reviewed(u)'
                     /\ useCases[u].authority = "missing"]_vars
=============================================================================
