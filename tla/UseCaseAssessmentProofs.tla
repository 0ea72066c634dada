---------------------- MODULE UseCaseAssessmentProofs ----------------------
(***************************************************************************)
(* Proofs about the assessment chain, for every use case, evaluation and   *)
(* declaration of a caller. The stages are pure functions whose outputs    *)
(* the state keeps, so the inductive invariant says that each output is    *)
(* still the one of the current input; the rest is what the outputs of a   *)
(* stage tell of the outputs of the stages before it.                      *)
(***************************************************************************)
EXTENDS UseCaseAssessment, FiniteSetTheorems, WellFoundedInduction, NaturalsInduction, TLAPS

\* Every output kept is the one of the use case, and belongs to the outputs before it.
AssessmentInv ==
    /\ flow # NotRun => flow = AIGovernanceFlow(useCase)
    /\ grade # NotRun => flow # NotRun /\ \E o \in Observations : grade = GradeEvalCases(useCase, o)
    /\ decision # NotRun => grade # NotRun /\ decision = DecideGate(useCase, flow, grade, caller)

FlowStatuses == {"BLOCKED", "REPAIR_REQUIRED", "EVAL_ALLOWED", "GOVERNANCE_REVIEW_REQUIRED",
                 "ESCALATE_REQUIRED"}
-----------------------------------------------------------------------------
(* Lemmas about the stages.                                                *)

\* What the readiness gate's status tells of its outcome and of scoring.
LEMMA GateStatusFits ==
    ASSUME NEW r, NEW smuggled, NEW g, g = AssignGateStatus(r, smuggled)
    PROVE  /\ g.gate_status \in FlowStatuses /\ g.review_outcome \in Outcomes
           /\ g.gate_status = "BLOCKED" <=> g.review_outcome = "FAIL"
           /\ g.gate_status = "ESCALATE_REQUIRED" <=> g.review_outcome = "ESCALATE"
           /\ g.gate_status \in {"EVAL_ALLOWED", "GOVERNANCE_REVIEW_REQUIRED"} =>
                r.review_outcome = "PASS" /\ Unblocked(r)
           /\ g.gate_status = "REPAIR_REQUIRED" => Unblocked(r)
<1> DEFINE V == {GateVerdict("BLOCKED", "FAIL"), GateVerdict("REPAIR_REQUIRED", "FIX"),
                 GateVerdict("EVAL_ALLOWED", "PASS"), GateVerdict("GOVERNANCE_REVIEW_REQUIRED", "PASS"),
                 GateVerdict("ESCALATE_REQUIRED", "ESCALATE")}
<1>1. g \in V
    BY DEF AssignGateStatus
<1>2. g = GateVerdict("REPAIR_REQUIRED", "FIX") => Unblocked(r)
    BY DEF AssignGateStatus, GateVerdict
<1>3. g \in {GateVerdict("EVAL_ALLOWED", "PASS"), GateVerdict("GOVERNANCE_REVIEW_REQUIRED", "PASS")} =>
            r.review_outcome = "PASS" /\ Unblocked(r)
    BY DEF AssignGateStatus, GateVerdict
<1> QED
    BY <1>1, <1>2, <1>3 DEF GateVerdict, FlowStatuses, Outcomes

\* Scoring repeats a triage objection.
LEMMA ScoringRepeatsObjection ==
    ASSUME NEW i, NEW score, NEW blocking
    PROVE  /\ i.review \in {"FAIL", "ESCALATE"} => ReadinessOutcome(i, score, blocking) = i.review
           /\ ReadinessOutcome(i, score, blocking) \in Outcomes
BY DEF ReadinessOutcome, Outcomes

\* The fields of a flow's output, and how they depend on each other.
FlowFits(f) ==
    LET reviews == {f.triage.review_outcome, f.readiness.review_outcome, f.gate.review_outcome}
    IN  /\ f.final_status = f.gate.gate_status /\ f.final_status \in FlowStatuses
        /\ f.gate.review_outcome \in Outcomes /\ f.readiness.review_outcome \in Outcomes
        /\ f.final_status = "BLOCKED" <=> f.gate.review_outcome = "FAIL"
        /\ f.final_status = "ESCALATE_REQUIRED" <=> f.gate.review_outcome = "ESCALATE"
        /\ f.triage.review_outcome \in {"FAIL", "ESCALATE"} =>
              f.readiness.review_outcome = f.triage.review_outcome
        /\ f.final_status \in {"EVAL_ALLOWED", "GOVERNANCE_REVIEW_REQUIRED"} =>
              f.readiness.review_outcome = "PASS"
        /\ f.final_status \in {"EVAL_ALLOWED", "GOVERNANCE_REVIEW_REQUIRED", "REPAIR_REQUIRED"} =>
              f.readiness.blocking_controls = {}
        /\ f.final_review_outcome \in Outcomes
        /\ f.final_review_outcome = "FAIL" <=> "FAIL" \in reviews
        /\ f.final_review_outcome = "ESCALATE" <=> "FAIL" \notin reviews /\ "ESCALATE" \in reviews
        /\ f.final_review_outcome = "PASS" <=>
              /\ {"FAIL", "ESCALATE"} \cap reviews = {}
              /\ f.final_status \in {"EVAL_ALLOWED", "GOVERNANCE_REVIEW_REQUIRED"}

LEMMA FlowOutput ==
    ASSUME NEW u
    PROVE  FlowFits(AIGovernanceFlow(u))
<1> DEFINE t == TriageUseCase(u)
           i == MapToReadinessInput(u, t)
           r == ScoreAIReadiness(i)
           g == AssignGateStatus(r, u.smuggled)
           f == AIGovernanceFlow(u)
<1>1. /\ f.triage = t /\ f.readiness = r /\ f.gate = g /\ f.final_status = g.gate_status
      /\ f.final_review_outcome = FinalReviewOutcome(t, r, g)
    BY DEF AIGovernanceFlow
<1>2. i.review = t.review_outcome
    BY DEF MapToReadinessInput
<1>3. r.review_outcome = ReadinessOutcome(i, CappedScore(RawReadinessScore(i.s), i), BlockingControls(i))
    BY DEF ScoreAIReadiness
<1> HIDE DEF t, i, r, g, f
<1>4. /\ t.review_outcome \in {"FAIL", "ESCALATE"} => r.review_outcome = t.review_outcome
      /\ r.review_outcome \in Outcomes
    BY <1>2, <1>3, ScoringRepeatsObjection
<1>5. /\ g.gate_status \in FlowStatuses /\ g.review_outcome \in Outcomes
      /\ g.gate_status = "BLOCKED" <=> g.review_outcome = "FAIL"
      /\ g.gate_status = "ESCALATE_REQUIRED" <=> g.review_outcome = "ESCALATE"
      /\ g.gate_status \in {"EVAL_ALLOWED", "GOVERNANCE_REVIEW_REQUIRED"} =>
                r.review_outcome = "PASS" /\ r.blocking_controls = {}
      /\ g.gate_status = "REPAIR_REQUIRED" => r.blocking_controls = {}
    BY GateStatusFits DEF g, Unblocked
<1> DEFINE reviews == {t.review_outcome, r.review_outcome, g.review_outcome}
<1>6. /\ FinalReviewOutcome(t, r, g) \in Outcomes
      /\ FinalReviewOutcome(t, r, g) = "FAIL" <=> "FAIL" \in reviews
      /\ FinalReviewOutcome(t, r, g) = "ESCALATE" <=> "FAIL" \notin reviews /\ "ESCALATE" \in reviews
      /\ FinalReviewOutcome(t, r, g) = "PASS" <=>
            /\ {"FAIL", "ESCALATE"} \cap reviews = {}
            /\ g.gate_status \in {"EVAL_ALLOWED", "GOVERNANCE_REVIEW_REQUIRED"}
    BY <1>5 DEF FinalReviewOutcome, Outcomes, FlowStatuses
<1> QED
    BY <1>1, <1>4, <1>5, <1>6 DEF FlowFits, f

\* A grade that is not a failure has no failed test case.
LEMMA GradeOutput ==
    ASSUME NEW u, NEW o, NEW g, g = GradeEvalCases(u, o)
    PROVE  g.review_outcome # "FAIL" => g.failed = {}
<1>1. g.review_outcome = IF o.smuggled THEN "FAIL" ELSE FirstTier(g.failed, g.escalated, g.fixed)
    BY DEF GradeEvalCases
<1>2. g.failed # {} => FirstTier(g.failed, g.escalated, g.fixed) = "FAIL"
    BY Zenon DEF FirstTier
<1> QED
    BY <1>1, <1>2

\* A test case graded on a well-formed observation has one of the four outcomes.
LEMMA CaseGraded ==
    ASSUME NEW u, NEW o \in Observation, NEW d \in EvalMatrix(u)
    PROVE  GradeEvalCase(u, d, o) \in Outcomes
<1>1. d \in EvalDimensions
    BY DEF EvalMatrix, EvalDimensions
<1>2. o.status[d] \in Outcomes \cup {Unset}
    BY <1>1 DEF Observation
<1>3. \A a, b \in Outcomes : Worse(a, b) \in Outcomes
    BY DEF Worse
<1>4. (IF o.status[d] = Unset THEN "FAIL" ELSE o.status[d]) \in Outcomes
    BY <1>2 DEF Outcomes
<1>5. (IF ForcesFailOnMissingEvidence(u, d) THEN "FAIL" ELSE "FIX") \in Outcomes
    BY DEF Outcomes
<1> QED
    BY <1>3, <1>4, <1>5 DEF GradeEvalCase

LEMMA FourMore ==
    ASSUME NEW S, IsFiniteSet(S), NEW a, NEW b, NEW c, NEW d
    PROVE  IsFiniteSet(S \cup {a, b, c, d}) /\ (S = {} => IsFiniteSet({a, b, c, d}))
<1>1. IsFiniteSet(S \cup {a})
    BY FS_AddElement
<1>2. IsFiniteSet((S \cup {a}) \cup {b})
    BY <1>1, FS_AddElement
<1>3. IsFiniteSet(((S \cup {a}) \cup {b}) \cup {c})
    BY <1>2, FS_AddElement
<1>4. IsFiniteSet((((S \cup {a}) \cup {b}) \cup {c}) \cup {d})
    BY <1>3, FS_AddElement
<1>5. (((S \cup {a}) \cup {b}) \cup {c}) \cup {d} = S \cup {a, b, c, d}
    OBVIOUS
<1> QED
    BY <1>4, <1>5

\* Full marks: when no test case was failed, escalated or fixed, all of them passed,
\* and the percentage, rounded half up, is 100.
LEMMA FullScore ==
    ASSUME NEW u, NEW o \in Observation, NEW g, g = GradeEvalCases(u, o),
           g.failed = {}, g.escalated = {}, g.fixed = {}
    PROVE  g.eval_score = 100
<1> DEFINE cases == EvalMatrix(u)
           graded(s) == {d \in cases : GradeEvalCase(u, d, o) = s}
           total == CaseScore.PASS * Cardinality(graded("PASS")) + CaseScore.FIX * Cardinality(graded("FIX"))
           n == Cardinality(cases)
<1>1. /\ g.failed = graded("FAIL") /\ g.escalated = graded("ESCALATE") /\ g.fixed = graded("FIX")
      /\ g.eval_score = (2 * total + n) \div (2 * n)
    BY DEF GradeEvalCases
<1>2. graded("PASS") = cases
    BY <1>1, CaseGraded DEF Outcomes
<1>3. Cardinality(graded("FIX")) = 0
    BY <1>1, FS_EmptySet
<1>4. n \in Nat /\ n > 0
  <2>1. IsFiniteSet(cases)
    <3>1. IsFiniteSet({"ACCURACY", "GROUNDING", "AUTHORITY_SAFETY", "DATA_SAFETY"})
      BY FourMore, FS_EmptySet
    <3>2. IsFiniteSet({"ACCURACY", "GROUNDING", "AUTHORITY_SAFETY", "DATA_SAFETY"}
                      \cup {"AUDITABILITY", "BUSINESS_FIT", "FAILURE_HANDLING", "ACTION_SAFETY"})
      BY <3>1, FourMore
    <3>3. cases \subseteq {"ACCURACY", "GROUNDING", "AUTHORITY_SAFETY", "DATA_SAFETY"}
                      \cup {"AUDITABILITY", "BUSINESS_FIT", "FAILURE_HANDLING", "ACTION_SAFETY"}
      BY DEF EvalMatrix, BaseEvalDimensions
    <3> QED
      BY <3>2, <3>3, FS_Subset
  <2>2. cases # {}
    BY DEF EvalMatrix, BaseEvalDimensions
  <2> HIDE DEF cases
  <2> QED
    BY <2>1, <2>2, FS_EmptySet, FS_CardinalityType
<1>5. total = 100 * n
  <2>1. CaseScore.PASS = 100 /\ CaseScore.FIX = 50
    BY DEF CaseScore
  <2>2. total = 100 * n + 50 * 0
    BY Zenon, <1>2, <1>3, <2>1
  <2> HIDE DEF n
  <2> QED
    BY <1>4, <2>2
<1> HIDE DEF n, total
<1>6. (2 * (100 * n) + n) \div (2 * n) = 100
  <2> DEFINE m == 2 * n
  <2>1. m \in Nat /\ m > 0 /\ 2 * (100 * n) + n = 100 * m + n /\ n < m
    BY <1>4
  <2> HIDE DEF m
  <2>2. (100 * m + n) \div m = 100
    BY <1>4, <2>1
  <2> QED
    BY <2>1, <2>2 DEF m
<1> QED
    BY <1>1, <1>5, <1>6

\* What the governance gate's answer tells of its tiers.
LEMMA DecisionTiers ==
    ASSUME NEW u, NEW f, NEW g, NEW c, NEW d, d = DecideGate(u, f, g, c)
    PROVE  /\ d.review_outcome \in Outcomes /\ d # NotRun
           /\ GateFails(u, f, g, c) => d.review_outcome = "FAIL"
           /\ GateEscalates(f, g) => d.review_outcome \in {"FAIL", "ESCALATE"}
           /\ GateEscalates(f, g) /\ ~GateFails(u, f, g, c) => d.gate_status = "ESCALATE_REQUIRED"
           /\ d.gate_status = "READY_FOR_AUTHORITY_REVIEW" =>
                /\ ~GateFails(u, f, g, c) /\ ~GateEscalates(f, g) /\ ~GateRepairs(u, g, c)
                /\ f.final_status # "GOVERNANCE_REVIEW_REQUIRED"
<1>1. /\ GateFails(u, f, g, c) => d = GateVerdict("BLOCKED", "FAIL")
      /\ ~GateFails(u, f, g, c) /\ GateEscalates(f, g) => d = GateVerdict("ESCALATE_REQUIRED", "ESCALATE")
      /\ ~GateFails(u, f, g, c) /\ ~GateEscalates(f, g) /\ GateRepairs(u, g, c) =>
            d = GateVerdict("REPAIR_REQUIRED", "FIX")
      /\ ~GateFails(u, f, g, c) /\ ~GateEscalates(f, g) /\ ~GateRepairs(u, g, c) =>
            d = IF f.final_status = "GOVERNANCE_REVIEW_REQUIRED"
                THEN GateVerdict("GOVERNANCE_REVIEW_REQUIRED", "PASS")
                ELSE GateVerdict("READY_FOR_AUTHORITY_REVIEW", "PASS")
    BY Zenon DEF DecideGate
<1>2. \A s, r : /\ GateVerdict(s, r).gate_status = s /\ GateVerdict(s, r).review_outcome = r
                /\ GateVerdict(s, r) # NotRun
    BY DEF GateVerdict, NotRun
<1> QED
    BY <1>1, <1>2 DEF Outcomes

LessOnNat == {p \in Nat \X Nat : p[1] < p[2]}

LEMMA LeastNumber ==
    ASSUME NEW S \in SUBSET Nat, S # {}
    PROVE  \E i \in S : \A j \in S : i <= j
<1>1. IsWellFoundedOn(LessOnNat, Nat)
    BY NatLessThanWellFounded DEF OpToRel, LessOnNat
<1>2. PICK i \in S : \A j \in S : <<j, i>> \notin LessOnNat
    BY <1>1, WFMin
<1>3. ASSUME NEW j \in S, j < i PROVE FALSE
  <2>1. <<j, i>> \in Nat \X Nat /\ <<j, i>>[1] = j /\ <<j, i>>[2] = i
    OBVIOUS
  <2>2. <<j, i>> \in LessOnNat
    BY Zenon, <1>3, <2>1 DEF LessOnNat
  <2> QED
    BY <1>2, <2>2
<1> QED
    BY <1>3

\* The triage verdict is that of one of its rules; the last rule always applies.
LEMMA VerdictOfRule ==
    ASSUME NEW u
    PROVE  \E i \in 1..17 : TriageUseCase(u) = TriageRules(u)[i][2]
<1> DEFINE R == TriageRules(u)
           First(i) == R[i][1] /\ \A j \in 1..(i - 1) : ~R[j][1]
<1>1. DOMAIN R = 1..17 /\ R[17][1]
    BY DEF TriageRules
<1> HIDE DEF R
<1>2. \E i \in DOMAIN R : First(i)
  <2> DEFINE S == {i \in 1..17 : R[i][1]}
  <2>1. S \in SUBSET Nat /\ S # {}
    BY <1>1
  <2>2. PICK i \in S : \A j \in S : i <= j
    <3> HIDE DEF S
    <3> QED
      BY <2>1, LeastNumber
  <2>3. \A j \in 1..(i - 1) : j \notin S
    BY <2>1, <2>2
  <2> QED
    BY <1>1, <2>2, <2>3
<1>3. TriageUseCase(u) = R[CHOOSE i \in DOMAIN R : First(i)][2]
    BY DEF TriageUseCase, R
<1> HIDE DEF First
<1> DEFINE k == CHOOSE i \in DOMAIN R : First(i)
<1>4. k \in DOMAIN R
    BY Zenon, <1>2
<1>5. TriageUseCase(u) = R[k][2]
    BY Zenon, <1>3
<1> HIDE DEF k
<1>6. TriageUseCase(u) = TriageRules(u)[k][2]
    BY Zenon, <1>5 DEF R
<1> QED
    BY <1>1, <1>4, <1>6

LEMMA RulesAskForKfsa ==
    ASSUME NEW u, NEW i \in 1..17, TriageRules(u)[i][2].kfsa_gate_required
    PROVE  \/ TriageRules(u)[i][2].recommended_mode \in AgenticModes
           \/ TriageRules(u)[i][2].review_outcome = "ESCALATE"
BY DEF TriageRules, Verdict, AgenticModes
-----------------------------------------------------------------------------
(* The invariant and the properties.                                       *)

\* The outputs kept are those of the use case and of each other: the flow is run once,
\* a new evaluation voids the decision on the one before.
THEOREM AssessmentInvariant == Spec => []AssessmentInv
<1>1. Init => AssessmentInv
    BY DEF Init, AssessmentInv
<1>2. AssessmentInv /\ [Next]_vars => AssessmentInv'
  <2> SUFFICES ASSUME AssessmentInv, [Next]_vars PROVE AssessmentInv'
    OBVIOUS
  <2>1. CASE RunAIGovernanceFlow
    BY <2>1 DEF RunAIGovernanceFlow, AssessmentInv
  <2>2. ASSUME NEW o \in Observations, RunEvalGraderMatrix(o) PROVE AssessmentInv'
    BY <2>2 DEF RunEvalGraderMatrix, AssessmentInv
  <2>3. ASSUME NEW c \in Callers, RunGovernanceGate(c) PROVE AssessmentInv'
    BY <2>3 DEF RunGovernanceGate, AssessmentInv
  <2>4. CASE UNCHANGED vars
    BY <2>4 DEF vars, AssessmentInv
  <2> QED
    BY <2>1, <2>2, <2>3, <2>4 DEF Next
<1> QED
    BY <1>1, <1>2, PTL DEF Spec

\* What a decision rests on.
LEMMA DecisionRests ==
    ASSUME AssessmentInv, decision # NotRun
    PROVE  /\ flow # NotRun /\ FlowFits(flow) /\ grade # NotRun
           /\ \E o \in Observations : grade = GradeEvalCases(useCase, o)
           /\ decision = DecideGate(useCase, flow, grade, caller)
BY FlowOutput DEF AssessmentInv

\* EscalationReachesAuthority: use-case triage, readiness scoring, the readiness gate, the
\* flow's conclusion, the evaluation and the governance gate hand an escalation on.
THEOREM EscalationReaches == Spec => []EscalationReachesAuthority
<1>1. AssessmentInv => EscalationReachesAuthority
  <2> SUFFICES ASSUME AssessmentInv, decision # NotRun, caller.authority_evidence, ~caller.smuggled,
                      \E s \in Review!Stages : Reports[s] = "ESCALATE",
                      \A s \in Review!Stages : Reports[s] # "FAIL"
               PROVE  decision.gate_status = "ESCALATE_REQUIRED"
    BY DEF EscalationReachesAuthority
  <2> DEFINE reviews == {flow.triage.review_outcome, flow.readiness.review_outcome, flow.gate.review_outcome}
  <2>1. /\ flow # NotRun /\ FlowFits(flow) /\ grade # NotRun
        /\ decision = DecideGate(useCase, flow, grade, caller)
    BY DecisionRests
  <2>2. /\ Reports["triage"] = flow.triage.review_outcome
        /\ Reports["readiness"] = flow.readiness.review_outcome
        /\ Reports["gate"] = flow.gate.review_outcome /\ Reports["eval"] = grade.review_outcome
    BY <2>1 DEF Reports
  <2>3. "FAIL" \notin reviews /\ grade.review_outcome # "FAIL"
        /\ ("ESCALATE" \in reviews \/ grade.review_outcome = "ESCALATE")
    BY <2>2 DEF Review!Stages
  <2>4. grade.failed = {}
    BY <2>3, DecisionRests, GradeOutput
  <2>5. ~GateFails(useCase, flow, grade, caller)
    BY <2>1, <2>3, <2>4 DEF GateFails, FlowFits
  <2>6. GateEscalates(flow, grade)
    BY <2>1, <2>3 DEF GateEscalates, FlowFits
  <2> QED
    BY <2>1, <2>5, <2>6, DecisionTiers
<1> QED
    BY <1>1, AssessmentInvariant, PTL

\* ReadyMeansClean: the governance gate's status READY_FOR_AUTHORITY_REVIEW speaks for
\* every stage before it, the percentage of the evaluation included.
THEOREM ReadyIsClean == Spec => []ReadyMeansClean
<1>1. AssessmentInv => ReadyMeansClean
  <2> SUFFICES ASSUME AssessmentInv, decision # NotRun, decision.gate_status = "READY_FOR_AUTHORITY_REVIEW"
               PROVE  /\ grade.eval_score = 100
                      /\ flow.final_status \in {"EVAL_ALLOWED", "REPAIR_REQUIRED"}
                      /\ flow.readiness.review_outcome \in {"PASS", "FIX"}
                      /\ flow.readiness.blocking_controls = {}
                      /\ useCase.production_intended =>
                            caller.authority_evidence /\ caller.package_provided
                      /\ useCase.regulatory_or_legal_impact \in {"medium", "high"} => caller.authority_evidence
    BY DEF ReadyMeansClean
  <2>1. /\ FlowFits(flow) /\ decision = DecideGate(useCase, flow, grade, caller)
    BY DecisionRests
  <2>2. /\ ~GateFails(useCase, flow, grade, caller) /\ ~GateEscalates(flow, grade)
        /\ ~GateRepairs(useCase, grade, caller) /\ flow.final_status # "GOVERNANCE_REVIEW_REQUIRED"
    BY <2>1, DecisionTiers
  <2>3. grade.failed = {} /\ grade.escalated = {} /\ grade.fixed = {}
    BY <2>2 DEF GateFails, GateEscalates, GateRepairs
  <2>4. grade.eval_score = 100
    <3>1. PICK o \in Observations : grade = GradeEvalCases(useCase, o)
      BY DecisionRests
    <3>2. o \in Observation
      BY AssessmentAssumption
    <3> QED
      BY <2>3, <3>1, <3>2, FullScore
  <2>5. flow.final_status \in {"EVAL_ALLOWED", "REPAIR_REQUIRED"}
    BY <2>1, <2>2 DEF FlowFits, FlowStatuses, GateFails, GateEscalates
  <2>6. flow.readiness.review_outcome \in {"PASS", "FIX"} /\ flow.readiness.blocking_controls = {}
    BY <2>1, <2>2, <2>5 DEF FlowFits, GateFails, GateEscalates, Outcomes
  <2>7. RequiresAuthority(useCase, caller) => caller.authority_evidence
    BY <2>2 DEF GateFails
  <2>8. RequiresEvidencePackage(useCase, grade, caller) => caller.package_provided
    BY <2>2 DEF GateRepairs
  <2> QED
    BY <2>4, <2>5, <2>6, <2>7, <2>8 DEF RequiresAuthority, RequiresEvidencePackage
<1> QED
    BY <1>1, AssessmentInvariant, PTL

\* BlockingNeverPasses: a control that scoring found missing blocks or escalates, whatever
\* the score is.
THEOREM BlockingHolds == Spec => []BlockingNeverPasses
<1>1. AssessmentInv => BlockingNeverPasses
  <2>1. flow # NotRun /\ AssessmentInv => FlowFits(flow)
    BY FlowOutput DEF AssessmentInv
  <2> QED
    BY <2>1 DEF BlockingNeverPasses, FlowFits, FlowStatuses
<1> QED
    BY <1>1, AssessmentInvariant, PTL

\* ArtifactMatchesOutcome: the artifact that the gate's status allows next agrees with the
\* outcome that is taken from all three stages.
THEOREM ArtifactMatches == Spec => []ArtifactMatchesOutcome
<1>1. AssessmentInv => ArtifactMatchesOutcome
  <2> SUFFICES ASSUME AssessmentInv, flow # NotRun
               PROVE  flow.next_allowed_artifact \in {"EVAL_MATRIX", "GOVERNANCE_GATE_REVIEW"}
                        <=> flow.final_review_outcome = "PASS"
    BY DEF ArtifactMatchesOutcome
  <2>1. FlowFits(flow) /\ flow.next_allowed_artifact = NextAllowedArtifact(flow.final_status)
    BY FlowOutput DEF AssessmentInv, AIGovernanceFlow
  <2>2. /\ NextAllowedArtifact("EVAL_ALLOWED") = "EVAL_MATRIX"
        /\ NextAllowedArtifact("GOVERNANCE_REVIEW_REQUIRED") = "GOVERNANCE_GATE_REVIEW"
        /\ NextAllowedArtifact("ESCALATE_REQUIRED") = "ESCALATION_REVIEW"
        /\ NextAllowedArtifact("BLOCKED") = "NONE" /\ NextAllowedArtifact("REPAIR_REQUIRED") = "NONE"
    BY Zenon DEF NextAllowedArtifact
  <2> QED
    BY <2>1, <2>2 DEF FlowFits, FlowStatuses, Outcomes
<1> QED
    BY <1>1, AssessmentInvariant, PTL

\* KfsaGateRequirementKept: every triage rule that asks for the KFSA gate recommends an
\* agentic mode or escalates, which is what scoring recomputes the requirement from.
THEOREM KfsaRequirementKept == Spec => []KfsaGateRequirementKept
<1>1. AssessmentInv => KfsaGateRequirementKept
  <2> SUFFICES ASSUME AssessmentInv, flow # NotRun, flow.triage.kfsa_gate_required
               PROVE  flow.readiness.kfsa_gate_required
    BY DEF KfsaGateRequirementKept
  <2> DEFINE t == TriageUseCase(useCase)
             i == MapToReadinessInput(useCase, t)
             r == ScoreAIReadiness(i)
  <2>1. flow.triage = t /\ flow.readiness = r
    BY DEF AssessmentInv, AIGovernanceFlow
  <2>2. i.review = t.review_outcome /\ i.mode = t.recommended_mode
    BY DEF MapToReadinessInput
  <2>3. r.kfsa_gate_required <=> i.mode \in AgenticModes \/ r.review_outcome = "ESCALATE"
    BY DEF ScoreAIReadiness
  <2>4. r.review_outcome = ReadinessOutcome(i, CappedScore(RawReadinessScore(i.s), i), BlockingControls(i))
    BY DEF ScoreAIReadiness
  <2> HIDE DEF t, i, r
  <2>5. t.review_outcome = "ESCALATE" => r.review_outcome = "ESCALATE"
    BY <2>2, <2>4, ScoringRepeatsObjection
  <2>6. t.recommended_mode \in AgenticModes \/ t.review_outcome = "ESCALATE"
    BY <2>1, VerdictOfRule, RulesAskForKfsa DEF t
  <2> QED
    BY <2>1, <2>2, <2>3, <2>5, <2>6
<1> QED
    BY <1>1, AssessmentInvariant, PTL
-----------------------------------------------------------------------------
(* The refinement.                                                         *)

\* ObjectionsSurvive: the chain implements the fail-closed review. The flow and every
\* evaluation are reports, which void the verdict, and the governance gate concludes.
THEOREM ChainImplementsReview == Spec => ObjectionsSurvive
<1>1. Init => Review!Init
    BY DEF Init, Review!Init, Review!Stages, Reports
<1>2. AssessmentInv /\ [Next]_vars => [Review!Next]_<<Reports, IF decision = NotRun THEN {} ELSE {decision.review_outcome}>>
  <2> DEFINE verdict == IF decision = NotRun THEN {} ELSE {decision.review_outcome}
  <2> SUFFICES ASSUME AssessmentInv, [Next]_vars PROVE [Review!Next]_<<Reports, verdict>>
    OBVIOUS
  <2>1. CASE RunAIGovernanceFlow
    BY <2>1 DEF RunAIGovernanceFlow, AssessmentInv, Review!Next, Review!Report
  <2>2. ASSUME NEW o \in Observations, RunEvalGraderMatrix(o) PROVE [Review!Next]_<<Reports, verdict>>
    BY <2>2 DEF RunEvalGraderMatrix, Review!Next, Review!Report
  <2>3. ASSUME NEW c \in Callers, RunGovernanceGate(c) PROVE [Review!Next]_<<Reports, verdict>>
    <3>1. /\ flow # NotRun /\ FlowFits(flow) /\ grade # NotRun
          /\ \E o \in Observations : grade = GradeEvalCases(useCase, o)
      BY <2>3, FlowOutput DEF RunGovernanceGate, AssessmentInv
    <3>2. decision' = DecideGate(useCase, flow, grade, c) /\ UNCHANGED Reports
      BY <2>3 DEF RunGovernanceGate, Reports
    <3>3. /\ decision'.review_outcome \in Outcomes /\ decision' # NotRun
          /\ GateFails(useCase, flow, grade, c) => decision'.review_outcome = "FAIL"
          /\ GateEscalates(flow, grade) => decision'.review_outcome \in {"FAIL", "ESCALATE"}
      BY <3>2, DecisionTiers
    <3>4. /\ Reports["triage"] = flow.triage.review_outcome
          /\ Reports["readiness"] = flow.readiness.review_outcome
          /\ Reports["gate"] = flow.gate.review_outcome /\ Reports["eval"] = grade.review_outcome
      BY <3>1 DEF Reports
    <3>5. \A s \in Review!Stages : /\ Reports[s] = "FAIL" => GateFails(useCase, flow, grade, c)
                                   /\ Reports[s] = "ESCALATE" => \/ GateFails(useCase, flow, grade, c)
                                                                 \/ GateEscalates(flow, grade)
      BY <3>1, <3>4 DEF Review!Stages, GateFails, GateEscalates, FlowFits
    <3>6. Review!Conclude
      BY <3>2, <3>3, <3>5 DEF Review!Conclude, Review!Outcomes, Outcomes
    <3> QED
      BY <3>6 DEF Review!Next
  <2>4. CASE UNCHANGED vars
    BY <2>4 DEF vars, Reports
  <2> QED
    BY <2>1, <2>2, <2>3, <2>4 DEF Next
<1> QED
    BY <1>1, <1>2, AssessmentInvariant, PTL DEF Spec, ObjectionsSurvive, Review!Spec
=============================================================================
