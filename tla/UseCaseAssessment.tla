------------------------- MODULE UseCaseAssessment --------------------------
(***************************************************************************)
(* The assessment chain of the adoption OS: a use case is triaged, scored  *)
(* for readiness and gated (runAIGovernanceFlow), its agent is graded over *)
(* an evaluation matrix, and the governance gate decides who may look at   *)
(* it. Every stage sees the stages before it only through the fields that  *)
(* are passed on, so an objection raised early must survive the hand-overs.*)
(***************************************************************************)
EXTENDS ReviewOutcomes, FiniteSets, FiniteSetsExt

CONSTANTS
    UseCases,      \* the use cases submitted
    Observations,  \* what evaluators may report: [status, evidence] per dimension
    Callers        \* what the caller of the governance gate declares

VARIABLES
    useCase,   \* the answers given on the intake form
    flow,      \* runAIGovernanceFlow's output, NotRun before it
    grade,     \* runEvalGraderMatrix's output, NotRun before it
    caller,    \* what the governance gate's caller declared, NotRun before it
    decision   \* runGovernanceGate's output, NotRun before it

vars == <<useCase, flow, grade, caller, decision>>

NotRun == <<>>
Unset == "unset"
Unscored == -1
Level == {"low", "medium", "high", Unset}
Impact == {"none", "low", "medium", "high", Unset}
Flag == {"yes", "no", Unset}

CategoryWeights ==
    [use_case_clarity |-> 10, process_clarity |-> 10, data_readiness |-> 12,
     evidence_readiness |-> 12, authority_clarity |-> 12, eval_readiness |-> 10,
     security_boundary |-> 10, tool_permission |-> 8, auditability |-> 8,
     adoption_readiness |-> 5, cost_control |-> 3]
ScoreFields == DOMAIN CategoryWeights

\* The answers of a use case; "described" stands for its name, problem and
\* expected outcome, "smuggled" for fields an unsafe cast may carry.
UseCase ==
    [described : BOOLEAN, business_owner : BOOLEAN, process_owner : {"given", "empty", Unset},
     decision_owner : BOOLEAN, data_owner : BOOLEAN, decision_relevance : Level,
     process_clarity : Level, repeatability : Level, rule_clarity : Level,
     variation_complexity : Level, volume_frequency : Level, data_sensitivity : Level,
     data_readiness : Level, known_process_owner : Flag, audit_required : Flag,
     decision_relevant : Flag, evidence_availability : {"none", "partial", "sufficient", Unset},
     authority_clarity : {"missing", "unclear", "clear", Unset},
     tool_access_required : {"none", "read_only", "write", "external_system", Unset},
     customer_impact : Impact, financial_impact : Impact, regulatory_or_legal_impact : Impact,
     human_approval_required : BOOLEAN, external_action_required : BOOLEAN,
     requires_runtime_controls : BOOLEAN, requires_multi_role_reasoning : BOOLEAN,
     production_intended : BOOLEAN, risk_level : Level,
     scores : [ScoreFields -> Unscored..5],
     smuggled : SUBSET {"production_approval", "official_decision"}]

WritingTools == {"write", "external_system"}
-----------------------------------------------------------------------------
(* Triage. *)

Modes == {"NO_AI", "PROCESS_REPAIR", "AUTOMATION", "AUGMENTATION", "WORKFLOW",
          "AGENT", "MULTI_AGENT_SYSTEM", "GOVERNED_RUNTIME"}

Verdict(mode, review, risk, kfsa) ==
    [recommended_mode |-> mode, review_outcome |-> review, risk_level |-> risk,
     kfsa_gate_required |-> kfsa]

\* The triage rules in the order they are tried, each with its condition.
TriageRules(u) ==
    LET clear == u.authority_clarity = "clear"
        routine == /\ u.repeatability = "high" /\ u.rule_clarity = "high"
                   /\ u.variation_complexity = "low"
        writes == u.tool_access_required \in WritingTools
        unaudited == u.audit_required = "no"
    IN  <<<<~u.described \/ ~u.business_owner, Verdict("NO_AI", "FAIL", "high", FALSE)>>,
          <<u.process_clarity = "low" \/ u.known_process_owner = "no",
            Verdict("PROCESS_REPAIR", "FIX", "medium", FALSE)>>,
          <<u.authority_clarity = "missing" /\ u.decision_relevance # "low",
            Verdict("NO_AI", "FAIL", "high", FALSE)>>,
          <<u.data_sensitivity = "high" /\ u.data_readiness = "low",
            Verdict("NO_AI", "FAIL", "high", FALSE)>>,
          <<u.external_action_required /\ ~clear, Verdict("NO_AI", "FAIL", "high", FALSE)>>,
          <<u.regulatory_or_legal_impact = "high" /\ ~clear,
            Verdict("NO_AI", "ESCALATE", "high", TRUE)>>,
          <<u.evidence_availability = "none" /\ u.decision_relevance = "high",
            Verdict("NO_AI", "FAIL", "high", FALSE)>>,
          <<u.requires_runtime_controls /\ unaudited,
            Verdict("GOVERNED_RUNTIME", "FAIL", "high", TRUE)>>,
          <<u.requires_runtime_controls, Verdict("GOVERNED_RUNTIME", "ESCALATE", "high", TRUE)>>,
          <<u.requires_multi_role_reasoning,
            Verdict("MULTI_AGENT_SYSTEM", "ESCALATE", "medium", TRUE)>>,
          <<routine /\ clear /\ u.audit_required = "yes",
            Verdict("AUTOMATION", "PASS",
                    IF u.tool_access_required = "external_system" THEN "medium" ELSE "low", FALSE)>>,
          <<writes /\ unaudited, Verdict("AGENT", "FAIL", "high", TRUE)>>,
          <<writes, Verdict("AGENT", "FIX", "medium", TRUE)>>,
          <<routine, Verdict("AUTOMATION", "PASS", "low", FALSE)>>,
          <<u.human_approval_required /\ u.variation_complexity \in {"medium", "high"},
            Verdict("AUGMENTATION", "PASS", "low", FALSE)>>,
          <<u.volume_frequency = "low" /\ u.decision_relevance = "low",
            Verdict("NO_AI", "PASS", "low", FALSE)>>,
          <<TRUE, Verdict("WORKFLOW", "FIX", "medium", FALSE)>>>>

\* The first rule that applies decides.
TriageUseCase(u) ==
    LET R == TriageRules(u)
    IN  R[CHOOSE i \in DOMAIN R : R[i][1] /\ \A j \in 1..(i - 1) : ~R[j][1]][2]
-----------------------------------------------------------------------------
(* Readiness. *)

ProcessOwned(u) ==
    u.process_owner = "given" \/ (u.process_owner = Unset /\ u.business_owner)

DecisionRelevant(u) ==
    u.decision_relevant = "yes" \/ (u.decision_relevant = Unset /\ u.decision_relevance # "low")

\* The score a category gets when the intake does not state one.
DefaultScore(u, f) ==
    CASE f = "use_case_clarity" -> IF u.described /\ u.business_owner THEN 3 ELSE 0
      [] f = "process_clarity" -> IF ProcessOwned(u) \/ u.known_process_owner = "yes" THEN 3 ELSE 1
      [] f = "data_readiness" -> IF u.data_readiness \in {"medium", "high"} THEN 3 ELSE 1
      [] f = "evidence_readiness" -> CASE u.evidence_availability = "sufficient" -> 3
                                       [] u.evidence_availability = "partial" -> 2
                                       [] OTHER -> 0
      [] f = "authority_clarity" -> CASE u.authority_clarity = "clear" -> 4
                                      [] u.authority_clarity = "unclear" -> 2
                                      [] OTHER -> 0
      [] f = "security_boundary" -> IF u.data_sensitivity = "high" THEN 2 ELSE 3
      [] f = "tool_permission" -> IF u.tool_access_required \in WritingTools THEN 2 ELSE 3
      [] f = "auditability" -> [yes |-> 4, no |-> 1, unset |-> 2][u.audit_required]
      [] OTHER -> 2

\* What the flow passes on to scoring: the use case's answers, the triage
\* verdict, and a number for every category.
MapToReadinessInput(u, t) ==
    [s |-> [f \in ScoreFields |-> IF u.scores[f] = Unscored THEN DefaultScore(u, f) ELSE u.scores[f]],
     risk |-> IF u.risk_level = Unset THEN t.risk_level ELSE u.risk_level,
     relevant |-> DecisionRelevant(u),
     mode |-> t.recommended_mode, review |-> t.review_outcome, u |-> u]

\* The weighted sum in percent, rounded half up.
RawReadinessScore(s) ==
    (2 * MapThenSumSet(LAMBDA f : s[f] * CategoryWeights[f], ScoreFields) + 5) \div 10

ReadinessBand(score) ==
    CASE score <= 39 -> "NOT_READY"
      [] score \in 40..59 -> "REPAIR_REQUIRED"
      [] score \in 60..74 -> "EVAL_READY"
      [] score \in 75..89 -> "GOVERNANCE_GATE_READY"
      [] OTHER -> "ESCALATE"

\* Mutants: a plain agent is forgotten; "unclear" passes for confirmed.
ModesWithoutAgent == {"MULTI_AGENT_SYSTEM", "GOVERNED_RUNTIME"}
UnownedDecision(i) == i.relevant /\ i.s["authority_clarity"] < 2

AgenticModes == {"AGENT", "MULTI_AGENT_SYSTEM", "GOVERNED_RUNTIME"}

\* Conditions several rules of scoring share.
UnconfirmedDecision(i) == i.relevant /\ i.s["authority_clarity"] < 3

UnevidencedRisk(i) == i.risk = "high" /\ i.s["evidence_readiness"] < 3
UnpermittedTool(i) == i.u.tool_access_required \in WritingTools /\ i.s["tool_permission"] < 3
UnclearRegulation(i) == i.u.regulatory_or_legal_impact = "high" /\ i.s["authority_clarity"] < 4

\* The controls whose absence blocks the use case.
BlockingControls(i) ==
    LET sensitive == i.u.data_sensitivity = "high"
        rules == [business_owner |-> ~i.u.business_owner,
                  process_owner |-> ~ProcessOwned(i.u),
                  decision_owner |-> i.relevant /\ ~i.u.decision_owner,
                  data_owner |-> sensitive /\ ~i.u.data_owner,
                  authority |-> UnconfirmedDecision(i),
                  evidence |-> UnevidencedRisk(i),
                  eval |-> i.u.production_intended /\ i.s["eval_readiness"] < 2,
                  security |-> sensitive /\ i.s["security_boundary"] < 3,
                  tools |-> UnpermittedTool(i),
                  audit |-> /\ i.s["auditability"] < 3
                            /\ i.mode \in AgenticModes \/ i.u.external_action_required,
                  regulation |-> UnclearRegulation(i)]
    IN  {c \in DOMAIN rules : rules[c]}

\* A missing control caps the score, however good the rest is.
CappedScore(score, i) ==
    LET caps == (IF ~i.u.business_owner \/ ~ProcessOwned(i.u) THEN {59} ELSE {})
                \cup (IF UnconfirmedDecision(i) \/ UnevidencedRisk(i) \/ UnclearRegulation(i)
                      THEN {39} ELSE {})
                \cup (IF i.u.external_action_required /\ i.s["auditability"] < 3 THEN {59} ELSE {})
                \cup (IF UnpermittedTool(i) THEN {59} ELSE {})
    IN  CHOOSE n \in caps \cup {score} : \A m \in caps \cup {score} : n <= m

\* The review outcome of scoring. Escalations are decided before blocking
\* controls, and a triage FIX has no say in it.
ReadinessOutcome(i, score, blocking) ==
    IF i.review \in {"FAIL", "ESCALATE"} THEN i.review
    ELSE IF \/ UnclearRegulation(i)
            \/ i.mode \in {"MULTI_AGENT_SYSTEM", "GOVERNED_RUNTIME"}
            \/ "high" \in {i.u.customer_impact, i.u.financial_impact} /\ score >= 60
         THEN "ESCALATE"
         ELSE IF blocking # {} \/ score < 40 THEN "FAIL"
              ELSE IF score >= 60 THEN "PASS" ELSE "FIX"

ScoreAIReadiness(i) ==
    LET blocking == BlockingControls(i)
        score == CappedScore(RawReadinessScore(i.s), i)
        review == ReadinessOutcome(i, score, blocking)
    IN  [score |-> score, band |-> ReadinessBand(score), review_outcome |-> review,
         blocking_controls |-> blocking,
         kfsa_gate_required |-> i.mode \in AgenticModes \/ review = "ESCALATE"]
-----------------------------------------------------------------------------
(* The readiness gate and the flow's conclusion. *)

GateVerdict(status, review) == [gate_status |-> status, review_outcome |-> review]

\* Mutant: the blocking controls are not looked at.
AlwaysUnblocked(r) == TRUE

Unblocked(r) == r.blocking_controls = {}

\* smuggled: the fields of an unsafe cast that claim an approval or a decision.
AssignGateStatus(r, smuggled) ==
    LET passed == r.review_outcome = "PASS" /\ Unblocked(r)
    IN  IF smuggled # {} \/ r.review_outcome = "FAIL" \/ r.band = "NOT_READY"
        THEN GateVerdict("BLOCKED", "FAIL")
        ELSE IF r.band = "REPAIR_REQUIRED"
        THEN IF Unblocked(r) THEN GateVerdict("REPAIR_REQUIRED", "FIX")
                             ELSE GateVerdict("BLOCKED", "FAIL")
        ELSE IF r.band = "EVAL_READY" /\ passed THEN GateVerdict("EVAL_ALLOWED", "PASS")
        ELSE IF r.band = "GOVERNANCE_GATE_READY" /\ passed
        THEN GateVerdict("GOVERNANCE_REVIEW_REQUIRED", "PASS")
        ELSE IF "ESCALATE" \in {r.band, r.review_outcome}
        THEN GateVerdict("ESCALATE_REQUIRED", "ESCALATE")
        ELSE GateVerdict("BLOCKED", "FAIL")

NextAllowedArtifact(status) ==
    CASE status = "EVAL_ALLOWED" -> "EVAL_MATRIX"
      [] status = "GOVERNANCE_REVIEW_REQUIRED" -> "GOVERNANCE_GATE_REVIEW"
      [] status = "ESCALATE_REQUIRED" -> "ESCALATION_REVIEW"
      [] OTHER -> "NONE"

\* Mutant: without a FAIL the gate's status alone decides.
OutcomeOfGateAlone(t, r, g) ==
    IF "FAIL" \in {t.review_outcome, r.review_outcome, g.review_outcome} THEN "FAIL"
    ELSE g.review_outcome

\* The worst objection of a stage wins; without one the gate's status decides.
FinalReviewOutcome(t, r, g) ==
    LET reviews == {t.review_outcome, r.review_outcome, g.review_outcome}
    IN  IF "FAIL" \in reviews THEN "FAIL"
        ELSE IF "ESCALATE" \in reviews THEN "ESCALATE"
        ELSE IF g.gate_status \in {"EVAL_ALLOWED", "GOVERNANCE_REVIEW_REQUIRED"} THEN "PASS"
        ELSE IF g.gate_status = "REPAIR_REQUIRED" THEN "FIX"
        ELSE "FAIL"

AIGovernanceFlow(u) ==
    LET t == TriageUseCase(u)
        r == ScoreAIReadiness(MapToReadinessInput(u, t))
        g == AssignGateStatus(r, u.smuggled)
    IN  [triage |-> t, readiness |-> r, gate |-> g,
         next_allowed_artifact |-> NextAllowedArtifact(g.gate_status),
         final_status |-> g.gate_status,
         final_review_outcome |-> FinalReviewOutcome(t, r, g)]
-----------------------------------------------------------------------------
(* The evaluation matrix and its grading. *)

BaseEvalDimensions ==
    {"ACCURACY", "GROUNDING", "AUTHORITY_SAFETY", "DATA_SAFETY", "AUDITABILITY",
     "BUSINESS_FIT", "FAILURE_HANDLING"}
EvalDimensions == BaseEvalDimensions \cup {"ACTION_SAFETY"}

RequiresActionSafety(u) ==
    \/ u.tool_access_required \in WritingTools
    \/ u.production_intended
    \/ {"medium", "high"} \cap {u.customer_impact, u.financial_impact} # {}

\* One test case per dimension.
EvalMatrix(u) ==
    BaseEvalDimensions \cup (IF RequiresActionSafety(u) THEN {"ACTION_SAFETY"} ELSE {})

\* The evidence a test case asks for: the item of its dimension, and a
\* stronger one for sensitive data and for an audit trail that is required.
RequiredEvidence(u, d) ==
    {"basic"} \cup
    (IF \/ d = "DATA_SAFETY" /\ u.data_sensitivity = "high"
        \/ d = "AUDITABILITY" /\ u.audit_required = "yes" THEN {"strong"} ELSE {})

ForcesFailOnMissingEvidence(u, d) ==
    \/ d \in {"AUTHORITY_SAFETY", "ACTION_SAFETY"}
    \/ d = "DATA_SAFETY" /\ u.data_sensitivity = "high"

\* What an evaluator reports of a use case: a status and evidence per
\* dimension, and whether an approval was smuggled in.
Observation == [status : [EvalDimensions -> Outcomes \cup {Unset}],
                evidence : [EvalDimensions -> SUBSET {"basic", "strong"}],
                smuggled : BOOLEAN]

ASSUME AssessmentAssumption == Observations \subseteq Observation

\* A result that was not observed fails; missing evidence lowers a result.
GradeEvalCase(u, d, o) ==
    LET observed == IF o.status[d] = Unset THEN "FAIL" ELSE o.status[d]
        forced == IF ForcesFailOnMissingEvidence(u, d) THEN "FAIL" ELSE "FIX"
    IN  IF RequiredEvidence(u, d) \subseteq o.evidence[d] THEN observed ELSE Worse(observed, forced)

\* The outcomes that score nothing are left out of the total.
CaseScore == [PASS |-> 100, FIX |-> 50, ESCALATE |-> 0, FAIL |-> 0]

GradeEvalCases(u, o) ==
    LET cases == EvalMatrix(u)
        graded(s) == {d \in cases : GradeEvalCase(u, d, o) = s}
        total == CaseScore.PASS * Cardinality(graded("PASS")) + CaseScore.FIX * Cardinality(graded("FIX"))
        n == Cardinality(cases)
    IN  [eval_score |-> (2 * total + n) \div (2 * n),
         failed |-> graded("FAIL"), escalated |-> graded("ESCALATE"), fixed |-> graded("FIX"),
         review_outcome |-> IF o.smuggled THEN "FAIL"
                            ELSE FirstTier(graded("FAIL"), graded("ESCALATE"), graded("FIX"))]
-----------------------------------------------------------------------------
(* The governance gate after the evaluation. *)

\* What the caller declares besides the fields it copies from the use case.
Caller == [authority_required : BOOLEAN, authority_evidence : BOOLEAN,
           package_required : BOOLEAN, package_provided : BOOLEAN, smuggled : BOOLEAN]

RequiresAuthority(u, c) ==
    \/ c.authority_required
    \/ u.production_intended
    \/ u.decision_relevant = "yes"
    \/ u.regulatory_or_legal_impact \in {"medium", "high"}
    \/ "high" \in {u.customer_impact, u.financial_impact}

\* Mutant: production intent asks for no package.
PackageForFindingsOnly(u, g, c) ==
    c.package_required \/ g.review_outcome # "PASS"

RequiresEvidencePackage(u, g, c) ==
    \/ c.package_required
    \/ u.production_intended
    \/ g.review_outcome # "PASS"
    \/ g.failed \cup g.escalated \cup g.fixed # {}

\* The conditions of the gate's tiers.
GateFails(u, f, g, c) ==
    \/ c.smuggled
    \/ f.final_status = "BLOCKED"
    \/ "FAIL" \in {f.final_review_outcome, g.review_outcome}
    \/ g.failed # {}
    \/ RequiresAuthority(u, c) /\ ~c.authority_evidence

\* Mutant: the flow's escalation is read from its status alone.
EscalatesByStatus(f, g) ==
    f.final_status = "ESCALATE_REQUIRED" \/ g.review_outcome = "ESCALATE"

GateEscalates(f, g) ==
    \/ f.final_status = "ESCALATE_REQUIRED"
    \/ "ESCALATE" \in {f.final_review_outcome, g.review_outcome}
    \/ g.escalated # {}

GateRepairs(u, g, c) ==
    \/ RequiresEvidencePackage(u, g, c) /\ ~c.package_provided
    \/ g.review_outcome = "FIX"
    \/ g.fixed # {}

DecideGate(u, f, g, c) ==
    IF GateFails(u, f, g, c) THEN GateVerdict("BLOCKED", "FAIL")
    ELSE IF GateEscalates(f, g) THEN GateVerdict("ESCALATE_REQUIRED", "ESCALATE")
    ELSE IF GateRepairs(u, g, c) THEN GateVerdict("REPAIR_REQUIRED", "FIX")
    ELSE IF f.final_status = "GOVERNANCE_REVIEW_REQUIRED"
    THEN GateVerdict("GOVERNANCE_REVIEW_REQUIRED", "PASS")
    ELSE GateVerdict("READY_FOR_AUTHORITY_REVIEW", "PASS")
-----------------------------------------------------------------------------
Init == /\ useCase \in UseCases
        /\ flow = NotRun /\ grade = NotRun /\ caller = NotRun /\ decision = NotRun

RunAIGovernanceFlow ==
    /\ flow = NotRun
    /\ flow' = AIGovernanceFlow(useCase)
    /\ UNCHANGED <<useCase, grade, caller, decision>>

\* Nothing asks that the flow allowed an evaluation: a blocked use case may be
\* evaluated. An evaluation repeated after fixes is decided on again.
RunEvalGraderMatrix(o) ==
    /\ flow # NotRun
    /\ grade' = GradeEvalCases(useCase, o)
    /\ caller' = NotRun
    /\ decision' = NotRun
    /\ UNCHANGED <<useCase, flow>>

\* A decision that asks for evidence may be followed by a re-review.
RunGovernanceGate(c) ==
    /\ grade # NotRun
    /\ caller' = c
    /\ decision' = DecideGate(useCase, flow, grade, c)
    /\ UNCHANGED <<useCase, flow, grade>>

Next == \/ RunAIGovernanceFlow
        \/ \E o \in Observations : RunEvalGraderMatrix(o)
        \/ \E c \in Callers : RunGovernanceGate(c)

Spec == Init /\ [][Next]_vars
-----------------------------------------------------------------------------
(* Properties. *)

TypeOK ==
    /\ useCase \in UseCase
    /\ flow # NotRun =>
        /\ flow.triage.recommended_mode \in Modes
        /\ flow.readiness.score \in 0..100
        /\ {flow.triage.review_outcome, flow.readiness.review_outcome,
            flow.gate.review_outcome, flow.final_review_outcome} \subseteq Outcomes
    /\ grade # NotRun => grade.eval_score \in 0..100 /\ grade.review_outcome \in Outcomes
    /\ caller \in Caller \cup {NotRun}
    /\ decision # NotRun => decision.review_outcome \in Outcomes

\* What every stage has reported, for the abstract review.
Reports ==
    [triage |-> IF flow = NotRun THEN "NONE" ELSE flow.triage.review_outcome,
     readiness |-> IF flow = NotRun THEN "NONE" ELSE flow.readiness.review_outcome,
     gate |-> IF flow = NotRun THEN "NONE" ELSE flow.gate.review_outcome,
     eval |-> IF grade = NotRun THEN "NONE" ELSE grade.review_outcome]

Review == INSTANCE FailClosedReview WITH
    raised <- Reports,
    verdict <- IF decision = NotRun THEN {} ELSE {decision.review_outcome}

\* The chain implements the abstract review: the gate decides last and sees
\* triage and scoring only through the flow's two final fields, and still no
\* FAIL and no ESCALATE of any stage is lost on the way.
ObjectionsSurvive == Review!Spec

\* A use case that is escalated and not failed anywhere reaches the escalation
\* queue once the authority evidence is there: a flow that ends with the status
\* REPAIR_REQUIRED and the outcome ESCALATE is not repaired in silence.
EscalationReachesAuthority ==
    /\ decision # NotRun /\ caller.authority_evidence /\ ~caller.smuggled
    /\ \E s \in Review!Stages : Reports[s] = "ESCALATE"
    /\ \A s \in Review!Stages : Reports[s] # "FAIL"
    => decision.gate_status = "ESCALATE_REQUIRED"

\* READY_FOR_AUTHORITY_REVIEW tells the authority that every test case passed
\* with all its evidence, that nothing upstream failed or escalated, and that a
\* use case meant for production or regulated carries its authority evidence.
ReadyMeansClean ==
    decision # NotRun /\ decision.gate_status = "READY_FOR_AUTHORITY_REVIEW" =>
        /\ grade.eval_score = 100
        /\ flow.final_status \in {"EVAL_ALLOWED", "REPAIR_REQUIRED"}
        /\ flow.readiness.review_outcome \in {"PASS", "FIX"}
        /\ flow.readiness.blocking_controls = {}
        /\ useCase.production_intended =>
            caller.authority_evidence /\ caller.package_provided
        /\ useCase.regulatory_or_legal_impact \in {"medium", "high"} => caller.authority_evidence

\* A missing control is never averaged away: whatever the scores of the other
\* categories, the use case gets no evaluation, no governance review and no
\* repair either, even where an escalation hides the control from scoring.
BlockingNeverPasses ==
    flow # NotRun /\ flow.readiness.blocking_controls # {} =>
        /\ flow.final_review_outcome \in {"FAIL", "ESCALATE"}
        /\ flow.final_status \in {"BLOCKED", "ESCALATE_REQUIRED"}

\* The authority question asked on the intake form decides, not its default
\* score: a decision-relevant use case whose authority is not clear proceeds
\* only when a person has scored its authority explicitly.
UnclearAuthorityNeverProceeds ==
    /\ flow # NotRun /\ DecisionRelevant(useCase)
    /\ useCase.authority_clarity # "clear" /\ useCase.scores["authority_clarity"] = Unscored
    => flow.final_status \in {"BLOCKED", "ESCALATE_REQUIRED"}

\* The two answers of the flow agree: the next artifact is an evaluation or a
\* governance review exactly when the final outcome is PASS, although the
\* artifact follows the gate alone and the outcome all three stages.
ArtifactMatchesOutcome ==
    flow # NotRun =>
        (flow.next_allowed_artifact \in {"EVAL_MATRIX", "GOVERNANCE_GATE_REVIEW"}
            <=> flow.final_review_outcome = "PASS")

\* The KFSA gate that triage asked for is asked for by scoring too, which
\* computes it anew from the mode and from its own outcome.
KfsaGateRequirementKept ==
    flow # NotRun /\ flow.triage.kfsa_gate_required => flow.readiness.kfsa_gate_required

\* The document of the gate's algorithm says of READY_FOR_AUTHORITY_REVIEW that
\* all fail-closed, repair and escalation conditions have cleared. The gate has
\* no condition for a flow that ended with REPAIR_REQUIRED and FIX.
ReadyMeansRepaired ==
    decision # NotRun /\ decision.gate_status = "READY_FOR_AUTHORITY_REVIEW" =>
        flow.final_review_outcome = "PASS"
=============================================================================
