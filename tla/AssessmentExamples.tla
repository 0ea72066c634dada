------------------------- MODULE AssessmentExamples -------------------------
(***************************************************************************)
(* The executable examples the reference implementations ship with, each   *)
(* an input and the outcome its package promises for it, held against the  *)
(* operators of UseCaseAssessment. Examples of a stage whose input is not  *)
(* a use case give the stage's own input.                                  *)
(***************************************************************************)
EXTENDS UseCaseAssessment, TLC

\* What a partial input leaves out; every example names and owns its use case.
Unstated ==
    [described |-> TRUE, business_owner |-> TRUE, process_owner |-> Unset,
     decision_owner |-> FALSE, data_owner |-> FALSE,
     human_approval_required |-> FALSE, external_action_required |-> FALSE,
     requires_runtime_controls |-> FALSE, requires_multi_role_reasoning |-> FALSE,
     production_intended |-> FALSE, scores |-> [f \in ScoreFields |-> Unscored], smuggled |-> {}]
    @@ [f \in {"decision_relevance", "process_clarity", "repeatability", "rule_clarity",
               "variation_complexity", "volume_frequency", "data_sensitivity",
               "data_readiness", "audit_required", "decision_relevant",
               "evidence_availability", "authority_clarity", "tool_access_required",
               "customer_impact", "financial_impact", "regulatory_or_legal_impact",
               "risk_level"} |-> Unset]
    @@ [known_process_owner |-> "yes"]

Scores(use_case, process, data, evidence, authority, eval, security, tool, audit, adoption, cost) ==
    [use_case_clarity |-> use_case, process_clarity |-> process, data_readiness |-> data,
     evidence_readiness |-> evidence, authority_clarity |-> authority, eval_readiness |-> eval,
     security_boundary |-> security, tool_permission |-> tool, auditability |-> audit,
     adoption_readiness |-> adoption, cost_control |-> cost]

Adequate == Scores(4, 4, 3, 3, 3, 2, 3, 3, 3, 3, 3)
Gapped == Scores(4, 3, 3, 3, 3, 2, 2, 2, 1, 2, 2)
Coordinated == Scores(4, 4, 4, 3, 3, 3, 4, 3, 4, 3, 3)

LowValue == [decision_relevance |-> "low", volume_frequency |-> "low"] @@ Unstated
ClearRules == [repeatability |-> "high", rule_clarity |-> "high",
               variation_complexity |-> "low"] @@ Unstated
Drafting == [human_approval_required |-> TRUE, variation_complexity |-> "medium"] @@ Unstated
UnauditedWriter == [tool_access_required |-> "write", audit_required |-> "no"] @@ Unstated
ManyRoles == [requires_multi_role_reasoning |-> TRUE] @@ Unstated
GovernedRuntime == [requires_runtime_controls |-> TRUE, audit_required |-> "yes"] @@ Unstated
GovernedAutomation ==
    [decision_relevance |-> "low", process_clarity |-> "high", data_sensitivity |-> "medium",
     data_readiness |-> "high", evidence_availability |-> "sufficient",
     authority_clarity |-> "clear", external_action_required |-> TRUE,
     tool_access_required |-> "external_system", customer_impact |-> "medium",
     financial_impact |-> "medium", regulatory_or_legal_impact |-> "low",
     audit_required |-> "yes", volume_frequency |-> "high"] @@ ClearRules

\* Triage: the use case, the mode and the outcome.
TriageExamples ==
    {<<LowValue, "NO_AI", "PASS">>, <<ClearRules, "AUTOMATION", "PASS">>,
     <<Drafting, "AUGMENTATION", "PASS">>, <<UnauditedWriter, "AGENT", "FAIL">>,
     <<ManyRoles, "MULTI_AGENT_SYSTEM", "ESCALATE">>,
     <<GovernedRuntime, "GOVERNED_RUNTIME", "ESCALATE">>,
     <<GovernedAutomation, "AUTOMATION", "PASS">>}

Modest == [process_owner |-> "given", scores |-> Adequate, risk_level |-> "low",
           data_sensitivity |-> "low", decision_relevant |-> "no"]
Risky(scores, risk) == [process_owner |-> "given", scores |-> scores, risk_level |-> risk,
                        data_sensitivity |-> "medium", decision_relevant |-> "yes",
                        production_intended |-> TRUE]
HighImpact == [decision_owner |-> TRUE, data_owner |-> TRUE, customer_impact |-> "high",
               financial_impact |-> "high", regulatory_or_legal_impact |-> "medium"]

\* The flow: the use case, the final status and the final outcome.
FlowExamples ==
    {<<Modest @@ LowValue, "EVAL_ALLOWED", "PASS">>,
     <<Modest @@ ClearRules, "EVAL_ALLOWED", "PASS">>,
     <<Risky(Gapped, "medium") @@ UnauditedWriter, "BLOCKED", "FAIL">>,
     <<Risky(Coordinated, "high") @@ HighImpact @@ ManyRoles, "ESCALATE_REQUIRED", "ESCALATE">>,
     <<[smuggled |-> {"production_approval"}] @@ Modest @@ ClearRules, "BLOCKED", "FAIL">>}

Scored(mode, review, relevant, u) ==
    [s |-> u.scores, risk |-> u.risk_level, relevant |-> relevant, mode |-> mode,
     review |-> review, u |-> u]

\* Scoring: its input, the score, the band and the outcome.
ReadinessExamples ==
    LET low == Modest @@ Unstated
        acting == [external_action_required |-> TRUE, decision_owner |-> TRUE]
    IN  {<<Scored("NO_AI", "PASS", FALSE, low), 62, "EVAL_READY", "PASS">>,
         <<Scored("PROCESS_REPAIR", "FIX", FALSE,
                  [low EXCEPT !.scores = Scores(3, 1, 2, 2, 2, 1, 2, 2, 2, 2, 2),
                              !.process_owner = "empty"]), 38, "NOT_READY", "FAIL">>,
         <<Scored("AUTOMATION", "PASS", TRUE,
                  [decision_owner |-> TRUE, data_owner |-> TRUE]
                  @@ Risky(Scores(5, 5, 4, 4, 4, 3, 4, 4, 4, 3, 4), "medium") @@ Unstated),
           81, "GOVERNANCE_GATE_READY", "PASS">>,
         <<Scored("AGENT", "FIX", TRUE,
                  [tool_access_required |-> "write"] @@ acting @@ Risky(Gapped, "medium") @@ Unstated),
           52, "REPAIR_REQUIRED", "FAIL">>,
         <<Scored("MULTI_AGENT_SYSTEM", "ESCALATE", TRUE,
                  [tool_access_required |-> "external_system"] @@ acting @@ HighImpact
                  @@ Risky(Coordinated, "high") @@ Unstated), 70, "EVAL_READY", "ESCALATE">>}

\* The readiness gate: band, outcome, blocking controls, whether an approval is
\* smuggled; and the status it must answer.
ReadinessGateExamples ==
    {<<"EVAL_READY", "PASS", {}, FALSE, "EVAL_ALLOWED">>,
     <<"NOT_READY", "FAIL", {"process_owner"}, FALSE, "BLOCKED">>,
     <<"GOVERNANCE_GATE_READY", "PASS", {}, FALSE, "GOVERNANCE_REVIEW_REQUIRED">>,
     <<"REPAIR_REQUIRED", "FAIL", {"tools", "audit"}, FALSE, "BLOCKED">>,
     <<"EVAL_READY", "ESCALATE", {}, FALSE, "ESCALATE_REQUIRED">>,
     <<"ESCALATE", "ESCALATE", {}, TRUE, "BLOCKED">>,
     <<"GOVERNANCE_GATE_READY", "ALERT", {}, FALSE, "BLOCKED">>}

\* Evaluation: the use case, what is observed, the outcome.
EvalExamples ==
    LET observed == [status |-> [d \in BaseEvalDimensions |-> "PASS"],
                     evidence |-> [d \in EvalDimensions |-> {"basic"}], smuggled |-> FALSE]
        base == [tool_access_required |-> "read_only", audit_required |-> "no",
                 customer_impact |-> "low", financial_impact |-> "low",
                 regulatory_or_legal_impact |-> "none"] @@ Modest @@ Unstated
    IN  {<<base, observed, "PASS">>,
         <<base, [observed EXCEPT !.evidence["GROUNDING"] = {}], "FIX">>,
         <<[base EXCEPT !.decision_relevant = "yes"],
           [observed EXCEPT !.status["AUTHORITY_SAFETY"] = "FAIL"], "FAIL">>,
         <<[base EXCEPT !.regulatory_or_legal_impact = "high"],
           [observed EXCEPT !.status["AUTHORITY_SAFETY"] = "ESCALATE"], "ESCALATE">>,
         <<base, [observed EXCEPT !.smuggled = TRUE], "FAIL">>}

\* The governance gate, after a flow that allowed the evaluation: the grade,
\* authority evidence, decision relevance, smuggling; and the status.
GovernanceGateExamples ==
    LET graded(review) ==
            [review_outcome |-> review,
             failed |-> IF review = "FAIL" THEN {"AUTHORITY_SAFETY"} ELSE {},
             escalated |-> IF review = "ESCALATE" THEN {"AUTHORITY_SAFETY"} ELSE {},
             fixed |-> IF review = "FIX" THEN {"GROUNDING"} ELSE {}]
    IN  {<<graded("PASS"), TRUE, "no", FALSE, "READY_FOR_AUTHORITY_REVIEW">>,
         <<graded("FAIL"), TRUE, Unset, FALSE, "BLOCKED">>,
         <<graded("FIX"), FALSE, Unset, FALSE, "REPAIR_REQUIRED">>,
         <<graded("ESCALATE"), FALSE, Unset, FALSE, "ESCALATE_REQUIRED">>,
         <<graded("PASS"), FALSE, "yes", FALSE, "BLOCKED">>,
         <<graded("PASS"), TRUE, "no", TRUE, "BLOCKED">>}

-----------------------------------------------------------------------------
\* The examples of the stages, taken one by one.
StageExamplesHold ==
    /\ \A e \in TriageExamples :
         LET t == TriageUseCase(e[1]) IN <<t.recommended_mode, t.review_outcome>> = <<e[2], e[3]>>
    /\ \A e \in ReadinessExamples :
         LET r == ScoreAIReadiness(e[1])
         IN  <<r.score, r.band, r.review_outcome>> = <<e[2], e[3], e[4]>>
    /\ \A e \in ReadinessGateExamples :
         AssignGateStatus([band |-> e[1], review_outcome |-> e[2], blocking_controls |-> e[3]],
                          IF e[4] THEN {"production_approval"} ELSE {}).gate_status = e[5]
    /\ \A e \in EvalExamples : GradeEvalCases(e[1], e[2]).review_outcome = e[3]
    /\ \A e \in GovernanceGateExamples :
         DecideGate([Unstated EXCEPT !.decision_relevant = e[3]],
                    [final_status |-> "EVAL_ALLOWED", final_review_outcome |-> "PASS"], e[1],
                    [authority_required |-> FALSE, authority_evidence |-> e[2],
                     package_required |-> FALSE, package_provided |-> TRUE,
                     smuggled |-> e[4]]).gate_status = e[5]

\* Every package's examples.ts states what its code answers for inputs a reader
\* of the documents would try; the seven packages keep these promises together,
\* and a use case of the flow's examples ends as promised after the whole flow.
PublishedExamplesHold ==
    /\ StageExamplesHold
    /\ flow # NotRun =>
        \A e \in FlowExamples :
            useCase = e[1] => <<flow.final_status, flow.final_review_outcome>> = <<e[2], e[3]>>
=============================================================================
