------------------------ MODULE MCUseCaseAssessment ------------------------
EXTENDS AssessmentExamples

\* A use case prepared with care: it passes as a workflow that needs fixes.
Prepared ==
    [described |-> TRUE, business_owner |-> TRUE, process_owner |-> "given",
     decision_owner |-> TRUE, data_owner |-> TRUE, decision_relevance |-> "medium",
     process_clarity |-> "high", repeatability |-> "medium", rule_clarity |-> "medium",
     variation_complexity |-> "medium", volume_frequency |-> "medium",
     data_sensitivity |-> "low", data_readiness |-> "high", known_process_owner |-> "yes",
     audit_required |-> "yes", decision_relevant |-> "no",
     evidence_availability |-> "sufficient", authority_clarity |-> "clear",
     tool_access_required |-> "none", customer_impact |-> "none", financial_impact |-> "none",
     regulatory_or_legal_impact |-> "none", human_approval_required |-> FALSE,
     external_action_required |-> FALSE, requires_runtime_controls |-> FALSE,
     requires_multi_role_reasoning |-> FALSE, production_intended |-> FALSE,
     risk_level |-> Unset, scores |-> [f \in ScoreFields |-> Unscored], smuggled |-> {}]

\* A routine one, with high scores given for every category.
Routine ==
    [Prepared EXCEPT !.repeatability = "high", !.rule_clarity = "high",
                     !.variation_complexity = "low", !.decision_relevant = Unset,
                     !.scores = [f \in ScoreFields |-> 4]]

\* Every other answer to one question.
Answered(f, n) == [Prepared.scores EXCEPT ![f] = n]
Answers ==
    [described |-> {FALSE}, business_owner |-> {FALSE}, process_owner |-> {"empty", Unset},
     decision_owner |-> {FALSE}, data_owner |-> {FALSE}, decision_relevance |-> {"low", "high"},
     process_clarity |-> {"low"}, repeatability |-> {"high"}, rule_clarity |-> {"high"},
     variation_complexity |-> {"low"}, volume_frequency |-> {"low"},
     data_sensitivity |-> {"high"}, data_readiness |-> {"low"}, known_process_owner |-> {"no"},
     audit_required |-> {"no", Unset}, decision_relevant |-> {"yes", "no", Unset},
     evidence_availability |-> {"none", "partial"}, authority_clarity |-> {"missing", "unclear"},
     tool_access_required |-> {"read_only", "write", "external_system"},
     customer_impact |-> {"medium", "high"}, financial_impact |-> {"high"},
     regulatory_or_legal_impact |-> {"medium", "high"}, human_approval_required |-> {TRUE},
     external_action_required |-> {TRUE}, requires_runtime_controls |-> {TRUE},
     requires_multi_role_reasoning |-> {TRUE}, production_intended |-> {TRUE},
     risk_level |-> {"low", "high"}, smuggled |-> {{"production_approval"}, {"official_decision"}},
     scores |-> {[f \in ScoreFields |-> 5], [f \in ScoreFields |-> 2],
                 Answered("authority_clarity", 5), Answered("eval_readiness", 1)}]
Differing(S) == UNION {{[u EXCEPT ![f] = a] : a \in Answers[f]} : f \in DOMAIN Answers, u \in S}

\* Up to two answers away from either, and the published flow examples.
MCUseCases ==
    LET base == {Prepared, Routine}
    IN  {e[1] : e \in FlowExamples} \cup base \cup Differing(base) \cup Differing(Differing(base))

\* One test case deviates from a clean evaluation.
Clean == [status |-> [d \in EvalDimensions |-> "PASS"],
          evidence |-> [d \in EvalDimensions |-> {"basic", "strong"}], smuggled |-> FALSE]
MCObservations ==
    {Clean, [Clean EXCEPT !.smuggled = TRUE]}
    \cup {[Clean EXCEPT !.status["ACCURACY"] = s] : s \in {"FIX", Unset}}
    \cup {[Clean EXCEPT !.status["ACTION_SAFETY"] = s] : s \in {"FIX", "ESCALATE"}}
    \cup {[Clean EXCEPT !.evidence["AUDITABILITY"] = {"basic"}],
          [Clean EXCEPT !.evidence["AUTHORITY_SAFETY"] = {}]}

MCCallers ==
    {[authority_required |-> FALSE, authority_evidence |-> e, package_required |-> FALSE,
      package_provided |-> p, smuggled |-> FALSE] : e, p \in BOOLEAN}
    \cup {[authority_required |-> TRUE, authority_evidence |-> e, package_required |-> TRUE,
           package_provided |-> FALSE, smuggled |-> FALSE] : e \in BOOLEAN}
    \cup {[authority_required |-> FALSE, authority_evidence |-> TRUE, package_required |-> FALSE,
           package_provided |-> TRUE, smuggled |-> TRUE]}
=============================================================================
