-------------------------- MODULE FailClosedReview --------------------------
(***************************************************************************)
(* What a chain of reviews promises, however its stages are arranged: the  *)
(* verdict is at least as severe as every FAIL and every ESCALATE a stage  *)
(* has reported and not replaced by a newer report.                        *)
(***************************************************************************)
EXTENDS ReviewOutcomes

VARIABLES
    raised,  \* what each stage last reported
    verdict  \* the set of verdicts given on these reports: none or one

Stages == {"triage", "readiness", "gate", "eval"}

Init == raised = [s \in Stages |-> "NONE"] /\ verdict = {}

\* Stages report, anew or the same again: a verdict given before is void.
Report == verdict' = {}

Conclude ==
    /\ UNCHANGED raised
    /\ \E o \in Outcomes :
        /\ verdict' = {o}
        /\ \A s \in Stages : /\ raised[s] = "FAIL" => o = "FAIL"
                             /\ raised[s] = "ESCALATE" => o \in {"FAIL", "ESCALATE"}

Next == Report \/ Conclude

Spec == Init /\ [][Next]_<<raised, verdict>>
=============================================================================
