------------------------- MODULE EvaluationRegister -------------------------
(***************************************************************************)
(* What the Governance Gateway promises of KFSA's evaluations, whatever    *)
(* posts race, die or retry: a register per (organization, correlation)    *)
(* written at most once, and tabs that are told only what it holds.        *)
(***************************************************************************)
CONSTANTS Tabs, PromotionRequests, ReviewOutcomes, Organizations, Correlations,
          OrganizationOf, CorrelationOf

VARIABLES
    evaluation,  \* the evaluations recorded under each key
    told         \* the evaluation each tab has last been told, if any

vars == <<evaluation, told>>

Keys == Organizations \X Correlations

KeyOf(p) == <<OrganizationOf[p], CorrelationOf[p]>>

Init ==
    /\ evaluation = [k \in Keys |-> {}]
    /\ told = [t \in Tabs |-> {}]

Evaluate(p, review) ==
    /\ evaluation[KeyOf(p)] = {}
    /\ evaluation' = [evaluation EXCEPT ![KeyOf(p)] = {[pr |-> p, review |-> review]}]
    /\ UNCHANGED told

Tell(t, p) ==
    /\ \E e \in evaluation[KeyOf(p)] : e.pr = p /\ told' = [told EXCEPT ![t] = {e}]
    /\ UNCHANGED evaluation

Forget(t) ==
    /\ told' = [told EXCEPT ![t] = {}]
    /\ UNCHANGED evaluation

Next ==
    \/ \E p \in PromotionRequests, review \in ReviewOutcomes : Evaluate(p, review)
    \/ \E t \in Tabs, p \in PromotionRequests : Tell(t, p)
    \/ \E t \in Tabs : Forget(t)

Spec == Init /\ [][Next]_vars
=============================================================================
