-------------------------- MODULE MCKfsaSubmission --------------------------
(* Small instances of KfsaSubmission for TLC.                              *)
EXTENDS KfsaSubmission, TLC

CONSTANTS p1, p2, p3, o1, o2, c1

\* One tenant, one request.
OneRequestOrganization == p1 :> o1
OneRequestCorrelation == p1 :> c1

\* Two requests built from one run share its correlation id, and another
\* tenant's request carries the same correlation text.
TwoTenants == p1 :> o1 @@ p2 :> o1 @@ p3 :> o2
SharedCorrelation == p1 :> c1 @@ p2 :> c1 @@ p3 :> c1

Untouched(p) ==
    /\ Rows(p) = {}
    /\ \A e \in audit : e.pr # p
    /\ \A t \in Tabs : pc[t] # "idle" => post[t].pr # p

\* p1 meets either the other tenant's request or that of its own tenant, and
\* posts for a foreign tenant are made in the first case only. No attempt grows
\* old: with one attempt, a stale one can only be ended.
OneNeighbour ==
    /\ \/ Untouched(p2)
       \/ /\ Untouched(p3)
          /\ \A t \in Tabs : pc[t] # "idle" => post[t].caller = o1
    /\ \A p \in PromotionRequests, n \in AttemptNumbers : ~attempts[p][n].stale

TabSymmetry == Permutations(Tabs)
=============================================================================
