------------------------- MODULE MCGovernancePosture -------------------------
(* One use case per kind: ready, escalated, blocked, and one that may write     *)
(* although no agent is registered for it.                                      *)
EXTENDS GovernancePosture

MCSubjects == {"uc-01", "uc-05", "uc-12", "uc-13"}
=============================================================================
