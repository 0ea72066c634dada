--------------------------- MODULE ReviewOutcomes ---------------------------
(***************************************************************************)
(* The vocabulary every reviewing component shares: four outcomes in a     *)
(* fail-closed order, FAIL > ESCALATE > FIX > PASS. KFSA's own verdicts    *)
(* (KILL, SCALE, ALERT) are never among them.                              *)
(***************************************************************************)
EXTENDS Integers

Outcomes == {"PASS", "FIX", "ESCALATE", "FAIL"}

\* How severe an outcome is.
Rank == [PASS |-> 0, FIX |-> 1, ESCALATE |-> 2, FAIL |-> 3]

\* The worse of two outcomes.
Worse(a, b) == IF Rank[a] >= Rank[b] THEN a ELSE b

\* The worst of a set of outcomes, PASS when there is none.
WorstOf(S) ==
    CHOOSE o \in S \cup {"PASS"} : \A p \in S \cup {"PASS"} : Rank[p] <= Rank[o]

\* The outcome of a check that found these reasons to fail, to escalate and
\* to fix: the first list that is not empty decides.
FirstTier(failures, escalations, fixes) ==
    CASE failures # {} -> "FAIL"
      [] failures = {} /\ escalations # {} -> "ESCALATE"
      [] failures = {} /\ escalations = {} /\ fixes # {} -> "FIX"
      [] OTHER -> "PASS"
=============================================================================
