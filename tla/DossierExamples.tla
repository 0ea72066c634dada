-------------------------- MODULE DossierExamples --------------------------
(***************************************************************************)
(* The executable examples of the permission schema and of the evidence    *)
(* pack, each a dossier and the outcome its validator promises for it.     *)
(***************************************************************************)
EXTENDS AgentDossier, TLC

CONSTANT Tool   \* the tool an example grants

ASSUME ToolAssumption == Tool \in Tools

\* An input that states nothing but what is given.
Stating(given) ==
    given @@ [grants |-> [k \in GrantKinds |-> {}], forbidden_tools |-> {}, intents |-> {},
              autonomy |-> 1, sensitivity |-> 1, risk |-> 1, controls |-> {}, evidence |-> {},
              stages |-> {}, smuggled |-> FALSE]

Granted(kind) == [k \in GrantKinds |-> IF k = kind THEN {Tool} ELSE {}]
Owned(controls) == [controls |-> {"owner"} \cup controls]
Evidenced(keys) == [evidence |-> {"owner"} \cup keys]

ReadOnly == [grants |-> Granted("read_only_tools")]
Writing == [grants |-> Granted("write_tools")]
Reaching == [grants |-> Granted("external_systems")]

PermissionExamples ==
    {<<ReadOnly @@ Owned({}), "PASS">>,
     <<ReadOnly, "FAIL">>,
     <<Writing @@ Owned({"approval", "audit", "policy"}), "FAIL">>,
     <<[intents |-> {"external_data_movement"}] @@ Reaching
        @@ Owned({"authority", "approval", "policy"}), "FAIL">>,
     <<[autonomy |-> Autonomous] @@ Owned({"authority", "approval", "audit"}), "FAIL">>,
     <<[risk |-> HighLevel] @@ Owned(Controls \ {"escalation"}), "ESCALATE">>,
     <<Reaching @@ Owned({"authority", "audit", "policy"}), "FAIL">>,
     <<[autonomy |-> Supervised] @@ Owned({"authority", "approval", "audit"}), "FAIL">>,
     <<[intents |-> {"decision_relevant"}]
        @@ Owned({"evidence", "audit", "approval", "policy"}), "FAIL">>,
     <<[smuggled |-> TRUE] @@ ReadOnly @@ Owned({}), "FAIL">>}

EvidenceExamples ==
    LET covered == {"audit", "policy_boundary", "approval", "tool_permission"}
    IN  {<<Evidenced({}), "PASS">>,
         <<[stages |-> {}], "FAIL">>,
         <<Writing @@ Evidenced(covered), "FAIL">>,
         <<[intents |-> {"external_data_movement"}] @@ Reaching
            @@ Evidenced((covered \ {"audit"}) \cup {"authority", "external_system"}), "FAIL">>,
         <<[autonomy |-> Autonomous] @@ Evidenced({"authority", "audit", "approval"}), "FAIL">>,
         <<[stages |-> {"eval"}, risk |-> 2] @@ Evidenced({}), "FIX">>,
         <<[risk |-> HighLevel] @@ Evidenced(covered \cup {"authority"}), "ESCALATE">>,
         <<[intents |-> {"production_intended"}] @@ Evidenced({"authority", "approval"}), "FAIL">>,
         <<[smuggled |-> TRUE] @@ Evidenced({}), "FAIL">>}

ExampleDossiers == {Stating(e[1]) : e \in PermissionExamples \cup EvidenceExamples}

\* examples.ts of the two packages states the outcome of every example, and the
\* validators keep these promises.
PublishedExamplesHold ==
    /\ \A e \in PermissionExamples : dossier = Stating(e[1]) => permission.review_outcome = e[2]
    /\ \A e \in EvidenceExamples : dossier = Stating(e[1]) => pack.review_outcome = e[2]
=============================================================================
