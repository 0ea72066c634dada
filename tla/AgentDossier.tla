---------------------------- MODULE AgentDossier ----------------------------
(***************************************************************************)
(* The dossier of one agent: the permission schema says which controls its *)
(* powers call for, the evidence pack says which evidence, and a validator *)
(* of each reviews what the dossier declares. The owner resubmits the      *)
(* dossier with more powers, more controls or more evidence; both reviews  *)
(* are computed anew for every submission.                                 *)
(***************************************************************************)
EXTENDS ReviewOutcomes, FiniteSets

CONSTANTS
    Tools,     \* the tools and systems an agent may be granted
    Dossiers   \* the dossiers that are submitted first

VARIABLES
    dossier,     \* the dossier as last submitted
    permission,  \* validateAgentPermissions of it
    pack         \* validateEvidencePack of it

vars == <<dossier, permission, pack>>

Levels == <<"low", "medium", "high">>
Autonomies == <<"manual", "assisted", "supervised", "autonomous">>
GrantKinds == {"allowed_tools", "read_only_tools", "write_tools", "external_systems"}
Controls == {"owner", "authority", "evidence", "audit", "approval", "policy", "escalation"}
Intents == {"production_intended", "decision_relevant", "external_data_movement"}
Stages == {"eval", "governance_gate", "agent_permission"}

EvidenceKeys ==
    {"owner", "authority", "business_justification", "data_scope", "data_sensitivity",
     "tool_permission", "external_system", "audit", "policy_boundary", "approval", "escalation"}
    \cup Stages

\* One dossier serves both inputs: the evidence pack's has_write_tools and
\* has_external_system_access say whether the tool sets are empty. Levels and
\* autonomies are numbered, so that an extension raises a number.
Dossier ==
    [grants : [GrantKinds -> SUBSET Tools], forbidden_tools : SUBSET Tools,
     intents : SUBSET Intents, autonomy : DOMAIN Autonomies, sensitivity : DOMAIN Levels,
     risk : DOMAIN Levels, controls : SUBSET Controls, evidence : SUBSET EvidenceKeys,
     stages : SUBSET Stages, smuggled : BOOLEAN]

ASSUME DossiersAssumption == Dossiers \subseteq Dossier

HighLevel == 3
Assisted == 2
Supervised == 3
Autonomous == 4

Writes(d) == d.grants["write_tools"] # {}
External(d) == d.grants["external_systems"] # {}
Acts(d) == Writes(d) \/ External(d)
Moves(d) == "external_data_movement" \in d.intents
Intended(d) == {"production_intended", "decision_relevant"} \cap d.intents # {}
-----------------------------------------------------------------------------
(* The permission schema. *)

MaxToolPermissionLevel(d) ==
    CASE External(d) -> "external_system"
      [] Writes(d) /\ ~External(d) -> "write"
      [] ~Acts(d) /\ d.grants["read_only_tools"] \cup d.grants["allowed_tools"] # {} -> "read_only"
      [] OTHER -> "none"

\* Mutant: a supervised agent is let off.
AuthorityForAutonomousOnly(d) == Intended(d) \/ Acts(d) \/ d.autonomy = Autonomous

AuthorityControl(d) == Intended(d) \/ Acts(d) \/ d.autonomy >= Supervised

\* The controls an agent's powers call for, whatever the dossier declares.
DerivedControls(d) ==
    LET rules == [owner |-> TRUE,
                  authority |-> AuthorityControl(d),
                  evidence |-> d.sensitivity > 1 \/ d.risk > 1 \/ Intended(d),
                  audit |-> Acts(d) \/ Moves(d) \/ d.autonomy >= Supervised,
                  approval |-> \/ Acts(d) \/ d.autonomy = Autonomous
                               \/ "production_intended" \in d.intents,
                  escalation |-> \/ HighLevel \in {d.risk, d.sensitivity}
                                 \/ External(d) /\ d.autonomy = Autonomous,
                  policy |-> d.autonomy >= Assisted \/ Acts(d) \/ Moves(d)]
    IN  {c \in Controls : rules[c]}

\* A control that is declared is required as well.
RequiredControls(d) == DerivedControls(d) \cup (d.controls \ {"owner", "policy"})

\* Mutant: the granted sets are compared without the read-only tools.
OverlapOfWriting(d) ==
    d.forbidden_tools \cap (d.grants["allowed_tools"] \cup d.grants["write_tools"]) # {}

\* External systems are not looked at.
HasForbiddenToolOverlap(d) ==
    d.forbidden_tools \cap (d.grants["allowed_tools"] \cup d.grants["read_only_tools"]
                            \cup d.grants["write_tools"]) # {}

\* Of an escalation that is required, only the high risk is enforced.
ValidateAgentPermissions(d) ==
    LET missing == RequiredControls(d) \ d.controls
        blocking == (missing \ {"evidence", "escalation"})
                    \cup (IF d.sensitivity = HighLevel THEN missing \cap {"evidence"} ELSE {})
                    \cup (IF d.smuggled THEN {"smuggled"} ELSE {})
                    \cup (IF HasForbiddenToolOverlap(d) THEN {"forbidden_tools"} ELSE {})
        escalations == IF d.risk = HighLevel THEN {"escalation"} \ d.controls ELSE {}
        fixes == (missing \cap {"evidence"}) \ blocking
    IN  [required |-> RequiredControls(d), max_tool_permission_level |-> MaxToolPermissionLevel(d),
         blocking_failures |-> blocking, escalation_reasons |-> escalations,
         required_fixes |-> fixes, review_outcome |-> FirstTier(blocking, escalations, fixes)]
-----------------------------------------------------------------------------
(* The evidence pack. *)

RequiredEvidenceKeys(d) ==
    LET rules == [owner |-> TRUE,
                  business_justification |-> Intended(d),
                  authority |-> Intended(d) \/ Acts(d) \/ d.autonomy >= Supervised,
                  data_scope |-> d.sensitivity > 1 \/ External(d) \/ Moves(d),
                  data_sensitivity |-> d.sensitivity > 1,
                  tool_permission |-> Acts(d),
                  external_system |-> External(d),
                  audit |-> Acts(d) \/ Moves(d) \/ d.autonomy >= Supervised,
                  policy_boundary |-> d.autonomy >= Assisted \/ Acts(d) \/ Moves(d),
                  approval |-> \/ Acts(d) \/ d.autonomy = Autonomous
                               \/ "production_intended" \in d.intents,
                  escalation |-> \/ HighLevel \in {d.risk, d.sensitivity}
                                 \/ External(d) /\ d.autonomy = Autonomous]
    IN  {k \in DOMAIN rules : rules[k]} \cup d.stages

\* Mutant: the levels are compared wrongly.
EvalBlocksAtMedium(d) == d.risk = 2

\* A missing evaluation blocks at high risk and is to be fixed below.
EvalBlocks(d) == d.risk = HighLevel

\* Which missing evidence blocks: the validator's own conditions, narrower
\* than the pack's requirements.
BlockingEvidence(d) ==
    {"owner"}
    \cup (IF Acts(d) THEN {"authority", "approval", "tool_permission"} ELSE {})
    \cup (IF Moves(d) THEN {"audit"} ELSE {})
    \cup (IF Acts(d) \/ Moves(d) \/ d.autonomy >= Supervised THEN {"policy_boundary"} ELSE {})
    \cup (IF d.sensitivity = HighLevel THEN {"data_sensitivity"} ELSE {})
    \cup (IF EvalBlocks(d) THEN d.stages \cap {"eval"} ELSE {})
    \cup (IF "production_intended" \in d.intents THEN {"business_justification"} ELSE {})

\* Which missing evidence is to be fixed.
FixableEvidence(d) ==
    (d.stages \cup (IF Intended(d) THEN {"business_justification"} ELSE {})) \ BlockingEvidence(d)

ValidateEvidencePack(d) ==
    LET blocking == (BlockingEvidence(d) \ d.evidence)
                    \cup (IF d.smuggled THEN {"smuggled"} ELSE {})
        escalations == IF d.risk = HighLevel THEN {"escalation"} \ d.evidence ELSE {}
        fixes == FixableEvidence(d) \ d.evidence
    IN  [required |-> RequiredEvidenceKeys(d), missing |-> RequiredEvidenceKeys(d) \ d.evidence,
         blocking_failures |-> blocking, escalation_reasons |-> escalations,
         required_fixes |-> fixes, review_outcome |-> FirstTier(blocking, escalations, fixes)]
-----------------------------------------------------------------------------
Submit(d) ==
    /\ dossier' = d
    /\ permission' = ValidateAgentPermissions(d)
    /\ pack' = ValidateEvidencePack(d)

Init == \E d \in Dossiers :
    /\ dossier = d
    /\ permission = ValidateAgentPermissions(d)
    /\ pack = ValidateEvidencePack(d)

\* The agent is given a tool.
GrantTool == \E k \in GrantKinds, t \in Tools :
    /\ t \notin dossier.grants[k]
    /\ Submit([dossier EXCEPT !.grants[k] = @ \cup {t}])

AddIntent ==
    \E i \in Intents \ dossier.intents : Submit([dossier EXCEPT !.intents = @ \cup {i}])

RaiseLevel ==
    \/ dossier.autonomy < Autonomous /\ Submit([dossier EXCEPT !.autonomy = @ + 1])
    \/ dossier.sensitivity < HighLevel /\ Submit([dossier EXCEPT !.sensitivity = @ + 1])
    \/ dossier.risk < HighLevel /\ Submit([dossier EXCEPT !.risk = @ + 1])

\* What a review asked for is declared or provided.
DeclareControl == \E c \in Controls \ dossier.controls :
    Submit([dossier EXCEPT !.controls = @ \cup {c}])

ProvideEvidence == \E k \in EvidenceKeys \ dossier.evidence :
    Submit([dossier EXCEPT !.evidence = @ \cup {k}])

Next == GrantTool \/ AddIntent \/ RaiseLevel \/ DeclareControl \/ ProvideEvidence

Spec == Init /\ [][Next]_vars
-----------------------------------------------------------------------------
(* Properties. *)

TypeOK ==
    /\ dossier \in Dossier
    /\ permission.review_outcome \in Outcomes /\ pack.review_outcome \in Outcomes
    /\ permission.required \subseteq Controls /\ pack.required \subseteq EvidenceKeys

\* The two components derive what an agent needs in code of their own, the
\* schema as controls and the pack as evidence; they must agree on every
\* question both answer, and the validator may block on nothing but evidence
\* the pack requires.
DerivationsAgree ==
    LET both == [owner |-> "owner", authority |-> "authority", audit |-> "audit",
                 approval |-> "approval", escalation |-> "escalation", policy |-> "policy_boundary"]
    IN  /\ \A c \in DOMAIN both : c \in DerivedControls(dossier) <=> both[c] \in pack.required
        /\ pack.blocking_failures \cup pack.escalation_reasons \cup pack.required_fixes
            \subseteq pack.missing \cup {"smuggled"}

\* More power never makes a review kinder, and more evidence or one more
\* control never makes it harsher, over any sequence of resubmissions: a
\* requirement that switches off another one would break this.
ReviewsAreMonotone ==
    [][LET harsher == /\ Rank[permission'.review_outcome] >= Rank[permission.review_outcome]
                      /\ Rank[pack'.review_outcome] >= Rank[pack.review_outcome]
           kinder == /\ Rank[permission'.review_outcome] <= Rank[permission.review_outcome]
                     /\ Rank[pack'.review_outcome] <= Rank[pack.review_outcome]
       IN  IF <<dossier'.controls, dossier'.evidence>> = <<dossier.controls, dossier.evidence>>
           THEN harsher ELSE kinder]_vars

\* An agent both reviews pass and that writes or reaches an external system
\* has an owner, authority, approval, an audit and a policy boundary on both
\* sides: the pack's narrower conditions leave no acting agent uncovered,
\* except for audit evidence, which the pack asks for and does not enforce.
ActingAgentsAreCovered ==
    /\ Acts(dossier) /\ permission.review_outcome = "PASS" /\ pack.review_outcome = "PASS"
    => /\ {"owner", "authority", "approval", "audit", "policy"} \subseteq dossier.controls
       /\ {"owner", "authority", "approval", "tool_permission", "policy_boundary"}
            \subseteq dossier.evidence
       /\ \A k \in GrantKinds \ {"external_systems"} :
            dossier.grants[k] \cap dossier.forbidden_tools = {}

\* A validator's comment promises to enforce every requirement the schema has
\* derived. An escalation required for sensitive data, or for an autonomous
\* agent with an external system, is not enforced.
EveryRequirementEnforced ==
    permission.review_outcome = "PASS" => permission.required \subseteq dossier.controls
=============================================================================
