---------------------------- MODULE DemoPortfolio ----------------------------
(* The portfolio the control plane ships with: the records of lib/mock-data.ts, *)
(* one operator per use case and one table per register, with the fields the    *)
(* governance engine, the integrity checks and the pages compute from.  Names,  *)
(* descriptions, owners, time lines and other texts are left out; the sources a *)
(* data source or a model says it is used by are kept as "usedBy" beside the    *)
(* links the use cases themselves state, because nothing in the code derives    *)
(* one from the other.                                                          *)
EXTENDS Naturals

(* A register is a table: one row for each of its keys. *)
Table(rows) == [key \in {row[1] : row \in rows} |-> (CHOOSE row \in rows : row[1] = key)[2]]

(* The six pieces of evidence of a use case. *)
EvidenceKeys == {"owner", "authority", "eval", "audit", "policy_boundary", "approval"}

Asset(gate, risk, access, evidence, authority, details, agents, model, sources, eval) ==
  [gate |-> gate, risk |-> risk, access |-> access, evidence |-> evidence,
   authority |-> authority, details |-> details, agents |-> agents,
   model |-> model, sources |-> sources, eval |-> eval]

uc01 == Asset("READY_FOR_AUTHORITY_REVIEW", "low", "none", "complete", "confirmed",
  EvidenceKeys, {}, "model-005", {"ds-001"}, <<96, "PASS">>)
uc02 == Asset("REPAIR_REQUIRED", "medium", "write", "partial", "confirmed",
  EvidenceKeys \ {"eval"}, {"agent-001"}, "model-001", {"ds-002"}, <<71, "FIX">>)
uc03 == Asset("GOVERNANCE_REVIEW_REQUIRED", "medium", "write", "partial", "confirmed",
  EvidenceKeys \ {"policy_boundary"}, {"agent-002"}, "model-002", {"ds-003"}, <<82, "PASS">>)
uc04 == Asset("READY_FOR_AUTHORITY_REVIEW", "medium", "read_only", "complete", "confirmed",
  EvidenceKeys, {}, "model-003", {"ds-004"}, <<93, "PASS">>)
uc05 == Asset("ESCALATE_REQUIRED", "high", "external_system", "partial", "escalation_required",
  EvidenceKeys \ {"authority", "approval"}, {"agent-003"}, "model-004", {"ds-005"}, <<68, "ESCALATE">>)
uc06 == Asset("BLOCKED", "high", "read_only", "missing", "missing",
  {"owner"}, {}, "model-005", {"ds-006"}, <<42, "FAIL">>)
uc07 == Asset("READY_FOR_AUTHORITY_REVIEW", "low", "read_only", "complete", "confirmed",
  EvidenceKeys, {}, "model-001", {"ds-007"}, <<90, "PASS">>)
uc08 == Asset("ESCALATE_REQUIRED", "high", "external_system", "partial", "escalation_required",
  {"owner", "eval", "audit"}, {"agent-004"}, "model-002", {"ds-008"}, <<64, "ESCALATE">>)
uc09 == Asset("READY_FOR_AUTHORITY_REVIEW", "low", "read_only", "complete", "confirmed",
  EvidenceKeys, {}, "model-003", {"ds-009"}, <<89, "PASS">>)
uc10 == Asset("GOVERNANCE_REVIEW_REQUIRED", "medium", "read_only", "partial", "confirmed",
  EvidenceKeys \ {"approval"}, {}, "model-004", {"ds-010"}, <<78, "PASS">>)
uc11 == Asset("REPAIR_REQUIRED", "medium", "write", "partial", "confirmed",
  EvidenceKeys \ {"eval"}, {"agent-005"}, "model-002", {"ds-002"}, <<73, "FIX">>)
uc12 == Asset("BLOCKED", "high", "external_system", "missing", "missing",
  {"owner"}, {"agent-006"}, "model-006", {"ds-003", "ds-008"}, <<35, "FAIL">>)

uc13 == Asset("GOVERNANCE_REVIEW_REQUIRED", "medium", "write", "partial", "confirmed",
  EvidenceKeys \ {"policy_boundary"}, {}, "model-001", {"ds-010"}, <<80, "PASS">>)
uc14 == Asset("ESCALATE_REQUIRED", "high", "external_system", "partial", "escalation_required",
  {"owner", "eval", "audit"}, {}, "model-006", {"ds-006"}, <<60, "ESCALATE">>)
uc15 == Asset("READY_FOR_AUTHORITY_REVIEW", "low", "none", "complete", "confirmed",
  EvidenceKeys, {}, "model-007", {"ds-007"}, <<87, "PASS">>)

DemoUseCases ==
  Table({<<"uc-01", uc01>>, <<"uc-02", uc02>>, <<"uc-03", uc03>>, <<"uc-04", uc04>>,
         <<"uc-05", uc05>>, <<"uc-06", uc06>>, <<"uc-07", uc07>>, <<"uc-08", uc08>>,
         <<"uc-09", uc09>>, <<"uc-10", uc10>>, <<"uc-11", uc11>>, <<"uc-12", uc12>>,
         <<"uc-13", uc13>>, <<"uc-14", uc14>>, <<"uc-15", uc15>>})

DemoAgents ==
  Table({<<"agent-001", [asset |-> "uc-02", status |-> "under_review"]>>,
         <<"agent-002", [asset |-> "uc-03", status |-> "active"]>>,
         <<"agent-003", [asset |-> "uc-05", status |-> "under_review"]>>,
         <<"agent-004", [asset |-> "uc-08", status |-> "under_review"]>>,
         <<"agent-005", [asset |-> "uc-11", status |-> "active"]>>,
         <<"agent-006", [asset |-> "uc-12", status |-> "suspended"]>>})

DemoModels ==
  Table({<<"model-001", [usedBy |-> {"uc-02", "uc-07", "uc-13"}, status |-> "complete", risk |-> "medium"]>>,
         <<"model-002", [usedBy |-> {"uc-03", "uc-08", "uc-11"}, status |-> "partial", risk |-> "medium"]>>,
         <<"model-003", [usedBy |-> {"uc-04", "uc-09"}, status |-> "complete", risk |-> "low"]>>,
         <<"model-004", [usedBy |-> {"uc-05", "uc-10"}, status |-> "partial", risk |-> "medium"]>>,
         <<"model-005", [usedBy |-> {"uc-01", "uc-06"}, status |-> "complete", risk |-> "low"]>>,
         <<"model-006", [usedBy |-> {"uc-12", "uc-14"}, status |-> "missing", risk |-> "high"]>>,
         <<"model-007", [usedBy |-> {"uc-15"}, status |-> "complete", risk |-> "low"]>>,
         <<"model-008", [usedBy |-> {}, status |-> "missing", risk |-> "medium"]>>})

DemoSources ==
  Table({<<"ds-001", [usedBy |-> {"uc-01"}, status |-> "complete"]>>,
         <<"ds-002", [usedBy |-> {"uc-02", "uc-11"}, status |-> "complete"]>>,
         <<"ds-003", [usedBy |-> {"uc-03", "uc-12"}, status |-> "partial"]>>,
         <<"ds-004", [usedBy |-> {"uc-04"}, status |-> "complete"]>>,
         <<"ds-005", [usedBy |-> {"uc-05"}, status |-> "partial"]>>,
         <<"ds-006", [usedBy |-> {"uc-06", "uc-14"}, status |-> "missing"]>>,
         <<"ds-007", [usedBy |-> {"uc-07", "uc-15"}, status |-> "complete"]>>,
         <<"ds-008", [usedBy |-> {"uc-08", "uc-12"}, status |-> "partial"]>>,
         <<"ds-009", [usedBy |-> {"uc-09"}, status |-> "complete"]>>,
         <<"ds-010", [usedBy |-> {"uc-10", "uc-13"}, status |-> "partial"]>>})

DemoLineage ==
  {<<"ds-001", "uc-01">>, <<"ds-002", "uc-02">>, <<"ds-002", "uc-11">>, <<"ds-003", "uc-03">>,
   <<"ds-003", "uc-12">>, <<"ds-004", "uc-04">>, <<"ds-005", "uc-05">>, <<"ds-006", "uc-06">>,
   <<"ds-006", "uc-14">>, <<"ds-007", "uc-07">>, <<"ds-007", "uc-15">>, <<"ds-008", "uc-08">>,
   <<"ds-009", "uc-09">>, <<"ds-010", "uc-10">>, <<"ds-010", "uc-13">>}

DemoSecurity ==
  Table({<<"sec-001", [status |-> "complete", assets |-> {"uc-01", "uc-04", "uc-07", "uc-09"}]>>,
         <<"sec-002", [status |-> "complete", assets |-> DOMAIN DemoUseCases]>>,
         <<"sec-003", [status |-> "partial", assets |-> {"uc-02", "uc-03", "uc-05", "uc-08", "uc-11", "uc-12"}]>>,
         <<"sec-004", [status |-> "partial", assets |-> {"uc-05", "uc-08", "uc-12", "uc-14"}]>>,
         <<"sec-005", [status |-> "missing", assets |-> {"uc-12", "uc-14"}]>>,
         <<"sec-006", [status |-> "partial", assets |-> {"uc-02", "uc-03", "uc-08", "uc-11", "uc-13"}]>>,
         <<"sec-007", [status |-> "missing", assets |-> {"uc-06", "uc-12"}]>>,
         <<"sec-008", [status |-> "partial", assets |-> {"uc-05", "uc-08", "uc-12"}]>>})

DemoPrivacy ==
  Table({<<"priv-001", [status |-> "complete", assets |-> {"uc-01", "uc-07", "uc-15"}]>>,
         <<"priv-002", [status |-> "partial", assets |-> {"uc-02", "uc-08", "uc-11"}]>>,
         <<"priv-003", [status |-> "missing", assets |-> {"uc-06"}]>>,
         <<"priv-004", [status |-> "complete", assets |-> {"uc-04"}]>>,
         <<"priv-005", [status |-> "partial", assets |-> {"uc-05", "uc-12", "uc-14"}]>>,
         <<"priv-006", [status |-> "missing", assets |-> {"uc-08"}]>>})

DemoEvaluations ==
  Table({<<"uc-01", <<96, "PASS">>>>, <<"uc-02", <<71, "FIX">>>>, <<"uc-03", <<82, "PASS">>>>,
         <<"uc-04", <<93, "PASS">>>>, <<"uc-05", <<68, "ESCALATE">>>>, <<"uc-06", <<42, "FAIL">>>>,
         <<"uc-07", <<90, "PASS">>>>, <<"uc-08", <<64, "ESCALATE">>>>, <<"uc-09", <<89, "PASS">>>>,
         <<"uc-10", <<78, "PASS">>>>, <<"uc-11", <<73, "FIX">>>>, <<"uc-12", <<35, "FAIL">>>>,
         <<"uc-13", <<80, "PASS">>>>, <<"uc-14", <<60, "ESCALATE">>>>, <<"uc-15", <<87, "PASS">>>>})

DemoReviews ==
  {<<"uc-01", "approved_for_next_stage">>, <<"uc-02", "returned_for_repair">>,
   <<"uc-03", "returned_for_repair">>, <<"uc-05", "escalated">>,
   <<"uc-06", "returned_for_repair">>, <<"uc-08", "escalated">>,
   <<"uc-10", "approved_for_next_stage">>, <<"uc-11", "returned_for_repair">>,
   <<"uc-12", "returned_for_repair">>, <<"uc-14", "escalated">>,
   <<"uc-04", "approved_for_next_stage">>, <<"uc-07", "approved_for_next_stage">>,
   <<"uc-09", "approved_for_next_stage">>, <<"uc-13", "approved_for_next_stage">>,
   <<"uc-15", "approved_for_next_stage">>}

DemoIncidents ==
  Table({<<"inc-001", [asset |-> "uc-12", status |-> "resolved"]>>,
         <<"inc-002", [asset |-> "uc-06", status |-> "investigating"]>>,
         <<"inc-003", [asset |-> "uc-05", status |-> "resolved"]>>,
         <<"inc-004", [asset |-> "uc-08", status |-> "investigating"]>>,
         <<"inc-005", [asset |-> "uc-14", status |-> "open"]>>})

DemoMappings ==
  Table({<<"cm-001", [controls |-> {"sec-001"}, status |-> "complete"]>>,
         <<"cm-002", [controls |-> {}, status |-> "partial"]>>,
         <<"cm-003", [controls |-> {"priv-001"}, status |-> "partial"]>>,
         <<"cm-004", [controls |-> {"priv-002", "priv-005"}, status |-> "partial"]>>,
         <<"cm-005", [controls |-> {"sec-006"}, status |-> "partial"]>>,
         <<"cm-006", [controls |-> {"sec-004"}, status |-> "partial"]>>,
         <<"cm-007", [controls |-> {}, status |-> "partial"]>>,
         <<"cm-008", [controls |-> {}, status |-> "missing"]>>,
         <<"cm-009", [controls |-> {}, status |-> "partial"]>>,
         <<"cm-010", [controls |-> {}, status |-> "partial"]>>,
         <<"cm-011", [controls |-> {}, status |-> "partial"]>>,
         <<"cm-012", [controls |-> {}, status |-> "partial"]>>})
=============================================================================
