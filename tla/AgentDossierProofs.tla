-------------------------- MODULE AgentDossierProofs --------------------------
(***************************************************************************)
(* Proofs about the dossier of an agent, for every set of tools and every  *)
(* dossier. Both reviews are functions of the dossier last submitted; what *)
(* has to be proved is what these functions tell of each other and how     *)
(* they move with the dossier.                                             *)
(***************************************************************************)
EXTENDS AgentDossier, TLAPS

DossierInv ==
    /\ dossier \in Dossier
    /\ permission = ValidateAgentPermissions(dossier)
    /\ pack = ValidateEvidencePack(dossier)

\* e is d with more powers, and with the same declarations and evidence.
Stronger(d, e) ==
    /\ \A k \in GrantKinds : d.grants[k] \subseteq e.grants[k]
    /\ d.intents \subseteq e.intents
    /\ d.autonomy <= e.autonomy /\ d.sensitivity <= e.sensitivity /\ d.risk <= e.risk
    /\ <<e.controls, e.evidence>> = <<d.controls, d.evidence>>
    /\ <<e.forbidden_tools, e.stages, e.smuggled>> = <<d.forbidden_tools, d.stages, d.smuggled>>

\* e is d with more controls or more evidence, and with the same powers.
Completed(d, e) ==
    /\ d.controls \subseteq e.controls /\ d.evidence \subseteq e.evidence
    /\ d.controls # e.controls \/ d.evidence # e.evidence
    /\ <<e.grants, e.intents, e.autonomy, e.sensitivity, e.risk>>
        = <<d.grants, d.intents, d.autonomy, d.sensitivity, d.risk>>
    /\ <<e.forbidden_tools, e.stages, e.smuggled>> = <<d.forbidden_tools, d.stages, d.smuggled>>
-----------------------------------------------------------------------------
(* Lemmas about dossiers. *)

LEMMA LevelsAreNumbers ==
    ASSUME NEW d \in Dossier
    PROVE  d.autonomy \in 1..4 /\ d.sensitivity \in 1..3 /\ d.risk \in 1..3
BY DEF Dossier, Autonomies, Levels

\* What extends a dossier leaves a dossier, with more powers.
LEMMA PowersAdded ==
    ASSUME NEW d \in Dossier
    PROVE  /\ \A k \in GrantKinds, t \in Tools :
                LET e == [d EXCEPT !.grants[k] = @ \cup {t}] IN e \in Dossier /\ Stronger(d, e)
           /\ \A i \in Intents :
                LET e == [d EXCEPT !.intents = @ \cup {i}] IN e \in Dossier /\ Stronger(d, e)
           /\ d.autonomy < Autonomous =>
                LET e == [d EXCEPT !.autonomy = @ + 1] IN e \in Dossier /\ Stronger(d, e)
           /\ d.sensitivity < HighLevel =>
                LET e == [d EXCEPT !.sensitivity = @ + 1] IN e \in Dossier /\ Stronger(d, e)
           /\ d.risk < HighLevel =>
                LET e == [d EXCEPT !.risk = @ + 1] IN e \in Dossier /\ Stronger(d, e)
<1>1. d.autonomy \in 1..4 /\ d.sensitivity \in 1..3 /\ d.risk \in 1..3
    BY LevelsAreNumbers
<1>2. d.grants \in [GrantKinds -> SUBSET Tools] /\ d.intents \in SUBSET Intents
    BY DEF Dossier
<1>3. ASSUME NEW k \in GrantKinds, NEW t \in Tools, NEW e, e = [d EXCEPT !.grants[k] = @ \cup {t}]
      PROVE  e \in Dossier /\ Stronger(d, e)
  <2> DEFINE g == [d.grants EXCEPT ![k] = @ \cup {t}]
  <2>1. g \in [GrantKinds -> SUBSET Tools]
      BY <1>2
  <2>2. \A j \in GrantKinds : d.grants[j] \subseteq g[j]
      BY <1>2
  <2>3. e = [d EXCEPT !.grants = g]
      BY <1>3 DEF Dossier
  <2> HIDE DEF g
  <2>4. e \in Dossier
      BY <2>1, <2>3 DEF Dossier
  <2> QED
      BY <1>1, <2>2, <2>3, <2>4 DEF Stronger, Dossier
<1>4. ASSUME NEW i \in Intents, NEW e, e = [d EXCEPT !.intents = @ \cup {i}]
      PROVE  e \in Dossier /\ Stronger(d, e)
  <2>1. e \in Dossier
      BY <1>4, <1>2 DEF Dossier
  <2> QED
      BY <1>1, <1>4, <2>1 DEF Stronger, Dossier
<1>5. ASSUME d.autonomy < Autonomous, NEW e, e = [d EXCEPT !.autonomy = @ + 1]
      PROVE  e \in Dossier /\ Stronger(d, e)
  <2>1. e \in Dossier
      BY <1>5, <1>1 DEF Dossier, Autonomous, Autonomies
  <2> QED
      BY <1>1, <1>5, <2>1 DEF Stronger, Dossier
<1>6. ASSUME d.sensitivity < HighLevel, NEW e, e = [d EXCEPT !.sensitivity = @ + 1]
      PROVE  e \in Dossier /\ Stronger(d, e)
  <2>1. e \in Dossier
      BY <1>6, <1>1 DEF Dossier, HighLevel, Levels
  <2> QED
      BY <1>1, <1>6, <2>1 DEF Stronger, Dossier
<1>7. ASSUME d.risk < HighLevel, NEW e, e = [d EXCEPT !.risk = @ + 1]
      PROVE  e \in Dossier /\ Stronger(d, e)
  <2>1. e \in Dossier
      BY <1>7, <1>1 DEF Dossier, HighLevel, Levels
  <2> QED
      BY <1>1, <1>7, <2>1 DEF Stronger, Dossier
<1> QED
    BY <1>3, <1>4, <1>5, <1>6, <1>7

LEMMA DossierCompleted ==
    ASSUME NEW d \in Dossier
    PROVE  /\ \A c \in Controls \ d.controls :
                LET e == [d EXCEPT !.controls = @ \cup {c}] IN e \in Dossier /\ Completed(d, e)
           /\ \A k \in EvidenceKeys \ d.evidence :
                LET e == [d EXCEPT !.evidence = @ \cup {k}] IN e \in Dossier /\ Completed(d, e)
<1>1. ASSUME NEW c \in Controls \ d.controls, NEW e, e = [d EXCEPT !.controls = @ \cup {c}]
      PROVE  e \in Dossier /\ Completed(d, e)
  <2>1. d.controls \cup {c} \in SUBSET Controls
      BY DEF Dossier
  <2>2. e \in Dossier
      BY <1>1, <2>1 DEF Dossier
  <2> QED
      BY <1>1, <2>2 DEF Completed, Dossier
<1>2. ASSUME NEW k \in EvidenceKeys \ d.evidence, NEW e, e = [d EXCEPT !.evidence = @ \cup {k}]
      PROVE  e \in Dossier /\ Completed(d, e)
  <2>1. d.evidence \cup {k} \in SUBSET EvidenceKeys
      BY DEF Dossier
  <2>2. e \in Dossier
      BY <1>2, <2>1 DEF Dossier
  <2> QED
      BY <1>2, <2>2 DEF Completed, Dossier
<1> QED
    BY <1>1, <1>2

\* A step resubmits a dossier: with more powers, or completed.
LEMMA StepSubmits ==
    ASSUME dossier \in Dossier, Next
    PROVE  /\ dossier' \in Dossier
           /\ permission' = ValidateAgentPermissions(dossier')
           /\ pack' = ValidateEvidencePack(dossier')
           /\ Stronger(dossier, dossier') \/ Completed(dossier, dossier')
<1>1. CASE GrantTool
  <2>1. PICK k \in GrantKinds, t \in Tools : Submit([dossier EXCEPT !.grants[k] = @ \cup {t}])
      BY <1>1 DEF GrantTool
  <2> DEFINE e == [dossier EXCEPT !.grants[k] = @ \cup {t}]
  <2>2. e \in Dossier /\ Stronger(dossier, e)
      BY Zenon, PowersAdded
  <2>3. Submit(e)
      BY <2>1
  <2> HIDE DEF e
  <2> QED
      BY <2>2, <2>3 DEF Submit
<1>2. CASE AddIntent
    BY <1>2, PowersAdded DEF AddIntent, Submit
<1>3. CASE RaiseLevel
    BY <1>3, PowersAdded DEF RaiseLevel, Submit
<1>4. CASE DeclareControl
    BY <1>4, DossierCompleted DEF DeclareControl, Submit
<1>5. CASE ProvideEvidence
    BY <1>5, DossierCompleted DEF ProvideEvidence, Submit
<1> QED
    BY <1>1, <1>2, <1>3, <1>4, <1>5 DEF Next
-----------------------------------------------------------------------------
(* Lemmas about the reviews. *)

\* The question that decides whether a control is called for.
LEMMA ControlsDerived ==
    ASSUME NEW d
    PROVE  /\ DerivedControls(d) \subseteq Controls
           /\ "owner" \in DerivedControls(d)
           /\ "authority" \in DerivedControls(d) <=> AuthorityControl(d)
           /\ "evidence" \in DerivedControls(d) <=> d.sensitivity > 1 \/ d.risk > 1 \/ Intended(d)
           /\ "audit" \in DerivedControls(d) <=> Acts(d) \/ Moves(d) \/ d.autonomy >= Supervised
           /\ "approval" \in DerivedControls(d) <=>
                Acts(d) \/ d.autonomy = Autonomous \/ "production_intended" \in d.intents
           /\ "escalation" \in DerivedControls(d) <=>
                HighLevel \in {d.risk, d.sensitivity} \/ (External(d) /\ d.autonomy = Autonomous)
           /\ "policy" \in DerivedControls(d) <=> d.autonomy >= Assisted \/ Acts(d) \/ Moves(d)
BY DEF DerivedControls, Controls

\* The question that decides whether a piece of evidence is required.
LEMMA EvidenceRequired ==
    ASSUME NEW d, NEW K, K = RequiredEvidenceKeys(d)
    PROVE  /\ "owner" \in K
           /\ d.stages \subseteq K
           /\ Intended(d) => "business_justification" \in K
           /\ Intended(d) \/ Acts(d) \/ d.autonomy >= Supervised => "authority" \in K
           /\ d.sensitivity > 1 => "data_sensitivity" \in K
           /\ Acts(d) => "tool_permission" \in K
           /\ Acts(d) \/ Moves(d) \/ d.autonomy >= Supervised => "audit" \in K
           /\ d.autonomy >= Assisted \/ Acts(d) \/ Moves(d) => "policy_boundary" \in K
           /\ Acts(d) \/ d.autonomy = Autonomous \/ "production_intended" \in d.intents =>
                "approval" \in K
           /\ HighLevel \in {d.risk, d.sensitivity} \/ (External(d) /\ d.autonomy = Autonomous) =>
                "escalation" \in K
BY DEF RequiredEvidenceKeys

\* A requirement both reviews answer is not a requirement of one alone.
LEMMA NothingElseRequired ==
    ASSUME NEW d, d.stages \subseteq Stages, NEW K, K = RequiredEvidenceKeys(d)
    PROVE  /\ K \subseteq EvidenceKeys
           /\ "authority" \in K => Intended(d) \/ Acts(d) \/ d.autonomy >= Supervised
           /\ "audit" \in K => Acts(d) \/ Moves(d) \/ d.autonomy >= Supervised
           /\ "policy_boundary" \in K => d.autonomy >= Assisted \/ Acts(d) \/ Moves(d)
           /\ "approval" \in K =>
                Acts(d) \/ d.autonomy = Autonomous \/ "production_intended" \in d.intents
           /\ "escalation" \in K =>
                HighLevel \in {d.risk, d.sensitivity} \/ (External(d) /\ d.autonomy = Autonomous)
BY DEF RequiredEvidenceKeys, EvidenceKeys, Stages
\* Which of the three lists of the permission review are empty.
LEMMA PermissionLists ==
    ASSUME NEW d \in Dossier, NEW v, v = ValidateAgentPermissions(d),
           NEW M, M = DerivedControls(d) \ d.controls
    PROVE  /\ v.required \ d.controls = M
           /\ v.review_outcome = FirstTier(v.blocking_failures, v.escalation_reasons, v.required_fixes)
           /\ v.blocking_failures # {} <=>
                \/ M \ {"evidence", "escalation"} # {}
                \/ d.sensitivity = HighLevel /\ "evidence" \in M
                \/ d.smuggled
                \/ HasForbiddenToolOverlap(d)
           /\ v.escalation_reasons # {} <=> d.risk = HighLevel /\ "escalation" \notin d.controls
           /\ v.required_fixes # {} <=> d.sensitivity # HighLevel /\ "evidence" \in M
<1>1. RequiredControls(d) \ d.controls = M
    BY DEF RequiredControls
<1>2. v.required = RequiredControls(d)
    BY DEF ValidateAgentPermissions
<1>3. v.blocking_failures = (M \ {"evidence", "escalation"})
                            \cup (IF d.sensitivity = HighLevel THEN M \cap {"evidence"} ELSE {})
                            \cup (IF d.smuggled THEN {"smuggled"} ELSE {})
                            \cup (IF HasForbiddenToolOverlap(d) THEN {"forbidden_tools"} ELSE {})
    BY <1>1 DEF ValidateAgentPermissions
<1>4. v.escalation_reasons = IF d.risk = HighLevel THEN {"escalation"} \ d.controls ELSE {}
    BY DEF ValidateAgentPermissions
<1>5. v.required_fixes = (M \cap {"evidence"}) \ v.blocking_failures
    BY <1>1, <1>3 DEF ValidateAgentPermissions
<1>6. v.review_outcome = FirstTier(v.blocking_failures, v.escalation_reasons, v.required_fixes)
    BY <1>1 DEF ValidateAgentPermissions
<1>7. d.smuggled \in BOOLEAN
    BY DEF Dossier
<1> QED
    BY <1>1, <1>2, <1>3, <1>4, <1>5, <1>6, <1>7

\* The lists of the evidence pack's review.
LEMMA PackLists ==
    ASSUME NEW d \in Dossier, NEW v, v = ValidateEvidencePack(d)
    PROVE  /\ v.required = RequiredEvidenceKeys(d) /\ v.missing = v.required \ d.evidence
           /\ v.review_outcome = FirstTier(v.blocking_failures, v.escalation_reasons, v.required_fixes)
           /\ v.blocking_failures # {} <=> BlockingEvidence(d) \ d.evidence # {} \/ d.smuggled
           /\ v.blocking_failures \subseteq (BlockingEvidence(d) \ d.evidence) \cup {"smuggled"}
           /\ v.escalation_reasons # {} <=> d.risk = HighLevel /\ "escalation" \notin d.evidence
           /\ v.escalation_reasons \subseteq {"escalation"}
           /\ v.required_fixes = FixableEvidence(d) \ d.evidence
<1>1. d.smuggled \in BOOLEAN
    BY DEF Dossier
<1> QED
    BY <1>1 DEF ValidateEvidencePack

\* A list that decides earlier makes an outcome no kinder.
LEMMA TiersAreOrdered ==
    ASSUME NEW f1, NEW e1, NEW x1, NEW f2, NEW e2, NEW x2,
           f1 # {} => f2 # {},
           e1 # {} => e2 # {} \/ f2 # {},
           x1 # {} => x2 # {} \/ e2 # {} \/ f2 # {}
    PROVE  Rank[FirstTier(f1, e1, x1)] <= Rank[FirstTier(f2, e2, x2)]
<1>1. /\ f1 # {} => FirstTier(f1, e1, x1) = "FAIL"
      /\ f1 = {} /\ e1 # {} => FirstTier(f1, e1, x1) = "ESCALATE"
      /\ f1 = {} /\ e1 = {} /\ x1 # {} => FirstTier(f1, e1, x1) = "FIX"
      /\ f1 = {} /\ e1 = {} /\ x1 = {} => FirstTier(f1, e1, x1) = "PASS"
    BY Zenon DEF FirstTier
<1>2. /\ f2 # {} => FirstTier(f2, e2, x2) = "FAIL"
      /\ f2 = {} /\ e2 # {} => FirstTier(f2, e2, x2) = "ESCALATE"
      /\ f2 = {} /\ e2 = {} /\ x2 # {} => FirstTier(f2, e2, x2) = "FIX"
      /\ f2 = {} /\ e2 = {} /\ x2 = {} => FirstTier(f2, e2, x2) = "PASS"
    BY Zenon DEF FirstTier
<1>3. Rank["PASS"] = 0 /\ Rank["FIX"] = 1 /\ Rank["ESCALATE"] = 2 /\ Rank["FAIL"] = 3
    BY DEF Rank
<1> HIDE DEF Rank
<1> QED
    BY <1>1, <1>2, <1>3

\* A review passes only when its three lists are empty.
LEMMA PassIsClean ==
    ASSUME NEW f, NEW e, NEW x
    PROVE  /\ FirstTier(f, e, x) \in Outcomes
           /\ FirstTier(f, e, x) = "PASS" => f = {} /\ e = {} /\ x = {}
<1>1. /\ f # {} => FirstTier(f, e, x) = "FAIL"
      /\ f = {} /\ e # {} => FirstTier(f, e, x) = "ESCALATE"
      /\ f = {} /\ e = {} /\ x # {} => FirstTier(f, e, x) = "FIX"
      /\ f = {} /\ e = {} /\ x = {} => FirstTier(f, e, x) = "PASS"
    BY Zenon DEF FirstTier
<1> QED
    BY <1>1 DEF Outcomes

\* The questions the derivations ask are monotone in the powers.
LEMMA QuestionsAreMonotone ==
    ASSUME NEW d \in Dossier, NEW e \in Dossier, Stronger(d, e)
    PROVE  /\ Acts(d) => Acts(e)
           /\ External(d) => External(e)
           /\ Moves(d) => Moves(e)
           /\ Intended(d) => Intended(e)
           /\ "production_intended" \in d.intents => "production_intended" \in e.intents
           /\ \A n \in 1..4 : d.autonomy >= n => e.autonomy >= n
           /\ d.autonomy = Autonomous => e.autonomy = Autonomous
           /\ d.sensitivity > 1 => e.sensitivity > 1
           /\ d.risk > 1 => e.risk > 1
           /\ d.sensitivity = HighLevel => e.sensitivity = HighLevel
           /\ d.risk = HighLevel => e.risk = HighLevel
           /\ HasForbiddenToolOverlap(d) => HasForbiddenToolOverlap(e)
<1>1. /\ d.autonomy \in 1..4 /\ d.sensitivity \in 1..3 /\ d.risk \in 1..3
      /\ e.autonomy \in 1..4 /\ e.sensitivity \in 1..3 /\ e.risk \in 1..3
    BY LevelsAreNumbers
<1>2. /\ d.autonomy <= e.autonomy /\ d.sensitivity <= e.sensitivity /\ d.risk <= e.risk
      /\ d.intents \subseteq e.intents /\ d.forbidden_tools = e.forbidden_tools
    BY DEF Stronger
<1>3. /\ d.grants["write_tools"] \subseteq e.grants["write_tools"]
      /\ d.grants["external_systems"] \subseteq e.grants["external_systems"]
      /\ d.grants["allowed_tools"] \subseteq e.grants["allowed_tools"]
      /\ d.grants["read_only_tools"] \subseteq e.grants["read_only_tools"]
    BY DEF Stronger, GrantKinds
<1>4. (Acts(d) => Acts(e)) /\ (External(d) => External(e))
    BY <1>3 DEF Acts, Writes, External
<1>5. (Moves(d) => Moves(e)) /\ (Intended(d) => Intended(e))
    BY <1>2 DEF Moves, Intended
<1>6. HasForbiddenToolOverlap(d) => HasForbiddenToolOverlap(e)
    BY <1>2, <1>3 DEF HasForbiddenToolOverlap
<1> QED
    BY <1>1, <1>2, <1>4, <1>5, <1>6 DEF Autonomous, HighLevel

\* So is what is called for, and which missing evidence blocks.
LEMMA RequirementsAreMonotone ==
    ASSUME NEW d \in Dossier, NEW e \in Dossier, Stronger(d, e)
    PROVE  /\ DerivedControls(d) \subseteq DerivedControls(e)
           /\ BlockingEvidence(d) \subseteq BlockingEvidence(e)
           /\ FixableEvidence(d) \subseteq FixableEvidence(e) \cup BlockingEvidence(e)
<1>1. /\ Acts(d) => Acts(e)
      /\ External(d) => External(e)
      /\ Moves(d) => Moves(e)
      /\ Intended(d) => Intended(e)
      /\ "production_intended" \in d.intents => "production_intended" \in e.intents
      /\ d.autonomy = Autonomous => e.autonomy = Autonomous
      /\ d.sensitivity > 1 => e.sensitivity > 1
      /\ d.risk > 1 => e.risk > 1
      /\ d.sensitivity = HighLevel => e.sensitivity = HighLevel
      /\ d.risk = HighLevel => e.risk = HighLevel
    BY QuestionsAreMonotone
<1>2. d.autonomy >= Supervised => e.autonomy >= Supervised
    BY QuestionsAreMonotone DEF Supervised
<1>3. d.autonomy >= Assisted => e.autonomy >= Assisted
    BY QuestionsAreMonotone DEF Assisted
<1>4. AuthorityControl(d) => AuthorityControl(e)
    BY <1>1, <1>2 DEF AuthorityControl
<1>5. DerivedControls(d) \subseteq DerivedControls(e)
  <2> USE DEF Controls
  <2>1. ASSUME NEW c \in DerivedControls(d) PROVE c \in DerivedControls(e)
    <3>1. c \in Controls
        BY ControlsDerived
    <3> QED
        BY <1>1, <1>2, <1>3, <1>4, <2>1, <3>1, ControlsDerived
  <2> QED
      BY <2>1
<1>6. EvalBlocks(d) => EvalBlocks(e)
    BY <1>1 DEF EvalBlocks
<1>7. d.stages = e.stages
    BY DEF Stronger
<1>8. BlockingEvidence(d) \subseteq BlockingEvidence(e)
    BY <1>1, <1>2, <1>6, <1>7 DEF BlockingEvidence
<1>9. FixableEvidence(d) \subseteq FixableEvidence(e) \cup BlockingEvidence(e)
    BY <1>1, <1>7 DEF FixableEvidence
<1> QED
    BY <1>5, <1>8, <1>9

\* More power, and the same declarations and evidence: neither review is kinder.
LEMMA PowerIsHarsher ==
    ASSUME NEW d \in Dossier, NEW e \in Dossier, Stronger(d, e)
    PROVE  /\ Rank[ValidateAgentPermissions(d).review_outcome]
                <= Rank[ValidateAgentPermissions(e).review_outcome]
           /\ Rank[ValidateEvidencePack(d).review_outcome]
                <= Rank[ValidateEvidencePack(e).review_outcome]
<1> DEFINE P(r) == ValidateAgentPermissions(r)
           E(r) == ValidateEvidencePack(r)
           M(r) == DerivedControls(r) \ r.controls
<1>1. e.controls = d.controls /\ e.evidence = d.evidence /\ e.smuggled = d.smuggled
    BY DEF Stronger
<1>2. /\ d.sensitivity = HighLevel => e.sensitivity = HighLevel
      /\ d.risk = HighLevel => e.risk = HighLevel
      /\ HasForbiddenToolOverlap(d) => HasForbiddenToolOverlap(e)
    BY QuestionsAreMonotone
<1>3. /\ M(d) \subseteq M(e)
      /\ BlockingEvidence(d) \subseteq BlockingEvidence(e)
      /\ FixableEvidence(d) \subseteq FixableEvidence(e) \cup BlockingEvidence(e)
    BY <1>1, RequirementsAreMonotone
<1>4. /\ P(d).blocking_failures # {} => P(e).blocking_failures # {}
      /\ P(d).escalation_reasons # {} => P(e).escalation_reasons # {}
      /\ P(d).required_fixes # {} => P(e).required_fixes # {} \/ P(e).blocking_failures # {}
  <2>1. ASSUME NEW r \in Dossier
       PROVE  /\ P(r).blocking_failures # {} <=>
                    \/ M(r) \ {"evidence", "escalation"} # {}
                    \/ r.sensitivity = HighLevel /\ "evidence" \in M(r)
                    \/ r.smuggled
                    \/ HasForbiddenToolOverlap(r)
              /\ P(r).escalation_reasons # {} <=> r.risk = HighLevel /\ "escalation" \notin r.controls
              /\ P(r).required_fixes # {} <=> r.sensitivity # HighLevel /\ "evidence" \in M(r)
      BY PermissionLists
  <2> HIDE DEF P, M
  <2> QED
      BY <1>1, <1>2, <1>3, <2>1
<1>5. /\ E(d).blocking_failures # {} => E(e).blocking_failures # {}
      /\ E(d).escalation_reasons # {} => E(e).escalation_reasons # {}
      /\ E(d).required_fixes # {} => E(e).required_fixes # {} \/ E(e).blocking_failures # {}
    BY <1>1, <1>2, <1>3, PackLists
<1>6. /\ P(d).review_outcome = FirstTier(P(d).blocking_failures, P(d).escalation_reasons, P(d).required_fixes)
      /\ P(e).review_outcome = FirstTier(P(e).blocking_failures, P(e).escalation_reasons, P(e).required_fixes)
    BY PermissionLists
<1>7. /\ E(d).review_outcome = FirstTier(E(d).blocking_failures, E(d).escalation_reasons, E(d).required_fixes)
      /\ E(e).review_outcome = FirstTier(E(e).blocking_failures, E(e).escalation_reasons, E(e).required_fixes)
    BY PackLists
<1> HIDE DEF P, E
<1>8. Rank[P(d).review_outcome] <= Rank[P(e).review_outcome]
    BY <1>4, <1>6, TiersAreOrdered
<1>9. Rank[E(d).review_outcome] <= Rank[E(e).review_outcome]
    BY <1>5, <1>7, TiersAreOrdered
<1> QED
    BY <1>8, <1>9 DEF P, E

\* The same powers, and more controls or evidence: neither review is harsher.
LEMMA CompletionIsKinder ==
    ASSUME NEW d \in Dossier, NEW e \in Dossier, Completed(d, e)
    PROVE  /\ Rank[ValidateAgentPermissions(e).review_outcome]
                <= Rank[ValidateAgentPermissions(d).review_outcome]
           /\ Rank[ValidateEvidencePack(e).review_outcome]
                <= Rank[ValidateEvidencePack(d).review_outcome]
<1> DEFINE P(r) == ValidateAgentPermissions(r)
           E(r) == ValidateEvidencePack(r)
           M(r) == DerivedControls(r) \ r.controls
<1>1. /\ d.controls \subseteq e.controls /\ d.evidence \subseteq e.evidence
      /\ e.grants = d.grants /\ e.intents = d.intents /\ e.autonomy = d.autonomy
      /\ e.sensitivity = d.sensitivity /\ e.risk = d.risk
      /\ e.forbidden_tools = d.forbidden_tools /\ e.stages = d.stages /\ e.smuggled = d.smuggled
    BY DEF Completed
<1>2. /\ Acts(e) = Acts(d) /\ External(e) = External(d) /\ Moves(e) = Moves(d)
      /\ Intended(e) = Intended(d) /\ HasForbiddenToolOverlap(e) = HasForbiddenToolOverlap(d)
    BY <1>1 DEF Acts, Writes, External, Moves, Intended, HasForbiddenToolOverlap
<1>3. DerivedControls(e) = DerivedControls(d)
  <2>1. AuthorityControl(e) = AuthorityControl(d)
      BY <1>1, <1>2 DEF AuthorityControl
  <2>2. \A c \in Controls : c \in DerivedControls(e) <=> c \in DerivedControls(d)
      BY <1>1, <1>2, <2>1, ControlsDerived DEF Controls
  <2> QED
      BY <2>2, ControlsDerived
<1>4. BlockingEvidence(e) = BlockingEvidence(d) /\ FixableEvidence(e) = FixableEvidence(d)
    BY <1>1, <1>2 DEF BlockingEvidence, FixableEvidence, EvalBlocks
<1>5. /\ P(e).blocking_failures # {} => P(d).blocking_failures # {}
      /\ P(e).escalation_reasons # {} => P(d).escalation_reasons # {}
      /\ P(e).required_fixes # {} => P(d).required_fixes # {}
  <2>1. M(e) \subseteq M(d)
      BY <1>1, <1>3
  <2>2. ASSUME NEW r \in Dossier
       PROVE  /\ P(r).blocking_failures # {} <=>
                    \/ M(r) \ {"evidence", "escalation"} # {}
                    \/ r.sensitivity = HighLevel /\ "evidence" \in M(r)
                    \/ r.smuggled
                    \/ HasForbiddenToolOverlap(r)
              /\ P(r).escalation_reasons # {} <=> r.risk = HighLevel /\ "escalation" \notin r.controls
              /\ P(r).required_fixes # {} <=> r.sensitivity # HighLevel /\ "evidence" \in M(r)
      BY PermissionLists
  <2> HIDE DEF P, M
  <2> QED
      BY <1>1, <1>2, <2>1, <2>2
<1>6. /\ E(e).blocking_failures # {} => E(d).blocking_failures # {}
      /\ E(e).escalation_reasons # {} => E(d).escalation_reasons # {}
      /\ E(e).required_fixes # {} => E(d).required_fixes # {}
    BY <1>1, <1>4, PackLists
<1>7. /\ P(d).review_outcome = FirstTier(P(d).blocking_failures, P(d).escalation_reasons, P(d).required_fixes)
      /\ P(e).review_outcome = FirstTier(P(e).blocking_failures, P(e).escalation_reasons, P(e).required_fixes)
    BY PermissionLists
<1>8. /\ E(d).review_outcome = FirstTier(E(d).blocking_failures, E(d).escalation_reasons, E(d).required_fixes)
      /\ E(e).review_outcome = FirstTier(E(e).blocking_failures, E(e).escalation_reasons, E(e).required_fixes)
    BY PackLists
<1> HIDE DEF P, E
<1>9. Rank[P(e).review_outcome] <= Rank[P(d).review_outcome]
    BY <1>5, <1>7, TiersAreOrdered
<1>10. Rank[E(e).review_outcome] <= Rank[E(d).review_outcome]
    BY <1>6, <1>8, TiersAreOrdered
<1> QED
    BY <1>9, <1>10 DEF P, E
-----------------------------------------------------------------------------
(* The invariant and the properties. *)

\* Whatever is submitted is a dossier, and the reviews shown are the ones of it.
THEOREM DossierInvariant == Spec => []DossierInv
<1>1. Init => DossierInv
    BY DossiersAssumption DEF Init, DossierInv
<1>2. DossierInv /\ [Next]_vars => DossierInv'
  <2>1. DossierInv /\ Next => DossierInv'
      BY StepSubmits DEF DossierInv
  <2>2. DossierInv /\ UNCHANGED vars => DossierInv'
      BY DEF DossierInv, vars
  <2> QED
      BY <2>1, <2>2
<1> QED
    BY <1>1, <1>2, PTL DEF Spec

\* Types: a review's outcome is one of the four, and it requires controls and
\* evidence that exist.
THEOREM DossierTypes == Spec => []TypeOK
<1>1. DossierInv => TypeOK
  <2> SUFFICES ASSUME DossierInv PROVE TypeOK
      OBVIOUS
  <2>1. dossier \in Dossier /\ dossier.stages \subseteq Stages /\ dossier.controls \subseteq Controls
      BY DEF DossierInv, Dossier
  <2>2. permission.review_outcome \in Outcomes
    <3> DEFINE v == permission
    <3>1. v.review_outcome = FirstTier(v.blocking_failures, v.escalation_reasons, v.required_fixes)
        BY <2>1, PermissionLists DEF DossierInv
    <3> QED
        BY <3>1, PassIsClean
  <2>3. pack.review_outcome \in Outcomes /\ pack.required \subseteq EvidenceKeys
      BY <2>1, PackLists, PassIsClean, NothingElseRequired DEF DossierInv
  <2>4. permission.required = RequiredControls(dossier)
      BY DEF DossierInv, ValidateAgentPermissions
  <2>5. permission.required \subseteq Controls
      BY <2>1, <2>4, ControlsDerived DEF RequiredControls
  <2> QED
      BY <2>1, <2>2, <2>3, <2>5 DEF TypeOK
<1> QED
    BY <1>1, DossierInvariant, PTL

\* The two derivations agree on what both decide, and the pack's review complains of
\* no evidence that the pack does not require.
THEOREM TwoDerivationsAgree == Spec => []DerivationsAgree
<1>1. DossierInv => DerivationsAgree
  <2> SUFFICES ASSUME DossierInv PROVE DerivationsAgree
      OBVIOUS
  <2> DEFINE d == dossier
             K == RequiredEvidenceKeys(d)
  <2>1. d \in Dossier /\ d.stages \subseteq Stages
      BY DEF DossierInv, Dossier
  <2>2. pack = ValidateEvidencePack(d)
      BY DEF DossierInv
  <2>3. pack.required = K /\ pack.missing = K \ d.evidence
      BY <2>1, <2>2, PackLists
  <2> HIDE DEF d
  <2>4. /\ "authority" \in K <=> AuthorityControl(d)
        /\ "audit" \in K <=> Acts(d) \/ Moves(d) \/ d.autonomy >= Supervised
        /\ "policy_boundary" \in K <=> d.autonomy >= Assisted \/ Acts(d) \/ Moves(d)
        /\ "approval" \in K <=>
                Acts(d) \/ d.autonomy = Autonomous \/ "production_intended" \in d.intents
        /\ "escalation" \in K <=>
                HighLevel \in {d.risk, d.sensitivity} \/ (External(d) /\ d.autonomy = Autonomous)
        /\ "owner" \in K
      BY <2>1, EvidenceRequired, NothingElseRequired DEF AuthorityControl
  <2>5. BlockingEvidence(d) \subseteq K
    <3>1. d.autonomy \in 1..4 /\ d.sensitivity \in 1..3 /\ d.risk \in 1..3
        BY <2>1, LevelsAreNumbers
    <3>2. /\ Acts(d) => {"authority", "approval", "tool_permission"} \subseteq K
          /\ Moves(d) => "audit" \in K
          /\ Acts(d) \/ Moves(d) \/ d.autonomy >= Supervised => "policy_boundary" \in K
          /\ d.sensitivity = HighLevel => "data_sensitivity" \in K
          /\ "production_intended" \in d.intents => "business_justification" \in K
          /\ d.stages \subseteq K
        BY <2>4, <3>1, EvidenceRequired DEF AuthorityControl, Intended, Supervised, Assisted, HighLevel
    <3> HIDE DEF K
    <3> QED
        BY <2>4, <3>2 DEF BlockingEvidence
  <2>6. FixableEvidence(d) \subseteq K
    <3>1. (Intended(d) => "business_justification" \in K) /\ d.stages \subseteq K
        BY EvidenceRequired
    <3> HIDE DEF K
    <3> QED
        BY <3>1 DEF FixableEvidence
  <2>7. /\ pack.blocking_failures \subseteq (BlockingEvidence(d) \ d.evidence) \cup {"smuggled"}
        /\ pack.escalation_reasons \subseteq {"escalation"}
        /\ pack.escalation_reasons # {} => d.risk = HighLevel /\ "escalation" \notin d.evidence
        /\ pack.required_fixes = FixableEvidence(d) \ d.evidence
      BY <2>1, <2>2, PackLists
  <2>8. pack.blocking_failures \cup pack.escalation_reasons \cup pack.required_fixes
            \subseteq pack.missing \cup {"smuggled"}
    <3> HIDE DEF K
    <3> QED
        BY <2>3, <2>4, <2>5, <2>6, <2>7
  <2>9. /\ "owner" \in DerivedControls(d)
        /\ "authority" \in DerivedControls(d) <=> "authority" \in K
        /\ "audit" \in DerivedControls(d) <=> "audit" \in K
        /\ "approval" \in DerivedControls(d) <=> "approval" \in K
        /\ "escalation" \in DerivedControls(d) <=> "escalation" \in K
        /\ "policy" \in DerivedControls(d) <=> "policy_boundary" \in K
    <3> HIDE DEF K
    <3> QED
        BY <2>4, ControlsDerived
  <2> HIDE DEF K
  <2> QED
      BY <2>3, <2>4, <2>8, <2>9 DEF DerivationsAgree, d
<1> QED
    BY <1>1, DossierInvariant, PTL

\* A review that passes has found nothing missing that it enforces.
LEMMA PassingPermission ==
    ASSUME NEW d \in Dossier, ValidateAgentPermissions(d).review_outcome = "PASS"
    PROVE  /\ DerivedControls(d) \ {"escalation"} \subseteq d.controls
           /\ d.risk = HighLevel => "escalation" \in d.controls
           /\ ~HasForbiddenToolOverlap(d)
<1> DEFINE v == ValidateAgentPermissions(d)
           M == DerivedControls(d) \ d.controls
<1>1. v.blocking_failures = {} /\ v.escalation_reasons = {} /\ v.required_fixes = {}
  <2>1. v.review_outcome = FirstTier(v.blocking_failures, v.escalation_reasons, v.required_fixes)
      BY PermissionLists
  <2> QED
      BY <2>1, PassIsClean
<1>2. /\ v.blocking_failures # {} <=>
            \/ M \ {"evidence", "escalation"} # {}
            \/ d.sensitivity = HighLevel /\ "evidence" \in M
            \/ d.smuggled
            \/ HasForbiddenToolOverlap(d)
      /\ v.escalation_reasons # {} <=> d.risk = HighLevel /\ "escalation" \notin d.controls
      /\ v.required_fixes # {} <=> d.sensitivity # HighLevel /\ "evidence" \in M
    BY PermissionLists
<1> HIDE DEF v
<1> QED
    BY <1>1, <1>2

LEMMA PassingPack ==
    ASSUME NEW d \in Dossier, ValidateEvidencePack(d).review_outcome = "PASS"
    PROVE  BlockingEvidence(d) \cup FixableEvidence(d) \subseteq d.evidence
<1> DEFINE v == ValidateEvidencePack(d)
<1>1. v.blocking_failures = {} /\ v.required_fixes = {}
    BY PackLists, PassIsClean
<1>2. /\ v.blocking_failures # {} <=> BlockingEvidence(d) \ d.evidence # {} \/ d.smuggled
      /\ v.required_fixes = FixableEvidence(d) \ d.evidence
    BY PackLists
<1> HIDE DEF v
<1> QED
    BY <1>1, <1>2

\* An agent both reviews pass and that writes or reaches an external system is
\* covered on both sides.
THEOREM ActingAgentsCovered == Spec => []ActingAgentsAreCovered
<1>1. DossierInv => ActingAgentsAreCovered
  <2> SUFFICES ASSUME DossierInv, Acts(dossier), permission.review_outcome = "PASS",
                      pack.review_outcome = "PASS"
               PROVE  ActingAgentsAreCovered!2
      BY DEF ActingAgentsAreCovered
  <2>1. dossier \in Dossier
      BY DEF DossierInv
  <2>2. /\ DerivedControls(dossier) \ {"escalation"} \subseteq dossier.controls
        /\ ~HasForbiddenToolOverlap(dossier)
      BY <2>1, PassingPermission DEF DossierInv
  <2>3. BlockingEvidence(dossier) \subseteq dossier.evidence
      BY <2>1, PassingPack DEF DossierInv
  <2>4. {"owner", "authority", "approval", "audit", "policy"} \subseteq dossier.controls
      BY <2>2, ControlsDerived DEF AuthorityControl
  <2>5. {"owner", "authority", "approval", "tool_permission", "policy_boundary"}
            \subseteq dossier.evidence
      BY <2>3 DEF BlockingEvidence
  <2>6. \A k \in GrantKinds \ {"external_systems"} :
            dossier.grants[k] \cap dossier.forbidden_tools = {}
      BY <2>2 DEF HasForbiddenToolOverlap, GrantKinds
  <2> QED
      BY <2>4, <2>5, <2>6
<1> QED
    BY <1>1, DossierInvariant, PTL

\* How far the enforcement of the schema's requirements reaches: of what is required
\* only an escalation may be missing from a dossier that passes, and not at high risk.
EscalationAloneEscapes ==
    permission.review_outcome = "PASS" =>
        /\ permission.required \ {"escalation"} \subseteq dossier.controls
        /\ dossier.risk = HighLevel => permission.required \subseteq dossier.controls

\* A passing dossier lacks no required control but, below high risk, an escalation:
\* the exact reach of what the validator leaves out.
THEOREM OnlyEscalationEscapes == Spec => []EscalationAloneEscapes
<1>1. DossierInv => EscalationAloneEscapes
  <2> SUFFICES ASSUME DossierInv, permission.review_outcome = "PASS" PROVE EscalationAloneEscapes
      BY DEF EscalationAloneEscapes
  <2>1. dossier \in Dossier /\ permission = ValidateAgentPermissions(dossier)
      BY DEF DossierInv
  <2>2. /\ DerivedControls(dossier) \ {"escalation"} \subseteq dossier.controls
        /\ dossier.risk = HighLevel => "escalation" \in dossier.controls
      BY <2>1, PassingPermission
  <2>3. permission.required = RequiredControls(dossier)
      BY <2>1 DEF ValidateAgentPermissions
  <2> QED
      BY <2>2, <2>3 DEF EscalationAloneEscapes, RequiredControls
<1> QED
    BY <1>1, DossierInvariant, PTL

\* Over any sequence of resubmissions, more power never makes a review kinder, and a
\* control or evidence that is added never makes it harsher.
THEOREM ReviewsMoveWithTheDossier == Spec => ReviewsAreMonotone
<1> DEFINE harsher == /\ Rank[permission'.review_outcome] >= Rank[permission.review_outcome]
                      /\ Rank[pack'.review_outcome] >= Rank[pack.review_outcome]
           kinder == /\ Rank[permission'.review_outcome] <= Rank[permission.review_outcome]
                     /\ Rank[pack'.review_outcome] <= Rank[pack.review_outcome]
           same == <<dossier'.controls, dossier'.evidence>> = <<dossier.controls, dossier.evidence>>
           Step == IF same THEN harsher ELSE kinder
<1>1. DossierInv /\ Next => Step
  <2> SUFFICES ASSUME DossierInv, Next PROVE Step
      OBVIOUS
  <2>1. dossier \in Dossier /\ dossier' \in Dossier
      BY StepSubmits DEF DossierInv
  <2>2. /\ permission = ValidateAgentPermissions(dossier) /\ pack = ValidateEvidencePack(dossier)
        /\ permission' = ValidateAgentPermissions(dossier') /\ pack' = ValidateEvidencePack(dossier')
        /\ Stronger(dossier, dossier') \/ Completed(dossier, dossier')
      BY StepSubmits DEF DossierInv
  <2>3. CASE Stronger(dossier, dossier')
    <3>1. same
        BY <2>3 DEF Stronger
    <3>2. harsher
        BY <2>1, <2>2, <2>3, PowerIsHarsher
    <3> QED
        BY <3>1, <3>2
  <2>4. CASE Completed(dossier, dossier')
    <3>1. ~same
        BY <2>4 DEF Completed
    <3>2. kinder
        BY <2>1, <2>2, <2>4, CompletionIsKinder
    <3> QED
        BY <3>1, <3>2
  <2> QED
      BY <2>2, <2>3, <2>4
<1>2. DossierInv /\ [Next]_vars => [Step]_vars
    BY <1>1
<1> QED
    BY <1>2, DossierInvariant, PTL DEF Spec, ReviewsAreMonotone
=============================================================================
