----------------------------- MODULE PluginRuns -----------------------------
(***************************************************************************)
(* The governed execution boundary of the plugins and what is prepared     *)
(* from its runs: runSkill (lib/plugins/execution-boundary.ts), with       *)
(* composeContext and the one implemented skill handler, and               *)
(* preparePromotionRequestFromRun (lib/plugins/promotion-request-          *)
(* composer.ts), for one organization and one plugin.                      *)
(*                                                                         *)
(* A run is the row of its correlation id, under which it is unique.       *)
(* pc[t] names the awaited call the post of tab t makes next; meanwhile    *)
(* others install or disable the plugin and edit the domain profile.       *)
(***************************************************************************)
EXTENDS Integers, FiniteSets

CONSTANTS
    Tabs,              \* browser tabs or API clients, each with one post in flight
    Correlations,      \* correlation ids, each naming at most one run
    Skills,            \* the plugin's skills
    Implemented,       \* skills whose execution_status is "implemented"
    Handled,           \* skills registered in SKILL_HANDLERS
    ConnectorsGranted, \* skills all of whose connectors the plugin may use
    ProfileNeeded      \* skills with required_profile_fields

ASSUME SkillsAssumption ==
    /\ Correlations # {}
    /\ Skills # {}
    /\ \A S \in {Implemented, Handled, ConnectorsGranted, ProfileNeeded} : S \subseteq Skills

VARIABLES
    pc,            \* the next awaited call of the post in each tab
    post,          \* what is posted; late is history
    local,         \* the post's local variables
    answer,        \* what is returned to the tab
    installation,  \* state of the plugin_installations row, "none" without one
    profile,       \* what the domain_profiles row holds of the required fields
    snapshots,     \* table plugin_run_contexts, by content
    runs,          \* table plugin_runs, by correlation id
    useCases,      \* how many use_cases rows the runs of a correlation id inserted
    evidence,      \* how many plugin_evidence_outputs rows a run has
    requests,      \* table promotion_requests, by content
    audit          \* the rows of plugin_audit_events

vars == <<pc, post, local, answer, installation, profile, snapshots, runs,
          useCases, evidence, requests, audit>>
posts == <<pc, post, local, answer>>
settings == <<installation, profile>>
rows == <<snapshots, runs, useCases, evidence, requests>>

-----------------------------------------------------------------------------
(* Values.                                                                 *)

Pcs == {"idle", "findRun", "readInstallation", "readProfile", "insertSnapshot",
        "auditComposed", "insertRun", "auditStarted", "handle", "rejectRun",
        "auditRejected", "insertEvidence", "auditEvidence", "completeRun",
        "auditCompleted", "readRun", "listEvidence", "insertRequest",
        "auditRequest", "done"}

\* An input may carry a prohibited field, or miss or carry what the handler rejects.
Inputs == {"valid", "unacceptable", "prohibited"}

Post == [skill : Skills, run : Correlations, input : Inputs, admin : BOOLEAN,
         late : BOOLEAN]

Reasons == {"none", "connector_not_permitted", "skill_not_implemented",
            "no_handler_registered", "missing_required_profile_fields",
            "unacceptable_input"}

Local == [missing  : BOOLEAN,   \* missingRequiredProfileFieldsForSkill is not empty
          reason   : Reasons,   \* why the run is about to be rejected
          evidence : Nat]       \* how many evidence ids the request will cite

\* The part of a composed context that decides a run.
Context == [skill : Skills, missing : BOOLEAN]

\* "none" stands for a run that was never inserted.
Run == [status : {"none", "submitted", "completed", "rejected"},
        skill  : Skills,
        context : Context,
        reason : Reasons]

Request == [run : Correlations, skill : Skills, context : Context,
            evidence : Nat, confirmed : BOOLEAN]

EventTypes == {"context.composed", "run.started", "run.rejected", "run.completed",
               "evidence.created", "promotion_request.created"}

AuditEvent == [type : EventTypes, run : Correlations]

\* A result, a boundary rejection (HTTP 403: "reused" when the correlation id
\* is of another skill's run), a prepared request, or no structured answer.
Answers == {"none", "completed", "rejected", "refused", "reused", "prepared",
            "threw", "aborted"}

NoLocals == [missing |-> FALSE, reason |-> "none", evidence |-> 0]

NoRun == LET s == CHOOSE s \in Skills : TRUE IN
    [status |-> "none", skill |-> s, context |-> [skill |-> s, missing |-> FALSE],
     reason |-> "none"]

TypeOK ==
    /\ pc \in [Tabs -> Pcs]
    /\ post \in [Tabs -> Post]
    /\ local \in [Tabs -> Local]
    /\ answer \in [Tabs -> Answers]
    /\ installation \in {"none", "installed", "disabled"}
    /\ profile \in {"none", "incomplete", "complete"}
    /\ snapshots \in SUBSET Context
    /\ runs \in [Correlations -> Run]
    /\ useCases \in [Correlations -> Nat]
    /\ evidence \in [Correlations -> Nat]
    /\ requests \subseteq Request
    /\ audit \in SUBSET AuditEvent

Init ==
    /\ pc = [t \in Tabs |-> "idle"]
    /\ post = [t \in Tabs |-> [skill |-> CHOOSE s \in Skills : TRUE,
                               run |-> CHOOSE c \in Correlations : TRUE,
                               input |-> "valid", admin |-> FALSE, late |-> FALSE]]
    /\ local = [t \in Tabs |-> NoLocals]
    /\ answer = [t \in Tabs |-> "none"]
    /\ installation = "none"
    /\ profile = "none"
    /\ snapshots = {}
    /\ runs = [c \in Correlations |-> NoRun]
    /\ useCases = [c \in Correlations |-> 0]
    /\ evidence = [c \in Correlations |-> 0]
    /\ requests = {}
    /\ audit = {}

-----------------------------------------------------------------------------
(* Helpers.                                                                *)

\* The row of (organization_id, correlation_id).
Exists(c) == runs[c].status # "none"

Record(type, c) == audit' = audit \cup {[type |-> type, run |-> c]}

Go(t, next) ==
    /\ pc' = [pc EXCEPT ![t] = next]
    /\ UNCHANGED <<post, answer>>

Return(t, a) ==
    /\ pc' = [pc EXCEPT ![t] = "done"]
    /\ answer' = [answer EXCEPT ![t] = a]
    /\ UNCHANGED post

\* Mutant: the reason is left to the default "rejected".
RejectUnexplained(t, reason) ==
    /\ local' = [local EXCEPT ![t].reason = "rejected"]
    /\ Go(t, "rejectRun")

Reject(t, reason) ==
    /\ local' = [local EXCEPT ![t].reason = reason]
    /\ Go(t, "rejectRun")

\* A step that appends one audit event and changes no other table.
Audit(t, type) ==
    /\ Record(type, post[t].run)
    /\ UNCHANGED <<local, settings, rows>>

\* A post that starts: late when its correlation id already has a run.
Arrive(t, first, s, c, input, admin) ==
    /\ pc[t] \in {"idle", "done"}
    /\ pc' = [pc EXCEPT ![t] = first]
    /\ post' = [post EXCEPT ![t] = [skill |-> s, run |-> c, input |-> input,
                                    admin |-> admin, late |-> Exists(c)]]
    /\ local' = [local EXCEPT ![t] = NoLocals]
    /\ answer' = [answer EXCEPT ![t] = "none"]
    /\ UNCHANGED <<settings, rows, audit>>

-----------------------------------------------------------------------------
(* runSkill: the correlation id is looked up, the context is composed.     *)

PostRun(t, s, c, input) == Arrive(t, "findRun", s, c, input, FALSE)

\* Mutant: the correlation id of another skill's run is not refused.
FindRunOfAnySkill(t) ==
    /\ pc[t] = "findRun"
    /\ LET run == runs[post[t].run] IN
       \/ post[t].input = "prohibited" /\ Return(t, "refused")
       \/ /\ post[t].input # "prohibited" /\ ~Exists(post[t].run)
          /\ Go(t, "readInstallation")
       \/ /\ post[t].input # "prohibited" /\ Exists(post[t].run)
          /\ Return(t, IF run.status = "completed" THEN "completed" ELSE "rejected")
    /\ UNCHANGED <<local, settings, rows, audit>>

\* Mutant: a run in progress is waited for.
FindRunWaits(t) ==
    /\ pc[t] = "findRun"
    /\ LET run == runs[post[t].run] IN
       \/ ~Exists(post[t].run) /\ Go(t, "readInstallation")
       \/ /\ run.status \in {"completed", "rejected"}
          /\ Return(t, run.status)
    /\ UNCHANGED <<local, settings, rows, audit>>

\* A known run is replayed; one still in progress is reported as rejected.
FindRun(t) ==
    /\ pc[t] = "findRun"
    /\ LET run == runs[post[t].run] IN
       \/ post[t].input = "prohibited" /\ Return(t, "refused")
       \/ /\ post[t].input # "prohibited" /\ ~Exists(post[t].run)
          /\ Go(t, "readInstallation")
       \/ /\ post[t].input # "prohibited" /\ Exists(post[t].run)
          /\ run.skill # post[t].skill
          /\ Return(t, "reused")
       \/ /\ post[t].input # "prohibited" /\ Exists(post[t].run)
          /\ run.skill = post[t].skill
          /\ Return(t, IF run.status = "completed" THEN "completed" ELSE "rejected")
    /\ UNCHANGED <<local, settings, rows, audit>>

\* The organization, plugin and skill checks are about rows no post writes, so
\* a refusal is always possible; the installation is read as it is.
ReadInstallation(t) ==
    /\ pc[t] = "readInstallation"
    /\ \/ installation = "installed" /\ Go(t, "readProfile")
       \/ Return(t, "refused")
    /\ UNCHANGED <<local, settings, rows, audit>>

ReadProfile(t) ==
    /\ pc[t] = "readProfile"
    /\ local' = [local EXCEPT ![t].missing =
                    post[t].skill \in ProfileNeeded /\ profile # "complete"]
    /\ Go(t, "insertSnapshot")
    /\ UNCHANGED <<settings, rows, audit>>

ContextOf(t) == [skill |-> post[t].skill, missing |-> local[t].missing]

InsertSnapshot(t) ==
    /\ pc[t] = "insertSnapshot"
    /\ snapshots' = snapshots \cup {ContextOf(t)}
    /\ Go(t, "auditComposed")
    /\ UNCHANGED <<local, settings, runs, useCases, evidence, requests, audit>>

\* The event names the snapshot, not a run: there is none yet.
AuditComposed(t) ==
    /\ pc[t] = "auditComposed"
    /\ Audit(t, "context.composed")
    /\ Go(t, "insertRun")

-----------------------------------------------------------------------------
(* runSkill: the run is inserted, executed, and completed or rejected.     *)

\* Mutant: the connectors are not looked at.
InsertRunUnconnected(t) ==
    /\ pc[t] = "insertRun"
    /\ LET c == post[t].run IN
       IF Exists(c)
       THEN Return(t, "threw") /\ UNCHANGED runs
       ELSE /\ runs' = [runs EXCEPT ![c] =
                  [status |-> "submitted", skill |-> post[t].skill,
                   context |-> ContextOf(t), reason |-> "none"]]
            /\ Go(t, "auditStarted")
    /\ UNCHANGED <<local, settings, snapshots, useCases, evidence, requests, audit>>

\* createRun: a duplicate correlation id is an exception nobody catches.  The
\* connectors are checked first, on the context; a run is inserted either way.
InsertRun(t) ==
    /\ pc[t] = "insertRun"
    /\ LET c == post[t].run IN
       IF Exists(c)
       THEN Return(t, "threw") /\ UNCHANGED <<local, runs>>
       ELSE /\ runs' = [runs EXCEPT ![c] =
                  [status |-> "submitted", skill |-> post[t].skill,
                   context |-> ContextOf(t), reason |-> "none"]]
            /\ IF post[t].skill \in ConnectorsGranted
               THEN Go(t, "auditStarted") /\ UNCHANGED local
               ELSE Reject(t, "connector_not_permitted")
    /\ UNCHANGED <<settings, snapshots, useCases, evidence, requests, audit>>

\* The skill's execution status is then looked at without another call.
AuditStarted(t) ==
    /\ pc[t] = "auditStarted"
    /\ Record("run.started", post[t].run)
    /\ IF post[t].skill \in Implemented
       THEN Go(t, "handle") /\ UNCHANGED local
       ELSE Reject(t, "skill_not_implemented")
    /\ UNCHANGED <<settings, rows>>

CreateUseCase(t) ==
    /\ useCases' = [useCases EXCEPT ![post[t].run] = @ + 1]
    /\ Go(t, "insertEvidence")
    /\ UNCHANGED local

\* Mutant: the use case is created before the context is looked at.
HandleCreatesFirst(t) ==
    /\ pc[t] = "handle"
    /\ useCases' = [useCases EXCEPT ![post[t].run] = @ + 1]
    /\ IF local[t].missing
       THEN Reject(t, "missing_required_profile_fields")
       ELSE Go(t, "insertEvidence") /\ UNCHANGED local
    /\ UNCHANGED <<settings, snapshots, runs, evidence, requests, audit>>

\* runAiInventoryIntake: it rejects before it writes.
Handle(t) ==
    /\ pc[t] = "handle"
    /\ \/ /\ post[t].skill \notin Handled
          /\ Reject(t, "no_handler_registered") /\ UNCHANGED useCases
       \/ /\ post[t].skill \in Handled /\ post[t].input # "valid"
          /\ Reject(t, "unacceptable_input") /\ UNCHANGED useCases
       \/ /\ post[t].skill \in Handled /\ local[t].missing
          /\ Reject(t, "missing_required_profile_fields") /\ UNCHANGED useCases
       \/ /\ post[t].skill \in Handled /\ post[t].input = "valid" /\ ~local[t].missing
          /\ CreateUseCase(t)
    /\ UNCHANGED <<settings, snapshots, runs, evidence, requests, audit>>

\* completeRun and rejectRun: the trigger guard_plugin_run_update refuses to
\* change a run that has ended.
End(t, status, reason, next) ==
    LET c == post[t].run IN
    /\ IF runs[c].status = "submitted"
       THEN /\ runs' = [runs EXCEPT ![c].status = status, ![c].reason = reason]
            /\ Go(t, next)
       ELSE Return(t, "threw") /\ UNCHANGED runs
    /\ UNCHANGED <<local, settings, snapshots, useCases, evidence, requests, audit>>

RejectRun(t) ==
    /\ pc[t] = "rejectRun"
    /\ End(t, "rejected", local[t].reason, "auditRejected")

AuditRejected(t) ==
    /\ pc[t] = "auditRejected"
    /\ Audit(t, "run.rejected")
    /\ Return(t, "rejected")

\* Mutant: the run is completed before the audit trail names its evidence.
InsertEvidenceUnaudited(t) ==
    /\ pc[t] = "insertEvidence"
    /\ evidence' = [evidence EXCEPT ![post[t].run] = @ + 1]
    /\ Go(t, "completeRun")
    /\ UNCHANGED <<local, settings, snapshots, runs, useCases, requests, audit>>

\* The handler yields one piece of evidence.
InsertEvidence(t) ==
    /\ pc[t] = "insertEvidence"
    /\ evidence' = [evidence EXCEPT ![post[t].run] = @ + 1]
    /\ Go(t, "auditEvidence")
    /\ UNCHANGED <<local, settings, snapshots, runs, useCases, requests, audit>>

AuditEvidence(t) ==
    /\ pc[t] = "auditEvidence"
    /\ Audit(t, "evidence.created")
    /\ Go(t, "completeRun")

CompleteRun(t) ==
    /\ pc[t] = "completeRun"
    /\ End(t, "completed", "none", "auditCompleted")

AuditCompleted(t) ==
    /\ pc[t] = "auditCompleted"
    /\ Audit(t, "run.completed")
    /\ Return(t, "completed")

-----------------------------------------------------------------------------
(* preparePromotionRequestFromRun.                                         *)

\* The tab posts the id of a run; late plays no part in it.
PostRequest(t, c, admin) == Arrive(t, "readRun", runs[c].skill, c, "valid", admin)

\* Mutant: the run's status is not looked at.
ReadRunOfAnyStatus(t) ==
    /\ pc[t] = "readRun"
    /\ IF Exists(post[t].run) THEN Go(t, "listEvidence") ELSE Return(t, "refused")
    /\ UNCHANGED <<local, settings, rows, audit>>

\* A completed run's output always holds a decision candidate.
ReadRun(t) ==
    /\ pc[t] = "readRun"
    /\ IF runs[post[t].run].status = "completed"
       THEN Go(t, "listEvidence")
       ELSE Return(t, "refused")
    /\ UNCHANGED <<local, settings, rows, audit>>

\* The snapshot is read next; it is there, since it is never deleted.
ListEvidence(t) ==
    /\ pc[t] = "listEvidence"
    /\ local' = [local EXCEPT ![t].evidence = evidence[post[t].run]]
    /\ Go(t, "insertRequest")
    /\ UNCHANGED <<settings, rows, audit>>

InsertRequest(t) ==
    /\ pc[t] = "insertRequest"
    /\ LET c == post[t].run IN
       requests' = requests \cup
          {[run |-> c, skill |-> runs[c].skill, context |-> runs[c].context,
            evidence |-> local[t].evidence, confirmed |-> post[t].admin]}
    /\ Go(t, "auditRequest")
    /\ UNCHANGED <<local, settings, snapshots, runs, useCases, evidence, audit>>

AuditRequest(t) ==
    /\ pc[t] = "auditRequest"
    /\ Audit(t, "promotion_request.created")
    /\ Return(t, "prepared")

-----------------------------------------------------------------------------
(* The environment: a server dies, or a call fails and the post throws;    *)
(* the plugin is installed or disabled; the domain profile is edited.      *)

Abort(t) ==
    /\ pc[t] \notin {"idle", "done"}
    /\ Return(t, "aborted")
    /\ UNCHANGED <<local, settings, rows, audit>>

Install ==
    /\ installation' = "installed"
    /\ UNCHANGED <<posts, profile, rows, audit>>

Disable ==
    /\ installation # "none"
    /\ installation' = "disabled"
    /\ UNCHANGED <<posts, profile, rows, audit>>

EditProfile ==
    /\ profile' \in {"incomplete", "complete"}
    /\ UNCHANGED <<posts, installation, rows, audit>>

Step(t) ==
    \/ FindRun(t) \/ ReadInstallation(t) \/ ReadProfile(t)
    \/ InsertSnapshot(t) \/ AuditComposed(t)
    \/ InsertRun(t) \/ AuditStarted(t) \/ Handle(t)
    \/ RejectRun(t) \/ AuditRejected(t)
    \/ InsertEvidence(t) \/ AuditEvidence(t) \/ CompleteRun(t) \/ AuditCompleted(t)
    \/ ReadRun(t) \/ ListEvidence(t) \/ InsertRequest(t) \/ AuditRequest(t)

Next ==
    \/ \E t \in Tabs, s \in Skills, c \in Correlations, input \in Inputs :
          PostRun(t, s, c, input)
    \/ \E t \in Tabs, c \in Correlations, admin \in BOOLEAN :
          Exists(c) /\ PostRequest(t, c, admin)
    \/ \E t \in Tabs : Step(t) \/ Abort(t)
    \/ Install \/ Disable \/ EditProfile

Spec == Init /\ [][Next]_vars

\* A live server runs each post on.
FairSpec == Spec /\ \A t \in Tabs : WF_vars(Step(t))

-----------------------------------------------------------------------------
(* Safety.                                                                 *)

\* The awaited calls a post makes between composing a context and its answer.
ExecutingPcs == {"insertRun", "auditStarted", "handle", "rejectRun", "auditRejected",
                 "insertEvidence", "auditEvidence", "completeRun", "auditCompleted"}

\* However often a correlation id is posted, its skill is executed once: at
\* most one use case and one piece of evidence come of it, evidence only after
\* its use case, and none of either from a run that was rejected.
ExecutedOnce ==
    \A c \in Correlations :
        /\ evidence[c] <= useCases[c] /\ useCases[c] <= 1
        /\ runs[c].status \in {"none", "rejected"} => useCases[c] = 0

\* A completed run has its use case and its evidence, and the audit trail holds
\* its start and its evidence: completion is recorded last.
CompletedRunEvidenced ==
    \A c \in Correlations : runs[c].status = "completed" =>
        /\ useCases[c] = 1 /\ evidence[c] = 1
        /\ \A type \in {"run.started", "evidence.created"} :
              [type |-> type, run |-> c] \in audit

\* A run ends as its own context snapshot has it, whatever was edited
\* meanwhile: completed only if that lacked nothing the skill needs, rejected
\* for missing profile fields only if it lacked some.
RunFollowsItsContext ==
    \A c \in Correlations : runs[c].status # "none" =>
        /\ runs[c].context \in snapshots
        /\ runs[c].context.skill = runs[c].skill
        /\ runs[c].status = "completed" =>
              /\ ~runs[c].context.missing
              /\ runs[c].skill \in Implemented \cap Handled \cap ConnectorsGranted
        /\ runs[c].reason = "missing_required_profile_fields" => runs[c].context.missing

\* A tab told the result of a run is told that of the skill it posted, and one
\* told "completed" reads a run that is completed.
AnswersFollowRun ==
    \A t \in Tabs :
        /\ answer[t] \in {"completed", "rejected"} =>
              /\ Exists(post[t].run)
              /\ runs[post[t].run].skill = post[t].skill
        /\ answer[t] = "completed" => runs[post[t].run].status = "completed"

\* A retry of a correlation id that has a run neither executes nor throws.
LatePostNeverExecutes ==
    \A t \in Tabs : post[t].late => pc[t] \notin ExecutingPcs /\ answer[t] # "threw"

\* A promotion request passes, for as long as it exists, the checks the KFSA
\* gateway makes of its run: completed, of its skill, its snapshot there; and
\* it cites all of the run's evidence, of which there is some.
RequestStaysSubmittable ==
    \A r \in requests :
        /\ runs[r.run].status = "completed"
        /\ runs[r.run].skill = r.skill
        /\ r.context = runs[r.run].context /\ r.context \in snapshots
        /\ r.evidence = evidence[r.run] /\ r.evidence > 0

\* Once inserted, a run is of one skill and one context, and once ended it
\* never changes.
RunsEndOnce ==
    [][\A c \in Correlations : Exists(c) =>
          /\ runs'[c].skill = runs[c].skill /\ runs'[c].context = runs[c].context
          /\ runs[c].status # "submitted" => runs'[c] = runs[c]]_vars

-----------------------------------------------------------------------------
(* Liveness.                                                               *)

\* Every post is answered, or dies with its server: no post waits for another.
EveryPostAnswered == \A t \in Tabs : (pc[t] # "idle") ~> (pc[t] = "done")

-----------------------------------------------------------------------------
(* What the repository says and the code does not do.                      *)

\* A duplicate submission does not end in an unhandled exception.
DuplicateIsHandled == \A t \in Tabs : answer[t] # "threw"

\* No run is inserted while the plugin is disabled.
NoRunWhileDisabled ==
    [][\A c \in Correlations :
          ~Exists(c) /\ runs'[c].status # "none" => installation # "disabled"]_vars
=============================================================================
