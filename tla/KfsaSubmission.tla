--------------------------- MODULE KfsaSubmission ---------------------------
(***************************************************************************)
(* The Governance Gateway's server-side flow for                           *)
(* POST /api/kfsa/promotion-requests: submitPromotionRequestForEvaluation  *)
(* (lib/kfsa/promotion-submission.ts) over the three KFSA tables.          *)
(*                                                                         *)
(* Every awaited call is a step of its own, so the calls of several posts  *)
(* interleave and a post can die between any two of them.  pc[t] names the *)
(* awaited call the post of tab t makes next.  A tab may post again once   *)
(* it is answered; nothing runs in the background.                         *)
(***************************************************************************)
EXTENDS Integers, FiniteSets

CONSTANTS
    Tabs,               \* browser tabs or API clients, each with one post in flight
    PromotionRequests,  \* rows of promotion_requests, immutable once inserted
    Organizations,      \* tenants
    Correlations,       \* correlation_id texts
    OrganizationOf,     \* promotion_requests.organization_id
    CorrelationOf,      \* promotion_requests.correlation_id
    ReviewOutcomes,     \* the review outcomes KFSA may answer with
    KfsaErrors,         \* the KfsaClientError codes an external call may end in
    MaxAttempts         \* bound on attempt_number

AllReviewOutcomes == {"PASS", "FIX", "FAIL", "ESCALATE"}

\* KfsaClientErrorCode, without "tenant_mismatch", which the client never throws.
ErrorCodes == {"unavailable", "timeout", "unauthorized", "invalid_response",
               "rejected", "correlation_conflict"}

ASSUME RequestsAssumption ==
    /\ PromotionRequests # {}
    /\ Organizations # {}
    /\ OrganizationOf \in [PromotionRequests -> Organizations]
    /\ CorrelationOf \in [PromotionRequests -> Correlations]

ASSUME KfsaAssumption ==
    /\ ReviewOutcomes \subseteq AllReviewOutcomes
    /\ KfsaErrors \subseteq ErrorCodes

ASSUME BoundAssumption == MaxAttempts \in Nat

VARIABLES
    pc,          \* the next awaited call of the post in each tab
    post,        \* what is posted: request, caller's tenant; late is history
    local,       \* the post's local variables
    answer,      \* the outcome returned to the tab
    attempts,    \* table kfsa_submission_attempts
    responses,   \* table kfsa_evaluation_responses, by (organization, correlation)
    auditLinks,  \* table kfsa_external_audit_links
    audit        \* the kfsa.* rows of plugin_audit_events

vars == <<pc, post, local, answer, attempts, responses, auditLinks, audit>>
tables == <<attempts, responses, auditLinks, audit>>

-----------------------------------------------------------------------------
(* Values.                                                                 *)

AttemptNumbers == 1..MaxAttempts

Pcs == {"idle", "verify", "readResponse", "auditConflict", "listAttempts",
        "markStale", "auditRequested", "auditRetried", "insertAttempt",
        "recoverResponse", "recoverAttempts", "auditStarted", "call",
        "awaiting", "markFailed", "auditFailed", "insertResponse", "reread",
        "markReplayed", "markConflict", "auditLostConflict",
        "markSucceeded", "insertLink", "auditSucceeded", "done"}

\* "none" stands for a row that was never inserted.
Attempt == [status : {"none", "in_progress", "succeeded", "failed"},
            error  : ErrorCodes \cup {"none"},
            stale  : BOOLEAN]

\* Mutant: the organization is left out of the unique constraint.
KeyWithoutOrganization(p) == <<CHOOSE o \in Organizations : TRUE, CorrelationOf[p]>>
Key(p) == <<OrganizationOf[p], CorrelationOf[p]>>
Keys == Organizations \X Correlations

Response == [pr     : PromotionRequests,
             number : AttemptNumbers,
             review : ReviewOutcomes]

EventTypes == {"submission_requested", "submission_started",
               "submission_succeeded", "submission_failed",
               "submission_retried", "invalid_response_rejected",
               "correlation_conflict_rejected"}

AuditEvent == [type : EventTypes, pr : PromotionRequests, number : 0..(MaxAttempts + 1)]

Post == [pr : PromotionRequests, caller : Organizations, late : BOOLEAN]

Local == [number : 0..(MaxAttempts + 1),             \* attemptNumber
          latest : 0..MaxAttempts,                   \* latestAttempt.id
          error  : ErrorCodes \cup {"none"},         \* errorCode
          review : ReviewOutcomes \cup {"none"}]     \* validated

\* KfsaSubmissionOutcome, a boundary rejection (HTTP 403), or no structured
\* answer: "threw" when the database refuses a write the flow does not expect
\* to be refused, "aborted" when the server dies or a call fails under it.
Kinds == {"none", "replay", "succeeded", "failed", "in_progress",
          "rejected", "conflict", "threw", "aborted"}

Answer == [kind   : Kinds,
           error  : ErrorCodes \cup {"none"},
           review : ReviewOutcomes \cup {"none"}]

Reply(kind) == [kind |-> kind, error |-> "none", review |-> "none"]
Evaluated(kind, review) == [kind |-> kind, error |-> "none", review |-> review]
Failed(error) == [kind |-> "failed", error |-> error, review |-> "none"]

NoLocals == [number |-> 0, latest |-> 0, error |-> "none", review |-> "none"]

TypeOK ==
    /\ pc \in [Tabs -> Pcs]
    /\ post \in [Tabs -> Post]
    /\ local \in [Tabs -> Local]
    /\ answer \in [Tabs -> Answer]
    /\ attempts \in [PromotionRequests -> [AttemptNumbers -> Attempt]]
    /\ responses \in [Keys -> SUBSET Response]
    /\ auditLinks \in SUBSET (PromotionRequests \X AttemptNumbers)
    /\ audit \in SUBSET AuditEvent

Init ==
    /\ pc = [t \in Tabs |-> "idle"]
    /\ post = [t \in Tabs |-> [pr |-> CHOOSE p \in PromotionRequests : TRUE,
                               caller |-> CHOOSE o \in Organizations : TRUE,
                               late |-> FALSE]]
    /\ local = [t \in Tabs |-> NoLocals]
    /\ answer = [t \in Tabs |-> Reply("none")]
    /\ attempts = [p \in PromotionRequests |-> [n \in AttemptNumbers |->
                      [status |-> "none", error |-> "none", stale |-> FALSE]]]
    /\ responses = [k \in Keys |-> {}]
    /\ auditLinks = {}
    /\ audit = {}

-----------------------------------------------------------------------------
(* Queries and guarded updates of the tables.                              *)

Rows(p) == {n \in AttemptNumbers : attempts[p][n].status # "none"}

\* priorAttempts.length + 1
NextAttemptNumber(p) == Cardinality(Rows(p)) + 1

\* priorAttempts[0]: an attempt is inserted only after its predecessor has been
\* listed, so the greatest submitted_at is that of the greatest number.
LatestAttempt(p) == CHOOSE n \in Rows(p) : \A m \in Rows(p) : m <= n

EvaluationOf(p) == responses[Key(p)]
EvaluatedFor(p) == \E r \in EvaluationOf(p) : r.pr = p

\* Mutant: the trigger is not installed.
UnlockedAlways(p, n) == TRUE

\* The trigger guard_kfsa_submission_attempt_update: a terminal row is locked.
Unlocked(p, n) == attempts[p][n].status = "in_progress"

Record(type, p, n) == audit' = audit \cup {[type |-> type, pr |-> p, number |-> n]}

Go(t, next) ==
    /\ pc' = [pc EXCEPT ![t] = next]
    /\ UNCHANGED <<post, answer>>

Return(t, a) ==
    /\ pc' = [pc EXCEPT ![t] = "done"]
    /\ answer' = [answer EXCEPT ![t] = a]
    /\ UNCHANGED post

-----------------------------------------------------------------------------
(* A tab posts; its ownership is verified; a known evaluation is replayed. *)

\* late: the correlation was already evaluated when the post arrived.
Arrive(t, p, o) ==
    /\ pc[t] \in {"idle", "done"}
    /\ pc' = [pc EXCEPT ![t] = "verify"]
    /\ post' = [post EXCEPT ![t] =
                  [pr |-> p, caller |-> o, late |-> EvaluationOf(p) # {}]]
    /\ local' = [local EXCEPT ![t] = NoLocals]
    /\ answer' = [answer EXCEPT ![t] = Reply("none")]
    /\ UNCHANGED tables

OwnsRequest(t) == OrganizationOf[post[t].pr] = post[t].caller

\* The reads of lines 110-137: the installation, skill, run, snapshot and
\* evidence checks depend on rows other components own, so either result is
\* possible; the tenant check is the one this flow makes on its own data.
VerifyOwnership(t) ==
    /\ pc[t] = "verify"
    /\ OwnsRequest(t)
    /\ Go(t, "readResponse")
    /\ UNCHANGED <<local, tables>>

RejectOwnership(t) ==
    /\ pc[t] = "verify"
    /\ Return(t, Reply("rejected"))
    /\ UNCHANGED <<local, tables>>

\* Mutant: any response of the correlation is replayed.
ReplayAnyResponse(t, otherwise) ==
    \/ \E r \in EvaluationOf(post[t].pr) : Return(t, Evaluated("replay", r.review))
    \/ EvaluationOf(post[t].pr) = {} /\ Go(t, otherwise)

ReplayIfEvaluated(t, otherwise) ==
    LET p == post[t].pr IN
    \/ \E r \in EvaluationOf(p) : r.pr = p /\ Return(t, Evaluated("replay", r.review))
    \/ ~EvaluatedFor(p) /\ Go(t, otherwise)

\* Mutant: the response is not looked up.
ReadResponseSkipped(t) ==
    /\ pc[t] = "readResponse"
    /\ Go(t, "listAttempts")
    /\ UNCHANGED <<local, tables>>

ReadResponse(t) ==
    /\ pc[t] = "readResponse"
    /\ ReplayIfEvaluated(t, IF EvaluationOf(post[t].pr) = {}
                            THEN "listAttempts" ELSE "auditConflict")
    /\ UNCHANGED <<local, tables>>

AuditConflict(t) ==
    /\ pc[t] = "auditConflict"
    /\ Record("correlation_conflict_rejected", post[t].pr, 0)
    /\ Return(t, Reply("conflict"))
    /\ UNCHANGED <<local, attempts, responses, auditLinks>>

-----------------------------------------------------------------------------
(* Stale in-progress recovery and the insertion of a new attempt.          *)

\* Mutant: the latest attempt's status is not looked at.
NoneInFlight(p) == FALSE

InFlight(p) == Rows(p) # {} /\ attempts[p][LatestAttempt(p)].status = "in_progress"
\* Mutants: every attempt in progress is stale; none ever is.
FreshNever(p) == FALSE
FreshForever(p) == InFlight(p)

Fresh(p) == InFlight(p) /\ ~attempts[p][LatestAttempt(p)].stale

ListAttempts(t) ==
    /\ pc[t] = "listAttempts"
    /\ LET p == post[t].pr IN
       \/ /\ Fresh(p)
          /\ Return(t, Reply("in_progress"))
          /\ UNCHANGED local
       \/ /\ ~Fresh(p)
          /\ Go(t, IF InFlight(p) THEN "markStale" ELSE "auditRequested")
          /\ local' = [local EXCEPT
                ![t].number = NextAttemptNumber(p),
                ![t].latest = IF Rows(p) = {} THEN 0 ELSE LatestAttempt(p)]
    /\ UNCHANGED tables

\* An update of attempt n of the posted request; one the trigger refuses is an
\* exception nobody catches.
Mark(t, n, status, error, continue) ==
    LET p == post[t].pr IN
    /\ \/ /\ Unlocked(p, n)
          /\ attempts' = [attempts EXCEPT ![p][n] =
                [status |-> status, error |-> error, stale |-> @.stale]]
          /\ continue
       \/ /\ ~Unlocked(p, n)
          /\ Return(t, Reply("threw"))
          /\ UNCHANGED attempts
    /\ UNCHANGED <<local, responses, auditLinks, audit>>

MarkStale(t) ==
    /\ pc[t] = "markStale"
    /\ Mark(t, local[t].latest, "failed", "unavailable", Go(t, "auditRequested"))

AuditRequested(t) ==
    /\ pc[t] = "auditRequested"
    /\ Record("submission_requested", post[t].pr, local[t].number)
    /\ Go(t, IF local[t].number > 1 THEN "auditRetried" ELSE "insertAttempt")
    /\ UNCHANGED <<local, attempts, responses, auditLinks>>

AuditRetried(t) ==
    /\ pc[t] = "auditRetried"
    /\ Record("submission_retried", post[t].pr, local[t].number)
    /\ Go(t, "insertAttempt")
    /\ UNCHANGED <<local, attempts, responses, auditLinks>>

\* The unique constraint on (organization, request, correlation, number).
NumberTaken(p, n) == attempts[p][n].status # "none"

NewAttempt == [status |-> "in_progress", error |-> "none", stale |-> FALSE]

InsertAttempt(t) ==
    /\ pc[t] = "insertAttempt"
    /\ LET p == post[t].pr
           n == local[t].number
       IN /\ n \in AttemptNumbers
          /\ IF NumberTaken(p, n)
             THEN Go(t, "recoverResponse") /\ UNCHANGED attempts
             ELSE /\ attempts' = [attempts EXCEPT ![p][n] = NewAttempt]
                  /\ Go(t, "auditStarted")
    /\ UNCHANGED <<local, responses, auditLinks, audit>>

\* The bound: an attempt beyond MaxAttempts fails to be inserted with an error
\* that is not a unique violation, which line 208 rethrows.
InsertRefused(t) ==
    /\ pc[t] = "insertAttempt"
    /\ local[t].number \notin AttemptNumbers
    /\ Return(t, Reply("aborted"))
    /\ UNCHANGED <<local, tables>>

-----------------------------------------------------------------------------
(* recoverFromLostAttemptRace.                                             *)

RecoverResponse(t) ==
    /\ pc[t] = "recoverResponse"
    /\ ReplayIfEvaluated(t, "recoverAttempts")
    /\ UNCHANGED <<local, tables>>

\* Mutant: the loser waits for the winner to fail.
RecoverAttemptsWaits(t) ==
    /\ pc[t] = "recoverAttempts"
    /\ LET winner == attempts[post[t].pr][local[t].number] IN
       winner.status = "failed" /\ Return(t, Failed(winner.error))
    /\ UNCHANGED <<local, tables>>

\* The row that won the number is always found: attempts are never deleted.
RecoverAttempts(t) ==
    /\ pc[t] = "recoverAttempts"
    /\ LET winner == attempts[post[t].pr][local[t].number] IN
       Return(t, IF winner.status = "failed"
                 THEN Failed(winner.error)
                 ELSE Reply("in_progress"))
    /\ UNCHANGED <<local, tables>>

-----------------------------------------------------------------------------
(* The external call.  Its answer may take longer than the staleness       *)
(* threshold: the client's timeout covers the response's headers only.     *)

AuditStarted(t) ==
    /\ pc[t] = "auditStarted"
    /\ Record("submission_started", post[t].pr, local[t].number)
    /\ Go(t, "call")
    /\ UNCHANGED <<local, attempts, responses, auditLinks>>

CallKfsa(t) ==
    /\ pc[t] = "call"
    /\ Go(t, "awaiting")
    /\ UNCHANGED <<local, tables>>

\* getKfsaRuntimeEnv throws a KfsaConfigError, recorded as "unavailable".
KfsaNotConfigured(t) ==
    /\ pc[t] = "call"
    /\ local' = [local EXCEPT ![t].error = "unavailable"]
    /\ Go(t, "markFailed")
    /\ UNCHANGED tables

KfsaEvaluates(t) ==
    /\ pc[t] = "awaiting"
    /\ \E review \in ReviewOutcomes : local' = [local EXCEPT ![t].review = review]
    /\ Go(t, "insertResponse")
    /\ UNCHANGED tables

KfsaFails(t) ==
    /\ pc[t] = "awaiting"
    /\ \E e \in KfsaErrors : local' = [local EXCEPT ![t].error = e]
    /\ Go(t, "markFailed")
    /\ UNCHANGED tables

MarkFailed(t) ==
    /\ pc[t] = "markFailed"
    /\ Mark(t, local[t].number, "failed", local[t].error, Go(t, "auditFailed"))

\* Mutant: the error code is recorded as the event's type.
FailureEventIsCode(e) == e

FailureEvent(e) ==
    CASE e = "invalid_response"     -> "invalid_response_rejected"
      [] e = "correlation_conflict" -> "correlation_conflict_rejected"
      [] OTHER                      -> "submission_failed"

AuditFailed(t) ==
    /\ pc[t] = "auditFailed"
    /\ Record(FailureEvent(local[t].error), post[t].pr, local[t].number)
    /\ Return(t, Failed(local[t].error))
    /\ UNCHANGED <<local, attempts, responses, auditLinks>>

-----------------------------------------------------------------------------
(* Persisting the evaluation.                                              *)

\* Mutant: the constraint is not there.
CorrelationNeverTaken(p) == FALSE

\* The unique constraint on (organization_id, correlation_id).
CorrelationTaken(p) == EvaluationOf(p) # {}

InsertResponse(t) ==
    /\ pc[t] = "insertResponse"
    /\ LET p == post[t].pr IN
       IF CorrelationTaken(p)
       THEN Go(t, "reread") /\ UNCHANGED responses
       ELSE /\ responses' = [responses EXCEPT ![Key(p)] = @ \cup
                  {[pr |-> p, number |-> local[t].number, review |-> local[t].review]}]
            /\ Go(t, "markSucceeded")
    /\ UNCHANGED <<local, attempts, auditLinks, audit>>

\* Mutant: the late answer is returned in place of the persisted one.
RereadKeepsOwnAnswer(t) ==
    /\ pc[t] = "reread"
    /\ Go(t, IF EvaluatedFor(post[t].pr) THEN "markReplayed" ELSE "markConflict")
    /\ UNCHANGED <<local, tables>>

RereadResponse(t) ==
    /\ pc[t] = "reread"
    /\ LET p == post[t].pr IN
       \/ \E r \in EvaluationOf(p) :
             /\ r.pr = p
             /\ local' = [local EXCEPT ![t].review = r.review]
             /\ Go(t, "markReplayed")
       \/ ~EvaluatedFor(p) /\ Go(t, "markConflict") /\ UNCHANGED local
    /\ UNCHANGED tables

MarkReplayed(t) ==
    /\ pc[t] = "markReplayed"
    /\ Mark(t, local[t].number, "succeeded", "none",
            Return(t, Evaluated("replay", local[t].review)))

MarkConflict(t) ==
    /\ pc[t] = "markConflict"
    /\ Mark(t, local[t].number, "failed", "correlation_conflict",
            Go(t, "auditLostConflict"))

AuditLostConflict(t) ==
    /\ pc[t] = "auditLostConflict"
    /\ Record("correlation_conflict_rejected", post[t].pr, local[t].number)
    /\ Return(t, Failed("correlation_conflict"))
    /\ UNCHANGED <<local, attempts, responses, auditLinks>>

\* Mutant: the link to KFSA's audit event is not written.
MarkSucceededUnlinked(t) ==
    /\ pc[t] = "markSucceeded"
    /\ Mark(t, local[t].number, "succeeded", "none", Go(t, "auditSucceeded"))

MarkSucceeded(t) ==
    /\ pc[t] = "markSucceeded"
    /\ Mark(t, local[t].number, "succeeded", "none", Go(t, "insertLink"))

InsertLink(t) ==
    /\ pc[t] = "insertLink"
    /\ auditLinks' = auditLinks \cup {<<post[t].pr, local[t].number>>}
    /\ Go(t, "auditSucceeded")
    /\ UNCHANGED <<local, attempts, responses, audit>>

\* The one audit write whose failure is swallowed.
AuditSucceeded(t) ==
    /\ pc[t] = "auditSucceeded"
    /\ \/ Record("submission_succeeded", post[t].pr, local[t].number)
       \/ UNCHANGED audit
    /\ Return(t, Evaluated("succeeded", local[t].review))
    /\ UNCHANGED <<local, attempts, responses, auditLinks>>

-----------------------------------------------------------------------------
(* The environment: a server dies, or a call fails and the flow throws;    *)
(* time passes.                                                            *)

Abort(t) ==
    /\ pc[t] \notin {"idle", "done"}
    /\ Return(t, Reply("aborted"))
    /\ UNCHANGED <<local, tables>>

\* KFSA_SUBMISSION_STALE_AFTER_MS has passed since the attempt's submitted_at.
Age(p, n) ==
    /\ attempts[p][n].status = "in_progress"
    /\ ~attempts[p][n].stale
    /\ attempts' = [attempts EXCEPT ![p][n].stale = TRUE]
    /\ UNCHANGED <<pc, post, local, answer, responses, auditLinks, audit>>

Step(t) ==
    \/ VerifyOwnership(t) \/ RejectOwnership(t)
    \/ ReadResponse(t) \/ AuditConflict(t)
    \/ ListAttempts(t) \/ MarkStale(t)
    \/ AuditRequested(t) \/ AuditRetried(t) \/ InsertAttempt(t) \/ InsertRefused(t)
    \/ RecoverResponse(t) \/ RecoverAttempts(t)
    \/ AuditStarted(t) \/ CallKfsa(t) \/ KfsaNotConfigured(t)
    \/ KfsaEvaluates(t) \/ KfsaFails(t) \/ MarkFailed(t) \/ AuditFailed(t)
    \/ InsertResponse(t) \/ RereadResponse(t) \/ MarkReplayed(t)
    \/ MarkConflict(t) \/ AuditLostConflict(t)
    \/ MarkSucceeded(t) \/ InsertLink(t) \/ AuditSucceeded(t)

Next ==
    \/ \E t \in Tabs : \E p \in PromotionRequests, o \in Organizations : Arrive(t, p, o)
    \/ \E t \in Tabs : Step(t) \/ Abort(t)
    \/ \E p \in PromotionRequests, n \in AttemptNumbers : Age(p, n)

Spec == Init /\ [][Next]_vars

\* A live server runs each post on; users keep posting; time passes; and the
\* ownership checks, being about rows that exist, do not fail for ever.
FairSpec ==
    /\ Spec
    /\ \A t \in Tabs : WF_vars(Step(t)) /\ SF_vars(VerifyOwnership(t))
    /\ \A t \in Tabs : WF_vars(\E p \in PromotionRequests :
                                   Arrive(t, p, OrganizationOf[p]))
    /\ \A p \in PromotionRequests, n \in AttemptNumbers : WF_vars(Age(p, n))

-----------------------------------------------------------------------------
(* Safety.                                                                 *)

\* The awaited calls a post makes between inserting its attempt and marking it.
OwningPcs == {"auditStarted", "call", "awaiting", "markFailed", "insertResponse",
              "reread", "markReplayed", "markConflict", "markSucceeded"}

CalledPcs == {"awaiting", "markFailed", "auditFailed", "insertResponse", "reread",
              "markReplayed", "markConflict", "auditLostConflict", "markSucceeded",
              "insertLink", "auditSucceeded"}

\* Attempts of a promotion request are numbered without gaps, and one is
\* inserted only once its predecessor has ended: whatever the interleaving of
\* posts, at most one attempt of a request is in progress.
AttemptsInSequence ==
    \A p \in PromotionRequests : \A n \in Rows(p) : \A m \in 1..(n - 1) :
        attempts[p][m].status \in {"succeeded", "failed"}

\* An attempt is recorded as succeeded only if an evaluation of its own
\* promotion request is persisted.
SuccessIsEvaluated ==
    \A p \in PromotionRequests, n \in AttemptNumbers :
        attempts[p][n].status = "succeeded" => EvaluatedFor(p)

\* A tab told COMPLETED has everything durable: its own response row, its
\* attempt marked succeeded, and the link to KFSA's audit event.
CompletedIsDurable ==
    \A t \in Tabs : answer[t].kind = "succeeded" =>
        LET p == post[t].pr
            n == local[t].number
        IN /\ [pr |-> p, number |-> n, review |-> answer[t].review] \in EvaluationOf(p)
           /\ attempts[p][n].status = "succeeded"
           /\ <<p, n>> \in auditLinks

\* Every tab told COMPLETED or REPLAYED reads the one persisted evaluation of
\* the promotion request it posted, and belongs to the tenant that owns it.
EvaluatedAnswersAgree ==
    \A t \in Tabs : answer[t].kind \in {"succeeded", "replay"} =>
        /\ OrganizationOf[post[t].pr] = post[t].caller
        /\ \A r \in EvaluationOf(post[t].pr) :
              r.pr = post[t].pr /\ r.review = answer[t].review
        /\ EvaluatedFor(post[t].pr)

\* A tab told FAILED, by its own attempt or by the attempt it lost the race to,
\* is told the error its attempt number is recorded with.
FailedAnswerIsRecorded ==
    \A t \in Tabs : answer[t].kind = "failed" =>
        /\ local[t].number \in AttemptNumbers
        /\ LET row == attempts[post[t].pr][local[t].number] IN
           row.status = "failed" /\ row.error = answer[t].error

\* The link to KFSA's audit event is written only for the attempt whose
\* evaluation is the persisted one, and only once that attempt has succeeded.
LinkedAttemptEvaluated ==
    \A p \in PromotionRequests, n \in AttemptNumbers : <<p, n>> \in auditLinks =>
        /\ attempts[p][n].status = "succeeded"
        /\ \E r \in EvaluationOf(p) : r.pr = p /\ r.number = n

\* Correlation ids of different tenants do not conflict: a post is rejected
\* for its correlation id only if another request of its own tenant holds it.
ConflictWithinTenant ==
    \A t \in Tabs : answer[t].kind = "conflict" =>
        \E p \in PromotionRequests :
            /\ p # post[t].pr
            /\ OrganizationOf[p] = post[t].caller
            /\ CorrelationOf[p] = CorrelationOf[post[t].pr]
            /\ EvaluatedFor(p)

\* A post that arrives once its correlation id has been evaluated never
\* reaches KFSA.
LateArrivalNeverCalls ==
    \A t \in Tabs : pc[t] \in CalledPcs => ~post[t].late

\* The trail is fail-closed: when KFSA is called, the attempt's request and
\* start have been audited.
AuditPrecedesCall ==
    \A t \in Tabs : pc[t] \in CalledPcs =>
        \A type \in {"submission_requested", "submission_started"} :
            [type |-> type, pr |-> post[t].pr, number |-> local[t].number] \in audit

\* The flow throws only where an attempt of the request has gone stale: with
\* no attempt older than the threshold every post gets a structured answer.
ThrowsOnlyAfterStaleness ==
    \A t \in Tabs : answer[t].kind = "threw" =>
        \E n \in AttemptNumbers : attempts[post[t].pr][n].stale

-----------------------------------------------------------------------------
(* Refinement: the gateway implements a write-once evaluation register.    *)

Told(t) == IF answer[t].kind \in {"succeeded", "replay"}
           THEN {[pr |-> post[t].pr, review |-> answer[t].review]} ELSE {}

Evaluations(k) == {[pr |-> r.pr, review |-> r.review] : r \in responses[k]}

Register == INSTANCE EvaluationRegister WITH
    evaluation <- [k \in Keys |-> Evaluations(k)],
    told <- [t \in Tabs |-> Told(t)]

\* Every step of the gateway records an evaluation under a free correlation,
\* tells a tab a recorded one, forgets one, or changes nothing of these.
ImplementsRegister == Register!Spec

-----------------------------------------------------------------------------
(* Liveness.                                                               *)

\* Every post is answered, or dies with its server.
EveryPostAnswered == \A t \in Tabs : (pc[t] = "verify") ~> (pc[t] = "done")

FinitelyManyAborts == <>[][\A t \in Tabs : ~Abort(t)]_vars

\* An attempt left in progress by a dead server does not block its request:
\* once servers stop dying, later posts end it or its request is evaluated.
AbandonedAttemptRecovered ==
    FinitelyManyAborts =>
        \A p \in PromotionRequests, n \in AttemptNumbers :
            (attempts[p][n].status = "in_progress")
                ~> (attempts[p][n].status # "in_progress" \/ EvaluatedFor(p))

-----------------------------------------------------------------------------
(* What the repository says and the code does not do.                      *)

\* "KFSA is never called again" once a request is evaluated.
NeverCalledAgain ==
    [][\A t \in Tabs : pc[t] = "call" /\ pc'[t] = "awaiting" =>
            ~EvaluatedFor(post[t].pr)]_vars

\* No post ends in an unhandled exception.
NoUnhandledError == \A t \in Tabs : answer[t].kind # "threw"

\* An attempt that went stale is marked once someone submits again.
StaleAttemptEnded ==
    FinitelyManyAborts =>
        \A p \in PromotionRequests, n \in AttemptNumbers :
            (attempts[p][n].status = "in_progress")
                ~> (attempts[p][n].status # "in_progress")
=============================================================================
