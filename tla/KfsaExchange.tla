---------------------------- MODULE KfsaExchange ----------------------------
(***************************************************************************)
(* One submission from the button to its message: the browser's post, the  *)
(* checks of the Governance Gateway route, the HTTP call to the KFSA       *)
(* Runtime Core (lib/kfsa/client.ts), the validation of what it answers    *)
(* (contracts/promotion-request-v1.ts), the route's own answer, and the    *)
(* message the user reads (ui-error-messages.ts).  What the server does    *)
(* between the route and the call, and after it, is KfsaSubmission's       *)
(* subject: here it may end the submission early in any way it can.        *)
(*                                                                         *)
(* KFSA is any peer: it may answer with any status and any body, late, in  *)
(* pieces, or not at all.  A body is the set of its faults against the     *)
(* contract and, when it has one, the review outcome it carries.           *)
(***************************************************************************)
EXTENDS Naturals, FiniteSets, Sequences

CONSTANTS
    Statuses,     \* the HTTP statuses KFSA may answer with
    MaxFaults,    \* bound on the faults of one body
    MaxChunks,    \* maxResponseBytes, in chunks
    MaxSubmits    \* bound on how often the button is pressed

ASSUME ExchangeAssumption ==
    /\ Statuses \subseteq 200..599
    /\ MaxFaults \in Nat /\ MaxChunks \in Nat /\ MaxSubmits \in Nat

VARIABLES
    pc,        \* where the submission is
    timer,     \* whether the abort timer is armed
    response,  \* what KFSA answers, NoResponse before it does
    received,  \* chunks of the body kept in memory
    code,      \* the KfsaClientErrorCode, "evaluated", or "none"
    answer,    \* the route's answer to the browser
    shown,     \* what the user reads
    submits    \* how often the button was pressed

vars == <<pc, timer, response, received, code, answer, shown, submits>>

-----------------------------------------------------------------------------
(* The contract. *)

ReviewOutcomes == {"PASS", "FIX", "FAIL", "ESCALATE"}

\* Mutant: a claim of a formal decision is not looked for.
DecisionUnchecked ==
    <<<<"notObject", "malformed_response">>, <<"prohibited", "prohibited_field">>,
      <<"unknown", "unknown_field">>, <<"identifier", "malformed_response">>,
      <<"createdAt", "malformed_response">>, <<"status", "malformed_response">>,
      <<"kfsaVocabulary", "invalid_review_outcome">>, <<"review", "invalid_review_outcome">>,
      <<"escalation", "malformed_response">>, <<"blockedActions", "malformed_response">>,
      <<"errors", "malformed_response">>>>
\* The checks of validateKfsaResponse, in order, and the violation each raises.
ContractChecks ==
    <<<<"notObject", "malformed_response">>, <<"prohibited", "prohibited_field">>,
      <<"unknown", "unknown_field">>, <<"identifier", "malformed_response">>,
      <<"createdAt", "malformed_response">>, <<"status", "malformed_response">>,
      <<"kfsaVocabulary", "invalid_review_outcome">>, <<"review", "invalid_review_outcome">>,
      <<"escalation", "malformed_response">>, <<"blockedActions", "malformed_response">>,
      <<"formalDecision", "formal_decision_created">>, <<"errors", "malformed_response">>>>

\* "notJson" is found before validation.
Faults == {"notJson", "formalDecision"} \cup {ContractChecks[i][1] : i \in DOMAIN ContractChecks}

\* The first check a body fails, 0 when it passes all.
Violation(faults) ==
    LET failed == {i \in DOMAIN ContractChecks : ContractChecks[i][1] \in faults}
    IN  IF failed = {} THEN 0 ELSE CHOOSE i \in failed : \A j \in failed : i <= j

Bodies == {[faults |-> {}, review |-> review] : review \in ReviewOutcomes}
            \cup {[faults |-> f, review |-> "PASS"] :
                    f \in {g \in SUBSET Faults : Cardinality(g) \in 1..MaxFaults
                             /\ (Cardinality(g) = 1 \/ g \cap {"notJson", "notObject"} = {})}}

NoResponse == [status |-> 0, declared |-> 0, size |-> 0, faults |-> {}, review |-> "PASS"]

-----------------------------------------------------------------------------
(* Error codes, what may be retried, and what the user is told. *)

ErrorCodes == {"unavailable", "timeout", "unauthorized", "invalid_response",
               "rejected", "correlation_conflict"}

\* Mutant: every other refusal is sorted out before the rate limit.
RefusalsFirst(status) ==
    IF status \in {401, 403} THEN "unauthorized"
    ELSE IF status = 409 THEN "correlation_conflict"
    ELSE IF status \in 400..499 THEN "rejected"
    ELSE IF status >= 500 THEN "unavailable"
    ELSE IF status \notin 200..299 THEN "rejected" ELSE "none"

\* The error code of a status, "none" when the body is to be read.
StatusCode(status) ==
    IF status \in {401, 403} THEN "unauthorized"
    ELSE IF status = 409 THEN "correlation_conflict"
    ELSE IF status = 429 \/ status >= 500 THEN "unavailable"
    ELSE IF status \notin 200..299 THEN "rejected" ELSE "none"

Retryable(error) == error \in {"unavailable", "timeout", "invalid_response"}

\* KFSA_ERROR_MESSAGES by key; any other code reads DEFAULT_KFSA_ERROR_MESSAGE.
NamedMessages == {"unauthenticated", "invalid_json", "missing_promotion_request_id",
                  "client_authored_field", "promotion_request_not_found",
                  "correlation_conflict", "timeout", "unavailable", "unauthorized",
                  "invalid_response"}

\* The message of a code.
ResolveKfsaErrorMessage(error) == IF error \in NamedMessages THEN error ELSE "default"

Answer(http, status, error) == [http |-> http, status |-> status, error |-> error]

\* The reasons of KfsaSubmissionBoundaryError and PluginBoundaryError.
BoundaryReasons == {"promotion_request_not_found", "source_plugin_not_installed",
                    "source_skill_invalid", "source_run_not_completed",
                    "context_snapshot_missing", "evidence_mismatch",
                    "correlation_conflict", "unauthenticated"}

RouteReasons == {"unauthenticated", "invalid_json", "client_authored_field",
                 "missing_promotion_request_id"}

Silent == [message |-> "none", retry |-> "unsaid"]

\* What SubmitToKfsaAction shows of the route's answer; "html" is an error
\* page, whose body is not JSON.
ShownOf(a) ==
    CASE a.status = "html" -> [message |-> "default", retry |-> "unsaid"]
      [] a.status = "error" -> [message |-> ResolveKfsaErrorMessage(a.error), retry |-> "unsaid"]
      [] a.status = "FAILED" -> [message |-> ResolveKfsaErrorMessage(a.error),
                                 retry |-> IF Retryable(a.error) THEN "yes" ELSE "no"]
      [] a.status = "IN_PROGRESS" -> [message |-> "inProgress", retry |-> "unsaid"]
      [] OTHER -> Silent

-----------------------------------------------------------------------------
(* The exchange. *)

Init ==
    /\ pc = "idle" /\ timer = FALSE /\ response = NoResponse /\ received = 0
    /\ code = "none" /\ answer = Answer(0, "none", "none") /\ shown = Silent
    /\ submits = 0

Submit ==
    /\ pc = "idle" /\ submits < MaxSubmits
    /\ submits' = submits + 1
    /\ pc' = "route" /\ shown' = Silent
    /\ response' = NoResponse /\ received' = 0 /\ code' = "none"
    /\ answer' = Answer(0, "none", "none")
    /\ UNCHANGED timer

Reply(a) ==
    /\ answer' = a /\ pc' = "answered"
    /\ UNCHANGED <<timer, response, received, code, shown, submits>>

\* The early returns of the route. A body that is JSON but no object, and a
\* service client that is not configured, end in an unstructured 500.
RouteRefuses ==
    /\ pc = "route"
    /\ \/ \E reason \in RouteReasons :
            Reply(Answer(IF reason = "unauthenticated" THEN 401 ELSE 400, "error", reason))
       \/ Reply(Answer(500, "html", "none"))

\* submitPromotionRequestForEvaluation ends before KFSA is called: a boundary
\* rejection, a replay, an attempt in progress, the failure another post ended
\* in, or an error of the database.
FlowEndsEarly ==
    /\ pc = "route"
    /\ \/ \E reason \in BoundaryReasons : Reply(Answer(403, "error", reason))
       \/ \E status \in {"REPLAYED", "IN_PROGRESS"} : Reply(Answer(200, status, "none"))
       \/ \E error \in ErrorCodes : Reply(Answer(200, "FAILED", error))
       \/ Reply(Answer(500, "html", "none"))

Send ==
    /\ pc = "route"
    /\ pc' = "connecting" /\ timer' = TRUE
    /\ UNCHANGED <<response, received, code, answer, shown, submits>>

Settle(c) ==
    /\ code' = c /\ pc' = "settled"
    /\ UNCHANGED <<received, answer, shown, submits>>

\* getKfsaRuntimeEnv throws; promotion-submission.ts records it as unavailable.
NotConfigured == pc = "route" /\ Settle("unavailable") /\ UNCHANGED <<timer, response>>

NetworkFails ==
    pc = "connecting" /\ Settle("unavailable") /\ timer' = FALSE /\ UNCHANGED response

\* Mutant: the timer is set but nothing listens to it.
TimeoutUnheard == FALSE /\ Settle("timeout") /\ timer' = FALSE /\ UNCHANGED response
Timeout ==
    pc = "connecting" /\ timer /\ Settle("timeout") /\ timer' = FALSE /\ UNCHANGED response

\* KFSA's status line and headers arrive: fetch returns and its "finally" clears
\* the timer, before the body is read.
HeadersArrive ==
    /\ pc = "connecting"
    /\ timer' = FALSE
    /\ \E status \in Statuses, body \in Bodies, size, declared \in 0..(MaxChunks + 1) :
         /\ size = 0 => body.faults = {"notJson"}
         /\ StatusCode(status) # "none" => size = 0 /\ declared = 0
         /\ response' = [status |-> status, declared |-> declared, size |-> size,
                         faults |-> body.faults, review |-> body.review]
         /\ IF StatusCode(status) # "none" THEN Settle(StatusCode(status))
            ELSE IF declared > MaxChunks THEN Settle("invalid_response")
            ELSE pc' = "reading" /\ UNCHANGED <<received, code, answer, shown, submits>>

ChunkArrives ==
    /\ pc = "reading" /\ received < response.size
    /\ UNCHANGED <<timer, response>>
    /\ IF received + 1 > MaxChunks THEN Settle("invalid_response")
       ELSE received' = received + 1 /\ UNCHANGED <<pc, code, answer, shown, submits>>

BodyBreaksOff ==
    pc = "reading" /\ Settle("invalid_response") /\ UNCHANGED <<timer, response>>

BodyEnds ==
    /\ pc = "reading" /\ received = response.size
    /\ Settle(IF "notJson" \in response.faults \/ Violation(response.faults) # 0
              THEN "invalid_response" ELSE "evaluated")
    /\ UNCHANGED <<timer, response>>

\* The outcome is recorded and the route answers with it. The insert of an
\* evaluation may be refused by the unique key: the post then replays its own
\* request's evaluation, or fails on another request's. A database that fails
\* in between makes the answer an error page.
RouteAnswers ==
    /\ pc = "settled"
    /\ \/ /\ code = "evaluated"
          /\ \/ \E status \in {"COMPLETED", "REPLAYED"} : Reply(Answer(200, status, "none"))
             \/ Reply(Answer(200, "FAILED", "correlation_conflict"))
       \/ code # "evaluated" /\ Reply(Answer(200, "FAILED", code))
       \/ Reply(Answer(500, "html", "none"))

Show ==
    /\ pc = "answered"
    /\ shown' = ShownOf(answer) /\ pc' = "idle"
    /\ UNCHANGED <<timer, response, received, code, answer, submits>>

\* The answer never reaches the browser: its fetch rejects.
AnswerLost ==
    /\ pc = "answered" /\ pc' = "idle"
    /\ answer' = Answer(0, "none", "none")
    /\ shown' = [message |-> "network", retry |-> "unsaid"]
    /\ UNCHANGED <<timer, response, received, code, submits>>

Progress == RouteRefuses \/ FlowEndsEarly \/ Send \/ NotConfigured \/ RouteAnswers \/ Show \/ AnswerLost

Next == Submit \/ Progress \/ NetworkFails \/ Timeout \/ HeadersArrive
          \/ ChunkArrives \/ BodyBreaksOff \/ BodyEnds

Spec == Init /\ [][Next]_vars

\* The server and the browser run on, an armed timer fires, and a body that
\* goes silent is broken off by the HTTP runtime under fetch in the end.
FairSpec == Spec /\ WF_vars(Progress) /\ WF_vars(Timeout)
                 /\ WF_vars(ChunkArrives \/ BodyBreaksOff \/ BodyEnds)

-----------------------------------------------------------------------------
(* Properties. *)

TypeOK ==
    /\ pc \in {"idle", "route", "connecting", "reading", "settled", "answered"}
    /\ timer \in BOOLEAN
    /\ code \in ErrorCodes \cup {"evaluated", "none"}
    /\ received \in 0..(MaxChunks + 1) /\ submits \in 0..MaxSubmits
    /\ shown.message \in NamedMessages \cup {"default", "inProgress", "network", "none"}

\* Whatever KFSA sends and however many checks a body fails, a submission is
\* told COMPLETED only for a 2xx answer without any fault; a decision-shaped
\* field, a claim of a formal decision or KFSA's own vocabulary never passes
\* (validateKfsaResponse, "the single point every byte must pass through").
OnlyCleanBodiesComplete ==
    answer.status = "COMPLETED" =>
        /\ response.status \in 200..299 /\ response.faults = {}
        /\ response.declared <= MaxChunks /\ response.size <= MaxChunks

\* The bytes kept in memory never exceed the configured maximum, whatever
\* length the answer declares (readBoundedResponseText).
BufferIsBounded == received <= MaxChunks

\* KFSA gave no answer at all: it timed out, could not be reached, or is not
\* configured.
KfsaSilent == response = NoResponse

KfsaBusy == response.status \in {429} \cup (500..599)

\* A 2xx answer with a fault, too long, or broken off before it was accepted.
KfsaGarbled ==
    /\ response.status \in 200..299
    /\ \/ response.faults # {} \/ response.declared > MaxChunks \/ response.size > MaxChunks
       \/ code # "evaluated"

\* The order of the early returns in the client, the set of retryable codes and
\* the suffix of the message agree: when a post that turned to KFSA itself fails
\* (code # "none"), the user is offered a retry exactly if KFSA was silent, busy
\* or garbled; never after an answer that refuses the request or the
\* credentials, nor when a sound evaluation lost its key to another request.
RetryIsOfferedWhenItHelps ==
    pc = "idle" /\ answer.status = "FAILED" /\ code # "none" =>
        (shown.retry = "yes" <=> KfsaSilent \/ KfsaBusy \/ KfsaGarbled)

\* A submission that did not end in an evaluation leaves a message behind:
\* the button is never released in silence (SubmitToKfsaAction.tsx).
NoSilentFailure ==
    pc = "idle" /\ submits > 0 /\ answer.status \notin {"COMPLETED", "REPLAYED"}
        => shown.message # "none"

\* Every press of the button ends in an evaluation or in a message, whether KFSA
\* answers, refuses, stops in the middle of a body or never answers at all, and
\* whether or not the route's answer arrives, is JSON, or names a known reason.
EverySubmitAnswered ==
    pc = "route" ~> /\ pc = "idle"
                    /\ answer.status \in {"COMPLETED", "REPLAYED"} \/ shown.message # "none"

\* Stated by client.ts ("authenticated server-to-server HTTP with a bounded
\* timeout"): while the server waits on KFSA the timer runs. It does not hold:
\* the timer is cleared when the headers arrive.
WaitIsBounded == pc \in {"connecting", "reading"} => timer
=============================================================================
