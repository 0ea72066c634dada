------------------------- MODULE KfsaExchangeProofs -------------------------
(***************************************************************************)
(* Proofs about one exchange with KFSA, for every set of statuses, every   *)
(* size limit and every number of faults and submits.                      *)
(***************************************************************************)
EXTENDS KfsaExchange, TLAPS

-----------------------------------------------------------------------------
(* Lemmas about the contract's checks and the classification of statuses.  *)

\* A nonempty set of check numbers has a first one.
LEMMA FirstExists ==
    ASSUME NEW S \in SUBSET (1..12), S # {}
    PROVE  \E i \in S : \A j \in S : i <= j
<1>1. SUFFICES ASSUME \A i \in S : \E j \in S : j < i
               PROVE  FALSE
    OBVIOUS
<1>2. \A i \in S : i \in 1..12
    OBVIOUS
<1>3. 1 \notin S  BY <1>1, <1>2
<1>4. 2 \notin S  BY <1>1, <1>2, <1>3
<1>5. 3 \notin S  BY <1>1, <1>2, <1>3, <1>4
<1>6. 4 \notin S  BY <1>1, <1>2, <1>3, <1>4, <1>5
<1>7. 5 \notin S  BY <1>1, <1>2, <1>3, <1>4, <1>5, <1>6
<1>8. 6 \notin S  BY <1>1, <1>2, <1>3, <1>4, <1>5, <1>6, <1>7
<1>9. \A i \in S : i \in 7..12
    BY <1>2, <1>3, <1>4, <1>5, <1>6, <1>7, <1>8
<1>10. 7 \notin S /\ 8 \notin S /\ 9 \notin S
    BY <1>1, <1>9
<1>11. 10 \notin S /\ 11 \notin S /\ 12 \notin S
    BY <1>1, <1>9, <1>10
<1>12. PICK i \in S : TRUE
    OBVIOUS
<1>13. i \in 7..12 /\ i # 7 /\ i # 8 /\ i # 9 /\ i # 10 /\ i # 11 /\ i # 12
    BY <1>9, <1>10, <1>11
<1> QED
    BY <1>13

\* A body that violates nothing has no fault the contract looks for: no early
\* return of an earlier check hides a later one.
LEMMA NoViolationNoFault ==
    ASSUME NEW faults \in SUBSET Faults, Violation(faults) = 0, "notJson" \notin faults
    PROVE  faults = {}
<1> DEFINE failed == {i \in DOMAIN ContractChecks : ContractChecks[i][1] \in faults}
<1>1. DOMAIN ContractChecks = 1..12
    BY DEF ContractChecks
<1>2. failed = {}
  <2>1. SUFFICES ASSUME failed # {} PROVE FALSE
    OBVIOUS
  <2>2. failed \in SUBSET (1..12)
    BY <1>1
  <2>3. \E i \in failed : \A j \in failed : i <= j
    BY <2>1, <2>2, FirstExists
  <2>4. (CHOOSE i \in failed : \A j \in failed : i <= j) \in failed
    BY <2>3
  <2>5. Violation(faults) = CHOOSE i \in failed : \A j \in failed : i <= j
    BY <2>1 DEF Violation
  <2> QED
    BY <2>2, <2>4, <2>5
<1>3. "formalDecision" = ContractChecks[11][1] /\ 11 \in DOMAIN ContractChecks
    BY <1>1 DEF ContractChecks
<1>4. \A f \in Faults \ {"notJson"} : \E i \in DOMAIN ContractChecks : f = ContractChecks[i][1]
    BY <1>3 DEF Faults
<1> QED
    BY <1>2, <1>4

\* The classification: a 2xx status is read, any other has a code, and the code
\* may be retried exactly for a rate limit and a server error.
LEMMA StatusClasses ==
    ASSUME NEW status \in 200..599
    PROVE  /\ StatusCode(status) = "none" <=> status \in 200..299
           /\ StatusCode(status) \in ErrorCodes \cup {"none"}
           /\ status \notin 200..299 =>
                (Retryable(StatusCode(status)) <=> status = 429 \/ status \in 500..599)
<1>1. CASE status \in {401, 403}
    BY <1>1 DEF StatusCode, ErrorCodes, Retryable
<1>2. CASE status = 409
    BY <1>2 DEF StatusCode, ErrorCodes, Retryable
<1>3. CASE status = 429 \/ status >= 500
  <2>1. StatusCode(status) = "unavailable"
    BY <1>3 DEF StatusCode
  <2> QED
    BY <1>3, <2>1 DEF ErrorCodes, Retryable
<1>4. CASE status \notin {401, 403, 409, 429} /\ status < 500 /\ status \notin 200..299
    BY <1>4 DEF StatusCode, ErrorCodes, Retryable
<1>5. CASE status \in 200..299
    BY <1>5 DEF StatusCode, ErrorCodes, Retryable
<1> QED
    BY <1>1, <1>2, <1>3, <1>4, <1>5

-----------------------------------------------------------------------------
(* The inductive invariant.                                                *)

\* What KFSA has answered, once it has.
Response == [status : Statuses, declared : 0..(MaxChunks + 1), size : 0..(MaxChunks + 1),
             faults : SUBSET Faults, review : ReviewOutcomes]

\* A response a submission may be told COMPLETED for.
Clean ==
    /\ response.status \in 200..299 /\ response.faults = {}
    /\ response.declared <= MaxChunks /\ response.size <= MaxChunks

\* Every variable holds what its declaration says.
Typed ==
    /\ pc \in {"idle", "route", "connecting", "reading", "settled", "answered"}
    /\ timer \in BOOLEAN
    /\ response \in Response \cup {NoResponse}
    /\ received \in 0..MaxChunks
    /\ code \in ErrorCodes \cup {"evaluated", "none"}
    /\ submits \in 0..MaxSubmits
    /\ shown.message \in NamedMessages \cup {"default", "inProgress", "network", "none"}

\* Before KFSA answers there is no code, while its body is read its status is
\* 2xx and its declared length within the limit, and then there is a code.
StageFits ==
    /\ pc \in {"route", "connecting"} => response = NoResponse /\ code = "none"
    /\ pc = "reading" => /\ response \in Response /\ response.status \in 200..299
                         /\ response.declared <= MaxChunks
    /\ pc = "settled" => code # "none"

\* The code is the one the response calls for, or the one of its absence.
CodeFits ==
    /\ code = "evaluated" => Clean
    /\ response = NoResponse => code \in {"none", "unavailable", "timeout"}
    /\ response \in Response /\ code \notin {"evaluated", "none"} =>
        code = IF response.status \in 200..299 THEN "invalid_response"
               ELSE StatusCode(response.status)

\* What a failed post that turned to KFSA reports: the code, or the conflict its
\* evaluation met in the table.
Reports(error) ==
    \/ error = code /\ code \in ErrorCodes
    \/ error = "correlation_conflict" /\ code = "evaluated"

\* The route's answer reports the code, and there is none until it has answered.
AnswerFits ==
    /\ answer.status \in {"none", "html", "error", "REPLAYED", "IN_PROGRESS", "COMPLETED", "FAILED"}
    /\ pc # "idle" \/ answer.status # "none" => submits > 0
    /\ answer.status = "COMPLETED" => code = "evaluated"
    /\ answer.status = "FAILED" /\ code # "none" => Reports(answer.error)
    /\ pc \in {"route", "connecting", "reading", "settled"} => answer.status = "none"
    /\ pc = "answered" => answer.status # "none"

\* An idle page shows the last answer, or that it was lost.
ShownFits ==
    pc = "idle" /\ submits > 0 =>
        \/ answer.status # "none" /\ shown = ShownOf(answer)
        \/ answer.status = "none" /\ shown.message = "network"

ExchangeInv == Typed /\ StageFits /\ CodeFits /\ AnswerFits /\ ShownFits

\* What a body that passes all checks has is no fault at all.
LEMMA EvaluatedIsClean ==
    ASSUME Typed, StageFits, pc = "reading", received = response.size,
           "notJson" \notin response.faults, Violation(response.faults) = 0
    PROVE  Clean
<1>1. response \in Response /\ response.status \in 200..299 /\ response.declared <= MaxChunks
    BY DEF StageFits
<1>2. response.faults = {}
    BY <1>1, NoViolationNoFault DEF Response
<1>3. response.size <= MaxChunks
    BY ExchangeAssumption DEF Typed
<1> QED
    BY <1>1, <1>2, <1>3 DEF Clean

\* Whatever the page is told, it shows a message of the table.
LEMMA ShownIsTyped ==
    \A a : ShownOf(a).message \in NamedMessages \cup {"default", "inProgress", "network", "none"}
BY DEF ShownOf, ResolveKfsaErrorMessage, Silent

\* The exchange begins in the invariant.
LEMMA ExchangeInit == Init => ExchangeInv
<1> SUFFICES ASSUME Init PROVE ExchangeInv
    OBVIOUS
<1> USE ExchangeAssumption DEF Init
<1>1. shown.message = "none"
    BY DEF Silent
<1>2. timer \in BOOLEAN
    OBVIOUS
<1>3. received \in 0..MaxChunks /\ submits \in 0..MaxSubmits
    OBVIOUS
<1>4. Typed
    BY <1>1, <1>2, <1>3 DEF Typed
<1>5. StageFits /\ ShownFits
    BY DEF StageFits, ShownFits
<1>6. NoResponse \notin Response
    BY DEF Response, NoResponse
<1>7. CodeFits /\ AnswerFits
    BY <1>6 DEF CodeFits, AnswerFits, Answer
<1> QED
    BY <1>4, <1>5, <1>7 DEF ExchangeInv

\* No response that KFSA gives is taken for none.
LEMMA NoResponseIsNone == NoResponse \notin Response
BY ExchangeAssumption DEF Response, NoResponse

\* Leaving the wait for KFSA with a code that fits keeps the invariant.
LEMMA SettleKeepsInv ==
    ASSUME ExchangeInv, NEW c \in ErrorCodes \cup {"evaluated"}, Settle(c),
           pc \in {"route", "connecting", "reading"}, timer' \in BOOLEAN,
           response' \in Response \cup {NoResponse},
           c = "evaluated" => Clean',
           response' = NoResponse => c \in {"unavailable", "timeout"},
           response' \in Response /\ c # "evaluated" =>
               c = IF response'.status \in 200..299 THEN "invalid_response"
                   ELSE StatusCode(response'.status)
    PROVE  ExchangeInv'
<1> USE DEF Settle
<1>1. Typed'
    BY DEF ExchangeInv, Typed
<1>2. "none" \notin ErrorCodes \cup {"evaluated"}
    BY DEF ErrorCodes
<1>3. StageFits' /\ ShownFits'
    BY <1>2 DEF StageFits, ShownFits
<1>4. CodeFits'
    BY DEF CodeFits
<1>5. AnswerFits'
    BY DEF ExchangeInv, AnswerFits
<1> QED
    BY <1>1, <1>3, <1>4, <1>5 DEF ExchangeInv

\* The parts of an answer.
LEMMA AnswerFields ==
    \A http, status, error : /\ Answer(http, status, error).status = status
                             /\ Answer(http, status, error).error = error
BY DEF Answer

\* An answer of the route that reports the code keeps the invariant.
LEMMA ReplyKeepsInv ==
    ASSUME ExchangeInv, NEW a, Reply(a), pc \in {"route", "settled"},
           a.status \in {"html", "error", "REPLAYED", "IN_PROGRESS", "COMPLETED", "FAILED"},
           a.status = "COMPLETED" => code = "evaluated",
           a.status = "FAILED" /\ code # "none" => Reports(a.error)
    PROVE  ExchangeInv'
<1> USE DEF Reply
<1>1. Typed' /\ StageFits' /\ CodeFits' /\ ShownFits'
    BY DEF ExchangeInv, Typed, StageFits, CodeFits, ShownFits, Clean
<1>2. AnswerFits'
    BY DEF ExchangeInv, AnswerFits, Reports
<1> QED
    BY <1>1, <1>2 DEF ExchangeInv

\* Every step keeps the invariant.
LEMMA ExchangeStep == ExchangeInv /\ [Next]_vars => ExchangeInv'
<1> SUFFICES ASSUME ExchangeInv, [Next]_vars PROVE ExchangeInv'
    OBVIOUS
<1> USE ExchangeAssumption, NoResponseIsNone
<1>1. CASE Submit
  <2>1. Typed' /\ StageFits'
    BY <1>1 DEF ExchangeInv, Submit, Typed, StageFits, Silent
  <2>2. CodeFits' /\ AnswerFits' /\ ShownFits'
    BY <1>1 DEF ExchangeInv, Submit, Typed, CodeFits, AnswerFits, ShownFits, Answer
  <2> QED
    BY <2>1, <2>2 DEF ExchangeInv
<1>2. CASE RouteRefuses
  <2>1. code = "none"
    BY <1>2 DEF RouteRefuses, ExchangeInv, StageFits
  <2>2. \/ \E http, reason : Reply(Answer(http, "error", reason))
        \/ Reply(Answer(500, "html", "none"))
    BY <1>2 DEF RouteRefuses
  <2>3. pc \in {"route", "settled"}
    BY <1>2 DEF RouteRefuses
  <2> QED
    BY <2>2, <2>3, AnswerFields, ReplyKeepsInv
<1>3. CASE FlowEndsEarly
  <2>1. code = "none"
    BY <1>3 DEF FlowEndsEarly, ExchangeInv, StageFits
  <2>2. \E http, status, error :
            /\ status \in {"error", "html", "REPLAYED", "IN_PROGRESS", "FAILED"}
            /\ Reply(Answer(http, status, error))
    <3>1. CASE \E reason \in BoundaryReasons : Reply(Answer(403, "error", reason))
      BY <3>1
    <3>2. CASE \E status \in {"REPLAYED", "IN_PROGRESS"} : Reply(Answer(200, status, "none"))
      BY <3>2
    <3>3. CASE \E error \in ErrorCodes : Reply(Answer(200, "FAILED", error))
      BY <3>3
    <3>4. CASE Reply(Answer(500, "html", "none"))
      BY <3>4
    <3> QED
      BY <1>3, <3>1, <3>2, <3>3, <3>4 DEF FlowEndsEarly
  <2>3. pc \in {"route", "settled"}
    BY <1>3 DEF FlowEndsEarly
  <2> QED
    BY <2>1, <2>2, <2>3, AnswerFields, ReplyKeepsInv
<1>4. CASE Send
  <2>1. Typed' /\ StageFits' /\ CodeFits' /\ ShownFits'
    BY <1>4 DEF ExchangeInv, Send, Typed, StageFits, CodeFits, ShownFits
  <2>2. AnswerFits'
    BY <1>4 DEF ExchangeInv, Send, AnswerFits
  <2> QED
    BY <2>1, <2>2 DEF ExchangeInv
<1>5. CASE NotConfigured \/ NetworkFails \/ Timeout
  <2>1. response = NoResponse /\ response' = NoResponse /\ timer' \in BOOLEAN
    BY <1>5 DEF NotConfigured, NetworkFails, Timeout, ExchangeInv, StageFits, Typed
  <2>2. PICK c \in {"unavailable", "timeout"} : Settle(c) /\ pc \in {"route", "connecting"}
    BY <1>5 DEF NotConfigured, NetworkFails, Timeout
  <2>3. c \in ErrorCodes \cup {"evaluated"} /\ c # "evaluated"
    BY DEF ErrorCodes
  <2> QED
    BY <2>1, <2>2, <2>3, SettleKeepsInv
<1>6. CASE HeadersArrive
  <2>1. PICK status \in Statuses, body \in Bodies, size \in 0..(MaxChunks + 1),
             declared \in 0..(MaxChunks + 1) :
           /\ response' = [status |-> status, declared |-> declared, size |-> size,
                           faults |-> body.faults, review |-> body.review]
           /\ IF StatusCode(status) # "none" THEN Settle(StatusCode(status))
              ELSE IF declared > MaxChunks THEN Settle("invalid_response")
              ELSE pc' = "reading" /\ UNCHANGED <<received, code, answer, shown, submits>>
    BY <1>6 DEF HeadersArrive
  <2>2. body.faults \in SUBSET Faults /\ body.review \in ReviewOutcomes
    BY DEF Bodies, ReviewOutcomes
  <2>3. response' \in Response /\ response'.status = status /\ response'.declared = declared
    BY <2>1, <2>2 DEF Response
  <2>4. pc = "connecting" /\ timer' = FALSE /\ submits' = submits
    BY <1>6 DEF HeadersArrive, Settle
  <2>5. timer' \in BOOLEAN
    BY <2>4
  <2>6. /\ StatusCode(status) = "none" <=> status \in 200..299
        /\ StatusCode(status) \in ErrorCodes \cup {"none"}
    BY StatusClasses
  <2>7. CASE StatusCode(status) # "none"
    <3>1. PICK c \in ErrorCodes \cup {"evaluated"} : c = StatusCode(status) /\ c # "evaluated"
      BY <2>6, <2>7 DEF ErrorCodes
    <3>2. Settle(c)
      BY <2>1, <2>7, <3>1
    <3>3. c = IF response'.status \in 200..299 THEN "invalid_response"
              ELSE StatusCode(response'.status)
      BY <2>3, <2>6, <2>7, <3>1
    <3> QED
      BY <2>3, <2>4, <2>5, <3>1, <3>2, <3>3, SettleKeepsInv
  <2>8. CASE StatusCode(status) = "none" /\ declared > MaxChunks
    <3>1. "invalid_response" \in ErrorCodes
      BY DEF ErrorCodes
    <3>2. Settle("invalid_response")
      BY <2>1, <2>8
    <3> QED
      BY <2>3, <2>4, <2>6, <2>8, <3>1, <3>2, SettleKeepsInv
  <2>9. CASE StatusCode(status) = "none" /\ ~(declared > MaxChunks)
    <3>1. pc' = "reading" /\ UNCHANGED <<received, code, answer, shown, submits>>
      BY <2>1, <2>9
    <3>2. Typed'
      BY <2>3, <2>4, <3>1 DEF ExchangeInv, Typed
    <3>3. declared <= MaxChunks
      BY <2>9
    <3>4. Typed' /\ StageFits' /\ ShownFits'
      BY <2>3, <2>6, <2>9, <3>1, <3>2, <3>3 DEF StageFits, ShownFits
    <3>5. CodeFits'
      BY <2>4, <3>1 DEF ExchangeInv, StageFits, CodeFits
    <3>6. AnswerFits'
      BY <2>4, <3>1 DEF ExchangeInv, AnswerFits
    <3> QED
      BY <3>4, <3>5, <3>6 DEF ExchangeInv
  <2> QED
    BY <2>7, <2>8, <2>9
<1>7. CASE ChunkArrives /\ received + 1 <= MaxChunks
  <2>1. received' = received + 1 /\ UNCHANGED <<pc, timer, response, code, answer, shown, submits>>
    BY <1>7 DEF ExchangeInv, Typed, ChunkArrives
  <2>2. Typed' /\ StageFits' /\ CodeFits' /\ ShownFits'
    BY <1>7, <2>1 DEF ExchangeInv, Typed, StageFits, CodeFits, Clean, ShownFits
  <2>3. AnswerFits'
    BY <2>1 DEF ExchangeInv, AnswerFits, Reports
  <2> QED
    BY <2>2, <2>3 DEF ExchangeInv
<1>8. CASE \/ ChunkArrives /\ ~(received + 1 <= MaxChunks)
           \/ BodyBreaksOff
           \/ BodyEnds /\ ~("notJson" \notin response.faults /\ Violation(response.faults) = 0)
  <2>1. pc = "reading" /\ Settle("invalid_response") /\ UNCHANGED <<timer, response>>
    BY <1>8 DEF ExchangeInv, Typed, ChunkArrives, BodyBreaksOff, BodyEnds
  <2>2. "invalid_response" \in ErrorCodes
    BY DEF ErrorCodes
  <2> QED
    BY <2>1, <2>2, SettleKeepsInv DEF ExchangeInv, Typed, StageFits
<1>9. CASE BodyEnds /\ "notJson" \notin response.faults /\ Violation(response.faults) = 0
  <2>1. pc = "reading" /\ Settle("evaluated") /\ UNCHANGED <<timer, response>>
    BY <1>9 DEF BodyEnds
  <2>2. Clean
    BY <1>9, <2>1, EvaluatedIsClean DEF ExchangeInv, BodyEnds
  <2>3. Clean' /\ response' # NoResponse
    BY <2>1, <2>2 DEF Clean, NoResponse
  <2> QED
    BY <2>1, <2>3, SettleKeepsInv DEF ExchangeInv, Typed
<1>10. CASE RouteAnswers
  <2>1. pc = "settled" /\ code \in ErrorCodes \cup {"evaluated"}
    BY <1>10 DEF RouteAnswers, ExchangeInv, Typed, StageFits
  <2>2. \E a : /\ Reply(a) /\ a.status \in {"html", "COMPLETED", "REPLAYED", "FAILED"}
               /\ a.status = "COMPLETED" => code = "evaluated"
               /\ a.status = "FAILED" => Reports(a.error)
    <3>1. CASE /\ code = "evaluated"
               /\ \E status \in {"COMPLETED", "REPLAYED"} : Reply(Answer(200, status, "none"))
      BY <3>1, AnswerFields
    <3>2. CASE code = "evaluated" /\ Reply(Answer(200, "FAILED", "correlation_conflict"))
      BY <3>2, AnswerFields DEF Reports
    <3>3. CASE code # "evaluated" /\ Reply(Answer(200, "FAILED", code))
      BY <2>1, <3>3, AnswerFields DEF Reports
    <3>4. CASE Reply(Answer(500, "html", "none"))
      BY <3>4, AnswerFields
    <3> QED
      BY <1>10, <3>1, <3>2, <3>3, <3>4 DEF RouteAnswers
  <2> QED
    BY <2>1, <2>2, ReplyKeepsInv
<1>11. CASE Show
  <2>1. Typed'
    BY <1>11, ShownIsTyped DEF ExchangeInv, Show, Typed
  <2>2. StageFits' /\ CodeFits' /\ AnswerFits' /\ ShownFits'
    BY <1>11 DEF ExchangeInv, Show, StageFits, CodeFits, Clean, AnswerFits, Reports, ShownFits
  <2> QED
    BY <2>1, <2>2 DEF ExchangeInv
<1>12. CASE AnswerLost
  <2>1. Typed' /\ StageFits' /\ CodeFits'
    BY <1>12 DEF ExchangeInv, AnswerLost, Typed, StageFits, CodeFits, Clean
  <2>2. AnswerFits' /\ ShownFits'
    BY <1>12 DEF AnswerLost, AnswerFits, ShownFits, Answer
  <2> QED
    BY <2>1, <2>2 DEF ExchangeInv
<1>13. CASE UNCHANGED vars
  <2>1. Typed' /\ StageFits' /\ CodeFits'
    BY <1>13 DEF ExchangeInv, vars, Typed, StageFits, CodeFits, Clean
  <2>2. AnswerFits' /\ ShownFits'
    BY <1>13 DEF ExchangeInv, vars, AnswerFits, Reports, ShownFits
  <2> QED
    BY <2>1, <2>2 DEF ExchangeInv
<1> QED
    BY <1>1, <1>2, <1>3, <1>4, <1>5, <1>6, <1>7, <1>8, <1>9, <1>10, <1>11, <1>12, <1>13
       DEF Next, Progress

\* The invariant holds throughout, whatever KFSA answers and when.
THEOREM ExchangeInvariant == Spec => []ExchangeInv
BY ExchangeInit, ExchangeStep, PTL DEF Spec

-----------------------------------------------------------------------------
(* What follows from it.                                                   *)

\* Every variable keeps its type, for any statuses and bounds.
THEOREM ExchangeTypeCorrect == Spec => []TypeOK
<1>1. ExchangeInv => TypeOK
    BY ExchangeAssumption DEF ExchangeInv, Typed, TypeOK
<1> QED
    BY <1>1, ExchangeInvariant, PTL

\* The bytes kept of a body never exceed the configured maximum.
THEOREM BufferBounded == Spec => []BufferIsBounded
<1>1. ExchangeInv => BufferIsBounded
    BY ExchangeAssumption DEF ExchangeInv, Typed, BufferIsBounded
<1> QED
    BY <1>1, ExchangeInvariant, PTL

\* A submission is told COMPLETED only for a 2xx answer within the limit whose
\* body passes every check, in whatever order the checks look.
THEOREM CompletedIsClean == Spec => []OnlyCleanBodiesComplete
<1>1. ExchangeInv => OnlyCleanBodiesComplete
    BY DEF ExchangeInv, AnswerFits, CodeFits, Clean, OnlyCleanBodiesComplete
<1> QED
    BY <1>1, ExchangeInvariant, PTL

\* A post that turned to KFSA and failed offers a retry exactly when KFSA was
\* silent, busy or garbled: not after a refusal, nor when its evaluation met
\* another request's.
THEOREM RetryHelps == Spec => []RetryIsOfferedWhenItHelps
<1>1. ASSUME ExchangeInv, pc = "idle", answer.status = "FAILED", code # "none"
      PROVE  shown.retry = "yes" <=> KfsaSilent \/ KfsaBusy \/ KfsaGarbled
  <2>1. Reports(answer.error) /\ submits > 0
    BY <1>1 DEF ExchangeInv, AnswerFits
  <2>2. shown.retry = IF Retryable(answer.error) THEN "yes" ELSE "no"
    BY <1>1, <2>1 DEF ExchangeInv, ShownFits, ShownOf
  <2>3. Retryable(answer.error) <=> KfsaSilent \/ KfsaBusy \/ KfsaGarbled
    <3>1. CASE code = "evaluated"
      <4>1. Clean /\ response # NoResponse
        BY <1>1, <3>1 DEF ExchangeInv, CodeFits
      <4>2. ~KfsaSilent /\ ~KfsaBusy
        BY <4>1 DEF Clean, KfsaSilent, KfsaBusy
      <4>3. ~KfsaGarbled
        <5>1. response \in Response
          BY <1>1, <4>1 DEF ExchangeInv, Typed
        <5>2. /\ response.declared \in Nat /\ response.size \in Nat
              /\ MaxChunks \in Nat
          BY <5>1, ExchangeAssumption DEF Response
        <5> QED
          BY <3>1, <4>1, <5>2 DEF Clean, KfsaGarbled
      <4>4. answer.error = "correlation_conflict"
        BY <2>1, <3>1 DEF Reports, ErrorCodes
      <4> QED
        BY <4>2, <4>3, <4>4 DEF Retryable
    <3>2. CASE response = NoResponse
      <4>1. code \in {"unavailable", "timeout"}
        BY <1>1, <3>2 DEF ExchangeInv, CodeFits
      <4>2. answer.error = code
        BY <2>1, <4>1 DEF Reports
      <4> QED
        BY <3>2, <4>1, <4>2 DEF Retryable, KfsaSilent
    <3>3. CASE code # "evaluated" /\ response # NoResponse
      <4>1. response \in Response /\ answer.error = code
        BY <1>1, <2>1, <3>3 DEF ExchangeInv, Typed, Reports
      <4>2. response.status \in 200..599
        BY <4>1, ExchangeAssumption DEF Response
      <4>3. code = IF response.status \in 200..299 THEN "invalid_response"
                   ELSE StatusCode(response.status)
        BY <1>1, <3>3, <4>1 DEF ExchangeInv, CodeFits
      <4>4. Retryable(code) <=> response.status \in {429} \cup (500..599) \cup (200..299)
        BY <4>2, <4>3, StatusClasses DEF Retryable
      <4>5. KfsaGarbled <=> response.status \in 200..299
        BY <3>3 DEF KfsaGarbled
      <4> QED
        BY <3>3, <4>1, <4>4, <4>5 DEF KfsaSilent, KfsaBusy
    <3> QED
      BY <3>1, <3>2, <3>3
  <2> QED
    BY <2>2, <2>3
<1>2. ExchangeInv => RetryIsOfferedWhenItHelps
    BY <1>1 DEF RetryIsOfferedWhenItHelps
<1> QED
    BY <1>2, ExchangeInvariant, PTL

\* A submission that did not end in an evaluation leaves a message behind.
THEOREM FailuresAreShown == Spec => []NoSilentFailure
<1>1. ASSUME ExchangeInv, pc = "idle", submits > 0, answer.status \notin {"COMPLETED", "REPLAYED"}
      PROVE  shown.message # "none"
  <2>1. CASE answer.status = "none"
    BY <1>1, <2>1 DEF ExchangeInv, ShownFits
  <2>2. CASE answer.status # "none"
    <3>1. answer.status \in {"html", "error", "IN_PROGRESS", "FAILED"} /\ shown = ShownOf(answer)
      BY <1>1, <2>2 DEF ExchangeInv, ShownFits, AnswerFits
    <3>2. ResolveKfsaErrorMessage(answer.error) # "none"
      BY DEF ResolveKfsaErrorMessage, NamedMessages
    <3> QED
      BY <3>1, <3>2 DEF ShownOf
  <2> QED
    BY <2>1, <2>2
<1>2. ExchangeInv => NoSilentFailure
    BY <1>1 DEF NoSilentFailure
<1> QED
    BY <1>2, ExchangeInvariant, PTL
=============================================================================
