------------------------ MODULE KfsaSubmissionProofs ------------------------
(***************************************************************************)
(* Proofs, for every number of tabs, requests and tenants and every bound  *)
(* on attempts, of what the runs of MCKfsaSubmission check on small        *)
(* instances: the attempts table, then the evaluations it leads to, then   *)
(* what stands behind every answer.                                        *)
(***************************************************************************)
EXTENDS KfsaSubmission, FiniteSetTheorems, TLAPS

-----------------------------------------------------------------------------
(* The inductive invariant of the attempts table.                          *)

Ended(p, n) == attempts[p][n].status \in {"succeeded", "failed"}

\* The attempts of a request are numbered from 1 without gaps.
Contiguous ==
    \A p \in PromotionRequests : \E k \in 0..MaxAttempts : Rows(p) = 1..k

\* A post past the insertion, won or lost, holds the number of an existing row.
NumberedPcs == OwningPcs \cup {"recoverResponse", "recoverAttempts", "auditFailed",
                               "auditLostConflict", "insertLink", "auditSucceeded"}
Numbered(t) == pc[t] \in NumberedPcs => local[t].number \in Rows(post[t].pr)

\* A post about to persist a response holds KFSA's validated answer.
Validated(t) == pc[t] = "insertResponse" => local[t].review \in ReviewOutcomes

\* A post about to mark a stale attempt means to insert the next one.
Stale(t) == pc[t] = "markStale" =>
    /\ local[t].latest \in Rows(post[t].pr)
    /\ local[t].number = local[t].latest + 1

\* A post on its way to insert attempt n knows that all attempts below n ended.
Listed(t) == pc[t] \in {"auditRequested", "auditRetried", "insertAttempt"} =>
    /\ local[t].number >= 1
    /\ \A m \in 1..(local[t].number - 1) :
          m \in AttemptNumbers /\ Ended(post[t].pr, m)

Progress(t) == Numbered(t) /\ Validated(t) /\ Stale(t) /\ Listed(t)

AttemptsInv ==
    /\ TypeOK
    /\ Contiguous
    /\ AttemptsInSequence
    /\ \A t \in Tabs : Progress(t)

\* Without gaps, the latest attempt is the number of rows.
LEMMA RowsCount ==
    ASSUME Contiguous, NEW p \in PromotionRequests
    PROVE  \E k \in 0..MaxAttempts :
              /\ Rows(p) = 1..k
              /\ NextAttemptNumber(p) = k + 1
              /\ Rows(p) # {} => LatestAttempt(p) = k
<1>1. PICK k \in 0..MaxAttempts : Rows(p) = 1..k
    BY DEF Contiguous
<1>2. Cardinality(1..k) = k
    BY FS_Interval, BoundAssumption
<1>3. Rows(p) # {} => LatestAttempt(p) = k
    BY <1>1, BoundAssumption DEF LatestAttempt
<1> QED
    BY <1>1, <1>2, <1>3 DEF NextAttemptNumber

-----------------------------------------------------------------------------
(* Type correctness.                                                       *)

\* The variables a post writes of its own, and the tables.
PostTyped == pc \in [Tabs -> Pcs] /\ post \in [Tabs -> Post] /\ answer \in [Tabs -> Answer]
TablesTyped ==
    /\ attempts \in [PromotionRequests -> [AttemptNumbers -> Attempt]]
    /\ responses \in [Keys -> SUBSET Response]
    /\ auditLinks \in SUBSET (PromotionRequests \X AttemptNumbers)
    /\ audit \in SUBSET AuditEvent

\* Moving to another awaited call, or answering, keeps a post well typed.
LEMMA GoTyped ==
    ASSUME PostTyped, NEW t \in Tabs, NEW next \in Pcs, Go(t, next)
    PROVE  PostTyped'
BY DEF PostTyped, Go

\* Answering a post keeps it well typed.
LEMMA ReturnTyped ==
    ASSUME PostTyped, NEW t \in Tabs, NEW a \in Answer, Return(t, a)
    PROVE  PostTyped'
BY DEF PostTyped, Return, Pcs

\* The answers the flow gives are answers.
LEMMA Answers ==
    /\ \A kind \in Kinds : Reply(kind) \in Answer
    /\ \A kind \in Kinds, review \in ReviewOutcomes \cup {"none"} :
          Evaluated(kind, review) \in Answer
    /\ \A e \in ErrorCodes \cup {"none"} : Failed(e) \in Answer
BY DEF Reply, Evaluated, Failed, Answer, Kinds

\* An audit row is well typed when its attempt number is.
LEMMA RecordTyped ==
    ASSUME TablesTyped, NEW type \in EventTypes, NEW p \in PromotionRequests,
           NEW n \in 0..(MaxAttempts + 1), Record(type, p, n)
    PROVE  audit' \in SUBSET AuditEvent
BY DEF TablesTyped, Record, AuditEvent

\* Every request's correlation is a key of the response table.
LEMMA KeyTyped == \A p \in PromotionRequests : Key(p) \in Keys
BY RequestsAssumption DEF Key, Keys

\* Marking an attempt writes a terminal status and an error code into its row,
\* or throws.
LEMMA MarkTyped ==
    ASSUME TypeOK, NEW t \in Tabs, NEW n \in Int,
           NEW status \in {"succeeded", "failed"}, NEW error \in ErrorCodes \cup {"none"},
           NEW ACTION continue, Mark(t, n, status, error, continue),
           continue => PostTyped'
    PROVE  TypeOK'
<1>1. PostTyped
    BY DEF TypeOK, PostTyped
<1>2. PostTyped'
    BY <1>1, ReturnTyped, Answers DEF Mark, Kinds
<1>3. attempts' \in [PromotionRequests -> [AttemptNumbers -> Attempt]]
    <2>1. CASE UNCHANGED attempts
        BY <2>1 DEF TypeOK
    <2>2. CASE attempts' = [attempts EXCEPT ![post[t].pr][n] =
                 [status |-> status, error |-> error,
                  stale |-> attempts[post[t].pr][n].stale]]
        BY <2>2 DEF TypeOK, Attempt, Post
    <2> QED
        BY <2>1, <2>2 DEF Mark
<1> QED
    BY <1>2, <1>3 DEF TypeOK, PostTyped, Mark

\* The initial state is well typed.
LEMMA InitTyped == Init => TypeOK
<1> SUFFICES ASSUME Init PROVE TypeOK
    OBVIOUS
<1>1. /\ (CHOOSE p \in PromotionRequests : TRUE) \in PromotionRequests
      /\ (CHOOSE o \in Organizations : TRUE) \in Organizations
    BY RequestsAssumption
<1>2. post \in [Tabs -> Post]
    BY <1>1 DEF Init, Post
<1>3. answer \in [Tabs -> Answer]
    BY Answers DEF Init, Kinds
<1>4. local \in [Tabs -> Local]
    BY BoundAssumption DEF Init, NoLocals, Local
<1>5. attempts \in [PromotionRequests -> [AttemptNumbers -> Attempt]]
    BY DEF Init, Attempt
<1> QED
    BY <1>2, <1>3, <1>4, <1>5 DEF Init, TypeOK, Pcs

\* Every step of a post keeps the types.
LEMMA StepTyped ==
    ASSUME TypeOK, Contiguous, NEW t \in Tabs, Progress(t), Step(t) PROVE TypeOK'
<1>1. /\ PostTyped /\ TablesTyped /\ Numbered(t) /\ Validated(t)
      /\ post[t].pr \in PromotionRequests /\ local[t] \in Local
    BY DEF TypeOK, PostTyped, TablesTyped, Post, Progress
<1>2. /\ local[t].number \in 0..(MaxAttempts + 1) /\ local[t].number \in Int
      /\ local[t].latest \in Int
      /\ local[t].error \in ErrorCodes \cup {"none"}
      /\ local[t].review \in ReviewOutcomes \cup {"none"}
    BY <1>1, BoundAssumption DEF Local
<1>3. ASSUME PostTyped', UNCHANGED <<local, tables>> PROVE TypeOK'
    BY <1>3 DEF TypeOK, PostTyped, tables
<1>4. ASSUME NEW type \in EventTypes, NEW n \in 0..(MaxAttempts + 1),
             Record(type, post[t].pr, n), PostTyped',
             UNCHANGED <<local, attempts, responses, auditLinks>>
      PROVE  TypeOK'
    BY <1>1, <1>4, RecordTyped DEF TypeOK, PostTyped
<1>5. ASSUME NEW field \in Local, local' = [local EXCEPT ![t] = field], PostTyped',
             UNCHANGED tables
      PROVE  TypeOK'
    BY <1>5 DEF TypeOK, PostTyped, tables
<1>6. CASE VerifyOwnership(t) \/ RejectOwnership(t)
    BY <1>1, <1>3, <1>6, GoTyped, ReturnTyped, Answers
       DEF VerifyOwnership, RejectOwnership, Pcs, Kinds
<1>7. ASSUME NEW next \in Pcs, ReplayIfEvaluated(t, next) PROVE PostTyped'
    <2>1. \A r \in EvaluationOf(post[t].pr) : r.review \in ReviewOutcomes
        BY <1>1, KeyTyped DEF TablesTyped, EvaluationOf, Response
    <2> QED
        BY <1>1, <1>7, <2>1, GoTyped, ReturnTyped, Answers
           DEF ReplayIfEvaluated, Kinds
<1>8. CASE ReadResponse(t) \/ RecoverResponse(t)
    BY <1>3, <1>7, <1>8 DEF ReadResponse, RecoverResponse, Pcs
<1>9. CASE AuditConflict(t) \/ AuditFailed(t) \/ AuditLostConflict(t)
    <2>1. 0 \in 0..(MaxAttempts + 1) /\ FailureEvent(local[t].error) \in EventTypes
        BY BoundAssumption DEF FailureEvent, EventTypes
    <2>2. PostTyped'
        BY <1>1, <1>2, <1>9, ReturnTyped, Answers
           DEF AuditConflict, AuditFailed, AuditLostConflict, Kinds, ErrorCodes
    <2> QED
        BY <1>2, <1>4, <1>9, <2>1, <2>2
           DEF AuditConflict, AuditFailed, AuditLostConflict, EventTypes
<1>10. CASE ListAttempts(t)
    <2> DEFINE p == post[t].pr
               latest == IF Rows(p) = {} THEN 0 ELSE LatestAttempt(p)
               listed == [local[t] EXCEPT !.number = NextAttemptNumber(p),
                                          !.latest = latest]
    <2>1. NextAttemptNumber(p) \in 0..(MaxAttempts + 1)
        BY <1>1, RowsCount, BoundAssumption
    <2>2. latest \in 0..MaxAttempts
        BY <1>1, RowsCount, BoundAssumption
    <2>3. listed \in Local
        BY <1>1, <2>1, <2>2 DEF Local
    <2>4. CASE Fresh(p)
        BY <1>1, <1>3, <1>10, <2>4, ReturnTyped, Answers DEF ListAttempts, Kinds
    <2>5. CASE ~Fresh(p)
        <3>1. PostTyped'
            BY <1>1, <1>10, <2>5, GoTyped DEF ListAttempts, Pcs
        <3>2. local' = [local EXCEPT ![t] = listed] /\ UNCHANGED tables
            BY <1>10, <2>5 DEF ListAttempts
        <3> QED
            BY <1>5, <2>3, <3>1, <3>2
    <2> QED
        BY <2>4, <2>5
<1>11. CASE MarkStale(t)
    <2>1. Go(t, "auditRequested") => PostTyped'
        BY <1>1, GoTyped DEF Pcs
    <2> QED
        BY <1>2, <1>11, <2>1, MarkTyped DEF MarkStale, ErrorCodes
<1>12. CASE AuditRequested(t) \/ AuditRetried(t) \/ AuditStarted(t)
    BY <1>1, <1>2, <1>4, <1>12, GoTyped
       DEF AuditRequested, AuditRetried, AuditStarted, Pcs, EventTypes
<1>13. CASE InsertAttempt(t)
    <2>1. PostTyped'
        BY <1>1, <1>13, GoTyped DEF InsertAttempt, Pcs
    <2>2. attempts' \in [PromotionRequests -> [AttemptNumbers -> Attempt]]
        <3>1. NewAttempt \in Attempt
            BY DEF NewAttempt, Attempt
        <3>2. CASE attempts' = [attempts EXCEPT ![post[t].pr][local[t].number] = NewAttempt]
            BY <1>1, <3>1, <3>2 DEF TablesTyped
        <3> QED
            BY <1>1, <1>13, <3>2 DEF InsertAttempt, TablesTyped
    <2> QED
        BY <1>13, <2>1, <2>2 DEF InsertAttempt, TypeOK, PostTyped
<1>14. CASE InsertRefused(t)
    BY <1>1, <1>3, <1>14, ReturnTyped, Answers DEF InsertRefused, Kinds
<1>15. CASE RecoverAttempts(t)
    <2>1. local[t].number \in AttemptNumbers
        BY <1>1, <1>15 DEF RecoverAttempts, Numbered, NumberedPcs, Rows
    <2>2. attempts[post[t].pr][local[t].number].error \in ErrorCodes \cup {"none"}
        BY <1>1, <2>1 DEF TablesTyped, Attempt
    <2>3. PostTyped'
        BY <1>1, <1>15, <2>2, ReturnTyped, Answers DEF RecoverAttempts, Kinds
    <2> QED
        BY <1>3, <1>15, <2>3 DEF RecoverAttempts
<1>16. CASE CallKfsa(t)
    BY <1>1, <1>3, <1>16, GoTyped DEF CallKfsa, Pcs
<1>17. CASE KfsaNotConfigured(t) \/ KfsaFails(t)
    <2>1. PICK e \in ErrorCodes : local' = [local EXCEPT ![t].error = e]
        BY <1>17, KfsaAssumption DEF KfsaNotConfigured, KfsaFails, ErrorCodes
    <2>2. [local[t] EXCEPT !.error = e] \in Local
        BY <1>1 DEF Local
    <2>3. PostTyped' /\ UNCHANGED tables
        BY <1>1, <1>17, GoTyped DEF KfsaNotConfigured, KfsaFails, Pcs
    <2> QED
        BY <1>5, <2>1, <2>2, <2>3
<1>18. CASE KfsaEvaluates(t)
    <2>1. PICK v \in ReviewOutcomes : local' = [local EXCEPT ![t].review = v]
        BY <1>18 DEF KfsaEvaluates
    <2>2. [local[t] EXCEPT !.review = v] \in Local
        BY <1>1 DEF Local
    <2>3. PostTyped' /\ UNCHANGED tables
        BY <1>1, <1>18, GoTyped DEF KfsaEvaluates, Pcs
    <2> QED
        BY <1>5, <2>1, <2>2, <2>3
<1>19. CASE MarkFailed(t)
    <2>1. Go(t, "auditFailed") => PostTyped'
        BY <1>1, GoTyped DEF Pcs
    <2> QED
        BY <1>2, <1>19, <2>1, MarkTyped DEF MarkFailed
<1>20. CASE InsertResponse(t)
    <2>1. PostTyped'
        BY <1>1, <1>20, GoTyped DEF InsertResponse, Pcs
    <2>2. local[t].number \in AttemptNumbers
        BY <1>1, <1>20 DEF InsertResponse, Numbered, NumberedPcs, OwningPcs, Rows
    <2>3. local[t].review \in ReviewOutcomes
        BY <1>1, <1>20 DEF InsertResponse, Validated
    <2>4. responses' \in [Keys -> SUBSET Response]
        BY <1>1, <1>20, <2>2, <2>3, KeyTyped DEF InsertResponse, TablesTyped, Response
    <2> QED
        BY <1>20, <2>1, <2>4 DEF InsertResponse, TypeOK, PostTyped
<1>21. CASE RereadResponse(t)
    <2>1. \A r \in EvaluationOf(post[t].pr) : r.review \in ReviewOutcomes
        BY <1>1, KeyTyped DEF TablesTyped, EvaluationOf, Response
    <2>2. PostTyped'
        BY <1>1, <1>21, GoTyped DEF RereadResponse, Pcs
    <2>3. \A v \in ReviewOutcomes : [local[t] EXCEPT !.review = v] \in Local
        BY <1>1 DEF Local
    <2> QED
        BY <1>3, <1>5, <1>21, <2>1, <2>2, <2>3 DEF RereadResponse
<1>22. CASE MarkReplayed(t)
    <2>1. Return(t, Evaluated("replay", local[t].review)) => PostTyped'
        BY <1>1, <1>2, ReturnTyped, Answers DEF Kinds
    <2> QED
        BY <1>2, <1>22, <2>1, MarkTyped DEF MarkReplayed
<1>23. CASE MarkConflict(t)
    <2>1. Go(t, "auditLostConflict") => PostTyped'
        BY <1>1, GoTyped DEF Pcs
    <2> QED
        BY <1>2, <1>23, <2>1, MarkTyped DEF MarkConflict, ErrorCodes
<1>24. CASE MarkSucceeded(t)
    <2>1. Go(t, "insertLink") => PostTyped'
        BY <1>1, GoTyped DEF Pcs
    <2> QED
        BY <1>2, <1>24, <2>1, MarkTyped DEF MarkSucceeded
<1>25. CASE InsertLink(t)
    <2>1. PostTyped'
        BY <1>1, <1>25, GoTyped DEF InsertLink, Pcs
    <2>2. local[t].number \in AttemptNumbers
        BY <1>1, <1>25 DEF InsertLink, Numbered, NumberedPcs, Rows
    <2> QED
        BY <1>1, <1>25, <2>1, <2>2 DEF InsertLink, TypeOK, PostTyped
<1>26. CASE AuditSucceeded(t)
    <2>1. PostTyped'
        BY <1>1, <1>2, <1>26, ReturnTyped, Answers DEF AuditSucceeded, Kinds
    <2>2. audit' \in SUBSET AuditEvent
        BY <1>1, <1>2, <1>26, RecordTyped DEF AuditSucceeded, EventTypes, TablesTyped
    <2> QED
        BY <1>26, <2>1, <2>2 DEF AuditSucceeded, TypeOK, PostTyped
<1> QED
    BY <1>6, <1>8, <1>9, <1>10, <1>11, <1>12, <1>13, <1>14, <1>15, <1>16, <1>17,
       <1>18, <1>19, <1>20, <1>21, <1>22, <1>23, <1>24, <1>25, <1>26 DEF Step

\* Every step of the system keeps the types.
LEMMA NextTyped ==
    ASSUME AttemptsInv, [Next]_vars PROVE TypeOK'
<1>1. TypeOK /\ PostTyped /\ Contiguous /\ \A t \in Tabs : Progress(t)
    BY DEF AttemptsInv, TypeOK, PostTyped
<1>2. ASSUME NEW t \in Tabs, NEW p \in PromotionRequests, NEW o \in Organizations,
             Arrive(t, p, o)
      PROVE  TypeOK'
    <2>1. NoLocals \in Local /\ Reply("none") \in Answer
        BY Answers, BoundAssumption DEF NoLocals, Local, Kinds
    <2>2. [pr |-> p, caller |-> o, late |-> EvaluationOf(p) # {}] \in Post
        BY DEF Post
    <2>3. "verify" \in Pcs
        BY DEF Pcs
    <2> QED
        BY <1>1, <1>2, <2>1, <2>2, <2>3 DEF Arrive, TypeOK, tables
<1>3. ASSUME NEW t \in Tabs, Abort(t) PROVE TypeOK'
    <2>1. PostTyped'
        BY <1>1, <1>3, ReturnTyped, Answers DEF Abort, Kinds
    <2> QED
        BY <1>1, <1>3, <2>1 DEF Abort, TypeOK, PostTyped, tables
<1>4. ASSUME NEW p \in PromotionRequests, NEW n \in AttemptNumbers, Age(p, n)
      PROVE  TypeOK'
    <2>1. [attempts[p][n] EXCEPT !.stale = TRUE] \in Attempt
        <3>1. attempts[p][n] \in Attempt
            BY <1>1 DEF TypeOK
        <3>2. \A row \in Attempt : [row EXCEPT !.stale = TRUE] \in Attempt
            BY Zenon DEF Attempt
        <3> QED
            BY <3>1, <3>2
    <2>2. attempts' = [attempts EXCEPT ![p] = [attempts[p] EXCEPT ![n] =
                          [attempts[p][n] EXCEPT !.stale = TRUE]]]
        BY <1>1, <1>4 DEF Age, TypeOK
    <2>3. attempts' \in [PromotionRequests -> [AttemptNumbers -> Attempt]]
        BY <1>1, <2>1, <2>2 DEF TypeOK
    <2> QED
        BY <1>1, <1>4, <2>3 DEF Age, TypeOK
<1>5. CASE UNCHANGED vars
    BY <1>1, <1>5 DEF vars, TypeOK
<1> QED
    BY <1>1, <1>2, <1>3, <1>4, <1>5, StepTyped DEF Next

-----------------------------------------------------------------------------
(* The attempts table.                                                     *)

\* What a step does to the attempts: a terminal row stays as it is, no row
\* disappears, and no row appears but by InsertAttempt.
AttemptsKept ==
    \A p \in PromotionRequests :
        /\ \A n \in AttemptNumbers : Ended(p, n) => attempts'[p][n] = attempts[p][n]
        /\ Rows(p)' = Rows(p)

\* A guarded update ends an attempt in progress and touches no other row.
LEMMA MarkKeeps ==
    ASSUME TypeOK, NEW t \in Tabs, NEW n \in Int,
           NEW status \in {"succeeded", "failed"}, NEW error,
           NEW ACTION continue, Mark(t, n, status, error, continue)
    PROVE  AttemptsKept
<1>1. CASE UNCHANGED attempts
    BY <1>1 DEF AttemptsKept, Rows
<1>2. CASE /\ attempts[post[t].pr][n].status = "in_progress"
           /\ attempts' = [attempts EXCEPT ![post[t].pr][n] =
                 [status |-> status, error |-> error,
                  stale |-> attempts[post[t].pr][n].stale]]
    <2>1. ASSUME NEW p \in PromotionRequests, NEW m \in AttemptNumbers
          PROVE  /\ Ended(p, m) => attempts'[p][m] = attempts[p][m]
                 /\ attempts'[p][m].status # "none" <=> attempts[p][m].status # "none"
        BY <1>2, <2>1 DEF TypeOK, Ended
    <2> QED
        BY <2>1 DEF AttemptsKept, Rows
<1> QED
    BY <1>1, <1>2 DEF Mark, Unlocked

\* Every step of a post but the insertion only ends attempts in progress.
LEMMA StepKeeps ==
    ASSUME TypeOK, NEW t \in Tabs, Step(t), ~InsertAttempt(t)
    PROVE  AttemptsKept
<1>1. local[t].number \in Int /\ local[t].latest \in Int
    BY BoundAssumption DEF TypeOK, Local
<1>2. CASE UNCHANGED attempts
    BY <1>2 DEF AttemptsKept, Rows
<1>3. CASE MarkStale(t)
    BY <1>1, <1>3, MarkKeeps DEF MarkStale
<1>4. CASE MarkFailed(t)
    BY <1>1, <1>4, MarkKeeps DEF MarkFailed
<1>5. CASE MarkReplayed(t)
    BY <1>1, <1>5, MarkKeeps DEF MarkReplayed
<1>6. CASE MarkConflict(t)
    BY <1>1, <1>6, MarkKeeps DEF MarkConflict
<1>7. CASE MarkSucceeded(t)
    BY <1>1, <1>7, MarkKeeps DEF MarkSucceeded
<1> QED
    BY <1>2, <1>3, <1>4, <1>5, <1>6, <1>7
       DEF Step, tables, VerifyOwnership, RejectOwnership, ReadResponse, AuditConflict,
           ListAttempts, AuditRequested, AuditRetried, InsertRefused, RecoverResponse,
           RecoverAttempts, AuditStarted, CallKfsa, KfsaNotConfigured, KfsaEvaluates,
           KfsaFails, AuditFailed, InsertResponse, RereadResponse, AuditLostConflict,
           InsertLink, AuditSucceeded

\* An attempt that goes stale keeps its status.
LEMMA AgeKeeps ==
    ASSUME TypeOK, NEW p \in PromotionRequests, NEW n \in AttemptNumbers, Age(p, n)
    PROVE  AttemptsKept
<1>1. attempts' = [attempts EXCEPT ![p] = [attempts[p] EXCEPT ![n] =
                      [attempts[p][n] EXCEPT !.stale = TRUE]]]
    BY DEF Age, TypeOK
<1>2. [attempts[p][n] EXCEPT !.stale = TRUE].status = attempts[p][n].status
    BY DEF TypeOK, Attempt
<1>3. ASSUME NEW q \in PromotionRequests, NEW m \in AttemptNumbers
      PROVE  /\ Ended(q, m) => attempts'[q][m] = attempts[q][m]
             /\ attempts'[q][m].status = attempts[q][m].status
    BY <1>1, <1>2, <1>3 DEF TypeOK, Ended, Age
<1> QED
    BY <1>3 DEF AttemptsKept, Rows

\* A post that inserts an attempt inserts the next one, all earlier ones ended.
LEMMA Insertion ==
    ASSUME AttemptsInv, NEW t \in Tabs, InsertAttempt(t),
           ~NumberTaken(post[t].pr, local[t].number)
    PROVE  \E k \in 0..(MaxAttempts - 1) :
              /\ local[t].number = k + 1
              /\ Rows(post[t].pr) = 1..k
              /\ Rows(post[t].pr)' = 1..(k + 1)
              /\ \A m \in 1..k : Ended(post[t].pr, m)
              /\ \A p \in PromotionRequests, m \in AttemptNumbers :
                    p # post[t].pr \/ m # k + 1 => attempts'[p][m] = attempts[p][m]
              /\ attempts'[post[t].pr][k + 1].status = "in_progress"
<1> DEFINE q == post[t].pr
           n == local[t].number
<1>1. q \in PromotionRequests /\ n \in AttemptNumbers /\ n \in Int
    BY BoundAssumption DEF AttemptsInv, TypeOK, Post, Local, InsertAttempt
<1>2. n >= 1 /\ \A m \in 1..(n - 1) : m \in AttemptNumbers /\ Ended(q, m)
    BY DEF AttemptsInv, Progress, Listed, InsertAttempt
<1>3. PICK k \in 0..MaxAttempts : Rows(q) = 1..k
    BY <1>1 DEF AttemptsInv, Contiguous
<1>4. n \notin Rows(q)
    BY DEF NumberTaken, Rows
<1>5. \A m \in 1..(n - 1) : m \in Rows(q)
    BY <1>2 DEF Ended, Rows
<1>6. n = k + 1
    <2>1. k < n
        BY <1>1, <1>2, <1>3, <1>4, BoundAssumption
    <2>2. n - 1 <= k
        <3>1. CASE n = 1
            BY <3>1, <1>3, BoundAssumption
        <3>2. CASE n # 1
            <4>1. n - 1 \in 1..(n - 1)
                BY <1>1, <1>2, <3>2
            <4> QED
                BY <4>1, <1>1, <1>3, <1>5, BoundAssumption
        <3> QED
            BY <3>1, <3>2
    <2> QED
        BY <2>1, <2>2, <1>1, <1>3, BoundAssumption
<1>7. k \in 0..(MaxAttempts - 1)
    BY <1>1, <1>3, <1>6, BoundAssumption DEF AttemptNumbers
<1>8. attempts' = [attempts EXCEPT ![q][n] = NewAttempt]
    BY DEF InsertAttempt
<1>9. /\ \A p \in PromotionRequests, m \in AttemptNumbers :
            p # q \/ m # n => attempts'[p][m] = attempts[p][m]
      /\ attempts'[q][n].status = "in_progress"
    BY <1>1, <1>8 DEF AttemptsInv, TypeOK, NewAttempt
<1>10. Rows(q)' = Rows(q) \cup {n}
    <2>1. q' = q
        BY DEF InsertAttempt, Go
    <2>2. \A m \in AttemptNumbers :
             attempts'[q][m].status # "none" <=> attempts[q][m].status # "none" \/ m = n
        BY <1>1, <1>9
    <2> QED
        BY <1>1, <2>1, <2>2 DEF Rows
<1>11. Rows(q)' = 1..(k + 1)
    BY <1>3, <1>6, <1>10, BoundAssumption
<1> QED
    BY <1>2, <1>3, <1>6, <1>7, <1>9, <1>11

\* Rows are only ever added, and a terminal row is final.
AttemptsGrow ==
    \A p \in PromotionRequests :
        /\ Rows(p) \subseteq Rows(p)'
        /\ \A n \in AttemptNumbers : Ended(p, n) => attempts'[p][n] = attempts[p][n]

\* Every step of the system keeps the numbering and the order of attempts.
LEMMA NextTable ==
    ASSUME AttemptsInv, [Next]_vars
    PROVE  AttemptsGrow /\ Contiguous' /\ AttemptsInSequence'
<1>1. TypeOK /\ Contiguous /\ AttemptsInSequence
    BY DEF AttemptsInv
<1>2. CASE AttemptsKept
    <2>1. AttemptsGrow
        BY <1>2 DEF AttemptsGrow, AttemptsKept
    <2>2. Contiguous'
        BY <1>1, <1>2 DEF AttemptsKept, Contiguous
    <2>3. ASSUME NEW p \in PromotionRequests, NEW n \in Rows(p)', NEW m \in 1..(n - 1)
          PROVE  attempts'[p][m].status \in {"succeeded", "failed"}
        <3>1. n \in Rows(p) /\ attempts[p][m].status \in {"succeeded", "failed"}
            BY <1>1, <1>2, <2>3 DEF AttemptsKept, AttemptsInSequence
        <3>2. m \in AttemptNumbers
            BY <2>3, <3>1, BoundAssumption DEF Rows, AttemptNumbers
        <3> QED
            BY <1>2, <3>1, <3>2 DEF AttemptsKept, Ended
    <2> QED
        BY <2>1, <2>2, <2>3 DEF AttemptsInSequence
<1>3. ASSUME NEW t \in Tabs, InsertAttempt(t), ~NumberTaken(post[t].pr, local[t].number)
      PROVE  AttemptsGrow /\ Contiguous' /\ AttemptsInSequence'
    <2> DEFINE q == post[t].pr
    <2>1. q \in PromotionRequests /\ post' = post
        BY <1>1, <1>3 DEF TypeOK, Post, InsertAttempt, Go
    <2>2. PICK k \in 0..(MaxAttempts - 1) :
              /\ Rows(q) = 1..k
              /\ Rows(q)' = 1..(k + 1)
              /\ \A m \in 1..k : Ended(q, m)
              /\ \A p \in PromotionRequests, m \in AttemptNumbers :
                    p # q \/ m # k + 1 => attempts'[p][m] = attempts[p][m]
        BY <1>3, Insertion
    <2>3. ASSUME NEW p \in PromotionRequests, p # q PROVE Rows(p)' = Rows(p)
        BY <2>2, <2>3 DEF Rows
    <2>4. AttemptsGrow
        <3>1. ASSUME NEW p \in PromotionRequests PROVE Rows(p) \subseteq Rows(p)'
            <4>1. CASE p = q
                BY <2>1, <2>2, <4>1, BoundAssumption
            <4> QED
                BY <2>3, <4>1
        <3>2. ASSUME NEW p \in PromotionRequests, NEW n \in AttemptNumbers, Ended(p, n)
              PROVE  p # q \/ n # k + 1
            <4>1. n \in Rows(p)
                BY <3>2 DEF Ended, Rows
            <4> QED
                BY <2>2, <4>1, BoundAssumption
        <3> QED
            BY <2>2, <3>1, <3>2 DEF AttemptsGrow
    <2>5. Contiguous'
        <3>1. ASSUME NEW p \in PromotionRequests
              PROVE  \E j \in 0..MaxAttempts : Rows(p)' = 1..j
            <4>1. CASE p = q
                <5>1. k + 1 \in 0..MaxAttempts
                    BY BoundAssumption
                <5> QED
                    BY <2>1, <2>2, <4>1, <5>1
            <4> QED
                BY <1>1, <2>3, <4>1 DEF Contiguous
        <3> QED
            BY <3>1 DEF Contiguous
    <2>6. ASSUME NEW p \in PromotionRequests, NEW n \in Rows(p)', NEW m \in 1..(n - 1)
          PROVE  attempts'[p][m].status \in {"succeeded", "failed"}
        <3>1. CASE p = q
            <4>1. m \in 1..k /\ m \in AttemptNumbers /\ m # k + 1
                BY <2>1, <2>2, <2>6, <3>1, BoundAssumption DEF AttemptNumbers
            <4> QED
                BY <2>2, <3>1, <4>1 DEF Ended
        <3>2. CASE p # q
            <4>1. n \in Rows(p) /\ attempts[p][m].status \in {"succeeded", "failed"}
                BY <1>1, <2>3, <2>6, <3>2 DEF AttemptsInSequence
            <4>2. m \in AttemptNumbers
                BY <2>6, <4>1, BoundAssumption DEF Rows, AttemptNumbers
            <4> QED
                BY <2>2, <3>2, <4>1, <4>2
        <3> QED
            BY <3>1, <3>2
    <2> QED
        BY <2>4, <2>5, <2>6 DEF AttemptsInSequence
<1>4. ASSUME NEW t \in Tabs, InsertAttempt(t), NumberTaken(post[t].pr, local[t].number)
      PROVE  AttemptsKept
    BY <1>4 DEF InsertAttempt, AttemptsKept, Rows
<1>5. UNCHANGED attempts => AttemptsKept
    BY DEF AttemptsKept, Rows
<1>6. ASSUME NEW t \in Tabs, NEW p \in PromotionRequests, NEW o \in Organizations,
             Arrive(t, p, o)
      PROVE  UNCHANGED attempts
    BY <1>6 DEF Arrive, tables
<1>7. ASSUME NEW t \in Tabs, Abort(t) PROVE UNCHANGED attempts
    BY <1>7 DEF Abort, tables
<1>8. UNCHANGED vars => UNCHANGED attempts
    BY DEF vars
<1>9. ASSUME NEW t \in Tabs, Step(t)
      PROVE  AttemptsGrow /\ Contiguous' /\ AttemptsInSequence'
    BY <1>1, <1>2, <1>3, <1>4, <1>9, StepKeeps
<1>10. ASSUME NEW p \in PromotionRequests, NEW n \in AttemptNumbers, Age(p, n)
       PROVE  AttemptsKept
    BY <1>1, <1>10, AgeKeeps
<1> QED
    BY <1>2, <1>5, <1>6, <1>7, <1>8, <1>9, <1>10 DEF Next

-----------------------------------------------------------------------------
(* What the posts know of the table as they go on.                         *)

\* A step of post t leaves every other post where it is.
MovesOnly(t) ==
    /\ UNCHANGED post
    /\ \A u \in Tabs \ {t} : pc'[u] = pc[u] /\ answer'[u] = answer[u]

\* A post that goes on disturbs no other post.
LEMMA GoMovesOnly ==
    ASSUME TypeOK, NEW t \in Tabs, NEW next, Go(t, next) PROVE MovesOnly(t)
BY DEF TypeOK, Go, MovesOnly

\* A post that is answered disturbs no other post.
LEMMA ReturnMovesOnly ==
    ASSUME TypeOK, NEW t \in Tabs, NEW a, Return(t, a) PROVE MovesOnly(t)
BY DEF TypeOK, Return, MovesOnly

\* A step of one post disturbs no other post.
LEMMA StepMovesOnly ==
    ASSUME TypeOK, NEW t \in Tabs, Step(t)
    PROVE  MovesOnly(t) /\ \A u \in Tabs \ {t} : local'[u] = local[u]
<1>1. CASE \/ VerifyOwnership(t) \/ RejectOwnership(t) \/ AuditConflict(t)
           \/ AuditRequested(t) \/ AuditRetried(t) \/ InsertRefused(t)
           \/ RecoverAttempts(t) \/ AuditStarted(t) \/ CallKfsa(t)
    BY <1>1, GoMovesOnly, ReturnMovesOnly
       DEF VerifyOwnership, RejectOwnership, AuditConflict, AuditRequested, AuditRetried,
           InsertRefused, RecoverAttempts, AuditStarted, CallKfsa
<1>2. CASE \/ AuditFailed(t) \/ InsertResponse(t) \/ InsertAttempt(t)
           \/ AuditLostConflict(t) \/ InsertLink(t) \/ AuditSucceeded(t)
    BY <1>2, GoMovesOnly, ReturnMovesOnly
       DEF AuditFailed, InsertResponse, InsertAttempt, AuditLostConflict, InsertLink,
           AuditSucceeded
<1>3. CASE ReadResponse(t) \/ RecoverResponse(t)
    BY <1>3, GoMovesOnly, ReturnMovesOnly
       DEF ReadResponse, RecoverResponse, ReplayIfEvaluated
<1>4. CASE ListAttempts(t)
    <2>1. MovesOnly(t)
        BY <1>4, GoMovesOnly, ReturnMovesOnly DEF ListAttempts
    <2>2. \A u \in Tabs \ {t} : local'[u] = local[u]
        BY <1>4 DEF ListAttempts, TypeOK
    <2> QED
        BY <2>1, <2>2
<1>5. CASE KfsaNotConfigured(t) \/ KfsaEvaluates(t) \/ KfsaFails(t) \/ RereadResponse(t)
    <2>1. MovesOnly(t)
        BY <1>5, GoMovesOnly DEF KfsaNotConfigured, KfsaEvaluates, KfsaFails, RereadResponse
    <2>2. \A u \in Tabs \ {t} : local'[u] = local[u]
        BY <1>5 DEF KfsaNotConfigured, KfsaEvaluates, KfsaFails, RereadResponse, TypeOK
    <2> QED
        BY <2>1, <2>2
<1>6. CASE \/ MarkStale(t) \/ MarkFailed(t) \/ MarkReplayed(t)
           \/ MarkConflict(t) \/ MarkSucceeded(t)
    BY <1>6, GoMovesOnly, ReturnMovesOnly
       DEF Mark, MarkStale, MarkFailed, MarkReplayed, MarkConflict, MarkSucceeded
<1> QED
    BY <1>1, <1>2, <1>3, <1>4, <1>5, <1>6 DEF Step

\* What a post knows stays true while others step.
LEMMA ProgressStable ==
    ASSUME AttemptsGrow, NEW u \in Tabs, post[u].pr \in PromotionRequests, Progress(u),
           pc'[u] = pc[u], post'[u] = post[u], local'[u] = local[u]
    PROVE  Progress(u)'
<1>1. Rows(post[u].pr) \subseteq Rows(post[u].pr)'
    BY DEF AttemptsGrow
<1>2. \A m \in AttemptNumbers : Ended(post[u].pr, m) => Ended(post[u].pr, m)'
    BY DEF AttemptsGrow, Ended
<1>3. Numbered(u)' /\ Stale(u)' /\ Validated(u)'
    BY <1>1 DEF Progress, Numbered, Stale, Validated
<1>4. Listed(u)'
    BY <1>2 DEF Progress, Listed
<1> QED
    BY <1>3, <1>4 DEF Progress

\* A post knows nothing of the table before it lists it, or once it is answered.
UninformedPcs == {"idle", "verify", "readResponse", "auditConflict", "listAttempts", "done"}

\* Before it lists the attempts, and once answered, a post knows nothing of them.
LEMMA UninformedProgress ==
    ASSUME NEW t \in Tabs, pc'[t] \in UninformedPcs PROVE Progress(t)'
BY DEF UninformedPcs, Progress, Numbered, Validated, Stale, Listed, NumberedPcs, OwningPcs

\* A post that has a numbered attempt goes on with that number.
LEMMA NumberedProgress ==
    ASSUME AttemptsGrow, NEW t \in Tabs, post[t].pr \in PromotionRequests, post' = post,
           local[t].number \in Rows(post[t].pr), local'[t].number = local[t].number,
           pc'[t] \in NumberedPcs \cup UninformedPcs,
           pc'[t] = "insertResponse" => local'[t].review \in ReviewOutcomes
    PROVE  Progress(t)'
<1>1. local[t].number \in Rows(post[t].pr)'
    BY DEF AttemptsGrow
<1> QED
    BY <1>1 DEF Progress, Numbered, Validated, Stale, Listed, NumberedPcs, OwningPcs,
                UninformedPcs

\* The post that steps keeps its own knowledge.
LEMMA StepProgress ==
    ASSUME AttemptsInv, AttemptsGrow, NEW t \in Tabs, Step(t)
    PROVE  Progress(t)'
<1> DEFINE q == post[t].pr
<1>1. TypeOK /\ Progress(t)
    BY DEF AttemptsInv
<1>2. q \in PromotionRequests /\ post' = post
    BY <1>1, StepMovesOnly DEF TypeOK, Post, MovesOnly
<1>3. /\ local[t].number \in 0..(MaxAttempts + 1) /\ local[t].number \in Int
      /\ local[t].latest \in Int
    BY <1>1, BoundAssumption DEF TypeOK, Local
<1>4. \A next : Go(t, next) => pc'[t] = next
    BY <1>1 DEF TypeOK, Go
<1>5. \A a : Return(t, a) => pc'[t] = "done"
    BY <1>1 DEF TypeOK, Return
<1>6. CASE \/ VerifyOwnership(t) \/ RejectOwnership(t) \/ ReadResponse(t)
           \/ AuditConflict(t) \/ InsertRefused(t) \/ RecoverAttempts(t)
           \/ AuditFailed(t) \/ AuditLostConflict(t) \/ AuditSucceeded(t)
    <2>1. pc'[t] \in UninformedPcs
        BY <1>4, <1>5, <1>6
           DEF VerifyOwnership, RejectOwnership, ReadResponse, ReplayIfEvaluated,
               AuditConflict, InsertRefused, RecoverAttempts, AuditFailed,
               AuditLostConflict, AuditSucceeded, UninformedPcs
    <2> QED
        BY <2>1, UninformedProgress
<1>7. CASE ListAttempts(t)
    <2>1. CASE Fresh(q)
        BY <1>5, <1>7, <2>1, UninformedProgress DEF ListAttempts, UninformedPcs
    <2>2. CASE ~Fresh(q)
        <3>1. PICK k \in 0..MaxAttempts :
                 /\ Rows(q) = 1..k
                 /\ NextAttemptNumber(q) = k + 1
                 /\ Rows(q) # {} => LatestAttempt(q) = k
            BY <1>2, RowsCount DEF AttemptsInv
        <3>2. /\ local'[t].number = k + 1
              /\ Rows(q) # {} => local'[t].latest = k
              /\ attempts' = attempts
              /\ pc'[t] = IF InFlight(q) THEN "markStale" ELSE "auditRequested"
            BY <1>1, <1>4, <1>7, <2>2, <3>1 DEF ListAttempts, TypeOK, tables, Local
        <3>3. Rows(q)' = Rows(q)
            BY <3>2, <1>2 DEF Rows
        <3>4. Numbered(t)' /\ Validated(t)'
            BY <3>2 DEF Numbered, Validated, NumberedPcs, OwningPcs
        <3>5. Stale(t)'
            <4>1. InFlight(q) => k \in Rows(q) /\ Rows(q) # {}
                BY <3>1, BoundAssumption DEF InFlight
            <4> QED
                BY <1>2, <3>2, <3>3, <4>1 DEF Stale
        <3>6. ~InFlight(q) => \A m \in 1..k : m \in AttemptNumbers /\ Ended(q, m)
            <4> SUFFICES ASSUME ~InFlight(q), NEW m \in 1..k
                         PROVE  m \in AttemptNumbers /\ Ended(q, m)
                OBVIOUS
            <4>1. m \in Rows(q) /\ k \in Rows(q) /\ Rows(q) # {}
                <5>1. m \in 1..k /\ k \in 1..k
                    BY BoundAssumption
                <5> QED
                    BY <3>1, <5>1
            <4>2. m \in AttemptNumbers /\ k \in AttemptNumbers
                BY <4>1 DEF Rows
            <4>3. CASE m = k
                <5>1. /\ attempts[q][k].status \in {"none", "in_progress", "succeeded", "failed"}
                      /\ attempts[q][k].status # "none"
                      /\ attempts[q][k].status # "in_progress"
                    BY <1>1, <1>2, <3>1, <4>1, <4>2 DEF InFlight, Rows, TypeOK, Attempt
                <5> QED
                    BY <4>2, <4>3, <5>1 DEF Ended
            <4>4. CASE m # k
                <5>1. m \in 1..(k - 1)
                    BY <4>4, BoundAssumption
                <5> QED
                    BY <1>2, <4>1, <4>2, <5>1 DEF AttemptsInv, AttemptsInSequence, Ended
            <4> QED
                BY <4>3, <4>4
        <3>7. Listed(t)'
            BY <1>2, <3>2, <3>6, BoundAssumption DEF Listed, Ended
        <3> QED
            BY <3>4, <3>5, <3>7 DEF Progress
    <2> QED
        BY <2>1, <2>2
<1>8. CASE MarkStale(t)
    <2> DEFINE l == local[t].latest
    <2>1. l \in Rows(q) /\ local[t].number = l + 1 /\ l \in AttemptNumbers
        BY <1>1, <1>8 DEF Progress, Stale, MarkStale, Rows
    <2>2. local' = local
        BY <1>8 DEF MarkStale, Mark
    <2>3. CASE Return(t, Reply("threw"))
        BY <1>5, <2>3, UninformedProgress DEF UninformedPcs
    <2>4. CASE ~Return(t, Reply("threw"))
        <3>1. /\ attempts' = [attempts EXCEPT ![q][l] =
                     [status |-> "failed", error |-> "unavailable",
                      stale |-> attempts[q][l].stale]]
              /\ pc'[t] = "auditRequested"
            BY <1>4, <1>8, <2>4 DEF MarkStale, Mark
        <3>2. attempts'[q][l].status = "failed"
            BY <1>1, <1>2, <2>1, <3>1 DEF TypeOK
        <3>3. \A m \in 1..l : m \in AttemptNumbers /\ attempts'[q][m].status \in {"succeeded", "failed"}
            <4> SUFFICES ASSUME NEW m \in 1..l
                         PROVE  m \in AttemptNumbers /\ attempts'[q][m].status \in {"succeeded", "failed"}
                OBVIOUS
            <4>1. m \in AttemptNumbers
                BY <2>1, BoundAssumption DEF AttemptNumbers
            <4>2. CASE m = l
                BY <3>2, <4>1, <4>2
            <4>3. CASE m # l
                <5>1. m \in 1..(l - 1)
                    BY <1>3, <4>3
                <5>2. attempts[q][m].status \in {"succeeded", "failed"}
                    BY <1>2, <2>1, <5>1 DEF AttemptsInv, AttemptsInSequence
                <5> QED
                    BY <1>2, <4>1, <5>2 DEF AttemptsGrow, Ended
            <4> QED
                BY <4>2, <4>3
        <3>4. Listed(t)'
            BY <1>2, <1>3, <2>1, <2>2, <3>1, <3>3, BoundAssumption
               DEF Listed, Ended, AttemptNumbers
        <3> QED
            BY <3>1, <3>4 DEF Progress, Numbered, Validated, Stale, NumberedPcs, OwningPcs
    <2> QED
        BY <2>3, <2>4
<1>9. CASE AuditRequested(t) \/ AuditRetried(t)
    <2>1. /\ pc'[t] \in {"auditRetried", "insertAttempt"}
          /\ local' = local
          /\ local[t].number >= 1
          /\ \A m \in 1..(local[t].number - 1) : m \in AttemptNumbers /\ Ended(q, m)
        BY <1>1, <1>4, <1>9 DEF AuditRequested, AuditRetried, Progress, Listed
    <2>2. Listed(t)'
        BY <1>2, <2>1 DEF Listed, AttemptsGrow, Ended
    <2> QED
        BY <2>1, <2>2 DEF Progress, Numbered, Validated, Stale, NumberedPcs, OwningPcs
<1>10. CASE InsertAttempt(t)
    <2>1. local' = local /\ local[t].number \in AttemptNumbers
        BY <1>10 DEF InsertAttempt
    <2>2. pc'[t] \in {"recoverResponse", "auditStarted"}
        BY <1>4, <1>10 DEF InsertAttempt
    <2>3. local[t].number \in Rows(q)'
        <3>1. CASE NumberTaken(q, local[t].number)
            BY <1>2, <2>1, <3>1 DEF NumberTaken, Rows, AttemptsGrow
        <3>2. CASE ~NumberTaken(q, local[t].number)
            BY <1>3, <1>10, <3>2, Insertion, BoundAssumption
        <3> QED
            BY <3>1, <3>2
    <2> QED
        BY <1>2, <2>1, <2>2, <2>3
           DEF Progress, Numbered, Validated, Stale, Listed
<1>11. CASE \/ RecoverResponse(t) \/ AuditStarted(t) \/ CallKfsa(t)
            \/ InsertResponse(t) \/ InsertLink(t)
    <2>1. /\ local' = local /\ local[t].number \in Rows(q)
          /\ pc'[t] \in NumberedPcs \cup UninformedPcs
          /\ pc'[t] # "insertResponse"
        BY <1>1, <1>4, <1>5, <1>11
           DEF RecoverResponse, ReplayIfEvaluated, AuditStarted, CallKfsa, InsertResponse,
               InsertLink, NumberedPcs, OwningPcs, UninformedPcs, Progress, Numbered
    <2> QED
        BY <1>2, <2>1, NumberedProgress
<1>12. CASE \/ MarkFailed(t) \/ MarkReplayed(t) \/ MarkConflict(t) \/ MarkSucceeded(t)
    <2>1. /\ local' = local /\ local[t].number \in Rows(q)
          /\ pc'[t] \in NumberedPcs \cup UninformedPcs
          /\ pc'[t] # "insertResponse"
        BY <1>1, <1>4, <1>5, <1>12
           DEF Mark, MarkFailed, MarkReplayed, MarkConflict, MarkSucceeded,
               NumberedPcs, OwningPcs, UninformedPcs, Progress, Numbered
    <2> QED
        BY <1>2, <2>1, NumberedProgress
<1>13. CASE KfsaNotConfigured(t) \/ KfsaEvaluates(t) \/ KfsaFails(t) \/ RereadResponse(t)
    <2>1. local'[t].number = local[t].number
        BY <1>1, <1>13
           DEF KfsaNotConfigured, KfsaEvaluates, KfsaFails, RereadResponse, TypeOK, Local
    <2>2. /\ local[t].number \in Rows(q)
          /\ pc'[t] \in NumberedPcs
        BY <1>1, <1>4, <1>13
           DEF KfsaNotConfigured, KfsaEvaluates, KfsaFails, RereadResponse,
               NumberedPcs, OwningPcs, Progress, Numbered
    <2>3. pc'[t] = "insertResponse" => local'[t].review \in ReviewOutcomes
        BY <1>1, <1>4, <1>13
           DEF KfsaNotConfigured, KfsaEvaluates, KfsaFails, RereadResponse, TypeOK, Local
    <2> QED
        BY <1>2, <2>1, <2>2, <2>3, NumberedProgress
<1> QED
    BY <1>6, <1>7, <1>8, <1>9, <1>10, <1>11, <1>12, <1>13 DEF Step

\* The invariant of the attempts table is inductive.
LEMMA AttemptsInvInit == Init => AttemptsInv
<1> SUFFICES ASSUME Init PROVE AttemptsInv
    OBVIOUS
<1>1. \A p \in PromotionRequests : Rows(p) = {}
    BY DEF Init, Rows
<1>2. Contiguous
    <2>1. 1..0 = {} /\ 0 \in 0..MaxAttempts
        BY BoundAssumption
    <2> QED
        BY <1>1, <2>1 DEF Contiguous
<1>3. AttemptsInSequence
    BY <1>1 DEF AttemptsInSequence
<1>4. \A t \in Tabs : Progress(t)
    BY DEF Init, Progress, Numbered, Validated, Stale, Listed, NumberedPcs, OwningPcs
<1> QED
    BY <1>2, <1>3, <1>4, InitTyped DEF AttemptsInv

\* Every step of the system keeps the invariant of the attempts.
LEMMA AttemptsInvNext == AttemptsInv /\ [Next]_vars => AttemptsInv'
<1> SUFFICES ASSUME AttemptsInv, [Next]_vars PROVE AttemptsInv'
    OBVIOUS
<1>1. TypeOK /\ \A t \in Tabs : Progress(t) /\ post[t].pr \in PromotionRequests
    BY DEF AttemptsInv, TypeOK, Post
<1>2. AttemptsGrow /\ Contiguous' /\ AttemptsInSequence'
    BY NextTable
<1>3. ASSUME NEW u \in Tabs PROVE Progress(u)'
    <2>1. ASSUME NEW t \in Tabs, Step(t) PROVE Progress(u)'
        <3>1. CASE u = t
            BY <1>2, <2>1, <3>1, StepProgress
        <3>2. CASE u # t
            <4>1. pc'[u] = pc[u] /\ post'[u] = post[u] /\ local'[u] = local[u]
                BY <1>1, <2>1, <3>2, StepMovesOnly DEF MovesOnly
            <4> QED
                BY <1>1, <1>2, <4>1, ProgressStable
        <3> QED
            BY <3>1, <3>2
    <2>2. ASSUME NEW t \in Tabs, NEW p \in PromotionRequests, NEW o \in Organizations,
                 Arrive(t, p, o)
          PROVE  Progress(u)'
        <3>1. CASE u = t
            BY <1>1, <2>2, <3>1, UninformedProgress DEF Arrive, UninformedPcs, TypeOK
        <3>2. CASE u # t
            <4>1. pc'[u] = pc[u] /\ post'[u] = post[u] /\ local'[u] = local[u]
                BY <1>1, <2>2, <3>2 DEF Arrive, TypeOK
            <4> QED
                BY <1>1, <1>2, <4>1, ProgressStable
        <3> QED
            BY <3>1, <3>2
    <2>3. ASSUME NEW t \in Tabs, Abort(t) PROVE Progress(u)'
        <3>1. CASE u = t
            BY <1>1, <2>3, <3>1, UninformedProgress DEF Abort, Return, UninformedPcs, TypeOK
        <3>2. CASE u # t
            <4>1. pc'[u] = pc[u] /\ post'[u] = post[u] /\ local'[u] = local[u]
                BY <1>1, <2>3, <3>2 DEF Abort, Return, TypeOK
            <4> QED
                BY <1>1, <1>2, <4>1, ProgressStable
        <3> QED
            BY <3>1, <3>2
    <2>4. ASSUME NEW p \in PromotionRequests, NEW n \in AttemptNumbers, Age(p, n)
          PROVE  Progress(u)'
        BY <1>1, <1>2, <2>4, ProgressStable DEF Age
    <2>5. UNCHANGED vars => Progress(u)'
        BY <1>1, <1>2, ProgressStable DEF vars
    <2> QED
        BY <2>1, <2>2, <2>3, <2>4, <2>5 DEF Next
<1> QED
    BY <1>2, <1>3, NextTyped DEF AttemptsInv

\* The inductive invariant of the attempts table holds in every reachable state:
\* rows are numbered without gaps, all but the last have ended, and what each
\* post in flight remembers of the table is still true of it.
THEOREM AttemptsInvariant == Spec => []AttemptsInv
BY AttemptsInvInit, AttemptsInvNext, PTL DEF Spec

\* Every variable keeps its type, however many posts race, die and retry.
THEOREM TypeCorrect == Spec => []TypeOK
<1>1. AttemptsInv => TypeOK
    BY DEF AttemptsInv
<1> QED
    BY <1>1, AttemptsInvariant, PTL

\* The attempts of a promotion request follow one another: an attempt is in
\* the table only if all those numbered below it are, and have ended.
THEOREM AttemptsFollowInSequence == Spec => []AttemptsInSequence
<1>1. AttemptsInv => AttemptsInSequence
    BY DEF AttemptsInv
<1> QED
    BY <1>1, AttemptsInvariant, PTL

-----------------------------------------------------------------------------
(***************************************************************************)
(* Evaluations.  Whatever posts race, die or retry, a correlation is       *)
(* evaluated once, an attempt succeeds only with an evaluation, every tab  *)
(* told an evaluation is told the persisted one, and the gateway therefore *)
(* implements EvaluationRegister.                                          *)
(***************************************************************************)

-----------------------------------------------------------------------------
(* The inductive invariant of the persisted evaluations.                   *)

\* A correlation has at most one response, that of one of its own requests.
OneEvaluation ==
    \A k \in Keys : \A r \in responses[k] :
        Key(r.pr) = k /\ \A s \in responses[k] : s = r

\* A post past its ownership check comes from the tenant that owns the request.
Owned(t) == pc[t] \notin {"idle", "verify", "done"} =>
    OrganizationOf[post[t].pr] = post[t].caller

\* A post about to report an evaluation holds the persisted one.
EvaluatedPcs == {"markReplayed", "markSucceeded", "insertLink", "auditSucceeded"}
HoldsEvaluation(t) == pc[t] \in EvaluatedPcs =>
    \E r \in EvaluationOf(post[t].pr) : r.pr = post[t].pr /\ r.review = local[t].review

\* A tab told an evaluation has been told the persisted one.
Agrees(t) == answer[t].kind \in {"succeeded", "replay"} =>
    /\ OrganizationOf[post[t].pr] = post[t].caller
    /\ \A r \in EvaluationOf(post[t].pr) :
          r.pr = post[t].pr /\ r.review = answer[t].review
    /\ EvaluatedFor(post[t].pr)

Informed(t) == Owned(t) /\ HoldsEvaluation(t) /\ Agrees(t)

EvaluationsInv ==
    /\ OneEvaluation
    /\ SuccessIsEvaluated
    /\ \A t \in Tabs : Informed(t)

\* The post's own agreement, over all posts, is EvaluatedAnswersAgree.
LEMMA AgreesAll == EvaluationsInv => EvaluatedAnswersAgree
BY DEF EvaluationsInv, Informed, Agrees, EvaluatedAnswersAgree

-----------------------------------------------------------------------------
(* The responses table.                                                    *)

\* A response once persisted is the only one of its correlation.
ResponsesKept ==
    /\ \A k \in Keys : responses[k] # {} => responses'[k] = responses[k]
    /\ \A k \in Keys : responses[k] \subseteq responses'[k]

\* Only InsertResponse writes the table, and only where it holds nothing.
LEMMA ResponseInserted ==
    ASSUME TypeOK, NEW t \in Tabs, InsertResponse(t)
    PROVE  \/ UNCHANGED responses /\ Go(t, "reread")
           \/ /\ EvaluationOf(post[t].pr) = {}
              /\ responses' = [responses EXCEPT ![Key(post[t].pr)] =
                    {[pr |-> post[t].pr, number |-> local[t].number,
                      review |-> local[t].review]}]
              /\ Go(t, "markSucceeded")
<1>1. post[t].pr \in PromotionRequests
    BY DEF TypeOK, Post
<1>2. responses[Key(post[t].pr)] = EvaluationOf(post[t].pr)
    BY DEF EvaluationOf
<1> QED
    BY <1>1, <1>2 DEF InsertResponse, CorrelationTaken, TypeOK

\* Every step of a post but InsertResponse leaves the responses alone.
LEMMA StepResponses ==
    ASSUME TypeOK, NEW t \in Tabs, Step(t), ~InsertResponse(t)
    PROVE  UNCHANGED responses
BY DEF Step, tables, Mark, VerifyOwnership, RejectOwnership, ReadResponse, AuditConflict,
       ListAttempts, MarkStale, AuditRequested, AuditRetried, InsertAttempt, InsertRefused,
       RecoverResponse, RecoverAttempts, AuditStarted, CallKfsa, KfsaNotConfigured,
       KfsaEvaluates, KfsaFails, MarkFailed, AuditFailed, RereadResponse, MarkReplayed,
       MarkConflict, AuditLostConflict, MarkSucceeded, InsertLink, AuditSucceeded

\* A key holds at most one response, which no step replaces or removes.
LEMMA NextResponses ==
    ASSUME TypeOK, OneEvaluation, [Next]_vars
    PROVE  ResponsesKept /\ OneEvaluation'
<1>1. UNCHANGED responses => ResponsesKept /\ OneEvaluation'
    BY DEF ResponsesKept, OneEvaluation, Key
<1>2. ASSUME NEW t \in Tabs, InsertResponse(t) PROVE ResponsesKept /\ OneEvaluation'
    <2> DEFINE q == post[t].pr
               row == [pr |-> q, number |-> local[t].number, review |-> local[t].review]
    <2>1. CASE UNCHANGED responses
        BY <1>1, <2>1
    <2>2. CASE EvaluationOf(q) = {} /\ responses' = [responses EXCEPT ![Key(q)] = {row}]
        <3>1. q \in PromotionRequests /\ Key(q) \in Keys /\ row.pr = q
            BY KeyTyped DEF TypeOK, Post
        <3>2. \A k \in Keys : responses'[k] = IF k = Key(q) THEN {row} ELSE responses[k]
            BY <2>2, <3>1 DEF TypeOK
        <3>3. ResponsesKept
            BY <2>2, <3>2 DEF ResponsesKept, EvaluationOf
        <3>4. OneEvaluation'
            BY <3>1, <3>2 DEF OneEvaluation, Key
        <3> QED
            BY <3>3, <3>4
    <2> QED
        BY <1>2, <2>1, <2>2, ResponseInserted
<1>3. ASSUME NEW t \in Tabs, Step(t) PROVE ResponsesKept /\ OneEvaluation'
    BY <1>1, <1>2, <1>3, StepResponses
<1> QED
    BY <1>1, <1>3 DEF Next, Arrive, Abort, Age, tables, vars

-----------------------------------------------------------------------------
(* What the posts know of the responses as they go on.                     *)

\* What is known of an evaluated request stays true.
LEMMA EvaluationStable ==
    ASSUME ResponsesKept, NEW p \in PromotionRequests, EvaluationOf(p) # {}
    PROVE  EvaluationOf(p)' = EvaluationOf(p)
BY KeyTyped DEF ResponsesKept, EvaluationOf, Key

\* What a post knows of its evaluation stays true while others step.
LEMMA InformedStable ==
    ASSUME ResponsesKept, NEW u \in Tabs, post[u].pr \in PromotionRequests, Informed(u),
           pc'[u] = pc[u], post'[u] = post[u], local'[u] = local[u], answer'[u] = answer[u]
    PROVE  Informed(u)'
<1> DEFINE q == post[u].pr
<1>1. EvaluationOf(q) # {} => EvaluationOf(q)' = EvaluationOf(q)
    BY EvaluationStable DEF EvaluationOf, Key
<1>2. Owned(u)'
    BY DEF Informed, Owned
<1>3. HoldsEvaluation(u)'
    BY <1>1 DEF Informed, HoldsEvaluation
<1>4. Agrees(u)'
    BY <1>1 DEF Informed, Agrees, EvaluatedFor
<1> QED
    BY <1>2, <1>3, <1>4 DEF Informed

\* A post that goes on without reporting an evaluation.
LEMMA GoInformed ==
    ASSUME TypeOK, ResponsesKept, NEW t \in Tabs, NEW next \in Pcs, Go(t, next),
           Informed(t), OrganizationOf[post[t].pr] = post[t].caller,
           next \in EvaluatedPcs => HoldsEvaluation(t)'
    PROVE  Informed(t)'
<1> DEFINE q == post[t].pr
<1>1. q \in PromotionRequests /\ post' = post /\ answer' = answer /\ pc'[t] = next
    BY DEF TypeOK, Post, Go
<1>2. EvaluationOf(q) # {} => EvaluationOf(q)' = EvaluationOf(q)
    BY <1>1, EvaluationStable
<1>3. Owned(t)' /\ HoldsEvaluation(t)'
    BY <1>1 DEF Owned, HoldsEvaluation
<1>4. Agrees(t)'
    BY <1>1, <1>2 DEF Informed, Agrees, EvaluatedFor
<1> QED
    BY <1>3, <1>4 DEF Informed

\* A post that is answered without an evaluation.
LEMMA ReturnInformed ==
    ASSUME TypeOK, NEW t \in Tabs, NEW a, Return(t, a), a.kind \notin {"succeeded", "replay"}
    PROVE  Informed(t)'
<1>1. pc'[t] = "done" /\ answer'[t] = a
    BY DEF TypeOK, Return
<1> QED
    BY <1>1 DEF Informed, Owned, HoldsEvaluation, Agrees, EvaluatedPcs

\* A post that is answered with the persisted evaluation.
LEMMA TellInformed ==
    ASSUME TypeOK, OneEvaluation, UNCHANGED responses, NEW t \in Tabs,
           NEW kind, NEW r \in EvaluationOf(post[t].pr), r.pr = post[t].pr,
           Return(t, Evaluated(kind, r.review)),
           OrganizationOf[post[t].pr] = post[t].caller
    PROVE  Informed(t)'
<1> DEFINE q == post[t].pr
<1>1. /\ q \in PromotionRequests /\ post' = post /\ pc'[t] = "done"
      /\ answer'[t].review = r.review
    BY DEF TypeOK, Post, Return, Evaluated
<1>2. \A s \in EvaluationOf(q) : s = r
    BY <1>1, KeyTyped DEF OneEvaluation, EvaluationOf
<1>3. EvaluationOf(q)' = EvaluationOf(q)
    BY <1>1 DEF EvaluationOf, Key
<1>4. Agrees(t)'
    BY <1>1, <1>2, <1>3 DEF Agrees, EvaluatedFor
<1> QED
    BY <1>1, <1>4 DEF Informed, Owned, HoldsEvaluation, EvaluatedPcs

\* The post that steps keeps its own knowledge.
LEMMA StepInformed ==
    ASSUME TypeOK, OneEvaluation, ResponsesKept, NEW t \in Tabs, Informed(t), Step(t)
    PROVE  Informed(t)'
<1> DEFINE q == post[t].pr
<1>1. q \in PromotionRequests
    BY DEF TypeOK, Post
<1>2. CASE VerifyOwnership(t)
    BY <1>2, GoInformed DEF VerifyOwnership, OwnsRequest, Pcs, EvaluatedPcs
<1>3. CASE RejectOwnership(t)
    BY <1>3, ReturnInformed DEF RejectOwnership, Reply
<1> SUFFICES ASSUME ~VerifyOwnership(t), ~RejectOwnership(t) PROVE Informed(t)'
    BY <1>2, <1>3
<1>4. pc[t] \notin {"idle", "verify", "done"}
    BY DEF Step, Mark, ReadResponse, AuditConflict,
       ListAttempts, MarkStale, AuditRequested, AuditRetried, InsertAttempt, InsertRefused,
       RecoverResponse, RecoverAttempts, AuditStarted, CallKfsa, KfsaNotConfigured,
       KfsaEvaluates, KfsaFails, MarkFailed, AuditFailed, InsertResponse, RereadResponse,
       MarkReplayed, MarkConflict, AuditLostConflict, MarkSucceeded, InsertLink,
       AuditSucceeded
<1>5. OrganizationOf[q] = post[t].caller
    BY <1>4 DEF Informed, Owned
<1>6. ASSUME NEW next \in Pcs \ EvaluatedPcs, Go(t, next) PROVE Informed(t)'
    BY <1>5, <1>6, GoInformed
<1>7. ASSUME NEW next \in Pcs \ EvaluatedPcs, ReplayIfEvaluated(t, next), UNCHANGED responses
      PROVE  Informed(t)'
    <2>1. CASE Go(t, next)
        BY <1>6, <2>1
    <2>2. CASE \E r \in EvaluationOf(q) : r.pr = q /\ Return(t, Evaluated("replay", r.review))
        BY <1>5, <1>7, <2>2, TellInformed
    <2> QED
        BY <1>7, <2>1, <2>2 DEF ReplayIfEvaluated
<1>8. CASE ReadResponse(t) \/ RecoverResponse(t)
    BY <1>7, <1>8 DEF ReadResponse, RecoverResponse, Pcs, EvaluatedPcs, tables
<1>9. CASE AuditConflict(t) \/ InsertRefused(t) \/ RecoverAttempts(t)
    BY <1>9, ReturnInformed
       DEF AuditConflict, InsertRefused, RecoverAttempts, Reply, Failed
<1>10. CASE AuditFailed(t) \/ AuditLostConflict(t)
    BY <1>10, ReturnInformed DEF AuditFailed, AuditLostConflict, Failed
<1>11. CASE ListAttempts(t)
    BY <1>6, <1>11, ReturnInformed DEF ListAttempts, Reply, Pcs, EvaluatedPcs
<1>12. CASE \/ AuditRequested(t) \/ AuditRetried(t) \/ InsertAttempt(t)
            \/ AuditStarted(t) \/ CallKfsa(t)
    BY <1>6, <1>12
       DEF AuditRequested, AuditRetried, InsertAttempt, AuditStarted, CallKfsa,
           Pcs, EvaluatedPcs
<1>13. CASE KfsaNotConfigured(t) \/ KfsaEvaluates(t) \/ KfsaFails(t)
    BY <1>6, <1>13 DEF KfsaNotConfigured, KfsaEvaluates, KfsaFails, Pcs, EvaluatedPcs
<1>14. Return(t, Reply("threw")) => Informed(t)'
    BY ReturnInformed DEF Reply
<1>15. CASE MarkStale(t) \/ MarkFailed(t) \/ MarkConflict(t)
    BY <1>6, <1>14, <1>15 DEF Mark, MarkStale, MarkFailed, MarkConflict, Pcs, EvaluatedPcs
<1>16. CASE InsertResponse(t)
    <2>1. CASE Go(t, "reread")
        BY <1>6, <2>1 DEF Pcs, EvaluatedPcs
    <2>2. CASE /\ EvaluationOf(q) = {}
               /\ responses' = [responses EXCEPT ![Key(q)] =
                     {[pr |-> q, number |-> local[t].number, review |-> local[t].review]}]
               /\ Go(t, "markSucceeded")
        <3>1. EvaluationOf(q)' =
                 {[pr |-> q, number |-> local[t].number, review |-> local[t].review]}
            BY <1>1, <2>2, KeyTyped DEF EvaluationOf, TypeOK, Key, Go
        <3>2. HoldsEvaluation(t)'
            BY <1>16, <2>2, <3>1 DEF HoldsEvaluation, InsertResponse, Go
        <3> QED
            BY <1>5, <2>2, <3>2, GoInformed DEF Pcs
    <2> QED
        BY <1>16, <2>1, <2>2, ResponseInserted
<1>17. CASE RereadResponse(t)
    <2>1. CASE Go(t, "markConflict")
        BY <1>6, <2>1 DEF Pcs, EvaluatedPcs
    <2>2. ASSUME NEW r \in EvaluationOf(q), r.pr = q, UNCHANGED responses,
                 local' = [local EXCEPT ![t].review = r.review], Go(t, "markReplayed")
          PROVE  Informed(t)'
        <3>1. local'[t].review = r.review
            BY <2>2 DEF TypeOK, Local
        <3>2. HoldsEvaluation(t)'
            BY <2>2, <3>1 DEF HoldsEvaluation, Go, EvaluationOf, Key
        <3> QED
            BY <1>5, <2>2, <3>2, GoInformed DEF Pcs
    <2> QED
        BY <1>17, <2>1, <2>2 DEF RereadResponse, tables
<1>18. CASE MarkSucceeded(t) \/ InsertLink(t)
    <2>1. CASE Go(t, "insertLink") \/ Go(t, "auditSucceeded")
        <3>1. UNCHANGED <<post, local, responses>> /\ pc[t] \in EvaluatedPcs
            BY <1>18, <2>1 DEF MarkSucceeded, InsertLink, Mark, Go, EvaluatedPcs
        <3>2. HoldsEvaluation(t)'
            BY <3>1 DEF Informed, HoldsEvaluation, EvaluationOf, Key
        <3> QED
            BY <1>5, <2>1, <3>2, GoInformed DEF Pcs
    <2> QED
        BY <1>14, <1>18, <2>1 DEF MarkSucceeded, InsertLink, Mark
<1>19. CASE MarkReplayed(t) \/ AuditSucceeded(t)
    <2>1. PICK r \in EvaluationOf(q) : r.pr = q /\ r.review = local[t].review
        BY <1>19 DEF Informed, HoldsEvaluation, EvaluatedPcs, MarkReplayed, AuditSucceeded
    <2>2. \E kind \in {"replay", "succeeded"} :
              Return(t, Evaluated(kind, r.review)) \/ Return(t, Reply("threw"))
        BY <1>19, <2>1 DEF MarkReplayed, AuditSucceeded, Mark
    <2>3. UNCHANGED responses
        BY <1>19 DEF MarkReplayed, AuditSucceeded, Mark
    <2> QED
        BY <1>5, <1>14, <2>1, <2>2, <2>3, TellInformed
<1> QED
    BY <1>8, <1>9, <1>10, <1>11, <1>12, <1>13, <1>15, <1>16, <1>17, <1>18, <1>19 DEF Step

-----------------------------------------------------------------------------
(* The theorems.                                                           *)

\* An attempt becomes succeeded only where its post holds the evaluation.
LEMMA SuccessKept ==
    ASSUME TypeOK, SuccessIsEvaluated, ResponsesKept, \A t \in Tabs : Informed(t),
           [Next]_vars
    PROVE  SuccessIsEvaluated'
<1>1. ASSUME NEW p \in PromotionRequests, EvaluatedFor(p) PROVE EvaluatedFor(p)'
    BY <1>1, EvaluationStable DEF EvaluatedFor
<1>2. ASSUME \A p \in PromotionRequests, n \in AttemptNumbers :
                attempts'[p][n].status = "succeeded" =>
                    attempts[p][n].status = "succeeded" \/ EvaluatedFor(p)
      PROVE  SuccessIsEvaluated'
    BY <1>1, <1>2 DEF SuccessIsEvaluated
<1>3. CASE UNCHANGED attempts
    BY <1>2, <1>3
<1>4. ASSUME NEW t \in Tabs, NEW n, NEW row, row.status # "succeeded" \/ EvaluatedFor(post[t].pr),
             attempts' = [attempts EXCEPT ![post[t].pr][n] = row]
      PROVE  SuccessIsEvaluated'
    BY <1>2, <1>4 DEF TypeOK
<1>5. ASSUME NEW t \in Tabs, NEW n, NEW status, NEW error, NEW ACTION continue,
             Mark(t, n, status, error, continue),
             status # "succeeded" \/ EvaluatedFor(post[t].pr)
      PROVE  SuccessIsEvaluated'
    <2>1. [status |-> status, error |-> error,
           stale |-> attempts[post[t].pr][n].stale].status = status
        OBVIOUS
    <2> QED
        BY <1>3, <1>4, <1>5, <2>1 DEF Mark
<1>6. ASSUME NEW t \in Tabs, Step(t) PROVE SuccessIsEvaluated'
    <2>1. CASE MarkStale(t) \/ MarkFailed(t) \/ MarkConflict(t)
        BY <1>5, <2>1 DEF MarkStale, MarkFailed, MarkConflict
    <2>2. CASE MarkReplayed(t) \/ MarkSucceeded(t)
        <3>1. EvaluatedFor(post[t].pr)
            BY <1>6, <2>2
               DEF Informed, HoldsEvaluation, EvaluatedFor, EvaluatedPcs,
                   MarkReplayed, MarkSucceeded
        <3> QED
            BY <1>5, <2>2, <3>1 DEF MarkReplayed, MarkSucceeded
    <2>3. CASE InsertAttempt(t)
        <3>1. NewAttempt.status # "succeeded"
            BY DEF NewAttempt
        <3> QED
            BY <1>3, <1>4, <2>3, <3>1 DEF InsertAttempt
    <2> QED
        BY <1>3, <1>6, <2>1, <2>2, <2>3
           DEF Step, tables, VerifyOwnership, RejectOwnership, ReadResponse, AuditConflict,
               ListAttempts, AuditRequested, AuditRetried, InsertRefused, RecoverResponse,
               RecoverAttempts, AuditStarted, CallKfsa, KfsaNotConfigured, KfsaEvaluates,
               KfsaFails, AuditFailed, InsertResponse, RereadResponse, AuditLostConflict,
               InsertLink, AuditSucceeded
<1>7. ASSUME NEW p \in PromotionRequests, NEW n \in AttemptNumbers, Age(p, n)
      PROVE  SuccessIsEvaluated'
    <2>1. attempts' = [attempts EXCEPT ![p] = [attempts[p] EXCEPT ![n] =
                          [attempts[p][n] EXCEPT !.stale = TRUE]]]
        BY <1>7 DEF Age, TypeOK
    <2>2. [attempts[p][n] EXCEPT !.stale = TRUE].status = attempts[p][n].status
        BY DEF TypeOK, Attempt
    <2> QED
        BY <1>2, <2>1, <2>2 DEF TypeOK
<1> QED
    BY <1>3, <1>6, <1>7 DEF Next, Arrive, Abort, tables, vars

\* No response, no success and no answer: the invariant holds at first.
LEMMA EvaluationsInvInit == Init => EvaluationsInv
<1> SUFFICES ASSUME Init PROVE EvaluationsInv
    OBVIOUS
<1>1. OneEvaluation /\ SuccessIsEvaluated
    BY DEF Init, OneEvaluation, SuccessIsEvaluated
<1>2. \A t \in Tabs : Informed(t)
    BY DEF Init, Informed, Owned, HoldsEvaluation, Agrees, EvaluatedPcs, Reply
<1> QED
    BY <1>1, <1>2 DEF EvaluationsInv

\* Every step of the system keeps the invariant, given that of the attempts.
LEMMA EvaluationsInvNext ==
    ASSUME TypeOK, EvaluationsInv, [Next]_vars PROVE EvaluationsInv'
<1>1. /\ OneEvaluation /\ SuccessIsEvaluated
      /\ \A u \in Tabs : Informed(u) /\ post[u].pr \in PromotionRequests
    BY DEF EvaluationsInv, TypeOK, Post
<1>2. ResponsesKept /\ OneEvaluation'
    BY <1>1, NextResponses
<1>3. SuccessIsEvaluated'
    BY <1>1, <1>2, SuccessKept
<1>4. ASSUME NEW u \in Tabs, pc'[u] = pc[u], post'[u] = post[u], local'[u] = local[u],
             answer'[u] = answer[u]
      PROVE  Informed(u)'
    BY <1>1, <1>2, <1>4, InformedStable
<1>5. ASSUME NEW u \in Tabs PROVE Informed(u)'
    <2>1. ASSUME NEW t \in Tabs, Step(t) PROVE Informed(u)'
        <3>1. CASE u = t
            BY <1>1, <1>2, <2>1, <3>1, StepInformed
        <3>2. CASE u # t
            BY <1>4, <2>1, <3>2, StepMovesOnly DEF MovesOnly
        <3> QED
            BY <3>1, <3>2
    <2>2. ASSUME NEW t \in Tabs, NEW p \in PromotionRequests, NEW o \in Organizations,
                 Arrive(t, p, o)
          PROVE  Informed(u)'
        <3>1. CASE u = t
            <4>1. pc'[u] = "verify" /\ answer'[u].kind = "none"
                BY <2>2, <3>1 DEF Arrive, TypeOK, Reply
            <4> QED
                BY <4>1 DEF Informed, Owned, HoldsEvaluation, Agrees, EvaluatedPcs
        <3>2. CASE u # t
            BY <1>4, <2>2, <3>2 DEF Arrive, TypeOK
        <3> QED
            BY <3>1, <3>2
    <2>3. ASSUME NEW t \in Tabs, Abort(t) PROVE Informed(u)'
        <3>1. CASE u = t
            BY <2>3, <3>1, ReturnInformed DEF Abort, Reply
        <3>2. CASE u # t
            BY <1>4, <2>3, <3>2 DEF Abort, Return, TypeOK
        <3> QED
            BY <3>1, <3>2
    <2>4. ASSUME NEW p \in PromotionRequests, NEW n \in AttemptNumbers, Age(p, n)
          PROVE  Informed(u)'
        BY <1>4, <2>4 DEF Age
    <2>5. UNCHANGED vars => Informed(u)'
        BY <1>4 DEF vars
    <2> QED
        BY <2>1, <2>2, <2>3, <2>4, <2>5 DEF Next
<1> QED
    BY <1>2, <1>3, <1>5 DEF EvaluationsInv

\* The inductive invariant of the responses holds in every reachable state:
\* one evaluation per correlation, and every post's knowledge of it is right.
THEOREM EvaluationsInvariant == Spec => []EvaluationsInv
<1>1. TypeOK /\ EvaluationsInv /\ [Next]_vars => EvaluationsInv'
    BY EvaluationsInvNext
<1> QED
    BY <1>1, EvaluationsInvInit, TypeCorrect, PTL DEF Spec

\* An attempt is recorded as succeeded only when an evaluation of its own
\* promotion request is persisted.
THEOREM SuccessOnlyIfEvaluated == Spec => []SuccessIsEvaluated
<1>1. EvaluationsInv => SuccessIsEvaluated
    BY DEF EvaluationsInv
<1> QED
    BY <1>1, EvaluationsInvariant, PTL

\* Every tab told COMPLETED or REPLAYED is told the one persisted evaluation
\* of the request it posted, which belongs to its own tenant.
THEOREM AnswersAgree == Spec => []EvaluatedAnswersAgree
BY AgreesAll, EvaluationsInvariant, PTL

-----------------------------------------------------------------------------
(* Refinement.                                                             *)

\* The empty tables are the empty register.
LEMMA RegisterInit == Init => Register!Init
<1> SUFFICES ASSUME Init PROVE Register!Init
    OBVIOUS
<1>1. \A k \in Keys : Evaluations(k) = {}
    BY DEF Init, Evaluations
<1>2. \A t \in Tabs : Told(t) = {}
    BY DEF Init, Told, Reply
<1> QED
    BY <1>1, <1>2 DEF Register!Init, Register!Keys, Keys

\* Nothing recorded and one tab's answer: the tab is told, or forgets.
LEMMA AnswerRefines ==
    ASSUME TypeOK, EvaluationsInv, EvaluationsInv', UNCHANGED responses, NEW t \in Tabs,
           \A u \in Tabs \ {t} : post'[u] = post[u] /\ answer'[u] = answer[u],
           NEW q \in PromotionRequests, post'[t].pr = q
    PROVE  [Register!Next]_(Register!vars)
<1> DEFINE evaluation == [k \in Keys |-> Evaluations(k)]
           told == [u \in Tabs |-> Told(u)]
<1>1. evaluation' = evaluation
    BY DEF Evaluations
<1>2. \A u \in Tabs \ {t} : Told(u)' = Told(u)
    BY DEF Told
<1>3. told' = [told EXCEPT ![t] = Told(t)']
    BY <1>2
<1>4. CASE answer'[t].kind \in {"succeeded", "replay"}
    <2>1. PICK r \in EvaluationOf(q) : r.pr = q /\ r.review = answer'[t].review
        <3>1. /\ \E r \in EvaluationOf(q)' : r.pr = q
              /\ \A r \in EvaluationOf(q)' : r.pr = q /\ r.review = answer'[t].review
            BY <1>4 DEF EvaluationsInv, Informed, Agrees, EvaluatedFor
        <3>2. EvaluationOf(q)' = EvaluationOf(q)
            BY DEF EvaluationOf, Key
        <3> QED
            BY <3>1, <3>2
    <2>2. Told(t)' = {[pr |-> r.pr, review |-> r.review]}
        BY <1>4, <2>1 DEF Told
    <2>3. [pr |-> r.pr, review |-> r.review] \in evaluation[Key(q)]
        BY <2>1, KeyTyped DEF Evaluations, EvaluationOf
    <2>4. Register!Tell(t, q)
        BY <1>1, <1>3, <2>1, <2>2, <2>3 DEF Register!Tell, Register!KeyOf, Key
    <2> QED
        BY <2>4 DEF Register!Next
<1>5. CASE answer'[t].kind \notin {"succeeded", "replay"}
    <2>1. Told(t)' = {}
        BY <1>5 DEF Told
    <2>2. Register!Forget(t)
        BY <1>1, <1>3, <2>1 DEF Register!Forget
    <2> QED
        BY <2>2 DEF Register!Next
<1> QED
    BY <1>4, <1>5

\* Persisting a response records the evaluation under a free correlation.
LEMMA InsertResponseRefines ==
    ASSUME TypeOK, NEW t \in Tabs, InsertResponse(t), Validated(t)
    PROVE  [Register!Next]_(Register!vars)
<1> DEFINE q == post[t].pr
           v == local[t].review
           row == [pr |-> q, number |-> local[t].number, review |-> v]
           evaluation == [k \in Keys |-> Evaluations(k)]
           told == [u \in Tabs |-> Told(u)]
<1>1. q \in PromotionRequests /\ Key(q) \in Keys /\ v \in ReviewOutcomes
    BY KeyTyped DEF TypeOK, Post, InsertResponse, Validated
<1>2. UNCHANGED <<post, answer>>
    BY ResponseInserted DEF Go
<1>3. told' = told
    BY <1>2 DEF Told
<1>4. CASE UNCHANGED responses
    BY <1>3, <1>4 DEF Evaluations, Register!vars
<1>5. CASE /\ EvaluationOf(q) = {}
           /\ responses' = [responses EXCEPT ![Key(q)] = {row}]
    <2>1. evaluation[Key(q)] = {}
        BY <1>1, <1>5 DEF EvaluationOf, Evaluations
    <2>2. \A k \in Keys : responses'[k] = IF k = Key(q) THEN {row} ELSE responses[k]
        BY <1>1, <1>5 DEF TypeOK
    <2> HIDE DEF row
    <2>3. row.pr = q /\ row.review = v
        BY DEF row
    <2>4. \A k \in Keys : Evaluations(k)' =
              IF k = Key(q) THEN {[pr |-> q, review |-> v]} ELSE Evaluations(k)
        BY <2>2, <2>3 DEF Evaluations
    <2>5. evaluation' = [evaluation EXCEPT ![Key(q)] = {[pr |-> q, review |-> v]}]
        BY <1>1, <2>4
    <2>6. Register!Evaluate(q, v)
        BY <1>3, <2>1, <2>5 DEF Register!Evaluate, Register!KeyOf, Key
    <2> QED
        BY <1>1, <2>6 DEF Register!Next
<1> QED
    BY <1>4, <1>5, ResponseInserted

\* Every step of the gateway is a step of the register or leaves it unchanged.
LEMMA NextRefines ==
    ASSUME AttemptsInv, EvaluationsInv, EvaluationsInv', [Next]_vars
    PROVE  [Register!Next]_(Register!vars)
<1>1. TypeOK /\ \A t \in Tabs : post[t].pr \in PromotionRequests /\ Validated(t)
    BY DEF AttemptsInv, TypeOK, Post, Progress
<1>2. ASSUME NEW t \in Tabs, Step(t) PROVE [Register!Next]_(Register!vars)
    <2>1. CASE InsertResponse(t)
        BY <1>1, <2>1, InsertResponseRefines
    <2>2. CASE ~InsertResponse(t)
        BY <1>1, <1>2, <2>2, StepMovesOnly, StepResponses, AnswerRefines DEF MovesOnly
    <2> QED
        BY <2>1, <2>2
<1>3. ASSUME NEW t \in Tabs, NEW p \in PromotionRequests, NEW o \in Organizations,
             Arrive(t, p, o)
      PROVE  [Register!Next]_(Register!vars)
    <2>1. /\ UNCHANGED responses
          /\ post'[t].pr = p
          /\ \A u \in Tabs \ {t} : post'[u] = post[u] /\ answer'[u] = answer[u]
        BY <1>1, <1>3 DEF Arrive, TypeOK, tables
    <2> QED
        BY <1>1, <2>1, AnswerRefines
<1>4. ASSUME NEW t \in Tabs, Abort(t) PROVE [Register!Next]_(Register!vars)
    <2>1. /\ UNCHANGED <<responses, post>>
          /\ \A u \in Tabs \ {t} : answer'[u] = answer[u]
        BY <1>1, <1>4 DEF Abort, Return, TypeOK, tables
    <2> QED
        BY <1>1, <2>1, AnswerRefines
<1>5. UNCHANGED <<post, answer, responses>> => UNCHANGED Register!vars
    BY DEF Register!vars, Told, Evaluations
<1> QED
    BY <1>2, <1>3, <1>4, <1>5 DEF Next, Age, vars

\* The gateway implements the write-once register of evaluations: every step
\* records an evaluation under a free correlation, tells a tab a recorded one,
\* makes a tab forget, or changes nothing of these.
THEOREM RegisterImplemented == Spec => ImplementsRegister
<1>1. AttemptsInv /\ EvaluationsInv /\ EvaluationsInv' /\ [Next]_vars
          => [Register!Next]_(Register!vars)
    BY NextRefines
<1> QED
    BY <1>1, RegisterInit, AttemptsInvariant, EvaluationsInvariant, PTL
       DEF Spec, Register!Spec, ImplementsRegister

-----------------------------------------------------------------------------
(***************************************************************************)
(* Answers.  What an answer of the gateway promises: what is audited when  *)
(* KFSA is called, what is durable when a tab is told COMPLETED, what is   *)
(* recorded when it is told FAILED, whose request holds the correlation    *)
(* when it is told of a conflict, and where the flow may throw.            *)
(***************************************************************************)

-----------------------------------------------------------------------------
(* The inductive invariant of the posts' answers.                          *)

\* A post holds no answer before it is answered.
Unanswered(t) == pc[t] # "done" => answer[t].kind = "none"

\* What a post on its way to the call has audited.
StartedPcs == {"call"} \cup CalledPcs
RequestedPcs == {"auditRetried", "insertAttempt", "auditStarted"} \cup StartedPcs
InAudit(type, t) == [type |-> type, pr |-> post[t].pr, number |-> local[t].number] \in audit
Audited(t) ==
    /\ pc[t] \in RequestedPcs => InAudit("submission_requested", t)
    /\ pc[t] \in StartedPcs => InAudit("submission_started", t)

\* A post that came late is on its way to a replay or a conflict.
LateHandled(t) == post[t].late /\ pc[t] \notin {"idle", "done"} =>
    EvaluationOf(post[t].pr) # {} /\ pc[t] \in {"verify", "readResponse", "auditConflict"}

\* Another request of the tenant holds the correlation of a rejected post.
HeldByAnother(t) ==
    \E p \in PromotionRequests :
        /\ p # post[t].pr
        /\ OrganizationOf[p] = post[t].caller
        /\ CorrelationOf[p] = CorrelationOf[post[t].pr]
        /\ EvaluatedFor(p)
Rejected(t) == pc[t] = "auditConflict" \/ answer[t].kind = "conflict" => HeldByAnother(t)

\* A failure that is told is recorded under the post's number.
Recorded(t, error) ==
    /\ local[t].number \in AttemptNumbers
    /\ attempts[post[t].pr][local[t].number].status = "failed"
    /\ attempts[post[t].pr][local[t].number].error = error
FailureKnown(t) ==
    /\ pc[t] = "auditFailed" => Recorded(t, local[t].error)
    /\ pc[t] = "auditLostConflict" => Recorded(t, "correlation_conflict")
    /\ answer[t].kind = "failed" => Recorded(t, answer[t].error)

\* What is durable as a success is made so, call by call.
Persisted(t, review) ==
    [pr |-> post[t].pr, number |-> local[t].number, review |-> review] \in EvaluationOf(post[t].pr)
Succeeded(t) ==
    /\ local[t].number \in AttemptNumbers
    /\ attempts[post[t].pr][local[t].number].status = "succeeded"
Linked(t) == <<post[t].pr, local[t].number>> \in auditLinks
Durable(t) ==
    /\ pc[t] \in {"markSucceeded", "insertLink", "auditSucceeded"} => Persisted(t, local[t].review)
    /\ pc[t] \in {"insertLink", "auditSucceeded"} => Succeeded(t)
    /\ pc[t] = "auditSucceeded" => Linked(t)
    /\ answer[t].kind = "succeeded" =>
        Persisted(t, answer[t].review) /\ Succeeded(t) /\ Linked(t)

Promises(t) ==
    /\ Unanswered(t) /\ Audited(t) /\ LateHandled(t)
    /\ Rejected(t) /\ FailureKnown(t) /\ Durable(t)

AnswersInv ==
    /\ \A t \in Tabs : Promises(t)
    /\ LinkedAttemptEvaluated
-----------------------------------------------------------------------------
(* Steps.                                                                  *)

\* The tables only grow: no response, link or event is removed, and no ended
\* attempt changes.
Grows ==
    /\ ResponsesKept /\ AttemptsGrow
    /\ audit \subseteq audit' /\ auditLinks \subseteq auditLinks'

LEMMA NextGrows ==
    ASSUME AttemptsInv, OneEvaluation, [Next]_vars
    PROVE  Grows
<1>1. TypeOK BY DEF AttemptsInv
<1>2. ResponsesKept /\ AttemptsGrow BY <1>1, NextResponses, NextTable
<1>3. ASSUME NEW t \in Tabs, Step(t) PROVE audit \subseteq audit' /\ auditLinks \subseteq auditLinks'
  BY <1>3 DEF Step, tables, Mark, Record, VerifyOwnership, RejectOwnership, ReadResponse,
       AuditConflict, ListAttempts, MarkStale, AuditRequested, AuditRetried, InsertAttempt,
       InsertRefused, RecoverResponse, RecoverAttempts, AuditStarted, CallKfsa,
       KfsaNotConfigured, KfsaEvaluates, KfsaFails, MarkFailed, AuditFailed, InsertResponse,
       RereadResponse, MarkReplayed, MarkConflict, AuditLostConflict, MarkSucceeded,
       InsertLink, AuditSucceeded
<1>4. audit \subseteq audit' /\ auditLinks \subseteq auditLinks'
  BY <1>3 DEF Next, Arrive, Abort, Age, tables, vars
<1> QED BY <1>2, <1>4 DEF Grows

\* A post keeps the number it has listed.
LEMMA NumberKept ==
    ASSUME TypeOK, NEW t \in Tabs, Step(t), ~ListAttempts(t)
    PROVE  local'[t].number = local[t].number
<1>1. local \in [Tabs -> Local] BY DEF TypeOK
<1>2. CASE local' = local BY <1>2
<1>3. ASSUME NEW e, local' = [local EXCEPT ![t].error = e]
      PROVE  local'[t].number = local[t].number
  BY <1>1, <1>3 DEF Local
<1>4. ASSUME NEW v, local' = [local EXCEPT ![t].review = v]
      PROVE  local'[t].number = local[t].number
  BY <1>1, <1>4 DEF Local
<1>5. CASE KfsaNotConfigured(t) \/ KfsaFails(t)
  BY <1>3, <1>5 DEF KfsaNotConfigured, KfsaFails
<1>6. CASE KfsaEvaluates(t) BY <1>4, <1>6 DEF KfsaEvaluates
<1>7. CASE RereadResponse(t) BY <1>2, <1>4, <1>7 DEF RereadResponse
<1> QED BY <1>2, <1>5, <1>6, <1>7
      DEF Step, Mark, VerifyOwnership, RejectOwnership, ReadResponse,
          AuditConflict, MarkStale, AuditRequested, AuditRetried, InsertAttempt,
          InsertRefused, RecoverResponse, RecoverAttempts, AuditStarted, CallKfsa,
          MarkFailed, AuditFailed, InsertResponse, MarkReplayed, MarkConflict,
          AuditLostConflict, MarkSucceeded, InsertLink, AuditSucceeded

\* The answers that promise nothing of what is recorded.
PlainKinds == {"replay", "rejected", "in_progress", "threw", "aborted"}

\* The calls that end in the other answers.
LEMMA AnswerOrigins ==
    ASSUME TypeOK, NEW t \in Tabs, Step(t)
    PROVE  \/ answer' = answer /\ pc'[t] # "done"
           \/ pc'[t] = "done" /\ answer'[t].kind \in PlainKinds
           \/ AuditConflict(t) \/ RecoverAttempts(t) \/ AuditFailed(t)
           \/ AuditLostConflict(t) \/ AuditSucceeded(t)
<1>1. ASSUME NEW next, Go(t, next), next # "done" PROVE answer' = answer /\ pc'[t] # "done"
  BY <1>1 DEF TypeOK, Go
<1>2. ASSUME NEW a, Return(t, a), a.kind \in PlainKinds
      PROVE  pc'[t] = "done" /\ answer'[t].kind \in PlainKinds
  BY <1>2 DEF TypeOK, Return
<1>3. \A kind \in PlainKinds : Reply(kind).kind \in PlainKinds
  BY DEF Reply
<1>4. \A review : Evaluated("replay", review).kind \in PlainKinds
  BY DEF Evaluated, PlainKinds
<1>5. CASE VerifyOwnership(t) \/ AuditRequested(t) \/ AuditRetried(t) \/ InsertAttempt(t)
           \/ AuditStarted(t) \/ CallKfsa(t) \/ KfsaNotConfigured(t) \/ KfsaEvaluates(t)
           \/ KfsaFails(t) \/ InsertResponse(t) \/ RereadResponse(t) \/ InsertLink(t)
  BY <1>1, <1>5 DEF VerifyOwnership, AuditRequested, AuditRetried, InsertAttempt, AuditStarted,
     CallKfsa, KfsaNotConfigured, KfsaEvaluates, KfsaFails, InsertResponse, RereadResponse,
     InsertLink
<1>6. CASE RejectOwnership(t) \/ InsertRefused(t)
  BY <1>2, <1>3, <1>6 DEF RejectOwnership, InsertRefused, PlainKinds
<1>7. CASE ListAttempts(t)
  BY <1>1, <1>2, <1>3, <1>7 DEF ListAttempts, PlainKinds
<1>8. CASE ReadResponse(t) \/ RecoverResponse(t)
  BY <1>1, <1>2, <1>4, <1>8 DEF ReadResponse, RecoverResponse, ReplayIfEvaluated
<1>9. CASE MarkStale(t) \/ MarkFailed(t) \/ MarkConflict(t) \/ MarkSucceeded(t)
  BY <1>1, <1>2, <1>3, <1>9 DEF MarkStale, MarkFailed, MarkConflict, MarkSucceeded, Mark, PlainKinds
<1>10. CASE MarkReplayed(t)
  BY <1>2, <1>3, <1>4, <1>10 DEF MarkReplayed, Mark, PlainKinds
<1> QED BY <1>5, <1>6, <1>7, <1>8, <1>9, <1>10 DEF Step

\* Where a post comes from that goes to a call it must be prepared for.
LEMMA Origins ==
    ASSUME TypeOK, NEW t \in Tabs, Step(t)
    PROVE  /\ pc[t] \notin {"idle", "done"}
           /\ pc'[t] \in RequestedPcs => AuditRequested(t) \/ pc[t] \in RequestedPcs
           /\ pc'[t] \in StartedPcs => AuditStarted(t) \/ pc[t] \in StartedPcs
           /\ pc[t] \in {"verify", "readResponse", "auditConflict"} =>
                VerifyOwnership(t) \/ ReadResponse(t) \/ pc'[t] = "done"
           /\ pc'[t] = "auditConflict" => ReadResponse(t)
           /\ pc'[t] = "auditFailed" => MarkFailed(t)
           /\ pc'[t] = "auditLostConflict" => MarkConflict(t)
           /\ pc'[t] = "markSucceeded" => InsertResponse(t)
           /\ pc'[t] = "insertLink" => MarkSucceeded(t)
           /\ pc'[t] = "auditSucceeded" => InsertLink(t)
<1> USE DEF Step, Mark, Go, Return, VerifyOwnership, RejectOwnership, ReadResponse,
       AuditConflict, ListAttempts, MarkStale, AuditRequested, AuditRetried, InsertAttempt,
       InsertRefused, RecoverResponse, RecoverAttempts, AuditStarted, CallKfsa,
       KfsaNotConfigured, KfsaEvaluates, KfsaFails, MarkFailed, AuditFailed, InsertResponse,
       RereadResponse, MarkReplayed, MarkConflict, AuditLostConflict, MarkSucceeded,
       InsertLink, AuditSucceeded, ReplayIfEvaluated
<1>1. pc \in [Tabs -> Pcs] BY DEF TypeOK
<1>2. pc[t] \notin {"idle", "done"} BY <1>1
<1>3. pc'[t] \in RequestedPcs => AuditRequested(t) \/ pc[t] \in RequestedPcs
  BY <1>1 DEF RequestedPcs, StartedPcs, CalledPcs
<1>4. pc'[t] \in StartedPcs => AuditStarted(t) \/ pc[t] \in StartedPcs
  BY <1>1 DEF StartedPcs, CalledPcs
<1>5. pc[t] \in {"verify", "readResponse", "auditConflict"} =>
        VerifyOwnership(t) \/ ReadResponse(t) \/ pc'[t] = "done"
  BY <1>1
<1>6. pc'[t] = "auditConflict" => ReadResponse(t) BY <1>1
<1>7. pc'[t] = "auditFailed" => MarkFailed(t) BY <1>1
<1>8. pc'[t] = "auditLostConflict" => MarkConflict(t) BY <1>1
<1>9. pc'[t] = "markSucceeded" => InsertResponse(t) BY <1>1
<1>10. pc'[t] = "insertLink" => MarkSucceeded(t) BY <1>1
<1>11. pc'[t] = "auditSucceeded" => InsertLink(t) BY <1>1
<1> QED BY <1>2, <1>3, <1>4, <1>5, <1>6, <1>7, <1>8, <1>9, <1>10, <1>11

-----------------------------------------------------------------------------
(* What a post knows stays true as the tables grow.                        *)

LEMMA FactsStable ==
    ASSUME Grows, NEW t \in Tabs, post[t].pr \in PromotionRequests,
           post'[t] = post[t], local'[t].number = local[t].number
    PROVE  /\ \A type : InAudit(type, t) => InAudit(type, t)'
           /\ EvaluationOf(post[t].pr) # {} => EvaluationOf(post[t].pr)' # {}
           /\ HeldByAnother(t) => HeldByAnother(t)'
           /\ \A e : Recorded(t, e) => Recorded(t, e)'
           /\ \A v : Persisted(t, v) => Persisted(t, v)'
           /\ Succeeded(t) => Succeeded(t)'
           /\ Linked(t) => Linked(t)'
<1> DEFINE q == post[t].pr
<1>1. EvaluationOf(q) # {} => EvaluationOf(q)' = EvaluationOf(q)
  BY EvaluationStable DEF Grows, EvaluationOf, Key
<1>2. \A n \in AttemptNumbers : Ended(q, n) => attempts'[q][n] = attempts[q][n]
  BY DEF Grows, AttemptsGrow
<1>3. \A type : InAudit(type, t) => InAudit(type, t)' BY DEF InAudit, Grows
<1>4. HeldByAnother(t) => HeldByAnother(t)'
  <2>1. ASSUME NEW p \in PromotionRequests, EvaluatedFor(p) PROVE EvaluatedFor(p)'
    BY <2>1, EvaluationStable DEF EvaluatedFor, Grows
  <2> QED BY <2>1 DEF HeldByAnother
<1>5. \A e : Recorded(t, e) => Recorded(t, e)' BY <1>2 DEF Recorded, Ended
<1>6. \A v : Persisted(t, v) => Persisted(t, v)' BY <1>1 DEF Persisted
<1>7. Succeeded(t) => Succeeded(t)' BY <1>2 DEF Succeeded, Ended
<1>8. Linked(t) => Linked(t)' BY DEF Linked, Grows
<1>9. EvaluationOf(q) # {} => EvaluationOf(q)' # {} BY <1>1
<1> QED BY <1>3, <1>4, <1>5, <1>6, <1>7, <1>8, <1>9

\* What a post promises stays true while others step.
LEMMA PromisesStable ==
    ASSUME Grows, NEW u \in Tabs, post[u].pr \in PromotionRequests, Promises(u),
           pc'[u] = pc[u], post'[u] = post[u], local'[u] = local[u], answer'[u] = answer[u]
    PROVE  Promises(u)'
<1>7. EvaluationOf(post[u].pr) # {} => EvaluationOf(post[u].pr)' # {}
  BY FactsStable
<1> USE FactsStable DEF Promises
<1>1. Unanswered(u)' BY DEF Unanswered
<1>2. Audited(u)' BY DEF Audited
<1>3. LateHandled(u)' BY <1>7 DEF LateHandled
<1>4. Rejected(u)' BY DEF Rejected
<1>5. FailureKnown(u)' BY DEF FailureKnown
<1>6. Durable(u)' BY DEF Durable
<1> QED BY <1>1, <1>2, <1>3, <1>4, <1>5, <1>6

\* The post that steps keeps its promises.
LEMMA StepUnanswered ==
    ASSUME TypeOK, NEW t \in Tabs, Step(t), Unanswered(t)
    PROVE  Unanswered(t)'
<1>1. pc[t] # "done" BY Origins
<1>2. CASE answer' = answer BY <1>1, <1>2 DEF Unanswered
<1>3. CASE AuditConflict(t) \/ RecoverAttempts(t) \/ AuditFailed(t) \/ AuditLostConflict(t)
           \/ AuditSucceeded(t)
  <2>1. pc'[t] = "done"
    BY <1>3 DEF AuditConflict, RecoverAttempts, AuditFailed, AuditLostConflict, AuditSucceeded,
       Return, TypeOK
  <2> QED BY <2>1 DEF Unanswered
<1> QED BY <1>2, <1>3, AnswerOrigins DEF Unanswered

LEMMA StepAudited ==
    ASSUME TypeOK, Grows, NEW t \in Tabs, Step(t), Audited(t)
    PROVE  Audited(t)'
<1>1. post' = post /\ post[t].pr \in PromotionRequests
  BY StepMovesOnly DEF MovesOnly, TypeOK, Post
<1>2. CASE ListAttempts(t)
  <2>1. pc'[t] \notin RequestedPcs
    BY <1>2 DEF ListAttempts, Go, Return, TypeOK, RequestedPcs, StartedPcs, CalledPcs
  <2> QED BY <2>1 DEF Audited, RequestedPcs
<1>3. CASE ~ListAttempts(t)
  <2>1. local'[t].number = local[t].number BY <1>3, NumberKept
  <2>2. pc'[t] \in RequestedPcs => InAudit("submission_requested", t)'
    <3>1. CASE AuditRequested(t)
      BY <1>1, <2>1, <3>1 DEF AuditRequested, Record, InAudit
    <3>2. CASE pc[t] \in RequestedPcs
      BY <1>1, <2>1, <3>2, FactsStable DEF Audited
    <3> QED BY <3>1, <3>2, Origins
  <2>3. pc'[t] \in StartedPcs => InAudit("submission_started", t)'
    <3>1. CASE AuditStarted(t)
      BY <1>1, <2>1, <3>1 DEF AuditStarted, Record, InAudit
    <3>2. CASE pc[t] \in StartedPcs
      BY <1>1, <2>1, <3>2, FactsStable DEF Audited
    <3> QED BY <3>1, <3>2, Origins
  <2> QED BY <2>2, <2>3 DEF Audited
<1> QED BY <1>2, <1>3

LEMMA StepLateHandled ==
    ASSUME TypeOK, Grows, NEW t \in Tabs, Step(t), LateHandled(t)
    PROVE  LateHandled(t)'
<1> DEFINE q == post[t].pr
<1>1. post' = post /\ q \in PromotionRequests
  BY StepMovesOnly DEF MovesOnly, TypeOK, Post
<1> SUFFICES ASSUME post[t].late, pc'[t] # "done"
             PROVE  EvaluationOf(q)' # {} /\ pc'[t] \in {"verify", "readResponse", "auditConflict"}
  BY <1>1 DEF LateHandled
<1>2. EvaluationOf(q) # {} /\ pc[t] \in {"verify", "readResponse", "auditConflict"}
  BY Origins DEF LateHandled
<1>3. EvaluationOf(q)' # {}
  BY <1>1, <1>2, EvaluationStable DEF Grows, EvaluationOf, Key
<1>4. pc'[t] \in {"readResponse", "auditConflict"}
  <2>1. CASE VerifyOwnership(t) BY <2>1 DEF VerifyOwnership, Go, TypeOK
  <2>2. CASE ReadResponse(t)
    BY <1>2, <2>2 DEF ReadResponse, ReplayIfEvaluated, Go, Return, TypeOK
  <2> QED BY <1>2, <2>1, <2>2, Origins
<1> QED BY <1>3, <1>4

LEMMA StepRejected ==
    ASSUME TypeOK, OneEvaluation, Grows, NEW t \in Tabs, Step(t), Owned(t), Unanswered(t), Rejected(t)
    PROVE  Rejected(t)'
<1> DEFINE q == post[t].pr
<1>1. post' = post /\ q \in PromotionRequests
  BY StepMovesOnly DEF MovesOnly, TypeOK, Post
<1>2. CASE ReadResponse(t)
  <2>1. CASE pc'[t] = "auditConflict"
    <3>1. EvaluationOf(q) # {} /\ ~EvaluatedFor(q) /\ answer' = answer
      BY <1>2, <2>1 DEF ReadResponse, ReplayIfEvaluated, Go, Return, TypeOK
    <3>2. PICK r \in EvaluationOf(q) : r.pr # q BY <3>1 DEF EvaluatedFor
    <3>3. Key(q) \in Keys /\ r \in responses[Key(q)] BY <1>1, <3>2, KeyTyped DEF EvaluationOf
    <3>4. r.pr \in PromotionRequests BY <3>3 DEF TypeOK, Response
    <3>5. Key(r.pr) = Key(q) BY <3>3 DEF OneEvaluation
    <3>6. EvaluatedFor(r.pr) BY <3>2, <3>5 DEF EvaluatedFor, EvaluationOf
    <3>7. OrganizationOf[r.pr] = OrganizationOf[q] /\ CorrelationOf[r.pr] = CorrelationOf[q]
      BY <3>5 DEF Key
    <3>8. OrganizationOf[q] = post[t].caller BY <1>2 DEF Owned, ReadResponse
    <3>9. HeldByAnother(t) BY <3>2, <3>4, <3>6, <3>7, <3>8 DEF HeldByAnother
    <3>10. local'[t].number = local[t].number BY <1>2 DEF ReadResponse
    <3>11. HeldByAnother(t)' BY <1>1, <3>9, <3>10, FactsStable
    <3> QED BY <3>11 DEF Rejected
  <2>2. CASE pc'[t] # "auditConflict"
    <3>1. answer'[t].kind # "conflict"
      <4>1. ~AuditConflict(t) /\ ~RecoverAttempts(t) /\ ~AuditFailed(t)
            /\ ~AuditLostConflict(t) /\ ~AuditSucceeded(t)
        BY <1>2 DEF ReadResponse, AuditConflict, RecoverAttempts, AuditFailed,
           AuditLostConflict, AuditSucceeded
      <4>2. pc[t] # "done" BY Origins
      <4> QED BY <4>1, <4>2, AnswerOrigins DEF PlainKinds, Unanswered
    <3> QED BY <2>2, <3>1 DEF Rejected
  <2> QED BY <2>1, <2>2
<1>3. CASE AuditConflict(t)
  <2>1. HeldByAnother(t) BY <1>3 DEF AuditConflict, Rejected
  <2>2. local'[t].number = local[t].number BY <1>3 DEF AuditConflict
  <2>3. HeldByAnother(t)' BY <1>1, <2>1, <2>2, FactsStable
  <2> QED BY <2>3 DEF Rejected
<1>4. CASE ~ReadResponse(t) /\ ~AuditConflict(t)
  <2>1. pc'[t] # "auditConflict" /\ pc[t] # "done" BY <1>4, Origins
  <2>2. answer'[t].kind # "conflict"
    <3>1. ASSUME RecoverAttempts(t) \/ AuditFailed(t) \/ AuditLostConflict(t) \/ AuditSucceeded(t)
          PROVE  answer'[t].kind # "conflict"
      BY <3>1 DEF RecoverAttempts, AuditFailed, AuditLostConflict, AuditSucceeded, Return, TypeOK,
         Reply, Failed, Evaluated
    <3> QED BY <1>4, <2>1, <3>1, AnswerOrigins DEF PlainKinds, Unanswered
  <2> QED BY <2>1, <2>2 DEF Rejected
<1> QED BY <1>2, <1>3, <1>4

\* A guarded update that goes on has written the row; one that is refused has
\* answered the post.
LEMMA MarkWrites ==
    ASSUME TypeOK, NEW t \in Tabs, NEW n \in AttemptNumbers, NEW status, NEW error,
           NEW next \in Pcs \ {"done"}, Mark(t, n, status, error, Go(t, next)), pc'[t] = next
    PROVE  /\ attempts'[post[t].pr][n].status = status
           /\ attempts'[post[t].pr][n].error = error
<1>1. post[t].pr \in PromotionRequests BY DEF TypeOK, Post
<1>2. attempts' = [attempts EXCEPT ![post[t].pr][n] =
        [status |-> status, error |-> error, stale |-> attempts[post[t].pr][n].stale]]
  BY DEF Mark, Return, TypeOK
<1> QED BY <1>1, <1>2 DEF TypeOK

LEMMA StepFailureKnown ==
    ASSUME TypeOK, Grows, NEW t \in Tabs, Step(t), Progress(t), Unanswered(t), FailureKnown(t)
    PROVE  FailureKnown(t)'
<1>1. post' = post /\ post[t].pr \in PromotionRequests /\ pc[t] # "done"
  BY StepMovesOnly, Origins DEF MovesOnly, TypeOK, Post
<1>2. ASSUME pc[t] \in NumberedPcs PROVE local[t].number \in AttemptNumbers
  BY <1>2 DEF Progress, Numbered, Rows
<1>3. ASSUME pc'[t] = "auditFailed" PROVE Recorded(t, local[t].error)'
  <2>1. MarkFailed(t) BY <1>3, Origins
  <2>2. local[t].number \in AttemptNumbers /\ local' = local
    BY <1>2, <2>1 DEF MarkFailed, Mark, NumberedPcs, OwningPcs
  <2>3. /\ attempts'[post[t].pr][local[t].number].status = "failed"
        /\ attempts'[post[t].pr][local[t].number].error = local[t].error
    BY <1>3, <2>1, <2>2, MarkWrites DEF MarkFailed, Pcs
  <2> QED BY <1>1, <2>2, <2>3 DEF Recorded
<1>4. ASSUME pc'[t] = "auditLostConflict" PROVE Recorded(t, "correlation_conflict")'
  <2>1. MarkConflict(t) BY <1>4, Origins
  <2>2. local[t].number \in AttemptNumbers /\ local' = local
    BY <1>2, <2>1 DEF MarkConflict, Mark, NumberedPcs, OwningPcs
  <2>3. /\ attempts'[post[t].pr][local[t].number].status = "failed"
        /\ attempts'[post[t].pr][local[t].number].error = "correlation_conflict"
    BY <1>4, <2>1, <2>2, MarkWrites DEF MarkConflict, Pcs
  <2> QED BY <1>1, <2>2, <2>3 DEF Recorded
<1>5. ASSUME answer'[t].kind = "failed" PROVE Recorded(t, answer[t].error)'
  <2>1. CASE RecoverAttempts(t)
    <3> DEFINE winner == attempts[post[t].pr][local[t].number]
    <3>1. /\ local' = local /\ attempts' = attempts
          /\ answer'[t] = IF winner.status = "failed" THEN Failed(winner.error)
                          ELSE Reply("in_progress")
      BY <2>1 DEF RecoverAttempts, Return, TypeOK, tables
    <3>2. winner.status = "failed" /\ answer'[t].error = winner.error
      BY <1>5, <3>1 DEF Failed, Reply
    <3>3. local[t].number \in AttemptNumbers
      BY <1>2, <2>1 DEF RecoverAttempts, NumberedPcs
    <3> QED BY <1>1, <3>1, <3>2, <3>3 DEF Recorded
  <2>2. CASE AuditFailed(t) \/ AuditLostConflict(t)
    <3>1. PICK error : error = IF AuditFailed(t) THEN local[t].error ELSE "correlation_conflict"
      OBVIOUS
    <3>2. local' = local /\ answer'[t].error = error
      BY <2>2, <3>1 DEF AuditFailed, AuditLostConflict, Return, TypeOK, Failed
    <3>3. Recorded(t, error)
      BY <2>2, <3>1 DEF FailureKnown, AuditFailed, AuditLostConflict
    <3>4. Recorded(t, error)' BY <1>1, <3>2, <3>3, FactsStable
    <3> QED BY <3>2, <3>4 DEF Recorded
  <2>3. CASE AuditConflict(t) \/ AuditSucceeded(t)
    BY <1>5, <2>3 DEF AuditConflict, AuditSucceeded, Return, TypeOK, Reply, Evaluated
  <2> QED BY <1>1, <1>5, <2>1, <2>2, <2>3, AnswerOrigins DEF PlainKinds, Unanswered
<1> QED BY <1>3, <1>4, <1>5 DEF FailureKnown, Recorded

LEMMA StepDurable ==
    ASSUME TypeOK, Grows, NEW t \in Tabs, Step(t), Progress(t), Unanswered(t), Durable(t)
    PROVE  Durable(t)'
<1> DEFINE q == post[t].pr
<1>1. post' = post /\ q \in PromotionRequests /\ pc[t] # "done" /\ Key(q) \in Keys
  BY StepMovesOnly, Origins, KeyTyped DEF MovesOnly, TypeOK, Post
<1>2. ASSUME pc[t] \in NumberedPcs PROVE local[t].number \in AttemptNumbers
  BY <1>2 DEF Progress, Numbered, Rows
<1>3. CASE pc'[t] = "markSucceeded"
  <2>1. InsertResponse(t) BY <1>3, Origins
  <2>2. /\ local' = local /\ answer' = answer
        /\ responses' = [responses EXCEPT ![Key(q)] =
               {[pr |-> q, number |-> local[t].number, review |-> local[t].review]}]
    BY <1>3, <2>1, ResponseInserted DEF InsertResponse, Go, TypeOK
  <2>3. responses'[Key(q)] =
            {[pr |-> q, number |-> local[t].number, review |-> local[t].review]}
    BY <1>1, <2>2 DEF TypeOK
  <2>4. Persisted(t, local[t].review)'
    BY <1>1, <2>2, <2>3 DEF Persisted, EvaluationOf, Key
  <2> QED BY <1>1, <1>3, <2>2, <2>4 DEF Durable, Unanswered
<1>4. CASE pc'[t] = "insertLink"
  <2>1. MarkSucceeded(t) BY <1>4, Origins
  <2>2. local[t].number \in AttemptNumbers /\ local' = local /\ answer' = answer
    BY <1>2, <1>4, <2>1 DEF MarkSucceeded, Mark, Go, Return, TypeOK, NumberedPcs, OwningPcs
  <2>3. attempts'[q][local[t].number].status = "succeeded"
    BY <1>4, <2>1, <2>2, MarkWrites DEF MarkSucceeded, Pcs
  <2>4. PICK v : v = local[t].review OBVIOUS
  <2>5. Persisted(t, v) BY <2>1, <2>4 DEF Durable, MarkSucceeded
  <2>6. Persisted(t, v)' BY <1>1, <2>2, <2>5, FactsStable
  <2>7. Persisted(t, local[t].review)' BY <2>2, <2>4, <2>6 DEF Persisted
  <2>8. Succeeded(t)' BY <1>1, <2>2, <2>3 DEF Succeeded
  <2> QED BY <1>1, <1>4, <2>2, <2>7, <2>8 DEF Durable, Unanswered
<1>5. CASE pc'[t] = "auditSucceeded"
  <2>1. InsertLink(t) BY <1>5, Origins
  <2>2. /\ local' = local /\ answer' = answer
        /\ auditLinks' = auditLinks \cup {<<q, local[t].number>>}
    BY <2>1 DEF InsertLink, Go
  <2>3. PICK v : v = local[t].review OBVIOUS
  <2>4. Persisted(t, v) /\ Succeeded(t) BY <2>1, <2>3 DEF Durable, InsertLink
  <2>5. Persisted(t, v)' /\ Succeeded(t)' BY <1>1, <2>2, <2>4, FactsStable
  <2>6. Persisted(t, local[t].review)' BY <2>2, <2>3, <2>5 DEF Persisted
  <2>7. Linked(t)' BY <1>1, <2>2 DEF Linked
  <2> QED BY <1>1, <1>5, <2>2, <2>5, <2>6, <2>7 DEF Durable, Unanswered
<1>6. CASE AuditSucceeded(t)
  <2>1. PICK v : v = local[t].review OBVIOUS
  <2>2. /\ local' = local /\ pc'[t] = "done" /\ answer'[t] = Evaluated("succeeded", v)
    BY <1>6, <2>1 DEF AuditSucceeded, Return, TypeOK
  <2>3. answer'[t].kind = "succeeded" /\ answer'[t].review = v BY <2>2 DEF Evaluated
  <2>4. Persisted(t, v) /\ Succeeded(t) /\ Linked(t)
    BY <1>6, <2>1 DEF Durable, AuditSucceeded
  <2>5. Persisted(t, v)' /\ Succeeded(t)' /\ Linked(t)' BY <1>1, <2>2, <2>4, FactsStable
  <2>6. Persisted(t, answer[t].review)' BY <2>3, <2>5 DEF Persisted
  <2> QED BY <2>2, <2>5, <2>6 DEF Durable
<1>7. CASE pc'[t] \notin {"markSucceeded", "insertLink", "auditSucceeded"} /\ ~AuditSucceeded(t)
  <2>1. ASSUME \/ AuditConflict(t) \/ RecoverAttempts(t) \/ AuditFailed(t) \/ AuditLostConflict(t)
        PROVE  answer'[t].kind # "succeeded"
    BY <2>1 DEF AuditConflict, RecoverAttempts, AuditFailed, AuditLostConflict, Return, TypeOK,
       Reply, Failed
  <2>2. answer'[t].kind # "succeeded"
    BY <1>1, <1>7, <2>1, AnswerOrigins DEF PlainKinds, Unanswered
  <2> QED BY <1>7, <2>2 DEF Durable
<1> QED BY <1>3, <1>4, <1>5, <1>6, <1>7

\* A post that steps keeps all its promises.
LEMMA StepPromises ==
    ASSUME AttemptsInv, EvaluationsInv, Grows, NEW t \in Tabs, Step(t), Promises(t)
    PROVE  Promises(t)'
<1>1. TypeOK /\ OneEvaluation /\ Progress(t) /\ Owned(t)
  BY DEF AttemptsInv, EvaluationsInv, Informed
<1> QED BY <1>1, StepUnanswered, StepAudited, StepLateHandled, StepRejected, StepFailureKnown,
           StepDurable DEF Promises

\* KFSA's audit event is linked where the post is done with its attempt.
LEMMA LinkedKept ==
    ASSUME TypeOK, Grows, LinkedAttemptEvaluated, \A t \in Tabs : Promises(t), [Next]_vars
    PROVE  LinkedAttemptEvaluated'
<1> SUFFICES ASSUME NEW p \in PromotionRequests, NEW n \in AttemptNumbers,
                    <<p, n>> \in auditLinks'
             PROVE  /\ attempts'[p][n].status = "succeeded"
                    /\ \E r \in EvaluationOf(p)' : r.pr = p /\ r.number = n
  BY DEF LinkedAttemptEvaluated, EvaluationOf, Key
<1>1. /\ attempts[p][n].status = "succeeded"
      /\ \E r \in EvaluationOf(p) : r.pr = p /\ r.number = n
  <2>1. CASE <<p, n>> \in auditLinks BY <2>1 DEF LinkedAttemptEvaluated
  <2>2. ASSUME NEW t \in Tabs, InsertLink(t), p = post[t].pr, n = local[t].number
        PROVE  /\ attempts[p][n].status = "succeeded"
               /\ \E r \in EvaluationOf(p) : r.pr = p /\ r.number = n
    BY <2>2 DEF Promises, Durable, InsertLink, Persisted, Succeeded
  <2>3. CASE <<p, n>> \notin auditLinks
    <3>1. PICK t \in Tabs : InsertLink(t)
      BY <2>3 DEF Next, Step, Arrive, Abort, Age, tables, vars, Mark, VerifyOwnership,
         RejectOwnership, ReadResponse, AuditConflict, ListAttempts, MarkStale, AuditRequested,
         AuditRetried, InsertAttempt, InsertRefused, RecoverResponse, RecoverAttempts,
         AuditStarted, CallKfsa, KfsaNotConfigured, KfsaEvaluates, KfsaFails, MarkFailed,
         AuditFailed, InsertResponse, RereadResponse, MarkReplayed, MarkConflict,
         AuditLostConflict, MarkSucceeded, AuditSucceeded
    <3>2. p = post[t].pr /\ n = local[t].number BY <2>3, <3>1 DEF InsertLink
    <3> QED BY <2>2, <3>1, <3>2
  <2> QED BY <2>1, <2>3
<1>2. attempts'[p][n] = attempts[p][n] BY <1>1 DEF Grows, AttemptsGrow, Ended
<1>3. EvaluationOf(p)' = EvaluationOf(p)
  BY <1>1, EvaluationStable DEF Grows
<1> QED BY <1>1, <1>2, <1>3

LEMMA AnswersInvInit == Init => AnswersInv
BY DEF Init, AnswersInv, Promises, Unanswered, Audited, LateHandled, Rejected, FailureKnown, Durable,
       LinkedAttemptEvaluated, RequestedPcs, StartedPcs, CalledPcs, Reply

LEMMA AnswersInvNext ==
    ASSUME AttemptsInv, EvaluationsInv, AnswersInv, [Next]_vars
    PROVE  AnswersInv'
<1>1. /\ TypeOK /\ OneEvaluation
      /\ \A u \in Tabs : post[u].pr \in PromotionRequests /\ Promises(u)
  BY DEF AttemptsInv, EvaluationsInv, AnswersInv, TypeOK, Post
<1>2. Grows BY <1>1, NextGrows
<1>3. LinkedAttemptEvaluated' BY <1>1, <1>2, LinkedKept DEF AnswersInv
<1>4. ASSUME NEW u \in Tabs, pc'[u] = pc[u], post'[u] = post[u], local'[u] = local[u],
             answer'[u] = answer[u]
      PROVE  Promises(u)'
  BY <1>1, <1>2, <1>4, PromisesStable
<1>5. ASSUME NEW u \in Tabs PROVE Promises(u)'
  <2>1. ASSUME NEW t \in Tabs, Step(t) PROVE Promises(u)'
    <3>1. CASE u = t BY <1>1, <1>2, <2>1, <3>1, StepPromises
    <3>2. CASE u # t BY <1>1, <1>4, <2>1, <3>2, StepMovesOnly DEF MovesOnly
    <3> QED BY <3>1, <3>2
  <2>2. ASSUME NEW t \in Tabs, NEW p \in PromotionRequests, NEW o \in Organizations, Arrive(t, p, o)
        PROVE  Promises(u)'
    <3>1. CASE u = t
      <4>1. /\ pc'[u] = "verify" /\ answer'[u].kind = "none" /\ responses' = responses
            /\ post'[u].pr = p /\ (post'[u].late => EvaluationOf(p) # {})
        BY <1>1, <2>2, <3>1 DEF Arrive, TypeOK, Reply, tables
      <4>2. Unanswered(u)' /\ Audited(u)' /\ Rejected(u)' /\ FailureKnown(u)' /\ Durable(u)'
        BY <4>1 DEF Unanswered, Audited, Rejected, FailureKnown, Durable, RequestedPcs, StartedPcs,
           CalledPcs
      <4>3. LateHandled(u)' BY <4>1 DEF LateHandled, EvaluationOf, Key
      <4> QED BY <4>2, <4>3 DEF Promises
    <3>2. CASE u # t BY <1>1, <1>4, <2>2, <3>2 DEF Arrive, TypeOK
    <3> QED BY <3>1, <3>2
  <2>3. ASSUME NEW t \in Tabs, Abort(t) PROVE Promises(u)'
    <3>1. CASE u = t
      <4>1. pc'[u] = "done" /\ answer'[u].kind = "aborted"
        BY <1>1, <2>3, <3>1 DEF Abort, Return, TypeOK, Reply
      <4> QED BY <4>1 DEF Promises, Unanswered, Audited, LateHandled, Rejected, FailureKnown, Durable,
                 RequestedPcs, StartedPcs, CalledPcs
    <3>2. CASE u # t BY <1>1, <1>4, <2>3, <3>2 DEF Abort, Return, TypeOK
    <3> QED BY <3>1, <3>2
  <2>4. ASSUME NEW p \in PromotionRequests, NEW n \in AttemptNumbers, Age(p, n) PROVE Promises(u)'
    BY <1>4, <2>4 DEF Age
  <2>5. UNCHANGED vars => Promises(u)' BY <1>4 DEF vars
  <2> QED BY <2>1, <2>2, <2>3, <2>4, <2>5 DEF Next
<1> QED BY <1>3, <1>5 DEF AnswersInv
-----------------------------------------------------------------------------
(* The theorems.                                                           *)

\* What the answers rest on holds in every state, whatever posts race, die or retry.
THEOREM AnswersInvariant == Spec => []AnswersInv
<1>1. AttemptsInv /\ EvaluationsInv /\ AnswersInv /\ [Next]_vars => AnswersInv'
  BY AnswersInvNext
<1> QED BY <1>1, AnswersInvInit, AttemptsInvariant, EvaluationsInvariant, PTL DEF Spec

\* A tab told COMPLETED has its response, its succeeded attempt and its link.
THEOREM CompletedDurable == Spec => []CompletedIsDurable
<1>1. AnswersInv => CompletedIsDurable
  BY DEF AnswersInv, Promises, Durable, CompletedIsDurable, Persisted, Succeeded, Linked
<1> QED BY <1>1, AnswersInvariant, PTL

\* A tab told FAILED is told the error its attempt is recorded with.
THEOREM FailureRecorded == Spec => []FailedAnswerIsRecorded
<1>1. AnswersInv => FailedAnswerIsRecorded
  BY DEF AnswersInv, Promises, FailureKnown, FailedAnswerIsRecorded, Recorded
<1> QED BY <1>1, AnswersInvariant, PTL

\* KFSA's audit event is linked only by the attempt whose evaluation is persisted.
THEOREM LinkEvaluated == Spec => []LinkedAttemptEvaluated
<1>1. AnswersInv => LinkedAttemptEvaluated BY DEF AnswersInv
<1> QED BY <1>1, AnswersInvariant, PTL

\* A conflict is told only where another request of the tenant holds the correlation.
THEOREM ConflictIsWithinTenant == Spec => []ConflictWithinTenant
<1>1. AnswersInv => ConflictWithinTenant
  BY DEF AnswersInv, Promises, Rejected, HeldByAnother, ConflictWithinTenant
<1> QED BY <1>1, AnswersInvariant, PTL

\* A post that comes after the evaluation of its correlation never calls KFSA.
THEOREM LateNeverCalls == Spec => []LateArrivalNeverCalls
<1>1. AnswersInv => LateArrivalNeverCalls
  BY DEF AnswersInv, Promises, LateHandled, LateArrivalNeverCalls, CalledPcs
<1> QED BY <1>1, AnswersInvariant, PTL

\* KFSA is called only once the attempt's request and start are audited.
THEOREM AuditedBeforeCall == Spec => []AuditPrecedesCall
<1>1. AnswersInv => AuditPrecedesCall
  BY DEF AnswersInv, Promises, Audited, InAudit, AuditPrecedesCall, RequestedPcs, StartedPcs
<1> QED BY <1>1, AnswersInvariant, PTL

-----------------------------------------------------------------------------
(* Where the flow may throw.                                               *)

\* Only an inserted attempt grows old.
OldRowsExist == \A p \in PromotionRequests, n \in AttemptNumbers :
    attempts[p][n].stale => attempts[p][n].status # "none"

\* Between its insertion and its end, an attempt is its post's alone, and in
\* progress unless it has gone stale; only a stale attempt is marked stale.
Held(t) ==
    /\ pc[t] \in OwningPcs =>
        LET row == attempts[post[t].pr][local[t].number]
        IN  row.status = "in_progress" \/ row.stale
    /\ pc[t] = "markStale" => attempts[post[t].pr][local[t].latest].stale
    /\ answer[t].kind = "threw" => \E n \in AttemptNumbers : attempts[post[t].pr][n].stale
Exclusive(t, u) ==
    pc[t] \in OwningPcs /\ pc[u] \in OwningPcs /\ post[t].pr = post[u].pr
    /\ local[t].number = local[u].number => t = u

StalenessInv ==
    /\ OldRowsExist
    /\ \A t \in Tabs : Held(t)
    /\ \A t, u \in Tabs : Exclusive(t, u)

\* What a guarded update does to a row.
LEMMA MarkEffect ==
    ASSUME TypeOK, NEW t \in Tabs, NEW n \in AttemptNumbers, NEW status, NEW error,
           NEW ACTION continue, Mark(t, n, status, error, continue),
           NEW p \in PromotionRequests, NEW m \in AttemptNumbers
    PROVE  \/ attempts'[p][m] = attempts[p][m]
           \/ /\ p = post[t].pr /\ m = n /\ attempts[p][m].status = "in_progress"
              /\ attempts'[p][m].stale = attempts[p][m].stale
              /\ attempts'[p][m].status = status
<1>1. post[t].pr \in PromotionRequests BY DEF TypeOK, Post
<1>2. CASE UNCHANGED attempts BY <1>2
<1>3. CASE /\ Unlocked(post[t].pr, n)
           /\ attempts' = [attempts EXCEPT ![post[t].pr][n] =
                 [status |-> status, error |-> error, stale |-> attempts[post[t].pr][n].stale]]
  BY <1>1, <1>3 DEF TypeOK, Unlocked
<1> QED BY <1>2, <1>3 DEF Mark

\* What a step of a post does to a row of the attempts.
LEMMA RowEffect ==
    ASSUME AttemptsInv, NEW t \in Tabs, Step(t),
           NEW p \in PromotionRequests, NEW n \in AttemptNumbers
    PROVE  \/ attempts'[p][n] = attempts[p][n]
           \/ /\ InsertAttempt(t) /\ p = post[t].pr /\ n = local[t].number
              /\ attempts[p][n].status = "none" /\ attempts'[p][n] = NewAttempt
           \/ /\ p = post[t].pr /\ attempts[p][n].status = "in_progress"
              /\ attempts'[p][n].stale = attempts[p][n].stale
              /\ attempts'[p][n].status # "none"
              /\ \/ pc[t] = "markStale" /\ n = local[t].latest
                 \/ pc[t] \in OwningPcs /\ n = local[t].number
<1>1. TypeOK /\ Progress(t) /\ post[t].pr \in PromotionRequests
  BY DEF AttemptsInv, TypeOK, Post
<1>2. CASE UNCHANGED attempts BY <1>2
<1>3. CASE InsertAttempt(t)
  BY <1>1, <1>3 DEF InsertAttempt, NumberTaken, TypeOK
<1>4. CASE MarkStale(t)
  <2>1. local[t].latest \in AttemptNumbers /\ pc[t] = "markStale"
    BY <1>1, <1>4 DEF Progress, Stale, MarkStale, Rows
  <2> QED BY <1>1, <1>4, <2>1, MarkEffect DEF MarkStale
<1>5. CASE MarkFailed(t) \/ MarkReplayed(t) \/ MarkConflict(t) \/ MarkSucceeded(t)
  <2>1. pc[t] \in OwningPcs
    BY <1>5 DEF MarkFailed, MarkReplayed, MarkConflict, MarkSucceeded, OwningPcs
  <2>2. local[t].number \in AttemptNumbers
    BY <1>1, <2>1 DEF Progress, Numbered, NumberedPcs, Rows
  <2>3. CASE MarkFailed(t) BY <1>1, <2>1, <2>2, <2>3, MarkEffect DEF MarkFailed
  <2>4. CASE MarkReplayed(t) BY <1>1, <2>1, <2>2, <2>4, MarkEffect DEF MarkReplayed
  <2>5. CASE MarkConflict(t) BY <1>1, <2>1, <2>2, <2>5, MarkEffect DEF MarkConflict
  <2>6. CASE MarkSucceeded(t) BY <1>1, <2>1, <2>2, <2>6, MarkEffect DEF MarkSucceeded
  <2> QED BY <1>5, <2>3, <2>4, <2>5, <2>6
<1> QED BY <1>2, <1>3, <1>4, <1>5
      DEF Step, tables, VerifyOwnership, RejectOwnership, ReadResponse, AuditConflict,
          ListAttempts, AuditRequested, AuditRetried, InsertRefused, RecoverResponse,
          RecoverAttempts, AuditStarted, CallKfsa, KfsaNotConfigured, KfsaEvaluates,
          KfsaFails, AuditFailed, InsertResponse, RereadResponse, AuditLostConflict,
          InsertLink, AuditSucceeded

\* Where a post that owns an attempt, or throws, comes from.
LEMMA OwningOrigins ==
    ASSUME TypeOK, NEW t \in Tabs, Step(t)
    PROVE  /\ pc'[t] \in OwningPcs =>
                \/ InsertAttempt(t) /\ pc'[t] = "auditStarted"
                \/ pc[t] \in OwningPcs /\ UNCHANGED attempts
           /\ pc'[t] = "markStale" => ListAttempts(t)
<1> USE DEF Step, Mark, Go, Return, tables, VerifyOwnership, RejectOwnership, ReadResponse,
       AuditConflict, ListAttempts, MarkStale, AuditRequested, AuditRetried, InsertAttempt,
       InsertRefused, RecoverResponse, RecoverAttempts, AuditStarted, CallKfsa,
       KfsaNotConfigured, KfsaEvaluates, KfsaFails, MarkFailed, AuditFailed, InsertResponse,
       RereadResponse, MarkReplayed, MarkConflict, AuditLostConflict, MarkSucceeded,
       InsertLink, AuditSucceeded, ReplayIfEvaluated
<1>1. pc \in [Tabs -> Pcs] BY DEF TypeOK
<1>2. pc'[t] \in OwningPcs =>
        \/ InsertAttempt(t) /\ pc'[t] = "auditStarted"
        \/ pc[t] \in OwningPcs /\ UNCHANGED attempts
  BY <1>1 DEF OwningPcs
<1>3. pc'[t] = "markStale" => ListAttempts(t) BY <1>1
<1> QED BY <1>2, <1>3

\* A post that throws has met a locked row: its own, or the one it found stale.
LEMMA ThrowOrigins ==
    ASSUME AttemptsInv, NEW t \in Tabs, Step(t), answer'[t].kind = "threw", Unanswered(t)
    PROVE  \/ pc[t] = "markStale"
           \/ pc[t] \in OwningPcs /\ attempts[post[t].pr][local[t].number].status # "in_progress"
<1>1. TypeOK BY DEF AttemptsInv
<1>2. pc[t] # "done" BY <1>1, Origins
<1>3. ASSUME NEW next, Go(t, next) PROVE FALSE
  BY <1>1, <1>2, <1>3 DEF Go, Unanswered, TypeOK
<1>4. ASSUME NEW a, Return(t, a), a.kind # "threw" PROVE FALSE
  BY <1>1, <1>4 DEF Return, TypeOK
<1>5. /\ \A kind : Reply(kind).kind = kind
      /\ \A kind, v : Evaluated(kind, v).kind = kind
      /\ \A e : Failed(e).kind = "failed"
  BY DEF Reply, Evaluated, Failed
<1>6. ASSUME VerifyOwnership(t) \/ AuditRequested(t) \/ AuditRetried(t) \/ InsertAttempt(t)
           \/ AuditStarted(t) \/ CallKfsa(t) \/ KfsaNotConfigured(t) \/ KfsaEvaluates(t)
           \/ KfsaFails(t) \/ InsertResponse(t) \/ RereadResponse(t) \/ InsertLink(t)
      PROVE  FALSE
  BY <1>3, <1>6 DEF VerifyOwnership, AuditRequested, AuditRetried, InsertAttempt, AuditStarted,
     CallKfsa, KfsaNotConfigured, KfsaEvaluates, KfsaFails, InsertResponse, RereadResponse,
     InsertLink
<1>7. ASSUME RejectOwnership(t) \/ InsertRefused(t) \/ ListAttempts(t) \/ AuditConflict(t)
      PROVE  FALSE
  BY <1>3, <1>4, <1>5, <1>7 DEF RejectOwnership, InsertRefused, ListAttempts, AuditConflict
<1>8. ASSUME ReadResponse(t) \/ RecoverResponse(t) PROVE FALSE
  BY <1>3, <1>4, <1>5, <1>8 DEF ReadResponse, RecoverResponse, ReplayIfEvaluated
<1>9. ASSUME RecoverAttempts(t) PROVE FALSE
  BY <1>4, <1>5, <1>9 DEF RecoverAttempts
<1>10. ASSUME AuditFailed(t) \/ AuditLostConflict(t) \/ AuditSucceeded(t) PROVE FALSE
  BY <1>4, <1>5, <1>10 DEF AuditFailed, AuditLostConflict, AuditSucceeded
<1>11. CASE MarkStale(t) BY <1>11 DEF MarkStale
<1>12. CASE MarkFailed(t) BY <1>3, <1>12 DEF MarkFailed, Mark, Unlocked, OwningPcs
<1>13. CASE MarkConflict(t) BY <1>3, <1>13 DEF MarkConflict, Mark, Unlocked, OwningPcs
<1>14. CASE MarkSucceeded(t) BY <1>3, <1>14 DEF MarkSucceeded, Mark, Unlocked, OwningPcs
<1>15. CASE MarkReplayed(t) BY <1>4, <1>5, <1>15 DEF MarkReplayed, Mark, Unlocked, OwningPcs
<1> QED BY <1>6, <1>7, <1>8, <1>9, <1>10, <1>11, <1>12, <1>13, <1>14, <1>15 DEF Step

\* A stale attempt stays stale, and the rows of other posts stay theirs.
StaleGrows == \A p \in PromotionRequests, n \in AttemptNumbers :
    attempts[p][n].stale => attempts'[p][n].stale

LEMMA StepStaleGrows ==
    ASSUME AttemptsInv, OldRowsExist, NEW t \in Tabs, Step(t)
    PROVE  StaleGrows /\ OldRowsExist'
<1>1. ASSUME NEW p \in PromotionRequests, NEW n \in AttemptNumbers
      PROVE  /\ attempts[p][n].stale => attempts'[p][n].stale
             /\ attempts'[p][n].stale => attempts'[p][n].status # "none"
  <2>1. attempts[p][n].stale => attempts[p][n].status # "none" BY DEF OldRowsExist
  <2>2. CASE attempts'[p][n] = attempts[p][n] BY <2>1, <2>2
  <2>3. CASE attempts'[p][n] # attempts[p][n]
    BY <2>1, <2>3, RowEffect DEF NewAttempt
  <2> QED BY <2>2, <2>3
<1> QED BY <1>1 DEF StaleGrows, OldRowsExist

\* While another post steps, an attempt that is held stays held.
LEMMA HeldStable ==
    ASSUME AttemptsInv, StaleGrows, NEW t \in Tabs, Step(t), Held(t),
           NEW u \in Tabs, u # t, Held(u), Exclusive(t, u),
           pc'[u] = pc[u], post'[u] = post[u], local'[u] = local[u], answer'[u] = answer[u]
    PROVE  Held(u)'
<1> DEFINE p == post[u].pr
           n == local[u].number
<1>1. p \in PromotionRequests /\ Progress(u) /\ Progress(t)
  BY DEF AttemptsInv, TypeOK, Post
<1>2. ASSUME pc[u] \in OwningPcs
      PROVE  attempts'[p][n].status = "in_progress" \/ attempts'[p][n].stale
  <2>1. n \in AttemptNumbers /\ attempts[p][n].status # "none"
    BY <1>1, <1>2 DEF Progress, Numbered, NumberedPcs, Rows
  <2>2. attempts[p][n].status = "in_progress" \/ attempts[p][n].stale
    BY <1>2 DEF Held
  <2>3. CASE attempts'[p][n] = attempts[p][n] BY <2>2, <2>3
  <2>4. CASE attempts[p][n].stale BY <1>1, <2>1, <2>4 DEF StaleGrows
  <2>5. CASE attempts'[p][n] # attempts[p][n]
    <3>1. \/ pc[t] = "markStale" /\ p = post[t].pr /\ n = local[t].latest
          \/ pc[t] \in OwningPcs /\ p = post[t].pr /\ n = local[t].number
      BY <1>1, <2>1, <2>5, RowEffect
    <3>2. ~(pc[t] \in OwningPcs /\ p = post[t].pr /\ n = local[t].number)
      BY <1>2 DEF Exclusive
    <3>3. attempts[p][n].stale BY <3>1, <3>2 DEF Held
    <3> QED BY <2>4, <3>3
  <2> QED BY <2>3, <2>5
<1>3. ASSUME pc[u] = "markStale" PROVE attempts'[p][local[u].latest].stale
  <2>1. local[u].latest \in AttemptNumbers
    BY <1>1, <1>3 DEF Progress, Stale, Rows
  <2> QED BY <1>1, <1>3, <2>1 DEF Held, StaleGrows
<1>4. answer[u].kind = "threw" => \E m \in AttemptNumbers : attempts'[p][m].stale
  BY <1>1 DEF Held, StaleGrows
<1> QED BY <1>2, <1>3, <1>4 DEF Held

\* The post that steps holds what it owns, and has found what it throws on.
LEMMA StepHeld ==
    ASSUME AttemptsInv, StaleGrows, NEW t \in Tabs, Step(t), Held(t), Unanswered(t)
    PROVE  Held(t)'
<1> DEFINE p == post[t].pr
<1>1. TypeOK /\ post' = post /\ p \in PromotionRequests /\ Progress(t) /\ Contiguous
  BY StepMovesOnly DEF MovesOnly, AttemptsInv, TypeOK, Post
<1>2. ASSUME pc'[t] \in OwningPcs
      PROVE  LET row == attempts'[p][local'[t].number]
             IN  row.status = "in_progress" \/ row.stale
  <2>1. CASE InsertAttempt(t) /\ pc'[t] = "auditStarted"
    <3>1. /\ local' = local /\ local[t].number \in AttemptNumbers
          /\ attempts' = [attempts EXCEPT ![p][local[t].number] = NewAttempt]
      BY <1>1, <2>1 DEF InsertAttempt, Go, TypeOK
    <3>2. attempts'[p][local[t].number] = NewAttempt BY <1>1, <3>1 DEF TypeOK
    <3> QED BY <3>1, <3>2 DEF NewAttempt
  <2>2. CASE pc[t] \in OwningPcs /\ UNCHANGED attempts
    <3>1. local'[t].number = local[t].number
      BY <1>1, <2>2, NumberKept DEF ListAttempts, OwningPcs
    <3> QED BY <2>2, <3>1 DEF Held
  <2> QED BY <1>1, <1>2, <2>1, <2>2, OwningOrigins
<1>3. ASSUME pc'[t] = "markStale" PROVE attempts'[p][local'[t].latest].stale
  <2>1. ListAttempts(t) BY <1>1, <1>3, OwningOrigins
  <2>2. InFlight(p) /\ ~Fresh(p) /\ attempts' = attempts
        /\ local' = [local EXCEPT ![t].number = NextAttemptNumber(p),
                                  ![t].latest = IF Rows(p) = {} THEN 0 ELSE LatestAttempt(p)]
    BY <1>1, <1>3, <2>1 DEF ListAttempts, Go, Return, TypeOK, tables
  <2>3. local'[t].latest = LatestAttempt(p) BY <1>1, <2>2 DEF InFlight, TypeOK, Local
  <2>4. attempts[p][LatestAttempt(p)].stale BY <2>2 DEF Fresh
  <2> QED BY <2>2, <2>3, <2>4
<1>4. ASSUME answer'[t].kind = "threw" PROVE \E m \in AttemptNumbers : attempts'[p][m].stale
  <2>1. CASE pc[t] = "markStale"
    <3>1. local[t].latest \in AttemptNumbers BY <1>1, <2>1 DEF Progress, Stale, Rows
    <3> QED BY <1>1, <2>1, <3>1 DEF Held, StaleGrows
  <2>2. CASE pc[t] \in OwningPcs /\ attempts[p][local[t].number].status # "in_progress"
    <3>1. local[t].number \in AttemptNumbers
      BY <1>1, <2>2 DEF Progress, Numbered, NumberedPcs, Rows
    <3> QED BY <1>1, <2>2, <3>1 DEF Held, StaleGrows
  <2> QED BY <1>4, <2>1, <2>2, ThrowOrigins
<1> QED BY <1>1, <1>2, <1>3, <1>4 DEF Held

\* An attempt that is inserted is nobody else's.
LEMMA StepExclusive ==
    ASSUME AttemptsInv, NEW t \in Tabs, Step(t), NEW u \in Tabs, u # t, Exclusive(t, u)
    PROVE  Exclusive(t, u)' /\ Exclusive(u, t)'
<1>1. /\ TypeOK /\ post' = post /\ pc'[u] = pc[u] /\ local'[u] = local[u]
      /\ Progress(u) /\ post[t].pr \in PromotionRequests
  BY StepMovesOnly DEF MovesOnly, AttemptsInv, TypeOK, Post
<1> SUFFICES ASSUME pc'[t] \in OwningPcs, pc[u] \in OwningPcs, post[t].pr = post[u].pr,
                    local'[t].number = local[u].number
             PROVE  FALSE
  BY <1>1 DEF Exclusive
<1>2. CASE InsertAttempt(t) /\ pc'[t] = "auditStarted"
  <2>1. ~NumberTaken(post[t].pr, local[t].number) /\ local' = local
    BY <1>1, <1>2 DEF InsertAttempt, Go, TypeOK
  <2>2. local[u].number \in Rows(post[u].pr)
    BY <1>1 DEF Progress, Numbered, NumberedPcs
  <2> QED BY <2>1, <2>2 DEF NumberTaken, Rows
<1>3. CASE pc[t] \in OwningPcs /\ UNCHANGED attempts
  <2>1. local'[t].number = local[t].number
    BY <1>1, <1>3, NumberKept DEF ListAttempts, OwningPcs
  <2> QED BY <1>3, <2>1 DEF Exclusive
<1> QED BY <1>1, <1>2, <1>3, OwningOrigins

LEMMA StalenessInvInit == Init => StalenessInv
BY DEF Init, StalenessInv, OldRowsExist, Held, Exclusive, OwningPcs, Reply

LEMMA StalenessInvNext ==
    ASSUME AttemptsInv, StalenessInv, \A t \in Tabs : Unanswered(t), [Next]_vars
    PROVE  StalenessInv'
<1>1. /\ TypeOK /\ OldRowsExist /\ \A t \in Tabs : Held(t) /\ Unanswered(t)
      /\ \A t, u \in Tabs : Exclusive(t, u)
      /\ \A t \in Tabs : Progress(t) /\ post[t].pr \in PromotionRequests
  BY DEF AttemptsInv, StalenessInv, TypeOK, Post
<1>2. ASSUME NEW t \in Tabs, Step(t) PROVE StalenessInv'
  <2>1. StaleGrows /\ OldRowsExist' BY <1>1, <1>2, StepStaleGrows
  <2>2. \A u \in Tabs \ {t} : pc'[u] = pc[u] /\ post'[u] = post[u] /\ local'[u] = local[u]
                              /\ answer'[u] = answer[u]
    BY <1>1, <1>2, StepMovesOnly DEF MovesOnly
  <2>3. ASSUME NEW u \in Tabs PROVE Held(u)'
    <3>1. CASE u = t BY <1>1, <1>2, <2>1, <3>1, StepHeld
    <3>2. CASE u # t BY <1>1, <1>2, <2>1, <2>2, <3>2, HeldStable
    <3> QED BY <3>1, <3>2
  <2>4. ASSUME NEW u \in Tabs, NEW w \in Tabs PROVE Exclusive(u, w)'
    <3>1. CASE u # t /\ w # t BY <1>1, <2>2, <3>1 DEF Exclusive
    <3>2. CASE u = w BY <3>2 DEF Exclusive
    <3>3. CASE u = t /\ w # t BY <1>1, <1>2, <3>3, StepExclusive
    <3>4. CASE u # t /\ w = t BY <1>1, <1>2, <3>4, StepExclusive
    <3> QED BY <3>1, <3>2, <3>3, <3>4
  <2> QED BY <2>1, <2>3, <2>4 DEF StalenessInv
<1>3. ASSUME NEW t \in Tabs, UNCHANGED tables,
             \A u \in Tabs \ {t} : pc'[u] = pc[u] /\ post'[u] = post[u] /\ local'[u] = local[u]
                                   /\ answer'[u] = answer[u],
             pc'[t] \in {"verify", "done"}, answer'[t].kind # "threw"
      PROVE  StalenessInv'
  <2>1. attempts' = attempts BY <1>3 DEF tables
  <2>2. OldRowsExist' BY <1>1, <2>1 DEF OldRowsExist
  <2>3. ASSUME NEW u \in Tabs PROVE Held(u)'
    <3>1. CASE u = t BY <1>3, <3>1 DEF Held, OwningPcs
    <3>2. CASE u # t BY <1>1, <1>3, <2>1, <3>2 DEF Held
    <3> QED BY <3>1, <3>2
  <2>4. ASSUME NEW u \in Tabs, NEW w \in Tabs PROVE Exclusive(u, w)'
    <3>1. CASE u = t \/ w = t BY <1>3, <3>1 DEF Exclusive, OwningPcs
    <3>2. CASE u # t /\ w # t BY <1>1, <1>3, <3>2 DEF Exclusive
    <3> QED BY <3>1, <3>2
  <2> QED BY <2>2, <2>3, <2>4 DEF StalenessInv
<1>4. ASSUME NEW t \in Tabs, NEW p \in PromotionRequests, NEW o \in Organizations, Arrive(t, p, o)
      PROVE  StalenessInv'
  BY <1>1, <1>3, <1>4 DEF Arrive, TypeOK, Reply
<1>5. ASSUME NEW t \in Tabs, Abort(t) PROVE StalenessInv'
  BY <1>1, <1>3, <1>5 DEF Abort, Return, TypeOK, Reply
<1>6. ASSUME NEW p \in PromotionRequests, NEW n \in AttemptNumbers, Age(p, n) PROVE StalenessInv'
  <2>1. attempts' = [attempts EXCEPT ![p] = [attempts[p] EXCEPT ![n] =
                        [attempts[p][n] EXCEPT !.stale = TRUE]]]
    BY <1>1, <1>6 DEF Age, TypeOK
  <2>2. [attempts[p][n] EXCEPT !.stale = TRUE].status = attempts[p][n].status
        /\ [attempts[p][n] EXCEPT !.stale = TRUE].stale
    BY <1>1 DEF TypeOK, Attempt
  <2>3. ASSUME NEW q \in PromotionRequests, NEW m \in AttemptNumbers
        PROVE  /\ attempts'[q][m].status = attempts[q][m].status
               /\ attempts[q][m].stale => attempts'[q][m].stale
               /\ attempts'[q][m].stale => attempts[q][m].stale \/ attempts[q][m].status # "none"
    BY <1>1, <1>6, <2>1, <2>2 DEF TypeOK, Age
  <2>4. UNCHANGED <<pc, post, local, answer>> BY <1>6 DEF Age
  <2>5. OldRowsExist' BY <1>1, <2>3 DEF OldRowsExist
  <2>6. ASSUME NEW u \in Tabs PROVE Held(u)'
    <3>1. pc[u] \in OwningPcs => local[u].number \in AttemptNumbers
      BY <1>1 DEF Progress, Numbered, NumberedPcs, Rows
    <3>2. pc[u] = "markStale" => local[u].latest \in AttemptNumbers
      BY <1>1 DEF Progress, Stale, Rows
    <3> QED BY <1>1, <2>3, <2>4, <3>1, <3>2 DEF Held
  <2>7. \A u, w \in Tabs : Exclusive(u, w)' BY <1>1, <2>4 DEF Exclusive
  <2> QED BY <2>5, <2>6, <2>7 DEF StalenessInv
<1>7. CASE UNCHANGED vars
  BY <1>7 DEF vars, StalenessInv, OldRowsExist, Held, Exclusive
<1> QED BY <1>2, <1>4, <1>5, <1>6, <1>7 DEF Next

\* The flow throws only where an attempt of the request has gone stale.
THEOREM ThrowsAfterStaleness == Spec => []ThrowsOnlyAfterStaleness
<1>1. AttemptsInv /\ AnswersInv /\ StalenessInv /\ [Next]_vars => StalenessInv'
  BY StalenessInvNext DEF AnswersInv, Promises
<1>2. StalenessInv => ThrowsOnlyAfterStaleness
  BY DEF StalenessInv, Held, ThrowsOnlyAfterStaleness
<1> QED BY <1>1, <1>2, StalenessInvInit, AttemptsInvariant, AnswersInvariant, PTL DEF Spec
=============================================================================
