-------------------------- MODULE PluginRunsProofs --------------------------
(***************************************************************************)
(* Theorems of PluginRuns: types, a correlation id executes once, a run    *)
(* follows its context, and a promotion request stays submittable.         *)
(***************************************************************************)
EXTENDS PluginRuns, TLAPS

-----------------------------------------------------------------------------
(* Types.                                                                  *)

\* TypeOK in two halves: what belongs to the posts, and what to the tables.
PostsTyped ==
    /\ pc \in [Tabs -> Pcs]
    /\ post \in [Tabs -> Post]
    /\ local \in [Tabs -> Local]
    /\ answer \in [Tabs -> Answers]

TablesTyped ==
    /\ installation \in {"none", "installed", "disabled"}
    /\ profile \in {"none", "incomplete", "complete"}
    /\ snapshots \in SUBSET Context
    /\ runs \in [Correlations -> Run]
    /\ useCases \in [Correlations -> Nat]
    /\ evidence \in [Correlations -> Nat]
    /\ requests \subseteq Request
    /\ audit \in SUBSET AuditEvent

\* The two halves are TypeOK, before a step and after it.
LEMMA TypesSplit ==
    /\ TypeOK <=> PostsTyped /\ TablesTyped
    /\ TypeOK' <=> PostsTyped' /\ TablesTyped'
BY DEF TypeOK, PostsTyped, TablesTyped

\* What is posted, and what it is about, is typed.
LEMMA PostFields ==
    ASSUME TypeOK, NEW t \in Tabs
    PROVE  /\ post[t].run \in Correlations /\ post[t].skill \in Skills
           /\ post[t].input \in Inputs /\ post[t].admin \in BOOLEAN
           /\ post[t].late \in BOOLEAN
           /\ local[t].missing \in BOOLEAN /\ local[t].reason \in Reasons
           /\ local[t].evidence \in Nat
           /\ ContextOf(t) \in Context
BY DEF TypeOK, Post, Local, Context, ContextOf

\* A row of plugin_runs is typed.
LEMMA RunFields ==
    ASSUME TypeOK, NEW c \in Correlations
    PROVE  /\ runs[c] \in Run
           /\ runs[c].status \in {"none", "submitted", "completed", "rejected"}
           /\ runs[c].skill \in Skills /\ runs[c].context \in Context
           /\ runs[c].reason \in Reasons
           /\ useCases[c] \in Nat /\ evidence[c] \in Nat
BY DEF TypeOK, Run

\* Nothing is typed by chance: the initial values have their types.
LEMMA TypeInit == Init => TypeOK
<1> SUFFICES ASSUME Init PROVE TypeOK
    OBVIOUS
<1>1. (CHOOSE s \in Skills : TRUE) \in Skills /\ (CHOOSE c \in Correlations : TRUE) \in Correlations
    BY SkillsAssumption
<1>2. NoRun \in Run
    BY <1>1 DEF NoRun, Run, Context, Reasons
<1>3. NoLocals \in Local
    BY DEF NoLocals, Local, Reasons
<1> QED
    BY <1>1, <1>2, <1>3 DEF Init, TypeOK, Pcs, Post, Inputs, Answers

\* Moving on to a known place keeps the posts typed.
LEMMA GoTyped ==
    ASSUME PostsTyped, NEW t \in Tabs, NEW next \in Pcs, Go(t, next), local' \in [Tabs -> Local]
    PROVE  PostsTyped'
BY DEF PostsTyped, Go

\* So does returning a known answer.
LEMMA ReturnTyped ==
    ASSUME PostsTyped, NEW t \in Tabs, NEW a \in Answers, Return(t, a), UNCHANGED local
    PROVE  PostsTyped'
BY DEF PostsTyped, Return, Pcs

\* So does setting out to reject for a known reason.
LEMMA RejectTyped ==
    ASSUME PostsTyped, NEW t \in Tabs, NEW reason \in Reasons, Reject(t, reason)
    PROVE  PostsTyped'
<1>1. local' \in [Tabs -> Local]
    BY DEF PostsTyped, Reject, Local
<1> QED
    BY <1>1, GoTyped DEF Reject, Pcs

\* An audit event of a known type about a known run is a row.
LEMMA RecordTyped ==
    ASSUME TablesTyped, NEW type \in EventTypes, NEW c \in Correlations, Record(type, c)
    PROVE  audit' \in SUBSET AuditEvent
BY DEF TablesTyped, Record, AuditEvent

\* Appending one changes no other table.
LEMMA AuditTyped ==
    ASSUME TypeOK, NEW t \in Tabs, NEW type \in EventTypes, Audit(t, type)
    PROVE  TablesTyped' /\ UNCHANGED local
BY TypesSplit, PostFields, RecordTyped DEF Audit, TablesTyped, settings, rows

\* A post that starts is typed.
LEMMA ArriveTyped ==
    ASSUME TypeOK, NEW t \in Tabs, NEW first \in Pcs, NEW s \in Skills,
           NEW c \in Correlations, NEW input \in Inputs, NEW admin \in BOOLEAN,
           Arrive(t, first, s, c, input, admin)
    PROVE  TypeOK'
<1>1. NoLocals \in Local
    BY DEF NoLocals, Local, Reasons
<1>2. [skill |-> s, run |-> c, input |-> input, admin |-> admin, late |-> Exists(c)] \in Post
    BY DEF Post, Exists
<1>3. PostsTyped'
    BY <1>1, <1>2, TypesSplit DEF PostsTyped, Arrive, Answers
<1> QED
    BY <1>3, TypesSplit DEF TablesTyped, Arrive, settings, rows

\* A run ends with a known status and reason.
LEMMA EndTyped ==
    ASSUME TypeOK, NEW t \in Tabs, NEW status \in {"completed", "rejected"},
           NEW reason \in Reasons, NEW next \in Pcs, End(t, status, reason, next)
    PROVE  TypeOK'
<1> DEFINE c == post[t].run
<1>1. runs' \in [Correlations -> Run]
    <2>1. CASE runs' = [runs EXCEPT ![c].status = status, ![c].reason = reason]
        BY <2>1, PostFields, RunFields DEF TypeOK, Run
    <2>2. CASE UNCHANGED runs
        BY <2>2 DEF TypeOK
    <2> QED
        BY <2>1, <2>2 DEF End
<1>2. PostsTyped'
    <2>1. PostsTyped /\ UNCHANGED local /\ (Go(t, next) \/ Return(t, "threw"))
        BY TypesSplit DEF End
    <2>2. CASE Go(t, next)
        BY <2>1, <2>2, GoTyped DEF PostsTyped
    <2>3. CASE Return(t, "threw")
        BY <2>1, <2>3, ReturnTyped DEF Answers
    <2> QED
        BY <2>1, <2>2, <2>3
<1> QED
    BY <1>1, <1>2, TypesSplit DEF TablesTyped, End, settings

\* Every step of a post keeps the posts typed.
LEMMA StepPostsTyped ==
    ASSUME TypeOK, NEW t \in Tabs, Step(t)
    PROVE  PostsTyped'
<1>0. PostsTyped
    BY TypesSplit
<1>1. CASE FindRun(t)
    <2>1. UNCHANGED local
        BY <1>1 DEF FindRun
    <2>2. Go(t, "readInstallation") \/ \E a \in Answers : Return(t, a)
        BY <1>1 DEF FindRun, Answers
    <2> QED
        BY <1>0, <2>1, <2>2, GoTyped, ReturnTyped DEF Pcs, PostsTyped
<1>2. CASE ReadInstallation(t)
    <2>1. UNCHANGED local
        BY <1>2 DEF ReadInstallation
    <2>2. Go(t, "readProfile") \/ \E a \in Answers : Return(t, a)
        BY <1>2 DEF ReadInstallation, Answers
    <2> QED
        BY <1>0, <2>1, <2>2, GoTyped, ReturnTyped DEF Pcs, PostsTyped
<1>3. CASE ReadProfile(t)
    <2>1. local' \in [Tabs -> Local]
        BY <1>0, <1>3 DEF ReadProfile, PostsTyped, Local
    <2> QED
        BY <1>0, <1>3, <2>1, GoTyped DEF ReadProfile, Pcs
<1>4. CASE InsertSnapshot(t)
    BY <1>0, <1>4, GoTyped DEF InsertSnapshot, Pcs, PostsTyped
<1>5. CASE AuditComposed(t)
    BY <1>0, <1>5, GoTyped DEF AuditComposed, Audit, Pcs, PostsTyped
<1>6. CASE InsertRun(t)
    <2>1. \/ Return(t, "threw") /\ UNCHANGED local
          \/ Go(t, "auditStarted") /\ UNCHANGED local
          \/ Reject(t, "connector_not_permitted")
        BY <1>6 DEF InsertRun
    <2>2. CASE Return(t, "threw") /\ UNCHANGED local
        BY <1>0, <2>2, ReturnTyped DEF Answers
    <2>3. CASE Go(t, "auditStarted") /\ UNCHANGED local
        BY <1>0, <2>3, GoTyped DEF Pcs, PostsTyped
    <2>4. CASE Reject(t, "connector_not_permitted")
        BY <1>0, <2>4, RejectTyped DEF Reasons
    <2> QED
        BY <2>1, <2>2, <2>3, <2>4
<1>7. CASE AuditStarted(t)
    <2>1. \/ Go(t, "handle") /\ UNCHANGED local
          \/ Reject(t, "skill_not_implemented")
        BY <1>7 DEF AuditStarted
    <2> QED
        BY <1>0, <2>1, GoTyped, RejectTyped DEF Pcs, PostsTyped, Reasons
<1>8. CASE Handle(t)
    <2>1. \/ \E reason \in Reasons : Reject(t, reason)
          \/ Go(t, "insertEvidence") /\ UNCHANGED local
        BY <1>8 DEF Handle, CreateUseCase, Reasons
    <2> QED
        BY <1>0, <2>1, GoTyped, RejectTyped DEF Pcs, PostsTyped
<1>9. CASE RejectRun(t)
    BY <1>9, PostFields, EndTyped, TypesSplit DEF RejectRun, Pcs
<1>10. CASE AuditRejected(t)
    BY <1>0, <1>10, ReturnTyped DEF AuditRejected, Audit, Answers
<1>11. CASE InsertEvidence(t)
    BY <1>0, <1>11, GoTyped DEF InsertEvidence, Pcs, PostsTyped
<1>12. CASE AuditEvidence(t)
    BY <1>0, <1>12, GoTyped DEF AuditEvidence, Audit, Pcs, PostsTyped
<1>13. CASE CompleteRun(t)
    BY <1>13, EndTyped, TypesSplit DEF CompleteRun, Pcs, Reasons
<1>14. CASE AuditCompleted(t)
    BY <1>0, <1>14, ReturnTyped DEF AuditCompleted, Audit, Answers
<1>15. CASE ReadRun(t)
    BY <1>0, <1>15, GoTyped, ReturnTyped DEF ReadRun, Answers, Pcs, PostsTyped
<1>16. CASE ListEvidence(t)
    <2>1. local' \in [Tabs -> Local]
        BY <1>0, <1>16, PostFields, RunFields DEF ListEvidence, PostsTyped, Local
    <2> QED
        BY <1>0, <1>16, <2>1, GoTyped DEF ListEvidence, Pcs
<1>17. CASE InsertRequest(t)
    BY <1>0, <1>17, GoTyped DEF InsertRequest, Pcs, PostsTyped
<1>18. CASE AuditRequest(t)
    BY <1>0, <1>18, ReturnTyped DEF AuditRequest, Audit, Answers
<1> QED
    BY <1>1, <1>2, <1>3, <1>4, <1>5, <1>6, <1>7, <1>8, <1>9, <1>10, <1>11, <1>12,
       <1>13, <1>14, <1>15, <1>16, <1>17, <1>18 DEF Step

\* Every step of a post keeps the tables typed.
LEMMA StepTablesTyped ==
    ASSUME TypeOK, NEW t \in Tabs, Step(t)
    PROVE  TablesTyped'
<1> DEFINE c == post[t].run
<1>0. TablesTyped /\ c \in Correlations
    BY TypesSplit, PostFields
<1>1. CASE FindRun(t) \/ ReadInstallation(t) \/ ReadProfile(t) \/ ReadRun(t) \/ ListEvidence(t)
    BY <1>0, <1>1 DEF FindRun, ReadInstallation, ReadProfile, ReadRun, ListEvidence,
       TablesTyped, settings, rows
<1>2. CASE AuditComposed(t) \/ AuditRejected(t) \/ AuditEvidence(t) \/ AuditCompleted(t)
            \/ AuditRequest(t)
    BY <1>2, AuditTyped DEF AuditComposed, AuditRejected, AuditEvidence, AuditCompleted,
       AuditRequest, EventTypes
<1>3. CASE InsertSnapshot(t)
    BY <1>0, <1>3, PostFields DEF InsertSnapshot, TablesTyped, settings
<1>4. CASE InsertRun(t)
    <2>1. [status |-> "submitted", skill |-> post[t].skill,
           context |-> ContextOf(t), reason |-> "none"] \in Run
        BY PostFields DEF Run, Reasons
    <2>2. runs' \in [Correlations -> Run]
        BY <1>0, <1>4, <2>1 DEF InsertRun, TablesTyped
    <2> QED
        BY <1>0, <1>4, <2>2 DEF InsertRun, TablesTyped, settings
<1>5. CASE AuditStarted(t)
    BY <1>0, <1>5, RecordTyped DEF AuditStarted, TablesTyped, settings, rows, EventTypes
<1>6. CASE Handle(t)
    <2>1. useCases' \in [Correlations -> Nat]
        BY <1>0, <1>6 DEF Handle, CreateUseCase, TablesTyped
    <2> QED
        BY <1>0, <1>6, <2>1 DEF Handle, TablesTyped, settings
<1>7. CASE RejectRun(t)
    BY <1>7, PostFields, EndTyped, TypesSplit DEF RejectRun, Pcs
<1>8. CASE CompleteRun(t)
    BY <1>8, EndTyped, TypesSplit DEF CompleteRun, Pcs, Reasons
<1>9. CASE InsertEvidence(t)
    BY <1>0, <1>9 DEF InsertEvidence, TablesTyped, settings
<1>10. CASE InsertRequest(t)
    <2>1. requests' \subseteq Request
        BY <1>0, <1>10, PostFields, RunFields DEF InsertRequest, TablesTyped, Request
    <2> QED
        BY <1>0, <1>10, <2>1 DEF InsertRequest, TablesTyped, settings
<1> QED
    BY <1>1, <1>2, <1>3, <1>4, <1>5, <1>6, <1>7, <1>8, <1>9, <1>10 DEF Step

\* Every step keeps the types.
LEMMA TypeNext == TypeOK /\ [Next]_vars => TypeOK'
<1> SUFFICES ASSUME TypeOK, [Next]_vars PROVE TypeOK'
    OBVIOUS
<1>1. CASE \E t \in Tabs, s \in Skills, c \in Correlations, input \in Inputs :
              PostRun(t, s, c, input)
    BY <1>1, ArriveTyped DEF PostRun, Pcs
<1>2. CASE \E t \in Tabs, c \in Correlations, admin \in BOOLEAN :
              Exists(c) /\ PostRequest(t, c, admin)
    <2>1. PICK t \in Tabs, c \in Correlations, admin \in BOOLEAN : PostRequest(t, c, admin)
        BY <1>2
    <2>2. runs[c].skill \in Skills
        BY RunFields
    <2> QED
        BY <2>1, <2>2, ArriveTyped DEF PostRequest, Pcs, Inputs
<1>3. CASE \E t \in Tabs : Step(t)
    BY <1>3, StepPostsTyped, StepTablesTyped, TypesSplit
<1>4. CASE \E t \in Tabs : Abort(t)
    <2>1. PostsTyped'
        BY <1>4, TypesSplit, ReturnTyped DEF Abort, Answers
    <2> QED
        BY <1>4, <2>1, TypesSplit DEF Abort, TablesTyped, settings, rows
<1>5. CASE Install \/ Disable \/ EditProfile \/ UNCHANGED vars
    BY <1>5 DEF TypeOK, Install, Disable, EditProfile, vars, posts, rows
<1> QED
    BY <1>1, <1>2, <1>3, <1>4, <1>5 DEF Next

\* Every variable keeps its type, however posts interleave and die.
THEOREM PluginTypeCorrect == Spec => []TypeOK
BY TypeInit, TypeNext, PTL DEF Spec

-----------------------------------------------------------------------------
(* The inductive invariant: what the tables hold of a run, and what the     *)
(* place of a post says of them.                                            *)

\* The awaited calls of the post that inserted a run still in progress.
OwningPcs == {"auditStarted", "handle", "rejectRun", "insertEvidence", "auditEvidence",
              "completeRun"}

\* The awaited calls of a post whose correlation id may have had a run before.
LatePcs == {"idle", "findRun", "done", "readRun", "listEvidence", "insertRequest",
            "auditRequest"}

Audited(type, c) == [type |-> type, run |-> c] \in audit

RunFacts(c) ==
    /\ runs[c].status \in {"none", "rejected"} => useCases[c] = 0 /\ evidence[c] = 0
    /\ evidence[c] <= useCases[c] /\ useCases[c] <= 1
    /\ runs[c].status # "none" =>
          runs[c].context \in snapshots /\ runs[c].context.skill = runs[c].skill
    /\ runs[c].status = "completed" =>
          /\ useCases[c] = 1 /\ evidence[c] = 1
          /\ Audited("run.started", c) /\ Audited("evidence.created", c)
          /\ ~runs[c].context.missing
          /\ runs[c].skill \in Implemented \cap Handled \cap ConnectorsGranted
    /\ runs[c].status # "none" /\ runs[c].reason = "missing_required_profile_fields" =>
          runs[c].context.missing

\* What a post that executes its run knows of it.
OwnerFacts(t) == LET c == post[t].run IN
    /\ pc[t] \in OwningPcs =>
          /\ runs[c].status = "submitted" /\ runs[c].skill = post[t].skill
          /\ runs[c].context = ContextOf(t) /\ runs[c].reason = "none"
    /\ pc[t] \in {"auditStarted", "handle", "rejectRun"} => useCases[c] = 0 /\ evidence[c] = 0
    /\ pc[t] = "insertEvidence" => useCases[c] = 1 /\ evidence[c] = 0
    /\ pc[t] \in {"auditEvidence", "completeRun"} => useCases[c] = 1 /\ evidence[c] = 1
    /\ pc[t] \in {"auditStarted", "handle"} => post[t].skill \in ConnectorsGranted
    /\ pc[t] = "handle" => post[t].skill \in Implemented
    /\ pc[t] \in {"insertEvidence", "auditEvidence", "completeRun"} =>
          /\ ~local[t].missing
          /\ post[t].skill \in Implemented \cap Handled \cap ConnectorsGranted
    /\ pc[t] = "rejectRun" /\ local[t].reason = "missing_required_profile_fields" =>
          local[t].missing
    /\ pc[t] \in {"handle", "insertEvidence", "auditEvidence", "completeRun"} =>
          Audited("run.started", c)
    /\ pc[t] = "completeRun" => Audited("evidence.created", c)

\* What any post knows of the run of its correlation id.
ReaderFacts(t) == LET c == post[t].run IN
    /\ pc[t] \in {"auditComposed", "insertRun"} => ContextOf(t) \in snapshots
    /\ pc[t] \in {"auditRejected", "auditCompleted"} \/ answer[t] \in {"completed", "rejected"} =>
          Exists(c) /\ runs[c].skill = post[t].skill
    /\ pc[t] = "auditCompleted" \/ answer[t] = "completed" => runs[c].status = "completed"
    /\ pc[t] \in {"listEvidence", "insertRequest"} => runs[c].status = "completed"
    /\ pc[t] = "insertRequest" => local[t].evidence = evidence[c]
    /\ post[t].late => pc[t] \in LatePcs /\ answer[t] # "threw" /\ Exists(c)

\* A run in progress is executed by one post.
Exclusive ==
    \A t, u \in Tabs :
        pc[t] \in OwningPcs /\ pc[u] \in OwningPcs /\ post[t].run = post[u].run => t = u

RunsInv ==
    /\ TypeOK
    /\ Exclusive
    /\ \A c \in Correlations : RunFacts(c)
    /\ \A t \in Tabs : OwnerFacts(t) /\ ReaderFacts(t)
    /\ RequestStaysSubmittable

-----------------------------------------------------------------------------
(* What a step leaves alone.                                               *)

\* A step of one tab's post leaves the posts of the others alone.
OthersKept(t) ==
    \A u \in Tabs \ {t} :
        pc'[u] = pc[u] /\ post'[u] = post[u] /\ local'[u] = local[u] /\ answer'[u] = answer[u]

\* Only the run posted, and only by the post that owns or inserts it, changes.
RowsKept(t) ==
    \A c \in Correlations :
        c # post[t].run \/ (pc[t] \notin OwningPcs /\ Exists(c)) =>
            runs'[c] = runs[c] /\ useCases'[c] = useCases[c] /\ evidence'[c] = evidence[c]

\* A run keeps its skill and its context, and one that has ended never changes.
RunsKept ==
    \A c \in Correlations : Exists(c) =>
        /\ runs'[c].skill = runs[c].skill /\ runs'[c].context = runs[c].context
        /\ runs'[c].status # "none"
        /\ runs[c].status # "submitted" => runs'[c] = runs[c]

HistoryKept == snapshots \subseteq snapshots' /\ audit \subseteq audit'

\* Each step of a post moves that post only, and never changes what it posted.
LEMMA StepOthers ==
    ASSUME TypeOK, NEW t \in Tabs, Step(t)
    PROVE  OthersKept(t) /\ post' = post
BY DEF TypeOK, Step, OthersKept, FindRun, ReadInstallation, ReadProfile, InsertSnapshot,
   AuditComposed, InsertRun, AuditStarted, Handle, CreateUseCase, RejectRun, AuditRejected,
   InsertEvidence, AuditEvidence, CompleteRun, AuditCompleted, ReadRun, ListEvidence,
   InsertRequest, AuditRequest, End, Reject, Audit, Go, Return

\* Snapshots and audit events are only added.
LEMMA StepHistory ==
    ASSUME NEW t \in Tabs, Step(t)
    PROVE  HistoryKept
BY DEF Step, HistoryKept, FindRun, ReadInstallation, ReadProfile, InsertSnapshot,
   AuditComposed, InsertRun, AuditStarted, Handle, RejectRun, AuditRejected,
   InsertEvidence, AuditEvidence, CompleteRun, AuditCompleted, ReadRun, ListEvidence,
   InsertRequest, AuditRequest, End, Audit, Record, rows

\* The row of a run changes only by the post that owns it or inserts it.
LEMMA StepRows ==
    ASSUME TypeOK, NEW t \in Tabs, Step(t)
    PROVE  RowsKept(t)
<1> DEFINE c == post[t].run
<1>1. \/ UNCHANGED <<runs, useCases, evidence>>
      \/ /\ pc[t] \in OwningPcs \/ ~Exists(c)
         /\ \A d \in Correlations \ {c} :
               runs'[d] = runs[d] /\ useCases'[d] = useCases[d] /\ evidence'[d] = evidence[d]
    <2>1. CASE InsertRun(t)
        BY <2>1 DEF InsertRun, TypeOK, settings
    <2>2. CASE Handle(t)
        BY <2>2 DEF Handle, CreateUseCase, TypeOK, OwningPcs
    <2>3. CASE RejectRun(t) \/ CompleteRun(t)
        BY <2>3 DEF RejectRun, CompleteRun, End, TypeOK, OwningPcs
    <2>4. CASE InsertEvidence(t)
        BY <2>4 DEF InsertEvidence, TypeOK, OwningPcs
    <2>5. CASE ~InsertRun(t) /\ ~Handle(t) /\ ~RejectRun(t) /\ ~CompleteRun(t)
               /\ ~InsertEvidence(t)
        BY <2>5 DEF Step, FindRun, ReadInstallation, ReadProfile, InsertSnapshot,
           AuditComposed, AuditStarted, AuditRejected, AuditEvidence, AuditCompleted,
           ReadRun, ListEvidence, InsertRequest, AuditRequest, Audit, rows
    <2> QED
        BY <2>1, <2>2, <2>3, <2>4, <2>5
<1> QED
    BY <1>1 DEF RowsKept, OwningPcs

\* A run keeps its skill and context, and its end.
LEMMA StepRuns ==
    ASSUME TypeOK, NEW t \in Tabs, Step(t)
    PROVE  RunsKept
<1>1. CASE InsertRun(t)
    BY <1>1, PostFields DEF InsertRun, RunsKept, Exists, TypeOK, Run
<1>2. CASE RejectRun(t) \/ CompleteRun(t)
    <2>1. \E status \in {"completed", "rejected"}, reason \in Reasons, next \in Pcs :
              End(t, status, reason, next)
        BY <1>2, PostFields DEF RejectRun, CompleteRun, Reasons, Pcs
    <2> QED
        BY <2>1, PostFields DEF End, RunsKept, Exists, TypeOK, Run
<1>3. CASE ~InsertRun(t) /\ ~RejectRun(t) /\ ~CompleteRun(t)
    <2>1. UNCHANGED runs
        BY <1>3 DEF Step, FindRun, ReadInstallation, ReadProfile, InsertSnapshot,
           AuditComposed, AuditStarted, Handle, AuditRejected, InsertEvidence, AuditEvidence,
           AuditCompleted, ReadRun, ListEvidence, InsertRequest, AuditRequest, Audit, rows
    <2> QED
        BY <2>1 DEF RunsKept, Exists
<1> QED
    BY <1>1, <1>2, <1>3

-----------------------------------------------------------------------------
(* The steps of a post preserve the invariant.                             *)

\* What another post knows of its run stays true.
LEMMA OthersFacts ==
    ASSUME RunsInv, NEW t \in Tabs, Step(t), NEW u \in Tabs \ {t}
    PROVE  OwnerFacts(u)' /\ ReaderFacts(u)'
<1> DEFINE c == post[u].run
<1>1. TypeOK /\ c \in Correlations /\ OwnerFacts(u) /\ ReaderFacts(u)
    BY PostFields DEF RunsInv
<1>2. pc'[u] = pc[u] /\ post'[u] = post[u] /\ local'[u] = local[u] /\ answer'[u] = answer[u]
    BY <1>1, StepOthers DEF OthersKept
<1>3. RowsKept(t) /\ RunsKept /\ HistoryKept
    BY <1>1, StepRows, StepRuns, StepHistory
<1>4. pc[u] \in OwningPcs \/ pc[u] \in {"listEvidence", "insertRequest"} =>
          runs'[c] = runs[c] /\ useCases'[c] = useCases[c] /\ evidence'[c] = evidence[c]
    <2>1. Exists(c) \/ ~(pc[u] \in OwningPcs \/ pc[u] \in {"listEvidence", "insertRequest"})
        BY <1>1 DEF OwnerFacts, ReaderFacts, Exists
    <2>2. CASE pc[u] \in OwningPcs
        BY <1>1, <1>3, <2>1, <2>2 DEF RunsInv, Exclusive, RowsKept
    <2>3. CASE pc[u] \in {"listEvidence", "insertRequest"}
        <3>1. runs[c].status = "completed"
            BY <1>1, <2>3 DEF ReaderFacts
        <3>2. ~(pc[t] \in OwningPcs /\ post[t].run = c)
            BY <3>1 DEF RunsInv, OwnerFacts
        <3> QED
            BY <1>1, <1>3, <2>1, <2>3, <3>2 DEF RowsKept
    <2> QED
        BY <2>2, <2>3
<1>5. OwnerFacts(u)'
    <2>1. CASE pc[u] \in OwningPcs
        BY <1>1, <1>2, <1>3, <1>4, <2>1 DEF OwnerFacts, OwningPcs, ContextOf, HistoryKept, Audited
    <2>2. CASE pc[u] \notin OwningPcs
        BY <1>2, <2>2 DEF OwnerFacts, OwningPcs
    <2> QED
        BY <2>1, <2>2
<1>6. ReaderFacts(u)'
    BY <1>1, <1>2, <1>3, <1>4 DEF ReaderFacts, RunsKept, Exists, HistoryKept, ContextOf
<1> QED
    BY <1>5, <1>6

\* What the post that moves knows is true of where it arrives.
LEMMA OwnFacts ==
    ASSUME RunsInv, NEW t \in Tabs, Step(t)
    PROVE  OwnerFacts(t)' /\ ReaderFacts(t)'
<1> DEFINE c == post[t].run
<1>1. /\ TypeOK /\ c \in Correlations /\ RunFacts(c) /\ OwnerFacts(t) /\ ReaderFacts(t)
      /\ post' = post
    BY PostFields, StepOthers DEF RunsInv
<1>2. /\ pc \in [Tabs -> Pcs] /\ answer \in [Tabs -> Answers] /\ local \in [Tabs -> Local]
      /\ runs \in [Correlations -> Run] /\ useCases \in [Correlations -> Nat]
      /\ evidence \in [Correlations -> Nat]
    BY <1>1 DEF TypeOK
<1>4. CASE FindRun(t)
    <2>1. UNCHANGED runs
        BY <1>4 DEF FindRun, rows
    <2>2. CASE ~Exists(c) /\ Go(t, "readInstallation")
        BY <1>1, <1>2, <1>4, <2>1, <2>2 DEF FindRun, Go, OwnerFacts, ReaderFacts, OwningPcs, Exists
    <2>3. CASE Return(t, "refused") \/ (Exists(c) /\ Return(t, "reused"))
        BY <1>1, <1>2, <1>4, <2>1, <2>3 DEF Return, OwnerFacts, ReaderFacts, OwningPcs, LatePcs,
           Exists
    <2>4. CASE /\ Exists(c) /\ runs[c].skill = post[t].skill
               /\ Return(t, IF runs[c].status = "completed" THEN "completed" ELSE "rejected")
        BY <1>1, <1>2, <2>1, <2>4 DEF Return, OwnerFacts, ReaderFacts, OwningPcs, LatePcs, Exists
    <2> QED
        BY <1>4, <2>2, <2>3, <2>4 DEF FindRun
<1>5. CASE ReadInstallation(t) \/ ReadProfile(t) \/ InsertSnapshot(t) \/ AuditComposed(t)
    BY <1>1, <1>2, <1>5 DEF ReadInstallation, ReadProfile, InsertSnapshot, AuditComposed, Audit,
       Record, Go, Return, OwnerFacts, ReaderFacts, OwningPcs, LatePcs, Exists, ContextOf, rows
<1>6. CASE InsertRun(t)
    <2>1. CASE Exists(c)
        BY <1>1, <1>2, <1>6, <2>1 DEF InsertRun, Return, OwnerFacts, ReaderFacts, OwningPcs,
           LatePcs, Exists
    <2>2. CASE ~Exists(c)
        <3>1. /\ runs'[c] = [status |-> "submitted", skill |-> post[t].skill,
                             context |-> ContextOf(t), reason |-> "none"]
              /\ useCases'[c] = 0 /\ evidence'[c] = 0
              /\ ContextOf(t)' = ContextOf(t)
            BY <1>1, <1>2, <1>6, <2>2, PostFields DEF InsertRun, Reject, RunFacts, Exists,
               ContextOf, Local
        <3>2. \/ pc'[t] = "auditStarted" /\ post[t].skill \in ConnectorsGranted
              \/ pc'[t] = "rejectRun" /\ local'[t].reason = "connector_not_permitted"
            BY <1>2, <1>6, <2>2 DEF InsertRun, Reject, Go, Local
        <3>3. answer' = answer /\ ~post[t].late /\ answer[t] \notin {"completed", "rejected"}
            BY <1>1, <1>6, <2>2 DEF InsertRun, Reject, Go, ReaderFacts, Exists
        <3> QED
            BY <1>1, <3>1, <3>2, <3>3 DEF OwnerFacts, ReaderFacts, OwningPcs
    <2> QED
        BY <2>1, <2>2
<1>7. CASE AuditStarted(t)
    <2>1. Audited("run.started", c)'
        BY <1>1, <1>7 DEF AuditStarted, Record, Audited
    <2>2. ContextOf(t)' = ContextOf(t)
        BY <1>1, <1>2, <1>7 DEF AuditStarted, Reject, ContextOf, Local
    <2>3. UNCHANGED <<runs, useCases, evidence, answer>>
        BY <1>7 DEF AuditStarted, Reject, Go, rows
    <2>4. \/ pc'[t] = "handle" /\ post[t].skill \in Implemented
          \/ pc'[t] = "rejectRun" /\ local'[t].reason = "skill_not_implemented"
        BY <1>2, <1>7 DEF AuditStarted, Reject, Go, Local
    <2>5. ~post[t].late /\ pc[t] = "auditStarted"
        BY <1>1, <1>7 DEF AuditStarted, ReaderFacts, LatePcs
    <2> QED
        BY <1>1, <2>1, <2>2, <2>3, <2>4, <2>5 DEF OwnerFacts, ReaderFacts, OwningPcs, Exists
<1>8. CASE Handle(t)
    <2>1. ContextOf(t)' = ContextOf(t) /\ local'[t].missing = local[t].missing
        BY <1>1, <1>2, <1>8 DEF Handle, Reject, CreateUseCase, ContextOf, Local
    <2>2. UNCHANGED <<runs, evidence, answer, audit>>
        BY <1>8 DEF Handle, Reject, CreateUseCase, Go
    <2>3. \/ /\ pc'[t] = "insertEvidence" /\ useCases'[c] = useCases[c] + 1
             /\ ~local[t].missing /\ post[t].skill \in Handled
          \/ /\ pc'[t] = "rejectRun" /\ useCases' = useCases
             /\ local'[t].reason = "missing_required_profile_fields" => local[t].missing
        BY <1>1, <1>2, <1>8 DEF Handle, Reject, CreateUseCase, Go, Local
    <2>4. ~post[t].late /\ pc[t] = "handle"
        BY <1>1, <1>8 DEF Handle, ReaderFacts, LatePcs
    <2> QED
        BY <1>1, <2>1, <2>2, <2>3, <2>4 DEF OwnerFacts, ReaderFacts, OwningPcs, Exists, Audited
<1>9. CASE RejectRun(t)
    <2>1. /\ pc'[t] = "auditRejected" /\ runs'[c].status = "rejected"
          /\ runs'[c].skill = runs[c].skill /\ answer' = answer
        BY <1>1, <1>2, <1>9, RunFields DEF RejectRun, End, Go, OwnerFacts, OwningPcs, Run
    <2>2. ~post[t].late /\ pc[t] = "rejectRun"
        BY <1>1, <1>9 DEF RejectRun, ReaderFacts, LatePcs
    <2> QED
        BY <1>1, <2>1, <2>2 DEF OwnerFacts, ReaderFacts, OwningPcs, Exists
<1>10. CASE CompleteRun(t)
    <2>1. /\ pc'[t] = "auditCompleted" /\ runs'[c].status = "completed"
          /\ runs'[c].skill = runs[c].skill /\ answer' = answer
        BY <1>1, <1>2, <1>10, RunFields DEF CompleteRun, End, Go, OwnerFacts, OwningPcs, Run
    <2>2. ~post[t].late /\ pc[t] = "completeRun"
        BY <1>1, <1>10 DEF CompleteRun, ReaderFacts, LatePcs
    <2> QED
        BY <1>1, <2>1, <2>2 DEF OwnerFacts, ReaderFacts, OwningPcs, Exists
<1>11. CASE InsertEvidence(t)
    BY <1>1, <1>2, <1>11 DEF InsertEvidence, Go, OwnerFacts, ReaderFacts, OwningPcs, LatePcs,
       Exists, ContextOf, Audited
<1>12. CASE AuditEvidence(t)
    BY <1>1, <1>2, <1>12 DEF AuditEvidence, Audit, Record, Go, OwnerFacts, ReaderFacts, OwningPcs,
       LatePcs, Exists, ContextOf, Audited, rows
<1>13. CASE AuditRejected(t) \/ AuditCompleted(t) \/ AuditRequest(t)
    <2>1. /\ pc'[t] = "done" /\ UNCHANGED runs
          /\ answer'[t] = IF pc[t] = "auditRejected" THEN "rejected"
                          ELSE IF pc[t] = "auditCompleted" THEN "completed" ELSE "prepared"
        BY <1>2, <1>13 DEF AuditRejected, AuditCompleted, AuditRequest, Audit, Return, rows
    <2> QED
        BY <1>1, <2>1 DEF OwnerFacts, ReaderFacts, OwningPcs, LatePcs, Exists
<1>14. CASE ReadRun(t) \/ ListEvidence(t) \/ InsertRequest(t)
    BY <1>1, <1>2, <1>14 DEF ReadRun, ListEvidence, InsertRequest, Go, Return,
       OwnerFacts, ReaderFacts, OwningPcs, LatePcs, Exists, rows, Local
<1> QED
    BY <1>4, <1>5, <1>6, <1>7, <1>8, <1>9, <1>10, <1>11, <1>12, <1>13, <1>14 DEF Step

\* At most one post comes to own a run.
LEMMA ExclusiveKept ==
    ASSUME RunsInv, NEW t \in Tabs, Step(t)
    PROVE  Exclusive'
<1>1. TypeOK /\ OthersKept(t) /\ post' = post
    BY StepOthers DEF RunsInv
<1>2. pc'[t] \in OwningPcs => pc[t] \in OwningPcs \/ ~Exists(post[t].run)
    BY <1>1 DEF TypeOK, Step, OwningPcs, FindRun, ReadInstallation, ReadProfile, InsertSnapshot,
       AuditComposed, InsertRun, AuditStarted, Handle, CreateUseCase, RejectRun, AuditRejected,
       InsertEvidence, AuditEvidence, CompleteRun, AuditCompleted, ReadRun, ListEvidence,
       InsertRequest, AuditRequest, End, Reject, Audit, Go, Return
<1>3. \A u \in Tabs : pc[u] \in OwningPcs => Exists(post[u].run)
    BY DEF RunsInv, OwnerFacts, Exists
<1> QED
    BY <1>1, <1>2, <1>3 DEF RunsInv, Exclusive, OthersKept

\* What the tables hold of each run stays consistent.
LEMMA RunFactsKept ==
    ASSUME RunsInv, NEW t \in Tabs, Step(t), NEW c \in Correlations
    PROVE  RunFacts(c)'
<1>1. /\ TypeOK /\ RunFacts(c) /\ OwnerFacts(t) /\ ReaderFacts(t)
      /\ RowsKept(t) /\ HistoryKept
    BY StepRows, StepHistory DEF RunsInv
<1>2. /\ runs \in [Correlations -> Run] /\ useCases \in [Correlations -> Nat]
      /\ evidence \in [Correlations -> Nat] /\ runs[c] \in Run
    BY <1>1, RunFields DEF TypeOK
<1>3. CASE runs'[c] = runs[c] /\ useCases'[c] = useCases[c] /\ evidence'[c] = evidence[c]
    BY <1>1, <1>3 DEF RunFacts, HistoryKept, Audited
<1>4. CASE c = post[t].run /\ InsertRun(t) /\ ~Exists(c)
    <2>1. /\ runs'[c] = [status |-> "submitted", skill |-> post[t].skill,
                         context |-> ContextOf(t), reason |-> "none"]
          /\ useCases'[c] = 0 /\ evidence'[c] = 0 /\ ContextOf(t) \in snapshots'
        BY <1>1, <1>2, <1>4 DEF InsertRun, RunFacts, ReaderFacts, Exists
    <2>2. ContextOf(t).skill = post[t].skill
        BY DEF ContextOf
    <2> QED
        BY <2>1, <2>2 DEF RunFacts
<1>5. CASE c = post[t].run /\ Handle(t)
    <2>1. /\ UNCHANGED <<runs, evidence, snapshots, audit>>
          /\ useCases'[c] \in {0, 1} /\ evidence[c] = 0 /\ runs[c].status = "submitted"
        BY <1>1, <1>2, <1>5 DEF Handle, CreateUseCase, OwnerFacts, OwningPcs
    <2> QED
        BY <1>1, <2>1 DEF RunFacts, Audited
<1>6. CASE c = post[t].run /\ RejectRun(t)
    <2>1. /\ runs'[c] = [runs[c] EXCEPT !.status = "rejected", !.reason = local[t].reason]
          /\ UNCHANGED <<useCases, evidence, snapshots, audit>>
          /\ useCases[c] = 0 /\ evidence[c] = 0 /\ runs[c].status = "submitted"
          /\ runs[c].context = ContextOf(t)
        BY <1>1, <1>2, <1>6 DEF RejectRun, End, OwnerFacts, OwningPcs, Run
    <2>2. local[t].reason = "missing_required_profile_fields" => ContextOf(t).missing
        BY <1>1, <1>6 DEF RejectRun, OwnerFacts, ContextOf
    <2> QED
        BY <1>1, <1>2, <2>1, <2>2 DEF RunFacts, Audited, Run
<1>7. CASE c = post[t].run /\ CompleteRun(t)
    <2>1. /\ runs'[c] = [runs[c] EXCEPT !.status = "completed", !.reason = "none"]
          /\ UNCHANGED <<useCases, evidence, snapshots, audit>>
          /\ useCases[c] = 1 /\ evidence[c] = 1 /\ runs[c].status = "submitted"
          /\ runs[c].context = ContextOf(t) /\ runs[c].skill = post[t].skill
          /\ Audited("run.started", c) /\ Audited("evidence.created", c)
        BY <1>1, <1>2, <1>7 DEF CompleteRun, End, OwnerFacts, OwningPcs, Run
    <2>2. /\ ~ContextOf(t).missing
          /\ post[t].skill \in Implemented \cap Handled \cap ConnectorsGranted
        BY <1>1, <1>7 DEF CompleteRun, OwnerFacts, ContextOf
    <2> QED
        BY <1>1, <1>2, <2>1, <2>2 DEF RunFacts, Audited, Run
<1>8. CASE c = post[t].run /\ InsertEvidence(t)
    <2>1. /\ UNCHANGED <<runs, useCases, snapshots, audit>>
          /\ evidence'[c] = 1 /\ useCases[c] = 1 /\ runs[c].status = "submitted"
        BY <1>1, <1>2, <1>8 DEF InsertEvidence, OwnerFacts, OwningPcs
    <2> QED
        BY <1>1, <2>1 DEF RunFacts, Audited
<1>9. CASE ~InsertRun(t) /\ ~Handle(t) /\ ~RejectRun(t) /\ ~CompleteRun(t)
           /\ ~InsertEvidence(t)
    <2>1. UNCHANGED <<runs, useCases, evidence>>
        BY <1>9 DEF Step, FindRun, ReadInstallation, ReadProfile, InsertSnapshot,
           AuditComposed, AuditStarted, AuditRejected, AuditEvidence, AuditCompleted,
           ReadRun, ListEvidence, InsertRequest, AuditRequest, Audit, rows
    <2> QED
        BY <1>3, <2>1
<1>10. CASE c # post[t].run \/ (InsertRun(t) /\ Exists(c))
    <2>1. CASE c # post[t].run
        BY <1>1, <1>3, <2>1 DEF RowsKept
    <2>2. CASE c = post[t].run /\ InsertRun(t) /\ Exists(c)
        BY <1>3, <2>2 DEF InsertRun
    <2> QED
        BY <1>10, <2>1, <2>2
<1> QED
    BY <1>4, <1>5, <1>6, <1>7, <1>8, <1>9, <1>10

\* A request is inserted for a completed run, which never changes again.
LEMMA RequestsKept ==
    ASSUME RunsInv, NEW t \in Tabs, Step(t)
    PROVE  RequestStaysSubmittable'
<1> SUFFICES ASSUME NEW r \in requests'
             PROVE  /\ runs'[r.run].status = "completed"
                    /\ runs'[r.run].skill = r.skill
                    /\ r.context = runs'[r.run].context /\ r.context \in snapshots'
                    /\ r.evidence = evidence'[r.run] /\ r.evidence > 0
    BY DEF RequestStaysSubmittable
<1>1. TypeOK /\ RowsKept(t) /\ HistoryKept /\ OwnerFacts(t) /\ ReaderFacts(t)
    BY StepRows, StepHistory DEF RunsInv
<1>2. CASE r \in requests
    <2>1. r.run \in Correlations /\ runs[r.run].status = "completed"
        BY <1>1, <1>2 DEF RunsInv, RequestStaysSubmittable, TypeOK, Request
    <2>2. runs'[r.run] = runs[r.run] /\ evidence'[r.run] = evidence[r.run]
        BY <1>1, <2>1 DEF RowsKept, OwnerFacts, Exists
    <2> QED
        BY <1>1, <1>2, <2>2 DEF RunsInv, RequestStaysSubmittable, HistoryKept
<1>3. CASE r \notin requests
    <2> DEFINE c == post[t].run
    <2>1. InsertRequest(t)
        BY <1>3 DEF Step, FindRun, ReadInstallation, ReadProfile, InsertSnapshot,
           AuditComposed, InsertRun, AuditStarted, Handle, RejectRun, AuditRejected,
           InsertEvidence, AuditEvidence, CompleteRun, AuditCompleted, ReadRun, ListEvidence,
           AuditRequest, End, Audit, rows
    <2>2. /\ r.run = c /\ r.skill = runs[c].skill /\ r.context = runs[c].context
          /\ r.evidence = local[t].evidence
          /\ UNCHANGED <<runs, evidence, snapshots>>
        BY <1>3, <2>1 DEF InsertRequest
    <2>3. runs[c].status = "completed" /\ local[t].evidence = evidence[c]
        BY <1>1, <2>1 DEF InsertRequest, ReaderFacts
    <2>4. evidence[c] = 1 /\ runs[c].context \in snapshots
        BY <1>1, <2>3, PostFields DEF RunsInv, RunFacts
    <2> QED
        BY <2>2, <2>3, <2>4
<1> QED
    BY <1>2, <1>3

\* A step that changes no row, and no post but one that starts or is over,
\* preserves the invariant.
LEMMA QuietKept ==
    ASSUME RunsInv, TypeOK', UNCHANGED <<snapshots, runs, useCases, evidence, requests, audit>>,
           \A u \in Tabs :
              \/ /\ pc'[u] = pc[u] /\ post'[u] = post[u]
                 /\ local'[u] = local[u] /\ answer'[u] = answer[u]
              \/ /\ pc'[u] \in {"findRun", "readRun", "done"} /\ answer'[u] \in {"none", "aborted"}
                 /\ post'[u].late => Exists(post'[u].run)
    PROVE  RunsInv'
<1>1. Exclusive'
    BY DEF RunsInv, Exclusive, OwningPcs
<1>2. \A c \in Correlations : RunFacts(c)'
    BY DEF RunsInv, RunFacts, Audited
<1>3. ASSUME NEW u \in Tabs PROVE OwnerFacts(u)' /\ ReaderFacts(u)'
    <2>1. OwnerFacts(u) /\ ReaderFacts(u)
        BY DEF RunsInv
    <2>2. CASE /\ pc'[u] = pc[u] /\ post'[u] = post[u]
               /\ local'[u] = local[u] /\ answer'[u] = answer[u]
        BY <2>1, <2>2 DEF OwnerFacts, ReaderFacts, ContextOf, Audited, Exists
    <2>3. CASE /\ pc'[u] \in {"findRun", "readRun", "done"} /\ answer'[u] \in {"none", "aborted"}
               /\ post'[u].late => Exists(post'[u].run)
        BY <2>3 DEF OwnerFacts, ReaderFacts, OwningPcs, LatePcs, Exists
    <2> QED
        BY <2>2, <2>3
<1>4. RequestStaysSubmittable'
    BY DEF RunsInv, RequestStaysSubmittable
<1> QED
    BY <1>1, <1>2, <1>3, <1>4 DEF RunsInv

\* The invariant holds initially: there is no run and no post.
LEMMA RunsInvInit == Init => RunsInv
<1> SUFFICES ASSUME Init PROVE RunsInv
    OBVIOUS
<1>1. \A c \in Correlations :
          runs[c].status = "none" /\ useCases[c] = 0 /\ evidence[c] = 0
    BY DEF Init, NoRun
<1>2. \A t \in Tabs : pc[t] = "idle" /\ answer[t] = "none" /\ ~post[t].late
    BY DEF Init
<1>3. \A c \in Correlations : RunFacts(c)
    BY <1>1 DEF RunFacts
<1>4. \A t \in Tabs : OwnerFacts(t) /\ ReaderFacts(t)
    BY <1>2 DEF OwnerFacts, ReaderFacts, OwningPcs
<1>5. Exclusive /\ RequestStaysSubmittable
    BY <1>2 DEF Init, Exclusive, OwningPcs, RequestStaysSubmittable
<1> QED
    BY <1>3, <1>4, <1>5, TypeInit DEF RunsInv

\* A starting post notes whether its correlation id has a run.
LEMMA ArriveKept ==
    ASSUME RunsInv, TypeOK', NEW t \in Tabs, NEW first \in {"findRun", "readRun"}, NEW s,
           NEW c, NEW input, NEW admin, Arrive(t, first, s, c, input, admin)
    PROVE  RunsInv'
<1>1. TypeOK
    BY DEF RunsInv
<1>2. \A u \in Tabs \ {t} :
          /\ pc'[u] = pc[u] /\ post'[u] = post[u]
          /\ local'[u] = local[u] /\ answer'[u] = answer[u]
    BY <1>1 DEF Arrive, TypeOK
<1>3. pc'[t] = first /\ answer'[t] = "none" /\ post'[t].run = c /\ post'[t].late = Exists(c)
    BY <1>1 DEF Arrive, TypeOK
<1> QED
    BY <1>2, <1>3, QuietKept DEF Arrive, rows

\* Every step preserves the invariant.
LEMMA RunsInvNext == RunsInv /\ [Next]_vars => RunsInv'
<1> SUFFICES ASSUME RunsInv, [Next]_vars PROVE RunsInv'
    OBVIOUS
<1>0. TypeOK /\ TypeOK'
    BY TypeNext DEF RunsInv
<1>1. CASE \E t \in Tabs, s \in Skills, c \in Correlations, input \in Inputs :
              PostRun(t, s, c, input)
    BY <1>0, <1>1, ArriveKept DEF PostRun
<1>2. CASE \E t \in Tabs, c \in Correlations, admin \in BOOLEAN :
              Exists(c) /\ PostRequest(t, c, admin)
    BY <1>0, <1>2, ArriveKept DEF PostRequest
<1>3. CASE \E t \in Tabs : Step(t)
    <2>1. PICK t \in Tabs : Step(t)
        BY <1>3
    <2>2. \A u \in Tabs : OwnerFacts(u)' /\ ReaderFacts(u)'
        BY <2>1, OthersFacts, OwnFacts
    <2> QED
        BY <1>0, <2>1, <2>2, ExclusiveKept, RunFactsKept, RequestsKept DEF RunsInv
<1>4. CASE \E t \in Tabs : Abort(t)
    <2>1. PICK t \in Tabs : Abort(t)
        BY <1>4
    <2>2. \A u \in Tabs \ {t} :
              /\ pc'[u] = pc[u] /\ post'[u] = post[u]
              /\ local'[u] = local[u] /\ answer'[u] = answer[u]
        BY <1>0, <2>1 DEF Abort, Return, TypeOK
    <2>3. pc'[t] = "done" /\ answer'[t] = "aborted" /\ post' = post
        BY <1>0, <2>1 DEF Abort, Return, TypeOK
    <2>4. post[t].late => Exists(post[t].run)
        BY DEF RunsInv, ReaderFacts
    <2> QED
        BY <1>0, <2>1, <2>2, <2>3, <2>4, QuietKept DEF Abort, rows
<1>5. CASE Install \/ Disable \/ EditProfile \/ UNCHANGED vars
    BY <1>0, <1>5, QuietKept DEF Install, Disable, EditProfile, vars, posts, rows
<1> QED
    BY <1>1, <1>2, <1>3, <1>4, <1>5 DEF Next

\* The inductive invariant of the boundary and the composer.
THEOREM RunsInvariant == Spec => []RunsInv
BY RunsInvInit, RunsInvNext, PTL DEF Spec

-----------------------------------------------------------------------------
(* The properties.                                                         *)

\* However often and however concurrently a correlation id is posted, its
\* skill executes once.
THEOREM RunExecutesOnce == Spec => []ExecutedOnce
<1>1. RunsInv => ExecutedOnce
    BY DEF RunsInv, RunFacts, ExecutedOnce
<1> QED
    BY <1>1, RunsInvariant, PTL

\* A completed run has its use case, its evidence and the trail of both.
THEOREM CompletionIsEvidenced == Spec => []CompletedRunEvidenced
<1>1. RunsInv => CompletedRunEvidenced
    BY DEF RunsInv, RunFacts, Audited, CompletedRunEvidenced
<1> QED
    BY <1>1, RunsInvariant, PTL

\* A run ends as its own snapshot has it, whatever is edited meanwhile.
THEOREM RunsFollowTheirContext == Spec => []RunFollowsItsContext
<1>1. RunsInv => RunFollowsItsContext
    BY DEF RunsInv, RunFacts, RunFollowsItsContext
<1> QED
    BY <1>1, RunsInvariant, PTL

\* A tab is told the result of the skill it posted.
THEOREM AnswersAreOfTheRun == Spec => []AnswersFollowRun
<1>1. RunsInv => AnswersFollowRun
    BY DEF RunsInv, ReaderFacts, AnswersFollowRun
<1> QED
    BY <1>1, RunsInvariant, PTL

\* A retry of a known correlation id neither executes nor throws.
THEOREM RetriesReplay == Spec => []LatePostNeverExecutes
<1>1. RunsInv => LatePostNeverExecutes
    BY DEF RunsInv, ReaderFacts, LatePcs, LatePostNeverExecutes, ExecutingPcs
<1> QED
    BY <1>1, RunsInvariant, PTL

\* A promotion request stays acceptable to the KFSA gateway for ever.
THEOREM RequestsStaySubmittable == Spec => []RequestStaysSubmittable
<1>1. RunsInv => RequestStaysSubmittable
    BY DEF RunsInv
<1> QED
    BY <1>1, RunsInvariant, PTL

\* A run never changes its skill or its context, nor anything once it ended.
THEOREM RunsAreFinal == Spec => RunsEndOnce
<1>1. TypeOK /\ [Next]_vars =>
          [\A c \in Correlations : Exists(c) =>
              /\ runs'[c].skill = runs[c].skill /\ runs'[c].context = runs[c].context
              /\ runs[c].status # "submitted" => runs'[c] = runs[c]]_vars
    <2> SUFFICES ASSUME TypeOK, Next PROVE UNCHANGED runs \/ RunsKept
        BY DEF RunsKept, vars
    <2> QED
        BY StepRuns DEF Next, PostRun, PostRequest, Arrive, Abort, Install, Disable,
           EditProfile, rows
<1> QED
    BY <1>1, PluginTypeCorrect, PTL DEF Spec, RunsEndOnce
=============================================================================
