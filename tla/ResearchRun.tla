----------------------------- MODULE ResearchRun -----------------------------
(***************************************************************************)
(* The governed research runtime, which runs in the browser: a request is  *)
(* planned, executed step by step under permissions and a bounded loop     *)
(* control, evaluated, gated, and saved in the browser's local storage,    *)
(* which the tabs of the browser share without any lock.                   *)
(***************************************************************************)
EXTENDS ReviewOutcomes, Integers, SequencesExt, FiniteSetsExt

CONSTANTS
    Tabs,      \* the tabs of one browser
    Sessions   \* the requests each tab submits, one after the other
               \* (ResearchAssumption below)

VARIABLES
    queue,  \* the requests a tab has still to submit
    run,    \* the run a tab is executing, Idle when there is none
    store,  \* the local runs in local storage; their order is only shown
    read,   \* what saveLocalRun has read from it, in a tab
    shown   \* what a tab's page shows last: a stored run or "missing"

vars == <<queue, run, store, read, shown>>

None == "none"
Sensitivities == {"low", "medium", "high"}
Topics == {"crm", "vendor", "financial", "loop"}

\* mentions: the topics the title and the question name; claims: a phrase
\* asks for an official decision, a production approval or a KFSA verdict.
\* The form's lower bounds are not enforced: a ceiling may be 0.
Request == [mentions : SUBSET Topics, claims : BOOLEAN, risk : Sensitivities,
            sensitivity : Sensitivities, external : BOOLEAN, write : BOOLEAN,
            owner : BOOLEAN, authority : BOOLEAN, maxSteps : Nat, maxToolCalls : Nat]

ASSUME ResearchAssumption == Sessions \subseteq [Tabs -> Seq(Request)]

StopReasons == {"POLICY_BLOCK", "AUTHORITY_REQUIRED", "LOOP_DETECTED", "NO_PROGRESS",
                "MAX_TOOL_CALLS_REACHED", "MAX_STEPS_REACHED", "COMPLETED", None}
Statuses == {"BLOCKED", "ESCALATE_REQUIRED", "REPAIR_REQUIRED", "GOVERNANCE_REVIEW_REQUIRED",
             "READY_FOR_AUTHORITY_REVIEW", "FAILED", None}
-----------------------------------------------------------------------------
(* The catalogs of tools and skills. *)

Tool(classes, max) ==
    [readOnly |-> TRUE, enabled |-> TRUE, forbidden |-> FALSE, authority |-> FALSE,
     classes |-> classes, maxCallsPerRun |-> max]

DemoTools ==
    [web_search |-> Tool({"low", "medium"}, 4),
     document_search |-> Tool(Sensitivities, 4),
     policy_lookup |-> Tool({"low", "medium"}, 3),
     calculator |-> Tool({"low"}, 6),
     report_builder |-> Tool(Sensitivities, 2),
     crm_update |-> [readOnly |-> FALSE, enabled |-> FALSE, forbidden |-> TRUE,
                     authority |-> TRUE, classes |-> {"medium", "high"}, maxCallsPerRun |-> 0]]

Skill(tools, authority) ==
    [requiredTools |-> tools, requiredAuthority |-> authority, approvedForUse |-> TRUE,
     classes |-> Sensitivities]

DemoSkills ==
    [planning |-> Skill(<<>>, FALSE),
     evidence |-> Skill(<<"web_search", "document_search", "policy_lookup">>, FALSE),
     quality |-> Skill(<<"calculator">>, FALSE),
     risk |-> Skill(<<"policy_lookup", "calculator">>, TRUE),
     drafting |-> Skill(<<"report_builder">>, FALSE)]

\* The qualities of the sources of a topic, in the order they are found.
EvidenceCorpus ==
    [crm |-> <<"HIGH", "MEDIUM", "HIGH">>, vendor |-> <<"LOW", "MEDIUM", "HIGH">>,
     financial |-> <<"HIGH", "UNKNOWN", "MEDIUM">>, loop |-> <<"MEDIUM">>]
-----------------------------------------------------------------------------
(* Planning and permissions. *)

InferEvidenceTopic(q) ==
    CASE "crm" \in q.mentions -> "crm"
      [] "vendor" \in q.mentions /\ "crm" \notin q.mentions -> "vendor"
      [] "financial" \in q.mentions /\ {"crm", "vendor"} \cap q.mentions = {} -> "financial"
      [] q.mentions = {"loop"} -> "loop"
      [] OTHER -> "crm"

ApprovedWriteTool == \E t \in DOMAIN DemoTools :
    ~DemoTools[t].readOnly /\ DemoTools[t].enabled /\ ~DemoTools[t].forbidden

Rejected(q) ==
    \/ q.claims
    \/ q.write /\ ~ApprovedWriteTool
    \/ q.risk = "high" /\ ~q.owner
    \/ (q.external \/ q.write) /\ ~q.authority

Pipeline == <<"planning", "evidence", "quality", "risk", "drafting">>

\* The tools of a step of the plan, which leaves out those not enabled; a skill that
\* requires one of these is not eligible, so its step has no calls.
ToolsOf(skill) == DemoSkills[skill].requiredTools

\* Mutant: the owner of a request counts as its authority holder.
OwnerIsAuthority(q) == q.owner

HasAuthorityHolder(q) == q.authority

\* The engine passes no reviewed checksum, so none is compared.
Eligible(skill, q) ==
    LET s == DemoSkills[skill]
    IN  /\ s.approvedForUse
        /\ \A t \in ToSet(s.requiredTools) : DemoTools[t].enabled /\ ~DemoTools[t].forbidden
        /\ q.sensitivity \in s.classes
        /\ s.requiredAuthority => HasAuthorityHolder(q)

Permitted(tool, q, callsSoFar) ==
    LET t == DemoTools[tool]
    IN  /\ t.enabled /\ ~t.forbidden
        /\ q.sensitivity \in t.classes
        /\ t.authority => HasAuthorityHolder(q)
        /\ callsSoFar < t.maxCallsPerRun
-----------------------------------------------------------------------------
(* Loop control. *)

InitialLoop == [stepsTaken |-> 0, toolCallsMade |-> 0, toolSignatures |-> {},
                evidenceSignatures |-> {}, lastProgressStep |-> 0, stopReason |-> None]

\* Mutant: a ceiling is hit only when it is exceeded.
CeilingExceeded(n, q) ==
    CASE n.toolCallsMade > q.maxToolCalls -> "MAX_TOOL_CALLS_REACHED"
      [] n.toolCallsMade <= q.maxToolCalls /\ n.stepsTaken > q.maxSteps -> "MAX_STEPS_REACHED"
      [] OTHER -> None

CeilingReached(n, q) ==
    CASE n.toolCallsMade >= q.maxToolCalls -> "MAX_TOOL_CALLS_REACHED"
      [] n.toolCallsMade < q.maxToolCalls /\ n.stepsTaken >= q.maxSteps -> "MAX_STEPS_REACHED"
      [] OTHER -> None

Repeated(l, tool, source) == tool \in l.toolSignatures \/ source \in l.evidenceSignatures

\* The call, or the source, that a step without one is recorded with.
Unsigned == <<>>

\* After a step (tool = source = Unsigned) or a call. Every call counts as a step;
\* the checks are made in this order, and the first that applies stops the run.
AdvanceLoopControl(l, q, tool, source, progressed, policyBlocked) ==
    LET n == [l EXCEPT !.stepsTaken = @ + 1,
                       !.toolCallsMade = IF tool = Unsigned THEN @ ELSE @ + 1]
        m == [n EXCEPT !.toolSignatures = @ \cup ({tool} \ {Unsigned}),
                       !.evidenceSignatures = @ \cup ({source} \ {Unsigned})]
        p == IF progressed THEN [m EXCEPT !.lastProgressStep = m.stepsTaken] ELSE m
    IN  IF policyBlocked THEN [n EXCEPT !.stopReason = "POLICY_BLOCK"]
        ELSE IF Repeated(l, tool, source) THEN [m EXCEPT !.stopReason = "LOOP_DETECTED"]
        ELSE IF ~progressed /\ m.stepsTaken - m.lastProgressStep >= 3
        THEN [m EXCEPT !.stopReason = "NO_PROGRESS"]
        ELSE [p EXCEPT !.stopReason = CeilingReached(p, q)]
-----------------------------------------------------------------------------
(* The run of one request. *)

Idle == <<>>

\* What the page of a run shows when the run is not stored.
Missing == [id |-> 0]

NewRun(id, q) ==
    [id |-> id, request |-> q, stage |-> "planning", step |-> 1, tool |-> 1, calls |-> <<>>,
     evidence |-> <<>>, loop |-> InitialLoop, stopReason |-> None, forbidden |-> FALSE,
     skills |-> {}, evaluation |-> None, gate |-> None, status |-> None]

Stopped(r, reason) == [r EXCEPT !.stage = "evaluating", !.stopReason = reason]

\* A request that is rejected ends without a plan.
CreateGovernedPlan(r) ==
    IF Rejected(r.request)
    THEN [r EXCEPT !.stage = "ended", !.stopReason = "POLICY_BLOCK",
                   !.gate = "BLOCKED", !.status = "BLOCKED"]
    ELSE [r EXCEPT !.stage = "skill"]

\* An ineligible skill stops the run: loop control calls it a policy block, the
\* run reports that authority is required.
SelectSkill(r) ==
    IF Eligible(Pipeline[r.step], r.request)
    THEN [r EXCEPT !.stage = "tools", !.tool = 1, !.skills = @ \cup {Pipeline[r.step]}]
    ELSE Stopped([r EXCEPT !.loop = AdvanceLoopControl(@, r.request, Unsigned, Unsigned, FALSE, TRUE)],
                 "AUTHORITY_REQUIRED")

\* The source found next; the corpus is reused from its start when it ends.
NextSource(r) ==
    LET topic == InferEvidenceTopic(r.request)
        corpus == EvidenceCorpus[topic]
        i == 1 + (Len(r.evidence) % Len(corpus))
    IN  [source |-> <<topic, i>>, quality |-> corpus[i]]

\* Mutant: a refused call does not move on to the next tool.
CallToolAgain(r) ==
    LET skill == Pipeline[r.step]
        tool == ToolsOf(skill)[r.tool]
        l == AdvanceLoopControl(r.loop, r.request, <<tool, skill>>, Unsigned, TRUE, FALSE)
        called == [r EXCEPT !.tool = @ + 1, !.loop = l]
    IN  IF ~Permitted(tool, r.request, 0) THEN r
        ELSE IF l.stopReason = None THEN called ELSE Stopped(called, l.stopReason)

\* One tool of the step. A refused call is recorded and skipped. A second piece
\* of evidence of the loop topic counts as no progress.
CallTool(r) ==
    LET skill == Pipeline[r.step]
        tool == ToolsOf(skill)[r.tool]
        soFar == Cardinality({i \in DOMAIN r.calls : r.calls[i].tool = tool})
        granted == Permitted(tool, r.request, soFar)
        collects == granted /\ skill = "evidence" /\ DemoTools[tool].readOnly
        found == NextSource(r)
        repeats == /\ collects /\ r.evidence # <<>>
                   /\ InferEvidenceTopic(r.request) = "loop"
        signature == <<tool, skill>>
        called == [r EXCEPT !.calls = Append(@, [tool |-> tool, skill |-> skill,
                                                 granted |-> granted]),
                            !.tool = @ + 1,
                            !.evidence = IF collects THEN Append(@, found) ELSE @,
                            !.forbidden = @ \/ (~granted /\ DemoTools[tool].forbidden)]
        l == AdvanceLoopControl(r.loop, r.request, signature,
                                IF repeats THEN found.source ELSE Unsigned, ~repeats, FALSE)
        advanced == [called EXCEPT !.loop = l]
    IN  IF ~granted THEN called
        ELSE IF l.stopReason = None THEN advanced ELSE Stopped(advanced, l.stopReason)

\* The end of a step counts as a step of its own, and so does that of the last.
FinishStep(r) ==
    LET l == AdvanceLoopControl(r.loop, r.request, Unsigned, Unsigned, TRUE, FALSE)
        finished == [r EXCEPT !.loop = l]
    IN  IF l.stopReason # None THEN Stopped(finished, l.stopReason)
        ELSE IF r.step = Len(Pipeline) THEN [finished EXCEPT !.stage = "evaluating"]
        ELSE [finished EXCEPT !.stage = "skill", !.step = @ + 1]
-----------------------------------------------------------------------------
(* Evaluation, gate and status. *)

Expected(r) == Len(EvidenceCorpus[InferEvidenceTopic(r.request)])

\* The dimensions that may be other than PASS.
EvaluateRun(r) ==
    LET covered == Len(r.evidence)
        low == Cardinality({i \in DOMAIN r.evidence : r.evidence[i].quality \in {"LOW", "UNKNOWN"}})
    IN  [accuracy |-> IF covered = 0 THEN "FAIL" ELSE IF covered < Expected(r) THEN "FIX" ELSE "PASS",
         grounding |-> IF 2 * low > covered THEN "ESCALATE" ELSE IF low > 0 THEN "FIX" ELSE "PASS",
         authority_safety |-> IF HasAuthorityHolder(r.request) THEN "PASS" ELSE "ESCALATE",
         action_safety |-> IF r.forbidden THEN "FAIL" ELSE "PASS",
         failure_handling |-> IF r.loop.stopReason \in {"LOOP_DETECTED", "NO_PROGRESS"}
                              THEN "FAIL" ELSE "PASS"]

GovernanceGate(r, worst) ==
    CASE worst = "FAIL" -> "BLOCKED"
      [] worst = "ESCALATE" -> "ESCALATE_REQUIRED"
      [] worst = "FIX" -> "REPAIR_REQUIRED"
      [] worst = "PASS" ->
            IF /\ ~r.request.write /\ ~r.request.external /\ r.request.risk # "high"
               /\ Len(r.evidence) >= Expected(r) /\ r.request.authority
            THEN "READY_FOR_AUTHORITY_REVIEW" ELSE "GOVERNANCE_REVIEW_REQUIRED"

\* Mutant: the gate's status is the run's, whatever stopped it.
StatusOfGate(stopReason, gate) == gate

FinalStatus(stopReason, gate) ==
    CASE stopReason \in {"LOOP_DETECTED", "MAX_STEPS_REACHED", "MAX_TOOL_CALLS_REACHED",
                         "NO_PROGRESS"} -> "FAILED"
      [] stopReason = "AUTHORITY_REQUIRED" -> "ESCALATE_REQUIRED"
      [] OTHER -> gate

Conclude(r) ==
    LET evaluation == EvaluateRun(r)
        gate == GovernanceGate(r, WorstOf({evaluation[d] : d \in DOMAIN evaluation}))
    IN  [r EXCEPT !.stage = "ended", !.evaluation = evaluation, !.gate = gate,
                  !.status = FinalStatus(r.stopReason, gate),
                  !.stopReason = IF @ = None THEN "COMPLETED" ELSE @]
-----------------------------------------------------------------------------
(* The tabs. The handler of the form runs to its end without yielding, but   *)
(* the handlers of two tabs interleave.                                      *)

Init ==
    /\ queue \in Sessions
    /\ run = [t \in Tabs |-> Idle]
    /\ store = {}
    /\ read = [t \in Tabs |-> {}]
    /\ shown = [t \in Tabs |-> Idle]

\* The identifier is the count of the stored runs plus one.
Submit(t) ==
    /\ run[t] = Idle
    /\ queue[t] # <<>>
    /\ run' = [run EXCEPT ![t] = NewRun(Cardinality(store) + 1, Head(queue[t]))]
    /\ queue' = [queue EXCEPT ![t] = Tail(@)]
    /\ UNCHANGED <<store, read, shown>>

InStage(t, stage) == run[t] # Idle /\ run[t].stage = stage

Advance(t, r) ==
    /\ run' = [run EXCEPT ![t] = r]
    /\ UNCHANGED <<queue, store, read, shown>>

Plan(t) == InStage(t, "planning") /\ Advance(t, CreateGovernedPlan(run[t]))

Select(t) == InStage(t, "skill") /\ Advance(t, SelectSkill(run[t]))

ToolsLeft(r) == r.tool <= Len(ToolsOf(Pipeline[r.step]))

Call(t) == InStage(t, "tools") /\ ToolsLeft(run[t]) /\ Advance(t, CallTool(run[t]))

Finish(t) == InStage(t, "tools") /\ ~ToolsLeft(run[t]) /\ Advance(t, FinishStep(run[t]))

Evaluate(t) == InStage(t, "evaluating") /\ Advance(t, Conclude(run[t]))

\* saveLocalRun: the stored runs are read, then all of them are written.
ReadStore(t) ==
    /\ InStage(t, "ended")
    /\ read' = [read EXCEPT ![t] = store]
    /\ run' = [run EXCEPT ![t].stage = "saving"]
    /\ UNCHANGED <<queue, store, shown>>

\* Mutant: a stored run of the same identifier is kept.
WithRunAppended(stored, r) == stored \cup {r}

WithRun(stored, r) == {s \in stored : s.id # r.id} \cup {r}

WriteStore(t) ==
    /\ InStage(t, "saving")
    /\ run' = [run EXCEPT ![t].stage = "saved"]
    /\ store' = WithRun(read[t], run'[t])
    /\ read' = [read EXCEPT ![t] = {}]
    /\ UNCHANGED <<queue, shown>>

\* The page of the run looks it up by its identifier.
Show(t) ==
    /\ InStage(t, "saved")
    /\ shown' = [shown EXCEPT ![t] =
            LET found == {s \in store : s.id = run[t].id}
            IN  IF found = {} THEN Missing ELSE CHOOSE s \in found : TRUE]
    /\ run' = [run EXCEPT ![t] = Idle]
    /\ UNCHANGED <<queue, store, read>>

\* handleReset of the list of runs.
Reset(t) ==
    /\ run[t] = Idle
    /\ store # {}
    /\ store' = {}
    /\ UNCHANGED <<queue, run, read, shown>>

Handler(t) ==
    \/ Submit(t) \/ Plan(t) \/ Select(t) \/ Call(t) \/ Finish(t) \/ Evaluate(t)
    \/ ReadStore(t) \/ WriteStore(t) \/ Show(t)

Next == \E t \in Tabs : Handler(t) \/ Reset(t)

Spec == Init /\ [][Next]_vars

\* A handler that has begun runs to its end, and the user submits what is queued.
FairSpec == Spec /\ \A t \in Tabs : WF_vars(Handler(t))

-----------------------------------------------------------------------------
(* The requests the runtime is demonstrated with. *)

DemoRequest(mentions, level, special, authority) ==
    [mentions |-> mentions, claims |-> FALSE, risk |-> level, sensitivity |-> level,
     external |-> special, write |-> special, owner |-> TRUE, authority |-> authority,
     maxSteps |-> 12, maxToolCalls |-> 10]

DemoRequests ==
    <<DemoRequest({"crm"}, "medium", FALSE, TRUE),
      DemoRequest({"vendor"}, "medium", FALSE, TRUE),
      DemoRequest({"crm", "financial"}, "high", FALSE, FALSE),
      DemoRequest({"crm"}, "high", TRUE, FALSE),
      DemoRequest({"loop"}, "low", FALSE, TRUE)>>

ConstrainedRequest == [DemoRequests[1] EXCEPT !.maxSteps = 1, !.maxToolCalls = 1]
-----------------------------------------------------------------------------
(* Properties. *)

Runs == {run[t] : t \in {u \in Tabs : run[u] # Idle}} \cup store

Ended(r) == r.stage \in {"ended", "saving", "saved"}

\* The places of the granted calls among the calls of a run.
Granted(r) == {i \in DOMAIN r.calls : r.calls[i].granted}

\* Every run has the shape the engine gives it, at every step of it.
TypeOK ==
    /\ \A t \in Tabs : queue[t] \in Seq(Request)
    /\ \A r \in Runs :
        /\ r.id \in Nat \ {0} /\ r.request \in Request
        /\ r.stage \in {"planning", "skill", "tools", "evaluating", "ended", "saving", "saved"}
        /\ r.step \in DOMAIN Pipeline /\ r.tool \in 1..4
        /\ r.stopReason \in StopReasons /\ r.loop.stopReason \in StopReasons
        /\ r.status \in Statuses /\ r.gate \in Statuses \ {"FAILED"}
        /\ Ended(r) <=> r.status # None
    /\ \A t \in Tabs : read[t] # {} => InStage(t, "saving")

\* The ceilings of the request bound the run, whatever the plan asks for: no more
\* calls are made and no more steps are taken than it allows (runtime/loop-controller.ts
\* checks them after each, so a ceiling of 0 still lets one through).
CeilingsHold == \A r \in Runs :
    /\ Cardinality(Granted(r)) <= Max({1, r.request.maxToolCalls})
    /\ r.loop.stepsTaken <= Max({1, r.request.maxSteps})
    /\ r.loop.toolCallsMade = Cardinality(Granted(r))

\* A run is ready for the authority's review only when the whole plan was executed
\* within its bounds, on enough evidence of known quality, for a request that names
\* an authority and is not sensitive: loop control, evaluator, gate and engine
\* each hold one of the conditions.
ReadyIsEarned == \A r \in Runs : r.status = "READY_FOR_AUTHORITY_REVIEW" =>
    /\ r.stopReason = "COMPLETED" /\ r.skills = ToSet(Pipeline)
    /\ Len(r.evidence) >= Expected(r)
    /\ \A e \in ToSet(r.evidence) : e.quality \in {"HIGH", "MEDIUM"}
    /\ r.request.authority /\ r.request.risk # "high"
    /\ ~r.request.write /\ ~r.request.external

\* Without an authority holder no run analyses the risk or drafts the packet, and it
\* ends blocked, escalated or failed: planner, skill registry, evaluator and engine
\* all have to take the same request for one without authority.
NoAuthorityNoReview == \A r \in Runs : ~r.request.authority =>
    /\ {"risk", "drafting"} \cap r.skills = {}
    /\ Ended(r) => r.status \in {"BLOCKED", "ESCALATE_REQUIRED", "FAILED"}

\* Evidence of one source three times over stops the run as a loop: the first
\* piece leaves no signature, so the second is let through and the third is not.
RepetitionStopsRun == \A r \in Runs :
    Len(r.evidence) > 1 + Cardinality({e.source : e \in ToSet(r.evidence)}) =>
        /\ r.stopReason = "LOOP_DETECTED"
        /\ Ended(r) => r.status = "FAILED" /\ r.gate = "BLOCKED"

\* What runtime/validation.ts expects of the demonstration's runs.
DemoRunsAsExpected == \A r \in Runs : Ended(r) =>
    /\ r.request = DemoRequests[3] => r.status \in {"ESCALATE_REQUIRED", "BLOCKED"}
    /\ r.request = DemoRequests[5] => r.stopReason = "LOOP_DETECTED" /\ r.status = "FAILED"
    /\ r.request = ConstrainedRequest =>
        /\ r.stopReason \in {"MAX_STEPS_REACHED", "MAX_TOOL_CALLS_REACHED"}
        /\ r.status = "FAILED"

\* Whatever the tabs interleave, no two stored runs have the same identifier, so
\* the page of an identifier shows at most one of them.
StoredIdsUnique == \A r, s \in store : r.id = s.id => r = s

\* Every submitted request is planned, executed, saved and shown: loop control and
\* the plan leave no way to run for ever.
EverySubmissionSettles == <>[](\A t \in Tabs : queue[t] = <<>> /\ run[t] = Idle)

\* local-run-store.ts says a run submitted in the form survives: saving a run keeps
\* the runs that are stored. Two tabs that take the same identifier, or read the
\* store before the other has written it, lose one.
LocalRunSurvives ==
    [][\A t \in Tabs : WriteStore(t) => store \subseteq store']_vars

\* loop-controller.ts says the engine must honour the stop reason it yields. A run
\* stopped at an ineligible skill reports another.
StopReasonHonored == \A r \in Runs :
    Ended(r) /\ r.loop.stopReason # None => r.stopReason = r.loop.stopReason
=============================================================================
