# TLA+ verification of the Agentic Governance Lab

This directory holds TLA+ models of this repository's program, the TLC
configurations that check them on small instances, and TLAPS proofs of what
matters most. The program is the Next.js application
`apps/agent-governance-control-plane` (`APP` below), over Postgres tables behind
Supabase, a runtime that executes research runs in the browser, and eight pure
reference implementations (`claude-operating-system/08-ai-governance-adoption-os/
reference-implementations`, `REF` below).

Run `tlc -config X.cfg M` for a run and `tlapm M.tla` for a proof module; every
run and its module is listed in `PROJECT.json`, which also gives, under `map`, the
lines of the source each definition stands for.

## 1. Inventory

| Part | State | Operations | Interacts with |
|---|---|---|---|
| KFSA submission flow (`APP/lib/kfsa/promotion-submission.ts`, the two `kfsa-integration*` repositories, the route, the SQL tables) | `kfsa_submission_attempts`, `kfsa_evaluation_responses`, `kfsa_external_audit_links`, audit events | submit a promotion request; recover from a lost race | the KFSA service; promotion requests and runs of the plugin tables |
| KFSA exchange (`APP/lib/kfsa/client.ts`, `contracts/promotion-request-v1.ts`, `ui-error-messages.ts`, `SubmitToKfsaAction.tsx`) | the timer, the buffered body, the page's message | call, bounded read, validate, answer, show | the submission flow, which it calls and is called by |
| Execution boundary (`APP/lib/plugins/execution-boundary.ts`, `context-composer.ts`, `skills/ai-inventory-intake.ts`) | `plugin_run_contexts`, `plugin_runs`, `plugin_evidence_outputs`, `use_cases`, audit events | run a skill | reads installation and profile; its runs feed the composer |
| Promotion request composer (`APP/lib/plugins/promotion-request-composer.ts`) | `promotion_requests`, audit events | prepare a request from a run | reads runs and evidence; its requests feed the submission flow |
| Installation, disabling, cold start (`APP/app/api/plugins/*/install`, `disable`, `cold-start`, `APP/lib/plugins/cold-start.ts`) | `plugin_installations`, `organization_profiles`, `domain_profiles`, audit events, the toggle of a page | install, disable, submit a profile | read by the boundary, while it runs |
| Research runtime (`APP/runtime/*`) | one run's plan, evidence, loop control, gate | execute a run: plan, select skills, call tools, evaluate, gate | saves its run in the store |
| Local run store (`APP/runtime/local-run-store.ts`) | the `localStorage` of a browser | next id, save, load, reset | shared by the tabs of a browser |
| Governance engine (`APP/lib/governance-engine.ts`, `governance-model.ts`, `integrity.ts`) and demo portfolio (`APP/lib/mock-data.ts`) | the registers, edited record by record | packets, layer readiness, dashboard, integrity checks | the pages |
| Reference implementations (`REF/*`) | none | triage, readiness scoring, gate assignment, evaluation grading, governance gate; permission schema, evidence pack | each takes the output of the ones before |
| Sign-in, tenancy, row-level security | policies, session | filter rows by organization | every table |
| Other pages, generated types, scripts, documents | form fields | render | routes |

What is hard:

* **Posts interleave between awaits.** No route holds a lock or a transaction
  across calls. Everything is a read, then some awaits, then a write, and what
  keeps it together is one unique constraint or trigger per table.
* **Servers die** between any two calls; nothing runs in the background, so only
  a later post can repair what is left behind.
* **The KFSA call times out, fails, answers late or sends anything**, and a
  repeated call may evaluate differently.
* **Settings change under a running post**: the plugin is disabled, the profile
  edited, a version published; pages show what was true when they were rendered.
* **Rules are stated twice.** The pure parts keep the same rule in several places
  (severity and named gap, permission and evidence, triage and scoring, status
  and outcome), and stages see only part of what the stages before found.

What makes each component correct:

* Submission: one evaluation per correlation id and tenant, every tab told the
  persisted one; one attempt in progress at a time; a late post never calls
  KFSA; each answer agrees with the tables; no post waits for ever.
* Exchange: only a clean body completes; memory is bounded; every failure is shown,
  and a retry is offered exactly where it helps; every click is answered.
* Boundary: a correlation id executes once; a completed run has its evidence and
  its trail; a run follows the context snapshot it cites; a retry replays.
* Composer: a request cites all evidence of a completed run and stays acceptable.
* Administration: posts touch their own tenant's rows; the trail tells the state;
  the two profiles belong together; an installation keeps its version.
* Research runtime: ceilings hold, a run is ready only when everything was earned,
  a loop stops, every submission settles; identifiers of stored runs are unique.
* Governance engine: computations that must agree agree, over every edit.
* Reference implementations: no objection of an early stage is lost on the way to
  the last; more power never makes a review kinder; the published examples hold.

`PROJECT.json` lists, under `hazards`, each line where this may go wrong and the
property that would show it; where the code does go wrong, a note says so, and the
property says what holds instead.

## 2. Modules

```
EvaluationRegister                abstract: a write-once register and its readers
  ^ refined by
KfsaSubmission                    the submission flow
  <- MCKfsaSubmission             small instances
  <- KfsaSubmissionProofs         attempts, evaluations and refinement, answers
KfsaExchange                      one submit, from the button to its message
  <- MCKfsaExchange, KfsaExchangeProofs
PluginRuns                        the execution boundary and the composer
  <- MCPluginRuns, PluginRunsProofs
PluginAdministration              install, disable, cold start
  <- MCPluginAdministration, PluginAdministrationProofs
ReviewOutcomes                    the four outcomes and their order
  <- FailClosedReview             abstract: no objection is lost
  |    ^ refined by
  <- UseCaseAssessment            triage, scoring, gating, grading, governance gate
  |    <- AssessmentExamples <- MCUseCaseAssessment
  |    <- UseCaseAssessmentProofs
  <- AgentDossier                 permission schema and evidence pack
  |    <- DossierExamples <- MCAgentDossier
  |    <- AgentDossierProofs
  <- ResearchRun                  the research runtime and the local run store
       <- MCResearchRun, ResearchRunProofs
DemoPortfolio                     the records of mock-data.ts
  <- GovernancePosture            the governance engine over them
       <- MCGovernancePosture, GovernancePostureProofs
```

### KfsaSubmission

`pc[t]` names the awaited call the post in tab `t` makes next, so every `await`
of `submitPromotionRequestForEvaluation` is an action and everything between
two awaits belongs to the action before it. `local[t]` holds the local variables
that survive an await, `answer[t]` what the route returns, the other variables
are tables. The unique constraints are the guards of `InsertAttempt` (request,
correlation, attempt number) and of `InsertResponse` (organization, correlation),
the trigger `guard_kfsa_submission_attempt_update` is `Unlocked`.
`KfsaEvaluates` and `KfsaFails` are the external call: KFSA may answer each call
with another outcome, or the call ends in any error code. `Abort` is a server
that dies or a call that throws something the route does not know. `Age` lets an
attempt exceed the stale threshold: time enters the code only by that
comparison. A tab may post again once it is answered.

`post[t].late` is history: whether the correlation id was evaluated when the post
arrived. Two facts simplify the data: a promotion request is immutable once
inserted (the table has no update policy), so its organization and correlation
id are constants; and an audit event is its type, request and attempt number.
`tenant_mismatch` is left out of the error codes: the client declares it and
never throws it.

`EvaluationRegister` is what the flow promises to its callers: under each
(organization, correlation id) one evaluation is written at most once, and a tab
is told only the evaluation recorded there for its own request.

### KfsaExchange

The same submit seen from its ends: the button, the route's early returns, the
fetch with its timer (`Send`, `Timeout`, `NetworkFails`, `HeadersArrive`), the
bounded read of the body chunk by chunk (`ChunkArrives`, `BodyBreaksOff`), the
validation (`BodyEnds`), the route's answer and what the page shows, also when
the answer is lost. KFSA is any peer: any status of `Statuses`, any
declared and any real length, and a body that is the set of its faults against
the contract. `Violation` is the order in which `validateKfsaResponse` looks for
them, `StatusCode` the order of the client's early returns. What the server does
between the route and the call, and after it, is KfsaSubmission's subject: here
`FlowEndsEarly` may end the submission in any way that flow can, and after a sound
body `RouteAnswers` may report it COMPLETED, REPLAYED (the insert met the own
request's evaluation), or failed with a correlation conflict (it met another's).
`RetryIsOfferedWhenItHelps` is about posts that turned to KFSA (`code` is set): the
user is offered a retry exactly if KFSA was silent (`KfsaSilent`: timeout, network
failure, not configured), busy (429, 5xx) or garbled (a 2xx body that is faulty, too
long or broken off), never after a refusal and never after that conflict. The failure
of another post, reported by `FlowEndsEarly`, is not about this post's exchange.
`EverySubmitAnswered` asks for an evaluation or a message, not only for the button to
be released. A body of a 2xx
answer whose status is RECEIVED, EVALUATING or BLOCKED passes the contract and
is persisted like an evaluated one; the model does not tell these apart.

### PluginRuns

One organization and one plugin. A run is the row of its correlation id.
`FindRun` up to `AuditCompleted` are the awaited calls of `runSkill`, with
`composeContext` between the lookup and the insert and the skill handler in
`Handle`; `ReadRun` up to `AuditRequest` those of
`preparePromotionRequestFromRun`. `Install`, `Disable` and `EditProfile` are the
committed writes of other routes.

What no application code writes (plugin versions, skills and their permitted
connectors, the skill's execution status) is constant. `ReadInstallation`
may always refuse: it stands for all the checks of `composeContext` that fail for
rows that do not change. Of the profile the model keeps whether a required field is
missing; of a snapshot, that and the skill. `snapshots` and `requests` are sets
of contents: two rows of one content are one element. Inputs are valid,
unacceptable to the handler, or carry a prohibited field. Not kept: the
use case id of evidence, the run's output, the wording of rejections.

### PluginAdministration

The routes PluginRuns takes for its environment, over rows kept by
organization: each post is the series of database calls its code makes
(`ReadInstallation`, `WriteInstallation`, `AuditInstallation`; `ReadOrgProfile` up
to `AuditColdStart`), and `Lose` ends one between any two of them without a
rollback. `Toggle` asks for the opposite of what the page showed when it was
rendered (`installed`, renewed only by `Refresh`); `Publish` adds a version while
posts are under way. A user has one organization or none; the unique constraint
per organization is `Conflict`, row-level security is `VisibleRow`. A profile is the
set of its filled fields, and the completeness score is computed from it as in
`profile-schema.ts`, rounding included. `disturbed` is history: organizations in
which two posts have overlapped or one was lost. The trail and the two profiles
promise nothing there, which is why two properties speak of the others.

### UseCaseAssessment, AgentDossier and their abstractions

`UseCaseAssessment` chains the packages in the order their outputs are
passed on: `RunAIGovernanceFlow` (triage, mapping to readiness, scoring, gate
assignment, final outcome), `RunEvalGraderMatrix`, `RunGovernanceGate`. A use case is
the answers of the intake form, with `Unset` where a caller leaves one out, and
`smuggled` for fields an unsafe cast may carry past the types. Rules are sets of
reasons; `FirstTier` turns them into an outcome. `FailClosedReview` is the abstract
promise of any such chain: the verdict is at least as severe as every FAIL and
ESCALATE reported on the way.

`AgentDossier` is one agent's dossier, resubmitted with more powers, controls or
evidence, and what `validateAgentPermissions` and `validateEvidencePack` say of
it. One dossier serves both inputs, as the packages mean it to.

`AssessmentExamples` and `DossierExamples` hold the executable examples each
package publishes with the outcome it promises for them.

### ResearchRun

A tab executes one run at a time; an action is a step of `executeGovernedRun`:
plan, select the skill of a step, call one tool (`CallTool`: eligibility, permission,
ceilings, repetition, evidence), finish the step, evaluate and gate. The engine is
synchronous, so tabs really interleave only at the store; the smaller steps let the
ceilings be stated of every moment of a run. `ReadStore` and `WriteStore` are the two
halves of `saveLocalRun`, `Submit` takes the next identifier from the count of
stored runs. The store and what a tab has read of it are sets of runs: their order in
the array is only what the list of runs shows. Skills, tools and evidence are those the
repository ships; a request's text is the set of topics it names.

### GovernancePosture and DemoPortfolio

The computations of the engine are pure, so the variables are the registers and the
actions edit one record each (a status, a link, a review, a new use case). The
initial state is the portfolio the application ships with, record for record; each
register of `DemoPortfolio` is a `Table` of keyed rows.
Every property compares two computations the code keeps apart.

## 3. Runs

| Run | Question | Bounds | Distinct states |
|---|---|---|---|
| KfsaOneRequest | do two racing tabs, with failures, aborts and staleness, leave answers and tables in agreement? is the register implemented? | 2 tabs, 1 request, 2 outcomes, 2 error codes, 2 attempts | 239,314 |
| KfsaSharedCorrelation | a correlation text shared within a tenant and across two: is one request evaluated, and are the tenants independent? | 2 tabs, 3 requests, 2 organizations, 1 attempt; `OneNeighbour` | 368,144 |
| KfsaLiveness | is every post answered, and is an abandoned attempt recovered? | 2 tabs, 1 request, 1 attempt, fairness | 9,135 |
| KfsaExchange | does every click end in an evaluation or a message, a retry offered exactly where it helps, and a bad body never in success? | 15 statuses (each class and its borders), 2 faults a body, 2 chunks, 2 clicks, fairness | 82,213 |
| PluginOneRun | one correlation id, two tabs, two skills, changing settings: one execution, consistent run, evidence, answers and requests? | 2 tabs, 1 correlation id, 2 skills | 1,046,190 |
| PluginSkillKinds | do refused connectors and missing handlers ever complete, and is every post answered? | 1 tab, 1 correlation id, 4 skills, fairness | 293,661 |
| PluginAdministration | do racing, dying and stale posts keep rows, trail and profiles in agreement and tenants apart? | 2 tabs in one, two or no organization, 2 profiles, 2 posts a tab, 2 versions | 802,015 |
| UseCaseAssessment | does any objection get lost on the way to the governance gate? | every use case up to two answers away from two baselines, and the examples; 8 evaluations; 7 callers | 101,726 |
| AgentDossier | do schema and pack agree, and are they monotone? | every sequence of extensions of a dossier with at most one thing missing, and the examples | 115,200 |
| ResearchRun | do ceilings, gate and loop control hold, and does every submission settle? | every combination of what the engine looks at in one tab; two tabs with up to 3 requests | 98,652 |
| GovernancePosture | do the engine's computations agree over the shipped portfolio and its edits? | 2 edits of 4 use cases of different kinds, or of any register | 11,743 |
| KfsaFindingCalledAgain | the disagreement of section 5, violated | 2 tabs, 1 request, 2 attempts | 5,429, to the violation |

Why these bounds are enough to be worth checking. Every race in the code is
between two posts that read the same row before one of them writes; what three
posts may do to the attempt numbers is proved (section 6). Two attempts cover first,
retry, and the refusal of a third number (`MaxAttempts` also caps the table: a post
that would need a higher number is stopped there in the model; `AttemptNumbers` is
where the bound applies). Two outcomes tell a replay of one's own answer from one of
another's; the two error codes of KfsaOneRequest are one that is retryable and one
that is not. Correlation ids of runs do not interact with one another in PluginRuns:
one is enough, while the two skills make the reuse of an id by another skill possible.
`OneNeighbour` explores KfsaSharedCorrelation one pair of requests at a time: p1 beside
its own tenant's request, or beside the other tenant's; keys of different tenants
share no row. It leaves staleness to the other runs: under a bound of one attempt a stale
one can only be ended. Two posts a tab are a disabling of what the tab has
installed, or a retry after a lost post. The rules of the pure parts look at one or
two answers each, so that two answers away from a baseline that passes reaches every
rule alone and every pair that may hide one another; the examples reach far from the
baselines. `NearlyComplete` stops resubmissions of dossiers that lack two things.

`CHECK_DEADLOCK FALSE` stands where the system really comes to rest: tabs that have
made their posts (PluginAdministration, KfsaExchange), empty queues (ResearchRun), no
edit left (GovernancePosture), a complete dossier (AgentDossier).

**Further configurations.** `UseCaseAssessmentMore.cfg`, `AgentDossierMore.cfg`,
`ResearchRunMore.cfg`, `PluginAdministrationMore.cfg` and `GovernancePostureMore.cfg`
check more properties on the same instances (the types, the published examples, the
demo runs and portfolio, the listings of the dashboard); they pass, and are not
listed in `PROJECT.json`. What is proved for every value of the constants is in some
cases not repeated by a run: `SuccessIsEvaluated`, `LinkedAttemptEvaluated` and
`AuditPrecedesCall` of KfsaSubmission, `LatePostNeverExecutes` and `RunsEndOnce` of
PluginRuns, `TypeOK`, `BufferIsBounded` and `NoSilentFailure` of KfsaExchange,
`ScoreMatchesProfile` and `VersionIsKept` of PluginAdministration.

Each property of each passing run is paired, in `PROJECT.json`, with a mutant: a
plausible bug in one definition (a dropped check, a write moved before a guard, a
constraint left out) under which TLC finds the property violated. The mutated
operators stand beside the originals, each commented `Mutant:`.

## 4. Fairness

* **KfsaSubmission, PluginRuns.** A live server runs each post on: `WF` on the
  steps of each tab. Nothing in the code waits for another post: every await is a
  database call or the KFSA call, which is bounded by `KFSA_RUNTIME_TIMEOUT_MS`
  until headers arrive and by the connection after. `Abort` is never fair.
* `AbandonedAttemptRecovered` needs more, since recovery is reactive: users keep
  posting the request (`WF` on `Arrive` by its owner), attempts do grow old
  (`WF` on `Age`), the ownership checks do not fail for ever (`SF` on
  `VerifyOwnership`, which a rejection may always pre-empt), and servers stop
  dying (`FinitelyManyAborts`, an assumption of the property).
* **KfsaExchange.** Server and browser run on (`Progress`), an armed timer fires
  (`Timeout`), and a body that goes silent is broken off in the end by the HTTP
  runtime under fetch, which has a body timeout of its own. KFSA owes nothing:
  neither its headers nor the next chunk are fair alone.
* **ResearchRun.** A handler that has begun runs to its end, and the user submits what
  is queued. `Reset` is not fair.

PluginAdministration, the assessment modules and GovernancePosture state no liveness:
their posts only read and write, and their computations end.

## 5. Findings

`KfsaFindingCalledAgain` is a run of the project; `PROJECT.json` quotes the lines.
The check for an evaluation and the call to KFSA are some awaits apart, so KFSA may be
called again for an evaluated request. What holds instead: a post that **arrives**
late never calls (`LateArrivalNeverCalls`), and the second answer never replaces
the first.

The other disagreements with a doc, comment or test have their property and, where it
says *cfg*, a configuration kept here that reproduces it:

| Property | What the code does | What holds instead |
|---|---|---|
| `NoUnhandledError` (*KfsaFindingUnhandled.cfg*) | two posts mark the same stale attempt; the second throws | `ThrowsOnlyAfterStaleness` |
| `StaleAttemptEnded` (*KfsaFindingStale.cfg*) | an attempt whose server died between persisting the response and marking the attempt stays in progress for ever: posts replay before they look at attempts | its request is not blocked |
| `DuplicateIsHandled` (*PluginFindingDuplicate.cfg*) | a simultaneous duplicate run ends in an unhandled unique violation, where the repository's comment asks for a re-fetch | `ExecutedOnce` |
| `NoRunWhileDisabled` (*PluginFindingDisabled.cfg*) | a run is inserted and executed after the plugin was disabled, by a post that read the installation before | `RunFollowsItsContext` |
| `WaitIsBounded` (*KfsaFindingBodyWait.cfg*) | `client.ts` clears its timer when the headers arrive, so a body that trickles in is not bounded by it | `BufferIsBounded`, `EverySubmitAnswered` |
| `EveryRequirementEnforced` (*AgentFindingEscalation.cfg*) | the permission validator does not enforce the escalation control the schema derives for sensitive data, or for an autonomous agent with an external system (`REF/agent-permission-schema-v1/validate.ts:113-117`) | `DerivationsAgree`, `ActingAgentsAreCovered` |
| `LocalRunSurvives` | two tabs that take the same identifier, or read the store before the other has written, lose a run | `StoredIdsUnique` |
| `StopReasonHonored` | a run stopped at an ineligible skill reports another reason than the loop control yields | `ReadyIsEarned` |
| `ReadyMeansRepaired` | the governance gate has no condition for a flow that ended with REPAIR_REQUIRED and FIX, which may become ready for authority review | `ReadyMeansClean` |

Of the same roots, and without a property: two requests that share a correlation id may
both be sent before either response is there (the register still takes one); a slow
answer is persisted under an attempt that was meanwhile marked stale and failed; the
completion event of a run is lost with its server, and a replay writes none; two
cold starts that overlap may leave the organization's profile of one and the domain
profile of the other; the severity of the oversight layer rises with the first review
of a use case without authority (the exception stated in `MendingNeverWorsens`).

## 6. Proofs

Eight modules hold proofs, for any values of the constants, from the assumptions named
in the modules that declare them only: `RequestsAssumption`, `KfsaAssumption` and
`BoundAssumption` (KfsaSubmission), `SkillsAssumption` (PluginRuns),
`AdministrationAssumption` (PluginAdministration), `ExchangeAssumption` (KfsaExchange),
`ResearchAssumption` (ResearchRun), `AssessmentAssumption` (UseCaseAssessment),
`DossiersAssumption` (AgentDossier), `PostureAssumption` (GovernancePosture); the last
five only say what type the instance's sets have. With them every safety
property, action property and refinement that a listed run expects to hold is proved;
of the listed properties only the liveness ones are not.

**KfsaSubmissionProofs, attempts.** `TypeCorrect`, then `AttemptsFollowInSequence`. That
property is not inductive: that an insert is a successor of ended attempts
depends on what the post read some awaits earlier. `AttemptsInv` adds that
the rows of a request are exactly `1..k` (`Contiguous`) and, for each post in
flight, what its place in the flow says of the tables: while it heads for an
insert, every row below its number has ended; while it owns an
attempt, that row was inserted. This survives the steps of others because a row
is never deleted, an ended row never changes (the trigger), and an insert is
refused for a taken number (the unique constraint).

**KfsaSubmissionProofs, evaluations.** `EvaluationsInv` says that a key holds at most one
evaluation, that an attempt succeeded only if its request is the evaluated one,
and that every post which carries an evaluation, or has told one, carries the
recorded one (`Informed`). Its stability rests on one lemma: an evaluation, once
there, stays as it is (`ResponsesKept`). From it follow `SuccessOnlyIfEvaluated`,
`AnswersAgree`, and `RegisterImplemented`: initial states map to
initial states and every step maps to `Evaluate`, `Tell`, `Forget` or a stutter.

**KfsaSubmissionProofs, answers.** What stands behind an answer in the tables. `AnswersInv` gives
each post its promises by its place in the flow: a post that was early has found its
correlation unanswered (`Unanswered`), one that may call has audited (`Audited`), one
that came late is past the call (`LateHandled`), and what is told has been written
(`Rejected`, `FailureKnown`, `Durable`). All of these say that something is in a
table, and tables only grow (`Grows`), so the steps of others keep them; a post's
own step is treated by where it comes from (`Origins`). `ThrowsAfterStaleness`
needs an invariant of its own: between insert and end a post owns its attempt
alone unless the attempt grew old (`StalenessInv`), so only then can the trigger
refuse its update.

**KfsaExchangeProofs.** `ExchangeInv` says what is buffered, which code is settled and
what is shown at each place of the exchange, that the settled code is the one the
response, or its absence, calls for, and that a failed post reports that code or the
conflict its evaluation met (`Reports`), from which `RetryHelps` follows case by case. The data-level lemmas (a clean body is one without faults, the
message of each code) are proved from the definitions for every status.

**PluginRunsProofs.** Types; then every safety property that PluginOneRun
and PluginSkillKinds check, `RunsEndOnce` and `LatePostNeverExecutes`. `ExecutedOnce` alone is not inductive: that a handler
inserts at most one use case depends on who may run it. `RunsInv` adds that a run
in progress is owned by at most one post (`Exclusive`: a post comes to own a run
only by inserting its row, which the unique constraint grants once); what the
owner's place in the flow says of use cases, evidence, audit events and context
(`OwnerFacts`); what any other post may rely on (`ReaderFacts`), which is only
what never changes again; and the counts a status implies (`RunFacts`). Two
lemmas carry the interleaving: a row changes only by the post that owns or
inserts it (`StepRows`), and a run keeps skill, context and end (`StepRuns`). The
installation and the profile occur nowhere in `RunsInv`: that is why a run
follows its snapshot whatever is edited.

**PluginAdministrationProofs.** Here nothing but the unique constraint protects a row,
and the properties hold because of what is *not* disturbed. `AdminInv` says of every
post that it works on its own organization and on the row it found (`Owned`, `Found`),
and of every undisturbed organization that its posts come one at a time and that, at
each place between the writes of the one in flight, trail and profiles lag behind
by exactly what is still to be written (`TrailFollows`, `ProfilesFollow`). There is one
lemma per action; each shows that the step touches one organization and keeps its
facts, and `GoodKeepsInv` lifts that to the whole.

**ResearchRunProofs.** A run is a record that one pure function after another
transforms, and only the store is shared. `Sound(r)` says of a run, by its stage, that
its counters are those of its calls and within its ceilings (`Bounded`, where `LoopAdvances`
treats each way the loop control may end), that its skills are a beginning of the
pipeline its request permits (`FollowsPlan`), and that its status is the gate's answer to
its evaluation and stop reason (`EndFits`). `ResearchInv` says it of every run in flight,
stored, or **read and not yet written back**: the last is what makes `StoredRunsDiffer`
inductive, since a stale copy of the store is written over the current one.

**UseCaseAssessmentProofs.** The state keeps outputs of pure stages, so `AssessmentInv` is
short: each output is still that of the current input. The work is in what the outputs
tell of one another: scoring repeats every objection of triage
(`ScoringRepeatsObjection`), the gate's status rests on flow and grade (`DecisionRests`),
and a percentage of 100 means that every case passed (`FullScore`). `ChainImplementsReview`
maps every step to a report, the verdict or a stutter of FailClosedReview.

**AgentDossierProofs.** The two derivations are compared question by question
(`ControlsDerived`, `EvidenceRequired`). Monotonicity goes in three layers: more power
answers more questions with yes (`QuestionsAreMonotone`), these only add requirements
(`RequirementsAreMonotone`), and requirements only add reasons (`PowerIsHarsher`,
`CompletionIsKinder`); no requirement switches off another.
`OnlyEscalationEscapes` states how far the finding `EveryRequirementEnforced` reaches.

**GovernancePostureProofs.** `PostureInv` types the registers, which takes a check of all
shipped records (`DemoUseCasesTyped`, `DemoRegistersRated`). Averages are folds over
sets, so the module first proves the laws of such a sum: it is bounded, it grows
with each of its terms, any term may be taken out of it, and counts by value add up
(`SumOverBounds`, `SumOverOrdered`, `SumOverOneMore`, `SumOfCounts`). With the laws of
rounded division a percentage stays within 0..100 (`PostureTypeCorrect`) and never falls
when a score rises or a full one is added. `MendingIsMonotone` needs in addition that
links between records are kept by every step (`LinksKept`), so that both packets of a use
case look at the same controls and incidents; its one exception is the one in the code.

**Induction.** The library's induction theorems take an operator, which the provers cannot
instantiate. Where induction over a number or a finite set is needed, the proof takes a smallest
counterexample instead, which exists because `<` on the naturals is well founded
(`WFMin`, a theorem about sets): `LeastNumber` and `SmallestSet`.

Only model-checked: the liveness properties `EveryPostAnswered` (of KfsaSubmission and of
PluginRuns), `AbandonedAttemptRecovered`, `EverySubmitAnswered` and
`EverySubmissionSettles` (liveness under fairness and `ENABLED` are out of the prover's
reach). Of the further configurations also: `PluginAdministration!TypeOK` and the other types
not listed; `UnclearAuthorityNeverProceeds`, whose weighted score the types leave
open; the published examples and the demo runs, which are closed statements that TLC
decides by evaluation, as it does `ShippedPortfolioIsSound`; and
`UrgentListFollowsGateOrder`, a list built by insertion in any order. No module that is
proved about uses a recursive operator.

## 7. Not modelled, and why

* Row-level security, sign-in and middleware: Postgres and Supabase enforce them.
  The models assume of them what the code relies on, that a post sees and writes
  its own tenant's rows; a mutant of PluginAdministration shows what depends on it.
* Of the reference implementations: `validateTriageInput` and
  `validateAIReadinessInput`, which reject shapes the types exclude; the free-text markers
  of `detectForcedFailures`; the wording of findings.
* Of the runtime: `reviewSkillIntake`, which only the skill intake page calls; the
  records of the trace; the reviewed checksum, which no caller passes; what of
  `validation.ts` is assertions of a script.
* Of the engine: texts, vendors, the averages of evaluations, the audit readiness and
  traceability listings, which no decision reads.
* The plugin installation while KFSA is called (constant in KfsaSubmission): no doc says
  that a submission begun before the plugin was disabled must not reach KFSA.
* The other pages, generated types, scripts and documents.

## 8. What remains

* A composition of PluginRuns with KfsaSubmission (a request prepared from a run and
  submitted while settings change): each takes the other's part as its environment,
  and the product is beyond TLC at bounds where either is interesting.
  `RequestStaysSubmittable` is the interface: what the composer leaves behind passes the
  submission flow's checks for ever.
* Proofs of `UnclearAuthorityNeverProceeds` of UseCaseAssessment (a bound on the weighted
  score), of `RepetitionStopsRun` of ResearchRun, and of the sorting of
  `UrgentItems`, by the smallest counterexample as for the sums.
