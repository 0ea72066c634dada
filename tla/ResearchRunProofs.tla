-------------------------- MODULE ResearchRunProofs --------------------------
(***************************************************************************)
(* Proofs about the research runtime and the local run store, for every    *)
(* number of tabs and every sequence of requests, whatever their ceilings. *)
(*                                                                         *)
(* A run is a record that one pure function after another transforms, so   *)
(* most of the work is about single runs: Sound(r) says what has to be     *)
(* true of a run at its stage, and there is one lemma per step.  The state *)
(* invariant says that every run, being executed or stored, is sound, and  *)
(* that stored runs differ in their identifiers, also as a tab has read    *)
(* them.                                                                   *)
(***************************************************************************)
EXTENDS ResearchRun, SequenceTheorems, FiniteSetTheorems, TLAPS

Skills == {"planning", "evidence", "quality", "risk", "drafting"}
Active == {"planning", "skill", "tools"}
Stages == Active \cup {"evaluating", "ended", "saving", "saved"}
LoopStops == {"LOOP_DETECTED", "NO_PROGRESS", "MAX_TOOL_CALLS_REACHED", "MAX_STEPS_REACHED"}
ToolNames == DOMAIN DemoTools
Sources == Topics \X Nat

ToolCalls == [tool : ToolNames, skill : Skills, granted : BOOLEAN]
Evidence == [source : Sources, quality : {"HIGH", "MEDIUM", "LOW", "UNKNOWN"}]
Evaluations == [accuracy : Outcomes, grounding : Outcomes, authority_safety : Outcomes,
                action_safety : Outcomes, failure_handling : Outcomes]

LoopStates ==
    [stepsTaken : Nat, toolCallsMade : Nat, toolSignatures : SUBSET (ToolNames \X Skills),
     evidenceSignatures : SUBSET Sources, lastProgressStep : Nat, stopReason : StopReasons]

RunRecords ==
    [id : Nat \ {0}, request : Request, stage : Stages, step : 1..5, tool : 1..4,
     calls : Seq(ToolCalls), evidence : Seq(Evidence), loop : LoopStates,
     stopReason : StopReasons, forbidden : BOOLEAN, skills : SUBSET Skills,
     evaluation : Evaluations \cup {None}, gate : Statuses \ {"FAILED"}, status : Statuses]

\* Loop control has not stopped the loop: it has not begun, or is below both ceilings.
BelowCeilings(l, q) ==
    \/ l.stepsTaken = 0 /\ l.toolCallsMade = 0
    \/ l.stepsTaken < q.maxSteps /\ l.toolCallsMade < q.maxToolCalls

\* The loop control of a run counts its granted calls and keeps within the ceilings; a
\* run that is under way has not been stopped.
Bounded(r) ==
    /\ r.loop.toolCallsMade = Cardinality(Granted(r))
    /\ r.loop.stepsTaken <= 1 \/ r.loop.stepsTaken <= r.request.maxSteps
    /\ r.loop.toolCallsMade <= 1 \/ r.loop.toolCallsMade <= r.request.maxToolCalls
    /\ r.stage \in Active => r.stopReason = None /\ BelowCeilings(r.loop, r.request)

SkillsUpTo(n) == {Pipeline[i] : i \in 1..n}

\* The skills of a run are those of the plan up to its step, and one that needs an
\* authority holder was selected only with one.
FollowsPlan(r) ==
    /\ r.stage = "planning" => r.skills = {} /\ r.step = 1
    /\ r.stage = "skill" => r.skills = SkillsUpTo(r.step - 1)
    /\ r.stage = "tools" => r.skills = SkillsUpTo(r.step)
    /\ r.stage = "evaluating" =>
        /\ r.stopReason \in LoopStops \cup {"AUTHORITY_REQUIRED", None}
        /\ r.stopReason = None => r.skills = SkillsUpTo(5)
    /\ {"risk", "drafting"} \cap r.skills # {} => r.request.authority

\* What the end of a run says of it.
EndFits(r) ==
    /\ r.status = "READY_FOR_AUTHORITY_REVIEW" =>
        /\ r.stopReason = "COMPLETED" /\ r.skills = SkillsUpTo(5)
        /\ Len(r.evidence) >= Expected(r)
        /\ \A i \in DOMAIN r.evidence : r.evidence[i].quality \in {"HIGH", "MEDIUM"}
        /\ r.request.authority /\ r.request.risk # "high"
        /\ ~r.request.write /\ ~r.request.external
    /\ ~r.request.authority => r.status \in {"BLOCKED", "ESCALATE_REQUIRED", "FAILED"}

Sound(r) ==
    /\ r \in RunRecords /\ Bounded(r) /\ FollowsPlan(r)
    /\ IF Ended(r) THEN EndFits(r) ELSE r.status = None

UniqueIds(S) == \A r, s \in S : r.id = s.id => r = s

\* The inductive invariant. Its second line says only that run and read are functions
\* on the tabs.
ResearchInv ==
    /\ queue \in [Tabs -> Seq(Request)]
    /\ run \in [Tabs -> {run[t] : t \in Tabs}] /\ read \in [Tabs -> {read[t] : t \in Tabs}]
    /\ \A t \in Tabs : run[t] # Idle => Sound(run[t])
    /\ \A r \in store : Sound(r)
    /\ \A t \in Tabs : \A r \in read[t] : Sound(r)
    /\ IsFiniteSet(store) /\ UniqueIds(store)
    /\ \A t \in Tabs : IsFiniteSet(read[t]) /\ UniqueIds(read[t])
-----------------------------------------------------------------------------
(* Lemmas about sequences and counts.                                      *)

\* One more call raises the number of granted calls exactly when it is granted.
LEMMA GrantedCounted ==
    ASSUME NEW r, NEW c, NEW S, NEW n, r.calls \in Seq(S), c \in S, n.calls = Append(r.calls, c)
    PROVE  /\ Cardinality(Granted(r)) \in Nat
           /\ c.granted => Cardinality(Granted(n)) = Cardinality(Granted(r)) + 1
           /\ ~c.granted => Cardinality(Granted(n)) = Cardinality(Granted(r))
<1> DEFINE k == Len(r.calls)
<1>1. /\ k \in Nat /\ DOMAIN r.calls = 1..k /\ DOMAIN n.calls = 1..(k + 1)
      /\ \A i \in 1..k : n.calls[i] = r.calls[i]
      /\ n.calls[k + 1] = c
    BY AppendProperties, LenProperties
<1>2. IsFiniteSet(Granted(r)) /\ Cardinality(Granted(r)) \in Nat /\ k + 1 \notin Granted(r)
  <2>1. Granted(r) \in SUBSET (1..k)
    BY <1>1 DEF Granted
  <2>2. IsFiniteSet(1..k)
    <3>1. k \in Int
      BY <1>1
    <3> HIDE DEF k
    <3> QED
      BY <3>1, FS_Interval
  <2> QED
    BY <1>1, <2>1, <2>2, FS_Subset, FS_CardinalityType
<1>3. 1..(k + 1) = (1..k) \cup {k + 1}
    BY <1>1
<1>4. CASE c.granted
  <2>1. Granted(n) = Granted(r) \cup {k + 1}
    BY <1>1, <1>3, <1>4 DEF Granted
  <2> QED
    BY <1>2, <1>4, <2>1, FS_AddElement
<1>5. CASE ~c.granted
  <2>1. Granted(n) = Granted(r)
    BY <1>1, <1>3, <1>5 DEF Granted
  <2> QED
    BY <1>2, <1>5, <2>1
<1> QED
    BY <1>4, <1>5

-----------------------------------------------------------------------------
(* Lemmas about loop control.                                              *)

LEMMA LoopUpdates ==
    ASSUME NEW l \in LoopStates
    PROVE  /\ \A x \in Nat : [l EXCEPT !.stepsTaken = x] \in LoopStates
           /\ \A x \in Nat : [l EXCEPT !.toolCallsMade = x] \in LoopStates
           /\ \A x \in SUBSET (ToolNames \X Skills) : [l EXCEPT !.toolSignatures = x] \in LoopStates
           /\ \A x \in SUBSET Sources : [l EXCEPT !.evidenceSignatures = x] \in LoopStates
           /\ \A x \in Nat : [l EXCEPT !.lastProgressStep = x] \in LoopStates
           /\ \A x \in StopReasons : [l EXCEPT !.stopReason = x] \in LoopStates
BY DEF LoopStates

\* What a call or a step without a call counts.
Counted(l, tool) ==
    [l EXCEPT !.stepsTaken = @ + 1, !.toolCallsMade = IF tool = Unsigned THEN @ ELSE @ + 1]

LEMMA CountedLoop ==
    ASSUME NEW l \in LoopStates, NEW tool
    PROVE  /\ Counted(l, tool) \in LoopStates
           /\ Counted(l, tool).stepsTaken = l.stepsTaken + 1
           /\ Counted(l, tool).toolCallsMade =
                IF tool = Unsigned THEN l.toolCallsMade ELSE l.toolCallsMade + 1
           /\ Counted(l, tool).toolSignatures = l.toolSignatures
           /\ Counted(l, tool).evidenceSignatures = l.evidenceSignatures
<1>1. l.stepsTaken + 1 \in Nat /\ (IF tool = Unsigned THEN l.toolCallsMade ELSE l.toolCallsMade + 1) \in Nat
    BY DEF LoopStates
<1>2. [l EXCEPT !.stepsTaken = @ + 1] \in LoopStates
    BY <1>1, LoopUpdates
<1>3. [l EXCEPT !.stepsTaken = @ + 1].toolCallsMade = l.toolCallsMade
    BY DEF LoopStates
<1>4. Counted(l, tool) \in LoopStates
    BY Zenon, <1>1, <1>2, <1>3, LoopUpdates DEF Counted
<1> QED
    BY <1>4 DEF Counted, LoopStates

LEMMA CeilingResult ==
    ASSUME NEW l \in LoopStates, NEW q \in Request
    PROVE  /\ CeilingReached(l, q) \in LoopStops \cup {None}
           /\ CeilingReached(l, q) = None => l.stepsTaken < q.maxSteps /\ l.toolCallsMade < q.maxToolCalls
<1> DEFINE calls == l.toolCallsMade >= q.maxToolCalls
           steps == l.stepsTaken >= q.maxSteps
<1>1. /\ ~calls <=> l.toolCallsMade < q.maxToolCalls
      /\ ~steps <=> l.stepsTaken < q.maxSteps
    BY DEF LoopStates, Request
<1>2. CASE calls
  <2>1. CeilingReached(l, q) = "MAX_TOOL_CALLS_REACHED"
    BY Zenon, <1>1, <1>2 DEF CeilingReached
  <2> QED
    BY <2>1 DEF LoopStops, None
<1>3. CASE ~calls /\ steps
  <2>1. CeilingReached(l, q) = "MAX_STEPS_REACHED"
    BY Zenon, <1>1, <1>3 DEF CeilingReached
  <2> QED
    BY <2>1 DEF LoopStops, None
<1>4. CASE ~calls /\ ~steps
  <2>1. CeilingReached(l, q) = None
    BY Zenon, <1>1, <1>4 DEF CeilingReached
  <2> QED
    BY <1>1, <1>4, <2>1
<1> QED
    BY <1>2, <1>3, <1>4

\* After a step or a call that no policy blocks, loop control has counted it, and lets
\* the run go on only below both ceilings.
Advanced(l, n, q, calls) ==
    /\ n \in LoopStates /\ n.stepsTaken = l.stepsTaken + 1
    /\ n.toolCallsMade = l.toolCallsMade + calls
    /\ n.stopReason \in LoopStops \cup {None}
    /\ n.stopReason = None => n.stepsTaken < q.maxSteps /\ n.toolCallsMade < q.maxToolCalls

LEMMA LoopAdvances ==
    ASSUME NEW l \in LoopStates, NEW q \in Request, NEW progressed \in BOOLEAN,
           NEW tool \in (ToolNames \X Skills) \cup {Unsigned}, NEW source \in Sources \cup {Unsigned},
           NEW n, n = AdvanceLoopControl(l, q, tool, source, progressed, FALSE)
    PROVE  /\ tool = Unsigned => Advanced(l, n, q, 0)
           /\ tool # Unsigned => Advanced(l, n, q, 1)
<1> DEFINE c == Counted(l, tool)
           m == [c EXCEPT !.toolSignatures = @ \cup ({tool} \ {Unsigned}),
                          !.evidenceSignatures = @ \cup ({source} \ {Unsigned})]
           p == IF progressed THEN [m EXCEPT !.lastProgressStep = m.stepsTaken] ELSE m
<1>1. /\ c \in LoopStates /\ c.stepsTaken = l.stepsTaken + 1
      /\ c.toolCallsMade = IF tool = Unsigned THEN l.toolCallsMade ELSE l.toolCallsMade + 1
    BY CountedLoop
<1>2. m \in LoopStates /\ m.stepsTaken = c.stepsTaken /\ m.toolCallsMade = c.toolCallsMade
  <2> HIDE DEF c
  <2>1. {tool} \ {Unsigned} \subseteq ToolNames \X Skills /\ {source} \ {Unsigned} \subseteq Sources
    BY Zenon
  <2>2. /\ c.toolSignatures \cup ({tool} \ {Unsigned}) \in SUBSET (ToolNames \X Skills)
        /\ c.evidenceSignatures \cup ({source} \ {Unsigned}) \in SUBSET Sources
    BY <1>1, <2>1 DEF LoopStates
  <2>3. [c EXCEPT !.toolSignatures = @ \cup ({tool} \ {Unsigned})] \in LoopStates
    BY <1>1, <2>2, LoopUpdates
  <2>4. [c EXCEPT !.toolSignatures = @ \cup ({tool} \ {Unsigned})].evidenceSignatures = c.evidenceSignatures
    BY <1>1 DEF LoopStates
  <2>5. m \in LoopStates
    BY Zenon, <2>2, <2>3, <2>4, LoopUpdates
  <2> QED
    BY <1>1, <2>5 DEF LoopStates
<1>3. p \in LoopStates /\ p.stepsTaken = c.stepsTaken /\ p.toolCallsMade = c.toolCallsMade
  <2> HIDE DEF c, m
  <2>1. m.stepsTaken \in Nat
    BY <1>2 DEF LoopStates
  <2>2. p \in LoopStates
    BY <1>2, <2>1, LoopUpdates
  <2> QED
    BY <1>2, <2>2 DEF LoopStates
<1>4. n = IF Repeated(l, tool, source) THEN [m EXCEPT !.stopReason = "LOOP_DETECTED"]
          ELSE IF ~progressed /\ m.stepsTaken - m.lastProgressStep >= 3
          THEN [m EXCEPT !.stopReason = "NO_PROGRESS"]
          ELSE [p EXCEPT !.stopReason = CeilingReached(p, q)]
    BY Zenon DEF AdvanceLoopControl, Counted
<1> HIDE DEF c, m, p
<1>5. /\ CeilingReached(p, q) \in LoopStops \cup {None}
      /\ CeilingReached(p, q) = None => p.stepsTaken < q.maxSteps /\ p.toolCallsMade < q.maxToolCalls
    BY <1>3, CeilingResult
<1>6. ASSUME NEW x \in LoopStates, NEW reason \in LoopStops \cup {None},
             n = [x EXCEPT !.stopReason = reason]
      PROVE  /\ n \in LoopStates /\ n.stopReason = reason
             /\ n.stepsTaken = x.stepsTaken /\ n.toolCallsMade = x.toolCallsMade
  <2>1. reason \in StopReasons
    BY DEF LoopStops, StopReasons
  <2>2. n \in LoopStates
    BY <1>6, <2>1, LoopUpdates
  <2> QED
    BY <1>6, <2>2 DEF LoopStates
<1>7. {"LOOP_DETECTED", "NO_PROGRESS"} \subseteq LoopStops /\ None \notin {"LOOP_DETECTED", "NO_PROGRESS"}
    BY DEF LoopStops, None
<1>8. /\ n \in LoopStates /\ n.stepsTaken = c.stepsTaken /\ n.toolCallsMade = c.toolCallsMade
      /\ n.stopReason \in LoopStops \cup {None}
      /\ n.stopReason = None => n.stepsTaken < q.maxSteps /\ n.toolCallsMade < q.maxToolCalls
  <2>1. CASE Repeated(l, tool, source)
    <3>1. n = [m EXCEPT !.stopReason = "LOOP_DETECTED"]
      BY <1>4, <2>1
    <3>2. n.stopReason \in LoopStops
      BY <1>2, <1>6, <1>7, <3>1
    <3> QED
      BY <1>2, <1>6, <1>7, <3>1, <3>2
  <2>2. CASE ~Repeated(l, tool, source) /\ ~progressed /\ m.stepsTaken - m.lastProgressStep >= 3
    <3>1. n = [m EXCEPT !.stopReason = "NO_PROGRESS"]
      BY <1>4, <2>2
    <3>2. n.stopReason \in LoopStops
      BY <1>2, <1>6, <1>7, <3>1
    <3> QED
      BY <1>2, <1>6, <1>7, <3>1, <3>2
  <2>3. CASE ~Repeated(l, tool, source) /\ ~(~progressed /\ m.stepsTaken - m.lastProgressStep >= 3)
    <3>1. n = [p EXCEPT !.stopReason = CeilingReached(p, q)]
      BY <1>4, <2>3
    <3> QED
      BY <1>3, <1>5, <1>6, <3>1
  <2> QED
    BY <2>1, <2>2, <2>3
<1>9. l.toolCallsMade \in Nat
    BY DEF LoopStates
<1>10. CASE tool = Unsigned
  <2>1. c.toolCallsMade = l.toolCallsMade /\ l.toolCallsMade = l.toolCallsMade + 0
    BY <1>1, <1>9, <1>10
  <2>2. n.stepsTaken = l.stepsTaken + 1 /\ n.toolCallsMade = l.toolCallsMade + 0
    BY <1>1, <1>8, <2>1
  <2> QED
    BY <1>8, <1>10, <2>2 DEF Advanced
<1>11. CASE tool # Unsigned
  <2>1. n.stepsTaken = l.stepsTaken + 1 /\ n.toolCallsMade = l.toolCallsMade + 1
    BY <1>1, <1>8, <1>11
  <2> QED
    BY <1>8, <1>11, <2>1 DEF Advanced
<1> QED
    BY <1>10, <1>11

\* A policy block stops the loop and counts a step, and no call.
LEMMA LoopBlocked ==
    ASSUME NEW l \in LoopStates, NEW q, NEW n,
           n = AdvanceLoopControl(l, q, Unsigned, Unsigned, FALSE, TRUE)
    PROVE  n \in LoopStates /\ n.stepsTaken = l.stepsTaken + 1 /\ n.toolCallsMade = l.toolCallsMade
<1> DEFINE c == Counted(l, Unsigned)
<1>1. n = [c EXCEPT !.stopReason = "POLICY_BLOCK"]
    BY Zenon DEF AdvanceLoopControl, Counted
<1>2. c \in LoopStates /\ c.stepsTaken = l.stepsTaken + 1 /\ c.toolCallsMade = l.toolCallsMade
    BY CountedLoop
<1> HIDE DEF c
<1>3. "POLICY_BLOCK" \in StopReasons
    BY DEF StopReasons
<1>4. n \in LoopStates
    BY <1>1, <1>2, <1>3, LoopUpdates
<1> QED
    BY <1>1, <1>2, <1>4 DEF LoopStates
-----------------------------------------------------------------------------
(* Lemmas about a run: each step of it keeps it sound.                     *)

LEMMA RunUpdates ==
    ASSUME NEW r \in RunRecords
    PROVE  /\ \A x \in Stages : [r EXCEPT !.stage = x] \in RunRecords
           /\ \A x \in 1..5 : [r EXCEPT !.step = x] \in RunRecords
           /\ \A x \in 1..4 : [r EXCEPT !.tool = x] \in RunRecords
           /\ \A x \in Seq(ToolCalls) : [r EXCEPT !.calls = x] \in RunRecords
           /\ \A x \in Seq(Evidence) : [r EXCEPT !.evidence = x] \in RunRecords
           /\ \A x \in LoopStates : [r EXCEPT !.loop = x] \in RunRecords
           /\ \A x \in StopReasons : [r EXCEPT !.stopReason = x] \in RunRecords
           /\ \A x \in BOOLEAN : [r EXCEPT !.forbidden = x] \in RunRecords
           /\ \A x \in SUBSET Skills : [r EXCEPT !.skills = x] \in RunRecords
           /\ \A x \in Evaluations \cup {None} : [r EXCEPT !.evaluation = x] \in RunRecords
           /\ \A x \in Statuses \ {"FAILED"} : [r EXCEPT !.gate = x] \in RunRecords
           /\ \A x \in Statuses : [r EXCEPT !.status = x] \in RunRecords
BY DEF RunRecords

LEMMA PipelineSkills ==
    /\ Len(Pipeline) = 5 /\ Pipeline[1] = "planning" /\ Pipeline[2] = "evidence"
    /\ Pipeline[3] = "quality" /\ Pipeline[4] = "risk" /\ Pipeline[5] = "drafting"
    /\ \A i \in 1..5 : Pipeline[i] \in Skills
    /\ ToSet(Pipeline) = SkillsUpTo(5)
BY DEF Pipeline, Skills, ToSet, SkillsUpTo

LEMMA NewRunSound ==
    ASSUME NEW id \in Nat \ {0}, NEW q \in Request, NEW n, n = NewRun(id, q)
    PROVE  Sound(n) /\ n.id = id
<1>1. InitialLoop \in LoopStates
    BY DEF InitialLoop, LoopStates, StopReasons, None
<1>2. <<>> \in Seq(ToolCalls) /\ <<>> \in Seq(Evidence)
    BY EmptySeq
<1>3. n \in RunRecords
    BY <1>1, <1>2 DEF NewRun, RunRecords, Stages, Active, StopReasons, Statuses, None
<1>4. Granted(n) = {}
    BY DEF Granted, NewRun
<1>5. Bounded(n)
  <2>1. /\ n.loop.stepsTaken = 0 /\ n.loop.toolCallsMade = 0 /\ n.stopReason = None
    BY DEF NewRun, InitialLoop
  <2> QED
    BY <1>4, <2>1, FS_EmptySet DEF Bounded, BelowCeilings
<1>6. FollowsPlan(n)
    BY DEF FollowsPlan, NewRun
<1> QED
    BY <1>3, <1>5, <1>6 DEF Sound, Ended, NewRun

LEMMA PlanSound ==
    ASSUME NEW r, Sound(r), r.stage = "planning", NEW n, n = CreateGovernedPlan(r)
    PROVE  Sound(n) /\ n.id = r.id
<1>1. r \in RunRecords
    BY DEF Sound
<1>2. CASE Rejected(r.request)
  <2> DEFINE a == [r EXCEPT !.stage = "ended"]
             b == [a EXCEPT !.stopReason = "POLICY_BLOCK"]
             c == [b EXCEPT !.gate = "BLOCKED"]
  <2>1. n = [c EXCEPT !.status = "BLOCKED"]
    BY Zenon, <1>2 DEF CreateGovernedPlan
  <2>2. a \in RunRecords
    BY <1>1, RunUpdates DEF Stages
  <2>3. b \in RunRecords
    <3> HIDE DEF a
    <3> QED
      BY <2>2, RunUpdates DEF StopReasons
  <2>4. c \in RunRecords
    <3> HIDE DEF b
    <3> QED
      BY <2>3, RunUpdates DEF Statuses
  <2>5. n \in RunRecords
    <3> HIDE DEF c
    <3> QED
      BY <2>1, <2>4, RunUpdates DEF Statuses
  <2>6. /\ n.stage = "ended" /\ n.status = "BLOCKED" /\ n.id = r.id /\ n.calls = r.calls
        /\ n.loop = r.loop /\ n.request = r.request /\ n.skills = r.skills
    BY <1>1, <1>2 DEF CreateGovernedPlan, RunRecords
  <2>7. Bounded(n)
    BY <2>6 DEF Sound, Bounded, Granted, Active
  <2>8. FollowsPlan(n)
    BY <2>6 DEF Sound, FollowsPlan
  <2>9. EndFits(n)
    BY <2>6 DEF EndFits
  <2> QED
    BY <2>5, <2>6, <2>7, <2>8, <2>9 DEF Sound, Ended
<1>3. CASE ~Rejected(r.request)
  <2>1. n = [r EXCEPT !.stage = "skill"]
    BY <1>3 DEF CreateGovernedPlan
  <2>2. "skill" \in Stages
    BY DEF Stages, Active
  <2>3. n \in RunRecords
    <3>1. [r EXCEPT !.stage = "skill"] \in RunRecords
      BY <1>1, <2>2, RunUpdates
    <3> QED
      BY <2>1, <3>1
  <2>4. /\ n.stage = "skill" /\ n.status = r.status /\ n.id = r.id /\ n.calls = r.calls /\ n.step = r.step
        /\ n.loop = r.loop /\ n.request = r.request /\ n.skills = r.skills /\ n.stopReason = r.stopReason
    BY <1>1, <2>1 DEF RunRecords
  <2>5. Bounded(n)
    BY <2>4 DEF Sound, Bounded, Granted, Active
  <2>6. FollowsPlan(n)
    BY <2>4 DEF Sound, FollowsPlan, SkillsUpTo
  <2> QED
    BY <2>3, <2>4, <2>5, <2>6 DEF Sound, Ended
<1> QED
    BY <1>2, <1>3

LEMMA SelectSound ==
    ASSUME NEW r, Sound(r), r.stage = "skill", NEW n, n = SelectSkill(r)
    PROVE  Sound(n) /\ n.id = r.id
<1> DEFINE skill == Pipeline[r.step]
           q == r.request
<1>1. r \in RunRecords /\ r.loop \in LoopStates /\ r.step \in 1..5 /\ q \in Request /\ skill \in Skills
    BY PipelineSkills DEF Sound, RunRecords
<1>2. CASE Eligible(skill, q)
  <2> DEFINE a == [r EXCEPT !.stage = "tools"]
             b == [a EXCEPT !.tool = 1]
  <2>1. n = [b EXCEPT !.skills = r.skills \cup {skill}]
    BY Zenon, <1>2 DEF SelectSkill
  <2>2. a \in RunRecords
    <3>1. "tools" \in Stages
      BY DEF Stages, Active
    <3> QED
      BY <1>1, <3>1, RunUpdates
  <2>3. b \in RunRecords
    <3>1. 1 \in 1..4
      OBVIOUS
    <3> HIDE DEF a
    <3> QED
      BY Zenon, <2>2, <3>1, RunUpdates
  <2>4. n \in RunRecords
    <3>1. r.skills \cup {skill} \in SUBSET Skills
      BY <1>1 DEF RunRecords
    <3> HIDE DEF b, skill
    <3> QED
      BY <2>1, <2>3, <3>1, RunUpdates
  <2>5. /\ n.stage = "tools" /\ n.status = r.status /\ n.id = r.id /\ n.calls = r.calls /\ n.step = r.step
        /\ n.loop = r.loop /\ n.request = q /\ n.skills = r.skills \cup {skill} /\ n.stopReason = r.stopReason
    BY <1>1, <1>2 DEF SelectSkill, RunRecords
  <2>6. Bounded(n)
    BY <2>5 DEF Sound, Bounded, Granted, Active
  <2>7. n.skills = SkillsUpTo(n.step)
    <3>1. r.skills = SkillsUpTo(r.step - 1)
      BY DEF Sound, FollowsPlan
    <3>2. 1..r.step = (1..(r.step - 1)) \cup {r.step}
      BY <1>1
    <3> QED
      BY <2>5, <3>1, <3>2 DEF SkillsUpTo
  <2>8. {"risk", "drafting"} \cap n.skills # {} => q.authority
    <3>1. CASE r.step \in 1..3
      <4>1. skill \notin {"risk", "drafting"}
        BY <3>1, PipelineSkills
      <4> QED
        BY <2>5, <4>1 DEF Sound, FollowsPlan
    <3>2. CASE r.step = 4
      <4>1. DemoSkills["risk"].requiredAuthority
        BY DEF DemoSkills, Skill
      <4> QED
        BY <1>2, <3>2, <4>1, PipelineSkills DEF Eligible, HasAuthorityHolder
    <3>3. CASE r.step = 5
      <4>1. "risk" \in r.skills
        BY <3>3, PipelineSkills DEF Sound, FollowsPlan, SkillsUpTo
      <4> QED
        BY <4>1 DEF Sound, FollowsPlan
    <3> QED
      BY <1>1, <3>1, <3>2, <3>3
  <2>9. FollowsPlan(n)
    BY <2>5, <2>7, <2>8 DEF FollowsPlan
  <2> QED
    BY <2>4, <2>5, <2>6, <2>9 DEF Sound, Ended
<1>3. CASE ~Eligible(skill, q)
  <2> DEFINE l == AdvanceLoopControl(r.loop, q, Unsigned, Unsigned, FALSE, TRUE)
             a == [r EXCEPT !.loop = l]
             b == [a EXCEPT !.stage = "evaluating"]
  <2>1. n = [b EXCEPT !.stopReason = "AUTHORITY_REQUIRED"]
    BY Zenon, <1>3 DEF SelectSkill, Stopped
  <2>2. l \in LoopStates /\ l.stepsTaken = r.loop.stepsTaken + 1 /\ l.toolCallsMade = r.loop.toolCallsMade
    BY <1>1, LoopBlocked
  <2> HIDE DEF l, q, skill
  <2>3. a \in RunRecords
    BY <1>1, <2>2, RunUpdates
  <2>4. b \in RunRecords
    <3> HIDE DEF a
    <3> QED
      BY <2>3, RunUpdates DEF Stages
  <2>5. n \in RunRecords
    <3> HIDE DEF b
    <3> QED
      BY <2>1, <2>4, RunUpdates DEF StopReasons
  <2>6. /\ n.stage = "evaluating" /\ n.status = r.status /\ n.id = r.id /\ n.calls = r.calls
        /\ n.loop = l /\ n.request = r.request /\ n.skills = r.skills /\ n.stopReason = "AUTHORITY_REQUIRED"
    BY <1>1, <2>1 DEF RunRecords
  <2>7. Bounded(n)
    BY <1>1, <2>2, <2>6 DEF Sound, Bounded, BelowCeilings, Granted, Active, LoopStates, Request, q
  <2>8. FollowsPlan(n)
    BY <2>6 DEF Sound, FollowsPlan, None
  <2> QED
    BY <2>5, <2>6, <2>7, <2>8 DEF Sound, Ended
<1> QED
    BY <1>2, <1>3

\* The tools of a step are known, and there are at most three.
LEMMA ToolsTyped ==
    ASSUME NEW skill \in Skills
    PROVE  /\ Len(ToolsOf(skill)) \in 0..3
           /\ \A i \in 1..Len(ToolsOf(skill)) : ToolsOf(skill)[i] \in ToolNames
<1>1. skill = "planning" \/ skill = "evidence" \/ skill = "quality" \/ skill = "risk" \/ skill = "drafting"
    BY DEF Skills
<1>2. ToolNames = {"web_search", "document_search", "policy_lookup", "calculator", "report_builder", "crm_update"}
    BY DEF ToolNames, DemoTools
<1>3. ToolsOf("planning") = <<>> /\ ToolsOf("quality") = <<"calculator">>
    BY DEF ToolsOf, DemoSkills, Skill
<1>4. ToolsOf("risk") = <<"policy_lookup", "calculator">> /\ ToolsOf("drafting") = <<"report_builder">>
    BY DEF ToolsOf, DemoSkills, Skill
<1>5. ToolsOf("evidence") = <<"web_search", "document_search", "policy_lookup">>
    BY DEF ToolsOf, DemoSkills, Skill
<1> QED
    BY <1>1, <1>2, <1>3, <1>4, <1>5

LEMMA TopicTyped ==
    ASSUME NEW q
    PROVE  InferEvidenceTopic(q) \in Topics
BY Zenon DEF InferEvidenceTopic, Topics

LEMMA SourceTyped ==
    ASSUME NEW r, r.evidence \in Seq(Evidence)
    PROVE  NextSource(r) \in Evidence
<1> DEFINE topic == InferEvidenceTopic(r.request)
           corpus == EvidenceCorpus[topic]
           found == Len(r.evidence)
           i == 1 + (found % Len(corpus))
<1>1. topic = "crm" \/ topic = "vendor" \/ topic = "financial" \/ topic = "loop"
    BY TopicTyped DEF Topics
<1>2. found \in Nat
    BY LenProperties
<1>3. i \in Nat /\ corpus[i] \in {"HIGH", "MEDIUM", "LOW", "UNKNOWN"}
  <2> HIDE DEF topic, found
  <2>1. CASE topic = "crm"
    <3>1. corpus = <<"HIGH", "MEDIUM", "HIGH">>
      BY <2>1 DEF EvidenceCorpus
    <3> HIDE DEF corpus
    <3>2. i \in 1..3
      BY <1>2, <3>1
    <3> HIDE DEF i
    <3> QED
      BY <3>1, <3>2
  <2>2. CASE topic = "vendor"
    <3>1. corpus = <<"LOW", "MEDIUM", "HIGH">>
      BY <2>2 DEF EvidenceCorpus
    <3> HIDE DEF corpus
    <3>2. i \in 1..3
      BY <1>2, <3>1
    <3> HIDE DEF i
    <3> QED
      BY <3>1, <3>2
  <2>3. CASE topic = "financial"
    <3>1. corpus = <<"HIGH", "UNKNOWN", "MEDIUM">>
      BY <2>3 DEF EvidenceCorpus
    <3> HIDE DEF corpus
    <3>2. i \in 1..3
      BY <1>2, <3>1
    <3> HIDE DEF i
    <3> QED
      BY <3>1, <3>2
  <2>4. CASE topic = "loop"
    <3>1. corpus = <<"MEDIUM">>
      BY <2>4 DEF EvidenceCorpus
    <3> HIDE DEF corpus
    <3>2. i \in 1..1
      BY <1>2, <3>1
    <3> HIDE DEF i
    <3> QED
      BY <3>1, <3>2
  <2> QED
    BY <1>1, <2>1, <2>2, <2>3, <2>4
<1>4. <<topic, i>> \in Sources
    BY <1>3, TopicTyped DEF Sources
<1>5. NextSource(r) = [source |-> <<topic, i>>, quality |-> corpus[i]]
    BY Zenon DEF NextSource
<1> HIDE DEF topic, i, corpus, found
<1> QED
    BY <1>3, <1>4, <1>5 DEF Evidence

\* A run that loop control stops goes to its evaluation.
LEMMA StoppedSound ==
    ASSUME NEW d \in RunRecords, NEW reason \in LoopStops, NEW n, n = Stopped(d, reason),
           d.status = None, {"risk", "drafting"} \cap d.skills # {} => d.request.authority,
           d.loop.toolCallsMade = Cardinality(Granted(d)),
           d.loop.stepsTaken <= 1 \/ d.loop.stepsTaken <= d.request.maxSteps,
           d.loop.toolCallsMade <= 1 \/ d.loop.toolCallsMade <= d.request.maxToolCalls
    PROVE  Sound(n) /\ n.id = d.id
<1> DEFINE a == [d EXCEPT !.stage = "evaluating"]
<1>1. n = [a EXCEPT !.stopReason = reason]
    BY Zenon DEF Stopped
<1>2. a \in RunRecords
    BY RunUpdates DEF Stages
<1>3. n \in RunRecords
  <2>1. reason \in StopReasons
    BY DEF LoopStops, StopReasons
  <2> HIDE DEF a
  <2> QED
    BY <1>1, <1>2, <2>1, RunUpdates
<1>4. /\ n.stage = "evaluating" /\ n.status = d.status /\ n.id = d.id /\ n.calls = d.calls
      /\ n.loop = d.loop /\ n.request = d.request /\ n.skills = d.skills /\ n.stopReason = reason
    BY DEF Stopped, RunRecords
<1>5. Bounded(n)
    BY <1>4 DEF Bounded, Granted, Active
<1>6. FollowsPlan(n)
    BY <1>4 DEF FollowsPlan, LoopStops, None
<1> QED
    BY <1>3, <1>4, <1>5, <1>6 DEF Sound, Ended

LEMMA CallSound ==
    ASSUME NEW r, Sound(r), r.stage = "tools", ToolsLeft(r), NEW n, n = CallTool(r)
    PROVE  Sound(n) /\ n.id = r.id
<1> DEFINE skill == Pipeline[r.step]
           tool == ToolsOf(skill)[r.tool]
           soFar == Cardinality({i \in DOMAIN r.calls : r.calls[i].tool = tool})
           granted == Permitted(tool, r.request, soFar)
           collects == granted /\ skill = "evidence" /\ DemoTools[tool].readOnly
           found == NextSource(r)
           repeats == /\ collects /\ r.evidence # <<>>
                      /\ InferEvidenceTopic(r.request) = "loop"
           signature == <<tool, skill>>
           call == [tool |-> tool, skill |-> skill, granted |-> granted]
           evidence == IF collects THEN Append(r.evidence, found) ELSE r.evidence
           forbidden == r.forbidden \/ (~granted /\ DemoTools[tool].forbidden)
           source == IF repeats THEN found.source ELSE Unsigned
           progressed == ~repeats
           advanced == AdvanceLoopControl(r.loop, r.request, signature, source, progressed, FALSE)
           a == [r EXCEPT !.calls = Append(r.calls, call)]
           b == [a EXCEPT !.tool = r.tool + 1]
           c == [b EXCEPT !.evidence = evidence]
           called == [c EXCEPT !.forbidden = forbidden]
<1>1. /\ r \in RunRecords /\ r.loop \in LoopStates /\ r.step \in 1..5 /\ r.request \in Request
      /\ r.calls \in Seq(ToolCalls) /\ r.evidence \in Seq(Evidence)
      /\ r.stopReason = None /\ BelowCeilings(r.loop, r.request) /\ r.status = None
    BY DEF Sound, RunRecords, Bounded, Active, Ended
<1>2. skill \in Skills
    BY <1>1, PipelineSkills
<1>3. tool \in ToolNames /\ r.tool + 1 \in 1..4
  <2> HIDE DEF skill
  <2>1. r.tool \in 1..4 /\ r.tool <= Len(ToolsOf(skill))
    BY <1>1 DEF RunRecords, ToolsLeft, skill
  <2> QED
    BY <1>2, <2>1, ToolsTyped
<1>4. granted \in BOOLEAN /\ collects \in BOOLEAN /\ progressed \in BOOLEAN /\ forbidden \in BOOLEAN
    BY Zenon DEF Permitted
<1>5. found \in Evidence
    BY <1>1, SourceTyped
<1>0. PICK l : l = advanced
    OBVIOUS
<1>6. n = IF ~granted THEN called
          ELSE IF l.stopReason = None THEN [called EXCEPT !.loop = l]
          ELSE Stopped([called EXCEPT !.loop = l], l.stopReason)
    BY Zenon, <1>0 DEF CallTool
<1> HIDE DEF skill, tool, granted, collects, found, repeats, progressed, advanced, forbidden
<1>7. call \in ToolCalls /\ call.granted = granted
    BY <1>2, <1>3, <1>4 DEF ToolCalls
<1>8. evidence \in Seq(Evidence)
    BY <1>1, <1>5, AppendProperties
<1>9. called \in RunRecords
  <2>1. a \in RunRecords
    <3>1. Append(r.calls, call) \in Seq(ToolCalls)
      BY <1>1, <1>7, AppendProperties
    <3> QED
      BY <1>1, <3>1, RunUpdates
  <2>2. b \in RunRecords
    <3> HIDE DEF a
    <3> QED
      BY <1>3, <2>1, RunUpdates
  <2>3. c \in RunRecords
    <3> HIDE DEF b, evidence
    <3> QED
      BY <1>8, <2>2, RunUpdates
  <2> HIDE DEF c
  <2> QED
    BY <1>4, <2>3, RunUpdates
<1>10. /\ called.stage = r.stage /\ called.status = r.status /\ called.id = r.id
       /\ called.calls = Append(r.calls, call) /\ called.step = r.step /\ called.loop = r.loop
       /\ called.request = r.request /\ called.skills = r.skills /\ called.stopReason = r.stopReason
  <2> HIDE DEF call, evidence
  <2> QED
    BY <1>1 DEF RunRecords
<1>11. /\ Cardinality(Granted(r)) \in Nat
       /\ ~granted => Cardinality(Granted(called)) = Cardinality(Granted(r))
       /\ granted => Cardinality(Granted(called)) = Cardinality(Granted(r)) + 1
  <2> HIDE DEF call, called
  <2>1. /\ Cardinality(Granted(r)) \in Nat
        /\ call.granted => Cardinality(Granted(called)) = Cardinality(Granted(r)) + 1
        /\ ~call.granted => Cardinality(Granted(called)) = Cardinality(Granted(r))
    <3>1. r.calls \in Seq(ToolCalls) /\ call \in ToolCalls /\ called.calls = Append(r.calls, call)
      BY <1>1, <1>7, <1>10
    <3> QED
      BY <3>1, GrantedCounted
  <2> QED
    BY Zenon, <1>7, <2>1
<1> HIDE DEF called, call, evidence
<1>12. CASE ~granted
  <2>1. n = called
    BY <1>6, <1>12
  <2>2. Bounded(n)
    BY <1>1, <1>10, <1>11, <1>12, <2>1 DEF Sound, Bounded
  <2>3. FollowsPlan(n)
    BY <1>10, <2>1 DEF Sound, FollowsPlan
  <2> QED
    BY <1>1, <1>9, <1>10, <2>1, <2>2, <2>3 DEF Sound, Ended
<1>13. CASE granted
  <2> DEFINE d == [called EXCEPT !.loop = l]
  <2>1. source \in Sources \cup {Unsigned}
    BY <1>5 DEF Evidence
  <2>2. signature \in ToolNames \X Skills /\ signature # Unsigned
    BY <1>2, <1>3 DEF Unsigned
  <2> HIDE DEF signature, source
  <2>3. /\ l \in LoopStates /\ l.stepsTaken = r.loop.stepsTaken + 1
        /\ l.toolCallsMade = r.loop.toolCallsMade + 1
        /\ l.stopReason \in LoopStops \cup {None}
        /\ l.stopReason = None => /\ l.stepsTaken < r.request.maxSteps
                                  /\ l.toolCallsMade < r.request.maxToolCalls
    <3>1. PICK loop \in LoopStates, q \in Request : loop = r.loop /\ q = r.request
      BY <1>1
    <3>2. l = AdvanceLoopControl(loop, q, signature, source, progressed, FALSE)
      BY <1>0, <3>1 DEF advanced
    <3>3. signature \in (ToolNames \X Skills) \cup {Unsigned} /\ progressed \in BOOLEAN
      BY <1>4, <2>2
    <3>4. Advanced(loop, l, q, 1)
      BY <2>1, <2>2, <3>2, <3>3, LoopAdvances
    <3> QED
      BY <3>1, <3>4 DEF Advanced
  <2>4. d \in RunRecords
    BY <1>9, <2>3, RunUpdates
  <2>5. /\ d.stage = r.stage /\ d.status = r.status /\ d.id = r.id /\ d.calls = called.calls
        /\ d.step = r.step /\ d.loop = l /\ d.request = r.request /\ d.skills = r.skills
        /\ d.stopReason = r.stopReason
    BY <1>9, <1>10 DEF RunRecords
  <2>6. /\ d.loop.toolCallsMade = Cardinality(Granted(d))
        /\ d.loop.stepsTaken <= 1 \/ d.loop.stepsTaken <= d.request.maxSteps
        /\ d.loop.toolCallsMade <= 1 \/ d.loop.toolCallsMade <= d.request.maxToolCalls
    <3>1. r.loop.toolCallsMade = Cardinality(Granted(r)) /\ Granted(d) = Granted(called)
      BY <2>5 DEF Sound, Bounded, Granted
    <3>2. /\ r.loop.stepsTaken \in Nat /\ r.loop.toolCallsMade \in Nat
          /\ r.request.maxSteps \in Nat /\ r.request.maxToolCalls \in Nat
      BY <1>1 DEF LoopStates, Request
    <3> QED
      BY <1>1, <1>11, <1>13, <2>3, <2>5, <3>1, <3>2 DEF BelowCeilings
  <2> HIDE DEF d
  <2>7. CASE l.stopReason = None
    <3>1. n = d
      BY <1>6, <1>13, <2>7 DEF d
    <3>2. Bounded(n)
      BY <1>1, <2>3, <2>5, <2>6, <2>7, <3>1 DEF Bounded, BelowCeilings
    <3>3. FollowsPlan(n)
      BY <2>5, <3>1 DEF Sound, FollowsPlan
    <3> QED
      BY <1>1, <2>4, <2>5, <3>1, <3>2, <3>3 DEF Sound, Ended
  <2>8. CASE l.stopReason # None
    <3>1. n = Stopped(d, l.stopReason)
      BY <1>6, <1>13, <2>8 DEF d
    <3> QED
      BY <1>1, <2>3, <2>4, <2>5, <2>6, <2>8, <3>1, StoppedSound DEF Sound, FollowsPlan
  <2> QED
    BY <2>7, <2>8
<1> QED
    BY <1>12, <1>13

LEMMA FinishSound ==
    ASSUME NEW r, Sound(r), r.stage = "tools", NEW n, n = FinishStep(r)
    PROVE  Sound(n) /\ n.id = r.id
<1>1. /\ r \in RunRecords /\ r.loop \in LoopStates /\ r.step \in 1..5 /\ r.request \in Request
      /\ r.stopReason = None /\ BelowCeilings(r.loop, r.request) /\ r.status = None
    BY DEF Sound, RunRecords, Bounded, Active, Ended
<1>2. PICK loop \in LoopStates, q \in Request : loop = r.loop /\ q = r.request
    BY <1>1
<1>3. PICK l : l = AdvanceLoopControl(loop, q, Unsigned, Unsigned, TRUE, FALSE)
    OBVIOUS
<1>4. Advanced(loop, l, q, 0)
    BY <1>3, LoopAdvances
<1>5. l \in LoopStates
    BY <1>4 DEF Advanced
<1> DEFINE d == [r EXCEPT !.loop = l]
<1>6. n = IF l.stopReason # None THEN Stopped(d, l.stopReason)
          ELSE IF r.step = 5 THEN [d EXCEPT !.stage = "evaluating"]
          ELSE [d EXCEPT !.stage = "skill", !.step = r.step + 1]
    BY Zenon, <1>2, <1>3, PipelineSkills DEF FinishStep
<1>7. d \in RunRecords
    BY <1>1, <1>5, RunUpdates
<1>8. /\ d.stage = r.stage /\ d.status = r.status /\ d.id = r.id /\ d.calls = r.calls
      /\ d.step = r.step /\ d.loop = l /\ d.request = r.request /\ d.skills = r.skills
      /\ d.stopReason = r.stopReason
    BY <1>1 DEF RunRecords
<1>9. /\ d.loop.toolCallsMade = Cardinality(Granted(d))
      /\ d.loop.stepsTaken <= 1 \/ d.loop.stepsTaken <= d.request.maxSteps
      /\ d.loop.toolCallsMade <= 1 \/ d.loop.toolCallsMade <= d.request.maxToolCalls
  <2>1. /\ loop.toolCallsMade = Cardinality(Granted(r)) /\ Granted(d) = Granted(r)
        /\ loop.toolCallsMade <= 1 \/ loop.toolCallsMade <= q.maxToolCalls
    BY <1>2, <1>8 DEF Sound, Bounded, Granted
  <2>2. /\ loop.stepsTaken \in Nat /\ loop.toolCallsMade \in Nat
        /\ q.maxSteps \in Nat /\ q.maxToolCalls \in Nat
    BY DEF LoopStates, Request
  <2> QED
    BY <1>1, <1>2, <1>4, <1>8, <2>1, <2>2 DEF BelowCeilings, Advanced
<1> HIDE DEF d
<1>10. CASE l.stopReason # None
  <2>1. n = Stopped(d, l.stopReason) /\ l.stopReason \in LoopStops
    BY <1>4, <1>6, <1>10 DEF Advanced
  <2> QED
    BY <1>1, <1>7, <1>8, <1>9, <2>1, StoppedSound DEF Sound, FollowsPlan
<1>11. CASE l.stopReason = None /\ r.step = 5
  <2>1. n = [d EXCEPT !.stage = "evaluating"]
    BY <1>6, <1>11
  <2>2. n \in RunRecords
    <3>1. "evaluating" \in Stages
      BY DEF Stages
    <3>2. [d EXCEPT !.stage = "evaluating"] \in RunRecords
      BY <1>7, <3>1, RunUpdates
    <3> QED
      BY <2>1, <3>2
  <2>3. /\ n.stage = "evaluating" /\ n.status = d.status /\ n.id = d.id /\ n.calls = d.calls
        /\ n.step = d.step /\ n.loop = d.loop /\ n.request = d.request /\ n.skills = d.skills
        /\ n.stopReason = d.stopReason
    BY <1>7, <2>1 DEF RunRecords
  <2>4. Bounded(n)
    BY <1>9, <2>3 DEF Bounded, Granted, Active
  <2>5. FollowsPlan(n)
    BY <1>1, <1>8, <1>11, <2>3 DEF Sound, FollowsPlan
  <2> QED
    BY <1>1, <1>8, <2>2, <2>3, <2>4, <2>5 DEF Sound, Ended
<1>12. CASE l.stopReason = None /\ r.step # 5
  <2> DEFINE e == [d EXCEPT !.stage = "skill"]
  <2>1. n = [e EXCEPT !.step = r.step + 1]
    BY Zenon, <1>6, <1>12
  <2>2. e \in RunRecords
    <3>1. "skill" \in Stages
      BY DEF Stages, Active
    <3> QED
      BY <1>7, <3>1, RunUpdates
  <2>3. n \in RunRecords
    <3>1. r.step + 1 \in 1..5
      BY <1>1, <1>12
    <3> HIDE DEF e
    <3> QED
      BY <2>1, <2>2, <3>1, RunUpdates
  <2>4. /\ n.stage = "skill" /\ n.status = d.status /\ n.id = d.id /\ n.calls = d.calls
        /\ n.step = r.step + 1 /\ n.loop = d.loop /\ n.request = d.request /\ n.skills = d.skills
        /\ n.stopReason = d.stopReason
    BY <1>6, <1>7, <1>12 DEF RunRecords
  <2>5. Bounded(n)
    <3>1. BelowCeilings(n.loop, n.request)
      BY <1>2, <1>4, <1>8, <1>12, <2>4 DEF Advanced, BelowCeilings
    <3> QED
      BY <1>1, <1>8, <1>9, <2>4, <3>1 DEF Bounded, Granted
  <2>6. FollowsPlan(n)
    <3>1. r.skills = SkillsUpTo(r.step) /\ n.step - 1 = r.step
      BY <1>1, <2>4 DEF Sound, FollowsPlan
    <3> QED
      BY <1>8, <2>4, <3>1 DEF Sound, FollowsPlan
  <2> QED
    BY <1>1, <1>8, <2>3, <2>4, <2>5, <2>6 DEF Sound, Ended
<1> QED
    BY <1>1, <1>10, <1>11, <1>12

LEMMA Worst ==
    ASSUME NEW S \in SUBSET Outcomes
    PROVE  /\ WorstOf(S) \in S \cup {"PASS"}
           /\ \A o \in S : Rank[o] <= Rank[WorstOf(S)]
<1> DEFINE T == S \cup {"PASS"}
           IsWorst(o) == \A p \in T : Rank[p] <= Rank[o]
<1>1. Rank["PASS"] = 0 /\ Rank["FIX"] = 1 /\ Rank["ESCALATE"] = 2 /\ Rank["FAIL"] = 3
    BY DEF Rank
<1>2. T \subseteq Outcomes
    BY DEF Outcomes
<1>3. \E o \in T : IsWorst(o)
  <2>1. CASE "FAIL" \in T
    BY <1>1, <1>2, <2>1 DEF Outcomes
  <2>2. CASE "FAIL" \notin T /\ "ESCALATE" \in T
    BY <1>1, <1>2, <2>2 DEF Outcomes
  <2>3. CASE {"FAIL", "ESCALATE"} \cap T = {} /\ "FIX" \in T
    BY <1>1, <1>2, <2>3 DEF Outcomes
  <2>4. CASE {"FAIL", "ESCALATE", "FIX"} \cap T = {}
    BY <1>1, <1>2, <2>4 DEF Outcomes
  <2> QED
    BY <2>1, <2>2, <2>3, <2>4
<1>4. WorstOf(S) \in T /\ IsWorst(WorstOf(S))
  <2>1. WorstOf(S) = CHOOSE o \in T : IsWorst(o)
    BY DEF WorstOf
  <2> HIDE DEF T, IsWorst
  <2> QED
    BY Zenon, <1>3, <2>1
<1> QED
    BY <1>4

\* The gate passes only what the evaluation passes, and escalates without an authority.
LEMMA GateIsStrict ==
    ASSUME NEW r, r.evidence \in Seq(Evidence), r.request \in Request, r.forbidden \in BOOLEAN,
           NEW e, e = EvaluateRun(r),
           NEW g, g = GovernanceGate(r, WorstOf({e[d] : d \in DOMAIN e}))
    PROVE  /\ e \in Evaluations /\ g \in Statuses \ {"FAILED", None}
           /\ g = "READY_FOR_AUTHORITY_REVIEW" =>
                /\ Len(r.evidence) >= Expected(r)
                /\ \A i \in DOMAIN r.evidence : r.evidence[i].quality \in {"HIGH", "MEDIUM"}
                /\ r.request.authority /\ r.request.risk # "high"
                /\ ~r.request.write /\ ~r.request.external
                /\ r.loop.stopReason \notin {"LOOP_DETECTED", "NO_PROGRESS"}
           /\ ~r.request.authority => g \in {"BLOCKED", "ESCALATE_REQUIRED"}
<1> DEFINE covered == Len(r.evidence)
           Low == {i \in DOMAIN r.evidence : r.evidence[i].quality \in {"LOW", "UNKNOWN"}}
           low == Cardinality(Low)
           S == {e[d] : d \in DOMAIN e}
           w == WorstOf(S)
<1>1. covered \in Nat /\ DOMAIN r.evidence = 1..covered
    BY LenProperties
<1>2. IsFiniteSet(Low) /\ low \in Nat
  <2>1. IsFiniteSet(1..covered)
    <3>1. covered \in Int
      BY <1>1
    <3> HIDE DEF covered
    <3> QED
      BY <3>1, FS_Interval
  <2>2. Low \in SUBSET (1..covered)
    BY <1>1
  <2> HIDE DEF Low
  <2> QED
    BY <2>1, <2>2, FS_Subset, FS_CardinalityType
<1>3. e = [accuracy |-> IF covered = 0 THEN "FAIL" ELSE IF covered < Expected(r) THEN "FIX" ELSE "PASS",
           grounding |-> IF 2 * low > covered THEN "ESCALATE" ELSE IF low > 0 THEN "FIX" ELSE "PASS",
           authority_safety |-> IF r.request.authority THEN "PASS" ELSE "ESCALATE",
           action_safety |-> IF r.forbidden THEN "FAIL" ELSE "PASS",
           failure_handling |-> IF r.loop.stopReason \in {"LOOP_DETECTED", "NO_PROGRESS"}
                                THEN "FAIL" ELSE "PASS"]
    BY Zenon DEF EvaluateRun, HasAuthorityHolder
<1>4. S = {e.accuracy, e.grounding, e.authority_safety, e.action_safety, e.failure_handling}
    BY <1>3
<1> HIDE DEF covered, low
<1>5. e \in Evaluations
    BY <1>3 DEF Evaluations, Outcomes
<1>6. S \in SUBSET Outcomes
    BY <1>4, <1>5 DEF Evaluations
<1>7. Rank["PASS"] = 0 /\ Rank["FIX"] = 1 /\ Rank["ESCALATE"] = 2 /\ Rank["FAIL"] = 3
    BY DEF Rank
<1> HIDE DEF S
<1>8. w \in S \cup {"PASS"} /\ \A o \in S : Rank[o] <= Rank[w]
    BY <1>6, Worst
<1>9. w = "PASS" \/ w = "FIX" \/ w = "ESCALATE" \/ w = "FAIL"
    BY <1>6, <1>8 DEF Outcomes
<1>10. g = GovernanceGate(r, w)
    BY DEF S
<1> HIDE DEF w
<1>11. /\ w = "FAIL" => g = "BLOCKED"
       /\ w = "ESCALATE" => g = "ESCALATE_REQUIRED"
       /\ w = "FIX" => g = "REPAIR_REQUIRED"
       /\ w = "PASS" => g = IF /\ ~r.request.write /\ ~r.request.external /\ r.request.risk # "high"
                               /\ Len(r.evidence) >= Expected(r) /\ r.request.authority
                            THEN "READY_FOR_AUTHORITY_REVIEW" ELSE "GOVERNANCE_REVIEW_REQUIRED"
    BY Zenon, <1>10 DEF GovernanceGate
<1>12. g \in Statuses \ {"FAILED", None}
    BY <1>9, <1>11 DEF Statuses, None
<1>13. ASSUME ~r.request.authority PROVE g \in {"BLOCKED", "ESCALATE_REQUIRED"}
  <2>1. e.authority_safety = "ESCALATE"
    BY <1>3, <1>13
  <2>2. Rank[w] >= 2
    BY <1>4, <1>7, <1>8, <1>9, <2>1
  <2> QED
    BY <1>7, <1>9, <1>11, <2>2
<1>14. ASSUME g = "READY_FOR_AUTHORITY_REVIEW"
       PROVE  /\ Len(r.evidence) >= Expected(r)
              /\ \A i \in DOMAIN r.evidence : r.evidence[i].quality \in {"HIGH", "MEDIUM"}
              /\ r.request.authority /\ r.request.risk # "high"
              /\ ~r.request.write /\ ~r.request.external
              /\ r.loop.stopReason \notin {"LOOP_DETECTED", "NO_PROGRESS"}
  <2>1. w = "PASS"
    BY <1>9, <1>11, <1>14
  <2>2. S \subseteq {"PASS"}
    BY <1>6, <1>7, <1>8, <2>1 DEF Outcomes
  <2>3. e.grounding = "PASS" /\ e.failure_handling = "PASS"
    BY <1>4, <2>2
  <2>4. low = 0
    BY <1>2, <1>3, <2>3
  <2>5. Low = {}
    BY <1>2, <2>4, FS_EmptySet DEF low
  <2>6. \A i \in DOMAIN r.evidence : r.evidence[i].quality \in {"HIGH", "MEDIUM"}
    <3>1. \A i \in DOMAIN r.evidence : r.evidence[i] \in Evidence
      BY ElementOfSeq, <1>1 DEF covered
    <3> QED
      BY <2>5, <3>1 DEF Evidence
  <2>7. r.loop.stopReason \notin {"LOOP_DETECTED", "NO_PROGRESS"}
    BY <1>3, <2>3
  <2> QED
    BY <1>11, <1>14, <2>1, <2>6, <2>7
<1> QED
    BY <1>5, <1>12, <1>13, <1>14

LEMMA ConcludeSound ==
    ASSUME NEW r, Sound(r), r.stage = "evaluating", NEW n, n = Conclude(r)
    PROVE  Sound(n) /\ n.id = r.id
<1> DEFINE e == EvaluateRun(r)
           g == GovernanceGate(r, WorstOf({e[d] : d \in DOMAIN e}))
           s == FinalStatus(r.stopReason, g)
           reason == IF r.stopReason = None THEN "COMPLETED" ELSE r.stopReason
           a == [r EXCEPT !.stage = "ended"]
           b == [a EXCEPT !.evaluation = e]
           c == [b EXCEPT !.gate = g]
           d == [c EXCEPT !.status = s]
<1>1. /\ r \in RunRecords /\ r.evidence \in Seq(Evidence) /\ r.request \in Request /\ r.forbidden \in BOOLEAN
      /\ r.stopReason \in LoopStops \cup {"AUTHORITY_REQUIRED", None}
    BY DEF Sound, RunRecords, FollowsPlan
<1>2. n = [d EXCEPT !.stopReason = reason]
    BY Zenon DEF Conclude
<1>3. /\ e \in Evaluations /\ g \in Statuses \ {"FAILED", None}
      /\ g = "READY_FOR_AUTHORITY_REVIEW" =>
            /\ Len(r.evidence) >= Expected(r)
            /\ \A i \in DOMAIN r.evidence : r.evidence[i].quality \in {"HIGH", "MEDIUM"}
            /\ r.request.authority /\ r.request.risk # "high"
            /\ ~r.request.write /\ ~r.request.external
      /\ ~r.request.authority => g \in {"BLOCKED", "ESCALATE_REQUIRED"}
    BY <1>1, GateIsStrict
<1> HIDE DEF e, g
<1>4. /\ r.stopReason \in LoopStops => s = "FAILED"
      /\ r.stopReason = "AUTHORITY_REQUIRED" => s = "ESCALATE_REQUIRED"
      /\ r.stopReason = None => s = g
    BY Zenon DEF FinalStatus, LoopStops, None
<1> HIDE DEF s
<1>5. s \in Statuses
    BY <1>1, <1>3, <1>4 DEF Statuses
<1>6. reason \in StopReasons
    BY <1>1 DEF LoopStops, StopReasons, None
<1> HIDE DEF reason
<1>7. a \in RunRecords
    BY <1>1, RunUpdates DEF Stages
<1>8. b \in RunRecords
  <2> HIDE DEF a
  <2> QED
    BY <1>3, <1>7, RunUpdates
<1>9. c \in RunRecords
  <2> HIDE DEF b
  <2> QED
    BY <1>3, <1>8, RunUpdates
<1>10. d \in RunRecords
  <2> HIDE DEF c
  <2> QED
    BY <1>5, <1>9, RunUpdates
<1>11. n \in RunRecords
  <2> HIDE DEF d
  <2> QED
    BY <1>2, <1>6, <1>10, RunUpdates
<1>12. /\ n.stage = "ended" /\ n.status = s /\ n.id = r.id /\ n.calls = r.calls /\ n.loop = r.loop
       /\ n.request = r.request /\ n.skills = r.skills /\ n.stopReason = reason
       /\ n.evidence = r.evidence
    BY <1>1, <1>2 DEF RunRecords
<1> HIDE DEF a, b, c, d
<1>13. Bounded(n)
    BY <1>12 DEF Sound, Bounded, Granted, Active
<1>14. FollowsPlan(n)
    BY <1>12 DEF Sound, FollowsPlan
<1>15. EndFits(n)
  <2>1. ASSUME s = "READY_FOR_AUTHORITY_REVIEW"
        PROVE  reason = "COMPLETED" /\ g = s /\ r.skills = SkillsUpTo(5)
    <3>1. r.stopReason = None
      BY <1>1, <1>4, <2>1
    <3> QED
      BY <1>4, <3>1 DEF Sound, FollowsPlan, reason
  <2>2. ~r.request.authority => s \in {"BLOCKED", "ESCALATE_REQUIRED", "FAILED"}
    BY <1>1, <1>3, <1>4
  <2> QED
    BY <1>3, <1>12, <2>1, <2>2 DEF EndFits, Expected
<1> QED
    BY <1>11, <1>12, <1>13, <1>14, <1>15 DEF Sound, Ended

\* Saving a run changes nothing of it but its stage.
LEMMA SavedSound ==
    ASSUME NEW r, Sound(r), Ended(r), NEW stage \in {"saving", "saved"}, NEW n, n = [r EXCEPT !.stage = stage]
    PROVE  Sound(n) /\ n.id = r.id
<1>1. r \in RunRecords
    BY DEF Sound
<1>2. n \in RunRecords
  <2>1. stage \in Stages
    BY DEF Stages
  <2>2. [r EXCEPT !.stage = stage] \in RunRecords
    BY <1>1, <2>1, RunUpdates
  <2> QED
    BY <2>2
<1>3. /\ n.stage = stage /\ n.status = r.status /\ n.id = r.id /\ n.calls = r.calls /\ n.loop = r.loop
      /\ n.request = r.request /\ n.skills = r.skills /\ n.stopReason = r.stopReason
      /\ n.evidence = r.evidence
    BY <1>1 DEF RunRecords
<1>4. Bounded(n)
    BY <1>3 DEF Sound, Bounded, Granted, Active
<1>5. FollowsPlan(n)
    BY <1>3 DEF Sound, FollowsPlan
<1>6. EndFits(n)
    BY <1>3 DEF Sound, EndFits, Expected
<1> QED
    BY <1>2, <1>3, <1>4, <1>5, <1>6 DEF Sound, Ended
-----------------------------------------------------------------------------
(* The invariant.                                                          *)

\* The inductive invariant holds at every step of every interleaving of the tabs:
\* runtime/agent-engine.ts executes a run and local-run-store.ts saves it.
THEOREM ResearchInvariant == Spec => []ResearchInv
<1>1. Init => ResearchInv
  <2>1. ASSUME Init PROVE ResearchInv
    <3>1. queue \in [Tabs -> Seq(Request)]
      BY <2>1, ResearchAssumption DEF Init
    <3>2. store = {} /\ IsFiniteSet({})
      BY <2>1, FS_EmptySet DEF Init
    <3> QED
      BY <2>1, <3>1, <3>2 DEF Init, ResearchInv, UniqueIds, Idle
  <2> QED
    BY <2>1
<1>2. ResearchInv /\ [Next]_vars => ResearchInv'
  <2> SUFFICES ASSUME ResearchInv, [Next]_vars PROVE ResearchInv'
    OBVIOUS
  <2>1. ASSUME NEW t \in Tabs, NEW n, Sound(n), run' = [run EXCEPT ![t] = n],
               queue' \in [Tabs -> Seq(Request)], UNCHANGED <<store, read>>
        PROVE  ResearchInv'
    <3>1. run' \in [Tabs -> {run'[u] : u \in Tabs}] /\ \A u \in Tabs : run'[u] = IF u = t THEN n ELSE run[u]
      BY <2>1 DEF ResearchInv
    <3>2. \A u \in Tabs : run'[u] # Idle => Sound(run'[u])
      BY <2>1, <3>1 DEF ResearchInv
    <3> QED
      BY <2>1, <3>1, <3>2 DEF ResearchInv
  <2>2. ASSUME NEW t \in Tabs, NEW n, Sound(n), Advance(t, n)
        PROVE  ResearchInv'
    BY <2>1, <2>2 DEF Advance, ResearchInv
  <2>3. ASSUME NEW t \in Tabs, NEW stage, InStage(t, stage)
        PROVE  Sound(run[t]) /\ run[t].stage = stage
    BY <2>3 DEF InStage, ResearchInv
  <2>4. ASSUME NEW t \in Tabs, Submit(t) PROVE ResearchInv'
    <3>1. Cardinality(store) + 1 \in Nat \ {0}
      <4>1. Cardinality(store) \in Nat
        BY FS_CardinalityType DEF ResearchInv
      <4> QED
        BY <4>1
    <3>2. queue[t] \in Seq(Request) /\ queue[t] # <<>>
      BY <2>4 DEF Submit, ResearchInv
    <3>3. Head(queue[t]) \in Request /\ Tail(queue[t]) \in Seq(Request)
      BY <3>2, HeadTailProperties
    <3>4. queue' \in [Tabs -> Seq(Request)]
      BY <2>4, <3>3 DEF Submit, ResearchInv
    <3>5. Sound(NewRun(Cardinality(store) + 1, Head(queue[t])))
      BY <3>1, <3>3, NewRunSound
    <3> QED
      BY <2>1, <2>4, <3>4, <3>5 DEF Submit
  <2>5. ASSUME NEW t \in Tabs, Plan(t) PROVE ResearchInv'
    BY <2>2, <2>3, <2>5, PlanSound DEF Plan
  <2>6. ASSUME NEW t \in Tabs, Select(t) PROVE ResearchInv'
    BY <2>2, <2>3, <2>6, SelectSound DEF Select
  <2>7. ASSUME NEW t \in Tabs, Call(t) PROVE ResearchInv'
    BY <2>2, <2>3, <2>7, CallSound DEF Call
  <2>8. ASSUME NEW t \in Tabs, Finish(t) PROVE ResearchInv'
    BY <2>2, <2>3, <2>8, FinishSound DEF Finish
  <2>9. ASSUME NEW t \in Tabs, Evaluate(t) PROVE ResearchInv'
    BY <2>2, <2>3, <2>9, ConcludeSound DEF Evaluate
  <2>10. ASSUME NEW t \in Tabs, ReadStore(t) PROVE ResearchInv'
    <3> DEFINE n == [run[t] EXCEPT !.stage = "saving"]
    <3>1. Sound(run[t]) /\ Ended(run[t])
      BY <2>3, <2>10 DEF ReadStore, Ended
    <3>2. Sound(n)
      BY <3>1, SavedSound
    <3>3. run' = [run EXCEPT ![t] = n] /\ store' = store /\ queue' = queue
      BY <2>10 DEF ReadStore
    <3> HIDE DEF n
    <3>4. run' \in [Tabs -> {run'[u] : u \in Tabs}] /\ \A u \in Tabs : run'[u] = IF u = t THEN n ELSE run[u]
      BY <3>3 DEF ResearchInv
    <3>5. \A u \in Tabs : run'[u] # Idle => Sound(run'[u])
      BY <3>2, <3>4 DEF ResearchInv
    <3>6. read' \in [Tabs -> {read'[u] : u \in Tabs}] /\ \A u \in Tabs : read'[u] = IF u = t THEN store ELSE read[u]
      BY <2>10 DEF ReadStore, ResearchInv
    <3>7. \A u \in Tabs : /\ \A r \in read'[u] : Sound(r)
                          /\ IsFiniteSet(read'[u]) /\ UniqueIds(read'[u])
      BY <3>6 DEF ResearchInv
    <3> QED
      BY <3>3, <3>4, <3>5, <3>6, <3>7 DEF ResearchInv
  <2>11. ASSUME NEW t \in Tabs, WriteStore(t) PROVE ResearchInv'
    <3> DEFINE n == [run[t] EXCEPT !.stage = "saved"]
    <3>1. Sound(run[t]) /\ Ended(run[t])
      BY <2>3, <2>11 DEF WriteStore, Ended
    <3>2. Sound(n)
      BY <3>1, SavedSound
    <3>3. run' = [run EXCEPT ![t] = n] /\ queue' = queue
      BY <2>11 DEF WriteStore
    <3> HIDE DEF n
    <3>4. run' \in [Tabs -> {run'[u] : u \in Tabs}] /\ \A u \in Tabs : run'[u] = IF u = t THEN n ELSE run[u]
      BY <3>3 DEF ResearchInv
    <3>5. \A u \in Tabs : run'[u] # Idle => Sound(run'[u])
      BY <3>2, <3>4 DEF ResearchInv
    <3>6. store' = {s \in read[t] : s.id # n.id} \cup {n}
      BY <2>11, <3>4 DEF WriteStore, WithRun
    <3>7. /\ \A r \in read[t] : Sound(r)
          /\ IsFiniteSet(read[t]) /\ UniqueIds(read[t])
      BY DEF ResearchInv
    <3>8. \A r \in store' : Sound(r)
      BY <3>2, <3>6, <3>7
    <3>9. UniqueIds(store')
      BY <3>6, <3>7 DEF UniqueIds
    <3>10. IsFiniteSet(store')
      BY <3>6, <3>7, FS_Subset, FS_AddElement
    <3>11. read' \in [Tabs -> {read'[u] : u \in Tabs}] /\ \A u \in Tabs : read'[u] = IF u = t THEN {} ELSE read[u]
      BY <2>11 DEF WriteStore, ResearchInv
    <3>12. \A u \in Tabs : /\ \A r \in read'[u] : Sound(r)
                           /\ IsFiniteSet(read'[u]) /\ UniqueIds(read'[u])
      BY <3>11, FS_EmptySet DEF ResearchInv, UniqueIds
    <3> QED
      BY <3>3, <3>4, <3>5, <3>8, <3>9, <3>10, <3>11, <3>12 DEF ResearchInv
  <2>12. ASSUME NEW t \in Tabs, Show(t) PROVE ResearchInv'
    <3>1. run' \in [Tabs -> {run'[u] : u \in Tabs}] /\ \A u \in Tabs : run'[u] = IF u = t THEN Idle ELSE run[u]
      BY <2>12 DEF Show, ResearchInv
    <3> QED
      BY <2>12, <3>1 DEF Show, ResearchInv
  <2>13. ASSUME NEW t \in Tabs, Reset(t) PROVE ResearchInv'
    BY <2>13, FS_EmptySet DEF Reset, ResearchInv, UniqueIds
  <2>14. CASE UNCHANGED vars
    BY <2>14 DEF vars, ResearchInv
  <2> QED
    BY <2>4, <2>5, <2>6, <2>7, <2>8, <2>9, <2>10, <2>11, <2>12, <2>13, <2>14 DEF Next, Handler
<1> QED
  BY <1>1, <1>2, PTL DEF Spec

\* Every run, executed or stored, is sound.
LEMMA RunsAreSound ==
    ASSUME ResearchInv
    PROVE  \A r \in Runs : Sound(r)
BY DEF ResearchInv, Runs

LEMMA LargerThanOne ==
    ASSUME NEW n \in Nat
    PROVE  Max({1, n}) \in Nat /\ Max({1, n}) >= 1 /\ Max({1, n}) >= n
<1>1. \E x \in {1, n} : \A y \in {1, n} : x >= y
  <2>1. CASE n >= 1
    BY <2>1
  <2>2. CASE n = 0
    BY <2>2
  <2> QED
    BY <2>1, <2>2
<1>2. Max({1, n}) \in {1, n} /\ \A y \in {1, n} : Max({1, n}) >= y
    BY <1>1 DEF Max
<1> QED
    BY <1>2

\* CeilingsHold, for every request, ceilings of 0 included: runtime/loop-controller.ts
\* bounds the calls that are granted and the steps that are taken.
THEOREM RunCeilings == Spec => []CeilingsHold
<1>1. ResearchInv => CeilingsHold
  <2> SUFFICES ASSUME ResearchInv, NEW r \in Runs
               PROVE  /\ Cardinality(Granted(r)) <= Max({1, r.request.maxToolCalls})
                      /\ r.loop.stepsTaken <= Max({1, r.request.maxSteps})
                      /\ r.loop.toolCallsMade = Cardinality(Granted(r))
    BY DEF CeilingsHold
  <2>1. Bounded(r) /\ r.request \in Request /\ r.loop \in LoopStates
    BY RunsAreSound DEF Sound, RunRecords
  <2>2. /\ r.request.maxToolCalls \in Nat /\ r.request.maxSteps \in Nat
        /\ r.loop.stepsTaken \in Nat /\ r.loop.toolCallsMade \in Nat
    BY <2>1 DEF Request, LoopStates
  <2>3. /\ Max({1, r.request.maxToolCalls}) \in Nat /\ Max({1, r.request.maxToolCalls}) >= 1
        /\ Max({1, r.request.maxToolCalls}) >= r.request.maxToolCalls
        /\ Max({1, r.request.maxSteps}) \in Nat /\ Max({1, r.request.maxSteps}) >= 1
        /\ Max({1, r.request.maxSteps}) >= r.request.maxSteps
    BY <2>2, LargerThanOne
  <2> QED
    BY <2>1, <2>2, <2>3 DEF Bounded
<1> QED
  BY <1>1, ResearchInvariant, PTL

\* ReadyIsEarned: no status is computed for a review that the run has not earned, by
\* agent-engine.ts, loop-controller.ts, evaluator.ts and governance-gate.ts together.
THEOREM ReadyRunsEarned == Spec => []ReadyIsEarned
<1>1. ResearchInv => ReadyIsEarned
  <2> SUFFICES ASSUME ResearchInv, NEW r \in Runs, r.status = "READY_FOR_AUTHORITY_REVIEW"
               PROVE  /\ r.stopReason = "COMPLETED" /\ r.skills = ToSet(Pipeline)
                      /\ Len(r.evidence) >= Expected(r)
                      /\ \A e \in ToSet(r.evidence) : e.quality \in {"HIGH", "MEDIUM"}
                      /\ r.request.authority /\ r.request.risk # "high"
                      /\ ~r.request.write /\ ~r.request.external
    BY DEF ReadyIsEarned
  <2>1. Sound(r) /\ Ended(r)
    BY RunsAreSound DEF Sound, None
  <2>2. EndFits(r)
    BY <2>1 DEF Sound
  <2> QED
    BY <2>2, PipelineSkills DEF EndFits, ToSet
<1> QED
  BY <1>1, ResearchInvariant, PTL

\* NoAuthorityNoReview: planner.ts, skill-registry.ts, evaluator.ts and agent-engine.ts
\* agree on what a request without an authority holder may reach.
THEOREM NoReviewWithoutAuthority == Spec => []NoAuthorityNoReview
<1>1. ResearchInv => NoAuthorityNoReview
  <2> SUFFICES ASSUME ResearchInv, NEW r \in Runs, ~r.request.authority
               PROVE  /\ {"risk", "drafting"} \cap r.skills = {}
                      /\ Ended(r) => r.status \in {"BLOCKED", "ESCALATE_REQUIRED", "FAILED"}
    BY DEF NoAuthorityNoReview
  <2> QED
    BY RunsAreSound DEF Sound, FollowsPlan, EndFits
<1> QED
  BY <1>1, ResearchInvariant, PTL

\* StoredIdsUnique: whatever the tabs read before they write, saveLocalRun of
\* local-run-store.ts never leaves two runs of one identifier in the store.
THEOREM StoredRunsDiffer == Spec => []StoredIdsUnique
<1>1. ResearchInv => StoredIdsUnique
  BY DEF ResearchInv, UniqueIds, StoredIdsUnique
<1> QED
  BY <1>1, ResearchInvariant, PTL
=============================================================================
