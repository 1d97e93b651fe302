--------------------------- MODULE HostServicesProofs ---------------------------
(***************************************************************************)
(* What TLAPS proves of HostServices, for any sets of jobs, conversations, *)
(* messages, plans, calls and missions that satisfy its assumptions.       *)
(*                                                                         *)
(* Each service has an invariant of its own, which the steps of the others *)
(* leave alone (OneService) and the steps of missions must not disturb     *)
(* (MissionsStay): a mission that exists goes on existing, and one that    *)
(* has ended without failing never becomes a failed one.                   *)
(* SchedulerInv: a job that is due is owed a run, or its run is under way. *)
(* TalkInv: where each message stands, who is charged for it, and for whom *)
(* a session works.                                                        *)
(* WorkflowInv: a run of a plan has begun what it has not left, each step  *)
(* after those it depends on, waits for its last mission only, and none of *)
(* the others is recorded as failed.                                       *)
(* FailureInv: a mission that has failed is recorded as failed until it is *)
(* cancelled, and a run that tells of a failure has met one.               *)
(* PeersInv: numbers are given once, and what an offer knows of its        *)
(* mission when that is over can only be confirmed afterwards.             *)
(* RoutineInv: a history that is cut again and again is the end of all.    *)
(***************************************************************************)
EXTENDS HostServices, FiniteSetTheorems, SequenceTheorems, WellFoundedInduction, TLAPS

-------------------------------------------------------------------------------
\* Sessions and chats

TalkTyped ==
  /\ turns \in [Partner -> Seq({"user", "assistant"} \X Message)]
  /\ status \in [Session -> {"idle", "working", "error", "stopped"}]
  /\ sending \in [Message -> [at : Stages, for : Partner \cup {NoOne},
                              mission : Mission \cup {NoMission}]]
  /\ \A q \in Message : sending[q].at # "idle" => sending[q].for \in Partner

\* The chat service does not answer a message whose mission was refused.
Unanswered(q) == sending[q].at = "done" /\ sending[q].for \in Chat /\ Refused(sending[q])

\* A message is in no conversation before it is sent, and from then on as AnsweredInTurn says.
InTurn(q) ==
  LET asked == Places(sending[q].for, "user", q)
      answered == Places(sending[q].for, "assistant", q)
  IN /\ sending[q].at = "idle" =>
          \A s \in Partner : Places(s, "user", q) = {} /\ Places(s, "assistant", q) = {}
     /\ sending[q].at # "idle" => \E i \in Nat : asked = {i}
     /\ sending[q].at \in {"submit", "record"} \/ Unanswered(q) => answered = {}
     /\ sending[q].at = "done" /\ ~ Unanswered(q) =>
          \E i, j \in Nat : asked = {i} /\ answered = {j} /\ i < j

\* The messages a session is charged for.
ChargedFor(s) ==
  {q \in Message : sending[q].for = s /\ sending[q].at = "done" /\ ~ Refused(sending[q])}

\* A session works for a message under way; it is charged at the end of each.
Settles(s) ==
  /\ status[s] = "working" => UnderWay(s) # {}
  /\ IsFiniteSet(ChargedFor(s)) /\ charged[s] = Cardinality(ChargedFor(s))

TalkInv ==
  /\ TalkTyped
  /\ \A q \in Message : InTurn(q)
  /\ \A s \in Session : Settles(s)
  /\ charged \in [Session -> Nat]

-------------------------------------------------------------------------------
\* Plans

HostTyped == state \in [Mission -> MissionState]

PlanRecord == [steps : StepList, status : {"active", "completed", "failed"}]

\* The variables of a run of a plan.
RunRecord ==
  [at : Point, plan : Plan \cup {NoPlan}, steps : Seq(Step), left : SUBSET Nat, last : Nat,
   done : SUBSET StepId, mission : Seq(Nat \X Mission), outcome : Outcome]

\* The steps a run has begun, and the places of those whose missions have ended.
Begun(f) == {f.mission[n][1] : n \in DOMAIN f.mission}
Finished(f) == IF f.at = "wait" THEN 1 .. Len(f.mission) - 1 ELSE 1 .. Len(f.mission)

Ran(m) == m \notin live /\ state[m] # "failed"

\* A run that tells of its completion.
Told(f) == f.at \in {"status", "history", "done"}
Completed(f) == Told(f) /\ f.outcome = "completed"

\* A run has a plan, and begins steps of its own copy of it.
OfPlan(f) ==
  /\ f.at # "idle" => f.plan \in Plan /\ plans[f.plan] \in PlanRecord
  /\ f.left = (DOMAIN f.steps) \ Begun(f)
  /\ Begun(f) \subseteq DOMAIN f.steps

\* The missions it has submitted exist and, but for the one it waits for, have ended and are
\* not recorded as failed; once one is, no other is submitted and the run is not completed.
NoneFailed(f) ==
  /\ f.at = "idle" => f.mission = <<>>
  /\ f.at = "wait" => f.mission # <<>>
  /\ \A n \in 1 .. Len(f.mission) : state[f.mission[n][2]] # "absent"
  /\ \A n \in 1 .. Len(f.mission) :
       n < Len(f.mission) \/ f.at = "choose" \/ Completed(f) => Ran(f.mission[n][2])

\* Steps are begun once, in the order of their dependencies.
InDependencyOrder(f) ==
  /\ \A i, n \in 1 .. Len(f.mission) : n < i => f.mission[n][1] # f.mission[i][1]
  /\ \A i \in 1 .. Len(f.mission) : \A d \in f.steps[f.mission[i][1]].dependsOn :
       \E n \in 1 .. Len(f.mission) : n < i /\ f.steps[f.mission[n][1]].id = d
  /\ f.at \in {"choose", "wait"} =>
       f.done = {f.steps[f.mission[n][1]].id : n \in Finished(f)}

\* A step that waits for an id none of the begun steps has.
Blocked(f, k) == \E d \in f.steps[k].dependsOn : \A j \in Begun(f) : f.steps[j].id # d

\* What a run tells of itself when it has passed over its steps for the last time.
ToldRight(f) ==
  /\ f.at \in {"status", "history", "done"} =>
       /\ f.outcome # "running"
       /\ f.outcome = "completed" => f.left = {}
       /\ f.outcome = "stuck" => \A k \in f.left : Blocked(f, k)
  /\ f.at = "history" => f.outcome # "stuck"

RunOK(f) == OfPlan(f) /\ NoneFailed(f) /\ InDependencyOrder(f) /\ ToldRight(f)

\* The history has a run that is over, once and with its outcome, unless it was stuck.
Entries(c) == {n \in DOMAIN runHistory : runHistory[n].call = c}

Entered(c) ==
  IF flow[c].at = "done" /\ flow[c].outcome # "stuck"
  THEN \E n \in DOMAIN runHistory : Entries(c) = {n} /\ runHistory[n].outcome = flow[c].outcome
  ELSE Entries(c) = {}

WorkflowInv ==
  /\ HostTyped
  /\ plans \in [Plan -> PlanRecord \cup {NoPlan}]
  /\ flow \in [Call -> RunRecord]
  /\ runHistory \in Seq([call : Call, outcome : Outcome])
  /\ \A c \in Call : RunOK(flow[c]) /\ Entered(c)

\* A run that tells of a failure: its last mission has failed, or was refused, so that a step
\* is left.
Accused(f) ==
  Told(f) /\ f.outcome = "failed" =>
    f.left # {} \/ (f.mission # <<>> /\ f.mission[Len(f.mission)][2] \in failedRuns)

\* The missions that have failed: only a cancellation hides it.
FailuresRecorded ==
  /\ failedRuns \subseteq Mission
  /\ \A m \in failedRuns : m \notin live /\ state[m] \in {"failed", "cancelled"}
  /\ service = "workflow" =>
       \A m \in Mission \ live : state[m] = "failed" => m \in failedRuns

FailureInv == FailuresRecorded /\ \A c \in Call : Accused(flow[c])

-------------------------------------------------------------------------------
\* The scheduler

\* A job that is due is owed a run, unless its run is under way; the snapshot holds only jobs
\* that are owed one.
SchedulerInv ==
  /\ SchedulerTypeOK
  /\ \A j \in Job : jobs[j] # NoJob /\ jobs[j].due =>
       j \in owed \/ (ticker.at = "record" /\ ticker.job = j)
  /\ ticker.queue \subseteq owed

-------------------------------------------------------------------------------
\* Peers

OfferRecord ==
  [at : {"idle", "submit", "read", "record", "returned", "unknown"}, id : Nat,
   mission : Mission \cup {NoMission}, status : Status]

\* The offers that have been numbered.
Accepted == {o \in Offer : offers[o].at \notin {"idle", "unknown"}}

\* A mission that is over, and how it may have ended.
Over(m) == m \notin live /\ state[m] # "absent"
Lost(m) == m = NoMission \/ state[m] \in {"failed", "cancelled"}

\* Numbers are given once.
Numbered ==
  /\ IsFiniteSet(Accepted) /\ taskSeq = Cardinality(Accepted)
  /\ \A o \in Accepted : offers[o].id \in 1 .. taskSeq
  /\ \A o, p \in Accepted : offers[o].id = offers[p].id => o = p

\* What an offer knows of its mission, and the list of an offer that has returned.
OfferOK(o) ==
  LET f == offers[o] IN
  /\ f.at \in {"idle", "unknown"} => f.id = 0
  /\ f.at \in {"idle", "unknown", "submit"} => f.mission = NoMission
  /\ f.at = "read" => f.mission \in Mission /\ state[f.mission] # "absent"
  /\ f.at \in {"record", "returned"} =>
       /\ f.mission # NoMission => Over(f.mission)
       /\ f.status = "failed" => Lost(f.mission)
       /\ f.status = "done" => f.mission # NoMission
       /\ f.status # "accepted"
  /\ f.at = "returned" => tasks[f.id] = f.status

PeersInv ==
  /\ HostTyped
  /\ peers \subseteq Peer
  /\ offers \in [Offer -> OfferRecord]
  /\ tasks \in [TaskId -> Status \cup {NoTask}]
  /\ Numbered
  /\ \A o \in Offer : OfferOK(o)

-------------------------------------------------------------------------------
\* Routines

\* The mission of the last run.
LastOf(r) == IF fired[r] = <<>> THEN NoMission ELSE firing[fired[r][Len(fired[r])]].mission

\* The history of a routine is the newest of all its runs, however they overlapped.
RoutineInv ==
  /\ paused \subseteq Routine
  /\ history \in [Routine -> Seq(Firing)]
  /\ fired \in [Routine -> Seq(Firing)]
  /\ lastRun \in [Routine -> Mission \cup {NoMission}]
  /\ firing \in [Firing -> [at : Stages, for : Routine \cup {NoOne},
                            mission : Mission \cup {NoMission}]]
  /\ \A f \in Firing : firing[f].at # "idle" => firing[f].for \in Routine
  /\ \A r \in Routine : \A n \in DOMAIN fired[r] : firing[fired[r][n]].at = "done"
  /\ \A r \in Routine : history[r] = Newest(MaxHistory, fired[r]) /\ lastRun[r] = LastOf(r)

\* A pass of a run is at the place of one of its steps.
PassPlaced == \A c \in Call : flow[c].last \in {0} \cup DOMAIN flow[c].steps

\* The services submit missions, and touch the host in no other way.
LEMMA SubmitsOnly ==
  ASSUME [Next]_vars
  PROVE  [HostNext]_hostVars
<1>1. CASE UNCHANGED vars
  BY <1>1 DEF vars
<1>2. ASSUME SchedulerNext PROVE [HostNext]_hostVars
  BY <1>2, JobAssumption DEF SchedulerNext, Ticker, Tick, SubmitTicked, RecordTicked, StopTicker,
     Upsert, Delete, Elapse, StartNow, SubmitNow, RecordNow, HostNext, KernelStep, SubmitFresh
<1>3. ASSUME TalkNext PROVE [HostNext]_hostVars
  BY <1>3 DEF TalkNext, StartMessage, SubmitMessage, EndMessage, EndSend, StopSession, HostNext,
     SubmitFresh
<1>4. ASSUME RoutineNext PROVE [HostNext]_hostVars
  BY <1>4 DEF RoutineNext, StartFire, SubmitFire, EndFire, SetPaused, HostNext, SubmitFresh
<1>5. ASSUME WorkflowNext PROVE [HostNext]_hostVars
  BY <1>5 DEF WorkflowNext, Create, BumpVersion, StartRun, RunPlan, SubmitStep, EndStep, EndPasses,
     SetStatus, AppendRun, MissionStep, HostNext, SubmitFresh
<1>6. ASSUME PeersNext PROVE [HostNext]_hostVars
  BY <1>6 DEF PeersNext, Register, AcceptOffer, OfferTask, SubmitOffer, ReadOffer, RecordOffer,
     HostNext, SubmitFresh
<1>7. QED
  BY <1>1, <1>2, <1>3, <1>4, <1>5, <1>6 DEF Next

\* A mission that exists goes on existing; one whose run has ended without failing stays so.
LEMMA MissionsStay ==
  ASSUME HostTyped, [HostNext]_hostVars
  PROVE  /\ HostTyped'
         /\ \A m : state[m] # "absent" /\ m \in Mission => state'[m] # "absent"
         /\ \A m : m \in Mission /\ state[m] # "absent" /\ Ran(m) => Ran(m)'
<1>1. CASE UNCHANGED hostVars
  BY <1>1 DEF hostVars, HostTyped, Ran
<1>2. ASSUME NEW m \in Mission, SubmitMission(m) PROVE
         /\ HostTyped'
         /\ \A k : state[k] # "absent" /\ k \in Mission => state'[k] # "absent"
         /\ \A k : k \in Mission /\ state[k] # "absent" /\ Ran(k) => Ran(k)'
  BY <1>2 DEF SubmitMission, HostTyped, MissionState, Ran
<1>3. ASSUME NEW m \in Mission, Conclude(m) PROVE
         /\ HostTyped'
         /\ \A k : state[k] # "absent" /\ k \in Mission => state'[k] # "absent"
         /\ \A k : k \in Mission /\ state[k] # "absent" /\ Ran(k) => Ran(k)'
  BY <1>3 DEF Conclude, HostTyped, MissionState, Verdicts, Ran
<1>4. ASSUME NEW m \in Mission, CancelMission(m) PROVE
         /\ HostTyped'
         /\ \A k : state[k] # "absent" /\ k \in Mission => state'[k] # "absent"
         /\ \A k : k \in Mission /\ state[k] # "absent" /\ Ran(k) => Ran(k)'
  BY <1>4 DEF CancelMission, HostTyped, MissionState, Ran
<1>5. QED
  BY <1>1, <1>2, <1>3, <1>4 DEF HostNext, KernelStep

\* What the services do leaves missions to the host: every behaviour of theirs is one of
\* MissionHost, which MissionKernel implements (SubmitMission, GetMission of kernel.go).
THEOREM OverTheHost == Spec => HostSpec
<1>1. Init => HostInit
  BY DEF Init
<1>2. QED
  BY <1>1, SubmitsOnly, PTL DEF Spec, HostSpec

-----------------------------------------------------------------------------
\* Every step of the services is one of a single service over the host, or one of the host.
LEMMA OneService ==
  ASSUME [Next]_vars
  PROVE  /\ SchedulerNext \/ UNCHANGED schedulerVars
         /\ TalkNext \/ RoutineNext \/ UNCHANGED conversationVars
         /\ WorkflowNext \/ UNCHANGED workflowVars
         /\ PeersNext \/ UNCHANGED peerVars
  BY DEF Next, vars

-----------------------------------------------------------------------------
\* A job that has become due is owed a run until the ticker submits one; only then does the
\* snapshot let go of it (jobs.go:95-134).
LEMMA SchedulerStep ==
  ASSUME SchedulerInv, SchedulerNext \/ UNCHANGED schedulerVars
  PROVE  /\ SchedulerInv'
         /\ [\A j \in Job : ticker.job # j /\ ticker'.job = j => j \in owed]_<<ticker, owed>>
<1> DEFINE Owed == \A j \in Job : jobs[j] # NoJob /\ jobs[j].due =>
                     j \in owed \/ (ticker.at = "record" /\ ticker.job = j)
           Submits == \A j \in Job : ticker.job # j /\ ticker'.job = j => j \in owed
<1> USE DEF SchedulerInv
<1>1. CASE UNCHANGED schedulerVars
  BY <1>1 DEF schedulerVars, SchedulerTypeOK
<1>2. ASSUME NEW j \in Job, Upsert(j) PROVE SchedulerInv' /\ UNCHANGED ticker
  <2>1. PICK enabled \in BOOLEAN, due \in BOOLEAN :
          /\ jobs' = [jobs EXCEPT ![j] = [enabled |-> enabled, due |-> due]]
          /\ owed' = IF due THEN owed \cup {j} ELSE owed
          /\ UNCHANGED <<ticker, now, stopped>>
    BY <1>2 DEF Upsert
  <2>2. jobs' \in [Job -> JobRecord \cup {NoJob}] /\ owed \subseteq owed' /\ owed' \subseteq Job
    BY <2>1 DEF SchedulerTypeOK, JobRecord
  <2>3. \A i \in Job : i # j => jobs'[i] = jobs[i]
    BY <2>1 DEF SchedulerTypeOK
  <2>4. jobs'[j].due => j \in owed'
    BY <2>1 DEF SchedulerTypeOK
  <2>5. QED
    BY <2>1, <2>2, <2>3, <2>4 DEF SchedulerTypeOK
<1>3. ASSUME NEW j \in Job, Delete(j) PROVE SchedulerInv' /\ UNCHANGED ticker
  BY <1>3 DEF Delete, SchedulerTypeOK
<1>4. ASSUME NEW j \in Job, Elapse(j) PROVE SchedulerInv' /\ UNCHANGED ticker
  <2>1. jobs[j] \in JobRecord
    BY <1>4 DEF Elapse, Exists, SchedulerTypeOK
  <2>2. jobs' \in [Job -> JobRecord \cup {NoJob}] /\ \A i \in Job : i # j => jobs'[i] = jobs[i]
    BY <1>4, <2>1 DEF Elapse, SchedulerTypeOK, JobRecord
  <2>3. owed' = owed \cup {j} /\ UNCHANGED <<ticker, now, stopped>>
    BY <1>4 DEF Elapse
  <2>4. QED
    BY <2>2, <2>3 DEF SchedulerTypeOK
<1>5. ASSUME NEW c \in Caller, StartNow(c) \/ SubmitNow(c) PROVE SchedulerInv' /\ UNCHANGED ticker
  <2>1. UNCHANGED <<jobs, ticker, stopped, owed>>
    BY <1>5 DEF StartNow, SubmitNow
  <2>2. now' \in [Caller -> [at : Errand, job : Job \cup {NoJob}, mission : Mission \cup {NoMission}]]
    <3>1. CASE StartNow(c)
      <4>1. PICK j \in Job : now' = [now EXCEPT ![c] = [at |-> "submit", job |-> j,
                                                       mission |-> NoMission]]
        BY <3>1 DEF StartNow
      <4>2. QED
        BY <4>1 DEF SchedulerTypeOK, Errand
    <3>2. CASE SubmitNow(c)
      <4>1. CASE now' = [now EXCEPT ![c] = [at |-> "done", job |-> NoJob, mission |-> NoMission]]
        BY <4>1 DEF SchedulerTypeOK, Errand
      <4>2. ASSUME NEW m \in JobMission,
                   now' = [now EXCEPT ![c] = [@ EXCEPT !.at = "record", !.mission = m]]
            PROVE  now' \in [Caller -> [at : Errand, job : Job \cup {NoJob},
                                       mission : Mission \cup {NoMission}]]
        <5>1. now[c] \in [at : Errand, job : Job \cup {NoJob}, mission : Mission \cup {NoMission}]
          BY DEF SchedulerTypeOK
        <5>2. [now[c] EXCEPT !.at = "record", !.mission = m] \in
                [at : Errand, job : Job \cup {NoJob}, mission : Mission \cup {NoMission}]
          BY <5>1, <4>2, JobAssumption DEF Errand
        <5>3. QED
          BY <4>2, <5>2 DEF SchedulerTypeOK
      <4>3. QED
        BY <3>2, <4>1, <4>2 DEF SubmitNow
    <3>3. QED
      BY <1>5, <3>1, <3>2
  <2>3. QED
    BY <2>1, <2>2 DEF SchedulerTypeOK
<1>6. ASSUME NEW j, NEW m, RecordRun(j, m)
      PROVE  /\ jobs' \in [Job -> JobRecord \cup {NoJob}]
             /\ \A i \in Job : i # j => jobs'[i] = jobs[i]
             /\ j \in Job /\ jobs'[j] # NoJob => ~ jobs'[j].due
  <2>1. CASE j \in Job /\ Exists(j)
    <3>1. jobs[j] \in JobRecord /\ jobs' = [jobs EXCEPT ![j].due = FALSE]
      BY <1>6, <2>1 DEF RecordRun, Exists, SchedulerTypeOK
    <3>2. jobs'[j] \in JobRecord /\ jobs'[j].due = FALSE
      BY <2>1, <3>1 DEF SchedulerTypeOK, JobRecord
    <3>3. QED
      BY <2>1, <3>1, <3>2 DEF SchedulerTypeOK
  <2>2. CASE j \in Job /\ ~ Exists(j)
    BY <1>6, <2>2 DEF RecordRun, Exists, SchedulerTypeOK
  <2>3. CASE j \notin Job
    BY <1>6, <2>3 DEF RecordRun, SchedulerTypeOK
  <2>4. QED
    BY <2>1, <2>2, <2>3
<1>7. ASSUME NEW c \in Caller, RecordNow(c) PROVE SchedulerInv' /\ UNCHANGED ticker
  <2>1. UNCHANGED <<ticker, stopped, owed>> /\ RecordRun(now[c].job, now[c].mission)
    BY <1>7 DEF RecordNow
  <2>2. now' \in [Caller -> [at : Errand, job : Job \cup {NoJob}, mission : Mission \cup {NoMission}]]
    BY <1>7 DEF RecordNow, SchedulerTypeOK, Errand
  <2>3. Owed'
    BY <2>1, <1>6 DEF SchedulerTypeOK
  <2>4. QED
    BY <2>1, <2>2, <2>3, <1>6 DEF SchedulerTypeOK
<1>8. ASSUME StopTicker PROVE SchedulerInv' /\ UNCHANGED ticker
  BY <1>8 DEF StopTicker, SchedulerTypeOK
<1>9. ASSUME Tick PROVE SchedulerInv' /\ Submits
  <2>1. /\ ticker.at = "idle" /\ ticker' = [ticker EXCEPT !.at = "run", !.queue = DueJobs]
        /\ UNCHANGED <<jobs, now, stopped, owed>>
    BY <1>9 DEF Tick
  <2>2. DueJobs \subseteq owed /\ DueJobs \subseteq Job
    BY <2>1 DEF DueJobs, Exists, SchedulerTypeOK
  <2>3. ticker'.job = ticker.job /\ ticker'.queue = DueJobs
    BY <2>1 DEF SchedulerTypeOK
  <2>4. ticker' \in [at : Errand, queue : SUBSET Job, job : Job \cup {NoJob},
                     mission : Mission \cup {NoMission}]
    BY <2>1, <2>2 DEF SchedulerTypeOK, Errand
  <2>5. QED
    BY <2>1, <2>2, <2>3, <2>4 DEF SchedulerTypeOK
<1>10. ASSUME SubmitTicked PROVE SchedulerInv' /\ Submits
  <2>1. PICK j \in ticker.queue : \E m \in JobMission \cup {NoMission} :
          /\ owed' = owed \ {j}
          /\ ticker' = [at |-> "record", queue |-> ticker.queue \ {j}, job |-> j, mission |-> m]
          /\ UNCHANGED <<jobs, now, stopped>>
    BY <1>10 DEF SubmitTicked
  <2>2. j \in Job /\ j \in owed /\ ticker.queue \subseteq Job
    BY DEF SchedulerTypeOK
  <2>3. /\ ticker'.at = "record" /\ ticker'.job = j /\ ticker'.queue = ticker.queue \ {j}
        /\ ticker' \in [at : Errand, queue : SUBSET Job, job : Job \cup {NoJob},
                        mission : Mission \cup {NoMission}]
    BY <2>1, <2>2, JobAssumption DEF Errand
  <2>4. ticker.at = "run"
    BY <1>10 DEF SubmitTicked
  <2>5. Owed'
    BY <2>1, <2>3, <2>4
  <2>6. QED
    BY <2>1, <2>2, <2>3, <2>5 DEF SchedulerTypeOK
<1>11. ASSUME RecordTicked PROVE SchedulerInv' /\ Submits
  <2>1. /\ RecordRun(ticker.job, ticker.mission) /\ UNCHANGED <<now, stopped, owed>>
        /\ ticker' = [ticker EXCEPT !.at = IF ticker.queue = {} THEN "idle" ELSE "run",
                                    !.job = NoJob, !.mission = NoMission]
    BY <1>11 DEF RecordTicked
  <2>2. /\ ticker'.job = NoJob /\ ticker'.queue = ticker.queue
        /\ ticker' \in [at : Errand, queue : SUBSET Job, job : Job \cup {NoJob},
                        mission : Mission \cup {NoMission}]
    BY <2>1 DEF SchedulerTypeOK, Errand
  <2>3. Owed'
    BY <2>1, <1>6 DEF SchedulerTypeOK
  <2>4. QED
    BY <2>1, <2>2, <2>3, <1>6, JobAssumption DEF SchedulerTypeOK
<1>12. QED
  <2>1. CASE UNCHANGED ticker /\ SchedulerInv'
    BY <2>1
  <2>2. CASE SchedulerInv' /\ Submits
    BY <2>2
  <2>3. ASSUME NEW m \in Mission, UNCHANGED schedulerVars PROVE UNCHANGED ticker /\ SchedulerInv'
    BY <2>3, <1>1 DEF schedulerVars
  <2>4. QED
    BY <1>1, <1>2, <1>3, <1>4, <1>5, <1>7, <1>8, <1>9, <1>10, <1>11, <2>1, <2>2, <2>3
       DEF SchedulerNext, Ticker

\* There are no jobs.
LEMMA InitScheduler == SchedulerInit => SchedulerInv
<1> SUFFICES ASSUME SchedulerInit PROVE SchedulerInv
  OBVIOUS
<1> USE DEF SchedulerInit
<1>1. jobs \in [Job -> JobRecord \cup {NoJob}] /\ \A j \in Job : jobs[j] = NoJob
  OBVIOUS
<1>2. /\ ticker \in [at : Errand, queue : SUBSET Job, job : Job \cup {NoJob},
                     mission : Mission \cup {NoMission}]
      /\ ticker.queue = {}
  BY DEF Errand
<1>3. now \in [Caller -> [at : Errand, job : Job \cup {NoJob}, mission : Mission \cup {NoMission}]]
  BY DEF Errand
<1>4. QED
  BY <1>1, <1>2, <1>3 DEF SchedulerInv, SchedulerTypeOK

\* The ticker runs a job once in each interval (jobs.go:95-134).
THEOREM TickerRunsOnce == Spec => OncePerInterval
<1>1. SchedulerInv /\ [Next]_vars =>
        /\ SchedulerInv'
        /\ [\A j \in Job : ticker.job # j /\ ticker'.job = j => j \in owed]_<<ticker, owed>>
  BY OneService, SchedulerStep
<1>2. QED
  BY <1>1, InitScheduler, PTL DEF Spec, Init, OncePerInterval

-----------------------------------------------------------------------------
\* Conversations

Turn == {"user", "assistant"} \X Message

\* One turn more in one conversation.
LEMMA Said ==
  ASSUME TalkTyped, NEW s \in Partner, NEW role \in {"user", "assistant"}, NEW q \in Message,
         Say(s, role, q)
  PROVE  /\ turns' \in [Partner -> Seq(Turn)]
         /\ \A t \in Partner : \A r, x : t # s \/ r # role \/ x # q =>
              Places(t, r, x)' = Places(t, r, x)
         /\ Places(s, role, q)' = Places(s, role, q) \cup {Len(turns[s]) + 1}
         /\ Len(turns[s]) + 1 \in Nat
         /\ \A r, x : \A i \in Places(s, r, x) : i < Len(turns[s]) + 1
<1> DEFINE L == Len(turns[s])
<1>1. turns \in [Partner -> Seq(Turn)] /\ <<role, q>> \in Turn
  BY DEF TalkTyped, Turn
<1>2. turns[s] \in Seq(Turn) /\ turns' = [turns EXCEPT ![s] = Append(turns[s], <<role, q>>)]
  BY <1>1 DEF Say
<1>3. L \in Nat /\ DOMAIN turns[s] = 1 .. L
  BY <1>2, LenProperties
<1>4. /\ Append(turns[s], <<role, q>>) \in Seq(Turn)
      /\ Len(Append(turns[s], <<role, q>>)) = L + 1
      /\ \A i \in 1 .. L : Append(turns[s], <<role, q>>)[i] = turns[s][i]
      /\ Append(turns[s], <<role, q>>)[L + 1] = <<role, q>>
  BY <1>1, <1>2, AppendProperties
<1>5. turns' \in [Partner -> Seq(Turn)] /\ \A t \in Partner : t # s => turns'[t] = turns[t]
  BY <1>1, <1>2, <1>4
<1>6. /\ turns'[s] \in Seq(Turn) /\ Len(turns'[s]) = L + 1 /\ turns'[s][L + 1] = <<role, q>>
      /\ \A i \in 1 .. L : turns'[s][i] = turns[s][i]
  BY <1>1, <1>2, <1>4
<1>7. DOMAIN turns'[s] = 1 .. (L + 1)
  BY <1>6, LenProperties
<1> HIDE DEF L
<1>8. 1 .. (L + 1) = (1 .. L) \cup {L + 1} /\ L + 1 \notin 1 .. L
  BY <1>3
<1>9. ASSUME NEW r, NEW x
      PROVE  Places(s, r, x)' = Places(s, r, x) \cup (IF r = role /\ x = q THEN {L + 1} ELSE {})
  <2>1. \A i : i \in Places(s, r, x)' <=> i \in 1 .. (L + 1) /\ turns'[s][i] = <<r, x>>
    BY <1>7 DEF Places
  <2>2. \A i : i \in Places(s, r, x) <=> i \in 1 .. L /\ turns[s][i] = <<r, x>>
    BY <1>3 DEF Places
  <2>3. turns'[s][L + 1] = <<r, x>> <=> r = role /\ x = q
    BY <1>6
  <2>4. QED
    BY <1>6, <1>8, <2>1, <2>2, <2>3
<1>10. ASSUME NEW t \in Partner, NEW r, NEW x, t # s PROVE Places(t, r, x)' = Places(t, r, x)
  BY <1>5, <1>10 DEF Places
<1>11. \A r, x : Places(s, r, x) \subseteq 1 .. L
  BY <1>3 DEF Places
<1>12. L + 1 \in Nat /\ \A i \in 1 .. L : i < L + 1
  BY <1>3
<1>13. \A r, x : \A i \in Places(s, r, x) : i < L + 1
  BY <1>11, <1>12
<1>14. \A t \in Partner : \A r, x : t # s \/ r # role \/ x # q =>
              Places(t, r, x)' = Places(t, r, x)
  <2> SUFFICES ASSUME NEW t \in Partner, NEW r, NEW x, t # s \/ r # role \/ x # q
               PROVE  Places(t, r, x)' = Places(t, r, x)
    OBVIOUS
  <2>1. CASE t # s
    BY <2>1, <1>10
  <2>2. CASE t = s
    BY <2>2, <1>9 DEF Places
  <2>3. QED
    BY <2>1, <2>2
<1>15. Places(s, role, q)' = Places(s, role, q) \cup {L + 1}
  BY <1>9
<1>16. QED
  BY <1>5, <1>12, <1>13, <1>14, <1>15 DEF L

\* A message that does not move and of which nothing is said.
LEMMA TurnStays ==
  ASSUME TalkTyped, NEW q \in Message, InTurn(q), sending'[q] = sending[q],
         \A s \in Partner : \A r : Places(s, r, q)' = Places(s, r, q)
  PROVE  InTurn(q)'
<1>1. Refused(sending[q])' = Refused(sending[q])
  BY DEF Refused
<1>2. CASE sending[q].at = "idle"
  BY <1>2 DEF InTurn, Unanswered
<1>3. CASE sending[q].at # "idle"
  <2> DEFINE s == sending[q].for
  <2>1. s \in Partner
    BY <1>3 DEF TalkTyped
  <2>2. /\ Places(sending[q].for, "user", q)' = Places(s, "user", q)
        /\ Places(sending[q].for, "assistant", q)' = Places(s, "assistant", q)
    <3> DEFINE p == sending'[q].for
    <3>1. p = s
      OBVIOUS
    <3>2. QED
      BY <2>1, <3>1 DEF Places
  <2>3. QED
    BY <1>3, <2>2, <1>1 DEF InTurn, Unanswered
<1>4. QED
  BY <1>2, <1>3

\* A session of which no message moves.
LEMMA SettledStays ==
  ASSUME NEW s \in Session, Settles(s), UnderWay(s) \subseteq UnderWay(s)',
         ChargedFor(s)' = ChargedFor(s), charged'[s] = charged[s],
         status'[s] = "working" => status[s] = "working"
  PROVE  Settles(s)'
  BY DEF Settles

\* Nothing happens to sessions and chats.
LEMMA TalkStays ==
  ASSUME TalkInv, UNCHANGED talkVars
  PROVE  TalkInv'
<1>1. TalkTyped' /\ charged' \in [Session -> Nat]
  BY DEF TalkInv, TalkTyped, talkVars
<1>2. \A q \in Message : InTurn(q)'
  BY TurnStays DEF TalkInv, talkVars, Places
<1>3. \A s \in Session : Settles(s)'
  BY DEF TalkInv, talkVars, Settles, ChargedFor, UnderWay, Refused
<1>4. QED
  BY <1>1, <1>2, <1>3 DEF TalkInv

\* What becomes of a message, and of no other.
LEMMA Sent ==
  ASSUME TalkTyped, NEW q \in Message, NEW a \in Stages, NEW f \in Partner,
         NEW m \in Mission \cup {NoMission},
         sending' = [sending EXCEPT ![q] = [@ EXCEPT !.at = a, !.for = f, !.mission = m]]
  PROVE  /\ sending' \in [Message -> [at : Stages, for : Partner \cup {NoOne},
                                      mission : Mission \cup {NoMission}]]
         /\ \A x \in Message : sending'[x].at # "idle" => sending'[x].for \in Partner
         /\ sending'[q].at = a /\ sending'[q].for = f /\ sending'[q].mission = m
         /\ \A x \in Message : x # q => sending'[x] = sending[x]
<1>1. sending \in [Message -> [at : Stages, for : Partner \cup {NoOne},
                              mission : Mission \cup {NoMission}]]
  BY DEF TalkTyped
<1> DEFINE e == [sending[q] EXCEPT !.at = a, !.for = f, !.mission = m]
<1>2. /\ e \in [at : Stages, for : Partner \cup {NoOne}, mission : Mission \cup {NoMission}]
      /\ e.at = a /\ e.for = f /\ e.mission = m
  BY <1>1
<1>3. sending' = [sending EXCEPT ![q] = e]
  OBVIOUS
<1> HIDE DEF e
<1>4. sending'[q] = e /\ \A x \in Message : x # q => sending'[x] = sending[x]
  BY <1>1, <1>3
<1>5. sending' \in [Message -> [at : Stages, for : Partner \cup {NoOne},
                              mission : Mission \cup {NoMission}]]
  BY <1>1, <1>2, <1>3
<1>6. QED
  BY <1>2, <1>4, <1>5 DEF TalkTyped

\* A message is written down.
LEMMA StartKeeps ==
  ASSUME TalkInv, NEW q \in Message, StartMessage(q)
  PROVE  TalkInv'
<1>1. TalkTyped /\ charged \in [Session -> Nat] /\ sending[q].at = "idle" /\ UNCHANGED charged
  BY DEF TalkInv, StartMessage
<1>2. PICK s \in Partner :
        /\ Say(s, "user", q)
        /\ status' = [x \in Session |-> IF x = s THEN "working" ELSE status[x]]
        /\ sending' = [sending EXCEPT ![q] = [@ EXCEPT !.at = "submit", !.for = s]]
  BY DEF StartMessage
<1> DEFINE m == sending[q].mission
<1>3. m \in Mission \cup {NoMission}
  BY <1>1 DEF TalkTyped
<1>4. sending' = [sending EXCEPT ![q] = [@ EXCEPT !.at = "submit", !.for = s, !.mission = m]]
  BY <1>1, <1>2 DEF TalkTyped
<1> HIDE DEF m
<1>5. /\ sending' \in [Message -> [at : Stages, for : Partner \cup {NoOne},
                                   mission : Mission \cup {NoMission}]]
      /\ \A x \in Message : sending'[x].at # "idle" => sending'[x].for \in Partner
      /\ sending'[q].at = "submit" /\ sending'[q].for = s
      /\ \A x \in Message : x # q => sending'[x] = sending[x]
  BY <1>1, <1>3, <1>4, Sent DEF Stages
<1>6. /\ turns' \in [Partner -> Seq(Turn)]
      /\ \A t \in Partner : \A r, x : t # s \/ r # "user" \/ x # q => Places(t, r, x)' = Places(t, r, x)
      /\ Places(s, "user", q)' = Places(s, "user", q) \cup {Len(turns[s]) + 1}
      /\ Len(turns[s]) + 1 \in Nat
  BY <1>1, <1>2, Said
<1>7. status' \in [Session -> {"idle", "working", "error", "stopped"}]
  BY <1>1, <1>2 DEF TalkTyped
<1>8. TalkTyped'
  BY <1>5, <1>6, <1>7 DEF TalkTyped, Turn
<1>9. ASSUME NEW x \in Message PROVE InTurn(x)'
  <2>1. CASE x # q
    BY <1>1, <1>5, <1>6, <2>1, TurnStays DEF TalkInv
  <2>2. CASE x = q
    <3>1. Places(s, "user", q) = {} /\ Places(s, "assistant", q) = {}
      BY <1>1 DEF TalkInv, InTurn
    <3>2. Places(s, "user", q)' = {Len(turns[s]) + 1} /\ Places(s, "assistant", q)' = {}
      BY <1>6, <3>1
    <3>3. /\ Places(sending[q].for, "user", q)' = {Len(turns[s]) + 1}
          /\ Places(sending[q].for, "assistant", q)' = {}
      BY <1>5, <3>2 DEF Places
    <3>4. QED
      BY <1>5, <1>6, <2>2, <3>3 DEF InTurn, Unanswered
  <2>3. QED
    BY <2>1, <2>2
<1>10. ASSUME NEW t \in Session PROVE Settles(t)'
  <2>1. UnderWay(t) \subseteq UnderWay(t)' /\ t = s => q \in UnderWay(t)'
    BY <1>1, <1>5 DEF UnderWay
  <2>2. ChargedFor(t)' = ChargedFor(t)
    BY <1>1, <1>5 DEF ChargedFor, Refused
  <2>3. status'[t] = "working" => status[t] = "working" \/ t = s
    BY <1>2
  <2>4. Settles(t)
    BY DEF TalkInv
  <2>5. QED
    BY <1>1, <1>5, <2>1, <2>2, <2>3, <2>4 DEF Settles, UnderWay
<1>11. QED
  BY <1>1, <1>8, <1>9, <1>10 DEF TalkInv

\* Its mission is submitted, or refused.
LEMMA SubmitKeeps ==
  ASSUME TalkInv, NEW q \in Message, SubmitMessage(q)
  PROVE  TalkInv'
<1>1. /\ TalkTyped /\ charged \in [Session -> Nat] /\ sending[q].at = "submit"
      /\ UNCHANGED <<turns, status, charged>>
  BY DEF TalkInv, SubmitMessage
<1> DEFINE f == sending[q].for
<1>2. f \in Partner /\ sending[q].mission \in Mission \cup {NoMission}
  BY <1>1 DEF TalkTyped
<1>3. PICK m \in Mission \cup {NoMission} :
        sending' = [sending EXCEPT ![q] = [@ EXCEPT !.at = "record", !.for = f, !.mission = m]]
  <2>1. CASE sending' = [sending EXCEPT ![q].at = "record"]
    <3>1. sending' = [sending EXCEPT ![q] = [@ EXCEPT !.at = "record", !.for = f,
                                                      !.mission = sending[q].mission]]
      BY <1>1, <2>1 DEF TalkTyped
    <3>2. QED
      BY <1>2, <3>1
  <2>2. ASSUME NEW m \in Mission,
               sending' = [sending EXCEPT ![q] = [@ EXCEPT !.at = "record", !.mission = m]]
        PROVE  sending' = [sending EXCEPT ![q] = [@ EXCEPT !.at = "record", !.for = f,
                                                          !.mission = m]]
    BY <1>1, <2>2 DEF TalkTyped
  <2>3. QED
    BY <2>1, <2>2 DEF SubmitMessage
<1> HIDE DEF f
<1>4. /\ sending' \in [Message -> [at : Stages, for : Partner \cup {NoOne},
                                   mission : Mission \cup {NoMission}]]
      /\ \A x \in Message : sending'[x].at # "idle" => sending'[x].for \in Partner
      /\ sending'[q].at = "record" /\ sending'[q].for = f
      /\ \A x \in Message : x # q => sending'[x] = sending[x]
  BY <1>1, <1>2, <1>3, Sent DEF Stages
<1>5. \A t, r, x : Places(t, r, x)' = Places(t, r, x)
  BY <1>1 DEF Places
<1>6. TalkTyped'
  BY <1>1, <1>4 DEF TalkTyped
<1>7. ASSUME NEW x \in Message PROVE InTurn(x)'
  <2>1. CASE x # q
    BY <1>1, <1>4, <1>5, <2>1, TurnStays DEF TalkInv
  <2>2. CASE x = q
    <3>1. (\E i \in Nat : Places(f, "user", q) = {i}) /\ Places(f, "assistant", q) = {}
      BY <1>1 DEF TalkInv, InTurn, f
    <3>2. /\ Places(sending[q].for, "user", q)' = Places(f, "user", q)
          /\ Places(sending[q].for, "assistant", q)' = {}
      BY <1>1, <1>4, <3>1 DEF Places
    <3>3. QED
      BY <1>4, <2>2, <3>1, <3>2 DEF InTurn, Unanswered
  <2>3. QED
    BY <2>1, <2>2
<1>8. ASSUME NEW t \in Session PROVE Settles(t)'
  <2>1. UnderWay(t) \subseteq UnderWay(t)'
    BY <1>1, <1>4 DEF UnderWay, f
  <2>2. ChargedFor(t)' = ChargedFor(t)
    BY <1>1, <1>4 DEF ChargedFor, Refused
  <2>3. QED
    BY <1>1, <2>1, <2>2, SettledStays DEF TalkInv
<1>9. QED
  BY <1>1, <1>6, <1>7, <1>8 DEF TalkInv

\* A message ends and is answered, or is not because its mission was refused.
LEMMA Answered ==
  ASSUME TalkInv, NEW q \in Message, NEW s \in Partner,
         sending[q].at = "record", sending[q].for = s, sending' = [sending EXCEPT ![q].at = "done"],
         IF s \in Chat /\ Refused(sending[q]) THEN UNCHANGED turns ELSE Say(s, "assistant", q)
  PROVE  /\ sending'[q].at = "done" /\ sending'[q].for = s
         /\ Refused(sending[q])' = Refused(sending[q])
         /\ \A x \in Message : x # q => sending'[x] = sending[x]
         /\ turns' \in [Partner -> Seq(Turn)]
         /\ sending' \in [Message -> [at : Stages, for : Partner \cup {NoOne},
                                      mission : Mission \cup {NoMission}]]
         /\ \A x \in Message : sending'[x].at # "idle" => sending'[x].for \in Partner
         /\ \A x \in Message : InTurn(x)'
<1>1. TalkTyped
  BY DEF TalkInv
<1>2. PICK m \in Mission \cup {NoMission} : m = sending[q].mission
  BY DEF TalkInv, TalkTyped
<1>3. /\ sending' \in [Message -> [at : Stages, for : Partner \cup {NoOne},
                                   mission : Mission \cup {NoMission}]]
      /\ \A x \in Message : sending'[x].at # "idle" => sending'[x].for \in Partner
      /\ sending'[q].at = "done" /\ sending'[q].for = s /\ sending'[q].mission = m
      /\ \A x \in Message : x # q => sending'[x] = sending[x]
  <2> DEFINE e == [sending[q] EXCEPT !.at = "done"]
  <2>1. sending \in [Message -> [at : Stages, for : Partner \cup {NoOne},
                                mission : Mission \cup {NoMission}]]
    BY <1>1 DEF TalkTyped
  <2>2. /\ e \in [at : Stages, for : Partner \cup {NoOne}, mission : Mission \cup {NoMission}]
        /\ e.at = "done" /\ e.for = s /\ e.mission = m
    BY <1>2, <2>1 DEF Stages
  <2>3. sending' = [sending EXCEPT ![q] = e]
    OBVIOUS
  <2> HIDE DEF e
  <2>4. sending'[q] = e /\ \A x \in Message : x # q => sending'[x] = sending[x]
    BY <2>1, <2>3
  <2>5. sending' \in [Message -> [at : Stages, for : Partner \cup {NoOne},
                                 mission : Mission \cup {NoMission}]]
    BY <2>1, <2>2, <2>3
  <2>6. QED
    BY <1>1, <2>2, <2>4, <2>5 DEF TalkTyped
<1>4. Refused(sending[q])' = Refused(sending[q])
  BY <1>3, <1>2 DEF Refused
<1>5. Unanswered(q)' = (s \in Chat /\ Refused(sending[q]))
  BY <1>3, <1>4 DEF Unanswered
<1>6. PICK i \in Nat : Places(s, "user", q) = {i}
  BY DEF TalkInv, InTurn
<1>7. Places(s, "assistant", q) = {}
  BY DEF TalkInv, InTurn
<1>8. CASE s \in Chat /\ Refused(sending[q])
  <2>1. turns' = turns
    BY <1>8
  <2>2. turns' \in [Partner -> Seq(Turn)]
    BY <1>1, <2>1 DEF TalkTyped, Turn
  <2>3. \A t, r, x : Places(t, r, x)' = Places(t, r, x)
    BY <2>1 DEF Places
  <2>4. Places(sending[q].for, "user", q)' = {i} /\ Places(sending[q].for, "assistant", q)' = {}
    BY <1>3, <1>6, <1>7, <2>1 DEF Places
  <2>5. InTurn(q)'
    BY <1>3, <1>5, <1>8, <2>4 DEF InTurn
  <2>6. \A x \in Message : x # q => InTurn(x)'
    BY <1>1, <1>3, <2>3, TurnStays DEF TalkInv
  <2>7. QED
    BY <1>3, <1>4, <2>2, <2>5, <2>6
<1>9. CASE ~ (s \in Chat /\ Refused(sending[q]))
  <2>1. /\ turns' \in [Partner -> Seq(Turn)]
        /\ \A t \in Partner : \A r, x : t # s \/ r # "assistant" \/ x # q =>
             Places(t, r, x)' = Places(t, r, x)
        /\ Places(s, "assistant", q)' = Places(s, "assistant", q) \cup {Len(turns[s]) + 1}
        /\ Len(turns[s]) + 1 \in Nat
        /\ \A r, x : \A j \in Places(s, r, x) : j < Len(turns[s]) + 1
    BY <1>1, <1>9, Said
  <2> DEFINE j == Len(turns[s]) + 1
  <2>2. i < j /\ j \in Nat
    BY <1>6, <2>1
  <2>3. Places(s, "user", q)' = {i} /\ Places(s, "assistant", q)' = {j}
    BY <1>6, <1>7, <2>1
  <2> HIDE DEF j
  <2>4. Places(sending[q].for, "user", q)' = {i} /\ Places(sending[q].for, "assistant", q)' = {j}
    BY <1>3, <2>3 DEF Places
  <2>5. InTurn(q)'
    BY <1>3, <1>5, <1>9, <2>2, <2>4 DEF InTurn
  <2>6. \A x \in Message : x # q => InTurn(x)'
    BY <1>1, <1>3, <2>1, TurnStays DEF TalkInv
  <2>7. QED
    BY <1>3, <1>4, <2>1, <2>5, <2>6
<1>10. QED
  BY <1>8, <1>9

\* The deck's Message ends: it is answered whatever came of it, and charged unless refused.
LEMMA EndMessageKeeps ==
  ASSUME TalkInv, NEW q \in Message, EndMessage(q)
  PROVE  TalkInv'
<1>1. PICK s \in Session : s = sending[q].for
  BY DEF EndMessage
<1> DEFINE cost == IF Refused(sending[q]) THEN charged[s] ELSE charged[s] + 1
<1>2. /\ TalkTyped /\ charged \in [Session -> Nat]
      /\ sending[q].at = "record" /\ sending' = [sending EXCEPT ![q].at = "done"]
      /\ Say(s, "assistant", q)
      /\ status' = [status EXCEPT ![s] = StatusAfter(q, s)]
      /\ charged' = [charged EXCEPT ![s] = cost]
  BY <1>1 DEF TalkInv, EndMessage, Answer
<1>3. s \in Partner /\ s \notin Chat /\ cost \in Nat
  BY <1>2, PartnerAssumption DEF Partner
<1>4. StatusAfter(q, s) \in {"error", "idle"}
  BY DEF StatusAfter
<1>5. /\ status' \in [Session -> {"idle", "working", "error", "stopped"}]
      /\ status'[s] # "working" /\ \A t \in Session : t # s => status'[t] = status[t]
  BY <1>2, <1>4 DEF TalkTyped
<1>6. /\ charged' \in [Session -> Nat]
      /\ charged'[s] = cost /\ \A t \in Session : t # s => charged'[t] = charged[t]
  BY <1>2, <1>3
<1> HIDE DEF cost
<1>7. /\ sending'[q].at = "done" /\ sending'[q].for = s
      /\ Refused(sending[q])' = Refused(sending[q])
      /\ \A x \in Message : x # q => sending'[x] = sending[x]
      /\ turns' \in [Partner -> Seq(Turn)]
      /\ sending' \in [Message -> [at : Stages, for : Partner \cup {NoOne},
                                      mission : Mission \cup {NoMission}]]
      /\ \A x \in Message : sending'[x].at # "idle" => sending'[x].for \in Partner
      /\ \A x \in Message : InTurn(x)'
  BY <1>2, <1>3, <1>1, Answered
<1>8. TalkTyped'
  BY <1>5, <1>7 DEF TalkTyped, Turn
<1>9. ASSUME NEW t \in Session, t # s PROVE Settles(t)'
  <2>1. UnderWay(t)' = UnderWay(t)
    BY <1>1, <1>7, <1>9 DEF UnderWay
  <2>2. ChargedFor(t)' = ChargedFor(t)
    BY <1>1, <1>7, <1>9 DEF ChargedFor, Refused
  <2>3. QED
    BY <1>5, <1>6, <1>9, <2>1, <2>2, SettledStays DEF TalkInv
<1>10. Settles(s)'
  <2>1. Settles(s) /\ q \notin ChargedFor(s)
    BY <1>2 DEF TalkInv, ChargedFor
  <2>2. ChargedFor(s)' = IF Refused(sending[q]) THEN ChargedFor(s) ELSE ChargedFor(s) \cup {q}
    <3>1. \A x \in Message : x # q => (x \in ChargedFor(s)' <=> x \in ChargedFor(s))
      BY <1>7 DEF ChargedFor, Refused
    <3>2. q \in ChargedFor(s)' <=> ~ Refused(sending[q])
      BY <1>7 DEF ChargedFor
    <3>3. ChargedFor(s)' \subseteq Message /\ ChargedFor(s) \subseteq Message
      BY DEF ChargedFor
    <3>4. QED
      BY <2>1, <3>1, <3>2, <3>3
  <2>3. /\ IsFiniteSet(ChargedFor(s)) /\ charged[s] = Cardinality(ChargedFor(s))
    BY <2>1 DEF Settles
  <2>4. /\ IsFiniteSet(ChargedFor(s) \cup {q})
        /\ Cardinality(ChargedFor(s) \cup {q}) = Cardinality(ChargedFor(s)) + 1
    BY <2>1, <2>3, FS_AddElement
  <2>5. IsFiniteSet(ChargedFor(s)') /\ charged'[s] = Cardinality(ChargedFor(s)')
    <3>1. CASE Refused(sending[q])
      BY <1>6, <2>2, <2>3, <3>1 DEF cost
    <3>2. CASE ~ Refused(sending[q])
      BY <1>6, <2>2, <2>3, <2>4, <3>2 DEF cost
    <3>3. QED
      BY <3>1, <3>2
  <2>6. QED
    BY <1>5, <2>5 DEF Settles
<1>11. QED
  BY <1>6, <1>7, <1>8, <1>9, <1>10 DEF TalkInv

\* The chat service's Send ends.
LEMMA EndSendKeeps ==
  ASSUME TalkInv, NEW q \in Message, EndSend(q)
  PROVE  TalkInv'
<1>1. PICK s \in Chat : s = sending[q].for
  BY DEF EndSend
<1>2. /\ TalkTyped /\ charged \in [Session -> Nat] /\ UNCHANGED <<status, charged>>
      /\ sending[q].at = "record" /\ sending' = [sending EXCEPT ![q].at = "done"]
      /\ IF Refused(sending[q]) THEN UNCHANGED turns ELSE Say(s, "assistant", q)
      /\ s \in Partner /\ s \notin Session
  BY <1>1, PartnerAssumption DEF TalkInv, EndSend, Partner
<1>3. /\ sending'[q].at = "done" /\ sending'[q].for = s
      /\ \A x \in Message : x # q => sending'[x] = sending[x]
      /\ turns' \in [Partner -> Seq(Turn)]
      /\ sending' \in [Message -> [at : Stages, for : Partner \cup {NoOne},
                                      mission : Mission \cup {NoMission}]]
      /\ \A x \in Message : sending'[x].at # "idle" => sending'[x].for \in Partner
      /\ \A x \in Message : InTurn(x)'
  BY <1>1, <1>2, Answered
<1>4. TalkTyped'
  BY <1>2, <1>3 DEF TalkTyped, Turn
<1>5. ASSUME NEW t \in Session PROVE Settles(t)'
  <2>1. UnderWay(t)' = UnderWay(t)
    BY <1>1, <1>2, <1>3 DEF UnderWay
  <2>2. ChargedFor(t)' = ChargedFor(t)
    BY <1>1, <1>2, <1>3 DEF ChargedFor, Refused
  <2>3. QED
    BY <1>2, <2>1, <2>2, SettledStays DEF TalkInv
<1>6. QED
  BY <1>2, <1>3, <1>4, <1>5 DEF TalkInv

\* Stop sets the status only.
LEMMA StopKeeps ==
  ASSUME TalkInv, NEW s \in Session, StopSession(s)
  PROVE  TalkInv'
<1>1. /\ UNCHANGED <<turns, charged, sending>> /\ status' = [status EXCEPT ![s] = "stopped"]
      /\ TalkTyped /\ charged \in [Session -> Nat]
  BY DEF StopSession, TalkInv
<1>2. TalkTyped' /\ \A t \in Session : status'[t] = "working" => status[t] = "working"
  BY <1>1 DEF TalkTyped
<1>3. \A q \in Message : InTurn(q)'
  BY <1>1, TurnStays DEF TalkInv, Places
<1>4. ASSUME NEW t \in Session PROVE Settles(t)'
  <2>1. UnderWay(t)' = UnderWay(t) /\ ChargedFor(t)' = ChargedFor(t)
    BY <1>1 DEF UnderWay, ChargedFor, Refused
  <2>2. QED
    BY <1>1, <1>2, <2>1, SettledStays DEF TalkInv
<1>5. QED
  BY <1>1, <1>2, <1>3, <1>4 DEF TalkInv

\* Every step of any service preserves what is known of conversations.
LEMMA TalkStep ==
  ASSUME TalkInv, TalkNext \/ RoutineNext \/ UNCHANGED conversationVars
  PROVE  TalkInv'
<1>1. CASE UNCHANGED conversationVars
  BY <1>1, TalkStays DEF conversationVars, talkVars
<1>2. CASE RoutineNext
  BY <1>1, <1>2, TalkStays DEF RoutineNext, StartFire, SubmitFire, EndFire, SetPaused
<1>3. CASE TalkNext
  BY <1>1, <1>3, StartKeeps, SubmitKeeps, EndMessageKeeps, EndSendKeeps, StopKeeps DEF TalkNext
<1>4. QED
  BY <1>1, <1>2, <1>3

\* Nothing has been said.
LEMMA InitTalk == ConversationInit => TalkInv
<1> SUFFICES ASSUME ConversationInit PROVE TalkInv
  OBVIOUS
<1> USE DEF ConversationInit
<1>1. \A s \in Partner : turns[s] = <<>>
  OBVIOUS
<1>2. turns \in [Partner -> Seq({"user", "assistant"} \X Message)]
  OBVIOUS
<1>3. sending \in [Message -> [at : Stages, for : Partner \cup {NoOne},
                              mission : Mission \cup {NoMission}]]
  BY DEF NoErrand, Stages
<1>4. \A q \in Message : sending[q].at = "idle"
  BY DEF NoErrand
<1>5. \A s \in Partner : \A r, q : Places(s, r, q) = {}
  BY <1>1 DEF Places
<1>6. \A q \in Message : InTurn(q)
  BY <1>4, <1>5 DEF InTurn, Unanswered
<1>7. status \in [Session -> {"idle", "working", "error", "stopped"}] /\ charged \in [Session -> Nat]
  OBVIOUS
<1>8. ASSUME NEW s \in Session PROVE Settles(s)
  <2>1. ChargedFor(s) = {}
    BY <1>4 DEF ChargedFor
  <2>2. status[s] = "idle" /\ charged[s] = 0
    OBVIOUS
  <2>3. QED
    BY <2>1, <2>2, FS_EmptySet DEF Settles
<1>9. QED
  BY <1>2, <1>3, <1>4, <1>6, <1>7, <1>8 DEF TalkInv, TalkTyped

\* What is known of conversations holds throughout.
LEMMA TalkInvariance == Spec => []TalkInv
<1>1. TalkInv /\ [Next]_vars => TalkInv'
  BY OneService, TalkStep
<1>2. QED
  BY <1>1, InitTalk, PTL DEF Spec, Init

\* However messages to one conversation overlap, each is asked once and answered once after it
\* (sessions.go:118, 138, 148; chat/service.go:99, 149-168).
THEOREM EachAnsweredInTurn == Spec => []AnsweredInTurn
<1>1. TalkInv => AnsweredInTurn
  <2> SUFFICES ASSUME TalkInv, NEW q \in Message, sending[q].at # "idle"
               PROVE  LET s == sending[q].for
                          asked == Places(s, "user", q)
                          answered == Places(s, "assistant", q)
                      IN /\ Cardinality(asked) = 1
                         /\ IF sending[q].at = "done" /\ ~ (s \in Chat /\ Refused(sending[q]))
                            THEN Cardinality(answered) = 1 /\ \A i \in asked, j \in answered : i < j
                            ELSE answered = {}
    BY DEF AnsweredInTurn
  <2>1. InTurn(q) /\ sending[q].at \in Stages
    BY DEF TalkInv, TalkTyped
  <2>2. \A i : Cardinality({i}) = 1
    BY FS_Singleton
  <2>3. QED
    BY <2>1, <2>2 DEF InTurn, Unanswered, Stages
<1>2. QED
  BY <1>1, TalkInvariance, PTL

\* A session nobody talks to is not shown as working and has been charged for each of its
\* missions once (sessions.go:115, 137, 143, 149-153).
THEOREM EachSessionSettles == Spec => []SessionSettles
<1>1. TalkInv => SessionSettles
  BY DEF TalkInv, Settles, SessionSettles, ChargedFor
<1>2. QED
  BY <1>1, TalkInvariance, PTL

-----------------------------------------------------------------------------
\* Runs of plans

\* Every nonempty set of places has a first one.
LEMMA FirstPlace ==
  ASSUME NEW S \in SUBSET Nat, S # {}
  PROVE  \E k \in S : \A j \in S : k <= j
<1>1. PICK k \in S : \A j \in S : ~ (<<j, k>> \in OpToRel(<, Nat))
  BY NatLessThanWellFounded, WFMin
<1>2. ASSUME NEW j \in S PROVE k <= j
  <2>1. ~ (j < k)
    BY <1>1 DEF OpToRel
  <2>2. QED
    BY <2>1
<1>3. QED
  BY <1>2

\* If no step's turn comes, none that is left is ready.
LEMMA NoneReady ==
  ASSUME NEW c \in Call, flow[c].left \in SUBSET Nat, NextSteps(c) = {}
  PROVE  \A k \in flow[c].left : ~ Ready(c, k)
<1> DEFINE ready == {k \in flow[c].left : Ready(c, k)}
           behind == {k \in ready : k > flow[c].last}
           pass == IF behind # {} THEN behind ELSE ready
<1>1. NextSteps(c) = {k \in pass : \A j \in pass : k <= j}
  BY DEF NextSteps
<1>2. pass \in SUBSET Nat
  OBVIOUS
<1>3. pass = {}
  BY <1>1, <1>2, FirstPlace
<1>4. QED
  BY <1>3

\* What a run is made of.
LEMMA RunParts ==
  ASSUME NEW f \in RunRecord
  PROVE  /\ Len(f.mission) \in Nat /\ DOMAIN f.mission = 1 .. Len(f.mission)
         /\ \A n \in 1 .. Len(f.mission) :
              f.mission[n] \in Nat \X Mission /\ f.mission[n][1] \in Nat /\ f.mission[n][2] \in Mission
         /\ Len(f.steps) \in Nat /\ DOMAIN f.steps = 1 .. Len(f.steps)
         /\ \A k \in DOMAIN f.steps : f.steps[k].id \in StepId
<1>1. f.mission \in Seq(Nat \X Mission) /\ f.steps \in Seq(Step)
  BY DEF RunRecord
<1>2. Len(f.mission) \in Nat /\ DOMAIN f.mission = 1 .. Len(f.mission)
  BY <1>1, LenProperties
<1>3. \A n \in 1 .. Len(f.mission) : f.mission[n] \in Nat \X Mission
  BY <1>1, ElementOfSeq
<1>4. Len(f.steps) \in Nat /\ DOMAIN f.steps = 1 .. Len(f.steps)
  BY <1>1, LenProperties
<1>5. \A k \in 1 .. Len(f.steps) : f.steps[k] \in Step
  BY <1>1, ElementOfSeq
<1>6. QED
  BY <1>2, <1>3, <1>4, <1>5 DEF StepId

\* What is so of a record is so of the run it is the record of.
LEMMA SameRun ==
  ASSUME NEW c \in Call, NEW h, h = flow'[c], RunOK(h)'
  PROVE  RunOK(flow[c])'
<1>1. OfPlan(flow[c])'
  BY DEF RunOK, OfPlan, Begun
<1>2. NoneFailed(flow[c])'
  BY DEF RunOK, NoneFailed, Ran, Completed, Told
<1>3. InDependencyOrder(flow[c])'
  BY DEF RunOK
<1>4. ToldRight(flow[c])'
  BY DEF RunOK
<1>5. QED
  BY <1>1, <1>2, <1>3, <1>4 DEF RunOK

\* A run that does not move, while missions and plans go on without it.
LEMMA RunStays ==
  ASSUME HostTyped, [HostNext]_hostVars, NEW f \in RunRecord, RunOK(f),
         \A p \in Plan : plans[p] \in PlanRecord => plans'[p] \in PlanRecord
  PROVE  RunOK(f)'
<1>1. OfPlan(f)'
  BY DEF RunOK, OfPlan, Begun
<1>2. NoneFailed(f)'
  <2>1. NoneFailed(f)
    BY DEF RunOK
  <2>2. ASSUME NEW n \in 1 .. Len(f.mission)
        PROVE  /\ state'[f.mission[n][2]] # "absent"
               /\ Ran(f.mission[n][2]) => Ran(f.mission[n][2])'
    BY <2>1, MissionsStay, RunParts DEF NoneFailed
  <2>3. QED
    BY <2>1, <2>2 DEF NoneFailed, Completed, Told
<1>3. InDependencyOrder(f)' /\ ToldRight(f)'
  BY DEF RunOK, InDependencyOrder, ToldRight, Finished, Blocked, Begun
<1>4. QED
  BY <1>1, <1>2, <1>3 DEF RunOK

\* RunPlan starts on a copy of the plan.
LEMMA RunStarts ==
  ASSUME NEW p \in Plan, plans[p] \in PlanRecord, plans' = plans, NEW g,
         g = [NoFlow EXCEPT !.at = "choose", !.plan = p, !.steps = plans[p].steps,
                            !.left = DOMAIN plans[p].steps]
  PROVE  g \in RunRecord /\ RunOK(g)'
<1>1. plans[p].steps \in Seq(Step)
  BY StepListAssumption DEF PlanRecord
<1>2. DOMAIN plans[p].steps \subseteq Nat
  BY <1>1, LenProperties
<1>3. /\ g.at = "choose" /\ g.plan = p /\ g.steps = plans[p].steps /\ g.left = DOMAIN plans[p].steps
      /\ g.last = 0 /\ g.done = {} /\ g.mission = <<>> /\ g.outcome = "running"
  BY DEF NoFlow
<1>4. g = [at |-> "choose", plan |-> p, steps |-> plans[p].steps, left |-> DOMAIN plans[p].steps,
           last |-> 0, done |-> {}, mission |-> <<>>, outcome |-> "running"]
  BY DEF NoFlow
<1>5. g \in RunRecord
  <2>1. ASSUME NEW s \in Seq(Step), NEW d \in SUBSET Nat
        PROVE  [at |-> "choose", plan |-> p, steps |-> s, left |-> d, last |-> 0, done |-> {},
                mission |-> <<>>, outcome |-> "running"] \in RunRecord
    <3>1. <<>> \in Seq(Nat \X Mission)
      BY EmptySeq
    <3>2. QED
      BY <3>1 DEF RunRecord, Point, Outcome
  <2>2. [at |-> "choose", plan |-> p, steps |-> plans[p].steps, left |-> DOMAIN plans[p].steps,
         last |-> 0, done |-> {}, mission |-> <<>>, outcome |-> "running"] \in RunRecord
    BY <1>1, <1>2, <2>1, Zenon
  <2>3. QED
    BY <1>4, <2>2, Zenon
<1>6. Len(g.mission) = 0 /\ DOMAIN g.mission = {}
  BY <1>3
<1>7. 1 .. Len(g.mission) = {} /\ Begun(g) = {} /\ Finished(g) = {}
  BY <1>3, <1>6 DEF Begun, Finished
<1>8. OfPlan(g)'
  BY <1>3, <1>7 DEF OfPlan, Begun
<1>9. NoneFailed(g)' /\ InDependencyOrder(g)' /\ ToldRight(g)'
  BY <1>3, <1>7 DEF NoneFailed, InDependencyOrder, ToldRight, Finished
<1>10. QED
  BY <1>5, <1>8, <1>9 DEF RunOK

\* A step that is ready is submitted as the next mission of its run.
LEMMA RunSubmits ==
  ASSUME HostTyped, NEW m \in Mission, SubmitMission(m), plans' = plans,
         NEW f \in RunRecord, RunOK(f), f.at = "choose",
         NEW k \in f.left, f.steps[k].dependsOn \subseteq f.done,
         NEW g \in RunRecord, g.at = "wait", g.plan = f.plan, g.steps = f.steps,
         g.left = f.left \ {k}, g.done = f.done, g.mission = Append(f.mission, <<k, m>>)
  PROVE  RunOK(g)'
<1> DEFINE B == f.mission
           N == Len(B)
           A == Append(B, <<k, m>>)
<1>1. /\ N \in Nat /\ DOMAIN B = 1 .. N /\ B \in Seq(Nat \X Mission)
      /\ \A n \in 1 .. N : B[n][1] \in Nat /\ B[n][2] \in Mission
      /\ DOMAIN f.steps \subseteq Nat /\ k \in Nat
  BY RunParts DEF RunRecord
<1>2. <<k, m>> \in Nat \X Mission
  BY <1>1
<1>3. /\ A \in Seq(Nat \X Mission) /\ Len(A) = N + 1 /\ A # <<>>
      /\ \A n \in 1 .. N : A[n] = B[n]
      /\ A[N + 1] = <<k, m>>
  <2>1. PICK x \in Nat \X Mission : x = <<k, m>>
    BY <1>2
  <2>2. /\ Append(B, x) \in Seq(Nat \X Mission) /\ Len(Append(B, x)) = N + 1
        /\ \A n \in 1 .. N : Append(B, x)[n] = B[n]
        /\ Append(B, x)[N + 1] = x
    BY <1>1, AppendProperties
  <2>3. A # <<>>
    BY <1>1, <2>1, <2>2, EmptySeq
  <2>4. QED
    BY <2>1, <2>2, <2>3
<1>4. DOMAIN A = 1 .. N + 1
  BY <1>3, LenProperties
<1>5. /\ g.at = "wait" /\ g.plan = f.plan /\ g.steps = f.steps /\ g.left = f.left \ {k}
      /\ g.done = f.done /\ g.mission = A
  OBVIOUS
<1>6. 1 .. N + 1 = (1 .. N) \cup {N + 1} /\ N + 1 \notin 1 .. N /\ \A n \in 1 .. N : n < N + 1
  BY <1>1
<1>7. [HostNext]_hostVars
  BY DEF HostNext
<1> HIDE DEF N, A, B
<1>8. B = f.mission /\ N = Len(f.mission)
  BY DEF B, N
<1>9. /\ OfPlan(f) /\ NoneFailed(f) /\ InDependencyOrder(f) /\ f.left = (DOMAIN f.steps) \ Begun(f)
       /\ k \in DOMAIN f.steps /\ k \notin Begun(f)
  BY DEF RunOK, OfPlan
<1>10. Begun(g) = Begun(f) \cup {k}
  <2>1. \A n \in 1 .. N : A[n][1] = B[n][1]
    BY <1>3
  <2>2. A[N + 1][1] = k
    BY <1>3
  <2>3. Begun(g) = {A[n][1] : n \in (1 .. N) \cup {N + 1}}
    BY <1>4, <1>5, <1>6 DEF Begun
  <2>4. Begun(f) = {B[n][1] : n \in 1 .. N}
    BY <1>1, <1>8 DEF Begun
  <2>5. QED
    BY <2>1, <2>2, <2>3, <2>4
<1>11. OfPlan(g)'
  <2>1. f.plan \in Plan /\ plans'[f.plan] \in PlanRecord
    BY <1>9 DEF OfPlan
  <2>2. g.left = (DOMAIN g.steps) \ Begun(g) /\ Begun(g) \subseteq DOMAIN g.steps
    BY <1>5, <1>9, <1>10 DEF OfPlan
  <2>3. QED
    BY <1>5, <2>1, <2>2 DEF OfPlan, Begun
<1>12. NoneFailed(g)'
  <2>1. ASSUME NEW n \in 1 .. N PROVE state'[A[n][2]] # "absent" /\ Ran(A[n][2])'
    <3>1. B[n][2] \in Mission /\ state[B[n][2]] # "absent" /\ Ran(B[n][2])
      BY <1>1, <1>8, <1>9 DEF NoneFailed
    <3>2. state'[B[n][2]] # "absent" /\ Ran(B[n][2])'
      BY <3>1, <1>7, MissionsStay
    <3>3. A[n][2] = B[n][2]
      BY <1>3
    <3>4. QED
      BY <3>2, <3>3 DEF Ran
  <2>2. state'[A[N + 1][2]] # "absent"
    BY <1>3 DEF HostTyped, SubmitMission
  <2>3. \A n \in 1 .. N + 1 : n < N + 1 => n \in 1 .. N
    BY <1>1
  <2>4. \A n \in 1 .. N + 1 : state'[A[n][2]] # "absent" /\ (n < N + 1 => Ran(A[n][2])')
    BY <1>6, <2>1, <2>2, <2>3
  <2>5. QED
    BY <1>3, <1>5, <2>4 DEF NoneFailed, Completed, Told
<1>13. InDependencyOrder(g)'
  <2>1. \A i, n \in 1 .. N : n < i => B[n][1] # B[i][1]
    BY <1>8, <1>9 DEF InDependencyOrder
  <2>2. \A i \in 1 .. N : \A d \in f.steps[B[i][1]].dependsOn :
          \E n \in 1 .. N : n < i /\ f.steps[B[n][1]].id = d
    BY <1>8, <1>9 DEF InDependencyOrder
  <2>3. ASSUME NEW i \in 1 .. N + 1, NEW n \in 1 .. N + 1, n < i PROVE A[n][1] # A[i][1]
    <3>1. n \in 1 .. N
      BY <1>1, <2>3
    <3>2. CASE i \in 1 .. N
      BY <1>3, <2>3, <2>1, <3>1, <3>2
    <3>3. CASE i = N + 1
      <4>1. B[n][1] \in Begun(f)
        BY <1>1, <1>8, <3>1 DEF Begun
      <4>2. QED
        BY <1>3, <1>9, <3>1, <3>3, <4>1
    <3>4. QED
      BY <1>6, <3>2, <3>3
  <2>4. f.done = {f.steps[B[n][1]].id : n \in 1 .. N}
    BY <1>8, <1>9 DEF InDependencyOrder, Finished
  <2>5. ASSUME NEW i \in 1 .. N + 1, NEW d \in f.steps[A[i][1]].dependsOn
        PROVE  \E n \in 1 .. N + 1 : n < i /\ f.steps[A[n][1]].id = d
    <3>1. CASE i \in 1 .. N
      <4>1. PICK n \in 1 .. N : n < i /\ f.steps[B[n][1]].id = d
        <5>1. A[i] = B[i]
          BY <1>3, <3>1
        <5>2. d \in f.steps[B[i][1]].dependsOn
          BY <2>5, <5>1
        <5>3. QED
          BY <2>2, <3>1, <5>2
      <4>2. QED
        BY <1>3, <1>6, <4>1
    <3>2. CASE i = N + 1
      <4>1. A[i][1] = k
        BY <1>3, <3>2
      <4>2. d \in f.done
        BY <2>5, <4>1
      <4>3. PICK n \in 1 .. N : f.steps[B[n][1]].id = d
        BY <2>4, <4>2
      <4>4. n < i /\ n \in 1 .. N + 1 /\ A[n] = B[n]
        BY <1>3, <1>6, <3>2
      <4>5. QED
        BY <4>3, <4>4
    <3>3. QED
      BY <1>6, <3>1, <3>2
  <2>6. Finished(g) = 1 .. N
    BY <1>1, <1>3, <1>5 DEF Finished
  <2>7. g.done = {f.steps[A[n][1]].id : n \in 1 .. N}
    <3>1. \A n \in 1 .. N : f.steps[A[n][1]].id = f.steps[B[n][1]].id
      BY <1>3
    <3>2. {f.steps[A[n][1]].id : n \in 1 .. N} = {f.steps[B[n][1]].id : n \in 1 .. N}
      BY <3>1
    <3>3. QED
      BY <1>5, <2>4, <3>2
  <2>8. InDependencyOrder(g)
    <3>1. \A i, n \in 1 .. Len(g.mission) : n < i => g.mission[n][1] # g.mission[i][1]
      BY <1>3, <1>5, <2>3
    <3>2. ASSUME NEW i \in 1 .. Len(g.mission), NEW d \in g.steps[g.mission[i][1]].dependsOn
          PROVE  \E n \in 1 .. Len(g.mission) : n < i /\ g.steps[g.mission[n][1]].id = d
      <4>1. Len(g.mission) = N + 1
        BY <1>3, <1>5
      <4>2. i \in 1 .. N + 1 /\ d \in f.steps[A[i][1]].dependsOn
        BY <1>5, <3>2, <4>1
      <4>3. PICK n \in 1 .. N + 1 : n < i /\ f.steps[A[n][1]].id = d
        BY <2>5, <4>2
      <4>4. g.steps[g.mission[n][1]].id = d /\ n \in 1 .. Len(g.mission)
        BY <1>5, <4>1, <4>3
      <4>5. QED
        BY <4>3, <4>4
    <3>3. g.done = {g.steps[g.mission[n][1]].id : n \in Finished(g)}
      <4>1. \A n \in 1 .. N : g.steps[g.mission[n][1]].id = f.steps[A[n][1]].id
        BY <1>5
      <4>2. {g.steps[g.mission[n][1]].id : n \in 1 .. N} = {f.steps[A[n][1]].id : n \in 1 .. N}
        BY <4>1
      <4>3. QED
        BY <2>6, <2>7, <4>2
    <3>4. QED
      BY <3>1, <3>2, <3>3 DEF InDependencyOrder
  <2>9. QED
    BY <2>8 DEF InDependencyOrder, Finished
<1>14. ToldRight(g)'
  BY <1>5 DEF ToldRight
<1>15. QED
  BY <1>11, <1>12, <1>13, <1>14 DEF RunOK

\* A run that goes on from a step, or ends, without submitting anything.
LEMMA RunGoesOn ==
  ASSUME NEW f \in RunRecord, RunOK(f), NEW g \in RunRecord, UNCHANGED <<state, live, plans>>,
         g.plan = f.plan, g.steps = f.steps, g.left = f.left, g.mission = f.mission,
         g.at \in {"choose", "status"}, f.at \in {"choose", "wait"},
         g.at = "choose" \/ Completed(g) => Ran(f.mission[Len(f.mission)][2]) \/ f.at = "choose",
         g.at = "choose" => g.done = {f.steps[f.mission[n][1]].id : n \in 1 .. Len(f.mission)},
         ToldRight(g)
  PROVE  RunOK(g)'
<1>1. OfPlan(g)'
  BY DEF RunOK, OfPlan, Begun
<1>2. NoneFailed(g)'
  <2>1. Len(f.mission) \in Nat
    BY RunParts
  <2>2. \A n \in 1 .. Len(f.mission) : ~ (n < Len(f.mission)) => n = Len(f.mission)
    BY <2>1
  <2>3. \A n \in 1 .. Len(f.mission) :
          n < Len(f.mission) \/ g.at = "choose" \/ Completed(g) => Ran(f.mission[n][2])
    BY <2>2 DEF RunOK, NoneFailed
  <2>4. QED
    BY <2>3 DEF RunOK, NoneFailed, Ran, Completed, Told
<1>3. InDependencyOrder(g)'
  BY DEF RunOK, InDependencyOrder, Finished
<1>4. ToldRight(g)'
  BY DEF ToldRight, Blocked, Begun
<1>5. QED
  BY <1>1, <1>2, <1>3, <1>4 DEF RunOK

\* A run that has passed over its steps for the last time writes down what came of it.
LEMMA RunTells ==
  ASSUME NEW f \in RunRecord, RunOK(f), NEW g, UNCHANGED <<state, live>>,
         f.at \in {"status", "history"},
         \A p \in Plan : plans[p] \in PlanRecord => plans'[p] \in PlanRecord,
         NEW a \in {"history", "done"}, g = [f EXCEPT !.at = a], a = "history" => f.outcome # "stuck"
  PROVE  g \in RunRecord /\ RunOK(g)'
<1>1. /\ g.at = a /\ g.plan = f.plan /\ g.steps = f.steps /\ g.left = f.left
      /\ g.done = f.done /\ g.mission = f.mission /\ g.outcome = f.outcome /\ g \in RunRecord
  BY DEF RunRecord, Point
<1>2. OfPlan(g)' /\ NoneFailed(g)' /\ InDependencyOrder(g)'
  BY <1>1 DEF RunOK, OfPlan, Begun, NoneFailed, Ran, Completed, Told, InDependencyOrder, Finished
<1>3. ToldRight(g)'
  BY <1>1 DEF RunOK, ToldRight, Blocked, Begun
<1>4. QED
  BY <1>1, <1>2, <1>3 DEF RunOK

Chronicle == Seq([call : Call, outcome : Outcome])

\* One run moves, to a point where it is not in the history.
LEMMA OneMoves ==
  ASSUME WorkflowInv, [HostNext]_hostVars, NEW c \in Call, NEW g \in RunRecord, RunOK(g)',
         flow' = [flow EXCEPT ![c] = g], UNCHANGED runHistory,
         flow[c].at # "done", g.at # "done" \/ g.outcome = "stuck",
         plans' \in [Plan -> PlanRecord \cup {NoPlan}],
         \A p \in Plan : plans[p] \in PlanRecord => plans'[p] \in PlanRecord
  PROVE  WorkflowInv'
<1>1. HostTyped /\ HostTyped' /\ runHistory' \in Chronicle
  BY MissionsStay DEF WorkflowInv, Chronicle
<1>2. /\ flow' \in [Call -> RunRecord] /\ flow'[c] = g
      /\ \A d \in Call : d # c => flow'[d] = flow[d]
  BY DEF WorkflowInv
<1>3. ASSUME NEW d \in Call PROVE RunOK(flow[d])'
  <2>1. PICK h \in RunRecord : h = flow'[d] /\ RunOK(h)'
    <3>1. CASE d = c
      BY <1>2, <3>1
    <3>2. CASE d # c
      BY <1>1, <1>2, <3>2, RunStays DEF WorkflowInv
    <3>3. QED
      BY <3>1, <3>2
  <2>2. QED
    BY <2>1, SameRun
<1>4. ASSUME NEW d \in Call PROVE Entered(d)'
  <2>1. Entered(d)
    BY DEF WorkflowInv
  <2>2. CASE d = c
    BY <1>2, <2>1, <2>2 DEF Entered, Entries
  <2>3. CASE d # c
    BY <1>2, <2>1, <2>3 DEF Entered, Entries
  <2>4. QED
    BY <2>2, <2>3
<1>5. QED
  BY <1>1, <1>2, <1>3, <1>4 DEF WorkflowInv, Chronicle

\* No run moves.
LEMMA NoneMoves ==
  ASSUME WorkflowInv, [HostNext]_hostVars, UNCHANGED <<flow, runHistory>>,
         plans' \in [Plan -> PlanRecord \cup {NoPlan}],
         \A p \in Plan : plans[p] \in PlanRecord => plans'[p] \in PlanRecord
  PROVE  WorkflowInv'
<1>1. HostTyped /\ HostTyped'
  BY MissionsStay DEF WorkflowInv
<1>2. ASSUME NEW d \in Call PROVE RunOK(flow[d])'
  <2>1. PICK h \in RunRecord : h = flow[d] /\ RunOK(h)'
    BY <1>1, RunStays DEF WorkflowInv
  <2>2. QED
    BY <2>1, SameRun
<1>3. ASSUME NEW d \in Call PROVE Entered(d)'
  BY DEF WorkflowInv, Entered, Entries
<1>4. QED
  BY <1>1, <1>2, <1>3 DEF WorkflowInv

\* Plans are made and revised while they are run.
LEMMA RevisionKeeps ==
  ASSUME WorkflowInv, NEW p \in Plan, Create(p) \/ BumpVersion(p)
  PROVE  WorkflowInv'
<1>1. UNCHANGED <<flow, runHistory, hostVars>>
  BY DEF Create, BumpVersion
<1>2. plans \in [Plan -> PlanRecord \cup {NoPlan}]
  BY DEF WorkflowInv
<1>3. PICK r \in PlanRecord : plans' = [plans EXCEPT ![p] = r]
  <2>1. CASE Create(p)
    BY <2>1 DEF Create, PlanRecord
  <2>2. CASE BumpVersion(p)
    <3>1. plans[p] \in PlanRecord
      BY <1>2, <2>2 DEF BumpVersion
    <3>2. PICK steps \in StepList : plans' = [plans EXCEPT ![p].steps = steps]
      BY <2>2 DEF BumpVersion
    <3>3. [plans[p] EXCEPT !.steps = steps] \in PlanRecord
      BY <3>1 DEF PlanRecord
    <3>4. QED
      BY <3>2, <3>3
  <2>3. QED
    BY <2>1, <2>2
<1>4. plans' \in [Plan -> PlanRecord \cup {NoPlan}]
  BY <1>2, <1>3
<1>5. \A q \in Plan : plans[q] \in PlanRecord => plans'[q] \in PlanRecord
  BY <1>2, <1>3
<1>6. QED
  BY <1>1, <1>4, <1>5, NoneMoves

\* A run copies its plan.
LEMMA StartRunKeeps ==
  ASSUME WorkflowInv, NEW c \in Call, StartRun(c)
  PROVE  WorkflowInv'
<1>1. PICK p \in Plan :
        /\ plans[p] # NoPlan
        /\ flow' = [flow EXCEPT ![c] = [NoFlow EXCEPT !.at = "choose", !.plan = p,
                                          !.steps = plans[p].steps, !.left = DOMAIN plans[p].steps]]
  BY DEF StartRun
<1>2. UNCHANGED <<plans, runHistory, hostVars>> /\ flow[c].at = "idle"
  BY DEF StartRun
<1>3. plans \in [Plan -> PlanRecord \cup {NoPlan}] /\ plans[p] \in PlanRecord
  BY <1>1 DEF WorkflowInv
<1>4. PICK g : g = [NoFlow EXCEPT !.at = "choose", !.plan = p, !.steps = plans[p].steps,
                                  !.left = DOMAIN plans[p].steps]
  OBVIOUS
<1>5. g \in RunRecord /\ RunOK(g)'
  BY <1>2, <1>3, <1>4, RunStarts
<1>6. g.at = "choose"
  BY <1>4 DEF NoFlow
<1>7. flow' = [flow EXCEPT ![c] = g]
  BY <1>1, <1>4
<1>8. QED
  BY <1>2, <1>3, <1>5, <1>6, <1>7, OneMoves

\* A step is begun, or its mission refused.
LEMMA SubmitStepKeeps ==
  ASSUME WorkflowInv, NEW c \in Call, SubmitStep(c)
  PROVE  WorkflowInv'
<1>1. PICK f \in RunRecord : f = flow[c] /\ RunOK(f)
  BY DEF WorkflowInv
<1>2. /\ UNCHANGED <<plans, runHistory>> /\ f.at = "choose" /\ HostTyped
      /\ plans \in [Plan -> PlanRecord \cup {NoPlan}]
  BY <1>1 DEF SubmitStep, WorkflowInv
<1>3. ASSUME NEW k \in NextSteps(c), NEW m \in Mission, SubmitFresh(m),
             flow' = [flow EXCEPT ![c] =
                        [@ EXCEPT !.at = "wait", !.last = k, !.left = flow[c].left \ {k},
                                  !.mission = Append(flow[c].mission, <<k, m>>)]]
      PROVE  WorkflowInv'
  <2>1. k \in f.left /\ f.steps[k].dependsOn \subseteq f.done
    BY <1>1 DEF NextSteps, Ready
  <2>2. k \in Nat /\ f.left \in SUBSET Nat
    BY <2>1 DEF RunRecord
  <2>3. Append(f.mission, <<k, m>>) \in Seq(Nat \X Mission)
    BY <2>2, AppendProperties DEF RunRecord
  <2>4. PICK b \in Seq(Nat \X Mission) : b = Append(f.mission, <<k, m>>)
    BY <2>3
  <2>5. PICK l \in SUBSET Nat : l = f.left \ {k}
    BY <2>2
  <2>6. ASSUME NEW h \in RunRecord, NEW a \in Point
        PROVE  /\ [h EXCEPT !.at = a] \in RunRecord /\ [h EXCEPT !.last = k] \in RunRecord
               /\ [h EXCEPT !.left = l] \in RunRecord /\ [h EXCEPT !.mission = b] \in RunRecord
    BY <2>2 DEF RunRecord
  <2>7. PICK g : g = [f EXCEPT !.at = "wait", !.last = k, !.left = l, !.mission = b]
    OBVIOUS
  <2>8. /\ g \in RunRecord /\ g.at = "wait" /\ g.plan = f.plan /\ g.steps = f.steps
         /\ g.left = l /\ g.done = f.done /\ g.mission = b
    <3>1. g \in RunRecord
      BY <2>6, <2>7 DEF Point
    <3>2. QED
      BY <2>7, <3>1 DEF RunRecord
  <2>9. /\ g \in RunRecord /\ g.at = "wait" /\ g.plan = f.plan /\ g.steps = f.steps
        /\ g.left = f.left \ {k} /\ g.done = f.done /\ g.mission = Append(f.mission, <<k, m>>)
    BY <2>4, <2>5, <2>8
  <2>10. flow' = [flow EXCEPT ![c] = g]
    BY <1>1, <1>3, <2>4, <2>5, <2>7
  <2>11. SubmitMission(m) /\ [HostNext]_hostVars
    BY <1>3 DEF SubmitFresh, HostNext
  <2>12. RunOK(g)'
    BY <1>1, <1>2, <2>1, <2>9, <2>11, RunSubmits
  <2>13. QED
    BY <1>1, <1>2, <2>9, <2>10, <2>11, <2>12, OneMoves
<1>4. ASSUME flow' = [flow EXCEPT ![c] = [@ EXCEPT !.at = "status", !.outcome = "failed"]],
             UNCHANGED hostVars
      PROVE  WorkflowInv'
  <2>1. PICK g : g = [f EXCEPT !.at = "status", !.outcome = "failed"]
    OBVIOUS
  <2>2. /\ g \in RunRecord /\ g.at = "status" /\ g.plan = f.plan /\ g.steps = f.steps
        /\ g.left = f.left /\ g.mission = f.mission /\ g.outcome = "failed"
    BY <2>1 DEF RunRecord, Point, Outcome
  <2>3. ToldRight(g)
    BY <2>2 DEF ToldRight
  <2>4. RunOK(g)'
    BY <1>1, <1>2, <1>4, <2>2, <2>3, RunGoesOn DEF hostVars, Completed
  <2>5. flow' = [flow EXCEPT ![c] = g]
    BY <1>1, <1>4, <2>1
  <2>6. QED
    BY <1>1, <1>2, <1>4, <2>2, <2>4, <2>5, OneMoves
<1>5. QED
  BY <1>3, <1>4 DEF SubmitStep

\* The mission of a step has returned: the run goes on, or ends because it failed.
LEMMA EndStepKeeps ==
  ASSUME WorkflowInv, NEW c \in Call, EndStep(c)
  PROVE  WorkflowInv'
<1>1. PICK f \in RunRecord : f = flow[c] /\ RunOK(f)
  BY DEF WorkflowInv
<1>2. /\ UNCHANGED <<plans, runHistory, state, live>> /\ f.at = "wait" /\ HostTyped
      /\ plans \in [Plan -> PlanRecord \cup {NoPlan}]
  BY <1>1 DEF EndStep, WorkflowInv, hostVars
<1> DEFINE N == Len(f.mission)
           k == f.mission[N][1]
           m == f.mission[N][2]
<1>3. N \in 1 .. N /\ N \in Nat /\ 1 .. N = (1 .. N - 1) \cup {N}
  <2>1. f.mission # <<>> /\ f.mission \in Seq(Nat \X Mission)
    BY <1>1, <1>2 DEF RunOK, NoneFailed, RunRecord
  <2>2. N \in Nat \ {0}
    BY <2>1, EmptySeq
  <2>3. QED
    BY <2>2
<1>4. k \in DOMAIN f.steps /\ f.steps[k].id \in StepId
  BY <1>1, <1>3, RunParts DEF RunOK, OfPlan, Begun
<1>5. /\ Returned(m)
      /\ flow' = [flow EXCEPT ![c] =
                    IF state[m] = "failed"
                    THEN [@ EXCEPT !.at = "status", !.outcome = "failed"]
                    ELSE [@ EXCEPT !.at = "choose", !.done = f.done \cup {f.steps[k].id}]]
  BY <1>1 DEF EndStep, Current
<1>6. CASE state[m] = "failed"
  <2>1. PICK g : g = [f EXCEPT !.at = "status", !.outcome = "failed"]
    OBVIOUS
  <2>2. /\ g \in RunRecord /\ g.at = "status" /\ g.plan = f.plan /\ g.steps = f.steps
        /\ g.left = f.left /\ g.mission = f.mission /\ g.outcome = "failed"
    BY <2>1 DEF RunRecord, Point, Outcome
  <2>3. ToldRight(g)
    BY <2>2 DEF ToldRight
  <2>4. RunOK(g)'
    BY <1>1, <1>2, <2>2, <2>3, RunGoesOn DEF Completed
  <2>5. flow' = [flow EXCEPT ![c] = g]
    BY <1>1, <1>5, <1>6, <2>1
  <2>6. QED
    BY <1>1, <1>2, <2>2, <2>4, <2>5, OneMoves DEF hostVars
<1>7. CASE state[m] # "failed"
  <2>1. PICK e \in SUBSET StepId : e = f.done \cup {f.steps[k].id}
    BY <1>4 DEF RunRecord
  <2>2. PICK g : g = [f EXCEPT !.at = "choose", !.done = e]
    OBVIOUS
  <2>3. /\ g \in RunRecord /\ g.at = "choose" /\ g.plan = f.plan /\ g.steps = f.steps
        /\ g.left = f.left /\ g.mission = f.mission /\ g.done = e
    BY <2>2 DEF RunRecord, Point
  <2>4. ToldRight(g)
    BY <2>3 DEF ToldRight
  <2>5. Ran(m)
    BY <1>5, <1>7 DEF Returned, Ran
  <2>6. e = {f.steps[f.mission[n][1]].id : n \in 1 .. Len(f.mission)}
    <3>1. f.done = {f.steps[f.mission[n][1]].id : n \in 1 .. N - 1}
      BY <1>1, <1>2 DEF RunOK, InDependencyOrder, Finished
    <3>2. QED
      BY <1>3, <2>1, <3>1
  <2>7. RunOK(g)'
    BY <1>1, <1>2, <2>3, <2>4, <2>5, <2>6, RunGoesOn
  <2>8. flow' = [flow EXCEPT ![c] = g]
    BY <1>1, <1>5, <1>7, <2>1, <2>2
  <2>9. QED
    BY <1>1, <1>2, <2>3, <2>7, <2>8, OneMoves DEF hostVars
<1>8. QED
  BY <1>6, <1>7

\* A pass over the steps finds none that is ready: all are done, or the rest is stuck.
LEMMA EndPassesKeeps ==
  ASSUME WorkflowInv, NEW c \in Call, EndPasses(c)
  PROVE  WorkflowInv'
<1>1. PICK f \in RunRecord : f = flow[c] /\ RunOK(f)
  BY DEF WorkflowInv
<1>2. /\ UNCHANGED <<plans, runHistory, state, live>> /\ f.at = "choose" /\ HostTyped
      /\ plans \in [Plan -> PlanRecord \cup {NoPlan}] /\ NextSteps(c) = {}
  BY <1>1 DEF EndPasses, WorkflowInv, hostVars, Exhausted
<1>3. PICK o \in Outcome : o = IF f.left = {} THEN "completed" ELSE "stuck"
  BY DEF Outcome
<1>4. PICK g : g = [f EXCEPT !.at = "status", !.outcome = o]
  OBVIOUS
<1>5. /\ g \in RunRecord /\ g.at = "status" /\ g.plan = f.plan /\ g.steps = f.steps
      /\ g.left = f.left /\ g.mission = f.mission /\ g.outcome = o
  BY <1>4 DEF RunRecord, Point
<1>6. ASSUME NEW k \in f.left PROVE Blocked(f, k)
  <2>1. f.left \in SUBSET Nat
    BY DEF RunRecord
  <2>2. ~ (f.steps[k].dependsOn \subseteq f.done)
    BY <1>1, <1>2, <2>1, NoneReady DEF Ready
  <2>3. f.done = {f.steps[f.mission[n][1]].id : n \in 1 .. Len(f.mission)}
    BY <1>1, <1>2 DEF RunOK, InDependencyOrder, Finished
  <2>4. PICK d \in f.steps[k].dependsOn : d \notin f.done
    BY <2>2
  <2>5. ASSUME NEW j \in Begun(f) PROVE f.steps[j].id # d
    <3>1. PICK n \in 1 .. Len(f.mission) : j = f.mission[n][1]
      BY RunParts DEF Begun
    <3>2. QED
      BY <2>3, <2>4, <3>1
  <2>6. QED
    BY <2>4, <2>5 DEF Blocked
<1>7. ToldRight(g)
  <2>1. \A k \in f.left : Blocked(g, k)
    BY <1>5, <1>6 DEF Blocked, Begun
  <2>2. QED
    BY <1>3, <1>5, <2>1 DEF ToldRight
<1>8. RunOK(g)'
  BY <1>1, <1>2, <1>5, <1>7, RunGoesOn
<1>9. flow' = [flow EXCEPT ![c] = g]
  BY <1>1, <1>3, <1>4 DEF EndPasses
<1>10. QED
  BY <1>1, <1>2, <1>5, <1>8, <1>9, OneMoves DEF hostVars

\* The plan is given the status of the run.
LEMMA SetStatusKeeps ==
  ASSUME WorkflowInv, NEW c \in Call, SetStatus(c)
  PROVE  WorkflowInv'
<1>1. PICK f \in RunRecord : f = flow[c] /\ RunOK(f)
  BY DEF WorkflowInv
<1>2. /\ UNCHANGED <<runHistory, state, live>> /\ f.at = "status" /\ HostTyped
      /\ plans \in [Plan -> PlanRecord \cup {NoPlan}]
  BY <1>1 DEF SetStatus, WorkflowInv, hostVars
<1>3. PICK s \in {"completed", "failed"} : plans' = [plans EXCEPT ![f.plan].status = s]
  BY <1>1 DEF SetStatus
<1>4. f.plan \in Plan /\ plans[f.plan] \in PlanRecord
  BY <1>1, <1>2 DEF RunOK, OfPlan
<1>5. [plans[f.plan] EXCEPT !.status = s] \in PlanRecord
  BY <1>4 DEF PlanRecord
<1>6. plans' \in [Plan -> PlanRecord \cup {NoPlan}]
  BY <1>2, <1>3, <1>5
<1>7. \A p \in Plan : plans[p] \in PlanRecord => plans'[p] \in PlanRecord
  BY <1>2, <1>3, <1>4, <1>5
<1>8. PICK a \in {"history", "done"} : a = IF f.outcome = "stuck" THEN "done" ELSE "history"
  OBVIOUS
<1>9. PICK g : g = [f EXCEPT !.at = a]
  OBVIOUS
<1>10. g \in RunRecord /\ RunOK(g)'
  BY <1>1, <1>2, <1>7, <1>8, <1>9, RunTells
<1>11. flow' = [flow EXCEPT ![c] = g]
  BY <1>1, <1>8, <1>9 DEF SetStatus
<1>12. g.at = a /\ g.outcome = f.outcome
  BY <1>9 DEF RunRecord
<1>13. QED
  BY <1>1, <1>2, <1>6, <1>7, <1>8, <1>10, <1>11, <1>12, OneMoves DEF hostVars

\* The run enters the history.
LEMMA AppendRunKeeps ==
  ASSUME WorkflowInv, NEW c \in Call, AppendRun(c)
  PROVE  WorkflowInv'
<1>1. PICK f \in RunRecord : f = flow[c] /\ RunOK(f)
  BY DEF WorkflowInv
<1>2. /\ UNCHANGED <<plans, state, live>> /\ f.at = "history" /\ HostTyped
      /\ plans \in [Plan -> PlanRecord \cup {NoPlan}] /\ f.outcome # "stuck" /\ f.outcome \in Outcome
  BY <1>1 DEF AppendRun, WorkflowInv, hostVars, RunOK, ToldRight, RunRecord
<1>3. PICK g : g = [f EXCEPT !.at = "done"]
  OBVIOUS
<1>4. g \in RunRecord /\ RunOK(g)' /\ g.at = "done" /\ g.outcome = f.outcome
  BY <1>1, <1>2, <1>3, RunTells DEF RunRecord, Point
<1>5. flow' = [flow EXCEPT ![c] = g]
  BY <1>1, <1>3 DEF AppendRun
<1>6. /\ flow' \in [Call -> RunRecord] /\ flow'[c] = g
      /\ \A d \in Call : d # c => flow'[d] = flow[d]
  BY <1>4, <1>5 DEF WorkflowInv
<1>7. ASSUME NEW d \in Call PROVE RunOK(flow[d])'
  <2>1. PICK h \in RunRecord : h = flow'[d] /\ RunOK(h)'
    <3>1. CASE d = c
      BY <1>4, <1>6, <3>1
    <3>2. CASE d # c
      BY <1>2, <1>6, <3>2, RunStays DEF WorkflowInv, hostVars
    <3>3. QED
      BY <3>1, <3>2
  <2>2. QED
    BY <2>1, SameRun
<1> DEFINE L == Len(runHistory)
           r == [call |-> c, outcome |-> f.outcome]
<1>8. runHistory \in Chronicle /\ r \in [call : Call, outcome : Outcome]
  BY <1>2 DEF WorkflowInv, Chronicle
<1>9. runHistory' = Append(runHistory, r)
  BY <1>1 DEF AppendRun
<1>10. L \in Nat /\ DOMAIN runHistory = 1 .. L
  BY <1>8, LenProperties DEF Chronicle
<1>11. /\ runHistory' \in Chronicle /\ Len(runHistory') = L + 1
       /\ \A n \in 1 .. L : runHistory'[n] = runHistory[n]
       /\ runHistory'[L + 1] = r
  BY <1>8, <1>9, AppendProperties DEF Chronicle
<1>12. DOMAIN runHistory' = 1 .. L + 1
  BY <1>11, LenProperties DEF Chronicle
<1> HIDE DEF L
<1>13. 1 .. L + 1 = (1 .. L) \cup {L + 1} /\ L + 1 \notin 1 .. L
  BY <1>10
<1>14. ASSUME NEW d \in Call PROVE Entries(d)' = IF d = c THEN Entries(d) \cup {L + 1} ELSE Entries(d)
  <2>1. \A n : n \in Entries(d)' <=> n \in 1 .. L + 1 /\ runHistory'[n].call = d
    BY <1>12 DEF Entries
  <2>2. \A n : n \in Entries(d) <=> n \in 1 .. L /\ runHistory[n].call = d
    BY <1>10 DEF Entries
  <2>3. runHistory'[L + 1].call = c
    BY <1>11
  <2>4. QED
    BY <1>11, <1>13, <2>1, <2>2, <2>3
<1>15. Entered(c)'
  <2>1. Entries(c) = {}
    BY <1>1, <1>2 DEF WorkflowInv, Entered
  <2>2. Entries(c)' = {L + 1}
    BY <1>14, <2>1
  <2>3. L + 1 \in DOMAIN runHistory' /\ runHistory'[L + 1].outcome = f.outcome
    BY <1>11, <1>12, <1>13
  <2>4. QED
    BY <1>2, <1>4, <1>6, <2>2, <2>3 DEF Entered
<1>16. ASSUME NEW d \in Call, d # c PROVE Entered(d)'
  <2>1. Entries(d)' = Entries(d) /\ flow'[d] = flow[d] /\ Entered(d)
    BY <1>6, <1>14, <1>16 DEF WorkflowInv
  <2>2. ASSUME NEW n \in DOMAIN runHistory
        PROVE  n \in DOMAIN runHistory' /\ runHistory'[n] = runHistory[n]
    BY <1>10, <1>11, <1>12, <1>13
  <2>3. QED
    BY <2>1, <2>2 DEF Entered
<1>17. QED
  BY <1>2, <1>6, <1>7, <1>11, <1>15, <1>16 DEF WorkflowInv, Chronicle, HostTyped

\* Every step of any service preserves what is known of the runs of plans.
LEMMA WorkflowStep ==
  ASSUME WorkflowInv, [HostNext]_hostVars, WorkflowNext \/ UNCHANGED workflowVars
  PROVE  WorkflowInv'
<1>1. ASSUME UNCHANGED workflowVars PROVE WorkflowInv'
  <2>1. UNCHANGED <<plans, flow, runHistory>>
    BY <1>1 DEF workflowVars
  <2>2. plans' \in [Plan -> PlanRecord \cup {NoPlan}]
    BY <2>1 DEF WorkflowInv
  <2>3. QED
    BY <2>1, <2>2, NoneMoves
<1>2. ASSUME NEW p \in Plan, Create(p) \/ BumpVersion(p) PROVE WorkflowInv'
  BY <1>2, RevisionKeeps
<1>3. ASSUME NEW c \in Call, StartRun(c) \/ RunPlan(c) PROVE WorkflowInv'
  BY <1>3, StartRunKeeps, SubmitStepKeeps, EndStepKeeps, EndPassesKeeps, SetStatusKeeps,
     AppendRunKeeps DEF RunPlan
<1>4. ASSUME MissionStep PROVE WorkflowInv'
  <2>1. UNCHANGED <<plans, flow, runHistory>>
    BY <1>4 DEF MissionStep
  <2>2. plans' \in [Plan -> PlanRecord \cup {NoPlan}]
    BY <2>1 DEF WorkflowInv
  <2>3. QED
    BY <2>1, <2>2, NoneMoves
<1>5. QED
  BY <1>1, <1>2, <1>3, <1>4 DEF WorkflowNext

\* Nothing has been planned or run.
LEMMA InitWorkflow ==
  ASSUME HostInit, WorkflowInit
  PROVE  WorkflowInv
<1>1. HostTyped
  BY DEF HostInit, HostTyped, MissionState
<1>2. plans \in [Plan -> PlanRecord \cup {NoPlan}]
  BY DEF WorkflowInit
<1>3. NoFlow \in RunRecord
  BY DEF NoFlow, RunRecord, Point, Outcome
<1>4. flow \in [Call -> RunRecord] /\ \A c \in Call : flow[c] = NoFlow
  BY <1>3 DEF WorkflowInit
<1>5. runHistory \in Seq([call : Call, outcome : Outcome]) /\ DOMAIN runHistory = {}
  BY DEF WorkflowInit
<1>6. Len(NoFlow.mission) = 0 /\ DOMAIN NoFlow.mission = {} /\ DOMAIN NoFlow.steps = {}
  BY EmptySeq DEF NoFlow
<1>7. RunOK(NoFlow)
  <2>1. Begun(NoFlow) = {}
    BY <1>6 DEF Begun
  <2>2. OfPlan(NoFlow)
    BY <1>6, <2>1 DEF OfPlan, NoFlow
  <2>3. NoneFailed(NoFlow)
    BY <1>6 DEF NoneFailed, Completed, Told, NoFlow
  <2>4. InDependencyOrder(NoFlow)
    BY <1>6 DEF InDependencyOrder, NoFlow
  <2>5. ToldRight(NoFlow)
    BY DEF ToldRight, NoFlow
  <2>6. QED
    BY <2>2, <2>3, <2>4, <2>5 DEF RunOK
<1>8. ASSUME NEW c \in Call PROVE Entered(c)
  <2>1. flow[c].at = "idle"
    BY <1>4 DEF NoFlow
  <2>2. QED
    BY <1>5, <2>1 DEF Entered, Entries
<1>9. QED
  BY <1>1, <1>2, <1>4, <1>5, <1>7, <1>8 DEF WorkflowInv

\* What is known of runs of plans holds throughout.
LEMMA WorkflowInvariance == Spec => []WorkflowInv
<1>1. WorkflowInv /\ [Next]_vars => WorkflowInv'
  BY SubmitsOnly, OneService, WorkflowStep
<1>2. QED
  BY <1>1, InitWorkflow, PTL DEF Spec, Init

\* A mission that has failed stays so, or is cancelled; none fails but in its run.
LEMMA FailuresStay ==
  ASSUME HostTyped, FailuresRecorded, [Next]_vars
  PROVE  FailuresRecorded' /\ failedRuns \subseteq failedRuns'
<1>1. [HostNext]_hostVars
  BY SubmitsOnly
<1>2. ASSUME NEW m \in Mission, m \notin live, state[m] \in {"failed", "cancelled"}
      PROVE  m \notin live' /\ state'[m] \in {"failed", "cancelled"}
  <2>1. CASE UNCHANGED hostVars
    BY <1>2, <2>1 DEF hostVars
  <2>2. ASSUME NEW k \in Mission, SubmitMission(k) \/ Conclude(k) \/ CancelMission(k)
        PROVE  m \notin live' /\ state'[m] \in {"failed", "cancelled"}
    BY <1>2, <2>2 DEF SubmitMission, Conclude, CancelMission, HostTyped
  <2>3. QED
    BY <1>1, <2>1, <2>2 DEF HostNext, KernelStep
<1>3. CASE MissionStep /\ UNCHANGED service
  <2>1. failedRuns' = failedRuns \cup {m \in live \ live' : state'[m] = "failed"}
    BY <1>3 DEF MissionStep
  <2>2. PICK k \in Mission : Conclude(k) \/ CancelMission(k)
    BY <1>3 DEF MissionStep, KernelStep
  <2>3. ASSUME NEW m \in live \ live' PROVE m \in Mission
    BY <2>2 DEF Conclude, CancelMission
  <2>4. ASSUME NEW m \in Mission \ live', state'[m] = "failed", service = "workflow"
        PROVE  m \in failedRuns'
    <3>1. CASE m \in live
      BY <2>1, <2>4, <3>1
    <3>2. CASE m \notin live
      <4>1. CASE m # k
        <5>1. state[m] = "failed"
          BY <2>2, <2>4, <4>1 DEF Conclude, CancelMission, HostTyped
        <5>2. m \in failedRuns
          BY <2>4, <3>2, <5>1 DEF FailuresRecorded
        <5>3. QED
          BY <2>1, <5>2
      <4>2. CASE m = k
        <5>1. state'[m] = "cancelled"
          BY <2>2, <3>2, <4>2 DEF Conclude, CancelMission, HostTyped
        <5>2. QED
          BY <2>4, <5>1
      <4>3. QED
        BY <4>1, <4>2
    <3>3. QED
      BY <3>1, <3>2
  <2>5. QED
    BY <1>2, <1>3, <2>1, <2>3, <2>4 DEF FailuresRecorded
<1>4. CASE /\ UNCHANGED <<service, failedRuns>>
           /\ service # "workflow" \/ UNCHANGED hostVars \/ \E k \in Mission : SubmitMission(k)
  <2>1. ASSUME NEW m \in Mission \ live', state'[m] = "failed", service = "workflow"
        PROVE  m \in failedRuns
    BY <1>4, <2>1 DEF SubmitMission, HostTyped, FailuresRecorded, hostVars
  <2>2. QED
    BY <1>2, <1>4, <2>1 DEF FailuresRecorded
<1>5. ASSUME WorkflowNext
      PROVE  \/ MissionStep
             \/ /\ UNCHANGED failedRuns
                /\ UNCHANGED hostVars \/ \E k \in Mission : SubmitMission(k)
  BY <1>5 DEF WorkflowNext, Create, BumpVersion, StartRun, RunPlan, SubmitStep, SubmitFresh,
     EndStep, EndPasses, SetStatus, AppendRun
<1>6. QED
  BY <1>3, <1>4, <1>5 DEF Next, vars, workflowVars

\* A run that does not move is accused of what it was; one that moves and tells of a failure
\* has been refused a mission, or has read that one failed.
LEMMA AccusedStays ==
  ASSUME NEW f, Accused(f), failedRuns \subseteq failedRuns', NEW g,
         g.left = f.left, g.mission = f.mission,
         Told(g) /\ g.outcome = "failed" => Told(f) /\ f.outcome = "failed"
  PROVE  Accused(g)'
BY DEF Accused, Told

LEMMA FailureStep ==
  ASSUME WorkflowInv, FailureInv, [Next]_vars
  PROVE  FailureInv'
<1>1. FailuresRecorded' /\ failedRuns \subseteq failedRuns'
  BY FailuresStay DEF WorkflowInv, FailureInv
<1>2. flow \in [Call -> RunRecord] /\ \A c \in Call : Accused(flow[c])
  BY DEF WorkflowInv, FailureInv
<1>3. ASSUME NEW c \in Call, NEW g, flow' = [flow EXCEPT ![c] = g], Accused(g)'
      PROVE  FailureInv'
  <2>1. flow'[c] = g /\ \A d \in Call : d # c => flow'[d] = flow[d]
    BY <1>2, <1>3
  <2>2. ASSUME NEW d \in Call PROVE Accused(flow[d])'
    <3>1. CASE d = c
      BY <1>3, <2>1, <3>1 DEF Accused, Told
    <3>2. CASE d # c
      BY <1>1, <1>2, <2>1, <3>2 DEF Accused, Told
    <3>3. QED
      BY <3>1, <3>2
  <2>3. QED
    BY <1>1, <2>2 DEF FailureInv
<1>4. ASSUME UNCHANGED flow PROVE FailureInv'
  BY <1>1, <1>2, <1>4 DEF FailureInv, Accused, Told
<1>5. ASSUME NEW c \in Call, StartRun(c) PROVE FailureInv'
  <2>1. PICK p \in Plan : flow' = [flow EXCEPT ![c] =
                            [NoFlow EXCEPT !.at = "choose", !.plan = p, !.steps = plans[p].steps,
                                           !.left = DOMAIN plans[p].steps]]
    BY <1>5 DEF StartRun
  <2>2. PICK g : g = [NoFlow EXCEPT !.at = "choose", !.plan = p, !.steps = plans[p].steps,
                                    !.left = DOMAIN plans[p].steps]
    OBVIOUS
  <2>3. g.at = "choose"
    BY <2>2 DEF NoFlow
  <2>4. QED
    BY <1>3, <2>1, <2>2, <2>3 DEF Accused, Told
<1>6. ASSUME NEW c \in Call, SubmitStep(c) PROVE FailureInv'
  <2>1. PICK f \in RunRecord : f = flow[c]
    BY <1>2
  <2>2. PICK k \in NextSteps(c) :
          \/ \E m \in Mission : flow' = [flow EXCEPT ![c] =
                                  [@ EXCEPT !.at = "wait", !.last = k, !.left = flow[c].left \ {k},
                                            !.mission = Append(flow[c].mission, <<k, m>>)]]
          \/ flow' = [flow EXCEPT ![c] = [@ EXCEPT !.at = "status", !.outcome = "failed"]]
    BY <1>6 DEF SubmitStep
  <2>3. ASSUME NEW m \in Mission,
               flow' = [flow EXCEPT ![c] =
                          [@ EXCEPT !.at = "wait", !.last = k, !.left = flow[c].left \ {k},
                                    !.mission = Append(flow[c].mission, <<k, m>>)]]
        PROVE  FailureInv'
    <3>1. PICK g : g = [f EXCEPT !.at = "wait", !.last = k, !.left = flow[c].left \ {k},
                                 !.mission = Append(flow[c].mission, <<k, m>>)]
      OBVIOUS
    <3>2. g.at = "wait"
      BY <3>1 DEF RunRecord
    <3>3. QED
      BY <1>3, <2>1, <2>3, <3>1, <3>2 DEF Accused, Told
  <2>4. ASSUME flow' = [flow EXCEPT ![c] = [@ EXCEPT !.at = "status", !.outcome = "failed"]]
        PROVE  FailureInv'
    <3>1. PICK g : g = [f EXCEPT !.at = "status", !.outcome = "failed"]
      OBVIOUS
    <3>2. g.left = f.left
      BY <3>1 DEF RunRecord
    <3>3. f.left # {}
      BY <2>1, <2>2 DEF NextSteps
    <3>4. QED
      BY <1>3, <2>1, <2>4, <3>1, <3>2, <3>3 DEF Accused
  <2>5. QED
    BY <2>2, <2>3, <2>4
<1>7. ASSUME NEW c \in Call, EndStep(c) PROVE FailureInv'
  <2>1. PICK f \in RunRecord : f = flow[c] /\ RunOK(f)
    BY DEF WorkflowInv
  <2> DEFINE m == f.mission[Len(f.mission)][2]
  <2>2. m \notin live /\ f.at = "wait" /\ UNCHANGED failedRuns
    BY <1>7, <2>1 DEF EndStep, Returned, Current
  <2>3. f.mission # <<>> /\ m \in Mission
    <3>1. f.mission # <<>> /\ f.mission \in Seq(Nat \X Mission)
      BY <2>1, <2>2 DEF RunOK, NoneFailed, RunRecord
    <3>2. Len(f.mission) \in 1 .. Len(f.mission)
      BY <3>1, EmptySeq, LenProperties
    <3>3. QED
      BY <3>1, <3>2, RunParts
  <2>4. PICK b : b = flow[c].done \cup {flow[c].steps[Current(c)[1]].id}
    OBVIOUS
  <2>5. \/ /\ state[m] = "failed"
           /\ flow' = [flow EXCEPT ![c] = [f EXCEPT !.at = "status", !.outcome = "failed"]]
        \/ flow' = [flow EXCEPT ![c] = [f EXCEPT !.at = "choose", !.done = b]]
    BY <1>7, <2>1, <2>4 DEF EndStep, Current
  <2>6. CASE /\ state[m] = "failed"
             /\ flow' = [flow EXCEPT ![c] = [f EXCEPT !.at = "status", !.outcome = "failed"]]
    <3>1. PICK g : g = [f EXCEPT !.at = "status", !.outcome = "failed"]
      OBVIOUS
    <3>2. g.mission = f.mission
      BY <3>1 DEF RunRecord
    <3>3. service = "workflow" \/ UNCHANGED flow
      BY DEF Next, vars, workflowVars
    <3>4. CASE service = "workflow"
      <4>1. m \in failedRuns'
        BY <2>2, <2>3, <2>6, <3>4 DEF FailureInv, FailuresRecorded
      <4>2. QED
        BY <1>3, <2>3, <2>6, <3>1, <3>2, <4>1 DEF Accused
    <3>5. QED
      BY <1>4, <3>3, <3>4
  <2>7. CASE flow' = [flow EXCEPT ![c] = [f EXCEPT !.at = "choose", !.done = b]]
    <3>1. PICK g : g = [f EXCEPT !.at = "choose", !.done = b]
      OBVIOUS
    <3>2. g.at = "choose"
      BY <3>1 DEF RunRecord
    <3>3. QED
      BY <1>3, <2>7, <3>1, <3>2 DEF Accused, Told
  <2>8. QED
    BY <2>5, <2>6, <2>7
<1>8. ASSUME NEW c \in Call, EndPasses(c) PROVE FailureInv'
  <2>1. PICK f \in RunRecord : f = flow[c]
    BY <1>2
  <2>2. PICK o \in {"completed", "stuck"} : o = IF flow[c].left = {} THEN "completed" ELSE "stuck"
    OBVIOUS
  <2>3. PICK g : g = [f EXCEPT !.at = "status", !.outcome = o]
    OBVIOUS
  <2>4. g.outcome = o
    BY <2>3 DEF RunRecord
  <2>5. QED
    BY <1>3, <1>8, <2>1, <2>2, <2>3, <2>4 DEF EndPasses, Accused
<1>9. ASSUME NEW c \in Call, SetStatus(c) \/ AppendRun(c) PROVE FailureInv'
  <2>1. PICK f \in RunRecord : f = flow[c]
    BY <1>2
  <2>2. PICK a : flow' = [flow EXCEPT ![c].at = a] /\ f.at \in {"status", "history"}
    BY <1>9, <2>1 DEF SetStatus, AppendRun
  <2>3. PICK g : g = [f EXCEPT !.at = a]
    OBVIOUS
  <2>4. g.left = f.left /\ g.mission = f.mission /\ g.outcome = f.outcome
    BY <2>3 DEF RunRecord
  <2>5. Accused(g)'
    BY <1>1, <1>2, <2>1, <2>2, <2>4, AccusedStays DEF Told
  <2>6. QED
    BY <1>3, <2>1, <2>2, <2>3, <2>5
<1>10. WorkflowNext \/ UNCHANGED workflowVars
  BY OneService
<1>11. QED
  BY <1>4, <1>5, <1>6, <1>7, <1>8, <1>9, <1>10
     DEF WorkflowNext, RunPlan, Create, BumpVersion, MissionStep, workflowVars

LEMMA FailureInvariance == Spec => []FailureInv
<1>1. Init => FailureInv
  <2> SUFFICES ASSUME Init PROVE FailureInv
    OBVIOUS
  <2>1. failedRuns = {} /\ \A m \in Mission : state[m] = "absent"
    BY DEF Init, WorkflowInit, HostInit
  <2>2. \A c \in Call : flow[c].at = "idle"
    BY DEF Init, WorkflowInit, NoFlow
  <2>3. QED
    BY <2>1, <2>2 DEF FailureInv, FailuresRecorded, Accused, Told
<1>2. QED
  BY <1>1, FailureStep, WorkflowInvariance, PTL DEF Spec

\* The missions a run has gone on from: none has failed, but for a failure that the record no
\* longer shows because the mission has been cancelled.
LEMMA RanPasses ==
  ASSUME FailureInv, NEW m, Ran(m)
  PROVE  Passes(m)
BY DEF FailureInv, FailuresRecorded, Ran, Passes

\* The steps of a run of a plan are begun once, in the order of their dependencies; none is
\* begun while the mission of another is live, nor after it has failed, unless that mission
\* has been cancelled (orch.go:56-70, 96-108).
THEOREM StepsInDependencyOrder == Spec => []DependenciesFirst
<1>1. WorkflowInv /\ FailureInv => DependenciesFirst
  <2> SUFFICES ASSUME WorkflowInv, FailureInv, NEW c \in Call, NEW i \in DOMAIN flow[c].mission
               PROVE  LET started == flow[c].mission
                      IN /\ \A n \in 1 .. i - 1 :
                              Passes(started[n][2]) /\ started[n][1] # started[i][1]
                         /\ \A d \in flow[c].steps[started[i][1]].dependsOn :
                              \E n \in 1 .. i - 1 : flow[c].steps[started[n][1]].id = d
    BY DEF DependenciesFirst
  <2>1. PICK f \in RunRecord : f = flow[c] /\ RunOK(f)
    BY DEF WorkflowInv
  <2> DEFINE L == Len(f.mission)
  <2>2. L \in Nat /\ DOMAIN f.mission = 1 .. L
    BY RunParts
  <2>3. /\ \A n \in 1 .. L : n < L => Passes(f.mission[n][2])
        /\ \A n \in 1 .. L : n < i => f.mission[n][1] # f.mission[i][1]
        /\ \A d \in f.steps[f.mission[i][1]].dependsOn :
             \E n \in 1 .. L : n < i /\ f.steps[f.mission[n][1]].id = d
    <3>1. \A n \in 1 .. L : n < L => Ran(f.mission[n][2])
      BY <2>1 DEF RunOK, NoneFailed
    <3>2. \A n \in 1 .. L : n < L => Passes(f.mission[n][2])
      BY <3>1, RanPasses
    <3>3. i \in 1 .. L /\ InDependencyOrder(f)
      BY <2>1, <2>2 DEF RunOK
    <3>4. QED
      BY <3>2, <3>3 DEF InDependencyOrder
  <2> HIDE DEF L
  <2>4. i \in 1 .. L /\ \A n : n \in 1 .. i - 1 <=> n \in 1 .. L /\ n < i
    BY <2>1, <2>2
  <2>5. \A n \in 1 .. L : n < i => n < L
    BY <2>2, <2>4
  <2>6. QED
    BY <2>1, <2>3, <2>4, <2>5 DEF Passes
<1>2. QED
  BY <1>1, WorkflowInvariance, FailureInvariance, PTL

\* A run reports what has happened: that it is completed only if none of its missions has
\* failed and not been cancelled, that it has failed only if its last mission has, or one was
\* refused.  It enters the history once (orch.go:85-124).
THEOREM ReportsAreTrue == Spec => []RunsReported
<1>1. WorkflowInv /\ FailureInv => RunsReported
  <2> SUFFICES ASSUME WorkflowInv, FailureInv, NEW c \in Call, flow[c].at = "done"
               PROVE  LET started == flow[c].mission
                          ran == {started[n][1] : n \in DOMAIN started}
                          entries == {n \in DOMAIN runHistory : runHistory[n].call = c}
                      IN /\ flow[c].outcome = "completed" =>
                              /\ ran = DOMAIN flow[c].steps
                              /\ \A n \in DOMAIN started : Passes(started[n][2])
                         /\ flow[c].outcome = "failed" =>
                              ran # DOMAIN flow[c].steps \/ Last(started)[2] \in failedRuns
                         /\ flow[c].outcome = "stuck" =>
                              \A k \in (DOMAIN flow[c].steps) \ ran :
                                \E d \in flow[c].steps[k].dependsOn :
                                  \A j \in ran : flow[c].steps[j].id # d
                         /\ IF flow[c].outcome = "stuck" THEN entries = {}
                            ELSE /\ Cardinality(entries) = 1
                                 /\ \A n \in entries : runHistory[n].outcome = flow[c].outcome
    BY DEF RunsReported
  <2>1. RunOK(flow[c]) /\ Entered(c) /\ Accused(flow[c]) /\ flow[c] \in RunRecord
    BY DEF WorkflowInv, FailureInv
  <2>2. /\ flow[c].left = (DOMAIN flow[c].steps) \ Begun(flow[c])
        /\ Begun(flow[c]) \subseteq DOMAIN flow[c].steps
        /\ flow[c].outcome = "completed" => flow[c].left = {}
        /\ flow[c].outcome = "stuck" => \A k \in flow[c].left : Blocked(flow[c], k)
    BY <2>1 DEF RunOK, OfPlan, ToldRight
  <2>3. flow[c].outcome = "completed" =>
          /\ Begun(flow[c]) = DOMAIN flow[c].steps
          /\ \A n \in DOMAIN flow[c].mission : Passes(flow[c].mission[n][2])
    <3>1. flow[c].outcome = "completed" =>
            \A n \in 1 .. Len(flow[c].mission) : Passes(flow[c].mission[n][2])
      BY <2>1, RanPasses DEF RunOK, NoneFailed, Completed, Told
    <3>2. QED
      BY <2>1, <2>2, <3>1, RunParts
  <2>4. flow[c].outcome = "stuck" =>
          \A k \in (DOMAIN flow[c].steps) \ Begun(flow[c]) :
            \E d \in flow[c].steps[k].dependsOn : \A j \in Begun(flow[c]) : flow[c].steps[j].id # d
    BY <2>2 DEF Blocked
  <2>5. IF flow[c].outcome = "stuck" THEN Entries(c) = {}
        ELSE /\ Cardinality(Entries(c)) = 1
             /\ \A n \in Entries(c) : runHistory[n].outcome = flow[c].outcome
    <3>1. \A n : Cardinality({n}) = 1
      BY FS_Singleton
    <3>2. QED
      BY <2>1, <3>1 DEF Entered
  <2>6. flow[c].outcome = "failed" =>
          \/ Begun(flow[c]) # DOMAIN flow[c].steps
          \/ Last(flow[c].mission)[2] \in failedRuns
    BY <2>1, <2>2 DEF Accused, Told, Last
  <2>7. QED
    BY <2>3, <2>4, <2>5, <2>6 DEF Begun, Entries
<1>2. QED
  BY <1>1, WorkflowInvariance, FailureInvariance, PTL

-----------------------------------------------------------------------------
\* Offers to peers

\* What an offer knows of a mission stays so while missions go on.
LEMMA OverStays ==
  ASSUME HostTyped, [HostNext]_hostVars
  PROVE  \A m \in Mission : /\ state[m] # "absent" => state'[m] # "absent"
                            /\ Over(m) => Over(m)'
                            /\ Over(m) /\ Lost(m) => Lost(m)'
<1>1. CASE UNCHANGED hostVars
  BY <1>1 DEF hostVars, Over, Lost
<1>2. ASSUME NEW k \in Mission, SubmitMission(k) \/ Conclude(k) \/ CancelMission(k), NEW m \in Mission
      PROVE  /\ state[m] # "absent" => state'[m] # "absent"
             /\ Over(m) => Over(m)'
             /\ Over(m) /\ Lost(m) => Lost(m)'
  <2>1. CASE k = m
    BY <1>2, <2>1 DEF SubmitMission, Conclude, CancelMission, Over, Lost, HostTyped, Verdicts
  <2>2. CASE k # m
    BY <1>2, <2>2 DEF SubmitMission, Conclude, CancelMission, Over, Lost, HostTyped, Verdicts
  <2>3. QED
    BY <2>1, <2>2
<1>3. QED
  BY <1>1, <1>2 DEF HostNext, KernelStep

\* An offer that does not move.
LEMMA OfferStays ==
  ASSUME HostTyped, [HostNext]_hostVars, NEW o \in Offer, OfferOK(o), offers[o] \in OfferRecord,
         offers'[o] = offers[o], offers[o].at = "returned" => tasks'[offers[o].id] = tasks[offers[o].id]
  PROVE  OfferOK(o)'
<1> DEFINE m == offers[o].mission
<1>1. m \in Mission \cup {NoMission}
  BY DEF OfferRecord
<1>2. /\ m \in Mission /\ state[m] # "absent" => state'[m] # "absent"
      /\ m \in Mission /\ Over(m) => Over(m)'
      /\ m \in Mission /\ Over(m) /\ Lost(m) => Lost(m)'
      /\ m = NoMission => Lost(m)'
  BY OverStays DEF Lost
<1> HIDE DEF m
<1>3. QED
  BY <1>1, <1>2 DEF OfferOK, m

\* Offers go on; none of them is accepted.
LEMMA OfferMoves ==
  ASSUME PeersInv, [HostNext]_hostVars, UNCHANGED <<peers, taskSeq>>, NEW o \in Offer,
         NEW g \in OfferRecord, offers' = [offers EXCEPT ![o] = g], g.id = offers[o].id,
         offers[o].at \in {"idle", "unknown"} <=> g.at \in {"idle", "unknown"},
         tasks' \in [TaskId -> Status \cup {NoTask}],
         \A p \in Offer : p # o /\ offers[p].at = "returned" =>
                            tasks'[offers[p].id] = tasks[offers[p].id],
         OfferOK(o)'
  PROVE  PeersInv'
<1>1. HostTyped /\ HostTyped'
  BY MissionsStay DEF PeersInv
<1>2. /\ offers \in [Offer -> OfferRecord] /\ offers' \in [Offer -> OfferRecord]
      /\ offers'[o] = g /\ \A p \in Offer : p # o => offers'[p] = offers[p]
  BY DEF PeersInv
<1>3. /\ Accepted' = Accepted
      /\ \A p \in Accepted : offers'[p].id = offers[p].id
  BY <1>2 DEF Accepted
<1>4. Numbered'
  <2>1. Numbered
    BY DEF PeersInv
  <2>2. QED
    BY <1>3, <2>1 DEF Numbered
<1>5. ASSUME NEW p \in Offer PROVE OfferOK(p)'
  BY <1>1, <1>2, OfferStays DEF PeersInv
<1>6. QED
  BY <1>1, <1>2, <1>4, <1>5 DEF PeersInv

\* No offer moves.
LEMMA NoOfferMoves ==
  ASSUME PeersInv, [HostNext]_hostVars, UNCHANGED <<taskSeq, offers, tasks>>, peers' \subseteq Peer
  PROVE  PeersInv'
<1>1. HostTyped /\ HostTyped' /\ Numbered'
  BY MissionsStay DEF PeersInv, Numbered, Accepted
<1>2. ASSUME NEW p \in Offer PROVE OfferOK(p)'
  BY <1>1, OfferStays DEF PeersInv
<1>3. QED
  BY <1>1, <1>2 DEF PeersInv

\* An offer takes the next number, or finds no peer.
LEMMA AcceptKeeps ==
  ASSUME PeersInv, NEW o \in Offer, AcceptOffer(o)
  PROVE  PeersInv'
<1>1. /\ UNCHANGED <<peers, tasks, hostVars>> /\ offers[o].at = "idle"
      /\ offers \in [Offer -> OfferRecord] /\ offers[o] \in OfferRecord /\ OfferOK(o)
  BY DEF AcceptOffer, PeersInv
<1>2. ASSUME taskSeq' = taskSeq + 1,
             offers' = [offers EXCEPT ![o] = [@ EXCEPT !.at = "submit", !.id = NextNumber]]
      PROVE  PeersInv'
  <2>1. /\ taskSeq \in Nat /\ IsFiniteSet(Accepted) /\ o \notin Accepted
        /\ taskSeq = Cardinality(Accepted)
    BY <1>1, FS_CardinalityType DEF PeersInv, Numbered, Accepted
  <2>2. PICK n \in Nat : n = taskSeq + 1
    BY <2>1
  <2>3. PICK g : g = [offers[o] EXCEPT !.at = "submit", !.id = n]
    OBVIOUS
  <2>4. /\ g \in OfferRecord /\ g.at = "submit" /\ g.id = n /\ g.mission = offers[o].mission
    BY <1>1, <2>3 DEF OfferRecord
  <2>5. /\ offers' \in [Offer -> OfferRecord] /\ offers'[o] = g
        /\ \A p \in Offer : p # o => offers'[p] = offers[p]
    BY <1>1, <1>2, <2>2, <2>3, <2>4 DEF NextNumber
  <2>6. Accepted' = Accepted \cup {o}
    BY <2>4, <2>5 DEF Accepted
  <2>7. IsFiniteSet(Accepted') /\ Cardinality(Accepted') = n
    BY <2>1, <2>2, <2>6, FS_AddElement
  <2>8. \A p \in Accepted : offers'[p].id = offers[p].id /\ offers[p].id \in 1 .. taskSeq
    BY <2>1, <2>5 DEF PeersInv, Numbered, Accepted
  <2>9. \A p \in Accepted' : offers'[p].id \in 1 .. n
    BY <2>1, <2>2, <2>4, <2>5, <2>6, <2>8
  <2>10. ASSUME NEW p \in Accepted', NEW q \in Accepted', offers'[p].id = offers'[q].id PROVE p = q
    <3>1. \A a, b \in Accepted : offers[a].id = offers[b].id => a = b
      BY DEF PeersInv, Numbered
    <3>2. \A a \in Accepted : offers'[a].id # n
      BY <2>1, <2>2, <2>8
    <3>3. QED
      BY <2>4, <2>5, <2>6, <2>8, <2>10, <3>1, <3>2
  <2>11. Numbered'
    <3>1. taskSeq' = Cardinality(Accepted')
      BY <1>2, <2>2, <2>7
    <3>2. \A p \in Accepted' : offers'[p].id \in 1 .. taskSeq'
      BY <1>2, <2>2, <2>9
    <3>3. QED
      BY <2>7, <2>10, <3>1, <3>2 DEF Numbered
  <2>12. OfferOK(o)'
    BY <1>1, <2>4, <2>5 DEF OfferOK
  <2>13. ASSUME NEW p \in Offer, p # o PROVE OfferOK(p)'
    BY <1>1, <2>5, <2>13, OfferStays DEF PeersInv
  <2>14. HostTyped'
    BY <1>1 DEF PeersInv, HostTyped, hostVars
  <2>15. QED
    BY <1>1, <2>5, <2>11, <2>12, <2>13, <2>14 DEF PeersInv
<1>3. ASSUME offers' = [offers EXCEPT ![o].at = "unknown"], UNCHANGED taskSeq PROVE PeersInv'
  <2>1. PICK g : g = [offers[o] EXCEPT !.at = "unknown"]
    OBVIOUS
  <2>2. /\ g \in OfferRecord /\ g.at = "unknown" /\ g.id = offers[o].id
        /\ g.mission = offers[o].mission
    BY <1>1, <2>1 DEF OfferRecord
  <2>3. offers' = [offers EXCEPT ![o] = g] /\ offers'[o] = g
    BY <1>1, <1>3, <2>1
  <2>4. OfferOK(o)'
    BY <1>1, <2>2, <2>3 DEF OfferOK
  <2>5. QED
    BY <1>1, <1>3, <2>2, <2>3, <2>4, OfferMoves DEF PeersInv
<1>4. QED
  BY <1>2, <1>3 DEF AcceptOffer

\* The mission of an offer is submitted, or refused.
LEMMA SubmitOfferKeeps ==
  ASSUME PeersInv, NEW o \in Offer, SubmitOffer(o)
  PROVE  PeersInv'
<1>1. /\ UNCHANGED <<peers, taskSeq, tasks>> /\ offers[o].at = "submit" /\ HostTyped
      /\ offers \in [Offer -> OfferRecord] /\ offers[o] \in OfferRecord /\ OfferOK(o)
  BY DEF SubmitOffer, PeersInv
<1>2. offers[o].mission = NoMission
  BY <1>1 DEF OfferOK
<1>3. ASSUME NEW m \in Mission, SubmitFresh(m),
             offers' = [offers EXCEPT ![o] = [@ EXCEPT !.at = "read", !.mission = m]]
      PROVE  PeersInv'
  <2>1. PICK g : g = [offers[o] EXCEPT !.at = "read", !.mission = m]
    OBVIOUS
  <2>2. g \in OfferRecord /\ g.at = "read" /\ g.id = offers[o].id /\ g.mission = m
    BY <1>1, <2>1 DEF OfferRecord
  <2>3. offers' = [offers EXCEPT ![o] = g] /\ offers'[o] = g
    BY <1>1, <1>3, <2>1
  <2>4. [HostNext]_hostVars /\ state'[m] = "running"
    BY <1>1, <1>3 DEF SubmitFresh, SubmitMission, HostNext, HostTyped
  <2>5. OfferOK(o)'
    BY <2>2, <2>3, <2>4 DEF OfferOK
  <2>6. QED
    BY <1>1, <2>2, <2>3, <2>4, <2>5, OfferMoves DEF PeersInv
<1>4. ASSUME offers' = [offers EXCEPT ![o] = [@ EXCEPT !.at = AfterRefusal(o), !.status = "failed"]],
             UNCHANGED hostVars
      PROVE  PeersInv'
  <2>1. PICK g : g = [offers[o] EXCEPT !.at = "record", !.status = "failed"]
    OBVIOUS
  <2>2. /\ g \in OfferRecord /\ g.at = "record" /\ g.id = offers[o].id /\ g.status = "failed"
        /\ g.mission = NoMission
    BY <1>1, <1>2, <2>1 DEF OfferRecord, Status
  <2>3. offers' = [offers EXCEPT ![o] = g] /\ offers'[o] = g
    BY <1>1, <1>4, <2>1 DEF AfterRefusal
  <2>4. OfferOK(o)'
    BY <2>2, <2>3 DEF OfferOK, Lost
  <2>5. QED
    BY <1>1, <1>4, <2>2, <2>3, <2>4, OfferMoves DEF PeersInv
<1>5. QED
  BY <1>3, <1>4 DEF SubmitOffer

\* The record of its mission is read, once its run is over.
LEMMA ReadOfferKeeps ==
  ASSUME PeersInv, NEW o \in Offer, ReadOffer(o)
  PROVE  PeersInv'
<1>1. /\ UNCHANGED <<peers, taskSeq, tasks, hostVars>> /\ offers[o].at = "read"
      /\ offers \in [Offer -> OfferRecord] /\ offers[o] \in OfferRecord /\ OfferOK(o)
      /\ offers[o].mission \notin live
  BY DEF ReadOffer, PeersInv, Returned
<1>2. PICK m \in Mission : m = offers[o].mission /\ Over(m) /\ m # NoMission
  BY <1>1, MissionAssumption DEF OfferOK, Over
<1>3. PICK s \in {"failed", "done"} : s = IF state[m] = "failed" THEN "failed" ELSE "done"
  OBVIOUS
<1>4. PICK g : g = [offers[o] EXCEPT !.at = "record", !.status = s]
  OBVIOUS
<1>5. /\ g \in OfferRecord /\ g.at = "record" /\ g.id = offers[o].id /\ g.status = s
      /\ g.mission = m
  BY <1>1, <1>2, <1>4 DEF OfferRecord, Status
<1>6. offers' = [offers EXCEPT ![o] = g]
  BY <1>2, <1>3, <1>4 DEF ReadOffer
<1>7. offers'[o] = g /\ Over(m)'
  BY <1>1, <1>2, <1>6 DEF Over, hostVars
<1>8. s = "failed" => Lost(m)'
  BY <1>1, <1>3 DEF Lost, hostVars
<1>9. OfferOK(o)'
  BY <1>2, <1>5, <1>7, <1>8 DEF OfferOK
<1>10. QED
  BY <1>1, <1>5, <1>6, <1>9, OfferMoves DEF PeersInv

\* The task is listed under its number, which no other offer has.
LEMMA RecordOfferKeeps ==
  ASSUME PeersInv, NEW o \in Offer, RecordOffer(o)
  PROVE  PeersInv'
<1>1. /\ UNCHANGED <<peers, taskSeq, hostVars>> /\ offers[o].at = "record"
      /\ tasks' = [tasks EXCEPT ![offers[o].id] = offers[o].status]
      /\ offers' = [offers EXCEPT ![o].at = "returned"]
  BY DEF RecordOffer
<1>2. /\ offers \in [Offer -> OfferRecord] /\ offers[o] \in OfferRecord /\ OfferOK(o)
      /\ tasks \in [TaskId -> Status \cup {NoTask}]
  BY DEF PeersInv
<1>3. o \in Accepted /\ Numbered
  BY <1>1 DEF Accepted, PeersInv
<1>4. offers[o].id \in TaskId
  <2>1. Accepted \subseteq Offer
    BY DEF Accepted
  <2>2. Cardinality(Accepted) <= Cardinality(Offer) /\ Cardinality(Offer) \in Nat
    BY <2>1, OfferAssumption, FS_Subset, FS_CardinalityType
  <2>3. /\ taskSeq \in Nat /\ offers[o].id \in 1 .. taskSeq /\ taskSeq <= Cardinality(Offer)
    BY <1>3, <2>2, FS_CardinalityType DEF Numbered
  <2>4. QED
    BY <2>2, <2>3 DEF TaskId
<1>5. PICK g : g = [offers[o] EXCEPT !.at = "returned"]
  OBVIOUS
<1>6. /\ g \in OfferRecord /\ g.at = "returned" /\ g.id = offers[o].id
      /\ g.status = offers[o].status /\ g.mission = offers[o].mission
  BY <1>2, <1>5 DEF OfferRecord
<1>7. offers' = [offers EXCEPT ![o] = g] /\ offers'[o] = g
  BY <1>1, <1>2, <1>5
<1>8. /\ tasks' \in [TaskId -> Status \cup {NoTask}] /\ tasks'[g.id] = g.status
      /\ \A id : id # g.id => tasks'[id] = tasks[id]
  <2>1. offers[o].status \in Status
    BY <1>2 DEF OfferRecord
  <2>2. QED
    BY <1>1, <1>2, <1>4, <1>6, <2>1
<1>9. ASSUME NEW p \in Offer, p # o, offers[p].at = "returned"
      PROVE  tasks'[offers[p].id] = tasks[offers[p].id]
  <2>1. p \in Accepted
    BY <1>9 DEF Accepted
  <2>2. offers[p].id # offers[o].id
    BY <1>3, <1>9, <2>1 DEF Numbered
  <2>3. QED
    BY <1>6, <1>8, <2>2
<1>10. OfferOK(o)'
  BY <1>1, <1>2, <1>6, <1>7, <1>8 DEF OfferOK, Over, Lost, hostVars
<1>11. QED
  BY <1>1, <1>6, <1>7, <1>8, <1>9, <1>10, OfferMoves

\* Every step of any service preserves what is known of offers.
LEMMA PeersStep ==
  ASSUME PeersInv, [HostNext]_hostVars, PeersNext \/ UNCHANGED peerVars
  PROVE  PeersInv'
<1>1. CASE UNCHANGED peerVars
  BY <1>1, NoOfferMoves DEF peerVars, PeersInv
<1>2. ASSUME NEW p \in Peer, Register(p) PROVE PeersInv'
  BY <1>2, NoOfferMoves DEF Register, PeersInv
<1>3. ASSUME NEW o \in Offer, AcceptOffer(o) \/ OfferTask(o) PROVE PeersInv'
  BY <1>3, AcceptKeeps, SubmitOfferKeeps, ReadOfferKeeps, RecordOfferKeeps DEF OfferTask
<1>4. QED
  BY <1>1, <1>2, <1>3 DEF PeersNext

\* Nothing has been offered.
LEMMA InitPeers ==
  ASSUME HostInit, PeersInit
  PROVE  PeersInv
<1>1. HostTyped /\ peers \subseteq Peer /\ tasks \in [TaskId -> Status \cup {NoTask}]
  BY SeedAssumption DEF HostInit, PeersInit, HostTyped, MissionState
<1>2. /\ offers \in [Offer -> OfferRecord]
      /\ \A o \in Offer : /\ offers[o].at = "idle" /\ offers[o].id = 0
                         /\ offers[o].mission = NoMission
  BY DEF PeersInit, NoOffer, OfferRecord, Status
<1>3. Accepted = {}
  BY <1>2 DEF Accepted
<1>4. Numbered
  BY <1>3, FS_EmptySet DEF Numbered, PeersInit
<1>5. \A o \in Offer : OfferOK(o)
  BY <1>2 DEF OfferOK
<1>6. QED
  BY <1>1, <1>2, <1>4, <1>5 DEF PeersInv

\* What is known of offers holds throughout.
LEMMA PeersInvariance == Spec => []PeersInv
<1>1. PeersInv /\ [Next]_vars => PeersInv'
  BY SubmitsOnly, OneService, PeersStep
<1>2. QED
  BY <1>1, InitPeers, PTL DEF Spec, Init

\* An offer that has returned is told of truly from then on (peers.go:113-161).
THEOREM TasksAreTrue == Spec => []TasksTellTrue
<1>1. PeersInv => TasksTellTrue
  <2> SUFFICES ASSUME PeersInv, NEW o \in Offer, offers[o].at = "returned" PROVE Tells(o)
    BY DEF TasksTellTrue
  <2>1. /\ OfferOK(o) /\ o \in Accepted /\ Numbered /\ offers[o] \in OfferRecord
    BY DEF PeersInv, Accepted
  <2>2. offers[o].id # 0
    BY <2>1, FS_CardinalityType DEF Numbered
  <2>3. tasks[offers[o].id] = offers[o].status /\ offers[o].status \in {"failed", "done"}
    BY <2>1 DEF OfferOK, OfferRecord, Status
  <2>4. QED
    BY <2>1, <2>2, <2>3 DEF Tells, OfferOK, Over, Lost
<1>2. QED
  BY <1>1, PeersInvariance, PTL

-----------------------------------------------------------------------------
\* Routines

\* The newest of the newest and one more are the newest of all and one more.
LEMMA NewestOfNewest ==
  ASSUME NEW S, NEW runs \in Seq(S), NEW f \in S, NEW n \in Nat \ {0}
  PROVE  /\ Newest(n, Append(Newest(n, runs), f)) = Newest(n, Append(runs, f))
         /\ Newest(n, runs) \in Seq(S) /\ Len(Newest(n, runs)) <= n
<1> DEFINE L == Len(runs)
           A == Append(runs, f)
<1>1. L \in Nat /\ A \in Seq(S) /\ Len(A) = L + 1
      /\ (\A i \in 1 .. L : A[i] = runs[i]) /\ A[L + 1] = f
  BY AppendProperties, LenProperties
<1>2. \A i \in 1 .. L : runs[i] \in S
  BY ElementOfSeq
<1>3. CASE L <= n
  <2>1. Newest(n, runs) = runs
    BY <1>1, <1>3 DEF Newest
  <2>2. QED
    BY <1>1, <1>3, <2>1
<1>4. CASE L > n
  <2> DEFINE N == SubSeq(runs, L - n + 1, L)
             B == Append(N, f)
  <2>1. Newest(n, runs) = N
    BY <1>1, <1>4 DEF Newest
  <2>2. L - n + 1 \in 1 .. L /\ L - n + 1 \in Int /\ L \in Int
    BY <1>1, <1>4
  <2>3. \A i \in L - n + 1 .. L : runs[i] \in S
    BY <1>1, <1>2, <2>2
  <2>4. N \in Seq(S) /\ Len(N) = n /\ \A i \in 1 .. n : N[i] = runs[L - n + i]
    <3>1. /\ N \in Seq(S) /\ Len(N) = (IF L - n + 1 <= L THEN L - (L - n + 1) + 1 ELSE 0)
          /\ \A i \in 1 .. L - (L - n + 1) + 1 : N[i] = runs[(L - n + 1) + i - 1]
      BY <2>2, <2>3, SubSeqProperties
    <3> HIDE DEF L, N
    <3>2. QED
      BY <1>1, <1>4, <3>1
  <2>5. /\ B \in Seq(S) /\ Len(B) = n + 1
        /\ (\A i \in 1 .. n : B[i] = runs[L - n + i]) /\ B[n + 1] = f
    BY <2>4, AppendProperties
  <2>6. \A i \in 1 .. n + 1 : B[i] \in S
    BY <2>5, ElementOfSeq
  <2>7. \A i \in 1 .. L + 1 : A[i] \in S
    BY <1>1, ElementOfSeq
  <2> HIDE DEF L, N, B, A
  <2> DEFINE X == SubSeq(B, 2, n + 1)
             Y == SubSeq(A, L - n + 2, L + 1)
  <2>8. /\ X \in Seq(S) /\ Len(X) = n /\ \A i \in 1 .. n : X[i] = B[i + 1]
    <3>1. \A i \in 2 .. n + 1 : B[i] \in S
      BY <2>6
    <3>2. /\ X \in Seq(S) /\ Len(X) = (IF 2 <= n + 1 THEN n + 1 - 2 + 1 ELSE 0)
          /\ \A i \in 1 .. n + 1 - 2 + 1 : X[i] = B[2 + i - 1]
      BY <3>1, SubSeqProperties
    <3> HIDE DEF X
    <3>3. n + 1 - 2 + 1 = n /\ 2 <= n + 1 /\ \A i \in 1 .. n : 2 + i - 1 = i + 1
      OBVIOUS
    <3>4. QED
      BY <3>2, <3>3
  <2>9. /\ Y \in Seq(S) /\ Len(Y) = n /\ \A i \in 1 .. n : Y[i] = A[L - n + 1 + i]
    <3>1. PICK a \in Int, b \in Int : a = L - n + 2 /\ b = L + 1
      BY <1>1
    <3>2. \A i \in a .. b : A[i] \in S
      BY <1>1, <1>4, <2>7, <3>1
    <3> DEFINE Z == SubSeq(A, a, b)
    <3>3. /\ Z \in Seq(S) /\ Len(Z) = (IF a <= b THEN b - a + 1 ELSE 0)
          /\ \A i \in 1 .. b - a + 1 : Z[i] = A[a + i - 1]
      BY <3>2, SubSeqProperties
    <3>4. Y = Z
      BY <3>1
    <3> HIDE DEF Y, Z
    <3>5. /\ b - a + 1 = n /\ a <= b
          /\ \A i \in 1 .. n : a + i - 1 = L - n + 1 + i
      BY <1>1, <1>4, <3>1
    <3>6. QED
      BY <3>3, <3>4, <3>5
  <2> HIDE DEF X, Y
  <2>10. Newest(n, B) = X
    <3>1. Len(B) > n /\ Len(B) - n + 1 = 2 /\ Len(B) = n + 1
      BY <2>5
    <3>2. QED
      BY <3>1 DEF Newest, X
  <2>11. Newest(n, A) = Y
    <3>1. Len(A) > n /\ Len(A) - n + 1 = L - n + 2 /\ Len(A) = L + 1
      BY <1>1, <1>4 DEF A
    <3>2. QED
      BY <3>1 DEF Newest, Y
  <2>12. ASSUME NEW i \in 1 .. n PROVE X[i] = Y[i]
    <3>1. CASE i = n
      <4>1. X[n] = B[n + 1] /\ Y[n] = A[L - n + 1 + n]
        BY <2>8, <2>9
      <4>2. L - n + 1 + n = L + 1
        BY <1>1
      <4>3. QED
        BY <1>1, <2>5, <3>1, <4>1, <4>2
    <3>2. CASE i < n
      <4>1. PICK j \in 1 .. n : j = i + 1
        BY <3>2
      <4>2. PICK k \in 1 .. L : k = L - n + j /\ k = L - n + 1 + i
        BY <1>1, <1>4, <4>1
      <4>3. X[i] = B[j]
        BY <2>8, <4>1
      <4>4. B[j] = runs[L - n + j]
        BY <2>5
      <4>5. Y[i] = A[L - n + 1 + i] /\ A[k] = runs[k]
        BY <1>1, <2>9, <4>2
      <4>6. QED
        BY <4>2, <4>3, <4>4, <4>5
    <3>3. QED
      BY <3>1, <3>2
  <2>13. X = Y
    BY <2>8, <2>9, <2>12, SeqEqual
  <2>14. QED
    BY <2>1, <2>4, <2>10, <2>11, <2>13 DEF A, B
<1>5. QED
  BY <1>1, <1>3, <1>4

\* A firing that moves, and is in no routine's list of runs.
LEMMA FiringMoves ==
  ASSUME RoutineInv, UNCHANGED <<history, lastRun, fired>>, paused' \subseteq Routine,
         NEW f \in Firing, firing[f].at # "done",
         NEW g \in [at : Stages, for : Routine \cup {NoOne}, mission : Mission \cup {NoMission}],
         firing' = [firing EXCEPT ![f] = g], g.at # "idle" => g.for \in Routine
  PROVE  RoutineInv'
<1>1. /\ firing' \in [Firing -> [at : Stages, for : Routine \cup {NoOne},
                                mission : Mission \cup {NoMission}]]
      /\ firing'[f] = g /\ \A h \in Firing : h # f => firing'[h] = firing[h]
  BY DEF RoutineInv
<1>2. ASSUME NEW r \in Routine
      PROVE  /\ \A n \in DOMAIN fired[r] : firing'[fired[r][n]] = firing[fired[r][n]]
             /\ LastOf(r)' = LastOf(r)
  <2>1. fired[r] \in Seq(Firing)
    BY DEF RoutineInv
  <2>2. DOMAIN fired[r] = 1 .. Len(fired[r]) /\ \A n \in 1 .. Len(fired[r]) : fired[r][n] \in Firing
    BY <2>1, ElementOfSeq, LenProperties
  <2>3. \A n \in DOMAIN fired[r] : firing'[fired[r][n]] = firing[fired[r][n]]
    <3>1. \A n \in DOMAIN fired[r] : firing[fired[r][n]].at = "done"
      BY DEF RoutineInv
    <3>2. QED
      BY <1>1, <2>2, <3>1
  <2>4. fired[r] # <<>> => Len(fired[r]) \in DOMAIN fired[r]
    BY <2>1, <2>2, EmptySeq, LenProperties
  <2>5. QED
    BY <2>3, <2>4 DEF LastOf
<1>3. QED
  BY <1>1, <1>2 DEF RoutineInv

\* Every step of any service preserves what is known of routines.
LEMMA RoutineStep ==
  ASSUME RoutineInv, TalkNext \/ RoutineNext \/ UNCHANGED conversationVars
  PROVE  RoutineInv'
<1> DEFINE Rec == [at : Stages, for : Routine \cup {NoOne}, mission : Mission \cup {NoMission}]
<1>1. CASE UNCHANGED deckVars
  BY <1>1 DEF deckVars, RoutineInv, LastOf
<1>2. ASSUME NEW f \in Firing, StartFire(f) PROVE RoutineInv'
  <2>1. PICK r \in Routine : firing' = [firing EXCEPT ![f] = [@ EXCEPT !.at = "submit", !.for = r]]
    BY <1>2 DEF StartFire
  <2>2. PICK g : g = [firing[f] EXCEPT !.at = "submit", !.for = r]
    OBVIOUS
  <2>3. g \in Rec /\ g.for = r
    BY <2>2 DEF RoutineInv, Stages
  <2>4. firing' = [firing EXCEPT ![f] = g]
    BY <2>1, <2>2
  <2>5. QED
    BY <1>2, <2>3, <2>4, FiringMoves DEF StartFire, RoutineInv
<1>3. ASSUME NEW f \in Firing, SubmitFire(f) PROVE RoutineInv'
  <2>1. PICK m \in Mission \cup {NoMission} :
          firing' = [firing EXCEPT ![f] = [firing[f] EXCEPT !.at = "record", !.mission = m]]
    <3>1. CASE \E m \in Mission : firing' = [firing EXCEPT ![f] = [@ EXCEPT !.at = "record",
                                                                           !.mission = m]]
      BY <3>1
    <3>2. CASE firing' = [firing EXCEPT ![f].at = "record"]
      <4>1. PICK m \in Mission \cup {NoMission} : m = firing[f].mission
        BY DEF RoutineInv
      <4>2. [firing[f] EXCEPT !.at = "record"] = [firing[f] EXCEPT !.at = "record", !.mission = m]
        BY <4>1 DEF RoutineInv
      <4>3. QED
        BY <3>2, <4>2
    <3>3. QED
      BY <1>3, <3>1, <3>2 DEF SubmitFire
  <2>2. PICK g : g = [firing[f] EXCEPT !.at = "record", !.mission = m]
    OBVIOUS
  <2>3. g \in Rec /\ g.for = firing[f].for /\ firing[f].for \in Routine
    BY <1>3, <2>2 DEF RoutineInv, Stages, SubmitFire
  <2>4. firing' = [firing EXCEPT ![f] = g]
    BY <2>1, <2>2
  <2>5. QED
    BY <1>3, <2>3, <2>4, FiringMoves DEF SubmitFire, RoutineInv
<1>4. ASSUME NEW f \in Firing, EndFire(f) PROVE RoutineInv'
  <2>1. PICK r \in Routine, m \in Mission \cup {NoMission} : r = firing[f].for /\ m = firing[f].mission
    BY <1>4 DEF EndFire, RoutineInv
  <2>2. /\ history' = [history EXCEPT ![r] = Remember(history[r], f)]
        /\ lastRun' = [lastRun EXCEPT ![r] = m] /\ fired' = [fired EXCEPT ![r] = Append(fired[r], f)]
        /\ firing' = [firing EXCEPT ![f].at = "done"] /\ paused' = paused
        /\ firing[f].at = "record"
    BY <1>4, <2>1 DEF EndFire
  <2>3. /\ firing' \in [Firing -> Rec] /\ firing'[f].at = "done" /\ firing'[f].for = r
        /\ firing'[f].mission = m /\ \A h \in Firing : h # f => firing'[h] = firing[h]
    BY <2>1, <2>2 DEF RoutineInv, Stages
  <2>4. /\ fired[r] \in Seq(Firing) /\ history[r] = Newest(MaxHistory, fired[r])
        /\ MaxHistory \in Nat \ {0}
    BY MaxHistoryAssumption DEF RoutineInv
  <2>5. /\ Append(fired[r], f) \in Seq(Firing) /\ Len(Append(fired[r], f)) = Len(fired[r]) + 1
        /\ (\A i \in 1 .. Len(fired[r]) : Append(fired[r], f)[i] = fired[r][i])
        /\ Append(fired[r], f)[Len(fired[r]) + 1] = f /\ Len(fired[r]) \in Nat
    BY <2>4, AppendProperties, LenProperties
  <2>6. /\ Remember(history[r], f) = Newest(MaxHistory, Append(fired[r], f))
        /\ Newest(MaxHistory, Append(fired[r], f)) \in Seq(Firing)
    <3>1. /\ Newest(MaxHistory, Append(Newest(MaxHistory, fired[r]), f)) =
               Newest(MaxHistory, Append(fired[r], f))
      BY <2>4, NewestOfNewest
    <3>2. Newest(MaxHistory, Append(fired[r], f)) \in Seq(Firing)
      BY <2>4, <2>5, NewestOfNewest
    <3>3. QED
      BY <2>4, <3>1, <3>2 DEF Remember
  <2>7. history' \in [Routine -> Seq(Firing)] /\ fired' \in [Routine -> Seq(Firing)]
        /\ lastRun' \in [Routine -> Mission \cup {NoMission}]
    BY <2>2, <2>5, <2>6 DEF RoutineInv
  <2>8. ASSUME NEW s \in Routine
        PROVE  /\ \A n \in DOMAIN fired'[s] : firing'[fired'[s][n]].at = "done"
               /\ history'[s] = Newest(MaxHistory, fired'[s]) /\ lastRun'[s] = LastOf(s)'
    <3>1. /\ fired[s] \in Seq(Firing) /\ DOMAIN fired[s] = 1 .. Len(fired[s])
          /\ Len(fired[s]) \in Nat
          /\ \A n \in 1 .. Len(fired[s]) : fired[s][n] \in Firing /\ firing[fired[s][n]].at = "done"
      <4>1. fired[s] \in Seq(Firing) /\ \A n \in DOMAIN fired[s] : firing[fired[s][n]].at = "done"
        BY DEF RoutineInv
      <4>2. QED
        BY <4>1, ElementOfSeq, LenProperties
    <3>2. CASE s # r
      <4>1. /\ history'[s] = history[s] /\ fired'[s] = fired[s] /\ lastRun'[s] = lastRun[s]
        BY <2>2, <3>2 DEF RoutineInv
      <4>2. \A n \in 1 .. Len(fired[s]) : firing'[fired[s][n]] = firing[fired[s][n]]
        BY <2>2, <2>3, <3>1
      <4>3. fired[s] # <<>> => Len(fired[s]) \in 1 .. Len(fired[s])
        BY <3>1, EmptySeq
      <4>4. LastOf(s)' = LastOf(s)
        BY <4>1, <4>2, <4>3 DEF LastOf
      <4>5. QED
        BY <3>1, <4>1, <4>2, <4>4 DEF RoutineInv
    <3>3. CASE s = r
      <4>1. /\ history'[r] = Remember(history[r], f) /\ fired'[r] = Append(fired[r], f)
            /\ lastRun'[r] = m
        BY <2>2 DEF RoutineInv
      <4>2. DOMAIN fired'[r] = 1 .. Len(fired[r]) + 1
        BY <2>5, <4>1, LenProperties
      <4>3. ASSUME NEW n \in 1 .. Len(fired[r]) + 1 PROVE firing'[fired'[r][n]].at = "done"
        <5>1. CASE n \in 1 .. Len(fired[r])
          BY <2>3, <2>5, <3>1, <3>3, <4>1, <5>1
        <5>2. CASE n = Len(fired[r]) + 1
          BY <2>3, <2>5, <4>1, <5>2
        <5>3. QED
          BY <2>5, <5>1, <5>2
      <4>4. LastOf(r)' = m
        <5>1. fired'[r] # <<>>
          <6>1. Len(fired'[r]) # 0
            BY <2>5, <4>1
          <6>2. QED
            BY <6>1, EmptySeq
        <5>2. fired'[r][Len(fired'[r])] = f
          BY <2>5, <4>1
        <5>3. QED
          BY <2>3, <5>1, <5>2 DEF LastOf
      <4>5. QED
        BY <2>6, <3>3, <4>1, <4>2, <4>3, <4>4
    <3>4. QED
      BY <3>2, <3>3
  <2>9. \A h \in Firing : firing'[h].at # "idle" => firing'[h].for \in Routine
    BY <2>1, <2>3 DEF RoutineInv
  <2>10. QED
    BY <2>2, <2>3, <2>7, <2>8, <2>9 DEF RoutineInv
<1>5. ASSUME NEW r \in Routine, SetPaused(r) PROVE RoutineInv'
  BY <1>5 DEF SetPaused, RoutineInv, LastOf
<1>6. ASSUME TalkNext PROVE RoutineInv'
  BY <1>1, <1>6 DEF TalkNext, StartMessage, SubmitMessage, EndMessage, EndSend, StopSession,
     conversationVars, deckVars
<1>7. QED
  BY <1>1, <1>2, <1>3, <1>4, <1>5, <1>6 DEF RoutineNext, conversationVars, deckVars

\* Nothing has been fired.
LEMMA InitRoutines == ConversationInit => RoutineInv
<1> SUFFICES ASSUME ConversationInit PROVE RoutineInv
  OBVIOUS
<1> USE DEF ConversationInit
<1>1. \A r \in Routine : history[r] = <<>> /\ fired[r] = <<>> /\ lastRun[r] = NoMission
  OBVIOUS
<1>2. /\ history \in [Routine -> Seq(Firing)] /\ fired \in [Routine -> Seq(Firing)]
      /\ lastRun \in [Routine -> Mission \cup {NoMission}]
  OBVIOUS
<1>3. /\ firing \in [Firing -> [at : Stages, for : Routine \cup {NoOne},
                               mission : Mission \cup {NoMission}]]
      /\ \A f \in Firing : firing[f].at = "idle"
  BY DEF NoErrand, Stages
<1>4. Newest(MaxHistory, <<>>) = <<>>
  BY MaxHistoryAssumption, EmptySeq DEF Newest
<1>5. QED
  BY <1>1, <1>2, <1>3, <1>4 DEF RoutineInv, LastOf

\* A routine remembers the newest of all its runs, and the mission of the last, however its
\* firings overlapped and whether or not it was paused in between (routines.go:117-140).
THEOREM RoutinesRemember ==
  Spec => [](\A r \in Routine : /\ history[r] = Newest(MaxHistory, fired[r])
                                /\ lastRun[r] = LastOf(r))
<1>1. RoutineInv /\ [Next]_vars => RoutineInv'
  BY OneService, RoutineStep
<1>2. RoutineInv => \A r \in Routine : /\ history[r] = Newest(MaxHistory, fired[r])
                                       /\ lastRun[r] = LastOf(r)
  BY DEF RoutineInv
<1>3. QED
  BY <1>1, <1>2, InitRoutines, PTL DEF Spec, Init

-----------------------------------------------------------------------------
\* Types

\* Runs whose mission goes on are of missions there are.
LEMMA LiveExists ==
  ASSUME HostTypeOK, [HostNext]_hostVars
  PROVE  HostTypeOK'
<1>1. CASE UNCHANGED hostVars
  BY <1>1 DEF hostVars, HostTypeOK
<1>2. ASSUME NEW m \in Mission, SubmitMission(m) \/ Conclude(m) \/ CancelMission(m) PROVE HostTypeOK'
  BY <1>2 DEF SubmitMission, Conclude, CancelMission, HostTypeOK, MissionState, Verdicts
<1>3. QED
  BY <1>1, <1>2 DEF HostNext, KernelStep

\* A pass of a run is at one of its steps.
LEMMA PassStep ==
  ASSUME WorkflowInv, PassPlaced, WorkflowNext \/ UNCHANGED workflowVars
  PROVE  PassPlaced'
<1> USE DEF PassPlaced
<1>1. CASE UNCHANGED flow
  BY <1>1
<1>2. ASSUME NEW c \in Call,
             \A d \in Call : d # c => flow'[d] = flow[d],
             flow'[c].last \in {0} \cup DOMAIN flow'[c].steps
      PROVE  PassPlaced'
  BY <1>2
<1>3. flow \in [Call -> RunRecord] /\ \A c \in Call : flow[c].left \subseteq DOMAIN flow[c].steps
  BY DEF WorkflowInv, RunOK, OfPlan
<1>4. ASSUME NEW c \in Call, StartRun(c) PROVE PassPlaced'
  <2>1. PICK p \in Plan : flow' = [flow EXCEPT ![c] =
                            [NoFlow EXCEPT !.at = "choose", !.plan = p, !.steps = plans[p].steps,
                                           !.left = DOMAIN plans[p].steps]]
    BY <1>4 DEF StartRun
  <2>2. flow'[c].last = 0 /\ \A d \in Call : d # c => flow'[d] = flow[d]
    BY <1>3, <2>1 DEF NoFlow
  <2>3. QED
    BY <1>2, <2>2
<1>5. ASSUME NEW c \in Call, SubmitStep(c) PROVE PassPlaced'
  <2>1. ASSUME NEW k \in NextSteps(c), NEW m \in Mission,
               flow' = [flow EXCEPT ![c] =
                          [@ EXCEPT !.at = "wait", !.last = k, !.left = flow[c].left \ {k},
                                    !.mission = Append(flow[c].mission, <<k, m>>)]]
        PROVE  PassPlaced'
    <3>1. k \in DOMAIN flow[c].steps
      BY <1>3 DEF NextSteps
    <3>2. PICK g : g = [flow[c] EXCEPT !.at = "wait", !.last = k, !.left = flow[c].left \ {k},
                                       !.mission = Append(flow[c].mission, <<k, m>>)]
      OBVIOUS
    <3>3. g.last = k /\ g.steps = flow[c].steps
      BY <1>3, <3>2 DEF RunRecord
    <3>4. flow'[c] = g /\ \A d \in Call : d # c => flow'[d] = flow[d]
      BY <1>3, <2>1, <3>2
    <3>5. QED
      BY <1>2, <3>1, <3>3, <3>4
  <2>2. ASSUME flow' = [flow EXCEPT ![c] = [@ EXCEPT !.at = "status", !.outcome = "failed"]]
        PROVE  PassPlaced'
    <3>1. flow'[c].last = flow[c].last /\ flow'[c].steps = flow[c].steps
      BY <1>3, <2>2 DEF RunRecord
    <3>2. QED
      BY <1>2, <1>3, <2>2, <3>1
  <2>3. QED
    BY <1>5, <2>1, <2>2 DEF SubmitStep
<1>6. ASSUME NEW c \in Call, EndStep(c) \/ EndPasses(c) \/ SetStatus(c) \/ AppendRun(c)
      PROVE  PassPlaced'
  <2>1. PICK f \in RunRecord : f = flow[c]
    BY <1>3
  <2>2. ASSUME NEW g, flow' = [flow EXCEPT ![c] = g], g.last = f.last, g.steps = f.steps
        PROVE  PassPlaced'
    <3>1. flow'[c] = g /\ \A d \in Call : d # c => flow'[d] = flow[d]
      BY <1>3, <2>2
    <3>2. f.last \in {0} \cup DOMAIN f.steps
      BY <2>1
    <3>3. QED
      BY <1>2, <2>2, <3>1, <3>2
  <2>3. CASE EndStep(c)
    <3>1. PICK b : b = flow[c].done \cup {flow[c].steps[Current(c)[1]].id}
      OBVIOUS
    <3>2. \/ flow' = [flow EXCEPT ![c] = [f EXCEPT !.at = "status", !.outcome = "failed"]]
          \/ flow' = [flow EXCEPT ![c] = [f EXCEPT !.at = "choose", !.done = b]]
      BY <2>1, <2>3, <3>1 DEF EndStep
    <3>3. CASE flow' = [flow EXCEPT ![c] = [f EXCEPT !.at = "status", !.outcome = "failed"]]
      <4>1. PICK g : g = [f EXCEPT !.at = "status", !.outcome = "failed"]
        OBVIOUS
      <4>2. g.last = f.last /\ g.steps = f.steps
        BY <4>1 DEF RunRecord
      <4>3. QED
        BY <2>2, <3>3, <4>1, <4>2
    <3>4. CASE flow' = [flow EXCEPT ![c] = [f EXCEPT !.at = "choose", !.done = b]]
      <4>1. PICK g : g = [f EXCEPT !.at = "choose", !.done = b]
        OBVIOUS
      <4>2. g.last = f.last /\ g.steps = f.steps
        BY <4>1 DEF RunRecord
      <4>3. QED
        BY <2>2, <3>4, <4>1, <4>2
    <3>5. QED
      BY <3>2, <3>3, <3>4
  <2>4. CASE EndPasses(c)
    <3>1. PICK o : o = IF flow[c].left = {} THEN "completed" ELSE "stuck"
      OBVIOUS
    <3>2. PICK g : g = [f EXCEPT !.at = "status", !.outcome = o]
      OBVIOUS
    <3>3. g.last = f.last /\ g.steps = f.steps
      BY <3>2 DEF RunRecord
    <3>4. QED
      BY <2>1, <2>2, <2>4, <3>1, <3>2, <3>3 DEF EndPasses
  <2>5. CASE SetStatus(c) \/ AppendRun(c)
    <3>1. PICK a : flow' = [flow EXCEPT ![c].at = a]
      BY <2>5 DEF SetStatus, AppendRun
    <3>2. PICK g : g = [f EXCEPT !.at = a]
      OBVIOUS
    <3>3. g.last = f.last /\ g.steps = f.steps
      BY <3>2 DEF RunRecord
    <3>4. QED
      BY <2>1, <2>2, <3>1, <3>2, <3>3
  <2>6. QED
    BY <1>6, <2>3, <2>4, <2>5
<1>7. QED
  BY <1>1, <1>4, <1>5, <1>6 DEF WorkflowNext, RunPlan, Create, BumpVersion, MissionStep, workflowVars

\* What is known of the services bears the types they declare.
LEMMA WorkflowTypes ==
  ASSUME WorkflowInv, FailureInv, PassPlaced
  PROVE  WorkflowTypeOK
<1>1. \A p \in Plan : plans[p] # NoPlan =>
        plans[p] \in [steps : StepList, status : {"active", "completed", "failed"}]
  BY DEF WorkflowInv, PlanRecord
<1>2. runHistory \in Seq([call : Call, outcome : Outcome])
  BY DEF WorkflowInv
<1>3. ASSUME NEW c \in Call
      PROVE  /\ flow[c].at \in Point
             /\ flow[c].plan \in Plan \cup {NoPlan}
             /\ flow[c].left \subseteq DOMAIN flow[c].steps
             /\ flow[c].last \in {0} \cup DOMAIN flow[c].steps
             /\ flow[c].done \subseteq StepId
             /\ flow[c].mission \in Seq((DOMAIN flow[c].steps) \X Mission)
             /\ flow[c].outcome \in Outcome
  <2>1. PICK f \in RunRecord : f = flow[c] /\ OfPlan(f)
    BY DEF WorkflowInv, RunOK
  <2>2. f.mission \in Seq((DOMAIN f.steps) \X Mission)
    <3>1. \A n \in 1 .. Len(f.mission) : f.mission[n] \in (DOMAIN f.steps) \X Mission
      <4>1. \A n \in 1 .. Len(f.mission) : /\ f.mission[n] \in Nat \X Mission
                                           /\ f.mission[n][1] \in DOMAIN f.steps
        BY <2>1, RunParts DEF OfPlan, Begun
      <4>2. QED
        BY <4>1
    <3>2. f.mission \in Seq(Nat \X Mission)
      BY DEF RunRecord
    <3>3. QED
      BY <3>1, <3>2, LenProperties, SeqDef
  <2>3. f.at \in Point /\ f.plan \in Plan \cup {NoPlan} /\ f.done \subseteq StepId /\ f.outcome \in Outcome
    BY DEF RunRecord
  <2>4. f.left \subseteq DOMAIN f.steps
    BY <2>1 DEF OfPlan
  <2>5. f.last \in {0} \cup DOMAIN f.steps
    BY <2>1 DEF PassPlaced
  <2>6. QED
    BY <2>1, <2>2, <2>3, <2>4, <2>5
<1>4. failedRuns \subseteq Mission
  BY DEF FailureInv, FailuresRecorded
<1>5. QED
  BY <1>1, <1>2, <1>3, <1>4 DEF WorkflowTypeOK

\* The same of conversations and routines.
LEMMA ConversationTypes ==
  ASSUME TalkInv, RoutineInv
  PROVE  ConversationTypeOK
<1>1. ASSUME NEW r \in Routine PROVE history[r] \in SeqOf(Firing, MaxHistory)
  <2>1. fired[r] \in Seq(Firing) /\ history[r] \in Seq(Firing) /\ Len(history[r]) \in Nat
    BY LenProperties DEF RoutineInv
  <2>2. Len(history[r]) <= MaxHistory
    <3>1. CASE fired[r] = <<>>
      <4>1. history[r] = <<>>
        BY <3>1, MaxHistoryAssumption, EmptySeq DEF RoutineInv, Newest
      <4>2. QED
        BY <4>1, MaxHistoryAssumption, EmptySeq
    <3>2. CASE fired[r] # <<>>
      <4>1. PICK f \in Firing : f = fired[r][1]
        BY <2>1, <3>2, EmptySeq, LenProperties, ElementOfSeq
      <4>2. Len(Newest(MaxHistory, fired[r])) <= MaxHistory
        BY <2>1, NewestOfNewest, MaxHistoryAssumption
      <4>3. QED
        BY <4>2 DEF RoutineInv
    <3>3. QED
      BY <3>1, <3>2
  <2>3. history[r] \in [1 .. Len(history[r]) -> Firing]
    BY <2>1, LenProperties
  <2>4. QED
    BY <2>1, <2>2, <2>3, MaxHistoryAssumption DEF SeqOf
<1>2. history \in [Routine -> SeqOf(Firing, MaxHistory)]
  BY <1>1 DEF RoutineInv
<1>3. QED
  BY <1>2 DEF ConversationTypeOK, TalkInv, TalkTyped, RoutineInv

\* The same of offers and tasks.
LEMMA PeersTypes ==
  ASSUME PeersInv
  PROVE  PeersTypeOK
<1>1. /\ Accepted \subseteq Offer /\ Cardinality(Offer) \in Nat /\ taskSeq \in Nat
      /\ taskSeq <= Cardinality(Offer)
  <2>1. Accepted \subseteq Offer
    BY DEF Accepted
  <2>2. QED
    BY <2>1, OfferAssumption, FS_Subset, FS_CardinalityType DEF PeersInv, Numbered
<1>2. taskSeq \in TaskId \cup {0}
  BY <1>1 DEF TaskId
<1>3. ASSUME NEW o \in Offer PROVE offers[o].id \in TaskId \cup {0}
  <2>1. CASE o \in Accepted
    <3>1. offers[o].id \in 1 .. taskSeq
      BY <2>1 DEF PeersInv, Numbered
    <3>2. QED
      BY <1>1, <3>1 DEF TaskId
  <2>2. CASE o \notin Accepted
    BY <2>2 DEF PeersInv, OfferOK, Accepted
  <2>3. QED
    BY <2>1, <2>2
<1>4. offers \in [Offer -> [at : {"idle", "submit", "read", "record", "returned", "unknown"},
                           id : TaskId \cup {0},
                           mission : Mission \cup {NoMission},
                           status : Status]]
  BY <1>3 DEF PeersInv, OfferRecord
<1>5. QED
  BY <1>2, <1>4 DEF PeersTypeOK, PeersInv

\* Every variable of the services keeps its type.
THEOREM TypeCorrect == Spec => []TypeOK
<1> DEFINE Known == /\ HostTypeOK /\ SchedulerInv /\ TalkInv /\ RoutineInv
                    /\ WorkflowInv /\ PassPlaced /\ PeersInv
<1>1. Init => Known
  <2> SUFFICES ASSUME Init PROVE Known
    OBVIOUS
  <2>1. HostTypeOK
    BY DEF Init, HostInit, HostTypeOK, MissionState
  <2>2. SchedulerInv
    BY InitScheduler DEF Init
  <2>3. TalkInv /\ RoutineInv /\ WorkflowInv /\ PeersInv
    BY InitTalk, InitRoutines, InitWorkflow, InitPeers DEF Init
  <2>4. PassPlaced
    BY DEF Init, WorkflowInit, NoFlow, PassPlaced
  <2>5. QED
    BY <2>1, <2>2, <2>3, <2>4
<1>2. Known /\ [Next]_vars => Known'
  <2> SUFFICES ASSUME Known, [Next]_vars PROVE Known'
    OBVIOUS
  <2>1. [HostNext]_hostVars
    BY SubmitsOnly
  <2>2. HostTypeOK'
    BY <2>1, LiveExists
  <2>3. SchedulerInv'
    BY OneService, SchedulerStep
  <2>4. TalkInv' /\ RoutineInv'
    BY OneService, TalkStep, RoutineStep
  <2>5. WorkflowInv' /\ PassPlaced'
    BY <2>1, OneService, WorkflowStep, PassStep
  <2>6. PeersInv'
    BY <2>1, OneService, PeersStep
  <2>7. QED
    BY <2>2, <2>3, <2>4, <2>5, <2>6
<1>3. Known /\ FailureInv => TypeOK
  BY WorkflowTypes, ConversationTypes, PeersTypes DEF TypeOK, SchedulerInv
<1> HIDE DEF Known
<1>4. QED
  BY <1>1, <1>2, <1>3, FailureInvariance, PTL DEF Spec

===============================================================================
