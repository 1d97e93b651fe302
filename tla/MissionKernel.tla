----------------------------- MODULE MissionKernel -----------------------------
(***************************************************************************)
(* The mission control path of the kernel (kernel/pkg/kernel/kernel.go):   *)
(* SubmitMission and the executeMission it runs to the end in the caller's *)
(* goroutine, and CancelMission, which other goroutines call meanwhile.    *)
(*                                                                         *)
(* The kernel's mutex is held for single reads and writes of a mission     *)
(* record only; journal, credential broker, memory and artifact store have *)
(* locks of their own.  Each action below is what happens between two such *)
(* critical sections, in the order of the code; pc[m] names the next one.  *)
(*                                                                         *)
(* The candidate chain the router returns, and what a runtime's Execute    *)
(* returns, are chosen freely here.  journal[m] is the part of the event   *)
(* bus's log that Replay(m) returns.                                       *)
(***************************************************************************)
EXTENDS Integers, Sequences, FiniteSets

CONSTANTS
  Mission,       \* mission ids
  Provider,      \* provider plugins a candidate chain is made of
  Output,        \* texts an execution can return
  NoOutput,      \* the empty text
  Request,       \* what missions are submitted with: [mode, label, external]
  Charge,        \* costs and step counts one execution can report
  DefaultMode,   \* the policy's default mode
  MaxCost,       \* the policy's MaxCostUSD
  MaxSteps,      \* the policy's MaxSteps
  MaxCancels     \* bound on the cancellations of one mission

NoMission == "no mission"
NoProvider == "no provider"

\* Spellings of a mode that ParseMode is given; "absent" is a label map that is nil.
Spelling == {"", "full", "assist", "observe", "Observe", "Assist", "bogus"}

ASSUME RequestAssumption ==
  Request \subseteq [mode : Spelling, label : Spelling \cup {"absent"}, external : BOOLEAN]
ASSUME DefaultModeAssumption == DefaultMode \in {"", "full", "assist", "observe"}
ASSUME ChargeAssumption == Charge \subseteq Nat
ASSUME LimitAssumption == MaxCost \in Nat /\ MaxSteps \in Nat
ASSUME MaxCancelsAssumption == MaxCancels \in Nat
ASSUME ProviderAssumption == IsFiniteSet(Provider)
ASSUME NoMissionAssumption == NoMission \notin Mission

VARIABLES
  state,      \* mission -> Mission.State, or "absent" from Kernel.missions
  mode,       \* mission -> Mission.Mode, spelled as it was submitted
  providerID, \* mission -> Mission.ProviderID
  costUSD,    \* mission -> Mission.CostUSD
  pc,         \* mission -> the next critical section of its run
  request,    \* mission -> what it was submitted with
  chain,      \* mission -> the candidates of its run
  rank,       \* mission -> index in chain of the candidate being tried
  result,     \* mission -> what the last execution returned
  verdict,    \* mission -> the state its run will announce
  cancels,    \* mission -> cancellations begun
  pending,    \* mission -> cancellations written to the record, not yet published
  creds,      \* provider -> number of credentials the broker holds for it
  memory,     \* missions with an episodic memory entry
  artifacts,  \* output -> mission in the metadata of its artifact
  knowledge,  \* missions with a knowledge graph node
  journal,    \* mission -> its events
  spent       \* history: mission -> what all its executions reported to have cost

recordVars == <<state, mode, providerID, costUSD>>
runVars == <<request, chain, rank, result, verdict>>
cancelVars == <<cancels, pending>>
storeVars == <<creds, memory, artifacts, knowledge>>
vars == <<recordVars, pc, runVars, cancelVars, storeVars, journal, spent>>

-----------------------------------------------------------------------------
\* Modes (kernel/pkg/security/mode.go)

ParseMode(s) ==
  IF s \in {"", "full"} THEN "full"
  ELSE IF s \in {"assist", "Assist"} THEN "assist"
  ELSE IF s \in {"observe", "Observe"} THEN "observe"
  ELSE "invalid"

\* EvaluateMode compares the mode as it is spelled with the canonical spellings;
\* every other spelling takes the default branch, which is full mode.
AllowExecute(md, external) == md # "observe" /\ ~(md = "assist" /\ external)
RequireApproval(md, external) == md = "assist" /\ external

\* The mode field wins over the label, the label over the policy's default; a
\* label map without a mode counts as "full".
FallbackMode == IF DefaultMode = "" THEN "full" ELSE DefaultMode

ResolveMode(req) ==
  IF req.mode # "" THEN req.mode
  ELSE IF req.label # "absent" /\ ParseMode(req.label) # "invalid"
       THEN ParseMode(req.label)
       ELSE FallbackMode

\* The candidate chains a router can return: no provider appears twice.
Chains ==
  {s \in UNION {[1 .. n -> Provider] : n \in 1 .. Cardinality(Provider)} :
     \A i, j \in DOMAIN s : s[i] = s[j] => i = j}

Result == [status : {"succeeded", "failed"}, cost : Charge, steps : Charge,
           output : Output \cup {NoOutput}]

\* The zero values of a mission's request and of its result, before there is one.
NoRequest == [mode |-> "", label |-> "absent", external |-> FALSE]
NoResult == [status |-> "failed", cost |-> 0, steps |-> 0, output |-> NoOutput]

\* Limits of zero mean no limit (policy.CheckSteps and CheckBudget).
WithinPolicy(r) ==
  /\ MaxSteps > 0 => r.steps <= MaxSteps
  /\ MaxCost > 0 => r.cost <= MaxCost

-----------------------------------------------------------------------------
\* Events: a type and, where properties ask for it, a state or a provider

Event(type) == <<type, "">>
Updated(s) == <<"mission.updated", s>>
Issued(p) == <<"credential.issued", p>>
Started(p) == <<"runtime.started", p>>
Failed(p) == <<"provider.failed", p>>
FailedOver(p) == <<"provider.failover", p>>

Publish(m, e) == journal' = [journal EXCEPT ![m] = Append(@, e)]

At(m, l) == pc[m] = l
Goto(m, l) == pc' = [pc EXCEPT ![m] = l]

Candidate(m) == chain[m][rank[m]]
LastCandidate(m) == rank[m] = Len(chain[m])

Init ==
  /\ state = [m \in Mission |-> "absent"]
  /\ mode = [m \in Mission |-> ""]
  /\ providerID = [m \in Mission |-> NoProvider]
  /\ costUSD = [m \in Mission |-> 0]
  /\ pc = [m \in Mission |-> "absent"]
  /\ request = [m \in Mission |-> NoRequest]
  /\ chain = [m \in Mission |-> <<>>]
  /\ rank = [m \in Mission |-> 0]
  /\ result = [m \in Mission |-> NoResult]
  /\ verdict = [m \in Mission |-> "none"]
  /\ cancels = [m \in Mission |-> 0]
  /\ pending = [m \in Mission |-> 0]
  /\ creds \in [Provider -> {0, 1}]
  /\ memory = {}
  /\ artifacts = [o \in Output |-> NoMission]
  /\ knowledge = {}
  /\ journal = [m \in Mission |-> <<>>]
  /\ spent = [m \in Mission |-> 0]

-----------------------------------------------------------------------------
\* SubmitMission

\* A submission without capabilities or goal, with a mode that does not parse or
\* with an id in use is refused and changes nothing.
Submit(m) ==
  /\ At(m, "absent")
  /\ \E req \in Request :
       /\ ParseMode(ResolveMode(req)) # "invalid"
       /\ request' = [request EXCEPT ![m] = req]
       /\ mode' = [mode EXCEPT ![m] = ResolveMode(req)]
  /\ state' = [state EXCEPT ![m] = "running"]
  /\ Goto(m, "created")
  /\ UNCHANGED <<providerID, costUSD, chain, rank, result, verdict, cancelVars,
                 storeVars, journal, spent>>

PublishCreated(m) ==
  /\ At(m, "created")
  /\ Publish(m, Event("mission.created"))
  /\ Goto(m, "route")
  /\ UNCHANGED <<recordVars, runVars, cancelVars, storeVars, spent>>

-----------------------------------------------------------------------------
\* executeMission: routing and the security decision

Route(m) ==
  /\ At(m, "route")
  /\ \/ /\ chain' \in {[chain EXCEPT ![m] = c] : c \in Chains}
        /\ Publish(m, Event("route.decided"))
        /\ Goto(m, "secure")
     \/ /\ Goto(m, "fail")
        /\ UNCHANGED <<chain, journal>>
  /\ UNCHANGED <<recordVars, request, rank, result, verdict, cancelVars, storeVars, spent>>

\* The runtime may be gone or its sandbox below the policy's minimum.
EvaluateSecurity(m) ==
  /\ At(m, "secure")
  /\ \/ /\ Publish(m, Event("security.evaluated"))
        /\ Goto(m, "record")
     \/ /\ Goto(m, "fail")
        /\ UNCHANGED journal
  /\ UNCHANGED <<recordVars, runVars, cancelVars, storeVars, spent>>

RecordRoute(m) ==
  /\ At(m, "record")
  /\ providerID' = [providerID EXCEPT ![m] = chain[m][1]]
  /\ rank' = [rank EXCEPT ![m] = 1]
  /\ Goto(m, IF RequireApproval(mode[m], request[m].external) THEN "await"
             ELSE IF AllowExecute(mode[m], request[m].external) THEN "lookup"
             ELSE "observe")
  /\ UNCHANGED <<state, mode, costUSD, request, chain, result, verdict, cancelVars,
                 storeVars, journal, spent>>

\* The run writes its final state over whatever the record holds.
Conclude(m, s) ==
  /\ state' = [state EXCEPT ![m] = s]
  /\ verdict' = [verdict EXCEPT ![m] = s]
  /\ Goto(m, "report")
  /\ UNCHANGED <<mode, providerID, request, chain, rank, result, cancelVars, storeVars,
                 journal, spent>>

AwaitApproval(m) ==
  /\ At(m, "await")
  /\ Conclude(m, "awaiting_approval")
  /\ UNCHANGED costUSD

ObserveOnly(m) ==
  /\ At(m, "observe")
  /\ Conclude(m, "succeeded")
  /\ UNCHANGED costUSD

-----------------------------------------------------------------------------
\* executeMission: the failover loop

NextCandidate(m) ==
  IF LastCandidate(m)
  THEN Goto(m, "fail") /\ UNCHANGED rank
  ELSE Goto(m, "lookup") /\ rank' = [rank EXCEPT ![m] = @ + 1]

\* Mutant: a run waits for a credential instead of putting one.
AwaitCredential(m) ==
  /\ At(m, "lookup")
  /\ creds[Candidate(m)] > 0
  /\ Goto(m, "issued")
  /\ UNCHANGED <<recordVars, runVars, cancelVars, storeVars, journal, spent>>

FindCredential(m) ==
  /\ At(m, "lookup")
  /\ Goto(m, IF creds[Candidate(m)] > 0 THEN "issued" ELSE "issue")
  /\ UNCHANGED <<recordVars, runVars, cancelVars, storeVars, journal, spent>>

\* No credential was found: put a demonstration one.  When that fails the
\* candidate is skipped.
PutCredential(m) ==
  /\ At(m, "issue")
  /\ \/ /\ creds' = [creds EXCEPT ![Candidate(m)] = @ + 1]
        /\ Goto(m, "issued")
        /\ UNCHANGED rank
     \/ /\ NextCandidate(m)
        /\ UNCHANGED creds
  /\ UNCHANGED <<recordVars, request, chain, result, verdict, cancelVars, memory,
                 artifacts, knowledge, journal, spent>>

PublishIssued(m) ==
  /\ At(m, "issued")
  /\ Publish(m, Issued(Candidate(m)))
  /\ Goto(m, "assign")
  /\ UNCHANGED <<recordVars, runVars, cancelVars, storeVars, spent>>

\* Mutant: the record keeps the provider it was routed to.
AssignNothing(m) ==
  /\ At(m, "assign")
  /\ Goto(m, "start")
  /\ UNCHANGED <<recordVars, runVars, cancelVars, storeVars, journal, spent>>

AssignProvider(m) ==
  /\ At(m, "assign")
  /\ providerID' = [providerID EXCEPT ![m] = Candidate(m)]
  /\ Goto(m, "start")
  /\ UNCHANGED <<state, mode, costUSD, runVars, cancelVars, storeVars, journal, spent>>

PublishStarted(m) ==
  /\ At(m, "start")
  /\ Publish(m, Started(Candidate(m)))
  /\ Goto(m, "execute")
  /\ UNCHANGED <<recordVars, runVars, cancelVars, storeVars, spent>>

\* Execute returns a result, or an error with a failed result; either way what it
\* cost is in the result.
Execute(m) ==
  /\ At(m, "execute")
  /\ \E r \in Result :
       /\ result' = [result EXCEPT ![m] = r]
       /\ spent' = [spent EXCEPT ![m] = @ + r.cost]
       /\ Goto(m, IF r.status = "failed" THEN "failed"
                  ELSE IF rank[m] > 1 THEN "failover" ELSE "policy")
  /\ UNCHANGED <<recordVars, request, chain, rank, verdict, cancelVars, storeVars,
                 journal>>

PublishFailover(m) ==
  /\ At(m, "failover")
  /\ Publish(m, FailedOver(Candidate(m)))
  /\ Goto(m, "policy")
  /\ UNCHANGED <<recordVars, runVars, cancelVars, storeVars, spent>>

\* Mutant: a failed attempt is not journalled.
FailSilently(m) ==
  /\ At(m, "failed")
  /\ NextCandidate(m)
  /\ UNCHANGED <<recordVars, request, chain, result, verdict, cancelVars, storeVars,
                 journal, spent>>

PublishFailed(m) ==
  /\ At(m, "failed")
  /\ Publish(m, Failed(Candidate(m)))
  /\ NextCandidate(m)
  /\ UNCHANGED <<recordVars, request, chain, result, verdict, cancelVars, storeVars, spent>>

-----------------------------------------------------------------------------
\* executeMission: policy checks and what a successful run leaves behind

\* Mutant: the result is remembered before the limits are applied.
RememberFirst(m) ==
  /\ At(m, "policy")
  /\ memory' = memory \cup {m}
  /\ Goto(m, IF WithinPolicy(result[m]) THEN "completed" ELSE "fail")
  /\ UNCHANGED <<recordVars, runVars, cancelVars, creds, artifacts, knowledge, journal,
                 spent>>

\* The limits are applied to the last result; the memory entry comes next.
RememberResult(m) ==
  /\ At(m, "policy")
  /\ IF WithinPolicy(result[m])
     THEN memory' = memory \cup {m} /\ Goto(m, "completed")
     ELSE Goto(m, "fail") /\ UNCHANGED memory
  /\ UNCHANGED <<recordVars, runVars, cancelVars, creds, artifacts, knowledge, journal,
                 spent>>

PublishCompleted(m) ==
  /\ At(m, "completed")
  /\ Publish(m, Event("runtime.completed"))
  /\ Goto(m, "written")
  /\ UNCHANGED <<recordVars, runVars, cancelVars, storeVars, spent>>

PublishWritten(m) ==
  /\ At(m, "written")
  /\ Publish(m, Event("memory.written"))
  /\ Goto(m, IF result[m].output = NoOutput THEN "knowledge" ELSE "artifact")
  /\ UNCHANGED <<recordVars, runVars, cancelVars, storeVars, spent>>

\* The store is addressed by content: the same output replaces the metadata.
PutArtifact(m) ==
  /\ At(m, "artifact")
  /\ artifacts' = [artifacts EXCEPT ![result[m].output] = m]
  /\ Goto(m, "stored")
  /\ UNCHANGED <<recordVars, runVars, cancelVars, creds, memory, knowledge, journal, spent>>

PublishArtifact(m) ==
  /\ At(m, "stored")
  /\ Publish(m, Event("artifact.created"))
  /\ Goto(m, "knowledge")
  /\ UNCHANGED <<recordVars, runVars, cancelVars, storeVars, spent>>

UpsertKnowledge(m) ==
  /\ At(m, "knowledge")
  /\ knowledge' = knowledge \cup {m}
  /\ Goto(m, "succeed")
  /\ UNCHANGED <<recordVars, runVars, cancelVars, creds, memory, artifacts, journal, spent>>

Succeed(m) ==
  /\ At(m, "succeed")
  /\ Conclude(m, result[m].status)
  /\ costUSD' = [costUSD EXCEPT ![m] = result[m].cost]

\* setMissionFailed, for every error executeMission returns.
SetMissionFailed(m) ==
  /\ At(m, "fail")
  /\ Conclude(m, "failed")
  /\ UNCHANGED costUSD

\* Mutants: the verdict is written a second time with its event; the event is only
\* published when the record still holds the verdict.
PublishVerdictAgain(m) ==
  /\ At(m, "report")
  /\ Publish(m, Updated(verdict[m]))
  /\ state' = [state EXCEPT ![m] = verdict[m]]
  /\ Goto(m, "done")
  /\ UNCHANGED <<mode, providerID, costUSD, runVars, cancelVars, storeVars, spent>>

PublishVerdictIfKept(m) ==
  /\ At(m, "report")
  /\ state[m] = verdict[m]
  /\ Publish(m, Updated(verdict[m]))
  /\ Goto(m, "done")
  /\ UNCHANGED <<recordVars, runVars, cancelVars, storeVars, spent>>

PublishVerdict(m) ==
  /\ At(m, "report")
  /\ Publish(m, Updated(verdict[m]))
  /\ Goto(m, "done")
  /\ UNCHANGED <<recordVars, runVars, cancelVars, storeVars, spent>>

-----------------------------------------------------------------------------
\* CancelMission: any number of callers, at any time after the submission

\* Mutant: no event follows the cancellation.
CancelQuietly(m) ==
  /\ state[m] # "absent"
  /\ cancels[m] < MaxCancels
  /\ state' = [state EXCEPT ![m] = "cancelled"]
  /\ cancels' = [cancels EXCEPT ![m] = @ + 1]
  /\ UNCHANGED <<mode, providerID, costUSD, pc, runVars, pending, storeVars, journal, spent>>

Cancel(m) ==
  /\ state[m] # "absent"
  /\ cancels[m] < MaxCancels
  /\ state' = [state EXCEPT ![m] = "cancelled"]
  /\ cancels' = [cancels EXCEPT ![m] = @ + 1]
  /\ pending' = [pending EXCEPT ![m] = @ + 1]
  /\ UNCHANGED <<mode, providerID, costUSD, pc, runVars, storeVars, journal, spent>>

\* Mutants: the event is published again after it has been; it is only published
\* when the record still says "cancelled".
PublishCancelAgain(m) ==
  /\ cancels[m] > 0
  /\ pending' = [pending EXCEPT ![m] = @ - 1]
  /\ Publish(m, Updated("cancelled"))
  /\ UNCHANGED <<recordVars, pc, runVars, cancels, storeVars, spent>>

PublishCancelIfKept(m) ==
  /\ pending[m] > 0
  /\ state[m] = "cancelled"
  /\ pending' = [pending EXCEPT ![m] = @ - 1]
  /\ Publish(m, Updated("cancelled"))
  /\ UNCHANGED <<recordVars, pc, runVars, cancels, storeVars, spent>>

PublishCancel(m) ==
  /\ pending[m] > 0
  /\ pending' = [pending EXCEPT ![m] = @ - 1]
  /\ Publish(m, Updated("cancelled"))
  /\ UNCHANGED <<recordVars, pc, runVars, cancels, storeVars, spent>>

-----------------------------------------------------------------------------

Routing(m) == PublishCreated(m) \/ Route(m) \/ EvaluateSecurity(m) \/ RecordRoute(m)

Trying(m) ==
  \/ FindCredential(m) \/ PutCredential(m) \/ PublishIssued(m) \/ AssignProvider(m)
  \/ PublishStarted(m) \/ Execute(m) \/ PublishFailover(m) \/ PublishFailed(m)

Storing(m) ==
  \/ RememberResult(m) \/ PublishCompleted(m) \/ PublishWritten(m)
  \/ PutArtifact(m) \/ PublishArtifact(m) \/ UpsertKnowledge(m)

Concluding(m) ==
  AwaitApproval(m) \/ ObserveOnly(m) \/ Succeed(m) \/ SetMissionFailed(m)

\* A step of the goroutine that runs mission m.
Run(m) ==
  Routing(m) \/ Trying(m) \/ Storing(m) \/ Concluding(m) \/ PublishVerdict(m)

Next == \E m \in Mission : Submit(m) \/ Run(m) \/ Cancel(m) \/ PublishCancel(m)

Spec == Init /\ [][Next]_vars

\* A goroutine that has begun keeps running: every lock is held for a bounded time
\* and every Execute returns (the agent loop counts its steps, the HTTP client of
\* the provider has a timeout).  Nothing obliges a host to submit or to cancel.
Fairness == \A m \in Mission : WF_vars(Run(m)) /\ WF_vars(PublishCancel(m))

FairSpec == Spec /\ Fairness

-----------------------------------------------------------------------------
\* Properties

Events(m) == {journal[m][i] : i \in DOMAIN journal[m]}
Executions(m) == {i \in DOMAIN journal[m] : journal[m][i][1] = "runtime.started"}

Steps == {"absent", "created", "route", "secure", "record", "await", "observe", "lookup",
          "issue", "issued", "assign", "start", "execute", "failover", "failed",
          "policy", "completed", "written", "artifact", "stored", "knowledge",
          "succeed", "fail", "report", "done"}
Verdicts == {"succeeded", "failed", "awaiting_approval"}

JournalEvent ==
  ({"mission.created", "route.decided", "security.evaluated", "runtime.completed",
    "memory.written", "artifact.created"} \X {""})
  \cup ({"mission.updated"} \X (Verdicts \cup {"cancelled"}))
  \cup ({"credential.issued", "runtime.started", "provider.failed",
         "provider.failover"} \X Provider)

RecordsTyped ==
  /\ state \in [Mission -> {"absent", "running", "cancelled"} \cup Verdicts]
  /\ mode \in [Mission -> Spelling]
  /\ providerID \in [Mission -> Provider \cup {NoProvider}]
  /\ costUSD \in [Mission -> Nat]

RunsTyped ==
  /\ pc \in [Mission -> Steps]
  /\ request \in [Mission -> Request \cup {NoRequest}]
  /\ chain \in [Mission -> Seq(Provider)]
  /\ rank \in [Mission -> Nat]
  /\ result \in [Mission -> Result \cup {NoResult}]
  /\ verdict \in [Mission -> Verdicts \cup {"none"}]

CancelsTyped ==
  /\ cancels \in [Mission -> 0 .. MaxCancels]
  /\ pending \in [Mission -> 0 .. MaxCancels]

StoresTyped ==
  /\ creds \in [Provider -> Nat]
  /\ memory \in SUBSET Mission
  /\ artifacts \in [Output -> Mission \cup {NoMission}]
  /\ knowledge \in SUBSET Mission

JournalTyped ==
  /\ journal \in [Mission -> Seq(JournalEvent)]
  /\ spent \in [Mission -> Nat]

\* The types of the mission records (host.go:36-66) and of their runs.
TypeOK == RecordsTyped /\ RunsTyped /\ CancelsTyped /\ StoresTyped /\ JournalTyped

\* A mission record never stays "running" once its run is over: every way out of
\* executeMission has written a final state (kernel.go:354-358 and 457-755).
NoOrphanRun == \A m \in Mission : pc[m] = "done" => state[m] # "running"

\* When the run and every cancellation of a mission are through, the state in its
\* record has been announced by a mission.updated event (though not necessarily by
\* the last one: the state is written under the kernel's lock, the event published
\* after the lock is released, kernel.go:738-753 and 780-787).
StateAnnounced ==
  \A m \in Mission :
    pc[m] = "done" /\ pending[m] = 0 => Updated(state[m]) \in Events(m)

\* A provider is executed again only after the failure of the execution before it
\* has been journalled, and executions follow the router's order: later candidates
\* have a later place in the chain (the loop of kernel.go:573-677).
FailoverInOrder ==
  \A m \in Mission : \A i, j \in Executions(m) :
    i < j =>
      /\ \E k \in i .. j : journal[m][k] = Failed(journal[m][i][2])
      /\ \E x, y \in DOMAIN chain[m] :
           x < y /\ chain[m][x] = journal[m][i][2] /\ chain[m][y] = journal[m][j][2]

\* What a run leaves behind (memory entry, artifact, knowledge node) comes from an
\* execution that succeeded within the policy's limits, on a mission whose mode
\* allowed it, and such a run can only end in success (kernel.go:678-745).
EffectsNeedSuccess ==
  \A m \in Mission :
    m \in memory \cup knowledge \/ (\E o \in Output : artifacts[o] = m) =>
      /\ result[m].status = "succeeded" /\ WithinPolicy(result[m])
      /\ AllowExecute(mode[m], request[m].external)
      /\ \A p \in Provider : Started(p) \in Events(m) /\ Failed(p) \notin Events(m)
                              => p = providerID[m]
      /\ verdict[m] \in {"none", "succeeded"}

\* A mission that was really executed and ends "succeeded" names the provider that
\* did it and what it cost, and has its entries in memory and knowledge.
RecordMatchesRun ==
  \A m \in Mission :
    verdict[m] = "succeeded" /\ AllowExecute(mode[m], request[m].external) =>
      /\ Started(providerID[m]) \in Events(m) /\ Failed(providerID[m]) \notin Events(m)
      /\ costUSD[m] = result[m].cost
      /\ m \in memory \cap knowledge

\* Once the run has written its final state, only a cancellation changes the state
\* of the mission, and a submitted mission is never forgotten (kernel.go:757-788).
OnlyCancelAfterConclusion ==
  [][\A m \in Mission :
       /\ verdict[m] # "none" /\ state'[m] # state[m] => state'[m] = "cancelled"
       /\ state[m] # "absent" => state'[m] # "absent"]_vars

\* The run of every submitted mission comes to its end, whatever providers, policy
\* and cancellations do, and every cancellation is announced.
RunConcludes == \A m \in Mission : state[m] # "absent" ~> pc[m] = "done"
CancelAnnounced ==
  \A m \in Mission : pending[m] > 0 ~> Updated("cancelled") \in Events(m)

\* How far a run is, as hosts see it, and the states that have been announced.
RunPhase ==
  [m \in Mission |-> IF pc[m] = "absent" THEN "none"
                     ELSE IF pc[m] = "report" THEN "concluded"
                     ELSE IF pc[m] = "done" THEN "announced" ELSE "running"]

Announced ==
  [m \in Mission |-> {s \in Verdicts \cup {"cancelled"} : Updated(s) \in Events(m)}]

\* The kernel implements the lifecycle that hosts see.
Lifecycle == INSTANCE MissionLifecycle WITH run <- RunPhase, announced <- Announced

\* Every step of the kernel is a step of MissionLifecycle or invisible to hosts: a
\* run concludes once, and only what is in the record gets announced.
StepsOfLifecycle == Lifecycle!Spec

\* The kernel's scheduling also gives the progress MissionLifecycle promises.
ImplementsLifecycle == Lifecycle!FairSpec

-----------------------------------------------------------------------------
\* What the documentation says and the code does not do

\* docs/gates/README.md:23: POST /api/v1/missions/:id/cancel "flips state to
\* `cancelled`".  The run of the mission goes on and writes its own verdict.
CancelledStaysCancelled ==
  [][\A m \in Mission : state[m] = "cancelled" => state'[m] = "cancelled"]_vars
=============================================================================
