------------------------------- MODULE Workflow -------------------------------
(***************************************************************************)
(* Plans (kernel/pkg/planner/plans.go) and the orchestrator that runs them *)
(* (kernel/pkg/workflow/orch.go).  RunPlan works on a copy of the plan,    *)
(* passes over its steps again and again, runs every step whose            *)
(* dependencies are done as a mission of its own, and writes the outcome   *)
(* first into the plan and then into its history, while the plan is        *)
(* changed and run by others.                                              *)
(*                                                                         *)
(* A step is a place in the plan's list and has an id and the ids it       *)
(* depends on; nothing keeps ids apart, and a dependency may name no step. *)
(***************************************************************************)
EXTENDS MissionHost, SequencesExt, FiniteSets

CONSTANTS
  Plan,       \* ids of plans
  StepList,   \* the lists of steps plans are made of
  Call,       \* requests to run a plan
  NoPlan      \* there is no plan with this id

\* The steps there are, and their ids.
Step == UNION {{steps[k] : k \in DOMAIN steps} : steps \in StepList}
StepId == {step.id : step \in Step}

ASSUME StepListAssumption == StepList \subseteq Seq(Step)

VARIABLES
  plans,      \* Store.byID: id -> [steps, status]
  flow,       \* call -> the local variables of RunPlan
  runHistory, \* Orchestrator.runs: each run as its call and its outcome
  failedRuns  \* history: missions whose run has failed, whatever their record has become

workflowVars == <<plans, flow, runHistory, failedRuns>>

\* Where RunPlan is.
Point == {"idle", "choose", "wait", "status", "history", "done"}

NoFlow == [at |-> "idle", plan |-> NoPlan, steps |-> <<>>, left |-> {}, last |-> 0,
           done |-> {}, mission |-> <<>>, outcome |-> "running"]

WorkflowInit ==
  /\ plans = [p \in Plan |-> NoPlan]
  /\ flow = [c \in Call |-> NoFlow]
  /\ runHistory = <<>>
  /\ failedRuns = {}

Create(p) ==
  /\ plans[p] = NoPlan
  /\ \E steps \in StepList : plans' = [plans EXCEPT ![p] = [steps |-> steps, status |-> "active"]]
  /\ UNCHANGED <<flow, runHistory, failedRuns, hostVars>>

\* A new version has other steps and the status of the old one.
BumpVersion(p) ==
  /\ plans[p] # NoPlan
  /\ \E steps \in StepList : plans' = [plans EXCEPT ![p].steps = steps]
  /\ UNCHANGED <<flow, runHistory, failedRuns, hostVars>>

------------------------------------------------------------------------------
\* RunPlan copies the plan.
StartRun(c) ==
  /\ flow[c].at = "idle"
  /\ \E p \in Plan :
       /\ plans[p] # NoPlan
       /\ flow' = [flow EXCEPT ![c] =
                     [NoFlow EXCEPT !.at = "choose", !.plan = p, !.steps = plans[p].steps,
                                    !.left = DOMAIN plans[p].steps]]
  /\ UNCHANGED <<plans, runHistory, failedRuns, hostVars>>

\* Mutant: a step is ready when one of the steps it depends on is done.
ReadyEarly(c, k) ==
  LET needed == flow[c].steps[k].dependsOn
  IN needed = {} \/ needed \cap flow[c].done # {}

Ready(c, k) == flow[c].steps[k].dependsOn \subseteq flow[c].done

\* Mutant: one pass over the list.
OnePass(c) ==
  LET ready == {k \in flow[c].left : Ready(c, k) /\ k > flow[c].last}
  IN {k \in ready : \A j \in ready : k <= j}

\* The step whose turn it is: the next ready one behind the last in the list or, when the
\* pass has come to its end, the first ready one of those that were passed over.
NextSteps(c) ==
  LET ready == {k \in flow[c].left : Ready(c, k)}
      behind == {k \in ready : k > flow[c].last}
      pass == IF behind # {} THEN behind ELSE ready
  IN {k \in pass : \A j \in pass : k <= j}

\* Its mission is submitted; a refused submission ends the run.
SubmitStep(c) ==
  /\ flow[c].at = "choose"
  /\ \E k \in NextSteps(c) :
       \/ \E m \in Mission :
            /\ SubmitFresh(m)
            /\ flow' = [flow EXCEPT ![c] =
                          [@ EXCEPT !.at = "wait", !.last = k, !.left = flow[c].left \ {k},
                                    !.mission = Append(flow[c].mission, <<k, m>>)]]
       \/ /\ flow' = [flow EXCEPT ![c] = [@ EXCEPT !.at = "status", !.outcome = "failed"]]
          /\ UNCHANGED hostVars
  /\ UNCHANGED <<plans, runHistory, failedRuns>>

Current(c) == flow[c].mission[Len(flow[c].mission)]

\* A step is done unless its mission is recorded as failed when the record is read: one that
\* awaits an approval, or has been cancelled before or after its run, is done as well.
EndStep(c) ==
  /\ flow[c].at = "wait"
  /\ Returned(Current(c)[2])
  /\ LET k == Current(c)[1] IN
       flow' = [flow EXCEPT ![c] =
                  IF state[Current(c)[2]] = "failed"
                  THEN [@ EXCEPT !.at = "status", !.outcome = "failed"]
                  ELSE [@ EXCEPT !.at = "choose",
                                 !.done = flow[c].done \cup {flow[c].steps[k].id}]]
  /\ UNCHANGED <<plans, runHistory, failedRuns, hostVars>>

\* Mutant: a pass without progress is followed by another.
PassAgain(c) == flow[c].left = {}

\* No step is ready: all are done, or the dependencies of the rest never will be.
Exhausted(c) == NextSteps(c) = {}

EndPasses(c) ==
  /\ flow[c].at = "choose"
  /\ Exhausted(c)
  /\ flow' = [flow EXCEPT ![c] = [@ EXCEPT !.at = "status",
                                    !.outcome = IF flow[c].left = {} THEN "completed"
                                                ELSE "stuck"]]
  /\ UNCHANGED <<plans, runHistory, failedRuns, hostVars>>

\* SetStatus, over whatever another run has written; a stuck run ends here.
SetStatus(c) ==
  /\ flow[c].at = "status"
  /\ plans' = [plans EXCEPT ![flow[c].plan].status =
                 IF flow[c].outcome = "completed" THEN "completed" ELSE "failed"]
  /\ flow' = [flow EXCEPT ![c].at = IF flow[c].outcome = "stuck" THEN "done" ELSE "history"]
  /\ UNCHANGED <<runHistory, failedRuns, hostVars>>

AppendRun(c) ==
  /\ flow[c].at = "history"
  /\ runHistory' = Append(runHistory, [call |-> c, outcome |-> flow[c].outcome])
  /\ flow' = [flow EXCEPT ![c].at = "done"]
  /\ UNCHANGED <<plans, failedRuns, hostVars>>

------------------------------------------------------------------------------
\* Missions end and are cancelled; the history keeps what a cancellation overwrites.
MissionStep ==
  /\ KernelStep
  /\ failedRuns' = failedRuns \cup {m \in live \ live' : state'[m] = "failed"}
  /\ UNCHANGED <<plans, flow, runHistory>>

RunPlan(c) ==
  SubmitStep(c) \/ EndStep(c) \/ EndPasses(c) \/ SetStatus(c) \/ AppendRun(c)

WorkflowNext ==
  \/ \E p \in Plan : Create(p) \/ BumpVersion(p)
  \/ \E c \in Call : StartRun(c) \/ RunPlan(c)
  \/ MissionStep

------------------------------------------------------------------------------
Outcome == {"running", "completed", "failed", "stuck"}

WorkflowTypeOK ==
  /\ \A p \in Plan : plans[p] # NoPlan =>
       plans[p] \in [steps : StepList, status : {"active", "completed", "failed"}]
  /\ \A c \in Call :
       /\ flow[c].at \in Point
       /\ flow[c].plan \in Plan \cup {NoPlan}
       /\ flow[c].left \subseteq DOMAIN flow[c].steps
       /\ flow[c].last \in {0} \cup DOMAIN flow[c].steps
       /\ flow[c].done \subseteq StepId
       /\ flow[c].mission \in Seq((DOMAIN flow[c].steps) \X Mission)
       /\ flow[c].outcome \in Outcome
  /\ runHistory \in Seq([call : Call, outcome : Outcome])
  /\ failedRuns \subseteq Mission

\* A mission that a run of a plan may go on after: its run has ended and has not failed, or
\* an operator has cancelled it, which hides the failure: only the record is looked at
\* (orch.go:96-97), and a cancellation overwrites any state of it (kernel.go:778).
Passes(m) == m \notin live /\ (m \in failedRuns => state[m] = "cancelled")

\* In every run of a plan a step is submitted at most once, and only after a mission of every
\* step it depends on.  Nothing is submitted while the mission of an earlier step runs, nor
\* after one whose run has failed, unless that mission has been cancelled.  New versions of
\* the plan and other runs of it in between do not matter (orch.go:56-70, 96-108).
DependenciesFirst ==
  \A c \in Call : \A i \in DOMAIN flow[c].mission :
    LET started == flow[c].mission
    IN /\ \A n \in 1 .. i - 1 : Passes(started[n][2]) /\ started[n][1] # started[i][1]
       /\ \A d \in flow[c].steps[started[i][1]].dependsOn :
            \E n \in 1 .. i - 1 : flow[c].steps[started[n][1]].id = d

\* What a run reports is what happened.  It is completed only when a mission of every step
\* has ended, none of them in a failure that no cancellation hides; it is failed only when a
\* submission was refused or its last mission has failed; it is stuck only when every step
\* that is left waits for an id that no step that has run bears.  And it is in the history
\* once, with that outcome, unless it was stuck (orch.go:85-124).
RunsReported ==
  \A c \in Call : flow[c].at = "done" =>
    LET started == flow[c].mission
        ran == {started[n][1] : n \in DOMAIN started}
        entries == {n \in DOMAIN runHistory : runHistory[n].call = c}
    IN /\ flow[c].outcome = "completed" =>
            ran = DOMAIN flow[c].steps /\ \A n \in DOMAIN started : Passes(started[n][2])
       /\ flow[c].outcome = "failed" =>
            ran # DOMAIN flow[c].steps \/ Last(started)[2] \in failedRuns
       /\ flow[c].outcome = "stuck" =>
            \A k \in (DOMAIN flow[c].steps) \ ran :
              \E d \in flow[c].steps[k].dependsOn : \A j \in ran : flow[c].steps[j].id # d
       /\ IF flow[c].outcome = "stuck" THEN entries = {}
          ELSE /\ Cardinality(entries) = 1
               /\ \A n \in entries : runHistory[n].outcome = flow[c].outcome

\* Every run of a plan returns, also when its dependencies form a cycle or name no step
\* (orch.go:109-115).
RunPlanReturns == \A c \in Call : flow[c].at # "idle" ~> flow[c].at = "done"
================================================================================
