----------------------------- MODULE Deployments -----------------------------
(***************************************************************************)
(* Rollouts (kernel/pkg/deploy/session.go), which operators take from one  *)
(* stage to the next and which stop at a gate until it is approved, and    *)
(* the runs of the remediation playbook (kernel/pkg/remediation/engine.go).*)
(* An advance says nothing of the stage it was meant for: one that is      *)
(* repeated, or that comes late, is applied to the stage it finds.         *)
(***************************************************************************)
EXTENDS Integers, Sequences

CONSTANTS
  Rollout,   \* numbers of deploy sessions
  MaxRuns    \* bound on remediation runs

ASSUME DeployAssumption ==
  /\ Rollout \subseteq Nat \ {0}
  /\ MaxRuns \in Nat

VARIABLES
  sessions,   \* deploy.Service.byID: rollout -> [status, gates]
  approvals,  \* history: rollout -> the stages at which an advance approved its gate
  runs        \* remediation.Engine.runs: the status of each

deployVars == <<sessions, approvals, runs>>

Stage == {"absent", "pending", "running", "gated", "succeeded"}

DeployInit ==
  /\ sessions = [d \in Rollout |-> [status |-> "absent", gates |-> FALSE]]
  /\ approvals = [d \in Rollout |-> {}]
  /\ runs = <<>>

\* Create numbers sessions one after the other.
Create(d) ==
  /\ sessions[d].status = "absent"
  /\ \A e \in Rollout : e < d => sessions[e].status # "absent"
  /\ \E gates \in BOOLEAN :
       sessions' = [sessions EXCEPT ![d] = [status |-> "pending", gates |-> gates]]
  /\ UNCHANGED <<approvals, runs>>

\* Mutant: a session at its gate goes on with any advance.
PassGate(d, approve) ==
  CASE sessions[d].status = "pending" -> "running"
    [] sessions[d].status = "running" /\ sessions[d].gates /\ ~ approve -> "gated"
    [] OTHER -> "succeeded"

\* The stage an advance takes a session to, and those it leaves as they are.
NextStage(d, approve) ==
  CASE sessions[d].status = "pending" -> "running"
    [] sessions[d].status = "running" /\ sessions[d].gates /\ ~ approve -> "gated"
    [] sessions[d].status = "gated" /\ ~ approve -> "gated"
    [] OTHER -> "succeeded"

Advance(d, approve) ==
  /\ sessions[d].status \notin {"absent", "succeeded"}
  /\ sessions' = [sessions EXCEPT ![d].status = NextStage(d, approve)]
  /\ approvals' = IF approve THEN [approvals EXCEPT ![d] = @ \cup {sessions[d].status}]
                  ELSE approvals
  /\ UNCHANGED runs

------------------------------------------------------------------------------
\* The playbook the engine starts with is the only one, and it is enabled.
RunPlaybook(frozen) ==
  /\ Len(runs) < MaxRuns
  /\ runs' = Append(runs, IF frozen THEN "denied" ELSE "ok")
  /\ UNCHANGED <<sessions, approvals>>

DeployNext ==
  \/ \E d \in Rollout : Create(d) \/ \E approve \in BOOLEAN : Advance(d, approve)
  \/ \E frozen \in BOOLEAN : RunPlaybook(frozen)

DeploySpec == DeployInit /\ [][DeployNext]_deployVars
------------------------------------------------------------------------------
DeployTypeOK ==
  /\ sessions \in [Rollout -> [status : Stage, gates : BOOLEAN]]
  /\ approvals \in [Rollout -> SUBSET Stage]
  /\ runs \in Seq({"ok", "denied"})

\* A session with a gate succeeds only if an advance approved it when the rollout was under
\* way: an approval given to a session that had not started does not count, and repeated or
\* late advances of others do not replace it (Advance).
GateHonoured ==
  \A d \in Rollout :
    sessions[d].status = "succeeded" /\ sessions[d].gates =>
      approvals[d] \cap {"running", "gated"} # {}
================================================================================
