------------------------------ MODULE MissionHost ------------------------------
(***************************************************************************)
(* Missions as a service sees them that submits them and reads their       *)
(* records (SubmitMission and GetMission of kernel/pkg/kernel/kernel.go):  *)
(* each has a run that ends, and a state that operators may change to      *)
(* cancelled before and after that.  MissionKernel implements this         *)
(* (theorem ImplementsHost), by way of MissionLifecycle.                   *)
(***************************************************************************)
EXTENDS Integers

CONSTANT Mission

VARIABLES
  state,  \* mission -> the state in its record, or "absent"
  live    \* missions whose run has not concluded

hostVars == <<state, live>>

Verdicts == {"succeeded", "failed", "awaiting_approval"}
MissionState == {"absent", "running", "cancelled"} \cup Verdicts

HostInit ==
  /\ state = [m \in Mission |-> "absent"]
  /\ live = {}

SubmitMission(m) ==
  /\ state[m] = "absent"
  /\ state' = [state EXCEPT ![m] = "running"]
  /\ live' = live \cup {m}

Conclude(m) ==
  /\ m \in live
  /\ \E v \in Verdicts : state' = [state EXCEPT ![m] = v]
  /\ live' = live \ {m}

CancelMission(m) ==
  /\ state[m] # "absent"
  /\ state' = [state EXCEPT ![m] = "cancelled"]
  /\ UNCHANGED live

\* What happens to missions that is no service's doing.
KernelStep == \E m \in Mission : Conclude(m) \/ CancelMission(m)

HostNext == KernelStep \/ \E m \in Mission : SubmitMission(m)

HostSpec == HostInit /\ [][HostNext]_hostVars

\* Stands for the mission of a submission that was refused, or not made yet.
NoMission == 0

\* Ids come from a clock: the next mission is the first that does not exist.  A
\* submission is refused when two fall on the same instant.
Fresh(m) ==
  /\ state[m] = "absent"
  /\ \A k \in Mission : state[k] = "absent" => m <= k

SubmitFresh(m) == Fresh(m) /\ SubmitMission(m)

\* Mutant: a mission is waited for until it has succeeded.
Succeeded(m) == m \in Mission => state[m] = "succeeded"

\* SubmitMission returns when the mission's run has ended, or at once if it refuses.
Returned(m) == m \notin live

HostTypeOK ==
  /\ state \in [Mission -> MissionState]
  /\ live \subseteq Mission
================================================================================
