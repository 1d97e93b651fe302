--------------------------- MODULE MissionLifecycle ---------------------------
(***************************************************************************)
(* What a host may count on about a mission (kernel/pkg/host/host.go),     *)
(* without how the kernel works: its state, how far its run is, and which  *)
(* of its states mission.updated events have announced.                    *)
(*                                                                         *)
(* A run concludes exactly once, and only from then on may the mission     *)
(* rest in a state that is not cancelled or running.  A cancellation may   *)
(* arrive at any time; because the kernel writes states without looking at *)
(* the current one, a conclusion replaces an earlier cancellation and a    *)
(* cancellation an earlier conclusion.  Every state that is written is     *)
(* announced later, in an order that need not be the order of the writes.  *)
(***************************************************************************)
EXTENDS Integers

CONSTANT Mission

VARIABLES
  state,      \* mission -> its host-visible state, or "absent"
  run,        \* mission -> "none", "running", "concluded" or "announced"
  verdict,    \* mission -> the state its run concluded with, or "none"
  pending,    \* mission -> number of cancellations written and not announced
  announced   \* mission -> the states announced so far

vars == <<state, run, verdict, pending, announced>>

Verdicts == {"succeeded", "failed", "awaiting_approval"}
MissionState == {"absent", "running", "cancelled"} \cup Verdicts

Init ==
  /\ state = [m \in Mission |-> "absent"]
  /\ run = [m \in Mission |-> "none"]
  /\ verdict = [m \in Mission |-> "none"]
  /\ pending = [m \in Mission |-> 0]
  /\ announced = [m \in Mission |-> {}]

Submit(m) ==
  /\ run[m] = "none"
  /\ run' = [run EXCEPT ![m] = "running"]
  /\ state' = [state EXCEPT ![m] = "running"]
  /\ UNCHANGED <<verdict, pending, announced>>

Conclude(m) ==
  /\ run[m] = "running"
  /\ run' = [run EXCEPT ![m] = "concluded"]
  /\ \E v \in Verdicts :
       /\ state' = [state EXCEPT ![m] = v]
       /\ verdict' = [verdict EXCEPT ![m] = v]
  /\ UNCHANGED <<pending, announced>>

AnnounceVerdict(m) ==
  /\ run[m] = "concluded"
  /\ run' = [run EXCEPT ![m] = "announced"]
  /\ announced' = [announced EXCEPT ![m] = @ \cup {verdict[m]}]
  /\ UNCHANGED <<state, verdict, pending>>

Cancel(m) ==
  /\ run[m] # "none"
  /\ state' = [state EXCEPT ![m] = "cancelled"]
  /\ pending' = [pending EXCEPT ![m] = @ + 1]
  /\ UNCHANGED <<run, verdict, announced>>

AnnounceCancel(m) ==
  /\ pending[m] > 0
  /\ pending' = [pending EXCEPT ![m] = @ - 1]
  /\ announced' = [announced EXCEPT ![m] = @ \cup {"cancelled"}]
  /\ UNCHANGED <<state, run, verdict>>

Next ==
  \E m \in Mission :
    \/ Submit(m) \/ Conclude(m) \/ AnnounceVerdict(m)
    \/ Cancel(m) \/ AnnounceCancel(m)

Spec == Init /\ [][Next]_vars

\* The run of a submitted mission concludes, and what was written is announced.
Fairness ==
  \A m \in Mission :
    WF_vars(Conclude(m)) /\ WF_vars(AnnounceVerdict(m)) /\ WF_vars(AnnounceCancel(m))

FairSpec == Spec /\ Fairness
=============================================================================
