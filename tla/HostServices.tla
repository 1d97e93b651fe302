----------------------------- MODULE HostServices -----------------------------
(***************************************************************************)
(* The services of the kernel that submit missions and wait for them, each *)
(* over the missions of MissionHost.  They share nothing else: a service   *)
(* reads only the records of missions it has submitted itself.  So a       *)
(* behaviour of this module uses one of them.                              *)
(***************************************************************************)
EXTENDS Scheduler, Conversations, Workflow, Peers

ASSUME MissionAssumption == Mission \subseteq Nat \ {NoMission}

VARIABLE service  \* the service that is used

vars == <<service, hostVars, schedulerVars, conversationVars, workflowVars, peerVars>>

Init ==
  /\ service \in {"scheduler", "talk", "routines", "workflow", "a2a"}
  /\ HostInit
  /\ SchedulerInit
  /\ ConversationInit
  /\ WorkflowInit
  /\ PeersInit

Next ==
  /\ UNCHANGED service
  /\ \/ /\ service = "scheduler"
        /\ SchedulerNext
        /\ UNCHANGED <<conversationVars, workflowVars, peerVars>>
     \/ /\ service = "talk"
        /\ TalkNext
        /\ UNCHANGED <<schedulerVars, workflowVars, peerVars>>
     \/ /\ service = "routines"
        /\ RoutineNext
        /\ UNCHANGED <<schedulerVars, workflowVars, peerVars>>
     \/ /\ service = "workflow"
        /\ WorkflowNext
        /\ UNCHANGED <<schedulerVars, conversationVars, peerVars>>
     \/ /\ service = "a2a"
        /\ PeersNext
        /\ UNCHANGED <<schedulerVars, conversationVars, workflowVars>>

Spec == Init /\ [][Next]_vars

\* Missions end, the ticker and the requests that run plans go on; nothing else is obliged
\* to happen.
Fairness ==
  /\ \A m \in Mission :
       WF_vars(/\ Conclude(m)
               /\ UNCHANGED <<service, schedulerVars, conversationVars, workflowVars, peerVars>>)
  /\ WF_vars(/\ service = "scheduler"
             /\ Ticker
             /\ UNCHANGED <<service, conversationVars, workflowVars, peerVars>>)
  /\ \A c \in Call :
       WF_vars(/\ service = "workflow"
               /\ RunPlan(c)
               /\ UNCHANGED <<service, schedulerVars, conversationVars, peerVars>>)

FairSpec == Spec /\ Fairness

TypeOK ==
  /\ HostTypeOK
  /\ SchedulerTypeOK
  /\ ConversationTypeOK
  /\ WorkflowTypeOK
  /\ PeersTypeOK
================================================================================
