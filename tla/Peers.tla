-------------------------------- MODULE Peers --------------------------------
(***************************************************************************)
(* Peers of the host and the tasks offered to them (kernel/pkg/a2a).  An   *)
(* offer is numbered under the lock of the registry, runs as a mission     *)
(* with the lock released, and enters the list of tasks when that is over. *)
(* The kernel always sets a runner.                                        *)
(***************************************************************************)
EXTENDS MissionHost, FiniteSets

CONSTANTS
  Peer,        \* ids a peer may have
  SeededPeer,  \* those of the peers the registry starts with
  Offer        \* requests to offer a task

VARIABLES
  peers,    \* Registry.peers: the ids that are registered
  taskSeq,  \* Registry.seq
  offers,   \* offer -> the local variables of OfferTaskCtx
  tasks     \* Registry.tasks: id -> the task as it is listed, or NoTask

peerVars == <<peers, taskSeq, offers, tasks>>

ASSUME SeedAssumption == SeededPeer \subseteq Peer
ASSUME OfferAssumption == IsFiniteSet(Offer)

TaskId == 1..Cardinality(Offer)
NoTask == "none"
Status == {"accepted", "failed", "done"}

NoOffer == [at |-> "idle", id |-> 0, mission |-> NoMission, status |-> "accepted"]

PeersInit ==
  /\ peers = SeededPeer
  /\ taskSeq = 0
  /\ offers = [o \in Offer |-> NoOffer]
  /\ tasks = [id \in TaskId |-> NoTask]

\* A peer is registered, over the one that has its id.
Register(p) ==
  /\ peers' = peers \cup {p}
  /\ UNCHANGED <<taskSeq, offers, tasks, hostVars>>

\* Mutant: the number is read off the list of tasks.
ListedNumber == Cardinality({id \in TaskId : tasks[id] # NoTask}) + 1

NextNumber == taskSeq + 1

\* OfferTaskCtx looks the peer up and takes a number.
AcceptOffer(o) ==
  /\ offers[o].at = "idle"
  /\ \E p \in Peer :
       IF p \in peers
       THEN /\ taskSeq' = taskSeq + 1
            /\ offers' = [offers EXCEPT ![o] = [@ EXCEPT !.at = "submit", !.id = NextNumber]]
       ELSE /\ offers' = [offers EXCEPT ![o].at = "unknown"]
            /\ UNCHANGED taskSeq
  /\ UNCHANGED <<peers, tasks, hostVars>>

\* Where a refused submission goes on: the task is listed before the error is returned.
AfterRefusal(o) == "record"

\* SubmitMission takes the goal for the peer's agent, or refuses it.
SubmitOffer(o) ==
  /\ offers[o].at = "submit"
  /\ \/ \E m \in Mission :
          /\ SubmitFresh(m)
          /\ offers' = [offers EXCEPT ![o] = [@ EXCEPT !.at = "read", !.mission = m]]
     \/ /\ offers' = [offers EXCEPT ![o] = [@ EXCEPT !.at = AfterRefusal(o), !.status = "failed"]]
        /\ UNCHANGED hostVars
  /\ UNCHANGED <<peers, taskSeq, tasks>>

\* The mission has returned: whatever its record says but "failed" is a task that is done.
ReadOffer(o) ==
  /\ offers[o].at = "read"
  /\ Returned(offers[o].mission)
  /\ offers' = [offers EXCEPT ![o].at = "record",
                              ![o].status = IF state[offers[o].mission] = "failed" THEN "failed"
                                            ELSE "done"]
  /\ UNCHANGED <<peers, taskSeq, tasks, hostVars>>

RecordOffer(o) ==
  /\ offers[o].at = "record"
  /\ tasks' = [tasks EXCEPT ![offers[o].id] = offers[o].status]
  /\ offers' = [offers EXCEPT ![o].at = "returned"]
  /\ UNCHANGED <<peers, taskSeq, hostVars>>

------------------------------------------------------------------------------
OfferTask(o) == SubmitOffer(o) \/ ReadOffer(o) \/ RecordOffer(o)

PeersNext ==
  \/ \E p \in Peer : Register(p)
  \/ \E o \in Offer : AcceptOffer(o) \/ OfferTask(o)
  \/ KernelStep /\ UNCHANGED peerVars

------------------------------------------------------------------------------
PeersTypeOK ==
  /\ peers \subseteq Peer
  /\ taskSeq \in TaskId \cup {0}
  /\ offers \in [Offer -> [at : {"idle", "submit", "read", "record", "returned", "unknown"},
                           id : TaskId \cup {0},
                           mission : Mission \cup {NoMission},
                           status : Status]]
  /\ tasks \in [TaskId -> Status \cup {NoTask}]

\* What a list of tasks tells of an offer is so: the task is there, it has failed only if
\* its mission was refused or failed, and otherwise no mission of it runs on.
Tells(o) ==
  LET m == offers[o].mission IN
  /\ offers[o].id # 0
  /\ tasks[offers[o].id] \in {"failed", "done"}
  /\ tasks[offers[o].id] = "failed" =>
       (m = NoMission \/ state[m] \in {"failed", "cancelled"})
  /\ tasks[offers[o].id] = "done" => (m # NoMission /\ m \notin live)

\* An offer that has returned is listed under its own number, and goes on being told of as
\* it came to be: other offers do not write over it, and what happens to its mission
\* afterwards does not make it untrue (OfferTaskCtx, Tasks; peers.go:113-161).
TasksTellTrue == \A o \in Offer : offers[o].at = "returned" => Tells(o)
================================================================================
