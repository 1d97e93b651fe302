--------------------------- MODULE ProviderManager ---------------------------
(***************************************************************************)
(* The provider manager (kernel/pkg/providercfg/manager.go) with the       *)
(* plugin registry (plugin/memory_registry.go), the credential broker      *)
(* (credentials/broker.go) and the kernel's list of adapters               *)
(* (RefreshAdapters, kernel/kernel.go).                                    *)
(*                                                                         *)
(* What a provider is lives in three places: its configuration in the      *)
(* manager, its plugin in the registry, and the instance the kernel routes *)
(* missions to.  An operation of the manager changes them one after the    *)
(* other, each under a lock of its own, while other operations do the      *)
(* same.  The list is rebuilt at the end of an operation, and whenever a   *)
(* mission is submitted, which may be in the middle of one.                *)
(*                                                                         *)
(* The settings of a provider are represented by the operations that       *)
(* contributed to them: creation starts the set, an update adds itself to  *)
(* the settings it has read.  A credential handle is represented by the    *)
(* operation that has put the key.  An id is a name and a suffix, 0 for    *)
(* none.                                                                   *)
(***************************************************************************)
EXTENDS Integers, FiniteSets

CONSTANTS
  Op,      \* requests to the manager, each served by a goroutine of its own
  Mission, \* missions that are submitted meanwhile
  Name,    \* names (or explicit ids) a creation may ask for
  Seed,    \* names of the providers that were loaded at start-up
  Stamp,   \* suffixes a taken id may get (the time modulo 100000), numbered from 1
  None,    \* nothing is stored under this id
  Linked   \* a credential handle that a request names, instead of bringing a key

ASSUME SeedAssumption == Name # {} /\ Seed \subseteq Name
ASSUME StampAssumption == Stamp \subseteq Nat \ {0}

Id == Name \X ({0} \cup Stamp)
Settings == SUBSET Op
Handle == Op \cup {None, Linked}
Config == [managed : BOOLEAN, settings : Settings, handle : Handle]
SeedIds == {<<n, 0>> : n \in Seed}

ASSUME NoneAssumption ==
  /\ None \notin Op /\ Linked \notin Op
  /\ \A x \in Settings \cup Config : x # None

ASSUME MissionAssumption == Mission \cap Op = {} /\ None \notin Mission

VARIABLES
  configs,    \* Manager.configs: id -> configuration
  plugins,    \* MemoryRegistry.byID: id -> settings of the registered instance
  vault,      \* MemoryBroker: id for which an operation has put a key
  served,     \* Kernel.providers: id -> settings of the instance missions get
  holder,     \* who holds the kernel's lock: an operation, a mission, or None
  listed,     \* ids the holder has listed and not yet looked up
  queued,     \* missions that have not been submitted yet
  pc,         \* operation -> where it is
  op,         \* operation -> its kind, id, configuration and inputs
  overlapped  \* ids on which two operations have run at the same time

vars == <<configs, plugins, vault, served, holder, listed, queued, pc, op, overlapped>>

Stage == {"idle", "put", "unregister", "register", "store", "refresh", "get", "done"}

Request == [kind : {"create", "update", "delete"}, id : Id, config : Config,
            supported : BOOLEAN]

\* Operations that are under way on an id.
Running(i) == {o \in Op : pc[o] \notin {"idle", "done"} /\ op[o].id = i}

Goto(o, stage) == pc' = [pc EXCEPT ![o] = stage]

\* An operation starts on an id, by itself or next to another one.
Begin(o, request, stage) ==
  /\ op' = [op EXCEPT ![o] = request]
  /\ Goto(o, stage)
  /\ overlapped' = IF Running(request.id) = {} THEN overlapped
                   ELSE overlapped \cup {request.id}

\* Start-up: every provider in the registry gets an unmanaged configuration.
Init ==
  /\ configs = [i \in Id |-> IF i \in SeedIds
                             THEN [managed |-> FALSE, settings |-> {}, handle |-> None]
                             ELSE None]
  /\ plugins = [i \in Id |-> IF i \in SeedIds THEN {} ELSE None]
  /\ vault = [o \in Op |-> None]
  /\ served = plugins
  /\ holder = None
  /\ listed = {}
  /\ queued = Mission
  /\ pc = [o \in Op |-> "idle"]
  /\ op = [o \in Op |-> [kind |-> "delete", id |-> CHOOSE i \in Id : TRUE,
                         config |-> [managed |-> TRUE, settings |-> {}, handle |-> None],
                         supported |-> TRUE]]
  /\ overlapped = {}

------------------------------------------------------------------------------
\* Mutant: the name is taken for an id without asking the registry.
NameAsId(n, i) == i = <<n, 0>>

\* The id of a new provider: its name, or the name and the time if that is taken.  The
\* longer id is not looked up again.
FreeId(n, i) ==
  IF plugins[<<n, 0>>] = None THEN i = <<n, 0>> ELSE i \in {<<n, s>> : s \in Stamp}

\* A creation brings a key, or names a handle, or does neither; its driver may not exist.
StartCreate(o) ==
  /\ pc[o] = "idle"
  /\ \E n \in Name, i \in Id, h \in {o, Linked, None}, supported \in BOOLEAN :
       /\ FreeId(n, i)
       /\ Begin(o, [kind |-> "create", id |-> i,
                    config |-> [managed |-> TRUE, settings |-> {o}, handle |-> h],
                    supported |-> supported],
                IF h = o THEN "put" ELSE "register")
  /\ UNCHANGED <<configs, plugins, vault, served, holder, listed, queued>>

\* Only providers that were created through the manager may be changed.
Manageable(i) == IF configs[i] = None THEN FALSE ELSE configs[i].managed

\* An update copies the configuration and changes the copy.  It may bring a key, and a
\* handle it names goes before the key's; else the handle stays.
StartUpdate(o) ==
  /\ pc[o] = "idle"
  /\ \E i \in Id, key \in BOOLEAN :
       /\ Manageable(i)
       /\ \E h \in {Linked, IF key THEN o ELSE configs[i].handle} :
            Begin(o, [kind |-> "update", id |-> i,
                      config |-> [managed |-> configs[i].managed,
                                  settings |-> configs[i].settings \cup {o},
                                  handle |-> h],
                      supported |-> TRUE],
                  IF key THEN "put" ELSE "unregister")
  /\ UNCHANGED <<configs, plugins, vault, served, holder, listed, queued>>

\* A deletion takes the configuration away first.
StartDelete(o) ==
  /\ pc[o] = "idle"
  /\ \E i \in Id :
       /\ Manageable(i)
       /\ configs' = [configs EXCEPT ![i] = None]
       /\ Begin(o, [kind |-> "delete", id |-> i, config |-> configs[i],
                    supported |-> TRUE], "unregister")
  /\ UNCHANGED <<plugins, vault, served, holder, listed, queued>>

\* Deletion and update refuse what they may not change, creation an unknown template.
Refuse(o) ==
  /\ pc[o] = "idle"
  /\ \E i \in Id : ~ Manageable(i)
  /\ Goto(o, "done")
  /\ UNCHANGED <<configs, plugins, vault, served, holder, listed, queued, op, overlapped>>

\* The broker stores the key under a new handle; older keys of the id stay.
PutKey(o) ==
  /\ pc[o] = "put"
  /\ vault' = [vault EXCEPT ![o] = op[o].id]
  /\ Goto(o, IF op[o].kind = "create" THEN "register" ELSE "unregister")
  /\ UNCHANGED <<configs, plugins, served, holder, listed, queued, op, overlapped>>

\* Mutant: the kernel is not told of a deletion.
LeaveServed(o) == Goto(o, IF op[o].kind = "update" THEN "register" ELSE "done")

\* A deletion ends with an error when there is no such plugin; an update does not care.
AfterUnregister(o) ==
  Goto(o, IF op[o].kind = "update" THEN "register"
          ELSE IF plugins[op[o].id] = None THEN "done" ELSE "refresh")

Unregister(o) ==
  /\ pc[o] = "unregister"
  /\ plugins' = [plugins EXCEPT ![op[o].id] = None]
  /\ AfterUnregister(o)
  /\ UNCHANGED <<configs, vault, served, holder, listed, queued, op, overlapped>>

\* materialize: an unsupported driver ends the operation, else the instance replaces
\* whatever is registered under the id.
Materialize(o) ==
  /\ pc[o] = "register"
  /\ IF op[o].supported
     THEN /\ plugins' = [plugins EXCEPT ![op[o].id] = op[o].config.settings]
          /\ Goto(o, "store")
     ELSE /\ Goto(o, "done")
          /\ UNCHANGED plugins
  /\ UNCHANGED <<configs, vault, served, holder, listed, queued, op, overlapped>>

\* Mutant: the configuration an update has read is stored unchanged.
StoreRead(o) ==
  configs' = [configs EXCEPT ![op[o].id] =
                [op[o].config EXCEPT !.settings = IF op[o].kind = "update" THEN @ \ {o} ELSE @]]

StoreConfig(o) == configs' = [configs EXCEPT ![op[o].id] = op[o].config]

Store(o) ==
  /\ pc[o] = "store"
  /\ StoreConfig(o)
  /\ Goto(o, "refresh")
  /\ UNCHANGED <<plugins, vault, served, holder, listed, queued, op, overlapped>>

------------------------------------------------------------------------------
\* refreshAdaptersLocked: the list is emptied and the registry asked for its manifests.
ListAdapters ==
  /\ served' = [i \in Id |-> None]
  /\ listed' = {i \in Id : plugins[i] # None}

\* RefreshAdapters, at the end of an operation, takes the kernel's lock.
Refresh(o) ==
  /\ pc[o] = "refresh"
  /\ holder = None
  /\ holder' = o
  /\ ListAdapters
  /\ Goto(o, "get")
  /\ UNCHANGED <<configs, plugins, vault, queued, op, overlapped>>

\* So does the submission of a mission, in the middle of whatever operations are under way.
SubmitMission(m) ==
  /\ m \in queued
  /\ holder = None
  /\ holder' = m
  /\ ListAdapters
  /\ queued' = queued \ {m}
  /\ UNCHANGED <<configs, plugins, vault, pc, op, overlapped>>

\* Each instance is looked up by itself; one that has gone meanwhile is skipped.
LookUp(i) ==
  /\ holder # None
  /\ i \in listed
  /\ served' = [served EXCEPT ![i] = plugins[i]]
  /\ listed' = listed \ {i}
  /\ UNCHANGED <<configs, plugins, vault, holder, queued, pc, op, overlapped>>

EndRefresh(o) ==
  /\ pc[o] = "get"
  /\ listed = {}
  /\ holder' = None
  /\ Goto(o, "done")
  /\ UNCHANGED <<configs, plugins, vault, served, listed, queued, op, overlapped>>

\* The mission takes a copy of the list with it.
EndSubmission(m) ==
  /\ holder = m
  /\ listed = {}
  /\ holder' = None
  /\ UNCHANGED <<configs, plugins, vault, served, listed, queued, pc, op, overlapped>>

------------------------------------------------------------------------------
Work(o) ==
  \/ PutKey(o) \/ Unregister(o) \/ Materialize(o) \/ Store(o)
  \/ Refresh(o) \/ EndRefresh(o)

\* All requests have been answered and all missions submitted: the only state in which
\* nothing is left to do.
AllDone ==
  /\ \A o \in Op : pc[o] = "done"
  /\ queued = {} /\ holder = None
  /\ UNCHANGED vars

Next ==
  \/ \E o \in Op : StartCreate(o) \/ StartUpdate(o) \/ StartDelete(o) \/ Refuse(o) \/ Work(o)
  \/ \E m \in Mission : SubmitMission(m) \/ EndSubmission(m)
  \/ \E i \in Id : LookUp(i)
  \/ AllDone

Spec == Init /\ [][Next]_vars

------------------------------------------------------------------------------
TypeOK ==
  /\ configs \in [Id -> Config \cup {None}]
  /\ plugins \in [Id -> Settings \cup {None}]
  /\ vault \in [Op -> Id \cup {None}]
  /\ served \in [Id -> Settings \cup {None}]
  /\ holder \in Op \cup Mission \cup {None}
  /\ listed \subseteq Id
  /\ queued \subseteq Mission
  /\ pc \in [Op -> Stage]
  /\ op \in [Op -> Request]
  /\ overlapped \subseteq Id

\* Missions are routed to what is registered: whenever no operation is under way on an id
\* and the kernel's lock is free, the kernel serves exactly the registered instance of that
\* id, or none if there is none.  However operations overlap and whenever missions rebuild
\* the list, the last refresh begins after the last change of the registry
\* (manager.go:206, 231, 285; kernel.go:190-207, 334).
ServedAsRegistered ==
  holder = None => \A i \in Id : Running(i) = {} => served[i] = plugins[i]

\* What the manager shows is what is registered: for an id on which operations have
\* come one after the other, configuration and plugin are both there or both absent
\* and have the same settings, and the key the configuration names is in the broker
\* (manager.go:189-204, 226-228, 278-283).
ConfigMatchesPlugin ==
  \A i \in Id \ overlapped :
    Running(i) = {} =>
      IF configs[i] = None THEN plugins[i] = None
      ELSE /\ plugins[i] = configs[i].settings
           /\ configs[i].handle \in Op => vault[configs[i].handle] = i

\* The providers that were loaded at start-up are protected: whatever is created,
\* updated or deleted, missions can be routed to them, with their original settings,
\* whenever the kernel's lock is free (docs/MULTI_PROVIDER.md:62, manager.go:185, 222, 241).
SeedsServed == holder = None => \A i \in SeedIds : served[i] = {}
==============================================================================
