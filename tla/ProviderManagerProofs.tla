------------------------ MODULE ProviderManagerProofs ------------------------
(***************************************************************************)
(* Proofs about ProviderManager, for any number of requests, names and     *)
(* suffixes.                                                               *)
(***************************************************************************)
EXTENDS ProviderManager, TLAPS

\* An operation rebuilds the list exactly while it holds the kernel's lock.
LockInv ==
  /\ \A o \in Op : pc[o] = "get" <=> holder = o
  /\ holder = None => listed = {}

\* An operation has changed the registry and has not told the kernel yet.
Pending(o, i) ==
  /\ op[o].id = i
  /\ \/ pc[o] \in {"store", "refresh"}
     \/ pc[o] = "register" /\ op[o].kind = "update"

\* What is served is what is registered, is about to be looked up, or will be listed
\* again by the operation that made the difference.
Current ==
  \A i \in Id : \/ served[i] = plugins[i]
                \/ i \in listed
                \/ \E o \in Op : Pending(o, i)

UpdatesSupported == \A o \in Op : op[o].kind = "update" => op[o].supported

\* No operation ever gets hold of a provider that was loaded at start-up.
SeedsKept ==
  \A i \in SeedIds :
    /\ plugins[i] = {}
    /\ ~ Manageable(i)
    /\ \A o \in Op : op[o].id = i => pc[o] \in {"idle", "done"}
    /\ served[i] = {} \/ i \in listed

\* A handle stored for an id names a key that has been put for it, once and for all.
Keyed(h, i) == h \in Op => vault[h] = i /\ pc[h] \notin {"idle", "put"}

Agree(i) ==
  IF configs[i] = None THEN plugins[i] = None
  ELSE plugins[i] = configs[i].settings /\ Keyed(configs[i].handle, i)

\* What an operation that is alone on its id leaves for its remaining steps to do.
Midway(o, i) ==
  /\ op[o].kind \in {"create", "update"} =>
       \/ pc[o] = "put" /\ op[o].config.handle = o
       \/ Keyed(op[o].config.handle, i)
  /\ pc[o] = "put" => op[o].kind \in {"create", "update"} /\ Agree(i)
  /\ pc[o] = "unregister" =>
       IF op[o].kind = "update" THEN Agree(i)
       ELSE op[o].kind = "delete" /\ configs[i] = None
  /\ pc[o] = "register" =>
       \/ op[o].kind = "update"
       \/ op[o].kind = "create" /\ Agree(i)
  /\ pc[o] = "store" =>
       op[o].kind \in {"create", "update"} /\ plugins[i] = op[o].config.settings
  /\ pc[o] \in {"refresh", "get"} => Agree(i)

\* An id on which operations have come one after the other has at most one of them now,
\* and its configuration and plugin agree when there is none.
OneByOne ==
  \A i \in Id \ overlapped :
    /\ Running(i) = {} => Agree(i)
    /\ \A o \in Running(i) : Running(i) = {o} /\ Midway(o, i)

IInv == TypeOK /\ LockInv /\ UpdatesSupported /\ Current /\ SeedsKept /\ OneByOne

------------------------------------------------------------------------------


\* The steps of the operations, one by one.
LEMMA NextSteps ==
  Next <=> \/ \E o \in Op : \/ StartCreate(o) \/ StartUpdate(o) \/ StartDelete(o) \/ Refuse(o)
                            \/ PutKey(o) \/ Unregister(o) \/ Materialize(o) \/ Store(o)
                            \/ Refresh(o) \/ EndRefresh(o)
           \/ \E m \in Mission : SubmitMission(m) \/ EndSubmission(m)
           \/ \E i \in Id : LookUp(i)
           \/ AllDone
  BY DEF Next, Work

\* The providers of start-up have ids of their own.
LEMMA SeedIdsAreIds == SeedIds \subseteq Id
  BY SeedAssumption DEF SeedIds, Id

\* There is an id to begin with.
LEMMA SomeId == (CHOOSE i \in Id : TRUE) \in Id
  <1>1. PICK n \in Name : TRUE
    BY SeedAssumption
  <1>2. <<n, 0>> \in Id
    BY DEF Id
  <1> QED BY <1>2

\* Settings and configurations are told apart from their absence.
LEMMA NothingIsNone == /\ None \notin Op
                       /\ None # {}
                       /\ None \notin Settings
                       /\ None \notin Config
  BY NoneAssumption DEF Settings

\* Before the first request the kernel serves the providers of start-up.
LEMMA InitInv == Init => IInv
  <1> SUFFICES ASSUME Init PROVE IInv
    OBVIOUS
  <1> USE SeedIdsAreIds, NothingIsNone
  <1>1. TypeOK
    BY SomeId DEF Init, TypeOK, Config, Handle, Settings, Stage, Request
  <1>2. LockInv
    BY DEF Init, LockInv
  <1>3. UpdatesSupported
    BY DEF Init, UpdatesSupported
  <1>4. Current
    BY DEF Init, Current
  <1>5. SeedsKept
    BY DEF Init, SeedsKept, Manageable
  <1>6. OneByOne
    <2>1. \A i \in Id : Running(i) = {}
      BY DEF Init, Running
    <2>2. ASSUME NEW i \in Id PROVE Agree(i)
      <3>1. CASE i \in SeedIds
        <4>1. configs[i] \in Config
          BY <3>1 DEF Init, Config, Settings, Handle
        <4>2. configs[i].settings = {} /\ configs[i].handle = None /\ plugins[i] = {}
          BY <3>1 DEF Init
        <4> QED BY <4>1, <4>2 DEF Agree, Keyed
      <3>2. CASE i \notin SeedIds
        BY <3>2 DEF Init, Agree
      <3> QED BY <3>1, <3>2
    <2> QED BY <2>1, <2>2 DEF OneByOne
  <1> QED BY <1>1, <1>2, <1>3, <1>4, <1>5, <1>6 DEF IInv

\* A request that is taken up is typed.
LEMMA BeginTyped ==
  ASSUME TypeOK, NEW o \in Op, NEW r \in Request, NEW stage \in Stage, Begin(o, r, stage)
  PROVE  op' \in [Op -> Request] /\ pc' \in [Op -> Stage] /\ overlapped' \subseteq Id
  BY DEF TypeOK, Begin, Goto, Request

\* The types are kept.
LEMMA TypeStep == IInv /\ Next => TypeOK'
  <1> SUFFICES ASSUME TypeOK, Next PROVE TypeOK'
    BY DEF IInv
  <1>1. ASSUME NEW o \in Op, StartCreate(o) PROVE TypeOK'
    <2>1. PICK n \in Name, i \in Id, h \in {o, Linked, None}, supported \in BOOLEAN :
            Begin(o, [kind |-> "create", id |-> i,
                      config |-> [managed |-> TRUE, settings |-> {o}, handle |-> h],
                      supported |-> supported],
                  IF h = o THEN "put" ELSE "register")
      BY <1>1 DEF StartCreate
    <2>2. [kind |-> "create", id |-> i,
           config |-> [managed |-> TRUE, settings |-> {o}, handle |-> h],
           supported |-> supported] \in Request
      BY DEF Request, Config, Settings, Handle
    <2>3. op' \in [Op -> Request] /\ pc' \in [Op -> Stage] /\ overlapped' \subseteq Id
      BY <2>1, <2>2, BeginTyped DEF Stage
    <2> QED BY <1>1, <2>3 DEF StartCreate, TypeOK
  <1>2. ASSUME NEW o \in Op, StartUpdate(o) PROVE TypeOK'
    <2>1. PICK i \in Id, key \in BOOLEAN :
            /\ Manageable(i)
            /\ \E h \in {Linked, IF key THEN o ELSE configs[i].handle} :
                 Begin(o, [kind |-> "update", id |-> i,
                           config |-> [managed |-> configs[i].managed,
                                       settings |-> configs[i].settings \cup {o},
                                       handle |-> h],
                           supported |-> TRUE],
                       IF key THEN "put" ELSE "unregister")
      BY <1>2 DEF StartUpdate
    <2>2. configs[i] \in Config
      BY <2>1 DEF TypeOK, Manageable
    <2>3. PICK h \in Handle :
            Begin(o, [kind |-> "update", id |-> i,
                      config |-> [managed |-> configs[i].managed,
                                  settings |-> configs[i].settings \cup {o},
                                  handle |-> h],
                      supported |-> TRUE],
                  IF key THEN "put" ELSE "unregister")
      BY <2>1, <2>2 DEF Config, Handle
    <2>4. [kind |-> "update", id |-> i,
           config |-> [managed |-> configs[i].managed,
                       settings |-> configs[i].settings \cup {o}, handle |-> h],
           supported |-> TRUE] \in Request
      BY <2>2 DEF Request, Config, Settings
    <2>5. op' \in [Op -> Request] /\ pc' \in [Op -> Stage] /\ overlapped' \subseteq Id
      BY <2>3, <2>4, BeginTyped DEF Stage
    <2> QED BY <1>2, <2>5 DEF StartUpdate, TypeOK
  <1>3. ASSUME NEW o \in Op, StartDelete(o) PROVE TypeOK'
    <2>1. PICK i \in Id :
            /\ Manageable(i)
            /\ configs' = [configs EXCEPT ![i] = None]
            /\ Begin(o, [kind |-> "delete", id |-> i, config |-> configs[i],
                         supported |-> TRUE], "unregister")
      BY <1>3 DEF StartDelete
    <2>2. [kind |-> "delete", id |-> i, config |-> configs[i], supported |-> TRUE] \in Request
      BY <2>1 DEF TypeOK, Manageable, Request
    <2>3. op' \in [Op -> Request] /\ pc' \in [Op -> Stage] /\ overlapped' \subseteq Id
      BY <2>1, <2>2, BeginTyped DEF Stage
    <2> QED BY <1>3, <2>1, <2>3 DEF StartDelete, TypeOK
  <1>4. ASSUME NEW o \in Op, Refuse(o) PROVE TypeOK'
    BY <1>4 DEF Refuse, TypeOK, Goto, Stage
  <1>5. ASSUME NEW o \in Op, PutKey(o) PROVE TypeOK'
    BY <1>5 DEF PutKey, TypeOK, Goto, Stage, Request
  <1>6. ASSUME NEW o \in Op, Unregister(o) PROVE TypeOK'
    BY <1>6 DEF Unregister, AfterUnregister, TypeOK, Goto, Stage
  <1>7. ASSUME NEW o \in Op, Materialize(o) PROVE TypeOK'
    <2>1. op[o].config.settings \in Settings
      BY DEF TypeOK, Request, Config
    <2> QED BY <1>7, <2>1 DEF Materialize, TypeOK, Goto, Stage
  <1>8. ASSUME NEW o \in Op, Store(o) PROVE TypeOK'
    <2>1. op[o].config \in Config
      BY DEF TypeOK, Request
    <2> QED BY <1>8, <2>1 DEF Store, StoreConfig, TypeOK, Goto, Stage
  <1>9. ASSUME NEW o \in Op, Refresh(o) PROVE TypeOK'
    BY <1>9 DEF Refresh, ListAdapters, TypeOK, Goto, Stage
  <1>10. ASSUME NEW o \in Op, EndRefresh(o) PROVE TypeOK'
    BY <1>10 DEF EndRefresh, TypeOK, Goto, Stage
  <1>11. ASSUME NEW i \in Id, LookUp(i) PROVE TypeOK'
    BY <1>11 DEF LookUp, TypeOK
  <1>12. ASSUME NEW m \in Mission, SubmitMission(m) \/ EndSubmission(m) PROVE TypeOK'
    BY <1>12 DEF SubmitMission, EndSubmission, ListAdapters, TypeOK
  <1>13. CASE AllDone
    BY <1>13 DEF AllDone, vars, TypeOK
  <1> QED BY <1>1, <1>2, <1>3, <1>4, <1>5, <1>6, <1>7, <1>8, <1>9, <1>10, <1>11, <1>12, <1>13,
             NextSteps

\* A request that is taken up disturbs no other operation, and not the registry.
LEMMA RequestStep ==
  ASSUME TypeOK, NEW o \in Op, StartCreate(o) \/ StartUpdate(o) \/ StartDelete(o)
  PROVE  /\ pc[o] = "idle"
         /\ pc'[o] \in {"put", "register", "unregister"}
         /\ op'[o].kind = "update" => op'[o].supported
         /\ pc'[o] = "register" => op'[o].kind # "update"
         /\ \A p \in Op \ {o} : pc'[p] = pc[p] /\ op'[p] = op[p]
         /\ UNCHANGED <<plugins, served, holder, listed, queued>>
  <1>0. pc \in [Op -> Stage] /\ op \in [Op -> Request]
    BY DEF TypeOK
  <1>1. CASE StartCreate(o)
    BY <1>0, <1>1 DEF StartCreate, Begin, Goto
  <1>2. CASE StartUpdate(o)
    BY <1>0, <1>2 DEF StartUpdate, Begin, Goto
  <1>3. CASE StartDelete(o)
    BY <1>0, <1>3 DEF StartDelete, Begin, Goto
  <1> QED BY <1>1, <1>2, <1>3

\* A new provider never gets the id of one of start-up.
LEMMA FreshId ==
  ASSUME SeedsKept, NEW n \in Name, NEW i \in Id, FreeId(n, i)
  PROVE  i \notin SeedIds
  <1>1. CASE plugins[<<n, 0>>] = None
    <2>1. i = <<n, 0>>
      BY <1>1 DEF FreeId
    <2> QED BY <1>1, <2>1, NothingIsNone DEF SeedsKept
  <1>2. CASE plugins[<<n, 0>>] # None
    <2>1. PICK t \in Stamp : i = <<n, t>>
      BY <1>2 DEF FreeId
    <2>2. t # 0
      BY StampAssumption
    <2> QED BY <2>1, <2>2 DEF SeedIds
  <1> QED BY <1>1, <1>2

\* No request is taken up on a provider of start-up.
LEMMA RequestSparesSeeds ==
  ASSUME TypeOK, SeedsKept, NEW o \in Op, StartCreate(o) \/ StartUpdate(o) \/ StartDelete(o)
  PROVE  /\ op'[o].id \notin SeedIds
         /\ \A i \in SeedIds : configs'[i] = configs[i]
  <1>0. pc \in [Op -> Stage] /\ op \in [Op -> Request]
    BY DEF TypeOK
  <1>1. CASE StartCreate(o)
    <2>1. PICK n \in Name, i \in Id : FreeId(n, i) /\ op'[o].id = i
      BY <1>0, <1>1 DEF StartCreate, Begin
    <2> QED BY <1>1, <2>1, FreshId DEF StartCreate
  <1>2. CASE StartUpdate(o)
    <2>1. Manageable(op'[o].id)
      BY <1>0, <1>2 DEF StartUpdate, Begin
    <2> QED BY <1>2, <2>1 DEF StartUpdate, SeedsKept
  <1>3. CASE StartDelete(o)
    <2>1. PICK i \in Id : /\ Manageable(i)
                          /\ configs' = [configs EXCEPT ![i] = None]
                          /\ Begin(o, [kind |-> "delete", id |-> i, config |-> configs[i],
                                       supported |-> TRUE], "unregister")
      BY <1>3 DEF StartDelete
    <2>2. i \notin SeedIds
      BY <2>1 DEF SeedsKept
    <2>3. configs \in [Id -> Config \cup {None}]
      BY DEF TypeOK
    <2>4. op'[o].id = i
      BY <1>0, <2>1 DEF Begin
    <2> QED BY <2>1, <2>2, <2>3, <2>4, SeedIdsAreIds
  <1> QED BY <1>1, <1>2, <1>3

\* The kernel's lock is held from listing to the last look-up.
LEMMA LockStep == IInv /\ Next => LockInv'
  <1> SUFFICES ASSUME TypeOK, LockInv, Next PROVE LockInv'
    BY DEF IInv
  <1>0. pc \in [Op -> Stage]
    BY DEF TypeOK
  <1> USE NothingIsNone DEF LockInv
  <1>1. ASSUME NEW o \in Op, StartCreate(o) \/ StartUpdate(o) \/ StartDelete(o) PROVE LockInv'
    BY <1>1, RequestStep
  <1>2. ASSUME NEW o \in Op, Refuse(o) PROVE LockInv'
    BY <1>0, <1>2 DEF Refuse, Goto
  <1>3. ASSUME NEW o \in Op, PutKey(o) PROVE LockInv'
    BY <1>0, <1>3 DEF PutKey, Goto
  <1>4. ASSUME NEW o \in Op, Unregister(o) PROVE LockInv'
    BY <1>0, <1>4 DEF Unregister, AfterUnregister, Goto
  <1>5. ASSUME NEW o \in Op, Materialize(o) PROVE LockInv'
    BY <1>0, <1>5 DEF Materialize, Goto
  <1>6. ASSUME NEW o \in Op, Store(o) PROVE LockInv'
    BY <1>0, <1>6 DEF Store, Goto
  <1>7. ASSUME NEW o \in Op, Refresh(o) PROVE LockInv'
    BY <1>0, <1>7 DEF Refresh, ListAdapters, Goto
  <1>8. ASSUME NEW o \in Op, EndRefresh(o) PROVE LockInv'
    BY <1>0, <1>8 DEF EndRefresh, Goto
  <1>9. ASSUME NEW i \in Id, LookUp(i) PROVE LockInv'
    BY <1>9 DEF LookUp
  <1>10. ASSUME NEW m \in Mission, SubmitMission(m) \/ EndSubmission(m) PROVE LockInv'
    BY <1>0, <1>10, MissionAssumption DEF SubmitMission, EndSubmission, ListAdapters
  <1>11. CASE AllDone
    BY <1>11 DEF AllDone, vars
  <1> QED BY <1>1, <1>2, <1>3, <1>4, <1>5, <1>6, <1>7, <1>8, <1>9, <1>10, <1>11, NextSteps

\* Only a creation names a driver that may not exist.
LEMMA SupportedStep == IInv /\ Next => UpdatesSupported'
  <1> SUFFICES ASSUME TypeOK, UpdatesSupported, Next PROVE UpdatesSupported'
    BY DEF IInv
  <1>1. ASSUME NEW o \in Op, StartCreate(o) \/ StartUpdate(o) \/ StartDelete(o)
        PROVE  UpdatesSupported'
    BY <1>1, RequestStep DEF UpdatesSupported
  <1>2. CASE UNCHANGED op
    BY <1>2 DEF UpdatesSupported
  <1> QED BY <1>1, <1>2, NextSteps DEF Refuse, PutKey, Unregister, Materialize, Store, Refresh,
                                       EndRefresh, LookUp, SubmitMission, EndSubmission, AllDone,
                                       vars

\* Every change of the registry is followed by a refresh of the same operation.
LEMMA CurrentStep == IInv /\ Next => Current'
  <1> SUFFICES ASSUME TypeOK, LockInv, UpdatesSupported, Current, Next PROVE Current'
    BY DEF IInv
  <1>0. /\ pc \in [Op -> Stage]
        /\ plugins \in [Id -> Settings \cup {None}]
        /\ served \in [Id -> Settings \cup {None}]
        /\ \A o \in Op : op[o].id \in Id
    BY DEF TypeOK, Request
  <1> USE DEF Current, Pending
  <1>1. ASSUME NEW o \in Op, StartCreate(o) \/ StartUpdate(o) \/ StartDelete(o) PROVE Current'
    <2>1. \A p \in Op, i \in Id : Pending(p, i) => Pending(p, i)'
      BY <1>1, RequestStep
    <2> QED BY <1>1, <2>1, RequestStep
  <1>2. ASSUME NEW o \in Op, Refuse(o) PROVE Current'
    BY <1>0, <1>2 DEF Refuse, Goto
  <1>3. ASSUME NEW o \in Op, PutKey(o) PROVE Current'
    BY <1>0, <1>3 DEF PutKey, Goto
  <1>4. ASSUME NEW o \in Op, Unregister(o) PROVE Current'
    BY <1>0, <1>4 DEF Unregister, AfterUnregister, Goto
  <1>5. ASSUME NEW o \in Op, Materialize(o) PROVE Current'
    BY <1>0, <1>5 DEF Materialize, Goto, UpdatesSupported
  <1>6. ASSUME NEW o \in Op, Store(o) PROVE Current'
    BY <1>0, <1>6 DEF Store, Goto
  <1>7. ASSUME NEW o \in Op, Refresh(o) PROVE Current'
    BY <1>0, <1>7 DEF Refresh, ListAdapters
  <1>8. ASSUME NEW o \in Op, EndRefresh(o) PROVE Current'
    BY <1>0, <1>8 DEF EndRefresh, Goto
  <1>9. ASSUME NEW i \in Id, LookUp(i) PROVE Current'
    BY <1>0, <1>9 DEF LookUp
  <1>10. ASSUME NEW m \in Mission, SubmitMission(m) \/ EndSubmission(m) PROVE Current'
    BY <1>0, <1>10 DEF SubmitMission, EndSubmission, ListAdapters
  <1>11. CASE AllDone
    BY <1>11 DEF AllDone, vars
  <1> QED BY <1>1, <1>2, <1>3, <1>4, <1>5, <1>6, <1>7, <1>8, <1>9, <1>10, <1>11, NextSteps

\* The providers of start-up are never touched.
LEMMA SeedsStep == IInv /\ Next => SeedsKept'
  <1> SUFFICES ASSUME TypeOK, SeedsKept, Next PROVE SeedsKept'
    BY DEF IInv
  <1>0. /\ pc \in [Op -> Stage]
        /\ plugins \in [Id -> Settings \cup {None}]
        /\ configs \in [Id -> Config \cup {None}]
        /\ served \in [Id -> Settings \cup {None}]
        /\ \A o \in Op : op[o].id \in Id
        /\ SeedIds \subseteq Id
    BY SeedIdsAreIds DEF TypeOK, Request
  <1> USE DEF SeedsKept, Manageable
  <1>1. ASSUME NEW o \in Op, StartCreate(o) \/ StartUpdate(o) \/ StartDelete(o) PROVE SeedsKept'
    BY <1>1, RequestStep, RequestSparesSeeds
  <1>2. ASSUME NEW o \in Op, Refuse(o) PROVE SeedsKept'
    BY <1>0, <1>2 DEF Refuse, Goto
  <1>3. ASSUME NEW o \in Op, PutKey(o) PROVE SeedsKept'
    BY <1>0, <1>3 DEF PutKey, Goto
  <1>4. ASSUME NEW o \in Op, Unregister(o) PROVE SeedsKept'
    BY <1>0, <1>4 DEF Unregister, AfterUnregister, Goto
  <1>5. ASSUME NEW o \in Op, Materialize(o) PROVE SeedsKept'
    BY <1>0, <1>5 DEF Materialize, Goto
  <1>6. ASSUME NEW o \in Op, Store(o) PROVE SeedsKept'
    BY <1>0, <1>6 DEF Store, StoreConfig, Goto
  <1>7. ASSUME NEW o \in Op, Refresh(o) PROVE SeedsKept'
    BY <1>0, <1>7, NothingIsNone DEF Refresh, ListAdapters, Goto
  <1>8. ASSUME NEW o \in Op, EndRefresh(o) PROVE SeedsKept'
    BY <1>0, <1>8 DEF EndRefresh, Goto
  <1>9. ASSUME NEW i \in Id, LookUp(i) PROVE SeedsKept'
    BY <1>0, <1>9 DEF LookUp
  <1>10. ASSUME NEW m \in Mission, SubmitMission(m) \/ EndSubmission(m) PROVE SeedsKept'
    BY <1>0, <1>10, NothingIsNone DEF SubmitMission, EndSubmission, ListAdapters
  <1>11. CASE AllDone
    BY <1>11 DEF AllDone, vars
  <1> QED BY <1>1, <1>2, <1>3, <1>4, <1>5, <1>6, <1>7, <1>8, <1>9, <1>10, <1>11, NextSteps

\* What a step of operation o on id k does not touch: other operations, other ids, and the
\* keys that have been put.
Frame(o, k) ==
  /\ \A p \in Op \ {o} : pc'[p] = pc[p] /\ op'[p] = op[p]
  /\ \A j \in Id \ {k} : configs'[j] = configs[j] /\ plugins'[j] = plugins[j]
  /\ \A h \in Op : pc[h] \notin {"idle", "put"} =>
                     vault'[h] = vault[h] /\ pc'[h] \notin {"idle", "put"}
  /\ op'[o].id = k
  /\ pc[o] # "idle" => op[o].id = k
  /\ overlapped \subseteq overlapped'

\* Other ids stay in order.
LEMMA Elsewhere ==
  ASSUME OneByOne, NEW o \in Op, NEW k \in Id, Frame(o, k), pc[o] # "done",
         NEW j \in Id \ overlapped', j # k
  PROVE  /\ Running(j)' = {} => Agree(j)'
         /\ \A p \in Running(j)' : Running(j)' = {p} /\ Midway(p, j)'
  <1>1. Running(j)' = Running(j) /\ o \notin Running(j)
    BY DEF Frame, Running
  <1>2. \A h : Keyed(h, j) => Keyed(h, j)'
    BY DEF Frame, Keyed
  <1>3. Agree(j) => Agree(j)'
    BY <1>2 DEF Frame, Agree
  <1>4. ASSUME NEW p \in Running(j), Midway(p, j) PROVE Midway(p, j)'
    <2>1. pc'[p] = pc[p] /\ op'[p] = op[p]
      BY <1>1, <1>4 DEF Frame, Running
    <2>2. configs'[j] = configs[j] /\ plugins'[j] = plugins[j]
      BY DEF Frame
    <2> QED BY <1>2, <1>3, <1>4, <2>1, <2>2 DEF Midway
  <1>5. j \notin overlapped
    BY DEF Frame
  <1> QED BY <1>1, <1>3, <1>4, <1>5 DEF OneByOne

\* An operation at work on an id that has not seen two at a time is alone there.
LEMMA AtWork ==
  ASSUME OneByOne, NEW o \in Op, NEW k \in Id, Frame(o, k), k \notin overlapped',
         pc[o] \notin {"idle", "done"}
  PROVE  /\ Midway(o, k)
         /\ Running(k)' = IF pc'[o] \in {"idle", "done"} THEN {} ELSE {o}
  <1>1. o \in Running(k) /\ k \notin overlapped
    BY DEF Frame, Running
  <1>2. Running(k) = {o} /\ Midway(o, k)
    BY <1>1 DEF OneByOne
  <1>3. \A p \in Op \ {o} : p \in Running(k)' <=> p \in Running(k)
    BY DEF Frame, Running
  <1>4. o \in Running(k)' <=> pc'[o] \notin {"idle", "done"}
    BY DEF Frame, Running
  <1>5. Running(k)' \subseteq Op
    BY DEF Running
  <1> QED BY <1>2, <1>3, <1>4, <1>5

\* What a step has to leave behind on its own id.
Settled(o, k) ==
  /\ pc'[o] \in {"idle", "done"} => Agree(k)'
  /\ pc'[o] \notin {"idle", "done"} => Midway(o, k)'

\* So it is enough to look at the operation that takes the step and at its id.
LEMMA WorkStep ==
  ASSUME OneByOne, NEW o \in Op, NEW k \in Id, Frame(o, k), pc[o] \notin {"idle", "done"},
         Midway(o, k) => Settled(o, k)
  PROVE  OneByOne'
  <1>1. ASSUME NEW j \in Id \ overlapped', j # k
        PROVE  /\ Running(j)' = {} => Agree(j)'
               /\ \A p \in Running(j)' : Running(j)' = {p} /\ Midway(p, j)'
    BY <1>1, Elsewhere
  <1>2. ASSUME k \notin overlapped'
        PROVE  /\ Running(k)' = {} => Agree(k)'
               /\ \A p \in Running(k)' : Running(k)' = {p} /\ Midway(p, k)'
    <2>1. /\ Midway(o, k)
          /\ Running(k)' = IF pc'[o] \in {"idle", "done"} THEN {} ELSE {o}
      BY <1>2, AtWork
    <2> QED BY <1>2, <2>1 DEF Settled
  <1> QED BY <1>1, <1>2 DEF OneByOne

\* Each step of an operation leaves the rest of its work to its next steps.
LEMMA OneByOneWork ==
  ASSUME TypeOK, UpdatesSupported, OneByOne, NEW o \in Op,
         \/ PutKey(o) \/ Unregister(o) \/ Materialize(o) \/ Store(o)
         \/ Refresh(o) \/ EndRefresh(o)
  PROVE  OneByOne'
  <1>k. PICK k \in Id : k = op[o].id
    BY DEF TypeOK, Request
  <1>0. /\ pc \in [Op -> Stage]
        /\ plugins \in [Id -> Settings \cup {None}]
        /\ configs \in [Id -> Config \cup {None}]
        /\ vault \in [Op -> Id \cup {None}]
        /\ k = op[o].id
        /\ op[o].config \in Config
        /\ op[o].kind \in {"create", "update", "delete"}
    BY <1>k DEF TypeOK, Request
  <1>1. CASE PutKey(o)
    <2>1. Frame(o, k) /\ pc[o] \notin {"idle", "done"} /\ pc'[o] \in {"register", "unregister"}
      BY <1>0, <1>1 DEF PutKey, Goto, Frame
    <2>2. ASSUME Midway(o, k) PROVE Settled(o, k)
      <3>1. \A h : Keyed(h, k) => Keyed(h, k)'
        BY <2>1 DEF Frame, Keyed
      <3>2. Keyed(o, k)'
        BY <1>0, <1>1 DEF PutKey, Goto, Keyed
      <3>3. Agree(k)'
        BY <1>1, <2>2, <3>1 DEF PutKey, Midway, Agree
      <3>4. pc' = [pc EXCEPT ![o] = IF op[o].kind = "create" THEN "register" ELSE "unregister"]
        BY <1>1 DEF PutKey, Goto
      <3>5. op' = op /\ pc[o] = "put"
        BY <1>1 DEF PutKey
      <3> QED BY <1>0, <2>2, <3>1, <3>2, <3>3, <3>4, <3>5 DEF Midway, Settled
    <2> QED BY <1>0, <2>1, <2>2, WorkStep
  <1>2. CASE Unregister(o)
    <2>1. Frame(o, k) /\ pc[o] \notin {"idle", "done"}
      BY <1>0, <1>2 DEF Unregister, AfterUnregister, Goto, Frame
    <2>2. ASSUME Midway(o, k)
          PROVE  Settled(o, k)
      <3>1. \A h : Keyed(h, k) => Keyed(h, k)'
        BY <2>1 DEF Frame, Keyed
      <3>2. CASE op[o].kind = "update"
        BY <1>0, <1>2, <2>2, <3>1, <3>2 DEF Unregister, AfterUnregister, Goto, Midway, Settled
      <3>3. CASE op[o].kind # "update"
        <4>1. op[o].kind = "delete" /\ configs[k] = None
          BY <1>2, <2>2, <3>3 DEF Unregister, Midway
        <4>2. Agree(k)'
          BY <1>0, <1>2, <4>1 DEF Unregister, Agree
        <4> QED BY <1>0, <1>2, <4>1, <4>2 DEF Unregister, AfterUnregister, Goto, Midway, Settled
      <3> QED BY <3>2, <3>3
    <2> QED BY <1>0, <2>1, <2>2, WorkStep
  <1>3. CASE Materialize(o)
    <2>1. Frame(o, k) /\ pc[o] \notin {"idle", "done"}
      BY <1>0, <1>3 DEF Materialize, Goto, Frame
    <2>2. ASSUME Midway(o, k)
          PROVE  Settled(o, k)
      <3>1. \A h : Keyed(h, k) => Keyed(h, k)'
        BY <2>1 DEF Frame, Keyed
      <3>2. CASE op[o].supported
        BY <1>0, <1>3, <2>2, <3>1, <3>2 DEF Materialize, Goto, Midway, Settled
      <3>3. CASE ~ op[o].supported
        <4>1. Agree(k)
          BY <1>3, <2>2, <3>3 DEF Materialize, Midway, UpdatesSupported
        <4>2. Agree(k)'
          BY <1>3, <3>1, <3>3, <4>1 DEF Materialize, Agree
        <4> QED BY <1>0, <1>3, <3>3, <4>2 DEF Materialize, Goto, Settled
      <3> QED BY <3>2, <3>3
    <2> QED BY <1>0, <2>1, <2>2, WorkStep
  <1>4. CASE Store(o)
    <2>1. Frame(o, k) /\ pc[o] \notin {"idle", "done"} /\ pc'[o] = "refresh"
      BY <1>0, <1>4 DEF Store, StoreConfig, Goto, Frame
    <2>2. ASSUME Midway(o, k) PROVE Settled(o, k)
      <3>1. \A h : Keyed(h, k) => Keyed(h, k)'
        BY <2>1 DEF Frame, Keyed
      <3>2. Keyed(op[o].config.handle, k) /\ plugins[k] = op[o].config.settings
        BY <1>4, <2>2 DEF Store, Midway
      <3>3. Agree(k)'
        BY <1>0, <1>4, <3>1, <3>2, NothingIsNone DEF Store, StoreConfig, Agree
      <3>4. op' = op
        BY <1>4 DEF Store
      <3> QED BY <2>1, <3>1, <3>2, <3>3, <3>4 DEF Midway, Settled
    <2> QED BY <1>0, <2>1, <2>2, WorkStep
  <1>5. CASE Refresh(o) \/ EndRefresh(o)
    <2>1. /\ Frame(o, k)
          /\ pc[o] \in {"refresh", "get"}
          /\ pc'[o] \in {"get", "done"}
          /\ UNCHANGED <<configs, plugins, vault, op>>
      BY <1>0, <1>5 DEF Refresh, EndRefresh, Goto, Frame
    <2>2. ASSUME Midway(o, k) PROVE Settled(o, k)
      <3>1. \A h : Keyed(h, k) => Keyed(h, k)'
        BY <2>1 DEF Frame, Keyed
      <3>2. Agree(k)'
        BY <2>1, <2>2, <3>1 DEF Midway, Agree
      <3> QED BY <2>1, <2>2, <3>1, <3>2 DEF Midway, Settled
    <2> QED BY <1>0, <2>1, <2>2, WorkStep
  <1> QED BY <1>1, <1>2, <1>3, <1>4, <1>5

\* A request that is taken up on an id where nothing runs finds it in order.
LEMMA RequestOnly ==
  ASSUME OneByOne, NEW o \in Op, NEW k \in Id, Frame(o, k), pc[o] = "idle",
         pc'[o] \in {"put", "register", "unregister"},
         overlapped' = IF Running(k) = {} THEN overlapped ELSE overlapped \cup {k},
         Agree(k) => Midway(o, k)'
  PROVE  OneByOne'
  <1>1. ASSUME NEW j \in Id \ overlapped', j # k
        PROVE  /\ Running(j)' = {} => Agree(j)'
               /\ \A p \in Running(j)' : Running(j)' = {p} /\ Midway(p, j)'
    BY <1>1, Elsewhere
  <1>2. ASSUME k \notin overlapped'
        PROVE  Agree(k) /\ Running(k)' = {o}
    <2>1. Running(k) = {} /\ k \notin overlapped
      BY <1>2
    <2>2. Agree(k)
      BY <2>1 DEF OneByOne
    <2>3. \A p \in Op \ {o} : p \in Running(k)' <=> p \in Running(k)
      BY DEF Frame, Running
    <2>4. o \in Running(k)'
      BY DEF Frame, Running
    <2>5. Running(k)' \subseteq Op
      BY DEF Running
    <2> QED BY <2>1, <2>2, <2>3, <2>4, <2>5
  <1> QED BY <1>1, <1>2 DEF OneByOne

\* A new request keeps the ids on which operations come one by one in order.
LEMMA OneByOneRequest ==
  ASSUME TypeOK, OneByOne, NEW o \in Op, StartCreate(o) \/ StartUpdate(o) \/ StartDelete(o)
  PROVE  OneByOne'
  <1>0. /\ pc \in [Op -> Stage]
        /\ op \in [Op -> Request]
        /\ configs \in [Id -> Config \cup {None}]
    BY DEF TypeOK
  <1>1. CASE StartCreate(o)
    <2>1. PICK k \in Id, h \in {o, Linked, None}, supported \in BOOLEAN :
            Begin(o, [kind |-> "create", id |-> k,
                      config |-> [managed |-> TRUE, settings |-> {o}, handle |-> h],
                      supported |-> supported],
                  IF h = o THEN "put" ELSE "register")
      BY <1>1 DEF StartCreate
    <2>2. /\ op' = [op EXCEPT ![o] = [kind |-> "create", id |-> k,
                      config |-> [managed |-> TRUE, settings |-> {o}, handle |-> h],
                      supported |-> supported]]
          /\ pc' = [pc EXCEPT ![o] = IF h = o THEN "put" ELSE "register"]
          /\ overlapped' = IF Running(k) = {} THEN overlapped ELSE overlapped \cup {k}
          /\ UNCHANGED <<configs, plugins, vault>>
          /\ pc[o] = "idle"
      BY <1>1, <2>1 DEF StartCreate, Begin, Goto
    <2>3. Frame(o, k)
      BY <1>0, <2>2 DEF Frame
    <2>4. ASSUME Agree(k) PROVE Midway(o, k)'
      <3>1. Agree(k)'
        BY <2>2, <2>3, <2>4 DEF Agree, Keyed, Frame
      <3>2. h # o => Keyed(h, k)'
        BY NothingIsNone, NoneAssumption DEF Keyed
      <3>3. op'[o].kind = "create" /\ op'[o].config.handle = h
        BY <1>0, <2>2
      <3>4. pc'[o] = IF h = o THEN "put" ELSE "register"
        BY <1>0, <2>2
      <3> QED BY <3>1, <3>2, <3>3, <3>4 DEF Midway
    <2> QED BY <1>0, <2>2, <2>3, <2>4, RequestOnly
  <1>2. CASE StartUpdate(o)
    <2>1. PICK k \in Id, key \in BOOLEAN :
            /\ Manageable(k)
            /\ \E h \in {Linked, IF key THEN o ELSE configs[k].handle} :
                 Begin(o, [kind |-> "update", id |-> k,
                           config |-> [managed |-> configs[k].managed,
                                       settings |-> configs[k].settings \cup {o},
                                       handle |-> h],
                           supported |-> TRUE],
                       IF key THEN "put" ELSE "unregister")
      BY <1>2 DEF StartUpdate
    <2>2. PICK h \in {Linked, IF key THEN o ELSE configs[k].handle} :
            Begin(o, [kind |-> "update", id |-> k,
                      config |-> [managed |-> configs[k].managed,
                                  settings |-> configs[k].settings \cup {o},
                                  handle |-> h],
                      supported |-> TRUE],
                  IF key THEN "put" ELSE "unregister")
      BY <2>1
    <2>3. /\ op' = [op EXCEPT ![o] = [kind |-> "update", id |-> k,
                      config |-> [managed |-> configs[k].managed,
                                  settings |-> configs[k].settings \cup {o},
                                  handle |-> h],
                      supported |-> TRUE]]
          /\ pc' = [pc EXCEPT ![o] = IF key THEN "put" ELSE "unregister"]
          /\ overlapped' = IF Running(k) = {} THEN overlapped ELSE overlapped \cup {k}
          /\ UNCHANGED <<configs, plugins, vault>>
          /\ pc[o] = "idle"
      BY <1>2, <2>2 DEF StartUpdate, Begin, Goto
    <2>4. Frame(o, k)
      BY <1>0, <2>3 DEF Frame
    <2>5. ASSUME Agree(k) PROVE Midway(o, k)'
      <3>1. Agree(k)'
        BY <2>3, <2>4, <2>5 DEF Agree, Keyed, Frame
      <3>2. configs[k] # None
        BY <2>1 DEF Manageable
      <3>3. h = Linked \/ h = IF key THEN o ELSE configs[k].handle
        OBVIOUS
      <3>4. Keyed(h, k)' \/ (key /\ h = o)
        <4>1. CASE h = Linked
          BY <4>1, NoneAssumption DEF Keyed
        <4>2. CASE ~ key /\ h = configs[k].handle
          <5>1. Keyed(h, k)
            BY <2>5, <3>2, <4>2 DEF Agree
          <5> QED BY <2>4, <5>1 DEF Keyed, Frame
        <4> QED BY <3>3, <4>1, <4>2
      <3>5. op'[o].kind = "update" /\ op'[o].config.handle = h
        BY <1>0, <2>3
      <3>6. pc'[o] = IF key THEN "put" ELSE "unregister"
        BY <1>0, <2>3
      <3> QED BY <3>1, <3>4, <3>5, <3>6 DEF Midway
    <2> QED BY <1>0, <2>3, <2>4, <2>5, RequestOnly
  <1>3. CASE StartDelete(o)
    <2>1. PICK k \in Id :
            /\ configs' = [configs EXCEPT ![k] = None]
            /\ Begin(o, [kind |-> "delete", id |-> k, config |-> configs[k],
                         supported |-> TRUE], "unregister")
      BY <1>3 DEF StartDelete
    <2>2. /\ op' = [op EXCEPT ![o] = [kind |-> "delete", id |-> k, config |-> configs[k],
                                      supported |-> TRUE]]
          /\ pc' = [pc EXCEPT ![o] = "unregister"]
          /\ overlapped' = IF Running(k) = {} THEN overlapped ELSE overlapped \cup {k}
          /\ UNCHANGED <<plugins, vault>>
          /\ pc[o] = "idle"
      BY <1>3, <2>1 DEF StartDelete, Begin, Goto
    <2>3. Frame(o, k)
      BY <1>0, <2>1, <2>2 DEF Frame
    <2>4. op'[o].kind = "delete" /\ pc'[o] = "unregister" /\ configs'[k] = None
      BY <1>0, <2>1, <2>2
    <2>5. Midway(o, k)'
      BY <2>4 DEF Midway
    <2> QED BY <1>0, <2>2, <2>3, <2>4, <2>5, RequestOnly
  <1> QED BY <1>1, <1>2, <1>3

\* Ids on which operations come one by one stay in order.
LEMMA OneByOneStep == IInv /\ Next => OneByOne'
  <1> SUFFICES ASSUME TypeOK, UpdatesSupported, OneByOne, Next PROVE OneByOne'
    BY DEF IInv
  <1>1. ASSUME NEW o \in Op, Refuse(o) PROVE OneByOne'
    <2>0. pc \in [Op -> Stage]
      BY DEF TypeOK
    <2>1. \A j \in Id : Running(j)' = Running(j)
      BY <1>1, <2>0 DEF Refuse, Goto, Running
    <2>2. \A h, j : Keyed(h, j) => Keyed(h, j)'
      BY <1>1, <2>0 DEF Refuse, Goto, Keyed
    <2>3. \A j \in Id : Agree(j) => Agree(j)'
      BY <1>1, <2>2 DEF Refuse, Agree
    <2>4. ASSUME NEW j \in Id, NEW p \in Running(j), Midway(p, j) PROVE Midway(p, j)'
      <3>1. pc'[p] = pc[p]
        BY <1>1, <2>0 DEF Refuse, Goto, Running
      <3> QED BY <1>1, <2>2, <2>3, <2>4, <3>1 DEF Refuse, Midway
    <2>5. overlapped' = overlapped
      BY <1>1 DEF Refuse
    <2> QED BY <2>1, <2>3, <2>4, <2>5 DEF OneByOne
  <1>2. CASE UNCHANGED <<configs, plugins, vault, pc, op, overlapped>>
    BY <1>2 DEF OneByOne, Running, Midway, Agree, Keyed
  <1>3. ASSUME \/ \E m \in Mission : SubmitMission(m) \/ EndSubmission(m)
               \/ \E i \in Id : LookUp(i)
               \/ AllDone
        PROVE  UNCHANGED <<configs, plugins, vault, pc, op, overlapped>>
    BY <1>3 DEF SubmitMission, EndSubmission, LookUp, AllDone, vars
  <1> QED BY <1>1, <1>2, <1>3, OneByOneRequest, OneByOneWork, NextSteps

\* The invariant says nothing of a step that changes nothing.
LEMMA Stutter == IInv /\ UNCHANGED vars => IInv'
  BY DEF IInv, vars, TypeOK, LockInv, UpdatesSupported, Current, Pending, SeedsKept, Manageable,
         OneByOne, Running, Midway, Agree, Keyed

\* The inductive invariant holds in every reachable state.
THEOREM Invariance == Spec => []IInv
  <1>1. IInv /\ [Next]_vars => IInv'
    BY TypeStep, LockStep, SupportedStep, CurrentStep, SeedsStep, OneByOneStep, Stutter
       DEF IInv
  <1> QED BY <1>1, InitInv, PTL DEF Spec

\* Configurations, plugins and the kernel's list keep their types.
THEOREM TypeCorrect == Spec => []TypeOK
  <1>1. IInv => TypeOK
    BY DEF IInv
  <1> QED BY <1>1, Invariance, PTL

\* However many operations overlap, missions are routed to what is registered
\* (manager.go:206, 231, 285 and kernel.go:190-207).
THEOREM RoutedToRegistered == Spec => []ServedAsRegistered
  <1>1. IInv => ServedAsRegistered
    BY DEF IInv, LockInv, Current, Pending, ServedAsRegistered, Running
  <1> QED BY <1>1, Invariance, PTL

\* Whatever is created, updated or deleted, the providers of start-up are served
\* (manager.go:185, 222 and 241).
THEOREM SeedsProtected == Spec => []SeedsServed
  <1>1. IInv => SeedsServed
    BY DEF IInv, LockInv, SeedsKept, SeedsServed
  <1> QED BY <1>1, Invariance, PTL

\* An id on which operations come one after the other is configured as it is registered,
\* whatever failures and refusals lie between (manager.go:189-204, 226-228, 278-283).
THEOREM ConfiguredAsRegistered == Spec => []ConfigMatchesPlugin
  <1>1. IInv => ConfigMatchesPlugin
    BY DEF IInv, OneByOne, Agree, Keyed, ConfigMatchesPlugin
  <1> QED BY <1>1, Invariance, PTL
==============================================================================
