# Hermes Agent OS: verification project

TLA+ modules about the kernel of Hermes Agent OS (`kernel/`, Go), TLC
configurations that check them on small instances, and TLAPS proofs for every
instance. File and line references are relative to `kernel/pkg/` unless they
begin with another directory of the repository.

The kernel has no worker pool: a mission is executed to the end in the goroutine
of the HTTP request (or ticker, or session) that submitted it. Everything hard
about it follows from that. Many such goroutines run side by side; they share
the kernel's mission table, the event bus, the credential broker, the stores,
the tool router and the approval gate, each under a mutex that is held for one
read or one write; and operators cancel, approve, connect and delete in between.
The models therefore cut every handler at its critical sections: one action is
what happens between two lock operations or calls, in the order of the code.

## Inventory

| Component | State it keeps | Operations | Talks to |
|---|---|---|---|
| Mission control path, `kernel/kernel.go` | missions by id: state, mode, provider, output, cost | SubmitMission, executeMission, CancelMission, Get/List | router, broker, runtimes, bus, memory, artifacts, knowledge |
| Event bus, `eventbus/bus.go`; streams, `httpapi/events.go` | log, sequence number, channels per filter | Publish, Subscribe, Since, Replay; catch-up then live | everyone publishes; WebSocket and SSE clients |
| Agent loop, `adapters/agentloop`; gate, `approval`; tools, `toolrouter` | conversation, step count; requests; tools, handlers, invocation log | Execute, compactMessages; Request, Resolve; Register, Unregister, Invoke | provider (Complete), kernel's invoker, MCP client |
| Router, `router`, `capability` | none (pure) | Candidates, pickRuntime, Normalize | providers' Health and Describe |
| Provider manager, `providercfg`; registry, `plugin` | configurations; plugins by id | Create, Update, Delete, SyncFromRegistry | registry, broker, kernel's RefreshAdapters |
| Credential broker, `credentials` | records by handle | Put, FindByPlugin, Resolve, Revoke | kernel, provider manager |
| MCP client, `mcpclient` | servers, status, stdio sessions | Upsert, Connect, Disconnect, Delete, tools/call | child processes, tool router |
| Scheduler, `scheduler` | jobs | tick, RunNow, Upsert, Delete | SubmitMission |
| Command deck, `deck` | sessions, routines, board, connections | Message, Stop, Fire, SetPaused, Claim, Move | SubmitMission, GetMission |
| Chat, `chat` | conversations | Create, Send | SubmitMission |
| Plans and workflow, `planner`, `workflow` | plans, run history | Create, BumpVersion, RunPlan | SubmitMission |
| A2A, `a2a` | peers, tasks | Register, OfferTask | SubmitMission |
| Stores, `memorystore`, `artifact`, `knowledge` | entries, blobs, graph | Write, Search, Put, UpsertNode | kernel |
| Adapters, `adapters/*` | health cache, endpoint | Health, Complete, Execute | remote APIs |
| Workspace, `workspace`; its tools, `workspacetools` | seven collections with one counter, files of uploads | Put, Delete, SaveUpload, Snapshot | HTTP API, tool router |
| Deployments, `deploy`; remediation; rate limiter, `ratelimit` | sessions, runs, hits by key | Create, Advance, Run, Allow | HTTP API |
| Bootstrap, `bootstrap`; plugin loading, `plugin` | none that outlives start-up | New, LoadTree, seedBuiltins | registry, broker, kernel |
| HTTP API, `httpapi` | none that outlives a request | decoding, one call, encoding | all of the above |
| Self-checks, web interface, SDK | none in the host | | HTTP API |

`PROJECT.json` lists all of them with what is modelled, and under "hazards" the
places of the code where an order of steps, a lost message or a full buffer is
hard to reach with a test.

What makes each component correct, in one line each: a mission ends in exactly
one verdict that was announced and that its record, its journal and its stored
results agree on; failover is in order and journalled; cancellation loses
nothing but is not lost either; a stream is ordered and complete unless its
channel was full; a conversation sent to a model is well formed; dangerous tools
leave a request; every invocation is logged once; an MCP call gets its own
answer and a disconnected server has no tools; a provider's configuration and
its plugin come and go together; a stopped session stays stopped; a plan runs a
step after the steps it depends on; a job runs once per interval; a mission is
served only by a provider it may use, and a provider whose checks succeed again
is used again; a record nobody names is not overwritten and is in the next backup; an
attempt uses a key of an operator if there is one; a gate holds a rollout; a
limiter counts exactly its window; a host that has started serves what could be
loaded and is what its manifest says.

## Modules

| Module | Models |
|---|---|
| `MissionLifecycle` | abstract: what hosts may count on about a mission (`host/host.go`) |
| `MissionKernel` | SubmitMission, executeMission, CancelMission, step by step; implements `MissionLifecycle` |
| `MissionKernelProofs` | the invariants of `MissionKernel`, what follows from them, and that it implements `MissionLifecycle` and `MissionHost` |
| `EventBus` | the journal, its subscriptions and the stream handler with a client that reconnects |
| `EventBusProofs` | the inductive invariant of `EventBus` and the theorems about journal, channels and streams |
| `AgentLoop` | the tool loop, the kernel's invoker, the approval gate, the tool router |
| `AgentLoopProofs` | the inductive invariant of `AgentLoop` and the theorems on gate, conversation and log |
| `McpClient` | configured MCP servers, connections over both transports, stdio sessions shared by callers |
| `McpClientProofs` | the inductive invariant of `McpClient` and the theorems on answers and status |
| `ProviderManager` | creation, update and deletion of providers across the manager, the broker, the plugin registry and the kernel's routing table |
| `ProviderManagerProofs` | the inductive invariant of `ProviderManager` and the theorems that follow from it |
| `MissionHost` | missions as the services see them: a run that ends, a record that may be cancelled |
| `Scheduler` | the ticker, jobs that are replaced, deleted and run by hand |
| `Conversations` | deck sessions, chats and routines: messages and firings that overlap |
| `Workflow` | plans and the orchestrator that runs their steps |
| `Peers` | A2A peers and the tasks offered to them |
| `HostServices` | the four above over the missions of `MissionHost` |
| `HostServicesProofs` | an invariant for each of the four and the theorems that follow |
| `Router` | pure: requests, labels, options, and the ranking of candidates |
| `Routing` | missions that are routed and executed at once; health cache, discovery of models, completions |
| `Stores` | the collections of the host, their counters, and the backup |
| `Credentials` | the broker, those who put keys, and the attempts that look for one |
| `RateLimiter` | the sliding window of the limiter |
| `Deployments` | rollouts with gates, runs of the remediation playbook |
| `Bootstrap` | from the manifests on disk to a kernel that serves them |
| `Platform` | the five above side by side |
| `RoutingProofs` | the health cache, the order of the chain, and who may serve a mission |
| `PlatformProofs` | an invariant and a theorem for each of the five parts |
| `MC*` | instances of these modules for TLC |

### MissionKernel

`pc[m]` names the next critical section of the goroutine that runs mission `m`;
the actions follow `executeMission` from top to bottom (`Route`,
`EvaluateSecurity`, `RecordRoute`, then per candidate `FindCredential` ...
`Execute` ... `PublishFailed`, then `RememberResult` ... `Succeed`), with
`SetMissionFailed` for every error return and `PublishVerdict` for the
`mission.updated` event that follows each final write. `Cancel` and
`PublishCancel` are the two halves of `CancelMission` and may come at any time.
The candidate chain, each execution's result, a missing runtime, and whether a
credential can be put, are free choices. `journal[m]` is what `Replay(m)`
returns, each event reduced to its type and, where a property asks for it, a
state or a provider. Memory, artifact and knowledge stores are reduced to which
missions they mention; the artifact store keeps the overwriting of the metadata
of equal content. The only bound is `MaxCancels`.

`MissionLifecycle` has five variables: state, progress of the run, verdict,
cancellations on their way, announced states. It says that a run concludes once,
that only then a state other than running or cancelled appears, and that only
what has been written is announced. `MissionKernel` maps its program counter and
journal onto it (`RunPhase`, `Announced`).

### EventBus

An event is its sequence number; its mission is in the journal. Each client has
a handler that goes from catch-up to live; `Disconnect` is the end of the
connection, `Unsubscribe` the goroutine that later takes the channel off the bus
and closes it, with publishers running in between. A full channel drops
(`Offer`), an event without a mission is offered twice to a client without a
filter (`Offers`), both as in `Publish`. Two missions, a channel of capacity
one (128 in the code) and four events are enough for a client to fall behind,
lose the connection, miss an event, catch up and go on.

### AgentLoop

A message of the conversation is its role, its step and its position in the
step, all that compaction and well-formedness depend on. Invocations go through
the gate and through the router's four critical sections, so that invocations of
two missions, tool registration and approvals interleave. Models and tools may
do anything. Limits of the code (12 steps, 24 messages, 500 log entries) are
constants; the instance has 2, 2 and 2 so that each of them is reached.

### McpClient

A connection is one run of `Connect` with the process and the session it starts;
`procs[s]` names the session `Disconnect` would end. `Connect`, `Drop` (the body
of `Disconnect`), `Forget` (the second half of `Delete`) and the steps of a
connection interleave at the manager's critical sections. `stdin` and `stdout`
are the pipes of a session: a process reads and answers in order, and may answer
a notification, answer with an error, say nothing, or exit. `EndRequest` is the
end of the HTTP request whose context the process runs under. Callers take the
handler from the tool router first and the session's mutex later. Ids are
counted per session (per manager in the code: unique is all that matters). The
history variables `noisy` and `torn` name the sessions on which an answer nobody
waits for may lie, and the servers that were disconnected in the middle of a
connection: there the code promises nothing. Bounds: `MaxCalls`, `MaxChanges`.

### ProviderManager

A provider is in three places: `configs` (the manager's map), `plugins` (the
registry's) and `served` (the adapters the kernel routes missions to). `Create`,
`Update` and `Delete` are cut where they take the lock of the manager, of the
broker (`PutKey`), of the registry (`Unregister`, `Materialize`) and of the
kernel (`Refresh`, then one `LookUp` per listed id, then `EndRefresh`: the
kernel's lock is held across them, the registry's is not). A mission that is
submitted rebuilds the list in the same way, at any time and under the same lock
(`SubmitMission`, `EndSubmission`). `pc` and `op` are the
position and the local variables of each request's goroutine. Settings are the
set of operations that contributed to them, all that "the configuration shown is
the one registered" depends on; a key is the operation that brought it. The
history variable `overlapped` names the ids on which two operations have run at
once: for those the manager's maps may disagree for good (an update that
overlaps a deletion brings the provider back), and `ConfigMatchesPlugin` says
nothing of them, while `ServedAsRegistered` and `SeedsServed` hold for all.
Three operations are enough for one to run between any two steps of the
others' work on one id and for a fresh id to be taken by a second creation; one
mission comes between any two steps of theirs. Requests and missions are the only
bound. `AllDone` is the one state where all stop, so that
deadlock is checked. `Init` is the state `SyncFromRegistry` leaves; the providers
bootstrap registers after it from the environment have a plugin and no
configuration until the next start and are left out.

### Services

A service submits a mission, waits in the same goroutine, and writes down what
has become of it. It needs to know little of missions, and `MissionHost` says
just that: `MissionKernel` implements it (`ImplementsHost`), so that what holds of a service
over `MissionHost` holds of it over the kernel. A submission is also refused now
and then: ids come from the clock, and two missions may fall on one instant
(`kernel.go:330`).

`Scheduler`: the ticker's snapshot is `ticker.queue`; `RecordRun` writes into
whatever job has the id by then. Whether a job is due is all that is left of
time. `Conversations`: `turns` is the list of turns of a session, each with its
message; `StartMessage`, `SubmitMessage` and `EndMessage` (of the deck) or
`EndSend` (of the chat) are the critical sections of a message, `StartFire` to
`EndFire` those of a routine. `Workflow`: `flow[c]` holds the local variables of
one `RunPlan`. Passing over the list touches nothing shared, so that the passes
are one operator, `NextSteps`: the next ready step behind the last one or, in a
new pass, the first ready one. What a mission came to and what its record says
are two things, for a cancellation overwrites any verdict and `RunPlan` looks at
the record only: the history variable `failedRuns` keeps the missions whose run
has failed. `Passes(m)` is what the code promises of a mission it goes on after:
it has ended, and not in a failure, unless it was cancelled.

`Peers`: an offer takes its number, runs as a mission with the lock released, and
enters the list of tasks when that is over, on three ways out (`AfterRefusal`,
`ReadOffer`, `RecordOffer`).

`HostServices` joins them with a variable that says which service is used. They
have no other variable in common and none reads a mission it did not submit, so
that running two of them at once adds nothing to what either can do.
`JobMission` bounds the missions of jobs; the code has no such bound, and a
further submission is refused. A scheduler reads no record of a mission, so that
its missions simply fail: waiting for one that succeeds would not do.

### Router and Routing

`Router` is the pure part. A request of the API, of a comparison or of research
(`ApiMission`, `CompareArm`, `Research`) is a set of capabilities with labels and
fields; `MergeRouteLabels` and `RouteOptions` make options of them; `Admits`,
`Eligible`, `KeepsModel`, `Before` and `Chain` are the rules of the router.
Providers and runtimes are numbers in the order of their ids, which is the last
criterion of the sort. `Routing` drives it: a mission is a record that says where
its goroutine is (`at`), which pass over the providers it is in, and what it has
found; when the chain is there, `rank` and `runtime`. `Health` is cut at every
access to the cache that all goroutines share: `LookUp` tests the time, `Cached`
reads the verdict, and `Store` writes one of the three fields at a time in any
order, which is what the race in the code comes to. The check itself (`Probe`)
runs under the context of the request that makes it and for 800 ms at most, and
any error is cached for all: it fails when the endpoint is down and may fail when
it is up. Describing and discovering
are one step (`Discover`), because only the models of the provider are shared. A
runtime is the number of completions it asks for: the agent loop, which has a
module of its own, counts as one. The only bound is `MaxOutages`.

### Platform

`Stores` reduces every collection to a map from ids to the write that made the
record. An id is the number the store's counter has made it from, or 0 for an id
of the caller's own form; callers may also name a made-up id, before or after
the store gets there. `issued` is the history the property is about. `Snapshot`
hands out the live maps, and the encoder walks them record by record while
requests go on: the Go runtime may notice and stop the process (`Touch`), and a
map that has grown beyond the room made for it aborts the request.
`Credentials`: a record is a handle, a provider and a label; handles are random
in the code and numbered here, all that matters is that they are new. `keyed`
remembers whether a key of an operator was there when the attempt began.
`RateLimiter`: `asked` is the history of one key with the answers it was given.
`Deployments`: `approvals` is the history of the stages at which an advance
approved. `Bootstrap`: a manifest has an id and a kind and can be loaded or not;
what is made of it (`make`) is up to the driver it names, which the code does not
compare with the kind, so that `Adapters` asks for both, as the type assertions
of the kernel do. `origin` says where a registered plugin comes from.

`Platform` joins them with a variable that says which part is used, for the same
reason as in `HostServices`: each has its own lock, and none reads another's
data.

## Runs

| Run | Shows | Instance |
|---|---|---|
| `mission_runs` | records, verdicts, journal and failover agree; every mission concludes, every cancellation is announced; the lifecycle is implemented with its fairness | 1 mission, every mode, chains of up to 3 providers, 1 cancellation |
| `mission_pair` | results of a failed or foreign run are never taken for a mission's own | 2 missions sharing all stores, 1 cancellation each |
| `event_stream` | order, completeness and channel life of a stream | 2 missions, 1 client, capacity 1, 4 events |
| `agent_loop` | gate, conversation, invocation log, termination | 2 missions, one in assist mode, 2 tools |
| `mcp` | a caller gets its own answer; status and registered tools agree at rest; an abandoned Connect returns | 2 servers with nested prefixes, 2 connections, 2 callers, 3 changes |
| `providers` | routing follows the registry however operations overlap with each other and with the submission of a mission; start-up providers survive; configuration, plugin and key agree | 3 operations, 1 mission, 2 names of which 1 is a seed, 1 suffix; symmetric operations |
| `services` | overlapping messages, firings, plan runs, job runs and offers: what sessions, reports and lists say at the end; nothing is run too early, twice or never; a task in the list says of its mission what stays true | one service at a time; 3 missions, 2 jobs and 1 caller, 2 messages, 3 firings and a history of 2, 2 runs of a plan of 3 steps, 2 offers to 2 peers |
| `routing` | a mission is served as it asked; a young cache that says healthy comes from an endpoint that has answered; once checks succeed, no cached failure keeps an endpoint out | 2 missions, a hosted endpoint and a local echo provider, 2 runtimes, 5 kinds of request, 1 outage, checks that fail at any time |
| `platform` | made-up ids, backups, keys, the limiter, gates and start-up | one part at a time; 4 collections and 3 writes; 2 providers, 2 attempts and 4 keys; 7 requests in 7 instants with a window of 3 and a limit of 2; 2 rollouts; every tree of up to 3 of 6 manifests in 2 roots, two of them with a driver that does not fit |
| `mission_cancel_lost` | violation: a cancelled mission ends succeeded | 1 mission |
| `event_gap` | violation: an event between catch-up and subscription is lost | 1 client, 3 events |
| `agent_approval` | violation: an approved tool is blocked again | 1 agent in assist mode |

One mission is enough for what a mission's own run and its cancellations can do
to it, because runs share only the stores; `mission_pair` has the sharing.
Three providers give failing first, middle and last candidates. Two connections
are the least that overlap, on one MCP server or on two with nested prefixes. In
`routing`, two missions are the least whose checks overlap, one outage is enough
for a check that fails to end after one that does not, and the requests name a
model that is only discovered, ask for vision, exclude, allow, pin and prefer, and
fail over; each of them but the one that is to be refused can be served. In `platform`,
three writes fill a gap a deletion has left, and the four collections are two
that share the counter of the workspace and two that share that of the graph. In
`services` two of everything can overlap; the two plans have a list against the
order of dependencies, an id used twice, a step that waits for its own id and
one that waits for an id no step has.

The violation runs check sentences of the repository's documents and comments
against what the code does; `PROJECT.json` quotes them under "findings".
Further differences met while modelling, for which there is no run:

- Mode names are compared as they are written: `Observe` in a request is not
  `observe`, and the mission is executed (`kernel.go:312`, `policy/engine.go`).
- A taken provider id gets a suffix from the clock that is not looked up again,
  so that two creations in one instant may share an id
  (`providercfg/manager.go:186`).
- A configured credential handle is stored and never used: the kernel asks the
  broker by plugin id (`providercfg/manager.go:335`, `kernel.go:201`). A new key is
  added beside the old one, and the lookup may return either.
- A step of a plan is done unless its mission is recorded as failed: steps run
  after a mission that was blocked for approval, or cancelled, even one that had
  failed before it was cancelled, and the plan is "completed"
  (`workflow/orch.go:97`).
- A health check that a caller gives up, or that takes 800 ms, counts as a failure
  of the provider for every mission until the cache lapses
  (`adapters/openaicompat/provider.go:75`).
- A session that was stopped while its mission runs is idle afterwards
  (`deck/sessions.go:152`), a chat message whose mission is refused is never
  answered (`chat/service.go:149`), and a stuck run of a plan is not in the
  history (`workflow/orch.go:109`).
- A label map without `security.mode` parses to "full", so that the policy's
  default mode applies only to missions without any label (`kernel.go:312`).
- Cost and steps are checked on the last result; failed attempts are not counted
  (`kernel.go:682`).
- A stdio MCP server is killed when the HTTP request that connected it has been
  answered (`httpapi/agent_os.go:117`); status and tools stay as they are.
- Disconnecting MCP server "a" removes the tools of server "a.b"
  (`mcpclient/client.go:174`).
- Compaction keeps system messages and the newest messages, so that a long
  conversation loses the user's goal, and it may cut between a call and its
  answers (`adapters/agentloop/runtime.go:300`).
- With `PreferLocal`, the local providers are collected first and the list is
  then sorted by cost tier (`router/router.go:130`, 153).
- The health cache and the discovered models of the OpenAI-compatible adapter
  are shared without a lock (`adapters/openaicompat/provider.go:99`, 147); what a
  race leaves behind lapses with the cache. A static key is replaced by the
  demonstration token of the mission (`provider.go:268`).
- The backup encodes live maps (`workspace/store.go:329`): a write at the wrong
  moment stops the process.
- A caller may name an id the store has yet to make up, and the record is then
  replaced without notice; updates of notes lose their creation time
  (`workspace/store.go:121`). Of equal artifacts the last writer owns the metadata
  (`artifact/store.go:52`). Uploads outlive a restart on disk, their index and the
  counter do not. Tasks of the board and connections take their ids from the
  clock (`deck/board.go:56`), so that two in one instant are one.
- Of several keys of one provider any may be used, old ones included, and the
  label "demo" makes a demonstration token of any key (`credentials/broker.go:99`).
- The limiter counts connections, not addresses (`ratelimit/limiter.go:53`), and
  never drops a key.
- An advance that is sent twice takes a rollout two stages on
  (`deploy/session.go:75`).
- Only the last failing plugin root is told of (`bootstrap/bootstrap.go:79`); any
  plugin under the id of the agent loop keeps the agent loop out, of whatever kind
  and driver it is (`bootstrap/bootstrap.go:166`); and a manifest whose driver is of another kind is loaded and never served
  (`kernel/kernel.go:198`, 214).
- A task of a peer is "done" when its mission awaits an approval or was
  cancelled, and invisible while it runs (`a2a/peers.go:147`).
- An event without a mission is offered twice to a subscriber without a filter
  (`eventbus/bus.go:64`).

## Fairness

`MissionKernel`: weak fairness of each mission's run and of the second half of
each cancellation. The code has no scheduling of its own; a goroutine between
two critical sections is eventually scheduled, mutexes are held for a bounded
time, and `Execute` returns because the agent loop counts steps and the HTTP
client of the providers has a timeout of 180 s. (A stdio MCP server that stops
answering breaks this: `rpcStdio` tests its deadline between reads only.)
`EventBus`: weak fairness of a handler that is connected and of the goroutine
that unsubscribes; nothing obliges anyone to publish, connect or disconnect.
`AgentLoop`: weak fairness of each loop. `McpClient`: weak fairness of a
connection's own steps, but neither of servers nor of the read deadline.
`HostServices`: weak fairness of the end of each mission (which `MissionKernel`
shows), of the ticker's goroutine and of each run of a plan.
`Routing`: a mission is idle again and again or keeps going, and what is cached
ages; endpoints are obliged to nothing, and neither are checks: a check of a provider
that is up may fail again and again, and `RecoveredIsRouted` therefore assumes, in its
own antecedent, that from some time on no check that is under way has failed. `Platform` is safety only. `ProviderManager`
states no fairness: its properties are safety. Submitting, cancelling, approving and
registering are never obliged to happen.

## Proofs

Every invariant and every action property that a run checks is also proved, for
all values of the constants that satisfy the named ASSUMEs. TLC evaluates these
on the instances. They say what the code guarantees or the modelling needs:
"nobody", "no mission", "no connection" are not among the somebodies
(`NoMissionAssumption`, `CallerAssumption`, `NoConnAssumption`,
`NoneAssumption`, `JobAssumption`), ids are numbers where the code orders them
(`IdAssumption`, `StampAssumption`), limits of the code are positive and bounds
of the models are numbers, sessions and chats are different things
(`PartnerAssumption`), missions are no operations (`MissionAssumption`), what is
built in under the id of the agent loop is one (`BuiltinAssumption`), plans and trees of manifests are finite lists
(`StepListAssumption`, `DiskAssumption`), and providers and offers, whose
number a proof counts, are finite (`ProviderAssumption`, `OfferAssumption`).

Hardly any of the properties is inductive. They speak of missions that have
ended, of calls that have returned, of records at rest; the invariant must say
what holds on the way there, with every other goroutine in any of its steps. The
sections below give the strengthening; each proof module begins with it.

### MissionKernelProofs

`TypeCorrect`, `RunsEndWithAVerdict`, `StatesAreAnnounced` and the action property
`OnlyCancellationsAfterwards` follow from `IInv` (`Invariance`). The type
invariant alone is not inductive: `Candidate(m)` needs the failover index to be
inside the chain wherever it is read. Nor is `StateAnnounced`: it needs that a
state other than "cancelled" in a record is the verdict, that a verdict exists
exactly from the conclusion on, that the record says "cancelled" only when a
cancellation has been announced or is on its way, and that the run's
announcement comes between "report" and "done".

`FailuresComeFirst` (`FailoverInOrder`), `EffectsFollowSuccess`
(`EffectsNeedSuccess`) and `RecordsMatchRuns` (`RecordMatchesRun`) follow from
`RunInv` on top of `IInv` (`RunInvariance`). `JournalInv` says of each mission that
nothing is executed before its loop (`Silent`), that every execution in the
journal is of a candidate up to the current one and, if it is of an earlier one,
followed by its failure (`Placed`), that executions are in the order of the chain
with a failure between any two (`InOrder`), and that no failure is of a candidate
still to come (`FailedBefore`); `Distinct` makes the places of the chain
well-defined. `EffectInv` says that the record names the candidate being executed
and only missions that may execute are (`OnCandidate`), and which of the stores
mention the mission at each point of its run (`LeftBehind`). The artifact store is
the one that another mission can change: of equal contents the last writer owns
the metadata.

`ImplementsLifecycleSteps`: every behaviour of the kernel is, under the
refinement mapping, a behaviour of `MissionLifecycle`, step by step
(`LifecycleStep`). `ImplementsHost`: it is also one of `MissionHost`, when a mission
counts as live while its run is running; a cancellation needs that a mission has a
record exactly when it has a run. With `OverTheHost` below, what is proved of the
services over `MissionHost` is about missions as the kernel runs them.

### EventBusProofs

`TypeCorrect`, `ChannelsSafe` (`NoSendOnClosed`), `StreamsInOrder`
(`MissionStreamInOrder`, over any number of reconnections) and `StreamsComplete`
(`LiveStreamComplete`), for every channel capacity and length of the journal.
`MissionStreamInOrder` speaks of what has been written only. To be inductive it
needs the rest of the stream: what is left of the catch-up and what is in the
channel come after what has been written (`Ordered`), are journalled events of
the client's mission (`Known`), and a stream draws on one of the two at a time
(`Resting`). That an event is offered once to a client of a mission follows from
`NoSendOnClosed` (`OfferedOnce`); that catch-up starts after the last event seen
follows from `JournalWellFormed`. `LiveStreamComplete` is inductive on top of
that invariant: a channel with room for what is offered keeps it (`OfferKeeps`).

### AgentLoopProofs

For any missions, tools and limits of the loop, the compaction and the log.
`DangerIsRequested` (`DangerNeedsRequest`): the property compares counters that are
raised at different steps, so `GateInv` counts a call that has passed the gate
(`Passed`) before its run is counted. `LastStepIsWhole` (`LastStepWhole`): what is
sent has been cut by compaction at a place that knows nothing of calls and
answers. `Talk` describes the conversation at each place of the loop: up to three
system messages at the front, every assistant message followed by all its answers
except the last while its calls are made (`Closed`, `Underway`), and the last
step near enough to the end for compaction to keep it; `Short` bounds its
length, which is also why one cut is enough. `InvocationsCounted`
(`InvocationsAccounted`): numbers are given in one critical section and logged in
another; `RouterInv` says that those in flight or logged are below the counter,
and so a new one is new. `TypeCorrect` gives the types with the bounds on the
conversation and on the log.

### McpClientProofs

`TypeCorrect`; `AnswersAreOwn` (`OwnAnswer`), for any number of connections,
callers and calls. Nothing in an answer is compared with the request it
answers except by the one reader, so the invariant is about the pipes: the mutex
of a session is held by the one caller that waits (`MutexHeld`), and over a
session on which no stray answer may lie at most one request or its answer is on
its way, of the kind and number the reader waits for (`OnItsWay`). A `Connect`
uses the pipes before there is a mutex to take; that a caller is there only after
it needs `HandlersListed`. `StatusIsTrue` (`StatusMatchesTools`): at rest a server
that is not connected has no tools and no process. Connections of one server
overlap, and the last to write the status need not be the last to register, so
`Unconnected` says what a server may have because of a connection still under
way, and `Kept` which of the tools being registered are there already.

### ProviderManagerProofs

For every set of operations, missions, names, seeds and suffixes: `TypeCorrect`,
`RoutedToRegistered` (`ServedAsRegistered`), `SeedsProtected` (`SeedsServed`),
`ConfiguredAsRegistered` (`ConfigMatchesPlugin`). The three speak of states at
rest, so the invariant says what holds on the way. `LockInv`: an operation is between
`Refresh` and `EndRefresh` exactly if it holds the kernel's lock, which a mission may
hold as well. `Current`: an id whose
served instance is not the registered one has an operation that has changed it
and not yet refreshed, or is still listed by a refresh under way. `SeedsKept`: the
plugin of a seed is as it was and no operation that may change it runs on its
id, because its configuration is unmanaged. `OneByOne` with `Midway`: on an id
without overlap, what the registry holds is determined by the position of the one
operation. `UpdatesSupported`: only a creation can meet an unsupported driver.

### HostServicesProofs

`TypeCorrect` (of `HostServices`) and `OverTheHost`: the services submit
missions and touch nothing else of the host. The missions themselves end, fail
and are cancelled in any order meanwhile.

- `EachAnsweredInTurn` (`AnsweredInTurn`), `EachSessionSettles` (`SessionSettles`)
  from `TalkInv`: a message is in no conversation before it is sent, asked and not
  answered while its mission runs, asked before answered afterwards (`InTurn`); a
  session is at work only for a message under way and has been charged once for
  each that is over (`Settles`).
- `RoutinesRemember` from `RoutineInv`: the bounded history of a routine is the
  newest of all its runs. Its lemma `NewestOfNewest` is why it does not matter that
  the history is cut after every run.
- `StepsInDependencyOrder` (`DependenciesFirst`), `ReportsAreTrue` (`RunsReported`)
  from `WorkflowInv`: what is left of a run and what it has begun make up its own
  copy of the plan, whatever becomes of the plan (`OfPlan`); nothing that is recorded
  as failed has been continued (`NoneFailed`); a step comes after something with each id it
  depends on (`InDependencyOrder`); a stuck run waits for ids nothing has run under
  (`ToldRight`); a run that is over is in the history once (`Entered`). That a pass
  that finds nothing means that nothing is ready takes `PassPlaced` and that a
  nonempty set of places has a first one. A second invariant, `FailureInv`, relates
  the records to the missions that have really failed: such a mission is recorded
  as failed until it is cancelled (`FailuresRecorded`), which makes of "not recorded
  as failed" what the theorems say (`RanPasses`); and a run that tells of a failure
  has met one or has a step left (`Accused`).
- `TickerRunsOnce` (`OncePerInterval`), from the fact that what the ticker has yet
  to run is owed a run, and that a job that is due is owed one unless its run is
  under way (`SchedulerInv`).
- `TasksAreTrue` (`TasksTellTrue`) from `PeersInv`: numbers are given once
  (`Numbered`), and what an offer knows of its mission at each point, which is over
  when it is recorded, stays so (`OfferOK`).

### RoutingProofs

`HealthyComesFromAnswers` (`HealthyHasAnswered`) is what makes the unlocked health
cache bearable. The property speaks of moments at which no check of the provider
is writing; the invariant must also hold in the middle of the writes of any
number of checks. Of a provider that has not answered yet it says that nothing
has stored "healthy", that every check that is writing has a failure to write,
that a check that is past the error leaves it written, and that a cache is young
only with the error written or about to be (`CacheInv`).

`ServedByWhomItAsked` (`ServedAsAsked`): `RoutedInv` says that a mission that
collects has found only providers that its request admits and that have the
capabilities, each once (`Collecting`), and that one that executes has only such
in its chain and is with the one at its rank (`Executing`). In between is the
ranking. That there is an order at all is a lemma: `Before` is irreflexive,
transitive and, on different providers, total (`BeforeTotal`), so that the number
of candidates before one is its place (`RankedInOrder`), and two candidates never
share one, so that the ranking leaves none out (`RankedHoldsAll`). Two theorems
follow. `RequiredComesFirst`: a required provider that was found is tried first,
with failover and without, whatever the other criteria say.
`FailoverMissesNobody`: with failover every provider that was found is in the
chain at exactly one place.

### PlatformProofs

The parts share nothing, so each has its own invariant, and `PartsAlone` makes
each theorem one about `Platform`.

- `IssuedRecordsSafe` (`IssuedRecordsStay`): no counter is behind an id it has
  issued, so that the next one is new.
- `BackupComplete` (`BackupHoldsWhatStayed`): while requests write, add and delete
  under the encoder's iteration, what has stayed since the backup was asked for is
  in a collection still to come, due in the one under way, or written out with a
  value no older (`BackupInv`).
- `OperatorKeySafe` (`OperatorKeyUsed`): the handles are numbered without gaps, so
  that the next one is new (`HandlesNew`); what an attempt holds is in the broker
  and is one record (`HandlesHeld`); an attempt that began with a key of an operator
  there still has one to find and so puts no token (`KeysStay`).
- `LimitExact` (`WindowExact`): in every window that reaches back no further than
  the limiter looks, the hits it has kept are as many as the requests it has let
  through (`NoneLost`). That is inductive although hits are dropped, because the
  beginning of the window only moves forward. `SelectedCounts` says that filtering
  a sequence keeps count.
- `GateSafe` (`GateHonoured`): a rollout with a gate that has not succeeded by
  approval is still before its end.
- `BootSafe` (`BootComplete`), for any contents of the disk, whatever drivers it
  names, and any environment: what a plugin root has registered stands until the next one replaces it, built-in
  plugins come only if nothing was loaded, and what is served last is read from
  the registry as it is by then (`BootInv`); what has the id of the agent loop is
  one unless a manifest has taken the id for something else (`LoopHeld`).

### What stays with TLC

Everything under fairness, for the prover has no ENABLED: `RunConcludes`,
`CancelAnnounced`, the fairness in `ImplementsLifecycle` (its steps are proved),
`BufferedReachesClient`, `LoopReturns`, `AbandonedConnectReturns`, `DueJobRuns`,
`RunPlanReturns`, `RecoveredIsRouted`. The three violations are
counterexamples, which is what TLC is for. The type invariants of `Routing`
and `Platform` are in the modules for the reader: no run lists them, and the
proofs use the types they need.

Two definitions are written so that they can be reasoned about. `Ranked` chooses
the sorted arrangement of the candidates, and `Selected` says which element of a
filtered sequence is where; the library's operators for both are recursive, and
what a recursive operator computes takes an induction that is out of the prover's
reach.

## Plan

1. Proofs: the type invariants of `Routing` and `Platform`; that a stopped routine
   and a deleted job start nothing new, as action properties.
2. The SSE handler and `Replay` beside the WebSocket handler; the board and the
   connections of the deck, which differ from `Stores` only in their ids.

## Not modelled

Decoding, encoding, authentication and static files of the HTTP layer; the tools
for files, shell and HTTP; the assembly of texts (skills, context packs,
documentation, prompts); the conversion of tools to the MCP shape (`mcpbridge`,
pure); searching, ranking and embeddings (pure functions over a map under one
lock); the conformance, evaluation, interchange, hardening and performance
suites, which drive the kernel sequentially and report; `persist/store.go`, which
has no caller in the host; the web interface, SDK and schemas, which are clients
of the HTTP API in other languages.
