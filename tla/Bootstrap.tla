------------------------------ MODULE Bootstrap ------------------------------
(***************************************************************************)
(* How a host starts (kernel/pkg/bootstrap, kernel/pkg/plugin): manifests  *)
(* are loaded from disk root by root, the built-in plugins are put in if   *)
(* that has loaded none, the kernel is made, and then some providers and   *)
(* the agent loop are registered once more as the environment asks for it. *)
(*                                                                         *)
(* A manifest has an id and a kind, and is good if it can be read, names   *)
(* a driver there is a factory for and, where that is asked for, bears a   *)
(* valid signature.  The driver decides what is made of it, whatever kind  *)
(* the manifest states: that is the plugin's make.  Who registered a       *)
(* plugin is its origin.                                                   *)
(***************************************************************************)
EXTENDS Integers, Sequences

CONSTANTS
  Disk,     \* what may be on disk: the lists of roots, each the list of its manifests
  Builtin   \* the built-in manifests, as records [id, kind, make]

Manifests == [id : STRING, kind : STRING, make : STRING, good : BOOLEAN]

AgentLoopId == "runtime.agent.loop"
OpenAIId == "provider.openai.compat"
KimchiId == "provider.kimchi"

\* A plugin or manifest that is an agent loop, stated as a runtime.
IsAgentLoop(p) == p.kind = "Runtime" /\ p.make = "AgentLoop"

ASSUME DiskAssumption == Disk \subseteq Seq(Seq(Manifests))
ASSUME BuiltinAssumption == \A b \in Builtin : b.id = AgentLoopId => IsAgentLoop(b)

VARIABLES
  boot,      \* how far bootstrap.New is, and its option: [at, root, file, seedBuiltins]
  disk,      \* the roots
  env,       \* the variables of the environment that are set
  registry,  \* MemoryRegistry.byID: the plugins, as [id, kind, make, origin]
  loaded,    \* manifests loaded from disk
  warnings,  \* LoadWarnings: the root whose errors it tells of, 0 if none
  served,    \* Kernel.providers and Kernel.runtimes
  managed    \* providers the provider manager has a configuration for

bootVars == <<boot, disk, env, registry, loaded, warnings, served, managed>>

Variables == {"openai", "kimchi"}

BootInit ==
  /\ boot \in [at : {"load"}, root : {1}, file : {1}, seedBuiltins : BOOLEAN]
  /\ disk \in Disk
  /\ env \in SUBSET Variables
  /\ registry = {}
  /\ loaded = 0
  /\ warnings = 0
  /\ served = {}
  /\ managed = {}

\* Register puts a plugin in the place of the one that has its id.
Registered(id, kind, make, origin) ==
  {p \in registry : p.id # id}
    \cup {[id |-> id, kind |-> kind, make |-> make, origin |-> origin]}

\* refreshAdaptersLocked: what is registered as a provider or a runtime, and is one.
Adapters(plugins) ==
  {p \in plugins : \/ p.kind = "Provider" /\ p.make = "Provider"
                   \/ p.kind = "Runtime" /\ p.make \in {"Runtime", "AgentLoop"}}

AtFile == boot.at = "load" /\ boot.root \in DOMAIN disk /\ boot.file \in DOMAIN disk[boot.root]

\* A manifest that cannot be loaded is passed over.
AfterFailure == boot.file + 1

\* LoadTree takes up the next manifest of the root.
LoadFile ==
  /\ AtFile
  /\ LET m == disk[boot.root][boot.file] IN
       IF m.good
       THEN /\ registry' = Registered(m.id, m.kind, m.make, <<boot.root, boot.file>>)
            /\ loaded' = loaded + 1
            /\ boot' = [boot EXCEPT !.file = @ + 1]
            /\ UNCHANGED warnings
       ELSE /\ warnings' = boot.root
            /\ boot' = [boot EXCEPT !.file = AfterFailure]
            /\ UNCHANGED <<registry, loaded>>
  /\ UNCHANGED <<disk, env, served, managed>>

EndRoot ==
  /\ boot.at = "load"
  /\ ~ AtFile
  /\ boot' = IF boot.root \in DOMAIN disk THEN [boot EXCEPT !.root = @ + 1, !.file = 1]
             ELSE [boot EXCEPT !.at = "seed"]
  /\ UNCHANGED <<disk, env, registry, loaded, warnings, served, managed>>

\* seedBuiltins, if that is asked for and no manifest was loaded.
Seed ==
  /\ boot.at = "seed"
  /\ registry' = IF loaded = 0 /\ boot.seedBuiltins
                 THEN {[id |-> b.id, kind |-> b.kind, make |-> b.make, origin |-> <<0, 0>>] :
                         b \in Builtin}
                 ELSE registry
  /\ boot' = [boot EXCEPT !.at = "kernel"]
  /\ UNCHANGED <<disk, env, loaded, warnings, served, managed>>

\* NewWithOptions takes the adapters from the registry and has the manager make a
\* configuration for each provider.
NewKernel ==
  /\ boot.at = "kernel"
  /\ served' = Adapters(registry)
  /\ managed' = {p.id : p \in {q \in registry : q.kind = "Provider"}}
  /\ boot' = [boot EXCEPT !.at = "openai"]
  /\ UNCHANGED <<disk, env, registry, loaded, warnings>>

\* Mutant: the kernel is not told.
KeepServed(plugins) == served

Refreshed(plugins) == Adapters(plugins)

\* The provider of a variable that is set is registered anew, over the manifest on disk.
Rebind(at, variable, id, next) ==
  /\ boot.at = at
  /\ registry' = IF variable \in env THEN Registered(id, "Provider", "Provider", <<0, 1>>)
                 ELSE registry
  /\ served' = IF variable \in env THEN Refreshed(registry') ELSE served
  /\ boot' = [boot EXCEPT !.at = next]
  /\ UNCHANGED <<disk, env, loaded, warnings, managed>>

RebindOpenAI == Rebind("openai", "openai", OpenAIId, "kimchi")

EnsureKimchi == Rebind("kimchi", "kimchi", KimchiId, "agentloop")

\* The agent loop is registered unless its id is taken, by whatever plugin.
EnsureAgentLoop ==
  /\ boot.at = "agentloop"
  /\ registry' = IF \E p \in registry : p.id = AgentLoopId THEN registry
                 ELSE Registered(AgentLoopId, "Runtime", "AgentLoop", <<0, 1>>)
  /\ served' = Refreshed(registry')
  /\ boot' = [boot EXCEPT !.at = "done"]
  /\ UNCHANGED <<disk, env, loaded, warnings, managed>>

BootNext ==
  LoadFile \/ EndRoot \/ Seed \/ NewKernel \/ RebindOpenAI \/ EnsureKimchi \/ EnsureAgentLoop

BootSpec == BootInit /\ [][BootNext]_bootVars

------------------------------------------------------------------------------
BootTypeOK ==
  /\ boot \in [at : {"load", "seed", "kernel", "openai", "kimchi", "agentloop", "done"},
               root : Nat, file : Nat, seedBuiltins : BOOLEAN]
  /\ disk \in Disk
  /\ env \subseteq Variables
  /\ \A p \in registry : p.kind \in STRING /\ p.origin \in Nat \X Nat
  /\ loaded \in Nat
  /\ warnings \in 0..Len(disk)
  /\ \A p \in served : p.kind \in {"Provider", "Runtime"}
  /\ managed \subseteq {p.id : p \in registry}

\* A host that has started serves every plugin of its registry that is the provider or
\* runtime its manifest says, and nothing else, an agent loop among them unless a manifest
\* on disk has taken its id for something else.  Every manifest on disk that can be loaded
\* has its plugin in the registry, one broken manifest or root beside it or not, unless
\* another one of its id came later or the environment put one in its place; and the
\* built-in plugins stand in for the disk, never beside it (bootstrap.New, LoadTree,
\* kernel.go:190-222).
BootComplete ==
  boot.at = "done" =>
    /\ served = Adapters(registry)
    /\ \/ \E p \in served : p.id = AgentLoopId /\ IsAgentLoop(p)
       \/ \E r \in 1..Len(disk) : \E f \in DOMAIN disk[r] :
            disk[r][f].good /\ disk[r][f].id = AgentLoopId /\ ~ IsAgentLoop(disk[r][f])
    /\ \A r \in 1..Len(disk) : \A f \in DOMAIN disk[r] :
         disk[r][f].good =>
           \E p \in registry :
             /\ p.id = disk[r][f].id
             /\ \/ p.origin = <<0, 1>>
                \/ p.origin[1] > r
                \/ p.origin[1] = r /\ p.origin[2] >= f
    /\ (\E p \in registry : p.origin = <<0, 0>>) =>
         \A r \in 1..Len(disk) : \A f \in DOMAIN disk[r] : ~ disk[r][f].good
================================================================================
