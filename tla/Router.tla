-------------------------------- MODULE Router --------------------------------
(***************************************************************************)
(* How a mission request becomes a chain of candidates: the request of the *)
(* HTTP API, of compare and of research (kernel/pkg/httpapi/server.go,     *)
(* compare, research), the labels and options of the kernel                *)
(* (kernel/pkg/kernel/kernel.go), and the rules by which the router        *)
(* (kernel/pkg/router/router.go) admits, keeps and orders providers and    *)
(* picks a runtime and a model.  All of it is pure; Routing drives it.     *)
(***************************************************************************)
EXTENDS Naturals, SequencesExt

CONSTANTS
  Provider,     \* ids of providers, numbered in the order of their strings
  Runtime,      \* ids of runtimes, numbered the same way
  Model,        \* ids of models
  Capability,   \* capabilities a request may name
  ModelName,    \* what a request may name that looks like a model
  Descriptor,   \* provider -> what its manifest says
  Accepts,      \* runtime -> capabilitiesIn of its manifest
  AgentLoop     \* the id of the agent loop

ASSUME IdAssumption == Provider \subseteq Nat \ {0} /\ Runtime \subseteq Nat \ {0}

None == 0                      \* the empty id
Either(a, b) == IF a # None THEN a ELSE b

Tiers == <<"free-local", "free-hosted", "budget", "standard", "premium">>
RankTier(t) ==
  IF t \in ToSet(Tiers) THEN CHOOSE i \in 1..Len(Tiers) : Tiers[i] = t ELSE 99

------------------------------------------------------------------------------
(* Requests                                                                *)

\* The labels the router reads, all of them unset.  Lists are sets.
NoLabels ==
  [preferLocal |-> "", failover |-> "", preferProvider |-> None, provider |-> None,
   requireProvider |-> None, preferRuntime |-> None, preferModel |-> None, model |-> None,
   excludeProvider |-> {}, excludeRuntime |-> {}, providers |-> {}]

\* The fields of host.Mission that select providers.
NoFields ==
  [preferProvider |-> None, requireProvider |-> None, preferModel |-> None, model |-> None,
   providers |-> {}, failover |-> ""]

Asked(required, labels, fields) == [required |-> required, labels |-> labels, fields |-> fields]

\* POST /api/v1/missions: "model" is another name for "preferModel".
ApiMission(required, labels, fields) ==
  Asked(required, labels,
        [fields EXCEPT !.preferModel = Either(@, fields.model), !.model = None])

\* One arm of a comparison: pinned to its provider twice over, without failover.
CompareArm(p, model) ==
  Asked({"coding", "tools"},
        [NoLabels EXCEPT !.requireProvider = p, !.failover = "false",
                         !.preferRuntime = AgentLoop, !.preferModel = model],
        [NoFields EXCEPT !.preferProvider = p, !.preferModel = model, !.requireProvider = p,
                         !.failover = "false"])

Research(p, model) ==
  Asked({"coding", "tools"},
        [NoLabels EXCEPT !.preferRuntime = AgentLoop, !.preferProvider = p,
                         !.preferModel = model],
        [NoFields EXCEPT !.preferProvider = p, !.preferModel = model, !.failover = "true"])

IsModelNameAntiPattern(c) == c \in ModelName

\* Model names are no capabilities; a request that names nothing else is refused.
Normalize(required) == {c \in required : c # "" /\ ~ IsModelNameAntiPattern(c)}

\* A label wins over the field of the same meaning, except for failover.
MergeRouteLabels(labels, fields) ==
  [labels EXCEPT
     !.preferProvider  = Either(@, fields.preferProvider),
     !.requireProvider = Either(@, fields.requireProvider),
     !.preferModel     = Either(@, fields.preferModel),
     !.providers       = IF @ = {} THEN fields.providers ELSE @,
     !.failover        = IF fields.failover = "" THEN @ ELSE fields.failover]

RouteOptions(labels) ==
  [preferLocal     |-> labels.preferLocal # "false",
   failover        |-> labels.failover # "false",
   preferProvider  |-> Either(labels.preferProvider, labels.provider),
   requireProvider |-> labels.requireProvider,
   preferRuntime   |-> Either(labels.preferRuntime, AgentLoop),
   preferModel     |-> Either(labels.preferModel, labels.model),
   exclude         |-> labels.excludeProvider,
   excludeRuntime  |-> labels.excludeRuntime,
   allow           |-> labels.providers]

Options(ask) == RouteOptions(MergeRouteLabels(ask.labels, ask.fields))

------------------------------------------------------------------------------
(* Candidates                                                              *)

\* Providers that are asked for their health at all.
Admits(opts, p) ==
  /\ p \notin opts.exclude
  /\ opts.requireProvider = None \/ p = opts.requireProvider \/ opts.failover
  /\ opts.allow = {} \/ p \in opts.allow

Compatible(have, need) == need \subseteq have

Eligible(p, required, localOnly) ==
  /\ Compatible(Descriptor[p].capabilities, required)
  /\ localOnly => Descriptor[p].local

\* A provider that lists models, but not the one asked for, is left out unless it is named.
KeepsModel(opts, p, models) ==
  \/ opts.preferModel = None
  \/ models = <<>>
  \/ opts.preferModel \in ToSet(models)
  \/ p \in {opts.requireProvider, opts.preferProvider}

PickModel(models, prefer) ==
  IF prefer # None THEN prefer ELSE IF models = <<>> THEN None ELSE models[1]

\* Candidate a comes before candidate b: the first criterion on which they differ decides.
Criteria(opts, c) ==
  << IF c.p = opts.requireProvider THEN 0 ELSE 1,
     IF c.p = opts.preferProvider THEN 0 ELSE 1,
     IF opts.preferModel = None \/ opts.preferModel \in ToSet(c.models) THEN 0 ELSE 1,
     RankTier(Descriptor[c.p].tier),
     c.p >>

Before(opts, a, b) ==
  LET x == Criteria(opts, a)
      y == Criteria(opts, b)
  IN  \E i \in 1..5 : x[i] < y[i] /\ \A j \in 1..(i - 1) : x[j] = y[j]

\* The candidates in order; there is one order only, since no two have the same provider.
Ranked(opts, kept) ==
  CHOOSE s \in [1..Cardinality(kept) -> kept] :
    \A i, j \in DOMAIN s : i < j => Before(opts, s[i], s[j])

\* Without failover only the first candidate is kept, and only the required one.
Chain(opts, found) ==
  LET kept   == IF opts.failover \/ opts.requireProvider = None
                  THEN found ELSE {c \in found : c.p = opts.requireProvider}
      ranked == Ranked(opts, kept)
      all    == [i \in DOMAIN ranked |->
                   [p |-> ranked[i].p, model |-> PickModel(ranked[i].models, opts.preferModel)]]
  IN  IF opts.failover \/ all = <<>> THEN all ELSE <<all[1]>>

\* Runtimes are always healthy; the preferred one, or else the first by id.
PickRuntime(opts, required) ==
  LET able == {rt \in Runtime \ opts.excludeRuntime :
                 Accepts[rt] = {} \/ Compatible(Accepts[rt], required)}
  IN  IF able = {} THEN None
      ELSE IF opts.preferRuntime \in able THEN opts.preferRuntime
      ELSE CHOOSE rt \in able : \A other \in able : rt <= other
================================================================================
