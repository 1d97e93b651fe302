-------------------------------- MODULE Routing --------------------------------
(***************************************************************************)
(* Missions that are routed at the same time, from the request to the      *)
(* completions: each walks the providers, asks for their health and        *)
(* models, ranks what it found (Router), and then tries its candidates one *)
(* after the other, over the OpenAI-compatible adapter or the echo         *)
(* provider.                                                               *)
(*                                                                         *)
(* The missions share the models a provider has discovered and its health  *)
(* cache: three fields that every goroutine reads and writes without a     *)
(* lock, so that the writes of one check may be seen by others in any      *)
(* order (kernel/pkg/adapters/openaicompat).                               *)
(***************************************************************************)
EXTENDS Router, FiniteSets

CONSTANTS
  Mission,   \* missions being routed
  Ask,       \* mission -> what it may ask for
  Remote,    \* providers behind the OpenAI-compatible adapter; the others echo
  Catalog,   \* remote provider -> the models its endpoint lists
  Steps,     \* runtimes that plan and act in two completions; the others take one
  MaxOutages \* bound: times an endpoint goes down

VARIABLES
  endpoint, \* remote provider -> "up" or "down"
  outages,  \* number of outages so far
  cache,    \* remote provider -> healthOK, whether healthErr is set, healthAt within its TTL
  listed,   \* provider -> desc.Models
  mission,  \* mission -> what its goroutine is doing
  answered  \* history: remote providers that have answered a check

vars == <<endpoint, outages, cache, listed, mission, answered>>

Field == {"ok", "err", "at"}
Candidate == [p : Provider, model : Model \cup {None}]

Idle ==
  [at |-> "idle", ask |-> None, pass |-> "none", todo |-> {}, p |-> None, answer |-> FALSE,
   pending |-> {}, found |-> {}, chain |-> <<>>, rank |-> 1, runtime |-> None, left |-> 0]

Init ==
  /\ endpoint = [p \in Remote |-> "up"]
  /\ outages = 0
  /\ cache = [p \in Remote |-> [ok |-> FALSE, err |-> FALSE, at |-> FALSE]]
  /\ listed = [p \in Provider |-> Descriptor[p].models]
  /\ mission = [m \in Mission |-> Idle]
  /\ answered = {}

At(m, place) == mission[m].at = place
Opts(m) == Options(mission[m].ask)
Required(m) == Normalize(mission[m].ask.required)
World == <<endpoint, outages>>
Become(m, q) == mission' = [mission EXCEPT ![m] = q]

\* Nothing of a mission that has ended is looked at but how it ended.
Ended(q, how) ==
  [Idle EXCEPT !.at = how, !.ask = q.ask, !.p = q.p]

------------------------------------------------------------------------------
(* The world                                                               *)

GoDown(p) ==
  /\ endpoint[p] = "up"
  /\ outages < MaxOutages
  /\ endpoint' = [endpoint EXCEPT ![p] = "down"]
  /\ outages' = outages + 1
  /\ UNCHANGED <<cache, listed, mission, answered>>

ComeUp(p) ==
  /\ endpoint[p] = "down"
  /\ endpoint' = [endpoint EXCEPT ![p] = "up"]
  /\ UNCHANGED <<outages, cache, listed, mission, answered>>

\* What is cached has become older than its time to live.
Age(p) ==
  /\ cache[p].at
  /\ cache' = [cache EXCEPT ![p].at = FALSE]
  /\ UNCHANGED <<World, listed, mission, answered>>

------------------------------------------------------------------------------
(* Candidates: trying one after the other                                  *)

Serving(q) == q.chain[q.rank].p

\* Mutant: a completion goes to whatever provider the kernel lists first.
CompleteAnywhere(q) == [q EXCEPT !.at = "health", !.p = Max(Provider)]

\* A completion goes to the provider that the correlation of the request names, if that is
\* healthy.
CompleteViaRoutedProvider(q) == [q EXCEPT !.at = "health", !.p = Serving(q)]

\* The runtime is asked to execute.
Attempt(q) == CompleteViaRoutedProvider([q EXCEPT !.left = IF q.runtime \in Steps THEN 2 ELSE 1])

\* The next candidate is tried; after the last the mission fails.
FailOver(q) ==
  IF q.rank = Len(q.chain) THEN Ended(q, "exhausted") ELSE Attempt([q EXCEPT !.rank = @ + 1])

------------------------------------------------------------------------------
(* Candidates: collecting                                                  *)

Admitted(q) == {p \in Provider : Admits(Options(q.ask), p)}

\* A pass asks every admitted provider; in the first one only local ones are kept.
Pass(q, pass) == [q EXCEPT !.at = "collect", !.pass = pass, !.todo = Admitted(q)]

\* A chain and a runtime, or the mission fails.
Route(q) ==
  LET chain == Chain(Options(q.ask), q.found)
      rt    == PickRuntime(Options(q.ask), Normalize(q.ask.required))
  IN  IF chain = <<>> \/ rt = None THEN Ended(q, "unroutable")
      ELSE Attempt([Idle EXCEPT !.ask = q.ask, !.chain = chain, !.runtime = rt])

\* The order in which providers are asked makes no difference to what each of them says.
NextProvider(q) == [q EXCEPT !.at = "health", !.p = Min(q.todo), !.todo = @ \ {Min(q.todo)}]

\* After the local pass the others are collected for failover; without failover, and
\* whenever nothing was found, everything is collected once more.
Collect(q) ==
  IF q.todo # {} THEN NextProvider(q)
  ELSE IF q.pass = "local" /\ Options(q.ask).failover THEN NextProvider(Pass(q, "all"))
  ELSE IF q.pass # "last" /\ q.found = {} THEN NextProvider(Pass(q, "last"))
  ELSE Route(q)

\* SubmitMission refuses a request that names no capability.
Submit(m) ==
  /\ At(m, "idle")
  /\ \E ask \in Ask[m] :
       LET q == [Idle EXCEPT !.ask = ask]
       IN  Become(m, IF Normalize(ask.required) = {} THEN Ended(q, "refused")
                     ELSE IF Admitted(q) = {} THEN Ended(q, "unroutable")
                     ELSE NextProvider(Pass(q, IF Options(ask).preferLocal
                                                 THEN "local" ELSE "last")))
  /\ UNCHANGED <<World, cache, listed, answered>>

\* Describe and DiscoverModels for a provider that is healthy: the models the endpoint lists
\* replace those known, if it lists any.
Discover(m) ==
  LET q == mission[m]
      p == q.p
  IN  /\ At(m, "describe")
      /\ IF ~ Eligible(p, Required(m), q.pass = "local")
           THEN /\ Become(m, Collect(q))
                /\ UNCHANGED listed
           ELSE \E live \in BOOLEAN :
                  /\ live => p \in Remote /\ endpoint[p] = "up" /\ Catalog[p] # <<>>
                  /\ listed' = [listed EXCEPT ![p] = IF live THEN Catalog[p] ELSE @]
                  /\ Become(m, Collect([q EXCEPT
                       !.found = IF /\ KeepsModel(Opts(m), p, listed'[p])
                                    /\ \A c \in q.found : c.p # p
                                   THEN @ \cup {[p |-> p, models |-> listed'[p]]}
                                   ELSE @]))
      /\ UNCHANGED <<World, cache, answered>>

------------------------------------------------------------------------------
(* Health                                                                  *)

\* Where a mission goes on when it has an answer: to the next provider or to the models
\* while it collects; to the failure or to the completion while it executes.
Told(q, healthy) ==
  IF q.chain = <<>> THEN IF healthy THEN [q EXCEPT !.at = "describe"] ELSE Collect(q)
  ELSE IF healthy THEN [q EXCEPT !.at = "complete"] ELSE FailOver(q)

\* Mutant: a failure is cached for good.
UsableForGood(p) == cache[p].at \/ (cache[p].err /\ ~ cache[p].ok)

\* The cache is used for as long as it is young.
Usable(p) == cache[p].at

\* The echo provider is always healthy.
EchoHealth(m) ==
  /\ At(m, "health")
  /\ mission[m].p \notin Remote
  /\ Become(m, Told(mission[m], TRUE))
  /\ UNCHANGED <<World, cache, listed, answered>>

LookUp(m) ==
  /\ At(m, "health")
  /\ mission[m].p \in Remote
  /\ Become(m, [mission[m] EXCEPT !.at = IF Usable(mission[m].p) THEN "cached" ELSE "probe"])
  /\ UNCHANGED <<World, cache, listed, answered>>

\* healthOK, or else no healthErr, means healthy.
Cached(m) ==
  /\ At(m, "cached")
  /\ LET c == cache[mission[m].p]
     IN  Become(m, Told(mission[m], c.ok \/ ~ c.err))
  /\ UNCHANGED <<World, cache, listed, answered>>

\* The check itself, under the context of the mission's request and for 800 ms at most: it
\* also fails when an endpoint that is up answers late, or the caller has given up.
Probe(m) ==
  /\ At(m, "probe")
  /\ \E answer \in BOOLEAN :
       /\ answer => endpoint[mission[m].p] = "up"
       /\ Become(m, [mission[m] EXCEPT !.at = "store", !.pending = Field, !.answer = answer])
       /\ answered' = IF answer THEN answered \cup {mission[m].p} ELSE answered
  /\ UNCHANGED <<World, cache, listed>>

\* Mutant: an error is not kept.
CacheVerdict(q, f) ==
  CASE f = "ok"  -> [cache EXCEPT ![q.p].ok = q.answer]
    [] f = "err" -> cache
    [] f = "at"  -> [cache EXCEPT ![q.p].at = TRUE]

\* cacheHealth: what the three fields become, one at a time.
CacheHealth(q, f) ==
  CASE f = "ok"  -> [cache EXCEPT ![q.p].ok  = q.answer]
    [] f = "err" -> [cache EXCEPT ![q.p].err = ~ q.answer]
    [] f = "at"  -> [cache EXCEPT ![q.p].at  = TRUE]

Store(m) ==
  LET q == mission[m]
  IN  /\ At(m, "store")
      /\ \E f \in q.pending :
           /\ cache' = CacheHealth(q, f)
           /\ Become(m, LET rest == [q EXCEPT !.pending = @ \ {f}]
                        IN  IF rest.pending = {}
                              THEN [Told(rest, q.answer) EXCEPT !.answer = FALSE] ELSE rest)
      /\ UNCHANGED <<World, listed, answered>>

------------------------------------------------------------------------------
(* Completions                                                             *)

\* One completion of the echo runtime, two of the steps runtime, each of which asks for the
\* health of the provider again.
EchoExecuted(q) == Ended(q, "succeeded")

StepsExecuted(q) ==
  IF q.left = 2 THEN CompleteViaRoutedProvider([q EXCEPT !.left = 1]) ELSE Ended(q, "succeeded")

Completed(q) == IF q.runtime \in Steps THEN StepsExecuted(q) ELSE EchoExecuted(q)

EchoComplete(m) ==
  /\ At(m, "complete")
  /\ mission[m].p \notin Remote
  /\ Become(m, Completed(mission[m]))
  /\ UNCHANGED <<World, cache, listed, answered>>

\* An endpoint may refuse whatever it is sent; one that is down answers nothing.
Complete(m) ==
  LET q == mission[m]
  IN  /\ At(m, "complete")
      /\ q.p \in Remote
      /\ \/ /\ endpoint[q.p] = "up"
            /\ Become(m, Completed(q))
         \/ Become(m, FailOver(q))
      /\ UNCHANGED <<World, cache, listed, answered>>

\* The caller has its answer and may ask for something else.
Return(m) ==
  /\ mission[m].at \in {"refused", "unroutable", "exhausted", "succeeded"}
  /\ Become(m, Idle)
  /\ UNCHANGED <<World, cache, listed, answered>>
------------------------------------------------------------------------------
Step(m) ==
  \/ Submit(m) \/ Discover(m)
  \/ EchoHealth(m) \/ LookUp(m) \/ Cached(m) \/ Probe(m) \/ Store(m)
  \/ EchoComplete(m) \/ Complete(m) \/ Return(m)

Next ==
  \/ \E p \in Remote : GoDown(p) \/ ComeUp(p) \/ Age(p)
  \/ \E m \in Mission : Step(m)

Spec == Init /\ [][Next]_vars

\* Time passes, and requests that have been accepted go on: weak fairness of the steps of a
\* mission, one of which is enabled unless it is idle.
Fairness ==
  /\ \A p \in Remote : WF_vars(Age(p))
  /\ \A m \in Mission : []<>At(m, "idle") \/ []<><<mission'[m] # mission[m]>>_vars

FairSpec == Spec /\ Fairness

------------------------------------------------------------------------------
TypeOK ==
  /\ endpoint \in [Remote -> {"up", "down"}]
  /\ outages \in 0..MaxOutages
  /\ cache \in [Remote -> [Field -> BOOLEAN]]
  /\ listed \in [Provider -> Seq(Model)]
  /\ \A m \in Mission :
       /\ mission[m].p \in Provider \cup {None}
       /\ mission[m].pending \subseteq Field
       /\ mission[m].rank \in 1..(Len(mission[m].chain) + 1)

\* Whatever happens to other missions, endpoints and the health cache while it is routed and
\* executed, a mission that succeeds has been answered by a provider it may use: one that
\* has the capabilities, that it has not excluded, that is among those it lists, and that is
\* the very one it requires if it has turned failover off (router.go:89-126, 188-200;
\* kernel.go:271-291; compare.go:47-68).
ServedAsAsked ==
  \A m \in Mission :
    At(m, "succeeded") =>
      LET p      == mission[m].p
          labels == MergeRouteLabels(mission[m].ask.labels, mission[m].ask.fields)
      IN  /\ Required(m) \subseteq Descriptor[p].capabilities
          /\ p \notin labels.excludeProvider
          /\ labels.providers # {} => p \in labels.providers
          /\ labels.failover = "false" /\ labels.requireProvider # None
               => p = labels.requireProvider

\* Once no check is writing, a cache that is young and says healthy comes from an endpoint
\* that has answered, however the unlocked writes of several checks have been mixed
\* (openaicompat/provider.go:68-103).
Settled(p) == \A m \in Mission : ~ (At(m, "store") /\ mission[m].p = p)

HealthyHasAnswered ==
  \A p \in Remote :
    cache[p].at /\ (cache[p].ok \/ ~ cache[p].err) /\ Settled(p) => p \in answered

\* Missions that have the verdict of a check of provider p in hand and have not stored it.
Verdicts(p) == {mission[m].answer : m \in {k \in Mission : At(k, "store") /\ mission[k].p = p}}

\* A provider is not left out for good because checks of it have failed: once the checks
\* that missions make of it succeed, what was cached before lapses, and what slow checks
\* still write over it.  A provider that is up may still be left out for as long as checks
\* of it go on failing, by a slow answer or a caller that gives up
\* (openaicompat/provider.go:67-103).
RecoveredIsRouted ==
  \A p \in Remote :
    <>[](FALSE \notin Verdicts(p)) => <>[]~(Usable(p) /\ ~ cache[p].ok /\ cache[p].err)
================================================================================
