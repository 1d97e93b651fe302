----------------------------- MODULE RoutingProofs -----------------------------
(***************************************************************************)
(* Routing for any number of missions and providers, any requests and any  *)
(* number of outages: what the writes of a check, which come one at a time *)
(* and in any order, can be mixed to; in which order candidates are tried; *)
(* and whom a mission may be served by.                                    *)
(***************************************************************************)
EXTENDS Routing, FiniteSetTheorems, NaturalsInduction, WellFoundedInduction, FunctionTheorems,
        TLAPS

Cell == [ok : BOOLEAN, err : BOOLEAN, at : BOOLEAN]

\* Mission m writes what a check of p has told it.
Storing(m, p) == At(m, "store") /\ mission[m].p = p

\* The shape of the state: missions have the fields of an idle one.
Shape ==
  /\ cache \in [Remote -> Cell]
  /\ DOMAIN mission = Mission
  /\ \A m \in Mission :
       /\ DOMAIN mission[m] = DOMAIN Idle
       /\ At(m, "store") => mission[m].answer \in BOOLEAN /\ mission[m].pending \subseteq Field

\* What is known of a provider that has not answered yet: nothing says it is healthy, a
\* check that has written the error leaves it written, and a cache is not young before the
\* error is written or about to be.
NeverOk(p) == ~ cache[p].ok

ChecksSayNo(p) == \A m \in Mission : Storing(m, p) => mission[m].answer = FALSE

ErrorWritten(p) ==
  \A m \in Mission : Storing(m, p) /\ "err" \notin mission[m].pending => cache[p].err

ErrorDue(p) ==
  cache[p].at => \/ cache[p].err
                 \/ \E m \in Mission : Storing(m, p) /\ "err" \in mission[m].pending

Unanswered(p) == NeverOk(p) /\ ChecksSayNo(p) /\ ErrorWritten(p) /\ ErrorDue(p)

CacheInv == Shape /\ \A p \in Remote : p \notin answered => Unanswered(p)

------------------------------------------------------------------------------
(* Missions go on to some other place than writing the cache.              *)

MissionShape(q) == DOMAIN q = DOMAIN Idle

Elsewhere(q) == MissionShape(q) /\ q.at # "store"

LEMMA FieldNames ==
  DOMAIN Idle = {"at", "ask", "pass", "todo", "p", "answer", "pending", "found", "chain",
                 "rank", "runtime", "left"}
BY DEF Idle

LEMMA EndedElsewhere ==
  ASSUME NEW q, NEW how, how # "store"
  PROVE  Elsewhere(Ended(q, how))
BY FieldNames DEF Elsewhere, MissionShape, Ended, Idle

LEMMA AttemptElsewhere ==
  ASSUME NEW q, MissionShape(q)
  PROVE  Elsewhere(Attempt(q)) /\ Elsewhere(CompleteViaRoutedProvider(q))
BY FieldNames DEF Elsewhere, MissionShape, Attempt, CompleteViaRoutedProvider

LEMMA FailOverElsewhere ==
  ASSUME NEW q, MissionShape(q)
  PROVE  Elsewhere(FailOver(q))
<1>1. CASE q.rank = Len(q.chain)
  BY <1>1, EndedElsewhere DEF FailOver
<1>2. CASE q.rank # Len(q.chain)
  <2>1. MissionShape([q EXCEPT !.rank = @ + 1])
    BY DEF MissionShape
  <2>2. QED
    BY <1>2, <2>1, AttemptElsewhere DEF FailOver
<1>3. QED
  BY <1>1, <1>2

LEMMA NextProviderElsewhere ==
  ASSUME NEW q, MissionShape(q)
  PROVE  Elsewhere(NextProvider(q))
BY FieldNames DEF Elsewhere, MissionShape, NextProvider

LEMMA RouteElsewhere ==
  ASSUME NEW q, MissionShape(q)
  PROVE  Elsewhere(Route(q))
<1> DEFINE chain == Chain(Options(q.ask), q.found)
           rt    == PickRuntime(Options(q.ask), Normalize(q.ask.required))
           next  == [Idle EXCEPT !.ask = q.ask, !.chain = chain, !.runtime = rt]
<1>1. MissionShape(next)
  BY DEF MissionShape
<1>2. Elsewhere(Attempt(next)) /\ Elsewhere(Ended(q, "unroutable"))
  BY <1>1, AttemptElsewhere, EndedElsewhere
<1>3. Route(q) \in {Attempt(next), Ended(q, "unroutable")}
  BY DEF Route
<1>4. QED
  BY <1>2, <1>3

LEMMA CollectElsewhere ==
  ASSUME NEW q, MissionShape(q)
  PROVE  Elsewhere(Collect(q))
<1>1. \A pass : MissionShape(Pass(q, pass))
  BY DEF MissionShape, Pass
<1>2. /\ Elsewhere(NextProvider(q)) /\ Elsewhere(Route(q))
      /\ Elsewhere(NextProvider(Pass(q, "all"))) /\ Elsewhere(NextProvider(Pass(q, "last")))
  BY <1>1, NextProviderElsewhere, RouteElsewhere
<1>3. Collect(q) \in {NextProvider(q), Route(q), NextProvider(Pass(q, "all")),
                      NextProvider(Pass(q, "last"))}
  BY DEF Collect
<1>4. QED
  BY <1>2, <1>3

\* An answer takes a mission out of the check (Told), whatever the answer is.
LEMMA ToldElsewhere ==
  ASSUME NEW q, MissionShape(q), NEW healthy
  PROVE  Elsewhere(Told(q, healthy))
<1>1. Elsewhere([q EXCEPT !.at = "describe"]) /\ Elsewhere([q EXCEPT !.at = "complete"])
  BY FieldNames DEF Elsewhere, MissionShape
<1>2. Elsewhere(Collect(q)) /\ Elsewhere(FailOver(q))
  BY CollectElsewhere, FailOverElsewhere
<1>3. Told(q, healthy) \in {[q EXCEPT !.at = "describe"], [q EXCEPT !.at = "complete"],
                            Collect(q), FailOver(q)}
  BY DEF Told
<1>4. QED
  BY <1>1, <1>2, <1>3

LEMMA CompletedElsewhere ==
  ASSUME NEW q, MissionShape(q)
  PROVE  Elsewhere(Completed(q))
<1>1. MissionShape([q EXCEPT !.left = 1])
  BY DEF MissionShape
<1>2. Elsewhere(Ended(q, "succeeded"))
      /\ Elsewhere(CompleteViaRoutedProvider([q EXCEPT !.left = 1]))
  BY <1>1, AttemptElsewhere, EndedElsewhere
<1>3. Completed(q) \in {Ended(q, "succeeded"),
                        CompleteViaRoutedProvider([q EXCEPT !.left = 1])}
  BY DEF Completed, StepsExecuted, EchoExecuted
<1>4. QED
  BY <1>2, <1>3

------------------------------------------------------------------------------
(* The steps.                                                              *)

LEMMA CacheInvInit == Init => CacheInv
BY DEF Init, CacheInv, Shape, Cell, Unanswered, NeverOk, ChecksSayNo, ErrorWritten, ErrorDue,
       Storing, At, Idle

\* The steps of a mission outside the check: it does not write the cache before nor after.
LEMMA OutsideCheck ==
  ASSUME CacheInv, NEW m \in Mission, NEW q, ~ At(m, "store"), Elsewhere(q), Become(m, q),
         UNCHANGED <<cache, answered>>
  PROVE  CacheInv'
<1>1. /\ DOMAIN mission' = Mission
      /\ mission'[m] = q
      /\ \A k \in Mission : k # m => mission'[k] = mission[k]
  BY DEF Become, CacheInv, Shape
<1>2. \A k \in Mission : At(k, "store")' <=> At(k, "store")
  BY <1>1 DEF At, Elsewhere
<1>3. Shape'
  BY <1>1, <1>2 DEF CacheInv, Shape, Elsewhere, MissionShape, At
<1>4. \A k \in Mission : \A p : /\ Storing(k, p)' <=> Storing(k, p)
                                /\ Storing(k, p) => mission'[k] = mission[k]
  BY <1>1, <1>2 DEF Storing
<1>5. ASSUME NEW p \in Remote, p \notin answered'
      PROVE  Unanswered(p)'
  <2>1. Unanswered(p)
    BY <1>5 DEF CacheInv
  <2>2. QED
    BY <1>4, <2>1 DEF Unanswered, NeverOk, ChecksSayNo, ErrorWritten, ErrorDue
<1>6. QED
  BY <1>3, <1>5 DEF CacheInv

LEMMA ProbeKeeps ==
  ASSUME CacheInv, NEW m \in Mission, Probe(m)
  PROVE  CacheInv'
<1>0. PICK answer \in BOOLEAN :
        /\ Become(m, [mission[m] EXCEPT !.at = "store", !.pending = Field, !.answer = answer])
        /\ answered' = IF answer THEN answered \cup {mission[m].p} ELSE answered
  BY DEF Probe
<1> DEFINE q == [mission[m] EXCEPT !.at = "store", !.pending = Field, !.answer = answer]
<1>1. /\ DOMAIN mission' = Mission
      /\ mission'[m] = q
      /\ \A k \in Mission : k # m => mission'[k] = mission[k]
      /\ cache' = cache
      /\ mission[m].at = "probe"
  BY <1>0 DEF Probe, Become, CacheInv, Shape, At
<1>2. DOMAIN mission[m] = DOMAIN Idle
  BY DEF CacheInv, Shape
<1>3. /\ DOMAIN q = DOMAIN Idle /\ q.at = "store" /\ q.pending = Field
      /\ q.p = mission[m].p
      /\ q.answer = answer
  BY <1>2, FieldNames
<1>4. q.answer \in BOOLEAN
  BY <1>3
<1> HIDE DEF q
<1>5. Shape'
  BY <1>1, <1>3, <1>4 DEF CacheInv, Shape, At
<1>6. ASSUME NEW p \in Remote, p \notin answered'
      PROVE  Unanswered(p)'
  <2>1. Unanswered(p) /\ (p = q.p => q.answer = FALSE)
    BY <1>0, <1>3, <1>6 DEF CacheInv
  <2>2. \A k \in Mission : k # m => (Storing(k, p)' <=> Storing(k, p))
    BY <1>1 DEF Storing, At
  <2>3. ~ Storing(m, p)
    BY <1>1 DEF Storing, At
  <2>4. ChecksSayNo(p)'
    <3> SUFFICES ASSUME NEW k \in Mission, Storing(k, p)' PROVE mission'[k].answer = FALSE
      BY DEF ChecksSayNo
    <3>1. CASE k = m
      BY <1>1, <1>3, <2>1, <3>1 DEF Storing
    <3>2. CASE k # m
      BY <1>1, <2>1, <2>2, <3>2 DEF Unanswered, ChecksSayNo
    <3>3. QED
      BY <3>1, <3>2
  <2>5. ErrorWritten(p)'
    <3> SUFFICES ASSUME NEW k \in Mission, Storing(k, p)', "err" \notin mission'[k].pending
                 PROVE  cache[p].err
      BY <1>1 DEF ErrorWritten
    <3>1. k # m
      BY <1>1, <1>3 DEF Field
    <3>2. QED
      BY <1>1, <2>1, <2>2, <3>1 DEF Unanswered, ErrorWritten
  <2>6. ErrorDue(p)'
    BY <1>1, <2>1, <2>2, <2>3 DEF Unanswered, ErrorDue
  <2>7. QED
    BY <1>1, <2>1, <2>4, <2>5, <2>6 DEF Unanswered, NeverOk
<1>7. QED
  BY <1>5, <1>6 DEF CacheInv

\* One of the three writes of a check, the last of which ends it.
LEMMA StoreKeeps ==
  ASSUME CacheInv, NEW m \in Mission, Store(m)
  PROVE  CacheInv'
<1> DEFINE q == mission[m]
<1>1. PICK f \in q.pending :
        /\ cache' = CacheHealth(q, f)
        /\ Become(m, LET rest == [q EXCEPT !.pending = @ \ {f}]
                     IN  IF rest.pending = {}
                           THEN [Told(rest, q.answer) EXCEPT !.answer = FALSE] ELSE rest)
  BY DEF Store
<1> DEFINE rest == [q EXCEPT !.pending = @ \ {f}]
           told == [Told(rest, q.answer) EXCEPT !.answer = FALSE]
           next == IF rest.pending = {} THEN told ELSE rest
<1>2. /\ DOMAIN q = DOMAIN Idle /\ q.at = "store" /\ q.answer \in BOOLEAN
      /\ q.pending \subseteq Field /\ answered' = answered
  BY DEF CacheInv, Shape, Store, At
<1>3. /\ DOMAIN rest = DOMAIN Idle /\ rest.pending = q.pending \ {f} /\ rest.at = "store"
      /\ rest.p = q.p /\ rest.answer = q.answer
  BY <1>2, FieldNames
<1>4. Elsewhere(told)
  <2>1. Elsewhere(Told(rest, q.answer))
    BY <1>3, ToldElsewhere DEF MissionShape
  <2> HIDE DEF rest
  <2>2. QED
    BY <2>1, FieldNames DEF Elsewhere, MissionShape
<1>5. /\ DOMAIN mission' = Mission
      /\ mission'[m] = next
      /\ \A k \in Mission : k # m => mission'[k] = mission[k]
  BY <1>1 DEF Become, CacheInv, Shape
<1>6. \/ next = told /\ q.pending = {f} /\ Elsewhere(next)
      \/ next = rest /\ q.pending # {f}
  BY <1>1, <1>3, <1>4
<1>7. f \in Field /\ cache \in [Remote -> Cell]
  BY <1>1, <1>2 DEF CacheInv, Shape
<1>8. /\ f = "ok" => cache' = [cache EXCEPT ![q.p].ok = q.answer]
      /\ f = "err" => cache' = [cache EXCEPT ![q.p].err = ~ q.answer]
      /\ f = "at" => cache' = [cache EXCEPT ![q.p].at = TRUE]
  BY <1>1 DEF CacheHealth
<1>9. cache' \in [Remote -> Cell]
  <2>1. CASE f = "ok"
    <3>1. q.p \in Remote => [cache[q.p] EXCEPT !.ok = q.answer] \in Cell
      BY <1>2, <1>7 DEF Cell
    <3>2. QED
      BY <1>7, <1>8, <2>1, <3>1
  <2>2. CASE f = "err"
    <3>1. q.p \in Remote => [cache[q.p] EXCEPT !.err = ~ q.answer] \in Cell
      BY <1>2, <1>7 DEF Cell
    <3>2. QED
      BY <1>7, <1>8, <2>2, <3>1
  <2>3. CASE f = "at"
    <3>1. q.p \in Remote => [cache[q.p] EXCEPT !.at = TRUE] \in Cell
      BY <1>7 DEF Cell
    <3>2. QED
      BY <1>7, <1>8, <2>3, <3>1
  <2>4. QED
    BY <1>7, <2>1, <2>2, <2>3 DEF Field
<1> HIDE DEF rest, told, next
<1>10. Shape'
  <2>1. next.at = "store" => next.answer \in BOOLEAN /\ next.pending \subseteq Field
    BY <1>2, <1>3, <1>6 DEF Elsewhere
  <2>2. DOMAIN next = DOMAIN Idle
    BY <1>3, <1>6 DEF Elsewhere, MissionShape
  <2>3. QED
    BY <1>5, <1>9, <2>1, <2>2 DEF CacheInv, Shape, At
<1>11. ASSUME NEW p \in Remote, p \notin answered'
       PROVE  Unanswered(p)'
  <2>1. Unanswered(p)
    BY <1>2, <1>11 DEF CacheInv
  <2>2. \A k \in Mission : k # m => (Storing(k, p)' <=> Storing(k, p))
    BY <1>5 DEF Storing, At
  <2>3. p # q.p => cache'[p] = cache[p] /\ ~ Storing(m, p) /\ ~ Storing(m, p)'
    <3>1. ASSUME p # q.p PROVE cache'[p] = cache[p]
      BY <1>7, <1>8, <3>1 DEF Field
    <3>2. p # q.p => ~ Storing(m, p) /\ ~ Storing(m, p)'
      BY <1>3, <1>5, <1>6 DEF Storing, At, Elsewhere
    <3>3. QED
      BY <3>1, <3>2
  <2>4. p = q.p => q.answer = FALSE /\ Storing(m, p)
    BY <1>2, <2>1 DEF Unanswered, ChecksSayNo, Storing, At
  <2>5. p = q.p => /\ f = "ok" => /\ ~ cache'[p].ok
                                  /\ cache'[p].err = cache[p].err /\ cache'[p].at = cache[p].at
                   /\ f = "err" => cache'[p].err /\ cache'[p].ok = cache[p].ok
                   /\ f = "at" => cache'[p].err = cache[p].err /\ cache'[p].ok = cache[p].ok
    <3> SUFFICES ASSUME p = q.p
                 PROVE  /\ f = "ok" => /\ ~ cache'[p].ok /\ cache'[p].err = cache[p].err
                                       /\ cache'[p].at = cache[p].at
                        /\ f = "err" => cache'[p].err /\ cache'[p].ok = cache[p].ok
                        /\ f = "at" => cache'[p].err = cache[p].err /\ cache'[p].ok = cache[p].ok
      OBVIOUS
    <3>1. cache[p] \in Cell
      BY <1>7
    <3>2. /\ f = "ok" => cache'[p] = [cache[p] EXCEPT !.ok = q.answer]
          /\ f = "err" => cache'[p] = [cache[p] EXCEPT !.err = ~ q.answer]
          /\ f = "at" => cache'[p] = [cache[p] EXCEPT !.at = TRUE]
      BY <1>7, <1>8
    <3>3. q.answer = FALSE
      BY <2>4
    <3> HIDE DEF q
    <3>4. QED
      BY <3>1, <3>2, <3>3 DEF Cell
  <2>6. NeverOk(p)'
    BY <1>7, <2>1, <2>3, <2>5 DEF Unanswered, NeverOk, Field
  <2>7. cache[p].err => cache'[p].err
    BY <1>7, <2>3, <2>5 DEF Field
  <2>8. ChecksSayNo(p)'
    <3>1. Storing(m, p)' => mission'[m].answer = FALSE
      BY <1>3, <1>5, <1>6, <2>3, <2>4 DEF Storing, At, Elsewhere
    <3>2. QED
      BY <1>5, <2>1, <2>2, <3>1 DEF Unanswered, ChecksSayNo
  <2>9. Storing(m, p) /\ "err" \notin q.pending \ {f} => cache'[p].err
    <3>1. CASE f = "err"
      BY <2>3, <2>5, <3>1
    <3>2. CASE f # "err"
      BY <2>1, <2>7, <3>2 DEF Unanswered, ErrorWritten
    <3>3. QED
      BY <3>1, <3>2
  <2>10. ErrorWritten(p)'
    <3>1. Storing(m, p)' /\ "err" \notin mission'[m].pending => cache'[p].err
      BY <1>3, <1>5, <1>6, <2>3, <2>4, <2>9 DEF Storing, At, Elsewhere
    <3>2. QED
      BY <1>5, <2>1, <2>2, <2>7, <3>1 DEF Unanswered, ErrorWritten
  <2>11. ErrorDue(p)'
    <3>1. CASE p = q.p
      <4>1. CASE "err" \in q.pending \ {f}
        <5>1. Storing(m, p)' /\ "err" \in mission'[m].pending
          BY <1>3, <1>5, <1>6, <3>1, <4>1 DEF Storing, At
        <5>2. QED
          BY <5>1 DEF ErrorDue
      <4>2. CASE "err" \notin q.pending \ {f}
        BY <2>4, <2>9, <3>1, <4>2 DEF ErrorDue
      <4>3. QED
        BY <4>1, <4>2
    <3>2. CASE p # q.p
      BY <1>5, <2>1, <2>2, <2>3, <3>2 DEF Unanswered, ErrorDue
    <3>3. QED
      BY <3>1, <3>2
  <2>12. QED
    BY <2>6, <2>8, <2>10, <2>11 DEF Unanswered
<1>12. QED
  BY <1>10, <1>11 DEF CacheInv

------------------------------------------------------------------------------
(* What a mission does outside the check.                                  *)

LEMMA OutsideSteps ==
  ASSUME CacheInv, NEW m \in Mission,
         \/ Submit(m) \/ Discover(m) \/ EchoHealth(m) \/ Cached(m)
         \/ EchoComplete(m) \/ Complete(m) \/ Return(m) \/ LookUp(m)
  PROVE  CacheInv'
<1> DEFINE q == mission[m]
<1>1. MissionShape(q)
  BY DEF CacheInv, Shape, MissionShape
<1>2. UNCHANGED <<cache, answered>> /\ ~ At(m, "store")
  BY DEF Submit, Discover, EchoHealth, Cached, EchoComplete, Complete, Return, LookUp, At
<1>3. SUFFICES \E next : Elsewhere(next) /\ Become(m, next)
  BY <1>2, OutsideCheck
<1>4. CASE Submit(m)
  <2>1. PICK ask \in Ask[m] :
          Become(m, LET a == [Idle EXCEPT !.ask = ask]
                    IN  IF Normalize(ask.required) = {} THEN Ended(a, "refused")
                        ELSE IF Admitted(a) = {} THEN Ended(a, "unroutable")
                        ELSE NextProvider(Pass(a, IF Options(ask).preferLocal
                                                    THEN "local" ELSE "last")))
    BY <1>4 DEF Submit
  <2> DEFINE a == [Idle EXCEPT !.ask = ask]
             first == Pass(a, IF Options(ask).preferLocal THEN "local" ELSE "last")
  <2>2. MissionShape(first)
    BY DEF MissionShape, Pass
  <2>3. Elsewhere(Ended(a, "refused")) /\ Elsewhere(Ended(a, "unroutable"))
        /\ Elsewhere(NextProvider(first))
    BY <2>2, EndedElsewhere, NextProviderElsewhere
  <2>4. \/ Become(m, Ended(a, "refused")) \/ Become(m, Ended(a, "unroutable"))
        \/ Become(m, NextProvider(first))
    BY <2>1
  <2>5. QED
    BY <2>3, <2>4
<1>5. CASE Discover(m)
  <2>1. \A found : MissionShape([q EXCEPT !.found = found])
    BY <1>1 DEF MissionShape
  <2>2. PICK next : Become(m, Collect(next)) /\ MissionShape(next)
    BY <1>1, <1>5, <2>1 DEF Discover
  <2>3. QED
    BY <2>2, CollectElsewhere
<1>6. CASE EchoHealth(m) \/ Cached(m)
  <2>1. PICK healthy : Become(m, Told(q, healthy))
    BY <1>6 DEF EchoHealth, Cached
  <2>2. QED
    BY <1>1, <2>1, ToldElsewhere
<1>7. CASE EchoComplete(m) \/ Complete(m)
  <2>1. Become(m, Completed(q)) \/ Become(m, FailOver(q))
    BY <1>7 DEF EchoComplete, Complete
  <2>2. QED
    BY <1>1, <2>1, CompletedElsewhere, FailOverElsewhere
<1>8. CASE Return(m)
  <2>1. Become(m, Idle) /\ Elsewhere(Idle)
    BY <1>8 DEF Return, Elsewhere, MissionShape, Idle
  <2>2. QED
    BY <2>1
<1>9. CASE LookUp(m)
  <2>1. PICK place \in {"cached", "probe"} : Become(m, [q EXCEPT !.at = place])
    BY <1>9 DEF LookUp
  <2>2. Elsewhere([q EXCEPT !.at = place])
    BY <1>1, FieldNames DEF Elsewhere, MissionShape
  <2>3. QED
    BY <2>1, <2>2
<1>10. QED
  BY <1>4, <1>5, <1>6, <1>7, <1>8, <1>9

LEMMA AgeKeeps ==
  ASSUME CacheInv, NEW o \in Remote, Age(o)
  PROVE  CacheInv'
<1>1. cache' = [cache EXCEPT ![o].at = FALSE] /\ mission' = mission /\ answered' = answered
      /\ cache \in [Remote -> Cell]
  BY DEF Age, CacheInv, Shape
<1>2. cache'[o] = [cache[o] EXCEPT !.at = FALSE] /\ cache[o] \in Cell
      /\ \A p \in Remote : p # o => cache'[p] = cache[p]
  BY <1>1
<1>3. /\ cache'[o] \in Cell /\ ~ cache'[o].at
      /\ cache'[o].ok = cache[o].ok /\ cache'[o].err = cache[o].err
  BY <1>2 DEF Cell
<1>4. Shape'
  <2>1. cache' \in [Remote -> Cell]
    BY <1>1, <1>3
  <2>2. QED
    BY <1>1, <2>1 DEF CacheInv, Shape, At
<1>5. ASSUME NEW p \in Remote, p \notin answered'
      PROVE  Unanswered(p)'
  <2>1. Unanswered(p)
    BY <1>1, <1>5 DEF CacheInv
  <2>2. /\ cache'[p].ok = cache[p].ok /\ cache'[p].err = cache[p].err
        /\ cache'[p].at => cache[p].at
    BY <1>2, <1>3
  <2>3. \A k \in Mission : Storing(k, p)' <=> Storing(k, p)
    BY <1>1 DEF Storing, At
  <2>4. QED
    BY <1>1, <2>1, <2>2, <2>3 DEF Unanswered, NeverOk, ChecksSayNo, ErrorWritten, ErrorDue
<1>6. QED
  BY <1>4, <1>5 DEF CacheInv

LEMMA CacheInvNext == CacheInv /\ [Next]_vars => CacheInv'
<1> SUFFICES ASSUME CacheInv, [Next]_vars PROVE CacheInv'
  OBVIOUS
<1>1. CASE UNCHANGED <<cache, mission, answered>>
  BY <1>1 DEF CacheInv, Shape, Unanswered, NeverOk, ChecksSayNo, ErrorWritten, ErrorDue,
              Storing, At
<1>2. CASE \E p \in Remote : GoDown(p) \/ ComeUp(p)
  BY <1>1, <1>2 DEF GoDown, ComeUp
<1>3. CASE \E p \in Remote : Age(p)
  BY <1>3, AgeKeeps
<1>4. CASE \E m \in Mission : Step(m)
  BY <1>4, OutsideSteps, ProbeKeeps, StoreKeeps DEF Step
<1>5. CASE UNCHANGED vars
  BY <1>1, <1>5 DEF vars
<1>6. QED
  BY <1>2, <1>3, <1>4, <1>5 DEF Next

\* Once no check of a provider is writing, a young cache that says healthy is one of a
\* provider that has answered a check, whatever the number of checks whose writes were
\* mixed, and in whatever order they came (openaicompat/provider.go:68-103).
THEOREM HealthyComesFromAnswers == Spec => []HealthyHasAnswered
<1>1. CacheInv => HealthyHasAnswered
  BY DEF CacheInv, Unanswered, NeverOk, ErrorDue, HealthyHasAnswered, Settled, Storing
<1>2. QED
  BY <1>1, CacheInvInit, CacheInvNext, PTL DEF Spec

------------------------------------------------------------------------------
(* The order of the candidates.                                            *)

\* Every nonempty set of numbers has a least one.
LEMMA LeastExists ==
  ASSUME NEW S \in SUBSET Nat, S # {}
  PROVE  \E k \in S : \A j \in S : k <= j
<1>1. PICK k \in S : \A j \in S : ~ (<<j, k>> \in OpToRel(<, Nat))
  BY NatLessThanWellFounded, WFMin
<1>2. ASSUME NEW j \in S PROVE k <= j
  <2>1. ~ (j < k)
    BY <1>1 DEF OpToRel
  <2>2. QED
    BY <2>1
<1>3. QED
  BY <1>2

LEMMA LeastIsIn ==
  ASSUME NEW S \in SUBSET Nat, S # {}
  PROVE  Min(S) \in S
BY LeastExists DEF Min

LEMMA RankIsNumber == \A t : RankTier(t) \in Nat
<1> SUFFICES ASSUME NEW t PROVE RankTier(t) \in Nat
  OBVIOUS
<1>1. CASE t \in ToSet(Tiers)
  <2>1. \E i \in 1..Len(Tiers) : Tiers[i] = t
    BY <1>1 DEF ToSet, Tiers
  <2>2. Len(Tiers) = 5
    BY DEF Tiers
  <2>3. QED
    BY <1>1, <2>1, <2>2 DEF RankTier
<1>2. CASE t \notin ToSet(Tiers)
  BY <1>2 DEF RankTier
<1>3. QED
  BY <1>1, <1>2

\* The criteria are numbers, and the last of them tells candidates apart.
LEMMA CriteriaAreNumbers ==
  ASSUME NEW opts, NEW c, c.p \in Nat
  PROVE  /\ \A i \in 1..5 : Criteria(opts, c)[i] \in Nat
         /\ Criteria(opts, c)[5] = c.p
<1>1. RankTier(Descriptor[c.p].tier) \in Nat
  BY RankIsNumber
<1> DEFINE tier == RankTier(Descriptor[c.p].tier)
           model == IF opts.preferModel = None \/ opts.preferModel \in ToSet(c.models)
                      THEN 0 ELSE 1
<1>2. Criteria(opts, c) = << IF c.p = opts.requireProvider THEN 0 ELSE 1,
                             IF c.p = opts.preferProvider THEN 0 ELSE 1, model, tier, c.p >>
  BY DEF Criteria
<1>3. tier \in Nat /\ model \in Nat
  BY <1>1
<1> HIDE DEF tier, model
<1>4. QED
  BY <1>2, <1>3

LEMMA BeforeTotal ==
  ASSUME NEW opts, NEW a, NEW b, a.p \in Nat, b.p \in Nat, a.p # b.p
  PROVE  Before(opts, a, b) \/ Before(opts, b, a)
<1> DEFINE x == Criteria(opts, a)
           y == Criteria(opts, b)
           D == {i \in 1..5 : x[i] # y[i]}
<1>1. \A i \in 1..5 : x[i] \in Nat /\ y[i] \in Nat
  BY CriteriaAreNumbers
<1>2. 5 \in D
  BY CriteriaAreNumbers
<1>3. PICK i \in D : \A j \in D : i <= j
  BY <1>2, LeastExists
<1>4. \A j \in 1..(i - 1) : x[j] = y[j]
  BY <1>3
<1>5. x[i] < y[i] \/ y[i] < x[i]
  BY <1>1, <1>3
<1> HIDE DEF x, y
<1>6. \/ \E k \in 1..5 : x[k] < y[k] /\ \A j \in 1..(k - 1) : x[j] = y[j]
      \/ \E k \in 1..5 : y[k] < x[k] /\ \A j \in 1..(k - 1) : y[j] = x[j]
  BY <1>4, <1>5
<1>7. QED
  BY <1>6 DEF Before, x, y

LEMMA BeforeTransitive ==
  ASSUME NEW opts, NEW a, NEW b, NEW c, a.p \in Nat, b.p \in Nat, c.p \in Nat,
         Before(opts, a, b), Before(opts, b, c)
  PROVE  Before(opts, a, c)
<1> DEFINE x == Criteria(opts, a)
           y == Criteria(opts, b)
           z == Criteria(opts, c)
<1>1. \A i \in 1..5 : x[i] \in Nat /\ y[i] \in Nat /\ z[i] \in Nat
  BY CriteriaAreNumbers
<1>2. PICK i \in 1..5 : x[i] < y[i] /\ \A j \in 1..(i - 1) : x[j] = y[j]
  BY DEF Before
<1>3. PICK k \in 1..5 : y[k] < z[k] /\ \A j \in 1..(k - 1) : y[j] = z[j]
  BY DEF Before
<1> HIDE DEF x, y, z
<1>4. \E l \in 1..5 : x[l] < z[l] /\ \A j \in 1..(l - 1) : x[j] = z[j]
  <2>1. CASE i < k
    <3>1. y[i] = z[i] /\ \A j \in 1..(i - 1) : x[j] = z[j]
      BY <1>2, <1>3, <2>1
    <3>2. QED
      BY <1>2, <3>1
  <2>2. CASE i = k
    <3>1. x[i] < z[i] /\ \A j \in 1..(i - 1) : x[j] = z[j]
      BY <1>1, <1>2, <1>3, <2>2
    <3>2. QED
      BY <3>1
  <2>3. CASE k < i
    <3>1. x[k] = y[k] /\ \A j \in 1..(k - 1) : x[j] = z[j]
      BY <1>2, <1>3, <2>3
    <3>2. QED
      BY <1>3, <3>1
  <2>4. QED
    BY <2>1, <2>2, <2>3
<1>5. QED
  BY <1>4 DEF Before, x, z

LEMMA BeforeIrreflexive ==
  ASSUME NEW opts, NEW a, a.p \in Nat
  PROVE  ~ Before(opts, a, a)
<1> DEFINE x == Criteria(opts, a)
<1>1. \A i \in 1..5 : x[i] \in Nat
  BY CriteriaAreNumbers
<1> HIDE DEF x
<1>2. ~ \E i \in 1..5 : x[i] < x[i]
  BY <1>1
<1>3. QED
  BY <1>2 DEF Before, x

\* Candidates of different providers can be put in order: the place of each is how many
\* come before it.
LEMMA RankedInOrder ==
  ASSUME NEW opts, NEW S, IsFiniteSet(S),
         \A c \in S : c.p \in Nat,
         \A c, d \in S : c.p = d.p => c = d
  PROVE  /\ Ranked(opts, S) \in [1..Cardinality(S) -> S]
         /\ \A i, j \in DOMAIN Ranked(opts, S) :
              i < j => Before(opts, Ranked(opts, S)[i], Ranked(opts, S)[j])
<1> DEFINE n == Cardinality(S)
           first(c) == {d \in S : Before(opts, d, c)}
           size(c) == Cardinality(first(c))
           place == [c \in S |-> size(c) + 1]
<1>1. n \in Nat
  BY FS_CardinalityType
<1>2. ASSUME NEW c \in S
      PROVE  /\ IsFiniteSet(first(c)) /\ Cardinality(first(c)) \in Nat
             /\ Cardinality(first(c)) < n
  <2>1. IsFiniteSet(first(c)) /\ Cardinality(first(c)) <= n
        /\ (n = Cardinality(first(c)) => S = first(c))
    BY FS_Subset
  <2>2. c \notin first(c)
    BY BeforeIrreflexive
  <2>3. Cardinality(first(c)) \in Nat
    BY <2>1, FS_CardinalityType
  <2>4. QED
    BY <1>1, <2>1, <2>2, <2>3
<1>3. ASSUME NEW c \in S, NEW d \in S, Before(opts, c, d)
      PROVE  place[c] < place[d]
  <2>1. \A e \in first(c) : e \in first(d)
    BY <1>3, BeforeTransitive
  <2>2. c \in first(d) /\ c \notin first(c)
    BY <1>3, BeforeIrreflexive
  <2>3. first(c) \in SUBSET first(d) /\ first(c) # first(d)
    BY <2>1, <2>2
  <2>4. Cardinality(first(c)) <= Cardinality(first(d))
        /\ Cardinality(first(d)) # Cardinality(first(c))
    BY <1>2, <2>3, FS_Subset
  <2>5. size(c) \in Nat /\ size(d) \in Nat
    BY <1>2
  <2>6. size(c) <= size(d) /\ size(d) # size(c)
    BY <2>4
  <2> HIDE DEF size
  <2>7. QED
    BY <2>5, <2>6
<1>4. place \in [S -> 1..n]
  <2>1. \A c \in S : size(c) \in Nat /\ size(c) < n
    BY <1>2
  <2> HIDE DEF size, n
  <2>2. \A c \in S : size(c) + 1 \in 1..n
    BY <1>1, <2>1
  <2>3. QED
    BY <2>2
<1>5. ASSUME NEW c \in S, NEW d \in S, c # d
      PROVE  place[c] # place[d]
  <2>1. Before(opts, c, d) \/ Before(opts, d, c)
    BY <1>5, BeforeTotal
  <2>2. place[c] \in Nat /\ place[d] \in Nat
    BY <1>4
  <2> HIDE DEF place, n
  <2>3. place[c] < place[d] \/ place[d] < place[c]
    BY <1>3, <2>1
  <2>4. QED
    BY <2>2, <2>3
<1> HIDE DEF place
<1>6. \A i \in 1..n : \E c \in S : place[c] = i
  <2>1. place \in Injection(S, 1..n)
    BY <1>4, <1>5 DEF Injection, IsInjective
  <2>2. IsFiniteSet(1..n) /\ Cardinality(1..n) = n
    BY <1>1, FS_Interval
  <2>3. place \in Surjection(S, 1..n)
    BY <2>1, <2>2, FS_Injection
  <2>4. QED
    BY <2>3 DEF Surjection
<1> DEFINE s == [i \in 1..n |-> CHOOSE c \in S : place[c] = i]
<1>7. s \in [1..n -> S] /\ \A i \in 1..n : place[s[i]] = i
  BY <1>6
<1>8. \A i, j \in DOMAIN s : i < j => Before(opts, s[i], s[j])
  <2> SUFFICES ASSUME NEW i \in 1..n, NEW j \in 1..n, i < j
               PROVE  Before(opts, s[i], s[j])
    OBVIOUS
  <2> HIDE DEF s
  <2>1. s[i] # s[j] /\ ~ Before(opts, s[j], s[i])
    BY <1>3, <1>7
  <2>2. QED
    BY <1>7, <2>1, BeforeTotal
<1> HIDE DEF s
<1>9. \E t \in [1..n -> S] : \A i, j \in DOMAIN t : i < j => Before(opts, t[i], t[j])
  BY <1>7, <1>8
<1>10. QED
  BY <1>9 DEF Ranked

\* The order has each candidate at one place.
LEMMA RankedHoldsAll ==
  ASSUME NEW opts, NEW S, IsFiniteSet(S),
         \A c \in S : c.p \in Nat,
         \A c, d \in S : c.p = d.p => c = d
  PROVE  /\ Cardinality(S) \in Nat
         /\ \A c \in S : \E i \in 1..Cardinality(S) : Ranked(opts, S)[i] = c
         /\ \A i, j \in 1..Cardinality(S) :
              Ranked(opts, S)[i] = Ranked(opts, S)[j] => i = j
<1> DEFINE ranked == Ranked(opts, S)
           n == Cardinality(S)
<1>1. /\ ranked \in [1..n -> S]
      /\ \A i, j \in 1..n : i < j => Before(opts, ranked[i], ranked[j])
  BY RankedInOrder
<1>2. n \in Nat
  BY FS_CardinalityType
<1>3. IsFiniteSet(1..n) /\ Cardinality(1..n) = n
  BY <1>2, FS_Interval
<1> HIDE DEF ranked
<1>4. ASSUME NEW i \in 1..n, NEW j \in 1..n, i < j PROVE ranked[i] # ranked[j]
  <2>1. Before(opts, ranked[i], ranked[j]) /\ ranked[i] \in S
    BY <1>1, <1>4
  <2>2. QED
    BY <2>1, BeforeIrreflexive
<1>5. \A i, j \in 1..n : ranked[i] = ranked[j] => i = j
  <2>1. \A i, j \in 1..n : i = j \/ i < j \/ j < i
    BY <1>2
  <2>2. QED
    BY <1>4, <2>1
<1>6. ranked \in Surjection(1..n, S)
  <2>1. ranked \in Injection(1..n, S)
    BY <1>1, <1>5 DEF Injection, IsInjective
  <2>2. QED
    BY <1>3, <2>1, FS_Injection
<1>7. \A c \in S : \E i \in 1..n : ranked[i] = c
  BY <1>6 DEF Surjection
<1>8. QED
  BY <1>2, <1>5, <1>7 DEF ranked

------------------------------------------------------------------------------
(* Whom a mission may be served by.                                        *)

\* A provider that the request admits and that has what it asks for.
May(ask, p) ==
  Admits(Options(ask), p) /\ Compatible(Descriptor[p].capabilities, Normalize(ask.required))

\* While a mission collects, it has found such providers only, each of them once.
Collecting(q) ==
  /\ q.chain = <<>>
  /\ q.p \in Admitted(q)
  /\ q.todo \subseteq Admitted(q)
  /\ IsFiniteSet(q.found)
  /\ \A c \in q.found : c.p \in Provider /\ May(q.ask, c.p)
  /\ \A c, d \in q.found : c.p = d.p => c = d

\* While it executes, its chain has such providers only, and it is with the one it has come to.
Executing(q) ==
  /\ q.chain # <<>>
  /\ q.rank \in 1..Len(q.chain)
  /\ Len(q.chain) \in Nat
  /\ \A i \in 1..Len(q.chain) : May(q.ask, q.chain[i].p)
  /\ q.p = Serving(q)

Fit(q) ==
  /\ MissionShape(q)
  /\ q.at \in {"health", "cached", "probe", "store"} => Collecting(q) \/ Executing(q)
  /\ q.at = "describe" => Collecting(q)
  /\ q.at = "complete" => Executing(q)
  /\ q.at = "succeeded" => May(q.ask, q.p)

RoutedInv == DOMAIN mission = Mission /\ \A m \in Mission : Fit(mission[m])

\* What a chain is made of: the providers that were found.
LEMMA ChainOfFound ==
  ASSUME NEW opts, NEW found, IsFiniteSet(found),
         \A c \in found : c.p \in Nat,
         \A c, d \in found : c.p = d.p => c = d
  PROVE  /\ Len(Chain(opts, found)) \in Nat
         /\ Chain(opts, found) # <<>> => Len(Chain(opts, found)) >= 1
         /\ \A i \in 1..Len(Chain(opts, found)) :
              \E c \in found : Chain(opts, found)[i].p = c.p
<1> DEFINE kept == IF opts.failover \/ opts.requireProvider = None
                     THEN found ELSE {c \in found : c.p = opts.requireProvider}
           ranked == Ranked(opts, kept)
           entry(c) == [p |-> c.p, model |-> PickModel(c.models, opts.preferModel)]
           all == [i \in DOMAIN ranked |-> entry(ranked[i])]
           n == Cardinality(kept)
<1>1. kept \in SUBSET found
  OBVIOUS
<1>2. IsFiniteSet(kept)
  BY <1>1, FS_Subset
<1>3. ranked \in [1..n -> kept]
  <2>1. /\ \A c \in kept : c.p \in Nat
        /\ \A c, d \in kept : c.p = d.p => c = d
    BY <1>1
  <2> HIDE DEF kept
  <2>2. QED
    BY <1>2, <2>1, RankedInOrder
<1>4. n \in Nat
  BY <1>2, FS_CardinalityType
<1>5. Chain(opts, found) = IF opts.failover \/ all = <<>> THEN all ELSE <<all[1]>>
  BY DEF Chain
<1> HIDE DEF n, kept, ranked
<1>6. all \in [1..n -> {entry(c) : c \in found}]
  BY <1>1, <1>3
<1>7. /\ all \in Seq({entry(c) : c \in found}) /\ Len(all) = n
  BY <1>4, <1>6
<1>8. \A i \in 1..n : \E c \in found : all[i].p = c.p
  BY <1>1, <1>3
<1>9. all # <<>> => n >= 1
  <2>1. n = 0 => all = <<>>
    BY <1>7
  <2>2. QED
    BY <1>4, <2>1
<1> DEFINE single == <<all[1]>>
<1>10. Len(single) = 1 /\ single[1] = all[1] /\ single # <<>>
  OBVIOUS
<1> HIDE DEF all, single
<1>11. Chain(opts, found) = all \/ (Chain(opts, found) = single /\ all # <<>>)
  BY <1>5 DEF single
<1>12. CASE Chain(opts, found) = all
  BY <1>4, <1>7, <1>8, <1>9, <1>12
<1>13. CASE Chain(opts, found) = single /\ all # <<>>
  <2>1. \E c \in found : single[1].p = c.p
    BY <1>4, <1>8, <1>9, <1>10, <1>13
  <2>2. ASSUME NEW i \in 1..Len(single)
        PROVE  \E c \in found : single[i].p = c.p
    <3>1. i = 1
      BY <1>10
    <3>2. QED
      BY <2>1, <3>1
  <2>3. Len(single) \in Nat /\ Len(single) >= 1
    BY <1>10
  <2>4. QED
    BY <1>13, <2>2, <2>3, Zenon
<1>14. QED
  BY <1>11, <1>12, <1>13

LEMMA EndedFits ==
  ASSUME NEW q, NEW how \in {"refused", "unroutable", "exhausted"}
  PROVE  Fit(Ended(q, how))
BY FieldNames DEF Fit, MissionShape, Ended, Idle

\* A mission with a chain goes to the candidate at its rank.
LEMMA AttemptFits ==
  ASSUME NEW q, MissionShape(q), q.chain # <<>>, Len(q.chain) \in Nat,
         q.rank \in 1..Len(q.chain),
         \A i \in 1..Len(q.chain) : May(q.ask, q.chain[i].p)
  PROVE  Fit(Attempt(q)) /\ Fit(CompleteViaRoutedProvider(q))
<1> DEFINE l == IF q.runtime \in Steps THEN 2 ELSE 1
           r == [q EXCEPT !.left = l]
<1>1. ASSUME NEW s, MissionShape(s), s.chain = q.chain, s.rank = q.rank, s.ask = q.ask
      PROVE  Fit(CompleteViaRoutedProvider(s))
  <2> DEFINE t == CompleteViaRoutedProvider(s)
  <2>1. /\ MissionShape(t) /\ t.chain = q.chain /\ t.rank = q.rank /\ t.ask = q.ask
        /\ t.at = "health" /\ t.p = q.chain[q.rank].p
    BY <1>1, FieldNames DEF CompleteViaRoutedProvider, MissionShape, Serving
  <2> HIDE DEF t
  <2>2. Executing(t)
    BY <2>1 DEF Executing, Serving
  <2>3. Fit(t)
    BY <2>1, <2>2 DEF Fit
  <2>4. QED
    BY <2>3 DEF t
<1>2. MissionShape(r) /\ r.chain = q.chain /\ r.rank = q.rank /\ r.ask = q.ask
  BY FieldNames DEF MissionShape
<1>3. Attempt(q) = CompleteViaRoutedProvider(r)
  BY DEF Attempt
<1> HIDE DEF r
<1>4. QED
  BY <1>1, <1>2, <1>3

LEMMA FailOverFits ==
  ASSUME NEW q, MissionShape(q), Executing(q)
  PROVE  Fit(FailOver(q))
<1>1. CASE q.rank = Len(q.chain)
  BY <1>1, EndedFits DEF FailOver
<1>2. CASE q.rank # Len(q.chain)
  <2> DEFINE r == [q EXCEPT !.rank = q.rank + 1]
  <2>1. /\ MissionShape(r) /\ r.chain = q.chain /\ r.rank = q.rank + 1 /\ r.ask = q.ask
    BY FieldNames DEF MissionShape
  <2> DEFINE n == Len(q.chain)
             k == q.rank
  <2>2. k + 1 \in 1..n
    <3>1. n \in Nat /\ k \in 1..n /\ k # n
      BY <1>2 DEF Executing
    <3> HIDE DEF n, k
    <3>2. QED
      BY <3>1
  <2>3. FailOver(q) = Attempt(r)
    BY <1>2 DEF FailOver
  <2> HIDE DEF r
  <2>4. QED
    BY <2>1, <2>2, <2>3, AttemptFits DEF Executing
<1>3. QED
  BY <1>1, <1>2

LEMMA NextProviderFits ==
  ASSUME NEW q, MissionShape(q), Collecting(q), q.todo # {}
  PROVE  Fit(NextProvider(q))
<1> DEFINE t == NextProvider(q)
<1>1. q.todo \in SUBSET Nat
  BY IdAssumption DEF Collecting, Admitted
<1>2. Min(q.todo) \in q.todo
  BY <1>1, LeastIsIn
<1>3. /\ MissionShape(t) /\ t.chain = q.chain /\ t.found = q.found /\ t.ask = q.ask
      /\ t.at = "health" /\ t.p = Min(q.todo) /\ t.todo = q.todo \ {Min(q.todo)}
  BY FieldNames DEF NextProvider, MissionShape
<1>4. Admitted(t) = Admitted(q)
  BY <1>3 DEF Admitted
<1> HIDE DEF t
<1>5. Collecting(t)
  BY <1>2, <1>3, <1>4 DEF Collecting
<1>6. Fit(t)
  BY <1>3, <1>5 DEF Fit
<1>7. QED
  BY <1>6 DEF t

LEMMA RouteFits ==
  ASSUME NEW q, MissionShape(q), Collecting(q)
  PROVE  Fit(Route(q))
<1> DEFINE chain == Chain(Options(q.ask), q.found)
           rt    == PickRuntime(Options(q.ask), Normalize(q.ask.required))
           next  == [Idle EXCEPT !.ask = q.ask, !.chain = chain, !.runtime = rt]
<1>1. /\ Len(chain) \in Nat /\ (chain # <<>> => Len(chain) >= 1)
      /\ \A i \in 1..Len(chain) : \E c \in q.found : chain[i].p = c.p
  <2>1. \A c \in q.found : c.p \in Nat
    BY IdAssumption DEF Collecting
  <2>2. QED
    BY <2>1, ChainOfFound DEF Collecting
<1> HIDE DEF chain, rt
<1>2. /\ MissionShape(next) /\ next.chain = chain /\ next.rank = 1 /\ next.ask = q.ask
  BY FieldNames DEF MissionShape, Idle
<1> HIDE DEF next
<1>3. \A i \in 1..Len(chain) : May(q.ask, chain[i].p)
  BY <1>1 DEF Collecting
<1>4. chain # <<>> => Fit(Attempt(next))
  BY <1>1, <1>2, <1>3, AttemptFits
<1>5. Fit(Ended(q, "unroutable"))
  BY EndedFits
<1>6. Route(q) = Ended(q, "unroutable") \/ (chain # <<>> /\ Route(q) = Attempt(next))
  BY DEF Route, chain, rt, next
<1>7. QED
  BY <1>4, <1>5, <1>6

LEMMA PassCollects ==
  ASSUME NEW q, MissionShape(q), Collecting(q), NEW pass
  PROVE  /\ MissionShape(Pass(q, pass)) /\ Collecting(Pass(q, pass))
         /\ Pass(q, pass).todo # {}
<1> DEFINE t == Pass(q, pass)
<1>1. /\ MissionShape(t) /\ t.chain = q.chain /\ t.found = q.found /\ t.ask = q.ask
      /\ t.p = q.p /\ t.todo = Admitted(q)
  BY FieldNames DEF Pass, MissionShape
<1>2. Admitted(t) = Admitted(q)
  BY <1>1 DEF Admitted
<1> HIDE DEF t
<1>3. Collecting(t) /\ t.todo # {}
  BY <1>1, <1>2 DEF Collecting
<1>4. QED
  BY <1>1, <1>3 DEF t

LEMMA CollectFits ==
  ASSUME NEW q, MissionShape(q), Collecting(q)
  PROVE  Fit(Collect(q))
<1>1. Fit(NextProvider(Pass(q, "all"))) /\ Fit(NextProvider(Pass(q, "last")))
  BY PassCollects, NextProviderFits
<1>2. q.todo # {} => Fit(NextProvider(q))
  BY NextProviderFits
<1>3. Fit(Route(q))
  BY RouteFits
<1>4. \/ q.todo # {} /\ Collect(q) = NextProvider(q)
      \/ Collect(q) \in {NextProvider(Pass(q, "all")), NextProvider(Pass(q, "last")), Route(q)}
  BY DEF Collect
<1>5. QED
  BY <1>1, <1>2, <1>3, <1>4

\* A step that leaves a mission the fields of its routing leaves it collecting or executing.
LEMMA SameRouting ==
  ASSUME NEW q, NEW t, t.chain = q.chain, t.p = q.p, t.todo = q.todo, t.found = q.found,
         t.ask = q.ask, t.rank = q.rank
  PROVE  /\ Collecting(q) => Collecting(t)
         /\ Executing(q) => Executing(t)
<1>1. Admitted(t) = Admitted(q)
  BY DEF Admitted
<1>2. QED
  BY <1>1 DEF Collecting, Executing, Serving

LEMMA ToldFits ==
  ASSUME NEW q, MissionShape(q), Collecting(q) \/ Executing(q), NEW healthy
  PROVE  Fit(Told(q, healthy))
<1>1. q.chain = <<>> <=> Collecting(q)
  BY DEF Collecting, Executing
<1>2. ASSUME NEW place \in {"describe", "complete"},
             place = "describe" => Collecting(q), place = "complete" => Executing(q)
      PROVE  Fit([q EXCEPT !.at = place])
  <2> DEFINE t == [q EXCEPT !.at = place]
  <2>1. /\ MissionShape(t) /\ t.at = place /\ t.chain = q.chain /\ t.p = q.p
        /\ t.todo = q.todo /\ t.found = q.found /\ t.ask = q.ask /\ t.rank = q.rank
    BY FieldNames DEF MissionShape
  <2> HIDE DEF t
  <2>2. (Collecting(q) => Collecting(t)) /\ (Executing(q) => Executing(t))
    BY <2>1, SameRouting
  <2>3. Fit(t)
    BY <1>2, <2>1, <2>2 DEF Fit
  <2>4. QED
    BY <2>3 DEF t
<1>3. CASE Collecting(q)
  <2>1. Fit(Collect(q)) /\ Fit([q EXCEPT !.at = "describe"])
    BY <1>2, <1>3, CollectFits
  <2>2. QED
    BY <1>1, <1>3, <2>1 DEF Told
<1>4. CASE ~ Collecting(q)
  <2>1. Fit(FailOver(q)) /\ Fit([q EXCEPT !.at = "complete"])
    BY <1>2, <1>4, FailOverFits
  <2>2. QED
    BY <1>1, <1>4, <2>1 DEF Told
<1>5. QED
  BY <1>3, <1>4

LEMMA CompletedFits ==
  ASSUME NEW q, MissionShape(q), Executing(q)
  PROVE  Fit(Completed(q))
<1> DEFINE r == [q EXCEPT !.left = 1]
<1>1. Fit(CompleteViaRoutedProvider(r))
  <2>1. MissionShape(r) /\ r.chain = q.chain /\ r.rank = q.rank /\ r.ask = q.ask
    BY FieldNames DEF MissionShape
  <2> HIDE DEF r
  <2>2. QED
    BY <2>1, AttemptFits DEF Executing
<1>2. Fit(Ended(q, "succeeded"))
  <2> DEFINE t == Ended(q, "succeeded")
  <2>1. MissionShape(t) /\ t.at = "succeeded" /\ t.ask = q.ask /\ t.p = q.p
    BY FieldNames DEF MissionShape, Ended, Idle
  <2> HIDE DEF t
  <2>2. Fit(t)
    BY <2>1 DEF Fit, Executing, Serving
  <2>3. QED
    BY <2>2 DEF t
<1>3. Completed(q) \in {Ended(q, "succeeded"), CompleteViaRoutedProvider(r)}
  BY DEF Completed, StepsExecuted, EchoExecuted
<1>4. QED
  BY <1>1, <1>2, <1>3

\* A mission that has been given providers to ask begins with one of them.
LEMMA FirstFits ==
  ASSUME NEW q, MissionShape(q), q.chain = <<>>, q.found = {}, q.todo = Admitted(q),
         q.todo # {}
  PROVE  Fit(NextProvider(q))
<1> DEFINE t == NextProvider(q)
<1>1. q.todo \in SUBSET Nat
  BY IdAssumption DEF Admitted
<1>2. Min(q.todo) \in q.todo
  BY <1>1, LeastIsIn
<1>3. /\ MissionShape(t) /\ t.chain = q.chain /\ t.found = q.found /\ t.ask = q.ask
      /\ t.at = "health" /\ t.p = Min(q.todo) /\ t.todo = q.todo \ {Min(q.todo)}
  BY FieldNames DEF NextProvider, MissionShape
<1>4. Admitted(t) = Admitted(q)
  BY <1>3 DEF Admitted
<1> HIDE DEF t
<1>5. Collecting(t)
  BY <1>2, <1>3, <1>4, FS_EmptySet DEF Collecting
<1>6. Fit(t)
  BY <1>3, <1>5 DEF Fit
<1>7. QED
  BY <1>6 DEF t

------------------------------------------------------------------------------
(* The steps of the routing.                                               *)

\* The steps of a mission on its own way.
LEMMA RoutedSteps ==
  ASSUME RoutedInv, NEW m \in Mission, Step(m)
  PROVE  RoutedInv'
<1> DEFINE q == mission[m]
<1>1. Fit(q) /\ MissionShape(q)
  BY DEF RoutedInv, Fit
<1>2. SUFFICES \E next : Fit(next) /\ Become(m, next)
  <2> SUFFICES ASSUME NEW next, Fit(next), Become(m, next) PROVE RoutedInv'
    BY <1>2
  <2>1. /\ DOMAIN mission' = Mission
        /\ mission'[m] = next
        /\ \A k \in Mission : k # m => mission'[k] = mission[k]
    BY DEF Become, RoutedInv
  <2>2. ASSUME NEW k \in Mission PROVE Fit(mission'[k])
    BY <2>1 DEF RoutedInv
  <2>3. QED
    BY <2>1, <2>2 DEF RoutedInv
<1>3. q.at \in {"health", "cached", "probe", "store"} => Collecting(q) \/ Executing(q)
  BY <1>1 DEF Fit
<1>4. CASE Submit(m)
  <2>1. PICK ask \in Ask[m] :
          Become(m, LET a == [Idle EXCEPT !.ask = ask]
                    IN  IF Normalize(ask.required) = {} THEN Ended(a, "refused")
                        ELSE IF Admitted(a) = {} THEN Ended(a, "unroutable")
                        ELSE NextProvider(Pass(a, IF Options(ask).preferLocal
                                                    THEN "local" ELSE "last")))
    BY <1>4 DEF Submit
  <2> DEFINE a == [Idle EXCEPT !.ask = ask]
             first == Pass(a, IF Options(ask).preferLocal THEN "local" ELSE "last")
  <2>2. Fit(Ended(a, "refused")) /\ Fit(Ended(a, "unroutable"))
    BY EndedFits
  <2>3. ASSUME Admitted(a) # {} PROVE Fit(NextProvider(first))
    <3>1. /\ MissionShape(first) /\ first.chain = <<>> /\ first.found = {}
          /\ first.ask = ask /\ first.todo = Admitted(a)
      BY FieldNames DEF Pass, MissionShape, Idle
    <3>2. Admitted(first) = Admitted(a)
      BY <3>1, FieldNames DEF Admitted, Idle
    <3> HIDE DEF first, a
    <3>3. QED
      BY <2>3, <3>1, <3>2, FirstFits
  <2>4. \/ Become(m, Ended(a, "refused")) \/ Become(m, Ended(a, "unroutable"))
        \/ Admitted(a) # {} /\ Become(m, NextProvider(first))
    BY <2>1
  <2>5. QED
    BY <2>2, <2>3, <2>4
<1>5. CASE Discover(m)
  <2>1. Collecting(q)
    BY <1>1, <1>5 DEF Discover, At, Fit
  <2>2. CASE ~ Eligible(q.p, Required(m), q.pass = "local")
    BY <1>1, <1>5, <2>1, <2>2, CollectFits DEF Discover
  <2>3. CASE Eligible(q.p, Required(m), q.pass = "local")
    <3>1. PICK models, keeps :
            /\ keeps => \A c \in q.found : c.p # q.p
            /\ Become(m, Collect([q EXCEPT
                 !.found = IF keeps THEN q.found \cup {[p |-> q.p, models |-> models]}
                           ELSE q.found]))
      BY <1>5, <2>3, Zenon DEF Discover
    <3> DEFINE c0 == [p |-> q.p, models |-> models]
               found == IF keeps THEN q.found \cup {c0} ELSE q.found
               t == [q EXCEPT !.found = found]
    <3>2. /\ MissionShape(t) /\ t.chain = q.chain /\ t.p = q.p /\ t.todo = q.todo
          /\ t.found = found /\ t.ask = q.ask
      BY <1>1, FieldNames DEF MissionShape
    <3>3. Admitted(t) = Admitted(q)
      BY <3>2 DEF Admitted
    <3>4. q.p \in Provider /\ May(q.ask, q.p) /\ c0.p = q.p
      BY <2>1, <2>3 DEF Collecting, Admitted, May, Eligible, Required
    <3>5. IsFiniteSet(q.found \cup {c0})
      BY <2>1, FS_AddElement DEF Collecting
    <3> HIDE DEF c0
    <3>6. /\ IsFiniteSet(found)
          /\ \A c \in found : c.p \in Provider /\ May(q.ask, c.p)
          /\ \A c, d \in found : c.p = d.p => c = d
      BY <2>1, <3>1, <3>4, <3>5 DEF Collecting
    <3> HIDE DEF found, t
    <3>7. Collecting(t)
      BY <2>1, <3>2, <3>3, <3>6 DEF Collecting
    <3>8. QED
      BY <3>1, <3>2, <3>7, CollectFits DEF t, found, c0
  <2>4. QED
    BY <2>2, <2>3
<1>6. CASE EchoHealth(m) \/ Cached(m)
  <2>1. PICK healthy : Become(m, Told(q, healthy))
    BY <1>6 DEF EchoHealth, Cached
  <2>2. Collecting(q) \/ Executing(q)
    BY <1>3, <1>6 DEF EchoHealth, Cached, At
  <2>3. QED
    BY <1>1, <2>1, <2>2, ToldFits
<1>7. CASE LookUp(m) \/ Probe(m)
  <2>1. Collecting(q) \/ Executing(q)
    BY <1>3, <1>7 DEF LookUp, Probe, At
  <2>2. ASSUME NEW t, MissionShape(t), t.at \in {"cached", "probe", "store"},
               t.chain = q.chain, t.p = q.p, t.todo = q.todo, t.found = q.found,
               t.ask = q.ask, t.rank = q.rank
        PROVE  Fit(t)
    BY <2>1, <2>2, SameRouting DEF Fit
  <2>3. CASE LookUp(m)
    <3>1. PICK place \in {"cached", "probe"} : Become(m, [q EXCEPT !.at = place])
      BY <2>3 DEF LookUp
    <3> DEFINE t == [q EXCEPT !.at = place]
    <3>2. /\ MissionShape(t) /\ t.at = place /\ t.chain = q.chain /\ t.p = q.p
          /\ t.todo = q.todo /\ t.found = q.found /\ t.ask = q.ask /\ t.rank = q.rank
      BY <1>1, FieldNames DEF MissionShape
    <3> HIDE DEF t
    <3>3. Fit(t)
      BY <2>2, <3>2
    <3>4. QED
      BY <3>1, <3>3 DEF t
  <2>4. CASE Probe(m)
    <3>1. PICK answer \in BOOLEAN :
            Become(m, [q EXCEPT !.at = "store", !.pending = Field, !.answer = answer])
      BY <2>4 DEF Probe
    <3> DEFINE t == [q EXCEPT !.at = "store", !.pending = Field, !.answer = answer]
    <3>2. /\ MissionShape(t) /\ t.at = "store" /\ t.chain = q.chain /\ t.p = q.p
          /\ t.todo = q.todo /\ t.found = q.found /\ t.ask = q.ask /\ t.rank = q.rank
      BY <1>1, FieldNames DEF MissionShape
    <3> HIDE DEF t
    <3>3. Fit(t)
      BY <2>2, <3>2
    <3>4. QED
      BY <3>1, <3>3 DEF t
  <2>5. QED
    BY <1>7, <2>3, <2>4
<1>8. CASE Store(m)
  <2>1. PICK f \in q.pending :
          Become(m, LET rest == [q EXCEPT !.pending = @ \ {f}]
                    IN  IF rest.pending = {}
                          THEN [Told(rest, q.answer) EXCEPT !.answer = FALSE] ELSE rest)
    BY <1>8 DEF Store
  <2> DEFINE rest == [q EXCEPT !.pending = q.pending \ {f}]
             told == Told(rest, q.answer)
             t == [told EXCEPT !.answer = FALSE]
  <2>2. Collecting(q) \/ Executing(q)
    BY <1>3, <1>8 DEF Store, At
  <2>3. /\ MissionShape(rest) /\ rest.at = q.at /\ rest.chain = q.chain /\ rest.p = q.p
        /\ rest.todo = q.todo /\ rest.found = q.found /\ rest.ask = q.ask
        /\ rest.rank = q.rank
    BY <1>1, FieldNames DEF MissionShape
  <2>4. q.at = "store"
    BY <1>8 DEF Store, At
  <2>5. Become(m, rest) \/ Become(m, t)
    BY <2>1
  <2> HIDE DEF rest
  <2>6. (Collecting(rest) \/ Executing(rest)) /\ Fit(rest)
    BY <2>2, <2>3, <2>4, SameRouting DEF Fit
  <2>7. Fit(told) /\ MissionShape(told)
    BY <2>3, <2>6, ToldFits DEF Fit
  <2> HIDE DEF told
  <2>8. /\ MissionShape(t) /\ t.at = told.at /\ t.chain = told.chain /\ t.p = told.p
        /\ t.todo = told.todo /\ t.found = told.found /\ t.ask = told.ask
        /\ t.rank = told.rank
    BY <2>7, FieldNames DEF MissionShape
  <2> HIDE DEF t
  <2>9. Fit(t)
    BY <2>7, <2>8, SameRouting DEF Fit
  <2>10. QED
    BY <2>5, <2>6, <2>9
<1>9. CASE EchoComplete(m) \/ Complete(m)
  <2>1. Executing(q)
    BY <1>1, <1>9 DEF EchoComplete, Complete, At, Fit
  <2>2. Become(m, Completed(q)) \/ Become(m, FailOver(q))
    BY <1>9 DEF EchoComplete, Complete
  <2>3. QED
    BY <1>1, <2>1, <2>2, CompletedFits, FailOverFits
<1>10. CASE Return(m)
  <2>1. Become(m, Idle) /\ Fit(Idle)
    BY <1>10 DEF Return, Fit, MissionShape, Idle
  <2>2. QED
    BY <2>1
<1>11. QED
  BY <1>4, <1>5, <1>6, <1>7, <1>8, <1>9, <1>10 DEF Step

LEMMA RoutedInvInit == Init => RoutedInv
BY DEF Init, RoutedInv, Fit, MissionShape, Idle

LEMMA RoutedInvNext == RoutedInv /\ [Next]_vars => RoutedInv'
<1> SUFFICES ASSUME RoutedInv, [Next]_vars PROVE RoutedInv'
  OBVIOUS
<1>1. CASE UNCHANGED mission
  BY <1>1 DEF RoutedInv
<1>2. CASE \E p \in Remote : GoDown(p) \/ ComeUp(p) \/ Age(p)
  BY <1>1, <1>2 DEF GoDown, ComeUp, Age
<1>3. CASE \E m \in Mission : Step(m)
  BY <1>3, RoutedSteps
<1>4. CASE UNCHANGED vars
  BY <1>1, <1>4 DEF vars
<1>5. QED
  BY <1>2, <1>3, <1>4 DEF Next

\* Whatever other missions, endpoints and the health cache do while it is routed and
\* executed, and however many candidates fail before, a mission that succeeds has been
\* answered by a provider that its request allows and that has the capabilities
\* (router.go:89-126, 188-200; kernel.go:271-291).
THEOREM ServedByWhomItAsked == Spec => []ServedAsAsked
<1>1. RoutedInv => ServedAsAsked
  <2> SUFFICES ASSUME RoutedInv, NEW m \in Mission, At(m, "succeeded")
               PROVE  LET p      == mission[m].p
                          labels == MergeRouteLabels(mission[m].ask.labels, mission[m].ask.fields)
                      IN  /\ Required(m) \subseteq Descriptor[p].capabilities
                          /\ p \notin labels.excludeProvider
                          /\ labels.providers # {} => p \in labels.providers
                          /\ labels.failover = "false" /\ labels.requireProvider # None
                               => p = labels.requireProvider
    BY DEF ServedAsAsked
  <2> DEFINE labels == MergeRouteLabels(mission[m].ask.labels, mission[m].ask.fields)
             opts == RouteOptions(labels)
  <2>1. Admits(opts, mission[m].p)
        /\ Compatible(Descriptor[mission[m].p].capabilities, Required(m))
    BY DEF RoutedInv, Fit, At, May, Options, Required
  <2> HIDE DEF labels
  <2>2. /\ opts.exclude = labels.excludeProvider /\ opts.allow = labels.providers
        /\ opts.requireProvider = labels.requireProvider
        /\ opts.failover = (labels.failover # "false")
    BY DEF RouteOptions
  <2> HIDE DEF opts
  <2>3. QED
    BY <2>1, <2>2 DEF Admits, Compatible, labels
<1>2. QED
  BY <1>1, RoutedInvInit, RoutedInvNext, PTL DEF Spec

------------------------------------------------------------------------------
(* What a chain promises.                                                  *)

\* Whatever the preferences, the models and the tiers say, with or without failover, and in
\* whatever order the providers were found: if the one that a request requires is among them,
\* it is the first candidate (router.go:153-163, 188-200).
THEOREM RequiredComesFirst ==
  ASSUME NEW opts, NEW found, IsFiniteSet(found),
         \A c \in found : c.p \in Nat,
         \A c, d \in found : c.p = d.p => c = d,
         NEW r \in found, r.p = opts.requireProvider
  PROVE  Chain(opts, found)[1].p = opts.requireProvider
<1> DEFINE kept == IF opts.failover \/ opts.requireProvider = None
                     THEN found ELSE {c \in found : c.p = opts.requireProvider}
           ranked == Ranked(opts, kept)
           n == Cardinality(kept)
           all == [i \in DOMAIN ranked |->
                     [p |-> ranked[i].p, model |-> PickModel(ranked[i].models, opts.preferModel)]]
<1>1. kept \in SUBSET found /\ r \in kept
  OBVIOUS
<1>2. /\ IsFiniteSet(kept)
      /\ \A c \in kept : c.p \in Nat
      /\ \A c, d \in kept : c.p = d.p => c = d
  <2>1. IsFiniteSet(kept)
    BY <1>1, FS_Subset
  <2>2. QED
    BY <1>1, <2>1
<1>3. Chain(opts, found) = IF opts.failover \/ all = <<>> THEN all ELSE <<all[1]>>
  BY DEF Chain
<1> HIDE DEF kept
<1>4. /\ ranked \in [1..n -> kept]
      /\ \A i, j \in 1..n : i < j => Before(opts, ranked[i], ranked[j])
  BY <1>2, RankedInOrder
<1>5. n \in Nat /\ n # 0
  BY <1>1, <1>2, FS_CardinalityType, FS_EmptySet
<1>6. PICK k \in 1..n : ranked[k] = r
  BY <1>1, <1>2, RankedHoldsAll
<1> HIDE DEF ranked
<1> HIDE DEF n
<1>7. ranked[1].p = opts.requireProvider
  <2> SUFFICES ASSUME ranked[1].p # opts.requireProvider PROVE FALSE
    OBVIOUS
  <2>1. 1 \in 1..n /\ 1 < k
    BY <1>5, <1>6
  <2>2. Before(opts, ranked[1], r) /\ ranked[1].p \in Nat
    BY <1>2, <1>4, <1>6, <2>1
  <2> DEFINE x == Criteria(opts, ranked[1])
             y == Criteria(opts, r)
  <2>3. x[1] = 1 /\ y[1] = 0
    BY DEF Criteria
  <2>4. PICK i \in 1..5 : x[i] < y[i] /\ \A j \in 1..(i - 1) : x[j] = y[j]
    BY <2>2 DEF Before
  <2> HIDE DEF x, y
  <2>5. i # 1
    BY <2>3, <2>4
  <2>6. 1 \in 1..(i - 1)
    BY <2>4, <2>5
  <2>7. QED
    BY <2>3, <2>4, <2>6
<1>8. all[1].p = opts.requireProvider
  BY <1>4, <1>5, <1>7
<1>9. <<all[1]>>[1] = all[1]
  OBVIOUS
<1> HIDE DEF all
<1>10. QED
  BY <1>3, <1>8, <1>9

\* With failover, every provider that was found is a candidate, at one place of the chain: no
\* failure of some of them keeps a mission from the others (router.go:202-232).
THEOREM FailoverMissesNobody ==
  ASSUME NEW opts, NEW found, IsFiniteSet(found), opts.failover = TRUE,
         \A c \in found : c.p \in Nat,
         \A c, d \in found : c.p = d.p => c = d
  PROVE  LET chain == Chain(opts, found)
         IN  /\ \A c \in found : \E i \in DOMAIN chain : chain[i].p = c.p
             /\ \A i, j \in DOMAIN chain : chain[i].p = chain[j].p => i = j
<1> DEFINE ranked == Ranked(opts, found)
           n == Cardinality(found)
           all == [i \in DOMAIN ranked |->
                     [p |-> ranked[i].p, model |-> PickModel(ranked[i].models, opts.preferModel)]]
<1>1. Chain(opts, found) = all
  BY DEF Chain
<1>2. ranked \in [1..n -> found]
  BY RankedInOrder
<1>3. /\ \A c \in found : \E i \in 1..n : ranked[i] = c
      /\ \A i, j \in 1..n : ranked[i] = ranked[j] => i = j
  BY RankedHoldsAll
<1> HIDE DEF n, ranked
<1>4. DOMAIN all = 1..n /\ \A i \in 1..n : all[i].p = ranked[i].p
  BY <1>2
<1> HIDE DEF all
<1>5. \A c \in found : \E i \in 1..n : all[i].p = c.p
  BY <1>3, <1>4
<1>6. ASSUME NEW i \in 1..n, NEW j \in 1..n, all[i].p = all[j].p
      PROVE  i = j
  <2>1. ranked[i] \in found /\ ranked[j] \in found /\ ranked[i].p = ranked[j].p
    BY <1>2, <1>4, <1>6
  <2>2. QED
    BY <1>3, <2>1
<1>7. QED
  BY <1>1, <1>4, <1>5, <1>6
================================================================================
