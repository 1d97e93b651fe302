---------------------------- MODULE EventBusProofs ----------------------------
(***************************************************************************)
(* Theorems about EventBus, for every set of missions and clients, every   *)
(* channel capacity and every length of the journal.                       *)
(*                                                                         *)
(* That a client's stream is in order is not inductive by itself: what is  *)
(* still to be written, from the journal or from the channel, has to come  *)
(* after what has been written (Ordered), to be of the client's mission    *)
(* (Known), and to come from one of the two at a time (Resting).           *)
(***************************************************************************)
EXTENDS EventBus, TLAPS

\* All that is written or waits to be written is in order.
Ordered(c) ==
  /\ StrictlyIncreasing(received[c])
  /\ StrictlyIncreasing(channel[c])
  /\ \A i \in DOMAIN received[c] : \A j \in DOMAIN channel[c] : received[c][i] < channel[c][j]
  /\ \A i \in DOMAIN received[c] : \A e \in catchup[c] : received[c][i] < e

OfMission(e, f) == e \in 1 .. seq /\ log[e].mission = f

\* It is in the journal, and of the client's mission.
Known(c) ==
  /\ \A i \in DOMAIN received[c] : OfMission(received[c][i], filter[c])
  /\ \A j \in DOMAIN channel[c] : OfMission(channel[c][j], filter[c])
  /\ \A e \in catchup[c] : OfMission(e, filter[c])

\* Nothing is left of the catch-up of a live stream, nor in the channel of another.
Resting(c) ==
  /\ pc[c] # "catchup" => catchup[c] = {}
  /\ pc[c] \in {"away", "catchup"} => channel[c] = <<>>

InOrder(c) == Resting(c) /\ (filter[c] # NoMission => Ordered(c) /\ Known(c))

StreamInv == \A c \in Client : InOrder(c)

IInv == TypeOK /\ JournalWellFormed /\ NoSendOnClosed /\ StreamInv
-----------------------------------------------------------------------------

\* What is in a sequence after an append.
LEMMA AppendElements ==
  ASSUME NEW S, NEW s \in Seq(S), NEW e \in S
  PROVE  \A i \in DOMAIN Append(s, e) : \/ i \in DOMAIN s /\ Append(s, e)[i] = s[i]
                                       \/ Append(s, e)[i] = e
  OBVIOUS

\* A greater element at the end keeps a sequence in order.
LEMMA AppendInOrder ==
  ASSUME NEW s \in Seq(Nat), NEW e \in Nat, StrictlyIncreasing(s), \A i \in DOMAIN s : s[i] < e
  PROVE  StrictlyIncreasing(Append(s, e))
  BY DEF StrictlyIncreasing

\* Taking the head of a sequence in order leaves what comes after it.
LEMMA TailInOrder ==
  ASSUME NEW s \in Seq(Nat), s # <<>>, StrictlyIncreasing(s)
  PROVE  /\ Head(s) = s[1] /\ 1 \in DOMAIN s
         /\ StrictlyIncreasing(Tail(s))
         /\ \A j \in DOMAIN Tail(s) : /\ j + 1 \in DOMAIN s /\ Tail(s)[j] = s[j + 1]
                                      /\ Head(s) < Tail(s)[j]
<1>1. /\ Head(s) = s[1] /\ 1 \in DOMAIN s
      /\ \A j \in DOMAIN Tail(s) : j + 1 \in DOMAIN s /\ Tail(s)[j] = s[j + 1]
  OBVIOUS
<1>2. QED
  BY <1>1 DEF StrictlyIncreasing

\* Every event a client has seen comes before or is the last one.
LEMMA LastSeenIsLast ==
  ASSUME NEW c \in Client, received[c] \in Seq(Nat), StrictlyIncreasing(received[c])
  PROVE  /\ LastSeen(c) \in Nat
         /\ \A i \in DOMAIN received[c] : received[c][i] <= LastSeen(c)
  BY DEF LastSeen, StrictlyIncreasing

\* A channel never holds more than its capacity.
LEMMA OfferBounded ==
  ASSUME NEW buf \in Seq(Nat), NEW e \in Nat, NEW n \in 0 .. 2, Len(buf) <= BufCap
  PROVE  OfferTwice(buf, e, n) \in Seq(Nat) /\ Len(OfferTwice(buf, e, n)) <= BufCap
<1>1. Offer(buf, e) \in Seq(Nat) /\ Len(Offer(buf, e)) <= BufCap
  BY BufCapAssumption DEF Offer
<1>2. Offer(Offer(buf, e), e) \in Seq(Nat) /\ Len(Offer(Offer(buf, e), e)) <= BufCap
  BY <1>1, BufCapAssumption DEF Offer
<1>3. QED
  BY <1>1, <1>2 DEF OfferTwice

\* Publish offers an event to a channel at most twice.
LEMMA OffersTyped == \A c \in Client, m \in Filter : Offers(c, m) \in 0 .. 2
  BY DEF Offers
-----------------------------------------------------------------------------

\* Before the first event and the first client there is nothing to go wrong.
LEMMA InitInv == Init => IInv
<1> SUFFICES ASSUME Init PROVE IInv
  OBVIOUS
<1>1. TypeOK
  BY BufCapAssumption DEF Init, TypeOK, Filter
<1>2. JournalWellFormed
  BY DEF Init, JournalWellFormed
<1>3. NoSendOnClosed
  BY DEF Init, NoSendOnClosed, Filter
<1>4. StreamInv
  BY DEF Init, StreamInv, InOrder, Resting, Ordered, Known, StrictlyIncreasing
<1>5. QED
  BY <1>1, <1>2, <1>3, <1>4 DEF IInv

\* The steps of one client, and of publishers.
StepOf(c) ==
  \/ \E f \in Filter : Connect(c, f)
  \/ WriteCatchup(c) \/ Subscribe(c) \/ WriteLive(c)
  \/ AbortCatchup(c) \/ Disconnect(c) \/ Unsubscribe(c)

\* The steps of publishers and of clients, one by one.
LEMMA NextSteps == Next <=> (\E m \in Filter : Publish(m)) \/ (\E c \in Client : StepOf(c))
  BY DEF Next, StepOf, Stream

\* The elements of a sequence over a set are in the set.
LEMMA ElementsOf == ASSUME NEW S, NEW s \in Seq(S) PROVE \A i \in DOMAIN s : s[i] \in S
  OBVIOUS

\* Every entry of the journal is an event.
LEMMA JournalEvents ==
  ASSUME log \in Seq([seq : Nat, mission : Filter])
  PROVE  \A i \in DOMAIN log : log[i].seq \in Nat /\ log[i].mission \in Filter
<1> TAKE i \in DOMAIN log
<1>1. log[i] \in [seq : Nat, mission : Filter]
  BY ElementsOf
<1>2. QED
  BY <1>1

\* The types are kept.
LEMMA TypeStep == IInv /\ Next => TypeOK'
<1> SUFFICES ASSUME TypeOK, Next PROVE TypeOK'
  BY DEF IInv
<1>1. ASSUME NEW m \in Filter, Publish(m) PROVE TypeOK'
  <2>1. seq' \in Nat /\ log' \in Seq([seq : Nat, mission : Filter])
    BY <1>1 DEF TypeOK, Publish
  <2>2. \A c \in Client : /\ channel'[c] = OfferTwice(channel[c], seq', Offers(c, m))
                          /\ channel'[c] \in Seq(Nat) /\ Len(channel'[c]) <= BufCap
    BY <1>1, <2>1, OfferBounded, OffersTyped DEF TypeOK, Publish
  <2>3. channel' \in [Client -> Seq(Nat)] /\ dropped' \in [Client -> BOOLEAN]
    BY <1>1, <2>2 DEF Publish
  <2>4. QED
    BY <1>1, <2>1, <2>2, <2>3 DEF TypeOK, Publish
<1>2. ASSUME NEW c \in Client, StepOf(c) PROVE TypeOK'
  <2> USE DEF TypeOK, busVars
  <2>1. ASSUME NEW f \in Filter, Connect(c, f) PROVE TypeOK'
    <3>1. \A i \in DOMAIN log : log[i].seq \in Nat
      BY JournalEvents
    <3>2. \A e \in EventsSince(LastSeen(c), f) : e \in Nat
      BY <3>1 DEF EventsSince
    <3>3. QED
      BY <2>1, <3>2 DEF Connect
  <2>2. CASE WriteCatchup(c)
    BY <2>2 DEF WriteCatchup
  <2>3. CASE Subscribe(c)
    BY <2>3, BufCapAssumption DEF Subscribe
  <2>4. CASE WriteLive(c)
    <3>1. channel[c] \in Seq(Nat) /\ channel[c] # <<>> /\ received[c] \in Seq(Nat)
      BY <2>4 DEF WriteLive
    <3>2. /\ Append(received[c], Head(channel[c])) \in Seq(Nat)
          /\ Tail(channel[c]) \in Seq(Nat) /\ Len(Tail(channel[c])) <= Len(channel[c])
      BY <3>1
    <3>3. channel' \in [Client -> Seq(Nat)] /\ received' \in [Client -> Seq(Nat)]
      BY <2>4, <3>2 DEF WriteLive
    <3>4. \A d \in Client : Len(channel[d])' <= BufCap
      <4> SUFFICES ASSUME NEW d \in Client PROVE Len(channel'[d]) <= BufCap
        OBVIOUS
      <4>1. channel'[d] = IF d = c THEN Tail(channel[c]) ELSE channel[d]
        BY <2>4 DEF WriteLive
      <4>2. Len(channel[d]) <= BufCap /\ Len(channel[c]) <= BufCap /\ Len(channel[c]) \in Nat
        OBVIOUS
      <4>3. Len(Tail(channel[c])) \in Nat /\ BufCap \in Nat
        BY <3>2, BufCapAssumption
      <4>4. QED
        BY <3>2, <4>1, <4>2, <4>3
    <3>5. QED
      BY <2>4, <3>3, <3>4 DEF WriteLive
  <2>5. CASE AbortCatchup(c)
    BY <2>5 DEF AbortCatchup
  <2>6. CASE Disconnect(c)
    BY <2>6 DEF Disconnect
  <2>7. CASE Unsubscribe(c)
    BY <2>7, BufCapAssumption DEF Unsubscribe
  <2>8. QED
    BY <1>2, <2>1, <2>2, <2>3, <2>4, <2>5, <2>6, <2>7 DEF StepOf
<1>3. QED
  BY <1>1, <1>2, NextSteps

\* Only Publish writes to the journal.
LEMMA JournalStep == IInv /\ Next => JournalWellFormed'
<1> SUFFICES ASSUME TypeOK, JournalWellFormed, Next PROVE JournalWellFormed'
  BY DEF IInv
<1>1. ASSUME NEW m \in Filter, Publish(m) PROVE JournalWellFormed'
  BY <1>1 DEF TypeOK, JournalWellFormed, Publish
<1>2. ASSUME NEW c \in Client, StepOf(c) PROVE seq' = seq /\ log' = log
  BY <1>2 DEF StepOf, Connect, WriteCatchup, Subscribe, WriteLive, AbortCatchup, Disconnect,
              Unsubscribe, busVars
<1>3. QED
  BY <1>1, <1>2, NextSteps DEF JournalWellFormed

\* A channel leaves the bus before it is closed.
LEMMA ChannelStep == IInv /\ Next => NoSendOnClosed'
<1> SUFFICES ASSUME TypeOK, NoSendOnClosed, Next PROVE NoSendOnClosed'
  BY DEF IInv
<1>0. /\ subs \in [Filter -> SUBSET Client] /\ open \in SUBSET Client
      /\ pc \in [Client -> {"away", "catchup", "live", "leaving"}]
      /\ filter \in [Client -> Filter]
  BY DEF TypeOK
<1> USE DEF NoSendOnClosed, busVars
<1>1. ASSUME NEW m \in Filter, Publish(m) PROVE NoSendOnClosed'
  BY <1>1 DEF Publish
<1>2. ASSUME NEW c \in Client, StepOf(c) PROVE NoSendOnClosed'
  <2>1. ASSUME NEW f \in Filter, Connect(c, f) PROVE NoSendOnClosed'
    BY <1>0, <2>1 DEF Connect
  <2>2. CASE WriteCatchup(c)
    BY <2>2 DEF WriteCatchup
  <2>3. CASE Subscribe(c)
    BY <1>0, <2>3 DEF Subscribe
  <2>4. CASE WriteLive(c)
    BY <2>4 DEF WriteLive
  <2>5. CASE AbortCatchup(c)
    BY <1>0, <2>5 DEF AbortCatchup
  <2>6. CASE Disconnect(c)
    BY <1>0, <2>6 DEF Disconnect
  <2>7. CASE Unsubscribe(c)
    BY <1>0, <2>7 DEF Unsubscribe
  <2>8. QED
    BY <1>2, <2>1, <2>2, <2>3, <2>4, <2>5, <2>6, <2>7 DEF StepOf
<1>3. QED
  BY <1>1, <1>2, NextSteps
-----------------------------------------------------------------------------
\* An event is put into the channel of a client that follows a mission at most once,
\* and only if it is of that mission.
LEMMA OfferedOnce ==
  ASSUME NoSendOnClosed, NEW c \in Client, NEW m \in Filter
  PROVE  /\ pc[c] \in {"away", "catchup"} => Offers(c, m) = 0
         /\ filter[c] # NoMission => Offers(c, m) = 0 \/ (Offers(c, m) = 1 /\ m = filter[c])
<1>1. NoMission \in Filter
  BY DEF Filter
<1>2. QED
  BY <1>1 DEF NoSendOnClosed, Offers

\* An event that is published comes after all a stream has seen or has waiting.
LEMMA PublishInOrder ==
  ASSUME IInv, NEW m \in Filter, Publish(m), NEW c \in Client
  PROVE  InOrder(c)'
<1>1. /\ seq \in Nat /\ seq = Len(log) /\ log \in Seq([seq : Nat, mission : Filter])
      /\ channel[c] \in Seq(Nat) /\ received[c] \in Seq(Nat)
      /\ InOrder(c) /\ NoSendOnClosed
  BY DEF IInv, TypeOK, JournalWellFormed, StreamInv
<1>2. /\ seq' = seq + 1 /\ log' = Append(log, [seq |-> seq + 1, mission |-> m])
      /\ channel'[c] = OfferTwice(channel[c], seq + 1, Offers(c, m))
      /\ received' = received /\ catchup' = catchup /\ filter' = filter /\ pc' = pc
  BY DEF Publish
<1>3. Resting(c)'
  BY <1>1, <1>2, OfferedOnce DEF InOrder, Resting, OfferTwice
<1>4. ASSUME filter[c] # NoMission PROVE Ordered(c)' /\ Known(c)'
  <2>1. Ordered(c) /\ Known(c)
    BY <1>1, <1>4 DEF InOrder
  <2>2. \/ channel'[c] = channel[c]
        \/ channel'[c] = Append(channel[c], seq + 1) /\ m = filter[c] /\ catchup[c] = {}
    <3>1. Offers(c, m) = 0 \/ (Offers(c, m) = 1 /\ m = filter[c] /\ catchup[c] = {})
      BY <1>1, <1>4, OfferedOnce DEF InOrder, Resting
    <3>2. QED
      BY <1>2, <3>1 DEF OfferTwice, Offer
  <2>3. \A e \in 1 .. seq : e \in 1 .. seq' /\ log'[e] = log[e]
    BY <1>1, <1>2
  <2>4. seq + 1 \in 1 .. seq' /\ log'[seq + 1].mission = m
    BY <1>1, <1>2
  <2>5. \A e : OfMission(e, filter[c]) => OfMission(e, filter[c])' /\ e \in Nat /\ e < seq + 1
    BY <1>1, <1>2, <2>3 DEF OfMission
  <2>6. CASE channel'[c] = channel[c]
    BY <1>2, <2>1, <2>5, <2>6 DEF Ordered, Known, StrictlyIncreasing
  <2>7. CASE channel'[c] = Append(channel[c], seq + 1) /\ m = filter[c] /\ catchup[c] = {}
    <3>1. \A j \in DOMAIN channel'[c] : \/ j \in DOMAIN channel[c] /\ channel'[c][j] = channel[c][j]
                                        \/ channel'[c][j] = seq + 1
      BY <1>1, <2>7, AppendElements
    <3>2. StrictlyIncreasing(channel'[c])
      <4>1. \A j \in DOMAIN channel[c] : channel[c][j] < seq + 1
        BY <2>1, <2>5 DEF Known
      <4>2. seq + 1 \in Nat /\ StrictlyIncreasing(channel[c])
        BY <1>1, <2>1 DEF Ordered
      <4>3. QED
        BY <1>1, <2>7, <4>1, <4>2, AppendInOrder
    <3>3. \A i \in DOMAIN received[c] : \A j \in DOMAIN channel'[c] : received[c][i] < channel'[c][j]
      BY <2>1, <2>5, <3>1 DEF Ordered, Known
    <3>4. Ordered(c)'
      <4>1. StrictlyIncreasing(received[c])
        BY <2>1 DEF Ordered
      <4>2. QED
        BY <1>2, <2>7, <3>2, <3>3, <4>1 DEF Ordered, StrictlyIncreasing
    <3>5. Known(c)'
      BY <1>2, <2>1, <2>4, <2>5, <2>7, <3>1 DEF Known, OfMission
    <3>6. QED
      BY <3>4, <3>5
  <2>8. QED
    BY <2>2, <2>6, <2>7
<1>5. QED
  BY <1>2, <1>3, <1>4 DEF InOrder
\* What a step of one client does not touch.
LEMMA OtherClients ==
  ASSUME IInv, NEW c \in Client, StepOf(c)
  PROVE  /\ seq' = seq /\ log' = log
         /\ \A d \in Client \ {c} : InOrder(d)'
<1>1. /\ seq' = seq /\ log' = log
      /\ \A d \in Client \ {c} :
            /\ pc'[d] = pc[d] /\ filter'[d] = filter[d] /\ received'[d] = received[d]
            /\ catchup'[d] = catchup[d] /\ channel'[d] = channel[d]
  <2>1. TypeOK
    BY DEF IInv
  <2>2. QED
    BY <2>1 DEF TypeOK, StepOf, Connect, WriteCatchup, Subscribe, WriteLive, AbortCatchup,
                Disconnect, Unsubscribe, busVars
<1>2. \A d \in Client : InOrder(d)
  BY DEF IInv, StreamInv
<1>3. QED
  BY <1>1, <1>2 DEF InOrder, Resting, Ordered, Known, OfMission, StrictlyIncreasing

\* A connection begins after the last event its client has seen.
LEMMA ConnectInOrder ==
  ASSUME IInv, NEW c \in Client, NEW f \in Filter, Connect(c, f)
  PROVE  InOrder(c)'
<1>1. received[c] \in Seq(Nat) /\ seq \in Nat /\ InOrder(c)
  BY DEF IInv, TypeOK, StreamInv
<1>2. DOMAIN log = 1 .. seq /\ \A i \in DOMAIN log : log[i].seq = i
  BY DEF IInv, TypeOK, JournalWellFormed
<1>3. /\ pc[c] = "away" /\ pc'[c] = "catchup" /\ filter'[c] = f
      /\ f = filter[c] \/ received[c] = <<>>
      /\ received' = received /\ channel' = channel /\ seq' = seq /\ log' = log
  <2>1. TypeOK
    BY DEF IInv
  <2>2. QED
    BY <2>1 DEF TypeOK, Connect, busVars
<1>4. catchup'[c] = EventsSince(LastSeen(c), f)
  <2>1. TypeOK
    BY DEF IInv
  <2>2. QED
    BY <2>1 DEF TypeOK, Connect
<1>5. channel[c] = <<>>
  <2>1. pc[c] = "away" /\ Resting(c)
    BY <1>1, <1>3 DEF InOrder
  <2>2. QED
    BY <2>1 DEF Resting
<1>6. Resting(c)'
  <2>1. pc'[c] = "catchup" /\ channel' = channel
    BY <1>3
  <2>2. QED
    BY <1>5, <2>1 DEF Resting
<1>7. ASSUME f # NoMission PROVE Ordered(c)' /\ Known(c)'
  <2>1. StrictlyIncreasing(received[c]) /\ \A i \in DOMAIN received[c] : OfMission(received[c][i], f)
    <3>1. CASE received[c] = <<>>
      BY <3>1 DEF StrictlyIncreasing
    <3>2. CASE f = filter[c]
      BY <1>1, <1>7, <3>2 DEF InOrder, Ordered, Known
    <3>3. QED
      BY <1>3, <3>1, <3>2
  <2>2. \A e \in catchup'[c] : OfMission(e, f) /\ LastSeen(c) < e
    <3>1. ASSUME NEW e \in catchup'[c] PROVE OfMission(e, f) /\ LastSeen(c) < e
      <4>1. PICK i \in DOMAIN log : e = log[i].seq /\ log[i].seq > LastSeen(c) /\ Matches(log[i], f)
        BY <1>4 DEF EventsSince
      <4>2. e = i /\ i \in 1 .. seq /\ log[e].mission = f
        BY <1>2, <1>7, <4>1 DEF Matches
      <4>3. LastSeen(c) \in Nat
        BY <1>1, <2>1, LastSeenIsLast
      <4>4. QED
        BY <1>1, <4>1, <4>2, <4>3 DEF OfMission
    <3>2. QED
      BY <3>1
  <2>3. \A i \in DOMAIN received[c] : \A e \in catchup'[c] : received[c][i] < e
    <3>1. /\ LastSeen(c) \in Nat
          /\ \A i \in DOMAIN received[c] : received[c][i] <= LastSeen(c) /\ received[c][i] \in Nat
      BY <1>1, <2>1, LastSeenIsLast, ElementsOf
    <3>2. \A e \in catchup'[c] : e \in Nat /\ LastSeen(c) < e
      BY <1>1, <2>2 DEF OfMission
    <3>3. QED
      BY <3>1, <3>2
  <2>4. Ordered(c)'
    BY <1>3, <1>5, <2>1, <2>3 DEF Ordered, StrictlyIncreasing
  <2>5. Known(c)'
    BY <1>3, <1>5, <2>1, <2>2 DEF Known, OfMission
  <2>6. QED
    BY <2>4, <2>5
<1>8. QED
  BY <1>3, <1>6, <1>7 DEF InOrder

\* The catch-up is written in the order of the journal.
LEMMA CatchupInOrder ==
  ASSUME IInv, NEW c \in Client, WriteCatchup(c)
  PROVE  InOrder(c)'
<1>1. /\ received[c] \in Seq(Nat) /\ catchup[c] \in SUBSET Nat
      /\ InOrder(c)
  BY DEF IInv, TypeOK, StreamInv
<1>2. PICK e \in catchup[c] :
         /\ \A x \in catchup[c] : e <= x
         /\ pc[c] = "catchup" /\ pc' = pc /\ filter' = filter /\ channel' = channel
         /\ received'[c] = Append(received[c], e) /\ catchup'[c] = catchup[c] \ {e}
         /\ seq' = seq /\ log' = log
  <2>1. TypeOK
    BY DEF IInv
  <2>2. QED
    BY <2>1 DEF TypeOK, WriteCatchup, busVars
<1>3. channel[c] = <<>> /\ e \in Nat
  BY <1>1, <1>2 DEF InOrder, Resting
<1>4. Resting(c)'
  BY <1>2, <1>3 DEF Resting
<1>5. ASSUME filter[c] # NoMission PROVE Ordered(c)' /\ Known(c)'
  <2>1. Ordered(c) /\ Known(c)
    BY <1>1, <1>5 DEF InOrder
  <2>2. \A i \in DOMAIN received'[c] :
           \/ i \in DOMAIN received[c] /\ received'[c][i] = received[c][i]
           \/ received'[c][i] = e
    BY <1>1, <1>2, <1>3, AppendElements
  <2>3. StrictlyIncreasing(received'[c])
    <3>1. StrictlyIncreasing(received[c]) /\ \A i \in DOMAIN received[c] : received[c][i] < e
      BY <2>1 DEF Ordered
    <3>2. QED
      BY <1>1, <1>2, <1>3, <3>1, AppendInOrder
  <2>4. \A i \in DOMAIN received'[c] : \A x \in catchup'[c] : received'[c][i] < x
    <3>1. \A x \in catchup'[c] : e < x /\ x \in catchup[c]
      BY <1>1, <1>2
    <3>2. QED
      BY <2>1, <2>2, <3>1 DEF Ordered
  <2>5. Ordered(c)'
    BY <1>2, <1>3, <2>3, <2>4 DEF Ordered, StrictlyIncreasing
  <2>6. Known(c)'
    BY <1>2, <1>3, <2>1, <2>2 DEF Known, OfMission
  <2>7. QED
    BY <2>5, <2>6
<1>6. QED
  BY <1>2, <1>4, <1>5 DEF InOrder

\* The channel is written in the order it was filled.
LEMMA LiveInOrder ==
  ASSUME IInv, NEW c \in Client, WriteLive(c)
  PROVE  InOrder(c)'
<1>1. /\ received[c] \in Seq(Nat) /\ channel[c] \in Seq(Nat)
      /\ InOrder(c)
  BY DEF IInv, TypeOK, StreamInv
<1>2. /\ pc[c] = "live" /\ channel[c] # <<>>
      /\ received'[c] = Append(received[c], Head(channel[c]))
      /\ channel'[c] = Tail(channel[c])
      /\ pc' = pc /\ filter' = filter /\ catchup' = catchup /\ seq' = seq /\ log' = log
  <2>1. TypeOK
    BY DEF IInv
  <2>2. QED
    BY <2>1 DEF TypeOK, WriteLive
<1>3. catchup[c] = {} /\ Head(channel[c]) \in Nat
  BY <1>1, <1>2 DEF InOrder, Resting
<1>4. Resting(c)'
  BY <1>2, <1>3 DEF Resting
<1>5. ASSUME filter[c] # NoMission PROVE Ordered(c)' /\ Known(c)'
  <2>1. Ordered(c) /\ Known(c)
    BY <1>1, <1>5 DEF InOrder
  <2>2. \A i \in DOMAIN received'[c] :
           \/ i \in DOMAIN received[c] /\ received'[c][i] = received[c][i]
           \/ received'[c][i] = Head(channel[c])
    BY <1>1, <1>2, <1>3, AppendElements
  <2>3. /\ Head(channel[c]) = channel[c][1] /\ 1 \in DOMAIN channel[c]
        /\ StrictlyIncreasing(channel'[c])
        /\ \A j \in DOMAIN channel'[c] :
              /\ j + 1 \in DOMAIN channel[c] /\ channel'[c][j] = channel[c][j + 1]
              /\ Head(channel[c]) < channel'[c][j]
    <3>1. StrictlyIncreasing(channel[c])
      BY <2>1 DEF Ordered
    <3>2. QED
      BY <1>1, <1>2, <3>1, TailInOrder
  <2>4. StrictlyIncreasing(received'[c])
    <3>1. StrictlyIncreasing(received[c]) /\ \A i \in DOMAIN received[c] : received[c][i] < Head(channel[c])
      BY <2>1, <2>3 DEF Ordered
    <3>2. QED
      BY <1>1, <1>2, <1>3, <3>1, AppendInOrder
  <2>5. \A i \in DOMAIN received'[c] : \A j \in DOMAIN channel'[c] : received'[c][i] < channel'[c][j]
    BY <2>1, <2>2, <2>3 DEF Ordered
  <2>6. Ordered(c)'
    BY <1>2, <1>3, <2>3, <2>4, <2>5 DEF Ordered, StrictlyIncreasing
  <2>7. Known(c)'
    BY <1>2, <1>3, <2>1, <2>2, <2>3 DEF Known, OfMission
  <2>8. QED
    BY <2>6, <2>7
<1>6. QED
  BY <1>2, <1>4, <1>5 DEF InOrder

\* The other steps of a client write nothing to it.
LEMMA SilentInOrder ==
  ASSUME IInv, NEW c \in Client,
         Subscribe(c) \/ AbortCatchup(c) \/ Disconnect(c) \/ Unsubscribe(c)
  PROVE  InOrder(c)'
<1>0. TypeOK /\ InOrder(c)
  BY DEF IInv, StreamInv
<1>1. /\ received'[c] = received[c] /\ filter'[c] = filter[c] /\ seq' = seq /\ log' = log
      /\ catchup'[c] \in {catchup[c], {}} /\ channel'[c] \in {channel[c], <<>>}
  BY <1>0 DEF TypeOK, Subscribe, AbortCatchup, Disconnect, Unsubscribe, busVars
<1>2. Resting(c)'
  BY <1>0 DEF TypeOK, InOrder, Resting, Subscribe, AbortCatchup, Disconnect, Unsubscribe, busVars
<1>3. QED
  BY <1>0, <1>1, <1>2 DEF InOrder, Ordered, Known, OfMission, StrictlyIncreasing

\* The streams stay in order, whatever step is taken.
LEMMA StreamStep == IInv /\ Next => StreamInv'
<1> SUFFICES ASSUME IInv, Next PROVE StreamInv'
  OBVIOUS
<1>1. ASSUME NEW m \in Filter, Publish(m) PROVE StreamInv'
  BY <1>1, PublishInOrder DEF StreamInv
<1>2. ASSUME NEW c \in Client, StepOf(c) PROVE StreamInv'
  <2>1. InOrder(c)'
    BY <1>2, ConnectInOrder, CatchupInOrder, LiveInOrder, SilentInOrder DEF StepOf
  <2>2. QED
    BY <1>2, <2>1, OtherClients DEF StreamInv
<1>3. QED
  BY <1>1, <1>2, NextSteps
-----------------------------------------------------------------------------

\* A step that changes nothing keeps the invariant.
LEMMA Stutter == IInv /\ UNCHANGED vars => IInv'
  BY DEF IInv, vars, TypeOK, JournalWellFormed, NoSendOnClosed, StreamInv, InOrder, Resting,
         Ordered, Known, OfMission, StrictlyIncreasing

\* The inductive invariant holds in every reachable state.
THEOREM Invariance == Spec => []IInv
<1>1. Init => IInv
  BY InitInv
<1>2. IInv /\ [Next]_vars => IInv'
  BY TypeStep, JournalStep, ChannelStep, StreamStep, Stutter DEF IInv
<1>3. QED
  BY <1>1, <1>2, PTL DEF Spec

\* The journal, the subscriptions and the handlers keep their types, and no channel ever
\* holds more than its capacity (bus.go:33, events.go:19).
THEOREM TypeCorrect == Spec => []TypeOK
<1>1. IInv => TypeOK
  BY DEF IInv
<1>2. QED
  BY <1>1, Invariance, PTL

\* An event's place in the journal is its sequence number (bus.go:47-55).
THEOREM JournalSound == Spec => []JournalWellFormed
<1>1. IInv => JournalWellFormed
  BY DEF IInv
<1>2. QED
  BY <1>1, Invariance, PTL

\* No publisher ever finds a closed channel on the bus (bus.go:57-66 and 76-89).
THEOREM ChannelsSafe == Spec => []NoSendOnClosed
<1>1. IInv => NoSendOnClosed
  BY DEF IInv
<1>2. QED
  BY <1>1, Invariance, PTL

\* However often it reconnects, a client that follows a mission is written the
\* mission's events in journal order, each at most once (events.go:58-84).
THEOREM StreamsInOrder == Spec => []MissionStreamInOrder
<1>1. IInv => MissionStreamInOrder
  BY DEF IInv, StreamInv, InOrder, Ordered, Known, OfMission, MissionStreamInOrder, Seen
<1>2. QED
  BY <1>1, Invariance, PTL
-----------------------------------------------------------------------------
\* A live stream is complete.  Given the invariant above this is inductive by itself.

Complete(c) ==
  pc[c] = "live" /\ ~dropped[c] => Wanted(c, joined[c]) \subseteq Seen(c) \cup Buffered(c)

\* A channel with room for what is offered loses nothing.
LEMMA OfferKeeps ==
  ASSUME NEW buf \in Seq(Nat), NEW e \in Nat, NEW n \in 0 .. 2, Len(buf) + n <= BufCap,
         NEW new, new = OfferTwice(buf, e, n)
  PROVE  /\ \A j \in DOMAIN buf : j \in DOMAIN new /\ new[j] = buf[j]
         /\ n > 0 => \E j \in DOMAIN new : new[j] = e
<1>0. BufCap \in Nat /\ Len(buf) \in Nat
  BY BufCapAssumption
<1> DEFINE one == Append(buf, e)
           two == Append(one, e)
<1>1. /\ one \in Seq(Nat) /\ Len(one) = Len(buf) + 1
      /\ \A j \in DOMAIN buf : j \in DOMAIN one /\ one[j] = buf[j]
      /\ Len(one) \in DOMAIN one /\ one[Len(one)] = e
  OBVIOUS
<1>2. /\ two \in Seq(Nat)
      /\ \A j \in DOMAIN one : j \in DOMAIN two /\ two[j] = one[j]
  BY <1>1
<1>3. /\ n = 0 => OfferTwice(buf, e, n) = buf
      /\ n = 1 => OfferTwice(buf, e, n) = one
      /\ n = 2 => OfferTwice(buf, e, n) = two
  BY <1>0, <1>1 DEF OfferTwice, Offer
<1> HIDE DEF one, two
<1>4. n = 0 \/ n = 1 \/ n = 2
  OBVIOUS
<1>5. CASE n = 0
  BY <1>3, <1>5
<1>6. CASE n = 1
  BY <1>1, <1>3, <1>6
<1>7. CASE n = 2
  <2>1. new = two
    BY <1>3, <1>7
  <2>2. \A j \in DOMAIN buf : j \in DOMAIN two /\ two[j] = buf[j]
    BY <1>1, <1>2
  <2>3. Len(one) \in DOMAIN two /\ two[Len(one)] = e
    BY <1>1, <1>2
  <2>4. QED
    BY <2>1, <2>2, <2>3
<1>8. QED
  BY <1>4, <1>5, <1>6, <1>7

\* Taking the head of a sequence leaves every other element in it.
LEMMA TailKeeps ==
  ASSUME NEW s \in Seq(Nat), s # <<>>
  PROVE  \A j \in DOMAIN s : j = 1 \/ (j - 1 \in DOMAIN Tail(s) /\ Tail(s)[j - 1] = s[j])
<1>1. /\ Len(s) \in Nat /\ DOMAIN s = 1 .. Len(s)
      /\ DOMAIN Tail(s) = 1 .. Len(s) - 1
      /\ \A i \in 1 .. Len(s) - 1 : Tail(s)[i] = s[i + 1]
  OBVIOUS
<1>2. \A j \in 1 .. Len(s) : j = 1 \/ j - 1 \in 1 .. Len(s) - 1
  BY <1>1
<1>3. QED
  BY <1>1, <1>2

\* A channel that is not full takes every event of its filter.
LEMMA PublishComplete ==
  ASSUME IInv, NEW m \in Filter, Publish(m), NEW c \in Client, Complete(c)
  PROVE  Complete(c)'
<1>0. TypeOK /\ NoSendOnClosed
  BY DEF IInv
<1>1. /\ seq \in Nat /\ joined[c] \in Nat /\ Offers(c, m) \in 0 .. 2
      /\ channel[c] \in Seq(Nat) /\ Len(channel[c]) \in Nat
  BY <1>0, OffersTyped DEF TypeOK
<1>2. /\ seq' = seq + 1
      /\ channel'[c] = OfferTwice(channel[c], seq + 1, Offers(c, m))
      /\ received' = received /\ filter' = filter /\ pc' = pc /\ joined' = joined
  BY DEF Publish
<1>3. (\A s \in 1 .. seq : log'[s] = log[s]) /\ log'[seq + 1].mission = m
  BY DEF IInv, TypeOK, JournalWellFormed, Publish
<1> SUFFICES ASSUME pc[c] = "live", ~dropped'[c], NEW s \in Wanted(c, joined[c])'
             PROVE  s \in Seen(c) \cup Buffered(c)'
  BY <1>2 DEF Complete, Seen
<1>4. Len(channel[c]) + Offers(c, m) <= BufCap /\ ~dropped[c]
  <2>1. ~dropped[c] /\ ~(Len(channel[c]) + Offers(c, m) > BufCap)
    BY Zenon DEF Publish
  <2>2. BufCap \in Nat
    BY BufCapAssumption
  <2>3. QED
    BY <1>1, <2>1, <2>2
<1>5. /\ \A j \in DOMAIN channel[c] : j \in DOMAIN channel'[c] /\ channel'[c][j] = channel[c][j]
      /\ Offers(c, m) > 0 => \E j \in DOMAIN channel'[c] : channel'[c][j] = seq + 1
  BY <1>1, <1>2, <1>4, OfferKeeps
<1>6. s \in (joined[c] + 1) .. (seq + 1) /\ Matches(log'[s], filter[c])
  BY <1>2 DEF Wanted
<1>7. CASE s \in 1 .. seq
  <2>1. s \in Wanted(c, joined[c])
    BY <1>1, <1>3, <1>6, <1>7 DEF Wanted
  <2>2. s \in Seen(c) \cup Buffered(c)
    BY <1>4, <2>1 DEF Complete
  <2>3. QED
    BY <1>5, <2>2 DEF Buffered
<1>8. CASE s = seq + 1
  <2>1. filter[c] = NoMission \/ filter[c] = m
    BY <1>3, <1>6, <1>8 DEF Matches
  <2>2. c \in subs[filter[c]] /\ filter[c] \in Filter
    BY <1>0 DEF TypeOK, NoSendOnClosed
  <2>3. Offers(c, m) > 0
    BY <2>1, <2>2 DEF Offers
  <2>4. QED
    BY <1>5, <1>8, <2>3 DEF Buffered
<1>9. QED
  BY <1>1, <1>6, <1>7, <1>8

\* A client writes what it takes from its channel.
LEMMA ClientComplete ==
  ASSUME IInv, NEW c \in Client, StepOf(c), \A d \in Client : Complete(d), NEW d \in Client
  PROVE  Complete(d)'
<1>0. TypeOK /\ Complete(d)
  BY DEF IInv
<1>1. seq' = seq /\ log' = log
  BY OtherClients
<1>2. CASE d # c
  <2>1. /\ pc'[d] = pc[d] /\ filter'[d] = filter[d] /\ received'[d] = received[d]
        /\ joined'[d] = joined[d] /\ channel'[d] = channel[d] /\ dropped'[d] = dropped[d]
    BY <1>0, <1>2 DEF TypeOK, StepOf, Connect, WriteCatchup, Subscribe, WriteLive, AbortCatchup,
                      Disconnect, Unsubscribe, busVars
  <2>2. QED
    BY <1>0, <1>1, <2>1 DEF Complete, Wanted, Seen, Buffered
<1>3. CASE d = c /\ pc'[c] # "live"
  BY <1>3 DEF Complete
<1>4. CASE d = c /\ Subscribe(c)
  <2>1. joined'[c] = seq /\ seq \in Nat
    BY <1>0, <1>4 DEF TypeOK, Subscribe
  <2>2. Wanted(c, joined[c])' = {}
    BY <1>1, <2>1 DEF Wanted
  <2>3. QED
    BY <1>4, <2>2 DEF Complete
<1>5. CASE d = c /\ WriteLive(c)
  <2>1. /\ received[c] \in Seq(Nat) /\ channel[c] \in Seq(Nat) /\ channel[c] # <<>>
        /\ received'[c] = Append(received[c], Head(channel[c])) /\ channel'[c] = Tail(channel[c])
        /\ pc' = pc /\ filter' = filter /\ joined' = joined /\ dropped' = dropped
    BY <1>0, <1>5 DEF TypeOK, WriteLive
  <2>2. \A i \in DOMAIN received[c] : i \in DOMAIN received'[c] /\ received'[c][i] = received[c][i]
    BY <2>1
  <2>3. /\ Len(received[c]) + 1 \in DOMAIN received'[c]
        /\ received'[c][Len(received[c]) + 1] = channel[c][1]
    BY <2>1
  <2>4. \A j \in DOMAIN channel[c] :
           j = 1 \/ (j - 1 \in DOMAIN channel'[c] /\ channel'[c][j - 1] = channel[c][j])
    BY <2>1, TailKeeps
  <2>5. Seen(c) \cup Buffered(c) \subseteq (Seen(c) \cup Buffered(c))'
    BY <2>2, <2>3, <2>4 DEF Seen, Buffered
  <2>6. Wanted(c, joined[c])' = Wanted(c, joined[c])
    BY <1>1, <2>1 DEF Wanted
  <2>7. QED
    BY <1>0, <1>5, <2>1, <2>5, <2>6 DEF Complete
<1>6. StepOf(c) => pc'[c] # "live" \/ Subscribe(c) \/ WriteLive(c)
  BY <1>0 DEF TypeOK, StepOf, Connect, WriteCatchup, AbortCatchup, Disconnect, Unsubscribe, busVars
<1>7. QED
  BY <1>2, <1>3, <1>4, <1>5, <1>6

\* While a subscription lasts and its channel has never been full, no matching event is
\* lost (bus.go:57-66, events.go:72-84).
THEOREM StreamsComplete == Spec => []LiveStreamComplete
<1> DEFINE J == \A c \in Client : Complete(c)
<1>1. Init => J
  BY DEF Init, Complete
<1>2. IInv /\ J /\ [Next]_vars => J'
  <2> SUFFICES ASSUME IInv, J, [Next]_vars PROVE J'
    OBVIOUS
  <2>1. CASE UNCHANGED vars
    BY <2>1 DEF vars, Complete, Wanted, Seen, Buffered
  <2>2. CASE Next
    BY <2>2, NextSteps, PublishComplete, ClientComplete
  <2>3. QED
    BY <2>1, <2>2
<1>3. J => LiveStreamComplete
  BY DEF Complete, LiveStreamComplete
<1>4. QED
  BY <1>1, <1>2, <1>3, Invariance, PTL DEF Spec
=============================================================================
