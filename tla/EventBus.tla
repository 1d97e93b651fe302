------------------------------- MODULE EventBus -------------------------------
(***************************************************************************)
(* The event journal (kernel/pkg/eventbus/bus.go) and the WebSocket stream *)
(* that serves it (kernel/pkg/httpapi/events.go).                          *)
(*                                                                         *)
(* The journal is one growing log with a global sequence number.  A stream *)
(* client asks for the events after `since', is first sent the matching    *)
(* part of the journal (catch-up), is then subscribed, and from there on   *)
(* receives what publishers put in its channel.  Publishing never blocks:  *)
(* a channel that is full loses the event.  When the connection ends the   *)
(* handler returns at once; the channel is taken off the bus and closed by *)
(* a goroutine of its own, some time later.                                *)
(*                                                                         *)
(* An event is represented by its sequence number; what the stream needs   *)
(* to know of it besides, its mission, is in the journal.                  *)
(***************************************************************************)
EXTENDS Integers, Sequences, FiniteSets

CONSTANTS
  Mission,     \* mission ids
  NoMission,   \* the empty mission id: an event of no mission, or "no filter"
  Client,      \* hosts that follow the event stream
  BufCap,      \* capacity of a subscriber's channel (128 in the code)
  MaxEvents    \* bound on the length of the journal

ASSUME MissionAssumption == NoMission \notin Mission
ASSUME BufCapAssumption == BufCap \in Nat \ {0}
ASSUME MaxEventsAssumption == MaxEvents \in Nat

Filter == Mission \cup {NoMission}

VARIABLES
  seq,      \* MemoryBus.seq
  log,      \* MemoryBus.log: events [seq, mission]
  subs,     \* MemoryBus.subs: filter -> channels, a channel named by its client
  channel,  \* client -> buffered events of its channel
  open,     \* clients whose channel has been made and not been closed
  pc,       \* client -> where its handler is
  filter,   \* client -> the mission query parameter of its connection
  catchup,  \* client -> journal events still to be written before going live
  received, \* client -> what has been written to its sockets so far
  joined,   \* client -> value of seq when its subscription was made
  dropped   \* client -> has a full channel lost an event of this connection?

busVars == <<seq, log, subs, channel, open>>
vars == <<seq, log, subs, channel, open, pc, filter, catchup, received, joined,
          dropped>>

Matches(e, f) == f = NoMission \/ e.mission = f

\* The last event a client has seen: what it passes as `since' when it connects.
LastSeen(c) == IF received[c] = <<>> THEN 0 ELSE received[c][Len(received[c])]

\* Mutant: the last event seen is sent again.
EventsFrom(since, f) ==
  {log[i].seq : i \in {j \in DOMAIN log : log[j].seq >= since /\ Matches(log[j], f)}}

\* Since, filtered by mission: the catch-up part of the journal.
EventsSince(since, f) ==
  {log[i].seq : i \in {j \in DOMAIN log : log[j].seq > since /\ Matches(log[j], f)}}

Init ==
  /\ seq = 0
  /\ log = <<>>
  /\ subs = [f \in Filter |-> {}]
  /\ channel = [c \in Client |-> <<>>]
  /\ open = {}
  /\ pc = [c \in Client |-> "away"]
  /\ filter = [c \in Client |-> NoMission]
  /\ catchup = [c \in Client |-> {}]
  /\ received = [c \in Client |-> <<>>]
  /\ joined = [c \in Client |-> 0]
  /\ dropped = [c \in Client |-> FALSE]

-----------------------------------------------------------------------------
\* Publishers

\* Mutant: only unfiltered subscribers are served.
OffersToAll(c, m) == IF c \in subs[NoMission] THEN 1 ELSE 0

\* Publish walks subs[mission] and then subs[""]: how many times it offers an
\* event of mission m to the channel of c.
Offers(c, m) ==
  (IF c \in subs[m] THEN 1 ELSE 0) + (IF c \in subs[NoMission] THEN 1 ELSE 0)

\* A non-blocking send: the event is lost when the channel is full.
Offer(buf, e) == IF Len(buf) < BufCap THEN Append(buf, e) ELSE buf

OfferTwice(buf, e, n) ==
  IF n = 0 THEN buf ELSE IF n = 1 THEN Offer(buf, e) ELSE Offer(Offer(buf, e), e)

Publish(m) ==
  /\ seq < MaxEvents
  /\ seq' = seq + 1
  /\ log' = Append(log, [seq |-> seq', mission |-> m])
  /\ channel' = [c \in Client |-> OfferTwice(channel[c], seq', Offers(c, m))]
  /\ dropped' = [c \in Client |->
                   dropped[c] \/ Len(channel[c]) + Offers(c, m) > BufCap]
  /\ UNCHANGED <<subs, open, pc, filter, catchup, received, joined>>

-----------------------------------------------------------------------------
\* The stream handler, apiEvents, and its client

\* A client connects (again), naming the last event it has seen.
Connect(c, f) ==
  /\ pc[c] = "away"
  /\ f = filter[c] \/ received[c] = <<>>
  /\ filter' = [filter EXCEPT ![c] = f]
  /\ catchup' = [catchup EXCEPT ![c] = EventsSince(LastSeen(c), f)]
  /\ pc' = [pc EXCEPT ![c] = "catchup"]
  /\ dropped' = [dropped EXCEPT ![c] = FALSE]
  /\ UNCHANGED <<busVars, received, joined>>

WriteCatchup(c) ==
  /\ pc[c] = "catchup"
  /\ \E e \in catchup[c] :
       /\ \A x \in catchup[c] : e <= x
       /\ received' = [received EXCEPT ![c] = Append(@, e)]
       /\ catchup' = [catchup EXCEPT ![c] = @ \ {e}]
  /\ UNCHANGED <<busVars, pc, filter, joined, dropped>>

Subscribe(c) ==
  /\ pc[c] = "catchup"
  /\ catchup[c] = {}
  /\ channel' = [channel EXCEPT ![c] = <<>>]
  /\ open' = open \cup {c}
  /\ subs' = [subs EXCEPT ![filter[c]] = @ \cup {c}]
  /\ joined' = [joined EXCEPT ![c] = seq]
  /\ pc' = [pc EXCEPT ![c] = "live"]
  /\ UNCHANGED <<seq, log, filter, catchup, received, dropped>>

\* Mutant: the handler selects once instead of in a loop.
WriteOneLive(c) ==
  /\ pc[c] = "live"
  /\ channel[c] # <<>>
  /\ LastSeen(c) <= joined[c]
  /\ received' = [received EXCEPT ![c] = Append(@, Head(channel[c]))]
  /\ channel' = [channel EXCEPT ![c] = Tail(@)]
  /\ UNCHANGED <<seq, log, subs, open, pc, filter, catchup, joined, dropped>>

WriteLive(c) ==
  /\ pc[c] = "live"
  /\ channel[c] # <<>>
  /\ received' = [received EXCEPT ![c] = Append(@, Head(channel[c]))]
  /\ channel' = [channel EXCEPT ![c] = Tail(@)]
  /\ UNCHANGED <<seq, log, subs, open, pc, filter, catchup, joined, dropped>>

\* The connection ends during catch-up: a write fails and the handler returns
\* before it has subscribed.
AbortCatchup(c) ==
  /\ pc[c] = "catchup"
  /\ catchup[c] # {}
  /\ catchup' = [catchup EXCEPT ![c] = {}]
  /\ pc' = [pc EXCEPT ![c] = "away"]
  /\ UNCHANGED <<busVars, filter, received, joined, dropped>>

\* The connection of a live stream ends: the handler returns, the channel is
\* still on the bus and still filled by publishers.
Disconnect(c) ==
  /\ pc[c] = "live"
  /\ pc' = [pc EXCEPT ![c] = "leaving"]
  /\ UNCHANGED <<busVars, filter, catchup, received, joined, dropped>>

\* Mutant: the channel is closed and left on the bus.
CloseOnly(c) ==
  /\ pc[c] = "leaving"
  /\ open' = open \ {c}
  /\ channel' = [channel EXCEPT ![c] = <<>>]
  /\ pc' = [pc EXCEPT ![c] = "away"]
  /\ UNCHANGED <<seq, log, subs, filter, catchup, received, joined, dropped>>

\* The goroutine Subscribe started sees ctx.Done: it removes the channel and
\* closes it in one critical section.
Unsubscribe(c) ==
  /\ pc[c] = "leaving"
  /\ subs' = [subs EXCEPT ![filter[c]] = @ \ {c}]
  /\ open' = open \ {c}
  /\ channel' = [channel EXCEPT ![c] = <<>>]
  /\ pc' = [pc EXCEPT ![c] = "away"]
  /\ UNCHANGED <<seq, log, filter, catchup, received, joined, dropped>>

Stream(c) == WriteCatchup(c) \/ Subscribe(c) \/ WriteLive(c)

Next ==
  \/ \E m \in Filter : Publish(m)
  \/ \E c \in Client :
       \/ \E f \in Filter : Connect(c, f)
       \/ Stream(c)
       \/ AbortCatchup(c)
       \/ Disconnect(c)
       \/ Unsubscribe(c)

Spec == Init /\ [][Next]_vars

\* The handler keeps writing while the connection lasts and the unsubscribing
\* goroutine runs; nothing obliges anyone to publish, connect or disconnect.
Fairness == \A c \in Client : WF_vars(Stream(c)) /\ WF_vars(Unsubscribe(c))

FairSpec == Spec /\ Fairness

-----------------------------------------------------------------------------
\* Properties

Seen(c) == {received[c][i] : i \in DOMAIN received[c]}
Buffered(c) == {channel[c][i] : i \in DOMAIN channel[c]}
StrictlyIncreasing(s) == \A i, j \in DOMAIN s : i < j => s[i] < s[j]

\* The journalled events after `since' that a client's filter lets through.
Wanted(c, since) == {s \in (since + 1) .. seq : Matches(log[s], filter[c])}

\* The types of the bus (bus.go:33) and of the stream handlers (events.go:19); no
\* channel holds more than it was made for.
TypeOK ==
  /\ seq \in Nat
  /\ log \in Seq([seq : Nat, mission : Filter])
  /\ subs \in [Filter -> SUBSET Client]
  /\ channel \in [Client -> Seq(Nat)]
  /\ \A c \in Client : Len(channel[c]) <= BufCap
  /\ open \in SUBSET Client
  /\ pc \in [Client -> {"away", "catchup", "live", "leaving"}]
  /\ filter \in [Client -> Filter]
  /\ catchup \in [Client -> SUBSET Nat]
  /\ received \in [Client -> Seq(Nat)]
  /\ joined \in [Client -> Nat]
  /\ dropped \in [Client -> BOOLEAN]

\* The position of an event in the journal is its sequence number: what makes
\* "everything after since" the right catch-up request (Publish, bus.go:47-55).
JournalWellFormed == seq = Len(log) /\ \A i \in DOMAIN log : log[i].seq = i

\* A channel is on the bus under its client's filter exactly while it is open, so
\* no publisher ever sends on a closed channel (which would bring the process
\* down) and no abandoned channel stays on the bus (bus.go:57-66 and 76-89).
NoSendOnClosed ==
  \A c \in Client :
    /\ \A f \in Filter : c \in subs[f] <=> (c \in open /\ filter[c] = f)
    /\ c \in open <=> pc[c] \in {"live", "leaving"}

\* A client that follows one mission sees that mission's events in journal order,
\* each at most once, over catch-up, live delivery and any number of
\* reconnections with the last sequence number it saw (events.go:58-84).
MissionStreamInOrder ==
  \A c \in Client :
    filter[c] # NoMission =>
      /\ StrictlyIncreasing(received[c])
      /\ \A e \in Seen(c) : e \in 1 .. seq /\ log[e].mission = filter[c]

\* While a subscription lasts and its channel has never been full, every matching
\* event published since it was made has been written to the client or waits in
\* the channel: a full channel is the only way a live stream loses one.
LiveStreamComplete ==
  \A c \in Client :
    pc[c] = "live" /\ ~dropped[c] =>
      Wanted(c, joined[c]) \subseteq Seen(c) \cup Buffered(c)

\* What waits in the channel of a live stream reaches its client, unless the
\* connection ends (the loop of apiEvents, events.go:72-84).
BufferedReachesClient ==
  \A c \in Client, e \in 1 .. MaxEvents :
    (pc[c] = "live" /\ e \in Buffered(c)) ~> (e \in Seen(c) \/ pc[c] # "live")

\* events.go:18 promises a "live stream with catch-up": a client that began at the
\* start of the journal and is up to date with its channel has missed nothing.
\* The code reads the journal before it subscribes.
CatchUpThenLiveIsGapFree ==
  \A c \in Client :
    pc[c] = "live" /\ ~dropped[c] => Wanted(c, 0) \subseteq Seen(c) \cup Buffered(c)
=============================================================================
