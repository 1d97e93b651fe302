----------------------------- MODULE McpClientProofs -----------------------------
(***************************************************************************)
(* What TLAPS proves of McpClient, for any servers, connections, callers   *)
(* and tools that satisfy its assumptions.                                 *)
(*                                                                         *)
(* The inductive invariant IInv has two parts beside the types.            *)
(* SessionInv says who holds the mutex of a session, that at most one      *)
(* request or its answer is on its way over a session that nothing has     *)
(* disturbed (OnItsWay; two while a Connect has sent its notification),    *)
(* and that a dead process has nothing left to read.  ManagerInv says what *)
(* a server may have in the router and in procs while a Connect is still   *)
(* under way (Unconnected), and that what was offered and is not left is   *)
(* registered: only at rest do the status and the router agree.            *)
(***************************************************************************)
EXTENDS McpClient, SequenceTheorems, TLAPS

\* What is sent over a session and what comes back.
Wire == {"initialize", "notifications/initialized", "tools/list", "tools/call"}
Request == [id : Nat, kind : Wire]
Reply == [id : Nat, kind : Wire, ok : BOOLEAN]

Program == {"idle", "spawn", "query", "initialize", "list", "register", "error", "returned"}

ManagerTyped ==
  /\ servers \in [Server -> {"none", "stdio", "http"}]
  /\ status \in [Server -> {"none", "disconnected", "connected", "error"}]
  /\ listed \in [Server -> SUBSET Name]
  /\ procs \in [Server -> Conn \cup {NoConn}]
  /\ deleting \in SUBSET Server
  /\ tools \in [Server -> [Name -> Conn \cup {NoConn}]]
  /\ changes \in 0 .. MaxChanges /\ calls \in 0 .. MaxCalls

ConnectTyped ==
  /\ pc \in [Conn -> Program]
  /\ target \in [Conn -> Server]
  /\ offered \in [Conn -> SUBSET Name] /\ left \in [Conn -> SUBSET Name]
  /\ \A c \in Conn : left[c] \subseteq offered[c]
  /\ started \in SUBSET Conn
  /\ alive \subseteq started /\ alive \cap gone = {}

PipeTyped ==
  /\ stdin \in [Conn -> Seq(Request)] /\ stdout \in [Conn -> Seq(Reply)]
  /\ sent \in [Conn -> Nat]
  /\ holder \in [Conn -> Caller \cup {"none"}]
  /\ call \in [Caller -> {"idle", "ready", "waiting"}]
  /\ session \in [Caller -> Conn \cup {NoConn}]
  /\ mine \in [Caller -> Nat]

-----------------------------------------------------------------------------
\* A handler in the router, or one a caller has taken, is of a connection that has listed.
Listed(c) == pc[c] \in {"register", "returned"}

HandlersListed ==
  /\ \A s \in Server, n \in Name : tools[s][n] # NoConn => Listed(tools[s][n])
  /\ \A k \in Caller : call[k] # "idle" => session[k] \in started /\ Listed(session[k])

\* The mutex of a session is held by the caller that waits for an answer to its last request.
MutexHeld ==
  /\ \A c \in Conn : holder[c] # "none" =>
       /\ call[holder[c]] = "waiting" /\ session[holder[c]] = c /\ mine[holder[c]] = sent[c]
       /\ Listed(c)
  /\ \A k \in Caller : call[k] = "waiting" => holder[session[k]] = k

\* Nothing is on its way over a session; at most one request, or its answer, is.
Silent(c) == stdin[c] = <<>> /\ stdout[c] = <<>>

Answers(out, kind, id) == Len(out) = 1 /\ out[1].kind = kind /\ out[1].id = id

OneOnItsWay(c, kind, id) ==
  \/ Silent(c)
  \/ stdin[c] = <<Message(id, kind)>> /\ stdout[c] = <<>>
  \/ stdin[c] = <<>> /\ Answers(stdout[c], kind, id)

\* What is on its way where a Connect is, or a call.
OnItsWay(c) ==
  /\ pc[c] = "initialize" => OneOnItsWay(c, "initialize", sent[c])
  /\ pc[c] = "list" =>
       \/ OneOnItsWay(c, "tools/list", sent[c])
       \/ /\ stdin[c] = <<Message(sent[c] - 1, "notifications/initialized"),
                          Message(sent[c], "tools/list")>>
          /\ stdout[c] = <<>>
  /\ pc[c] \notin {"initialize", "list"} =>
       IF holder[c] = "none" THEN Silent(c) ELSE OneOnItsWay(c, "tools/call", sent[c])

SessionInv ==
  /\ HandlersListed /\ MutexHeld
  /\ \A c \in Conn \ alive : stdin[c] = <<>>
  /\ \A c \in Conn \ noisy : OnItsWay(c)

-----------------------------------------------------------------------------
\* A server that is not connected has what a Connect still under way has given it.
Unconnected(s) ==
  status[s] \in {"none", "disconnected"} =>
    /\ Registered(s) # {} => \E c \in Conn : target[c] = s /\ pc[c] = "register"
    /\ procs[s] \in alive =>
         /\ target[procs[s]] = s
         /\ pc[procs[s]] \in {"initialize", "list", "register", "error"}

Kept(s) ==
  /\ Unconnected(s)
  /\ status[s] = "connected" => listed[s] \subseteq Registered(s)
  /\ \A c \in Conn : target[c] = s /\ pc[c] = "register" =>
       offered[c] \ left[c] \subseteq Registered(s)

ManagerInv ==
  /\ \A s \in Server : procs[s] # NoConn => target[procs[s]] = s
  /\ \A s \in Server \ torn : Kept(s)

IInv == ManagerTyped /\ ConnectTyped /\ PipeTyped /\ SessionInv /\ ManagerInv

-----------------------------------------------------------------------------
\* The start, and what is written

\* The invariant holds before the first configuration.
LEMMA InitIInv == Init => IInv
<1> SUFFICES ASSUME Init PROVE IInv
  OBVIOUS
<1>1. ManagerTyped /\ ConnectTyped
  BY BoundAssumption DEF Init, ManagerTyped, ConnectTyped, Program
<1>2. PipeTyped
  <2>1. <<>> \in Seq(Request) /\ <<>> \in Seq(Reply) /\ 0 \in Nat
    OBVIOUS
  <2>2. QED
    BY <2>1 DEF Init, PipeTyped
<1>3. SessionInv
  <2>1. HandlersListed /\ MutexHeld
    BY DEF Init, HandlersListed, MutexHeld
  <2>2. \A c \in Conn : OnItsWay(c)
    BY DEF Init, OnItsWay, Silent
  <2>3. QED
    BY <2>1, <2>2 DEF Init, SessionInv
<1>4. ManagerInv
  <2>1. \A s \in Server : Registered(s) = {} /\ procs[s] \notin alive
    BY DEF Init, Registered
  <2>2. QED
    BY <2>1 DEF Init, ManagerInv, Kept, Unconnected
<1>5. QED
  BY <1>1, <1>2, <1>3, <1>4 DEF IInv

\* One request more, or two.
LEMMA Written ==
  ASSUME PipeTyped, NEW c \in Conn, NEW kinds \in Seq(Wire), Write(c, kinds)
  PROVE  /\ sent' \in [Conn -> Nat] /\ sent'[c] = sent[c] + Len(kinds)
         /\ stdin' \in [Conn -> Seq(Request)]
         /\ stdin'[c] = stdin[c] \o [i \in DOMAIN kinds |-> Message(sent[c] + i, kinds[i])]
         /\ \A d \in Conn : d # c => sent'[d] = sent[d] /\ stdin'[d] = stdin[d]
<1> DEFINE more == [i \in DOMAIN kinds |-> Message(sent[c] + i, kinds[i])]
<1>1. Len(kinds) \in Nat /\ DOMAIN kinds = 1 .. Len(kinds) /\ sent[c] \in Nat
  BY DEF PipeTyped
<1>2. \A i \in 1 .. Len(kinds) : Message(sent[c] + i, kinds[i]) \in Request
  BY <1>1 DEF Message, Request
<1>3. more \in Seq(Request)
  <2>1. more \in [1 .. Len(kinds) -> Request]
    BY <1>1, <1>2
  <2>2. QED
    BY <1>1, <2>1
<1>4. stdin[c] \o more \in Seq(Request)
  BY <1>3 DEF PipeTyped
<1>5. /\ sent' = [sent EXCEPT ![c] = sent[c] + Len(kinds)]
      /\ stdin' = [stdin EXCEPT ![c] = stdin[c] \o more]
  BY DEF Write
<1> HIDE DEF more
<1>6. /\ stdin' \in [Conn -> Seq(Request)] /\ stdin'[c] = stdin[c] \o more
      /\ \A d \in Conn : d # c => stdin'[d] = stdin[d]
  BY <1>4, <1>5 DEF PipeTyped
<1>7. /\ sent' \in [Conn -> Nat] /\ sent'[c] = sent[c] + Len(kinds)
      /\ \A d \in Conn : d # c => sent'[d] = sent[d]
  BY <1>1, <1>5 DEF PipeTyped
<1>8. QED
  BY <1>6, <1>7 DEF more

\* A request written where nothing waits to be read.
LEMMA WrittenAlone ==
  ASSUME PipeTyped, NEW c \in Conn, NEW kind \in Wire, Write(c, <<kind>>), stdin[c] = <<>>
  PROVE  sent'[c] = sent[c] + 1 /\ stdin'[c] = <<Message(sent'[c], kind)>>
<1> DEFINE ks == <<kind>>
<1>1. ks \in Seq(Wire) /\ Len(ks) = 1 /\ DOMAIN ks = 1 .. 1 /\ ks[1] = kind
  OBVIOUS
<1>2. Write(c, ks)
  OBVIOUS
<1> HIDE DEF ks
<1>3. /\ sent'[c] = sent[c] + Len(ks)
      /\ stdin'[c] = <<>> \o [i \in DOMAIN ks |-> Message(sent[c] + i, ks[i])]
  BY <1>1, <1>2, Written
<1>4. [i \in DOMAIN ks |-> Message(sent[c] + i, ks[i])] = <<Message(sent[c] + 1, kind)>>
  BY <1>1
<1>5. sent[c] \in Nat /\ sent'[c] = sent[c] + 1
  BY <1>1, <1>3 DEF PipeTyped
<1>6. QED
  BY <1>3, <1>4, <1>5

\* A notification and a request written together (client.go:219-222).
LEMMA WrittenPair ==
  ASSUME PipeTyped, NEW c \in Conn, NEW k \in Wire, NEW l \in Wire, Write(c, <<k, l>>),
         stdin[c] = <<>>
  PROVE  /\ sent'[c] = sent[c] + 2
         /\ stdin'[c] = <<Message(sent'[c] - 1, k), Message(sent'[c], l)>>
<1> DEFINE ks == <<k, l>>
<1>1. ks \in Seq(Wire) /\ Len(ks) = 2 /\ DOMAIN ks = 1 .. 2 /\ ks[1] = k /\ ks[2] = l
  OBVIOUS
<1>2. Write(c, ks)
  OBVIOUS
<1> HIDE DEF ks
<1>3. /\ sent'[c] = sent[c] + Len(ks)
      /\ stdin'[c] = <<>> \o [i \in DOMAIN ks |-> Message(sent[c] + i, ks[i])]
  BY <1>1, <1>2, Written
<1>4. [i \in DOMAIN ks |-> Message(sent[c] + i, ks[i])]
        = <<Message(sent[c] + 1, k), Message(sent[c] + 2, l)>>
  BY <1>1
<1>5. sent[c] \in Nat /\ sent'[c] = sent[c] + 2 /\ sent'[c] - 1 = sent[c] + 1
  BY <1>1, <1>3 DEF PipeTyped
<1>6. QED
  BY <1>3, <1>4, <1>5

-----------------------------------------------------------------------------
\* Types

Typed == ManagerTyped /\ ConnectTyped /\ PipeTyped
TypedNext == ManagerTyped' /\ ConnectTyped' /\ PipeTyped'

\* A killed process reads nothing more.
LEMMA Killed ==
  ASSUME Typed, NEW c, Kill(c)
  PROVE  /\ alive' = alive \ {c}
         /\ stdin' \in [Conn -> Seq(Request)]
         /\ \A d \in Conn : stdin'[d] = IF d = c THEN <<>> ELSE stdin[d]
<1>1. \A d \in Conn : stdin[d] \in Seq(Request) /\ <<>> \in Seq(Request)
  BY DEF Typed, PipeTyped
<1>2. QED
  BY <1>1 DEF Kill

\* The bounds stay bounds.
LEMMA Counted ==
  ASSUME ManagerTyped
  PROVE  /\ changes < MaxChanges => changes + 1 \in 0 .. MaxChanges
         /\ calls < MaxCalls => calls + 1 \in 0 .. MaxCalls
  BY BoundAssumption DEF ManagerTyped

\* The types across what hosts do.
LEMMA HostTyped ==
  ASSUME Typed, NEW s \in Server, Upsert(s) \/ Disconnect(s) \/ Delete(s) \/ Forget(s)
  PROVE  TypedNext
<1>1. CASE Upsert(s)
  <2>1. ManagerTyped'
    BY <1>1, Counted DEF Upsert, Change, Typed, ManagerTyped
  <2>2. QED
    BY <1>1, <2>1 DEF Upsert, connectVars, pipeVars, callVars, Typed, TypedNext, ConnectTyped, PipeTyped
<1>2. CASE Disconnect(s) \/ Delete(s)
  <2>1. Drop(s) /\ Change /\ deleting' \in SUBSET Server
    BY <1>2 DEF Disconnect, Delete, Typed, ManagerTyped
  <2>2. tools' \in [Server -> [Name -> Conn \cup {NoConn}]]
    <3>1. \A t \in Server, n \in Name : tools[t][n] \in Conn \cup {NoConn}
      BY DEF Typed, ManagerTyped
    <3>2. QED
      BY <2>1, <3>1 DEF Drop, Without
  <2>3. changes' \in 0 .. MaxChanges
    BY <2>1, Counted DEF Change, Typed
  <2>4. ManagerTyped'
    BY <2>1, <2>2, <2>3 DEF Drop, Typed, ManagerTyped
  <2>5. Kill(procs[s])
    BY <2>1 DEF Drop
  <2>6. ConnectTyped'
    BY <2>1, <2>5, Killed DEF Drop, connectVars, Typed, ConnectTyped
  <2>7. PipeTyped'
    BY <2>1, <2>5, Killed DEF Drop, callVars, Typed, PipeTyped
  <2>8. QED
    BY <2>4, <2>6, <2>7 DEF TypedNext
<1>3. CASE Forget(s)
  <2>1. ManagerTyped'
    BY <1>3 DEF Forget, boundVars, Typed, ManagerTyped
  <2>2. QED
    BY <1>3, <2>1 DEF Forget, connectVars, pipeVars, callVars, Typed, TypedNext, ConnectTyped, PipeTyped
<1>4. QED
  BY <1>1, <1>2, <1>3

\* What the client reads is the first of what was answered.
LEMMA Taken ==
  ASSUME Typed, NEW c \in Conn, Take(c)
  PROVE  /\ stdout' \in [Conn -> Seq(Reply)] /\ stdout[c] # <<>> /\ stdout'[c] = Tail(stdout[c])
         /\ \A d \in Conn : d # c => stdout'[d] = stdout[d]
         /\ Head(stdout[c]) = stdout[c][1] /\ Head(stdout[c]) \in Reply
<1>1. stdout[c] \in Seq(Reply) /\ stdout[c] # <<>>
  BY DEF Take, Typed, PipeTyped
<1>2. Tail(stdout[c]) \in Seq(Reply) /\ Head(stdout[c]) = stdout[c][1] /\ Head(stdout[c]) \in Reply
  BY <1>1
<1>3. QED
  BY <1>1, <1>2 DEF Take, Typed, PipeTyped

OffersTyped ==
  /\ offered \in [Conn -> SUBSET Name] /\ left \in [Conn -> SUBSET Name]
  /\ \A c \in Conn : left[c] \subseteq offered[c]

\* A connection is offered tools, all of them still left.
LEMMA OffersStep ==
  ASSUME ConnectTyped, NEW c \in Conn,
         \/ UNCHANGED <<offered, left>>
         \/ \E ns \in SUBSET Name : /\ offered' = [offered EXCEPT ![c] = ns]
                                    /\ left' = [left EXCEPT ![c] = ns]
  PROVE  OffersTyped'
<1>1. CASE UNCHANGED <<offered, left>>
  BY <1>1 DEF ConnectTyped, OffersTyped
<1>2. ASSUME NEW ns \in SUBSET Name, offered' = [offered EXCEPT ![c] = ns],
             left' = [left EXCEPT ![c] = ns]
      PROVE  OffersTyped'
  BY <1>2 DEF ConnectTyped, OffersTyped
<1>3. QED
  BY <1>1, <1>2

\* What is sent together.
LEMMA WireKinds ==
  /\ <<"initialize">> \in Seq(Wire) /\ <<"tools/call">> \in Seq(Wire)
  /\ <<"notifications/initialized", "tools/list">> \in Seq(Wire)
  BY DEF Wire

\* The types across a Connect.
LEMMA ConnectingTyped ==
  ASSUME Typed, NEW c \in Conn, Connecting(c)
  PROVE  TypedNext
<1>1. ASSUME NEW l \in Program, Goto(c, l) PROVE pc' \in [Conn -> Program]
  BY <1>1 DEF Goto, Typed, ConnectTyped
<1>2. {"query", "spawn", "initialize", "list", "register", "error", "returned"} \subseteq Program
  BY DEF Program
<1>3. CASE Connect(c)
  <2>1. pc' \in [Conn -> Program]
    BY <1>1, <1>2, <1>3 DEF Connect
  <2>2. QED
    BY <1>3, <2>1 DEF Connect, managerVars, pipeVars, callVars, boundVars,
       Typed, TypedNext, ManagerTyped, ConnectTyped, PipeTyped
<1>4. CASE Spawn(c)
  <2>1. pc' \in [Conn -> Program]
    BY <1>1, <1>2, <1>4 DEF Spawn
  <2>2. ManagerTyped'
    BY <1>4 DEF Spawn, boundVars, Typed, ManagerTyped
  <2>3. started' \in SUBSET Conn /\ alive' \subseteq started' /\ alive' \cap gone' = {}
    BY <1>4 DEF Spawn, Typed, ConnectTyped
  <2>4. ConnectTyped'
    BY <1>4, <2>1, <2>3 DEF Spawn, Typed, ConnectTyped
  <2>5. stdin' \in [Conn -> Seq(Request)] /\ sent' \in [Conn -> Nat]
    <3>1. CASE Write(c, <<"initialize">>)
      BY <3>1, Written, WireKinds DEF Typed
    <3>2. CASE UNCHANGED <<stdin, sent>>
      BY <3>2 DEF Typed, PipeTyped
    <3>3. QED
      BY <1>4, <3>1, <3>2 DEF Spawn
  <2>6. PipeTyped'
    BY <1>4, <2>5 DEF Spawn, callVars, Typed, PipeTyped
  <2>7. QED
    BY <2>2, <2>4, <2>6 DEF TypedNext
<1>5. CASE TakeInitialize(c)
  <2>1. pc' \in [Conn -> Program]
    BY <1>1, <1>2, <1>5 DEF TakeInitialize
  <2>2. ManagerTyped' /\ ConnectTyped'
    BY <1>5, <2>1 DEF TakeInitialize, managerVars, boundVars, Typed, ManagerTyped, ConnectTyped
  <2>3. stdin' \in [Conn -> Seq(Request)] /\ sent' \in [Conn -> Nat]
    <3>1. CASE Write(c, <<"notifications/initialized", "tools/list">>)
      BY <3>1, Written, WireKinds DEF Typed
    <3>2. CASE UNCHANGED <<stdin, sent>>
      BY <3>2 DEF Typed, PipeTyped
    <3>3. QED
      BY <1>5, <3>1, <3>2 DEF TakeInitialize
  <2>4. stdout' \in [Conn -> Seq(Reply)]
    BY <1>5, Taken DEF TakeInitialize
  <2>5. PipeTyped'
    BY <1>5, <2>3, <2>4 DEF TakeInitialize, callVars, Typed, PipeTyped
  <2>6. QED
    BY <2>2, <2>5 DEF TypedNext
<1>6. CASE TakeList(c)
  <2>1. pc' \in [Conn -> Program]
    BY <1>1, <1>2, <1>6 DEF TakeList
  <2>2. ManagerTyped'
    BY <1>6 DEF TakeList, managerVars, boundVars, Typed, ManagerTyped
  <2>3. OffersTyped'
    BY <1>6, OffersStep DEF TakeList, Typed
  <2>4. ConnectTyped'
    BY <1>6, <2>1, <2>3 DEF TakeList, OffersTyped, Typed, ConnectTyped
  <2>5. stdout' \in [Conn -> Seq(Reply)]
    BY <1>6, Taken DEF TakeList
  <2>6. PipeTyped'
    BY <1>6, <2>5 DEF TakeList, callVars, Typed, PipeTyped
  <2>7. QED
    BY <2>2, <2>4, <2>6 DEF TypedNext
<1>7. CASE Query(c)
  <2>1. pc' \in [Conn -> Program]
    BY <1>1, <1>2, <1>7 DEF Query
  <2>2. OffersTyped'
    BY <1>7, OffersStep DEF Query, Typed
  <2>3. ConnectTyped'
    BY <1>7, <2>1, <2>2 DEF Query, pipeVars, OffersTyped, Typed, ConnectTyped
  <2>4. QED
    BY <1>7, <2>3 DEF Query, managerVars, pipeVars, callVars, boundVars,
       Typed, TypedNext, ManagerTyped, PipeTyped
<1>8. CASE ReadFails(c)
  <2>1. pc' \in [Conn -> Program]
    BY <1>1, <1>2, <1>8 DEF ReadFails
  <2>2. QED
    BY <1>8, <2>1 DEF ReadFails, managerVars, pipeVars, callVars, boundVars,
       Typed, TypedNext, ManagerTyped, ConnectTyped, PipeTyped
<1>9. CASE ConnectTimesOut(c)
  <2>1. pc' \in [Conn -> Program]
    BY <1>1, <1>2, <1>9 DEF ConnectTimesOut
  <2>2. QED
    BY <1>9, <2>1 DEF ConnectTimesOut, managerVars, pipeVars, callVars, boundVars,
       Typed, TypedNext, ManagerTyped, ConnectTyped, PipeTyped
<1>10. CASE RegisterTool(c)
  <2>1. PICK n \in left[c] : tools' = [tools EXCEPT ![target[c]][n] = c]
                            /\ left' = [left EXCEPT ![c] = @ \ {n}]
    BY <1>10 DEF RegisterTool
  <2>2. ManagerTyped'
    BY <1>10, <2>1 DEF RegisterTool, managerVars, boundVars, Typed, ManagerTyped, ConnectTyped
  <2>3. ConnectTyped'
    BY <1>10, <2>1 DEF RegisterTool, pipeVars, Typed, ConnectTyped
  <2>4. QED
    BY <1>10, <2>2, <2>3 DEF RegisterTool, pipeVars, callVars, Typed, TypedNext, PipeTyped
<1>11. CASE SetOK(c)
  <2>1. pc' \in [Conn -> Program]
    BY <1>1, <1>2, <1>11 DEF SetOK
  <2>2. ManagerTyped'
    BY <1>11 DEF SetOK, boundVars, Typed, ManagerTyped, ConnectTyped
  <2>3. QED
    BY <1>11, <2>1, <2>2 DEF SetOK, pipeVars, callVars, Typed, TypedNext, ConnectTyped, PipeTyped
<1>12. CASE SetErr(c)
  <2>1. pc' \in [Conn -> Program]
    BY <1>1, <1>2, <1>12 DEF SetErr
  <2>2. ManagerTyped'
    BY <1>12 DEF SetErr, boundVars, Typed, ManagerTyped, ConnectTyped
  <2>3. QED
    BY <1>12, <2>1, <2>2 DEF SetErr, pipeVars, callVars, Typed, TypedNext, ConnectTyped, PipeTyped
<1>13. QED
  BY <1>3, <1>4, <1>5, <1>6, <1>7, <1>8, <1>9, <1>10, <1>11, <1>12 DEF Connecting

\* The types across what a process does.
LEMMA ServingTyped ==
  ASSUME Typed, NEW c \in Conn, EndRequest(c) \/ Serve(c) \/ Exit(c)
  PROVE  TypedNext
<1>1. CASE EndRequest(c)
  <2>1. Kill(c) /\ gone' = gone \cup {c}
    BY <1>1 DEF EndRequest
  <2>2. ConnectTyped'
    BY <1>1, <2>1, Killed DEF EndRequest, Typed, ConnectTyped
  <2>3. PipeTyped'
    BY <1>1, <2>1, Killed DEF EndRequest, callVars, Typed, PipeTyped
  <2>4. QED
    BY <1>1, <2>2, <2>3 DEF EndRequest, managerVars, boundVars, Typed, TypedNext, ManagerTyped
<1>2. CASE Exit(c)
  <2>1. Kill(c)
    BY <1>2 DEF Exit
  <2>2. ConnectTyped'
    BY <1>2, <2>1, Killed DEF Exit, connectVars, Typed, ConnectTyped
  <2>3. PipeTyped'
    BY <1>2, <2>1, Killed DEF Exit, callVars, Typed, PipeTyped
  <2>4. QED
    BY <1>2, <2>2, <2>3 DEF Exit, managerVars, boundVars, Typed, TypedNext, ManagerTyped
<1>3. CASE Serve(c)
  <2> DEFINE m == Head(stdin[c])
  <2>1. stdin[c] \in Seq(Request) /\ stdin[c] # <<>> /\ stdout[c] \in Seq(Reply)
    BY <1>3 DEF Serve, Typed, PipeTyped
  <2>2. m \in Request /\ Tail(stdin[c]) \in Seq(Request)
    BY <2>1
  <2>3. \A ok \in BOOLEAN : Append(stdout[c], [id |-> m.id, kind |-> m.kind, ok |-> ok]) \in Seq(Reply)
    <3>1. \A ok \in BOOLEAN : [id |-> m.id, kind |-> m.kind, ok |-> ok] \in Reply
      BY <2>2 DEF Request, Reply
    <3>2. QED
      BY <2>1, <3>1
  <2>4. stdout' \in [Conn -> Seq(Reply)]
    <3>1. CASE UNCHANGED stdout
      BY <3>1 DEF Typed, PipeTyped
    <3>2. ASSUME NEW ok \in BOOLEAN,
                 stdout' = [stdout EXCEPT ![c] =
                              Append(@, [id |-> m.id, kind |-> m.kind, ok |-> ok])]
          PROVE  stdout' \in [Conn -> Seq(Reply)]
      BY <2>3, <3>2 DEF Typed, PipeTyped
    <3>3. QED
      BY <1>3, <3>1, <3>2 DEF Serve
  <2>5. stdin' \in [Conn -> Seq(Request)]
    BY <1>3, <2>2 DEF Serve, Typed, PipeTyped
  <2>6. PipeTyped'
    BY <1>3, <2>4, <2>5 DEF Serve, callVars, Typed, PipeTyped
  <2>7. QED
    BY <1>3, <2>6 DEF Serve, managerVars, connectVars, boundVars, Typed, TypedNext,
       ManagerTyped, ConnectTyped
<1>4. QED
  BY <1>1, <1>2, <1>3

\* The types across a call.
LEMMA CallingTyped ==
  ASSUME Typed, HandlersListed, NEW k \in Caller, Calling(k)
  PROVE  TypedNext
<1>1. CASE FindHandler(k)
  <2>1. PICK s \in Server, n \in Name :
          /\ tools[s][n] # NoConn /\ session' = [session EXCEPT ![k] = tools[s][n]]
    BY <1>1 DEF FindHandler
  <2>2. tools[s][n] \in Conn \cup {NoConn}
    BY DEF Typed, ManagerTyped
  <2>3. PipeTyped'
    BY <1>1, <2>1, <2>2 DEF FindHandler, pipeVars, Typed, PipeTyped
  <2>4. ManagerTyped'
    BY <1>1, Counted DEF FindHandler, managerVars, Typed, ManagerTyped
  <2>5. QED
    BY <1>1, <2>3, <2>4 DEF FindHandler, connectVars, pipeVars, Typed, TypedNext, ConnectTyped
<1>2. CASE call[k] # "idle" /\ UNCHANGED <<managerVars, tools, connectVars, started, alive, boundVars>>
  <2>1. session[k] \in Conn
    BY <1>2 DEF HandlersListed, Typed, ConnectTyped
  <2>2. ManagerTyped' /\ ConnectTyped'
    BY <1>2 DEF managerVars, connectVars, boundVars, Typed, ManagerTyped, ConnectTyped
  <2>3. CASE Send(k)
    <3>1. stdin' \in [Conn -> Seq(Request)] /\ sent' \in [Conn -> Nat]
      BY <2>1, <2>3, Written, WireKinds DEF Send, Typed
    <3>2. sent[session[k]] + 1 \in Nat
      BY <2>1 DEF Typed, PipeTyped
    <3>3. PipeTyped'
      BY <2>1, <2>3, <3>1, <3>2 DEF Send, Typed, PipeTyped
    <3>4. QED
      BY <2>2, <3>3 DEF TypedNext
  <2>4. CASE SendFails(k)
    <3>1. PipeTyped'
      BY <2>4 DEF SendFails, pipeVars, Typed, PipeTyped
    <3>2. QED
      BY <2>2, <3>1 DEF TypedNext
  <2>5. CASE Release(k) /\ (Take(session[k]) \/ stdout' = stdout)
    <3>1. stdout' \in [Conn -> Seq(Reply)]
      <4>1. CASE Take(session[k])
        BY <2>1, <4>1, Taken
      <4>2. CASE stdout' = stdout
        BY <4>2 DEF Typed, PipeTyped
      <4>3. QED
        BY <2>5, <4>1, <4>2
    <3>2. PipeTyped'
      BY <2>1, <2>5, <3>1 DEF Release, Typed, PipeTyped
    <3>3. QED
      BY <2>2, <3>2 DEF TypedNext
  <2>6. QED
    <3>1. ~ FindHandler(k)
      BY <1>2 DEF FindHandler
    <3>2. QED
      BY <3>1, <2>3, <2>4, <2>5 DEF Calling, Receive, CallFails, CallTimesOut
<1>3. QED
  BY <1>1, <1>2 DEF Calling, Send, SendFails, Receive, CallFails, CallTimesOut, Release, pipeVars

\* The types across any step.
LEMMA TypedStep ==
  ASSUME Typed, HandlersListed, [Next]_vars
  PROVE  TypedNext
<1>1. CASE UNCHANGED vars
  <2>1. ManagerTyped'
    BY <1>1 DEF vars, managerVars, boundVars, Typed, ManagerTyped
  <2>2. ConnectTyped'
    BY <1>1 DEF vars, connectVars, pipeVars, Typed, ConnectTyped
  <2>3. PipeTyped'
    BY <1>1 DEF vars, pipeVars, callVars, Typed, PipeTyped
  <2>4. QED
    BY <2>1, <2>2, <2>3 DEF TypedNext
<1>2. QED
  BY <1>1, HostTyped, ConnectingTyped, ServingTyped, CallingTyped DEF Next

\* Only a Connect moves on, and it does not go back.
LEMMA Moved ==
  ASSUME Typed, [Next]_vars
  PROVE  /\ started \subseteq started' /\ noisy \subseteq noisy' /\ torn \subseteq torn'
         /\ target' = target
         /\ pc' # pc => \E c \in Conn : Connecting(c)
         /\ \A c \in Conn : Listed(c) => Listed(c)'
<1>1. /\ started \subseteq started' /\ noisy \subseteq noisy' /\ torn \subseteq torn' /\ target' = target
  <2>1. CASE UNCHANGED vars
    BY <2>1 DEF vars, pipeVars, connectVars
  <2>2. ASSUME NEW s \in Server, Upsert(s) \/ Disconnect(s) \/ Delete(s) \/ Forget(s)
        PROVE  <1>1
    BY <2>2 DEF Upsert, Disconnect, Delete, Forget, Drop, pipeVars, connectVars
  <2>3. ASSUME NEW c \in Conn, Connecting(c) PROVE <1>1
    BY <2>3 DEF Connecting, Connect, Spawn, TakeInitialize, TakeList, Query, ReadFails,
       ConnectTimesOut, RegisterTool, SetOK, SetErr, pipeVars
  <2>4. ASSUME NEW c \in Conn, EndRequest(c) \/ Serve(c) \/ Exit(c) PROVE <1>1
    BY <2>4 DEF EndRequest, Serve, Exit, connectVars
  <2>5. ASSUME NEW k \in Caller, Calling(k) PROVE <1>1
    BY <2>5 DEF Calling, FindHandler, Send, SendFails, Receive, CallFails, CallTimesOut, Release,
       pipeVars, connectVars
  <2>6. QED
    BY <2>1, <2>2, <2>3, <2>4, <2>5 DEF Next
<1>2. ASSUME ~ \E c \in Conn : Connecting(c) PROVE pc' = pc
  <2>1. CASE UNCHANGED vars
    BY <2>1 DEF vars, connectVars
  <2>2. ASSUME NEW s \in Server, Upsert(s) \/ Disconnect(s) \/ Delete(s) \/ Forget(s)
        PROVE  pc' = pc
    BY <2>2 DEF Upsert, Disconnect, Delete, Forget, Drop, connectVars
  <2>3. ASSUME NEW c \in Conn, EndRequest(c) \/ Serve(c) \/ Exit(c) PROVE pc' = pc
    BY <2>3 DEF EndRequest, Serve, Exit, connectVars
  <2>4. ASSUME NEW k \in Caller, Calling(k) PROVE pc' = pc
    BY <2>4 DEF Calling, FindHandler, Send, SendFails, Receive, CallFails, CallTimesOut, Release,
       connectVars
  <2>5. QED
    BY <1>2, <2>1, <2>2, <2>3, <2>4 DEF Next
<1>3. ASSUME NEW c \in Conn, Connecting(c), NEW d \in Conn, Listed(d) PROVE Listed(d)'
  <2>1. \/ pc' = pc
        \/ \E l \in {"query", "spawn", "initialize", "list", "register", "error"} :
             ~ Listed(c) /\ pc' = [pc EXCEPT ![c] = l]
        \/ pc' = [pc EXCEPT ![c] = "returned"]
    BY <1>3 DEF Connecting, Connect, Spawn, TakeInitialize, TakeList, Query, ReadFails,
       ConnectTimesOut, RegisterTool, SetOK, SetErr, At, Goto, Listed
  <2>2. QED
    BY <1>3, <2>1 DEF Listed, Typed, ConnectTyped
<1>4. QED
  BY <1>1, <1>2, <1>3 DEF Listed

\* A step leaves in the router only handlers of connections that have listed.
LEMMA HandlersStep ==
  ASSUME Typed, HandlersListed, [Next]_vars
  PROVE  HandlersListed'
<1>1. /\ started \subseteq started' /\ \A c \in Conn : Listed(c) => Listed(c)'
  BY Moved
<1>2. ASSUME NEW s \in Server, NEW n \in Name, tools'[s][n] # NoConn
      PROVE  pc'[tools'[s][n]] \in {"register", "returned"}
  <2>1. CASE tools'[s][n] = tools[s][n]
    <3>1. tools[s][n] \in Conn /\ Listed(tools[s][n])
      BY <1>2, <2>1 DEF HandlersListed, Typed, ManagerTyped
    <3>2. QED
      BY <1>1, <2>1, <3>1 DEF Listed
  <2>2. CASE tools'[s][n] # tools[s][n]
    <3>1. ASSUME NEW c \in Conn, RegisterTool(c) PROVE pc'[tools'[s][n]] \in {"register", "returned"}
      <4>1. PICK m \in left[c] : tools' = [tools EXCEPT ![target[c]][m] = c]
        BY <3>1 DEF RegisterTool
      <4>2. tools'[s][n] = c
        BY <2>2, <4>1 DEF Typed, ManagerTyped
      <4>3. pc'[c] = "register"
        BY <3>1 DEF RegisterTool, At
      <4>4. QED
        BY <4>2, <4>3 DEF Listed
    <3>2. ASSUME NEW t \in Server, Drop(t) PROVE FALSE
      BY <1>2, <2>2, <3>2 DEF Drop, Without
    <3>3. ASSUME tools' = tools PROVE FALSE
      BY <2>2, <3>3
    <3>4. QED
      BY <3>1, <3>2, <3>3 DEF Next, vars, Upsert, Disconnect, Delete, Forget, Connecting, Connect,
         Spawn, TakeInitialize, TakeList, Query, ReadFails, ConnectTimesOut, SetOK, SetErr,
         EndRequest, Serve, Exit, Calling, FindHandler, Send, SendFails, Receive, CallFails,
         CallTimesOut, Release
  <2>3. QED
    BY <2>1, <2>2
<1>3. ASSUME NEW k \in Caller, call'[k] # "idle" PROVE session'[k] \in started' /\ pc'[session'[k]] \in {"register", "returned"}
  <2>1. CASE call[k] # "idle" /\ session'[k] = session[k]
    <3>1. session[k] \in started /\ session[k] \in Conn /\ Listed(session[k])
      BY <2>1 DEF HandlersListed, Typed, ConnectTyped
    <3>2. QED
      BY <1>1, <2>1, <3>1 DEF Listed
  <2>2. ASSUME NEW j \in Caller, FindHandler(j), j = k PROVE session'[k] \in started' /\ pc'[session'[k]] \in {"register", "returned"}
    <3>1. PICK s \in Server, n \in Name : /\ tools[s][n] # NoConn /\ tools[s][n] \in started
                                          /\ session' = [session EXCEPT ![k] = tools[s][n]]
      BY <2>2 DEF FindHandler
    <3>2. session'[k] = tools[s][n] /\ tools[s][n] \in Conn /\ Listed(tools[s][n])
      BY <3>1 DEF HandlersListed, Typed, ManagerTyped, PipeTyped
    <3>3. QED
      BY <1>1, <3>1, <3>2 DEF Listed
  <2>3. ASSUME NEW j \in Caller, Calling(j), ~ (FindHandler(j) /\ j = k)
        PROVE  call[k] # "idle" /\ session'[k] = session[k]
    BY <1>3, <2>3 DEF Calling, FindHandler, Send, SendFails, Receive, CallFails, CallTimesOut,
       Release, Typed, PipeTyped
  <2>4. ASSUME ~ \E j \in Caller : Calling(j) PROVE call' = call /\ session' = session
    BY <2>4 DEF Next, vars, callVars, Upsert, Disconnect, Delete, Forget, Drop, Connecting, Connect,
         Spawn, TakeInitialize, TakeList, Query, ReadFails, ConnectTimesOut, RegisterTool, SetOK,
         SetErr, EndRequest, Serve, Exit
  <2>5. QED
    BY <1>3, <2>1, <2>2, <2>3, <2>4
<1>4. QED
  BY <1>2, <1>3 DEF HandlersListed, Listed

-----------------------------------------------------------------------------
\* The mutexes

SaidBefore == Typed /\ SessionInv

\* Steps other than those of calls leave the mutexes alone; a Connect writes before any call.
LEMMA MutexStays ==
  ASSUME SaidBefore, [Next]_vars, ~ \E k \in Caller : Calling(k)
  PROVE  MutexHeld'
<1>1. UNCHANGED callVars
  BY DEF Next, vars, Upsert, Disconnect, Delete, Forget, Drop, Connecting, Connect,
     Spawn, TakeInitialize, TakeList, Query, ReadFails, ConnectTimesOut, RegisterTool, SetOK,
     SetErr, EndRequest, Serve, Exit
<1>2. \A c \in Conn : Listed(c) => Listed(c)'
  BY Moved DEF SaidBefore
<1>3. \A c \in Conn : Listed(c) => sent'[c] = sent[c]
  <2>1. CASE sent' = sent
    BY <2>1
  <2>2. ASSUME NEW c \in Conn, Spawn(c) \/ TakeInitialize(c), sent' # sent
        PROVE  \A d \in Conn : Listed(d) => sent'[d] = sent[d]
    <3>1. ~ Listed(c)
      BY <2>2 DEF Spawn, TakeInitialize, At, Listed
    <3>2. \E kinds \in Seq(Wire) : Write(c, kinds)
      <4>1. Write(c, <<"initialize">>) \/ Write(c, <<"notifications/initialized", "tools/list">>)
        BY <2>2 DEF Spawn, TakeInitialize
      <4>2. QED
        BY <4>1, WireKinds
    <3>3. QED
      BY <3>1, <3>2, Written DEF SaidBefore, Typed
  <2>3. sent' = sent \/ \E c \in Conn : Spawn(c) \/ TakeInitialize(c)
    BY DEF Next, vars, pipeVars, Upsert, Disconnect, Delete, Forget, Drop, Connecting, Connect,
       TakeList, Query, ReadFails, ConnectTimesOut, RegisterTool, SetOK,
       SetErr, EndRequest, Serve, Exit
  <2>4. QED
    BY <2>1, <2>2, <2>3
<1>4. ASSUME NEW c \in Conn, holder'[c] # "none"
      PROVE  /\ call'[holder'[c]] = "waiting" /\ session'[holder'[c]] = c
             /\ mine'[holder'[c]] = sent'[c] /\ pc'[c] \in {"register", "returned"}
  <2>1. /\ call[holder[c]] = "waiting" /\ session[holder[c]] = c /\ mine[holder[c]] = sent[c]
        /\ Listed(c)
    BY <1>1, <1>4 DEF callVars, SaidBefore, SessionInv, MutexHeld
  <2>2. QED
    BY <1>1, <1>2, <1>3, <2>1 DEF callVars, Listed
<1>5. QED
  BY <1>1, <1>4 DEF callVars, SaidBefore, SessionInv, MutexHeld, Listed

\* A call takes the mutex of its session when nobody has it, and releases its own.
LEMMA MutexPasses ==
  ASSUME SaidBefore, NEW k \in Caller, Calling(k)
  PROVE  MutexHeld'
<1> USE CallerAssumption
<1>1. /\ holder \in [Conn -> Caller \cup {"none"}] /\ call \in [Caller -> {"idle", "ready", "waiting"}]
      /\ session \in [Caller -> Conn \cup {NoConn}] /\ mine \in [Caller -> Nat]
      /\ sent \in [Conn -> Nat]
  BY DEF SaidBefore, Typed, PipeTyped
<1>2. /\ \A c \in Conn : holder[c] # "none" =>
           /\ call[holder[c]] = "waiting" /\ session[holder[c]] = c /\ mine[holder[c]] = sent[c]
           /\ pc[c] \in {"register", "returned"}
      /\ \A j \in Caller : call[j] = "waiting" => holder[session[j]] = j
      /\ \A j \in Caller : call[j] # "idle" => session[j] \in Conn /\ pc[session[j]] \in {"register", "returned"}
  BY DEF SaidBefore, SessionInv, MutexHeld, HandlersListed, Listed, Typed, ConnectTyped
<1>3. pc' = pc
  BY DEF Calling, FindHandler, Send, SendFails, Receive, CallFails, CallTimesOut, Release, connectVars
<1>4. CASE FindHandler(k)
  <2>1. /\ call[k] = "idle" /\ call' = [call EXCEPT ![k] = "ready"]
        /\ \E x : session' = [session EXCEPT ![k] = x]
        /\ holder' = holder /\ mine' = mine /\ sent' = sent
    BY <1>4 DEF FindHandler, pipeVars
  <2>2. \A c \in Conn : holder[c] # k
    BY <1>1, <1>2, <2>1
  <2>3. QED
    BY <1>1, <1>2, <1>3, <2>1, <2>2 DEF MutexHeld, Listed
<1>5. CASE Send(k)
  <2> DEFINE c == session[k]
  <2>1. /\ call[k] = "ready" /\ c \in Conn /\ holder[c] = "none" /\ call' = [call EXCEPT ![k] = "waiting"]
        /\ holder' = [holder EXCEPT ![c] = k] /\ session' = session
        /\ mine' = [mine EXCEPT ![k] = sent[c] + 1]
        /\ Write(c, <<"tools/call">>)
    BY <1>2, <1>5 DEF Send
  <2>2. sent'[c] = sent[c] + 1 /\ \A d \in Conn : d # c => sent'[d] = sent[d]
    <3>1. sent'[c] = sent[c] + Len(<<"tools/call">>) /\ Len(<<"tools/call">>) = 1
      BY <2>1, Written, WireKinds DEF SaidBefore, Typed
    <3>2. QED
      BY <2>1, <3>1, Written, WireKinds DEF SaidBefore, Typed
  <2>3. \A d \in Conn : holder[d] # k
    BY <1>1, <1>2, <2>1
  <2> HIDE DEF c
  <2>4. ASSUME NEW d \in Conn, holder'[d] # "none"
        PROVE  /\ call'[holder'[d]] = "waiting" /\ session'[holder'[d]] = d
               /\ mine'[holder'[d]] = sent'[d] /\ pc[d] \in {"register", "returned"}
    <3>1. CASE d = c
      BY <1>1, <1>2, <2>1, <2>2, <3>1 DEF c
    <3>2. CASE d # c
      <4>1. holder'[d] = holder[d] /\ holder[d] \in Caller /\ holder[d] # k
        BY <1>1, <2>1, <2>3, <2>4, <3>2
      <4>2. /\ call[holder[d]] = "waiting" /\ session[holder[d]] = d /\ mine[holder[d]] = sent[d]
            /\ pc[d] \in {"register", "returned"}
        BY <1>2, <2>4, <4>1
      <4>3. QED
        BY <1>1, <2>1, <2>2, <3>2, <4>1, <4>2
    <3>3. QED
      BY <3>1, <3>2
  <2>5. ASSUME NEW j \in Caller, call'[j] = "waiting" PROVE holder'[session'[j]] = j
    <3>1. CASE j = k
      BY <1>1, <2>1, <3>1 DEF c
    <3>2. CASE j # k
      <4>1. call[j] = "waiting" /\ holder[session[j]] = j /\ session[j] \in Conn
        BY <1>1, <1>2, <2>1, <2>5, <3>2
      <4>2. session[j] # c
        BY <2>1, <4>1
      <4>3. QED
        BY <1>1, <2>1, <4>1, <4>2
    <3>3. QED
      BY <3>1, <3>2
  <2>6. QED
    BY <1>3, <2>4, <2>5 DEF MutexHeld, Listed
<1>6. CASE SendFails(k)
  <2>1. /\ call[k] = "ready" /\ call' = [call EXCEPT ![k] = "idle"]
        /\ session' = [session EXCEPT ![k] = NoConn]
        /\ holder' = holder /\ mine' = mine /\ sent' = sent
    BY <1>6 DEF SendFails, pipeVars
  <2>2. \A c \in Conn : holder[c] # k
    BY <1>1, <1>2, <2>1
  <2>3. QED
    BY <1>1, <1>2, <1>3, <2>1, <2>2 DEF MutexHeld, Listed
<1>7. CASE call[k] = "waiting" /\ Release(k)
  <2> DEFINE c == session[k]
  <2>1. /\ holder[c] = k /\ c \in Conn /\ holder' = [holder EXCEPT ![c] = "none"]
        /\ call' = [call EXCEPT ![k] = "idle"] /\ session' = [session EXCEPT ![k] = NoConn]
        /\ mine' = [mine EXCEPT ![k] = 0] /\ sent' = sent
    BY <1>2, <1>7 DEF Release
  <2>2. \A d \in Conn : d # c => holder[d] # k
    BY <1>1, <1>2, <2>1
  <2> HIDE DEF c
  <2>3. ASSUME NEW d \in Conn, holder'[d] # "none"
        PROVE  /\ call'[holder'[d]] = "waiting" /\ session'[holder'[d]] = d
               /\ mine'[holder'[d]] = sent'[d] /\ pc[d] \in {"register", "returned"}
    <3>1. d # c /\ holder'[d] = holder[d] /\ holder[d] \in Caller /\ holder[d] # k
      BY <1>1, <2>1, <2>2, <2>3
    <3>2. QED
      BY <1>1, <1>2, <2>1, <3>1
  <2>4. ASSUME NEW j \in Caller, call'[j] = "waiting" PROVE holder'[session'[j]] = j
    <3>1. j # k /\ call[j] = "waiting" /\ holder[session[j]] = j /\ session[j] \in Conn
      BY <1>1, <1>2, <2>1, <2>4
    <3>2. session[j] # c
      BY <2>1, <3>1
    <3>3. QED
      BY <1>1, <2>1, <3>1, <3>2
  <2>5. QED
    BY <1>3, <2>3, <2>4 DEF MutexHeld, Listed
<1>8. QED
  BY <1>4, <1>5, <1>6, <1>7 DEF Calling, Receive, CallFails, CallTimesOut

-----------------------------------------------------------------------------
\* What is on its way

ReadNothing == \A c \in Conn \ alive : stdin[c] = <<>>
Ways == \A c \in Conn \ noisy : OnItsWay(c)

\* What is on its way over a session that is left alone, or whose process dies.
LEMMA WayStays ==
  ASSUME NEW c \in Conn, OnItsWay(c), pc'[c] = pc[c], holder'[c] = holder[c],
         stdout'[c] = stdout[c], sent'[c] = sent[c], stdin'[c] = stdin[c] \/ stdin'[c] = <<>>
  PROVE  OnItsWay(c)'
<1>1. CASE stdin'[c] = stdin[c]
  BY <1>1 DEF OnItsWay, OneOnItsWay, Silent
<1>2. CASE stdin'[c] = <<>>
  BY <1>2 DEF OnItsWay, OneOnItsWay, Silent
<1>3. QED
  BY <1>1, <1>2

\* Nobody calls over a session before its tools are listed.
LEMMA Unlocked ==
  ASSUME SaidBefore, NEW c \in Conn, ~ Listed(c)
  PROVE  holder[c] = "none"
  BY DEF SaidBefore, SessionInv, MutexHeld

\* A process dies.
LEMMA KillSays ==
  ASSUME SaidBefore, NEW c, Kill(c), UNCHANGED <<pc, holder, stdout, sent, noisy>>
  PROVE  ReadNothing' /\ Ways'
<1>1. /\ alive' = alive \ {c}
      /\ \A d \in Conn : stdin'[d] = IF d = c THEN <<>> ELSE stdin[d]
  BY Killed DEF SaidBefore
<1>2. ReadNothing'
  BY <1>1 DEF SaidBefore, SessionInv, ReadNothing
<1>3. ASSUME NEW d \in Conn \ noisy PROVE OnItsWay(d)'
  BY <1>1, WayStays DEF SaidBefore, SessionInv
<1>4. QED
  BY <1>2, <1>3 DEF Ways

\* Nothing is written, read or answered.
LEMMA QuietSays ==
  ASSUME SaidBefore, UNCHANGED <<pc, holder, stdin, stdout, sent, alive>>, noisy \subseteq noisy'
  PROVE  ReadNothing' /\ Ways'
<1>1. ReadNothing'
  BY DEF SaidBefore, SessionInv, ReadNothing
<1>2. ASSUME NEW d \in Conn \ noisy' PROVE OnItsWay(d)'
  BY WayStays DEF SaidBefore, SessionInv
<1>3. QED
  BY <1>1, <1>2 DEF Ways

\* An answer is read.
LEMMA TakenSilent ==
  ASSUME SaidBefore, NEW c \in Conn \ noisy, Take(c)
  PROVE  stdin[c] = <<>> /\ stdout'[c] = <<>> /\ Len(stdout[c]) = 1
<1>1. stdout[c] # <<>> /\ stdout[c] \in Seq(Reply) /\ stdout'[c] = Tail(stdout[c])
  BY Taken DEF SaidBefore, Typed, PipeTyped
<1>2. OnItsWay(c)
  BY DEF SaidBefore, SessionInv
<1>3. stdin[c] = <<>> /\ Len(stdout[c]) = 1
  BY <1>1, <1>2 DEF OnItsWay, OneOnItsWay, Silent, Answers
<1>4. Len(Tail(stdout[c])) = 0 /\ Tail(stdout[c]) \in Seq(Reply)
  BY <1>1, <1>3
<1>5. Tail(stdout[c]) = <<>>
  BY <1>4, EmptySeq
<1>6. QED
  BY <1>1, <1>3, <1>5

\* A Connect that moves on without a word.
LEMMA MoveSays ==
  ASSUME SaidBefore, NEW c \in Conn, NEW l \in Program \ {"initialize", "list"}, Goto(c, l),
         c \in noisy' \/ pc[c] \notin {"initialize", "list"} \/ Silent(c),
         UNCHANGED <<holder, stdin, stdout, sent, alive>>, noisy \subseteq noisy'
  PROVE  ReadNothing' /\ Ways'
<1>1. ReadNothing'
  BY DEF SaidBefore, SessionInv, ReadNothing
<1>2. pc'[c] = l /\ \A d \in Conn : d # c => pc'[d] = pc[d]
  BY DEF Goto, SaidBefore, Typed, ConnectTyped
<1>3. ASSUME NEW d \in Conn \ noisy', d # c PROVE OnItsWay(d)'
  BY <1>2, <1>3, WayStays DEF SaidBefore, SessionInv
<1>4. ASSUME c \notin noisy' PROVE OnItsWay(c)'
  <2>1. OnItsWay(c)
    BY <1>4 DEF SaidBefore, SessionInv
  <2>2. CASE Silent(c)
    BY <2>2, <1>2 DEF OnItsWay, OneOnItsWay, Silent
  <2>3. CASE pc[c] \notin {"initialize", "list"}
    BY <2>1, <2>3, <1>2 DEF OnItsWay, OneOnItsWay, Silent
  <2>4. QED
    BY <1>4, <2>2, <2>3
<1>5. QED
  BY <1>1, <1>3, <1>4 DEF Ways

\* A Connect sends its requests one by one, and waits for the answer to the last.
LEMMA ConnectSays ==
  ASSUME SaidBefore, NEW c \in Conn, Connecting(c)
  PROVE  ReadNothing' /\ Ways'
<1>1. {"query", "spawn", "register", "error", "returned"} \subseteq Program \ {"initialize", "list"}
  BY DEF Program
<1>2. c \notin noisy => OnItsWay(c)
  BY DEF SaidBefore, SessionInv
<1>3. CASE Connect(c) \/ Query(c) \/ SetOK(c) \/ SetErr(c)
  <2>1. PICK l \in {"query", "spawn", "register", "error", "returned"} : Goto(c, l)
    BY <1>3 DEF Connect, Query, SetOK, SetErr
  <2>2. /\ UNCHANGED <<holder, stdin, stdout, sent, alive>> /\ noisy' = noisy
        /\ pc[c] \notin {"initialize", "list"}
    BY <1>3 DEF Connect, Query, SetOK, SetErr, At, pipeVars, callVars
  <2>3. QED
    BY <1>1, <2>1, <2>2, MoveSays
<1>4. CASE RegisterTool(c)
  BY <1>4, QuietSays DEF RegisterTool, pipeVars, callVars
<1>5. CASE ReadFails(c)
  <2>1. /\ Goto(c, "error") /\ UNCHANGED <<holder, stdin, stdout, sent, alive>> /\ noisy' = noisy
        /\ c \notin alive /\ stdout[c] = <<>>
    BY <1>5 DEF ReadFails, EndOfFile, pipeVars, callVars
  <2>2. Silent(c)
    BY <2>1 DEF SaidBefore, SessionInv, Silent
  <2>3. QED
    BY <1>1, <2>1, <2>2, MoveSays
<1>6. CASE ConnectTimesOut(c)
  <2>1. /\ Goto(c, "error") /\ UNCHANGED <<holder, stdin, stdout, sent, alive>>
        /\ c \in noisy' /\ noisy \subseteq noisy'
    BY <1>6 DEF ConnectTimesOut, pipeVars, callVars
  <2>2. QED
    BY <1>1, <2>1, MoveSays
<1>7. CASE TakeList(c)
  <2>1. /\ Take(c) /\ \E l \in {"register", "error"} : Goto(c, l)
        /\ UNCHANGED <<holder, stdin, sent, alive, noisy>> /\ At(c, "list")
    BY <1>7 DEF TakeList, callVars
  <2>2. \A d \in Conn : d # c => pc'[d] = pc[d] /\ stdout'[d] = stdout[d]
    BY <2>1, Taken DEF Goto, SaidBefore, Typed, ConnectTyped
  <2>3. pc'[c] \in {"register", "error"}
    BY <2>1 DEF Goto, SaidBefore, Typed, ConnectTyped
  <2>4. holder[c] = "none"
    BY <2>1, Unlocked DEF At, Listed
  <2>5. c \notin noisy => OnItsWay(c)'
    BY <2>1, <2>3, <2>4, TakenSilent DEF OnItsWay, Silent
  <2>6. ASSUME NEW d \in Conn \ noisy, d # c PROVE OnItsWay(d)'
    BY <2>1, <2>2, <2>6, WayStays DEF SaidBefore, SessionInv
  <2>7. ReadNothing'
    BY <2>1 DEF SaidBefore, SessionInv, ReadNothing
  <2>8. QED
    BY <2>1, <2>5, <2>6, <2>7 DEF Ways
<1>8. CASE TakeInitialize(c)
  <2>1. /\ Take(c) /\ UNCHANGED <<holder, alive, noisy>> /\ At(c, "initialize")
        /\ \/ /\ c \in alive /\ Goto(c, "list")
              /\ Write(c, <<"notifications/initialized", "tools/list">>)
           \/ Goto(c, "error") /\ UNCHANGED <<stdin, sent>>
    BY <1>8 DEF TakeInitialize, callVars
  <2>2. \A d \in Conn : d # c => pc'[d] = pc[d] /\ stdout'[d] = stdout[d]
    BY <2>1, Taken DEF Goto, SaidBefore, Typed, ConnectTyped
  <2>3. holder[c] = "none"
    BY <2>1, Unlocked DEF At, Listed
  <2>4. {"notifications/initialized", "tools/list"} \subseteq Wire
    BY DEF Wire
  <2>5. \A d \in Conn : d # c => stdin'[d] = stdin[d] /\ sent'[d] = sent[d]
    BY <2>1, Written, WireKinds DEF SaidBefore, Typed
  <2>6. c \notin noisy => OnItsWay(c)'
    <3> SUFFICES ASSUME c \notin noisy PROVE OnItsWay(c)'
      OBVIOUS
    <3>1. stdin[c] = <<>> /\ stdout'[c] = <<>>
      BY <2>1, TakenSilent
    <3>2. CASE Goto(c, "error") /\ UNCHANGED <<stdin, sent>>
      <4>1. pc'[c] = "error"
        BY <3>2 DEF Goto, SaidBefore, Typed, ConnectTyped
      <4>2. QED
        BY <2>1, <2>3, <3>1, <3>2, <4>1 DEF OnItsWay, Silent
    <3>3. CASE /\ Goto(c, "list") /\ Write(c, <<"notifications/initialized", "tools/list">>)
      <4>1. pc'[c] = "list"
        BY <3>3 DEF Goto, SaidBefore, Typed, ConnectTyped
      <4>2. stdin'[c] = <<Message(sent'[c] - 1, "notifications/initialized"),
                          Message(sent'[c], "tools/list")>>
        BY <2>4, <3>1, <3>3, WrittenPair DEF SaidBefore, Typed
      <4>3. QED
        BY <3>1, <4>1, <4>2 DEF OnItsWay
    <3>4. QED
      BY <2>1, <3>2, <3>3
  <2>7. ASSUME NEW d \in Conn \ noisy, d # c PROVE OnItsWay(d)'
    BY <2>1, <2>2, <2>5, <2>7, WayStays DEF SaidBefore, SessionInv
  <2>8. ReadNothing'
    <3> SUFFICES ASSUME NEW d \in Conn \ alive PROVE stdin'[d] = <<>>
      BY <2>1 DEF ReadNothing
    <3>1. stdin[d] = <<>>
      BY DEF SaidBefore, SessionInv
    <3>2. QED
      BY <2>1, <2>5, <3>1
  <2>9. QED
    BY <2>1, <2>6, <2>7, <2>8 DEF Ways
<1>9. CASE Spawn(c)
  <2>1. /\ At(c, "spawn") /\ UNCHANGED <<holder, noisy, stdout>>
        /\ \/ /\ alive' = alive \cup {c} /\ Write(c, <<"initialize">>) /\ Goto(c, "initialize")
           \/ Goto(c, "returned") /\ UNCHANGED <<alive, stdin, sent>>
    BY <1>9 DEF Spawn, callVars
  <2>2. CASE Goto(c, "returned") /\ UNCHANGED <<alive, stdin, sent>>
    BY <1>1, <2>1, <2>2, MoveSays DEF At
  <2>3. CASE alive' = alive \cup {c} /\ Write(c, <<"initialize">>) /\ Goto(c, "initialize")
    <3>1. /\ pc'[c] = "initialize" /\ "initialize" \in Wire /\ holder[c] = "none"
          /\ \A d \in Conn : d # c => pc'[d] = pc[d]
      BY <2>1, <2>3, Unlocked DEF Goto, At, Listed, Wire, SaidBefore, Typed, ConnectTyped
    <3>2. \A d \in Conn : d # c => stdin'[d] = stdin[d] /\ sent'[d] = sent[d]
      BY <2>3, Written, WireKinds DEF SaidBefore, Typed
    <3>3. c \notin noisy => OnItsWay(c)'
      <4> SUFFICES ASSUME c \notin noisy PROVE OnItsWay(c)'
        OBVIOUS
      <4>1. stdin[c] = <<>> /\ stdout[c] = <<>>
        BY <1>2, <2>1, <3>1 DEF OnItsWay, Silent, At
      <4>2. stdin'[c] = <<Message(sent'[c], "initialize")>>
        BY <2>3, <3>1, <4>1, WrittenAlone DEF SaidBefore, Typed
      <4>3. QED
        BY <2>1, <3>1, <4>1, <4>2 DEF OnItsWay, OneOnItsWay
    <3>4. ASSUME NEW d \in Conn \ noisy, d # c PROVE OnItsWay(d)'
      BY <2>1, <3>1, <3>2, <3>4, WayStays DEF SaidBefore, SessionInv
    <3>5. ReadNothing'
      BY <2>3, <3>2 DEF SaidBefore, SessionInv, ReadNothing
    <3>6. QED
      BY <2>1, <3>3, <3>4, <3>5 DEF Ways
  <2>4. QED
    BY <2>1, <2>2, <2>3
<1>10. QED
  BY <1>3, <1>4, <1>5, <1>6, <1>7, <1>8, <1>9 DEF Connecting

\* A process reads a request and answers it.
LEMMA ServeSays ==
  ASSUME SaidBefore, NEW c \in Conn, Serve(c)
  PROVE  ReadNothing' /\ Ways'
<1> DEFINE m == Head(stdin[c])
           answer(ok) == [id |-> m.id, kind |-> m.kind, ok |-> ok]
<1>1. /\ c \in alive /\ stdin[c] # <<>> /\ stdin' = [stdin EXCEPT ![c] = Tail(@)]
      /\ UNCHANGED <<pc, holder, sent, alive>>
      /\ \/ /\ \E ok \in BOOLEAN : stdout' = [stdout EXCEPT ![c] = Append(@, answer(ok))]
            /\ noisy' = IF m.kind = "notifications/initialized" THEN noisy \cup {c} ELSE noisy
         \/ m.kind = "notifications/initialized" /\ UNCHANGED <<stdout, noisy>>
  BY DEF Serve, connectVars, callVars
<1>2. /\ stdin'[c] = Tail(stdin[c])
      /\ \A d \in Conn : d # c => stdin'[d] = stdin[d] /\ stdout'[d] = stdout[d]
  BY <1>1 DEF SaidBefore, Typed, PipeTyped
<1>3. noisy \subseteq noisy'
  BY <1>1
<1>4. ReadNothing'
  BY <1>1, <1>2 DEF SaidBefore, SessionInv, ReadNothing
<1>5. ASSUME NEW d \in Conn \ noisy', d # c PROVE OnItsWay(d)'
  BY <1>1, <1>2, <1>3, <1>5, WayStays DEF SaidBefore, SessionInv
<1>6. ASSUME NEW kind, NEW id, stdin[c] = <<Message(id, kind)>>, stdout[c] = <<>>,
             kind # "notifications/initialized"
      PROVE  stdin'[c] = <<>> /\ Answers(stdout'[c], kind, id)
  <2>1. m = Message(id, kind) /\ Tail(stdin[c]) = <<>>
    BY <1>6
  <2>2. m.id = id /\ m.kind = kind
    BY <2>1 DEF Message
  <2>3. PICK ok \in BOOLEAN : stdout' = [stdout EXCEPT ![c] = Append(@, answer(ok))]
    BY <1>1, <1>6, <2>2
  <2>4. stdout'[c] = Append(<<>>, answer(ok))
    BY <1>6, <2>3 DEF SaidBefore, Typed, PipeTyped
  <2>5. answer(ok).id = id /\ answer(ok).kind = kind
    BY <2>2
  <2> HIDE DEF answer
  <2>6. Append(<<>>, answer(ok)) = <<answer(ok)>>
    OBVIOUS
  <2>7. Len(stdout'[c]) = 1 /\ stdout'[c][1] = answer(ok)
    BY <2>4, <2>6
  <2>8. QED
    BY <1>2, <2>1, <2>5, <2>7 DEF Answers
<1>7. ASSUME c \notin noisy' PROVE OnItsWay(c)'
  <2>1. OnItsWay(c)
    BY <1>3, <1>7 DEF SaidBefore, SessionInv
  <2>2. ASSUME NEW kind \in {"initialize", "tools/list", "tools/call"},
               OneOnItsWay(c, kind, sent[c])
        PROVE  stdin'[c] = <<>> /\ Answers(stdout'[c], kind, sent[c])
    <3>1. stdin[c] = <<Message(sent[c], kind)>> /\ stdout[c] = <<>>
      BY <1>1, <2>2 DEF OneOnItsWay, Silent
    <3>2. QED
      BY <1>6, <2>2, <3>1
  <2>3. CASE /\ pc[c] = "list"
             /\ stdin[c] = <<Message(sent[c] - 1, "notifications/initialized"),
                             Message(sent[c], "tools/list")>>
             /\ stdout[c] = <<>>
    <3>1. m.kind = "notifications/initialized" /\ Tail(stdin[c]) = <<Message(sent[c], "tools/list")>>
      BY <2>3 DEF Message
    <3>2. stdout' = stdout
      BY <1>1, <1>7, <3>1
    <3>3. QED
      BY <1>1, <1>2, <2>3, <3>1, <3>2 DEF OnItsWay, OneOnItsWay
  <2>4. CASE pc[c] = "list" /\ OneOnItsWay(c, "tools/list", sent[c])
    BY <1>1, <2>2, <2>4 DEF OnItsWay, OneOnItsWay
  <2>5. CASE pc[c] = "initialize"
    BY <1>1, <2>1, <2>2, <2>5 DEF OnItsWay, OneOnItsWay
  <2>6. CASE pc[c] \notin {"initialize", "list"}
    <3>1. holder[c] # "none" /\ OneOnItsWay(c, "tools/call", sent[c])
      BY <1>1, <2>1, <2>6 DEF OnItsWay, Silent
    <3>2. QED
      BY <1>1, <2>2, <2>6, <3>1 DEF OnItsWay, OneOnItsWay
  <2>7. QED
    BY <2>1, <2>3, <2>4, <2>5, <2>6 DEF OnItsWay
<1>8. QED
  BY <1>3, <1>4, <1>5, <1>7 DEF Ways

\* A call sends one request and waits for its answer.
LEMMA CallSays ==
  ASSUME SaidBefore, NEW k \in Caller, Calling(k)
  PROVE  ReadNothing' /\ Ways'
<1>1. CASE FindHandler(k) \/ SendFails(k)
  BY <1>1, QuietSays DEF FindHandler, SendFails, connectVars, pipeVars
<1>2. call[k] # "idle" => session[k] \in Conn /\ Listed(session[k])
  BY DEF SaidBefore, SessionInv, HandlersListed, Typed, ConnectTyped
<1>3. ASSUME NEW c \in Conn, c = session[k], Send(k) PROVE ReadNothing' /\ Ways'
  <2>1. /\ c \in Conn /\ Listed(c) /\ holder[c] = "none" /\ c \in alive
        /\ holder' = [holder EXCEPT ![c] = k] /\ Write(c, <<"tools/call">>)
        /\ UNCHANGED <<pc, stdout, alive, noisy>>
    BY <1>2, <1>3 DEF Send, connectVars
  <2>2. /\ holder'[c] = k /\ k # "none"
        /\ \A d \in Conn : d # c => holder'[d] = holder[d] /\ stdin'[d] = stdin[d] /\ sent'[d] = sent[d]
    BY <2>1, Written, WireKinds, CallerAssumption DEF SaidBefore, Typed, PipeTyped
  <2>3. ReadNothing'
    BY <2>1, <2>2 DEF SaidBefore, SessionInv, ReadNothing
  <2>4. ASSUME NEW d \in Conn \ noisy, d # c PROVE OnItsWay(d)'
    BY <2>1, <2>2, <2>4, WayStays DEF SaidBefore, SessionInv
  <2>5. ASSUME c \notin noisy PROVE OnItsWay(c)'
    <3>1. pc[c] \notin {"initialize", "list"} /\ "tools/call" \in Wire
      BY <2>1 DEF Listed, Wire
    <3>2. stdin[c] = <<>> /\ stdout[c] = <<>>
      BY <2>1, <2>5, <3>1 DEF SaidBefore, SessionInv, OnItsWay, Silent
    <3>3. stdin'[c] = <<Message(sent'[c], "tools/call")>>
      BY <2>1, <3>1, <3>2, WrittenAlone DEF SaidBefore, Typed
    <3>4. QED
      BY <2>1, <2>2, <3>1, <3>2, <3>3 DEF OnItsWay, OneOnItsWay
  <2>6. QED
    BY <2>1, <2>3, <2>4, <2>5 DEF Ways
<1>4. ASSUME NEW c \in Conn, c = session[k], call[k] = "waiting", Release(k),
             Receive(k) \/ CallFails(k) \/ CallTimesOut(k)
      PROVE  ReadNothing' /\ Ways'
  <2>1. /\ c \in Conn /\ Listed(c) /\ holder[c] = k /\ k # "none"
        /\ holder' = [holder EXCEPT ![c] = "none"] /\ UNCHANGED <<pc, stdin, sent, alive>>
    BY <1>2, <1>4, CallerAssumption
    DEF Release, SaidBefore, SessionInv, MutexHeld, connectVars
  <2>2. /\ holder'[c] = "none" /\ \A d \in Conn : d # c => holder'[d] = holder[d]
        /\ pc[c] \notin {"initialize", "list"}
    BY <2>1 DEF SaidBefore, Typed, PipeTyped, Listed
  <2>3. /\ \A d \in Conn : d # c => stdout'[d] = stdout[d]
        /\ noisy \subseteq noisy'
        /\ c \notin noisy' => stdin'[c] = <<>> /\ stdout'[c] = <<>>
    <3>1. CASE Receive(k)
      <4>1. Take(c) /\ noisy' = noisy
        BY <1>4, <3>1 DEF Receive
      <4>2. QED
        BY <2>1, <4>1, Taken, TakenSilent DEF SaidBefore
    <3>2. CASE CallFails(k)
      BY <1>4, <2>1, <3>2 DEF CallFails, EndOfFile, SaidBefore, SessionInv
    <3>3. CASE CallTimesOut(k)
      BY <1>4, <2>1, <3>3 DEF CallTimesOut
    <3>4. QED
      BY <1>4, <3>1, <3>2, <3>3
  <2>4. ReadNothing'
    BY <2>1 DEF SaidBefore, SessionInv, ReadNothing
  <2>5. ASSUME NEW d \in Conn \ noisy', d # c PROVE OnItsWay(d)'
    BY <2>1, <2>2, <2>3, <2>5, WayStays DEF SaidBefore, SessionInv
  <2>6. c \notin noisy' => OnItsWay(c)'
    BY <2>1, <2>2, <2>3 DEF OnItsWay, Silent
  <2>7. QED
    BY <2>4, <2>5, <2>6 DEF Ways
<1>5. QED
  BY <1>1, <1>2, <1>3, <1>4 DEF Calling, Send, Receive, CallFails, CallTimesOut

\* Every step preserves what is known of sessions.
LEMMA SessionStep ==
  ASSUME SaidBefore, [Next]_vars
  PROVE  SessionInv'
<1>1. HandlersListed'
  BY HandlersStep DEF SaidBefore, SessionInv
<1>2. MutexHeld'
  BY MutexStays, MutexPasses
<1>3. ReadNothing' /\ Ways'
  <2>1. CASE UNCHANGED vars
    BY <2>1, QuietSays DEF vars, connectVars, pipeVars, callVars
  <2>2. ASSUME NEW s \in Server, Upsert(s) \/ Forget(s) PROVE ReadNothing' /\ Ways'
    BY <2>2, QuietSays DEF Upsert, Forget, connectVars, pipeVars, callVars
  <2>3. ASSUME NEW s \in Server, Disconnect(s) \/ Delete(s) PROVE ReadNothing' /\ Ways'
    BY <2>3, KillSays DEF Disconnect, Delete, Drop, connectVars, callVars
  <2>4. ASSUME NEW c \in Conn, EndRequest(c) \/ Exit(c) PROVE ReadNothing' /\ Ways'
    BY <2>4, KillSays DEF EndRequest, Exit, connectVars, callVars
  <2>5. QED
    BY <2>1, <2>2, <2>3, <2>4, ConnectSays, ServeSays, CallSays DEF Next
<1>4. QED
  BY <1>1, <1>2, <1>3 DEF SessionInv, ReadNothing, Ways

-----------------------------------------------------------------------------
\* The manager

\* What Kept(s) reads, when a step leaves it alone or makes fewer processes live.
LEMMA KeptStays ==
  ASSUME NEW s \in Server, Kept(s), target' = target, pc' = pc, status'[s] = status[s],
         listed'[s] = listed[s], procs'[s] = procs[s], tools'[s] = tools[s],
         alive' \subseteq alive, offered' = offered, left' = left
  PROVE  Kept(s)'
  BY DEF Kept, Unconnected, Registered

Owned == \A s \in Server : procs[s] # NoConn => target[procs[s]] = s

\* Where procs has no session there is no process.
LEMMA NoConnDead ==
  ASSUME Typed
  PROVE  NoConn \notin alive
  BY NoConnAssumption DEF Typed, ConnectTyped

\* Disconnect clears its server; the others it has cleared in part are torn.
LEMMA DropKeeps ==
  ASSUME Typed, ManagerInv, NEW s \in Server, Drop(s)
  PROVE  ManagerInv'
<1>1. /\ alive' = alive \ {procs[s]} /\ procs' = [procs EXCEPT ![s] = NoConn]
      /\ status' = [status EXCEPT ![s] = IF @ = "none" THEN @ ELSE "disconnected"]
      /\ listed' = [listed EXCEPT ![s] = {}]
      /\ torn' = torn \cup {t \in Below(s) : t # s \/ InFlight(t) # {}}
      /\ UNCHANGED <<pc, target, offered, left>>
      /\ tools' = Without(PrefixedTools(s))
  BY DEF Drop, Kill, connectVars
<1>2. Owned'
  BY <1>1 DEF ManagerInv, Owned, Typed, ManagerTyped
<1>3. ASSUME NEW t \in Server \ torn' PROVE Kept(t)'
  <2>1. t \notin torn /\ Kept(t)
    BY <1>1, <1>3 DEF ManagerInv
  <2>2. CASE t # s
    <3>1. t \notin Below(s)
      BY <1>1, <1>3, <2>2
    <3>2. tools'[t] = tools[t]
      <4>1. \A n \in Name : <<t, n>> \notin PrefixedTools(s)
        BY <3>1 DEF PrefixedTools
      <4>2. tools'[t] = [n \in Name |-> tools[t][n]]
        BY <1>1, <4>1 DEF Without
      <4>3. QED
        BY <4>2 DEF Typed, ManagerTyped
    <3>3. status'[t] = status[t] /\ listed'[t] = listed[t] /\ procs'[t] = procs[t]
      BY <1>1, <2>2 DEF Typed, ManagerTyped
    <3>4. QED
      BY <1>1, <2>1, <3>2, <3>3, KeptStays
  <2>3. CASE t = s
    <3>1. s \in Below(s)
      BY PrefixAssumption DEF Below
    <3>2. InFlight(s) = {}
      BY <1>1, <1>3, <2>3, <3>1
    <3>3. \A c \in Conn : target[c] = s => pc[c] # "register"
      BY <3>2 DEF InFlight
    <3>4. \A n \in Name : tools'[s][n] = NoConn
      BY <1>1, <3>1 DEF Without, PrefixedTools
    <3>5. procs'[s] = NoConn /\ NoConn \notin alive'
      BY <1>1, NoConnDead DEF Typed, ManagerTyped
    <3>6. status'[s] # "connected"
      BY <1>1 DEF Typed, ManagerTyped
    <3>7. QED
      BY <1>1, <2>3, <3>3, <3>4, <3>5, <3>6 DEF Kept, Unconnected, Registered
  <2>4. QED
    BY <2>2, <2>3
<1>4. QED
  BY <1>2, <1>3 DEF ManagerInv, Owned

\* Delete forgets a server only if it is still as Disconnect left it.
LEMMA ForgetKeeps ==
  ASSUME Typed, ManagerInv, NEW s \in Server, Forget(s)
  PROVE  ManagerInv'
<1>1. /\ status' = [status EXCEPT ![s] = "none"] /\ listed' = [listed EXCEPT ![s] = {}]
      /\ torn' = IF InFlight(s) # {} \/ status[s] # "disconnected" THEN torn \cup {s} ELSE torn
      /\ UNCHANGED <<procs, tools, pc, target, offered, left, alive>>
  BY DEF Forget, connectVars, pipeVars
<1>2. ASSUME NEW t \in Server \ torn' PROVE Kept(t)'
  <2>1. t \notin torn /\ Kept(t)
    BY <1>1, <1>2 DEF ManagerInv
  <2>2. CASE t # s
    <3>1. status'[t] = status[t] /\ listed'[t] = listed[t]
      BY <1>1, <2>2 DEF Typed, ManagerTyped
    <3>2. QED
      BY <1>1, <2>1, <3>1, KeptStays
  <2>3. CASE t = s
    <3>1. status[s] = "disconnected" /\ status'[s] = "none"
      BY <1>1, <1>2, <2>3 DEF Typed, ManagerTyped
    <3>2. QED
      BY <1>1, <2>1, <2>3, <3>1 DEF Kept, Unconnected, Registered
  <2>4. QED
    BY <2>2, <2>3
<1>3. QED
  BY <1>1, <1>2 DEF ManagerInv

\* A Connect that moves on, without touching what the manager has.
LEMMA MoveKeeps ==
  ASSUME Typed, ManagerInv, NEW c \in Conn, NEW l \in Program, Goto(c, l),
         UNCHANGED <<status, listed, procs, tools, target, alive, torn>>,
         pc[c] \notin {"register", "error"},
         pc[c] \in {"initialize", "list"} => l \in {"initialize", "list", "register", "error"},
         \A d \in Conn : d # c => offered'[d] = offered[d] /\ left'[d] = left[d],
         l = "register" => offered'[c] = left'[c]
  PROVE  ManagerInv'
<1>1. pc'[c] = l /\ \A d \in Conn : d # c => pc'[d] = pc[d]
  BY DEF Goto, Typed, ConnectTyped
<1>2. ASSUME NEW s \in Server \ torn PROVE Kept(s)'
  <2>1. Kept(s)
    BY DEF ManagerInv
  <2>2. Registered(s)' = Registered(s)
    BY DEF Registered
  <2>3. Unconnected(s)'
    <3>1. ASSUME NEW d \in Conn, target[d] = s, pc[d] = "register" PROVE pc'[d] = "register"
      BY <1>1, <3>1
    <3>2. ASSUME procs[s] \in alive, pc[procs[s]] \in {"initialize", "list", "register", "error"}
          PROVE  pc'[procs[s]] \in {"initialize", "list", "register", "error"}
      <4>1. procs[s] \in Conn
        BY <3>2 DEF Typed, ConnectTyped
      <4>2. QED
        BY <1>1, <3>2, <4>1
    <3>3. QED
      BY <2>1, <2>2, <3>1, <3>2 DEF Kept, Unconnected
  <2>4. ASSUME NEW d \in Conn, target[d] = s, pc'[d] = "register"
        PROVE  offered'[d] \ left'[d] \subseteq Registered(s)
    <3>1. CASE d = c
      BY <1>1, <2>4, <3>1
    <3>2. CASE d # c
      BY <1>1, <2>1, <2>4, <3>2 DEF Kept
    <3>3. QED
      BY <3>1, <3>2
  <2>5. QED
    BY <2>1, <2>2, <2>3, <2>4 DEF Kept
<1>3. QED
  BY <1>2 DEF ManagerInv

\* A new process becomes the session of its server.
LEMMA SpawnKeeps ==
  ASSUME Typed, ManagerInv, NEW c \in Conn, At(c, "spawn"), Goto(c, "initialize"),
         alive' = alive \cup {c}, procs' = [procs EXCEPT ![target[c]] = c],
         UNCHANGED <<status, listed, tools, target, offered, left, torn>>
  PROVE  ManagerInv'
<1>1. pc'[c] = "initialize" /\ pc[c] = "spawn" /\ \A d \in Conn : d # c => pc'[d] = pc[d]
  BY DEF At, Goto, Typed, ConnectTyped
<1>2. /\ target[c] \in Server /\ procs'[target[c]] = c
      /\ \A s \in Server : s # target[c] => procs'[s] = procs[s]
  BY DEF Typed, ConnectTyped, ManagerTyped
<1>3. Owned'
  BY <1>2 DEF ManagerInv, Owned
<1>4. ASSUME NEW s \in Server \ torn PROVE Kept(s)'
  <2>1. Kept(s)
    BY DEF ManagerInv
  <2>2. Registered(s)' = Registered(s)
    BY DEF Registered
  <2>3. ASSUME procs'[s] \in alive', status[s] \in {"none", "disconnected"}
        PROVE  target[procs'[s]] = s /\ pc'[procs'[s]] \in {"initialize", "list", "register", "error"}
    <3>1. CASE s = target[c]
      BY <1>1, <1>2, <3>1
    <3>2. CASE s # target[c]
      <4>1. procs'[s] = procs[s] /\ procs[s] # c
        BY <1>2, <3>2, NoConnAssumption DEF ManagerInv
      <4>2. procs[s] \in alive
        BY <2>3, <4>1
      <4>3. target[procs[s]] = s /\ pc[procs[s]] \in {"initialize", "list", "register", "error"}
            /\ procs[s] \in Conn
        BY <2>1, <2>3, <4>2 DEF Kept, Unconnected, Typed, ConnectTyped
      <4>4. QED
        BY <1>1, <4>1, <4>3
    <3>3. QED
      BY <3>1, <3>2
  <2>4. Unconnected(s)'
    <3>1. ASSUME NEW d \in Conn, target[d] = s, pc[d] = "register" PROVE pc'[d] = "register"
      BY <1>1, <3>1
    <3>2. QED
      BY <2>1, <2>2, <2>3, <3>1 DEF Kept, Unconnected
  <2>5. ASSUME NEW d \in Conn, target[d] = s, pc'[d] = "register"
        PROVE  offered[d] \ left[d] \subseteq Registered(s)
    BY <1>1, <2>1, <2>5 DEF Kept
  <2>6. QED
    BY <2>1, <2>2, <2>4, <2>5 DEF Kept
<1>5. QED
  BY <1>3, <1>4 DEF ManagerInv, Owned

\* A tool that is registered is no longer left.
LEMMA RegisterKeeps ==
  ASSUME Typed, ManagerInv, NEW c \in Conn, RegisterTool(c)
  PROVE  ManagerInv'
<1>1. PICK n \in left[c] : tools' = [tools EXCEPT ![target[c]][n] = c]
                        /\ left' = [left EXCEPT ![c] = @ \ {n}]
  BY DEF RegisterTool
<1>2. /\ pc[c] = "register" /\ target[c] \in Server /\ n \in Name
      /\ UNCHANGED <<status, listed, procs, target, alive, torn, pc, offered>>
  BY <1>1 DEF RegisterTool, At, managerVars, pipeVars, Typed, ConnectTyped
<1>3. /\ \A s \in Server : s # target[c] => tools'[s] = tools[s]
      /\ tools'[target[c]][n] = c
      /\ \A m \in Name : m # n => tools'[target[c]][m] = tools[target[c]][m]
      /\ left'[c] = left[c] \ {n} /\ \A d \in Conn : d # c => left'[d] = left[d]
  BY <1>1, <1>2 DEF Typed, ConnectTyped, ManagerTyped
<1>4. ASSUME NEW s \in Server \ torn PROVE Kept(s)'
  <2>1. Kept(s)
    BY DEF ManagerInv
  <2>2. /\ s # target[c] => Registered(s)' = Registered(s)
        /\ Registered(target[c])' = Registered(target[c]) \cup {n}
    <3>1. Registered(target[c])' = {m \in Name : tools'[target[c]][m] # NoConn}
      BY <1>2 DEF Registered
    <3>2. c # NoConn
      BY NoConnAssumption
    <3>3. \A m \in Name : tools'[target[c]][m] # NoConn <=> m \in Registered(target[c]) \cup {n}
      BY <1>3, <3>2 DEF Registered
    <3>4. Registered(target[c])' = Registered(target[c]) \cup {n}
      BY <1>2, <3>1, <3>3 DEF Registered
    <3>5. QED
      BY <1>3, <3>4 DEF Registered
  <2>3. Registered(s) \subseteq Registered(s)'
    BY <1>2, <2>2
  <2>4. Unconnected(s)'
    <3>1. Registered(s)' # {} => Registered(s) # {} \/ s = target[c]
      BY <2>2
    <3>2. QED
      BY <1>2, <2>1, <3>1 DEF Kept, Unconnected
  <2>5. ASSUME NEW d \in Conn, target[d] = s, pc[d] = "register"
        PROVE  offered[d] \ left'[d] \subseteq Registered(s)'
    <3>1. offered[d] \ left[d] \subseteq Registered(s)
      BY <2>1, <2>5 DEF Kept
    <3>2. CASE d = c
      BY <1>2, <1>3, <2>2, <2>5, <3>1, <3>2
    <3>3. CASE d # c
      BY <1>3, <2>3, <3>1, <3>3
    <3>4. QED
      BY <3>2, <3>3
  <2>6. QED
    BY <1>2, <2>1, <2>3, <2>4, <2>5 DEF Kept
<1>5. QED
  BY <1>2, <1>4 DEF ManagerInv

\* The status says connected once all that was offered is registered, or tells of the error.
LEMMA StatusKeeps ==
  ASSUME Typed, ManagerInv, NEW c \in Conn, SetOK(c) \/ SetErr(c)
  PROVE  ManagerInv'
<1>1. /\ Goto(c, "returned") /\ UNCHANGED <<procs, tools, target, offered, left, alive, torn>>
      /\ \/ /\ pc[c] = "register" /\ left[c] = {}
            /\ status' = [status EXCEPT ![target[c]] = "connected"]
            /\ listed' = [listed EXCEPT ![target[c]] = offered[c]]
         \/ status' = [status EXCEPT ![target[c]] = "error"] /\ listed' = listed
  BY DEF SetOK, SetErr, At, pipeVars
<1>2. /\ pc'[c] = "returned" /\ \A d \in Conn : d # c => pc'[d] = pc[d]
      /\ target[c] \in Server
      /\ \A s \in Server : s # target[c] => status'[s] = status[s] /\ listed'[s] = listed[s]
      /\ \/ /\ pc[c] = "register" /\ left[c] = {}
            /\ status'[target[c]] = "connected" /\ listed'[target[c]] = offered[c]
         \/ status'[target[c]] = "error"
  BY <1>1 DEF Goto, Typed, ConnectTyped, ManagerTyped
<1>3. ASSUME NEW s \in Server \ torn PROVE Kept(s)'
  <2>1. Kept(s)
    BY DEF ManagerInv
  <2>2. Registered(s)' = Registered(s)
    BY <1>1 DEF Registered
  <2>3. ASSUME NEW d \in Conn, target[d] = s, pc'[d] = "register"
        PROVE  offered[d] \ left[d] \subseteq Registered(s)
    BY <1>2, <2>1, <2>3 DEF Kept
  <2>4. CASE s = target[c]
    <3>1. status'[s] \notin {"none", "disconnected"}
      BY <1>2, <2>4
    <3>2. status'[s] = "connected" => listed'[s] \subseteq Registered(s)
      BY <1>2, <2>1, <2>4 DEF Kept
    <3>3. QED
      BY <1>1, <2>2, <2>3, <3>1, <3>2 DEF Kept, Unconnected
  <2>5. CASE s # target[c]
    <3>1. status'[s] = status[s] /\ listed'[s] = listed[s]
      BY <1>2, <2>5
    <3>2. ASSUME NEW d \in Conn, target[d] = s PROVE pc'[d] = pc[d]
      BY <1>2, <2>5, <3>2
    <3>3. Unconnected(s)'
      <4>1. procs[s] \in alive => procs[s] \in Conn
        BY DEF Typed, ConnectTyped
      <4>2. QED
        BY <1>1, <2>1, <2>2, <3>1, <3>2, <4>1 DEF Kept, Unconnected
    <3>4. QED
      BY <1>1, <2>1, <2>2, <2>3, <3>1, <3>3 DEF Kept
  <2>6. QED
    BY <2>4, <2>5
<1>4. QED
  BY <1>1, <1>3 DEF ManagerInv

\* Steps that leave the manager and every Connect where they are.
LEMMA ManagerStays ==
  ASSUME ManagerInv, alive' \subseteq alive,
         UNCHANGED <<status, listed, procs, tools, target, offered, left, torn, pc>>
  PROVE  ManagerInv'
<1>1. ASSUME NEW s \in Server \ torn PROVE Kept(s)'
  <2>1. Kept(s)
    BY DEF ManagerInv
  <2>2. QED
    BY <2>1, KeptStays
<1>2. QED
  BY <1>1 DEF ManagerInv

\* A Connect, step by step, preserves what is known of the manager.
LEMMA ConnectingKeeps ==
  ASSUME Typed, ManagerInv, NEW c \in Conn, Connecting(c)
  PROVE  ManagerInv'
<1>1. Program = {"idle", "spawn", "query", "initialize", "list", "register", "error", "returned"}
  BY DEF Program
<1>2. CASE RegisterTool(c) \/ SetOK(c) \/ SetErr(c)
  BY <1>2, RegisterKeeps, StatusKeeps
<1>3. CASE Connect(c)
  <2>1. /\ pc[c] = "idle" /\ \E l \in {"query", "spawn"} : Goto(c, l)
        /\ UNCHANGED <<status, listed, procs, tools, target, alive, torn, offered, left>>
    BY <1>3 DEF Connect, At, managerVars, pipeVars
  <2>2. QED
    BY <1>1, <2>1, MoveKeeps
<1>4. CASE Spawn(c)
  <2>1. CASE Goto(c, "returned")
    <3>1. c \in started' \/ pc'[c] = "returned"
      BY <1>4 DEF Spawn, Goto, Typed, ConnectTyped
    <3>2. /\ pc[c] = "spawn"
          /\ UNCHANGED <<status, listed, procs, tools, target, alive, torn, offered, left>>
      <4>1. ~ Goto(c, "initialize")
        BY <2>1 DEF Goto, Typed, ConnectTyped
      <4>2. QED
        BY <1>4, <4>1 DEF Spawn, At
    <3>3. QED
      BY <1>1, <2>1, <3>2, MoveKeeps
  <2>2. CASE Goto(c, "initialize") /\ alive' = alive \cup {c} /\ procs' = [procs EXCEPT ![target[c]] = c]
    BY <1>4, <2>2, SpawnKeeps DEF Spawn
  <2>3. QED
    BY <1>4, <2>1, <2>2 DEF Spawn
<1>5. CASE TakeInitialize(c)
  <2>1. /\ pc[c] = "initialize" /\ \E l \in {"list", "error"} : Goto(c, l)
        /\ UNCHANGED <<status, listed, procs, tools, target, alive, torn, offered, left>>
    BY <1>5 DEF TakeInitialize, At, managerVars
  <2>2. QED
    BY <1>1, <2>1, MoveKeeps
<1>6. CASE TakeList(c)
  <2>1. /\ pc[c] = "list"
        /\ UNCHANGED <<status, listed, procs, tools, target, alive, torn>>
        /\ \/ /\ Goto(c, "register")
              /\ \E ns : offered' = [offered EXCEPT ![c] = ns] /\ left' = [left EXCEPT ![c] = ns]
           \/ Goto(c, "error") /\ UNCHANGED <<offered, left>>
    BY <1>6 DEF TakeList, At, managerVars
  <2>2. CASE Goto(c, "error") /\ UNCHANGED <<offered, left>>
    BY <1>1, <2>1, <2>2, MoveKeeps
  <2>3. CASE /\ Goto(c, "register")
             /\ \E ns : offered' = [offered EXCEPT ![c] = ns] /\ left' = [left EXCEPT ![c] = ns]
    <3>1. /\ offered'[c] = left'[c]
          /\ \A d \in Conn : d # c => offered'[d] = offered[d] /\ left'[d] = left[d]
      BY <2>3 DEF Typed, ConnectTyped
    <3>2. QED
      BY <1>1, <2>1, <2>3, <3>1, MoveKeeps
  <2>4. QED
    BY <2>1, <2>2, <2>3
<1>7. CASE Query(c)
  <2>1. /\ pc[c] = "query"
        /\ UNCHANGED <<status, listed, procs, tools, target, alive, torn>>
        /\ \/ /\ Goto(c, "register")
              /\ \E ns : offered' = [offered EXCEPT ![c] = ns] /\ left' = [left EXCEPT ![c] = ns]
           \/ (\E l \in {"error", "returned"} : Goto(c, l)) /\ UNCHANGED <<offered, left>>
    BY <1>7 DEF Query, At, managerVars, pipeVars
  <2>2. CASE (\E l \in {"error", "returned"} : Goto(c, l)) /\ UNCHANGED <<offered, left>>
    BY <1>1, <2>1, <2>2, MoveKeeps
  <2>3. CASE /\ Goto(c, "register")
             /\ \E ns : offered' = [offered EXCEPT ![c] = ns] /\ left' = [left EXCEPT ![c] = ns]
    <3>1. /\ offered'[c] = left'[c]
          /\ \A d \in Conn : d # c => offered'[d] = offered[d] /\ left'[d] = left[d]
      BY <2>3 DEF Typed, ConnectTyped
    <3>2. QED
      BY <1>1, <2>1, <2>3, <3>1, MoveKeeps
  <2>4. QED
    BY <2>1, <2>2, <2>3
<1>8. CASE ReadFails(c) \/ ConnectTimesOut(c)
  <2>1. /\ pc[c] \in {"initialize", "list"} /\ Goto(c, "error")
        /\ UNCHANGED <<status, listed, procs, tools, target, alive, torn, offered, left>>
    BY <1>8 DEF ReadFails, ConnectTimesOut, managerVars, pipeVars
  <2>2. QED
    BY <1>1, <2>1, MoveKeeps
<1>9. QED
  BY <1>2, <1>3, <1>4, <1>5, <1>6, <1>7, <1>8 DEF Connecting

\* Every step preserves what is known of the manager.
LEMMA ManagerStep ==
  ASSUME Typed, ManagerInv, [Next]_vars
  PROVE  ManagerInv'
<1>1. CASE UNCHANGED vars
  BY <1>1, ManagerStays DEF vars, managerVars, connectVars, pipeVars
<1>2. ASSUME NEW s \in Server, Upsert(s) PROVE ManagerInv'
  <2>1. /\ status' = [status EXCEPT ![s] = IF @ = "none" THEN "disconnected" ELSE @]
        /\ UNCHANGED <<listed, procs, tools, target, alive, torn, pc, offered, left>>
    BY <1>2 DEF Upsert, connectVars, pipeVars
  <2>2. ASSUME NEW t \in Server \ torn PROVE Kept(t)'
    <3>1. /\ status'[t] \in {"none", "disconnected"} => status[t] \in {"none", "disconnected"}
          /\ status'[t] = "connected" => status[t] = "connected"
      BY <2>1 DEF Typed, ManagerTyped
    <3>2. Kept(t)
      BY DEF ManagerInv
    <3>3. QED
      BY <2>1, <3>1, <3>2 DEF Kept, Unconnected, Registered
  <2>3. QED
    BY <2>1, <2>2 DEF ManagerInv
<1>3. ASSUME NEW s \in Server, Disconnect(s) \/ Delete(s) PROVE ManagerInv'
  BY <1>3, DropKeeps DEF Disconnect, Delete
<1>4. ASSUME NEW s \in Server, Forget(s) PROVE ManagerInv'
  BY <1>4, ForgetKeeps
<1>5. ASSUME NEW c \in Conn, EndRequest(c) \/ Exit(c) PROVE ManagerInv'
  BY <1>5, ManagerStays DEF EndRequest, Exit, Kill, managerVars, connectVars
<1>6. ASSUME NEW c \in Conn, Serve(c) PROVE ManagerInv'
  BY <1>6, ManagerStays DEF Serve, managerVars, connectVars
<1>7. ASSUME NEW k \in Caller, Calling(k) PROVE ManagerInv'
  BY <1>7, ManagerStays DEF Calling, FindHandler, Send, SendFails, Receive, CallFails, CallTimesOut,
     Release, managerVars, connectVars, pipeVars
<1>8. QED
  BY <1>1, <1>2, <1>3, <1>4, <1>5, <1>6, <1>7, ConnectingKeeps DEF Next

-----------------------------------------------------------------------------
\* The inductive invariant: who holds which mutex, what is on its way over each session, and
\* what each server's status says of the router's tools, in every state the client can reach.
THEOREM Invariance == Spec => []IInv
<1>1. IInv /\ [Next]_vars => IInv'
  <2> SUFFICES ASSUME IInv, [Next]_vars PROVE IInv'
    OBVIOUS
  <2>1. Typed /\ SaidBefore /\ ManagerInv
    BY DEF IInv, Typed, SaidBefore
  <2>2. TypedNext /\ SessionInv' /\ ManagerInv'
    BY <2>1, TypedStep, SessionStep, ManagerStep DEF SaidBefore, SessionInv
  <2>3. QED
    BY <2>2 DEF IInv, TypedNext
<1>2. QED
  BY <1>1, InitIInv, PTL DEF Spec

\* The types of the manager and its sessions; nobody but the holder of a session's mutex waits
\* for an answer on it (client.go:52 and 326).
THEOREM TypeCorrect == Spec => []TypeOK
<1>1. IInv => TypeOK
  <2> SUFFICES ASSUME IInv PROVE TypeOK
    OBVIOUS
  <2>1. ManagerTyped /\ ConnectTyped /\ PipeTyped
    BY DEF IInv
  <2>2. ASSUME NEW k \in Caller PROVE call[k] = "waiting" <=> k \in {holder[c] : c \in Conn}
    <3>1. ASSUME call[k] = "waiting" PROVE k \in {holder[c] : c \in Conn}
      <4>1. holder[session[k]] = k /\ session[k] \in Conn
        BY <2>1, <3>1 DEF IInv, SessionInv, MutexHeld, HandlersListed, ConnectTyped
      <4>2. QED
        BY <4>1
    <3>2. ASSUME NEW c \in Conn, holder[c] = k PROVE call[k] = "waiting"
      BY <3>2, CallerAssumption DEF IInv, SessionInv, MutexHeld
    <3>3. QED
      BY <3>1, <3>2
  <2>3. sent \in [Conn -> Nat]
    BY <2>1 DEF PipeTyped
  <2>4. \A c \in Conn : left[c] \subseteq offered[c] /\ offered[c] \subseteq Name
    BY <2>1 DEF ConnectTyped
  <2>5. QED
    BY <2>1, <2>2, <2>3, <2>4 DEF ManagerTyped, ConnectTyped, TypeOK
<1>2. QED
  BY <1>1, Invariance, PTL

\* Whoever waits on a session reads the answer to its own request, as long as the server has not
\* answered a notification and no wait has timed out (client.go:326-364).
THEOREM AnswersAreOwn == Spec => []OwnAnswer
<1>1. IInv => OwnAnswer
  <2> SUFFICES ASSUME IInv, NEW c \in Conn \ noisy, stdout[c] # <<>>
               PROVE  /\ ~ (pc[c] = "list" /\ Head(stdout[c]).kind # "tools/list")
                      /\ \A k \in Caller : call[k] = "waiting" /\ session[k] = c =>
                           Head(stdout[c]).id = mine[k]
    BY DEF OwnAnswer, Misread
  <2>1. OnItsWay(c) /\ stdout[c] \in Seq(Reply) /\ Head(stdout[c]) = stdout[c][1]
    BY DEF IInv, SessionInv, PipeTyped
  <2>2. ASSUME pc[c] = "list" PROVE Head(stdout[c]).kind = "tools/list"
    BY <2>1, <2>2 DEF OnItsWay, OneOnItsWay, Silent, Answers
  <2>3. ASSUME NEW k \in Caller, call[k] = "waiting", session[k] = c
        PROVE  Head(stdout[c]).id = mine[k]
    <3>1. holder[c] = k /\ k # "none" /\ Listed(c) /\ mine[k] = sent[c]
      BY <2>3, CallerAssumption DEF IInv, SessionInv, MutexHeld
    <3>2. QED
      BY <2>1, <3>1 DEF OnItsWay, OneOnItsWay, Silent, Answers, Listed
  <2>4. QED
    BY <2>2, <2>3
<1>2. QED
  BY <1>1, Invariance, PTL

\* At rest a server's tools are those its status tells of, unless a disconnection has met a
\* connection in progress (client.go:155-182 and 309-395).
THEOREM StatusIsTrue == Spec => []StatusMatchesTools
<1>1. IInv => StatusMatchesTools
  <2> SUFFICES ASSUME IInv, NEW s \in Server, Quiet(s), s \notin torn
               PROVE  /\ status[s] \in {"none", "disconnected"} =>
                           Registered(s) = {} /\ procs[s] \notin alive
                      /\ status[s] = "connected" => listed[s] \subseteq Registered(s)
    BY DEF StatusMatchesTools
  <2>1. Kept(s) /\ alive \subseteq Conn
    BY DEF IInv, ManagerInv, ConnectTyped
  <2>2. \A c \in Conn : target[c] = s => pc[c] \notin {"initialize", "list", "register", "error"}
    BY DEF Quiet, InFlight
  <2>3. QED
    BY <2>1, <2>2 DEF Kept, Unconnected
<1>2. QED
  BY <1>1, Invariance, PTL

=============================================================================
