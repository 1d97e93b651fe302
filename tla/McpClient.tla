------------------------------- MODULE McpClient -------------------------------
(***************************************************************************)
(* The MCP client (kernel/pkg/mcpclient/client.go): servers that hosts     *)
(* configure, connect, disconnect and delete over the HTTP API, the tools  *)
(* it registers for them, and tool calls that share a stdio session.       *)
(*                                                                         *)
(* A connection c is one run of Connect, its stdio process and its session *)
(* in one; procs names the session a server would be disconnected from.    *)
(* The process runs under the context of the HTTP request that connects    *)
(* (kernel/pkg/httpapi/agent_os.go:117).  A server answers what it reads,  *)
(* in order; whether it answers, and whether with an error, is its choice. *)
(***************************************************************************)
EXTENDS Integers, Sequences, FiniteSets

CONSTANTS
  Server,     \* server ids
  Prefix,     \* pairs <<s, t>>: tool ids of t begin with the tool prefix of s
  Conn,       \* runs of Connect
  NoConn,     \* none of them
  Name,       \* tool names servers offer
  Caller,     \* goroutines that call tools
  MaxCalls,   \* bound on the number of tool calls
  MaxChanges  \* bound on configurations, disconnections and deletions by hosts

ASSUME NoConnAssumption == NoConn \notin Conn
ASSUME CallerAssumption == "none" \notin Caller
ASSUME PrefixAssumption ==
  Prefix \subseteq Server \X Server /\ \A s \in Server : <<s, s>> \in Prefix
ASSUME BoundAssumption == MaxCalls \in Nat /\ MaxChanges \in Nat

VARIABLES
  servers,   \* server -> its transport, or "none": Manager.servers
  status,    \* server -> Status.State, or "none": Manager.status
  listed,    \* server -> Status.Tools
  procs,     \* server -> connection whose session is in Manager.procs
  deleting,  \* servers a Delete has disconnected and not yet forgotten
  tools,     \* server, name -> connection whose handler the tool router has
  pc,        \* connection -> where its Connect is
  target,    \* connection -> the server it connects
  offered,   \* connection -> tools the server has listed
  left,      \* connection -> those not yet registered
  gone,      \* connections whose HTTP request is over
  started,   \* connections that have started a process
  alive,     \* those whose process still runs
  stdin,     \* connection -> requests its process has not read
  stdout,    \* connection -> answers not read by the client
  sent,      \* connection -> requests written to its session (ids are unique in it)
  holder,    \* connection -> caller that holds its session's mutex, or "none"
  call,      \* caller -> "idle", "ready" or "waiting"
  session,   \* caller -> connection whose handler it runs
  mine,      \* caller -> id of its request
  noisy,     \* history: sessions with an answered notification or a timeout
  torn,      \* history: servers disconnected while being connected
  changes,   \* configurations, disconnections and deletions so far
  calls      \* tool calls so far

managerVars == <<servers, status, listed, procs, deleting>>
connectVars == <<pc, target, offered, left, gone>>
pipeVars == <<started, alive, stdin, stdout, sent>>
callVars == <<holder, call, session, mine>>
boundVars == <<changes, calls>>
vars == <<managerVars, tools, connectVars, pipeVars, callVars, noisy, torn, boundVars>>

At(c, l) == pc[c] = l
Goto(c, l) == pc' = [pc EXCEPT ![c] = l]

InFlight(s) == {c \in Conn : pc[c] \notin {"idle", "returned"} /\ target[c] = s}
Registered(s) == {n \in Name : tools[s][n] # NoConn}
Below(s) == {t \in Server : <<s, t>> \in Prefix}

Message(id, kind) == [id |-> id, kind |-> kind]

Init ==
  /\ servers = [s \in Server |-> "none"]
  /\ status = [s \in Server |-> "none"]
  /\ listed = [s \in Server |-> {}]
  /\ procs = [s \in Server |-> NoConn]
  /\ deleting = {}
  /\ tools = [s \in Server |-> [n \in Name |-> NoConn]]
  /\ pc = [c \in Conn |-> "idle"]
  /\ target \in [Conn -> Server]
  /\ offered = [c \in Conn |-> {}]
  /\ left = [c \in Conn |-> {}]
  /\ gone = {}
  /\ started = {}
  /\ alive = {}
  /\ stdin = [c \in Conn |-> <<>>]
  /\ stdout = [c \in Conn |-> <<>>]
  /\ sent = [c \in Conn |-> 0]
  /\ holder = [c \in Conn |-> "none"]
  /\ call = [k \in Caller |-> "idle"]
  /\ session = [k \in Caller |-> NoConn]
  /\ mine = [k \in Caller |-> 0]
  /\ noisy = {}
  /\ torn = {}
  /\ changes = 0
  /\ calls = 0

-----------------------------------------------------------------------------
\* Hosts configure, disconnect and delete

Change == changes < MaxChanges /\ changes' = changes + 1

Upsert(s) ==
  /\ Change
  /\ \E transport \in {"stdio", "http"} : servers' = [servers EXCEPT ![s] = transport]
  /\ status' = [status EXCEPT ![s] = IF @ = "none" THEN "disconnected" ELSE @]
  /\ UNCHANGED <<listed, procs, deleting, tools, connectVars, pipeVars, callVars, noisy,
                 torn, calls>>

\* Mutant: the tools the status lists are removed.
ListedTools(s) == {s} \X listed[s]

\* The tools Disconnect removes from the router: by the prefix of their ids.
PrefixedTools(s) == Below(s) \X Name

Without(removed) ==
  [t \in Server |-> [n \in Name |-> IF <<t, n>> \in removed THEN NoConn ELSE tools[t][n]]]

\* A process dies: what it has not read is lost, what it has written is not.
Kill(c) ==
  /\ alive' = alive \ {c}
  /\ stdin' = [d \in Conn |-> IF d = c THEN <<>> ELSE stdin[d]]

\* Disconnect, in one critical section of the manager.  It knows one session of the
\* server, the last one started, and kills its process.
Drop(s) ==
  /\ Kill(procs[s])
  /\ procs' = [procs EXCEPT ![s] = NoConn]
  /\ status' = [status EXCEPT ![s] = IF @ = "none" THEN @ ELSE "disconnected"]
  /\ listed' = [listed EXCEPT ![s] = {}]
  /\ tools' = Without(PrefixedTools(s))
  /\ torn' = torn \cup {t \in Below(s) : t # s \/ InFlight(t) # {}}
  /\ UNCHANGED <<servers, connectVars, started, stdout, sent, callVars,
                 noisy, calls>>

Disconnect(s) == Change /\ Drop(s) /\ UNCHANGED deleting

\* Delete disconnects and, in a second critical section, forgets the server.
Delete(s) == s \notin deleting /\ Change /\ Drop(s) /\ deleting' = deleting \cup {s}

Forget(s) ==
  /\ s \in deleting
  /\ deleting' = deleting \ {s}
  /\ servers' = [servers EXCEPT ![s] = "none"]
  /\ status' = [status EXCEPT ![s] = "none"]
  /\ listed' = [listed EXCEPT ![s] = {}]
  /\ torn' = IF InFlight(s) # {} \/ status[s] # "disconnected" THEN torn \cup {s} ELSE torn
  /\ UNCHANGED <<procs, tools, connectVars, pipeVars, callVars, noisy, boundVars>>

-----------------------------------------------------------------------------
\* Connect: over stdio, start the process, initialize, list, register, set status

Connect(c) ==
  /\ At(c, "idle")
  /\ servers[target[c]] # "none"
  /\ Goto(c, IF servers[target[c]] = "http" THEN "query" ELSE "spawn")
  /\ UNCHANGED <<managerVars, tools, target, offered, left, gone, pipeVars, callVars,
                 noisy, torn, boundVars>>

\* Requests are written one after another, each with the next id.
Write(c, kinds) ==
  /\ sent' = [sent EXCEPT ![c] = @ + Len(kinds)]
  /\ stdin' = [stdin EXCEPT ![c] =
                 @ \o [i \in DOMAIN kinds |-> Message(sent[c] + i, kinds[i])]]

\* The process is started and its session becomes the one of the server, whatever
\* session was there before.  A command that cannot be started changes nothing.
Spawn(c) ==
  /\ At(c, "spawn")
  /\ \/ /\ c \notin gone
        /\ started' = started \cup {c}
        /\ alive' = alive \cup {c}
        /\ procs' = [procs EXCEPT ![target[c]] = c]
        /\ Write(c, <<"initialize">>)
        /\ Goto(c, "initialize")
     \/ /\ Goto(c, "returned")
        /\ UNCHANGED <<started, alive, procs, stdin, sent>>
  /\ UNCHANGED <<servers, status, listed, deleting, tools, target, offered, left, gone,
                 stdout, callVars, noisy, torn, boundVars>>

\* The next line with an id is taken for the answer, whatever it answers.
Take(c) == stdout[c] # <<>> /\ stdout' = [stdout EXCEPT ![c] = Tail(@)]

\* A request cannot be written to a process that is gone.
TakeInitialize(c) ==
  /\ At(c, "initialize")
  /\ Take(c)
  /\ IF Head(stdout[c]).ok /\ c \in alive
     THEN /\ Write(c, <<"notifications/initialized", "tools/list">>)
          /\ Goto(c, "list")
     ELSE Goto(c, "error") /\ UNCHANGED <<stdin, sent>>
  /\ UNCHANGED <<managerVars, tools, target, offered, left, gone, started, alive, callVars,
                 noisy, torn, boundVars>>

\* A result of another kind has no tools in it.
TakeList(c) ==
  /\ At(c, "list")
  /\ Take(c)
  /\ IF Head(stdout[c]).ok
     THEN /\ \E ns \in IF Head(stdout[c]).kind = "tools/list" THEN SUBSET Name ELSE {{}} :
               /\ offered' = [offered EXCEPT ![c] = ns]
               /\ left' = [left EXCEPT ![c] = ns]
          /\ Goto(c, "register")
     ELSE Goto(c, "error") /\ UNCHANGED <<offered, left>>
  /\ UNCHANGED <<managerVars, tools, target, gone, started, alive, stdin, sent, callVars,
                 noisy, torn, boundVars>>

\* tools/list over HTTP, under the context of the request.  A server without a URL
\* leaves the status as it is.
Query(c) ==
  /\ At(c, "query")
  /\ \/ /\ c \notin gone
        /\ \E ns \in SUBSET Name : /\ offered' = [offered EXCEPT ![c] = ns]
                                   /\ left' = [left EXCEPT ![c] = ns]
        /\ Goto(c, "register")
     \/ Goto(c, "error") /\ UNCHANGED <<offered, left>>
     \/ Goto(c, "returned") /\ UNCHANGED <<offered, left>>
  /\ UNCHANGED <<managerVars, tools, target, gone, pipeVars, callVars, noisy, torn, boundVars>>

\* The pipe of a process that is gone ends after what it has written.
EndOfFile(c) == c \notin alive /\ stdout[c] = <<>>

ReadFails(c) ==
  /\ pc[c] \in {"initialize", "list"}
  /\ EndOfFile(c)
  /\ Goto(c, "error")
  /\ UNCHANGED <<managerVars, tools, target, offered, left, gone, pipeVars, callVars,
                 noisy, torn, boundVars>>

\* The deadline is looked at between two lines: a server that keeps sending
\* notifications makes the client give up.
ConnectTimesOut(c) ==
  /\ pc[c] \in {"initialize", "list"}
  /\ c \in alive
  /\ Goto(c, "error")
  /\ noisy' = noisy \cup {c}
  /\ UNCHANGED <<managerVars, tools, target, offered, left, gone, pipeVars, callVars,
                 torn, boundVars>>

RegisterTool(c) ==
  /\ At(c, "register")
  /\ \E n \in left[c] :
       /\ tools' = [tools EXCEPT ![target[c]][n] = c]
       /\ left' = [left EXCEPT ![c] = @ \ {n}]
  /\ UNCHANGED <<managerVars, pc, target, offered, gone, pipeVars, callVars, noisy, torn,
                 boundVars>>

SetOK(c) ==
  /\ At(c, "register")
  /\ left[c] = {}
  /\ status' = [status EXCEPT ![target[c]] = "connected"]
  /\ listed' = [listed EXCEPT ![target[c]] = offered[c]]
  /\ Goto(c, "returned")
  /\ UNCHANGED <<servers, procs, deleting, tools, target, offered, left, gone, pipeVars,
                 callVars, noisy, torn, boundVars>>

\* The process of a failed connection stays the session of the server.
SetErr(c) ==
  /\ At(c, "error")
  /\ status' = [status EXCEPT ![target[c]] = "error"]
  /\ Goto(c, "returned")
  /\ UNCHANGED <<servers, listed, procs, deleting, tools, target, offered, left, gone,
                 pipeVars, callVars, noisy, torn, boundVars>>

\* Mutant: the process does not run under the context of the request.
DetachProcess(c) ==
  /\ ~At(c, "idle")
  /\ c \notin gone
  /\ gone' = gone \cup {c}
  /\ UNCHANGED <<managerVars, tools, pc, target, offered, left, pipeVars, callVars, noisy,
                 torn, boundVars>>

\* The HTTP request is over, because its handler has returned or its host has gone:
\* the context ends and the process with it.
EndRequest(c) ==
  /\ ~At(c, "idle")
  /\ c \notin gone
  /\ gone' = gone \cup {c}
  /\ Kill(c)
  /\ UNCHANGED <<managerVars, tools, pc, target, offered, left, started, stdout,
                 sent, callVars, noisy, torn, boundVars>>

-----------------------------------------------------------------------------
\* The process behind a session

\* It reads a request and answers it, or does not answer a notification.
Serve(c) ==
  /\ c \in alive
  /\ stdin[c] # <<>>
  /\ LET m == Head(stdin[c])
         notification == m.kind = "notifications/initialized"
     IN  \/ /\ \E ok \in BOOLEAN :
                  stdout' = [stdout EXCEPT ![c] =
                               Append(@, [id |-> m.id, kind |-> m.kind, ok |-> ok])]
            /\ noisy' = IF notification THEN noisy \cup {c} ELSE noisy
         \/ notification /\ UNCHANGED <<stdout, noisy>>
  /\ stdin' = [stdin EXCEPT ![c] = Tail(@)]
  /\ UNCHANGED <<managerVars, tools, connectVars, started, alive, sent, callVars, torn,
                 boundVars>>

Exit(c) ==
  /\ c \in alive
  /\ Kill(c)
  /\ UNCHANGED <<managerVars, tools, connectVars, started, stdout, sent, callVars,
                 noisy, torn, boundVars>>

-----------------------------------------------------------------------------
\* Tool calls over stdio: the handler the router has, then one exchange under the
\* mutex of its session

FindHandler(k) ==
  /\ call[k] = "idle"
  /\ calls < MaxCalls
  /\ calls' = calls + 1
  /\ \E s \in Server, n \in Name :
       /\ tools[s][n] # NoConn
       /\ tools[s][n] \in started
       /\ session' = [session EXCEPT ![k] = tools[s][n]]
  /\ call' = [call EXCEPT ![k] = "ready"]
  /\ UNCHANGED <<managerVars, tools, connectVars, pipeVars, holder, mine, noisy, torn,
                 changes>>

\* Mutant: the session's mutex is not taken.
SendAnyway(k) ==
  /\ call[k] = "ready"
  /\ session[k] \in alive
  /\ Write(session[k], <<"tools/call">>)
  /\ mine' = [mine EXCEPT ![k] = sent[session[k]] + 1]
  /\ call' = [call EXCEPT ![k] = "waiting"]
  /\ UNCHANGED <<managerVars, tools, connectVars, started, alive, stdout, holder, session,
                 noisy, torn, boundVars>>

Send(k) ==
  /\ call[k] = "ready"
  /\ holder[session[k]] = "none"
  /\ session[k] \in alive
  /\ holder' = [holder EXCEPT ![session[k]] = k]
  /\ Write(session[k], <<"tools/call">>)
  /\ mine' = [mine EXCEPT ![k] = sent[session[k]] + 1]
  /\ call' = [call EXCEPT ![k] = "waiting"]
  /\ UNCHANGED <<managerVars, tools, connectVars, started, alive, stdout, session, noisy,
                 torn, boundVars>>

\* The request cannot be written: the process is gone.
SendFails(k) ==
  /\ call[k] = "ready"
  /\ holder[session[k]] = "none"
  /\ session[k] \notin alive
  /\ call' = [call EXCEPT ![k] = "idle"]
  /\ session' = [session EXCEPT ![k] = NoConn]
  /\ UNCHANGED <<managerVars, tools, connectVars, pipeVars, holder, mine, noisy, torn,
                 boundVars>>

Release(k) ==
  /\ holder' = [holder EXCEPT ![session[k]] = "none"]
  /\ call' = [call EXCEPT ![k] = "idle"]
  /\ session' = [session EXCEPT ![k] = NoConn]
  /\ mine' = [mine EXCEPT ![k] = 0]
  /\ UNCHANGED <<managerVars, tools, connectVars, started, alive, stdin, sent, torn, boundVars>>

Receive(k) ==
  /\ call[k] = "waiting"
  /\ Take(session[k])
  /\ Release(k)
  /\ UNCHANGED noisy

CallFails(k) ==
  /\ call[k] = "waiting"
  /\ EndOfFile(session[k])
  /\ Release(k)
  /\ UNCHANGED <<stdout, noisy>>

CallTimesOut(k) ==
  /\ call[k] = "waiting"
  /\ session[k] \in alive
  /\ noisy' = noisy \cup {session[k]}
  /\ Release(k)
  /\ UNCHANGED stdout

-----------------------------------------------------------------------------

Connecting(c) ==
  \/ Connect(c) \/ Spawn(c) \/ TakeInitialize(c) \/ TakeList(c) \/ Query(c)
  \/ ReadFails(c) \/ ConnectTimesOut(c) \/ RegisterTool(c) \/ SetOK(c) \/ SetErr(c)

Calling(k) ==
  FindHandler(k) \/ Send(k) \/ SendFails(k) \/ Receive(k) \/ CallFails(k) \/ CallTimesOut(k)

Next ==
  \/ \E s \in Server : Upsert(s) \/ Disconnect(s) \/ Delete(s) \/ Forget(s)
  \/ \E c \in Conn : Connecting(c) \/ EndRequest(c) \/ Serve(c) \/ Exit(c)
  \/ \E k \in Caller : Calling(k)

Spec == Init /\ [][Next]_vars

\* A Connect goes on when it can, without the deadline's help.  No server is obliged
\* to answer and no host to go.
Going(c) ==
  \/ Spawn(c) \/ TakeInitialize(c) \/ TakeList(c) \/ Query(c) \/ ReadFails(c)
  \/ RegisterTool(c) \/ SetOK(c) \/ SetErr(c)

FairSpec == Spec /\ \A c \in Conn : WF_vars(Going(c))

-----------------------------------------------------------------------------
\* Properties

Quiet(s) == InFlight(s) = {} /\ s \notin deleting

\* The types of the manager (client.go:52) and of its sessions; nobody but the holder
\* of a session's mutex waits for an answer on it.
TypeOK ==
  /\ servers \in [Server -> {"none", "stdio", "http"}]
  /\ status \in [Server -> {"none", "disconnected", "connected", "error"}]
  /\ listed \in [Server -> SUBSET Name]
  /\ procs \in [Server -> Conn \cup {NoConn}]
  /\ deleting \in SUBSET Server
  /\ tools \in [Server -> [Name -> Conn \cup {NoConn}]]
  /\ target \in [Conn -> Server]
  /\ \A c \in Conn : left[c] \subseteq offered[c] /\ offered[c] \subseteq Name
  /\ alive \subseteq started /\ alive \cap gone = {}
  /\ sent \in [Conn -> Nat] /\ changes \in 0 .. MaxChanges /\ calls \in 0 .. MaxCalls
  /\ \A k \in Caller : call[k] = "waiting" <=> k \in {holder[c] : c \in Conn}

\* What can be read from a session is the answer to the request that waits for one,
\* however calls share the session and whenever it was interrupted, as long as the
\* server has not answered a notification and no wait has timed out on it (rpcStdio,
\* client.go:326-364).
Misread(c) ==
  /\ stdout[c] # <<>>
  /\ \/ pc[c] = "list" /\ Head(stdout[c]).kind # "tools/list"
     \/ \E k \in Caller : call[k] = "waiting" /\ session[k] = c /\ Head(stdout[c]).id # mine[k]

OwnAnswer == \A c \in Conn \ noisy : ~Misread(c)

\* At rest, a server whose disconnections never met a connection in progress has
\* tools only while it is not disconnected, and while it is connected every tool its
\* status lists is registered (client.go:155-182 and 309-395).
StatusMatchesTools ==
  \A s \in Server : Quiet(s) /\ s \notin torn =>
    /\ status[s] \in {"none", "disconnected"} => Registered(s) = {} /\ procs[s] \notin alive
    /\ status[s] = "connected" => listed[s] \subseteq Registered(s)

\* A Connect whose host has gone returns, even when the server never answers: its
\* process dies with the request (agent_os.go:117, client.go:188).
AbandonedConnectReturns ==
  \A c \in Conn : c \in gone ~> At(c, "returned")
=============================================================================
