------------------------------- MODULE AgentLoop -------------------------------
(***************************************************************************)
(* The tool-using agent (kernel/pkg/adapters/agentloop/runtime.go), the    *)
(* invoker the kernel wires into it (kernel/pkg/kernel/kernel.go:230-258), *)
(* the approval gate (kernel/pkg/approval/gate.go) and the tool router     *)
(* (kernel/pkg/toolrouter/router.go).                                      *)
(*                                                                         *)
(* Several missions run the loop at once; operators resolve approvals and  *)
(* the MCP client adds and removes tools meanwhile.  An action is what     *)
(* lies between two calls or critical sections.  What a model answers and  *)
(* whether a tool succeeds are chosen freely.  A message is its role, the  *)
(* step it belongs to and, for an assistant message, its number of tool    *)
(* calls or, for a tool message, which of them it answers.                 *)
(***************************************************************************)
EXTENDS Integers, Sequences, FiniteSets

CONSTANTS
  Agent,       \* missions the loop runs
  Assist,      \* those of them in assist mode
  Tool,        \* tool ids a model can name
  Dangerous,   \* those IsDangerous lists (gate.go:83)
  External,    \* those the MCP client registers and unregisters
  MaxSteps,    \* the budget's step limit (12 when the policy has none)
  Openings,    \* numbers of system messages a conversation starts with (1 to 3)
  MaxCalls,    \* bound on the tool calls of one model answer
  KeepRecent,  \* messages compaction keeps (24 in the code)
  LogCap       \* invocations the router remembers (500 in the code)

ASSUME AssistAssumption == Assist \subseteq Agent
ASSUME ToolAssumption == Dangerous \subseteq Tool /\ External \subseteq Tool
ASSUME LimitAssumption ==
  /\ MaxSteps \in Nat \ {0} /\ MaxCalls \in Nat \ {0}
  /\ Openings \subseteq 1 .. 3
  /\ KeepRecent \in Nat \ {0} /\ LogCap \in Nat \ {0}

VARIABLES
  pc,         \* agent -> what its loop does next
  steps,      \* agent -> steps
  msgs,       \* agent -> the conversation sent to the model
  calls,      \* agent -> tool calls of the last answer still to be made
  found,      \* agent -> does the router's lookup of the current call find a handler?
  inv,        \* agent -> number of its current invocation
  result,     \* agent -> the status Execute returned, or "none"
  approvals,  \* Gate.byID: [mission, tool, status], in the order of their ids
  tools,      \* ids registered with the tool router
  seq,        \* toolrouter.Router.seq
  log,        \* toolrouter.Router.log, the numbers in it
  danger      \* history: agent -> runs of dangerous tools

loopVars == <<steps, msgs, result>>
routerVars == <<tools, seq, log>>
vars == <<loopVars, pc, calls, found, inv, approvals, routerVars, danger>>

-----------------------------------------------------------------------------
\* Conversations

System == [role |-> "system", step |-> 0, n |-> 0]
User == [role |-> "user", step |-> 0, n |-> 0]
Assistant(s, k) == [role |-> "assistant", step |-> s, n |-> k]
Answer(s, i) == [role |-> "tool", step |-> s, n |-> i]

\* The system messages the conversation starts with: the prompt and, when there are
\* any, memories and skills.
Opening(k) == [i \in 1 .. k |-> System] \o <<User>>

HeadLen(ms) ==
  Cardinality({i \in DOMAIN ms : i <= 4 /\ \A j \in 1 .. i : ms[j] = System})

\* Mutant: compaction keeps the oldest messages.
CompactRecent(ms) ==
  IF Len(ms) <= KeepRecent + 2 THEN ms ELSE SubSeq(ms, 1, KeepRecent + HeadLen(ms))

\* compactMessages: the opening system messages and the KeepRecent latest messages.
Compact(ms) ==
  LET start == IF Len(ms) - KeepRecent < HeadLen(ms) THEN HeadLen(ms)
               ELSE Len(ms) - KeepRecent
  IN  IF Len(ms) <= KeepRecent + 2 THEN ms
      ELSE SubSeq(ms, 1, HeadLen(ms)) \o SubSeq(ms, start + 1, Len(ms))

At(a, l) == pc[a] = l
Goto(a, l) == pc' = [pc EXCEPT ![a] = l]
Say(a, m) == msgs' = [msgs EXCEPT ![a] = Append(@, m)]

Init ==
  /\ pc = [a \in Agent |-> "start"]
  /\ steps = [a \in Agent |-> 0]
  /\ msgs = [a \in Agent |-> <<>>]
  /\ calls = [a \in Agent |-> <<>>]
  /\ found = [a \in Agent |-> FALSE]
  /\ inv = [a \in Agent |-> 0]
  /\ result = [a \in Agent |-> "none"]
  /\ approvals = <<>>
  /\ tools = Tool \ External
  /\ seq = 0
  /\ log = <<>>
  /\ danger = [a \in Agent |-> 0]

-----------------------------------------------------------------------------
\* The loop of Execute

Start(a) ==
  /\ At(a, "start")
  /\ \E k \in Openings : msgs' = [msgs EXCEPT ![a] = Opening(k)]
  /\ Goto(a, "step")
  /\ UNCHANGED <<steps, result, calls, found, inv, approvals,
                 routerVars, danger>>

BeginStep(a) ==
  /\ At(a, "step")
  /\ IF steps[a] < MaxSteps
     THEN /\ steps' = [steps EXCEPT ![a] = @ + 1]
          /\ msgs' = [msgs EXCEPT ![a] = Compact(@)]
          /\ Goto(a, "complete")
     ELSE /\ Say(a, User)
          /\ Goto(a, "summarize")
          /\ UNCHANGED steps
  /\ UNCHANGED <<result, calls, found, inv, approvals, routerVars, danger>>

Return(a, status) ==
  /\ result' = [result EXCEPT ![a] = status]
  /\ Goto(a, "returned")
  /\ UNCHANGED <<msgs, calls>>

\* An answer without tool calls is final; the tool calls of another are made in order.
TakeAnswer(a) ==
  \/ Return(a, "succeeded")
  \/ \E cs \in UNION {[1 .. k -> Tool] : k \in 1 .. MaxCalls} :
       /\ Say(a, Assistant(steps[a], Len(cs)))
       /\ calls' = [calls EXCEPT ![a] = cs]
       /\ Goto(a, "call")
       /\ UNCHANGED result

Complete(a) ==
  /\ At(a, "complete")
  /\ \/ TakeAnswer(a)
     \/ Return(a, "failed")
     \/ Goto(a, "retry") /\ UNCHANGED <<msgs, calls, result>>
  /\ UNCHANGED <<steps, found, inv, approvals, routerVars, danger>>

\* The error spoke of tools: once more, without them.
CompleteWithoutTools(a) ==
  /\ At(a, "retry")
  /\ TakeAnswer(a) \/ Return(a, "failed")
  /\ UNCHANGED <<steps, found, inv, approvals, routerVars, danger>>

\* After the last step a summary is asked for; without one the loop succeeds too.
Summarize(a) ==
  /\ At(a, "summarize")
  /\ Return(a, "succeeded")
  /\ UNCHANGED <<steps, found, inv, approvals, routerVars, danger>>

-----------------------------------------------------------------------------
\* Invoke: the gate, then the router

CurrentTool(a) == Head(calls[a])

\* The answer to the current call, with which the loop goes on to the next call.
Settle(a) ==
  /\ LET last == msgs[a][Len(msgs[a])]
     IN  Say(a, Answer(steps[a], IF last.role = "assistant" THEN 1 ELSE last.n + 1))
  /\ calls' = [calls EXCEPT ![a] = Tail(@)]
  /\ Goto(a, IF Len(calls[a]) = 1 THEN "step" ELSE "call")
  /\ UNCHANGED <<steps, result>>

\* A tool that is not dangerous goes past the gate.
PassGate(a) ==
  /\ At(a, "call")
  /\ CurrentTool(a) \notin Dangerous
  /\ Goto(a, "lookup")
  /\ UNCHANGED <<loopVars, calls, found, inv, approvals, routerVars, danger>>

\* Mutant: only assist mode leaves a trace at the gate.
AskGateInAssist(a) ==
  /\ At(a, "call")
  /\ CurrentTool(a) \in Dangerous
  /\ IF a \in Assist
     THEN /\ Settle(a)
          /\ approvals' = Append(approvals, [mission |-> a, tool |-> CurrentTool(a),
                                             status |-> "pending"])
     ELSE Goto(a, "lookup") /\ UNCHANGED <<loopVars, calls, approvals>>
  /\ UNCHANGED <<found, inv, routerVars, danger>>

\* A dangerous tool files a new request, which is pending; in assist mode that is the
\* end of the call.  Requests filed before, approved or not, are not looked at.
AskGate(a) ==
  /\ At(a, "call")
  /\ CurrentTool(a) \in Dangerous
  /\ approvals' = Append(approvals, [mission |-> a, tool |-> CurrentTool(a),
                                     status |-> "pending"])
  /\ IF a \in Assist
     THEN Settle(a)
     ELSE Goto(a, "lookup") /\ UNCHANGED <<loopVars, calls>>
  /\ UNCHANGED <<found, inv, routerVars, danger>>

\* Mutant: a call waits until the tool is registered.
AwaitTool(a) ==
  /\ At(a, "lookup")
  /\ CurrentTool(a) \in tools
  /\ found' = [found EXCEPT ![a] = TRUE]
  /\ Goto(a, "number")
  /\ UNCHANGED <<loopVars, calls, inv, approvals, routerVars, danger>>

\* First critical section of toolrouter.Invoke: the tool and its handler.
LookupTool(a) ==
  /\ At(a, "lookup")
  /\ found' = [found EXCEPT ![a] = CurrentTool(a) \in tools]
  /\ Goto(a, "number")
  /\ UNCHANGED <<loopVars, calls, inv, approvals, routerVars, danger>>

\* Mutant: the number is taken without counting it.
NumberWithoutCount(a) ==
  /\ At(a, "number")
  /\ inv' = [inv EXCEPT ![a] = seq + 1]
  /\ seq' = IF found[a] THEN seq + 1 ELSE seq
  /\ Goto(a, IF found[a] THEN "run" ELSE "finished")
  /\ UNCHANGED <<loopVars, calls, found, approvals, tools, log, danger>>

\* Second critical section: the number of the invocation.
NumberInvocation(a) ==
  /\ At(a, "number")
  /\ seq' = seq + 1
  /\ inv' = [inv EXCEPT ![a] = seq + 1]
  /\ Goto(a, IF found[a] THEN "run" ELSE "finished")
  /\ UNCHANGED <<loopVars, calls, found, approvals, tools, log, danger>>

\* The handler that was looked up runs, registered still or not, and fails or not.
RunHandler(a) ==
  /\ At(a, "run")
  /\ danger' = [danger EXCEPT ![a] = IF CurrentTool(a) \in Dangerous THEN @ + 1 ELSE @]
  /\ Goto(a, "finished")
  /\ UNCHANGED <<loopVars, calls, found, inv, approvals, routerVars>>

\* The router remembers the LogCap latest invocations.
Remember(s, e) ==
  IF Len(s) >= LogCap THEN SubSeq(Append(s, e), 2, Len(s) + 1) ELSE Append(s, e)

\* Last critical section: the invocation is logged, whether it was denied, failed or
\* went well, then answered.
LogInvocation(a) ==
  /\ At(a, "finished")
  /\ log' = Remember(log, inv[a])
  /\ Settle(a)
  /\ found' = [found EXCEPT ![a] = FALSE]
  /\ inv' = [inv EXCEPT ![a] = 0]
  /\ UNCHANGED <<approvals, tools, seq, danger>>

-----------------------------------------------------------------------------
\* Operators and the MCP client

Resolve(i, decision) ==
  /\ i \in DOMAIN approvals
  /\ approvals[i].status = "pending"
  /\ approvals' = [approvals EXCEPT ![i].status = decision]
  /\ UNCHANGED <<loopVars, pc, calls, found, inv, routerVars, danger>>

Register(t) ==
  /\ t \in External \ tools
  /\ tools' = tools \cup {t}
  /\ UNCHANGED <<loopVars, pc, calls, found, inv, approvals, seq, log, danger>>

Unregister(t) ==
  /\ t \in External \cap tools
  /\ tools' = tools \ {t}
  /\ UNCHANGED <<loopVars, pc, calls, found, inv, approvals, seq, log, danger>>

-----------------------------------------------------------------------------

Asking(a) == Start(a) \/ BeginStep(a) \/ Complete(a) \/ CompleteWithoutTools(a) \/ Summarize(a)

Calling(a) ==
  PassGate(a) \/ AskGate(a) \/ LookupTool(a) \/ NumberInvocation(a) \/ RunHandler(a)
    \/ LogInvocation(a)

Next ==
  \/ \E a \in Agent : Asking(a) \/ Calling(a)
  \/ \E i \in DOMAIN approvals, d \in {"approved", "denied"} : Resolve(i, d)
  \/ \E t \in External : Register(t) \/ Unregister(t)

Spec == Init /\ [][Next]_vars

\* A loop that has begun goes on: models answer or fail (the HTTP client has a
\* timeout) and handlers return.
Fairness == \A a \in Agent : WF_vars(Asking(a) \/ Calling(a))

FairSpec == Spec /\ Fairness

-----------------------------------------------------------------------------
\* Properties

Waiting == {"start", "step", "complete", "retry", "summarize", "returned"}
Working == {"call", "lookup", "number", "run", "finished"}
InFlight == {a \in Agent : pc[a] \in {"run", "finished"}}
Logged == {log[i] : i \in DOMAIN log}
Requests(a) == {i \in DOMAIN approvals : approvals[i].mission = a}

\* The types of the loop, the gate (gate.go:11) and the router (router.go:20).  The
\* router remembers at most LogCap invocations, and compaction bounds a conversation
\* however many steps there are.
TypeOK ==
  /\ pc \in [Agent -> Waiting \cup Working]
  /\ steps \in [Agent -> 0 .. MaxSteps]
  /\ \A a \in Agent : Len(msgs[a]) <= KeepRecent + MaxCalls + 5
  /\ \A a \in Agent : \A i \in DOMAIN msgs[a] :
       /\ msgs[a][i].role \in {"system", "user", "assistant", "tool"}
       /\ msgs[a][i].step \in 0 .. MaxSteps /\ msgs[a][i].n \in 0 .. MaxCalls
  /\ \A a \in Agent : calls[a] \in Seq(Tool) /\ (pc[a] \in Working <=> calls[a] # <<>>)
  /\ found \in [Agent -> BOOLEAN] /\ inv \in [Agent -> Nat]
  /\ result \in [Agent -> {"none", "succeeded", "failed"}]
  /\ approvals \in Seq([mission : Agent, tool : Dangerous,
                        status : {"pending", "approved", "denied"}])
  /\ tools \in SUBSET Tool /\ seq \in Nat
  /\ log \in Seq(Nat) /\ Len(log) <= LogCap
  /\ danger \in [Agent -> Nat]

\* No dangerous tool runs without a request of its own at the approval gate, and none
\* runs for a mission in assist mode (kernel.go:238-247).
DangerNeedsRequest ==
  \A a \in Agent : /\ danger[a] <= Cardinality(Requests(a))
                   /\ a \in Assist => danger[a] = 0

\* Whenever the model is asked, every assistant message it is shown is followed by the
\* answers to all of its tool calls, in order, and what the last step said is there in
\* full: compaction (runtime.go:300-320) cuts older messages only.
LastStepWhole ==
  \A a \in Agent :
    pc[a] \in {"complete", "retry", "summarize"} =>
      /\ \A i \in DOMAIN msgs[a] :
           msgs[a][i].role = "assistant" =>
             \A n \in 1 .. msgs[a][i].n :
               i + n \in DOMAIN msgs[a] /\ msgs[a][i + n] = Answer(msgs[a][i].step, n)
      /\ msgs[a][1] = System
      /\ LET before == IF pc[a] = "summarize" THEN steps[a] ELSE steps[a] - 1
         IN  MaxCalls < KeepRecent /\ before > 0 =>
               \E i \in DOMAIN msgs[a] : msgs[a][i].role = "assistant"
                                      /\ msgs[a][i].step = before

\* An invocation has a number of its own and is logged exactly once, when its handler
\* is through, however invocations overlap (router.go:113-158): while the log is not
\* full, what has begun is either in flight or in the log.
InvocationsAccounted ==
  /\ \A a, b \in InFlight : a # b => inv[a] # inv[b]
  /\ \A i, j \in DOMAIN log : i # j => log[i] # log[j]
  /\ \A a \in InFlight : inv[a] \notin Logged
  /\ seq <= LogCap => 1 .. seq = Logged \cup {inv[a] : a \in InFlight}

\* Execute returns, whatever models and tools do and while tools come and go.
LoopReturns == \A a \in Agent : <>(pc[a] = "returned")

-----------------------------------------------------------------------------
\* What a comment says and the code does not do

\* kernel.go:241: a dangerous tool is blocked "until approved".  The invoker looks at
\* the request it has just filed, so an approved tool is blocked like any other.
ApprovedToolRuns ==
  [][\A a \in Agent, i \in DOMAIN approvals :
       At(a, "call") /\ calls'[a] # calls[a] =>
         approvals[i] # [mission |-> a, tool |-> CurrentTool(a), status |-> "approved"]]_vars
=============================================================================
