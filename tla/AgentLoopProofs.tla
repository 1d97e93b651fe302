----------------------------- MODULE AgentLoopProofs -----------------------------
(***************************************************************************)
(* What TLAPS proves of AgentLoop, for any set of missions, any tools and  *)
(* any limits that satisfy its assumptions.                                *)
(*                                                                         *)
(* The inductive invariant IInv has three parts beside the types.          *)
(* ConversationInv says how a conversation is built: its opening, every    *)
(* answered step whole, the step under way whole up to the calls left, and *)
(* how long it may be at each program counter: only with that bound does   *)
(* compaction, which cuts in the middle of a step, spare the last one.     *)
(* GateInv counts a dangerous call that has passed the gate before its run *)
(* is counted.  RouterInv keeps the numbers in flight and in the log       *)
(* below the router's counter.                                             *)
(***************************************************************************)
EXTENDS AgentLoop, FiniteSetTheorems, SequenceTheorems, TLAPS

Message == [role : {"system", "user", "assistant", "tool"}, step : 0 .. MaxSteps, n : 0 .. MaxCalls]
Approval == [mission : Agent, tool : Dangerous, status : {"pending", "approved", "denied"}]

LoopTyped ==
  /\ pc \in [Agent -> Waiting \cup Working]
  /\ steps \in [Agent -> 0 .. MaxSteps]
  /\ msgs \in [Agent -> Seq(Message)]
  /\ calls \in [Agent -> Seq(Tool)]
  /\ \A a \in Agent : pc[a] \in Working <=> calls[a] # <<>>
  /\ result \in [Agent -> {"none", "succeeded", "failed"}]

RouterTyped ==
  /\ found \in [Agent -> BOOLEAN] /\ inv \in [Agent -> Nat]
  /\ approvals \in Seq(Approval)
  /\ tools \in SUBSET Tool /\ seq \in Nat
  /\ log \in Seq(Nat) /\ Len(log) <= LogCap
  /\ danger \in [Agent -> Nat]

-----------------------------------------------------------------------------
\* The conversation starts with k system messages and has no other ones.
Opened(ms, k) == k \in 1 .. 3 /\ k <= Len(ms) /\ \A i \in DOMAIN ms : ms[i] = System <=> i <= k

\* Among the first n messages, every assistant message is followed by the answers to its calls.
Closed(ms, n) ==
  \A i \in 1 .. n : ms[i].role = "assistant" =>
    \A x \in 1 .. ms[i].n : i + x <= n /\ ms[i + x] = Answer(ms[i].step, x)

\* While calls are made, the last assistant message is followed by the answers so far.
Underway(ms, l, s, left) ==
  /\ Closed(ms, l - 1)
  /\ ms[l] = Assistant(s, Len(ms) - l + left)
  /\ \A x \in 1 .. Len(ms) - l : ms[l + x] = Answer(s, x)

Says(ms, s, i) == ms[i].role = "assistant" /\ ms[i].step = s

Talk(a) ==
  /\ pc[a] = "start" => msgs[a] = <<>> /\ steps[a] = 0
  /\ pc[a] # "start" => \E k \in 1 .. 3 : Opened(msgs[a], k)
  /\ pc[a] \in Working => \E l \in DOMAIN msgs[a] : Underway(msgs[a], l, steps[a], Len(calls[a]))
  /\ pc[a] \notin Working => Closed(msgs[a], Len(msgs[a]))
  /\ pc[a] = "step" /\ steps[a] > 0 =>
       \E i \in DOMAIN msgs[a] : Says(msgs[a], steps[a], i) /\ i + MaxCalls >= Len(msgs[a])
  /\ pc[a] \in {"complete", "retry"} => steps[a] > 0
  /\ pc[a] \in {"complete", "retry"} /\ MaxCalls < KeepRecent /\ steps[a] > 1 =>
       \E i \in DOMAIN msgs[a] : Says(msgs[a], steps[a] - 1, i)
  /\ pc[a] = "summarize" /\ steps[a] > 0 => \E i \in DOMAIN msgs[a] : Says(msgs[a], steps[a], i)

\* How long a conversation is, with the answers that are still to come.
Short(a) ==
  Len(msgs[a]) + Len(calls[a]) <= KeepRecent +
    (IF pc[a] \in {"complete", "retry"} THEN 3
     ELSE IF pc[a] \in {"step"} \cup Working THEN MaxCalls + 4 ELSE MaxCalls + 5)

ConversationInv == \A a \in Agent : Talk(a) /\ Short(a)

\* A dangerous call that has passed the gate has a request that no run has used up.
Passed(a) == pc[a] \in {"lookup", "number", "run"} /\ CurrentTool(a) \in Dangerous

GateInv ==
  \A a \in Agent :
    /\ danger[a] + (IF Passed(a) THEN 1 ELSE 0) <= Cardinality(Requests(a))
    /\ a \in Assist => danger[a] = 0 /\ ~ Passed(a)

\* Numbers that have been given are below the counter.
RouterInv ==
  /\ InvocationsAccounted
  /\ \A a \in InFlight : inv[a] \in 1 .. seq
  /\ \A i \in DOMAIN log : log[i] \in 1 .. seq

IInv == LoopTyped /\ RouterTyped /\ ConversationInv /\ GateInv /\ RouterInv

-----------------------------------------------------------------------------
\* Compaction keeps a conversation well formed

\* The four kinds of message are messages, and only one kind opens a conversation.
LEMMA MessagesTyped ==
  /\ System \in Message /\ User \in Message /\ System # User
  /\ \A s \in 0 .. MaxSteps, n \in 0 .. MaxCalls :
       /\ Assistant(s, n) \in Message /\ Assistant(s, n) # System
       /\ Answer(s, n) \in Message /\ Answer(s, n) # System
  BY LimitAssumption DEF System, User, Assistant, Answer, Message

\* The head of a conversation is its opening system messages.
LEMMA HeadIsOpening ==
  ASSUME NEW ms \in Seq(Message), NEW k, Opened(ms, k)
  PROVE  HeadLen(ms) = k
<1>1. k \in 1 .. 3 /\ Len(ms) \in Nat /\ k <= Len(ms) /\ DOMAIN ms = 1 .. Len(ms)
  BY DEF Opened
<1>2. \A i \in DOMAIN ms : ms[i] = System <=> i <= k
  BY DEF Opened
<1> DEFINE H == {i \in DOMAIN ms : i <= 4 /\ \A j \in 1 .. i : ms[j] = System}
<1>3. H = 1 .. k
  <2>1. ASSUME NEW i \in H PROVE i \in 1 .. k
    <3>1. i \in DOMAIN ms /\ ms[i] = System
      BY <1>1
    <3>2. QED
      BY <1>1, <1>2, <3>1
  <2>2. ASSUME NEW i \in 1 .. k PROVE i \in H
    <3>1. i \in DOMAIN ms /\ i <= 4 /\ \A j \in 1 .. i : j \in DOMAIN ms /\ j <= k
      BY <1>1
    <3>2. QED
      BY <1>2, <3>1
  <2>3. QED
    BY <2>1, <2>2
<1>4. Cardinality(1 .. k) = k
  <2>1. 1 \in Int /\ k \in Int /\ ~ (1 > k) /\ k - 1 + 1 = k
    BY <1>1
  <2>2. Cardinality(1 .. k) = IF 1 > k THEN 0 ELSE k - 1 + 1
    BY <2>1, FS_Interval
  <2>3. QED
    BY <2>1, <2>2
<1>5. QED
  BY <1>3, <1>4 DEF HeadLen

\* Compaction keeps the head and, moved to the front by d places, the messages after a cut.
Cut(ms, ns, k, d) ==
  /\ ns \in Seq(Message) /\ d \in Nat
  /\ Len(ns) = Len(ms) - d /\ Len(ns) >= k
  /\ \A j \in 1 .. k : ns[j] = ms[j]
  /\ \A j \in k + 1 .. Len(ns) : ns[j] = ms[j + d]
  /\ Len(ns) <= KeepRecent + 3
  /\ d > 0 => k + d = Len(ms) - KeepRecent

LEMMA CompactCuts ==
  ASSUME NEW ms \in Seq(Message), NEW k, Opened(ms, k)
  PROVE  \E d \in Nat : Cut(ms, Compact(ms), k, d)
<1> DEFINE len == Len(ms)
           start == IF len - KeepRecent < k THEN k ELSE len - KeepRecent
           head == SubSeq(ms, 1, k)
           tail == SubSeq(ms, start + 1, len)
<1>1. /\ k \in 1 .. 3 /\ len \in Nat /\ k <= len /\ DOMAIN ms = 1 .. len
      /\ \A i \in 1 .. len : ms[i] \in Message
      /\ KeepRecent \in Nat \ {0}
  BY LimitAssumption DEF Opened
<1>2. CASE len <= KeepRecent + 2
  <2>1. Compact(ms) = ms
    BY <1>2 DEF Compact
  <2>2. Cut(ms, ms, k, 0)
    BY <1>1, <1>2 DEF Cut
  <2>3. QED
    BY <2>1, <2>2
<1>3. CASE ~ (len <= KeepRecent + 2)
  <2>1. Compact(ms) = head \o tail
    BY <1>3, HeadIsOpening DEF Compact
  <2>2. start \in k .. len /\ start \in Nat
    BY <1>1
  <2>3. (start > k => start = len - KeepRecent) /\ len - start <= KeepRecent
    <3>1. len \in Int /\ k \in Int /\ KeepRecent \in Int
      BY <1>1
    <3>2. CASE len - KeepRecent < k
      <4>1. start = k
        BY <3>2
      <4>2. QED
        BY <3>1, <3>2, <4>1
    <3>3. CASE ~ (len - KeepRecent < k)
      <4>1. start = len - KeepRecent
        BY <3>3
      <4>2. QED
        BY <3>1, <3>3, <4>1
    <3>4. QED
      BY <3>2, <3>3
  <2> HIDE DEF start
  <2>4. head \in Seq(Message) /\ Len(head) = k /\ \A j \in 1 .. k : head[j] = ms[j]
    BY <1>1, SubSeqProperties
  <2>5. \A i \in start + 1 .. len : ms[i] \in Message
    BY <1>1, <2>2
  <2>6. /\ tail \in Seq(Message)
        /\ Len(tail) = IF start + 1 <= len THEN len - (start + 1) + 1 ELSE 0
        /\ \A j \in 1 .. len - (start + 1) + 1 : tail[j] = ms[start + 1 + j - 1]
    <3>1. start + 1 \in Int /\ len \in Int
      BY <1>1, <2>2
    <3>2. QED
      BY <2>5, <3>1, SubSeqProperties
  <2> HIDE DEF head, tail, len
  <2>7. Len(tail) = len - start /\ \A j \in 1 .. len - start : tail[j] = ms[start + j]
    <3>1. len \in Nat /\ start \in Nat /\ start <= len
      BY <1>1, <2>2
    <3>2. Len(tail) = len - start /\ len - (start + 1) + 1 = len - start
      BY <2>6, <3>1
    <3>3. ASSUME NEW j \in 1 .. len - start PROVE tail[j] = ms[start + j]
      <4>1. start + 1 + j - 1 = start + j /\ j \in 1 .. len - (start + 1) + 1
        BY <3>1
      <4>2. QED
        BY <2>6, <4>1
    <3>4. QED
      BY <3>2, <3>3
  <2>8. /\ head \o tail \in Seq(Message)
        /\ Len(head \o tail) = k + (len - start)
        /\ \A i \in 1 .. k + (len - start) :
             (head \o tail)[i] = IF i <= k THEN head[i] ELSE tail[i - k]
    <3>1. Len(head) + Len(tail) = k + (len - start)
      BY <2>4, <2>7
    <3>2. /\ head \o tail \in Seq(Message)
          /\ Len(head \o tail) = Len(head) + Len(tail)
          /\ \A i \in 1 .. Len(head) + Len(tail) :
               (head \o tail)[i] = IF i <= Len(head) THEN head[i] ELSE tail[i - Len(head)]
      BY <2>4, <2>6, ConcatProperties
    <3>3. Len(head) = k
      BY <2>4
    <3>4. QED
      BY <3>1, <3>2, <3>3
  <2> DEFINE d == start - k
  <2>9. d \in Nat /\ Len(head \o tail) = len - d /\ len - d >= k /\ len - d <= KeepRecent + 3
    BY <1>1, <2>2, <2>3, <2>8
  <2>10. \A j \in 1 .. k : (head \o tail)[j] = ms[j]
    BY <1>1, <2>2, <2>4, <2>8
  <2>11. \A j \in k + 1 .. len - d : (head \o tail)[j] = ms[j + d]
    BY <1>1, <2>2, <2>7, <2>8
  <2>12. d > 0 => k + d = len - KeepRecent
    BY <1>1, <2>2, <2>3
  <2>13. Cut(ms, head \o tail, k, d)
    BY <2>8, <2>9, <2>10, <2>11, <2>12 DEF Cut, len
  <2>14. QED
    BY <2>1, <2>9, <2>13
<1>4. QED
  BY <1>2, <1>3

\* Compaction leaves no assistant message without the answers to its calls.
LEMMA CutKeeps ==
  ASSUME NEW ms \in Seq(Message), NEW ns, NEW k, Opened(ms, k), NEW d, Cut(ms, ns, k, d),
         Closed(ms, Len(ms))
  PROVE  Opened(ns, k) /\ Closed(ns, Len(ns))
<1>1. /\ k \in 1 .. 3 /\ Len(ms) \in Nat /\ DOMAIN ms = 1 .. Len(ms) /\ k <= Len(ms)
      /\ \A i \in 1 .. Len(ms) : ms[i] = System <=> i <= k
  BY DEF Opened
<1>2. /\ d \in Nat /\ DOMAIN ns = 1 .. Len(ns) /\ Len(ns) = Len(ms) - d /\ Len(ns) >= k
      /\ Len(ns) \in Nat
      /\ \A j \in 1 .. k : ns[j] = ms[j]
      /\ \A j \in k + 1 .. Len(ns) : ns[j] = ms[j + d]
  BY DEF Cut
<1>3. Opened(ns, k)
  BY <1>1, <1>2 DEF Opened
<1>4. Closed(ns, Len(ns))
  <2> SUFFICES ASSUME NEW i \in 1 .. Len(ns), ns[i].role = "assistant", NEW x \in 1 .. ns[i].n
               PROVE  i + x <= Len(ns) /\ ns[i + x] = Answer(ns[i].step, x)
    BY DEF Closed
  <2>1. i > k
    <3>1. CASE i <= k
      <4>1. ns[i] = System
        BY <1>1, <1>2, <3>1
      <4>2. QED
        BY <4>1 DEF System
    <3>2. QED
      BY <1>1, <3>1
  <2>2. i + d \in 1 .. Len(ms) /\ ns[i] = ms[i + d]
    BY <1>1, <1>2, <2>1
  <2>3. i + d + x <= Len(ms) /\ ms[i + d + x] = Answer(ns[i].step, x)
    BY <2>2 DEF Closed
  <2>4. ms[i + d] \in Message
    BY <2>2
  <2>5. x \in Nat /\ x >= 1
    BY <2>2, <2>4 DEF Message
  <2>6. i + x <= Len(ns) /\ i + x \in k + 1 .. Len(ns)
    BY <1>1, <1>2, <2>1, <2>3, <2>5
  <2>7. ns[i + x] = ms[i + x + d] /\ i + x + d = i + d + x
    BY <1>2, <2>5, <2>6
  <2>8. QED
    BY <2>3, <2>6, <2>7
<1>5. QED
  BY <1>3, <1>4

-----------------------------------------------------------------------------
\* A message more

\* What a sequence with one more element looks like.
LEMMA Appended ==
  ASSUME NEW ms \in Seq(Message), NEW e \in Message, NEW ns, ns = Append(ms, e)
  PROVE  /\ ns \in Seq(Message) /\ Len(ms) \in Nat /\ Len(ns) = Len(ms) + 1
         /\ DOMAIN ms = 1 .. Len(ms) /\ DOMAIN ns = 1 .. Len(ms) + 1
         /\ \A i \in 1 .. Len(ms) : ns[i] = ms[i] /\ ms[i] \in Message
         /\ ns[Len(ms) + 1] = e
OBVIOUS

LEMMA AppendKeepsOpening ==
  ASSUME NEW ms \in Seq(Message), NEW e \in Message, e # System, NEW k, Opened(ms, k),
         NEW ns, ns = Append(ms, e)
  PROVE  Opened(ns, k)
BY Appended DEF Opened

\* What is closed stays closed, and a message without calls is closed at once.
LEMMA AppendKeepsClosed ==
  ASSUME NEW ms \in Seq(Message), NEW e \in Message, NEW n \in 0 .. Len(ms), Closed(ms, n),
         NEW ns, ns = Append(ms, e)
  PROVE  /\ Closed(ns, n)
         /\ n = Len(ms) /\ e.role # "assistant" => Closed(ns, Len(ms) + 1)
<1>1. /\ Len(ms) \in Nat /\ n \in Nat /\ n <= Len(ms)
      /\ \A i \in 1 .. Len(ms) : ns[i] = ms[i] /\ ms[i] \in Message
      /\ ns[Len(ms) + 1] = e
  BY Appended
<1>2. ASSUME NEW i \in 1 .. n, ns[i].role = "assistant", NEW x \in 1 .. ns[i].n
      PROVE  i + x <= n /\ ns[i + x] = Answer(ns[i].step, x)
  <2>1. i \in 1 .. Len(ms) /\ ns[i] = ms[i] /\ ms[i].n \in Nat
    BY <1>1 DEF Message
  <2>2. i + x <= n /\ ms[i + x] = Answer(ms[i].step, x)
    BY <1>2, <2>1 DEF Closed
  <2>3. i + x \in 1 .. Len(ms)
    BY <1>1, <2>1, <2>2
  <2>4. QED
    BY <1>1, <2>1, <2>2, <2>3
<1>3. Closed(ns, n)
  BY <1>2 DEF Closed
<1>4. ASSUME n = Len(ms), e.role # "assistant"
      PROVE  Closed(ns, Len(ms) + 1)
  <2> SUFFICES ASSUME NEW i \in 1 .. n + 1, ns[i].role = "assistant", NEW x \in 1 .. ns[i].n
               PROVE  i + x <= n + 1 /\ ns[i + x] = Answer(ns[i].step, x)
    BY <1>4 DEF Closed
  <2>1. i \in 1 .. n
    BY <1>1, <1>4
  <2>2. i + x <= n /\ ns[i + x] = Answer(ns[i].step, x)
    BY <1>2, <2>1
  <2>3. x \in Int
    OBVIOUS
  <2>4. QED
    BY <1>1, <2>1, <2>2, <2>3
<1>5. QED
  BY <1>3, <1>4

\* The answer with tool calls opens a group, ...
LEMMA GroupOpens ==
  ASSUME NEW ms \in Seq(Message), Closed(ms, Len(ms)), NEW s \in 0 .. MaxSteps,
         NEW c \in 1 .. MaxCalls, NEW ns, ns = Append(ms, Assistant(s, c))
  PROVE  Len(ms) + 1 \in DOMAIN ns /\ Underway(ns, Len(ms) + 1, s, c)
<1>1. Assistant(s, c) \in Message /\ c \in Nat
  BY MessagesTyped, LimitAssumption
<1>2. /\ Len(ms) \in Nat /\ Len(ns) = Len(ms) + 1 /\ DOMAIN ns = 1 .. Len(ms) + 1
      /\ ns[Len(ms) + 1] = Assistant(s, c)
  BY <1>1, Appended
<1>3. Closed(ns, Len(ms))
  <2>1. Len(ms) \in 0 .. Len(ms)
    BY <1>2
  <2>2. QED
    BY <1>1, <2>1, AppendKeepsClosed
<1>4. Len(ns) - (Len(ms) + 1) + c = c /\ Len(ms) + 1 - 1 = Len(ms) /\ Len(ns) - (Len(ms) + 1) = 0
  BY <1>1, <1>2
<1>5. QED
  BY <1>2, <1>3, <1>4 DEF Underway

\* ... an answer to a call belongs to it, and the last answer closes it.
LEMMA GroupGrows ==
  ASSUME NEW ms \in Seq(Message), NEW l \in DOMAIN ms, NEW s \in 0 .. MaxSteps,
         NEW left \in Nat \ {0}, Underway(ms, l, s, left)
  PROVE  LET last == ms[Len(ms)]
             e == Answer(s, IF last.role = "assistant" THEN 1 ELSE last.n + 1)
             ns == Append(ms, e)
         IN  /\ e \in Message /\ e # System
             /\ Underway(ns, l, s, left - 1)
             /\ left = 1 => /\ Closed(ns, Len(ns))
                            /\ Says(ns, s, l) /\ l + MaxCalls >= Len(ns)
<1> DEFINE len == Len(ms)
           last == ms[len]
           e == Answer(s, IF last.role = "assistant" THEN 1 ELSE last.n + 1)
           ns == Append(ms, e)
<1>1. /\ len \in Nat /\ l \in 1 .. len /\ \A i \in 1 .. len : ms[i] \in Message
      /\ Closed(ms, l - 1)
      /\ ms[l] = Assistant(s, len - l + left)
      /\ \A x \in 1 .. len - l : ms[l + x] = Answer(s, x)
  BY DEF Underway
<1>2. len - l + left \in 0 .. MaxCalls
  <2>1. Assistant(s, len - l + left) \in Message
    BY <1>1
  <2>2. QED
    BY <2>1 DEF Assistant, Message
<1>3. e = Answer(s, len - l + 1)
  <2>1. CASE l = len
    <3>1. last.role = "assistant"
      BY <1>1, <2>1 DEF Assistant
    <3>2. len - l + 1 = 1
      BY <1>1, <2>1
    <3>3. QED
      BY <3>1, <3>2
  <2>2. CASE l # len
    <3>1. len - l \in 1 .. len - l /\ l + (len - l) = len
      <4>1. l \in Int /\ len \in Int /\ l < len
        BY <1>1, <2>2
      <4> HIDE DEF len
      <4>2. QED
        BY <4>1
    <3>2. last = Answer(s, len - l)
      BY <1>1, <3>1
    <3>3. last.role # "assistant" /\ last.n = len - l
      BY <3>2 DEF Answer
    <3>4. QED
      BY <3>3
  <2>3. QED
    BY <2>1, <2>2
<1>4. len - l + 1 \in 0 .. MaxCalls /\ len - l + 1 \in Nat
  BY <1>1, <1>2, LimitAssumption
<1>5. e \in Message /\ e # System /\ e.role # "assistant"
  BY <1>3, <1>4, MessagesTyped DEF Answer
<1> HIDE DEF e, last
<1>6. /\ ns \in Seq(Message) /\ Len(ns) = len + 1 /\ DOMAIN ns = 1 .. len + 1
      /\ \A i \in 1 .. len : ns[i] = ms[i]
      /\ ns[len + 1] = e
  BY <1>5, Appended
<1>7. Closed(ns, l - 1)
  <2>1. l - 1 \in 0 .. Len(ms)
    BY <1>1
  <2>2. QED
    BY <1>1, <1>5, <2>1, AppendKeepsClosed
<1> HIDE DEF ns
<1>8. ns[l] = Assistant(s, Len(ns) - l + (left - 1)) /\ ns[l] = ms[l]
  <2>1. Len(ns) - l + (left - 1) = len - l + left
    BY <1>1, <1>6
  <2>2. QED
    BY <1>1, <1>6, <2>1
<1>9. ASSUME NEW x \in 1 .. Len(ns) - l PROVE ns[l + x] = Answer(s, x)
  <2>1. x \in 1 .. len + 1 - l
    BY <1>6
  <2>2. CASE x = len - l + 1
    <3>1. l + x = len + 1
      BY <1>1, <2>2
    <3>2. QED
      BY <1>3, <1>6, <2>2, <3>1
  <2>3. CASE x # len - l + 1
    <3>1. x \in 1 .. len - l /\ l + x \in 1 .. len
      <4>1. l \in Int /\ len \in Int /\ 1 <= l /\ l <= len
        BY <1>1
      <4> HIDE DEF len
      <4>2. QED
        BY <2>1, <2>3, <4>1
    <3>2. QED
      BY <1>1, <1>6, <3>1
  <2>4. QED
    BY <2>2, <2>3
<1>10. Underway(ns, l, s, left - 1)
  BY <1>7, <1>8, <1>9 DEF Underway
<1>11. ASSUME left = 1
       PROVE  Closed(ns, Len(ns)) /\ Says(ns, s, l) /\ l + MaxCalls >= Len(ns)
  <2>0. ns[l].role = "assistant" /\ ns[l].step = s /\ ns[l].n = len + 1 - l
    <3>1. Len(ns) - l + (left - 1) = len + 1 - l
      BY <1>1, <1>6, <1>11
    <3>2. QED
      BY <1>8, <3>1 DEF Assistant
  <2>1. Says(ns, s, l)
    BY <2>0 DEF Says
  <2>2. l + MaxCalls >= Len(ns)
    BY <1>1, <1>2, <1>6, <1>11, LimitAssumption
  <2>3. ASSUME NEW i \in 1 .. Len(ns), ns[i].role = "assistant", NEW x \in 1 .. ns[i].n
        PROVE  i + x <= Len(ns) /\ ns[i + x] = Answer(ns[i].step, x)
    <3>1. CASE i < l
      <4>1. i \in 1 .. l - 1 /\ ns[i] \in Message
        BY <1>1, <1>6, <3>1
      <4>2. i + x <= l - 1 /\ ns[i + x] = Answer(ns[i].step, x)
        BY <1>7, <2>3, <4>1 DEF Closed
      <4>3. x \in Int
        BY <4>1 DEF Message
      <4>4. i + x <= Len(ns)
        BY <1>1, <1>6, <4>1, <4>2, <4>3
      <4>5. QED
        BY <4>2, <4>4
    <3>2. CASE i = l
      <4>1. x \in 1 .. len + 1 - l
        BY <2>0, <3>2
      <4>2. x \in 1 .. Len(ns) - l /\ i + x <= Len(ns)
        BY <1>1, <1>6, <3>2, <4>1
      <4>3. QED
        BY <1>9, <2>0, <3>2, <4>2
    <3>3. CASE i > l
      <4>1. i - l \in 1 .. Len(ns) - l /\ l + (i - l) = i
        BY <1>1, <1>6, <3>3
      <4>2. ns[i] = Answer(s, i - l)
        BY <1>9, <4>1
      <4>3. QED
        BY <2>3, <4>2 DEF Answer
    <3>4. QED
      BY <1>1, <1>6, <3>1, <3>2, <3>3
  <2>4. QED
    BY <2>1, <2>2, <2>3 DEF Closed
<1>12. QED
  BY <1>5, <1>10, <1>11 DEF e, last, ns

-----------------------------------------------------------------------------
\* Steps that start a run or a step

\* An agent whose conversation a step leaves alone.
Silent(b) ==
  /\ msgs'[b] = msgs[b] /\ calls'[b] = calls[b] /\ steps'[b] = steps[b]
  /\ \/ pc'[b] = pc[b]
     \/ pc[b] \in Working /\ pc'[b] \in Working
     \/ pc[b] = "complete" /\ pc'[b] = "retry"

\* A step that leaves an agent alone leaves its part of the conversation invariant alone.
LEMMA SilentKeeps ==
  ASSUME NEW b \in Agent, Talk(b), Short(b), Silent(b)
  PROVE  Talk(b)' /\ Short(b)'
<1>1. CASE pc'[b] = pc[b]
  BY <1>1 DEF Silent, Talk, Short
<1>2. CASE pc[b] \in Working /\ pc'[b] \in Working
  BY <1>2 DEF Silent, Talk, Short, Working
<1>3. CASE pc[b] = "complete" /\ pc'[b] = "retry"
  BY <1>3 DEF Silent, Talk, Short, Working
<1>4. QED
  BY <1>1, <1>2, <1>3 DEF Silent

\* Every agent but a.
OthersSilent(a) == \A b \in Agent : b # a => Silent(b)

\* Execute opens the conversation with the system messages and the request (runtime.go).
LEMMA StartTalks ==
  ASSUME LoopTyped, ConversationInv, NEW a \in Agent, Start(a)
  PROVE  LoopTyped' /\ Talk(a)' /\ Short(a)' /\ OthersSilent(a)
<1>1. PICK k \in Openings : msgs' = [msgs EXCEPT ![a] = Opening(k)]
  BY DEF Start
<1>2. pc[a] = "start" /\ pc' = [pc EXCEPT ![a] = "step"] /\ UNCHANGED <<steps, calls, result>>
  BY DEF Start, At, Goto
<1>3. k \in 1 .. 3
  BY LimitAssumption
<1>4. /\ Opening(k) \in Seq(Message) /\ Len(Opening(k)) = k + 1
      /\ \A i \in 1 .. k : Opening(k)[i] = System
      /\ Opening(k)[k + 1] = User
  <2> DEFINE head == [i \in 1 .. k |-> System]
  <2>1. head \in Seq(Message) /\ Len(head) = k /\ \A i \in 1 .. k : head[i] = System
    BY <1>3, MessagesTyped
  <2>2. <<User>> \in Seq(Message) /\ Len(<<User>>) = 1 /\ <<User>>[1] = User
    BY MessagesTyped
  <2> HIDE DEF head
  <2>3. /\ head \o <<User>> \in Seq(Message)
        /\ Len(head \o <<User>>) = k + 1
        /\ \A i \in 1 .. k + 1 : (head \o <<User>>)[i] = IF i <= k THEN head[i] ELSE <<User>>[i - k]
    <3>1. Len(head) = k /\ Len(<<User>>) = 1 /\ Len(head) + Len(<<User>>) = k + 1
      BY <2>1, <2>2
    <3>2. /\ head \o <<User>> \in Seq(Message)
          /\ Len(head \o <<User>>) = Len(head) + Len(<<User>>)
          /\ \A i \in 1 .. Len(head) + Len(<<User>>) :
               (head \o <<User>>)[i] = IF i <= Len(head) THEN head[i] ELSE <<User>>[i - Len(head)]
      BY <2>1, <2>2, ConcatProperties
    <3>3. QED
      BY <3>1, <3>2
  <2>4. /\ \A i \in 1 .. k : i \in 1 .. k + 1 /\ i <= k
        /\ k + 1 \in 1 .. k + 1 /\ ~ (k + 1 <= k) /\ k + 1 - k = 1
    BY <1>3
  <2>5. \A i \in 1 .. k : (head \o <<User>>)[i] = System
    BY <2>1, <2>3, <2>4
  <2>6. (head \o <<User>>)[k + 1] = User
    BY <2>2, <2>3, <2>4
  <2>7. Opening(k) = head \o <<User>>
    BY DEF Opening, head
  <2>8. QED
    BY <2>3, <2>5, <2>6, <2>7
<1>5. Opened(Opening(k), k) /\ Closed(Opening(k), Len(Opening(k)))
  <2>1. DOMAIN Opening(k) = 1 .. k + 1
    BY <1>4
  <2>2. \A i \in 1 .. k + 1 : Opening(k)[i] = System <=> i <= k
    BY <1>3, <1>4, MessagesTyped
  <2>3. \A i \in 1 .. k + 1 : Opening(k)[i].role # "assistant"
    BY <1>3, <1>4 DEF System, User
  <2>4. QED
    BY <1>3, <1>4, <2>1, <2>2, <2>3 DEF Opened, Closed
<1>6. /\ msgs'[a] = Opening(k) /\ pc'[a] = "step" /\ calls'[a] = <<>> /\ steps'[a] = steps[a]
      /\ msgs' \in [Agent -> Seq(Message)] /\ pc' \in [Agent -> Waiting \cup Working]
  BY <1>1, <1>2, <1>4 DEF LoopTyped, Waiting, Working
<1>7. LoopTyped'
  BY <1>2, <1>6 DEF LoopTyped, Working
<1>8. steps[a] = 0
  BY <1>2 DEF ConversationInv, Talk
<1>9. Talk(a)'
  BY <1>3, <1>5, <1>6, <1>8 DEF Talk, Working
<1>10. Short(a)'
  <2>1. Len(msgs'[a]) = k + 1 /\ Len(calls'[a]) = 0
    BY <1>4, <1>6
  <2>2. k + 1 + 0 <= KeepRecent + (MaxCalls + 4)
    BY <1>3, LimitAssumption
  <2>3. QED
    BY <1>6, <2>1, <2>2 DEF Short
<1>11. OthersSilent(a)
  BY <1>1, <1>2 DEF LoopTyped, OthersSilent, Silent
<1>12. QED
  BY <1>7, <1>9, <1>10, <1>11

\* The head of the loop: the step limit, or the next step with its compaction.
LEMMA BeginStepTalks ==
  ASSUME LoopTyped, ConversationInv, NEW a \in Agent, BeginStep(a)
  PROVE  LoopTyped' /\ Talk(a)' /\ Short(a)' /\ OthersSilent(a)
<1> DEFINE ms == msgs[a]
<1>0. /\ pc[a] = "step" /\ UNCHANGED <<calls, result>>
      /\ Talk(a) /\ Short(a) /\ ms \in Seq(Message) /\ calls[a] = <<>>
      /\ steps[a] \in 0 .. MaxSteps /\ MaxSteps \in Nat
  BY LimitAssumption DEF BeginStep, At, ConversationInv, LoopTyped, Working
<1>1. PICK k \in 1 .. 3 : Opened(ms, k)
  BY <1>0 DEF Talk
<1>2. Closed(ms, Len(ms)) /\ Len(ms) \in Nat /\ Len(ms) <= KeepRecent + MaxCalls + 4
  BY <1>0, LimitAssumption DEF Talk, Short, Working
<1>3. CASE steps[a] < MaxSteps
  <2> DEFINE ns == Compact(ms)
  <2>1. /\ steps' = [steps EXCEPT ![a] = @ + 1]
        /\ msgs' = [msgs EXCEPT ![a] = ns]
        /\ pc' = [pc EXCEPT ![a] = "complete"]
    BY <1>3 DEF BeginStep, Goto
  <2>2. PICK d \in Nat : Cut(ms, ns, k, d)
    BY <1>0, <1>1, CompactCuts
  <2> HIDE DEF ns
  <2>3. Opened(ns, k) /\ Closed(ns, Len(ns)) /\ ns \in Seq(Message) /\ Len(ns) <= KeepRecent + 3
    BY <1>0, <1>1, <1>2, <2>2, CutKeeps DEF Cut
  <2>4. LoopTyped'
    BY <1>0, <1>3, <2>1, <2>3 DEF LoopTyped, Waiting, Working
  <2>5. /\ msgs'[a] = ns /\ pc'[a] = "complete" /\ calls'[a] = <<>> /\ steps'[a] = steps[a] + 1
    BY <1>0, <2>1 DEF LoopTyped
  <2>6. ASSUME MaxCalls < KeepRecent, steps[a] > 0
        PROVE  \E i \in DOMAIN ns : Says(ns, steps[a], i)
    <3>1. PICK i \in DOMAIN ms : Says(ms, steps[a], i) /\ i + MaxCalls >= Len(ms)
      BY <1>0, <2>6 DEF Talk
    <3>2. /\ i \in 1 .. Len(ms) /\ k < i /\ k \in Nat
      BY <1>1, <3>1 DEF Opened, Says, System
    <3>3. i - d \in k + 1 .. Len(ns) /\ i - d + d = i
      <4>1. /\ d \in Nat /\ Len(ns) = Len(ms) - d
            /\ d > 0 => k + d = Len(ms) - KeepRecent
            /\ i + MaxCalls >= Len(ms) /\ i \in Int
        BY <2>2, <3>1, <3>2 DEF Cut
      <4>2. MaxCalls \in Nat /\ KeepRecent \in Nat /\ MaxCalls < KeepRecent
        BY <2>6, LimitAssumption
      <4>3. CASE d = 0
        BY <1>2, <3>2, <4>1, <4>3
      <4>4. CASE d > 0
        <5> DEFINE len == Len(ms)
        <5>1. len \in Nat /\ k + d = len - KeepRecent /\ i + MaxCalls >= len /\ i <= len
              /\ Len(ns) = len - d
          BY <1>2, <3>2, <4>1, <4>4
        <5> HIDE DEF len
        <5>2. k + d < i
          BY <3>2, <4>1, <4>2, <5>1
        <5>3. QED
          BY <3>2, <4>1, <5>1, <5>2
      <4>5. QED
        BY <4>1, <4>3, <4>4
    <3>4. ns[i - d] = ms[i]
      BY <2>2, <3>3 DEF Cut
    <3>5. i - d \in DOMAIN ns
      BY <1>1, <2>3, <3>3
    <3>6. QED
      BY <3>1, <3>4, <3>5 DEF Says
  <2>7. Talk(a)'
    BY <1>0, <1>1, <2>3, <2>5, <2>6 DEF Talk, Working
  <2>8. Short(a)'
    BY <2>3, <2>5, LimitAssumption DEF Short
  <2>9. OthersSilent(a)
    BY <1>0, <2>1 DEF LoopTyped, OthersSilent, Silent
  <2>10. QED
    BY <2>4, <2>7, <2>8, <2>9
<1>4. CASE ~ (steps[a] < MaxSteps)
  <2> DEFINE ns == Append(ms, User)
  <2>1. /\ UNCHANGED steps
        /\ msgs' = [msgs EXCEPT ![a] = ns]
        /\ pc' = [pc EXCEPT ![a] = "summarize"]
    BY <1>4 DEF BeginStep, Goto, Say
  <2>2. User \in Message /\ User # System /\ User.role # "assistant"
    BY MessagesTyped DEF User
  <2>3. /\ ns \in Seq(Message) /\ Len(ns) = Len(ms) + 1 /\ DOMAIN ns = 1 .. Len(ms) + 1
        /\ \A i \in DOMAIN ms : i \in DOMAIN ns /\ ns[i] = ms[i]
    BY <1>0, <2>2, Appended
  <2>4. Opened(ns, k)
    BY <1>0, <1>1, <2>2, AppendKeepsOpening
  <2>5. Closed(ns, Len(ns))
    <3>1. Len(ms) \in 0 .. Len(ms)
      BY <1>2
    <3>2. QED
      BY <1>0, <1>2, <2>2, <2>3, <3>1, AppendKeepsClosed
  <2> HIDE DEF ns
  <2>6. LoopTyped'
    BY <1>0, <2>1, <2>3 DEF LoopTyped, Waiting, Working
  <2>7. /\ msgs'[a] = ns /\ pc'[a] = "summarize" /\ calls'[a] = <<>> /\ steps'[a] = steps[a]
    BY <1>0, <2>1 DEF LoopTyped
  <2>8. steps[a] > 0 => \E i \in DOMAIN ns : Says(ns, steps[a], i)
    BY <1>0, <2>3 DEF Talk, Says
  <2>9. Talk(a)'
    BY <1>0, <1>1, <2>4, <2>5, <2>7, <2>8 DEF Talk, Working
  <2>10. Short(a)'
    BY <1>2, <2>3, <2>7, LimitAssumption DEF Short, Working
  <2>11. OthersSilent(a)
    BY <1>0, <2>1 DEF LoopTyped, OthersSilent, Silent
  <2>12. QED
    BY <2>6, <2>9, <2>10, <2>11
<1>5. QED
  BY <1>3, <1>4

-----------------------------------------------------------------------------
\* Steps that end a run or a call

\* The run is over; what was said stays.
LEMMA ReturnTalks ==
  ASSUME LoopTyped, ConversationInv, NEW a \in Agent, NEW st \in {"succeeded", "failed"},
         pc[a] \in {"complete", "retry", "summarize"}, Return(a, st), UNCHANGED steps
  PROVE  LoopTyped' /\ Talk(a)' /\ Short(a)' /\ OthersSilent(a)
<1>1. /\ result' = [result EXCEPT ![a] = st] /\ pc' = [pc EXCEPT ![a] = "returned"]
      /\ UNCHANGED <<msgs, calls, steps>>
      /\ Talk(a) /\ Short(a)
  BY DEF Return, Goto, ConversationInv
<1>2. LoopTyped'
  BY <1>1 DEF LoopTyped, Waiting, Working
<1>3. pc'[a] = "returned"
  BY <1>1 DEF LoopTyped
<1>4. Talk(a)'
  BY <1>1, <1>3 DEF Talk, Working
<1>5. Short(a)'
  <2>1. Len(msgs[a]) + Len(calls[a]) \in Nat
    BY DEF LoopTyped
  <2>2. Len(msgs[a]) + Len(calls[a]) <= KeepRecent + (MaxCalls + 5)
    <3> DEFINE n == Len(msgs[a]) + Len(calls[a])
    <3>1. n <= KeepRecent + 3 \/ n <= KeepRecent + (MaxCalls + 5)
      BY <1>1 DEF Short, Working
    <3>2. n \in Nat
      BY <2>1
    <3> HIDE DEF n
    <3>3. n <= KeepRecent + (MaxCalls + 5)
      BY <3>1, <3>2, LimitAssumption
    <3>4. QED
      BY <3>3 DEF n
  <2>3. QED
    BY <1>1, <1>3, <2>2 DEF Short, Working
<1>6. OthersSilent(a)
  BY <1>1 DEF LoopTyped, OthersSilent, Silent
<1>7. QED
  BY <1>2, <1>4, <1>5, <1>6

\* An answer with calls begins a group of messages.
LEMMA AnswerTalks ==
  ASSUME LoopTyped, ConversationInv, NEW a \in Agent, pc[a] \in {"complete", "retry"},
         TakeAnswer(a), UNCHANGED steps
  PROVE  LoopTyped' /\ Talk(a)' /\ Short(a)' /\ OthersSilent(a)
<1>1. CASE Return(a, "succeeded")
  BY <1>1, ReturnTalks
<1>2. CASE ~ Return(a, "succeeded")
  <2> DEFINE ms == msgs[a]
  <2>1. PICK cs \in UNION {[1 .. k -> Tool] : k \in 1 .. MaxCalls} :
          /\ Say(a, Assistant(steps[a], Len(cs)))
          /\ calls' = [calls EXCEPT ![a] = cs]
          /\ Goto(a, "call")
          /\ UNCHANGED result
    BY <1>2 DEF TakeAnswer
  <2>2. cs \in Seq(Tool) /\ Len(cs) \in 1 .. MaxCalls /\ cs # <<>>
    <3>1. PICK n \in 1 .. MaxCalls : cs \in [1 .. n -> Tool]
      OBVIOUS
    <3>2. cs \in Seq(Tool) /\ Len(cs) = n
      BY <3>1, LimitAssumption
    <3>3. QED
      BY <3>2
  <2> DEFINE c == Len(cs)
             e == Assistant(steps[a], c)
             ns == Append(ms, e)
  <2>3. msgs' = [msgs EXCEPT ![a] = ns] /\ pc' = [pc EXCEPT ![a] = "call"]
    BY <2>1 DEF Say, Goto
  <2>4. ms \in Seq(Message) /\ steps[a] \in 0 .. MaxSteps /\ Talk(a) /\ Short(a) /\ calls[a] = <<>>
    BY DEF LoopTyped, ConversationInv, Working
  <2>5. Closed(ms, Len(ms)) /\ Len(ms) \in Nat /\ Len(ms) <= KeepRecent + 3
    BY <2>4 DEF Talk, Short, Working
  <2>6. PICK k \in 1 .. 3 : Opened(ms, k)
    BY <2>4 DEF Talk
  <2>7. c \in 0 .. MaxCalls /\ c \in Nat
    BY <2>2, LimitAssumption
  <2> HIDE DEF c
  <2>8. e \in Message /\ e # System
    BY <2>4, <2>7, MessagesTyped
  <2>9. ns \in Seq(Message) /\ Len(ns) = Len(ms) + 1
    BY <2>4, <2>8, Appended
  <2>10. Opened(ns, k)
    BY <2>4, <2>6, <2>8, AppendKeepsOpening
  <2>11. Len(ms) + 1 \in DOMAIN ns /\ Underway(ns, Len(ms) + 1, steps[a], c)
    <3>1. c \in 1 .. MaxCalls
      BY <2>2 DEF c
    <3>2. QED
      BY <2>4, <2>5, <3>1, GroupOpens
  <2> HIDE DEF ns, e
  <2>12. LoopTyped'
    BY <2>1, <2>2, <2>3, <2>9 DEF LoopTyped, Waiting, Working
  <2>13. msgs'[a] = ns /\ calls'[a] = cs /\ pc'[a] = "call" /\ steps'[a] = steps[a]
    BY <2>1, <2>3 DEF LoopTyped
  <2>14. Talk(a)'
    BY <2>6, <2>10, <2>11, <2>13 DEF Talk, Working, c
  <2>15. Short(a)'
    <3>1. Len(ns) + c <= KeepRecent + (MaxCalls + 4)
      BY <2>5, <2>7, <2>9, LimitAssumption
    <3>2. QED
      BY <2>13, <3>1 DEF Short, Working, c
  <2>16. OthersSilent(a)
    BY <2>1, <2>3 DEF LoopTyped, OthersSilent, Silent
  <2>17. QED
    BY <2>12, <2>14, <2>15, <2>16
<1>3. QED
  BY <1>1, <1>2

\* A call is answered.
LEMMA SettleTalks ==
  ASSUME LoopTyped, ConversationInv, NEW a \in Agent, pc[a] \in Working, Settle(a)
  PROVE  LoopTyped' /\ Talk(a)' /\ Short(a)' /\ OthersSilent(a)
<1> DEFINE ms == msgs[a]
           cs == calls[a]
           left == Len(cs)
           last == ms[Len(ms)]
           e == Answer(steps[a], IF last.role = "assistant" THEN 1 ELSE last.n + 1)
           ns == Append(ms, e)
<1>1. /\ msgs' = [msgs EXCEPT ![a] = ns]
      /\ calls' = [calls EXCEPT ![a] = Tail(cs)]
      /\ pc' = [pc EXCEPT ![a] = IF left = 1 THEN "step" ELSE "call"]
      /\ UNCHANGED <<steps, result>>
  BY DEF Settle, Say, Goto
<1>2. /\ ms \in Seq(Message) /\ steps[a] \in 0 .. MaxSteps /\ Talk(a) /\ Short(a)
      /\ cs \in Seq(Tool) /\ cs # <<>>
  BY DEF LoopTyped, ConversationInv
<1>3. PICK k \in 1 .. 3 : Opened(ms, k)
  BY <1>2 DEF Talk, Working
<1>4. PICK l \in DOMAIN ms : Underway(ms, l, steps[a], left)
  BY <1>2 DEF Talk
<1>5. left \in Nat \ {0} /\ Tail(cs) \in Seq(Tool) /\ Len(Tail(cs)) = left - 1
  BY <1>2
<1>6. Tail(cs) = <<>> <=> left = 1
  <2> DEFINE rest == Tail(cs)
  <2>1. rest \in Seq(Tool) /\ Len(rest) = left - 1
    BY <1>5
  <2> HIDE DEF rest
  <2>2. rest = <<>> <=> Len(rest) = 0
    BY <2>1, EmptySeq
  <2>3. QED
    BY <1>5, <2>1, <2>2 DEF rest
<1> HIDE DEF left
<1>7. /\ e \in Message /\ e # System
      /\ Underway(ns, l, steps[a], left - 1)
      /\ left = 1 => /\ Closed(ns, Len(ns))
                     /\ Says(ns, steps[a], l) /\ l + MaxCalls >= Len(ns)
  BY <1>2, <1>4, <1>5, GroupGrows
<1> HIDE DEF e
<1>8. ns \in Seq(Message) /\ Len(ns) = Len(ms) + 1 /\ l \in DOMAIN ns /\ Len(ms) \in Nat
  <2>1. /\ ns \in Seq(Message) /\ Len(ns) = Len(ms) + 1 /\ DOMAIN ms = 1 .. Len(ms)
        /\ DOMAIN ns = 1 .. Len(ms) + 1 /\ Len(ms) \in Nat
    BY <1>2, <1>7, Appended
  <2>2. QED
    BY <2>1
<1>9. Opened(ns, k)
  BY <1>2, <1>3, <1>7, AppendKeepsOpening
<1> HIDE DEF ns
<1>10. /\ msgs'[a] = ns /\ calls'[a] = Tail(cs) /\ steps'[a] = steps[a]
       /\ pc'[a] = IF left = 1 THEN "step" ELSE "call"
  BY <1>1 DEF LoopTyped
<1>11. LoopTyped'
  <2>1. msgs' \in [Agent -> Seq(Message)] /\ calls' \in [Agent -> Seq(Tool)]
    BY <1>1, <1>5, <1>8 DEF LoopTyped
  <2>2. pc' \in [Agent -> Waiting \cup Working]
    BY <1>1 DEF LoopTyped, Waiting, Working
  <2>3. ASSUME NEW b \in Agent PROVE pc'[b] \in Working <=> calls'[b] # <<>>
    <3>1. CASE b = a
      BY <1>6, <1>10, <3>1 DEF Working
    <3>2. CASE b # a
      BY <1>1, <3>2 DEF LoopTyped
    <3>3. QED
      BY <3>1, <3>2
  <2>4. QED
    BY <1>1, <2>1, <2>2, <2>3 DEF LoopTyped
<1>12. Talk(a)'
  <2>1. CASE left = 1
    BY <1>3, <1>7, <1>8, <1>9, <1>10, <2>1 DEF Talk, Working
  <2>2. CASE left # 1
    <3>1. pc'[a] = "call" /\ Len(calls'[a]) = left - 1
      BY <1>5, <1>10, <2>2
    <3>2. QED
      BY <1>3, <1>7, <1>8, <1>9, <1>10, <3>1 DEF Talk, Working
  <2>3. QED
    BY <2>1, <2>2
<1>13. Short(a)'
  <2>1. Len(ms) + left <= KeepRecent + (MaxCalls + 4)
    BY <1>2 DEF Short, Working, left
  <2>2. Len(ns) + (left - 1) <= KeepRecent + (MaxCalls + 4)
    BY <1>5, <1>8, <2>1, LimitAssumption
  <2>3. pc'[a] \in {"step", "call"} /\ Len(calls'[a]) = left - 1
    BY <1>5, <1>10
  <2>4. QED
    BY <1>10, <2>2, <2>3 DEF Short, Working
<1>14. OthersSilent(a)
  BY <1>1 DEF LoopTyped, OthersSilent, Silent
<1>15. QED
  BY <1>11, <1>12, <1>13, <1>14

-----------------------------------------------------------------------------
\* Every step

\* A call goes on from one critical section to the next.
LEMMA CallGoesOn ==
  ASSUME LoopTyped, NEW a \in Agent, pc[a] \in Working, NEW l \in Working, Goto(a, l),
         UNCHANGED <<loopVars, calls>>
  PROVE  LoopTyped' /\ \A b \in Agent : Silent(b)
<1>1. pc' = [pc EXCEPT ![a] = l] /\ UNCHANGED <<steps, msgs, calls, result>>
  BY DEF Goto, loopVars
<1>2. \A b \in Agent : pc'[b] = IF b = a THEN l ELSE pc[b]
  BY <1>1 DEF LoopTyped
<1>3. LoopTyped'
  BY <1>1, <1>2 DEF LoopTyped, Waiting, Working
<1>4. QED
  BY <1>1, <1>2, <1>3 DEF Silent

\* Nobody says anything.
LEMMA NobodySays ==
  ASSUME LoopTyped, UNCHANGED <<loopVars, pc, calls>>
  PROVE  LoopTyped' /\ \A b \in Agent : Silent(b)
BY DEF LoopTyped, Silent, loopVars

\* Every step of the loop, the gate and the router preserves the conversation invariant.
LEMMA ConversationStep ==
  ASSUME LoopTyped, ConversationInv, [Next]_vars
  PROVE  LoopTyped' /\ ConversationInv'
<1>1. CASE LoopTyped' /\ \A b \in Agent : Silent(b)
  BY <1>1, SilentKeeps DEF ConversationInv
<1>2. ASSUME NEW a \in Agent, LoopTyped', Talk(a)', Short(a)', OthersSilent(a)
      PROVE  ConversationInv'
  BY <1>2, SilentKeeps DEF ConversationInv, OthersSilent
<1>3. ASSUME NEW a \in Agent, Asking(a) PROVE LoopTyped' /\ ConversationInv'
  <2>1. CASE Start(a)
    BY <1>2, <2>1, StartTalks
  <2>2. CASE BeginStep(a)
    BY <1>2, <2>2, BeginStepTalks
  <2>3. CASE Complete(a)
    <3>1. CASE Goto(a, "retry") /\ UNCHANGED <<msgs, calls, result>>
      <4>1. /\ pc[a] = "complete" /\ pc' = [pc EXCEPT ![a] = "retry"]
            /\ UNCHANGED <<msgs, calls, result, steps>>
        BY <2>3, <3>1 DEF Complete, At, Goto
      <4>2. LoopTyped' /\ \A b \in Agent : Silent(b)
        BY <4>1 DEF LoopTyped, Silent, Waiting, Working
      <4>3. QED
        BY <1>1, <4>2
    <3>2. CASE TakeAnswer(a)
      BY <1>2, <2>3, <3>2, AnswerTalks DEF Complete, At
    <3>3. CASE Return(a, "failed")
      BY <1>2, <2>3, <3>3, ReturnTalks DEF Complete, At
    <3>4. QED
      BY <2>3, <3>1, <3>2, <3>3 DEF Complete
  <2>4. CASE CompleteWithoutTools(a)
    <3>1. CASE TakeAnswer(a)
      BY <1>2, <2>4, <3>1, AnswerTalks DEF CompleteWithoutTools, At
    <3>2. CASE Return(a, "failed")
      BY <1>2, <2>4, <3>2, ReturnTalks DEF CompleteWithoutTools, At
    <3>3. QED
      BY <2>4, <3>1, <3>2 DEF CompleteWithoutTools
  <2>5. CASE Summarize(a)
    BY <1>2, <2>5, ReturnTalks DEF Summarize, At
  <2>6. QED
    BY <1>3, <2>1, <2>2, <2>3, <2>4, <2>5 DEF Asking
<1>4. ASSUME NEW a \in Agent, Calling(a) PROVE LoopTyped' /\ ConversationInv'
  <2>1. CASE PassGate(a)
    BY <1>1, <2>1, CallGoesOn DEF PassGate, At, Working
  <2>2. CASE AskGate(a)
    <3>1. pc[a] \in Working
      BY <2>2 DEF AskGate, At, Working
    <3>2. CASE a \in Assist
      BY <1>2, <2>2, <3>1, <3>2, SettleTalks DEF AskGate
    <3>3. CASE a \notin Assist
      BY <1>1, <2>2, <3>1, <3>3, CallGoesOn DEF AskGate, Working
    <3>4. QED
      BY <3>2, <3>3
  <2>3. CASE LookupTool(a)
    BY <1>1, <2>3, CallGoesOn DEF LookupTool, At, Working
  <2>4. CASE NumberInvocation(a)
    <3>1. PICK l \in {"run", "finished"} : Goto(a, l)
      BY <2>4 DEF NumberInvocation
    <3>2. QED
      BY <1>1, <2>4, <3>1, CallGoesOn DEF NumberInvocation, At, Working
  <2>5. CASE RunHandler(a)
    BY <1>1, <2>5, CallGoesOn DEF RunHandler, At, Working
  <2>6. CASE LogInvocation(a)
    BY <1>2, <2>6, SettleTalks DEF LogInvocation, At, Working
  <2>7. QED
    BY <1>4, <2>1, <2>2, <2>3, <2>4, <2>5, <2>6 DEF Calling
<1>5. ASSUME NEW i \in DOMAIN approvals, NEW d \in {"approved", "denied"}, Resolve(i, d)
      PROVE  LoopTyped' /\ ConversationInv'
  BY <1>1, <1>5, NobodySays DEF Resolve
<1>6. ASSUME NEW t \in External, Register(t) \/ Unregister(t)
      PROVE  LoopTyped' /\ ConversationInv'
  BY <1>1, <1>6, NobodySays DEF Register, Unregister
<1>7. CASE UNCHANGED vars
  BY <1>1, <1>7, NobodySays DEF vars
<1>8. QED
  BY <1>3, <1>4, <1>5, <1>6, <1>7 DEF Next

-----------------------------------------------------------------------------
\* The router's log and the requests at the gate

\* What the router remembers of its log after another invocation.
LEMMA Remembered ==
  ASSUME NEW s \in Seq(Nat), Len(s) <= LogCap, NEW e \in Nat
  PROVE  /\ Remember(s, e) \in Seq(Nat)
         /\ Len(Remember(s, e)) <= LogCap /\ Len(Remember(s, e)) > 0
         /\ \E d \in {0, 1} :
              /\ d = 1 <=> Len(s) = LogCap
              /\ Len(Remember(s, e)) = Len(s) + 1 - d
              /\ \A i \in 1 .. Len(s) - d : Remember(s, e)[i] = s[i + d]
              /\ Remember(s, e)[Len(s) + 1 - d] = e
<1> DEFINE t == Append(s, e)
<1>1. /\ t \in Seq(Nat) /\ Len(t) = Len(s) + 1 /\ Len(s) \in Nat
      /\ \A i \in 1 .. Len(s) : t[i] = s[i]
      /\ t[Len(s) + 1] = e
      /\ \A i \in 1 .. Len(s) + 1 : t[i] \in Nat
  OBVIOUS
<1> HIDE DEF t
<1>2. LogCap \in Nat \ {0}
  BY LimitAssumption
<1>3. CASE Len(s) >= LogCap
  <2>1. Len(s) = LogCap /\ Remember(s, e) = SubSeq(t, 2, Len(s) + 1)
    BY <1>1, <1>2, <1>3 DEF Remember, t
  <2>2. /\ SubSeq(t, 2, Len(s) + 1) \in Seq(Nat)
        /\ Len(SubSeq(t, 2, Len(s) + 1)) = IF 2 <= Len(s) + 1 THEN Len(s) + 1 - 2 + 1 ELSE 0
        /\ \A i \in 1 .. Len(s) + 1 - 2 + 1 : SubSeq(t, 2, Len(s) + 1)[i] = t[2 + i - 1]
    <3>1. 2 \in Int /\ Len(s) + 1 \in Int /\ \A i \in 2 .. Len(s) + 1 : t[i] \in Nat
      BY <1>1
    <3>2. QED
      BY <3>1, SubSeqProperties
  <2> DEFINE r == Remember(s, e)
  <2>3. r \in Seq(Nat) /\ Len(r) = Len(s) /\ \A i \in 1 .. Len(s) : r[i] = t[i + 1]
    <3>1. 2 <= Len(s) + 1 /\ Len(s) + 1 - 2 + 1 = Len(s)
      BY <1>1, <1>2, <2>1
    <3>2. \A i \in 1 .. Len(s) : 2 + i - 1 = i + 1
      OBVIOUS
    <3>3. QED
      BY <2>1, <2>2, <3>1, <3>2
  <2> HIDE DEF r
  <2>4. Len(r) = Len(s) + 1 - 1 /\ \A i \in 1 .. Len(s) - 1 : r[i] = s[i + 1]
    <3>1. ASSUME NEW i \in 1 .. Len(s) - 1 PROVE i \in 1 .. Len(s) /\ i + 1 \in 1 .. Len(s)
      BY <1>1
    <3>2. QED
      BY <1>1, <2>3, <3>1
  <2>5. r[Len(s) + 1 - 1] = e
    <3>1. Len(s) + 1 - 1 = Len(s) /\ Len(s) \in 1 .. Len(s)
      BY <1>1, <1>2, <2>1
    <3>2. QED
      BY <1>1, <2>3, <3>1
  <2>6. QED
    BY <1>2, <2>1, <2>3, <2>4, <2>5 DEF r
<1>4. CASE ~ (Len(s) >= LogCap)
  <2>1. Remember(s, e) = t
    BY <1>4 DEF Remember, t
  <2>2. /\ Len(t) <= LogCap /\ Len(t) > 0 /\ Len(t) = Len(s) + 1 - 0 /\ Len(s) # LogCap
        /\ \A i \in 1 .. Len(s) - 0 : t[i] = s[i + 0]
        /\ t[Len(s) + 1 - 0] = e
    BY <1>1, <1>2, <1>4
  <2>3. QED
    BY <1>1, <2>1, <2>2
<1>5. QED
  BY <1>3, <1>4

\* Every step preserves the types of the gate's and the router's state.
LEMMA RouterTypedStep ==
  ASSUME LoopTyped, RouterTyped, [Next]_vars
  PROVE  RouterTyped'
<1>0. \A a \in Agent : pc[a] \in Working => CurrentTool(a) \in Tool
  BY HeadTailProperties DEF LoopTyped, CurrentTool
<1>1. ASSUME NEW a \in Agent, Asking(a) PROVE RouterTyped'
  BY <1>1 DEF Asking, Start, BeginStep, Complete, CompleteWithoutTools, Summarize, RouterTyped,
              routerVars
<1>2. ASSUME NEW a \in Agent, PassGate(a) PROVE RouterTyped'
  BY <1>2 DEF PassGate, RouterTyped, routerVars
<1>3. ASSUME NEW a \in Agent, AskGate(a) PROVE RouterTyped'
  <2>1. [mission |-> a, tool |-> CurrentTool(a), status |-> "pending"] \in Approval
    BY <1>3 DEF AskGate, Approval
  <2>2. approvals' \in Seq(Approval)
    BY <1>3, <2>1 DEF AskGate, RouterTyped
  <2>3. QED
    BY <1>3, <2>2 DEF AskGate, RouterTyped, routerVars
<1>4. ASSUME NEW a \in Agent, LookupTool(a) PROVE RouterTyped'
  BY <1>4 DEF LookupTool, RouterTyped, routerVars
<1>5. ASSUME NEW a \in Agent, NumberInvocation(a) PROVE RouterTyped'
  BY <1>5 DEF NumberInvocation, RouterTyped
<1>6. ASSUME NEW a \in Agent, RunHandler(a) PROVE RouterTyped'
  BY <1>6 DEF RunHandler, RouterTyped, routerVars
<1>7. ASSUME NEW a \in Agent, LogInvocation(a) PROVE RouterTyped'
  <2>1. log' \in Seq(Nat) /\ Len(log') <= LogCap
    <3>1. log' = Remember(log, inv[a]) /\ inv[a] \in Nat
      BY <1>7 DEF LogInvocation, RouterTyped
    <3>2. QED
      BY <3>1, Remembered DEF RouterTyped
  <2>2. QED
    BY <1>7, <2>1 DEF LogInvocation, RouterTyped
<1>8. ASSUME NEW i \in DOMAIN approvals, NEW d \in {"approved", "denied"}, Resolve(i, d)
      PROVE  RouterTyped'
  <2>1. [approvals[i] EXCEPT !.status = d] \in Approval
    <3>1. approvals[i] \in Approval
      BY ElementOfSeq DEF RouterTyped
    <3>2. QED
      BY <3>1 DEF Approval
  <2>2. approvals' = [approvals EXCEPT ![i] = [approvals[i] EXCEPT !.status = d]]
    BY <1>8 DEF Resolve
  <2>3. approvals' \in Seq(Approval)
    <3>1. approvals \in Seq(Approval) /\ i \in 1 .. Len(approvals)
      BY LenProperties DEF RouterTyped
    <3>2. QED
      BY <2>1, <2>2, <3>1, ExceptSeq
  <2>4. QED
    BY <1>8, <2>3 DEF Resolve, RouterTyped, routerVars
<1>9. ASSUME NEW t \in External, Register(t) \/ Unregister(t) PROVE RouterTyped'
  BY <1>9, ToolAssumption DEF Register, Unregister, RouterTyped
<1>10. CASE UNCHANGED vars
  BY <1>10 DEF vars, RouterTyped, routerVars
<1>11. QED
  BY <1>1, <1>2, <1>3, <1>4, <1>5, <1>6, <1>7, <1>8, <1>9, <1>10 DEF Next, Calling

-----------------------------------------------------------------------------
\* The gate

\* An agent has finitely many requests, for the gate holds finitely many.
LEMMA RequestsFinite ==
  ASSUME RouterTyped, NEW a \in Agent
  PROVE  IsFiniteSet(Requests(a)) /\ Cardinality(Requests(a)) \in Nat
<1>1. DOMAIN approvals = 1 .. Len(approvals) /\ Len(approvals) \in Nat
  BY DEF RouterTyped
<1>2. IsFiniteSet(1 .. Len(approvals))
  BY <1>1, FS_Interval
<1>3. Requests(a) \subseteq 1 .. Len(approvals)
  BY <1>1 DEF Requests
<1>4. IsFiniteSet(Requests(a))
  BY <1>2, <1>3, FS_Subset
<1>5. QED
  BY <1>4, FS_CardinalityType

\* A new request is one more of its mission's.
LEMMA RequestFiled ==
  ASSUME RouterTyped, NEW a \in Agent, NEW r \in Approval, r.mission = a,
         approvals' = Append(approvals, r)
  PROVE  /\ Cardinality(Requests(a)') = Cardinality(Requests(a)) + 1
         /\ \A b \in Agent : b # a => Requests(b)' = Requests(b)
<1> DEFINE len == Len(approvals)
           new == approvals'
<1>1. /\ len \in Nat /\ DOMAIN approvals = 1 .. len /\ DOMAIN new = 1 .. len + 1
      /\ \A i \in 1 .. len : new[i] = approvals[i]
      /\ new[len + 1] = r
  BY DEF RouterTyped
<1>2. /\ \A b \in Agent : Requests(b)' = {i \in DOMAIN new : new[i].mission = b}
      /\ \A b \in Agent : Requests(b) = {i \in DOMAIN approvals : approvals[i].mission = b}
  BY DEF Requests
<1> HIDE DEF len, new
<1>3. Requests(a)' = Requests(a) \cup {len + 1} /\ len + 1 \notin Requests(a)
  BY <1>1, <1>2
<1>4. ASSUME NEW b \in Agent, b # a PROVE Requests(b)' = Requests(b)
  <2>1. new[len + 1].mission # b
    BY <1>1, <1>4
  <2>2. {i \in DOMAIN new : new[i].mission = b} = {i \in DOMAIN approvals : approvals[i].mission = b}
    BY <1>1, <2>1
  <2>3. QED
    BY <1>2, <2>2
<1>5. Cardinality(Requests(a) \cup {len + 1}) = Cardinality(Requests(a)) + 1
  BY <1>3, RequestsFinite, FS_AddElement
<1>6. QED
  BY <1>3, <1>4, <1>5

\* A dangerous run uses up a request, and only a new request lets a call past the gate.
Cleared(a) ==
  /\ danger[a] + (IF Passed(a) THEN 1 ELSE 0) <= Cardinality(Requests(a))
  /\ a \in Assist => danger[a] = 0 /\ ~ Passed(a)

\* Nothing of it changes for those who run no tool.
LEMMA ClearedStays ==
  ASSUME RouterTyped, NEW b \in Agent, Cleared(b), danger'[b] = danger[b],
         Cardinality(Requests(b)') >= Cardinality(Requests(b)),
         Cardinality(Requests(b)') \in Nat,
         Passed(b)' => Passed(b)
  PROVE  Cleared(b)'
<1>1. danger[b] \in Nat /\ Cardinality(Requests(b)) \in Nat
  BY RequestsFinite DEF RouterTyped
<1>2. danger[b] + (IF Passed(b)' THEN 1 ELSE 0) <= Cardinality(Requests(b)')
  BY <1>1 DEF Cleared
<1>3. QED
  BY <1>2 DEF Cleared

\* Every step preserves the count of dangerous runs against requests.
LEMMA GateStep ==
  ASSUME LoopTyped, RouterTyped, GateInv, [Next]_vars
  PROVE  GateInv'
<1>0. /\ \A b \in Agent : Cleared(b) /\ danger[b] \in Nat /\ Cardinality(Requests(b)) \in Nat
      /\ pc \in [Agent -> Waiting \cup Working] /\ danger \in [Agent -> Nat]
      /\ DOMAIN calls = Agent
  BY RequestsFinite DEF GateInv, Cleared, LoopTyped, RouterTyped
<1>a. ASSUME UNCHANGED <<approvals, danger>>, NEW b \in Agent, Passed(b)' => Passed(b)
      PROVE  Cleared(b)'
  <2>1. Requests(b)' = Requests(b)
    BY <1>a DEF Requests
  <2>2. QED
    BY <1>0, <1>a, <2>1, ClearedStays
<1>b. (\A b \in Agent : Cleared(b)') => GateInv'
  BY DEF GateInv, Cleared
<1>1. ASSUME NEW a \in Agent, Asking(a) PROVE GateInv'
  <2>1. UNCHANGED <<approvals, danger>>
    BY <1>1 DEF Asking, Start, BeginStep, Complete, CompleteWithoutTools, Summarize
  <2>2. pc'[a] \in Waiting \cup {"call"} /\ \A b \in Agent : b # a => pc'[b] = pc[b] /\ calls'[b] = calls[b]
    BY <1>0, <1>1 DEF Asking, Start, BeginStep, Complete, CompleteWithoutTools, Summarize,
       TakeAnswer, Return, Goto, Waiting
  <2>3. \A b \in Agent : Passed(b)' => Passed(b)
    BY <2>2 DEF Passed, CurrentTool, Waiting
  <2>4. QED
    BY <1>a, <1>b, <2>1, <2>3
<1>2. ASSUME NEW a \in Agent, PassGate(a) PROVE GateInv'
  <2>1. UNCHANGED <<approvals, danger, calls>> /\ pc' = [pc EXCEPT ![a] = "lookup"]
        /\ CurrentTool(a) \notin Dangerous
    BY <1>2 DEF PassGate, Goto
  <2>2. \A b \in Agent : Passed(b)' => Passed(b)
    BY <1>0, <2>1 DEF Passed, CurrentTool
  <2>3. QED
    BY <1>a, <1>b, <2>1, <2>2
<1>3. ASSUME NEW a \in Agent, AskGate(a) PROVE GateInv'
  <2> DEFINE r == [mission |-> a, tool |-> CurrentTool(a), status |-> "pending"]
  <2>1. /\ r \in Approval /\ r.mission = a /\ approvals' = Append(approvals, r) /\ UNCHANGED danger
        /\ pc[a] = "call"
    BY <1>3 DEF AskGate, Approval, At
  <2> HIDE DEF r
  <2>2. /\ Cardinality(Requests(a)') = Cardinality(Requests(a)) + 1
        /\ \A b \in Agent : b # a => Requests(b)' = Requests(b)
    BY <2>1, RequestFiled
  <2>3. \A b \in Agent : b # a => pc'[b] = pc[b] /\ calls'[b] = calls[b]
    BY <1>0, <1>3 DEF AskGate, Settle, Goto
  <2>4. ASSUME NEW b \in Agent, b # a PROVE Cleared(b)'
    <3>1. Passed(b)' => Passed(b)
      BY <2>3, <2>4 DEF Passed, CurrentTool
    <3>2. Requests(b)' = Requests(b)
      BY <2>2, <2>4
    <3>3. QED
      BY <1>0, <2>1, <3>1, <3>2, ClearedStays
  <2>5. ~ Passed(a)
    BY <2>1 DEF Passed
  <2>6. a \in Assist => ~ Passed(a)'
    BY <1>0, <1>3 DEF AskGate, Settle, Goto, Passed
  <2>7. Cleared(a)'
    <3>1. danger[a] <= Cardinality(Requests(a)) /\ (a \in Assist => danger[a] = 0)
      BY <1>0, <2>5 DEF Cleared
    <3>2. danger'[a] + (IF Passed(a)' THEN 1 ELSE 0) <= Cardinality(Requests(a)')
      BY <1>0, <2>1, <2>2, <3>1
    <3>3. QED
      BY <2>1, <2>6, <3>1, <3>2 DEF Cleared
  <2>8. QED
    BY <1>b, <2>4, <2>7
<1>4. ASSUME NEW a \in Agent, LookupTool(a) \/ NumberInvocation(a) PROVE GateInv'
  <2>1. UNCHANGED <<approvals, danger, calls>> /\ pc[a] \in {"lookup", "number"}
        /\ \E l \in {"number", "run", "finished"} : pc' = [pc EXCEPT ![a] = l]
    BY <1>4 DEF LookupTool, NumberInvocation, Goto, At
  <2>2. \A b \in Agent : Passed(b)' => Passed(b)
    BY <1>0, <2>1 DEF Passed, CurrentTool
  <2>3. QED
    BY <1>a, <1>b, <2>1, <2>2
<1>5. ASSUME NEW a \in Agent, RunHandler(a) PROVE GateInv'
  <2>1. /\ danger' = [danger EXCEPT ![a] = IF CurrentTool(a) \in Dangerous THEN @ + 1 ELSE @]
        /\ UNCHANGED <<approvals, calls>> /\ pc[a] = "run" /\ pc' = [pc EXCEPT ![a] = "finished"]
    BY <1>5 DEF RunHandler, Goto, At
  <2>2. \A b \in Agent : Requests(b)' = Requests(b)
    BY <2>1 DEF Requests
  <2>3. ASSUME NEW b \in Agent, b # a PROVE Cleared(b)'
    <3>1. Passed(b)' => Passed(b)
      BY <1>0, <2>1, <2>3 DEF Passed, CurrentTool
    <3>2. danger'[b] = danger[b]
      BY <1>0, <2>1, <2>3
    <3>3. QED
      BY <1>0, <2>2, <3>1, <3>2, ClearedStays
  <2>4. ~ Passed(a)' /\ (Passed(a) <=> CurrentTool(a) \in Dangerous)
    BY <1>0, <2>1 DEF Passed
  <2>5. danger'[a] = danger[a] + (IF Passed(a) THEN 1 ELSE 0)
    BY <1>0, <2>1, <2>4
  <2>6. Cleared(a)'
    <3>1. danger'[a] \in Nat /\ danger'[a] <= Cardinality(Requests(a))
      BY <1>0, <2>5 DEF Cleared
    <3>2. a \in Assist => danger'[a] = 0
      BY <1>0, <2>5 DEF Cleared
    <3>3. QED
      BY <2>2, <2>4, <3>1, <3>2 DEF Cleared
  <2>7. QED
    BY <1>b, <2>3, <2>6
<1>6. ASSUME NEW a \in Agent, LogInvocation(a) PROVE GateInv'
  <2>1. UNCHANGED <<approvals, danger>>
    BY <1>6 DEF LogInvocation
  <2>2. pc'[a] \in {"step", "call"} /\ \A b \in Agent : b # a => pc'[b] = pc[b] /\ calls'[b] = calls[b]
    BY <1>0, <1>6 DEF LogInvocation, Settle, Goto
  <2>3. \A b \in Agent : Passed(b)' => Passed(b)
    BY <2>2 DEF Passed, CurrentTool
  <2>4. QED
    BY <1>a, <1>b, <2>1, <2>3
<1>7. ASSUME NEW i \in DOMAIN approvals, NEW d \in {"approved", "denied"}, Resolve(i, d)
      PROVE  GateInv'
  <2>1. UNCHANGED <<danger, pc, calls>> /\ approvals' = [approvals EXCEPT ![i].status = d]
    BY <1>7 DEF Resolve
  <2>2. DOMAIN approvals' = DOMAIN approvals
        /\ \A n \in DOMAIN approvals : approvals'[n].mission = approvals[n].mission
    BY <2>1 DEF RouterTyped, Approval
  <2>3. \A b \in Agent : Requests(b)' = Requests(b) /\ (Passed(b)' <=> Passed(b))
    BY <2>1, <2>2 DEF Requests, Passed, CurrentTool
  <2>4. QED
    BY <1>0, <1>b, <2>1, <2>3, ClearedStays
<1>8. ASSUME UNCHANGED <<approvals, danger, pc, calls>> PROVE GateInv'
  BY <1>a, <1>b, <1>8 DEF Passed, CurrentTool
<1>9. QED
  BY <1>1, <1>2, <1>3, <1>4, <1>5, <1>6, <1>7, <1>8
     DEF Next, Calling, Register, Unregister, vars

-----------------------------------------------------------------------------
\* The router

Running(a) == pc[a] \in {"run", "finished"}

\* While no number above LogCap has been given, the log has room for those in flight: their
\* numbers are not in it.
LEMMA LogHasRoom ==
  ASSUME RouterTyped, RouterInv, NEW a \in InFlight, seq <= LogCap
  PROVE  Len(log) < LogCap
<1> DEFINE S == 1 .. Len(log)
           T == (1 .. seq) \ {inv[a]}
<1>1. /\ seq \in Nat /\ LogCap \in Nat /\ Len(log) \in Nat /\ log \in [S -> Nat] /\ DOMAIN log = S
      /\ inv[a] \in 1 .. seq
  BY LimitAssumption DEF RouterTyped, RouterInv
<1>2. log \in [S -> T]
  <2>1. \A i \in S : log[i] \in 1 .. seq /\ log[i] # inv[a]
    BY <1>1 DEF RouterInv, InvocationsAccounted, Logged
  <2> HIDE DEF S, T
  <2>2. \A i \in S : log[i] \in T
    BY <2>1 DEF T
  <2>3. QED
    BY <1>1, <2>2
<1>3. IsFiniteSet(T) /\ Cardinality(T) = seq - 1
  <2>1. IsFiniteSet(1 .. seq) /\ Cardinality(1 .. seq) = seq
    <3>1. 1 \in Int /\ seq \in Int /\ ~ (1 > seq) /\ seq - 1 + 1 = seq
      BY <1>1
    <3>2. /\ IsFiniteSet(1 .. seq)
          /\ Cardinality(1 .. seq) = IF 1 > seq THEN 0 ELSE seq - 1 + 1
      BY <3>1, FS_Interval
    <3>3. QED
      BY <3>1, <3>2
  <2>2. QED
    BY <1>1, <2>1, FS_RemoveElement
<1>4. IsFiniteSet(S) /\ Cardinality(S) = Len(log)
  <2>1. 1 \in Int /\ Len(log) \in Int /\ (1 > Len(log) => Len(log) = 0) /\ Len(log) - 1 + 1 = Len(log)
    BY <1>1
  <2>2. IsFiniteSet(S) /\ Cardinality(S) = IF 1 > Len(log) THEN 0 ELSE Len(log) - 1 + 1
    BY <2>1, FS_Interval
  <2>3. QED
    BY <2>1, <2>2
<1> HIDE DEF S, T
<1>5. ~ (Cardinality(T) < Cardinality(S))
  <2>1. \A x, y \in S : x # y => log[x] # log[y]
    BY <1>1 DEF RouterInv, InvocationsAccounted
  <2>2. QED
    BY <1>2, <1>3, <1>4, <2>1, FS_PigeonHole
<1>6. QED
  BY <1>1, <1>3, <1>4, <1>5

\* Nobody takes a number or logs one.
LEMMA RouterStays ==
  ASSUME RouterInv, UNCHANGED <<seq, log>>,
         \A a \in Agent : (Running(a)' <=> Running(a)) /\ (Running(a) => inv'[a] = inv[a])
  PROVE  RouterInv'
<1>1. InFlight' = InFlight
  BY DEF InFlight, Running
<1>2. \A a \in InFlight : a \in Agent /\ inv'[a] = inv[a]
  BY DEF InFlight, Running
<1>3. {inv'[a] : a \in InFlight} = {inv[a] : a \in InFlight}
  BY <1>2
<1>4. QED
  BY <1>1, <1>2, <1>3 DEF RouterInv, InvocationsAccounted, Logged

\* The router numbers an invocation under its lock.
LEMMA NumberStep ==
  ASSUME LoopTyped, RouterTyped, RouterInv, NEW a \in Agent, NumberInvocation(a)
  PROVE  RouterInv'
<1>1. /\ seq' = seq + 1 /\ log' = log /\ seq \in Nat
      /\ pc[a] = "number" /\ inv \in [Agent -> Nat] /\ inv' = [inv EXCEPT ![a] = seq + 1]
  BY DEF NumberInvocation, RouterTyped, At
<1>2. \E l \in {"run", "finished"} : pc' = [pc EXCEPT ![a] = l]
  BY DEF NumberInvocation, Goto
<1>3. InFlight' = InFlight \cup {a} /\ a \notin InFlight
  BY <1>1, <1>2 DEF InFlight, LoopTyped
<1>4. /\ inv'[a] = seq + 1
      /\ \A b \in InFlight : b \in Agent /\ b # a /\ inv'[b] = inv[b] /\ inv[b] \in 1 .. seq
  BY <1>1, <1>3 DEF InFlight, RouterInv
<1>5. /\ \A i \in DOMAIN log : log[i] \in 1 .. seq
      /\ Logged' = Logged
  BY <1>1 DEF RouterInv, Logged
<1>6. \A b, c \in InFlight' : b # c => inv'[b] # inv'[c]
  <2>1. \A b, c \in InFlight : b # c => inv[b] # inv[c]
    BY DEF RouterInv, InvocationsAccounted
  <2>2. QED
    BY <1>1, <1>3, <1>4, <2>1
<1>7. \A b \in InFlight' : inv'[b] \notin Logged' /\ inv'[b] \in 1 .. seq'
  <2>1. \A b \in InFlight : inv[b] \notin Logged
    BY DEF RouterInv, InvocationsAccounted
  <2>2. seq + 1 \notin Logged
    BY <1>1, <1>5 DEF Logged
  <2>3. \A n \in 1 .. seq : n \in 1 .. seq + 1
    BY <1>1
  <2>4. QED
    BY <1>1, <1>3, <1>4, <1>5, <2>1, <2>2, <2>3
<1>8. seq' <= LogCap => 1 .. seq' = Logged' \cup {inv'[b] : b \in InFlight'}
  <2> SUFFICES ASSUME seq + 1 <= LogCap
               PROVE  1 .. seq + 1 = Logged \cup {inv'[b] : b \in InFlight'}
    BY <1>1, <1>5
  <2>1. 1 .. seq = Logged \cup {inv[b] : b \in InFlight}
    BY <1>1, LimitAssumption DEF RouterInv, InvocationsAccounted
  <2>2. 1 .. seq + 1 = (1 .. seq) \cup {seq + 1}
    BY <1>1
  <2>3. {inv'[b] : b \in InFlight'} = {inv[b] : b \in InFlight} \cup {seq + 1}
    BY <1>3, <1>4
  <2>4. QED
    BY <2>1, <2>2, <2>3
<1>9. \A i \in DOMAIN log' : log'[i] \in 1 .. seq'
  BY <1>1, <1>5
<1>10. \A i, j \in DOMAIN log' : i # j => log'[i] # log'[j]
  BY <1>1 DEF RouterInv, InvocationsAccounted
<1>11. QED
  BY <1>6, <1>7, <1>8, <1>9, <1>10 DEF RouterInv, InvocationsAccounted

\* The router logs a finished invocation and drops the oldest one beyond the cap.
LEMMA LogStep ==
  ASSUME LoopTyped, RouterTyped, RouterInv, NEW a \in Agent, LogInvocation(a)
  PROVE  RouterInv'
<1> DEFINE e == inv[a]
           len == Len(log)
<1>1. /\ pc[a] = "finished" /\ a \in InFlight /\ log' = Remember(log, e) /\ seq' = seq
      /\ inv \in [Agent -> Nat] /\ inv' = [inv EXCEPT ![a] = 0]
      /\ log \in Seq(Nat) /\ len \in Nat /\ DOMAIN log = 1 .. len /\ len <= LogCap /\ e \in Nat
  BY DEF LogInvocation, At, InFlight, RouterTyped
<1>2. InFlight' = InFlight \ {a}
  <2>1. pc' = [pc EXCEPT ![a] = IF Len(calls[a]) = 1 THEN "step" ELSE "call"]
    BY DEF LogInvocation, Settle, Goto
  <2>2. QED
    BY <2>1 DEF InFlight, LoopTyped
<1>3. \A b \in InFlight' : b \in InFlight /\ b # a /\ b \in Agent /\ inv'[b] = inv[b]
  BY <1>1, <1>2 DEF InFlight
<1>4. /\ \A b, c \in InFlight : b # c => inv[b] # inv[c]
      /\ \A i, j \in DOMAIN log : i # j => log[i] # log[j]
      /\ \A b \in InFlight : inv[b] \notin Logged /\ inv[b] \in 1 .. seq
      /\ \A i \in DOMAIN log : log[i] \in 1 .. seq
      /\ seq <= LogCap => 1 .. seq = Logged \cup {inv[b] : b \in InFlight}
  BY DEF RouterInv, InvocationsAccounted
<1>5. PICK d \in {0, 1} :
        /\ d = 1 <=> len = LogCap
        /\ Len(log') = len + 1 - d
        /\ \A i \in 1 .. len - d : log'[i] = log[i + d]
        /\ log'[len + 1 - d] = e
  BY <1>1, Remembered
<1>6. DOMAIN log' = 1 .. len + 1 - d
  BY <1>1, <1>5, Remembered
<1> HIDE DEF e, len
<1>5b. \A i \in 1 .. len - d : i \in Int /\ i + d \in 1 .. len /\ log'[i] = log[i + d]
  <2>1. len \in Nat /\ \A i \in 1 .. len - d : log'[i] = log[i + d]
    BY <1>1, <1>5
  <2>2. CASE d = 0
    BY <2>1, <2>2
  <2>3. CASE d = 1
    BY <2>1, <2>3
  <2>4. QED
    BY <2>2, <2>3
<1>5c. \A i \in 1 .. len + 1 - d : i \in 1 .. len - d \/ i = len + 1 - d
  <2>1. CASE d = 0
    BY <1>1, <2>1
  <2>2. CASE d = 1
    BY <1>1, <2>2
  <2>3. QED
    BY <2>1, <2>2
<1>7. \A i \in DOMAIN log' :
        (i \in 1 .. len - d /\ i + d \in DOMAIN log /\ log'[i] = log[i + d])
          \/ (i = len + 1 - d /\ log'[i] = e)
  BY <1>1, <1>5, <1>5b, <1>5c, <1>6
<1>8. e \notin Logged /\ e \in 1 .. seq
  BY <1>1, <1>4 DEF e
<1>9. \A i \in DOMAIN log : log[i] # e
  BY <1>8 DEF Logged
<1>10. \A i \in DOMAIN log' : log'[i] \in 1 .. seq'
  BY <1>1, <1>4, <1>7, <1>8
<1>11. ASSUME NEW i \in DOMAIN log', NEW j \in DOMAIN log', i # j
       PROVE  log'[i] # log'[j]
  <2>1. i \in Int /\ j \in Int
    BY <1>1, <1>5, <1>6
  <2>2. CASE i \in 1 .. len - d /\ j \in 1 .. len - d
    <3>1. /\ i + d \in DOMAIN log /\ log'[i] = log[i + d]
          /\ j + d \in DOMAIN log /\ log'[j] = log[j + d]
      BY <1>1, <1>5b, <2>2
    <3>2. i + d # j + d
      BY <1>5, <1>11, <2>1
    <3>3. QED
      BY <1>4, <3>1, <3>2
  <2>3. CASE i = len + 1 - d
    BY <1>1, <1>5, <1>7, <1>9, <1>11, <2>3
  <2>4. CASE j = len + 1 - d
    BY <1>1, <1>5, <1>7, <1>9, <1>11, <2>4
  <2>5. QED
    BY <1>7, <2>2, <2>3, <2>4
<1>12. Logged' \subseteq Logged \cup {e}
  BY <1>7 DEF Logged
<1>13. \A b \in InFlight' : inv'[b] \notin Logged' /\ inv'[b] \in 1 .. seq'
  <2>1. \A b \in InFlight' : inv[b] # e
    BY <1>1, <1>3, <1>4 DEF e
  <2>2. QED
    BY <1>1, <1>3, <1>4, <1>12, <2>1
<1>14. seq' <= LogCap => 1 .. seq' = Logged' \cup {inv'[b] : b \in InFlight'}
  <2> SUFFICES ASSUME seq <= LogCap
               PROVE  1 .. seq = Logged' \cup {inv'[b] : b \in InFlight'}
    BY <1>1
  <2>1. d = 0
    BY <1>1, <1>5, LogHasRoom DEF len
  <2>2. Logged' = Logged \cup {e}
    <3>1. \A i \in DOMAIN log : i \in DOMAIN log' /\ log'[i] = log[i]
      BY <1>1, <1>5, <1>6, <2>1
    <3>2. len + 1 \in DOMAIN log' /\ log'[len + 1] = e
      BY <1>1, <1>5, <1>6, <2>1
    <3>3. QED
      BY <1>12, <3>1, <3>2 DEF Logged
  <2>3. {inv'[b] : b \in InFlight'} \cup {e} = {inv[b] : b \in InFlight}
    BY <1>1, <1>2, <1>3 DEF e
  <2>4. QED
    BY <1>4, <2>2, <2>3
<1>15. QED
  BY <1>3, <1>4, <1>10, <1>11, <1>13, <1>14 DEF RouterInv, InvocationsAccounted

\* Every step preserves the accounting of invocations.
LEMMA RouterStep ==
  ASSUME LoopTyped, RouterTyped, RouterInv, [Next]_vars
  PROVE  RouterInv'
<1>0. pc \in [Agent -> Waiting \cup Working]
  BY DEF LoopTyped
<1>1. ASSUME NEW a \in Agent, Asking(a) PROVE RouterInv'
  <2>1. UNCHANGED <<inv, seq, log>>
    BY <1>1 DEF Asking, Start, BeginStep, Complete, CompleteWithoutTools, Summarize, routerVars
  <2>2. \A b \in Agent : Running(b)' <=> Running(b)
    <3>1. pc[a] \in Waiting /\ \E l \in Waiting \cup {"call"} : pc' = [pc EXCEPT ![a] = l]
      BY <1>1 DEF Asking, Start, BeginStep, Complete, CompleteWithoutTools, Summarize, At,
         TakeAnswer, Return, Goto, Waiting
    <3>2. QED
      BY <1>0, <3>1 DEF Running, Waiting
  <2>3. QED
    BY <2>1, <2>2, RouterStays
<1>2. ASSUME NEW a \in Agent, PassGate(a) \/ AskGate(a) \/ LookupTool(a) PROVE RouterInv'
  <2>1. UNCHANGED <<inv, seq, log>>
    BY <1>2 DEF PassGate, AskGate, LookupTool, routerVars
  <2>2. \A b \in Agent : Running(b)' <=> Running(b)
    <3>1. pc[a] \in {"call", "lookup"}
          /\ \E l \in {"call", "lookup", "number", "step"} : pc' = [pc EXCEPT ![a] = l]
      BY <1>2 DEF PassGate, AskGate, LookupTool, At, Settle, Goto
    <3>2. QED
      BY <1>0, <3>1 DEF Running
  <2>3. QED
    BY <2>1, <2>2, RouterStays
<1>3. ASSUME NEW a \in Agent, RunHandler(a) PROVE RouterInv'
  <2>1. UNCHANGED <<inv, seq, log>> /\ pc[a] = "run" /\ pc' = [pc EXCEPT ![a] = "finished"]
    BY <1>3 DEF RunHandler, routerVars, At, Goto
  <2>2. \A b \in Agent : Running(b)' <=> Running(b)
    BY <1>0, <2>1 DEF Running
  <2>3. QED
    BY <2>1, <2>2, RouterStays
<1>4. ASSUME UNCHANGED <<inv, seq, log, pc>> PROVE RouterInv'
  BY <1>4, RouterStays DEF Running
<1>5. QED
  BY <1>1, <1>2, <1>3, <1>4, NumberStep, LogStep
     DEF Next, Calling, Resolve, Register, Unregister, vars, routerVars

-----------------------------------------------------------------------------

\* The invariant holds before the first mission starts.
LEMMA InitIInv == Init => IInv
<1> SUFFICES ASSUME Init
             PROVE  IInv
  OBVIOUS
<1>1. LoopTyped
  <2>1. /\ pc = [a \in Agent |-> "start"] /\ steps = [a \in Agent |-> 0]
        /\ msgs = [a \in Agent |-> <<>>] /\ calls = [a \in Agent |-> <<>>]
        /\ result = [a \in Agent |-> "none"]
    BY DEF Init
  <2>2. 0 \in 0 .. MaxSteps
    BY LimitAssumption
  <2>3. QED
    BY <2>1, <2>2 DEF LoopTyped, Waiting, Working
<1>2. RouterTyped
  <2>1. /\ found = [a \in Agent |-> FALSE] /\ inv = [a \in Agent |-> 0] /\ approvals = <<>>
        /\ tools = Tool \ External /\ seq = 0 /\ log = <<>> /\ danger = [a \in Agent |-> 0]
    BY DEF Init
  <2>2. Len(log) <= LogCap
    BY <2>1, LimitAssumption
  <2>3. QED
    BY <2>1, <2>2 DEF RouterTyped
<1>3. ConversationInv
  <2> SUFFICES ASSUME NEW a \in Agent
               PROVE  Talk(a) /\ Short(a)
    BY DEF ConversationInv
  <2>1. pc[a] = "start" /\ msgs[a] = <<>> /\ calls[a] = <<>> /\ steps[a] = 0
    BY DEF Init
  <2>2. Closed(<<>>, Len(<<>>))
    BY DEF Closed
  <2>3. Talk(a)
    BY <2>1, <2>2 DEF Talk, Working
  <2>4. Short(a)
    BY <2>1, LimitAssumption DEF Short, Working
  <2>5. QED
    BY <2>3, <2>4
<1>4. GateInv
  <2> SUFFICES ASSUME NEW a \in Agent
               PROVE  Cleared(a)
    BY DEF GateInv, Cleared
  <2>1. danger[a] = 0 /\ ~ Passed(a)
    BY DEF Init, Passed
  <2>2. Cardinality(Requests(a)) \in Nat
    BY <1>2, RequestsFinite
  <2>3. QED
    BY <2>1, <2>2 DEF Cleared
<1>5. RouterInv
  <2>1. InFlight = {} /\ log = <<>> /\ seq = 0
    BY DEF Init, InFlight
  <2>2. Logged = {} /\ 1 .. 0 = {}
    BY <2>1 DEF Logged
  <2>3. QED
    BY <2>1, <2>2 DEF RouterInv, InvocationsAccounted
<1>6. QED
  BY <1>1, <1>2, <1>3, <1>4, <1>5 DEF IInv

\* The inductive invariant: what was said, which requests were filed and which numbers were
\* given fit together in every state the loops can reach.
THEOREM Invariance == Spec => []IInv
<1>1. IInv /\ [Next]_vars => IInv'
  BY ConversationStep, RouterTypedStep, GateStep, RouterStep DEF IInv
<1>2. QED
  BY <1>1, InitIInv, PTL DEF Spec

\* The types of the loop, the gate (gate.go:11) and the router (router.go:20); however many
\* steps there are, a conversation has at most KeepRecent + MaxCalls + 5 messages.
THEOREM TypeCorrect == Spec => []TypeOK
<1>1. ASSUME IInv PROVE TypeOK
  <2>1. LoopTyped /\ RouterTyped /\ \A a \in Agent : Talk(a) /\ Short(a)
    BY <1>1 DEF IInv, ConversationInv
  <2>2. ASSUME NEW a \in Agent PROVE Len(msgs[a]) <= KeepRecent + MaxCalls + 5
    <3>1. Len(msgs[a]) \in Nat /\ Len(calls[a]) \in Nat /\ MaxCalls \in Nat /\ KeepRecent \in Nat
      BY <2>1, LimitAssumption DEF LoopTyped
    <3>2. \E n \in {3, MaxCalls + 4, MaxCalls + 5} : Len(msgs[a]) + Len(calls[a]) <= KeepRecent + n
      BY <2>1 DEF Short
    <3> DEFINE m == Len(msgs[a])
               c == Len(calls[a])
    <3>3. m \in Nat /\ c \in Nat
          /\ \/ m + c <= KeepRecent + 3
             \/ m + c <= KeepRecent + (MaxCalls + 4)
             \/ m + c <= KeepRecent + (MaxCalls + 5)
      BY <3>1, <3>2
    <3> HIDE DEF m, c
    <3>4. m <= KeepRecent + MaxCalls + 5
      BY <3>1, <3>3
    <3>5. QED
      BY <3>4 DEF m
  <2>3. ASSUME NEW a \in Agent, NEW i \in DOMAIN msgs[a]
        PROVE  /\ msgs[a][i].role \in {"system", "user", "assistant", "tool"}
               /\ msgs[a][i].step \in 0 .. MaxSteps /\ msgs[a][i].n \in 0 .. MaxCalls
    <3>1. msgs[a][i] \in Message
      BY <2>1, ElementOfSeq DEF LoopTyped
    <3>2. QED
      BY <3>1 DEF Message
  <2>4. QED
    BY <2>1, <2>2, <2>3 DEF TypeOK, LoopTyped, RouterTyped, Approval
<1>2. QED
  BY <1>1, Invariance, PTL

\* No dangerous tool runs without a request of its own, none in assist mode (kernel.go:238-247).
THEOREM DangerIsRequested == Spec => []DangerNeedsRequest
<1>1. ASSUME IInv PROVE DangerNeedsRequest
  <2> SUFFICES ASSUME NEW a \in Agent
               PROVE  danger[a] <= Cardinality(Requests(a)) /\ (a \in Assist => danger[a] = 0)
    BY DEF DangerNeedsRequest
  <2>1. danger[a] \in Nat /\ Cardinality(Requests(a)) \in Nat
    BY <1>1, RequestsFinite DEF IInv, RouterTyped
  <2>2. QED
    BY <1>1, <2>1 DEF IInv, GateInv
<1>2. QED
  BY <1>1, Invariance, PTL

\* Compaction cuts older messages only: a model sees every call with its answers, and the last
\* step whole (runtime.go:300-320).
THEOREM LastStepIsWhole == Spec => []LastStepWhole
<1>1. ASSUME IInv PROVE LastStepWhole
  <2> SUFFICES ASSUME NEW a \in Agent, pc[a] \in {"complete", "retry", "summarize"}
               PROVE  /\ \A i \in DOMAIN msgs[a] :
                           msgs[a][i].role = "assistant" =>
                             \A n \in 1 .. msgs[a][i].n :
                               /\ i + n \in DOMAIN msgs[a]
                               /\ msgs[a][i + n] = Answer(msgs[a][i].step, n)
                      /\ msgs[a][1] = System
                      /\ LET before == IF pc[a] = "summarize" THEN steps[a] ELSE steps[a] - 1
                         IN  MaxCalls < KeepRecent /\ before > 0 =>
                               \E i \in DOMAIN msgs[a] : msgs[a][i].role = "assistant"
                                                      /\ msgs[a][i].step = before
    BY DEF LastStepWhole
  <2> DEFINE ms == msgs[a]
  <2>1. /\ Talk(a) /\ ms \in Seq(Message) /\ steps[a] \in Nat
    BY <1>1 DEF IInv, ConversationInv, LoopTyped
  <2>2. Closed(ms, Len(ms)) /\ DOMAIN ms = 1 .. Len(ms) /\ Len(ms) \in Nat
    BY <2>1 DEF Talk, Working
  <2>3. ASSUME NEW i \in DOMAIN ms, ms[i].role = "assistant", NEW n \in 1 .. ms[i].n
        PROVE  i + n \in DOMAIN ms /\ ms[i + n] = Answer(ms[i].step, n)
    <3>1. i \in Nat /\ n \in Nat /\ i >= 1
      BY <2>1, <2>2 DEF Message
    <3>2. i + n <= Len(ms) /\ ms[i + n] = Answer(ms[i].step, n)
      BY <2>2, <2>3 DEF Closed
    <3>3. QED
      BY <2>2, <3>1, <3>2
  <2>4. ms[1] = System
    <3>1. PICK k \in 1 .. 3 : Opened(ms, k)
      BY <2>1 DEF Talk
    <3>2. 1 \in DOMAIN ms /\ 1 <= k
      BY <2>2, <3>1 DEF Opened
    <3>3. QED
      BY <3>1, <3>2 DEF Opened
  <2>5. CASE pc[a] = "summarize"
    BY <2>1, <2>3, <2>4, <2>5 DEF Talk, Says
  <2>6. CASE pc[a] \in {"complete", "retry"}
    <3>1. steps[a] - 1 > 0 => steps[a] > 1
      BY <2>1
    <3>2. QED
      BY <2>1, <2>3, <2>4, <2>6, <3>1 DEF Talk, Says
  <2>7. QED
    BY <2>5, <2>6
<1>2. QED
  BY <1>1, Invariance, PTL

\* Every invocation has a number of its own and is logged once (router.go:113-158).
THEOREM InvocationsCounted == Spec => []InvocationsAccounted
<1>1. IInv => InvocationsAccounted
  BY DEF IInv, RouterInv
<1>2. QED
  BY <1>1, Invariance, PTL

=============================================================================
