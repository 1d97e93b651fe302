----------------------------- MODULE Conversations -----------------------------
(***************************************************************************)
(* Conversations whose answers are missions: the sessions of the command   *)
(* deck (kernel/pkg/deck/sessions.go) and of the chat service              *)
(* (kernel/pkg/chat/service.go), and the routines of the deck, which fire  *)
(* missions the same way (kernel/pkg/deck/routines.go).                    *)
(*                                                                         *)
(* A message or a firing is written down under the lock, runs its mission  *)
(* without it, and writes the outcome into the same session or routine,    *)
(* into which other messages have been written in between.                 *)
(***************************************************************************)
EXTENDS MissionHost, SequencesExt

CONSTANTS
  Session,     \* sessions of the command deck
  Chat,        \* sessions of the chat service
  Message,     \* messages, each sent by a request of its own
  Routine,     \* routines
  Firing,      \* requests to fire a routine
  MaxHistory,  \* runs a routine remembers (20 in the code)
  NoOne        \* no session, chat or routine

ASSUME PartnerAssumption == Session \cap Chat = {}
ASSUME MaxHistoryAssumption == MaxHistory \in Nat \ {0}

VARIABLES
  turns,    \* session or chat -> its turns, each a role and the message it belongs to
  status,   \* session -> Session.Status
  charged,  \* session -> number of missions whose cost it has been charged
  sending,  \* message -> where Message or Send is, for whom, and its mission
  paused,   \* paused routines
  history,  \* routine -> Routine.History, each run as the firing that made it
  lastRun,  \* routine -> Routine.LastMission
  firing,   \* firing -> where Fire is, its routine and its mission
  fired     \* history: the firings that have written their run down, in that order

conversationVars ==
  <<turns, status, charged, sending, paused, history, lastRun, firing, fired>>

deckVars == <<paused, history, lastRun, firing, fired>>
talkVars == <<turns, status, charged, sending>>

Partner == Session \cup Chat
NoErrand(none) == [at |-> "idle", for |-> none, mission |-> NoMission]

ConversationInit ==
  /\ turns = [s \in Partner |-> <<>>]
  /\ status = [s \in Session |-> "idle"]
  /\ charged = [s \in Session |-> 0]
  /\ sending = [q \in Message |-> NoErrand(NoOne)]
  /\ paused = {}
  /\ history = [r \in Routine |-> <<>>]
  /\ lastRun = [r \in Routine |-> NoMission]
  /\ firing = [f \in Firing |-> NoErrand(NoOne)]
  /\ fired = [r \in Routine |-> <<>>]

Refused(errand) == errand.mission = NoMission

Say(s, role, q) == turns' = [turns EXCEPT ![s] = Append(@, <<role, q>>)]

------------------------------------------------------------------------------
\* Message and Send: the user's turn is written down, and a session is set working.
StartMessage(q) ==
  /\ sending[q].at = "idle"
  /\ \E s \in Partner :
       /\ Say(s, "user", q)
       /\ status' = [x \in Session |-> IF x = s THEN "working" ELSE status[x]]
       /\ sending' = [sending EXCEPT ![q] = [@ EXCEPT !.at = "submit", !.for = s]]
  /\ UNCHANGED <<charged, deckVars, hostVars>>

SubmitMessage(q) ==
  /\ sending[q].at = "submit"
  /\ \/ \E m \in Mission :
          /\ SubmitFresh(m)
          /\ sending' = [sending EXCEPT ![q] = [@ EXCEPT !.at = "record", !.mission = m]]
     \/ /\ sending' = [sending EXCEPT ![q].at = "record"]
        /\ UNCHANGED hostVars
  /\ UNCHANGED <<turns, status, charged, deckVars>>

\* Mutant: a session keeps its status when the submission is refused.
StatusUnlessRefused(q, s) ==
  IF Refused(sending[q]) THEN status[s]
  ELSE IF state[sending[q].mission] = "failed" THEN "error" ELSE "idle"

\* The status after a message, whatever has become of the session in between.
StatusAfter(q, s) ==
  IF Refused(sending[q]) THEN "error"
  ELSE IF state[sending[q].mission] = "failed" THEN "error" ELSE "idle"

\* Mutant: a session that has been stopped is not answered.
AnswerUnlessStopped(q, s) == IF status[s] = "stopped" THEN UNCHANGED turns ELSE Say(s, "assistant", q)

Answer(q, s) == Say(s, "assistant", q)

\* The deck answers a refused submission with the error and charges the session with what
\* a mission has cost.
EndMessage(q) ==
  /\ sending[q].at = "record"
  /\ Returned(sending[q].mission)
  /\ LET s == sending[q].for IN
       /\ s \in Session
       /\ Answer(q, s)
       /\ status' = [status EXCEPT ![s] = StatusAfter(q, s)]
       /\ charged' = [charged EXCEPT ![s] = IF Refused(sending[q]) THEN @ ELSE @ + 1]
  /\ sending' = [sending EXCEPT ![q].at = "done"]
  /\ UNCHANGED <<deckVars, hostVars>>

\* The chat service leaves the user's turn without an answer when the submission is refused.
EndSend(q) ==
  /\ sending[q].at = "record"
  /\ Returned(sending[q].mission)
  /\ LET s == sending[q].for IN
       /\ s \in Chat
       /\ IF Refused(sending[q]) THEN UNCHANGED turns ELSE Say(s, "assistant", q)
  /\ sending' = [sending EXCEPT ![q].at = "done"]
  /\ UNCHANGED <<status, charged, deckVars, hostVars>>

\* Stop sets the status only; a mission under way goes on.
StopSession(s) ==
  /\ status' = [status EXCEPT ![s] = "stopped"]
  /\ UNCHANGED <<turns, charged, sending, deckVars, hostVars>>

------------------------------------------------------------------------------
\* Fire: a paused routine is not fired.
StartFire(f) ==
  /\ firing[f].at = "idle"
  /\ \E r \in Routine \ paused :
       firing' = [firing EXCEPT ![f] = [@ EXCEPT !.at = "submit", !.for = r]]
  /\ UNCHANGED <<paused, history, lastRun, fired, talkVars, hostVars>>

SubmitFire(f) ==
  /\ firing[f].at = "submit"
  /\ \/ \E m \in Mission :
          /\ SubmitFresh(m)
          /\ firing' = [firing EXCEPT ![f] = [@ EXCEPT !.at = "record", !.mission = m]]
     \/ /\ firing' = [firing EXCEPT ![f].at = "record"]
        /\ UNCHANGED hostVars
  /\ UNCHANGED <<paused, history, lastRun, fired, talkVars>>

Newest(n, runs) == IF Len(runs) > n THEN SubSeq(runs, Len(runs) - n + 1, Len(runs)) ELSE runs

\* The run is added and the history cut to its newest.
Remember(runs, f) == Newest(MaxHistory, Append(runs, f))

\* The outcome is written down, paused or not.
EndFire(f) ==
  /\ firing[f].at = "record"
  /\ Returned(firing[f].mission)
  /\ LET r == firing[f].for IN
       /\ history' = [history EXCEPT ![r] = Remember(@, f)]
       /\ lastRun' = [lastRun EXCEPT ![r] = firing[f].mission]
       /\ fired' = [fired EXCEPT ![r] = Append(@, f)]
  /\ firing' = [firing EXCEPT ![f].at = "done"]
  /\ UNCHANGED <<paused, talkVars, hostVars>>

SetPaused(r) ==
  /\ paused' \in {paused \cup {r}, paused \ {r}}
  /\ UNCHANGED <<history, lastRun, firing, fired, talkVars, hostVars>>

------------------------------------------------------------------------------
\* Sessions and chats.
TalkNext ==
  \/ \E q \in Message : StartMessage(q) \/ SubmitMessage(q) \/ EndMessage(q) \/ EndSend(q)
  \/ \E s \in Session : StopSession(s)
  \/ KernelStep /\ UNCHANGED conversationVars

RoutineNext ==
  \/ \E f \in Firing : StartFire(f) \/ SubmitFire(f) \/ EndFire(f)
  \/ \E r \in Routine : SetPaused(r)
  \/ KernelStep /\ UNCHANGED conversationVars

------------------------------------------------------------------------------
Stages == {"idle", "submit", "record", "done"}

ConversationTypeOK ==
  /\ turns \in [Partner -> Seq({"user", "assistant"} \X Message)]
  /\ status \in [Session -> {"idle", "working", "error", "stopped"}]
  /\ charged \in [Session -> Nat]
  /\ sending \in [Message -> [at : Stages, for : Partner \cup {NoOne},
                              mission : Mission \cup {NoMission}]]
  /\ paused \subseteq Routine
  /\ history \in [Routine -> SeqOf(Firing, MaxHistory)]
  /\ lastRun \in [Routine -> Mission \cup {NoMission}]
  /\ firing \in [Firing -> [at : Stages, for : Routine \cup {NoOne},
                            mission : Mission \cup {NoMission}]]
  /\ fired \in [Routine -> Seq(Firing)]

UnderWay(s) == {q \in Message : sending[q].for = s /\ sending[q].at \in {"submit", "record"}}
Places(s, role, q) == {i \in DOMAIN turns[s] : turns[s][i] = <<role, q>>}

\* However messages to one session overlap, each is in the conversation once, and once its
\* mission has ended it has been answered once, after it was asked; only the chat service
\* leaves a message unanswered, when its mission was refused (sessions.go:118, 138, 148;
\* chat/service.go:99, 149-168).
AnsweredInTurn ==
  \A q \in Message : sending[q].at # "idle" =>
    LET s == sending[q].for
        asked == Places(s, "user", q)
        answered == Places(s, "assistant", q)
    IN /\ Cardinality(asked) = 1
       /\ IF sending[q].at = "done" /\ ~ (s \in Chat /\ Refused(sending[q]))
          THEN Cardinality(answered) = 1 /\ \A i \in asked, j \in answered : i < j
          ELSE answered = {}

\* A session nobody is talking to is not shown as working, and has been charged once for
\* every mission it ran, however its messages overlapped and ended (sessions.go:115,
\* 137, 143, 149-153).
SessionSettles ==
  \A s \in Session : UnderWay(s) = {} =>
    /\ status[s] # "working"
    /\ charged[s] = Cardinality({q \in Message : /\ sending[q].for = s
                                                 /\ sending[q].at = "done"
                                                 /\ ~ Refused(sending[q])})

================================================================================
