-------------------------- MODULE MissionKernelProofs --------------------------
(***************************************************************************)
(* Theorems about MissionKernel, for every set of missions and providers,  *)
(* every policy and every number of cancellations.                         *)
(*                                                                         *)
(* TypeOK is not inductive by itself: that a candidate of the failover     *)
(* loop is a provider needs the loop index to stay inside the chain        *)
(* (ChainOK).  That a finished mission has left "running", and that its    *)
(* state has been announced, needs the relation between the state, the     *)
(* verdict of the run and the cancellations on their way (ConclusionOK,    *)
(* AnnouncementOK).                                                        *)
(*                                                                         *)
(* What a run journals and leaves behind needs to know where in the chain  *)
(* its executions and failures were (JournalInv), and which of its writes  *)
(* have been made (EffectInv): RunInv, kept by every step together with    *)
(* IInv.                                                                   *)
(***************************************************************************)
EXTENDS MissionKernel, TLAPS

InLoop == {"lookup", "issue", "issued", "assign", "start", "execute", "failover", "failed"}
Over == {"report", "done"}

ChainOK ==
  \A m \in Mission :
    /\ pc[m] \in {"secure", "record"} => chain[m] # <<>>
    /\ pc[m] \in InLoop => rank[m] \in 1 .. Len(chain[m])

ConclusionOK ==
  \A m \in Mission :
    /\ pc[m] = "absent" <=> state[m] = "absent"
    /\ pc[m] \in Over => verdict[m] \in Verdicts /\ state[m] \in {verdict[m], "cancelled"}
    /\ pc[m] \notin Over => verdict[m] = "none" /\ state[m] \in {"absent", "running", "cancelled"}

AnnouncementOK ==
  \A m \in Mission :
    /\ pc[m] = "done" => Updated(verdict[m]) \in Events(m)
    /\ state[m] = "cancelled" => pending[m] > 0 \/ Updated("cancelled") \in Events(m)
    /\ pending[m] <= cancels[m]

IInv == TypeOK /\ ChainOK /\ ConclusionOK /\ AnnouncementOK
-----------------------------------------------------------------------------

\* A chain of candidates is a non-empty sequence of providers.
LEMMA EveryChain == \A c \in Chains : c \in Seq(Provider) /\ c # <<>>
  BY DEF Chains

\* Publishing appends to one mission's part of the journal and leaves the rest alone.
LEMMA PublishAppends ==
  ASSUME NEW m \in Mission, NEW e \in JournalEvent, JournalTyped, Publish(m, e)
  PROVE  /\ journal' \in [Mission -> Seq(JournalEvent)]
         /\ Events(m)' = Events(m) \cup {e}
         /\ \A x \in Mission : Events(m) \subseteq Events(m)' /\ (x # m => Events(x)' = Events(x))
<1>1. journal \in [Mission -> Seq(JournalEvent)]
  BY DEF JournalTyped
<1>2. journal' = [journal EXCEPT ![m] = Append(@, e)]
  BY DEF Publish
<1>3. journal' \in [Mission -> Seq(JournalEvent)]
  BY <1>1, <1>2
<1>4. \A x \in Mission : x # m => journal'[x] = journal[x]
  BY <1>1, <1>2
<1>5. journal'[m] = Append(journal[m], e) /\ journal[m] \in Seq(JournalEvent)
  BY <1>1, <1>2
<1>6. Events(m)' = Events(m) \cup {e}
  BY <1>5 DEF Events
<1>7. QED
  BY <1>3, <1>4, <1>6 DEF Events

\* The events of the run of a mission, as JournalEvent lists them.
LEMMA EventTypes ==
  /\ \A t \in {"mission.created", "route.decided", "security.evaluated",
             "runtime.completed", "memory.written", "artifact.created"} :
       Event(t) \in JournalEvent
  /\ \A v \in Verdicts \cup {"cancelled"} : Updated(v) \in JournalEvent
  /\ \A p \in Provider : /\ Issued(p) \in JournalEvent /\ Started(p) \in JournalEvent
                         /\ Failed(p) \in JournalEvent /\ FailedOver(p) \in JournalEvent
  BY DEF Event, Updated, Issued, Started, Failed, FailedOver, JournalEvent

\* The verdict is written with the state, and only a cancellation follows it.
LEMMA ConclusionStep == IInv /\ Next => ConclusionOK'
<1> SUFFICES ASSUME IInv, NEW m \in Mission, Submit(m) \/ Run(m) \/ Cancel(m) \/ PublishCancel(m)
             PROVE  ConclusionOK'
  BY DEF Next
<1>0. /\ ConclusionOK
      /\ pc \in [Mission -> Steps]
      /\ state \in [Mission -> {"absent", "running", "cancelled"} \cup Verdicts]
      /\ verdict \in [Mission -> Verdicts \cup {"none"}]
      /\ \A x \in Mission : result[x].status \in Verdicts
  BY DEF IInv, TypeOK, RecordsTyped, RunsTyped, Result, NoResult, Verdicts
<1> USE DEF ConclusionOK, Over, Verdicts, At, Goto, recordVars, runVars, cancelVars,
            storeVars
<1>1. CASE Submit(m)
  BY <1>0, <1>1 DEF Submit
<1>2. CASE PublishCreated(m)
  BY <1>0, <1>2 DEF PublishCreated
<1>3. CASE Route(m)
  BY <1>0, <1>3 DEF Route
<1>4. CASE EvaluateSecurity(m)
  BY <1>0, <1>4 DEF EvaluateSecurity
<1>5. CASE RecordRoute(m)
  BY <1>0, <1>5 DEF RecordRoute
<1>6. CASE FindCredential(m)
  BY <1>0, <1>6 DEF FindCredential
<1>7. CASE PutCredential(m)
  BY <1>0, <1>7 DEF PutCredential, NextCandidate, LastCandidate
<1>8. CASE PublishIssued(m)
  BY <1>0, <1>8 DEF PublishIssued
<1>9. CASE AssignProvider(m)
  BY <1>0, <1>9 DEF AssignProvider
<1>10. CASE PublishStarted(m)
  BY <1>0, <1>10 DEF PublishStarted
<1>11. CASE Execute(m)
  BY <1>0, <1>11 DEF Execute
<1>12. CASE PublishFailover(m)
  BY <1>0, <1>12 DEF PublishFailover
<1>13. CASE PublishFailed(m)
  BY <1>0, <1>13 DEF PublishFailed, NextCandidate, LastCandidate
<1>14. CASE RememberResult(m)
  BY <1>0, <1>14 DEF RememberResult
<1>15. CASE PublishCompleted(m)
  BY <1>0, <1>15 DEF PublishCompleted
<1>16. CASE PublishWritten(m)
  BY <1>0, <1>16 DEF PublishWritten
<1>17. CASE PutArtifact(m)
  BY <1>0, <1>17 DEF PutArtifact
<1>18. CASE PublishArtifact(m)
  BY <1>0, <1>18 DEF PublishArtifact
<1>19. CASE UpsertKnowledge(m)
  BY <1>0, <1>19 DEF UpsertKnowledge
<1>20. CASE AwaitApproval(m)
  BY <1>0, <1>20 DEF AwaitApproval, Conclude
<1>21. CASE ObserveOnly(m)
  BY <1>0, <1>21 DEF ObserveOnly, Conclude
<1>22. CASE Succeed(m)
  BY <1>0, <1>22 DEF Succeed, Conclude
<1>23. CASE SetMissionFailed(m)
  BY <1>0, <1>23 DEF SetMissionFailed, Conclude
<1>24. CASE PublishVerdict(m)
  BY <1>0, <1>24 DEF PublishVerdict
<1>25. CASE Cancel(m)
  BY <1>0, <1>25 DEF Cancel
<1>26. CASE PublishCancel(m)
  BY <1>0, <1>26 DEF PublishCancel
<1>27. QED
  BY <1>1, <1>2, <1>3, <1>4, <1>5, <1>6, <1>7, <1>8, <1>9, <1>10, <1>11, <1>12, <1>13,
     <1>14, <1>15, <1>16, <1>17, <1>18, <1>19, <1>20, <1>21, <1>22, <1>23, <1>24, <1>25, <1>26
     DEF Run, Routing, Trying, Storing, Concluding

\* The index of the failover loop stays inside the chain.
LEMMA ChainStep == IInv /\ Next => ChainOK'
<1> SUFFICES ASSUME IInv, NEW m \in Mission, Submit(m) \/ Run(m) \/ Cancel(m) \/ PublishCancel(m)
             PROVE  ChainOK'
  BY DEF Next
<1>0. /\ ChainOK
      /\ pc \in [Mission -> Steps]
      /\ chain \in [Mission -> Seq(Provider)]
      /\ rank \in [Mission -> Nat]
  BY DEF IInv, TypeOK, RunsTyped
<1> USE DEF ChainOK, InLoop, At, Goto, recordVars, runVars, cancelVars, storeVars
<1>1. CASE Submit(m)
  BY <1>0, <1>1, EveryChain DEF Submit
<1>2. CASE PublishCreated(m)
  BY <1>0, <1>2 DEF PublishCreated
<1>3. CASE Route(m)
  BY <1>0, <1>3, EveryChain DEF Route
<1>4. CASE EvaluateSecurity(m)
  BY <1>0, <1>4 DEF EvaluateSecurity
<1>5. CASE RecordRoute(m)
  BY <1>0, <1>5 DEF RecordRoute
<1>6. CASE FindCredential(m)
  BY <1>0, <1>6 DEF FindCredential
<1>7. CASE PutCredential(m)
  BY <1>0, <1>7 DEF PutCredential, NextCandidate, LastCandidate
<1>8. CASE PublishIssued(m)
  BY <1>0, <1>8 DEF PublishIssued
<1>9. CASE AssignProvider(m)
  BY <1>0, <1>9 DEF AssignProvider
<1>10. CASE PublishStarted(m)
  BY <1>0, <1>10 DEF PublishStarted
<1>11. CASE Execute(m)
  BY <1>0, <1>11 DEF Execute
<1>12. CASE PublishFailover(m)
  BY <1>0, <1>12 DEF PublishFailover
<1>13. CASE PublishFailed(m)
  BY <1>0, <1>13 DEF PublishFailed, NextCandidate, LastCandidate
<1>14. CASE RememberResult(m)
  BY <1>0, <1>14 DEF RememberResult
<1>15. CASE PublishCompleted(m)
  BY <1>0, <1>15 DEF PublishCompleted
<1>16. CASE PublishWritten(m)
  BY <1>0, <1>16 DEF PublishWritten
<1>17. CASE PutArtifact(m)
  BY <1>0, <1>17 DEF PutArtifact
<1>18. CASE PublishArtifact(m)
  BY <1>0, <1>18 DEF PublishArtifact
<1>19. CASE UpsertKnowledge(m)
  BY <1>0, <1>19 DEF UpsertKnowledge
<1>20. CASE AwaitApproval(m)
  BY <1>0, <1>20 DEF AwaitApproval, Conclude
<1>21. CASE ObserveOnly(m)
  BY <1>0, <1>21 DEF ObserveOnly, Conclude
<1>22. CASE Succeed(m)
  BY <1>0, <1>22 DEF Succeed, Conclude
<1>23. CASE SetMissionFailed(m)
  BY <1>0, <1>23 DEF SetMissionFailed, Conclude
<1>24. CASE PublishVerdict(m)
  BY <1>0, <1>24 DEF PublishVerdict
<1>25. CASE Cancel(m)
  BY <1>0, <1>25 DEF Cancel
<1>26. CASE PublishCancel(m)
  BY <1>0, <1>26 DEF PublishCancel
<1>27. QED
  BY <1>1, <1>2, <1>3, <1>4, <1>5, <1>6, <1>7, <1>8, <1>9, <1>10, <1>11, <1>12, <1>13,
     <1>14, <1>15, <1>16, <1>17, <1>18, <1>19, <1>20, <1>21, <1>22, <1>23, <1>24, <1>25, <1>26
     DEF Run, Routing, Trying, Storing, Concluding

\* Inside the failover loop the candidate is a provider.
LEMMA CandidateTyped ==
  ASSUME NEW m \in Mission, RunsTyped, ChainOK, pc[m] \in InLoop
  PROVE  Candidate(m) \in Provider
<1>1. chain[m] \in Seq(Provider) /\ rank[m] \in 1 .. Len(chain[m])
  BY DEF RunsTyped, ChainOK
<1>2. QED
  BY <1>1 DEF Candidate

\* A step of a mission publishes an event of that mission, or nothing.
LEMMA StepPublishes ==
  ASSUME IInv, NEW m \in Mission, Submit(m) \/ Run(m) \/ Cancel(m) \/ PublishCancel(m)
  PROVE  UNCHANGED journal \/ \E e \in JournalEvent : Publish(m, e)
<1>0. /\ pc[m] \in InLoop => Candidate(m) \in Provider
      /\ pc[m] = "report" => verdict[m] \in Verdicts
  BY CandidateTyped DEF IInv, TypeOK, ConclusionOK, Over
<1> USE DEF At, InLoop
<1>1. CASE Submit(m)
  BY <1>1 DEF Submit
<1>2. CASE PublishCreated(m)
  BY <1>0, <1>2, EventTypes DEF PublishCreated
<1>3. CASE Route(m)
  BY <1>0, <1>3, EventTypes DEF Route
<1>4. CASE EvaluateSecurity(m)
  BY <1>0, <1>4, EventTypes DEF EvaluateSecurity
<1>5. CASE RecordRoute(m)
  BY <1>5 DEF RecordRoute
<1>6. CASE FindCredential(m)
  BY <1>6 DEF FindCredential
<1>7. CASE PutCredential(m)
  BY <1>7 DEF PutCredential
<1>8. CASE PublishIssued(m)
  BY <1>0, <1>8, EventTypes DEF PublishIssued
<1>9. CASE AssignProvider(m)
  BY <1>9 DEF AssignProvider
<1>10. CASE PublishStarted(m)
  BY <1>0, <1>10, EventTypes DEF PublishStarted
<1>11. CASE Execute(m)
  BY <1>11 DEF Execute
<1>12. CASE PublishFailover(m)
  BY <1>0, <1>12, EventTypes DEF PublishFailover
<1>13. CASE PublishFailed(m)
  BY <1>0, <1>13, EventTypes DEF PublishFailed
<1>14. CASE RememberResult(m)
  BY <1>14 DEF RememberResult
<1>15. CASE PublishCompleted(m)
  BY <1>0, <1>15, EventTypes DEF PublishCompleted
<1>16. CASE PublishWritten(m)
  BY <1>0, <1>16, EventTypes DEF PublishWritten
<1>17. CASE PutArtifact(m)
  BY <1>17 DEF PutArtifact
<1>18. CASE PublishArtifact(m)
  BY <1>0, <1>18, EventTypes DEF PublishArtifact
<1>19. CASE UpsertKnowledge(m)
  BY <1>19 DEF UpsertKnowledge
<1>20. CASE AwaitApproval(m)
  BY <1>20 DEF AwaitApproval, Conclude
<1>21. CASE ObserveOnly(m)
  BY <1>21 DEF ObserveOnly, Conclude
<1>22. CASE Succeed(m)
  BY <1>22 DEF Succeed, Conclude
<1>23. CASE SetMissionFailed(m)
  BY <1>23 DEF SetMissionFailed, Conclude
<1>24. CASE PublishVerdict(m)
  BY <1>0, <1>24, EventTypes DEF PublishVerdict
<1>25. CASE Cancel(m)
  BY <1>25 DEF Cancel
<1>26. CASE PublishCancel(m)
  BY <1>0, <1>26, EventTypes DEF PublishCancel
<1>27. QED
  BY <1>1, <1>2, <1>3, <1>4, <1>5, <1>6, <1>7, <1>8, <1>9, <1>10, <1>11, <1>12, <1>13,
     <1>14, <1>15, <1>16, <1>17, <1>18, <1>19, <1>20, <1>21, <1>22, <1>23, <1>24, <1>25, <1>26
     DEF Run, Routing, Trying, Storing, Concluding

\* What an execution returned, before the first one too.
LEMMA ResultTyped ==
  ASSUME RunsTyped, NEW m \in Mission
  PROVE  /\ result[m].status \in Verdicts /\ result[m].cost \in Nat
         /\ result[m].output \in Output \cup {NoOutput}
<1>1. result[m] \in Result \cup {NoResult}
  BY DEF RunsTyped
<1>2. CASE result[m] \in Result
  BY <1>2, ChargeAssumption DEF Result, Verdicts
<1>3. CASE result[m] = NoResult
  BY <1>3 DEF NoResult, Verdicts
<1>4. QED
  BY <1>1, <1>2, <1>3

\* The mode of a mission is a spelling somebody gave it.
LEMMA ResolvedModeTyped == \A req \in Request : ResolveMode(req) \in Spelling
<1> SUFFICES ASSUME NEW req \in Request
             PROVE  ResolveMode(req) \in Spelling
  OBVIOUS
<1>1. req.mode \in Spelling
  BY RequestAssumption
<1>2. ParseMode(req.label) \in Spelling \cup {"invalid"}
  BY DEF ParseMode, Spelling
<1>3. FallbackMode \in Spelling
  BY DefaultModeAssumption DEF FallbackMode, Spelling
<1>4. QED
  BY <1>1, <1>2, <1>3 DEF ResolveMode

\* Going on to the next candidate, or giving up.
LEMMA NextCandidateTyped ==
  ASSUME RunsTyped, NEW m \in Mission, NextCandidate(m)
  PROVE  pc' \in [Mission -> Steps] /\ rank' \in [Mission -> Nat]
<1>0. pc \in [Mission -> Steps] /\ rank \in [Mission -> Nat]
  BY DEF RunsTyped
<1>1. CASE LastCandidate(m)
  BY <1>0, <1>1 DEF NextCandidate, Goto, Steps
<1>2. CASE ~LastCandidate(m)
  BY <1>0, <1>2 DEF NextCandidate, Goto, Steps
<1>3. QED
  BY <1>1, <1>2

\* What is published stays published, and what is written gets published.
LEMMA AnnouncementStep == IInv /\ Next => AnnouncementOK'
<1> SUFFICES ASSUME IInv, NEW m \in Mission, Submit(m) \/ Run(m) \/ Cancel(m) \/ PublishCancel(m)
             PROVE  AnnouncementOK'
  BY DEF Next
<1>0. /\ AnnouncementOK /\ ConclusionOK /\ JournalTyped
      /\ pc \in [Mission -> Steps]
      /\ state \in [Mission -> {"absent", "running", "cancelled"} \cup Verdicts]
      /\ verdict \in [Mission -> Verdicts \cup {"none"}]
      /\ cancels \in [Mission -> 0 .. MaxCancels]
      /\ pending \in [Mission -> 0 .. MaxCancels]
      /\ \A x \in Mission : result[x].status \in Verdicts
  BY DEF IInv, TypeOK, RecordsTyped, RunsTyped, CancelsTyped, Result, NoResult, Verdicts
<1>g. \A x \in Mission : Events(x) \subseteq Events(x)'
  <2>1. CASE UNCHANGED journal
    BY <2>1 DEF Events
  <2>2. ASSUME NEW e \in JournalEvent, Publish(m, e)
        PROVE  \A x \in Mission : Events(x) \subseteq Events(x)'
    BY <1>0, <2>2, PublishAppends
  <2>3. QED
    BY <2>1, <2>2, StepPublishes
<1> USE DEF AnnouncementOK, ConclusionOK, Over, Verdicts, At, Goto, recordVars, runVars,
            cancelVars, storeVars
<1>1. CASE Submit(m)
  BY <1>0, <1>g, <1>1 DEF Submit
<1>2. CASE PublishCreated(m)
  BY <1>0, <1>g, <1>2 DEF PublishCreated
<1>3. CASE Route(m)
  BY <1>0, <1>g, <1>3 DEF Route
<1>4. CASE EvaluateSecurity(m)
  BY <1>0, <1>g, <1>4 DEF EvaluateSecurity
<1>5. CASE RecordRoute(m)
  BY <1>0, <1>g, <1>5 DEF RecordRoute
<1>6. CASE FindCredential(m)
  BY <1>0, <1>g, <1>6 DEF FindCredential
<1>7. CASE PutCredential(m)
  BY <1>0, <1>g, <1>7 DEF PutCredential, NextCandidate, LastCandidate
<1>8. CASE PublishIssued(m)
  BY <1>0, <1>g, <1>8 DEF PublishIssued
<1>9. CASE AssignProvider(m)
  BY <1>0, <1>g, <1>9 DEF AssignProvider
<1>10. CASE PublishStarted(m)
  BY <1>0, <1>g, <1>10 DEF PublishStarted
<1>11. CASE Execute(m)
  BY <1>0, <1>g, <1>11 DEF Execute
<1>12. CASE PublishFailover(m)
  BY <1>0, <1>g, <1>12 DEF PublishFailover
<1>13. CASE PublishFailed(m)
  BY <1>0, <1>g, <1>13 DEF PublishFailed, NextCandidate, LastCandidate
<1>14. CASE RememberResult(m)
  BY <1>0, <1>g, <1>14 DEF RememberResult
<1>15. CASE PublishCompleted(m)
  BY <1>0, <1>g, <1>15 DEF PublishCompleted
<1>16. CASE PublishWritten(m)
  BY <1>0, <1>g, <1>16 DEF PublishWritten
<1>17. CASE PutArtifact(m)
  BY <1>0, <1>g, <1>17 DEF PutArtifact
<1>18. CASE PublishArtifact(m)
  BY <1>0, <1>g, <1>18 DEF PublishArtifact
<1>19. CASE UpsertKnowledge(m)
  BY <1>0, <1>g, <1>19 DEF UpsertKnowledge
<1>20. CASE AwaitApproval(m)
  BY <1>0, <1>g, <1>20 DEF AwaitApproval, Conclude
<1>21. CASE ObserveOnly(m)
  BY <1>0, <1>g, <1>21 DEF ObserveOnly, Conclude
<1>22. CASE Succeed(m)
  BY <1>0, <1>g, <1>22 DEF Succeed, Conclude
<1>23. CASE SetMissionFailed(m)
  BY <1>0, <1>g, <1>23 DEF SetMissionFailed, Conclude
<1>24. CASE PublishVerdict(m)
  <2>1. Updated(verdict[m]) \in JournalEvent /\ Publish(m, Updated(verdict[m]))
    BY <1>0, <1>24, EventTypes DEF PublishVerdict
  <2>2. Updated(verdict[m]) \in Events(m)'
    BY <1>0, <2>1, PublishAppends
  <2>3. QED
    BY <1>0, <1>g, <1>24, <2>2 DEF PublishVerdict
<1>25. CASE Cancel(m)
  BY <1>0, <1>g, <1>25 DEF Cancel
<1>26. CASE PublishCancel(m)
  <2>1. Updated("cancelled") \in JournalEvent /\ Publish(m, Updated("cancelled"))
    BY <1>0, <1>26, EventTypes DEF PublishCancel
  <2>2. Updated("cancelled") \in Events(m)'
    BY <1>0, <2>1, PublishAppends
  <2>3. QED
    BY <1>0, <1>g, <1>26, <2>2 DEF PublishCancel
<1>27. QED
  BY <1>1, <1>2, <1>3, <1>4, <1>5, <1>6, <1>7, <1>8, <1>9, <1>10, <1>11, <1>12, <1>13,
     <1>14, <1>15, <1>16, <1>17, <1>18, <1>19, <1>20, <1>21, <1>22, <1>23, <1>24, <1>25, <1>26
     DEF Run, Routing, Trying, Storing, Concluding

\* Each action keeps the types of the mission records.
LEMMA RecordsTypedStep == IInv /\ Next => RecordsTyped'
<1> SUFFICES ASSUME IInv, NEW m \in Mission, Submit(m) \/ Run(m) \/ Cancel(m) \/ PublishCancel(m)
             PROVE  RecordsTyped'
  BY DEF Next
<1>0. /\ RecordsTyped /\ RunsTyped
      /\ result[m].status \in Verdicts /\ result[m].cost \in Nat
      /\ pc[m] \in InLoop => Candidate(m) \in Provider
      /\ pc[m] = "record" => chain[m][1] \in Provider
  <2>1. RecordsTyped /\ RunsTyped /\ ChainOK
    BY DEF IInv, TypeOK
  <2>2. pc[m] = "record" => chain[m][1] \in Provider
    BY <2>1 DEF RunsTyped, ChainOK
  <2>3. QED
    BY <2>1, <2>2, CandidateTyped, ResultTyped
<1> USE DEF RecordsTyped, Verdicts, InLoop, At, Goto, recordVars, runVars, cancelVars,
            storeVars
<1>1. CASE Submit(m)
  BY <1>0, <1>1, ResolvedModeTyped DEF Submit
<1>2. CASE PublishCreated(m)
  BY <1>0, <1>2 DEF PublishCreated
<1>3. CASE Route(m)
  BY <1>0, <1>3 DEF Route
<1>4. CASE EvaluateSecurity(m)
  BY <1>0, <1>4 DEF EvaluateSecurity
<1>5. CASE RecordRoute(m)
  BY <1>0, <1>5 DEF RecordRoute
<1>6. CASE FindCredential(m)
  BY <1>0, <1>6 DEF FindCredential
<1>7. CASE PutCredential(m)
  BY <1>0, <1>7 DEF PutCredential, NextCandidate, LastCandidate
<1>8. CASE PublishIssued(m)
  BY <1>0, <1>8 DEF PublishIssued
<1>9. CASE AssignProvider(m)
  BY <1>0, <1>9 DEF AssignProvider
<1>10. CASE PublishStarted(m)
  BY <1>0, <1>10 DEF PublishStarted
<1>11. CASE Execute(m)
  BY <1>0, <1>11 DEF Execute
<1>12. CASE PublishFailover(m)
  BY <1>0, <1>12 DEF PublishFailover
<1>13. CASE PublishFailed(m)
  BY <1>0, <1>13 DEF PublishFailed, NextCandidate, LastCandidate
<1>14. CASE RememberResult(m)
  BY <1>0, <1>14 DEF RememberResult
<1>15. CASE PublishCompleted(m)
  BY <1>0, <1>15 DEF PublishCompleted
<1>16. CASE PublishWritten(m)
  BY <1>0, <1>16 DEF PublishWritten
<1>17. CASE PutArtifact(m)
  BY <1>0, <1>17 DEF PutArtifact
<1>18. CASE PublishArtifact(m)
  BY <1>0, <1>18 DEF PublishArtifact
<1>19. CASE UpsertKnowledge(m)
  BY <1>0, <1>19 DEF UpsertKnowledge
<1>20. CASE AwaitApproval(m)
  BY <1>0, <1>20 DEF AwaitApproval, Conclude
<1>21. CASE ObserveOnly(m)
  BY <1>0, <1>21 DEF ObserveOnly, Conclude
<1>22. CASE Succeed(m)
  BY <1>0, <1>22 DEF Succeed, Conclude
<1>23. CASE SetMissionFailed(m)
  BY <1>0, <1>23 DEF SetMissionFailed, Conclude
<1>24. CASE PublishVerdict(m)
  BY <1>0, <1>24 DEF PublishVerdict
<1>25. CASE Cancel(m)
  BY <1>0, <1>25 DEF Cancel
<1>26. CASE PublishCancel(m)
  BY <1>0, <1>26 DEF PublishCancel
<1>27. QED
  BY <1>1, <1>2, <1>3, <1>4, <1>5, <1>6, <1>7, <1>8, <1>9, <1>10, <1>11, <1>12, <1>13,
     <1>14, <1>15, <1>16, <1>17, <1>18, <1>19, <1>20, <1>21, <1>22, <1>23, <1>24, <1>25, <1>26
     DEF Run, Routing, Trying, Storing, Concluding

\* Each action keeps the types of the runs.
LEMMA RunsTypedStep == IInv /\ Next => RunsTyped'
<1> SUFFICES ASSUME IInv, NEW m \in Mission, Submit(m) \/ Run(m) \/ Cancel(m) \/ PublishCancel(m)
             PROVE  RunsTyped'
  BY DEF Next
<1>0. RunsTyped
  BY DEF IInv, TypeOK
<1> USE DEF RunsTyped, Verdicts, Steps, At, Goto, recordVars, runVars, cancelVars, storeVars
<1>1. CASE Submit(m)
  BY <1>0, <1>1, RequestAssumption DEF Submit
<1>2. CASE PublishCreated(m)
  BY <1>0, <1>2 DEF PublishCreated
<1>3. CASE Route(m)
  BY <1>0, <1>3, EveryChain DEF Route
<1>4. CASE EvaluateSecurity(m)
  BY <1>0, <1>4 DEF EvaluateSecurity
<1>5. CASE RecordRoute(m)
  BY <1>0, <1>5 DEF RecordRoute
<1>6. CASE FindCredential(m)
  BY <1>0, <1>6 DEF FindCredential
<1>7. CASE PutCredential(m)
  BY <1>0, <1>7, NextCandidateTyped DEF PutCredential
<1>8. CASE PublishIssued(m)
  BY <1>0, <1>8 DEF PublishIssued
<1>9. CASE AssignProvider(m)
  BY <1>0, <1>9 DEF AssignProvider
<1>10. CASE PublishStarted(m)
  BY <1>0, <1>10 DEF PublishStarted
<1>11. CASE Execute(m)
  BY <1>0, <1>11 DEF Execute
<1>12. CASE PublishFailover(m)
  BY <1>0, <1>12 DEF PublishFailover
<1>13. CASE PublishFailed(m)
  BY <1>0, <1>13, NextCandidateTyped DEF PublishFailed
<1>14. CASE RememberResult(m)
  BY <1>0, <1>14 DEF RememberResult
<1>15. CASE PublishCompleted(m)
  BY <1>0, <1>15 DEF PublishCompleted
<1>16. CASE PublishWritten(m)
  BY <1>0, <1>16 DEF PublishWritten
<1>17. CASE PutArtifact(m)
  BY <1>0, <1>17 DEF PutArtifact
<1>18. CASE PublishArtifact(m)
  BY <1>0, <1>18 DEF PublishArtifact
<1>19. CASE UpsertKnowledge(m)
  BY <1>0, <1>19 DEF UpsertKnowledge
<1>20. CASE AwaitApproval(m)
  BY <1>0, <1>20 DEF AwaitApproval, Conclude
<1>21. CASE ObserveOnly(m)
  BY <1>0, <1>21 DEF ObserveOnly, Conclude
<1>22. CASE Succeed(m)
  BY <1>0, <1>22 DEF Succeed, Conclude, Result, NoResult
<1>23. CASE SetMissionFailed(m)
  BY <1>0, <1>23 DEF SetMissionFailed, Conclude
<1>24. CASE PublishVerdict(m)
  BY <1>0, <1>24 DEF PublishVerdict
<1>25. CASE Cancel(m)
  BY <1>0, <1>25 DEF Cancel
<1>26. CASE PublishCancel(m)
  BY <1>0, <1>26 DEF PublishCancel
<1>27. QED
  BY <1>1, <1>2, <1>3, <1>4, <1>5, <1>6, <1>7, <1>8, <1>9, <1>10, <1>11, <1>12, <1>13,
     <1>14, <1>15, <1>16, <1>17, <1>18, <1>19, <1>20, <1>21, <1>22, <1>23, <1>24, <1>25, <1>26
     DEF Run, Routing, Trying, Storing, Concluding

\* Each action keeps the types of the cancellations.
LEMMA CancelsTypedStep == IInv /\ Next => CancelsTyped'
<1> SUFFICES ASSUME IInv, NEW m \in Mission, Submit(m) \/ Run(m) \/ Cancel(m) \/ PublishCancel(m)
             PROVE  CancelsTyped'
  BY DEF Next
<1>0. CancelsTyped /\ \A x \in Mission : pending[x] <= cancels[x]
  BY DEF IInv, TypeOK, AnnouncementOK
<1> USE DEF CancelsTyped, At, Goto, recordVars, runVars, cancelVars, storeVars
<1>1. CASE Submit(m)
  BY <1>0, <1>1 DEF Submit
<1>2. CASE PublishCreated(m)
  BY <1>0, <1>2 DEF PublishCreated
<1>3. CASE Route(m)
  BY <1>0, <1>3 DEF Route
<1>4. CASE EvaluateSecurity(m)
  BY <1>0, <1>4 DEF EvaluateSecurity
<1>5. CASE RecordRoute(m)
  BY <1>0, <1>5 DEF RecordRoute
<1>6. CASE FindCredential(m)
  BY <1>0, <1>6 DEF FindCredential
<1>7. CASE PutCredential(m)
  BY <1>0, <1>7 DEF PutCredential, NextCandidate, LastCandidate
<1>8. CASE PublishIssued(m)
  BY <1>0, <1>8 DEF PublishIssued
<1>9. CASE AssignProvider(m)
  BY <1>0, <1>9 DEF AssignProvider
<1>10. CASE PublishStarted(m)
  BY <1>0, <1>10 DEF PublishStarted
<1>11. CASE Execute(m)
  BY <1>0, <1>11 DEF Execute
<1>12. CASE PublishFailover(m)
  BY <1>0, <1>12 DEF PublishFailover
<1>13. CASE PublishFailed(m)
  BY <1>0, <1>13 DEF PublishFailed, NextCandidate, LastCandidate
<1>14. CASE RememberResult(m)
  BY <1>0, <1>14 DEF RememberResult
<1>15. CASE PublishCompleted(m)
  BY <1>0, <1>15 DEF PublishCompleted
<1>16. CASE PublishWritten(m)
  BY <1>0, <1>16 DEF PublishWritten
<1>17. CASE PutArtifact(m)
  BY <1>0, <1>17 DEF PutArtifact
<1>18. CASE PublishArtifact(m)
  BY <1>0, <1>18 DEF PublishArtifact
<1>19. CASE UpsertKnowledge(m)
  BY <1>0, <1>19 DEF UpsertKnowledge
<1>20. CASE AwaitApproval(m)
  BY <1>0, <1>20 DEF AwaitApproval, Conclude
<1>21. CASE ObserveOnly(m)
  BY <1>0, <1>21 DEF ObserveOnly, Conclude
<1>22. CASE Succeed(m)
  BY <1>0, <1>22 DEF Succeed, Conclude
<1>23. CASE SetMissionFailed(m)
  BY <1>0, <1>23 DEF SetMissionFailed, Conclude
<1>24. CASE PublishVerdict(m)
  BY <1>0, <1>24 DEF PublishVerdict
<1>25. CASE Cancel(m)
  BY <1>0, <1>25, MaxCancelsAssumption DEF Cancel
<1>26. CASE PublishCancel(m)
  BY <1>0, <1>26, MaxCancelsAssumption DEF PublishCancel
<1>27. QED
  BY <1>1, <1>2, <1>3, <1>4, <1>5, <1>6, <1>7, <1>8, <1>9, <1>10, <1>11, <1>12, <1>13,
     <1>14, <1>15, <1>16, <1>17, <1>18, <1>19, <1>20, <1>21, <1>22, <1>23, <1>24, <1>25, <1>26
     DEF Run, Routing, Trying, Storing, Concluding

\* Each action keeps the types of the stores.
LEMMA StoresTypedStep == IInv /\ Next => StoresTyped'
<1> SUFFICES ASSUME IInv, NEW m \in Mission, Submit(m) \/ Run(m) \/ Cancel(m) \/ PublishCancel(m)
             PROVE  StoresTyped'
  BY DEF Next
<1>0. StoresTyped
  BY DEF IInv, TypeOK
<1> USE DEF StoresTyped, At, Goto, recordVars, runVars, cancelVars, storeVars
<1>1. CASE Submit(m)
  BY <1>0, <1>1 DEF Submit
<1>2. CASE PublishCreated(m)
  BY <1>0, <1>2 DEF PublishCreated
<1>3. CASE Route(m)
  BY <1>0, <1>3 DEF Route
<1>4. CASE EvaluateSecurity(m)
  BY <1>0, <1>4 DEF EvaluateSecurity
<1>5. CASE RecordRoute(m)
  BY <1>0, <1>5 DEF RecordRoute
<1>6. CASE FindCredential(m)
  BY <1>0, <1>6 DEF FindCredential
<1>7. CASE PutCredential(m)
  BY <1>0, <1>7 DEF PutCredential, NextCandidate, LastCandidate
<1>8. CASE PublishIssued(m)
  BY <1>0, <1>8 DEF PublishIssued
<1>9. CASE AssignProvider(m)
  BY <1>0, <1>9 DEF AssignProvider
<1>10. CASE PublishStarted(m)
  BY <1>0, <1>10 DEF PublishStarted
<1>11. CASE Execute(m)
  BY <1>0, <1>11 DEF Execute
<1>12. CASE PublishFailover(m)
  BY <1>0, <1>12 DEF PublishFailover
<1>13. CASE PublishFailed(m)
  BY <1>0, <1>13 DEF PublishFailed, NextCandidate, LastCandidate
<1>14. CASE RememberResult(m)
  BY <1>0, <1>14 DEF RememberResult
<1>15. CASE PublishCompleted(m)
  BY <1>0, <1>15 DEF PublishCompleted
<1>16. CASE PublishWritten(m)
  BY <1>0, <1>16 DEF PublishWritten
<1>17. CASE PutArtifact(m)
  BY <1>0, <1>17 DEF PutArtifact
<1>18. CASE PublishArtifact(m)
  BY <1>0, <1>18 DEF PublishArtifact
<1>19. CASE UpsertKnowledge(m)
  BY <1>0, <1>19 DEF UpsertKnowledge
<1>20. CASE AwaitApproval(m)
  BY <1>0, <1>20 DEF AwaitApproval, Conclude
<1>21. CASE ObserveOnly(m)
  BY <1>0, <1>21 DEF ObserveOnly, Conclude
<1>22. CASE Succeed(m)
  BY <1>0, <1>22 DEF Succeed, Conclude
<1>23. CASE SetMissionFailed(m)
  BY <1>0, <1>23 DEF SetMissionFailed, Conclude
<1>24. CASE PublishVerdict(m)
  BY <1>0, <1>24 DEF PublishVerdict
<1>25. CASE Cancel(m)
  BY <1>0, <1>25 DEF Cancel
<1>26. CASE PublishCancel(m)
  BY <1>0, <1>26 DEF PublishCancel
<1>27. QED
  BY <1>1, <1>2, <1>3, <1>4, <1>5, <1>6, <1>7, <1>8, <1>9, <1>10, <1>11, <1>12, <1>13,
     <1>14, <1>15, <1>16, <1>17, <1>18, <1>19, <1>20, <1>21, <1>22, <1>23, <1>24, <1>25, <1>26
     DEF Run, Routing, Trying, Storing, Concluding

\* Each action keeps the types of the journal and of the accounts.
LEMMA JournalTypedStep == IInv /\ Next => JournalTyped'
<1> SUFFICES ASSUME IInv, NEW m \in Mission, Submit(m) \/ Run(m) \/ Cancel(m) \/ PublishCancel(m)
             PROVE  JournalTyped'
  BY DEF Next
<1>0. /\ journal' \in [Mission -> Seq(JournalEvent)]
      /\ spent \in [Mission -> Nat]
  <2>1. JournalTyped
    BY DEF IInv, TypeOK
  <2>2. ASSUME UNCHANGED journal
        PROVE  journal' \in [Mission -> Seq(JournalEvent)]
    BY <2>1, <2>2 DEF JournalTyped
  <2>3. ASSUME NEW e \in JournalEvent, Publish(m, e)
        PROVE  journal' \in [Mission -> Seq(JournalEvent)]
    BY <2>1, <2>3, PublishAppends
  <2>4. journal' \in [Mission -> Seq(JournalEvent)]
    BY <2>2, <2>3, StepPublishes
  <2>5. QED
    BY <2>1, <2>4 DEF JournalTyped
<1> USE DEF JournalTyped
<1>1. CASE Submit(m)
  BY <1>0, <1>1 DEF Submit
<1>2. CASE PublishCreated(m)
  BY <1>0, <1>2 DEF PublishCreated
<1>3. CASE Route(m)
  BY <1>0, <1>3 DEF Route
<1>4. CASE EvaluateSecurity(m)
  BY <1>0, <1>4 DEF EvaluateSecurity
<1>5. CASE RecordRoute(m)
  BY <1>0, <1>5 DEF RecordRoute
<1>6. CASE FindCredential(m)
  BY <1>0, <1>6 DEF FindCredential
<1>7. CASE PutCredential(m)
  BY <1>0, <1>7 DEF PutCredential, NextCandidate, LastCandidate
<1>8. CASE PublishIssued(m)
  BY <1>0, <1>8 DEF PublishIssued
<1>9. CASE AssignProvider(m)
  BY <1>0, <1>9 DEF AssignProvider
<1>10. CASE PublishStarted(m)
  BY <1>0, <1>10 DEF PublishStarted
<1>11. CASE Execute(m)
  <2>1. PICK r \in Result : spent' = [spent EXCEPT ![m] = @ + r.cost]
    BY <1>11 DEF Execute
  <2>2. r.cost \in Nat
    BY ChargeAssumption DEF Result
  <2>3. QED
    BY <1>0, <2>1, <2>2
<1>12. CASE PublishFailover(m)
  BY <1>0, <1>12 DEF PublishFailover
<1>13. CASE PublishFailed(m)
  BY <1>0, <1>13 DEF PublishFailed, NextCandidate, LastCandidate
<1>14. CASE RememberResult(m)
  BY <1>0, <1>14 DEF RememberResult
<1>15. CASE PublishCompleted(m)
  BY <1>0, <1>15 DEF PublishCompleted
<1>16. CASE PublishWritten(m)
  BY <1>0, <1>16 DEF PublishWritten
<1>17. CASE PutArtifact(m)
  BY <1>0, <1>17 DEF PutArtifact
<1>18. CASE PublishArtifact(m)
  BY <1>0, <1>18 DEF PublishArtifact
<1>19. CASE UpsertKnowledge(m)
  BY <1>0, <1>19 DEF UpsertKnowledge
<1>20. CASE AwaitApproval(m)
  BY <1>0, <1>20 DEF AwaitApproval, Conclude
<1>21. CASE ObserveOnly(m)
  BY <1>0, <1>21 DEF ObserveOnly, Conclude
<1>22. CASE Succeed(m)
  BY <1>0, <1>22 DEF Succeed, Conclude
<1>23. CASE SetMissionFailed(m)
  BY <1>0, <1>23 DEF SetMissionFailed, Conclude
<1>24. CASE PublishVerdict(m)
  BY <1>0, <1>24 DEF PublishVerdict
<1>25. CASE Cancel(m)
  BY <1>0, <1>25 DEF Cancel
<1>26. CASE PublishCancel(m)
  BY <1>0, <1>26 DEF PublishCancel
<1>27. QED
  BY <1>1, <1>2, <1>3, <1>4, <1>5, <1>6, <1>7, <1>8, <1>9, <1>10, <1>11, <1>12, <1>13,
     <1>14, <1>15, <1>16, <1>17, <1>18, <1>19, <1>20, <1>21, <1>22, <1>23, <1>24, <1>25, <1>26
     DEF Run, Routing, Trying, Storing, Concluding

-----------------------------------------------------------------------------

\* Before the first submission there is nothing to go wrong.
LEMMA InitIInv == Init => IInv
<1> SUFFICES ASSUME Init
             PROVE  IInv
  OBVIOUS
<1>1. RecordsTyped
  BY DEF Init, RecordsTyped, Spelling
<1>2. RunsTyped
  <2>1. /\ pc = [m \in Mission |-> "absent"]
        /\ request = [m \in Mission |-> NoRequest]
        /\ chain = [m \in Mission |-> <<>>]
        /\ rank = [m \in Mission |-> 0]
        /\ result = [m \in Mission |-> NoResult]
        /\ verdict = [m \in Mission |-> "none"]
    BY DEF Init
  <2>2. QED
    BY <2>1 DEF RunsTyped, Steps
<1>3. CancelsTyped
  <2>1. cancels = [m \in Mission |-> 0] /\ pending = [m \in Mission |-> 0]
    BY DEF Init
  <2>2. QED
    BY <2>1, MaxCancelsAssumption DEF CancelsTyped
<1>4. StoresTyped
  <2>1. /\ creds \in [Provider -> {0, 1}] /\ memory = {}
        /\ artifacts = [o \in Output |-> NoMission] /\ knowledge = {}
    BY DEF Init
  <2>2. QED
    BY <2>1 DEF StoresTyped
<1>5. JournalTyped
  <2>1. journal = [m \in Mission |-> <<>>] /\ spent = [m \in Mission |-> 0]
    BY DEF Init
  <2>2. QED
    BY <2>1 DEF JournalTyped
<1>6. ChainOK
  BY DEF Init, ChainOK, InLoop
<1>7. ConclusionOK
  BY DEF Init, ConclusionOK, Over
<1>8. AnnouncementOK
  <2>1. \A m \in Mission : /\ pc[m] = "absent" /\ state[m] = "absent"
                         /\ pending[m] = 0 /\ cancels[m] = 0
    BY DEF Init
  <2>2. QED
    BY <2>1 DEF AnnouncementOK
<1>9. QED
  BY <1>1, <1>2, <1>3, <1>4, <1>5, <1>6, <1>7, <1>8 DEF IInv, TypeOK

\* A step that changes nothing keeps the invariant.
LEMMA StutterIInv == IInv /\ UNCHANGED vars => IInv'
<1> SUFFICES ASSUME IInv, UNCHANGED vars
             PROVE  IInv'
  OBVIOUS
<1> USE DEF vars, recordVars, runVars, cancelVars, storeVars
<1>1. TypeOK'
  BY DEF IInv, TypeOK, RecordsTyped, RunsTyped, CancelsTyped, StoresTyped, JournalTyped
<1>2. ChainOK'
  BY DEF IInv, ChainOK
<1>3. ConclusionOK'
  BY DEF IInv, ConclusionOK
<1>4. AnnouncementOK'
  BY DEF IInv, AnnouncementOK, Events
<1>5. QED
  BY <1>1, <1>2, <1>3, <1>4 DEF IInv

\* The inductive invariant: it holds of every state the kernel can reach.
THEOREM Invariance == Spec => []IInv
<1>1. Init => IInv
  BY InitIInv
<1>2. IInv /\ [Next]_vars => IInv'
  <2> SUFFICES ASSUME IInv, [Next]_vars
               PROVE  IInv'
    OBVIOUS
  <2>1. CASE Next
    <3>1. TypeOK'
      BY <2>1, RecordsTypedStep, RunsTypedStep, CancelsTypedStep, StoresTypedStep,
         JournalTypedStep DEF TypeOK
    <3>2. QED
      BY <2>1, <3>1, ChainStep, ConclusionStep, AnnouncementStep DEF IInv
  <2>2. CASE UNCHANGED vars
    BY <2>2, StutterIInv
  <2>3. QED
    BY <2>1, <2>2
<1>3. QED
  BY <1>1, <1>2, PTL DEF Spec

\* Records, runs, cancellations, stores and journal keep their types (host.go:36-66),
\* whatever missions, providers and policy there are.
THEOREM TypeCorrect == Spec => []TypeOK
<1>1. IInv => TypeOK
  BY DEF IInv
<1>2. QED
  BY <1>1, Invariance, PTL

\* Every way out of executeMission leaves a record that is not "running"
\* (kernel.go:354-358, 457-755): the state is the run's verdict or "cancelled".
THEOREM RunsEndWithAVerdict == Spec => []NoOrphanRun
<1>1. IInv => NoOrphanRun
  BY DEF IInv, ConclusionOK, NoOrphanRun, Over, Verdicts
<1>2. QED
  BY <1>1, Invariance, PTL

\* When the run and the cancellations of a mission are through, the state in its
\* record has been announced to subscribers (kernel.go:738-753, 757-788).
THEOREM StatesAreAnnounced == Spec => []StateAnnounced
<1>1. IInv => StateAnnounced
  <2> SUFFICES ASSUME IInv, NEW m \in Mission, pc[m] = "done", pending[m] = 0
               PROVE  Updated(state[m]) \in Events(m)
    BY DEF StateAnnounced
  <2>1. state[m] \in {verdict[m], "cancelled"}
    BY DEF IInv, ConclusionOK, Over
  <2>2. Updated(verdict[m]) \in Events(m)
    BY DEF IInv, AnnouncementOK
  <2>3. state[m] = "cancelled" => Updated("cancelled") \in Events(m)
    BY DEF IInv, AnnouncementOK
  <2>4. QED
    BY <2>1, <2>2, <2>3
<1>2. QED
  BY <1>1, Invariance, PTL

-----------------------------------------------------------------------------
\* The state of missions over one step

StateStep ==
  \A m \in Mission :
    /\ verdict[m] # "none" /\ state'[m] # state[m] => state'[m] = "cancelled"
    /\ state[m] # "absent" => state'[m] # "absent"

\* Once the verdict is written only a cancellation changes the state of the mission.
LEMMA ConclusionStays == IInv /\ Next => StateStep
<1> SUFFICES ASSUME IInv, NEW m \in Mission, Submit(m) \/ Run(m) \/ Cancel(m) \/ PublishCancel(m)
             PROVE  StateStep
  BY DEF Next
<1>0. /\ ConclusionOK
      /\ pc \in [Mission -> Steps]
      /\ state \in [Mission -> {"absent", "running", "cancelled"} \cup Verdicts]
      /\ verdict \in [Mission -> Verdicts \cup {"none"}]
      /\ \A x \in Mission : result[x].status \in Verdicts
  BY ResultTyped DEF IInv, TypeOK, RecordsTyped, RunsTyped
<1> USE DEF StateStep, ConclusionOK, Over, Verdicts, At, Goto, recordVars, runVars,
            cancelVars, storeVars
<1>1. CASE Submit(m)
  BY <1>0, <1>1 DEF Submit
<1>2. CASE PublishCreated(m)
  BY <1>0, <1>2 DEF PublishCreated
<1>3. CASE Route(m)
  BY <1>0, <1>3 DEF Route
<1>4. CASE EvaluateSecurity(m)
  BY <1>0, <1>4 DEF EvaluateSecurity
<1>5. CASE RecordRoute(m)
  BY <1>0, <1>5 DEF RecordRoute
<1>6. CASE FindCredential(m)
  BY <1>0, <1>6 DEF FindCredential
<1>7. CASE PutCredential(m)
  BY <1>0, <1>7 DEF PutCredential, NextCandidate, LastCandidate
<1>8. CASE PublishIssued(m)
  BY <1>0, <1>8 DEF PublishIssued
<1>9. CASE AssignProvider(m)
  BY <1>0, <1>9 DEF AssignProvider
<1>10. CASE PublishStarted(m)
  BY <1>0, <1>10 DEF PublishStarted
<1>11. CASE Execute(m)
  BY <1>0, <1>11 DEF Execute
<1>12. CASE PublishFailover(m)
  BY <1>0, <1>12 DEF PublishFailover
<1>13. CASE PublishFailed(m)
  BY <1>0, <1>13 DEF PublishFailed, NextCandidate, LastCandidate
<1>14. CASE RememberResult(m)
  BY <1>0, <1>14 DEF RememberResult
<1>15. CASE PublishCompleted(m)
  BY <1>0, <1>15 DEF PublishCompleted
<1>16. CASE PublishWritten(m)
  BY <1>0, <1>16 DEF PublishWritten
<1>17. CASE PutArtifact(m)
  BY <1>0, <1>17 DEF PutArtifact
<1>18. CASE PublishArtifact(m)
  BY <1>0, <1>18 DEF PublishArtifact
<1>19. CASE UpsertKnowledge(m)
  BY <1>0, <1>19 DEF UpsertKnowledge
<1>20. CASE AwaitApproval(m)
  BY <1>0, <1>20 DEF AwaitApproval, Conclude
<1>21. CASE ObserveOnly(m)
  BY <1>0, <1>21 DEF ObserveOnly, Conclude
<1>22. CASE Succeed(m)
  BY <1>0, <1>22 DEF Succeed, Conclude
<1>23. CASE SetMissionFailed(m)
  BY <1>0, <1>23 DEF SetMissionFailed, Conclude
<1>24. CASE PublishVerdict(m)
  BY <1>0, <1>24 DEF PublishVerdict
<1>25. CASE Cancel(m)
  BY <1>0, <1>25 DEF Cancel
<1>26. CASE PublishCancel(m)
  BY <1>0, <1>26 DEF PublishCancel
<1>27. QED
  BY <1>1, <1>2, <1>3, <1>4, <1>5, <1>6, <1>7, <1>8, <1>9, <1>10, <1>11, <1>12, <1>13,
     <1>14, <1>15, <1>16, <1>17, <1>18, <1>19, <1>20, <1>21, <1>22, <1>23, <1>24, <1>25, <1>26
     DEF Run, Routing, Trying, Storing, Concluding

\* Once a run has written its final state, only a cancellation changes the state of
\* the mission, and no mission is ever forgotten (kernel.go:757-788).
THEOREM OnlyCancellationsAfterwards == Spec => OnlyCancelAfterConclusion
<1>1. IInv /\ [Next]_vars => [StateStep]_vars
  BY ConclusionStays
<1>2. [][StateStep]_vars => OnlyCancelAfterConclusion
  BY PTL DEF OnlyCancelAfterConclusion, StateStep
<1>3. QED
  BY <1>1, <1>2, Invariance, PTL DEF Spec

-----------------------------------------------------------------------------
(* What a run has journalled, where it is in the chain and what it leaves  *)
(* behind.                                                                 *)

Early == {"absent", "created", "route", "secure", "record", "await", "observe"}
Untried == {"lookup", "issue", "issued", "assign", "start"}
Executing == {"execute", "failover", "failed"}
After == {"policy", "completed", "written", "artifact", "stored", "knowledge", "succeed"}

Allowed(m) == AllowExecute(mode[m], request[m].external)

\* The run has ended after an execution that succeeded.
Ran(m) == pc[m] \in Over /\ verdict[m] = "succeeded" /\ Allowed(m)

\* It has a candidate whose execution has not failed.
Going(m) == pc[m] \in InLoop \cup After \/ Ran(m)

Distinct(m) == chain[m] \in Chains \cup {<<>>} /\ (Going(m) => rank[m] \in 1 .. Len(chain[m]))

\* Nothing is executed before the failover loop.
Silent(m) == pc[m] \in Early => Executions(m) = {} /\ \A p \in Provider : Failed(p) \notin Events(m)

\* Every execution was one of a candidate up to the current one; that of an earlier one is
\* followed by its failure, and that of the current one comes with its start.
Placed(m) ==
  \A i \in Executions(m) : \E x \in DOMAIN chain[m] :
    /\ journal[m][i][2] = chain[m][x]
    /\ x <= rank[m]
    /\ x = rank[m] => pc[m] \notin Untried
    /\ x < rank[m] => \E k \in DOMAIN journal[m] : k >= i /\ journal[m][k] = Failed(chain[m][x])

InOrder(m) ==
  \A i, j \in Executions(m) :
    i < j =>
      /\ \E k \in i .. j : journal[m][k] = Failed(journal[m][i][2])
      /\ \E x, y \in DOMAIN chain[m] :
           x < y /\ chain[m][x] = journal[m][i][2] /\ chain[m][y] = journal[m][j][2]

\* Only candidates before the current one have failed.
FailedBefore(m) ==
  Going(m) =>
    \A p \in Provider : Failed(p) \in Events(m) =>
      \E x \in DOMAIN chain[m] : x < rank[m] /\ chain[m][x] = p

\* The record names the candidate that is executed, and only missions that may be executed
\* are.
OnCandidate(m) ==
  /\ Going(m) => Allowed(m)
  /\ pc[m] = "observe" => ~ Allowed(m)
  /\ pc[m] \in {"start"} \cup Executing \cup After \/ Ran(m) => providerID[m] = Candidate(m)
  /\ pc[m] \in Executing \cup After \/ Ran(m) => Started(Candidate(m)) \in Events(m)
  /\ pc[m] \in {"failover"} \cup After \/ Ran(m) => result[m].status = "succeeded"

\* Memory, knowledge and artifacts are written one after the other once the limits have
\* been applied, and stay written.
LeftBehind(m) ==
  /\ m \in memory <=> pc[m] \in After \ {"policy"} \/ Ran(m)
  /\ m \in memory => WithinPolicy(result[m])
  /\ m \in knowledge <=> pc[m] = "succeed" \/ Ran(m)
  /\ (\E o \in Output : artifacts[o] = m) => pc[m] \in {"stored", "knowledge", "succeed"} \/ Ran(m)
  /\ Ran(m) => costUSD[m] = result[m].cost

JournalInv(m) == Distinct(m) /\ Silent(m) /\ Placed(m) /\ InOrder(m) /\ FailedBefore(m)
EffectInv(m) == OnCandidate(m) /\ LeftBehind(m)

RunInv == \A m \in Mission : JournalInv(m) /\ EffectInv(m)

\* What is known of a mission when no step of it is taken: nothing of it changes, except that
\* another mission's artifact may take the place of its own.
Same(k) ==
  /\ pc'[k] = pc[k] /\ mode'[k] = mode[k] /\ request'[k] = request[k]
  /\ providerID'[k] = providerID[k] /\ costUSD'[k] = costUSD[k]
  /\ chain'[k] = chain[k] /\ rank'[k] = rank[k]
  /\ result'[k] = result[k] /\ verdict'[k] = verdict[k]
  /\ journal'[k] = journal[k]
  /\ k \in memory' <=> k \in memory
  /\ k \in knowledge' <=> k \in knowledge
  /\ \A o \in Output : artifacts'[o] = k => artifacts[o] = k

LEMMA OthersStay ==
  ASSUME IInv, NEW m \in Mission, NEW k \in Mission, k # m,
         Submit(m) \/ Run(m) \/ Cancel(m) \/ PublishCancel(m)
  PROVE  Same(k)
<1>0. TypeOK
  BY DEF IInv
<1> USE DEF TypeOK, RecordsTyped, RunsTyped, StoresTyped, JournalTyped, Same, Goto, Publish,
            recordVars, runVars, cancelVars, storeVars
<1>1. CASE Submit(m)
  BY <1>0, <1>1 DEF Submit
<1>2. CASE PublishCreated(m)
  BY <1>0, <1>2 DEF PublishCreated
<1>3. CASE Route(m)
  BY <1>0, <1>3 DEF Route
<1>4. CASE EvaluateSecurity(m)
  BY <1>0, <1>4 DEF EvaluateSecurity
<1>5. CASE RecordRoute(m)
  BY <1>0, <1>5 DEF RecordRoute
<1>6. CASE FindCredential(m)
  BY <1>0, <1>6 DEF FindCredential
<1>7. CASE PutCredential(m)
  BY <1>0, <1>7 DEF PutCredential, NextCandidate, LastCandidate
<1>8. CASE PublishIssued(m)
  BY <1>0, <1>8 DEF PublishIssued
<1>9. CASE AssignProvider(m)
  BY <1>0, <1>9 DEF AssignProvider
<1>10. CASE PublishStarted(m)
  BY <1>0, <1>10 DEF PublishStarted
<1>11. CASE Execute(m)
  BY <1>0, <1>11 DEF Execute
<1>12. CASE PublishFailover(m)
  BY <1>0, <1>12 DEF PublishFailover
<1>13. CASE PublishFailed(m)
  BY <1>0, <1>13 DEF PublishFailed, NextCandidate, LastCandidate
<1>14. CASE RememberResult(m)
  BY <1>0, <1>14 DEF RememberResult
<1>15. CASE PublishCompleted(m)
  BY <1>0, <1>15 DEF PublishCompleted
<1>16. CASE PublishWritten(m)
  BY <1>0, <1>16 DEF PublishWritten
<1>17. CASE PutArtifact(m)
  BY <1>0, <1>17, ResultTyped DEF PutArtifact, At
<1>18. CASE PublishArtifact(m)
  BY <1>0, <1>18 DEF PublishArtifact
<1>19. CASE UpsertKnowledge(m)
  BY <1>0, <1>19 DEF UpsertKnowledge
<1>20. CASE AwaitApproval(m)
  BY <1>0, <1>20 DEF AwaitApproval, Conclude
<1>21. CASE ObserveOnly(m)
  BY <1>0, <1>21 DEF ObserveOnly, Conclude
<1>22. CASE Succeed(m)
  BY <1>0, <1>22 DEF Succeed, Conclude
<1>23. CASE SetMissionFailed(m)
  BY <1>0, <1>23 DEF SetMissionFailed, Conclude
<1>24. CASE PublishVerdict(m)
  BY <1>0, <1>24 DEF PublishVerdict
<1>25. CASE Cancel(m)
  BY <1>0, <1>25 DEF Cancel
<1>26. CASE PublishCancel(m)
  BY <1>0, <1>26 DEF PublishCancel
<1>27. QED
  BY <1>1, <1>2, <1>3, <1>4, <1>5, <1>6, <1>7, <1>8, <1>9, <1>10, <1>11, <1>12, <1>13,
     <1>14, <1>15, <1>16, <1>17, <1>18, <1>19, <1>20, <1>21, <1>22, <1>23, <1>24, <1>25,
     <1>26
     DEF Run, Routing, Trying, Storing, Concluding

\* Nothing is journalled that says that a candidate was started or has failed.
Quiet(k) ==
  /\ DOMAIN journal[k] \subseteq DOMAIN journal'[k]
  /\ \A i \in DOMAIN journal[k] : journal'[k][i] = journal[k][i]
  /\ Executions(k)' = Executions(k)
  /\ \A p \in Provider : /\ Failed(p) \in Events(k)' <=> Failed(p) \in Events(k)
                         /\ Started(p) \in Events(k) => Started(p) \in Events(k)'

LEMMA QuietUnchanged ==
  ASSUME NEW k \in Mission, journal'[k] = journal[k]
  PROVE  Quiet(k)
BY DEF Quiet, Executions, Events

LEMMA QuietPublish ==
  ASSUME JournalTyped, NEW m \in Mission, NEW e \in JournalEvent,
         e[1] \notin {"runtime.started", "provider.failed"}, Publish(m, e)
  PROVE  Quiet(m)
<1> DEFINE old == journal[m]
           new == journal'[m]
<1>1. old \in Seq(JournalEvent) /\ new = Append(old, e)
  BY DEF JournalTyped, Publish
<1>2. /\ DOMAIN new = 1 .. Len(old) + 1 /\ DOMAIN old = 1 .. Len(old) /\ Len(old) \in Nat
      /\ \A i \in 1 .. Len(old) : new[i] = old[i]
      /\ new[Len(old) + 1] = e
  BY <1>1
<1> HIDE DEF old, new
<1>3. Executions(m)' = Executions(m)
  <2>1. /\ Executions(m)' = {i \in DOMAIN new : new[i][1] = "runtime.started"}
        /\ Executions(m) = {i \in DOMAIN old : old[i][1] = "runtime.started"}
    BY DEF Executions, old, new
  <2>2. QED
    BY <1>2, <2>1
<1>4. Events(m)' = Events(m) \cup {e}
  BY PublishAppends
<1>5. \A p \in Provider : Failed(p) # e
  BY DEF Failed
<1>6. QED
  BY <1>2, <1>3, <1>4, <1>5 DEF Quiet, old, new

\* A step of which the journal's order hears nothing.
Calm(k) ==
  /\ Quiet(k)
  /\ chain'[k] = chain[k] /\ rank'[k] = rank[k]
  /\ pc'[k] \in Early => pc[k] \in Early
  /\ pc'[k] \in Untried => pc[k] \in Untried
  /\ Going(k)' => Going(k)

LEMMA SameIsCalm ==
  ASSUME NEW k \in Mission, Same(k)
  PROVE  Calm(k)
BY QuietUnchanged DEF Same, Calm, Going, Ran, Allowed

LEMMA CalmSteps ==
  ASSUME IInv, RunInv, NEW m \in Mission, Submit(m) \/ Run(m) \/ Cancel(m) \/ PublishCancel(m),
         ~ (Route(m) \/ RecordRoute(m) \/ PutCredential(m) \/ PublishStarted(m) \/ PublishFailed(m))
  PROVE  Calm(m)
<1>0. /\ JournalTyped /\ ConclusionOK
      /\ pc \in [Mission -> Steps] /\ verdict \in [Mission -> Verdicts \cup {"none"}]
      /\ chain \in [Mission -> Seq(Provider)] /\ rank \in [Mission -> Nat]
      /\ mode \in [Mission -> Spelling]
      /\ OnCandidate(m) /\ LeftBehind(m)
  BY DEF IInv, TypeOK, RunsTyped, RecordsTyped, RunInv, EffectInv
<1>0b. /\ \A e \in JournalEvent : e[1] \notin {"runtime.started", "provider.failed"} /\ Publish(m, e)
                                    => Quiet(m)
       /\ UNCHANGED journal => Quiet(m)
  BY <1>0, QuietPublish, QuietUnchanged
<1>0c. /\ \A t \in {"mission.created", "route.decided", "security.evaluated",
                     "runtime.completed", "memory.written", "artifact.created"} :
             Event(t) \in JournalEvent /\ Event(t)[1] \notin {"runtime.started", "provider.failed"}
        /\ \A v \in Verdicts \cup {"cancelled"} :
             Updated(v) \in JournalEvent /\ Updated(v)[1] = "mission.updated"
        /\ \A p \in Provider : /\ Issued(p) \in JournalEvent /\ Issued(p)[1] = "credential.issued"
                               /\ FailedOver(p) \in JournalEvent
                               /\ FailedOver(p)[1] = "provider.failover"
  BY EventTypes DEF Event, Updated, Issued, FailedOver
<1>0d. pc[m] \in InLoop => Candidate(m) \in Provider
  BY CandidateTyped DEF IInv, TypeOK
<1> USE DEF At, Goto, Calm, Early, Untried, InLoop, After, Over, Going, Ran, Allowed,
            recordVars, runVars, cancelVars, storeVars
<1>1. CASE Submit(m)
  BY <1>0, <1>0b, <1>1 DEF Submit, ConclusionOK, OnCandidate
<1>2. CASE PublishCreated(m)
  BY <1>0, <1>0b, <1>2, <1>0c, <1>0d DEF PublishCreated, ConclusionOK, Executing
<1>3. CASE EvaluateSecurity(m)
  BY <1>0, <1>0b, <1>3, <1>0c, <1>0d DEF EvaluateSecurity, ConclusionOK, Executing
<1>4. CASE FindCredential(m)
  BY <1>0, <1>0b, <1>4 DEF FindCredential, ConclusionOK, OnCandidate
<1>5. CASE PublishIssued(m)
  BY <1>0, <1>0b, <1>5, <1>0c, <1>0d DEF PublishIssued, ConclusionOK, Executing
<1>6. CASE AssignProvider(m)
  BY <1>0, <1>0b, <1>6 DEF AssignProvider, ConclusionOK, OnCandidate
<1>7. CASE Execute(m)
  BY <1>0, <1>0b, <1>7 DEF Execute, ConclusionOK, OnCandidate
<1>8. CASE PublishFailover(m)
  BY <1>0, <1>0b, <1>8, <1>0c, <1>0d DEF PublishFailover, ConclusionOK, Executing
<1>9. CASE RememberResult(m)
  BY <1>0, <1>0b, <1>9 DEF RememberResult, ConclusionOK, OnCandidate
<1>10. CASE PublishCompleted(m)
  BY <1>0, <1>0b, <1>10, <1>0c, <1>0d DEF PublishCompleted, ConclusionOK, Executing
<1>11. CASE PublishWritten(m)
  BY <1>0, <1>0b, <1>11, <1>0c, <1>0d DEF PublishWritten, ConclusionOK, Executing
<1>12. CASE PutArtifact(m)
  BY <1>0, <1>0b, <1>12 DEF PutArtifact, ConclusionOK, OnCandidate
<1>13. CASE PublishArtifact(m)
  BY <1>0, <1>0b, <1>13, <1>0c, <1>0d DEF PublishArtifact, ConclusionOK, Executing
<1>14. CASE UpsertKnowledge(m)
  BY <1>0, <1>0b, <1>14 DEF UpsertKnowledge, ConclusionOK, OnCandidate
<1>15. CASE AwaitApproval(m)
  BY <1>0, <1>0b, <1>15 DEF AwaitApproval, Conclude, ConclusionOK, OnCandidate
<1>16. CASE ObserveOnly(m)
  BY <1>0, <1>0b, <1>16 DEF ObserveOnly, Conclude, ConclusionOK, OnCandidate
<1>17. CASE Succeed(m)
  BY <1>0, <1>0b, <1>17 DEF Succeed, Conclude, ConclusionOK, OnCandidate
<1>18. CASE SetMissionFailed(m)
  BY <1>0, <1>0b, <1>18 DEF SetMissionFailed, Conclude, ConclusionOK, OnCandidate
<1>19. CASE PublishVerdict(m)
  BY <1>0, <1>0b, <1>19, <1>0c, <1>0d DEF PublishVerdict, ConclusionOK, Executing
<1>20. CASE Cancel(m)
  BY <1>0, <1>0b, <1>20 DEF Cancel, ConclusionOK, OnCandidate
<1>21. CASE PublishCancel(m)
  BY <1>0, <1>0b, <1>21, <1>0c, <1>0d DEF PublishCancel, ConclusionOK, Executing
<1>22. QED
  BY <1>1, <1>2, <1>3, <1>4, <1>5, <1>6, <1>7, <1>8, <1>9, <1>10, <1>11, <1>12, <1>13,
     <1>14, <1>15, <1>16, <1>17, <1>18, <1>19, <1>20, <1>21
     DEF Run, Routing, Trying, Storing, Concluding

\* The last index of the journal is where an event goes.
LEMMA Published ==
  ASSUME JournalTyped, NEW m \in Mission, NEW e \in JournalEvent, Publish(m, e)
  PROVE  /\ Len(journal[m]) \in Nat
         /\ DOMAIN journal[m] = 1 .. Len(journal[m])
         /\ DOMAIN journal'[m] = 1 .. Len(journal[m]) + 1
         /\ \A i \in 1 .. Len(journal[m]) : journal'[m][i] = journal[m][i]
         /\ journal'[m][Len(journal[m]) + 1] = e
         /\ Events(m)' = Events(m) \cup {e}
<1> DEFINE old == journal[m]
           new == journal'[m]
<1>1. old \in Seq(JournalEvent) /\ new = Append(old, e)
  BY DEF JournalTyped, Publish
<1>2. /\ DOMAIN new = 1 .. Len(old) + 1 /\ DOMAIN old = 1 .. Len(old) /\ Len(old) \in Nat
      /\ \A i \in 1 .. Len(old) : new[i] = old[i]
      /\ new[Len(old) + 1] = e
  BY <1>1
<1>3. QED
  BY <1>2, PublishAppends

\* Steps of which the journal's order hears nothing leave it as it is.
LEMMA CalmKeeps ==
  ASSUME NEW k \in Mission, JournalTyped, JournalInv(k), Calm(k)
  PROVE  JournalInv(k)'
<1>1. Distinct(k)'
  BY DEF JournalInv, Distinct, Calm
<1>2. Silent(k)'
  BY DEF JournalInv, Silent, Calm, Quiet
<1>3. Placed(k)'
  <2> SUFFICES ASSUME NEW i \in Executions(k)'
               PROVE  \E x \in DOMAIN chain'[k] :
                        /\ journal'[k][i][2] = chain'[k][x]
                        /\ x <= rank'[k]
                        /\ x = rank'[k] => pc'[k] \notin Untried
                        /\ x < rank'[k] => \E n \in DOMAIN journal'[k] :
                             n >= i /\ journal'[k][n] = Failed(chain'[k][x])
    BY DEF Placed
  <2>1. i \in Executions(k) /\ i \in DOMAIN journal[k] /\ journal'[k][i] = journal[k][i]
    BY DEF Calm, Quiet, Executions
  <2>2. PICK x \in DOMAIN chain[k] :
          /\ journal[k][i][2] = chain[k][x]
          /\ x <= rank[k]
          /\ x = rank[k] => pc[k] \notin Untried
          /\ x < rank[k] => \E n \in DOMAIN journal[k] : n >= i /\ journal[k][n] = Failed(chain[k][x])
    BY <2>1 DEF JournalInv, Placed
  <2>3. QED
    BY <2>1, <2>2 DEF Calm, Quiet
<1>4. InOrder(k)'
  <2> SUFFICES ASSUME NEW i \in Executions(k)', NEW j \in Executions(k)', i < j
               PROVE  /\ \E n \in i .. j : journal'[k][n] = Failed(journal'[k][i][2])
                      /\ \E x, y \in DOMAIN chain'[k] :
                           /\ x < y /\ chain'[k][x] = journal'[k][i][2]
                           /\ chain'[k][y] = journal'[k][j][2]
    BY DEF InOrder
  <2>1. /\ i \in Executions(k) /\ i \in DOMAIN journal[k] /\ journal'[k][i] = journal[k][i]
        /\ j \in Executions(k) /\ j \in DOMAIN journal[k] /\ journal'[k][j] = journal[k][j]
    BY DEF Calm, Quiet, Executions
  <2>2. i .. j \subseteq DOMAIN journal[k]
    <3>1. journal[k] \in Seq(JournalEvent)
      BY DEF JournalTyped
    <3>2. QED
      BY <2>1, <3>1
  <2>3. /\ \E n \in i .. j : journal[k][n] = Failed(journal[k][i][2])
        /\ \E x, y \in DOMAIN chain[k] :
             x < y /\ chain[k][x] = journal[k][i][2] /\ chain[k][y] = journal[k][j][2]
    BY <2>1 DEF JournalInv, InOrder
  <2>4. QED
    BY <2>1, <2>2, <2>3 DEF Calm, Quiet
<1>5. FailedBefore(k)'
  BY DEF JournalInv, FailedBefore, Calm, Quiet
<1>6. QED
  BY <1>1, <1>2, <1>3, <1>4, <1>5 DEF JournalInv

\* Before the failover loop nothing has been executed, so that the chain and the index in it
\* may still be chosen.
LEMMA RoutingKeeps ==
  ASSUME IInv, NEW m \in Mission, JournalInv(m), Route(m) \/ RecordRoute(m)
  PROVE  JournalInv(m)'
<1>0. /\ JournalTyped /\ ConclusionOK /\ ChainOK
      /\ pc \in [Mission -> Steps]
      /\ chain \in [Mission -> Seq(Provider)] /\ rank \in [Mission -> Nat]
  BY DEF IInv, TypeOK, RunsTyped
<1>1. /\ pc[m] \in {"route", "record"}
      /\ Executions(m) = {} /\ \A p \in Provider : Failed(p) \notin Events(m)
  BY DEF JournalInv, Silent, Early, Route, RecordRoute, At
<1>2. Quiet(m)
  <2>1. CASE UNCHANGED journal
    BY <2>1, QuietUnchanged
  <2>2. CASE Publish(m, Event("route.decided"))
    <3>1. Event("route.decided") \in JournalEvent /\ Event("route.decided")[1] = "route.decided"
      BY EventTypes DEF Event
    <3>2. QED
      BY <1>0, <2>2, <3>1, QuietPublish
  <2>3. QED
    BY <2>1, <2>2 DEF Route, RecordRoute
<1>3. Executions(m)' = {} /\ \A p \in Provider : Failed(p) \notin Events(m)'
  BY <1>1, <1>2 DEF Quiet
<1>4. Distinct(m)'
  <2>1. CASE Route(m)
    <3>1. chain'[m] \in Chains \cup {<<>>}
      BY <1>0, <2>1 DEF Route, JournalInv, Distinct
    <3>2. pc'[m] \in {"secure", "fail"}
      BY <1>0, <2>1 DEF Route, Goto
    <3>3. QED
      BY <3>1, <3>2 DEF Distinct, Going, Ran, InLoop, After, Over
  <2>2. CASE RecordRoute(m)
    <3>1. /\ chain'[m] = chain[m] /\ chain[m] # <<>> /\ chain[m] \in Seq(Provider)
          /\ rank'[m] = 1
      BY <1>0, <2>2 DEF RecordRoute, ChainOK, At
    <3>2. QED
      BY <3>1 DEF JournalInv, Distinct
  <2>3. QED
    BY <2>1, <2>2
<1>5. QED
  BY <1>3, <1>4 DEF JournalInv, Silent, Placed, InOrder, FailedBefore

\* A candidate that gets no credential was not executed: the next one is not either.
LEMMA PutKeeps ==
  ASSUME IInv, NEW m \in Mission, JournalInv(m), PutCredential(m)
  PROVE  JournalInv(m)'
<1>0. /\ JournalTyped /\ ChainOK
      /\ pc \in [Mission -> Steps]
      /\ chain \in [Mission -> Seq(Provider)] /\ rank \in [Mission -> Nat]
  BY DEF IInv, TypeOK, RunsTyped
<1>1. /\ chain'[m] = chain[m] /\ journal'[m] = journal[m] /\ pc[m] = "issue"
      /\ rank[m] \in 1 .. Len(chain[m]) /\ Len(chain[m]) \in Nat
      /\ DOMAIN chain[m] = 1 .. Len(chain[m])
  BY <1>0 DEF PutCredential, At, ChainOK, InLoop
<1>2. \/ pc'[m] = "issued" /\ rank'[m] = rank[m]
      \/ pc'[m] = "fail" /\ rank'[m] = rank[m]
      \/ pc'[m] = "lookup" /\ rank'[m] = rank[m] + 1 /\ rank[m] # Len(chain[m])
  BY <1>0 DEF PutCredential, NextCandidate, LastCandidate, Goto
<1>3. Executions(m)' = Executions(m) /\ Events(m)' = Events(m) /\ UNCHANGED verdict
  BY <1>1 DEF Executions, Events, PutCredential
<1>4. Going(m)
  BY <1>1 DEF Going, InLoop
<1>5. Distinct(m)'
  BY <1>0, <1>1, <1>2, <1>4 DEF JournalInv, Distinct
<1>6. Silent(m)'
  BY <1>2 DEF Silent, Early
<1>7. Placed(m)'
  <2> SUFFICES ASSUME NEW i \in Executions(m)
               PROVE  \E x \in DOMAIN chain[m] :
                        /\ journal[m][i][2] = chain[m][x]
                        /\ x <= rank'[m]
                        /\ x = rank'[m] => pc'[m] \notin Untried
                        /\ x < rank'[m] => \E n \in DOMAIN journal[m] :
                             n >= i /\ journal[m][n] = Failed(chain[m][x])
    BY <1>1, <1>3 DEF Placed
  <2>1. PICK x \in DOMAIN chain[m] :
          /\ journal[m][i][2] = chain[m][x]
          /\ x < rank[m]
          /\ \E n \in DOMAIN journal[m] : n >= i /\ journal[m][n] = Failed(chain[m][x])
    BY <1>0, <1>1 DEF JournalInv, Placed, Untried
  <2>2. QED
    BY <1>0, <1>1, <1>2, <2>1
<1>8. InOrder(m)'
  BY <1>1, <1>3 DEF JournalInv, InOrder
<1>9. FailedBefore(m)'
  BY <1>0, <1>1, <1>2, <1>3, <1>4 DEF JournalInv, FailedBefore
<1>10. QED
  BY <1>5, <1>6, <1>7, <1>8, <1>9 DEF JournalInv

\* The candidate is executed after all executions before it have failed.
LEMMA StartedKeeps ==
  ASSUME IInv, NEW m \in Mission, JournalInv(m), PublishStarted(m)
  PROVE  JournalInv(m)'
<1>0. /\ JournalTyped /\ ChainOK
      /\ pc \in [Mission -> Steps]
      /\ chain \in [Mission -> Seq(Provider)] /\ rank \in [Mission -> Nat]
  BY DEF IInv, TypeOK, RunsTyped
<1>1. /\ chain'[m] = chain[m] /\ pc[m] = "start" /\ pc'[m] = "execute" /\ rank'[m] = rank[m]
      /\ rank[m] \in 1 .. Len(chain[m]) /\ Len(chain[m]) \in Nat
      /\ DOMAIN chain[m] = 1 .. Len(chain[m])
      /\ Publish(m, Started(Candidate(m)))
  BY <1>0 DEF PublishStarted, At, Goto, ChainOK, InLoop, runVars
<1>2. Candidate(m) \in Provider /\ Candidate(m) = chain[m][rank[m]]
  BY <1>1, CandidateTyped DEF IInv, TypeOK, InLoop, Candidate
<1> DEFINE old == journal[m]
           new == journal'[m]
           end == Len(old) + 1
<1>3. /\ Len(old) \in Nat /\ DOMAIN old = 1 .. Len(old) /\ DOMAIN new = 1 .. end
      /\ \A i \in 1 .. Len(old) : new[i] = old[i]
      /\ new[end] = Started(Candidate(m))
      /\ Events(m)' = Events(m) \cup {Started(Candidate(m))}
  BY <1>0, <1>1, <1>2, EventTypes, Published
<1>4. new[end][1] = "runtime.started" /\ new[end][2] = Candidate(m)
  BY <1>3 DEF Started
<1>5. /\ Executions(m)' = {i \in DOMAIN new : new[i][1] = "runtime.started"}
      /\ Executions(m) = {i \in DOMAIN old : old[i][1] = "runtime.started"}
  BY DEF Executions
<1>6. \A p \in Provider : Failed(p) # Started(Candidate(m))
  BY DEF Failed, Started
<1>7. Going(m)
  BY <1>1 DEF Going, InLoop
<1> HIDE DEF old, new, end
<1>8. Executions(m)' = Executions(m) \cup {end} /\ end \notin Executions(m)
      /\ \A i \in Executions(m) : i \in 1 .. Len(old) /\ i < end
  BY <1>3, <1>4, <1>5 DEF end
<1>9. \A i \in Executions(m) : \E x \in DOMAIN chain[m] :
        /\ old[i][2] = chain[m][x]
        /\ x < rank[m]
        /\ \E n \in DOMAIN old : n >= i /\ old[n] = Failed(chain[m][x])
  BY <1>0, <1>1 DEF JournalInv, Placed, Untried, old
<1>10. Distinct(m)'
  BY <1>1, <1>7 DEF JournalInv, Distinct
<1>11. Silent(m)'
  BY <1>1 DEF Silent, Early
<1>12. Placed(m)'
  <2> SUFFICES ASSUME NEW i \in Executions(m)'
               PROVE  \E x \in DOMAIN chain[m] :
                        /\ new[i][2] = chain[m][x]
                        /\ x <= rank[m]
                        /\ x < rank[m] => \E n \in DOMAIN new :
                             n >= i /\ new[n] = Failed(chain[m][x])
    BY <1>1 DEF Placed, Untried, new
  <2>1. CASE i \in Executions(m)
    BY <1>0, <1>1, <1>3, <1>8, <1>9, <2>1 DEF end
  <2>2. CASE i = end
    BY <1>0, <1>1, <1>2, <1>4, <2>2
  <2>3. QED
    BY <1>8, <2>1, <2>2
<1>13. InOrder(m)'
  <2> SUFFICES ASSUME NEW i \in Executions(m)', NEW j \in Executions(m)', i < j
               PROVE  /\ \E n \in i .. j : new[n] = Failed(new[i][2])
                      /\ \E x, y \in DOMAIN chain[m] :
                           x < y /\ chain[m][x] = new[i][2] /\ chain[m][y] = new[j][2]
    BY <1>1 DEF InOrder, new
  <2>1. i \in Executions(m) /\ new[i] = old[i] /\ i \in 1 .. Len(old)
    BY <1>3, <1>8 DEF end
  <2>2. CASE j \in Executions(m)
    <3>1. /\ \E n \in i .. j : old[n] = Failed(old[i][2])
          /\ \E x, y \in DOMAIN chain[m] :
               x < y /\ chain[m][x] = old[i][2] /\ chain[m][y] = old[j][2]
      BY <2>1, <2>2 DEF JournalInv, InOrder, old
    <3>2. i .. j \subseteq 1 .. Len(old) /\ new[j] = old[j]
      BY <1>3, <1>8, <2>1, <2>2
    <3>3. QED
      BY <1>3, <2>1, <3>1, <3>2
  <2>3. CASE j = end
    <3>1. PICK x \in DOMAIN chain[m] :
            /\ old[i][2] = chain[m][x]
            /\ x < rank[m]
            /\ \E n \in DOMAIN old : n >= i /\ old[n] = Failed(chain[m][x])
      BY <1>9, <2>1
    <3>2. PICK n \in DOMAIN old : n >= i /\ old[n] = Failed(chain[m][x])
      BY <3>1
    <3>3. n \in i .. j /\ new[n] = Failed(new[i][2])
      BY <1>3, <2>1, <2>3, <3>1, <3>2 DEF end
    <3>4. chain[m][rank[m]] = new[j][2] /\ rank[m] \in DOMAIN chain[m]
      BY <1>1, <1>2, <1>4, <2>3
    <3>5. QED
      BY <2>1, <3>1, <3>3, <3>4
  <2>4. QED
    BY <1>8, <2>2, <2>3
<1>14. FailedBefore(m)'
  BY <1>1, <1>3, <1>6, <1>7 DEF JournalInv, FailedBefore
<1>15. QED
  BY <1>10, <1>11, <1>12, <1>13, <1>14 DEF JournalInv

\* A failure is journalled before the next candidate is tried.
LEMMA FailedKeeps ==
  ASSUME IInv, NEW m \in Mission, JournalInv(m), PublishFailed(m)
  PROVE  JournalInv(m)'
<1>0. /\ JournalTyped /\ ChainOK
      /\ pc \in [Mission -> Steps]
      /\ chain \in [Mission -> Seq(Provider)] /\ rank \in [Mission -> Nat]
  BY DEF IInv, TypeOK, RunsTyped
<1>1. /\ chain'[m] = chain[m] /\ pc[m] = "failed" /\ verdict' = verdict
      /\ rank[m] \in 1 .. Len(chain[m]) /\ Len(chain[m]) \in Nat
      /\ DOMAIN chain[m] = 1 .. Len(chain[m])
      /\ Publish(m, Failed(Candidate(m)))
  BY <1>0 DEF PublishFailed, At, ChainOK, InLoop
<1>2. \/ pc'[m] = "fail" /\ rank'[m] = rank[m]
      \/ pc'[m] = "lookup" /\ rank'[m] = rank[m] + 1 /\ rank[m] # Len(chain[m])
  BY <1>0 DEF PublishFailed, NextCandidate, LastCandidate, Goto
<1>3. Candidate(m) \in Provider /\ Candidate(m) = chain[m][rank[m]]
  BY <1>1, CandidateTyped DEF IInv, TypeOK, InLoop, Candidate
<1> DEFINE old == journal[m]
           new == journal'[m]
           end == Len(old) + 1
<1>4. /\ Len(old) \in Nat /\ DOMAIN old = 1 .. Len(old) /\ DOMAIN new = 1 .. end
      /\ \A i \in 1 .. Len(old) : new[i] = old[i]
      /\ new[end] = Failed(Candidate(m))
      /\ Events(m)' = Events(m) \cup {Failed(Candidate(m))}
  BY <1>0, <1>1, <1>3, EventTypes, Published
<1>5. new[end][1] = "provider.failed"
  BY <1>4 DEF Failed
<1>6. /\ Executions(m)' = {i \in DOMAIN new : new[i][1] = "runtime.started"}
      /\ Executions(m) = {i \in DOMAIN old : old[i][1] = "runtime.started"}
  BY DEF Executions
<1>7. \A p, q \in Provider : Failed(p) = Failed(q) => p = q
  BY DEF Failed
<1>8. Going(m)
  BY <1>1 DEF Going, InLoop
<1> HIDE DEF old, new, end
<1>9. Executions(m)' = Executions(m) /\ \A i \in Executions(m) : i \in 1 .. Len(old)
  BY <1>4, <1>5, <1>6 DEF end
<1>10. Distinct(m)'
  BY <1>0, <1>1, <1>2, <1>8 DEF JournalInv, Distinct
<1>11. Silent(m)'
  BY <1>2 DEF Silent, Early
<1>12. Placed(m)'
  <2> SUFFICES ASSUME NEW i \in Executions(m)
               PROVE  \E x \in DOMAIN chain[m] :
                        /\ new[i][2] = chain[m][x]
                        /\ x <= rank'[m]
                        /\ x = rank'[m] => pc'[m] \notin Untried
                        /\ x < rank'[m] => \E n \in DOMAIN new :
                             n >= i /\ new[n] = Failed(chain[m][x])
    BY <1>1, <1>9 DEF Placed, new
  <2>1. PICK x \in DOMAIN chain[m] :
          /\ old[i][2] = chain[m][x]
          /\ x <= rank[m]
          /\ x < rank[m] => \E n \in DOMAIN old : n >= i /\ old[n] = Failed(chain[m][x])
    BY DEF JournalInv, Placed, old
  <2>2. CASE x < rank[m]
    <3>1. x <= rank'[m] /\ x # rank'[m]
      BY <1>0, <1>1, <1>2, <2>2
    <3>2. PICK n \in DOMAIN old : n >= i /\ old[n] = Failed(chain[m][x])
      BY <2>1, <2>2
    <3>3. n \in DOMAIN new /\ new[n] = Failed(chain[m][x]) /\ new[i] = old[i]
      BY <1>4, <1>9, <3>2 DEF end
    <3>4. QED
      BY <2>1, <3>1, <3>2, <3>3
  <2>3. CASE x = rank[m]
    <3>1. end \in DOMAIN new /\ end >= i /\ new[end] = Failed(chain[m][x]) /\ new[i] = old[i]
      BY <1>3, <1>4, <1>9, <2>3 DEF end
    <3>2. x = rank'[m] => pc'[m] \notin Untried
      BY <1>0, <1>2, <2>3 DEF Untried
    <3>3. x <= rank'[m]
      BY <1>0, <1>1, <1>2, <2>3
    <3>4. new[i][2] = chain[m][x]
      BY <2>1, <3>1
    <3>5. QED
      BY <3>1, <3>2, <3>3, <3>4
  <2>4. QED
    BY <1>0, <1>1, <2>1, <2>2, <2>3
<1>13. InOrder(m)'
  <2> SUFFICES ASSUME NEW i \in Executions(m), NEW j \in Executions(m), i < j
               PROVE  /\ \E n \in i .. j : new[n] = Failed(new[i][2])
                      /\ \E x, y \in DOMAIN chain[m] :
                           x < y /\ chain[m][x] = new[i][2] /\ chain[m][y] = new[j][2]
    BY <1>1, <1>9 DEF InOrder, new
  <2>1. /\ \E n \in i .. j : old[n] = Failed(old[i][2])
        /\ \E x, y \in DOMAIN chain[m] :
             x < y /\ chain[m][x] = old[i][2] /\ chain[m][y] = old[j][2]
    BY DEF JournalInv, InOrder, old
  <2>2. i .. j \subseteq 1 .. Len(old) /\ new[j] = old[j] /\ new[i] = old[i]
    BY <1>4, <1>9
  <2>3. QED
    BY <1>4, <2>1, <2>2
<1>14. FailedBefore(m)'
  <2> SUFFICES ASSUME rank'[m] = rank[m] + 1, NEW p \in Provider, Failed(p) \in Events(m)'
               PROVE  \E x \in DOMAIN chain[m] : x < rank'[m] /\ chain[m][x] = p
    BY <1>1, <1>2 DEF FailedBefore, Going, Ran, InLoop, After, Over
  <2>1. CASE Failed(p) \in Events(m)
    BY <1>0, <1>1, <1>8, <2>1 DEF JournalInv, FailedBefore
  <2>2. CASE p = Candidate(m)
    BY <1>0, <1>1, <1>3, <2>2
  <2>3. QED
    BY <1>3, <1>4, <1>7, <2>1, <2>2
<1>15. QED
  BY <1>10, <1>11, <1>12, <1>13, <1>14 DEF JournalInv

\* While a run has a candidate that has not failed, no failure of it is in the journal.
LEMMA CandidateHasNotFailed ==
  ASSUME IInv, NEW m \in Mission, JournalInv(m), Going(m)
  PROVE  Failed(Candidate(m)) \notin Events(m) /\ Candidate(m) \in Provider
<1>0. chain \in [Mission -> Seq(Provider)] /\ rank \in [Mission -> Nat]
  BY DEF IInv, TypeOK, RunsTyped
<1>1. /\ rank[m] \in 1 .. Len(chain[m]) /\ Len(chain[m]) \in Nat
      /\ DOMAIN chain[m] = 1 .. Len(chain[m])
      /\ chain[m] \in Seq(Provider)
  BY <1>0 DEF JournalInv, Distinct
<1>2. \A x, y \in DOMAIN chain[m] : chain[m][x] = chain[m][y] => x = y
  BY <1>1 DEF JournalInv, Distinct, Chains
<1>3. Candidate(m) \in Provider
  BY <1>1 DEF Candidate
<1>4. ASSUME Failed(Candidate(m)) \in Events(m)
      PROVE  FALSE
  <2>1. PICK x \in DOMAIN chain[m] : x < rank[m] /\ chain[m][x] = Candidate(m)
    BY <1>3, <1>4 DEF JournalInv, FailedBefore
  <2>2. x = rank[m]
    BY <1>1, <1>2, <2>1 DEF Candidate
  <2>3. QED
    BY <1>0, <2>1, <2>2
<1>5. QED
  BY <1>3, <1>4

\* A step of the run of a mission keeps its record on the candidate that is executed.
LEMMA CandidateStays ==
  ASSUME IInv, NEW m \in Mission, OnCandidate(m),
         Submit(m) \/ Run(m) \/ Cancel(m) \/ PublishCancel(m)
  PROVE  OnCandidate(m)'
<1>0. /\ ConclusionOK /\ ChainOK
      /\ pc \in [Mission -> Steps] /\ verdict \in [Mission -> Verdicts \cup {"none"}]
      /\ chain \in [Mission -> Seq(Provider)] /\ rank \in [Mission -> Nat]
      /\ mode \in [Mission -> Spelling] /\ DOMAIN request = Mission
      /\ DOMAIN result = Mission /\ DOMAIN state = Mission
      /\ providerID \in [Mission -> Provider \cup {NoProvider}]
  BY DEF IInv, TypeOK, RunsTyped, RecordsTyped
<1>0b. Events(m) \subseteq Events(m)'
  <2>1. JournalTyped
    BY DEF IInv, TypeOK
  <2>2. QED
    BY <2>1, StepPublishes, PublishAppends DEF Events
<1>0c. PublishStarted(m) => Started(Candidate(m)) \in Events(m)'
  <2> SUFFICES ASSUME PublishStarted(m)
               PROVE  Started(Candidate(m)) \in Events(m)'
    OBVIOUS
  <2>1. Candidate(m) \in Provider
    BY CandidateTyped DEF IInv, TypeOK, PublishStarted, At, InLoop
  <2>2. Publish(m, Started(Candidate(m))) /\ JournalTyped
    BY DEF PublishStarted, IInv, TypeOK
  <2>3. QED
    BY <2>1, <2>2, EventTypes, PublishAppends
<1> USE DEF OnCandidate, Going, Ran, Allowed, InLoop, After, Over, Executing, At, Goto, ConclusionOK,
            Candidate, recordVars, runVars, cancelVars, storeVars
<1>1. CASE Submit(m)
  BY <1>0, <1>0b, <1>1 DEF Submit
<1>2. CASE PublishCreated(m)
  BY <1>0, <1>0b, <1>2 DEF PublishCreated
<1>3. CASE Route(m)
  BY <1>0, <1>0b, <1>3 DEF Route
<1>4. CASE EvaluateSecurity(m)
  BY <1>0, <1>0b, <1>4 DEF EvaluateSecurity
<1>5. CASE RecordRoute(m)
  BY <1>0, <1>0b, <1>5 DEF RecordRoute
<1>6. CASE FindCredential(m)
  BY <1>0, <1>0b, <1>6 DEF FindCredential
<1>7. CASE PutCredential(m)
  BY <1>0, <1>0b, <1>7 DEF PutCredential, NextCandidate, LastCandidate
<1>8. CASE PublishIssued(m)
  BY <1>0, <1>0b, <1>8 DEF PublishIssued
<1>9. CASE AssignProvider(m)
  BY <1>0, <1>0b, <1>9 DEF AssignProvider
<1>10. CASE PublishStarted(m)
  BY <1>0, <1>0b, <1>10, <1>0c DEF PublishStarted
<1>11. CASE Execute(m)
  <2>1. PICK r \in Result :
          /\ result' = [result EXCEPT ![m] = r]
          /\ Goto(m, IF r.status = "failed" THEN "failed"
                     ELSE IF rank[m] > 1 THEN "failover" ELSE "policy")
    BY <1>11 DEF Execute
  <2>2. /\ UNCHANGED <<recordVars, request, chain, rank, verdict, journal>> /\ pc[m] = "execute"
        /\ r.status \in {"succeeded", "failed"} /\ result'[m] = r
    BY <1>0, <1>11, <2>1 DEF Execute, Result
  <2>3. /\ pc'[m] \in {"failed", "failover", "policy"}
        /\ pc'[m] # "failed" => result'[m].status = "succeeded"
    BY <1>0, <2>1, <2>2
  <2>4. verdict[m] = "none" /\ Candidate(m)' = Candidate(m)
    BY <1>0, <2>2
  <2>5. Started(Candidate(m)) \in Events(m) /\ providerID[m] = Candidate(m) /\ Allowed(m)
    BY <1>0, <2>2
  <2>6. Allowed(m)'
    BY <2>2, <2>5
  <2> QED
    BY <1>0b, <2>2, <2>3, <2>4, <2>5, <2>6
<1>12. CASE PublishFailover(m)
  BY <1>0, <1>0b, <1>12 DEF PublishFailover
<1>13. CASE PublishFailed(m)
  BY <1>0, <1>0b, <1>13 DEF PublishFailed, NextCandidate, LastCandidate
<1>14. CASE RememberResult(m)
  BY <1>0, <1>0b, <1>14 DEF RememberResult
<1>15. CASE PublishCompleted(m)
  BY <1>0, <1>0b, <1>15 DEF PublishCompleted
<1>16. CASE PublishWritten(m)
  BY <1>0, <1>0b, <1>16 DEF PublishWritten
<1>17. CASE PutArtifact(m)
  BY <1>0, <1>0b, <1>17 DEF PutArtifact
<1>18. CASE PublishArtifact(m)
  BY <1>0, <1>0b, <1>18 DEF PublishArtifact
<1>19. CASE UpsertKnowledge(m)
  BY <1>0, <1>0b, <1>19 DEF UpsertKnowledge
<1>20. CASE AwaitApproval(m)
  BY <1>0, <1>0b, <1>20 DEF AwaitApproval, Conclude
<1>21. CASE ObserveOnly(m)
  BY <1>0, <1>0b, <1>21 DEF ObserveOnly, Conclude
<1>22. CASE Succeed(m)
  BY <1>0, <1>0b, <1>22 DEF Succeed, Conclude
<1>23. CASE SetMissionFailed(m)
  BY <1>0, <1>0b, <1>23 DEF SetMissionFailed, Conclude
<1>24. CASE PublishVerdict(m)
  BY <1>0, <1>0b, <1>24 DEF PublishVerdict
<1>25. CASE Cancel(m)
  BY <1>0, <1>0b, <1>25 DEF Cancel
<1>26. CASE PublishCancel(m)
  BY <1>0, <1>0b, <1>26 DEF PublishCancel
<1>27. QED
  BY <1>1, <1>2, <1>3, <1>4, <1>5, <1>6, <1>7, <1>8, <1>9, <1>10, <1>11, <1>12, <1>13,
     <1>14, <1>15, <1>16, <1>17, <1>18, <1>19, <1>20, <1>21, <1>22, <1>23, <1>24, <1>25,
     <1>26
     DEF Run, Routing, Trying, Storing, Concluding

\* A step of the run of a mission writes what is left behind, in the order of the code.
LEMMA EffectsStay ==
  ASSUME IInv, NEW m \in Mission, EffectInv(m),
         Submit(m) \/ Run(m) \/ Cancel(m) \/ PublishCancel(m)
  PROVE  LeftBehind(m)'
<1>0. /\ ConclusionOK /\ OnCandidate(m) /\ LeftBehind(m)
      /\ pc \in [Mission -> Steps] /\ verdict \in [Mission -> Verdicts \cup {"none"}]
      /\ mode \in [Mission -> Spelling] /\ DOMAIN request = Mission
      /\ DOMAIN result = Mission /\ DOMAIN costUSD = Mission
  BY DEF IInv, TypeOK, RunsTyped, RecordsTyped, EffectInv
<1>0b. /\ result[m].output \in Output \cup {NoOutput}
       /\ artifacts \in [Output -> Mission \cup {NoMission}]
  BY ResultTyped DEF IInv, TypeOK, StoresTyped
<1> USE DEF LeftBehind, OnCandidate, Going, Ran, Allowed, InLoop, After, Over, At, Goto, ConclusionOK,
            recordVars, runVars, cancelVars, storeVars
<1>1. CASE Submit(m)
  BY <1>0, <1>1 DEF Submit
<1>2. CASE PublishCreated(m)
  BY <1>0, <1>2 DEF PublishCreated
<1>3. CASE Route(m)
  BY <1>0, <1>3 DEF Route
<1>4. CASE EvaluateSecurity(m)
  BY <1>0, <1>4 DEF EvaluateSecurity
<1>5. CASE RecordRoute(m)
  BY <1>0, <1>5 DEF RecordRoute
<1>6. CASE FindCredential(m)
  BY <1>0, <1>6 DEF FindCredential
<1>7. CASE PutCredential(m)
  BY <1>0, <1>7 DEF PutCredential, NextCandidate, LastCandidate
<1>8. CASE PublishIssued(m)
  BY <1>0, <1>8 DEF PublishIssued
<1>9. CASE AssignProvider(m)
  BY <1>0, <1>9 DEF AssignProvider
<1>10. CASE PublishStarted(m)
  BY <1>0, <1>10 DEF PublishStarted
<1>11. CASE Execute(m)
  BY <1>0, <1>11 DEF Execute
<1>12. CASE PublishFailover(m)
  BY <1>0, <1>12 DEF PublishFailover
<1>13. CASE PublishFailed(m)
  BY <1>0, <1>13 DEF PublishFailed, NextCandidate, LastCandidate
<1>14. CASE RememberResult(m)
  BY <1>0, <1>14 DEF RememberResult
<1>15. CASE PublishCompleted(m)
  BY <1>0, <1>15 DEF PublishCompleted
<1>16. CASE PublishWritten(m)
  BY <1>0, <1>16 DEF PublishWritten
<1>17. CASE PutArtifact(m)
  BY <1>0, <1>17, <1>0b DEF PutArtifact
<1>18. CASE PublishArtifact(m)
  BY <1>0, <1>18 DEF PublishArtifact
<1>19. CASE UpsertKnowledge(m)
  BY <1>0, <1>19 DEF UpsertKnowledge
<1>20. CASE AwaitApproval(m)
  BY <1>0, <1>20 DEF AwaitApproval, Conclude
<1>21. CASE ObserveOnly(m)
  BY <1>0, <1>21 DEF ObserveOnly, Conclude
<1>22. CASE Succeed(m)
  BY <1>0, <1>22, <1>0b DEF Succeed, Conclude
<1>23. CASE SetMissionFailed(m)
  BY <1>0, <1>23 DEF SetMissionFailed, Conclude
<1>24. CASE PublishVerdict(m)
  BY <1>0, <1>24 DEF PublishVerdict
<1>25. CASE Cancel(m)
  BY <1>0, <1>25 DEF Cancel
<1>26. CASE PublishCancel(m)
  BY <1>0, <1>26 DEF PublishCancel
<1>27. QED
  BY <1>1, <1>2, <1>3, <1>4, <1>5, <1>6, <1>7, <1>8, <1>9, <1>10, <1>11, <1>12, <1>13,
     <1>14, <1>15, <1>16, <1>17, <1>18, <1>19, <1>20, <1>21, <1>22, <1>23, <1>24, <1>25,
     <1>26
     DEF Run, Routing, Trying, Storing, Concluding

\* A step keeps what is known of its own mission ...
LEMMA JournalStays ==
  ASSUME IInv, RunInv, NEW m \in Mission, Submit(m) \/ Run(m) \/ Cancel(m) \/ PublishCancel(m)
  PROVE  JournalInv(m)'
<1>0. JournalTyped /\ JournalInv(m)
  BY DEF IInv, TypeOK, RunInv
<1>1. CASE ~ (Route(m) \/ RecordRoute(m) \/ PutCredential(m) \/ PublishStarted(m) \/ PublishFailed(m))
  BY <1>0, <1>1, CalmSteps, CalmKeeps
<1>2. CASE Route(m) \/ RecordRoute(m)
  BY <1>0, <1>2, RoutingKeeps
<1>3. QED
  BY <1>0, <1>1, <1>2, PutKeeps, StartedKeeps, FailedKeeps

\* ... and of every other one.
LEMMA OthersKeep ==
  ASSUME IInv, NEW k \in Mission, JournalInv(k), EffectInv(k), Same(k)
  PROVE  JournalInv(k)' /\ EffectInv(k)'
<1>1. JournalTyped
  BY DEF IInv, TypeOK
<1>2. JournalInv(k)'
  BY <1>1, SameIsCalm, CalmKeeps
<1>3. OnCandidate(k)'
  BY DEF Same, EffectInv, OnCandidate, Going, Ran, Allowed, Candidate, Events
<1>4. LeftBehind(k)'
  BY DEF Same, EffectInv, LeftBehind, Ran, Allowed
<1>5. QED
  BY <1>2, <1>3, <1>4 DEF EffectInv

LEMMA InitRunInv == Init => RunInv
<1> SUFFICES ASSUME Init, NEW m \in Mission
             PROVE  JournalInv(m) /\ EffectInv(m)
  BY DEF RunInv
<1>1. /\ pc[m] = "absent" /\ chain[m] = <<>> /\ verdict[m] = "none" /\ journal[m] = <<>>
      /\ memory = {} /\ knowledge = {} /\ \A o \in Output : artifacts[o] # m
  BY NoMissionAssumption DEF Init
<1>2. ~ Going(m) /\ ~ Ran(m)
  BY <1>1 DEF Going, Ran, InLoop, After, Over
<1>3. Executions(m) = {} /\ Events(m) = {}
  BY <1>1 DEF Executions, Events
<1>4. JournalInv(m)
  BY <1>1, <1>2, <1>3 DEF JournalInv, Distinct, Silent, Placed, InOrder, FailedBefore
<1>5. EffectInv(m)
  BY <1>1, <1>2 DEF EffectInv, OnCandidate, LeftBehind, Executing, After
<1>6. QED
  BY <1>4, <1>5

LEMMA RunInvStep == IInv /\ RunInv /\ [Next]_vars => RunInv'
<1> SUFFICES ASSUME IInv, RunInv, [Next]_vars, NEW k \in Mission
             PROVE  JournalInv(k)' /\ EffectInv(k)'
  BY DEF RunInv
<1>0. JournalInv(k) /\ EffectInv(k)
  BY DEF RunInv
<1>1. CASE UNCHANGED vars
  <2>1. Same(k)
    BY <1>1 DEF Same, vars, recordVars, runVars, storeVars
  <2>2. QED
    BY <1>0, <2>1, OthersKeep
<1>2. CASE Next
  <2>1. PICK m \in Mission : Submit(m) \/ Run(m) \/ Cancel(m) \/ PublishCancel(m)
    BY <1>2 DEF Next
  <2>2. CASE k = m
    BY <1>0, <2>1, <2>2, JournalStays, CandidateStays, EffectsStay DEF EffectInv
  <2>3. CASE k # m
    BY <1>0, <2>1, <2>3, OthersStay, OthersKeep
  <2>4. QED
    BY <2>2, <2>3
<1>3. QED
  BY <1>1, <1>2

\* What every reachable state satisfies beyond IInv.
THEOREM RunInvariance == Spec => []RunInv
<1>1. QED
  BY Invariance, InitRunInv, RunInvStep, PTL DEF Spec

\* Executions follow the router's order, each after the failure of the one before it has been
\* journalled (the loop of kernel.go:573-677).
THEOREM FailuresComeFirst == Spec => []FailoverInOrder
<1>1. RunInv => FailoverInOrder
  BY DEF RunInv, JournalInv, InOrder, FailoverInOrder
<1>2. QED
  BY <1>1, RunInvariance, PTL

\* Memory, artifacts and knowledge come from an execution that succeeded within the limits, on
\* a mission whose mode allowed it, and the run can only end in success (kernel.go:678-745).
THEOREM EffectsFollowSuccess == Spec => []EffectsNeedSuccess
<1>1. ASSUME IInv, RunInv
      PROVE  EffectsNeedSuccess
  <2> SUFFICES ASSUME NEW m \in Mission,
                      m \in memory \cup knowledge \/ \E o \in Output : artifacts[o] = m
               PROVE  /\ result[m].status = "succeeded" /\ WithinPolicy(result[m])
                      /\ AllowExecute(mode[m], request[m].external)
                      /\ \A p \in Provider : Started(p) \in Events(m) /\ Failed(p) \notin Events(m)
                                              => p = providerID[m]
                      /\ verdict[m] \in {"none", "succeeded"}
    BY DEF EffectsNeedSuccess
  <2>0. /\ JournalInv(m) /\ OnCandidate(m) /\ LeftBehind(m) /\ ConclusionOK
        /\ rank \in [Mission -> Nat]
    BY <1>1 DEF RunInv, EffectInv, IInv, TypeOK, RunsTyped
  <2>1. m \in memory /\ (pc[m] \in After \ {"policy"} \/ Ran(m))
    BY <2>0 DEF LeftBehind, After
  <2>2. Going(m) /\ Allowed(m) /\ providerID[m] = Candidate(m) /\ result[m].status = "succeeded"
    BY <2>0, <2>1 DEF OnCandidate, Going
  <2>3. WithinPolicy(result[m])
    BY <2>0, <2>1 DEF LeftBehind
  <2>4. verdict[m] \in {"none", "succeeded"}
    BY <2>0, <2>1 DEF ConclusionOK, Ran, After, Over
  <2>5. ASSUME NEW p \in Provider, Started(p) \in Events(m), Failed(p) \notin Events(m)
        PROVE  p = providerID[m]
    <3>1. PICK i \in DOMAIN journal[m] : journal[m][i] = Started(p)
      BY <2>5 DEF Events
    <3>2. i \in Executions(m) /\ journal[m][i][2] = p
      BY <3>1 DEF Executions, Started
    <3>3. PICK x \in DOMAIN chain[m] :
            /\ p = chain[m][x]
            /\ x <= rank[m]
            /\ x < rank[m] => \E k \in DOMAIN journal[m] : journal[m][k] = Failed(p)
      BY <2>0, <3>2 DEF JournalInv, Placed
    <3>4. ~ (x < rank[m])
      BY <2>5, <3>3 DEF Events
    <3>5. x = rank[m]
      <4>1. Len(chain[m]) \in Nat /\ DOMAIN chain[m] = 1 .. Len(chain[m])
        BY <1>1 DEF IInv, TypeOK, RunsTyped
      <4>2. QED
        BY <2>0, <3>3, <3>4, <4>1
    <3>6. QED
      BY <2>2, <3>3, <3>5 DEF Candidate
  <2>6. QED
    BY <2>2, <2>3, <2>4, <2>5 DEF Allowed
<1>2. QED
  BY <1>1, Invariance, RunInvariance, PTL

\* A mission that was executed and ends "succeeded" names the provider that did it and what it
\* cost, and has its entries in memory and knowledge (kernel.go:678-745).
THEOREM RecordsMatchRuns == Spec => []RecordMatchesRun
<1>1. ASSUME IInv, RunInv
      PROVE  RecordMatchesRun
  <2> SUFFICES ASSUME NEW m \in Mission, verdict[m] = "succeeded",
                      AllowExecute(mode[m], request[m].external)
               PROVE  /\ Started(providerID[m]) \in Events(m) /\ Failed(providerID[m]) \notin Events(m)
                      /\ costUSD[m] = result[m].cost
                      /\ m \in memory \cap knowledge
    BY DEF RecordMatchesRun
  <2>0. JournalInv(m) /\ OnCandidate(m) /\ LeftBehind(m) /\ ConclusionOK
    BY <1>1 DEF RunInv, EffectInv, IInv
  <2>1. Ran(m)
    BY <2>0 DEF ConclusionOK, Ran, Allowed
  <2>2. Going(m) /\ providerID[m] = Candidate(m) /\ Started(Candidate(m)) \in Events(m)
    BY <2>0, <2>1 DEF OnCandidate, Going
  <2>3. Failed(Candidate(m)) \notin Events(m)
    BY <1>1, <2>0, <2>2, CandidateHasNotFailed
  <2>4. QED
    BY <2>0, <2>1, <2>2, <2>3 DEF LeftBehind
<1>2. QED
  BY <1>1, Invariance, RunInvariance, PTL

-----------------------------------------------------------------------------
\* The kernel implements the lifecycle

\* Publishing announces a state when, and only when, it is a mission.updated event.
LEMMA AnnouncedByPublish ==
  ASSUME NEW m \in Mission, NEW e \in JournalEvent, JournalTyped, Publish(m, e)
  PROVE  Announced' = [Announced EXCEPT ![m] =
                         @ \cup {s \in Verdicts \cup {"cancelled"} : Updated(s) = e}]
<1>1. Events(m)' = Events(m) \cup {e} /\ \A x \in Mission : x # m => Events(x)' = Events(x)
  BY PublishAppends
<1>2. QED
  BY <1>1 DEF Announced

\* What is announced depends on the journal only.
LEMMA NothingAnnounced == UNCHANGED journal => UNCHANGED Announced
  BY DEF Announced, Events

\* What hosts do not see: it touches no state, verdict or cancellation, leaves the
\* run in its phase and announces nothing.
Invisible(m) ==
  /\ UNCHANGED <<state, verdict, pending, RunPhase>>
  /\ UNCHANGED journal \/ \E e \in JournalEvent : e[1] # "mission.updated" /\ Publish(m, e)

\* A step that changes none of what hosts see is a stutter of the lifecycle.
LEMMA InvisibleStutters ==
  ASSUME JournalTyped, NEW m \in Mission, Invisible(m)
  PROVE  UNCHANGED Lifecycle!vars
<1>1. UNCHANGED Announced
  <2>1. ASSUME NEW e \in JournalEvent, e[1] # "mission.updated", Publish(m, e)
        PROVE  UNCHANGED Announced
    <3>1. \A s : Updated(s) # e
      BY <2>1 DEF Updated
    <3>2. Announced' = [Announced EXCEPT ![m] = @ \cup {}]
      BY <2>1, <3>1, AnnouncedByPublish
    <3>3. QED
      BY <3>2 DEF Announced
  <2>2. QED
    BY <2>1, NothingAnnounced DEF Invisible
<1>2. QED
  BY <1>1 DEF Invisible, Lifecycle!vars

\* Routing, the failover loop and what a success leaves behind are invisible.
LEMMA InvisibleStep ==
  ASSUME IInv, NEW m \in Mission, Routing(m) \/ Trying(m) \/ Storing(m)
  PROVE  Invisible(m)
<1>0. /\ pc \in [Mission -> Steps]
      /\ pc[m] \in InLoop => Candidate(m) \in Provider
  BY CandidateTyped DEF IInv, TypeOK, RunsTyped
<1> USE DEF Invisible, RunPhase, At, Goto, InLoop, recordVars, runVars, cancelVars
<1>1. CASE PublishCreated(m)
  BY <1>0, <1>1, EventTypes DEF PublishCreated, Event
<1>2. CASE Route(m)
  BY <1>0, <1>2, EventTypes DEF Route, Event
<1>3. CASE EvaluateSecurity(m)
  BY <1>0, <1>3, EventTypes DEF EvaluateSecurity, Event
<1>4. CASE RecordRoute(m)
  BY <1>0, <1>4 DEF RecordRoute
<1>5. CASE FindCredential(m)
  BY <1>0, <1>5 DEF FindCredential
<1>6. CASE PutCredential(m)
  BY <1>0, <1>6 DEF PutCredential, NextCandidate
<1>7. CASE PublishIssued(m)
  BY <1>0, <1>7, EventTypes DEF PublishIssued, Issued
<1>8. CASE AssignProvider(m)
  BY <1>0, <1>8 DEF AssignProvider
<1>9. CASE PublishStarted(m)
  BY <1>0, <1>9, EventTypes DEF PublishStarted, Started
<1>10. CASE Execute(m)
  BY <1>0, <1>10 DEF Execute
<1>11. CASE PublishFailover(m)
  BY <1>0, <1>11, EventTypes DEF PublishFailover, FailedOver
<1>12. CASE PublishFailed(m)
  BY <1>0, <1>12, EventTypes DEF PublishFailed, NextCandidate, Failed
<1>13. CASE RememberResult(m)
  BY <1>0, <1>13 DEF RememberResult
<1>14. CASE PublishCompleted(m)
  BY <1>0, <1>14, EventTypes DEF PublishCompleted, Event
<1>15. CASE PublishWritten(m)
  BY <1>0, <1>15, EventTypes DEF PublishWritten, Event
<1>16. CASE PutArtifact(m)
  BY <1>0, <1>16 DEF PutArtifact
<1>17. CASE PublishArtifact(m)
  BY <1>0, <1>17, EventTypes DEF PublishArtifact, Event
<1>18. CASE UpsertKnowledge(m)
  BY <1>0, <1>18 DEF UpsertKnowledge
<1>19. QED
  BY <1>1, <1>2, <1>3, <1>4, <1>5, <1>6, <1>7, <1>8, <1>9,
     <1>10, <1>11, <1>12, <1>13, <1>14, <1>15, <1>16, <1>17, <1>18
     DEF Routing, Trying, Storing

\* Every way a run concludes is the lifecycle's conclusion.
LEMMA ConclusionConcludes ==
  ASSUME IInv, NEW m \in Mission, NEW s \in Verdicts, Conclude(m, s),
         pc[m] \notin Over \cup {"absent"}
  PROVE  Lifecycle!Conclude(m)
<1>1. /\ pc \in [Mission -> Steps]
      /\ RunPhase[m] = "running"
  BY DEF IInv, TypeOK, RunsTyped, RunPhase, Over
<1>2. RunPhase' = [RunPhase EXCEPT ![m] = "concluded"]
  BY <1>1 DEF Conclude, Goto, RunPhase
<1>3. /\ state' = [state EXCEPT ![m] = s]
      /\ verdict' = [verdict EXCEPT ![m] = s]
      /\ UNCHANGED <<pending, journal>>
  BY DEF Conclude, cancelVars
<1>4. UNCHANGED Announced
  BY <1>3, NothingAnnounced
<1>5. QED
  BY <1>1, <1>2, <1>3, <1>4 DEF Lifecycle!Conclude, Lifecycle!Verdicts, Verdicts

\* Every step of the kernel is a step of the lifecycle or none at all.
LEMMA StepRefines ==
  ASSUME IInv, NEW m \in Mission, Submit(m) \/ Run(m) \/ Cancel(m) \/ PublishCancel(m)
  PROVE  Lifecycle!Next \/ UNCHANGED Lifecycle!vars
<1>0. /\ JournalTyped /\ ConclusionOK
      /\ pc \in [Mission -> Steps]
      /\ pc[m] = "succeed" => result[m].status \in Verdicts
  BY ResultTyped DEF IInv, TypeOK, RunsTyped
<1>1. CASE Submit(m)
  <2>1. /\ RunPhase[m] = "none"
        /\ RunPhase' = [RunPhase EXCEPT ![m] = "running"]
    BY <1>0, <1>1 DEF Submit, At, Goto, RunPhase
  <2>2. /\ state' = [state EXCEPT ![m] = "running"]
        /\ UNCHANGED <<verdict, pending, journal>>
    BY <1>1 DEF Submit, cancelVars
  <2>3. UNCHANGED Announced
    BY <2>2, NothingAnnounced
  <2>4. Lifecycle!Submit(m)
    BY <2>1, <2>2, <2>3 DEF Lifecycle!Submit
  <2>5. QED
    BY <2>4 DEF Lifecycle!Next
<1>2. CASE Routing(m) \/ Trying(m) \/ Storing(m)
  BY <1>0, <1>2, InvisibleStep, InvisibleStutters
<1>3. CASE Concluding(m)
  <2>1. PICK s \in Verdicts : Conclude(m, s)
    BY <1>0, <1>3 DEF Concluding, AwaitApproval, ObserveOnly, Succeed, SetMissionFailed,
       Verdicts, At
  <2>2. pc[m] \notin Over \cup {"absent"}
    BY <1>3 DEF Concluding, AwaitApproval, ObserveOnly, Succeed, SetMissionFailed, At, Over
  <2>3. Lifecycle!Conclude(m)
    BY <2>1, <2>2, ConclusionConcludes
  <2>4. QED
    BY <2>3 DEF Lifecycle!Next
<1>4. CASE PublishVerdict(m)
  <2>1. /\ RunPhase[m] = "concluded"
        /\ RunPhase' = [RunPhase EXCEPT ![m] = "announced"]
        /\ verdict[m] \in Verdicts
        /\ UNCHANGED <<state, verdict, pending>>
        /\ Publish(m, Updated(verdict[m]))
    BY <1>0, <1>4 DEF PublishVerdict, At, Goto, RunPhase, ConclusionOK, Over, recordVars,
       runVars, cancelVars
  <2>2. Announced' = [Announced EXCEPT ![m] = @ \cup {verdict[m]}]
    <3>1. {s \in Verdicts \cup {"cancelled"} : Updated(s) = Updated(verdict[m])} = {verdict[m]}
      BY <2>1 DEF Updated
    <3>2. QED
      BY <1>0, <2>1, <3>1, AnnouncedByPublish, EventTypes
  <2>3. Lifecycle!AnnounceVerdict(m)
    BY <2>1, <2>2 DEF Lifecycle!AnnounceVerdict
  <2>4. QED
    BY <2>3 DEF Lifecycle!Next
<1>5. CASE Cancel(m)
  <2>1. /\ RunPhase[m] # "none"
        /\ state' = [state EXCEPT ![m] = "cancelled"]
        /\ pending' = [pending EXCEPT ![m] = @ + 1]
        /\ UNCHANGED <<verdict, pc, journal>>
    BY <1>0, <1>5 DEF Cancel, ConclusionOK, RunPhase, runVars
  <2>2. UNCHANGED <<RunPhase, Announced>>
    BY <2>1, NothingAnnounced DEF RunPhase
  <2>3. Lifecycle!Cancel(m)
    BY <2>1, <2>2 DEF Lifecycle!Cancel
  <2>4. QED
    BY <2>3 DEF Lifecycle!Next
<1>6. CASE PublishCancel(m)
  <2>1. /\ pending[m] > 0
        /\ pending' = [pending EXCEPT ![m] = @ - 1]
        /\ UNCHANGED <<state, verdict, pc>>
        /\ Publish(m, Updated("cancelled"))
    BY <1>6 DEF PublishCancel, recordVars, runVars
  <2>2. Announced' = [Announced EXCEPT ![m] = @ \cup {"cancelled"}]
    <3>1. {s \in Verdicts \cup {"cancelled"} : Updated(s) = Updated("cancelled")}
            = {"cancelled"}
      BY DEF Updated
    <3>2. QED
      BY <1>0, <2>1, <3>1, AnnouncedByPublish, EventTypes
  <2>3. UNCHANGED RunPhase
    BY <2>1 DEF RunPhase
  <2>4. Lifecycle!AnnounceCancel(m)
    BY <2>1, <2>2, <2>3 DEF Lifecycle!AnnounceCancel
  <2>5. QED
    BY <2>4 DEF Lifecycle!Next
<1>7. QED
  BY <1>1, <1>2, <1>3, <1>4, <1>5, <1>6 DEF Run

\* What does not take a step of a run is a stutter of the lifecycle too.
LEMMA LifecycleStep == IInv /\ [Next]_vars => [Lifecycle!Next]_(Lifecycle!vars)
<1> SUFFICES ASSUME IInv, [Next]_vars
             PROVE  Lifecycle!Next \/ UNCHANGED Lifecycle!vars
  OBVIOUS
<1>1. CASE Next
  BY <1>1, StepRefines DEF Next
<1>2. CASE UNCHANGED vars
  BY <1>2, NothingAnnounced
     DEF vars, recordVars, runVars, cancelVars, Lifecycle!vars, RunPhase
<1>3. QED
  BY <1>1, <1>2

\* What hosts see of the kernel is a behaviour of MissionLifecycle: one conclusion
\* for each run, and every announced state one that was written.
THEOREM ImplementsLifecycleSteps == Spec => StepsOfLifecycle
<1>1. Init => Lifecycle!Init
  <2> SUFFICES ASSUME Init
               PROVE  Lifecycle!Init
    OBVIOUS
  <2>1. /\ state = [m \in Mission |-> "absent"]
        /\ pc = [m \in Mission |-> "absent"]
        /\ verdict = [m \in Mission |-> "none"]
        /\ pending = [m \in Mission |-> 0]
        /\ journal = [m \in Mission |-> <<>>]
    BY DEF Init
  <2>2. RunPhase = [m \in Mission |-> "none"]
    BY <2>1 DEF RunPhase
  <2>3. Announced = [m \in Mission |-> {}]
    BY <2>1 DEF Announced, Events
  <2>4. QED
    BY <2>1, <2>2, <2>3 DEF Lifecycle!Init
<1>2. IInv /\ [Next]_vars => [Lifecycle!Next]_(Lifecycle!vars)
  BY LifecycleStep
<1>3. QED
  BY <1>1, <1>2, Invariance, PTL DEF Spec, Lifecycle!Spec, StepsOfLifecycle

-----------------------------------------------------------------------------
\* What services that submit missions see of the kernel: a mission is live while its run is
\* running.
Host == INSTANCE MissionHost WITH live <- {m \in Mission : RunPhase[m] = "running"}

\* The types the mapping needs, and that nobody has a run before the submission.
LEMMA PhaseTyped ==
  ASSUME IInv
  PROVE  /\ state \in [Mission -> Host!MissionState]
         /\ RunPhase \in [Mission -> {"none", "running", "concluded", "announced"}]
         /\ \A m \in Mission : RunPhase[m] = "none" <=> state[m] = "absent"
<1>1. /\ pc \in [Mission -> Steps]
      /\ state \in [Mission -> {"absent", "running", "cancelled"} \cup Verdicts]
      /\ ConclusionOK
  BY DEF IInv, TypeOK, RecordsTyped, RunsTyped
<1>2. QED
  BY <1>1 DEF RunPhase, ConclusionOK, Host!MissionState, Host!Verdicts, Verdicts

\* A submission, a conclusion and a cancellation are those of the services' view; they do not
\* see what is announced.
LEMMA StepsOfHost ==
  ASSUME IInv, [Lifecycle!Next]_(Lifecycle!vars)
  PROVE  [Host!HostNext]_(Host!hostVars)
<1> DEFINE phase == RunPhase
           after == RunPhase'
<1>0. /\ state \in [Mission -> Host!MissionState]
      /\ phase \in [Mission -> {"none", "running", "concluded", "announced"}]
      /\ \A m \in Mission : phase[m] = "none" <=> state[m] = "absent"
  BY PhaseTyped
<1>1. CASE UNCHANGED Lifecycle!vars
  <2>1. UNCHANGED <<state, RunPhase>>
    BY <1>1 DEF Lifecycle!vars
  <2>2. QED
    BY <2>1 DEF Host!hostVars
<1>2. ASSUME NEW m \in Mission, Lifecycle!Submit(m) PROVE Host!SubmitMission(m)
  <2>1. /\ phase[m] = "none" /\ after = [phase EXCEPT ![m] = "running"]
        /\ state' = [state EXCEPT ![m] = "running"]
    BY <1>2 DEF Lifecycle!Submit
  <2> HIDE DEF phase, after
  <2>2. {k \in Mission : after[k] = "running"} = {k \in Mission : phase[k] = "running"} \cup {m}
    BY <1>0, <2>1
  <2>3. QED
    BY <1>0, <2>1, <2>2 DEF Host!SubmitMission, phase, after
<1>3. ASSUME NEW m \in Mission, Lifecycle!Conclude(m) PROVE Host!Conclude(m)
  <2>1. /\ phase[m] = "running" /\ after = [phase EXCEPT ![m] = "concluded"]
        /\ \E v \in Host!Verdicts : state' = [state EXCEPT ![m] = v]
    BY <1>3 DEF Lifecycle!Conclude, Lifecycle!Verdicts, Host!Verdicts
  <2> HIDE DEF phase, after
  <2>2. {k \in Mission : after[k] = "running"} = {k \in Mission : phase[k] = "running"} \ {m}
    BY <1>0, <2>1
  <2>3. QED
    BY <1>0, <2>1, <2>2 DEF Host!Conclude, phase, after
<1>4. ASSUME NEW m \in Mission, Lifecycle!AnnounceVerdict(m) PROVE UNCHANGED Host!hostVars
  <2>1. phase[m] = "concluded" /\ after = [phase EXCEPT ![m] = "announced"] /\ state' = state
    BY <1>4 DEF Lifecycle!AnnounceVerdict
  <2> HIDE DEF phase, after
  <2>2. {k \in Mission : after[k] = "running"} = {k \in Mission : phase[k] = "running"}
    BY <1>0, <2>1
  <2>3. QED
    BY <2>1, <2>2 DEF Host!hostVars, phase, after
<1>5. ASSUME NEW m \in Mission, Lifecycle!Cancel(m) PROVE Host!CancelMission(m)
  <2>1. phase[m] # "none" /\ after = phase /\ state' = [state EXCEPT ![m] = "cancelled"]
    BY <1>5 DEF Lifecycle!Cancel
  <2>2. QED
    BY <1>0, <2>1 DEF Host!CancelMission
<1>6. ASSUME NEW m \in Mission, Lifecycle!AnnounceCancel(m) PROVE UNCHANGED Host!hostVars
  <2>1. UNCHANGED <<state, RunPhase>>
    BY <1>6 DEF Lifecycle!AnnounceCancel
  <2>2. QED
    BY <2>1 DEF Host!hostVars
<1>7. QED
  BY <1>1, <1>2, <1>3, <1>4, <1>5, <1>6 DEF Lifecycle!Next, Host!HostNext, Host!KernelStep

\* The missions the services submit and read are missions of the kernel: what is shown of a
\* service with MissionHost holds of it with the kernel (kernel.go:293-359, 771-797).
THEOREM ImplementsHost == Spec => Host!HostSpec
<1>1. Init => Host!HostInit
  <2> SUFFICES ASSUME Init
               PROVE  Host!HostInit
    OBVIOUS
  <2>1. state = [m \in Mission |-> "absent"] /\ \A m \in Mission : pc[m] = "absent"
    BY DEF Init
  <2>2. \A m \in Mission : RunPhase[m] # "running"
    BY <2>1 DEF RunPhase
  <2>3. QED
    BY <2>1, <2>2 DEF Host!HostInit
<1>2. IInv /\ [Next]_vars => [Host!HostNext]_(Host!hostVars)
  <2>1. IInv /\ [Next]_vars => [Lifecycle!Next]_(Lifecycle!vars)
    BY LifecycleStep
  <2>2. QED
    BY <2>1, StepsOfHost
<1>3. QED
  BY <1>1, <1>2, Invariance, PTL DEF Spec, Host!HostSpec
=============================================================================
