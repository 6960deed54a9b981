--------------------- MODULE OffscreenRuntimeHost_proofs ---------------------
(***************************************************************************)
(* Proofs about OffscreenRuntimeHost, for every catalogue of envelopes, any *)
(* replay window and any bound.                                            *)
(***************************************************************************)
EXTENDS OffscreenRuntimeHost, SequenceTheorems, TLAPS

USE DEF Records, Jobs, Executions, Kinds, Statuses, Terminal, Verdicts,
        Answers, PromptPcs, Pcs

\* What waits in a mutation queue are jobs.
LEMMA QueuedAreJobs ==
  ASSUME TypeOK, NEW k \in Records
  PROVE  Range(tail[k]) \subseteq Jobs
<1>1. tail[k] \in Seq(Jobs) BY DEF TypeOK
<1>2. \A n \in DOMAIN tail[k] : tail[k][n] \in Jobs BY <1>1
<1> QED BY <1>2 DEF Range

\* Appending an element and dropping the head keep a sequence in its type.
LEMMA QueueTypes ==
  ASSUME NEW S, NEW q \in Seq(S), NEW e \in S
  PROVE  /\ Append(q, e) \in Seq(S)
         /\ q # <<>> => Tail(q) \in Seq(S) /\ Head(q) \in S
         /\ Len(q) >= 1 => q # <<>>
OBVIOUS

\* Settling a request leaves what it assigns well typed.
LEMMA SettleType ==
  ASSUME TypeOK, NEW r \in Requests, NEW response \in Answers,
         NEW marked \in [Requests -> Statuses], Settle(r, response, marked)
  PROVE  /\ pc' \in [Requests -> Pcs]
         /\ answer' \in [Requests -> Answers]
         /\ ledger' \in [Requests -> Statuses]
         /\ completed' \in Seq(Requests)
<1>1. pc' \in [Requests -> Pcs] /\ answer' \in [Requests -> Answers]
  BY DEF TypeOK, Settle
<1>2. CASE disposal # "no" \/ Len(completed) < MaxCompleted
  <2>1. completed' = completed \/ completed' = Append(completed, r)
    BY <1>2 DEF Settle
  <2>2. ledger' = marked
    BY <1>2 DEF Settle
  <2>3. completed \in Seq(Requests) BY DEF TypeOK
  <2>4. Append(completed, r) \in Seq(Requests) BY <2>3, QueueTypes
  <2>5. completed' \in Seq(Requests) BY <2>1, <2>3, <2>4
  <2> QED BY <1>1, <2>2, <2>5
<1>3. CASE ~(disposal # "no" \/ Len(completed) < MaxCompleted)
  <2>1. completed # <<>>
    BY <1>3, WindowAssumption DEF TypeOK
  <2>2. Tail(completed) \in Seq(Requests)
    BY <2>1 DEF TypeOK
  <2>3. completed' = Append(Tail(completed), r)
        /\ ledger' = [marked EXCEPT ![Head(completed)] = "absent"]
    BY <1>3 DEF Settle
  <2> QED BY <1>1, <2>2, <2>3 DEF TypeOK
<1> QED BY <1>2, <1>3

\* The ledger with one execution marked terminal is a ledger.
LEMMA MarkType ==
  ASSUME TypeOK, NEW r \in Requests, NEW status \in Terminal
  PROVE  MarkTerminal(r, status) \in [Requests -> Statuses]
BY DEF TypeOK, MarkTerminal

\* Leaving the head of a mutation queue keeps queues and waiters well typed.
LEMMA LeaveTailType ==
  ASSUME TypeOK, NEW k, NEW job, k \in Records => tail[k] # <<>>, LeaveTail(k, job)
  PROVE  tail' \in [Records -> Seq(Jobs)] /\ waitFor' \in [Requests -> SUBSET Jobs]
<1>1. waitFor' \in [Requests -> SUBSET Jobs]
  BY DEF TypeOK, LeaveTail
<1>2. ASSUME k \in Records PROVE Tail(tail[k]) \in Seq(Jobs)
  <2>1. tail[k] \in Seq(Jobs) /\ tail[k] # <<>>
    BY <1>2 DEF TypeOK
  <2> QED BY <2>1
<1> QED BY <1>1, <1>2 DEF TypeOK, LeaveTail

\* Unregistering an execution keeps the record variables well typed.
LEMMA UnregisterType ==
  ASSUME TypeOK, NEW r \in Requests, Unregister(r)
  PROVE  prompt' \in [Records -> Requests \cup {None}]
         /\ active' \in [Records -> SUBSET Requests]
BY DEF TypeOK, Unregister

\* Advancing the revision of any record keeps revisions natural numbers.
LEMMA BumpType ==
  ASSUME TypeOK, NEW k
  PROVE  [rev EXCEPT ![k] = @ + 1] \in [Records -> Nat]
<1>1. rev \in [Records -> Nat] BY DEF TypeOK
<1>2. k \in Records => rev[k] + 1 \in Nat BY <1>1
<1> QED BY <1>1, <1>2

\* A request fails with one of the response codes.
LEMMA FailType ==
  ASSUME TypeOK, NEW r \in Requests, NEW code \in Answers, Fail(r, code)
  PROVE  /\ pc' \in [Requests -> Pcs]
         /\ answer' \in [Requests -> Answers]
         /\ ledger' \in [Requests -> Statuses]
         /\ completed' \in Seq(Requests)
BY SettleType, MarkType DEF Fail

\* The catch path of an execution keeps everything it touches well typed.
LEMMA FailExecutionType ==
  ASSUME TypeOK, NEW r \in Requests, FailExecution(r)
  PROVE  /\ pc' \in [Requests -> Pcs]
         /\ answer' \in [Requests -> Answers]
         /\ ledger' \in [Requests -> Statuses]
         /\ completed' \in Seq(Requests)
         /\ prompt' \in [Records -> Requests \cup {None}]
         /\ active' \in [Records -> SUBSET Requests]
<1>1. PICK status \in {"cancelled", "failed"} :
         Settle(r, IF status = "cancelled" THEN "ABORTED"
                   ELSE IF Inactive(r) \/ Unpublished(r) THEN Obstacle(r) ELSE "FAILED",
                MarkTerminal(r, status))
  BY DEF FailExecution
<1>2. Obstacle(r) \in Answers
  BY DEF Obstacle
<1> QED BY <1>1, <1>2, SettleType, MarkType, UnregisterType DEF FailExecution

\* The lemmas the step theorem cites, one per group of actions.

\* Admission, reading and acquisition keep every variable well typed.
LEMMA AdmissionType ==
  ASSUME TypeOK, NEW r \in Requests,
         \/ Handle(r) \/ CancelledBeforePreflight(r) \/ RefuseAtStart(r)
         \/ StartRead(r) \/ Read(r) \/ StartAcquisition(r) \/ TakeTurn(r)
         \/ Publish(r) \/ AcquisitionFails(r)
  PROVE  TypeOK'
<1> USE DEF recordVars, sessionVars, hostVars, abortVars, ledgerVars, flowVars
<1>1. CASE Handle(r)
  BY <1>1, BoundAssumption DEF TypeOK, Handle
<1>2. CASE CancelledBeforePreflight(r)
  <2>1. ledger \in [Requests -> Statuses] BY DEF TypeOK
  <2> QED BY <1>2, <2>1, SettleType DEF TypeOK, CancelledBeforePreflight
<1>3. CASE RefuseAtStart(r)
  <2>1. Obstacle(r) \in Answers BY DEF Obstacle
  <2> QED BY <1>3, <2>1, FailType DEF TypeOK, RefuseAtStart
<1>4. CASE StartRead(r)
  <2>1. published \in Records BY <1>4, BoundAssumption DEF TypeOK, StartRead, Reaches
  <2>2. Range(tail[published]) \subseteq Jobs BY <2>1, QueuedAreJobs
  <2> QED BY <1>4, <2>1, <2>2 DEF TypeOK, StartRead, AwaitTail
<1>5. CASE Read(r)
  <2>1. Obstacle(r) \in Answers BY DEF Obstacle
  <2>2. ledger \in [Requests -> Statuses] BY DEF TypeOK
  <2> QED BY <1>5, <2>1, <2>2, FailType, SettleType DEF TypeOK, Read
<1>6. CASE StartAcquisition(r)
  <2>1. acquiring' \in Seq(Requests) BY <1>6, QueueTypes DEF TypeOK, StartAcquisition
  <2> QED BY <1>6, <2>1 DEF TypeOK, StartAcquisition
<1>7. CASE TakeTurn(r)
  <2>1. acquiring' \in Seq(Requests)
    <3>1. acquiring \in Seq(Requests) BY DEF TypeOK
    <3>2. acquiring # <<>> BY <1>7 DEF TakeTurn, HasTurn
    <3>3. Tail(acquiring) \in Seq(Requests) BY <3>1, <3>2, QueueTypes
    <3>4. acquiring' \in {acquiring, Tail(acquiring)} BY <1>7 DEF TakeTurn
    <3> QED BY <3>1, <3>3, <3>4
  <2>2. CASE Inactive(r) \/ (Kind[r] = "create" /\ published # 0)
    <3>1. Obstacle(r) \in Answers BY DEF Obstacle
    <3>2. Fail(r, IF Inactive(r) THEN Obstacle(r) ELSE "SESSION_EXISTS")
          /\ UNCHANGED <<rec, waitFor>>
      BY <1>7, <2>2 DEF TakeTurn
    <3> QED BY <1>7, <2>1, <3>1, <3>2, FailType DEF TypeOK, TakeTurn
  <2>3. CASE ~Inactive(r) /\ Kind[r] = "load" /\ published # 0
    <3>1. published \in Records BY <2>3, BoundAssumption DEF TypeOK
    <3>2. Range(tail[published]) \subseteq Jobs BY <3>1, QueuedAreJobs
    <3>3. AwaitTail(r) /\ pc' = [pc EXCEPT ![r] = "reading"] /\ UNCHANGED ledgerVars
      BY <1>7, <2>3 DEF TakeTurn
    <3> QED BY <1>7, <2>1, <3>1, <3>2, <3>3 DEF TypeOK, TakeTurn, AwaitTail
  <2>4. CASE ~Inactive(r) /\ published = 0
    BY <1>7, <2>1, <2>4 DEF TypeOK, TakeTurn
  <2> QED BY <1>7, <2>2, <2>3, <2>4 DEF TakeTurn
<1>8. CASE Publish(r)
  <2>1. acquiring' \in Seq(Requests) BY <1>8, QueueTypes DEF TypeOK, Publish, HasTurn
  <2>2. born + 1 \in Records BY <1>8, BoundAssumption DEF TypeOK, Publish
  <2> QED BY <1>8, <2>1, <2>2 DEF TypeOK, Publish
<1>9. CASE AcquisitionFails(r)
  <2>1. acquiring' \in Seq(Requests)
    BY <1>9, QueueTypes DEF TypeOK, AcquisitionFails, HasTurn
  <2>2. Obstacle(r) \in Answers BY DEF Obstacle
  <2> QED BY <1>9, <2>1, <2>2, FailType DEF TypeOK, AcquisitionFails
<1> QED BY <1>1, <1>2, <1>3, <1>4, <1>5, <1>6, <1>7, <1>8, <1>9

\* So do mutations and agent events.
LEMMA MutationType ==
  ASSUME TypeOK,
         \/ \E r \in Requests : StartMutation(r) \/ ApplyMutation(r) \/ EndMutation(r)
         \/ \E e \in Events : AgentEvent(e)
         \/ \E k \in Records : DeliverEvent(k)
  PROVE  TypeOK'
<1> USE DEF recordVars, sessionVars, hostVars, abortVars, ledgerVars, flowVars
<1>1. ASSUME NEW job \in Jobs, published # 0, JoinTail(published, job)
      PROVE  tail' \in [Records -> Seq(Jobs)]
  <2>1. published \in Records /\ tail[published] \in Seq(Jobs)
    BY <1>1, BoundAssumption DEF TypeOK
  <2>2. Append(tail[published], job) \in Seq(Jobs) BY <2>1, QueueTypes
  <2> QED BY <1>1, <2>2 DEF TypeOK, JoinTail
<1>2. ASSUME NEW r \in Requests, StartMutation(r) PROVE TypeOK'
  <2>1. tail' \in [Records -> Seq(Jobs)]
    BY <1>1, <1>2 DEF StartMutation, Reaches
  <2> QED BY <1>2, <2>1 DEF TypeOK, StartMutation
<1>3. ASSUME NEW r \in Requests, ApplyMutation(r) PROVE TypeOK'
  <2>1. Obstacle(r) \in Answers BY DEF Obstacle
  <2>2. tail' \in [Records -> Seq(Jobs)] /\ waitFor' \in [Requests -> SUBSET Jobs]
    BY <1>3, LeaveTailType DEF TypeOK, ApplyMutation, AtHead
  <2>3. /\ pc' \in [Requests -> Pcs] /\ answer' \in [Requests -> Answers]
        /\ ledger' \in [Requests -> Statuses] /\ completed' \in Seq(Requests)
    BY <1>3, <2>1, FailType DEF TypeOK, ApplyMutation
  <2> QED BY <1>3, <2>2, <2>3 DEF TypeOK, ApplyMutation
<1>4. ASSUME NEW r \in Requests, EndMutation(r) PROVE TypeOK'
  <2>1. Obstacle(r) \in Answers BY DEF Obstacle
  <2>2. tail' \in [Records -> Seq(Jobs)] /\ waitFor' \in [Requests -> SUBSET Jobs]
    BY <1>4, LeaveTailType DEF EndMutation, AtHead
  <2>3. /\ pc' \in [Requests -> Pcs] /\ answer' \in [Requests -> Answers]
        /\ ledger' \in [Requests -> Statuses] /\ completed' \in Seq(Requests)
    <3>1. ledger \in [Requests -> Statuses] BY DEF TypeOK
    <3> QED BY <1>4, <2>1, <3>1, FailType, SettleType DEF EndMutation
  <2>4. rev' \in [Records -> Nat] BY <1>4, BumpType DEF TypeOK, EndMutation
  <2> QED BY <1>4, <2>2, <2>3, <2>4 DEF TypeOK, EndMutation
<1>5. ASSUME NEW e \in Events, AgentEvent(e) PROVE TypeOK'
  <2>1. tail' \in [Records -> Seq(Jobs)] BY <1>1, <1>5 DEF AgentEvent
  <2>2. inputs' \in 0..MaxInputs BY <1>5, BoundAssumption DEF TypeOK, AgentEvent
  <2>3. UNCHANGED <<ledgerVars, flowVars, abortVars, prompt, active, rev, sessionVars, disposal>>
    BY <1>5 DEF AgentEvent
  <2> QED BY <2>1, <2>2, <2>3 DEF TypeOK
<1>6. ASSUME NEW k \in Records, DeliverEvent(k) PROVE TypeOK'
  <2>1. tail' \in [Records -> Seq(Jobs)] /\ waitFor' \in [Requests -> SUBSET Jobs]
    BY <1>6, LeaveTailType DEF DeliverEvent
  <2>2. rev' \in [Records -> Nat] BY <1>6, BumpType DEF TypeOK, DeliverEvent
  <2>3. UNCHANGED <<ledgerVars, pc, rec, abortVars, prompt, active, sessionVars, hostVars>>
    BY <1>6 DEF DeliverEvent
  <2> QED BY <2>1, <2>2, <2>3 DEF TypeOK
<1> QED BY <1>2, <1>3, <1>4, <1>5, <1>6

\* So do the executions.
LEMMA ExecutionType ==
  ASSUME TypeOK, NEW r \in Requests,
         \/ RejectBusyPrompt(r) \/ StartExecution(r) \/ Prepared(r)
         \/ ApplyPreparation(r) \/ EndPreparation(r) \/ Prompted(r)
         \/ CommitPrompt(r) \/ TaskReturns(r) \/ CompleteExecution(r)
  PROVE  TypeOK'
<1> USE DEF recordVars, sessionVars, hostVars, abortVars, ledgerVars, flowVars
<1>1. ASSUME JoinTail(rec[r], r)
      PROVE  tail' \in [Records -> Seq(Jobs)]
  <2>1. rec[r] \in Records => tail[rec[r]] \in Seq(Jobs) BY DEF TypeOK
  <2>2. rec[r] \in Records => Append(tail[rec[r]], r) \in Seq(Jobs) BY <2>1, QueueTypes
  <2> QED BY <1>1, <2>2 DEF TypeOK, JoinTail
<1>2. ASSUME LeaveTail(rec[r], r), AtHead(r)
      PROVE  tail' \in [Records -> Seq(Jobs)] /\ waitFor' \in [Requests -> SUBSET Jobs]
  BY <1>2, LeaveTailType DEF AtHead
<1>3. ledger \in [Requests -> Statuses] BY DEF TypeOK
<1>4. CASE RejectBusyPrompt(r)
  BY <1>4, SettleType, MarkType DEF TypeOK, RejectBusyPrompt
<1>5. CASE StartExecution(r)
  BY <1>5 DEF TypeOK, Busy, StartExecution
<1>6. CASE Prepared(r)
  <2>1. CASE JoinTail(rec[r], r) /\ pc' = [pc EXCEPT ![r] = "queued"]
             /\ UNCHANGED <<ledgerVars, prompt, active>>
    BY <1>1, <1>6, <2>1 DEF TypeOK, Prepared
  <2>2. CASE pc' = [pc EXCEPT ![r] = "prompting"] /\ UNCHANGED <<ledgerVars, prompt, active, tail>>
    BY <1>6, <2>2 DEF TypeOK, Prepared
  <2>3. CASE FailExecution(r) /\ UNCHANGED tail
    BY <1>6, <2>3, FailExecutionType DEF TypeOK, Prepared
  <2> QED BY <1>6, <2>1, <2>2, <2>3 DEF Prepared
<1>7. CASE ApplyPreparation(r)
  <2>1. CASE LeaveTail(rec[r], r) /\ FailExecution(r)
    BY <1>2, <1>7, <2>1, FailExecutionType DEF TypeOK, ApplyPreparation
  <2>2. CASE pc' = [pc EXCEPT ![r] = "applying"]
             /\ UNCHANGED <<ledgerVars, waitFor, prompt, active, tail>>
    BY <1>7, <2>2 DEF TypeOK, ApplyPreparation
  <2> QED BY <1>7, <2>1, <2>2 DEF ApplyPreparation
<1>8. CASE EndPreparation(r)
  <2>1. CASE /\ rev' = [rev EXCEPT ![rec[r]] = @ + 1]
             /\ pc' = [pc EXCEPT ![r] = "prompting"]
             /\ UNCHANGED <<ledgerVars, prompt, active>>
    BY <1>2, <1>8, <2>1, BumpType DEF TypeOK, EndPreparation
  <2>2. CASE FailExecution(r) /\ UNCHANGED rev
    BY <1>2, <1>8, <2>2, FailExecutionType DEF TypeOK, EndPreparation
  <2> QED BY <1>8, <2>1, <2>2 DEF EndPreparation
<1>9. CASE Prompted(r)
  <2>1. CASE JoinTail(rec[r], r) /\ pc' = [pc EXCEPT ![r] = "commit-queued"]
             /\ UNCHANGED <<ledgerVars, prompt, active>>
    BY <1>1, <1>9, <2>1 DEF TypeOK, Prompted
  <2>2. CASE FailExecution(r) /\ UNCHANGED tail
    BY <1>9, <2>2, FailExecutionType DEF TypeOK, Prompted
  <2> QED BY <1>9, <2>1, <2>2 DEF Prompted
<1>10. CASE CommitPrompt(r)
  <2>1. CASE FailExecution(r) /\ UNCHANGED rev
    BY <1>2, <1>10, <2>1, FailExecutionType DEF TypeOK, CommitPrompt
  <2>2. CASE /\ rev' = [rev EXCEPT ![rec[r]] = @ + 1]
             /\ pc' = [pc EXCEPT ![r] = "returned"]
             /\ UNCHANGED <<ledgerVars, prompt, active>>
    BY <1>2, <1>10, <2>2, BumpType DEF TypeOK, CommitPrompt
  <2> QED BY <1>10, <2>1, <2>2 DEF CommitPrompt
<1>11. CASE TaskReturns(r)
  <2>1. CASE pc' = [pc EXCEPT ![r] = "returned"] /\ UNCHANGED <<ledgerVars, prompt, active>>
    BY <1>11, <2>1 DEF TypeOK, TaskReturns
  <2>2. CASE FailExecution(r)
    BY <1>11, <2>2, FailExecutionType DEF TypeOK, TaskReturns
  <2> QED BY <1>11, <2>1, <2>2 DEF TaskReturns
<1>12. CASE CompleteExecution(r)
  <2>1. CASE FailExecution(r)
    BY <1>12, <2>1, FailExecutionType DEF TypeOK, CompleteExecution
  <2>2. CASE Unregister(r) /\ Settle(r, "ok", MarkTerminal(r, "succeeded"))
    BY <1>12, <2>2, UnregisterType, SettleType, MarkType DEF TypeOK, CompleteExecution
  <2> QED BY <1>12, <2>1, <2>2 DEF CompleteExecution
<1> QED BY <1>4, <1>5, <1>6, <1>7, <1>8, <1>9, <1>10, <1>11, <1>12

\* So do release, abort and dispose.
LEMMA ControlType ==
  ASSUME TypeOK,
         \/ \E r \in Requests : \/ StartRelease(r) \/ RemoveSession(r) \/ ReleaseFails(r)
                               \/ Released(r) \/ HandleAbort(r)
                               \/ ProcessCancellation(r) \/ AbortReturns(r)
         \/ Dispose
         \/ FinishDispose
  PROVE  TypeOK'
<1> USE DEF recordVars, sessionVars, hostVars, abortVars, ledgerVars, flowVars
<1>1. ledger \in [Requests -> Statuses] BY DEF TypeOK
<1>2. published # 0 => published \in Records BY BoundAssumption DEF TypeOK
<1>3. ASSUME NEW r \in Requests, StartRelease(r) PROVE TypeOK'
  <2>1. CASE Fail(r, "SESSION_BUSY") /\ UNCHANGED <<rec, waitFor>>
    BY <1>3, <2>1, FailType DEF TypeOK, StartRelease
  <2>2. CASE AwaitTail(r) /\ pc' = [pc EXCEPT ![r] = "releasing"] /\ UNCHANGED ledgerVars
    <3>1. Range(tail[published]) \subseteq Jobs
      BY <1>2, <1>3, QueuedAreJobs DEF StartRelease, Reaches
    <3> QED BY <1>3, <2>2, <3>1 DEF TypeOK, StartRelease, AwaitTail
  <2> QED BY <1>3, <2>1, <2>2 DEF StartRelease
<1>4. ASSUME NEW r \in Requests, RemoveSession(r) PROVE TypeOK'
  <2>1. rec[r] \in Records => active[rec[r]] \subseteq Requests BY DEF TypeOK
  <2>2. published # 0 /\ rec[r] = published => rec[r] \in Records BY <1>2
  <2>3. aborted' \subseteq Requests /\ active' \in [Records -> SUBSET Requests]
        /\ live' \subseteq Records
    BY <1>4, <2>1, <2>2 DEF TypeOK, RemoveSession, Unpublished
  <2>4. published' \in 0..MaxInputs /\ pc' \in [Requests -> Pcs]
    BY <1>4, BoundAssumption DEF TypeOK, RemoveSession
  <2> QED BY <1>4, <2>3, <2>4 DEF TypeOK, RemoveSession
<1>5. ASSUME NEW r \in Requests, ReleaseFails(r) PROVE TypeOK'
  <2>1. Obstacle(r) \in Answers BY DEF Obstacle
  <2> QED BY <1>5, <2>1, FailType DEF TypeOK, ReleaseFails
<1>6. ASSUME NEW r \in Requests, Released(r) PROVE TypeOK'
  BY <1>1, <1>6, SettleType DEF TypeOK, Released
<1>7. ASSUME NEW a \in Requests, HandleAbort(a) PROVE TypeOK'
  <2> DEFINE t == TargetOf[a]
  <2>1. t \in Requests BY TargetAssumption
  <2>2. CancelVerdict(t) \in Verdicts BY DEF CancelVerdict
  <2>3. CancelStatus(t) \in Statuses BY <1>1, <2>1 DEF CancelStatus
  <2>4. ledger' \in [Requests -> Statuses] BY <1>1, <1>7, <2>3 DEF HandleAbort
  <2>5. verdict' \in [Requests -> Verdicts] BY <1>7, <2>2 DEF HandleAbort, TypeOK
  <2>6. aborted' \subseteq Requests BY <1>7, <2>1 DEF HandleAbort, TypeOK
  <2>7. inputs' \in 0..MaxInputs BY <1>7, BoundAssumption DEF HandleAbort, TypeOK
  <2> QED BY <1>7, <2>4, <2>5, <2>6, <2>7 DEF TypeOK, HandleAbort
<1>8. ASSUME NEW a \in Requests, ProcessCancellation(a) PROVE TypeOK'
  <2>1. TargetOf[a] \in Requests BY TargetAssumption
  <2>2. AnswerTo(a) \in Answers BY DEF TypeOK, AnswerTo
  <2>3. aborted' \subseteq Requests BY <1>8, <2>1 DEF ProcessCancellation, TypeOK
  <2>4. CASE pc' = [pc EXCEPT ![a] = "aborting"] /\ UNCHANGED ledgerVars
    BY <1>8, <2>3, <2>4 DEF TypeOK, ProcessCancellation
  <2>5. CASE Settle(a, AnswerTo(a), ledger)
    BY <1>1, <1>8, <2>2, <2>3, <2>5, SettleType DEF TypeOK, ProcessCancellation
  <2> QED BY <1>8, <2>4, <2>5 DEF ProcessCancellation
<1>9. ASSUME NEW a \in Requests, AbortReturns(a) PROVE TypeOK'
  <2>1. PICK response \in Answers : Settle(a, response, ledger) BY <1>9 DEF AbortReturns
  <2> QED BY <1>1, <1>9, <2>1, SettleType DEF TypeOK, AbortReturns
<1>10. CASE Dispose
  <2>1. published # 0 => active[published] \subseteq Requests BY <1>2 DEF TypeOK
  <2>2. aborted' \subseteq Requests BY <1>10, <2>1 DEF Dispose, TypeOK
  <2>3. published' \in 0..MaxInputs /\ live' \subseteq Records /\ completed' \in Seq(Requests)
    BY <1>10, BoundAssumption DEF Dispose, TypeOK
  <2> QED BY <1>10, <2>2, <2>3 DEF TypeOK, Dispose
<1>11. CASE FinishDispose
  <2>1. published # 0 => active[published] \subseteq Requests BY <1>2 DEF TypeOK
  <2>2. aborted' \subseteq Requests BY <1>11, <2>1 DEF FinishDispose, TypeOK
  <2>3. published' \in 0..MaxInputs /\ live' \subseteq Records /\ completed' \in Seq(Requests)
    BY <1>11, BoundAssumption DEF FinishDispose, TypeOK
  <2> QED BY <1>11, <2>2, <2>3 DEF TypeOK, FinishDispose
<1> QED BY <1>3, <1>4, <1>5, <1>6, <1>7, <1>8, <1>9, <1>10, <1>11

\* Every step of the host keeps every variable well typed.
LEMMA TypeStep == TypeOK /\ [Next]_vars => TypeOK'
<1> SUFFICES ASSUME TypeOK, [Next]_vars PROVE TypeOK' OBVIOUS
<1>1. CASE UNCHANGED vars
  BY <1>1 DEF TypeOK, vars, recordVars, sessionVars, hostVars, abortVars, ledgerVars, flowVars
<1>2. CASE Next
  BY <1>2, AdmissionType, MutationType, ExecutionType, ControlType DEF Next, Progress
<1> QED BY <1>1, <1>2

\* Type correctness: in every reachable state of the host, for any catalogue of
\* envelopes, every variable has its type.
THEOREM TypeCorrect == Spec => []TypeOK
<1>1. Init => TypeOK
  BY BoundAssumption DEF Init, TypeOK
<1> QED BY <1>1, TypeStep, PTL DEF Spec

-----------------------------------------------------------------------------
(* The inductive invariants. *)

\* What the ledger, the in-flight requests and the replay window have to do with
\* each other: the window holds each settled request once and no other.
Retention ==
  disposal = "no" =>
    /\ \A r \in Requests : InFlight(r) => ledger[r] # "absent"
    /\ \A i \in 1..Len(completed) :
          ledger[completed[i]] # "absent" /\ ~InFlight(completed[i])
    /\ \A i, j \in 1..Len(completed) : completed[i] = completed[j] => i = j
    /\ \A r \in Requests : ~InFlight(r) /\ ledger[r] # "absent" =>
          \E i \in 1..Len(completed) : completed[i] = r

\* The busy flag of a record and the prompt in progress on it name each other.
Ownership ==
  /\ \A r \in Requests : OwnsPrompt(r) => rec[r] \in Records /\ prompt[rec[r]] = r
  /\ NoStaleBusyFlag

\* A step that neither admits nor settles a request keeps the window.
LEMMA RetentionFrame ==
  ASSUME Retention, completed' = completed, disposal' = disposal,
         \A q \in Requests : pc'[q] = "idle" <=> pc[q] = "idle",
         \A q \in Requests : ledger'[q] = "absent" <=> ledger[q] = "absent",
         TypeOK
  PROVE  Retention'
<1>1. \A i \in 1..Len(completed) : completed[i] \in Requests
  BY DEF TypeOK
<1> QED BY <1>1 DEF Retention, InFlight

\* Settling an in-flight request keeps the window: it is appended, and only the
\* oldest settled request is forgotten.
LEMMA SettleRetention ==
  ASSUME TypeOK, Retention, NEW r \in Requests, InFlight(r),
         NEW response, NEW marked \in [Requests -> Statuses],
         disposal = "no" =>
            \A q \in Requests : marked[q] = "absent" <=> ledger[q] = "absent",
         Settle(r, response, marked), disposal' = disposal
  PROVE  Retention'
<1> SUFFICES ASSUME disposal = "no" PROVE Retention'
  BY DEF Retention
<1>1. completed \in Seq(Requests) /\ Len(completed) \in Nat
      /\ \A i \in 1..Len(completed) : completed[i] \in Requests
  BY DEF TypeOK
<1>2. pc' = [pc EXCEPT ![r] = "idle"] /\ pc \in [Requests -> Pcs]
  BY DEF Settle, TypeOK
<1>3. \A i \in 1..Len(completed) : completed[i] # r
  BY DEF Retention
<1>4. CASE Len(completed) < MaxCompleted
  <2>1. completed' = Append(completed, r) /\ ledger' = marked
    BY <1>4 DEF Settle
  <2>2. Len(completed') = Len(completed) + 1 /\ completed'[Len(completed) + 1] = r
        /\ \A i \in 1..Len(completed) : completed'[i] = completed[i]
    BY <1>1, <2>1
  <2> QED BY <1>1, <1>2, <1>3, <2>1, <2>2 DEF Retention, InFlight
<1>5. CASE ~(Len(completed) < MaxCompleted)
  <2> DEFINE n == Len(completed)
             oldest == completed[1]
  <2>1. n >= 1 BY <1>1, <1>5, WindowAssumption
  <2>2. /\ completed' = Append(Tail(completed), r)
        /\ ledger' = [marked EXCEPT ![oldest] = "absent"]
    BY <1>1, <1>5, <2>1 DEF Settle
  <2>3. /\ Len(completed') = n /\ completed'[n] = r
        /\ \A i \in 1..(n - 1) : completed'[i] = completed[i + 1]
    BY <1>1, <2>1, <2>2
  <2>4. oldest \in Requests /\ oldest # r /\ ~InFlight(oldest)
    BY <1>1, <1>3, <2>1 DEF Retention
  <2>5. /\ ledger'[oldest] = "absent"
        /\ \A q \in Requests \ {oldest} : ledger'[q] = "absent" <=> ledger[q] = "absent"
    BY <2>2, <2>4
  <2>6. \A q \in Requests : pc'[q] # "idle" <=> InFlight(q) /\ q # r
    BY <1>2 DEF InFlight
  <2>7. \A q \in Requests : pc'[q] # "idle" => ledger'[q] # "absent"
    BY <2>4, <2>5, <2>6 DEF Retention
  <2>8. ASSUME NEW i \in 1..n
        PROVE  ledger'[completed'[i]] # "absent" /\ pc'[completed'[i]] = "idle"
    <3>1. CASE i = n
      BY <2>3, <2>4, <2>5, <2>6, <3>1 DEF Retention
    <3>2. CASE i # n
      <4>1. i \in 1..(n - 1) /\ i + 1 \in 1..n /\ i + 1 # 1 BY <1>1, <3>2
      <4>2. completed'[i] = completed[i + 1] BY <2>3, <4>1
      <4>3. completed[i + 1] # oldest BY <1>1, <2>1, <4>1 DEF Retention
      <4>4. completed[i + 1] \in Requests BY <1>1, <4>1
      <4> QED BY <2>5, <2>6, <4>1, <4>2, <4>3, <4>4 DEF Retention
    <3> QED BY <3>1, <3>2
  <2>9. ASSUME NEW i \in 1..n, NEW j \in 1..n, completed'[i] = completed'[j]
        PROVE  i = j
    <3>1. CASE i = n \/ j = n
      BY <1>1, <1>3, <2>3, <2>9, <3>1
    <3>2. CASE i # n /\ j # n
      <4>1. i + 1 \in 1..n /\ j + 1 \in 1..n BY <1>1, <3>2
      <4>2. completed[i + 1] = completed[j + 1] BY <1>1, <2>3, <2>9, <3>2
      <4>3. i + 1 = j + 1 BY <4>1, <4>2 DEF Retention
      <4> QED BY <4>3
    <3> QED BY <3>1, <3>2
  <2>10. ASSUME NEW q \in Requests, pc'[q] = "idle", ledger'[q] # "absent"
         PROVE  \E i \in 1..n : completed'[i] = q
    <3>1. CASE q = r BY <1>1, <2>1, <2>3, <3>1
    <3>2. CASE q # r
      <4>1. ~InFlight(q) /\ q # oldest /\ ledger[q] # "absent"
        BY <2>4, <2>5, <2>6, <2>10, <3>2
      <4>2. PICK i \in 1..n : completed[i] = q BY <4>1 DEF Retention
      <4>3. i # 1 BY <4>1, <4>2
      <4>4. i - 1 \in 1..(n - 1) /\ i - 1 \in 1..n /\ (i - 1) + 1 = i BY <1>1, <4>2, <4>3
      <4>5. completed'[i - 1] = q BY <2>3, <4>2, <4>4
      <4> QED BY <4>4, <4>5
    <3> QED BY <3>1, <3>2
  <2> QED BY <2>3, <2>7, <2>8, <2>9, <2>10 DEF Retention, InFlight
<1> QED BY <1>4, <1>5

\* Marking an in-flight execution terminal forgets nothing and admits nothing.
LEMMA MarkRetention ==
  ASSUME TypeOK, Retention, NEW r \in Requests, InFlight(r), NEW status \in Terminal,
         disposal = "no"
  PROVE  \A q \in Requests : MarkTerminal(r, status)[q] = "absent" <=> ledger[q] = "absent"
<1>1. ledger[r] # "absent" BY DEF Retention
<1>2. ledger \in [Requests -> Statuses] BY DEF TypeOK
<1> QED BY <1>1, <1>2 DEF MarkTerminal

\* A failing request keeps the window.
LEMMA FailRetention ==
  ASSUME TypeOK, Retention, NEW r \in Requests, InFlight(r), NEW code, Fail(r, code),
         disposal' = disposal
  PROVE  Retention'
<1>1. MarkTerminal(r, "failed") \in [Requests -> Statuses] BY MarkType
<1>2. disposal = "no" => \A q \in Requests :
         MarkTerminal(r, "failed")[q] = "absent" <=> ledger[q] = "absent"
  BY MarkRetention
<1>3. Settle(r, code, MarkTerminal(r, "failed")) BY DEF Fail
<1> QED BY <1>1, <1>2, <1>3, SettleRetention

\* So does a failing execution.
LEMMA FailExecutionRetention ==
  ASSUME TypeOK, Retention, NEW r \in Requests, InFlight(r), FailExecution(r),
         disposal' = disposal
  PROVE  Retention'
<1>1. PICK status \in {"cancelled", "failed"} :
         Settle(r, IF status = "cancelled" THEN "ABORTED"
                   ELSE IF Inactive(r) \/ Unpublished(r) THEN Obstacle(r) ELSE "FAILED",
                MarkTerminal(r, status))
  BY DEF FailExecution
<1>2. MarkTerminal(r, status) \in [Requests -> Statuses] BY MarkType
<1>3. disposal = "no" => \A q \in Requests :
         MarkTerminal(r, status)[q] = "absent" <=> ledger[q] = "absent"
  BY MarkRetention
<1> QED BY <1>1, <1>2, <1>3, SettleRetention

\* Admitting a request the ledger does not retain keeps the window.
LEMMA AdmitRetention ==
  ASSUME TypeOK, Retention, NEW r \in Requests, disposal = "no", disposal' = disposal,
         ledger[r] = "absent", ledger'[r] # "absent", NEW next \in Pcs, next # "idle",
         pc' = [pc EXCEPT ![r] = next], completed' = completed,
         \A q \in Requests \ {r} : ledger'[q] = "absent" <=> ledger[q] = "absent"
  PROVE  Retention'
<1>1. \A i \in 1..Len(completed) : completed[i] \in Requests /\ completed[i] # r
  BY DEF TypeOK, Retention
<1>2. \A q \in Requests \ {r} : pc'[q] = pc[q]
  BY DEF TypeOK
<1>3. pc'[r] # "idle" BY DEF TypeOK
<1> QED BY <1>1, <1>2, <1>3 DEF Retention, InFlight

\* Every step keeps the replay window in order.
LEMMA RetentionStep == TypeOK /\ Retention /\ [Next]_vars => Retention'
<1> SUFFICES ASSUME TypeOK, Retention, [Next]_vars PROVE Retention' OBVIOUS
<1> USE DEF recordVars, sessionVars, hostVars, abortVars, ledgerVars, flowVars
<1>1. ledger \in [Requests -> Statuses] /\ pc \in [Requests -> Pcs] BY DEF TypeOK
<1>2. ASSUME NEW r \in Requests, NEW next \in Pcs, InFlight(r), next # "idle",
             pc' = [pc EXCEPT ![r] = next], completed' = completed, disposal' = disposal,
             \A q \in Requests : ledger'[q] = "absent" <=> ledger[q] = "absent"
      PROVE  Retention'
  <2>1. \A q \in Requests : pc'[q] = "idle" <=> pc[q] = "idle"
    BY <1>1, <1>2 DEF InFlight
  <2> QED BY <1>2, <2>1, RetentionFrame
<1>3. ASSUME NEW r \in Requests, InFlight(r), NEW response, Settle(r, response, ledger),
             disposal' = disposal
      PROVE  Retention'
  BY <1>1, <1>3, SettleRetention
<1>4. ASSUME pc' = pc, completed' = completed, ledger' = ledger, disposal' = disposal
      PROVE  Retention'
  BY <1>4, RetentionFrame
<1>5. ASSUME NEW r \in Requests, Handle(r) PROVE Retention'
  <2>1. /\ ledger'[r] = "queued"
        /\ \A q \in Requests \ {r} : ledger'[q] = ledger[q]
    BY <1>1, <1>5 DEF Handle
  <2> QED BY <1>5, <2>1, AdmitRetention DEF Handle
<1>6. ASSUME NEW a \in Requests, HandleAbort(a) PROVE Retention'
  <2> DEFINE t == TargetOf[a]
  <2>1. t \in Requests BY TargetAssumption
  <2>2. CancelStatus(t) = "absent" <=> ledger[t] = "absent"
    BY DEF CancelStatus, CancelVerdict
  <2>3. /\ ledger'[a] # "absent"
        /\ \A q \in Requests \ {a} : ledger'[q] = "absent" <=> ledger[q] = "absent"
    BY <1>1, <1>6, <2>1, <2>2 DEF HandleAbort
  <2> QED BY <1>6, <2>3, AdmitRetention DEF HandleAbort
<1>7. ASSUME NEW r \in Requests, Progress(r) PROVE Retention'
  <2>1. CASE CancelledBeforePreflight(r)
    BY <1>3, <2>1 DEF CancelledBeforePreflight, InFlight
  <2>2. CASE RefuseAtStart(r)
    BY <2>2, FailRetention DEF RefuseAtStart, InFlight
  <2>3. CASE StartRead(r)
    BY <1>2, <2>3 DEF StartRead, Reaches, InFlight
  <2>4. CASE Read(r)
    BY <1>3, <2>4, FailRetention DEF Read, InFlight
  <2>5. CASE StartAcquisition(r)
    BY <1>2, <2>5 DEF StartAcquisition, InFlight
  <2>6. CASE TakeTurn(r)
    BY <1>2, <2>6, FailRetention DEF TakeTurn, InFlight
  <2>7. CASE Publish(r)
    BY <1>2, <2>7 DEF Publish, InFlight
  <2>8. CASE AcquisitionFails(r)
    BY <2>8, FailRetention DEF AcquisitionFails, InFlight
  <2>9. CASE StartMutation(r)
    BY <1>2, <2>9 DEF StartMutation, Reaches, InFlight
  <2>10. CASE ApplyMutation(r)
    BY <1>2, <2>10, FailRetention DEF ApplyMutation, InFlight
  <2>11. CASE EndMutation(r)
    BY <1>3, <2>11, FailRetention DEF EndMutation, InFlight
  <2>12. CASE RejectBusyPrompt(r)
    <3>1. Fail(r, "SESSION_BUSY") /\ InFlight(r) /\ disposal' = disposal
      BY <2>12 DEF RejectBusyPrompt, Fail, Reaches, InFlight
    <3> QED BY <3>1, FailRetention
  <2>13. CASE StartExecution(r)
    <3>1. ledger[r] # "absent"
      BY <2>13 DEF StartExecution, Reaches, Inactive, Retention, InFlight
    <3>2. \A q \in Requests : ledger'[q] = "absent" <=> ledger[q] = "absent"
      BY <1>1, <2>13, <3>1 DEF StartExecution
    <3> QED BY <1>2, <2>13, <3>2 DEF StartExecution, Reaches, InFlight
  <2>14. CASE Prepared(r)
    BY <1>2, <2>14, FailExecutionRetention DEF Prepared, InFlight
  <2>15. CASE ApplyPreparation(r)
    BY <1>2, <2>15, FailExecutionRetention DEF ApplyPreparation, InFlight
  <2>16. CASE EndPreparation(r)
    BY <1>2, <2>16, FailExecutionRetention DEF EndPreparation, InFlight
  <2>17. CASE Prompted(r)
    BY <1>2, <2>17, FailExecutionRetention DEF Prompted, InFlight
  <2>18. CASE CommitPrompt(r)
    BY <1>2, <2>18, FailExecutionRetention DEF CommitPrompt, InFlight
  <2>19. CASE TaskReturns(r)
    BY <1>2, <2>19, FailExecutionRetention DEF TaskReturns, InFlight
  <2>20. CASE CompleteExecution(r)
    <3>1. CASE FailExecution(r)
      BY <2>20, <3>1, FailExecutionRetention DEF CompleteExecution, InFlight
    <3>2. CASE Settle(r, "ok", MarkTerminal(r, "succeeded"))
      <4>1. InFlight(r) /\ disposal' = disposal
        BY <2>20 DEF CompleteExecution, InFlight
      <4> QED BY <3>2, <4>1, MarkType, MarkRetention, SettleRetention
    <3> QED BY <2>20, <3>1, <3>2 DEF CompleteExecution
  <2>21. CASE StartRelease(r)
    BY <1>2, <2>21, FailRetention DEF StartRelease, Reaches, InFlight
  <2>22. CASE RemoveSession(r)
    BY <1>2, <2>22 DEF RemoveSession, InFlight
  <2>23. CASE ReleaseFails(r)
    BY <2>23, FailRetention DEF ReleaseFails, InFlight
  <2>24. CASE Released(r)
    BY <1>3, <2>24 DEF Released, InFlight
  <2>25. CASE ProcessCancellation(r)
    BY <1>2, <1>3, <2>25 DEF ProcessCancellation, InFlight
  <2>26. CASE AbortReturns(r)
    BY <1>3, <2>26 DEF AbortReturns, InFlight
  <2> QED BY <1>7, <2>1, <2>2, <2>3, <2>4, <2>5, <2>6, <2>7, <2>8, <2>9, <2>10, <2>11,
             <2>12, <2>13, <2>14, <2>15, <2>16, <2>17, <2>18, <2>19, <2>20, <2>21,
             <2>22, <2>23, <2>24, <2>25, <2>26 DEF Progress
<1>8. CASE \/ \E e \in Events : AgentEvent(e)
           \/ \E k \in Records : DeliverEvent(k)
           \/ UNCHANGED vars
  BY <1>4, <1>8 DEF AgentEvent, DeliverEvent, vars
<1>9. CASE Dispose \/ FinishDispose
  BY <1>9 DEF Dispose, FinishDispose, Retention
<1> QED BY <1>5, <1>6, <1>7, <1>8, <1>9 DEF Next

\* A retry always finds its first attempt, in flight or in the replay window:
\* handle never answers DUPLICATE_INCOMPLETE and never runs a request twice while
\* it is retained.
THEOREM RetryAlwaysFindsFirstAttempt == Spec => []RetryFindsFirstAttempt
<1>1. Init => Retention
  BY DEF Init, Retention, InFlight
<1>2. TypeOK /\ Retention => RetryFindsFirstAttempt
  <2> SUFFICES ASSUME TypeOK, Retention, disposal = "no", NEW r \in Requests
               PROVE  /\ InFlight(r) => ledger[r] # "absent" /\ r \notin Range(completed)
                      /\ ~InFlight(r) /\ ledger[r] # "absent" => r \in Range(completed)
    BY DEF RetryFindsFirstAttempt
  <2>1. DOMAIN completed = 1..Len(completed) BY DEF TypeOK
  <2> QED BY <2>1 DEF Retention, Range
<1>3. Spec => []TypeOK BY TypeCorrect
<1> QED BY <1>1, <1>2, <1>3, RetentionStep, PTL DEF Spec

-----------------------------------------------------------------------------
(* Ownership of a session by its prompt. *)

\* A step that touches no busy flag and no prompt in progress keeps ownership.
LEMMA OwnershipFrame ==
  ASSUME TypeOK, Ownership, prompt' = prompt,
         \A q \in Requests : (OwnsPrompt(q))' <=> OwnsPrompt(q),
         \A q \in Requests : OwnsPrompt(q) => rec'[q] = rec[q]
  PROVE  Ownership'
<1>1. \A q \in Requests : (OwnsPrompt(q))' => rec'[q] \in Records /\ prompt'[rec'[q]] = q
  BY DEF Ownership
<1>2. ASSUME NEW k \in Records, prompt'[k] # None
      PROVE  (OwnsPrompt(prompt[k]))' /\ rec'[prompt[k]] = k
  <2>1. prompt[k] \in Requests BY <1>2 DEF TypeOK
  <2>2. OwnsPrompt(prompt[k]) /\ rec[prompt[k]] = k
    BY <1>2 DEF Ownership, NoStaleBusyFlag
  <2> QED BY <2>1, <2>2
<1> QED BY <1>1, <1>2 DEF Ownership, NoStaleBusyFlag, OwnsPrompt

\* The step of one request from one place to another keeps ownership when
\* neither place belongs to a prompt that owns its session, or both do.
LEMMA MoveOwnership ==
  ASSUME TypeOK, Ownership, prompt' = prompt,
         NEW r \in Requests, NEW next \in Pcs, pc' = [pc EXCEPT ![r] = next],
         OwnsPrompt(r) <=> Kind[r] = "prompt" /\ next \in PromptPcs,
         \A q \in Requests : q # r \/ OwnsPrompt(r) => rec'[q] = rec[q]
  PROVE  Ownership'
<1>1. \A q \in Requests : (OwnsPrompt(q))' <=> OwnsPrompt(q)
  BY DEF TypeOK, OwnsPrompt
<1> QED BY <1>1, OwnershipFrame

\* When an execution unregisters and settles, its session is free again and no
\* other session is.
LEMMA EndOwnership ==
  ASSUME TypeOK, Ownership, NEW r \in Requests, Unregister(r),
         pc' = [pc EXCEPT ![r] = "idle"], rec' = rec,
         Kind[r] = "prompt" => pc[r] \in PromptPcs
  PROVE  Ownership'
<1>1. \A q \in Requests : (OwnsPrompt(q))' <=> OwnsPrompt(q) /\ q # r
  BY DEF TypeOK, OwnsPrompt
<1>2. CASE OwnsPrompt(r)
  <2>1. rec[r] \in Records /\ prompt[rec[r]] = r BY <1>2 DEF Ownership
  <2>2. /\ prompt'[rec[r]] = None
        /\ \A k \in Records \ {rec[r]} : prompt'[k] = prompt[k]
    BY <2>1 DEF Unregister, TypeOK
  <2>3. ASSUME NEW q \in Requests, (OwnsPrompt(q))'
        PROVE  rec'[q] \in Records /\ prompt'[rec'[q]] = q
    <3>1. OwnsPrompt(q) /\ q # r BY <1>1, <2>3
    <3>2. rec[q] \in Records /\ prompt[rec[q]] = q BY <3>1 DEF Ownership
    <3> QED BY <2>1, <2>2, <3>1, <3>2
  <2>4. ASSUME NEW k \in Records, prompt'[k] # None
        PROVE  /\ Kind[prompt'[k]] = "prompt" /\ pc'[prompt'[k]] \in PromptPcs
               /\ rec'[prompt'[k]] = k
    <3>1. k # rec[r] /\ prompt'[k] = prompt[k] BY <2>2, <2>4
    <3>2. prompt[k] \in Requests BY <2>4, <3>1 DEF TypeOK
    <3>3. OwnsPrompt(prompt[k]) /\ rec[prompt[k]] = k
      BY <2>4, <3>1 DEF Ownership, NoStaleBusyFlag
    <3>4. prompt[k] # r BY <3>1, <3>3
    <3>5. Kind[prompt[k]] = "prompt" /\ pc'[prompt[k]] \in PromptPcs
      BY <3>2, <3>3, <3>4 DEF OwnsPrompt, TypeOK
    <3> QED BY <3>1, <3>3, <3>5 DEF OwnsPrompt
  <2> QED BY <2>3, <2>4 DEF Ownership, NoStaleBusyFlag, OwnsPrompt
<1>3. CASE ~OwnsPrompt(r)
  <2>1. Kind[r] # "prompt" BY <1>3 DEF OwnsPrompt
  <2>2. rec[r] \in Records => prompt[rec[r]] # r
    BY <2>1, NoneAssumption DEF Ownership, NoStaleBusyFlag, OwnsPrompt
  <2>3. prompt' = prompt BY <2>2 DEF Unregister, TypeOK
  <2>4. \A q \in Requests : (OwnsPrompt(q))' <=> OwnsPrompt(q) BY <1>1, <1>3
  <2> QED BY <2>3, <2>4, OwnershipFrame
<1> QED BY <1>2, <1>3

\* A prompt takes a free session and no other.
LEMMA StartOwnership ==
  ASSUME TypeOK, Ownership, NEW r \in Requests, StartExecution(r)
  PROVE  Ownership'
<1>1. pc[r] = "accepted" /\ published \in Records /\ rec' = [rec EXCEPT ![r] = published]
  BY BoundAssumption DEF Busy, StartExecution, Reaches, TypeOK
<1>2. CASE Kind[r] # "prompt"
  <2>1. prompt' = prompt /\ pc' = [pc EXCEPT ![r] = "working"] /\ ~OwnsPrompt(r)
    BY <1>2 DEF Busy, StartExecution, OwnsPrompt
  <2>2. \A q \in Requests : q # r \/ OwnsPrompt(r) => rec'[q] = rec[q]
    BY <1>1, <2>1 DEF TypeOK
  <2> QED BY <1>2, <2>1, <2>2, MoveOwnership
<1>3. CASE Kind[r] = "prompt"
  <2>1. /\ prompt[published] = None
        /\ prompt' = [prompt EXCEPT ![published] = r]
        /\ pc' = [pc EXCEPT ![r] = "preparing"]
    BY <1>3 DEF Busy, StartExecution
  <2>2. ~OwnsPrompt(r) BY <1>1 DEF OwnsPrompt
  <2>3. \A q \in Requests \ {r} : rec'[q] = rec[q] /\ pc'[q] = pc[q]
    BY <1>1, <2>1 DEF TypeOK
  <2>4. rec'[r] = published /\ pc'[r] = "preparing" /\ prompt'[published] = r
    BY <1>1, <2>1 DEF TypeOK
  <2>5. \A k \in Records \ {published} : prompt'[k] = prompt[k]
    BY <2>1 DEF TypeOK
  <2>6. ASSUME NEW q \in Requests, (OwnsPrompt(q))'
        PROVE  rec'[q] \in Records /\ prompt'[rec'[q]] = q
    <3>1. CASE q = r BY <1>1, <2>4, <3>1
    <3>2. CASE q # r
      <4>1. OwnsPrompt(q) BY <2>3, <2>6, <3>2 DEF OwnsPrompt
      <4>2. rec[q] \in Records /\ prompt[rec[q]] = q BY <4>1 DEF Ownership
      <4>3. rec[q] # published BY <2>1, <4>2, NoneAssumption
      <4> QED BY <2>3, <2>5, <3>2, <4>2, <4>3
    <3> QED BY <3>1, <3>2
  <2>7. ASSUME NEW k \in Records, prompt'[k] # None
        PROVE  /\ Kind[prompt'[k]] = "prompt" /\ pc'[prompt'[k]] \in PromptPcs
               /\ rec'[prompt'[k]] = k
    <3>1. CASE k = published BY <1>3, <2>4, <3>1
    <3>2. CASE k # published
      <4>1. prompt'[k] = prompt[k] /\ prompt[k] \in Requests
        BY <2>5, <2>7, <3>2 DEF TypeOK
      <4>2. OwnsPrompt(prompt[k]) /\ rec[prompt[k]] = k
        BY <2>7, <4>1 DEF Ownership, NoStaleBusyFlag
      <4>3. prompt[k] # r BY <2>2, <4>2
      <4> QED BY <2>3, <4>1, <4>2, <4>3 DEF OwnsPrompt
    <3> QED BY <3>1, <3>2
  <2> QED BY <2>6, <2>7 DEF Ownership, NoStaleBusyFlag, OwnsPrompt
<1> QED BY <1>2, <1>3

\* Settling a request that owns no prompt keeps ownership.
LEMMA SettleOwnership ==
  ASSUME TypeOK, Ownership, NEW r \in Requests, ~OwnsPrompt(r),
         NEW response, NEW marked, Settle(r, response, marked) \/ Fail(r, response),
         prompt' = prompt, rec' = rec
  PROVE  Ownership'
<1>1. pc' = [pc EXCEPT ![r] = "idle"] BY DEF Settle, Fail
<1> QED BY <1>1, MoveOwnership

\* Every step keeps the ownership of sessions by their prompts.
LEMMA OwnershipStep == TypeOK /\ Retention /\ Ownership /\ [Next]_vars => Ownership'
<1> SUFFICES ASSUME TypeOK, Retention, Ownership, [Next]_vars PROVE Ownership' OBVIOUS
<1> USE DEF recordVars, sessionVars, hostVars, abortVars, ledgerVars, flowVars
<1>1. ASSUME pc' = pc, prompt' = prompt, rec' = rec PROVE Ownership'
  <2>1. \A q \in Requests : (OwnsPrompt(q))' <=> OwnsPrompt(q) BY <1>1 DEF OwnsPrompt
  <2> QED BY <1>1, <2>1, OwnershipFrame
<1>2. ASSUME NEW r \in Requests, NEW next \in Pcs, ~OwnsPrompt(r),
             Kind[r] # "prompt" \/ next \notin PromptPcs,
             pc' = [pc EXCEPT ![r] = next], prompt' = prompt,
             \A q \in Requests : q # r => rec'[q] = rec[q]
      PROVE  Ownership'
  BY <1>2, MoveOwnership
<1>3. ASSUME NEW r \in Requests, FailExecution(r), Kind[r] = "prompt" => pc[r] \in PromptPcs,
             rec' = rec
      PROVE  Ownership'
  <2>1. Unregister(r) /\ pc' = [pc EXCEPT ![r] = "idle"] BY <1>3 DEF FailExecution, Settle
  <2> QED BY <1>3, <2>1, EndOwnership
<1>4. ASSUME NEW r \in Requests, NEW k PROVE \A q \in Requests : q # r =>
             [rec EXCEPT ![r] = k][q] = rec[q]
  BY DEF TypeOK
<1>5. ASSUME NEW r \in Requests, Handle(r) PROVE Ownership'
  <2>1. ~OwnsPrompt(r)
    BY <1>5 DEF Handle, Retention, InFlight, OwnsPrompt
  <2> QED BY <1>2, <1>4, <1>5, <2>1 DEF Handle
<1>6. ASSUME NEW a \in Requests, HandleAbort(a) PROVE Ownership'
  <2>1. ~OwnsPrompt(a) BY <1>6 DEF HandleAbort, OwnsPrompt
  <2> QED BY <1>2, <1>6, <2>1 DEF HandleAbort
<1>7. ASSUME NEW r \in Requests, Progress(r) PROVE Ownership'
  <2>1. CASE CancelledBeforePreflight(r)
    BY <2>1, SettleOwnership DEF CancelledBeforePreflight, OwnsPrompt
  <2>2. CASE RefuseAtStart(r)
    BY <2>2, SettleOwnership DEF RefuseAtStart, OwnsPrompt
  <2>3. CASE StartRead(r)
    <3>1. /\ ~OwnsPrompt(r) /\ prompt' = prompt
          /\ rec' = [rec EXCEPT ![r] = published] /\ pc' = [pc EXCEPT ![r] = "reading"]
      BY <2>3 DEF StartRead, AwaitTail, Reaches, OwnsPrompt
    <3>2. \A q \in Requests : q # r => rec'[q] = rec[q] BY <1>4, <3>1
    <3> QED BY <1>2, <3>1, <3>2
  <2>4. CASE Read(r)
    <3>1. ~OwnsPrompt(r) /\ prompt' = prompt /\ rec' = rec BY <2>4 DEF Read, OwnsPrompt
    <3>2. Settle(r, "ok", ledger) \/ Fail(r, Obstacle(r)) BY <2>4 DEF Read
    <3> QED BY <3>1, <3>2, SettleOwnership
  <2>5. CASE StartAcquisition(r)
    BY <1>2, <2>5 DEF StartAcquisition, OwnsPrompt
  <2>6. CASE TakeTurn(r)
    <3>1. ~OwnsPrompt(r) /\ prompt' = prompt BY <2>6 DEF TakeTurn, OwnsPrompt
    <3>2. CASE Inactive(r) \/ (Kind[r] = "create" /\ published # 0)
      <4>1. Fail(r, IF Inactive(r) THEN Obstacle(r) ELSE "SESSION_EXISTS") /\ rec' = rec
        BY <2>6, <3>2 DEF TakeTurn
      <4> QED BY <3>1, <4>1, SettleOwnership
    <3>3. CASE pc' = [pc EXCEPT ![r] = "reading"] /\ AwaitTail(r)
      BY <1>2, <1>4, <3>1, <3>3 DEF AwaitTail
    <3>4. CASE pc' = [pc EXCEPT ![r] = "opening"] /\ rec' = rec
      BY <1>2, <3>1, <3>4
    <3> QED BY <2>6, <3>2, <3>3, <3>4 DEF TakeTurn
  <2>7. CASE Publish(r)
    BY <1>2, <1>4, <2>7 DEF Publish, OwnsPrompt
  <2>8. CASE AcquisitionFails(r)
    <3>1. ~OwnsPrompt(r) /\ prompt' = prompt /\ rec' = rec
          /\ Fail(r, IF Inactive(r) THEN Obstacle(r) ELSE "FAILED")
      BY <2>8 DEF AcquisitionFails, OwnsPrompt
    <3> QED BY <3>1, SettleOwnership
  <2>9. CASE StartMutation(r)
    <3>1. /\ ~OwnsPrompt(r) /\ Kind[r] # "prompt" /\ prompt' = prompt
          /\ rec' = [rec EXCEPT ![r] = published] /\ pc' = [pc EXCEPT ![r] = "queued"]
      BY <2>9 DEF StartMutation, Reaches, OwnsPrompt
    <3>2. \A q \in Requests : q # r => rec'[q] = rec[q] BY <1>4, <3>1
    <3> QED BY <1>2, <3>1, <3>2
  <2>10. CASE ApplyMutation(r)
    <3>1. ~OwnsPrompt(r) /\ Kind[r] # "prompt" /\ prompt' = prompt /\ rec' = rec
      BY <2>10 DEF ApplyMutation, OwnsPrompt
    <3>2. CASE Fail(r, IF Inactive(r) \/ Unpublished(r) THEN Obstacle(r)
                       ELSE "REVISION_CONFLICT")
      BY <3>1, <3>2, SettleOwnership
    <3>3. CASE pc' = [pc EXCEPT ![r] = "applying"]
      BY <1>2, <3>1, <3>3
    <3> QED BY <2>10, <3>2, <3>3 DEF ApplyMutation
  <2>11. CASE EndMutation(r)
    <3>1. ~OwnsPrompt(r) /\ prompt' = prompt /\ rec' = rec
      BY <2>11 DEF EndMutation, OwnsPrompt
    <3>2. \/ Settle(r, "ok", ledger)
          \/ Fail(r, IF Inactive(r) \/ Unpublished(r) THEN Obstacle(r) ELSE "FAILED")
      BY <2>11 DEF EndMutation
    <3> QED BY <3>1, <3>2, SettleOwnership
  <2>12. CASE RejectBusyPrompt(r)
    BY <2>12, SettleOwnership DEF RejectBusyPrompt, Reaches, OwnsPrompt
  <2>13. CASE StartExecution(r)
    BY <2>13, StartOwnership
  <2>14. CASE Prepared(r)
    BY <1>3, <2>14, MoveOwnership DEF Prepared, OwnsPrompt
  <2>15. CASE ApplyPreparation(r)
    BY <1>3, <2>15, MoveOwnership DEF ApplyPreparation, OwnsPrompt
  <2>16. CASE EndPreparation(r)
    BY <1>3, <2>16, MoveOwnership DEF EndPreparation, OwnsPrompt
  <2>17. CASE Prompted(r)
    BY <1>3, <2>17, MoveOwnership DEF Prompted, OwnsPrompt
  <2>18. CASE CommitPrompt(r)
    BY <1>3, <2>18, MoveOwnership DEF CommitPrompt, OwnsPrompt
  <2>19. CASE TaskReturns(r)
    BY <1>2, <1>3, <2>19 DEF TaskReturns, OwnsPrompt
  <2>20. CASE CompleteExecution(r)
    <3>1. CASE FailExecution(r)
      BY <1>3, <2>20, <3>1 DEF CompleteExecution
    <3>2. CASE Unregister(r) /\ Settle(r, "ok", MarkTerminal(r, "succeeded"))
      <4>1. pc' = [pc EXCEPT ![r] = "idle"] BY <3>2 DEF Settle
      <4> QED BY <2>20, <3>2, <4>1, EndOwnership DEF CompleteExecution
    <3> QED BY <2>20, <3>1, <3>2 DEF CompleteExecution
  <2>21. CASE StartRelease(r)
    <3>1. ~OwnsPrompt(r) /\ prompt' = prompt BY <2>21 DEF StartRelease, Reaches, OwnsPrompt
    <3>2. CASE Fail(r, "SESSION_BUSY") /\ rec' = rec
      BY <3>1, <3>2, SettleOwnership
    <3>3. CASE AwaitTail(r) /\ pc' = [pc EXCEPT ![r] = "releasing"]
      BY <1>2, <1>4, <3>1, <3>3 DEF AwaitTail
    <3> QED BY <2>21, <3>2, <3>3 DEF StartRelease
  <2>22. CASE RemoveSession(r)
    BY <1>2, <2>22 DEF RemoveSession, OwnsPrompt
  <2>23. CASE ReleaseFails(r)
    BY <2>23, SettleOwnership DEF ReleaseFails, OwnsPrompt
  <2>24. CASE Released(r)
    BY <2>24, SettleOwnership DEF Released, OwnsPrompt
  <2>25. CASE ProcessCancellation(r)
    BY <1>2, <2>25, SettleOwnership DEF ProcessCancellation, OwnsPrompt
  <2>26. CASE AbortReturns(r)
    BY <2>26, SettleOwnership DEF AbortReturns, OwnsPrompt
  <2> QED BY <1>7, <2>1, <2>2, <2>3, <2>4, <2>5, <2>6, <2>7, <2>8, <2>9, <2>10, <2>11,
             <2>12, <2>13, <2>14, <2>15, <2>16, <2>17, <2>18, <2>19, <2>20, <2>21,
             <2>22, <2>23, <2>24, <2>25, <2>26 DEF Progress
<1>8. CASE \/ \E e \in Events : AgentEvent(e)
           \/ \E k \in Records : DeliverEvent(k)
           \/ Dispose \/ FinishDispose \/ UNCHANGED vars
  BY <1>1, <1>8 DEF AgentEvent, DeliverEvent, Dispose, FinishDispose, vars
<1> QED BY <1>5, <1>6, <1>7, <1>8 DEF Next

\* Sessions and prompts own each other in every reachable state.
LEMMA OwnershipInvariant == Spec => []Ownership
<1>1. Init => Ownership
  BY DEF Init, Ownership, NoStaleBusyFlag, OwnsPrompt
<1>2. Init => Retention
  BY DEF Init, Retention, InFlight
<1>3. Spec => []TypeOK BY TypeCorrect
<1> QED BY <1>1, <1>2, <1>3, RetentionStep, OwnershipStep, PTL DEF Spec

\* No path of the host (error, abort, release, disposal) leaves a session marked
\* busy by a prompt that is no longer in progress on it.
THEOREM BusyFlagNeverStale == Spec => []NoStaleBusyFlag
<1>1. Ownership => NoStaleBusyFlag BY DEF Ownership
<1> QED BY <1>1, OwnershipInvariant, PTL

\* Two prompts never run on the same session record.
THEOREM PromptsExclusive == Spec => []OnePromptPerSession
<1>1. Ownership => OnePromptPerSession BY DEF Ownership, OnePromptPerSession
<1> QED BY <1>1, OwnershipInvariant, PTL

-----------------------------------------------------------------------------
(* What the step of one request leaves to the others *)

\* A step of one request leaves the program counter, answer and record of the others.
LEMMA ProgressTouches ==
  ASSUME TypeOK, NEW r \in Requests, Progress(r)
  PROVE  \A q \in Requests \ {r} : pc'[q] = pc[q] /\ answer'[q] = answer[q] /\ rec'[q] = rec[q]
<1> USE DEF recordVars, sessionVars, hostVars, abortVars, ledgerVars, flowVars
<1>1. pc \in [Requests -> Pcs] /\ answer \in [Requests -> Answers] /\ rec \in [Requests -> 0..MaxInputs]
  BY DEF TypeOK
<1>2. ASSUME NEW response, NEW marked, Settle(r, response, marked)
      PROVE  \A q \in Requests \ {r} : pc'[q] = pc[q] /\ answer'[q] = answer[q]
  BY <1>1, <1>2 DEF Settle
<1>3. ASSUME NEW code, Fail(r, code)
      PROVE  \A q \in Requests \ {r} : pc'[q] = pc[q] /\ answer'[q] = answer[q]
  BY <1>2, <1>3 DEF Fail
<1>4. ASSUME FailExecution(r)
      PROVE  \A q \in Requests \ {r} : pc'[q] = pc[q] /\ answer'[q] = answer[q]
  BY <1>2, <1>4 DEF FailExecution
<1>5. ASSUME NEW next, pc' = [pc EXCEPT ![r] = next], answer' = answer
      PROVE  \A q \in Requests \ {r} : pc'[q] = pc[q] /\ answer'[q] = answer[q]
  BY <1>1, <1>5
<1>6. ASSUME NEW k, rec' = [rec EXCEPT ![r] = k]
      PROVE  \A q \in Requests \ {r} : rec'[q] = rec[q]
  BY <1>1, <1>6
<1>7. CASE \/ CancelledBeforePreflight(r) \/ RefuseAtStart(r) \/ Read(r) \/ AcquisitionFails(r)
           \/ RejectBusyPrompt(r) \/ ReleaseFails(r) \/ Released(r) \/ AbortReturns(r)
  BY <1>7, <1>2, <1>3 DEF CancelledBeforePreflight, RefuseAtStart, Read, AcquisitionFails, RejectBusyPrompt,
     ReleaseFails, Released, AbortReturns
<1>8. CASE StartRead(r) \/ StartAcquisition(r) \/ Publish(r) \/ StartMutation(r) \/ StartExecution(r) \/ RemoveSession(r)
  BY <1>8, <1>5, <1>6 DEF StartRead, StartAcquisition, Publish, StartMutation, StartExecution, RemoveSession, AwaitTail
<1>9. CASE TakeTurn(r) \/ StartRelease(r) \/ ProcessCancellation(r)
  BY <1>9, <1>2, <1>3, <1>5, <1>6 DEF TakeTurn, StartRelease, ProcessCancellation, AwaitTail
<1>10. CASE ApplyMutation(r) \/ EndMutation(r)
  BY <1>10, <1>2, <1>3, <1>5 DEF ApplyMutation, EndMutation
<1>11. CASE \/ Prepared(r) \/ ApplyPreparation(r) \/ EndPreparation(r) \/ Prompted(r) \/ CommitPrompt(r)
            \/ TaskReturns(r) \/ CompleteExecution(r)
  BY <1>11, <1>2, <1>4, <1>5 DEF Prepared, ApplyPreparation, EndPreparation, Prompted, CommitPrompt, TaskReturns,
     CompleteExecution
<1> QED BY <1>7, <1>8, <1>9, <1>10, <1>11 DEF Progress

\* The step of a request settles it, or leaves it in progress with its answer as it was.
LEMMA ProgressGoes ==
  ASSUME TypeOK, NEW r \in Requests, Progress(r)
  PROVE  \/ \E response, marked : Settle(r, response, marked)
         \/ \E next \in Pcs \ {"idle"} : pc' = [pc EXCEPT ![r] = next] /\ answer' = answer
<1> USE DEF ledgerVars
<1>1. ASSUME NEW code, Fail(r, code) PROVE \E response, marked : Settle(r, response, marked)
  BY <1>1 DEF Fail
<1>2. ASSUME FailExecution(r) PROVE \E response, marked : Settle(r, response, marked)
  BY <1>2 DEF FailExecution
<1>3. CASE \/ CancelledBeforePreflight(r) \/ RefuseAtStart(r) \/ Read(r) \/ AcquisitionFails(r)
           \/ RejectBusyPrompt(r) \/ ReleaseFails(r) \/ Released(r) \/ AbortReturns(r)
  BY <1>1, <1>3 DEF CancelledBeforePreflight, RefuseAtStart, Read, AcquisitionFails, RejectBusyPrompt,
     ReleaseFails, Released, AbortReturns
<1>4. CASE StartRead(r) \/ StartAcquisition(r) \/ Publish(r) \/ StartMutation(r) \/ RemoveSession(r)
  BY <1>4 DEF StartRead, StartAcquisition, Publish, StartMutation, RemoveSession
<1>5. CASE StartExecution(r)
  <2>1. CASE Kind[r] = "prompt" BY <1>5, <2>1 DEF StartExecution
  <2>2. CASE Kind[r] # "prompt" BY <1>5, <2>2 DEF StartExecution
  <2> QED BY <2>1, <2>2
<1>6. CASE TakeTurn(r) \/ StartRelease(r) \/ ProcessCancellation(r)
  BY <1>1, <1>6 DEF TakeTurn, StartRelease, ProcessCancellation
<1>7. CASE ApplyMutation(r) \/ EndMutation(r)
  BY <1>1, <1>7 DEF ApplyMutation, EndMutation
<1>8. CASE \/ Prepared(r) \/ ApplyPreparation(r) \/ EndPreparation(r) \/ Prompted(r) \/ CommitPrompt(r)
           \/ TaskReturns(r) \/ CompleteExecution(r)
  BY <1>2, <1>8 DEF Prepared, ApplyPreparation, EndPreparation, Prompted, CommitPrompt, TaskReturns, CompleteExecution
<1> QED BY <1>3, <1>4, <1>5, <1>6, <1>7, <1>8 DEF Progress

-----------------------------------------------------------------------------
(* Disposal *)

\* The adapter being made is the one of the turn's holder, and there is no session
\* meanwhile; the only adapter not disposed is the published one's.
Acquisition ==
  /\ \A r \in Requests : pc[r] = "opening" => acquiring # <<>> /\ Head(acquiring) = r /\ published = 0
  /\ ShutdownHoldsNothing

\* A step that opens nothing keeps what is acquired.
LEMMA AcquisitionFrame ==
  ASSUME Acquisition, UNCHANGED <<published, live, acquiring, disposal>>,
         \A q \in Requests : pc'[q] = "opening" => pc[q] = "opening"
  PROVE  Acquisition'
BY DEF Acquisition, ShutdownHoldsNothing

\* Every step keeps it: an acquisition that lands after dispose has begun disposes of its adapter.
LEMMA AcquisitionStep ==
  ASSUME TypeOK, Retention, Acquisition, [Next]_vars
  PROVE  Acquisition'
<1> USE DEF recordVars, sessionVars, hostVars, abortVars, ledgerVars, flowVars
<1>1. pc \in [Requests -> Pcs] /\ acquiring \in Seq(Requests) /\ live \subseteq Records
      /\ published \in 0..MaxInputs /\ born \in 0..MaxInputs
  BY DEF TypeOK
<1>2. ASSUME NEW r \in Requests, NEW next, next # "opening", pc' = [pc EXCEPT ![r] = next],
             UNCHANGED <<published, live, acquiring, disposal>>
      PROVE  Acquisition'
  BY <1>1, <1>2, AcquisitionFrame
<1>3. ASSUME NEW r \in Requests, NEW response, NEW marked, Settle(r, response, marked),
             UNCHANGED <<published, live, acquiring, disposal>>
      PROVE  Acquisition'
  BY <1>2, <1>3 DEF Settle
<1>4. ASSUME NEW r \in Requests, NEW code, Fail(r, code), UNCHANGED <<published, live, acquiring, disposal>>
      PROVE  Acquisition'
  BY <1>3, <1>4 DEF Fail
<1>5. ASSUME NEW r \in Requests, FailExecution(r), UNCHANGED <<published, live, acquiring, disposal>>
      PROVE  Acquisition'
  BY <1>3, <1>5 DEF FailExecution
\* The turn of another than the holder of the adapter's cannot end.
<1>6. ASSUME NEW r \in Requests, HasTurn(r), acquiring' = Tail(acquiring), UNCHANGED <<published, live, disposal>>,
             NEW next, next # "opening", pc' = [pc EXCEPT ![r] = next]
      PROVE  Acquisition'
  <2>1. \A q \in Requests : pc'[q] # "opening"
    BY <1>1, <1>6 DEF HasTurn, Acquisition
  <2> QED BY <1>6, <2>1 DEF Acquisition, ShutdownHoldsNothing
<1>7. ASSUME NEW r \in Requests, Handle(r) \/ HandleAbort(r) PROVE Acquisition'
  BY <1>2, <1>7 DEF Handle, HandleAbort
<1>8. ASSUME NEW r \in Requests,
             \/ CancelledBeforePreflight(r) \/ RefuseAtStart(r) \/ Read(r) \/ RejectBusyPrompt(r)
             \/ ReleaseFails(r) \/ Released(r) \/ AbortReturns(r)
             \/ StartRead(r) \/ StartMutation(r) \/ ApplyMutation(r) \/ EndMutation(r)
             \/ StartRelease(r) \/ ProcessCancellation(r)
      PROVE  Acquisition'
  BY <1>2, <1>3, <1>4, <1>8 DEF CancelledBeforePreflight, RefuseAtStart, Read, RejectBusyPrompt, ReleaseFails,
     Released, AbortReturns, StartRead, StartMutation, ApplyMutation, EndMutation, StartRelease, ProcessCancellation
<1>9. ASSUME NEW r \in Requests,
             \/ Prepared(r) \/ ApplyPreparation(r) \/ EndPreparation(r) \/ Prompted(r) \/ CommitPrompt(r)
             \/ TaskReturns(r) \/ CompleteExecution(r)
      PROVE  Acquisition'
  BY <1>2, <1>3, <1>5, <1>9 DEF Prepared, ApplyPreparation, EndPreparation, Prompted, CommitPrompt, TaskReturns,
     CompleteExecution
<1>10. ASSUME NEW r \in Requests, StartExecution(r) PROVE Acquisition'
  <2>1. CASE Kind[r] = "prompt" BY <1>2, <1>10, <2>1 DEF StartExecution
  <2>2. CASE Kind[r] # "prompt" BY <1>2, <1>10, <2>2 DEF StartExecution
  <2> QED BY <2>1, <2>2
<1>11. ASSUME NEW r \in Requests, StartAcquisition(r) PROVE Acquisition'
  <2>1. /\ acquiring' = Append(acquiring, r) /\ pc' = [pc EXCEPT ![r] = "acquiring"]
        /\ UNCHANGED <<published, live, disposal>>
    BY <1>11 DEF StartAcquisition
  <2>2. acquiring # <<>> => acquiring' # <<>> /\ Head(acquiring') = Head(acquiring)
    BY <1>1, <2>1
  <2> QED BY <1>1, <2>1, <2>2 DEF Acquisition, ShutdownHoldsNothing
<1>12. ASSUME NEW r \in Requests, TakeTurn(r) PROVE Acquisition'
  <2>1. HasTurn(r) /\ pc[r] = "acquiring" /\ UNCHANGED <<published, live, disposal>>
    BY <1>12 DEF TakeTurn
  <2>2. ASSUME acquiring' = Tail(acquiring), NEW next \in {"idle", "reading"}, pc' = [pc EXCEPT ![r] = next]
        PROVE  Acquisition'
    BY <1>6, <2>1, <2>2
  <2>3. CASE pc' = [pc EXCEPT ![r] = "opening"] /\ acquiring' = acquiring /\ published = 0
    BY <1>1, <2>1, <2>3 DEF Acquisition, ShutdownHoldsNothing, HasTurn
  <2> QED BY <1>12, <2>2, <2>3 DEF TakeTurn, Fail, Settle
<1>13. ASSUME NEW r \in Requests, Publish(r) PROVE Acquisition'
  <2>1. /\ HasTurn(r) /\ pc[r] = "opening" /\ disposal = "no" /\ disposal' = disposal
        /\ live' = live \cup {born + 1} /\ published' = born + 1 /\ pc' = [pc EXCEPT ![r] = "reading"]
    BY <1>13 DEF Publish, Inactive
  <2>2. live = {}
    BY <1>1, <2>1, BoundAssumption DEF Acquisition, ShutdownHoldsNothing
  <2>3. \A q \in Requests : pc'[q] # "opening"
    BY <1>1, <2>1 DEF Acquisition, HasTurn
  <2> QED BY <2>1, <2>2, <2>3 DEF Acquisition, ShutdownHoldsNothing
<1>14. ASSUME NEW r \in Requests, AcquisitionFails(r) PROVE Acquisition'
  <2>1. pc' = [pc EXCEPT ![r] = "idle"]
    BY <1>14 DEF AcquisitionFails, Fail, Settle
  <2> QED BY <1>6, <1>14, <2>1 DEF AcquisitionFails
<1>15. ASSUME NEW r \in Requests, RemoveSession(r) PROVE Acquisition'
  <2>1. /\ rec[r] = published /\ published' = 0 /\ live' = live \ {rec[r]}
        /\ pc' = [pc EXCEPT ![r] = "removing"] /\ UNCHANGED <<acquiring, disposal>>
    BY <1>15 DEF RemoveSession, Unpublished
  <2> QED BY <1>1, <2>1 DEF Acquisition, ShutdownHoldsNothing
<1>16. CASE Dispose \/ FinishDispose
  BY <1>1, <1>16 DEF Dispose, FinishDispose, Acquisition, ShutdownHoldsNothing
<1>17. CASE \/ \E e \in Events : AgentEvent(e)
            \/ \E k \in Records : DeliverEvent(k)
            \/ UNCHANGED vars
  BY <1>17, AcquisitionFrame DEF AgentEvent, DeliverEvent, vars
<1> QED BY <1>7, <1>8, <1>9, <1>10, <1>11, <1>12, <1>13, <1>14, <1>15, <1>16, <1>17 DEF Next, Progress

\* Once dispose has begun no session is published again, and no adapter but the
\* published session's is left undisposed (performDispose, addSession).
THEOREM DisposalHoldsNothing == Spec => []ShutdownHoldsNothing
<1>1. Init => Acquisition
  BY DEF Init, Acquisition, ShutdownHoldsNothing
<1>2. Init => Retention
  BY DEF Init, Retention, InFlight
<1>3. Acquisition => ShutdownHoldsNothing
  BY DEF Acquisition
<1> QED BY <1>1, <1>2, <1>3, TypeCorrect, RetentionStep, AcquisitionStep, PTL DEF Spec

-----------------------------------------------------------------------------
(* replace-or-append-message *)

Replacing(r) == Kind[r] = "replace" /\ pc[r] = "applying"

\* From its check to its end a replace heads the queue of its record, whose revision
\* is the one it expects; a record published later is none of those in use.
Swapping ==
  /\ published <= born /\ \A r \in Requests : rec[r] <= born
  /\ \A r \in Requests : Replacing(r) =>
       rec[r] \in Records /\ AtHead(r) /\ rev[rec[r]] = Expected[r]

\* What is in progress goes on as it was.
LEMMA SwapFrame ==
  ASSUME Swapping, published' <= born', \A q \in Requests : rec'[q] <= born',
         \A q \in Requests : Replacing(q)' =>
            /\ Replacing(q) /\ rec'[q] = rec[q] /\ rev'[rec[q]] = rev[rec[q]]
            /\ tail'[rec[q]] # <<>> /\ Head(tail'[rec[q]]) = Head(tail[rec[q]])
  PROVE  Swapping'
BY DEF Swapping, AtHead

\* A request moves, with the revisions and the queues left as they are.
LEMMA SwapMove ==
  ASSUME TypeOK, Swapping, NEW r \in Requests, NEW next, next # "applying" \/ Kind[r] # "replace",
         pc' = [pc EXCEPT ![r] = next], UNCHANGED <<rev, tail, born>>, published' \in {published, 0},
         rec' = rec \/ (~Replacing(r) /\ \E k \in {0, published} : rec' = [rec EXCEPT ![r] = k])
  PROVE  Swapping'
<1>1. /\ pc \in [Requests -> Pcs] /\ rec \in [Requests -> 0..MaxInputs]
      /\ published \in 0..MaxInputs /\ born \in 0..MaxInputs
  BY DEF TypeOK
<1>2. published' <= born'
  BY <1>1, BoundAssumption DEF Swapping
<1>3. \A q \in Requests : rec'[q] <= born'
  BY <1>1, BoundAssumption DEF Swapping
<1>4. ASSUME NEW q \in Requests, Replacing(q)' PROVE Replacing(q) /\ rec'[q] = rec[q]
  BY <1>1, <1>4 DEF Replacing
<1> QED BY <1>2, <1>3, <1>4, SwapFrame DEF Swapping, AtHead

\* It joins a queue: what heads one still does.
LEMMA SwapJoin ==
  ASSUME TypeOK, Swapping, NEW r \in Requests, NEW next, next # "applying",
         pc' = [pc EXCEPT ![r] = next], UNCHANGED <<rev, born, published>>,
         NEW k \in Records, NEW job \in Jobs, JoinTail(k, job),
         rec' = rec \/ (~Replacing(r) /\ rec' = [rec EXCEPT ![r] = published])
  PROVE  Swapping'
<1>1. /\ pc \in [Requests -> Pcs] /\ rec \in [Requests -> 0..MaxInputs] /\ tail \in [Records -> Seq(Jobs)]
      /\ published \in 0..MaxInputs /\ born \in 0..MaxInputs
  BY DEF TypeOK
<1>2. \A q \in Requests : rec'[q] <= born' /\ published' <= born'
  BY <1>1, BoundAssumption DEF Swapping
<1>3. \A n \in Records : tail[n] # <<>> => tail'[n] # <<>> /\ Head(tail'[n]) = Head(tail[n])
  <2> SUFFICES ASSUME NEW n \in Records, tail[n] # <<>>
               PROVE  tail'[n] # <<>> /\ Head(tail'[n]) = Head(tail[n])
    OBVIOUS
  <2>1. tail[n] \in Seq(Jobs) BY <1>1
  <2>2. tail'[n] = tail[n] \/ tail'[n] = Append(tail[n], job) BY <1>1 DEF JoinTail
  <2> QED BY <2>1, <2>2
<1>4. ASSUME NEW q \in Requests, Replacing(q)' PROVE Replacing(q) /\ rec'[q] = rec[q]
  BY <1>1, <1>4 DEF Replacing
<1>5. published' <= born'
  BY <1>1 DEF Swapping
<1> QED BY <1>2, <1>3, <1>4, <1>5, SwapFrame DEF Swapping, AtHead

\* The head of a queue leaves it, its revision raised or not: no other replace heads it.
LEMMA SwapLeave ==
  ASSUME TypeOK, Swapping, NEW r \in Requests, NEW next, next # "applying",
         pc' = [pc EXCEPT ![r] = next], UNCHANGED <<rec, born, published>>,
         AtHead(r), LeaveTail(rec[r], r), rev' = rev \/ rev' = [rev EXCEPT ![rec[r]] = @ + 1]
  PROVE  Swapping'
<1>1. /\ pc \in [Requests -> Pcs] /\ rec \in [Requests -> 0..MaxInputs] /\ tail \in [Records -> Seq(Jobs)]
      /\ rev \in [Records -> Nat]
  BY DEF TypeOK
<1>2. ASSUME NEW q \in Requests, Replacing(q)'
      PROVE  Replacing(q) /\ tail'[rec[q]] = tail[rec[q]] /\ rev'[rec[q]] = rev[rec[q]]
  <2>1. q # r /\ Replacing(q) BY <1>1, <1>2 DEF Replacing
  <2>2. rec[q] \in Records /\ Head(tail[rec[q]]) = q BY <2>1 DEF Swapping, AtHead
  <2>3. rec[q] # rec[r] BY <2>1, <2>2 DEF AtHead
  <2> QED BY <1>1, <2>1, <2>2, <2>3 DEF LeaveTail
<1> QED BY <1>2, SwapFrame DEF Swapping, AtHead

\* A request that settles is idle.
LEMMA SwapSettle ==
  ASSUME TypeOK, Swapping, NEW r \in Requests,
         FailExecution(r) \/ (\E code : Fail(r, code)) \/ (\E response, marked : Settle(r, response, marked))
  PROVE  pc' = [pc EXCEPT ![r] = "idle"]
BY DEF FailExecution, Fail, Settle

\* The steps of the session's queue keep it: one entry at a time runs (enqueue).
LEMMA SwapQueueSteps ==
  ASSUME TypeOK, Swapping, NEW r \in Requests,
         \/ StartMutation(r) \/ ApplyMutation(r) \/ EndMutation(r)
         \/ Prepared(r) \/ ApplyPreparation(r) \/ EndPreparation(r) \/ Prompted(r) \/ CommitPrompt(r)
  PROVE  Swapping'
<1> USE DEF recordVars, sessionVars, hostVars, abortVars, ledgerVars, flowVars
<1>1. /\ pc \in [Requests -> Pcs] /\ rec \in [Requests -> 0..MaxInputs] /\ tail \in [Records -> Seq(Jobs)]
      /\ published \in 0..MaxInputs /\ born \in 0..MaxInputs
  BY DEF TypeOK
<1>2. ASSUME NEW k, JoinTail(k, r), UNCHANGED <<rev, born, published>>, NEW next, next # "applying",
             pc' = [pc EXCEPT ![r] = next],
             rec' = rec \/ (~Replacing(r) /\ rec' = [rec EXCEPT ![r] = published])
      PROVE  Swapping'
  <2>1. CASE k \in Records BY <1>2, <2>1, SwapJoin
  <2>2. CASE k \notin Records
    <3>1. tail' = tail BY <1>1, <1>2, <2>2 DEF JoinTail
    <3> QED BY <1>2, <3>1, SwapMove
  <2> QED BY <2>1, <2>2
<1>3. CASE StartMutation(r)
  BY <1>2, <1>3 DEF StartMutation, Reaches, Replacing
<1>4. CASE ApplyMutation(r)
  <2>1. pc[r] = "queued" /\ AtHead(r) /\ UNCHANGED <<rec, rev, born, published>>
    BY <1>4 DEF ApplyMutation
  <2>2. CASE Inactive(r) \/ Unpublished(r) \/ RevisionConflict(r)
    <3>1. LeaveTail(rec[r], r) /\ pc' = [pc EXCEPT ![r] = "idle"]
      BY <1>4, <2>2, SwapSettle DEF ApplyMutation
    <3> QED BY <2>1, <3>1, SwapLeave
  <2>3. CASE ~(Inactive(r) \/ Unpublished(r) \/ RevisionConflict(r))
    <3>1. /\ pc' = [pc EXCEPT ![r] = "applying"] /\ tail' = tail
          /\ rec[r] = published /\ published \in Records
          /\ Kind[r] = "replace" => Expected[r] = rev[rec[r]]
      BY <1>1, <1>4, <2>3, BoundAssumption DEF ApplyMutation, Unpublished, RevisionConflict
    <3>2. ASSUME NEW q \in Requests, Replacing(q)'
          PROVE  rec[q] \in Records /\ AtHead(q) /\ rev[rec[q]] = Expected[q]
      <4>1. CASE q = r BY <2>1, <3>1, <3>2, <4>1 DEF Replacing
      <4>2. CASE q # r
        <5>1. Replacing(q) BY <1>1, <3>1, <3>2, <4>2 DEF Replacing
        <5> QED BY <5>1 DEF Swapping
      <4> QED BY <4>1, <4>2
    <3> QED BY <2>1, <3>1, <3>2 DEF Swapping, AtHead
  <2> QED BY <2>2, <2>3
<1>5. CASE EndMutation(r)
  <2>1. /\ AtHead(r) /\ LeaveTail(rec[r], r) /\ UNCHANGED <<rec, born, published>>
        /\ rev' = rev \/ rev' = [rev EXCEPT ![rec[r]] = @ + 1]
        /\ pc' = [pc EXCEPT ![r] = "idle"]
    BY <1>5, SwapSettle DEF EndMutation
  <2> QED BY <2>1, SwapLeave
<1>6. CASE Prepared(r) \/ Prompted(r)
  <2>1. CASE JoinTail(rec[r], r)
             /\ \E next \in {"queued", "commit-queued"} : pc' = [pc EXCEPT ![r] = next]
    BY <1>2, <1>6, <2>1 DEF Prepared, Prompted
  <2>2. CASE tail' = tail /\ \E next \in {"prompting", "idle"} : pc' = [pc EXCEPT ![r] = next]
    BY <1>6, <2>2, SwapMove DEF Prepared, Prompted
  <2> QED BY <1>6, <2>1, <2>2, SwapSettle DEF Prepared, Prompted
<1>7. CASE ApplyPreparation(r)
  <2>1. AtHead(r) /\ Kind[r] = "prompt" /\ UNCHANGED <<rec, rev, born, published>>
    BY <1>7 DEF ApplyPreparation
  <2>2. CASE LeaveTail(rec[r], r) /\ pc' = [pc EXCEPT ![r] = "idle"]
    BY <2>1, <2>2, SwapLeave
  <2>3. CASE tail' = tail /\ pc' = [pc EXCEPT ![r] = "applying"]
    BY <2>1, <2>3, SwapMove
  <2> QED BY <1>7, <2>2, <2>3, SwapSettle DEF ApplyPreparation
<1>8. CASE EndPreparation(r) \/ CommitPrompt(r)
  <2>1. /\ AtHead(r) /\ LeaveTail(rec[r], r) /\ UNCHANGED <<rec, born, published>>
        /\ rev' = rev \/ rev' = [rev EXCEPT ![rec[r]] = @ + 1]
        /\ \E next \in {"idle", "prompting", "returned"} : pc' = [pc EXCEPT ![r] = next]
    BY <1>8, SwapSettle DEF EndPreparation, CommitPrompt
  <2> QED BY <2>1, SwapLeave
<1> QED BY <1>3, <1>4, <1>5, <1>6, <1>7, <1>8

\* Every step keeps it.
LEMMA SwapStep ==
  ASSUME TypeOK, Retention, Swapping, [Next]_vars
  PROVE  Swapping'
<1> USE DEF recordVars, sessionVars, hostVars, abortVars, ledgerVars, flowVars
<1>1. /\ pc \in [Requests -> Pcs] /\ rec \in [Requests -> 0..MaxInputs] /\ tail \in [Records -> Seq(Jobs)]
      /\ published \in 0..MaxInputs /\ born \in 0..MaxInputs /\ rev \in [Records -> Nat]
  BY DEF TypeOK
<1>2. ASSUME NEW r \in Requests, Handle(r) PROVE Swapping'
  <2>1. ~Replacing(r)
    BY <1>2 DEF Handle, Retention, InFlight, Replacing
  <2> QED BY <1>2, <2>1, SwapMove DEF Handle
<1>3. ASSUME NEW r \in Requests, HandleAbort(r) PROVE Swapping'
  BY <1>3, SwapMove DEF HandleAbort
<1>4. ASSUME NEW r \in Requests,
             \/ CancelledBeforePreflight(r) \/ RefuseAtStart(r) \/ Read(r) \/ RejectBusyPrompt(r)
             \/ AcquisitionFails(r) \/ ReleaseFails(r) \/ Released(r) \/ AbortReturns(r)
             \/ TaskReturns(r) \/ CompleteExecution(r)
      PROVE  Swapping'
  <2>1. UNCHANGED <<rec, rev, tail, born, published>>
    BY <1>4 DEF CancelledBeforePreflight, RefuseAtStart, Read, RejectBusyPrompt, AcquisitionFails, ReleaseFails,
       Released, AbortReturns, TaskReturns, CompleteExecution
  <2>2. \E next \in {"idle", "returned"} : pc' = [pc EXCEPT ![r] = next]
    BY <1>4, SwapSettle DEF CancelledBeforePreflight, RefuseAtStart, Read, RejectBusyPrompt, AcquisitionFails,
       ReleaseFails, Released, AbortReturns, TaskReturns, CompleteExecution
  <2> QED BY <2>1, <2>2, SwapMove
<1>5. ASSUME NEW r \in Requests, StartRead(r) \/ StartAcquisition(r) \/ StartRelease(r) \/ RemoveSession(r)
      PROVE  Swapping'
  <2>1. UNCHANGED <<rev, tail, born>> /\ published' \in {published, 0}
    BY <1>5 DEF StartRead, StartAcquisition, StartRelease, RemoveSession
  <2>2. \E next \in {"reading", "acquiring", "releasing", "removing", "idle"} : pc' = [pc EXCEPT ![r] = next]
    BY <1>5, SwapSettle DEF StartRead, StartAcquisition, StartRelease, RemoveSession
  <2>3. rec' = rec \/ (~Replacing(r) /\ rec' = [rec EXCEPT ![r] = published])
    BY <1>5 DEF StartRead, StartAcquisition, StartRelease, RemoveSession, AwaitTail, Reaches, Replacing
  <2> QED BY <2>1, <2>2, <2>3, SwapMove
<1>6. ASSUME NEW r \in Requests, TakeTurn(r) PROVE Swapping'
  <2>1. UNCHANGED <<rev, tail, born, published>> /\ ~Replacing(r)
    BY <1>6 DEF TakeTurn, Replacing
  <2>2. \E next \in {"reading", "opening", "idle"} : pc' = [pc EXCEPT ![r] = next]
    BY <1>6, SwapSettle DEF TakeTurn
  <2>3. rec' = rec \/ rec' = [rec EXCEPT ![r] = published]
    BY <1>6 DEF TakeTurn, AwaitTail
  <2> QED BY <2>1, <2>2, <2>3, SwapMove
<1>7. ASSUME NEW r \in Requests, Publish(r) PROVE Swapping'
  <2>1. /\ born' = born + 1 /\ published' = born + 1 /\ rec' = [rec EXCEPT ![r] = born + 1] /\ tail' = tail
        /\ \E n : rev' = [rev EXCEPT ![born + 1] = n]
        /\ pc' = [pc EXCEPT ![r] = "reading"]
    BY <1>7 DEF Publish
  <2>2. \A q \in Requests : rec'[q] <= born'
    BY <1>1, <2>1 DEF Swapping
  <2>3. ASSUME NEW q \in Requests, Replacing(q)'
        PROVE  /\ Replacing(q) /\ rec'[q] = rec[q] /\ rev'[rec[q]] = rev[rec[q]]
               /\ tail'[rec[q]] # <<>> /\ Head(tail'[rec[q]]) = Head(tail[rec[q]])
    <3>1. q # r /\ Replacing(q) BY <1>1, <2>1, <2>3 DEF Replacing
    <3>2. rec[q] \in Records /\ AtHead(q) /\ rec[q] # born + 1
      BY <1>1, <3>1, BoundAssumption DEF Swapping
    <3> QED BY <1>1, <2>1, <3>1, <3>2 DEF AtHead
  <2>4. published' <= born' BY <1>1, <2>1
  <2> QED BY <2>2, <2>3, <2>4, SwapFrame
<1>8. ASSUME NEW r \in Requests, StartExecution(r) PROVE Swapping'
  <2>1. UNCHANGED <<rev, tail, born, published>> /\ ~Replacing(r) /\ rec' = [rec EXCEPT ![r] = published]
    BY <1>8 DEF StartExecution, Reaches, Replacing
  <2>2. \E next \in {"preparing", "working"} : pc' = [pc EXCEPT ![r] = next]
    BY <1>8 DEF StartExecution
  <2> QED BY <2>1, <2>2, SwapMove
<1>9. ASSUME NEW r \in Requests, ProcessCancellation(r) PROVE Swapping'
  <2>1. UNCHANGED <<rec, rev, tail, born, published>> /\ \E next \in {"aborting", "idle"} : pc' = [pc EXCEPT ![r] = next]
    BY <1>9, SwapSettle DEF ProcessCancellation
  <2> QED BY <2>1, SwapMove
<1>10. ASSUME NEW e \in Events, AgentEvent(e) PROVE Swapping'
  <2>1. /\ JoinTail(published, e) /\ published \in Records /\ UNCHANGED <<pc, rec, rev, born, published>>
    BY <1>1, <1>10, BoundAssumption DEF AgentEvent
  <2>2. ASSUME NEW q \in Requests, Replacing(q)'
        PROVE  /\ Replacing(q) /\ rec'[q] = rec[q] /\ rev'[rec[q]] = rev[rec[q]]
               /\ tail'[rec[q]] # <<>> /\ Head(tail'[rec[q]]) = Head(tail[rec[q]])
    <3>1. Replacing(q) /\ rec[q] \in Records /\ tail[rec[q]] # <<>> /\ tail[rec[q]] \in Seq(Jobs)
      BY <1>1, <2>1, <2>2 DEF Replacing, Swapping, AtHead
    <3>2. tail'[rec[q]] = tail[rec[q]] \/ tail'[rec[q]] = Append(tail[rec[q]], e)
      BY <1>1, <2>1, <3>1 DEF JoinTail
    <3> QED BY <2>1, <3>1, <3>2
  <2> QED BY <2>1, <2>2, SwapFrame DEF Swapping
<1>11. ASSUME NEW k \in Records, DeliverEvent(k) PROVE Swapping'
  <2>1. /\ tail' = [tail EXCEPT ![k] = Tail(@)] /\ Head(tail[k]) \in Events
        /\ UNCHANGED <<pc, rec, born, published>>
        /\ rev' = rev \/ rev' = [rev EXCEPT ![k] = @ + 1]
    BY <1>11 DEF DeliverEvent, LeaveTail
  <2>2. ASSUME NEW q \in Requests, Replacing(q)'
        PROVE  /\ Replacing(q) /\ rec'[q] = rec[q] /\ rev'[rec[q]] = rev[rec[q]]
               /\ tail'[rec[q]] # <<>> /\ Head(tail'[rec[q]]) = Head(tail[rec[q]])
    <3>1. Replacing(q) /\ rec[q] \in Records /\ tail[rec[q]] # <<>> /\ Head(tail[rec[q]]) = q
      BY <2>1, <2>2 DEF Replacing, Swapping, AtHead
    <3>2. rec[q] # k BY <2>1, <3>1, JobAssumption
    <3> QED BY <1>1, <2>1, <3>1, <3>2
  <2> QED BY <2>1, <2>2, SwapFrame DEF Swapping
<1>12. CASE Dispose \/ FinishDispose \/ UNCHANGED vars
  <2>1. UNCHANGED <<pc, rec, rev, tail, born>> /\ published' \in {published, 0}
    BY <1>12 DEF Dispose, FinishDispose, vars
  <2>2. published' <= born' BY <1>1, <2>1 DEF Swapping
  <2> QED BY <2>1, <2>2 DEF Swapping, Replacing, AtHead
<1> QED BY <1>2, <1>3, <1>4, <1>5, <1>6, <1>7, <1>8, <1>9, <1>10, <1>11, <1>12, SwapQueueSteps DEF Next, Progress

\* It holds in every behaviour.
LEMMA SwapInvariant == Spec => [](TypeOK /\ Retention /\ Swapping)
<1>1. Init => Swapping
  BY BoundAssumption DEF Init, Swapping, Replacing
<1>2. Init => Retention
  BY DEF Init, Retention, InFlight
<1> QED BY <1>1, <1>2, TypeCorrect, RetentionStep, SwapStep, PTL DEF Spec

\* A replace that is answered ok was a compare-and-swap: the revision it expected was
\* current until its step, although the adapter's call lies between check and increment
\* (replaceOrAppendMessage in withSessionMutation).
THEOREM ReplaceSwaps == Spec => ReplaceIsCompareAndSwap
<1>1. TypeOK /\ Retention /\ Swapping /\ [Next]_vars =>
        [\A r \in Requests :
            Kind[r] = "replace" /\ pc[r] = "applying" /\ pc'[r] = "idle" /\ answer'[r] = "ok" =>
               /\ rev[rec[r]] = Expected[r]
               /\ rev'[rec[r]] = Expected[r] + 1]_vars
  <2> SUFFICES ASSUME TypeOK, Retention, Swapping, Next, NEW r \in Requests,
                      Kind[r] = "replace", pc[r] = "applying", pc'[r] = "idle", answer'[r] = "ok"
               PROVE  rev[rec[r]] = Expected[r] /\ rev'[rec[r]] = Expected[r] + 1
    OBVIOUS
  <2> USE DEF recordVars, sessionVars, hostVars, abortVars, ledgerVars, flowVars
  <2>1. /\ pc \in [Requests -> Pcs] /\ rev \in [Records -> Nat] /\ answer \in [Requests -> Answers]
        /\ rec[r] \in Records /\ rev[rec[r]] = Expected[r]
    BY DEF TypeOK, Swapping, Replacing
  <2>2. EndMutation(r)
    <3>1. CASE \E q \in Requests \ {r} : Progress(q)
      BY <3>1, ProgressTouches
    <3>2. CASE \E q \in Requests : Handle(q)
      <4>1. PICK q \in Requests : Handle(q) BY <3>2
      <4>2. pc' = [pc EXCEPT ![q] = "accepted"] BY <4>1 DEF Handle
      <4> QED BY <2>1, <4>2
    <3>3. CASE \E q \in Requests : HandleAbort(q)
      <4>1. PICK q \in Requests : HandleAbort(q) BY <3>3
      <4>2. pc' = [pc EXCEPT ![q] = "cancelling"] BY <4>1 DEF HandleAbort
      <4> QED BY <2>1, <4>2
    <3>4. CASE Progress(r)
      BY <3>4 DEF Progress, CancelledBeforePreflight, RefuseAtStart, StartRead, Read, StartAcquisition, TakeTurn,
         Publish, AcquisitionFails, StartMutation, ApplyMutation, RejectBusyPrompt, StartExecution, Prepared,
         ApplyPreparation, EndPreparation, Prompted, CommitPrompt, TaskReturns, CompleteExecution, StartRelease,
         RemoveSession, ReleaseFails, Released, ProcessCancellation, AbortReturns, Reaches
    <3>5. CASE \/ \E e \in Events : AgentEvent(e)
               \/ \E k \in Records : DeliverEvent(k)
               \/ Dispose \/ FinishDispose
      BY <3>5 DEF AgentEvent, DeliverEvent, Dispose, FinishDispose
    <3> QED BY <3>1, <3>2, <3>3, <3>4, <3>5 DEF Next
  <2>3. rev' = [rev EXCEPT ![rec[r]] = @ + 1]
    <3>1. ASSUME NEW code, code # "ok", Fail(r, code) PROVE FALSE
      BY <2>1, <3>1 DEF Fail, Settle
    <3>2. (IF Inactive(r) \/ Unpublished(r) THEN Obstacle(r) ELSE "FAILED") # "ok"
      BY DEF Obstacle
    <3> QED BY <2>2, <3>1, <3>2 DEF EndMutation
  <2> QED BY <2>1, <2>3
<1> QED BY <1>1, SwapInvariant, PTL DEF Spec, ReplaceIsCompareAndSwap
-----------------------------------------------------------------------------
(* Aborts *)

\* The execution is at work: past its start, short of its answer.
Works(r) == \/ Kind[r] = "prompt" /\ pc[r] \in PromptPcs
            \/ Kind[r] = "task" /\ pc[r] \in {"working", "returned"}

\* What a record lists as active is at work on that record, an execution in progress
\* has not succeeded, and nothing in progress has been answered.
Abortable ==
  /\ \A k \in Records : \A t \in active[k] : Works(t) /\ rec[t] = k
  /\ \A r \in Requests : IsExecution(r) /\ InFlight(r) =>
        ledger[r] # "succeeded" /\ (pc[r] = "accepted" \/ Works(r))
  /\ \A r \in Requests : InFlight(r) => answer[r] = "none"

\* Only r moves, and it is registered only while it works.
LEMMA AbortMove ==
  ASSUME TypeOK, Abortable, NEW r \in Requests,
         \A q \in Requests \ {r} : /\ pc'[q] = pc[q] /\ answer'[q] = answer[q] /\ rec'[q] = rec[q]
                                   /\ ledger'[q] = "succeeded" => ledger[q] = "succeeded",
         \A k \in Records : active'[k] \subseteq active[k] \cup {r},
         \A k \in Records : r \in active'[k] => Works(r)' /\ rec'[r] = k,
         IsExecution(r) /\ pc'[r] # "idle" => ledger'[r] # "succeeded" /\ (pc'[r] = "accepted" \/ Works(r)'),
         pc'[r] # "idle" => answer'[r] = "none"
  PROVE  Abortable'
<1>1. \A q \in Requests \ {r} : Works(q)' <=> Works(q)
  BY DEF Works
<1>2. ASSUME NEW k \in Records, NEW t \in active'[k] PROVE Works(t)' /\ rec'[t] = k
  <2>1. CASE t = r BY <1>2, <2>1
  <2>2. CASE t # r
    <3>1. t \in active[k] /\ t \in Requests BY <1>2, <2>2 DEF TypeOK
    <3> QED BY <1>1, <2>2, <3>1 DEF Abortable
  <2> QED BY <2>1, <2>2
<1>3. ASSUME NEW q \in Requests, IsExecution(q), pc'[q] # "idle"
      PROVE  ledger'[q] # "succeeded" /\ (pc'[q] = "accepted" \/ Works(q)')
  <2>1. CASE q = r BY <1>3, <2>1
  <2>2. CASE q # r BY <1>1, <1>3, <2>2 DEF Abortable, InFlight
  <2> QED BY <2>1, <2>2
<1>4. \A q \in Requests : pc'[q] # "idle" => answer'[q] = "none"
  BY DEF Abortable, InFlight
<1> QED BY <1>2, <1>3, <1>4 DEF Abortable, InFlight, IsExecution

\* A request settles; the ledger it leaves makes no success of another.
LEMMA AbortSettle ==
  ASSUME TypeOK, Abortable, NEW r \in Requests, NEW response, NEW marked, Settle(r, response, marked),
         marked \in [Requests -> Statuses],
         \A q \in Requests \ {r} : marked[q] = "succeeded" => ledger[q] = "succeeded",
         rec' = rec, (~Works(r) /\ active' = active) \/ Unregister(r)
  PROVE  Abortable'
<1>1. pc \in [Requests -> Pcs] /\ answer \in [Requests -> Answers] /\ active \in [Records -> SUBSET Requests]
      /\ rec \in [Requests -> 0..MaxInputs]
  BY DEF TypeOK
<1>2. pc' = [pc EXCEPT ![r] = "idle"] /\ answer' = [answer EXCEPT ![r] = response]
  BY DEF Settle
<1>3. pc'[r] = "idle" /\ \A q \in Requests \ {r} : pc'[q] = pc[q] /\ answer'[q] = answer[q]
  BY <1>1, <1>2
<1>4. \A q \in Requests \ {r} : ledger'[q] = "succeeded" => ledger[q] = "succeeded"
  BY DEF Settle
<1>5. \A k \in Records : active'[k] \subseteq active[k] /\ r \notin active'[k]
  <2>1. CASE ~Works(r) /\ active' = active
    BY <2>1 DEF Abortable
  <2>2. CASE Unregister(r)
    <3>1. active' = [active EXCEPT ![rec[r]] = @ \ {r}] BY <2>2 DEF Unregister
    <3>2. \A k \in Records : r \in active[k] => rec[r] = k BY DEF Abortable
    <3> QED BY <1>1, <3>1, <3>2
  <2> QED BY <2>1, <2>2
<1> QED BY <1>3, <1>4, <1>5, AbortMove

\* The same of a request that fails, and of an execution that does.
LEMMA AbortFail ==
  ASSUME TypeOK, Abortable, NEW r \in Requests, NEW code, Fail(r, code), rec' = rec,
         ~Works(r), active' = active
  PROVE  Abortable'
<1>1. MarkTerminal(r, "failed") \in [Requests -> Statuses] BY MarkType DEF Terminal
<1>2. \A q \in Requests \ {r} : MarkTerminal(r, "failed")[q] = ledger[q]
  BY DEF MarkTerminal, TypeOK
<1> QED BY <1>1, <1>2, AbortSettle DEF Fail

\* An execution that fails settles without success (failExecution).
LEMMA AbortFailExecution ==
  ASSUME TypeOK, Abortable, NEW r \in Requests, FailExecution(r), rec' = rec
  PROVE  Abortable'
<1>1. PICK status \in {"cancelled", "failed"} :
         Settle(r, IF status = "cancelled" THEN "ABORTED"
                   ELSE IF Inactive(r) \/ Unpublished(r) THEN Obstacle(r) ELSE "FAILED",
                MarkTerminal(r, status))
  BY DEF FailExecution
<1>2. MarkTerminal(r, status) \in [Requests -> Statuses] BY MarkType DEF Terminal
<1>3. \A q \in Requests \ {r} : MarkTerminal(r, status)[q] = ledger[q]
  BY DEF MarkTerminal, TypeOK
<1>4. Unregister(r) BY DEF FailExecution
<1> QED BY <1>1, <1>2, <1>3, <1>4, AbortSettle

\* An execution that works goes on to its next wait.
LEMMA AbortAdvance ==
  ASSUME TypeOK, Abortable, NEW r \in Requests, NEW next \in Pcs, pc' = [pc EXCEPT ![r] = next],
         UNCHANGED <<ledger, answer, rec, active>>, pc[r] # "idle",
         \/ Kind[r] \notin Executions
         \/ Works(r) /\ Kind[r] = "prompt" /\ next \in PromptPcs
         \/ Works(r) /\ Kind[r] = "task" /\ next = "returned"
  PROVE  Abortable'
<1>1. pc \in [Requests -> Pcs] BY DEF TypeOK
<1>2. pc'[r] = next /\ \A q \in Requests \ {r} : pc'[q] = pc[q] BY <1>1
<1>3. IsExecution(r) => Works(r)' BY <1>2 DEF Works, IsExecution
<1>4. \A k \in Records : r \in active[k] => Works(r) /\ rec[r] = k BY DEF Abortable
<1>5. Works(r) => IsExecution(r) BY DEF Works, IsExecution, Executions
<1>6. IsExecution(r) => ledger[r] # "succeeded" BY DEF Abortable, InFlight
<1>7. answer[r] = "none" BY DEF Abortable, InFlight
<1> QED BY <1>2, <1>3, <1>4, <1>5, <1>6, <1>7, AbortMove
\* Every step of a request keeps what aborts rely on.
LEMMA AbortProgress ==
  ASSUME TypeOK, Retention, Abortable, NEW r \in Requests, Progress(r)
  PROVE  Abortable'
<1> USE DEF recordVars, sessionVars, hostVars, abortVars, ledgerVars, flowVars
<1>1. pc \in [Requests -> Pcs] /\ ledger \in [Requests -> Statuses] /\ rec \in [Requests -> 0..MaxInputs]
      /\ answer \in [Requests -> Answers] /\ active \in [Records -> SUBSET Requests] /\ published \in 0..MaxInputs
  BY DEF TypeOK
<1>2. pc[r] \in {"prompting", "returned", "preparing", "commit-queued"} /\ IsExecution(r) => Works(r)
  BY DEF Abortable, InFlight, Works
<1>3. pc[r] \in {"reading", "acquiring", "opening", "releasing", "removing", "cancelling", "aborting"}
         => Kind[r] \notin Executions /\ ~Works(r)
  BY DEF Abortable, InFlight, IsExecution, Works, PromptPcs, Executions
<1>4. pc[r] \in {"queued", "applying"} /\ Kind[r] # "prompt" => Kind[r] \notin Executions /\ ~Works(r)
  BY DEF Abortable, InFlight, IsExecution, Works, PromptPcs, Executions
<1>5. pc[r] = "accepted" => ~Works(r)
  BY DEF Works, PromptPcs
<1>6. pc[r] \in PromptPcs /\ Kind[r] = "prompt" => Works(r)
  BY DEF Works
<1>7. pc[r] \in {"working", "returned"} /\ Kind[r] = "task" => Works(r)
  BY DEF Works
<1>8. CASE CancelledBeforePreflight(r) \/ RefuseAtStart(r) \/ RejectBusyPrompt(r) \/ ReleaseFails(r)
           \/ Released(r) \/ AbortReturns(r) \/ Read(r) \/ AcquisitionFails(r)
  <2>1. rec' = rec /\ active' = active /\ ~Works(r)
    BY <1>3, <1>5, <1>8 DEF CancelledBeforePreflight, RefuseAtStart, RejectBusyPrompt, ReleaseFails, Released,
       AbortReturns, Read, AcquisitionFails, Reaches
  <2>2. ASSUME NEW code, Fail(r, code) PROVE Abortable'
    BY <2>1, <2>2, AbortFail
  <2>3. ASSUME NEW response, Settle(r, response, ledger) PROVE Abortable'
    BY <1>1, <2>1, <2>3, AbortSettle
  <2>4. ASSUME NEW response, Settle(r, response, MarkTerminal(r, "failed")) PROVE Abortable'
    BY <2>2, <2>4 DEF Fail
  <2> QED BY <1>8, <2>2, <2>3, <2>4 DEF CancelledBeforePreflight, RefuseAtStart, RejectBusyPrompt, ReleaseFails,
       Released, AbortReturns, Read, AcquisitionFails
\* A request that is no execution moves.
<1>9. ASSUME NEW next \in Pcs, pc' = [pc EXCEPT ![r] = next], next # "idle", pc[r] # "idle",
             ledger' = ledger, answer' = answer, Kind[r] \notin Executions, ~Works(r),
             \A q \in Requests \ {r} : rec'[q] = rec[q], \A k \in Records : active'[k] \subseteq active[k]
      PROVE  Abortable'
  <2>1. pc'[r] = next /\ \A q \in Requests \ {r} : pc'[q] = pc[q] BY <1>1, <1>9
  <2>2. \A k \in Records : r \notin active'[k] BY <1>9 DEF Abortable
  <2>3. answer'[r] = "none" BY <1>9 DEF Abortable, InFlight
  <2>4. ~IsExecution(r) BY <1>9 DEF IsExecution
  <2> QED BY <1>9, <2>1, <2>2, <2>3, <2>4, AbortMove
<1>10. CASE StartRead(r) \/ StartAcquisition(r) \/ StartMutation(r) \/ Publish(r) \/ RemoveSession(r)
  <2>1. Kind[r] \notin Executions /\ ~Works(r)
    BY <1>3, <1>5, <1>10 DEF StartRead, StartAcquisition, StartMutation, Publish, RemoveSession, Reaches, Executions
  <2>2. /\ ledger' = ledger /\ answer' = answer /\ pc[r] # "idle"
        /\ \A k \in Records : active'[k] \subseteq active[k]
        /\ \A q \in Requests \ {r} : rec'[q] = rec[q]
    BY <1>1, <1>10 DEF StartRead, StartAcquisition, StartMutation, Publish, RemoveSession, Reaches, AwaitTail
  <2>3. \E next \in Pcs \ {"idle"} : pc' = [pc EXCEPT ![r] = next]
    BY <1>10 DEF StartRead, StartAcquisition, StartMutation, Publish, RemoveSession, Pcs, PromptPcs
  <2> QED BY <1>9, <2>1, <2>2, <2>3
<1>11. CASE TakeTurn(r)
  <2>1. Kind[r] \notin Executions /\ ~Works(r) /\ active' = active
    BY <1>3, <1>11 DEF TakeTurn
  <2>2. ASSUME NEW code, Fail(r, code), rec' = rec PROVE Abortable'
    BY <2>1, <2>2, AbortFail
  <2>3. ASSUME NEW next \in {"reading", "opening"}, pc' = [pc EXCEPT ![r] = next], ledger' = ledger, answer' = answer,
               \A q \in Requests \ {r} : rec'[q] = rec[q]
        PROVE  Abortable'
    BY <1>9, <1>11, <2>1, <2>3 DEF TakeTurn, Pcs
  <2> QED BY <1>1, <1>11, <2>2, <2>3 DEF TakeTurn, AwaitTail
<1>12. CASE StartRelease(r)
  <2>1. Kind[r] \notin Executions /\ ~Works(r) /\ active' = active /\ pc[r] = "accepted"
    BY <1>5, <1>12 DEF StartRelease, Reaches, Executions
  <2>2. CASE Fail(r, "SESSION_BUSY") /\ rec' = rec
    BY <2>1, <2>2, AbortFail
  <2>3. CASE AwaitTail(r) /\ pc' = [pc EXCEPT ![r] = "releasing"] /\ UNCHANGED ledgerVars
    <3>1. \A q \in Requests \ {r} : rec'[q] = rec[q] BY <1>1, <2>3 DEF AwaitTail
    <3>2. "releasing" \in Pcs BY DEF Pcs
    <3> QED BY <1>9, <2>1, <2>3, <3>1, <3>2
  <2> QED BY <1>12, <2>2, <2>3 DEF StartRelease
<1>13. CASE ApplyMutation(r) \/ EndMutation(r)
  <2>1. Kind[r] \notin Executions /\ ~Works(r) /\ active' = active /\ rec' = rec
    BY <1>4, <1>13 DEF ApplyMutation, EndMutation
  <2>2. ASSUME NEW code, Fail(r, code) PROVE Abortable'
    BY <2>1, <2>2, AbortFail
  <2>3. ASSUME Settle(r, "ok", ledger) PROVE Abortable'
    BY <1>1, <2>1, <2>3, AbortSettle
  <2>4. ASSUME ApplyMutation(r), pc' = [pc EXCEPT ![r] = "applying"], ledger' = ledger, answer' = answer PROVE Abortable'
    BY <1>9, <2>1, <2>4 DEF ApplyMutation, Pcs, PromptPcs
  <2> QED BY <1>13, <2>2, <2>3, <2>4 DEF ApplyMutation, EndMutation
<1>14. CASE StartExecution(r)
  <2>1. /\ pc[r] = "accepted" /\ published # 0 /\ published \in Records
        /\ Kind[r] \in Executions
        /\ ledger' = [ledger EXCEPT ![r] = "running"] /\ rec' = [rec EXCEPT ![r] = published]
        /\ active' = [active EXCEPT ![published] = @ \cup {r}] /\ answer' = answer
    BY <1>1, <1>14, BoundAssumption DEF StartExecution, Reaches
  <2>2. \A k \in Records : r \notin active[k]
    BY <1>5, <2>1 DEF Abortable
  <2>3. /\ \A q \in Requests \ {r} : rec'[q] = rec[q] /\ ledger'[q] = ledger[q]
        /\ rec'[r] = published /\ ledger'[r] = "running"
    BY <1>1, <2>1
  <2>4. /\ \A k \in Records : active'[k] \subseteq active[k] \cup {r}
        /\ \A k \in Records : r \in active'[k] => k = published
    BY <1>1, <2>1, <2>2
  <2>5. \A q \in Requests \ {r} : pc'[q] = pc[q]
    BY <1>14, ProgressTouches
  <2>6. Works(r)'
    <3>1. CASE Kind[r] = "prompt"
      <4>1. pc' = [pc EXCEPT ![r] = "preparing"] BY <1>14, <3>1 DEF StartExecution
      <4> QED BY <1>1, <3>1, <4>1 DEF Works, PromptPcs
    <3>2. CASE Kind[r] # "prompt"
      <4>1. pc' = [pc EXCEPT ![r] = "working"] /\ Kind[r] = "task"
        BY <1>14, <2>1, <3>2 DEF StartExecution, Executions
      <4> QED BY <1>1, <4>1 DEF Works
    <3> QED BY <3>1, <3>2
  <2>7. answer'[r] = "none" BY <2>1 DEF Abortable, InFlight
  <2> QED BY <2>1, <2>3, <2>4, <2>5, <2>6, <2>7, AbortMove
\* The wait of a prompt that works ends.
<1>15. ASSUME NEW next \in PromptPcs, Kind[r] # "task", pc[r] \in PromptPcs, pc' = [pc EXCEPT ![r] = next],
              UNCHANGED <<ledger, answer, rec, active>>
       PROVE  Abortable'
  <2>1. next \in Pcs /\ pc[r] # "idle" BY <1>15 DEF Pcs, PromptPcs
  <2>2. Kind[r] = "prompt" \/ Kind[r] \notin Executions BY <1>15 DEF Executions
  <2> QED BY <1>6, <1>15, <2>1, <2>2, AbortAdvance
<1>16. ASSUME FailExecution(r), rec' = rec PROVE Abortable'
  BY <1>16, AbortFailExecution
<1>17. CASE Prepared(r) \/ ApplyPreparation(r) \/ EndPreparation(r) \/ Prompted(r) \/ CommitPrompt(r)
  <2>1. Kind[r] # "task" /\ pc[r] \in PromptPcs /\ rec' = rec
    <3>1. pc[r] \in {"preparing", "prompting", "commit-queued"} => Kind[r] # "task"
      BY DEF Abortable, InFlight, Works, IsExecution, Executions
    <3> QED BY <3>1, <1>17 DEF Prepared, ApplyPreparation, EndPreparation, Prompted, CommitPrompt, PromptPcs
  <2>2. \/ FailExecution(r)
        \/ \E next \in PromptPcs : pc' = [pc EXCEPT ![r] = next] /\ UNCHANGED <<ledger, answer, active>>
    BY <1>17 DEF Prepared, ApplyPreparation, EndPreparation, Prompted, CommitPrompt, PromptPcs
  <2> QED BY <1>15, <1>16, <2>1, <2>2
<1>18. CASE TaskReturns(r)
  <2>1. CASE FailExecution(r) BY <1>16, <1>18, <2>1 DEF TaskReturns
  <2>2. CASE pc' = [pc EXCEPT ![r] = "returned"] /\ UNCHANGED <<ledgerVars, prompt, active>>
    BY <1>7, <1>18, <2>2, AbortAdvance DEF TaskReturns, Pcs, PromptPcs
  <2> QED BY <1>18, <2>1, <2>2 DEF TaskReturns
<1>19. CASE CompleteExecution(r)
  <2>1. CASE FailExecution(r) BY <1>16, <1>19, <2>1 DEF CompleteExecution
  <2>2. CASE Unregister(r) /\ Settle(r, "ok", MarkTerminal(r, "succeeded"))
    <3>1. MarkTerminal(r, "succeeded") \in [Requests -> Statuses] BY MarkType DEF Terminal
    <3>2. \A q \in Requests \ {r} : MarkTerminal(r, "succeeded")[q] = ledger[q]
      BY <1>1 DEF MarkTerminal
    <3> QED BY <1>19, <2>2, <3>1, <3>2, AbortSettle DEF CompleteExecution
  <2> QED BY <1>19, <2>1, <2>2 DEF CompleteExecution
<1>20. CASE ProcessCancellation(r)
  <2>1. Kind[r] \notin Executions /\ ~Works(r) /\ active' = active /\ rec' = rec
    BY <1>3, <1>20 DEF ProcessCancellation
  <2>2. CASE Settle(r, AnswerTo(r), ledger)
    BY <1>1, <2>1, <2>2, AbortSettle
  <2>3. CASE pc' = [pc EXCEPT ![r] = "aborting"] /\ UNCHANGED ledgerVars
    BY <1>9, <1>20, <2>1, <2>3 DEF ProcessCancellation, Pcs
  <2> QED BY <1>20, <2>2, <2>3 DEF ProcessCancellation
<1> QED BY <1>8, <1>10, <1>11, <1>12, <1>13, <1>14, <1>17, <1>18, <1>19, <1>20 DEF Progress
\* Every step keeps it.
LEMMA AbortStep ==
  ASSUME TypeOK, Retention, Abortable, [Next]_vars
  PROVE  Abortable'
<1> USE DEF recordVars, sessionVars, hostVars, abortVars, ledgerVars, flowVars
<1>1. pc \in [Requests -> Pcs] /\ ledger \in [Requests -> Statuses] /\ rec \in [Requests -> 0..MaxInputs]
      /\ answer \in [Requests -> Answers]
  BY DEF TypeOK
<1>2. ASSUME NEW r \in Requests, Handle(r) PROVE Abortable'
  <2>1. /\ pc' = [pc EXCEPT ![r] = "accepted"] /\ ledger' = [ledger EXCEPT ![r] = "queued"]
        /\ rec' = [rec EXCEPT ![r] = 0] /\ answer' = [answer EXCEPT ![r] = "none"] /\ active' = active
        /\ pc[r] = "idle"
    BY <1>2 DEF Handle, Retention, InFlight
  <2>2. \A k \in Records : r \notin active'[k]
    BY <2>1 DEF Abortable, Works, PromptPcs
  <2>3. /\ \A q \in Requests \ {r} : pc'[q] = pc[q] /\ answer'[q] = answer[q] /\ rec'[q] = rec[q] /\ ledger'[q] = ledger[q]
        /\ pc'[r] = "accepted" /\ ledger'[r] = "queued" /\ answer'[r] = "none"
    BY <1>1, <2>1
  <2> QED BY <2>1, <2>2, <2>3, AbortMove
<1>3. ASSUME NEW a \in Requests, HandleAbort(a) PROVE Abortable'
  <2> DEFINE t == TargetOf[a]
             mine == IF CancelVerdict(t) \in {"not-found", "identity-mismatch"} THEN "failed" ELSE "succeeded"
  <2>1. /\ pc' = [pc EXCEPT ![a] = "cancelling"] /\ answer' = [answer EXCEPT ![a] = "none"]
        /\ rec' = rec /\ active' = active /\ pc[a] = "idle" /\ Kind[a] = "abort"
        /\ ledger' = [ledger EXCEPT ![t] = CancelStatus(t), ![a] = mine]
    BY <1>3 DEF HandleAbort, Retention, InFlight
  <2>2. t \in Requests BY TargetAssumption
  <2>3. CancelStatus(t) = "succeeded" => ledger[t] = "succeeded"
    BY DEF CancelStatus
  <2>4. \A q \in Requests \ {a} : ledger'[q] = "succeeded" => ledger[q] = "succeeded"
    <3> HIDE DEF t, mine
    <3> QED BY <1>1, <2>1, <2>2, <2>3
  <2>5. \A k \in Records : a \notin active'[k]
    BY <2>1 DEF Abortable, Works, PromptPcs
  <2>6. /\ \A q \in Requests \ {a} : pc'[q] = pc[q] /\ answer'[q] = answer[q] /\ rec'[q] = rec[q]
        /\ answer'[a] = "none" /\ ~IsExecution(a)
    BY <1>1, <2>1 DEF IsExecution, Executions
  <2> QED BY <2>1, <2>4, <2>5, <2>6, AbortMove
<1>4. CASE \/ \E e \in Events : AgentEvent(e)
           \/ \E k \in Records : DeliverEvent(k)
           \/ Dispose \/ FinishDispose \/ UNCHANGED vars
  <2>1. UNCHANGED <<ledger, pc, rec, answer, active>>
    BY <1>4 DEF AgentEvent, DeliverEvent, Dispose, FinishDispose, vars
  <2>2. \A q : Works(q)' <=> Works(q)
    BY <2>1 DEF Works
  <2> QED BY <2>1, <2>2 DEF Abortable, InFlight, IsExecution
<1> QED BY <1>2, <1>3, <1>4, AbortProgress DEF Next

\* Only its own step takes a request in progress anywhere, or gives it an answer.
LEMMA OwnStep ==
  ASSUME TypeOK, Retention, Next, NEW r \in Requests, pc[r] # "idle",
         pc'[r] # pc[r] \/ answer'[r] # answer[r]
  PROVE  Progress(r)
<1> USE DEF recordVars, sessionVars, hostVars, abortVars, ledgerVars, flowVars
<1>1. pc \in [Requests -> Pcs] /\ answer \in [Requests -> Answers]
  BY DEF TypeOK
<1>2. CASE \E q \in Requests \ {r} : Progress(q)
  BY <1>2, ProgressTouches
<1>3. CASE \E q \in Requests : Handle(q) \/ HandleAbort(q)
  <2>1. PICK q \in Requests : Handle(q) \/ HandleAbort(q) BY <1>3
  <2>2. q # r BY <2>1 DEF Handle, HandleAbort, Retention, InFlight
  <2>3. \E next : pc' = [pc EXCEPT ![q] = next] /\ answer' = [answer EXCEPT ![q] = "none"]
    BY <2>1 DEF Handle, HandleAbort
  <2> QED BY <1>1, <2>2, <2>3
<1>4. CASE \/ \E e \in Events : AgentEvent(e)
           \/ \E k \in Records : DeliverEvent(k)
           \/ Dispose \/ FinishDispose
  BY <1>4 DEF AgentEvent, DeliverEvent, Dispose, FinishDispose
<1> QED BY <1>2, <1>3, <1>4 DEF Next

\* An abort acknowledged as requested signals an attempt still in progress.
LEMMA AcknowledgedIsSignalled ==
  ASSUME TypeOK, Retention, Abortable, Next, NEW a \in Requests, pc[a] = "cancelling",
         pc'[a] = "aborting" \/ answer'[a] = "cancel-requested"
  PROVE  TargetOf[a] \in aborted' /\ pc'[TargetOf[a]] # "idle"
<1> USE DEF recordVars, sessionVars, hostVars, abortVars, ledgerVars, flowVars
<1> DEFINE t == TargetOf[a]
<1>1. pc \in [Requests -> Pcs] /\ answer \in [Requests -> Answers] /\ t \in Requests /\ published \in 0..MaxInputs
      /\ active \in [Records -> SUBSET Requests]
  BY TargetAssumption DEF TypeOK
<1>2. answer[a] = "none" BY DEF Abortable, InFlight
<1>3. Progress(a) BY <1>2, OwnStep
<1>4. ProcessCancellation(a)
  BY <1>3 DEF Progress, CancelledBeforePreflight, RefuseAtStart, StartRead, Read, StartAcquisition, TakeTurn,
     Publish, AcquisitionFails, StartMutation, ApplyMutation, EndMutation, RejectBusyPrompt, StartExecution, Prepared,
     ApplyPreparation, EndPreparation, Prompted, CommitPrompt, TaskReturns, CompleteExecution, StartRelease,
     RemoveSession, ReleaseFails, Released, AbortReturns, Reaches
<1>5. AnswerTo(a) = "cancel-requested"
  <2>1. CASE AnswerTo(a) = "cancel-requested" /\ Kind[t] = "prompt" BY <2>1
  <2>2. CASE ~(AnswerTo(a) = "cancel-requested" /\ Kind[t] = "prompt")
    <3>1. Settle(a, AnswerTo(a), ledger) BY <1>4, <2>2 DEF ProcessCancellation
    <3>2. pc'[a] = "idle" /\ answer'[a] = AnswerTo(a) BY <1>1, <3>1 DEF Settle
    <3> QED BY <3>2
  <2> QED BY <2>1, <2>2
<1>6. RunsNow(t)
  BY <1>5 DEF AnswerTo
<1>7. Works(t) /\ t # a
  <2>1. published \in Records /\ t \in active[published]
    BY <1>1, <1>6, BoundAssumption DEF RunsNow
  <2>2. Works(t) BY <2>1 DEF Abortable
  <2> QED BY <2>2 DEF Works, PromptPcs
<1>8. pc'[t] = pc[t] BY <1>1, <1>3, <1>7, ProgressTouches
<1>9. t \in aborted' BY <1>4, <1>5 DEF ProcessCancellation
<1> QED BY <1>7, <1>8, <1>9 DEF Works, PromptPcs

\* An execution that is signalled settles without success.
LEMMA SignalledFails ==
  ASSUME TypeOK, Retention, Abortable, Next, NEW a \in Requests, IsExecution(a), a \in aborted,
         pc[a] # "idle", pc'[a] = "idle"
  PROVE  answer'[a] # "ok" /\ ledger'[a] # "succeeded"
<1> USE DEF recordVars, sessionVars, hostVars, abortVars, ledgerVars, flowVars
<1>1. pc \in [Requests -> Pcs] /\ answer \in [Requests -> Answers] /\ ledger \in [Requests -> Statuses]
  BY DEF TypeOK
<1>2. Progress(a) BY OwnStep
<1>3. Inactive(a) /\ Obstacle(a) = "ABORTED" /\ ledger[a] # "succeeded"
  BY DEF Inactive, Obstacle, Abortable, InFlight
<1>4. pc[a] = "accepted" \/ Works(a) BY DEF Abortable, InFlight
<1>5. pc[a] \notin {"reading", "acquiring", "opening", "releasing", "removing", "cancelling", "aborting"}
      /\ (pc[a] \in {"queued", "applying"} => Kind[a] = "prompt")
  BY <1>4 DEF Works, PromptPcs
<1>6. ASSUME NEW response, response # "ok", NEW marked, marked[a] # "succeeded", marked \in [Requests -> Statuses],
             Settle(a, response, marked)
      PROVE  answer'[a] # "ok" /\ ledger'[a] # "succeeded"
  BY <1>1, <1>6 DEF Settle
<1>7. ASSUME NEW status \in Terminal \ {"succeeded"}
      PROVE  MarkTerminal(a, status)[a] # "succeeded" /\ MarkTerminal(a, status) \in [Requests -> Statuses]
  BY <1>1, <1>3, <1>7 DEF MarkTerminal, Terminal, Statuses
<1>8. ASSUME NEW code, code # "ok", Settle(a, code, MarkTerminal(a, "failed"))
      PROVE  answer'[a] # "ok" /\ ledger'[a] # "succeeded"
  <2>1. "failed" \in Terminal \ {"succeeded"} BY DEF Terminal
  <2> QED BY <1>6, <1>7, <1>8, <2>1
<1>9. CASE RefuseAtStart(a) \/ RejectBusyPrompt(a) \/ StartRelease(a)
  BY <1>3, <1>8, <1>9 DEF RefuseAtStart, RejectBusyPrompt, StartRelease, Reaches, Fail
<1>10. CASE CancelledBeforePreflight(a)
  BY <1>1, <1>3, <1>6, <1>10 DEF CancelledBeforePreflight
<1>11. ASSUME FailExecution(a) PROVE answer'[a] # "ok" /\ ledger'[a] # "succeeded"
  <2>1. PICK status \in {"cancelled", "failed"} :
           Settle(a, IF status = "cancelled" THEN "ABORTED"
                     ELSE IF Inactive(a) \/ Unpublished(a) THEN Obstacle(a) ELSE "FAILED",
                  MarkTerminal(a, status))
    BY <1>11 DEF FailExecution
  <2>2. status \in Terminal \ {"succeeded"} BY DEF Terminal
  <2>3. (IF status = "cancelled" THEN "ABORTED"
         ELSE IF Inactive(a) \/ Unpublished(a) THEN Obstacle(a) ELSE "FAILED") # "ok"
    BY <1>3
  <2> QED BY <1>6, <1>7, <2>1, <2>2, <2>3
<1>12. CASE \/ Prepared(a) \/ ApplyPreparation(a) \/ EndPreparation(a) \/ Prompted(a) \/ CommitPrompt(a)
            \/ TaskReturns(a) \/ CompleteExecution(a)
  <2>1. \/ FailExecution(a)
        \/ \E next \in Pcs \ {"idle"} : pc' = [pc EXCEPT ![a] = next]
    BY <1>3, <1>12 DEF Prepared, ApplyPreparation, EndPreparation, Prompted, CommitPrompt, TaskReturns,
       CompleteExecution, Pcs, PromptPcs
  <2>2. CASE \E next \in Pcs \ {"idle"} : pc' = [pc EXCEPT ![a] = next]
    BY <1>1, <2>2
  <2> QED BY <1>11, <2>1, <2>2
<1>13. CASE StartExecution(a)
  BY <1>3, <1>13 DEF StartExecution, Reaches
<1>14. CASE StartRead(a) \/ StartAcquisition(a) \/ StartMutation(a)
  BY <1>3, <1>14 DEF StartRead, StartAcquisition, StartMutation, Reaches
<1> QED BY <1>2, <1>5, <1>9, <1>10, <1>12, <1>13, <1>14 DEF Progress, Read, TakeTurn, Publish, AcquisitionFails,
       ApplyMutation, EndMutation, RemoveSession, ReleaseFails, Released, ProcessCancellation, AbortReturns

\* An abort acknowledged as requested has signalled an attempt still in progress, and an
\* attempt once signalled settles without success, whichever of the adapter, the mutation
\* queue and the abort comes first (handleAbort, processCancellation, executeLongRequest).
THEOREM AbortsWin == Spec => AcknowledgedAbortWins
<1>1. TypeOK /\ Retention /\ Abortable /\ [Next]_vars =>
        [\A a \in Requests :
            LET t == TargetOf[a] IN
            /\ pc[a] = "cancelling" /\ (pc'[a] = "aborting" \/ answer'[a] = "cancel-requested") =>
                 t \in aborted' /\ pc'[t] # "idle"
            /\ IsExecution(a) /\ a \in aborted /\ pc[a] # "idle" /\ pc'[a] = "idle" =>
                 answer'[a] # "ok" /\ ledger'[a] # "succeeded"]_vars
  BY AcknowledgedIsSignalled, SignalledFails
<1>2. Init => Abortable
  BY DEF Init, Abortable, Works, InFlight, PromptPcs
<1>3. Init => Retention
  BY DEF Init, Retention, InFlight
<1> QED BY <1>1, <1>2, <1>3, TypeCorrect, RetentionStep, AbortStep, PTL DEF Spec, AcknowledgedAbortWins

-----------------------------------------------------------------------------
(* Who waits for whom *)

\* Where a request has an entry in the mutation queue of its record.
InLine == {"queued", "applying", "commit-queued"}

\* Where a request holds on to its record without an entry in its queue.
OnRecord == {"preparing", "prompting", "reading", "releasing"}

\* Nobody stands in a queue twice.
OnceEach(q) == \A i, j \in DOMAIN q : q[i] = q[j] => i = j

\* The acquisition turns are those of the requests that acquire, one for each.
TurnsKept ==
  /\ OnceEach(acquiring)
  /\ \A r \in Requests : r \in Range(acquiring) <=> pc[r] \in {"acquiring", "opening"}

\* The queue of a record has the mutations of the requests in line for it, one for each, and
\* whoever awaits the queue waits for entries that are still there.
LinesKept ==
  /\ \A k \in Records : OnceEach(tail[k])
  /\ \A k \in Records : \A q \in Requests : q \in Range(tail[k]) => rec[q] = k /\ pc[q] \in InLine
  /\ \A r \in Requests : pc[r] \in InLine => rec[r] \in Records /\ r \in Range(tail[rec[r]])
  /\ \A r \in Requests : pc[r] \in OnRecord => rec[r] \in Records
  /\ \A r \in Requests : pc[r] \in {"reading", "releasing"} => waitFor[r] \subseteq Range(tail[rec[r]])
  /\ \A r \in Requests : pc[r] = "applying" => AtHead(r)

\* One more in a queue is last in it.
LEMMA QueueJoined ==
  ASSUME NEW S, NEW q \in Seq(S), NEW e \in S
  PROVE  /\ Range(Append(q, e)) = Range(q) \cup {e}
         /\ OnceEach(q) /\ e \notin Range(q) => OnceEach(Append(q, e))
         /\ q # <<>> => Append(q, e) # <<>> /\ Head(Append(q, e)) = Head(q)
<1>1. /\ DOMAIN Append(q, e) = 1..(Len(q) + 1) /\ DOMAIN q = 1..Len(q) /\ Len(q) \in Nat
      /\ \A i \in 1..Len(q) : Append(q, e)[i] = q[i]
      /\ Append(q, e)[Len(q) + 1] = e
  OBVIOUS
<1>2. \A i \in DOMAIN Append(q, e) : i \in DOMAIN q \/ i = Len(q) + 1
  BY <1>1
<1>3. DOMAIN q \subseteq DOMAIN Append(q, e) /\ Len(q) + 1 \in DOMAIN Append(q, e)
  BY <1>1
<1>4. Range(Append(q, e)) = Range(q) \cup {e}
  BY <1>1, <1>2, <1>3 DEF Range
<1>5. ASSUME OnceEach(q), e \notin Range(q) PROVE OnceEach(Append(q, e))
  BY <1>1, <1>2, <1>5 DEF Range, OnceEach
<1>6. q # <<>> => Append(q, e) # <<>> /\ Head(Append(q, e)) = Head(q)
  OBVIOUS
<1> QED BY <1>4, <1>5, <1>6

\* A queue without its head.
LEMMA QueueLeft ==
  ASSUME NEW S, NEW q \in Seq(S), q # <<>>, OnceEach(q)
  PROVE  /\ Range(Tail(q)) = Range(q) \ {Head(q)} /\ Head(q) \in Range(q)
         /\ OnceEach(Tail(q))
<1>1. /\ Len(q) \in Nat \ {0} /\ DOMAIN q = 1..Len(q) /\ DOMAIN Tail(q) = 1..(Len(q) - 1)
      /\ \A i \in 1..(Len(q) - 1) : Tail(q)[i] = q[i + 1]
      /\ Head(q) = q[1]
  OBVIOUS
<1>2. \A i \in DOMAIN q : i = 1 \/ (i - 1 \in DOMAIN Tail(q) /\ Tail(q)[i - 1] = q[i])
  BY <1>1
<1>3. \A i \in DOMAIN Tail(q) : i + 1 \in DOMAIN q /\ i + 1 # 1 /\ Tail(q)[i] = q[i + 1]
  BY <1>1
<1>4. 1 \in DOMAIN q BY <1>1
<1>5. Range(Tail(q)) \subseteq Range(q) \ {Head(q)}
  BY <1>1, <1>3, <1>4 DEF Range, OnceEach
<1>6. Range(q) \ {Head(q)} \subseteq Range(Tail(q))
  BY <1>1, <1>2 DEF Range
<1>7. OnceEach(Tail(q))
  <2> SUFFICES ASSUME NEW i \in DOMAIN Tail(q), NEW j \in DOMAIN Tail(q), Tail(q)[i] = Tail(q)[j] PROVE i = j
    BY DEF OnceEach
  <2>1. i + 1 = j + 1 BY <1>3 DEF OnceEach
  <2> QED BY <2>1, <1>1
<1> QED BY <1>1, <1>4, <1>5, <1>6, <1>7 DEF Range

\* The head of a queue is in it.
LEMMA HeadWaits ==
  ASSUME NEW S, NEW q \in Seq(S), q # <<>>
  PROVE  Head(q) \in Range(q) /\ Head(q) \in S
<1>1. 1 \in DOMAIN q /\ Head(q) = q[1] /\ q[1] \in S OBVIOUS
<1> QED BY <1>1 DEF Range

\* Somebody in a queue, and it is not empty.
LEMMA InQueueIs ==
  ASSUME NEW S, NEW q \in Seq(S), NEW e \in Range(q)
  PROVE  q # <<>>
BY DEF Range

\* Turns: a request that neither acquires before nor after the step leaves them.
LEMMA TurnsFrame ==
  ASSUME TypeOK, TurnsKept, acquiring' = acquiring, NEW r \in Requests, NEW next,
         next \in {"acquiring", "opening"} <=> pc[r] \in {"acquiring", "opening"}, pc' = [pc EXCEPT ![r] = next]
  PROVE  TurnsKept'
BY DEF TypeOK, TurnsKept

\* The holder of the turn gives it up.
LEMMA TurnEnds ==
  ASSUME TypeOK, TurnsKept, NEW r \in Requests, HasTurn(r), acquiring' = Tail(acquiring),
         NEW next, next \notin {"acquiring", "opening"}, pc' = [pc EXCEPT ![r] = next]
  PROVE  TurnsKept'
<1>1. acquiring \in Seq(Requests) /\ pc \in [Requests -> Pcs] BY DEF TypeOK
<1>2. acquiring # <<>> /\ Head(acquiring) = r BY DEF HasTurn
<1>3. Range(acquiring') = Range(acquiring) \ {r} /\ OnceEach(acquiring')
  BY <1>1, <1>2, QueueLeft DEF TurnsKept
<1> QED BY <1>1, <1>3 DEF TurnsKept

\* Every step keeps the turns.
LEMMA TurnsStep ==
  ASSUME TypeOK, Retention, TurnsKept, [Next]_vars
  PROVE  TurnsKept'
<1> USE DEF recordVars, sessionVars, hostVars, abortVars, ledgerVars, flowVars
<1>1. pc \in [Requests -> Pcs] /\ acquiring \in Seq(Requests)
  BY DEF TypeOK
<1>2. ASSUME NEW r \in Requests, pc[r] \notin {"acquiring", "opening"}, acquiring' = acquiring,
             NEW next, next \notin {"acquiring", "opening"}, pc' = [pc EXCEPT ![r] = next]
      PROVE  TurnsKept'
  BY <1>2, TurnsFrame
<1>3. ASSUME NEW r \in Requests, pc[r] \notin {"acquiring", "opening"}, acquiring' = acquiring,
             FailExecution(r) \/ (\E code : Fail(r, code)) \/ (\E response, marked : Settle(r, response, marked))
      PROVE  TurnsKept'
  BY <1>2, <1>3 DEF FailExecution, Fail, Settle
<1>4. ASSUME NEW r \in Requests, Handle(r) \/ HandleAbort(r) PROVE TurnsKept'
  <2>1. pc[r] = "idle"
    BY <1>4 DEF Handle, HandleAbort, Retention, InFlight
  <2> QED BY <1>2, <1>4, <2>1 DEF Handle, HandleAbort
<1>5. ASSUME NEW r \in Requests,
             \/ CancelledBeforePreflight(r) \/ RefuseAtStart(r) \/ Read(r) \/ RejectBusyPrompt(r)
             \/ ReleaseFails(r) \/ Released(r) \/ AbortReturns(r)
             \/ StartRead(r) \/ StartMutation(r) \/ ApplyMutation(r) \/ EndMutation(r)
             \/ StartRelease(r) \/ RemoveSession(r) \/ ProcessCancellation(r)
      PROVE  TurnsKept'
  BY <1>2, <1>3, <1>5 DEF CancelledBeforePreflight, RefuseAtStart, Read, RejectBusyPrompt, ReleaseFails,
     Released, AbortReturns, StartRead, StartMutation, ApplyMutation, EndMutation, StartRelease, RemoveSession,
     ProcessCancellation, Reaches
<1>6. ASSUME NEW r \in Requests,
             \/ Prepared(r) \/ ApplyPreparation(r) \/ EndPreparation(r) \/ Prompted(r) \/ CommitPrompt(r)
             \/ TaskReturns(r) \/ CompleteExecution(r)
      PROVE  TurnsKept'
  BY <1>2, <1>3, <1>6 DEF Prepared, ApplyPreparation, EndPreparation, Prompted, CommitPrompt, TaskReturns,
     CompleteExecution
<1>7. ASSUME NEW r \in Requests, StartExecution(r) PROVE TurnsKept'
  <2>1. CASE Kind[r] = "prompt" BY <1>2, <1>7, <2>1 DEF StartExecution, Reaches
  <2>2. CASE Kind[r] # "prompt" BY <1>2, <1>7, <2>2 DEF StartExecution, Reaches
  <2> QED BY <2>1, <2>2
<1>8. ASSUME NEW r \in Requests, StartAcquisition(r) PROVE TurnsKept'
  <2>1. acquiring' = Append(acquiring, r) /\ pc' = [pc EXCEPT ![r] = "acquiring"] /\ pc[r] = "accepted"
    BY <1>8 DEF StartAcquisition
  <2>2. r \notin Range(acquiring) BY <2>1 DEF TurnsKept
  <2>3. Range(acquiring') = Range(acquiring) \cup {r} /\ OnceEach(acquiring')
    BY <1>1, <2>1, <2>2, QueueJoined DEF TurnsKept
  <2> QED BY <1>1, <2>1, <2>3 DEF TurnsKept
<1>9. ASSUME NEW r \in Requests, TakeTurn(r) PROVE TurnsKept'
  <2>1. HasTurn(r) /\ pc[r] = "acquiring" BY <1>9 DEF TakeTurn
  <2>2. CASE acquiring' = Tail(acquiring) /\ \E next \in {"idle", "reading"} : pc' = [pc EXCEPT ![r] = next]
    BY <2>1, <2>2, TurnEnds
  <2>3. CASE acquiring' = acquiring /\ pc' = [pc EXCEPT ![r] = "opening"]
    BY <2>1, <2>3, TurnsFrame
  <2> QED BY <1>9, <2>2, <2>3 DEF TakeTurn, Fail, Settle
<1>10. ASSUME NEW r \in Requests, Publish(r) \/ AcquisitionFails(r) PROVE TurnsKept'
  <2>1. HasTurn(r) /\ acquiring' = Tail(acquiring) /\ \E next \in {"idle", "reading"} : pc' = [pc EXCEPT ![r] = next]
    BY <1>10 DEF Publish, AcquisitionFails, Fail, Settle
  <2> QED BY <2>1, TurnEnds
<1>11. CASE \/ \E e \in Events : AgentEvent(e)
            \/ \E k \in Records : DeliverEvent(k)
            \/ Dispose \/ FinishDispose \/ UNCHANGED vars
  BY <1>11 DEF AgentEvent, DeliverEvent, Dispose, FinishDispose, vars, TurnsKept
<1> QED BY <1>4, <1>5, <1>6, <1>7, <1>8, <1>9, <1>10, <1>11 DEF Next, Progress

\* A request that has no entry moves on: lines stay, and what it awaits now is there.
LEMMA LinesMove ==
  ASSUME TypeOK, LinesKept, NEW r \in Requests, pc[r] \notin InLine, tail' = tail,
         NEW next \in Pcs \ InLine, pc' = [pc EXCEPT ![r] = next],
         \A q \in Requests \ {r} : rec'[q] = rec[q] /\ waitFor'[q] = waitFor[q],
         next \in OnRecord => rec'[r] \in Records,
         next \in {"reading", "releasing"} => waitFor'[r] \subseteq Range(tail[rec'[r]])
  PROVE  LinesKept'
<1>1. pc \in [Requests -> Pcs] BY DEF TypeOK
<1>2. /\ pc'[r] = next /\ next \notin InLine /\ \A q \in Requests \ {r} : pc'[q] = pc[q]
      /\ \A k \in Records : r \notin Range(tail[k])
  BY <1>1 DEF LinesKept
<1>3. \A k \in Records : OnceEach(tail'[k]) BY DEF LinesKept
<1>4. \A k \in Records : \A q \in Requests : q \in Range(tail'[k]) => rec'[q] = k /\ pc'[q] \in InLine
  BY <1>2 DEF LinesKept
<1>5. \A q \in Requests : pc'[q] \in InLine => rec'[q] \in Records /\ q \in Range(tail'[rec'[q]])
  BY <1>2 DEF LinesKept
<1>6. \A q \in Requests : pc'[q] \in OnRecord => rec'[q] \in Records
  BY <1>2 DEF LinesKept
<1>7. \A q \in Requests : pc'[q] \in {"reading", "releasing"} => waitFor'[q] \subseteq Range(tail'[rec'[q]])
  BY <1>2 DEF LinesKept
<1>8. \A q \in Requests : pc'[q] = "applying" => q # r /\ pc[q] = "applying" /\ rec'[q] = rec[q]
  BY <1>2 DEF InLine
<1>9. \A q \in Requests : pc'[q] = "applying" => AtHead(q)'
  BY <1>8 DEF LinesKept, AtHead
<1> QED BY <1>3, <1>4, <1>5, <1>6, <1>7, <1>9 DEF LinesKept

\* A request takes a place in the line of its record.
LEMMA LinesJoin ==
  ASSUME TypeOK, LinesKept, NEW r \in Requests, pc[r] \notin InLine, waitFor' = waitFor,
         NEW k \in Records, JoinTail(k, r), rec'[r] = k, \A q \in Requests \ {r} : rec'[q] = rec[q],
         NEW next \in {"queued", "commit-queued"}, pc' = [pc EXCEPT ![r] = next]
  PROVE  LinesKept'
<1>1. pc \in [Requests -> Pcs] /\ tail \in [Records -> Seq(Jobs)] BY DEF TypeOK
<1>2. /\ pc'[r] = next /\ next \in InLine /\ \A q \in Requests \ {r} : pc'[q] = pc[q]
      /\ \A n \in Records : r \notin Range(tail[n])
  BY <1>1 DEF LinesKept, InLine
<1>3. tail'[k] = Append(tail[k], r) /\ \A n \in Records \ {k} : tail'[n] = tail[n]
  BY <1>1 DEF JoinTail
<1>4. tail[k] \in Seq(Jobs) /\ r \in Jobs /\ OnceEach(tail[k]) /\ r \notin Range(tail[k])
  BY <1>1, <1>2 DEF LinesKept
<1>5. /\ Range(tail'[k]) = Range(tail[k]) \cup {r} /\ OnceEach(tail'[k])
      /\ tail[k] # <<>> => tail'[k] # <<>> /\ Head(tail'[k]) = Head(tail[k])
  BY <1>3, <1>4, QueueJoined
<1>6. \A n \in Records : /\ OnceEach(tail'[n]) /\ Range(tail[n]) \subseteq Range(tail'[n])
                         /\ tail[n] # <<>> => tail'[n] # <<>> /\ Head(tail'[n]) = Head(tail[n])
  BY <1>3, <1>5 DEF LinesKept
<1>7. \A n \in Records : \A q \in Requests : q \in Range(tail'[n]) => rec'[q] = n /\ pc'[q] \in InLine
  <2> TAKE n \in Records
  <2> TAKE q \in Requests
  <2> HAVE q \in Range(tail'[n])
  <2>1. CASE q \in Range(tail[n])
    <3>1. q # r BY <1>2, <2>1
    <3> QED BY <1>2, <2>1, <3>1 DEF LinesKept
  <2>2. CASE q \notin Range(tail[n])
    <3>1. q = r /\ n = k BY <1>3, <1>5, <2>2
    <3> QED BY <1>2, <3>1
  <2> QED BY <2>1, <2>2
<1>8. \A q \in Requests : pc'[q] \in InLine => rec'[q] \in Records /\ q \in Range(tail'[rec'[q]])
  BY <1>2, <1>5, <1>6 DEF LinesKept
<1>9. \A q \in Requests : pc'[q] \in OnRecord => q # r /\ pc'[q] = pc[q] /\ rec'[q] = rec[q] /\ rec[q] \in Records
  BY <1>2 DEF LinesKept, OnRecord
<1>10. \A q \in Requests : pc'[q] \in {"reading", "releasing"} => waitFor'[q] \subseteq Range(tail'[rec'[q]])
  BY <1>6, <1>9 DEF LinesKept, OnRecord
<1>11. \A q \in Requests : pc'[q] = "applying" => AtHead(q)'
  <2> TAKE q \in Requests
  <2> HAVE pc'[q] = "applying"
  <2>1. q # r /\ pc[q] = "applying" /\ rec'[q] = rec[q] BY <1>1
  <2>2. rec[q] \in Records /\ AtHead(q) BY <2>1 DEF LinesKept, InLine
  <2> QED BY <1>6, <2>1, <2>2 DEF AtHead
<1> QED BY <1>6, <1>7, <1>8, <1>9, <1>10, <1>11 DEF LinesKept

\* The head of a line leaves it: whoever awaited it does so no longer.
LEMMA LinesLeave ==
  ASSUME TypeOK, LinesKept, NEW k \in Records, tail[k] # <<>>, LeaveTail(k, Head(tail[k])), rec' = rec,
         NEW gone, gone \cap Requests = {Head(tail[k])} \cap Requests,
         \A q \in Requests \ gone : pc'[q] = pc[q],
         \A q \in gone \cap Requests : pc'[q] \notin InLine \cup {"reading", "releasing"}
  PROVE  LinesKept'
<1> DEFINE job == Head(tail[k])
<1>1. pc \in [Requests -> Pcs] /\ tail \in [Records -> Seq(Jobs)] /\ waitFor \in [Requests -> SUBSET Jobs]
  BY DEF TypeOK
<1>2. tail'[k] = Tail(tail[k]) /\ (\A n \in Records \ {k} : tail'[n] = tail[n])
      /\ \A q \in Requests : waitFor'[q] = waitFor[q] \ {job}
  BY <1>1 DEF LeaveTail
<1>3. tail[k] \in Seq(Jobs) /\ OnceEach(tail[k]) BY <1>1 DEF LinesKept
<1>4. Range(tail'[k]) = Range(tail[k]) \ {job} /\ job \in Range(tail[k]) /\ OnceEach(tail'[k])
  BY <1>2, <1>3, QueueLeft
<1>5. job \in Requests => rec[job] = k /\ pc[job] \in InLine
  BY <1>4 DEF LinesKept
<1>6. \A n \in Records : OnceEach(tail'[n])
  BY <1>2, <1>4 DEF LinesKept
<1>7. \A n \in Records : \A q \in Requests : q \in Range(tail'[n]) => rec'[q] = n /\ pc'[q] \in InLine
  <2> TAKE n \in Records
  <2> TAKE q \in Requests
  <2> HAVE q \in Range(tail'[n])
  <2>1. q \in Range(tail[n]) /\ (n = k => q # job) BY <1>2, <1>4
  <2>2. rec[q] = n /\ pc[q] \in InLine BY <2>1 DEF LinesKept
  <2>3. q # job BY <1>5, <2>1, <2>2
  <2> QED BY <2>2, <2>3
<1>8. \A q \in Requests : pc'[q] \in InLine => q # job /\ pc[q] \in InLine
  OBVIOUS
<1>9. \A q \in Requests : pc'[q] \in InLine => rec'[q] \in Records /\ q \in Range(tail'[rec'[q]])
  BY <1>2, <1>4, <1>8 DEF LinesKept
<1>10. \A q \in Requests : pc'[q] \in OnRecord => rec'[q] \in Records
  BY <1>5 DEF LinesKept
<1>11. \A q \in Requests : pc'[q] \in {"reading", "releasing"} => waitFor'[q] \subseteq Range(tail'[rec'[q]])
  <2> TAKE q \in Requests
  <2> HAVE pc'[q] \in {"reading", "releasing"}
  <2>1. pc[q] \in {"reading", "releasing"} OBVIOUS
  <2>2. rec[q] \in Records /\ waitFor[q] \subseteq Range(tail[rec[q]]) BY <2>1 DEF LinesKept, OnRecord
  <2> QED BY <1>2, <1>4, <2>2
<1>12. \A q \in Requests : pc'[q] = "applying" => AtHead(q)'
  <2> TAKE q \in Requests
  <2> HAVE pc'[q] = "applying"
  <2>1. q # job /\ pc[q] = "applying" BY DEF InLine
  <2>2. rec[q] \in Records /\ AtHead(q) BY <2>1 DEF LinesKept, InLine
  <2>3. rec[q] # k BY <2>1, <2>2 DEF AtHead
  <2> QED BY <1>2, <2>2, <2>3 DEF AtHead
<1> QED BY <1>6, <1>7, <1>9, <1>10, <1>11, <1>12 DEF LinesKept

\* A request at the head of its line leaves it.
LEMMA LinesEnd ==
  ASSUME TypeOK, LinesKept, NEW r \in Requests, pc[r] \in InLine, AtHead(r), LeaveTail(rec[r], r), rec' = rec,
         NEW next \in Pcs \ (InLine \cup {"reading", "releasing"}), pc' = [pc EXCEPT ![r] = next]
  PROVE  LinesKept'
<1>1. rec[r] \in Records BY DEF LinesKept
<1>2. tail[rec[r]] # <<>> /\ Head(tail[rec[r]]) = r BY DEF AtHead
<1>3. (\A q \in Requests \ {r} : pc'[q] = pc[q]) /\ pc'[r] = next
  BY DEF TypeOK
<1>4. {r} \cap Requests = {Head(tail[rec[r]])} \cap Requests BY <1>2
<1>5. LeaveTail(rec[r], Head(tail[rec[r]])) BY <1>2
<1>6. \A q \in {r} \cap Requests : pc'[q] \notin InLine \cup {"reading", "releasing"} BY <1>3
<1> HIDE DEF InLine
<1> QED BY <1>1, <1>2, <1>3, <1>4, <1>5, <1>6, LinesLeave

\* A request that settles out of line.
LEMMA LinesSettle ==
  ASSUME TypeOK, LinesKept, NEW r \in Requests, pc[r] \notin InLine, UNCHANGED <<tail, rec, waitFor>>,
         FailExecution(r) \/ (\E code : Fail(r, code)) \/ (\E response, marked : Settle(r, response, marked))
  PROVE  LinesKept'
<1>1. pc' = [pc EXCEPT ![r] = "idle"] BY DEF FailExecution, Fail, Settle
<1> QED BY <1>1, LinesMove DEF InLine, OnRecord

\* The steps of a session's queue keep the lines.
LEMMA LinesQueueSteps ==
  ASSUME TypeOK, LinesKept, NEW r \in Requests,
         \/ StartMutation(r) \/ ApplyMutation(r) \/ EndMutation(r)
         \/ Prepared(r) \/ ApplyPreparation(r) \/ EndPreparation(r) \/ Prompted(r) \/ CommitPrompt(r)
  PROVE  LinesKept'
<1> USE DEF recordVars, sessionVars, hostVars, abortVars, ledgerVars, flowVars
<1>1. /\ pc \in [Requests -> Pcs] /\ rec \in [Requests -> 0..MaxInputs] /\ published \in 0..MaxInputs
  BY DEF TypeOK
<1>2. ASSUME FailExecution(r) \/ (\E code : Fail(r, code)) \/ (\E response, marked : Settle(r, response, marked))
      PROVE  pc' = [pc EXCEPT ![r] = "idle"]
  BY <1>2 DEF FailExecution, Fail, Settle
<1>3. CASE StartMutation(r)
  <2>1. /\ published \in Records /\ JoinTail(published, r) /\ rec' = [rec EXCEPT ![r] = published]
        /\ pc[r] = "accepted" /\ pc' = [pc EXCEPT ![r] = "queued"] /\ waitFor' = waitFor
    BY <1>1, <1>3, BoundAssumption DEF StartMutation, Reaches
  <2>2. rec'[r] = published /\ \A q \in Requests \ {r} : rec'[q] = rec[q] BY <1>1, <2>1
  <2> QED BY <2>1, <2>2, LinesJoin DEF InLine
\* What is at the head is applied, or leaves at once.
<1>4. ASSUME AtHead(r), pc[r] = "queued", pc' = [pc EXCEPT ![r] = "applying"], UNCHANGED <<tail, rec, waitFor>>
      PROVE  LinesKept'
  <2>1. \A q \in Requests : (pc'[q] \in InLine <=> pc[q] \in InLine) /\ (pc'[q] \in OnRecord <=> pc[q] \in OnRecord)
    BY <1>1, <1>4 DEF InLine, OnRecord
  <2>2. \A q \in Requests : pc'[q] \in {"reading", "releasing"} => pc[q] \in {"reading", "releasing"}
    BY <1>1, <1>4
  <2>3. \A q \in Requests : pc'[q] = "applying" => AtHead(q)'
    BY <1>1, <1>4 DEF LinesKept, AtHead
  <2> QED BY <1>4, <2>1, <2>2, <2>3 DEF LinesKept
<1>5. CASE ApplyMutation(r) \/ ApplyPreparation(r)
  <2>1. pc[r] = "queued" /\ AtHead(r) /\ rec' = rec
    BY <1>5 DEF ApplyMutation, ApplyPreparation
  <2>2. CASE LeaveTail(rec[r], r) /\ pc' = [pc EXCEPT ![r] = "idle"]
    BY <2>1, <2>2, LinesEnd DEF InLine
  <2>3. CASE UNCHANGED <<tail, waitFor>> /\ pc' = [pc EXCEPT ![r] = "applying"]
    BY <1>4, <2>1, <2>3
  <2> QED BY <1>2, <1>5, <2>2, <2>3 DEF ApplyMutation, ApplyPreparation
<1>6. CASE EndMutation(r) \/ EndPreparation(r) \/ CommitPrompt(r)
  <2>1. /\ pc[r] \in InLine /\ AtHead(r) /\ LeaveTail(rec[r], r) /\ rec' = rec
        /\ \E next \in {"idle", "prompting", "returned"} : pc' = [pc EXCEPT ![r] = next]
    BY <1>2, <1>6 DEF EndMutation, EndPreparation, CommitPrompt, InLine
  <2> QED BY <2>1, LinesEnd DEF InLine
<1>7. CASE Prepared(r) \/ Prompted(r)
  <2>1. /\ pc[r] \in {"preparing", "prompting"} /\ rec[r] \in Records /\ UNCHANGED <<rec, waitFor>>
    BY <1>7 DEF Prepared, Prompted, LinesKept, OnRecord
  <2>2. CASE JoinTail(rec[r], r) /\ \E next \in {"queued", "commit-queued"} : pc' = [pc EXCEPT ![r] = next]
    BY <2>1, <2>2, LinesJoin DEF InLine
  <2>3. CASE tail' = tail /\ \E next \in {"prompting", "idle"} : pc' = [pc EXCEPT ![r] = next]
    BY <2>1, <2>3, LinesMove DEF InLine
  <2> QED BY <1>2, <1>7, <2>2, <2>3 DEF Prepared, Prompted
<1> QED BY <1>3, <1>5, <1>6, <1>7

\* Every step keeps the lines.
LEMMA LinesStep ==
  ASSUME TypeOK, Retention, LinesKept, [Next]_vars
  PROVE  LinesKept'
<1> USE DEF recordVars, sessionVars, hostVars, abortVars, ledgerVars, flowVars
<1>1. /\ pc \in [Requests -> Pcs] /\ rec \in [Requests -> 0..MaxInputs] /\ published \in 0..MaxInputs
      /\ born \in 0..MaxInputs /\ tail \in [Records -> Seq(Jobs)] /\ waitFor \in [Requests -> SUBSET Jobs]
  BY DEF TypeOK
<1>2. ASSUME NEW r \in Requests, Handle(r) \/ HandleAbort(r) PROVE LinesKept'
  <2>1. pc[r] = "idle" /\ UNCHANGED <<tail, waitFor>>
        /\ \E next \in {"accepted", "cancelling"} : pc' = [pc EXCEPT ![r] = next]
    BY <1>2 DEF Handle, HandleAbort, Retention, InFlight
  <2>2. \A q \in Requests \ {r} : rec'[q] = rec[q]
    BY <1>1, <1>2 DEF Handle, HandleAbort
  <2> QED BY <2>1, <2>2, LinesMove DEF InLine, OnRecord
<1>3. ASSUME NEW r \in Requests,
             \/ CancelledBeforePreflight(r) \/ RefuseAtStart(r) \/ Read(r) \/ RejectBusyPrompt(r)
             \/ AcquisitionFails(r) \/ ReleaseFails(r) \/ Released(r) \/ AbortReturns(r) \/ CompleteExecution(r)
      PROVE  LinesKept'
  <2>1. pc[r] \notin InLine /\ UNCHANGED <<tail, rec, waitFor>>
    BY <1>3 DEF CancelledBeforePreflight, RefuseAtStart, Read, RejectBusyPrompt, AcquisitionFails,
       ReleaseFails, Released, AbortReturns, CompleteExecution, Reaches, InLine
  <2>2. FailExecution(r) \/ (\E code : Fail(r, code)) \/ (\E response, marked : Settle(r, response, marked))
    BY <1>3 DEF CancelledBeforePreflight, RefuseAtStart, Read, RejectBusyPrompt, AcquisitionFails,
       ReleaseFails, Released, AbortReturns, CompleteExecution
  <2> QED BY <2>1, <2>2, LinesSettle
<1>4. ASSUME NEW r \in Requests, NEW next \in {"acquiring", "opening", "returned", "removing", "working", "aborting", "idle"},
             pc[r] \notin InLine, pc' = [pc EXCEPT ![r] = next],
             tail' = tail, \A q \in Requests \ {r} : rec'[q] = rec[q] /\ waitFor'[q] = waitFor[q]
      PROVE  LinesKept'
  BY <1>4, LinesMove DEF InLine, OnRecord
<1>5. ASSUME NEW r \in Requests,
             StartAcquisition(r) \/ TaskReturns(r) \/ RemoveSession(r) \/ ProcessCancellation(r)
      PROVE  LinesKept'
  <2>1. pc[r] \notin InLine /\ UNCHANGED <<tail, rec, waitFor>>
    BY <1>5 DEF StartAcquisition, TaskReturns, RemoveSession, ProcessCancellation, InLine
  <2>2. \E next \in {"acquiring", "returned", "removing", "aborting", "idle"} : pc' = [pc EXCEPT ![r] = next]
    BY <1>5 DEF StartAcquisition, TaskReturns, RemoveSession, ProcessCancellation, FailExecution, Settle
  <2> QED BY <1>4, <2>1, <2>2
\* Awaiting the queue of the published record.
<1>6. ASSUME NEW r \in Requests, pc[r] \notin InLine, published \in Records, AwaitTail(r), tail' = tail,
             NEW next \in {"reading", "releasing"}, pc' = [pc EXCEPT ![r] = next]
      PROVE  LinesKept'
  <2>1. rec'[r] = published /\ waitFor'[r] = Range(tail[published])
        /\ \A q \in Requests \ {r} : rec'[q] = rec[q] /\ waitFor'[q] = waitFor[q]
    BY <1>1, <1>6 DEF AwaitTail
  <2> QED BY <1>6, <2>1, LinesMove DEF InLine
<1>7. ASSUME NEW r \in Requests, StartRead(r) PROVE LinesKept'
  <2>1. /\ pc[r] = "accepted" /\ published \in Records /\ AwaitTail(r) /\ tail' = tail
        /\ pc' = [pc EXCEPT ![r] = "reading"]
    BY <1>1, <1>7, BoundAssumption DEF StartRead, Reaches
  <2> QED BY <1>6, <2>1 DEF InLine
<1>8. ASSUME NEW r \in Requests, StartRelease(r) PROVE LinesKept'
  <2>1. pc[r] = "accepted" /\ published \in Records /\ tail' = tail
    BY <1>1, <1>8, BoundAssumption DEF StartRelease, Reaches
  <2>2. CASE AwaitTail(r) /\ pc' = [pc EXCEPT ![r] = "releasing"]
    BY <1>6, <2>1, <2>2 DEF InLine
  <2>3. CASE Fail(r, "SESSION_BUSY") /\ UNCHANGED <<rec, waitFor>>
    BY <2>1, <2>3, LinesSettle DEF InLine
  <2> QED BY <1>8, <2>2, <2>3 DEF StartRelease
<1>9. ASSUME NEW r \in Requests, TakeTurn(r) PROVE LinesKept'
  <2>1. pc[r] = "acquiring" /\ tail' = tail BY <1>9 DEF TakeTurn
  <2>2. CASE UNCHANGED <<rec, waitFor>> /\ \E next \in {"idle", "opening"} : pc' = [pc EXCEPT ![r] = next]
    BY <1>4, <2>1, <2>2 DEF InLine
  <2>3. CASE published # 0 /\ AwaitTail(r) /\ pc' = [pc EXCEPT ![r] = "reading"]
    <3>1. published \in Records BY <1>1, <2>3, BoundAssumption
    <3> QED BY <1>6, <2>1, <2>3, <3>1 DEF InLine
  <2> QED BY <1>9, <2>2, <2>3 DEF TakeTurn, Fail, Settle
<1>10. ASSUME NEW r \in Requests, Publish(r) PROVE LinesKept'
  <2>1. /\ pc[r] = "opening" /\ born + 1 \in Records /\ tail' = tail /\ pc' = [pc EXCEPT ![r] = "reading"]
        /\ rec' = [rec EXCEPT ![r] = born + 1] /\ waitFor' = [waitFor EXCEPT ![r] = {}]
    BY <1>1, <1>10, BoundAssumption DEF Publish
  <2>2. /\ rec'[r] = born + 1 /\ waitFor'[r] = {}
        /\ \A q \in Requests \ {r} : rec'[q] = rec[q] /\ waitFor'[q] = waitFor[q]
    BY <1>1, <2>1
  <2> QED BY <2>1, <2>2, LinesMove DEF InLine
<1>11. ASSUME NEW r \in Requests, StartExecution(r) PROVE LinesKept'
  <2>1. /\ pc[r] = "accepted" /\ published \in Records /\ UNCHANGED <<tail, waitFor>>
        /\ rec' = [rec EXCEPT ![r] = published]
    BY <1>1, <1>11, BoundAssumption DEF StartExecution, Reaches
  <2>2. \E next \in {"preparing", "working"} : pc' = [pc EXCEPT ![r] = next]
    BY <1>11 DEF StartExecution
  <2>3. rec'[r] = published /\ \A q \in Requests \ {r} : rec'[q] = rec[q]
    BY <1>1, <2>1
  <2> QED BY <2>1, <2>2, <2>3, LinesMove DEF InLine
\* An event joins a queue as its last entry.
<1>12. ASSUME NEW e \in Events, AgentEvent(e) PROVE LinesKept'
  <2>1. /\ published \in Records /\ tail[published] \in Seq(Jobs) /\ e \in Jobs /\ e \notin Range(tail[published])
        /\ tail' = [tail EXCEPT ![published] = Append(tail[published], e)] /\ UNCHANGED <<pc, rec, waitFor>>
        /\ OnceEach(tail[published]) /\ e \notin Requests
    BY <1>1, <1>12, BoundAssumption, JobAssumption DEF AgentEvent, JoinTail, LinesKept
  <2>2. /\ Range(Append(tail[published], e)) = Range(tail[published]) \cup {e}
        /\ OnceEach(Append(tail[published], e))
        /\ tail[published] # <<>> => /\ Append(tail[published], e) # <<>>
                                     /\ Head(Append(tail[published], e)) = Head(tail[published])
    BY <2>1, QueueJoined
  <2>3. \A k \in Records : /\ OnceEach(tail'[k])
                           /\ Range(tail[k]) \subseteq Range(tail'[k]) /\ Range(tail'[k]) \subseteq Range(tail[k]) \cup {e}
                           /\ tail[k] # <<>> => tail'[k] # <<>> /\ Head(tail'[k]) = Head(tail[k])
    BY <1>1, <2>1, <2>2 DEF LinesKept
  <2>4. \A q \in Requests : pc[q] = "applying" => AtHead(q)'
    BY <2>1, <2>3 DEF LinesKept, AtHead, InLine
  <2>5. \A q \in Requests : pc[q] \in {"reading", "releasing"} => rec[q] \in Records
    BY DEF LinesKept, OnRecord
  <2>6. \A q \in Requests : pc[q] \in {"reading", "releasing"} => waitFor'[q] \subseteq Range(tail'[rec'[q]])
    BY <2>1, <2>3, <2>5 DEF LinesKept
  <2>7. \A q \in Requests : pc[q] \in InLine => rec[q] \in Records /\ q \in Range(tail'[rec[q]])
    BY <2>3 DEF LinesKept
  <2>8. \A k \in Records : \A q \in Requests : q \in Range(tail'[k]) => rec[q] = k /\ pc[q] \in InLine
    <3> TAKE k \in Records
    <3> TAKE q \in Requests
    <3> HAVE q \in Range(tail'[k])
    <3>1. q \in Range(tail[k]) BY <2>1, <2>3
    <3> QED BY <3>1 DEF LinesKept
  <2>9. \A q \in Requests : pc[q] \in OnRecord => rec[q] \in Records
    BY DEF LinesKept
  <2> QED BY <2>1, <2>3, <2>4, <2>6, <2>7, <2>8, <2>9 DEF LinesKept
<1>13. ASSUME NEW k \in Records, DeliverEvent(k) PROVE LinesKept'
  <2>1. /\ tail[k] # <<>> /\ Head(tail[k]) \in Events /\ LeaveTail(k, Head(tail[k])) /\ UNCHANGED <<pc, rec>>
    BY <1>13 DEF DeliverEvent
  <2>2. {} \cap Requests = {Head(tail[k])} \cap Requests BY <2>1, JobAssumption
  <2>3. \A q \in Requests \ {} : pc'[q] = pc[q] BY <2>1
  <2> QED BY <2>1, <2>2, <2>3, LinesLeave
<1>14. CASE Dispose \/ FinishDispose \/ UNCHANGED vars
  <2>1. UNCHANGED <<pc, rec, tail, waitFor>> BY <1>14 DEF Dispose, FinishDispose, vars
  <2> QED BY <2>1 DEF LinesKept, AtHead
<1> QED BY <1>2, <1>3, <1>5, <1>7, <1>8, <1>9, <1>10, <1>11, <1>12, <1>13, <1>14, LinesQueueSteps DEF Next, Progress

\* Whoever waits does so for one who goes on: acquisition turns, mutations, releases and
\* dispose never wait for one another in a circle (runExclusive, withSessionMutation,
\* `await session.mutationTail`, performDispose).
THEOREM NobodyWaitsForever == Spec => []NobodyWaitsInVain
<1>1. TypeOK /\ Acquisition /\ TurnsKept /\ LinesKept => NobodyWaitsInVain
  <2> SUFFICES ASSUME TypeOK, Acquisition, TurnsKept, LinesKept PROVE NobodyWaitsInVain
    OBVIOUS
  <2>1. acquiring \in Seq(Requests) /\ tail \in [Records -> Seq(Jobs)] BY DEF TypeOK
  <2>2. acquiring # <<>> => GoesOn(Head(acquiring))
    <3> SUFFICES ASSUME acquiring # <<>> PROVE GoesOn(Head(acquiring))
      OBVIOUS
    <3>1. Head(acquiring) \in Range(acquiring) /\ Head(acquiring) \in Requests BY <2>1, HeadWaits
    <3>2. pc[Head(acquiring)] \in {"acquiring", "opening"} BY <3>1 DEF TurnsKept
    <3> QED BY <3>2 DEF GoesOn, InFlight, HasTurn
  <2>3. ASSUME NEW k \in Records, tail[k] # <<>>
        PROVE  Head(tail[k]) \in Events \/ GoesOn(Head(tail[k]))
    <3>1. tail[k] \in Seq(Jobs) BY <2>1
    <3>2. Head(tail[k]) \in Range(tail[k]) /\ Head(tail[k]) \in Jobs BY <2>3, <3>1, HeadWaits
    <3>3. CASE Head(tail[k]) \in Requests
      <4>1. rec[Head(tail[k])] = k /\ pc[Head(tail[k])] \in InLine BY <3>2, <3>3 DEF LinesKept
      <4> QED BY <2>3, <4>1 DEF GoesOn, InFlight, AtHead, InLine
    <3> QED BY <3>2, <3>3
  <2>4. ASSUME NEW r \in Requests, InFlight(r), ~GoesOn(r)
        PROVE  \/ pc[r] = "acquiring" /\ acquiring # <<>>
               \/ /\ pc[r] \in {"reading", "releasing", "queued", "commit-queued"}
                  /\ rec[r] \in Records /\ tail[rec[r]] # <<>>
    <3>1. CASE pc[r] \in {"acquiring", "opening"}
      <4>1. r \in Range(acquiring) /\ (pc[r] = "opening" => HasTurn(r)) BY <3>1 DEF TurnsKept, Acquisition, HasTurn
      <4>2. acquiring # <<>> BY <2>1, <4>1, InQueueIs
      <4> QED BY <2>4, <3>1, <4>1, <4>2 DEF GoesOn
    <3>2. CASE pc[r] \in {"reading", "releasing"}
      <4>1. rec[r] \in Records /\ waitFor[r] # {} /\ waitFor[r] \subseteq Range(tail[rec[r]])
        BY <2>4, <3>2 DEF GoesOn, LinesKept, OnRecord
      <4>2. PICK e \in Range(tail[rec[r]]) : TRUE BY <4>1
      <4>3. tail[rec[r]] \in Seq(Jobs) BY <2>1, <4>1
      <4> QED BY <3>2, <4>1, <4>2, <4>3, InQueueIs
    <3>3. CASE pc[r] \in InLine
      <4>1. rec[r] \in Records /\ r \in Range(tail[rec[r]]) /\ pc[r] # "applying"
        BY <2>4, <3>3 DEF LinesKept, GoesOn, InLine
      <4>2. tail[rec[r]] \in Seq(Jobs) BY <2>1, <4>1
      <4> QED BY <3>3, <4>1, <4>2, InQueueIs DEF InLine
    <3> QED BY <2>4, <3>1, <3>2, <3>3 DEF GoesOn, InLine
  <2> QED BY <2>2, <2>3, <2>4 DEF NobodyWaitsInVain
<1>2. Init => TurnsKept /\ LinesKept /\ Retention /\ Acquisition
  <2> SUFFICES ASSUME Init PROVE TurnsKept /\ LinesKept /\ Retention /\ Acquisition
    OBVIOUS
  <2>1. Range(acquiring) = {} /\ OnceEach(acquiring) /\ \A k \in Records : Range(tail[k]) = {} /\ OnceEach(tail[k])
    BY DEF Init, Range, OnceEach
  <2>2. \A r \in Requests : pc[r] = "idle" BY DEF Init
  <2>3. TurnsKept /\ LinesKept BY <2>1, <2>2 DEF TurnsKept, LinesKept, InLine, OnRecord
  <2>4. Retention /\ Acquisition BY DEF Init, Retention, InFlight, Acquisition, ShutdownHoldsNothing
  <2> QED BY <2>3, <2>4
<1> QED BY <1>1, <1>2, TypeCorrect, RetentionStep, AcquisitionStep, TurnsStep, LinesStep, PTL DEF Spec
=============================================================================
