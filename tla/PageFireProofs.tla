---------------------------- MODULE PageFireProofs ----------------------------
(***************************************************************************)
(* Proofs about the engine, for every set of alerts, every policy, backoff *)
(* table and batch size and any number of failures: each of its behaviours *)
(* is one of Escalation and one of NotificationQueue.  What is proved      *)
(* about those modules alone thereby holds of the engine.                  *)
(***************************************************************************)
EXTENDS PageFire, FiniteSetTheorems, TLAPS

EP == INSTANCE EscalationProofs WITH
        status <- alertStatus, queue <- Queued, batch <- eBatch, cur <- eCur,
        since <- eSince, faults <- eFaults

QP == INSTANCE NotificationQueueProofs WITH
        Note <- Notes, status <- noteStatus, batch <- nBatch, cur <- nCur,
        since <- nSince, faults <- nFaults

\* A processor holds something only while it is its turn, and nobody has a turn
\* while the process is down.
TurnInv ==
  /\ old \subseteq Alert
  /\ turn # "escalation" => eBatch = <<>> /\ eCur = NULL
  /\ turn # "notification" => nBatch = <<>> /\ nCur = NULL
  /\ ~up => turn = "wait"

IInv == EP!IInv /\ EP!RunsInv /\ QP!IInv /\ TurnInv

-----------------------------------------------------------------------------
(* The instances say the same as those of PageFire.                        *)

\* The assumptions of the escalation processor's proofs.
LEMMA EscalationAssumed ==
  /\ Snapshot \in [Alert -> EP!Policy]
  /\ NULL \notin Nat /\ NULL \notin Alert
  /\ MaxDelay \in Nat /\ MaxFaults \in Nat
  /\ \A a \in Alert : \A i \in DOMAIN Snapshot[a].steps :
       Snapshot[a].steps[i].delay <= MaxDelay
BY EscalationAssumption DEF E!Policy, E!Step, EP!Policy, EP!Step

\* The escalation processor of the proofs starts as that of the engine.
LEMMA SameEscalationInit == E!Init <=> EP!Init
BY DEF E!Init, EP!Init, E!Start, EP!Start

\* Both have the same API calls.
LEMMA SameEscalationApi == E!Api => EP!Api
BY DEF E!Api, E!Create, E!Acknowledge, E!Resolve, E!DeleteService, E!Exists, E!Closed,
       E!engine, E!history,
       EP!Api, EP!Create, EP!Acknowledge, EP!Resolve, EP!DeleteService, EP!Exists, EP!Closed,
       EP!engine, EP!history

\* Both compute the same.
LEMMA SameEscalationHelpers ==
  /\ \A a, p : E!Exhausted(a, p) <=> EP!Exhausted(a, p)
  /\ \A a, p : E!Executed(a, p) = EP!Executed(a, p)
  /\ \A a, p : E!StepAt(a, p) = EP!StepAt(a, p)
  /\ \A p : E!After(p) = EP!After(p)
  /\ \A f, S : E!Restrict(f, S) = EP!Restrict(f, S)
<1>1. \A a, p : E!Exhausted(a, p) <=> EP!Exhausted(a, p)
  BY DEF E!Exhausted, E!Steps, E!Repeat, EP!Exhausted, EP!Steps, EP!Repeat
<1>2. \A a, p : E!Executed(a, p) = EP!Executed(a, p)
  BY DEF E!Executed, E!Steps, EP!Executed, EP!Steps
<1>3. \A a, p : E!StepAt(a, p) = EP!StepAt(a, p)
  BY DEF E!StepAt, E!Steps, EP!StepAt, EP!Steps
<1>4. \A p : E!After(p) = EP!After(p)
  BY DEF E!After, EP!After
<1>5. \A f, S : E!Restrict(f, S) = EP!Restrict(f, S)
  BY DEF E!Restrict, EP!Restrict
<1>. QED  BY <1>1, <1>2, <1>3, <1>4, <1>5

\* Both have the same steps, faults and clock.
LEMMA SameEscalationStep == [E!Next]_(E!vars) => [EP!Next]_(EP!vars)
<1> USE SameEscalationHelpers
    DEF E!Steps, EP!Steps, E!Exists, EP!Exists, E!Closed, EP!Closed,
        E!row, EP!row, E!engine, EP!engine, E!history, EP!history
<1>1. E!StartTick => EP!StartTick
  BY DEF E!StartTick, EP!StartTick, E!Idle, EP!Idle, E!FindPendingEscalations,
         EP!FindPendingEscalations
<1>2. \A a \in Alert : E!SkipEmpty(a) => EP!SkipEmpty(a)
  BY DEF E!SkipEmpty, EP!SkipEmpty
<1>3. \A a \in Alert : E!BeginStep(a) => EP!BeginStep(a)
  BY DEF E!BeginStep, EP!BeginStep, E!MissedEntries, EP!MissedEntries
<1>4. \A a \in Alert : E!FinishExhausted(a) => EP!FinishExhausted(a)
  BY DEF E!FinishExhausted, EP!FinishExhausted, E!AlertDone, EP!AlertDone,
         E!UpdateEscalationStep, EP!UpdateEscalationStep
<1>5. \A g \in Page : /\ E!Enqueue(g) => EP!Enqueue(g)
                      /\ E!EnqueueFails(g) => EP!EnqueueFails(g)
  BY DEF E!Enqueue, EP!Enqueue, E!EnqueueFails, EP!EnqueueFails, E!CurEntry, EP!CurEntry
<1>6. E!AdvanceStep => EP!AdvanceStep
  BY DEF E!AdvanceStep, EP!AdvanceStep, E!AlertDone, EP!AlertDone, E!Moved, EP!Moved,
         E!UpdateEscalationStep, EP!UpdateEscalationStep
<1>7. \A a \in Alert : E!UpdateFails(a) => EP!UpdateFails(a)
  BY DEF E!UpdateFails, EP!UpdateFails, E!AlertDone, EP!AlertDone
<1>8. (E!Crash => EP!Crash) /\ (E!Restart => EP!Restart)
  BY DEF E!Crash, EP!Crash, E!Restart, EP!Restart
<1>9. E!Elapse => EP!Elapse
  BY DEF E!Elapse, EP!Elapse, E!Waiting, EP!Waiting, E!Advance, EP!Advance
<1>10. UNCHANGED E!vars => UNCHANGED EP!vars
  BY DEF E!vars, EP!vars
<1>. QED  BY <1>1, <1>2, <1>3, <1>4, <1>5, <1>6, <1>7, <1>8, <1>9, <1>10, SameEscalationApi
          DEF E!Next, E!EngineStep, E!Fault, EP!Next, EP!EngineStep, EP!Fault

\* The assumptions of the notification processor's proofs.
LEMMA QueueAssumed ==
  /\ QP!IsFiniteSet(Notes) /\ NULL \notin Notes
  /\ MaxAttempts \in Nat \ {0} /\ BatchLimit \in Nat \ {0}
  /\ Backoff \in Seq(0..MaxWait) /\ Backoff # <<>>
  /\ RuleDelay \subseteq 0..MaxWait /\ RuleDelay # {}
  /\ MaxWait \in Nat /\ MaxFaults \in Nat
BY QueueAssumption, EscalationAssumption DEF IsFiniteSet, QP!IsFiniteSet

\* The notification processor of the proofs starts as that of the engine.
LEMMA SameQueueInit == Q!Init <=> QP!Init
BY DEF Q!Init, QP!Init

\* Both work the queue in the same way.
LEMMA SameQueueStep == [Q!Next]_(Q!vars) => [QP!Next]_(QP!vars)
<1> USE DEF Q!queue, QP!queue, Q!engine, QP!engine, Q!history, QP!history, Q!InTable, QP!InTable,
            Q!Idle, QP!Idle
<1>1. /\ \A f, S : Q!Restrict(f, S) = QP!Restrict(f, S)
      /\ \A k : Q!BackoffAfter(k) = QP!BackoffAfter(k)
      /\ Q!NewestRanks = QP!NewestRanks
      /\ Q!Pending = QP!Pending
      /\ \A S : Q!FindPending(S) <=> QP!FindPending(S)
  <2>1. \A S : Q!Cardinality(S) = QP!Cardinality(S)
    BY DEF Q!Cardinality, QP!Cardinality
  <2>2. \A f, S : Q!Restrict(f, S) = QP!Restrict(f, S)
    BY DEF Q!Restrict, QP!Restrict
  <2>3. \A k : Q!BackoffAfter(k) = QP!BackoffAfter(k)
    BY DEF Q!BackoffAfter, QP!BackoffAfter
  <2>4. Q!NewestRanks = QP!NewestRanks
    BY <2>1 DEF Q!NewestRanks, QP!NewestRanks, Q!Rank, QP!Rank
  <2>5. Q!Pending = QP!Pending
    BY DEF Q!Pending, QP!Pending
  <2>6. \A S : Q!FindPending(S) <=> QP!FindPending(S)
    BY <2>1, <2>5 DEF Q!FindPending, QP!FindPending
  <2>. QED  BY <2>2, <2>3, <2>4, <2>5, <2>6
<1>2. \A n \in Notes : Q!Enqueue(n) => QP!Enqueue(n)
  BY <1>1 DEF Q!Enqueue, QP!Enqueue, Q!Insert, QP!Insert
<1>3. Q!StartTick => QP!StartTick
  BY <1>1 DEF Q!StartTick, QP!StartTick
<1>4. \A n \in Notes : /\ Q!MarkSending(n) => QP!MarkSending(n)
                       /\ Q!MarkSendingFails(n) => QP!MarkSendingFails(n)
  BY <1>1 DEF Q!MarkSending, QP!MarkSending, Q!MarkSendingFails, QP!MarkSendingFails,
         Q!TakeNext, QP!TakeNext, Q!SetStatus, QP!SetStatus, Q!Release, QP!Release
<1>5. \A result \in {"ok", "error"} : Q!Dispatch(result) => QP!Dispatch(result)
  BY DEF Q!Dispatch, QP!Dispatch
<1>6. (Q!MarkSent => QP!MarkSent) /\ (Q!MarkFailed => QP!MarkFailed)
  BY <1>1 DEF Q!MarkSent, QP!MarkSent, Q!MarkFailed, QP!MarkFailed, Q!LastAttempt, QP!LastAttempt,
         Q!SetStatus, QP!SetStatus, Q!Release, QP!Release
<1>7. (Q!Retry => QP!Retry) /\ (Q!MarkFails => QP!MarkFails)
  BY <1>1 DEF Q!Retry, QP!Retry, Q!MarkFails, QP!MarkFails, Q!LastAttempt, QP!LastAttempt,
         Q!IncrementAttempts, QP!IncrementAttempts, Q!SetStatus, QP!SetStatus,
         Q!Release, QP!Release
<1>8. (Q!Crash => QP!Crash) /\ (Q!Restart => QP!Restart)
  BY DEF Q!Crash, QP!Crash, Q!Restart, QP!Restart
<1>9. Q!Purge => QP!Purge
  BY DEF Q!Purge, QP!Purge, Q!PurgeOldNotifications, QP!PurgeOldNotifications,
         Q!PurgeResolvedAlerts, QP!PurgeResolvedAlerts, Q!Remove, QP!Remove
<1>10. Q!Elapse => QP!Elapse
  BY DEF Q!Elapse, QP!Elapse, Q!Waiting, QP!Waiting, Q!Advance, QP!Advance
<1>11. UNCHANGED Q!vars => UNCHANGED QP!vars
  BY DEF Q!vars, QP!vars
<1>. QED  BY <1>2, <1>3, <1>4, <1>5, <1>6, <1>7, <1>8, <1>9, <1>10, <1>11
          DEF Q!Next, Q!Drain, Q!Fault, QP!Next, QP!Drain, QP!Fault

-----------------------------------------------------------------------------
(* Every step of the engine is a step of the escalation processor's module *)
(* or leaves its variables alone.                                          *)

\* What is queued is unchanged while no row appears.
LEMMA QueuedKept ==
  ASSUME \A n \in Notes : noteStatus'[n] = "absent" <=> noteStatus[n] = "absent"
  PROVE  Queued' = Queued
BY DEF Queued

\* The statements of the notification processor only reach rows that exist.
LEMMA QueueKeepsRows ==
  ASSUME QP!IInv,
         \/ \E n \in Notes : Q!MarkSending(n) \/ Q!MarkSendingFails(n)
         \/ \E result \in {"ok", "error"} : Q!Dispatch(result)
         \/ Q!MarkSent \/ Q!MarkFailed \/ Q!Retry \/ Q!MarkFails
  PROVE  Queued' = Queued /\ up' = up
<1>1. noteStatus \in [Notes -> QP!Status]
  BY DEF QP!IInv, QP!TypeOK
<1>2. up' = up
  BY DEF Q!MarkSending, Q!MarkSendingFails, Q!Dispatch, Q!MarkSent, Q!MarkFailed, Q!Retry,
         Q!MarkFails
<1>3. \/ noteStatus' = noteStatus
      \/ \E n, s : s # "absent" /\ Q!SetStatus(n, s)
  BY DEF Q!MarkSending, Q!MarkSendingFails, Q!Dispatch, Q!MarkSent, Q!MarkFailed, Q!Retry,
         Q!MarkFails, Q!IncrementAttempts, Q!queue
<1>4. \A n \in Notes : noteStatus'[n] = "absent" <=> noteStatus[n] = "absent"
  BY <1>1, <1>3 DEF Q!SetStatus, Q!InTable
<1>. QED  BY <1>2, <1>4, QueuedKept

\* Time moves both clocks, or one of them has nobody to wait for.
LEMMA EscalationClock ==
  ASSUME EP!IInv, E!Advance PROVE [E!Next]_(E!vars)
<1>1. CASE E!Waiting
  BY <1>1 DEF E!Elapse, E!Next
<1>2. CASE ~E!Waiting
  <2>1. next' = next /\ eSince' = eSince
    BY <1>2 DEF E!Advance, E!Waiting, EP!IInv, EP!TypeOK
  <2>. QED  BY <2>1 DEF E!Advance, E!vars, E!row, E!engine, E!history
<1>. QED  BY <1>1, <1>2

\* The refinement step.
LEMMA EscalationSteps == IInv /\ [Next]_vars => [E!Next]_(E!vars)
<1> SUFFICES ASSUME IInv, [Next]_vars PROVE [E!Next]_(E!vars)
  OBVIOUS
<1>1. ASSUME UNCHANGED <<up, eOnly, Queued>> PROVE [E!Next]_(E!vars)
  BY <1>1 DEF eOnly, alerts, eHistory, E!vars, E!row, E!engine, E!history
<1>2. ASSUME UNCHANGED <<up, eOnly, nOnly>> PROVE [E!Next]_(E!vars)
  BY <1>1, <1>2, QueuedKept DEF nOnly, notes
<1>3. CASE Api
  BY <1>3 DEF Api, E!Next
<1>4. CASE EngineStep
  <2>1. CASE Escalate
    BY <1>2, <2>1 DEF Escalate, E!Next, E!EngineStep
  <2>2. ASSUME NEW g \in Page, Enqueue(g) PROVE [E!Next]_(E!vars)
    BY <2>2 DEF Enqueue, E!Next, E!EngineStep
  <2>3. CASE EscalationStep
    BY <2>3 DEF EscalationStep, E!Next, E!EngineStep, E!Fault
  <2>4. CASE Notify
    <3>1. CASE UNCHANGED <<up, nOnly>>
      BY <1>2, <2>4, <3>1 DEF Notify
    <3>2. CASE Q!StartTick
      BY <1>1, <2>4, <3>2, QueuedKept DEF Notify, Q!StartTick, Q!queue
    <3>. QED  BY <2>4, <3>1, <3>2 DEF Notify
  <2>5. ASSUME NEW result \in {"ok", "error"}, Dispatch(result) PROVE [E!Next]_(E!vars)
    BY <1>1, <2>5, QueueKeepsRows DEF Dispatch, IInv
  <2>6. CASE NotificationStep
    BY <1>1, <2>6, QueueKeepsRows DEF NotificationStep, IInv
  <2>7. CASE ReadFails \/ SkipCleanup \/ PurgeFails
    BY <1>2, <2>7 DEF ReadFails, SkipCleanup, PurgeFails
  <2>8. CASE PurgeResolvedAlerts
    <3>1. \A n \in Notes : noteStatus'[n] = "absent" <=> noteStatus[n] = "absent"
      BY <2>8 DEF PurgeResolvedAlerts, nOnly, notes, Q!Remove, NotesOf, Q!InTable
    <3>2. CASE UNCHANGED <<up, eOnly>>
      BY <1>1, <3>1, <3>2, QueuedKept
    <3>3. CASE E!DeleteService(LongResolved)
      <4>1. LongResolved \in SUBSET Alert
        BY DEF LongResolved, IInv, TurnInv
      <4>. QED  BY <3>3, <4>1 DEF E!Next, E!Api
    <3>. QED  BY <2>8, <3>2, <3>3 DEF PurgeResolvedAlerts
  <2>9. CASE PurgeOldNotifications
    <3>1. \A n \in Notes : noteStatus'[n] = "absent" <=> noteStatus[n] = "absent"
      BY <2>9 DEF PurgeOldNotifications, nOnly, notes, Q!Remove
    <3>. QED  BY <1>1, <2>9, <3>1, QueuedKept DEF PurgeOldNotifications
  <2>. QED  BY <1>4, <2>1, <2>2, <2>3, <2>4, <2>5, <2>6, <2>7, <2>8, <2>9 DEF EngineStep
<1>5. CASE Crash
  BY <1>5 DEF Crash, E!Next, E!Fault
<1>6. CASE Restart
  BY <1>6 DEF Restart, E!Next
<1>7. CASE Elapse
  BY <1>7, EscalationClock DEF Elapse, IInv
<1>8. CASE Age \/ UNCHANGED vars
  BY <1>2, <1>8 DEF Age, GrowOld, vars
<1>. QED  BY <1>3, <1>4, <1>5, <1>6, <1>7, <1>8 DEF Next

-----------------------------------------------------------------------------
(* ... and a step of the queue's module.                                   *)

\* What the escalation processor enqueues is a row the queue has room for: its
\* step is on the ladder, its page in the step, its run paid for by a failure.
LEMMA CurEntryIsNote ==
  ASSUME IInv, eCur # NULL, NEW g \in todo
  PROVE  E!CurEntry(g) \in Notes
<1> DEFINE p == EP!Executed(eCur, eBatch[eCur])
           i == p.step + 1
<1>1. /\ eCur \in Alert /\ eCur \in DOMAIN eBatch /\ eBatch[eCur] \in EP!Position
      /\ eBatch[eCur].loop <= EP!Repeat(eCur) /\ eBatch[eCur].step <= Len(EP!Steps(eCur))
      /\ EP!Steps(eCur) # <<>> /\ ~EP!Exhausted(eCur, eBatch[eCur])
  BY DEF IInv, EP!IInv, EP!TypeOK, EP!BatchIsCurrent, EP!WithinLadder, EP!Working
<1>2. /\ p \in EP!Position /\ p.loop <= EP!Repeat(eCur)
      /\ i \in 1..Len(EP!Steps(eCur))
  BY <1>1, EscalationAssumed, EP!ExecutedOnLadder
<1>3. /\ EP!Steps(eCur) \in Seq(EP!Step) /\ EP!Repeat(eCur) \in Nat
  BY <1>1, EscalationAssumed, EP!StepsType
<1>4. /\ i \in DOMAIN Snapshot[eCur].steps /\ i - 1 = p.step
      /\ p.loop \in 0..Snapshot[eCur].repeat
  BY <1>2, <1>3 DEF EP!Steps, EP!Repeat, EP!Position
<1>5. g \in Snapshot[eCur].steps[i].pages
  BY DEF IInv, EP!RunsInv, EP!StepAt, EP!Steps
<1>6. run[eCur] \in 1..MaxFaults + 1
  <2>1. run[eCur] <= eFaults + 1 /\ eFaults \in 0..MaxFaults /\ run[eCur] \in Nat
    BY <1>1 DEF IInv, EP!RunsInv, EP!Workable, EP!IInv, EP!TypeOK
  <2>2. run[eCur] >= 1
    BY <1>1, <2>1 DEF IInv, EP!RunsInv
  <2>. QED  BY <2>1, <2>2, EscalationAssumed
<1>7. E!CurEntry(g) = [alert |-> eCur, loop |-> p.loop, step |-> i - 1, page |-> g,
                       run |-> run[eCur]]
  BY <1>4, SameEscalationHelpers DEF E!CurEntry
<1>8. E!CurEntry(g) \in NotesOfStep(eCur, i)
  BY <1>4, <1>5, <1>6, <1>7 DEF NotesOfStep
<1>. QED  BY <1>1, <1>4, <1>8 DEF Notes

\* Time moves both clocks, or one of them has nobody to wait for.
LEMMA QueueClock ==
  ASSUME QP!IInv, Q!Advance PROVE [Q!Next]_(Q!vars)
<1>1. CASE Q!Waiting
  BY <1>1 DEF Q!Elapse, Q!Next
<1>2. CASE ~Q!Waiting
  <2>1. wait' = wait /\ nSince' = nSince
    BY <1>2 DEF Q!Advance, Q!Waiting, QP!IInv, QP!TypeOK
  <2>. QED  BY <2>1 DEF Q!Advance, Q!vars, Q!queue, Q!engine, Q!history
<1>. QED  BY <1>1, <1>2

\* The refinement step.
LEMMA QueueSteps == IInv /\ [Next]_vars => [Q!Next]_(Q!vars)
<1> SUFFICES ASSUME IInv, [Next]_vars PROVE [Q!Next]_(Q!vars)
  OBVIOUS
<1>1. ASSUME UNCHANGED <<up, nOnly>> PROVE [Q!Next]_(Q!vars)
  BY <1>1 DEF nOnly, notes, nHistory, Q!vars, Q!queue, Q!engine, Q!history
<1>2. CASE Api
  <2>1. up' = up
    BY <1>2 DEF Api, E!Api, E!Create, E!Acknowledge, E!Resolve, E!DeleteService, E!engine
  <2>. QED  BY <1>1, <1>2, <2>1 DEF Api
<1>3. CASE EngineStep
  <2>1. CASE Escalate
    BY <1>1, <2>1 DEF Escalate, E!StartTick
  <2>2. ASSUME NEW g \in Page, Enqueue(g) PROVE [Q!Next]_(Q!vars)
    <3>1. Q!Idle
      <4>1. eCur # NULL
        BY <2>2 DEF Enqueue
      <4>. QED  BY <4>1 DEF Q!Idle, IInv, TurnInv
    <3>2. E!CurEntry(g) \in Notes
      BY <2>2, CurEntryIsNote DEF Enqueue
    <3>3. Q!Enqueue(E!CurEntry(g))
      BY <2>2, <3>1 DEF Enqueue, Q!Enqueue
    <3>. QED  BY <3>2, <3>3 DEF Q!Next
  <2>3. CASE EscalationStep
    <3>1. up' = up
      BY <2>3 DEF EscalationStep, E!SkipEmpty, E!BeginStep, E!FinishExhausted, E!UpdateFails,
                  E!EnqueueFails, E!AdvanceStep
    <3>. QED  BY <1>1, <2>3, <3>1 DEF EscalationStep
  <2>4. CASE Notify
    BY <1>1, <2>4 DEF Notify, Q!Next, Q!Drain
  <2>5. ASSUME NEW result \in {"ok", "error"}, Dispatch(result) PROVE [Q!Next]_(Q!vars)
    BY <2>5 DEF Dispatch, Q!Next, Q!Drain
  <2>6. CASE NotificationStep
    BY <2>6 DEF NotificationStep, Q!Next, Q!Drain, Q!Fault
  <2>7. CASE ReadFails \/ SkipCleanup \/ PurgeFails
    BY <1>1, <2>7 DEF ReadFails, SkipCleanup, PurgeFails
  <2>8. CASE PurgeResolvedAlerts
    <3>1. CASE UNCHANGED nOnly
      <4>1. up' = up
        BY <2>8 DEF PurgeResolvedAlerts, E!DeleteService, E!engine
      <4>. QED  BY <1>1, <3>1, <4>1
    <3>2. CASE Q!Remove(NotesOf(LongResolved))
      <4>1. /\ NotesOf(LongResolved) \in SUBSET {n \in Notes : Q!InTable(n)}
            /\ \A n \in NotesOf(LongResolved) : Q!InTable(n)
        BY DEF NotesOf
      <4>2. Q!Idle
        BY <2>8 DEF PurgeResolvedAlerts
      <4>3. Q!PurgeResolvedAlerts(NotesOf(LongResolved))
        BY <3>2, <4>1, <4>2 DEF Q!PurgeResolvedAlerts
      <4>. QED  BY <4>1, <4>3 DEF Q!Next, Q!Purge
    <3>. QED  BY <2>8, <3>1, <3>2 DEF PurgeResolvedAlerts
  <2>9. CASE PurgeOldNotifications
    <3>1. CASE UNCHANGED nOnly
      BY <1>1, <2>9, <3>1 DEF PurgeOldNotifications
    <3>2. ASSUME NEW gone \in SUBSET {n \in Notes : noteStatus[n] \in {"sent", "failed"}},
                 Q!Remove(gone)
          PROVE  [Q!Next]_(Q!vars)
      <4>1. Q!Idle
        BY <2>9 DEF PurgeOldNotifications, Q!Idle, IInv, TurnInv
      <4>2. gone \in SUBSET {n \in Notes : Q!InTable(n)}
        BY DEF Q!InTable
      <4>3. Q!PurgeOldNotifications(gone)
        BY <3>2, <4>1 DEF Q!PurgeOldNotifications
      <4>. QED  BY <4>2, <4>3 DEF Q!Next, Q!Purge
    <3>. QED  BY <2>9, <3>1, <3>2 DEF PurgeOldNotifications
  <2>. QED  BY <1>3, <2>1, <2>2, <2>3, <2>4, <2>5, <2>6, <2>7, <2>8, <2>9 DEF EngineStep
<1>4. CASE Crash
  BY <1>4 DEF Crash, Q!Next, Q!Fault
<1>5. CASE Restart
  BY <1>5 DEF Restart, Q!Next
<1>6. CASE Elapse
  BY <1>6, QueueClock DEF Elapse, IInv
<1>7. CASE Age \/ UNCHANGED vars
  BY <1>1, <1>7 DEF Age, GrowOld, vars
<1>. QED  BY <1>2, <1>3, <1>4, <1>5, <1>6, <1>7 DEF Next

-----------------------------------------------------------------------------
(* The turns.                                                              *)

\* Nothing is in anybody's hands when the process starts.
LEMMA InitIInv == Init => IInv
<1> SUFFICES ASSUME Init PROVE IInv
  OBVIOUS
<1>1. E!Init /\ Q!Init
  BY DEF Init, E!Init, Q!Init, Queued
<1>2. EP!IInv /\ EP!RunsInv
  BY <1>1, SameEscalationInit, EscalationAssumed, EP!InitIInv, EP!RunsInit
<1>3. QP!IInv
  BY <1>1, SameQueueInit, QueueAssumed, QP!InitIInv
<1>4. TurnInv
  BY DEF Init, TurnInv
<1>. QED  BY <1>2, <1>3, <1>4 DEF IInv

\* A processor takes up work in its own turn and hands the turn on with nothing
\* left.
LEMMA TurnNext == ASSUME IInv, [Next]_vars PROVE TurnInv'
<1> USE DEF TurnInv
<1>1. CASE Api
  BY <1>1 DEF Api, E!Api, E!Create, E!Acknowledge, E!Resolve, E!DeleteService, E!engine, nOnly,
              engine, IInv
<1>2. CASE EngineStep
  <2>1. CASE Escalate
    BY <2>1 DEF Escalate, E!StartTick, eOnly, nOnly, IInv
  <2>2. ASSUME NEW g \in Page, Enqueue(g) PROVE TurnInv'
    BY <2>2 DEF Enqueue, E!Enqueue, Q!Insert, Q!engine, engine, IInv
  <2>3. CASE EscalationStep
    <3>1. turn = "escalation" /\ up' = up
      <4>1. /\ eCur # NULL \/ \E a \in Alert : a \in DOMAIN eBatch
            /\ up' = up
        BY <2>3 DEF EscalationStep, E!SkipEmpty, E!BeginStep, E!FinishExhausted, E!UpdateFails,
                    E!EnqueueFails, E!AdvanceStep
      <4>. QED  BY <4>1 DEF IInv
    <3>. QED  BY <2>3, <3>1 DEF EscalationStep, nOnly, engine, IInv
  <2>4. CASE Notify
    BY <2>4 DEF Notify, E!Idle, Q!StartTick, nOnly, eOnly, IInv
  <2>5. ASSUME NEW result \in {"ok", "error"}, Dispatch(result) PROVE TurnInv'
    BY <2>5 DEF Dispatch, Q!Dispatch, eOnly, IInv
  <2>6. CASE NotificationStep
    <3>1. turn = "notification" /\ up' = up
      BY <2>6 DEF NotificationStep, Q!MarkSending, Q!MarkSendingFails, Q!TakeNext, Q!MarkSent,
                  Q!MarkFailed, Q!Retry, Q!MarkFails, IInv, QP!IInv, QP!InHand
    <3>. QED  BY <2>6, <3>1 DEF NotificationStep, eOnly, engine, IInv
  <2>7. CASE ReadFails \/ SkipCleanup \/ PurgeFails
    BY <2>7 DEF ReadFails, SkipCleanup, PurgeFails, E!Idle, Q!Idle, eOnly, nOnly, IInv
  <2>8. CASE PurgeResolvedAlerts
    BY <2>8 DEF PurgeResolvedAlerts, Q!Remove, Q!engine, Q!Idle, E!DeleteService, E!engine,
                eOnly, nOnly, IInv
  <2>9. CASE PurgeOldNotifications
    BY <2>9 DEF PurgeOldNotifications, Q!Remove, Q!engine, eOnly, nOnly, IInv
  <2>. QED  BY <1>2, <2>1, <2>2, <2>3, <2>4, <2>5, <2>6, <2>7, <2>8, <2>9 DEF EngineStep
<1>3. CASE Crash
  BY <1>3 DEF Crash, E!Crash, Q!Crash, IInv
<1>4. CASE Restart
  BY <1>4 DEF Restart, E!Restart, Q!Restart, engine, IInv
<1>5. CASE Elapse
  BY <1>5 DEF Elapse, E!Advance, E!engine, Q!Advance, Q!engine, engine, IInv
<1>6. CASE Age \/ UNCHANGED vars
  BY <1>6 DEF Age, GrowOld, eOnly, nOnly, vars, engine, IInv
<1>. QED  BY <1>1, <1>2, <1>3, <1>4, <1>5, <1>6 DEF Next

\* Every step keeps the invariants of both modules and the order of the turns.
LEMMA NextIInv == IInv /\ [Next]_vars => IInv'
<1> SUFFICES ASSUME IInv, [Next]_vars PROVE IInv'
  OBVIOUS
<1>1. [EP!Next]_(EP!vars)
  BY EscalationSteps, SameEscalationStep
<1>2. EP!IInv' /\ EP!RunsInv'
  BY <1>1, EscalationAssumed, EP!NextIInv, EP!RunsNext DEF IInv
<1>3. [QP!Next]_(QP!vars)
  BY QueueSteps, SameQueueStep
<1>4. QP!IInv'
  BY <1>3, QueueAssumed, QP!NextIInv DEF IInv
<1>. QED  BY <1>2, <1>4, TurnNext DEF IInv

\* The inductive invariant: that of each processor, and whose turn it is.
THEOREM Invariance == Spec => []IInv
<1>. QED  BY InitIInv, NextIInv, PTL DEF Spec

\* Every behaviour of the engine is a behaviour of the escalation processor's
\* module and of the queue's: the fixed order of the processors keeps what each
\* of them assumes of the other.
THEOREM ComponentsAreImplemented == Spec => ImplementsComponents
<1>1. Init => E!Init /\ Q!Init
  BY DEF Init, E!Init, Q!Init, Queued
<1>. QED  BY <1>1, Invariance, EscalationSteps, QueueSteps, PTL
          DEF Spec, ImplementsComponents, E!Spec, Q!Spec

-----------------------------------------------------------------------------
(* What the modules promise alone, promised by the engine.                 *)

LEMMA EngineIsEscalation == Spec => EP!Spec
<1>1. E!Init <=> EP!Init
  BY SameEscalationInit
<1>. QED  BY <1>1, ComponentsAreImplemented, SameEscalationStep, PTL
          DEF ImplementsComponents, E!Spec, EP!Spec

LEMMA EngineIsQueue == Spec => QP!Spec
<1>1. Q!Init <=> QP!Init
  BY SameQueueInit
<1>. QED  BY <1>1, ComponentsAreImplemented, SameQueueStep, PTL
          DEF ImplementsComponents, Q!Spec, QP!Spec

\* Beside a queue that is drained and purged on its own goroutine, the escalation
\* processor keeps what it promises alone: no step is early, skipped or taken on
\* after an alert was closed, and none pages twice for nothing.
THEOREM EscalationsKeepTheirPromises ==
  Spec => /\ [](EP!BatchIsCurrent /\ EP!WithinLadder /\ EP!AtMostOneLateStep)
          /\ [](EP!NoSilentSkip /\ EP!RepeatsArePaidFor)
          /\ EP!LatePagesOfOneStep /\ EP!DelayIsHonoured
<1>1. EP!Spec => [](EP!BatchIsCurrent /\ EP!WithinLadder /\ EP!AtMostOneLateStep)
  BY EscalationAssumed, EP!BatchIsAlwaysCurrent, EP!LadderIsBounded, EP!LateStepIsBounded, PTL
<1>2. EP!Spec => [](EP!NoSilentSkip /\ EP!RepeatsArePaidFor)
  BY EscalationAssumed, EP!NoStepIsSkipped, EP!RepeatsAlwaysPaidFor, PTL
<1>3. EP!Spec => EP!LatePagesOfOneStep
  BY EscalationAssumed, EP!LatePagesAreOfOneStep
<1>4. EP!Spec => EP!DelayIsHonoured
  BY EscalationAssumed, EP!DelaysAreHonoured
<1>. QED  BY EngineIsEscalation, <1>1, <1>2, <1>3, <1>4

\* So does the queue, whose rows the escalation processor inserts and the cleanup
\* takes away: final statuses are true, a provider that took a row is not called
\* for it again, retries keep their distance and end.
THEOREM NotificationsKeepTheirPromises ==
  Spec => /\ [](QP!FinalStatusIsTrue /\ QP!StrandedOnlyByFaults /\ QP!AtMostMaxAttempts)
          /\ QP!NoCallAfterSuccess /\ QP!CallsAreMarked /\ QP!BackoffIsHonoured
<1>1. QP!Spec => [](QP!FinalStatusIsTrue /\ QP!StrandedOnlyByFaults /\ QP!AtMostMaxAttempts)
  BY QueueAssumed, QP!FinalStatusesAreTrue, QP!StrandingIsPaidFor, QP!AttemptsAreBounded, PTL
<1>2. QP!Spec => QP!NoCallAfterSuccess
  BY QueueAssumed, QP!AcceptedIsNotCalled
<1>3. QP!Spec => QP!CallsAreMarked
  BY QueueAssumed, QP!CalledRowsAreMarked
<1>4. QP!Spec => QP!BackoffIsHonoured
  BY QueueAssumed, QP!BackoffsAreHonoured
<1>. QED  BY EngineIsQueue, <1>1, <1>2, <1>3, <1>4

\* The row is still to be tried, purged with its alert or long after it was
\* settled, accepted by a provider, refused as often as it may be, or left behind
\* by a failure.
HasFate(n) ==
  \/ noteStatus[n] \in {"pending", "gone"}
  \/ n = nCur \/ n \in stranded
  \/ n \in accepted
  \/ calls[n] = MaxAttempts

\* Every page of every step an escalation has passed became a row with one of
\* these fates, or its lookup or its INSERT failed.
PagesHaveFates ==
  \A a \in Alert : \A i \in DOMAIN Snapshot[a].steps : \A l \in 0..Snapshot[a].repeat :
    E!Ord(a, [loop |-> l, step |-> i - 1]) < E!Ord(a, pos[a]) =>
      \A g \in Snapshot[a].steps[i].pages :
        \/ \E n \in Notes :
             /\ n.alert = a /\ n.loop = l /\ n.step = i - 1 /\ n.page = g
             /\ HasFate(n)
        \/ \E n \in missed : n.alert = a /\ n.loop = l /\ n.step = i - 1 /\ n.page = g

\* From the escalation's rung to the provider's answer nothing is lost but by a
\* failure that was recorded.
THEOREM PagesAlwaysHaveFates == Spec => []PagesHaveFates
<1>1. Spec => EP!Spec
  BY EngineIsEscalation
<1>2. Spec => QP!Spec
  BY EngineIsQueue
<1>3. EP!Spec => []EP!NoSilentSkip
  BY EscalationAssumed, EP!NoStepIsSkipped, PTL
<1>4. QP!Spec => []QP!FinalStatusIsTrue /\ []QP!StrandedOnlyByFaults /\ []QP!TypeOK
  BY QueueAssumed, QP!FinalStatusesAreTrue, QP!StrandingIsPaidFor, QP!TypeCorrect, PTL
<1>5. ASSUME EP!NoSilentSkip, QP!FinalStatusIsTrue, QP!StrandedOnlyByFaults, QP!TypeOK
      PROVE  PagesHaveFates
  <2>1. ASSUME NEW n \in Notes, n \in Queued PROVE HasFate(n)
    <3>1. noteStatus[n] \in {"pending", "sending", "sent", "failed", "gone"}
      BY <1>5, <2>1 DEF QP!TypeOK, QP!Status, Queued
    <3>. QED  BY <1>5, <3>1 DEF HasFate, QP!FinalStatusIsTrue, QP!StrandedOnlyByFaults
  <2>2. ASSUME NEW a \in Alert, NEW i \in DOMAIN Snapshot[a].steps,
               NEW l \in 0..Snapshot[a].repeat,
               E!Ord(a, [loop |-> l, step |-> i - 1]) < E!Ord(a, pos[a]),
               NEW g \in Snapshot[a].steps[i].pages
        PROVE  \E n \in Queued \cup missed :
                 n.alert = a /\ n.loop = l /\ n.step = i - 1 /\ n.page = g
    <3>1. EP!Steps(a) = Snapshot[a].steps /\ EP!Repeat(a) = Snapshot[a].repeat
      BY DEF EP!Steps, EP!Repeat
    <3>2. \A p : EP!Ord(a, p) = E!Ord(a, p)
      BY <3>1 DEF EP!Ord, E!Ord, E!Steps
    <3>3. EP!AccountedFor(a, l, i - 1, g)
      <4>1. EP!Ord(a, [loop |-> l, step |-> i - 1]) < EP!Ord(a, pos[a])
        BY <2>2, <3>2
      <4>. QED  BY <1>5, <2>2, <3>1, <4>1 DEF EP!NoSilentSkip
    <3>. QED  BY <3>3 DEF EP!AccountedFor
  <2>3. \A n \in Queued : n \in Notes
    BY DEF Queued
  <2>. QED  BY <2>1, <2>2, <2>3 DEF PagesHaveFates
<1>. QED  BY <1>1, <1>2, <1>3, <1>4, <1>5, PTL

\* The runs of a step, but its first, that rows of S come from.
Repeats(S) == {<<n.alert, n.loop, n.step, n.run>> : n \in {m \in S : m.run > 1}}

\* Each run of a step that pages somebody again is paid for by a failure of its
\* own; without one no provider takes the same page twice.
DoublesArePaidFor ==
  /\ Cardinality(Repeats(accepted)) <= eFaults
  /\ \A m, n \in accepted :
       m.alert = n.alert /\ m.loop = n.loop /\ m.step = n.step /\ m.page = n.page =>
         m = n \/ eFaults > 0

\* Finitely many rows come from finitely many runs.
LEMMA RepeatsAreFinite ==
  ASSUME NEW S, IsFiniteSet({n \in S : n.run > 1}) PROVE IsFiniteSet(Repeats(S))
<1> DEFINE D == {n \in S : n.run > 1}
<1>1. PICK k \in Nat : ExistsSurjection(1..k, D)
  BY FS_NatSurjection
<1>2. PICK f \in Surjection(1..k, D) : TRUE
  BY <1>1 DEF ExistsSurjection
<1> DEFINE g == [i \in 1..k |-> <<f[i].alert, f[i].loop, f[i].step, f[i].run>>]
<1>3. g \in Surjection(1..k, Repeats(S))
  <2>1. f \in [1..k -> D] /\ \A n \in D : \E i \in 1..k : f[i] = n
    BY <1>2 DEF Surjection
  <2>2. g \in [1..k -> Repeats(S)]
    BY <2>1 DEF Repeats
  <2>3. ASSUME NEW x \in Repeats(S) PROVE \E i \in 1..k : g[i] = x
    <3>1. PICK n \in D : x = <<n.alert, n.loop, n.step, n.run>>
      BY DEF Repeats
    <3>. QED  BY <2>1, <3>1
  <2>. QED  BY <2>2, <2>3 DEF Surjection
<1>. QED  BY <1>3, FS_NatSurjection DEF ExistsSurjection

\* Whoever is called twice for one page of one step is so because the process
\* died or an UPDATE failed: neither the processors' interleaving with the API nor
\* the retries of the queue deliver a page again.
THEOREM DoublesAreAlwaysPaidFor == Spec => []DoublesArePaidFor
<1>1. Spec => []EP!RepeatsArePaidFor
  BY EscalationsKeepTheirPromises, PTL
<1>2. ASSUME EP!RepeatsArePaidFor, IInv PROVE DoublesArePaidFor
  <2>1. accepted \subseteq Queued
    <3>1. accepted \subseteq Notes /\ \A n \in Notes : QP!RowTrue(n)
      BY <1>2 DEF IInv, QP!IInv, QP!TypeOK
    <3>. QED  BY <3>1 DEF QP!RowTrue, Queued
  <2>2. /\ IsFiniteSet(Repeats(Queued)) /\ Repeats(accepted) \subseteq Repeats(Queued)
        /\ eFaults \in Nat
    <3>1. IsFiniteSet({n \in Queued : n.run > 1})
      <4>1. {n \in Queued : n.run > 1} \subseteq Notes
        BY DEF Queued
      <4>. QED  BY <4>1, QueueAssumption, FS_Subset
    <3>2. IsFiniteSet(Repeats(Queued))
      BY <3>1, RepeatsAreFinite
    <3>3. eFaults \in Nat
      BY <1>2 DEF IInv, EP!IInv, EP!TypeOK
    <3>. QED  BY <2>1, <3>2, <3>3 DEF Repeats
  <2>3. Cardinality(Repeats(Queued)) <= eFaults
    <3>1. \A S : EP!Cardinality(S) = Cardinality(S)
      BY DEF Cardinality, EP!Cardinality
    <3>. QED  BY <1>2, <3>1 DEF EP!RepeatsArePaidFor, Repeats
  <2>4. /\ Cardinality(Repeats(accepted)) <= Cardinality(Repeats(Queued))
        /\ IsFiniteSet(Repeats(accepted))
    BY <2>2, FS_Subset
  <2>5. Cardinality(Repeats(accepted)) \in Nat /\ Cardinality(Repeats(Queued)) \in Nat
    BY <2>2, <2>4, FS_CardinalityType
  <2>6. Cardinality(Repeats(accepted)) <= eFaults
    BY <2>2, <2>3, <2>4, <2>5
  <2>7. ASSUME NEW m \in accepted, NEW n \in accepted, m # n, m.alert = n.alert,
               m.loop = n.loop, m.step = n.step, m.page = n.page
        PROVE  eFaults > 0
    <3>1. m \in Notes /\ n \in Notes
      BY <2>1 DEF Queued
    <3>2. m.run \in 1..MaxFaults + 1 /\ n.run \in 1..MaxFaults + 1 /\ m.run # n.run
      BY <2>7, <3>1 DEF Notes, NotesOfStep
    <3>3. m.run > 1 \/ n.run > 1
      BY <3>2, EscalationAssumption
    <3>4. Repeats(accepted) # {}
      BY <3>3 DEF Repeats
    <3>. QED  BY <2>2, <2>4, <2>5, <2>6, <3>4, FS_EmptySet
  <2>. QED  BY <2>6, <2>7 DEF DoublesArePaidFor
<1>. QED  BY <1>1, <1>2, Invariance, PTL

-----------------------------------------------------------------------------
(* How long an escalation waits for the providers.                         *)

\* Rows of the drain whose provider is still to be called.
Uncalled == IF nCur # NULL /\ phase # "send" THEN DOMAIN nBatch \ {nCur} ELSE DOMAIN nBatch

\* Provider calls that may come before the next look for due alerts.
Outstanding ==
  CASE turn = "escalation"   -> BatchLimit
    [] turn = "notification" -> Cardinality(Uncalled)
    [] OTHER                 -> 0

DelayInv ==
  /\ delayed \in [Alert -> Nat] /\ faults \in Nat
  /\ \A a \in Alert : delayed[a] + Outstanding <= BatchLimit * (1 + faults)

\* Drains are of rows of a finite table.
LEMMA RowsAreFinite ==
  ASSUME NEW S \in SUBSET Notes PROVE IsFiniteSet(S) /\ Cardinality(S) \in Nat
BY QueueAssumption, FS_Subset, FS_CardinalityType

\* One failure more allows one drain more.
LEMMA OneMoreDrain ==
  ASSUME NEW k \in Nat
  PROVE  /\ BatchLimit * (1 + (k + 1)) = BatchLimit * (1 + k) + BatchLimit
         /\ BatchLimit * (1 + k) \in Nat /\ BatchLimit <= BatchLimit * (1 + k)
<1>1. BatchLimit \in Nat
  BY QueueAssumption
<1>2. BatchLimit * (1 + k) = BatchLimit + BatchLimit * k /\ BatchLimit * k \in Nat
  BY <1>1
<1>3. BatchLimit * (1 + (k + 1)) = BatchLimit + (BatchLimit + BatchLimit * k)
  BY <1>1
<1>. QED  BY <1>1, <1>2, <1>3

\* Steps that call no provider and begin no drain.
LEMMA NoMoreCalls ==
  ASSUME IInv, IInv', DelayInv, UNCHANGED <<delayed, faults>>,
         \/ turn' \notin {"escalation", "notification"}
         \/ turn' = turn /\ (turn = "notification" => Uncalled' \subseteq Uncalled)
  PROVE  DelayInv'
<1>1. /\ Uncalled \in SUBSET Notes /\ Cardinality(Uncalled) \in Nat
      /\ Cardinality(Uncalled') \in Nat
  <2>1. Uncalled \in SUBSET Notes /\ Uncalled' \in SUBSET Notes
    BY DEF Uncalled, IInv, QP!IInv, QP!TypeOK
  <2>. QED  BY <2>1, RowsAreFinite
<1>2. BatchLimit \in Nat
  BY QueueAssumption
<1>3. Outstanding \in Nat /\ Outstanding' \in Nat
  BY <1>1, <1>2 DEF Outstanding
<1>4. Outstanding' <= Outstanding
  <2>1. CASE turn' \notin {"escalation", "notification"}
    BY <1>3, <2>1 DEF Outstanding
  <2>2. CASE turn' = turn /\ turn = "notification" /\ Uncalled' \subseteq Uncalled
    <3>1. Cardinality(Uncalled') <= Cardinality(Uncalled)
      BY <1>1, <2>2, RowsAreFinite, FS_Subset
    <3>. QED  BY <2>2, <3>1 DEF Outstanding
  <2>3. CASE turn' = turn /\ turn # "notification"
    BY <1>3, <2>3 DEF Outstanding
  <2>. QED  BY <2>1, <2>2, <2>3
<1>. QED  BY <1>3, <1>4, OneMoreDrain DEF DelayInv

\* A tick begins a new count, and owes one drain.
LEMMA EscalateDelay == ASSUME IInv, DelayInv, Escalate PROVE DelayInv'
<1>1. delayed' = [a \in Alert |-> 0] /\ faults' = faults /\ turn' = "escalation"
  BY DEF Escalate
<1>2. Outstanding' = BatchLimit
  BY <1>1 DEF Outstanding
<1>. QED  BY <1>1, <1>2, OneMoreDrain, QueueAssumption DEF DelayInv

\* The drain has as many rows as were owed at most.
LEMMA NotifyDelay == ASSUME IInv, IInv', DelayInv, Notify PROVE DelayInv'
<1>1. /\ turn = "escalation" /\ turn' = "notification" /\ UNCHANGED <<delayed, faults>>
      /\ IF Q!Pending = {} THEN UNCHANGED <<up, nOnly>> ELSE Q!StartTick
  BY DEF Notify
<1>2. nBatch = <<>> /\ nCur = NULL
  BY <1>1 DEF IInv, TurnInv
<1>3. Cardinality(Uncalled') \in Nat /\ Cardinality(Uncalled') <= BatchLimit
  <2>1. CASE Q!Pending = {}
    <3>1. Uncalled' = {}
      BY <1>1, <1>2, <2>1, QP!EmptyBatch DEF Uncalled, nOnly
    <3>. QED  BY <3>1, FS_EmptySet, QueueAssumption
  <2>2. CASE Q!StartTick
    <3>1. PICK found \in SUBSET Q!Pending :
            Q!FindPending(found) /\ nBatch' = [n \in found |-> attempts[n]]
      BY <2>2 DEF Q!StartTick
    <3>2. nCur' = nCur
      BY <2>2 DEF Q!StartTick
    <3>3. Uncalled' = found
      BY <1>2, <3>1, <3>2 DEF Uncalled
    <3>4. found \in SUBSET Notes
      BY DEF Q!Pending
    <3>5. Cardinality(found) <= BatchLimit
      <4>1. Q!Cardinality(found) = Cardinality(found)
        BY DEF Q!Cardinality, Cardinality
      <4>2. Q!Cardinality(Q!Pending) = Cardinality(Q!Pending)
        BY DEF Q!Cardinality, Cardinality
      <4>3. Cardinality(found) = BatchLimit \/ Cardinality(found) <= BatchLimit
        BY <3>1, <4>1, <4>2 DEF Q!FindPending
      <4>. QED  BY <4>3, QueueAssumption
    <3>. QED  BY <3>3, <3>4, <3>5, RowsAreFinite
  <2>. QED  BY <1>1, <2>1, <2>2
<1>4. Outstanding = BatchLimit /\ Outstanding' = Cardinality(Uncalled')
  BY <1>1 DEF Outstanding
<1>. QED  BY <1>1, <1>3, <1>4, OneMoreDrain, QueueAssumption DEF DelayInv

\* A call is one of those that were outstanding.
LEMMA DispatchDelay ==
  ASSUME IInv, DelayInv, NEW result \in {"ok", "error"}, Dispatch(result) PROVE DelayInv'
<1>1. /\ nCur # NULL /\ phase = "send" /\ phase' = result /\ nCur' = nCur /\ nBatch' = nBatch
      /\ delayed' = [a \in Alert |-> IF a \in E!FindPendingEscalations
                                       THEN delayed[a] + 1 ELSE delayed[a]]
      /\ UNCHANGED <<turn, faults>>
  BY DEF Dispatch, Q!Dispatch
<1>2. turn = "notification" /\ nCur \in DOMAIN nBatch /\ Uncalled \in SUBSET Notes
  BY <1>1 DEF IInv, TurnInv, QP!IInv, QP!InHand, QP!TypeOK, Uncalled
<1>3. Uncalled = DOMAIN nBatch /\ Uncalled' = DOMAIN nBatch \ {nCur}
  BY <1>1 DEF Uncalled
<1>4. /\ Cardinality(Uncalled') = Cardinality(Uncalled) - 1
      /\ Cardinality(Uncalled) \in Nat
  BY <1>2, <1>3, RowsAreFinite, FS_RemoveElement
<1>5. Outstanding = Cardinality(Uncalled) /\ Outstanding' = Cardinality(Uncalled) - 1
  BY <1>1, <1>2, <1>4 DEF Outstanding
<1>6. /\ delayed' \in [Alert -> Nat]
      /\ \A a \in Alert : delayed[a] \in Nat /\ delayed'[a] \in Nat /\ delayed'[a] <= delayed[a] + 1
  BY <1>1 DEF DelayInv
<1>. QED  BY <1>1, <1>4, <1>5, <1>6, OneMoreDrain DEF DelayInv

\* A look for due alerts that fails costs one drain more.
LEMMA ReadFailsDelay == ASSUME IInv, DelayInv, ReadFails PROVE DelayInv'
<1>1. /\ faults' = faults + 1 /\ delayed' = delayed
      /\ \/ turn = "wait" /\ turn' = "escalation"
         \/ turn = "escalation" /\ turn' = "notification"
      /\ UNCHANGED nOnly
  BY DEF ReadFails
<1>2. CASE turn = "wait" /\ turn' = "escalation"
  <2>1. Outstanding = 0 /\ Outstanding' = BatchLimit
    BY <1>2 DEF Outstanding
  <2>. QED  BY <1>1, <2>1, OneMoreDrain, QueueAssumption DEF DelayInv
<1>3. CASE turn = "escalation" /\ turn' = "notification"
  <2>1. Uncalled' = {}
    BY <1>1, <1>3, QP!EmptyBatch DEF Uncalled, nOnly, IInv, TurnInv
  <2>2. Outstanding = BatchLimit /\ Outstanding' = 0
    BY <1>3, <2>1, FS_EmptySet DEF Outstanding
  <2>. QED  BY <1>1, <2>2, OneMoreDrain, QueueAssumption DEF DelayInv
<1>. QED  BY <1>1, <1>2, <1>3

\* The marks of a drain take rows out of it and put none in.
LEMMA NotificationStepDelay ==
  ASSUME IInv, IInv', DelayInv, NotificationStep PROVE DelayInv'
<1>1. UNCHANGED <<turn, delayed, faults>>
  BY DEF NotificationStep, engine
<1>2. \A n \in Notes : DOMAIN Q!Restrict(nBatch, DOMAIN nBatch \ {n}) = DOMAIN nBatch \ {n}
  BY DEF Q!Restrict
<1>3. Uncalled' \subseteq Uncalled
  <2>1. ASSUME NEW n \in Notes, Q!MarkSending(n) PROVE Uncalled' \subseteq Uncalled
    BY <2>1 DEF Q!MarkSending, Q!TakeNext, Uncalled
  <2>2. ASSUME NEW n \in Notes, Q!MarkSendingFails(n) PROVE Uncalled' \subseteq Uncalled
    BY <1>2, <2>2 DEF Q!MarkSendingFails, Q!TakeNext, Q!Release, Uncalled
  <2>3. CASE Q!MarkSent \/ Q!MarkFailed \/ Q!Retry \/ Q!MarkFails
    <3>1. Q!Release(nCur) /\ phase \in {"ok", "error"}
      BY <2>3 DEF Q!MarkSent, Q!MarkFailed, Q!Retry, Q!MarkFails
    <3>2. nCur # NULL /\ nCur \in Notes
      BY <3>1 DEF IInv, QP!IInv, QP!InHand, QP!TypeOK
    <3>. QED  BY <1>2, <3>1, <3>2 DEF Q!Release, Uncalled
  <2>. QED  BY <2>1, <2>2, <2>3 DEF NotificationStep
<1>. QED  BY <1>1, <1>3, NoMoreCalls

\* No step makes an escalation wait longer.
LEMMA NextDelay == IInv /\ IInv' /\ DelayInv /\ [Next]_vars => DelayInv'
<1> SUFFICES ASSUME IInv, IInv', DelayInv, [Next]_vars PROVE DelayInv'
  OBVIOUS
<1>1. ASSUME UNCHANGED <<turn, delayed, faults, nBatch, nCur, phase>> PROVE DelayInv'
  <2>1. Uncalled' = Uncalled
    BY <1>1 DEF Uncalled
  <2>. QED  BY <1>1, <2>1, NoMoreCalls
<1>2. CASE Api
  BY <1>1, <1>2 DEF Api, nOnly, engine
<1>3. CASE EngineStep
  <2>1. ASSUME NEW g \in Page, Enqueue(g) PROVE DelayInv'
    BY <1>1, <2>1 DEF Enqueue, Q!Insert, Q!engine, engine
  <2>2. CASE EscalationStep
    BY <1>1, <2>2 DEF EscalationStep, nOnly, engine
  <2>3. CASE SkipCleanup
    BY <2>3, NoMoreCalls DEF SkipCleanup
  <2>4. CASE PurgeResolvedAlerts
    BY <2>4, NoMoreCalls DEF PurgeResolvedAlerts
  <2>5. CASE PurgeFails
    <3>1. turn = "notification" /\ turn' = "cleanup" /\ delayed' = delayed /\ faults' = faults + 1
      BY <2>5 DEF PurgeFails
    <3>2. Outstanding \in Nat /\ Outstanding' = 0
      <4>1. Uncalled \in SUBSET Notes
        BY DEF Uncalled, IInv, QP!IInv, QP!TypeOK
      <4>. QED  BY <3>1, <4>1, RowsAreFinite DEF Outstanding
    <3>. QED  BY <3>1, <3>2, OneMoreDrain, QueueAssumption DEF DelayInv
  <2>6. CASE PurgeOldNotifications
    BY <2>6, NoMoreCalls DEF PurgeOldNotifications
  <2>. QED  BY <1>3, <2>1, <2>2, <2>3, <2>4, <2>5, <2>6, EscalateDelay, NotifyDelay, DispatchDelay,
               ReadFailsDelay, NotificationStepDelay
            DEF EngineStep
<1>4. CASE Crash
  BY <1>4, NoMoreCalls DEF Crash
<1>5. CASE Restart
  BY <1>1, <1>5 DEF Restart, Q!Restart, engine
<1>6. CASE Elapse
  BY <1>1, <1>6 DEF Elapse, Q!Advance, Q!engine, engine
<1>7. CASE Age
  BY <1>1, <1>7 DEF Age, GrowOld, nOnly
<1>8. CASE UNCHANGED vars
  BY <1>1, <1>8 DEF vars, nOnly, engine
<1>. QED  BY <1>2, <1>3, <1>4, <1>5, <1>6, <1>7, <1>8 DEF Next

\* Engine.tick: however slow the providers are, an escalation that is due waits
\* for one drain, and for one more each time the look for it failed.
THEOREM DelayIsBounded == Spec => []DelayIsOneDrain
<1>1. Init => DelayInv
  <2> SUFFICES ASSUME Init PROVE DelayInv
    OBVIOUS
  <2>1. Outstanding = 0 /\ faults = 0 /\ delayed = [a \in Alert |-> 0]
    BY DEF Init, Outstanding
  <2>. QED  BY <2>1, OneMoreDrain DEF DelayInv
<1>2. IInv /\ DelayInv => DelayIsOneDrain
  <2> SUFFICES ASSUME IInv, DelayInv PROVE DelayIsOneDrain
    OBVIOUS
  <2>1. Uncalled \in SUBSET Notes
    BY DEF Uncalled, IInv, QP!IInv, QP!TypeOK
  <2>2. Outstanding \in Nat
    BY <2>1, RowsAreFinite, QueueAssumption DEF Outstanding
  <2>. QED  BY <2>2, OneMoreDrain DEF DelayInv, DelayIsOneDrain
<1>. QED  BY <1>1, <1>2, Invariance, NextDelay, PTL DEF Spec
=============================================================================
