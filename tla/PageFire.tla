------------------------------- MODULE PageFire -------------------------------
(***************************************************************************)
(* The engine (internal/engine/engine.go): the escalation, the             *)
(* notification and the cleanup processor (internal/engine/cleanup.go),    *)
(* one after the other on one goroutine, over one database that the API    *)
(* writes at any moment.                                                   *)
(*                                                                         *)
(* Escalation and NotificationQueue describe one processor each and assume *)
(* of the other what suits them: that a page put into the queue stays      *)
(* there, that rows are inserted and purged between two drains only.  Here *)
(* both work on the same rows, turn says whose Tick runs, and the          *)
(* assumptions become a property: every step of the engine is a step of    *)
(* both modules.                                                           *)
(***************************************************************************)
EXTENDS Naturals, Sequences, FiniteSets

CONSTANTS
  Alert, Page, Snapshot, NULL, MaxDelay,                  \* as in Escalation
  MaxAttempts, Backoff, RuleDelay, BatchLimit, MaxWait,   \* as in NotificationQueue
  MaxFaults,     \* bound: failures in one behaviour, whoever meets them
  CleanupTicks   \* ticks between two cleanups, 720 in the code

ASSUME CleanupAssumption == CleanupTicks \in Nat \ {0}

VARIABLES
  up,
  alertStatus, pos, next,                    \* the alerts table
  noteStatus, attempts, wait, created,       \* the notification_queue table
  eBatch, eCur, todo,                        \* the escalation processor
  nBatch, nCur, phase,                       \* the notification processor
  tickCount,     \* CleanupProcessor.tickCount
  turn,          \* whose Tick runs
  old,           \* alerts that were resolved 90 days ago
  \* history, for the properties only
  run, missed, eSince, closedAt, eFaults,    \* as in Escalation
  calls, accepted, stranded, nSince, nFaults, \* as in NotificationQueue
  delayed,       \* provider calls made while an alert was due, since it was looked for
  faults         \* failed reads and purges

alerts   == <<alertStatus, pos, next>>
notes    == <<noteStatus, attempts, wait, created>>
eHistory == <<run, missed, eSince, closedAt, eFaults>>
nHistory == <<calls, accepted, stranded, nSince, nFaults>>
eOnly    == <<alerts, eBatch, eCur, todo, eHistory>>
nOnly    == <<notes, nBatch, nCur, phase, nHistory>>
engine   == <<tickCount, turn, old, delayed, faults>>
vars     == <<up, eOnly, nOnly, engine>>

\* A row of notification_queue is a page of one run of one step of one alert.
NotesOfStep(a, i) ==
  [alert : {a}, loop : 0..Snapshot[a].repeat, step : {i - 1},
   page : Snapshot[a].steps[i].pages, run : 1..MaxFaults + 1]

Notes == UNION {UNION {NotesOfStep(a, i) : i \in DOMAIN Snapshot[a].steps} : a \in Alert}

Queued == {n \in Notes : noteStatus[n] # "absent"}

E == INSTANCE Escalation WITH
       status <- alertStatus, queue <- Queued, batch <- eBatch, cur <- eCur,
       since <- eSince, faults <- eFaults

Q == INSTANCE NotificationQueue WITH
       Note <- Notes, status <- noteStatus, batch <- nBatch, cur <- nCur,
       since <- nSince, faults <- nFaults

\* What the two modules assume of the constants.
ASSUME EscalationAssumption ==
  /\ Snapshot \in [Alert -> E!Policy]
  /\ NULL \notin Nat /\ NULL \notin Alert
  /\ MaxDelay \in Nat /\ MaxFaults \in Nat
  /\ \A a \in Alert : \A i \in DOMAIN Snapshot[a].steps :
       Snapshot[a].steps[i].delay <= MaxDelay

ASSUME QueueAssumption ==
  /\ IsFiniteSet(Notes) /\ NULL \notin Notes
  /\ MaxAttempts \in Nat \ {0} /\ BatchLimit \in Nat \ {0} /\ MaxWait \in Nat
  /\ Backoff \in Seq(0..MaxWait) /\ Backoff # <<>>
  /\ RuleDelay \subseteq 0..MaxWait /\ RuleDelay # {}

NotesOf(gone) == {n \in Notes : n.alert \in gone /\ Q!InTable(n)}

\* The bound on failures.
MayFail == eFaults + nFaults + faults < MaxFaults

-----------------------------------------------------------------------------
(* The API, at any moment.                                                 *)

\* Nothing refers to alerts in notification_queue: its rows outlive the alerts of
\* a deleted service.
Api ==
  /\ UNCHANGED <<nOnly, engine>>
  /\ E!Api

\* resolved_at falls behind the cutoff of 90 days.
GrowOld(a) ==
  /\ alertStatus[a] = "resolved" /\ a \notin old
  /\ old' = old \cup {a}
  /\ UNCHANGED <<up, eOnly, nOnly, tickCount, turn, delayed, faults>>

-----------------------------------------------------------------------------
(* Engine.tick: one processor after the other.                             *)

\* Mutation: the escalation processor has a goroutine of its own.
Escalate_OwnGoroutine ==
  /\ up
  /\ turn' = IF turn = "wait" THEN "escalation" ELSE turn
  /\ UNCHANGED nOnly
  /\ IF E!FindPendingEscalations = {} THEN UNCHANGED <<up, eOnly>> ELSE E!StartTick
  /\ delayed' = [a \in Alert |-> 0]
  /\ UNCHANGED <<tickCount, old, faults>>

\* The tick starts with the escalation processor's Tick, which reads what is due.
Escalate ==
  /\ up /\ turn = "wait"
  /\ turn' = "escalation"
  /\ UNCHANGED nOnly
  /\ IF E!FindPendingEscalations = {} THEN UNCHANGED <<up, eOnly>> ELSE E!StartTick
  /\ delayed' = [a \in Alert |-> 0]
  /\ UNCHANGED <<tickCount, old, faults>>

\* The pages of a step are rows of the queue.
Enqueue(g) ==
  /\ eCur # NULL /\ g \in todo
  /\ Q!Insert(E!CurEntry(g))
  /\ E!Enqueue(g)
  /\ UNCHANGED engine

EscalationStep ==
  /\ UNCHANGED <<nOnly, engine>>
  /\ \/ \E a \in Alert : E!SkipEmpty(a) \/ E!BeginStep(a) \/ E!FinishExhausted(a) \/ E!UpdateFails(a)
     \/ \E g \in Page : E!EnqueueFails(g)
     \/ E!AdvanceStep
  /\ eFaults' # eFaults => MayFail

\* Mutation: the queue is drained until nothing is due any more.
Notify_UntilEmpty ==
  /\ turn \in {"escalation", "notification"} /\ E!Idle /\ Q!Idle
  /\ turn = "notification" => Q!Pending # {}
  /\ turn' = "notification"
  /\ IF Q!Pending = {} THEN UNCHANGED <<up, nOnly>> ELSE Q!StartTick
  /\ UNCHANGED <<eOnly, tickCount, old, delayed, faults>>

\* When it is done the notification processor reads the rows that are due.
Notify ==
  /\ turn = "escalation" /\ E!Idle
  /\ turn' = "notification"
  /\ IF Q!Pending = {} THEN UNCHANGED <<up, nOnly>> ELSE Q!StartTick
  /\ UNCHANGED <<eOnly, tickCount, old, delayed, faults>>

\* Whoever is due while a provider is called waits for the end of the drain.
Dispatch(result) ==
  /\ Q!Dispatch(result)
  /\ delayed' = [a \in Alert |->
                   IF a \in E!FindPendingEscalations THEN delayed[a] + 1 ELSE delayed[a]]
  /\ UNCHANGED <<eOnly, tickCount, turn, old, faults>>

NotificationStep ==
  /\ \/ \E n \in Notes : Q!MarkSending(n) \/ Q!MarkSendingFails(n)
     \/ Q!MarkSent \/ Q!MarkFailed \/ Q!Retry \/ Q!MarkFails
  /\ nFaults' # nFaults => MayFail
  /\ UNCHANGED <<eOnly, engine>>

\* A processor's first query fails: the engine logs it and runs the next one.
ReadFails ==
  /\ MayFail
  /\ faults' = faults + 1
  /\ up
  /\ \/ (turn = "wait" /\ turn' = "escalation")
     \/ (turn = "escalation" /\ E!Idle /\ turn' = "notification")
  /\ UNCHANGED <<up, eOnly, nOnly, tickCount, old, delayed>>

\* CleanupProcessor.Tick, on most ticks.
SkipCleanup ==
  /\ turn = "notification" /\ Q!Idle
  /\ tickCount + 1 < CleanupTicks
  /\ tickCount' = tickCount + 1
  /\ turn' = "wait"
  /\ UNCHANGED <<up, eOnly, nOnly, old, delayed, faults>>

LongResolved == {a \in old : alertStatus[a] = "resolved"}

\* Mutation: alerts with unsettled notifications are kept.
PurgeResolvedAlerts_SettledOnly ==
  /\ turn = "notification" /\ Q!Idle
  /\ tickCount + 1 >= CleanupTicks
  /\ tickCount' = 0
  /\ turn' = "cleanup"
  /\ LET gone == {a \in LongResolved :
                    \A n \in NotesOf({a}) : noteStatus[n] \in {"sent", "failed"}} IN
       /\ IF NotesOf(gone) = {} THEN UNCHANGED nOnly ELSE Q!Remove(NotesOf(gone))
       /\ IF gone = {} THEN UNCHANGED <<up, eOnly>> ELSE E!DeleteService(gone)
  /\ UNCHANGED <<old, delayed, faults>>

\* One transaction: the alerts and all their rows, whatever their status.
PurgeResolvedAlerts ==
  /\ turn = "notification" /\ Q!Idle
  /\ tickCount + 1 >= CleanupTicks
  /\ tickCount' = 0
  /\ turn' = "cleanup"
  /\ IF NotesOf(LongResolved) = {} THEN UNCHANGED nOnly ELSE Q!Remove(NotesOf(LongResolved))
  /\ IF LongResolved = {} THEN UNCHANGED <<up, eOnly>> ELSE E!DeleteService(LongResolved)
  /\ UNCHANGED <<old, delayed, faults>>

\* The error is logged; the alerts wait for the next cleanup.
PurgeFails ==
  /\ MayFail
  /\ faults' = faults + 1
  /\ turn = "notification" /\ Q!Idle
  /\ tickCount + 1 >= CleanupTicks
  /\ tickCount' = 0
  /\ turn' = "cleanup"
  /\ UNCHANGED <<up, eOnly, nOnly, old, delayed>>

\* Settled rows that are old enough; none of them if the statement fails.  The
\* purge of overrides that follows is none of either processor's business.
PurgeOldNotifications ==
  /\ turn = "cleanup"
  /\ turn' = "wait"
  /\ \/ UNCHANGED nOnly
     \/ \E gone \in SUBSET {n \in Notes : noteStatus[n] \in {"sent", "failed"}} : Q!Remove(gone)
  /\ UNCHANGED <<up, eOnly, tickCount, old, delayed, faults>>

-----------------------------------------------------------------------------
(* The process and the clock.                                              *)

\* What the engine counts and where it is go with the process.
Crash ==
  /\ MayFail
  /\ Q!Crash
  /\ E!Crash
  /\ tickCount' = 0
  /\ turn' = "wait"
  /\ UNCHANGED <<old, delayed, faults>>

Restart ==
  /\ Q!Restart
  /\ E!Restart
  /\ UNCHANGED engine

Elapse ==
  /\ E!Waiting \/ Q!Waiting
  /\ Q!Advance
  /\ E!Advance
  /\ UNCHANGED engine

-----------------------------------------------------------------------------

Init ==
  /\ up = TRUE
  /\ alertStatus = [a \in Alert |-> "absent"]
  /\ pos = [a \in Alert |-> E!Start]
  /\ next = [a \in Alert |-> NULL]
  /\ eBatch = <<>> /\ eCur = NULL /\ todo = {}
  /\ run = [a \in Alert |-> 0] /\ missed = {}
  /\ eSince = [a \in Alert |-> 0] /\ closedAt = [a \in Alert |-> E!Start] /\ eFaults = 0
  /\ noteStatus = [n \in Notes |-> "absent"]
  /\ attempts = [n \in Notes |-> 0] /\ wait = [n \in Notes |-> 0]
  /\ created = [n \in Notes |-> 0]
  /\ nBatch = <<>> /\ nCur = NULL /\ phase = "none"
  /\ calls = [n \in Notes |-> 0] /\ accepted = {} /\ stranded = {}
  /\ nSince = [n \in Notes |-> 0] /\ nFaults = 0
  /\ tickCount = 0 /\ turn = "wait" /\ old = {}
  /\ delayed = [a \in Alert |-> 0] /\ faults = 0

EngineStep ==
  \/ Escalate \/ (\E g \in Page : Enqueue(g)) \/ EscalationStep
  \/ Notify \/ (\E result \in {"ok", "error"} : Dispatch(result)) \/ NotificationStep
  \/ ReadFails
  \/ SkipCleanup \/ PurgeResolvedAlerts \/ PurgeFails \/ PurgeOldNotifications

Age == \E a \in Alert : GrowOld(a)

Next == Api \/ EngineStep \/ Crash \/ Restart \/ Elapse \/ Age

Spec == Init /\ [][Next]_vars

\* The ticker fires while the process runs, a statement or a provider call comes
\* back, a process that went down is started again, and time passes.
FairSpec ==
  /\ Spec
  /\ WF_vars(EngineStep) /\ WF_vars(Restart) /\ WF_vars(Elapse) /\ WF_vars(Age)

-----------------------------------------------------------------------------
(* Properties.                                                             *)

\* Each processor's module may assume what it does of the other one: on every
\* behaviour of the engine, what happens to the rows and the memory of one
\* processor is a behaviour of its module, the other processor, the cleanup and
\* the API included.
ImplementsComponents == E!Spec /\ Q!Spec

\* An escalation waits for one drain and no longer: no more provider calls are
\* made while an alert is due than the drain has rows, unless the query that
\* looks for due alerts failed.
DelayIsOneDrain == \A a \in Alert : delayed[a] <= BatchLimit * (1 + faults)

\* A page is out of the escalation's hands when a provider was called for it, or
\* a fault took it away and was recorded.
IsOut(a, g) ==
  \/ \E n \in Notes : n.alert = a /\ n.step = 0 /\ n.page = g /\ (calls[n] > 0 \/ n \in stranded)
  \/ \E n \in missed : n.alert = a /\ n.step = 0 /\ n.page = g

\* An alert that escalates reaches somebody: unless it is closed, a provider is
\* called for every page of its first step, whatever else the engine has to do.
FirstStepIsCalled ==
  \A a \in Alert : \A g \in Page :
    /\ alertStatus[a] = "triggered" /\ next[a] # NULL
    /\ Snapshot[a].steps # <<>> /\ g \in Snapshot[a].steps[1].pages
    ~> alertStatus[a] # "triggered" \/ IsOut(a, g)

\* A resolved alert is purged some day, its rows that nobody ever settles with
\* it, though a restart forgets how many ticks the cleanup has waited.
OldAlertsGo ==
  \A a \in Alert :
    alertStatus[a] = "resolved" ~>
      alertStatus[a] = "gone"
=============================================================================
