-------------------------- MODULE NotificationQueue --------------------------
(***************************************************************************)
(* The notification_queue table and the NotificationProcessor that drains  *)
(* it (internal/engine/notification.go), with the purges that the cleanup  *)
(* processor runs on the same goroutine between two drains.                *)
(*                                                                         *)
(* A notification goes through three statements and one provider call:     *)
(* MarkSending, Dispatch, then MarkSent, MarkFailed or IncrementAttempts.  *)
(* Each is an action, and the process may end between any two of them.     *)
(* As in Escalation, wait[n] is the time left until next_attempt_at.       *)
(***************************************************************************)
EXTENDS Naturals, Sequences, FiniteSets, Functions

CONSTANTS
  Note,         \* ids of the notifications that may be enqueued
  MaxAttempts,  \* max_attempts, 3 unless the row says otherwise
  Backoff,      \* the backoff after the first, second, ... failed attempt
  RuleDelay,    \* delays of notification rules (delay_minutes)
  BatchLimit,   \* LIMIT of FindPending
  NULL,         \* no notification
  MaxWait,      \* bound: no wait is longer; elapsed time is counted up to it
  MaxFaults     \* bound: failed database calls and crashes in one behaviour

ASSUME LimitAssumption == MaxAttempts \in Nat \ {0} /\ BatchLimit \in Nat \ {0}
ASSUME BackoffAssumption ==
  /\ Backoff \in Seq(0..MaxWait)
  /\ Backoff # <<>>
  /\ RuleDelay \subseteq 0..MaxWait
  /\ RuleDelay # {}
ASSUME NoteAssumption  == IsFiniteSet(Note) /\ NULL \notin Note
ASSUME BoundAssumption == MaxWait \in Nat /\ MaxFaults \in Nat

VARIABLES
  status,    \* notification_queue.status; "absent" before Enqueue, "gone" after a purge
  attempts,  \* notification_queue.attempts
  wait,      \* notification_queue.next_attempt_at, as the time left
  created,   \* notification_queue.created_at, as a rank; equal seconds share one
  up,        \* the server process runs
  batch,     \* rows of this drain still to be worked on, with the attempts read
  cur,       \* the notification in hand, or NULL
  phase,     \* "send": marked as sending; "ok" or "error": what Dispatch returned
  \* history, for the properties only
  calls,     \* provider calls made for a notification
  accepted,  \* notifications for which a provider call returned success
  stranded,  \* notifications in hand when a crash or a failed mark let go of them
  since,     \* time since the last provider call, counted up to MaxWait
  faults     \* failed database calls and crashes so far

queue   == <<status, attempts, wait, created>>
engine  == <<up, batch, cur, phase>>
history == <<calls, accepted, stranded, since, faults>>
vars    == <<queue, engine, history>>

Status == {"absent", "pending", "sending", "sent", "failed", "gone"}
Phase  == {"none", "send", "ok", "error"}
Rank   == 0..Cardinality(Note)

InTable(n) == status[n] \notin {"absent", "gone"}

\* The ranks a new row may get: the highest one in the table, or one above it.
NewestRanks ==
  LET ranks == {created[n] : n \in {m \in Note : status[m] # "absent"}} \cup {0} IN
  {r \in Rank : \A s \in ranks : s <= r /\ \E t \in ranks : r <= t + 1}

-----------------------------------------------------------------------------
(* Statements of the notification store.  Each asks for the id only.       *)

\* The new row is due after the rule's delay.
Insert(n) ==
  /\ status[n] = "absent"
  /\ status' = [status EXCEPT ![n] = "pending"]
  /\ \E d \in RuleDelay : wait' = [wait EXCEPT ![n] = d]
  /\ \E r \in NewestRanks : created' = [created EXCEPT ![n] = r]
  /\ UNCHANGED <<attempts, engine, history>>

Idle == up /\ cur = NULL /\ batch = <<>>

\* EscalationProcessor enqueues, on the same goroutine before the drain.
Enqueue(n) == Idle /\ Insert(n)

\* Mutation: rows left in sending are picked up again.
Pending_OrSending == {n \in Note : status[n] \in {"pending", "sending"} /\ wait[n] = 0}

\* Mutation: next_attempt_at is not looked at.
Pending_AnyTime == {n \in Note : status[n] = "pending"}

Pending == {n \in Note : status[n] = "pending" /\ wait[n] = 0}

\* ORDER BY created_at LIMIT: the oldest due rows, in any order among equals.
FindPending(found) ==
  /\ found \subseteq Pending
  /\ \/ found = Pending /\ Cardinality(Pending) <= BatchLimit
     \/ Cardinality(found) = BatchLimit
  /\ \A n \in found : \A m \in Pending \ found : created[n] <= created[m]

SetStatus(n, s) == status' = IF InTable(n) THEN [status EXCEPT ![n] = s] ELSE status

\* Mutation: the row stays in sending.
IncrementAttempts_LeavesSending(n, delay) ==
  /\ UNCHANGED status
  /\ attempts' = IF InTable(n) THEN [attempts EXCEPT ![n] = @ + 1] ELSE attempts
  /\ wait' = IF InTable(n) THEN [wait EXCEPT ![n] = delay] ELSE wait

IncrementAttempts(n, delay) ==
  /\ SetStatus(n, "pending")
  /\ attempts' = IF InTable(n) THEN [attempts EXCEPT ![n] = @ + 1] ELSE attempts
  /\ wait' = IF InTable(n) THEN [wait EXCEPT ![n] = delay] ELSE wait

BackoffAfter(k) == IF k < Len(Backoff) THEN Backoff[k + 1] ELSE Backoff[1]

-----------------------------------------------------------------------------
(* NotificationProcessor.Tick.                                             *)

StartTick ==
  /\ Idle
  /\ Pending # {}
  /\ \E found \in SUBSET Pending :
       /\ FindPending(found)
       /\ batch' = [n \in found |-> attempts[n]]
  /\ UNCHANGED <<queue, up, cur, phase, history>>

TakeNext(n) ==
  /\ up
  /\ cur = NULL
  /\ n \in DOMAIN batch
  /\ \A m \in DOMAIN batch : created[n] <= created[m]

MarkSending(n) ==
  /\ TakeNext(n)
  /\ SetStatus(n, "sending")
  /\ cur' = n
  /\ phase' = "send"
  /\ UNCHANGED <<attempts, wait, created, up, batch, history>>

\* The provider is called, for at most 15 seconds.  An error may also be the
\* timeout of a call that reached its recipient.
Dispatch(result) ==
  /\ cur # NULL
  /\ phase = "send"
  /\ phase' = result
  /\ calls' = [calls EXCEPT ![cur] = @ + 1]
  /\ since' = [since EXCEPT ![cur] = 0]
  /\ accepted' = IF result = "ok" THEN accepted \cup {cur} ELSE accepted
  /\ UNCHANGED <<queue, up, batch, cur, stranded, faults>>

Release(n) ==
  /\ batch' = Restrict(batch, DOMAIN batch \ {n})
  /\ cur' = NULL
  /\ phase' = "none"

MarkSent ==
  /\ phase = "ok"
  /\ SetStatus(cur, "sent")
  /\ Release(cur)
  /\ UNCHANGED <<attempts, wait, created, up, history>>

\* n.Attempts is the value read at the start of the drain.
LastAttempt == batch[cur] + 1 >= MaxAttempts

\* Mutation: a failure is final at once.
MarkFailed_AtOnce ==
  /\ phase = "error"
  /\ SetStatus(cur, "failed")
  /\ Release(cur)
  /\ UNCHANGED <<attempts, wait, created, up, history>>

MarkFailed ==
  /\ phase = "error"
  /\ LastAttempt
  /\ SetStatus(cur, "failed")
  /\ Release(cur)
  /\ UNCHANGED <<attempts, wait, created, up, history>>

Retry ==
  /\ phase = "error"
  /\ ~LastAttempt
  /\ IncrementAttempts(cur, BackoffAfter(batch[cur]))
  /\ Release(cur)
  /\ UNCHANGED <<created, up, history>>

\* MarkSending returns an error: the row is left alone until the next drain.
MarkSendingFails(n) ==
  /\ faults < MaxFaults
  /\ faults' = faults + 1
  /\ TakeNext(n)
  /\ Release(n)
  /\ UNCHANGED <<queue, up, calls, accepted, stranded, since>>

\* MarkSent, MarkFailed or IncrementAttempts returns an error: it is logged.
MarkFails ==
  /\ faults < MaxFaults
  /\ faults' = faults + 1
  /\ phase \in {"ok", "error"}
  /\ stranded' = stranded \cup {cur}
  /\ Release(cur)
  /\ UNCHANGED <<queue, up, calls, accepted, since>>

\* A crash, or a shutdown: Run cancels the context and closes the store
\* without waiting for the engine.
Crash ==
  /\ up
  /\ faults < MaxFaults
  /\ faults' = faults + 1
  /\ up' = FALSE
  /\ batch' = <<>>
  /\ cur' = NULL
  /\ phase' = "none"
  /\ stranded' = IF cur = NULL THEN stranded ELSE stranded \cup {cur}
  /\ UNCHANGED <<queue, calls, accepted, since>>

\* Nothing looks for rows a previous process left in sending.
Restart ==
  /\ ~up
  /\ up' = TRUE
  /\ UNCHANGED <<queue, batch, cur, phase, history>>

\* One DELETE: the rows go at once.
Remove(gone) ==
  /\ gone # {}
  /\ status' = [n \in Note |-> IF n \in gone THEN "gone" ELSE status[n]]
  /\ UNCHANGED <<attempts, wait, created, engine, history>>

\* CleanupProcessor runs after the drain: sent and failed rows of old age go.
PurgeOldNotifications(old) ==
  /\ Idle
  /\ \A n \in old : status[n] \in {"sent", "failed"}
  /\ Remove(old)

\* All rows of the long resolved alerts go with them, whatever their status.
PurgeResolvedAlerts(old) ==
  /\ Idle
  /\ \A n \in old : InTable(n)
  /\ Remove(old)

\* There is a row for which the time matters.
Waiting == \E n \in Note : InTable(n) /\ (wait[n] > 0 \/ since[n] < MaxWait)

Advance ==
  /\ wait'  = [n \in Note |-> IF InTable(n) /\ wait[n] > 0 THEN wait[n] - 1 ELSE wait[n]]
  /\ since' = [n \in Note |-> IF InTable(n) /\ since[n] < MaxWait THEN since[n] + 1 ELSE since[n]]
  /\ UNCHANGED <<status, attempts, created, engine, calls, accepted, stranded, faults>>

Elapse == Waiting /\ Advance

-----------------------------------------------------------------------------

Init ==
  /\ status   = [n \in Note |-> "absent"]
  /\ attempts = [n \in Note |-> 0]
  /\ wait     = [n \in Note |-> 0]
  /\ created  = [n \in Note |-> 0]
  /\ up       = TRUE
  /\ batch    = <<>>
  /\ cur      = NULL
  /\ phase    = "none"
  /\ calls    = [n \in Note |-> 0]
  /\ accepted = {}
  /\ stranded = {}
  /\ since    = [n \in Note |-> 0]
  /\ faults   = 0

Drain ==
  \/ StartTick
  \/ \E n \in Note : MarkSending(n)
  \/ \E result \in {"ok", "error"} : Dispatch(result)
  \/ MarkSent
  \/ MarkFailed
  \/ Retry

Fault == Crash \/ MarkFails \/ \E n \in Note : MarkSendingFails(n)

Purge ==
  \E old \in SUBSET {n \in Note : InTable(n)} :
    PurgeOldNotifications(old) \/ PurgeResolvedAlerts(old)

Next == (\E n \in Note : Enqueue(n)) \/ Drain \/ Fault \/ Restart \/ Purge \/ Elapse

Spec == Init /\ [][Next]_vars

\* The ticker fires while the process runs, provider calls have a timeout, a
\* process that went down is restarted, and time passes.
Fairness == WF_vars(Drain) /\ WF_vars(Restart) /\ WF_vars(Elapse)

FairSpec == Spec /\ Fairness

-----------------------------------------------------------------------------
(* Properties.                                                             *)

\* Every variable has its type; the batch maps notifications to attempts read.
TypeOK ==
  /\ status \in [Note -> Status]
  /\ attempts \in [Note -> Nat]
  /\ wait \in [Note -> 0..MaxWait]
  /\ created \in [Note -> Rank]
  /\ up \in BOOLEAN
  /\ DOMAIN batch \subseteq Note
  /\ batch \in [DOMAIN batch -> Nat]
  /\ cur \in Note \cup {NULL}
  /\ phase \in Phase
  /\ calls \in [Note -> Nat]
  /\ accepted \subseteq Note
  /\ stranded \subseteq Note
  /\ since \in [Note -> 0..MaxWait]
  /\ faults \in 0..MaxFaults

\* Nobody is called more often than max_attempts for one notification, though
\* the limit is tested on a value read before the call and marks may fail.
AtMostMaxAttempts == \A n \in Note : calls[n] <= MaxAttempts

\* The attempts column counts the provider calls: a row that waits for its turn
\* has been dispatched exactly that often, also after crashes and restarts.
AttemptsCountCalls ==
  \A n \in Note : status[n] = "pending" => attempts[n] = calls[n]

\* A final status tells what happened: sent rows were taken by a provider,
\* failed rows were refused at each of their max_attempts calls.
FinalStatusIsTrue ==
  \A n \in Note :
    /\ status[n] = "sent"   => n \in accepted
    /\ status[n] = "failed" => n \notin accepted /\ calls[n] = MaxAttempts

\* A row left in sending with nobody working on it was in hand at a crash or a
\* failed mark, and each of those leaves at most one such row.
StrandedOnlyByFaults ==
  /\ \A n \in Note : status[n] = "sending" /\ n # cur => n \in stranded
  /\ Cardinality(stranded) <= faults

\* Once a provider has taken a notification it is not called for it again,
\* even when the mark that should record it fails or the process dies first.
NoCallAfterSuccess == [][\A n \in accepted : calls'[n] = calls[n]]_vars

\* A provider is called for rows that are in the table and marked as sending:
\* no purge removes a row between its mark and its call.
CallsAreMarked ==
  [][\A n \in Note : calls'[n] # calls[n] => status[n] = "sending"]_vars

\* A retry keeps the distance its backoff asks for.
BackoffIsHonoured ==
  [][\A n \in Note :
       calls[n] > 0 /\ calls'[n] # calls[n] => since[n] >= BackoffAfter(calls[n] - 1)]_vars

\* Every notification is settled in the end: sent, failed or purged, unless a
\* fault left it behind.
PendingSettles ==
  \A n \in Note :
    status[n] = "pending" ~> status[n] \in {"sent", "failed", "gone"} \/ n \in stranded
=============================================================================
