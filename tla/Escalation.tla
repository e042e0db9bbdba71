----------------------------- MODULE Escalation -----------------------------
(***************************************************************************)
(* The escalation processor (internal/engine/escalation.go) at work on the *)
(* alerts table, together with the API calls that close alerts under it.   *)
(*                                                                         *)
(* Every statement sent to the database is one action.  The processor      *)
(* reads all due alerts once per tick and then works through that batch,   *)
(* so an alert can be acknowledged, resolved or deleted between the read   *)
(* and the UPDATE that moves it to its next step.                          *)
(*                                                                         *)
(* Time is kept as the time still to wait: next[a] = 2 says that           *)
(* next_escalation_at lies two minutes ahead, 0 that it has come, NULL     *)
(* that the column is NULL.                                                *)
(***************************************************************************)
EXTENDS Naturals, Sequences, FiniteSets, Functions

CONSTANTS
  Alert,      \* ids of the alerts that may be created
  Page,       \* a (target, user, notification rule) a step may page
  Snapshot,   \* escalation_policy_snapshot of each alert
  NULL,       \* SQL NULL; also "no alert" where the engine works on none
  MaxDelay,   \* bound: no step waits longer; elapsed time is counted up to it
  MaxFaults   \* bound: failed database calls and crashes in one behaviour

Step   == [delay : Nat, pages : SUBSET Page]
Policy == [repeat : Nat, steps : Seq(Step)]

ASSUME SnapshotAssumption == Snapshot \in [Alert -> Policy]
ASSUME NullAssumption     == NULL \notin Nat /\ NULL \notin Alert
ASSUME BoundAssumption    ==
  /\ MaxDelay \in Nat
  /\ MaxFaults \in Nat
  /\ \A a \in Alert : \A i \in DOMAIN Snapshot[a].steps :
       Snapshot[a].steps[i].delay <= MaxDelay

VARIABLES
  status,   \* alerts.status; "absent" before the INSERT, "gone" after a DELETE
  pos,      \* alerts.(loop_count, escalation_step)
  next,     \* alerts.next_escalation_at, as the time left to wait
  queue,    \* pages that were inserted into notification_queue
  up,       \* the server process runs
  batch,    \* alerts of this tick still to be worked on, with the position read
  cur,      \* the alert processAlert works on, or NULL
  todo,     \* pages of the running step not yet handed to Enqueue
  \* history, for the properties only
  run,      \* how often the current position of an alert has been started
  missed,   \* pages a started step found no recipient for or failed to insert
  since,    \* time since the position last moved, counted up to MaxDelay
  closedAt, \* position an alert had when it stopped being triggered
  faults    \* failed calls and crashes so far

row  == <<status, pos, next>>
engine == <<up, batch, cur, todo>>
history == <<run, missed, since, closedAt, faults>>
vars == <<row, queue, engine, history>>

Status   == {"absent", "triggered", "acknowledged", "resolved", "gone"}
Position == [loop : Nat, step : Nat]
Start    == [loop |-> 0, step |-> 0]

Steps(a)  == Snapshot[a].steps
Repeat(a) == Snapshot[a].repeat
Closed(a) == status[a] \in {"acknowledged", "resolved"}
Exists(a) == status[a] = "triggered" \/ Closed(a)

\* A page of one run of one step; run tells the copies of a repeated run apart.
Entry == [alert : Alert, loop : Nat, step : Nat, page : Page, run : Nat]

-----------------------------------------------------------------------------
(* What processAlert computes from the row it was given.                   *)

Exhausted(a, p) == p.step >= Len(Steps(a)) /\ p.loop >= Repeat(a)

\* Mutation: the loop restarts at its second step.
Executed_SkipsFirst(a, p) ==
  IF p.step < Len(Steps(a)) THEN p ELSE [loop |-> p.loop + 1, step |-> Len(Steps(a)) - 1]

\* The position that is executed: past the last step the ladder starts again.
Executed(a, p) ==
  IF p.step < Len(Steps(a)) THEN p ELSE [loop |-> p.loop + 1, step |-> 0]

After(p) == [p EXCEPT !.step = @ + 1]

StepAt(a, p) == Steps(a)[p.step + 1]

\* Positions in the order they are executed: 0, 1, 2, ...
Ord(a, p) == p.loop * Len(Steps(a)) + p.step

-----------------------------------------------------------------------------
(* Statements of the alert store.                                          *)

\* Mutation: the status is not looked at.
FindPendingEscalations_AnyStatus == {a \in Alert : Exists(a) /\ next[a] # NULL /\ next[a] = 0}

\* Mutation: next_escalation_at is not compared with the clock.
FindPendingEscalations_AnyTime == {a \in Alert : status[a] = "triggered" /\ next[a] # NULL}

FindPendingEscalations ==
  {a \in Alert : status[a] = "triggered" /\ next[a] # NULL /\ next[a] = 0}

\* The UPDATE asks for the id only: a closed alert is moved like an open one.
UpdateEscalationStep(a, p, wait) ==
  /\ status' = status
  /\ IF Exists(a)
       THEN /\ pos'  = [pos EXCEPT ![a] = p]
            /\ next' = [next EXCEPT ![a] = wait]
       ELSE UNCHANGED <<pos, next>>

\* alertStore.Create; next is NULL when the alert joins an active group.
Create(a) ==
  /\ up
  /\ status[a] = "absent"
  /\ status' = [status EXCEPT ![a] = "triggered"]
  /\ \E wait \in {0, NULL} : next' = [next EXCEPT ![a] = wait]
  /\ UNCHANGED <<pos, queue, engine, history>>

\* Mutation: acknowledging also starts the ladder from its beginning again.
Acknowledge_ResetsStep(a) ==
  /\ up
  /\ status[a] = "triggered"
  /\ status' = [status EXCEPT ![a] = "acknowledged"]
  /\ next' = [next EXCEPT ![a] = NULL]
  /\ pos' = [pos EXCEPT ![a] = Start]
  /\ closedAt' = [closedAt EXCEPT ![a] = pos[a]]
  /\ UNCHANGED <<queue, engine, run, missed, since, faults>>

\* Guarded by status = triggered: on any other row nothing changes.
Acknowledge(a) ==
  /\ up
  /\ status[a] = "triggered"
  /\ status' = [status EXCEPT ![a] = "acknowledged"]
  /\ next' = [next EXCEPT ![a] = NULL]
  /\ closedAt' = [closedAt EXCEPT ![a] = pos[a]]
  /\ UNCHANGED <<pos, queue, engine, run, missed, since, faults>>

Resolve(a) ==
  /\ up
  /\ status[a] \in {"triggered", "acknowledged"}
  /\ status' = [status EXCEPT ![a] = "resolved"]
  /\ next' = [next EXCEPT ![a] = NULL]
  /\ closedAt' = IF status[a] = "triggered" THEN [closedAt EXCEPT ![a] = pos[a]] ELSE closedAt
  /\ UNCHANGED <<pos, queue, engine, run, missed, since, faults>>

\* ON DELETE CASCADE: the alerts of one service go at once, whatever their status.
DeleteService(gone) ==
  /\ up
  /\ gone # {}
  /\ \A a \in gone : Exists(a)
  /\ status' = [a \in Alert |-> IF a \in gone THEN "gone" ELSE status[a]]
  /\ next' = [a \in Alert |-> IF a \in gone THEN NULL ELSE next[a]]
  /\ UNCHANGED <<pos, queue, engine, history>>

-----------------------------------------------------------------------------
(* EscalationProcessor.Tick and processAlert.                              *)

Idle == up /\ cur = NULL /\ batch = <<>>

\* A tick that finds nothing changes nothing and is left out.
StartTick ==
  /\ Idle
  /\ FindPendingEscalations # {}
  /\ batch' = [a \in FindPendingEscalations |-> pos[a]]
  /\ UNCHANGED <<row, queue, up, cur, todo, history>>

\* len(snapshot.Steps) == 0: processAlert returns and leaves the row as it is.
SkipEmpty(a) ==
  /\ cur = NULL
  /\ a \in DOMAIN batch
  /\ Steps(a) = <<>>
  /\ batch' = Restrict(batch, DOMAIN batch \ {a})
  /\ UNCHANGED <<row, queue, up, cur, todo, history>>

MissedEntries(a, p, pages) ==
  {[alert |-> a, loop |-> p.loop, step |-> p.step, page |-> g, run |-> run[a] + 1] : g \in pages}

\* Targets are resolved and the users' rules and contact methods read: any
\* page may turn out to have no recipient now, or its lookup may fail.
BeginStep(a) ==
  /\ cur = NULL
  /\ a \in DOMAIN batch
  /\ Steps(a) # <<>>
  /\ ~Exhausted(a, batch[a])
  /\ LET p == Executed(a, batch[a]) IN
       \E found \in SUBSET StepAt(a, p).pages :
         /\ found # StepAt(a, p).pages => faults < MaxFaults
         /\ faults' = IF found # StepAt(a, p).pages THEN faults + 1 ELSE faults
         /\ missed' = missed \cup MissedEntries(a, p, StepAt(a, p).pages \ found)
         /\ todo' = found
  /\ cur' = a
  /\ run' = [run EXCEPT ![a] = @ + 1]
  /\ UNCHANGED <<row, queue, up, batch, since, closedAt>>

CurEntry(g) ==
  LET p == Executed(cur, batch[cur]) IN
  [alert |-> cur, loop |-> p.loop, step |-> p.step, page |-> g, run |-> run[cur]]

Enqueue(g) ==
  /\ cur # NULL
  /\ g \in todo
  /\ queue' = queue \cup {CurEntry(g)}
  /\ todo' = todo \ {g}
  /\ UNCHANGED <<row, up, batch, cur, history>>

\* The error is logged and the loop goes on.
EnqueueFails(g) ==
  /\ cur # NULL
  /\ g \in todo
  /\ faults < MaxFaults
  /\ faults' = faults + 1
  /\ missed' = missed \cup {CurEntry(g)}
  /\ todo' = todo \ {g}
  /\ UNCHANGED <<row, queue, up, batch, cur, run, since, closedAt>>

AlertDone(a) ==
  /\ batch' = Restrict(batch, DOMAIN batch \ {a})
  /\ cur' = NULL

Moved(a) ==
  IF Exists(a)
    THEN /\ run'   = [run EXCEPT ![a] = 0]
         /\ since' = [since EXCEPT ![a] = 0]
    ELSE UNCHANGED <<run, since>>

\* Mutation: the row is moved on before the pages are enqueued.
AdvanceStep_Early ==
  /\ cur # NULL
  /\ LET p == Executed(cur, batch[cur]) IN
       UpdateEscalationStep(cur, After(p), StepAt(cur, p).delay)
  /\ Moved(cur)
  /\ AlertDone(cur)
  /\ todo' = {}
  /\ UNCHANGED <<queue, up, missed, closedAt, faults>>

\* Mutation: the step is not written back.
AdvanceStep_Forgotten ==
  /\ cur # NULL
  /\ todo = {}
  /\ AlertDone(cur)
  /\ UNCHANGED <<row, queue, up, todo, history>>

AdvanceStep ==
  /\ cur # NULL
  /\ todo = {}
  /\ LET p == Executed(cur, batch[cur]) IN
       UpdateEscalationStep(cur, After(p), StepAt(cur, p).delay)
  /\ Moved(cur)
  /\ AlertDone(cur)
  /\ UNCHANGED <<queue, up, todo, missed, closedAt, faults>>

\* Mutation: an exhausted alert is left as it is.
FinishExhausted_LeavesTimer(a) ==
  /\ cur = NULL
  /\ a \in DOMAIN batch
  /\ Steps(a) # <<>>
  /\ Exhausted(a, batch[a])
  /\ AlertDone(a)
  /\ UNCHANGED <<row, queue, up, todo, history>>

\* All steps and repetitions are done: next_escalation_at becomes NULL.
FinishExhausted(a) ==
  /\ cur = NULL
  /\ a \in DOMAIN batch
  /\ Steps(a) # <<>>
  /\ Exhausted(a, batch[a])
  /\ UpdateEscalationStep(a, batch[a], NULL)
  /\ AlertDone(a)
  /\ UNCHANGED <<queue, up, todo, history>>

\* The UPDATE returns an error: Tick logs it and takes the next alert.
UpdateFails(a) ==
  /\ faults < MaxFaults
  /\ faults' = faults + 1
  /\ a \in DOMAIN batch
  /\ \/ cur = a /\ todo = {}
     \/ cur = NULL /\ Steps(a) # <<>> /\ Exhausted(a, batch[a])
  /\ AlertDone(a)
  /\ UNCHANGED <<row, queue, up, todo, run, missed, since, closedAt>>

\* The process ends, by a crash or a shutdown in the middle of a tick: what
\* the engine holds in memory is lost, the database stays.
Crash ==
  /\ up
  /\ faults < MaxFaults
  /\ faults' = faults + 1
  /\ up' = FALSE
  /\ batch' = <<>>
  /\ cur' = NULL
  /\ todo' = {}
  /\ UNCHANGED <<row, queue, run, missed, since, closedAt>>

Restart ==
  /\ ~up
  /\ up' = TRUE
  /\ UNCHANGED <<row, queue, batch, cur, todo, history>>

\* There is somebody for whom the time matters.
Waiting == \E a \in Alert : (next[a] # NULL /\ next[a] > 0) \/ (Exists(a) /\ since[a] < MaxDelay)

Advance ==
  /\ next'  = [a \in Alert |-> IF next[a] # NULL /\ next[a] > 0 THEN next[a] - 1 ELSE next[a]]
  /\ since' = [a \in Alert |-> IF Exists(a) /\ since[a] < MaxDelay THEN since[a] + 1 ELSE since[a]]
  /\ UNCHANGED <<status, pos, queue, engine, run, missed, closedAt, faults>>

\* A minute goes by.
Elapse == Waiting /\ Advance

-----------------------------------------------------------------------------

Init ==
  /\ status   = [a \in Alert |-> "absent"]
  /\ pos      = [a \in Alert |-> Start]
  /\ next     = [a \in Alert |-> NULL]
  /\ queue    = {}
  /\ up       = TRUE
  /\ batch    = <<>>
  /\ cur      = NULL
  /\ todo     = {}
  /\ run      = [a \in Alert |-> 0]
  /\ missed   = {}
  /\ since    = [a \in Alert |-> 0]
  /\ closedAt = [a \in Alert |-> Start]
  /\ faults   = 0

Api ==
  \/ \E a \in Alert : Create(a) \/ Acknowledge(a) \/ Resolve(a)
  \/ \E gone \in SUBSET Alert : DeleteService(gone)

EngineStep ==
  \/ StartTick
  \/ \E a \in Alert : SkipEmpty(a) \/ BeginStep(a) \/ FinishExhausted(a)
  \/ \E g \in Page : Enqueue(g)
  \/ AdvanceStep

Fault == Crash \/ (\E g \in Page : EnqueueFails(g)) \/ (\E a \in Alert : UpdateFails(a))

Next == Api \/ EngineStep \/ Fault \/ Restart \/ Elapse

Spec == Init /\ [][Next]_vars

\* The engine goroutine keeps ticking while the process runs, a process that
\* went down is restarted by its supervisor, and time passes.
Fairness == WF_vars(EngineStep) /\ WF_vars(Restart) /\ WF_vars(Elapse)

FairSpec == Spec /\ Fairness

-----------------------------------------------------------------------------
(* Properties.                                                             *)

\* Every variable has its type; the batch maps alerts to the positions read.
TypeOK ==
  /\ status \in [Alert -> Status]
  /\ pos \in [Alert -> Position]
  /\ next \in [Alert -> Nat \cup {NULL}]
  /\ queue \in SUBSET Entry
  /\ up \in BOOLEAN
  /\ DOMAIN batch \subseteq Alert
  /\ batch \in [DOMAIN batch -> Position]
  /\ cur \in Alert \cup {NULL}
  /\ todo \in SUBSET Page
  /\ run \in [Alert -> Nat]
  /\ missed \in SUBSET Entry
  /\ since \in [Alert -> 0..MaxDelay]
  /\ closedAt \in [Alert -> Position]
  /\ faults \in 0..MaxFaults

\* The position read at the start of the tick is still the row's position when
\* the processor writes the next one: UpdateEscalationStep carries no version,
\* so the processor must be the only writer of escalation_step and loop_count.
BatchIsCurrent == \A a \in DOMAIN batch : batch[a] = pos[a]

\* A policy of n steps is executed at most 1 + repeat times, crashes, failed
\* updates and late closings included: the position never leaves the ladder.
WithinLadder ==
  \A a \in Alert :
    /\ pos[a].loop <= Repeat(a)
    /\ pos[a].step <= Len(Steps(a))

\* An alert that is acknowledged or resolved while a tick holds it moves by
\* that one step and never again, although the late UPDATE has armed its timer.
AtMostOneLateStep ==
  \A a \in Alert :
    Closed(a) => Ord(a, pos[a]) \in {Ord(a, closedAt[a]), Ord(a, closedAt[a]) + 1}

AccountedFor(a, l, s, g) ==
  \E n \in queue \cup missed : n.alert = a /\ n.loop = l /\ n.step = s /\ n.page = g

\* No step is passed over: every page of an executed step was put into the
\* notification queue, or the run that executed it saw its lookup or its
\* INSERT fail.  A crash in the middle repeats a step and drops none of it.
NoSilentSkip ==
  \A a \in Alert : \A i \in DOMAIN Steps(a) : \A l \in 0..Repeat(a) :
    Ord(a, [loop |-> l, step |-> i - 1]) < Ord(a, pos[a]) =>
      \A g \in Steps(a)[i].pages :
        AccountedFor(a, l, i - 1, g)

\* A step is run again only after a crash or a failed update: each repeated
\* run that paged anybody is paid for by a fault of its own.
RepeatsArePaidFor ==
  Cardinality({<<n.alert, n.loop, n.step, n.run>> : n \in {m \in queue : m.run > 1}}) <= faults

\* A page for an alert that is no longer triggered belongs to the step the
\* alert was at when it was closed.
LatePageOfOneStep ==
  \A n \in queue' \ queue :
    Closed(n.alert) =>
      Ord(n.alert, [loop |-> n.loop, step |-> n.step]) = Ord(n.alert, closedAt[n.alert])

LatePagesOfOneStep == [][LatePageOfOneStep]_vars

\* Nobody is paged early: a step starts no sooner after the step before it
\* than that step's delay_minutes, however ticks and crashes fall.
DelayIsHonoured ==
  [][\A a \in Alert :
       cur # a /\ cur' = a /\ Ord(a, pos[a]) > 0 =>
         since[a] >= Steps(a)[pos[a].step].delay]_vars

\* The timer of an alert nobody closes runs out: after its last repetition a
\* policy with steps leaves the alert with next_escalation_at NULL.
EscalationRunsOut ==
  \A a \in Alert :
    status[a] = "triggered" /\ Steps(a) # <<>> ~> status[a] # "triggered" \/ next[a] = NULL

\* Acknowledging an alert stops its escalation: from then on no page is queued
\* for it.
AcknowledgeStopsEscalation ==
  [][\A n \in queue' \ queue : status[n.alert] # "acknowledged"]_vars
=============================================================================
