-------------------------- MODULE EscalationProofs --------------------------
(***************************************************************************)
(* Proofs about Escalation for every set of alerts, every policy snapshot  *)
(* and every number of faults.                                             *)
(***************************************************************************)
EXTENDS Escalation, FiniteSetTheorems, TLAPS

\* What the processor holds while it works on an alert: the alert is in the
\* batch and its ladder was not exhausted when the row was read.
Working ==
  cur # NULL =>
    /\ cur \in DOMAIN batch
    /\ Steps(cur) # <<>>
    /\ ~Exhausted(cur, batch[cur])

IInv == TypeOK /\ BatchIsCurrent /\ WithinLadder /\ Working

-----------------------------------------------------------------------------
(* Facts about snapshots, positions and the batch.                         *)

\* Steps turns every policy into a sequence of its steps.
LEMMA StepsType ==
  ASSUME NEW a \in Alert
  PROVE  /\ Steps(a) \in Seq(Step)
         /\ Len(Steps(a)) \in Nat
         /\ Repeat(a) \in Nat
         /\ Steps(a) # <<>> => Len(Steps(a)) > 0
<1>1. Snapshot[a] \in Policy
  BY SnapshotAssumption
<1>2. Snapshot[a].steps \in Seq(Step) /\ Snapshot[a].repeat \in Nat
  BY <1>1 DEF Policy
<1>. QED  BY <1>2 DEF Steps, Repeat

\* The step that is executed exists, and moving past it stays on the ladder.
LEMMA ExecutedOnLadder ==
  ASSUME NEW a \in Alert, NEW p \in Position,
         p.loop <= Repeat(a), p.step <= Len(Steps(a)),
         Steps(a) # <<>>, ~Exhausted(a, p)
  PROVE  /\ Executed(a, p) \in Position
         /\ Executed(a, p).loop <= Repeat(a)
         /\ Executed(a, p).step + 1 \in 1..Len(Steps(a))
         /\ After(Executed(a, p)) \in Position
         /\ After(Executed(a, p)).loop = Executed(a, p).loop
         /\ After(Executed(a, p)).step = Executed(a, p).step + 1
         /\ StepAt(a, Executed(a, p)) \in Step
<1>1. /\ Len(Steps(a)) \in Nat /\ Repeat(a) \in Nat
      /\ Len(Steps(a)) > 0 /\ Steps(a) \in Seq(Step)
  BY StepsType
<1>2. p.loop \in Nat /\ p.step \in Nat
  BY DEF Position
<1>3. /\ Executed(a, p) \in Position
      /\ Executed(a, p).loop <= Repeat(a)
      /\ Executed(a, p).step + 1 \in 1..Len(Steps(a))
  BY <1>1, <1>2 DEF Executed, Exhausted, Position
<1>4. /\ After(Executed(a, p)) \in Position
      /\ After(Executed(a, p)).loop = Executed(a, p).loop
      /\ After(Executed(a, p)).step = Executed(a, p).step + 1
  BY <1>3 DEF After, Position
<1>5. StepAt(a, Executed(a, p)) \in Step
  BY <1>1, <1>3 DEF StepAt
<1>. QED  BY <1>3, <1>4, <1>5

\* Taking an alert out of the batch leaves the other entries alone.
LEMMA RestrictBatch ==
  ASSUME NEW f, NEW a
  PROVE  LET g == Restrict(f, DOMAIN f \ {a}) IN
         /\ DOMAIN g = DOMAIN f \ {a}
         /\ \A b \in DOMAIN g : g[b] = f[b]
         /\ g = [b \in DOMAIN f \ {a} |-> f[b]]
BY DEF Restrict

\* The empty batch is a function without entries.
LEMMA EmptyBatch == DOMAIN <<>> = {} /\ <<>> \in [DOMAIN <<>> -> Position]
OBVIOUS

-----------------------------------------------------------------------------

\* The inductive invariant holds of the empty database.
LEMMA InitIInv == Init => IInv
<1> SUFFICES ASSUME Init PROVE IInv
  OBVIOUS
<1>1. TypeOK
  BY NullAssumption, BoundAssumption, EmptyBatch
  DEF Init, TypeOK, Start, Position, Status
<1>2. BatchIsCurrent /\ Working
  BY EmptyBatch DEF Init, BatchIsCurrent, Working
<1>3. WithinLadder
  BY StepsType DEF Init, WithinLadder, Start
<1>. QED  BY <1>1, <1>2, <1>3 DEF IInv


-----------------------------------------------------------------------------
(* The API calls write status and next, and closedAt when they close.      *)

\* A request changes rows that the batch may hold only in their status.
LEMMA ApiIInv == ASSUME IInv, Api PROVE IInv'
<1> USE DEF IInv
<1>1. \/ \E a \in Alert : Create(a) \/ Acknowledge(a) \/ Resolve(a)
      \/ \E gone \in SUBSET Alert : DeleteService(gone)
  BY DEF Api
<1>2. ASSUME NEW a \in Alert, Create(a) PROVE IInv'
  <2>1. TypeOK'
    BY <1>2 DEF Create, TypeOK, Status, engine, history
  <2>2. BatchIsCurrent' /\ WithinLadder' /\ Working'
    BY <1>2 DEF Create, BatchIsCurrent, WithinLadder, Working, engine, history
  <2>. QED  BY <2>1, <2>2
<1>3. ASSUME NEW a \in Alert, Acknowledge(a) PROVE IInv'
  <2>1. TypeOK'
    BY <1>3 DEF Acknowledge, TypeOK, Status, engine
  <2>2. BatchIsCurrent' /\ WithinLadder' /\ Working'
    BY <1>3 DEF Acknowledge, BatchIsCurrent, WithinLadder, Working, engine
  <2>. QED  BY <2>1, <2>2
<1>4. ASSUME NEW a \in Alert, Resolve(a) PROVE IInv'
  <2>1. TypeOK'
    BY <1>4 DEF Resolve, TypeOK, Status, engine
  <2>2. BatchIsCurrent' /\ WithinLadder' /\ Working'
    BY <1>4 DEF Resolve, BatchIsCurrent, WithinLadder, Working, engine
  <2>. QED  BY <2>1, <2>2
<1>5. ASSUME NEW gone \in SUBSET Alert, DeleteService(gone) PROVE IInv'
  <2>1. TypeOK'
    BY <1>5 DEF DeleteService, TypeOK, Status, engine, history
  <2>2. BatchIsCurrent' /\ WithinLadder' /\ Working'
    BY <1>5 DEF DeleteService, BatchIsCurrent, WithinLadder, Working, engine, history
  <2>. QED  BY <2>1, <2>2
<1>. QED  BY <1>1, <1>2, <1>3, <1>4, <1>5

-----------------------------------------------------------------------------
(* The engine: reading the batch, enqueuing, and the three ways an alert   *)
(* leaves the batch.                                                       *)

\* A tick reads a batch that agrees with the rows it was read from.
LEMMA StartTickIInv == ASSUME IInv, StartTick PROVE IInv'
<1> USE DEF IInv
<1>1. TypeOK'
  BY DEF StartTick, TypeOK, Idle, FindPendingEscalations, row, history
<1>2. BatchIsCurrent' /\ WithinLadder' /\ Working'
  BY DEF StartTick, BatchIsCurrent, WithinLadder, Working, Idle, row, history, FindPendingEscalations
<1>. QED  BY <1>1, <1>2

\* An alert that leaves the batch leaves the other entries as they were read.
LEMMA AlertDoneIInv ==
  ASSUME IInv, NEW a \in DOMAIN batch, AlertDone(a),
         \A b \in Alert : b # a => pos'[b] = pos[b]
  PROVE  /\ DOMAIN batch' \subseteq Alert
         /\ batch' \in [DOMAIN batch' -> Position]
         /\ cur' \in Alert \cup {NULL}
         /\ BatchIsCurrent'
         /\ Working'
<1>1. /\ DOMAIN batch' = DOMAIN batch \ {a}
      /\ batch' = [b \in DOMAIN batch \ {a} |-> batch[b]]
      /\ cur' = NULL
  BY RestrictBatch DEF AlertDone
<1>2. /\ DOMAIN batch \subseteq Alert
      /\ batch \in [DOMAIN batch -> Position]
      /\ BatchIsCurrent
  BY DEF IInv, TypeOK
<1>. QED  BY <1>1, <1>2 DEF BatchIsCurrent, Working

\* An alert without steps leaves the batch and nothing else happens.
LEMMA SkipEmptyIInv == ASSUME IInv, NEW a \in Alert, SkipEmpty(a) PROVE IInv'
<1>1. AlertDone(a) /\ a \in DOMAIN batch /\ pos' = pos
  BY DEF SkipEmpty, AlertDone, row
<1>2. /\ DOMAIN batch' \subseteq Alert
      /\ batch' \in [DOMAIN batch' -> Position]
      /\ cur' \in Alert \cup {NULL}
      /\ BatchIsCurrent' /\ Working'
  BY <1>1, AlertDoneIInv
<1>3. TypeOK'
  BY <1>2 DEF IInv, SkipEmpty, TypeOK, row, history
<1>4. WithinLadder'
  BY <1>1 DEF IInv, WithinLadder
<1>. QED  BY <1>2, <1>3, <1>4 DEF IInv

\* Taking up an alert resolves a step that its policy has.
LEMMA BeginStepIInv == ASSUME IInv, NEW a \in Alert, BeginStep(a) PROVE IInv'
<1> DEFINE p == Executed(a, batch[a])
<1>1. /\ batch[a] = pos[a] /\ batch[a] \in Position
      /\ batch[a].loop <= Repeat(a) /\ batch[a].step <= Len(Steps(a))
  BY DEF IInv, TypeOK, BatchIsCurrent, WithinLadder, BeginStep
<1>2. p \in Position /\ StepAt(a, p) \in Step
  BY <1>1, ExecutedOnLadder DEF BeginStep
<1>3. PICK found \in SUBSET StepAt(a, p).pages :
        /\ found # StepAt(a, p).pages => faults < MaxFaults
        /\ faults' = IF found # StepAt(a, p).pages THEN faults + 1 ELSE faults
        /\ missed' = missed \cup MissedEntries(a, p, StepAt(a, p).pages \ found)
        /\ todo' = found
  BY DEF BeginStep
<1>4. StepAt(a, p).pages \in SUBSET Page
  BY <1>2 DEF Step
<1>5. MissedEntries(a, p, StepAt(a, p).pages \ found) \in SUBSET Entry
  <2>1. run[a] + 1 \in Nat /\ p.loop \in Nat /\ p.step \in Nat
    BY <1>2 DEF IInv, TypeOK, Position
  <2>. QED  BY <2>1, <1>4 DEF MissedEntries, Entry
<1>6. missed' \in SUBSET Entry /\ todo' \in SUBSET Page /\ faults' \in 0..MaxFaults
  <2>1. missed \in SUBSET Entry /\ faults \in 0..MaxFaults
    BY DEF IInv, TypeOK
  <2>2. todo' \in SUBSET Page
    BY <1>3, <1>4
  <2>3. missed' \in SUBSET Entry
    BY <1>3, <1>5, <2>1
  <2>4. faults' \in 0..MaxFaults
    <3>1. faults' = faults \/ (faults < MaxFaults /\ faults' = faults + 1)
      BY <1>3
    <3>. QED  BY <2>1, <3>1, BoundAssumption
  <2>. QED  BY <2>2, <2>3, <2>4
<1>7. /\ a \in DOMAIN batch /\ Steps(a) # <<>> /\ ~Exhausted(a, batch[a])
      /\ cur' = a /\ run' = [run EXCEPT ![a] = run[a] + 1]
      /\ UNCHANGED <<row, queue, up, batch, since, closedAt>>
  BY Zenon DEF BeginStep
<1>8. TypeOK'
  BY <1>6, <1>7 DEF IInv, TypeOK, row
<1>9. BatchIsCurrent' /\ WithinLadder' /\ Working'
  BY <1>7 DEF IInv, BatchIsCurrent, WithinLadder, Working, row
<1>. QED  BY <1>8, <1>9 DEF IInv

\* While the processor works on an alert, the step it executes exists.
LEMMA CurOnLadder ==
  ASSUME IInv, cur # NULL
  PROVE  /\ cur \in Alert /\ cur \in DOMAIN batch
         /\ batch[cur] = pos[cur] /\ batch[cur] \in Position
         /\ batch[cur].loop <= Repeat(cur) /\ batch[cur].step <= Len(Steps(cur))
         /\ Steps(cur) # <<>> /\ ~Exhausted(cur, batch[cur])
BY DEF IInv, TypeOK, BatchIsCurrent, WithinLadder, Working

\* The entry being worked on is a position read by this batch.
LEMMA CurEntryType ==
  ASSUME IInv, cur # NULL, NEW g \in todo
  PROVE  CurEntry(g) \in Entry
<1>1. Executed(cur, batch[cur]) \in Position
  BY CurOnLadder, ExecutedOnLadder
<1>2. cur \in Alert /\ g \in Page /\ run[cur] \in Nat
  BY CurOnLadder DEF IInv, TypeOK
<1>. QED  BY <1>1, <1>2 DEF CurEntry, Entry, Position

\* Queueing the pages of a step moves no alert.
LEMMA EnqueueIInv ==
  ASSUME IInv, NEW g \in Page, Enqueue(g) \/ EnqueueFails(g) PROVE IInv'
<1>1. CurEntry(g) \in Entry
  BY CurEntryType DEF Enqueue, EnqueueFails
<1>2. TypeOK'
  BY <1>1, BoundAssumption DEF IInv, TypeOK, Enqueue, EnqueueFails, row, history
<1>3. BatchIsCurrent' /\ WithinLadder' /\ Working'
  BY DEF IInv, Enqueue, EnqueueFails, BatchIsCurrent, WithinLadder, Working, row, history
<1>. QED  BY <1>2, <1>3 DEF IInv

\* The UPDATE writes a position and a timer for one alert and nothing else.
LEMMA UpdateWrites ==
  ASSUME TypeOK, NEW a \in Alert, NEW p \in Position, NEW wait \in Nat \cup {NULL},
         UpdateEscalationStep(a, p, wait)
  PROVE  /\ status' \in [Alert -> Status] /\ pos' \in [Alert -> Position]
         /\ next' \in [Alert -> Nat \cup {NULL}]
         /\ \A b \in Alert : b # a => pos'[b] = pos[b]
         /\ pos'[a] \in {p, pos[a]}
BY DEF TypeOK, UpdateEscalationStep

\* The update of a step leaves the alert inside the ladder.
LEMMA AdvanceStepIInv == ASSUME IInv, AdvanceStep PROVE IInv'
<1> DEFINE p == Executed(cur, batch[cur])
<1>1. cur # NULL /\ cur \in Alert /\ cur \in DOMAIN batch
  BY CurOnLadder DEF AdvanceStep
<1>2. /\ After(p) \in Position /\ StepAt(cur, p) \in Step
      /\ After(p).loop <= Repeat(cur) /\ After(p).step <= Len(Steps(cur))
  BY <1>1, CurOnLadder, ExecutedOnLadder, StepsType
<1>3. UpdateEscalationStep(cur, After(p), StepAt(cur, p).delay)
  BY DEF AdvanceStep
<1>4. /\ status' \in [Alert -> Status] /\ pos' \in [Alert -> Position]
      /\ next' \in [Alert -> Nat \cup {NULL}]
      /\ \A b \in Alert : b # cur => pos'[b] = pos[b]
      /\ pos'[cur] \in {After(p), pos[cur]}
  <2>1. StepAt(cur, p).delay \in Nat \cup {NULL}
    BY <1>2 DEF Step
  <2>. QED  BY <2>1, <1>1, <1>2, <1>3, UpdateWrites DEF IInv
<1>5. /\ DOMAIN batch' \subseteq Alert
      /\ batch' \in [DOMAIN batch' -> Position]
      /\ cur' \in Alert \cup {NULL}
      /\ BatchIsCurrent' /\ Working'
  BY <1>1, <1>4, AlertDoneIInv DEF AdvanceStep
<1>6. TypeOK'
  <2>1. run' \in [Alert -> Nat] /\ since' \in [Alert -> 0..MaxDelay]
    BY <1>1, BoundAssumption DEF AdvanceStep, Moved, IInv, TypeOK
  <2>. QED  BY <1>4, <1>5, <2>1 DEF AdvanceStep, IInv, TypeOK
<1>7. WithinLadder'
  BY <1>2, <1>4 DEF IInv, WithinLadder
<1>. QED  BY <1>5, <1>6, <1>7 DEF IInv

\* Clearing the timer of a finished ladder keeps its last position.
LEMMA FinishExhaustedIInv ==
  ASSUME IInv, NEW a \in Alert, FinishExhausted(a) PROVE IInv'
<1>1. a \in DOMAIN batch /\ batch[a] = pos[a] /\ batch[a] \in Position
  BY DEF FinishExhausted, IInv, TypeOK, BatchIsCurrent
<1>2. /\ status' \in [Alert -> Status] /\ pos' \in [Alert -> Position]
      /\ next' \in [Alert -> Nat \cup {NULL}]
      /\ \A b \in Alert : pos'[b] = pos[b]
  BY <1>1, UpdateWrites DEF FinishExhausted, IInv
<1>3. /\ DOMAIN batch' \subseteq Alert
      /\ batch' \in [DOMAIN batch' -> Position]
      /\ cur' \in Alert \cup {NULL}
      /\ BatchIsCurrent' /\ Working'
  BY <1>1, <1>2, AlertDoneIInv DEF FinishExhausted
<1>4. TypeOK'
  BY <1>2, <1>3 DEF FinishExhausted, IInv, TypeOK, history
<1>5. WithinLadder'
  BY <1>2 DEF IInv, WithinLadder
<1>. QED  BY <1>3, <1>4, <1>5 DEF IInv

-----------------------------------------------------------------------------
(* Faults, restarts and time.                                              *)

\* A failed update leaves the row, and the alert leaves the batch.
LEMMA UpdateFailsIInv == ASSUME IInv, NEW a \in Alert, UpdateFails(a) PROVE IInv'
<1>1. a \in DOMAIN batch /\ AlertDone(a) /\ pos' = pos
  BY DEF UpdateFails, row
<1>2. /\ DOMAIN batch' \subseteq Alert
      /\ batch' \in [DOMAIN batch' -> Position]
      /\ cur' \in Alert \cup {NULL}
      /\ BatchIsCurrent' /\ Working'
  BY <1>1, AlertDoneIInv
<1>3. TypeOK'
  BY <1>2, BoundAssumption DEF IInv, UpdateFails, TypeOK, row
<1>4. WithinLadder'
  BY <1>1 DEF IInv, WithinLadder
<1>. QED  BY <1>2, <1>3, <1>4 DEF IInv

\* A crash forgets the batch and keeps the rows.
LEMMA CrashIInv == ASSUME IInv, Crash \/ Restart PROVE IInv'
<1>1. CASE Crash
  <2>1. DOMAIN batch' \subseteq Alert /\ batch' \in [DOMAIN batch' -> Position]
    BY <1>1, EmptyBatch DEF Crash
  <2>2. faults' \in 0..MaxFaults
    BY <1>1, BoundAssumption DEF IInv, Crash, TypeOK
  <2>3. TypeOK'
    BY <1>1, <2>1, <2>2 DEF IInv, Crash, TypeOK, row
  <2>4. BatchIsCurrent' /\ WithinLadder' /\ Working'
    BY <1>1, EmptyBatch DEF IInv, Crash, BatchIsCurrent, WithinLadder, Working, row
  <2>. QED  BY <2>3, <2>4 DEF IInv
<1>2. CASE Restart
  <2>1. TypeOK'
    BY <1>2 DEF IInv, Restart, TypeOK, row, history
  <2>2. BatchIsCurrent' /\ WithinLadder' /\ Working'
    BY <1>2 DEF IInv, Restart, BatchIsCurrent, WithinLadder, Working, row, history
  <2>. QED  BY <2>1, <2>2 DEF IInv
<1>. QED  BY <1>1, <1>2

\* Time passing touches no row.
LEMMA ElapseIInv == ASSUME IInv, Elapse PROVE IInv'
<1>1. next' \in [Alert -> Nat \cup {NULL}] /\ since' \in [Alert -> 0..MaxDelay]
  BY NullAssumption, BoundAssumption DEF IInv, TypeOK, Elapse, Advance
<1>2. TypeOK'
  BY <1>1 DEF IInv, TypeOK, Elapse, Advance, engine
<1>3. BatchIsCurrent' /\ WithinLadder' /\ Working'
  BY DEF IInv, Elapse, Advance, BatchIsCurrent, WithinLadder, Working, engine
<1>. QED  BY <1>2, <1>3 DEF IInv

\* Every step keeps the inductive invariant.
LEMMA NextIInv == IInv /\ [Next]_vars => IInv'
<1> SUFFICES ASSUME IInv, [Next]_vars PROVE IInv'
  OBVIOUS
<1>1. CASE Api
  BY <1>1, ApiIInv
<1>2. CASE EngineStep
  BY <1>2, StartTickIInv, SkipEmptyIInv, BeginStepIInv, FinishExhaustedIInv,
     EnqueueIInv, AdvanceStepIInv DEF EngineStep
<1>3. CASE Fault
  BY <1>3, CrashIInv, EnqueueIInv, UpdateFailsIInv DEF Fault
<1>4. CASE Restart \/ Elapse
  BY <1>4, CrashIInv, ElapseIInv
<1>5. CASE UNCHANGED vars
  BY <1>5 DEF vars, row, engine, history, IInv, TypeOK, BatchIsCurrent, WithinLadder, Working
<1>. QED  BY <1>1, <1>2, <1>3, <1>4, <1>5 DEF Next

\* The inductive invariant: types, the batch, the ladder and the working alert.
THEOREM Invariance == Spec => []IInv
<1>. QED  BY InitIInv, NextIInv, PTL DEF Spec

-----------------------------------------------------------------------------
(* How often a step is run.                                                *)

\* Alerts the processor holds or may come back to.
Workable == {a \in Alert : status[a] # "gone" \/ a \in DOMAIN batch}

\* Each run of a position that is not the first one was preceded by a fault; a
\* row that was read is in the table, or was; and the pages in hand are those of
\* the run that was counted.
RunsInv ==
  /\ \A a \in Workable : run[a] <= IF cur = a THEN faults + 1 ELSE faults
  /\ \A a \in DOMAIN batch : status[a] # "absent"
  /\ cur # NULL => /\ todo \subseteq StepAt(cur, Executed(cur, batch[cur])).pages
                   /\ run[cur] > 0

\* The empty database has run nothing.
LEMMA RunsInit == Init => RunsInv
BY NullAssumption, EmptyBatch DEF Init, RunsInv, Workable

\* Steps that start no run keep the account, if an alert that is let go of has
\* been paid for, has been moved, or is gone.
LEMMA RunsKept ==
  ASSUME IInv, RunsInv, NEW a \in Alert,
         \A b \in Alert : status[b] = "gone" => status'[b] = "gone",
         \A b \in DOMAIN batch : status'[b] = status[b],
         DOMAIN batch' \subseteq DOMAIN batch, cur' = NULL,
         faults' \in Nat, faults' >= faults,
         \A b \in Alert \ {a} : run'[b] = run[b] /\ (cur = b <=> cur' = b),
         \/ run'[a] = 0
         \/ run'[a] = run[a] /\ (cur = a <=> cur' = a)
         \/ run'[a] = run[a] /\ faults' = faults + 1
         \/ status'[a] = "gone" /\ a \notin DOMAIN batch'
  PROVE  RunsInv'
<1>1. faults \in Nat /\ faults' \in Nat /\ \A b \in Alert : run[b] \in Nat
  BY DEF IInv, TypeOK
<1>2. ASSUME NEW b \in Alert, (b \in Workable)'
      PROVE  run'[b] <= IF cur' = b THEN faults' + 1 ELSE faults'
  <2>1. b \in Workable
    BY <1>2 DEF Workable
  <2>2. run[b] <= IF cur = b THEN faults + 1 ELSE faults
    BY <2>1 DEF RunsInv
  <2>3. CASE b # a
    BY <1>1, <2>2, <2>3
  <2>4. CASE b = a
    BY <1>1, <1>2, <2>2, <2>4 DEF Workable
  <2>. QED  BY <2>3, <2>4
<1>. QED  BY <1>2 DEF RunsInv, Workable

\* Every step keeps the account of runs.
LEMMA RunsNext == IInv /\ RunsInv /\ [Next]_vars => RunsInv'
<1> SUFFICES ASSUME IInv, RunsInv, [Next]_vars PROVE RunsInv'
  OBVIOUS
<1>1. /\ faults \in Nat /\ run \in [Alert -> Nat] /\ status \in [Alert -> Status]
      /\ NULL \notin Alert /\ cur \in Alert \cup {NULL} /\ DOMAIN batch \subseteq Alert
  BY NullAssumption DEF IInv, TypeOK
<1>2. CASE Api
  <2>1. UNCHANGED <<batch, cur, todo, run, faults>>
    BY <1>2 DEF Api, Create, Acknowledge, Resolve, DeleteService, engine, history
  <2>2. \A b \in Alert : /\ status[b] = "gone" => status'[b] = "gone"
                         /\ status'[b] = "absent" => status[b] = "absent"
    BY <1>1, <1>2 DEF Api, Create, Acknowledge, Resolve, DeleteService
  <2>. QED  BY <1>1, <2>1, <2>2 DEF RunsInv, Workable, StepAt, Executed, Steps
<1>3. CASE StartTick \/ Restart \/ Elapse \/ UNCHANGED vars
  <2>1. UNCHANGED <<status, cur, run, faults>>
    BY <1>3 DEF StartTick, Restart, Elapse, Advance, vars, row, engine, history
  <2>2. \A b \in DOMAIN batch' : b \in DOMAIN batch \/ status[b] = "triggered"
    BY <1>3 DEF StartTick, FindPendingEscalations, Restart, Elapse, Advance, vars, engine
  <2>3. cur = NULL \/ UNCHANGED <<batch, todo>>
    BY <1>3 DEF StartTick, Idle, Restart, Elapse, Advance, vars, engine
  <2>. QED  BY <2>1, <2>2, <2>3 DEF RunsInv, Workable, StepAt, Executed, Steps
<1>4. ASSUME NEW a \in Alert, SkipEmpty(a) \/ FinishExhausted(a) \/ UpdateFails(a) PROVE RunsInv'
  <2>1. /\ a \in DOMAIN batch /\ AlertDone(a) /\ run' = run /\ status' = status
    BY <1>4 DEF SkipEmpty, FinishExhausted, UpdateFails, UpdateEscalationStep, AlertDone, row,
                history
  <2>2. DOMAIN batch' = DOMAIN batch \ {a} /\ cur' = NULL
    BY <2>1, RestrictBatch DEF AlertDone
  <2>3. \/ cur = NULL /\ faults' = faults
        \/ cur \in {a, NULL} /\ faults' = faults + 1
    BY <1>4 DEF SkipEmpty, FinishExhausted, UpdateFails, history
  <2>. QED  BY <1>1, <2>1, <2>2, <2>3, RunsKept
<1>5. ASSUME NEW a \in Alert, BeginStep(a) PROVE RunsInv'
  <2>1. /\ cur = NULL /\ a \in DOMAIN batch /\ cur' = a /\ run' = [run EXCEPT ![a] = run[a] + 1]
        /\ UNCHANGED <<row, batch>>
    BY <1>5, Zenon DEF BeginStep
  <2>2. faults' \in {faults, faults + 1}
    BY <1>5 DEF BeginStep
  <2>3. run[a] <= faults
    BY <1>1, <2>1 DEF RunsInv, Workable
  <2>4. todo' \subseteq StepAt(a, Executed(a, batch[a])).pages
    BY <1>5 DEF BeginStep
  <2>. QED  BY <1>1, <2>1, <2>2, <2>3, <2>4
            DEF RunsInv, Workable, row, StepAt, Executed, Steps
<1>6. ASSUME NEW g \in Page, Enqueue(g) \/ EnqueueFails(g) PROVE RunsInv'
  <2>1. /\ UNCHANGED <<status, batch, cur, run>> /\ faults' \in {faults, faults + 1}
        /\ todo' \subseteq todo
    BY <1>6 DEF Enqueue, EnqueueFails, row, history
  <2>. QED  BY <1>1, <2>1 DEF RunsInv, Workable, StepAt, Executed, Steps
<1>7. CASE AdvanceStep
  <2>1. cur # NULL /\ cur \in Alert /\ AlertDone(cur) /\ status' = status /\ faults' = faults
    BY <1>1, <1>7 DEF AdvanceStep, UpdateEscalationStep
  <2>2. DOMAIN batch' = DOMAIN batch \ {cur} /\ cur' = NULL
    BY <2>1, RestrictBatch DEF AlertDone
  <2>3. run' = IF Exists(cur) THEN [run EXCEPT ![cur] = 0] ELSE run
    BY <1>7 DEF AdvanceStep, Moved
  <2>4. \A b \in Alert \ {cur} : run'[b] = run[b] /\ (cur = b <=> cur' = b)
    BY <1>1, <2>1, <2>2, <2>3
  <2>5. Exists(cur) \/ status[cur] = "gone"
    BY <1>1, <2>1 DEF Exists, Closed, Status, RunsInv, IInv, Working
  <2>. QED  BY <1>1, <2>1, <2>2, <2>3, <2>4, <2>5, RunsKept
<1>8. CASE Crash
  <2>1. UNCHANGED <<status, run>> /\ cur' = NULL /\ batch' = <<>> /\ faults' = faults + 1
    BY <1>8 DEF Crash, row
  <2>. QED  BY <1>1, <2>1 DEF RunsInv, Workable
<1>. QED  BY <1>2, <1>3, <1>4, <1>5, <1>6, <1>7, <1>8 DEF Next, EngineStep, Fault

\* A step is run at most once more than there are faults.
THEOREM RunsAreBounded == Spec => [](\A a \in Alert : cur = a => run[a] <= MaxFaults + 1)
<1>1. IInv /\ RunsInv => \A a \in Alert : cur = a => run[a] <= MaxFaults + 1
  BY BoundAssumption, NullAssumption DEF IInv, TypeOK, RunsInv, Working, Workable
<1>. QED  BY <1>1, Invariance, RunsInit, RunsNext, PTL DEF Spec

\* Type correctness, whatever the policies and the faults.
THEOREM TypeCorrect == Spec => []TypeOK
<1>1. IInv => TypeOK
  BY DEF IInv
<1>. QED  BY <1>1, Invariance, PTL

\* The unversioned UPDATE never overwrites a position it has not read: between
\* the read of a batch and its last update nobody else moves its alerts.
THEOREM BatchIsAlwaysCurrent == Spec => []BatchIsCurrent
<1>1. IInv => BatchIsCurrent
  BY DEF IInv
<1>. QED  BY <1>1, Invariance, PTL

\* Escalation is bounded by the policy for every policy and any run of faults.
THEOREM LadderIsBounded == Spec => []WithinLadder
<1>1. IInv => WithinLadder
  BY DEF IInv
<1>. QED  BY <1>1, Invariance, PTL

-----------------------------------------------------------------------------
(* Ord numbers the positions in the order of execution.                    *)

\* Executing a position, wrapped round or not, is the next number.
LEMMA OrdAfter ==
  ASSUME NEW a \in Alert, NEW p \in Position,
         p.loop <= Repeat(a), p.step <= Len(Steps(a)),
         Steps(a) # <<>>, ~Exhausted(a, p)
  PROVE  /\ Ord(a, p) \in Nat
         /\ Ord(a, Executed(a, p)) = Ord(a, p)
         /\ Ord(a, After(Executed(a, p))) = Ord(a, p) + 1
<1>1. Len(Steps(a)) \in Nat /\ p.loop \in Nat /\ p.step \in Nat
  BY StepsType DEF Position
<1>2. p.loop * Len(Steps(a)) \in Nat
      /\ (p.loop + 1) * Len(Steps(a)) = p.loop * Len(Steps(a)) + Len(Steps(a))
  BY <1>1
<1>3. Ord(a, Executed(a, p)) = Ord(a, p)
  <2>1. CASE p.step < Len(Steps(a))
    BY <2>1 DEF Executed
  <2>2. CASE p.step = Len(Steps(a))
    <3>1. Executed(a, p) = [loop |-> p.loop + 1, step |-> 0]
      BY <2>2, <1>1 DEF Executed
    <3>. QED  BY <3>1, <2>2, <1>1, <1>2 DEF Ord
  <2>. QED  BY <2>1, <2>2, <1>1
<1>4. Ord(a, After(Executed(a, p))) = Ord(a, Executed(a, p)) + 1
  <2> DEFINE q == Executed(a, p)
  <2>1. q.loop \in Nat /\ q.step \in Nat /\ After(q).loop = q.loop /\ After(q).step = q.step + 1
    BY ExecutedOnLadder DEF Position
  <2>2. q.loop * Len(Steps(a)) \in Nat
    BY <2>1, <1>1
  <2> HIDE DEF q
  <2>3. Ord(a, After(q)) = Ord(a, q) + 1
    BY <2>1, <2>2 DEF Ord
  <2>. QED  BY <2>3 DEF q
<1>5. Ord(a, p) \in Nat
  BY <1>1, <1>2 DEF Ord
<1>. QED  BY <1>3, <1>4, <1>5

\* A larger round has larger position numbers, whatever the steps.
LEMMA ProductOrder ==
  ASSUME NEW n \in Nat, NEW x \in Nat, NEW y \in Nat, x < y
  PROVE  x * n + n <= y * n
<1>1. PICK d \in Nat : y = x + 1 + d
  <2>1. y - x - 1 \in Nat /\ y = x + 1 + (y - x - 1)
    OBVIOUS
  <2>. QED  BY <2>1
<1>2. y * n = x * n + n + d * n /\ d * n \in Nat /\ x * n \in Nat
  BY <1>1
<1>. QED  BY <1>2

\* Two positions inside the ladder with the same number are the same.
LEMMA OrdInjective ==
  ASSUME NEW a \in Alert, NEW q \in Position, NEW r \in Position,
         q.step < Len(Steps(a)), r.step < Len(Steps(a)), Ord(a, q) = Ord(a, r)
  PROVE  q.loop = r.loop /\ q.step = r.step
<1> DEFINE n == Len(Steps(a))
           A == q.loop * n
           B == r.loop * n
<1>1. n \in Nat /\ q.loop \in Nat /\ q.step \in Nat /\ r.loop \in Nat /\ r.step \in Nat
  BY StepsType DEF Position
<1>2. A + q.step = B + r.step
  BY DEF Ord
<1>3. q.loop < r.loop => A + n <= B
  BY <1>1, ProductOrder, Zenon
<1>4. r.loop < q.loop => B + n <= A
  BY <1>1, ProductOrder, Zenon
<1>5. q.step < n /\ r.step < n
  OBVIOUS
<1>6. A \in Nat /\ B \in Nat /\ (q.loop = r.loop => A = B)
  BY <1>1
<1> HIDE DEF n, A, B
<1>7. q.loop = r.loop
  BY <1>1, <1>2, <1>3, <1>4, <1>5, <1>6
<1>. QED  BY <1>1, <1>2, <1>6, <1>7

-----------------------------------------------------------------------------
(* Late updates.  A closed alert that the processor still holds is at the  *)
(* position it was closed at; one that it no longer holds may be one       *)
(* further, and cannot be read again because it is not triggered.          *)

LateInv ==
  \A a \in Alert : Closed(a) =>
    \/ pos[a] = closedAt[a]
    \/ a \notin DOMAIN batch /\ Ord(a, pos[a]) = Ord(a, closedAt[a]) + 1

\* A row that stays as it is keeps its part of LateInv when the batch shrinks.
LEMMA LateKept ==
  ASSUME LateInv, UNCHANGED <<status, pos, closedAt>>, DOMAIN batch' \subseteq DOMAIN batch
  PROVE  LateInv'
BY DEF LateInv, Closed, Ord, Steps

\* Closing an alert starts it with no late step on its account.
LEMMA LateApi == ASSUME IInv, LateInv, Api PROVE LateInv'
<1>1. \/ \E a \in Alert : Create(a) \/ Acknowledge(a) \/ Resolve(a)
      \/ \E gone \in SUBSET Alert : DeleteService(gone)
  BY DEF Api
<1>2. status \in [Alert -> Status] /\ closedAt \in [Alert -> Position]
  BY DEF IInv, TypeOK
<1>3. ASSUME NEW a \in Alert, Create(a) PROVE LateInv'
  BY <1>2, <1>3 DEF Create, LateInv, Closed, Ord, Steps, engine, history
<1>4. ASSUME NEW a \in Alert, Acknowledge(a) PROVE LateInv'
  BY <1>2, <1>4 DEF Acknowledge, LateInv, Closed, Ord, Steps, engine
<1>5. ASSUME NEW a \in Alert, Resolve(a) PROVE LateInv'
  BY <1>2, <1>5 DEF Resolve, LateInv, Closed, Ord, Steps, engine
<1>6. ASSUME NEW gone \in SUBSET Alert, DeleteService(gone) PROVE LateInv'
  BY <1>2, <1>6 DEF DeleteService, LateInv, Closed, Ord, Steps, engine, history
<1>. QED  BY <1>1, <1>3, <1>4, <1>5, <1>6

\* An update after the close uses up the one late step allowed.
LEMMA LateAdvance == ASSUME IInv, LateInv, AdvanceStep PROVE LateInv'
<1>1. cur # NULL /\ AlertDone(cur) /\ UNCHANGED <<status, closedAt>>
  BY DEF AdvanceStep, UpdateEscalationStep
<1>2. DOMAIN batch' = DOMAIN batch \ {cur}
  BY <1>1, RestrictBatch DEF AlertDone
<1>3. /\ cur \in Alert /\ cur \in DOMAIN batch /\ batch[cur] = pos[cur]
      /\ pos \in [Alert -> Position]
  BY <1>1, CurOnLadder DEF IInv, TypeOK
<1>4. Ord(cur, After(Executed(cur, pos[cur]))) = Ord(cur, pos[cur]) + 1
  BY <1>1, CurOnLadder, OrdAfter
<1>5. pos' = IF Exists(cur) THEN [pos EXCEPT ![cur] = After(Executed(cur, pos[cur]))] ELSE pos
  BY <1>3 DEF AdvanceStep, UpdateEscalationStep
<1>6. ASSUME NEW a \in Alert, Closed(a)'
      PROVE  \/ pos'[a] = closedAt'[a]
             \/ a \notin DOMAIN batch' /\ Ord(a, pos'[a]) = Ord(a, closedAt'[a]) + 1
  <2>1. Closed(a)
    BY <1>1, <1>6 DEF Closed
  <2>2. CASE a = cur
    <3>1. pos[a] = closedAt[a]
      BY <1>3, <2>1, <2>2 DEF LateInv
    <3>2. pos'[a] = After(Executed(a, pos[a]))
      BY <1>3, <1>5, <2>1, <2>2 DEF Exists
    <3>. QED  BY <1>1, <1>2, <1>4, <2>2, <3>1, <3>2
  <2>3. CASE a # cur
    BY <1>1, <1>2, <1>3, <1>5, <2>1, <2>3 DEF LateInv
  <2>. QED  BY <2>2, <2>3
<1>. QED  BY <1>6, <1>1 DEF LateInv, Ord, Steps

\* Every step keeps the account of late steps.
LEMMA LateNext == IInv /\ LateInv /\ [Next]_vars => LateInv'
<1> SUFFICES ASSUME IInv, LateInv, [Next]_vars PROVE LateInv'
  OBVIOUS
<1>1. CASE Api
  BY <1>1, LateApi
<1>2. CASE EngineStep
  <2>1. CASE StartTick
    BY <2>1 DEF StartTick, Idle, FindPendingEscalations, LateInv, Closed, Ord, Steps, row, history
  <2>2. ASSUME NEW a \in Alert, SkipEmpty(a) PROVE LateInv'
    <3>1. UNCHANGED <<status, pos, closedAt>> /\ AlertDone(a)
      BY <2>2 DEF SkipEmpty, AlertDone, row, history
    <3>. QED  BY <3>1, LateKept, RestrictBatch DEF AlertDone
  <2>3. ASSUME NEW a \in Alert, BeginStep(a) PROVE LateInv'
    <3>1. UNCHANGED <<row, batch, closedAt>>
      BY <2>3, Zenon DEF BeginStep
    <3>. QED  BY <3>1, LateKept DEF row
  <2>4. ASSUME NEW a \in Alert, FinishExhausted(a) PROVE LateInv'
    <3>1. a \in DOMAIN batch /\ batch[a] = pos[a] /\ pos \in [Alert -> Position]
      BY <2>4 DEF FinishExhausted, IInv, BatchIsCurrent, TypeOK
    <3>2. UNCHANGED <<status, pos, closedAt>> /\ AlertDone(a)
      BY <2>4, <3>1 DEF FinishExhausted, UpdateEscalationStep, history
    <3>. QED  BY <3>2, LateKept, RestrictBatch DEF AlertDone
  <2>5. ASSUME NEW g \in Page, Enqueue(g) PROVE LateInv'
    BY <2>5, LateKept DEF Enqueue, row, history
  <2>6. CASE AdvanceStep
    BY <2>6, LateAdvance
  <2>. QED  BY <1>2, <2>1, <2>2, <2>3, <2>4, <2>5, <2>6 DEF EngineStep
<1>3. CASE Fault
  <2>1. CASE Crash
    BY <2>1, LateKept, EmptyBatch DEF Crash, row
  <2>2. ASSUME NEW g \in Page, EnqueueFails(g) PROVE LateInv'
    BY <2>2, LateKept DEF EnqueueFails, row
  <2>3. ASSUME NEW a \in Alert, UpdateFails(a) PROVE LateInv'
    <3>1. UNCHANGED <<status, pos, closedAt>> /\ AlertDone(a)
      BY <2>3 DEF UpdateFails, row
    <3>. QED  BY <3>1, LateKept, RestrictBatch DEF AlertDone
  <2>. QED  BY <1>3, <2>1, <2>2, <2>3 DEF Fault
<1>4. CASE Restart \/ Elapse
  BY <1>4, LateKept DEF Restart, Elapse, Advance, row, engine, history
<1>5. CASE UNCHANGED vars
  BY <1>5, LateKept DEF vars, row, engine, history
<1>. QED  BY <1>1, <1>2, <1>3, <1>4, <1>5 DEF Next

\* No step is late in an empty database.
LEMMA LateInit == Init => LateInv
BY DEF Init, LateInv, Closed

\* After an alert is acknowledged or resolved its position moves by the step
\* the processor was holding, and never again.
THEOREM LateStepIsBounded == Spec => []AtMostOneLateStep
<1>1. LateInv => AtMostOneLateStep
  BY DEF LateInv, AtMostOneLateStep
<1>. QED  BY <1>1, Invariance, LateInit, LateNext, PTL DEF Spec

\* Whoever is paged for a closed alert is on the step the alert was closed at.
THEOREM LatePagesAreOfOneStep == Spec => LatePagesOfOneStep
<1>1. IInv /\ LateInv /\ [Next]_vars => [LatePageOfOneStep]_vars
  <2> SUFFICES ASSUME IInv, LateInv, [Next]_vars, NEW n \in queue' \ queue, Closed(n.alert)
               PROVE  Ord(n.alert, [loop |-> n.loop, step |-> n.step]) = Ord(n.alert, closedAt[n.alert])
    BY DEF LatePageOfOneStep
  <2>1. PICK g \in Page : Enqueue(g)
    BY DEF Next, Api, EngineStep, Fault, Create, Acknowledge, Resolve, DeleteService,
           StartTick, SkipEmpty, BeginStep, FinishExhausted, AdvanceStep, Crash,
           EnqueueFails, UpdateFails, Restart, Elapse, Advance, vars
  <2>2. n = CurEntry(g) /\ cur # NULL
    BY <2>1 DEF Enqueue
  <2>3. /\ cur \in Alert /\ batch[cur] = pos[cur] /\ cur \in DOMAIN batch
        /\ Executed(cur, batch[cur]) \in Position
        /\ Ord(cur, Executed(cur, batch[cur])) = Ord(cur, pos[cur])
    BY <2>2, CurOnLadder, ExecutedOnLadder, OrdAfter
  <2>4. n.alert = cur /\ [loop |-> n.loop, step |-> n.step] = Executed(cur, batch[cur])
    BY <2>2, <2>3 DEF CurEntry, Position
  <2>5. pos[cur] = closedAt[cur]
    BY <2>3, <2>4 DEF LateInv
  <2>. QED  BY <2>3, <2>4, <2>5
<1>. QED  BY <1>1, Invariance, LateInit, LateNext, PTL DEF Spec, LatePagesOfOneStep

-----------------------------------------------------------------------------
(* No step is skipped.  The step being executed has each of its pages      *)
(* either still to enqueue or accounted for, so that when the last one is  *)
(* handed over and the position moves past the step, none is missing.      *)

CurAccounted ==
  cur # NULL =>
    \A g \in StepAt(cur, Executed(cur, batch[cur])).pages :
      \/ g \in todo
      \/ AccountedFor(cur, Executed(cur, batch[cur]).loop, Executed(cur, batch[cur]).step, g)

SkipInv == NoSilentSkip /\ CurAccounted

\* What is accounted for stays accounted for: no action takes rows back.
LEMMA AccountedKept ==
  ASSUME queue \subseteq queue', missed \subseteq missed',
         NEW a, NEW l, NEW s, NEW g, AccountedFor(a, l, s, g)
  PROVE  AccountedFor(a, l, s, g)'
BY DEF AccountedFor

\* A step that keeps the rows and the accounts keeps NoSilentSkip.
LEMMA NoSilentSkipKept ==
  ASSUME NoSilentSkip, pos' = pos, queue \subseteq queue', missed \subseteq missed'
  PROVE  NoSilentSkip'
BY AccountedKept DEF NoSilentSkip, Ord, Steps, Repeat

\* A step that leaves the working alert alone keeps its account.
LEMMA SkipKept ==
  ASSUME SkipInv, pos' = pos, queue \subseteq queue', missed \subseteq missed',
         cur' = NULL \/ UNCHANGED <<cur, batch, todo>>
  PROVE  SkipInv'
<1>1. NoSilentSkip'
  BY NoSilentSkipKept DEF SkipInv
<1>2. CurAccounted'
  <2>1. CASE cur' = NULL
    BY <2>1 DEF CurAccounted
  <2>2. CASE UNCHANGED <<cur, batch, todo>>
    BY <2>2, AccountedKept DEF SkipInv, CurAccounted, Executed, StepAt, Steps
  <2>. QED  BY <2>1, <2>2
<1>. QED  BY <1>1, <1>2 DEF SkipInv

\* Resolving a step starts an account of the pages it owes.
LEMMA SkipBeginStep ==
  ASSUME IInv, SkipInv, NEW a \in Alert, BeginStep(a) PROVE SkipInv'
<1> DEFINE p == Executed(a, batch[a])
<1>1. PICK found \in SUBSET StepAt(a, p).pages :
        /\ missed' = missed \cup MissedEntries(a, p, StepAt(a, p).pages \ found)
        /\ todo' = found
  BY DEF BeginStep
<1>2. cur' = a /\ UNCHANGED <<row, queue, batch>>
  BY Zenon DEF BeginStep
<1>3. NoSilentSkip'
  BY <1>1, <1>2, NoSilentSkipKept DEF SkipInv, row
<1>4. ASSUME NEW g \in StepAt(a, p).pages, g \notin found
      PROVE  AccountedFor(a, p.loop, p.step, g)'
  <2> DEFINE n == [alert |-> a, loop |-> p.loop, step |-> p.step, page |-> g, run |-> run[a] + 1]
  <2>1. n \in missed'
    BY <1>1, <1>4 DEF MissedEntries
  <2>2. \E m \in (queue \cup missed)' :
          m.alert = a /\ m.loop = p.loop /\ m.step = p.step /\ m.page = g
    BY <2>1
  <2>. QED  BY <1>2, <2>2 DEF AccountedFor
<1>5. CurAccounted'
  BY <1>1, <1>2, <1>4 DEF CurAccounted, Executed, StepAt, Steps, AccountedFor
<1>. QED  BY <1>3, <1>5 DEF SkipInv

\* A page handled moves from what is owed to what is accounted for.
LEMMA SkipEnqueue ==
  ASSUME IInv, SkipInv, NEW g \in Page, Enqueue(g) \/ EnqueueFails(g) PROVE SkipInv'
<1> DEFINE p == Executed(cur, batch[cur])
<1>1. /\ pos' = pos /\ cur # NULL /\ UNCHANGED <<cur, batch>> /\ todo' = todo \ {g}
      /\ queue \subseteq queue' /\ missed \subseteq missed'
      /\ CurEntry(g) \in queue' \cup missed'
  BY DEF Enqueue, EnqueueFails, row, history
<1>2. NoSilentSkip'
  BY <1>1, NoSilentSkipKept DEF SkipInv
<1>3. AccountedFor(cur, p.loop, p.step, g)'
  BY <1>1 DEF AccountedFor, CurEntry
<1>4. ASSUME NEW h \in StepAt(cur, p).pages
      PROVE  h \in todo' \/ AccountedFor(cur, p.loop, p.step, h)'
  <2>1. CASE h = g
    BY <1>3, <2>1
  <2>2. CASE h # g
    <3>1. h \in todo \/ AccountedFor(cur, p.loop, p.step, h)
      BY <1>1 DEF SkipInv, CurAccounted
    <3>. QED  BY <1>1, <2>2, <3>1, AccountedKept
  <2>. QED  BY <2>1, <2>2
<1>5. CurAccounted'
  BY <1>1, <1>4 DEF CurAccounted, Executed, StepAt, Steps, AccountedFor
<1>. QED  BY <1>2, <1>5 DEF SkipInv

\* The position moves past the step whose pages have all been handed over:
\* any other position below the new one was below the old one.
LEMMA SkipAdvance == ASSUME IInv, SkipInv, AdvanceStep PROVE SkipInv'
<1> DEFINE p == Executed(cur, batch[cur])
<1>1. cur # NULL /\ cur' = NULL /\ todo = {} /\ UNCHANGED <<queue, missed>>
  BY DEF AdvanceStep, AlertDone
<1>2. /\ cur \in Alert /\ cur \in DOMAIN batch /\ batch[cur] = pos[cur]
      /\ pos \in [Alert -> Position]
      /\ p \in Position /\ p.step + 1 \in 1..Len(Steps(cur)) /\ p.step \in Nat /\ p.loop \in Nat
  BY <1>1, CurOnLadder, ExecutedOnLadder DEF IInv, TypeOK, Position
<1>3. /\ Ord(cur, p) = Ord(cur, pos[cur])
      /\ Ord(cur, After(p)) = Ord(cur, pos[cur]) + 1
      /\ Ord(cur, pos[cur]) \in Nat
  BY <1>1, <1>2, CurOnLadder, OrdAfter
<1>4. pos' = IF Exists(cur) THEN [pos EXCEPT ![cur] = After(p)] ELSE pos
  BY <1>2 DEF AdvanceStep, UpdateEscalationStep
<1>5. ASSUME NEW a \in Alert, NEW i \in DOMAIN Steps(a), NEW l \in 0..Repeat(a),
             Ord(a, [loop |-> l, step |-> i - 1]) < Ord(a, pos'[a]),
             NEW g \in Steps(a)[i].pages
      PROVE  AccountedFor(a, l, i - 1, g)
  <2> DEFINE q == [loop |-> l, step |-> i - 1]
  <2>1. CASE Ord(a, q) < Ord(a, pos[a])
    BY <2>1 DEF SkipInv, NoSilentSkip
  <2>2. CASE ~(Ord(a, q) < Ord(a, pos[a]))
    <3>1. a = cur /\ pos'[a] = After(p)
      BY <1>2, <1>4, <1>5, <2>2
    <3>2. Len(Steps(a)) \in Nat /\ i \in 1..Len(Steps(a)) /\ l \in Nat
      BY StepsType
    <3>3. Ord(a, q) = Ord(a, p)
      <4>1. Ord(a, q) \in Nat
        <5>1. l * Len(Steps(a)) \in Nat
          BY <3>2
        <5>. QED  BY <3>2, <5>1 DEF Ord
      <4>. QED  BY <1>3, <1>5, <2>2, <3>1, <4>1
    <3>4. /\ q \in Position /\ q.loop = l /\ q.step = i - 1 /\ q.step < Len(Steps(a))
          /\ p \in Position /\ p.step < Len(Steps(a))
      BY <1>2, <3>1, <3>2 DEF Position
    <3>5. l = p.loop /\ i - 1 = p.step
      <4> HIDE DEF p, q
      <4>. QED  BY <3>3, <3>4, OrdInjective
    <3>6. g \in StepAt(cur, p).pages
      <4>1. p.step + 1 = i
        BY <1>2, <3>2, <3>5
      <4>. QED  BY <3>1, <4>1 DEF StepAt
    <3>7. AccountedFor(cur, p.loop, p.step, g)
      BY <1>1, <3>6 DEF SkipInv, CurAccounted
    <3>. QED  BY <3>1, <3>5, <3>7
  <2>. QED  BY <2>1, <2>2
<1>6. NoSilentSkip'
  BY <1>5, <1>1, AccountedKept DEF NoSilentSkip, Ord, Steps, Repeat
<1>7. CurAccounted'
  BY <1>1 DEF CurAccounted
<1>. QED  BY <1>6, <1>7 DEF SkipInv

\* Every step keeps the account of pages.
LEMMA SkipNext == IInv /\ SkipInv /\ [Next]_vars => SkipInv'
<1> SUFFICES ASSUME IInv, SkipInv, [Next]_vars PROVE SkipInv'
  OBVIOUS
<1>1. CASE Api
  BY <1>1, SkipKept DEF Api, Create, Acknowledge, Resolve, DeleteService, engine, history
<1>2. CASE EngineStep
  <2>1. CASE StartTick
    BY <2>1, SkipKept DEF StartTick, Idle, row, history
  <2>2. ASSUME NEW a \in Alert, SkipEmpty(a) PROVE SkipInv'
    BY <2>2, SkipKept DEF SkipEmpty, row, history
  <2>3. ASSUME NEW a \in Alert, BeginStep(a) PROVE SkipInv'
    BY <2>3, SkipBeginStep
  <2>4. ASSUME NEW a \in Alert, FinishExhausted(a) PROVE SkipInv'
    <3>1. a \in DOMAIN batch /\ batch[a] = pos[a] /\ pos \in [Alert -> Position]
      BY <2>4 DEF FinishExhausted, IInv, BatchIsCurrent, TypeOK
    <3>2. pos' = pos /\ cur' = NULL /\ UNCHANGED <<queue, missed>>
      BY <2>4, <3>1 DEF FinishExhausted, UpdateEscalationStep, AlertDone, history
    <3>. QED  BY <3>2, SkipKept
  <2>5. ASSUME NEW g \in Page, Enqueue(g) PROVE SkipInv'
    BY <2>5, SkipEnqueue
  <2>6. CASE AdvanceStep
    BY <2>6, SkipAdvance
  <2>. QED  BY <1>2, <2>1, <2>2, <2>3, <2>4, <2>5, <2>6 DEF EngineStep
<1>3. CASE Fault
  <2>1. CASE Crash
    BY <2>1, SkipKept DEF Crash, row
  <2>2. ASSUME NEW g \in Page, EnqueueFails(g) PROVE SkipInv'
    BY <2>2, SkipEnqueue
  <2>3. ASSUME NEW a \in Alert, UpdateFails(a) PROVE SkipInv'
    BY <2>3, SkipKept DEF UpdateFails, AlertDone, row
  <2>. QED  BY <1>3, <2>1, <2>2, <2>3 DEF Fault
<1>4. CASE Restart \/ Elapse
  BY <1>4, SkipKept DEF Restart, Elapse, Advance, row, engine, history
<1>5. CASE UNCHANGED vars
  BY <1>5, SkipKept DEF vars, row, engine, history
<1>. QED  BY <1>1, <1>2, <1>3, <1>4, <1>5 DEF Next

\* An empty database owes no page.
LEMMA SkipInit == Init => SkipInv
<1> SUFFICES ASSUME Init PROVE SkipInv
  OBVIOUS
<1>1. ASSUME NEW a \in Alert, NEW i \in DOMAIN Steps(a), NEW l \in 0..Repeat(a)
      PROVE  ~(Ord(a, [loop |-> l, step |-> i - 1]) < Ord(a, pos[a]))
  <2>1. Len(Steps(a)) \in Nat /\ i \in 1..Len(Steps(a)) /\ l \in Nat
    BY StepsType
  <2>2. l * Len(Steps(a)) \in Nat /\ 0 * Len(Steps(a)) = 0
    BY <2>1
  <2>3. Ord(a, pos[a]) = 0
    <3>1. pos[a].loop = 0 /\ pos[a].step = 0
      BY DEF Init, Start
    <3>. QED  BY <2>1, <2>2, <3>1 DEF Ord
  <2>4. Ord(a, [loop |-> l, step |-> i - 1]) = l * Len(Steps(a)) + (i - 1)
    BY DEF Ord
  <2>. QED  BY <2>1, <2>2, <2>3, <2>4
<1>2. NoSilentSkip
  BY <1>1 DEF NoSilentSkip
<1>3. CurAccounted
  BY DEF Init, CurAccounted
<1>. QED  BY <1>2, <1>3 DEF SkipInv

\* Whatever crashes and errors occur, no position is passed with a page that
\* was neither queued nor recorded as failed.
THEOREM NoStepIsSkipped == Spec => []NoSilentSkip
<1>1. SkipInv => NoSilentSkip
  BY DEF SkipInv
<1>. QED  BY <1>1, Invariance, SkipInit, SkipNext, PTL DEF Spec

-----------------------------------------------------------------------------
(* Repeated runs.                                                          *)

\* The last run of its position an alert has had, or may have without a fault.
LastRun(a) == IF cur = a THEN run[a] ELSE run[a] + 1

RunOf(a, r) ==
  <<a, Executed(a, pos[a]).loop, Executed(a, pos[a]).step, r>>

QueuedRepeats == {<<n.alert, n.loop, n.step, n.run>> : n \in {m \in queue : m.run > 1}}
OwedRepeats   == UNION {{RunOf(a, r) : r \in 2..LastRun(a)} : a \in Workable}
Repeats       == QueuedRepeats \cup OwedRepeats

\* Repeated runs, those included that may come without another fault, are paid for.
RepeatsInv == IsFiniteSet(Repeats) /\ Cardinality(Repeats) <= faults

\* A step may add one repeated run if it counts a fault, and none otherwise.
LEMMA RepeatsKept ==
  ASSUME IInv, RepeatsInv, faults' \in Nat,
         \/ Repeats' \subseteq Repeats /\ faults' >= faults
         \/ faults' = faults + 1 /\ \E k : Repeats' \subseteq Repeats \cup {k}
  PROVE  RepeatsInv'
<1>1. faults \in Nat /\ IsFiniteSet(Repeats) /\ Cardinality(Repeats) \in Nat
  BY FS_CardinalityType DEF IInv, TypeOK, RepeatsInv
<1>2. CASE Repeats' \subseteq Repeats /\ faults' >= faults
  <2>1. IsFiniteSet(Repeats') /\ Cardinality(Repeats') <= Cardinality(Repeats)
    BY <1>1, <1>2, FS_Subset
  <2>2. Cardinality(Repeats') \in Nat
    BY <2>1, FS_CardinalityType
  <2>3. Cardinality(Repeats) <= faults
    BY DEF RepeatsInv
  <2>4. Cardinality(Repeats') <= faults'
    BY <1>1, <1>2, <2>1, <2>2, <2>3
  <2>. QED  BY <2>1, <2>4 DEF RepeatsInv
<1>3. ASSUME NEW k, faults' = faults + 1, Repeats' \subseteq Repeats \cup {k} PROVE RepeatsInv'
  <2>1. /\ IsFiniteSet(Repeats \cup {k})
        /\ Cardinality(Repeats \cup {k}) \in {Cardinality(Repeats), Cardinality(Repeats) + 1}
    BY <1>1, FS_AddElement
  <2>2. /\ IsFiniteSet(Repeats')
        /\ Cardinality(Repeats') <= Cardinality(Repeats \cup {k})
    BY <1>3, <2>1, FS_Subset
  <2>3. Cardinality(Repeats') \in Nat
    BY <2>2, FS_CardinalityType
  <2>4. Cardinality(Repeats) <= faults
    BY DEF RepeatsInv
  <2>5. Cardinality(Repeats') <= faults'
    BY <1>1, <1>3, <2>1, <2>2, <2>3, <2>4
  <2>. QED  BY <2>2, <2>5 DEF RepeatsInv
<1>. QED  BY <1>2, <1>3

\* Which repeats a step may add, said alert by alert.
LEMMA RepeatsFrom ==
  ASSUME NEW k, QueuedRepeats' \subseteq Repeats, Workable' \subseteq Workable,
         \A a \in Workable' :
           \/ \A r \in 2..LastRun(a)' : FALSE
           \/ /\ \A r : RunOf(a, r)' = RunOf(a, r)
              /\ \A r \in 2..LastRun(a)' : r \in 2..LastRun(a) \/ k = RunOf(a, r)
  PROVE  Repeats' \subseteq Repeats \cup {k}
<1> SUFFICES ASSUME NEW x \in OwedRepeats' PROVE x \in Repeats \cup {k}
  BY DEF Repeats
<1>1. PICK a \in Workable' : x \in {RunOf(a, r)' : r \in 2..LastRun(a)'}
  BY DEF OwedRepeats
<1>2. PICK r \in 2..LastRun(a)' : x = RunOf(a, r)'
  BY <1>1
<1>3. x = RunOf(a, r) /\ (r \in 2..LastRun(a) \/ x = k)
  BY <1>2
<1>4. r \in 2..LastRun(a) => x \in OwedRepeats
  BY <1>1, <1>3 DEF OwedRepeats
<1>. QED  BY <1>3, <1>4 DEF Repeats

\* A step that queues nothing: alerts stay at their run, or begin anew, and at
\* most one of them is given another run by the fault the step counts.
LEMMA RepeatsQuiet ==
  ASSUME IInv, RepeatsInv, NEW b, queue' = queue, Workable' \subseteq Workable,
         run' \in [Alert -> Nat], faults' \in Nat, faults' >= faults,
         \A a \in Workable' :
           \/ run'[a] = 0 /\ cur' # a
           \/ /\ pos'[a] = pos[a]
              /\ \/ LastRun(a)' <= LastRun(a)
                 \/ a = b /\ LastRun(a)' = LastRun(a) + 1 /\ faults' = faults + 1
  PROVE  RepeatsInv'
<1> DEFINE k == RunOf(b, LastRun(b) + 1)
<1>1. QueuedRepeats' = QueuedRepeats
  BY DEF QueuedRepeats
<1>2. ASSUME NEW a \in Workable'
      PROVE  /\ LastRun(a)' \in Nat /\ LastRun(a) \in Nat
             /\ run'[a] = 0 /\ cur' # a => LastRun(a)' = 1
             /\ pos'[a] = pos[a] => \A r : RunOf(a, r)' = RunOf(a, r)
  <2>1. a \in Alert /\ run'[a] \in Nat /\ run[a] \in Nat
    BY DEF Workable, IInv, TypeOK
  <2>2. pos'[a] = pos[a] => \A r : RunOf(a, r)' = RunOf(a, r)
    BY DEF RunOf, Executed, Steps
  <2>. QED  BY <2>1, <2>2 DEF LastRun
<1>3. CASE \A a \in Workable' : (run'[a] = 0 /\ cur' # a)
                                \/ (pos'[a] = pos[a] /\ LastRun(a)' <= LastRun(a))
  <2>1. ASSUME NEW x PROVE Repeats' \subseteq Repeats \cup {x}
    <3>1. ASSUME NEW a \in Workable'
          PROVE  \/ \A r \in 2..LastRun(a)' : FALSE
                 \/ /\ \A r : RunOf(a, r)' = RunOf(a, r)
                    /\ \A r \in 2..LastRun(a)' : r \in 2..LastRun(a) \/ x = RunOf(a, r)
      BY <1>2, <1>3
    <3>. QED  BY <1>1, <3>1, RepeatsFrom DEF Repeats
  <2>2. Repeats' \subseteq Repeats
    <3>1. Repeats' \subseteq Repeats \cup {0} /\ Repeats' \subseteq Repeats \cup {1}
      BY <2>1
    <3>. QED  BY <3>1
  <2>. QED  BY <2>2, RepeatsKept
<1>4. CASE faults' = faults + 1
  <2>1. ASSUME NEW a \in Workable'
        PROVE  \/ \A r \in 2..LastRun(a)' : FALSE
               \/ /\ \A r : RunOf(a, r)' = RunOf(a, r)
                  /\ \A r \in 2..LastRun(a)' : r \in 2..LastRun(a) \/ k = RunOf(a, r)
    <3>1. CASE run'[a] = 0 /\ cur' # a
      BY <1>2, <3>1
    <3>2. CASE pos'[a] = pos[a] /\ LastRun(a)' <= LastRun(a)
      BY <1>2, <3>2
    <3>3. CASE pos'[a] = pos[a] /\ a = b /\ LastRun(a)' = LastRun(a) + 1
      <4>1. ASSUME NEW r \in 2..LastRun(a)', r \notin 2..LastRun(a) PROVE r = LastRun(a) + 1
        BY <1>2, <3>3, <4>1
      <4>. QED  BY <1>2, <3>3, <4>1
    <3>. QED  BY <3>1, <3>2, <3>3
  <2>2. Repeats' \subseteq Repeats \cup {k}
    BY <1>1, <2>1, RepeatsFrom DEF Repeats
  <2>. QED  BY <1>4, <2>2, RepeatsKept
<1>. QED  BY <1>3, <1>4

\* A page that is queued belongs to the run that was counted.
LEMMA RepeatsEnqueue ==
  ASSUME IInv, RepeatsInv, RunsInv, NEW g \in Page, Enqueue(g) PROVE RepeatsInv'
<1>1. /\ cur # NULL /\ queue' = queue \cup {CurEntry(g)}
      /\ UNCHANGED <<status, pos, batch, cur, run, faults>>
  BY DEF Enqueue, row, history
<1>2. cur \in Workable /\ batch[cur] = pos[cur] /\ run[cur] \in Nat /\ run' \in [Alert -> Nat]
  BY <1>1, CurOnLadder DEF Workable, IInv, TypeOK
<1>3. ASSUME NEW n \in queue', n.run > 1
      PROVE  <<n.alert, n.loop, n.step, n.run>> \in Repeats
  <2>1. CASE n \in queue
    BY <1>3, <2>1 DEF Repeats, QueuedRepeats
  <2>2. CASE n = CurEntry(g)
    <3>1. <<n.alert, n.loop, n.step, n.run>> = RunOf(cur, run[cur]) /\ n.run = run[cur]
      BY <1>2, <2>2 DEF CurEntry, RunOf
    <3>2. run[cur] \in 2..LastRun(cur)
      BY <1>2, <1>3, <3>1 DEF LastRun
    <3>. QED  BY <1>2, <3>1, <3>2 DEF Repeats, OwedRepeats
  <2>. QED  BY <1>1, <2>1, <2>2
<1>4. OwedRepeats' = OwedRepeats
  BY <1>1 DEF OwedRepeats, Workable, LastRun, RunOf, Executed, Steps
<1>5. QueuedRepeats' \subseteq Repeats
  BY <1>3 DEF QueuedRepeats
<1>6. Repeats' \subseteq Repeats /\ faults' \in Nat /\ faults' >= faults
  BY <1>1, <1>4, <1>5 DEF Repeats, IInv, TypeOK
<1>. QED  BY <1>6, RepeatsKept

\* Every step keeps the account of repeated runs.
LEMMA RepeatsNext == IInv /\ IInv' /\ RunsInv /\ RepeatsInv /\ [Next]_vars => RepeatsInv'
<1> SUFFICES ASSUME IInv, IInv', RunsInv, RepeatsInv, [Next]_vars PROVE RepeatsInv'
  OBVIOUS
<1>1. /\ faults \in Nat /\ faults' \in Nat /\ run \in [Alert -> Nat] /\ run' \in [Alert -> Nat]
      /\ NULL \notin Alert /\ cur \in Alert \cup {NULL} /\ DOMAIN batch \subseteq Alert
      /\ status \in [Alert -> Status] /\ pos \in [Alert -> Position]
  BY NullAssumption DEF IInv, TypeOK
<1>2. ASSUME NEW a \in Alert PROVE run[a] \in Nat /\ LastRun(a) \in Nat
  BY <1>1 DEF LastRun
<1>3. CASE Api
  <2>1. UNCHANGED <<queue, pos, batch, cur, run, faults>>
    BY <1>3 DEF Api, Create, Acknowledge, Resolve, DeleteService, engine, history
  <2>2. Workable' \subseteq Workable
    BY <1>1, <1>3, <2>1 DEF Workable, Api, Create, Acknowledge, Resolve, DeleteService
  <2>3. \A a \in Workable' : LastRun(a)' <= LastRun(a)
    BY <1>2, <2>1 DEF LastRun, Workable
  <2>. QED  BY <1>1, <2>1, <2>2, <2>3, RepeatsQuiet
<1>4. CASE StartTick \/ Restart \/ Elapse \/ UNCHANGED vars
  <2>1. UNCHANGED <<queue, status, pos, cur, run, faults>>
    BY <1>4 DEF StartTick, Restart, Elapse, Advance, vars, row, engine, history
  <2>2. \A a \in DOMAIN batch' : a \in DOMAIN batch \/ status[a] = "triggered"
    BY <1>4 DEF StartTick, FindPendingEscalations, Restart, Elapse, Advance, vars, engine
  <2>3. Workable' \subseteq Workable
    BY <2>1, <2>2 DEF Workable
  <2>4. \A a \in Workable' : LastRun(a)' <= LastRun(a)
    BY <1>2, <2>1 DEF LastRun, Workable
  <2>. QED  BY <1>1, <2>1, <2>3, <2>4, RepeatsQuiet
<1>5. ASSUME NEW a \in Alert, SkipEmpty(a) \/ FinishExhausted(a) \/ UpdateFails(a) PROVE RepeatsInv'
  <2>1. /\ a \in DOMAIN batch /\ AlertDone(a) /\ run' = run /\ status' = status /\ queue' = queue
        /\ batch[a] = pos[a]
    BY <1>5 DEF SkipEmpty, FinishExhausted, UpdateFails, UpdateEscalationStep, AlertDone, row,
                history, IInv, BatchIsCurrent
  <2>2. pos' = pos
    BY <1>1, <1>5, <2>1 DEF SkipEmpty, FinishExhausted, UpdateFails, UpdateEscalationStep, row
  <2>3. DOMAIN batch' = DOMAIN batch \ {a} /\ cur' = NULL
    BY <2>1, RestrictBatch DEF AlertDone
  <2>4. Workable' \subseteq Workable
    BY <2>1, <2>3 DEF Workable
  <2>5. \/ cur = NULL /\ faults' = faults
        \/ cur \in {a, NULL} /\ faults' = faults + 1
    BY <1>5 DEF SkipEmpty, FinishExhausted, UpdateFails, history
  <2>6. \A b \in Workable' :
          \/ LastRun(b)' <= LastRun(b)
          \/ b = a /\ LastRun(b)' = LastRun(b) + 1 /\ faults' = faults + 1
    BY <1>1, <1>2, <2>1, <2>3, <2>5 DEF LastRun, Workable
  <2>. QED  BY <1>1, <2>1, <2>2, <2>4, <2>5, <2>6, RepeatsQuiet
<1>6. ASSUME NEW a \in Alert, BeginStep(a) PROVE RepeatsInv'
  <2>1. /\ cur = NULL /\ cur' = a /\ run' = [run EXCEPT ![a] = run[a] + 1]
        /\ UNCHANGED <<row, queue, batch>>
    BY <1>6, Zenon DEF BeginStep
  <2>2. faults' \in {faults, faults + 1}
    BY <1>6 DEF BeginStep
  <2>3. Workable' \subseteq Workable
    BY <2>1 DEF Workable, row
  <2>4. \A b \in Workable' : LastRun(b)' <= LastRun(b)
    BY <1>1, <1>2, <2>1 DEF LastRun, Workable
  <2>. QED  BY <1>1, <2>1, <2>2, <2>3, <2>4, RepeatsQuiet DEF row
<1>7. ASSUME NEW g \in Page, EnqueueFails(g) PROVE RepeatsInv'
  <2>1. UNCHANGED <<queue, status, pos, batch, cur, run>> /\ faults' = faults + 1
    BY <1>7 DEF EnqueueFails, row
  <2>2. Workable' \subseteq Workable
    BY <2>1 DEF Workable
  <2>3. \A a \in Workable' : LastRun(a)' <= LastRun(a)
    BY <1>2, <2>1 DEF LastRun, Workable
  <2>. QED  BY <1>1, <2>1, <2>2, <2>3, RepeatsQuiet
<1>8. CASE AdvanceStep
  <2>1. /\ cur # NULL /\ cur \in Alert /\ AlertDone(cur) /\ status' = status /\ faults' = faults
        /\ queue' = queue
    BY <1>1, <1>8 DEF AdvanceStep, UpdateEscalationStep
  <2>2. DOMAIN batch' = DOMAIN batch \ {cur} /\ cur' = NULL
    BY <2>1, RestrictBatch DEF AlertDone
  <2>3. /\ run' = IF Exists(cur) THEN [run EXCEPT ![cur] = 0] ELSE run
        /\ \A b \in Alert \ {cur} : pos'[b] = pos[b]
    BY <1>1, <1>8 DEF AdvanceStep, Moved, UpdateEscalationStep
  <2>4. Exists(cur) \/ status[cur] = "gone"
    BY <1>1, <2>1 DEF Exists, Closed, Status, RunsInv, IInv, Working
  <2>5. Workable' \subseteq Workable
    BY <2>1, <2>2 DEF Workable
  <2>6. \A b \in Workable' : \/ run'[b] = 0 /\ cur' # b
                             \/ pos'[b] = pos[b] /\ LastRun(b)' <= LastRun(b)
    <3>1. ASSUME NEW b \in Workable', b # cur
          PROVE  pos'[b] = pos[b] /\ LastRun(b)' <= LastRun(b)
      BY <1>1, <1>2, <2>1, <2>2, <2>3, <3>1 DEF LastRun, Workable
    <3>2. cur \in Workable' => run'[cur] = 0 /\ cur' # cur
      BY <1>1, <2>1, <2>2, <2>3, <2>4 DEF Workable
    <3>. QED  BY <3>1, <3>2
  <2>. QED  BY <1>1, <2>1, <2>5, <2>6, RepeatsQuiet
<1>9. CASE Crash
  <2>1. UNCHANGED <<queue, status, pos, run>> /\ cur' = NULL /\ batch' = <<>> /\ faults' = faults + 1
    BY <1>9 DEF Crash, row
  <2>2. Workable' \subseteq Workable
    BY <2>1, EmptyBatch DEF Workable
  <2>3. \A b \in Workable' :
          /\ pos'[b] = pos[b]
          /\ \/ LastRun(b)' <= LastRun(b)
             \/ b = cur /\ LastRun(b)' = LastRun(b) + 1 /\ faults' = faults + 1
    BY <1>1, <1>2, <2>1 DEF LastRun, Workable
  <2>4. faults' >= faults
    BY <1>1, <2>1
  <2>. QED  BY <1>1, <2>1, <2>2, <2>3, <2>4, RepeatsQuiet
<1>. QED  BY <1>3, <1>4, <1>5, <1>6, <1>7, <1>8, <1>9, RepeatsEnqueue DEF Next, EngineStep, Fault

\* Nothing is repeated in an empty database.
LEMMA RepeatsInit == Init => RepeatsInv
<1> SUFFICES ASSUME Init PROVE RepeatsInv
  OBVIOUS
<1>1. QueuedRepeats = {}
  BY DEF Init, QueuedRepeats
<1>2. \A a \in Alert : LastRun(a) = 1
  BY NullAssumption DEF Init, LastRun
<1>3. OwedRepeats = {}
  BY <1>2 DEF OwedRepeats, Workable
<1>. QED  BY <1>1, <1>3, FS_EmptySet DEF Init, RepeatsInv, Repeats

\* Each repeated run that paged anybody is paid for by a crash or a failed
\* update of its own, for any number of alerts that share the processor.
THEOREM RepeatsAlwaysPaidFor == Spec => []RepeatsArePaidFor
<1>1. IInv /\ RepeatsInv => RepeatsArePaidFor
  <2> SUFFICES ASSUME IInv, RepeatsInv PROVE RepeatsArePaidFor
    OBVIOUS
  <2>1. QueuedRepeats \in SUBSET Repeats
    BY DEF Repeats
  <2>2. /\ Cardinality(QueuedRepeats) <= Cardinality(Repeats)
        /\ IsFiniteSet(QueuedRepeats)
    BY <2>1, FS_Subset DEF RepeatsInv
  <2>3. Cardinality(QueuedRepeats) \in Nat /\ Cardinality(Repeats) \in Nat /\ faults \in Nat
    BY <2>2, FS_CardinalityType DEF RepeatsInv, IInv, TypeOK
  <2>. QED  BY <2>2, <2>3 DEF RepeatsInv, RepeatsArePaidFor, QueuedRepeats
<1>. QED  BY <1>1, Invariance, RunsInit, RunsNext, RepeatsInit, RepeatsNext, PTL DEF Spec

-----------------------------------------------------------------------------
(* Delays.  The time since a position was written and the time its timer    *)
(* still has to run make up the delay of its step; once the row was read as  *)
(* due, the delay has passed.                                                *)

\* The delay of the step an alert has executed last.
Delay(a) == Steps(a)[pos[a].step].delay

DelayInv ==
  \A a \in Alert :
    /\ pos[a].step = 0 => pos[a].loop = 0
    /\ status[a] = "absent" => pos[a] = Start
    /\ pos[a].step > 0 =>
         /\ Exists(a) /\ next[a] # NULL => since[a] + next[a] >= Delay(a)
         /\ a \in DOMAIN batch => since[a] >= Delay(a)

\* A step that was executed is on the policy, and waits no longer than MaxDelay.
LEMMA DelayType ==
  ASSUME IInv, NEW a \in Alert, pos[a].step > 0
  PROVE  Delay(a) \in Nat /\ Delay(a) <= MaxDelay
<1>1. pos[a].step \in 1..Len(Steps(a)) /\ Steps(a) \in Seq(Step)
  BY StepsType DEF IInv, TypeOK, WithinLadder, Position
<1>2. pos[a].step \in DOMAIN Snapshot[a].steps
  BY <1>1 DEF Steps
<1>3. Steps(a)[pos[a].step].delay <= MaxDelay
  BY <1>2, BoundAssumption DEF Steps
<1>4. Steps(a)[pos[a].step] \in Step
  BY <1>1
<1>. QED  BY <1>3, <1>4 DEF Delay, Step

\* Steps that move no alert and start no timer keep the account of delays.
LEMMA DelayKept ==
  ASSUME DelayInv, UNCHANGED <<pos, since>>, DOMAIN batch' \subseteq DOMAIN batch,
         \A a \in Alert : status'[a] = "absent" => status[a] = "absent",
         \A a \in Alert : pos[a].step > 0 /\ Exists(a)' /\ next'[a] # NULL =>
                            Exists(a) /\ next'[a] = next[a]
  PROVE  DelayInv'
BY DEF DelayInv, Delay, Steps

\* A request starts no timer of an alert that has executed a step.
LEMMA DelayApi == ASSUME IInv, DelayInv, Api PROVE DelayInv'
<1>1. \/ \E a \in Alert : Create(a) \/ Acknowledge(a) \/ Resolve(a)
      \/ \E gone \in SUBSET Alert : DeleteService(gone)
  BY DEF Api
<1>2. status \in [Alert -> Status] /\ next \in [Alert -> Nat \cup {NULL}]
  BY DEF IInv, TypeOK
<1>3. UNCHANGED <<pos, since, batch>>
  BY <1>1 DEF Create, Acknowledge, Resolve, DeleteService, engine, history
<1>4. \A a \in Alert : status'[a] = "absent" => status[a] = "absent"
  BY <1>1, <1>2 DEF Create, Acknowledge, Resolve, DeleteService
<1>5. ASSUME NEW b \in Alert, pos[b].step > 0, Exists(b)', next'[b] # NULL
      PROVE  Exists(b) /\ next'[b] = next[b]
  <2>1. ASSUME NEW a \in Alert, Create(a) PROVE Exists(b) /\ next'[b] = next[b]
    <3>1. pos[a].step = 0
      BY <2>1 DEF Create, DelayInv, Start
    <3>. QED  BY <1>2, <1>5, <2>1, <3>1 DEF Create, Exists, Closed
  <2>2. ASSUME NEW a \in Alert, Acknowledge(a) PROVE Exists(b) /\ next'[b] = next[b]
    BY <1>2, <1>5, <2>2 DEF Acknowledge, Exists, Closed
  <2>3. ASSUME NEW a \in Alert, Resolve(a) PROVE Exists(b) /\ next'[b] = next[b]
    BY <1>2, <1>5, <2>3 DEF Resolve, Exists, Closed
  <2>4. ASSUME NEW gone \in SUBSET Alert, DeleteService(gone)
        PROVE  Exists(b) /\ next'[b] = next[b]
    BY <1>2, <1>5, <2>4 DEF DeleteService, Exists, Closed
  <2>. QED  BY <1>1, <2>1, <2>2, <2>3, <2>4
<1>. QED  BY <1>3, <1>4, <1>5, DelayKept

\* Only alerts whose timer has run out are read.
LEMMA DelayStartTick == ASSUME IInv, DelayInv, StartTick PROVE DelayInv'
<1>1. UNCHANGED <<status, pos, next, since>> /\ DOMAIN batch' = FindPendingEscalations
  BY DEF StartTick, row, history
<1>2. ASSUME NEW a \in FindPendingEscalations, pos[a].step > 0 PROVE since[a] >= Delay(a)
  <2>1. /\ a \in Alert /\ since[a] \in Nat
        /\ Exists(a) /\ next[a] # NULL /\ next[a] = 0
    BY NullAssumption DEF FindPendingEscalations, Exists, IInv, TypeOK
  <2>. QED  BY <1>2, <2>1 DEF DelayInv
<1>. QED  BY <1>1, <1>2 DEF DelayInv, Delay, Steps, Exists, Closed

\* The update of a step starts its delay.
LEMMA DelayAdvance == ASSUME IInv, DelayInv, AdvanceStep PROVE DelayInv'
<1> DEFINE p == Executed(cur, batch[cur])
<1>1. /\ cur \in Alert /\ AlertDone(cur) /\ status' = status
      /\ pos \in [Alert -> Position] /\ next \in [Alert -> Nat \cup {NULL}]
      /\ since \in [Alert -> 0..MaxDelay]
  BY CurOnLadder DEF AdvanceStep, UpdateEscalationStep, IInv, TypeOK
<1>2. DOMAIN batch' = DOMAIN batch \ {cur}
  BY <1>1, RestrictBatch DEF AlertDone
<1>3. ASSUME Exists(cur)
      PROVE  /\ pos' = [pos EXCEPT ![cur] = After(p)]
             /\ next' = [next EXCEPT ![cur] = StepAt(cur, p).delay]
             /\ since' = [since EXCEPT ![cur] = 0]
  BY <1>3 DEF AdvanceStep, UpdateEscalationStep, Moved
<1>4. ~Exists(cur) => UNCHANGED <<pos, next, since>>
  BY DEF AdvanceStep, UpdateEscalationStep, Moved
<1>5. /\ After(p) \in Position /\ After(p).step = p.step + 1 /\ After(p).step > 0
      /\ StepAt(cur, p) \in Step
  BY CurOnLadder, ExecutedOnLadder DEF AdvanceStep, Position
<1>6. CASE ~Exists(cur)
  <2>1. DOMAIN batch' \subseteq DOMAIN batch
    BY <1>2
  <2>2. \A a \in Alert : Exists(a)' => Exists(a)
    BY <1>1 DEF Exists, Closed
  <2>. QED  BY <1>1, <1>4, <1>6, <2>1, <2>2, DelayKept
<1>7. CASE Exists(cur)
  <2>1. ASSUME NEW a \in Alert, a # cur
        PROVE  /\ pos'[a] = pos[a] /\ next'[a] = next[a] /\ since'[a] = since[a]
               /\ a \in DOMAIN batch' => a \in DOMAIN batch
               /\ status'[a] = status[a] /\ (Exists(a)' <=> Exists(a))
               /\ Delay(a)' = Delay(a)
    BY <1>1, <1>2, <1>3, <1>7, <2>1 DEF Exists, Closed, Delay, Steps
  <2>2. pos'[cur] = After(p) /\ next'[cur] = StepAt(cur, p).delay /\ since'[cur] = 0
    BY <1>1, <1>3, <1>7
  <2>3. Steps(cur)[pos'[cur].step].delay = next'[cur] /\ next'[cur] \in Nat
    BY <1>5, <2>2 DEF StepAt, Step
  <2>4. status'[cur] # "absent" /\ cur \notin DOMAIN batch'
    BY <1>1, <1>2, <1>7 DEF Exists, Closed
  <2>5. ASSUME NEW a \in Alert, a # cur
        PROVE  /\ pos'[a].step = 0 => pos'[a].loop = 0
               /\ status'[a] = "absent" => pos'[a] = Start
               /\ pos'[a].step > 0 =>
                    /\ Exists(a)' /\ next'[a] # NULL => since'[a] + next'[a] >= Delay(a)'
                    /\ a \in DOMAIN batch' => since'[a] >= Delay(a)'
    BY <2>1, <2>5 DEF DelayInv
  <2>6. pos'[cur].step > 0 /\ since'[cur] + next'[cur] >= Steps(cur)[pos'[cur].step].delay
    BY <1>5, <2>2, <2>3
  <2>7. pos'[cur].step # 0
    BY <1>5, <2>2
  <2>8. ASSUME NEW a \in Alert, a = cur
        PROVE  /\ pos'[a].step # 0 /\ status'[a] # "absent" /\ a \notin DOMAIN batch'
               /\ since'[a] + next'[a] >= Delay(a)'
    <3>1. Delay(a)' = Steps(a)[pos'[a].step].delay
      BY DEF Delay, Steps
    <3>. QED  BY <2>4, <2>6, <2>7, <2>8, <3>1
  <2>9. ASSUME NEW a \in Alert
        PROVE  /\ pos'[a].step = 0 => pos'[a].loop = 0
               /\ status'[a] = "absent" => pos'[a] = Start
               /\ pos'[a].step > 0 =>
                    /\ Exists(a)' /\ next'[a] # NULL => since'[a] + next'[a] >= Delay(a)'
                    /\ a \in DOMAIN batch' => since'[a] >= Delay(a)'
    BY <2>5, <2>8
  <2>. QED  BY <2>9 DEF DelayInv
<1>. QED  BY <1>6, <1>7

\* What the timer loses the time since the last step gains.
LEMMA DelayElapse == ASSUME IInv, DelayInv, Elapse PROVE DelayInv'
<1>1. UNCHANGED <<status, pos, batch>> /\ Advance
  BY DEF Elapse, Advance, engine
<1>2. /\ next \in [Alert -> Nat \cup {NULL}] /\ since \in [Alert -> 0..MaxDelay]
      /\ MaxDelay \in Nat /\ NULL \notin Nat
  BY NullAssumption, BoundAssumption DEF IInv, TypeOK
<1>3. ASSUME NEW a \in Alert, pos[a].step > 0
      PROVE  /\ Exists(a)' /\ next'[a] # NULL => since'[a] + next'[a] >= Delay(a)'
             /\ a \in DOMAIN batch' => since'[a] >= Delay(a)'
  <2>1. Delay(a)' = Delay(a) /\ Delay(a) \in Nat /\ Delay(a) <= MaxDelay
    BY <1>1, <1>3, DelayType DEF Delay, Steps
  <2>2. /\ next'[a] = IF next[a] # NULL /\ next[a] > 0 THEN next[a] - 1 ELSE next[a]
        /\ since'[a] = IF Exists(a) /\ since[a] < MaxDelay THEN since[a] + 1 ELSE since[a]
    BY <1>1 DEF Advance
  <2>3. /\ next[a] \in Nat \cup {NULL} /\ since[a] \in 0..MaxDelay
        /\ Exists(a)' <=> Exists(a)
    BY <1>1, <1>2 DEF Exists, Closed
  <2>4. /\ Exists(a) /\ next[a] # NULL => since[a] + next[a] >= Delay(a)
        /\ a \in DOMAIN batch => since[a] >= Delay(a)
    BY <1>3 DEF DelayInv
  <2>5. Exists(a) /\ next'[a] # NULL => since'[a] + next'[a] >= Delay(a)
    BY <1>2, <2>1, <2>2, <2>3, <2>4
  <2>6. a \in DOMAIN batch => since'[a] >= Delay(a)
    BY <1>2, <2>1, <2>2, <2>3, <2>4
  <2>. QED  BY <1>1, <2>1, <2>3, <2>5, <2>6
<1>. QED  BY <1>1, <1>3 DEF DelayInv

\* Every step keeps the account of delays.
LEMMA DelayNext == IInv /\ DelayInv /\ [Next]_vars => DelayInv'
<1> SUFFICES ASSUME IInv, DelayInv, [Next]_vars PROVE DelayInv'
  OBVIOUS
<1>1. ASSUME NEW a \in Alert, SkipEmpty(a) \/ UpdateFails(a) PROVE DelayInv'
  <2>1. UNCHANGED <<status, pos, next, since>> /\ AlertDone(a)
    BY <1>1 DEF SkipEmpty, UpdateFails, AlertDone, row, history
  <2>2. DOMAIN batch' \subseteq DOMAIN batch
    BY <2>1, RestrictBatch DEF AlertDone
  <2>. QED  BY <2>1, <2>2, DelayKept DEF Exists, Closed
<1>2. ASSUME NEW a \in Alert, FinishExhausted(a) PROVE DelayInv'
  <2>1. a \in DOMAIN batch /\ batch[a] = pos[a] /\ pos \in [Alert -> Position]
    BY <1>2 DEF FinishExhausted, IInv, BatchIsCurrent, TypeOK
  <2>2. UNCHANGED <<status, pos, since>> /\ AlertDone(a)
    BY <1>2, <2>1 DEF FinishExhausted, UpdateEscalationStep, history
  <2>3. next' = IF Exists(a) THEN [next EXCEPT ![a] = NULL] ELSE next
    BY <1>2 DEF FinishExhausted, UpdateEscalationStep
  <2>4. \A b \in Alert : next'[b] # NULL => next'[b] = next[b]
    BY <2>3 DEF IInv, TypeOK
  <2>5. DOMAIN batch' \subseteq DOMAIN batch
    BY <2>2, RestrictBatch DEF AlertDone
  <2>. QED  BY <2>2, <2>4, <2>5, DelayKept DEF Exists, Closed
<1>3. ASSUME NEW a \in Alert, BeginStep(a) PROVE DelayInv'
  <2>1. UNCHANGED <<row, batch, since>>
    BY <1>3, Zenon DEF BeginStep
  <2>. QED  BY <2>1, DelayKept DEF row, Exists, Closed
<1>4. ASSUME NEW g \in Page, Enqueue(g) \/ EnqueueFails(g) PROVE DelayInv'
  BY <1>4, DelayKept DEF Enqueue, EnqueueFails, row, history, Exists, Closed
<1>5. CASE Crash \/ Restart
  BY <1>5, DelayKept, EmptyBatch DEF Crash, Restart, row, history, Exists, Closed
<1>6. CASE UNCHANGED vars
  BY <1>6, DelayKept DEF vars, row, engine, history, Exists, Closed
<1>. QED
  BY <1>1, <1>2, <1>3, <1>4, <1>5, <1>6, DelayApi, DelayStartTick, DelayAdvance, DelayElapse
  DEF Next, EngineStep, Fault

\* Nothing was executed in an empty database.
LEMMA DelayInit == Init => DelayInv
BY DEF Init, DelayInv, Start

\* No step is started before the delay of the step before it has passed, for
\* any delays and however ticks, crashes and failed updates fall.
THEOREM DelaysAreHonoured == Spec => DelayIsHonoured
<1>1. IInv /\ DelayInv /\ [Next]_vars =>
        [\A a \in Alert :
           cur # a /\ cur' = a /\ Ord(a, pos[a]) > 0 =>
             since[a] >= Steps(a)[pos[a].step].delay]_vars
  <2> SUFFICES ASSUME IInv, DelayInv, [Next]_vars, NEW a \in Alert,
                      cur # a, cur' = a, Ord(a, pos[a]) > 0
               PROVE  since[a] >= Steps(a)[pos[a].step].delay
    OBVIOUS
  <2>1. a # NULL
    BY NullAssumption
  <2>2. a \in DOMAIN batch
    <3>1. CASE Api
      BY <2>1, <3>1 DEF Api, Create, Acknowledge, Resolve, DeleteService, engine
    <3>2. ASSUME NEW b \in Alert, SkipEmpty(b) \/ FinishExhausted(b) \/ UpdateFails(b) PROVE FALSE
      BY <2>1, <3>2 DEF SkipEmpty, FinishExhausted, UpdateFails, AlertDone
    <3>3. ASSUME NEW b \in Alert, BeginStep(b) PROVE a \in DOMAIN batch
      BY <3>3, Zenon DEF BeginStep
    <3>4. ASSUME NEW g \in Page, Enqueue(g) \/ EnqueueFails(g) PROVE FALSE
      BY <3>4 DEF Enqueue, EnqueueFails
    <3>5. CASE AdvanceStep
      BY <2>1, <3>5 DEF AdvanceStep, AlertDone
    <3>6. CASE StartTick \/ Crash \/ Restart \/ Elapse \/ UNCHANGED vars
      BY <2>1, <3>6 DEF StartTick, Crash, Restart, Elapse, Advance, engine, vars
    <3>. QED  BY <3>1, <3>2, <3>3, <3>4, <3>5, <3>6 DEF Next, EngineStep, Fault
  <2>3. pos[a].step > 0
    <3>1. pos[a] \in Position /\ Len(Steps(a)) \in Nat
      BY StepsType DEF IInv, TypeOK
    <3>2. ASSUME pos[a].step = 0 PROVE FALSE
      <4>1. pos[a].loop = 0
        BY <3>2 DEF DelayInv
      <4>. QED  BY <3>1, <3>2, <4>1 DEF Ord
    <3>. QED  BY <3>1, <3>2 DEF Position
  <2>. QED  BY <2>2, <2>3 DEF DelayInv, Delay
<1>. QED  BY <1>1, Invariance, DelayInit, DelayNext, PTL DEF Spec, DelayIsHonoured
=============================================================================
