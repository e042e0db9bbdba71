----------------------- MODULE NotificationQueueProofs -----------------------
(***************************************************************************)
(* Proofs about NotificationQueue for every finite set of notifications,   *)
(* every attempt limit, backoff table and batch size and any number of     *)
(* faults.                                                                 *)
(***************************************************************************)
EXTENDS NotificationQueue, FiniteSetTheorems, TLAPS

\* What a row's status says about its calls.
RowTrue(n) ==
  /\ status[n] = "absent"  => attempts[n] = 0 /\ calls[n] = 0 /\ n \notin accepted
  /\ status[n] = "pending" => /\ attempts[n] = calls[n]
                              /\ attempts[n] < MaxAttempts
                              /\ n \notin accepted
  /\ status[n] = "sent"    => n \in accepted
  /\ status[n] = "failed"  => n \notin accepted /\ calls[n] = MaxAttempts
  /\ calls[n] <= MaxAttempts

\* Rows of the batch that wait for their turn are as they were read.
BatchFresh ==
  \A n \in DOMAIN batch : n # cur => status[n] = "pending" /\ batch[n] = attempts[n]

\* The row in hand is marked, and its calls are one ahead once it was dispatched.
InHand ==
  /\ cur = NULL <=> phase = "none"
  /\ ~up => cur = NULL /\ batch = <<>>
  /\ cur # NULL =>
       /\ cur \in DOMAIN batch
       /\ status[cur] = "sending"
       /\ batch[cur] = attempts[cur]
       /\ attempts[cur] < MaxAttempts
       /\ calls[cur] = IF phase = "send" THEN attempts[cur] ELSE attempts[cur] + 1
       /\ cur \in accepted <=> phase = "ok"

IInv == TypeOK /\ (\A n \in Note : RowTrue(n)) /\ BatchFresh /\ InHand

-----------------------------------------------------------------------------

\* A sequence that is not empty has a first element, and its elements their type.
LEMMA NonEmptySeq ==
  ASSUME NEW S, NEW seq \in Seq(S), seq # <<>>
  PROVE  Len(seq) \in Nat /\ Len(seq) > 0 /\ \A i \in 1..Len(seq) : seq[i] \in S
OBVIOUS

\* Every backoff, whichever attempt it follows, is within the bound.
LEMMA BackoffType == ASSUME NEW k \in Nat PROVE BackoffAfter(k) \in 0..MaxWait
<1>1. /\ Len(Backoff) \in Nat /\ Len(Backoff) > 0
      /\ \A i \in 1..Len(Backoff) : Backoff[i] \in 0..MaxWait
  BY BackoffAssumption, NonEmptySeq
<1>2. CASE k < Len(Backoff)
  BY <1>1, <1>2 DEF BackoffAfter
<1>3. CASE ~(k < Len(Backoff))
  BY <1>1, <1>3 DEF BackoffAfter
<1>. QED  BY <1>2, <1>3

\* The rank of the first row exists.
LEMMA RankType == 0 \in Rank
BY NoteAssumption, FS_CardinalityType DEF Rank

\* Taking a row out of the batch leaves the other entries alone.
LEMMA ReleaseBatch ==
  ASSUME NEW n, Release(n)
  PROVE  /\ DOMAIN batch' = DOMAIN batch \ {n}
         /\ batch' = [m \in DOMAIN batch \ {n} |-> batch[m]]
         /\ cur' = NULL /\ phase' = "none"
BY DEF Release, Restrict

\* The batch of an idle engine has no rows.
LEMMA EmptyBatch == DOMAIN <<>> = {} /\ <<>> \in [DOMAIN <<>> -> Nat]
OBVIOUS

-----------------------------------------------------------------------------

\* The invariant holds of an empty table and an idle engine.
LEMMA InitIInv == Init => IInv
<1> SUFFICES ASSUME Init PROVE IInv
  OBVIOUS
<1>1. TypeOK
  BY EmptyBatch, RankType, BoundAssumption, NoteAssumption DEF Init, TypeOK, Status, Phase
<1>2. (\A n \in Note : RowTrue(n)) /\ BatchFresh /\ InHand
  BY EmptyBatch, LimitAssumption DEF Init, RowTrue, BatchFresh, InHand
<1>. QED  BY <1>1, <1>2 DEF IInv

\* Enqueue writes one row that nobody holds.
LEMMA EnqueueIInv == ASSUME IInv, NEW n \in Note, Enqueue(n) PROVE IInv'
<1>1. TypeOK'
  <2>1. wait' \in [Note -> 0..MaxWait] /\ created' \in [Note -> Rank]
    BY BackoffAssumption DEF IInv, TypeOK, Enqueue, Insert, NewestRanks
  <2>2. status' \in [Note -> Status]
    BY DEF IInv, TypeOK, Enqueue, Insert, Status
  <2>. QED  BY <2>1, <2>2 DEF IInv, TypeOK, Enqueue, Insert, engine, history
<1>2. \A m \in Note : RowTrue(m)'
  BY LimitAssumption DEF IInv, TypeOK, RowTrue, Enqueue, Insert, engine, history
<1>3. BatchFresh' /\ InHand'
  BY EmptyBatch DEF IInv, BatchFresh, InHand, Enqueue, Insert, Idle, engine, history
<1>. QED  BY <1>1, <1>2, <1>3 DEF IInv

\* The drain starts with pending rows and their attempts.
LEMMA StartTickIInv == ASSUME IInv, StartTick PROVE IInv'
<1>1. PICK found \in SUBSET Pending : batch' = [n \in found |-> attempts[n]]
  BY DEF StartTick
<1>2. found \subseteq Note /\ \A n \in found : status[n] = "pending"
  BY DEF Pending
<1>3. TypeOK'
  BY <1>1, <1>2 DEF IInv, TypeOK, StartTick, queue, history
<1>4. \A n \in Note : RowTrue(n)'
  BY DEF IInv, RowTrue, StartTick, queue, history
<1>5. BatchFresh' /\ InHand'
  BY <1>1, <1>2 DEF IInv, BatchFresh, InHand, StartTick, Idle, queue, history
<1>. QED  BY <1>3, <1>4, <1>5 DEF IInv

\* MarkSending takes a pending row in hand.
LEMMA MarkSendingIInv == ASSUME IInv, NEW n \in Note, MarkSending(n) PROVE IInv'
<1>1. n \in DOMAIN batch /\ cur = NULL /\ up /\ n # NULL
  BY NoteAssumption DEF MarkSending, TakeNext
<1>2. status[n] = "pending" /\ batch[n] = attempts[n]
  BY <1>1 DEF IInv, BatchFresh
<1>3. status' = [status EXCEPT ![n] = "sending"]
  BY <1>2 DEF MarkSending, SetStatus, InTable
<1>4. TypeOK'
  BY <1>3 DEF IInv, TypeOK, MarkSending, Status, Phase, history
<1>5. \A m \in Note : RowTrue(m)'
  BY <1>3 DEF IInv, TypeOK, RowTrue, MarkSending, history
<1>6. BatchFresh'
  BY <1>1, <1>3, NoteAssumption DEF IInv, TypeOK, BatchFresh, MarkSending
<1>7. InHand'
  BY <1>1, <1>2, <1>3 DEF IInv, TypeOK, RowTrue, InHand, MarkSending, history
<1>. QED  BY <1>4, <1>5, <1>6, <1>7 DEF IInv

\* A provider call counts for the row in hand.
LEMMA DispatchIInv ==
  ASSUME IInv, NEW result \in {"ok", "error"}, Dispatch(result) PROVE IInv'
<1>1. cur \in Note /\ cur # NULL /\ phase = "send" /\ status[cur] = "sending"
  BY DEF Dispatch, IInv, TypeOK, InHand
<1>2. /\ calls[cur] = attempts[cur] /\ attempts[cur] < MaxAttempts
      /\ cur \notin accepted /\ attempts[cur] \in Nat /\ up
  BY <1>1 DEF IInv, TypeOK, InHand
<1>3. TypeOK'
  BY <1>1, BoundAssumption DEF IInv, TypeOK, Dispatch, Phase, queue
<1>4. \A m \in Note : RowTrue(m)'
  BY <1>1, <1>2, LimitAssumption DEF IInv, TypeOK, RowTrue, Dispatch, queue
<1>5. BatchFresh'
  BY DEF IInv, BatchFresh, Dispatch, queue
<1>6. InHand'
  BY <1>1, <1>2 DEF IInv, TypeOK, InHand, Dispatch, queue
<1>. QED  BY <1>3, <1>4, <1>5, <1>6 DEF IInv

\* Letting go of the row in hand: the other rows of the batch are as they were.
LEMMA ReleaseIInv ==
  ASSUME IInv, cur # NULL, Release(cur), up' = up,
         attempts' \in [Note -> Nat],
         \A m \in Note \ {cur} : status'[m] = status[m] /\ attempts'[m] = attempts[m]
  PROVE  BatchFresh' /\ InHand'
<1>1. /\ DOMAIN batch' = DOMAIN batch \ {cur} /\ cur' = NULL /\ phase' = "none"
      /\ \A m \in DOMAIN batch \ {cur} : batch'[m] = batch[m]
  BY ReleaseBatch
<1>2. DOMAIN batch \subseteq Note
  BY DEF IInv, TypeOK
<1>3. BatchFresh'
  BY <1>1, <1>2 DEF IInv, BatchFresh
<1>4. InHand'
  BY <1>1 DEF IInv, InHand
<1>. QED  BY <1>3, <1>4

\* The three marks that end a row's turn.
LEMMA MarkIInv == ASSUME IInv, MarkSent \/ MarkFailed \/ Retry PROVE IInv'
<1>1. cur \in Note /\ cur # NULL /\ status[cur] = "sending" /\ up
  BY DEF MarkSent, MarkFailed, Retry, IInv, TypeOK, InHand
<1>2. /\ calls[cur] = attempts[cur] + 1 /\ attempts[cur] < MaxAttempts
      /\ batch[cur] = attempts[cur] /\ attempts[cur] \in Nat /\ calls[cur] \in Nat
      /\ cur \in accepted <=> phase = "ok"
  BY <1>1 DEF MarkSent, MarkFailed, Retry, IInv, TypeOK, InHand
<1>3. InTable(cur)
  BY <1>1 DEF InTable
<1>4. /\ Release(cur) /\ up' = up
      /\ batch' = [m \in DOMAIN batch \ {cur} |-> batch[m]]
      /\ cur' = NULL /\ phase' = "none"
  BY ReleaseBatch DEF MarkSent, MarkFailed, Retry
<1>5. CASE MarkSent
  <2>1. status' = [status EXCEPT ![cur] = "sent"]
    BY <1>3, <1>5 DEF MarkSent, SetStatus
  <2>2. TypeOK'
    BY <1>4, <1>5, <2>1 DEF IInv, TypeOK, MarkSent, Status, Phase, history
  <2>3. \A m \in Note : RowTrue(m)'
    BY <1>2, <1>5, <2>1 DEF IInv, TypeOK, RowTrue, MarkSent, history
  <2>4. BatchFresh' /\ InHand'
    BY <1>1, <1>4, <1>5, <2>1, <2>2, ReleaseIInv DEF MarkSent, IInv, TypeOK
  <2>. QED  BY <2>2, <2>3, <2>4 DEF IInv
<1>6. CASE MarkFailed
  <2>1. status' = [status EXCEPT ![cur] = "failed"]
    BY <1>3, <1>6 DEF MarkFailed, SetStatus
  <2>2. TypeOK'
    BY <1>4, <1>6, <2>1 DEF IInv, TypeOK, MarkFailed, Status, Phase, history
  <2>3. calls[cur] = MaxAttempts /\ cur \notin accepted
    BY <1>2, <1>6, LimitAssumption DEF MarkFailed, LastAttempt
  <2>4. \A m \in Note : RowTrue(m)'
    BY <2>3, <1>6, <2>1 DEF IInv, TypeOK, RowTrue, MarkFailed, history
  <2>5. BatchFresh' /\ InHand'
    BY <1>1, <1>4, <1>6, <2>1, <2>2, ReleaseIInv DEF MarkFailed, IInv, TypeOK
  <2>. QED  BY <2>2, <2>4, <2>5 DEF IInv
<1>7. CASE Retry
  <2>1. /\ status' = [status EXCEPT ![cur] = "pending"]
        /\ attempts' = [attempts EXCEPT ![cur] = @ + 1]
        /\ wait' = [wait EXCEPT ![cur] = BackoffAfter(batch[cur])]
    BY <1>3, <1>7 DEF Retry, IncrementAttempts, SetStatus
  <2>2. TypeOK'
    BY <1>2, <1>4, <1>7, <2>1, BackoffType DEF IInv, TypeOK, Retry, Status, Phase, history
  <2>3. attempts[cur] + 1 < MaxAttempts /\ cur \notin accepted
    BY <1>2, <1>7, LimitAssumption DEF Retry, LastAttempt
  <2>4. \A m \in Note : RowTrue(m)'
    BY <1>2, <2>3, <1>7, <2>1 DEF IInv, TypeOK, RowTrue, Retry, history
  <2>5. BatchFresh' /\ InHand'
    BY <1>1, <1>4, <1>7, <2>1, <2>2, ReleaseIInv DEF Retry, IInv, TypeOK
  <2>. QED  BY <2>2, <2>4, <2>5 DEF IInv
<1>. QED  BY <1>5, <1>6, <1>7

-----------------------------------------------------------------------------
(* Faults, restarts, purges and time.                                      *)

\* A failed statement leaves the table alone and lets go of a row.
LEMMA FailedMarkIInv ==
  ASSUME IInv, MarkFails \/ \E n \in Note : MarkSendingFails(n) PROVE IInv'
<1>1. PICK n \in Note :
        /\ Release(n) /\ up' = up /\ faults < MaxFaults /\ faults' = faults + 1
        /\ UNCHANGED <<queue, calls, accepted, since>>
        /\ stranded' \subseteq Note
        /\ cur \in {n, NULL} /\ n \in DOMAIN batch
  BY DEF MarkFails, MarkSendingFails, TakeNext, IInv, TypeOK, InHand, queue, Release
<1>2. /\ batch' = [m \in DOMAIN batch \ {n} |-> batch[m]]
      /\ cur' = NULL /\ phase' = "none"
  BY <1>1, ReleaseBatch
<1>3. TypeOK'
  BY <1>1, <1>2, BoundAssumption DEF IInv, TypeOK, Phase, queue
<1>4. \A m \in Note : RowTrue(m)'
  BY <1>1 DEF IInv, RowTrue, queue
<1>5. BatchFresh' /\ InHand'
  BY <1>1, <1>2 DEF IInv, BatchFresh, InHand, queue
<1>. QED  BY <1>3, <1>4, <1>5 DEF IInv

\* What was in memory is gone, the table is as it was.
LEMMA CrashIInv == ASSUME IInv, Crash \/ Restart PROVE IInv'
<1>1. TypeOK'
  <2>1. CASE Crash
    <3>1. stranded' \subseteq Note /\ up' \in BOOLEAN
      BY <2>1 DEF IInv, TypeOK, Crash
    <3>2. faults' \in 0..MaxFaults
      BY <2>1, BoundAssumption DEF IInv, TypeOK, Crash
    <3>3. DOMAIN batch' \subseteq Note /\ batch' \in [DOMAIN batch' -> Nat]
      BY <2>1, EmptyBatch DEF Crash
    <3>. QED  BY <2>1, <3>1, <3>2, <3>3 DEF IInv, TypeOK, Crash, Phase, queue
  <2>2. CASE Restart
    BY <2>2 DEF IInv, TypeOK, Restart, queue, history
  <2>. QED  BY <2>1, <2>2
<1>2. (\A m \in Note : RowTrue(m)') /\ BatchFresh' /\ InHand'
  BY EmptyBatch DEF IInv, RowTrue, BatchFresh, InHand, Crash, Restart, queue, history
<1>. QED  BY <1>1, <1>2 DEF IInv

\* A purge meets no row that is in hand or in the batch.
LEMMA PurgeIInv == ASSUME IInv, Purge PROVE IInv'
<1>1. PICK old \in SUBSET Note : Idle /\ Remove(old)
  BY DEF Purge, PurgeOldNotifications, PurgeResolvedAlerts
<1>2. TypeOK'
  BY <1>1 DEF Remove, IInv, TypeOK, Status, engine, history
<1>3. \A m \in Note : RowTrue(m)'
  BY <1>1 DEF Remove, IInv, TypeOK, RowTrue, history
<1>4. BatchFresh' /\ InHand'
  BY <1>1, EmptyBatch DEF Remove, IInv, BatchFresh, InHand, Idle, engine
<1>. QED  BY <1>2, <1>3, <1>4 DEF IInv

\* Time moves the waits only.
LEMMA ElapseIInv == ASSUME IInv, Elapse PROVE IInv'
<1>1. TypeOK'
  BY BoundAssumption DEF IInv, TypeOK, Elapse, Advance, engine
<1>2. (\A m \in Note : RowTrue(m)') /\ BatchFresh' /\ InHand'
  BY DEF IInv, RowTrue, BatchFresh, InHand, Elapse, Advance, engine
<1>. QED  BY <1>1, <1>2 DEF IInv

\* Every step keeps the invariant.
LEMMA NextIInv == IInv /\ [Next]_vars => IInv'
<1> SUFFICES ASSUME IInv, [Next]_vars PROVE IInv'
  OBVIOUS
<1>1. CASE Drain
  BY <1>1, StartTickIInv, MarkSendingIInv, DispatchIInv, MarkIInv DEF Drain
<1>2. CASE Fault
  BY <1>2, CrashIInv, FailedMarkIInv DEF Fault
<1>3. CASE UNCHANGED vars
  BY <1>3 DEF vars, queue, engine, history, IInv, TypeOK, RowTrue, BatchFresh, InHand
<1>. QED  BY <1>1, <1>2, <1>3, EnqueueIInv, CrashIInv, PurgeIInv, ElapseIInv DEF Next

\* The inductive invariant: the rows tell the truth and the batch is fresh.
THEOREM Invariance == Spec => []IInv
<1>. QED  BY InitIInv, NextIInv, PTL DEF Spec

\* Type correctness of table, engine and history.
THEOREM TypeCorrect == Spec => []TypeOK
<1>1. IInv => TypeOK
  BY DEF IInv
<1>. QED  BY <1>1, Invariance, PTL

\* max_attempts bounds the provider calls of a notification for good.
THEOREM AttemptsAreBounded == Spec => []AtMostMaxAttempts
<1>1. IInv => AtMostMaxAttempts
  BY DEF IInv, RowTrue, AtMostMaxAttempts
<1>. QED  BY <1>1, Invariance, PTL

\* The attempts column of a waiting row is the number of its calls.
THEOREM AttemptsAreCounted == Spec => []AttemptsCountCalls
<1>1. IInv => AttemptsCountCalls
  BY DEF IInv, RowTrue, AttemptsCountCalls
<1>. QED  BY <1>1, Invariance, PTL

\* A final status is never a wrong one.
THEOREM FinalStatusesAreTrue == Spec => []FinalStatusIsTrue
<1>1. IInv => FinalStatusIsTrue
  BY DEF IInv, RowTrue, FinalStatusIsTrue
<1>. QED  BY <1>1, Invariance, PTL

-----------------------------------------------------------------------------
(* Calls are made by Dispatch alone, for the row in hand.                  *)

\* Whoever's calls change is the row in hand, marked and not yet dispatched.
LEMMA CallIsDispatch ==
  ASSUME IInv, [Next]_vars, NEW n \in Note, calls'[n] # calls[n]
  PROVE  n = cur /\ cur # NULL /\ phase = "send"
<1>1. PICK result \in {"ok", "error"} : Dispatch(result)
  BY DEF Next, Enqueue, Insert, Drain, Fault, Purge, StartTick, MarkSending, MarkSent, MarkFailed,
         Retry, Crash, MarkFails, MarkSendingFails, Restart, PurgeOldNotifications,
         PurgeResolvedAlerts, Remove, Elapse, Advance, vars, history
<1>. QED  BY <1>1 DEF Dispatch, IInv, TypeOK

\* A notification a provider has taken is never handed to a provider again.
THEOREM AcceptedIsNotCalled == Spec => NoCallAfterSuccess
<1>1. IInv /\ [Next]_vars => [\A n \in accepted : calls'[n] = calls[n]]_vars
  <2> SUFFICES ASSUME IInv, [Next]_vars, NEW n \in accepted, calls'[n] # calls[n] PROVE FALSE
    OBVIOUS
  <2>1. n \in Note
    BY DEF IInv, TypeOK
  <2>2. n = cur /\ cur # NULL /\ phase = "send"
    BY <2>1, CallIsDispatch
  <2>. QED  BY <2>2 DEF IInv, InHand
<1>. QED  BY <1>1, Invariance, PTL DEF Spec, NoCallAfterSuccess

\* Providers are called for marked rows of the table only.
THEOREM CalledRowsAreMarked == Spec => CallsAreMarked
<1>1. IInv /\ [Next]_vars => [\A n \in Note : calls'[n] # calls[n] => status[n] = "sending"]_vars
  <2> SUFFICES ASSUME IInv, [Next]_vars, NEW n \in Note, calls'[n] # calls[n]
               PROVE  status[n] = "sending"
    OBVIOUS
  <2>1. n = cur /\ cur # NULL
    BY CallIsDispatch
  <2>. QED  BY <2>1 DEF IInv, InHand
<1>. QED  BY <1>1, Invariance, PTL DEF Spec, CallsAreMarked

-----------------------------------------------------------------------------
(* Rows left in sending.                                                   *)

\* Every row left sending by a fault is paid for by that fault.
StrandInv ==
  /\ \A n \in Note : status[n] = "sending" /\ n # cur => n \in stranded
  /\ IsFiniteSet(stranded)
  /\ Cardinality(stranded) <= faults

\* One more fault pays for one more stranded row.
LEMMA OneMoreStranded ==
  ASSUME NEW S, IsFiniteSet(S), NEW n, NEW k \in Nat, Cardinality(S) <= k
  PROVE  IsFiniteSet(S \cup {n}) /\ Cardinality(S \cup {n}) <= k + 1
<1>1. IsFiniteSet(S \cup {n}) /\ Cardinality(S \cup {n}) \in {Cardinality(S), Cardinality(S) + 1}
  BY FS_AddElement
<1>2. Cardinality(S) \in Nat
  BY FS_CardinalityType
<1>. QED  BY <1>1, <1>2

\* The queue starts with nothing stranded.
LEMMA StrandInit == Init => StrandInv
BY FS_EmptySet DEF Init, StrandInv

\* Every step leaves at most one more row behind and pays for it.
LEMMA StrandNext == IInv /\ StrandInv /\ [Next]_vars => StrandInv'
<1> SUFFICES ASSUME IInv, StrandInv, [Next]_vars PROVE StrandInv'
  OBVIOUS
<1>1. faults \in Nat /\ \A n \in DOMAIN batch : n \in Note
  BY BoundAssumption DEF IInv, TypeOK
<1>2. CASE Drain
  <2>1. UNCHANGED <<stranded, faults>>
    BY <1>2 DEF Drain, StartTick, MarkSending, Dispatch, MarkSent, MarkFailed, Retry, history
  <2>2. \A n \in Note : status'[n] = "sending" /\ n # cur' => n \in stranded
    <3>1. CASE StartTick \/ \E result \in {"ok", "error"} : Dispatch(result)
      BY <3>1 DEF StartTick, Dispatch, queue, StrandInv
    <3>2. CASE \E n \in Note : MarkSending(n)
      BY <3>2, NoteAssumption
      DEF MarkSending, TakeNext, SetStatus, StrandInv, IInv, TypeOK
    <3>3. CASE MarkSent \/ MarkFailed \/ Retry
      <4>1. cur \in Note /\ InTable(cur)
        BY <3>3 DEF MarkSent, MarkFailed, Retry, IInv, TypeOK, InHand, InTable
      <4>2. \E s \in {"sent", "failed", "pending"} : status' = [status EXCEPT ![cur] = s]
        BY <3>3, <4>1 DEF MarkSent, MarkFailed, Retry, SetStatus, IncrementAttempts
      <4>. QED  BY <4>1, <4>2 DEF IInv, TypeOK, StrandInv
    <3>. QED  BY <1>2, <3>1, <3>2, <3>3 DEF Drain
  <2>. QED  BY <2>1, <2>2 DEF StrandInv
<1>3. CASE Crash \/ MarkFails
  <2>1. status' = status /\ faults' = faults + 1 /\ cur' = NULL
    <3>1. CASE Crash
      BY <3>1 DEF Crash, queue
    <3>2. CASE MarkFails
      BY <3>2 DEF MarkFails, Release, queue
    <3>. QED  BY <1>3, <3>1, <3>2
  <2>2. stranded' = stranded \cup {cur} \/ (cur = NULL /\ stranded' = stranded)
    <3>1. CASE Crash
      BY <3>1 DEF Crash
    <3>2. CASE MarkFails
      BY <3>2 DEF MarkFails
    <3>. QED  BY <1>3, <3>1, <3>2
  <2>3. IsFiniteSet(stranded') /\ Cardinality(stranded') <= faults'
    <3>1. IsFiniteSet(stranded) /\ Cardinality(stranded) \in Nat /\ Cardinality(stranded) <= faults
      BY FS_CardinalityType DEF StrandInv
    <3>2. /\ IsFiniteSet(stranded \cup {cur})
          /\ Cardinality(stranded \cup {cur}) <= faults + 1
      BY <1>1, <3>1, OneMoreStranded
    <3>3. CASE stranded' = stranded \cup {cur}
      BY <2>1, <3>2, <3>3
    <3>4. CASE stranded' = stranded
      BY <1>1, <2>1, <3>1, <3>4
    <3>. QED  BY <2>2, <3>3, <3>4
  <2>. QED  BY <2>1, <2>2, <2>3, NoteAssumption DEF StrandInv
<1>4. CASE \E n \in Note : MarkSendingFails(n)
  <2>1. UNCHANGED <<status, stranded>> /\ faults' = faults + 1 /\ cur = NULL /\ cur' = NULL
    BY <1>4 DEF MarkSendingFails, TakeNext, Release, queue
  <2>2. Cardinality(stranded) \in Nat
    BY FS_CardinalityType DEF StrandInv
  <2>. QED  BY <1>1, <2>1, <2>2 DEF StrandInv
<1>5. CASE Restart \/ Elapse \/ Purge \/ \E n \in Note : Enqueue(n)
  <2>1. /\ UNCHANGED <<cur, stranded, faults>>
        /\ \A n \in Note : status'[n] = "sending" => status[n] = "sending"
    BY <1>5 DEF Restart, Elapse, Advance, Purge, PurgeOldNotifications, PurgeResolvedAlerts,
                Remove, Enqueue, Insert, queue, engine, history, IInv, TypeOK
  <2>. QED  BY <2>1 DEF StrandInv
<1>6. CASE UNCHANGED vars
  BY <1>6 DEF vars, queue, engine, history, StrandInv
<1>. QED  BY <1>2, <1>3, <1>4, <1>5, <1>6 DEF Next, Fault

\* Rows are left in sending by crashes and failed marks alone, one by each.
THEOREM StrandingIsPaidFor == Spec => []StrandedOnlyByFaults
<1>1. StrandInv => StrandedOnlyByFaults
  BY DEF StrandInv, StrandedOnlyByFaults
<1>. QED  BY <1>1, Invariance, StrandInit, StrandNext, PTL DEF Spec

-----------------------------------------------------------------------------
(* Backoffs.                                                               *)

\* What a waiting row has waited and has still to wait adds up to its backoff,
\* and rows in the batch have nothing left to wait.
BackoffInv ==
  /\ \A n \in Note : status[n] = "pending" /\ calls[n] > 0 =>
       since[n] + wait[n] >= BackoffAfter(calls[n] - 1)
  /\ \A n \in DOMAIN batch : n # cur => wait[n] = 0
  /\ phase = "send" /\ calls[cur] > 0 => since[cur] >= BackoffAfter(calls[cur] - 1)

\* There are no calls at first.
LEMMA BackoffInit == Init => BackoffInv
BY EmptyBatch DEF Init, BackoffInv

\* A drain keeps the sums, and a retry sets up the next one.
LEMMA BackoffDrain == ASSUME IInv, BackoffInv, Drain PROVE BackoffInv'
<1>1. CASE StartTick
  <2>1. PICK found \in SUBSET Pending : batch' = [n \in found |-> attempts[n]]
    BY <1>1 DEF StartTick
  <2>2. phase # "send"
    BY <1>1 DEF StartTick, Idle, IInv, InHand
  <2>. QED  BY <1>1, <2>1, <2>2 DEF StartTick, Pending, BackoffInv, BackoffAfter, queue, history
<1>2. CASE \E n \in Note : MarkSending(n)
  <2>1. PICK n \in Note : MarkSending(n)
    BY <1>2
  <2>2. /\ n \in DOMAIN batch /\ n # cur /\ status[n] = "pending" /\ wait[n] = 0
        /\ since[n] \in Nat /\ calls[n] \in Nat
    BY <2>1, NoteAssumption DEF MarkSending, TakeNext, IInv, BatchFresh, BackoffInv, TypeOK
  <2>3. /\ status' = [status EXCEPT ![n] = "sending"] /\ cur' = n /\ cur = NULL
        /\ UNCHANGED <<wait, batch, calls, since>>
    BY <2>1, <2>2 DEF MarkSending, TakeNext, SetStatus, InTable, history
  <2>4. calls[n] > 0 => since[n] >= BackoffAfter(calls[n] - 1)
    <3> SUFFICES ASSUME calls[n] > 0 PROVE since[n] >= BackoffAfter(calls[n] - 1)
      OBVIOUS
    <3>1. BackoffAfter(calls[n] - 1) \in 0..MaxWait
      BY <2>2, BackoffType
    <3>2. since[n] + wait[n] >= BackoffAfter(calls[n] - 1)
      BY <2>2 DEF BackoffInv
    <3>. QED  BY <2>2, <3>1, <3>2, BoundAssumption
  <2>5. \A m \in DOMAIN batch : m # NULL
    BY NoteAssumption DEF IInv, TypeOK
  <2>. QED  BY <2>2, <2>3, <2>4, <2>5 DEF BackoffInv, BackoffAfter, IInv, TypeOK
<1>3. CASE \E result \in {"ok", "error"} : Dispatch(result)
  <2>1. cur \in Note /\ status[cur] = "sending" /\ phase' # "send"
    BY <1>3 DEF Dispatch, IInv, TypeOK, InHand
  <2>2. /\ \A n \in Note \ {cur} : calls'[n] = calls[n] /\ since'[n] = since[n]
        /\ UNCHANGED <<status, wait, batch, cur>>
    BY <1>3 DEF Dispatch, IInv, TypeOK, queue
  <2>. QED  BY <2>1, <2>2 DEF BackoffInv, BackoffAfter
<1>4. CASE MarkSent \/ MarkFailed \/ Retry
  <2>1. /\ cur \in Note /\ InTable(cur) /\ cur # NULL
        /\ calls[cur] = batch[cur] + 1 /\ batch[cur] \in Nat /\ since[cur] \in Nat
    BY <1>4 DEF MarkSent, MarkFailed, Retry, IInv, TypeOK, InHand, InTable
  <2>2. /\ DOMAIN batch' = DOMAIN batch \ {cur} /\ phase' = "none"
        /\ UNCHANGED <<calls, since>>
    <3>1. Release(cur) /\ UNCHANGED history
      BY <1>4 DEF MarkSent, MarkFailed, Retry
    <3>. QED  BY <3>1, ReleaseBatch DEF history
  <2>3. \A n \in Note \ {cur} : status'[n] = status[n] /\ wait'[n] = wait[n]
    BY <1>4, <2>1 DEF MarkSent, MarkFailed, Retry, SetStatus, IncrementAttempts, IInv, TypeOK
  <2>4. status'[cur] = "pending" => wait'[cur] = BackoffAfter(calls[cur] - 1)
    BY <1>4, <2>1 DEF MarkSent, MarkFailed, Retry, SetStatus, IncrementAttempts, IInv, TypeOK
  <2>5. BackoffAfter(calls[cur] - 1) \in Nat
    BY <2>1, BackoffType, BoundAssumption
  <2>6. DOMAIN batch \subseteq Note
    BY DEF IInv, TypeOK
  <2>7. \A n \in Note : status'[n] = "pending" /\ calls'[n] > 0 =>
          since'[n] + wait'[n] >= BackoffAfter(calls'[n] - 1)
    BY <2>1, <2>2, <2>3, <2>4, <2>5 DEF BackoffInv
  <2>. QED  BY <2>2, <2>3, <2>6, <2>7 DEF BackoffInv, BackoffAfter
<1>. QED  BY <1>1, <1>2, <1>3, <1>4 DEF Drain

\* A minute that is waited is a minute less to wait.
LEMMA BackoffElapse == ASSUME IInv, BackoffInv, Elapse PROVE BackoffInv'
<1>1. UNCHANGED <<status, batch, cur, phase, calls>>
  BY DEF Elapse, Advance, engine
<1>2. /\ \A n \in Note : /\ calls[n] \in Nat /\ wait[n] \in 0..MaxWait /\ since[n] \in 0..MaxWait
                         /\ since'[n] \in {since[n], since[n] + 1} /\ wait'[n] \in {wait[n], wait[n] - 1}
                         /\ wait[n] = 0 => wait'[n] = 0
                         /\ status[n] = "pending" =>
                              /\ since[n] < MaxWait => since'[n] = since[n] + 1
                              /\ wait[n] > 0 => wait'[n] = wait[n] - 1
      /\ MaxWait \in Nat
  BY BoundAssumption DEF Elapse, Advance, IInv, TypeOK, InTable
<1>3. ASSUME NEW n \in Note, status[n] = "pending", calls[n] > 0
      PROVE  since'[n] + wait'[n] >= BackoffAfter(calls[n] - 1)
  <2>1. BackoffAfter(calls[n] - 1) \in 0..MaxWait
    BY <1>2, <1>3, BackoffType
  <2>2. since[n] + wait[n] >= BackoffAfter(calls[n] - 1)
    BY <1>3 DEF BackoffInv
  <2>3. CASE since[n] < MaxWait
    BY <1>2, <1>3, <2>1, <2>2, <2>3
  <2>4. CASE since[n] = MaxWait
    BY <1>2, <1>3, <2>1, <2>2, <2>4
  <2>. QED  BY <1>2, <2>3, <2>4
<1>4. DOMAIN batch \subseteq Note
  BY DEF IInv, TypeOK
<1>5. phase = "send" /\ calls[cur] > 0 => since'[cur] >= BackoffAfter(calls[cur] - 1)
  <2> SUFFICES ASSUME phase = "send", calls[cur] > 0
               PROVE  since'[cur] >= BackoffAfter(calls[cur] - 1)
    OBVIOUS
  <2>1. cur \in Note
    BY DEF IInv, TypeOK, InHand
  <2>2. BackoffAfter(calls[cur] - 1) \in 0..MaxWait
    BY <1>2, <2>1, BackoffType
  <2>. QED  BY <1>2, <2>1, <2>2 DEF BackoffInv
<1>. QED  BY <1>1, <1>2, <1>3, <1>4, <1>5 DEF BackoffInv, BackoffAfter

\* Every step keeps the sums.
LEMMA BackoffNext == IInv /\ BackoffInv /\ [Next]_vars => BackoffInv'
<1> SUFFICES ASSUME IInv, BackoffInv, [Next]_vars PROVE BackoffInv'
  OBVIOUS
<1>1. CASE Crash \/ MarkFails \/ Restart \/ \E n \in Note : MarkSendingFails(n)
  <2>1. UNCHANGED <<status, wait, calls, since>>
    BY <1>1 DEF Crash, MarkFails, Restart, MarkSendingFails, queue, history
  <2>2. \A n \in DOMAIN batch' : n # cur' => n \in DOMAIN batch /\ n # cur
    <3>1. CASE Crash \/ Restart
      BY <3>1, EmptyBatch DEF Crash, Restart
    <3>2. CASE MarkFails
      BY <3>2, ReleaseBatch DEF MarkFails
    <3>3. CASE \E n \in Note : MarkSendingFails(n)
      <4>1. PICK n \in Note : MarkSendingFails(n)
        BY <3>3
      <4>. QED  BY <4>1, ReleaseBatch, NoteAssumption DEF MarkSendingFails, TakeNext, IInv, TypeOK
    <3>. QED  BY <1>1, <3>1, <3>2, <3>3
  <2>3. phase' # "send" \/ (phase' = phase /\ cur' = cur)
    <3>1. CASE Crash \/ Restart
      BY <3>1 DEF Crash, Restart
    <3>2. CASE MarkFails \/ \E n \in Note : MarkSendingFails(n)
      BY <3>2 DEF MarkFails, MarkSendingFails, Release
    <3>. QED  BY <1>1, <3>1, <3>2
  <2>. QED  BY <2>1, <2>2, <2>3 DEF BackoffInv, BackoffAfter
<1>2. CASE Purge \/ \E n \in Note : Enqueue(n)
  <2>1. batch = <<>> /\ cur = NULL /\ phase = "none" /\ UNCHANGED <<engine, calls, since>>
    BY <1>2 DEF Purge, PurgeOldNotifications, PurgeResolvedAlerts, Remove, Enqueue, Insert, Idle,
                history,
                IInv, InHand, engine
  <2>2. \A n \in Note : status'[n] = "pending" =>
          calls[n] = 0 \/ (status[n] = "pending" /\ wait'[n] = wait[n])
    BY <1>2 DEF Purge, PurgeOldNotifications, PurgeResolvedAlerts, Remove, Enqueue,
           Insert, IInv, TypeOK, RowTrue
  <2>. QED  BY <2>1, <2>2, EmptyBatch DEF BackoffInv, BackoffAfter, engine
<1>3. CASE UNCHANGED vars
  BY <1>3 DEF vars, queue, engine, history, BackoffInv, BackoffAfter
<1>. QED  BY <1>1, <1>2, <1>3, BackoffDrain, BackoffElapse DEF Next, Fault

\* For every table of backoffs, no retry comes before its backoff is over.
THEOREM BackoffsAreHonoured == Spec => BackoffIsHonoured
<1>1. IInv /\ BackoffInv /\ [Next]_vars =>
        [\A n \in Note :
           calls[n] > 0 /\ calls'[n] # calls[n] => since[n] >= BackoffAfter(calls[n] - 1)]_vars
  BY CallIsDispatch DEF BackoffInv
<1>. QED  BY <1>1, Invariance, BackoffInit, BackoffNext, PTL DEF Spec, BackoffIsHonoured
=============================================================================
