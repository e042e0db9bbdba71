-------------------------- MODULE AlertIntakeProofs --------------------------
(* Proofs about AlertIntake: the safety properties of Create, for any requests, *)
(* keys, groups, payloads and failures.                                         *)
EXTENDS AlertIntake, TLAPS

\* States in which a request works on the first of its items.
Busy == {"dedup", "group", "insert", "reselect", "fetch", "log"}

-----------------------------------------------------------------------------
(* Types.                                                                  *)

LEMMA PayloadType == ASSUME NEW kind \in Kind PROVE Payload(kind) \subseteq Seq(Item)
<1>. DEFINE Webhook == [key : Key, group : {NULL}, firing : BOOLEAN]
            Posted  == [key : Key \cup {NULL}, group : Group \cup {NULL}, firing : {TRUE}]
<1>1. Webhook \subseteq Item /\ Posted \subseteq Item
  BY DEF Item
<1>2. \A i \in Item : <<i>> \in Seq(Item)
  OBVIOUS
<1>3. ASSUME NEW n \in Nat PROVE [1..n -> Webhook] \subseteq Seq(Item)
  BY <1>1
<1>4. UNION {[1..n -> Webhook] : n \in 0..MaxItems} \subseteq Seq(Item)
  BY <1>3, BoundAssumption
<1>5. {<<i>> : i \in Posted} \subseteq Seq(Item) /\ {<<i>> : i \in Webhook} \subseteq Seq(Item)
  BY <1>1, <1>2
<1>. QED  BY <1>4, <1>5 DEF Payload, Kind

LEMMA PcValues == {"item", "dedup", "group", "insert", "reselect", "fetch", "log", "done"} \subseteq Pc
BY DEF Pc

LEMMA IdleType == Idle \in Handler
BY KeyAssumption DEF Idle, Handler, Kind, Pc, View, Item

\* What the statements change in the record of a handler.
LEMMA PcType ==
  ASSUME TypeOK, NEW r \in Req, NEW pc \in Pc
  PROVE  [work EXCEPT ![r].pc = pc] \in [Req -> Handler]
<1>1. [work[r] EXCEPT !.pc = pc] \in Handler
  BY DEF TypeOK, Handler
<1>. QED  BY <1>1 DEF TypeOK

LEMMA HitType ==
  ASSUME TypeOK, NEW r \in Req, NEW pc \in Pc, NEW hit \in Nat
  PROVE  [work EXCEPT ![r].pc = pc, ![r].hit = hit] \in [Req -> Handler]
<1>1. [work[r] EXCEPT !.pc = pc, !.hit = hit] \in Handler
  BY DEF TypeOK, Handler
<1>2. [work EXCEPT ![r].pc = pc, ![r].hit = hit] = [work EXCEPT ![r] = [work[r] EXCEPT !.pc = pc, !.hit = hit]]
  BY DEF TypeOK
<1>. QED  BY <1>1, <1>2 DEF TypeOK

LEMMA SuppressType ==
  ASSUME TypeOK, NEW r \in Req, NEW pc \in Pc, NEW suppress \in BOOLEAN
  PROVE  [work EXCEPT ![r].pc = pc, ![r].suppress = suppress] \in [Req -> Handler]
<1>1. [work[r] EXCEPT !.pc = pc, !.suppress = suppress] \in Handler
  BY DEF TypeOK, Handler
<1>2. [work EXCEPT ![r].pc = pc, ![r].suppress = suppress]
        = [work EXCEPT ![r] = [work[r] EXCEPT !.pc = pc, !.suppress = suppress]]
  BY DEF TypeOK
<1>. QED  BY <1>1, <1>2 DEF TypeOK

LEMMA ViewType ==
  ASSUME TypeOK, NEW r \in Req, NEW pc \in Pc, NEW view \in View
  PROVE  [work EXCEPT ![r].pc = pc, ![r].view = view] \in [Req -> Handler]
<1>1. [work[r] EXCEPT !.pc = pc, !.view = view] \in Handler
  BY DEF TypeOK, Handler
<1>2. [work EXCEPT ![r].pc = pc, ![r].view = view]
        = [work EXCEPT ![r] = [work[r] EXCEPT !.pc = pc, !.view = view]]
  BY DEF TypeOK
<1>. QED  BY <1>1, <1>2 DEF TypeOK

LEMMA FailedType ==
  ASSUME TypeOK, NEW r \in Req, NEW pc \in Pc, NEW failed \in BOOLEAN
  PROVE  [work EXCEPT ![r].pc = pc, ![r].view.failed = failed] \in [Req -> Handler]
<1>1. [work[r] EXCEPT !.pc = pc, !.view.failed = failed] \in Handler
  BY DEF TypeOK, Handler, View
<1>2. [work EXCEPT ![r].pc = pc, ![r].view.failed = failed]
        = [work EXCEPT ![r] = [work[r] EXCEPT !.pc = pc, !.view.failed = failed]]
  BY DEF TypeOK
<1>. QED  BY <1>1, <1>2 DEF TypeOK

\* The items of a handler and its next state.
LEMMA NextItemType ==
  ASSUME TypeOK, NEW r \in Req, work[r].items # <<>>, NextItem(r)
  PROVE  work' \in [Req -> Handler]
<1>1. work[r] \in Handler
  BY DEF TypeOK
<1>2. Tail(work[r].items) \in Seq(Item)
  BY <1>1 DEF Handler
<1>3. [Idle EXCEPT !.pc = IF Len(work[r].items) > 1 THEN "item" ELSE "done",
                   !.kind = work[r].kind, !.items = Tail(work[r].items)] \in Handler
  BY <1>1, <1>2, IdleType DEF Handler, Pc
<1>. QED  BY <1>3 DEF NextItem, TypeOK

LEMMA FinishType ==
  ASSUME TypeOK, NEW r \in Req, work[r].items # <<>>,
         NEW what \in {"created", "existing", "conflict", "error"}, NEW hit \in Nat \cup {NULL},
         NEW failed \in BOOLEAN, Finish(r, what, hit, failed)
  PROVE  work' \in [Req -> Handler] /\ result' \in [Req -> Seq(Outcome)]
<1>1. work[r] \in Handler /\ Cur(r) \in Item
  BY DEF TypeOK, Cur, Handler
<1>2. [what |-> what, hit |-> hit, item |-> Cur(r),
       view |-> [work[r].view EXCEPT !.failed = @ \/ failed]] \in Outcome
  BY <1>1 DEF Outcome, Handler, View
<1>3. result' \in [Req -> Seq(Outcome)]
  BY <1>2 DEF Finish, TypeOK
<1>. QED  BY <1>3, NextItemType DEF Finish

\* A request in hand has an item.
InHand == \A r \in Req : work[r].pc \in Busy => work[r].items # <<>>

LEMMA DuplicateType ==
  ASSUME TypeOK, NEW r \in Req, work[r].items # <<>>, NEW a \in Nat, Duplicate(r, a)
  PROVE  work' \in [Req -> Handler] /\ result' \in [Req -> Seq(Outcome)]
<1>1. CASE work[r].kind = "api"
  BY <1>1, FinishType DEF Duplicate
<1>2. CASE work[r].kind # "api"
  <2>1. work' = [work EXCEPT ![r].pc = "fetch", ![r].hit = a] /\ result' = result
    BY <1>2 DEF Duplicate
  <2>2. "fetch" \in Pc
    BY PcValues
  <2>3. work' \in [Req -> Handler]
    BY <2>1, <2>2, HitType
  <2>. QED  BY <2>1, <2>3 DEF TypeOK
<1>. QED  BY <1>1, <1>2

LEMMA HandleType ==
  ASSUME TypeOK, InHand, NEW r \in Req, Receive(r) \/ Handle(r)
  PROVE  TypeOK'
<1>1. work[r] \in Handler /\ (work[r].items # <<>> => Cur(r) \in Item)
  BY DEF TypeOK, Cur, Handler
<1>2. CASE Receive(r)
  <2>1. PICK kind \in Kind : \E items \in Payload(kind) :
          work' = [work EXCEPT ![r] = [Idle EXCEPT !.pc = "item", !.kind = kind, !.items = items]]
    BY <1>2 DEF Receive
  <2>2. PICK items \in Payload(kind) :
          work' = [work EXCEPT ![r] = [Idle EXCEPT !.pc = "item", !.kind = kind, !.items = items]]
    BY <2>1
  <2>3. items \in Seq(Item)
    BY PayloadType
  <2>4. work' \in [Req -> Handler]
    BY <2>2, <2>3, IdleType DEF TypeOK, Handler, Pc
  <2>. QED  BY <1>2, <2>4 DEF Receive, TypeOK
<1>3. CASE SkipItem(r)
  <2>1. work' \in [Req -> Handler]
    BY <1>3, NextItemType, PcType DEF SkipItem, Pc
  <2>. QED  BY <1>3, <2>1 DEF SkipItem, TypeOK
<1>4. CASE BeginItem(r)
  <2>1. CASE \E failed \in BOOLEAN : Finish(r, "error", NULL, failed)
    <3>1. work' \in [Req -> Handler] /\ result' \in [Req -> Seq(Outcome)]
      BY <1>4, <2>1, FinishType DEF BeginItem
    <3>. QED  BY <1>4, <3>1 DEF BeginItem, TypeOK
  <2>2. CASE ~\E failed \in BOOLEAN : Finish(r, "error", NULL, failed)
    <3>1. [seen |-> Len(alerts), open |-> {a \in DOMAIN alerts : Active(a)}, failed |-> FALSE] \in View
      BY DEF View, TypeOK
    <3>2. (IF Cur(r).key # NULL THEN "dedup" ELSE AfterDedup(Cur(r))) \in Pc
      BY DEF AfterDedup, Pc
    <3>3. /\ result' = result
          /\ work' = [work EXCEPT
               ![r].pc = IF Cur(r).key # NULL THEN "dedup" ELSE AfterDedup(Cur(r)),
               ![r].view = [seen |-> Len(alerts), open |-> {a \in DOMAIN alerts : Active(a)},
                            failed |-> FALSE]]
      BY <1>4, <2>2 DEF BeginItem
    <3>4. work' \in [Req -> Handler]
      BY <3>1, <3>2, <3>3, ViewType
    <3>. QED  BY <1>4, <3>3, <3>4 DEF BeginItem, TypeOK
  <2>. QED  BY <2>1, <2>2
<1>5. CASE SelectDedup(r)
  <2>1. work[r].items # <<>>
    BY <1>5 DEF SelectDedup, At, InHand, Busy
  <2>2. ASSUME NEW a \in ActiveWithKey(Cur(r).key), Duplicate(r, a)
        PROVE  work' \in [Req -> Handler] /\ result' \in [Req -> Seq(Outcome)]
    BY <2>1, <2>2, DuplicateType DEF ActiveWithKey, TypeOK
  <2>3. AfterDedup(Cur(r)) \in Pc
    BY DEF AfterDedup, Pc
  <2>4. faults' \in 0..MaxFaults
    BY <1>5, BoundAssumption DEF SelectDedup, Fail, TypeOK
  <2>5. CASE UNCHANGED result
    <3>1. work' \in [Req -> Handler]
      <4>1. CASE work' = [work EXCEPT ![r].pc = AfterDedup(Cur(r))]
        BY <2>3, <4>1, PcType
      <4>2. CASE work' = [work EXCEPT ![r].pc = AfterDedup(Cur(r)), ![r].view.failed = TRUE]
        BY <2>3, <4>2, FailedType
      <4>. QED  BY <1>5, <2>2, <4>1, <4>2 DEF SelectDedup
    <3>. QED  BY <1>5, <2>4, <2>5, <3>1 DEF SelectDedup, TypeOK
  <2>. QED  BY <1>5, <2>2, <2>4, <2>5 DEF SelectDedup, TypeOK
<1>6. CASE SelectGroup(r)
  <2>1. faults' \in 0..MaxFaults
    BY <1>6, BoundAssumption DEF SelectGroup, Fail, TypeOK
  <2>2. work' \in [Req -> Handler]
    <3>1. "insert" \in Pc /\ (ActiveInGroup(Cur(r).group) # {}) \in BOOLEAN
      BY PcValues
    <3>2. CASE work' = [work EXCEPT ![r].pc = "insert",
                                    ![r].suppress = ActiveInGroup(Cur(r).group) # {}]
      BY <3>1, <3>2, SuppressType
    <3>3. CASE work' = [work EXCEPT ![r].pc = "insert", ![r].view.failed = TRUE]
      BY <3>1, <3>3, FailedType
    <3>. QED  BY <1>6, <3>2, <3>3 DEF SelectGroup
  <2>. QED  BY <1>6, <2>1, <2>2 DEF SelectGroup, TypeOK
<1>7. CASE Insert(r)
  <2>1. NewRow(r) \in Row
    BY <1>1, <1>7 DEF NewRow, Row, Insert, At, InHand, Busy, Item, Handler
  <2>2. work' \in [Req -> Handler]
    <3>1. "log" \in Pc /\ Len(alerts) + 1 \in Nat
      BY PcValues DEF TypeOK
    <3>. QED  BY <1>7, <3>1, HitType DEF Insert
  <2>3. alerts' \in Seq(Row) /\ origin' \in Seq(View) /\ Len(origin') = Len(alerts')
    BY <1>1, <1>7, <2>1 DEF Insert, TypeOK, Handler
  <2>. QED  BY <1>7, <2>2, <2>3 DEF Insert, TypeOK
<1>8. CASE InsertFails(r)
  <2>1. work[r].items # <<>>
    BY <1>8 DEF InsertFails, At, InHand, Busy
  <2>2. faults' \in 0..MaxFaults
    BY <1>8, BoundAssumption DEF InsertFails, Fail, TypeOK
  <2>3. Accepted(r) \in BOOLEAN
    BY DEF Accepted, TypeOK
  <2>4. CASE Cur(r).key # NULL
    <3>1. "reselect" \in Pc /\ (work[r].view.failed \/ Accepted(r)) \in BOOLEAN
      BY PcValues
    <3>2. work' \in [Req -> Handler]
      <4>. DEFINE failed == work[r].view.failed \/ Accepted(r)
      <4>1. failed \in BOOLEAN /\ work' = [work EXCEPT ![r].pc = "reselect", ![r].view.failed = failed]
        BY <1>8, <2>4, <3>1 DEF InsertFails
      <4>. HIDE DEF failed
      <4>. QED  BY <3>1, <4>1, FailedType
    <3>. QED  BY <1>8, <2>2, <2>4, <3>2 DEF InsertFails, TypeOK
  <2>5. CASE Cur(r).key = NULL
    BY <1>8, <2>1, <2>2, <2>3, <2>5, FinishType DEF InsertFails, TypeOK
  <2>. QED  BY <2>4, <2>5
<1>9. CASE Reselect(r)
  <2>1. work[r].items # <<>>
    BY <1>9 DEF Reselect, At, InHand, Busy
  <2>2. faults' \in 0..MaxFaults
    <3>1. faults' = faults \/ Fail
      BY <1>9 DEF Reselect
    <3>. QED  BY <3>1, BoundAssumption DEF Fail, TypeOK
  <2>3. work' \in [Req -> Handler] /\ result' \in [Req -> Seq(Outcome)]
    <3>1. ASSUME NEW a \in ActiveWithKey(Cur(r).key), Duplicate(r, a)
          PROVE  work' \in [Req -> Handler] /\ result' \in [Req -> Seq(Outcome)]
      BY <2>1, <3>1, DuplicateType DEF ActiveWithKey, TypeOK
    <3>2. ASSUME NEW failed \in BOOLEAN, Finish(r, "error", NULL, failed)
          PROVE  work' \in [Req -> Handler] /\ result' \in [Req -> Seq(Outcome)]
      BY <2>1, <3>2, FinishType
    <3>. QED  BY <1>9, <3>1, <3>2 DEF Reselect
  <2>. QED  BY <1>9, <2>2, <2>3 DEF Reselect, TypeOK
<1>10. CASE Fetch(r)
  <2>1. work[r].items # <<>>
    BY <1>10 DEF Fetch, At, InHand, Busy
  <2>2. faults' \in 0..MaxFaults
    <3>1. faults' = faults \/ Fail
      BY <1>10 DEF Fetch
    <3>. QED  BY <3>1, BoundAssumption DEF Fail, TypeOK
  <2>3. work[r].hit \in Nat \cup {NULL}
    BY <1>1 DEF Handler
  <2>4. work' \in [Req -> Handler] /\ result' \in [Req -> Seq(Outcome)]
    BY <1>10, <2>1, <2>3, FinishType DEF Fetch
  <2>. QED  BY <1>10, <2>2, <2>4 DEF Fetch, TypeOK
<1>11. CASE CreateLog(r)
  <2>1. work[r].items # <<>> /\ work[r].hit \in Nat \cup {NULL}
    BY <1>1, <1>11 DEF CreateLog, At, InHand, Busy, Handler
  <2>. QED  BY <1>11, <2>1, FinishType DEF CreateLog, TypeOK
<1>. QED  BY <1>2, <1>3, <1>4, <1>5, <1>6, <1>7, <1>8, <1>9, <1>10, <1>11 DEF Handle

\* What users do to a row.
LEMMA UsersType == ASSUME TypeOK, Users \/ DeleteService PROVE TypeOK'
<1>1. ASSUME NEW a \in DOMAIN alerts, NEW s \in {"triggered", "acknowledged", "resolved", "gone"},
             SetStatus(a, s)
      PROVE  TypeOK'
  <2>1. [alerts[a] EXCEPT !.status = s] \in Row
    <3>1. alerts[a] \in Row
      BY DEF TypeOK
    <3>. QED  BY <3>1 DEF Row
  <2>2. alerts' = [alerts EXCEPT ![a] = [alerts[a] EXCEPT !.status = s]]
    BY <1>1 DEF SetStatus
  <2>3. alerts' \in Seq(Row) /\ Len(alerts') = Len(alerts)
    BY <2>1, <2>2 DEF TypeOK
  <2>. QED  BY <1>1, <2>3 DEF SetStatus, TypeOK
<1>2. CASE DeleteService
  <2>1. alerts' \in Seq(Row) /\ Len(alerts') = Len(alerts)
    <3>1. ASSUME NEW a \in DOMAIN alerts PROVE [alerts[a] EXCEPT !.status = "gone"] \in Row
      <4>1. alerts[a] \in Row
        BY DEF TypeOK
      <4>. QED  BY <4>1 DEF Row
    <3>. QED  BY <1>2, <3>1 DEF DeleteService, TypeOK
  <2>. QED  BY <1>2, <2>1 DEF DeleteService, TypeOK
<1>. QED  BY <1>1, <1>2 DEF Users, Acknowledge, Resolve, Purge
-----------------------------------------------------------------------------
(* What a handler knows of the table while other statements change it.         *)

\* The alerts that are active were so while the request ran: none comes back.
Open(view) == \A a \in DOMAIN alerts : Active(a) => WasActive(a, view)

\* The alert found has the key asked for and was active.
Found(r) ==
  LET a == work[r].hit IN
    a \in DOMAIN alerts /\ alerts[a].key = Cur(r).key /\ WasActive(a, work[r].view)

\* Why the row was refused.
Collided(r) ==
  \/ work[r].view.failed \/ ~service
  \/ \E a \in DOMAIN alerts : alerts[a].key = Cur(r).key /\ WasActive(a, work[r].view)

\* What is known about the group once it was looked for.
Looked(r) ==
  IF work[r].suppress
    THEN \E b \in DOMAIN alerts :
           alerts[b].group = Cur(r).group /\ WasActive(b, work[r].view)
    ELSE Cur(r).group # NULL /\ ~work[r].view.failed =>
           \A a \in DOMAIN alerts :
             Active(a) /\ alerts[a].group = Cur(r).group => a > work[r].view.seen

RequestTrue(r) ==
  /\ work[r].pc \in {"item", "dedup", "group"} => ~work[r].suppress
  /\ work[r].pc \in Busy =>
       /\ work[r].items # <<>>
       /\ work[r].view.seen <= Len(alerts) /\ Open(work[r].view)
       /\ work[r].pc = "fetch" => Found(r)
       /\ work[r].pc = "reselect" => Collided(r)
       /\ work[r].pc = "insert" => Looked(r)

OutcomeTrue(o) ==
  /\ o.what \in {"existing", "conflict"} =>
       o.hit \in DOMAIN alerts /\ WasActive(o.hit, o.view) /\ alerts[o.hit].key = o.item.key
  /\ o.what = "error" =>
       \/ o.view.failed
       \/ ~service
       \/ \E a \in DOMAIN alerts :
            alerts[a].key = o.item.key /\ ~Active(a) /\ WasActive(a, o.view)

AnswersTrue(r) == \A i \in DOMAIN result[r] : OutcomeTrue(result[r][i])

RowsTrue == OneActivePerKey /\ SuppressionIsJustified /\ GroupPagesOnce

IInv == TypeOK /\ RowsTrue /\ \A r \in Req : RequestTrue(r) /\ AnswersTrue(r)

\* Rows are added at the end, keep their columns and never become active again.
Grows ==
  /\ Len(alerts) <= Len(alerts')
  /\ \A a \in DOMAIN alerts :
       /\ a \in DOMAIN alerts' /\ origin'[a] = origin[a]
       /\ alerts'[a].key = alerts[a].key /\ alerts'[a].group = alerts[a].group
       /\ alerts'[a].escalates = alerts[a].escalates
       /\ Active(a)' => Active(a)
  /\ \A a \in DOMAIN alerts' : a \in DOMAIN alerts \/ (a \in Nat /\ a > Len(alerts))
  /\ service' => service

LEMMA SameRowsGrow == ASSUME TypeOK, UNCHANGED <<alerts, origin, service>> PROVE Grows
BY DEF Grows, Active, TypeOK

LEMMA StepGrows == ASSUME TypeOK, [Next]_vars PROVE Grows
<1>1. ASSUME NEW r \in Req, Insert(r) PROVE Grows
  <2>1. alerts' = Append(alerts, NewRow(r)) /\ origin' = Append(origin, work[r].view) /\ service' = service
    BY <1>1 DEF Insert
  <2>2. \A a \in DOMAIN alerts : alerts'[a] = alerts[a] /\ origin'[a] = origin[a] /\ a \in DOMAIN alerts'
    BY <2>1 DEF TypeOK
  <2>3. Len(alerts') = Len(alerts) + 1 /\ DOMAIN alerts' = 1..(Len(alerts) + 1) /\ DOMAIN alerts = 1..Len(alerts)
    BY <2>1 DEF TypeOK
  <2>4. Len(alerts) \in Nat
    BY DEF TypeOK
  <2>5. \A a \in DOMAIN alerts : Active(a)' => Active(a)
    BY <2>2 DEF Active
  <2>6. \A a \in DOMAIN alerts' : a \in DOMAIN alerts \/ (a \in Nat /\ a > Len(alerts))
    BY <2>3, <2>4
  <2>7. Len(alerts) <= Len(alerts')
    BY <2>3, <2>4
  <2>. QED  BY <2>1, <2>2, <2>5, <2>6, <2>7 DEF Grows
<1>2. ASSUME NEW r \in Req,
             Receive(r) \/ SkipItem(r) \/ BeginItem(r) \/ SelectDedup(r) \/ SelectGroup(r)
               \/ InsertFails(r) \/ Reselect(r) \/ Fetch(r) \/ CreateLog(r)
      PROVE  Grows
  BY <1>2, SameRowsGrow DEF Receive, SkipItem, BeginItem, SelectDedup, SelectGroup,
                            InsertFails, Reselect, Fetch, CreateLog
<1>3. ASSUME NEW a \in DOMAIN alerts, Acknowledge(a) \/ Resolve(a) \/ Purge(a) PROVE Grows
  <2>1. PICK s : SetStatus(a, s) /\ (s \in {"triggered", "acknowledged"} => Active(a))
    BY <1>3 DEF Acknowledge, Resolve, Purge, Active
  <2>2. alerts' = [alerts EXCEPT ![a] = [alerts[a] EXCEPT !.status = s]]
    BY <2>1 DEF SetStatus
  <2>3. \A b \in DOMAIN alerts : alerts[b] \in Row
    BY DEF TypeOK
  <2>4. \A b \in DOMAIN alerts :
          alerts'[b] = IF b = a THEN [alerts[b] EXCEPT !.status = s] ELSE alerts[b]
    BY <2>2
  <2>5. alerts'[a].status = s /\ DOMAIN alerts' = DOMAIN alerts
    BY <2>2, <2>3 DEF Row
  <2>6. \A b \in DOMAIN alerts :
          /\ alerts'[b].key = alerts[b].key /\ alerts'[b].group = alerts[b].group
          /\ alerts'[b].escalates = alerts[b].escalates
    BY <2>3, <2>4 DEF Row
  <2>7. \A b \in DOMAIN alerts : Active(b)' => Active(b)
    BY <2>1, <2>4, <2>5 DEF Active
  <2>8. Len(alerts') = Len(alerts)
    BY <2>2 DEF TypeOK
  <2>9. Len(alerts) \in Nat
    BY DEF TypeOK
  <2>. QED  BY <2>1, <2>5, <2>6, <2>7, <2>8, <2>9 DEF Grows, SetStatus
<1>4. CASE DeleteService
  <2>1. \A b \in DOMAIN alerts : alerts[b] \in Row
    BY DEF TypeOK
  <2>2. DOMAIN alerts' = DOMAIN alerts /\ Len(alerts') = Len(alerts) /\ Len(alerts) \in Nat
    BY <1>4 DEF DeleteService, TypeOK
  <2>3. \A b \in DOMAIN alerts : alerts'[b] = [alerts[b] EXCEPT !.status = "gone"]
    BY <1>4 DEF DeleteService
  <2>4. \A b \in DOMAIN alerts :
          /\ alerts'[b].key = alerts[b].key /\ alerts'[b].group = alerts[b].group
          /\ alerts'[b].escalates = alerts[b].escalates /\ alerts'[b].status = "gone"
    BY <2>1, <2>3 DEF Row
  <2>. QED  BY <1>4, <2>2, <2>4 DEF Grows, Active, DeleteService
<1>5. CASE UNCHANGED vars
  BY <1>5, SameRowsGrow DEF vars
<1>. QED  BY <1>1, <1>2, <1>3, <1>4, <1>5 DEF Next, Handle, Users

\* An alert that was active while a request ran stays one.
LEMMA OpenStays ==
  ASSUME Grows, TypeOK, NEW view \in View, view.seen <= Len(alerts), Open(view)
  PROVE  view.seen <= Len(alerts)' /\ Open(view)'
<1>1. Len(alerts) \in Nat /\ Len(alerts') \in Nat /\ view.seen \in Nat
  BY DEF TypeOK, View, Grows
<1>2. ASSUME NEW a \in DOMAIN alerts', Active(a)' PROVE WasActive(a, view)
  BY <1>1, <1>2 DEF Grows, Open, WasActive
<1>. QED  BY <1>1, <1>2 DEF Grows, Open, WasActive
-----------------------------------------------------------------------------
(* Requests whose handler the step leaves alone, answers and rows.             *)

LEMMA OthersKeep ==
  ASSUME TypeOK, Grows, NEW r \in Req, RequestTrue(r), work'[r] = work[r]
  PROVE  RequestTrue(r)'
<1>1. PICK w \in Handler : w = work[r] /\ w = work'[r]
  BY DEF TypeOK
<1>2. w.view \in View /\ w.view.seen \in Nat
  BY DEF Handler, View
<1>3. CASE w.pc \notin Busy
  BY <1>1, <1>3 DEF RequestTrue
<1>4. CASE w.pc \in Busy
  <2>1. w.view.seen <= Len(alerts)' /\ Open(w.view)'
    BY <1>1, <1>2, <1>4, OpenStays DEF RequestTrue
  <2>2. Found(r) => Found(r)'
    BY <1>1 DEF Found, Grows, Cur, WasActive
  <2>3. Collided(r) => Collided(r)'
    BY <1>1 DEF Collided, Grows, Cur, WasActive
  <2>4. Looked(r) => Looked(r)'
    <3>1. CASE w.suppress
      BY <1>1, <3>1 DEF Looked, Grows, Cur, WasActive
    <3>2. CASE ~w.suppress
      <4>1. \A a \in DOMAIN alerts' : a \in DOMAIN alerts \/ a > w.view.seen
        <5>1. Len(alerts) \in Nat /\ w.view.seen <= Len(alerts)
          BY <1>1, <1>4 DEF RequestTrue, TypeOK
        <5>. QED  BY <1>2, <5>1 DEF Grows
      <4>. QED  BY <1>1, <3>2, <4>1 DEF Looked, Grows, Cur
    <3>. QED  BY <3>1, <3>2
  <2>. QED  BY <1>1, <1>4, <2>1, <2>2, <2>3, <2>4 DEF RequestTrue
<1>. QED  BY <1>3, <1>4

LEMMA OutcomeStays ==
  ASSUME Grows, NEW o, OutcomeTrue(o)
  PROVE  OutcomeTrue(o)'
<1>1. CASE o.what \in {"existing", "conflict"}
  BY <1>1 DEF OutcomeTrue, Grows, WasActive
<1>2. CASE o.what = "error"
  BY <1>2 DEF OutcomeTrue, Grows, WasActive
<1>. QED  BY <1>1, <1>2 DEF OutcomeTrue

LEMMA AnswersKeep ==
  ASSUME Grows, NEW r \in Req, AnswersTrue(r), result'[r] = result[r]
  PROVE  AnswersTrue(r)'
<1>1. ASSUME NEW i \in DOMAIN result'[r], NEW o, o = result'[r][i] PROVE OutcomeTrue(o)'
  <2>1. OutcomeTrue(o)
    BY <1>1 DEF AnswersTrue
  <2>. QED  BY <2>1, OutcomeStays
<1>. QED  BY <1>1 DEF AnswersTrue, OutcomeTrue

LEMMA RowsKeep ==
  ASSUME TypeOK, Grows, RowsTrue, DOMAIN alerts' = DOMAIN alerts
  PROVE  RowsTrue'
<1>1. OneActivePerKey'
  BY DEF RowsTrue, OneActivePerKey, Grows
<1>2. SuppressionIsJustified'
  <2>. SUFFICES ASSUME NEW a \in DOMAIN alerts, ~alerts'[a].escalates
                PROVE  \E b \in 1..(a - 1) : alerts'[b].group = alerts'[a].group /\ WasActive(b, origin'[a])
    BY DEF SuppressionIsJustified, WasActive
  <2>1. PICK b \in 1..(a - 1) : alerts[b].group = alerts[a].group /\ WasActive(b, origin[a])
    BY DEF RowsTrue, SuppressionIsJustified, Grows
  <2>2. b \in DOMAIN alerts
    BY DEF TypeOK
  <2>. QED  BY <2>1, <2>2 DEF Grows
<1>3. GroupPagesOnce'
  BY DEF RowsTrue, GroupPagesOnce, Grows
<1>. QED  BY <1>1, <1>2, <1>3 DEF RowsTrue

\* An item that is finished leaves a true outcome and a handler at its next item.
LEMMA FinishKeeps ==
  ASSUME IInv, Grows, NEW r \in Req, NEW what, NEW hit, NEW failed \in BOOLEAN,
         Finish(r, what, hit, failed),
         NEW o, o = [what |-> what, hit |-> hit, item |-> Cur(r),
                     view |-> [work[r].view EXCEPT !.failed = @ \/ failed]],
         OutcomeTrue(o)'
  PROVE  /\ RequestTrue(r)' /\ AnswersTrue(r)'
         /\ \A q \in Req \ {r} : work'[q] = work[q] /\ result'[q] = result[q]
<1>1. work'[r].pc \in {"item", "done"} /\ ~work'[r].suppress
  BY DEF Finish, NextItem, Idle, IInv, TypeOK
<1>2. RequestTrue(r)'
  BY <1>1 DEF RequestTrue, Busy
<1>3. result'[r] = Append(result[r], o) /\ result[r] \in Seq(Outcome)
  BY DEF Finish, IInv, TypeOK
<1>4. ASSUME NEW i \in DOMAIN result'[r], NEW p, p = result'[r][i] PROVE OutcomeTrue(p)'
  <2>1. CASE i \in DOMAIN result[r]
    <3>1. p = result[r][i]
      BY <1>3, <1>4, <2>1
    <3>2. OutcomeTrue(p)
      BY <2>1, <3>1 DEF IInv, AnswersTrue
    <3>. QED  BY <3>2, OutcomeStays
  <2>2. CASE i \notin DOMAIN result[r]
    <3>1. p = o
      BY <1>3, <1>4, <2>2
    <3>. QED  BY <3>1
  <2>. QED  BY <2>1, <2>2
<1>5. AnswersTrue(r)'
  BY <1>4 DEF AnswersTrue, OutcomeTrue
<1>. QED  BY <1>2, <1>5 DEF Finish, NextItem, IInv, TypeOK
-----------------------------------------------------------------------------
(* The request that takes the step.                                            *)

OthersFramed(r) == \A q \in Req \ {r} : work'[q] = work[q] /\ result'[q] = result[q]

LEMMA ErrorKeeps ==
  ASSUME IInv, Grows, NEW r \in Req, NEW hit, NEW failed \in BOOLEAN,
         Finish(r, "error", hit, failed), UNCHANGED <<alerts, service>>,
         \/ failed \/ work[r].view.failed \/ ~service
         \/ \E a \in DOMAIN alerts :
              alerts[a].key = Cur(r).key /\ ~Active(a) /\ WasActive(a, work[r].view)
  PROVE  RequestTrue(r)' /\ AnswersTrue(r)' /\ OthersFramed(r)
<1>1. PICK o : o = [what |-> "error", hit |-> hit, item |-> Cur(r),
                    view |-> [work[r].view EXCEPT !.failed = @ \/ failed]]
  OBVIOUS
<1>2. /\ o.what = "error" /\ o.item = Cur(r)
      /\ o.view.seen = work[r].view.seen /\ o.view.open = work[r].view.open
      /\ o.view.failed = (work[r].view.failed \/ failed)
  BY <1>1 DEF IInv, TypeOK, Handler, View
<1>3. OutcomeTrue(o)
  BY <1>2 DEF OutcomeTrue, WasActive
<1>. QED  BY <1>1, <1>3, OutcomeStays, FinishKeeps DEF OthersFramed

LEMMA DuplicateKeeps ==
  ASSUME IInv, Grows, NEW r \in Req, work[r].pc \in Busy, NEW a \in ActiveWithKey(Cur(r).key),
         Duplicate(r, a), UNCHANGED <<alerts, service>>
  PROVE  RequestTrue(r)' /\ AnswersTrue(r)' /\ OthersFramed(r)
<1>1. a \in DOMAIN alerts /\ alerts[a].key = Cur(r).key /\ WasActive(a, work[r].view)
  BY DEF ActiveWithKey, IInv, RequestTrue, Open
<1>2. CASE work[r].kind = "api"
  <2>1. PICK o : o = [what |-> "conflict", hit |-> a, item |-> Cur(r),
                      view |-> [work[r].view EXCEPT !.failed = @ \/ FALSE]]
    OBVIOUS
  <2>2. /\ o.what = "conflict" /\ o.hit = a /\ o.item = Cur(r)
        /\ o.view.seen = work[r].view.seen /\ o.view.open = work[r].view.open
    BY <2>1 DEF IInv, TypeOK, Handler, View
  <2>3. OutcomeTrue(o)
    BY <1>1, <2>2 DEF OutcomeTrue, WasActive
  <2>4. Finish(r, "conflict", a, FALSE)
    BY <1>2 DEF Duplicate
  <2>. QED  BY <2>1, <2>3, <2>4, OutcomeStays, FinishKeeps DEF OthersFramed
<1>3. CASE work[r].kind # "api"
  <2>1. work' = [work EXCEPT ![r].pc = "fetch", ![r].hit = a] /\ result' = result
    BY <1>3 DEF Duplicate
  <2>2. /\ work'[r].pc = "fetch" /\ work'[r].hit = a /\ work'[r].items = work[r].items
        /\ work'[r].view = work[r].view
    BY <2>1 DEF IInv, TypeOK, Handler
  <2>3. Found(r)'
    BY <1>1, <2>2 DEF Found, Cur, WasActive
  <2>4. RequestTrue(r)'
    BY <2>2, <2>3 DEF IInv, RequestTrue, Open, Busy, Active, WasActive
  <2>. QED  BY <2>1, <2>4, AnswersKeep DEF OthersFramed, IInv, TypeOK
<1>. QED  BY <1>2, <1>3

LEMMA BeginItemKeeps ==
  ASSUME IInv, Grows, NEW r \in Req, BeginItem(r)
  PROVE  RequestTrue(r)' /\ AnswersTrue(r)' /\ OthersFramed(r)
<1>1. UNCHANGED <<alerts, service, origin>> /\ work[r].pc = "item" /\ work[r].items # <<>>
  BY DEF BeginItem, At
<1>2. CASE ~service /\ Finish(r, "error", NULL, FALSE)
  BY <1>1, <1>2, ErrorKeeps
<1>3. CASE Finish(r, "error", NULL, TRUE)
  BY <1>1, <1>3, ErrorKeeps
<1>4. CASE /\ work' = [work EXCEPT
                ![r].pc = IF Cur(r).key # NULL THEN "dedup" ELSE AfterDedup(Cur(r)),
                ![r].view = [seen |-> Len(alerts), open |-> {a \in DOMAIN alerts : Active(a)},
                             failed |-> FALSE]]
           /\ UNCHANGED result
  <2>1. /\ work'[r].pc = (IF Cur(r).key # NULL THEN "dedup" ELSE AfterDedup(Cur(r)))
        /\ work'[r].view = [seen |-> Len(alerts), open |-> {a \in DOMAIN alerts : Active(a)},
                            failed |-> FALSE]
        /\ work'[r].items = work[r].items /\ work'[r].suppress = work[r].suppress
    BY <1>4 DEF IInv, TypeOK, Handler
  <2>2. ~work'[r].suppress
    BY <1>1, <2>1 DEF IInv, RequestTrue
  <2>3. work'[r].pc \in {"dedup", "group", "insert"} /\ (work'[r].pc = "insert" => Cur(r).group = NULL)
    BY <2>1 DEF AfterDedup
  <2>4. work'[r].view.seen <= Len(alerts)'
    BY <1>1, <2>1 DEF IInv, TypeOK
  <2>5. Open(work[r].view)'
    BY <1>1, <2>1 DEF Open, WasActive, Active
  <2>6. work'[r].pc = "insert" => Looked(r)'
    BY <2>1, <2>2, <2>3 DEF Looked, Cur
  <2>7. RequestTrue(r)'
    BY <1>1, <2>1, <2>2, <2>3, <2>4, <2>5, <2>6 DEF RequestTrue
  <2>. QED  BY <1>4, <2>7, AnswersKeep DEF OthersFramed, IInv, TypeOK
<1>. QED  BY <1>2, <1>3, <1>4 DEF BeginItem

LEMMA SelectDedupKeeps ==
  ASSUME IInv, Grows, NEW r \in Req, SelectDedup(r)
  PROVE  RequestTrue(r)' /\ AnswersTrue(r)' /\ OthersFramed(r)
<1>1. UNCHANGED <<alerts, service, origin>> /\ work[r].pc = "dedup" /\ work[r].pc \in Busy
  BY DEF SelectDedup, At, Busy
<1>2. ASSUME NEW a \in ActiveWithKey(Cur(r).key), Duplicate(r, a)
      PROVE  RequestTrue(r)' /\ AnswersTrue(r)' /\ OthersFramed(r)
  BY <1>1, <1>2, DuplicateKeeps
<1>3. CASE /\ \/ work' = [work EXCEPT ![r].pc = AfterDedup(Cur(r))]
              \/ work' = [work EXCEPT ![r].pc = AfterDedup(Cur(r)), ![r].view.failed = TRUE]
           /\ UNCHANGED result
  <2>1. /\ work'[r].pc = AfterDedup(Cur(r))
        /\ work'[r].view.seen = work[r].view.seen /\ work'[r].view.open = work[r].view.open
        /\ work'[r].items = work[r].items /\ work'[r].suppress = work[r].suppress
        /\ \A q \in Req \ {r} : work'[q] = work[q]
    BY <1>3 DEF IInv, TypeOK, Handler, View
  <2>2. ~work'[r].suppress
    BY <1>1, <2>1 DEF IInv, RequestTrue
  <2>3. work'[r].pc \in {"group", "insert"} /\ (work'[r].pc = "insert" => Cur(r).group = NULL)
    BY <2>1 DEF AfterDedup
  <2>4. work[r].items # <<>> /\ work'[r].view.seen <= Len(alerts)' /\ Open(work[r].view)'
    BY <1>1, <2>1 DEF IInv, RequestTrue, Open, WasActive, Active
  <2>5. work'[r].pc = "insert" => Looked(r)'
    BY <2>1, <2>2, <2>3 DEF Looked, Cur
  <2>6. RequestTrue(r)'
    BY <2>1, <2>2, <2>3, <2>4, <2>5 DEF RequestTrue
  <2>. QED  BY <1>3, <2>1, <2>6, AnswersKeep DEF OthersFramed, IInv
<1>. QED  BY <1>2, <1>3 DEF SelectDedup

LEMMA SelectGroupKeeps ==
  ASSUME IInv, Grows, NEW r \in Req, SelectGroup(r)
  PROVE  RequestTrue(r)' /\ AnswersTrue(r)' /\ OthersFramed(r)
<1>1. UNCHANGED <<alerts, service, origin, result>> /\ work[r].pc = "group" /\ work[r].pc \in Busy
  BY DEF SelectGroup, At, Busy
<1>2. ~work[r].suppress /\ work[r].items # <<>> /\ Open(work[r].view)
      /\ work[r].view.seen <= Len(alerts)
  BY <1>1 DEF IInv, RequestTrue
<1>3. CASE work' = [work EXCEPT ![r].pc = "insert",
                                ![r].suppress = ActiveInGroup(Cur(r).group) # {}]
  <2>1. /\ work'[r].pc = "insert" /\ work'[r].suppress = (ActiveInGroup(Cur(r).group) # {})
        /\ work'[r].view = work[r].view /\ work'[r].items = work[r].items
    BY <1>3 DEF IInv, TypeOK, Handler
  <2>2. Looked(r)'
    <3>1. CASE ActiveInGroup(Cur(r).group) = {}
      BY <1>1, <2>1, <3>1 DEF Looked, Cur, ActiveInGroup, Active
    <3>2. CASE ActiveInGroup(Cur(r).group) # {}
      <4>1. PICK b \in DOMAIN alerts : Active(b) /\ alerts[b].group = Cur(r).group
        BY <3>2 DEF ActiveInGroup
      <4>. QED  BY <1>1, <1>2, <2>1, <3>2, <4>1 DEF Looked, Cur, Open, WasActive
    <3>. QED  BY <3>1, <3>2
  <2>3. Open(work[r].view)'
    BY <1>1, <1>2, <2>1 DEF Open, WasActive, Active
  <2>4. RequestTrue(r)'
    BY <1>1, <1>2, <2>1, <2>2, <2>3 DEF RequestTrue
  <2>. QED  BY <1>1, <1>3, <2>4, AnswersKeep DEF OthersFramed, IInv, TypeOK
<1>4. CASE work' = [work EXCEPT ![r].pc = "insert", ![r].view.failed = TRUE]
  <2>1. /\ work'[r].pc = "insert" /\ work'[r].suppress = work[r].suppress
        /\ work'[r].view.seen = work[r].view.seen /\ work'[r].view.open = work[r].view.open
        /\ work'[r].view.failed /\ work'[r].items = work[r].items
        /\ \A q \in Req \ {r} : work'[q] = work[q]
    BY <1>4 DEF IInv, TypeOK, Handler, View
  <2>2. Looked(r)'
    BY <1>2, <2>1 DEF Looked
  <2>3. Open(work[r].view)'
    BY <1>1, <1>2, <2>1 DEF Open, WasActive, Active
  <2>4. RequestTrue(r)'
    BY <1>1, <1>2, <2>1, <2>2, <2>3 DEF RequestTrue
  <2>. QED  BY <1>1, <2>1, <2>4, AnswersKeep DEF OthersFramed, IInv
<1>. QED  BY <1>3, <1>4 DEF SelectGroup
LEMMA InsertKeeps ==
  ASSUME IInv, Grows, NEW r \in Req, Insert(r)
  PROVE  RequestTrue(r)' /\ AnswersTrue(r)' /\ OthersFramed(r)
<1>1. /\ work' = [work EXCEPT ![r].pc = "log", ![r].hit = Len(alerts) + 1]
      /\ result' = result /\ work[r].pc = "insert" /\ work[r].pc \in Busy
  BY DEF Insert, At, Busy
<1>2. /\ work'[r].pc = "log" /\ work'[r].view = work[r].view /\ work'[r].items = work[r].items
      /\ work[r].view \in View
  BY <1>1 DEF IInv, TypeOK, Handler
<1>3. work[r].items # <<>> /\ work[r].view.seen <= Len(alerts) /\ Open(work[r].view)
  BY <1>1 DEF IInv, RequestTrue
<1>4. ASSUME NEW view \in View, view = work[r].view PROVE view.seen <= Len(alerts)' /\ Open(view)'
  BY <1>3, <1>4, OpenStays DEF IInv
<1>5. RequestTrue(r)'
  BY <1>2, <1>3, <1>4 DEF RequestTrue, Open
<1>. QED  BY <1>1, <1>5, AnswersKeep DEF OthersFramed, IInv, TypeOK

\* The new row has no active row with its key beside it, and it pages or is
\* suppressed for what its request has seen of the group.
LEMMA InsertKeepsRows == ASSUME IInv, NEW r \in Req, Insert(r) PROVE RowsTrue'
<1>. DEFINE n == Len(alerts) + 1
<1>1. /\ alerts' = Append(alerts, NewRow(r)) /\ origin' = Append(origin, work[r].view)
      /\ work[r].pc = "insert" /\ work[r].pc \in Busy /\ ~Taken(Cur(r).key)
  BY DEF Insert, Accepted, At, Busy
<1>2. /\ DOMAIN alerts = 1..Len(alerts) /\ DOMAIN alerts' = 1..n /\ n \in Nat
      /\ \A a \in DOMAIN alerts : alerts'[a] = alerts[a] /\ origin'[a] = origin[a]
      /\ alerts'[n] = NewRow(r) /\ origin'[n] = work[r].view
  BY <1>1 DEF IInv, TypeOK
<1>3. \A a \in DOMAIN alerts' : a = n \/ (a \in DOMAIN alerts /\ a < n)
  BY <1>2
<1>4. /\ alerts'[n].key = Cur(r).key /\ alerts'[n].group = Cur(r).group
      /\ alerts'[n].escalates = ~work[r].suppress
  BY <1>2 DEF NewRow
<1>5. Looked(r)
  BY <1>1 DEF IInv, RequestTrue
<1>6. \A a \in DOMAIN alerts : Active(a)' = Active(a)
  BY <1>2 DEF Active
<1>7. OneActivePerKey'
  <2>1. \A a \in DOMAIN alerts : Active(a) /\ alerts[a].key = Cur(r).key => Cur(r).key = NULL
    BY <1>1 DEF Taken
  <2>2. OneActivePerKey
    BY DEF IInv, RowsTrue
  <2>. QED  BY <1>2, <1>3, <1>4, <1>6, <2>1, <2>2 DEF OneActivePerKey
<1>8. SuppressionIsJustified'
  <2>. SUFFICES ASSUME NEW a \in DOMAIN alerts', ~alerts'[a].escalates
                PROVE  \E b \in 1..(a - 1) : alerts'[b].group = alerts'[a].group /\ WasActive(b, origin'[a])
    BY DEF SuppressionIsJustified, WasActive
  <2>1. CASE a = n
    <3>1. PICK b \in DOMAIN alerts : alerts[b].group = Cur(r).group /\ WasActive(b, work[r].view)
      BY <1>4, <1>5, <2>1 DEF Looked
    <3>2. b \in 1..(a - 1)
      BY <1>2, <2>1
    <3>. QED  BY <1>2, <1>4, <2>1, <3>1, <3>2
  <2>2. CASE a \in DOMAIN alerts
    <3>1. PICK b \in 1..(a - 1) : alerts[b].group = alerts[a].group /\ WasActive(b, origin[a])
      BY <1>2, <2>2 DEF IInv, RowsTrue, SuppressionIsJustified
    <3>2. b \in DOMAIN alerts
      BY <1>2, <2>2
    <3>. QED  BY <1>2, <2>2, <3>1, <3>2
  <2>. QED  BY <1>3, <2>1, <2>2
<1>9. GroupPagesOnce'
  <2>. SUFFICES ASSUME NEW a \in DOMAIN alerts', NEW b \in DOMAIN alerts', a < b, Active(a)',
                       alerts'[a].group = alerts'[b].group, alerts'[a].group # NULL,
                       alerts'[a].escalates, alerts'[b].escalates
                PROVE  origin'[b].seen < a \/ origin'[b].failed
    BY DEF GroupPagesOnce
  <2>1. a \in DOMAIN alerts
    BY <1>2
  <2>2. CASE b = n
    BY <1>2, <1>4, <1>5, <1>6, <2>1, <2>2 DEF Looked
  <2>3. CASE b \in DOMAIN alerts
    BY <1>2, <1>6, <2>1, <2>3 DEF IInv, RowsTrue, GroupPagesOnce
  <2>. QED  BY <1>3, <2>2, <2>3
<1>. QED  BY <1>7, <1>8, <1>9 DEF RowsTrue

LEMMA InsertFailsKeeps ==
  ASSUME IInv, Grows, NEW r \in Req, InsertFails(r)
  PROVE  RequestTrue(r)' /\ AnswersTrue(r)' /\ OthersFramed(r)
<1>1. UNCHANGED <<alerts, service, origin>> /\ work[r].pc = "insert" /\ work[r].pc \in Busy
  BY DEF InsertFails, At, Busy
<1>2. Accepted(r) \in BOOLEAN
  BY DEF Accepted, IInv, TypeOK
<1>3. work[r].items # <<>> /\ work[r].view.seen <= Len(alerts) /\ Open(work[r].view)
  BY <1>1 DEF IInv, RequestTrue
<1>4. CASE Cur(r).key = NULL
  <2>1. Finish(r, "error", NULL, Accepted(r)) /\ (Accepted(r) \/ ~service)
    BY <1>4 DEF InsertFails, Accepted, Taken
  <2>. QED  BY <1>1, <1>2, <2>1, ErrorKeeps
<1>5. CASE Cur(r).key # NULL
  <2>1. /\ work' = [work EXCEPT ![r].pc = "reselect", ![r].view.failed = @ \/ Accepted(r)]
        /\ result' = result
    BY <1>5 DEF InsertFails
  <2>2. /\ work'[r].pc = "reselect" /\ work'[r].items = work[r].items
        /\ work'[r].view.seen = work[r].view.seen /\ work'[r].view.open = work[r].view.open
        /\ (Accepted(r) => work'[r].view.failed)
        /\ \A q \in Req \ {r} : work'[q] = work[q]
    BY <1>2, <2>1 DEF IInv, TypeOK, Handler, View
  <2>3. Open(work[r].view)'
    BY <1>1, <1>3, <2>2 DEF Open, WasActive, Active
  <2>4. Collided(r)'
    <3>1. CASE Accepted(r)
      BY <2>2, <3>1 DEF Collided
    <3>2. CASE ~service
      BY <1>1, <3>2 DEF Collided
    <3>3. CASE Taken(Cur(r).key)
      <4>1. PICK a \in DOMAIN alerts : Active(a) /\ alerts[a].key = Cur(r).key
        BY <3>3 DEF Taken
      <4>. QED  BY <1>1, <1>3, <2>2, <4>1 DEF Collided, Open, WasActive, Cur
    <3>. QED  BY <3>1, <3>2, <3>3 DEF Accepted
  <2>5. RequestTrue(r)'
    BY <1>1, <1>3, <2>2, <2>3, <2>4 DEF RequestTrue
  <2>. QED  BY <2>1, <2>2, <2>5, AnswersKeep DEF OthersFramed, IInv
<1>. QED  BY <1>4, <1>5

LEMMA ReselectKeeps ==
  ASSUME IInv, Grows, NEW r \in Req, Reselect(r)
  PROVE  RequestTrue(r)' /\ AnswersTrue(r)' /\ OthersFramed(r)
<1>1. UNCHANGED <<alerts, service, origin>> /\ work[r].pc = "reselect" /\ work[r].pc \in Busy
  BY DEF Reselect, At, Busy
<1>2. ASSUME NEW a \in ActiveWithKey(Cur(r).key), Duplicate(r, a)
      PROVE  RequestTrue(r)' /\ AnswersTrue(r)' /\ OthersFramed(r)
  BY <1>1, <1>2, DuplicateKeeps
<1>3. CASE ActiveWithKey(Cur(r).key) = {} /\ Finish(r, "error", NULL, FALSE)
  <2>1. Collided(r) /\ \A a \in DOMAIN alerts : alerts[a].key = Cur(r).key => ~Active(a)
    BY <1>1, <1>3 DEF IInv, RequestTrue, ActiveWithKey
  <2>. QED  BY <1>1, <1>3, <2>1, ErrorKeeps DEF Collided
<1>4. CASE Finish(r, "error", NULL, TRUE)
  BY <1>1, <1>4, ErrorKeeps
<1>. QED  BY <1>2, <1>3, <1>4 DEF Reselect

LEMMA FetchKeeps ==
  ASSUME IInv, Grows, NEW r \in Req, Fetch(r)
  PROVE  RequestTrue(r)' /\ AnswersTrue(r)' /\ OthersFramed(r)
<1>1. UNCHANGED <<alerts, service, origin>> /\ Found(r)
  BY DEF Fetch, At, Busy, IInv, RequestTrue
<1>2. ASSUME NEW what \in {"existing", "conflict"}, Finish(r, what, work[r].hit, FALSE)
      PROVE  RequestTrue(r)' /\ AnswersTrue(r)' /\ OthersFramed(r)
  <2>1. PICK hit : hit = work[r].hit
    OBVIOUS
  <2>2. PICK o : o = [what |-> what, hit |-> hit, item |-> Cur(r),
                      view |-> [work[r].view EXCEPT !.failed = @ \/ FALSE]]
    OBVIOUS
  <2>3. /\ o.what = what /\ o.hit = hit /\ o.item = Cur(r)
        /\ o.view.seen = work[r].view.seen /\ o.view.open = work[r].view.open
    BY <2>2 DEF IInv, TypeOK, Handler, View
  <2>4. OutcomeTrue(o)
    BY <1>1, <2>1, <2>3 DEF OutcomeTrue, Found, WasActive
  <2>. QED  BY <1>2, <2>1, <2>2, <2>4, OutcomeStays, FinishKeeps DEF OthersFramed
<1>3. ASSUME NEW failed \in BOOLEAN, Finish(r, "error", work[r].hit, failed),
             failed \/ alerts[work[r].hit].status = "gone"
      PROVE  RequestTrue(r)' /\ AnswersTrue(r)' /\ OthersFramed(r)
  <2>1. PICK hit : hit = work[r].hit
    OBVIOUS
  <2>2. failed \/ (hit \in DOMAIN alerts /\ ~Active(hit) /\ alerts[hit].key = Cur(r).key
                    /\ WasActive(hit, work[r].view))
    BY <1>1, <1>3, <2>1 DEF Found, Active
  <2>. QED  BY <1>1, <1>3, <2>1, <2>2, ErrorKeeps
<1>. QED  BY <1>2, <1>3 DEF Fetch

LEMMA CreateLogKeeps ==
  ASSUME IInv, Grows, NEW r \in Req, CreateLog(r)
  PROVE  RequestTrue(r)' /\ AnswersTrue(r)' /\ OthersFramed(r)
<1>1. PICK hit : hit = work[r].hit
  OBVIOUS
<1>2. PICK o : o = [what |-> "created", hit |-> hit, item |-> Cur(r),
                    view |-> [work[r].view EXCEPT !.failed = @ \/ FALSE]]
  OBVIOUS
<1>3. OutcomeTrue(o)
  BY <1>2 DEF OutcomeTrue
<1>. QED  BY <1>1, <1>2, <1>3, OutcomeStays, FinishKeeps DEF CreateLog, OthersFramed

\* A handler between two items knows nothing.
LEMMA PauseKeeps ==
  ASSUME IInv, Grows, NEW r \in Req, Receive(r) \/ SkipItem(r)
  PROVE  RequestTrue(r)' /\ AnswersTrue(r)' /\ OthersFramed(r)
<1>1. result' = result /\ OthersFramed(r)
  BY DEF Receive, SkipItem, NextItem, OthersFramed, IInv, TypeOK
<1>2. work'[r].pc \in {"item", "done"} /\ ~work'[r].suppress
  <2>1. CASE Receive(r)
    BY <2>1 DEF Receive, Idle, IInv, TypeOK
  <2>2. CASE SkipItem(r) /\ NextItem(r)
    BY <2>2 DEF NextItem, Idle, IInv, TypeOK
  <2>3. CASE SkipItem(r) /\ work' = [work EXCEPT ![r].pc = "done"]
    BY <2>3 DEF SkipItem, At, IInv, RequestTrue, TypeOK, Handler
  <2>. QED  BY <2>1, <2>2, <2>3 DEF SkipItem
<1>3. RequestTrue(r)'
  BY <1>2 DEF RequestTrue, Busy
<1>. QED  BY <1>1, <1>3, AnswersKeep DEF IInv

-----------------------------------------------------------------------------

LEMMA InitIInv == Init => IInv
<1>. SUFFICES ASSUME Init PROVE IInv
  OBVIOUS
<1>1. TypeOK
  BY IdleType, BoundAssumption DEF Init, TypeOK
<1>2. RowsTrue
  BY DEF Init, RowsTrue, OneActivePerKey, SuppressionIsJustified, GroupPagesOnce
<1>3. ASSUME NEW r \in Req PROVE RequestTrue(r) /\ AnswersTrue(r)
  BY <1>3 DEF Init, Idle, RequestTrue, AnswersTrue, Busy
<1>. QED  BY <1>1, <1>2, <1>3 DEF IInv

LEMMA NextIInv == IInv /\ [Next]_vars => IInv'
<1>. SUFFICES ASSUME IInv, [Next]_vars PROVE IInv'
  OBVIOUS
<1>1. Grows
  BY StepGrows DEF IInv
<1>2. ASSUME NEW r \in Req, Receive(r) \/ Handle(r) PROVE IInv'
  <2>1. InHand
    BY DEF IInv, InHand, RequestTrue
  <2>2. TypeOK'
    BY <1>2, <2>1, HandleType DEF IInv
  <2>3. RequestTrue(r)' /\ AnswersTrue(r)' /\ OthersFramed(r)
    BY <1>1, <1>2, PauseKeeps, BeginItemKeeps, SelectDedupKeeps, SelectGroupKeeps, InsertKeeps,
       InsertFailsKeeps, ReselectKeeps, FetchKeeps, CreateLogKeeps DEF Handle
  <2>4. ASSUME NEW q \in Req PROVE RequestTrue(q)' /\ AnswersTrue(q)'
    BY <1>1, <2>3, OthersKeep, AnswersKeep DEF OthersFramed, IInv
  <2>5. RowsTrue'
    <3>1. CASE Insert(r)
      BY <3>1, InsertKeepsRows
    <3>2. CASE UNCHANGED alerts
      BY <1>1, <3>2, RowsKeep DEF IInv
    <3>. QED  BY <1>2, <3>1, <3>2 DEF Handle, Receive, SkipItem, BeginItem, SelectDedup, SelectGroup,
                                      InsertFails, Reselect, Fetch, CreateLog
  <2>. QED  BY <2>2, <2>4, <2>5 DEF IInv
<1>3. ASSUME work' = work, result' = result, DOMAIN alerts' = DOMAIN alerts, TypeOK' PROVE IInv'
  BY <1>1, <1>3, OthersKeep, AnswersKeep, RowsKeep DEF IInv
<1>4. CASE Users \/ DeleteService
  <2>1. TypeOK'
    BY <1>4, UsersType DEF IInv
  <2>2. work' = work /\ result' = result /\ DOMAIN alerts' = DOMAIN alerts
    BY <1>4 DEF Users, Acknowledge, Resolve, Purge, SetStatus, DeleteService
  <2>. QED  BY <1>3, <2>1, <2>2
<1>5. CASE UNCHANGED vars
  <2>1. TypeOK'
    BY <1>5 DEF vars, IInv, TypeOK
  <2>. QED  BY <1>3, <1>5, <2>1 DEF vars
<1>. QED  BY <1>2, <1>4, <1>5 DEF Next

\* Every variable has its type, for any requests and payloads.
THEOREM TypeCorrect == Spec => []TypeOK
<1>1. IInv => TypeOK
  BY DEF IInv
<1>. QED  BY <1>1, InitIInv, NextIInv, PTL DEF Spec

\* There is at most one active alert with a key, however requests race through
\* the statements of Create.
THEOREM KeysAreUnique == Spec => []OneActivePerKey
<1>1. IInv => OneActivePerKey
  BY DEF IInv, RowsTrue
<1>. QED  BY <1>1, InitIInv, NextIInv, PTL DEF Spec

\* A duplicate is answered with an alert that was active while the request ran.
THEOREM DuplicatesWereActive == Spec => []DuplicateWasActive
<1>1. IInv => DuplicateWasActive
  BY DEF IInv, AnswersTrue, OutcomeTrue, DuplicateWasActive, Outcomes
<1>. QED  BY <1>1, InitIInv, NextIInv, PTL DEF Spec

\* A firing alert is turned away only for a failed call, a deleted service or an
\* alert with its key that was closed under it.
THEOREM LossesHaveCauses == Spec => []LossHasCause
<1>1. IInv => LossHasCause
  BY DEF IInv, AnswersTrue, OutcomeTrue, LossHasCause, Outcomes
<1>. QED  BY <1>1, InitIInv, NextIInv, PTL DEF Spec

\* An alert is suppressed only beside one of its group that was active while its
\* request ran.
THEOREM SuppressionsAreJustified == Spec => []SuppressionIsJustified
<1>1. IInv => SuppressionIsJustified
  BY DEF IInv, RowsTrue
<1>. QED  BY <1>1, InitIInv, NextIInv, PTL DEF Spec

\* Two alerts of an active group page only if their requests overlapped or a
\* SELECT failed.
THEOREM GroupsPageOnce == Spec => []GroupPagesOnce
<1>1. IInv => GroupPagesOnce
  BY DEF IInv, RowsTrue
<1>. QED  BY <1>1, InitIInv, NextIInv, PTL DEF Spec
=============================================================================
