----------------------------- MODULE AlertIntake -----------------------------
(***************************************************************************)
(* How requests become alerts of one service: POST /alerts and the three   *)
(* integration webhooks (internal/api/alerts.go, integrations.go) on top   *)
(* of alertStore.Create (internal/store/sqlite/alerts.go).                 *)
(*                                                                         *)
(* Create is four statements without a transaction: it looks for an active *)
(* alert with the deduplication key, then for an active group, INSERTs,    *)
(* and when a unique index refuses the row looks for the key once more.    *)
(* Each statement is an action, so that requests, users who acknowledge    *)
(* and resolve, and the deletion of the service interleave between them.   *)
(***************************************************************************)
EXTENDS Naturals, Sequences, FiniteSets

CONSTANTS
  Req,       \* requests that may arrive
  Key,       \* deduplication keys
  Group,     \* group keys
  NULL,      \* the empty key, and "no alert"
  MaxItems,  \* bound: alerts in one Prometheus payload
  MaxFaults  \* bound: failed database calls in one behaviour

ASSUME KeyAssumption   == NULL \notin Key /\ NULL \notin Group /\ NULL \notin Nat
ASSUME BoundAssumption == MaxItems \in Nat /\ MaxFaults \in Nat

VARIABLES
  alerts,   \* the alerts table; the position of a row is its id
  service,  \* the service exists
  work,     \* what the handler of each request holds
  \* history, for the properties only
  origin,   \* for each row, the view its request had
  result,   \* for each request, the outcomes of its items so far
  faults    \* failed database calls so far

vars == <<alerts, service, work, origin, result, faults>>

Item == [key : Key \cup {NULL}, group : Group \cup {NULL}, firing : BOOLEAN]
Row  == [status : {"triggered", "acknowledged", "resolved", "gone"},
         key : Key \cup {NULL}, group : Group \cup {NULL}, escalates : BOOLEAN]

Kind == {"api", "generic", "grafana", "prometheus"}
Pc   == {"idle", "item", "dedup", "group", "insert", "reselect", "fetch", "log", "done"}

\* For the properties: how many alerts there were and which of them were active
\* when work on an item began, and whether a call has failed since.
View == [seen : Nat, open : SUBSET Nat, failed : BOOLEAN]

\* items: those still to do, the current one first; suppress: its group was
\* active; hit: the id of the alert inserted or found.
Handler == [pc : Pc, kind : Kind, items : Seq(Item), suppress : BOOLEAN,
            hit : Nat \cup {NULL}, view : View]

Outcome == [what : {"created", "existing", "conflict", "error"},
            hit : Nat \cup {NULL}, item : Item, view : View]

\* What the decoders let through: Grafana and Prometheus always give a key and
\* never a group, only Prometheus sends several alerts at once.
Payload(kind) ==
  LET Webhook == [key : Key, group : {NULL}, firing : BOOLEAN] IN
  CASE kind \in {"api", "generic"} ->
         {<<i>> : i \in [key : Key \cup {NULL}, group : Group \cup {NULL}, firing : {TRUE}]}
    [] kind = "grafana"    -> {<<i>> : i \in Webhook}
    [] kind = "prometheus" -> UNION {[1..n -> Webhook] : n \in 0..MaxItems}

-----------------------------------------------------------------------------
(* Queries of the alert store.                                             *)

Active(a) == alerts[a].status \in {"triggered", "acknowledged"}

\* Mutation: resolved alerts are found too.
ActiveWithKey_OrResolved(k) == {a \in DOMAIN alerts : alerts[a].status # "gone" /\ alerts[a].key = k}

ActiveWithKey(k) == {a \in DOMAIN alerts : Active(a) /\ alerts[a].key = k}

\* Mutation: resolved alerts keep their group alive.
ActiveInGroup_OrResolved(g) == {a \in DOMAIN alerts : alerts[a].status # "gone" /\ alerts[a].group = g}

\* Mutation: groups are not looked for.
ActiveInGroup_Never(g) == {}

ActiveInGroup(g) == {a \in DOMAIN alerts : Active(a) /\ alerts[a].group = g}

\* Mutation: the index is missing.
Taken_Never(k) == FALSE

\* The partial unique index on (service_id, dedup_key).
Taken(k) == k # NULL /\ \E a \in DOMAIN alerts : Active(a) /\ alerts[a].key = k

-----------------------------------------------------------------------------
(* A request.                                                              *)

At(r, pc) == work[r].pc = pc
Cur(r)    == Head(work[r].items)

Fail == faults < MaxFaults /\ faults' = faults + 1

Idle == [pc |-> "idle", kind |-> "api", items |-> <<>>, suppress |-> FALSE, hit |-> NULL,
         view |-> [seen |-> 0, open |-> {}, failed |-> FALSE]]

Receive(r) ==
  /\ At(r, "idle")
  /\ \E kind \in Kind : \E items \in Payload(kind) :
       work' = [work EXCEPT ![r] = [Idle EXCEPT !.pc = "item", !.kind = kind, !.items = items]]
  /\ UNCHANGED <<alerts, service, origin, result, faults>>

\* The next item; when none is left the handler answers.
NextItem(r) ==
  work' = [work EXCEPT ![r] =
    [Idle EXCEPT !.pc = IF Len(work[r].items) > 1 THEN "item" ELSE "done",
                 !.kind = work[r].kind, !.items = Tail(work[r].items)]]

Finish(r, what, hit, failed) ==
  /\ result' = [result EXCEPT ![r] = Append(@,
       [what |-> what, hit |-> hit, item |-> Cur(r),
        view |-> [work[r].view EXCEPT !.failed = @ \/ failed]])]
  /\ NextItem(r)

\* state "ok" of Grafana, status "resolved" of Prometheus: nothing is done.
SkipItem(r) ==
  /\ At(r, "item")
  /\ \/ work[r].items = <<>> /\ work' = [work EXCEPT ![r].pc = "done"]
     \/ work[r].items # <<>> /\ ~Cur(r).firing /\ NextItem(r)
  /\ UNCHANGED <<alerts, service, origin, result, faults>>

AfterDedup(item) == IF item.group # NULL THEN "group" ELSE "insert"

\* services.Get, the routing rules and the policy are read (PolicySnapshot).  A
\* read may fail, and the policy a service names may be gone.
BeginItem(r) ==
  /\ At(r, "item")
  /\ work[r].items # <<>> /\ Cur(r).firing
  /\ \/ /\ service
        /\ work' = [work EXCEPT
             ![r].pc = IF Cur(r).key # NULL THEN "dedup" ELSE AfterDedup(Cur(r)),
             ![r].view = [seen |-> Len(alerts), open |-> {a \in DOMAIN alerts : Active(a)},
                          failed |-> FALSE]]
        /\ UNCHANGED <<result, faults>>
     \/ ~service /\ Finish(r, "error", NULL, FALSE) /\ UNCHANGED faults
     \/ service /\ Finish(r, "error", NULL, TRUE) /\ UNCHANGED faults
  /\ UNCHANGED <<alerts, service, origin>>

\* ErrDuplicateKey: POST /alerts answers 409, an integration first reads the
\* alert that Create has named.
Duplicate(r, a) ==
  IF work[r].kind = "api"
    THEN Finish(r, "conflict", a, FALSE)
    ELSE /\ work' = [work EXCEPT ![r].pc = "fetch", ![r].hit = a]
         /\ UNCHANGED result

\* Only err == nil is tested: a SELECT that fails counts as nothing found.
SelectDedup(r) ==
  /\ At(r, "dedup")
  /\ \/ (\E a \in ActiveWithKey(Cur(r).key) : Duplicate(r, a)) /\ UNCHANGED faults
     \/ /\ ActiveWithKey(Cur(r).key) = {}
        /\ work' = [work EXCEPT ![r].pc = AfterDedup(Cur(r))]
        /\ UNCHANGED <<result, faults>>
     \/ /\ Fail
        /\ work' = [work EXCEPT ![r].pc = AfterDedup(Cur(r)), ![r].view.failed = TRUE]
        /\ UNCHANGED result
  /\ UNCHANGED <<alerts, service, origin>>

\* As above: after a failed SELECT the alert is not suppressed.
SelectGroup(r) ==
  /\ At(r, "group")
  /\ \/ /\ work' = [work EXCEPT ![r].pc = "insert",
                                ![r].suppress = ActiveInGroup(Cur(r).group) # {}]
        /\ UNCHANGED faults
     \/ /\ Fail
        /\ work' = [work EXCEPT ![r].pc = "insert", ![r].view.failed = TRUE]
  /\ UNCHANGED <<alerts, service, origin, result>>

Accepted(r) == service /\ ~Taken(Cur(r).key)

NewRow(r) ==
  [status |-> "triggered", key |-> Cur(r).key, group |-> Cur(r).group,
   escalates |-> ~work[r].suppress]

Insert(r) ==
  /\ At(r, "insert")
  /\ Accepted(r)
  /\ alerts' = Append(alerts, NewRow(r))
  /\ origin' = Append(origin, work[r].view)
  /\ work' = [work EXCEPT ![r].pc = "log", ![r].hit = Len(alerts) + 1]
  /\ UNCHANGED <<service, result, faults>>

\* Mutation: the error of the INSERT is returned as it is.
InsertFails_NoReselect(r) ==
  /\ At(r, "insert")
  /\ IF Accepted(r) THEN Fail ELSE UNCHANGED faults
  /\ Finish(r, "error", NULL, Accepted(r))
  /\ UNCHANGED <<alerts, service, origin>>

\* The unique index, the foreign key on the service or the database refuses
\* the row; only an alert with a key is looked for again.
InsertFails(r) ==
  /\ At(r, "insert")
  /\ IF Accepted(r) THEN Fail ELSE UNCHANGED faults
  /\ IF Cur(r).key # NULL
       THEN /\ work' = [work EXCEPT ![r].pc = "reselect", ![r].view.failed = @ \/ Accepted(r)]
            /\ UNCHANGED result
       ELSE Finish(r, "error", NULL, Accepted(r))
  /\ UNCHANGED <<alerts, service, origin>>

Reselect(r) ==
  /\ At(r, "reselect")
  /\ \/ (\E a \in ActiveWithKey(Cur(r).key) : Duplicate(r, a)) /\ UNCHANGED faults
     \/ ActiveWithKey(Cur(r).key) = {} /\ Finish(r, "error", NULL, FALSE) /\ UNCHANGED faults
     \/ Fail /\ Finish(r, "error", NULL, TRUE)
  /\ UNCHANGED <<alerts, service, origin>>

\* alerts.Get of the existing alert.  The generic webhook answers 200 with it,
\* Grafana's passes ErrDuplicateKey on, Prometheus' looks at no outcome.
Fetch(r) ==
  /\ At(r, "fetch")
  /\ LET a == work[r].hit IN
       \/ /\ alerts[a].status # "gone"
          /\ Finish(r, IF work[r].kind = "grafana" THEN "conflict" ELSE "existing", a, FALSE)
          /\ UNCHANGED faults
       \/ alerts[a].status = "gone" /\ Finish(r, "error", a, FALSE) /\ UNCHANGED faults
       \/ Fail /\ Finish(r, "error", a, TRUE)
  /\ UNCHANGED <<alerts, service, origin>>

\* The event in alert_logs.  Its error is not looked at, and no property is
\* about the timeline: only the answer is kept.
CreateLog(r) ==
  /\ At(r, "log")
  /\ Finish(r, "created", work[r].hit, FALSE)
  /\ UNCHANGED <<alerts, service, origin, faults>>

-----------------------------------------------------------------------------
(* Meanwhile.                                                              *)

SetStatus(a, s) ==
  /\ alerts' = [alerts EXCEPT ![a].status = s]
  /\ UNCHANGED <<service, work, origin, result, faults>>

Acknowledge(a) == alerts[a].status = "triggered" /\ SetStatus(a, "acknowledged")

Resolve(a) == Active(a) /\ SetStatus(a, "resolved")

\* CleanupProcessor, long after the alert was resolved.
Purge(a) == alerts[a].status = "resolved" /\ SetStatus(a, "gone")

\* The alerts and their logs go with the service.
DeleteService ==
  /\ service
  /\ service' = FALSE
  /\ alerts' = [a \in DOMAIN alerts |-> [alerts[a] EXCEPT !.status = "gone"]]
  /\ UNCHANGED <<work, origin, result, faults>>

-----------------------------------------------------------------------------

Init ==
  /\ alerts  = <<>>
  /\ service = TRUE
  /\ work    = [r \in Req |-> Idle]
  /\ origin  = <<>>
  /\ result  = [r \in Req |-> <<>>]
  /\ faults  = 0

Handle(r) ==
  \/ SkipItem(r)
  \/ BeginItem(r)
  \/ SelectDedup(r)
  \/ SelectGroup(r)
  \/ Insert(r)
  \/ InsertFails(r)
  \/ Reselect(r)
  \/ Fetch(r)
  \/ CreateLog(r)

Users == \E a \in DOMAIN alerts : Acknowledge(a) \/ Resolve(a) \/ Purge(a)

Next == (\E r \in Req : Receive(r) \/ Handle(r)) \/ Users \/ DeleteService

Spec == Init /\ [][Next]_vars

-----------------------------------------------------------------------------
(* Properties.                                                             *)

\* Every variable has its type.
TypeOK ==
  /\ alerts \in Seq(Row)
  /\ service \in BOOLEAN
  /\ work \in [Req -> Handler]
  /\ origin \in Seq(View)
  /\ result \in [Req -> Seq(Outcome)]
  /\ faults \in 0..MaxFaults
  /\ Len(origin) = Len(alerts)

\* Two requests that both found no active alert with their key do not both
\* leave one behind.
OneActivePerKey ==
  \A a, b \in DOMAIN alerts :
    Active(a) /\ Active(b) /\ alerts[a].key = alerts[b].key /\ alerts[a].key # NULL => a = b

\* Outcomes of all requests so far.
Outcomes == UNION {{result[r][i] : i \in DOMAIN result[r]} : r \in Req}

\* An alert was active at some moment after work on an item began.
WasActive(a, view) == a \in view.open \/ a > view.seen

\* A duplicate is answered with an alert that was active while the request ran,
\* never with one that had been resolved before it arrived.
DuplicateWasActive ==
  \A o \in Outcomes :
    o.what \in {"existing", "conflict"} =>
      WasActive(o.hit, o.view) /\ alerts[o.hit].key = o.item.key

\* An alert is suppressed only beside another one of its group that was active
\* while its request ran.
SuppressionIsJustified ==
  \A a \in DOMAIN alerts :
    ~alerts[a].escalates =>
      \E b \in 1..(a - 1) : alerts[b].group = alerts[a].group /\ WasActive(b, origin[a])

\* A second alert of a group that is still active pages only if the first was
\* inserted after the second's request had begun, or if a SELECT failed.
GroupPagesOnce ==
  \A a, b \in DOMAIN alerts :
    /\ a < b /\ Active(a)
    /\ alerts[a].group = alerts[b].group /\ alerts[a].group # NULL
    /\ alerts[a].escalates /\ alerts[b].escalates
    => origin[b].seen < a \/ origin[b].failed

\* A firing alert is turned away only when a call failed, when its service went
\* away, or when the alert it collided with was closed while the request ran.
LossHasCause ==
  \A o \in Outcomes :
    o.what = "error" =>
      \/ o.view.failed
      \/ ~service
      \/ \E a \in DOMAIN alerts :
           alerts[a].key = o.item.key /\ ~Active(a) /\ WasActive(a, o.view)

\* Of the active alerts of a group only one pages.
OnlyFirstOfGroupPages ==
  \A a, b \in DOMAIN alerts :
    /\ Active(a) /\ Active(b)
    /\ alerts[a].group = alerts[b].group /\ alerts[a].group # NULL
    /\ alerts[a].escalates /\ alerts[b].escalates
    => a = b
=============================================================================
