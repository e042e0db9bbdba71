------------------------------- MODULE Incidents -------------------------------
(***************************************************************************)
(* One incident and its timeline (internal/api/incidents.go on top of      *)
(* internal/store/sqlite/incidents.go) under concurrent requests.          *)
(*                                                                         *)
(* PUT writes the whole row in one statement.  POST .../updates INSERTs    *)
(* into the timeline, and when it carries a status reads the row, changes  *)
(* the status and writes the whole row back: three statements without a    *)
(* transaction, each of which may fail and leave what was done before.     *)
(*                                                                         *)
(* What the columns say does not matter here, only who said it: a column   *)
(* holds the request that supplied its value.                              *)
(***************************************************************************)
EXTENDS Naturals, Sequences

CONSTANTS
  Req,      \* requests that may arrive
  Creation  \* supplied by the creation of the incident

ASSUME CreationAssumption == Creation \notin Req

VARIABLES
  row,      \* the incident: who supplied the status, and who the other columns
  timeline, \* incident_updates in the order they were inserted
  form,     \* what each request is
  stage,    \* the next statement of its handler
  held,     \* the row as the handler has read it
  \* history, for the properties only
  before    \* for each request, those answered when it came in

incidentVars == <<row, timeline, form, stage, held, before>>

\* An update of the timeline without a status is a note.
Form  == {"put", "update", "note"}
Row   == [status : Req \cup {Creation}, rest : Req \cup {Creation}]
Stage == {"absent", "insert", "get", "write", "ok", "error"}

Original == [status |-> Creation, rest |-> Creation]

Answered == {r \in Req : stage[r] \in {"ok", "error"}}

Begin(r) ==
  /\ stage[r] = "absent"
  /\ \E k \in Form :
       /\ form' = [form EXCEPT ![r] = k]
       /\ stage' = [stage EXCEPT ![r] = IF k = "put" THEN "write" ELSE "insert"]
  /\ before' = [before EXCEPT ![r] = Answered]
  /\ UNCHANGED <<row, timeline, held>>

\* Mutation: the other columns are left as they are.
Put_StatusOnly(r) ==
  /\ stage[r] = "write" /\ form[r] = "put"
  /\ row' = [row EXCEPT !.status = r]
  /\ stage' = [stage EXCEPT ![r] = "ok"]
  /\ UNCHANGED <<timeline, form, held, before>>

\* The row becomes the body of the request; what the body leaves out is erased.
Put(r) ==
  /\ stage[r] = "write" /\ form[r] = "put"
  /\ row' = [status |-> r, rest |-> r]
  /\ stage' = [stage EXCEPT ![r] = "ok"]
  /\ UNCHANGED <<timeline, form, held, before>>

CreateUpdate(r) ==
  /\ stage[r] = "insert"
  /\ timeline' = Append(timeline, r)
  /\ stage' = [stage EXCEPT ![r] = IF form[r] = "note" THEN "ok" ELSE "get"]
  /\ UNCHANGED <<row, form, held, before>>

Get(r) ==
  /\ stage[r] = "get"
  /\ held' = [held EXCEPT ![r] = row]
  /\ stage' = [stage EXCEPT ![r] = "write"]
  /\ UNCHANGED <<row, timeline, form, before>>

\* Mutation: the status is not put into the row that is written.
Sync_OldStatus(r) ==
  /\ stage[r] = "write" /\ form[r] = "update"
  /\ row' = held[r]
  /\ stage' = [stage EXCEPT ![r] = "ok"]
  /\ UNCHANGED <<timeline, form, held, before>>

\* incidents.Update with the row that was read and the status of the update.
Sync(r) ==
  /\ stage[r] = "write" /\ form[r] = "update"
  /\ row' = [held[r] EXCEPT !.status = r]
  /\ stage' = [stage EXCEPT ![r] = "ok"]
  /\ UNCHANGED <<timeline, form, held, before>>

\* A statement that fails ends the request; those before it stay.
StatementFails(r) ==
  /\ stage[r] \in {"insert", "get", "write"}
  /\ stage' = [stage EXCEPT ![r] = "error"]
  /\ UNCHANGED <<row, timeline, form, held, before>>

IncidentInit ==
  /\ row = Original
  /\ timeline = <<>>
  /\ form = [r \in Req |-> "note"]
  /\ stage = [r \in Req |-> "absent"]
  /\ held = [r \in Req |-> Original]
  /\ before = [r \in Req |-> {}]

Handle(r) == Put(r) \/ CreateUpdate(r) \/ Get(r) \/ Sync(r) \/ StatementFails(r)

IncidentNext == \E r \in Req : Begin(r) \/ Handle(r)

IncidentSpec == IncidentInit /\ [][IncidentNext]_incidentVars

-----------------------------------------------------------------------------

\* The variables have their types; the timeline holds a request at most once.
IncidentTypeOK ==
  /\ row \in Row
  /\ timeline \in Seq(Req) /\ \A i, j \in DOMAIN timeline : timeline[i] = timeline[j] => i = j
  /\ form \in [Req -> Form]
  /\ stage \in [Req -> Stage]
  /\ held \in [Req -> Row]
  /\ before \in [Req -> SUBSET Req]

Done(q, forms) == stage[q] = "ok" /\ form[q] \in forms

\* p was answered before q came in, or is the creation of the incident.
Precedes(p, q) == p = Creation \/ p \in before[q]

InTimeline(r) == \E i \in DOMAIN timeline : timeline[i] = r

\* A status that was set is never undone by one that had been set before the
\* request came in, whatever the updates in between read; and a status that no
\* PUT has set is in the timeline, also when a statement failed half way.
StatusIsRecent ==
  /\ \A q \in Req : Done(q, {"put", "update"}) => ~Precedes(row.status, q)
  /\ row.status # Creation /\ form[row.status] # "put" => InTimeline(row.status)

\* What a PUT has written is lost only to an update that ran at the same time:
\* it had read the row before the PUT and wrote it back after.
LostEditsRaced ==
  \A q \in Req :
    Done(q, {"put"}) /\ Precedes(row.rest, q) =>
      \E u \in Req : Done(u, {"update"}) /\ ~Precedes(u, q) /\ ~Precedes(q, u)
=============================================================================
