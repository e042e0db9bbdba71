------------------------------- MODULE MCAlerts -------------------------------
(* Instances for TLC of the two ends of an escalation, which share no state:   *)
(* the intake of alerts before it and the paging of one step in its middle.    *)
(* A behaviour is one of the component `part`; the other stays as it is.       *)
(* Contact methods and rules are numbers, so that their columns can be tuples. *)
EXTENDS AlertIntake, Paging, TLC

CONSTANTS u1, u2

VARIABLE part

\* The first user has two requests for one address.
Owners    == <<u1, u1, u2>>
Addresses == <<"email", "email", "email">>

\* Two rules of the first user for one contact method, one of the second user for
\* his own and one for somebody else's.
RuleUsers   == <<u1, u1, u2, u2>>
RuleMethods == <<1, 1, 3, 1>>

\* A schedule, and a user it may answer with as well.
StepTargets == <<SCHEDULE, u1>>

alertsVars == <<part, vars, pagingVars>>

AlertsInit == Init /\ PagingInit /\ part \in {"intake", "paging"}

OfIntake == part = "intake" /\ UNCHANGED <<part, pagingVars>>
OfPaging == part = "paging" /\ UNCHANGED <<part, vars>>

\* Requests are finite: the instance ends when all are answered and no alert is left.
AllGone ==
  /\ \A r \in Req : work[r].pc = "done"
  /\ \A a \in DOMAIN alerts : alerts[a].status = "gone"
  /\ UNCHANGED vars

AlertsNext ==
  \/ OfIntake /\ (Next \/ AllGone)
  \/ OfPaging /\ PagingNext

AlertsSpec == AlertsInit /\ [][AlertsNext]_alertsVars

Symmetry == Permutations(Req)
=============================================================================
