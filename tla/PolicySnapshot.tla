---------------------------- MODULE PolicySnapshot ----------------------------
(***************************************************************************)
(* Which escalation policy an alert gets, and the copy of it that is       *)
(* stored on the alert: routeAlert (internal/api/routing.go) over the      *)
(* service and its rules, then GetFullPolicy                               *)
(* (internal/store/sqlite/escalation.go).  That is one query for the       *)
(* service, one for the rules, one for the policy, one for its steps and   *)
(* one for the targets of each step, without a transaction, while          *)
(* administrators edit all five tables.  Each query and each edit is an    *)
(* action.                                                                 *)
(*                                                                         *)
(* No statement changes the columns of a rule, step or target, so they are *)
(* CONSTANTS, and the tables say which rows there are.                     *)
(***************************************************************************)
EXTENDS Integers

CONSTANTS
  Policy, Rule, Step, Target,
  Priority,   \* routing_rules.priority
  RulePolicy, \* routing_rules.escalation_policy_id
  StepPolicy, \* escalation_steps.escalation_policy_id
  Number,     \* escalation_steps.step_number
  TargetStep, \* escalation_step_targets.escalation_step_id
  MaxRepeat,  \* 5 in the code
  NULL,       \* no policy
  MaxEdits    \* bound: edits while one alert is taken in

ASSUME RuleAssumption   == Priority \in [Rule -> Int] /\ RulePolicy \in [Rule -> Policy]
ASSUME StepAssumption   == StepPolicy \in [Step -> Policy] /\ Number \in [Step -> Int]
ASSUME TargetAssumption == TargetStep \in [Target -> Step]
ASSUME NullAssumption   == NULL \notin Policy /\ NULL \notin Nat
ASSUME BoundAssumption  == MaxRepeat \in Nat /\ MaxEdits \in Nat

VARIABLES
  repeat,   \* the policies table: the repeat column, NULL if there is no row
  steps, targets, rules, \* the rows of the other tables
  service,  \* the service's row is there
  default,  \* services.escalation_policy_id
  pc,       \* the next query; "idle", "done" and "error" between requests
  kind,     \* POST /alerts does not look at the rules, integrations do
  matching, \* rules whose condition the alert meets
  epID,     \* the policy decided on
  todo,     \* steps listed whose targets were not read yet
  snap,     \* the steps copied so far, each with its targets
  repeats,  \* the repeat column copied
  \* history of the request, for the properties only
  edits,    \* edits since it came in
  stood,    \* rows that were there at all of its moments
  seen,     \* rules that were there at some moment
  named,    \* policies the service named at some moment
  missing,  \* policies that were not there at some moment
  unserved, \* the service was gone at some moment
  failed    \* queries that failed

tables  == <<repeat, steps, targets, rules, service, default>>
handler == <<pc, kind, matching, epID, todo, snap, repeats>>
history == <<edits, stood, seen, named, missing, unserved, failed>>
vars    == <<tables, handler, history>>

Kind == {"api", "integration"}
Query == {"service", "rules", "policy", "steps", "targets"}

Missing == {p \in Policy : repeat[p] = NULL}

Rows == [rules : SUBSET Rule, steps : SUBSET Step, targets : SUBSET Target]

NoRows == [rules |-> {}, steps |-> {}, targets |-> {}]

-----------------------------------------------------------------------------
(* Edits.  Foreign keys are checked and cascade.                           *)

CreatePolicy(p, n) ==
  /\ repeat[p] = NULL
  /\ repeat' = [repeat EXCEPT ![p] = n]
  /\ UNCHANGED <<steps, targets, rules, service, default>>

UpdatePolicy(p, n) ==
  /\ repeat[p] # NULL
  /\ repeat' = [repeat EXCEPT ![p] = n]
  /\ UNCHANGED <<steps, targets, rules, service, default>>

\* Mutation: the rules that name the policy stay.
DeletePolicy_KeepsRules(p) ==
  /\ repeat[p] # NULL
  /\ repeat' = [repeat EXCEPT ![p] = NULL]
  /\ steps' = {s \in steps : StepPolicy[s] # p}
  /\ targets' = {t \in targets : StepPolicy[TargetStep[t]] # p}
  /\ UNCHANGED <<rules, service, default>>

\* Its steps, their targets and the rules go with it, the services that name
\* it do not: services.escalation_policy_id has no foreign key.
DeletePolicy(p) ==
  /\ repeat[p] # NULL
  /\ repeat' = [repeat EXCEPT ![p] = NULL]
  /\ steps' = {s \in steps : StepPolicy[s] # p}
  /\ targets' = {t \in targets : StepPolicy[TargetStep[t]] # p}
  /\ rules' = {r \in rules : RulePolicy[r] # p}
  /\ UNCHANGED <<service, default>>

\* UNIQUE(escalation_policy_id, step_number)
CreateStep(s) ==
  /\ s \notin steps /\ repeat[StepPolicy[s]] # NULL
  /\ \A q \in steps : StepPolicy[q] = StepPolicy[s] => Number[q] # Number[s]
  /\ steps' = steps \cup {s}
  /\ UNCHANGED <<repeat, targets, rules, service, default>>

DeleteStep(s) ==
  /\ s \in steps
  /\ steps' = steps \ {s}
  /\ targets' = {t \in targets : TargetStep[t] # s}
  /\ UNCHANGED <<repeat, rules, service, default>>

CreateTarget(t) ==
  /\ t \notin targets /\ TargetStep[t] \in steps
  /\ targets' = targets \cup {t}
  /\ UNCHANGED <<repeat, steps, rules, service, default>>

DeleteTarget(t) ==
  /\ t \in targets
  /\ targets' = targets \ {t}
  /\ UNCHANGED <<repeat, steps, rules, service, default>>

\* Its condition has been validated by createRoutingRule.
CreateRule(r) ==
  /\ r \notin rules /\ service /\ repeat[RulePolicy[r]] # NULL
  /\ rules' = rules \cup {r}
  /\ UNCHANGED <<repeat, steps, targets, service, default>>

DeleteRule(r) ==
  /\ r \in rules
  /\ rules' = rules \ {r}
  /\ UNCHANGED <<repeat, steps, targets, service, default>>

\* Nobody looks whether there is such a policy; update does not even look
\* whether one is named.
UpdateService(p) ==
  /\ service
  /\ default' = p
  /\ UNCHANGED <<repeat, steps, targets, rules, service>>

DeleteService ==
  /\ service
  /\ service' = FALSE
  /\ rules' = {}
  /\ UNCHANGED <<repeat, steps, targets, default>>

Edit ==
  \/ \E p \in Policy : DeletePolicy(p) \/ \E n \in 0..MaxRepeat : CreatePolicy(p, n) \/ UpdatePolicy(p, n)
  \/ \E s \in Step : CreateStep(s) \/ DeleteStep(s)
  \/ \E t \in Target : CreateTarget(t) \/ DeleteTarget(t)
  \/ \E r \in Rule : CreateRule(r) \/ DeleteRule(r)
  \/ \E p \in Policy \cup {NULL} : UpdateService(p)
  \/ DeleteService

Calling == pc \in Query

\* What an edit means for the history of the request it falls into.
Observe ==
  IF Calling
  THEN /\ edits < MaxEdits
       /\ edits' = edits + 1
       /\ stood' = [rules   |-> stood.rules \cap rules',
                    steps   |-> stood.steps \cap steps',
                    targets |-> stood.targets \cap targets']
       /\ seen' = seen \cup rules'
       /\ named' = named \cup {default'}
       /\ missing' = missing \cup Missing'
       /\ unserved' = (unserved \/ ~service')
       /\ UNCHANGED failed
  ELSE UNCHANGED history

\* A request that is answered waits for no edit.
Administrate ==
  /\ pc \notin {"done", "error"}
  /\ Edit
  /\ UNCHANGED handler
  /\ Observe

-----------------------------------------------------------------------------
(* A request.                                                              *)

Receive(k, m) ==
  /\ pc = "idle"
  /\ pc' = "service" /\ kind' = k /\ matching' = m
  /\ stood' = [rules |-> rules, steps |-> steps, targets |-> targets]
  /\ seen' = rules /\ named' = {default} /\ missing' = Missing /\ unserved' = ~service
  /\ UNCHANGED <<tables, epID, todo, snap, repeats, edits, failed>>

\* services.Get
GetService ==
  /\ pc = "service"
  /\ IF service
       THEN /\ epID' = default
            /\ pc' = IF kind = "api" THEN "policy" ELSE "rules"
       ELSE pc' = "error" /\ UNCHANGED epID
  /\ UNCHANGED <<tables, kind, matching, todo, snap, repeats, history>>

\* Mutation: the last match wins.
FirstMatches_Last(m) == {r \in m : \A q \in m : Priority[q] <= Priority[r]}

\* ORDER BY priority: any order among rules of one priority.
FirstMatches(m) == {r \in m : \A q \in m : Priority[r] <= Priority[q]}

\* routeAlert: the first rule that matches, else the service's policy.
RouteAlert ==
  /\ pc = "rules"
  /\ pc' = "policy"
  /\ LET m == matching \cap rules IN
       IF m = {} THEN UNCHANGED epID ELSE \E r \in FirstMatches(m) : epID' = RulePolicy[r]
  /\ UNCHANGED <<tables, kind, matching, todo, snap, repeats, history>>

\* rules, _ := ListRoutingRules: a query that fails is as good as no rules.
RulesFail ==
  /\ pc = "rules"
  /\ pc' = "policy"
  /\ failed' = failed \cup {"rules"}
  /\ UNCHANGED <<tables, kind, matching, epID, todo, snap, repeats, edits, stood, seen, named, missing, unserved>>

GetPolicy ==
  /\ pc = "policy"
  /\ IF epID \in Policy /\ epID \notin Missing
       THEN repeats' = repeat[epID] /\ pc' = "steps"
       ELSE pc' = "error" /\ UNCHANGED repeats
  /\ UNCHANGED <<tables, kind, matching, epID, todo, snap, history>>

ListSteps ==
  /\ pc = "steps"
  /\ todo' = {s \in steps : StepPolicy[s] = epID}
  /\ pc' = IF todo' = {} THEN "done" ELSE "targets"
  /\ UNCHANGED <<tables, kind, matching, epID, snap, repeats, history>>

\* Mutation: a step that has no targets ends the list.
ListStepTargets_StopsAtEmpty(s) ==
  /\ pc = "targets" /\ s \in todo /\ \A q \in todo : Number[s] <= Number[q]
  /\ LET T == {t \in targets : TargetStep[t] = s} IN
       /\ snap' = [q \in DOMAIN snap \cup {s} |-> IF q = s THEN T ELSE snap[q]]
       /\ todo' = IF T = {} THEN {} ELSE todo \ {s}
  /\ pc' = IF todo' = {} THEN "done" ELSE "targets"
  /\ UNCHANGED <<tables, kind, matching, epID, repeats, history>>

\* The steps come in ORDER BY step_number.
ListStepTargets(s) ==
  /\ pc = "targets" /\ s \in todo /\ \A q \in todo : Number[s] <= Number[q]
  /\ todo' = todo \ {s}
  /\ snap' = [q \in DOMAIN snap \cup {s} |->
                IF q = s THEN {t \in targets : TargetStep[t] = s} ELSE snap[q]]
  /\ pc' = IF todo' = {} THEN "done" ELSE "targets"
  /\ UNCHANGED <<tables, kind, matching, epID, repeats, history>>

\* Any other query that fails is the end of the request.
QueryFails ==
  /\ pc \in Query \ {"rules"}
  /\ pc' = "error"
  /\ failed' = failed \cup {pc}
  /\ UNCHANGED <<tables, kind, matching, epID, todo, snap, repeats, edits, stood, seen, named, missing, unserved>>

\* The alert is INSERTed with the snapshot (AlertIntake), or the error answered.
Answer ==
  /\ pc \in {"done", "error"}
  /\ pc' = "idle" /\ kind' = "api" /\ matching' = {} /\ epID' = NULL
  /\ todo' = {} /\ snap' = [s \in {} |-> {}] /\ repeats' = NULL
  /\ edits' = 0 /\ stood' = NoRows /\ seen' = {} /\ named' = {} /\ missing' = {}
  /\ unserved' = FALSE /\ failed' = {}
  /\ UNCHANGED tables

\* A service with its policy, which has no steps yet.
Init ==
  /\ \E p \in Policy :
       /\ default = p
       /\ repeat = [q \in Policy |-> IF q = p THEN 0 ELSE NULL]
  /\ steps = {} /\ targets = {} /\ rules = {} /\ service = TRUE
  /\ pc = "idle" /\ kind = "api" /\ matching = {} /\ epID = NULL
  /\ todo = {} /\ snap = [s \in {} |-> {}] /\ repeats = NULL
  /\ edits = 0 /\ stood = NoRows /\ seen = {} /\ named = {} /\ missing = {}
  /\ unserved = FALSE /\ failed = {}

Process ==
  \/ \E k \in Kind, m \in SUBSET Rule : Receive(k, m)
  \/ GetService
  \/ RouteAlert
  \/ RulesFail
  \/ GetPolicy
  \/ ListSteps
  \/ \E s \in Step : ListStepTargets(s)
  \/ QueryFails
  \/ Answer

Next == Administrate \/ Process

Spec == Init /\ [][Next]_vars

-----------------------------------------------------------------------------

\* The variables have their types, the rows refer to rows that are there, and no
\* two steps of a policy have one number.
TypeOK ==
  /\ repeat \in [Policy -> 0..MaxRepeat \cup {NULL}]
  /\ steps \subseteq Step /\ \A s \in steps : StepPolicy[s] \notin Missing
  /\ \A s, q \in steps : StepPolicy[s] = StepPolicy[q] /\ Number[s] = Number[q] => s = q
  /\ targets \subseteq Target /\ \A t \in targets : TargetStep[t] \in steps
  /\ rules \subseteq Rule /\ \A r \in rules : service /\ RulePolicy[r] \notin Missing
  /\ service \in BOOLEAN /\ default \in Policy \cup {NULL}
  /\ pc \in Query \cup {"idle", "done", "error"} /\ kind \in Kind
  /\ matching \subseteq Rule /\ epID \in Policy \cup {NULL}
  /\ todo \subseteq Step
  /\ DOMAIN snap \subseteq Step /\ \A s \in DOMAIN snap : snap[s] \subseteq Target
  /\ repeats \in 0..MaxRepeat \cup {NULL}
  /\ edits \in 0..MaxEdits /\ stood \in Rows /\ seen \subseteq Rule
  /\ named \subseteq Policy \cup {NULL} /\ missing \subseteq Policy
  /\ unserved \in BOOLEAN /\ failed \subseteq Query

Decided == pc \in {"policy", "steps", "targets", "done"}

\* The first match wins, however the rules are edited meanwhile: with a rule
\* that matches standing all along, the policy is that of a matching rule that
\* comes no later; without any match at any moment it is one the service named.
\* POST /alerts takes the service's.
FirstMatchWins ==
  Decided =>
    /\ kind = "integration" /\ "rules" \notin failed /\ matching \cap stood.rules # {} =>
         \E r \in matching \cap seen :
           /\ epID = RulePolicy[r]
           /\ \A q \in matching \cap stood.rules : Priority[r] <= Priority[q]
    /\ kind = "api" \/ matching \cap seen = {} => epID \in named

\* The copy keeps every step of its policy that stood all along, with every
\* target that did: those pages are not lost whatever else was edited.
StandingStepIsKept ==
  pc = "done" =>
    \A s \in stood.steps : StepPolicy[s] = epID =>
      /\ s \in DOMAIN snap
      /\ \A t \in stood.targets : TargetStep[t] = s => t \in snap[s]

\* An alert is refused only if a query failed, the service was gone, or a
\* policy was gone: one the service named, or one whose rules went with it
\* while the request ran.
ErrorHasCause ==
  pc = "error" =>
    \/ failed # {}
    \/ unserved
    \/ NULL \in named \/ named \cap missing # {}
    \/ \E r \in seen \ stood.rules : RulePolicy[r] = epID /\ epID \in missing
=============================================================================
