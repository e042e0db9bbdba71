---------------------------- MODULE HandlerProofs -----------------------------
(***************************************************************************)
(* Proofs about the handlers that run several statements without a         *)
(* transaction: the copy of a policy into a new alert (PolicySnapshot), for *)
(* any policies, rules, steps, targets and number of edits in between, and *)
(* the timeline of an incident (Incidents), for any set of requests.       *)
(***************************************************************************)
EXTENDS PolicySnapshot, Incidents, TLAPS

-----------------------------------------------------------------------------
(* PolicySnapshot.                                                         *)

\* Rows refer to rows that are there, and step numbers are unique.
TablesOK ==
  /\ repeat \in [Policy -> 0..MaxRepeat \cup {NULL}]
  /\ steps \subseteq Step /\ \A s \in steps : StepPolicy[s] \notin Missing
  /\ \A s, q \in steps : StepPolicy[s] = StepPolicy[q] /\ Number[s] = Number[q] => s = q
  /\ targets \subseteq Target /\ \A t \in targets : TargetStep[t] \in steps
  /\ rules \subseteq Rule /\ \A r \in rules : service /\ RulePolicy[r] \notin Missing
  /\ service \in BOOLEAN /\ default \in Policy \cup {NULL}

HandlerOK ==
  /\ pc \in Query \cup {"idle", "done", "error"} /\ kind \in Kind
  /\ matching \subseteq Rule /\ epID \in Policy \cup {NULL}
  /\ todo \subseteq Step
  /\ DOMAIN snap \subseteq Step /\ \A s \in DOMAIN snap : snap[s] \subseteq Target
  /\ repeats \in 0..MaxRepeat \cup {NULL}

HistoryOK ==
  /\ edits \in 0..MaxEdits /\ stood \in Rows /\ seen \subseteq Rule
  /\ named \subseteq Policy \cup {NULL} /\ missing \subseteq Policy
  /\ unserved \in BOOLEAN /\ failed \subseteq Query

\* The history of a request holds what the tables say now.
HistoryIsCurrent ==
  pc # "idle" =>
    /\ stood.rules \subseteq rules /\ stood.steps \subseteq steps
    /\ stood.targets \subseteq targets
    /\ rules \subseteq seen /\ default \in named /\ Missing \subseteq missing
    /\ ~service => unserved

\* The policy is one the service named, and no match that stood was passed over.
FromService ==
  /\ epID \in named
  /\ kind = "api" \/ "rules" \in failed \/ matching \cap stood.rules = {}

\* The policy is that of a match, and no match that stood comes before it.
FromRule ==
  /\ kind = "integration"
  /\ \E r \in matching \cap seen :
       /\ epID = RulePolicy[r]
       /\ \A q \in matching \cap stood.rules : Priority[r] <= Priority[q]

Origin ==
  /\ pc = "rules" => kind = "integration" /\ epID \in named
  /\ Decided => FromService \/ FromRule

\* Every standing step is copied or still to be, with its standing targets.
Copied ==
  /\ pc \in {"idle", "service", "rules", "policy", "steps"} => DOMAIN snap = {}
  /\ pc = "done" => todo = {}
  /\ pc \in {"targets", "done"} =>
       /\ \A s \in stood.steps : StepPolicy[s] = epID => s \in todo \cup DOMAIN snap
       /\ \A s \in DOMAIN snap, t \in stood.targets : TargetStep[t] = s => t \in snap[s]

RInv == HandlerOK /\ HistoryOK /\ HistoryIsCurrent /\ Origin /\ Copied /\ ErrorHasCause

IInv == TablesOK /\ RInv

\* TypeOK is the three parts together.
LEMMA TypeParts == TypeOK <=> TablesOK /\ HandlerOK /\ HistoryOK
BY DEF TypeOK, TablesOK, HandlerOK, HistoryOK

-----------------------------------------------------------------------------
(* Edits.                                                                   *)

\* What creating, changing and deleting a policy does to the policies missing.
LEMMA MissingAfter ==
  ASSUME TablesOK, NEW p \in Policy
  PROVE  /\ \A n \in 0..MaxRepeat :
              CreatePolicy(p, n) \/ UpdatePolicy(p, n) =>
                Missing' = Missing \ {p} /\ repeat' \in [Policy -> 0..MaxRepeat \cup {NULL}]
         /\ DeletePolicy(p) =>
              Missing' = Missing \cup {p} /\ repeat' \in [Policy -> 0..MaxRepeat \cup {NULL}]
BY NullAssumption DEF TablesOK, Missing, CreatePolicy, UpdatePolicy, DeletePolicy

\* Every edit keeps the foreign keys and the step numbers.
LEMMA EditKeepsTables == ASSUME TablesOK, Edit PROVE TablesOK'
<1>1. ASSUME NEW p \in Policy, NEW n \in 0..MaxRepeat, CreatePolicy(p, n) \/ UpdatePolicy(p, n)
      PROVE  TablesOK'
  <2>1. UNCHANGED <<steps, targets, rules, service, default>>
    BY <1>1 DEF CreatePolicy, UpdatePolicy
  <2>. QED  BY <1>1, <2>1, MissingAfter DEF TablesOK
<1>2. ASSUME NEW p \in Policy, DeletePolicy(p) PROVE TablesOK'
  <2>1. Missing' = Missing \cup {p} /\ repeat' \in [Policy -> 0..MaxRepeat \cup {NULL}]
    BY <1>2, MissingAfter
  <2>2. /\ steps' = {s \in steps : StepPolicy[s] # p}
        /\ targets' = {t \in targets : StepPolicy[TargetStep[t]] # p}
        /\ rules' = {r \in rules : RulePolicy[r] # p}
        /\ UNCHANGED <<service, default>>
    BY <1>2 DEF DeletePolicy
  <2>3. \A t \in targets' : TargetStep[t] \in steps'
    BY <2>2 DEF TablesOK
  <2>. QED  BY <2>1, <2>2, <2>3 DEF TablesOK
<1>3. ASSUME NEW s \in Step, CreateStep(s) \/ DeleteStep(s) PROVE TablesOK'
  <2>1. Missing' = Missing /\ UNCHANGED <<repeat, rules, service, default>>
    BY <1>3 DEF CreateStep, DeleteStep, Missing
  <2>2. CASE CreateStep(s)
    <3>1. StepPolicy[s] \notin Missing
      BY <2>2 DEF CreateStep, Missing
    <3>2. \A a, b \in steps' : StepPolicy[a] = StepPolicy[b] /\ Number[a] = Number[b] => a = b
      BY <2>2 DEF CreateStep, TablesOK
    <3>. QED  BY <2>1, <2>2, <3>1, <3>2 DEF CreateStep, TablesOK
  <2>3. CASE DeleteStep(s)
    BY <2>1, <2>3 DEF DeleteStep, TablesOK
  <2>. QED  BY <1>3, <2>2, <2>3
<1>4. ASSUME NEW t \in Target, CreateTarget(t) \/ DeleteTarget(t) PROVE TablesOK'
  <2>1. Missing' = Missing /\ UNCHANGED <<repeat, steps, rules, service, default>>
    BY <1>4 DEF CreateTarget, DeleteTarget, Missing
  <2>. QED  BY <1>4, <2>1 DEF CreateTarget, DeleteTarget, TablesOK
<1>5. ASSUME NEW r \in Rule, CreateRule(r) \/ DeleteRule(r) PROVE TablesOK'
  <2>1. Missing' = Missing /\ UNCHANGED <<repeat, steps, targets, service, default>>
    BY <1>5 DEF CreateRule, DeleteRule, Missing
  <2>2. CreateRule(r) => service /\ RulePolicy[r] \notin Missing
    BY DEF CreateRule, Missing
  <2>. QED  BY <1>5, <2>1, <2>2 DEF CreateRule, DeleteRule, TablesOK
<1>6. ASSUME NEW p \in Policy \cup {NULL}, UpdateService(p) PROVE TablesOK'
  BY <1>6 DEF UpdateService, TablesOK, Missing
<1>7. CASE DeleteService
  BY <1>7 DEF DeleteService, TablesOK, Missing
<1>. QED  BY <1>1, <1>2, <1>3, <1>4, <1>5, <1>6, <1>7 DEF Edit

\* What an edit leaves to a request that runs: less that stood, more that was.
LEMMA ObserveMeans ==
  ASSUME HistoryOK, TablesOK', Calling, Observe
  PROVE  /\ HistoryOK'
         /\ stood'.rules = stood.rules \cap rules'
         /\ stood'.steps = stood.steps \cap steps'
         /\ stood'.targets = stood.targets \cap targets'
         /\ seen \subseteq seen' /\ rules' \subseteq seen'
         /\ named \subseteq named' /\ default' \in named'
         /\ missing \subseteq missing' /\ Missing' \subseteq missing'
         /\ (unserved => unserved') /\ (~service' => unserved')
         /\ failed' = failed
<1>1. /\ edits < MaxEdits /\ edits' = edits + 1
      /\ stood' = [rules   |-> stood.rules \cap rules',
                   steps   |-> stood.steps \cap steps',
                   targets |-> stood.targets \cap targets']
      /\ seen' = seen \cup rules'
      /\ named' = named \cup {default'}
      /\ missing' = missing \cup Missing'
      /\ unserved' = (unserved \/ ~service')
      /\ failed' = failed
  BY DEF Observe
<1>2. stood' \in Rows
  BY <1>1 DEF HistoryOK, Rows
<1>3. edits' \in 0..MaxEdits
  BY <1>1, BoundAssumption DEF HistoryOK
<1>4. Missing' \subseteq Policy
  BY DEF Missing
<1>5. seen' \subseteq Rule /\ named' \subseteq Policy \cup {NULL}
  BY <1>1 DEF HistoryOK, TablesOK
<1>. QED  BY <1>1, <1>2, <1>3, <1>4, <1>5 DEF HistoryOK

\* An edit keeps what is known of the request it falls into.
LEMMA AdministrateIInv == ASSUME IInv, Administrate PROVE IInv'
<1>1. TablesOK'
  BY EditKeepsTables DEF IInv, Administrate
<1>2. /\ UNCHANGED <<pc, kind, matching, epID, todo, snap, repeats>>
      /\ pc \notin {"done", "error"} /\ Observe
  BY DEF Administrate, handler
<1>3. HandlerOK'
  BY <1>2 DEF HandlerOK, IInv, RInv
<1>4. CASE ~Calling
  <2>1. pc = "idle" /\ UNCHANGED history
    BY <1>2, <1>4 DEF Observe, Calling, IInv, RInv, HandlerOK
  <2>2. HistoryOK'
    BY <2>1 DEF history, HistoryOK, IInv, RInv
  <2>3. Copied'
    BY <1>2, <2>1 DEF Copied, IInv, RInv
  <2>. QED  BY <1>1, <1>2, <1>3, <2>1, <2>2, <2>3
            DEF IInv, RInv, HistoryIsCurrent, Origin, Decided, ErrorHasCause
<1>5. CASE Calling
  <2>1. /\ HistoryOK'
        /\ stood'.rules = stood.rules \cap rules'
        /\ stood'.steps = stood.steps \cap steps'
        /\ stood'.targets = stood.targets \cap targets'
        /\ seen \subseteq seen' /\ rules' \subseteq seen'
        /\ named \subseteq named' /\ default' \in named'
        /\ missing \subseteq missing' /\ Missing' \subseteq missing'
        /\ (unserved => unserved') /\ (~service' => unserved')
        /\ failed' = failed
    BY <1>1, <1>2, <1>5, ObserveMeans DEF IInv, RInv
  <2>2. HistoryIsCurrent'
    BY <2>1 DEF HistoryIsCurrent
  <2>3. Origin'
    <3>1. FromService => FromService'
      BY <1>2, <2>1 DEF FromService
    <3>2. FromRule => FromRule'
      BY <1>2, <2>1 DEF FromRule
    <3>. QED  BY <1>2, <2>1, <3>1, <3>2 DEF IInv, RInv, Origin, Decided
  <2>4. Copied'
    BY <1>2, <2>1 DEF IInv, RInv, Copied
  <2>. QED  BY <1>1, <1>2, <1>3, <2>1, <2>2, <2>3, <2>4 DEF IInv, RInv, ErrorHasCause
<1>. QED  BY <1>4, <1>5

-----------------------------------------------------------------------------
(* A request.                                                               *)

\* The tables are left alone by a request.
LEMMA TablesStay ==
  ASSUME TablesOK, UNCHANGED tables PROVE TablesOK' /\ Missing' = Missing
BY DEF TablesOK, tables, Missing

\* When a request comes in, what there is has stood, been seen and been named.
LEMMA ReceiveIInv ==
  ASSUME IInv, NEW k \in Kind, NEW m \in SUBSET Rule, Receive(k, m) PROVE IInv'
<1>1. /\ pc = "idle" /\ pc' = "service" /\ kind' = k /\ matching' = m
      /\ stood' = [rules |-> rules, steps |-> steps, targets |-> targets]
      /\ seen' = rules /\ named' = {default} /\ missing' = Missing /\ unserved' = ~service
      /\ UNCHANGED <<tables, epID, todo, snap, repeats, edits, failed>>
  BY DEF Receive
<1>2. TablesOK' /\ Missing' = Missing
  BY <1>1, TablesStay DEF IInv
<1>3. HandlerOK'
  BY <1>1 DEF IInv, RInv, HandlerOK, Query
<1>4. HistoryOK'
  <2>1. stood' \in Rows
    BY <1>1 DEF IInv, TablesOK, Rows
  <2>2. missing' \subseteq Policy
    BY <1>1 DEF Missing
  <2>. QED  BY <1>1, <2>1, <2>2 DEF IInv, RInv, TablesOK, HistoryOK
<1>5. HistoryIsCurrent'
  BY <1>1, <1>2 DEF HistoryIsCurrent, tables
<1>6. Origin' /\ Copied' /\ ErrorHasCause'
  BY <1>1 DEF IInv, RInv, Origin, Decided, Copied, ErrorHasCause
<1>. QED  BY <1>2, <1>3, <1>4, <1>5, <1>6 DEF IInv, RInv

\* A step of the request that leaves the history alone keeps it current.
LEMMA Keeps ==
  ASSUME IInv, pc # "idle", UNCHANGED <<tables, history>>
  PROVE  /\ TablesOK' /\ HistoryOK' /\ HistoryIsCurrent'
         /\ stood.rules \subseteq rules /\ stood.steps \subseteq steps
         /\ stood.targets \subseteq targets /\ rules \subseteq seen /\ default \in named
         /\ Missing \subseteq missing /\ (~service => unserved)
<1>1. TablesOK' /\ Missing' = Missing
  BY TablesStay DEF IInv
<1>2. HistoryOK'
  BY DEF IInv, RInv, HistoryOK, history
<1>3. HistoryIsCurrent'
  BY <1>1 DEF IInv, RInv, HistoryIsCurrent, history, tables
<1>. QED  BY <1>1, <1>2, <1>3 DEF IInv, RInv, HistoryIsCurrent

\* The service's policy is one it named.
LEMMA GetServiceIInv == ASSUME IInv, GetService PROVE IInv'
<1>1. /\ pc = "service" /\ UNCHANGED <<tables, kind, matching, todo, snap, repeats, history>>
  BY DEF GetService
<1>2. /\ TablesOK' /\ HistoryOK' /\ HistoryIsCurrent' /\ default \in named
      /\ ~service => unserved
  BY <1>1, Keeps
<1>3. CASE service
  <2>1. epID' = default /\ pc' = IF kind = "api" THEN "policy" ELSE "rules"
    BY <1>3 DEF GetService
  <2>2. kind \in {"api", "integration"}
    BY DEF IInv, RInv, HandlerOK, Kind
  <2>3. HandlerOK'
    BY <1>1, <2>1 DEF IInv, RInv, HandlerOK, TablesOK, Query
  <2>4. FromService' \/ pc' = "rules"
    BY <1>1, <1>2, <2>1 DEF FromService, history
  <2>5. Origin'
    BY <1>1, <1>2, <2>1, <2>2, <2>4 DEF Origin, Decided, history
  <2>6. Copied' /\ ErrorHasCause'
    BY <1>1, <2>1 DEF IInv, RInv, Copied, ErrorHasCause
  <2>. QED  BY <1>2, <2>3, <2>5, <2>6 DEF IInv, RInv
<1>4. CASE ~service
  <2>1. pc' = "error" /\ epID' = epID
    BY <1>4 DEF GetService
  <2>2. HandlerOK'
    BY <1>1, <2>1 DEF IInv, RInv, HandlerOK
  <2>3. unserved'
    BY <1>1, <1>2, <1>4 DEF history
  <2>. QED  BY <1>2, <2>1, <2>2, <2>3 DEF IInv, RInv, Origin, Decided, Copied, ErrorHasCause
<1>. QED  BY <1>3, <1>4

\* The rules there are hold every match that stood; the first of them wins.
LEMMA RouteAlertIInv == ASSUME IInv, RouteAlert PROVE IInv'
<1> DEFINE m == matching \cap rules
<1>1. /\ pc = "rules" /\ pc' = "policy"
      /\ UNCHANGED <<tables, kind, matching, todo, snap, repeats, history>>
      /\ m = {} => epID' = epID
      /\ m # {} => \E r \in FirstMatches(m) : epID' = RulePolicy[r]
  BY DEF RouteAlert
<1>2. /\ TablesOK' /\ HistoryOK' /\ HistoryIsCurrent' /\ rules \subseteq seen
      /\ stood.rules \subseteq rules
  BY <1>1, Keeps
<1>3. kind = "integration" /\ epID \in named
  BY <1>1 DEF IInv, RInv, Origin
<1>4. CASE m = {}
  <2>1. HandlerOK'
    BY <1>1, <1>4 DEF IInv, RInv, HandlerOK, Query
  <2>2. FromService'
    BY <1>1, <1>2, <1>3, <1>4 DEF FromService, history
  <2>. QED  BY <1>1, <1>2, <2>1, <2>2 DEF IInv, RInv, Origin, Decided, Copied, ErrorHasCause
<1>5. CASE m # {}
  <2>1. PICK r \in FirstMatches(m) : epID' = RulePolicy[r]
    BY <1>1, <1>5
  <2>2. r \in matching \cap rules /\ \A q \in m : Priority[r] <= Priority[q]
    BY DEF FirstMatches
  <2>3. r \in Rule /\ RulePolicy[r] \in Policy
    BY <2>2, RuleAssumption DEF IInv, TablesOK
  <2>4. HandlerOK'
    BY <1>1, <2>1, <2>3 DEF IInv, RInv, HandlerOK, Query
  <2>5. FromRule'
    BY <1>1, <1>2, <1>3, <2>1, <2>2 DEF FromRule, history
  <2>. QED  BY <1>1, <1>2, <2>4, <2>5 DEF IInv, RInv, Origin, Decided, Copied, ErrorHasCause
<1>. QED  BY <1>4, <1>5

\* A query that fails adds its name to those that failed and nothing else.
LEMMA FailMeans ==
  ASSUME IInv, pc # "idle", NEW q \in Query, failed' = failed \cup {q},
         UNCHANGED <<tables, kind, matching, epID, todo, snap, repeats, edits, stood, seen,
                     named, missing, unserved>>
  PROVE  TablesOK' /\ HistoryOK' /\ HistoryIsCurrent'
<1>1. TablesOK' /\ Missing' = Missing
  BY TablesStay DEF IInv
<1>2. HistoryOK'
  BY DEF IInv, RInv, HistoryOK
<1>3. HistoryIsCurrent'
  BY <1>1 DEF IInv, RInv, HistoryIsCurrent, tables
<1>. QED  BY <1>1, <1>2, <1>3

\* Without the rules the policy remains the one the service named.
LEMMA RulesFailIInv == ASSUME IInv, RulesFail PROVE IInv'
<1>1. /\ pc = "rules" /\ pc' = "policy" /\ failed' = failed \cup {"rules"}
      /\ UNCHANGED <<tables, kind, matching, epID, todo, snap, repeats, edits, stood, seen,
                     named, missing, unserved>>
  BY DEF RulesFail
<1>2. TablesOK' /\ HistoryOK' /\ HistoryIsCurrent'
  BY <1>1, FailMeans DEF Query
<1>3. HandlerOK'
  BY <1>1 DEF IInv, RInv, HandlerOK, Query
<1>4. FromService'
  BY <1>1 DEF IInv, RInv, Origin, FromService
<1>. QED  BY <1>1, <1>2, <1>3, <1>4 DEF IInv, RInv, Origin, Decided, Copied, ErrorHasCause

\* A query that fails is the cause of the error.
LEMMA QueryFailsIInv == ASSUME IInv, QueryFails PROVE IInv'
<1>1. /\ pc \in Query /\ pc' = "error" /\ failed' = failed \cup {pc}
      /\ UNCHANGED <<tables, kind, matching, epID, todo, snap, repeats, edits, stood, seen,
                     named, missing, unserved>>
  BY DEF QueryFails
<1>2. TablesOK' /\ HistoryOK' /\ HistoryIsCurrent'
  BY <1>1, FailMeans DEF Query
<1>3. HandlerOK'
  BY <1>1 DEF IInv, RInv, HandlerOK
<1>. QED  BY <1>1, <1>2, <1>3 DEF IInv, RInv, Origin, Decided, Copied, ErrorHasCause

\* A policy that is not there was named and missing, or its rules went with it.
LEMMA GetPolicyIInv == ASSUME IInv, GetPolicy PROVE IInv'
<1>1. pc = "policy" /\ UNCHANGED <<tables, kind, matching, epID, todo, snap, history>>
  BY DEF GetPolicy
<1>2. /\ TablesOK' /\ HistoryOK' /\ HistoryIsCurrent'
      /\ stood.rules \subseteq rules /\ Missing \subseteq missing
  BY <1>1, Keeps
<1>3. FromService \/ FromRule
  BY <1>1 DEF IInv, RInv, Origin, Decided
<1>4. CASE epID \in Policy /\ epID \notin Missing
  <2>1. repeats' = repeat[epID] /\ pc' = "steps"
    BY <1>4 DEF GetPolicy
  <2>2. repeats' \in 0..MaxRepeat \cup {NULL}
    BY <1>4, <2>1 DEF IInv, TablesOK
  <2>3. HandlerOK'
    BY <1>1, <2>1, <2>2 DEF IInv, RInv, HandlerOK, Query
  <2>4. FromService' \/ FromRule'
    BY <1>1, <1>3 DEF FromService, FromRule, history
  <2>. QED  BY <1>1, <1>2, <2>1, <2>3, <2>4
            DEF IInv, RInv, Origin, Decided, Copied, ErrorHasCause
<1>5. CASE ~(epID \in Policy /\ epID \notin Missing)
  <2>1. pc' = "error" /\ repeats' = repeats
    BY <1>5 DEF GetPolicy
  <2>2. HandlerOK'
    BY <1>1, <2>1 DEF IInv, RInv, HandlerOK
  <2>3. epID = NULL \/ epID \in missing
    BY <1>2, <1>5 DEF IInv, RInv, HandlerOK
  <2>4. ASSUME FromRule PROVE \E r \in seen \ stood.rules : RulePolicy[r] = epID /\ epID \in missing
    <3>1. PICK r \in matching \cap seen : epID = RulePolicy[r]
      BY <2>4 DEF FromRule
    <3>2. r \in Rule /\ RulePolicy[r] \in Policy
      BY RuleAssumption DEF IInv, RInv, HandlerOK
    <3>3. epID \in Missing /\ epID \in missing
      BY <1>2, <1>5, <3>1, <3>2
    <3>4. r \notin stood.rules
      BY <1>2, <3>1, <3>3 DEF IInv, TablesOK
    <3>. QED  BY <3>1, <3>3, <3>4
  <2>5. NULL \in named \/ named \cap missing # {}
        \/ \E r \in seen \ stood.rules : RulePolicy[r] = epID /\ epID \in missing
    BY <1>3, <2>3, <2>4 DEF FromService
  <2>6. ErrorHasCause'
    BY <1>1, <2>5 DEF ErrorHasCause, history
  <2>. QED  BY <1>2, <2>1, <2>2, <2>6 DEF IInv, RInv, Origin, Decided, Copied
<1>. QED  BY <1>4, <1>5

\* The list holds every step that stood.
LEMMA ListStepsIInv == ASSUME IInv, ListSteps PROVE IInv'
<1>1. /\ pc = "steps" /\ todo' = {s \in steps : StepPolicy[s] = epID}
      /\ pc' = IF todo' = {} THEN "done" ELSE "targets"
      /\ UNCHANGED <<tables, kind, matching, epID, snap, repeats, history>>
  BY DEF ListSteps
<1>2. /\ TablesOK' /\ HistoryOK' /\ HistoryIsCurrent' /\ stood.steps \subseteq steps
  BY <1>1, Keeps
<1>3. HandlerOK'
  BY <1>1 DEF IInv, RInv, TablesOK, HandlerOK, Query
<1>4. Origin'
  BY <1>1 DEF IInv, RInv, Origin, Decided, FromService, FromRule, history
<1>5. Copied'
  <2>1. stood' = stood /\ DOMAIN snap' = {}
    BY <1>1 DEF IInv, RInv, Copied, history
  <2>. QED  BY <1>1, <1>2, <2>1 DEF Copied
<1>6. ErrorHasCause'
  BY <1>1 DEF ErrorHasCause
<1>. QED  BY <1>2, <1>3, <1>4, <1>5, <1>6 DEF IInv, RInv

\* A step's targets hold every target that stood.
LEMMA ListStepTargetsIInv ==
  ASSUME IInv, NEW s \in Step, ListStepTargets(s) PROVE IInv'
<1>1. /\ pc = "targets" /\ s \in todo /\ todo' = todo \ {s}
      /\ snap' = [q \in DOMAIN snap \cup {s} |->
                    IF q = s THEN {t \in targets : TargetStep[t] = s} ELSE snap[q]]
      /\ pc' = IF todo' = {} THEN "done" ELSE "targets"
      /\ UNCHANGED <<tables, kind, matching, epID, repeats, history>>
  BY DEF ListStepTargets
<1>2. /\ TablesOK' /\ HistoryOK' /\ HistoryIsCurrent' /\ stood.targets \subseteq targets
  BY <1>1, Keeps
<1>3. /\ DOMAIN snap' = DOMAIN snap \cup {s}
      /\ \A q \in DOMAIN snap' :
           snap'[q] = IF q = s THEN {t \in targets : TargetStep[t] = s} ELSE snap[q]
  BY <1>1
<1>4. HandlerOK'
  <2>1. DOMAIN snap' \subseteq Step /\ \A q \in DOMAIN snap' : snap'[q] \subseteq Target
    BY <1>3 DEF IInv, RInv, TablesOK, HandlerOK
  <2>. QED  BY <1>1, <2>1 DEF IInv, RInv, HandlerOK, Query
<1>5. Origin'
  BY <1>1 DEF IInv, RInv, Origin, Decided, FromService, FromRule, history
<1>6. Copied'
  <2>1. stood' = stood /\ epID' = epID
    BY <1>1 DEF history
  <2>2. \A q \in stood.steps : StepPolicy[q] = epID => q \in todo' \cup DOMAIN snap'
    BY <1>1, <1>3 DEF IInv, RInv, Copied
  <2>3. \A q \in DOMAIN snap', t \in stood.targets : TargetStep[t] = q => t \in snap'[q]
    BY <1>1, <1>2, <1>3 DEF IInv, RInv, Copied
  <2>. QED  BY <1>1, <2>1, <2>2, <2>3 DEF Copied
<1>7. ErrorHasCause'
  BY <1>1 DEF ErrorHasCause
<1>. QED  BY <1>2, <1>4, <1>5, <1>6, <1>7 DEF IInv, RInv

\* The next request starts from nothing.
LEMMA AnswerIInv == ASSUME IInv, Answer PROVE IInv'
<1>1. /\ pc' = "idle" /\ kind' = "api" /\ matching' = {} /\ epID' = NULL
      /\ todo' = {} /\ snap' = [s \in {} |-> {}] /\ repeats' = NULL
      /\ edits' = 0 /\ stood' = NoRows /\ seen' = {} /\ named' = {} /\ missing' = {}
      /\ unserved' = FALSE /\ failed' = {} /\ UNCHANGED tables
  BY DEF Answer
<1>2. TablesOK'
  BY <1>1, TablesStay DEF IInv
<1>3. HandlerOK' /\ Copied'
  BY <1>1 DEF HandlerOK, Kind, Copied
<1>4. HistoryOK'
  <2>1. NoRows \in Rows
    BY DEF NoRows, Rows
  <2>2. edits' \in 0..MaxEdits
    BY <1>1, BoundAssumption
  <2>3. unserved' \in BOOLEAN
    BY <1>1, Zenon
  <2>. QED  BY <1>1, <2>1, <2>2, <2>3 DEF HistoryOK
<1>. QED  BY <1>1, <1>2, <1>3, <1>4
          DEF IInv, RInv, HistoryIsCurrent, Origin, Decided, ErrorHasCause

-----------------------------------------------------------------------------

\* The inductive invariant holds of a service with one policy.
LEMMA InitIInv == Init => IInv
<1> SUFFICES ASSUME Init PROVE IInv
  OBVIOUS
<1>1. TablesOK
  BY BoundAssumption DEF Init, TablesOK
<1>2. HandlerOK /\ Copied
  BY DEF Init, HandlerOK, Kind, Copied
<1>3. HistoryOK
  <2>1. NoRows \in Rows
    BY DEF NoRows, Rows
  <2>2. edits \in 0..MaxEdits
    BY BoundAssumption DEF Init
  <2>3. unserved \in BOOLEAN
    BY Zenon DEF Init
  <2>. QED  BY <2>1, <2>2, <2>3 DEF Init, HistoryOK
<1>. QED  BY <1>1, <1>2, <1>3
          DEF Init, IInv, RInv, HistoryIsCurrent, Origin, Decided, ErrorHasCause

\* Every edit and every step of a request keeps the inductive invariant.
LEMMA NextIInv == IInv /\ [Next]_vars => IInv'
<1> SUFFICES ASSUME IInv, [Next]_vars PROVE IInv'
  OBVIOUS
<1>1. CASE Administrate
  BY <1>1, AdministrateIInv
<1>2. CASE Process
  BY <1>2, ReceiveIInv, GetServiceIInv, RouteAlertIInv, RulesFailIInv, GetPolicyIInv,
     ListStepsIInv, ListStepTargetsIInv, QueryFailsIInv, AnswerIInv DEF Process
<1>3. CASE UNCHANGED vars
  <2>1. TablesOK'
    BY <1>3, TablesStay DEF IInv, vars
  <2>2. HandlerOK' /\ HistoryOK'
    BY <1>3 DEF IInv, RInv, HandlerOK, HistoryOK, vars, handler, history
  <2>3. HistoryIsCurrent'
    BY <1>3, TablesStay DEF IInv, RInv, HistoryIsCurrent, vars, tables, handler, history
  <2>4. Origin' /\ Copied'
    BY <1>3 DEF IInv, RInv, Origin, Decided, FromService, FromRule, Copied, vars, handler, history
  <2>5. ErrorHasCause'
    BY <1>3 DEF IInv, RInv, ErrorHasCause, vars, handler, history
  <2>. QED  BY <2>1, <2>2, <2>3, <2>4, <2>5 DEF IInv, RInv
<1>. QED  BY <1>1, <1>2, <1>3 DEF Next

\* The inductive invariant: the tables, and what is known of the request.
THEOREM Invariance == Spec => []IInv
<1>. QED  BY InitIInv, NextIInv, PTL DEF Spec

\* Type correctness: in particular every edit keeps the foreign keys.
THEOREM TypeCorrect == Spec => []TypeOK
<1>1. IInv => TypeOK
  BY TypeParts DEF IInv, RInv
<1>. QED  BY <1>1, Invariance, PTL

\* routeAlert passes over no match that stood, however the rules are edited
\* between its queries, and falls back only on a policy the service named.
THEOREM FirstMatchAlwaysWins == Spec => []FirstMatchWins
<1>1. IInv => FirstMatchWins
  BY DEF IInv, RInv, Origin, FromService, FromRule, FirstMatchWins
<1>. QED  BY <1>1, Invariance, PTL

\* GetFullPolicy copies every step and every target that stood, whatever was
\* edited between the query for the steps and those for their targets.
THEOREM StandingStepsAreKept == Spec => []StandingStepIsKept
<1>1. IInv => StandingStepIsKept
  BY DEF IInv, RInv, Copied, StandingStepIsKept
<1>. QED  BY <1>1, Invariance, PTL

\* No alert is refused without a cause: edits alone never make the foreign keys
\* and the five queries disagree.
THEOREM ErrorsHaveACause == Spec => []ErrorHasCause
<1>1. IInv => ErrorHasCause
  BY DEF IInv, RInv
<1>. QED  BY <1>1, Invariance, PTL

-----------------------------------------------------------------------------
(* Incidents.                                                              *)

\* A request came in after those it knows to be answered.
InOrder == \A q \in Req : before[q] \subseteq Answered /\ q \notin before[q]

\* The timeline holds a request from its INSERT on.
InsertedOnce ==
  \A q \in Req :
    /\ stage[q] \in {"absent", "insert"} => ~InTimeline(q)
    /\ form[q] = "update" /\ stage[q] \in {"get", "write", "ok"} => InTimeline(q)

\* Whoever supplied the status has written it.
Supplied == row.status # Creation => Done(row.status, {"put", "update"})

IncidentIInv == IncidentTypeOK /\ InOrder /\ InsertedOnce /\ Supplied /\ StatusIsRecent

LEMMA IncidentTypes ==
  ASSUME IncidentTypeOK
  PROVE  /\ \A r \in Req : /\ stage[r] \in Stage /\ form[r] \in Form
                          /\ before[r] \subseteq Req /\ held[r] \in Row
         /\ row.status \in Req \cup {Creation} /\ row.rest \in Req \cup {Creation}
BY DEF IncidentTypeOK, Row

LEMMA InsertKeepsTimeline ==
  ASSUME IncidentTypeOK, NEW r \in Req, timeline' = Append(timeline, r)
  PROVE  /\ InTimeline(r)'
         /\ \A q \in Req : q # r => (InTimeline(q)' <=> InTimeline(q))
<1>1. timeline \in Seq(Req)
  BY DEF IncidentTypeOK
<1>2. /\ DOMAIN timeline' = 1..(Len(timeline) + 1) /\ DOMAIN timeline = 1..Len(timeline)
      /\ Len(timeline) \in Nat
      /\ timeline'[Len(timeline) + 1] = r
      /\ \A i \in DOMAIN timeline : timeline'[i] = timeline[i]
  BY <1>1
<1>. QED  BY <1>2 DEF InTimeline

\* The history and the timeline stay in order.
LEMMA OrderStays ==
  ASSUME IncidentTypeOK, InOrder, InsertedOnce, [IncidentNext]_incidentVars
  PROVE  IncidentTypeOK' /\ InOrder' /\ InsertedOnce'
<1>. USE DEF Stage, Form
<1>1. ASSUME NEW r \in Req, Begin(r) PROVE IncidentTypeOK' /\ InOrder' /\ InsertedOnce'
  <2>1. PICK k \in Form : /\ form' = [form EXCEPT ![r] = k]
                          /\ stage' = [stage EXCEPT ![r] = IF k = "put" THEN "write" ELSE "insert"]
    BY <1>1 DEF Begin
  <2>2. /\ stage[r] = "absent" /\ before' = [before EXCEPT ![r] = Answered]
        /\ UNCHANGED <<row, timeline, held>> /\ Answered \subseteq Req
    BY <1>1 DEF Begin, Answered
  <2>3. IncidentTypeOK'
    BY <2>1, <2>2 DEF IncidentTypeOK
  <2>4. InOrder'
    BY <2>1, <2>2 DEF InOrder, Answered, IncidentTypeOK
  <2>5. \A q \in Req : InTimeline(q)' <=> InTimeline(q)
    BY <2>2 DEF InTimeline
  <2>6. InsertedOnce'
    BY <2>1, <2>2, <2>5 DEF InsertedOnce, IncidentTypeOK
  <2>. QED  BY <2>3, <2>4, <2>6
<1>2. ASSUME NEW r \in Req, CreateUpdate(r) PROVE IncidentTypeOK' /\ InOrder' /\ InsertedOnce'
  <2>1. /\ stage[r] = "insert" /\ timeline' = Append(timeline, r)
        /\ stage' = [stage EXCEPT ![r] = IF form[r] = "note" THEN "ok" ELSE "get"]
        /\ UNCHANGED <<row, form, held, before>>
    BY <1>2 DEF CreateUpdate
  <2>2. timeline \in Seq(Req) /\ ~InTimeline(r)
    BY <2>1 DEF IncidentTypeOK, InsertedOnce
  <2>3. /\ timeline' \in Seq(Req)
        /\ \A i, j \in DOMAIN timeline' : timeline'[i] = timeline'[j] => i = j
    BY <2>1, <2>2 DEF IncidentTypeOK, InTimeline
  <2>4. IncidentTypeOK'
    BY <2>1, <2>3 DEF IncidentTypeOK
  <2>5. InOrder'
    BY <2>1 DEF InOrder, Answered, IncidentTypeOK
  <2>6. InsertedOnce'
    BY <2>1, InsertKeepsTimeline DEF InsertedOnce, IncidentTypeOK
  <2>. QED  BY <2>4, <2>5, <2>6
<1>3. ASSUME NEW r \in Req, Put(r) \/ Get(r) \/ Sync(r) \/ StatementFails(r)
      PROVE  IncidentTypeOK' /\ InOrder' /\ InsertedOnce'
  <2>1. /\ UNCHANGED <<timeline, form, before>> /\ stage[r] \in {"insert", "get", "write"}
        /\ \/ stage[r] = "get" /\ stage' = [stage EXCEPT ![r] = "write"]
           \/ stage[r] = "write" /\ stage' = [stage EXCEPT ![r] = "ok"]
           \/ stage' = [stage EXCEPT ![r] = "error"]
    BY <1>3 DEF Put, Get, Sync, StatementFails
  <2>2. row' \in Row /\ held' \in [Req -> Row]
    BY <1>3 DEF Put, Get, Sync, StatementFails, IncidentTypeOK, Row
  <2>3. IncidentTypeOK'
    BY <2>1, <2>2 DEF IncidentTypeOK
  <2>4. InOrder'
    BY <2>1 DEF InOrder, Answered, IncidentTypeOK
  <2>5. \A q \in Req : InTimeline(q)' <=> InTimeline(q)
    BY <2>1 DEF InTimeline
  <2>6. InsertedOnce'
    BY <2>1, <2>5 DEF InsertedOnce, IncidentTypeOK
  <2>. QED  BY <2>3, <2>4, <2>6
<1>4. CASE UNCHANGED incidentVars
  BY <1>4 DEF incidentVars, IncidentTypeOK, InOrder, Answered, InsertedOnce, InTimeline
<1>. QED  BY <1>1, <1>2, <1>3, <1>4 DEF IncidentNext, Handle

\* A request that is answered keeps its form and its answer.
LEMMA AnswersAreFinal ==
  ASSUME IncidentTypeOK, [IncidentNext]_incidentVars, NEW q \in Req, NEW K
  PROVE  /\ q \in Answered => q \in Answered' /\ before'[q] = before[q] /\ (Done(q, K)' <=> Done(q, K))
         /\ q \in Answered \/ ~Done(q, K)
<1>1. ASSUME NEW r \in Req, Begin(r) \/ Handle(r), q \in Answered
      PROVE  stage'[q] = stage[q] /\ form'[q] = form[q] /\ before'[q] = before[q]
  BY <1>1 DEF Begin, Handle, Put, CreateUpdate, Get, Sync, StatementFails, IncidentTypeOK, Answered
<1>2. CASE UNCHANGED incidentVars
  BY <1>2 DEF incidentVars, Answered, Done
<1>. QED  BY <1>1, <1>2 DEF IncidentNext, Answered, Done

\* A write supplies the status; nobody who is done came after it.
LEMMA WriteSupplies ==
  ASSUME IncidentIInv, IncidentTypeOK', NEW r \in Req, Put(r) \/ Sync(r)
  PROVE  Supplied' /\ StatusIsRecent'
<1>1. /\ row'.status = r /\ r # Creation /\ stage[r] = "write" /\ form[r] \in {"put", "update"}
      /\ stage' = [stage EXCEPT ![r] = "ok"] /\ UNCHANGED <<timeline, form, before>>
  BY CreationAssumption DEF Put, Sync, IncidentIInv, IncidentTypeOK, Row
<1>2. stage'[r] = "ok" /\ \A q \in Req : q # r => stage'[q] = stage[q]
  BY <1>1 DEF IncidentIInv, IncidentTypeOK
<1>3. Supplied'
  BY <1>1, <1>2 DEF Supplied, Done
<1>4. \A q \in Req : r \notin before[q]
  BY <1>1 DEF IncidentIInv, InOrder, Answered
<1>5. form[r] # "put" => InTimeline(r)
  BY <1>1 DEF IncidentIInv, InsertedOnce
<1>6. InTimeline(r)' <=> InTimeline(r)
  BY <1>1 DEF InTimeline
<1>. QED  BY <1>1, <1>3, <1>4, <1>5, <1>6 DEF StatusIsRecent, Precedes, InTimeline

LEMMA IncidentNextIInv == IncidentIInv /\ [IncidentNext]_incidentVars => IncidentIInv'
<1>. SUFFICES ASSUME IncidentIInv, [IncidentNext]_incidentVars PROVE IncidentIInv'
  OBVIOUS
<1>1. IncidentTypeOK' /\ InOrder' /\ InsertedOnce'
  BY OrderStays DEF IncidentIInv
<1>2. ASSUME NEW r \in Req, Put(r) \/ Sync(r) PROVE Supplied' /\ StatusIsRecent'
  BY <1>1, <1>2, WriteSupplies
<1>3. ASSUME row' = row,
             \A q \in Req : Done(q, {"put", "update"})' =>
               Done(q, {"put", "update"}) /\ before'[q] = before[q],
             row.status # Creation =>
               Done(row.status, {"put", "update"})' /\ form'[row.status] = form[row.status],
             \A q \in Req : InTimeline(q) => InTimeline(q)'
      PROVE  Supplied' /\ StatusIsRecent'
  <2>1. row.status \in Req \cup {Creation}
    BY IncidentTypes DEF IncidentIInv
  <2>2. Supplied'
    BY <1>3 DEF Supplied, Done
  <2>3. \A q \in Req : Done(q, {"put", "update"})' => ~Precedes(row.status, q)'
    BY <1>3 DEF IncidentIInv, StatusIsRecent, Precedes
  <2>4. row.status # Creation /\ form'[row.status] # "put" => InTimeline(row.status)'
    BY <1>3, <2>1 DEF IncidentIInv, StatusIsRecent
  <2>. QED  BY <1>3, <2>2, <2>3, <2>4 DEF StatusIsRecent, Precedes, InTimeline
<1>4. CASE \E r \in Req : Begin(r) \/ CreateUpdate(r) \/ Get(r) \/ StatementFails(r)
  <2>1. PICK r \in Req : Begin(r) \/ CreateUpdate(r) \/ Get(r) \/ StatementFails(r)
    BY <1>4
  <2>2. row' = row
    BY <2>1 DEF Begin, CreateUpdate, Get, StatementFails
  <2>3. ASSUME NEW q \in Req, Done(q, {"put", "update"})'
        PROVE  Done(q, {"put", "update"}) /\ before'[q] = before[q]
    BY <2>1, <2>3 DEF Begin, CreateUpdate, Get, StatementFails, Done, IncidentIInv, IncidentTypeOK, Form
  <2>4. row.status # Creation => Done(row.status, {"put", "update"})' /\ form'[row.status] = form[row.status]
    <3>. SUFFICES ASSUME NEW s \in Req, s = row.status
                  PROVE  stage'[s] = "ok" /\ form'[s] \in {"put", "update"} /\ form'[s] = form[s]
      BY <2>2, IncidentTypes DEF IncidentIInv, Done
    <3>1. stage[s] = "ok" /\ form[s] \in {"put", "update"}
      BY CreationAssumption DEF IncidentIInv, Supplied, Done
    <3>. QED  BY <2>1, <3>1 DEF Begin, CreateUpdate, Get, StatementFails, IncidentIInv, IncidentTypeOK
  <2>5. ASSUME NEW q \in Req, InTimeline(q) PROVE InTimeline(q)'
    <3>1. CASE CreateUpdate(r)
      BY <2>5, <3>1, InsertKeepsTimeline DEF CreateUpdate, IncidentIInv
    <3>2. CASE UNCHANGED timeline
      BY <2>5, <3>2 DEF InTimeline
    <3>. QED  BY <2>1, <3>1, <3>2 DEF Begin, Get, StatementFails
  <2>. QED  BY <1>1, <1>3, <2>2, <2>3, <2>4, <2>5 DEF IncidentIInv
<1>5. CASE UNCHANGED incidentVars
  BY <1>1, <1>5 DEF incidentVars, Done, InTimeline, IncidentIInv, Supplied, StatusIsRecent, Precedes
<1>. QED  BY <1>1, <1>2, <1>4, <1>5 DEF IncidentNext, Handle, IncidentIInv

LEMMA IncidentInitIInv == IncidentInit => IncidentIInv
BY CreationAssumption DEF IncidentInit, IncidentIInv, IncidentTypeOK, Row, Form, Stage,
     Original, InOrder, Answered, InsertedOnce, InTimeline, Supplied, StatusIsRecent, Done

\* The variables have their types and no request is in the timeline twice.
THEOREM IncidentTypeCorrect == IncidentSpec => []IncidentTypeOK
<1>1. IncidentIInv => IncidentTypeOK
  BY DEF IncidentIInv
<1>. QED  BY <1>1, IncidentInitIInv, IncidentNextIInv, PTL DEF IncidentSpec

\* However updates of the timeline and PUTs interleave and fail, a status is never
\* undone by an older one, and it is in the timeline unless a PUT has set it.
THEOREM StatusIsAlwaysRecent == IncidentSpec => []StatusIsRecent
<1>1. IncidentIInv => StatusIsRecent
  BY DEF IncidentIInv
<1>. QED  BY <1>1, IncidentInitIInv, IncidentNextIInv, PTL DEF IncidentSpec

-----------------------------------------------------------------------------
(* PUTs that are undone.                                                   *)

\* An update ran at the same time as q and is done.
Raced(q) == \E u \in Req : Done(u, {"update"}) /\ ~Precedes(u, q) /\ ~Precedes(q, u)

\* A row that was read after q was done lacks what q wrote only if it had been
\* undone by then.
ReadsRaced ==
  \A u \in Req : \A q \in before[u] :
    form[u] = "update" /\ stage[u] = "write" /\ Done(q, {"put"}) /\ Precedes(held[u].rest, q) => Raced(q)

LInv == LostEditsRaced /\ ReadsRaced

\* Requests that are done stay so, and so does their order.
LEMMA RacedStays ==
  ASSUME IncidentTypeOK, InOrder, [IncidentNext]_incidentVars, NEW q \in Answered, Raced(q)
  PROVE  Raced(q)'
<1>1. q \in Req
  BY DEF Answered
<1>2. PICK u \in Req : Done(u, {"update"}) /\ ~Precedes(u, q) /\ ~Precedes(q, u)
  BY DEF Raced
<1>3. u \in Answered
  BY <1>2 DEF Done, Answered
<1>4. Done(u, {"update"})' /\ before'[u] = before[u] /\ before'[q] = before[q]
  BY <1>1, <1>2, <1>3, AnswersAreFinal
<1>. QED  BY <1>2, <1>4 DEF Raced, Precedes

\* What is old stays as it was: the step brings neither a PUT that is done nor a
\* row that was read.
LEMMA QuietKeepsLInv ==
  ASSUME IncidentIInv, LInv, [IncidentNext]_incidentVars, row' = row,
         \A q \in Req : Done(q, {"put"})' => Done(q, {"put"}),
         \A u \in Req : form'[u] = "update" /\ stage'[u] = "write" =>
           /\ before'[u] = before[u]
           /\ \/ form[u] = "update" /\ stage[u] = "write" /\ held'[u] = held[u]
              \/ held'[u] = row
  PROVE  LInv'
<1>1. ASSUME NEW q \in Req, Done(q, {"put"})'
      PROVE  Done(q, {"put"}) /\ q \in Answered /\ before'[q] = before[q] /\ (Raced(q) => Raced(q)')
  <2>1. Done(q, {"put"}) /\ q \in Answered
    BY <1>1 DEF Done, Answered
  <2>. QED  BY <2>1, AnswersAreFinal, RacedStays DEF IncidentIInv
<1>2. ASSUME NEW q \in Req, Done(q, {"put"})', Precedes(row.rest, q)' PROVE Raced(q)'
  BY <1>1, <1>2 DEF LInv, LostEditsRaced, Raced, Precedes
<1>3. ASSUME NEW u \in Req, NEW q \in before'[u], form'[u] = "update", stage'[u] = "write",
             Done(q, {"put"})', Precedes(held[u].rest, q)'
      PROVE  Raced(q)'
  <2>1. before'[u] = before[u] /\ q \in Req
    BY <1>3 DEF IncidentIInv, IncidentTypeOK
  <2>2. Precedes(held'[u].rest, q)
    BY <1>1, <1>3, <2>1 DEF Precedes
  <2>3. Done(q, {"put"}) /\ (Raced(q) => Raced(q)')
    BY <1>1, <1>3, <2>1
  <2>4. CASE form[u] = "update" /\ stage[u] = "write" /\ held'[u] = held[u]
    BY <1>3, <2>1, <2>2, <2>3, <2>4 DEF LInv, ReadsRaced
  <2>5. CASE held'[u] = row
    BY <2>1, <2>2, <2>3, <2>5 DEF LInv, LostEditsRaced, Raced
  <2>. QED  BY <1>3, <2>1, <2>4, <2>5
<1>4. LostEditsRaced'
  BY <1>2 DEF LostEditsRaced, Raced
<1>5. ReadsRaced'
  BY <1>3 DEF ReadsRaced
<1>. QED  BY <1>4, <1>5 DEF LInv

LEMMA WriteKeepsLInv ==
  ASSUME IncidentIInv, IncidentIInv', LInv, [IncidentNext]_incidentVars, NEW r \in Req, Put(r) \/ Sync(r)
  PROVE  LInv'
<1>1. /\ stage[r] = "write" /\ stage' = [stage EXCEPT ![r] = "ok"] /\ UNCHANGED <<form, held, before>>
      /\ r \notin Answered /\ r # Creation
  BY CreationAssumption DEF Put, Sync, Answered
<1>2. \A q \in Req : r \notin before[q]
  BY <1>1 DEF IncidentIInv, InOrder
<1>3. \A q \in Req \ {r} : stage'[q] = stage[q]
  BY <1>1 DEF IncidentIInv, IncidentTypeOK
<1>4. ASSUME NEW q \in Req \ {r}, Done(q, {"put"})'
      PROVE  Done(q, {"put"}) /\ (Raced(q) => Raced(q)')
  <2>1. Done(q, {"put"}) /\ q \in Answered
    BY <1>1, <1>3, <1>4 DEF Done, Answered
  <2>. QED  BY <2>1, RacedStays DEF IncidentIInv
<1>5. ReadsRaced'
  <2>. SUFFICES ASSUME NEW u \in Req, NEW q \in before[u], form[u] = "update", stage'[u] = "write",
                       Done(q, {"put"})', Precedes(held[u].rest, q)
                PROVE  Raced(q)'
    BY <1>1 DEF ReadsRaced, Precedes
  <2>1. u # r /\ q \in Req \ {r}
    BY <1>1, <1>2 DEF IncidentIInv, IncidentTypeOK
  <2>. QED  BY <1>3, <1>4, <2>1 DEF LInv, ReadsRaced
<1>6. ASSUME NEW q \in Req, Done(q, {"put"})', Precedes(row'.rest, q) PROVE Raced(q)'
  <2>1. CASE Put(r)
    <3>1. row'.rest = r
      BY <2>1 DEF Put
    <3>. QED  BY <1>1, <1>2, <1>6, <3>1 DEF Precedes
  <2>2. CASE Sync(r)
    <3>1. form[r] = "update" /\ row' = [held[r] EXCEPT !.status = r] /\ held[r] \in Row
      BY <2>2 DEF Sync, IncidentIInv, IncidentTypeOK
    <3>2. row'.rest = held[r].rest
      BY <3>1 DEF Row
    <3>3. q # r
      BY <1>1, <1>6, <3>1 DEF Done
    <3>4. CASE q \in before[r]
      <4>1. Raced(q)
        BY <1>1, <1>4, <1>6, <3>1, <3>2, <3>3, <3>4 DEF LInv, ReadsRaced
      <4>. QED  BY <1>4, <1>6, <3>3, <4>1
    <3>5. CASE q \notin before[r]
      <4>1. Done(r, {"update"})'
        BY <1>1, <3>1 DEF Done, IncidentIInv, IncidentTypeOK
      <4>2. ~Precedes(r, q)' /\ ~Precedes(q, r)'
        BY <1>1, <1>2, <3>5, CreationAssumption DEF Precedes
      <4>. QED  BY <4>1, <4>2 DEF Raced
    <3>. QED  BY <3>4, <3>5
  <2>. QED  BY <2>1, <2>2
<1>7. LostEditsRaced'
  BY <1>1, <1>6 DEF LostEditsRaced, Raced, Precedes
<1>. QED  BY <1>5, <1>7 DEF LInv

LEMMA NextLInv == IncidentIInv /\ IncidentIInv' /\ LInv /\ [IncidentNext]_incidentVars => LInv'
<1>. SUFFICES ASSUME IncidentIInv, IncidentIInv', LInv, [IncidentNext]_incidentVars PROVE LInv'
  OBVIOUS
<1>1. ASSUME NEW r \in Req, Put(r) \/ Sync(r) PROVE LInv'
  BY <1>1, WriteKeepsLInv
<1>2. ASSUME NEW r \in Req, Begin(r) \/ CreateUpdate(r) \/ Get(r) \/ StatementFails(r)
      PROVE  LInv'
  <2>1. row' = row
    BY <1>2 DEF Begin, CreateUpdate, Get, StatementFails
  <2>2. ASSUME NEW q \in Req, Done(q, {"put"})' PROVE Done(q, {"put"})
    BY <1>2, <2>2 DEF Begin, CreateUpdate, Get, StatementFails, Done, IncidentIInv,
                      IncidentTypeOK, Form, InsertedOnce
  <2>3. ASSUME NEW u \in Req, form'[u] = "update", stage'[u] = "write"
        PROVE  /\ before'[u] = before[u]
               /\ \/ form[u] = "update" /\ stage[u] = "write" /\ held'[u] = held[u]
                  \/ held'[u] = row
    BY <1>2, <2>3 DEF Begin, CreateUpdate, Get, StatementFails, IncidentIInv, IncidentTypeOK, Form
  <2>. QED  BY <2>1, <2>2, <2>3, QuietKeepsLInv
<1>3. CASE UNCHANGED incidentVars
  BY <1>3, QuietKeepsLInv DEF incidentVars, Done
<1>. QED  BY <1>1, <1>2, <1>3 DEF IncidentNext, Handle

\* What a PUT has written is lost only to an update that ran at the same time.
THEOREM LostEditsAlwaysRaced == IncidentSpec => []LostEditsRaced
<1>1. IncidentInit => LInv
  BY DEF IncidentInit, LInv, LostEditsRaced, ReadsRaced, Done
<1>2. LInv => LostEditsRaced
  BY DEF LInv
<1>3. IncidentSpec => []IncidentIInv
  BY IncidentInitIInv, IncidentNextIInv, PTL DEF IncidentSpec
<1>. QED  BY <1>1, <1>2, <1>3, NextLInv, PTL DEF IncidentSpec
=============================================================================
