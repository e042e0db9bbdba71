-------------------------------- MODULE Paging --------------------------------
(***************************************************************************)
(* One step of an escalation in detail: the middle of processAlert         *)
(* (internal/engine/escalation.go), which Escalation takes as a list of    *)
(* entries.  The targets of the step become users, the users' notification *)
(* rules become rows of the queue: one query for every target, one for the *)
(* rules of every user, one for the contact methods of every rule and one  *)
(* INSERT for every page, without a transaction, while administrators edit *)
(* users, contact methods and rules (internal/api/users.go,                *)
(* internal/store/sqlite/users.go).  Each query and each edit is an        *)
(* action.                                                                 *)
(*                                                                         *)
(* No statement changes the columns of a contact method or a rule, so they *)
(* are CONSTANTS, and the tables say which rows there are.                 *)
(***************************************************************************)
EXTENDS Naturals, FiniteSets, SequencesExt

CONSTANTS
  User, Method, Rule,
  Owner,      \* contact_methods.user_id
  Address,    \* contact_methods.type and value
  RuleUser,   \* notification_rules.user_id
  RuleMethod, \* notification_rules.contact_method_id, not always the user's own
  Targets,    \* the targets of the step in the alert's snapshot: users, and
  SCHEDULE,   \* schedules, which the resolver answers for (OnCall)
  MaxEdits    \* bound: edits while the step is executed

ASSUME UserAssumption   == IsFiniteSet(User)
ASSUME MethodAssumption == Owner \in [Method -> User] /\ DOMAIN Address = Method
ASSUME RuleAssumption   == RuleUser \in [Rule -> User] /\ RuleMethod \in [Rule -> Method]
ASSUME TargetAssumption == SCHEDULE \notin User /\ Targets \in Seq(User \cup {SCHEDULE})
ASSUME EditsAssumption  == MaxEdits \in Nat

VARIABLES
  users, methods, rules, \* the rows there are
  pc,        \* what the processor does next; "idle" between executions
  at,        \* the target being resolved, then the pagee being paged
  pagees,    \* targetUsers: the users found, each with the target that named them
  todo,      \* rules listed for the pagee that were not looked at yet
  page,      \* the rule whose page is about to be enqueued
  sent,      \* the rows enqueued by this execution
  \* history of the execution, for the properties only
  edits,     \* edits since it began
  stood,     \* rows that were there at all of its moments
  seen,      \* rows that were there at some moment
  unresolved, \* targets whose resolution failed
  lost       \* <<pagee, rule>>: a query or INSERT failed for it

tables  == <<users, methods, rules>>
engine  == <<pc, at, pagees, todo, page, sent>>
history == <<edits, stood, seen, unresolved, lost>>
pagingVars == <<tables, engine, history>>

Rows == [users : SUBSET User, methods : SUBSET Method, rules : SUBSET Rule]

NoRows == [users |-> {}, methods |-> {}, rules |-> {}]

Pagee == [target : DOMAIN Targets, user : User]

\* A row of notification_queue; pagee and rule are history.
Message == [user : User, method : Method, pagee : Nat, rule : Rule]

-----------------------------------------------------------------------------
(* Edits.  A request that fails validation changes nothing.                *)

\* A new id.
CreateUser(u) ==
  /\ u \notin users
  /\ users' = users \cup {u}
  /\ UNCHANGED <<methods, rules>>

\* By another administrator, who may be gone by now himself.  ON DELETE CASCADE:
\* contact methods go with their user, rules with their user or contact method.
DeleteUser(u) ==
  /\ u \in users
  /\ users' = users \ {u}
  /\ methods' = {m \in methods : Owner[m] # u}
  /\ rules' = {r \in rules : RuleUser[r] # u /\ Owner[RuleMethod[r]] # u}

\* UNIQUE(user_id, type, value)
IsFree(m) == \A n \in methods : Owner[n] = Owner[m] => Address[n] # Address[m]

CreateContactMethod(m) ==
  /\ m \notin methods /\ Owner[m] \in users /\ IsFree(m)
  /\ methods' = methods \cup {m}
  /\ UNCHANGED <<users, rules>>

DeleteContactMethod(m) ==
  /\ m \in methods
  /\ methods' = methods \ {m}
  /\ rules' = {r \in rules : RuleMethod[r] # m}
  /\ UNCHANGED users

\* Nobody looks whose the contact method is.
CreateNotificationRule(r) ==
  /\ r \notin rules /\ RuleUser[r] \in users /\ RuleMethod[r] \in methods
  /\ rules' = rules \cup {r}
  /\ UNCHANGED <<users, methods>>

DeleteNotificationRule(r) ==
  /\ r \in rules
  /\ rules' = rules \ {r}
  /\ UNCHANGED <<users, methods>>

Edit ==
  \/ \E u \in User : CreateUser(u) \/ DeleteUser(u)
  \/ \E m \in Method : CreateContactMethod(m) \/ DeleteContactMethod(m)
  \/ \E r \in Rule : CreateNotificationRule(r) \/ DeleteNotificationRule(r)

Executing == pc \notin {"idle", "done"}

\* What an edit means for the history of the execution it falls into.
Observe ==
  IF Executing
  THEN /\ edits < MaxEdits
       /\ edits' = edits + 1
       /\ stood' = [users   |-> stood.users \cap users',
                    methods |-> stood.methods \cap methods',
                    rules   |-> stood.rules \cap rules']
       /\ seen' = [users   |-> seen.users \cup users',
                   methods |-> seen.methods \cup methods',
                   rules   |-> seen.rules \cup rules']
       /\ UNCHANGED <<unresolved, lost>>
  ELSE UNCHANGED history

\* An execution that is done waits for no edit.
Administrate ==
  /\ pc # "done"
  /\ Edit
  /\ UNCHANGED engine
  /\ Observe

-----------------------------------------------------------------------------
(* The execution of the step.                                              *)

Begin ==
  /\ pc = "idle"
  /\ pc' = IF Targets = <<>> THEN "done" ELSE "resolve"
  /\ at' = 1
  /\ stood' = [users |-> users, methods |-> methods, rules |-> rules]
  /\ seen' = stood'
  /\ UNCHANGED <<tables, pagees, todo, page, sent, edits, unresolved, lost>>

\* What comes after the last target: the first of the users found.
AfterTarget ==
  IF at < Len(Targets)
  THEN at' = at + 1 /\ UNCHANGED pc
  ELSE at' = 1 /\ pc' = IF pagees' = <<>> THEN "done" ELSE "rules"

\* users.Get; a user who is gone is passed over.
GetUser ==
  /\ pc = "resolve" /\ Targets[at] # SCHEDULE
  /\ pagees' = IF Targets[at] \in users
                 THEN Append(pagees, [target |-> at, user |-> Targets[at]]) ELSE pagees
  /\ AfterTarget
  /\ UNCHANGED <<tables, todo, page, sent, history>>

\* resolver.Resolve: users who are there, in any order, or nobody.
ResolveTarget ==
  /\ pc = "resolve" /\ Targets[at] = SCHEDULE
  /\ \E s \in SetToAllKPermutations(users) :
       pagees' = pagees \o [i \in DOMAIN s |-> [target |-> at, user |-> s[i]]]
  /\ AfterTarget
  /\ UNCHANGED <<tables, todo, page, sent, history>>

\* Mutation: the first target that cannot be resolved ends the step's targets.
ResolveFails_Ends ==
  /\ pc = "resolve"
  /\ at' = 1 /\ pc' = IF pagees = <<>> THEN "done" ELSE "rules"
  /\ unresolved' = unresolved \cup {at}
  /\ UNCHANGED <<tables, pagees, todo, page, sent, edits, stood, seen, lost>>

\* continue: the other targets are resolved all the same.
ResolveFails ==
  /\ pc = "resolve"
  /\ UNCHANGED pagees
  /\ AfterTarget
  /\ unresolved' = unresolved \cup {at}
  /\ UNCHANGED <<tables, todo, page, sent, edits, stood, seen, lost>>

NextPagee ==
  IF at < Len(pagees) THEN at' = at + 1 /\ pc' = "rules" ELSE pc' = "done" /\ UNCHANGED at

\* The rules of a pagee without the contact methods, in no order.
ListNotificationRules ==
  /\ pc = "rules"
  /\ todo' = {r \in rules : RuleUser[r] = pagees[at].user}
  /\ IF todo' = {} THEN NextPagee ELSE pc' = "methods" /\ UNCHANGED at
  /\ UNCHANGED <<tables, pagees, page, sent, history>>

RulesFail ==
  /\ pc = "rules"
  /\ NextPagee
  /\ lost' = lost \cup ({at} \X Rule)
  /\ UNCHANGED <<tables, pagees, todo, page, sent, edits, stood, seen, unresolved>>

\* The next rule, or the next pagee after the last.
NextRule == IF todo' = {} THEN NextPagee ELSE pc' = "methods" /\ UNCHANGED at

\* Mutation: the user's methods are not looked at.
Reaches_Any(r, u) == TRUE

\* for cm in methods: cm.ID == rule.ContactMethodID.  A rule that names a
\* contact method of somebody else finds none.
Reaches(r, u) == RuleMethod[r] \in methods /\ Owner[RuleMethod[r]] = u

ListContactMethods(r) ==
  /\ pc = "methods" /\ r \in todo
  /\ todo' = todo \ {r}
  /\ IF Reaches(r, pagees[at].user)
       THEN page' = {r} /\ pc' = "enqueue" /\ UNCHANGED at
       ELSE NextRule /\ UNCHANGED page
  /\ UNCHANGED <<tables, pagees, sent, history>>

MethodsFail(r) ==
  /\ pc = "methods" /\ r \in todo
  /\ todo' = todo \ {r}
  /\ NextRule
  /\ lost' = lost \cup {<<at, r>>}
  /\ UNCHANGED <<tables, pagees, page, sent, edits, stood, seen, unresolved>>

PageRow(r) == [user |-> pagees[at].user, method |-> RuleMethod[r], pagee |-> at, rule |-> r]

\* The address is the one read, whatever has become of the contact method.
Enqueue(r) ==
  /\ pc = "enqueue" /\ r \in page
  /\ sent' = Append(sent, PageRow(r))
  /\ page' = {}
  /\ UNCHANGED todo /\ NextRule
  /\ UNCHANGED <<tables, pagees, history>>

EnqueueFails(r) ==
  /\ pc = "enqueue" /\ r \in page
  /\ page' = {}
  /\ UNCHANGED todo /\ NextRule
  /\ lost' = lost \cup {<<at, r>>}
  /\ UNCHANGED <<tables, pagees, sent, edits, stood, seen, unresolved>>

\* The alert is advanced to its next step (Escalation).
Advance ==
  /\ pc = "done"
  /\ pc' = "idle" /\ at' = 1
  /\ pagees' = <<>> /\ todo' = {} /\ page' = {} /\ sent' = <<>>
  /\ edits' = 0 /\ stood' = NoRows /\ seen' = NoRows /\ unresolved' = {} /\ lost' = {}
  /\ UNCHANGED tables

PagingInit ==
  /\ users = {} /\ methods = {} /\ rules = {}
  /\ pc = "idle" /\ at = 1
  /\ pagees = <<>> /\ todo = {} /\ page = {} /\ sent = <<>>
  /\ edits = 0 /\ stood = NoRows /\ seen = NoRows /\ unresolved = {} /\ lost = {}

Execute ==
  \/ Begin
  \/ GetUser
  \/ ResolveTarget
  \/ ResolveFails
  \/ ListNotificationRules
  \/ RulesFail
  \/ \E r \in Rule : ListContactMethods(r) \/ MethodsFail(r)
  \/ \E r \in Rule : Enqueue(r) \/ EnqueueFails(r)
  \/ Advance

PagingNext == Administrate \/ Execute

PagingSpec == PagingInit /\ [][PagingNext]_pagingVars

-----------------------------------------------------------------------------

\* The variables have their types, the rows refer to rows that are there, and no
\* user has one address twice.
PagingTypeOK ==
  /\ users \subseteq User
  /\ methods \subseteq Method
  /\ \A m \in methods : Owner[m] \in users
  /\ \A m, n \in methods : Owner[m] = Owner[n] /\ Address[m] = Address[n] => m = n
  /\ rules \subseteq Rule
  /\ \A r \in rules : RuleUser[r] \in users /\ RuleMethod[r] \in methods
  /\ pc \in {"idle", "resolve", "rules", "methods", "enqueue", "done"}
  /\ at \in Nat
  /\ pagees \in Seq(Pagee)
  /\ todo \subseteq Rule /\ page \subseteq Rule
  /\ sent \in Seq(Message)
  /\ edits \in 0..MaxEdits /\ stood \in Rows /\ seen \in Rows
  /\ unresolved \subseteq DOMAIN Targets /\ lost \subseteq Nat \X Rule

IsOwn(r) == Owner[RuleMethod[r]] = RuleUser[r]

\* A target that is a user who was there all along is among the users found.
Found(i) ==
  i \notin unresolved /\ Targets[i] \in stood.users =>
    \E k \in DOMAIN pagees : pagees[k] = [target |-> i, user |-> Targets[i]]

\* A rule that stood all along and names a contact method of its own user has
\* paged pagee k.
Paged(k, r) ==
  r \in stood.rules /\ RuleUser[r] = pagees[k].user /\ IsOwn(r) /\ <<k, r>> \notin lost =>
    \E i \in DOMAIN sent : sent[i].pagee = k /\ sent[i].rule = r

\* A step that is done has paged everybody it owes a page, once for every target
\* that names them.  Only the one target, user or page whose own query failed is
\* missing, nobody else.
StandingRuleIsPaged ==
  pc = "done" =>
    /\ \A i \in DOMAIN Targets : Found(i)
    /\ \A k \in DOMAIN pagees, r \in Rule : Paged(k, r)

\* It goes to a contact method of the user it names, whom a target named, by a
\* rule of that user, all of them there at some moment of the step.
Owed(s) ==
  /\ s.user = pagees[s.pagee].user /\ s.user = RuleUser[s.rule]
  /\ s.method = RuleMethod[s.rule] /\ s.user = Owner[s.method]
  /\ s.user \in seen.users /\ s.method \in seen.methods /\ s.rule \in seen.rules

\* Every page is owed, and no rule pages twice for one naming of its user.
PagesAreOwed ==
  /\ \A i \in DOMAIN sent : Owed(sent[i])
  /\ \A i, j \in DOMAIN sent : sent[i] = sent[j] => i = j
=============================================================================
