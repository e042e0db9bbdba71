----------------------------- MODULE PagingProofs -----------------------------
(***************************************************************************)
(* Proofs about Paging for every set of users, contact methods, rules and  *)
(* targets, and any number of edits and failures.                          *)
(***************************************************************************)
EXTENDS Paging, FiniteSetTheorems, TLAPS

Paying == pc \in {"rules", "methods", "enqueue"}

\* The step has what its place in the code needs.
InPlace ==
  /\ pc = "resolve" => at \in DOMAIN Targets
  /\ Paying => at \in DOMAIN pagees
  /\ pc = "idle" => pagees = <<>>
  /\ pc \in {"idle", "resolve"} => sent = <<>>
  /\ pc \in {"idle", "resolve", "rules", "done"} => todo = {}
  /\ pc # "enqueue" => page = {}
  /\ \A r, q \in page : r = q

\* Rows that stood are there, rows that are there were seen.
Witnessed ==
  Executing =>
    /\ stood.users \subseteq users /\ stood.rules \subseteq rules
    /\ users \subseteq seen.users /\ methods \subseteq seen.methods /\ rules \subseteq seen.rules

\* The rules in hand are those of the pagee in hand, the rule about to page
\* reaches him.
InHand ==
  /\ \A r \in todo \cup page : RuleUser[r] = pagees[at].user /\ r \in seen.rules
  /\ \A r \in page :
       /\ IsOwn(r) /\ r \notin todo
       /\ RuleUser[r] \in seen.users /\ RuleMethod[r] \in seen.methods

\* Pages sent are of pagees who had their turn, and not of rules still to do.
Turned ==
  \A i \in DOMAIN sent :
    /\ sent[i].pagee \in DOMAIN pagees
    /\ Paying => sent[i].pagee <= at
    /\ Paying /\ sent[i].pagee = at => pc # "rules" /\ sent[i].rule \notin todo \cup page

IInv == PagingTypeOK /\ InPlace /\ Witnessed /\ InHand /\ Turned /\ PagesAreOwed

\* Targets and rules that had their turn.
Resolved(i) == (pc = "resolve" /\ i < at) \/ Paying \/ pc = "done"

Finished(k, r) ==
  \/ pc = "done"
  \/ Paying /\ k < at
  \/ pc \in {"methods", "enqueue"} /\ k = at /\ r \notin todo \cup page

\* What StandingRuleIsPaged says of the end holds of every turn that is over.
FoundSoFar == \A i \in DOMAIN Targets : Resolved(i) => Found(i)

PagedSoFar == \A k \in DOMAIN pagees, r \in Rule : Finished(k, r) => Paged(k, r)

-----------------------------------------------------------------------------
(* Edits.                                                                  *)

\* Foreign keys and the UNIQUE constraint survive every edit.
Keys ==
  /\ users \subseteq User /\ methods \subseteq Method /\ rules \subseteq Rule
  /\ \A m \in methods : Owner[m] \in users
  /\ \A m, n \in methods : Owner[m] = Owner[n] /\ Address[m] = Address[n] => m = n
  /\ \A r \in rules : RuleUser[r] \in users /\ RuleMethod[r] \in methods

LEMMA EditKeepsKeys ==
  ASSUME Keys, Edit
  PROVE  Keys'
<1>1. ASSUME NEW u \in User, CreateUser(u) PROVE Keys'
  BY <1>1, Keys DEF Keys, CreateUser
<1>2. ASSUME NEW u \in User, DeleteUser(u) PROVE Keys'
  BY <1>2, Keys, MethodAssumption, RuleAssumption DEF Keys, DeleteUser
<1>3. ASSUME NEW m \in Method, CreateContactMethod(m) PROVE Keys'
  BY <1>3, Keys DEF Keys, CreateContactMethod, IsFree
<1>4. ASSUME NEW m \in Method, DeleteContactMethod(m) PROVE Keys'
  BY <1>4, Keys DEF Keys, DeleteContactMethod
<1>5. ASSUME NEW r \in Rule, CreateNotificationRule(r) PROVE Keys'
  BY <1>5, Keys DEF Keys, CreateNotificationRule
<1>6. ASSUME NEW r \in Rule, DeleteNotificationRule(r) PROVE Keys'
  BY <1>6, Keys DEF Keys, DeleteNotificationRule
<1>. QED  BY <1>1, <1>2, <1>3, <1>4, <1>5, <1>6, Edit DEF Edit

\* The history only loses what stood and only gains what was seen.
LEMMA ObserveShape ==
  ASSUME stood \in Rows, seen \in Rows, Keys', Executing, Observe
  PROVE  /\ stood' \in Rows /\ seen' \in Rows
         /\ edits' = edits + 1 /\ edits < MaxEdits
         /\ stood'.users \subseteq stood.users /\ stood'.rules \subseteq stood.rules
         /\ stood'.users \subseteq users' /\ stood'.rules \subseteq rules'
         /\ seen.users \subseteq seen'.users /\ seen.methods \subseteq seen'.methods
         /\ seen.rules \subseteq seen'.rules
         /\ users' \subseteq seen'.users /\ methods' \subseteq seen'.methods
         /\ rules' \subseteq seen'.rules
         /\ unresolved' = unresolved /\ lost' = lost
  BY DEF Observe, Rows, Keys

LEMMA AdministrateKeepsIInv ==
  ASSUME IInv, Administrate
  PROVE  IInv'
<1>. USE IInv DEF IInv
<1>1. Keys'
  BY EditKeepsKeys DEF Administrate, PagingTypeOK, Keys
<1>2. UNCHANGED engine
  BY DEF Administrate
<1>3. CASE Executing
  <2>1. /\ stood' \in Rows /\ seen' \in Rows
        /\ edits' = edits + 1 /\ edits < MaxEdits
        /\ stood'.users \subseteq users' /\ stood'.rules \subseteq rules'
        /\ seen.users \subseteq seen'.users /\ seen.methods \subseteq seen'.methods
        /\ seen.rules \subseteq seen'.rules
        /\ users' \subseteq seen'.users /\ methods' \subseteq seen'.methods
        /\ rules' \subseteq seen'.rules
        /\ unresolved' = unresolved /\ lost' = lost
    BY <1>1, <1>3, ObserveShape DEF Administrate, PagingTypeOK
  <2>2. PagingTypeOK'
    BY <1>1, <1>2, <2>1, EditsAssumption DEF PagingTypeOK, engine, Keys
  <2>3. InPlace' /\ Turned'
    BY <1>2 DEF InPlace, Turned, engine, Paying
  <2>4. Witnessed'
    BY <2>1 DEF Witnessed
  <2>5. InHand'
    BY <1>2, <2>1 DEF InHand, engine, IsOwn
  <2>6. PagesAreOwed'
    BY <1>2, <2>1 DEF PagesAreOwed, Owed, engine
  <2>. QED  BY <2>2, <2>3, <2>4, <2>5, <2>6
<1>4. CASE ~Executing
  <2>1. UNCHANGED history
    BY <1>4 DEF Administrate, Observe
  <2>2. PagingTypeOK'
    BY <1>1, <1>2, <2>1 DEF PagingTypeOK, engine, history, Keys
  <2>3. InPlace' /\ Turned' /\ InHand' /\ PagesAreOwed'
    BY <1>2, <2>1 DEF InPlace, Turned, InHand, PagesAreOwed, Owed, IsOwn, engine, history, Paying
  <2>4. Witnessed'
    BY <1>2, <1>4 DEF Witnessed, Executing, engine
  <2>. QED  BY <2>2, <2>3, <2>4
<1>. QED  BY <1>3, <1>4

-----------------------------------------------------------------------------
(* The execution.                                                          *)

LEMMA TargetsType == /\ Len(Targets) \in Nat
                     /\ DOMAIN Targets = 1..Len(Targets)
                     /\ \A i \in DOMAIN Targets : Targets[i] \in User \cup {SCHEDULE}
BY TargetAssumption

\* A schedule is answered with a sequence of users who are there.
LEMMA AnswerType ==
  ASSUME NEW U \in SUBSET User, NEW s \in SetToAllKPermutations(U)
  PROVE  s \in Seq(U)
<1>1. PICK V \in SUBSET U : s \in SetToSeqs(V)
  BY DEF SetToAllKPermutations
<1>2. IsFiniteSet(V)
  BY UserAssumption, FS_Subset
<1>3. Cardinality(V) \in Nat
  BY <1>2, FS_CardinalityType
<1>4. s \in [1..Cardinality(V) -> V]
  BY <1>1 DEF SetToSeqs
<1>5. s \in [1..Cardinality(V) -> U]
  BY <1>4
<1>. QED  BY <1>3, <1>5

\* After the last target comes the first pagee, if there is one.
LEMMA AfterTargetShape ==
  ASSUME PagingTypeOK, pc = "resolve", at \in DOMAIN Targets, AfterTarget, pagees' \in Seq(Pagee)
  PROVE  \/ pc' = "resolve" /\ at < Len(Targets) /\ at' = at + 1 /\ at' \in DOMAIN Targets
         \/ at = Len(Targets) /\ at' = 1 /\ pc' = "rules" /\ at' \in DOMAIN pagees'
         \/ at = Len(Targets) /\ at' = 1 /\ pc' = "done" /\ pagees' = <<>>
<1>1. at \in Nat /\ at >= 1 /\ at <= Len(Targets)
  BY TargetsType
<1>2. CASE at < Len(Targets)
  BY <1>1, <1>2, TargetsType DEF AfterTarget
<1>3. CASE ~(at < Len(Targets)) /\ pagees' = <<>>
  BY <1>1, <1>3, TargetsType DEF AfterTarget
<1>4. CASE ~(at < Len(Targets)) /\ pagees' # <<>>
  <2>1. 1 \in DOMAIN pagees'
    BY <1>4
  <2>. QED  BY <1>1, <1>4, <2>1, TargetsType DEF AfterTarget
<1>. QED  BY <1>2, <1>3, <1>4

LEMMA NextPageeShape ==
  ASSUME PagingTypeOK, Paying, at \in DOMAIN pagees, NextPagee
  PROVE  /\ pc' \in {"rules", "done"}
         /\ pc' = "rules" => at' = at + 1 /\ at' \in DOMAIN pagees
         /\ pc' = "done" => at' = at /\ at = Len(pagees)
<1>1. Len(pagees) \in Nat /\ DOMAIN pagees = 1..Len(pagees)
  BY DEF PagingTypeOK
<1>. QED  BY <1>1 DEF NextPagee

LEMMA NextRuleShape ==
  ASSUME PagingTypeOK, Paying, at \in DOMAIN pagees, NextRule
  PROVE  \/ pc' = "methods" /\ at' = at
         \/ pc' = "rules" /\ todo' = {} /\ at' = at + 1 /\ at' \in DOMAIN pagees
         \/ pc' = "done" /\ todo' = {} /\ at' = at /\ at = Len(pagees)
<1>1. CASE todo' = {}
  BY <1>1, NextPageeShape DEF NextRule
<1>2. CASE todo' # {}
  BY <1>2 DEF NextRule
<1>. QED  BY <1>1, <1>2

\* A target that is resolved adds pagees or none, and disturbs nothing else.
LEMMA ResolvingKeepsIInv ==
  ASSUME IInv, pc = "resolve", AfterTarget, pagees' \in Seq(Pagee),
         UNCHANGED <<tables, todo, page, sent, edits, stood, seen, lost>>,
         unresolved' \subseteq DOMAIN Targets
  PROVE  IInv'
<1>. USE IInv DEF IInv
<1>1. at \in DOMAIN Targets /\ sent = <<>> /\ todo = {} /\ page = {}
  BY DEF InPlace
<1>2. \/ pc' = "resolve" /\ at < Len(Targets) /\ at' = at + 1 /\ at' \in DOMAIN Targets
      \/ at = Len(Targets) /\ at' = 1 /\ pc' = "rules" /\ at' \in DOMAIN pagees'
      \/ at = Len(Targets) /\ at' = 1 /\ pc' = "done" /\ pagees' = <<>>
  BY <1>1, AfterTargetShape
<1>3. PagingTypeOK'
  BY <1>2 DEF PagingTypeOK, tables
<1>4. InPlace'
  BY <1>1, <1>2 DEF InPlace, Paying
<1>5. Witnessed'
  BY DEF Witnessed, Executing, tables
<1>6. InHand' /\ Turned' /\ PagesAreOwed'
  BY <1>1 DEF InHand, Turned, PagesAreOwed
<1>. QED  BY <1>3, <1>4, <1>5, <1>6

LEMMA ResolveKeepsIInv ==
  ASSUME IInv, GetUser \/ ResolveTarget \/ ResolveFails
  PROVE  IInv'
<1>. USE IInv DEF IInv
<1>1. pc = "resolve" /\ at \in DOMAIN Targets /\ pagees \in Seq(Pagee) /\ users \subseteq User
      /\ unresolved \subseteq DOMAIN Targets
  BY DEF GetUser, ResolveTarget, ResolveFails, InPlace, PagingTypeOK
<1>2. CASE GetUser
  <2>1. pagees' \in Seq(Pagee)
    <3>1. CASE Targets[at] \in users
      <4>1. [target |-> at, user |-> Targets[at]] \in Pagee
        BY <1>1, <3>1 DEF Pagee
      <4>. QED  BY <1>1, <1>2, <3>1, <4>1 DEF GetUser
    <3>2. CASE Targets[at] \notin users
      BY <1>1, <1>2, <3>2 DEF GetUser
    <3>. QED  BY <3>1, <3>2
  <2>. QED  BY <1>1, <1>2, <2>1, ResolvingKeepsIInv DEF GetUser, history
<1>3. CASE ResolveTarget
  <2>1. PICK s \in SetToAllKPermutations(users) :
          pagees' = pagees \o [i \in DOMAIN s |-> [target |-> at, user |-> s[i]]]
    BY <1>3 DEF ResolveTarget
  <2>2. s \in Seq(users)
    BY <1>1, <2>1, AnswerType
  <2>3. \A i \in DOMAIN s : [target |-> at, user |-> s[i]] \in Pagee
    BY <1>1, <2>2 DEF Pagee
  <2>4. [i \in DOMAIN s |-> [target |-> at, user |-> s[i]]] \in Seq(Pagee)
    BY <2>2, <2>3
  <2>5. pagees' \in Seq(Pagee)
    BY <1>1, <2>1, <2>4
  <2>. QED  BY <1>1, <1>3, <2>5, ResolvingKeepsIInv DEF ResolveTarget, history
<1>4. CASE ResolveFails
  BY <1>1, <1>4, ResolvingKeepsIInv DEF ResolveFails
<1>. QED  BY <1>2, <1>3, <1>4

LEMMA ListNotificationRulesKeepsIInv ==
  ASSUME IInv, ListNotificationRules
  PROVE  IInv'
<1>. USE IInv DEF IInv
<1>1. /\ pc = "rules" /\ Paying /\ Executing /\ at \in DOMAIN pagees /\ page = {}
      /\ UNCHANGED <<tables, pagees, page, sent, history>>
      /\ todo' = {r \in rules : RuleUser[r] = pagees[at].user}
      /\ \A i \in DOMAIN sent : sent[i].pagee \in DOMAIN pagees /\ sent[i].pagee < at
  <2>1. /\ pc = "rules" /\ Paying /\ Executing /\ at \in DOMAIN pagees /\ page = {}
        /\ UNCHANGED <<tables, pagees, page, sent, history>>
        /\ todo' = {r \in rules : RuleUser[r] = pagees[at].user}
    BY DEF ListNotificationRules, InPlace, Paying, Executing
  <2>2. \A i \in DOMAIN sent : sent[i].pagee \in DOMAIN pagees /\ sent[i].pagee <= at /\ sent[i].pagee # at
    BY <2>1 DEF Turned
  <2>3. at \in Nat /\ DOMAIN pagees \subseteq Nat
    BY DEF PagingTypeOK
  <2>. QED  BY <2>1, <2>2, <2>3
<1>2. \/ pc' = "methods" /\ at' = at
      \/ pc' = "rules" /\ todo' = {} /\ at' = at + 1 /\ at' \in DOMAIN pagees
      \/ pc' = "done" /\ todo' = {} /\ at' = at
  BY <1>1, NextPageeShape DEF ListNotificationRules
<1>3. at \in Nat /\ DOMAIN pagees \subseteq Nat
  BY DEF PagingTypeOK
<1>4. PagingTypeOK'
  BY <1>1, <1>2, <1>3 DEF PagingTypeOK, tables, history
<1>5. InPlace'
  BY <1>1, <1>2 DEF InPlace, Paying
<1>6. Witnessed'
  BY <1>1 DEF Witnessed, tables, history
<1>7. InHand'
  BY <1>1, <1>2 DEF InHand, Witnessed, history
<1>8. Turned'
  BY <1>1, <1>2, <1>3 DEF Turned, Paying
<1>9. PagesAreOwed'
  BY <1>1 DEF PagesAreOwed, Owed, history
<1>. QED  BY <1>4, <1>5, <1>6, <1>7, <1>8, <1>9

LEMMA RulesFailKeepsIInv ==
  ASSUME IInv, RulesFail
  PROVE  IInv'
<1>. USE IInv DEF IInv
<1>1. /\ pc = "rules" /\ Paying /\ Executing /\ at \in DOMAIN pagees /\ page = {} /\ todo = {}
      /\ UNCHANGED <<tables, pagees, todo, page, sent, edits, stood, seen, unresolved>>
      /\ lost' = lost \cup ({at} \X Rule)
  BY DEF RulesFail, InPlace, Paying, Executing
<1>2. /\ pc' \in {"rules", "done"}
      /\ pc' = "rules" => at' = at + 1 /\ at' \in DOMAIN pagees
      /\ pc' = "done" => at' = at
  BY <1>1, NextPageeShape DEF RulesFail
<1>3. at \in Nat /\ DOMAIN pagees \subseteq Nat
  BY DEF PagingTypeOK
<1>4. PagingTypeOK'
  BY <1>1, <1>2, <1>3 DEF PagingTypeOK, tables
<1>5. InPlace'
  BY <1>1, <1>2 DEF InPlace, Paying
<1>6. Witnessed' /\ InHand' /\ PagesAreOwed'
  BY <1>1 DEF Witnessed, tables, InHand, PagesAreOwed, Owed
<1>7. Turned'
  BY <1>1, <1>2, <1>3 DEF Turned, Paying
<1>. QED  BY <1>4, <1>5, <1>6, <1>7

\* A rule is done with: it is left out of what is still to do, with or without a
\* page, and the next is taken.
LEMMA LeaveRuleKeepsIInv ==
  ASSUME IInv, Paying, NextRule, NEW r \in todo \cup page, pc # "rules",
         todo' = todo \ {r}, page' = {}, pc = "methods" => r \in todo,
         UNCHANGED <<tables, pagees, edits, stood, seen, unresolved>>,
         \/ UNCHANGED sent
         \/ sent' = Append(sent, PageRow(r)) /\ r \in page,
         lost' \subseteq Nat \X Rule
  PROVE  IInv'
<1>. USE IInv DEF IInv
<1>1. at \in DOMAIN pagees /\ at \in Nat /\ DOMAIN pagees \subseteq Nat /\ r \in Rule /\ Executing
  BY DEF InPlace, PagingTypeOK, Paying, Executing
<1>2. \/ pc' = "methods" /\ at' = at
      \/ pc' = "rules" /\ todo' = {} /\ at' = at + 1 /\ at' \in DOMAIN pagees
      \/ pc' = "done" /\ todo' = {} /\ at' = at
  BY <1>1, NextRuleShape
<1>3. sent \in Seq(Message) /\ pagees \in Seq(Pagee)
  BY DEF PagingTypeOK
<1>4. r \in page => /\ PageRow(r) \in Message
                    /\ Owed(PageRow(r))
                    /\ PageRow(r).pagee = at /\ PageRow(r).rule = r
                    /\ r \notin todo
  <2>1. pagees[at] \in Pagee
    BY <1>1, <1>3
  <2>2. PageRow(r) \in Message /\ PageRow(r).pagee = at /\ PageRow(r).rule = r
    BY <1>1, <2>1, RuleAssumption DEF PageRow, Message, Pagee
  <2>3. r \in page => Owed(PageRow(r)) /\ r \notin todo
    BY DEF InHand, Owed, PageRow, IsOwn
  <2>. QED  BY <2>2, <2>3
<1>5. \A i \in DOMAIN sent :
        /\ sent[i].pagee \in DOMAIN pagees /\ sent[i].pagee <= at
        /\ sent[i].pagee = at => sent[i].rule \notin todo \cup page
  BY DEF Turned
<1>6. sent' \in Seq(Message)
  BY <1>3, <1>4
<1>7. PagingTypeOK'
  BY <1>1, <1>2, <1>6 DEF PagingTypeOK, tables
<1>8. InPlace'
  BY <1>2 DEF InPlace, Paying
<1>9. Witnessed'
  BY <1>1 DEF Witnessed, tables
<1>10. InHand'
  BY <1>2 DEF InHand
<1>11. Turned'
  <2>1. ASSUME NEW i \in DOMAIN sent'
        PROVE  /\ sent'[i].pagee \in DOMAIN pagees /\ sent'[i].pagee <= at
               /\ sent'[i].pagee = at => sent'[i].rule \notin todo'
    <3>1. CASE i \in DOMAIN sent /\ sent'[i] = sent[i]
      BY <1>5, <3>1
    <3>2. CASE sent'[i] = PageRow(r) /\ r \in page
      BY <1>1, <1>4, <3>2
    <3>. QED  BY <1>3, <3>1, <3>2, <2>1
  <2>. QED  BY <1>1, <1>2, <2>1 DEF Turned, Paying
<1>12. PagesAreOwed'
  <2>1. CASE UNCHANGED sent
    BY <2>1 DEF PagesAreOwed, Owed
  <2>2. CASE sent' = Append(sent, PageRow(r)) /\ r \in page
    <3>1. \A i \in DOMAIN sent : sent[i] # PageRow(r)
      BY <1>4, <1>5, <2>2
    <3>2. DOMAIN sent' = 1..(Len(sent) + 1) /\ DOMAIN sent = 1..Len(sent) /\ Len(sent) \in Nat
      BY <1>3, <2>2
    <3>3. /\ \A i \in DOMAIN sent : sent'[i] = sent[i]
          /\ sent'[Len(sent) + 1] = PageRow(r)
      BY <1>3, <2>2
    <3>4. \A i \in DOMAIN sent' : Owed(sent'[i])
      <4>1. \A i \in DOMAIN sent : Owed(sent[i])
        BY DEF PagesAreOwed
      <4>2. Owed(PageRow(r))
        BY <1>4, <2>2
      <4>3. ASSUME NEW i \in DOMAIN sent' PROVE sent'[i] = PageRow(r) \/ \E j \in DOMAIN sent : sent'[i] = sent[j]
        BY <3>2, <3>3
      <4>. QED  BY <4>1, <4>2, <4>3
    <3>5. \A i, j \in DOMAIN sent' : sent'[i] = sent'[j] => i = j
      BY <3>1, <3>2, <3>3 DEF PagesAreOwed
    <3>. QED  BY <3>4, <3>5 DEF PagesAreOwed, Owed
  <2>. QED  BY <2>1, <2>2
<1>. QED  BY <1>7, <1>8, <1>9, <1>10, <1>11, <1>12

LEMMA ListContactMethodsKeepsIInv ==
  ASSUME IInv, NEW r \in Rule, ListContactMethods(r)
  PROVE  IInv'
<1>. USE IInv DEF IInv
<1>1. /\ pc = "methods" /\ Paying /\ Executing /\ r \in todo /\ page = {}
      /\ UNCHANGED <<tables, pagees, sent, history>>
      /\ todo' = todo \ {r}
      /\ at \in DOMAIN pagees
  BY DEF ListContactMethods, InPlace, Paying, Executing
<1>2. CASE Reaches(r, pagees[at].user)
  <2>1. page' = {r} /\ pc' = "enqueue" /\ at' = at
    BY <1>2 DEF ListContactMethods
  <2>2. PagingTypeOK'
    BY <1>1, <2>1 DEF PagingTypeOK, tables, history
  <2>3. InPlace'
    BY <1>1, <2>1 DEF InPlace, Paying
  <2>4. Witnessed'
    BY <1>1, <2>1 DEF Witnessed, tables, history
  <2>5. RuleUser[r] = pagees[at].user /\ r \in seen.rules
    BY <1>1 DEF InHand
  <2>6. /\ IsOwn(r) /\ RuleMethod[r] \in methods /\ Owner[RuleMethod[r]] \in users
    BY <1>2, <2>5 DEF Reaches, IsOwn, PagingTypeOK
  <2>7. RuleMethod[r] \in seen.methods /\ RuleUser[r] \in seen.users
    BY <1>1, <2>6 DEF Witnessed, IsOwn
  <2>8. InHand'
    BY <1>1, <2>1, <2>5, <2>6, <2>7 DEF InHand, IsOwn, history
  <2>9. Turned'
    BY <1>1, <2>1 DEF Turned, Paying
  <2>10. PagesAreOwed'
    BY <1>1 DEF PagesAreOwed, Owed, history
  <2>. QED  BY <2>2, <2>3, <2>4, <2>8, <2>9, <2>10
<1>3. CASE ~Reaches(r, pagees[at].user)
  <2>1. NextRule /\ page' = {} /\ lost' \subseteq Nat \X Rule
    BY <1>1, <1>3 DEF ListContactMethods, PagingTypeOK, history
  <2>. QED  BY <1>1, <2>1, LeaveRuleKeepsIInv DEF history
<1>. QED  BY <1>2, <1>3

LEMMA LeavingKeepsIInv ==
  ASSUME IInv, NEW r \in Rule, MethodsFail(r) \/ Enqueue(r) \/ EnqueueFails(r)
  PROVE  IInv'
<1>. USE IInv DEF IInv
<1>1. at \in Nat /\ lost \subseteq Nat \X Rule
  BY DEF PagingTypeOK
<1>2. lost' \subseteq Nat \X Rule
  BY <1>1 DEF MethodsFail, Enqueue, EnqueueFails, history
<1>3. CASE MethodsFail(r)
  <2>1. Paying /\ pc # "rules" /\ page' = {}
    BY <1>3 DEF MethodsFail, InPlace, Paying
  <2>. QED  BY <1>2, <1>3, <2>1, LeaveRuleKeepsIInv DEF MethodsFail
<1>4. CASE Enqueue(r)
  <2>1. Paying /\ pc = "enqueue" /\ r \in page /\ r \notin todo
    BY <1>4 DEF Enqueue, InHand, Paying
  <2>2. todo' = todo \ {r}
    BY <1>4, <2>1 DEF Enqueue
  <2>. QED  BY <1>2, <1>4, <2>1, <2>2, LeaveRuleKeepsIInv DEF Enqueue, history
<1>5. CASE EnqueueFails(r)
  <2>1. Paying /\ pc = "enqueue" /\ r \in page /\ r \notin todo
    BY <1>5 DEF EnqueueFails, InHand, Paying
  <2>2. todo' = todo \ {r}
    BY <1>5, <2>1 DEF EnqueueFails
  <2>. QED  BY <1>2, <1>5, <2>1, <2>2, LeaveRuleKeepsIInv DEF EnqueueFails
<1>. QED  BY <1>3, <1>4, <1>5

LEMMA BeginKeepsIInv ==
  ASSUME IInv, Begin
  PROVE  IInv'
<1>. USE IInv DEF IInv
<1>1. pc = "idle" /\ sent = <<>> /\ todo = {} /\ page = {} /\ at' = 1
  BY DEF Begin, InPlace
<1>2. pc' \in {"resolve", "done"} /\ (pc' = "resolve" => at' \in DOMAIN Targets)
  BY TargetsType DEF Begin
<1>3. stood' \in Rows /\ seen' = stood'
  BY DEF Begin, Rows, PagingTypeOK
<1>4. PagingTypeOK'
  BY <1>1, <1>2, <1>3 DEF PagingTypeOK, Begin, tables
<1>5. InPlace'
  BY <1>1, <1>2 DEF InPlace, Begin, Paying
<1>6. Witnessed'
  BY DEF Witnessed, Begin, tables
<1>7. InHand' /\ Turned' /\ PagesAreOwed'
  BY <1>1 DEF InHand, Turned, PagesAreOwed, Begin
<1>. QED  BY <1>4, <1>5, <1>6, <1>7

LEMMA AdvanceKeepsIInv ==
  ASSUME IInv, Advance
  PROVE  IInv'
<1>. USE IInv DEF IInv
<1>1. /\ pc' = "idle" /\ at' = 1 /\ pagees' = <<>> /\ todo' = {} /\ page' = {} /\ sent' = <<>>
      /\ edits' = 0 /\ stood' = NoRows /\ seen' = NoRows /\ unresolved' = {} /\ lost' = {}
      /\ UNCHANGED tables
  BY DEF Advance
<1>2. PagingTypeOK'
  BY <1>1, EditsAssumption DEF PagingTypeOK, tables, NoRows, Rows
<1>3. InPlace' /\ Witnessed' /\ InHand' /\ Turned' /\ PagesAreOwed'
  BY <1>1 DEF InPlace, Paying, Witnessed, Executing, InHand, Turned, PagesAreOwed
<1>. QED  BY <1>2, <1>3

-----------------------------------------------------------------------------

LEMMA InitIInv == PagingInit => IInv
<1>. SUFFICES ASSUME PagingInit PROVE IInv
  OBVIOUS
<1>1. PagingTypeOK
  BY EditsAssumption DEF PagingInit, PagingTypeOK, NoRows, Rows
<1>2. InPlace /\ Witnessed /\ InHand /\ Turned /\ PagesAreOwed
  BY DEF PagingInit, InPlace, Paying, Witnessed, Executing, InHand, Turned, PagesAreOwed
<1>. QED  BY <1>1, <1>2 DEF IInv

LEMMA NextIInv == IInv /\ [PagingNext]_pagingVars => IInv'
<1>. SUFFICES ASSUME IInv, [PagingNext]_pagingVars PROVE IInv'
  OBVIOUS
<1>1. CASE Administrate
  BY <1>1, AdministrateKeepsIInv
<1>2. CASE Begin
  BY <1>2, BeginKeepsIInv
<1>3. CASE GetUser \/ ResolveTarget \/ ResolveFails
  BY <1>3, ResolveKeepsIInv
<1>4. CASE ListNotificationRules
  BY <1>4, ListNotificationRulesKeepsIInv
<1>5. CASE RulesFail
  BY <1>5, RulesFailKeepsIInv
<1>6. ASSUME NEW r \in Rule, ListContactMethods(r) PROVE IInv'
  BY <1>6, ListContactMethodsKeepsIInv
<1>7. ASSUME NEW r \in Rule, MethodsFail(r) \/ Enqueue(r) \/ EnqueueFails(r) PROVE IInv'
  BY <1>7, LeavingKeepsIInv
<1>8. CASE Advance
  BY <1>8, AdvanceKeepsIInv
<1>9. CASE UNCHANGED pagingVars
  <2>1. PagingTypeOK' /\ InPlace' /\ Witnessed'
    BY <1>9 DEF IInv, PagingTypeOK, InPlace, Paying, Witnessed, Executing, pagingVars, tables, engine, history
  <2>2. InHand' /\ Turned' /\ PagesAreOwed'
    BY <1>9 DEF IInv, InHand, IsOwn, Turned, Paying, PagesAreOwed, Owed, pagingVars, tables, engine, history
  <2>. QED  BY <2>1, <2>2 DEF IInv
<1>. QED  BY <1>1, <1>2, <1>3, <1>4, <1>5, <1>6, <1>7, <1>8, <1>9 DEF PagingNext, Execute

\* The tables keep their foreign keys and the step's state its types.
THEOREM TypeCorrect == PagingSpec => []PagingTypeOK
<1>1. IInv => PagingTypeOK
  BY DEF IInv
<1>. QED  BY <1>1, InitIInv, NextIInv, PTL DEF PagingSpec

\* No page goes anywhere it is not owed, nor twice, however the tables are
\* edited while a step is executed.
THEOREM PagesAreAlwaysOwed == PagingSpec => []PagesAreOwed
<1>1. IInv => PagesAreOwed
  BY DEF IInv
<1>. QED  BY <1>1, InitIInv, NextIInv, PTL DEF PagingSpec

-----------------------------------------------------------------------------
(* Everybody who is owed a page is paged.                                  *)

SInv == FoundSoFar /\ PagedSoFar

\* An edit only takes from what stood, so it adds no obligation.
LEMMA AdministrateKeepsSInv ==
  ASSUME IInv, SInv, Administrate
  PROVE  SInv'
<1>1. UNCHANGED engine
  BY DEF Administrate
<1>2. CASE Executing
  <2>1. Keys'
    BY EditKeepsKeys DEF Administrate, IInv, PagingTypeOK, Keys
  <2>2. /\ stood'.users \subseteq stood.users /\ stood'.rules \subseteq stood.rules
        /\ unresolved' = unresolved /\ lost' = lost
    BY <1>2, <2>1, ObserveShape DEF Administrate, IInv, PagingTypeOK
  <2>3. FoundSoFar'
    BY <1>1, <2>2 DEF SInv, FoundSoFar, Resolved, Paying, Found, engine
  <2>4. PagedSoFar'
    BY <1>1, <2>2 DEF SInv, PagedSoFar, Finished, Paying, Paged, IsOwn, engine
  <2>. QED  BY <2>3, <2>4 DEF SInv
<1>3. CASE ~Executing
  <2>1. UNCHANGED history
    BY <1>3 DEF Administrate, Observe
  <2>2. FoundSoFar'
    BY <1>1, <2>1 DEF SInv, FoundSoFar, Resolved, Paying, Found, engine, history
  <2>3. PagedSoFar'
    BY <1>1, <2>1 DEF SInv, PagedSoFar, Finished, Paying, Paged, IsOwn, engine, history
  <2>. QED  BY <2>2, <2>3 DEF SInv
<1>. QED  BY <1>2, <1>3

\* A target that had its turn is found or recorded as unresolved.
LEMMA ResolvingKeepsSInv ==
  ASSUME IInv, IInv', SInv, pc = "resolve", AfterTarget, NEW here, here = at,
         \A k \in DOMAIN pagees : k \in DOMAIN pagees' /\ pagees'[k] = pagees[k],
         UNCHANGED stood, unresolved \subseteq unresolved', Found(here)'
  PROVE  SInv'
<1>1. at \in DOMAIN Targets /\ PagingTypeOK /\ pagees' \in Seq(Pagee)
  BY DEF IInv, InPlace, PagingTypeOK
<1>2. \/ pc' = "resolve" /\ at < Len(Targets) /\ at' = at + 1 /\ at' \in DOMAIN Targets
      \/ at = Len(Targets) /\ at' = 1 /\ pc' = "rules" /\ at' \in DOMAIN pagees'
      \/ at = Len(Targets) /\ at' = 1 /\ pc' = "done" /\ pagees' = <<>>
  BY <1>1, AfterTargetShape
<1>3. ASSUME NEW i \in DOMAIN Targets, i <= at PROVE Found(i)'
  <2>1. CASE i < at
    <3>1. Found(i)
      BY <2>1 DEF SInv, FoundSoFar, Resolved
    <3>. QED  BY <3>1 DEF Found
  <2>2. CASE i = at
    BY <2>2 DEF Found
  <2>. QED  BY <1>1, <1>3, <2>1, <2>2, TargetsType
<1>4. FoundSoFar'
  <2>. SUFFICES ASSUME NEW i \in DOMAIN Targets, Resolved(i)' PROVE Found(i)'
    BY DEF FoundSoFar
  <2>1. i <= at
    BY <1>1, <1>2, TargetsType DEF Resolved, Paying
  <2>. QED  BY <1>3, <2>1
<1>5. PagedSoFar'
  <2>. SUFFICES ASSUME NEW k \in DOMAIN pagees', NEW r \in Rule, Finished(k, r)' PROVE Paged(k, r)'
    BY DEF PagedSoFar
  <2>1. k \in Nat /\ k >= 1
    BY <1>1
  <2>2. FALSE
    BY <1>2, <2>1 DEF Finished, Paying
  <2>. QED  BY <2>2
<1>. QED  BY <1>4, <1>5 DEF SInv

LEMMA ResolveKeepsSInv ==
  ASSUME IInv, IInv', SInv, GetUser \/ ResolveTarget \/ ResolveFails
  PROVE  SInv'
<1>1. /\ pc = "resolve" /\ at \in DOMAIN Targets /\ pagees \in Seq(Pagee) /\ AfterTarget
      /\ stood.users \subseteq users /\ users \subseteq User
  BY DEF GetUser, ResolveTarget, ResolveFails, IInv, InPlace, PagingTypeOK, Witnessed, Executing
<1>2. CASE GetUser /\ Targets[at] \in users
  <2>1. pagees' = Append(pagees, [target |-> at, user |-> Targets[at]]) /\ UNCHANGED <<stood, unresolved>>
    BY <1>2 DEF GetUser, history
  <2>2. /\ \A k \in DOMAIN pagees : k \in DOMAIN pagees' /\ pagees'[k] = pagees[k]
        /\ Len(pagees) + 1 \in DOMAIN pagees'
        /\ pagees'[Len(pagees) + 1] = [target |-> at, user |-> Targets[at]]
    BY <1>1, <2>1
  <2>3. \E k \in DOMAIN pagees' : pagees'[k] = [target |-> at, user |-> Targets[at]]
    BY <2>2
  <2>4. PICK i : i = at
    OBVIOUS
  <2>5. Found(i)'
    BY <2>3, <2>4 DEF Found
  <2>. QED  BY <1>1, <2>1, <2>2, <2>4, <2>5, ResolvingKeepsSInv
<1>3. CASE GetUser /\ Targets[at] \notin users
  <2>1. pagees' = pagees /\ UNCHANGED <<stood, unresolved>>
    BY <1>3 DEF GetUser, history
  <2>2. PICK i : i = at
    OBVIOUS
  <2>3. Found(i)'
    BY <1>1, <1>3, <2>1, <2>2 DEF Found
  <2>. QED  BY <1>1, <2>1, <2>2, <2>3, ResolvingKeepsSInv
<1>4. CASE ResolveTarget
  <2>1. PICK s \in SetToAllKPermutations(users) :
          pagees' = pagees \o [k \in DOMAIN s |-> [target |-> at, user |-> s[k]]]
    BY <1>4 DEF ResolveTarget
  <2>2. s \in Seq(users)
    BY <1>1, <2>1, AnswerType
  <2>3. [k \in DOMAIN s |-> [target |-> at, user |-> s[k]]] \in Seq([target : DOMAIN Targets, user : users])
    <3>1. ASSUME NEW k \in DOMAIN s PROVE [target |-> at, user |-> s[k]] \in [target : DOMAIN Targets, user : users]
      <4>1. s[k] \in users
        BY <2>2
      <4>. QED  BY <1>1, <4>1
    <3>2. Len(s) \in Nat /\ DOMAIN s = 1..Len(s)
      BY <2>2
    <3>. QED  BY <3>1, <3>2
  <2>4. \A k \in DOMAIN pagees : k \in DOMAIN pagees' /\ pagees'[k] = pagees[k]
    BY <1>1, <2>1, <2>3
  <2>5. Targets[at] \notin stood.users /\ UNCHANGED <<stood, unresolved>>
    BY <1>1, <1>4, TargetAssumption DEF ResolveTarget, history
  <2>6. PICK i : i = at
    OBVIOUS
  <2>7. Found(i)'
    BY <2>5, <2>6 DEF Found
  <2>. QED  BY <1>1, <2>4, <2>5, <2>6, <2>7, ResolvingKeepsSInv
<1>5. CASE ResolveFails
  <2>1. pagees' = pagees /\ unresolved' = unresolved \cup {at} /\ UNCHANGED stood
    BY <1>5 DEF ResolveFails
  <2>2. PICK i : i = at
    OBVIOUS
  <2>3. Found(i)'
    BY <2>1, <2>2 DEF Found
  <2>. QED  BY <1>1, <2>1, <2>2, <2>3, ResolvingKeepsSInv
<1>. QED  BY <1>2, <1>3, <1>4, <1>5

\* With no target that had its turn undone, only the rules' turns are at stake.
LEMMA FoundStays ==
  ASSUME SInv, Paying, UNCHANGED <<pagees, stood, unresolved>>
  PROVE  FoundSoFar'
BY DEF SInv, FoundSoFar, Resolved, Found

LEMMA PagedStays ==
  ASSUME NEW k, NEW r, Paged(k, r), UNCHANGED <<pagees, stood>>,
         lost \subseteq lost', sent \in Seq(Message),
         UNCHANGED sent \/ \E m \in Message : sent' = Append(sent, m)
  PROVE  Paged(k, r)'
<1>1. \A i \in DOMAIN sent : i \in DOMAIN sent' /\ sent'[i] = sent[i]
  OBVIOUS
<1>. QED  BY <1>1 DEF Paged

\* What is to be shown of a step in the turn of a pagee: a rule it is done with
\* has paged.
LEMMA TurnKeepsSInv ==
  ASSUME IInv, SInv, Paying, at \in DOMAIN pagees, NEW here, here = at,
         UNCHANGED <<pagees, stood, unresolved>>, lost \subseteq lost',
         UNCHANGED sent \/ \E m \in Message : sent' = Append(sent, m),
         \/ pc' \in {"methods", "enqueue"} /\ at' = at
         \/ pc' = "rules" /\ at' = at + 1
         \/ pc' = "done" /\ at = Len(pagees),
         \A r \in Rule : pc' \in {"rules", "done"} \/ r \notin todo' \cup page' => Paged(here, r)'
  PROVE  SInv'
<1>1. at \in Nat /\ sent \in Seq(Message) /\ Len(pagees) \in Nat /\ DOMAIN pagees = 1..Len(pagees)
  BY DEF IInv, PagingTypeOK
<1>2. FoundSoFar'
  BY FoundStays
<1>3. PagedSoFar'
  <2>. SUFFICES ASSUME NEW k \in DOMAIN pagees, NEW r \in Rule, Finished(k, r)' PROVE Paged(k, r)'
    BY DEF PagedSoFar
  <2>1. CASE k < at
    <3>1. Paged(k, r)
      BY <2>1 DEF SInv, PagedSoFar, Finished
    <3>. QED  BY <1>1, <3>1, PagedStays
  <2>2. CASE k = at
    <3>1. pc' \in {"rules", "done"} \/ r \notin todo' \cup page'
      BY <1>1, <2>2 DEF Finished, Paying
    <3>. QED  BY <2>2, <3>1
  <2>3. CASE k > at
    BY <1>1, <2>3 DEF Finished, Paying
  <2>. QED  BY <1>1, <2>1, <2>2, <2>3
<1>. QED  BY <1>2, <1>3 DEF SInv

LEMMA ListNotificationRulesKeepsSInv ==
  ASSUME IInv, SInv, ListNotificationRules
  PROVE  SInv'
<1>1. /\ pc = "rules" /\ Paying /\ at \in DOMAIN pagees /\ page' = {} /\ PagingTypeOK
      /\ UNCHANGED <<pagees, stood, unresolved, lost, sent>>
      /\ todo' = {r \in rules : RuleUser[r] = pagees[at].user}
      /\ stood.rules \subseteq rules
  BY DEF ListNotificationRules, IInv, InPlace, Paying, Executing, Witnessed, history
<1>2. \/ pc' = "methods" /\ at' = at
      \/ pc' = "rules" /\ todo' = {} /\ at' = at + 1
      \/ pc' = "done" /\ todo' = {} /\ at = Len(pagees)
  BY <1>1, NextPageeShape DEF ListNotificationRules
<1>3. PICK here : here = at
  OBVIOUS
<1>4. ASSUME NEW r \in Rule, pc' \in {"rules", "done"} \/ r \notin todo' \cup page'
      PROVE  Paged(here, r)'
  BY <1>1, <1>2, <1>3, <1>4 DEF Paged
<1>. QED  BY <1>1, <1>2, <1>3, <1>4, TurnKeepsSInv

LEMMA RulesFailKeepsSInv ==
  ASSUME IInv, SInv, RulesFail
  PROVE  SInv'
<1>1. /\ Paying /\ at \in DOMAIN pagees /\ PagingTypeOK
      /\ UNCHANGED <<pagees, stood, unresolved, sent>>
      /\ lost' = lost \cup ({at} \X Rule)
  BY DEF RulesFail, IInv, InPlace, Paying
<1>2. \/ pc' = "rules" /\ at' = at + 1
      \/ pc' = "done" /\ at = Len(pagees)
  BY <1>1, NextPageeShape DEF RulesFail
<1>3. PICK here : here = at
  OBVIOUS
<1>4. ASSUME NEW r \in Rule PROVE Paged(here, r)'
  BY <1>1, <1>3 DEF Paged
<1>. QED  BY <1>1, <1>2, <1>3, <1>4, TurnKeepsSInv

\* One rule is done with: the others are as they were.
LEMMA LeaveRuleKeepsSInv ==
  ASSUME IInv, SInv, pc \in {"methods", "enqueue"}, NextRule, NEW r \in Rule,
         todo' \cup page' = (todo \cup page) \ {r}, page' = {},
         UNCHANGED <<pagees, stood, unresolved>>, lost \subseteq lost',
         UNCHANGED sent \/ \E m \in Message : sent' = Append(sent, m),
         NEW here, here = at, Paged(here, r)'
  PROVE  SInv'
<1>1. Paying /\ at \in DOMAIN pagees /\ PagingTypeOK /\ sent \in Seq(Message)
  BY DEF IInv, InPlace, Paying, PagingTypeOK
<1>2. \/ pc' = "methods" /\ at' = at
      \/ pc' = "rules" /\ todo' = {} /\ at' = at + 1
      \/ pc' = "done" /\ todo' = {} /\ at = Len(pagees)
  BY <1>1, NextRuleShape
<1>3. ASSUME NEW q \in Rule, pc' \in {"rules", "done"} \/ q \notin todo' \cup page'
      PROVE  Paged(here, q)'
  <2>1. CASE q = r
    BY <2>1
  <2>2. CASE q # r
    <3>1. q \notin todo \cup page
      BY <1>2, <1>3, <2>2
    <3>2. Paged(here, q)
      BY <1>1, <3>1 DEF SInv, PagedSoFar, Finished
    <3>. QED  BY <1>1, <3>2, PagedStays
  <2>. QED  BY <2>1, <2>2
<1>. QED  BY <1>1, <1>2, <1>3, TurnKeepsSInv

LEMMA ListContactMethodsKeepsSInv ==
  ASSUME IInv, SInv, NEW r \in Rule, ListContactMethods(r)
  PROVE  SInv'
<1>1. /\ pc = "methods" /\ Paying /\ at \in DOMAIN pagees /\ PagingTypeOK /\ page = {} /\ r \in todo
      /\ UNCHANGED <<pagees, stood, unresolved, lost, sent>>
      /\ todo' = todo \ {r}
      /\ stood.rules \subseteq rules /\ sent \in Seq(Message)
      /\ RuleUser[r] = pagees[at].user
  BY DEF ListContactMethods, IInv, InPlace, Paying, Executing, Witnessed, PagingTypeOK, InHand, history
<1>2. PICK here : here = at
  OBVIOUS
<1>3. CASE Reaches(r, pagees[at].user)
  <2>1. page' = {r} /\ pc' = "enqueue" /\ at' = at
    BY <1>3 DEF ListContactMethods
  <2>2. ASSUME NEW q \in Rule, q \notin todo' \cup page' PROVE Paged(here, q)'
    <3>1. q \notin todo \cup page
      BY <1>1, <2>1, <2>2
    <3>2. Paged(here, q)
      BY <1>1, <1>2, <3>1 DEF SInv, PagedSoFar, Finished
    <3>. QED  BY <1>1, <3>2, PagedStays
  <2>. QED  BY <1>1, <1>2, <2>1, <2>2, TurnKeepsSInv
<1>4. CASE ~Reaches(r, pagees[at].user)
  <2>1. NextRule /\ page' = {}
    BY <1>1, <1>4 DEF ListContactMethods
  <2>2. ~(r \in stood.rules /\ IsOwn(r))
    BY <1>1, <1>4 DEF Reaches, IsOwn, PagingTypeOK
  <2>3. Paged(here, r)'
    BY <1>1, <2>2 DEF Paged, IsOwn
  <2>. QED  BY <1>1, <1>2, <2>1, <2>3, LeaveRuleKeepsSInv
<1>. QED  BY <1>3, <1>4

LEMMA LeavingKeepsSInv ==
  ASSUME IInv, SInv, NEW r \in Rule, MethodsFail(r) \/ Enqueue(r) \/ EnqueueFails(r)
  PROVE  SInv'
<1>1. PICK here : here = at
  OBVIOUS
<1>2. at \in DOMAIN pagees /\ at \in Nat /\ sent \in Seq(Message) /\ pagees \in Seq(Pagee)
  BY DEF MethodsFail, Enqueue, EnqueueFails, IInv, InPlace, Paying, PagingTypeOK
<1>3. CASE MethodsFail(r) \/ EnqueueFails(r)
  <2>1. /\ pc \in {"methods", "enqueue"} /\ NextRule /\ page' = {}
        /\ todo' \cup page' = (todo \cup page) \ {r}
        /\ UNCHANGED <<pagees, stood, unresolved, sent>> /\ lost' = lost \cup {<<at, r>>}
    BY <1>3 DEF MethodsFail, EnqueueFails, IInv, InPlace, InHand
  <2>2. Paged(here, r)'
    BY <1>1, <2>1 DEF Paged
  <2>. QED  BY <1>1, <2>1, <2>2, LeaveRuleKeepsSInv
<1>4. CASE Enqueue(r)
  <2>1. /\ pc \in {"methods", "enqueue"} /\ NextRule /\ page' = {}
        /\ todo' \cup page' = (todo \cup page) \ {r}
        /\ UNCHANGED <<pagees, stood, unresolved, lost>>
        /\ sent' = Append(sent, PageRow(r))
    BY <1>4 DEF Enqueue, IInv, InPlace, InHand, history
  <2>2. pagees[at] \in Pagee
    BY <1>2
  <2>3. PageRow(r) \in Message /\ PageRow(r).pagee = at /\ PageRow(r).rule = r
    BY <1>2, <2>2, RuleAssumption DEF PageRow, Message, Pagee
  <2>4. Len(sent) + 1 \in DOMAIN sent' /\ sent'[Len(sent) + 1] = PageRow(r)
    BY <1>2, <2>1, <2>3
  <2>5. \E i \in DOMAIN sent' : sent'[i].pagee = here /\ sent'[i].rule = r
    BY <1>1, <2>3, <2>4
  <2>6. Paged(here, r)'
    BY <2>5 DEF Paged
  <2>. QED  BY <1>1, <2>1, <2>3, <2>6, LeaveRuleKeepsSInv
<1>. QED  BY <1>3, <1>4

LEMMA NextSInv == IInv /\ IInv' /\ SInv /\ [PagingNext]_pagingVars => SInv'
<1>. SUFFICES ASSUME IInv, IInv', SInv, [PagingNext]_pagingVars PROVE SInv'
  OBVIOUS
<1>1. CASE Administrate
  BY <1>1, AdministrateKeepsSInv
<1>2. CASE Begin
  <2>1. pagees' = <<>>
    BY <1>2 DEF Begin, IInv, InPlace
  <2>2. FoundSoFar'
    <3>1. CASE Targets = <<>>
      BY <3>1 DEF FoundSoFar
    <3>2. CASE Targets # <<>>
      BY <1>2, <3>2, TargetsType DEF FoundSoFar, Begin, Resolved, Paying
    <3>. QED  BY <3>1, <3>2
  <2>3. PagedSoFar'
    BY <2>1 DEF PagedSoFar
  <2>. QED  BY <2>2, <2>3 DEF SInv
<1>3. CASE GetUser \/ ResolveTarget \/ ResolveFails
  BY <1>3, ResolveKeepsSInv
<1>4. CASE ListNotificationRules
  BY <1>4, ListNotificationRulesKeepsSInv
<1>5. CASE RulesFail
  BY <1>5, RulesFailKeepsSInv
<1>6. ASSUME NEW r \in Rule, ListContactMethods(r) PROVE SInv'
  BY <1>6, ListContactMethodsKeepsSInv
<1>7. ASSUME NEW r \in Rule, MethodsFail(r) \/ Enqueue(r) \/ EnqueueFails(r) PROVE SInv'
  BY <1>7, LeavingKeepsSInv
<1>8. CASE Advance
  BY <1>8 DEF Advance, SInv, FoundSoFar, PagedSoFar, Resolved, Finished, Paying
<1>9. CASE UNCHANGED pagingVars
  BY <1>9 DEF SInv, FoundSoFar, PagedSoFar, Resolved, Finished, Paying, Found, Paged, IsOwn,
              pagingVars, tables, engine, history
<1>. QED  BY <1>1, <1>2, <1>3, <1>4, <1>5, <1>6, <1>7, <1>8, <1>9 DEF PagingNext, Execute

\* Every rule that stands while a step is executed pages every pagee it is of, and
\* a failure costs only what it failed for, however the tables are edited.
THEOREM StandingRulesPage == PagingSpec => []StandingRuleIsPaged
<1>1. PagingInit => SInv
  BY DEF PagingInit, SInv, FoundSoFar, PagedSoFar, Resolved, Finished, Paying
<1>2. SInv => StandingRuleIsPaged
  BY DEF SInv, FoundSoFar, PagedSoFar, Resolved, Finished, StandingRuleIsPaged
<1>3. PagingSpec => []IInv
  BY InitIInv, NextIInv, PTL DEF PagingSpec
<1>. QED  BY <1>1, <1>2, <1>3, NextSInv, PTL DEF PagingSpec
=============================================================================
