------------------------------- MODULE OnCall -------------------------------
(***************************************************************************)
(* Resolver.Resolve (internal/oncall/resolver.go): who is on call for one  *)
(* schedule at a time.  Nothing of the answer is stored; it is computed    *)
(* from the rotations, their participants, the overrides and the users,    *)
(* one query after the other and without a transaction, while requests     *)
(* edit all of them.  Each query and each edit is an action.               *)
(*                                                                         *)
(* The rows' fixed columns are CONSTANTS; which rows there are, and whom   *)
(* they name, is state.                                                    *)
(***************************************************************************)
EXTENDS Integers, FiniteSets

CONSTANTS
  User,      \* users
  Rotation,  \* rotations of the schedule
  Start,     \* rotations.start_time
  Type,      \* rotations.type
  Length,    \* rotations.shift_length
  Hour,      \* units of time in an hour; in the code the unit is a nanosecond
  Day,       \* hours in a day
  MaxDuration, \* the largest time.Duration: 2^63 - 1 units in the code, 292 years
  Position,  \* positions a participant may have
  Override,  \* overrides of the schedule
  From,      \* schedule_overrides.start_time
  Until,     \* schedule_overrides.end_time
  Time,      \* times asked for: the engine's clock, or ?at= of the API
  NULL,      \* no row
  MaxEdits   \* bound: edits while one question is being answered

\* Times count from the year 1, the time.Time of a rotation without start_time.
ASSUME TimeAssumption     == Time \subseteq Nat /\ {Hour, Day} \subseteq Nat \ {0}
ASSUME DurationAssumption == MaxDuration \in Nat
ASSUME PositionAssumption == Position \subseteq Nat /\ IsFiniteSet(Position)
ASSUME RotationAssumption ==
  Start \in [Rotation -> Nat] /\ Length \in [Rotation -> Nat \ {0}]
\* createOverride refuses an end that is not after the start.
ASSUME OverrideAssumption ==
  /\ IsFiniteSet(Override)
  /\ From \in [Override -> Nat] /\ Until \in [Override -> Nat]
  /\ \A o \in Override : From[o] < Until[o]
ASSUME NullAssumption     == NULL \notin User
ASSUME EditsAssumption    == MaxEdits \in Nat

VARIABLES
  users,    \* the users table
  exists,   \* the schedule's row
  rots,     \* the rotations table
  parts,    \* rotation_participants: the user at each position of a rotation
  over,     \* schedule_overrides: who is replaced by whom
  pc,       \* what Resolve does next; "idle", "done" and "error" between calls
  at,       \* the time asked for
  todo,     \* rotations listed whose participants were not read yet
  found,    \* onCallIDs
  fetch,    \* users of the answer that were not read yet
  \* history of the current call, for the properties only
  edits,    \* edits since it began
  covered,  \* rotations that had somebody on shift at all of its moments
  standing, \* overrides that all of its moments saw alike: the same row, or none
  reasons,  \* users who were on shift or taking over at some moment of it
  failed,   \* one of its queries failed
  lost      \* users deleted during it

tables   == <<users, exists, rots, parts, over>>
resolver == <<pc, at, todo, found, fetch>>
history  == <<edits, covered, standing, reasons, failed, lost>>
vars     == <<tables, resolver, history>>

Swap == [replace : User, by : User]

-----------------------------------------------------------------------------
(* Shifts.                                                                 *)

\* The length of shift a rotation asks for; a type that is none of the three has
\* shifts of no length.
Asked(r) ==
  CASE Type[r] = "daily"  -> Length[r] * Day * Hour
    [] Type[r] = "weekly" -> Length[r] * 7 * Day * Hour
    [] Type[r] = "custom" -> Length[r] * Hour
    [] OTHER -> 0

\* Products of int64 wrap around; nothing bounds shift_length above.
Wrap(x) == ((x + MaxDuration + 1) % (2 * (MaxDuration + 1))) - MaxDuration - 1

ShiftDuration(r) == Wrap(Asked(r))

\* Time.Sub stops at the largest duration.
Elapsed(r, t) == IF t - Start[r] > MaxDuration THEN MaxDuration ELSE t - Start[r]

Taken(r) == {p \in Position : parts[r][p] # NULL}

\* Participants are ORDER BY position: how many come before p.
Turn(r, p) == Cardinality({q \in Taken(r) : q < p})

\* Mutation: the shift that ends at t is still the one on call.
Index_Late(r, t) == ((Elapsed(r, t) - 1) \div ShiftDuration(r)) % Cardinality(Taken(r))

Index(r, t) == (Elapsed(r, t) \div ShiftDuration(r)) % Cardinality(Taken(r))

\* Rotations that have somebody on shift at t.
Runs(r, t) == t >= Start[r] /\ Taken(r) # {} /\ ShiftDuration(r) > 0

OnShift(r, t) == {parts[r][p] : p \in {q \in Taken(r) : Turn(r, q) = Index(r, t)}}

OnShifts(r, t) == IF Runs(r, t) THEN OnShift(r, t) ELSE {}

-----------------------------------------------------------------------------
(* Overrides.                                                              *)

InForce(o, t) == From[o] <= t /\ t < Until[o]

Active(t) == {o \in Override : over[o] # NULL /\ InForce(o, t)}

\* Mutation: the query without its ORDER BY.
Orders_Unordered(S) ==
  {f \in [1..Cardinality(S) -> S] : \A i, j \in DOMAIN f : i < j => f[i] # f[j]}

\* ORDER BY start_time: any order among overrides that start together.
Orders(S) ==
  {f \in [1..Cardinality(S) -> S] :
     /\ \A i, j \in DOMAIN f : i < j => f[i] # f[j] /\ From[f[i]] <= From[f[j]]}

Replace(S, o) ==
  IF over[o].replace \in S THEN (S \ {over[o].replace}) \cup {over[o].by} ELSE S

\* The overrides change the set one after the other.
ReplaceAll(S, f) ==
  LET after[i \in 0..Cardinality(DOMAIN f)] ==
        IF i = 0 THEN S ELSE Replace(after[i - 1], f[i])
  IN after[Cardinality(DOMAIN f)]

-----------------------------------------------------------------------------

Init ==
  /\ users = User
  /\ exists = TRUE
  /\ rots = {}
  /\ parts = [r \in Rotation |-> [p \in Position |-> NULL]]
  /\ over = [o \in Override |-> NULL]
  /\ pc = "idle" /\ at = 0 /\ todo = {} /\ found = {} /\ fetch = {}
  /\ edits = 0 /\ covered = {} /\ standing = {} /\ reasons = {}
  /\ failed = FALSE /\ lost = {}

Calling == pc \notin {"idle", "done", "error"}

TakingOver(t) == {over[o].by : o \in Active(t)}

\* What an edit means for the history of the call it falls into.
Observe ==
  IF Calling
  THEN /\ edits < MaxEdits
       /\ edits' = edits + 1
       /\ covered' = {r \in covered : r \in rots' /\ Runs(r, at)'}
       /\ standing' = {s \in standing : over'[s.id] = s.swap}
       /\ reasons' = reasons \cup (UNION {OnShifts(r, at) : r \in rots})'
                             \cup TakingOver(at)'
       /\ lost' = lost \cup (users \ users')
       /\ UNCHANGED failed
  ELSE UNCHANGED history

-----------------------------------------------------------------------------
(* Edits.  Foreign keys are checked and cascade: store.go turns them on.   *)

CreateRotation(r) ==
  /\ exists /\ r \notin rots
  /\ rots' = rots \cup {r}
  /\ UNCHANGED <<users, exists, parts, over>>

\* The participants go with their rotation.
DeleteRotation(r) ==
  /\ r \in rots
  /\ rots' = rots \ {r}
  /\ parts' = [parts EXCEPT ![r] = [p \in Position |-> NULL]]
  /\ UNCHANGED <<users, exists, over>>

\* A position of a rotation is UNIQUE.
CreateParticipant(r, p, u) ==
  /\ r \in rots /\ u \in users /\ parts[r][p] = NULL
  /\ parts' = [parts EXCEPT ![r][p] = u]
  /\ UNCHANGED <<users, exists, rots, over>>

DeleteParticipant(r, p) ==
  /\ parts[r][p] # NULL
  /\ parts' = [parts EXCEPT ![r][p] = NULL]
  /\ UNCHANGED <<users, exists, rots, over>>

CreateOverride(o, swap) ==
  /\ exists /\ over[o] = NULL /\ {swap.replace, swap.by} \subseteq users
  /\ over' = [over EXCEPT ![o] = swap]
  /\ UNCHANGED <<users, exists, rots, parts>>

\* By request, or by the purge once it has expired.
DeleteOverride(o) ==
  /\ over[o] # NULL
  /\ over' = [over EXCEPT ![o] = NULL]
  /\ UNCHANGED <<users, exists, rots, parts>>

\* Mutation: the user's row goes, the rows that name the user stay.
DeleteUser_NoCascade(u) ==
  /\ u \in users
  /\ users' = users \ {u}
  /\ UNCHANGED <<exists, rots, parts, over>>

\* Participants and overrides that name the user go too.
DeleteUser(u) ==
  /\ u \in users
  /\ users' = users \ {u}
  /\ parts' = [r \in Rotation |-> [p \in Position |->
                 IF parts[r][p] = u THEN NULL ELSE parts[r][p]]]
  /\ over' = [o \in Override |->
                IF over[o] # NULL /\ u \in {over[o].replace, over[o].by}
                THEN NULL ELSE over[o]]
  /\ UNCHANGED <<exists, rots>>

DeleteSchedule ==
  /\ exists
  /\ exists' = FALSE
  /\ rots' = {}
  /\ parts' = [r \in Rotation |-> [p \in Position |-> NULL]]
  /\ over' = [o \in Override |-> NULL]
  /\ UNCHANGED users

\* An answer that is ready waits for no edit.
Edit ==
  /\ pc \notin {"done", "error"}
  /\ \/ \E r \in Rotation : CreateRotation(r) \/ DeleteRotation(r)
     \/ \E r \in Rotation, p \in Position :
          DeleteParticipant(r, p) \/ \E u \in User : CreateParticipant(r, p, u)
     \/ \E o \in Override : DeleteOverride(o) \/ \E s \in Swap : CreateOverride(o, s)
     \/ \E u \in User : DeleteUser(u)
     \/ DeleteSchedule
  /\ UNCHANGED resolver
  /\ Observe

-----------------------------------------------------------------------------
(* Resolve.                                                                *)

\* The call comes in; nothing is read yet.
Ask(t) ==
  /\ pc = "idle"
  /\ pc' = "rotations"
  /\ at' = t
  /\ covered' = {r \in rots : Runs(r, t)}
  /\ standing' = {[id |-> o, swap |-> over[o]] : o \in Override}
  /\ reasons' = (UNION {OnShifts(r, t) : r \in rots}) \cup TakingOver(t)
  /\ UNCHANGED <<tables, todo, found, fetch, edits, failed, lost>>

\* Mutation: a rotation counts only after its first moment.
ListRotations_After ==
  /\ pc = "rotations"
  /\ todo' = {r \in rots : at > Start[r]}
  /\ pc' = IF todo' = {} THEN "overrides" ELSE "participants"
  /\ UNCHANGED <<tables, at, found, fetch, history>>

\* A rotation that has not started yet is passed over without a query.
ListRotations ==
  /\ pc = "rotations"
  /\ todo' = {r \in rots : at >= Start[r]}
  /\ pc' = IF todo' = {} THEN "overrides" ELSE "participants"
  /\ UNCHANGED <<tables, at, found, fetch, history>>

ListParticipants(r) ==
  /\ pc = "participants" /\ r \in todo
  /\ todo' = todo \ {r}
  /\ found' = found \cup OnShifts(r, at)
  /\ pc' = IF todo' = {} THEN "overrides" ELSE "participants"
  /\ UNCHANGED <<tables, at, fetch, history>>

\* Mutation: the end of an override is not looked at.
ListActiveOverrides_Endless ==
  /\ pc = "overrides"
  /\ \E f \in Orders({o \in Override : over[o] # NULL /\ From[o] <= at}) :
       found' = ReplaceAll(found, f)
  /\ fetch' = found'
  /\ pc' = IF found' = {} THEN "done" ELSE "users"
  /\ UNCHANGED <<tables, at, todo, history>>

ListActiveOverrides ==
  /\ pc = "overrides"
  /\ \E f \in Orders(Active(at)) : found' = ReplaceAll(found, f)
  /\ fetch' = found'
  /\ pc' = IF found' = {} THEN "done" ELSE "users"
  /\ UNCHANGED <<tables, at, todo, history>>

\* One user who is not there any more fails the whole call.
GetUser(u) ==
  /\ pc = "users" /\ u \in fetch
  /\ fetch' = fetch \ {u}
  /\ pc' = IF u \notin users THEN "error" ELSE IF fetch' = {} THEN "done" ELSE "users"
  /\ UNCHANGED <<tables, at, todo, found, history>>

QueryFails ==
  /\ Calling
  /\ pc' = "error"
  /\ failed' = TRUE
  /\ UNCHANGED <<tables, at, todo, found, fetch, edits, covered, standing, reasons, lost>>

\* The caller has the answer.
Return ==
  /\ pc \in {"done", "error"}
  /\ pc' = "idle" /\ at' = 0 /\ todo' = {} /\ found' = {} /\ fetch' = {}
  /\ edits' = 0 /\ covered' = {} /\ standing' = {} /\ reasons' = {}
  /\ failed' = FALSE /\ lost' = {}
  /\ UNCHANGED tables

Resolve ==
  \/ \E t \in Time : Ask(t)
  \/ ListRotations
  \/ \E r \in Rotation : ListParticipants(r)
  \/ ListActiveOverrides
  \/ \E u \in User : GetUser(u)
  \/ QueryFails
  \/ Return

Next == Edit \/ Resolve

Spec == Init /\ [][Next]_vars

-----------------------------------------------------------------------------

\* Rows refer to rows that are there; the call's state has its types.
TypeOK ==
  /\ users \subseteq User /\ exists \in BOOLEAN
  /\ rots \subseteq Rotation /\ (rots # {} => exists)
  /\ parts \in [Rotation -> [Position -> users \cup {NULL}]]
  /\ \A r \in Rotation : Taken(r) # {} => r \in rots
  /\ over \in [Override -> [replace : users, by : users] \cup {NULL}]
  /\ pc \in {"idle", "rotations", "participants", "overrides", "users", "done", "error"}
  /\ at \in Nat /\ todo \subseteq Rotation
  /\ found \subseteq User /\ fetch \subseteq found

\* Everybody takes the shifts in order: the first participant starts the
\* rotation; who is on shift at t is relieved by the next one, one shift of the
\* length asked for later; and within a shift nobody is relieved.
TakenInOrder(r, t) ==
  LET d == Asked(r)
      at0 == Start[r] + ((t - Start[r]) \div d) * d
      next(p, q) == \/ p < q /\ \A x \in Taken(r) : x <= p \/ x >= q
                    \/ \A x \in Taken(r) : q <= x /\ x <= p
      first == {p \in Taken(r) : \A x \in Taken(r) : p <= x}
  IN /\ \E p, q \in Taken(r) :
          /\ next(p, q)
          /\ OnShifts(r, t) = {parts[r][p]}
          /\ OnShifts(r, t + d) = {parts[r][q]}
     /\ OnShifts(r, at0) = OnShifts(r, t)
     /\ OnShifts(r, Start[r]) = {parts[r][p] : p \in first}

\* A rotation that has started, with participants and a length of shift.
Turning(r, t) == t >= Start[r] /\ Taken(r) # {} /\ Asked(r) > 0

\* Shifts are taken in order as long as the end of the next one can be told: no
\* further from the start than the largest duration.
ShiftsInTurn ==
  \A r \in rots, t \in Time :
    Turning(r, t) /\ t - Start[r] + Asked(r) <= MaxDuration => TakenInOrder(r, t)

\* What the documentation says of every rotation, and the code does not do: one
\* that was created without start_time stays with one participant for ever, and
\* one whose shift_length overflows is passed over or turns at the wrong times.
RotationsRotate == \A r \in rots, t \in Time : Turning(r, t) => TakenInOrder(r, t)

\* If some rotation had somebody on shift all along, the answer is not empty,
\* however participants, overrides and other rotations were edited meanwhile.
SomebodyAnswers == pc = "done" /\ covered # {} => found # {}

\* A call fails only because a query failed or a user was deleted during it.
\* An error is no small thing: escalation then pages nobody of the schedule.
ErrorHasCause == pc = "error" => failed \/ lost # {}

\* Whoever is in the answer was on shift, or taking over, during the call.
EverybodyHasAReason == pc = "done" => found \subseteq reasons

\* An override that was there all along was applied: whom it replaces is not in
\* the answer, unless an override that does not start before it may have put them
\* back.  Overrides that start earlier never can, however they are edited.
StandingOverrideHolds ==
  pc = "done" =>
    \A s \in standing :
      /\ s.swap # NULL /\ InForce(s.id, at)
      /\ \A p \in Override \ {s.id} : InForce(p, at) =>
           [id |-> p, swap |-> NULL] \in standing \/ From[p] < From[s.id]
      /\ s.swap.replace # s.swap.by
      => s.swap.replace \notin found
=============================================================================
