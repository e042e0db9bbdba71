---------------------------- MODULE AccountsProofs ----------------------------
(***************************************************************************)
(* Proofs about Accounts for any number of concurrent requests, users,     *)
(* passwords and sessions and any number of failures.                      *)
(***************************************************************************)
EXTENDS Accounts, RateLimiter, FiniteSetTheorems, TLAPS

\* What holds of a request between its statements.
AboutUser(r) ==
  work[r].pc \in {"invite", "verify", "set", "use", "login", "delete"} =>
    Of(r) \in User /\ state[Of(r)] # "absent"

Inserting(r) ==
  At(r, "insert") => /\ work[r].kind \in {"setup", "create"}
                     /\ work[r].kind = "setup" => work[r].pw # NULL
                     /\ work[r].kind = "create" => Known # {}

\* An invite that is yet to be inserted is the user's only way in.
Inviting(r) ==
  At(r, "invite") => /\ work[r].kind = "create" /\ work[r].pw = NULL
                     /\ There(Of(r)) => password[Of(r)] = NULL /\ invite[Of(r)] = "none"

\* Who sets a password was invited, knew the old one, or came by a failed mark.
Setting(r) ==
  /\ At(r, "verify") => work[r].kind = "change" /\ work[r].pw # NULL
  /\ At(r, "set") =>
       /\ work[r].kind \in {"accept", "change"} /\ work[r].pw # NULL
       /\ work[r].saw = NULL \/ work[r].entitled \/ Of(r) \in unmarked
       /\ There(Of(r)) => \/ password[Of(r)] # NULL
                          \/ work[r].kind = "accept" /\ invite[Of(r)] # "none"
  /\ At(r, "use") => password[Of(r)] # NULL

\* Who deletes was an admin when it came, and another user.
Deleting(r) ==
  At(r, "delete") => /\ work[r].caller \in User /\ state[work[r].caller] # "absent"
                     /\ role[work[r].caller] = "admin" /\ Of(r) # work[r].caller

\* A session in use was given out, and not logged out unless that was a race.
Holding(r) ==
  /\ At(r, "destroy") => work[r].session # NULL
  /\ work[r].session # NULL => owner[work[r].session] # NULL
  /\ work[r].session \notin ended \ raced

RInv == \A r \in Req : /\ AboutUser(r) /\ Inserting(r) /\ Inviting(r) /\ Setting(r)
                       /\ Deleting(r) /\ Holding(r)

\* One request at most inserts the invite of a user.
OneInvites == \A q, r \in Req : At(q, "invite") /\ At(r, "invite") /\ Of(q) = Of(r) => q = r

Unborn == \A u \in User : state[u] = "absent" => invite[u] = "none" /\ password[u] = NULL

\* An invite stays open beside a password only until it is marked, or when the
\* mark failed.
OpenIsUnmarked ==
  \A u \in User :
    There(u) /\ invite[u] = "open" /\ password[u] # NULL =>
      u \in unmarked \/ \E r \in Req : At(r, "use") /\ Of(r) = u

\* Who has no password has an invite, or one is being inserted or was lost.
HasInvite ==
  \A u \in User :
    There(u) /\ password[u] = NULL =>
      \/ invite[u] \in {"open", "expired"} \/ u \in uninvited
      \/ \E r \in Req : At(r, "invite") /\ Of(r) = u

\* The link of an invite was answered, or is to be, or was lost.
LinkTold ==
  \A u \in User :
    There(u) /\ invite[u] # "none" =>
      u \in told \/ u \in uninvited \/ \E r \in Req : Telling(r) /\ Of(r) = u

SessionInv ==
  /\ \A s \in live \cup ended : owner[s] # NULL
  /\ LogoutHolds

UInv == /\ OneInvites /\ Unborn /\ OpenIsUnmarked /\ HasInvite /\ LinkTold
        /\ AdminRemains /\ SessionInv

IInv == TypeOK /\ RInv /\ UInv

-----------------------------------------------------------------------------

\* The values a request can be at.
LEMMA PcValues ==
  /\ {"idle", "insert", "invite", "verify", "set", "use", "login", "delete", "destroy",
      "answer"} \subseteq Pc
  /\ {"none", "setup", "create", "accept", "change", "delete", "logout", "login"} \subseteq Kind
  /\ Idle \in Handler
BY DEF Pc, Kind, Idle, Handler

\* A request that goes to another statement keeps the rest of what it holds.
LEMMA GoToShape ==
  ASSUME TypeOK, NEW r \in Req, NEW pc \in Pc, GoTo(r, pc)
  PROVE  /\ work' \in [Req -> Handler]
         /\ work'[r] = [work[r] EXCEPT !.pc = pc]
         /\ work'[r].pc = pc
         /\ work'[r].kind = work[r].kind /\ work'[r].caller = work[r].caller
         /\ work'[r].user = work[r].user /\ work'[r].session = work[r].session
         /\ work'[r].pw = work[r].pw /\ work'[r].saw = work[r].saw
         /\ work'[r].entitled = work[r].entitled
         /\ \A q \in Req \ {r} : work'[q] = work[q]
<1>1. work[r] \in Handler /\ work \in [Req -> Handler]
  BY DEF TypeOK
<1>2. [work[r] EXCEPT !.pc = pc] \in Handler
  BY <1>1 DEF Handler
<1>3. work' = [work EXCEPT ![r] = [work[r] EXCEPT !.pc = pc]]
  BY DEF GoTo
<1>4. work'[r] = [work[r] EXCEPT !.pc = pc]
  BY <1>1, <1>3
<1>. QED  BY <1>1, <1>2, <1>3, <1>4 DEF Handler

\* Steps that write nothing but what one request holds, and count failures.
LEMMA WorkOnly ==
  ASSUME IInv, NEW r \in Req, UNCHANGED <<accounts, sessions, orphaned, ended, raced>>,
         uninvited \subseteq uninvited', uninvited' \subseteq User,
         unmarked \subseteq unmarked', unmarked' \subseteq User, faults' \in 0..MaxFaults,
         work' \in [Req -> Handler],
         \A q \in Req \ {r} : work'[q] = work[q],
         At(r, "use") => Of(r) \in unmarked', At(r, "invite") => Of(r) \in uninvited',
         Telling(r) => Of(r) \in uninvited', work'[r].pc # "invite",
         AboutUser(r)', Inserting(r)', Setting(r)', Deleting(r)', Holding(r)'
  PROVE  IInv'
<1> USE DEF IInv
<1>1. TypeOK'
  BY DEF TypeOK, accounts, sessions
<1>2. RInv'
  <2> SUFFICES ASSUME NEW q \in Req
               PROVE  (/\ AboutUser(q) /\ Inserting(q) /\ Inviting(q) /\ Setting(q)
                       /\ Deleting(q) /\ Holding(q))'
    BY DEF RInv
  <2>1. CASE q = r
    BY <2>1 DEF Inviting, At
  <2>2. CASE q # r
    BY <2>2 DEF RInv, AboutUser, Inserting, Inviting, Setting, Deleting, Holding, At, Of, There,
                Known, accounts, sessions
  <2>. QED  BY <2>1, <2>2
<1>3. OneInvites' /\ Unborn' /\ AdminRemains' /\ SessionInv'
  BY DEF UInv, OneInvites, Unborn, AdminRemains, SessionInv, LogoutHolds, At, Of,
         Known, There, accounts, sessions
<1>4. OpenIsUnmarked'
  BY DEF UInv, OpenIsUnmarked, At, Of, There, accounts
<1>5. HasInvite'
  BY DEF UInv, HasInvite, At, Of, There, accounts
<1>6. LinkTold'
  BY DEF UInv, LinkTold, Telling, At, Of, There, accounts
<1>. QED  BY <1>1, <1>2, <1>3, <1>4, <1>5, <1>6 DEF UInv

-----------------------------------------------------------------------------
(* Requests that begin.                                                    *)

\* A request that finds the system without users holds no more than a password.
LEMMA CountUsersKeeps == ASSUME IInv, NEW r \in Req, CountUsers(r) PROVE IInv'
<1>1. PICK p \in Password :
        work' = [work EXCEPT ![r] =
          [Idle EXCEPT !.pc = "insert", !.kind = "setup", !.pw = p]]
  BY DEF CountUsers
<1> DEFINE h == [Idle EXCEPT !.pc = "insert", !.kind = "setup", !.pw = p]
<1>2. h \in Handler
  BY PcValues DEF Idle, Handler
<1>3. h.pc = "insert" /\ h.kind = "setup" /\ h.pw = p /\ h.session = NULL
  BY DEF Idle
<1>4. /\ work' \in [Req -> Handler] /\ work'[r] = h
      /\ \A q \in Req \ {r} : work'[q] = work[q]
  BY <1>1, <1>2 DEF IInv, TypeOK
<1>5. (AboutUser(r) /\ Inserting(r) /\ Setting(r) /\ Deleting(r) /\ Holding(r))'
  BY <1>3, <1>4, NullAssumption
  DEF CountUsers, AboutUser, Inserting, Setting, Deleting, Holding, At, accounts, history,
      IInv, TypeOK
<1>6. /\ UNCHANGED <<accounts, sessions, history>> /\ At(r, "idle")
      /\ faults' \in 0..MaxFaults /\ uninvited \subseteq User /\ unmarked \subseteq User
  BY DEF CountUsers, IInv, TypeOK, history
<1>. QED  BY <1>3, <1>4, <1>5, <1>6, WorkOnly DEF At, Telling, history

\* An invite that is read as open beside a password was not marked, or its user
\* is still being answered.
LEMMA GetInviteKeeps == ASSUME IInv, NEW r \in Req, GetInvite(r) PROVE IInv'
<1>1. PICK u \in User, p \in Password :
        /\ There(u) /\ invite[u] = "open"
        /\ work' = [work EXCEPT ![r] =
             [Idle EXCEPT !.pc = "set", !.kind = "accept", !.user = u, !.pw = p,
                          !.saw = password[u], !.entitled = Writing(u)]]
  BY DEF GetInvite
<1> DEFINE h == [Idle EXCEPT !.pc = "set", !.kind = "accept", !.user = u, !.pw = p,
                             !.saw = password[u], !.entitled = Writing(u)]
<1>2. Writing(u) \in BOOLEAN /\ password[u] \in Password \cup {NULL}
  BY DEF Writing, IInv, TypeOK
<1>3. h \in Handler
  BY <1>2, PcValues DEF Idle, Handler
<1>4. /\ h.pc = "set" /\ h.kind = "accept" /\ h.user = u /\ h.pw = p
      /\ h.saw = password[u] /\ h.entitled = Writing(u) /\ h.session = NULL
  BY DEF Idle
<1>5. /\ work' \in [Req -> Handler] /\ work'[r] = h
      /\ \A q \in Req \ {r} : work'[q] = work[q]
  BY <1>1, <1>3 DEF IInv, TypeOK
<1>6. /\ UNCHANGED <<accounts, sessions, history>> /\ At(r, "idle")
      /\ faults' \in 0..MaxFaults /\ uninvited \subseteq User /\ unmarked \subseteq User
  BY DEF GetInvite, IInv, TypeOK, history
<1>7. password[u] = NULL \/ Writing(u) \/ u \in unmarked
  BY <1>1 DEF IInv, UInv, OpenIsUnmarked, Writing, At
<1>8. (AboutUser(r) /\ Inserting(r) /\ Setting(r) /\ Deleting(r) /\ Holding(r))'
  <2>1. work'[r].pc = "set" /\ Of(r)' = u /\ work'[r].session = NULL
    BY <1>4, <1>5 DEF Of
  <2>2. Setting(r)'
    BY <1>1, <1>4, <1>5, <1>6, <1>7, <2>1, NullAssumption
    DEF Setting, At, Of, There, accounts, history
  <2>3. NULL \notin ended'
    BY <1>6, NullAssumption DEF history, IInv, TypeOK
  <2>. QED  BY <1>1, <1>6, <2>1, <2>2, <2>3
            DEF AboutUser, Inserting, Deleting, Holding, At, There, accounts
<1>. QED  BY <1>4, <1>5, <1>6, <1>8, WorkOnly DEF At, Telling, history

\* A request with a session brings no more than the session allows.
LEMMA AuthenticateKeeps == ASSUME IInv, NEW r \in Req, Authenticate(r) PROVE IInv'
<1>1. PICK s \in live :
        /\ There(owner[s])
        /\ LET In == [Idle EXCEPT !.caller = owner[s], !.session = s] IN
           \/ role[owner[s]] = "admin" /\ \E p \in Password \cup {NULL} :
                work' = [work EXCEPT ![r] = [In EXCEPT !.pc = "insert", !.kind = "create", !.pw = p]]
           \/ role[owner[s]] = "admin" /\ \E v \in Deletable(owner[s]) :
                work' = [work EXCEPT ![r] =
                  [In EXCEPT !.pc = "delete", !.kind = "delete", !.user = v]]
           \/ \E p \in Password :
                work' = [work EXCEPT ![r] =
                  [In EXCEPT !.pc = "verify", !.kind = "change", !.user = owner[s], !.pw = p]]
           \/ work' = [work EXCEPT ![r] = [In EXCEPT !.pc = "destroy", !.kind = "logout"]]
  BY DEF Authenticate
<1> DEFINE u == owner[s]
           In == [Idle EXCEPT !.caller = u, !.session = s]
<1>2. s \in Session /\ u \in User /\ u # NULL /\ s # NULL /\ s \notin ended \ raced
  BY NullAssumption DEF IInv, TypeOK, UInv, SessionInv, LogoutHolds
<1>3. /\ UNCHANGED <<accounts, sessions, history>> /\ At(r, "idle")
      /\ faults' \in 0..MaxFaults /\ uninvited \subseteq User /\ unmarked \subseteq User
  BY DEF Authenticate, IInv, TypeOK, history
<1>4. ASSUME NEW h \in Handler, work' = [work EXCEPT ![r] = h], h.session = s,
             \/ h.pc = "insert" /\ h.kind = "create"
             \/ /\ h.pc = "delete" /\ h.caller = u /\ role[u] = "admin"
                /\ h.user \in Deletable(u)
             \/ h.pc = "verify" /\ h.kind = "change" /\ h.user = u /\ h.pw # NULL
             \/ h.pc = "destroy"
      PROVE  IInv'
  <2>1. /\ work' \in [Req -> Handler] /\ work'[r] = h
        /\ \A q \in Req \ {r} : work'[q] = work[q]
    BY <1>4 DEF IInv, TypeOK
  <2>2. u \in Known
    BY <1>1, <1>2 DEF Known, There
  <2>3. AboutUser(r)'
    BY <1>2, <1>3, <1>4, <2>1, <2>2 DEF AboutUser, Of, Known, Deletable, accounts
  <2>4. Inserting(r)' /\ Setting(r)'
    BY <1>3, <1>4, <2>1, <2>2 DEF Inserting, Setting, At, Known, accounts
  <2>5. Deleting(r)'
    BY <1>2, <1>3, <1>4, <2>1, <2>2 DEF Deleting, At, Of, Known, Deletable, accounts
  <2>6. Holding(r)'
    BY <1>2, <1>3, <1>4, <2>1 DEF Holding, At, sessions, history
  <2>. QED  BY <1>3, <1>4, <2>1, <2>3, <2>4, <2>5, <2>6, WorkOnly DEF At, Telling, history
<1>5. CASE role[u] = "admin" /\ \E p \in Password \cup {NULL} :
             work' = [work EXCEPT ![r] = [In EXCEPT !.pc = "insert", !.kind = "create", !.pw = p]]
  <2>1. PICK p \in Password \cup {NULL} :
             work' = [work EXCEPT ![r] = [In EXCEPT !.pc = "insert", !.kind = "create", !.pw = p]]
    BY <1>5
  <2> DEFINE h == [In EXCEPT !.pc = "insert", !.kind = "create", !.pw = p]
  <2>2. h \in Handler /\ h.session = s /\ h.pc = "insert" /\ h.kind = "create"
    BY <1>2, PcValues DEF Handler, Idle
  <2>. QED  BY <1>4, <2>1, <2>2
<1>6. CASE role[u] = "admin" /\ \E v \in Deletable(u) :
             work' = [work EXCEPT ![r] = [In EXCEPT !.pc = "delete", !.kind = "delete", !.user = v]]
  <2>1. PICK v \in Deletable(u) :
             work' = [work EXCEPT ![r] = [In EXCEPT !.pc = "delete", !.kind = "delete", !.user = v]]
    BY <1>6
  <2> DEFINE h == [In EXCEPT !.pc = "delete", !.kind = "delete", !.user = v]
  <2>2. v \in User
    BY DEF Deletable, Known
  <2>3. /\ h \in Handler /\ h.session = s /\ h.pc = "delete" /\ h.caller = u
        /\ h.user = v
    BY <1>2, <2>2, PcValues DEF Handler, Idle
  <2>. QED  BY <1>4, <1>6, <2>1, <2>3
<1>7. CASE \E p \in Password :
             work' = [work EXCEPT ![r] =
               [In EXCEPT !.pc = "verify", !.kind = "change", !.user = u, !.pw = p]]
  <2>1. PICK p \in Password :
             work' = [work EXCEPT ![r] =
               [In EXCEPT !.pc = "verify", !.kind = "change", !.user = u, !.pw = p]]
    BY <1>7
  <2> DEFINE h == [In EXCEPT !.pc = "verify", !.kind = "change", !.user = u, !.pw = p]
  <2>2. /\ h \in Handler /\ h.session = s /\ h.pc = "verify"
        /\ h.kind = "change" /\ h.user = u /\ h.pw # NULL
    BY <1>2, PcValues, NullAssumption DEF Handler, Idle
  <2>. QED  BY <1>4, <2>1, <2>2
<1>8. CASE work' = [work EXCEPT ![r] = [In EXCEPT !.pc = "destroy", !.kind = "logout"]]
  <2> DEFINE h == [In EXCEPT !.pc = "destroy", !.kind = "logout"]
  <2>1. h \in Handler /\ h.session = s /\ h.pc = "destroy"
    BY <1>2, PcValues DEF Handler, Idle
  <2>. QED  BY <1>4, <1>8, <2>1
<1>. QED  BY <1>1, <1>5, <1>6, <1>7, <1>8

-----------------------------------------------------------------------------
(* Requests that go on or are answered with an error.                      *)

\* What failed is recorded, and the request goes on to its answer or to a login.
LEMMA LeaveKeeps ==
  ASSUME IInv, NEW r \in Req, NEW pc \in {"login", "answer"}, GoTo(r, pc),
         pc = "login" => At(r, "use"), ~At(r, "answer"),
         UNCHANGED <<accounts, sessions, orphaned, ended, raced>>,
         uninvited \subseteq uninvited', uninvited' \subseteq User,
         unmarked \subseteq unmarked', unmarked' \subseteq User, faults' \in 0..MaxFaults,
         At(r, "use") => Of(r) \in unmarked', At(r, "invite") => Of(r) \in uninvited'
  PROVE  IInv'
<1>1. /\ work' \in [Req -> Handler] /\ work'[r].pc = pc
      /\ work'[r].user = work[r].user /\ work'[r].session = work[r].session
      /\ \A q \in Req \ {r} : work'[q] = work[q]
  <2>1. pc \in Pc
    BY PcValues
  <2>. QED  BY <2>1, GoToShape DEF IInv
<1>2. AboutUser(r) /\ Holding(r)
  BY DEF IInv, RInv
<1>3. (AboutUser(r) /\ Inserting(r) /\ Setting(r) /\ Deleting(r) /\ Holding(r))'
  BY <1>1, <1>2 DEF AboutUser, Inserting, Setting, Deleting, Holding, At, Of, accounts,
     sessions
<1>. QED  BY <1>1, <1>3, WorkOnly DEF At, Telling

\* Only the one insert is left undone.
LEMMA EmailTakenKeeps == ASSUME IInv, NEW r \in Req, EmailTaken(r) PROVE IInv'
<1>1. At(r, "insert") /\ GoTo(r, "answer") /\ UNCHANGED <<accounts, sessions, history>>
  BY DEF EmailTaken
<1>2. uninvited \subseteq User /\ unmarked \subseteq User /\ faults \in 0..MaxFaults
  BY DEF IInv, TypeOK
<1>. QED  BY <1>1, <1>2, LeaveKeeps DEF At, history

\* The failed mark is on record.
LEMMA UseInviteFailsKeeps == ASSUME IInv, NEW r \in Req, UseInviteFails(r) PROVE IInv'
<1>1. /\ At(r, "use") /\ GoTo(r, "login") /\ unmarked' = unmarked \cup {Of(r)}
      /\ UNCHANGED <<accounts, sessions, orphaned, uninvited, ended, raced>>
      /\ faults < MaxFaults /\ faults' = faults + 1
  BY DEF UseInviteFails, Fail
<1>2. /\ uninvited \subseteq User /\ unmarked' \subseteq User /\ faults' \in 0..MaxFaults
  BY <1>1, BoundAssumption DEF IInv, TypeOK, RInv, AboutUser, At
<1>. QED  BY <1>1, <1>2, LeaveKeeps DEF At

\* Whose invite is lost with requests is on record.
LEMMA UninvitedUsers ==
  ASSUME IInv, NEW R \in SUBSET Req
  PROVE  /\ uninvited \subseteq Uninvited(R) /\ Uninvited(R) \subseteq User
         /\ \A r \in R : At(r, "invite") \/ Telling(r) => Of(r) \in Uninvited(R)
<1>1. ASSUME NEW r \in Req, At(r, "invite") \/ Telling(r) PROVE Of(r) \in User
  BY <1>1 DEF IInv, TypeOK, RInv, AboutUser, At, Of, Telling, Handler
<1>2. uninvited \subseteq User
  BY DEF IInv, TypeOK
<1>. QED  BY <1>1, <1>2 DEF Uninvited

\* So is the invite that could not be inserted.
LEMMA StatementFailsKeeps == ASSUME IInv, NEW r \in Req, StatementFails(r) PROVE IInv'
<1>1. /\ work[r].pc \notin {"idle", "use", "answer"} /\ GoTo(r, "answer")
      /\ uninvited' = Uninvited({r})
      /\ UNCHANGED <<accounts, sessions, orphaned, unmarked, ended, raced>>
      /\ faults < MaxFaults /\ faults' = faults + 1
  BY DEF StatementFails, Fail
<1>2. /\ At(r, "invite") => Of(r) \in uninvited'
      /\ uninvited \subseteq uninvited' /\ uninvited' \subseteq User
  BY <1>1, UninvitedUsers
<1>3. unmarked \subseteq User /\ faults' \in 0..MaxFaults
  BY <1>1, BoundAssumption DEF IInv, TypeOK
<1>. QED  BY <1>1, <1>2, <1>3, LeaveKeeps DEF At

\* Of an answer that was refused there remains that an invite was lost with it.
LEMMA AnswerFailsKeeps == ASSUME IInv, NEW r \in Req, AnswerFails(r) PROVE IInv'
<1>1. /\ At(r, "answer") /\ work' = [work EXCEPT ![r] = Idle]
      /\ uninvited' = Uninvited({r})
      /\ UNCHANGED <<accounts, sessions, orphaned, unmarked, ended, raced>>
      /\ faults < MaxFaults /\ faults' = faults + 1
  BY DEF AnswerFails, Fail
<1>2. /\ work' \in [Req -> Handler] /\ work'[r] = Idle
      /\ \A q \in Req \ {r} : work'[q] = work[q]
  BY <1>1, PcValues DEF IInv, TypeOK
<1>3. /\ unmarked \subseteq User /\ faults' \in 0..MaxFaults /\ NULL \notin ended'
  BY <1>1, BoundAssumption, NullAssumption DEF IInv, TypeOK
<1>4. (AboutUser(r) /\ Inserting(r) /\ Setting(r) /\ Deleting(r) /\ Holding(r))'
  BY <1>2, <1>3 DEF AboutUser, Inserting, Setting, Deleting, Holding, At, Idle
<1>5. /\ Telling(r) => Of(r) \in uninvited'
      /\ uninvited \subseteq uninvited' /\ uninvited' \subseteq User
  BY <1>1, UninvitedUsers
<1>. QED  BY <1>1, <1>2, <1>3, <1>4, <1>5, WorkOnly DEF At, Idle

\* Who knows the current password is entitled to replace it.
LEMMA CheckPasswordKeeps == ASSUME IInv, NEW r \in Req, CheckPassword(r) PROVE IInv'
<1>1. At(r, "verify") /\ UNCHANGED <<accounts, sessions, history>>
  BY DEF CheckPassword
<1>2. uninvited \subseteq User /\ unmarked \subseteq User /\ faults \in 0..MaxFaults
  BY DEF IInv, TypeOK
<1>3. CASE GoTo(r, "answer")
  BY <1>1, <1>2, <1>3, LeaveKeeps DEF At, history
<1>4. CASE /\ There(Of(r)) /\ password[Of(r)] # NULL
           /\ work' = [work EXCEPT ![r].pc = "set", ![r].saw = password[Of(r)],
                                   ![r].entitled = TRUE]
  <2>1. work[r] \in Handler /\ password[Of(r)] \in Password
    BY <1>1, <1>4 DEF IInv, TypeOK, RInv, AboutUser, At
  <2> DEFINE h == [work[r] EXCEPT !.pc = "set", !.saw = password[Of(r)], !.entitled = TRUE]
  <2>2. h \in Handler
    BY <2>1, PcValues DEF Handler
  <2>3. /\ h.pc = "set" /\ h.entitled = TRUE /\ h.kind = work[r].kind /\ h.user = work[r].user
        /\ h.pw = work[r].pw /\ h.session = work[r].session
    BY <2>1 DEF Handler
  <2>4. work' = [work EXCEPT ![r] = h]
    BY <1>4, <2>1 DEF IInv, TypeOK
  <2>5. /\ work' \in [Req -> Handler] /\ work'[r] = h
        /\ \A q \in Req \ {r} : work'[q] = work[q]
    BY <2>2, <2>4 DEF IInv, TypeOK
  <2>6. AboutUser(r) /\ Setting(r) /\ Holding(r)
    BY DEF IInv, RInv
  <2>7. (AboutUser(r) /\ Inserting(r) /\ Setting(r) /\ Deleting(r) /\ Holding(r))'
    BY <1>1, <1>4, <2>3, <2>5, <2>6
    DEF AboutUser, Inserting, Setting, Deleting, Holding, At, Of, There, accounts, sessions,
        history
  <2>. QED  BY <1>1, <1>2, <2>3, <2>5, <2>7, WorkOnly DEF At, Telling, history
<1>. QED  BY <1>3, <1>4 DEF CheckPassword

-----------------------------------------------------------------------------
(* Statements that write users and invites.                                *)

\* What another request holds stays true as users, owners and ended sessions grow.
LEMMA OtherKeeps ==
  ASSUME NEW q \in Req, work'[q] = work[q], work[q] \in Handler,
         AboutUser(q), Inserting(q), Deleting(q), Holding(q),
         \A v \in User : state[v] # "absent" => state'[v] # "absent" /\ role'[v] = role[v],
         \A s \in Session : owner[s] # NULL => owner'[s] # NULL,
         work[q].session \notin ended' \ raced'
  PROVE  AboutUser(q)' /\ Inserting(q)' /\ Deleting(q)' /\ Holding(q)'
<1>1. AboutUser(q)'
  BY DEF AboutUser, Of
<1>2. Inserting(q)'
  <2>1. Known # {} => Known' # {}
    BY DEF Known
  <2>. QED  BY <2>1 DEF Inserting, At
<1>3. Deleting(q)'
  BY DEF Deleting, At, Of
<1>4. Holding(q)'
  <2>1. work[q].session \in Session \cup {NULL}
    BY DEF Handler
  <2>. QED  BY <2>1 DEF Holding, At
<1>. QED  BY <1>1, <1>2, <1>3, <1>4

\* The new user has a password or gets an invite from the same request.
LEMMA InsertUserKeeps == ASSUME IInv, NEW r \in Req, InsertUser(r) PROVE IInv'
<1>1. PICK u \in User :
        /\ state[u] = "absent" /\ state' = [state EXCEPT ![u] = "there"]
        /\ \E as \in IF work[r].kind = "setup" THEN {"admin"} ELSE {"admin", "user"} :
             role' = [role EXCEPT ![u] = as]
        /\ password' = [password EXCEPT ![u] = work[r].pw]
        /\ work' = [work EXCEPT ![r].pc = AfterInsert(r), ![r].user = u]
  BY DEF InsertUser
<1>2. /\ At(r, "insert")
      /\ UNCHANGED <<invite, told, sessions, orphaned, uninvited, unmarked, ended, raced, faults>>
  BY DEF InsertUser, history
<1>3. work[r] \in Handler /\ TypeOK /\ Inserting(r) /\ Holding(r)
  BY DEF IInv, TypeOK, RInv
<1>4. /\ AfterInsert(r) \in {"login", "invite", "answer"} /\ AfterInsert(r) \in Pc
      /\ AfterInsert(r) = "invite" <=> work[r].kind = "create" /\ work[r].pw = NULL
      /\ work[r].pw = NULL => work[r].kind = "create"
  BY <1>2, <1>3, PcValues DEF AfterInsert, Inserting
<1> DEFINE h == [work[r] EXCEPT !.pc = AfterInsert(r), !.user = u]
<1>5. h \in Handler
  BY <1>3, <1>4 DEF Handler
<1>6. h.pc = AfterInsert(r) /\ h.user = u /\ h.session = work[r].session /\ h.pw = work[r].pw
      /\ h.kind = work[r].kind
  BY <1>3 DEF Handler
<1>7. work' = [work EXCEPT ![r] = h]
  BY <1>1, <1>3 DEF TypeOK
<1>8. /\ work' \in [Req -> Handler] /\ work'[r] = h
      /\ \A q \in Req \ {r} : work'[q] = work[q]
  BY <1>3, <1>5, <1>7 DEF TypeOK
<1>9. /\ state'[u] = "there" /\ password'[u] = work[r].pw
      /\ \A v \in User \ {u} : /\ state'[v] = state[v] /\ role'[v] = role[v]
                               /\ password'[v] = password[v]
      /\ work[r].kind = "setup" => role'[u] = "admin"
  BY <1>1, <1>3 DEF TypeOK
<1>10. TypeOK'
  <2>1. work[r].pw \in Password \cup {NULL}
    BY <1>3 DEF Handler
  <2>2. role' \in [User -> {"admin", "user"}]
    BY <1>1, <1>3 DEF TypeOK
  <2>. QED  BY <1>1, <1>2, <1>3, <1>8, <2>1, <2>2 DEF TypeOK, sessions
<1>11. RInv'
  <2>1. ASSUME NEW q \in Req \ {r}
        PROVE  (/\ AboutUser(q) /\ Inserting(q) /\ Inviting(q) /\ Setting(q)
                /\ Deleting(q) /\ Holding(q))'
    <3>1. /\ AboutUser(q) /\ Inserting(q) /\ Inviting(q) /\ Setting(q) /\ Deleting(q)
          /\ Holding(q)
      BY DEF IInv, RInv
    <3>2. work'[q] = work[q] /\ work[q] \in Handler
      BY <1>3, <1>8 DEF TypeOK
    <3>3. AboutUser(q)' /\ Inserting(q)' /\ Deleting(q)' /\ Holding(q)'
      <4>1. \A v \in User : state[v] # "absent" => state'[v] # "absent" /\ role'[v] = role[v]
        BY <1>1, <1>9
      <4>2. owner' = owner /\ ended' = ended /\ raced' = raced
        BY <1>2 DEF sessions
      <4>3. work[q].session \notin ended' \ raced'
        BY <3>1, <4>2 DEF Holding
      <4>. QED  BY <3>1, <3>2, <4>1, <4>2, <4>3, OtherKeeps
    <3>4. Inviting(q)' /\ Setting(q)'
      <4>1. CASE work[q].pc \in {"invite", "verify", "set", "use"}
        <5>1. Of(q) \in User \ {u}
          BY <1>1, <3>1, <4>1 DEF AboutUser
        <5>2. /\ Of(q)' = Of(q) /\ state'[Of(q)] = state[Of(q)]
              /\ password'[Of(q)] = password[Of(q)] /\ invite' = invite /\ unmarked' = unmarked
          BY <1>2, <1>9, <3>2, <5>1 DEF Of
        <5>3. Inviting(q)'
          BY <3>1, <3>2, <5>2 DEF Inviting, At, There
        <5>. QED  BY <3>1, <3>2, <5>2, <5>3 DEF Setting, At, There
      <4>2. CASE work[q].pc \notin {"invite", "verify", "set", "use"}
        BY <3>2, <4>2 DEF Inviting, Setting, At
      <4>. QED  BY <4>1, <4>2
    <3>. QED  BY <3>3, <3>4
  <2>2. (AboutUser(r) /\ Inserting(r) /\ Setting(r) /\ Deleting(r) /\ Holding(r))'
    BY <1>2, <1>3, <1>4, <1>6, <1>8, <1>9
    DEF AboutUser, Inserting, Setting, Deleting, Holding, At, Of, sessions
  <2>3. Inviting(r)'
    BY <1>1, <1>2, <1>4, <1>6, <1>8, <1>9 DEF Inviting, At, Of, IInv, UInv, Unborn
  <2>. QED  BY <2>1, <2>2, <2>3 DEF RInv
<1>12. OneInvites'
  <2>1. \A q \in Req : At(q, "invite") => Of(q) # u
    BY <1>1 DEF IInv, RInv, AboutUser, At
  <2> SUFFICES ASSUME NEW q \in Req, NEW p \in Req, work'[q].pc = "invite",
                      work'[p].pc = "invite", work'[q].user = work'[p].user
               PROVE  q = p
    BY DEF OneInvites, At, Of
  <2>2. CASE q # r /\ p # r
    BY <1>8, <2>2 DEF IInv, UInv, OneInvites, At, Of
  <2>3. CASE q = r /\ p # r
    BY <1>6, <1>8, <2>1, <2>3 DEF At, Of
  <2>4. CASE q # r /\ p = r
    BY <1>6, <1>8, <2>1, <2>4 DEF At, Of
  <2>. QED  BY <2>2, <2>3, <2>4
<1>13. Unborn' /\ SessionInv'
  BY <1>1, <1>2, <1>3, <1>9
  DEF IInv, UInv, Unborn, SessionInv, LogoutHolds, Holding, sessions
<1>14. OpenIsUnmarked' /\ HasInvite' /\ LinkTold'
  <2>1. invite[u] = "none"
    BY <1>1 DEF IInv, UInv, Unborn
  <2>2. OpenIsUnmarked'
    BY <1>2, <1>8, <1>9, <2>1 DEF IInv, UInv, OpenIsUnmarked, At, Of, There
  <2>3. \A v \in User \ {u} : There(v)' /\ password'[v] = NULL =>
          \/ invite'[v] \in {"open", "expired"} \/ v \in uninvited'
          \/ \E q \in Req : At(q, "invite")' /\ Of(q)' = v
    BY <1>2, <1>8, <1>9 DEF IInv, UInv, HasInvite, At, Of, There
  <2>4. password'[u] = NULL => At(r, "invite")' /\ Of(r)' = u
    BY <1>4, <1>6, <1>8, <1>9 DEF At, Of
  <2>5. LinkTold'
    BY <1>2, <1>8, <1>9, <2>1 DEF IInv, UInv, LinkTold, Telling, At, Of, There
  <2>. QED  BY <2>2, <2>3, <2>4, <2>5 DEF HasInvite
<1>15. AdminRemains'
  <2>1. CASE work[r].kind = "setup"
    BY <1>9, <2>1 DEF AdminRemains, There
  <2>2. CASE work[r].kind = "create"
    <3>1. (\E v \in User : There(v) /\ role[v] = "admin") \/ orphaned # {}
      BY <1>2, <1>3, <2>2 DEF IInv, UInv, AdminRemains, Inserting
    <3>. QED  BY <1>1, <1>2, <1>9, <3>1 DEF AdminRemains, There
  <2>. QED  BY <1>2, <1>3, <2>1, <2>2 DEF Inserting
<1>. QED  BY <1>10, <1>11, <1>12, <1>13, <1>14, <1>15 DEF IInv, UInv

\* Statements that write a password or an invite, and nothing else of a user.
LEMMA WriteKeeps ==
  ASSUME IInv, NEW r \in Req, NEW pc \in {"use", "login", "answer"}, GoTo(r, pc),
         AboutUser(r), work[r].pc \in {"invite", "set", "use"},
         UNCHANGED <<state, role, told, sessions, history>>,
         password' \in [User -> Password \cup {NULL}],
         invite' \in [User -> {"none", "open", "expired", "used"}],
         \A v \in User \ {Of(r)} : password'[v] = password[v] /\ invite'[v] = invite[v],
         \A v \in User : password[v] # NULL => password'[v] # NULL,
         \A v \in User : invite[v] # "none" => invite'[v] # "none",
         invite'[Of(r)] # "none" => invite[Of(r)] # "none" \/ Telling(r)',
         \A q \in Req \ {r} : At(q, "invite") /\ There(Of(q)) => Of(q) # Of(r),
         pc = "use" => password'[Of(r)] # NULL
  PROVE  TypeOK' /\ RInv' /\ OneInvites' /\ Unborn' /\ LinkTold' /\ AdminRemains' /\ SessionInv'
<1>1. /\ work' \in [Req -> Handler] /\ work'[r].pc = pc
      /\ work'[r].user = work[r].user /\ work'[r].session = work[r].session
      /\ \A q \in Req \ {r} : work'[q] = work[q]
  <2>1. pc \in Pc
    BY PcValues
  <2>. QED  BY <2>1, GoToShape DEF IInv
<1>2. TypeOK'
  BY <1>1 DEF IInv, TypeOK, sessions, history
<1>3. Of(r) \in User /\ state[Of(r)] # "absent"
  BY DEF AboutUser
<1>4. RInv'
  <2>1. ASSUME NEW q \in Req \ {r}
        PROVE  (/\ AboutUser(q) /\ Inserting(q) /\ Inviting(q) /\ Setting(q)
                /\ Deleting(q) /\ Holding(q))'
    <3>1. /\ AboutUser(q) /\ Inserting(q) /\ Inviting(q) /\ Setting(q) /\ Deleting(q)
          /\ Holding(q)
      BY DEF IInv, RInv
    <3>2. work'[q] = work[q] /\ work[q] \in Handler
      BY <1>1 DEF IInv, TypeOK
    <3>3. AboutUser(q)' /\ Inserting(q)' /\ Deleting(q)' /\ Holding(q)'
      <4>1. \A v \in User : state[v] # "absent" => state'[v] # "absent" /\ role'[v] = role[v]
        OBVIOUS
      <4>2. owner' = owner /\ ended' = ended /\ raced' = raced
        BY DEF sessions, history
      <4>3. work[q].session \notin ended' \ raced'
        BY <3>1, <4>2 DEF Holding
      <4>. QED  BY <3>1, <3>2, <4>1, <4>2, <4>3, OtherKeeps
    <3>4. Of(q)' = Of(q) /\ unmarked' = unmarked
      BY <3>2 DEF Of, history
    <3>5. Inviting(q)'
      <4> SUFFICES ASSUME At(q, "invite"), There(Of(q))
                   PROVE  password'[Of(q)] = NULL /\ invite'[Of(q)] = "none"
        BY <3>1, <3>2, <3>4 DEF Inviting, At, There
      <4>1. Of(q) \in User \ {Of(r)}
        BY <3>1 DEF AboutUser, At
      <4>. QED  BY <3>1, <4>1 DEF Inviting
    <3>6. Setting(q)'
      <4>1. CASE work[q].pc \in {"verify", "set", "use"}
        <5>1. Of(q) \in User
          BY <3>1, <4>1 DEF AboutUser
        <5>. QED  BY <3>1, <3>2, <3>4, <5>1 DEF Setting, At, There
      <4>2. CASE work[q].pc \notin {"verify", "set", "use"}
        BY <3>2, <4>2 DEF Setting, At
      <4>. QED  BY <4>1, <4>2
    <3>. QED  BY <3>3, <3>5, <3>6
  <2>2. AboutUser(r)' /\ Inserting(r)' /\ Inviting(r)' /\ Deleting(r)'
    BY <1>1, <1>3 DEF AboutUser, Inserting, Inviting, Deleting, At, Of
  <2>3. Setting(r)'
    BY <1>1 DEF Setting, At, Of
  <2>4. Holding(r)'
    BY <1>1 DEF IInv, RInv, Holding, At, sessions, history
  <2>. QED  BY <2>1, <2>2, <2>3, <2>4 DEF RInv
<1>5. OneInvites'
  BY <1>1 DEF IInv, UInv, OneInvites, At, Of
<1>6. Unborn'
  BY <1>3 DEF IInv, UInv, Unborn
<1>7. AdminRemains' /\ SessionInv'
  BY DEF IInv, UInv, AdminRemains, SessionInv, LogoutHolds, Known, There, sessions, history
<1>8. LinkTold'
  <2> SUFFICES ASSUME NEW v \in User, There(v), invite'[v] # "none"
               PROVE  v \in told \/ v \in uninvited \/ \E q \in Req : Telling(q)' /\ Of(q)' = v
    BY DEF LinkTold, There, history
  <2>1. CASE invite[v] # "none"
    <3>1. v \in told \/ v \in uninvited \/ \E q \in Req \ {r} : Telling(q) /\ Of(q) = v
      BY <2>1 DEF IInv, UInv, LinkTold, Telling, At
    <3>. QED  BY <1>1, <3>1 DEF Telling, At, Of
  <2>2. CASE invite[v] = "none"
    <3>1. v = Of(r) /\ Telling(r)'
      BY <2>2
    <3>. QED  BY <1>1, <3>1 DEF Of
  <2>. QED  BY <2>1, <2>2
<1>. QED  BY <1>2, <1>4, <1>5, <1>6, <1>7, <1>8

\* The invite opens the way in for a user without a password.
LEMMA CreateInviteKeeps == ASSUME IInv, NEW r \in Req, CreateInvite(r) PROVE IInv'
<1>1. /\ At(r, "invite") /\ GoTo(r, "answer")
      /\ invite' = IF There(Of(r)) THEN [invite EXCEPT ![Of(r)] = "open"] ELSE invite
      /\ UNCHANGED <<state, role, password, told, sessions, history>>
  BY DEF CreateInvite
<1>2. /\ TypeOK /\ Inviting(r) /\ AboutUser(r) /\ Of(r) \in User
      /\ \A q \in Req \ {r} : At(q, "invite") => Of(q) # Of(r)
  BY <1>1 DEF IInv, RInv, UInv, OneInvites, AboutUser, At
<1>3. /\ invite' \in [User -> {"none", "open", "expired", "used"}]
      /\ \A v \in User \ {Of(r)} : invite'[v] = invite[v]
      /\ There(Of(r)) => invite'[Of(r)] = "open"
      /\ ~There(Of(r)) => invite'[Of(r)] = invite[Of(r)]
  BY <1>1, <1>2 DEF TypeOK
<1>4. /\ work'[r].pc = "answer" /\ \A q \in Req \ {r} : work'[q] = work[q]
      /\ Telling(r)'
  <2>1. "answer" \in Pc
    BY PcValues
  <2>2. /\ work'[r].pc = "answer" /\ work'[r].kind = work[r].kind
        /\ work'[r].pw = work[r].pw /\ work'[r].user = work[r].user
        /\ \A q \in Req \ {r} : work'[q] = work[q]
    BY <1>1, <1>2, <2>1, GoToShape
  <2>. QED  BY <1>1, <1>2, <2>2, NullAssumption DEF Inviting, Telling, At, Of
<1>5. TypeOK' /\ RInv' /\ OneInvites' /\ Unborn' /\ LinkTold' /\ AdminRemains' /\ SessionInv'
  <2>1. password' \in [User -> Password \cup {NULL}]
    BY <1>1, <1>2 DEF TypeOK
  <2>2. /\ work[r].pc \in {"invite", "set", "use"}
        /\ \A v \in User \ {Of(r)} : password'[v] = password[v] /\ invite'[v] = invite[v]
        /\ \A v \in User : password[v] # NULL => password'[v] # NULL
        /\ \A v \in User : invite[v] # "none" => invite'[v] # "none"
    BY <1>1, <1>3 DEF At
  <2>. QED  BY <1>1, <1>2, <1>3, <1>4, <2>1, <2>2, WriteKeeps
<1>6. OpenIsUnmarked'
  <2> SUFFICES ASSUME NEW v \in User, There(v), invite'[v] = "open", password[v] # NULL
               PROVE  v \in unmarked \/ \E q \in Req : At(q, "use")' /\ Of(q)' = v
    BY <1>1 DEF OpenIsUnmarked, There, history
  <2>1. v # Of(r)
    BY <1>1, <1>2 DEF Inviting
  <2>2. v \in unmarked \/ \E q \in Req : At(q, "use") /\ Of(q) = v
    BY <1>3, <2>1 DEF IInv, UInv, OpenIsUnmarked
  <2>. QED  BY <1>1, <1>4, <2>2 DEF At, Of
<1>7. HasInvite'
  <2> SUFFICES ASSUME NEW v \in User, There(v), password[v] = NULL
               PROVE  \/ invite'[v] \in {"open", "expired"} \/ v \in uninvited
                      \/ \E q \in Req : At(q, "invite")' /\ Of(q)' = v
    BY <1>1 DEF HasInvite, There, history
  <2>1. CASE v = Of(r)
    BY <1>3, <2>1
  <2>2. CASE v # Of(r)
    <3>1. \/ invite[v] \in {"open", "expired"} \/ v \in uninvited
          \/ \E q \in Req : At(q, "invite") /\ Of(q) = v
      BY DEF IInv, UInv, HasInvite
    <3>. QED  BY <1>3, <1>4, <2>2, <3>1 DEF At, Of
  <2>. QED  BY <2>1, <2>2
<1>. QED  BY <1>5, <1>6, <1>7 DEF IInv, UInv

\* The password comes before the mark, and who is inviting has no rival here.
LEMMA SetPasswordKeeps == ASSUME IInv, NEW r \in Req, SetPassword(r) PROVE IInv'
<1>1. At(r, "set") /\ UNCHANGED <<state, role, invite, told, sessions, history>>
  BY DEF SetPassword
<1>2. /\ TypeOK /\ Setting(r) /\ AboutUser(r) /\ Of(r) \in User /\ work[r] \in Handler
      /\ uninvited \subseteq User /\ unmarked \subseteq User /\ faults \in 0..MaxFaults
  BY <1>1 DEF IInv, TypeOK, RInv, AboutUser, At
<1>3. CASE ~There(Of(r))
  <2>1. GoTo(r, "answer") /\ UNCHANGED <<accounts, sessions, history>>
    BY <1>1, <1>3 DEF SetPassword, accounts
  <2>. QED  BY <1>1, <1>2, <2>1, LeaveKeeps DEF At, history
<1>4. CASE There(Of(r))
  <2> DEFINE pc == IF work[r].kind = "accept" THEN "use" ELSE "answer"
  <2>1. /\ password' = [password EXCEPT ![Of(r)] = work[r].pw] /\ GoTo(r, pc)
        /\ work[r].pw \in Password /\ work[r].pw # NULL
    BY <1>1, <1>2, <1>4 DEF SetPassword, Setting, Handler
  <2>2. /\ password' \in [User -> Password \cup {NULL}] /\ password'[Of(r)] # NULL
        /\ \A v \in User \ {Of(r)} : password'[v] = password[v]
    BY <1>2, <2>1 DEF TypeOK
  <2>3. pc \in Pc /\ pc \in {"use", "login", "answer"}
    BY PcValues
  <2>4. work'[r].pc = pc /\ work'[r].user = work[r].user /\ \A q \in Req \ {r} : work'[q] = work[q]
    <3> HIDE DEF pc
    <3>. QED  BY <1>2, <2>1, <2>3, GoToShape
  <2>5. \A q \in Req \ {r} : At(q, "invite") /\ There(Of(q)) => Of(q) # Of(r)
    BY <1>1, <1>2, <1>4 DEF IInv, RInv, Inviting, Setting
  <2>6. TypeOK' /\ RInv' /\ OneInvites' /\ Unborn' /\ LinkTold' /\ AdminRemains' /\ SessionInv'
    <3>1. /\ work[r].pc \in {"invite", "set", "use"}
          /\ invite' \in [User -> {"none", "open", "expired", "used"}]
          /\ \A v \in User \ {Of(r)} : password'[v] = password[v] /\ invite'[v] = invite[v]
          /\ \A v \in User : password[v] # NULL => password'[v] # NULL
          /\ \A v \in User : invite[v] # "none" => invite'[v] # "none"
      BY <1>1, <1>2, <2>2 DEF At, TypeOK
    <3> HIDE DEF pc
    <3>. QED  BY <1>1, <1>2, <2>1, <2>2, <2>3, <2>5, <3>1, WriteKeeps
  <2>7. OpenIsUnmarked'
    <3> SUFFICES ASSUME NEW v \in User, There(v), invite[v] = "open", password'[v] # NULL
                 PROVE  v \in unmarked \/ \E q \in Req : At(q, "use")' /\ Of(q)' = v
      BY <1>1 DEF OpenIsUnmarked, There, history
    <3>1. CASE v = Of(r) /\ work[r].kind = "accept"
      BY <2>4, <3>1 DEF At, Of
    <3>2. CASE v # Of(r) \/ work[r].kind = "change"
      <4>1. password[v] # NULL
        BY <1>1, <1>2, <1>4, <2>2, <3>2 DEF Setting
      <4>2. v \in unmarked \/ \E q \in Req : At(q, "use") /\ Of(q) = v
        BY <4>1 DEF IInv, UInv, OpenIsUnmarked
      <4>. QED  BY <1>1, <2>4, <4>2 DEF At, Of
    <3>. QED  BY <1>1, <1>2, <3>1, <3>2 DEF Setting
  <2>8. HasInvite'
    <3> SUFFICES ASSUME NEW v \in User, There(v), password'[v] = NULL
                 PROVE  \/ invite[v] \in {"open", "expired"} \/ v \in uninvited
                        \/ \E q \in Req : At(q, "invite")' /\ Of(q)' = v
      BY <1>1 DEF HasInvite, There, history
    <3>1. \/ invite[v] \in {"open", "expired"} \/ v \in uninvited
          \/ \E q \in Req : At(q, "invite") /\ Of(q) = v
      BY <2>2 DEF IInv, UInv, HasInvite
    <3>. QED  BY <1>1, <2>4, <3>1 DEF At, Of
  <2>. QED  BY <2>6, <2>7, <2>8 DEF IInv, UInv
<1>. QED  BY <1>3, <1>4

\* Only an invite whose user has a password by now is marked as used.
LEMMA UseInviteKeeps == ASSUME IInv, NEW r \in Req, UseInvite(r) PROVE IInv'
<1>1. /\ At(r, "use") /\ GoTo(r, "login") /\ UNCHANGED <<state, role, password, told, sessions, history>>
      /\ invite' = IF invite[Of(r)] = "none" THEN invite ELSE [invite EXCEPT ![Of(r)] = "used"]
  BY DEF UseInvite
<1>2. TypeOK /\ AboutUser(r) /\ Of(r) \in User /\ password[Of(r)] # NULL
  BY <1>1 DEF IInv, RInv, AboutUser, Setting, At
<1>3. /\ invite' \in [User -> {"none", "open", "expired", "used"}] /\ invite'[Of(r)] # "open"
      /\ \A v \in User \ {Of(r)} : invite'[v] = invite[v]
      /\ invite[Of(r)] # "none" <=> invite'[Of(r)] # "none"
  BY <1>1, <1>2 DEF TypeOK
<1>4. /\ work'[r].pc = "login" /\ \A q \in Req \ {r} : work'[q] = work[q]
  <2>1. "login" \in Pc
    BY PcValues
  <2>. QED  BY <1>1, <1>2, <2>1, GoToShape
<1>5. \A q \in Req \ {r} : At(q, "invite") /\ There(Of(q)) => Of(q) # Of(r)
  BY <1>2 DEF IInv, RInv, Inviting
<1>6. TypeOK' /\ RInv' /\ OneInvites' /\ Unborn' /\ LinkTold' /\ AdminRemains' /\ SessionInv'
  <2>1. /\ work[r].pc \in {"invite", "set", "use"}
        /\ password' \in [User -> Password \cup {NULL}]
        /\ \A v \in User \ {Of(r)} : password'[v] = password[v] /\ invite'[v] = invite[v]
        /\ \A v \in User : password[v] # NULL => password'[v] # NULL
        /\ \A v \in User : invite[v] # "none" => invite'[v] # "none"
    BY <1>1, <1>2, <1>3 DEF At, TypeOK
  <2>. QED  BY <1>1, <1>2, <1>3, <1>5, <2>1, WriteKeeps
<1>7. OpenIsUnmarked'
  <2> SUFFICES ASSUME NEW v \in User, There(v), invite'[v] = "open", password[v] # NULL
               PROVE  v \in unmarked \/ \E q \in Req : At(q, "use")' /\ Of(q)' = v
    BY <1>1 DEF OpenIsUnmarked, There, history
  <2>1. v # Of(r) /\ invite[v] = "open"
    BY <1>3
  <2>2. v \in unmarked \/ \E q \in Req : At(q, "use") /\ Of(q) = v
    BY <2>1 DEF IInv, UInv, OpenIsUnmarked
  <2>. QED  BY <1>4, <2>1, <2>2 DEF At, Of
<1>8. HasInvite'
  <2> SUFFICES ASSUME NEW v \in User, There(v), password[v] = NULL
               PROVE  \/ invite'[v] \in {"open", "expired"} \/ v \in uninvited
                      \/ \E q \in Req : At(q, "invite")' /\ Of(q)' = v
    BY <1>1 DEF HasInvite, There, history
  <2>1. \/ invite[v] \in {"open", "expired"} \/ v \in uninvited
        \/ \E q \in Req : At(q, "invite") /\ Of(q) = v
    BY DEF IInv, UInv, HasInvite
  <2>. QED  BY <1>1, <1>2, <1>3, <1>4, <2>1 DEF At, Of
<1>. QED  BY <1>6, <1>7, <1>8 DEF IInv, UInv

-----------------------------------------------------------------------------
(* Sessions.                                                               *)

\* Steps on sessions write no user: what remains is what requests hold and that
\* sessions that were given out have an owner.
LEMMA SessionKeeps ==
  ASSUME IInv, NEW r \in Req, work[r].pc \notin {"invite", "use"},
         UNCHANGED <<state, role, password, invite, orphaned, uninvited, unmarked, faults>>,
         TypeOK', LinkTold',
         \A q \in Req \ {r} : work'[q] = work[q], work'[r].pc \in {"answer", "idle"},
         Holding(r)', SessionInv',
         \A s \in Session : owner[s] # NULL => owner'[s] # NULL,
         \A q \in Req \ {r} : work[q].session \notin ended' \ raced'
  PROVE  IInv'
<1>1. RInv'
  <2>1. ASSUME NEW q \in Req \ {r}
        PROVE  (/\ AboutUser(q) /\ Inserting(q) /\ Inviting(q) /\ Setting(q)
                /\ Deleting(q) /\ Holding(q))'
    <3>1. /\ AboutUser(q) /\ Inserting(q) /\ Inviting(q) /\ Setting(q) /\ Deleting(q)
          /\ Holding(q) /\ work'[q] = work[q] /\ work[q] \in Handler
      BY DEF IInv, RInv, TypeOK
    <3>2. AboutUser(q)' /\ Inserting(q)' /\ Deleting(q)' /\ Holding(q)'
      <4>1. \A v \in User : state[v] # "absent" => state'[v] # "absent" /\ role'[v] = role[v]
        OBVIOUS
      <4>. QED  BY <3>1, <4>1, OtherKeeps
    <3>3. Inviting(q)' /\ Setting(q)'
      BY <3>1 DEF Inviting, Setting, At, Of, There
    <3>. QED  BY <3>2, <3>3
  <2>2. (AboutUser(r) /\ Inserting(r) /\ Inviting(r) /\ Setting(r) /\ Deleting(r))'
    BY DEF AboutUser, Inserting, Inviting, Setting, Deleting, At
  <2>. QED  BY <2>1, <2>2 DEF RInv
<1>2. OneInvites' /\ Unborn' /\ AdminRemains'
  BY DEF IInv, UInv, OneInvites, Unborn, AdminRemains, At, Of, Known, There
<1>3. OpenIsUnmarked' /\ HasInvite'
  BY DEF IInv, UInv, OpenIsUnmarked, HasInvite, At, Of, There
<1>. QED  BY <1>1, <1>2, <1>3 DEF IInv, UInv

\* A new session has a token that nobody held before.
LEMMA OpenSessionKeeps ==
  ASSUME IInv, NEW r \in Req, NEW u \in User, OpenSession(r, u), work[r].pc \in {"idle", "login"},
         UNCHANGED <<accounts, live, history>>
  PROVE  IInv'
<1>1. PICK s \in Fresh :
        /\ owner' = [owner EXCEPT ![s] = u]
        /\ work' = [work EXCEPT ![r].pc = "answer",
                                ![r].kind = IF At(r, "idle") THEN "login" ELSE @, ![r].session = s]
  BY DEF OpenSession
<1> DEFINE h == [work[r] EXCEPT !.pc = "answer", !.kind = IF At(r, "idle") THEN "login" ELSE @,
                                !.session = s]
<1>2. TypeOK /\ work[r] \in Handler /\ Holding(r) /\ SessionInv
  BY DEF IInv, TypeOK, RInv, UInv
<1>3. s \in Session /\ owner[s] = NULL /\ s \notin live /\ s \notin ended
  BY <1>2 DEF Fresh, SessionInv
<1>4. h \in Handler /\ h.pc = "answer" /\ h.session = s
  BY <1>2, <1>3, PcValues DEF Handler
<1>5. work' = [work EXCEPT ![r] = h]
  BY <1>1, <1>2 DEF TypeOK
<1>6. /\ work' \in [Req -> Handler] /\ work'[r] = h
      /\ \A q \in Req \ {r} : work'[q] = work[q]
  BY <1>2, <1>4, <1>5 DEF TypeOK
<1>7. /\ owner' \in [Session -> User \cup {NULL}] /\ owner'[s] = u /\ u # NULL
      /\ \A t \in Session : owner[t] # NULL => owner'[t] # NULL
  BY <1>1, <1>2, <1>3, NullAssumption DEF TypeOK
<1>8. TypeOK'
  BY <1>2, <1>6, <1>7 DEF TypeOK, accounts, history
<1>9. SessionInv'
  BY <1>2, <1>7 DEF SessionInv, LogoutHolds, TypeOK, history
<1>10. Holding(r)'
  BY <1>2, <1>3, <1>4, <1>6, <1>7 DEF Holding, At, accounts, history
<1>11. \A q \in Req \ {r} : work[q].session \notin ended' \ raced'
  BY DEF IInv, RInv, Holding, history
<1>12. LinkTold'
  BY <1>6 DEF IInv, UInv, LinkTold, Telling, At, Of, There, accounts, history
<1>. QED  BY <1>4, <1>6, <1>7, <1>8, <1>9, <1>10, <1>11, <1>12, SessionKeeps DEF accounts, history

\* A login gives out a token.
LEMMA LoginKeeps == ASSUME IInv, NEW r \in Req, Login(r) PROVE IInv'
BY OpenSessionKeeps DEF Login, At

\* So does the login after setup or an invite, unless it is skipped.
LEMMA AutoLoginKeeps == ASSUME IInv, NEW r \in Req, AutoLogin(r) PROVE IInv'
<1>1. At(r, "login") /\ UNCHANGED <<accounts, live, history>> /\ Of(r) \in User
  BY DEF AutoLogin, IInv, RInv, AboutUser, At
<1>2. CASE OpenSession(r, Of(r))
  BY <1>1, <1>2, OpenSessionKeeps DEF At
<1>3. CASE GoTo(r, "answer") /\ UNCHANGED owner
  <2>1. uninvited \subseteq User /\ unmarked \subseteq User /\ faults \in 0..MaxFaults
    BY DEF IInv, TypeOK
  <2>2. UNCHANGED <<accounts, sessions, history>>
    BY <1>1, <1>3 DEF sessions
  <2>. QED  BY <1>1, <1>3, <2>1, <2>2, LeaveKeeps DEF At, history
<1>. QED  BY <1>2, <1>3 DEF AutoLogin

\* Whoever else holds a session that is logged out makes it a race.
LEMMA DestroyKeeps == ASSUME IInv, NEW r \in Req, Destroy(r) PROVE IInv'
<1> DEFINE s == work[r].session
           h == [work[r] EXCEPT !.pc = "answer", !.session = NULL]
<1>1. /\ At(r, "destroy") /\ live' = live \ {s} /\ ended' = ended \cup {s}
      /\ raced' = IF \E q \in Req \ {r} : work[q].session = s THEN raced \cup {s} ELSE raced
      /\ work' = [work EXCEPT ![r].pc = "answer", ![r].session = NULL]
      /\ UNCHANGED <<accounts, owner, orphaned, uninvited, unmarked, faults>>
  BY DEF Destroy
<1>2. TypeOK /\ work[r] \in Handler /\ Holding(r) /\ SessionInv
  BY DEF IInv, TypeOK, RInv, UInv
<1>3. s \in Session /\ owner[s] # NULL
  BY <1>1, <1>2 DEF Holding, Handler
<1>4. h \in Handler /\ h.pc = "answer" /\ h.session = NULL
  BY <1>2, PcValues DEF Handler
<1>5. work' = [work EXCEPT ![r] = h]
  BY <1>1, <1>2 DEF TypeOK
<1>6. /\ work' \in [Req -> Handler] /\ work'[r] = h
      /\ \A q \in Req \ {r} : work'[q] = work[q]
  BY <1>2, <1>4, <1>5 DEF TypeOK
<1>7. ended' \subseteq Session /\ raced' \subseteq Session /\ live' \subseteq Session
  BY <1>1, <1>2, <1>3 DEF TypeOK
<1>8. TypeOK'
  BY <1>1, <1>2, <1>6, <1>7 DEF TypeOK, accounts
<1>9. SessionInv'
  BY <1>1, <1>2, <1>3 DEF SessionInv, LogoutHolds
<1>10. Holding(r)'
  BY <1>1, <1>2, <1>4, <1>6, <1>7, NullAssumption DEF Holding, At, accounts
<1>11. \A q \in Req \ {r} : work[q].session \notin ended' \ raced'
  BY <1>1 DEF IInv, RInv, Holding
<1>12. LinkTold'
  BY <1>1, <1>6 DEF IInv, UInv, LinkTold, Telling, At, Of, There, accounts
<1>. QED  BY <1>1, <1>4, <1>6, <1>8, <1>9, <1>10, <1>11, <1>12, SessionKeeps DEF At, accounts

\* A session that is saved again was not logged out, or a race; a link that goes
\* out is told.
LEMMA AnswerKeeps == ASSUME IInv, NEW r \in Req, Answer(r) PROVE IInv'
<1>1. /\ At(r, "answer") /\ live' = live \cup ({work[r].session} \ {NULL})
      /\ told' = IF Telling(r) THEN told \cup {u \in {Of(r)} : invite[u] # "none"} ELSE told
      /\ work' = [work EXCEPT ![r] = Idle]
      /\ UNCHANGED <<state, role, password, invite, owner, history>>
  BY DEF Answer
<1>2. TypeOK /\ work[r] \in Handler /\ Holding(r) /\ SessionInv
  BY DEF IInv, TypeOK, RInv, UInv
<1>3. /\ work' \in [Req -> Handler] /\ work'[r] = Idle
      /\ \A q \in Req \ {r} : work'[q] = work[q]
  BY <1>1, <1>2, PcValues DEF TypeOK
<1>4. live' \subseteq Session /\ told' \subseteq User
  BY <1>1, <1>2 DEF TypeOK, Handler, Telling, Of
<1>5. TypeOK'
  BY <1>1, <1>2, <1>3, <1>4 DEF TypeOK, history
<1>6. SessionInv'
  BY <1>1, <1>2 DEF SessionInv, LogoutHolds, Holding, history
<1>7. Holding(r)'
  BY <1>1, <1>2, <1>3, NullAssumption DEF Holding, At, Idle, TypeOK, history
<1>8. \A q \in Req \ {r} : work[q].session \notin ended' \ raced'
  BY <1>1 DEF IInv, RInv, Holding, history
<1>9. LinkTold'
  <2> SUFFICES ASSUME NEW v \in User, There(v), invite[v] # "none"
               PROVE  v \in told' \/ v \in uninvited \/ \E q \in Req : Telling(q)' /\ Of(q)' = v
    BY <1>1 DEF LinkTold, There, history
  <2>1. CASE Telling(r) /\ Of(r) = v
    BY <1>1, <2>1
  <2>2. CASE \E q \in Req \ {r} : Telling(q) /\ Of(q) = v
    BY <1>3, <2>2 DEF Telling, At, Of
  <2>3. CASE v \in told \/ v \in uninvited
    BY <1>1, <2>3
  <2>. QED  BY <2>1, <2>2, <2>3 DEF IInv, UInv, LinkTold
<1>. QED  BY <1>1, <1>3, <1>5, <1>6, <1>7, <1>8, <1>9, SessionKeeps DEF At, Idle, history

-----------------------------------------------------------------------------
(* Deleted users, and the end of the process.                              *)

\* The admin who deletes another user stays, or is on record as deleted.
LEMMA DeleteKeeps == ASSUME IInv, NEW r \in Req, Delete(r) PROVE IInv'
<1>1. /\ At(r, "delete") /\ GoTo(r, "answer")
      /\ UNCHANGED <<role, password, told, sessions, uninvited, unmarked, ended, raced, faults>>
  BY DEF Delete
<1>2. /\ TypeOK /\ AboutUser(r) /\ Deleting(r) /\ Holding(r) /\ Of(r) \in User
      /\ uninvited \subseteq User /\ unmarked \subseteq User /\ faults \in 0..MaxFaults
  BY <1>1 DEF IInv, TypeOK, RInv, AboutUser, At
<1>3. CASE ~There(Of(r))
  <2>1. UNCHANGED <<accounts, orphaned>>
    BY <1>1, <1>3 DEF Delete, accounts
  <2>. QED  BY <1>1, <1>2, <2>1, LeaveKeeps DEF At
<1>4. CASE There(Of(r))
  <2> DEFINE u == Of(r)
  <2>1. /\ state' = [state EXCEPT ![u] = "gone"] /\ invite' = [invite EXCEPT ![u] = "none"]
        /\ orphaned' = IF There(work[r].caller) THEN orphaned ELSE orphaned \cup {u}
    BY <1>4 DEF Delete
  <2>2. /\ state'[u] = "gone" /\ invite'[u] = "none"
        /\ \A v \in User \ {u} : state'[v] = state[v] /\ invite'[v] = invite[v]
    BY <1>2, <2>1 DEF TypeOK
  <2>3. /\ work' \in [Req -> Handler] /\ work'[r].pc = "answer"
        /\ work'[r].session = work[r].session
        /\ \A q \in Req \ {r} : work'[q] = work[q]
    <3>1. "answer" \in Pc
      BY PcValues
    <3>. QED  BY <1>1, <1>2, <3>1, GoToShape
  <2>4. TypeOK'
    BY <1>1, <1>2, <2>1, <2>3 DEF TypeOK, sessions
  <2>5. RInv'
    <3>1. ASSUME NEW q \in Req \ {r}
          PROVE  (/\ AboutUser(q) /\ Inserting(q) /\ Inviting(q) /\ Setting(q)
                  /\ Deleting(q) /\ Holding(q))'
      <4>1. /\ AboutUser(q) /\ Inserting(q) /\ Inviting(q) /\ Setting(q) /\ Deleting(q)
            /\ Holding(q) /\ work'[q] = work[q] /\ work[q] \in Handler
        BY <2>3 DEF IInv, RInv, TypeOK
      <4>2. AboutUser(q)' /\ Inserting(q)' /\ Deleting(q)' /\ Holding(q)'
        <5>1. \A v \in User : state[v] # "absent" => state'[v] # "absent" /\ role'[v] = role[v]
          BY <1>1, <2>2
        <5>2. owner' = owner /\ ended' = ended /\ raced' = raced
          BY <1>1 DEF sessions
        <5>3. work[q].session \notin ended' \ raced'
          BY <4>1, <5>2 DEF Holding
        <5>. QED  BY <2>2, <4>1, <5>1, <5>2, <5>3, OtherKeeps
      <4>3. Of(q)' = Of(q) /\ unmarked' = unmarked /\ password' = password
        BY <1>1, <4>1 DEF Of
      <4>4. CASE work[q].pc \in {"invite", "verify", "set", "use"}
        <5>1. Of(q) \in User
          BY <4>1, <4>4 DEF AboutUser
        <5>2. CASE Of(q) = u
          BY <2>2, <4>1, <4>2, <4>3, <5>2 DEF Inviting, Setting, At, There
        <5>3. CASE Of(q) # u
          BY <2>2, <4>1, <4>2, <4>3, <5>1, <5>3 DEF Inviting, Setting, At, There
        <5>. QED  BY <5>2, <5>3
      <4>5. CASE work[q].pc \notin {"invite", "verify", "set", "use"}
        BY <4>1, <4>2, <4>5 DEF Inviting, Setting, At
      <4>. QED  BY <4>4, <4>5
    <3>2. (AboutUser(r) /\ Inserting(r) /\ Inviting(r) /\ Setting(r) /\ Deleting(r))'
      BY <2>3 DEF AboutUser, Inserting, Inviting, Setting, Deleting, At
    <3>3. Holding(r)'
      BY <1>1, <1>2, <2>2, <2>3 DEF Holding, At, sessions
    <3>. QED  BY <3>1, <3>2, <3>3 DEF RInv
  <2>6. OneInvites'
    BY <2>3 DEF IInv, UInv, OneInvites, At, Of
  <2>7. Unborn'
    BY <1>1, <2>2 DEF IInv, UInv, Unborn
  <2>8. SessionInv'
    BY <1>1 DEF IInv, UInv, SessionInv, LogoutHolds, sessions
  <2>9. OpenIsUnmarked' /\ HasInvite' /\ LinkTold'
    <3>1. \A v \in User : There(v)' => v # u /\ There(v) /\ invite'[v] = invite[v]
      BY <2>2 DEF There
    <3>2. \A q \in Req : At(q, "use") \/ At(q, "invite") \/ At(q, "answer") => work'[q] = work[q]
      BY <1>1, <2>3 DEF At
    <3>3. OpenIsUnmarked'
      BY <1>1, <3>1, <3>2 DEF IInv, UInv, OpenIsUnmarked, At, Of
    <3>4. HasInvite'
      BY <1>1, <3>1, <3>2 DEF IInv, UInv, HasInvite, At, Of
    <3>5. LinkTold'
      BY <1>1, <3>1, <3>2 DEF IInv, UInv, LinkTold, Telling, At, Of
    <3>. QED  BY <3>3, <3>4, <3>5
  <2>10. AdminRemains'
    <3>1. work[r].caller \in User /\ role[work[r].caller] = "admin" /\ work[r].caller # u
      BY <1>1, <1>2 DEF Deleting
    <3>2. CASE There(work[r].caller)
      BY <1>1, <2>2, <3>1, <3>2 DEF AdminRemains, There
    <3>3. CASE ~There(work[r].caller)
      BY <2>1, <3>3 DEF AdminRemains
    <3>. QED  BY <3>2, <3>3
  <2>. QED  BY <2>4, <2>5, <2>6, <2>7, <2>8, <2>9, <2>10 DEF IInv, UInv
<1>. QED  BY <1>3, <1>4

\* What a crash leaves half done is on record.
LEMMA CrashKeeps == ASSUME IInv, Crash PROVE IInv'
<1>1. /\ uninvited' = Uninvited(Req)
      /\ unmarked' = unmarked \cup {Of(r) : r \in {q \in Req : At(q, "use")}}
      /\ work' = [r \in Req |-> Idle] /\ faults < MaxFaults /\ faults' = faults + 1
      /\ UNCHANGED <<accounts, sessions, orphaned, ended, raced>>
  BY DEF Crash, Fail
<1>2. TypeOK /\ \A r \in Req : work'[r] = Idle
  BY <1>1 DEF IInv
<1>3. TypeOK'
  <2>1. uninvited' \subseteq User /\ unmarked' \subseteq User
    BY <1>1, UninvitedUsers DEF IInv, TypeOK, RInv, AboutUser, At
  <2>2. faults' \in 0..MaxFaults /\ work' \in [Req -> Handler]
    BY <1>1, <1>2, BoundAssumption, PcValues DEF TypeOK
  <2>. QED  BY <1>1, <1>2, <2>1, <2>2 DEF TypeOK, accounts, sessions
<1>4. RInv'
  <2>1. NULL \notin ended'
    BY <1>1, <1>2, NullAssumption DEF TypeOK
  <2>. QED  BY <1>2, <2>1 DEF RInv, AboutUser, Inserting, Inviting, Setting, Deleting, Holding, At,
                              Idle
<1>5. OneInvites'
  BY <1>2 DEF OneInvites, At, Idle
<1>6. Unborn' /\ AdminRemains' /\ SessionInv'
  BY <1>1 DEF IInv, UInv, Unborn, AdminRemains, SessionInv, LogoutHolds, Known, There, accounts,
              sessions
<1>7. OpenIsUnmarked' /\ HasInvite' /\ LinkTold'
  <2>1. /\ uninvited \subseteq uninvited'
        /\ \A r \in Req : At(r, "invite") \/ Telling(r) => Of(r) \in uninvited'
    BY <1>1, UninvitedUsers
  <2>. QED  BY <1>1, <2>1 DEF IInv, UInv, OpenIsUnmarked, HasInvite, LinkTold, There, accounts
<1>. QED  BY <1>3, <1>4, <1>5, <1>6, <1>7 DEF IInv, UInv

\* An invite that expires stays one.
LEMMA ExpireKeeps == ASSUME IInv, NEW u \in User, Expire(u) PROVE IInv'
<1>1. /\ invite[u] = "open" /\ invite' = [invite EXCEPT ![u] = "expired"]
      /\ UNCHANGED <<state, role, password, told, sessions, work, history>>
  BY DEF Expire
<1>2. /\ TypeOK /\ invite'[u] = "expired" /\ \A v \in User \ {u} : invite'[v] = invite[v]
      /\ invite' \in [User -> {"none", "open", "expired", "used"}]
  BY <1>1 DEF IInv, TypeOK
<1>3. TypeOK'
  BY <1>1, <1>2 DEF TypeOK, sessions, history
<1>4. RInv'
  <2> SUFFICES ASSUME NEW q \in Req
               PROVE  (/\ AboutUser(q) /\ Inserting(q) /\ Inviting(q) /\ Setting(q)
                       /\ Deleting(q) /\ Holding(q))'
    BY DEF RInv
  <2>1. /\ AboutUser(q) /\ Inserting(q) /\ Inviting(q) /\ Setting(q) /\ Deleting(q)
        /\ Holding(q)
    BY DEF IInv, RInv
  <2>2. AboutUser(q)' /\ Inserting(q)' /\ Deleting(q)' /\ Holding(q)'
    BY <1>1, <2>1 DEF AboutUser, Inserting, Deleting, Holding, At, Of, Known, sessions, history
  <2>3. Inviting(q)'
    BY <1>1, <1>2, <2>1 DEF AboutUser, Inviting, At, Of, There
  <2>4. Setting(q)'
    BY <1>1, <1>2, <2>1 DEF AboutUser, Setting, At, Of, There, history
  <2>. QED  BY <2>2, <2>3, <2>4
<1>5. OneInvites' /\ Unborn' /\ AdminRemains' /\ SessionInv'
  BY <1>1, <1>2 DEF IInv, UInv, OneInvites, Unborn, AdminRemains, SessionInv, LogoutHolds, At, Of,
     Known, There, sessions, history
<1>6. OpenIsUnmarked' /\ HasInvite' /\ LinkTold'
  BY <1>1, <1>2 DEF IInv, UInv, OpenIsUnmarked, HasInvite, LinkTold, Telling, At, Of, There, history
<1>. QED  BY <1>3, <1>4, <1>5, <1>6 DEF IInv, UInv

-----------------------------------------------------------------------------
(* The theorems.                                                           *)

\* Before anybody signs up there is nothing to get wrong.
LEMMA InitIInv == Init => IInv
<1> SUFFICES ASSUME Init PROVE IInv
  OBVIOUS
<1>1. /\ TypeOK /\ \A r \in Req : work[r] = Idle
  BY PcValues, BoundAssumption DEF Init, TypeOK
<1>2. RInv
  BY <1>1, NullAssumption DEF Init, RInv, AboutUser, Inserting, Inviting, Setting, Deleting,
     Holding, At, Idle
<1>3. UInv
  BY <1>1 DEF Init, UInv, OneInvites, Unborn, OpenIsUnmarked, HasInvite, LinkTold, AdminRemains,
     SessionInv, LogoutHolds, At, Idle, Known, There
<1>. QED  BY <1>1, <1>2, <1>3 DEF IInv

\* Every step keeps the invariant.
LEMMA NextIInv == IInv /\ [Next]_vars => IInv'
<1> SUFFICES ASSUME IInv, [Next]_vars PROVE IInv'
  OBVIOUS
<1>1. ASSUME NEW r \in Req, Handle(r) PROVE IInv'
  BY <1>1, CountUsersKeeps, InsertUserKeeps, EmailTakenKeeps, CreateInviteKeeps, GetInviteKeeps,
     SetPasswordKeeps, UseInviteKeeps, UseInviteFailsKeeps, LoginKeeps, AutoLoginKeeps,
     AuthenticateKeeps, CheckPasswordKeeps, DestroyKeeps, DeleteKeeps, AnswerKeeps,
     StatementFailsKeeps, AnswerFailsKeeps
  DEF Handle
<1>2. CASE UNCHANGED vars
  <2>1. TypeOK'
    BY <1>2 DEF IInv, TypeOK, vars, accounts, sessions, history
  <2>2. RInv'
    BY <1>2 DEF IInv, RInv, AboutUser, Inserting, Inviting, Setting, Deleting, Holding, At, Of,
       Known, There, vars, accounts, sessions, history
  <2>3. UInv'
    BY <1>2 DEF IInv, UInv, OneInvites, Unborn, OpenIsUnmarked, HasInvite, LinkTold, AdminRemains,
       SessionInv, LogoutHolds, Telling, At, Of, Known, There, vars, accounts, sessions, history
  <2>. QED  BY <2>1, <2>2, <2>3 DEF IInv
<1>. QED  BY <1>1, <1>2, CrashKeeps, ExpireKeeps DEF Next

\* The inductive invariant holds in every behaviour.
THEOREM Invariance == Spec => []IInv
BY InitIInv, NextIInv, PTL DEF Spec

\* Every variable keeps its type.
THEOREM TypeCorrect == Spec => []TypeOK
<1>1. IInv => TypeOK
  BY DEF IInv
<1>. QED  BY <1>1, Invariance, PTL

\* Delete: the check against deleting oneself keeps an admin, but for deletions
\* in the name of an admin who is gone.
THEOREM AdminAlwaysRemains == Spec => []AdminRemains
<1>1. IInv => AdminRemains
  BY DEF IInv, UInv
<1>. QED  BY <1>1, Invariance, PTL

\* Invites: who is there has a password, or an open invite whose link got out or
\* still will.  The exceptions are invites that expired, and those that could not
\* be inserted or were lost with their answer; the order of password and mark,
\* overlapping requests and a process that dies lock nobody else out.
THEOREM EverybodyHasAWayIn == Spec => []WayIn
<1>1. IInv => WayIn
  <2> SUFFICES ASSUME IInv, NEW u \in User, There(u), password[u] = NULL, u \notin uninvited,
                      ~\E r \in Req : At(r, "invite") /\ Of(r) = u, invite[u] # "expired"
               PROVE  \/ invite[u] = "open" /\ u \in told
                      \/ \E r \in Req : Telling(r) /\ Of(r) = u /\ invite[u] = "open"
    BY DEF WayIn
  <2>1. invite[u] = "open"
    BY DEF IInv, UInv, HasInvite
  <2>2. u \in told \/ \E r \in Req : Telling(r) /\ Of(r) = u
    BY <2>1 DEF IInv, UInv, LinkTold
  <2>. QED  BY <2>1, <2>2
<1>. QED  BY <1>1, Invariance, PTL

\* Service.Logout: a session comes back only through a request that held it.
THEOREM LogoutIsFinal == Spec => []LogoutHolds
<1>1. IInv => LogoutHolds
  BY DEF IInv, UInv, SessionInv
<1>. QED  BY <1>1, Invariance, PTL

\* SetPassword is the only statement that replaces a password: by somebody who
\* knew the old one, in a race, or after an invite that could not be marked.
THEOREM PasswordsAreNotOverwritten == Spec => OverwriteRaced
<1>1. ASSUME IInv, Next, NEW u \in User, password[u] # NULL, password'[u] # password[u]
      PROVE  u \in unmarked \/ \E r \in Req :
               /\ At(r, "set") /\ Of(r) = u
               /\ work[r].saw # password[u] \/ work[r].entitled
  <2>1. PICK r \in Req : SetPassword(r) \/ InsertUser(r)
    BY <1>1 DEF Next, Handle, CountUsers, EmailTaken, CreateInvite, GetInvite, UseInvite,
       UseInviteFails, Login, AutoLogin, Authenticate, CheckPassword, Destroy, Delete, Answer,
       StatementFails, AnswerFails, Expire, Crash, accounts
  <2>2. CASE SetPassword(r)
    <3>1. At(r, "set") /\ Setting(r) /\ Of(r) \in User /\ password \in [User -> Password \cup {NULL}]
      BY <1>1, <2>2 DEF SetPassword, IInv, RInv, AboutUser, At, TypeOK
    <3>2. u = Of(r)
      BY <1>1, <2>2, <3>1 DEF SetPassword
    <3>3. work[r].saw = NULL \/ work[r].entitled \/ u \in unmarked
      BY <3>1, <3>2 DEF Setting
    <3>. QED  BY <1>1, <3>1, <3>2, <3>3
  <2>3. CASE InsertUser(r)
    BY <1>1, <2>3 DEF InsertUser, IInv, TypeOK, UInv, Unborn
  <2>. QED  BY <2>1, <2>2, <2>3
<1>2. IInv /\ [Next]_vars =>
        [\A u \in User :
           password[u] # NULL /\ password'[u] # password[u] =>
             u \in unmarked \/ \E r \in Req :
               /\ At(r, "set") /\ Of(r) = u
               /\ work[r].saw # password[u] \/ work[r].entitled]_vars
  BY <1>1
<1>. QED  BY <1>2, Invariance, PTL DEF Spec, OverwriteRaced

-----------------------------------------------------------------------------
(* The rate limiter in front of the login keeps its bounds and implements  *)
(* SlidingWindow, for every set of keys, limit and window.                 *)

\* The stored lists are finite and short; the bound on what is recent follows.
LimiterIInv ==
  /\ LimiterTypeOK
  /\ \A k \in Key : IsFiniteSet(requests[k])
  /\ StoredIsBounded

\* A part of a finite set is finite and not larger.
LEMMA PartIsBounded ==
  ASSUME NEW S, IsFiniteSet(S), Cardinality(S) <= Limit, NEW T \in SUBSET S
  PROVE  IsFiniteSet(T) /\ Cardinality(T) <= Limit
<1>1. IsFiniteSet(T) /\ Cardinality(T) <= Cardinality(S)
  BY FS_Subset
<1>2. Cardinality(S) \in Nat /\ Cardinality(T) \in Nat
  BY <1>1, FS_CardinalityType
<1>. QED  BY <1>1, <1>2, LimitAssumption

\* One more element in a set with room does not exceed the limit.
LEMMA RoomForOneMore ==
  ASSUME NEW S, IsFiniteSet(S), HasRoom(S), NEW r
  PROVE  IsFiniteSet(S \cup {r}) /\ Cardinality(S \cup {r}) <= Limit
<1>1. /\ IsFiniteSet(S \cup {r})
      /\ Cardinality(S \cup {r}) \in {Cardinality(S), Cardinality(S) + 1}
  BY FS_AddElement
<1>2. Cardinality(S) \in Nat
  BY FS_CardinalityType
<1>. QED  BY <1>1, <1>2, LimitAssumption DEF HasRoom

\* What is recent is part of what is stored.
LEMMA RecentIsPart == ASSUME NEW S PROVE Recent(S) \in SUBSET S
BY DEF Recent

\* The empty map keeps the bounds.
LEMMA LimiterInitIInv == LimiterInit => LimiterIInv
<1> SUFFICES ASSUME LimiterInit PROVE LimiterIInv
  OBVIOUS
<1>1. LimiterTypeOK
  BY WindowAssumption DEF LimiterInit, LimiterTypeOK
<1>2. \A k \in Key : requests[k] = {}
  BY DEF LimiterInit
<1>3. IsFiniteSet({}) /\ Cardinality({}) <= Limit
  BY FS_EmptySet, LimitAssumption
<1>. QED  BY <1>1, <1>2, <1>3 DEF LimiterIInv, StoredIsBounded

\* Letting a request through stores the recent entries and one more.
LEMMA LetThroughIInv ==
  ASSUME LimiterIInv, NEW k \in Key, NEW r \in Request, LetThrough(k, r)
  PROVE  LimiterIInv'
<1>1. LimiterTypeOK'
  BY WindowAssumption, RecentIsPart DEF LimiterIInv, LimiterTypeOK, LetThrough
<1>2. IsFiniteSet(Recent(requests[k]))
  BY PartIsBounded, RecentIsPart DEF LimiterIInv, StoredIsBounded
<1>3. \A l \in Key : IsFiniteSet(requests'[l]) /\ Cardinality(requests'[l]) <= Limit
  BY <1>2, RoomForOneMore DEF LimiterIInv, LimiterTypeOK, StoredIsBounded, LetThrough
<1>. QED  BY <1>1, <1>3 DEF LimiterIInv, StoredIsBounded

\* Each other step stores parts of what was stored.
LEMMA ShrinkIInv ==
  ASSUME LimiterIInv, LimiterTypeOK', \A k \in Key : requests'[k] \in SUBSET requests[k]
  PROVE  LimiterIInv'
BY PartIsBounded DEF LimiterIInv, StoredIsBounded

\* Every step keeps the bounds.
LEMMA LimiterNextIInv == LimiterIInv /\ [LimiterNext]_limiterVars => LimiterIInv'
<1> SUFFICES ASSUME LimiterIInv, [LimiterNext]_limiterVars PROVE LimiterIInv'
  OBVIOUS
<1>1. ASSUME NEW k \in Key, Refuse(k) PROVE LimiterIInv'
  <2>1. LimiterTypeOK'
    BY <1>1, RecentIsPart DEF LimiterIInv, LimiterTypeOK, Refuse
  <2>2. \A l \in Key : requests'[l] \in SUBSET requests[l]
    BY <1>1, RecentIsPart DEF LimiterIInv, LimiterTypeOK, Refuse
  <2>. QED  BY <2>1, <2>2, ShrinkIInv
<1>2. ASSUME NEW k \in Key, NEW r \in Request, LetThrough(k, r) PROVE LimiterIInv'
  BY <1>2, LetThroughIInv
<1>3. CASE Cleanup
  <2>1. LimiterTypeOK' /\ \A k \in Key : requests'[k] \in SUBSET requests[k]
    BY <1>3 DEF LimiterIInv, LimiterTypeOK, Cleanup
  <2>. QED  BY <2>1, ShrinkIInv
<1>4. CASE Elapse
  <2>1. LimiterTypeOK' /\ \A k \in Key : requests'[k] \in SUBSET requests[k]
    BY <1>4, WindowAssumption DEF LimiterIInv, LimiterTypeOK, Elapse
  <2>. QED  BY <2>1, ShrinkIInv
<1>5. CASE UNCHANGED limiterVars
  BY <1>5 DEF limiterVars, LimiterIInv, LimiterTypeOK, StoredIsBounded
<1>. QED  BY <1>1, <1>2, <1>3, <1>4, <1>5 DEF LimiterNext, Allow

\* The bounds on what is stored hold in every reachable state.
THEOREM LimiterInvariance == LimiterSpec => []LimiterIInv
BY LimiterInitIInv, LimiterNextIInv, PTL DEF LimiterSpec

\* Type correctness, for every set of keys, limit and window.
THEOREM LimiterTypeCorrect == LimiterSpec => []LimiterTypeOK
<1>1. LimiterIInv => LimiterTypeOK
  BY DEF LimiterIInv
<1>. QED  BY <1>1, LimiterInvariance, PTL

\* A key stores no more than the limit, stale entries included.
THEOREM MemoryIsBounded == LimiterSpec => []StoredIsBounded
<1>1. LimiterIInv => StoredIsBounded
  BY DEF LimiterIInv
<1>. QED  BY <1>1, LimiterInvariance, PTL

\* No window holds more than the limit.
THEOREM LimitIsKept == LimiterSpec => []AtMostLimit
<1>1. LimiterIInv => AtMostLimit
  BY PartIsBounded, RecentIsPart DEF LimiterIInv, AtMostLimit, StoredIsBounded
<1>. QED  BY <1>1, LimiterInvariance, PTL

-----------------------------------------------------------------------------
(* The refinement.                                                         *)

\* The abstraction counts like this module: both take Cardinality from FiniteSets.
LEMMA SameCount == ASSUME NEW S PROVE Abstract!Cardinality(S) = Cardinality(S)
BY DEF Cardinality, Abstract!Cardinality

\* An empty map is an empty window.
LEMMA RefineInit == LimiterInit => Abstract!Init
BY DEF LimiterInit, Abstract!Init, Recent

\* A request let through is accepted by the window.
LEMMA RefineLetThrough ==
  ASSUME LimiterTypeOK, NEW k \in Key, NEW r \in Request, Unstored(r), LetThrough(k, r)
  PROVE  Abstract!Accept(k, r)
<1> DEFINE mapped == [l \in Key |-> Recent(requests[l])]
<1>1. mapped' = [mapped EXCEPT ![k] = @ \cup {r}]
  <2>1. /\ age' = [age EXCEPT ![r] = 0] /\ age \in [Request -> 0..Window]
        /\ requests' = [requests EXCEPT ![k] = Recent(requests[k]) \cup {r}]
        /\ requests \in [Key -> SUBSET Request]
    BY DEF LetThrough, LimiterTypeOK
  <2>2. ASSUME NEW l \in Key PROVE Recent(requests[l])' =
          IF l = k THEN Recent(requests[k]) \cup {r} ELSE Recent(requests[l])
    <3>1. \A q \in requests[l] : q # r /\ age'[q] = age[q]
      BY <2>1 DEF Unstored
    <3>2. age'[r] = 0 /\ 0 < Window
      BY <2>1, WindowAssumption
    <3>3. CASE l = k
      <4>1. requests'[l] = Recent(requests[k]) \cup {r}
        BY <2>1, <3>3
      <4>. QED  BY <3>1, <3>2, <3>3, <4>1 DEF Recent
    <3>4. CASE l # k
      <4>1. requests'[l] = requests[l]
        BY <2>1, <3>4
      <4>. QED  BY <3>1, <3>4, <4>1 DEF Recent
    <3>. QED  BY <3>3, <3>4
  <2>. QED  BY <2>2
<1>2. \A l \in Key : r \notin mapped[l]
  BY RecentIsPart DEF Unstored
<1>3. Cardinality(mapped[k]) < Limit /\ age' = [age EXCEPT ![r] = 0] /\ answer' = "allowed"
  BY DEF LetThrough, HasRoom
<1>. QED  BY <1>1, <1>2, <1>3, SameCount DEF Abstract!Accept

\* Dropping old entries is invisible: the recent ones stay.
LEMMA RecentTwice == ASSUME NEW S PROVE Recent(Recent(S)) = Recent(S)
BY DEF Recent

\* A refusal is one of the window.
LEMMA RefineRefuse ==
  ASSUME LimiterIInv, NEW k \in Key, Refuse(k)
  PROVE  Abstract!Refuse(k)
<1>1. \A l \in Key : Recent(requests[l])' = Recent(requests[l])
  BY RecentTwice DEF LimiterIInv, LimiterTypeOK, Refuse, Recent
<1>2. ~ HasRoom(Recent(requests[k])) /\ answer' = "refused" /\ age' = age
  BY DEF Refuse
<1>3. Cardinality(Recent(requests[k])) >= Limit
  <2>1. IsFiniteSet(Recent(requests[k]))
    BY PartIsBounded, RecentIsPart DEF LimiterIInv, StoredIsBounded
  <2>. QED  BY <1>2, <2>1, FS_CardinalityType, LimitAssumption DEF HasRoom
<1>. QED  BY <1>1, <1>2, <1>3, SameCount DEF Abstract!Refuse

\* Time passes in both; what leaves the window is still stored.
LEMMA RefineElapse == ASSUME LimiterTypeOK, Elapse PROVE Abstract!Elapse
<1>1. \A r \in Request : age'[r] < Window => age[r] < Window
  BY WindowAssumption DEF LimiterTypeOK, Elapse
<1>2. \A k \in Key : Recent(requests[k])' = {r \in Recent(requests[k]) : age'[r] < Window}
  BY <1>1 DEF LimiterTypeOK, Elapse, Recent
<1>. QED  BY <1>2 DEF Elapse, Abstract!Elapse

\* The cleanup is invisible: it takes keys away that have nothing recent.
LEMMA RefineCleanup == ASSUME LimiterTypeOK, Cleanup PROVE UNCHANGED Abstract!vars
<1>1. \A k \in Key : Recent(requests[k])' = Recent(requests[k])
  BY DEF Cleanup, LimiterTypeOK, Stale, Recent
<1>. QED  BY <1>1 DEF Cleanup, Abstract!vars

\* The limiter implements the sliding window.
THEOREM WindowIsImplemented == LimiterSpec => ImplementsWindow
<1>1. LimiterIInv /\ [LimiterNext]_limiterVars => [Abstract!Next]_(Abstract!vars)
  <2> SUFFICES ASSUME LimiterIInv, [LimiterNext]_limiterVars
               PROVE  Abstract!Next \/ UNCHANGED Abstract!vars
    OBVIOUS
  <2>1. ASSUME NEW k \in Key, Refuse(k) PROVE Abstract!Next
    BY <2>1, RefineRefuse DEF Abstract!Next
  <2>2. ASSUME NEW k \in Key, NEW r \in Request, Unstored(r), LetThrough(k, r)
        PROVE  Abstract!Next
    BY <2>2, RefineLetThrough DEF Abstract!Next, LimiterIInv
  <2>3. CASE Elapse
    BY <2>3, RefineElapse DEF Abstract!Next, LimiterIInv
  <2>4. CASE Cleanup
    BY <2>4, RefineCleanup DEF LimiterIInv
  <2>5. CASE UNCHANGED limiterVars
    BY <2>5 DEF limiterVars, Abstract!vars, Recent
  <2>. QED  BY <2>1, <2>2, <2>3, <2>4, <2>5 DEF LimiterNext, Allow
<1>. QED  BY <1>1, RefineInit, LimiterInvariance, PTL DEF LimiterSpec, ImplementsWindow, Abstract!Spec
=============================================================================
