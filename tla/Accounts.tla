------------------------------- MODULE Accounts -------------------------------
(***************************************************************************)
(* Users, their passwords and invites, and their sessions:                 *)
(* internal/api/auth_handlers.go, internal/api/users.go and                *)
(* internal/auth/auth.go on top of internal/store/sqlite/users.go.         *)
(*                                                                         *)
(* No handler uses a transaction.  Each statement is an action, so that    *)
(* requests interleave between reading a row and writing it.  The session  *)
(* middleware loads a session when a request comes in and saves it again   *)
(* when the answer goes out; a session is known by its token.              *)
(*                                                                         *)
(* Of time there is only that an invite expires some time after it was     *)
(* made.  Left out because nothing hangs on them here: is_active (never    *)
(* cleared), changes of name or email, API tokens, and that a session ends *)
(* by itself when it is not used.                                          *)
(***************************************************************************)
EXTENDS Naturals, FiniteSets

CONSTANTS
  Req,       \* requests that run at the same time; each slot is used again
  User,      \* ids that may be given to users
  Password,  \* passwords that may be chosen
  Session,   \* session tokens that may be generated
  NULL,      \* no user, no password, no session
  MaxFaults  \* bound: failed database calls and crashes in one behaviour

ASSUME NullAssumption  == NULL \notin User /\ NULL \notin Password /\ NULL \notin Session
ASSUME BoundAssumption == MaxFaults \in Nat

VARIABLES
  state,     \* users: "absent" before the INSERT, "gone" after the DELETE
  role,      \* users.role
  password,  \* users.password_hash, NULL if there is none
  invite,    \* the user's row of invite_tokens: "expired" after its time, if unused
  told,      \* users whose invite link was answered; its token is stored nowhere
  owner,     \* the user a session token was given to
  live,      \* the tokens in the sessions table
  work,      \* what the handler of each request holds
  \* history, for the properties only
  orphaned,  \* users deleted in the name of somebody deleted before
  uninvited, \* users whose invite was not inserted, or lost with the answer
  unmarked,  \* users whose accepted invite was not marked as used
  ended,     \* sessions that were logged out
  raced,     \* those that another request held at that moment
  faults     \* failed calls and crashes so far

accounts == <<state, role, password, invite, told>>
sessions == <<owner, live>>
history  == <<orphaned, uninvited, unmarked, ended, raced, faults>>
vars     == <<accounts, sessions, work, history>>

Kind == {"none", "setup", "create", "accept", "change", "delete", "logout", "login"}
Pc   == {"idle", "insert", "invite", "verify", "set", "use", "login", "delete", "destroy", "answer"}

\* caller: whom the middleware let in; user: whom the request is about; session:
\* the token to be saved with the answer.  For the properties: saw is the
\* password in force when the request read the user or the invite, entitled that
\* the request knew it or came while its writer was still being answered.
Handler == [pc : Pc, kind : Kind, caller : User \cup {NULL}, user : User \cup {NULL},
            session : Session \cup {NULL}, pw : Password \cup {NULL},
            saw : Password \cup {NULL}, entitled : BOOLEAN]

Idle == [pc |-> "idle", kind |-> "none", caller |-> NULL, user |-> NULL, session |-> NULL,
         pw |-> NULL, saw |-> NULL, entitled |-> FALSE]

There(u)  == state[u] = "there"
Known     == {u \in User : state[u] # "absent"}
At(r, pc) == work[r].pc = pc
Of(r)     == work[r].user

Fail == faults < MaxFaults /\ faults' = faults + 1

GoTo(r, pc) == work' = [work EXCEPT ![r].pc = pc]

-----------------------------------------------------------------------------
(* First-time setup and POST /users.                                       *)

\* setup goes on if there are no users; otherwise it answers 409.
CountUsers(r) ==
  /\ At(r, "idle")
  /\ \A u \in User : ~There(u)
  /\ \E p \in Password :
       work' = [work EXCEPT ![r] = [Idle EXCEPT !.pc = "insert", !.kind = "setup", !.pw = p]]
  /\ UNCHANGED <<accounts, sessions, history>>

AfterInsert(r) ==
  CASE work[r].kind = "setup" -> "login"
    [] work[r].kind = "create" /\ work[r].pw = NULL -> "invite"
    [] OTHER -> "answer"

\* setup makes an admin; an admin may create users with either role.
InsertUser(r) ==
  /\ At(r, "insert")
  /\ \E u \in User :
       /\ state[u] = "absent"
       /\ state' = [state EXCEPT ![u] = "there"]
       /\ \E as \in IF work[r].kind = "setup" THEN {"admin"} ELSE {"admin", "user"} :
            role' = [role EXCEPT ![u] = as]
       /\ password' = [password EXCEPT ![u] = work[r].pw]
       /\ work' = [work EXCEPT ![r].pc = AfterInsert(r), ![r].user = u]
  /\ UNCHANGED <<invite, told, sessions, history>>

\* The unique index on the email address refuses the row.
EmailTaken(r) ==
  /\ At(r, "insert")
  /\ \E u \in User : There(u)
  /\ GoTo(r, "answer")
  /\ UNCHANGED <<accounts, sessions, history>>

\* generateInvite, for a user without a password.  If the user is gone again
\* the foreign key refuses the row.
CreateInvite(r) ==
  /\ At(r, "invite")
  /\ invite' = IF There(Of(r)) THEN [invite EXCEPT ![Of(r)] = "open"] ELSE invite
  /\ GoTo(r, "answer")
  /\ UNCHANGED <<state, role, password, told, sessions, history>>

\* A request whose answer carries an invite link.
Telling(r) ==
  At(r, "answer") /\ work[r].kind = "create" /\ work[r].pw = NULL /\ Of(r) # NULL

\* Seven days after it was made an invite that is not used is no longer accepted.
Expire(u) ==
  /\ invite[u] = "open"
  /\ invite' = [invite EXCEPT ![u] = "expired"]
  /\ UNCHANGED <<state, role, password, told, sessions, work, history>>

-----------------------------------------------------------------------------
(* Accepting an invite.                                                    *)

\* A request that has written u's password and is not answered yet.
Writing(u) == \E q \in Req : Of(q) = u /\ work[q].pc \in {"use", "login", "answer"}

\* Mutation: the invite is marked before the password is set.
GetInvite_MarksFirst(r) ==
  /\ At(r, "idle")
  /\ \E u \in User : \E p \in Password :
       /\ There(u) /\ u \in told /\ invite[u] = "open"
       /\ invite' = [invite EXCEPT ![u] = "used"]
       /\ work' = [work EXCEPT ![r] =
            [Idle EXCEPT !.pc = "set", !.kind = "accept", !.user = u, !.pw = p,
                         !.saw = password[u], !.entitled = Writing(u)]]
  /\ UNCHANGED <<state, role, password, told, sessions, history>>

\* GetInviteTokenByHash, by who has the link: only an invite that is neither used
\* nor expired goes on.
GetInvite(r) ==
  /\ At(r, "idle")
  /\ \E u \in User : \E p \in Password :
       /\ There(u) /\ u \in told /\ invite[u] = "open"
       /\ work' = [work EXCEPT ![r] =
            [Idle EXCEPT !.pc = "set", !.kind = "accept", !.user = u, !.pw = p,
                         !.saw = password[u], !.entitled = Writing(u)]]
  /\ UNCHANGED <<accounts, sessions, history>>

\* SetPassword, of an accepted invite or a change: it asks for the id only.
SetPassword(r) ==
  /\ At(r, "set")
  /\ IF There(Of(r))
       THEN /\ password' = [password EXCEPT ![Of(r)] = work[r].pw]
            /\ GoTo(r, IF work[r].kind = "accept" THEN "use" ELSE "answer")
       ELSE UNCHANGED password /\ GoTo(r, "answer")
  /\ UNCHANGED <<state, role, invite, told, sessions, history>>

\* UseInviteToken, also of one that has expired meanwhile; that it is used
\* already, or gone, is not an error.
UseInvite(r) ==
  /\ At(r, "use")
  /\ invite' = IF invite[Of(r)] = "none" THEN invite ELSE [invite EXCEPT ![Of(r)] = "used"]
  /\ GoTo(r, "login")
  /\ UNCHANGED <<state, role, password, told, sessions, history>>

\* The error is dropped: "Password was set but token mark failed".
UseInviteFails(r) ==
  /\ At(r, "use")
  /\ Fail
  /\ unmarked' = unmarked \cup {Of(r)}
  /\ GoTo(r, "login")
  /\ UNCHANGED <<accounts, sessions, orphaned, uninvited, ended, raced>>

-----------------------------------------------------------------------------
(* Sessions.                                                               *)

\* Tokens that were not given out yet.
Fresh == {s \in Session : owner[s] = NULL}

\* Service.Login has found the password right: the session gets a new token,
\* which is saved with the answer.
OpenSession(r, u) ==
  \E s \in Fresh :
    /\ owner' = [owner EXCEPT ![s] = u]
    /\ work' = [work EXCEPT ![r].pc = "answer", ![r].kind = IF At(r, "idle") THEN "login" ELSE @,
                            ![r].session = s]

\* A wrong password changes nothing and is left out.
Login(r) ==
  /\ At(r, "idle")
  /\ \E u \in User : There(u) /\ password[u] # NULL /\ OpenSession(r, u)
  /\ UNCHANGED <<accounts, live, history>>

\* After setup and after an invite.  The password may be another one by now,
\* or the user gone; the answer then goes out without a session.
AutoLogin(r) ==
  /\ At(r, "login")
  /\ IF There(Of(r)) /\ password[Of(r)] = work[r].pw /\ Fresh # {}
       THEN OpenSession(r, Of(r))
       ELSE GoTo(r, "answer") /\ UNCHANGED owner
  /\ UNCHANGED <<accounts, live, history>>

\* Mutation: one may delete oneself.
Deletable_Self(u) == Known

\* Whom an admin may delete: "cannot delete your own account".
Deletable(u) == Known \ {u}

\* LoadAndSave loads the session, CurrentUser reads its user; only admins write
\* users.
Authenticate(r) ==
  /\ At(r, "idle")
  /\ \E s \in live :
       LET u == owner[s]
           In == [Idle EXCEPT !.caller = u, !.session = s] IN
       /\ There(u)
       /\ \/ role[u] = "admin" /\ \E p \in Password \cup {NULL} :
               work' = [work EXCEPT ![r] = [In EXCEPT !.pc = "insert", !.kind = "create", !.pw = p]]
          \/ role[u] = "admin" /\ \E v \in Deletable(u) :
               work' = [work EXCEPT ![r] = [In EXCEPT !.pc = "delete", !.kind = "delete", !.user = v]]
          \/ \E p \in Password :
               work' = [work EXCEPT ![r] =
                 [In EXCEPT !.pc = "verify", !.kind = "change", !.user = u, !.pw = p]]
          \/ work' = [work EXCEPT ![r] = [In EXCEPT !.pc = "destroy", !.kind = "logout"]]
  /\ UNCHANGED <<accounts, sessions, history>>

\* Mutation: the current password is not asked for.
CheckPassword_Skipped(r) ==
  /\ At(r, "verify")
  /\ work' = [work EXCEPT ![r].pc = "set", ![r].saw = password[Of(r)]]
  /\ UNCHANGED <<accounts, sessions, history>>

\* changePassword reads the row again and compares the current password; a
\* wrong one, or no row, is answered with an error.
CheckPassword(r) ==
  /\ At(r, "verify")
  /\ \/ /\ There(Of(r)) /\ password[Of(r)] # NULL
        /\ work' = [work EXCEPT ![r].pc = "set", ![r].saw = password[Of(r)], ![r].entitled = TRUE]
     \/ GoTo(r, "answer")
  /\ UNCHANGED <<accounts, sessions, history>>

\* Mutation: the session that was destroyed is saved with the answer.
Destroy_Saved(r) ==
  /\ At(r, "destroy")
  /\ LET s == work[r].session IN
       /\ live' = live \ {s}
       /\ ended' = ended \cup {s}
       /\ raced' = IF \E q \in Req \ {r} : work[q].session = s THEN raced \cup {s} ELSE raced
  /\ GoTo(r, "answer")
  /\ UNCHANGED <<accounts, owner, orphaned, uninvited, unmarked, faults>>

\* Service.Logout: the row of the session goes, and the answer saves none.
Destroy(r) ==
  /\ At(r, "destroy")
  /\ LET s == work[r].session IN
       /\ live' = live \ {s}
       /\ ended' = ended \cup {s}
       /\ raced' = IF \E q \in Req \ {r} : work[q].session = s THEN raced \cup {s} ELSE raced
  /\ work' = [work EXCEPT ![r].pc = "answer", ![r].session = NULL]
  /\ UNCHANGED <<accounts, owner, orphaned, uninvited, unmarked, faults>>

\* The session is saved with every answer, for its idle timeout: also one that
\* was loaded before and whose row has been deleted meanwhile.  An invite that was
\* inserted reaches the admin with it.
Answer(r) ==
  /\ At(r, "answer")
  /\ told' = IF Telling(r) THEN told \cup {u \in {Of(r)} : invite[u] # "none"} ELSE told
  /\ live' = live \cup ({work[r].session} \ {NULL})
  /\ work' = [work EXCEPT ![r] = Idle]
  /\ UNCHANGED <<state, role, password, invite, owner, history>>

-----------------------------------------------------------------------------
(* DELETE /users/{id}, failures.                                           *)

\* The invite goes with the user, the session of the user stays.
Delete(r) ==
  /\ At(r, "delete")
  /\ IF There(Of(r))
       THEN /\ state' = [state EXCEPT ![Of(r)] = "gone"]
            /\ invite' = [invite EXCEPT ![Of(r)] = "none"]
            /\ orphaned' = IF There(work[r].caller) THEN orphaned ELSE orphaned \cup {Of(r)}
       ELSE UNCHANGED <<state, invite, orphaned>>
  /\ GoTo(r, "answer")
  /\ UNCHANGED <<role, password, told, sessions, uninvited, unmarked, ended, raced, faults>>

Uninvited(R) == uninvited \cup {Of(r) : r \in {q \in R : At(q, "invite") \/ Telling(q)}}

\* Any other statement fails: the handler answers with an error, or in
\* generateInvite with a user who has no invite.
StatementFails(r) ==
  /\ Fail
  /\ work[r].pc \notin {"idle", "use", "answer"}
  /\ uninvited' = Uninvited({r})
  /\ GoTo(r, "answer")
  /\ UNCHANGED <<accounts, sessions, orphaned, unmarked, ended, raced>>

\* The session store refuses the commit, or the client is gone: it gets neither the
\* session nor what the answer says.
AnswerFails(r) ==
  /\ Fail
  /\ At(r, "answer")
  /\ uninvited' = Uninvited({r})
  /\ work' = [work EXCEPT ![r] = Idle]
  /\ UNCHANGED <<accounts, sessions, orphaned, unmarked, ended, raced>>

\* The process ends with its requests and is started again.
Crash ==
  /\ Fail
  /\ uninvited' = Uninvited(Req)
  /\ unmarked' = unmarked \cup {Of(r) : r \in {q \in Req : At(q, "use")}}
  /\ work' = [r \in Req |-> Idle]
  /\ UNCHANGED <<accounts, sessions, orphaned, ended, raced>>

-----------------------------------------------------------------------------

Init ==
  /\ state     = [u \in User |-> "absent"]
  /\ role      = [u \in User |-> "user"]
  /\ password  = [u \in User |-> NULL]
  /\ invite    = [u \in User |-> "none"]
  /\ told      = {}
  /\ owner     = [s \in Session |-> NULL]
  /\ live      = {}
  /\ work      = [r \in Req |-> Idle]
  /\ orphaned  = {}
  /\ uninvited = {}
  /\ unmarked  = {}
  /\ ended     = {}
  /\ raced     = {}
  /\ faults    = 0

Handle(r) ==
  \/ CountUsers(r) \/ InsertUser(r) \/ EmailTaken(r) \/ CreateInvite(r)
  \/ GetInvite(r) \/ SetPassword(r) \/ UseInvite(r) \/ UseInviteFails(r)
  \/ Login(r) \/ AutoLogin(r) \/ Authenticate(r) \/ CheckPassword(r) \/ Destroy(r)
  \/ Delete(r) \/ Answer(r) \/ StatementFails(r) \/ AnswerFails(r)

Next == (\E r \in Req : Handle(r)) \/ (\E u \in User : Expire(u)) \/ Crash

Spec == Init /\ [][Next]_vars

-----------------------------------------------------------------------------
(* Properties.                                                             *)

\* Every variable has its type.
TypeOK ==
  /\ state \in [User -> {"absent", "there", "gone"}]
  /\ role \in [User -> {"admin", "user"}]
  /\ password \in [User -> Password \cup {NULL}]
  /\ invite \in [User -> {"none", "open", "expired", "used"}]
  /\ told \subseteq User
  /\ owner \in [Session -> User \cup {NULL}]
  /\ live \subseteq Session
  /\ work \in [Req -> Handler]
  /\ orphaned \subseteq User /\ uninvited \subseteq User /\ unmarked \subseteq User
  /\ ended \subseteq Session /\ raced \subseteq Session
  /\ faults \in 0..MaxFaults

\* What the comment and the API's documentation say of setup, and the code does not
\* keep when two requests overlap: it makes an admin only if there are no users.
SetupOnlyWhenEmpty ==
  [][\A r \in Req :
       At(r, "insert") /\ work[r].kind = "setup" /\ work'[r].user # NULL =>
         \A u \in User : ~There(u)]_vars

\* Once set up, the system keeps an admin: the last one goes only when somebody
\* is deleted in the name of an admin who had been deleted under the request.
AdminRemains ==
  Known # {} => (\E u \in User : There(u) /\ role[u] = "admin") \/ orphaned # {}

\* Everybody who is there can come in: with a password, or with an invite that is
\* open and whose link was answered or is about to be.  Locked out, as nothing
\* renews an invite, is who lets it expire, or whose invite could not be inserted
\* or was lost with its answer.  An invite is used up only after the password was
\* set, also when the process dies in between.
WayIn ==
  \A u \in User :
    There(u) /\ password[u] = NULL =>
      \/ invite[u] = "open" /\ u \in told
      \/ invite[u] = "expired"
      \/ u \in uninvited
      \/ \E r \in Req : At(r, "invite") /\ Of(r) = u
      \/ \E r \in Req : Telling(r) /\ Of(r) = u /\ invite[u] = "open"

\* What the changelog says of invites, and the code does not keep when two requests
\* accept one together or its mark fails: an invite sets a password once.  Invites
\* are for users without a password, so the first one it sets ends that.
InviteIsSingleUse ==
  [][\A r \in Req :
       At(r, "set") /\ work[r].kind = "accept" /\ work'[r].pc = "use" =>
         password[Of(r)] = NULL]_vars

\* A password is replaced only by who proved to know it, by a request that ran
\* at the same time as the one that set it, or through an invite that could not
\* be marked: an accepted invite is not good for another password.
OverwriteRaced ==
  [][\A u \in User :
       password[u] # NULL /\ password'[u] # password[u] =>
         u \in unmarked \/ \E r \in Req :
           /\ At(r, "set") /\ Of(r) = u
           /\ work[r].saw # password[u] \/ work[r].entitled]_vars

\* A session stays logged out, unless a request with the same session was
\* running at that moment.
LogoutHolds == live \cap ended \subseteq raced
=============================================================================
