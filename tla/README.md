# PageFire in TLA+

PageFire is an on-call server: alerts come in over HTTP, are escalated step by
step along a frozen policy, and page people through a queue of notifications.
This directory models that program, checks the models with TLC on small
instances and proves theorems about them with TLAPS. Every definition follows
the Go source under `src/`; `PROJECT.json` gives the lines each one stands for.

## The system

One process serves the API and runs the engine; both work on one SQLite
database. Handlers run concurrently. The engine is one goroutine that runs its
processors in order every five seconds (`engine/engine.go`): escalation,
notification, cleanup. There are hardly any transactions: each SQL statement
is atomic, a handler or a tick is not. What a tick has read it keeps in memory
while handlers write. A crash or a shutdown (which closes the database without
waiting for the engine) can fall between any two statements.

| part | state | operations | meets | what makes it correct |
|---|---|---|---|---|
| escalation processor | batch of due alerts, current alert | tick: read due alerts; per alert run a step, enqueue pages, advance or exhaust | API closes and deletes the alerts it holds; crash in a step | never off the ladder, no step skipped or early, closed alerts come to rest, every escalation ends |
| one step of it | users found, rules and contact methods read, pages enqueued | targets to users, users to rules, rules to contact methods, INSERT | edits of users, contact methods and rules between any two queries | everybody who is owed a page gets it, nobody else, a failure costs only what it failed for |
| notification processor, queue | rows with status, attempts, time of the next attempt | mark, call provider, mark sent / failed / retry | purges; crash between marks; provider errors | calls bounded and counted, no call after success, backoffs kept, everything settles |
| alert intake | alerts with keys, groups, timers | POST /alerts, generic, Grafana and Prometheus webhooks over `alertStore.Create` | each other, resolve, purge, service deletion | one active alert per key, one that pages per group, no firing alert lost |
| routing, services, policies | rules by priority, a service's policy, steps and targets | edits; `routeAlert`, then `GetFullPolicy` | edits between its queries | the first match wins, the copy on the alert keeps what stood, a refusal has a cause |
| on-call resolver, schedules | rotations, participants, overrides | who is on call at a time | edits between its queries | shifts in turn, somebody answers, nobody answers without a reason |
| incidents | the row, its timeline | create, update, timeline | each other; a statement that fails half way | no status undone by an older one, an edit is lost only to a race |
| rate limiter | accepted times per key | allow, cleanup | requests, the cleanup goroutine | no window holds more than the limit, forgetting changes no answer, memory is bounded |
| engine loop | whose tick runs | one processor after the other | crash, restart, a processor that fails | what each processor assumes of the others; nobody waits for ever |
| cleanup | a tick counter | purge alerts, notifications, overrides | the queue's drain, restarts | nothing that is in use is purged; purges happen |
| accounts | users, passwords, invites, sessions | setup, login, logout, invite, password change, delete | each other; a crash between two statements | an admin remains, nobody is locked out by a race or a crash, a logout is final |
| teams, providers, configuration, web interface | | | | see "Not modelled" |

The list of what is hard to test in this code, line by line with the
properties that cover it, is `hazards` in `PROJECT.json`. Two lines hold for
most of it: a handler is several statements, so what it has read may be gone
when it writes; and errors of single statements are often logged and passed
over, so each may fail on its own.

## The modules

All are written alike. The rows of the tables and the local variables of the
handler are VARIABLES, one SQL statement or provider call is one action, and
columns that no statement changes are CONSTANTS. Variables under "history" are
read by properties and bounds only. A definition `Name_Something` above `Name`
is `Name` with a plausible mistake, which no specification uses: each property
that holds was seen to fail with one of them.

```
alert intake  --snapshot-->  escalation  --pages-->  notification queue --> providers
 AlertIntake                 Escalation              NotificationQueue
   |  PolicySnapshot           |  Paging: one step     |
 RateLimiter                   |  OnCall: a schedule   |
                               +------- PageFire ------+
                                 engine loop, cleanup
```

### Escalation

`Escalation.tla` is `EscalationProcessor` on the alerts table. `status`, `pos`
(the pair loop_count, escalation_step) and `next` are the row; `batch` holds,
for each alert the tick has read and not finished, the position that was read;
`cur` and `todo` are the alert in hand and the pages of its step not enqueued
yet. `StartTick` is `FindPendingEscalations`. Per alert one of `SkipEmpty`,
`FinishExhausted` or `BeginStep` follows, then an `Enqueue` or `EnqueueFails`
per page and `AdvanceStep` or `UpdateFails`. Meanwhile `Create`,
`Acknowledge`, `Resolve` and `DeleteService` change rows (`DeleteService` also
stands for the purge, which removes fewer rows), `Elapse` lets a minute go by,
and `Crash` drops what the engine holds. Targets, rules and contact methods
come together in a `Page`; which pages find a recipient is any subset, as the
schedules and users may have been edited at any time.

Time is kept as the time that is left: `next[a] = 0` says that
`next_escalation_at` has come.

### Paging

`Paging.tla` is what `Escalation` takes as a list of pages: the middle of
`processAlert`. `ResolveTarget` reads one target (a user, or a schedule, which the
resolver answers for with any users there are), `ListNotificationRules` the
rules of one user found, `ListContactMethods` the methods for one rule, and
`Enqueue` writes one row. Each has its failing twin, which the code logs and
passes over (`ResolveFails`, `RulesFail`, `MethodsFail`, `EnqueueFails`). The
actions under `Administrate` add and delete users, contact methods and rules,
with the cascades of the schema. `stood` and `seen` are the rows that were
there at all, or at some, moments of the step.

### NotificationQueue

`NotificationQueue.tla` is the queue and the drain. A notification goes
through `MarkSending`, `Dispatch`, then `MarkSent`, `MarkFailed` or `Retry`;
`MarkSendingFails`, `MarkFails` and `Crash` may come between. `Enqueue` and the
purges need an idle drain because they run on the same goroutine. `created`
ranks the rows for the ORDER BY of `FindPending`; rows of one second share a
rank. `wait` is the time left until `next_attempt_at`.

### PageFire

`PageFire.tla` composes the two: one goroutine runs the processors in turn
(`turn`), on one database. `Escalation` and `NotificationQueue` are instances
whose actions it uses, on shared variables: the queue of `Escalation` is the
set of rows `NotificationQueue` has (`Queued`), and `up` is one for both.
`Escalate`, `Notify` and the purges are the first statements of the three
`Tick`s; a processor begins when the one before it is done. `Enqueue` is an
`Enqueue` of both modules. `PurgeResolvedAlerts` deletes alerts and their rows
in one transaction; `SkipCleanup` counts ticks, `Crash` forgets the count.
`ReadFails` and `PurgeFails` are failures that belong to neither processor;
`MayFail` bounds all failures together. Here a property of the composition says
that the two modules were right to be written separately
(`ImplementsComponents`), and others say what neither can say alone.

### AlertIntake

`AlertIntake.tla` is how requests become alerts of one service. A request is
at one of the statements of `Create` (`work[r].pc`): the SELECT for its key,
the SELECT for its group, the INSERT, the second SELECT for its key, the read
of the existing alert, the event in the log. Each of them can fail once per
fault. A payload is the sequence of alerts in it: only Prometheus sends
several. `origin` and `result` record what a request had seen when it began.

### PolicySnapshot

`PolicySnapshot.tla` is what happens before that INSERT: which policy an alert
gets, and the copy of it. `GetService`, `RouteAlert`, `GetPolicy`, `ListSteps`
and `ListStepTargets` are its queries; `RulesFail` is the one failure the code
ignores. The actions under `Administrate` edit policies, steps, targets, rules
and the service. Which rules match an alert is an input of the request. The
policy a service names need not exist: nothing checks that column.

### OnCall

`OnCall.tla` is `Resolver.Resolve`. `ShiftDuration`, `OnShift` and the order in
which overrides replace people are operators; `ListRotations`,
`ListParticipants`, `ListActiveOverrides` and `GetUser` are its queries, and
`Edit` is every change of schedules, rotations, participants, overrides and
users. Between calls nothing is kept. Durations are those of Go's `time.Duration`: a
difference of times stops at the largest one (`Elapsed`), the product of a
`shift_length` with its unit wraps around (`Wrap`). Times count from the year 1,
which is the start of a rotation created without `start_time`.

### Incidents

`Incidents.tla` is one incident under concurrent requests. A PUT is one
statement. An update of the timeline that carries a status is three:
`CreateUpdate`, `Get` and `Sync`, which writes the whole row back. A column
holds the request that supplied its value, so that "lost" can be said.

### Accounts

`Accounts.tla` is users, invites, passwords and sessions. A request is at one
of the statements of its handler (`work[r].pc`): `CountUsers` and `InsertUser`
of setup and of POST /users, `CreateInvite`; `GetInvite`, `SetPassword`,
`UseInvite` and `AutoLogin` of an accepted invite; `CheckPassword` and
`SetPassword` of a changed password; `Delete`; `Login` and `Destroy` of
sessions. `Authenticate` is the middleware: it loads the session and the user
when the request comes in, and what it found is not looked at again. `Answer`
saves the session once more, as the session library does on every answer when
an idle timeout is set. The link of an invite is in one answer and nowhere else
(`told`), so only who got it can accept; `Expire` is the end of its seven days. A user that was deleted is "gone" for good: ids are
not used again.

### RateLimiter and SlidingWindow

`RateLimiter.tla` has one action per outcome of `Allow` and one for a round of
the cleanup goroutine; each holds the mutex. A stored time is its age, counted
up to the window. `SlidingWindow.tla` is the promise: it forgets a request the
moment it leaves the window. `RateLimiter` implements it with
`accepted[k] = Recent(requests[k])`.

## What the runs check

| run | instance | shows |
|---|---|---|
| `escalation` | two alerts, one under a policy of two steps with delays, two pages and one repetition, one under a policy without steps; one fault | ladder, steps, delays, repeats and late steps; every escalation nobody closes runs out |
| `escalation_acknowledged` | the same, no fault | **violated**: pages are queued after the acknowledgement |
| `queue` | two notifications, batches of one, three attempts, two faults | calls, statuses and backoffs; every notification settles unless a fault stranded it |
| `alerts` | intake: two requests of any kind, one key, one group, Prometheus payloads up to two, one fault. Paging: a schedule and a user as targets, three contact methods, four rules of which one names somebody else's, two edits in a step | keys, groups, duplicates and losses; who is paged by one step |
| `intake_group_race` | two requests, no fault | **violated**: two alerts of one group page |
| `api` | policies: two, three rules with a tie, three steps two of which compete for a number, two targets, one edit in a request. An incident: three requests of any kind. The limiter: two keys, two requests in a window of three units | routing and the copy of the policy; status, timeline and lost edits; the refinement of the sliding window, what is stored, that silent keys are forgotten |
| `oncall` | three users, two rotations of two positions (shifts of a day, and of 17 hours that overflow to one), two overlapping overrides, one edit in a call, any query fails | shifts, answers, errors, overrides |
| `oncall_rotate` | a rotation without `start_time` | **violated**: it does not rotate |
| `accounts` | two concurrent requests, each used again without limit, two users, passwords and sessions, one fault | admins, invites, passwords, logout |
| `accounts_setup` | the same, no fault | **violated**: two setups make two admins |
| `accounts_invite` | the same, no fault | **violated**: one invite sets two passwords |
| `pagefire` | one alert, a step with one page and a delay, drains of one row, two attempts, a cleanup every second tick, one failure anywhere | the refinement of both processors' modules, how long an escalation waits, that somebody is called, that old alerts go |

`MCAlerts` and `MCApi` check components that share no state: `part`, chosen at
the beginning, says whose behaviour it is, and the variables of the others stay
at their initial values. So nothing is interleaved that does not interact, and
each component is explored as far as in an instance of its own.

The violated runs are disagreements of the code with what its documents or
comments say; `findings` in `PROJECT.json` quotes them.

The properties that hold, in words:

- `BatchIsCurrent`: the position a tick writes from is still the row's.
  `UpdateEscalationStep` has no version check, so this is what keeps it from
  overwriting a position it has not read.
- `NoSilentSkip`, `DelayIsHonoured`: each page of each step passed was queued,
  or its failure was seen by the run that passed it; no step starts before the
  delay of the one before it is over.
- `AtMostOneLateStep`, `LatePagesOfOneStep`: what the tick still does to an
  alert that was just closed is bounded by the step it was at. The late UPDATE
  arms the timer of a closed alert; only the status test of
  `FindPendingEscalations` keeps that from going on.
- `RepeatsArePaidFor`, `EscalationRunsOut`: steps that page twice need a fault
  each, and every escalation nobody closes, under a policy with steps, comes to
  rest.
- `StandingRuleIsPaged`, `PagesAreOwed`: a step pages every rule that stood
  while it was executed, once for each target that names its user; a failure
  costs only the target, user or page it befell; and no page goes to an address
  that a rule of its own user did not name.
- `FinalStatusIsTrue`, `NoCallAfterSuccess`: the final statuses of the queue
  are true, and a provider that took a notification is not called again,
  because a row leaves `pending` before the call. The price is
  `StrandedOnlyByFaults`: each fault may leave one row in `sending`, and nothing
  else does.
- `BackoffIsHonoured`, `PendingSettles`: retries keep their distance; every
  notification ends.
- `OneActivePerKey`, `DuplicateWasActive`, `LossHasCause`: one active alert per
  key; a duplicate is answered with an alert that was active while the request
  ran; a firing alert is turned away only for a fault, a deleted service or an
  alert with its key that was closed under it.
- `SuppressionIsJustified`, `GroupPagesOnce`: an alert is suppressed only
  beside one that was active while it came in, and a second alert of an active
  group pages only if the two requests overlapped or a SELECT failed.
- `FirstMatchWins`, `StandingStepIsKept`: no rule that stood and matched is
  passed over for a later one, and the copy of a policy keeps every step and
  target that stood while it was made. `ErrorHasCause`: an alert is refused for
  a failed query, or a service or policy that was gone; nothing else.
- `ShiftsInTurn`: the index arithmetic of rotations, against a definition that
  has no modulus: first participant first, one shift later the next one, as long
  as the time since the start and one more shift fit into a `time.Duration` (292
  years). Outside that range it is false, and so is `RotationsRotate`, which has
  no such condition.
- `SomebodyAnswers`, `EverybodyHasAReason`, `StandingOverrideHolds` and
  `ErrorHasCause` of `OnCall`: an answer is torn between versions of the
  tables, and these are what it can still promise. The order of overrides is in
  `StandingOverrideHolds`: whom a standing override replaces can be put back
  only by an override that does not start before it.
- `StatusIsRecent`, `LostEditsRaced`: a status is not undone by an older one,
  and the timeline explains it also when a statement failed half way; a PUT is
  lost only to an update that overlapped it.
- `ImplementsWindow`, `SilentKeysAreForgotten`: the limiter lets through and
  refuses what a limiter that never forgets would, and it forgets.
  `StoredIsBounded`: a key that is refused at every moment stores no more.
- `ImplementsComponents`: every behaviour of the engine is one of `Escalation`
  and one of `NotificationQueue`. What those assume of each other, that rows
  are inserted and purged between two drains only and that pages stay where
  they were put, holds because one goroutine runs both and the cleanup.
- `DelayIsOneDrain`, `FirstStepIsCalled`: providers are called on the engine's
  goroutine, so a slow one delays every escalation; by one drain and no more.
  An alert that nobody closes gets a provider called for each page of its first
  step, unless a failure took the page and is on record.
- `OldAlertsGo`: the count of ticks does not survive a restart, yet a process
  that stays up purges alerts that were resolved long ago. Rows that were left
  in `sending` go with them.
- `SetupOnlyWhenEmpty` is violated: counting the users and inserting the admin
  are two statements, so two first requests may both make an admin.
- `AdminRemains`: nobody deletes himself, so the last admin stays, unless
  somebody is deleted in the name of an admin who was deleted under the
  request. Two admins who delete each other at once leave none.
- `WayIn`: who is there has a password, or an open invite whose link was
  answered or is about to be, wherever requests overlap and the process dies.
  Who let the invite expire, or whose invite could not be inserted or was lost
  with its answer, has none: no endpoint makes another.
- `OverwriteRaced`: a password is replaced only by who proved to know it, by a
  request that overlapped the one that set it, or through an invite whose mark
  failed, an error the code drops. `InviteIsSingleUse`, which says of invites
  what the changelog says, is violated by the overlap.
- `LogoutHolds`: a session comes back after logout only through a request that
  held it at that moment and saved it again.

### Bounds

`MaxFaults` bounds failed calls and crashes in a behaviour: one lets every
single failure fall at every place, two let the repair of one be hit by
another. Where a module has no such bound (`Paging`, `OnCall`,
`PolicySnapshot`, `Incidents`) any number of statements may fail. `MaxDelay`
and `MaxWait` are the longest waits, elapsed time is counted up to them.
`MaxEdits` bounds edits while one question is being answered, not between
questions, so the tables take every shape their rows allow: one edit separates
any two queries, two make and remove what a step is looking for. Two alerts,
notifications or requests are what the races need: each is between one holder
of a stale read and one writer; the batch of one makes two notifications
compete. `Incidents` has three requests because a PUT that is lost and a status
that is undone need an overlap and a request after it. A policy of two steps
with one repetition has every boundary of the exhaustion test: inside the
ladder, its end with and without repetitions left. `MaxItems = 2` gives a
Prometheus payload a predecessor whose alert the second meets. `Limit` is two
and `Window` three units: an entry is fresh, old, or exactly one window old.
`Request` is one more than can be stored at a time. `Time`, `From` and `Until`
put the time asked for before, on and behind the start of a rotation, and on
the start, inside and on the end of an override, and once further from the
start than the largest duration, which `MaxDuration = 7` puts within reach;
`MaxRepeat` of
`PolicySnapshot` is zero because the column is only copied there.

`accounts` has two requests at a time, used again and again: each race is
between one holder of a stale read and one writer, and what happened before
comes from earlier uses of the slots. Two users are the one who acts and the
one acted on, two sessions one of each. `pagefire` is small because it has
everything at once: one alert has the races between the processors, the API
and the cleanup; a drain of one row makes a retry and a second row wait for the
next tick; two ticks to a cleanup are one that skips and one that purges. What
needs more alerts or pages is checked of `Escalation` and `NotificationQueue`
alone, whose steps these are.

### Fairness

`WF(EngineStep)` and `WF(Drain)`: the ticker of `engine.Start` fires while the
process runs and a tick goes through its batch to the end; errors are logged
and the loop goes on. It includes that a provider call returns: the HTTP
providers have timeouts of 10 or 15 s; the SMTP provider has none and relies
on the mail server or the network to end the connection. `WF(Restart)`:
`docker-compose.yml:38` restarts the process unless it was stopped on purpose.
`WF(Elapse)`: time goes by, in `PageFire` also `WF(Age)`: what was resolved
gets old. `WF(Cleanup)` of the rate limiter: its goroutine waits for a ticker
and never ends. `EngineStep` of `PageFire` is the whole engine, so its purges
come when their turn comes. Nothing is assumed of API calls or faults.

## What is proved

Assumed are only the named ASSUMEs of the modules: columns have their types,
NULL is no row, bounds are numbers. Finite are the notifications of the queue,
the users of `Paging`, the positions and overrides of `OnCall`, as rows of a
table are.
Each safety property a run checks, and each refinement, is a theorem; what a
run shows for its instance holds for every value of the constants.

| proofs | of |
|---|---|
| `EscalationProofs` | `Escalation` |
| `NotificationQueueProofs` | `NotificationQueue` |
| `PageFireProofs` | `PageFire`, citing the two above |
| `PagingProofs` | `Paging` |
| `AlertIntakeProofs` | `AlertIntake` |
| `HandlerProofs` | `PolicySnapshot`, `Incidents` |
| `OnCallProofs` | `OnCall` |
| `AccountsProofs` | `Accounts`, `RateLimiter` |

`PolicySnapshot` and `Incidents` share a module because both are handlers of
several statements without a transaction, `Accounts` and `RateLimiter` because
both are `internal/api/auth.go`. So that one module can extend several, the
definitions of `Incidents`, `RateLimiter` and `Paging` that every module has are
named apart (`IncidentNext`, `LimiterSpec`, `PagingNext`).

`EscalationProofs.tla`, for every set of alerts, every policy, delay and number
of faults: `TypeOK`, `BatchIsCurrent`, `WithinLadder`, `AtMostOneLateStep`,
`LatePagesOfOneStep`, `NoSilentSkip`, `RepeatsArePaidFor` and
`DelayIsHonoured`. The inductive invariant `IInv` adds to
types, batch and ladder that the alert in hand is in the batch and was not
exhausted when it was read (`Working`): without it the step to be executed need
not exist. `AtMostOneLateStep` needs more (`LateInv`): a closed alert that is
still in the batch has not moved, one that moved has left the batch and cannot
come back since the status test keeps it out. `NoSilentSkip` needs that the
pages of the running step are still to do or accounted for (`CurAccounted`),
and that the positions, numbered by `Ord`, are passed one by one, also across
the wrap (`OrdAfter`, `OrdInjective`). `RepeatsArePaidFor` rests on
a count: each run of a position but the one in hand was ended by a failure, or
moved the alert on (`RunsInv`). `DelayIsHonoured` is about a timer that lies in
the row while the tick may hold an older copy of it: `DelayInv` says that what
was waited and what `next` still asks for make up the delay of the step last
executed, and that an alert in the batch has waited it out: what the timer
loses the count gains (`DelayElapse`), and an UPDATE that arms it takes the
alert out of the batch (`DelayAdvance`).

`NotificationQueueProofs.tla`, for every finite set of notifications, every
attempt limit, backoff table and batch size: all safety properties of the
queue, and that no notification is handed over more than max_attempts times
(`AttemptsAreBounded`). The inductive invariant says of every row what its
status tells about its calls (`RowTrue`), of the batch that waiting rows are as
they were read (`BatchFresh`), and of the row in hand that it is marked and one
call ahead once it was dispatched (`InHand`). `BackoffInv` says that what a
waiting row has waited and has still to wait adds up to its backoff.

`AlertIntakeProofs.tla`, for any requests, payloads, keys, groups and faults:
`TypeOK` and all safety properties of intake. The argument is that rows only
grow: none changes its key or group and none becomes active again (`Grows`). So
whatever is active now was active, or not there yet, when a request began
(`Open`), and what a handler has found out about its key or its group stays true
of the rows while others run between its statements (`Found`, `Collided`,
`Looked`), although it need not hold of the active ones any more. The
properties of rows and answers follow when the handler writes them.

`PagingProofs.tla`, for every finite set of users and all tables of contact
methods, rules and targets, however long the step and however many the edits:
`TypeOK`, `PagesAreOwed`, `StandingRuleIsPaged`. `PagesAreOwed` is not
inductive: that no rule pages twice needs that what was sent is of a pagee
before the one in hand, or of a rule that had its turn (`Turned`), and that
what is owed was seen needs that what the step holds was (`Witnessed`,
`InHand`). `StandingRuleIsPaged` is about the end; `FoundSoFar` and
`PagedSoFar` say it of the targets and rules that had their turn.

`HandlerProofs.tla`, for any policies, rules, steps and targets and any number
of edits while a request runs: `TypeOK`, `FirstMatchWins`, `StandingStepIsKept`
and `ErrorHasCause` of `PolicySnapshot`. `TablesOK` is what each edit and its
cascade keeps: rows refer to rows that are there. The history of a request is
as the tables are now (`HistoryIsCurrent`): what stood is still there, what is
there was seen. `Origin` says where the policy in hand came from, a match
before which no standing match comes (`FromRule`) or the service
(`FromService`), and `Copied` that every standing step is in the copy or still
to be read. `ErrorHasCause` needs `Origin`: a policy that is gone was deleted
with the rule that led to it, or is one the service still names.

The same module, for every set of requests: `IncidentTypeOK`, `StatusIsRecent`,
`LostEditsRaced` of `Incidents`. Both rest on the order of requests (`InOrder`:
what was answered before a request came in stays answered, and none precedes
itself). `LostEditsRaced` alone is not inductive: the row that an update holds may lack
a PUT that was done before the update came in. `ReadsRaced` adds that such a
PUT raced an update as well.

`OnCallProofs.tla`, for any users, rotations, positions, overrides, starts,
shift lengths, any largest duration and any number of edits in a call: `TypeOK`,
`ShiftsInTurn`, `SomebodyAnswers`, `ErrorHasCause`, `EverybodyHasAReason` and
`StandingOverrideHolds`.

- `ShiftsInTurn` is arithmetic. In its range nothing wraps around or saturates
  (`WrapExact`, `Exact`). Natural numbers have a quotient and a remainder
  (`Division`), one shift later the quotient is one more, so the remainder is
  one more or wraps to zero (`NextTurn`). A position's place in the turn is the
  number of taken positions before it (`Rank`); ranks are in the order of the
  positions, unique, and every number below the number of participants is one
  (`RankOrder`, `RankIsUnique`, `RankIsTaken`), so the participant after the
  last is the first, and gaps between positions do not matter.
- The overrides replace one after the other in any order their start times
  allow. `ReplaceAll` is a recursive function; `ReplaceAllSteps` shows that a
  function with its equations exists, and `Overridden` follows the set along
  the sequence: nobody comes in but who takes over, a set that is not empty
  stays so, and whom an override replaces that all others in force precede is
  out.
- Induction over numbers is by the least counterexample (`ClimbTo`, from the
  well-foundedness of the naturals), as the library's induction theorems take
  an operator.
- The invariant says of a call what its history tells of the rows as they are
  (`Witnessed`) and how far the answer is (`Progress`): rotations that had
  somebody on shift all along are still to be asked or have answered, and whom
  a standing override replaces is out, unless one that does not start before it
  may put them back (`Applied`). Foreign keys are part of it (`RowsOK`): an id
  that cannot be found later was deleted meanwhile.

`AccountsProofs.tla`, for any requests, users, passwords, sessions and faults:
`TypeOK`, `AdminRemains`, `WayIn`, `LogoutHolds` and `OverwriteRaced`. The
inductive invariant says of every request what still holds of what it read
before (`AboutUser`, `Inserting`, `Inviting`, `Setting`, `Deleting`, `Holding`).
`WayIn` is not inductive; it is the sum of two facts that are: who has no
password has an invite that is not used, or one that is being inserted or was
lost (`HasInvite`), and the link of an invite was answered, is to be, or was lost
(`LinkTold`). `OverwriteRaced` needs that an invite stays open beside a password
only while its request is about to mark it, or when the mark failed
(`OpenIsUnmarked`).

`PageFireProofs.tla`, for every set of alerts, policy, backoff table, batch size
and number of failures: that the engine implements both modules
(`ComponentsAreImplemented`). The invariant is that of each module, carried over
by citing its proof through an instance, and `TurnInv`: a processor holds
something only while it is its turn. All safety properties of `Escalation` and
`NotificationQueue` thereby hold of the engine (`EscalationsKeepTheirPromises`,
`NotificationsKeepTheirPromises`). Two theorems put them together:
`PagesAlwaysHaveFates` follows a page from the step that owes it to the
provider's answer, and `DoublesAreAlwaysPaidFor` says that no provider accepts a
page twice unless a failure made its step run again, each such run for a failure
of its own. `DelayIsBounded` adds the calls that are still to come in this drain
to those an escalation has waited for (`DelayInv`).

`AccountsProofs.tla` also has the rate limiter, for every set of keys, limit
and window: `LimiterTypeOK`, `AtMostLimit`, that a key stores no more than the
limit, old entries included (`MemoryIsBounded`), and that every behaviour is one of `SlidingWindow`
(`WindowIsImplemented`): the cleanup is a stutter, each outcome of `Allow` and
the clock are a step.

Type correctness, `WithinLadder` of `Escalation`, `AttemptsCountCalls`,
`CallsAreMarked` and `AtMostLimit` of the queue and the limiter, and the bound
on attempts are proved and not checked by a run.

Only model-checked is liveness, which is out of the prover's reach:
`EscalationRunsOut`, `PendingSettles`, `SilentKeysAreForgotten`,
`FirstStepIsCalled` and `OldAlertsGo`. The five properties that the code
violates (`AcknowledgeStopsEscalation`, `OnlyFirstOfGroupPages`,
`RotationsRotate`, `SetupOnlyWhenEmpty`, `InviteIsSingleUse`) have runs only.

## Met while modelling

What follows is how the code behaves; the models have it, and no document says
otherwise plainly enough for a run of its own, or a run would add nothing.

- An alert under a policy without steps stays due for ever: each tick finds it
  and passes over it (`SkipEmpty`). `EscalationRunsOut` excepts it.
- A row that a crash or a failed mark left in `sending` is not looked for again
  (`StrandedOnlyByFaults`); it goes with its alert.
- The acknowledged and resolved events of an alert's timeline are written by a
  statement of their own, also when the UPDATE changed nothing
  (`api/alerts.go:184`): the timeline may show them in another order.
- Sessions of a deleted user stay in the table; `CurrentUser` finds no user for
  them, so they let nobody in.
- The last entry of the backoff table is never used with three attempts
  (`engine/notification.go:49`).
- A request that loses the race for a key to an alert that is then closed is
  answered with an error and its alert is lost. `LossHasCause` names this cause.
- The Grafana webhook answers a duplicate with 409, CHANGELOG.md:44 says 200.
- Alerts posted to the API take the policy of the service; routing rules are
  for integrations (`FirstMatchWins`).
- Deleting a policy leaves services that name it (0002_oncall.sql:111 leaves
  the foreign key to the application): their alerts are refused.
- An on-call answer may mix versions of a schedule, and overrides that chain
  replace one after the other in the order of their starts. A rotation of an
  unknown type has nobody on shift. The quotient of a shift is computed in
  float64, where the model divides integers: they agree for times of whole
  seconds; in the last nanoseconds of a shift that began long ago the code may
  already name the next participant.
- A rule may name a contact method of another user; it never pages. A user whom
  two targets of a step name is paged twice. Pages with a delay are not taken
  back when the alert is acknowledged.
- A status update of an incident never sets `resolved_at`, a PUT may.
- CHANGELOG.md:36 limits regular expressions of rules to 1024 characters, the
  code to 200.

## Plan

All components that keep state across calls are modelled, the engine is
composed, and the safety properties are proved. To be stated and proved next:
that delays hold from one provider's call to the next, not only from step to
step; what `AlertIntake` and `PolicySnapshot` promise together of the alert that
`Escalation` starts from. To be modelled still: the
timeline of an alert, whose events are statements of their own, and an abstract
`AlertLifecycle` (status only moves forward, a closed alert pages no new step)
that `Escalation` and `AlertIntake` implement.

## Not modelled

Teams, integration keys, API tokens, the links of incidents and the rest of
users' data are single statements without state that spans calls. Sessions
do not end by themselves in `Accounts`: what is promised of them says when they
must not come back, not that they last. Message formats and
transports of the providers, configuration, the router, the web interface and
the demo are I/O. Lists and reads change nothing. Whether a condition of a
routing rule matches an alert is an input. Wall-clock jumps are left out: the
code reads the clock anew for each comparison, and the models count time in
steps that only go forward. Integers are unbounded, but for the durations
of `OnCall`: the other counters of the code go up by one and stop at a repeat
count, a number of attempts or of rows.
