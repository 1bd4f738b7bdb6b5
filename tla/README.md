# Pulse notification engine: specifications, model checks and proofs

This directory is the formal side of the notification engine in `src/`. It
holds TLA+ modules translated from the code, the configurations under which
TLC checks them on small instances, and proofs about them checked by TLAPS.
Paths below are relative to the repository root (`src/src/...` is the
implementation).

## 1. The system

A request stores an *event* in a PostgreSQL outbox table. Workers, running
inside the API server or as a process of their own, claim batches of events
under a lease, hand each one to the notification consumer, and record the
verdict: published, retry later, or dead letter. The consumer looks up the
recipient's preference, creates a row in the notification feed, announces it
over Redis to every server instance, and sends an e-mail. Server instances
relay Redis messages to the sockets of their users. Sessions with rotating
refresh tokens authenticate both HTTP and sockets; revoking a session is
announced over Redis too.

| Component (code) | State | Operations | Talks to |
|---|---|---|---|
| Outbox (`events/outbox/outbox.repository.js`, migration 005) | rows: status, attempts, available_at, locked_by, locked_at | insert, claim (one transaction, SKIP LOCKED, lease), markPublished, releaseForRetry, moveToDeadLetter, replay | producers, workers, operator |
| Worker (`events/outbox/outbox.worker.js`) | running/stopped flags, claimed batch, current event | poll, process, settle, start, stop | outbox, consumer |
| Consumer (`events/consumers/notification.consumer.js`, `common/utils/retry.js`) | nothing that outlives a dispatch | read preference, create, emit, mail | preferences, feed, Redis, SMTP |
| Feed (`modules/notifications/`) | notification rows, unique by event | create, list by offset and by cursor, count, mark read, delete | consumer, HTTP, gateway |
| Demo console (`src/demo/assets/demo.js`) | list shown, cursor, preference entries, loads and saves in flight | load, load more, refresh, mark, delete, switch a preference, connect | feed, preferences, gateway |
| Preferences (`modules/preferences/`) | one row per user and type, else a default | get, list, upsert | consumer, HTTP |
| Producers (`events/eventPublisher.js`, `events/producers/`) | none | validate, insert | outbox |
| Operator CLI (`cli/outbox.js`) | none | list, replay | outbox |
| Sessions (`modules/auth/`, `middleware/`, `config/transaction.js`) | users, sessions, refresh tokens | register, login, refresh with rotation and reuse detection, logout, clean-up | HTTP, gateway, Redis |
| Gateway (`websocket/`) | sockets, rooms, per-IP reservations and windows | handshake, connect and sync, deliver, revoke, disconnect | sessions, feed, Redis |
| Redis fan-out (`websocket/socketEmitter.js`, `config/redis.js`) | none in the program | publish, subscribe | consumer, sessions, gateway |
| Processes (`server.js`, `worker.js`) | which resources are open, shutting down or not | start in order, shut down in order, forced exit | everything |
| Migrations (`db/migrate.js`) | applied files, advisory lock | run | database |
| Rate limits (`websocket/index.js`, `rateLimit.middleware.js`) | rolling minutes per address | take a handshake, take a message, sweep, forget | gateway |
| Metrics, health, HTTP plumbing | counters; none; none | render, answer, validate | - |

What is hard here is that the database is the only thing the parts share and
every `await` is a point where somebody else may run. Workers overlap whenever
a lease expires under one of them; each verdict is written long after the claim
it belongs to; a statement may be applied and its answer lost; a process may
stop between any two statements; the consumer has four effects in a row and no
transaction around them. For sessions and sockets the hard part is the order of
revocations, rotations and handshakes. `PROJECT.json` lists these hazards line
by line, with the property that watches each.

What makes each component correct:

- *Outbox and worker*: an event is held by one worker at a time unless a lease
  ran out; verdicts of stale workers change nothing; published is final;
  attempts are bounded; nothing is published unprocessed; every event reaches a
  final state; a stop completes.
- *Consumer*: what is published was delivered on the channels the recipient
  wants, and on no other; a second e-mail has a cause; a failing e-mail does
  not cost the in-app notification.
- *Feed and console*: pages neither repeat nor skip what stays; what a page
  shows is what the tables hold once nothing is under way; a choice of
  preferences is kept.
- *Sessions*: one live token per session; a replayed token ends the session;
  nothing is handed out for a revoked one.
- *Gateway*: the number of reservations is the number of sockets; a
  notification is live, in the sync, or both, never neither; a socket does not
  outlive its session for good.
- *Migrations*: each file once, in order, whatever runs concurrently or dies.
- *Processes*: what is open outlives what uses it; what is told to stop ends;
  what was down comes up.
- *Rate limits*: no more in any rolling minute than the limit.

## 2. Modules

| Module | What it is | Lines of the program |
|---|---|---|
| `EventLifecycle` | abstract promise of the outbox to a producer: absent, open, published, buried | the statements of `outbox.repository.js`, seen from outside |
| `Outbox` | rows, claim transactions, workers, lease, crashes, replay | `outbox.repository.js`, `outbox.worker.js`, `eventPublisher.js`, `cli/outbox.js`, shutdown in `worker.js` and `server.js` |
| `OutboxProofs` | TLAPS proofs about `Outbox` | |
| `Delivery` | `Outbox` with the consumer inside each worker | `notification.consumer.js`, `retry.js`, `createNotification`, `emitToUser`, `sendNotificationEmail`, `setPreference` |
| `DeliveryProofs` | TLAPS proofs about `Delivery`, on top of `OutboxProofs` | |
| `TokenFamily` | abstract promise of a session to the holders of its tokens: unborn, open with one current token, ended | the refresh-token history, seen from outside |
| `Sessions` | sessions, refresh tokens, row locks, the requests that use them | `auth.service.js`, `refreshToken.repository.js`, `transaction.js`, `requireAuth`, the clean-up timer of `server.js` |
| `SessionsProofs` | TLAPS proofs about `Sessions` | |
| `Gateway` | sockets, rooms, slots, sync, Redis messages, revocation | `websocket/index.js`, `socketAuth.js`, `socketEmitter.js`, the unread query |
| `GatewayProofs` | TLAPS proofs about `Gateway` | |
| `Migrations` | migration jobs, the advisory lock, the files applied | `db/migrate.js` |
| `ServerProcess` | one API process: start-up, closing, forced exit | `server.js`, `config/database.js`, `config/redis.js`, `/ready` in `app.js` |
| `WorkerProcess` | one worker process and its readiness | `worker.js` |
| `Deployment` | migration jobs, an API process and a worker process together | how `deploy/kubernetes` runs them |
| `DeploymentProofs` | TLAPS proofs about `Deployment` | |
| `Feed` | the rows of one recipient, keyset pages and their cursors | `notification.repository.js`, `notification.cursor.js` |
| `Console` | the list of notifications a page shows, over `Feed` | `demo.js`, `notification.controller.js` |
| `ConsoleProofs` | TLAPS proofs about `Console` and `Feed` | |
| `Preferences` | a preference row, the page's entry and its switches | `preference.controller.js`, `preference.repository.js`, `demo.js` |
| `PreferencesProofs` | TLAPS proofs about `Preferences` | |
| `Windows` | what an instance takes of an address in a rolling minute | `websocket/index.js` |
| `WindowsProofs` | TLAPS proofs about `Windows` | |
| `MCOutbox`, `MCDelivery`, `MCSessions`, `MCGateway`, `MCDeployment` | instances for TLC, with symmetry where it is sound | |
| `MCClient` | `Console`, `Preferences` and `Windows` side by side: they share no state and a behaviour explores one of them | |

`Delivery` extends `Outbox`: it replaces the two steps that stand for a whole
consumer (`Processed`, `ProcessFails`) by one action per await and keeps every
other action as it is. Operators called "Slip" in comments are mistaken
variants of the definition that follows them; no action uses them. They are
there so that each property can be seen to fail when the code is wrong.

### Outbox

A row is a record of its status, attempts, `wait` (ticks until `available_at`),
`owner` (`locked_by`) and `age` (ticks since `locked_at`). The code compares
instants with `NOW()` only, so relative times carry all it can observe, and the
state space stays finite: `Tick` moves `wait` down and `age` up, and an age
stops at one more than the lease.

Each statement of the repository is an operator from a row to a row
(`Inserted`, `Claimed`, `MarkPublished`, `ReleaseForRetry`, `MoveToDeadLetter`,
`ReplayDeadLetter`), with the `WHERE` clause as its condition. A worker goes
through `processBatch` with a program counter:

| `pc` | the worker is | steps |
|---|---|---|
| `idle` | between polls | `StartPoll`, `Exit` (once stopped) |
| `polling` | before its claim transaction | `BeginClaim`, `ClaimFails` |
| `claiming` | inside it: rows chosen and locked, not yet committed | `CommitClaim`, `ClaimFails` |
| `next` | at the head of the `for` loop | `Pick`, `FinishBatch` |
| `process` | awaiting `processEvent` | `Processed`, `ProcessFails` |
| `publish` | awaiting `markPublished` | `Publish`, `PublishFails` |
| `settle` | in the catch block | `Settle`, `SettleFails` |
| `down` | not running | `Restart` |

`Stop` and `Crash` may strike anywhere. The failing variants take whether the
statement was applied before its answer was lost. Between `BeginClaim` and
`CommitClaim` the chosen rows are locked: other claims pass them by
(`SKIP LOCKED`), plain updates wait (`~Locked`). `snapshot` is the attempt
count the claim returned; the catch block goes by it, not by the row. `held` is
the time since the claim transaction began, which is what `locked_at = NOW()`
records. Worker ids are random per process: when a process ends, the rows it
had locked change their owner to `Gone`, which no later process can be.

The order in which `UPDATE ... RETURNING` returns rows is not promised, so
`Pick` takes any event of the batch. `CommitClaim` adds one to the attempts of
every claimed row.

### Delivery

`at` says which await of `dispatchNotificationEvent` a worker is at: `read`
(preference), `create` and `select` (the two statements of
`createNotification`, under `retryWithBackoff`), `emit`, `mail`, `done`. Any of
them may throw; the throw reaches the worker's catch block. The recipient
changes the preference and deletes the notification at any time. Histories
(`emitted`, `emailed`, `doubts`, `removed`, `blame`, `seen`) record what has
happened and no step of the program reads them.

### Sessions

A request is one of refresh, logout, logout of all devices, clean-up; a login
and a registration (`Login`, `Register`) are a single step each, because what
their transactions insert nobody else can see or lock. A registration needs its
user to be new, which is what the unique constraint comes down to. `pc` is the statement a request is at:

| `pc` | statement | steps |
|---|---|---|
| `token` | `SELECT ... FOR UPDATE` of the presented token | `TokenUnknown`, `TokenReplayed`, `TokenRefused`, `TokenAccepted` |
| `session` | `lockActiveSession` | `LockSession`, `SessionOver` |
| `rotate` | inserts and updates up to `COMMIT` | `Rotate`, `OutOfIds` |
| `reuse` | `revokeSessionForReuse` | `RevokeForReuse` |
| `revoke` | `COMMIT` of a replay or a logout of all devices | `CommitRevocation` |
| `logout` | the one `UPDATE` of `revokeSession` | `Logout` |
| `sweep` | a statement over several sessions, reaching them one by one | `Sweep` |
| `cascade` | `ON DELETE CASCADE`, reaching the tokens one by one | `Cascade`, `Purge` |
| `legacy` | the second `DELETE` of the clean-up | `PurgeLegacy` |
| `announce` | `publishSessionRevocation`, one per session | `Announce`, `AnnounceFails` |

`mine` and `kept` are the sessions and tokens a transaction has locked. What a
transaction writes is visible from its commit on, so the writes are made in the
step that commits; in between the locks say all that others can notice. A
statement whose row is locked waits, and looks at the row again when it gets
it, as PostgreSQL does under READ COMMITTED. Who waits for whom in a circle is
`Deadlocked`; the database then lets one of them fail (`DeadlockVictim`).

A row's `revoked_at` and `replaced_by_id` become its status (`active`/`revoked`,
`live`/`rotated`/`revoked`) and `next`; dates are relative, as in `Outbox`. Ids
are never used twice; when an instance has none left a login is disabled and a
rotation fails as a failed insert does (`OutOfIds`). Tokens older than the
`user_sessions` table have no session until they are first rotated.

### Gateway

All sockets are those of one user from one address: rooms are per user, slots
are per address, and neither knows of the others. A socket's `stage` follows
the awaits it goes through:

| `stage` | the socket is | steps |
|---|---|---|
| `none` | not there yet | `Arrive` (`allowRequest`) |
| `arrived` | before the authentication middleware | `Reserve` |
| `checking` | awaiting `isSessionActive`, with a slot | `CheckSession`, `CheckFails` |
| `admitted` | let in, before `connection` | `Connect` |
| `joined` | in its rooms, awaiting the unread query | `QueryUnread`, `QueryFails` |
| `queried` | holding the answer | `Ready` |
| `live` | connected, its disconnect listener registered | |
| `gone`, `dropped`, `lost` | over; the last two without having returned a slot | |

`up` is the transport and may go down at every stage (`Leave`, or `Kick` by a
revocation). `count` is `connectionsByIp`. Each instance has a set of
notification and of revocation messages under way to it: Redis promises no
order between channels and a set takes them in any order. `got` is what a
client has been sent. Of a revocation, `told` has the instances that acted on
it and `unheard` those it will not reach any more: Redis refused it, lost it, or
the instance that had it to send crashed.

`Drop` is Socket.IO's own: a socket whose transport has closed by the time the
middleware calls `next()` is discarded without `connection` or `disconnect`.

### Migrations and Deployment

`jobAt` is the await of `runMigrations` a job is at: `create` and `creating`
(`CREATE TABLE IF NOT EXISTS` looks first and creates afterwards), `lock`,
`read`, `apply`. A transaction over a file is one step; `CommitUnheard` is one
that committed and was never answered. `holder` is a set, so that a lock that
did not exclude would be seen to be held twice.

`ServerProcess` follows `startServer` await by await in `boot`, and each of the
two callers of `closeResources` (a signal, a failed start) in `closer`. What
runs between two awaits is one step, so a closer's step looks for the next
resource that is open *now*, as the code does, and `CloseResources`,
`CloseOutbox`, `ClosePool`, `ClosePublisher` and `CloseSubscriber` are its
stages in that order. The pool ends once no statement of the start-up is out; a
client whose `connect` is under way when it is told to `quit` makes the start-up
reject (`BootCannotGoOn`). `LoopEmpty` says when Node ends the process by
itself. `WorkerProcess` is the same for `worker.js`, whose shutdown hangs on the
callback of `server.close`. `Deployment` is the interleaving of both with the
jobs over one database: a process finds its tables there or not.

### Feed, Console and Preferences

`created_at` is counted in half milliseconds: two values that differ in
microseconds only are the case `cursor_created_at` is in the query for. Rows
become visible in any order of `(created_at, id)`, as they do when transactions
overlap. A page is made of the rows by their places in the order: the k-th is the
one that k-1 come before (`InPlace`), which `MCClient` has TLC compare with the
sorted set. A `load` is one call of `loadNotifications` from its request to its
`render`; `LoadServed` reads the page, `LoadShown` replaces the list or appends
to it, in any order of the calls. A row that arrives is announced to the page
(`Arrives`) or is not (`ArrivesUnheard`): Redis may refuse or lose the message.
`base`, `crossed` and `outdated` are histories that say what a list may be held
to. A save in `Preferences` carries the whole
row, built from the entry known when the switch was changed.

### Windows

Timestamps are ages up to a minute, as in `Outbox`. They are in the order they
were taken in, so `Recent` drops the old ones at the front; `MCClient` has TLC
compare it with the filter of the code. `Consumed` is
`consumeHandshake` and `consumeIpMessage` (they differ in their limit), `Swept`
the sweep over all addresses. `Disconnects` returns the slot if the listener is
there and forgets the messages with the last slot.

## 3. What is checked

TLC runs, with their constants in the configuration of the same name:

| Run | Instance | What it shows |
|---|---|---|
| `outbox` | 2 events, 2 workers, batch 2, limit 2, lease 1, 2 incidents, under fairness | rows, claims and verdicts stay consistent; the inductive invariant holds; every event settles, every stop completes, `EventLifecycle` is implemented |
| `delivery_safety` | 1 event, 2 workers, lease 0, 1 incident, 2 tries, 2 preference changes | what published and dead-lettered mean for feed, announcement and mail |
| `sessions_rotation` | 1 session, 3 tokens (1 legacy), 2 requests, lifetime and retention 2, 1 incident | rotation, replay, purge and the announced end of one session; `TokenFamily` is implemented |
| `sessions_devices` | 2 users, 2 sessions, 2 tokens, 2 requests, lifetime and retention 1, no incident, under fairness | causes of revocations, deadlocks, termination |
| `gateway_safety` | 2 sockets, 2 instances, 1 session, 2 notifications, limit 1, sync of 1, 1 incident | slots, limit, sync against live delivery, revocation against handshake |
| `deployment` | 2 jobs, 2 files, an API process that also runs an outbox worker, a worker process, 2 incidents, under fairness | order and exclusion of migrations, resources against signals and failures, everything comes up |
| `client` | 3 notifications (two with equal `created_at`, one older by microseconds), pages of 1, 2 loads, 4 clicks, 1 failure or lost announcement; 2 saves, 1 lost; 2 addresses, a minute of 2 steps, limits of 2 handshakes, 2 connections, 1 message | what a page shows against the tables; handshakes in a rolling minute |
| `outbox_attempt_limit`, `delivery_recreated`, `delivery_redis_gone`, `gateway_slots`, `messages_per_minute` | as small as shows it | disagreements, see section 6 |

### Properties

*Outbox.* `PendingHasAttemptsLeft` and `DeadLetterExhausted`: no interleaving of
late workers, lost answers and replays leaves an event with no attempts left
pending, or buries one that has some. `AttemptsBounded`: attempts exceed the
limit by at most the number of incidents (crashes, shutdowns, lost answers,
expired leases, replays).
`ExclusiveUnlessLate`: two workers have an event in hand only if one has been at
it for longer than the lease. `NothingStranded`: a live worker leaves a row
locked that it is not at only when the COMMIT of its claim or the statement of
its catch block throws, whatever else has failed before; a stop, a failing
consumer or a `markPublished` that throws leaves none. `PublishedIsFinal`. `IInv` is the inductive invariant of the proofs, and has
`PublishedWasProcessed` (nothing is published whose consumer has not resolved)
among its parts. `Settles`, `StopCompletes` and `LifecycleSpec` under
fairness.

*Delivery.* `PublishedMeansDelivered`: a published event was mailed if e-mail was
on whenever the program looked, and is in the feed, or was deleted there, and
was announced live if in-app was. `NothingUnwanted`: a channel that was off
whenever the program looked stays silent. `EmailsPaidFor`: every e-mail beyond
the first has a doubtful send or an incident to answer for it.
`InAppIndependentOfMail`: an event buried for its e-mail alone was delivered
in-app.

*Sessions.* `OneLiveToken`: an existing session has exactly one token that
refreshes it. `ReplayIsFatal`: by the time a token's second use is answered,
the session it belongs to has ended. `EveryRevocationHasACause`: no session ends
that nobody ended. `NothingUnannounced`: each revocation has been announced or is
about to be, whatever has failed before; only a failure of its own step, between
the commit and the answer from Redis, keeps it from going out. `DeadlocksNeedASweep`: refreshes and single
logouts alone never wait for each other in a circle. `RequestsEnd`.
`PurgeTakesOnlyTheExpired`: a token is forgotten only after it has expired.
`FamilySpec`: tokens are spent one after the other, an ended session hands out
nothing.

*Gateway.* `LimitHolds`: overlapping handshakes never exceed the limit.
`SlotsAccountedFor`: slots in use are those of sockets being served and of those
lost in the two ways named. `NothingMissed`: a published, unread notification
that has reached the instance of a connected socket has been sent to the socket,
live or in the sync. `RevokedSocketsCameLate`: once a revocation is announced
and an instance has handled it, only a socket that joined its room after that is
still connected there. Incidents are no excuse: only an instance that the message
never reached (`unheard`) may keep others.

`RevokedSocketsCameLate` states a window that is really there: `isSessionActive` is asked
during the handshake, the room joined afterwards, and a revocation that passes
in between finds no socket to cut off. Such a socket lives on until it
disconnects; the property shows that there is no other way.

*Deployment.* `MigrationsOrderly`: whatever jobs overlap, die or miss an answer,
the files applied are the first ones in order, each once, and no job is refused
a file. `ServedByOpenPool`: whenever requests are accepted or a batch is in
hand, the pool is open. `EndsWhenTold`: a process that is told to stop, or
fails to start, ends; nothing is opened behind a closer that is past it.
`ComesUp`: once incidents are over all files are applied and both processes are
ready and stay so. `DeploymentTypeOK`.

*Console.* `WholeUnlessCrossed`: the list is in order, without repetition, and
leaves out no row that was there when its first page was read, unless a page was
appended that does not continue it. `CurrentAtRest`: with the socket connected
and nothing under way, the list shows every notification down to its last one in
the state it has, unless a change or an announcement was lost and nothing loaded
since. `PreferenceKept`: once every save is answered, row, page and
switches agree with what the user last chose, unless saves overlapped or failed.
`ConsoleTypeOK`.

*Windows.* `HandshakesPerMinute`: of an address no more handshakes are taken in
any minute than the limit, whatever is pruned or swept and whatever connects and
disconnects in between. Of messages the same is promised and does not hold
(`MessagesPerMinute`, section 6). What does is a theorem, `MessagesPerWindow`:
one limit, and one more for each window dropped in that minute.

### Bounds, and why they are enough

- Two workers, requests, sockets or instances: every hazard listed is between
  two of them. Three workers were not run; the proofs cover any number.
- Two events, batch 2: one event of a batch may fail while the other waits under
  the same lease.
- Limit 2, lease 1: an attempt may be the last or not; a lease may be in force,
  just over, or long over. `Delivery` uses lease 0, where any claim may be taken
  over at the next tick, so that overlap is the rule and not the exception.
- `MaxIncidents` bounds crashes, lost answers and failed statements. It is a
  bound of the environment, not of the program. `NothingMissed` is the one property
  that holds the program only to what it does undisturbed (`incidents = 0`): a
  notification Redis lost is sent at the next connection, not before.
- Lifetime 2 lets a rotated token expire while its session, prolonged by the
  rotation, is alive. `Lifetime <= Retention` is 7 <= 30 days.
- Three tokens suffice for a session to rotate twice, and for a replay of the
  first and of the second. Two sessions and two requests close every kind of
  deadlock circle; longer ones need more of both.
- One notification more than the sync holds, so that it may overflow.

- Two jobs: the lock is between two. Two files, one needed by each process, so
  that a process may start before, between and after them. Two incidents of any
  kind: a signal into a failed start, a crash of one process under the other's
  shutdown, a lost commit and the failure of its retry.
- Pages of one row make every boundary between rows a boundary between pages.
  Three rows give two boundaries, of which one is a tie and one a difference of
  microseconds. Two loads may overtake each other; four clicks are a page, two
  more, and a change or a refresh.
- A minute of two steps lets one timestamp be old while another is recent. Two
  addresses and a sweep at the second make the sweep happen.

Ages and delays saturate one step beyond the value they are compared with, so
no bound on time is needed.

### Fairness

`outbox` assumes weak fairness of time and of each worker's steps: its
timers fire, and its statements and consumers return, either way. A worker that
is down is started again, as both deployments do. Weak fairness is enough:
a worker always has some step to take, and `SKIP LOCKED` never makes it wait for
another. Incidents are finite and never fair.
`sessions_devices` assumes strong fairness of each request that has begun:
a row may be locked and released by others in turns, and PostgreSQL serves
those who wait for a row in order. Nothing is assumed to begin.

`deployment` assumes weak fairness of each job, of each process's start-up, and
of batches and polls: what ended is started again, as the Kubernetes Deployments and
the `backoffLimit` of the migration Job have it, and statements are answered. A closer either goes on or is cut
short by its timer of ten seconds, so fairness is of the two together. No
incident is fair.

Deadlock is checked in every run but `client`, where the user's clicks are
bounded and the page may come to rest.

## 4. What is proved

Every theorem is about all values of the constants: any sets of events, workers,
sessions, tokens, sockets, files and addresses, any limits, and any number of
incidents. The only assumptions are the `ASSUME`s named below; TLC evaluates
them in every run. Each proof module starts with its inductive invariant, goes
on with lemmas about the operators, has one step per action, and ends with the
theorems. None of the invariants the runs check is inductive by itself; what
follows says what each needed.

### Outbox (`OutboxProofs`)

From `EventsAssumption`, `WorkersAssumption` and `OptionsAssumption`:

- `InductiveInvariant`: `Spec => []IInv`;
- `TypeCorrect`, `VerdictsAreDue`, `BurialsAreDue`, `AttemptsAreBounded`,
  `MutualExclusion`: the invariants that `outbox` checks, and
  `NothingUnreadIsPublished`;
- `PublishedStays` and `NoRowIsStranded`: the action properties
  `PublishedIsFinal` and `NothingStranded`;
- `OutboxImplementsLifecycle`: the refinement of `EventLifecycle`.

`PendingHasAttemptsLeft` is decided by the snapshot a worker took when it
claimed, so one must know that the snapshot is still right whenever the row is
still the worker's. `IInv` adds what that rests on:

- `LockDiscipline`, `BatchDiscipline`: exactly the rows in `processing` are
  locked; only an active worker has a batch, and it is at an event of it;
- `ClaimDiscipline`: claim transactions choose disjoint rows, which stay eligible
  while they are locked;
- `OwnerIsInformed`: a worker that owns a row has the row's attempts as its
  snapshot, and has held it exactly as long as the row says;
- `HeldIsOwnedUnlessLate`: a row in somebody's hands is theirs, unless they are
  late or have just published it without knowing;
- `PublishFollowsProcess`, `HeldExists`: a worker at its verdict has the
  consumer's answer behind it, and what it holds exists;
- `AttemptsPaidFor`: a row with as many attempts as the limit and the incidents
  allow is in the hands of a worker that is in time.

The refinement has one step per action: those that insert, resolve, publish,
bury or replay map to the abstract step, the rest are stutters.

### Delivery (`DeliveryProofs`)

From `DeliveryAssumption` and the three of `Outbox`:

- `DeliveryImplementsOutbox`: `DeliverySpec => Spec`, so that all of the above
  holds with the consumer inside;
- `DeliveryInvariant`: `DeliverySpec => []DeliveryInv`;
- `DeliveryTypeCorrect`, `PublishedIsDelivered`, `OptedOutIsSilent`,
  `EmailsArePaidFor`, `MailTakesNothingElse`: the invariants of
  `delivery_safety`.

`DeliveryInv` has `IInv` and the types, and

- `ReadRightly`, `DoneSoFar`: what a dispatch goes by the recipient has once
  chosen, and what it has come past is done; `ProcessedMeansDelivered` and
  `MailComesLast` carry that over to events whose consumer has resolved, or has
  failed at the e-mail;
- `EmailsAccounted`: the hard one. `EmailsPaidFor` bounds the e-mails *sent*; a
  worker that is late but has not mailed yet could send one more at any time. So
  the invariant counts those too (`LateFor`), and allows one e-mail beyond doubts
  and incidents only once the event is `Closed`: published, or its mail done by a
  worker that is in time. It rests on two facts: two workers in time never have
  the same event (`OneInTime`, from `HeldIsOwnedUnlessLate`), so time makes one
  worker late for an event at most and that is one incident; and an event that is
  closed is opened again only by an incident (`ClosedStays`).

### Sessions (`SessionsProofs`)

From `IdsAssumption` and `DatesAssumption`:

- `SessionsInvariant`: `Spec => []SessionsInv`;
- `SessionsTypeCorrect`, `OneLiveTokenEach`, `ReplaysAreFatal`,
  `RevocationsHaveCauses`, `DeadlocksTakeASweep`: the invariants of the two runs;
- `OnlyTheExpiredAreForgotten` and `RevocationsAreAnnounced`: the action
  properties `PurgeTakesOnlyTheExpired` and `NothingUnannounced`;
- `SessionsImplementFamily`: the refinement of `TokenFamily`.

`SessionsInv` has two parts besides types and causes:

- of the tables: a token follows its session (`TokensFollowSessions`: same end,
  and no later expiry, which is why a purge by session dates is safe), its status
  tells its past (`TokensTellTheirPast`), the latest token of a session is unique
  (`OneLatestToken`), and revoked tokens expire (`RevokedExpire`);
- of the requests: where a request is and which locks it has
  (`RequestsInPlace`), that locks exclude each other (`LocksExclude`), and that
  what a transaction read of a row it has locked is still so (`LocksProtect`).

The argument is the one row locks are there for. Every step is shown to write
only rows that nobody else has locked; then what others know stays true, and
their commits may rely on it. Without `LocksProtect` a rotation could commit over
a replay that had ended its session. `DeadlocksTakeASweep` follows from the order
token before session: who holds a session waits for nothing. In the refinement a
login, a rotation and whatever ends sessions map to one step each, the rest are
stutters; deleted rows keep their place, as nothing changes for the holders of
their tokens.

### Gateway (`GatewayProofs`)

From `GatewayAssumption`:

- `GatewayInvariant`: `Spec => []GatewayInv`;
- `GatewayTypeCorrect`, `TheLimitHolds`, `SlotsAreAccountedFor`,
  `NothingIsMissed`, `OnlyLateSocketsSurvive`: the invariants of
  `gateway_safety`.

`GatewayInv` adds `SlotsCounted` (the counter of an instance is the number of
sockets it reserved for: each step moves a socket in or out of that set and the
counter with it), `SocketsHosted`, `PublishedExist`, `UpToDate` (what
`NothingMissed` says of a socket in service already holds while the sync is
being written: a notification is in the answer, or came after the socket had
joined its room), `RevocationsSpread` (a revocation is still to be announced, or
each instance has it in its queue, has it behind it, or is known never to hear of
it) and `ToldAreGone` (an instance that acted on it has none left but late
ones).

### Deployment (`DeploymentProofs`)

For any finite set of files, from `FilesAssumption` and `IncidentsAssumption`:

- `DeploymentInvariant`: `DeploymentSpec => []DeploymentInv`;
- `DeploymentTypeCorrect`, `FilesInOrder` and `PoolOutlivesItsUsers`: the three
  invariants that `deployment` checks.

`MigrationsOrderly` says that the i-th file applied is the i-th file there is. That
the next one is again in its place depends on what the job that applies it knows,
so `DeploymentInv` adds:

- `AppliedInOrder`: what is applied is closed downwards and has no repetition;
- `LockedMigration`: only the holder of the advisory lock reads or applies, and what
  it knows when it applies is what is applied, also after a COMMIT whose answer was
  lost; a job that ends lets go of the lock;
- `ServerSafe` and `WorkerSafe`: who is closing was told to or failed to start, what
  stage its closing is at, and that a stage beyond a resource has that resource
  closed. `ServedByOpenPool` alone does not say why a signal that arrives during
  start-up finds nothing opened behind its back; these do.

`NextFileIsNext` counts: the least file not applied has exactly the applied ones
below it. That a set of naturals has a least element comes from the library's
well-foundedness of `<`, and the counts from its theorems about cardinality.

### Console and Feed (`ConsoleProofs`)

From `FeedAssumption` and `ConsoleAssumption`:

- `ConsoleInvariant`: `ConsoleSpec => []ConsoleInv`;
- `ConsoleTypeCorrect`, `ListsAreWhole`, `RestIsCurrent`: the invariants
  `ConsoleTypeOK`, `WholeUnlessCrossed` and `CurrentAtRest` of `client`, for any
  notifications with any timestamps, any size of a page and any number of loads
  in flight.

`PageFacts` says what a page is worth: it has the first rows behind its cursor, in
order, as they are, and whatever else is behind the cursor comes after its last
row and is announced by `hasMore`. It rests on every place in the order being
taken exactly once (`PlaceTaken`): ranks are an injection of the rows into as many
numbers, hence a surjection.

What is shown was read earlier, and asked for earlier still. `ConsoleInv` therefore
speaks of the answers under way as well as of the list:

- `PagesRight`: an answer is in order, lies behind its cursor and ends at the next;
  a first page leaves out no row that was there when it was read and still is.
  `BasesExist` has that no row enters a base afterwards;
- `PagesContinue`: a page to append that no other load has overtaken starts where
  the list ends and leaves out nothing of the list's base. So joining it
  (`Joined`) keeps the list whole, which is `ListWhole`;
- `RepliesCurrent`: unless something has changed that the page has yet to ask for
  (`ReloadDue`), the answer that will be shown last is current: that of the first
  page asked for last, or, with no first page under way and no change or announcement
  lost since, that of the page that continues the list. `ListCurrent` says the same of the list once no first page
  is under way.

`CurrentAtRest` alone is not inductive because at rest nothing is left that
explains why the list is current; `ReloadDue` is what makes it so: whatever changes
a row while the socket is connected leaves an event or an answer that asks for the
first page again. The steps are proved conjunct by conjunct from three facts about
any step: rows do not come back (`RowsKept`), loads stay what they are
(`LoadsKept`), and only `LoadShown` changes the list (`ListKept`).

### Preferences and Windows (`PreferencesProofs`, `WindowsProofs`)

- `ChoicesAreKept` (`PreferenceKept`) from `PreferencesAssumption`, by
  `PreferencesInvariant`: as long as nothing is in doubt there is at most one save
  in flight, it carries all the user chose, and once it is served the row has it
  (`OneFaithfulSave`).
- `HandshakesAreLimited` (`HandshakesPerMinute`) and
  `MessagesAreLimitedPerWindow` (`MessagesPerWindow`) from `WindowsAssumption`, by
  `WindowsInvariant`. A bound on the minute as a whole is not inductive: when time
  passes, what leaves the history must leave the window too. `HandshakesKept` and
  `MessagesKept` therefore compare the two for *every* part of a minute, which time
  only moves up. The lemmas say what the filter (`RecentKeeps`, by a bijection of
  positions), an append, the sweep and time do to the counts.

## 5. What is only model-checked

- Liveness (`Settles`, `StopCompletes`, `RequestsEnd`, `EndsWhenTold`,
  `ComesUp`): the prover has no rules for fairness and `ENABLED`.
- What a sorted page is: that the places of rows (`InPlace`) are those of the
  sorted sequence is checked by TLC on the instance (`PlacesSort`), as is
  `RecentIsTheFilter` for `Windows`: sorting and filtering recurse over data.

Every safety invariant and action property that a passing run checks is a theorem.

## 6. Disagreements found

1. `outbox_attempt_limit`: README.md:468 calls `OUTBOX_MAX_ATTEMPTS` "Attempts
   before an event is dead-lettered." The limit is looked at only when an
   attempt fails. One that ends with its process, or outlives its lease, is
   claimed again without a look at the limit.
2. `delivery_recreated`: README.md:647-648 has a duplicate event ignored by
   notification creation. Not if the recipient has deleted the notification in
   the meantime.
3. `delivery_redis_gone`: `config/redis.js:26` says that without Redis nothing
   is lost. The e-mail is: a refused publish throws before it is tried, until
   the event is dead-lettered.
4. `gateway_slots`: `websocket.test.js:93` has a connection slot released on
   disconnect. The listener is registered after the unread query; a socket that
   goes away during it keeps its slot for good.
5. `messages_per_minute`: README.md:474 gives `WS_MAX_MESSAGES_PER_MINUTE` as
   "Maximum inbound Socket.IO events per IP in a rolling minute." The window is
   dropped with the last connection of the address (`websocket/index.js:145`):
   an address that reconnects within the minute starts a new one. The handshake
   window is kept, and bounds how often it can.

Some behaviours were met in modelling for which no document says otherwise, or
which a property states as its exception. They have no run of their own:

- *Limits per instance.* Connections, handshakes and messages are counted by
  each instance for itself; an address has as many as instances times the limit.
- *A worker told too early.* A signal before the health server of `worker.js`
  exists stops nothing: start-up goes on, the worker claims and processes, and
  ten seconds later the timer ends the process under it.
- *Load more across a refresh.* "Refresh" forgets the cursor at once; "load
  more" before the page is in asks for the first page and appends it. A page
  asked for while another load is shown is appended to what it does not
  continue (`demo.js:440`). Both repeat or leave out rows until the next load:
  the exception of `WholeUnlessCrossed`.
- *Overlapping saves.* Each save sends both channels as known before it; two in
  flight undo one another (`demo.js:556`): the exception of `PreferenceKept`.
- *Two first migrations.* `CREATE TABLE IF NOT EXISTS` (`migrate.js:48`) is run
  before the lock is taken, and the slower of two jobs may fail on it; its retry
  succeeds.

## 7. What is not modelled

Metrics, HTTP plumbing, rendering, parsing and configuration: they decide nothing
that another step depends on. Offset pages and the unread count: read-only, and
no client pages by offset. The HTTP rate limit: a library's, over Redis. Exit
codes, and the draining of HTTP requests at shutdown. Of the demo console:
signing out or in as somebody else while requests are in flight, its token
refresh, its list of sessions. `scripts/multi-instance-smoke.js` drives a
deployment from outside. The 15-minute access tokens issued before there were
sessions are left out of `Sessions`. `PROJECT.json` says of each part why.

## 8. Plan

All modules planned are written, and every safety property the runs check is
proved. What is left of the model is signing out in `Console` and the page's token
refresh against `Sessions`. What could be stated and proved on top is an abstract
specification of `Gateway`: a user's notifications and the devices they reach.
