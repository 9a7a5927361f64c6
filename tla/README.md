# Verification of NoApp's board and realtime path

NoApp is a small project board: a Go REST API over PostgreSQL, an outbox relay
that copies task events to Kafka, a realtime gateway that sends them to
browsers over WebSockets, and the browser code that merges REST answers and
events into one board. Its claim (`src/README.md`, "Realtime board updates") is
that every change of a task reaches every open board, through crashes,
duplicates and reconnects. This directory models that path end to end, with the
tokens it depends on and the simulator that drives it, one module per component
and one for the whole path. TLC checks all of it on small instances; TLAPS
proves every safety property among them for all values of the constants, and the
refinements that connect the modules.

## The system

| Component | State | Operations | Talks to |
|---|---|---|---|
| API write path (`internal/app/server.go`, `db/init.sql`) | tables users, projects, tasks, outbox_events; two serials; each request's transaction | createUser, createProject, createTask, updateTaskStatus, listings | PostgreSQL; browsers and simulator by REST |
| Event contract (`internal/events`) | - | NewTaskEvent, InsertOutbox, Decode | API, relay, gateway |
| Outbox relay (`internal/outbox`, `cmd/outbox-relay`) | claim columns of outbox_events; the batch in memory | claim, publishOne, fail | PostgreSQL, Kafka |
| Realtime hub (`internal/realtime`, `cmd/realtime`) | clients, subscriptions, one channel of 64 per client; Kafka position and committed offsets | ServeHTTP, writeLoop, Broadcast, consume | Kafka, browsers, verifier |
| Board client (`internal/app/web/app.js`) | projectId, tasks, projects with task counts, socket and its generation, tokens | loadProjects, loadBoard, applyTask, forms, connectRealtime, applyTokens, logout, callbacks | API by REST, hub by WebSocket, Keycloak |
| Token verifier (`internal/auth`) | JWKS cache | Verify, key, refresh | Keycloak; API and hub call it |
| Traffic simulator (`internal/simulator`) | run state, teams, projects and tasks it owns, token | Start, Stop, SetSpeed, run | API by REST |
| Telemetry, Keycloak, NGINX, Grafana stack | - | exporters and third-party services | everything |

What is hard here, and hard to test, is listed line by line under `hazards` in
`PROJECT.json`. In short: transactions of concurrent requests; leases that
expire under a relay still working; a crash between Kafka's acknowledgement and
its record in the database; bounded channels; offset commits after the fact;
answers, events and subscriptions that travel on different connections and
overtake each other; token refreshes that overlap with sockets coming and going;
key sets fetched by several requests at once; simulator runs that end while their
requests are still under way.

What makes each part correct:

- write path: a task's versions, its events and the replies to its clients
  agree, whatever interleaves or fails;
- relay: leases exclude, an event is settled once and for good, published means
  in the topic, every event settles;
- hub: a connection that lost an event does not survive it, no record is
  skipped, expired and cancelled clients leave;
- board: a tab at rest shows what is committed, its project, and no more tasks
  than there are; a tab without a connection gets one;
- session: the hub has the tab's token, and a replaced socket does not live on;
- whole path: a committed change reaches the board, or its event was given up;
- verifier: a withdrawn key ends, a published key works;
- simulator: one run at a time, which ends when told to, touches only its own
  tasks, keeps its limits, and never loses an answer without counting an error.

## Modules

| Module | What it is |
|---|---|
| `TaskStore` | the write path; `MCTaskStore` its instances, `TaskStoreProofs` its theorems |
| `EventFeed` | abstract: what the outbox promises to a reader of the topic |
| `OutboxRelay` | the relays; refines `EventFeed`; `MCOutboxRelay`, `OutboxRelayProofs` |
| `RealtimeHub` | the gateway; `MCRealtimeHub`, `RealtimeHubProofs` |
| `BoardClient` | a browser tab and what it sees of the services; `MCBoardClient`, `BoardClientProofs` |
| `ProjectList` | extends `BoardClient` by the task counts of the project select; `MCProjectList`, `BoardCompositionProofs` |
| `LiveBoard` | composes `BoardClient`, `EventFeed` and the gateway's consumer; `MCLiveBoard`, `BoardCompositionProofs` |
| `BrowserSession` | the tab's tokens, its sockets of all generations and the hub's side of them; `MCBrowserSession`, `BrowserSessionProofs` |
| `TokenVerifier` | requests, key cache and issuer; `MCTokenVerifier`, `TokenVerifierProofs` |
| `Simulator` | the engine, its runs and what the API makes of its requests; `MCSimulator`, `SimulatorProofs` |

The modules meet at interfaces that each states as an assumption on the next:
`TaskStore` shows that a version determines the task snapshot and that every
version has one event, which is why `BoardClient` carries versions only.
`EventFeed` says that the topic has every event at least once and in any order,
which is all that `BoardClient` assumes of `Broadcast`; `LiveBoard` puts
`EventFeed` itself and the consumer's offsets in its place. `RealtimeHub` shows that
a connection with a gap is closed, which is why the socket of `BoardClient`
loses messages only by closing.

Definitions marked "Mutant" are not part of a specification. Each is a plausible
slip in the definition below it, and `PROJECT.json` names the property that
notices it.

### TaskStore

A task write is three steps: Begin with the INSERT or UPDATE (`CreateTask`,
`UpdateTask`), `InsertOutbox`, and `Commit`. `tx[h]` is the envelope of the open
transaction, invisible to the others; `drawn[h]` the outbox sequence it took.
The row lock of the UPDATE is `LockedByOther`; READ COMMITTED re-reads the row
it waited for, so an `UpdateTask` always starts from the committed version.
`Rollback` stands for a failing statement, a failing commit, a cancelled request
and a crash of the replica; `CommitUnacknowledged` for a commit that is applied
and answered with 500. Sequence and id numbers are not given back. `Deny`,
`Refuse`, `CreateTaskDangling` and `UpdateTaskNotFound` are the error replies.
`Init` has seeded tasks at version 1 without events: init.sql's own task, and
those of a volume from before `002_realtime.sql`. Titles, descriptions and dates
are left out: no decision depends on them after validation. Deletion has no
endpoint.

### OutboxRelay

One variable per column that the relay uses, plus each worker's program counter,
row locks, batch, current item and remaining lease. Times are kept relative to
now(), and `Tick` passes one unit. `ClaimBegin`/`ClaimCommit` split the claim
transaction around its row locks (`FOR UPDATE SKIP LOCKED`);
`ClaimCommitUnacknowledged` and `ClaimRollback` are its failures. `DecodeFails`,
`PublishAcknowledged` and `PublishFails` are the outcomes of the first half of
`publishOne`; `MarkPublished`, `MarkWithoutEffect`, `Fail` and
`FailWithoutEffect` the outcomes of the two UPDATEs. The batch is a set, because
`UPDATE ... RETURNING` promises no order. `Crash` covers shutdown in the middle
of a batch; `Restart` comes back under the same host name, hence the same
WorkerID. Not modelled: a record that Kafka appends after ProduceSync has
returned an error and after the outcome was recorded (the append happens with
the error or not at all), a statement of a crashed relay that PostgreSQL still
executes, and clock differences between the relay (which computes
next_attempt_at) and the database.

### RealtimeHub

`position`, `committed` and `topic` count the records of each project, which is
the key and so one partition. `Broadcast` is atomic up to the unlock, since each
client takes or refuses the payload independently; `CancelSlow` is the loop that
follows. `send` is the channel, shared by control messages and events. `Write`
may still take a payload after a cancellation because Go's select chooses among
ready cases. `WriterReturns` is a failed write or ping or a done context,
`PingExpired` the ping that finds the token expired, `ReaderReturns` the end of
ServeHTTP with its deferred cancel, remove and CloseNow. `Crash` restarts the
process; `Rejoin` is the consumer losing its group session, after which it
resumes at the committed offsets while the connections stay open, so that one
connection can see a record twice. `owed` and `broadcast` are history, for the
properties.

### BoardClient

The tab's callbacks are single steps, because JavaScript runs them to their next
await. `loads` holds the calls of loadBoard that are under way: `StartLoad` is
the part before the await, `ServeLoad` the API reading the tasks, `LoadReturns`
the part after. `toHub` and `toTab` are the two directions of the socket of the
current generation; messages of an older generation are ignored by the code and
dropped here. `races` records the three ways in which a board can fall behind:
an older snapshot over a newer task, an event broadcast while the hub had not
yet read the subscription, and a failed load. connectRealtime is split at its
await: `AwaitToken` counts the calls that wait, `ConnectGoesOn` takes a new
generation. `Init` is start() with the first load under way, after which it
connects (`Continue`); `ConnectEarly` is an online event before that.

### ProjectList

The same tab with `state.projects`. `ServeList` is listProjects counting tasks,
`OpenListed` the rest of loadProjects: the new list and the selection of the new
project. `CountCreated` is the count that applyTask corrects. The list's answer
may be read long before it arrives.

### LiveBoard

`Write` is the tab's or somebody's change together with `EventFeed`'s `Insert`;
`Publish` and `SettleEvent` are `EventFeed`'s steps and stand for the relays,
which `OutboxRelay` shows to implement them. `ProcessRecord` is `BoardClient`'s
`Broadcast` of the record at the consumer's position; `CommitRecords`, `Rejoin`
and `Restart` move the offsets as in `RealtimeHub`. The connection itself stays
reduced to what the tab sees of it.

### BrowserSession

Time passes in `Tick`, and every token is the time it has left. `calls` are the
calls of refreshTokenIfNeeded that await an answer, for api or for
connectRealtime. `left` is `state.auth.expiresAt`, which counts from the arrival
of the answer, `real` the expiry of the token itself, which counts from its
issue. A socket carries the authenticate messages on their way and the expiry
the hub has on record. connectRealtime after its await is `NewSocket`: the socket
before it moves to `stale`, keeps its connection, and its callbacks no longer do
anything but close. `HubGivesUp` are the hub's reasons to close: no
authentication in time, an expired token, an expiry found by the ping. `logout`
and `RefreshFails` (beginLogin) lead to `Unload`. A connectRealtime that waits
while the user logs out goes on and opens a socket; the page's end closes it.
`ConnectionLost` is a connection that breaks although the hub would keep it;
`TokenOutrun` is a `Tick` with which a token expires that is on its way, to the tab
or to the hub.
Login itself, with its code exchange, comes before `Init`.

### TokenVerifier

`jwks` is the history of the issuer's key sets; caches and answers are indexes
into it. Verify is one step when the key is cached and fresh (`VerifyCached`),
otherwise `StartRefresh`, `ServeJWKS`, `Store` and `Conclude`, with
`RefreshFails` at any point. `Store` sets fetched to now, whenever its answer was
read; `Conclude` is the second look into the cache, which does not ask for its
age. Nothing orders the steps of two requests. A token is the outcomes of
Verify's checks and its times; `Malformed` stands for what is refused before the
key is looked up. Only fetches take time, at most `Timeout`.

### Simulator

Start, Stop and SetSpeed come from the control API; `Restart` is the process
ending and coming back. `run[s]` is the goroutine of session s: the place in
bootstrap or the loop, and the request under way. `Serve` is the API, `CallFails`
every way for a request to end badly, with the request carried out already, not
at all, or later (`late`, `ServeLate`). The context is looked at where the code
looks: before users and projects, after bootstrap, in the loop; a cancelled
backlog only runs into errors (`SkipTask`). `OthersMove` is another editor, in a
browser or with the API, who changes the status of a task of the current run:
`updateTaskStatus` looks neither at who created a task nor at the status it had.
Every task carries who wrote it last, the run or others. What others create in
the run's projects is not its own and left out. Actions are chosen freely, whatever
their shares, and pauses take any time.

## Runs

| Run | Instance | Shows |
|---|---|---|
| `relay_safety` | 2 relays, 2 rows, batch 2, lease 1, backoff up to 2, 2 attempts | `RelayInv` (inductive), `LeaseExclusion`, `DeadIffExhausted`, `PublishedReachedTopic`, `SettledRowsFrozen`, and the refinement `ImplementsFeed` |
| `relay_liveness` | 1 relay, 2 rows, the first undecodable, batch 1 | `EveryEventSettles` |
| `relay_dead_report` | 2 relays, 1 row | violated: `DeadReportIsTrue` |
| `task_store` | 2 requests, a seeded task and a new one, 3 events, 2 projects, 1 user, statuses empty, valid and invalid | `OpenTransactionsFit` (types, and what a request is about to commit still fits), `EventPerVersion`, `SequenceFollowsVersion`, `ReplayGivesTable`, `AcknowledgedIsDurable`, `VersionsCountWrites` |
| `hub` | 1 connection, 2 projects with up to 2 records each and 3 together, one corrupt, channel of 2 | `HubInv` (types, channel bound, committed implies broadcast), `NoSilentGap`, `NoRecordSkipped`, `CancelledClientsLeave`, `ExpiredSessionsEnd`, `EveryRecordBroadcast` |
| `board` | 2 projects, 1 task with 2 versions, 2 loads at once | `BoardInv` (types, subscription follows selection), `OnlyKnownRaces`, `BoardIsOneProject`, `EventsNeverRegress`, `CountedOnceWhenLoaded` |
| `live` | 1 project, 1 task with 2 versions, each event in the topic once, repeated by rejoins and restarts | `OnlyDeadLettersLag`, `ChangesReachBoard`, `ReconnectsEventually`, `StartConnects` |
| `board_stale_snapshot` | 1 task, 2 versions | violated: `ReloadKeepsNewerTasks` |
| `board_late_subscription` | 1 task, 2 versions | violated: `ReloadClosesGap` |
| `session` | tokens of 3 units renewed 1 ahead, 2 calls at once, 1 former socket, 2 messages on the way | `SessionInv` (types, the hub has the tab's token), `StaleSocketsEnd`, `ReconnectsOrLeaves` |
| `verifier` | 2 requests, 3 keys of which one is not for signing, 3 key sets, cache and timeout of 1 unit | `VerifierInv` (inductive), `WithdrawnKeysEnd`, `RefusedOnlyWhenOvertaken`, `PublishedKeysWork` |
| `sim` | 2 runs, 1 team of 1 worker with 2 projects at most, 2 tasks, 1 late request, tasks set to "done" by others | `EngineInv` (types, one run at a time), `DriftIsCounted`, `OwnTasksOnly`, `ProjectLimits`, `StopsWhenTold` |

Bounds. Two relays and two rows are enough for every conflict of a lease: a
third relay can only repeat what the second does to a row, and rows interact
only through the batch. With a lease of 1, `Tick` can end it at every point of a
batch. Two attempts make one retry and one dead letter. `MaxLog` only limits how
often the topic can grow: a relay whose log is full still fails or loses its
claim. Two requests are enough for a conflict on a task, and three events give
two conflicting writes of one task and one of another. In the hub, connections
do not influence each other, so one is enough; a channel of two can be filled by
control messages, events or both; `MaxOwed` limits rejoins, not crashes. In the
board, two loads can overtake each other, `MaxQueue` = 1 makes every message wait
for the one before and blocks no order between the two directions, and with two
versions an event can be older than what is shown; one of the projects stays
empty, since a task of its own would only repeat what the other's does. `NoRace`
in `board` stops after a race, which `OnlyKnownRaces` excuses: a failed load is
excused by the other invariants too, and the other races change neither selection
nor subscription; `Relevant` is a view that drops the task
counts once `CountedOnceWhenLoaded` excuses them. In `live`, `RaceBeforeWrites`
follows a race up only while nothing was written: the promise of
`ChangesReachBoard` is met by a race, and what is kept loses no fair step.
Rejoins and restarts repeat records there, so one record for each event is
enough. In `session`, tokens of three units can be good, about to expire or
expired, in each of the tab's and the hub's pictures. In `verifier`, three key
sets let a key come and go, and two requests let an older answer replace a newer
one; a third could only do so again. The second token there is never accepted
and keeps the cache moving. In `sim`, one team of two projects keeps the code's
proportion of five teams to ten projects; two runs are enough for one to be
confused with the next. Others set tasks to "done" only, which can be ahead of the
engine's picture or undone by its next change; tasks of former runs, which nobody
reads, are not moved. `WorkerSymmetry` and
`HandlerSymmetry` are sound because no definition names a particular element;
runs with liveness use none.

Fairness. `OutboxRelay`: time passes and processes restart (weak); the steps of
a relay are strongly fair, since crashes and errors disable them again and
again: the assumption is that no fault recurs for ever at the very same step.
The code justifies it by polling for ever (`Run`) and by compose's restart
policy. One relay only: with two, TLC finds the behaviour in which both are so
slow that each lease runs out before its row is recorded and the other relay takes
it over, for ever; the code has nothing against it but a lease of 30 seconds.
`RealtimeHub`: goroutines with a cancelled context, a ready ticker or records to
process get their turn (Go's scheduler and select), and crashes and
rejoins end; connections, messages and commits are not assumed to happen.
`BoardClient`: timers and callbacks run, services answer, and the network
eventually stops breaking the connection. Strong fairness of `ReceiveReady`
makes up for `MaxLoads`, which may block it now and again. `LiveBoard`: the tab's,
every event is published and settled, which `EveryEventSettles` justifies, the
consumer goes on, and its trouble ends. `BrowserSession`: time passes, timers
and callbacks run, the hub reads and pings, a refresh is answered or fails; strong
fairness makes up for the bounds and for tokens that another call renews first. Two
kinds of trouble end: connections break only when the hub closes them
(`ConnectionLost`), and a token does not expire on its way (`TokenOutrun`). The
hub's own closing is not assumed to end. A tab that makes no call has no timer for its
token, so the hub closes its connection each time the token expires, the tab
reconnects with a new one, and so on for ever; a token whose answer was late
expires while the tab still trusts it, and until its own clock tells, the hub
closes every connection opened with it. Both are fair behaviours. Without the
assumption on `TokenOutrun`, TLC finds the provider whose every answer is spent
on arrival. The retry timer waits seconds, a token lives for minutes: it is
strongly fair outside the moments with an expired token that the tab still trusts,
without which TLC finds the timer that fires in such moments only. `TokenVerifier`: requests run to their
end, clients keep coming back with a valid token of each key they hold, and the
issuer's endpoint does not fail every time. `Simulator`: the goroutine gets its
turn and the client's timeout ends a request; the API is not assumed to answer,
and other editors may or may not move tasks.

### What disagrees with the documents

- `relay_dead_report`. `fail` reports an event as dead-lettered whether or not
  its UPDATE matched a row. With an expired lease the row can at the same time
  be published by another relay: the metric and the log are wrong, the data are
  right (`DeadIffExhausted`).
- `board_stale_snapshot`. `loadBoard` replaces the board without comparing
  versions, unlike `applyTask`. A snapshot read before a change and delivered
  after its event takes the task back until the next reload.
- `board_late_subscription`. After ready, the subscription and the reload travel
  to two services; an event can fall between the snapshot and the subscription.
  Waiting for "subscribed" before loading would close this gap.

`OnlyKnownRaces` shows that, within the bounds, these two and failed loads are
the only ways in which a board at rest can differ from the database, and
`OnlyDeadLettersLag` adds the fourth: the latest event of a task was given up.

Three more observations, made while the models were written, have no run of their
own:

- `applyTask` adds one to a project's task count when the task was not in
  `state.tasks`. While the board of a newly selected project is loading that map
  holds another board, so a repeated event, or one about a status, counts a task
  that the list has counted already (app.js:111, README "make delivery
  idempotent"). `CountedOnceWhenLoaded` shows that nothing else overcounts.
- `run` sets the phase to "running" after bootstrap without looking at its
  context: a Stop between the two shows "running" until the run has ended
  (engine.go:200). `StopsWhenTold` shows that it does end.
- The simulator's limit counts the projects whose creation was answered. A
  creation that is committed and not answered is not counted, so the API may hold
  more than the ten of `src/README.md` (engine.go:298). `ProjectLimits` holds of
  what the engine owns; `DriftIsCounted` shows that a difference in the projects
  implies an error on record.

## Proofs

Seven components have a module of theorems, and `BoardCompositionProofs` has
those of the two specifications that extend the tab. They state every invariant
and every action property that a passing run checks, the refinement that
`relay_safety` checks, and three more refinements, for every value of the
constants that satisfies the assumptions. Each theorem rests on an inductive
invariant, named here with the reason for each part.

OutboxRelay. `LeaseExclusion` and `DeadIffExhausted` are not inductive: they
depend on what a worker that is out of lease may still believe. The
strengthening `RelayInv` adds four facts. `WorkerShape`: locks exist only inside
a claim, an item only between producing and recording, no row twice in a batch,
and an item about to be marked is in the topic. `LockShape`: locked rows are
unsettled, out of lease and locked once. `ClaimShape`: while a lease runs, the
row is the worker's, and while the row is the worker's, the attempt count it
read and the expiry are the row's; this is what makes the stale dead-letter
decision right whenever its UPDATE matches. `RowShape`: a claimed row is
unsettled, so the WHERE clauses, which do not mention dead_at, never match a
dead row. Each action has a lemma that preserves `RelayInv`. `LeaseExclusion`
follows from it without further induction; the refinement takes each action to
the abstract step it implements or to a stutter.

TaskStore. `StoreInv`, in the module of the proofs, is inductive. It joins the four
properties of what is committed and answered with `OpenTransactionsFit`:
`DrawnShape` (ids and sequences in use were drawn, a row carries its own id) and
`TxShape` (an open transaction is the only one on its task, holds the next version
of it, and its sequence is unused and past all others of the task). The last part of `TxShape` is why
the two statements of a transaction cannot number events against versions: the
row lock is held while the sequence is drawn.

TokenVerifier. That no key is accepted later than `Window + Timeout` after its
withdrawal depends on how old an answer may be when it is stored. `KeysAreRecent`
follows the keys on their way: those of an answer were withdrawn no longer ago
than the request has waited, hence at most `Timeout`; those of the cache no longer
than its age and `Timeout` together while it is fresh; and a request that has
stored finds a cache of age 0, because `Tick` waits for it, which is what makes
the second look harmless although it ignores the age.

`RefusedOnlyWhenOvertaken` needs one fact more: while a request stands between its
store and its second look, the cache holds its answer or a newer one, or an older
answer was stored over it and that is on record. Every key set from the answer on
has the key, so the one in the cache has.

RealtimeHub. The consumer alone makes `HubInv` and `NoRecordSkipped`:
`ConsumerInv` adds to the two that every decodable record before the *position*,
not only before the committed offset, was broadcast, since a commit moves the
offset up to the position and a rejoin moves the position back. `NoSilentGap` is
made inductive by stating it of every connection that is neither cancelled nor
dropping, before it is served as well: a new connection is owed nothing and has
nothing. The proof rests on lemmas about the events among the messages of a
channel: a control message appended changes neither their number nor their
order, an event appended is the next one owed, and a write moves the first one
from the channel to what was received. Broadcast appends to channel and debt at
once or marks the client, in the same critical section as the code.

BrowserSession. `SessionInv` is inductive. Its proof says for each action which
token the tab has, what the last authenticate message is, and that a socket that
is replaced takes its messages with it.

BoardClient. `TabInv` says what everything under way is for. A socket that is not
connected is empty (`IdleSocketIsEmpty`) and its first message is the
authentication (`AuthenticatesFirst`), so a "ready" is the answer to it. No version
on the tab, or on its way to it, is newer than the database (`NothingNewer`), and an
answer of listTasks has its own project's tasks only (`AnswersFit`).
`SubscriptionFollows`: a ready tab is subscribed to the selected project, or asked
for it last, or will when a load returns. `BoardFollows`: the board is of the
selected project, or that one is being loaded. `ChangesOnTheirWay`, from which
`OnlyKnownRaces` follows: until a race is lost, the committed version of every task
of the selected project is on the board, in an answer under way, in an event
not yet broadcast, in a message to the tab, or a load will be served after it.
`EventsNeverRegress` needs the types only.

LiveBoard and ProjectList. `FeedInv` ties the topic to the tab: an event is
written exactly when its version is, the topic has written events only,
whatever is marked published is in it, and what lies before the consumer's
position was broadcast. From this, `LiveBoardIsATab`: each record the consumer
comes to is of a committed version, so that the step is the tab's `Broadcast`, and
all theorems about the tab hold of the whole path. `LiveBoardReadsAFeed` with
`RelayImplementsFeed` closes the chain from the relays to the board.
`OnlyDeadLettersLag` follows from `TabInv` and `FeedInv` together: what is missing
from a board at rest was never broadcast, so it is not before the position,
so it was not published, so it was given up. `ListInv` makes
`CountedOnceWhenLoaded` inductive: unless one of the excused races happened, what is
counted for the selected project is on the board, or in the answer of a load of
that project, or such a load is still to be served (`CountedAreShown`). An
answer that takes a task off the board again is on record as a race.

Simulator. `SimInv` says, besides the state machine of `EngineInv`, that sessions to
come have done nothing (`FutureIsBlank`), which request a run sends at which place
and what its answer implies (`RunsFit`), that tasks and requests to change one are
of the run that has them, late requests included (`OwnTasks`), that the limit which
createAnotherProject looked at still holds when its answer arrives
(`StageKeepsLimits`: one request at a time), and that until an error is counted the
engine's picture, corrected by an answer that has come and is still to be noted, has
the API's tasks and projects of the run and the status of each task that the run
wrote last (`InStep`, from which `DriftIsCounted`). Of a task that another editor
moved last the engine knows that it exists, not its status.

Assumptions: the bounds and sizes are naturals (those that `New` normalises are
positive), `Poison` and `Corrupt` are sets of events, `NULL` and the control message
"authenticate" differ from the values they are compared with, tasks are finitely
many (`TasksAssumption` of `ProjectList`), a token lives longer than its refresh
margin, and the simulator's teams are no more than its projects (5 and 10 in
engine.go), without which bootstrap itself would break the limit.

Only model-checked: liveness and whatever needs ENABLED, which is beyond the
prover: `EveryEventSettles`, `CancelledClientsLeave`, `ExpiredSessionsEnd`,
`EveryRecordBroadcast`, `ChangesReachBoard`, `ReconnectsEventually`,
`StartConnects`, `StaleSocketsEnd`, `ReconnectsOrLeaves`, `PublishedKeysWork` and
`StopsWhenTold`. That they hold for larger instances is argued by their bounds
above, not proved.

## Not modelled

Telemetry, apart from the dead-letter counter; start-up, health endpoints and
the listings of users and single projects, which change nothing; third-party
services, except as the modules use them. Of the browser: the login with its
code exchange, a tab without any project, and rendering. Of the verifier:
cryptography and decoding, which are outcomes of a token, and the roles, which
the callers look at. Of the simulator: the texts, the activity log, the shares
of the actions, and the client's cached service token. do() sends that token
until it is about to expire, also when the API refuses it (client.go:137); the
model has such requests among those that fail. Several gateways in one consumer
group are excluded by `src/README.md` itself.

## Plan

The safety properties are proved. What is left is to prove the interfaces that
the modules only state as assumptions on each other:

1. `RealtimeHub` against the connection that `BoardClient` assumes: what a browser
   receives between a subscription and the end of its connection is, in order and
   without a gap, what was broadcast to it.
2. `TaskStore` against the committed versions and events that `LiveBoard`'s `Write`
   assumes: one event for each version, committed with it, numbered in order.
3. `OutboxRelay` and `LiveBoard` in one specification, so that the chain of
   `RelayImplementsFeed` and `LiveBoardReadsAFeed` is a theorem by itself.
