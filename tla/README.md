# PlayLiquid: models, checks and proofs

TLA+ models of PlayLiquid's event-sourced back end: what TLC checks about them on
small instances, and what TLAPS proves for every instance. The models follow
the TypeScript under `src/src` (paths below are relative to it) and
`prisma/schema.prisma`; `PROJECT.json` maps every definition to its lines.

## 1. Inventory

The back end is a Next.js service on PostgreSQL (through Prisma) with optional
Redis. Commands write events; background loops carry them on.

    request -> command bus -> idempotency -> transaction -> handler
                                                |  loads and saves aggregates
                                                v
          one PostgreSQL transaction: EventRecord + OutboxMessage + Snapshot
                 |                                  |
                 v  (ordered by row id)             v  (ordered by createdAt)
          projection engine                    outbox relay -> event bus
                 |
                 v
          read models (wallet, leaderboard, statistics)

| Component | State | Operations | Hard because |
|---|---|---|---|
| Command pipeline: `application/buses`, `application/pipelines`, `infrastructure/database` | idempotency records, the transaction of each request | dispatch, get and set of a key, BEGIN, COMMIT, rollback | key checked and recorded outside the transaction; the Result is decided before COMMIT |
| Event store, snapshots, repositories: `infrastructure/event-store`, `infrastructure/repositories`, `domain/shared/aggregate` | EventRecord, Snapshot, OutboxMessage rows; aggregates in memory | load from snapshot, append with expected version, save | optimistic concurrency: version check, unique index, aborted transactions |
| Membership commands: `application/commands/identity/organization-commands.ts` | two streams, organization and user, that mirror each other | AddMember, RemoveMember, JoinOrganization | two saves, swallowed errors, opposite lock orders |
| Outbox relay: `infrastructure/outbox`, `infrastructure/event-bus` | status and retryCount of each message | poll, publish, mark, retry, give up | nothing claims a message; read-modify-write of the row |
| Projection engine: `infrastructure/projections` | checkpoints, read models | processBatch, rebuild | several runners, ids that commit out of order, crash before the checkpoint |
| Workers, routes, recovery: `infrastructure/workers`, `interfaces/workers`, `infrastructure/recovery` | loops, batches in flight | poll, trigger, purge, reset, rebuild | they run the same methods concurrently |
| Message queue, queue worker, DLQ: `infrastructure/queue`, `infrastructure/retry` | queued, in-flight and dead messages | publish, consume, ack, nack, replay | visibility timeout, waits for a slot, late answers, replays; nothing starts a worker yet |
| Scheduler, locks: `infrastructure/scheduler`, `infrastructure/locking`, `infrastructure/redis` | job records, locks with a ttl | tick, run, acquire, renew, release | lock expires under its holder, stale job records |
| Circuit breaker, webhooks: `infrastructure/circuit-breaker`, `infrastructure/webhook` | breaker state; deliveries, timers, dead letters | execute; dispatch, attempt, retry | calls in flight over state changes; attempts of one delivery beside each other |
| Sessions, tokens, rate limits | sessions, families of tokens, windows | create, rotate, revoke, consume | expiry and concurrent rotation |
| Beta launch: `domain/launch`, `application/commands/launch`, `infrastructure/launch` | a cohort's stream, CohortParticipant rows | create, invite, accept, revoke, project | commands look invitations up in a table that lags; races for the version |
| Economy API: `app/api/game/economy.ts` | wallet, session and leaderboard rows, events | deposit, purchase, end session | statements without a transaction; two projectors write the same rows |
| Roles, authorization and risk rules: `domain/identity/policies`, `application/authorization` | none (pure) | decide a request | candidates for operators checked over small inputs |
| Launch operations, other middlewares, security middleware, start-up and shutdown | single rows | record, report, check | little interaction; shutdown against a batch in flight |
| Caches, queries, read APIs, DI, external providers, observability, UI, `skills/` | little or none | reads, I/O, wiring | not a protocol |

What makes each part correct:

- *Write side.* Streams are contiguous; a command's guard held on the state its
  event follows; events and outbox messages agree; a snapshot is its stream's
  state; an ok answer is durable; a recorded key belongs to a committed
  command; the two sides of a membership agree; every request is answered.
- *Relay.* Nothing is marked that was not delivered; nothing is given up early
  or retried for ever; duplicates have a cause; every message settles.
- *Projections.* Events are handled in order, none is missed or counted twice,
  and each is handled in the end.
- *Queue.* No payload is lost; duplicates have a cause; every payload is handled
  or ends in the dead-letter queue; the concurrency limit holds.
- *Circuit breaker, webhooks.* A circuit is not closed over failures that open it,
  and closes once calls succeed; no delivery is forgotten, each settles, with one
  outcome.
- *Scheduler, locks.* One live runner per job.
- *Launch.* A cohort's stream is a legal history; its table catches up.
- *Economy.* Every unit of a balance has a source; no overdraft, one active
  session, no falling score, except by the races that are named.

`PROJECT.json` lists the hazards at their lines, with the property that covers
each, or the reason why none does yet.

## 2. Plan

Ordered by how much of the system rests on each part.

1. `CommandPipeline` with the abstract `EventLog` it implements. **Done**, proved.
2. `OutboxRelay`. **Done**, proved.
3. `ProjectionEngine`. **Done**, proved.
4. `GameEconomy`: the routes that write the rows `ProjectionEngine`'s projectors
   write. **Done**, proved.
5. `BetaCohort`: a client of the event store that reads its own projection.
   **Done**, proved.
6. `MessageQueue` with its worker and the DLQ. **Done** for the in-memory queue, proved.
   `RedisQueue`, the detailed version of the same at-least-once promise, has no user
   in the repository.
7. `Scheduler` over `LockProvider`: mutual exclusion while a lock is live,
   handlers that outlive it, job records written back.
8. `CircuitBreaker`, and `WebhookEngine` that calls through it. **Done**, proved.
9. Sessions and rate limits; the Game aggregate as a further kind of command.

"Proved" means every invariant and every action property of the runs, and the
refinement; liveness is model-checked.

## 3. Modules

| Module | Models | Composes |
|---|---|---|
| `EventLog` | the promise of the write side: an append-only log that grows by one whole command, announced in the outbox | |
| `CommandPipeline` | middlewares, membership handlers, event store, snapshots, outbox writes | implements `EventLog` (`INSTANCE ... WITH log <- events, announced <- outbox`) |
| `CommandPipeline_proofs` | theorems about the log and the outbox | extends `CommandPipeline`, `TLAPS` |
| `Membership_proofs` | theorems about what the rows mean: guards, snapshots, answers, mirrors | extends `CommandPipeline_proofs` |
| `OutboxRelay` | publishers, cleanup, recovery on the outbox rows | its `Arrive` is the outbox half of `EventLog`'s `Append` |
| `ProjectionEngine` | runners, rebuild, and the event table as readers see it | its rows are the events `EventLog` appends, with the ids PostgreSQL gives them |
| `GameEconomy` | the economy's routes, statement by statement, and the projectors of wallets and leaderboard | its `log` is the event table, its projectors run on `ProjectionEngine` |
| `BetaCohort` | a cohort's commands, its projector, the lookup of invitations | its saves are `CommandPipeline`'s transactions, its batches `ProjectionEngine`'s |
| `MessageQueue` | the in-memory queue, the queue worker, the dead-letter queue and its replays | |
| `CircuitBreaker` | one breaker and the calls in flight through it | |
| `WebhookEngine` | deliveries of one registration, their attempts and timers | one `CircuitBreaker` (`INSTANCE ... WITH Calls <- Requests, running <- posting`), whose actions are conjuncts of its own |
| `OutboxRelay_proofs`, `ProjectionEngine_proofs`, `GameEconomy_proofs`, `BetaCohort_proofs`, `MessageQueue_proofs`, `WebhookEngine_proofs` | theorems | extend their module and `TLAPS` |
| `MC*` | symmetry and constants for TLC | extend their module |

### CommandPipeline

A request is a process, a SQL statement is a step. `tx[r]` holds the rows r has
written and not committed; `Rows(r, s)` is what r's next statement sees at READ
COMMITTED. `Script(c)` is the order in which each handler loads and saves its
streams, so that one set of actions serves all handlers. Two of the handlers never
get that far in the deployed program: `di/composition-root.ts:554` passes
`AddMemberHandler` a null `roleRepo`, so it throws at `organization-commands.ts:139`,
and `:556` passes `JoinOrganizationHandler` no `orgRepo`, so it throws at `:292`; both
are rolled back before their first save. The model has the whole handlers, with the
repositories their constructors ask for, and the deployed ones are the behaviours in which these
commands always end in `SqlError`; what holds of all behaviours holds of those.

The actions:


- `ReplayRecorded`, `Proceed`, `Record`, `RecordError`, `Expire`: the idempotency middleware and its store.
- `Begin`, `Commit`, `SqlError`: the transaction middleware and `$transaction`.
  `Commit` also commits failed Results, because the callback *returns* them;
  COMMIT of an aborted transaction commits nothing.
- `LoadAggregate`: `getByIdWithSnapshot`. A load is two statements in the code,
  the snapshot and the events after it; a snapshot is never wrong and rows
  are never deleted, so any split sees what one step at the second one sees.
- `RejectCommand`, `SkipMirror`: the aggregate's guard throws; from the first
  aggregate that is `Result.fail`, from the mirror it is swallowed.
- `CheckVersion` / `StaleVersion`: raise the event in memory, compare
  `loadVersion` with the version loaded.
- `InsertEvent` / `InsertConflict`: the unique index; an INSERT waits while
  another open transaction holds the slot (`Holders`), and `DeadlockAbort` is
  PostgreSQL's detector.
- `WriteOutbox`: the rest of `save`, outbox messages and snapshot. These are
  two statements in one transaction that no other request can see between, and
  `SqlError` can follow, so they are one step.
- `Crash`: the process dies.

Abstracted: users and organizations exist and are active, roles exist, payloads
are their peer only; `UpdateProfile` stands for commands that save one
aggregate. Correlation, logging, metrics, validation and authorization hold no state.

### OutboxRelay

`Poll` is `getPending`; a publisher then takes the messages of its `batch` one by
one through `Publish` or `PublishThrows`, `MarkPublished` or `MarkThrows`
(effect or no effect: a lost reply), and on failure `FindExisting` and
`MarkFailed`, the two halves of `markFailed`. `Abandon` is a crash, or
`markFailed` throwing. `Purge` is the cleanup worker; rows are 7 or 30 days old
then, so it assumes that nobody holds the row. `FindStuck` and `ResetStuck` are
the operator's recovery, one at a time. Poison messages always throw; others
throw at most `MaxFaults` times in a behaviour. Messages are numbered by
createdAt; ties are broken by the number. `BatchSize` is per process.

`delivered`, `failures`, `shared`, `resets` and `faults` are history: no guard of the
code reads them (`faults` and `resets` bound the environment).

### ProjectionEngine

`InsertRow`, `CommitRow` and `AbortRow` are the writers as far as a reader can
tell: ids are allocated at the INSERT, rows become visible at the COMMIT, a
rollback leaves a gap. A runner goes through `GetCheckpoint`, `ReadBatch` or
`ReadNothing`, `Handle` or `HandleThrows` per event, `Save`; the rebuilder
through `StartRebuild`, `ResetCheckpoint` (whose errors are swallowed) and the
same reading actions until a batch is short. `Abandon` is a crash or a
statement that throws out of the method. There is one projector, because
`processBatch` treats projectors one after the other with separate
checkpoints; its `handle` adds, as WalletProjector's does. `handle` may fail
after it took effect.

`skipped`, `late`, `redo`, `overlapped` and `torn` are history that names the ways in
which the code can lose or repeat an event.

### GameEconomy

A request is a process that has no transaction: each statement of a route is an
action, and a route that throws (`InsertConflict`, a `Debit` or `PlaceScore` whose
row is gone) or dies (`Die`) leaves what it did. `createEvent` is two of them,
`ReadVersion` and `InsertEvent`; `pc` is the event the request is about to append or the
statement it is about to run, `After` what follows an event in its route. The
projectors handle the log in order, `ProjectWallet` by `increment`, `ProjectBoard` by
overwriting; `Restart` is a rebuild's reset. There is one game; ids are model
values; amounts are integers because the routes floor them.

A behaviour begins before any request, or after a first deposit, or after a
purchase, in the very state those calls leave (`Fresh`, `Funded`, `Playing`).

`stale` is history: a request whose read was outdated before it acted on it. The
code has no guard against that, so the properties say what follows *unless* it
happened.

### BetaCohort

`Decide` is a handler up to its save: load, the aggregate's guards (`CanInvite`,
`CanAccept`, `CanRevoke`, over `Status`, the replay of the stream), the new event.
`Save` appends it if the stream is still at the version loaded. `Accept` and
`Revoke` first find the invitation in `row`, the projector's table. A runner goes
through `ReadBatch`, for each event `FindRow` and `InsertRow`, or `UpdateRow`, and
`SaveCheckpoint`. An insert that fails throws and leaves the batch (`HandleThrows`,
with the engine's way of saving the checkpoint; the row may be there all the same,
if only the reply was lost), and no fault is needed for that
when the other runner has inserted the row since it was looked for
(`InsertConflict`); a status update that fails is swallowed (`UpdateFails`).

`RevokeWired` is TRUE in the run. In `di/composition-root.ts:586` the handler is
constructed without its lookup and throws on every call; with FALSE the model
has the remaining behaviours, which are among those checked.

`overlapped` and `missed` are history that names what the code does not repair.

### MessageQueue

JavaScript runs one callback at a time, so a step is the code between two
awaits. `calls[m]` counts the calls of the consumer for message m by the await they
are at: waiting for a slot, handling, handled, sending to the dead-letter queue;
one message can have several after a visibility timeout. `Ack` and `Nack` are the
queue's, no-ops without an in-flight entry. `Fail` is `handleFailure` up to its
first await; `SendFails` is a rejected `dlq.send` (stored or not), which ends in the
queue's automatic nack. A stopped worker nacks what it is given, and that counts
an attempt (`Dispatch`). A crash takes the memory, not the table. A replay is
`FindEntry`, `PublishEntry`, `MarkReplayed`.

The database rows are only those of one queue name; priorities and delays choose
an order among calls that can happen in any order, and are left out.

### CircuitBreaker

`Begin` is `execute` up to the await of the call, with the turn from open to
half-open; `Succeed` and `Fail` are the rest of it, in whatever state the breaker is
by then. The module has no specification of its own: its steps are joined with those
of a caller. Times are ages in ticks: `failures` holds those of the failures not yet
pruned, `sinceOpened` that of `openedAt`; an age stops growing where no condition
tells it from a greater one, so that time needs no bound.

### WebhookEngine

The in-memory store (the one the composition root uses) hands out the delivery
objects themselves and answers at once, so a step is the code from one request,
timer or caller to the next. An attempt is *called*, then *starts* (`Skip`,
`NoRegistration`, `Post` or `Refused`), and its request ends in `Delivered`,
`HttpError` or `NoAnswer`; the short retries of `withRetry` are one request.
Attempts have no state of their own but the delivery they share, so `called` counts
them. `HandleFailure` gives up, or sets a timer; both save the delivery, even if
`Unregister` dropped it. `Post` and the answers are joined with `Breaker!Begin`,
`Breaker!Succeed`, `Breaker!Fail`. The nonce cache is left out: the key it looks up
holds a payload id made a line before, so it has no hit.

`accepted`, `begun`, `doubled` and `retried` are history: `begun` counts the attempts
of a delivery that no timer of an earlier one began, and `retried` bounds retries by
hand to one for each delivery.

## 4. Checks

| Run | Bounds | States | What it shows |
|---|---|---|---|
| `pipeline_safety` | 1 organization, 1 user, 3 requests (symmetric), 1 key, snapshot every 2 | 1.5 M | the eight invariants of section 1's write side, and that the pipeline implements `EventLog` |
| `pipeline_answers` | 2 requests | 39 k | every request is answered, deadlocks included |
| `pipeline_rollback` | 2 requests, no keys | violation | **finding**: a failed command's first save is committed |
| `pipeline_dedup` | 2 requests, 1 key, no expiry | violation | **finding**: one key, two executions |
| `relay_delivery` | 2 messages, 2 publishers with batches of 1 and 2, MaxRetries 2, 2 faults, 1 reset | 1.9 M | delivery before marking, giving up, duplicates, retry budget, settling |
| `projection_delivery` | 2 rows, 2 runners, 1 rebuild, batch 2, 1 fault | 384 k | which events are lost or repeated, and that no others are; order; liveness |
| `projection_skip` | 2 rows, 1 runner, 1 fault | violation | **finding**: an event that fails in mid-batch is skipped for good |
| `projection_twice` | 2 rows, 1 runner, 1 fault | violation | **finding**: a balance is incremented twice for one event |
| `wallet_accounts` | 2 requests, 2 players, 3 sessions, 2 deposits, 2 scores, 2 deaths, 2 rebuilds (symmetric) | 1.4 M | where every unit of a balance comes from; overdrafts, second sessions and falling scores only by named races |
| `cohort_invitations` | 2 clients, 3 commands, 2 users, 2 invitations, 1 place, 2 runners with batches of 2, 1 fault | 968 k | the stream is a legal history, the table converges, invitations are found |
| `queue_delivery` | 2 payloads, 3 messages, 2 attempts, concurrency 1, 2 replayers, 1 fault | 475 k | nothing is lost, duplicates have a cause, everything settles |
| `webhook_delivery` | 1 delivery, 3 attempts, 2 beside each other, 1 retry by hand; breaker: thresholds 2, cooldown and window 1 tick | 1.1 M | never forgotten, at most one outcome for each start, settles; the circuit is not closed over failures that open it |

Why the bounds are enough to be interesting. Three requests on one stream pair
allow a conflict between two while a third commits, joins that follow leaves,
versions up to 4 and with SnapshotEvery 2 a snapshot with events before and
after it. Two requests suffice for a lock cycle, since each handler
saves two streams. Two messages with batches of 1 and 2 allow a batch that
overlaps partly, a poison message ahead of a good one, and with MaxRetries 2
both outcomes of `markFailed`. Two rows allow a late commit below the
checkpoint and a failure in mid-batch.

Two requests of the economy on one player reach every race over a wallet, a stream
version, a session and a score; that a player may begin with a deposit or a
session gives them the states a third and a fourth request would have made. The
deposits buy one or two sessions of one minute, the scores give a capped reward
and none; the route does not validate a score, so it may be negative too, which no
property depends on. Three commands of a cohort's two clients reach an invitation accepted twice or accepted
and revoked at once, and a place that is taken while another is invited. Three
messages are two payloads and a replay, or one payload replayed twice; a
concurrency of 1 makes one call wait for another, and two attempts reach both
outcomes of a failure.

Deliveries meet only in the breaker, and to the breaker two attempts of one delivery
are two calls like any others: one that began before the circuit opened can end
after it is half-open again. Three attempts let a doubled delivery pass the limit.

Deadlock is checked in the runs of `CommandPipeline`, `ProjectionEngine` and
`WebhookEngine` (where time always goes on, so that it says nothing). In the others the requests, messages or commands are finitely many and an idle system
has nothing to do.

### Fairness

- `CommandPipeline`: `WF(Step(r) \/ DeadlockAbort(r))`. A promise that can
  settle settles, and PostgreSQL's detector runs after `deadlock_timeout`. No
  error, crash or expiry has to happen.
- `OutboxRelay`: `WF(Continue(p))`, a batch that was started goes on;
  `WF(Poll(p))` only for the workers' loops, which poll for ever. Nobody has to
  call the route, purge or recover.
- `ProjectionEngine`: the same, with `GetCheckpoint` as the loop's poll.
- `BetaCohort`: `WF(Continue(w))` for the loop, from one batch to the next. No
  command has to be sent, nor completed; the route's runner may stop anywhere.
- `MessageQueue`: `WF(Deliver(m))`: the dispatch loop polls, calls go on, handlers
  end. Nobody has to publish, replay, stop or restart.
- `WebhookEngine`: attempts run, requests end (`requestTimeoutMs`) and timers go off.
  Nobody has to run `processPending`, and the endpoint need not answer well.
- `GameEconomy` has no liveness: a client need not come back, and what a request
  left undone nobody completes.

Liveness also rests on failures that pass: with `MaxFaults` unbounded a message
can be set back, an event fail, and a queue's message outlast its visibility
timeout (which counts no attempt) without end.

### What the checks say about the code

1. *A failed command can leave events.* `Result.fail` is returned through
   `$transaction`, which commits (`pipeline_rollback`; the comment at
   `transaction-pipeline.ts:9` says it rolls back). The trace is that of an AddMember whose
   handler has its role repository; as wired it throws before it saves anything
   (section 3), and RemoveMember, which saves in the same order, is wired. `MirrorUnlessPartial` shows
   that this is the only way the two member lists come apart.
2. *Idempotency keys do not exclude concurrent retries* (`pipeline_dedup`).
3. *An event whose handling fails in mid-batch is skipped* (`projection_skip`),
   although the comment says it is retried.
4. *Projections count an event twice after a crash* (`projection_twice`),
   although projectors must be idempotent.

Smaller things met on the way, without a run of their own:

- A published message can be set back to pending, when markPublished's reply is
  lost or two batches overlap (`outbox.ts:163`); `DuplicatesHaveACause` has this
  among its causes.
- Every deposit and every reward counts twice in a balance: the route adds it
  (`economy.ts:56`) and appends an event whose projection adds it again, which is
  the second term of `BalanceAccounted`. That property also shows that requests
  that move money without recording it, and rebuilds, which forget the purchases,
  are all else that is wrong with a balance.
- The reconciliation loads the stream `walletaggregate-<id>`, which no route
  writes (`reconciliation-source.ts:83`), and so expects 0 of every wallet.
- A cohort's limit holds for invitations, not for acceptances
  (`beta-cohort-aggregate.ts:91`): with one place and two pending invitations both
  are accepted.
- `endSession` pays the reward each time it is called (`economy.ts:192`), and
  LeaderboardProjector lowers scores (`projectors.ts:75`).
- A half-open circuit lets every caller through, where the comment says one
  (`circuit-breaker.ts:12`).
- `processPending` attempts every pending delivery that is due, and `PendingIsDriven`
  says that with the in-memory store each of them has an attempt out or a timer set. So a
  delivery can be accepted twice (the comment at `webhook-engine.ts:12` says
  never), and one that was accepted can still end dead-lettered. What does
  hold is `OneOutcomePerStart`: each start (a dispatch, a retry by hand, the
  maintenance) comes to at most one of the two, so that there are never more outcomes
  than starts, and the attempts pass the limit by less than the starts.
- A webhook's error status is judged outside `breaker.execute`, so error answers
  open no circuit, and one in half-open helps to close it (`webhook-engine.ts:358`).
- A cron field `5` is parsed as `5-59` (`scheduler.ts:130`), and `schedule` overwrites the
  record that a restart should recover (`scheduler.ts:280`).
- A stopped queue worker's nacks count attempts, so a message can reach the
  dead-letter queue after one failure (`queue-worker.ts:143`).

`NothingMissed` names two more ways to lose an event, by its exceptions: a
transaction that commits late with an id below the checkpoint, and a rebuild
that a runner overlaps.

## 5. Proofs

Every invariant and every action property that a passing run checks, and the
refinement of `EventLog`, is a theorem `Spec => ...` for arbitrary constants under
its module's assumptions:

| Assumption | Says |
|---|---|
| `PipelineAssumption` | organizations and users are disjoint, the special values are none of the ordinary ones, the snapshot interval is positive |
| `RelayAssumption`, `ProjectionAssumption` | messages and rows are finitely many numbers, batch sizes and the retry limit are positive, the rebuilder is no runner |
| `EconomyAssumption` | finitely many requests, amounts are numbers of Nat, `NoRow` is neither a number nor an id |
| `CohortAssumption` | the batch size and the number of places are positive, `NoOne` is nobody |
| `QueueAssumption` | finitely many payloads; attempts and concurrency are positive |
| `WebhookAssumption` | attempts, places in flight, thresholds and the cooldown are positive |

The finiteness assumptions are about what is ever sent in one behaviour; no
bound follows from them. The bounds on faults, rebuilds, resets and commands are any
numbers.

Two kinds of step recur. Where the code reads in one step and acts in a later one,
the invariant says what the reader's copy is still worth: that it holds, or that an
index will refuse the write, or that the reader is on record as outdated. And where a
definition computes over data (the replay of a stream, a sum over a log), its value
for a longer stream or a larger set is a lemma, proved from the definition by a
smallest or a last counterexample (`LastOne` in `BetaCohort_proofs`, `SmallestOne` in
`GameEconomy_proofs`), since the library's induction theorems cannot be instantiated
here.

### `CommandPipeline_proofs`

- `TypeCorrect`: `TypeOK` is inductive; it includes that a transaction is open
  exactly while a handler runs and that an aborted one is empty.
- `Invariance`, `StreamsAreContiguous`, `OutboxIsComplete`. `StreamsContiguous`
  alone is not inductive: COMMIT adds rows whose slots were checked statements
  ago. `LogInv` says why they are still free: two open transactions
  never hold the same slot (`LocksHeld`: the index made the second one wait), and an
  uncommitted row directly follows a committed one (`Local`, `OwnRow`). Since
  committed rows are never removed, what was adjacent stays adjacent; and a
  row committed in the same slot meanwhile is excluded because its
  transaction would have held it. `Local` also counts a transaction's outbox ids
  against its events, except for the one row between `InsertEvent` and
  `WriteOutbox`. `ScriptSavesOnce` (no handler saves a stream twice) bounds a
  transaction to one row per stream.
- `Refinement`: `Commit` maps to `EventLog`'s `Append`, or to a stutter if the
  transaction is empty; every other step stutters.

### `Membership_proofs`

- `GuardsAlwaysHold` and `SnapshotsAreFaithful`, from `StateInv`: a copy in memory and
  a snapshot are `Faithful`, the replay of their stream up to a version it has; an
  uncommitted row is legal (`Guarded`) on the *committed* rows below it. The last is
  what the version check and `LogInv` buy: rows that come later extend the stream
  above, and leave its past alone (`ReplaySplit` and the lemmas after it).
- `OkAnswersAreDurable` and `RecordedKeysAreCommitted`, from `AnswerInv`: which rows
  a request has written by the time it stands at each label of its script, so that an ok
  decided before COMMIT is about rows that the COMMIT then adds.
- `MirrorsAgree`, from `MirrorInv`: what a handler knows of the second stream when it
  saves the first. A join loads both before it saves (`JoinsKnow`) and a leave the
  second one after it (`LeavesKnow`); in both, a mirror that would be skipped is
  excused by a command that failed half-way, or the save will meet a conflict
  (`Overtaken`).

### `OutboxRelay_proofs`

- `TypeCorrect`.
- `PublishedIsDelivered`. Strengthened by `MarkedAfter`: a publisher that is
  about to mark a message has delivered it.
- `GivenUpHasFailed`. `retries` counts failures, but it is read in one step and
  written in another. `Counted(m)` counts the publishers that are between the
  two (`Catching(m)`): the row's retries plus those publishers never exceed the failures,
  and neither does what each of them has read plus those publishers. Lost
  increments and resets only lower the left-hand side.
- `DuplicatesExplained` and `RetriesAreBounded`, for messages that one batch at a time
  held (`OneHolder`). `Delivery(m)` spends one fault on each delivery after which the
  message is `Fresh` again; `Budgeted(m)` has `retryCount`, together with `Room(m)` (what
  faults and resets allow), make up for all failures but the one being recorded, and
  so has the copy that `markFailed` is about to write, which a reset does not touch.

### `ProjectionEngine_proofs`

- `TypeCorrect`: positions and batches only refer to committed rows.
- `NoEventIsMissed`, from `MissInv`: what a busy actor has read past and has not left in
  its batch is in the read model, unless the model's history excuses it (`Covered`);
  a rebuild that runners overlap is torn (`RebuildAlone`). Saving the checkpoint is then
  no loss, whoever saves last.
- `EventsAreHandledInOrder`: the action property, from the same invariant.
- `EventsAreAppliedOnce`, from `OnceInv`: while nobody overlaps, one actor is busy, and a
  row in the read model lies behind it and behind the checkpoint (`Settled`).

### `GameEconomy_proofs`

- `Invariance` and `TypeCorrect`. `EconomyInv` adds to the types what a request knows at
  each label, and that an extended session has a player (`Owned`).
- `VersionsCountEvents`: a version that was read is taken, and meets the unique index,
  or is the stream's next (`VersionsInv`).
- `BalancesAreAccounted`: `BalanceAccounted` is inductive over `EconomyInv`. The work is in
  the sums: `SumMoves` says what one element that comes, goes or changes does to a sum
  over a finite set. A request's statement moves the balance and what is due to be
  recorded together (`DueMoves`); an event that is inserted moves it from one sum to the
  other (`InsertBalances`); the projector adds a row to the balance and to the second
  total (`RecordedStep`). Rebuilds end the claim, as the property says.
- `OverdraftNeedsARace`, `SecondSessionNeedsARace`, `PlacesOnlyRise`: what a request read
  (the balance it can pay from, that there is no session, the score it beats) still
  holds when it acts, or the request is in `stale` (`DebitInv`, `SessionInv`,
  `PlaceInv`). `StaleStays` is why that record still tells: a request never comes back to
  a label it has left (`Courses`).

### `BetaCohort_proofs`

- `HistoryIsLegal`, from `HistoryInv`: what a command will save is legal after the events
  it *loaded* (`Decided`), and it saves only if there are no others.
- `TheTableConverges`, from `CohortInv`: one runner at a time, its batch beginning at the
  checkpoint (`OneRunner`); and a row has a status its invitation had *after* the
  events handled so far or later (`RowsFollow`). It may be ahead, since a crash has
  events handled again: the older status a repeated event writes is followed by the
  later ones before the projector has caught up.
- `TypeCorrect`.

### `MessageQueue_proofs`

- `TypeCorrect`, from `QueueInv`: what is in memory was drawn from the queue's numbers
  (`MemoryOK`), and the calls that hold a slot are a finite set not larger than the
  concurrency limit (`SlotsOK`), although a message can have several calls.
- `NothingIsLost`, from `LostInv`: an entry whose replay has published its payload does not
  keep it any more, although it still says `pending`; so the invariant does not count
  it, and marking it replayed later loses nothing.
- `OnceUnlessCaused`, from `OneInv`: a payload without a timeout, an uncertain send or a
  second reader of its entry is in one place at a time, one live message with one
  call or one open entry, and has not been handled while it is yet to be.

### `WebhookEngine_proofs`

- `BreakerOpensInTime`: the ages of the failures are sorted (`BreakerInv`), which is why
  the filter of `pruneOldFailures` drops the first ones; every step of the engine
  is one of the breaker's or leaves it alone (`EngineDrivesBreaker`).
- `NothingPendingIsForgotten` and `EachStartHasOneOutcome`, from `OutcomeInv`: the
  acceptances, dead letters, timers and attempts in flight of a delivery are at most
  its starts, and each attempt past the limit needs a start of its own (`ChainsOf`); one whose
  attempts never ran beside each other has one timer or attempt at a time, only while
  it is pending, and with attempts left before it (`Alone`).
- `TypeCorrect`.

### Only model-checked

`EveryRequestAnswered`, the two `EverySettles`, `EveryEventIsHandled`,
`EveryInvitationIsFound` and `Settles`: liveness under fairness, and the ENABLED in
it, are out of the prover's reach. So are the four runs that expect a violation,
which show a behaviour and need no proof.

## 6. Not modelled

- The components with status `not_modelled` in `PROJECT.json`; the plan says
  which come next. Most of the repository's lines are the user interface, demo
  pages, vendored document tools, read-only routes and generated data: they have
  no protocol to model, so that the models map a small share of all the lines and
  most of those of the back end's concurrent core.
- The Redis queue, which nothing in the repository constructs, and the locks and
  the scheduler, which has no job registered with it.
- Consumers that take effect and then throw (`MessageQueue`): a handler is atomic.
- Account life cycle, roles and inactive organizations in the membership
  commands: they add guards, no interaction.
- Event payloads, serialization and schema versions.
- Subscribers of the event bus: the repository registers none.
- Clocks: expiry, staleness and retention are nondeterministic choices, with
  the one assumption on `Purge` above.
- Two transactions of one request: no handler opens a second one.
