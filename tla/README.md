# A TLA+ verification of pgqueue

pgqueue is a message queue kept in PostgreSQL: every queue has tables of its
own, every operation is one or a few SQL transactions, and any number of
processes publish, consume, collect garbage and replay at the same time with no
coordinator but the database.  This directory models those transactions in
TLA+, checks the models with TLC on small instances and proves the main results
with TLAPS for every size.

## The system

| Part | State | Operations |
|---|---|---|
| channel | message table (`status`, `claim_id`, `retry_count`, `max_retries`, `visibility_timeout`, `available_at`, `created_at`), dead-letter table, `paused` | Publish, PublishBatch, Receive (claim, reclaim of timed-out rows), Ack, Nack, AckBatch, NackBatch, ExtendVisibility, pause, resume |
| topic | message table, one subscription row per message and subscriber, dead-letter table, subscribers | the same per subscriber, Subscribe, Unsubscribe |
| collector | one goroutine per process, an advisory lock, a worker pool | promote exhausted rows, reset timed-out rows, purge completed, old pending, dead-letter, orphaned and departed rows |
| replay | audit log | ReplayFrom (paged), ReplayMessage, ReplayDLQ (paged), PurgeQueue |
| claim errors | none | explain why a receipt no longer matches |
| consume loops | workers, in-flight handlers | poll, wait for a wake-up, dispatch to a handler, ack or nack, drain |
| notifier | wakers, what is listened to | wake consumers, confirm LISTEN, forget a deleted queue |
| pglisten | queued LISTEN/UNLISTEN requests, a connection | listen, unlisten, deliver, probe, reconnect, close |
| administration | queue metadata, table-name cache | create and delete queues, look them up |
| schema | schema version, indexes | migrate, repair indexes |
| ids and delays | last timestamp and counter; none | UUIDv7, backoff |
| fake | maps under a mutex | the channel and topic interfaces, in memory |

How they interact: everything meets in the rows.  A consumer, a collector and a
replay in three processes may want the same row; `FOR UPDATE SKIP LOCKED`, the
`claim_id` written at every delivery and the status tests of each statement are
what keeps them apart.  Transactions are READ COMMITTED, so every statement has a
snapshot of its own and only locked rows stay as they were read.

What is hard: a consumer that outlives its visibility timeout and still acks; an
attempt that consumer, collector and late Nack could each count; copies of one
message in two tables; pages selected without locks and updated later; errors
computed from a second look at the row; messages whose consumers all crash.  Inside
one process: a wake-up between a poll and the wait that follows it, a `Close` that must
join goroutines which may be starting, a connection that dies in silence.  Between
processes of two versions: creates and deletes beside a migration that crashed.

## Modules

| Module | Models |
|---|---|
| `Channel` | one channel: every transaction that writes its tables |
| `ChannelProgress` | `Channel` among the traffic of other messages, and its fairness |
| `Delivery` | the abstract contract of one delivery unit |
| `ClaimMiss` | the two statements of a settling call whose receipt matches nothing, over the whole of `Channel` |
| `Topic` | one topic: every transaction that writes its tables, with the looks at unlocked tables as steps of their own |
| `Listener` | `pglisten`: callers, the run loop and its connection |
| `Notifier` | `notify.go` for one notification channel, over what a listener promises |
| `Runtime` | one `Queue` at run time: consume workers, collector goroutine and `Close`, with `Notifier` |
| `Schema` | migrations and index repair, for two builds side by side |
| `Catalog` | creating, deleting and looking up queues and the metadata cache, with `Schema` |
| `UUID`, `Backoff` | the id generator and the redelivery delay |
| `Fake` | the in-memory test double |
| `TopicContract` | the map from a unit of `Topic` to `Delivery` |
| `ChannelSteps` | lemmas: types are kept, and a step does one of ten things to a message |
| `ChannelProofs` | theorems about `Channel` and `ClaimMiss` |
| `TopicSteps` | lemmas: types are kept, and a step does one of eleven things to a unit |
| `TopicProofs` | theorems about `Topic` |
| `RuntimeProofs` | theorems about `Runtime` with `Notifier` |
| `CatalogProofs` | theorems about `Catalog` |
| `SchemaProofs` | theorem about `Schema`, in its composition with `Catalog` |
| `PartsProofs` | theorems about `Listener`, `UUID`, `Backoff` and `Fake` |
| `MCChannel`, `MCClaimMiss`, `MCTopic`, `MCListener`, `MCRuntime`, `MCCatalog` | instances for TLC |

`ClaimMiss` and `ChannelProgress` extend `Channel`, `Runtime` extends `Notifier` and `Catalog` extends
`Schema`: each of them composes its components step by step, a step of one leaving the
variables of the other alone or changing them together in one action.

### Channel

State: `msg` is the message table, by id; a row keeps `status`, `claim`,
`retry` (`retry_count`), `max` (`max_retries`) and, for each deadline column, the
outcome of its comparison with `NOW()`: `lapsed`, `ready`, `fresh`.  The code
compares deadlines with nothing else, so this loses nothing.  `dlq` counts the
dead-letter rows of an id.  `admitted` are Receive calls that have passed the
`paused` test and `replaying` the page a ReplayFrom has selected: what these
calls have read and not yet acted on.  `receipt` is what clients hold.
`deliv`, `accepted`, `purged` and `wiped` are history: they count deliveries,
accepted publishes, copies purged, and rows removed by PurgeQueue, and no guard but
the bound `MaxPublish` reads them.  `wiped` lets a property exempt what PurgeQueue
does to a message and nothing else that looks like it.

Steps: one committed transaction each.  Every transaction of the code locks the
rows it will write with its first statement on them and keeps the locks, so for
a row it happens at one point; the reads it makes before are steps of their own.
A transaction that fails rolls back.  A crash of a client is `Forget` (its
receipts are gone), `ReceiveFails` or `ReplayFromFails`.  `SKIP LOCKED` may pass
over any row, so orderings and page limits only choose among matching rows: the
model lets a statement take any of them.  Retention ages and durations may have
any length.

Operations with the names of their Go functions model those functions;
`ReceiveMessage` and `ReceiveEmpty` are the two outcomes of
`fetchPendingChannelMessage`, including the timed-out rows it dead-letters or
defers on the way (`skip`).  Operators marked *Fault* are wrong variants of the
definition that follows them.  They are used to see that the properties can fail.

### ChannelProgress

fetchPendingChannelMessage probes for a timed-out row only when it found no pending one
(`ProbesReach`), so whether a timed-out message is reclaimed depends on traffic without
end, which `Channel` bounds by `MaxPublish`.  `backlog` says whether a pending row of some
other message is there; it may turn at any step.

### Topic

State: `msg` says of each message whether it is there and within its TTL; `sub` is
the subscription table, by unit (a pair of message and subscriber), with the columns
of a channel row; `dlq` counts dead letters by unit, and `legacy` are the messages
with a pre-1.0 dead letter that names no subscriber.  `active` are the registered
subscribers.  `receipt`, `deliv`, `accepted` and `wiped` are as in `Channel`.

The rest is what a transaction or statement has read of tables it has not locked:
`publishing` (the subscribers a Publish fans out to), `leavers` (rows of subscribers
that were inactive when purgeInactiveSubscriptions began), `finished` and `orphans`
(messages the two message purges selected) and `replaying` (pages of ReplayFrom).
The collector holds an advisory lock, so there is one of each of its scans; ReplayFrom
calls run side by side (`Replayers`).

Why two steps.  The message purges evaluate their `NOT EXISTS` tests on the snapshot
of the statement and lock only the message row.  Message rows are never updated, so
PostgreSQL has no reason to evaluate the tests again, and the cascade deletes the
subscription rows of the moment of the DELETE.  purgeInactiveSubscriptions locks
subscription rows, whose own status is tested again when it changed, but not the
subscribers.  A row that another transaction deletes is gone for a statement that had
selected it, even if one for the same unit is inserted later (`RowsGone`).

A subscription row keeps no retry cap of its own: every process resolves it when it looks
(resolveMaxRetries).  `MaxRetries` is one value, which is so when the topic was created
with a cap or all processes have the same default.  With different defaults a unit would
be dead-lettered by the cap of whoever comes first.

`torn` counts purges of a message that was no longer finished, the window described
under *Findings*.

### Delivery

A unit is `none`, `ready`, `held` or `done`, has had some `attempts` of its
`cap + 1` and has some `dead` copies.  The actions say which moves are allowed.
A held unit may vanish only if it is `forsaken`; an operator's purge is visible in
`emptied`.  `Channel` implements it with a message as the unit and nothing forsaken;
`Topic` with a unit per message and subscriber, forsaken being the rows whose
subscriber has left and whose claim has lapsed, and with torn messages exempt.

### ClaimMiss

`StatementMisses` is the UPDATE (or locking SELECT) that matches no row;
`classifyClaimMiss` is the SELECT that explains it.  `missedAs` is what the first
statement's row would have been called.  The receipt is one that a delivery minted or has
the zero ClaimID (`NoClaim`), for which there is a branch of its own.

### Listener

`channels`, `pending`, `unpending` and `confirmed` are the fields under `l.mu`;
`interruptPending` and the cancel function of the current wait those under `l.waitMu`.
`loop` is where the run goroutine is, `batch` what drainPending has taken out, `subs`
what the server's session listens to, `link` whether the connection is up, dead with
nobody told, or down.  A call queues its request in one critical section and interrupts
the loop in another.  Notifications are counted, not told apart.  The connection may
die at any step; timers fire at any moment.

rebuildPendingForReconnect takes the channels in the order of a Go map, which is
arbitrary, and for each the requests that wait for it in the order they came.
`Reconnected` says so by positions: an item is a channel and a place in `pending`, or
place 0 for a channel nobody waits for, and the new `pending` reads the items in any
order that is `ChannelByChannel`.

### Notifier and Runtime

A waker's generation is the Go channel a worker selects on; a worker keeps the waker it
armed and whether that generation has been closed.  confirmListen runs in goroutines of
its own (`Confirmers`), the pump turns notifications into signals, and `forget` is two
steps because it unlocks `n.mu` before it calls Unlisten.  `Runtime` adds the workers of
a ConsumeChannel call (`pc`: arm, receive, wait, dispatch, record), the collector's
goroutine and the worker pool of a pass, and two callers of `Close`, which cancels,
stops the collector, joins the workers and closes the notifier in the code's order.
Messages are reduced to what the loop can tell of them.

A Receive commits under the loop's context, which may be cancelled, and on a connection
that may be lost: it can return an error after its COMMIT was done (`ReceiveLost`).  The
message is then in flight and no worker has it; `unanswered` remembers it, as `unrecorded`
does a result the database refused.  An error of a context that is not the loop's own
stops one worker quietly too (`StopsQuietly`).

### Schema and Catalog

A step is a statement or a transaction.  A version stands for one migration and the
index it brings; `NonTx` are the versions with a phase outside the transaction, which a
crash leaves as an invalid index.  The migration lock is `holder` (exclusive: sessions)
or `shared` (transactions of creates and deletes).  An unlock that fails is only logged:
the connection goes back to the pool with the lock (`Pool`) until it is closed.  In `Catalog` a call goes through the
phases of createQueue or deleteQueue; `victim` is what a delete's uncommitted statements
have removed, and row and table locks are conditions on the phases of the other calls.
INSERT, CREATE TABLE, DROP and DELETE are steps of their own, each with the snapshot of
its moment.  `strays` are tables that a delete did not find when it dropped and whose row
it found when it deleted.
`cached` is the metadata cache of one process; calls in `Remote` belong to another.

### UUID, Backoff and Fake

`UUID` has concurrent callers whose clock readings are arbitrary.  `Backoff` is the loop
of computeRetryDelay in integers, with jitter as a choice and both results a platform
gives for a float that does not fit an int64.  Their constants (2^48 milliseconds, int64
nanoseconds) are part of what is to be shown and beyond TLC's integers, so these modules
are proved and not run.  `Fake` is the fake's state under its mutex; that it implements
`Delivery` is proved.

## What is checked

| Run | Instance | Shows |
|---|---|---|
| `channel_one` | 1 message, caps 0 and 2, 2 publishes of its id, 3 tokens, 2 Receive calls, TTL, a call that misses | `DeliveryCeiling`, `DeadLetterExact`, `AckFinal`, `FencedForever`, `Conservation`, `ImplementsContract`, `AlreadyAckedIsOwnAck`, `NoFalseExpiry` |
| `channel_two` | 2 messages, cap 1, 1 token, no TTL, other traffic, fairness | `AttemptsCounted`, `LeaseProtected` with batches and pages that mix rows; `EventuallySettled` |
| `claim_miss_snapshot` | 1 message, caps 0 and 1 | violates `SameSnapshot` |
| `topic_one` | 1 message with a pre-1.0 dead letter, 1 subscriber, 1 retry, 2 tokens, 2 publishes, 1 ReplayFrom call, TTL, fairness | `AttemptsCounted`, `AckFinal`, `DeadLetterExact`, `ImplementsContract`, `NothingPinned` |
| `topic_two` | 1 message, 2 subscribers, 1 retry, 1 token, 2 ReplayFrom calls | `OneCopy`, `DeadLettersReplayable`, `OrphansStayOrphans`, `LeaseProtected`, `NeverRedelivered`, `ActiveSpared` |
| `topic_torn` | 1 message, 1 subscriber | violates `DLQEntriesKeepMessage` |
| `listener` | 1 channel; Listen, Unlisten, Close and a reader that stops, in four mixes; fairness | `OneRequestPerWaiter`, `NoMissedNudge`, `KeptUnlessUnlistened`, `ListenAnswered`, `CloseUnwinds`, `DeathNoticed` |
| `listener_resubscribe` | 2 Listen calls and an Unlisten | violates `NilMeansSubscribed` |
| `runtime` | 2 workers, 2 messages, a forget, a collector over 2 queues, 2 calls of Close, failing statements, in five mixes; fairness | `NoLostWakeup`, `OneConfirmation`, `CloseQuiesces`, `ResultRecorded`, `CloseReturns` |
| `runtime_forget` | 1 worker and a forget | violates `ListeningIsRegistered` |
| `catalog` | 3 names, two of them with one table name; creates, deletes, lookups of two processes, 5 sessions of two builds, failures, in nine mixes; caps 0 and 1; fairness | `CatalogConsistent`, `CacheForgets`, `InitHeals`, `CatalogStill`, `InitReturns` |
| `catalog_delete` | 2 creates, 2 deletes | violates `QueueHasTables` |

`channel_one` and `topic_one` also check `TypeOK`.

Bounds.  Rows of different messages meet only inside one statement, so two
messages are enough for what batches, pages and skipping can do.  Three tokens
give a current holder, an outdated one and one to mint; tokens whose receipt was
dropped are used again.  Cap 0 dead-letters at the first failure and cap 2 is the
smallest with a middle attempt.  Two publishes of one id put a message and its dead-lettered former self side by side.
`MaxDefers` stands for 64; 1 and 2 make the limit reachable.  In the topic runs the
units of one message play the part that several messages play in the channel: two
subscribers meet through the message, its purges and its dead letters.  Batches over
several messages of one subscriber are in the model but not in these instances, and the
subscriber cap is never exceeded in them: a Publish it refuses changes nothing.

`channel_two` has no TTL, for size: `EventuallySettled` is about a message within it.  The
same run with one passes too (159,048 states) and takes three times as long.

In `listener`, `runtime` and `catalog` every behaviour picks one of the `Mixes` at the
start and only its members act; in `catalog` queue names are members too.  A mix puts together actors that meet in the code; the
sum of the mixes is small where their product is not.  `BufferCap`, `MaxTransient` and
`MaxWorkers` are 1, the least value with which a full buffer, an exhausted retry count
and a busy pool occur.  `Wakers` and `Confirmers` are more than can be referred to at
once (`NotifierAssumption`).  A Queue that was closed, and a set of calls that have all returned, may stop:
these three runs do not look for deadlock, the liveness properties do instead.

Fairness (`channel_two`).  Time passes; while the channel is not paused a Receive
call is started (the application polls).  A call that could deliver or skip a given row
again and again finally does: a pending row because probe A orders by `available_at` and
what is published later comes later, a timed-out row only from calls that find no pending
row at all.  `EventuallySettled` therefore speaks of behaviours in which a call again and
again is under way while no other message is pending (`Unhurried`).  Publishers that keep
a pending row before every call starve a timed-out message unless a collector resets it:
without that premise TLC finds the behaviour.  Clients drop receipts that no longer
match, which only makes tokens available.  Nothing is assumed of handlers or of the
collector.

Fairness (`topic_one`).  Time passes; the collector runs again and again, its
statements end, and it does not pass over the same row or message for ever; dead
letters have a retention age, which is the default.  Nothing is assumed of consumers,
subscribers or replays, except that `NothingPinned` speaks of behaviours in which
replays and extensions end.

Fairness (`listener`).  The run loop goes on, which includes that a call on the
connection ends and that the keepalive timer fires; a caller that queued a request
interrupts the loop, and receives what its channel holds; the reader reads, unless it
has stopped for good.  Nothing is assumed of notifications or of the network.

Fairness (`runtime`).  Every goroutine runs on: workers (their handlers return, as
`Close` documents that it waits for them), the watcher, the collector, the confirmations,
the pump and the callers of `Close`.  The collector's `select` between its ticker and
its stop channel chooses at random among the ready cases, so a stop that is ready at
each of infinitely many selects is chosen in the end: strong fairness of `runStops`.

Fairness (`catalog`).  Statements return, and a lock request is granted in the end,
because PostgreSQL serves them in order: a shared request waits behind an exclusive one
that waits already (`SharedLockFree`), so creates and deletes cannot starve a migration.
Weak fairness of all calls together and of all sessions together is enough, since each
takes finitely many steps.  `InitReturns` excepts a lock that a failed unlock left in a
pool.

### Findings

* `channel.go:127`, `pubsub.go:233` and `batch.go:193` say the classifying SELECT
  observes the snapshot of the failed UPDATE.  Under READ COMMITTED it does not, and
  `claim_miss_snapshot` gives the interleaving.  The two guarantees a client can build
  on hold anyway (`channel_one`, and for every size in `ChannelProofs`).
* `replay.go:141` says the collector never purges a message while a dead letter
  references it.  `topic_torn` shows one that is: purgeCompletedMessages finds the
  message acked by all, ReplayFrom makes it pending, it is delivered and dead-lettered,
  and then the DELETE takes the message.  All of it must fall within one statement.
  Otherwise the promise holds: `DeadLettersReplayable` is checked for messages that
  were not torn.
* `pglisten/listener.go:260` says a nil return of Listen guarantees that the channel is
  subscribed.  drainPending issues all queued LISTENs and then all queued UNLISTENs, so
  an Unlisten followed by a Listen of the same channel can end with the UNLISTEN last and
  the channel still marked confirmed, until the next reconnect (`listener_resubscribe`).
* `pgqueue.go:934` says a consumer's next wakeChan call registers again what a forget
  took away.  forget calls Unlisten after it unlocked: a consumer that arms and is
  confirmed in between is marked as listening while the registration goes
  (`runtime_forget`).  Its messages are then found by the safety-net poll only.
* `pgqueue.go:925`: deleteQueue drops tables by the name it read before its transaction
  and does not look at how many rows its DELETE removed.  Two deletes of `a-b` with a
  create of `a_b` between them leave `a_b` in the catalog without tables
  (`catalog_delete`).

Smaller observations, made while modelling and not pursued with runs of their own:

* While publishers keep a pending row in a channel, a timed-out row is not reclaimed by
  consumers (`ChannelProgress`); only a collector brings it back.
* A delete that read its queue before another delete and a create of the same name can drop
  nothing and then delete the new row: the new queue's tables stay without a queue.
  `CatalogConsistent` excepts exactly these (`strays`); a later create adopts them.
* A failed `pg_advisory_unlock` is logged and the connection is pooled with the migration
  lock; every InitSchema, create and delete waits until it is closed.
* A Receive whose COMMIT was done and whose answer was lost to a cancelled context leaves
  the message in flight for its visibility timeout, with one attempt spent and no handler
  called (`unanswered`).
* A second, concurrent `Close` returns nil at once while the first is still joining;
  `CloseQuiesces` is about the first.
* LISTEN and UNLISTEN are executed without a deadline, so `Close` on a connection that is
  silently dead inside one of them ends when TCP gives up, not before.
* recreateIndex drops an invalid index before it creates it again.  When the CREATE fails
  the index is absent, not invalid, and no later pass finds it, while
  `index_repair.go:17` says it is left for a later attempt.  `InitHeals` excepts these.
* A lookup that read the row before a delete's commit may store it after the delete's
  second invalidation; the entry lives until it expires.  `CacheForgets` excepts exactly
  these (`excused`).
* `Fake` mints ids before it takes its mutex, so its pending list need not be in id
  order, and it accepts an id again once the first copy was acked.
* With a multiplier so large that the product leaves int64, amd64 yields `BaseDelay`
  and arm64 `MaxDelay`; both are within `RetryDelayBounded`.

## What is proved

All safety invariants, action properties and refinements of the passing runs are proved,
for every value of the constants that the named assumptions allow.  Where not said
otherwise these only state the types of constants and that null values are none of
the real ones.

`ChannelProofs` proves, for any sets of ids, claims and consumers, any caps and
any bounds:

* `TypeCorrect`: `TypeOK` is inductive.
* `AttemptsAreCounted`, `CeilingHolds`: the ceiling alone is not inductive, since
  a row with `deliv = max + 1` that is still pending could be delivered once more.
  `AttemptsCounted` ties `deliv` to `retry_count` and status, and `retry_count` to
  the cap; together with `TypeOK` it is inductive and gives the ceiling.
* `DeadLetteringIsExact`: from the same invariant, each dead-lettering action at
  a time.
* `AckIsFinal`: inductive with `TypeOK`; it needs that a token is fresh.
* `NothingLost`: inductive with `TypeOK`.
* `LeaseIsProtected`, `FencingIsPermanent`: action properties from `TypeOK`.
* `ChannelRefinesDelivery`: lemma `RowStep` lists the ten things a step can do to
  one row; each is a step of the contract.
* `AlreadyAckedMeansOwnAck`, `ExpiryIsNeverFalse`, for `ClaimMiss`, with a zero ClaimID too.  The SELECT that
  explains a miss sees a row that any transactions may have changed since.  `MissInv`
  adds to the channel's invariant that a pending row has no claim and that whoever holds
  the receipt of a completed row's claim is the one who acked it (`OwnClaim`), and that a
  call under way still has its receipt (`CallHeld`).

`TopicProofs` proves eleven theorems for any sets of messages, subscribers, claims and
replayers and any cap: the counterparts of the channel's (`TypeCorrect`,
`AttemptsAreCounted`, `AckIsFinal`, `DeadLetteringIsExact`, `LeaseIsProtected`,
`TopicRefinesDelivery`) and `OneCopyOnly`, `DeadLettersKeepMessage`, `OrphansAreOrphans`,
`AckedNeverRedelivered`, `ActiveAreSpared`.  `TopicSteps` sorts the transactions by what
they do to a unit (eleven things).  The properties hold one another up, so the invariant
`IInv` has them all, and beside them:

* `ScanInv`: what a statement found in tables it has not locked and still relies on when
  it writes.  Rows reference present messages, the messages of an open Publish are not
  there for others, the rows of a ReplayFrom page are there, orphans stay orphans.
* `LegacyOnly`: pre-1.0 dead letters belong to the messages that had them at the start.
* `AckedNotDead`: who acked a unit has no dead letter of it, unless it was torn.

`RuntimeProofs` proves, for any numbers of workers, messages, queues under collection,
callers of `Close` and forgets, with `RuntimeInv` as the invariant:

* `WakeupsKept`: the promise begins with the Receive that found nothing and not with the
  wait that follows it, so `WakeInv` is about a worker in either place.
* `ConfirmationsKept`: `ConfirmInv` says when a confirmation is the current waker's
  own, and that confirmations that outlived their waker are no more than the forgets
  that were made.
* `ClosedIsQuiet`: `CloseInv` says, for each place of `Close`, what has been joined by
  then, and that nothing of it starts again once `closed` is set.
* `ResultsKept`: a claimed message has a worker that handles or records it, or is in
  `unrecorded` or `unanswered`; and workers are done when the call has returned (`RecordInv`).
* `RuntimeTypes`: a worker that handles has a message (`Handling`).

`NotifierAssumption` asks for more wakers than can be referred to at one time and for
more confirmers than forgets.  In Go a channel or a goroutine is allocated and never
runs out; in the model the sets they come from must be large enough for a fresh one to
exist, and that one does is part of what is proved.

`PartsProofs` proves of `Listener`, for any finite set of channels, any calls and any
size of the buffer, with `ListenInv` as the invariant:

* `NudgesKept`: `NoMissedNudge` speaks of the loop in its wait.  `NudgeInv` adds the
  time between the drain and the wait, in which an interrupt is remembered in
  `interruptPending`.
* `ChannelsKept`: an UNLISTEN that is queued or taken is of a channel that was
  unlistened (`KeepInv`), and batches are empty outside the drain (`HandsInv`).
* `RequestsKept`: `RequestInv` states that no two places of the queue are of one call,
  that a call in the queue has not been answered, and that a waiting one is in it.  A
  reconnect permutes the queue and adds requests nobody waits for (lemma `Rebuilt`).
* `ListenerTypes`: the queue a reconnect builds is a sequence of requests.

`CatalogProofs` proves, for any numbers of calls, sessions, processes and names, any
cap and any `TableOf` (`SchemaAssumption`, `CatalogAssumption`):

* `CatalogAlwaysConsistent`: what is committed says too little, since a create or delete
  commits on the strength of what it found earlier.  `CallInv` says who shares the
  migration lock; `CapInv` that one create at a time is past the count and still has
  room; `OwnInv` that a create that has inserted its row has a table no row and no other
  such create has, and that a table without a row is a stray.  Lemmas `Classified` and
  `Classed` leave few kinds of steps to look at.
* `CatalogAlwaysStill`: from `CallInv` and lemma `OnlyCommits`.
* `CacheAlwaysForgets`: `CacheForgets` is inductive with the types of `CallInv`.

`SchemaProofs` proves `InitAlwaysHeals` from `SessionInv`, which says what a session
that holds the migration lock knows at each of its statements: the versions recorded so
far are exactly those before the current one, and every index that is not valid is
among those still to repair or had its repair fail.  `Missing` says who accounts for an
index that is not there.  `SchemaAssumption` keeps repairing
sessions apart from migrating ones: a session of the model is one call.

`PartsProofs` proves of `UUID` that the counter always fits its 12 bits
(`CounterAlwaysFits`) and that every id is greater than the one before, whatever the
clock does, as long as timestamps fit in 48 bits (`IdsIncrease`); of `Backoff`
that Delay is between the normalized bounds (`DelayInRange`) and that the delay
of a nacked message is within them from the first failure on, after at most 64 passes for
every policy and stored retry count, or an override of at most a day
(`RetryDelayAlwaysBounded`); of `Fake` that it implements the contract that
`Channel` and `Topic` implement (`FakeRefinesDelivery`), with the count of attempts as the
invariant (`FakeCounts`).

Only model-checked: the liveness properties, because the prover has neither fairness nor
`ENABLED`: `EventuallySettled`, `NothingPinned`, `ListenAnswered`, `CloseUnwinds`,
`DeathNoticed`, `CloseReturns`, `InitReturns`.  The five properties that are violated
are refuted by TLC's counterexamples.

## Not modelled

* Statistics and dead-letter listing: read-only queries, each a single statement.
* Observability: metrics, tracing and logging have no effect on the queue.
* Configuration and types: option validation is a set of independent range tests.
* The pull iterators (`ChannelMessages`, `TopicMessages`): the fetch of the consume loop in the
  caller's goroutine, without workers or a join.
* Row locks taken one after the other inside a statement.  Transactions are atomic for a
  row, so a deadlock between two batches that lock the same rows in opposite orders
  (`batch.go:870`) cannot show; PostgreSQL would abort one of them.
* Durations: every deadline and retention age may have any length, and the listener's
  reconnect delay is a step that changes nothing.
* The several tables of one queue: they are created and dropped together in the model.
* What a migration's DDL does to a queue's tables, beyond the index it brings.
* The examples, which only use the public interface.
