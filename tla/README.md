# ScaleForge in TLA+

ScaleForge is a Fastify/Effect backend (TypeScript, `src/src`).  Requests are
answered by API processes; slow or unreliable work (webhook deliveries, search
ingestion, score events, mails, receipts) goes through RabbitMQ to worker
processes; Postgres and Redis are shared by all.  Nothing spans two of these
stores in one transaction, so the program's logic is in the order of its awaits
and in what is left behind when one of them fails.  That is what is modelled
here: the order of the steps, their failures, their repetitions, and what the
processes see of each other in between.

Paths below are relative to `src/src`.

## 1. Inventory

| component | state | operations | speaks to |
|---|---|---|---|
| RabbitMQ consumer `workers/shared/rabbitConsumer.ts` | broker queue, unacked window, in-process Effect queue | consume, ack, nack, loss of the connection | every worker |
| Publisher client `infra/rabbitmq/rabbitmqService.ts` | one channel | `publish` with three retries | API services, webhook publisher |
| DLQ service `workers/shared/dlqService.ts` | `dead.letter.*` queues | `publish` | every worker |
| Webhook subscriptions `app/features/webhooks` | `webhook_subscriptions` | create, delete, list, test ping | Postgres |
| Webhook publisher `infra/webhooks/webhookPublisher.ts` | `webhook_deliveries` | `emit` | Postgres, `webhooks.deliver` |
| Webhook delivery worker `workers/webhookDeliveryWorker.ts`, `webhookWorker.ts` | fibers, delivery rows | POST, markDelivered, markFailed, DLQ, ack, nack | subscribers' endpoints |
| Search ingestion `app/features/search` | `search_documents`, `search_chunks`, `search:job:*` | ingest, delete, status, hybrid search (cached), suggest | Postgres, Redis, `search.ingest` |
| Search ingest worker `workers/searchIngestWorker.ts` | fibers | chunk, embed, upsert, status, DLQ, ack, nack | Gemini, Postgres, Redis |
| Leaderboard service and worker | Redis sorted sets, merged windows | recordEvent, getLeaderboard, getUserRank | `leaderboard.score.event`, Redis |
| Leaderboard fan-out `leaderboardRoutes.ts` | sockets, pending deltas, debounce timer | subscribe, broadcast, flush, snapshot | Redis pub/sub, WebSocket |
| CDC worker `workers/cdcWorker.ts` | dropping queue, debounce, two dedup caches, poll time | change stream, poll, dedup, emit | Mongo, Postgres, publisher |
| Worker probes `workers/shared/workerHealth.ts` | health server, readiness | start, setReady, stop | orchestrator |
| Email worker `workers/emailWorker.ts` | fibers | send, DLQ, ack, nack | mail |
| PDF receipt worker `workers/pdfReceiptWorker.ts` | fibers, `payments.metadata`, objects in S3 | read, render, upload, store the key, DLQ, ack, nack | Postgres, S3 |
| Payments `app/features/payments` | `payments` | provider webhook; list and get | Razorpay, Postgres |
| Accounts `app/features/auth` | `users`, refresh cookie, reset tokens | register, confirm, login, refresh, logout, forgot, reset, change, Google sign-in | Postgres, mail, Google |
| API keys `app/features/auth` | `api_keys` | create, verify, revoke, list | Postgres |
| Feature flags `infra/featureFlags` | `feature_flags`, an in-process LRU cache | isEnabled (read through), invalidate | Postgres |
| Stand-alone leaderboard server `../docs/WS-leaderboard/leaderboard-server.js` | ZSET, table, update queue, rank and page caches, watchers | submitScore, batches, 30 s job, position, page | Redis, Postgres, Socket.IO |
| Its client `../docs/WS-leaderboard/leaderboard-client.js` | pending scores, displayed page | submit (optimistic), refresh | the server |
| Backup script `../scripts/dbBackup.js` | backup directory, S3 objects | dump, compress, upload, clean up | mongodump, tar, S3 |
| Audit, storage, authorisation, Knock bridge, API health, metrics, codecs, clients | none that two steps share | pass-through | - |

What is hard in it, and what each part must get right:

* **Every worker** acks late, so a job runs again after a lost connection; it
  forks a fiber per message, so copies of one job run at the same time; it
  nacks without requeue on queues declared without a dead-letter exchange, so a
  nack throws the job away; and it may die in its own error handler.  Correct
  means: nothing leaves the queue without a successful run, a DLQ copy or a
  failed run; what the stores say about a job is true; a message is settled in
  the end.
* **Webhooks** keep a row per delivery beside the job.  The row may be missing
  (its INSERT is ignored), deleted with its subscription, or written by two
  fibers.  Correct: "delivered" is true, attempts count failures, the two
  limits of attempts agree.
* **Search ingestion** writes to Postgres, the broker and Redis in this order,
  from two processes.  Correct: "completed" means indexed, no document is
  unindexed without a trace, accepted documents become searchable.
* **The leaderboard** adds with ZINCRBY, which is not idempotent, and caches
  merged windows that readers build with two commands while writers delete
  them.  Correct: an event counts once per delivery, boards and windows differ
  only when something failed or is under way.
* **Fan-out** must flush in the end and show clients a snapshot consistent with
  the deltas.
* **CDC** must not forget the last change of a document, nor a new user, without
  a reason one can name; **a worker that says it is ready** must be consuming.
* **A payment's row** must be backed by provider events and current when they
  came in order, and **a receipt** must not claim more than happened.
* **Accounts** read a row, spend a while in argon2 and write with an UPDATE that
  looks at nothing.  Correct: an answer rests on a row the account had during
  the request; a later request is never undone by an earlier one; a reset link
  works until somebody else's request kills it; an account is made once.
* **Keys** share prefixes and are verified over several awaits; **flags** and
  **search answers** are read through caches that writers clear, or do not.
  Correct: an answer is one that was true during the call, or stale for a cause
  that is known and ends with the TTL.
* **The stand-alone leaderboard** writes scores to Redis at once and to the
  table in batches, and its client shows them before either.  Correct: a score
  is only replaced by a higher one, both stores agree at rest, the display is
  that of the last request.
* **A backup** that reports success must have left a whole archive.

The full list of hazards, each at its line and with the properties that would
catch it, is in `PROJECT.json`.

## 2. Modules

```
JobContract                the abstract specification of any worker
RabbitConsumer             one queue and its consumer
  WebhookPublisher         subscriptions, emit            EXTENDS RabbitConsumer
    WebhookDelivery        delivery worker                EXTENDS WebhookPublisher
  SearchIngest             ingestion API and worker       EXTENDS RabbitConsumer
  Leaderboard              worker, Redis boards, readers  EXTENDS RabbitConsumer
Payments                   the payments row and Razorpay's webhooks
  ReceiptWorker            receipt worker on that row     EXTENDS RabbitConsumer, Payments
  EmailWorker              mail worker                    EXTENDS RabbitConsumer

Accounts                   users, mails, refresh cookie
OAuthFlow                  the cookies of Google sign-ins
ApiKeys                    keys with a shared prefix
  MCIdentity               the three of them, one at a time

DedupCache                 the Map of both halves of the CDC worker
  MongoWatcher             change stream, queue, debounce EXTENDS DedupCache
PgPoller                   the poll of new users
WorkerHealth               readiness of a worker process
LeaderboardFanout          deltas, debounce, snapshots
FeatureFlags               flags through their cache
HybridSearch               three rankings, their fusion, the cache
ScoreServer, ScoreReads    stand-alone leaderboard: writes, cached reads
ScoreClient                its optimistic client
Backup                     the backup script
  MCServices               EmailWorker and the ten above, one at a time

MCWebhookDelivery, MCSearchIngest, MCLeaderboard,
MCReceiptWorker                                           instances for TLC
WebhookDeliveryProofs      theorems about the webhook pipeline
SearchIngestProofs         theorems about the ingestion
LeaderboardProofs          theorems about boards and windows
ReceiptWorkerProofs        theorems about the payments row and receipts
WorkerServicesProofs       mail worker, readiness, poller, change stream
  ServicesProofs           the other parts of MCServices, and all of them
IdentityProofs             accounts, Google sign-ins, keys
```

A component is composed by EXTENDS: `RabbitConsumer` gives `place` (where the
broker has each message), `up` and `losses`, and the actions `Enqueue`,
`Deliver`, `Ack`, `Nack`, `Lose`, `Restart`; producers and workers use them in
their own actions.  A worker's process counter is a function `fiber` from
messages to phases, one action per await of the code, so two fibers interleave
exactly at the awaits.

**RabbitConsumer.**  `place[m]` is "absent", "ready", "unacked", "acked" or
"discarded".  `Nack` discards: the code calls `ch.nack(msg, false, false)` and
declares its queues with `{ durable: true }` only (rabbitConsumer.ts:96,
126-129).  `Lose` is a closed channel or connection, or the stop of the process:
the broker requeues, the Effect queue shuts down, the main fiber fails and the
process exits; `Restart` is its supervisor.  The ready messages are a set: with
a prefetch above one and a fiber per message no worker can rely on FIFO order.

**WebhookPublisher.**  `emit` is split at its awaits: SELECT, INSERT, publish.
`Publish` is one `channel.publish` call with its three outcomes; a full write
buffer is a failed call whose message goes out all the same, so a retry makes a
second copy.  A message is a delivery and the number of its publish call.
Jobs an operator publishes again by hand are external (`Replay`); they are the
only ones with an attempt number above 0, because `emit` writes 0 and nothing
counts it up.

**WebhookDelivery.**  `Take`, `RejectInvalid`, `Post`, `MarkDelivered`,
`DeadLetter`, `MarkFailed`, `AckHandled`, `NackForRetry` are the steps of the
consumer loop and of `processMessage`.  A failed `dlq.publish` leaves the fiber
"stranded": it ends without ack or nack and the message keeps its slot of the
prefetch window until the connection goes.  `new Webhook(secret)` and `sign`
(webhookWorker.ts:36-41) may throw, at any attempt: that is a defect, which
`matchEffect` does not see and `catchCause` only logs, and the fiber has "died"
with the same effect on the window and with no row update and no DLQ copy.

**SearchIngest.**  `ingestDocument` is find by hash, insert, publish, track, each
of which may fail or be the last thing the API process does.  The worker's
upserts are one action per chunk, because the code runs one INSERT per chunk
outside a transaction.  The unique index on (tenant, hash), the foreign key of
chunks and the `ON CONFLICT` of the upsert are the guards of these actions.

**Leaderboard.**  A board is a function from events to the number of times each
was added: what the properties need of a score.  `window[h]` is the union of the
buckets that make up the rolling window of hour `h` (of day `h`, for the 7d
window).  A run counts in the bucket of the hour in which it began (`at`), and a
reader merges the buckets it named when it began (`asOf`), however often
`TurnHour` comes in between.  `CountAlltime` and
`CountBucket` are the ZINCRBYs of one pipeline; `ResendCounts` is the Redis
client sending the pipeline again after a reconnect (`autoResendUnfulfilled-
Commands`, redisService.ts:41); `FailCount` a rejected one, with any part of it
applied.  Readers are `CheckCache` (EXISTS), `BuildCache` (ZUNIONSTORE),
`ExpireCache` (EXPIRE), `ReadCache`, and may stop anywhere (`AbortRead`);
`StartRead` is the clock they read before the EXISTS (leaderboardService.ts:233,
263).

**Payments.**  `sent[p]` is what happened at Razorpay, in order; `Handle(p, i)`
is the webhook request for the i-th event, in any order, with the outcomes of
its one upsert: written and answered, written with the answer lost (so the event
comes again), or not written and answered with 200 all the same
(paymentRoutes.ts:251-255).  `disorder` remembers the payments for which an
event was lost, repeated or overtaken.  Events the status map does not list are
"other" and make a row pending (line 209).

**ReceiptWorker.**  `Fetch`, `Upload`, `StoreKey` or `DeadLetter`, then
`AckHandled` or `NackRefused` are `processJob`; a PDF is the status printed on
it.  All its errors, that of `dlq.publish` included, end in the nack of one
`catchCause` (pdfReceiptWorker.ts:227-234): unlike those of the webhook, search and
leaderboard workers, its jobs are settled without exception.

**EmailWorker.**  `SendMailJob`, `AckSent`, `Announce`, `BuryMail`, `AckBuried`,
`NackMail` are the steps of its `processJob`.  This worker alone waits for one
job before it takes the next.  The number of attempts is the message's own and
is never written back, so a mail that fails before its last attempt is nacked,
and with that discarded; a failed DLQ copy ends in the `catchCause`, which nacks
as well.  `send` counts as done when its promise resolves, for the `error` that
Resend reports in the resolved value is not looked at.

**Accounts.**  A request is split where it awaits: its SELECT, the argon2 runs,
its UPDATE or INSERT, each of which may fail (`Fail`).  `GoogleRow`, `LocalRow`
are the rows that the two ways of registering insert; the unique index on the
address is a guard of `RegisterInsert` and `OAuthInsert`.  `since` (the rows an
account had during a request) and `before` (the requests that were over when it
began) are history, kept for the properties alone.  Reset tokens are named by
the request that made them; a mail is sent by a detached fiber (`SendMail`) or
never.  **OAuthFlow** is the pair of cookies in which the API keeps the state and
the verifier of a sign-in, shared by all tabs of a browser; what the sign-in
does to the table is in Accounts.  `since[f]` is history: the flows that were
started or answered while `f` was at Google, the only ones that can have taken
the cookies of `f`.

**ApiKeys.**  `VerifySelect` takes all active rows of a prefix, `VerifyMatch`
tries them, answers from the rows as they were read, and leaves a detached
update of `lastUsedAt` (`Touch`) behind.

**MongoWatcher** gives every change a `fate`.  One debounce serves all
collections: `Debounce` holds the last change of a burst and merges the others
away, `Quiet` lets it go on; `LetThrough` of **DedupCache** is `shouldProcess`.
The Map keeps the order of first insertion, so its eviction is by insertion and
not by use. **PgPoller** counts time in polls: a row carries the time its INSERT
began and may be committed after the next poll has read.

**WorkerHealth** has two kinds of worker, with a queue (the webhook worker
stands for its likes) and the CDC worker, which says it is ready as soon as its
health server listens.

**LeaderboardFanout** follows the score of one member: a delta is the score it
carries.  `joined`, `late`, `missed` and `scoreRead` are history.  **FeatureFlags**
numbers the rows a flag had, so an answer has the version it was read from;
**HybridSearch** does the same with sets of chunks, and computes the fusion
(reciprocal ranks, with the order of equal scores left open) for every answer.
An order of all chunks stands for each ranking: `ROW_NUMBER()` gives no two of
them one rank (`Ranks`), 0 is a chunk that does not match.  A score is counted
in units of `1 / Unit`, for a `Unit` that every `60 + rank` divides.

**ScoreServer** follows one player: his score in the ZSET, the table, the queue,
and in every transaction under way.  `recordScore` queues the score and sends its
ZADD in one step (`Record`, leaderboard-server.js:203-206); Redis runs it later
(`StoreScore`), and timer, flush, COMMIT, the 30 s job or the end of the process
may come in between.  Redis runs the ZADDs of one client in the order in which
they were sent: `behind` is the set of those that were out before.  The job
copies the first fifty of the ZSET, so it may or may not include the player.
`latest` is history, the score that was queued last; `mishaps` names what set
table and ZSET apart.  **ScoreReads** follows versions of the board through the
rank and page caches.  **ScoreClient** is the optimistic client, whose answers
come in any order.  **Backup** is a run of the script with everything that child
processes, streams and S3 can do to it.

`MCIdentity` and `MCServices` put parts side by side that share no variable: in
the code, what one says to another is a message or a row whose effects the other
part's module has as an input of its own (a job on the mail queue, a delta on
the channel, a change of the corpus, a row in `users`).  A behaviour therefore
chooses one part and runs it; interleaving it with the others would give the
same states of each and multiply them.

**JobContract** is what a worker promises, whatever the job: it runs any number
of times, is over once and for good, "finished" only after a successful run or
with a DLQ copy, "dropped" only after a failed run or a body that does not
decode.  Each worker's module instantiates it with a refinement mapping
(`Contract == INSTANCE JobContract WITH ...`) and checks `KeepsContract`.

## 3. Runs

| run | instance | shows |
|---|---|---|
| `webhook_pipeline` | 1 delivery, 1 publish call and 3 replays (attempts 3, 5 and 6), prefetch 2, 1 loss, fairness | type, truth of rows, limits of attempts, the contract; a queued job is settled, or its fiber or a whole window of them died |
| `webhook_retry_doc` | 1 delivery | the promised retry does not exist (finding) |
| `search_rerun` | a text of 2 chunks and a blank one, 2 publish calls each, prefetch 2 | concurrent runs of one job keep status, chunks and DLQ consistent; the contract |
| `search_liveness` | 2 requests with one text, prefetch 1, 1 loss, fairness | deduplication, deletion, crashes: no document lost without a trace, accepted ones become searchable |
| `search_settle_doc` | 1 request, fairness | a message that is never settled (finding) |
| `leaderboard_safety` | 2 events, well or badly formed, 1 reader, prefetch 2, 1 loss or 1 resend, 1 turn of the hour | double counting, agreement of boards and windows, the contract |
| `receipts` | 1 payment with 3 provider events, 1 of them repeated, 1 job, 1 loss, fairness | row and receipt rest on provider events; a row with its events in order is current; the contract; every job is settled |
| `leaderboard_ttl_doc` | 1 event, readers | a merged window without a TTL (finding) |
| `identity` | 3 requests of any kind about 1 account with 2 passwords; or 3 Google sign-ins of 1 browser; or 3 calls about 2 keys with one prefix | answers rest on current rows, later requests prevail, links and accounts |
| `services` | eleven parts, one at a time (bounds in `Services.cfg`), fairness for the fan-out's timer | see below |
| `cdc_window_doc` | 6 ids, room for 5, 4 let through in 30 s | a recent id is forgotten (finding) |
| `score_sync_doc` | 1 submission, 1 end of the server, fairness of the job and of the restart | a table that the 30 s job never brings up to date (finding) |

The properties of `services` are conjunctions over its parts:

| property | parts | what it says |
|---|---|---|
| `LostChangeIsExplained` | MongoWatcher, PgPoller | a change without an event met a full queue, was merged into a later change that is held or was handled, follows a recent event about its document, or was under way in a failure; a missed user was committed late, or met a failed, cut or full poll, or a downtime |
| `CachedAnswerIsExplained` | FeatureFlags, HybridSearch, ScoreReads | a cached answer is the source's, or stale because its read crossed the invalidation, or nobody invalidates it |
| `ClientViewIsExplained` | LeaderboardFanout, ScoreClient | at rest a client shows the board, or its last request, but for late, lost or crossing messages |
| `RowIsExplained` | ScoreServer | only overlapping submissions lower a score; table and ZSET agree at rest but for the named mishaps |
| `ReportIsExplained` | WorkerHealth, Backup | ready means consuming, done means a whole archive, but for the named exceptions |
| `EmailKeepsContract` | EmailWorker | it implements `JobContract` |
| `PendingIsFlushed` | LeaderboardFanout | deltas that were received are broadcast |

An "explained" property lists every way in which the promise can fail.  It is
checked because the list is complete: each cause is a history variable set by
the step that causes it, or a relation of the state, and a further cause, as
each of the mutants adds, violates it.

*Bounds.*  Two jobs with a prefetch of two give every interleaving of two fibers,
whether of different jobs or of copies of one; the code never looks at more than
one other job.  One lost connection makes every fiber position a position of a
crash, and the rerun meets what the first run left; a second loss only repeats
it.  `PublishCalls = 2` gives the duplicate that a retry makes (the code allows
four calls) in the search runs and in `webhook_retry_doc`; in `webhook_pipeline`
the further copies of the job are the replays, which are on the queue with it and
handled by two fibers at a time, as a duplicate would be.  `MaxAttempts = 5` is
the code's own value; the replays carry attempt numbers on both sides of each
limit and beyond the job schema. Two chunks are the least with a partly written
document.  One resend gives the double ZINCRBY, and one loss the rerun
(`MaxFaults = 1` bounds the two together: each adds one more run of the same
commands); one turn of the hour comes between any two steps of a reader and of a
run; one reader is enough for the invariants, because a second one touches the
cache only in ways that one that aborts and starts again does too. Three provider
events are a payment captured and refunded, with one more before, between or
after, so that each kind of event can be overtaken by a later one; one receipt
job with one rerun meets the row before and after every one of them, and a second
job would share nothing with it but the object and the key in the row, which it
writes in the same way. Three requests about one account are two that overlap and
one that is begun after either of them; two passwords are the old and a new one,
or two new ones. No operation of Accounts reads the row of another address, so
one is enough. Three calls about keys are a verification, a revocation and one
that comes after both, or a creation; two keys with one prefix are what argon2
has to tell apart. The queue of 2 and the dedup cache of 2 stand for 1,000 and
5,000: four changes fill them; a poll of 1 meets two new users.  Three versions
of a flag and two corpora give an answer that is stale by one and a source that
changed again. Three chunks with one place in the answer and two candidates in
each ranking make the three rankings disagree about the best.  Two submissions
and two batches are the least that overlap, with one failure or end of the
process. Three Google sign-ins are one that is refused, one that took its
cookies, and one that was over before it began or that began after it was over,
and is no excuse. Three requests of the client are one that is out, one that
crosses it and one after both.  A score of 3 gives three deltas, so one can be
late, one missed.

In `identity` requests and passwords are symmetric (no definition singles one
out, and there is no liveness property).
In `leaderboard_safety` events are symmetric (no definition singles one out and
no liveness is checked); in the other runs the messages differ and no symmetry
is used.  Deadlock is not checked: with bounded losses, replays and jobs the
system comes to rest.

*Fairness.*  `FairSpec` asks weak fairness of `Deliver`, of each message's
`WorkerStep` and of `Restart`: the broker pushes while the window has room, the
Node event loop runs every ready fiber and every await ends (the HTTP POST has a
timeout, the clients have command timeouts), a supervisor restarts an exited
worker.  No fairness is asked of the API, of operators, of losses, or of any
particular outcome: a POST may fail for ever and so may `dlq.publish`.  In
`EveryJobIsSettled` there is no way out.  In `AcceptedBecomesSearchable` and
`QueuedIsSettled` the ways out are part of the formula: the fiber died on
`dlq.publish` (a webhook's also on its signature), or as many died as the window is
wide. In `score_sync_doc` it is
asked of the interval that starts the job, of the end of its transaction, and of
the supervisor.  In `services` it is asked of `TimerDue` and `Flush`: the event
loop runs a timer that is due and its callback.  It is due there in the end
because score events are bounded; under a stream of deltas without a pause of 200
ms the code sets the timer again for ever, which `PendingIsFlushed` does not
speak of.

*Findings.*  The five violation runs each refute what a comment or a
document says: the delayed retry of webhooks (webhookDeliveryWorker.ts:10), that every
message is acked or nacked (rabbitConsumer.ts:50), the TTL of the merged window
(leaderboardService.ts:11), that the CDC worker's dedup cache is LRU-style and
skips a document for 30 seconds (cdcWorker.ts:14-15): a full Map deletes its first
key, which may have been stamped a moment ago; and that the 30 s job of the
stand-alone leaderboard reconciles any divergence (ARCHITECTURE.md:127, 183): the
player of `score_sync_doc` submits a score that is confirmed and queued, the
process ends before the batch, and since he is not one of the first fifty the
job never writes him.  More results are not
violations but worth knowing:

* `InOrderIsCurrent` holds of rows without disorder only, for the upsert
  compares nothing: a refund overtaken by its capture leaves "completed".
* `GivesUpOnlyOnReplays` shows that neither limit of attempts is ever reached
  without a replay by hand, and `FinalStatusChangesByRace` names the race in
  which a completed job reads "queued" until its key expires.
* `LaterPrevails` and `AnswersAreCurrent` hold with overlaps left open: a change
  and a reset that overlap overwrite each other, both answered OK, and a refresh
  that was under way sets the cookie that a logout cleared meanwhile.
* A webhook job whose signature throws is neither settled nor recorded: its
  message stays in the window until the connection is lost, is delivered again and
  throws again.  `QueuedIsSettled` names these fibers beside the ones stranded on
  the DLQ.
* When the hour (or the day) turns between a reader's clock and its ZUNIONSTORE, it
  merges the keys of the old hour.  If the worker counted into the new bucket and
  deleted the window in the meantime, the merged window misses that event for up
  to 30 seconds with no deletion pending and nothing failed
  (leaderboardService.ts:233 and 263 against 240 and 246).  It is the last of the
  causes in `StaleCacheIsExplained`.
* ARCHITECTURE.md of the stand-alone leaderboard (`../docs/WS-leaderboard`) says
  more than the server does.  :98 "Only keeps highest score for user":
  `RowIsExplained` allows a lower one after overlapping submissions
  (leaderboard-server.js:199-206), for two `recordScore` that read the same score
  write in any order; and for the same reason :112-114, concurrent updates are
  made one by one by Redis, but the read and the write of one are not.  :127 and :183:
  the job reconciles neither a player beyond the first fifty (the finding) nor,
  at once, a batch that committed a lower score after a higher one; all the
  mishaps of `RowIsExplained` are such divergences.
* ARCHITECTURE.md:119-120 says that updates in flight are queued locally and
  retried when the connection breaks.  The client has a `scoreQueue` for them
  (leaderboard-client.js:11) that nothing fills or reads: no callback comes, the
  submission is not sent again, and the optimistic entry stays unconfirmed for
  good.  `DisplayIsExplained` of ScoreClient states it so.
* The poller of the CDC worker never finds a row that is committed after a poll
  with an earlier stamp, nor the rows of a failed poll: its cutoff moves on.
* The CDC worker's header (line 30) has its probe on :9105 tell readiness; the
  worker says it is ready before, and after, its streams are open.
* A backup of more than 1 MiB never finishes, and a smaller one is whole only if
  tar happens to print UTF-8, since `exec` decodes it (dbBackup.js:75); a one-time
  run exits before its clean-up has read the directory (line 193).
* `ApiKeyRevokedError` is unreachable: a revoked row is inactive, and the SELECT
  asks for active rows (apiKeyService.ts:177).

## 4. Proofs

Every invariant and every action property that a passing run checks is proved,
and so are the five refinements: for any sets of events, subscriptions, requests,
accounts, keys, flags, chunks, payments, readers and messages, and any prefetch,
queue and cache sizes and numbers of retries, replays, resends, faults and losses.
What stays with TLC is liveness.

| module | theorem | statement |
|---|---|---|
| `WebhookDeliveryProofs` | `TypeCorrect` | `Spec => []TypeOK` |
| | `InductiveInvariant` | `Spec => []IInv` |
| | `DeliveredIsTrue` | `Spec => []DeliveredRowIsTrue` |
| | `NeverGivesUpAlone` | `Spec => []GivesUpOnlyOnReplays` |
| | `ContractKept` | `Spec => KeepsContract` |
| | `RunInvariant` | `Spec => []RunInv` |
| | `AttemptsAreCounted` | `Spec => []AttemptsCountFailures` |
| | `FlipsAreExplained` | `Spec => FlipsOnlyByRerun` |
| `SearchIngestProofs` | `TypeCorrect` | `Spec => []TypeOK` |
| | `InductiveInvariant` | `Spec => []IInv` |
| | `CompletedAreIndexed` | `Spec => []CompletedIsIndexed` |
| | `DiscardedAreBuried` | `Spec => []DiscardedIsBuried` |
| | `UnindexedAreExplained` | `Spec => []UnindexedIsExplained` |
| | `FinalStatusChangesAreExplained` | `Spec => FinalStatusChangesByRace` |
| | `ContractKept` | `Spec => KeepsContract` |
| `LeaderboardProofs` | `TypeCorrect` | `Spec => []TypeOK` |
| | `InductiveInvariant` | `Spec => []IInv` |
| | `EventsAreCountedPerDelivery` | `Spec => []CountedPerDelivery` |
| | `BoardsCountAlike` | `Spec => []BoardsAgree` |
| | `StaleCachesAreExplained` | `Spec => []StaleCacheIsExplained` |
| | `ContractKept` | `Spec => KeepsContract` |
| `ReceiptWorkerProofs` | `TypeCorrect` | `Spec => []TypeOK` |
| | `InductiveInvariant` | `Spec => []IInv` |
| | `RowsAreBacked` | `Spec => []RowIsBacked` |
| | `OrderedRowsAreCurrent` | `Spec => []InOrderIsCurrent` |
| | `ReceiptsAreBacked` | `Spec => []ReceiptIsBacked` |
| | `ContractKept` | `Spec => KeepsContract` |
| `IdentityProofs` | `IdentityInvariant` | `IdentitySpec => []IdentityInv` |
| | `TypeCorrect` | `IdentitySpec => []TypeOK` |
| | `LaterCallsPrevail` | `IdentitySpec => []LaterPrevails` |
| | `LinksDieOfOthers` | `IdentitySpec => []LinkDiesOfOthers` |
| | `SignInsAreExplained` | `IdentitySpec => []SignInIsExplained` |
| | `AccountAnswersAreCurrent` | `IdentitySpec => AnswersAreCurrent` |
| | `AnswersAboutKeysAreCurrent` | `IdentitySpec => KeyAnswersAreCurrent` |
| `WorkerServicesProofs` | `MailInvariant` | `EmailSpec => []MailInv` |
| | `EmailContractKept` | `EmailSpec => EmailKeepsContract` |
| | `WorkersInvariant` | `ServicesSpec => []WorkersInv` |
| | `LostChangesAreExplained` | `ServicesSpec => []LostChangeIsExplained` |
| | `MailContractKept` | `ServicesSpec => EmailKeepsContract` |
| `ServicesProofs` | `PartsInvariant` | `ServicesSpec => []PartsInv` |
| | `TypeCorrect` | `ServicesSpec => []TypeOK` |
| | `CachedAnswersAreExplained` | `ServicesSpec => []CachedAnswerIsExplained` |
| | `ClientViewsAreExplained` | `ServicesSpec => []ClientViewIsExplained` |
| | `RowsAreExplained` | `ServicesSpec => []RowIsExplained` |
| | `ReportsAreExplained` | `ServicesSpec => []ReportIsExplained` |

The five refinement theorems say that webhook, search, leaderboard, receipt and
mail worker all implement `JobContract`.

*Assumptions* are those of the modules, each named beside its constant: a
positive prefetch, natural bounds, messages as pairs of a delivery or request
and a copy, a natural number of chunks per content, a payment for every job,
webhook jobs of `emit` with attempt 0 and `MaxAttempts > 2`; a positive queue of
the watcher, a Map larger than the ids of one window (the code has 1,000 and
5,000), a first version of every flag, at least one player, a finite set of
chunks whose rankings repeat no rank, and a `Unit` that every `60 + rank`
divides (the product of them is one).  "none" names no request, account or
password.  They are evaluated by the runs.

*What the workers' invariants share.*  None of the properties is inductive:
`DeliveredRowIsTrue` says nothing of a fiber that is about to write "delivered",
and the contract nothing of one that is about to ack.  Each invariant adds what a
phase means (`PhaseEvidence`).  A fiber exists only for a message that the broker
counts as unacked (`FiberHoldsMessage`), so a requeued message has no old fiber
that could settle it; a phase before an ack comes with the effect or the DLQ
copy, one before a nack with the failed run.  Actions add to the evidence and
take none away, so preservation is one step per action, and the properties
follow from the invariant by first-order reasoning.  The refinements use the same
invariant: the ack is `Finish` because its phase has the evidence, every other
step of a worker is `Run`, `Bury`, `Drop`, `Reject` or a stutter.

*Webhooks.*  A DLQ copy comes with a replay, because `Exhausted` asks for an
attempt number that `emit` never writes.  `RunInv` holds beside `IInv` and is
about what happens while no connection is lost: a run without an answer is the
message's first (`FirstRunIsClean`), so a refused message is in exactly one of
the places where its failure is counted, or is yet to be (`Counted`); every
`MarkFailed` adds an element to that finite set, which is why attempts stay
below its size.  A row that says "delivered" names a copy whose run is over but
for its ack (`DeliveredHasRun`), so the copy that overwrites it is another one.

*Search.*  A message exists only for a request past its INSERT, a run is at a
chunk its content has, and the chunks upserted so far are there as long as the
document is (`WrittenIsThere`); the run that upserts the last one therefore
leaves all of them, also when another run or a deletion comes between, and the
foreign key keeps a run from bringing chunks of a deleted document back.

*Leaderboard.*  No run counts in a bucket of the future (`Clock`), so the windows
of the hours to come are that of the current one, and a turn of the hour changes
none of the facts.  The rest of the invariant is arithmetic: before a run has
counted its event, earlier runs and resends have added it at most `losses +
resends` times, and once more from then on (`CountedAtMost`); past a ZINCRBY at
least once (`CountedAtLeast`); between the two, the boards are one apart
(`HalfwayApart`).

*Payments and receipts.*  A row in order is described by a prefix: `CurrentUpTo`
the k-th event, and nothing after it handled (`OrderedRows`); an event keeps it
so only if it is the next one, and else puts the payment in `disorder`.  The
evidence for a receipt goes from the events to the row, from there to the
PDF a fiber holds (`PrintedIsBacked`), to the bucket and to the metadata.  What
happened is never undone, so a stale PDF is still backed.

*Mail.*  The worker is at one message (`OneAtATime`), which is unacked until the
ack and acked while it announces.  The mails of a message are at most its runs, and
a further run needs a further loss (`MailsAreCounted`).

*Accounts.*  A step makes a request, answers one with or without a write, lets
one go on, or moves no request (`AccountShapes`).  An unanswered request is before
no answered one (`BeforeIsAnswered`): who writes now is therefore not undone by
who is over, and `LastWriterPrevails`, `LastSignPrevails` and `LinksLive` are kept
by taking the request that writes as the witness.  An answer is backed because
every write tells the requests that wait on the account (`RequestsKnow`: the row
that was read is in `since`, and so is the one there is now), although the UPDATE
itself looks at nothing.  `LinkDiesOfOthers` follows from `LinksLive`, which is
about mails in the outbox too: a link may be dead before it arrives.

*Google sign-ins.*  A flow that is out, or was refused, has its cookies in the jar,
or they expired, or another flow was started or answered while it was out
(`JarIsExplained`): that is kept by every step that touches the jar, because the same
step adds its flow to `since` of all that are out.

*Keys.*  A call knows whether its key was live at some moment, and that it is live
now if it found it (`KeyIsWatched`); a revoked row stays inactive
(`RevokedIsFinal`) because a key is drawn by one call (`KeyIsMadeOnce`) and only
revocations write it again.

*Change stream and poller.*  What waits in the CDC worker, the held change first,
is in order and after all that was handled (`WaitingIsInOrder`), so a merged
change always has a later one; an id in the Map was let through.  For the poller,
the first poll that is due for a user decides (`FirstDue`): until a restart polls
join without a gap (`PollsJoin`), so that one has the user in its window unless
the row was not committed yet, or the poll failed, was cut or full.

*Fan-out.*  The newest score is in flight, missed, pending or shown to every client
that joined before it (`NewestIsAccountedFor`); as long as no delta was late, the
last one received is the newest (`LastReceivedIsNewest`, `LastShownIsNewest`).

*Caches.*  For flags, ranks and pages, what a call has read and will store is told
by the same formula as what is cached (`ReadOf`, `RanksAreFresh`, `PagesAreFresh`):
a store then keeps it, and an invalidation that comes between read and store is
what the formula names as the cause.  For search, `MadeFor` ties a result to the
corpus it was made from.  That the best chunk of the text ranking is left out only
for stronger ones is arithmetic: its share is `Unit / 61`, a chunk in one ranking
that is not the best of it has `Unit / 62` at most, and the answer is a set of the
`Limit` highest scores.

*Stand-alone leaderboard.*  As long as no two submissions overlap, one at a time has
read the score and it is still the score (`OneReader`).  As long as nothing else went
wrong, ZSET and table are compared with the score queued last: the ZADD sent last
writes it, and with none out the ZSET has it (`LatestIsAdded`); it is queued, in a
batch that is being written, or in the table with no other write under way
(`LatestIsOnItsWay`).  At rest both therefore have it.
The last request of the client that crossed no other is the only one of its kind
that may still be answered (`AlonePerKind`).

*Backup.*  What was uploaded was archived, and when no listing is left the old files
that are there are those being removed, unless a step failed.

*Composition.*  In each step of `ServicesNext` or `IdentityNext` a part takes a step
of its own or keeps its variables (`PartsStep`, `IdentityParts`), so its invariant
is kept; the refinement of the mail worker carries over in the same way.

*Only model-checked.*  `QueuedIsSettled`, `AcceptedBecomesSearchable`,
`EveryJobIsSettled` and `PendingIsFlushed`: leads-to under fairness is out of the
prover's reach, as it needs ENABLED.  So are the five findings, which are
counterexamples.  That `Answers` of `HybridSearch` is what the SQL computes is
by reading; the theorem is about what every such answer has in common.

## 5. What the models leave out

* Contents: payloads, signatures, chunk texts, embeddings, scores, times.  A
  back-off delay has no effect on behaviour, because no step waits for it.
* Expiry of job status in Redis after 24 hours, and of the daily and hourly
  buckets: the properties are about what is there before.  The hour turns less
  often than a bucket needs to leave its window (`MaxTurns` below 24 and 7), so a
  window only grows.
* `recordEvent` called by the HTTP route of the leaderboard, which does the same
  steps without a message; the emit of `leaderboard.score.updated` after the
  ack, whose errors are ignored and whose pipeline is `WebhookPublisher`.
* A Redis command that is rejected by its timeout and applied later than the
  rejection is seen: modelled as applied before it.  The event concerned is in
  `failed` either way, and every property already treats it so.
* The signature check of the payment webhook and payloads without a payment: such
  requests touch nothing.  The emit of `receipt.generated` after the ack, as for
  the leaderboard.
* Auto-ack consumption (no worker uses it), the test ping of a subscription,
  list, suggest and health reads, which change nothing.
* The early return of the search worker for a document without chunks: the
  message schema turns away the only contents that have none.
* Tokens: a PASETO is good for the account it was made for, and its expiry is
  that of the cookie; nothing revokes one, so signing out clears the cookie only.
  The ids of new users are taken to be accepted by the id column.
* The reasons for which a body is refused before a service is called, and the
  handlers that only read (`/auth/me`, lists, suggest, status).
* Clock differences between API, worker and database in `PgPoller`.
* Flags whose key contains another flag's and a colon: `a:b` and user `b` of `a`
  have one entry in the cache, which `invalidate` of either deletes.
* The page cache of the stand-alone server has the page's number for its key and
  not its size (leaderboard-server.js:237): one size is modelled.  Its
  `getUserRank` of an unknown player is 1, from the table; players here are known.
* The server is an ES module that calls `require` (line 297); it is modelled as
  if that were an import.  Its published metrics are read by nothing.
* `resendLimiter` and the Gemini limiter: a request refused by a full queue is a
  failed request of their callers.
* Other failures than the named ones of child processes and streams of the
  backup; `--uri` and its contents.

*Not modelled* are the Knock bridge (a stateless call of `emit`), the audit log
(an INSERT and paged reads), object storage and authorisation (pass-through to S3
and OpenFGA), the caches and limiters (configurations of libraries; nothing uses
`requestDeduplicator`), infrastructure clients and codecs.  `ApiKeyService` is
modelled though only `runtime/appLayer.ts` builds it and no route uses its
middleware yet.  The admin routes of feature flags answer 501, so flags change by
hand (`ChangeFlag`, `Invalidate`).

## 6. Plan

What is left, in this order:

1. The promise of `JobContract` itself (over once and for good, and only with its
   reason) as a theorem, carried over to each worker by its refinement.
2. `Accounts` with two addresses, so that a reset link and a Google sign-in of
   one account run beside requests about another: the theorems hold for any
   number of them, the run has one.
3. The CDC worker composed with `WebhookPublisher`, whose `emit` it calls.
