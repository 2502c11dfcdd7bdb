# Logarithm: TLA+ models, model checking and proofs

Logarithm ingests OpenTelemetry logs, queues them in NATS JetStream and stores
them in ClickHouse; a dashboard searches them and tails them live. This
directory holds TLA+ models of its processes, TLC configurations that check them
on small instances, and TLAPS proofs.

Run `tlc -config X.cfg M` for a row of the table of runs and `tlapm M.tla` for
a proof module. Paths below are relative to the repository; `nats.go` is
`backend/internal/transport/nats.go`.

## 1. The system

```
 OTLP client --HTTP/gRPC--> ingester --PublishLogs--> JetStream stream LOGS
                                                          |  durable consumer
                                                          v
                         ConsumeLogs: callback -> msgCh -> batch -> insert callback
                            |  DLQ publish                       |
                            v                                    v
                        LOGS_DLQ                worker pool -> column batch -> ClickHouse
                                                  |                               ^
                                   Enqueue (drop when full)                       | SQL
                                                  v                               |
                     core NATS tail.> --> TailLiveLogs --> WebSocket --> browser  |
                     core NATS presence <-- handleLiveTail                        |
                                            dashboard REST / SSE -----------------+
```

### Inventory

| Component | State | Operations | Hard behaviour | What makes it correct |
| --- | --- | --- | --- | --- |
| JetStream consumer, `nats.go` `ConsumeLogs`; process in `cmd/worker/main.go` | client queue, `msgCh`, `batch`, loop position; broker: state and delivery count per message | callback, receive, size/timer/cancel flush, Ack, NakWithDelay, dead-letter, stop, crash, restart | late and lost answers, redelivery during the insert, partial answers, shutdown | an Ack only after the message is accounted for; dead-letter only after the last delivery; nothing stuck; shutdown ends |
| Worker pool, `worker.go` | `jobs` channel, wait group, the shared column batch | split, submit, process, recover from a panic, flush | interleaved appends, panics, flush versus jobs | the flush sees every row exactly once; the callback returns |
| Decompression, decoding, flattening, `decompress.go`, `decode.go`, `transform.go` | pooled buffers | decompress / cleanup, decode, Flatten | aliasing of a released buffer | no read after release |
| Batch insert and pool, `insert.go`, `pool.go` | free column batches, one ingest connection and its mutex | Get, Reset, Append, Flush, Put | dirty or shared batches, failed insert | a batch has one user and starts empty |
| Live tail publisher, `publish.go` | queue of jobs, buffer pool | Enqueue, publish, Close | full queue, buffer reuse | a buffer has one owner; nothing blocks the insert path |
| Live tail subscription, `nats.go` `TailLiveLogs`; `websocket.go` | ring of logs, subscription, context | message callback, drop oldest, cleanup, select loop | close versus send, slow client, shutdown | no send on a closed channel; the handler ends |
| Presence, `nats.go` 410-475 | last time a heartbeat was seen | publish, listen, `isActive` | delay versus timeout | no flapping; a departed client is noticed |
| Ingester, `ingester/`, `cmd/ingester/main.go` | pooled HTTP bodies and gRPC frames, the connection | HTTP and gRPC ingest, publish, start, shutdown | late publish answer, client retries, buffer reuse, silent streams | a success means the stream has the message, intact and decodable; a signalled process ends |
| Connection, streams, shutdown, `nats.go` 99-196, `cmd/*` | NATS connection, streams' limits | connect, ensure streams, Close, deferred closes | hanging drain, order of closes | a signalled process ends |
| Dashboard server, `dashboard/`, `cmd/dashboard/main.go` | position of each goroutine and handler | start with backoff, poll, REST queries, SSE stream, shutdown | queries without an answer, slow or gone client, signals at any time | no fetch outlives its handler; streams are released; the process ends |
| ClickHouse store, `storage/clickhouse.go`, `deploy/clickhouse/init.sql` | tables, views, TTL | seed, search, count, chart queries | two queries see two states; paging over a changing table; late rows | replies fit together; paging misses nothing; charts agree |
| Core metrics, `core/` | none | pure aggregation | index ranges, projections | no panic on short input; the cards mean what they say |
| Configuration, `config/` | none | load, validate | limits that depend on each other | the limits the models assume |
| Frontend live tail, `logWorker.ts`, `CircularLogBuffer.ts`, `LiveTailLogs.tsx` | socket, attempts, timer, status, ring of logs | connect, give up, reconnect, cleanup, pause | reconnect versus backoff, messages between page and worker | one connection; the status comes true |
| Frontend dashboard hook, `useMetrics.ts`, `useTick.ts` | EventSource, retry timer, watchdog | connect, retry, watchdog, close | unmount during connect | no stream but the shown one; the status comes true |
| Pages, charts, load generator | | rendering; benchmark client | | not modelled |

Components interact by calls within a process (ConsumeLogs calls the insert
callback and waits for it), by JetStream messages (at least once, explicit
answers), by core NATS messages (at most once), and by HTTP, WebSocket and SSE.
`PROJECT.json` lists the hazards of the code line by line, with the property
that covers each.

## 2. Modules

| Module | Models | Role |
| --- | --- | --- |
| `AtLeastOnce` | the promise of the queue: a message is held until it is accounted for or its attempts are used up | abstract specification |
| `Consumer`, `MCConsumer` | `ConsumeLogs`, its broker, the outcome of the insert callback, the worker process | component |
| `WorkerPool`, `MCWorkerPool` | the insert callback, its goroutines, pooled decompression buffers and column batches | component |
| `TailPublisher`, `MCTailPublisher` | `LiveTailPublisher`: queue, buffers, publisher goroutines | component |
| `LiveTail`, `MCLiveTail` | one live tail connection: `TailLiveLogs` and `handleLiveTail` | component |
| `Codec` | content types and encodings, as the ingester labels and the worker reads them | operators |
| `Ingester`, `MCIngester` | the ingester process, its handlers and clients; uses `Codec` | component |
| `Metrics` | core metrics, storage outlook, retry delays, `isActive` | operators |
| `LogStore`, `MCLogStore` | tables, queries, search handler, seeding, a browser that pages; uses `Metrics` | component |
| `Dashboard`, `MCDashboard` | the dashboard process, its handlers and streams; uses `Metrics` | component |
| `LogWorker` | the live tail page and its web worker | component |
| `DashboardHook` | the dashboard page's stream hook | component |
| `Frontend`, `MCFrontend` | a browser tab: `LogWorker` and `DashboardHook` under the router | composition |
| `ConsumerProofs`, `WorkerPoolProofs`, `TailPublisherProofs`, `LiveTailProofs`, `IngesterProofs`, `LogStoreProofs`, `DashboardProofs`, `FrontendProofs` | | proofs; those about `Metrics` are in `DashboardProofs` |

Operators with a comment that begins with "Slip:" are mutated forms of the
definition below them; no specification uses them. `PROJECT.json` names, for
every property, the slip that breaks it.

### Consumer

The broker keeps `srv[m]` and `delivered[m]`; a delivery makes a copy
`[msg, num]`, where `num` is what `metadata.NumDelivered` returns. Copies go
through `inbox` (the client library's queue in front of the callback), `msgCh`
(the channel, capacity `2*maxBatch`) and `batch`. `pc` is the position of the
loop of `ConsumeLogs`:

| `pc` | Code |
| --- | --- |
| `select` | `nats.go` 281-297 |
| `handler` | inside `logHandler(payloads)`, 245 |
| `answer` | inside the loops of 248-271 and 273-275, at message `next` |
| `ackDead` | between the dead-letter publish (259) and the Ack (266) |
| `returned` | after `return nil` (285), the pool and the live tail being closed |
| `closing` | in `NatsBroker.Close` (99-112), which `run` defers |
| `down` | no process |

`conn` is the connection of the process: `up`; `lost` when the client library has
given up reconnecting (`GiveUp`); `draining` after `Drain` (`CloseBroker`); `none`.
On a lost connection nothing is delivered, answers and dead letters do not
arrive, the copies the library held are gone, and `ConsumeLogs` goes on waiting:
nobody tells it. `Close` on a lost connection waits for ever (no action leaves
`closing` then). A drain ends when the callback has emptied its queue (`Exit`), or
at its timeout of 5 s, or with the connection (`CutShort`).

`rows`, `dead` and `dropped` record what became of a message: copies inserted,
stored in LOGS_DLQ, or given up with an error in the log ("message will be
lost", "dropped malformed log payload", a recovered panic). `Accounted(m)`
means one of the three.

Choices the environment makes: the ack wait or NAK delay may pass at any time
(`Expire`); an answer may be lost, since Ack and Nak are published without a
reply and their errors are ignored (`Answer`); the insert may fail before or
after the rows were written (`InsertFails`), likewise the dead-letter publish;
a payload may be undecodable or make its job panic, and a panic may take the
payloads behind it in the same interval with it (`Insertable`); the stream may
discard messages (`Discard`); the process may be signalled, lose its connection,
crash and start again.

Abstractions: time is left out (a NAK delay or backoff is "some time later");
the default delay for a message without metadata (252-257) is not reachable for
messages of a JetStream consumer; payloads and headers are not represented; the
rows of one insert become visible together.

### WorkerPool

`cb` is where the callback of `ConsumeCallback` is (submitting jobs, in `wg.Wait`,
flushing, in the deferred `Put`), `jobs` the channel, `wg` the wait group,
`state`, `pos` and `end` each goroutine and its interval. For every payload a
goroutine may decompress into a pooled buffer (`held`, `content`), decodes from it
(`req`), releases it and appends. A released buffer holds `NoRow`, so that a
decode after the release would show as a missing row. `Decode` reads the buffer
and releases it in one step, and `req` is a value of its own: the unmarshallers of
the library copy what they keep. That a decoded request might still point into the
buffer is therefore not represented. The column batch is two sequences of row
names, the first column `Append` writes and the last one; a row is named by call
and index, so rows of an earlier call would show. A payload is a log, undecodable,
or makes the job panic (before or after its row, but not inside `Append`, which
only calls the column library). It explains the step `Insert` of `Consumer`: what
one insert holds is `InsertComplete`, and `Insertable` in `Consumer` allows at
least that.

### TailPublisher

`enq` are the calls of `Enqueue` (made by jobs of the worker pool), `pub` the
publisher goroutines, `jobChan` the queue, `pooled` the buffers in `bufPool`,
and `holds[b]` the log whose bytes are in a buffer. `Close` waits for the
enqueuers because in `cmd/worker/main.go` it is deferred behind `ConsumeLogs`,
whose callback has waited for its jobs: that is `NoJobAfterWait` of
`WorkerPool`. `HasSubscribers` only decides whether `Enqueue` is called.

### LiveTail

`cb` and `msg` are the subscription's callback, `at["handler"]` the select loop
of `handleLiveTail` and its deferred calls in their order (cleanup, cancel,
`ws.Close`), `at["watcher"]` the goroutine of `TailLiveLogs` that cleans up when
the context is done, `reader` the goroutine that waits for the client to go,
`presence` the goroutine that publishes heartbeats. `once` is the `sync.Once`: a
second caller of `cleanup` waits. The client library dispatches one message at a
time, and a call that has begun is not interrupted by `Unsubscribe`. A write has
no deadline, so it may last as long as the client is connected. Core NATS may
lose a log. The panic of a send on the closed channel ends the process.

### Ingester and Codec

A call `<<r, n>>` is the n-th attempt of request `r`; a client that saw no
success, or gave up waiting, may send the request again while the first handler
still runs. `at[c]` is the handler: `read` (`ReadFrom`, or `RecvMsg`), `publish`,
`wait` (for the stream's answer, 5 s), `accept` or `fail`, `done`. A gRPC stream
that ends before its frame is answered OK with nothing published (`ReadEnds`,
answer `empty`); it carried no logs, so it is not a success of `AcceptedIsStored`.
`buf[c]` is its pooled buffer and `holds[b]` the request whose bytes a buffer
holds, kept apart so that a buffer in two hands shows. The deferred Put is part of
`Reply`; a buffer that outgrew `INGESTER_BUFFER_LIMIT` (`Big`) is not put back.
`wire` are messages on their way: the stream stores them late (`Store`), or never.
An HTTP request is labelled by its headers, which the two middlewares have
checked; a gRPC frame by its magic bytes (`detectCompression`). `Codec` has both
ends of the labels, the ingester's and the worker's `decompress` and `decode`.

`server` is where `run` of `cmd/ingester/main.go` is: connecting, ensuring the
stream, listening, serving, `http` (in `Shutdown`, with its 10 s), `grpc` (in
`GracefulStop`, without a timeout), `closing` (in `NatsBroker.Close`). `conn` is
`lost` when the client library has given up reconnecting, after which `Drain`
fails and nothing calls the closed handler that `Close` waits for. Bodies may
end early, replies may be missed, and the start may fail at each step.
`LabelAssumption` says that clients send what their headers say.

### LogStore and Metrics

`logs` is the table, `metrics` and `registry` what the materialized views keep per
service and second and per service, `ever` a history variable. Rows come at any
time and may be late; an insert writes the table first (`Inserted`, rows that the
views do not count yet are `behind`) and then the views (`WriteViews`); rows past
the TTL go at some later time (`Expire`). Every query of `storage/clickhouse.go`
is an operator over one state of the database: the error rate sums `metrics` over
`ErrorSpan` (5 min), the list of the services with most errors sums the buckets of
`metrics_1m` over `TopSpan` (1 h); these buckets are the sums of `metrics` by
`toStartOfMinute`. `SearchLogs` is the set of pages the query may return: rows
with equal sort keys come in any order, which may differ from query to query. The
search handler takes its two queries in two steps (`Search`, `Count`); a browser
(`Browse`, `AskPage`, `Reply`) turns pages of `Limit` rows by offset until the
total is reached.

`InitDB` counts and then inserts its records, once per start of the dashboard
(`CountRows`). The server commits them (`Commit`), after which `InitDB` goes on
(`Seeded`); it may also fail, or its process stop, before or after that
(`SeedFails`, `Stop`). A start whose insert the server has not finished by then is in
`late`: the insert may come in at any later time, or never.

`Metrics` has the functions of `core/metrics.go`, the projected size of the logs,
the decision of the storage card (floating-point quotients are multiplied out),
`calculateExponentialBackoff`, `DelayCalculator` and `isActive`.

Abstractions: a text filter is a service or a span of time; timestamps are
seconds; the three views of one insert are written together; the TTLs of the
metrics tables are no shorter than the spans read from them and are left out.
`SpanAssumption` has what the charts rely on: the 5 minutes of the error rate and
one bucket fit into the hour of the list.

### Dashboard

`phase` is where `run` of `cmd/dashboard/main.go` is; `attempt` and `waited`
belong to `GetJetstreamConsumer`, whose delay also follows the last attempt.
`seeder` (the mock updates), `poller` (consumer info, saved through
`SaveConsumerInfo`), `listener` (the HTTP server) and `stopper` (the shutdown job)
are the goroutines. A handler of client `c` is at `at[c]`: in the `select` of
`handleDashboardStream`, in its queries, or writing. `job[c]` says which queries
it makes, whether an errgroup makes them together or one follows the other, and
how many replies it writes; there is one definition for each handler of
`routes.go` and each event of `sse.go`. A query in state `run` may stay there for
ever; it ends when its context does: with the request or, for queries made
together, with the first that fails. The process's context reaches the queries
only through the end of the process, and `Shutdown` waits 10 s for the handlers.
The search handler is in `LogStore`, the live tail in `LiveTail`.

### Frontend: LogWorker, DashboardHook

`LogWorker`: `ws` is the socket in the worker's variable, `readyState` that of
every socket that exists, so that a forgotten socket shows. `toWorker` and
`toPage` are the messages under way. `OnClose` either schedules a reconnect or,
after five attempts, reports the error, upon which the page offers the retry
that posts `RECONNECT`. Leaving the page terminates the worker.

`DashboardHook`: every mount of the page is an instance with its own `source`
(the EventSource in its ref) and `fetching` (a `connect` between its requests
and the opening of the stream); `quiet` is the watchdog's 15 s without a message.
`abandoned` are instances that were left while a connect was under way.

`Frontend` lets the user move between the two pages and others.

## 3. Runs

| Run | Instance | Checks |
| --- | --- | --- |
| `consumer_safety` | 2 messages, one of which panics, batches of 2, 2 deliveries, 1 process end | `TypeOK`, `AckedIsAccounted`, `DeadOnlyAtLimit`, `RowsWithinDeliveries`, `ExhaustedIsInProcess`, `KeepsPromise` |
| `consumer_liveness` | 2 messages, one undecodable, one that the stream may discard, batches of 2, 3 deliveries, 1 message unanswered at a time, 1 process end, fairness | `EventuallyAccounted`, `ShutdownCompletes` |
| `consumer_abandoned` | as `consumer_safety`, without crashes | `ExhaustedIsDeadLettered` is violated (finding) |
| `worker_pool` | 2 goroutines, 1 pooled batch, 2 calls of 1 to 5 payloads | `TypeOK`, `NoJobAfterWait`, `RowsAligned`, `InsertComplete`, `CallReturns` |
| `tail_publisher` | 2 enqueuers, 2 publishers, queue of 1, 5 buffers, 4 logs | `TypeOK`, `OneOwner`, `SentIntact`, `EnqueueReturns` |
| `live_tail` | capacity 2, 4 logs | `TypeOK`, `CallbackNeverBlocks`, `InOrder`, `ClosedOnce`, `ClientGoneReleases` |
| `live_tail_close` | the same | `SafeClose` is violated (finding) |
| `live_tail_batch` | the same | `BatchWithinMax` is violated (finding) |
| `ingester` | HTTP requests in gzip JSON, plain protobuf (a big one), and of a refused type; a gRPC request in zstd; 2 buffers, 2 calls in all | `TypeOK`, `OneOwner`, `StoredIntact`, `StoredDecodes`, `AcceptedIsStored`, `HandlerReturns`, `ShutdownCompletes` |
| `log_store` | 4 rows of 3 services, one of them late and two of them seeds, a seed and another row that tie in time, 2 starts, clock 3 to 4, pages of 1 | `TypeOK`, `PageConsistent`, `BrowseMissesNothing`, `SeededOnce`, `ChartsAgree` |
| `dashboard` | 1 client, all endpoints and events | `TypeOK`, `FetchesJoined`, `ShutdownCompletes`, `ClientGoneReleases` |
| `frontend` | 2 sockets, 4 status messages under way, 3 mounts of the dashboard | `ConnectionsAccounted`, `StatusSettles` |

* `AckedIsAccounted`: no interleaving releases a message that was not accounted for.
* `DeadOnlyAtLimit`: the number tested at `nats.go` 258 is the copy's; still, nothing is dead-lettered before the last delivery.
* `RowsWithinDeliveries`: duplicates come only from redeliveries.
* `ExhaustedIsInProcess`: while the first process is neither signalled nor cut off, the broker never gives up a message whose fate is not decided or in the worker's hands.
* `KeepsPromise`: refinement of `AtLeastOnce`.
* `EventuallyAccounted` (`Consumer`): no message is left behind while the process lives and is connected.
* `ShutdownCompletes` (`Consumer`): a signalled worker ends. The callback may be blocked on a full channel that nobody reads any more; its `ctx.Done` case frees it, so the drain ends (the mutant, a plain send, leaves `Close` to the drain's timeout, which the property does not count on). The exception is the code's: a connection that was given up before `Close` calls no handler.
* `NoJobAfterWait`, `RowsAligned`, `InsertComplete`: the insert starts after the last job; the goroutines' appends never misalign the columns; the insert holds this call's rows, each once and read before its buffer was released, and misses only what an undecodable payload or a recovered panic accounts for.
* `CallReturns`: a panic neither loses a goroutine nor leaves the wait group or the mutex behind.
* `OneOwner`, `SentIntact` (`TailPublisher`): no buffer is reused while a job still needs it, on any path out of `Enqueue`.
* `EnqueueReturns`: publishers that are stuck do not hold up the insert path.
* `CallbackNeverBlocks`, `InOrder`: the ring protects the subscription from a slow client, and drops only the oldest logs.
* `ClosedOnce`, `ClientGoneReleases` (`LiveTail`): handler and watcher clean up together exactly once, and leave no goroutine or subscription behind.
* `OneOwner`, `StoredIntact` (`Ingester`): a pooled buffer has one user, also when a client repeats a request whose handler still runs, and what is stored are the request's own bytes.
* `StoredDecodes`: the two processes agree on the labels of a payload, for both protocols.
* `AcceptedIsStored`: a client that saw a success has its logs in the stream, whatever was late, lost or cut short. The converse does not hold: after a timeout the message may be stored although the client saw an error, and is stored again with the retry.
* `HandlerReturns`, `ShutdownCompletes` (`Ingester`): handlers end even if the stream never answers; run returns, except for a gRPC client that keeps its stream open without sending, and a connection that was given up before the shutdown.
* `PageConsistent`: page and total come from different states of the table and still fit together.
* `BrowseMissesNothing`: paging by offset over a growing table shows each row that was there at the beginning. The property names when it does not: rows with equal sort keys, rows past the TTL, and rows that move up when others expire.
* `SeededOnce`: a failed or repeated start does not seed twice. The exceptions: rows were removed from the table, or the server finished the insert of a failed or stopped start after the next start's count.
* `ChartsAgree`: the graph has a point for every service and second, and graph, rates, filter and error list do not contradict each other, with late rows, quiet services, and views that follow the table.
* `FetchesJoined`: the two goroutines of an event write to variables of the handler; none of them is left behind, also when one fails or the client goes.
* `ShutdownCompletes`, `ClientGoneReleases` (`Dashboard`): neither queries without an answer nor clients that do not read hold up the end of the process or of a stream. The exception, as in the ingester, is a connection that was given up.
* `ConnectionsAccounted`: a page has one connection; only a dashboard that is left during `connect` leaves a stream behind. The comment at `useMetrics.ts` 111 ("close on dismount") does not mention that stream, which the property names `abandoned`.
* `StatusSettles`: "connecting" and "live" do not stay on the page without a connection.

`MCLogStore` also holds two assumptions that TLC evaluates: the storage outlook
lies between the emptiest and the fullest day (`OutlookAssumption`), and the
queue depth chart shows the samples of its span in order (`QueueDepthAssumption`).

Bounds. Two messages give two copies of one message and a copy of another in the
same batch; two deliveries give a first, a repeated and a last delivery, the only
cases the code distinguishes; one process end covers a crash or stop at every
step, and the restart. With three deliveries, in `consumer_liveness`, there are
enough copies to fill the channel of four and block the callback. Two goroutines
and batches longer than two give intervals of different sizes, and the second call
meets a used column batch. A queue of one is full, or empty, with either enqueuer
at work. A ring of two logs has an oldest and a newest one, and four logs overflow
it. Two calls of the ingester are two requests, or a request and its retry, at the
same time or one after the other, each with its buffer or the second with the
first one's. In `LogStore` the clock passes the TTL of one row, pages of one row
need several replies, two of the seconds share a minute bucket, and `Bounds` stops
a behaviour when the last page was shown and keeps the views at most one row
behind while a search is made (a search does not read them). A handler of
`Dashboard` shares nothing with others, so one client stands for all. Two sockets
show a second one, and three mounts of the dashboard a stream that outlives two.

Fairness (`Fairness` in each module). In `Consumer` the broker's timers and pulls
go on; the goroutines are scheduled; a `select` picks among ready cases at random,
so no case is starved; the insert and the dead-letter publish return because both
run under a 3 s timeout; `Close` goes on once the drain is done, and a worker that
ended is restarted by its supervisor. Nothing forces a publish, a signal, a crash,
a discard, a lost connection, a drain's timeout or a successful insert. In
`WorkerPool` a goroutine that waits for the appender's mutex obtains it in the end
(strong fairness): Go hands the mutex to a waiter that starves. In `TailPublisher`
nothing is assumed of the publishers. In `LiveTail` the done case of the select is
not passed over for ever (strong fairness, the select picks at random); nothing
obliges the client to read or to disconnect. In `Ingester` run goes on and so do
the handlers, each of whose waits has a timeout; a gRPC client need not send its
frame, and the stream need not store or answer. In `Dashboard` calls with a
timeout return, a database call returns once its context is done, the selects
choose the done case in the end, and a write returns once its client is gone;
nothing else of the database, the client or the signal is assumed. In the frontend
messages arrive, timers fire, and an attempt to connect ends one way or the other.

### Findings

`consumer_abandoned`: the documentation says that a message goes to the
dead-letter stream after `NATS_MAX_DELIVER` attempts. During a shutdown the
consume callback answers Nak while the subscription is still active, because
`cons.Drain()` runs only after the last flush. A Nak without delay makes the
broker redeliver at once, to the same callback, so each round uses up an
attempt until none is left. The message was never inserted and is never
dead-lettered. It also shows for messages left in `msgCh` when the loop
returns, whose last attempt is lost silently.

`live_tail_close`: the comment above `TailLiveLogs` promises that the cleanup
safely closes the channel. A callback that has passed its context check when
`Unsubscribe` returns sends to the closed channel and panics; nothing recovers
in that goroutine, so the dashboard ends.

`live_tail_batch`: `LIVE_TAIL_MAX_BATCH` is documented as the largest number of
log lines per batch, but it is only the capacity of the channel; the batch a
tick writes is not limited by it.

Smaller observations, which are exceptions inside properties or theorems rather
than runs: `NatsBroker.Close` waits for ever when the connection was closed before
(`ShutdownCompletes` of all three processes), and a worker whose connection was
given up goes on waiting for messages until it is signalled
(`EventuallyAccounted`); a dashboard page left during `connect` leaks a stream
(`StreamsAccounted`); the storage card compares the projection with the bytes in
use, while the comments beside it (`routes.go` 305, `sse.go` 244) speak of the
capacity (`CardMeaning`); with the default settings the presence timeout equals
the heartbeat's interval, so that a late heartbeat interrupts the live tail
(`PresenceGap`).

## 4. Proofs

Each theorem holds for every value of the constants, from the assumptions named
in the component's module. The arguments are inductive invariants `Inv`, one lemma
per action or group of actions.

`ConsumerProofs`:

* `Invariance`: `Spec => []Inv`. `Inv` conjoins the type invariant, the two
  safety properties and what makes them inductive: `LoopInv` (in `answer` after
  a successful insert every message of the batch is accounted for; in `ackDead`
  the current one is; the batch is below `maxBatch` in `select`) and
  `DeliveryInv` (no copy carries a number larger than its message's delivery
  count). Without `LoopInv` an Ack of an arbitrary batch would break
  `AckedIsAccounted`; without `DeliveryInv` a copy numbered `MaxDeliver` could
  exist for a message delivered less often.
* `TypeCorrect`, `AckSafety`, `DeadLetterSafety`: the consequences.
* `GivenUpIsInProcess` (`ExhaustedIsInProcess`): by `LastDeliveryInv`. The copy
  of the last delivery stays in the worker's hands (`LastCopyHeld`) until its
  message is accounted for, the process has begun to stop, or its connection is
  given up.
* `DuplicatesBounded` (`RowsWithinDeliveries`): by counting. Copies of a message
  that may still be inserted and rows that were inserted are together no more
  than its deliveries; an insert turns one into the other.
* `Refinement`: `Spec => KeepsPromise`, by one lemma per group of actions.

`WorkerPoolProofs`, in two layers:

* What needs no data. `Shape` is as much typing as needed; `SubmitInv` bounds the
  jobs submitted, so that the count in `NoJobAfterWait` comes out even, including
  after a panic; `MutexInv` says that whoever is inside `Append` holds the mutex
  and that the columns differ by his row only, from which `RowsAligned` follows.
* What becomes of every message: `Whole`, from which `TypeCorrect` (`TypeOK`) and
  `InsertHoldsTheCall` (`InsertComplete`) follow. `JobsInv`: the jobs in the channel
  and at work are intervals of the split, each in one place. `BuffersInv` and
  `DecodedInv`: a buffer outside the pool belongs to the worker that is decoding the
  payload in it, so what is decoded is the payload at hand; without the first,
  two workers could share a buffer and insert one log twice. `RowsInv` is the
  account: every message has its row, will have it (`ToCome`), or never will
  (`Dropped`: malformed, or behind a panic in its interval), and no two of these
  at once. When nothing is to come, this is `InsertComplete`. That a free buffer
  exists when a worker takes one is the pigeonhole principle.
* `SplitPartitions`: the intervals of `splitMessages` are disjoint and cover the
  messages, for any number of messages and workers. The recursive function is
  tied to a closed form (`StartOf`) by looking at its least counterexample, which
  takes no induction.
* `NeverStuck`: while a call runs, the callback or a goroutine can go on, for any
  number of messages, workers and buffers. It is the safety half of
  `CallReturns`; the other half is fairness.

`TailPublisherProofs`: besides `TypeOK` and `OneOwner`, `Allocated` (only allocated
buffers are in use) and `Carried` (from marshalling to publishing a buffer holds
its job's log). `OneOwner` is what keeps `Carried` true when another enqueuer
marshals.

`LiveTailProofs`: `Inv` adds `CleanupInv` to the type invariant (who is inside
the cleanup holds the once, the channel is closed only when the once is done, and
nothing of it happens before the subscription exists); `ClosedOnce` alone would not
survive a step of the other actor. `RingNeverBlocks` rests on `RoomStep`: between
the drop and the send only the handler touches the channel, and it only takes.
`NeverStuck` is the safety half of `ClientGoneReleases`: once the client is gone,
everything is released or some goroutine is past its guard. `LeaveInv` says on whom
each wait relies: the reader is there or the context is cancelled, the once is held by
somebody inside the cleanup, and after the subscription somebody is about to close
the channel.
`OrderKept` (`InOrder`) joins what was received, batched, queued and is being
sent into one sequence and shows that it stays increasing.

`IngesterProofs`: besides `TypeOK` and `OneOwner`, `InHand` (at the publish a
handler's buffer holds its own request, which the middlewares let in),
`Published` (every message is intact and labelled like its request) and `AckSeen`
(a handler about to accept has seen its message stored). `Ownership`,
`Integrity`, `Compatibility` and `Acceptance` follow.

`LogStoreProofs`, for any rows, searches, number of starts, page size and spans; the
assumptions are that a record seeded by one start is not another's
(`RowAssumption`: each has its own time) and that searches are what a request
can hold (`SearchAssumption`):

* `TypeCorrect`, and `ServicesOffered`: the filter offers the service of every row
  that was ever inserted and is not `behind` (`RowsInv`).
* `RepliesConsistent` (`PageConsistent`): `PageInv` says, between the two queries,
  what the count will find or is due to expire. A count over `ever` cannot go down;
  one over `logs` can, which is why the property speaks of both.
* `SeedingOnce` (`SeededOnce`): `SeedsInv` orders the starts. A start that is about
  to insert, or whose insert is late (`Seeding`), counted an empty table; had an earlier
  one inserted by then, rows were removed since, and one that inserts after that is late
  itself.
* `PagesComplete` (`BrowseMissesNothing`): `BrowseInv` counts, for every row that is
  still to be shown, the rows that come before it (`Ahead`): no fewer than the pages
  so far, so it cannot slip back onto a page that was turned. With the newest
  first, rows that come in only add to `Ahead`, and those that expire are behind.
* `ChartsAgreement` (`ChartsAgree`) is about the data in one state. Of the past it
  needs only types and `MetricsInv`: a service that has a counted log is in the
  registry. The rest is about the operators of the queries:
  - Sums (`SumInto`, `SumPositive`): a sum does not depend on the order in which the
    set is taken (`SumRemove`), and what maps one to one into larger parts adds up to
    no more. The buckets of the current rate are among those of the average; every
    row of the graph shows a bucket of its own (`RowsDiffer`); the seconds of the error rate
    are in minutes of the hour's list (`MinuteStarts`). Hence the graph never
    shows more than the rate, although late rows keep coming in.
  - Sequences (`OrderedIs`, `Joined`, `Selected`): the sorted list that `ORDER BY`
    chooses exists, `WITH FILL` gives every service a block of as many rows as the
    axis has seconds (`GraphFacts`), and appending the rows of a service collects
    its block (`SelectedBlock`). Hence all series are as long as the axis, which
    is what `NewIngestionGraphMetrics` takes for granted when it indexes the rows.
  A function defined by recursion is never computed: each claim is proved of a smallest set, or
  a least number, that would violate it.
* `OutlookBounds`: the projection of the storage outlook lies between thirty of the
  emptiest and as many of the fullest days, for any history; TLC evaluates the same
  on short histories and around the TTL (`OutlookAssumption`).

`DashboardProofs`: `BackoffInv` ties the seconds waited to the number of attempts
and needs `BackoffDelays`; `FetchesJoined` is inductive with the types. About
`Metrics`: the start-up waits 1, 2, 4, 8, 15 seconds; `DelayCalculator` never
indexes out of range; when presence has gaps; when each storage card is shown.

`FrontendProofs`: `ConnectionsAccounted` needs `TailInv`, which says that an error
is the last thing the worker posts before it idles and that it idles until the
page has asked for the retry: no guard in `connect` prevents a second socket, but
this protocol does. `FetchesAccounted` does the same for the streams.

Only model-checked:

* All liveness: the provers have neither ENABLED nor fairness. `NeverStuck` of the
  worker pool and of the live tail is the part of it that they can state.
* The queue depth chart, `QueueDepthAssumption` in `MCLogStore`: `SelectSeq` and
  `SortSeq` are recursive operators, which the provers cannot unfold.

## 5. Plan

Done: the consumer, the worker pool, the live tail publisher and connection, the
ingester, the store, the dashboard process and the browser's connections, with
their runs; the theorems above.

Left, in this order:

1. Presence with discrete time: interval, timeout and delay of heartbeats, and
   what a gap loses; composed with `TailPublisher`.
2. The circular buffer and pausing in `logWorker.ts`.

## 6. Not modelled

* The load generator: a benchmark client.
* Pages and charts: rendering; the state that keeps a connection or decides a
  status is in `LogWorker`, `DashboardHook` and `LogStore`.
* `flat_log_gen.go` (generated MessagePack code), the fields that `transform.go`
  fills in, and the text of SQL statements and of seed records (`seed.go`): data
  conversion without control.
* The rows of `BatchInsert`, which only the seeding of a new database uses: its
  insert is one row of `LogStore`; losing and replacing
  the ingest connection is done by the client library.
* Configuration: reading and formatting variables keeps no state; the limits that
  `validate` enforces are the assumptions of `Consumer`.
* The timing of presence heartbeats (only the test `isActive` and the life of
  the publisher), and pausing, sorting and filtering in the live tail page.
* Connecting and reconnecting of the NATS client, and the servers: only what the
  code relies on.
