# Verification of chart-server

TLA+ models of the chart-server processes, TLC runs that check them on small
instances, and TLAPS proofs of the main safety properties. `PROJECT.json` lists
the runs, the source lines of every definition, the hazards and the theorems.

- `tlc -workers 2 -config <run>.cfg <module>` checks a run (module and cfg are in
  `PROJECT.json`);
- `tlapm <module>.tla` checks the proofs of the modules whose names end in `Proofs`.

## 1. The system

```
TwelveData --ws--> Market Ingestor (n replicas, one leads) --> Kafka raw ticks --> Candle Processor --> PostgreSQL
                        |        \                                                      |
                   PostgreSQL     +--------------> Redis <------------------------------+
                   advisory lock                     |
                                                Chart Server --ws--> clients
                                                     +--REST--> PostgreSQL
```

Every process is one Node.js event loop. What runs concurrently inside a process
are promises, timers and event listeners, and they interleave only at an `await`;
so an action of a model is the code between two awaits. Processes run concurrently
with each other, with PostgreSQL, Kafka and Redis, and can be killed at any time;
`docker-compose` restarts them (`restart: unless-stopped`).

| Component | State | Operations | What must be right |
|---|---|---|---|
| Candle Processor (`src/src/candle-processor.ts`, `modules/candle-processing`, `modules/candle/candle.maker.ts`, `modules/kafka/kafka-raw-tick.consumer.ts`, the raw-tick parser) | one CandleMaker and one replay-start offset per symbol, the message in hand, the group's committed offset | start, handle a message (parse, fold, insert, commit, publish), fatal exit, SIGTERM | stored candles are exact; a restart skips nothing; nothing is announced before it is stored; every closed minute is stored |
| Leader election (`modules/coordination`) | election state, session, attempt in progress, retry timer, callback queue | start, attempt, connection loss, stop | a leader owns the lock; no lock is stranded; a standby keeps trying |
| Active ingestion runtime (`modules/ingestion`) | Redis publisher, Kafka producer and stream of one leadership epoch | start, stop, clean up a failed start | no stream without leadership, nor without its sinks |
| Market Ingestor process (`src/src/ingestor.ts`) | shutdown progress | start, callbacks, SIGTERM, fatal exit | the workload is down before the lock is returned |
| TwelveData stream (`modules/market-data/twelvedata.provider.ts`, Kafka publisher) | socket, timers, active handlers, one realtime tail per symbol | start, socket events, tick handler, heartbeat, stop | Kafka before Redis; order per symbol; a silent feed is replaced; stop drains |
| Candle persistence (`modules/candle/candle.persistence.ts`, flusher, RocksDB store) | pending keys, batch in flight, active enqueues, closing flag | start, enqueue, flush, close | a durable candle is never lost and eventually stored; no use after close |
| 1m candle table (`candle.repository.ts`, Prisma schema) | rows by symbol and minute | bulk save, queries, refreshes | the first insert of a key wins |
| Historical backfill (`modules/market-data/historical-backfill.service.ts`) | per symbol: last candles, gap, window, result; refresh window | fill both gaps of every symbol, refresh the aggregates | gaps are filled, what was updated is refreshed, live rows are not replaced, it ends |
| REST rate limiter (`shared/utils/rate-limiter.ts`) | cooldown, queue, slots, retries | schedule, run, answer (429, transient, final) | no request in a cooldown, bounded retries, every request settles |
| Client WebSocket service (`modules/realtime`) | clients, subscriptions, liveness flags | connect, subscribe, broadcast, ping check, destroy | events agree with the acknowledgements, dead clients go, live ones stay |
| Redis publish/subscribe (`modules/messaging`) | connection, subscription, availability | subscribe, publish, reconnect, disconnect | at most once, in order |
| Chart Server process (`src/src/server.ts`, `app.ts`) | requests in flight, start and shutdown progress | start, requests, signals | shutdown ends, the database goes last |
| Candle REST queries (`candle.service.ts`, controller, validation, repository) | none | validate, choose the query, query | a chart has no hole, parameters are honoured |
| Observability, configuration, middlewares, scripts, migrations | counters, environment | - | not modelled (section 7) |

Hard behaviours, each with its source line under "hazards" in `PROJECT.json`:

- one partition-wide offset stands for the open minutes of all symbols, and a
  restart replays from the middle of some of them;
- requests that fail with or without having taken effect, and inserts of a dead
  process that the database runs after its successor replayed the minute;
- a lock that PostgreSQL frees before its owner hears of it, and activations that
  complete after leadership is gone;
- a SIGTERM while any of this waits;
- Kafka answers in any order, and Redis must see each symbol's ticks in order;
- retry timers, heartbeats and flush intervals on which all progress rests;
- 429 answers of requests that were sent before the cooldown they extend;
- a backfill that reads the table, waits for a request and inserts, while the live
  pipeline inserts too, and whose gaps fail one by one;
- clients, pings, events, acknowledgements and a shutdown on the same sockets;
- pages of a chart between which candles arrive.

## 2. Modules

| Module | Models |
|---|---|
| `Candles` | ticks, candles, and when a candle is the complete summary of a log; no state |
| `CandleTable` | abstract: what `candle_1m` promises its readers |
| `CandleProcessing` | the Candle Processor with its Kafka partition, table and Redis channel; implements `CandleTable` |
| `CandleProcessingProofs` | its inductive invariant, six theorems |
| `IngestorReplicas` | the set of replicas, shared by the next three |
| `LeaderElection` | LeaderElectionService of every replica, and PostgreSQL's sessions and lock |
| `ActiveIngestion` | ActiveIngestionRuntime of every replica |
| `MarketIngestor` | composes the two: `ingestor.ts`, SIGTERM, crashes, restarts |
| `MarketIngestorProofs` | its inductive invariant, seven theorems |
| `TwelveDataStream` | the stream of one leadership epoch, its tick handlers and the stop sequence |
| `TwelveDataStreamProofs` | its inductive invariant, five theorems |
| `DurableOutbox` | abstract: what the persistence layer promises its caller |
| `CandlePersistence` | the pending store, the flusher and close; implements `DurableOutbox` |
| `CandlePersistenceProofs` | its inductive invariant, four theorems |
| `RateLimiter` | the request policy and the Bottleneck queue around TwelveData REST requests |
| `RateLimiterProofs` | its inductive invariant, three theorems |
| `HistoricalBackfill` | runHistoricalBackfill, with the live pipeline inserting meanwhile |
| `HistoricalBackfillProofs` | its inductive invariant, two theorems |
| `WebSocketService` | subscriptions, fan-out, heartbeat and destroy |
| `RedisSubscriber` | the subscriber connection |
| `ChartServer` | composes the two: start, HTTP requests, shutdown |
| `ChartServerProofs` | its inductive invariant, four theorems |
| `CandleQueries` | GET /api/candles under a chart and under arbitrary parameters |
| `CandleQueriesProofs` | what the queries return, its inductive invariant, one theorem |
| `MC...` | the same modules with the symmetry sets and initial rows for TLC |

An operator under a comment "Faulty variant" is not part of any specification. It
is the definition that follows it with a plausible bug (a dropped guard, a missing
reset, a swapped order); `PROJECT.json` pairs each property with one, and the
property fails when the definition is replaced by it.

### CandleProcessing

`log` is the partition, `committed` the group's offset, `db` the table and
`published` what reached Redis: these survive. `current` (the CandleMakers), `replay`
(`replayStartOffsets`), `completed`, `pos` and `pc` are the process's memory. The
handler of a message is `BuildCandle` when the tick closes nothing, else
`CompleteCandle`, `SaveSucceeds`, `CommitSucceeds`, `PublishCompleted`, one per await
of `CandleProcessor.process` and of the runtime. `RejectRecord` is the fatal path of
a malformed record or an unconfigured symbol. `SaveFails` and `CommitFails` end the
process with the request done or not; `Crash` can strike at each await; an insert that
was sent and not answered goes to `late` and may be run at any later time
(`LateSave`). `BeginShutdown`/`FinishShutdown` are SIGTERM. `Rebalance` (the partition
leaves a living process and comes back) is only in `SpecWithRebalance`.

Abstractions: offsets count from 1; the volume is always 0 in `process()` and is left
out; a tick is symbol, timestamp and price, and any other record is `Malformed`;
timestamps such as 59 and 60 keep the division by 60 at a minute's edge.

`ImplementsCandleTable` maps `table` to `db` and `log` to `log`: whatever happens to
processes, offsets and requests, seen from the table the log grows and from time to
time the complete candle of a minute that has none is added.

### LeaderElection, ActiveIngestion, MarketIngestor

Per replica: `state`, `stopped`, `retryTimer`, `client` are the fields of the service;
`acq` is the attempt in progress and where it waits, `loss[c]` the connection-loss
handler of session c, `halt` the `stop()` in progress, `queue` the chained
`lifecycleTransition`. `alive`, `lock`, `owner` are PostgreSQL: `SessionEnds` frees
the lock before the client hears of it, and an `Orphan` session is one PostgreSQL
keeps although nobody uses it. `ActiveIngestion` holds the runtime's fields as
`refs`, and `start()`, `stop()` (two possible callers at once, as in the code) and the
cleanup of a failed start. `MarketIngestor` composes them: an action of the runtime
that settles a callback is joined with the election's step that continues after it.
`Sigterm` and the `Shutdown...` actions are the steps of `ingestor.ts`'s shutdown, with
its time limit (`ShutdownTimesOut`).

Left out: `standbyAnnounced` (log lines), `closedClients` (guards a double close),
`retryDisabled` and the state `failed`, which differ from what is modelled only in the
turn that ends in `process.exit`.

### TwelveDataStream

`ws`, `reconnectTimer`, `heartbeat`, `quiet` (nothing arrived within the heartbeat
timeout) are the connection. A tick is its number of arrival: `kafka[i]` is its
send, `phase[i]` its realtime phase, `previous[i]` the tail it was chained to, `tail`
the map `symbolRealtimeTails`, `redis` what was published in order. `shutdown`
is the order in which the runtime takes stream, producer and publisher down.

`stop()` removes the socket's listeners and then closes it. On an open socket that is
the end of it (`Stop`); during a handshake `close()` makes the socket emit `error`,
which nobody listens to any more (`StopWhileConnecting`), and the uncaught exception ends
the process (`UnhandledError`). It comes in the next tick of the event loop; the model lets
handlers take steps before it, which only adds behaviours. An error of an open socket between the
`close()` and its closing handshake would do the same and is left out. In `MarketIngestor`
such an end of the process is a `Crash`.

### CandlePersistence

`pending` is RocksDB, `db` PostgreSQL, `durable` the keys whose enqueue resolved (a
history variable). `flush`/`batch` are the flush in flight: `Peek`, `Write`, `Ack` and
their failures. `closing` is where `closeCandlePersistence` waits. A candle is its key:
a second candle of a key replaces the pending one and is skipped by
`skipDuplicates`, so the properties speak of keys, not prices. One caller closes
the layer at a time. No entry point of the program starts this layer at this commit.

`ImplementsOutbox` maps `waiting` to the durable keys that are pending and not in the
database, and `stored` to `db`: an accepted candle stops waiting only by being
delivered.

### RateLimiter

`job[c]` is where the request of caller c is: in the queue, holding a slot before it
runs, sent, or holding its slot until a retry. `Schedule` asks the policy once, `Run`
asks it again when the job really runs, at first or as a retry. `Answer429`,
`AnswerTransient` and `AnswerFinal` are the `failed` handler with `handleFailure`, and
the end of a job; `RetryAfter` is `parseRetryAfterMs` for seconds, dates and missing or
past values. Bottleneck (slots, queue, strategy LEAK with its rejection of the dropped
job) is modelled from how it is configured. `forbidden` is a history variable. Time
is in seconds and moves only while something waits for it. `minTime` is left out: a start
may come at any time. In Bottleneck it also decides whether LEAK drops a job (a full queue
and a new job that cannot start at once, be it for want of a slot or because `minTime` has not
passed); `ReachedHighWater` has the first reason only. What happens to a dropped job is the same.

### HistoricalBackfill

One `syncSymbol` per symbol, at most `Concurrency` at a time, cut at its awaits:
`ReadLast`, `CheckGap`, `RequestResolves`/`RequestRefused`, `Save`, and the paths into
its catch block (`Throws`, `SaveThrows`, an insert that rejects after it took effect
included). `GapDone` is what follows a gap: the second one, or the result. `Collect` and
`RefreshView` are the end of `runHistoricalBackfill`. Time is the running minute; a
row is where it came from (`live` or `rest`), so prices are left out, as are the pauses
of 500 ms. The request names no timezone, and `new Date(c.datetime)` (line 312) parses the
answer's strings in the zone of the process: `Parsed` shifts the answer by `ZoneOffset`, and
`ZoneAssumption` says that the two zones agree, which holds for a container in UTC and
instruments the provider quotes in UTC, and is nowhere checked by the code. `LiveInsert` is the
Candle Processor. No process calls
`runHistoricalBackfill` at this commit: `ENABLE_HISTORICAL_BACKFILL` is only logged
(`ingestor.ts:31`).

### WebSocketService, RedisSubscriber, ChartServer

`clients`, `symbols` and `isAlive` are the service's map; `readyState` is the server's
socket and `out[c]` everything sent on it. A client connects once; it may close, or
vanish without a word (`silent`). `CheckConnections` is one round of the heartbeat.
`RedisSubscriber` has the connection, the subscription Redis knows and the messages on
their way; the listener is attached one step after SUBSCRIBE was answered, as in the
code. `ChartServer` composes them: `stage` is what `startChartServer` or `shutdown` waits
for. A WebSocket is also a connection of the HTTP server, so `HttpClosed` waits for
sockets and for the connections of requests. It does not wait for handlers: a client may
drop its request (`RequestDropped`), and its handler then runs on without a connection, until
`RequestEnds` or the end of the process. A signal of another kind during the shutdown does
nothing; the same one again finds no handler (`process.once`) and kills the process, which
`ForceExit` covers. Idle keep-alive connections are closed by Node itself (22, see
the Dockerfile) and are left out. A signal before the handlers are installed kills the
process and is left out.

### CandleQueries

`GetCandles` is `candleService.getCandles` and `Find` the three queries of the
repository, for one symbol and timeframe. `client` is who uses it: a chart that loads
pages and ranges while candles arrive, or a caller with any parameters; a query changes
nothing, so they need not be looked at together. A candle is
its time; every limit that is no integer from 1 to the maximum is refused like 0.

## 3. Runs

| Run | Shows | Bounds |
|---|---|---|
| `candles_replay` | `StoredCandleComplete`, `CommittedTicksStored`, `PublishedAfterSave`, `CommitNeverRegresses`, `ClosedMinuteEventuallyStored`, `ImplementsCandleTable` | 2 symbols, 2 minutes, 2 prices, 4 records (malformed ones too), 1 failure |
| `candles_rebalance` | **violation** of `StoredCandleComplete` under `Rebalance` | the same with 1 rebalance |
| `ingestor_safety` | `LeaderOwnsLock`, `StreamOnlyUnderLock`, `StreamHasSinks`, `StandbyRetries`, `StandbyHoldsNoLock`, types | 2 replicas, 4 sessions, 2 failures, 1 SIGTERM |
| `ingestor_progress` | `EventuallyLed`, `LostLeadershipEnds` | 2 replicas, 2 sessions, 1 failure, 1 SIGTERM |
| `ingestor_shutdown` | **violation** of `WorkloadDownBeforeRelease` | 2 replicas, 3 sessions, no failure, 1 SIGTERM |
| `stream_ticks` | `RedisOnlyAfterKafka`, `RedisKeepsSymbolOrder`, `NoSendAcrossDisconnect`, `ConnectedOrRetrying`, `EveryTickSettles`, `StalledFeedReconnects`, `StopCompletes` | 2 symbols, 3 ticks, 2 drops or stalls |
| `persistence_layer` | `NeverLost`, `NoUseAfterClose`, `DurableEventuallyStored`, `CloseCompletes`, `ImplementsOutbox` | 3 keys, batches of 2, 4 enqueues, 2 failures, 1 kill |
| `limiter_requests` | `NoRequestInCooldown`, `RetriesBounded`, `EveryRequestSettles` | 4 callers and requests, 2 slots, 1 place in the queue, 1 retry |
| `backfill_gaps` | `GapsRecovered`, `ReportedRowsRefreshed`, `BackfillCompletes` | 3 symbols, 2 at a time, 2 views, 8 minutes, answers of 2 candles, 1 failure |
| `backfill_partial_success` | **violation** of `PartialSuccessRefreshed` | 2 symbols, 8 minutes, answers of 2 candles, 1 failure |
| `server_clients` | `StreamMatchesAcks`, `EventReachesSubscribers`, `HeartbeatExact`, `CleanShutdown`, `ShutdownCompletes`, types | 2 clients, 1 symbol, 1 request, 2 events, 2 inputs (client messages, dropped requests, failures, signals) |
| `queries_chart` | `NoHoles`, `HistoryLoaded` | 6 times, pages of 2, ranges of 3, limits up to 3, all parameters |

Type invariants: `TypeOK` is proved for `CandleProcessing`, `CandlePersistence`,
`TwelveDataStream`, `RateLimiter`, `MarketIngestor` and `ChartServer` (the last two are
also checked by a run); the types of `HistoricalBackfill` and `CandleQueries` are part of
the inductive invariants of their proofs.

Why the bounds are enough for the interesting cases. A truncated candle needs a tick
of a minute, a commit past it because of another symbol, a tick of the same minute
behind the commit and one that closes it: four records of two symbols. A malformed
record and one of an unconfigured symbol take the same path, so the topic has only the
former. Two prices tell open, high, low and close apart. The
election's races are between two replicas; four sessions let both replicas lose one
that PostgreSQL still keeps. Three ticks of two symbols let one tick of a symbol settle
while the next ones are queued behind each other and the tail is replaced and dropped;
two drops are a stall or a loss, and one more while it is repaired. Three keys and
batches of two give a full and a partial batch, and a fourth enqueue repeats a key
during a flush. Four callers fill two slots and the queue and drop one job, while two
429 answers of requests sent together overlap; times end by themselves, since nothing
waits once all requests have settled. Before the backfill a symbol has no candle, or two that
are 2, 3 or 4 minutes apart (the first is not filled, the second is the shortest that is, the
third holds more minutes than one answer of two candles), and a downtime that one answer holds
or does not; the clock moves on while the backfill runs, and three symbols make one
wait for a slot. Two clients let one be slow,
closing or gone while the other is served; two inputs are a subscribe and an
unsubscribe, or a subscribe and a Redis failure or a signal, with two events around
them, or a dropped request and a signal.
A chart with pages of two (one asked for, and one more, see section 5) and ranges
of three meets pages and ranges that are cut off. The theorems of section 4 need no
bounds. Runs that are bounded by a finite log, number of ticks, requests, messages or
minutes end there, so these runs do not check deadlock; the ingestor and
persistence runs do.

Fairness. `CandleProcessing`: a ready handler runs, PostgreSQL and Kafka answer, the
container restarts, a shutdown ends. `MarketIngestor`: timers fire, promises nothing
blocks settle, a lost connection is reported, PostgreSQL ends sessions without a
client, the container restarts. `TwelveDataStream`: timers fire, a terminated socket
emits `close`, Kafka and Redis answer or fail; the network promises nothing, so a
handshake need not end and a tick need not come. `CandlePersistence`: the interval
fires and the stores answer; `DurableEventuallyStored` assumes that the layer is not
closed, since a closed layer stores nothing until it is started again. `RateLimiter`:
the limiter and its timers run and a request that was sent is answered or times out
(the repository sets no time limit of its own, see the hazard at
`historical-backfill.service.ts:275`). `HistoricalBackfill`: queries and requests settle,
which is what `EveryRequestSettles` shows of the limiter. `ChartServer`: promises nothing
blocks settle, Redis answers or the command runs out of retries, a terminated socket
emits `close`, the heartbeat fires, and a request ends: the database answers its query, and
its client takes the answer or drops the connection. Nothing is assumed of WebSocket clients,
and `ShutdownCompletes` does without the ten-second timer. `CandleQueries`: a user who
keeps paging, strongly fair because ranges may be asked for in between. Failures are
never fair: they happen or not, up to their bound.

## 4. Proofs

TLAPS proves, for every value of the constants (any number of symbols, records,
prices, keys, replicas, sessions, clients, failures and kills):

| Theorem | Property |
|---|---|
| `CandleProcessingProofs!TypeCorrect` | `TypeOK` |
| `CandleProcessingProofs!StoredCandlesAreComplete` | `StoredCandleComplete` |
| `CandleProcessingProofs!CommitLosesNothing` | `CommittedTicksStored` |
| `CandleProcessingProofs!PublishFollowsSave` | `PublishedAfterSave` |
| `CandleProcessingProofs!CommitMonotone` | `CommitNeverRegresses` |
| `CandlePersistenceProofs!TypeCorrect` | `TypeOK` |
| `CandlePersistenceProofs!DurableNeverLost` | `NeverLost` |
| `CandlePersistenceProofs!CloseIsQuiet` | `NoUseAfterClose` |
| `CandleProcessingProofs!CandleTableRefinement` | `ImplementsCandleTable` |
| `CandlePersistenceProofs!OutboxRefinement` | `ImplementsOutbox` |
| `TwelveDataStreamProofs!TypeCorrect` | `TypeOK` |
| `TwelveDataStreamProofs!KafkaBeforeRedis` | `RedisOnlyAfterKafka` |
| `TwelveDataStreamProofs!SymbolOrderKept` | `RedisKeepsSymbolOrder` |
| `TwelveDataStreamProofs!StopDrains` | `NoSendAcrossDisconnect` |
| `TwelveDataStreamProofs!StreamNeverStranded` | `ConnectedOrRetrying` |
| `RateLimiterProofs!TypeCorrect` | `TypeOK` |
| `RateLimiterProofs!RetriesAreBounded` | `RetriesBounded` |
| `RateLimiterProofs!CooldownHonoured` | `NoRequestInCooldown` |
| `MarketIngestorProofs!TypeCorrect` | `TypeOK` |
| `MarketIngestorProofs!LeadersOwnTheLock` | `LeaderOwnsLock` |
| `MarketIngestorProofs!LeadersExcludeEachOther` | at most one leader has a session that lives |
| `MarketIngestorProofs!StandbyReleasesLock` | `StandbyHoldsNoLock` |
| `MarketIngestorProofs!StandbyWakesUp` | `StandbyRetries` |
| `MarketIngestorProofs!StreamsUnderLock` | `StreamOnlyUnderLock` |
| `MarketIngestorProofs!StreamsHaveSinks` | `StreamHasSinks` |
| `ChartServerProofs!TypeCorrect` | `TypeOK` |
| `ChartServerProofs!StreamsMatchAcks` | `StreamMatchesAcks` |
| `ChartServerProofs!ShutsDownCleanly` | `CleanShutdown` |
| `ChartServerProofs!EvictionIsDeserved` | `EvictsOnlySilent`, the action half of `HeartbeatExact` |
| `HistoricalBackfillProofs!ReportedIsRefreshed` | `ReportedRowsRefreshed` |
| `HistoricalBackfillProofs!GapsAreRecovered` | `GapsRecovered` |
| `CandleQueriesProofs!ChartHasNoHoles` | `NoHoles` |

Assumptions: only the named assumptions of the modules (types of the constants,
`Malformed` is not a tick, `Null` is not a candle, a batch is not empty, the callers
are finitely many, there is a view to refresh, and `ZoneAssumption`, section 2). `ServerAssumption`
and the others bound nothing: a bound is any natural number.

**Candle processing.** That a row is exact does not follow from the step before: it
depends on what the memory, the commit and the inserts of dead processes were made of.
The inductive invariant `IInv` adds to the types and the three safety properties:
`ReadOk` (the process read only processable records), `MakersOk` (a CandleMaker is
the fold of exactly the ticks of the stay it saw), `ReplayOk` (a tick that was passed
is stored, or its symbol's replay start covers it), `CommitOk` (the commit is behind
all of that), `CompletedOk` (the candle being inserted is the fold of the stay just
closed), `AckedOk` (past the insert there is a row), `LateOk` (a late insert finds a
row or carries a complete candle), `DownOk` (a dead process has no memory). The core
of the argument is `CompletedSavable`: a candle that was built from the middle of its
minute was built behind the commit, so by `CommittedTicksStored` its minute already
has a row and the insert is skipped; any other is complete. `FoldOpen`, `FoldExtend`,
`FoldSkip` and `FoldAppend` say what `CandleMaker.update` computes one tick at a time,
and `NextIInv` has one lemma per action. `CommitMonotone` follows from `CommitOk`.

**Candle persistence.** `NeverLost` needs `AckedBatchStored` (what is being
acknowledged is in the database), and `NoUseAfterClose` needs `NoBatchAfterStop`
(once close() went past the flusher no batch is in flight).

**Refinements.** `CandleTableRefinement`: every step of the processor is a `Record`,
a `Settle` or a stutter. The only steps that change the table are inserts; by
`CompletedOk` and `LateOk` the candle they carry is complete or its minute has a row
already, so an insert is a `Settle` or changes nothing (`InsertSettles`).
`OutboxRefinement`: `Ack` and a kill leave `waiting` alone because of `AckedBatchStored`
and because the durable keys are pending or stored.

**TwelveData stream.** The order of Redis is a fact about promise chains. `IInv` says:
a handler publishes or ends only after Kafka's answer (`AnsweredOk`); a symbol's entry in
the map of tails is its latest tick, and without an entry all its ticks settled
(`TailOk`); a tick waits for an earlier one of its symbol (`LinkOk`), and it is the latest
one, or there is none and all earlier ones settled (`ChainOk`); so a tick's realtime phase
starts only when all earlier ones of its symbol settled (`OrderOk`); what Redis took is
settled (`RedisSettled`). With them a publish always comes after all earlier publishes of
its symbol. `Connection` adds that the runtime stops a stream only once.

**Rate limiter.** `CooldownKnown` says that the history of cooldowns asked for is over or
is the policy's `nextAllowedRequestAt`; it fails if a later 429 may shorten the cooldown.
`Distinct(queue)` is needed for the count of slots: the job that leaves the queue holds
none yet.

**Market Ingestor.** None of the lock properties is inductive: they rest on where the
attempt, the connection-loss handlers, `stop()` and the callback queue are. `IInv` has one
conjunct per concern, for one replica at a time: `Ownership` (the sessions a replica refers
to are its own), `Standing` (what a dead or stopped process has let go), `Attempting` (which
states go with which await of the attempt, and that it is about the current session),
`Locking` (from the answer of `pg_try_advisory_lock` to the end of the leadership the lock is
the session's as long as it lives, and before and after it is not), `Losing` (at most one
handler ends a leadership, and the state is `deactivating` exactly as long), `Callbacks` (the
queue holds the activation of the attempt and then the deactivation of the handler, nothing
else), `Epoch` (without a SIGTERM the runtime's fields follow the callbacks) and `Retrying`.
The replicas share only the lock and the sessions, so a step of one replica keeps the
invariant of the others because what it takes from PostgreSQL was free or its own.
`LeadersExcludeEachOther` is what this comes to: two replicas lead at once only if
PostgreSQL has ended the session of one. `StreamOnlyUnderLock` and `StreamHasSinks` leave
the shutdown out; what goes wrong there is the second finding.

**Chart Server.** What a client sees is a sequence that only grows, so `Acked` and
`Ordered` are properties of sequences, with lemmas on what an `Append` keeps. `ClientInv`
ties them to the server: as long as a socket is open, every symbol of its subscription is
covered by an acknowledgement, and all events it was sent are older than those in the pipe;
`PipeInv` orders the pipe, across reconnects. `HeartbeatInv` (an open client that does not
count as alive owes a pong) gives `EvictsOnlySilent`; `StageInv` says for each await of
start and shutdown what is closed already.

**Historical backfill.** `Reading` says that what was read before an await is still what
the gap is about: no row is younger than now, so the window of a request is the whole gap.
`Recovering`: the first gap is filled before the second is looked at, and both before
success is reported; the rows that count as filled include those the live pipeline
inserted meanwhile. `Reporting`: the update time that is kept is no later than any inserted
row, unless `syncSymbol` threw (the third finding). `Collected`: the refresh starts no
later than any report. `Viewed`: the views are tried in order, so when the backfill is
over with an update all were. `GapsAreRecovered` holds for gaps of any length: the answer is
the oldest part of the window, so a minute that is missing has a whole answer of stored
minutes before it (`AnswerFacts`).

**Candle queries.** `ORDER BY` is the rank of a row among the others. Its lemma,
`OrderedFacts`, shows that ranks are distinct, so all of 0..n-1 occur and the result has
every row once, in order. `FindOldest` and `FindNewest` say what LIMIT and the reversal leave:
an ordered result, and every row that was left out lies after, or before, all of it. So
every answer is convex (`Shown`: it holds each stored candle between two of its own).
`RequestInv` keeps what an answer in flight still means when candles arrive before it does:
a page reaches up to the oldest candle of the chart (`PageAnswer`), a range starts with the
newest (`RangeAnswer`), and `Joined` shows that putting them together leaves no hole. The
proof needs a range limit of at least one candle and newer candles only; a late insert of an
older minute would be a hole until the chart loads it again, as in the code.

Only model-checked: the liveness properties (`ClosedMinuteEventuallyStored`, `EventuallyLed`,
`LostLeadershipEnds`, `EveryTickSettles`, `StalledFeedReconnects`, `StopCompletes`,
`DurableEventuallyStored`, `CloseCompletes`, `EveryRequestSettles`, `BackfillCompletes`,
`EventReachesSubscribers`, the eventual half of `HeartbeatExact`, `ShutdownCompletes`,
`HistoryLoaded`): liveness under fairness is out of the prover's reach. Every invariant, action
property and refinement that a passing run checks is proved. Each inductive invariant was
checked with TLC on the instance of its run before it was proved.

## 5. Findings

1. `candles_rebalance`: when a consumer-group rebalance takes the partition from a
   living process and gives it back, consumption resumes at the committed offset
   while the CandleMakers keep their later state; an older minute closes the current
   one early and a truncated row wins. The comment at
   `candle-processor.ts:100-101` promises that a replay "reconstructs this in-memory
   candle". Without rebalances the property holds, and is proved.
2. `ingestor_shutdown`: the SIGTERM handler stops the runtime outside the election's
   callback queue; an activation under an acquired lock, whether its callback was already
   called or not, completes after `activeRuntime.stop()` has returned, and the lock is returned
   while its stream is live, against `ingestor.ts:193-194`.
3. `backfill_partial_success`: the catch block of `syncSymbol` reports no updated time
   (line 240). In the trace a symbol saves the candles of its first gap and notes their
   time, the request for its second gap throws, and the refresh is left out, against the
   comment at line 77 (partial successes count). With results that do report their
   update, the refresh covers them (`ReportedRowsRefreshed`).

Smaller differences between the code and what is said of it, met while modelling and
kept in the models as the code has them:

- `replayStartOffsets` is described (`candle-processor.ts:42-43`) as the first offset
  needed to rebuild the in-progress candle. After a restart it can be in the middle of
  a minute whose row is stored already. The database is safe (`StoredCandleComplete`),
  but the partial candle is announced on Redis.
- The gap before the latest candle is filled if the difference is more than two minutes
  (`historical-backfill.service.ts:198`); the comment above says two or more. A single
  minute between the last two candles stays missing and the symbol is reported as `no_gap`:
  `GapsRecovered` exempts exactly this case.
- One request of at most 5000 candles, oldest first, is made for a downtime of any
  length (`historical-backfill.service.ts:282`); the young end of a longer one stays
  missing and the symbol is reported as backfilled. `GapsRecovered` says what is
  recovered then, and the run has such a downtime.
- `stop()` of the stream during a handshake ends the process with an uncaught error
  (`twelvedata.provider.ts:414-416`), so the producer and the publisher are not
  disconnected. `StopCompletes` says so.
- `server.close()` waits for connections (`server.ts:99-103`): the handler of a request whose
  client dropped it can lose its database client in a shutdown. Nobody waits for its answer;
  `CleanShutdown` is about the requests somebody waits for.
- `from` without `to` is ignored for intraday timeframes (`candle.service.ts:73`),
  `API_DOCUMENTATION.md:33` lists it as a parameter of its own.
- A page has one candle more than `limit` (`candle.service.ts:31`,
  `API_DOCUMENTATION.md:32`).

## 6. Plan

Done, in this order: Candle Processor, ingestor, stream, persistence, rate limiter,
backfill, Chart Server, queries; the refinements of the candle table and the outbox;
the proofs of section 4.

Next: abstract specifications, each with its refinement proof: a lock with one living
owner for `LeaderElection`, an ordered at-most-once channel for `TwelveDataStream`.

## 7. Not modelled

- Observability: counters nothing reads back. The metrics server appears only as a
  step of the shutdown sequence.
- Configuration: read once; its values are the constants.
- Middlewares, logger, helpers, scripts, migrations: formatting, pure I/O, one-shot
  tools; of the schema only the primary key of `candle_1m` matters, and it is modelled.
- Topic retention (a symbol that goes quiet holds the commit of its partition back
  until the records it points to expire), the event order and the send buffers inside
  the `ws` library, rows PostgreSQL refuses for good: set by configuration or libraries
  outside the repository.
- What Redis delivers between the SUBSCRIBE reply and the listener is dropped in the
  model too; delivery is best effort, so no property speaks of it.
- POST /api/aggregate/refresh and what TimescaleDB materialises when: one call of an
  extension whose rules are not in the repository.
- `save1mCandle`, `getLast1mCandle`, `get1mBoundary`, `get1mCandlesForAggregation`: no
  caller.
