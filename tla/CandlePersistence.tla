-------------------------- MODULE CandlePersistence --------------------------
(***************************************************************************)
(* The candle persistence layer: completed candles are put into a local    *)
(* RocksDB store, and the CandleFlusher moves them to PostgreSQL in        *)
(* batches: peek, insert, acknowledge.  enqueueCandle, the flusher and     *)
(* closeCandlePersistence run interleaved at their awaits.                 *)
(*                                                                         *)
(* A candle is its key (minute, then symbol); keys are numbered in the     *)
(* order of the store.  A second candle of a key replaces the pending one  *)
(* and is skipped by PostgreSQL, which keeps the first row it gets, so the *)
(* prices are left out.  One caller closes the layer at a time.            *)
(***************************************************************************)
EXTENDS Integers, FiniteSets

CONSTANTS
    Keys,        \* a set of naturals: the keys in store order
    BatchSize,
    MaxEnqueues, \* bound: candles enqueued (a minute is enqueued finitely often)
    MaxFailures, \* bound: failed store and database requests
    MaxCrashes   \* bound: kills of the process

ASSUME PersistenceAssumption ==
    /\ Keys \subseteq Nat
    /\ BatchSize \in Nat \ {0}
    /\ MaxEnqueues \in Nat
    /\ MaxFailures \in Nat
    /\ MaxCrashes \in Nat

VARIABLES
    pending,   \* RocksDB: the keys under 'pending|'
    db,        \* PostgreSQL: the keys of candle_1m
    durable,   \* history: keys whose enqueue resolved
    runtime,   \* a runtime exists, and its store is open
    isClosing,
    closing,   \* closeCandlePersistence waits for: "no", "flusher", "enqueues"
    enqueues,  \* activeEnqueues, by key
    stopped,   \* the flusher's stop() was called
    flush,     \* inFlight: "no", "peek", "write" or "ack"
    batch,     \* what flushBatch peeked
    enqueuedSinceFlush,
    enqueued, failures, crashes

counters == <<enqueued, failures, crashes>>
vars == <<pending, db, durable, runtime, isClosing, closing, enqueues, stopped,
          flush, batch, enqueuedSinceFlush, counters>>

TypeOK ==
    /\ pending \subseteq Keys /\ db \subseteq Keys /\ durable \subseteq Keys
    /\ runtime \in BOOLEAN /\ isClosing \in BOOLEAN /\ stopped \in BOOLEAN
    /\ closing \in {"no", "flusher", "enqueues"}
    /\ closing # "no" => runtime /\ isClosing /\ stopped
    /\ enqueues \subseteq Keys /\ batch \subseteq Keys
    /\ flush \in {"no", "peek", "write", "ack"}
    /\ flush \in {"write", "ack"} <=> batch # {}
    /\ enqueuedSinceFlush \in 0..(BatchSize - 1)
    /\ enqueued \in 0..MaxEnqueues
    /\ failures \in 0..MaxFailures /\ crashes \in 0..MaxCrashes

Init ==
    /\ pending = {} /\ db = {} /\ durable = {}
    /\ runtime = FALSE /\ isClosing = FALSE /\ closing = "no"
    /\ enqueues = {}
    /\ stopped = FALSE /\ flush = "no" /\ batch = {} /\ enqueuedSinceFlush = 0
    /\ enqueued = 0 /\ failures = 0 /\ crashes = 0

Failure == failures < MaxFailures /\ failures' = failures + 1

-----------------------------------------------------------------------------
\* flush(): nothing while stopped or with a batch in flight.
Flush == flush' = IF stopped \/ flush # "no" THEN flush ELSE "peek"

\* startCandlePersistence: the store is opened and a first flush recovers what an
\* earlier process left behind.
StartPersistence ==
    /\ ~runtime
    /\ runtime' = TRUE /\ isClosing' = FALSE
    /\ stopped' = FALSE /\ enqueuedSinceFlush' = 0
    /\ flush' = "peek"
    /\ UNCHANGED <<pending, db, durable, closing, enqueues, batch, counters>>

\* enqueueCandle: rejected while closing, refused without a runtime.
Enqueue(k) ==
    /\ runtime /\ ~isClosing
    /\ k \notin enqueues
    /\ enqueued < MaxEnqueues
    /\ enqueued' = enqueued + 1
    /\ enqueues' = enqueues \cup {k}
    /\ UNCHANGED <<pending, db, durable, runtime, isClosing, closing, stopped, flush, batch,
                   enqueuedSinceFlush, failures, crashes>>

\* The put resolves, and notifyEnqueued flushes at every BatchSize-th one.
EnqueueResolves(k) ==
    /\ k \in enqueues
    /\ enqueues' = enqueues \ {k}
    /\ pending' = pending \cup {k}
    /\ durable' = durable \cup {k}
    /\ enqueuedSinceFlush' = (enqueuedSinceFlush + 1) % BatchSize
    /\ IF enqueuedSinceFlush' = 0 THEN Flush ELSE UNCHANGED flush
    /\ UNCHANGED <<db, runtime, isClosing, closing, stopped, batch, counters>>

\* The put rejects; the store may have it or not.
EnqueueRejects(k) ==
    /\ k \in enqueues
    /\ enqueues' = enqueues \ {k}
    /\ pending' \in {pending, pending \cup {k}}
    /\ Failure
    /\ UNCHANGED <<db, durable, runtime, isClosing, closing, stopped, flush, batch,
                   enqueuedSinceFlush, enqueued, crashes>>

-----------------------------------------------------------------------------
(* CandleFlusher *)

\* Faulty variant: only a full batch flushes, the interval does nothing for the rest.
IntervalNeedsBatch ==
    /\ runtime /\ ~stopped /\ flush = "no"
    /\ Cardinality(pending) >= BatchSize
    /\ Flush
    /\ UNCHANGED <<pending, db, durable, runtime, isClosing, closing, enqueues, stopped, batch,
                   enqueuedSinceFlush, counters>>

\* Faulty variant: the interval goes on after stop().
IntervalSurvivesStop ==
    /\ runtime /\ flush = "no"
    /\ flush' = "peek"
    /\ UNCHANGED <<pending, db, durable, runtime, isClosing, closing, enqueues, stopped, batch,
                   enqueuedSinceFlush, counters>>

\* The flush interval fires.
IntervalFires ==
    /\ runtime /\ ~stopped /\ flush = "no"
    /\ Flush
    /\ UNCHANGED <<pending, db, durable, runtime, isClosing, closing, enqueues, stopped, batch,
                   enqueuedSinceFlush, counters>>

\* store.peek: the first BatchSize keys of S.
FirstKeys(S) == {k \in S : Cardinality({j \in S : j < k}) < BatchSize}

\* An empty store ends the flush.
Peek ==
    /\ flush = "peek"
    /\ batch' = FirstKeys(pending)
    /\ flush' = IF pending = {} THEN "no" ELSE "write"
    /\ UNCHANGED <<pending, db, durable, runtime, isClosing, closing, enqueues, stopped,
                   enqueuedSinceFlush, counters>>

PeekFails ==
    /\ flush = "peek"
    /\ flush' = "no"
    /\ Failure
    /\ UNCHANGED <<pending, db, durable, runtime, isClosing, closing, enqueues, stopped, batch,
                   enqueuedSinceFlush, enqueued, crashes>>

\* createMany with skipDuplicates resolves.
Write ==
    /\ flush = "write"
    /\ db' = db \cup batch
    /\ flush' = "ack"
    /\ UNCHANGED <<pending, durable, runtime, isClosing, closing, enqueues, stopped, batch,
                   enqueuedSinceFlush, counters>>

\* Faulty variant: the batch goes on to be acknowledged.
WriteFailsUnnoticed ==
    /\ flush = "write"
    /\ db' \in {db, db \cup batch}
    /\ flush' = "ack"
    /\ Failure
    /\ UNCHANGED <<pending, durable, runtime, isClosing, closing, enqueues, stopped, batch,
                   enqueuedSinceFlush, enqueued, crashes>>

\* createMany rejects, with or without having inserted: the batch stays pending.
WriteFails ==
    /\ flush = "write"
    /\ db' \in {db, db \cup batch}
    /\ flush' = "no" /\ batch' = {}
    /\ Failure
    /\ UNCHANGED <<pending, durable, runtime, isClosing, closing, enqueues, stopped,
                   enqueuedSinceFlush, enqueued, crashes>>

\* store.ack: one transaction that removes the keys of the batch, whatever was put
\* under them meanwhile.
Ack ==
    /\ flush = "ack"
    /\ pending' = pending \ batch
    /\ flush' = "no" /\ batch' = {}
    /\ UNCHANGED <<db, durable, runtime, isClosing, closing, enqueues, stopped,
                   enqueuedSinceFlush, counters>>

\* The transaction fails as a whole, or only its answer is lost.
AckFails ==
    /\ flush = "ack"
    /\ pending' \in {pending, pending \ batch}
    /\ flush' = "no" /\ batch' = {}
    /\ Failure
    /\ UNCHANGED <<db, durable, runtime, isClosing, closing, enqueues, stopped,
                   enqueuedSinceFlush, enqueued, crashes>>

-----------------------------------------------------------------------------
(* closeCandlePersistence *)

\* New candles are rejected from here on, and the flusher's stop() is awaited.
CloseBegins ==
    /\ runtime /\ ~isClosing
    /\ isClosing' = TRUE
    /\ stopped' = TRUE
    /\ closing' = "flusher"
    /\ UNCHANGED <<pending, db, durable, runtime, enqueues, flush, batch, enqueuedSinceFlush,
                   counters>>

\* The batch in flight ended: the active enqueues are awaited.
FlusherStopped ==
    /\ closing = "flusher" /\ flush = "no"
    /\ closing' = "enqueues"
    /\ UNCHANGED <<pending, db, durable, runtime, isClosing, enqueues, stopped, flush, batch,
                   enqueuedSinceFlush, counters>>

\* Faulty variant: the enqueues in flight are not awaited.
CloseWithoutWaiting ==
    /\ closing = "enqueues"
    /\ runtime' = FALSE /\ isClosing' = FALSE /\ closing' = "no"
    /\ UNCHANGED <<pending, db, durable, enqueues, stopped, flush, batch, enqueuedSinceFlush,
                   counters>>

\* They settled: the store is closed.
StoreClosed ==
    /\ closing = "enqueues" /\ enqueues = {}
    /\ runtime' = FALSE /\ isClosing' = FALSE /\ closing' = "no"
    /\ UNCHANGED <<pending, db, durable, enqueues, stopped, flush, batch, enqueuedSinceFlush,
                   counters>>

\* The process is killed: requests in flight may have taken effect.
Crash ==
    /\ runtime
    /\ crashes < MaxCrashes
    /\ crashes' = crashes + 1
    /\ \E S \in SUBSET enqueues :
           pending' \in {pending \cup S} \cup
                        (IF flush = "ack" THEN {(pending \ batch) \cup S} ELSE {})
    /\ db' \in {db} \cup (IF flush = "write" THEN {db \cup batch} ELSE {})
    /\ runtime' = FALSE /\ isClosing' = FALSE /\ closing' = "no"
    /\ enqueues' = {}
    /\ stopped' = FALSE /\ flush' = "no" /\ batch' = {} /\ enqueuedSinceFlush' = 0
    /\ UNCHANGED <<durable, enqueued, failures>>

-----------------------------------------------------------------------------
Flusher == IntervalFires \/ Peek \/ Write \/ Ack

Closer == FlusherStopped \/ StoreClosed

Failures == PeekFails \/ WriteFails \/ AckFails \/ Crash \/ \E k \in Keys : EnqueueRejects(k)

Next ==
    \/ StartPersistence \/ CloseBegins \/ Flusher \/ Closer \/ Failures
    \/ \E k \in Keys : Enqueue(k) \/ EnqueueResolves(k)

\* The interval fires, and the store and the database answer.  Nobody need start,
\* use or close the layer.
Fairness ==
    /\ WF_vars(Flusher) /\ WF_vars(Closer)
    /\ \A k \in Keys : WF_vars(EnqueueResolves(k))

Spec == Init /\ [][Next]_vars /\ Fairness

-----------------------------------------------------------------------------
(* Properties *)

\* A candle whose enqueue resolved is in the local store or in the database, across
\* kills, failed batches and closes, and although an acknowledgement also removes
\* what was enqueued under its keys after the peek.
NeverLost == durable \subseteq pending \cup db

\* The store is closed only when no put, peek or ack is under way.
NoUseAfterClose == ~runtime => enqueues = {} /\ flush = "no"

\* If the layer stays open, every durable candle reaches the database, however many
\* batches failed before.
DurableEventuallyStored ==
    \A k \in Keys : <>[](runtime /\ ~isClosing) => [](k \in durable => <>(k \in db))

\* A close, once begun, ends, with the batch in flight and the enqueues settled.
CloseCompletes == (closing # "no") ~> ~runtime

\* The layer's contract: what waits is what was accepted and is in the local store.
Outbox == INSTANCE DurableOutbox WITH waiting <- (durable \cap pending) \ db, stored <- db

\* The layer implements the contract: no failed batch, acknowledgement, close or kill
\* ends the wait of an accepted candle other than by storing it.
ImplementsOutbox == Outbox!Spec

=============================================================================
