-------------------------- MODULE TwelveDataStream --------------------------
(***************************************************************************)
(* One TwelveDataStream, from start() to the end of the runtime's stop():  *)
(* the upstream WebSocket with its reconnect timer and heartbeat, and the  *)
(* handlers of the ticks it delivers.  A tick is sent to Kafka at once,    *)
(* without waiting for earlier sends; once Kafka has admitted it, it is    *)
(* published on Redis, in a queue per symbol.                              *)
(*                                                                         *)
(* Ticks are numbered in the order they arrive.  Prices and timestamps are *)
(* left out; a message that yields no tick (a heartbeat, an invalid price, *)
(* a symbol that is not subscribed) only shows that the feed is alive.     *)
(***************************************************************************)
EXTENDS Integers, Sequences, FiniteSets

CONSTANTS
    Symbols,
    MaxTicks,  \* bound: ticks delivered
    MaxDrops   \* bound: connections closed by the network or gone quiet

ASSUME StreamAssumption == MaxTicks \in Nat /\ MaxDrops \in Nat

Ticks == 1..MaxTicks

\* stop() drains the handlers, then takes down producer and publisher; or the error
\* of a socket nobody listens to any more is on its way and ends the process.
Shutdowns == {"no", "draining", "producer", "redis", "done", "failing", "crashed"}

VARIABLES
    running,
    ws,              \* the socket in field ws: "none", "connecting", "open", "terminated"
    reconnectTimer,
    heartbeat,       \* the heartbeat interval is set
    quiet,           \* no message for longer than DISCONNECT_TIMEOUT_MS
    received,        \* ticks 1..received have arrived
    symbol,          \* tick -> its symbol
    kafka,           \* tick -> its send: "inflight", "acked", "failed"
    phase,           \* tick -> where its handler waits
    previous,        \* tick -> the tick whose tail it waits for, or 0
    tail,            \* symbolRealtimeTails: symbol -> tick, or 0 for no entry
    redis,           \* ticks in the order Redis took them
    shutdown,        \* where the runtime's stop() is, see Shutdowns
    drops

connection == <<ws, reconnectTimer, heartbeat, quiet>>
handlers == <<received, symbol, kafka, phase, previous, tail, redis>>
vars == <<running, connection, handlers, shutdown, drops>>

TypeOK ==
    /\ running \in BOOLEAN
    /\ ws \in {"none", "connecting", "open", "terminated"}
    /\ reconnectTimer \in BOOLEAN /\ heartbeat \in BOOLEAN /\ quiet \in BOOLEAN
    /\ received \in 0..MaxTicks
    /\ symbol \in [1..received -> Symbols]
    /\ kafka \in [1..received -> {"inflight", "acked", "failed"}]
    /\ phase \in [1..received -> {"queued", "admission", "publishing", "settled"}]
    /\ previous \in [1..received -> 0..received]
    /\ tail \in [Symbols -> 0..received]
    /\ redis \in Seq(1..received)
    /\ shutdown \in Shutdowns
    /\ drops \in 0..MaxDrops
    /\ \A s \in Symbols : tail[s] # 0 => symbol[tail[s]] = s /\ phase[tail[s]] # "settled"

\* ActiveIngestionRuntime has created the stream; the producer is connected.
Init ==
    /\ running = FALSE
    /\ ws = "none" /\ reconnectTimer = FALSE /\ heartbeat = FALSE /\ quiet = FALSE
    /\ received = 0
    /\ symbol = <<>> /\ kafka = <<>> /\ phase = <<>> /\ previous = <<>>
    /\ tail = [s \in Symbols |-> 0]
    /\ redis = <<>>
    /\ shutdown = "no"
    /\ drops = 0

-----------------------------------------------------------------------------
(* The connection *)

\* connectWebSocket in a running stream: cleanupConnection, then a new socket.
Connect ==
    /\ ws' = "connecting"
    /\ reconnectTimer' = FALSE
    /\ heartbeat' = FALSE

Start ==
    /\ ~running /\ shutdown = "no"
    /\ running' = TRUE
    /\ Connect
    /\ UNCHANGED <<quiet, handlers, shutdown, drops>>

\* Faulty variant: nobody watches the new connection.
OpenUnwatched ==
    /\ ws = "connecting" /\ running
    /\ ws' = "open"
    /\ quiet' = FALSE
    /\ UNCHANGED <<running, reconnectTimer, heartbeat, handlers, shutdown, drops>>

\* 'open': the heartbeat monitor starts and the symbols are subscribed.
Open ==
    /\ ws = "connecting" /\ running
    /\ ws' = "open"
    /\ heartbeat' = TRUE
    /\ quiet' = FALSE
    /\ UNCHANGED <<running, reconnectTimer, handlers, shutdown, drops>>

\* 'close' of the socket in the field: a running stream schedules a reconnect.
CloseEvent ==
    /\ ws' = "none"
    /\ heartbeat' = FALSE
    /\ reconnectTimer' = (reconnectTimer \/ running)
    /\ UNCHANGED <<running, quiet, handlers, shutdown>>

\* The close that follows terminate().
TerminatedCloses == ws = "terminated" /\ CloseEvent /\ UNCHANGED drops

\* The connection fails or the network closes it.
Disconnect ==
    /\ ws \in {"connecting", "open"}
    /\ drops < MaxDrops
    /\ drops' = drops + 1
    /\ CloseEvent

ReconnectFires ==
    /\ reconnectTimer /\ running
    /\ Connect
    /\ UNCHANGED <<running, quiet, handlers, shutdown, drops>>

\* The peer goes silent on an open connection.
FeedStalls ==
    /\ ws = "open" /\ ~quiet
    /\ drops < MaxDrops
    /\ drops' = drops + 1
    /\ quiet' = TRUE
    /\ UNCHANGED <<running, ws, reconnectTimer, heartbeat, handlers, shutdown>>

\* The heartbeat interval finds the feed stalled: terminate the socket, whose
\* close event schedules the reconnect, or schedule it here if there is none.
HeartbeatFires ==
    /\ heartbeat /\ quiet
    /\ IF ws # "none"
       THEN ws' = "terminated" /\ UNCHANGED reconnectTimer
       ELSE reconnectTimer' = (reconnectTimer \/ running) /\ UNCHANGED ws
    /\ UNCHANGED <<running, heartbeat, quiet, handlers, shutdown, drops>>

-----------------------------------------------------------------------------
(* The tick handlers *)

\* A message that yields no tick.
OtherMessage ==
    /\ ws = "open" /\ running
    /\ quiet' = FALSE
    /\ UNCHANGED <<running, ws, reconnectTimer, heartbeat, handlers, shutdown, drops>>

\* A tick of symbol s: its Kafka send starts, and its realtime phase is chained
\* to the symbol's tail.
Receive(s) ==
    /\ ws = "open" /\ running
    /\ received < MaxTicks
    /\ quiet' = FALSE
    /\ received' = received + 1
    /\ symbol' = Append(symbol, s)
    /\ kafka' = Append(kafka, "inflight")
    /\ phase' = Append(phase, "queued")
    /\ previous' = Append(previous, tail[s])
    /\ tail' = [tail EXCEPT ![s] = received + 1]
    /\ UNCHANGED <<running, ws, reconnectTimer, heartbeat, redis, shutdown, drops>>

\* Kafka answers, in whatever order the answers are handled.
KafkaAnswers(i, answer) ==
    /\ kafka[i] = "inflight"
    /\ kafka' = [kafka EXCEPT ![i] = answer]
    /\ UNCHANGED <<running, connection, received, symbol, phase, previous, tail, redis,
                   shutdown, drops>>

\* Faulty variant: a tail rejects with its tick, and the ticks behind it never run.
PhaseBlockedByFailure(i) ==
    /\ phase[i] = "queued"
    /\ previous[i] # 0 => phase[previous[i]] = "settled" /\ kafka[previous[i]] = "acked"
    /\ phase' = [phase EXCEPT ![i] = "admission"]
    /\ UNCHANGED <<running, connection, received, symbol, kafka, previous, tail, redis,
                   shutdown, drops>>

\* Faulty variant: a queued tick is dropped when the stream stops.
PhaseOnlyWhileRunning(i) ==
    /\ phase[i] = "queued" /\ running
    /\ previous[i] # 0 => phase[previous[i]] = "settled"
    /\ phase' = [phase EXCEPT ![i] = "admission"]
    /\ UNCHANGED <<running, connection, received, symbol, kafka, previous, tail, redis,
                   shutdown, drops>>

\* The tail the tick waits for has settled: its own phase starts.
RealtimePhaseStarts(i) ==
    /\ phase[i] = "queued"
    /\ previous[i] # 0 => phase[previous[i]] = "settled"
    /\ phase' = [phase EXCEPT ![i] = "admission"]
    /\ UNCHANGED <<running, connection, received, symbol, kafka, previous, tail, redis,
                   shutdown, drops>>

\* Faulty variant: Redis does not wait for Kafka's answer.
AdmittedUnanswered(i) ==
    /\ phase[i] = "admission"
    /\ kafka[i] # "failed"
    /\ phase' = [phase EXCEPT ![i] = "publishing"]
    /\ UNCHANGED <<running, connection, received, symbol, kafka, previous, tail, redis,
                   shutdown, drops>>

\* Kafka has admitted the tick: it is published on Redis.
Admitted(i) ==
    /\ phase[i] = "admission"
    /\ kafka[i] = "acked"
    /\ phase' = [phase EXCEPT ![i] = "publishing"]
    /\ UNCHANGED <<running, connection, received, symbol, kafka, previous, tail, redis,
                   shutdown, drops>>

\* Faulty variant: the entry is deleted although a later tick has replaced it.
SettleDropsEntry(i) ==
    /\ phase' = [phase EXCEPT ![i] = "settled"]
    /\ tail' = [tail EXCEPT ![symbol[i]] = 0]

\* The handler of tick i ends, and so does its tail: the entry is deleted if it
\* is still its own.
Settle(i) ==
    /\ phase' = [phase EXCEPT ![i] = "settled"]
    /\ tail' = [tail EXCEPT ![symbol[i]] = IF @ = i THEN 0 ELSE @]

\* Kafka refused the tick: the handler logs the error and ends.
Refused(i) ==
    /\ phase[i] = "admission"
    /\ kafka[i] = "failed"
    /\ Settle(i)
    /\ UNCHANGED <<running, connection, received, symbol, kafka, previous, redis, shutdown, drops>>

\* publishSafely returns: Redis took the tick, or failed (with or without it).
RedisAnswers(i) ==
    /\ phase[i] = "publishing"
    /\ redis' \in {redis, Append(redis, i)}
    /\ Settle(i)
    /\ UNCHANGED <<running, connection, received, symbol, kafka, previous, shutdown, drops>>

-----------------------------------------------------------------------------
(* stop(), as ActiveIngestionRuntime.stop() calls it *)

\* Faulty variant: the reconnect timer survives stop().
StopKeepsTimer ==
    /\ running /\ ws # "connecting"
    /\ running' = FALSE
    /\ ws' = "none" /\ heartbeat' = FALSE
    /\ shutdown' = "draining"
    /\ UNCHANGED <<reconnectTimer, quiet, handlers, drops>>

\* stop() forbids reconnects, drops the socket with its listeners and waits for
\* the handlers that are active at this point.
Stop ==
    /\ running /\ ws # "connecting"
    /\ running' = FALSE
    /\ ws' = "none" /\ reconnectTimer' = FALSE /\ heartbeat' = FALSE
    /\ shutdown' = "draining"
    /\ UNCHANGED <<quiet, handlers, drops>>

\* The same in the middle of a handshake: close() aborts it, and the socket will
\* emit 'error' although cleanupConnection has removed the listener for it.
StopWhileConnecting ==
    /\ running /\ ws = "connecting"
    /\ running' = FALSE
    /\ ws' = "none" /\ reconnectTimer' = FALSE /\ heartbeat' = FALSE
    /\ shutdown' = "failing"
    /\ UNCHANGED <<quiet, handlers, drops>>

\* The error is thrown in the next tick of the event loop, before any disconnect is
\* answered: an uncaught exception.  What handlers do before it stands for the requests
\* that still get out.
UnhandledError ==
    /\ shutdown = "failing"
    /\ shutdown' = "crashed"
    /\ UNCHANGED <<running, connection, handlers, drops>>

\* Faulty variant: only the ticks whose phase has started are waited for.
DrainedButQueued ==
    /\ shutdown = "draining"
    /\ \A i \in 1..received : phase[i] \in {"queued", "settled"}
    /\ shutdown' = "producer"
    /\ UNCHANGED <<running, connection, handlers, drops>>

\* Every active handler settled: stop() resolves, and the producer is stopped.
Drained ==
    /\ shutdown = "draining"
    /\ \A i \in 1..received : phase[i] = "settled"
    /\ shutdown' = "producer"
    /\ UNCHANGED <<running, connection, handlers, drops>>

\* The producer is down: the Redis publisher is disconnected.
ProducerStopped ==
    /\ shutdown = "producer"
    /\ shutdown' = "redis"
    /\ UNCHANGED <<running, connection, handlers, drops>>

RedisDisconnected ==
    /\ shutdown = "redis"
    /\ shutdown' = "done"
    /\ UNCHANGED <<running, connection, handlers, drops>>

-----------------------------------------------------------------------------
Timers == TerminatedCloses \/ ReconnectFires \/ HeartbeatFires

Network == Open \/ Disconnect \/ FeedStalls \/ OtherMessage \/ \E s \in Symbols : Receive(s)

Handler(i) == /\ shutdown # "crashed"
              /\ \/ \E answer \in {"acked", "failed"} : KafkaAnswers(i, answer)
                 \/ RealtimePhaseStarts(i) \/ Admitted(i) \/ Refused(i) \/ RedisAnswers(i)

StopSequence == UnhandledError \/ Drained \/ ProducerStopped \/ RedisDisconnected

Next == \/ Start \/ Timers \/ Network \/ Stop \/ StopWhileConnecting \/ StopSequence
        \/ \E i \in 1..received : Handler(i)

\* Timers fire, a terminated socket closes, Kafka and Redis answer or fail.  The
\* network promises nothing: a handshake need not end, a tick need not come.
Fairness ==
    /\ WF_vars(Timers)
    /\ WF_vars(StopSequence)
    /\ \A i \in Ticks : WF_vars(i <= received /\ Handler(i))

Spec == Init /\ [][Next]_vars /\ Fairness

-----------------------------------------------------------------------------
(* Properties *)

\* A client sees a tick only after Kafka has it: what the charts show is always
\* in the log the candles are made of.
RedisOnlyAfterKafka == \A n \in DOMAIN redis : kafka[redis[n]] = "acked"

\* Redis takes the ticks of one symbol in the order they arrived and never twice,
\* although their Kafka answers come in any order and some of them fail.
RedisKeepsSymbolOrder ==
    \A m, n \in DOMAIN redis :
        m < n /\ symbol[redis[m]] = symbol[redis[n]] => redis[m] < redis[n]

\* When the producer is told to disconnect no send is in flight, and when Redis is
\* disconnected no publish is: stop() drained every handler, those queued behind
\* another tick too.
NoSendAcrossDisconnect ==
    shutdown \in {"producer", "redis", "done"} =>
        \A i \in 1..received : kafka[i] # "inflight" /\ phase[i] = "settled"

\* A stream that runs has a socket or a timer that will open one; a stream that
\* was stopped has neither, and nothing brings one back.
ConnectedOrRetrying ==
    IF running THEN ws # "none" \/ reconnectTimer
               ELSE ws = "none" /\ ~reconnectTimer /\ ~heartbeat

\* Every tick's handler ends: a refused tick or a failed publish does not block
\* the ticks of the symbol behind it.  Only the end of the process cuts it short.
EveryTickSettles ==
    \A i \in Ticks :
        (i <= received) ~> (shutdown = "crashed" \/ (i <= received /\ phase[i] = "settled"))

\* A feed that goes silent without closing is noticed, torn down and connected anew,
\* unless the stream is stopped or a message arrives after all.
StalledFeedReconnects ==
    (running /\ ws = "open" /\ quiet) ~> (~running \/ ~quiet \/ ws = "connecting")

\* A stop() that began to drain resolves, and the runtime takes producer and publisher
\* down.  One that met a handshake never gets there: the error of the aborted socket
\* ends the process with both still connected.
StopCompletes ==
    /\ (shutdown = "draining") ~> (shutdown = "done")
    /\ (shutdown = "failing") ~> (shutdown = "crashed")

=============================================================================
