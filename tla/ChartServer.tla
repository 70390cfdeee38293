---------------------------- MODULE ChartServer ----------------------------
(***************************************************************************)
(* The Chart Server process (server.ts): it subscribes to Redis, serves    *)
(* HTTP requests and WebSocket clients, and on a signal closes the HTTP    *)
(* server, the WebSocket peers, the Redis subscriber and the database      *)
(* client in that order.  A WebSocket keeps its HTTP connection, so the    *)
(* HTTP server is closed only when every WebSocket is.                     *)
(*                                                                         *)
(* The handler of a request (a candle query, a refresh or a health check)  *)
(* uses the database until it ends; its client may drop the connection     *)
(* before.  A signal before startChartServer has ended kills the process   *)
(* and is left out.                                                        *)
(***************************************************************************)
EXTENDS WebSocketService, RedisSubscriber, FiniteSets

CONSTANTS
    Requests,    \* HTTP requests that may be in flight together
    MaxEvents,   \* bound: market events published
    MaxInputs    \* bound: client messages, dropped requests, signals and failures (of Redis,
                 \* of listen and of the database client) together

ASSUME ServerAssumption ==
    MaxEvents \in Nat /\ MaxInputs \in Nat

VARIABLES
    stage,      \* what startChartServer or shutdown waits for
    listening,  \* the HTTP server accepts connections
    requests,   \* whose handlers run
    dropped,    \* those of them whose connection is gone
    prisma,     \* the database client is connected
    events, inputs

procVars == <<stage, listening, requests, dropped, prisma>>
counters == <<events, inputs>>
vars == <<wsVars, redisVars, procVars, counters>>

Stages == {"subscribe", "listen", "undo", "running",
           "websockets", "http", "redis", "prisma", "failed", "exit0", "exit1"}

Exited == stage \in {"exit0", "exit1"}
ShuttingDown == stage \in {"websockets", "http", "redis", "prisma"}

TypeOK ==
    /\ WebSocketTypeOK /\ RedisTypeOK
    /\ pipe \in Seq(MarketEvents)
    /\ stage \in Stages
    /\ listening \in BOOLEAN /\ prisma \in BOOLEAN
    /\ requests \subseteq Requests /\ dropped \subseteq requests
    /\ events \in 0..MaxEvents /\ inputs \in 0..MaxInputs

Init ==
    /\ WebSocketInit /\ RedisInit
    /\ stage = "subscribe" /\ listening = FALSE
    /\ requests = {} /\ dropped = {} /\ prisma = TRUE
    /\ events = 0 /\ inputs = 0

Input == inputs < MaxInputs /\ inputs' = inputs + 1

\* The connections the HTTP server still has.
Connections == {c \in Clients : readyState[c] \in {"OPEN", "CLOSING"}}

-----------------------------------------------------------------------------
(* startChartServer *)

\* initWebSocketServer resolved or rejected: listen, or undo.
SubscribeEnds ==
    /\ stage = "subscribe"
    /\ \/ /\ subscribing = "done"
          /\ stage' = "listen"
          /\ UNCHANGED redisVars
       \/ /\ subscribing = "failed"
          /\ stage' = "undo"
          /\ Disconnect
    /\ UNCHANGED <<wsVars, listening, requests, dropped, prisma, counters>>

\* The server listens: the signal handlers are installed.
Listens ==
    /\ stage = "listen"
    /\ stage' = "running" /\ listening' = TRUE
    /\ UNCHANGED <<wsVars, redisVars, requests, dropped, prisma, counters>>

ListenFails ==
    /\ stage = "listen"
    /\ Input
    /\ stage' = "undo"
    /\ Disconnect
    /\ UNCHANGED <<wsVars, listening, requests, dropped, prisma, events>>

\* The subscriber's disconnect() settled, the start is rejected.
StartFails ==
    /\ stage = "undo"
    /\ unsubscribing \in {"resolved", "rejected"}
    /\ stage' = "failed"
    /\ UNCHANGED <<wsVars, redisVars, listening, requests, dropped, prisma, counters>>

FailedStartExits ==
    /\ stage = "failed"
    /\ prisma' = FALSE
    /\ stage' = "exit1"
    /\ UNCHANGED <<wsVars, redisVars, listening, requests, dropped, counters>>

-----------------------------------------------------------------------------
(* Clients, requests and market events *)

\* WebSocket clients connect, send messages, answer pings and leave.
ClientConnects(c) ==
    /\ listening
    /\ HandleConnection(c)
    /\ UNCHANGED <<redisVars, procVars, counters>>

ClientMessage(c, S) ==
    /\ ~Exited /\ Input
    /\ HandleInvalid(c, S) \/ HandleSubscribe(c, S) \/ HandleUnsubscribe(c, S)
    /\ UNCHANGED <<redisVars, procVars, events>>

ClientPong(c) ==
    /\ ~Exited /\ HandlePong(c)
    /\ UNCHANGED <<redisVars, procVars, counters>>

ClientLeaves(c) ==
    /\ ~Exited
    /\ PeerCloses(c) \/ PeerVanishes(c)
    /\ UNCHANGED <<redisVars, procVars, counters>>

SocketClosed(c) ==
    /\ ~Exited /\ HandleClose(c)
    /\ UNCHANGED <<redisVars, procVars, counters>>

Heartbeat ==
    /\ ~Exited /\ CheckConnections
    /\ UNCHANGED <<redisVars, procVars, counters>>

RequestStarts(q) ==
    /\ listening /\ q \notin requests
    /\ requests' = requests \cup {q}
    /\ UNCHANGED <<wsVars, redisVars, stage, listening, dropped, prisma, counters>>

\* The client gives up; the handler does not notice.
RequestDropped(q) ==
    /\ ~Exited /\ Input
    /\ q \in requests \ dropped
    /\ dropped' = dropped \cup {q}
    /\ UNCHANGED <<wsVars, redisVars, stage, listening, requests, prisma, events>>

\* The handler ends; a client that is still there has its answer.
RequestEnds(q) ==
    /\ ~Exited /\ q \in requests
    /\ requests' = requests \ {q}
    /\ dropped' = dropped \ {q}
    /\ UNCHANGED <<wsVars, redisVars, stage, listening, prisma, counters>>

EventPublished(s) ==
    /\ ~Exited /\ events < MaxEvents
    /\ events' = events + 1
    /\ Publish([type |-> "event", n |-> events', symbol |-> s])
    /\ UNCHANGED <<wsVars, procVars, inputs>>

\* The subscriber's callback: webSocketService?.broadcastLocal.
EventArrives ==
    /\ ~Exited /\ MessageArrives
    /\ IF subscribing = "done" /\ service
       THEN BroadcastLocal(Head(pipe)) ELSE UNCHANGED out
    /\ UNCHANGED <<service, clients, symbols, isAlive, readyState, silent, pinged,
                   connectedPeers, procVars, counters>>

RedisAnswers ==
    /\ ~Exited
    /\ LinkReady \/ Subscribed \/ ListenerAttached \/ Unsubscribed \/ UnsubscribeRejects
    /\ UNCHANGED <<wsVars, procVars, counters>>

RedisFails ==
    /\ ~Exited /\ Input
    /\ LinkLost \/ SubscribeRejects
    /\ UNCHANGED <<wsVars, procVars, events>>

-----------------------------------------------------------------------------
(* shutdown *)

\* Faulty variant: the HTTP server is awaited first.
ShutdownHttpFirst ==
    /\ Input /\ stage = "running"
    /\ listening' = FALSE
    /\ stage' = "http"
    /\ UNCHANGED <<wsVars, redisVars, requests, dropped, prisma, events>>

\* A signal: no new connection, and closeWebSocketServer is awaited.  Another one of
\* the three does nothing now (isShuttingDown).
Shutdown ==
    /\ Input /\ stage = "running"
    /\ listening' = FALSE
    /\ CloseWebSocketServer
    /\ stage' = "websockets"
    /\ UNCHANGED <<redisVars, requests, dropped, prisma, events>>

WebSocketsClosed ==
    /\ stage = "websockets"
    /\ WebSocketServerClosed
    /\ stage' = "http"
    /\ UNCHANGED <<redisVars, listening, requests, dropped, prisma, counters>>

\* Faulty variant: the HTTP server's close is begun and not awaited.
HttpNotAwaited ==
    /\ stage = "http"
    /\ Disconnect
    /\ stage' = "redis"
    /\ UNCHANGED <<wsVars, listening, requests, dropped, prisma, counters>>

\* The last connection of the HTTP server ended; handlers whose connection was dropped
\* may still run.
HttpClosed ==
    /\ stage = "http"
    /\ requests = dropped /\ Connections = {}
    /\ Disconnect
    /\ stage' = "redis"
    /\ UNCHANGED <<wsVars, listening, requests, dropped, prisma, counters>>

\* disconnect() resolved, or threw and ends the process with an error.
RedisDisconnected ==
    /\ stage = "redis"
    /\ \/ unsubscribing = "resolved" /\ stage' = "prisma"
       \/ unsubscribing = "rejected" /\ stage' = "exit1"
    /\ UNCHANGED <<wsVars, redisVars, listening, requests, dropped, prisma, counters>>

PrismaDisconnected ==
    /\ stage = "prisma"
    /\ prisma' = FALSE
    /\ stage' = "exit0"
    /\ UNCHANGED <<wsVars, redisVars, listening, requests, dropped, counters>>

PrismaFails ==
    /\ stage = "prisma"
    /\ Input
    /\ stage' = "exit1"
    /\ UNCHANGED <<wsVars, redisVars, listening, requests, dropped, prisma, events>>

\* The 10 second timer, or the same signal again: process.once has removed its handler,
\* so it kills the process.
ForceExit ==
    /\ ShuttingDown
    /\ stage' = "exit1"
    /\ UNCHANGED <<wsVars, redisVars, listening, requests, dropped, prisma, counters>>

-----------------------------------------------------------------------------
Process ==
    \/ SubscribeEnds \/ Listens \/ StartFails \/ FailedStartExits
    \/ WebSocketsClosed \/ HttpClosed \/ RedisDisconnected \/ PrismaDisconnected

Delivery == RedisAnswers \/ EventArrives

Next ==
    \/ Process \/ ListenFails \/ Shutdown \/ PrismaFails \/ ForceExit
    \/ Delivery \/ RedisFails \/ Heartbeat
    \/ \E s \in Symbols : EventPublished(s)
    \/ \E q \in Requests : RequestStarts(q) \/ RequestDropped(q) \/ RequestEnds(q)
    \/ \E c \in Clients :
           \/ ClientConnects(c) \/ ClientPong(c) \/ ClientLeaves(c) \/ SocketClosed(c)
           \/ \E S \in (SUBSET (Symbols \cup {Invalid})) \ {{}} : ClientMessage(c, S)

\* The process runs, Redis answers or commands run out of retries, sockets that are
\* closed say so, the heartbeat fires, and a request is answered: the database responds,
\* and its client takes the answer or drops the connection.  Nothing is assumed of
\* WebSocket clients, signals or the 10 second timer.
Fairness ==
    /\ WF_vars(Process) /\ WF_vars(Delivery) /\ WF_vars(Heartbeat)
    /\ \A c \in Clients : WF_vars(SocketClosed(c))
    /\ \A q \in Requests : WF_vars(RequestEnds(q))

Spec == Init /\ [][Next]_vars /\ Fairness

-----------------------------------------------------------------------------
(* Properties *)

\* What the last acknowledgement naming symbol s before position i says.
SubscribedAt(c, s, i) ==
    \E j \in 1..(i - 1) :
        /\ out[c][j].type = "subscribed" /\ s \in out[c][j].symbols
        /\ \A k \in (j + 1)..(i - 1) :
               ~(out[c][k].type = "unsubscribed" /\ s \in out[c][k].symbols)

\* Seen from the client: an event comes only after a 'subscribed' that names its
\* symbol and before any 'unsubscribed' that does, and no event comes twice or after
\* a younger one, across reconnects to Redis.
StreamMatchesAcks ==
    \A c \in Clients : \A i \in DOMAIN out[c] : out[c][i].type = "event" =>
        /\ SubscribedAt(c, out[c][i].symbol, i)
        /\ \A j \in 1..(i - 1) : out[c][j].type = "event" => out[c][j].n < out[c][i].n

\* The database client is disconnected only when every client that still waits for an
\* answer has it (the handler of a dropped request may lose its database), and an exit
\* with code 0 leaves no client, no connection and no subscription behind.
CleanShutdown ==
    /\ ~prisma => requests \subseteq dropped
    /\ stage = "exit0" => clients = {} /\ Connections = {} /\ ~channel /\ ~available /\ ~prisma

\* An event on its way from Redis is sent to every open client that keeps its
\* subscription, unless the connection to Redis breaks or the server shuts down.
EventReachesSubscribers ==
    \A c \in Clients, s \in Symbols, n \in 1..MaxEvents :
        LET e == [type |-> "event", n |-> n, symbol |-> s]
            wanted == c \in clients /\ Open(c) /\ s \in symbols[c]
        IN (/\ \E i \in DOMAIN pipe : pipe[i] = e
            /\ subscribing = "done" /\ service /\ wanted)
               ~> (\/ \E i \in DOMAIN out[c] : out[c][i] = e
                   \/ ~wanted \/ link # "ready" \/ ~service \/ Exited)

\* Nothing evicts an open connection, unless its client left a ping unanswered.
EvictsOnlySilent == [][\A c \in Clients : c \in clients \ clients' /\ Open(c) => c \in pinged]_vars

\* The heartbeat tells the living from the dead: it evicts only who left a ping
\* unanswered, and a client that vanished is eventually dropped.
HeartbeatExact ==
    /\ EvictsOnlySilent
    /\ \A c \in Clients : (c \in silent /\ c \in clients) ~> (c \notin clients \/ Exited)

\* A shutdown ends without the 10 second timer.
ShutdownCompletes == ShuttingDown ~> Exited

=============================================================================
