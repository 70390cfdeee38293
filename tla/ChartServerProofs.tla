-------------------------- MODULE ChartServerProofs --------------------------
(***************************************************************************)
(* Proofs about the Chart Server, for every set of clients, symbols and    *)
(* requests and every number of events and inputs.                         *)
(***************************************************************************)
EXTENDS ChartServer, TLAPS, SequenceTheorems

-----------------------------------------------------------------------------
(* The inductive invariant *)

\* What the acknowledgements of q before position i say about symbol s.
Acked(q, s, i) ==
    \E j \in 1..(i - 1) :
        /\ q[j].type = "subscribed" /\ s \in q[j].symbols
        /\ \A k \in (j + 1)..(i - 1) : ~(q[k].type = "unsubscribed" /\ s \in q[k].symbols)

\* Every event of q was asked for, and is younger than the ones before it.
Ordered(q) ==
    \A i \in DOMAIN q : q[i].type = "event" =>
        /\ Acked(q, q[i].symbol, i)
        /\ \A j \in 1..(i - 1) : q[j].type = "event" => q[j].n < q[i].n

\* A client is sent what the acknowledgements say: those of an open connection cover
\* its subscription, and what is still in the pipe is younger than all it was sent.
ClientInv(c) ==
    /\ Ordered(out[c])
    /\ readyState[c] = "NONE" => symbols[c] = {}
    /\ Open(c) => \A s \in symbols[c] : Acked(out[c], s, Len(out[c]) + 1)
    /\ \A i \in DOMAIN out[c] : out[c][i].type = "event" =>
           /\ out[c][i].n <= events
           /\ \A k \in DOMAIN pipe : out[c][i].n < pipe[k].n

\* The pipe keeps the order in which events were published.
PipeInv ==
    \A k \in DOMAIN pipe : /\ pipe[k].n <= events
                           /\ \A l \in DOMAIN pipe : k < l => pipe[k].n < pipe[l].n

\* A client that counts as dead owes an answer, and a service that is closed has no
\* open connection.
HeartbeatInv ==
    /\ \A c \in clients : Open(c) /\ ~isAlive[c] => c \in pinged
    /\ ~service => \A c \in Clients : ~Open(c)

\* Where startChartServer and shutdown are, and what is open.
StageInv ==
    /\ listening <=> stage = "running"
    /\ stage \in {"websockets", "http", "redis", "prisma", "exit0"} => ~service
    /\ stage \in {"subscribe", "listen", "undo", "failed"} => requests = {}
    /\ stage \in {"redis", "prisma", "exit0"} => requests = dropped
    /\ ~prisma => requests \subseteq dropped /\ Exited
    /\ stage \in {"http", "redis", "prisma", "exit0"} => clients = {}
    /\ stage \in {"redis", "prisma", "exit0"} => Connections = {}
    /\ stage = "subscribe" => unsubscribing = "no"
    /\ stage # "subscribe" => subscribing \in {"done", "failed"}
    /\ unsubscribing = "resolved" => link = "end" /\ ~available /\ ~channel
    /\ stage \in {"prisma", "exit0"} => unsubscribing = "resolved"
    /\ stage = "exit0" => ~prisma

IInv == TypeOK /\ PipeInv /\ HeartbeatInv /\ StageInv /\ \A c \in Clients : ClientInv(c)

-----------------------------------------------------------------------------
(* What is sent is sent: an Append changes nothing that was said before it. *)

\* The entries of a sequence after an Append.
LEMMA Appended ==
    ASSUME NEW T, NEW q \in Seq(T), NEW m \in T
    PROVE  /\ Append(q, m) \in Seq(T)
           /\ Len(q) \in Nat
           /\ Len(Append(q, m)) = Len(q) + 1
           /\ DOMAIN q = 1..Len(q)
           /\ DOMAIN Append(q, m) = 1..(Len(q) + 1)
           /\ \A i \in 1..Len(q) : Append(q, m)[i] = q[i]
           /\ Append(q, m)[Len(q) + 1] = m
  OBVIOUS

\* What the messages before position i acknowledge does not depend on later ones.
LEMMA AckedBefore ==
    ASSUME NEW T, NEW q \in Seq(T), NEW m \in T, NEW s,
           NEW i \in 1..(Len(q) + 1), Acked(q, s, i)
    PROVE  Acked(Append(q, m), s, i)
  BY Appended DEF Acked

\* An acknowledged subscription lasts as long as no message takes it back.
LEMMA AckedLater ==
    ASSUME NEW T, NEW q \in Seq(T), NEW m \in T, NEW s,
           Acked(q, s, Len(q) + 1),
           ~(m.type = "unsubscribed" /\ s \in m.symbols)
    PROVE  Acked(Append(q, m), s, Len(Append(q, m)) + 1)
  <1> DEFINE p == Append(q, m)
  <1>1. /\ Len(q) \in Nat /\ Len(p) = Len(q) + 1
        /\ \A k \in 1..Len(q) : p[k] = q[k]
        /\ p[Len(q) + 1] = m
    BY Appended
  <1>2. PICK j \in 1..Len(q) :
            /\ q[j].type = "subscribed" /\ s \in q[j].symbols
            /\ \A k \in (j + 1)..Len(q) : ~(q[k].type = "unsubscribed" /\ s \in q[k].symbols)
    BY <1>1 DEF Acked
  <1> HIDE DEF p
  <1>3. \A k \in (j + 1)..(Len(q) + 1) : ~(p[k].type = "unsubscribed" /\ s \in p[k].symbols)
    <2> TAKE k \in (j + 1)..(Len(q) + 1)
    <2>1. CASE k = Len(q) + 1
      BY <2>1, <1>1
    <2>2. CASE k # Len(q) + 1
      <3>1. k \in (j + 1)..Len(q) /\ k \in 1..Len(q)
        BY <2>2, <1>1
      <3> QED
        BY <3>1, <1>1, <1>2
    <2> QED
      BY <2>1, <2>2
  <1>4. Acked(p, s, Len(p) + 1)
    BY <1>1, <1>2, <1>3 DEF Acked
  <1> QED
    BY <1>4 DEF p

\* A 'subscribed' acknowledges what it names.
LEMMA AckedNow ==
    ASSUME NEW T, NEW q \in Seq(T), NEW m \in T, NEW s,
           m.type = "subscribed", s \in m.symbols
    PROVE  Acked(Append(q, m), s, Len(Append(q, m)) + 1)
  BY Appended DEF Acked

\* A message that is no event, or a younger event that was asked for, keeps the order.
LEMMA OrderedAppend ==
    ASSUME NEW T, NEW q \in Seq(T), NEW m \in T, Ordered(q),
           m.type = "event" =>
               /\ Acked(q, m.symbol, Len(q) + 1)
               /\ \A j \in 1..Len(q) : q[j].type = "event" => q[j].n < m.n
    PROVE  Ordered(Append(q, m))
  <1> DEFINE p == Append(q, m)
  <1>1. /\ Len(q) \in Nat
        /\ DOMAIN q = 1..Len(q)
        /\ DOMAIN p = 1..(Len(q) + 1)
        /\ \A k \in 1..Len(q) : p[k] = q[k]
        /\ p[Len(q) + 1] = m
    BY Appended
  <1>2. \A i \in 1..(Len(q) + 1) : \A s : Acked(q, s, i) => Acked(p, s, i)
    BY AckedBefore
  <1> HIDE DEF p
  <1>3. ASSUME NEW i \in 1..(Len(q) + 1), p[i].type = "event"
        PROVE  /\ Acked(p, p[i].symbol, i)
               /\ \A j \in 1..(i - 1) : p[j].type = "event" => p[j].n < p[i].n
    <2>1. \A j \in 1..(i - 1) : j \in 1..Len(q) /\ p[j] = q[j]
      BY <1>1
    <2>2. CASE i = Len(q) + 1
      BY <2>1, <2>2, <1>1, <1>2, <1>3
    <2>3. CASE i # Len(q) + 1
      <3>1. i \in DOMAIN q /\ p[i] = q[i]
        BY <2>3, <1>1
      <3>2. /\ Acked(q, q[i].symbol, i)
            /\ \A j \in 1..(i - 1) : q[j].type = "event" => q[j].n < q[i].n
        BY <3>1, <1>3 DEF Ordered
      <3> QED
        BY <3>1, <3>2, <2>1, <1>2
    <2> QED
      BY <2>2, <2>3
  <1>4. Ordered(p)
    BY <1>1, <1>3 DEF Ordered
  <1> QED
    BY <1>4 DEF p

-----------------------------------------------------------------------------
(* One client *)

\* Every step: the pipe holds what it held or the next event.
PipeMoves ==
    /\ events' \in Nat /\ events <= events'
    /\ \A k \in DOMAIN pipe' : \/ \E l \in DOMAIN pipe : pipe'[k] = pipe[l]
                               \/ pipe'[k].n = events + 1

\* What the invariant says about one client, and the pipe, by type.
LEMMA Types ==
    ASSUME IInv, NEW c \in Clients
    PROVE  /\ out[c] \in Seq(Messages) /\ Len(out[c]) \in Nat
           /\ DOMAIN out[c] = 1..Len(out[c])
           /\ \A i \in DOMAIN out[c] : out[c][i].type = "event" => out[c][i].n \in Nat
           /\ symbols[c] \subseteq Symbols
           /\ ClientInv(c)
           /\ events \in Nat
           /\ \A k \in DOMAIN pipe : pipe[k] \in MarketEvents /\ pipe[k].n \in Nat
  <1>1. out[c] \in Seq(Messages) /\ symbols[c] \subseteq Symbols /\ events \in Nat
    BY ServerAssumption DEF IInv, TypeOK, WebSocketTypeOK
  <1>2. Len(out[c]) \in Nat /\ DOMAIN out[c] = 1..Len(out[c])
    BY <1>1
  <1>3. \A i \in DOMAIN out[c] : out[c][i] \in Messages
    BY <1>1, <1>2
  <1>4. \A m \in Messages : m.type = "event" => m.n \in Nat
    BY DEF Messages, Acks, MarketEvents, ErrorMessage
  <1>5. \A k \in DOMAIN pipe : pipe[k] \in MarketEvents
    BY DEF IInv, TypeOK
  <1>6. \A m \in MarketEvents : m.n \in Nat
    BY DEF MarketEvents
  <1> QED
    BY <1>1, <1>2, <1>3, <1>4, <1>5, <1>6 DEF IInv

\* A client that is sent nothing keeps the invariant.
LEMMA NothingSent ==
    ASSUME IInv, NEW c \in Clients, PipeMoves,
           out'[c] = out[c],
           readyState'[c] = "NONE" => readyState[c] = "NONE" /\ symbols'[c] = symbols[c],
           readyState'[c] = "OPEN" =>
               /\ readyState[c] \in {"NONE", "OPEN"}
               /\ symbols'[c] = symbols[c]
    PROVE  ClientInv(c)'
  <1>1. /\ \A i \in DOMAIN out[c] : out[c][i].type = "event" => out[c][i].n \in Nat
        /\ ClientInv(c)
        /\ events \in Nat
    BY Types
  <1>2. Ordered(out[c])'
    BY <1>1 DEF ClientInv, Ordered, Acked
  <1>3. (readyState[c] = "NONE" => symbols[c] = {})'
    BY <1>1 DEF ClientInv
  <1>4. (Open(c) => \A s \in symbols[c] : Acked(out[c], s, Len(out[c]) + 1))'
    BY <1>1 DEF ClientInv, Open, Acked
  <1>5. ASSUME NEW i \in DOMAIN out'[c], out'[c][i].type = "event"
        PROVE  /\ out'[c][i].n <= events'
               /\ \A k \in DOMAIN pipe' : out'[c][i].n < pipe'[k].n
    BY <1>1, <1>5 DEF ClientInv, PipeMoves
  <1> QED
    BY <1>2, <1>3, <1>4, <1>5 DEF ClientInv

\* An acknowledgement or an error: the subscription is what was acknowledged.
LEMMA AnswerSent ==
    ASSUME IInv, NEW c \in Clients, NEW m \in Messages,
           Open(c), m.type # "event",
           out'[c] = Append(out[c], m),
           UNCHANGED <<readyState, events, pipe>>,
           \A s \in symbols'[c] : \/ m.type = "subscribed" /\ s \in m.symbols
                                  \/ /\ s \in symbols[c]
                                     /\ ~(m.type = "unsubscribed" /\ s \in m.symbols)
    PROVE  ClientInv(c)'
  <1>1. /\ out[c] \in Seq(Messages) /\ Len(out[c]) \in Nat
        /\ DOMAIN out[c] = 1..Len(out[c])
        /\ ClientInv(c)
    BY Types
  <1>2. Ordered(out'[c])
    BY <1>1, OrderedAppend DEF ClientInv
  <1>3. readyState'[c] # "NONE"
    BY DEF Open
  <1>4. \A s \in symbols'[c] : Acked(out'[c], s, Len(out'[c]) + 1)
    BY <1>1, AckedNow, AckedLater DEF ClientInv
  <1>5. ASSUME NEW i \in DOMAIN out'[c], out'[c][i].type = "event"
        PROVE  i \in DOMAIN out[c] /\ out'[c][i] = out[c][i]
    BY <1>1, <1>5, Appended
  <1>6. (\A i \in DOMAIN out[c] : out[c][i].type = "event" =>
              /\ out[c][i].n <= events
              /\ \A k \in DOMAIN pipe : out[c][i].n < pipe[k].n)'
    BY <1>1, <1>5 DEF ClientInv
  <1>7. (\A s \in symbols[c] : Acked(out[c], s, Len(out[c]) + 1))'
    BY <1>4 DEF Acked
  <1>8. Ordered(out[c])'
    BY <1>2 DEF Ordered, Acked
  <1> QED
    BY <1>3, <1>6, <1>7, <1>8 DEF ClientInv

\* The first event of the pipe is sent to a client that subscribes its symbol.
LEMMA EventSent ==
    ASSUME IInv, NEW c \in Clients,
           Open(c), pipe # <<>>, Head(pipe).symbol \in symbols[c],
           out'[c] = Append(out[c], Head(pipe)),
           pipe' = Tail(pipe),
           UNCHANGED <<readyState, symbols, events>>
    PROVE  ClientInv(c)'
  <1> DEFINE e == Head(pipe)
  <1>1. /\ out[c] \in Seq(Messages) /\ Len(out[c]) \in Nat
        /\ DOMAIN out[c] = 1..Len(out[c])
        /\ \A i \in DOMAIN out[c] : out[c][i].type = "event" => out[c][i].n \in Nat
        /\ ClientInv(c)
        /\ \A k \in DOMAIN pipe : pipe[k] \in MarketEvents /\ pipe[k].n \in Nat
        /\ pipe \in Seq(MarketEvents)
    BY Types DEF IInv, TypeOK
  <1>2. /\ 1 \in DOMAIN pipe /\ e = pipe[1]
        /\ \A k \in DOMAIN pipe' : k + 1 \in DOMAIN pipe /\ 1 < k + 1 /\ pipe'[k] = pipe[k + 1]
    BY <1>1
  <1>3. e \in MarketEvents /\ e \in Messages /\ e.type = "event"
    BY <1>1, <1>2 DEF Messages, MarketEvents
  <1>4. /\ e.n <= events
        /\ \A k \in DOMAIN pipe' : e.n < pipe'[k].n
        /\ \A k \in DOMAIN pipe' : \E l \in DOMAIN pipe : pipe'[k] = pipe[l]
    BY <1>2 DEF IInv, PipeInv
  <1>5. \A j \in 1..Len(out[c]) : out[c][j].type = "event" => out[c][j].n < e.n
    BY <1>1, <1>2 DEF ClientInv
  <1> HIDE DEF e
  <1>6. out'[c] = Append(out[c], e)
    BY DEF e
  <1>7. /\ e.symbol \in symbols[c]
        /\ \A s \in symbols[c] : Acked(out[c], s, Len(out[c]) + 1)
    BY <1>1 DEF e, ClientInv
  <1>8. Ordered(out'[c])
    BY <1>1, <1>3, <1>5, <1>6, <1>7, OrderedAppend DEF ClientInv
  <1>9. \A s \in symbols[c] : Acked(out'[c], s, Len(out'[c]) + 1)
    BY <1>1, <1>3, <1>6, <1>7, AckedLater
  <1>10. ASSUME NEW i \in DOMAIN out'[c], out'[c][i].type = "event"
         PROVE  /\ out'[c][i].n <= events
                /\ \A k \in DOMAIN pipe' : out'[c][i].n < pipe'[k].n
    <2>1. CASE i \in DOMAIN out[c] /\ out'[c][i] = out[c][i]
      BY <2>1, <1>1, <1>4, <1>10 DEF ClientInv
    <2>2. CASE out'[c][i] = e
      BY <2>2, <1>4
    <2>3. \/ i \in DOMAIN out[c] /\ out'[c][i] = out[c][i]
          \/ out'[c][i] = e
      BY <1>1, <1>3, <1>6, Appended
    <2> QED
      BY <2>1, <2>2, <2>3
  <1> QED
    BY <1>8, <1>9, <1>10 DEF ClientInv, Open, Ordered, Acked

-----------------------------------------------------------------------------
(* The connection to Redis *)

\* What a step does to the connection to Redis, and to the number of events.
RedisSteps ==
    \/ UNCHANGED <<redisVars, events>>
    \/ UNCHANGED events /\ (\/ LinkReady \/ Subscribed \/ ListenerAttached \/ Unsubscribed
                            \/ UnsubscribeRejects \/ LinkLost \/ SubscribeRejects \/ Disconnect)
    \/ UNCHANGED events /\ MessageArrives
    \/ \E s \in Symbols : EventPublished(s)

\* Next, seen from the connection to Redis.
LEMMA NextRedis ==
    ASSUME [Next]_vars
    PROVE  RedisSteps
  BY Zenon DEF Next, Process, Delivery, SubscribeEnds, Listens, StartFails, FailedStartExits,
         WebSocketsClosed, HttpClosed, RedisDisconnected, PrismaDisconnected, ListenFails,
         Shutdown, PrismaFails, ForceExit, RedisAnswers, EventArrives, RedisFails, Heartbeat,
         RequestStarts, RequestDropped, RequestEnds, ClientConnects, ClientPong, ClientLeaves,
         SocketClosed, ClientMessage, RedisSteps, vars, counters, redisVars

\* The connection keeps its type, and the pipe keeps its order.
LEMMA RedisInv ==
    ASSUME IInv, RedisSteps
    PROVE  RedisTypeOK' /\ pipe' \in Seq(MarketEvents) /\ PipeMoves /\ PipeInv'
  <1>1. /\ RedisTypeOK /\ pipe \in Seq(MarketEvents) /\ PipeInv /\ events \in Nat
        /\ \A k \in DOMAIN pipe : pipe[k].n \in Nat
    <2>1. RedisTypeOK /\ pipe \in Seq(MarketEvents) /\ PipeInv /\ events \in Nat
      BY ServerAssumption DEF IInv, TypeOK
    <2>2. \A e \in MarketEvents : e.n \in Nat
      BY DEF MarketEvents
    <2> QED
      BY <2>1, <2>2
  <1>2. CASE UNCHANGED <<redisVars, events>>
    BY <1>1, <1>2 DEF RedisTypeOK, PipeInv, PipeMoves, redisVars
  <1>3. CASE UNCHANGED events /\ (LinkReady \/ Subscribed \/ ListenerAttached
                                  \/ UnsubscribeRejects \/ SubscribeRejects \/ Disconnect)
    <2>1. pipe' = pipe
      BY <1>3 DEF LinkReady, Subscribed, ListenerAttached, UnsubscribeRejects, SubscribeRejects,
             Disconnect
    <2>2. RedisTypeOK'
      <3>1. CASE Subscribed
        BY <1>1, <3>1 DEF RedisTypeOK, Subscribed
      <3>2. CASE LinkReady
        BY <1>1, <3>2 DEF RedisTypeOK, LinkReady
      <3>3. CASE ListenerAttached
        BY <1>1, <3>3 DEF RedisTypeOK, ListenerAttached
      <3>4. CASE UnsubscribeRejects
        BY <1>1, <3>4 DEF RedisTypeOK, UnsubscribeRejects
      <3>5. CASE SubscribeRejects
        BY <1>1, <3>5 DEF RedisTypeOK, SubscribeRejects
      <3>6. CASE Disconnect
        BY <1>1, <3>6 DEF RedisTypeOK, Disconnect
      <3> QED
        BY <1>3, <3>1, <3>2, <3>3, <3>4, <3>5, <3>6
    <2> QED
      BY <1>1, <1>3, <2>1, <2>2 DEF PipeInv, PipeMoves
  <1>4. CASE UNCHANGED events /\ (Unsubscribed \/ LinkLost)
    <2>1. pipe' = <<>>
      BY <1>4 DEF Unsubscribed, LinkLost
    <2>2. RedisTypeOK'
      BY <1>1, <1>4 DEF RedisTypeOK, Unsubscribed, LinkLost
    <2> QED
      BY <1>1, <1>4, <2>1, <2>2 DEF PipeInv, PipeMoves
  <1>5. CASE UNCHANGED events /\ MessageArrives
    <2>1. /\ pipe' \in Seq(MarketEvents)
          /\ \A k \in DOMAIN pipe' : k + 1 \in DOMAIN pipe /\ pipe'[k] = pipe[k + 1]
          /\ DOMAIN pipe' \subseteq Nat
      BY <1>1, <1>5 DEF MessageArrives
    <2>2. RedisTypeOK'
      BY <1>1, <1>5 DEF RedisTypeOK, MessageArrives
    <2>3. PipeMoves
      BY <1>1, <1>5, <2>1 DEF PipeMoves
    <2>4. PipeInv'
      <3> SUFFICES ASSUME NEW k \in DOMAIN pipe'
                   PROVE  /\ pipe'[k].n <= events
                          /\ \A l \in DOMAIN pipe' : k < l => pipe'[k].n < pipe'[l].n
        BY <1>5 DEF PipeInv
      <3>1. \A l \in DOMAIN pipe' : k < l => k + 1 < l + 1
        BY <2>1
      <3> QED
        BY <1>1, <2>1, <3>1 DEF PipeInv
    <2> QED
      BY <2>1, <2>2, <2>3, <2>4
  <1>6. CASE \E s \in Symbols : EventPublished(s)
    <2>1. PICK s \in Symbols : EventPublished(s)
      BY <1>6
    <2> DEFINE e == [type |-> "event", n |-> events', symbol |-> s]
    <2>2. events' = events + 1 /\ e \in MarketEvents /\ e.n = events + 1
      BY <2>1, <1>1 DEF EventPublished, MarketEvents
    <2>3. RedisTypeOK'
      BY <1>1, <2>1 DEF RedisTypeOK, EventPublished, Publish
    <2>4. pipe' = pipe \/ pipe' = Append(pipe, e)
      BY <2>1 DEF EventPublished, Publish
    <2> HIDE DEF e
    <2>5. CASE pipe' = pipe
      BY <1>1, <2>2, <2>3, <2>5 DEF PipeInv, PipeMoves
    <2>6. CASE pipe' = Append(pipe, e)
      <3>1. /\ pipe' \in Seq(MarketEvents)
            /\ \A k \in DOMAIN pipe' : k \in Nat
            /\ \A k \in DOMAIN pipe' : \/ k \in DOMAIN pipe /\ k <= Len(pipe) /\ pipe'[k] = pipe[k]
                                       \/ k = Len(pipe) + 1 /\ pipe'[k] = e
            /\ Len(pipe) \in Nat
        BY <1>1, <2>2, <2>6, Appended
      <3>2. PipeMoves
        BY <1>1, <2>2, <3>1 DEF PipeMoves
      <3>3. PipeInv'
        BY <1>1, <2>2, <3>1 DEF PipeInv
      <3> QED
        BY <2>3, <3>1, <3>2, <3>3
    <2> QED
      BY <2>4, <2>5, <2>6
  <1> QED
    BY <1>2, <1>3, <1>4, <1>5, <1>6 DEF RedisSteps

-----------------------------------------------------------------------------
(* The clients *)

\* What a step does to the WebSocket service.
SocketSteps ==
    \/ UNCHANGED wsVars
    \/ CloseWebSocketServer
    \/ WebSocketServerClosed
    \/ CheckConnections
    \/ EventArrives
    \/ \E c \in Clients :
           \/ HandleConnection(c) \/ HandlePong(c) \/ PeerCloses(c) \/ PeerVanishes(c)
           \/ HandleClose(c)
           \/ \E S \in SUBSET (Symbols \cup {Invalid}) :
                  /\ HandleInvalid(c, S) \/ HandleSubscribe(c, S) \/ HandleUnsubscribe(c, S)
                  /\ UNCHANGED <<redisVars, events>>

\* Next, seen from the WebSocket service.
LEMMA NextSockets ==
    ASSUME [Next]_vars
    PROVE  SocketSteps
  <1>1. CASE \E c \in Clients : \E S \in (SUBSET (Symbols \cup {Invalid})) \ {{}} :
                 ClientMessage(c, S)
    BY <1>1, Zenon DEF ClientMessage, SocketSteps
  <1>2. CASE [Next]_vars /\ ~(\E c \in Clients :
                 \E S \in (SUBSET (Symbols \cup {Invalid})) \ {{}} : ClientMessage(c, S))
    BY <1>2, Zenon DEF Next, Process, Delivery, SubscribeEnds, Listens, StartFails,
         FailedStartExits, WebSocketsClosed, HttpClosed, RedisDisconnected, PrismaDisconnected,
         ListenFails, Shutdown, PrismaFails, ForceExit, RedisAnswers, RedisFails, Heartbeat,
         RequestStarts, RequestDropped, RequestEnds, EventPublished, ClientConnects, ClientPong,
         ClientLeaves, SocketClosed, SocketSteps, vars
  <1> QED
    BY <1>1, <1>2

\* A step that sends nothing and leaves the symbols alone keeps what is said of the
\* clients, if no connection goes back to open.
LEMMA QuietStep ==
    ASSUME IInv, PipeMoves, UNCHANGED <<symbols, out>>,
           \A c \in Clients :
               \/ readyState'[c] = readyState[c]
               \/ readyState'[c] \in {"CLOSING", "CLOSED"}
               \/ readyState[c] = "NONE" /\ readyState'[c] = "OPEN"
    PROVE  \A c \in Clients : ClientInv(c)'
  <1> TAKE c \in Clients
  <1> QED
    BY NothingSent

\* The steps of a connection that send nothing.
LEMMA ConnectionInv ==
    ASSUME IInv, PipeMoves, NEW c \in Clients,
           \/ HandleConnection(c) \/ HandlePong(c) \/ PeerCloses(c) \/ PeerVanishes(c)
           \/ HandleClose(c)
    PROVE  WebSocketTypeOK' /\ HeartbeatInv' /\ \A d \in Clients : ClientInv(d)'
  <1>1. WebSocketTypeOK /\ HeartbeatInv
    BY DEF IInv, TypeOK
  <1> USE DEF WebSocketTypeOK, HeartbeatInv, Open, Receives
  <1>2. CASE HandleConnection(c)
    <2>1. /\ readyState' \in [Clients -> {"NONE", "OPEN", "CLOSING", "CLOSED"}]
          /\ isAlive' \in [Clients -> BOOLEAN]
      BY <1>1, <1>2, Zenon DEF HandleConnection
    <2>2. \A d \in Clients : /\ readyState'[d] = IF d = c THEN "OPEN" ELSE readyState[d]
                             /\ isAlive'[d] = IF d = c THEN TRUE ELSE isAlive[d]
      BY <1>1, <1>2 DEF HandleConnection
    <2>3. WebSocketTypeOK'
      BY <1>1, <1>2, <2>1, <2>2 DEF HandleConnection
    <2>4. HeartbeatInv'
      BY <1>1, <1>2, <2>2 DEF HandleConnection
    <2> QED
      BY <1>2, <2>2, <2>3, <2>4, QuietStep DEF HandleConnection
  <1>3. CASE HandlePong(c)
    <2>1. isAlive' \in [Clients -> BOOLEAN]
      BY <1>1, <1>3, Zenon DEF HandlePong
    <2>2. \A d \in Clients : d # c => isAlive'[d] = isAlive[d]
      BY <1>1, <1>3 DEF HandlePong
    <2>3. c \in clients => isAlive'[c] = TRUE
      BY <1>1, <1>3 DEF HandlePong
    <2>4. WebSocketTypeOK'
      BY <1>1, <1>3, <2>1 DEF HandlePong
    <2>5. HeartbeatInv'
      BY <1>1, <1>3, <2>2, <2>3 DEF HandlePong
    <2> QED
      BY <1>3, <2>4, <2>5, QuietStep DEF HandlePong
  <1>4. CASE PeerCloses(c)
    <2>1. /\ readyState' \in [Clients -> {"NONE", "OPEN", "CLOSING", "CLOSED"}]
          /\ \A d \in Clients : readyState'[d] = IF d = c THEN "CLOSING" ELSE readyState[d]
      BY <1>1, <1>4 DEF PeerCloses
    <2>2. WebSocketTypeOK'
      BY <1>1, <1>4, <2>1 DEF PeerCloses
    <2>3. HeartbeatInv'
      BY <1>1, <1>4, <2>1 DEF PeerCloses
    <2> QED
      BY <1>4, <2>1, <2>2, <2>3, QuietStep DEF PeerCloses
  <1>5. CASE PeerVanishes(c)
    <2>1. WebSocketTypeOK'
      BY <1>1, <1>5 DEF PeerVanishes
    <2>2. HeartbeatInv'
      BY <1>1, <1>5 DEF PeerVanishes
    <2> QED
      BY <1>5, <2>1, <2>2, QuietStep DEF PeerVanishes
  <1>6. CASE HandleClose(c)
    <2>1. /\ readyState' \in [Clients -> {"NONE", "OPEN", "CLOSING", "CLOSED"}]
          /\ \A d \in Clients : readyState'[d] = IF d = c THEN "CLOSED" ELSE readyState[d]
      BY <1>1, <1>6 DEF HandleClose
    <2>2. WebSocketTypeOK'
      BY <1>1, <1>6, <2>1 DEF HandleClose
    <2>3. HeartbeatInv'
      BY <1>1, <1>6, <2>1 DEF HandleClose
    <2> QED
      BY <1>6, <2>1, <2>2, <2>3, QuietStep DEF HandleClose
  <1> QED
    BY <1>2, <1>3, <1>4, <1>5, <1>6

\* The steps of the whole service that send nothing: the heartbeat and the shutdown.
LEMMA ServiceInv ==
    ASSUME IInv, PipeMoves,
           CheckConnections \/ CloseWebSocketServer \/ WebSocketServerClosed \/ UNCHANGED wsVars
    PROVE  WebSocketTypeOK' /\ HeartbeatInv' /\ \A d \in Clients : ClientInv(d)'
  <1>1. WebSocketTypeOK /\ HeartbeatInv
    BY DEF IInv, TypeOK
  <1> USE DEF WebSocketTypeOK, HeartbeatInv, Open
  <1>2. CASE CheckConnections
    <2> DEFINE dead == {c \in clients : ~isAlive[c]}
    <2>1. /\ readyState' \in [Clients -> {"NONE", "OPEN", "CLOSING", "CLOSED"}]
          /\ \A d \in Clients : readyState'[d] = IF d \in dead THEN "CLOSING" ELSE readyState[d]
          /\ clients' = clients \ dead
      BY <1>1, <1>2 DEF CheckConnections
    <2>2. isAlive' \in [Clients -> BOOLEAN]
      BY <1>1, <1>2, Zenon DEF CheckConnections
    <2>3. WebSocketTypeOK'
      BY <1>1, <1>2, <2>1, <2>2 DEF CheckConnections
    <2>4. HeartbeatInv'
      BY <1>1, <1>2, <2>1 DEF CheckConnections
    <2> QED
      BY <1>2, <2>1, <2>3, <2>4, QuietStep DEF CheckConnections
  <1>3. CASE CloseWebSocketServer
    <2>1. /\ readyState' \in [Clients -> {"NONE", "OPEN", "CLOSING", "CLOSED"}]
          /\ \A d \in Clients :
                 readyState'[d] = IF readyState[d] \in {"OPEN", "CLOSING"}
                                  THEN "CLOSING" ELSE readyState[d]
      BY <1>1, <1>3 DEF CloseWebSocketServer
    <2>2. WebSocketTypeOK'
      BY <1>1, <1>3, <2>1 DEF CloseWebSocketServer
    <2>3. HeartbeatInv'
      BY <1>1, <1>3, <2>1 DEF CloseWebSocketServer
    <2> QED
      BY <1>3, <2>1, <2>2, <2>3, QuietStep DEF CloseWebSocketServer
  <1>4. CASE WebSocketServerClosed
    <2>1. WebSocketTypeOK'
      BY <1>1, <1>4 DEF WebSocketServerClosed
    <2>2. HeartbeatInv'
      BY <1>1, <1>4 DEF WebSocketServerClosed
    <2> QED
      BY <1>4, <2>1, <2>2, QuietStep DEF WebSocketServerClosed
  <1>5. CASE UNCHANGED wsVars
    <2>1. WebSocketTypeOK'
      BY <1>1, <1>5 DEF wsVars
    <2>2. HeartbeatInv'
      BY <1>1, <1>5 DEF wsVars
    <2> QED
      BY <1>5, <2>1, <2>2, QuietStep DEF wsVars
  <1> QED
    BY <1>2, <1>3, <1>4, <1>5

\* A message of a client: it is answered on an open connection, with what then holds.
LEMMA MessageInv ==
    ASSUME IInv, NEW c \in Clients, NEW S \in SUBSET (Symbols \cup {Invalid}),
           HandleInvalid(c, S) \/ HandleSubscribe(c, S) \/ HandleUnsubscribe(c, S),
           UNCHANGED <<redisVars, events>>
    PROVE  WebSocketTypeOK' /\ HeartbeatInv' /\ \A d \in Clients : ClientInv(d)'
  <1>1. WebSocketTypeOK /\ HeartbeatInv /\ events \in Nat
    BY ServerAssumption DEF IInv, TypeOK
  <1>2. UNCHANGED <<service, clients, isAlive, readyState, silent, pinged, connectedPeers>>
    BY DEF HandleInvalid, HandleSubscribe, HandleUnsubscribe
  <1>3. PipeMoves /\ UNCHANGED <<readyState, events, pipe>>
    BY <1>1, <1>2 DEF PipeMoves, redisVars
  <1>4. HeartbeatInv'
    BY <1>1, <1>2 DEF HeartbeatInv, Open
  <1>5. ASSUME NEW m \in Messages, Send(c, m), m.type # "event",
               symbols' \in [Clients -> SUBSET Symbols],
               \A d \in Clients : d # c => symbols'[d] = symbols[d],
               \A s \in symbols'[c] : \/ m.type = "subscribed" /\ s \in m.symbols
                                      \/ /\ s \in symbols[c]
                                         /\ ~(m.type = "unsubscribed" /\ s \in m.symbols),
               readyState[c] \in {"OPEN", "CLOSING"}
        PROVE  WebSocketTypeOK' /\ \A d \in Clients : ClientInv(d)'
    <2>1. CASE Open(c)
      <3>1. /\ out' = [out EXCEPT ![c] = Append(out[c], m)]
            /\ out \in [Clients -> Seq(Messages)]
            /\ Append(out[c], m) \in Seq(Messages)
        BY <1>1, <1>5, <2>1 DEF Send, WebSocketTypeOK
      <3>2. /\ out' \in [Clients -> Seq(Messages)]
            /\ out'[c] = Append(out[c], m)
            /\ \A d \in Clients : d # c => out'[d] = out[d]
        BY <3>1
      <3>3. WebSocketTypeOK'
        BY <1>1, <1>2, <1>5, <3>2 DEF WebSocketTypeOK
      <3>4. ClientInv(c)'
        BY <1>3, <1>5, <2>1, <3>2, AnswerSent
      <3>5. \A d \in Clients : d # c => ClientInv(d)'
        BY <1>3, <1>5, <3>2, NothingSent
      <3> QED
        BY <3>3, <3>4, <3>5
    <2>2. CASE ~Open(c)
      <3>1. out' = out
        BY <1>5, <2>2 DEF Send
      <3>2. WebSocketTypeOK'
        BY <1>1, <1>2, <1>5, <3>1 DEF WebSocketTypeOK
      <3>3. readyState'[c] \notin {"NONE", "OPEN"}
        BY <1>2, <1>5, <2>2 DEF Open
      <3>4. \A d \in Clients : ClientInv(d)'
        BY <1>3, <1>5, <3>1, <3>3, NothingSent
      <3> QED
        BY <3>2, <3>4
    <2> QED
      BY <2>1, <2>2
  <1>6. readyState[c] \in {"OPEN", "CLOSING"}
    BY DEF HandleInvalid, HandleSubscribe, HandleUnsubscribe, Receives
  <1>7. symbols \in [Clients -> SUBSET Symbols]
    BY <1>1 DEF WebSocketTypeOK
  <1>8. CASE HandleInvalid(c, S)
    <2>1. Send(c, ErrorMessage) /\ symbols' = symbols
      BY <1>8 DEF HandleInvalid
    <2>2. ErrorMessage \in Messages /\ ErrorMessage.type = "error"
      BY DEF Messages, ErrorMessage
    <2> QED
      BY <1>4, <1>5, <1>6, <1>7, <2>1, <2>2
  <1>9. CASE (HandleSubscribe(c, S) \/ HandleUnsubscribe(c, S)) /\ c \notin clients
    <2>1. UNCHANGED <<symbols, out>>
      BY <1>9 DEF HandleSubscribe, HandleUnsubscribe
    <2>2. UNCHANGED wsVars
      BY <1>2, <2>1 DEF wsVars
    <2> QED
      BY <1>3, <2>2, ServiceInv
  <1>10. CASE HandleSubscribe(c, S) /\ c \in clients
    <2> DEFINE m == [type |-> "subscribed", symbols |-> S]
    <2>1. S \subseteq Symbols
      BY <1>10 DEF HandleSubscribe
    <2>2. m \in Messages /\ m.type = "subscribed" /\ m.symbols = S
      BY <2>1 DEF Messages, Acks
    <2>3. Send(c, m) /\ symbols' = [symbols EXCEPT ![c] = symbols[c] \cup S]
      BY <1>10 DEF HandleSubscribe
    <2> HIDE DEF m
    <2>4. /\ symbols' \in [Clients -> SUBSET Symbols]
          /\ \A d \in Clients : d # c => symbols'[d] = symbols[d]
          /\ symbols'[c] = symbols[c] \cup S
      BY <1>7, <2>1, <2>3
    <2> QED
      BY <1>4, <1>5, <1>6, <2>2, <2>3, <2>4
  <1>11. CASE HandleUnsubscribe(c, S) /\ c \in clients
    <2> DEFINE m == [type |-> "unsubscribed", symbols |-> S]
    <2>1. S \subseteq Symbols
      BY <1>11 DEF HandleUnsubscribe
    <2>2. m \in Messages /\ m.type = "unsubscribed" /\ m.symbols = S
      BY <2>1 DEF Messages, Acks
    <2>3. Send(c, m) /\ symbols' = [symbols EXCEPT ![c] = symbols[c] \ S]
      BY <1>11 DEF HandleUnsubscribe
    <2> HIDE DEF m
    <2>4. /\ symbols' \in [Clients -> SUBSET Symbols]
          /\ \A d \in Clients : d # c => symbols'[d] = symbols[d]
          /\ symbols'[c] = symbols[c] \ S
      BY <1>7, <2>1, <2>3
    <2> QED
      BY <1>4, <1>5, <1>6, <2>2, <2>3, <2>4
  <1> QED
    BY <1>8, <1>9, <1>10, <1>11

\* A message of Redis arrives and is sent to the open clients that subscribe it.
LEMMA EventInv ==
    ASSUME IInv, PipeMoves, EventArrives
    PROVE  WebSocketTypeOK' /\ HeartbeatInv' /\ \A d \in Clients : ClientInv(d)'
  <1>1. WebSocketTypeOK /\ HeartbeatInv /\ pipe \in Seq(MarketEvents)
    BY DEF IInv, TypeOK
  <1>2. /\ UNCHANGED <<service, clients, symbols, isAlive, readyState, silent, pinged,
                       connectedPeers, events>>
        /\ pipe # <<>> /\ pipe' = Tail(pipe)
    BY DEF EventArrives, MessageArrives, counters
  <1>3. HeartbeatInv'
    BY <1>1, <1>2 DEF HeartbeatInv, Open
  <1>4. \A d \in Clients :
            \/ out'[d] = out[d]
            \/ /\ Open(d) /\ Head(pipe).symbol \in symbols[d]
               /\ out'[d] = Append(out[d], Head(pipe))
    BY DEF EventArrives, BroadcastLocal
  <1>5. WebSocketTypeOK'
    <2>1. Head(pipe) \in Messages
      BY <1>1, <1>2 DEF Messages
    <2>2. \A d \in Clients : out[d] \in Seq(Messages)
      BY <1>1 DEF WebSocketTypeOK
    <2>3. \A d \in Clients : Append(out[d], Head(pipe)) \in Seq(Messages)
      BY <2>1, <2>2, Appended
    <2>4. out' \in [Clients -> Seq(Messages)]
      <3>1. CASE UNCHANGED out
        BY <1>1, <3>1 DEF WebSocketTypeOK
      <3>2. CASE BroadcastLocal(Head(pipe))
        BY <2>2, <2>3, <3>2 DEF BroadcastLocal
      <3> QED
        BY <3>1, <3>2 DEF EventArrives
    <2> QED
      BY <1>1, <1>2, <2>4 DEF WebSocketTypeOK
  <1>6. ASSUME NEW d \in Clients
        PROVE  ClientInv(d)'
    <2>1. CASE out'[d] = out[d]
      BY <1>2, <2>1, NothingSent
    <2>2. CASE Open(d) /\ Head(pipe).symbol \in symbols[d] /\ out'[d] = Append(out[d], Head(pipe))
      BY <1>2, <2>2, EventSent
    <2> QED
      BY <1>4, <2>1, <2>2
  <1> QED
    BY <1>3, <1>5, <1>6

\* Every step, seen from the WebSocket service.
LEMMA SocketInv ==
    ASSUME IInv, PipeMoves, SocketSteps
    PROVE  WebSocketTypeOK' /\ HeartbeatInv' /\ \A d \in Clients : ClientInv(d)'
  BY ConnectionInv, ServiceInv, MessageInv, EventInv DEF SocketSteps

-----------------------------------------------------------------------------
(* The process *)

\* startChartServer: subscribe, listen, or undo.
LEMMA StartInv ==
    ASSUME IInv,
           SubscribeEnds \/ Listens \/ ListenFails \/ StartFails \/ FailedStartExits
    PROVE  StageInv'
  <1>1. StageInv /\ stage \in Stages
    BY DEF IInv, TypeOK
  <1> USE DEF StageInv, Exited, Connections, Disconnect, redisVars, wsVars
  <1>2. CASE SubscribeEnds
    BY <1>1, <1>2 DEF SubscribeEnds
  <1>3. CASE Listens
    BY <1>1, <1>3 DEF Listens
  <1>4. CASE ListenFails
    BY <1>1, <1>4 DEF ListenFails
  <1>5. CASE StartFails
    BY <1>1, <1>5 DEF StartFails
  <1>6. CASE FailedStartExits
    BY <1>1, <1>6 DEF FailedStartExits
  <1> QED
    BY <1>2, <1>3, <1>4, <1>5, <1>6

\* shutdown: WebSockets, HTTP, Redis, the database client.
LEMMA ShutdownInv ==
    ASSUME IInv,
           \/ Shutdown \/ WebSocketsClosed \/ HttpClosed \/ RedisDisconnected
           \/ PrismaDisconnected \/ PrismaFails \/ ForceExit
    PROVE  StageInv'
  <1>1. StageInv /\ stage \in Stages
    BY DEF IInv, TypeOK
  <1> USE DEF StageInv, Exited, Connections, Disconnect, redisVars, wsVars
  <1>2. CASE Shutdown
    BY <1>1, <1>2 DEF Shutdown, CloseWebSocketServer
  <1>3. CASE WebSocketsClosed
    BY <1>1, <1>3 DEF WebSocketsClosed, WebSocketServerClosed
  <1>4. CASE HttpClosed
    BY <1>1, <1>4 DEF HttpClosed
  <1>5. CASE RedisDisconnected
    BY <1>1, <1>5 DEF RedisDisconnected
  <1>6. CASE PrismaDisconnected
    BY <1>1, <1>6 DEF PrismaDisconnected
  <1>7. CASE PrismaFails
    BY <1>1, <1>7 DEF PrismaFails
  <1>8. CASE ForceExit
    BY <1>1, <1>8 DEF ForceExit, ShuttingDown
  <1> QED
    BY <1>2, <1>3, <1>4, <1>5, <1>6, <1>7, <1>8

\* The steps of clients, requests, events and Redis, while the process waits.
Traffic ==
    \/ Delivery \/ RedisFails \/ Heartbeat
    \/ \E s \in Symbols : EventPublished(s)
    \/ \E q \in Requests : RequestStarts(q) \/ RequestDropped(q) \/ RequestEnds(q)
    \/ \E c \in Clients :
           \/ ClientConnects(c) \/ ClientPong(c) \/ ClientLeaves(c) \/ SocketClosed(c)
           \/ \E S \in (SUBSET (Symbols \cup {Invalid})) \ {{}} : ClientMessage(c, S)

\* Only a running server gets new connections, so what shutdown closed stays closed.
LEMMA ClientsInv ==
    ASSUME IInv, NEW c \in Clients,
           \/ ClientConnects(c) \/ ClientPong(c) \/ ClientLeaves(c) \/ SocketClosed(c) \/ Heartbeat
           \/ \E S \in (SUBSET (Symbols \cup {Invalid})) \ {{}} : ClientMessage(c, S)
    PROVE  StageInv'
  <1>1. /\ StageInv /\ stage \in Stages
        /\ readyState \in [Clients -> {"NONE", "OPEN", "CLOSING", "CLOSED"}]
    BY DEF IInv, TypeOK, WebSocketTypeOK
  <1>2. UNCHANGED <<redisVars, procVars, service>>
    BY DEF ClientConnects, ClientPong, ClientLeaves, SocketClosed, Heartbeat, ClientMessage,
           HandleConnection, HandlePong, PeerCloses, PeerVanishes, HandleClose, CheckConnections,
           HandleInvalid, HandleSubscribe, HandleUnsubscribe
  <1>3. stage # "running" => clients' \subseteq clients /\ Connections' \subseteq Connections
    <2>1. CASE ClientConnects(c)
      BY <1>1, <2>1 DEF ClientConnects, StageInv
    <2>2. CASE \/ ClientPong(c) \/ PeerVanishes(c)
               \/ \E S \in (SUBSET (Symbols \cup {Invalid})) \ {{}} : ClientMessage(c, S)
      BY <2>2 DEF ClientPong, ClientMessage, HandlePong, PeerVanishes, HandleInvalid,
             HandleSubscribe, HandleUnsubscribe, Connections
    <2>3. CASE PeerCloses(c)
      BY <1>1, <2>3 DEF PeerCloses, Open, Connections
    <2>4. CASE HandleClose(c)
      BY <1>1, <2>4 DEF HandleClose, Connections
    <2>5. CASE CheckConnections
      <3>1. \A d \in clients : readyState[d] \in {"OPEN", "CLOSING"}
        BY DEF IInv, TypeOK, WebSocketTypeOK
      <3> QED
        BY <1>1, <2>5, <3>1 DEF CheckConnections, Connections
    <2> QED
      BY <2>1, <2>2, <2>3, <2>4, <2>5 DEF ClientLeaves, SocketClosed, Heartbeat
  <1> QED
    BY <1>1, <1>2, <1>3 DEF StageInv, Exited, redisVars, procVars

\* While the process waits, the stage says what is open.
LEMMA TrafficInv ==
    ASSUME IInv, Traffic
    PROVE  StageInv'
  <1>1. StageInv /\ stage \in Stages
    BY DEF IInv, TypeOK
  <1>2. CASE \E q \in Requests : RequestStarts(q) \/ RequestDropped(q) \/ RequestEnds(q)
    <2>1. PICK q \in Requests : RequestStarts(q) \/ RequestDropped(q) \/ RequestEnds(q)
      BY <1>2
    <2>2. CASE RequestStarts(q)
      BY <1>1, <2>2 DEF RequestStarts, StageInv, Exited, Connections, wsVars, redisVars
    <2>3. CASE RequestDropped(q)
      BY <1>1, <2>3 DEF RequestDropped, StageInv, Exited, Connections, wsVars, redisVars
    <2>4. CASE RequestEnds(q)
      BY <1>1, <2>4 DEF RequestEnds, StageInv, Exited, Connections, wsVars, redisVars
    <2> QED
      BY <2>1, <2>2, <2>3, <2>4
  <1>3. CASE EventArrives \/ \E s \in Symbols : EventPublished(s)
    <2>1. UNCHANGED <<procVars, service, clients, readyState, link, available, channel,
                      subscribing, unsubscribing>>
      BY <1>3 DEF EventArrives, EventPublished, Publish, MessageArrives, wsVars
    <2> QED
      BY <1>1, <2>1 DEF StageInv, Exited, Connections, procVars
  <1>4. CASE RedisAnswers \/ RedisFails
    <2>1. UNCHANGED <<wsVars, procVars>> /\ UNCHANGED <<stage, clients, readyState>>
      BY <1>4 DEF RedisAnswers, RedisFails, wsVars, procVars
    <2>2. Connections' = Connections
      BY <2>1 DEF Connections
    <2> USE DEF StageInv, Exited, wsVars, procVars
    <2>3. CASE LinkReady
      BY <1>1, <2>1, <2>2, <2>3 DEF LinkReady
    <2>4. CASE Subscribed
      BY <1>1, <2>1, <2>2, <2>4 DEF Subscribed
    <2>5. CASE ListenerAttached
      BY <1>1, <2>1, <2>2, <2>5 DEF ListenerAttached
    <2>6. CASE Unsubscribed
      BY <1>1, <2>1, <2>2, <2>6 DEF Unsubscribed
    <2>7. CASE UnsubscribeRejects
      BY <1>1, <2>1, <2>2, <2>7 DEF UnsubscribeRejects
    <2>8. CASE LinkLost
      BY <1>1, <2>1, <2>2, <2>8 DEF LinkLost
    <2>9. CASE SubscribeRejects
      BY <1>1, <2>1, <2>2, <2>9 DEF SubscribeRejects
    <2> QED
      BY <1>4, <2>3, <2>4, <2>5, <2>6, <2>7, <2>8, <2>9 DEF RedisAnswers, RedisFails
  <1>5. CASE Heartbeat
    <2>1. \E c \in Clients : TRUE
      BY <1>5 DEF Heartbeat, CheckConnections, IInv, TypeOK, WebSocketTypeOK
    <2> QED
      BY <1>5, <2>1, ClientsInv
  <1>6. CASE \E c \in Clients :
                 \/ ClientConnects(c) \/ ClientPong(c) \/ ClientLeaves(c) \/ SocketClosed(c)
                 \/ \E S \in (SUBSET (Symbols \cup {Invalid})) \ {{}} : ClientMessage(c, S)
    BY <1>6, ClientsInv
  <1> QED
    BY <1>2, <1>3, <1>4, <1>5, <1>6 DEF Traffic, Delivery

\* The counters, and the variables of the process, keep their types.
LEMMA ProcessTypes ==
    ASSUME IInv, Next
    PROVE  /\ stage' \in Stages
           /\ listening' \in BOOLEAN /\ prisma' \in BOOLEAN
           /\ requests' \subseteq Requests /\ dropped' \subseteq requests'
           /\ events' \in 0..MaxEvents /\ inputs' \in 0..MaxInputs
  <1>1. /\ stage \in Stages
        /\ listening \in BOOLEAN /\ prisma \in BOOLEAN
        /\ requests \subseteq Requests /\ dropped \subseteq requests
        /\ events \in 0..MaxEvents /\ inputs \in 0..MaxInputs
    BY DEF IInv, TypeOK
  <1>2. CASE Process \/ ListenFails \/ Shutdown \/ PrismaFails \/ ForceExit
    <2>1. stage' \in Stages
      BY <1>2 DEF Process, SubscribeEnds, Listens, StartFails, FailedStartExits, WebSocketsClosed,
             HttpClosed, RedisDisconnected, PrismaDisconnected, ListenFails, Shutdown, PrismaFails,
             ForceExit, Stages
    <2>2. /\ listening' \in {listening, TRUE, FALSE} /\ prisma' \in {prisma, FALSE}
          /\ requests' = requests /\ dropped' = dropped /\ events' = events
          /\ inputs' = inputs \/ Input
      BY <1>2 DEF Process, SubscribeEnds, Listens, StartFails, FailedStartExits, WebSocketsClosed,
             HttpClosed, RedisDisconnected, PrismaDisconnected, ListenFails, Shutdown, PrismaFails,
             ForceExit, counters
    <2>3. inputs' \in 0..MaxInputs
      BY <1>1, <2>2, ServerAssumption DEF Input
    <2> QED
      BY <1>1, <2>1, <2>2, <2>3
  <1>3. CASE Traffic
    <2>1. /\ UNCHANGED <<stage, listening, prisma>>
          /\ \/ requests' = requests /\ dropped' = dropped
             \/ \E q \in Requests : RequestStarts(q) \/ RequestDropped(q) \/ RequestEnds(q)
          /\ events' = events \/ (events < MaxEvents /\ events' = events + 1)
          /\ inputs' = inputs \/ Input
      BY <1>3, Zenon DEF Traffic, Delivery, RedisAnswers, EventArrives, RedisFails, Heartbeat,
             EventPublished, RequestStarts, RequestDropped, RequestEnds, ClientConnects,
             ClientPong, ClientLeaves, SocketClosed, ClientMessage, procVars, counters
    <2>2. requests' \subseteq Requests /\ dropped' \subseteq requests'
      BY <1>1, <2>1 DEF RequestStarts, RequestDropped, RequestEnds
    <2>3. events' \in 0..MaxEvents /\ inputs' \in 0..MaxInputs
      BY <1>1, <2>1, ServerAssumption DEF Input
    <2> QED
      BY <1>1, <2>1, <2>2, <2>3
  <1> QED
    BY <1>2, <1>3 DEF Next, Traffic

-----------------------------------------------------------------------------
(* The theorems *)

\* The initial states satisfy the invariant.
LEMMA InitIInv ==
    ASSUME Init
    PROVE  IInv
  <1> USE DEF Init, WebSocketInit, RedisInit
  <1>1. TypeOK
    <2>1. out \in [Clients -> Seq(Messages)] /\ pipe \in Seq(MarketEvents)
      OBVIOUS
    <2>2. WebSocketTypeOK
      BY <2>1 DEF WebSocketTypeOK
    <2>3. RedisTypeOK
      BY DEF RedisTypeOK
    <2>4. /\ stage \in Stages /\ listening \in BOOLEAN /\ prisma \in BOOLEAN
          /\ requests \subseteq Requests /\ dropped \subseteq requests
      BY DEF Stages
    <2>5. events \in 0..MaxEvents /\ inputs \in 0..MaxInputs
      BY ServerAssumption
    <2> QED
      BY <2>1, <2>2, <2>3, <2>4, <2>5 DEF TypeOK
  <1>2. PipeInv /\ HeartbeatInv /\ StageInv
    BY DEF PipeInv, HeartbeatInv, StageInv, Exited, Open, Connections
  <1>3. \A c \in Clients : ClientInv(c)
    <2> TAKE c \in Clients
    <2>1. out[c] = <<>> /\ DOMAIN out[c] = {} /\ symbols[c] = {}
      OBVIOUS
    <2> QED
      BY <2>1 DEF ClientInv, Ordered
  <1> QED
    BY <1>1, <1>2, <1>3 DEF IInv

\* Every step keeps the invariant.
LEMMA NextIInv ==
    ASSUME IInv, [Next]_vars
    PROVE  IInv'
  <1>1. RedisTypeOK' /\ pipe' \in Seq(MarketEvents) /\ PipeMoves /\ PipeInv'
    BY NextRedis, RedisInv
  <1>2. WebSocketTypeOK' /\ HeartbeatInv' /\ \A d \in Clients : ClientInv(d)'
    BY <1>1, NextSockets, SocketInv
  <1>3. CASE Next
    <2>1. StageInv'
      BY <1>3, StartInv, ShutdownInv, TrafficInv DEF Next, Process, Traffic
    <2>2. TypeOK'
      BY <1>1, <1>2, <1>3, ProcessTypes DEF TypeOK
    <2> QED
      BY <1>1, <1>2, <2>1, <2>2 DEF IInv
  <1>4. CASE UNCHANGED vars
    <2>1. UNCHANGED <<wsVars, redisVars, procVars, counters>>
      BY <1>4 DEF vars
    <2>2. StageInv'
      BY <2>1 DEF IInv, StageInv, Exited, Connections, wsVars, redisVars, procVars
    <2>3. TypeOK'
      BY <1>1, <1>2, <2>1 DEF IInv, TypeOK, procVars, counters
    <2> QED
      BY <1>1, <1>2, <2>2, <2>3 DEF IInv
  <1> QED
    BY <1>3, <1>4

\* The inductive invariant holds in every reachable state.
THEOREM Invariance == Spec => []IInv
  BY InitIInv, NextIInv, PTL DEF Spec

\* The variables of server.ts, the WebSocket service and the Redis subscriber keep
\* their types: a client in the map has a connection, and messages are on their way
\* only over a subscribed connection.
THEOREM TypeCorrect == Spec => []TypeOK
  <1>1. IInv => TypeOK
    BY DEF IInv
  <1> QED
    BY <1>1, Invariance, PTL

\* broadcastLocal sends a client an event only between the acknowledgements of
\* handleSubscribe and handleUnsubscribe, never twice and never out of order, for any
\* number of clients, messages, events and Redis reconnects.
THEOREM StreamsMatchAcks == Spec => []StreamMatchesAcks
  <1>1. IInv => StreamMatchesAcks
    BY DEF IInv, ClientInv, Ordered, Acked, StreamMatchesAcks, SubscribedAt
  <1> QED
    BY <1>1, Invariance, PTL

\* shutdown and the failed start disconnect the database client only when no request
\* whose client still waits is in flight, and exit code 0 means that no connection and
\* no subscription is left open.
THEOREM ShutsDownCleanly == Spec => []CleanShutdown
  <1>1. IInv => CleanShutdown
    BY DEF IInv, StageInv, CleanShutdown
  <1> QED
    BY <1>1, Invariance, PTL

\* checkConnections takes an open connection out of the map only when its client left a
\* ping unanswered.
THEOREM EvictionIsDeserved == Spec => EvictsOnlySilent
  <1> DEFINE Deserved == \A c \in Clients : c \in clients \ clients' /\ Open(c) => c \in pinged
  <1>1. ASSUME IInv, [Next]_vars
        PROVE  [Deserved]_vars
    <2>1. HeartbeatInv /\ WebSocketTypeOK
      BY <1>1 DEF IInv, TypeOK
    <2>2. SocketSteps
      BY <1>1, NextSockets
    <2>3. CASE CheckConnections
      BY <2>1, <2>3 DEF CheckConnections, HeartbeatInv, WebSocketTypeOK
    <2>4. CASE WebSocketServerClosed
      BY <2>1, <2>4 DEF WebSocketServerClosed, HeartbeatInv
    <2>5. CASE \E c \in Clients : HandleClose(c)
      BY <2>1, <2>5 DEF HandleClose, Open
    <2>6. CASE clients \subseteq clients'
      BY <2>6
    <2> QED
      BY <2>2, <2>3, <2>4, <2>5, <2>6 DEF SocketSteps, CloseWebSocketServer, EventArrives,
             HandleConnection, HandlePong, PeerCloses, PeerVanishes, HandleInvalid,
             HandleSubscribe, HandleUnsubscribe, wsVars
  <1> QED
    BY <1>1, Invariance, PTL DEF Spec, EvictsOnlySilent

=============================================================================
