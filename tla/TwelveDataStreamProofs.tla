----------------------- MODULE TwelveDataStreamProofs -----------------------
(***************************************************************************)
(* Proofs about the TwelveData stream, for every set of symbols, number of *)
(* ticks and number of lost connections.                                   *)
(***************************************************************************)
EXTENDS TwelveDataStream, TLAPS, SequenceTheorems

-----------------------------------------------------------------------------
(* The inductive invariant *)

\* A handler publishes, or ends, only after Kafka's answer.
AnsweredOk ==
    \A i \in 1..received : /\ phase[i] = "publishing" => kafka[i] = "acked"
                           /\ phase[i] = "settled" => kafka[i] # "inflight"

\* The tail of a symbol is its latest tick; without a tail all its ticks settled.
TailOk ==
    \A i \in 1..received : IF tail[symbol[i]] = 0 THEN phase[i] = "settled"
                                                  ELSE i <= tail[symbol[i]]

\* A tick waits for an earlier one of its symbol.
LinkOk ==
    \A j \in 1..received : previous[j] # 0 =>
        previous[j] < j /\ symbol[previous[j]] = symbol[j]

\* A tick waits for the latest one before it; without one to wait for, all the
\* earlier ticks of its symbol settled.
ChainOk ==
    \A i, j \in 1..received : i < j /\ symbol[i] = symbol[j] =>
        IF previous[j] = 0 THEN phase[i] = "settled" ELSE i <= previous[j]

\* The phase of a tick starts when all the earlier ones of its symbol settled.
OrderOk ==
    \A i, j \in 1..received : i < j /\ symbol[i] = symbol[j] /\ phase[j] # "queued" =>
        phase[i] = "settled"

\* What Redis took is settled.
RedisSettled == \A n \in DOMAIN redis : phase[redis[n]] = "settled"

\* The runtime stops a stream only once.
StoppedOk == running => shutdown = "no"

Handlers == /\ AnsweredOk /\ TailOk /\ LinkOk /\ ChainOk /\ OrderOk /\ RedisSettled
            /\ RedisOnlyAfterKafka /\ RedisKeepsSymbolOrder

Connection == StoppedOk /\ ConnectedOrRetrying

IInv == TypeOK /\ Handlers /\ Connection /\ NoSendAcrossDisconnect

-----------------------------------------------------------------------------
(* Lemmas *)

\* The values a send and a handler take, as TypeOK has them.
SendStates == {"inflight", "acked", "failed"}
Phases == {"queued", "admission", "publishing", "settled"}

\* One more tick: the tables of the handlers grow at their end.
LEMMA AppendFun ==
    ASSUME NEW n \in Nat, NEW S, NEW f \in [1..n -> S], NEW x \in S
    PROVE  /\ Append(f, x) \in [1..(n + 1) -> S]
           /\ \A i \in 1..n : Append(f, x)[i] = f[i]
           /\ Append(f, x)[n + 1] = x
<1>1. f \in Seq(S) /\ Len(f) = n
  <2>1. f \in Seq(S)
    BY SeqDef
  <2>2. DOMAIN f = 1..n /\ DOMAIN f = 1..Len(f) /\ Len(f) \in Nat
    BY <2>1
  <2>3. Len(f) = n
    BY <2>2
  <2> QED BY <2>1, <2>3
<1>2. /\ Append(f, x) \in Seq(S) /\ Len(Append(f, x)) = n + 1
      /\ \A i \in 1..n : Append(f, x)[i] = f[i]
      /\ Append(f, x)[n + 1] = x
  BY <1>1, AppendProperties
<1>3. Append(f, x) \in [1..Len(Append(f, x)) -> S]
  BY <1>2, LenProperties
<1> QED BY <1>2, <1>3

\* No tick arrived yet.
LEMMA InitIInv == Init => IInv
<1> SUFFICES ASSUME Init PROVE IInv
  OBVIOUS
<1>1. 1..received = {} /\ received = 0
  BY DEF Init
<1>2. \A S : <<>> \in [1..received -> S]
  BY <1>1
<1>3. redis \in Seq(1..received) /\ DOMAIN redis = {}
  BY DEF Init
<1>4. tail \in [Symbols -> 0..received] /\ \A s \in Symbols : tail[s] = 0
  BY DEF Init
<1>5. received \in 0..MaxTicks /\ drops \in 0..MaxDrops
  BY StreamAssumption DEF Init
<1>6. TypeOK
  BY <1>2, <1>3, <1>4, <1>5 DEF Init, TypeOK, Shutdowns
<1>7. Handlers
  BY <1>1, <1>3 DEF Handlers, AnsweredOk, TailOk, LinkOk, ChainOk, OrderOk, RedisSettled,
                    RedisOnlyAfterKafka, RedisKeepsSymbolOrder
<1>8. Connection /\ NoSendAcrossDisconnect
  BY DEF Init, Connection, StoppedOk, ConnectedOrRetrying, NoSendAcrossDisconnect
<1> QED BY <1>6, <1>7, <1>8 DEF IInv

\* A step of the connection or of the stop leaves the handlers alone.
LEMMA HandlersUnchanged ==
    ASSUME IInv, UNCHANGED handlers
    PROVE  /\ Handlers'
           /\ \A i \in 1..received : phase'[i] = phase[i] /\ kafka'[i] = kafka[i]
BY DEF IInv, handlers, Handlers, AnsweredOk, TailOk, LinkOk, ChainOk, OrderOk, RedisSettled,
       RedisOnlyAfterKafka, RedisKeepsSymbolOrder

\* The connection: sockets, timers, start and stop.
LEMMA ConnectionIInv ==
    ASSUME IInv,
           \/ Start \/ Timers \/ Open \/ Disconnect \/ FeedStalls \/ OtherMessage \/ Stop
           \/ StopWhileConnecting \/ UNCHANGED vars
    PROVE  IInv'
<1>1. UNCHANGED handlers
  BY DEF Start, Timers, TerminatedCloses, ReconnectFires, HeartbeatFires, Open, Disconnect,
         CloseEvent, FeedStalls, OtherMessage, Stop, StopWhileConnecting, vars
<1>2. Handlers'
  BY <1>1, HandlersUnchanged
<1>3. drops' \in 0..MaxDrops
  BY StreamAssumption
     DEF IInv, TypeOK, Start, Timers, TerminatedCloses, ReconnectFires, HeartbeatFires, Open,
         Disconnect, CloseEvent, FeedStalls, OtherMessage, Stop, StopWhileConnecting, vars
<1>4. /\ running' \in BOOLEAN /\ ws' \in {"none", "connecting", "open", "terminated"}
      /\ reconnectTimer' \in BOOLEAN /\ heartbeat' \in BOOLEAN /\ quiet' \in BOOLEAN
      /\ shutdown' \in Shutdowns
  BY Zenon
     DEF IInv, TypeOK, Start, Connect, Timers, TerminatedCloses, ReconnectFires, HeartbeatFires,
         Open, Disconnect, CloseEvent, FeedStalls, OtherMessage, Stop, StopWhileConnecting,
         vars, connection, Shutdowns
<1>5. TypeOK'
  BY <1>1, <1>3, <1>4 DEF IInv, TypeOK, handlers
<1>6. Connection'
  <2> USE DEF IInv, Connection, StoppedOk, ConnectedOrRetrying, TypeOK
  <2>1. CASE Start \/ ReconnectFires
    BY <2>1 DEF Start, ReconnectFires, Connect
  <2>2. CASE TerminatedCloses \/ Disconnect
    BY <2>2 DEF TerminatedCloses, Disconnect, CloseEvent
  <2>3. CASE HeartbeatFires
    BY <2>3 DEF HeartbeatFires
  <2>4. CASE Open \/ FeedStalls \/ OtherMessage
    BY <2>4 DEF Open, FeedStalls, OtherMessage
  <2>5. CASE Stop \/ StopWhileConnecting
    BY <2>5 DEF Stop, StopWhileConnecting
  <2>6. CASE UNCHANGED vars
    BY <2>6 DEF vars, connection
  <2> QED BY <2>1, <2>2, <2>3, <2>4, <2>5, <2>6 DEF Timers
<1>7. NoSendAcrossDisconnect'
  <2>1. shutdown' \in {"producer", "redis", "done"} => shutdown' = shutdown
    BY DEF Start, Timers, TerminatedCloses, ReconnectFires, HeartbeatFires, Open, Disconnect,
           CloseEvent, FeedStalls, OtherMessage, Stop, StopWhileConnecting, vars
  <2> QED BY <1>1, <2>1 DEF IInv, NoSendAcrossDisconnect, handlers
<1> QED BY <1>2, <1>5, <1>6, <1>7 DEF IInv

\* The runtime's stop sequence.
LEMMA StopSequenceIInv == ASSUME IInv, StopSequence PROVE IInv'
<1> USE DEF StopSequence, UnhandledError, Drained, ProducerStopped, RedisDisconnected
<1>1. UNCHANGED <<running, connection, handlers, drops>>
  OBVIOUS
<1>2. Handlers'
  BY <1>1, HandlersUnchanged
<1>3. shutdown' \in {"crashed", "producer", "redis", "done"} /\ shutdown # "no"
  OBVIOUS
<1>4. TypeOK'
  BY <1>1, <1>3 DEF IInv, TypeOK, handlers, connection, Shutdowns
<1>5. Connection'
  BY <1>1, <1>3 DEF IInv, Connection, StoppedOk, ConnectedOrRetrying, connection
<1>6. NoSendAcrossDisconnect'
  BY <1>1 DEF IInv, Handlers, AnsweredOk, NoSendAcrossDisconnect, handlers
<1> QED BY <1>2, <1>4, <1>5, <1>6 DEF IInv

\* A tick arrives, behind every earlier one of its symbol.
LEMMA ReceiveIInv == ASSUME IInv, NEW s \in Symbols, Receive(s) PROVE IInv'
<1> DEFINE n == received
<1>0. n \in Nat
  BY DEF IInv, TypeOK
<1>1. /\ n \in Nat /\ n < MaxTicks /\ received' = n + 1 /\ running /\ shutdown = "no"
      /\ symbol \in [1..n -> Symbols] /\ tail \in [Symbols -> 0..n]
      /\ kafka \in [1..n -> {"inflight", "acked", "failed"}]
      /\ phase \in [1..n -> {"queued", "admission", "publishing", "settled"}]
      /\ previous \in [1..n -> 0..n]
      /\ redis \in Seq(1..n) /\ redis' = redis /\ MaxTicks \in Nat
  BY StreamAssumption, SMTT(30) DEF Receive, IInv, TypeOK, Connection, StoppedOk
<1>2. /\ symbol' \in [1..(n + 1) -> Symbols] /\ symbol'[n + 1] = s
      /\ \A i \in 1..n : symbol'[i] = symbol[i]
  <2>1. symbol' = Append(symbol, s) /\ symbol \in [1..n -> Symbols]
    BY <1>1 DEF Receive
  <2>2. /\ Append(symbol, s) \in [1..(n + 1) -> Symbols] /\ Append(symbol, s)[n + 1] = s
        /\ \A i \in 1..n : Append(symbol, s)[i] = symbol[i]
    <3> HIDE DEF n
    <3> QED BY <1>0, <2>1, AppendFun, SMTT(60)
  <2> QED BY <2>1, <2>2
<1>3. /\ kafka' \in [1..(n + 1) -> SendStates]
      /\ kafka'[n + 1] = "inflight" /\ \A i \in 1..n : kafka'[i] = kafka[i]
  <2> DEFINE e == "inflight"
  <2>1. kafka' = Append(kafka, e) /\ e \in SendStates /\ kafka \in [1..n -> SendStates]
    BY <1>1 DEF Receive, SendStates
  <2> HIDE DEF e
  <2>2. /\ Append(kafka, e) \in [1..(n + 1) -> SendStates] /\ Append(kafka, e)[n + 1] = e
        /\ \A i \in 1..n : Append(kafka, e)[i] = kafka[i]
    <3> HIDE DEF n
    <3> QED BY <1>0, <2>1, AppendFun, SMTT(60)
  <2> QED BY <2>1, <2>2 DEF e
<1>4. /\ phase' \in [1..(n + 1) -> Phases]
      /\ phase'[n + 1] = "queued" /\ \A i \in 1..n : phase'[i] = phase[i]
  <2> DEFINE e == "queued"
  <2>1. phase' = Append(phase, e) /\ e \in Phases /\ phase \in [1..n -> Phases]
    BY <1>1 DEF Receive, Phases
  <2> HIDE DEF e
  <2>2. /\ Append(phase, e) \in [1..(n + 1) -> Phases] /\ Append(phase, e)[n + 1] = e
        /\ \A i \in 1..n : Append(phase, e)[i] = phase[i]
    <3> HIDE DEF n
    <3> QED BY <1>0, <2>1, AppendFun, SMTT(60)
  <2> QED BY <2>1, <2>2 DEF e
<1>5. /\ previous' \in [1..(n + 1) -> 0..(n + 1)]
      /\ previous'[n + 1] = tail[s] /\ \A i \in 1..n : previous'[i] = previous[i]
  <2> DEFINE S == 0..(n + 1)
  <2>1. previous \in [1..n -> S] /\ tail[s] \in S /\ previous' = Append(previous, tail[s])
    BY <1>1 DEF Receive
  <2> HIDE DEF S
  <2>2. /\ Append(previous, tail[s]) \in [1..(n + 1) -> S]
        /\ Append(previous, tail[s])[n + 1] = tail[s]
        /\ \A i \in 1..n : Append(previous, tail[s])[i] = previous[i]
    <3> HIDE DEF n
    <3> QED BY <1>0, <2>1, AppendFun, SMTT(60)
  <2> QED BY <2>1, <2>2 DEF S
<1>6. /\ tail' \in [Symbols -> 0..(n + 1)] /\ tail'[s] = n + 1
      /\ \A x \in Symbols : x # s => tail'[x] = tail[x]
  BY <1>1 DEF Receive
<1>7. \A i \in 1..(n + 1) : i \in 1..n \/ i = n + 1
  BY <1>1
<1>8. \A x \in Symbols : tail[x] # 0 => /\ tail[x] \in 1..n /\ symbol[tail[x]] = x
                                        /\ phase[tail[x]] # "settled"
  BY <1>1 DEF IInv, TypeOK
<1>9. \A k \in DOMAIN redis : redis[k] \in 1..n
  BY <1>1
<1>10. TypeOK'
  <2>1. \A x \in Symbols : tail'[x] # 0 => symbol'[tail'[x]] = x /\ phase'[tail'[x]] # "settled"
    BY <1>2, <1>4, <1>6, <1>8
  <2>2. redis' \in Seq(1..(n + 1)) /\ received' \in 0..MaxTicks
    BY <1>1
  <2> QED BY <1>1, <1>2, <1>3, <1>4, <1>5, <1>6, <2>1, <2>2
             DEF Receive, IInv, TypeOK, SendStates, Phases
<1>11. AnsweredOk'
  BY <1>1, <1>3, <1>4, <1>7 DEF IInv, Handlers, AnsweredOk
<1>12. TailOk'
  <2> SUFFICES ASSUME NEW i \in 1..(n + 1)
               PROVE  IF tail'[symbol'[i]] = 0 THEN phase'[i] = "settled"
                                               ELSE i <= tail'[symbol'[i]]
    BY <1>1 DEF TailOk
  <2>1. CASE symbol'[i] = s
    BY <1>1, <1>6, <2>1
  <2>2. CASE symbol'[i] # s
    BY <1>1, <1>2, <1>4, <1>6, <1>7, <2>2 DEF IInv, Handlers, TailOk
  <2> QED BY <2>1, <2>2
<1>13. LinkOk'
  <2> SUFFICES ASSUME NEW j \in 1..(n + 1), previous'[j] # 0
               PROVE  previous'[j] < j /\ symbol'[previous'[j]] = symbol'[j]
    BY <1>1 DEF LinkOk
  <2>1. CASE j \in 1..n
    <3>1. previous[j] < j /\ symbol[previous[j]] = symbol[j] /\ previous[j] \in 1..n
      BY <1>1, <1>5, <2>1 DEF IInv, Handlers, LinkOk
    <3> QED BY <1>2, <1>5, <2>1, <3>1
  <2>2. CASE j = n + 1
    BY <1>1, <1>2, <1>5, <1>8, <2>2
  <2> QED BY <1>7, <2>1, <2>2
<1>14. ChainOk'
  <2> SUFFICES ASSUME NEW i \in 1..(n + 1), NEW j \in 1..(n + 1), i < j, symbol'[i] = symbol'[j]
               PROVE  IF previous'[j] = 0 THEN phase'[i] = "settled" ELSE i <= previous'[j]
    BY <1>1 DEF ChainOk
  <2>1. i \in 1..n
    BY <1>1
  <2>2. CASE j \in 1..n
    BY <1>1, <1>2, <1>4, <1>5, <2>1, <2>2 DEF IInv, Handlers, ChainOk
  <2>3. CASE j = n + 1
    BY <1>1, <1>2, <1>4, <1>5, <2>1, <2>3 DEF IInv, Handlers, TailOk
  <2> QED BY <1>7, <2>2, <2>3
<1>15. OrderOk'
  BY <1>1, <1>2, <1>4, <1>7 DEF IInv, Handlers, OrderOk
<1>16. RedisSettled' /\ RedisOnlyAfterKafka' /\ RedisKeepsSymbolOrder'
  <2>1. redis' = redis /\ \A k \in DOMAIN redis : /\ symbol'[redis[k]] = symbol[redis[k]]
                                                 /\ kafka'[redis[k]] = kafka[redis[k]]
                                                 /\ phase'[redis[k]] = phase[redis[k]]
    BY <1>1, <1>2, <1>3, <1>4, <1>9
  <2>2. RedisSettled' /\ RedisOnlyAfterKafka'
    BY <2>1 DEF IInv, Handlers, RedisSettled, RedisOnlyAfterKafka
  <2>3. RedisKeepsSymbolOrder'
    <3> SUFFICES ASSUME NEW k \in DOMAIN redis, NEW m \in DOMAIN redis, k < m,
                        symbol'[redis[k]] = symbol'[redis[m]]
                 PROVE  redis[k] < redis[m]
      BY <2>1 DEF RedisKeepsSymbolOrder
    <3>1. symbol[redis[k]] = symbol[redis[m]]
      BY <2>1
    <3> QED BY <3>1 DEF IInv, Handlers, RedisKeepsSymbolOrder
  <2> QED BY <2>2, <2>3
<1>17. Connection' /\ NoSendAcrossDisconnect'
  BY <1>1 DEF Receive, IInv, Connection, StoppedOk, ConnectedOrRetrying, NoSendAcrossDisconnect
<1> QED BY <1>10, <1>11, <1>12, <1>13, <1>14, <1>15, <1>16, <1>17 DEF IInv, Handlers

\* Kafka answers; a handler that ended had its answer.
LEMMA KafkaIInv ==
    ASSUME IInv, NEW i \in 1..received, NEW answer \in {"acked", "failed"},
           KafkaAnswers(i, answer)
    PROVE  IInv'
<1>1. /\ UNCHANGED <<running, connection, received, symbol, phase, previous, tail, redis,
                     shutdown, drops>>
      /\ kafka[i] = "inflight" /\ kafka' = [kafka EXCEPT ![i] = answer]
  BY DEF KafkaAnswers
<1>2. /\ kafka' \in [1..received -> {"inflight", "acked", "failed"}]
      /\ kafka'[i] # "inflight"
      /\ \A j \in 1..received : j # i => kafka'[j] = kafka[j]
  BY <1>1 DEF IInv, TypeOK
<1>3. TypeOK'
  BY <1>1, <1>2 DEF IInv, TypeOK, connection
<1>4. AnsweredOk' /\ RedisOnlyAfterKafka'
  <2>1. \A k \in DOMAIN redis : redis[k] \in 1..received
    BY DEF IInv, TypeOK
  <2> QED BY <1>1, <1>2, <2>1 DEF IInv, Handlers, AnsweredOk, RedisOnlyAfterKafka
<1>5. TailOk' /\ LinkOk' /\ ChainOk' /\ OrderOk' /\ RedisSettled' /\ RedisKeepsSymbolOrder'
  BY <1>1 DEF IInv, Handlers, TailOk, LinkOk, ChainOk, OrderOk, RedisSettled,
              RedisKeepsSymbolOrder
<1>6. Connection' /\ NoSendAcrossDisconnect'
  BY <1>1, <1>2 DEF IInv, Connection, StoppedOk, ConnectedOrRetrying, NoSendAcrossDisconnect,
                    connection
<1> QED BY <1>3, <1>4, <1>5, <1>6 DEF IInv, Handlers

\* A phase starts, or Kafka's answer lets it publish.
LEMMA PhaseIInv ==
    ASSUME IInv, NEW i \in 1..received, RealtimePhaseStarts(i) \/ Admitted(i)
    PROVE  IInv'
<1>1. /\ UNCHANGED <<running, connection, received, symbol, kafka, previous, tail, redis,
                     shutdown, drops>>
      /\ phase[i] \in {"queued", "admission"}
      /\ \/ phase' = [phase EXCEPT ![i] = "admission"]
         \/ phase' = [phase EXCEPT ![i] = "publishing"] /\ kafka[i] = "acked"
  BY DEF RealtimePhaseStarts, Admitted
<1>2. /\ phase \in [1..received -> {"queued", "admission", "publishing", "settled"}]
      /\ phase' \in [1..received -> {"queued", "admission", "publishing", "settled"}]
      /\ phase'[i] \in {"admission", "publishing"}
      /\ phase'[i] = "publishing" => kafka[i] = "acked"
      /\ \A j \in 1..received : j # i => phase'[j] = phase[j]
  BY <1>1 DEF IInv, TypeOK
<1>3. \A j \in 1..received : phase'[j] = "settled" <=> phase[j] = "settled"
  BY <1>1, <1>2
<1>4. TypeOK'
  <2>1. \A s \in Symbols : tail[s] # 0 => tail[s] \in 1..received
    BY DEF IInv, TypeOK
  <2>2. \A s \in Symbols : tail[s] # 0 => symbol[tail[s]] = s /\ phase'[tail[s]] # "settled"
    BY <1>3, <2>1 DEF IInv, TypeOK
  <2> QED BY <1>1, <1>2, <2>2 DEF IInv, TypeOK, connection
<1>5. AnsweredOk' /\ TailOk' /\ LinkOk' /\ ChainOk'
  BY <1>1, <1>2, <1>3 DEF IInv, Handlers, AnsweredOk, TailOk, LinkOk, ChainOk
<1>6. OrderOk'
  <2> SUFFICES ASSUME NEW a \in 1..received, a < i, symbol[a] = symbol[i]
               PROVE  phase[a] = "settled"
    BY <1>1, <1>2, <1>3 DEF OrderOk, IInv, Handlers
  <2>1. CASE phase[i] # "queued"
    BY <2>1 DEF IInv, Handlers, OrderOk
  <2>2. CASE phase[i] = "queued" /\ previous[i] = 0
    BY <2>2 DEF IInv, Handlers, ChainOk
  <2>3. CASE phase[i] = "queued" /\ previous[i] # 0
    <3>1. phase[previous[i]] = "settled"
      BY <2>3 DEF RealtimePhaseStarts, Admitted
    <3>2. /\ previous[i] \in 1..received /\ symbol[previous[i]] = symbol[i]
          /\ a <= previous[i]
      BY <2>3 DEF IInv, TypeOK, Handlers, LinkOk, ChainOk
    <3>3. CASE a = previous[i]
      BY <3>1, <3>3
    <3>4. CASE a < previous[i]
      BY <3>1, <3>2, <3>4 DEF IInv, Handlers, OrderOk
    <3> QED BY <3>2, <3>3, <3>4
  <2> QED BY <2>1, <2>2, <2>3
<1>7. RedisSettled' /\ RedisOnlyAfterKafka' /\ RedisKeepsSymbolOrder'
  <2>1. \A k \in DOMAIN redis : redis[k] \in 1..received
    BY DEF IInv, TypeOK
  <2> QED
    BY <1>1, <1>3, <2>1 DEF IInv, Handlers, RedisSettled, RedisOnlyAfterKafka,
                            RedisKeepsSymbolOrder
<1>8. Connection' /\ NoSendAcrossDisconnect'
  BY <1>1, <1>3 DEF IInv, Connection, StoppedOk, ConnectedOrRetrying, NoSendAcrossDisconnect,
                    connection
<1> QED BY <1>4, <1>5, <1>6, <1>7, <1>8 DEF IInv, Handlers

\* A handler ends: refused by Kafka, or past Redis.
LEMMA SettleIInv ==
    ASSUME IInv, NEW i \in 1..received, Refused(i) \/ RedisAnswers(i)
    PROVE  IInv'
<1>1. /\ UNCHANGED <<running, connection, received, symbol, kafka, previous, shutdown, drops>>
      /\ phase[i] \in {"admission", "publishing"} /\ kafka[i] # "inflight"
      /\ phase' = [phase EXCEPT ![i] = "settled"]
      /\ tail' = [tail EXCEPT ![symbol[i]] = IF @ = i THEN 0 ELSE @]
      /\ redis' = redis \/ (redis' = Append(redis, i) /\ kafka[i] = "acked")
  BY DEF Refused, RedisAnswers, Settle, IInv, Handlers, AnsweredOk
<1>2. /\ received \in Nat /\ symbol \in [1..received -> Symbols]
      /\ tail \in [Symbols -> 0..received]
      /\ phase \in [1..received -> {"queued", "admission", "publishing", "settled"}]
      /\ redis \in Seq(1..received) /\ \A k \in DOMAIN redis : redis[k] \in 1..received
      /\ \A s \in Symbols : tail[s] # 0 => symbol[tail[s]] = s /\ phase[tail[s]] # "settled"
  BY SMTT(30) DEF IInv, TypeOK
<1>3. /\ phase' \in [1..received -> {"queued", "admission", "publishing", "settled"}]
      /\ phase'[i] = "settled"
      /\ \A j \in 1..received : j # i => phase'[j] = phase[j]
  BY <1>1, <1>2
<1>4. /\ tail' \in [Symbols -> 0..received]
      /\ \A s \in Symbols : tail'[s] = IF tail[s] = i THEN 0 ELSE tail[s]
  <2>1. \A s \in Symbols : tail[s] = i => s = symbol[i]
    BY <1>2
  <2> QED BY <1>1, <1>2, <2>1
<1>5. TypeOK'
  <2> DEFINE S == 1..received
  <2>3. redis \in Seq(S) /\ i \in S /\ (redis' = redis \/ redis' = Append(redis, i))
    BY <1>1, <1>2
  <2> HIDE DEF S
  <2>4. \A x \in S : Append(redis, x) \in Seq(S)
    BY <2>3, AppendProperties
  <2>1. redis' \in Seq(1..received)
    BY <2>3, <2>4 DEF S
  <2>2. \A s \in Symbols : tail'[s] # 0 => symbol[tail'[s]] = s /\ phase'[tail'[s]] # "settled"
    BY <1>2, <1>3, <1>4
  <2> QED BY <1>1, <1>3, <1>4, <2>1, <2>2 DEF IInv, TypeOK, connection
<1>6. AnsweredOk' /\ LinkOk' /\ ChainOk'
  BY <1>1, <1>3 DEF IInv, Handlers, AnsweredOk, LinkOk, ChainOk
<1>7. OrderOk'
  BY <1>1, <1>3 DEF IInv, Handlers, OrderOk
<1>8. TailOk'
  <2> SUFFICES ASSUME NEW j \in 1..received
               PROVE  IF tail'[symbol[j]] = 0 THEN phase'[j] = "settled"
                                              ELSE j <= tail'[symbol[j]]
    BY <1>1 DEF TailOk
  <2>1. symbol[j] \in Symbols
    BY <1>2
  <2>2. CASE tail[symbol[j]] = i
    <3>1. i # 0 /\ i \in Nat
      BY <1>2
    <3>3. symbol[j] = symbol[i] /\ j <= i
      BY <1>2, <2>1, <2>2, <3>1 DEF IInv, Handlers, TailOk
    <3>2. j # i => phase[j] = "settled"
      BY <1>1, <1>2, <3>3 DEF IInv, Handlers, OrderOk
    <3> QED BY <1>3, <1>4, <2>1, <2>2, <3>2
  <2>3. CASE tail[symbol[j]] # i
    BY <1>3, <1>4, <2>1, <2>3 DEF IInv, Handlers, TailOk
  <2> QED BY <2>2, <2>3
<1>9. RedisSettled' /\ RedisOnlyAfterKafka' /\ RedisKeepsSymbolOrder'
  <2>1. CASE redis' = redis
    BY <1>1, <1>2, <1>3, <2>1
       DEF IInv, Handlers, RedisSettled, RedisOnlyAfterKafka, RedisKeepsSymbolOrder
  <2>2. CASE redis' = Append(redis, i) /\ kafka[i] = "acked"
    <3>1. /\ DOMAIN redis' = 1..(Len(redis) + 1) /\ DOMAIN redis = 1..Len(redis)
          /\ Len(redis) \in Nat /\ redis'[Len(redis) + 1] = i
          /\ \A k \in 1..Len(redis) : redis'[k] = redis[k]
      BY <1>2, <2>2
    <3>2. \A k \in 1..Len(redis) : phase[redis[k]] = "settled" /\ redis[k] # i
      BY <1>1, <3>1 DEF IInv, Handlers, RedisSettled
    <3>3. \A k \in 1..Len(redis) : symbol[redis[k]] = symbol[i] => redis[k] < i
      <4> SUFFICES ASSUME NEW k \in 1..Len(redis), symbol[redis[k]] = symbol[i], i < redis[k]
                   PROVE  FALSE
        BY <1>2, <3>1, <3>2
      <4>1. redis[k] \in 1..received /\ phase[redis[k]] = "settled"
        BY <1>2, <3>1, <3>2
      <4> QED BY <1>1, <4>1 DEF IInv, Handlers, OrderOk
    <3>4. RedisSettled' /\ RedisOnlyAfterKafka'
      <4>1. \A k \in 1..Len(redis) : kafka[redis[k]] = "acked" /\ redis[k] \in 1..received
        BY <1>2, <3>1 DEF IInv, Handlers, RedisOnlyAfterKafka
      <4> QED BY <1>1, <1>3, <2>2, <3>1, <3>2, <4>1 DEF RedisSettled, RedisOnlyAfterKafka
    <3>5. RedisKeepsSymbolOrder'
      <4> SUFFICES ASSUME NEW m \in DOMAIN redis', NEW n \in DOMAIN redis', m < n,
                          symbol[redis'[m]] = symbol[redis'[n]]
                   PROVE  redis'[m] < redis'[n]
        BY <1>1 DEF RedisKeepsSymbolOrder
      <4>1. m \in 1..Len(redis)
        BY <3>1
      <4>2. CASE n \in 1..Len(redis)
        BY <3>1, <4>1, <4>2 DEF IInv, Handlers, RedisKeepsSymbolOrder
      <4>3. CASE n = Len(redis) + 1
        BY <3>1, <3>3, <4>1, <4>3
      <4> QED BY <3>1, <4>2, <4>3
    <3> QED BY <3>4, <3>5
  <2> QED BY <1>1, <2>1, <2>2
<1>10. Connection' /\ NoSendAcrossDisconnect'
  BY <1>1, <1>3 DEF IInv, Connection, StoppedOk, ConnectedOrRetrying, NoSendAcrossDisconnect,
                    connection
<1> QED BY <1>5, <1>6, <1>7, <1>8, <1>9, <1>10 DEF IInv, Handlers

\* Every step keeps the inductive invariant.
LEMMA NextIInv == IInv /\ [Next]_vars => IInv'
BY ConnectionIInv, StopSequenceIInv, ReceiveIInv, KafkaIInv, PhaseIInv, SettleIInv
   DEF Next, Network, Handler

\* The inductive invariant holds in every state of every behaviour.
LEMMA Invariance == Spec => []IInv
BY InitIInv, NextIInv, PTL DEF Spec

-----------------------------------------------------------------------------
(* The theorems *)

\* The stream's state keeps its types, and an entry of symbolRealtimeTails belongs to
\* a tick of that symbol that has not settled.
THEOREM TypeCorrect == Spec => []TypeOK
<1>1. IInv => TypeOK
  BY DEF IInv
<1> QED BY Invariance, <1>1, PTL

\* Whatever Kafka answers and when, Redis gets only ticks that Kafka has.
THEOREM KafkaBeforeRedis == Spec => []RedisOnlyAfterKafka
<1>1. IInv => RedisOnlyAfterKafka
  BY DEF IInv, Handlers
<1> QED BY Invariance, <1>1, PTL

\* However many ticks of however many symbols are in flight, each symbol's ticks reach
\* Redis in order and once (twelvedata.provider.ts, symbolRealtimeTails).
THEOREM SymbolOrderKept == Spec => []RedisKeepsSymbolOrder
<1>1. IInv => RedisKeepsSymbolOrder
  BY DEF IInv, Handlers
<1> QED BY Invariance, <1>1, PTL

\* Producer and publisher are never taken down under a tick.
THEOREM StopDrains == Spec => []NoSendAcrossDisconnect
<1>1. IInv => NoSendAcrossDisconnect
  BY DEF IInv
<1> QED BY Invariance, <1>1, PTL

\* A running stream always has a socket or a timer, a stopped one neither.
THEOREM StreamNeverStranded == Spec => []ConnectedOrRetrying
<1>1. IInv => ConnectedOrRetrying
  BY DEF IInv, Connection
<1> QED BY Invariance, <1>1, PTL

=============================================================================
