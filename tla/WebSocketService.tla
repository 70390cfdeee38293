-------------------------- MODULE WebSocketService --------------------------
(***************************************************************************)
(* The WebSocket service of the Chart Server: client subscriptions, the    *)
(* fan-out of market events, the heartbeat and the shutdown of all peers.  *)
(*                                                                         *)
(* A member of Clients is one connection: it connects once.  out[c] is     *)
(* what the server sent on it, in order; the transport keeps that order.   *)
(***************************************************************************)
EXTENDS Integers, Sequences

CONSTANTS Clients, Symbols,
          Invalid    \* a string parseSymbol refuses

ASSUME WebSocketAssumption == Invalid \notin Symbols

VARIABLES
    service,        \* webSocketService is defined: heartbeat on, upgrades accepted
    clients,        \* the keys of the map `clients`
    symbols,        \* per client: symbols of its ClientSubscription
    isAlive,        \* per client: isAlive of its ClientSubscription
    readyState,     \* per client: of the server's socket
    silent,         \* clients that are gone without a word
    pinged,         \* clients that have a ping to answer
    connectedPeers, \* the sockets whose 'close' destroy() waits for
    out             \* per client: messages sent

wsVars == <<service, clients, symbols, isAlive, readyState, silent, pinged,
            connectedPeers, out>>

Open(c) == readyState[c] = "OPEN"

Acks == [type : {"subscribed", "unsubscribed"}, symbols : SUBSET Symbols]
MarketEvents == [type : {"event"}, n : Nat, symbol : Symbols]
ErrorMessage == [type |-> "error"]
Messages == Acks \cup MarketEvents \cup {ErrorMessage}

WebSocketTypeOK ==
    /\ service \in BOOLEAN
    /\ clients \subseteq Clients
    /\ symbols \in [Clients -> SUBSET Symbols]
    /\ isAlive \in [Clients -> BOOLEAN]
    /\ readyState \in [Clients -> {"NONE", "OPEN", "CLOSING", "CLOSED"}]
    /\ silent \subseteq Clients /\ pinged \subseteq Clients
    /\ connectedPeers \subseteq Clients
    /\ out \in [Clients -> Seq(Messages)]
    /\ \A c \in clients : readyState[c] \in {"OPEN", "CLOSING"}

WebSocketInit ==
    /\ service = TRUE
    /\ clients = {} /\ silent = {} /\ pinged = {} /\ connectedPeers = {}
    /\ symbols = [c \in Clients |-> {}]
    /\ isAlive = [c \in Clients |-> FALSE]
    /\ readyState = [c \in Clients |-> "NONE"]
    /\ out = [c \in Clients |-> <<>>]

\* send: nothing on a socket that is not open.
Send(c, msg) == out' = IF Open(c) THEN [out EXCEPT ![c] = Append(@, msg)] ELSE out

-----------------------------------------------------------------------------
\* handleConnection (the welcome message is left out).
HandleConnection(c) ==
    /\ service /\ readyState[c] = "NONE"
    /\ readyState' = [readyState EXCEPT ![c] = "OPEN"]
    /\ clients' = clients \cup {c}
    /\ isAlive' = [isAlive EXCEPT ![c] = TRUE]
    /\ UNCHANGED <<service, symbols, silent, pinged, connectedPeers, out>>

\* A client message naming S arrives, until the socket is closed.
Receives(c) == readyState[c] \in {"OPEN", "CLOSING"} /\ c \notin silent

\* Not JSON, not a subscription message, or a symbol that parseSymbol refuses: an
\* error, and no symbol of the message is used.
HandleInvalid(c, S) ==
    /\ Receives(c) /\ Invalid \in S
    /\ Send(c, ErrorMessage)
    /\ UNCHANGED <<service, clients, symbols, isAlive, readyState, silent, pinged,
                   connectedPeers>>

HandleSubscribe(c, S) ==
    /\ Receives(c) /\ Invalid \notin S
    /\ IF c \in clients
       THEN /\ symbols' = [symbols EXCEPT ![c] = @ \cup S]
            /\ Send(c, [type |-> "subscribed", symbols |-> S])
       ELSE UNCHANGED <<symbols, out>>
    /\ UNCHANGED <<service, clients, isAlive, readyState, silent, pinged, connectedPeers>>

\* Faulty variant: an unsubscribe is acknowledged and forgotten.
UnsubscribeForgets(c, S) ==
    /\ Receives(c) /\ Invalid \notin S
    /\ IF c \in clients
       THEN Send(c, [type |-> "unsubscribed", symbols |-> S])
       ELSE UNCHANGED out
    /\ UNCHANGED <<service, clients, symbols, isAlive, readyState, silent, pinged, connectedPeers>>

HandleUnsubscribe(c, S) ==
    /\ Receives(c) /\ Invalid \notin S
    /\ IF c \in clients
       THEN /\ symbols' = [symbols EXCEPT ![c] = @ \ S]
            /\ Send(c, [type |-> "unsubscribed", symbols |-> S])
       ELSE UNCHANGED <<symbols, out>>
    /\ UNCHANGED <<service, clients, isAlive, readyState, silent, pinged, connectedPeers>>

\* Faulty variant: the loop ends at the first socket that is not open.
BroadcastStops(e) ==
    out' = [c \in Clients |->
               IF c \in clients /\ e.symbol \in symbols[c] /\ \A d \in clients : Open(d)
               THEN Append(out[c], e) ELSE out[c]]

\* broadcastLocal
BroadcastLocal(e) ==
    out' = [c \in Clients |->
               IF c \in clients /\ Open(c) /\ e.symbol \in symbols[c]
               THEN Append(out[c], e) ELSE out[c]]

\* Faulty variant: a client keeps counting as alive after a ping.
PingOnly ==
    /\ service /\ clients # {}
    /\ LET dead == {c \in clients : ~isAlive[c]}
       IN /\ clients' = clients \ dead
          /\ readyState' = [c \in Clients |-> IF c \in dead THEN "CLOSING" ELSE readyState[c]]
          /\ pinged' = pinged \cup {c \in clients \ dead : Open(c)}
    /\ UNCHANGED <<service, symbols, isAlive, silent, connectedPeers, out>>

\* checkConnections: who has not answered since the last check is evicted, the others
\* are pinged.
CheckConnections ==
    /\ service /\ clients # {}
    /\ LET dead == {c \in clients : ~isAlive[c]}
       IN /\ clients' = clients \ dead
          /\ readyState' = [c \in Clients |-> IF c \in dead THEN "CLOSING" ELSE readyState[c]]
          /\ isAlive' = [c \in Clients |-> IF c \in clients \ dead THEN FALSE ELSE isAlive[c]]
          /\ pinged' = pinged \cup {c \in clients \ dead : Open(c)}
    /\ UNCHANGED <<service, symbols, silent, connectedPeers, out>>

\* The pong handler: a client that was evicted meanwhile stays evicted.
HandlePong(c) ==
    /\ c \in pinged /\ Receives(c)
    /\ pinged' = pinged \ {c}
    /\ isAlive' = [isAlive EXCEPT ![c] = IF c \in clients THEN TRUE ELSE @]
    /\ UNCHANGED <<service, clients, symbols, readyState, silent, connectedPeers, out>>

\* The client begins to close its connection.
PeerCloses(c) ==
    /\ Open(c) /\ c \notin silent
    /\ readyState' = [readyState EXCEPT ![c] = "CLOSING"]
    /\ UNCHANGED <<service, clients, symbols, isAlive, silent, pinged, connectedPeers, out>>

\* The client's host or network goes away.
PeerVanishes(c) ==
    /\ Open(c) /\ c \notin silent
    /\ silent' = silent \cup {c}
    /\ UNCHANGED <<service, clients, symbols, isAlive, readyState, pinged, connectedPeers, out>>

\* Faulty variant: the client stays in the map.
CloseForgets(c) ==
    /\ readyState[c] = "CLOSING"
    /\ readyState' = [readyState EXCEPT ![c] = "CLOSED"]
    /\ connectedPeers' = connectedPeers \ {c}
    /\ UNCHANGED <<service, clients, symbols, isAlive, silent, pinged, out>>

\* The 'close' event of a socket that is being closed or was terminated.
HandleClose(c) ==
    /\ readyState[c] = "CLOSING"
    /\ readyState' = [readyState EXCEPT ![c] = "CLOSED"]
    /\ clients' = clients \ {c}
    /\ connectedPeers' = connectedPeers \ {c}
    /\ UNCHANGED <<service, symbols, isAlive, silent, pinged, out>>

-----------------------------------------------------------------------------
\* closeWebSocketServer up to its await: events are no longer forwarded, upgrades are
\* refused, the heartbeat is off and every peer is terminated.
CloseWebSocketServer ==
    LET peers == {c \in Clients : readyState[c] \in {"OPEN", "CLOSING"}}
    IN /\ service' = FALSE
       /\ connectedPeers' = peers
       /\ readyState' = [c \in Clients |-> IF c \in peers THEN "CLOSING" ELSE readyState[c]]
       /\ UNCHANGED <<clients, symbols, isAlive, silent, pinged, out>>

\* Every peer is closed.
WebSocketServerClosed ==
    /\ ~service /\ connectedPeers = {}
    /\ clients' = {}
    /\ UNCHANGED <<service, symbols, isAlive, readyState, silent, pinged, connectedPeers, out>>

=============================================================================
