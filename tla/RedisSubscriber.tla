-------------------------- MODULE RedisSubscriber --------------------------
(***************************************************************************)
(* RedisPubSubService in the role 'subscriber': one ioredis connection to  *)
(* the channel market_stream.  Delivery is best effort: what is published  *)
(* while the connection is down, or is on its way when it breaks, is lost. *)
(* ioredis reconnects by itself and subscribes again.                      *)
(***************************************************************************)
EXTENDS Integers, Sequences

VARIABLES
    link,        \* of the ioredis client: "connecting", "ready" or "end"
    available,   \* states.subscriber.available
    channel,     \* Redis has the subscription of this connection
    pipe,        \* messages on their way to the client
    subscribing, \* subscribe(): "sent", "replied", "done" (listening) or "failed"
    unsubscribing \* disconnect() waits for unsubscribe: "no", "sent", "resolved" or "rejected"

redisVars == <<link, available, channel, pipe, subscribing, unsubscribing>>

RedisTypeOK ==
    /\ link \in {"connecting", "ready", "end"}
    /\ available \in BOOLEAN /\ channel \in BOOLEAN
    /\ subscribing \in {"sent", "replied", "done", "failed"}
    /\ unsubscribing \in {"no", "sent", "resolved", "rejected"}
    /\ channel => link = "ready"
    /\ pipe # <<>> => channel

\* The client connects, and initWebSocketServer calls subscribe() at once.
RedisInit ==
    /\ link = "connecting" /\ available = FALSE
    /\ channel = FALSE /\ pipe = <<>>
    /\ subscribing = "sent" /\ unsubscribing = "no"

-----------------------------------------------------------------------------
\* 'ready'
LinkReady ==
    /\ link = "connecting"
    /\ link' = "ready" /\ available' = TRUE
    /\ UNCHANGED <<channel, pipe, subscribing, unsubscribing>>

\* 'error' or 'close': the client reconnects.  The continuation of subscribe() comes
\* before any other event of the socket.
LinkLost ==
    /\ link = "ready" /\ subscribing # "replied"
    /\ link' = "connecting" /\ available' = FALSE
    /\ channel' = FALSE /\ pipe' = <<>>
    /\ UNCHANGED <<subscribing, unsubscribing>>

\* Redis executes the first SUBSCRIBE, or the one ioredis repeats after a reconnect.
Subscribed ==
    /\ link = "ready" /\ ~channel
    /\ unsubscribing = "no"
    /\ subscribing \in {"sent", "replied", "done"}
    /\ channel' = TRUE
    /\ subscribing' = IF subscribing = "sent" THEN "replied" ELSE subscribing
    /\ UNCHANGED <<link, available, pipe, unsubscribing>>

\* The await in subscribe() returns, and only now there is a 'message' listener.
ListenerAttached ==
    /\ subscribing = "replied"
    /\ subscribing' = "done" /\ available' = TRUE
    /\ UNCHANGED <<link, channel, pipe, unsubscribing>>

\* The command ran out of retries.
SubscribeRejects ==
    /\ subscribing = "sent" /\ link = "connecting"
    /\ subscribing' = "failed" /\ available' = FALSE
    /\ UNCHANGED <<link, channel, pipe, unsubscribing>>

\* Another process publishes e.
Publish(e) ==
    /\ pipe' = IF channel THEN Append(pipe, e) ELSE pipe
    /\ UNCHANGED <<link, available, channel, subscribing, unsubscribing>>

\* A message arrives; without a listener it is dropped.
MessageArrives ==
    /\ pipe # <<>>
    /\ pipe' = Tail(pipe)
    /\ UNCHANGED <<link, available, channel, subscribing, unsubscribing>>

-----------------------------------------------------------------------------
\* disconnect() up to its await.
Disconnect ==
    /\ unsubscribing' = "sent"
    /\ UNCHANGED <<link, available, channel, pipe, subscribing>>

\* Redis answered: the connection is closed for good.
Unsubscribed ==
    /\ unsubscribing = "sent" /\ link = "ready"
    /\ unsubscribing' = "resolved"
    /\ link' = "end" /\ available' = FALSE
    /\ channel' = FALSE /\ pipe' = <<>>
    /\ UNCHANGED subscribing

\* The command ran out of retries: disconnect() throws and leaves the client as it is.
UnsubscribeRejects ==
    /\ unsubscribing = "sent" /\ link = "connecting"
    /\ unsubscribing' = "rejected"
    /\ UNCHANGED <<link, available, channel, pipe, subscribing>>

=============================================================================
