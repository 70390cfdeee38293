--------------------------- MODULE ActiveIngestion ---------------------------
(***************************************************************************)
(* ActiveIngestionRuntime, the workload of a leading Market Ingestor: the  *)
(* Redis publisher, the Kafka producer and the TwelveData stream of one    *)
(* leadership epoch.  start() and stop() are asynchronous and nothing in   *)
(* the class keeps one from running while the other waits, so each await   *)
(* ends an action.                                                         *)
(*                                                                         *)
(* A field that is not null is a member of refs[r].  A stream is live      *)
(* exactly while the field holds it: start() stores and starts it, stop()  *)
(* detaches it and calls its stop(), in one turn of the event loop each.   *)
(***************************************************************************)
EXTENDS IngestorReplicas, Sequences

\* The resources of an epoch.
ResourceNames == {"stream", "kafka", "redis"}

\* Who calls stop(): the election's onLeadershipLost, or the SIGTERM handler.
Stoppers == {"lost", "shutdown"}

VARIABLES
    running,   \* the field `running`
    refs,      \* the fields that are not null
    starting,  \* the start() in progress: "no", "connecting" or "cleanup"
    leftover,  \* what its cleanup has still to stop
    stopping   \* stopper -> the stop() in progress

runtimeVars == <<running, refs, starting, leftover, stopping>>

NoStop == [active |-> FALSE, todo |-> <<>>, failed |-> FALSE]

StopTask == [active : BOOLEAN, todo : Seq(ResourceNames), failed : BOOLEAN]

RuntimeTypeOK ==
    /\ running \in [Replicas -> BOOLEAN]
    /\ refs \in [Replicas -> SUBSET ResourceNames]
    /\ starting \in [Replicas -> {"no", "connecting", "cleanup"}]
    /\ leftover \in [Replicas -> Seq(ResourceNames)]
    /\ stopping \in [Replicas -> [Stoppers -> StopTask]]

RuntimeInit ==
    /\ running = [r \in Replicas |-> FALSE]
    /\ refs = [r \in Replicas |-> {}]
    /\ starting = [r \in Replicas |-> "no"]
    /\ leftover = [r \in Replicas |-> <<>>]
    /\ stopping = [r \in Replicas |-> [w \in Stoppers |-> NoStop]]

\* The resources of S in the order they are stopped.
InOrder(S) ==
    LET Part(x) == IF x \in S THEN <<x>> ELSE <<>>
    IN  Part("stream") \o Part("kafka") \o Part("redis")

-----------------------------------------------------------------------------
(* start() *)

\* start() returns at once when the runtime is running.
StartReturns(r) == running[r] /\ UNCHANGED runtimeVars

\* The Redis publisher and the Kafka producer are created and stored, and
\* start() waits for the producer's connection.
StartBegins(r) ==
    /\ ~running[r]
    /\ refs' = [refs EXCEPT ![r] = @ \cup {"redis", "kafka"}]
    /\ starting' = [starting EXCEPT ![r] = "connecting"]
    /\ UNCHANGED <<running, leftover, stopping>>

\* The producer is connected: the stream is stored and started.
StartCompletes(r) ==
    /\ starting[r] = "connecting"
    /\ refs' = [refs EXCEPT ![r] = @ \cup {"stream"}]
    /\ running' = [running EXCEPT ![r] = TRUE]
    /\ starting' = [starting EXCEPT ![r] = "no"]
    /\ UNCHANGED <<leftover, stopping>>

\* The connection fails (created = {}) or the stream's start() throws
\* (created = {"stream"}): cleanupAfterStartFailure detaches what the fields hold
\* and stops it; its own publisher it stops in any case.
StartFails(r, created) ==
    /\ starting[r] = "connecting"
    /\ running' = [running EXCEPT ![r] = FALSE]
    /\ leftover' = [leftover EXCEPT ![r] = InOrder(refs[r] \cup created \cup {"redis"})]
    /\ refs' = [refs EXCEPT ![r] = {}]
    /\ starting' = [starting EXCEPT ![r] = "cleanup"]
    /\ UNCHANGED stopping

\* One resource of the cleanup is stopped; errors are swallowed.
CleanupStep(r) ==
    /\ starting[r] = "cleanup"
    /\ leftover[r] # <<>>
    /\ leftover' = [leftover EXCEPT ![r] = Tail(@)]
    /\ UNCHANGED <<running, refs, starting, stopping>>

\* The cleanup is done and start() rejects.
StartRejects(r) ==
    /\ starting[r] = "cleanup"
    /\ leftover[r] = <<>>
    /\ starting' = [starting EXCEPT ![r] = "no"]
    /\ UNCHANGED <<running, refs, leftover, stopping>>

-----------------------------------------------------------------------------
(* stop() *)

\* Faulty variant: stop() forgets to detach the stream.
StopKeepsStream(r, w) ==
    /\ ~stopping[r][w].active
    /\ running' = [running EXCEPT ![r] = FALSE]
    /\ refs' = [refs EXCEPT ![r] = @ \cap {"stream"}]
    /\ stopping' = [stopping EXCEPT ![r][w] =
                       [active |-> TRUE, todo |-> InOrder(refs[r]), failed |-> FALSE]]
    /\ UNCHANGED <<starting, leftover>>

\* stop() detaches what the fields hold; with nothing to stop it is done at once
\* (its todo is empty).
StopBegins(r, w) ==
    /\ ~stopping[r][w].active
    /\ running' = [running EXCEPT ![r] = FALSE]
    /\ refs' = [refs EXCEPT ![r] = {}]
    /\ stopping' = [stopping EXCEPT ![r][w] =
                       [active |-> TRUE, todo |-> InOrder(refs[r]), failed |-> FALSE]]
    /\ UNCHANGED <<starting, leftover>>

\* One resource is stopped, or fails to; the others are stopped all the same.
StopStep(r, w, fails) ==
    /\ stopping[r][w].active
    /\ stopping[r][w].todo # <<>>
    /\ stopping' = [stopping EXCEPT ![r][w].todo = Tail(@), ![r][w].failed = @ \/ fails]
    /\ UNCHANGED <<running, refs, starting, leftover>>

\* stop() resolves, or rejects with the first error if one was kept.
StopEnds(r, w) ==
    /\ stopping[r][w].active
    /\ stopping[r][w].todo = <<>>
    /\ stopping' = [stopping EXCEPT ![r][w] = NoStop]
    /\ UNCHANGED <<running, refs, starting, leftover>>

\* The process ends, and the workload with it.
RuntimeGone(r) ==
    /\ running' = [running EXCEPT ![r] = FALSE]
    /\ refs' = [refs EXCEPT ![r] = {}]
    /\ starting' = [starting EXCEPT ![r] = "no"]
    /\ leftover' = [leftover EXCEPT ![r] = <<>>]
    /\ stopping' = [stopping EXCEPT ![r] = [w \in Stoppers |-> NoStop]]

\* The stream of replica r is live.
StreamLive(r) == "stream" \in refs[r]

=============================================================================
