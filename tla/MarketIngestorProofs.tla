------------------------ MODULE MarketIngestorProofs ------------------------
(***************************************************************************)
(* Proofs about the Market Ingestor, for every set of replicas, number of  *)
(* sessions, failures and SIGTERMs.                                        *)
(***************************************************************************)
EXTENDS MarketIngestor, TLAPS, SequenceTheorems

-----------------------------------------------------------------------------
(* The inductive invariant, one replica at a time *)

\* What the connection-loss handlers of replica r do about session c.
Handler(r, c) == IF owner[c] = r THEN loss[c] ELSE "no"

\* Some handler is at work; some handler ends a leadership, and where it is.
Handling(r) == \E c \in Sessions : Handler(r, c) # "no"
Deactivating(r) == \E c \in Sessions : Handler(r, c) = "deactivating"
Settled(r) == \E c \in Sessions : Handler(r, c) \in {"done", "failed"}
Alone(r) ==
    \A c, d \in Sessions : /\ Handler(r, c) \in {"deactivating", "done", "failed"}
                          /\ Handler(r, d) \in {"deactivating", "done", "failed"}
                          => c = d

\* The sessions a replica refers to are its own.
Ownership(r) ==
    /\ client[r] # None => owner[client[r]] = r
    /\ acq[r].c # None => owner[acq[r].c] = r
    /\ halt[r].c # None => owner[halt[r].c] = r

\* A process that is down is at rest, and one that runs is stopped only by its
\* shutdown sequence.
Standing(r) ==
    /\ ~up[r] => /\ stopped[r] /\ shut[r] = "no" /\ acq[r].pc = "no" /\ halt[r].pc = "no"
                 /\ queue[r] = <<>> /\ refs[r] = {} /\ ~running[r] /\ starting[r] = "no"
                 /\ ~begun[r] /\ ~stopping[r]["lost"].active
                 /\ ~Handling(r)
    /\ up[r] => (stopped[r] <=> shut[r] \in {"election", "prisma"})
    /\ state[r] = "stopped" <=> stopped[r]
    /\ stopped[r] => client[r] = None
    /\ halt[r].pc # "no" => stopped[r]

\* The attempt in progress and the state.
Attempting(r) ==
    /\ acq[r].pc # "no" => client[r] \in {None, acq[r].c}
    /\ acq[r].pc \in {"close", "giveUp"} => client[r] = None
    /\ acq[r].pc \in {"connect", "query", "close"} => state[r] \in {"standby", "stopped"}
    /\ acq[r].pc = "activate" => state[r] \in {"activating", "deactivating", "stopped"}
    /\ acq[r].pc \in {"activate", "resume", "unlock"} /\ client[r] # None => state[r] = "activating"
    /\ state[r] = "activating" =>
          \/ acq[r].pc \in {"activate", "resume", "unlock"} /\ client[r] = acq[r].c
          \/ acq[r].pc = "giveUp"
    /\ state[r] = "leader" => acq[r].pc = "no" /\ client[r] # None
    /\ state[r] = "deactivating" => client[r] = None

\* The coordination session and the lock.
Locking(r) ==
    client[r] # None =>
      /\ \/ state[r] = "leader"
         \/ acq[r].pc \in {"activate", "resume", "unlock"}
         \/ acq[r].pc = "query" /\ acq[r].res = "yes"
         => (client[r] \in alive => lock = client[r])
      /\ \/ acq[r].pc = "no" /\ state[r] # "leader"
         \/ acq[r].pc = "query" /\ acq[r].res \in {"none", "no"}
         => lock # client[r]

\* At most one handler ends a leadership, while the state says so.
Losing(r) ==
    /\ ~stopped[r] => (state[r] = "deactivating" <=> Deactivating(r) \/ Settled(r))
    /\ Alone(r)

\* What the queue of the callbacks may hold.
Queues == {<<>>, <<"activate">>, <<"deactivate">>, <<"activate", "deactivate">>}

\* The queue holds the activation of the attempt, then the deactivation of the handler.
Callbacks(r) ==
    /\ queue[r] \in Queues
    /\ acq[r].pc = "activate" <=> queue[r] \in {<<"activate">>, <<"activate", "deactivate">>}
    /\ Deactivating(r) <=> queue[r] \in {<<"deactivate">>, <<"activate", "deactivate">>}
    /\ acq[r].pc = "activate" => ~Settled(r)
    /\ starting[r] # "no" <=> begun[r] /\ Running(r, "activate")
    /\ stopping[r]["lost"].active <=> begun[r] /\ Running(r, "deactivate")
    /\ begun[r] => queue[r] # <<>>

\* Without a SIGTERM the fields of the runtime follow the callbacks.
Epoch(r) ==
    shut[r] = "no" =>
      /\ running[r] <=> StreamLive(r)
      /\ refs[r] \in {{}, {"kafka", "redis"}, ResourceNames}
      /\ starting[r] = "connecting" <=> refs[r] = {"kafka", "redis"}
      /\ stopping[r]["lost"].active => refs[r] = {}
      /\ StreamLive(r) =>
            /\ acq[r].pc # "activate"
            /\ \/ state[r] = "leader"
               \/ state[r] = "activating" /\ acq[r].pc = "resume" /\ acq[r].res = "ok"
               \/ state[r] = "deactivating" /\ Deactivating(r)

\* A standby has something that starts its next attempt.
Retrying(r) ==
    state[r] = "standby" =>
        retryTimer[r] \/ acq[r].pc # "no" \/ Handling(r)

\* All of it for one replica, and for the system.
ReplicaInv(r) ==
    /\ Ownership(r) /\ Standing(r) /\ Attempting(r) /\ Locking(r)
    /\ Losing(r) /\ Callbacks(r) /\ Epoch(r) /\ Retrying(r)

IInv == TypeOK /\ \A r \in Replicas : ReplicaInv(r)

-----------------------------------------------------------------------------
(* Lemmas *)

\* A deactivation queued behind an activation.
LEMMA BothCallbacks == Append(<<"activate">>, "deactivate") = <<"activate", "deactivate">>
<1> DEFINE T == {"activate", "deactivate"}
<1>1. /\ <<"activate">> \in Seq(T) /\ Len(<<"activate">>) = 1 /\ <<"activate">>[1] = "activate"
  OBVIOUS
<1>2. /\ <<"activate", "deactivate">> \in Seq(T) /\ Len(<<"activate", "deactivate">>) = 2
      /\ <<"activate", "deactivate">>[1] = "activate"
      /\ <<"activate", "deactivate">>[2] = "deactivate"
  OBVIOUS
<1>3. "deactivate" \in T OBVIOUS
<1> DEFINE q == Append(<<"activate">>, "deactivate")
<1>4. /\ q \in Seq(T) /\ Len(q) = 2 /\ q[1] = "activate" /\ q[2] = "deactivate"
  <2> HIDE DEF T
  <2> QED BY <1>1, <1>3, AppendProperties
<1>5. \A i \in 1..2 : q[i] = <<"activate", "deactivate">>[i]
  <2>1. \A i \in 1..2 : i = 1 \/ i = 2 OBVIOUS
  <2> QED BY <1>2, <1>4, <2>1
<1> QED
  <2> HIDE DEF T, q
  <2> SUFFICES q = <<"activate", "deactivate">>  BY DEF q
  <2> QED BY <1>2, <1>4, <1>5, SeqEqual

\* How callbacks enter and leave the queue.
LEMMA QueueFacts ==
    /\ Queues \subseteq Seq(Transitions)
    /\ <<"activate">> # <<>> /\ <<"deactivate">> # <<>> /\ <<"activate", "deactivate">> # <<>>
    /\ <<"activate">> # <<"deactivate">> /\ <<"activate">> # <<"activate", "deactivate">>
    /\ <<"deactivate">> # <<"activate", "deactivate">>
    /\ Head(<<"activate">>) = "activate" /\ Head(<<"activate", "deactivate">>) = "activate"
    /\ Head(<<"deactivate">>) = "deactivate"
    /\ Tail(<<"activate">>) = <<>> /\ Tail(<<"deactivate">>) = <<>>
    /\ Tail(<<"activate", "deactivate">>) = <<"deactivate">>
    /\ Append(<<>>, "activate") = <<"activate">> /\ Append(<<>>, "deactivate") = <<"deactivate">>
    /\ Append(<<"activate">>, "deactivate") = <<"activate", "deactivate">>
<1>1. Queues \subseteq Seq(Transitions)
  BY DEF Queues, Transitions
<1>2. /\ <<"activate">> # <<>> /\ <<"deactivate">> # <<>> /\ <<"activate", "deactivate">> # <<>>
      /\ <<"activate">> # <<"deactivate">> /\ <<"activate">> # <<"activate", "deactivate">>
      /\ <<"deactivate">> # <<"activate", "deactivate">>
  OBVIOUS
<1>3. /\ Head(<<"activate">>) = "activate" /\ Head(<<"activate", "deactivate">>) = "activate"
      /\ Head(<<"deactivate">>) = "deactivate"
  OBVIOUS
<1>4. Tail(<<"activate">>) = <<>> /\ Tail(<<"deactivate">>) = <<>>
  OBVIOUS
<1>5. Tail(<<"activate", "deactivate">>) = <<"deactivate">>
  OBVIOUS
<1>6. Append(<<>>, "activate") = <<"activate">> /\ Append(<<>>, "deactivate") = <<"deactivate">>
  OBVIOUS
<1> QED BY <1>1, <1>2, <1>3, <1>4, <1>5, <1>6, BothCallbacks

\* InOrder returns a sequence of resources.
LEMMA InOrderType == ASSUME NEW S PROVE InOrder(S) \in Seq(ResourceNames)
<1> DEFINE Part(x) == IF x \in S THEN <<x>> ELSE <<>>
<1>1. \A x \in ResourceNames : Part(x) \in Seq(ResourceNames)
  OBVIOUS
<1>2. \A p, q \in Seq(ResourceNames) : p \o q \in Seq(ResourceNames)
  OBVIOUS
<1>3. InOrder(S) = (Part("stream") \o Part("kafka")) \o Part("redis")
  BY DEF InOrder
<1>4. "stream" \in ResourceNames /\ "kafka" \in ResourceNames /\ "redis" \in ResourceNames
  BY DEF ResourceNames
<1> HIDE DEF Part
<1> QED BY <1>1, <1>2, <1>3, <1>4

\* What a step leaves alone of replica s.
LocalSame(s) ==
    /\ up'[s] = up[s] /\ state'[s] = state[s] /\ stopped'[s] = stopped[s]
    /\ retryTimer'[s] = retryTimer[s] /\ client'[s] = client[s] /\ acq'[s] = acq[s]
    /\ halt'[s] = halt[s] /\ queue'[s] = queue[s] /\ running'[s] = running[s]
    /\ refs'[s] = refs[s] /\ starting'[s] = starting[s] /\ stopping'[s] = stopping[s]
    /\ shut'[s] = shut[s] /\ begun'[s] = begun[s]

\* ... of the sessions it refers to ...
SessionsSame(s) ==
    /\ \A c \in Sessions : Handler(s, c)' = Handler(s, c)
    /\ \A c \in Sessions : c \in {client[s], acq[s].c, halt[s].c} => owner'[c] = owner[c]

\* ... and of the lock, if it has it.
LockSame(s) ==
    client[s] # None =>
        /\ client[s] \in alive' => client[s] \in alive /\ (lock = client[s] => lock' = lock)
        /\ lock' = client[s] => lock = client[s]

\* The handlers of a replica as before.
HandlersSame(s) ==
    /\ Handling(s)' <=> Handling(s)
    /\ Deactivating(s)' <=> Deactivating(s)
    /\ Settled(s)' <=> Settled(s)
    /\ Alone(s)' <=> Alone(s)

\* Handlers that are left alone look the same.
LEMMA SameHandlers ==
    ASSUME NEW s, \A c \in Sessions : Handler(s, c)' = Handler(s, c)
    PROVE  HandlersSame(s)
BY DEF HandlersSame, Handling, Deactivating, Settled, Alone

\* What the types say of the domains, and of attempts and stops.
LEMMA Types ==
    ASSUME TypeOK
    PROVE  /\ DOMAIN up = Replicas /\ DOMAIN state = Replicas /\ DOMAIN stopped = Replicas
           /\ DOMAIN retryTimer = Replicas /\ DOMAIN client = Replicas /\ DOMAIN acq = Replicas
           /\ DOMAIN halt = Replicas /\ DOMAIN queue = Replicas /\ DOMAIN running = Replicas
           /\ DOMAIN refs = Replicas /\ DOMAIN starting = Replicas /\ DOMAIN stopping = Replicas
           /\ DOMAIN shut = Replicas /\ DOMAIN begun = Replicas
           /\ \A r \in Replicas : /\ acq[r] \in Attempts
                                  /\ acq[r].pc \notin {"no", "connect"} <=> acq[r].c # None
                                  /\ halt[r] \in Halts
                                  /\ halt[r].pc # "no" <=> halt[r].c # None
                                  /\ client[r] \in Sessions \cup {None}
                                  /\ acq[r].c \in Sessions \cup {None}
                                  /\ halt[r].c \in Sessions \cup {None}
BY DEF TypeOK, ElectionTypeOK, RuntimeTypeOK, Attempts, Halts

\* A step that leaves a replica, its sessions and its lock alone keeps its invariant.
LEMMA Frame ==
    ASSUME NEW s \in Replicas, TypeOK, ReplicaInv(s), LocalSame(s), SessionsSame(s), LockSame(s)
    PROVE  ReplicaInv(s)'
<1> USE DEF LocalSame
<1>0. HandlersSame(s)
  BY SameHandlers DEF SessionsSame
<1>1. Ownership(s)'
  BY Types DEF ReplicaInv, Ownership, SessionsSame
<1>2. Standing(s)'
  BY <1>0 DEF ReplicaInv, Standing, HandlersSame
<1>3. Attempting(s)'
  BY DEF ReplicaInv, Attempting
<1>4. Locking(s)'
  BY DEF ReplicaInv, Locking, LockSame
<1>5. Losing(s)'
  BY <1>0 DEF ReplicaInv, Losing, HandlersSame
<1>6. Callbacks(s)'
  BY <1>0 DEF ReplicaInv, Callbacks, HandlersSame, Running
<1>7. Epoch(s)'
  BY <1>0 DEF ReplicaInv, Epoch, HandlersSame, StreamLive
<1>8. Retrying(s)'
  BY <1>0 DEF ReplicaInv, Retrying, HandlersSame
<1> QED BY <1>1, <1>2, <1>3, <1>4, <1>5, <1>6, <1>7, <1>8 DEF ReplicaInv

\* Updates of an attempt.
LEMMA AttemptFields ==
    ASSUME NEW a \in Attempts, NEW x, NEW y
    PROVE  /\ [a EXCEPT !.pc = x, !.res = y].pc = x
           /\ [a EXCEPT !.pc = x, !.res = y].c = a.c
           /\ [a EXCEPT !.pc = x, !.res = y].res = y
           /\ [a EXCEPT !.pc = x].pc = x
           /\ [a EXCEPT !.pc = x].c = a.c
           /\ [a EXCEPT !.res = y].pc = a.pc
           /\ [a EXCEPT !.res = y].c = a.c
           /\ [a EXCEPT !.res = y].res = y
BY DEF Attempts

\* The attempt of replica r, up to its activation: only r itself and its timer change.
LEMMA AttemptActor ==
    ASSUME IInv, NEW r \in Replicas, ElectionOnly,
           \/ TimerFires(r) \/ ConnectFails(r) \/ NotAcquired(r) \/ Acquired(r) \/ QueryFails(r)
           \/ AttemptClosed(r) \/ Promote(r) \/ ActivationFailed(r) \/ ReleaseUncertain(r)
           \/ GivenUp(r)
    PROVE  ReplicaInv(r)'
<1>1. /\ ReplicaInv(r) /\ TypeOK
      /\ acq[r].pc \notin {"no", "connect"} <=> acq[r].c # None
      /\ acq[r] \in Attempts
  BY Types DEF IInv
<1>2. /\ UNCHANGED <<up, stopped, loss, halt, lock, alive, owner>>
      /\ UNCHANGED <<running, refs, starting, stopping, shut, begun>>
  BY DEF ElectionOnly, pgVars, runtimeVars, TimerFires, ConnectFails, NotAcquired, Acquired,
         QueryFails, AttemptClosed, Promote, ActivationFailed, ReleaseUncertain, GivenUp
<1>3. HandlersSame(r)
  BY <1>2, SameHandlers DEF Handler
<1>4. CASE TimerFires(r)
  <2>1. /\ UNCHANGED <<state, client, queue>>
        /\ acq'[r] = IF ~stopped[r] /\ state[r] = "standby" /\ acq[r].pc = "no"
                     THEN AttemptFrom(client[r]) ELSE acq[r]
    BY <1>4, <1>1, Types DEF TimerFires
  <2> QED
    BY <2>1, <1>1, <1>2, <1>3
       DEF HandlersSame, ReplicaInv, Ownership, Standing, Attempting, Locking, Losing,
           Callbacks, Epoch, Retrying, Running, StreamLive, AttemptFrom
<1>5. CASE ConnectFails(r)
  <2>1. /\ UNCHANGED <<client, queue>>
        /\ acq[r].pc = "connect"
        /\ state'[r] = AfterError(r)
        /\ acq'[r] = NoAttempt
        /\ retryTimer'[r] <=> retryTimer[r] \/ (~stopped[r] /\ AfterError(r) = "standby")
    BY <1>5, <1>1, Types DEF ConnectFails, EndAttempt, Retry
  <2> QED
    BY <2>1, <1>1, <1>2, <1>3
       DEF HandlersSame, ReplicaInv, Ownership, Standing, Attempting, Locking, Losing,
           Callbacks, Epoch, Retrying, Running, StreamLive, AfterError, NoAttempt
<1>6. CASE NotAcquired(r)
  <2>1. /\ UNCHANGED <<client, queue>>
        /\ acq[r].pc = "query" /\ acq[r].res \in {"yes", "no"}
        /\ ~(~stopped[r] /\ client[r] = acq[r].c /\ acq[r].res = "yes")
        /\ state'[r] = IF ~stopped[r] /\ client[r] = acq[r].c THEN "standby" ELSE state[r]
        /\ acq'[r] = NoAttempt
        /\ retryTimer'[r] <=> retryTimer[r] \/ (~stopped[r] /\ state'[r] = "standby")
    BY <1>6, <1>1, Types DEF NotAcquired, EndAttempt, Retry
  <2> QED
    BY <2>1, <1>1, <1>2, <1>3
       DEF HandlersSame, ReplicaInv, Ownership, Standing, Attempting, Locking, Losing,
           Callbacks, Epoch, Retrying, Running, StreamLive, NoAttempt
<1>7. CASE Acquired(r)
  <2>1. /\ UNCHANGED <<client, retryTimer>>
        /\ acq[r].pc = "query" /\ acq[r].res = "yes" /\ ~stopped[r] /\ client[r] = acq[r].c
        /\ state'[r] = "activating"
        /\ queue'[r] = Append(queue[r], "activate")
        /\ acq'[r].pc = "activate" /\ acq'[r].c = acq[r].c
    BY <1>7, <1>1, Types, AttemptFields DEF Acquired
  <2>2. queue[r] = <<>> /\ state[r] = "standby" /\ ~Deactivating(r) /\ ~Settled(r)
    BY <2>1, <1>1, QueueFacts DEF ReplicaInv, Standing, Attempting, Losing, Callbacks, Queues
  <2>3. queue'[r] = <<"activate">>
    BY <2>1, <2>2, QueueFacts
  <2> QED
    BY <2>1, <2>2, <2>3, <1>1, <1>2, <1>3, QueueFacts
       DEF HandlersSame, ReplicaInv, Ownership, Standing, Attempting, Locking, Losing,
           Callbacks, Epoch, Retrying, Running, StreamLive, Queues
<1>8. CASE QueryFails(r)
  <2>1. /\ UNCHANGED queue
        /\ acq[r].pc = "query"
        /\ state'[r] = AfterError(r)
        /\ IF client[r] = acq[r].c
           THEN client'[r] = None /\ acq'[r] = [acq[r] EXCEPT !.pc = "close", !.res = "none"]
           ELSE /\ acq'[r] = NoAttempt /\ UNCHANGED client
                /\ retryTimer'[r] <=> retryTimer[r] \/ (~stopped[r] /\ AfterError(r) = "standby")
    BY <1>8, <1>1, Types DEF QueryFails, EndAttempt, Retry
  <2>2. client[r] = acq[r].c => acq'[r].pc = "close" /\ acq'[r].c = acq[r].c
    BY <2>1, <1>1 DEF Attempts
  <2> QED
    BY <2>1, <2>2, <1>1, <1>2, <1>3
       DEF HandlersSame, ReplicaInv, Ownership, Standing, Attempting, Locking, Losing,
           Callbacks, Epoch, Retrying, Running, StreamLive, AfterError, NoAttempt
<1>9. CASE AttemptClosed(r)
  <2>1. /\ UNCHANGED <<state, client, queue>>
        /\ acq[r].pc = "close"
        /\ acq'[r] = NoAttempt
        /\ retryTimer'[r] <=> retryTimer[r] \/ (~stopped[r] /\ state[r] = "standby")
    BY <1>9, <1>1, Types DEF AttemptClosed, EndAttempt, Retry
  <2> QED
    BY <2>1, <1>1, <1>2, <1>3
       DEF HandlersSame, ReplicaInv, Ownership, Standing, Attempting, Locking, Losing,
           Callbacks, Epoch, Retrying, Running, StreamLive, NoAttempt
<1>10. CASE Promote(r)
  <2>1. /\ UNCHANGED <<client, queue>>
        /\ acq[r].pc = "resume" /\ acq[r].res = "ok"
        /\ state'[r] = IF ~stopped[r] /\ client[r] = acq[r].c /\ state[r] = "activating"
                       THEN "leader" ELSE state[r]
        /\ acq'[r] = NoAttempt
        /\ retryTimer'[r] <=> retryTimer[r] \/ (~stopped[r] /\ state'[r] = "standby")
    BY <1>10, <1>1, Types DEF Promote, EndAttempt, Retry
  <2> QED
    BY <2>1, <1>1, <1>2, <1>3
       DEF HandlersSame, ReplicaInv, Ownership, Standing, Attempting, Locking, Losing,
           Callbacks, Epoch, Retrying, Running, StreamLive, NoAttempt
<1>11. CASE ActivationFailed(r)
  <2>1. /\ UNCHANGED <<state, client, queue>>
        /\ acq[r].pc = "resume" /\ acq[r].res = "fail"
        /\ IF ~stopped[r] /\ client[r] = acq[r].c
           THEN acq'[r] = [acq[r] EXCEPT !.pc = "unlock", !.res = "none"]
           ELSE /\ acq'[r] = NoAttempt
                /\ retryTimer'[r] <=> retryTimer[r] \/ (~stopped[r] /\ state[r] = "standby")
    BY <1>11, <1>1, Types DEF ActivationFailed, EndAttempt, Retry
  <2>2. ~stopped[r] /\ client[r] = acq[r].c => acq'[r].pc = "unlock" /\ acq'[r].c = acq[r].c
    BY <2>1, <1>1 DEF Attempts
  <2> QED
    BY <2>1, <2>2, <1>1, <1>2, <1>3
       DEF HandlersSame, ReplicaInv, Ownership, Standing, Attempting, Locking, Losing,
           Callbacks, Epoch, Retrying, Running, StreamLive, NoAttempt
<1>12. CASE ReleaseUncertain(r)
  <2>1. /\ UNCHANGED <<state, queue, retryTimer>>
        /\ acq[r].pc = "unlock"
        /\ client'[r] = IF client[r] = acq[r].c THEN None ELSE client[r]
        /\ acq'[r].pc = "giveUp" /\ acq'[r].c = acq[r].c
    BY <1>12, <1>1, Types, AttemptFields DEF ReleaseUncertain
  <2> QED
    BY <2>1, <1>1, <1>2, <1>3
       DEF HandlersSame, ReplicaInv, Ownership, Standing, Attempting, Locking, Losing,
           Callbacks, Epoch, Retrying, Running, StreamLive
<1>13. CASE GivenUp(r)
  <2>1. /\ UNCHANGED <<client, queue>>
        /\ acq[r].pc = "giveUp"
        /\ state'[r] = AfterRelease(r)
        /\ acq'[r] = NoAttempt
        /\ retryTimer'[r] <=> retryTimer[r] \/ (~stopped[r] /\ AfterRelease(r) = "standby")
    BY <1>13, <1>1, Types DEF GivenUp, EndAttempt, Retry
  <2> QED
    BY <2>1, <1>1, <1>2, <1>3
       DEF HandlersSame, ReplicaInv, Ownership, Standing, Attempting, Locking, Losing,
           Callbacks, Epoch, Retrying, Running, StreamLive, AfterRelease, NoAttempt
<1> QED BY <1>4, <1>5, <1>6, <1>7, <1>8, <1>9, <1>10, <1>11, <1>12, <1>13

\* A step of replica r that leaves the sessions alone keeps the other replicas.
LEMMA QuietOthers ==
    ASSUME IInv, NEW r \in Replicas, UNCHANGED <<loss, lock, alive, owner>>,
           \A s \in Replicas \ {r} : LocalSame(s)
    PROVE  \A s \in Replicas \ {r} : ReplicaInv(s)'
<1> SUFFICES ASSUME NEW s \in Replicas \ {r} PROVE ReplicaInv(s)'
  OBVIOUS
<1>1. SessionsSame(s) /\ LockSame(s)
  BY DEF SessionsSame, LockSame, Handler
<1> QED BY <1>1, Frame DEF IInv

\* The same steps, seen by the other replicas.
LEMMA AttemptOthers ==
    ASSUME IInv, NEW r \in Replicas, ElectionOnly,
           \/ TimerFires(r) \/ ConnectFails(r) \/ NotAcquired(r) \/ Acquired(r) \/ QueryFails(r)
           \/ AttemptClosed(r) \/ Promote(r) \/ ActivationFailed(r) \/ ReleaseUncertain(r)
           \/ GivenUp(r)
    PROVE  \A s \in Replicas \ {r} : ReplicaInv(s)'
<1> SUFFICES ASSUME NEW s \in Replicas \ {r}
             PROVE  LocalSame(s) /\ UNCHANGED <<loss, lock, alive, owner>>
  BY QuietOthers
<1>1. TypeOK
  BY DEF IInv
<1>2. /\ UNCHANGED <<up, stopped, loss, halt, lock, alive, owner>>
      /\ UNCHANGED <<running, refs, starting, stopping, shut, begun>>
  BY DEF ElectionOnly, pgVars, runtimeVars, TimerFires, ConnectFails, NotAcquired, Acquired,
         QueryFails, AttemptClosed, Promote, ActivationFailed, ReleaseUncertain, GivenUp
<1>3. state'[s] = state[s] /\ client'[s] = client[s] /\ queue'[s] = queue[s]
  BY <1>1, Types
     DEF TimerFires, ConnectFails, NotAcquired, Acquired,
         QueryFails, AttemptClosed, Promote, ActivationFailed, ReleaseUncertain, GivenUp
<1>4. acq'[s] = acq[s] /\ retryTimer'[s] = retryTimer[s]
  BY <1>1, Types
     DEF TimerFires, ConnectFails, NotAcquired, Acquired, EndAttempt, Retry,
         QueryFails, AttemptClosed, Promote, ActivationFailed, ReleaseUncertain, GivenUp
<1> QED BY <1>2, <1>3, <1>4 DEF LocalSame

\* The attempts of a replica.
Shaped == {a \in Attempts : a.pc \notin {"no", "connect"} <=> a.c # None}

\* The types of the election are kept.
LEMMA AttemptType ==
    ASSUME IInv, NEW r \in Replicas, ElectionOnly,
           \/ TimerFires(r) \/ ConnectFails(r) \/ NotAcquired(r) \/ Acquired(r) \/ QueryFails(r)
           \/ AttemptClosed(r) \/ Promote(r) \/ ActivationFailed(r) \/ ReleaseUncertain(r)
           \/ GivenUp(r)
    PROVE  ElectionTypeOK' /\ RuntimeTypeOK'
<1>1. TypeOK /\ ElectionTypeOK
  BY DEF IInv, TypeOK
<1>2. /\ UNCHANGED <<up, stopped, loss, halt, lock, alive, owner>>
      /\ UNCHANGED runtimeVars
  BY DEF ElectionOnly, pgVars, TimerFires, ConnectFails, NotAcquired, Acquired,
         QueryFails, AttemptClosed, Promote, ActivationFailed, ReleaseUncertain, GivenUp
<1>3. state' \in [Replicas -> States]
  BY <1>1
     DEF ElectionTypeOK, States, TimerFires, ConnectFails, NotAcquired, Acquired, AfterError,
         AfterRelease,
         QueryFails, AttemptClosed, Promote, ActivationFailed, ReleaseUncertain, GivenUp
<1>4. retryTimer' \in [Replicas -> BOOLEAN]
  BY <1>1, Zenon
     DEF ElectionTypeOK, TimerFires, ConnectFails, NotAcquired, Acquired, EndAttempt, Retry,
         QueryFails, AttemptClosed, Promote, ActivationFailed, ReleaseUncertain, GivenUp
<1>5. client' \in [Replicas -> Sessions \cup {None}]
  BY <1>1
     DEF ElectionTypeOK, TimerFires, ConnectFails, NotAcquired, Acquired,
         QueryFails, AttemptClosed, Promote, ActivationFailed, ReleaseUncertain, GivenUp
<1>6. queue' \in [Replicas -> Seq(Transitions)]
  <2>1. \/ UNCHANGED queue
        \/ queue' = [queue EXCEPT ![r] = Append(queue[r], "activate")]
    BY DEF TimerFires, ConnectFails, NotAcquired, Acquired, QueryFails, AttemptClosed, Promote,
           ActivationFailed, ReleaseUncertain, GivenUp
  <2>2. "activate" \in Transitions
    BY DEF Transitions
  <2>3. queue \in [Replicas -> Seq(Transitions)]
    BY <1>1 DEF ElectionTypeOK
  <2>4. Append(queue[r], "activate") \in Seq(Transitions)
    BY <2>2, <2>3
  <2> QED BY <2>1, <2>3, <2>4
<1>7. acq \in [Replicas -> Shaped]
  BY <1>1 DEF ElectionTypeOK, Shaped
<1>8. acq' \in [Replicas -> Shaped]
  <2>1. CASE acq' = acq \/ acq' = [acq EXCEPT ![r] = NoAttempt]
    BY <2>1, <1>7 DEF Shaped, Attempts, NoAttempt
  <2>2. CASE TimerFires(r)
    <3>1. client[r] \in Sessions \cup {None}
      BY <1>1, Types
    <3>2. AttemptFrom(client[r]) \in Shaped
      BY <3>1 DEF Shaped, Attempts, AttemptFrom
    <3> QED BY <2>2, <1>7, <3>2 DEF TimerFires
  <2>3. CASE Acquired(r)
    <3>1. [acq[r] EXCEPT !.pc = "activate", !.res = "none"] \in Shaped
      BY <1>7, <2>3 DEF Shaped, Attempts, Acquired
    <3> QED BY <2>3, <1>7, <3>1 DEF Acquired
  <2>4. CASE QueryFails(r)
    <3>1. [acq[r] EXCEPT !.pc = "close", !.res = "none"] \in Shaped
      BY <1>7, <2>4 DEF Shaped, Attempts, QueryFails
    <3> QED BY <2>4, <1>7, <3>1, <2>1 DEF QueryFails, EndAttempt
  <2>5. CASE ActivationFailed(r)
    <3>1. [acq[r] EXCEPT !.pc = "unlock", !.res = "none"] \in Shaped
      BY <1>7, <2>5 DEF Shaped, Attempts, ActivationFailed
    <3> QED BY <2>5, <1>7, <3>1, <2>1 DEF ActivationFailed, EndAttempt
  <2>6. CASE ReleaseUncertain(r)
    <3>1. [acq[r] EXCEPT !.pc = "giveUp"] \in Shaped
      BY <1>7, <2>6 DEF Shaped, Attempts, ReleaseUncertain
    <3> QED BY <2>6, <1>7, <3>1 DEF ReleaseUncertain
  <2> QED BY <2>1, <2>2, <2>3, <2>4, <2>5, <2>6
          DEF ConnectFails, NotAcquired, AttemptClosed, Promote, GivenUp, EndAttempt
<1>9. /\ acq' \in [Replicas -> Attempts]
      /\ \A s \in Replicas : acq'[s].pc \notin {"no", "connect"} <=> acq'[s].c # None
  BY <1>8 DEF Shaped
<1>10. RuntimeTypeOK'
  BY <1>2 DEF IInv, TypeOK, RuntimeTypeOK, runtimeVars
<1>11. ElectionTypeOK'
  BY <1>1, <1>2, <1>3, <1>4, <1>5, <1>6, <1>9 DEF ElectionTypeOK
<1> QED BY <1>10, <1>11

\* A replica connects: the session is new to everybody.
LEMMA ConnectedInv ==
    ASSUME IInv, NEW r \in Replicas, NEW c \in Sessions, ElectionOnly, Connected(r, c)
    PROVE  \A s \in Replicas : ReplicaInv(s)'
<1>1. /\ ReplicaInv(r) /\ TypeOK
      /\ acq[r].pc \notin {"no", "connect"} <=> acq[r].c # None
      /\ c # None
  BY Types, ElectionAssumption DEF IInv
<1>2. /\ UNCHANGED <<up, state, stopped, retryTimer, loss, halt, queue, lock>>
      /\ UNCHANGED <<running, refs, starting, stopping, shut, begun>>
      /\ acq[r].pc = "connect" /\ loss[c] = "no"
      /\ c \notin alive /\ alive' = alive \cup {c}
      /\ \A s \in Replicas : c \notin {client[s], acq[s].c, halt[s].c}
  BY DEF Connected, Unused, ElectionOnly, runtimeVars
<1>3. owner'[c] = r /\ \A d \in Sessions \ {c} : owner'[d] = owner[d]
  BY <1>1 DEF Connected, TypeOK, ElectionTypeOK
<1>4. \A s \in Replicas, d \in Sessions : Handler(s, d)' = Handler(s, d)
  BY <1>2, <1>3 DEF Handler
<1>5. ReplicaInv(r)'
  <2>1. HandlersSame(r)
    BY <1>4, SameHandlers
  <2>2. client[r] = None /\ lock # c
    BY <1>1, <1>2 DEF ReplicaInv, Attempting, TypeOK, ElectionTypeOK
  <2>3. IF stopped[r] THEN /\ acq'[r] = [pc |-> "close", c |-> c, res |-> "none"]
                           /\ client'[r] = None
                      ELSE acq'[r] = AttemptFrom(c) /\ client'[r] = c
    BY <1>1, <2>2, Types DEF Connected
  <2>4. Ownership(r)'
    BY <1>1, <1>2, <1>3, <2>3, Types DEF ReplicaInv, Ownership, AttemptFrom
  <2> QED
    BY <1>1, <1>2, <2>1, <2>2, <2>3, <2>4
       DEF HandlersSame, ReplicaInv, Standing, Attempting, Locking, Losing, Callbacks, Epoch,
           Retrying, Running, StreamLive, AttemptFrom
<1>6. ASSUME NEW s \in Replicas \ {r} PROVE ReplicaInv(s)'
  <2>1. acq'[s] = acq[s] /\ client'[s] = client[s]
    BY <1>1, Types DEF Connected
  <2>2. LocalSame(s)
    BY <1>2, <2>1 DEF LocalSame
  <2>3. SessionsSame(s) /\ LockSame(s)
    BY <1>2, <1>3, <1>4 DEF SessionsSame, LockSame
  <2> QED BY <2>2, <2>3, Frame DEF IInv
<1> QED BY <1>5, <1>6

\* The lock is asked for, or given back after a failed activation.
LEMMA LockInv ==
    ASSUME IInv, NEW r \in Replicas, ElectionOnly, LockQueryRuns(r) \/ Released(r)
    PROVE  \A s \in Replicas : ReplicaInv(s)'
<1>1. /\ ReplicaInv(r) /\ TypeOK
      /\ acq[r].pc \notin {"no", "connect"} <=> acq[r].c # None
      /\ acq[r] \in Attempts
  BY Types DEF IInv
<1>2. /\ UNCHANGED <<up, stopped, client, loss, halt, queue, alive, owner>>
      /\ UNCHANGED <<running, refs, starting, stopping, shut, begun>>
      /\ acq[r].c \in alive /\ acq[r].c # None
      /\ lock \in {None, acq[r].c} \/ lock' = lock
      /\ lock' \in {lock, None, acq[r].c}
  BY <1>1 DEF ElectionOnly, runtimeVars, LockQueryRuns, Released
<1>3. HandlersSame(r)
  BY <1>2, SameHandlers DEF Handler
<1>4. ASSUME LockQueryRuns(r) PROVE ReplicaInv(r)'
  <2>1. /\ acq[r].pc = "query" /\ acq[r].res = "none"
        /\ UNCHANGED <<state, retryTimer>>
    BY <1>4 DEF LockQueryRuns
  <2>2. IF lock \in {None, acq[r].c}
        THEN lock' = acq[r].c /\ acq'[r] = [acq[r] EXCEPT !.res = "yes"]
        ELSE lock' = lock /\ acq'[r] = [acq[r] EXCEPT !.res = "no"]
    BY <1>1, <1>4, Types DEF LockQueryRuns
  <2>3. /\ acq'[r].pc = "query" /\ acq'[r].c = acq[r].c
        /\ IF lock \in {None, acq[r].c}
           THEN lock' = acq[r].c /\ acq'[r].res = "yes"
           ELSE lock' = lock /\ acq'[r].res = "no"
    BY <1>1, <2>1, <2>2 DEF Attempts
  <2> QED
    BY <1>1, <1>2, <1>3, <2>1, <2>3
       DEF HandlersSame, ReplicaInv, Ownership, Standing, Attempting, Locking, Losing,
           Callbacks, Epoch, Retrying, Running, StreamLive
<1>5. ASSUME Released(r) PROVE ReplicaInv(r)'
  <2>1. /\ acq[r].pc = "unlock" /\ lock' = None
        /\ state'[r] = AfterRelease(r) /\ acq'[r] = NoAttempt
        /\ retryTimer'[r] <=> retryTimer[r] \/ (~stopped[r] /\ AfterRelease(r) = "standby")
    BY <1>1, <1>5, Types DEF Released, EndAttempt, Retry
  <2> QED
    BY <1>1, <1>2, <1>3, <2>1
       DEF AfterRelease, NoAttempt, HandlersSame, ReplicaInv, Ownership, Standing, Attempting,
           Locking, Losing,
           Callbacks, Epoch, Retrying, Running, StreamLive
<1>6. ASSUME NEW s \in Replicas \ {r} PROVE ReplicaInv(s)'
  <2>1. /\ acq'[s] = acq[s] /\ state'[s] = state[s] /\ retryTimer'[s] = retryTimer[s]
    BY <1>1, Types DEF LockQueryRuns, Released, EndAttempt, Retry
  <2>2. LocalSame(s)
    BY <1>2, <2>1 DEF LocalSame
  <2>3. client[s] # None => client[s] # acq[r].c
    BY <1>1, <1>2 DEF IInv, ReplicaInv, Ownership
  <2>4. SessionsSame(s) /\ LockSame(s)
    BY <1>2, <2>3 DEF SessionsSame, LockSame, Handler
  <2> QED BY <2>2, <2>4, Frame DEF IInv
<1> QED BY <1>4, <1>5, <1>6

\* A session ends at PostgreSQL: its client will hear of it.
LEMMA SessionEndsInv ==
    ASSUME IInv, NEW c \in Sessions, ElectionOnly, SessionEnds(c)
    PROVE  \A s \in Replicas : ReplicaInv(s)'
<1> SUFFICES ASSUME NEW s \in Replicas PROVE ReplicaInv(s)'
  OBVIOUS
<1>1. LocalSame(s)
  BY DEF SessionEnds, ElectionOnly, electionVars, runtimeVars, LocalSame
<1>2. SessionsSame(s)
  BY DEF SessionEnds, ElectionOnly, electionVars, SessionsSame, Handler
<1>3. LockSame(s)
  BY DEF SessionEnds, LockSame
<1> QED BY <1>1, <1>2, <1>3, Frame DEF IInv

\* The client reports that its session is gone.
LEMMA ConnectionLostInv ==
    ASSUME IInv, NEW r \in Replicas, NEW c \in Sessions, ElectionOnly, ConnectionLost(r, c)
    PROVE  \A s \in Replicas : ReplicaInv(s)'
<1>1. /\ ReplicaInv(r) /\ TypeOK
      /\ c # None
  BY ElectionAssumption DEF IInv
<1>2. /\ UNCHANGED <<up, stopped, retryTimer, acq, halt, lock, alive, owner>>
      /\ UNCHANGED <<running, refs, starting, stopping, shut, begun>>
      /\ up[r] /\ client[r] = c /\ client'[r] = None
  BY <1>1, Types DEF ConnectionLost, ElectionOnly, pgVars, runtimeVars
<1>3. owner[c] = r /\ ~stopped[r]
  BY <1>1, <1>2 DEF ReplicaInv, Ownership, Standing
<1>4. ReplicaInv(r)'
  <2>1. ~Deactivating(r) /\ ~Settled(r)
    BY <1>1, <1>2, <1>3 DEF ReplicaInv, Losing, Attempting
  <2>2. CASE state[r] \in {"activating", "leader"}
    <3>1. /\ state'[r] = "deactivating" /\ queue'[r] = Append(queue[r], "deactivate")
          /\ loss' = [loss EXCEPT ![c] = "deactivating"]
      BY <1>1, <2>2, Types DEF ConnectionLost
    <3>2. /\ Handler(r, c)' = "deactivating"
          /\ \A d \in Sessions \ {c} : Handler(r, d)' = Handler(r, d)
      BY <1>1, <1>2, <1>3, <3>1 DEF Handler, TypeOK, ElectionTypeOK
    <3>3. Handling(r)' /\ Deactivating(r)' /\ ~Settled(r)' /\ Alone(r)'
      BY <2>1, <3>2 DEF Handling, Deactivating, Settled, Alone
    <3>4. /\ queue[r] \in {<<>>, <<"activate">>}
          /\ queue'[r] \in Queues
          /\ queue'[r] \in {<<"activate">>, <<"activate", "deactivate">>}
                 <=> queue[r] \in {<<"activate">>, <<"activate", "deactivate">>}
          /\ queue'[r] \in {<<"deactivate">>, <<"activate", "deactivate">>}
          /\ begun[r] => Running(r, "activate")' /\ ~Running(r, "deactivate")'
                         /\ Running(r, "activate") /\ ~Running(r, "deactivate")
          /\ queue'[r] # <<>>
      BY <1>1, <2>1, <3>1, QueueFacts DEF ReplicaInv, Callbacks, Queues, Running
    <3>5. Callbacks(r)'
      BY <1>1, <1>2, <3>3, <3>4, QueueFacts DEF ReplicaInv, Callbacks
    <3> QED
      BY <1>1, <1>2, <1>3, <2>1, <2>2, <3>1, <3>3, <3>5
         DEF ReplicaInv, Ownership, Standing, Attempting, Locking, Losing, Epoch, Retrying,
             StreamLive
  <2>3. CASE state[r] \notin {"activating", "leader"}
    <3>1. /\ state'[r] = "standby" /\ queue'[r] = queue[r]
          /\ loss' = [loss EXCEPT ![c] = "closing"]
      BY <1>1, <2>3, Types DEF ConnectionLost
    <3>2. /\ Handler(r, c)' = "closing"
          /\ \A d \in Sessions \ {c} : Handler(r, d)' = Handler(r, d)
      BY <1>1, <1>2, <1>3, <3>1 DEF Handler, TypeOK, ElectionTypeOK
    <3>3. Handling(r)' /\ ~Deactivating(r)' /\ ~Settled(r)' /\ Alone(r)'
      BY <2>1, <3>2 DEF Handling, Deactivating, Settled, Alone
    <3>4. state[r] = "standby"
      BY <1>1, <1>2, <1>3, <2>1, <2>3
         DEF ReplicaInv, Standing, Losing, TypeOK, ElectionTypeOK, States
    <3> QED
      BY <1>1, <1>2, <1>3, <2>1, <3>1, <3>3, <3>4
         DEF ReplicaInv, Ownership, Standing, Attempting, Locking, Losing, Callbacks, Epoch,
             Retrying, Running, StreamLive
  <2> QED BY <2>2, <2>3
<1>5. ASSUME NEW s \in Replicas \ {r} PROVE ReplicaInv(s)'
  <2>1. client'[s] = client[s] /\ state'[s] = state[s] /\ queue'[s] = queue[s]
    BY <1>1, Types DEF ConnectionLost
  <2>2. LocalSame(s)
    BY <1>2, <2>1 DEF LocalSame
  <2>3. \A d \in Sessions \ {c} : loss'[d] = loss[d]
    BY <1>1 DEF ConnectionLost, TypeOK, ElectionTypeOK
  <2>4. SessionsSame(s) /\ LockSame(s)
    BY <1>2, <1>3, <2>3 DEF SessionsSame, LockSame, Handler
  <2> QED BY <2>2, <2>4, Frame DEF IInv
<1> QED BY <1>4, <1>5

\* A connection-loss handler ends.
LEMMA LossEndsInv ==
    ASSUME IInv, NEW r \in Replicas, NEW c \in Sessions, ElectionOnly,
           StandbyLossClosed(r, c) \/ Deactivated(r, c)
    PROVE  \A s \in Replicas : ReplicaInv(s)'
<1>1. ReplicaInv(r) /\ TypeOK
  BY DEF IInv
<1>2. /\ UNCHANGED <<up, stopped, client, acq, halt, queue, lock, alive, owner>>
      /\ UNCHANGED <<running, refs, starting, stopping, shut, begun>>
      /\ owner[c] = r /\ loss' = [loss EXCEPT ![c] = "no"]
  BY DEF StandbyLossClosed, Deactivated, ElectionOnly, pgVars, runtimeVars
<1>3. /\ Handler(r, c)' = "no" /\ Handler(r, c) = loss[c]
      /\ \A d \in Sessions \ {c} : loss'[d] = loss[d] /\ Handler(r, d)' = Handler(r, d)
  BY <1>1, <1>2 DEF Handler, TypeOK, ElectionTypeOK
<1>4. ASSUME StandbyLossClosed(r, c) PROVE ReplicaInv(r)'
  <2>1. /\ loss[c] = "closing" /\ state' = state
        /\ retryTimer'[r] <=> retryTimer[r] \/ (~stopped[r] /\ state[r] = "standby")
    BY <1>1, <1>4, Types DEF StandbyLossClosed, Retry
  <2>2. /\ Deactivating(r)' <=> Deactivating(r)
        /\ Settled(r)' <=> Settled(r)
        /\ Alone(r)' <=> Alone(r)
        /\ Handling(r)
    BY <1>3, <2>1 DEF Handling, Deactivating, Settled, Alone
  <2> QED
    BY <1>1, <1>2, <2>1, <2>2
       DEF ReplicaInv, Ownership, Standing, Attempting, Locking, Losing, Callbacks, Epoch,
           Retrying,
           Running, StreamLive
<1>5. ASSUME Deactivated(r, c) PROVE ReplicaInv(r)'
  <2>1. /\ loss[c] = "done"
        /\ IF stopped[r] THEN state' = state /\ retryTimer' = retryTimer
                         ELSE state'[r] = "standby" /\ retryTimer'[r]
    BY <1>1, <1>5, Types DEF Deactivated, Retry
  <2>2. /\ Settled(r) /\ ~Deactivating(r) /\ Handling(r)
        /\ ~Settled(r)' /\ ~Deactivating(r)' /\ Alone(r)'
    BY <1>1, <1>3, <2>1 DEF ReplicaInv, Losing, Handling, Deactivating, Settled, Alone
  <2> QED
    BY <1>1, <1>2, <2>1, <2>2
       DEF ReplicaInv, Ownership, Standing, Attempting, Locking, Losing, Callbacks, Epoch,
           Retrying,
           Running, StreamLive
<1>6. ASSUME NEW s \in Replicas \ {r} PROVE ReplicaInv(s)'
  <2>1. state'[s] = state[s] /\ retryTimer'[s] = retryTimer[s]
    BY <1>1, Types DEF StandbyLossClosed, Deactivated, Retry
  <2>2. LocalSame(s)
    BY <1>2, <2>1 DEF LocalSame
  <2>3. SessionsSame(s) /\ LockSame(s)
    BY <1>2, <1>3 DEF SessionsSame, LockSame, Handler
  <2> QED BY <2>2, <2>3, Frame DEF IInv
<1> QED BY <1>4, <1>5, <1>6

\* A process starts.
LEMMA BootInv ==
    ASSUME IInv, NEW r \in Replicas, Boot(r)
    PROVE  \A s \in Replicas : ReplicaInv(s)'
<1>1. ReplicaInv(r) /\ TypeOK
  BY DEF IInv
<1>2. /\ UNCHANGED <<retryTimer, client, loss, halt, queue, lock, alive, owner>>
      /\ UNCHANGED <<running, refs, starting, stopping, shut, begun>>
      /\ ~up[r]
      /\ up'[r] /\ ~stopped'[r] /\ state'[r] = "standby" /\ acq'[r] = AttemptFrom(None)
  BY <1>1, Types DEF Boot, ElectionStart, ElectionOnly, pgVars, runtimeVars
<1>3. HandlersSame(r)
  BY <1>2, SameHandlers DEF Handler
<1>4. Callbacks(r)' /\ Losing(r)'
  <2>1. ~Deactivating(r) /\ ~Settled(r) /\ queue[r] = <<>>
    BY <1>1, <1>2 DEF ReplicaInv, Standing, Handling, Deactivating, Settled
  <2> QED
    BY <1>1, <1>2, <1>3, <2>1, QueueFacts
       DEF HandlersSame, ReplicaInv, Standing, Losing, Callbacks, Running, AttemptFrom
<1>5. ReplicaInv(r)'
  BY <1>1, <1>2, <1>3, <1>4
     DEF HandlersSame, ReplicaInv, Ownership, Standing, Attempting, Locking, Epoch, Retrying,
         StreamLive, AttemptFrom
<1>6. \A s \in Replicas \ {r} : LocalSame(s)
  <2>1. \A s \in Replicas \ {r} : /\ up'[s] = up[s] /\ stopped'[s] = stopped[s]
                                  /\ state'[s] = state[s] /\ acq'[s] = acq[s]
    BY <1>1, Types DEF Boot, ElectionStart
  <2> QED BY <1>2, <2>1 DEF LocalSame
<1> QED BY <1>2, <1>5, <1>6, QuietOthers

\* A process ends.
LEMMA ProcessGoneInv ==
    ASSUME IInv, NEW r \in Replicas, ProcessGone(r)
    PROVE  \A s \in Replicas : ReplicaInv(s)'
<1>1. ReplicaInv(r) /\ TypeOK
  BY DEF IInv
<1>2. /\ UNCHANGED <<lock, alive, owner>>
      /\ loss' = [c \in Sessions |-> IF owner[c] = r THEN "no" ELSE loss[c]]
      /\ ~up'[r] /\ stopped'[r] /\ state'[r] = "stopped" /\ client'[r] = None
      /\ acq'[r] = NoAttempt /\ halt'[r] = NoHalt /\ queue'[r] = <<>>
      /\ ~running'[r] /\ refs'[r] = {} /\ starting'[r] = "no"
      /\ stopping'[r] = [w \in Stoppers |-> NoStop]
      /\ shut'[r] = "no" /\ ~begun'[r]
  BY <1>1, Types DEF ProcessGone, ElectionGone, RuntimeGone, pgVars
<1>3. ReplicaInv(r)'
  <2>1. \A c \in Sessions : Handler(r, c)' = "no"
    BY <1>2 DEF Handler
  <2>2. ~Handling(r)' /\ ~Deactivating(r)' /\ ~Settled(r)' /\ Alone(r)'
    BY <2>1 DEF Handling, Deactivating, Settled, Alone
  <2>3. ~stopping'[r]["lost"].active
    BY <1>2 DEF Stoppers, NoStop
  <2>4. Callbacks(r)'
    BY <1>2, <2>2, <2>3, QueueFacts DEF Callbacks, Running, Queues, NoAttempt
  <2> QED
    BY <1>2, <2>2, <2>3, <2>4
       DEF ReplicaInv, Ownership, Standing, Attempting, Locking, Losing, Epoch, Retrying,
           StreamLive, NoAttempt, NoHalt
<1>4. ASSUME NEW s \in Replicas \ {r} PROVE ReplicaInv(s)'
  <2>1. LocalSame(s)
    BY <1>1, Types DEF ProcessGone, ElectionGone, RuntimeGone, LocalSame
  <2>2. SessionsSame(s) /\ LockSame(s)
    BY <1>2 DEF SessionsSame, LockSame, Handler
  <2> QED BY <2>1, <2>2, Frame DEF IInv
<1> QED BY <1>3, <1>4

\* The activation callback, and the start() it calls.
LEMMA ActivateInv ==
    ASSUME IInv, NEW r \in Replicas,
           CallActivate(r) \/ ActivateSettles(r) \/ CleanUp(r) \/ StartFault(r)
    PROVE  \A s \in Replicas : ReplicaInv(s)'
<1>1. /\ ReplicaInv(r) /\ TypeOK
      /\ acq[r] \in Attempts
  BY Types DEF IInv
<1>2. UNCHANGED <<up, state, stopped, retryTimer, client, loss, halt, lock, alive, owner, shut,
                  stopping>>
  BY DEF CallActivate, ActivateSettles, CleanUp, StartFault, StartReturns, StartBegins,
         StartCompletes, StartRejects, CleanupStep, StartFails, ActivationSettles, RuntimeOnly,
         electionVars, pgVars, runtimeVars
<1>3. HandlersSame(r)
  BY <1>2, SameHandlers DEF Handler
<1>4. ASSUME Running(r, "activate")
      PROVE  /\ acq[r].pc = "activate" /\ up[r]
             /\ queue[r] \in {<<"activate">>, <<"activate", "deactivate">>}
             /\ starting[r] # "no" <=> begun[r]
             /\ ~stopping[r]["lost"].active
             /\ shut[r] = "no" => ~running[r] /\ ~StreamLive(r)
  BY <1>1, <1>4, QueueFacts DEF ReplicaInv, Standing, Callbacks, Epoch, Queues, Running
\* The callback settles: the attempt resumes and the queue moves on.
<1>5. ASSUME NEW res, ActivationSettles(r, res), ~begun'[r], starting'[r] = "no"
      PROVE  /\ acq'[r].pc = "resume" /\ acq'[r].c = acq[r].c /\ acq'[r].res = res
             /\ Callbacks(r)'
  <2>1. /\ Running(r, "activate") /\ queue'[r] = Tail(queue[r])
        /\ acq'[r] = [acq[r] EXCEPT !.pc = "resume", !.res = res]
    BY <1>1, <1>5, Types DEF ActivationSettles
  <2>2. acq'[r].pc = "resume" /\ acq'[r].c = acq[r].c /\ acq'[r].res = res
    BY <1>1, <2>1 DEF Attempts
  <2>3. /\ queue'[r] \in {<<>>, <<"deactivate">>}
        /\ queue'[r] = <<"deactivate">> <=> queue[r] = <<"activate", "deactivate">>
    BY <1>4, <2>1, QueueFacts
  <2>4. ~Running(r, "activate")'
    BY <2>3, QueueFacts DEF Running
  <2> QED
    BY <1>1, <1>2, <1>3, <1>4, <1>5, <2>1, <2>2, <2>3, <2>4, QueueFacts
       DEF ReplicaInv, Callbacks, Queues, HandlersSame
<1>6. ASSUME StartReturns(r), ActivationSettles(r, "ok"), UNCHANGED begun, ~begun[r]
      PROVE  ReplicaInv(r)'
  <2>1. /\ Running(r, "activate") /\ running[r] /\ UNCHANGED <<running, refs, starting>>
        /\ ~begun'[r]
    BY <1>6 DEF StartReturns, ActivationSettles, runtimeVars
  <2>2. /\ acq[r].pc = "activate" /\ starting'[r] = "no" /\ shut[r] # "no" /\ up[r]
        /\ starting[r] = "no" /\ ~begun[r]
    BY <1>4, <1>6, <2>1
  <2>3. acq'[r].pc = "resume" /\ acq'[r].c = acq[r].c /\ Callbacks(r)'
    BY <1>5, <1>6, <2>1, <2>2
  <2> QED
    BY <1>1, <1>2, <1>3, <2>1, <2>2, <2>3
       DEF ReplicaInv, Ownership, Standing, Attempting, Locking, Losing, Epoch, Retrying,
           HandlersSame
<1>7. ASSUME StartBegins(r), Running(r, "activate"), ~begun[r], begun' = [begun EXCEPT ![r] = TRUE],
             UNCHANGED <<electionVars, pgVars>>
      PROVE  ReplicaInv(r)'
  <2>1. /\ UNCHANGED <<acq, queue, running>> /\ begun'[r] /\ starting'[r] = "connecting"
        /\ refs'[r] = refs[r] \cup {"redis", "kafka"}
    BY <1>1, <1>7, Types DEF StartBegins, electionVars
  <2>2. shut[r] = "no" => refs[r] = {} /\ refs'[r] = {"kafka", "redis"}
    BY <1>1, <1>4, <1>7, <2>1 DEF ReplicaInv, Epoch, StreamLive, ResourceNames
  <2>3. Callbacks(r)'
    BY <1>1, <1>2, <1>3, <1>4, <1>7, <2>1, QueueFacts
       DEF ReplicaInv, Callbacks, HandlersSame, Running
  <2>4. shut[r] = "no" => ~StreamLive(r)' /\ ~running'[r]
    BY <1>4, <1>7, <2>1, <2>2 DEF StreamLive
  <2>5. Epoch(r)'
    BY <1>2, <1>4, <1>7, <2>1, <2>2, <2>4 DEF Epoch
  <2> QED
    BY <1>1, <1>2, <1>3, <1>4, <1>7, <2>1, <2>3, <2>5
       DEF ReplicaInv, Ownership, Standing, Attempting, Locking, Losing, Retrying, HandlersSame
<1>8. ASSUME StartCompletes(r), ActivationSettles(r, "ok"), begun' = [begun EXCEPT ![r] = FALSE]
      PROVE  ReplicaInv(r)'
  <2>1. /\ Running(r, "activate") /\ ~begun'[r] /\ starting[r] = "connecting" /\ starting'[r] = "no"
        /\ running'[r] /\ refs'[r] = refs[r] \cup {"stream"}
    BY <1>1, <1>8, Types DEF StartCompletes, ActivationSettles
  <2>2. acq'[r].pc = "resume" /\ acq'[r].c = acq[r].c /\ acq'[r].res = "ok" /\ Callbacks(r)'
    BY <1>5, <1>8, <2>1
  <2>3. shut[r] = "no" => refs'[r] = ResourceNames
    BY <1>1, <2>1 DEF ReplicaInv, Epoch, ResourceNames
  <2>4. shut[r] = "no" => ~stopped[r] /\ state[r] \in {"activating", "deactivating"}
    BY <1>1, <1>4, <2>1 DEF ReplicaInv, Standing, Attempting
  <2>5. state[r] = "deactivating" /\ ~stopped[r] => Deactivating(r)
    BY <1>1, <1>4, <2>1 DEF ReplicaInv, Losing, Callbacks
  <2>6. Epoch(r)'
    BY <1>2, <1>3, <1>4, <2>1, <2>2, <2>3, <2>4, <2>5
       DEF Epoch, StreamLive, HandlersSame, ResourceNames
  <2> QED
    BY <1>1, <1>2, <1>3, <1>4, <2>1, <2>2, <2>6
       DEF ReplicaInv, Ownership, Standing, Attempting, Locking, Losing, Retrying, HandlersSame
<1>9. ASSUME StartRejects(r), ActivationSettles(r, "fail"), begun' = [begun EXCEPT ![r] = FALSE]
      PROVE  ReplicaInv(r)'
  <2>1. /\ Running(r, "activate") /\ ~begun'[r] /\ starting[r] = "cleanup" /\ starting'[r] = "no"
        /\ UNCHANGED <<running, refs>>
    BY <1>1, <1>9, Types DEF StartRejects, ActivationSettles
  <2>2. acq'[r].pc = "resume" /\ acq'[r].c = acq[r].c /\ Callbacks(r)'
    BY <1>5, <1>9, <2>1
  <2>3. Epoch(r)'
    BY <1>1, <1>2, <1>4, <2>1 DEF ReplicaInv, Epoch, StreamLive
  <2> QED
    BY <1>1, <1>2, <1>3, <1>4, <2>1, <2>2, <2>3
       DEF ReplicaInv, Ownership, Standing, Attempting, Locking, Losing, Retrying, HandlersSame
<1>10. ASSUME CleanUp(r) PROVE ReplicaInv(r)'
  <2>1. UNCHANGED <<acq, queue, running, refs, starting, begun>>
    BY <1>10 DEF CleanUp, CleanupStep, RuntimeOnly, electionVars
  <2> QED
    BY <1>1, <1>2, <1>3, <2>1
       DEF ReplicaInv, Ownership, Standing, Attempting, Locking, Losing, Callbacks, Epoch,
           Retrying,
           HandlersSame, StreamLive, Running
<1>11. ASSUME StartFault(r) PROVE ReplicaInv(r)'
  <2>1. /\ UNCHANGED <<acq, queue, begun>>
        /\ starting[r] = "connecting" /\ starting'[r] = "cleanup" /\ ~running'[r] /\ refs'[r] = {}
    BY <1>1, <1>11, Types DEF StartFault, StartFails, RuntimeOnly, electionVars
  <2>2. up[r] /\ Callbacks(r)'
    BY <1>1, <1>2, <1>3, <2>1 DEF ReplicaInv, Standing, Callbacks, HandlersSame, Running
  <2>3. Epoch(r)'
    BY <2>1 DEF Epoch, StreamLive
  <2> QED
    BY <1>1, <1>2, <1>3, <2>1, <2>2, <2>3
       DEF ReplicaInv, Ownership, Standing, Attempting, Locking, Losing, Retrying, HandlersSame
<1>12. \A s \in Replicas \ {r} : LocalSame(s)
  BY <1>1, <1>2, Types
     DEF LocalSame, CallActivate, ActivateSettles, CleanUp, StartFault, StartReturns, StartBegins,
         StartCompletes, StartRejects, CleanupStep, StartFails, ActivationSettles, RuntimeOnly,
         electionVars, pgVars, runtimeVars
<1>13. ReplicaInv(r)'
  BY <1>6, <1>7, <1>8, <1>9, <1>10, <1>11 DEF CallActivate, ActivateSettles
<1> QED BY <1>2, <1>12, <1>13, QuietOthers

\* The deactivation callback, and the stop() it calls.
LEMMA DeactivateInv ==
    ASSUME IInv, NEW r \in Replicas, CallDeactivate(r) \/ DeactivateSettles(r)
    PROVE  \A s \in Replicas : ReplicaInv(s)'
<1>1. /\ ReplicaInv(r) /\ TypeOK
      /\ stopping \in [Replicas -> [Stoppers -> StopTask]] /\ "lost" \in Stoppers
  BY DEF IInv, TypeOK, RuntimeTypeOK, Stoppers
<1>2. /\ UNCHANGED <<up, state, stopped, retryTimer, client, acq, halt, lock, alive, owner, shut>>
      /\ UNCHANGED starting
      /\ Running(r, "deactivate")
  BY
     DEF CallDeactivate, DeactivateSettles, StopBegins, StopEnds, DeactivationSettles,
         electionVars,
         pgVars
<1>3. /\ acq[r].pc # "activate" /\ up[r] /\ queue[r] = <<"deactivate">> /\ Deactivating(r)
      /\ starting[r] = "no"
      /\ stopping[r]["lost"].active <=> begun[r]
      /\ ~Running(r, "activate")
  BY <1>1, <1>2, QueueFacts DEF ReplicaInv, Standing, Callbacks, Queues, Running
<1>4. ASSUME CallDeactivate(r) PROVE ReplicaInv(r)'
  <2>1. /\ UNCHANGED <<loss, queue>> /\ begun'[r] /\ ~running'[r] /\ refs'[r] = {}
    BY <1>1, <1>4, Types DEF CallDeactivate, StopBegins, electionVars
  <2>2. stopping'[r]["lost"].active
    BY <1>1, <1>4 DEF CallDeactivate, StopBegins
  <2>3. HandlersSame(r)
    BY <1>2, <2>1, SameHandlers DEF Handler
  <2>4. Callbacks(r)'
    BY <1>1, <1>2, <1>3, <2>1, <2>2, <2>3, QueueFacts
       DEF ReplicaInv, Callbacks, HandlersSame, Running
  <2>5. Epoch(r)'
    BY <1>2, <1>3, <2>1 DEF Epoch, StreamLive
  <2> QED
    BY <1>1, <1>2, <1>3, <2>1, <2>3, <2>4, <2>5
       DEF ReplicaInv, Ownership, Standing, Attempting, Locking, Losing, Retrying, HandlersSame
<1>5. ASSUME DeactivateSettles(r) PROVE ReplicaInv(r)'
  <2>1. /\ UNCHANGED <<running, refs>> /\ ~begun'[r] /\ queue'[r] = Tail(queue[r])
        /\ loss' = [c \in Sessions |->
                       IF owner[c] = r /\ loss[c] = "deactivating"
                       THEN IF stopping[r]["lost"].failed THEN "failed" ELSE "done" ELSE loss[c]]
    BY <1>1, <1>5, Types DEF DeactivateSettles, StopEnds, DeactivationSettles
  <2>2. stopping[r]["lost"].active /\ ~stopping'[r]["lost"].active
    BY <1>1, <1>5 DEF DeactivateSettles, StopEnds, NoStop
  <2>3. \A c \in Sessions : IF Handler(r, c) = "deactivating"
                            THEN Handler(r, c)' \in {"done", "failed"}
                            ELSE Handler(r, c)' = Handler(r, c)
    BY <1>2, <2>1 DEF Handler
  <2>4. Handling(r)' /\ ~Deactivating(r)' /\ Settled(r)' /\ Handling(r)
    BY <1>3, <2>3 DEF Handling, Deactivating, Settled
  <2>5. Alone(r)'
    BY <1>1, <2>3 DEF ReplicaInv, Losing, Alone
  <2>6. queue'[r] = <<>>
    BY <1>3, <2>1, QueueFacts
  <2>7. Callbacks(r)'
    BY <1>2, <1>3, <2>1, <2>2, <2>4, <2>6, QueueFacts DEF Callbacks, Queues, Running
  <2>8. Epoch(r)'
    BY <1>1, <1>2, <2>1, <2>2 DEF ReplicaInv, Epoch, StreamLive
  <2> QED
    BY <1>1, <1>2, <1>3, <2>1, <2>4, <2>5, <2>7, <2>8
       DEF ReplicaInv, Ownership, Standing, Attempting, Locking, Losing, Retrying
<1>6. ASSUME NEW s \in Replicas \ {r} PROVE ReplicaInv(s)'
  <2>1. /\ running'[s] = running[s] /\ refs'[s] = refs[s] /\ stopping'[s] = stopping[s]
        /\ begun'[s] = begun[s] /\ queue'[s] = queue[s]
    BY <1>1, Types
       DEF CallDeactivate, DeactivateSettles, StopBegins, StopEnds, DeactivationSettles,
                       electionVars
  <2>2. \A c \in Sessions : owner[c] = s => loss'[c] = loss[c]
    BY DEF CallDeactivate, DeactivateSettles, DeactivationSettles, electionVars
  <2>3. LocalSame(s)
    BY <1>2, <2>1 DEF LocalSame
  <2>4. SessionsSame(s) /\ LockSame(s)
    BY <1>2, <2>2 DEF SessionsSame, LockSame, Handler
  <2> QED BY <2>3, <2>4, Frame DEF IInv
<1> QED BY <1>4, <1>5, <1>6

\* One resource after the other is stopped.
LEMMA StopStepInv ==
    ASSUME IInv, NEW r \in Replicas, StopResource(r) \/ StopFault(r)
    PROVE  \A s \in Replicas : ReplicaInv(s)'
<1>1. /\ ReplicaInv(r) /\ TypeOK
      /\ stopping \in [Replicas -> [Stoppers -> StopTask]] /\ "lost" \in Stoppers
  BY DEF IInv, TypeOK, RuntimeTypeOK, Stoppers
<1>2. PICK w \in Stoppers, fails \in BOOLEAN : StopStep(r, w, fails)
  BY DEF StopResource, StopFault
<1>3. /\ UNCHANGED <<up, state, stopped, retryTimer, client, acq, loss, halt, queue>>
      /\ UNCHANGED <<lock, alive, owner>>
      /\ UNCHANGED <<running, refs, starting, shut, begun>>
  BY DEF StopResource, StopFault, StopStep, RuntimeOnly, electionVars, pgVars
<1>4. stopping'[r]["lost"].active = stopping[r]["lost"].active
  BY <1>1, <1>2 DEF StopStep, StopTask
<1>5. HandlersSame(r)
  BY <1>3, SameHandlers DEF Handler
<1>6. ReplicaInv(r)'
  BY <1>1, <1>3, <1>4, <1>5
     DEF ReplicaInv, Ownership, Standing, Attempting, Locking, Losing, Callbacks, Epoch, Retrying,
         HandlersSame, StreamLive, Running
<1>7. \A s \in Replicas \ {r} : LocalSame(s)
  BY <1>1, <1>2, <1>3 DEF LocalSame, StopStep
<1> QED BY <1>3, <1>6, <1>7, QuietOthers

\* The shutdown sequence.
LEMMA ShutdownInv ==
    ASSUME IInv, NEW r \in Replicas,
           \/ Sigterm(r) \/ ShutdownRuntimeStopped(r) \/ ShutdownElection(r) \/ ShutdownPrisma(r)
    PROVE  \A s \in Replicas : ReplicaInv(s)'
<1>1. /\ ReplicaInv(r) /\ TypeOK
      /\ stopping \in [Replicas -> [Stoppers -> StopTask]]
      /\ "lost" \in Stoppers /\ "shutdown" \in Stoppers
  BY DEF IInv, TypeOK, RuntimeTypeOK, Stoppers
<1>2. UNCHANGED <<up, acq, loss, queue, lock, alive, owner, starting, begun>>
  BY DEF Sigterm, ShutdownRuntimeStopped, ShutdownElection, ShutdownPrisma, StopBegins, StopEnds,
         ElectionStop, electionVars, pgVars, runtimeVars
<1>3. HandlersSame(r)
  BY <1>2, SameHandlers DEF Handler
<1>4. stopping'[r]["lost"] = stopping[r]["lost"]
  BY <1>1
     DEF Sigterm, ShutdownRuntimeStopped, ShutdownElection, ShutdownPrisma, StopBegins, StopEnds,
              runtimeVars
<1>5. shut'[r] # "no" /\ up[r]
  BY <1>1, Types
     DEF ReplicaInv, Standing, Sigterm, ShutdownRuntimeStopped, ShutdownElection, ShutdownPrisma
<1>6. Callbacks(r)' /\ Epoch(r)'
  BY <1>1, <1>2, <1>3, <1>4, <1>5 DEF ReplicaInv, Callbacks, Epoch, HandlersSame, Running
<1>7. ReplicaInv(r)'
  <2>1. CASE ShutdownElection(r)
    <3>1. /\ stopped'[r] /\ state'[r] = "stopped" /\ client'[r] = None /\ shut'[r] = "election"
          /\ halt'[r].c # None => halt'[r].c = client[r]
      BY <1>1, <2>1, Types DEF ShutdownElection, ElectionStop, NoHalt
    <3> QED
      BY <1>1, <1>2, <1>3, <1>5, <1>6, <3>1
         DEF ReplicaInv, Ownership, Standing, Attempting, Locking, Losing, Retrying, HandlersSame
  <2>2. CASE ~ShutdownElection(r)
    <3>1. /\ UNCHANGED <<state, stopped, retryTimer, client, halt>>
          /\ shut'[r] \in {"election", "prisma"} <=> shut[r] \in {"election", "prisma"}
      BY <1>1, <2>2, Types
         DEF Sigterm, ShutdownRuntimeStopped, ShutdownPrisma, electionVars
    <3> QED
      BY <1>1, <1>2, <1>3, <1>5, <1>6, <3>1
         DEF ReplicaInv, Ownership, Standing, Attempting, Locking, Losing, Retrying, HandlersSame
  <2> QED BY <2>1, <2>2
<1>8. \A s \in Replicas \ {r} : LocalSame(s)
  BY <1>1, <1>2, Types
     DEF LocalSame, Sigterm, ShutdownRuntimeStopped, ShutdownElection, ShutdownPrisma, StopBegins,
         StopEnds, ElectionStop, electionVars, pgVars, runtimeVars
<1> QED BY <1>2, <1>7, <1>8, QuietOthers

\* stop() of the election releases the lock and closes the session.
LEMMA HaltInv ==
    ASSUME IInv, NEW r \in Replicas, ElectionHalts(r)
    PROVE  \A s \in Replicas : ReplicaInv(s)'
<1>1. /\ ReplicaInv(r) /\ TypeOK
      /\ halt[r].pc # "no" <=> halt[r].c # None
  BY Types DEF IInv
<1>2. /\ UNCHANGED <<up, state, stopped, retryTimer, client, acq, loss, queue, alive, owner>>
      /\ UNCHANGED <<running, refs, starting, stopping, shut, begun>>
      /\ halt[r].pc # "no"
      /\ lock' = lock \/ (lock = halt[r].c /\ lock' = None)
      /\ halt'[r].c # None => halt'[r].c = halt[r].c
      /\ \A s \in Replicas \ {r} : halt'[s] = halt[s]
  BY <1>1, Types
     DEF ElectionHalts, HaltUnlocked, HaltClosed, ElectionOnly, pgVars, runtimeVars, Halts, NoHalt
<1>3. HandlersSame(r)
  BY <1>2, SameHandlers DEF Handler
<1>4. client[r] = None /\ stopped[r] /\ up[r]
  BY <1>1, <1>2 DEF ReplicaInv, Standing
<1>5. ReplicaInv(r)'
  BY <1>1, <1>2, <1>3, <1>4
     DEF ReplicaInv, Ownership, Standing, Attempting, Locking, Losing, Callbacks, Epoch, Retrying,
         HandlersSame, StreamLive, Running
<1>6. ASSUME NEW s \in Replicas \ {r} PROVE ReplicaInv(s)'
  <2>1. LocalSame(s)
    BY <1>2 DEF LocalSame
  <2>2. client[s] # None => client[s] # halt[r].c
    BY <1>1, <1>2 DEF IInv, ReplicaInv, Ownership
  <2>3. SessionsSame(s) /\ LockSame(s)
    BY <1>2, <2>2 DEF SessionsSame, LockSame, Handler
  <2> QED BY <2>1, <2>3, Frame DEF IInv
<1> QED BY <1>5, <1>6

-----------------------------------------------------------------------------
(* Types *)

\* The rest of the election keeps its types.
LEMMA ElectionTypes ==
    ASSUME IInv, NEW r \in Replicas,
           \/ \E c \in Sessions : \/ Connected(r, c) \/ ConnectionLost(r, c)
                                  \/ StandbyLossClosed(r, c) \/ Deactivated(r, c)
           \/ LockQueryRuns(r) \/ Released(r) \/ Boot(r)
           \/ ElectionGone(r)
           \/ \E res \in {"ok", "fail"} : ActivationSettles(r, res)
           \/ \E failed : DeactivationSettles(r, failed)
           \/ UNCHANGED up /\ ElectionStop(r)
           \/ HaltUnlocked(r) \/ HaltClosed(r)
    PROVE  ElectionTypeOK'
<1> USE DEF ElectionTypeOK
<1>1. /\ ElectionTypeOK
      /\ acq \in [Replicas -> Shaped]
  BY DEF IInv, TypeOK, Shaped
<1>2. ASSUME NEW c \in Sessions, Connected(r, c) PROVE ElectionTypeOK'
  <2>1. AttemptFrom(c) \in Shaped /\ [pc |-> "close", c |-> c, res |-> "none"] \in Shaped
    BY ElectionAssumption DEF AttemptFrom, Shaped, Attempts
  <2>2. acq' \in [Replicas -> Shaped]
    BY <1>1, <1>2, <2>1 DEF Connected
  <2>3. /\ client' \in [Replicas -> Sessions \cup {None}]
        /\ owner' \in [Sessions -> Replicas \cup {None}]
    BY <1>1, <1>2 DEF Connected
  <2> QED BY <1>1, <1>2, <2>2, <2>3 DEF Connected, Shaped
<1>3. ASSUME NEW c \in Sessions, ConnectionLost(r, c) PROVE ElectionTypeOK'
  <2>1. queue' \in [Replicas -> Seq(Transitions)]
    <3>1. queue \in [Replicas -> Seq(Transitions)] /\ "deactivate" \in Transitions
      BY <1>1 DEF Transitions
    <3>2. Append(queue[r], "deactivate") \in Seq(Transitions)
      BY <3>1
    <3> QED BY <1>3, <3>1, <3>2 DEF ConnectionLost
  <2>2. /\ client' \in [Replicas -> Sessions \cup {None}]
        /\ state' \in [Replicas -> States]
        /\ loss' \in [Sessions -> {"no", "closing", "deactivating", "done", "failed"}]
    BY <1>1, <1>3 DEF ConnectionLost, States
  <2> QED BY <1>1, <1>3, <2>1, <2>2 DEF ConnectionLost, pgVars
<1>4. ASSUME NEW c \in Sessions, StandbyLossClosed(r, c) \/ Deactivated(r, c) PROVE ElectionTypeOK'
  <2>1. retryTimer' \in [Replicas -> BOOLEAN]
    BY <1>1, <1>4, Zenon DEF StandbyLossClosed, Deactivated, Retry
  <2>2. /\ state' \in [Replicas -> States]
        /\ loss' \in [Sessions -> {"no", "closing", "deactivating", "done", "failed"}]
    BY <1>1, <1>4 DEF StandbyLossClosed, Deactivated, States
  <2> QED BY <1>1, <1>4, <2>1, <2>2 DEF StandbyLossClosed, Deactivated, pgVars
<1>5. ASSUME LockQueryRuns(r) PROVE ElectionTypeOK'
  <2>1. /\ [acq[r] EXCEPT !.res = "yes"] \in Shaped
        /\ [acq[r] EXCEPT !.res = "no"] \in Shaped
    <3>1. acq[r] \in Shaped
      BY <1>1
    <3>2. [acq[r] EXCEPT !.res = "yes"] \in Shaped
      BY <3>1 DEF Shaped, Attempts
    <3>3. [acq[r] EXCEPT !.res = "no"] \in Shaped
      BY <3>1 DEF Shaped, Attempts
    <3> QED BY <3>2, <3>3
  <2>2. acq' \in [Replicas -> Shaped]
    BY <1>1, <1>5, <2>1 DEF LockQueryRuns
  <2> QED BY <1>1, <1>5, <2>2 DEF LockQueryRuns, Shaped
<1>6. ASSUME Released(r) PROVE ElectionTypeOK'
  <2>1. retryTimer' \in [Replicas -> BOOLEAN]
    BY <1>1, <1>6, Zenon DEF Released, EndAttempt, Retry
  <2>2. state' \in [Replicas -> States]
    BY <1>1, <1>6 DEF Released, AfterRelease, States
  <2>3. acq' \in [Replicas -> Shaped]
    BY <1>1, <1>6 DEF Released, EndAttempt, NoAttempt, Shaped, Attempts
  <2> QED BY <1>1, <1>6, <2>1, <2>2, <2>3 DEF Released, Shaped
<1>7. ASSUME Boot(r) PROVE ElectionTypeOK'
  <2>1. AttemptFrom(None) \in Shaped
    BY DEF AttemptFrom, Shaped, Attempts
  <2>2. acq' \in [Replicas -> Shaped]
    BY <1>1, <1>7, <2>1 DEF Boot, ElectionStart
  <2>3. /\ up' \in [Replicas -> BOOLEAN] /\ stopped' \in [Replicas -> BOOLEAN]
        /\ state' \in [Replicas -> States]
    BY <1>1, <1>7 DEF Boot, ElectionStart, States
  <2> QED BY <1>1, <1>7, <2>2, <2>3 DEF Boot, ElectionStart, pgVars, Shaped
<1>8. ASSUME ElectionGone(r) PROVE ElectionTypeOK'
  <2>1. acq' \in [Replicas -> Shaped]
    BY <1>1, <1>8 DEF ElectionGone, NoAttempt, Shaped, Attempts
  <2>2. /\ up' \in [Replicas -> BOOLEAN] /\ stopped' \in [Replicas -> BOOLEAN]
        /\ retryTimer' \in [Replicas -> BOOLEAN] /\ state' \in [Replicas -> States]
        /\ client' \in [Replicas -> Sessions \cup {None}]
    BY <1>1, <1>8 DEF ElectionGone, States
  <2>3. loss' \in [Sessions -> {"no", "closing", "deactivating", "done", "failed"}]
    BY <1>1, <1>8 DEF ElectionGone
  <2>4. /\ halt' \in [Replicas -> Halts]
        /\ \A s \in Replicas : halt'[s].pc # "no" <=> halt'[s].c # None
    BY <1>1, <1>8 DEF ElectionGone, NoHalt, Halts
  <2>5. queue' \in [Replicas -> Seq(Transitions)]
    <3>1. queue \in [Replicas -> Seq(Transitions)] /\ <<>> \in Seq(Transitions)
      BY <1>1
    <3> QED BY <1>8, <3>1 DEF ElectionGone
  <2> QED BY <1>1, <1>8, <2>1, <2>2, <2>3, <2>4, <2>5 DEF ElectionGone, pgVars, Shaped
<1>9. ASSUME NEW res \in {"ok", "fail"}, ActivationSettles(r, res) PROVE ElectionTypeOK'
  <2>1. queue' \in [Replicas -> Seq(Transitions)]
    <3>1. queue \in [Replicas -> Seq(Transitions)] /\ queue[r] # <<>>
      BY <1>1, <1>9 DEF ActivationSettles, Running
    <3>2. Tail(queue[r]) \in Seq(Transitions)
      BY <3>1
    <3> QED BY <1>9, <3>1, <3>2 DEF ActivationSettles
  <2>2. acq[r].pc = "activate" /\ acq[r] \in Shaped
    BY <1>1, <1>9, QueueFacts
       DEF IInv, ReplicaInv, Callbacks, Queues, ActivationSettles, Running
  <2>3. [acq[r] EXCEPT !.pc = "resume", !.res = res] \in Shaped
    BY <2>2 DEF Shaped, Attempts
  <2>4. acq' \in [Replicas -> Shaped]
    BY <1>1, <1>9, <2>3 DEF ActivationSettles
  <2> QED BY <1>1, <1>9, <2>1, <2>4 DEF ActivationSettles, pgVars, Shaped
<1>10. ASSUME NEW failed, DeactivationSettles(r, failed) PROVE ElectionTypeOK'
  <2>1. queue' \in [Replicas -> Seq(Transitions)]
    <3>1. queue \in [Replicas -> Seq(Transitions)] /\ queue[r] # <<>>
      BY <1>1, <1>10 DEF DeactivationSettles, Running
    <3>2. Tail(queue[r]) \in Seq(Transitions)
      BY <3>1
    <3> QED BY <1>10, <3>1, <3>2 DEF DeactivationSettles
  <2>2. loss' \in [Sessions -> {"no", "closing", "deactivating", "done", "failed"}]
    BY <1>1, <1>10 DEF DeactivationSettles
  <2> QED BY <1>1, <1>10, <2>1, <2>2 DEF DeactivationSettles, pgVars
<1>11. ASSUME UNCHANGED up, ElectionStop(r) PROVE ElectionTypeOK'
  <2>1. /\ stopped' \in [Replicas -> BOOLEAN]
        /\ retryTimer' \in [Replicas -> BOOLEAN] /\ state' \in [Replicas -> States]
        /\ client' \in [Replicas -> Sessions \cup {None}]
    BY <1>1, <1>11 DEF ElectionStop, States
  <2>2. /\ halt' \in [Replicas -> Halts]
        /\ \A s \in Replicas : halt'[s].pc # "no" <=> halt'[s].c # None
    BY <1>1, <1>11 DEF ElectionStop, NoHalt, Halts
  <2> QED BY <1>1, <1>11, <2>1, <2>2 DEF ElectionStop, pgVars
<1>12. ASSUME HaltUnlocked(r) \/ HaltClosed(r) PROVE ElectionTypeOK'
  <2>1. /\ halt' \in [Replicas -> Halts]
        /\ \A s \in Replicas : halt'[s].pc # "no" <=> halt'[s].c # None
    <3>1. /\ halt \in [Replicas -> Halts]
          /\ \A s \in Replicas : halt[s].pc # "no" <=> halt[s].c # None
      BY <1>1
    <3>2. CASE HaltClosed(r)
      BY <3>1, <3>2 DEF HaltClosed, NoHalt, Halts
    <3>3. CASE HaltUnlocked(r)
      <4>1. halt[r] \in Halts /\ halt[r].pc = "unlock" /\ halt[r].c # None
        BY <3>1, <3>3 DEF HaltUnlocked
      <4>2. /\ [halt[r] EXCEPT !.pc = "close"] \in Halts
            /\ [halt[r] EXCEPT !.pc = "close"].pc = "close"
            /\ [halt[r] EXCEPT !.pc = "close"].c = halt[r].c
        BY <4>1 DEF Halts
      <4>3. halt' = [halt EXCEPT ![r] = [halt[r] EXCEPT !.pc = "close"]]
        BY <3>3 DEF HaltUnlocked
      <4> QED BY <3>1, <4>1, <4>2, <4>3
    <3> QED BY <1>12, <3>2, <3>3
  <2> QED BY <1>1, <1>12, <2>1 DEF HaltUnlocked, HaltClosed, pgVars
<1> QED BY <1>2, <1>3, <1>4, <1>5, <1>6, <1>7, <1>8, <1>9, <1>10, <1>11, <1>12

\* The runtime keeps its types.
LEMMA RuntimeTypes ==
    ASSUME RuntimeTypeOK, NEW r \in Replicas,
           \/ StartBegins(r) \/ StartCompletes(r) \/ CleanupStep(r) \/ StartRejects(r)
           \/ \E created \in {{}, {"stream"}} : StartFails(r, created)
           \/ \E w \in Stoppers : \/ StopBegins(r, w) \/ StopEnds(r, w)
                                  \/ \E fails \in BOOLEAN : StopStep(r, w, fails)
           \/ RuntimeGone(r)
           \/ UNCHANGED runtimeVars
    PROVE  RuntimeTypeOK'
<1> USE DEF RuntimeTypeOK
<1>1. CASE StartBegins(r) \/ StartCompletes(r) \/ StartRejects(r)
  <2>1. refs' \in [Replicas -> SUBSET ResourceNames]
    BY <1>1 DEF StartBegins, StartCompletes, StartRejects, ResourceNames
  <2>2. /\ running' \in [Replicas -> BOOLEAN]
        /\ starting' \in [Replicas -> {"no", "connecting", "cleanup"}]
    BY <1>1 DEF StartBegins, StartCompletes, StartRejects
  <2> QED BY <1>1, <2>1, <2>2 DEF StartBegins, StartCompletes, StartRejects
<1>2. CASE CleanupStep(r)
  <2>1. leftover \in [Replicas -> Seq(ResourceNames)] /\ Tail(leftover[r]) \in Seq(ResourceNames)
    BY <1>2 DEF CleanupStep
  <2>2. leftover' \in [Replicas -> Seq(ResourceNames)]
    BY <1>2, <2>1 DEF CleanupStep
  <2> QED BY <1>2, <2>2 DEF CleanupStep
<1>3. ASSUME NEW created \in {{}, {"stream"}}, StartFails(r, created) PROVE RuntimeTypeOK'
  <2>1. leftover' \in [Replicas -> Seq(ResourceNames)]
    BY <1>3, InOrderType DEF StartFails
  <2> QED BY <1>3, <2>1 DEF StartFails
<1>4. ASSUME NEW w \in Stoppers, NEW t \in StopTask, stopping' = [stopping EXCEPT ![r][w] = t]
      PROVE  stopping' \in [Replicas -> [Stoppers -> StopTask]]
  BY <1>4
<1>5. NoStop \in StopTask
  BY DEF NoStop, StopTask
<1>6. ASSUME NEW w \in Stoppers, StopBegins(r, w) PROVE RuntimeTypeOK'
  <2>1. [active |-> TRUE, todo |-> InOrder(refs[r]), failed |-> FALSE] \in StopTask
    BY InOrderType DEF StopTask
  <2>2. stopping' \in [Replicas -> [Stoppers -> StopTask]]
    BY <1>4, <1>6, <2>1 DEF StopBegins
  <2> QED BY <1>6, <2>2 DEF StopBegins
<1>7. ASSUME NEW w \in Stoppers, StopEnds(r, w) PROVE RuntimeTypeOK'
  <2>1. stopping' \in [Replicas -> [Stoppers -> StopTask]]
    BY <1>4, <1>5, <1>7 DEF StopEnds
  <2> QED BY <1>7, <2>1 DEF StopEnds
<1>8. ASSUME NEW w \in Stoppers, NEW fails \in BOOLEAN, StopStep(r, w, fails) PROVE RuntimeTypeOK'
  <2>1. /\ stopping[r][w] \in StopTask /\ stopping[r][w].todo \in Seq(ResourceNames)
        /\ stopping[r][w].todo # <<>>
    BY <1>8 DEF StopStep, StopTask
  <2>2. Tail(stopping[r][w].todo) \in Seq(ResourceNames)
    BY <2>1
  <2>3. stopping' \in [Replicas -> [Stoppers -> StopTask]]
    BY <1>8, <2>1, <2>2 DEF StopStep, StopTask
  <2> QED BY <1>8, <2>3 DEF StopStep
<1>9. CASE RuntimeGone(r)
  <2>1. leftover' \in [Replicas -> Seq(ResourceNames)]
    BY <1>9 DEF RuntimeGone
  <2>2. stopping' \in [Replicas -> [Stoppers -> StopTask]]
    BY <1>5, <1>9 DEF RuntimeGone
  <2> QED BY <1>9, <2>1, <2>2 DEF RuntimeGone
<1>10. CASE UNCHANGED runtimeVars
  BY <1>10 DEF runtimeVars
<1> QED BY <1>1, <1>2, <1>3, <1>6, <1>7, <1>8, <1>9, <1>10

\* The bounds and the shutdown sequence keep their types.
LEMMA OtherTypes ==
    ASSUME TypeOK, [Next]_vars
    PROVE  /\ shut' \in [Replicas -> {"no", "runtime", "metrics", "election", "prisma"}]
           /\ begun' \in [Replicas -> BOOLEAN]
           /\ faults' \in 0..MaxFaults /\ signals' \in 0..MaxSignals
<1> USE DEF TypeOK
<1> USE DEF Next, Election, Workload, Shutdown, Failure, OrphanEnds, SessionFault, Boot, Crash,
            ProcessGone, Attempt, AttemptFault, LossHandler, LossFault, DeactivationFatal,
            CallActivate, ActivateSettles, CleanUp, StartFault, CallDeactivate, DeactivateSettles,
            StopResource, StopFault, Sigterm, ShutdownRuntimeStopped, ShutdownElection,
            ElectionHalts, ShutdownPrisma, ShutdownExit, ShutdownTimesOut, ElectionOnly,
            RuntimeOnly, vars
<1>1. faults' \in 0..MaxFaults
  <2>1. NoFault \/ Fault
    BY Zenon DEF NoFault
  <2> QED BY ONLY <2>1, IngestorAssumption, TypeOK DEF NoFault, Fault, TypeOK
<1>2. signals' \in 0..MaxSignals
  <2>1. UNCHANGED signals \/ (signals < MaxSignals /\ signals' = signals + 1)
    BY Zenon
  <2> QED BY ONLY <2>1, IngestorAssumption, TypeOK DEF TypeOK
<1>3. shut' \in [Replicas -> {"no", "runtime", "metrics", "election", "prisma"}]
  BY Zenon
<1>4. begun' \in [Replicas -> BOOLEAN]
  BY Zenon
<1> QED BY ONLY <1>1, <1>2, <1>3, <1>4

-----------------------------------------------------------------------------
(* The steps together *)

\* What is left to show of a step once OtherTypes is known.
Kept == ElectionTypeOK /\ RuntimeTypeOK /\ \A s \in Replicas : ReplicaInv(s)

\* A replica before its first start.
LEMMA InitIInv == Init => IInv
<1> SUFFICES ASSUME Init PROVE IInv
  OBVIOUS
<1>1. ElectionTypeOK
  <2>1. queue \in [Replicas -> Seq(Transitions)]
    BY DEF Init, ElectionInit
  <2>2. acq \in [Replicas -> Attempts] /\ halt \in [Replicas -> Halts]
    BY DEF Init, ElectionInit, NoAttempt, NoHalt, Attempts, Halts
  <2> QED BY <2>1, <2>2 DEF Init, ElectionInit, ElectionTypeOK, States, NoAttempt, NoHalt
<1>2. RuntimeTypeOK
  <2>1. leftover \in [Replicas -> Seq(ResourceNames)]
    BY DEF Init, RuntimeInit
  <2>2. stopping \in [Replicas -> [Stoppers -> StopTask]]
    BY DEF Init, RuntimeInit, NoStop, StopTask
  <2> QED BY <2>1, <2>2 DEF Init, RuntimeInit, RuntimeTypeOK
<1>3. TypeOK
  BY <1>1, <1>2, IngestorAssumption DEF Init, TypeOK
<1>4. ASSUME NEW r \in Replicas PROVE ReplicaInv(r)
  <2>1. ~Handling(r) /\ ~Deactivating(r) /\ ~Settled(r) /\ Alone(r)
    BY DEF Init, ElectionInit, Handler, Handling, Deactivating, Settled, Alone
  <2>2. ~stopping[r]["lost"].active
    BY DEF Init, RuntimeInit, Stoppers, NoStop
  <2>3. Callbacks(r)
    BY <2>1, <2>2, QueueFacts
       DEF Init, ElectionInit, RuntimeInit, Callbacks, Queues, Running, NoAttempt
  <2> QED
    BY <2>1, <2>2, <2>3
       DEF Init, ElectionInit, RuntimeInit, ReplicaInv, Ownership, Standing, Attempting, Locking,
           Losing, Epoch, Retrying, StreamLive, NoAttempt, NoHalt
<1> QED BY <1>3, <1>4 DEF IInv

\* The steps of the election.
LEMMA ElectionStep ==
    ASSUME IInv, NEW r \in Replicas,
           Election(r) \/ Boot(r) \/ AttemptFault(r) \/ LossFault(r)
    PROVE  Kept'
<1>1. ElectionTypeOK /\ RuntimeTypeOK
  BY DEF IInv, TypeOK
<1>2. ASSUME ElectionOnly,
             \/ TimerFires(r) \/ ConnectFails(r) \/ NotAcquired(r) \/ Acquired(r) \/ QueryFails(r)
             \/ AttemptClosed(r) \/ Promote(r) \/ ActivationFailed(r) \/ ReleaseUncertain(r)
             \/ GivenUp(r)
      PROVE  Kept'
  BY <1>2, AttemptActor, AttemptOthers, AttemptType DEF Kept
<1>3. ASSUME ElectionOnly PROVE RuntimeTypeOK'
  BY <1>1, <1>3, RuntimeTypes DEF ElectionOnly, runtimeVars
<1>4. ASSUME NEW c \in Sessions, ElectionOnly,
             \/ Connected(r, c) \/ ConnectionLost(r, c) \/ StandbyLossClosed(r, c)
             \/ Deactivated(r, c)
      PROVE  Kept'
  <2>1. ElectionTypeOK' /\ RuntimeTypeOK'
    BY <1>3, <1>4, ElectionTypes
  <2> QED BY <1>4, <2>1, ConnectedInv, ConnectionLostInv, LossEndsInv DEF Kept
<1>5. ASSUME ElectionOnly, LockQueryRuns(r) \/ Released(r) PROVE Kept'
  <2>1. ElectionTypeOK' /\ RuntimeTypeOK'
    BY <1>3, <1>5, ElectionTypes
  <2> QED BY <1>5, <2>1, LockInv DEF Kept
<1>6. CASE Attempt(r) \/ AttemptFault(r)
  BY <1>2, <1>4, <1>5, <1>6 DEF Attempt, AttemptFault
<1>7. CASE LossHandler(r) \/ LossFault(r)
  <2>1. alive \subseteq Sessions
    BY <1>1 DEF ElectionTypeOK
  <2> QED BY <1>4, <1>7, <2>1 DEF LossHandler, LossFault
<1>8. CASE DeactivationFatal(r)
  <2>1. ProcessGone(r) /\ ElectionGone(r) /\ RuntimeGone(r)
    BY <1>8 DEF DeactivationFatal, ProcessGone
  <2> QED BY <1>1, <2>1, ProcessGoneInv, ElectionTypes, RuntimeTypes DEF Kept
<1>9. CASE ElectionHalts(r)
  <2>1. ElectionOnly /\ (HaltUnlocked(r) \/ HaltClosed(r))
    BY <1>9 DEF ElectionHalts
  <2> QED BY <1>3, <1>9, <2>1, HaltInv, ElectionTypes DEF Kept
<1>10. CASE Boot(r)
  <2>1. ElectionOnly
    BY <1>10 DEF Boot
  <2> QED BY <1>3, <1>10, <2>1, BootInv, ElectionTypes DEF Kept
<1> QED BY <1>6, <1>7, <1>8, <1>9, <1>10 DEF Election

\* The steps of the workload, of the shutdown sequence and of a process that ends.
LEMMA ProcessStep ==
    ASSUME IInv, NEW r \in Replicas,
           \/ Workload(r) \/ StartFault(r) \/ StopFault(r)
           \/ Shutdown(r) \/ Sigterm(r) \/ Crash(r) \/ ShutdownTimesOut(r)
    PROVE  Kept'
<1>1. ElectionTypeOK /\ RuntimeTypeOK
  BY DEF IInv, TypeOK
<1>2. ASSUME UNCHANGED <<electionVars, pgVars>> PROVE ElectionTypeOK'
  BY <1>1, <1>2 DEF ElectionTypeOK, electionVars, pgVars
<1>3. CASE CallActivate(r) \/ ActivateSettles(r)
  <2>1. RuntimeTypeOK'
    BY <1>1, <1>3, RuntimeTypes DEF CallActivate, ActivateSettles, StartReturns
  <2>2. ElectionTypeOK'
    BY <1>2, <1>3, ElectionTypes DEF CallActivate, ActivateSettles
  <2> QED BY <1>3, <2>1, <2>2, ActivateInv DEF Kept
<1>4. CASE CleanUp(r) \/ StartFault(r)
  <2>1. RuntimeTypeOK'
    BY <1>1, <1>4, RuntimeTypes DEF CleanUp, StartFault
  <2>2. ElectionTypeOK'
    BY <1>2, <1>4 DEF CleanUp, StartFault, RuntimeOnly
  <2> QED BY <1>4, <2>1, <2>2, ActivateInv DEF Kept
<1>5. CASE CallDeactivate(r) \/ DeactivateSettles(r)
  <2>1. RuntimeTypeOK'
    BY <1>1, <1>5, RuntimeTypes DEF CallDeactivate, DeactivateSettles, Stoppers
  <2>2. ElectionTypeOK'
    BY <1>2, <1>5, ElectionTypes DEF CallDeactivate, DeactivateSettles
  <2> QED BY <1>5, <2>1, <2>2, DeactivateInv DEF Kept
<1>6. CASE StopResource(r) \/ StopFault(r)
  <2>1. RuntimeTypeOK'
    BY <1>1, <1>6, RuntimeTypes DEF StopResource, StopFault
  <2>2. ElectionTypeOK'
    BY <1>2, <1>6 DEF StopResource, StopFault, RuntimeOnly
  <2> QED BY <1>6, <2>1, <2>2, StopStepInv DEF Kept
<1>7. CASE Sigterm(r) \/ ShutdownRuntimeStopped(r) \/ ShutdownElection(r) \/ ShutdownPrisma(r)
  <2>1. RuntimeTypeOK'
    BY <1>1, <1>7, RuntimeTypes
       DEF Sigterm, ShutdownRuntimeStopped, ShutdownElection, ShutdownPrisma, Stoppers,
           runtimeVars
  <2>2. ElectionTypeOK'
    BY <1>2, <1>7, ElectionTypes
       DEF Sigterm, ShutdownRuntimeStopped, ShutdownElection, ShutdownPrisma, ElectionStop
  <2> QED BY <1>7, <2>1, <2>2, ShutdownInv DEF Kept
<1>8. CASE Crash(r) \/ ShutdownExit(r) \/ ShutdownTimesOut(r)
  <2>1. ProcessGone(r) /\ ElectionGone(r) /\ RuntimeGone(r)
    BY <1>8 DEF Crash, ShutdownExit, ShutdownTimesOut, ProcessGone
  <2> QED BY <1>1, <2>1, ProcessGoneInv, ElectionTypes, RuntimeTypes DEF Kept
<1> QED BY <1>3, <1>4, <1>5, <1>6, <1>7, <1>8 DEF Workload, Shutdown

\* Every step keeps the inductive invariant.
LEMMA NextIInv == IInv /\ [Next]_vars => IInv'
<1> SUFFICES ASSUME IInv, [Next]_vars PROVE IInv'
  OBVIOUS
<1>1. Kept'
  <2>1. CASE UNCHANGED vars
    <3>1. ElectionTypeOK' /\ RuntimeTypeOK'
      BY <2>1
         DEF IInv, TypeOK, ElectionTypeOK, RuntimeTypeOK, vars, electionVars, pgVars, runtimeVars
    <3>2. ASSUME NEW s \in Replicas PROVE ReplicaInv(s)'
      <4>1. LocalSame(s) /\ SessionsSame(s) /\ LockSame(s)
        BY <2>1
           DEF LocalSame, SessionsSame, LockSame, Handler, vars, electionVars, pgVars, runtimeVars
      <4> QED BY <4>1, Frame DEF IInv
    <3> QED BY <3>1, <3>2 DEF Kept
  <2>2. ASSUME NEW r \in Replicas,
               \/ Boot(r) \/ Election(r) \/ Workload(r) \/ Shutdown(r) \/ Failure(r) \/ Sigterm(r)
        PROVE  Kept'
    BY <2>2, ElectionStep, ProcessStep DEF Failure
  <2>3. ASSUME NEW c \in Sessions, SessionEnds(c), ElectionOnly PROVE Kept'
    <3>1. ElectionTypeOK'
      BY <2>3 DEF SessionEnds, electionVars, IInv, TypeOK, ElectionTypeOK
    <3>2. RuntimeTypeOK'
      BY <2>3 DEF ElectionOnly, runtimeVars, IInv, TypeOK, RuntimeTypeOK
    <3> QED BY <2>3, <3>1, <3>2, SessionEndsInv DEF Kept
  <2> QED BY <2>1, <2>2, <2>3 DEF Next, OrphanEnds, SessionFault
<1> QED BY <1>1, OtherTypes DEF IInv, Kept, TypeOK

-----------------------------------------------------------------------------
(* The theorems *)

\* The inductive invariant holds in every state.
THEOREM Invariance == Spec => []IInv
BY InitIInv, NextIInv, PTL DEF Spec

\* Every variable keeps its type, the lock belongs to a session PostgreSQL keeps, and an
\* attempt and a stop() have a session exactly while they need one.
THEOREM TypeCorrect == Spec => []TypeOK
<1>1. IInv => TypeOK
  BY DEF IInv
<1> QED BY <1>1, Invariance, PTL

\* A replica that leads owns the lock as long as PostgreSQL keeps its session.
THEOREM LeadersOwnTheLock == Spec => []LeaderOwnsLock
<1>1. IInv => LeaderOwnsLock
  BY DEF IInv, ReplicaInv, Attempting, Locking, LeaderOwnsLock
<1> QED BY <1>1, Invariance, PTL

\* Two replicas lead at the same time only if PostgreSQL ended the session of one.
OneLivingLeader ==
    \A r, s \in Replicas :
        /\ state[r] = "leader" /\ client[r] \in alive
        /\ state[s] = "leader" /\ client[s] \in alive
        => r = s

\* At most one leader has a session that lives.
THEOREM LeadersExcludeEachOther == Spec => []OneLivingLeader
<1>1. IInv => OneLivingLeader
  BY DEF IInv, ReplicaInv, Attempting, Locking, Ownership, OneLivingLeader
<1> QED BY <1>1, Invariance, PTL

\* A replica at rest in standby keeps no lock from the others.
THEOREM StandbyReleasesLock == Spec => []StandbyHoldsNoLock
<1>1. IInv => StandbyHoldsNoLock
  BY DEF IInv, ReplicaInv, Locking, StandbyHoldsNoLock
<1> QED BY <1>1, Invariance, PTL

\* No wake-up is lost: between two attempts something will start the next one.
THEOREM StandbyWakesUp == Spec => []StandbyRetries
<1>1. IInv => StandbyRetries
  BY DEF IInv, ReplicaInv, Retrying, Handling, Handler, StandbyRetries
<1> QED BY <1>1, Invariance, PTL

\* Outside a shutdown a live stream is one of a leadership, or its deactivation is queued.
THEOREM StreamsUnderLock == Spec => []StreamOnlyUnderLock
<1>1. ASSUME IInv PROVE StreamOnlyUnderLock
  <2> SUFFICES ASSUME NEW r \in Replicas, StreamLive(r), shut[r] = "no"
               PROVE  \/ /\ state[r] \in {"activating", "leader"}
                         /\ client[r] # None
                         /\ client[r] \in alive => lock = client[r]
                      \/ /\ state[r] = "deactivating"
                         /\ \E i \in DOMAIN queue[r] : queue[r][i] = "deactivate"
    BY DEF StreamOnlyUnderLock
  <2>1. ReplicaInv(r) /\ (acq[r].pc \notin {"no", "connect"} <=> acq[r].c # None)
    BY <1>1, Types DEF IInv
  <2>2. CASE state[r] \in {"activating", "leader"}
    BY <2>1, <2>2 DEF ReplicaInv, Attempting, Locking, Epoch
  <2>3. CASE state[r] = "deactivating" /\ Deactivating(r)
    <3>1. queue[r] \in {<<"deactivate">>, <<"activate", "deactivate">>}
      BY <2>1, <2>3 DEF ReplicaInv, Callbacks
    <3>2. \A q \in {<<"deactivate">>, <<"activate", "deactivate">>} :
              \E i \in DOMAIN q : q[i] = "deactivate"
      <4>1. 1 \in DOMAIN <<"deactivate">> /\ <<"deactivate">>[1] = "deactivate"
        OBVIOUS
      <4>2. /\ 2 \in DOMAIN <<"activate", "deactivate">>
            /\ <<"activate", "deactivate">>[2] = "deactivate"
        OBVIOUS
      <4> QED BY <4>1, <4>2
    <3> QED BY <2>3, <3>1, <3>2
  <2> QED BY <2>1, <2>2, <2>3 DEF ReplicaInv, Epoch
<1> QED BY <1>1, Invariance, PTL

\* Outside a shutdown the stream never runs without its producer and its publisher.
THEOREM StreamsHaveSinks == Spec => []StreamHasSinks
<1>1. IInv => StreamHasSinks
  BY DEF IInv, ReplicaInv, Epoch, StreamLive, ResourceNames, StreamHasSinks
<1> QED BY <1>1, Invariance, PTL

=============================================================================
