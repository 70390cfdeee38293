--------------------------- MODULE LeaderElection ---------------------------
(***************************************************************************)
(* LeaderElectionService of the Market Ingestor replicas: each owns at     *)
(* most one dedicated PostgreSQL session, polls a session-level advisory   *)
(* lock with it, and runs the activation and deactivation callbacks of the *)
(* workload in a queue (lifecycleTransition).                              *)
(*                                                                         *)
(* Inside a replica run, interleaved at their awaits: one attempt          *)
(* (tryAcquireLeadership), one connection-loss handler per session, the    *)
(* retry timer and stop().  PostgreSQL may end a session before its client *)
(* hears of it, and a client may lose a session PostgreSQL still keeps.    *)
(*                                                                         *)
(* The flag retryDisabled is left out: it differs from `stopped` only      *)
(* after a failed deactivation, in the turn that ends in process.exit, and *)
(* so does the state 'failed'.  standbyAnnounced only steers log lines.    *)
(***************************************************************************)
EXTENDS IngestorReplicas, Integers, Sequences, FiniteSets

CONSTANTS
    Sessions,   \* bound: PostgreSQL sessions that exist at the same time
    None

ASSUME ElectionAssumption == None \notin Sessions

VARIABLES
    up,        \* the replica's process runs
    state,     \* getState()
    stopped,
    retryTimer,
    client,    \* coordinationClient
    acq,       \* the attempt in progress (acquisitionInProgress)
    loss,      \* session -> the connection-loss handler that deals with it
    halt,      \* stop() in progress, and the session it detached
    queue,     \* lifecycleTransition: callbacks that run or wait to run
    lock,      \* PostgreSQL: the session that holds the advisory lock
    alive,     \* PostgreSQL: the sessions it keeps
    owner      \* session -> replica that opened it

electionVars == <<up, state, stopped, retryTimer, client, acq, loss, halt, queue>>
pgVars == <<lock, alive, owner>>

States == {"stopped", "standby", "activating", "leader", "deactivating"}

Attempts ==
    [pc : {"no", "connect", "query", "activate", "resume", "unlock", "close", "giveUp"},
     c : Sessions \cup {None}, res : {"none", "yes", "no", "ok", "fail"}]
Halts == [pc : {"no", "unlock", "close"}, c : Sessions \cup {None}]

\* The callbacks lifecycleTransition runs.
Transitions == {"activate", "deactivate"}

NoAttempt == [pc |-> "no", c |-> None, res |-> "none"]
NoHalt == [pc |-> "no", c |-> None]

ElectionTypeOK ==
    /\ up \in [Replicas -> BOOLEAN]
    /\ state \in [Replicas -> States]
    /\ stopped \in [Replicas -> BOOLEAN]
    /\ retryTimer \in [Replicas -> BOOLEAN]
    /\ client \in [Replicas -> Sessions \cup {None}]
    /\ acq \in [Replicas -> Attempts]
    /\ loss \in [Sessions -> {"no", "closing", "deactivating", "done", "failed"}]
    /\ halt \in [Replicas -> Halts]
    /\ queue \in [Replicas -> Seq(Transitions)]
    /\ lock \in Sessions \cup {None}
    /\ alive \subseteq Sessions
    /\ owner \in [Sessions -> Replicas \cup {None}]
    /\ lock # None => lock \in alive
    /\ \A r \in Replicas :
           /\ acq[r].pc \notin {"no", "connect"} <=> acq[r].c # None
           /\ halt[r].pc # "no" <=> halt[r].c # None

ElectionInit ==
    /\ up = [r \in Replicas |-> FALSE]
    /\ state = [r \in Replicas |-> "stopped"]
    /\ stopped = [r \in Replicas |-> TRUE]
    /\ retryTimer = [r \in Replicas |-> FALSE]
    /\ client = [r \in Replicas |-> None]
    /\ acq = [r \in Replicas |-> NoAttempt]
    /\ loss = [c \in Sessions |-> "no"]
    /\ halt = [r \in Replicas |-> NoHalt]
    /\ queue = [r \in Replicas |-> <<>>]
    /\ lock = None
    /\ alive = {}
    /\ owner = [c \in Sessions |-> None]

-----------------------------------------------------------------------------
(* Helpers *)

\* scheduleRetry, in a replica whose state is st: the timer afterwards.
Retry(r, st) == [retryTimer EXCEPT ![r] = @ \/ (~stopped[r] /\ st = "standby")]

\* Faulty variant: the finally block schedules no retry.
EndWithoutRetry(r, st) ==
    /\ acq' = [acq EXCEPT ![r] = NoAttempt]
    /\ UNCHANGED retryTimer

\* The finally block of tryAcquireLeadership, in state st.
EndAttempt(r, st) ==
    /\ acq' = [acq EXCEPT ![r] = NoAttempt]
    /\ retryTimer' = Retry(r, st)

\* The catch block of tryAcquireLeadership: the state afterwards.
AfterError(r) == IF ~stopped[r] /\ state[r] # "deactivating" THEN "standby" ELSE state[r]

\* The next attempt: with no session yet, connect first.
AttemptFrom(c) == [pc |-> IF c = None THEN "connect" ELSE "query", c |-> c, res |-> "none"]

\* A session no replica refers to, and PostgreSQL does not keep.
Unused(c) ==
    /\ c \notin alive
    /\ loss[c] = "no"
    /\ \A r \in Replicas : c \notin {client[r], acq[r].c, halt[r].c}

\* Nobody talks on session c any more: its process is gone, or its client was
\* closed or is broken.
Orphan(c) ==
    /\ c \in alive
    /\ \/ ~up[owner[c]]
       \/ c # client[owner[c]] /\ halt[owner[c]] # [pc |-> "unlock", c |-> c]

-----------------------------------------------------------------------------
(* PostgreSQL *)

\* A session ends at the server: its lock is free at once, its client may not
\* know for a while.
SessionEnds(c) ==
    /\ c \in alive
    /\ alive' = alive \ {c}
    /\ lock' = IF lock = c THEN None ELSE lock
    /\ UNCHANGED <<owner, electionVars>>

\* pg_try_advisory_lock runs; the answer is under way.
LockQueryRuns(r) ==
    /\ acq[r].pc = "query"
    /\ acq[r].res = "none"
    /\ acq[r].c \in alive
    /\ IF lock \in {None, acq[r].c}
       THEN /\ lock' = acq[r].c
            /\ acq' = [acq EXCEPT ![r].res = "yes"]
       ELSE /\ acq' = [acq EXCEPT ![r].res = "no"]
            /\ UNCHANGED lock
    /\ UNCHANGED <<alive, owner, up, state, stopped, retryTimer, client, loss, halt, queue>>

-----------------------------------------------------------------------------
(* start() and tryAcquireLeadership *)

\* start(): a first attempt, which has to connect.
ElectionStart(r) ==
    /\ stopped[r]
    /\ stopped' = [stopped EXCEPT ![r] = FALSE]
    /\ state' = [state EXCEPT ![r] = "standby"]
    /\ acq' = [acq EXCEPT ![r] = AttemptFrom(None)]
    /\ UNCHANGED <<retryTimer, client, loss, halt, queue, pgVars>>

\* The retry timer fires: an attempt starts unless the state changed or one is
\* already in progress.
TimerFires(r) ==
    /\ retryTimer[r]
    /\ retryTimer' = [retryTimer EXCEPT ![r] = FALSE]
    /\ acq' = IF ~stopped[r] /\ state[r] = "standby" /\ acq[r].pc = "no"
              THEN [acq EXCEPT ![r] = AttemptFrom(client[r])]
              ELSE acq
    /\ UNCHANGED <<up, state, stopped, client, loss, halt, queue, pgVars>>

\* ensureCoordinationClient connects; a service stopped meanwhile closes the new
\* session again.
Connected(r, c) ==
    /\ acq[r].pc = "connect"
    /\ Unused(c)
    /\ alive' = alive \cup {c}
    /\ owner' = [owner EXCEPT ![c] = r]
    /\ IF stopped[r]
       THEN /\ acq' = [acq EXCEPT ![r] = [pc |-> "close", c |-> c, res |-> "none"]]
            /\ UNCHANGED client
       ELSE /\ acq' = [acq EXCEPT ![r] = AttemptFrom(c)]
            /\ client' = [client EXCEPT ![r] = c]
    /\ UNCHANGED <<lock, up, state, stopped, retryTimer, loss, halt, queue>>

\* connect() rejects.
ConnectFails(r) ==
    /\ acq[r].pc = "connect"
    /\ state' = [state EXCEPT ![r] = AfterError(r)]
    /\ EndAttempt(r, AfterError(r))
    /\ UNCHANGED <<up, stopped, client, loss, halt, queue, pgVars>>

\* The answer arrives but the session is no longer ours, or the lock is taken.
NotAcquired(r) ==
    /\ acq[r].pc = "query"
    /\ acq[r].res \in {"yes", "no"}
    /\ LET current == ~stopped[r] /\ client[r] = acq[r].c
           st == IF current THEN "standby" ELSE state[r]
       IN  /\ ~(current /\ acq[r].res = "yes")
           /\ state' = [state EXCEPT ![r] = st]
           /\ EndAttempt(r, st)
    /\ UNCHANGED <<up, stopped, client, loss, halt, queue, pgVars>>

\* The lock is ours: activation is queued and awaited.
Acquired(r) ==
    /\ acq[r].pc = "query"
    /\ acq[r].res = "yes"
    /\ ~stopped[r]
    /\ client[r] = acq[r].c
    /\ state' = [state EXCEPT ![r] = "activating"]
    /\ queue' = [queue EXCEPT ![r] = Append(@, "activate")]
    /\ acq' = [acq EXCEPT ![r] = [@ EXCEPT !.pc = "activate", !.res = "none"]]
    /\ UNCHANGED <<up, stopped, retryTimer, client, loss, halt, pgVars>>

\* The query rejects; whether it took the lock is unknown, so the session is
\* closed, unless a connection-loss handler or stop() detached it already.
QueryFails(r) ==
    /\ acq[r].pc = "query"
    /\ state' = [state EXCEPT ![r] = AfterError(r)]
    /\ IF client[r] = acq[r].c
       THEN /\ client' = [client EXCEPT ![r] = None]
            /\ acq' = [acq EXCEPT ![r] = [@ EXCEPT !.pc = "close", !.res = "none"]]
            /\ UNCHANGED retryTimer
       ELSE /\ EndAttempt(r, AfterError(r))
            /\ UNCHANGED client
    /\ UNCHANGED <<up, stopped, loss, halt, queue, pgVars>>

\* The attempt's session is closed.
AttemptClosed(r) ==
    /\ acq[r].pc = "close"
    /\ EndAttempt(r, state[r])
    /\ UNCHANGED <<up, state, stopped, client, loss, halt, queue, pgVars>>

\* Faulty variant: no revalidation after the activation.
PromoteBlindly(r) ==
    /\ acq[r].pc = "resume"
    /\ acq[r].res = "ok"
    /\ state' = [state EXCEPT ![r] = "leader"]
    /\ EndAttempt(r, "leader")
    /\ UNCHANGED <<up, stopped, client, loss, halt, queue, pgVars>>

\* The activation succeeded: promote, but only if the session that took the lock
\* is still the coordination session and nobody deactivated meanwhile.
Promote(r) ==
    /\ acq[r].pc = "resume"
    /\ acq[r].res = "ok"
    /\ LET st == IF ~stopped[r] /\ client[r] = acq[r].c /\ state[r] = "activating"
                 THEN "leader" ELSE state[r]
       IN  /\ state' = [state EXCEPT ![r] = st]
           /\ EndAttempt(r, st)
    /\ UNCHANGED <<up, stopped, client, loss, halt, queue, pgVars>>

\* Faulty variant: a failed activation keeps the lock.
KeepLockAfterFailure(r) ==
    /\ acq[r].pc = "resume"
    /\ acq[r].res = "fail"
    /\ state' = [state EXCEPT ![r] = "standby"]
    /\ EndAttempt(r, "standby")
    /\ UNCHANGED <<up, stopped, client, loss, halt, queue, pgVars>>

\* The activation failed: give the lock back if the session is still ours.
ActivationFailed(r) ==
    /\ acq[r].pc = "resume"
    /\ acq[r].res = "fail"
    /\ IF ~stopped[r] /\ client[r] = acq[r].c
       THEN /\ acq' = [acq EXCEPT ![r] = [@ EXCEPT !.pc = "unlock", !.res = "none"]]
            /\ UNCHANGED retryTimer
       ELSE EndAttempt(r, state[r])
    /\ UNCHANGED <<up, state, stopped, client, loss, halt, queue, pgVars>>

\* The state releaseLeadershipAfterActivationFailure leaves behind.
AfterRelease(r) == IF ~stopped[r] /\ state[r] = "activating" THEN "standby" ELSE state[r]

\* pg_advisory_unlock answers that the lock is released.
Released(r) ==
    /\ acq[r].pc = "unlock"
    /\ acq[r].c \in alive
    /\ lock = acq[r].c
    /\ lock' = None
    /\ state' = [state EXCEPT ![r] = AfterRelease(r)]
    /\ EndAttempt(r, AfterRelease(r))
    /\ UNCHANGED <<up, stopped, client, loss, halt, queue, alive, owner>>

\* It answers false or rejects: the session is closed first.
ReleaseUncertain(r) ==
    /\ acq[r].pc = "unlock"
    /\ client' = [client EXCEPT ![r] = IF @ = acq[r].c THEN None ELSE @]
    /\ acq' = [acq EXCEPT ![r].pc = "giveUp"]
    /\ UNCHANGED <<up, state, stopped, retryTimer, loss, halt, queue, pgVars>>

GivenUp(r) ==
    /\ acq[r].pc = "giveUp"
    /\ state' = [state EXCEPT ![r] = AfterRelease(r)]
    /\ EndAttempt(r, AfterRelease(r))
    /\ UNCHANGED <<up, stopped, client, loss, halt, queue, pgVars>>

-----------------------------------------------------------------------------
(* handleCoordinationConnectionLost *)

\* Faulty variant: only a leader deactivates, a replica being activated does not.
LossSkipsActivation(r, c) ==
    /\ up[r]
    /\ client[r] = c
    /\ client' = [client EXCEPT ![r] = None]
    /\ IF state[r] = "leader"
       THEN /\ state' = [state EXCEPT ![r] = "deactivating"]
            /\ queue' = [queue EXCEPT ![r] = Append(@, "deactivate")]
            /\ loss' = [loss EXCEPT ![c] = "deactivating"]
       ELSE /\ state' = [state EXCEPT ![r] = "standby"]
            /\ loss' = [loss EXCEPT ![c] = "closing"]
            /\ UNCHANGED queue
    /\ UNCHANGED <<up, stopped, retryTimer, acq, halt, pgVars>>

\* The client of the coordination session reports an error or its end.
ConnectionLost(r, c) ==
    /\ up[r]
    /\ client[r] = c
    /\ client' = [client EXCEPT ![r] = None]
    /\ IF state[r] \in {"activating", "leader"}
       THEN /\ state' = [state EXCEPT ![r] = "deactivating"]
            /\ queue' = [queue EXCEPT ![r] = Append(@, "deactivate")]
            /\ loss' = [loss EXCEPT ![c] = "deactivating"]
       ELSE /\ state' = [state EXCEPT ![r] = "standby"]
            /\ loss' = [loss EXCEPT ![c] = "closing"]
            /\ UNCHANGED queue
    /\ UNCHANGED <<up, stopped, retryTimer, acq, halt, pgVars>>

\* A lost standby session is closed: reconnect later.
StandbyLossClosed(r, c) ==
    /\ owner[c] = r
    /\ loss[c] = "closing"
    /\ loss' = [loss EXCEPT ![c] = "no"]
    /\ retryTimer' = Retry(r, state[r])
    /\ UNCHANGED <<up, state, stopped, client, acq, halt, queue, pgVars>>

\* The workload is down and the session closed: back to standby.
Deactivated(r, c) ==
    /\ owner[c] = r
    /\ loss[c] = "done"
    /\ loss' = [loss EXCEPT ![c] = "no"]
    /\ IF stopped[r]
       THEN UNCHANGED <<state, retryTimer>>
       ELSE /\ state' = [state EXCEPT ![r] = "standby"]
            /\ retryTimer' = Retry(r, "standby")
    /\ UNCHANGED <<up, stopped, client, acq, halt, queue, pgVars>>

-----------------------------------------------------------------------------
(* lifecycleTransition: the callback at the head runs, the others wait *)

Running(r, callback) == queue[r] # <<>> /\ Head(queue[r]) = callback

\* The activation callback settles; tryAcquireLeadership resumes.
ActivationSettles(r, res) ==
    /\ Running(r, "activate")
    /\ queue' = [queue EXCEPT ![r] = Tail(@)]
    /\ acq' = [acq EXCEPT ![r] = [@ EXCEPT !.pc = "resume", !.res = res]]
    /\ UNCHANGED <<up, state, stopped, retryTimer, client, loss, halt, pgVars>>

\* The deactivation callback settles; its connection-loss handler resumes.
DeactivationSettles(r, failed) ==
    /\ Running(r, "deactivate")
    /\ queue' = [queue EXCEPT ![r] = Tail(@)]
    /\ loss' = [c \in Sessions |->
                   IF owner[c] = r /\ loss[c] = "deactivating"
                   THEN IF failed THEN "failed" ELSE "done" ELSE loss[c]]
    /\ UNCHANGED <<up, state, stopped, retryTimer, client, acq, halt, pgVars>>

-----------------------------------------------------------------------------
(* stop() *)

\* Faulty variant: stop() does not ask whether there is a session.
StopUnchecked(r) ==
    /\ ~stopped[r]
    /\ stopped' = [stopped EXCEPT ![r] = TRUE]
    /\ retryTimer' = [retryTimer EXCEPT ![r] = FALSE]
    /\ state' = [state EXCEPT ![r] = "stopped"]
    /\ client' = [client EXCEPT ![r] = None]
    /\ halt' = [halt EXCEPT ![r] = [pc |-> "close", c |-> client[r]]]
    /\ UNCHANGED <<up, acq, loss, queue, pgVars>>

\* stop() detaches the session; an owner of the lock releases it first.
ElectionStop(r) ==
    /\ ~stopped[r]
    /\ stopped' = [stopped EXCEPT ![r] = TRUE]
    /\ retryTimer' = [retryTimer EXCEPT ![r] = FALSE]
    /\ state' = [state EXCEPT ![r] = "stopped"]
    /\ client' = [client EXCEPT ![r] = None]
    /\ halt' = [halt EXCEPT ![r] =
                   CASE client[r] = None -> NoHalt
                     [] client[r] # None /\ state[r] \in {"activating", "leader"} ->
                            [pc |-> "unlock", c |-> client[r]]
                     [] OTHER -> [pc |-> "close", c |-> client[r]]]
    /\ UNCHANGED <<up, acq, loss, queue, pgVars>>

\* releaseAndCloseClient: the unlock is answered, or fails; then the close.
HaltUnlocked(r) ==
    /\ halt[r].pc = "unlock"
    /\ lock' \in {lock, IF lock = halt[r].c THEN None ELSE lock}
    /\ halt' = [halt EXCEPT ![r].pc = "close"]
    /\ UNCHANGED <<alive, owner, up, state, stopped, retryTimer, client, acq, loss, queue>>

HaltClosed(r) ==
    /\ halt[r].pc = "close"
    /\ halt' = [halt EXCEPT ![r] = NoHalt]
    /\ UNCHANGED <<up, state, stopped, retryTimer, client, acq, loss, queue, pgVars>>

-----------------------------------------------------------------------------
\* The process ends; PostgreSQL keeps its sessions until it notices.
ElectionGone(r) ==
    /\ up' = [up EXCEPT ![r] = FALSE]
    /\ state' = [state EXCEPT ![r] = "stopped"]
    /\ stopped' = [stopped EXCEPT ![r] = TRUE]
    /\ retryTimer' = [retryTimer EXCEPT ![r] = FALSE]
    /\ client' = [client EXCEPT ![r] = None]
    /\ acq' = [acq EXCEPT ![r] = NoAttempt]
    /\ loss' = [c \in Sessions |-> IF owner[c] = r THEN "no" ELSE loss[c]]
    /\ halt' = [halt EXCEPT ![r] = NoHalt]
    /\ queue' = [queue EXCEPT ![r] = <<>>]
    /\ UNCHANGED pgVars

=============================================================================
