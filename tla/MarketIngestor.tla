--------------------------- MODULE MarketIngestor ---------------------------
(***************************************************************************)
(* The Market Ingestor process (ingestor.ts), in as many replicas as are   *)
(* deployed: LeaderElectionService decides, ActiveIngestionRuntime is what *)
(* its callbacks start and stop, and the SIGTERM handler stops first the   *)
(* runtime and then the election.  The handler calls the runtime directly, *)
(* outside the election's callback queue.                                  *)
(***************************************************************************)
EXTENDS LeaderElection, ActiveIngestion

CONSTANTS
    MaxFaults,   \* bound: failures of sessions, queries, workload and processes
    MaxSignals   \* bound: SIGTERMs delivered

ASSUME IngestorAssumption == MaxFaults \in Nat /\ MaxSignals \in Nat

VARIABLES
    shut,     \* where the shutdown sequence of the replica waits
    begun,    \* the callback at the head of the queue has been called
    faults, signals

vars == <<electionVars, pgVars, runtimeVars, shut, begun, faults, signals>>

TypeOK ==
    /\ ElectionTypeOK
    /\ RuntimeTypeOK
    /\ shut \in [Replicas -> {"no", "runtime", "metrics", "election", "prisma"}]
    /\ begun \in [Replicas -> BOOLEAN]
    /\ faults \in 0..MaxFaults
    /\ signals \in 0..MaxSignals

Init ==
    /\ ElectionInit
    /\ RuntimeInit
    /\ shut = [r \in Replicas |-> "no"]
    /\ begun = [r \in Replicas |-> FALSE]
    /\ faults = 0
    /\ signals = 0

-----------------------------------------------------------------------------
\* One of the failures the bound counts.
Fault == faults < MaxFaults /\ faults' = faults + 1
NoFault == UNCHANGED faults

\* An action of the election alone.
ElectionOnly == UNCHANGED <<runtimeVars, shut, begun, signals>>

\* An action of the workload alone.
RuntimeOnly == UNCHANGED <<electionVars, pgVars, shut, begun, signals>>

\* startMarketIngestor (docker-compose restarts the container).
Boot(r) ==
    /\ ~up[r]
    /\ up' = [up EXCEPT ![r] = TRUE]
    /\ ElectionStart(r)
    /\ ElectionOnly /\ NoFault

ProcessGone(r) ==
    /\ ElectionGone(r)
    /\ RuntimeGone(r)
    /\ shut' = [shut EXCEPT ![r] = "no"]
    /\ begun' = [begun EXCEPT ![r] = FALSE]
    /\ UNCHANGED signals

Crash(r) == up[r] /\ Fault /\ ProcessGone(r)

-----------------------------------------------------------------------------
(* The election *)

\* Answers, timers and continuations: they come without a failure.
Attempt(r) ==
    /\ \/ TimerFires(r)
       \/ \E c \in Sessions : Connected(r, c)
       \/ LockQueryRuns(r)
       \/ NotAcquired(r) \/ Acquired(r)
       \/ AttemptClosed(r)
       \/ Promote(r) \/ ActivationFailed(r)
       \/ Released(r) \/ GivenUp(r)
       \/ acq[r].c \notin alive \cap {client[r]} /\ QueryFails(r)
       \/ acq[r].c # lock /\ ReleaseUncertain(r)
    /\ ElectionOnly /\ NoFault

AttemptFault(r) ==
    /\ ConnectFails(r) \/ QueryFails(r) \/ ReleaseUncertain(r)
    /\ ElectionOnly /\ Fault

\* A client hears that PostgreSQL ended its session, or loses it by itself.
LossHandler(r) ==
    /\ \/ \E c \in Sessions \ alive : ConnectionLost(r, c)
       \/ \E c \in Sessions : StandbyLossClosed(r, c)
       \/ \E c \in Sessions : Deactivated(r, c)
    /\ ElectionOnly /\ NoFault

LossFault(r) ==
    /\ \E c \in alive : ConnectionLost(r, c)
    /\ ElectionOnly /\ Fault

\* A deactivation failed: state 'failed', onFatalError, process.exit(1).
DeactivationFatal(r) ==
    /\ \E c \in Sessions : owner[c] = r /\ loss[c] = "failed"
    /\ ProcessGone(r) /\ NoFault

\* PostgreSQL notices that nobody uses a session, or ends one in use.
OrphanEnds == /\ \E c \in Sessions : Orphan(c) /\ SessionEnds(c)
              /\ ElectionOnly /\ NoFault
SessionFault == /\ \E c \in Sessions : SessionEnds(c)
                /\ ElectionOnly /\ Fault

-----------------------------------------------------------------------------
(* The callbacks *)

\* onLeadershipAcquired calls activeRuntime.start().
CallActivate(r) ==
    /\ Running(r, "activate") /\ ~begun[r]
    /\ \/ StartReturns(r) /\ ActivationSettles(r, "ok") /\ UNCHANGED begun
       \/ /\ StartBegins(r)
          /\ begun' = [begun EXCEPT ![r] = TRUE]
          /\ UNCHANGED <<electionVars, pgVars>>
    /\ UNCHANGED <<shut, signals>> /\ NoFault

ActivateSettles(r) ==
    /\ begun' = [begun EXCEPT ![r] = FALSE]
    /\ \/ StartCompletes(r) /\ ActivationSettles(r, "ok")
       \/ StartRejects(r) /\ ActivationSettles(r, "fail")
    /\ UNCHANGED <<shut, signals>> /\ NoFault

CleanUp(r) == CleanupStep(r) /\ RuntimeOnly /\ NoFault

StartFault(r) ==
    /\ \E created \in {{}, {"stream"}} : StartFails(r, created)
    /\ RuntimeOnly /\ Fault

\* onLeadershipLost calls activeRuntime.stop().
CallDeactivate(r) ==
    /\ Running(r, "deactivate") /\ ~begun[r]
    /\ StopBegins(r, "lost")
    /\ begun' = [begun EXCEPT ![r] = TRUE]
    /\ UNCHANGED <<electionVars, pgVars, shut, signals>> /\ NoFault

DeactivateSettles(r) ==
    /\ begun' = [begun EXCEPT ![r] = FALSE]
    /\ StopEnds(r, "lost")
    /\ DeactivationSettles(r, stopping[r]["lost"].failed)
    /\ UNCHANGED <<shut, signals>> /\ NoFault

StopResource(r) ==
    /\ \E w \in Stoppers : StopStep(r, w, FALSE)
    /\ RuntimeOnly /\ NoFault

StopFault(r) ==
    /\ \E w \in Stoppers : StopStep(r, w, TRUE)
    /\ RuntimeOnly /\ Fault

-----------------------------------------------------------------------------
(* The shutdown sequence *)

\* SIGTERM: isShuttingDown, and activeRuntime.stop() is called.
Sigterm(r) ==
    /\ up[r] /\ shut[r] = "no"
    /\ signals < MaxSignals
    /\ signals' = signals + 1
    /\ shut' = [shut EXCEPT ![r] = "runtime"]
    /\ StopBegins(r, "shutdown")
    /\ UNCHANGED <<electionVars, pgVars, begun>> /\ NoFault

\* It settled, well or not: metricsServer.stop() is awaited.
ShutdownRuntimeStopped(r) ==
    /\ shut[r] = "runtime"
    /\ StopEnds(r, "shutdown")
    /\ shut' = [shut EXCEPT ![r] = "metrics"]
    /\ UNCHANGED <<electionVars, pgVars, begun, signals>> /\ NoFault

\* Then leaderElection.stop() is called.
ShutdownElection(r) ==
    /\ shut[r] = "metrics"
    /\ shut' = [shut EXCEPT ![r] = "election"]
    /\ ElectionStop(r)
    /\ UNCHANGED <<runtimeVars, begun, signals>> /\ NoFault

ElectionHalts(r) ==
    /\ HaltUnlocked(r) \/ HaltClosed(r)
    /\ ElectionOnly /\ NoFault

\* It settled: prisma.$disconnect() is awaited.
ShutdownPrisma(r) ==
    /\ shut[r] = "election" /\ halt[r].pc = "no"
    /\ shut' = [shut EXCEPT ![r] = "prisma"]
    /\ UNCHANGED <<electionVars, pgVars, runtimeVars, begun, signals>> /\ NoFault

\* process.exit, at the end or after the 15 seconds.
ShutdownExit(r) ==
    /\ shut[r] = "prisma"
    /\ ProcessGone(r) /\ NoFault

ShutdownTimesOut(r) ==
    /\ shut[r] \notin {"no", "prisma"}
    /\ ProcessGone(r) /\ Fault

-----------------------------------------------------------------------------
Election(r) == Attempt(r) \/ LossHandler(r) \/ DeactivationFatal(r) \/ ElectionHalts(r)

Workload(r) == \/ CallActivate(r) \/ ActivateSettles(r) \/ CleanUp(r)
               \/ CallDeactivate(r) \/ DeactivateSettles(r) \/ StopResource(r)

Shutdown(r) == \/ ShutdownRuntimeStopped(r) \/ ShutdownElection(r)
               \/ ShutdownPrisma(r) \/ ShutdownExit(r)

Failure(r) == \/ Crash(r) \/ AttemptFault(r) \/ LossFault(r) \/ StartFault(r)
              \/ StopFault(r) \/ ShutdownTimesOut(r)

Next ==
    \/ \E r \in Replicas :
           Boot(r) \/ Election(r) \/ Workload(r) \/ Shutdown(r) \/ Failure(r) \/ Sigterm(r)
    \/ OrphanEnds
    \/ SessionFault

\* Timers fire, promises that nothing blocks settle, a connection that is gone is
\* reported, PostgreSQL ends sessions nobody uses, and the container restarts.
Fairness ==
    /\ \A r \in Replicas : /\ WF_vars(Boot(r)) /\ WF_vars(Attempt(r)) /\ WF_vars(LossHandler(r))
                           /\ WF_vars(DeactivationFatal(r)) /\ WF_vars(ElectionHalts(r))
                           /\ WF_vars(Workload(r)) /\ WF_vars(Shutdown(r))
    /\ WF_vars(OrphanEnds)

Spec == Init /\ [][Next]_vars /\ Fairness

-----------------------------------------------------------------------------
(* Properties *)

\* A replica that leads owns the advisory lock, as long as PostgreSQL keeps its
\* session; so two replicas can both believe they lead only while one of them has
\* not yet heard that its session is gone.
LeaderOwnsLock ==
    \A r \in Replicas :
        state[r] = "leader" => /\ client[r] # None
                               /\ client[r] \in alive => lock = client[r]

\* Outside a shutdown, a live stream means that its replica leads under the lock,
\* or under a session whose end it has not heard of, or that its deactivation is
\* queued: a finished deactivation never leaves a stream behind, although the
\* activation it follows may have been waiting for Kafka when the lock was lost.
StreamOnlyUnderLock ==
    \A r \in Replicas : StreamLive(r) /\ shut[r] = "no" =>
        \/ /\ state[r] \in {"activating", "leader"}
           /\ client[r] # None
           /\ client[r] \in alive => lock = client[r]
        \/ state[r] = "deactivating" /\ \E i \in DOMAIN queue[r] : queue[r][i] = "deactivate"

\* The stream never runs without the producer and the publisher of its epoch, as
\* long as no SIGTERM interferes.
StreamHasSinks ==
    \A r \in Replicas : StreamLive(r) /\ shut[r] = "no" => {"kafka", "redis"} \subseteq refs[r]

\* Between two attempts a standby always has something that will start the next
\* one; a lost wake-up would leave the replica out of the election for ever.
StandbyRetries ==
    \A r \in Replicas : state[r] = "standby" =>
        \/ retryTimer[r] \/ acq[r].pc # "no"
        \/ \E c \in Sessions : owner[c] = r /\ loss[c] # "no"

\* A replica that is at rest in standby keeps no lock from the others, whatever
\* became of its last attempt.
StandbyHoldsNoLock ==
    \A r \in Replicas :
        state[r] = "standby" /\ acq[r].pc = "no" /\ client[r] # None => lock # client[r]

\* When failures stop, one replica leads for good: no lock is stranded with a
\* replica that does not lead, and nobody waits for ever.
EventuallyLed == <>[](\E r \in Replicas : state[r] = "leader")

\* A leadership that was lost ends in an orderly way: the stream goes down, and
\* the replica returns to standby or its process ends.
LostLeadershipEnds ==
    \A r \in Replicas : state[r] = "deactivating" ~> (state[r] # "deactivating" /\ ~StreamLive(r))

\* ingestor.ts on shutdown: the lock is returned only after the workload is down.
WorkloadDownBeforeRelease ==
    \A r \in Replicas : halt[r].pc # "no" => ~StreamLive(r)

=============================================================================
