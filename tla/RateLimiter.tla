----------------------------- MODULE RateLimiter -----------------------------
(***************************************************************************)
(* The shared protection of TwelveData REST requests: a Bottleneck queue   *)
(* that runs MaxConcurrent jobs at a time, a policy that stops all         *)
(* requests for a while after an HTTP 429, and delayed retries of          *)
(* transient failures.  Requests that are already sent when a cooldown     *)
(* starts answer later, and may answer 429 themselves.                     *)
(*                                                                         *)
(* A caller has one request at a time.  Time is in seconds and moves only  *)
(* while something waits for it.  The spacing of starts (minTime) is left  *)
(* out: a start may come at any time.                                      *)
(***************************************************************************)
EXTENDS Integers, Sequences, FiniteSetsExt, Functions

CONSTANTS
    Callers,
    MaxConcurrent,        \* jobs that hold a slot of the limiter
    HighWater,            \* jobs that may wait for a slot
    MAX_TRANSIENT_RETRIES,
    DefaultCooldown,      \* DEFAULT_RATE_LIMIT_COOLDOWN_MS
    RetryAfterSeconds,    \* retry-after headers in seconds
    RetryAfterDates,      \* retry-after headers as a date
    MaxRequests           \* bound: requests made

ASSUME RateLimiterAssumption ==
    /\ IsFiniteSet(Callers)
    /\ MaxConcurrent \in Nat \ {0} /\ HighWater \in Nat \ {0}
    /\ MAX_TRANSIENT_RETRIES \in Nat
    /\ DefaultCooldown \in Nat
    /\ RetryAfterSeconds \subseteq Nat /\ RetryAfterDates \subseteq Nat
    /\ MaxRequests \in Nat

VARIABLES
    now,
    nextAllowedRequestAt, \* 0: no cooldown
    queue,                \* callers whose job waits for a slot, oldest first
    job,                  \* per caller: where its request is
    retryCount,           \* per caller: jobInfo.retryCount
    wake,                 \* per caller: when a "waiting" job runs again
    forbidden,            \* history: the latest end of a cooldown the provider asked for
    requests

vars == <<now, nextAllowedRequestAt, queue, job, retryCount, wake, forbidden, requests>>

\* Positions of a request: not made, in the queue, holding a slot before it runs,
\* sent, holding a slot until a retry.
Positions == {"none", "queued", "scheduled", "sent", "waiting"}

Holding == {c \in Callers : job[c] \in {"scheduled", "sent", "waiting"}}

TypeOK ==
    /\ now \in Nat /\ nextAllowedRequestAt \in Nat /\ forbidden \in Nat
    /\ job \in [Callers -> Positions]
    /\ retryCount \in [Callers -> Nat]
    /\ wake \in [Callers -> Nat]
    /\ queue \in Seq(Callers)
    /\ Range(queue) \subseteq {c \in Callers : job[c] = "queued"}
    /\ requests \in 0..MaxRequests

Init ==
    /\ now = 0 /\ nextAllowedRequestAt = 0 /\ forbidden = 0
    /\ queue = <<>>
    /\ job = [c \in Callers |-> "none"]
    /\ retryCount = [c \in Callers |-> 0]
    /\ wake = [c \in Callers |-> 0]
    /\ requests = 0

-----------------------------------------------------------------------------
(* TwelveDataRequestPolicy *)

\* beforeRequest throws TwelveDataCooldownError.
CoolingDown == nextAllowedRequestAt > now

\* beforeRequest returns: a cooldown that is over is forgotten.
RequestAllowed ==
    /\ ~CoolingDown
    /\ nextAllowedRequestAt' = 0

\* The retry-after header of an answer.
Headers ==
    [kind : {"none"}, value : {0}]
        \cup [kind : {"seconds"}, value : RetryAfterSeconds]
        \cup [kind : {"date"}, value : RetryAfterDates]

\* parseRetryAfterMs, with the default for a missing header and a date that is over.
RetryAfter(h) ==
    CASE h.kind = "seconds" -> h.value
      [] h.kind = "date" /\ h.value > now -> h.value - now
      [] OTHER -> DefaultCooldown

\* Faulty variant: the last 429 sets the cooldown.
LastCooldownWins(h) == nextAllowedRequestAt' = now + RetryAfter(h)

\* handleFailure of a 429: a running cooldown is never shortened.
RateLimited(h) ==
    nextAllowedRequestAt' = Max({nextAllowedRequestAt, now + RetryAfter(h)})

\* Faulty variant: one retry more than the maximum.
OneRetryMore(c) == retryCount[c] <= MAX_TRANSIENT_RETRIES

\* handleFailure of a transient failure: whether the job is retried.
Retryable(c) == retryCount[c] < MAX_TRANSIENT_RETRIES

\* 2 ** retryCount, with up to a quarter of it as jitter.
RetryDelays(c) == LET base == 2 ^ retryCount[c] IN base..(base + (base + 3) \div 4)

-----------------------------------------------------------------------------
(* scheduleTwelveDataRequest and the limiter *)

\* Faulty variant: rejectOnDrop is off, the dropped request never settles.
LeakSilently(c) == queue' = Append(Tail(queue), c) /\ job' = [job EXCEPT ![c] = "queued"]

\* A full queue drops its oldest job, whose caller gets an error (strategy LEAK).
Leak(c) ==
    /\ queue' = Append(Tail(queue), c)
    /\ job' = [job EXCEPT ![c] = "queued", ![Head(queue)] = "none"]

\* The queue is at its limit and no slot is free for the new job.  Bottleneck also drops
\* a job when the new one would only wait for minTime, which is left out.
ReachedHighWater == Len(queue) = HighWater /\ Cardinality(Holding) >= MaxConcurrent

\* A caller makes a request; in a cooldown it is refused at once.
Schedule(c) ==
    /\ job[c] = "none"
    /\ requests < MaxRequests
    /\ requests' = requests + 1
    /\ \/ CoolingDown /\ UNCHANGED <<nextAllowedRequestAt, queue, job>>
       \/ /\ RequestAllowed
          /\ IF ReachedHighWater
             THEN Leak(c)
             ELSE queue' = Append(queue, c) /\ job' = [job EXCEPT ![c] = "queued"]
    /\ UNCHANGED <<now, retryCount, wake, forbidden>>

\* The job is over, and frees its slot.
Settle(c) ==
    /\ job' = [job EXCEPT ![c] = "none"]
    /\ retryCount' = [retryCount EXCEPT ![c] = 0]

\* The oldest job takes a free slot.
Drain ==
    /\ queue # <<>>
    /\ Cardinality(Holding) < MaxConcurrent
    /\ job' = [job EXCEPT ![Head(queue)] = "scheduled"]
    /\ queue' = Tail(queue)
    /\ UNCHANGED <<now, nextAllowedRequestAt, retryCount, wake, forbidden, requests>>

\* The job runs, at first or as a retry: it asks the policy again, and in a cooldown
\* it fails for good.
Run(c) ==
    /\ job[c] = "scheduled" \/ (job[c] = "waiting" /\ wake[c] <= now)
    /\ wake' = [wake EXCEPT ![c] = 0]
    /\ \/ CoolingDown /\ Settle(c) /\ UNCHANGED nextAllowedRequestAt
       \/ RequestAllowed /\ job' = [job EXCEPT ![c] = "sent"] /\ UNCHANGED retryCount
    /\ UNCHANGED <<now, queue, forbidden, requests>>

\* The answer settles the request: a success, or an error that is not transient.
AnswerFinal(c) ==
    /\ job[c] = "sent"
    /\ Settle(c)
    /\ UNCHANGED <<now, nextAllowedRequestAt, queue, wake, forbidden, requests>>

\* A 429: the request fails and a cooldown starts or is extended.
Answer429(c, h) ==
    /\ job[c] = "sent"
    /\ RateLimited(h)
    /\ forbidden' = Max({forbidden, now + RetryAfter(h)})
    /\ Settle(c)
    /\ UNCHANGED <<now, queue, wake, requests>>

\* A timeout, a lost connection, 408 or 5xx: a retry keeps the slot until it runs.
AnswerTransient(c) ==
    /\ job[c] = "sent"
    /\ IF Retryable(c)
       THEN /\ job' = [job EXCEPT ![c] = "waiting"]
            /\ retryCount' = [retryCount EXCEPT ![c] = @ + 1]
            /\ \E d \in RetryDelays(c) : wake' = [wake EXCEPT ![c] = now + d]
       ELSE Settle(c) /\ UNCHANGED wake
    /\ UNCHANGED <<now, nextAllowedRequestAt, queue, forbidden, requests>>

\* Time passes while a retry or the end of a cooldown is awaited.
Tick ==
    /\ CoolingDown \/ \E c \in Callers : job[c] = "waiting" /\ wake[c] > now
    /\ now' = now + 1
    /\ UNCHANGED <<nextAllowedRequestAt, queue, job, retryCount, wake, forbidden, requests>>

-----------------------------------------------------------------------------
Answer(c) ==
    \/ AnswerFinal(c) \/ AnswerTransient(c)
    \/ \E h \in Headers : Answer429(c, h)

Next ==
    \/ Drain \/ Tick
    \/ \E c \in Callers : Schedule(c) \/ Run(c) \/ Answer(c)

\* The limiter and its timers run, and every request sent is answered or times out.
\* Nobody need make a request.
Fairness ==
    /\ WF_vars(Drain) /\ WF_vars(Tick)
    /\ \A c \in Callers : WF_vars(Run(c)) /\ WF_vars(Answer(c))

Spec == Init /\ [][Next]_vars /\ Fairness

-----------------------------------------------------------------------------
(* Properties *)

\* No request leaves before the end of the longest cooldown any 429 asked for: not
\* one that was queued or waited for a retry when the cooldown began, and not after
\* a later 429 with a shorter retry-after.
NoRequestInCooldown ==
    [][\A c \in Callers : job[c] # "sent" /\ job'[c] = "sent" => now >= forbidden]_vars

\* A request is sent at most MAX_TRANSIENT_RETRIES times after the first, and jobs
\* that wait for a retry keep the limiter within MaxConcurrent slots.
RetriesBounded ==
    /\ \A c \in Callers : retryCount[c] <= MAX_TRANSIENT_RETRIES
    /\ Cardinality(Holding) <= MaxConcurrent

\* Every request settles: answered, refused by a cooldown, out of retries or dropped.
EveryRequestSettles == \A c \in Callers : (job[c] # "none") ~> (job[c] = "none")

=============================================================================
