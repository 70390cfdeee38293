-------------------------- MODULE RateLimiterProofs --------------------------
(***************************************************************************)
(* Proofs about the REST rate limiter, for every set of callers, number of *)
(* slots, queue length and number of retries, and for every retry-after    *)
(* the provider can send.                                                  *)
(***************************************************************************)
EXTENDS RateLimiter, TLAPS, FiniteSetTheorems

-----------------------------------------------------------------------------
(* Facts about the operators *)

\* Math.max of two numbers.
LEMMA MaxOfTwo ==
    ASSUME NEW a \in Nat, NEW b \in Nat
    PROVE  Max({a, b}) = IF a >= b THEN a ELSE b
<1> DEFINE m == IF a >= b THEN a ELSE b
<1>1. m \in {a, b} /\ \A y \in {a, b} : m >= y
  OBVIOUS
<1>2. \A x \in {a, b} : (\A y \in {a, b} : x >= y) => x = m
  OBVIOUS
<1> QED BY <1>1, <1>2 DEF Max

\* A power of two is a natural number: it counts the subsets of an interval.
LEMMA PowerOfTwo == ASSUME NEW n \in Nat PROVE 2 ^ n \in Nat
<1>1. IsFiniteSet(1..n) /\ Cardinality(1..n) = n
  BY FS_Interval
<1>2. IsFiniteSet(SUBSET (1..n)) /\ Cardinality(SUBSET (1..n)) = 2 ^ n
  BY <1>1, FS_SUBSET
<1> QED BY <1>2, FS_CardinalityType

\* A retry waits for a natural number of seconds.
LEMMA RetryDelayType ==
    ASSUME NEW c \in Callers, retryCount[c] \in Nat, NEW d \in RetryDelays(c)
    PROVE  d \in Nat
<1>1. 2 ^ retryCount[c] \in Nat
  BY PowerOfTwo
<1> HIDE DEF RetryDelays
<1>2. \A b \in Nat : \A e \in b..(b + (b + 3) \div 4) : e \in Nat
  OBVIOUS
<1> QED BY <1>1, <1>2 DEF RetryDelays

\* A cooldown lasts a natural number of seconds.
LEMMA RetryAfterType ==
    ASSUME now \in Nat, NEW h \in Headers
    PROVE  RetryAfter(h) \in Nat
<1>1. h.kind = "seconds" => h.value \in Nat
  BY RateLimiterAssumption DEF Headers
<1>2. h.kind = "date" => h.value \in Nat
  BY RateLimiterAssumption DEF Headers
<1>3. CASE h.kind = "seconds"
  BY <1>1, <1>3 DEF RetryAfter
<1>4. CASE h.kind = "date" /\ h.value > now
  BY <1>2, <1>4 DEF RetryAfter
<1>5. CASE h.kind # "seconds" /\ ~(h.kind = "date" /\ h.value > now)
  BY <1>5, RateLimiterAssumption DEF RetryAfter
<1> QED BY <1>3, <1>4, <1>5

\* No caller is in the sequence twice.
Distinct(s) == \A i, j \in 1..Len(s) : s[i] = s[j] => i = j

\* A new caller at the end of a queue.
LEMMA AppendQueue ==
    ASSUME NEW s \in Seq(Callers), NEW c \in Callers, Distinct(s), c \notin Range(s)
    PROVE  /\ Append(s, c) \in Seq(Callers)
           /\ Range(Append(s, c)) = Range(s) \cup {c}
           /\ Distinct(Append(s, c))
<1>1. /\ Append(s, c) \in Seq(Callers) /\ Len(Append(s, c)) = Len(s) + 1
      /\ \A i \in 1..Len(s) : Append(s, c)[i] = s[i]
      /\ Append(s, c)[Len(s) + 1] = c
  OBVIOUS
<1>2. \A i \in 1..Len(s) : s[i] # c
  BY DEF Range
<1>3. Distinct(Append(s, c))
  BY <1>1, <1>2 DEF Distinct
<1>4. DOMAIN s = 1..Len(s) /\ DOMAIN Append(s, c) = 1..(Len(s) + 1) /\ Len(s) \in Nat
  BY <1>1
<1>5. Range(Append(s, c)) = Range(s) \cup {c}
  BY <1>1, <1>4 DEF Range
<1> QED BY <1>1, <1>3, <1>5

\* The oldest caller leaves a queue.
LEMMA TailQueue ==
    ASSUME NEW s \in Seq(Callers), s # <<>>, Distinct(s)
    PROVE  /\ Tail(s) \in Seq(Callers) /\ Head(s) \in Callers /\ Head(s) \in Range(s)
           /\ Range(Tail(s)) = Range(s) \ {Head(s)}
           /\ Distinct(Tail(s))
<1>1. /\ Tail(s) \in Seq(Callers) /\ Len(s) \in Nat \ {0} /\ Len(Tail(s)) = Len(s) - 1
      /\ \A i \in 1..(Len(s) - 1) : Tail(s)[i] = s[i + 1]
      /\ Head(s) = s[1]
  OBVIOUS
<1>2. DOMAIN s = 1..Len(s) /\ DOMAIN Tail(s) = 1..(Len(s) - 1)
  BY <1>1
<1>3. Head(s) \in Callers /\ Head(s) \in Range(s)
  BY <1>1, <1>2 DEF Range
<1>4. Distinct(Tail(s))
  BY <1>1 DEF Distinct
<1>5. ASSUME NEW x \in Range(Tail(s)) PROVE x \in Range(s) \ {Head(s)}
  <2>1. PICK i \in 1..(Len(s) - 1) : x = s[i + 1]
    BY <1>1, <1>2 DEF Range
  <2>2. i + 1 \in 1..Len(s) /\ i + 1 # 1 /\ 1 \in 1..Len(s)
    BY <1>1
  <2> QED BY <1>1, <1>2, <2>1, <2>2 DEF Range, Distinct
<1>6. ASSUME NEW x \in Range(s) \ {Head(s)} PROVE x \in Range(Tail(s))
  <2>1. PICK i \in 1..Len(s) : x = s[i]
    BY <1>2 DEF Range
  <2>2. i - 1 \in 1..(Len(s) - 1) /\ Tail(s)[i - 1] = x
    BY <1>1, <1>6, <2>1
  <2> QED BY <1>2, <2>2 DEF Range
<1> QED BY <1>1, <1>3, <1>4, <1>5, <1>6

-----------------------------------------------------------------------------
(* The inductive invariant *)

\* The policy still knows the longest cooldown, or forgot it after its end.
CooldownKnown == nextAllowedRequestAt = forbidden \/ (nextAllowedRequestAt = 0 /\ forbidden <= now)

IInv == TypeOK /\ Distinct(queue) /\ CooldownKnown /\ RetriesBounded

\* Nothing was asked of the limiter yet.
LEMMA InitIInv == Init => IInv
<1> SUFFICES ASSUME Init PROVE IInv
  OBVIOUS
<1>1. Range(queue) = {} /\ queue \in Seq(Callers) /\ Distinct(queue)
  BY DEF Init, Range, Distinct
<1>2. Holding = {}
  BY DEF Init, Holding
<1>3. Cardinality(Holding) = 0
  BY <1>2, FS_EmptySet
<1> QED
  BY <1>1, <1>3, RateLimiterAssumption
     DEF Init, IInv, TypeOK, Positions, CooldownKnown, RetriesBounded

\* The slots in use are finite, and giving one up keeps the bound.
LEMMA HoldingShrinks ==
    ASSUME RetriesBounded, Holding' \subseteq Holding
    PROVE  Cardinality(Holding') <= MaxConcurrent
<1>1. IsFiniteSet(Holding)
  BY RateLimiterAssumption, FS_Subset DEF Holding
<1>2. Cardinality(Holding') <= Cardinality(Holding) /\ IsFiniteSet(Holding')
  BY <1>1, FS_Subset
<1>3. Cardinality(Holding) \in Nat /\ Cardinality(Holding') \in Nat
  BY <1>1, <1>2, FS_CardinalityType
<1> QED BY <1>2, <1>3, RateLimiterAssumption DEF RetriesBounded

\* A request is refused, queued, or queued in the place of the oldest one.
LEMMA ScheduleIInv == ASSUME IInv, NEW c \in Callers, Schedule(c) PROVE IInv'
<1> USE RateLimiterAssumption
<1>1. /\ UNCHANGED <<now, retryCount, wake, forbidden>> /\ requests' \in 0..MaxRequests
      /\ job[c] = "none" /\ job \in [Callers -> Positions]
      /\ queue \in Seq(Callers) /\ Distinct(queue)
      /\ \A x \in Range(queue) : x \in Callers /\ job[x] = "queued"
  BY DEF Schedule, IInv, TypeOK
<1>2. c \notin Range(queue)
  BY <1>1
<1>3. CASE UNCHANGED <<nextAllowedRequestAt, queue, job>>
  BY <1>1, <1>3 DEF IInv, TypeOK, CooldownKnown, RetriesBounded, Holding
<1>4. CASE RequestAllowed
  <2>1. nextAllowedRequestAt' \in Nat /\ CooldownKnown'
    BY <1>1, <1>4 DEF RequestAllowed, CoolingDown, IInv, TypeOK, CooldownKnown
  <2>2. CASE queue' = Append(queue, c) /\ job' = [job EXCEPT ![c] = "queued"]
    <3>1. /\ queue' \in Seq(Callers) /\ Range(queue') = Range(queue) \cup {c} /\ Distinct(queue')
      BY <1>1, <1>2, <2>2, AppendQueue
    <3>2. job' \in [Callers -> Positions] /\ \A x \in Range(queue') : job'[x] = "queued"
      BY <1>1, <2>2, <3>1 DEF Positions
    <3>3. Holding' \subseteq Holding
      BY <1>1, <2>2 DEF Holding
    <3>4. Cardinality(Holding') <= MaxConcurrent
      BY <3>3, HoldingShrinks DEF IInv
    <3> QED
      BY <1>1, <2>1, <3>1, <3>2, <3>4 DEF IInv, TypeOK, RetriesBounded
  <2>3. CASE ReachedHighWater /\ Leak(c)
    <3>1. queue # <<>>
      BY <1>1, <2>3 DEF ReachedHighWater
    <3>2. /\ Tail(queue) \in Seq(Callers) /\ Head(queue) \in Range(queue)
          /\ Range(Tail(queue)) = Range(queue) \ {Head(queue)} /\ Distinct(Tail(queue))
      BY <1>1, <3>1, TailQueue
    <3>3. /\ queue' \in Seq(Callers) /\ Distinct(queue')
          /\ Range(queue') = Range(Tail(queue)) \cup {c}
      BY <1>2, <2>3, <3>2, AppendQueue DEF Leak
    <3>4. /\ job' \in [Callers -> Positions] /\ \A x \in Range(queue') : job'[x] = "queued"
          /\ Holding' \subseteq Holding
      BY <1>1, <1>2, <2>3, <3>2, <3>3 DEF Leak, Positions, Holding
    <3>5. Cardinality(Holding') <= MaxConcurrent
      BY <3>4, HoldingShrinks DEF IInv
    <3> QED
      BY <1>1, <2>1, <3>2, <3>3, <3>4, <3>5 DEF IInv, TypeOK, RetriesBounded
  <2> QED BY <1>4, <2>2, <2>3 DEF Schedule, RequestAllowed
<1> QED BY <1>3, <1>4 DEF Schedule

\* A free slot is taken by the oldest job.
LEMMA DrainIInv == ASSUME IInv, Drain PROVE IInv'
<1> USE RateLimiterAssumption
<1>1. /\ UNCHANGED <<now, nextAllowedRequestAt, retryCount, wake, forbidden, requests>>
      /\ queue # <<>> /\ queue' = Tail(queue) /\ job' = [job EXCEPT ![Head(queue)] = "scheduled"]
      /\ Cardinality(Holding) < MaxConcurrent
  BY DEF Drain
<1>2. /\ job \in [Callers -> Positions] /\ queue \in Seq(Callers) /\ Distinct(queue)
      /\ \A x \in Range(queue) : x \in Callers /\ job[x] = "queued"
  BY DEF IInv, TypeOK
<1>3. /\ queue' \in Seq(Callers) /\ Distinct(queue') /\ Head(queue) \in Callers
      /\ Range(queue') = Range(queue) \ {Head(queue)}
  BY <1>1, <1>2, TailQueue
<1>4. /\ job' \in [Callers -> Positions] /\ \A x \in Range(queue') : job'[x] = "queued"
      /\ Holding' \subseteq Holding \cup {Head(queue)}
  BY <1>1, <1>2, <1>3 DEF Positions, Holding
<1>5. Cardinality(Holding') <= MaxConcurrent
  <2>1. IsFiniteSet(Holding)
    BY FS_Subset DEF Holding
  <2>2. /\ IsFiniteSet(Holding \cup {Head(queue)})
        /\ Cardinality(Holding \cup {Head(queue)}) <= Cardinality(Holding) + 1
        /\ Cardinality(Holding) \in Nat
    BY <2>1, FS_AddElement, FS_CardinalityType, SMTT(30)
  <2>3. /\ Cardinality(Holding') <= Cardinality(Holding \cup {Head(queue)})
        /\ IsFiniteSet(Holding')
    BY <1>4, <2>2, FS_Subset
  <2>4. Cardinality(Holding') \in Nat /\ Cardinality(Holding \cup {Head(queue)}) \in Nat
    BY <2>2, <2>3, FS_CardinalityType
  <2> QED BY <1>1, <2>2, <2>3, <2>4
<1> QED
  BY <1>1, <1>2, <1>3, <1>4, <1>5 DEF IInv, TypeOK, CooldownKnown, RetriesBounded

\* A job that holds a slot moves on or settles; its caller is not in the queue.
LEMMA HolderIInv ==
    ASSUME IInv, NEW c \in Holding, NEW p \in {"none", "sent", "waiting"},
           job' = [job EXCEPT ![c] = p],
           UNCHANGED <<now, queue, requests>>,
           nextAllowedRequestAt' \in Nat, forbidden' \in Nat, CooldownKnown',
           retryCount' \in [Callers -> 0..MAX_TRANSIENT_RETRIES], wake' \in [Callers -> Nat]
    PROVE  IInv'
<1> USE RateLimiterAssumption
<1>1. /\ job \in [Callers -> Positions] /\ c \in Callers /\ job[c] # "queued"
      /\ \A x \in Range(queue) : x \in Callers /\ job[x] = "queued"
  BY DEF IInv, TypeOK, Holding
<1>2. /\ job' \in [Callers -> Positions] /\ (\A x \in Range(queue) : job'[x] = "queued")
      /\ Holding' \subseteq Holding
  BY <1>1 DEF Positions, Holding
<1>3. Cardinality(Holding') <= MaxConcurrent
  BY <1>2, HoldingShrinks DEF IInv
<1>4. retryCount' \in [Callers -> Nat] /\ \A x \in Callers : retryCount'[x] <= MAX_TRANSIENT_RETRIES
  OBVIOUS
<1> QED BY <1>1, <1>2, <1>3, <1>4 DEF IInv, TypeOK, RetriesBounded, Distinct

\* A job runs: it is refused by a cooldown, or it is sent.
LEMMA RunIInv == ASSUME IInv, NEW c \in Callers, Run(c) PROVE IInv'
<1> USE RateLimiterAssumption
<1>1. /\ c \in Holding /\ wake' \in [Callers -> Nat]
      /\ retryCount \in [Callers -> 0..MAX_TRANSIENT_RETRIES]
      /\ UNCHANGED <<now, queue, forbidden, requests>> /\ forbidden' \in Nat
  BY DEF Run, Holding, IInv, TypeOK, RetriesBounded
<1>2. CASE CoolingDown /\ Settle(c) /\ UNCHANGED nextAllowedRequestAt
  <2>1. job' = [job EXCEPT ![c] = "none"] /\ retryCount' \in [Callers -> 0..MAX_TRANSIENT_RETRIES]
    BY <1>1, <1>2 DEF Settle
  <2>2. nextAllowedRequestAt' \in Nat /\ CooldownKnown'
    BY <1>1, <1>2 DEF IInv, TypeOK, CooldownKnown
  <2> QED BY <1>1, <2>1, <2>2, HolderIInv
<1>3. CASE RequestAllowed /\ job' = [job EXCEPT ![c] = "sent"] /\ UNCHANGED retryCount
  <2>1. nextAllowedRequestAt' \in Nat /\ CooldownKnown'
    BY <1>1, <1>3 DEF RequestAllowed, CoolingDown, IInv, TypeOK, CooldownKnown
  <2> QED BY <1>1, <1>3, <2>1, HolderIInv
<1> QED BY <1>2, <1>3 DEF Run

\* An answer settles the request, starts or extends a cooldown, or plans a retry.
LEMMA AnswerIInv == ASSUME IInv, NEW c \in Callers, Answer(c) PROVE IInv'
<1> USE RateLimiterAssumption
<1>1. /\ now \in Nat /\ nextAllowedRequestAt \in Nat /\ forbidden \in Nat /\ CooldownKnown
      /\ retryCount \in [Callers -> 0..MAX_TRANSIENT_RETRIES] /\ wake \in [Callers -> Nat]
  BY DEF IInv, TypeOK, RetriesBounded
<1>2. c \in Holding /\ UNCHANGED <<now, queue, requests>>
  BY DEF Answer, AnswerFinal, AnswerTransient, Answer429, Holding
<1>3. Settle(c) => /\ job' = [job EXCEPT ![c] = "none"]
                   /\ retryCount' \in [Callers -> 0..MAX_TRANSIENT_RETRIES]
  BY <1>1 DEF Settle
<1>4. CASE Settle(c) /\ UNCHANGED <<nextAllowedRequestAt, wake, forbidden>>
  BY <1>1, <1>2, <1>3, <1>4, HolderIInv DEF CooldownKnown
<1>5. ASSUME NEW h \in Headers, Answer429(c, h) PROVE IInv'
  <2>1. now + RetryAfter(h) \in Nat /\ now + RetryAfter(h) >= now
    BY <1>1, RetryAfterType
  <2>2. /\ nextAllowedRequestAt' = Max({nextAllowedRequestAt, now + RetryAfter(h)})
        /\ forbidden' = Max({forbidden, now + RetryAfter(h)})
        /\ Settle(c) /\ UNCHANGED wake
    BY <1>5 DEF Answer429, RateLimited
  <2>3. /\ nextAllowedRequestAt' \in Nat /\ forbidden' \in Nat /\ nextAllowedRequestAt' = forbidden'
    BY <1>1, <2>1, <2>2, MaxOfTwo DEF CooldownKnown
  <2> QED BY <1>1, <1>2, <1>3, <2>2, <2>3, HolderIInv DEF CooldownKnown
<1>6. CASE AnswerTransient(c) /\ Retryable(c)
  <2>1. PICK d \in RetryDelays(c) : wake' = [wake EXCEPT ![c] = now + d]
    BY <1>6 DEF AnswerTransient
  <2>2. wake' \in [Callers -> Nat]
    BY <1>1, <2>1, RetryDelayType
  <2>3. /\ retryCount' \in [Callers -> 0..MAX_TRANSIENT_RETRIES]
        /\ job' = [job EXCEPT ![c] = "waiting"]
        /\ UNCHANGED <<nextAllowedRequestAt, forbidden>>
    BY <1>1, <1>6 DEF AnswerTransient, Retryable
  <2> QED BY <1>1, <1>2, <2>2, <2>3, HolderIInv DEF CooldownKnown
<1> QED BY <1>4, <1>5, <1>6 DEF Answer, AnswerFinal, AnswerTransient

\* Every step keeps the inductive invariant.
LEMMA NextIInv == IInv /\ [Next]_vars => IInv'
<1> SUFFICES ASSUME IInv, [Next]_vars PROVE IInv'
  OBVIOUS
<1>1. CASE Tick
  BY <1>1 DEF Tick, IInv, TypeOK, CooldownKnown, RetriesBounded, Holding, Distinct
<1>2. CASE UNCHANGED vars
  BY <1>2 DEF vars, IInv, TypeOK, CooldownKnown, RetriesBounded, Holding, Distinct
<1> QED BY <1>1, <1>2, ScheduleIInv, DrainIInv, RunIInv, AnswerIInv DEF Next

\* The inductive invariant holds in every state of every behaviour.
LEMMA Invariance == Spec => []IInv
BY InitIInv, NextIInv, PTL DEF Spec

-----------------------------------------------------------------------------
(* The theorems *)

\* The state of the limiter and its policy keeps its types: what is queued is a
\* request that waits for a slot.
THEOREM TypeCorrect == Spec => []TypeOK
<1>1. IInv => TypeOK
  BY DEF IInv
<1> QED BY Invariance, <1>1, PTL

\* However many callers there are, retries stay bounded and hold no more slots than
\* the limiter has.
THEOREM RetriesAreBounded == Spec => []RetriesBounded
<1>1. IInv => RetriesBounded
  BY DEF IInv
<1> QED BY Invariance, <1>1, PTL

\* No request is sent inside a cooldown, whichever order overlapping 429 answers come
\* in (rate-limiter.ts: Math.max, and the second assertRequestAllowed).
THEOREM CooldownHonoured == Spec => NoRequestInCooldown
<1>1. IInv /\ [Next]_vars =>
        [\A c \in Callers : job[c] # "sent" /\ job'[c] = "sent" => now >= forbidden]_vars
  <2> SUFFICES ASSUME IInv, [Next]_vars, NEW c \in Callers, job[c] # "sent", job'[c] = "sent"
               PROVE  now >= forbidden
    OBVIOUS
  <2>1. job \in [Callers -> Positions] /\ now \in Nat /\ forbidden \in Nat
    BY DEF IInv, TypeOK
  <2>2. ~CoolingDown
    BY <2>1 DEF Next, Drain, Tick, Schedule, Leak, Run, Settle, RequestAllowed, Answer,
                AnswerFinal, Answer429, AnswerTransient, vars
  <2> QED BY <2>1, <2>2 DEF CoolingDown, IInv, CooldownKnown, TypeOK
<1> QED BY Invariance, <1>1, PTL DEF Spec, NoRequestInCooldown

=============================================================================
