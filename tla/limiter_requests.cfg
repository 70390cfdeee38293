\* Four callers, two slots, one place in the queue: drops, retries and overlapping
\* cooldowns.
CONSTANTS
    c1 = c1
    c2 = c2
    c3 = c3
    c4 = c4
    Callers = {c1, c2, c3, c4}
    MaxConcurrent = 2
    HighWater = 1
    MAX_TRANSIENT_RETRIES = 1
    DefaultCooldown = 2
    RetryAfterSeconds = {0, 1}
    RetryAfterDates = {2}
    MaxRequests = 4
SPECIFICATION Spec
INVARIANT RetriesBounded
PROPERTIES NoRequestInCooldown EveryRequestSettles
CHECK_DEADLOCK FALSE
