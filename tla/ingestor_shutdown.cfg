\* A SIGTERM during an activation, without any failure.
CONSTANTS
    r1 = r1
    r2 = r2
    s1 = s1
    s2 = s2
    s3 = s3
    Replicas = {r1, r2}
    Sessions = {s1, s2, s3}
    None = None
    MaxFaults = 0
    MaxSignals = 1
SPECIFICATION Spec
INVARIANT WorkloadDownBeforeRelease
