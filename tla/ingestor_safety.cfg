\* Two replicas: lost sessions, failing workloads, crashes and a SIGTERM.
CONSTANTS
    r1 = r1
    r2 = r2
    s1 = s1
    s2 = s2
    s3 = s3
    s4 = s4
    Replicas = {r1, r2}
    Sessions = {s1, s2, s3, s4}
    None = None
    MaxFaults = 2
    MaxSignals = 1
SPECIFICATION Spec
SYMMETRY ReplicaSessionSymmetry
INVARIANTS TypeOK LeaderOwnsLock StreamOnlyUnderLock StreamHasSinks StandbyRetries StandbyHoldsNoLock
