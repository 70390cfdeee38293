\* Once failures stop somebody leads, and a lost leadership ends.
CONSTANTS
    r1 = r1
    r2 = r2
    s1 = s1
    s2 = s2
    Replicas = {r1, r2}
    Sessions = {s1, s2}
    None = None
    MaxFaults = 1
    MaxSignals = 1
SPECIFICATION Spec
PROPERTIES EventuallyLed LostLeadershipEnds
