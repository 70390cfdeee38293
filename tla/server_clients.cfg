\* Two clients: subscriptions, heartbeats, Redis failures and a signal at any time.
CONSTANTS
    c1 = c1
    c2 = c2
    Clients = {c1, c2}
    btc = btc
    Symbols = {btc}
    q1 = q1
    Invalid = Invalid
    Requests = {q1}
    MaxEvents = 2
    MaxInputs = 2
SPECIFICATION Spec
INVARIANTS TypeOK StreamMatchesAcks CleanShutdown
PROPERTIES EventReachesSubscribers HeartbeatExact ShutdownCompletes
CHECK_DEADLOCK FALSE
