\* Two symbols on one partition: kills, failures, late inserts and uncertain commits.
CONSTANTS
    btc = btc
    eth = eth
    Symbols = {btc, eth}
    TopicSymbols = {btc, eth}
    Timestamps = {59, 60}
    Prices = {1, 2}
    Malformed = Malformed
    Null = Null
    MaxLog = 4
    MaxFaults = 1
    MaxRebalances = 0
SPECIFICATION Spec
CHECK_DEADLOCK FALSE
INVARIANTS StoredCandleComplete CommittedTicksStored PublishedAfterSave
PROPERTIES CommitNeverRegresses ClosedMinuteEventuallyStored ImplementsCandleTable
