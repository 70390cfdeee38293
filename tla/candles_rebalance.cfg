\* A partition taken away from a living process and given back to it.
CONSTANTS
    btc = btc
    eth = eth
    Symbols = {btc, eth}
    TopicSymbols = {btc, eth}
    Timestamps = {59, 60}
    Prices = {1, 2}
    Malformed = Malformed
    Null = Null
    MaxLog = 4
    MaxFaults = 1
    MaxRebalances = 1
SPECIFICATION SpecWithRebalance
SYMMETRY SymbolSymmetry
CHECK_DEADLOCK FALSE
INVARIANT StoredCandleComplete
