\* Two symbols: answers in any order, drops, stalls and a stop at any time.
CONSTANTS
    btc = btc
    eth = eth
    Symbols = {btc, eth}
    MaxTicks = 3
    MaxDrops = 2
SPECIFICATION Spec
CHECK_DEADLOCK FALSE
INVARIANTS RedisOnlyAfterKafka RedisKeepsSymbolOrder NoSendAcrossDisconnect ConnectedOrRetrying
PROPERTIES EveryTickSettles StalledFeedReconnects StopCompletes
