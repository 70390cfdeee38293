\* A chart that pages while candles arrive, and every other query.
CONSTANTS
    DefaultLimit = 2
    MaxLimit = 3
    RangeLimit = 3
    ChartLimit = 1
    MaxTime = 6
SPECIFICATION Spec
INVARIANT NoHoles
PROPERTY HistoryLoaded
CHECK_DEADLOCK FALSE
