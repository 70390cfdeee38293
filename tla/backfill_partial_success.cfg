\* The second gap throws after the first one was filled.
CONSTANTS
    SYMBOLS = {1, 2}
    Concurrency = 2
    OutputSize = 2
    Views <- TwoViews
    Started = 6
    MaxMinute = 7
    Stored <- StoredTables
    Available = {0, 1, 2, 3, 4, 5, 6, 7}
    ZoneOffset = 0
    MaxErrors = 1
SPECIFICATION Spec
INVARIANT PartialSuccessRefreshed
CHECK_DEADLOCK FALSE
