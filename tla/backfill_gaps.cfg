\* Three symbols, two at a time: a failure at any await, live inserts, gaps that one
\* answer holds and gaps that it does not.
CONSTANTS
    SYMBOLS = {1, 2, 3}
    Concurrency = 2
    OutputSize = 2
    Views <- TwoViews
    Started = 6
    MaxMinute = 7
    Stored <- StoredTables
    Available = {0, 1, 2, 3, 4, 5, 6, 7}
    ZoneOffset = 0
    MaxErrors = 1
SPECIFICATION Spec
INVARIANTS GapsRecovered ReportedRowsRefreshed
PROPERTY BackfillCompletes
CHECK_DEADLOCK FALSE
