----------------------------- MODULE CandleTable -----------------------------
(***************************************************************************)
(* What candle_1m promises its readers, with no word about processes,      *)
(* offsets or failures: the topic only grows, and from time to time the    *)
(* complete candle of a minute that has none is added.                     *)
(***************************************************************************)
EXTENDS Candles

VARIABLES
    log,   \* the records of the topic
    table  \* <<symbol, startTime>> -> candle

vars == <<log, table>>

Init == log = <<>> /\ DOMAIN table = {}

Record(r) ==
    /\ log' = Append(log, r)
    /\ UNCHANGED table

\* The first stay of the symbol in the minute ended; its candle becomes the row.
Settle(c) ==
    /\ UNCHANGED log
    /\ Key(c) \notin DOMAIN table
    /\ table' = Put(table, Key(c), c)
    /\ IsComplete(log, c)

Next ==
    \/ \E r \in Tick \cup {Malformed} : Record(r)
    \/ \E c \in Candle : Settle(c)

Spec == Init /\ [][Next]_vars

=============================================================================
