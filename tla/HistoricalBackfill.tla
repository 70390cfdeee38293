-------------------------- MODULE HistoricalBackfill --------------------------
(***************************************************************************)
(* runHistoricalBackfill: for every stream symbol, at most Concurrency at  *)
(* a time, the gap between the last stored 1m candle and now, and the gap  *)
(* just before the last candle, are fetched from the TwelveData REST API   *)
(* and inserted; then the continuous aggregates are refreshed from the     *)
(* oldest minute that was updated.  The live pipeline inserts candles into *)
(* the same table meanwhile.                                               *)
(*                                                                         *)
(* Time is the number of the running minute.  The request goes through     *)
(* scheduleTwelveDataRequest, which resolves or rejects (RateLimiter).     *)
(* Prices are left out: a row is where it came from.                       *)
(***************************************************************************)
EXTENDS Integers, Sequences, FiniteSetsExt

CONSTANTS
    SYMBOLS,
    Concurrency,  \* pLimit
    OutputSize,   \* candles the provider returns at most
    Views,        \* the continuous aggregates, in the order of their refresh
    Started,      \* the minute that runs when the backfill starts
    MaxMinute,    \* bound: the last minute
    Stored,       \* what may be stored at the start: sets of minutes, by symbol
    Available,    \* the minutes the provider has candles for
    ZoneOffset,   \* minutes between the provider's clock and the one Date parses with
    MaxErrors     \* bound: failed requests, queries and inserts

Minutes == 0..MaxMinute

\* "no minute": null in the code.
Null == -1

ASSUME BackfillAssumption ==
    /\ Concurrency \in Nat \ {0} /\ OutputSize \in Nat \ {0} /\ MaxErrors \in Nat
    /\ MaxMinute \in Nat /\ Started \in Minutes
    /\ Stored \subseteq [SYMBOLS -> SUBSET (0..(Started - 1))]
    /\ Available \subseteq Minutes
    /\ DOMAIN Views = 1..Len(Views) /\ Len(Views) \in Nat \ {0}

\* The request names no timezone and the answer's datetime strings are parsed in the
\* zone of the process: the backfill needs the two to agree (both UTC).
ASSUME ZoneAssumption == ZoneOffset = 0

VARIABLES
    now,
    rows,         \* candle_1m, per symbol: the origin of each minute's row
    pc,           \* per symbol: where syncSymbol is
    gap,          \* per symbol: which of its two gaps is looked at
    last,         \* per symbol: the times of lastCandles, newest first
    readAt,       \* per symbol: `now` of syncSymbol
    window,       \* per symbol: apiStartDate and apiEndDate of the request
    fetched,      \* per symbol: the candles of the answer
    syncFailed, minUpdated,   \* per symbol: syncFailed and minUpdatedTime
    results,      \* per symbol: what syncSymbol returned
    phase,        \* of runHistoricalBackfill
    refreshFrom,  \* globalMinEpoch
    refreshed,    \* per view: the outcome of its refresh
    errors

sync == <<pc, gap, last, readAt, window, fetched, syncFailed, minUpdated, results>>
vars == <<now, rows, sync, phase, refreshFrom, refreshed, errors>>

NoResult == [status |-> "none", minUpdatedEpoch |-> Null]

Init ==
    /\ now = Started
    /\ \E S \in Stored :
           rows = [s \in SYMBOLS |-> [m \in Minutes |-> IF m \in S[s] THEN "live" ELSE "none"]]
    /\ pc = [s \in SYMBOLS |-> "queued"]
    /\ gap = [s \in SYMBOLS |-> 1]
    /\ last = [s \in SYMBOLS |-> <<>>]
    /\ readAt = [s \in SYMBOLS |-> 0]
    /\ window = [s \in SYMBOLS |-> <<>>]
    /\ fetched = [s \in SYMBOLS |-> {}]
    /\ syncFailed = [s \in SYMBOLS |-> FALSE]
    /\ minUpdated = [s \in SYMBOLS |-> Null]
    /\ results = [s \in SYMBOLS |-> NoResult]
    /\ phase = "syncing" /\ refreshFrom = Null
    /\ refreshed = [v \in DOMAIN Views |-> "no"]
    /\ errors = 0

Error == errors < MaxErrors /\ errors' = errors + 1

\* min of two minutes, one of which may be null.
MinUpdate(a, b) == IF a = Null THEN b ELSE IF b = Null THEN a ELSE Min({a, b})

StoredMinutes(s) == {m \in Minutes : rows[s][m] # "none"}

-----------------------------------------------------------------------------
(* syncSymbol *)

\* syncSymbol returns, and pLimit has room for the next symbol.
Return(s, status, min) ==
    /\ pc' = [pc EXCEPT ![s] = "done"]
    /\ results' = [results EXCEPT ![s] = [status |-> status, minUpdatedEpoch |-> min]]
    /\ fetched' = [fetched EXCEPT ![s] = {}]
    /\ UNCHANGED <<gap, syncFailed, minUpdated, window>>

\* Faulty variant: nothing catches what syncSymbol throws, so its promise rejects.
Uncaught(s) ==
    /\ pc' = [pc EXCEPT ![s] = "done"]
    /\ fetched' = [fetched EXCEPT ![s] = {}]
    /\ UNCHANGED <<gap, syncFailed, minUpdated, window, results>>

\* The catch block: what was updated before is not reported.
Caught(s) == Return(s, "failed", Null)

\* Faulty variant: off by one, a gap of two minutes is left.
ThreeMissing(s) ==
    /\ gap[s] = 1 /\ Len(last[s]) = 2 /\ last[s][1] - last[s][2] > 3

\* The second gap is checked after the first one.
PriorGap(s) ==
    /\ gap[s] = 1 /\ Len(last[s]) = 2 /\ last[s][1] - last[s][2] > 2

\* checkAndFillGap returned: on to the gap before the latest candle, or to the result.
GapDone(s, failed, min) ==
    IF PriorGap(s)
    THEN /\ gap' = [gap EXCEPT ![s] = 2]
         /\ pc' = [pc EXCEPT ![s] = "checking"]
         /\ syncFailed' = [syncFailed EXCEPT ![s] = failed]
         /\ minUpdated' = [minUpdated EXCEPT ![s] = min]
         /\ fetched' = [fetched EXCEPT ![s] = {}]
         /\ UNCHANGED <<results, window>>
    ELSE Return(s, IF failed THEN "failed" ELSE IF min # Null THEN "backfilled" ELSE "no_gap",
                min)

\* pLimit starts a symbol.
Start(s) ==
    /\ pc[s] = "queued"
    /\ Cardinality({t \in SYMBOLS : pc[t] \notin {"queued", "done"}}) < Concurrency
    /\ pc' = [pc EXCEPT ![s] = "reading"]
    /\ UNCHANGED <<now, rows, gap, last, readAt, window, fetched, syncFailed, minUpdated,
                   results, phase, refreshFrom, refreshed, errors>>

\* getLastCandles(symbol, 2).
LastCandles(s) ==
    LET S == StoredMinutes(s)
        newest == Max(S)
    IN IF S = {} THEN <<>>
       ELSE IF S = {newest} THEN <<newest>>
       ELSE <<newest, Max(S \ {newest})>>

ReadLast(s) ==
    /\ pc[s] = "reading"
    /\ last' = [last EXCEPT ![s] = LastCandles(s)]
    /\ readAt' = [readAt EXCEPT ![s] = now]
    /\ IF StoredMinutes(s) = {}
       THEN Return(s, "skipped", Null)
       ELSE /\ pc' = [pc EXCEPT ![s] = "checking"]
            /\ UNCHANGED <<gap, window, fetched, syncFailed, minUpdated, results>>
    /\ UNCHANGED <<now, rows, phase, refreshFrom, refreshed, errors>>

\* The times checkAndFillGap is called with.
GapStart(s) == last[s][gap[s]]
GapEnd(s) == IF gap[s] = 1 THEN readAt[s] ELSE last[s][1]

\* apiStartDate
ApiStart(s) == GapStart(s) + 1

\* checkAndFillGap up to its request.
CheckGap(s) ==
    LET end == Min({GapEnd(s), now})
    IN /\ pc[s] = "checking"
       /\ IF GapEnd(s) - GapStart(s) < 2 \/ ApiStart(s) >= end
          THEN GapDone(s, syncFailed[s], minUpdated[s])
          ELSE /\ pc' = [pc EXCEPT ![s] = "requesting"]
               /\ window' = [window EXCEPT ![s] = <<ApiStart(s), end>>]
               /\ UNCHANGED <<gap, fetched, syncFailed, minUpdated, results>>
       /\ UNCHANGED <<now, rows, last, readAt, phase, refreshFrom, refreshed, errors>>

\* What the provider returns for the window, oldest first and at most OutputSize.
Answer(s) ==
    LET W == window[s][1]..window[s][2] \cap Available
    IN {m \in W : Cardinality({n \in W : n < m}) < OutputSize}

\* The request resolves with candles, or with none.
RequestResolves(s) ==
    /\ pc[s] = "requesting"
    /\ IF Answer(s) = {}
       THEN GapDone(s, syncFailed[s], minUpdated[s])
       ELSE /\ pc' = [pc EXCEPT ![s] = "saving"]
            /\ fetched' = [fetched EXCEPT ![s] = Answer(s)]
            /\ UNCHANGED <<gap, window, syncFailed, minUpdated, results>>
    /\ UNCHANGED <<now, rows, last, readAt, phase, refreshFrom, refreshed, errors>>

\* The request resolves with status 'error': the gap failed, the symbol goes on.
RequestRefused(s) ==
    /\ pc[s] = "requesting"
    /\ Error
    /\ GapDone(s, TRUE, minUpdated[s])
    /\ UNCHANGED <<now, rows, last, readAt, phase, refreshFrom, refreshed>>

\* The query of the last candles, or the request (cooldown, retries used up), throws.
Throws(s) ==
    /\ pc[s] \in {"reading", "requesting"}
    /\ Error
    /\ Caught(s)
    /\ UNCHANGED <<now, rows, last, readAt, phase, refreshFrom, refreshed>>

\* bulkSave1mCandles: rows that exist are skipped.
BulkSave(r, S) == [m \in Minutes |-> IF m \in S /\ r[m] = "none" THEN "rest" ELSE r[m]]

\* Faulty variant: the first gap's time is kept.
KeepsFirstUpdate(s) == IF minUpdated[s] = Null THEN window[s][1] ELSE minUpdated[s]

\* minUpdatedTime once the gap is filled.
Updated(s) == MinUpdate(minUpdated[s], window[s][1])

\* new Date(c.datetime) of every candle of the answer.
Parsed(S) == {m + ZoneOffset : m \in S}

Save(s) ==
    /\ pc[s] = "saving"
    /\ rows' = [rows EXCEPT ![s] = BulkSave(@, Parsed(fetched[s]))]
    /\ GapDone(s, syncFailed[s], Updated(s))
    /\ UNCHANGED <<now, last, readAt, phase, refreshFrom, refreshed, errors>>

\* The insert rejects, with or without having inserted.
SaveThrows(s) ==
    /\ pc[s] = "saving"
    /\ Error
    /\ \/ UNCHANGED rows
       \/ rows' = [rows EXCEPT ![s] = BulkSave(@, Parsed(fetched[s]))]
    /\ Caught(s)
    /\ UNCHANGED <<now, last, readAt, phase, refreshFrom, refreshed>>

-----------------------------------------------------------------------------
(* runHistoricalBackfill *)

\* Promise.all resolved: the refresh starts from the oldest reported minute, or is
\* left out.
Collect ==
    LET mins == {results[s].minUpdatedEpoch : s \in SYMBOLS} \ {Null}
    IN /\ phase = "syncing"
       /\ \A s \in SYMBOLS : results[s].status # "none"
       /\ refreshFrom' = IF mins = {} THEN Null ELSE Min(mins)
       /\ phase' = IF mins = {} THEN "completed" ELSE "refreshing"
       /\ UNCHANGED <<now, rows, sync, refreshed, errors>>

\* refreshAllContinuousAggregates: a view that fails does not stop the others.
RefreshView(v, outcome) ==
    /\ phase = "refreshing"
    /\ refreshed[v] = "no"
    /\ \A u \in DOMAIN Views : u < v => refreshed[u] # "no"
    /\ \/ outcome = "ok" /\ UNCHANGED errors
       \/ outcome = "failed" /\ Error
    /\ refreshed' = [refreshed EXCEPT ![v] = outcome]
    /\ phase' = IF v = Len(Views) THEN "completed" ELSE phase
    /\ UNCHANGED <<now, rows, sync, refreshFrom>>

-----------------------------------------------------------------------------
(* The environment *)

\* The next minute begins.
Tick ==
    /\ now < MaxMinute
    /\ now' = now + 1
    /\ UNCHANGED <<rows, sync, phase, refreshFrom, refreshed, errors>>

\* The live pipeline stores a minute that ended after the start.
LiveInsert(s, m) ==
    /\ Started <= m /\ m < now
    /\ rows[s][m] = "none"
    /\ rows' = [rows EXCEPT ![s][m] = "live"]
    /\ UNCHANGED <<now, sync, phase, refreshFrom, refreshed, errors>>

-----------------------------------------------------------------------------
Sync(s) == Start(s) \/ ReadLast(s) \/ CheckGap(s) \/ RequestResolves(s) \/ Save(s)

Refresh == \E v \in DOMAIN Views : RefreshView(v, "ok")

Next ==
    \/ Collect \/ Refresh \/ Tick
    \/ \E v \in DOMAIN Views : RefreshView(v, "failed")
    \/ \E s \in SYMBOLS : Sync(s) \/ RequestRefused(s) \/ Throws(s) \/ SaveThrows(s)
    \/ \E s \in SYMBOLS, m \in Minutes : LiveInsert(s, m)

\* Queries and requests settle: RateLimiter!EveryRequestSettles.
Fairness == /\ WF_vars(Collect) /\ WF_vars(Refresh)
            /\ \A s \in SYMBOLS : WF_vars(Sync(s))

Spec == Init /\ [][Next]_vars /\ Fairness

-----------------------------------------------------------------------------
(* Properties *)

Succeeded(s) == results[s].status \in {"no_gap", "backfilled"}

\* The gap from a holds as many minutes before m as the provider returns at once.
BehindAnAnswer(a, m) == Cardinality({n \in Available : a < n /\ n < m}) >= OutputSize

\* Of the minutes between a and b that the provider has, only those are missing that
\* no longer fitted into its answer; a whole answer of older ones is stored then.
Recovered(s, a, b) ==
    \A m \in Available : a < m /\ m < b => m \in StoredMinutes(s) \/ BehindAnAnswer(a, m)

\* A symbol reported as succeeded has recovered the downtime between its last candle and
\* the start of its sync, and the gap before its last candle, as far as one answer
\* reaches, although the table changes between the read and the insert.  The one gap
\* that is left is a single minute between the last two candles.
GapsRecovered ==
    \A s \in SYMBOLS : Succeeded(s) =>
        /\ Recovered(s, last[s][1], readAt[s])
        /\ Len(last[s]) = 2 /\ last[s][1] # last[s][2] + 2 =>
               Recovered(s, last[s][2], last[s][1])

\* syncSymbol threw: the catch block reports nothing.
Threw(s) == results[s].status = "failed" /\ results[s].minUpdatedEpoch = Null

\* Whatever a symbol reports as updated is aggregated: when the backfill is over, every
\* view has been refreshed from a time no later than any row inserted for a symbol whose
\* sync did not throw, or its refresh failed and was counted.
ReportedRowsRefreshed ==
    \A s \in SYMBOLS, m \in Minutes :
        phase = "completed" /\ rows[s][m] = "rest" /\ ~Threw(s) =>
            /\ refreshFrom # Null /\ refreshFrom <= m
            /\ \A v \in DOMAIN Views : refreshed[v] # "no"

\* The comment above globalMinEpoch, partial successes count: what syncSymbol noted as
\* updated by its first gap lies in the refresh window, whatever became of the second.
PartialSuccessRefreshed ==
    phase # "syncing" =>
        \A s \in SYMBOLS : minUpdated[s] # Null =>
            refreshFrom # Null /\ refreshFrom <= minUpdated[s]

\* The backfill ends, whatever fails: every symbol gives its slot back and every view
\* is tried.
BackfillCompletes ==
    <>(phase = "completed" /\ \/ refreshFrom = Null
                              \/ \A v \in DOMAIN Views : refreshed[v] # "no")

=============================================================================
