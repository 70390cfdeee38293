---------------------------- MODULE CandleQueries ----------------------------
(***************************************************************************)
(* GET /api/candles/:symbol/:timeframe: validation, the choice between the *)
(* pagination and the range query, and the SQL queries of the repository,  *)
(* for one symbol and one timeframe whose candles keep arriving.           *)
(*                                                                         *)
(* It is used by a chart, which loads the newest page, then older ones     *)
(* (`to` is the oldest candle it has) and after an interruption the range  *)
(* since its newest candle, or by a caller with arbitrary parameters: a    *)
(* query changes nothing, so one client at a time is enough.               *)
(* A candle is its time; 0 is the epoch, before any candle.                *)
(***************************************************************************)
EXTENDS Integers, SequencesExt, FiniteSetsExt

CONSTANTS
    DefaultLimit, MaxLimit,  \* of parseLimit
    RangeLimit,              \* candles of an intraday range query
    ChartLimit,              \* the limit the chart asks for
    MaxTime                  \* bound: the last candle

ASSUME QueryAssumption ==
    /\ MaxLimit \in Nat \ {0} /\ DefaultLimit \in 1..MaxLimit /\ ChartLimit \in 1..MaxLimit
    /\ RangeLimit \in Nat \ {0, 1}
    /\ MaxTime \in Nat \ {0, 1}

\* A parameter that is not given.
Undefined == -1

Times == 1..MaxTime
Timeframes == {"1m", "5m", "1D"}   \* the table, an intraday view, a daily view

\* Query parameters as they arrive; every other limit is refused like 0.
Params == [limit : {Undefined} \cup 0..(MaxLimit + 1),
           from : {Undefined} \cup 0..MaxTime, to : {Undefined} \cup 0..MaxTime]

VARIABLES
    client,   \* who queries: "chart" or "caller"
    timeframe,
    stored,   \* the times of the symbol's candles in the table or view
    chart,    \* candles the chart shows, oldest first
    request,  \* the chart's request in flight: its kind, and once answered its data
    answer    \* the query of the other caller, with its data

vars == <<client, timeframe, stored, chart, request, answer>>

NoRequest == [kind |-> "none"]

-----------------------------------------------------------------------------
(* Validation *)

\* parseLimit
ParseLimit(limit) == IF limit = Undefined THEN DefaultLimit ELSE limit

\* parseLimit and validateTimeRange throw.
Refused(q) ==
    \/ ParseLimit(q.limit) \notin 1..MaxLimit
    \/ q.from # Undefined /\ q.to # Undefined /\ q.from > q.to

-----------------------------------------------------------------------------
(* CandleRepository: find1mCandles, findContinuousAggCandles, findDailyCandles *)

\* Faulty variant: the candle a page starts before is part of it.
WhereInclusive(t, from, to) ==
    /\ from # Undefined => from <= t
    /\ to # Undefined => t <= to

\* The where clause: both bounds inclusive, `to` alone exclusive.
Where(t, from, to) ==
    CASE from # Undefined /\ to # Undefined -> from <= t /\ t <= to
      [] from = Undefined /\ to # Undefined -> t < to
      [] from # Undefined /\ to = Undefined -> from <= t
      [] OTHER -> TRUE

\* ORDER BY time
Ordered(S, desc) ==
    LET before(t) == {u \in S : IF desc THEN u > t ELSE u < t}
    IN [i \in 1..Cardinality(S) |-> CHOOSE t \in S : Cardinality(before(t)) = i - 1]

\* LIMIT; a descending result is reversed.
Find(from, to, limit, orderDesc) ==
    LET rows == Ordered({t \in stored : Where(t, from, to)}, orderDesc)
        taken == SubSeq(rows, 1, Min({limit, Len(rows)}))
    IN IF orderDesc THEN Reverse(taken) ELSE taken

-----------------------------------------------------------------------------
(* CandleService.getCandles *)

\* x && ...: 0 counts as not given.
Truthy(x) == IF x = 0 THEN Undefined ELSE x

\* Faulty variant: one candle less than asked for.
GetCandlesOneLess(q) ==
    IF q.from # Undefined /\ q.to # Undefined
    THEN Find(q.from, q.to, RangeLimit, FALSE)
    ELSE Find(Undefined, Truthy(q.to), ParseLimit(q.limit) - 1, TRUE)

\* Days, weeks and months use both bounds; intraday candles ignore a lone `from`.
GetCandles(q) ==
    LET fetchLimit == ParseLimit(q.limit) + 1
        isRange == q.from # Undefined /\ q.to # Undefined
    IN IF timeframe = "1D"
       THEN Find(Truthy(q.from), Truthy(q.to), fetchLimit, ~isRange)
       ELSE IF isRange
       THEN Find(q.from, q.to, RangeLimit, FALSE)
       ELSE Find(Undefined, Truthy(q.to), fetchLimit, TRUE)

-----------------------------------------------------------------------------
\* A first candle exists; the market starts anywhere.
Init ==
    /\ client \in {"chart", "caller"}
    /\ timeframe \in Timeframes
    /\ stored \in {{t} : t \in 1..2}
    /\ chart = <<>>
    /\ request = NoRequest
    /\ answer = [status |-> "none"]

\* A newer candle is stored (minutes without trades have none).
Insert(t) ==
    /\ t > Max(stored)
    /\ stored' = stored \cup {t}
    /\ UNCHANGED <<client, timeframe, chart, request, answer>>

\* The chart asks for the newest page, or for the page before its oldest candle.
AskPage ==
    /\ client = "chart" /\ request = NoRequest
    /\ request' = [kind |-> "page", limit |-> ChartLimit, from |-> Undefined,
                   to |-> IF chart = <<>> THEN Undefined ELSE chart[1]]
    /\ UNCHANGED <<client, timeframe, stored, chart, answer>>

\* After an interruption the chart asks for what followed its newest candle.
AskRange ==
    /\ client = "chart" /\ request = NoRequest /\ chart # <<>>
    /\ request' = [kind |-> "range", limit |-> ChartLimit, from |-> Last(chart), to |-> MaxTime]
    /\ UNCHANGED <<client, timeframe, stored, chart, answer>>

\* The query runs; candles may arrive before its answer does.
QueryRuns ==
    /\ request.kind \in {"page", "range"}
    /\ request' = [kind |-> "answered", range |-> request.kind = "range",
                   data |-> GetCandles(request)]
    /\ UNCHANGED <<client, timeframe, stored, chart, answer>>

\* The chart puts an older page before what it has, and replaces its newest candle by
\* a range.
AnswerShown ==
    /\ request.kind = "answered"
    /\ chart' = IF request.range THEN Front(chart) \o request.data ELSE request.data \o chart
    /\ request' = NoRequest
    /\ UNCHANGED <<client, timeframe, stored, answer>>

\* Somebody queries, once, with any parameters; the data is kept with what was stored then.
Query(q) ==
    /\ client = "caller" /\ answer.status = "none"
    /\ answer' = IF Refused(q) THEN [status |-> "rejected"]
                 ELSE [status |-> "ok", query |-> q, data |-> GetCandles(q), at |-> stored]
    /\ UNCHANGED <<client, timeframe, stored, chart, request>>

Next ==
    \/ AskPage \/ AskRange \/ QueryRuns \/ AnswerShown
    \/ \E q \in Params : Query(q)
    \/ \E t \in Times : Insert(t)

\* The chart pages on until it has everything, and is answered.
Fairness == SF_vars(AskPage) /\ WF_vars(QueryRuns) /\ WF_vars(AnswerShown)

Spec == Init /\ [][Next]_vars /\ Fairness

-----------------------------------------------------------------------------
(* Properties *)

\* However pages, ranges and new candles interleave, the chart shows every stored
\* candle between its oldest and its newest once, in order.  And a range query with any
\* bounds after the epoch returns every candle in the range, or the oldest ones if its
\* limit cuts it off.
NoHoles ==
    /\ \A i, j \in DOMAIN chart : i < j => chart[i] < chart[j]
    /\ chart # <<>> =>
           {t \in stored : chart[1] <= t /\ t <= Last(chart)} = ToSet(chart)
    /\ (answer.status = "ok" /\ answer.query.from > 0 /\ answer.query.to > 0) =>
           \A t \in {u \in answer.at : answer.query.from <= u /\ u <= answer.query.to} :
               \/ t \in ToSet(answer.data)
               \/ /\ Len(answer.data) >= Min({RangeLimit, ParseLimit(answer.query.limit)})
                  /\ Last(answer.data) < t

\* A chart that keeps paging reaches the first candle.
HistoryLoaded == client = "chart" => <>(chart # <<>> /\ chart[1] = Min(stored))

=============================================================================
