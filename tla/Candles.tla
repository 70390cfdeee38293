------------------------------- MODULE Candles -------------------------------
(***************************************************************************)
(* Ticks, one-minute candles, and what it means for a candle to be the     *)
(* exact and complete summary of a log of ticks.  No state: the candle     *)
(* table's contract and the Candle Processor are both written in these     *)
(* terms.                                                                  *)
(***************************************************************************)
EXTENDS Integers, Sequences

CONSTANTS
    TopicSymbols,  \* the symbols that can occur in the topic
    Timestamps,    \* provider timestamps in seconds
    Prices,
    Malformed      \* a record that parseRawMarketTick rejects

Tick == [symbol : TopicSymbols, ts : Timestamps, price : Prices]

\* candle.maker.ts:19: a minute is named by its first second.
StartTime(ts) == (ts \div 60) * 60

StartTimes == {StartTime(t) : t \in Timestamps}

Candle == [symbol : TopicSymbols, startTime : StartTimes,
           open : Prices, high : Prices, low : Prices, close : Prices]

\* Map.set
Put(f, k, v) == [x \in DOMAIN f \cup {k} |-> IF x = k THEN v ELSE f[x]]

\* The primary key (symbol, time) of candle_1m.
Key(c) == <<c.symbol, c.startTime>>

-----------------------------------------------------------------------------
\* In the log lg, offset o holds a tick of symbol s.
IsTickOf(lg, o, s) == lg[o] # Malformed /\ lg[o].symbol = s

Minute(lg, o) == StartTime(lg[o].ts)

\* The offsets of symbol s from a to b - 1.
Run(lg, s, a, b) == {o \in a..(b - 1) : IsTickOf(lg, o, s)}

\* c is the open, high, low and close of the ticks at the offsets in S.
IsOhlc(lg, c, S) ==
    /\ \E o \in S : lg[o].price = c.open /\ \A p \in S : o <= p
    /\ \E o \in S : lg[o].price = c.close /\ \A p \in S : p <= o
    /\ \E o \in S : lg[o].price = c.high
    /\ \E o \in S : lg[o].price = c.low
    /\ \A o \in S : c.low <= lg[o].price /\ lg[o].price <= c.high

\* c is made of all the ticks of symbol s from offset a to b - 1, the first of
\* which is at a, and all of which lie in c's minute.
Folds(lg, c, s, a, b) ==
    /\ a < b /\ IsTickOf(lg, a, s)
    /\ \A o \in Run(lg, s, a, b) : Minute(lg, o) = c.startTime
    /\ IsOhlc(lg, c, Run(lg, s, a, b))

\* c is complete: it is made of the first stay of its symbol in its minute, from
\* the first tick of that minute at a to the tick of another minute at b.
IsComplete(lg, c) ==
    \E a, b \in DOMAIN lg :
        /\ Folds(lg, c, c.symbol, a, b)
        /\ IsTickOf(lg, b, c.symbol) /\ Minute(lg, b) # c.startTime
        /\ \A o \in Run(lg, c.symbol, 1, a) : Minute(lg, o) # c.startTime

=============================================================================
