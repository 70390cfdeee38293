------------------------ MODULE MCHistoricalBackfill ------------------------
(* Instances of HistoricalBackfill for TLC.  Symbols are numbers.           *)
EXTENDS HistoricalBackfill

\* Two of the continuous aggregates.
TwoViews == <<"5m", "15m">>

\* A symbol without a candle, or with two that are 2, 3 or 4 minutes apart, before a
\* downtime.
Tables == <<{}, {1, 3}, {0, 3}, {0, 4}>>

\* Every way to give the symbols such tables, up to a permutation of the symbols, which
\* the specification does not tell apart.
StoredTables ==
    LET Sorted(f) == \A s, t \in SYMBOLS : s < t => f[s] <= f[t]
    IN  {[s \in SYMBOLS |-> Tables[f[s]]] :
            f \in {g \in [SYMBOLS -> DOMAIN Tables] : Sorted(g)}}

=============================================================================
