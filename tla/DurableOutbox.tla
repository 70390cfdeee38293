---------------------------- MODULE DurableOutbox ----------------------------
(***************************************************************************)
(* What the candle persistence layer promises its caller: a candle it      *)
(* accepted waits until it is stored, however often the layer fails, is    *)
(* closed or dies in between.  A candle it did not accept may be stored    *)
(* all the same, when a put took effect and its answer was lost.           *)
(***************************************************************************)
CONSTANT Keys

VARIABLES
    waiting,  \* accepted candles that are not in the database
    stored    \* candles in the database

vars == <<waiting, stored>>

Init == waiting = {} /\ stored = {}

Accept(k) ==
    /\ waiting' = waiting \cup ({k} \ stored)
    /\ UNCHANGED stored

\* A batch reaches the database: only that ends the wait of a candle.
Deliver(S) ==
    /\ stored' = stored \cup S
    /\ waiting' = waiting \ S

Next == (\E k \in Keys : Accept(k)) \/ (\E S \in SUBSET Keys : Deliver(S))

Spec == Init /\ [][Next]_vars

=============================================================================
