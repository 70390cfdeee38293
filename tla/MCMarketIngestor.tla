-------------------------- MODULE MCMarketIngestor --------------------------
(* Instances of MarketIngestor for TLC.                                     *)
EXTENDS MarketIngestor, TLC

\* Replicas and sessions are interchangeable (safety runs only).
ReplicaSessionSymmetry == Permutations(Replicas) \cup Permutations(Sessions)

=============================================================================
