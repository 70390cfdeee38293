--------------------------- MODULE MCCandleQueries ---------------------------
(* Instances of CandleQueries for TLC.                                      *)
EXTENDS CandleQueries

=============================================================================
