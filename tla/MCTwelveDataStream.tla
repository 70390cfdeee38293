------------------------- MODULE MCTwelveDataStream -------------------------
(* Instances of TwelveDataStream for TLC.                                   *)
EXTENDS TwelveDataStream

=============================================================================
