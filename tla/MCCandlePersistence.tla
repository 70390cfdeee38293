------------------------- MODULE MCCandlePersistence -------------------------
(* Instances of CandlePersistence for TLC.                                  *)
EXTENDS CandlePersistence

=============================================================================
