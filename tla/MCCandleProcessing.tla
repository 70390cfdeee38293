------------------------- MODULE MCCandleProcessing -------------------------
(* Instances of CandleProcessing for TLC.                                   *)
EXTENDS CandleProcessing, TLC

\* The configured symbols are interchangeable (safety runs only).
SymbolSymmetry == Permutations(Symbols)

=============================================================================
