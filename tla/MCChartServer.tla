---------------------------- MODULE MCChartServer ----------------------------
(* Instances of ChartServer for TLC.                                        *)
EXTENDS ChartServer

=============================================================================
