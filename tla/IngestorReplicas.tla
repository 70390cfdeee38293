-------------------------- MODULE IngestorReplicas --------------------------
(* The Market Ingestor replicas that are deployed side by side.             *)
CONSTANT Replicas

=============================================================================
