-------------------------- MODULE MCEnrichmentJobs --------------------------
(* EnrichmentJobs for TLC: all rows are for the same key.                   *)
EXTENDS EnrichmentJobs

MCKeyOf == [j \in JobIds |-> CHOOSE k \in Key : TRUE]
=============================================================================
