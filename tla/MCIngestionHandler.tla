------------------------ MODULE MCIngestionHandler ------------------------
(* Instances of IngestionHandler: triggers, reprocess requests, a cron run. *)
EXTENDS IngestionHandler

CONSTANTS t1, t2, t3, r1, c1
=============================================================================
