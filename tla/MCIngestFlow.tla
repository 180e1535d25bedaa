---------------------------- MODULE MCIngestFlow ----------------------------
(* Instances of IngestFlow: a run of cron and one of the handler.            *)
EXTENDS IngestFlow

CONSTANTS cron, trigger, u1, u2
=============================================================================
