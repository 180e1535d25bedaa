--------------------------- MODULE MCResponseCache ---------------------------
(* Instances of ResponseCache: up to three requests at a time.               *)
EXTENDS ResponseCache

CONSTANTS q1, q2, q3
=============================================================================
