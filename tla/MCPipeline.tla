----------------------------- MODULE MCPipeline -----------------------------
(* Small instances of Pipeline: two feeds of up to two submitted items.     *)
EXTENDS Pipeline

CONSTANTS h1, h2

\* The first items of both feeds are the same page.
MCHashOf(j) == IF j[2] = 1 THEN h1 ELSE h2
=============================================================================
