---------------------------- MODULE MCPriceUpdate ----------------------------
(* Instances of PriceUpdate: a stock and the index, three quotes.           *)
EXTENDS PriceUpdate, TLC

CONSTANTS r1, r2, BBCA

RunSymmetry == Permutations({r1, r2})
=============================================================================
