--------------------------- MODULE MCStockProfile ---------------------------
(* Instances of StockProfile: two requests.                                  *)
EXTENDS StockProfile

CONSTANTS f1, f2
=============================================================================
