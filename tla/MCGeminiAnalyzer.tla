-------------------------- MODULE MCGeminiAnalyzer --------------------------
(* Instances of GeminiAnalyzer: two models, up to three keys.               *)
EXTENDS GeminiAnalyzer, TLC

CONSTANTS c1, c2

TwoModels == <<"lite", "flash">>
Symmetry  == Permutations({c1, c2})
=============================================================================
