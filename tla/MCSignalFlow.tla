---------------------------- MODULE MCSignalFlow ----------------------------
(* Instances of SignalFlow: the order of the periods is that of the code,    *)
(* their size is scaled down to series of six prices.                        *)
EXTENDS SignalFlow

MCValue ==
  [sentiment |-> {-240, -24, 60, 240}, rsi |-> {20, 50, 80, Null},
   ma20 |-> {-24, 30, Null}, ma50 |-> {-24, 30, Null}, hist |-> {-300, 1200, Null},
   change |-> {-300, 0, 1200}, volume |-> {-120, 240, Null}, flow |-> {-240, 240, Null}]
=============================================================================
