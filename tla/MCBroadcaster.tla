---------------------------- MODULE MCBroadcaster ----------------------------
(* Instances of Broadcaster: the events of two runs.                         *)
EXTENDS Broadcaster

CONSTANTS r1, r2, k1, k2

StartTick == [r \in Runs |-> IF r = r1 THEN <<"critical", "progress">> ELSE <<"critical">>]
=============================================================================
