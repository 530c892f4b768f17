---------------------------- MODULE MCLiveFanout ----------------------------
(* One dashboard that reconnects once, two decisions, and a queue of one    *)
(* event, which the second decision overflows.                              *)
EXTENDS LiveFanout

CONSTANTS d1, d2, b1
=============================================================================
