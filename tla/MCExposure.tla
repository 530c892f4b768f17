----------------------------- MODULE MCExposure -----------------------------
(* Two purchases and a sale in one market, one purchase in another; three  *)
(* calls, so that a fill is delivered twice while another is recorded.  The *)
(* purchase in the second market is larger than the gate lets SPATHA hedge. *)
EXTENDS Exposure, TLC

CONSTANTS m1, m2, f1, f2, f3, f4, c1, c2, c3

CallSymmetry == Permutations(Call)
MCMarketOf == [f \in Fill |-> IF f = f4 THEN m2 ELSE m1]
MCSize == [f \in Fill |-> CASE f = f1 -> 600 [] f = f2 -> 500 [] f = f3 -> 1200 [] OTHER -> 2500]
=============================================================================
