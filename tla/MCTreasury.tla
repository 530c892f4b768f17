----------------------------- MODULE MCTreasury -----------------------------
(* The treasury with the code's own thresholds, on the two chains Circle    *)
(* wallets exist for; the treasury may lack the one on Polygon.             *)
EXTENDS Treasury, TLC

CONSTANTS q1, q2, q3

RequestsTwo == {q1, q2}
RequestsThree == {q1, q2, q3}

\* A transfer to either chain, one to a chain Gateway is not set up for, one
\* that the gate refuses, and a noop.
Transfer(src, dst) == [action |-> "gateway_transfer", amount |-> 200, src |-> src, dst |-> dst]
Posted == {Transfer("arc", "polygon"), Transfer("polygon", "arc"), Transfer("arc", "arbitrum"),
           Transfer("arc", "arc"), [action |-> "noop", amount |-> 0]}
PostedNone == {}

\* Requests are interchangeable: no action and no property tells them apart.
RequestSymmetry == Permutations(Requests)
=============================================================================
