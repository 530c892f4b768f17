---------------------------- MODULE MCHedgeBook ----------------------------
(* A small hedge book: a few decisions on one or two coins.                 *)
EXTENDS HedgeBook, TLC

CONSTANTS q1, q2, q3

RequestsTwo == {q1, q2}
RequestsThree == {q1, q2, q3}

\* Requests are interchangeable: no action and no property tells them apart.
RequestSymmetry == Permutations(Requests)
=============================================================================
