------------------------ MODULE MCDecisionLifecycle ------------------------
(* Instances of the lifecycle: SPATHA, which records its hedges, and AGROS, *)
(* which records its treasury actions and may decide a noop.                *)
EXTENDS TraceAudit, TLC

CONSTANTS q1, q2, q3

RolesOne == {"agros"}
RolesTwo == {"agros", "spatha"}
RecordingRolesAll == {"agros", "spatha"}
NoopRolesAll == {"agros"}
Everywhere == InFlight
Nowhere == {}

RequestsTwo == {q1, q2}
RequestsThree == {q1, q2, q3}

\* Requests are interchangeable: no action and no property tells them apart.
RequestSymmetry == Permutations(Requests)
=============================================================================
