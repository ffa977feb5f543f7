----------------------------- MODULE MCSessions -----------------------------
(***************************************************************************)
(* The instance of Sessions that TLC checks.                               *)
(***************************************************************************)
EXTENDS Sessions, TLC

CONSTANTS u1, r1, r2, r3

OneUser == {u1}
ThreeRequests == {r1, r2, r3}

Symmetry == Permutations(ThreeRequests)
=============================================================================
