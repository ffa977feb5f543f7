----------------------------- MODULE MCApiKeys -----------------------------
(***************************************************************************)
(* The instances of ApiKeys that TLC checks.                               *)
(***************************************************************************)
EXTENDS ApiKeys, TLC

CONSTANTS k1, r1, r2, r3, r4

OneKey == {k1}
FourRequests == {r1, r2, r3, r4}
OffOrOne == {0, 1}
NeverOrAtOnce == {None, 0}

Symmetry == Permutations(FourRequests)
=============================================================================
