--------------------------- MODULE MCAuthService ---------------------------
(***************************************************************************)
(* The instances of AuthService that TLC checks.                           *)
(***************************************************************************)
EXTENDS AuthService, TLC

CONSTANTS u1, u2, r1, r2, r3, c1, c2

TwoUsers == {u1, u2}
OneImported == {u2}
ThreeRequests == {r1, r2, r3}
TwoCodes == {c1, c2}

\* Requests and codes are interchangeable; the two users are not, because one
\* of them is imported.
Symmetry == Permutations(ThreeRequests) \cup Permutations(TwoCodes)
=============================================================================
