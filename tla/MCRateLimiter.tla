--------------------------- MODULE MCRateLimiter ---------------------------
(***************************************************************************)
(* The instances of RateLimiter that TLC checks.                           *)
(***************************************************************************)
EXTENDS RateLimiter

CONSTANTS k1, r1, r2, r3

OneKey == {k1}
TwoRequests == {r1, r2}
ThreeRequests == {r1, r2, r3}
OffOneTwo == 0..2
=============================================================================
