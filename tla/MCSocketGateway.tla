-------------------------- MODULE MCSocketGateway --------------------------
(***************************************************************************)
(* The instances of SocketGateway that TLC checks.                         *)
(***************************************************************************)
EXTENDS SocketGateway, TLC

CONSTANTS u1, u2, s1, s2, s3, e1, e2

TwoUsers == {u1, u2}
ThreeSockets == {s1, s2, s3}
TwoEvents == {e1, e2}

\* Events are not interchangeable: one of them is Location.
Symmetry == Permutations(TwoUsers) \cup Permutations(ThreeSockets)
=============================================================================
