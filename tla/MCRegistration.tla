--------------------------- MODULE MCRegistration ---------------------------
(***************************************************************************)
(* The instance of Registration that TLC checks.                           *)
(***************************************************************************)
EXTENDS Registration

CONSTANTS r1, r2, r3, e1, e2, e3, p1, p2, c1, c2

ThreeRequests == {r1, r2, r3}
ThreeEmails == {e1, e2, e3}
TwoPhones == {p1, p2}
TwoCodes == {c1, c2}

Form(email, phone, referredByCode) ==
    [email |-> email, phone |-> phone, referredByCode |-> referredByCode]

\* Two that can both be registered and name each other's code, and one that has
\* the email of neither but the phone of the first, and names no code.
ThreeForms == {Form(e1, p1, c2), Form(e2, p2, c1), Form(e3, p1, None)}
=============================================================================
