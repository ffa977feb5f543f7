----------------------------- MODULE Recovery -----------------------------
(***************************************************************************)
(* What the recovery of accounts promises, with every operation one step   *)
(* on one account and nothing of documents, arrays or versions.            *)
(*                                                                         *)
(* An operation that depends on what it saw (a live link, a live code)     *)
(* acquires the right to finish, and every issue of a link or a code to    *)
(* the account revokes the rights that are out: whoever finishes knows all *)
(* links or codes there are, and leaves none of them live.                 *)
(***************************************************************************)
CONSTANTS
    Users,      \* the accounts
    Imported,   \* those that never registered
    Requests,   \* the requests; a link is named by the one that issues it
    Codes,      \* the verification codes
    None

VARIABLES
    accounts,   \* accounts[u]: the account of u
    issued      \* the links issued to anybody so far

vars == <<accounts, issued>>

Account ==
    [password : Requests \cup {"registered", None},
     verified : BOOLEAN,
     links : SUBSET Requests,       \* the live reset links
     codes : SUBSET Codes,          \* the live verification codes
     mayReset : SUBSET Requests,    \* who has the right to set the password,
     mayVerify : SUBSET Requests,   \* to verify the e-mail,
     mayRenew : SUBSET Requests]    \* to replace the codes by a new one

New(password, codes) ==
    [password |-> password, verified |-> FALSE, links |-> {}, codes |-> codes,
     mayReset |-> {}, mayVerify |-> {}, mayRenew |-> {}]

Init ==
    /\ accounts \in [Users -> Account]
    /\ \A u \in Users :
          IF u \in Imported
          THEN accounts[u] = New(None, {})
          ELSE \E c \in Codes : accounts[u] = New("registered", {c})
    /\ issued = {}
----------------------------------------------------------------------------
(* The steps of one account, from a to b.                                  *)

Revoked(a) == [a EXCEPT !.mayReset = {}, !.mayVerify = {}, !.mayRenew = {}]

IssueLink(a, b, t) == b = [Revoked(a) EXCEPT !.links = @ \cup {t}]

MayReset(a, b, r) ==
    /\ a.links # {}
    /\ b = [a EXCEPT !.mayReset = @ \cup {r}]

\* Only here does a password change, and a link die: all of them.
ResetPassword(a, b, r) ==
    /\ r \in a.mayReset
    /\ b = [a EXCEPT !.password = r, !.links = {}, !.mayReset = @ \ {r}]

MayVerify(a, b, r) ==
    /\ ~a.verified
    /\ a.codes # {}
    /\ b = [a EXCEPT !.mayVerify = @ \cup {r}]

Verify(a, b, r) ==
    /\ r \in a.mayVerify
    /\ b = [a EXCEPT !.verified = TRUE, !.codes = {}, !.mayVerify = @ \ {r}]

MayRenew(a, b, r) ==
    /\ ~a.verified
    /\ a.codes # {}
    /\ b = [a EXCEPT !.mayRenew = @ \cup {r}]

\* The new code is the only one.
RenewCode(a, b, r) ==
    /\ r \in a.mayRenew
    /\ \E c \in Codes : b = [Revoked(a) EXCEPT !.codes = {c}]

\* An account that never registered had no code to begin with: its codes may
\* come to be several.
AddCode(a, b) == \E c \in Codes : b = [Revoked(a) EXCEPT !.codes = @ \cup {c}]

GiveUp(a, b, r) ==
    b = [a EXCEPT !.mayReset = @ \ {r},
                  !.mayVerify = @ \ {r},
                  !.mayRenew = @ \ {r}]
----------------------------------------------------------------------------
\* One account takes a step.  A link is new: it never was issued to anybody.
Step(u, a, b) ==
    \/ \E t \in Requests \ issued :
          IssueLink(a, b, t) /\ issued' = issued \cup {t}
    \/ /\ \/ u \in Imported /\ AddCode(a, b)
          \/ \E r \in Requests :
                \/ MayReset(a, b, r) \/ ResetPassword(a, b, r)
                \/ MayVerify(a, b, r) \/ Verify(a, b, r)
                \/ MayRenew(a, b, r) \/ RenewCode(a, b, r)
                \/ GiveUp(a, b, r)
       /\ UNCHANGED issued

Next ==
    \E u \in Users :
        /\ Step(u, accounts[u], accounts'[u])
        /\ accounts' = [accounts EXCEPT ![u] = accounts'[u]]

Spec == Init /\ [][Next]_vars
=============================================================================
