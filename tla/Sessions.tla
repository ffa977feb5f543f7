------------------------------ MODULE Sessions ------------------------------
(***************************************************************************)
(* The sessions of the accounts: the tokens that AuthService.register and  *)
(* AuthService.login issue, JwtMiddleware                                  *)
(* (src/src/common/middleware/jwt.middleware.ts), which every request that *)
(* is not excluded in app.module.ts passes, and the handlers of            *)
(* ApiKeysController behind it.                                            *)
(*                                                                         *)
(* Access and refresh tokens have the same payload and the same key: the   *)
(* middleware takes either in either place, so a token is an account and   *)
(* an expiry.  The status of an account is changed by verifyEmail and by   *)
(* administrators.  Each await of the middleware and of AuthService        *)
(* separates two actions.                                                  *)
(***************************************************************************)
EXTENDS Integers, FiniteSets

CONSTANTS
    Users,          \* the accounts
    Requests,       \* requests, logins included
    AccessLife,     \* JWT_EXPIRES_IN
    RefreshLife,    \* JWT_REFRESH_EXPIRES_IN
    MaxTime,        \* bound: the clock
    None

ASSUME LivesAssumption ==
    /\ AccessLife \in Nat \ {0}
    /\ RefreshLife \in Nat
    /\ AccessLife <= RefreshLife    \* "short-lived" and "long-lived"
    /\ MaxTime \in Nat

ASSUME NoneAssumption == None \notin Users \cup {"ACTIVE", "PENDING", "SUSPENDED"}

VARIABLES
    now,
    status,         \* status[u]: User.status; None before u registers
    verified,       \* the accounts whose emailVerifiedAt is not null
    keyed,          \* the accounts that own an API key
    tokens,         \* the tokens issued
    pc,             \* pc[r]: what request r awaits, or how it ended
    who,            \* who[r]: the account that r is about
    seen,           \* seen[r]: the account was ACTIVE when r looked it up
    authType,       \* authType[r]: what the handler of r is told
    endedAt,        \* endedAt[r]: when r ended, or its handler began
    inactiveSince,  \* inactiveSince[u]: when u last began not to be ACTIVE
    underWay        \* underWay[u]: the requests under way at that moment

accountVars == <<status, verified, keyed, inactiveSince, underWay>>
requestVars == <<pc, who, seen, authType, endedAt>>
vars == <<now, tokens, accountVars, requestVars>>

Token == [user : Users, exp : Nat]
Valid == {t \in tokens : now < t.exp}

UnderWay ==
    {r \in Requests :
        pc[r] \in {"mail", "verify", "login", "renew", "found", "key"}}

\* Accounts may have been there before: imported, or registered and verified
\* or not, with no token that is still valid.
Init ==
    /\ now = 0
    /\ status \in [Users -> {None, "PENDING", "ACTIVE"}]
    /\ verified \in SUBSET {u \in Users : status[u] = "ACTIVE"}
    /\ keyed = {}
    /\ tokens = {}
    /\ pc = [r \in Requests |-> "idle"]
    /\ who = [r \in Requests |-> None]
    /\ seen = [r \in Requests |-> FALSE]
    /\ authType = [r \in Requests |-> None]
    /\ endedAt = [r \in Requests |-> 0]
    /\ inactiveSince = [u \in Users |-> 0]
    /\ underWay = [u \in Users |-> {}]
----------------------------------------------------------------------------
\* r, a request about u, waits for the database or for a mail.
Await(r, u, at) ==
    /\ pc' = [pc EXCEPT ![r] = at]
    /\ who' = [who EXCEPT ![r] = u]
    /\ UNCHANGED <<now, tokens, authType, endedAt>>

End(r, how) ==
    /\ pc' = [pc EXCEPT ![r] = how]
    /\ endedAt' = [endedAt EXCEPT ![r] = now]
    /\ UNCHANGED now

\* next() is called: the handler runs, for account u.
Serve(r, u, type) ==
    /\ End(r, "served")
    /\ who' = [who EXCEPT ![r] = u]
    /\ authType' = [authType EXCEPT ![r] = type]
    /\ UNCHANGED <<accountVars, seen>>

Refuse(r) ==
    /\ End(r, "refused")
    /\ UNCHANGED <<accountVars, tokens, who, seen, authType>>

\* Mutant: the tokens are signed without expiresIn.
IssueForEver(u, lives) == tokens' = tokens \cup {[user |-> u]}

Issue(u, lives) ==
    tokens' = tokens \cup {[user |-> u, exp |-> now + l] : l \in lives}

\* generateTokens signs both, and r answers with them.
AnswerWithTokens(r) ==
    /\ Issue(who[r], {AccessLife, RefreshLife})
    /\ End(r, "tokens")
    /\ UNCHANGED <<accountVars, who, seen, authType>>

\* u is not ACTIVE from now on; the requests of rs are under way.
Deactivated(u, rs) ==
    /\ inactiveSince' = [inactiveSince EXCEPT ![u] = now]
    /\ underWay' = [underWay EXCEPT ![u] = rs]
----------------------------------------------------------------------------
(* AuthService.register, verifyEmail and login.                            *)

\* The account is saved, PENDING; its mail is under way.
Register(r) ==
    /\ pc[r] = "idle"
    /\ \E u \in Users :
          /\ status[u] = None
          /\ status' = [status EXCEPT ![u] = "PENDING"]
          /\ Deactivated(u, UnderWay \cup {r})
          /\ Await(r, u, "mail")
    /\ UNCHANGED <<verified, keyed, seen>>

\* Whether the mail was sent or not, the account gets its tokens.
RegisterIssue(r) ==
    /\ pc[r] = "mail"
    /\ AnswerWithTokens(r)

\* Mutant: a code is enough, whether or not the e-mail was verified before.
VerifyLoadAgain(r) ==
    /\ pc[r] = "idle"
    /\ \E u \in Users : status[u] # None /\ Await(r, u, "verify")
    /\ UNCHANGED <<accountVars, seen>>

\* The code presented is live and the e-mail not verified yet.
VerifyLoad(r) ==
    /\ pc[r] = "idle"
    /\ \E u \in Users \ verified : status[u] # None /\ Await(r, u, "verify")
    /\ UNCHANGED <<accountVars, seen>>

\* The status is set, whatever it was.
VerifySave(r) ==
    /\ pc[r] = "verify"
    /\ status' = [status EXCEPT ![who[r]] = "ACTIVE"]
    /\ verified' = verified \cup {who[r]}
    /\ End(r, "verified")
    /\ UNCHANGED <<keyed, inactiveSince, underWay, tokens, who, seen, authType>>

\* Mutant: login does not look at the status.
LoginLoadAnyStatus(r) ==
    /\ pc[r] = "idle"
    /\ \E u \in Users : status[u] # None /\ Await(r, u, "login")
    /\ UNCHANGED <<accountVars, seen>>

\* The account is ACTIVE and the password is right; its hash was compared.
LoginLoad(r) ==
    /\ pc[r] = "idle"
    /\ \E u \in Users : status[u] = "ACTIVE" /\ Await(r, u, "login")
    /\ UNCHANGED <<accountVars, seen>>

\* lastLoginAt is saved.
LoginIssue(r) ==
    /\ pc[r] = "login"
    /\ AnswerWithTokens(r)
----------------------------------------------------------------------------
(* JwtMiddleware.use.                                                      *)

\* No header, another scheme, a token with a wrong signature, an expired one
\* with no valid refresh token, or a key that is not accepted; a login denied.
Unauthorized(r) ==
    /\ pc[r] = "idle"
    /\ Refuse(r)

\* The header has the marker of the development account.
Bypass(r) ==
    /\ pc[r] = "idle"
    /\ Serve(r, None, "bypass")
    /\ UNCHANGED tokens

\* The token of the Authorization header is valid.
Access(r) ==
    /\ pc[r] = "idle"
    /\ \E t \in Valid : Serve(r, t.user, "jwt")
    /\ UNCHANGED tokens

\* It is expired and the refresh token is valid: its account is looked up.
RenewAsk(r) ==
    /\ pc[r] = "idle"
    /\ tokens # Valid
    /\ \E t \in Valid : Await(r, t.user, "renew")
    /\ UNCHANGED <<accountVars, seen>>

RenewFound(r) ==
    /\ pc[r] = "renew"
    /\ seen' = [seen EXCEPT ![r] = status[who[r]] = "ACTIVE"]
    /\ Await(r, who[r], "found")
    /\ UNCHANGED accountVars

\* Mutant: any account that exists gets a new token.
RenewAnyStatus(r) ==
    /\ pc[r] = "found"
    /\ Issue(who[r], {AccessLife})
    /\ Serve(r, who[r], "jwt")

\* The account was ACTIVE: a new access token, with which r is served.
Renew(r) ==
    /\ pc[r] = "found"
    /\ seen[r]
    /\ Issue(who[r], {AccessLife})
    /\ Serve(r, who[r], "jwt")

RenewRefused(r) ==
    /\ pc[r] = "found"
    /\ ~seen[r]
    /\ Refuse(r)

\* ApiKeysService.validate accepts a key of account u; the account is looked
\* up, whatever its status.
KeyAccepted(r) ==
    /\ pc[r] = "idle"
    /\ \E u \in keyed : Await(r, u, "key")
    /\ UNCHANGED <<accountVars, seen>>

KeyServed(r) ==
    /\ pc[r] = "key"
    /\ Serve(r, who[r], "apiKey")
    /\ UNCHANGED tokens

\* A key of no account.
SystemKey(r) ==
    /\ pc[r] = "idle"
    /\ Serve(r, None, "apiKey")
    /\ UNCHANGED tokens

\* The database fails: login answers 500, a renewal 401, a key 403.
Fail(r) ==
    /\ r \in UnderWay
    /\ Refuse(r)
----------------------------------------------------------------------------
(* ApiKeysController.                                                      *)

\* Mutant: whoever has a userId may create keys.
CreateKeyByKey(r) ==
    /\ pc[r] = "served"
    /\ who[r] # None
    /\ pc' = [pc EXCEPT ![r] = "keyMade"]
    /\ keyed' = keyed \cup {who[r]}
    /\ UNCHANGED <<now, tokens, status, verified, inactiveSince, underWay, who,
                   seen, authType, endedAt>>

\* Only a request that came with a token may create a key.
CreateKey(r) ==
    /\ pc[r] = "served"
    /\ authType[r] = "jwt"
    /\ pc' = [pc EXCEPT ![r] = "keyMade"]
    /\ keyed' = keyed \cup {who[r]}
    /\ UNCHANGED <<now, tokens, status, verified, inactiveSince, underWay, who,
                   seen, authType, endedAt>>

\* revoke and rotate: their paths are excluded from the middleware, so the
\* handler finds no userId.
KeyPathRefused(r) ==
    /\ pc[r] = "idle"
    /\ Refuse(r)
----------------------------------------------------------------------------
(* The environment.                                                        *)

Suspend(u) ==
    /\ status[u] \in {"ACTIVE", "PENDING"}
    /\ status' = [status EXCEPT ![u] = "SUSPENDED"]
    /\ IF status[u] = "ACTIVE" THEN Deactivated(u, UnderWay)
                               ELSE UNCHANGED <<inactiveSince, underWay>>
    /\ UNCHANGED <<now, tokens, verified, keyed, requestVars>>

Reinstate(u) ==
    /\ status[u] = "SUSPENDED"
    /\ status' = [status EXCEPT ![u] = "ACTIVE"]
    /\ UNCHANGED <<now, tokens, verified, keyed, inactiveSince, underWay,
                   requestVars>>

Tick ==
    /\ now < MaxTime
    /\ now' = now + 1
    /\ UNCHANGED <<tokens, accountVars, requestVars>>

Next ==
    \/ \E r \in Requests :
          \/ Register(r) \/ RegisterIssue(r) \/ VerifyLoad(r) \/ VerifySave(r)
          \/ LoginLoad(r) \/ LoginIssue(r)
          \/ Unauthorized(r) \/ Bypass(r) \/ Access(r)
          \/ RenewAsk(r) \/ RenewFound(r) \/ Renew(r) \/ RenewRefused(r)
          \/ KeyAccepted(r) \/ KeyServed(r) \/ SystemKey(r) \/ Fail(r)
          \/ CreateKey(r) \/ KeyPathRefused(r)
    \/ \E u \in Users : Suspend(u) \/ Reinstate(u)
    \/ Tick

Spec == Init /\ [][Next]_vars
----------------------------------------------------------------------------
(* Properties.                                                             *)

TypeOK ==
    /\ now \in 0..MaxTime
    /\ status \in [Users -> {"ACTIVE", "PENDING", "SUSPENDED", None}]
    /\ verified \subseteq Users
    /\ keyed \subseteq Users
    /\ tokens \subseteq Token
    /\ pc \in [Requests ->
                  {"idle", "mail", "verify", "login", "renew", "found", "key",
                   "tokens", "verified", "served", "keyMade", "refused"}]
    /\ who \in [Requests -> Users \cup {None}]
    /\ seen \in [Requests -> BOOLEAN]
    /\ authType \in [Requests -> {"jwt", "apiKey", "bypass", None}]
    /\ endedAt \in [Requests -> 0..MaxTime]
    /\ inactiveSince \in [Users -> 0..MaxTime]
    /\ underWay \in [Users -> SUBSET Requests]

Inactive(u) == status[u] \in {"PENDING", "SUSPENDED"}

\* The status is looked up again by every login and every renewal, so an
\* account that is suspended, or registered and not verified, gets tokens only
\* from requests that were under way when that began: the registration
\* itself, or one whose look-up was before the suspension.
LateRequestsGetNoToken ==
    [][\A u \in Users :
          /\ Inactive(u)
          /\ \E t \in tokens' \ tokens : t.user = u
          => \E r \in underWay[u] : pc'[r] # pc[r]]_vars

\* r had ended by time t, or began after u stopped being ACTIVE.
OverBy(r, u, t) == r \in underWay[u] => r \notin UnderWay /\ endedAt[r] <= t

\* Renewals cannot carry a session on after its account was suspended, nor
\* that of an account that was never verified: from one life of a refresh token
\* after the requests that were under way ended, no request is served by a
\* token of the account, and none that came in makes it a key: keys, which go
\* on being accepted, do not beget keys.
SessionsRunOut ==
    \A u \in Users, r \in Requests, t \in 0..MaxTime :
        /\ Inactive(u)
        /\ inactiveSince[u] <= t
        /\ \A q \in Requests : OverBy(q, u, t)
        /\ who[r] = u
        /\ pc[r] = "keyMade" \/ (pc[r] = "served" /\ authType[r] = "jwt")
        => endedAt[r] < t + RefreshLife

\* verifyEmail makes an account ACTIVE whatever it was.  A suspended account
\* that was verified does not come back by its codes, except by a verifyEmail
\* that had passed its checks before the suspension.
VerifiedStaySuspended ==
    [][\A u \in verified, r \in Requests :
          /\ status[u] = "SUSPENDED" /\ status'[u] # "SUSPENDED"
          /\ pc'[r] # pc[r]
          => r \in underWay[u]]_vars
=============================================================================
