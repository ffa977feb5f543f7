--------------------------- MODULE SessionsProofs ---------------------------
(***************************************************************************)
(* What TLAPS proves of Sessions, for every set of accounts and requests   *)
(* and every two lives of tokens.                                          *)
(*                                                                         *)
(* A request that may yet issue tokens of an account that is not ACTIVE    *)
(* was under way when the account began not to be.  So each of its tokens  *)
(* was issued before that, or by one of these requests when it ended, and  *)
(* its expiry is bounded by one life of a refresh token from then on.      *)
(***************************************************************************)
EXTENDS Sessions, TLAPS

InFlight == {"mail", "verify", "login", "renew", "found", "key"}

Ended(r) == pc[r] \notin InFlight \cup {"idle"}

\* r is past its look-up of the account: it will issue tokens, or verify again.
PastLookUp(r) ==
    \/ pc[r] \in {"mail", "login"}
    \/ pc[r] = "found" /\ seen[r]
    \/ pc[r] = "verify" /\ who[r] \in verified

Asks(r) ==
    /\ pc[r] \in InFlight => who[r] \in Users
    /\ PastLookUp(r) /\ Inactive(who[r]) => r \in underWay[who[r]]

\* A token of an account that is not ACTIVE was issued before that began, or by
\* a request that was under way then and has ended.
Lives(t) ==
    /\ t.exp <= now + RefreshLife
    /\ Inactive(t.user) =>
          \/ t.exp <= inactiveSince[t.user] + RefreshLife
          \/ \E q \in underWay[t.user] :
                Ended(q) /\ t.exp <= endedAt[q] + RefreshLife

\* r was served by a token that was valid.
ByToken(r) ==
    pc[r] = "keyMade" \/ (pc[r] = "served" /\ authType[r] = "jwt")
    => \E t \in tokens : t.user = who[r] /\ endedAt[r] < t.exp

Inv ==
    /\ TypeOK
    /\ \A r \in Requests : Asks(r) /\ ByToken(r)
    /\ \A t \in tokens : Lives(t)
----------------------------------------------------------------------------
\* The other requests stand where they stood, and r does not start again.
StepOf(r) ==
    /\ \A q \in Requests \ {r} :
          /\ pc'[q] = pc[q] /\ who'[q] = who[q] /\ seen'[q] = seen[q]
          /\ authType'[q] = authType[q] /\ endedAt'[q] = endedAt[q]
    /\ Ended(r) => Ended(r)' /\ endedAt'[r] = endedAt[r]
    /\ tokens \subseteq tokens'
    /\ now' = now

\* No account is ACTIVE or not that was not before.
AccountsStay == UNCHANGED <<status, verified, inactiveSince, underWay>>

LEMMA StepKeeps ==
    ASSUME Inv, NEW r \in Requests, StepOf(r), AccountsStay, TypeOK',
           Asks(r)', ByToken(r)',
           \A t \in tokens' \ tokens : Lives(t)'
    PROVE  Inv'
<1>1. ASSUME NEW q \in Requests \ {r}  PROVE Asks(q)' /\ ByToken(q)'
  <2>1. Asks(q) /\ ByToken(q)
    BY DEF Inv
  <2>2. Asks(q)'
    BY <2>1 DEF Asks, PastLookUp, Inactive, StepOf, AccountsStay
  <2>3. ByToken(q)'
    BY <2>1 DEF ByToken, StepOf
  <2>. QED  BY <2>2, <2>3
<1>2. ASSUME NEW t \in tokens  PROVE Lives(t)'
  <2>1. Lives(t) /\ t.user \in Users
    BY DEF Inv, TypeOK, Token
  <2>2. ASSUME NEW q \in underWay[t.user], Ended(q)
        PROVE  Ended(q)' /\ endedAt'[q] = endedAt[q]
    <3>1. q \in Requests
      BY <2>1 DEF Inv, TypeOK
    <3>. QED  BY <2>2, <3>1 DEF StepOf, Ended
  <2>. QED  BY <2>1, <2>2 DEF Lives, Inactive, StepOf, AccountsStay
<1>. QED  BY <1>1, <1>2 DEF Inv

\* r looks something up.
LEMMA AwaitKeeps ==
    ASSUME Inv, NEW r \in Requests, NEW u \in Users, NEW next \in InFlight,
           Await(r, u, next), UNCHANGED accountVars,
           ~Ended(r), seen' \in [Requests -> BOOLEAN],
           \A q \in Requests \ {r} : seen'[q] = seen[q],
           next # "mail", next = "login" => ~Inactive(u),
           next = "found" /\ seen'[r] => ~Inactive(u),
           next = "verify" => u \notin verified
    PROVE  Inv'
<1>1. TypeOK'
  BY DEF Inv, TypeOK, Await, accountVars, InFlight
<1>2. /\ pc'[r] = next /\ who'[r] = u
      /\ \A q \in Requests \ {r} : pc'[q] = pc[q] /\ who'[q] = who[q]
  BY DEF Inv, TypeOK, Await
<1>3. StepOf(r) /\ AccountsStay
  BY <1>2 DEF StepOf, AccountsStay, Await, accountVars
<1>4. Asks(r)' /\ ByToken(r)'
  BY <1>2, <1>3 DEF Asks, PastLookUp, ByToken, AccountsStay, Inactive, InFlight
<1>5. tokens' = tokens
  BY DEF Await
<1>. QED  BY <1>1, <1>3, <1>4, <1>5, StepKeeps

\* r ends, with the tokens it issues for its account if it does.
LEMMA EndKeeps ==
    ASSUME Inv, NEW r \in Requests, ~Ended(r),
           NEW how \in {"tokens", "served", "refused"}, End(r, how),
           UNCHANGED <<accountVars, seen>>,
           who' \in [Requests -> Users \cup {None}],
           authType' \in [Requests -> {"jwt", "apiKey", "bypass", None}],
           \A q \in Requests \ {r} :
               who'[q] = who[q] /\ authType'[q] = authType[q],
           how = "served" /\ authType'[r] = "jwt" =>
               \E t \in tokens' : t.user = who'[r] /\ now < t.exp,
           \/ tokens' = tokens
           \/ /\ PastLookUp(r) /\ pc[r] # "verify"
              /\ \E lives \in SUBSET {AccessLife, RefreshLife} :
                    Issue(who[r], lives)
    PROVE  Inv'
<1>1. /\ tokens \subseteq tokens'
      /\ \A t \in tokens' \ tokens :
            /\ PastLookUp(r) /\ pc[r] \in InFlight
            /\ t.user = who[r]
            /\ \E l \in {AccessLife, RefreshLife} :
                  t = [user |-> who[r], exp |-> now + l]
  BY DEF Issue, PastLookUp, InFlight
<1>2. /\ pc'[r] = how /\ endedAt'[r] = now /\ now' = now /\ now \in Nat
      /\ \A q \in Requests \ {r} : pc'[q] = pc[q] /\ endedAt'[q] = endedAt[q]
  BY DEF Inv, TypeOK, End
<1>3. \A t \in tokens' \ tokens :
         /\ t \in Token /\ t.exp <= now + RefreshLife
         /\ t.user \in Users /\ t.user = who[r]
         /\ Inactive(t.user) => r \in underWay[t.user]
  BY <1>1, <1>2, LivesAssumption DEF Inv, Asks, Token
<1>4. TypeOK'
  BY <1>1, <1>3 DEF Inv, TypeOK, End, accountVars
<1>5. StepOf(r) /\ AccountsStay
  BY <1>1, <1>2 DEF StepOf, AccountsStay, accountVars
<1>6. Asks(r)' /\ ByToken(r)'
  BY <1>2 DEF Asks, PastLookUp, ByToken, InFlight
<1>7. ASSUME NEW t \in tokens' \ tokens  PROVE Lives(t)'
  <2>1. Ended(r)'
    BY <1>2 DEF Ended, InFlight
  <2>2. Inactive(t.user)' => Inactive(t.user)
    BY <1>5 DEF Inactive, AccountsStay
  <2>. QED  BY <1>2, <1>3, <1>5, <2>1, <2>2 DEF Lives, AccountsStay
<1>. QED  BY <1>4, <1>5, <1>6, <1>7, StepKeeps
----------------------------------------------------------------------------
(* The actions.                                                            *)

LEMMA LoadsKeep ==
    ASSUME Inv, NEW r \in Requests,
           \/ VerifyLoad(r) \/ LoginLoad(r) \/ RenewAsk(r) \/ RenewFound(r)
           \/ KeyAccepted(r)
    PROVE  Inv'
<1>1. CASE VerifyLoad(r) \/ LoginLoad(r) \/ RenewAsk(r) \/ KeyAccepted(r)
  <2>1. /\ pc[r] = "idle" /\ UNCHANGED <<accountVars, seen>>
        /\ \E u \in Users, next \in {"verify", "login", "renew", "key"} :
              /\ Await(r, u, next)
              /\ next = "login" => ~Inactive(u)
              /\ next = "verify" => u \notin verified
    <3>1. CASE VerifyLoad(r)
      BY <3>1 DEF VerifyLoad
    <3>2. CASE LoginLoad(r)
      BY <3>2 DEF LoginLoad, Inactive
    <3>3. CASE RenewAsk(r)
      BY <3>3 DEF RenewAsk, Valid, Inv, TypeOK, Token
    <3>4. CASE KeyAccepted(r)
      BY <3>4 DEF KeyAccepted, Inv, TypeOK
    <3>. QED  BY <1>1, <3>1, <3>2, <3>3, <3>4
  <2>2. seen \in [Requests -> BOOLEAN] /\ ~Ended(r)
    BY <2>1 DEF Inv, TypeOK, Ended
  <2>. QED  BY <2>1, <2>2, AwaitKeeps DEF InFlight
<1>2. CASE RenewFound(r)
  <2>1. PICK u \in Users : u = who[r]
    BY <1>2 DEF RenewFound, Inv, Asks, InFlight
  <2>2. Await(r, u, "found") /\ UNCHANGED accountVars /\ pc[r] = "renew"
    BY <1>2, <2>1 DEF RenewFound
  <2>3. seen' = [seen EXCEPT ![r] = (status[u] = "ACTIVE")]
    BY <1>2, <2>1 DEF RenewFound
  <2>4. /\ seen' \in [Requests -> BOOLEAN]
        /\ \A q \in Requests \ {r} : seen'[q] = seen[q]
    BY <2>3 DEF Inv, TypeOK
  <2>5. seen'[r] => ~Inactive(u)
    BY <2>3 DEF Inactive, Inv, TypeOK
  <2>6. ~Ended(r)
    BY <2>2 DEF Ended, InFlight
  <2>. QED  BY <2>2, <2>4, <2>5, <2>6, AwaitKeeps DEF InFlight
<1>. QED  BY <1>1, <1>2

LEMMA EndsKeep ==
    ASSUME Inv, NEW r \in Requests,
           \/ RegisterIssue(r) \/ LoginIssue(r) \/ Renew(r)
           \/ Unauthorized(r) \/ RenewRefused(r) \/ Fail(r) \/ KeyPathRefused(r)
           \/ Bypass(r) \/ Access(r) \/ KeyServed(r) \/ SystemKey(r)
    PROVE  Inv'
<1>. USE DEF Serve
<1>1. CASE RegisterIssue(r) \/ LoginIssue(r)
  <2>1. /\ pc[r] \in {"mail", "login"} /\ End(r, "tokens")
        /\ Issue(who[r], {AccessLife, RefreshLife})
        /\ UNCHANGED <<accountVars, who, seen, authType>>
    BY <1>1 DEF RegisterIssue, LoginIssue, AnswerWithTokens
  <2>2. ~Ended(r) /\ PastLookUp(r)
    BY <2>1 DEF Ended, PastLookUp, InFlight
  <2>. QED  BY <2>1, <2>2, EndKeeps DEF Inv, TypeOK
<1>2. CASE Renew(r)
  <2>1. /\ pc[r] = "found" /\ seen[r] /\ End(r, "served")
        /\ Issue(who[r], {AccessLife})
        /\ who' = [who EXCEPT ![r] = who[r]]
        /\ authType' = [authType EXCEPT ![r] = "jwt"]
        /\ UNCHANGED <<accountVars, seen>>
    BY <1>2 DEF Renew
  <2>2. ~Ended(r) /\ PastLookUp(r)
    BY <2>1 DEF Ended, PastLookUp, InFlight
  <2>3. /\ who' = who
        /\ authType' \in [Requests -> {"jwt", "apiKey", "bypass", None}]
        /\ \A q \in Requests \ {r} : authType'[q] = authType[q]
    BY <2>1 DEF Inv, TypeOK
  <2>4. \E t \in tokens' : t.user = who'[r] /\ now < t.exp
    <3>1. PICK t : t = [user |-> who[r], exp |-> now + AccessLife]
      OBVIOUS
    <3>2. t \in tokens'
      BY <2>1, <3>1 DEF Issue
    <3>3. now < t.exp /\ t.user = who'[r]
      BY <2>3, <3>1, LivesAssumption DEF Inv, TypeOK
    <3>. QED  BY <3>2, <3>3
  <2>. QED  BY <2>1, <2>2, <2>3, <2>4, EndKeeps DEF Inv, TypeOK
<1>3. CASE Unauthorized(r) \/ RenewRefused(r) \/ Fail(r) \/ KeyPathRefused(r)
  <2>1. /\ ~Ended(r) /\ End(r, "refused")
        /\ UNCHANGED <<accountVars, tokens, who, seen, authType>>
    BY <1>3 DEF Unauthorized, RenewRefused, Fail, KeyPathRefused, Refuse,
                UnderWay, Ended, InFlight
  <2>. QED  BY <2>1, EndKeeps DEF Inv, TypeOK
<1>4. CASE Bypass(r) \/ Access(r) \/ KeyServed(r) \/ SystemKey(r)
  <2>1. PICK u \in Users \cup {None}, type \in {"jwt", "apiKey", "bypass"} :
            /\ ~Ended(r) /\ Serve(r, u, type) /\ UNCHANGED tokens
            /\ type = "jwt" => \E t \in tokens : t.user = u /\ now < t.exp
    <3>. USE DEF Ended, InFlight
    <3>1. CASE Bypass(r)
      BY <3>1 DEF Bypass
    <3>2. CASE Access(r)
      BY <3>2 DEF Access, Valid, Inv, TypeOK, Token
    <3>3. CASE KeyServed(r)
      BY <3>3 DEF KeyServed, Inv, TypeOK
    <3>4. CASE SystemKey(r)
      BY <3>4 DEF SystemKey
    <3>. QED  BY <1>4, <3>1, <3>2, <3>3, <3>4
  <2>2. /\ who' \in [Requests -> Users \cup {None}] /\ who'[r] = u
        /\ authType' \in [Requests -> {"jwt", "apiKey", "bypass", None}]
        /\ authType'[r] = type
        /\ \A q \in Requests \ {r} :
              who'[q] = who[q] /\ authType'[q] = authType[q]
    BY <2>1 DEF Inv, TypeOK
  <2>. QED  BY <2>1, <2>2, EndKeeps
<1>. QED  BY <1>1, <1>2, <1>3, <1>4

LEMMA CreateKeyKeeps ==
    ASSUME Inv, NEW r \in Requests, CreateKey(r)
    PROVE  Inv'
<1>. USE DEF CreateKey
<1>1. /\ pc'[r] = "keyMade" /\ \A q \in Requests \ {r} : pc'[q] = pc[q]
  BY DEF Inv, TypeOK
<1>2. TypeOK'
  <2>1. who[r] \in Users
    BY DEF Inv, TypeOK, ByToken, Token
  <2>. QED  BY <2>1 DEF Inv, TypeOK
<1>3. StepOf(r) /\ AccountsStay
  BY <1>1 DEF StepOf, AccountsStay, Ended, InFlight
<1>4. Asks(r)'
  BY <1>1 DEF Asks, PastLookUp, InFlight
<1>5. ByToken(r)'
  BY <1>1 DEF Inv, ByToken
<1>. QED  BY <1>2, <1>3, <1>4, <1>5, StepKeeps

\* An account is ACTIVE that was not, or still is.
LEMMA ActivatedKeeps ==
    ASSUME Inv, NEW u \in Users,
           status' = [status EXCEPT ![u] = "ACTIVE"],
           verified' \subseteq verified \cup {u}, verified \subseteq verified',
           UNCHANGED <<now, keyed, inactiveSince, underWay, tokens, who, seen,
                       authType>>,
           \/ UNCHANGED <<pc, endedAt>>
           \/ \E r \in Requests : ~Ended(r) /\ End(r, "verified")
    PROVE  Inv'
<1>1. TypeOK'
  BY DEF Inv, TypeOK, End
<1>2. /\ ~Inactive(u)'
      /\ \A v \in Users \ {u} : /\ Inactive(v)' = Inactive(v)
                                /\ v \in verified' <=> v \in verified
  BY DEF Inv, TypeOK, Inactive
<1>3. \A q \in Requests :
         /\ pc'[q] = pc[q] \/ pc'[q] = "verified"
         /\ Ended(q) => pc'[q] = pc[q] /\ endedAt'[q] = endedAt[q]
         /\ pc'[q] # "verified" => endedAt'[q] = endedAt[q]
  BY DEF Inv, TypeOK, End
<1>4. ASSUME NEW q \in Requests  PROVE Asks(q)' /\ ByToken(q)'
  <2>1. Asks(q) /\ ByToken(q)
    BY DEF Inv
  <2>2. CASE pc'[q] = "verified"
    BY <2>2 DEF Asks, PastLookUp, ByToken, InFlight
  <2>3. CASE pc'[q] = pc[q] /\ pc'[q] # "verified"
    <3>1. ByToken(q)'
      BY <1>3, <2>1, <2>3 DEF ByToken
    <3>2. pc'[q] \in InFlight => who'[q] \in Users
      BY <2>1, <2>3 DEF Asks
    <3>3. ASSUME PastLookUp(q)', Inactive(who[q])'
          PROVE  q \in underWay'[who'[q]]
      <4>1. pc[q] \in InFlight /\ who[q] \in Users
        BY <2>1, <2>3, <3>3 DEF Asks, PastLookUp, InFlight
      <4>2. who[q] # u
        BY <1>2, <3>3, <4>1 DEF Inactive
      <4>3. PastLookUp(q) /\ Inactive(who[q])
        BY <1>2, <2>3, <3>3, <4>1, <4>2 DEF PastLookUp, Inactive
      <4>. QED  BY <2>1, <4>3 DEF Asks
    <3>. QED  BY <3>1, <3>2, <3>3 DEF Asks
  <2>. QED  BY <1>3, <2>2, <2>3
<1>5. ASSUME NEW t \in tokens  PROVE Lives(t)'
  <2>1. Lives(t) /\ t.user \in Users
    BY DEF Inv, TypeOK, Token
  <2>2. \A q \in underWay[t.user] :
           Ended(q) => Ended(q)' /\ endedAt'[q] = endedAt[q]
    BY <1>3, <2>1 DEF Inv, TypeOK, Ended
  <2>3. Inactive(t.user)' => Inactive(t.user)
    BY <1>2, <2>1
  <2>. QED  BY <2>1, <2>2, <2>3 DEF Lives
<1>. QED  BY <1>1, <1>4, <1>5 DEF Inv

\* An account is not ACTIVE from now on: its tokens were issued before, and the
\* requests that may issue more are under way.
LEMMA DeactivatedKeeps ==
    ASSUME Inv, NEW u \in Users, NEW s \in {"PENDING", "SUSPENDED"},
           NEW rs \in SUBSET Requests, UnderWay' \subseteq rs,
           status' = [status EXCEPT ![u] = s],
           Deactivated(u, rs),
           UNCHANGED <<now, verified, keyed, tokens, seen, authType, endedAt>>,
           \/ UNCHANGED <<pc, who>>
           \/ \E r \in Requests : pc[r] = "idle" /\ Await(r, u, "mail")
    PROVE  Inv'
<1>1. TypeOK'
  BY DEF Inv, TypeOK, Deactivated, Await
<1>2. /\ inactiveSince'[u] = now /\ underWay'[u] = rs
      /\ \A v \in Users \ {u} :
            /\ inactiveSince'[v] = inactiveSince[v] /\ underWay'[v] = underWay[v]
            /\ status'[v] = status[v]
  BY DEF Inv, TypeOK, Deactivated
<1>3. \A q \in Requests :
         \/ pc'[q] = pc[q] /\ who'[q] = who[q]
         \/ pc[q] = "idle" /\ pc'[q] = "mail" /\ who'[q] = u
  BY DEF Inv, TypeOK, Await
<1>4. ASSUME NEW q \in Requests  PROVE Asks(q)' /\ ByToken(q)'
  <2>1. Asks(q) /\ ByToken(q)
    BY DEF Inv
  <2>2. pc'[q] \in InFlight => q \in rs
    BY DEF UnderWay, InFlight
  <2>3. CASE who'[q] = u
    BY <1>2, <1>3, <2>1, <2>2, <2>3 DEF Asks, PastLookUp, ByToken, InFlight
  <2>4. CASE who'[q] # u
    BY <1>2, <1>3, <2>1, <2>4 DEF Asks, PastLookUp, ByToken, InFlight, Inactive
  <2>. QED  BY <2>3, <2>4
<1>5. ASSUME NEW t \in tokens  PROVE Lives(t)'
  <2>1. Lives(t) /\ t.user \in Users
    BY DEF Inv, TypeOK, Token
  <2>2. CASE t.user = u
    BY <1>2, <2>1, <2>2 DEF Lives
  <2>3. CASE t.user # u
    <3>1. \A q \in underWay[t.user] : Ended(q) => Ended(q)'
      BY <1>3, <2>1 DEF Inv, TypeOK, Ended, InFlight
    <3>. QED  BY <1>2, <2>1, <2>3, <3>1 DEF Lives, Inactive
  <2>. QED  BY <2>2, <2>3
<1>. QED  BY <1>1, <1>4, <1>5 DEF Inv

LEMMA RegisterKeeps ==
    ASSUME Inv, NEW r \in Requests, Register(r)
    PROVE  Inv'
<1>1. PICK u \in Users :
          /\ status' = [status EXCEPT ![u] = "PENDING"]
          /\ Deactivated(u, UnderWay \cup {r})
          /\ Await(r, u, "mail")
          /\ pc[r] = "idle" /\ UNCHANGED <<verified, keyed, seen>>
  BY DEF Register
<1>2. UnderWay' \subseteq UnderWay \cup {r} /\ UnderWay \cup {r} \in SUBSET Requests
  BY <1>1 DEF UnderWay, Await, Inv, TypeOK
<1>. QED  BY <1>1, <1>2, DeactivatedKeeps DEF Await

LEMMA VerifySaveKeeps ==
    ASSUME Inv, NEW r \in Requests, VerifySave(r)
    PROVE  Inv'
<1>1. PICK u \in Users : u = who[r]
  BY DEF VerifySave, Inv, Asks, InFlight
<1>2. ~Ended(r)
  BY DEF VerifySave, Ended, InFlight
<1>. QED  BY <1>1, <1>2, ActivatedKeeps DEF VerifySave, End

LEMMA AdministratorKeeps ==
    ASSUME Inv, NEW u \in Users, Suspend(u) \/ Reinstate(u)
    PROVE  Inv'
<1>1. CASE Reinstate(u)
  BY <1>1, ActivatedKeeps DEF Reinstate, requestVars
<1>2. CASE Suspend(u) /\ status[u] = "ACTIVE"
  <2>1. UnderWay' \subseteq UnderWay /\ UnderWay \in SUBSET Requests
    BY <1>2 DEF Suspend, requestVars, UnderWay
  <2>. QED  BY <1>2, <2>1, DeactivatedKeeps DEF Suspend, requestVars
<1>3. CASE Suspend(u) /\ status[u] # "ACTIVE"
  <2>1. /\ status[u] = "PENDING" /\ status' = [status EXCEPT ![u] = "SUSPENDED"]
        /\ UNCHANGED <<now, tokens, verified, keyed, inactiveSince, underWay,
                       pc, who, seen, authType, endedAt>>
    BY <1>3 DEF Suspend, requestVars
  <2>2. \A v \in Users : Inactive(v)' = Inactive(v)
    BY <2>1 DEF Inactive, Inv, TypeOK
  <2>3. TypeOK'
    BY <2>1 DEF Inv, TypeOK
  <2>4. ASSUME NEW q \in Requests  PROVE Asks(q)' /\ ByToken(q)'
    <3>1. Asks(q) /\ ByToken(q)
      BY DEF Inv
    <3>2. PastLookUp(q) => who[q] \in Users
      BY <3>1 DEF Asks, PastLookUp, InFlight
    <3>. QED  BY <2>1, <2>2, <3>1, <3>2 DEF Asks, PastLookUp, ByToken, Inactive
  <2>5. ASSUME NEW t \in tokens  PROVE Lives(t)'
    <3>1. Lives(t) /\ t.user \in Users
      BY DEF Inv, TypeOK, Token
    <3>. QED  BY <2>1, <2>2, <3>1 DEF Lives, Ended
  <2>. QED  BY <2>1, <2>3, <2>4, <2>5 DEF Inv
<1>. QED  BY <1>1, <1>2, <1>3

LEMMA TickKeeps ==
    ASSUME Inv, Tick \/ UNCHANGED vars
    PROVE  Inv'
<1>1. /\ UNCHANGED <<tokens, accountVars, requestVars>>
      /\ now <= now' /\ now' \in 0..MaxTime /\ now \in Nat
  BY LivesAssumption DEF Tick, vars, Inv, TypeOK
<1>2. TypeOK'
  BY <1>1 DEF Inv, TypeOK, accountVars, requestVars
<1>3. ASSUME NEW q \in Requests  PROVE Asks(q)' /\ ByToken(q)'
  BY <1>1 DEF Inv, Asks, PastLookUp, Inactive, ByToken, accountVars, requestVars
<1>4. ASSUME NEW t \in tokens  PROVE Lives(t)'
  <2>1. Lives(t) /\ t.exp \in Nat
    BY DEF Inv, TypeOK, Token
  <2>2. t.exp <= now' + RefreshLife
    BY <1>1, <2>1, LivesAssumption DEF Lives
  <2>. QED  BY <1>1, <2>1, <2>2
            DEF Lives, Inactive, Ended, accountVars, requestVars
<1>. QED  BY <1>1, <1>2, <1>3, <1>4 DEF Inv

LEMMA NextKeeps == Inv /\ [Next]_vars => Inv'
BY RegisterKeeps, LoadsKeep, EndsKeep, CreateKeyKeeps, VerifySaveKeeps,
   AdministratorKeeps, TickKeeps
DEF Next

LEMMA Invariance == Spec => []Inv
<1>1. Init => Inv
  BY LivesAssumption DEF Init, Inv, TypeOK, Asks, PastLookUp, ByToken, InFlight
<1>. QED  BY <1>1, NextKeeps, PTL DEF Spec

\* The type invariant: each token has an account and an expiry.
THEOREM TypeCorrect == Spec => []TypeOK
BY Invariance, PTL DEF Inv
----------------------------------------------------------------------------
\* The requests that issue tokens, or make an account ACTIVE.
LEMMA WhoIssues ==
    ASSUME Inv, [Next]_vars, NEW t \in tokens' \ tokens
    PROVE  \E r \in Requests :
              PastLookUp(r) /\ t.user = who[r] /\ pc'[r] # pc[r]
<1>1. \E r \in Requests : RegisterIssue(r) \/ LoginIssue(r) \/ Renew(r)
  BY DEF Next, vars, accountVars, requestVars, Await, Serve, Refuse,
         Register, VerifyLoad, VerifySave, LoginLoad, Unauthorized, Bypass,
         Access, RenewAsk, RenewFound, RenewRefused, KeyAccepted, KeyServed,
         SystemKey, Fail, CreateKey, KeyPathRefused, Suspend, Reinstate, Tick
<1>2. PICK r \in Requests : RegisterIssue(r) \/ LoginIssue(r) \/ Renew(r)
  BY <1>1
<1>3. PastLookUp(r)
  BY <1>2 DEF RegisterIssue, LoginIssue, Renew, PastLookUp
<1>4. pc'[r] \in {"tokens", "served"} /\ pc[r] \in {"mail", "login", "found"}
  BY <1>2 DEF RegisterIssue, LoginIssue, Renew, AnswerWithTokens, Serve, End,
              Inv, TypeOK
<1>5. t.user = who[r]
  <2>1. \E lives \in SUBSET {AccessLife, RefreshLife} : Issue(who[r], lives)
    BY <1>2 DEF RegisterIssue, LoginIssue, Renew, AnswerWithTokens
  <2>. QED  BY <2>1 DEF Issue
<1>. QED  BY <1>3, <1>4, <1>5

\* login, renewal: an account that is suspended, or not verified yet, gets tokens
\* only from requests that were under way when that began.
THEOREM LateGetNoToken == Spec => LateRequestsGetNoToken
<1>1. ASSUME Inv, [Next]_vars, NEW u \in Users, Inactive(u),
             \E t \in tokens' \ tokens : t.user = u
      PROVE  \E r \in underWay[u] : pc'[r] # pc[r]
  <2>1. PICK r \in Requests : PastLookUp(r) /\ u = who[r] /\ pc'[r] # pc[r]
    BY <1>1, WhoIssues
  <2>. QED  BY <1>1, <2>1 DEF Inv, Asks
<1>. DEFINE Step ==
        \A u \in Users :
            /\ Inactive(u)
            /\ \E t \in tokens' \ tokens : t.user = u
            => \E r \in underWay[u] : pc'[r] # pc[r]
<1>2. Inv /\ [Next]_vars => [Step]_vars
  BY <1>1
<1>. QED  BY <1>2, Invariance, PTL DEF Spec, LateRequestsGetNoToken

\* Only verifyEmail and an administrator end a suspension.
LEMMA WhoReinstates ==
    ASSUME Inv, [Next]_vars, NEW u \in Users,
           status[u] = "SUSPENDED", status'[u] # "SUSPENDED"
    PROVE  \/ UNCHANGED pc
           \/ \E q \in Requests : VerifySave(q) /\ who[q] = u
<1>1. \/ \E q \in Requests : Register(q) \/ VerifySave(q)
      \/ \E v \in Users : Suspend(v) \/ Reinstate(v)
  BY DEF Next, vars, accountVars, requestVars, Await, Serve, Refuse,
         RegisterIssue, LoginIssue, AnswerWithTokens, Renew,
         VerifyLoad, LoginLoad, Unauthorized, Bypass,
         Access, RenewAsk, RenewFound, RenewRefused, KeyAccepted, KeyServed,
         SystemKey, Fail, CreateKey, KeyPathRefused, Tick
<1>2. ASSUME NEW q \in Requests, Register(q)
      PROVE  FALSE
  <2>1. PICK v \in Users : /\ status[v] = None
                           /\ status' = [status EXCEPT ![v] = "PENDING"]
    BY <1>2 DEF Register
  <2>2. v # u
    BY <2>1, NoneAssumption
  <2>. QED  BY <2>1, <2>2 DEF Inv, TypeOK
<1>3. ASSUME NEW q \in Requests, VerifySave(q)
      PROVE  who[q] = u
  BY <1>3 DEF VerifySave, Inv, TypeOK
<1>4. ASSUME NEW v \in Users, Suspend(v) \/ Reinstate(v)
      PROVE  UNCHANGED pc
  BY <1>4 DEF Suspend, Reinstate, requestVars
<1>. QED  BY <1>1, <1>2, <1>3, <1>4

\* verifyEmail: a suspended account that was verified comes back by its codes
\* only if the request had passed its checks before the suspension.
THEOREM VerifiedStay == Spec => VerifiedStaySuspended
<1>1. ASSUME Inv, [Next]_vars, NEW u \in verified, NEW r \in Requests,
             status[u] = "SUSPENDED", status'[u] # "SUSPENDED",
             pc'[r] # pc[r]
      PROVE  r \in underWay[u]
  <2>1. u \in Users
    BY <1>1 DEF Inv, TypeOK
  <2>2. PICK q \in Requests : VerifySave(q) /\ who[q] = u
    BY <1>1, <2>1, WhoReinstates
  <2>3. q = r /\ pc[r] = "verify"
    BY <1>1, <2>2 DEF VerifySave, End, Inv, TypeOK
  <2>. QED  BY <1>1, <2>2, <2>3 DEF Inv, Asks, PastLookUp, Inactive
<1>. DEFINE Step ==
        \A u \in verified, r \in Requests :
            /\ status[u] = "SUSPENDED" /\ status'[u] # "SUSPENDED"
            /\ pc'[r] # pc[r]
            => r \in underWay[u]
<1>2. Inv /\ [Next]_vars => [Step]_vars
  BY <1>1
<1>. QED  BY <1>2, Invariance, PTL DEF Spec, VerifiedStaySuspended

\* The sessions of an account that is not ACTIVE end one life of a refresh token
\* after the requests that were under way.
THEOREM RunOut == Spec => []SessionsRunOut
<1>1. ASSUME Inv, NEW u \in Users, NEW r \in Requests, NEW t \in 0..MaxTime,
             Inactive(u), inactiveSince[u] <= t,
             \A q \in Requests : OverBy(q, u, t), who[r] = u,
             pc[r] = "keyMade" \/ (pc[r] = "served" /\ authType[r] = "jwt")
      PROVE  endedAt[r] < t + RefreshLife
  <2>1. PICK tok \in tokens : tok.user = u /\ endedAt[r] < tok.exp
    BY <1>1 DEF Inv, ByToken
  <2>2. /\ endedAt[r] \in Nat /\ tok.exp \in Nat /\ RefreshLife \in Nat
        /\ inactiveSince[u] \in Nat /\ t \in Nat
    BY <1>1, LivesAssumption DEF Inv, TypeOK, Token
  <2>3. \/ tok.exp <= inactiveSince[u] + RefreshLife
        \/ \E q \in underWay[u] : tok.exp <= endedAt[q] + RefreshLife
    BY <1>1, <2>1 DEF Inv, Lives
  <2>4. \A q \in underWay[u] : endedAt[q] \in Nat /\ endedAt[q] <= t
    BY <1>1, LivesAssumption DEF Inv, TypeOK, OverBy
  <2>5. tok.exp <= t + RefreshLife
    BY <1>1, <2>2, <2>3, <2>4
  <2>. QED  BY <2>1, <2>2, <2>5
<1>2. Inv => SessionsRunOut
  BY <1>1 DEF SessionsRunOut
<1>. QED  BY <1>2, Invariance, PTL
=============================================================================
