--------------------------- MODULE RecoveryProofs ---------------------------
(***************************************************************************)
(* AuthService implements Recovery, for every set of users, requests and   *)
(* codes and every life of the tokens.                                     *)
(***************************************************************************)
EXTENDS AuthServiceProofs

USE DEF SaveAndGoOn, SaveAndAnswer, Verified

----------------------------------------------------------------------------
(* The steps: a request is answered, loads a document or saves one.        *)

Answered(r) == (\E with \in Reply : Answer(r, with)) /\ UNCHANGED <<users, target>>

Loads(r) ==
    \/ ForgotLoad(r) \/ ResetLoad(r) \/ VerifyLoad(r)
    \/ ResendLoad(r) \/ LoginLoad(r)

LEMMA NextShape ==
    ASSUME [Next]_vars
    PROVE  \/ \E r \in Requests : Answered(r) \/ Loads(r) \/ Save(r)
           \/ UNCHANGED <<users, pc, target, snap, made>>
<1>. USE DEF Refuse, VersionError, SendMail, Answered, Loads, Save, Reply
<1>1. ASSUME NEW r \in Requests, Forgot(r) \/ Reset(r)
      PROVE  Answered(r) \/ Loads(r) \/ Save(r)
  BY <1>1 DEF Forgot, ForgotUnknown, ForgotMail,
              Reset, ResetRefused, ResetConflict
<1>2. ASSUME NEW r \in Requests, Verify(r) \/ Login(r)
      PROVE  Answered(r) \/ Loads(r) \/ Save(r)
  BY <1>2 DEF Verify, VerifyRefused, VerifyAgain, VerifyConflict,
              Login, LoginDenied, LoginResetRequired
<1>3. ASSUME NEW r \in Requests, Resend(r)
      PROVE  Answered(r) \/ Loads(r) \/ Save(r)
  BY <1>3 DEF Resend, ResendUnknown, ResendVerified, ResendConflict, ResendMail
<1>4. ASSUME NEW r \in Requests, Abort(r) PROVE Answered(r)
  BY <1>4 DEF Abort
<1>5. Tick \/ UNCHANGED vars => UNCHANGED <<users, pc, target, snap, made>>
  BY DEF Tick, vars
<1>. QED  BY <1>1, <1>2, <1>3, <1>4, <1>5 DEF Next

\* r loads the document of u, to save it at `next'.
LoadShape(r, u, next) ==
    /\ pc[r] = "idle"
    /\ UNCHANGED users
    /\ pc' = [pc EXCEPT ![r] = next]
    /\ target' = [target EXCEPT ![r] = u]
    /\ snap' = [snap EXCEPT ![r] = users[u]]
    /\ \A q \in Requests \ {r} : made'[q] = made[q]
    /\ next = "forgotSave" => made'[r].tokenHash = r
    /\ next = "resendSave" => made'[r].tokenHash \in Codes
    /\ next \in {"verifySave", "resendSave"} => ~users[u].emailVerified
    /\ next = "resetSave" => Dirty(users[u].resetTokens) # {}
    /\ next = "verifySave" => Dirty(users[u].emailVerificationTokens) # {}

LEMMA LoadsShape ==
    ASSUME TypeOK, NEW r \in Requests, Loads(r)
    PROVE  \E u \in Users, next \in Saving : LoadShape(r, u, next)
<1>1. \A tokens, t : Redeemable(tokens, t) => Dirty(tokens) # {}
  BY DEF Redeemable, IsFirst, Dirty
<1>2. CASE ForgotLoad(r)
  <2>1. PICK u \in Users :
           Load(r, u, None, Entry(r, now + ResetTTL), "forgotSave")
    BY <1>2 DEF ForgotLoad
  <2>2. LoadShape(r, u, "forgotSave")
    BY <2>1 DEF TypeOK, Load, LoadShape, Entry
  <2>. QED  BY <2>2 DEF Saving
<1>3. CASE ResetLoad(r)
  <2>1. PICK t \in Presented, u \in Users :
           /\ Redeemable(users[u].resetTokens, t)
           /\ Load(r, u, t, None, "resetSave")
    BY <1>3 DEF ResetLoad
  <2>2. LoadShape(r, u, "resetSave")
    BY <1>1, <2>1 DEF TypeOK, Load, LoadShape
  <2>. QED  BY <2>2 DEF Saving
<1>4. CASE VerifyLoad(r)
  <2>1. PICK c \in Codes, u \in Users :
           /\ ~users[u].emailVerified
           /\ Redeemable(users[u].emailVerificationTokens, c)
           /\ Load(r, u, c, None, "verifySave")
    BY <1>4 DEF VerifyLoad
  <2>2. LoadShape(r, u, "verifySave")
    BY <1>1, <2>1 DEF TypeOK, Load, LoadShape
  <2>. QED  BY <2>2 DEF Saving
<1>5. CASE ResendLoad(r)
  <2>1. PICK u \in Users, c \in Codes :
           /\ ~users[u].emailVerified
           /\ Load(r, u, None, Entry(c, now + VerificationTTL), "resendSave")
    BY <1>5 DEF ResendLoad
  <2>2. LoadShape(r, u, "resendSave")
    BY <2>1 DEF TypeOK, Load, LoadShape, Entry
  <2>. QED  BY <2>2 DEF Saving
<1>6. CASE LoginLoad(r)
  <2>1. PICK u \in Users : Load(r, u, None, None, "loginSave")
    BY <1>6 DEF LoginLoad
  <2>2. LoadShape(r, u, "loginSave")
    BY <2>1 DEF TypeOK, Load, LoadShape
  <2>. QED  BY <2>2 DEF Saving
<1>. QED  BY <1>2, <1>3, <1>4, <1>5, <1>6 DEF Loads

\* What a save does to its request, which goes on to `next'.
SaveShape(r, next) ==
    /\ pc[r] \in Saving
    /\ target[r] \in Users
    /\ UNCHANGED target
    /\ pc' = [pc EXCEPT ![r] = next]
    /\ snap' = [snap EXCEPT ![r] = None]
    /\ UNCHANGED made \/ made' = [made EXCEPT ![r] = None]
    /\ pc[r] = "forgotSave" => next = "forgotMail"
    /\ \A u \in Users \ {target[r]} : users'[u] = users[u]

LEMMA SavesShape ==
    ASSUME TypeOK, NEW r \in Requests, Save(r)
    PROVE  \E next \in Mailing \cup {"done"} : SaveShape(r, next)
<1>1. pc[r] \in Saving /\ target[r] \in Users
  BY DEF Save, ForgotSave, ResetSave, VerifySave, ResendPush, ResendSet,
         LoginSave, Saving, TypeOK
<1>2. ASSUME NEW doc, Store(r, doc)
      PROVE  \A u \in Users \ {target[r]} : users'[u] = users[u]
  BY <1>1, <1>2 DEF Store, TypeOK
<1>3. CASE ForgotSave(r)
  <2>1. SaveShape(r, "forgotMail")
    BY <1>1, <1>2, <1>3 DEF ForgotSave, SaveShape
  <2>. QED  BY <2>1 DEF Mailing
<1>4. CASE ResendPush(r) \/ ResendSet(r)
  <2>1. SaveShape(r, "resendMail")
    BY <1>1, <1>2, <1>4 DEF ResendPush, ResendSet, ResendSaved, SaveShape
  <2>. QED  BY <2>1 DEF Mailing
<1>5. CASE ResetSave(r) \/ VerifySave(r) \/ LoginSave(r)
  <2>1. SaveShape(r, "done")
    BY <1>1, <1>2, <1>5 DEF ResetSave, VerifySave, LoginSave, Answer, SaveShape
  <2>. QED  BY <2>1
<1>. QED  BY <1>3, <1>4, <1>5 DEF Save
----------------------------------------------------------------------------
(* The invariant.                                                          *)

\* What a request generated has the name it is known by: a link that of the
\* request, a code its digits.
MadeNames ==
    \A r \in Requests :
        /\ pc[r] = "forgotSave" => made[r].tokenHash = r
        /\ pc[r] = "resendSave" => made[r].tokenHash \in Codes

LEMMA NextMadeNames ==
    ASSUME TypeOK, MadeNames, [Next]_vars
    PROVE  MadeNames'
<1>1. ASSUME NEW r \in Requests, Answered(r) PROVE MadeNames'
  BY <1>1 DEF Answered, Answer, MadeNames, TypeOK
<1>2. ASSUME NEW r \in Requests, Loads(r) PROVE MadeNames'
  <2>1. PICK u \in Users, next \in Saving : LoadShape(r, u, next)
    BY <1>2, LoadsShape
  <2>. QED  BY <2>1 DEF LoadShape, MadeNames, TypeOK
<1>3. ASSUME NEW r \in Requests, Save(r) PROVE MadeNames'
  <2>1. PICK next \in Mailing \cup {"done"} : SaveShape(r, next)
    BY <1>3, SavesShape
  <2>. QED  BY <2>1 DEF SaveShape, MadeNames, TypeOK, Mailing
<1>. QED  BY <1>1, <1>2, <1>3, NextShape DEF MadeNames

\* A link that is stored was made by a request that has saved it, and so cannot
\* save it again.
LinkOf(e) ==
    /\ e.tokenHash \in Requests
    /\ pc[e.tokenHash] \in {"forgotMail", "done"}

LinksSaved ==
    \A u \in Users :
        \A i \in DOMAIN users[u].resetTokens : LinkOf(users[u].resetTokens[i])

\* A request that has saved its link does not become one that has not.
LEMMA SavedForGood ==
    ASSUME TypeOK, [Next]_vars, NEW q \in Requests,
           pc[q] \in {"forgotMail", "done"}
    PROVE  pc'[q] \in {"forgotMail", "done"}
<1>1. ASSUME NEW r \in Requests, Answered(r)
      PROVE  pc'[q] \in {"forgotMail", "done"}
  BY <1>1 DEF Answered, Answer, TypeOK
<1>2. ASSUME NEW r \in Requests, Loads(r)
      PROVE  pc'[q] \in {"forgotMail", "done"}
  <2>1. PICK u \in Users, next \in Saving : LoadShape(r, u, next)
    BY <1>2, LoadsShape
  <2>. QED  BY <2>1 DEF LoadShape, TypeOK
<1>3. ASSUME NEW r \in Requests, Save(r)
      PROVE  pc'[q] \in {"forgotMail", "done"}
  <2>1. PICK next \in Mailing \cup {"done"} : SaveShape(r, next)
    BY <1>3, SavesShape
  <2>. QED  BY <2>1 DEF SaveShape, TypeOK, Mailing, Saving
<1>. QED  BY <1>1, <1>2, <1>3, NextShape
LEMMA NextLinksSaved ==
    ASSUME TypeOK, MadeNames, LinksSaved, [Next]_vars
    PROVE  LinksSaved'
<1>1. ASSUME NEW e, LinkOf(e)
      PROVE  /\ e.tokenHash \in Requests
             /\ pc'[e.tokenHash] \in {"forgotMail", "done"}
  BY <1>1, SavedForGood DEF LinkOf
<1>2. SUFFICES ASSUME NEW u \in Users, NEW i \in DOMAIN users'[u].resetTokens
               PROVE  LET e == users'[u].resetTokens[i] IN
                      /\ e.tokenHash \in Requests
                      /\ pc'[e.tokenHash] \in {"forgotMail", "done"}
  BY DEF LinksSaved, LinkOf
<1>. DEFINE d == users[u].resetTokens
            e == users'[u].resetTokens
<1>3. d \in Seq(TokenEntry) /\ \A j \in DOMAIN d : LinkOf(d[j])
  BY DEF TypeOK, Document, LinksSaved
<1>4. CASE e = d
  BY <1>1, <1>3, <1>4
<1>5. ASSUME NEW I, e = SetUsed(d, I)
      PROVE  /\ e[i].tokenHash \in Requests
             /\ pc'[e[i].tokenHash] \in {"forgotMail", "done"}
  <2>1. i \in DOMAIN d /\ e[i].tokenHash = d[i].tokenHash
    BY <1>3, <1>5, SetUsedProperties DEF OnlySpent
  <2>. QED  BY <1>1, <1>3, <2>1
<1>6. ASSUME NEW r \in Requests, Save(r)
      PROVE  /\ e[i].tokenHash \in Requests
             /\ pc'[e[i].tokenHash] \in {"forgotMail", "done"}
  <2>1. PICK next \in Mailing \cup {"done"} : SaveShape(r, next)
    BY <1>6, SavesShape
  <2>2. CASE u # target[r]
    BY <1>4, <2>1, <2>2 DEF SaveShape
  <2>3. CASE u = target[r] /\ ForgotSave(r)
    <3>1. /\ made[r] \in TokenEntry /\ made[r].tokenHash = r
          /\ pc'[r] = "forgotMail"
      BY <2>1, <2>3 DEF TypeOK, MadeNames, ForgotSave, SaveShape, Pushing
    <3>2. e = Append(d, made[r])
      BY <2>3 DEF TypeOK, ForgotSave, Store, Document
    <3>3. CASE i \in DOMAIN d
      BY <1>1, <1>3, <3>1, <3>2, <3>3
    <3>4. CASE i \notin DOMAIN d
      <4>1. e[i] = made[r]
        BY <1>3, <3>1, <3>2, <3>4
      <4>. QED  BY <3>1, <4>1
    <3>. QED  BY <3>3, <3>4
  <2>4. CASE u = target[r] /\ ResetSave(r)
    <3>1. e = SetUsed(d, Dirty(snap[r].resetTokens))
      BY <2>4 DEF TypeOK, ResetSave, Store, Document
    <3>. QED  BY <1>5, <3>1
  <2>5. CASE /\ u = target[r]
             /\ VerifySave(r) \/ ResendPush(r) \/ ResendSet(r) \/ LoginSave(r)
    <3>. u \in Users /\ users[u] \in Document
      BY DEF TypeOK
    <3>1. VerifySave(r) => e = d
      BY <2>5 DEF TypeOK, VerifySave, Store, Document
    <3>2. ASSUME NEW tokens, ResendSaved(r, tokens) PROVE e = d
      BY <2>5, <3>2 DEF TypeOK, ResendSaved, Store, Document
    <3>4. ResendPush(r) \/ ResendSet(r) => e = d
      BY <3>2 DEF ResendPush, ResendSet
    <3>3. LoginSave(r) => e = d
      BY <2>5 DEF TypeOK, LoginSave, Store, Document
    <3>. QED  BY <1>4, <2>5, <3>1, <3>3, <3>4
  <2>. QED  BY <1>6, <2>2, <2>3, <2>4, <2>5 DEF Save
<1>7. CASE UNCHANGED users
  BY <1>4, <1>7
<1>. QED  BY <1>6, <1>7, OnlySavesWrite

RecoveryInv ==
    TypeOK /\ SnapshotBehind /\ LiveUntilVerified /\ MadeNames /\ LinksSaved

LEMMA RecoveryInvariance == Spec => []RecoveryInv
<1>1. Init => MadeNames /\ LinksSaved
  <2>1. ASSUME Init, NEW u \in Users
        PROVE  users[u].resetTokens = <<>>
    BY <2>1 DEF Init, InitialDocuments, RegisteredDocument, ImportedDocument
  <2>. QED  BY <2>1 DEF Init, MadeNames, LinksSaved
<1>2. Init => RecoveryInv
  BY <1>1, InitTyping, InitCodes DEF RecoveryInv, Init, SnapshotBehind, Saving
<1>3. RecoveryInv /\ [Next]_vars => RecoveryInv'
  BY NextTyping, NextSnapshotBehind, NextLiveUntilVerified, NextMadeNames,
     NextLinksSaved DEF RecoveryInv
<1>. QED  BY <1>2, <1>3, PTL DEF Spec
----------------------------------------------------------------------------
(* The refinement.  First, what becomes of the rights on an account.       *)

Ops == {"resetSave", "verifySave", "resendSave"}

\* No request but r is touched.
OthersKept(r) ==
    \A q \in Requests \ {r} :
        pc'[q] = pc[q] /\ target'[q] = target[q] /\ snap'[q] = snap[q]

\* A step that leaves the version of u leaves the rights of all but r.
LEMMA RightsOfOthers ==
    ASSUME NEW u \in Users, NEW r \in Requests, OthersKept(r),
           users'[u].v = users[u].v
    PROVE  /\ Account(u)'.mayReset \ {r} = Account(u).mayReset \ {r}
           /\ Account(u)'.mayVerify \ {r} = Account(u).mayVerify \ {r}
           /\ Account(u)'.mayRenew \ {r} = Account(u).mayRenew \ {r}
  BY DEF Account, Entitled, OthersKept

\* Those of r are there only while it awaits its save.
LEMMA RightsOfRequest ==
    ASSUME NEW u \in Users, NEW r \in Requests
    PROVE  /\ r \in Account(u).mayReset =>
                 pc[r] = "resetSave" /\ target[r] = u
           /\ r \in Account(u).mayVerify =>
                 pc[r] = "verifySave" /\ target[r] = u
           /\ r \in Account(u).mayRenew =>
                 pc[r] = "resendSave" /\ target[r] = u
  BY DEF Account, Entitled

\* Nobody has a right on an account whose version was raised.
LEMMA RightsRevoked ==
    ASSUME TypeOK, SnapshotBehind, NEW u \in Users, NEW r \in Requests,
           OthersKept(r), pc'[r] \notin Ops, users'[u].v = users[u].v + 1
    PROVE  /\ Account(u)'.mayReset = {}
           /\ Account(u)'.mayVerify = {}
           /\ Account(u)'.mayRenew = {}
<1>1. ASSUME NEW op \in Ops, NEW q \in Requests \ {r}, pc[q] = op,
             target[q] = u, snap[q].v = users[u].v + 1
      PROVE  FALSE
  <2>1. Behind(snap[q], users[u]) /\ snap[q] \in Document /\ users[u] \in Document
    BY <1>1 DEF SnapshotBehind, TypeOK, Ops, Saving
  <2>. QED  BY <1>1, <2>1 DEF Behind, Document
<1>2. \A op \in Ops : Entitled(u, op)' = {}
  BY <1>1 DEF Entitled, OthersKept
<1>. QED  BY <1>2 DEF Account, Ops

\* A step that leaves the document of u, and r has nothing to do with u.
LEMMA AccountKept ==
    ASSUME NEW u \in Users, NEW r \in Requests, OthersKept(r),
           users'[u] = users[u],
           target[r] # u \/ pc[r] \notin Ops,
           target'[r] # u \/ pc'[r] \notin Ops
    PROVE  Account(u)' = Account(u)
<1>1. /\ Entitled(u, "resetSave")' = Entitled(u, "resetSave")
      /\ Entitled(u, "verifySave")' = Entitled(u, "verifySave")
  BY DEF Entitled, OthersKept, Ops
<1>2. Account(u)'.mayRenew = Account(u).mayRenew
  BY DEF Account, Entitled, OthersKept, Ops
<1>. QED  BY <1>1, <1>2 DEF Account

\* An account is the record of its fields.
IsAccount(a) ==
    a = [password |-> a.password, verified |-> a.verified, links |-> a.links,
         codes |-> a.codes, mayReset |-> a.mayReset, mayVerify |-> a.mayVerify,
         mayRenew |-> a.mayRenew]

LEMMA AccountFields ==
    ASSUME NEW u \in Users
    PROVE  IsAccount(Account(u)) /\ IsAccount(Account(u)')
  BY DEF IsAccount, Account

LEMMA AccountsEqual ==
    ASSUME NEW a, IsAccount(a), NEW b, IsAccount(b),
           a.password = b.password, a.verified = b.verified,
           a.links = b.links, a.codes = b.codes, a.mayReset = b.mayReset,
           a.mayVerify = b.mayVerify, a.mayRenew = b.mayRenew
    PROVE  a = b
  BY DEF IsAccount

LEMMA IssuedKept ==
    ASSUME \A w \in Users, q \in Requests :
              Holds(users'[w].resetTokens, q) <=> Holds(users[w].resetTokens, q)
    PROVE  IssuedLinks' = IssuedLinks
<1>1. ASSUME NEW q \in Requests
      PROVE  (\E w \in Users : Holds(users'[w].resetTokens, q)) <=>
             (\E w \in Users : Holds(users[w].resetTokens, q))
  OBVIOUS
<1>. QED  BY <1>1 DEF IssuedLinks

LEMMA SpentHashes ==
    ASSUME NEW s \in Seq(TokenEntry), NEW I, NEW h
    PROVE  Holds(SetUsed(s, I), h) <=> Holds(s, h)
<1>1. /\ DOMAIN SetUsed(s, I) = DOMAIN s
      /\ \A i \in DOMAIN s : SetUsed(s, I)[i].tokenHash = s[i].tokenHash
  BY SetUsedProperties DEF OnlySpent
<1>. QED  BY <1>1 DEF Holds

LEMMA PushedHashes ==
    ASSUME NEW s \in Seq(TokenEntry), NEW x \in TokenEntry, Live(x)
    PROVE  /\ LiveHashes(Append(s, x)) = LiveHashes(s) \cup {x.tokenHash}
           /\ \A h : Holds(Append(s, x), h) <=>
                        Holds(s, h) \/ h = x.tokenHash
<1>1. /\ DOMAIN Append(s, x) = DOMAIN s \cup {Len(s) + 1}
      /\ Append(s, x)[Len(s) + 1] = x
      /\ \A i \in DOMAIN s : Append(s, x)[i] = s[i]
  OBVIOUS
<1>2. Dirty(Append(s, x)) = Dirty(s) \cup {Len(s) + 1}
  BY <1>1 DEF Dirty
<1>. QED  BY <1>1, <1>2 DEF LiveHashes, Holds, Dirty

LEMMA SpentAllHashes ==
    ASSUME NEW s, Dirty(s) = {}
    PROVE  LiveHashes(s) = {}
  BY DEF LiveHashes

\* A step of one account is a step of Recovery.
LEMMA OneAccountSteps ==
    ASSUME NEW u \in Users, Abstract!Step(u, Account(u), Account(u)'),
           \A w \in Users \ {u} : Account(w)' = Account(w)
    PROVE  Abstract!Next
<1>. DEFINE accounts == [w \in Users |-> Account(w)]
<1>1. /\ Abstract!Step(u, accounts[u], accounts'[u])
      /\ accounts' = [accounts EXCEPT ![u] = accounts'[u]]
  OBVIOUS
<1>. QED  BY <1>1 DEF Abstract!Next

LEMMA NothingSteps ==
    ASSUME \A w \in Users : Account(w)' = Account(w), UNCHANGED IssuedLinks
    PROVE  UNCHANGED Abstract!vars
  BY DEF Abstract!vars
----------------------------------------------------------------------------
(* Then, one lemma for each kind of step.                                  *)

LEMMA AnsweredSteps ==
    ASSUME TypeOK, NEW r \in Requests, Answered(r)
    PROVE  [Abstract!Next]_(Abstract!vars)
<1>1. OthersKept(r) /\ pc'[r] = "done" /\ UNCHANGED <<users, target>>
  BY DEF Answered, Answer, OthersKept, TypeOK
<1>2. UNCHANGED IssuedLinks
  BY <1>1, IssuedKept
<1>3. \A w \in Users : target[r] # w => Account(w)' = Account(w)
  BY <1>1, AccountKept DEF Ops
<1>4. CASE target[r] \in Users
  <2>. PICK u \in Users : u = target[r]
    BY <1>4
  <2>1. Abstract!GiveUp(Account(u), Account(u)', r)
    <3>. PICK a, b : /\ a = Account(u) /\ b = Account(u)'
                     /\ IsAccount(a) /\ IsAccount(b)
      BY AccountFields
    <3>1. r \notin b.mayReset /\ r \notin b.mayVerify /\ r \notin b.mayRenew
      BY <1>1 DEF Account, Entitled
    <3>2. /\ b.mayReset \ {r} = a.mayReset \ {r}
          /\ b.mayVerify \ {r} = a.mayVerify \ {r}
          /\ b.mayRenew \ {r} = a.mayRenew \ {r}
      BY <1>1, RightsOfOthers
    <3>3. /\ b.password = a.password /\ b.verified = a.verified
          /\ b.links = a.links /\ b.codes = a.codes
      BY <1>1 DEF Account
    <3>4. /\ b.mayReset = a.mayReset \ {r}
          /\ b.mayVerify = a.mayVerify \ {r}
          /\ b.mayRenew = a.mayRenew \ {r}
      BY <3>1, <3>2
    <3>. QED  BY <3>3, <3>4 DEF IsAccount, Abstract!GiveUp
  <2>2. Abstract!Step(u, Account(u), Account(u)')
    BY <1>2, <2>1 DEF Abstract!Step
  <2>. QED  BY <1>3, <1>4, <2>2, OneAccountSteps
<1>5. CASE target[r] \notin Users
  BY <1>2, <1>3, <1>5, NothingSteps
<1>. QED  BY <1>4, <1>5

LEMMA LoadsSteps ==
    ASSUME TypeOK, NEW r \in Requests, Loads(r)
    PROVE  [Abstract!Next]_(Abstract!vars)
<1>1. PICK u \in Users, next \in Saving : LoadShape(r, u, next)
  BY LoadsShape
<1>2. /\ OthersKept(r) /\ UNCHANGED users
      /\ pc[r] = "idle" /\ pc'[r] = next /\ target'[r] = u
      /\ snap'[r] = users[u]
  BY <1>1 DEF LoadShape, OthersKept, TypeOK
<1>3. UNCHANGED IssuedLinks
  BY <1>2, IssuedKept
<1>4. \A w \in Users \ {u} : Account(w)' = Account(w)
  BY <1>2, AccountKept DEF Ops
<1>. PICK a, b : /\ a = Account(u) /\ b = Account(u)'
                 /\ IsAccount(a) /\ IsAccount(b)
  BY AccountFields
<1>5. /\ b.mayReset = a.mayReset \cup
             (IF next = "resetSave" THEN {r} ELSE {})
      /\ b.mayVerify = a.mayVerify \cup
             (IF next = "verifySave" THEN {r} ELSE {})
      /\ b.mayRenew = a.mayRenew \cup
             (IF /\ next = "resendSave"
                 /\ Dirty(users[u].emailVerificationTokens) # {}
              THEN {r} ELSE {})
  BY <1>2 DEF Account, Entitled, OthersKept
<1>6. /\ b.password = a.password /\ b.verified = a.verified
      /\ b.links = a.links /\ b.codes = a.codes
  BY <1>2 DEF Account
<1>7. /\ a.links # {} <=> Dirty(users[u].resetTokens) # {}
      /\ a.codes # {} <=> Dirty(users[u].emailVerificationTokens) # {}
      /\ a.verified = users[u].emailVerified
  BY DEF Account, LiveHashes
<1>8. CASE next = "resetSave"
  <2>1. Abstract!MayReset(a, b, r)
    BY <1>1, <1>5, <1>6, <1>7, <1>8
       DEF IsAccount, Abstract!MayReset, LoadShape
  <2>2. Abstract!Step(u, a, b)
    BY <1>3, <2>1 DEF Abstract!Step
  <2>. QED  BY <1>4, <2>2, OneAccountSteps
<1>9. CASE next = "verifySave"
  <2>1. Abstract!MayVerify(a, b, r)
    BY <1>1, <1>5, <1>6, <1>7, <1>9
       DEF IsAccount, Abstract!MayVerify, LoadShape
  <2>2. Abstract!Step(u, a, b)
    BY <1>3, <2>1 DEF Abstract!Step
  <2>. QED  BY <1>4, <2>2, OneAccountSteps
<1>10. CASE /\ next = "resendSave"
            /\ Dirty(users[u].emailVerificationTokens) # {}
  <2>1. Abstract!MayRenew(a, b, r)
    BY <1>1, <1>5, <1>6, <1>7, <1>10
       DEF IsAccount, Abstract!MayRenew, LoadShape
  <2>2. Abstract!Step(u, a, b)
    BY <1>3, <2>1 DEF Abstract!Step
  <2>. QED  BY <1>4, <2>2, OneAccountSteps
<1>11. CASE /\ next \notin {"resetSave", "verifySave"}
            /\ \/ next # "resendSave"
               \/ Dirty(users[u].emailVerificationTokens) = {}
  <2>1. b = a
    BY <1>5, <1>6, <1>11, AccountsEqual
  <2>. QED  BY <1>3, <1>4, <2>1, NothingSteps
<1>. QED  BY <1>8, <1>9, <1>10, <1>11

\* What every save does: the other accounts stay, r has no rights left.
SaveEffect(r, u, d, e) ==
    /\ u = target[r] /\ d = users[u] /\ e = users'[u]
    /\ d \in Document /\ snap[r] \in Document /\ Behind(snap[r], d)
    /\ OthersKept(r) /\ pc'[r] \notin Ops
    /\ \A w \in Users \ {u} : Account(w)' = Account(w)
    /\ \A w \in Users \ {u} : users'[w] = users[w]
    /\ r \notin Account(u)'.mayReset
    /\ r \notin Account(u)'.mayVerify
    /\ r \notin Account(u)'.mayRenew

LEMMA SavesEffect ==
    ASSUME RecoveryInv, NEW r \in Requests, Save(r)
    PROVE  \E u \in Users : SaveEffect(r, u, users[u], users'[u])
<1>. USE DEF RecoveryInv
<1>1. PICK next \in Mailing \cup {"done"} : SaveShape(r, next)
  BY SavesShape
<1>. PICK u \in Users : u = target[r]
  BY <1>1 DEF SaveShape
<1>2. /\ OthersKept(r) /\ pc'[r] \notin Ops /\ target'[r] = u
      /\ \A w \in Users \ {u} : users'[w] = users[w]
  BY <1>1 DEF SaveShape, OthersKept, Ops, Mailing, TypeOK
<1>3. \A w \in Users \ {u} : Account(w)' = Account(w)
  BY <1>2, AccountKept
<1>4. /\ r \notin Account(u)'.mayReset
      /\ r \notin Account(u)'.mayVerify
      /\ r \notin Account(u)'.mayRenew
  BY <1>2 DEF Account, Entitled, Ops
<1>5. users[u] \in Document /\ snap[r] \in Document /\ Behind(snap[r], users[u])
  BY <1>1 DEF SaveShape, TypeOK, SnapshotBehind
<1>. QED  BY <1>2, <1>3, <1>4, <1>5 DEF SaveEffect

LEMMA ForgotSaveSteps ==
    ASSUME RecoveryInv, NEW r \in Requests, ForgotSave(r)
    PROVE  Abstract!Next
<1>. PICK u \in Users : SaveEffect(r, u, users[u], users'[u])
  BY SavesEffect DEF Save
<1>. PICK d, e : /\ d = users[u] /\ e = users'[u]
                 /\ SaveEffect(r, u, d, e)
  OBVIOUS
<1>1. /\ pc[r] = "forgotSave" /\ made[r] \in TokenEntry /\ Live(made[r])
      /\ made[r].tokenHash = r
  BY DEF ForgotSave, RecoveryInv, TypeOK, MadeNames, Pushing
<1>2. e = [d EXCEPT !.resetTokens = Append(@, made[r]), !.v = @ + 1]
  BY DEF ForgotSave, Store, SaveEffect, RecoveryInv, TypeOK
<1>3. /\ e.resetTokens = Append(d.resetTokens, made[r]) /\ e.v = d.v + 1
      /\ e.password = d.password /\ e.emailVerified = d.emailVerified
      /\ e.emailVerificationTokens = d.emailVerificationTokens
      /\ d.resetTokens \in Seq(TokenEntry)
  BY <1>2 DEF SaveEffect, Document
<1>4. /\ LiveHashes(e.resetTokens) = LiveHashes(d.resetTokens) \cup {r}
      /\ \A h : Holds(e.resetTokens, h) <=> Holds(d.resetTokens, h) \/ h = r
  BY <1>1, <1>3, PushedHashes
<1>5. r \notin IssuedLinks
  <2>1. ASSUME NEW w \in Users PROVE ~Holds(users[w].resetTokens, r)
    BY <1>1 DEF RecoveryInv, LinksSaved, LinkOf, Holds
  <2>. QED  BY <2>1 DEF IssuedLinks
<1>6. IssuedLinks' = IssuedLinks \cup {r}
  <2>1. ASSUME NEW q \in Requests
        PROVE  (\E w \in Users : Holds(users'[w].resetTokens, q)) <=>
               (\E w \in Users : Holds(users[w].resetTokens, q)) \/ q = r
    BY <1>4 DEF SaveEffect
  <2>. QED  BY <2>1 DEF IssuedLinks
<1>. PICK a, b : /\ a = Account(u) /\ b = Account(u)'
                 /\ IsAccount(a) /\ IsAccount(b)
  BY AccountFields
<1>7. b.mayReset = {} /\ b.mayVerify = {} /\ b.mayRenew = {}
  BY <1>3, RightsRevoked DEF RecoveryInv, SaveEffect
<1>8. /\ b.password = a.password /\ b.verified = a.verified
      /\ b.links = a.links \cup {r} /\ b.codes = a.codes
  BY <1>3, <1>4 DEF Account
<1>9. Abstract!IssueLink(a, b, r)
  BY <1>7, <1>8 DEF IsAccount, Abstract!IssueLink, Abstract!Revoked
<1>10. Abstract!Step(u, a, b)
  BY <1>5, <1>6, <1>9 DEF Abstract!Step
<1>. QED  BY <1>10, OneAccountSteps DEF SaveEffect

LEMMA ResetSaveSteps ==
    ASSUME RecoveryInv, NEW r \in Requests, ResetSave(r)
    PROVE  Abstract!Next
<1>. PICK u \in Users : SaveEffect(r, u, users[u], users'[u])
  BY SavesEffect DEF Save
<1>. PICK d, e : /\ d = users[u] /\ e = users'[u]
                 /\ SaveEffect(r, u, d, e)
  OBVIOUS
<1>1. pc[r] = "resetSave" /\ snap[r].v = d.v
  BY DEF ResetSave, VersionMatches, SaveEffect
<1>2. e = [d EXCEPT !.password = r,
                    !.resetTokens = SetUsed(@, Dirty(snap[r].resetTokens))]
  BY DEF ResetSave, Store, SaveEffect, RecoveryInv, TypeOK
<1>3. /\ e.resetTokens = SetUsed(d.resetTokens, Dirty(snap[r].resetTokens))
      /\ e.password = r /\ e.emailVerified = d.emailVerified
      /\ e.emailVerificationTokens = d.emailVerificationTokens /\ e.v = d.v
      /\ d.resetTokens \in Seq(TokenEntry)
  BY <1>2 DEF SaveEffect, Document
<1>4. LiveHashes(e.resetTokens) = {}
  <2>1. /\ snap[r].resetTokens \in Seq(TokenEntry)
        /\ OnlySpent(snap[r].resetTokens, d.resetTokens)
        /\ Len(snap[r].resetTokens) = Len(d.resetTokens)
    BY <1>1 DEF SaveEffect, Document, Behind
  <2>. QED  BY <1>3, <2>1, MarkingSpendsAll, SpentAllHashes
<1>5. IssuedLinks' = IssuedLinks
  <2>1. \A q : Holds(e.resetTokens, q) <=> Holds(d.resetTokens, q)
    BY <1>3, SpentHashes
  <2>. QED  BY <2>1, IssuedKept DEF SaveEffect
<1>. PICK a, b : /\ a = Account(u) /\ b = Account(u)'
                 /\ IsAccount(a) /\ IsAccount(b)
  BY AccountFields
<1>6. /\ r \in a.mayReset /\ r \notin a.mayVerify /\ r \notin a.mayRenew
      /\ r \notin b.mayReset /\ r \notin b.mayVerify /\ r \notin b.mayRenew
  BY <1>1 DEF Account, Entitled, SaveEffect
<1>7. /\ b.mayReset \ {r} = a.mayReset \ {r}
      /\ b.mayVerify \ {r} = a.mayVerify \ {r}
      /\ b.mayRenew \ {r} = a.mayRenew \ {r}
  BY <1>3, RightsOfOthers DEF SaveEffect
<1>8. /\ b.mayReset = a.mayReset \ {r}
      /\ b.mayVerify = a.mayVerify /\ b.mayRenew = a.mayRenew
  BY <1>6, <1>7
<1>9. /\ b.password = r /\ b.verified = a.verified
      /\ b.links = {} /\ b.codes = a.codes
  BY <1>3, <1>4 DEF Account
<1>10. Abstract!ResetPassword(a, b, r)
  <2>. PICK c : c = [a EXCEPT !.password = r, !.links = {},
                              !.mayReset = @ \ {r}]
    OBVIOUS
  <2>1. IsAccount(c) /\ c.verified = a.verified
    BY DEF IsAccount
  <2>2. /\ c.password = r /\ c.links = {} /\ c.codes = a.codes
        /\ c.mayReset = a.mayReset \ {r}
        /\ c.mayVerify = a.mayVerify /\ c.mayRenew = a.mayRenew
    BY DEF IsAccount
  <2>3. b.verified = c.verified
    BY <1>9, <2>1
  <2>4. /\ b.password = c.password /\ b.links = c.links /\ b.codes = c.codes
        /\ b.mayReset = c.mayReset /\ b.mayVerify = c.mayVerify
        /\ b.mayRenew = c.mayRenew
    BY <1>8, <1>9, <2>2
  <2>5. b = c
    BY <2>1, <2>3, <2>4, AccountsEqual
  <2>. QED  BY <1>6, <2>5 DEF Abstract!ResetPassword
<1>11. Abstract!Step(u, a, b)
  BY <1>5, <1>10 DEF Abstract!Step
<1>. QED  BY <1>11, OneAccountSteps DEF SaveEffect

LEMMA VerifySaveSteps ==
    ASSUME RecoveryInv, NEW r \in Requests, VerifySave(r)
    PROVE  Abstract!Next
<1>. PICK u \in Users : SaveEffect(r, u, users[u], users'[u])
  BY SavesEffect DEF Save
<1>. PICK d, e : /\ d = users[u] /\ e = users'[u]
                 /\ SaveEffect(r, u, d, e)
  OBVIOUS
<1>1. pc[r] = "verifySave" /\ snap[r].v = d.v
  BY DEF VerifySave, VersionMatches, SaveEffect
<1>. DEFINE old == snap[r].emailVerificationTokens
<1>2. e = [d EXCEPT !.emailVerified = TRUE,
                    !.status = "ACTIVE",
                    !.emailVerificationTokens = SetUsed(@, Dirty(old))]
  BY DEF VerifySave, Store, SaveEffect, RecoveryInv, TypeOK
<1>3. /\ e.emailVerificationTokens = SetUsed(d.emailVerificationTokens, Dirty(old))
      /\ e.password = d.password /\ e.emailVerified = TRUE
      /\ e.resetTokens = d.resetTokens /\ e.v = d.v
  BY <1>2 DEF SaveEffect, Document
<1>4. LiveHashes(e.emailVerificationTokens) = {}
  <2>1. /\ old \in Seq(TokenEntry)
        /\ d.emailVerificationTokens \in Seq(TokenEntry)
        /\ OnlySpent(old, d.emailVerificationTokens)
        /\ Len(old) = Len(d.emailVerificationTokens)
    BY <1>1 DEF SaveEffect, Document, Behind
  <2>. QED  BY <1>3, <2>1, MarkingSpendsAll, SpentAllHashes
<1>5. IssuedLinks' = IssuedLinks
  BY <1>3, IssuedKept DEF SaveEffect
<1>. PICK a, b : /\ a = Account(u) /\ b = Account(u)'
                 /\ IsAccount(a) /\ IsAccount(b)
  BY AccountFields
<1>6. /\ r \notin a.mayReset /\ r \in a.mayVerify /\ r \notin a.mayRenew
      /\ r \notin b.mayReset /\ r \notin b.mayVerify /\ r \notin b.mayRenew
  BY <1>1 DEF Account, Entitled, SaveEffect
<1>7. /\ b.mayReset \ {r} = a.mayReset \ {r}
      /\ b.mayVerify \ {r} = a.mayVerify \ {r}
      /\ b.mayRenew \ {r} = a.mayRenew \ {r}
  BY <1>3, RightsOfOthers DEF SaveEffect
<1>8. /\ b.mayVerify = a.mayVerify \ {r}
      /\ b.mayReset = a.mayReset /\ b.mayRenew = a.mayRenew
  BY <1>6, <1>7
<1>9. /\ b.password = a.password /\ b.verified = TRUE
      /\ b.links = a.links /\ b.codes = {}
  BY <1>3, <1>4 DEF Account
<1>10. Abstract!Verify(a, b, r)
  <2>1. b = [a EXCEPT !.verified = TRUE, !.codes = {},
                      !.mayVerify = @ \ {r}]
    BY <1>8, <1>9 DEF IsAccount
  <2>. QED  BY <1>6, <2>1 DEF Abstract!Verify
<1>11. Abstract!Step(u, a, b)
  BY <1>5, <1>10 DEF Abstract!Step
<1>. QED  BY <1>11, OneAccountSteps DEF SaveEffect

LEMMA ResendSaveSteps ==
    ASSUME RecoveryInv, NEW r \in Requests, ResendPush(r) \/ ResendSet(r)
    PROVE  Abstract!Next
<1>. PICK u \in Users : SaveEffect(r, u, users[u], users'[u])
  BY SavesEffect DEF Save
<1>. PICK d, e : /\ d = users[u] /\ e = users'[u]
                 /\ SaveEffect(r, u, d, e)
  OBVIOUS
<1>. DEFINE old == snap[r].emailVerificationTokens
            code == made[r].tokenHash
<1>1. /\ pc[r] = "resendSave" /\ made[r] \in TokenEntry /\ Live(made[r])
      /\ code \in Codes
  BY DEF ResendPush, ResendSet, RecoveryInv, TypeOK, MadeNames, Pushing
<1>2. ASSUME NEW tokens, ResendSaved(r, tokens)
      PROVE  /\ e.emailVerificationTokens = tokens /\ e.v = d.v + 1
             /\ e.password = d.password /\ e.emailVerified = d.emailVerified
             /\ e.resetTokens = d.resetTokens
  <2>1. e = [d EXCEPT !.emailVerificationTokens = tokens, !.v = @ + 1]
    BY <1>2 DEF ResendSaved, Store, SaveEffect, RecoveryInv, TypeOK
  <2>. QED  BY <2>1 DEF SaveEffect, Document
<1>3. /\ e.v = d.v + 1
      /\ e.password = d.password /\ e.emailVerified = d.emailVerified
      /\ e.resetTokens = d.resetTokens
  BY <1>2 DEF ResendPush, ResendSet
<1>4. IssuedLinks' = IssuedLinks
  BY <1>3, IssuedKept DEF SaveEffect
<1>. PICK a, b : /\ a = Account(u) /\ b = Account(u)'
                 /\ IsAccount(a) /\ IsAccount(b)
  BY AccountFields
<1>5. b.mayReset = {} /\ b.mayVerify = {} /\ b.mayRenew = {}
  BY <1>3, RightsRevoked DEF RecoveryInv, SaveEffect
<1>6. /\ b.password = a.password /\ b.verified = a.verified
      /\ b.links = a.links
      /\ a.codes = LiveHashes(d.emailVerificationTokens)
      /\ b.codes = LiveHashes(e.emailVerificationTokens)
  BY <1>3 DEF Account
<1>7. CASE ResendPush(r)
  <2>1. /\ e.emailVerificationTokens = Append(d.emailVerificationTokens, made[r])
        /\ Dirty(old) = {}
    BY <1>2, <1>7 DEF ResendPush, SaveEffect
  <2>2. u \in Imported
    BY <1>1, <2>1 DEF RecoveryInv, LiveUntilVerified, SaveEffect
  <2>3. d.emailVerificationTokens \in Seq(TokenEntry)
    BY DEF SaveEffect, Document
  <2>4. b.codes = a.codes \cup {code}
    BY <1>1, <1>6, <2>1, <2>3, PushedHashes
  <2>5. Abstract!AddCode(a, b)
    <3>1. b = [Abstract!Revoked(a) EXCEPT !.codes = @ \cup {code}]
      BY <1>5, <1>6, <2>4 DEF IsAccount, Abstract!Revoked
    <3>. QED  BY <1>1, <3>1 DEF Abstract!AddCode
  <2>6. Abstract!Step(u, a, b)
    BY <1>4, <2>2, <2>5 DEF Abstract!Step
  <2>. QED  BY <2>6, OneAccountSteps DEF SaveEffect
<1>8. CASE ResendSet(r)
  <2>. DEFINE spent == SetUsed(old, Dirty(old))
  <2>1. /\ e.emailVerificationTokens = Append(spent, made[r])
        /\ Dirty(old) # {} /\ snap[r].v = d.v
    BY <1>2, <1>8 DEF ResendSet, VersionMatches, SaveEffect
  <2>2. old \in Seq(TokenEntry)
    BY DEF SaveEffect, Document
  <2>3. Dirty(spent) = {}
    BY <2>2, OnlySpentReflexive, MarkingSpendsAll
  <2>4. b.codes = {code}
    <3>1. spent \in Seq(TokenEntry)
      BY <2>2, SetUsedProperties
    <3>. HIDE DEF spent
    <3>. QED  BY <1>1, <1>6, <2>1, <2>3, <3>1, PushedHashes, SpentAllHashes
  <2>5. r \in a.mayRenew
    BY <1>1, <2>1 DEF Account, Entitled, SaveEffect
  <2>6. Abstract!RenewCode(a, b, r)
    <3>1. b = [Abstract!Revoked(a) EXCEPT !.codes = {code}]
      BY <1>5, <1>6, <2>4 DEF IsAccount, Abstract!Revoked
    <3>. QED  BY <1>1, <2>5, <3>1 DEF Abstract!RenewCode
  <2>7. Abstract!Step(u, a, b)
    BY <1>4, <2>6 DEF Abstract!Step
  <2>. QED  BY <2>7, OneAccountSteps DEF SaveEffect
<1>. QED  BY <1>7, <1>8

LEMMA LoginSaveSteps ==
    ASSUME RecoveryInv, NEW r \in Requests, LoginSave(r)
    PROVE  UNCHANGED Abstract!vars
<1>. PICK u \in Users : SaveEffect(r, u, users[u], users'[u])
  BY SavesEffect DEF Save
<1>. PICK d, e : /\ d = users[u] /\ e = users'[u]
                 /\ SaveEffect(r, u, d, e)
  OBVIOUS
<1>1. e = [d EXCEPT !.lastLogin = TRUE]
  BY DEF LoginSave, Store, SaveEffect, RecoveryInv, TypeOK
<1>2. /\ e.password = d.password /\ e.emailVerified = d.emailVerified
      /\ e.emailVerificationTokens = d.emailVerificationTokens
      /\ e.resetTokens = d.resetTokens /\ e.v = d.v
  BY <1>1 DEF SaveEffect, Document
<1>3. IssuedLinks' = IssuedLinks
  BY <1>2, IssuedKept DEF SaveEffect
<1>. PICK a, b : /\ a = Account(u) /\ b = Account(u)'
                 /\ IsAccount(a) /\ IsAccount(b)
  BY AccountFields
<1>4. /\ r \notin a.mayReset /\ r \notin a.mayVerify /\ r \notin a.mayRenew
      /\ r \notin b.mayReset /\ r \notin b.mayVerify /\ r \notin b.mayRenew
  BY RightsOfRequest DEF LoginSave, SaveEffect
<1>5. /\ b.mayReset \ {r} = a.mayReset \ {r}
      /\ b.mayVerify \ {r} = a.mayVerify \ {r}
      /\ b.mayRenew \ {r} = a.mayRenew \ {r}
  BY <1>2, RightsOfOthers DEF SaveEffect
<1>6. /\ b.mayReset = a.mayReset /\ b.mayVerify = a.mayVerify
      /\ b.mayRenew = a.mayRenew
  BY <1>4, <1>5
<1>7. /\ b.password = a.password /\ b.verified = a.verified
      /\ b.links = a.links /\ b.codes = a.codes
  BY <1>2 DEF Account
<1>8. b = a
  BY <1>6, <1>7, AccountsEqual
<1>. QED  BY <1>3, <1>8, NothingSteps DEF SaveEffect
----------------------------------------------------------------------------
\* An account starts with the code of its registration, or with nothing.
LEMMA InitRefines == Init => Abstract!Init
<1>. SUFFICES ASSUME Init PROVE Abstract!Init
  OBVIOUS
<1>1. ASSUME NEW u \in Users
      PROVE  /\ Account(u).links = {} /\ Account(u).mayReset = {}
             /\ Account(u).mayVerify = {} /\ Account(u).mayRenew = {}
             /\ ~Account(u).verified
             /\ users[u].resetTokens = <<>>
             /\ IF u \in Imported
                THEN Account(u).password = None /\ Account(u).codes = {}
                ELSE /\ Account(u).password = "registered"
                     /\ \E c \in Codes : Account(u).codes = {c}
  <2>1. \A q \in Requests : pc[q] = "idle"
    BY DEF Init
  <2>2. users[u] \in InitialDocuments(u)
    BY DEF Init
  <2>3. LiveHashes(<<>>) = {}
    BY DEF LiveHashes, Dirty
  <2>4. ASSUME NEW c \in Codes
        PROVE  LiveHashes(<<Entry(c, VerificationTTL)>>) = {c}
    BY DEF LiveHashes, Dirty, Entry, Live
  <2>. QED  BY <2>1, <2>2, <2>3, <2>4 DEF Account, Entitled, InitialDocuments,
               RegisteredDocument, ImportedDocument
<1>2. IssuedLinks = {}
  <2>1. ASSUME NEW w \in Users, NEW q PROVE ~Holds(users[w].resetTokens, q)
    BY <1>1 DEF Holds
  <2>. QED  BY <2>1 DEF IssuedLinks
<1>3. ASSUME NEW u \in Users
      PROVE  IF u \in Imported
             THEN Account(u) = Abstract!New(None, {})
             ELSE \E c \in Codes : Account(u) = Abstract!New("registered", {c})
  <2>. PICK a : a = Account(u) /\ IsAccount(a)
    BY AccountFields
  <2>. QED  BY <1>1 DEF IsAccount, Abstract!New
<1>4. \A u \in Users : Account(u) \in Abstract!Account
  <2>1. /\ Abstract!New(None, {}) \in Abstract!Account
        /\ \A c \in Codes : Abstract!New("registered", {c}) \in Abstract!Account
    BY DEF Abstract!New, Abstract!Account
  <2>. QED  BY <1>3, <2>1
<1>. QED  BY <1>2, <1>3, <1>4 DEF Abstract!Init

LEMMA NextRefines == RecoveryInv /\ [Next]_vars => [Abstract!Next]_(Abstract!vars)
<1>. SUFFICES ASSUME RecoveryInv, [Next]_vars
              PROVE  [Abstract!Next]_(Abstract!vars)
  OBVIOUS
<1>1. ASSUME NEW r \in Requests, Save(r)
      PROVE  [Abstract!Next]_(Abstract!vars)
  BY <1>1, ForgotSaveSteps, ResetSaveSteps, VerifySaveSteps, ResendSaveSteps,
     LoginSaveSteps DEF Save
<1>2. CASE UNCHANGED <<users, pc, target, snap, made>>
  <2>1. \A w \in Users : Account(w)' = Account(w)
    BY <1>2 DEF Account, Entitled
  <2>2. IssuedLinks' = IssuedLinks
    BY <1>2, IssuedKept
  <2>. QED  BY <2>1, <2>2, NothingSteps
<1>. QED  BY <1>1, <1>2, NextShape, AnsweredSteps, LoadsSteps DEF RecoveryInv

\* The operations of AuthService, with their loads and saves interleaved, amount
\* to operations that each happen at once on one account: every behaviour of
\* auth.service.ts is, through Account and IssuedLinks, one of Recovery.
THEOREM RecoveryRefined == Spec => RecoveryImplemented
<1>1. Init => Abstract!Init
  BY InitRefines
<1>2. RecoveryInv /\ [Next]_vars => [Abstract!Next]_(Abstract!vars)
  BY NextRefines
<1>. QED  BY <1>1, <1>2, RecoveryInvariance, PTL
          DEF Spec, RecoveryImplemented, Abstract!Spec
=============================================================================
