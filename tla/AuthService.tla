---------------------------- MODULE AuthService ----------------------------
(***************************************************************************)
(* The account-recovery half of src/src/auth/auth.service.ts: the five     *)
(* operations that work on a user document that already exists             *)
(* (forgotPassword, resetPassword, verifyEmail, resendVerification and     *)
(* login), run by any number of requests that interleave at every await.   *)
(*                                                                         *)
(* Each operation is a findOne, some synchronous work on the document it   *)
(* returned, and a save().  Between the two another request may save the   *)
(* same document, so a request carries the document as it loaded it        *)
(* (snap) until its save.  A save does not write the document back.        *)
(* Mongoose sends the modified paths only, and decides from the shape of   *)
(* the modification of an array whether the update is also filtered by,    *)
(* and whether it increments, the version key __v:                         *)
(*   $push of an element             not filtered,   increments            *)
(*   $set of one element's field     filtered,       does not increment    *)
(*   $set of the whole array         filtered,       increments            *)
(*   $set of ordinary fields         not filtered,   does not increment    *)
(* A filtered update that matches nothing is a VersionError.               *)
(***************************************************************************)
EXTENDS Naturals, Sequences

CONSTANTS
    Users,              \* the user documents, one per lowercased e-mail
    Imported,           \* those that were migrated without a password
    Requests,           \* the HTTP requests
    Codes,              \* the values of the 6-digit verification code
    ResetTTL,           \* life of a reset token (1 hour)
    VerificationTTL,    \* life of a verification code (24 hours)
    MaxTime,            \* bound on the clock
    None                \* null; an e-mail or a token nobody has

ASSUME ImportedAssumption == Imported \subseteq Users
ASSUME RequestsAssumption == {"registered", None} \cap Requests = {}
ASSUME TimeAssumption ==
    /\ ResetTTL \in Nat
    /\ VerificationTTL \in Nat
    /\ MaxTime \in Nat

VARIABLES
    users,      \* users[u]: the stored document of u
    pc,         \* pc[r]: the await that request r stands at
    target,     \* target[r]: the user whose document r loaded
    snap,       \* snap[r]: the document as r loaded it
    arg,        \* arg[r]: the token or code r was given
    made,       \* made[r]: the token entry r generated
    reply,      \* reply[r]: how r was answered
    mailbox,    \* the e-mails delivered: <<user, token or code>>
    now         \* the clock

vars == <<users, pc, target, snap, arg, made, reply, mailbox, now>>
----------------------------------------------------------------------------
(* The document (src/src/schemas/user.schema.ts).                          *)

\* A password stands for the request that set it; 32 random bytes never
\* repeat, so a reset token stands for the forgotPassword that made it.
Password == Requests \cup {"registered", None}
Token == Requests \cup Codes
TokenEntry == [tokenHash : Token, expiresAt : Nat, used : BOOLEAN]

Document ==
    [password : Password,
     status : {"ACTIVE", "SUSPENDED", "PENDING"},
     lastLogin : BOOLEAN,                   \* lastLoginAt is not null
     emailVerified : BOOLEAN,               \* emailVerifiedAt is not null
     resetTokens : Seq(TokenEntry),
     emailVerificationTokens : Seq(TokenEntry),
     v : Nat]                               \* __v

Entry(hash, expiresAt) ==
    [tokenHash |-> hash, expiresAt |-> expiresAt, used |-> FALSE]

\* What register leaves behind: PENDING, with one live verification code.
RegisteredDocument(code) ==
    [password |-> "registered", status |-> "PENDING", lastLogin |-> FALSE,
     emailVerified |-> FALSE, resetTokens |-> <<>>,
     emailVerificationTokens |-> <<Entry(code, VerificationTTL)>>, v |-> 0]

\* A migrated account: no password yet, no token of either kind.
ImportedDocument ==
    [password |-> None, status |-> "ACTIVE", lastLogin |-> FALSE,
     emailVerified |-> FALSE, resetTokens |-> <<>>,
     emailVerificationTokens |-> <<>>, v |-> 0]

InitialDocuments(u) ==
    IF u \in Imported THEN {ImportedDocument}
                      ELSE {RegisteredDocument(c) : c \in Codes}
----------------------------------------------------------------------------
(* Token arrays.                                                           *)

Live(entry) == ~entry.used

\* The elements whose `used' an assignment of true really modifies.
Dirty(tokens) == {i \in DOMAIN tokens : Live(tokens[i])}

SetUsed(tokens, indexes) ==
    [i \in DOMAIN tokens |->
        IF i \in indexes THEN [tokens[i] EXCEPT !.used = TRUE] ELSE tokens[i]]

\* The first entry with this hash, which is what Array.find returns.
IsFirst(tokens, hash, i) ==
    /\ i \in DOMAIN tokens
    /\ tokens[i].tokenHash = hash
    /\ \A j \in DOMAIN tokens : j < i => tokens[j].tokenHash # hash

\* The entry that find returns is neither used nor expired.
Redeemable(tokens, hash) ==
    \E i \in DOMAIN tokens : /\ IsFirst(tokens, hash, i)
                             /\ Live(tokens[i])
                             /\ now <= tokens[i].expiresAt

Holds(tokens, hash) == \E i \in DOMAIN tokens : tokens[i].tokenHash = hash
----------------------------------------------------------------------------
\* What register mailed, where the mail got through.
RegistrationMails(docs) ==
    {<<u, docs[u].emailVerificationTokens[1].tokenHash>> : u \in Users \ Imported}

Init ==
    /\ users \in {d \in [Users -> UNION {InitialDocuments(u) : u \in Users}] :
                    \A u \in Users : d[u] \in InitialDocuments(u)}
    /\ pc = [r \in Requests |-> "idle"]
    /\ target = [r \in Requests |-> None]
    /\ snap = [r \in Requests |-> None]
    /\ arg = [r \in Requests |-> None]
    /\ made = [r \in Requests |-> None]
    /\ reply = [r \in Requests |-> None]
    /\ mailbox \in SUBSET RegistrationMails(users)
    /\ now = 0

(* The parts the operations share.                                         *)

\* r answers and is over; what it loaded and generated is garbage.
Answer(r, with) ==
    /\ pc' = [pc EXCEPT ![r] = "done"]
    /\ reply' = [reply EXCEPT ![r] = with]
    /\ snap' = [snap EXCEPT ![r] = None]
    /\ made' = [made EXCEPT ![r] = None]

\* r, given the token `given', is answered before it wrote anything.
Refuse(r, given, with) ==
    /\ pc[r] = "idle"
    /\ Answer(r, with)
    /\ arg' = [arg EXCEPT ![r] = given]
    /\ UNCHANGED <<users, target, mailbox, now>>

\* r loaded u's document, changed it in memory and awaits its save.  It was
\* given the token `given', and generated `entry'.
Load(r, u, given, entry, next) ==
    /\ pc[r] = "idle"
    /\ pc' = [pc EXCEPT ![r] = next]
    /\ target' = [target EXCEPT ![r] = u]
    /\ snap' = [snap EXCEPT ![r] = users[u]]
    /\ arg' = [arg EXCEPT ![r] = given]
    /\ made' = [made EXCEPT ![r] = entry]
    /\ UNCHANGED <<users, reply, mailbox, now>>

\* Mutant: the schema is declared with versionKey: false.
VersionUnchecked(r) == TRUE

\* The version filter of an update.
VersionMatches(r) == users[target[r]].v = snap[r].v

\* The save of r was filtered by the version it loaded, and matched nothing.
VersionError(r, at) ==
    /\ pc[r] = at
    /\ ~VersionMatches(r)
    /\ Answer(r, "conflict")
    /\ UNCHANGED <<users, target, arg, mailbox, now>>

\* The save of r has changed the document of its user to doc.
Store(r, doc) == users' = [users EXCEPT ![target[r]] = doc]

\* The save of r has changed the document of its user to doc; r goes on to
\* send its mail, or is answered.
SaveAndGoOn(r, doc, next) ==
    /\ Store(r, doc)
    /\ pc' = [pc EXCEPT ![r] = next]
    /\ snap' = [snap EXCEPT ![r] = None]
    /\ UNCHANGED <<target, arg, made, reply, mailbox, now>>

SaveAndAnswer(r, doc, with) ==
    /\ Store(r, doc)
    /\ Answer(r, with)
    /\ UNCHANGED <<target, arg, mailbox, now>>

\* After its save, r sends what it generated; a failure is swallowed.
SendMail(r, at) ==
    /\ pc[r] = at
    /\ \/ mailbox' = mailbox \cup {<<target[r], made[r].tokenHash>>}
       \/ UNCHANGED mailbox
    /\ Answer(r, "sent")
    /\ UNCHANGED <<users, target, arg, now>>

\* The database fails under r, or the process dies.
Abort(r) ==
    /\ pc[r] \notin {"idle", "done"}
    /\ Answer(r, "error")
    /\ UNCHANGED <<users, target, arg, mailbox, now>>
----------------------------------------------------------------------------
(* forgotPassword                                                          *)

ForgotUnknown(r) == Refuse(r, None, "sent")

ForgotLoad(r) ==
    \E u \in Users : Load(r, u, None, Entry(r, now + ResetTTL), "forgotSave")

\* Mutant: the array is written back as it was loaded, with the new entry.
ForgotSaveArray(r) ==
    /\ pc[r] = "forgotSave"
    /\ SaveAndGoOn(r, [users[target[r]] EXCEPT
                         !.resetTokens = Append(snap[r].resetTokens, made[r]),
                         !.v = @ + 1], "forgotMail")

\* Mutant: the $push leaves the version alone.
ForgotSaveSilent(r) ==
    /\ pc[r] = "forgotSave"
    /\ SaveAndGoOn(r, [users[target[r]] EXCEPT
                         !.resetTokens = Append(@, made[r])], "forgotMail")

\* A $push: not filtered, so it applies to the document as it is by now.
ForgotSave(r) ==
    /\ pc[r] = "forgotSave"
    /\ SaveAndGoOn(r, [users[target[r]] EXCEPT
                         !.resetTokens = Append(@, made[r]),
                         !.v = @ + 1], "forgotMail")

ForgotMail(r) == SendMail(r, "forgotMail")
----------------------------------------------------------------------------
(* resetPassword                                                           *)

\* The tokens a client can present: the mailed ones, and one of no user.
Presented == {m[2] : m \in mailbox} \cup {None}

\* No document holds the token, or the entry found is used or expired.
ResetRefused(r) ==
    \E t \in Presented :
        /\ \/ \A u \in Users : ~Holds(users[u].resetTokens, t)
           \/ \E u \in Users : /\ Holds(users[u].resetTokens, t)
                               /\ ~Redeemable(users[u].resetTokens, t)
        /\ Refuse(r, t, "badToken")

\* The await is the bcrypt hash of the new password, then the save.
ResetLoad(r) ==
    \E t \in Presented, u \in Users :
        /\ Redeemable(users[u].resetTokens, t)
        /\ Load(r, u, t, None, "resetSave")

\* A $set of `used' in the elements that were live when loaded: filtered.
ResetSave(r) ==
    /\ pc[r] = "resetSave"
    /\ VersionMatches(r)
    /\ SaveAndAnswer(r, [users[target[r]] EXCEPT
                           !.password = r,
                           !.resetTokens =
                               SetUsed(@, Dirty(snap[r].resetTokens))], "reset")

ResetConflict(r) == VersionError(r, "resetSave")
----------------------------------------------------------------------------
(* verifyEmail                                                             *)

\* The code is short and not tied to an e-mail: any code may be presented, and
\* the document found is any one that holds it.
VerifyRefused(r) ==
    \E c \in Codes :
        /\ \/ \A u \in Users : ~Holds(users[u].emailVerificationTokens, c)
           \/ \E u \in Users :
                 /\ Holds(users[u].emailVerificationTokens, c)
                 /\ ~users[u].emailVerified
                 /\ ~Redeemable(users[u].emailVerificationTokens, c)
        /\ Refuse(r, c, "badCode")

VerifyAgain(r) ==
    \E c \in Codes, u \in Users :
        /\ Holds(users[u].emailVerificationTokens, c)
        /\ users[u].emailVerified
        /\ Refuse(r, c, "already")

VerifyLoad(r) ==
    \E c \in Codes, u \in Users :
        /\ ~users[u].emailVerified
        /\ Redeemable(users[u].emailVerificationTokens, c)
        /\ Load(r, u, c, None, "verifySave")

\* Mutant: a status that the schema's enum does not have.
VerifiedStatus(r, doc) ==
    [doc EXCEPT !.emailVerified = TRUE, !.status = "VERIFIED"]

\* What the operation makes of a document.
Verified(r, doc) ==
    [doc EXCEPT !.emailVerified = TRUE,
                !.status = "ACTIVE",
                !.emailVerificationTokens =
                    SetUsed(@, Dirty(snap[r].emailVerificationTokens))]

\* Mutant: every save increments the version (optimisticConcurrency).
VerifySaveIncrement(r) ==
    /\ pc[r] = "verifySave"
    /\ VersionMatches(r)
    /\ SaveAndAnswer(r, [Verified(r, users[target[r]]) EXCEPT !.v = @ + 1],
                     "verified")

\* A $set of ordinary fields and of elements' `used': filtered.
VerifySave(r) ==
    /\ pc[r] = "verifySave"
    /\ VersionMatches(r)
    /\ SaveAndAnswer(r, Verified(r, users[target[r]]), "verified")

VerifyConflict(r) == VersionError(r, "verifySave")
----------------------------------------------------------------------------
(* resendVerification                                                      *)

ResendUnknown(r) == Refuse(r, None, "sent")

ResendVerified(r) ==
    /\ \E u \in Users : users[u].emailVerified
    /\ Refuse(r, None, "already")

ResendLoad(r) ==
    \E u \in Users, c \in Codes :
        /\ ~users[u].emailVerified
        /\ Load(r, u, None, Entry(c, now + VerificationTTL), "resendSave")

\* Mutant: the whole document is replaced by the one in memory.
ResendReplaced(r, tokens) ==
    SaveAndGoOn(r, [snap[r] EXCEPT !.emailVerificationTokens = tokens,
                                   !.v = @ + 1], "resendMail")

ResendSaved(r, tokens) ==
    SaveAndGoOn(r, [users[target[r]] EXCEPT
                      !.emailVerificationTokens = tokens,
                      !.v = @ + 1], "resendMail")

\* The document loaded had no live code to mark, so the only modification is
\* the new element: a $push, not filtered.
ResendPush(r) ==
    /\ pc[r] = "resendSave"
    /\ Dirty(snap[r].emailVerificationTokens) = {}
    /\ ResendSaved(r, Append(users[target[r]].emailVerificationTokens, made[r]))

\* Mutant: the array in memory is written back whatever the version.
ResendSetUnfiltered(r) ==
    LET tokens == snap[r].emailVerificationTokens IN
    /\ pc[r] = "resendSave"
    /\ Dirty(tokens) # {}
    /\ ResendSaved(r, Append(SetUsed(tokens, Dirty(tokens)), made[r]))

\* Mutant: the marks and the new element are sent apart, none filtered.
ResendSetApart(r) ==
    LET tokens == snap[r].emailVerificationTokens IN
    /\ pc[r] = "resendSave"
    /\ Dirty(tokens) # {}
    /\ ResendSaved(r, Append(SetUsed(users[target[r]].emailVerificationTokens,
                                     Dirty(tokens)), made[r]))

\* Elements were marked and one was pushed: a $set of the whole array as it is
\* in memory, filtered.
ResendSet(r) ==
    LET tokens == snap[r].emailVerificationTokens IN
    /\ pc[r] = "resendSave"
    /\ Dirty(tokens) # {}
    /\ VersionMatches(r)
    /\ ResendSaved(r, Append(SetUsed(tokens, Dirty(tokens)), made[r]))

ResendConflict(r) ==
    /\ pc[r] = "resendSave"
    /\ Dirty(snap[r].emailVerificationTokens) # {}
    /\ VersionError(r, "resendSave")

ResendMail(r) == SendMail(r, "resendMail")
----------------------------------------------------------------------------
(* login                                                                   *)

\* No such e-mail, an account that is not ACTIVE, or a wrong password.
LoginDenied(r) == Refuse(r, None, "denied")

\* An account without a password must go through forgotPassword first.
LoginResetRequired(r) ==
    /\ \E u \in Users : users[u].password = None
    /\ Refuse(r, None, "resetRequired")

\* The password presented is the one the document loaded holds.
LoginLoad(r) ==
    \E u \in Users :
        /\ users[u].password # None
        /\ users[u].status = "ACTIVE"
        /\ Load(r, u, None, None, "loginSave")

\* A $set of an ordinary field: not filtered.
LoginSave(r) ==
    /\ pc[r] = "loginSave"
    /\ SaveAndAnswer(r, [users[target[r]] EXCEPT !.lastLogin = TRUE], "tokens")
----------------------------------------------------------------------------
Tick ==
    /\ now < MaxTime
    /\ now' = now + 1
    /\ UNCHANGED <<users, pc, target, snap, arg, made, reply, mailbox>>

Forgot(r) == ForgotUnknown(r) \/ ForgotLoad(r) \/ ForgotSave(r) \/ ForgotMail(r)

Reset(r) == ResetRefused(r) \/ ResetLoad(r) \/ ResetSave(r) \/ ResetConflict(r)

Verify(r) ==
    \/ VerifyRefused(r) \/ VerifyAgain(r)
    \/ VerifyLoad(r) \/ VerifySave(r) \/ VerifyConflict(r)

Resend(r) ==
    \/ ResendUnknown(r) \/ ResendVerified(r) \/ ResendLoad(r)
    \/ ResendPush(r) \/ ResendSet(r) \/ ResendConflict(r) \/ ResendMail(r)

Login(r) ==
    LoginDenied(r) \/ LoginResetRequired(r) \/ LoginLoad(r) \/ LoginSave(r)

Next ==
    \/ \E r \in Requests :
          Forgot(r) \/ Reset(r) \/ Verify(r) \/ Resend(r) \/ Login(r) \/ Abort(r)
    \/ Tick

Spec == Init /\ [][Next]_vars
----------------------------------------------------------------------------
(* Properties.                                                             *)

Reply == {"sent", "badToken", "badCode", "already", "denied", "resetRequired",
          "reset", "verified", "tokens", "conflict", "error"}

ASSUME NoneAssumption == None \notin Reply

Saving == {"forgotSave", "resetSave", "verifySave", "resendSave", "loginSave"}
Mailing == {"forgotMail", "resendMail"}
Pushing == {"forgotSave", "resendSave"} \cup Mailing

\* The stored documents keep to the schema, and every request that awaits
\* something holds what it will need then.
TypeOK ==
    /\ users \in [Users -> Document]
    /\ pc \in [Requests -> {"idle", "done"} \cup Saving \cup Mailing]
    /\ target \in [Requests -> Users \cup {None}]
    /\ snap \in [Requests -> Document \cup {None}]
    /\ arg \in [Requests -> Token \cup {None}]
    /\ made \in [Requests -> TokenEntry \cup {None}]
    /\ reply \in [Requests -> Reply \cup {None}]
    /\ mailbox \subseteq Users \X Token
    /\ now \in Nat
    /\ \A r \in Requests :
          /\ pc[r] \in Saving \cup Mailing => target[r] \in Users
          /\ pc[r] \in Saving => snap[r] \in Document
          /\ pc[r] \in Pushing => made[r] \in TokenEntry /\ Live(made[r])

\* One array of tokens may follow the other: entries are only added at the
\* end, and an entry only ever changes from live to used.
OnlySpent(old, new) ==
    /\ Len(old) <= Len(new)
    /\ \A i \in DOMAIN old : /\ new[i].tokenHash = old[i].tokenHash
                             /\ new[i].expiresAt = old[i].expiresAt
                             /\ old[i].used => new[i].used

\* However the saves of two requests on one document interleave, no save loses
\* a token that another one added and none brings a used token back to life.
TokensOnlySpent ==
    [][\A u \in Users :
          /\ OnlySpent(users[u].resetTokens, users'[u].resetTokens)
          /\ OnlySpent(users[u].emailVerificationTokens,
                       users'[u].emailVerificationTokens)]_vars

\* resetPassword, "Invalidate ALL existing reset tokens for that user": the
\* step that changes a password leaves no live reset token, not even one that
\* a concurrent forgotPassword added after resetPassword loaded the document;
\* and nothing but a password change spends a reset token.
ResetSpendsEveryToken ==
    [][\A u \in Users :
          IF users'[u].password # users[u].password
          THEN Dirty(users'[u].resetTokens) = {}
          ELSE Dirty(users[u].resetTokens) \subseteq
               Dirty(users'[u].resetTokens)]_vars

\* The document new may follow the document old; the version tells whether an
\* array has grown.
Behind(old, new) ==
    /\ old.v <= new.v
    /\ OnlySpent(old.resetTokens, new.resetTokens)
    /\ OnlySpent(old.emailVerificationTokens, new.emailVerificationTokens)
    /\ old.v = new.v =>
          /\ Len(old.resetTokens) = Len(new.resetTokens)
          /\ Len(old.emailVerificationTokens) =
                Len(new.emailVerificationTokens)

\* What a request loaded is never ahead of what is stored, and if the version
\* is still the same no token was added since: a save that passes the version
\* filter overlooks none.
SnapshotBehind ==
    \A r \in Requests :
        pc[r] \in Saving => Behind(snap[r], users[target[r]])

\* A link or code in somebody's mailbox is in the document it was made for: it
\* was saved before it was mailed and no later save dropped it.
MailedTokensStored ==
    \A m \in mailbox :
        \/ Holds(users[m[1]].resetTokens, m[2])
        \/ Holds(users[m[1]].emailVerificationTokens, m[2])

\* resendVerification, "Invalidate all prior verification tokens": an account
\* that register made has at most one code that works, even if several
\* resends and a verifyEmail ran at once.
AtMostOneLiveCode ==
    \A u \in Users \ Imported :
        \A i, j \in Dirty(users[u].emailVerificationTokens) : i = j

\* Who logged in and got tokens has verified the e-mail, or was migrated; no
\* later save of a request that loaded the unverified document undoes it.
LoginNeedsVerifiedEmail ==
    \A r \in Requests :
        reply[r] = "tokens" =>
            \/ target[r] \in Imported
            \/ /\ users[target[r]].emailVerified
               /\ users[target[r]].status = "ACTIVE"

\* A version conflict (a 500 for the client) has a cause: another request's
\* forgotPassword or resendVerification got its token into the same document.
\* Two resets, two verifications or a login never fail one another.
ConflictNeedsPush ==
    \A r \in Requests :
        reply[r] = "conflict" =>
            \E q \in Requests \ {r} :
                /\ target[q] = target[r]
                /\ \/ pc[q] \in {"forgotMail", "resendMail"}
                   \/ reply[q] \in {"sent", "error"}

\* forgotPassword, "Generate single-use, time-limited reset token": no token is
\* redeemed by two requests.
SingleUse ==
    \A r, q \in Requests :
        reply[r] = "reset" /\ reply[q] = "reset" /\ arg[r] = arg[q] => r = q

\* verifyEmail, given a code that was mailed to u, that is live in u's document
\* and not expired, does not refuse it while u is not verified.
ValidCodeIsAccepted ==
    [][\A r \in Requests, u \in Users :
          LET tokens == users[u].emailVerificationTokens IN
          ( /\ pc[r] = "idle"
            /\ reply'[r] \in {"badCode", "already"}
            /\ <<u, arg'[r]>> \in mailbox
            /\ ~users[u].emailVerified )
          => ~\E i \in Dirty(tokens) : /\ tokens[i].tokenHash = arg'[r]
                                       /\ now <= tokens[i].expiresAt]_vars
----------------------------------------------------------------------------
(* The refinement of Recovery.                                             *)

LiveHashes(tokens) == {tokens[i].tokenHash : i \in Dirty(tokens)}

\* The requests on u that await their save at `at', and will pass its filter.
Entitled(u, at) ==
    {r \in Requests : pc[r] = at /\ target[r] = u /\ snap[r].v = users[u].v}

\* The account of u that its document and the requests amount to.
Account(u) ==
    [password |-> users[u].password,
     verified |-> users[u].emailVerified,
     links |-> LiveHashes(users[u].resetTokens),
     codes |-> LiveHashes(users[u].emailVerificationTokens),
     mayReset |-> Entitled(u, "resetSave"),
     mayVerify |-> Entitled(u, "verifySave"),
     mayRenew |->
        {r \in Entitled(u, "resendSave") :
            Dirty(snap[r].emailVerificationTokens) # {}}]

IssuedLinks ==
    {r \in Requests : \E u \in Users : Holds(users[u].resetTokens, r)}

Abstract == INSTANCE Recovery WITH
                accounts <- [u \in Users |-> Account(u)],
                issued <- IssuedLinks

\* The comments of forgotPassword, resetPassword and resendVerification taken
\* together: loads, slow hashes, saves and version filters amount to operations
\* that happen at once on an account.  Links are new, a password is set by who
\* saw a live link with none issued since, and then all are dead; a new code
\* replaces the others, and no save undoes what another one did.
RecoveryImplemented == Abstract!Spec
=============================================================================
