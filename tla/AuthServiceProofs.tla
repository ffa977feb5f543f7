------------------------- MODULE AuthServiceProofs -------------------------
(***************************************************************************)
(* Theorems about AuthService, for every set of users, requests and codes  *)
(* and every life of the tokens.                                           *)
(***************************************************************************)
EXTENDS AuthService, TLAPS

USE DEF SaveAndGoOn, SaveAndAnswer, Verified

----------------------------------------------------------------------------
(* Token arrays.                                                           *)

\* Marking entries keeps an array's length, hashes and expiries, and marks.
LEMMA SetUsedProperties ==
    ASSUME NEW s \in Seq(TokenEntry), NEW I
    PROVE  /\ SetUsed(s, I) \in Seq(TokenEntry)
           /\ Len(SetUsed(s, I)) = Len(s)
           /\ OnlySpent(s, SetUsed(s, I))
           /\ \A i \in DOMAIN s : i \in I => SetUsed(s, I)[i].used
           /\ \A i \in DOMAIN s : i \notin I => SetUsed(s, I)[i] = s[i]
<1>1. /\ Len(s) \in Nat
      /\ DOMAIN s = 1..Len(s)
      /\ \A i \in DOMAIN s : s[i] \in TokenEntry
  OBVIOUS
<1>2. /\ DOMAIN SetUsed(s, I) = 1..Len(s)
      /\ \A i \in DOMAIN s : SetUsed(s, I)[i] =
            IF i \in I THEN [s[i] EXCEPT !.used = TRUE] ELSE s[i]
  BY <1>1 DEF SetUsed
<1>3. \A i \in DOMAIN s : /\ SetUsed(s, I)[i] \in TokenEntry
                          /\ SetUsed(s, I)[i].tokenHash = s[i].tokenHash
                          /\ SetUsed(s, I)[i].expiresAt = s[i].expiresAt
                          /\ s[i].used => SetUsed(s, I)[i].used
                          /\ i \in I => SetUsed(s, I)[i].used
  BY <1>1, <1>2 DEF TokenEntry
<1>4. SetUsed(s, I) \in Seq(TokenEntry) /\ Len(SetUsed(s, I)) = Len(s)
  <2>1. SetUsed(s, I) \in [1..Len(s) -> TokenEntry]
    BY <1>1, <1>2, <1>3 DEF SetUsed
  <2>. QED  BY <1>1, <2>1
<1>. QED  BY <1>1, <1>2, <1>3, <1>4 DEF OnlySpent

\* Pushing an entry keeps what is there.
LEMMA PushProperties ==
    ASSUME NEW s \in Seq(TokenEntry), NEW e \in TokenEntry
    PROVE  /\ Append(s, e) \in Seq(TokenEntry)
           /\ Len(Append(s, e)) = Len(s) + 1
           /\ OnlySpent(s, Append(s, e))
  BY DEF OnlySpent

LEMMA OnlySpentReflexive ==
    ASSUME NEW s \in Seq(TokenEntry)
    PROVE  OnlySpent(s, s)
  BY DEF OnlySpent

LEMMA OnlySpentTransitive ==
    ASSUME NEW s \in Seq(TokenEntry), NEW t \in Seq(TokenEntry),
           NEW w \in Seq(TokenEntry),
           OnlySpent(s, t), OnlySpent(t, w)
    PROVE  OnlySpent(s, w)
  BY DEF OnlySpent, TokenEntry

LEMMA BehindReflexive ==
    ASSUME NEW d \in Document
    PROVE  Behind(d, d)
  BY OnlySpentReflexive DEF Behind, Document

LEMMA BehindTransitive ==
    ASSUME NEW d \in Document, NEW e \in Document, NEW f \in Document,
           Behind(d, e), Behind(e, f)
    PROVE  Behind(d, f)
<1>1. /\ OnlySpent(d.resetTokens, f.resetTokens)
      /\ OnlySpent(d.emailVerificationTokens, f.emailVerificationTokens)
  BY OnlySpentTransitive DEF Behind, Document
<1>. QED  BY <1>1 DEF Behind, Document
----------------------------------------------------------------------------
(* What each save leaves is a document, and the one it replaces is behind  *)
(* it.                                                                     *)

\* forgotPassword pushes an entry.
LEMMA ForgotDocument ==
    ASSUME NEW d \in Document, NEW e \in TokenEntry, NEW f,
           f = [d EXCEPT !.resetTokens = Append(@, e), !.v = @ + 1]
    PROVE  f \in Document /\ Behind(d, f)
<1>1. /\ d.resetTokens \in Seq(TokenEntry)
      /\ d.emailVerificationTokens \in Seq(TokenEntry)
      /\ d.v \in Nat
  BY DEF Document
<1>2. f \in Document
  <2>1. Append(d.resetTokens, e) \in Seq(TokenEntry) /\ d.v + 1 \in Nat
    BY <1>1, PushProperties
  <2>. QED  BY <2>1 DEF Document
<1>3. /\ f.resetTokens = Append(d.resetTokens, e)
      /\ f.emailVerificationTokens = d.emailVerificationTokens
      /\ f.v = d.v + 1
  BY DEF Document
<1>. QED
  BY <1>1, <1>2, <1>3, PushProperties, OnlySpentReflexive DEF Behind

\* resendVerification pushes an entry.
LEMMA ResendPushDocument ==
    ASSUME NEW d \in Document, NEW e \in TokenEntry, NEW f,
           f = [d EXCEPT !.emailVerificationTokens =
                             Append(d.emailVerificationTokens, e),
                         !.v = @ + 1]
    PROVE  f \in Document /\ Behind(d, f)
<1>1. /\ d.resetTokens \in Seq(TokenEntry)
      /\ d.emailVerificationTokens \in Seq(TokenEntry)
      /\ d.v \in Nat
  BY DEF Document
<1>2. f \in Document
  <2>1. /\ Append(d.emailVerificationTokens, e) \in Seq(TokenEntry)
        /\ d.v + 1 \in Nat
    BY <1>1, PushProperties
  <2>. QED  BY <2>1 DEF Document
<1>3. /\ f.resetTokens = d.resetTokens
      /\ f.emailVerificationTokens = Append(d.emailVerificationTokens, e)
      /\ f.v = d.v + 1
  BY DEF Document
<1>. QED
  BY <1>1, <1>2, <1>3, PushProperties, OnlySpentReflexive DEF Behind

\* resendVerification writes back the array s that it loaded, all of it used,
\* with an entry added.  s is not longer than the stored array when the version
\* is still the same, and is all used, so no stored entry is lost or revived.
LEMMA ResendSetDocument ==
    ASSUME NEW d \in Document, NEW s \in Document, NEW e \in TokenEntry, NEW f,
           Behind(s, d), s.v = d.v,
           f = [d EXCEPT !.emailVerificationTokens =
                             Append(SetUsed(s.emailVerificationTokens,
                                        Dirty(s.emailVerificationTokens)), e),
                         !.v = @ + 1]
    PROVE  f \in Document /\ Behind(d, f)
<1>. DEFINE old == s.emailVerificationTokens
            spent == SetUsed(old, Dirty(old))
<1>1. /\ d.resetTokens \in Seq(TokenEntry)
      /\ d.emailVerificationTokens \in Seq(TokenEntry)
      /\ old \in Seq(TokenEntry)
      /\ d.v \in Nat
  BY DEF Document
<1>2. /\ spent \in Seq(TokenEntry)
      /\ Len(spent) = Len(old)
      /\ OnlySpent(old, spent)
      /\ \A i \in DOMAIN old : spent[i].used
  <2>1. \A i \in DOMAIN old : i \notin Dirty(old) => old[i].used
    BY <1>1 DEF Dirty, Live, TokenEntry
  <2>. QED  BY <1>1, <2>1, SetUsedProperties
<1>3. OnlySpent(d.emailVerificationTokens, spent)
  BY <1>1, <1>2 DEF Behind, OnlySpent
<1>4. /\ Append(spent, e) \in Seq(TokenEntry)
      /\ Len(Append(spent, e)) = Len(spent) + 1
      /\ OnlySpent(d.emailVerificationTokens, Append(spent, e))
  <2>. HIDE DEF spent
  <2>1. /\ Append(spent, e) \in Seq(TokenEntry)
        /\ Len(Append(spent, e)) = Len(spent) + 1
        /\ OnlySpent(spent, Append(spent, e))
    BY <1>2, PushProperties
  <2>. QED  BY <1>1, <1>2, <1>3, <2>1, OnlySpentTransitive
<1>5. /\ f \in Document
      /\ f.resetTokens = d.resetTokens
      /\ f.emailVerificationTokens = Append(spent, e)
      /\ f.v = d.v + 1
  <2>1. f = [d EXCEPT !.emailVerificationTokens = Append(spent, e),
                      !.v = @ + 1]
    OBVIOUS
  <2>. HIDE DEF spent
  <2>2. d.v + 1 \in Nat
    BY <1>1
  <2>. QED  BY <1>4, <2>1, <2>2 DEF Document
<1>6. Behind(d, f)
  <2>1. OnlySpent(d.resetTokens, f.resetTokens)
    BY <1>1, <1>5, OnlySpentReflexive
  <2>. QED  BY <1>1, <1>4, <1>5, <2>1 DEF Behind
<1>. QED  BY <1>5, <1>6

\* resetPassword marks entries and sets the password.
LEMMA ResetDocument ==
    ASSUME NEW d \in Document, NEW I, NEW p \in Password, NEW f,
           f = [d EXCEPT !.password = p, !.resetTokens = SetUsed(@, I)]
    PROVE  f \in Document /\ Behind(d, f)
<1>1. /\ d.resetTokens \in Seq(TokenEntry)
      /\ d.emailVerificationTokens \in Seq(TokenEntry)
      /\ d.v \in Nat
  BY DEF Document
<1>2. /\ f \in Document
      /\ f.resetTokens = SetUsed(d.resetTokens, I)
      /\ f.emailVerificationTokens = d.emailVerificationTokens
      /\ f.v = d.v
  BY <1>1, SetUsedProperties DEF Document
<1>. QED  BY <1>1, <1>2, SetUsedProperties, OnlySpentReflexive DEF Behind

\* verifyEmail marks entries and sets ordinary fields.
LEMMA VerifyDocument ==
    ASSUME NEW d \in Document, NEW I, NEW f,
           f = [d EXCEPT !.emailVerified = TRUE, !.status = "ACTIVE",
                         !.emailVerificationTokens = SetUsed(@, I)]
    PROVE  f \in Document /\ Behind(d, f)
<1>1. /\ d.resetTokens \in Seq(TokenEntry)
      /\ d.emailVerificationTokens \in Seq(TokenEntry)
      /\ d.v \in Nat
  BY DEF Document
<1>2. /\ f \in Document
      /\ f.resetTokens = d.resetTokens
      /\ f.emailVerificationTokens = SetUsed(d.emailVerificationTokens, I)
      /\ f.v = d.v
  BY <1>1, SetUsedProperties DEF Document
<1>. QED  BY <1>1, <1>2, SetUsedProperties, OnlySpentReflexive DEF Behind

\* login sets an ordinary field.
LEMMA LoginDocument ==
    ASSUME NEW d \in Document, NEW f, f = [d EXCEPT !.lastLogin = TRUE]
    PROVE  f \in Document /\ Behind(d, f)
<1>1. /\ f \in Document
      /\ f.resetTokens = d.resetTokens
      /\ f.emailVerificationTokens = d.emailVerificationTokens
      /\ f.v = d.v
  BY DEF Document
<1>. QED  BY <1>1, OnlySpentReflexive DEF Behind, Document
----------------------------------------------------------------------------
(* TypeOK.  One lemma for each shape of step, then one step per action.    *)

LEMMA InitTyping == Init => TypeOK
<1>. SUFFICES ASSUME Init PROVE TypeOK
  OBVIOUS
<1>1. ASSUME NEW c \in Codes
      PROVE  /\ RegisteredDocument(c) \in Document
             /\ RegisteredDocument(c).emailVerificationTokens[1].tokenHash = c
  <2>1. /\ Entry(c, VerificationTTL) \in TokenEntry
        /\ Entry(c, VerificationTTL).tokenHash = c
    BY TimeAssumption DEF Entry, TokenEntry, Token
  <2>2. /\ <<Entry(c, VerificationTTL)>> \in Seq(TokenEntry)
        /\ <<Entry(c, VerificationTTL)>>[1] = Entry(c, VerificationTTL)
    BY <2>1
  <2>3. <<>> \in Seq(TokenEntry)
    OBVIOUS
  <2>. QED
    BY <2>1, <2>2, <2>3 DEF RegisteredDocument, Document, Password
<1>2. ImportedDocument \in Document
  BY DEF ImportedDocument, Document, Password
<1>3. \A u \in Users : users[u] \in InitialDocuments(u)
  BY DEF Init
<1>4. users \in [Users -> Document]
  BY <1>1, <1>2, <1>3 DEF Init, InitialDocuments
<1>5. mailbox \subseteq Users \X Token
  <2>1. ASSUME NEW u \in Users \ Imported
        PROVE  users[u].emailVerificationTokens[1].tokenHash \in Token
    <3>1. PICK c \in Codes : users[u] = RegisteredDocument(c)
      BY <1>3 DEF InitialDocuments
    <3>. QED  BY <1>1, <3>1 DEF Token
  <2>. QED  BY <2>1 DEF Init, RegistrationMails
<1>. QED  BY <1>4, <1>5 DEF Init, TypeOK, Saving, Mailing, Pushing

\* A request that is answered.
LEMMA AnswerTyping ==
    ASSUME TypeOK, NEW r \in Requests, NEW with \in Reply,
           NEW given \in Token \cup {None}, Answer(r, with),
           arg' = arg \/ arg' = [arg EXCEPT ![r] = given],
           UNCHANGED <<target, now>>,
           users' \in [Users -> Document],
           mailbox' \subseteq Users \X Token
    PROVE  TypeOK'
<1>1. /\ pc' \in [Requests -> {"idle", "done"} \cup Saving \cup Mailing]
      /\ reply' \in [Requests -> Reply \cup {None}]
      /\ snap' \in [Requests -> Document \cup {None}]
      /\ made' \in [Requests -> TokenEntry \cup {None}]
      /\ arg' \in [Requests -> Token \cup {None}]
      /\ target' \in [Requests -> Users \cup {None}]
      /\ now' \in Nat
  BY DEF TypeOK, Answer
<1>2. ASSUME NEW q \in Requests
      PROVE  /\ pc'[q] \in Saving \cup Mailing => target'[q] \in Users
             /\ pc'[q] \in Saving => snap'[q] \in Document
             /\ pc'[q] \in Pushing => made'[q] \in TokenEntry /\ Live(made'[q])
  BY DEF TypeOK, Answer, Saving, Mailing, Pushing
<1>. QED  BY <1>1, <1>2 DEF TypeOK

\* A request that is answered at once.
LEMMA RefuseTyping ==
    ASSUME TypeOK, NEW r \in Requests, NEW with \in Reply,
           NEW given \in Token \cup {None}, Refuse(r, given, with)
    PROVE  TypeOK'
<1>1. users' \in [Users -> Document] /\ mailbox' \subseteq Users \X Token
  BY DEF TypeOK, Refuse
<1>. QED  BY <1>1, AnswerTyping DEF Refuse

\* A request that loads a document.
LEMMA LoadTyping ==
    ASSUME TypeOK, NEW r \in Requests, NEW u \in Users,
           NEW given \in Token \cup {None}, NEW entry \in TokenEntry \cup {None},
           NEW next \in Saving, Load(r, u, given, entry, next),
           next \in Pushing => entry \in TokenEntry /\ Live(entry)
    PROVE  TypeOK'
<1>1. /\ users' \in [Users -> Document]
      /\ users[u] \in Document
      /\ pc' \in [Requests -> {"idle", "done"} \cup Saving \cup Mailing]
      /\ reply' \in [Requests -> Reply \cup {None}]
      /\ made' \in [Requests -> TokenEntry \cup {None}]
      /\ arg' \in [Requests -> Token \cup {None}]
      /\ target' \in [Requests -> Users \cup {None}]
      /\ now' \in Nat
      /\ mailbox' \subseteq Users \X Token
  BY DEF TypeOK, Load
<1>2. snap' \in [Requests -> Document \cup {None}]
  BY <1>1 DEF TypeOK, Load
<1>3. ASSUME NEW q \in Requests
      PROVE  /\ pc'[q] \in Saving \cup Mailing => target'[q] \in Users
             /\ pc'[q] \in Saving => snap'[q] \in Document
             /\ pc'[q] \in Pushing => made'[q] \in TokenEntry /\ Live(made'[q])
  BY <1>1 DEF TypeOK, Load
<1>. QED  BY <1>1, <1>2, <1>3 DEF TypeOK

\* A request whose save succeeded and that goes on to send its mail.
LEMMA SavedTyping ==
    ASSUME TypeOK, NEW r \in Requests, NEW next \in Mailing, pc[r] \in Pushing,
           pc[r] \in Saving,
           users' \in [Users -> Document],
           pc' = [pc EXCEPT ![r] = next],
           snap' = [snap EXCEPT ![r] = None],
           UNCHANGED <<target, arg, made, reply, mailbox, now>>
    PROVE  TypeOK'
<1>1. /\ pc' \in [Requests -> {"idle", "done"} \cup Saving \cup Mailing]
      /\ snap' \in [Requests -> Document \cup {None}]
  BY DEF TypeOK
<1>2. ASSUME NEW q \in Requests
      PROVE  /\ pc'[q] \in Saving \cup Mailing => target'[q] \in Users
             /\ pc'[q] \in Saving => snap'[q] \in Document
             /\ pc'[q] \in Pushing => made'[q] \in TokenEntry /\ Live(made'[q])
  BY DEF TypeOK, Saving, Mailing, Pushing
<1>. QED  BY <1>1, <1>2 DEF TypeOK

LEMMA VersionErrorTyping ==
    ASSUME TypeOK, NEW r \in Requests, NEW at, VersionError(r, at)
    PROVE  TypeOK'
<1>1. "conflict" \in Reply
  BY DEF Reply
<1>2. users' \in [Users -> Document] /\ mailbox' \subseteq Users \X Token
  BY DEF TypeOK, VersionError
<1>. QED  BY <1>1, <1>2, AnswerTyping DEF VersionError

LEMMA SendMailTyping ==
    ASSUME TypeOK, NEW r \in Requests, NEW at \in Mailing, SendMail(r, at)
    PROVE  TypeOK'
<1>1. "sent" \in Reply
  BY DEF Reply
<1>2. <<target[r], made[r].tokenHash>> \in Users \X Token
  <2>1. target[r] \in Users /\ made[r] \in TokenEntry
    BY DEF TypeOK, SendMail, Pushing
  <2>. QED  BY <2>1 DEF TokenEntry
<1>3. users' \in [Users -> Document] /\ mailbox' \subseteq Users \X Token
  BY <1>2 DEF TypeOK, SendMail
<1>. QED  BY <1>1, <1>3, AnswerTyping DEF SendMail

----------------------------------------------------------------------------
(* The saves.                                                              *)

\* A save of a document that the stored one is behind.
LEMMA StoreBehind ==
    ASSUME TypeOK, NEW r \in Requests, target[r] \in Users,
           NEW doc \in Document, Behind(users[target[r]], doc), Store(r, doc)
    PROVE  /\ users' \in [Users -> Document]
           /\ \A u \in Users : Behind(users[u], users'[u])
<1>1. users' \in [Users -> Document]
  BY DEF TypeOK, Store
<1>2. ASSUME NEW u \in Users PROVE Behind(users[u], users'[u])
  <2>1. users[u] \in Document
    BY DEF TypeOK
  <2>2. CASE u = target[r]
    BY <2>2 DEF TypeOK, Store
  <2>3. CASE u # target[r]
    <3>1. users'[u] = users[u]
      BY <2>3 DEF TypeOK, Store
    <3>. QED  BY <2>1, <3>1, BehindReflexive
  <2>. QED  BY <2>2, <2>3
<1>. QED  BY <1>1, <1>2

Save(r) ==
    \/ ForgotSave(r) \/ ResetSave(r) \/ VerifySave(r)
    \/ ResendPush(r) \/ ResendSet(r) \/ LoginSave(r)

\* Every save leaves documents, and none loses or revives a token.
LEMMA SaveBehind ==
    ASSUME TypeOK, SnapshotBehind, NEW r \in Requests, Save(r)
    PROVE  /\ users' \in [Users -> Document]
           /\ \A u \in Users : Behind(users[u], users'[u])
<1>. DEFINE d == users[target[r]]
<1>1. /\ pc[r] \in Saving
      /\ pc[r] \in {"forgotSave", "resendSave"} => pc[r] \in Pushing
  BY DEF Save, ForgotSave, ResetSave, VerifySave, ResendPush, ResendSet,
         LoginSave, Saving, Pushing
<1>2. /\ target[r] \in Users
      /\ d \in Document
      /\ snap[r] \in Document
      /\ Behind(snap[r], d)
      /\ pc[r] \in {"forgotSave", "resendSave"} => made[r] \in TokenEntry
  BY <1>1 DEF TypeOK, SnapshotBehind
<1>3. CASE ForgotSave(r)
  <2>. DEFINE f == [d EXCEPT !.resetTokens = Append(@, made[r]), !.v = @ + 1]
  <2>1. Store(r, f)
    BY <1>3 DEF ForgotSave
  <2>2. f \in Document /\ Behind(d, f)
    BY <1>2, <1>3, ForgotDocument DEF ForgotSave
  <2>. QED  BY <1>2, <2>1, <2>2, StoreBehind
<1>4. CASE ResetSave(r)
  <2>. DEFINE f == [d EXCEPT
                       !.password = r,
                       !.resetTokens = SetUsed(@, Dirty(snap[r].resetTokens))]
  <2>1. Store(r, f)
    BY <1>4 DEF ResetSave
  <2>2. f \in Document /\ Behind(d, f)
    BY <1>2, ResetDocument DEF Password
  <2>. QED  BY <1>2, <2>1, <2>2, StoreBehind
<1>5. CASE VerifySave(r)
  <2>. DEFINE f == [d EXCEPT
                       !.emailVerified = TRUE,
                       !.status = "ACTIVE",
                       !.emailVerificationTokens =
                           SetUsed(@, Dirty(snap[r].emailVerificationTokens))]
  <2>1. Store(r, f)
    BY <1>5 DEF VerifySave
  <2>2. f \in Document /\ Behind(d, f)
    BY <1>2, VerifyDocument
  <2>. QED  BY <1>2, <2>1, <2>2, StoreBehind
<1>6. CASE ResendPush(r)
  <2>. DEFINE f == [d EXCEPT !.emailVerificationTokens =
                                 Append(d.emailVerificationTokens, made[r]),
                             !.v = @ + 1]
  <2>1. Store(r, f)
    BY <1>6 DEF ResendPush, ResendSaved
  <2>2. f \in Document /\ Behind(d, f)
    BY <1>2, <1>6, ResendPushDocument DEF ResendPush
  <2>. QED  BY <1>2, <2>1, <2>2, StoreBehind
<1>7. CASE ResendSet(r)
  <2>. DEFINE old == snap[r].emailVerificationTokens
              f == [d EXCEPT !.emailVerificationTokens =
                                 Append(SetUsed(old, Dirty(old)), made[r]),
                             !.v = @ + 1]
  <2>1. Store(r, f)
    BY <1>7 DEF ResendSet, ResendSaved
  <2>2. snap[r].v = d.v
    BY <1>7 DEF ResendSet, VersionMatches
  <2>3. f \in Document /\ Behind(d, f)
    <3>1. made[r] \in TokenEntry
      BY <1>2, <1>7 DEF ResendSet
    <3>. HIDE DEF d
    <3>. QED  BY ONLY <1>2, <2>2, <3>1, ResendSetDocument
  <2>. QED  BY <1>2, <2>1, <2>3, StoreBehind
<1>8. CASE LoginSave(r)
  <2>. DEFINE f == [d EXCEPT !.lastLogin = TRUE]
  <2>1. Store(r, f)
    BY <1>8 DEF LoginSave
  <2>2. f \in Document /\ Behind(d, f)
    BY <1>2, LoginDocument
  <2>. QED  BY <1>2, <2>1, <2>2, StoreBehind
<1>. QED  BY <1>3, <1>4, <1>5, <1>6, <1>7, <1>8 DEF Save
----------------------------------------------------------------------------
(* TypeOK is preserved: one step per action.                               *)

LEMMA EntryTyping ==
    ASSUME NEW h \in Token, NEW t \in Nat
    PROVE  Entry(h, t) \in TokenEntry /\ Live(Entry(h, t))
  BY DEF Entry, TokenEntry, Live

LEMMA ForgotTyping ==
    ASSUME TypeOK, SnapshotBehind, NEW r \in Requests, Forgot(r)
    PROVE  TypeOK'
<1>1. CASE ForgotUnknown(r)
  BY <1>1, RefuseTyping DEF ForgotUnknown, Reply
<1>2. CASE ForgotLoad(r)
  <2>1. /\ Entry(r, now + ResetTTL) \in TokenEntry
        /\ Live(Entry(r, now + ResetTTL))
    BY EntryTyping, TimeAssumption DEF TypeOK, Token
  <2>. QED  BY <1>2, <2>1, LoadTyping DEF ForgotLoad, Saving
<1>3. CASE ForgotSave(r)
  <2>1. pc[r] \in Saving /\ pc[r] \in Pushing
    BY <1>3 DEF ForgotSave, Saving, Pushing
  <2>2. users' \in [Users -> Document]
    BY <1>3, SaveBehind DEF Save
  <2>. QED  BY <1>3, <2>1, <2>2, SavedTyping DEF ForgotSave, Mailing
<1>4. CASE ForgotMail(r)
  BY <1>4, SendMailTyping DEF ForgotMail, Mailing
<1>. QED  BY <1>1, <1>2, <1>3, <1>4 DEF Forgot

LEMMA PresentedTyping ==
    ASSUME TypeOK
    PROVE  Presented \subseteq Token \cup {None}
  BY DEF TypeOK, Presented

LEMMA ResetTyping ==
    ASSUME TypeOK, SnapshotBehind, NEW r \in Requests, Reset(r)
    PROVE  TypeOK'
<1>1. CASE ResetRefused(r)
  BY <1>1, PresentedTyping, RefuseTyping DEF ResetRefused, Reply
<1>2. CASE ResetLoad(r)
  <2>1. "resetSave" \in Saving /\ "resetSave" \notin Pushing
    BY DEF Saving, Pushing, Mailing
  <2>. QED  BY <1>2, <2>1, PresentedTyping, LoadTyping DEF ResetLoad
<1>3. CASE ResetSave(r)
  <2>1. users' \in [Users -> Document]
    BY <1>3, SaveBehind DEF Save
  <2>2. mailbox' \subseteq Users \X Token
    BY <1>3 DEF ResetSave, TypeOK
  <2>. QED  BY <1>3, <2>1, <2>2, AnswerTyping DEF ResetSave, Reply
<1>4. CASE ResetConflict(r)
  BY <1>4, VersionErrorTyping DEF ResetConflict
<1>. QED  BY <1>1, <1>2, <1>3, <1>4 DEF Reset

LEMMA VerifyTyping ==
    ASSUME TypeOK, SnapshotBehind, NEW r \in Requests, Verify(r)
    PROVE  TypeOK'
<1>. Codes \subseteq Token
  BY DEF Token
<1>1. CASE VerifyRefused(r)
  BY <1>1, RefuseTyping DEF VerifyRefused, Reply
<1>2. CASE VerifyAgain(r)
  BY <1>2, RefuseTyping DEF VerifyAgain, Reply
<1>3. CASE VerifyLoad(r)
  <2>1. "verifySave" \in Saving /\ "verifySave" \notin Pushing
    BY DEF Saving, Pushing, Mailing
  <2>. QED  BY <1>3, <2>1, LoadTyping DEF VerifyLoad
<1>4. CASE VerifySave(r)
  <2>1. users' \in [Users -> Document]
    BY <1>4, SaveBehind DEF Save
  <2>2. mailbox' \subseteq Users \X Token
    BY <1>4 DEF VerifySave, TypeOK
  <2>. QED  BY <1>4, <2>1, <2>2, AnswerTyping DEF VerifySave, Reply
<1>5. CASE VerifyConflict(r)
  BY <1>5, VersionErrorTyping DEF VerifyConflict
<1>. QED  BY <1>1, <1>2, <1>3, <1>4, <1>5 DEF Verify

LEMMA ResendTyping ==
    ASSUME TypeOK, SnapshotBehind, NEW r \in Requests, Resend(r)
    PROVE  TypeOK'
<1>1. CASE ResendUnknown(r) \/ ResendVerified(r)
  BY <1>1, RefuseTyping DEF ResendUnknown, ResendVerified, Reply
<1>2. CASE ResendLoad(r)
  <2>1. PICK u \in Users, c \in Codes :
           Load(r, u, None, Entry(c, now + VerificationTTL), "resendSave")
    BY <1>2 DEF ResendLoad
  <2>2. /\ Entry(c, now + VerificationTTL) \in TokenEntry
        /\ Live(Entry(c, now + VerificationTTL))
    BY EntryTyping, TimeAssumption DEF TypeOK, Token
  <2>. QED  BY <2>1, <2>2, LoadTyping DEF Saving
<1>3. CASE ResendPush(r) \/ ResendSet(r)
  <2>1. pc[r] \in Saving /\ pc[r] \in Pushing
    BY <1>3 DEF ResendPush, ResendSet, Saving, Pushing
  <2>2. users' \in [Users -> Document]
    BY <1>3, SaveBehind DEF Save
  <2>3. /\ pc' = [pc EXCEPT ![r] = "resendMail"]
        /\ snap' = [snap EXCEPT ![r] = None]
        /\ UNCHANGED <<target, arg, made, reply, mailbox, now>>
    BY <1>3 DEF ResendPush, ResendSet, ResendSaved
  <2>. QED  BY <2>1, <2>2, <2>3, SavedTyping DEF Mailing
<1>4. CASE ResendConflict(r)
  BY <1>4, VersionErrorTyping DEF ResendConflict
<1>5. CASE ResendMail(r)
  BY <1>5, SendMailTyping DEF ResendMail, Mailing
<1>. QED  BY <1>1, <1>2, <1>3, <1>4, <1>5 DEF Resend

LEMMA LoginTyping ==
    ASSUME TypeOK, SnapshotBehind, NEW r \in Requests, Login(r)
    PROVE  TypeOK'
<1>1. CASE LoginDenied(r) \/ LoginResetRequired(r)
  BY <1>1, RefuseTyping DEF LoginDenied, LoginResetRequired, Reply
<1>2. CASE LoginLoad(r)
  <2>1. "loginSave" \in Saving /\ "loginSave" \notin Pushing
    BY DEF Saving, Pushing, Mailing
  <2>. QED  BY <1>2, <2>1, LoadTyping DEF LoginLoad
<1>3. CASE LoginSave(r)
  <2>1. users' \in [Users -> Document]
    BY <1>3, SaveBehind DEF Save
  <2>2. mailbox' \subseteq Users \X Token
    BY <1>3 DEF LoginSave, TypeOK
  <2>. QED  BY <1>3, <2>1, <2>2, AnswerTyping DEF LoginSave, Reply
<1>. QED  BY <1>1, <1>2, <1>3 DEF Login

LEMMA NextTyping ==
    ASSUME TypeOK, SnapshotBehind, [Next]_vars
    PROVE  TypeOK'
<1>1. ASSUME NEW r \in Requests,
             Forgot(r) \/ Reset(r) \/ Verify(r) \/ Resend(r) \/ Login(r)
      PROVE  TypeOK'
  BY <1>1, ForgotTyping, ResetTyping, VerifyTyping, ResendTyping, LoginTyping
<1>2. ASSUME NEW r \in Requests, Abort(r)
      PROVE  TypeOK'
  <2>1. users' \in [Users -> Document] /\ mailbox' \subseteq Users \X Token
    BY <1>2 DEF Abort, TypeOK
  <2>. QED  BY <1>2, <2>1, AnswerTyping DEF Abort, Reply
<1>3. CASE Tick
  BY <1>3 DEF Tick, TypeOK
<1>4. CASE UNCHANGED vars
  BY <1>4 DEF vars, TypeOK
<1>. QED  BY <1>1, <1>2, <1>3, <1>4 DEF Next
----------------------------------------------------------------------------
(* SnapshotBehind is preserved, and so are the tokens.                     *)

\* A step that is not a save leaves the documents alone.
LEMMA OnlySavesWrite ==
    ASSUME [Next]_vars
    PROVE  (\E r \in Requests : Save(r)) \/ UNCHANGED users
<1>. USE DEF Refuse, Load, VersionError, SendMail, Save
<1>1. ASSUME NEW r \in Requests, Forgot(r) \/ Reset(r)
      PROVE  Save(r) \/ UNCHANGED users
  BY <1>1 DEF Forgot, ForgotUnknown, ForgotLoad, ForgotMail,
              Reset, ResetRefused, ResetLoad, ResetConflict
<1>2. ASSUME NEW r \in Requests, Verify(r) \/ Login(r)
      PROVE  Save(r) \/ UNCHANGED users
  BY <1>2 DEF Verify, VerifyRefused, VerifyAgain, VerifyLoad, VerifyConflict,
              Login, LoginDenied, LoginResetRequired, LoginLoad
<1>3. ASSUME NEW r \in Requests, Resend(r)
      PROVE  Save(r) \/ UNCHANGED users
  BY <1>3 DEF Resend, ResendUnknown, ResendVerified, ResendLoad,
              ResendConflict, ResendMail
<1>4. ASSUME NEW r \in Requests, Abort(r) PROVE UNCHANGED users
  BY <1>4 DEF Abort
<1>5. Tick \/ UNCHANGED vars => UNCHANGED users
  BY DEF Tick, vars
<1>. QED  BY <1>1, <1>2, <1>3, <1>4, <1>5 DEF Next

LEMMA NextBehind ==
    ASSUME TypeOK, SnapshotBehind, [Next]_vars
    PROVE  \A u \in Users : Behind(users[u], users'[u])
<1>1. CASE \E r \in Requests : Save(r)
  BY <1>1, SaveBehind
<1>2. CASE UNCHANGED users
  <2>1. \A u \in Users : users[u] \in Document /\ users'[u] = users[u]
    BY <1>2 DEF TypeOK
  <2>. QED  BY <2>1, BehindReflexive
<1>. QED  BY <1>1, <1>2, OnlySavesWrite

\* What a step does to request q: it is over, or is kept, or is loaded.
Kept(q) ==
    /\ pc[q] = "done" => pc'[q] = "done"
    /\ \/ pc'[q] \notin Saving
       \/ /\ pc'[q] = pc[q]
          /\ snap'[q] = snap[q]
          /\ target'[q] = target[q]
       \/ /\ target'[q] \in Users
          /\ snap'[q] = users[target'[q]]
          /\ pc'[q] = "resendSave" => ~users[target'[q]].emailVerified
          /\ UNCHANGED users

LEMMA AnswerKept ==
    ASSUME TypeOK, NEW r \in Requests, NEW with, Answer(r, with),
           UNCHANGED target, NEW q \in Requests
    PROVE  Kept(q)
  BY DEF TypeOK, Answer, Kept, Saving

LEMMA LoadKept ==
    ASSUME TypeOK, NEW r \in Requests, NEW u \in Users, NEW given, NEW entry,
           NEW next, Load(r, u, given, entry, next), NEW q \in Requests,
           next = "resendSave" => ~users[u].emailVerified
    PROVE  Kept(q)
  BY DEF TypeOK, Load, Kept

LEMMA SavedKept ==
    ASSUME TypeOK, NEW r \in Requests, NEW next \in Mailing, pc[r] # "done",
           pc' = [pc EXCEPT ![r] = next], snap' = [snap EXCEPT ![r] = None],
           UNCHANGED target, NEW q \in Requests
    PROVE  Kept(q)
  BY DEF TypeOK, Kept, Saving, Mailing

LEMMA NextKept ==
    ASSUME TypeOK, [Next]_vars, NEW q \in Requests
    PROVE  Kept(q)
<1>1. ASSUME NEW r \in Requests, Forgot(r) PROVE Kept(q)
  <2>1. CASE ForgotUnknown(r) \/ ForgotMail(r)
    BY <2>1, AnswerKept DEF ForgotUnknown, ForgotMail, Refuse, SendMail
  <2>2. CASE ForgotLoad(r)
    BY <2>2, LoadKept DEF ForgotLoad
  <2>3. CASE ForgotSave(r)
    BY <2>3, SavedKept DEF ForgotSave, Mailing
  <2>. QED  BY <1>1, <2>1, <2>2, <2>3 DEF Forgot
<1>2. ASSUME NEW r \in Requests, Reset(r) PROVE Kept(q)
  <2>1. CASE ResetRefused(r) \/ ResetSave(r) \/ ResetConflict(r)
    BY <2>1, AnswerKept
       DEF ResetRefused, ResetSave, ResetConflict, Refuse, VersionError
  <2>2. CASE ResetLoad(r)
    BY <2>2, LoadKept DEF ResetLoad
  <2>. QED  BY <1>2, <2>1, <2>2 DEF Reset
<1>3. ASSUME NEW r \in Requests, Verify(r) PROVE Kept(q)
  <2>1. CASE VerifyRefused(r) \/ VerifyAgain(r) \/ VerifySave(r)
             \/ VerifyConflict(r)
    BY <2>1, AnswerKept DEF VerifyRefused, VerifyAgain, VerifySave,
                            VerifyConflict, Refuse, VersionError
  <2>2. CASE VerifyLoad(r)
    BY <2>2, LoadKept DEF VerifyLoad
  <2>. QED  BY <1>3, <2>1, <2>2 DEF Verify
<1>4. ASSUME NEW r \in Requests, Resend(r) PROVE Kept(q)
  <2>1. CASE ResendUnknown(r) \/ ResendVerified(r) \/ ResendConflict(r)
             \/ ResendMail(r)
    BY <2>1, AnswerKept DEF ResendUnknown, ResendVerified, ResendConflict,
                            ResendMail, Refuse, VersionError, SendMail
  <2>2. CASE ResendLoad(r)
    BY <2>2, LoadKept DEF ResendLoad
  <2>3. CASE ResendPush(r) \/ ResendSet(r)
    <3>1. /\ pc[r] # "done"
          /\ pc' = [pc EXCEPT ![r] = "resendMail"]
          /\ snap' = [snap EXCEPT ![r] = None]
          /\ UNCHANGED target
      BY <2>3 DEF ResendPush, ResendSet, ResendSaved
    <3>. QED  BY <3>1, SavedKept DEF Mailing
  <2>. QED  BY <1>4, <2>1, <2>2, <2>3 DEF Resend
<1>5. ASSUME NEW r \in Requests, Login(r) PROVE Kept(q)
  <2>1. CASE LoginDenied(r) \/ LoginResetRequired(r) \/ LoginSave(r)
    BY <2>1, AnswerKept DEF LoginDenied, LoginResetRequired, LoginSave, Refuse
  <2>2. CASE LoginLoad(r)
    BY <2>2, LoadKept DEF LoginLoad
  <2>. QED  BY <1>5, <2>1, <2>2 DEF Login
<1>6. ASSUME NEW r \in Requests, Abort(r) PROVE Kept(q)
  BY <1>6, AnswerKept DEF Abort
<1>7. CASE Tick \/ UNCHANGED vars
  BY <1>7 DEF Tick, vars, Kept
<1>. QED  BY <1>1, <1>2, <1>3, <1>4, <1>5, <1>6, <1>7 DEF Next

LEMMA NextSnapshotBehind ==
    ASSUME TypeOK, SnapshotBehind, [Next]_vars
    PROVE  SnapshotBehind'
<1>. SUFFICES ASSUME NEW q \in Requests, pc'[q] \in Saving
              PROVE  Behind(snap'[q], users'[target'[q]])
  BY DEF SnapshotBehind
<1>1. TypeOK'
  BY NextTyping
<1>2. CASE /\ pc'[q] = pc[q]
           /\ snap'[q] = snap[q]
           /\ target'[q] = target[q]
  <2>1. /\ target[q] \in Users /\ snap[q] \in Document
        /\ users[target[q]] \in Document /\ users'[target[q]] \in Document
        /\ Behind(snap[q], users[target[q]])
    BY <1>1, <1>2 DEF TypeOK, SnapshotBehind
  <2>2. Behind(users[target[q]], users'[target[q]])
    BY <2>1, NextBehind
  <2>. QED  BY <1>2, <2>1, <2>2, BehindTransitive
<1>3. CASE /\ target'[q] \in Users
           /\ snap'[q] = users[target'[q]]
           /\ UNCHANGED users
  BY <1>3, BehindReflexive DEF TypeOK
<1>. QED  BY <1>2, <1>3, NextKept DEF Kept

\* The inductive invariant: what is typed, and what is loaded is behind.
LEMMA Invariance == Spec => [](TypeOK /\ SnapshotBehind)
<1>1. Init => TypeOK /\ SnapshotBehind
  BY InitTyping DEF Init, SnapshotBehind, Saving
<1>2. TypeOK /\ SnapshotBehind /\ [Next]_vars => (TypeOK /\ SnapshotBehind)'
  BY NextTyping, NextSnapshotBehind
<1>. QED  BY <1>1, <1>2, PTL DEF Spec

----------------------------------------------------------------------------
(* What a step does to one user's document.                                *)

\* The ways the document d of user u may become document e: left alone, or saved by
\* one of the requests of its user.
Rewritten(u, d, e) ==
    \/ e = d
    \/ \E entry \in TokenEntry :
          e = [d EXCEPT !.resetTokens = Append(@, entry), !.v = @ + 1]
    \/ \E r \in Requests :
          /\ pc[r] = "resetSave" /\ pc'[r] = "done"
          /\ VersionMatches(r) /\ target[r] = u
          /\ e = [d EXCEPT
                     !.password = r,
                     !.resetTokens = SetUsed(@, Dirty(snap[r].resetTokens))]
    \/ \E r \in Requests :
          /\ pc[r] = "verifySave"
          /\ VersionMatches(r) /\ target[r] = u
          /\ e = [d EXCEPT
                     !.emailVerified = TRUE,
                     !.status = "ACTIVE",
                     !.emailVerificationTokens =
                         SetUsed(@, Dirty(snap[r].emailVerificationTokens))]
    \/ \E r \in Requests, entry \in TokenEntry :
          /\ pc[r] = "resendSave"
          /\ target[r] = u
          /\ Dirty(snap[r].emailVerificationTokens) = {}
          /\ e = [d EXCEPT
                     !.emailVerificationTokens =
                         Append(d.emailVerificationTokens, entry),
                     !.v = @ + 1]
    \/ \E r \in Requests :
          LET tokens == snap[r].emailVerificationTokens IN
          /\ pc[r] = "resendSave"
          /\ VersionMatches(r) /\ target[r] = u
          /\ e = [d EXCEPT
                     !.emailVerificationTokens =
                         Append(SetUsed(tokens, Dirty(tokens)), made[r]),
                     !.v = @ + 1]
    \/ e = [d EXCEPT !.lastLogin = TRUE]

LEMMA NextRewritten ==
    ASSUME TypeOK, SnapshotBehind, [Next]_vars, NEW u \in Users
    PROVE  Rewritten(u, users[u], users'[u])
<1>1. ASSUME NEW r \in Requests, Save(r)
      PROVE  Rewritten(u, users[u], users'[u])
  <2>. DEFINE d == users[target[r]]
  <2>1. /\ pc[r] \in Saving
        /\ pc[r] \in {"forgotSave", "resendSave"} => pc[r] \in Pushing
    BY <1>1 DEF Save, ForgotSave, ResetSave, VerifySave, ResendPush, ResendSet,
                LoginSave, Saving, Pushing
  <2>2. /\ target[r] \in Users /\ d \in Document /\ snap[r] \in Document
        /\ pc[r] \in {"forgotSave", "resendSave"} => made[r] \in TokenEntry
    BY <2>1 DEF TypeOK
  <2>3. CASE u # target[r]
    <3>1. users'[u] = users[u]
      BY <1>1, <2>2, <2>3 DEF TypeOK, Save, ForgotSave, ResetSave, VerifySave,
            ResendPush, ResendSet, ResendSaved, LoginSave, Store
    <3>. QED  BY <3>1 DEF Rewritten
  <2>4. CASE u = target[r] /\ ForgotSave(r)
    <3>1. users'[u] = [d EXCEPT !.resetTokens = Append(@, made[r]),
                                !.v = @ + 1]
      BY <2>4, <2>2 DEF TypeOK, ForgotSave, Store
    <3>. QED  BY <2>2, <2>4, <3>1 DEF Rewritten, ForgotSave
  <2>5. CASE u = target[r] /\ ResetSave(r)
    <3>1. users'[u] = [d EXCEPT
               !.password = r,
               !.resetTokens = SetUsed(@, Dirty(snap[r].resetTokens))]
      BY <2>5, <2>2 DEF TypeOK, ResetSave, Store
    <3>2. pc'[r] = "done"
      BY <2>5 DEF TypeOK, ResetSave, Answer
    <3>. QED  BY <2>5, <3>1, <3>2 DEF Rewritten, ResetSave
  <2>6. CASE u = target[r] /\ VerifySave(r)
    <3>1. users'[u] = [d EXCEPT
               !.emailVerified = TRUE,
               !.status = "ACTIVE",
               !.emailVerificationTokens =
                   SetUsed(@, Dirty(snap[r].emailVerificationTokens))]
      BY <2>6, <2>2 DEF TypeOK, VerifySave, Store
    <3>. QED  BY <2>6, <3>1 DEF Rewritten, VerifySave
  <2>7. CASE u = target[r] /\ ResendPush(r)
    <3>1. users'[u] = [d EXCEPT
               !.emailVerificationTokens =
                   Append(d.emailVerificationTokens, made[r]),
               !.v = @ + 1]
      BY <2>2, <2>7 DEF TypeOK, ResendPush, ResendSaved, Store
    <3>. QED  BY <2>2, <2>7, <3>1 DEF Rewritten, ResendPush
  <2>9. CASE u = target[r] /\ ResendSet(r)
    <3>. DEFINE tokens == snap[r].emailVerificationTokens
    <3>1. users'[u] = [d EXCEPT
               !.emailVerificationTokens =
                   Append(SetUsed(tokens, Dirty(tokens)), made[r]),
               !.v = @ + 1]
      BY <2>2, <2>9 DEF TypeOK, ResendSet, ResendSaved, Store
    <3>. QED  BY <2>2, <2>9, <3>1 DEF Rewritten, ResendSet
  <2>8. CASE u = target[r] /\ LoginSave(r)
    <3>1. users'[u] = [d EXCEPT !.lastLogin = TRUE]
      BY <2>8, <2>2 DEF TypeOK, LoginSave, Store
    <3>. QED  BY <2>8, <3>1 DEF Rewritten
  <2>. QED  BY <1>1, <2>3, <2>4, <2>5, <2>6, <2>7, <2>8, <2>9 DEF Save
<1>2. CASE UNCHANGED users
  BY <1>2 DEF Rewritten
<1>. QED  BY <1>1, <1>2, OnlySavesWrite

----------------------------------------------------------------------------
(* Passwords.                                                              *)

\* If the stored array has not grown since it was loaded, marking the elements
\* that were live when loaded leaves none live.
LEMMA MarkingSpendsAll ==
    ASSUME NEW s \in Seq(TokenEntry), NEW d \in Seq(TokenEntry),
           OnlySpent(s, d), Len(s) = Len(d)
    PROVE  Dirty(SetUsed(d, Dirty(s))) = {}
<1>. DEFINE w == SetUsed(d, Dirty(s))
<1>1. /\ w \in Seq(TokenEntry) /\ Len(w) = Len(d)
      /\ \A i \in DOMAIN d : i \in Dirty(s) => w[i].used
      /\ \A i \in DOMAIN d : i \notin Dirty(s) => w[i] = d[i]
  BY SetUsedProperties
<1>2. \A i \in DOMAIN d : i \notin Dirty(s) => d[i].used
  BY DEF Dirty, Live, OnlySpent, TokenEntry
<1>3. DOMAIN w = DOMAIN d
  BY <1>1
<1>4. \A i \in DOMAIN w : w[i].used
  BY <1>1, <1>2, <1>3
<1>. QED  BY <1>4 DEF Dirty, Live

LEMMA PushKeepsDirty ==
    ASSUME NEW s \in Seq(TokenEntry), NEW e \in TokenEntry
    PROVE  /\ Dirty(s) \subseteq Dirty(Append(s, e))
           /\ Dirty(Append(s, e)) \subseteq Dirty(s) \cup {Len(s) + 1}
           /\ Live(e) => Len(s) + 1 \in Dirty(Append(s, e))
  BY DEF Dirty, Live

\* A request that set a password is over: it cannot set it again.
PasswordsSet ==
    \A u \in Users, r \in Requests : users[u].password = r => pc[r] = "done"

LEMMA NextPasswords ==
    ASSUME TypeOK, SnapshotBehind, PasswordsSet, [Next]_vars
    PROVE  PasswordsSet'
<1>. SUFFICES ASSUME NEW u \in Users, NEW r \in Requests,
                     users'[u].password = r
              PROVE  pc'[r] = "done"
  BY DEF PasswordsSet
<1>1. users[u] \in Document
  BY DEF TypeOK
<1>2. CASE users'[u].password = users[u].password
  BY <1>2, NextKept DEF PasswordsSet, Kept
<1>3. CASE users'[u].password # users[u].password
  <2>. DEFINE d == users[u]
              e == users'[u]
  <2>1. Rewritten(u, d, e)
    BY NextRewritten
  <2>2. d \in Document /\ e.password # d.password
    BY <1>1, <1>3
  <2>. HIDE DEF d, e
  <2>3. PICK q \in Requests :
           /\ pc'[q] = "done"
           /\ e = [d EXCEPT
                      !.password = q,
                      !.resetTokens = SetUsed(@, Dirty(snap[q].resetTokens))]
    BY <2>1, <2>2 DEF Rewritten, Document
  <2>4. e.password = q
    BY <2>2, <2>3 DEF Document
  <2>. QED  BY <2>3, <2>4 DEF e
<1>. QED  BY <1>2, <1>3

LEMMA PasswordInvariance ==
    Spec => [](TypeOK /\ SnapshotBehind /\ PasswordsSet)
<1>1. Init => PasswordsSet
  <2>1. ASSUME Init, NEW u \in Users
        PROVE  users[u].password \in {"registered", None}
    BY <2>1 DEF Init, InitialDocuments, RegisteredDocument, ImportedDocument
  <2>. QED  BY <2>1, RequestsAssumption DEF PasswordsSet
<1>2. TypeOK /\ SnapshotBehind /\ PasswordsSet /\ [Next]_vars => PasswordsSet'
  BY NextPasswords
<1>. QED  BY <1>1, <1>2, Invariance, PTL DEF Spec

LEMMA NextSpends ==
    ASSUME TypeOK, SnapshotBehind, PasswordsSet, [Next]_vars, NEW u \in Users
    PROVE  IF users'[u].password # users[u].password
           THEN Dirty(users'[u].resetTokens) = {}
           ELSE Dirty(users[u].resetTokens) \subseteq
                Dirty(users'[u].resetTokens)
<1>. DEFINE d == users[u]
            e == users'[u]
<1>1. /\ d \in Document
      /\ d.resetTokens \in Seq(TokenEntry)
  BY DEF TypeOK, Document
<1>2. CASE \E entry \in TokenEntry :
              e = [d EXCEPT !.resetTokens = Append(@, entry), !.v = @ + 1]
  <2>1. PICK entry \in TokenEntry :
              e = [d EXCEPT !.resetTokens = Append(@, entry), !.v = @ + 1]
    BY <1>2
  <2>2. /\ e.password = d.password
        /\ e.resetTokens = Append(d.resetTokens, entry)
    BY <1>1, <2>1 DEF Document
  <2>. QED  BY <1>1, <2>2, PushKeepsDirty
<1>3. CASE \E r \in Requests :
              /\ pc[r] = "resetSave"
              /\ VersionMatches(r) /\ target[r] = u
              /\ e = [d EXCEPT
                         !.password = r,
                         !.resetTokens =
                             SetUsed(@, Dirty(snap[r].resetTokens))]
  <2>1. PICK r \in Requests :
              /\ pc[r] = "resetSave"
              /\ VersionMatches(r) /\ target[r] = u
              /\ e = [d EXCEPT
                         !.password = r,
                         !.resetTokens =
                             SetUsed(@, Dirty(snap[r].resetTokens))]
    BY <1>3
  <2>2. snap[r] \in Document /\ Behind(snap[r], d) /\ snap[r].v = d.v
    BY <2>1 DEF TypeOK, SnapshotBehind, Saving, VersionMatches
  <2>3. /\ snap[r].resetTokens \in Seq(TokenEntry)
        /\ OnlySpent(snap[r].resetTokens, d.resetTokens)
        /\ Len(snap[r].resetTokens) = Len(d.resetTokens)
    BY <2>2 DEF Behind, Document
  <2>4. /\ e.password = r
        /\ e.resetTokens = SetUsed(d.resetTokens, Dirty(snap[r].resetTokens))
    BY <1>1, <2>1 DEF Document
  <2>5. d.password # r
    BY <2>1 DEF PasswordsSet
  <2>. QED  BY <1>1, <2>3, <2>4, <2>5, MarkingSpendsAll
<1>4. CASE e.password = d.password /\ e.resetTokens = d.resetTokens
  BY <1>4
<1>. QED
  BY <1>1, <1>2, <1>3, <1>4, NextRewritten DEF Rewritten, Document

----------------------------------------------------------------------------
(* Verification codes.                                                     *)

AtMostOne(tokens) == \A i, j \in Dirty(tokens) : i = j

\* An account that register made always has a live code until it is verified,
\* so a resend never finds nothing to mark: its save is always filtered.
LiveUntilVerified ==
    /\ \A u \in Users \ Imported :
          ~users[u].emailVerified =>
              Dirty(users[u].emailVerificationTokens) # {}
    /\ \A r \in Requests :
          pc[r] = "resendSave" /\ target[r] \notin Imported =>
              Dirty(snap[r].emailVerificationTokens) # {}

\* The effect of a save on the codes of an account that register made.
LEMMA NextCodes ==
    ASSUME TypeOK, SnapshotBehind, LiveUntilVerified, [Next]_vars,
           NEW u \in Users \ Imported, NEW d, NEW e,
           d = users[u], e = users'[u]
    PROVE  \/ /\ e.emailVerificationTokens = d.emailVerificationTokens
              /\ e.emailVerified = d.emailVerified
           \/ /\ Dirty(e.emailVerificationTokens) = {}
              /\ e.emailVerified
           \/ /\ Dirty(e.emailVerificationTokens) # {}
              /\ AtMostOne(e.emailVerificationTokens)
<1>1. /\ d \in Document /\ d.emailVerificationTokens \in Seq(TokenEntry)
      /\ Rewritten(u, d, e)
  BY NextRewritten DEF TypeOK, Document
<1>2. CASE \E r \in Requests :
              /\ pc[r] = "verifySave"
              /\ VersionMatches(r) /\ target[r] = u
              /\ e = [d EXCEPT
                         !.emailVerified = TRUE,
                         !.status = "ACTIVE",
                         !.emailVerificationTokens =
                             SetUsed(@, Dirty(snap[r].emailVerificationTokens))]
  <2>1. PICK r \in Requests :
              /\ pc[r] = "verifySave"
              /\ VersionMatches(r) /\ target[r] = u
              /\ e = [d EXCEPT
                         !.emailVerified = TRUE,
                         !.status = "ACTIVE",
                         !.emailVerificationTokens =
                             SetUsed(@, Dirty(snap[r].emailVerificationTokens))]
    BY <1>2
  <2>2. snap[r] \in Document /\ Behind(snap[r], d) /\ snap[r].v = d.v
    BY <2>1 DEF TypeOK, SnapshotBehind, Saving, VersionMatches
  <2>3. /\ snap[r].emailVerificationTokens \in Seq(TokenEntry)
        /\ OnlySpent(snap[r].emailVerificationTokens, d.emailVerificationTokens)
        /\ Len(snap[r].emailVerificationTokens) = Len(d.emailVerificationTokens)
    BY <2>2 DEF Behind, Document
  <2>4. /\ e.emailVerified
        /\ e.emailVerificationTokens =
              SetUsed(d.emailVerificationTokens,
                      Dirty(snap[r].emailVerificationTokens))
    BY <1>1, <2>1 DEF Document
  <2>. QED  BY <1>1, <2>3, <2>4, MarkingSpendsAll
<1>3. CASE \E r \in Requests :
              LET tokens == snap[r].emailVerificationTokens IN
              /\ pc[r] = "resendSave"
              /\ VersionMatches(r) /\ target[r] = u
              /\ e = [d EXCEPT
                         !.emailVerificationTokens =
                             Append(SetUsed(tokens, Dirty(tokens)), made[r]),
                         !.v = @ + 1]
  <2>1. PICK r \in Requests :
              LET tokens == snap[r].emailVerificationTokens IN
              /\ pc[r] = "resendSave"
              /\ e = [d EXCEPT
                         !.emailVerificationTokens =
                             Append(SetUsed(tokens, Dirty(tokens)), made[r]),
                         !.v = @ + 1]
    BY <1>3
  <2>. DEFINE tokens == snap[r].emailVerificationTokens
              spent == SetUsed(tokens, Dirty(tokens))
              added == Append(spent, made[r])
  <2>2. /\ tokens \in Seq(TokenEntry)
        /\ made[r] \in TokenEntry /\ Live(made[r])
    BY <2>1 DEF TypeOK, Saving, Pushing, Document
  <2>3. spent \in Seq(TokenEntry) /\ Dirty(spent) = {}
    BY <2>2, SetUsedProperties, MarkingSpendsAll, OnlySpentReflexive
  <2>4. e.emailVerificationTokens = added
    BY <1>1, <2>1 DEF Document
  <2>. HIDE DEF spent
  <2>5. Dirty(added) = {Len(spent) + 1}
    BY <2>2, <2>3, PushKeepsDirty
  <2>. QED  BY <2>4, <2>5 DEF AtMostOne
<1>4. CASE /\ e.emailVerificationTokens = d.emailVerificationTokens
           /\ e.emailVerified = d.emailVerified
  BY <1>4
\* The unfiltered push is for migrated accounts only.
<1>5. ASSUME NEW r \in Requests, pc[r] = "resendSave", target[r] = u,
             Dirty(snap[r].emailVerificationTokens) = {}
      PROVE  FALSE
  BY <1>5 DEF LiveUntilVerified
<1>. QED  BY <1>1, <1>2, <1>3, <1>4, <1>5 DEF Rewritten, Document

LEMMA NextLiveUntilVerified ==
    ASSUME TypeOK, SnapshotBehind, LiveUntilVerified, [Next]_vars
    PROVE  LiveUntilVerified'
<1>1. ASSUME NEW u \in Users \ Imported, ~users'[u].emailVerified
      PROVE  Dirty(users'[u].emailVerificationTokens) # {}
  BY <1>1, NextCodes DEF LiveUntilVerified
<1>2. ASSUME NEW q \in Requests, pc'[q] = "resendSave",
             target'[q] \notin Imported
      PROVE  Dirty(snap'[q].emailVerificationTokens) # {}
  <2>1. CASE /\ pc'[q] = pc[q]
             /\ snap'[q] = snap[q]
             /\ target'[q] = target[q]
    BY <1>2, <2>1 DEF LiveUntilVerified
  <2>2. CASE /\ target'[q] \in Users
             /\ snap'[q] = users[target'[q]]
             /\ ~users[target'[q]].emailVerified
    BY <1>2, <2>2 DEF LiveUntilVerified
  <2>. QED  BY <1>2, <2>1, <2>2, NextKept DEF Kept, Saving
<1>. QED  BY <1>1, <1>2 DEF LiveUntilVerified

LEMMA NextAtMostOne ==
    ASSUME TypeOK, SnapshotBehind, LiveUntilVerified, AtMostOneLiveCode,
           [Next]_vars
    PROVE  AtMostOneLiveCode'
<1>. SUFFICES ASSUME NEW u \in Users \ Imported
              PROVE  AtMostOne(users'[u].emailVerificationTokens)
  BY DEF AtMostOneLiveCode, AtMostOne
<1>1. AtMostOne(users[u].emailVerificationTokens)
  BY DEF AtMostOneLiveCode, AtMostOne
<1>2. Dirty(users'[u].emailVerificationTokens) = {} =>
         AtMostOne(users'[u].emailVerificationTokens)
  BY DEF AtMostOne
<1>. QED  BY <1>1, <1>2, NextCodes

LEMMA InitCodes == Init => LiveUntilVerified /\ AtMostOneLiveCode
<1>. SUFFICES ASSUME Init PROVE LiveUntilVerified /\ AtMostOneLiveCode
  OBVIOUS
<1>1. ASSUME NEW u \in Users \ Imported
      PROVE  Dirty(users[u].emailVerificationTokens) = {1}
  <2>1. PICK c \in Codes : users[u] = RegisteredDocument(c)
    BY DEF Init, InitialDocuments
  <2>2. users[u].emailVerificationTokens = <<Entry(c, VerificationTTL)>>
    BY <2>1 DEF RegisteredDocument
  <2>. QED  BY <2>2 DEF Dirty, Live, Entry
<1>. QED
  BY <1>1 DEF Init, LiveUntilVerified, AtMostOneLiveCode

----------------------------------------------------------------------------
(* What a step does to the request that takes it.                          *)

Pushes == {"forgotSave", "resendSave"}

\* The document of u holds the token of r's mail.
HoldsToken(u, hash) ==
    \/ Holds(users[u].resetTokens, hash)
    \/ Holds(users[u].emailVerificationTokens, hash)

\* A version is incremented only by who is about to mail.
VersionsStay == \A u \in Users : users'[u].v = users[u].v

Moves(r) ==
    \/ /\ pc[r] = "idle" /\ pc'[r] = "done"                     \* Refuse
       /\ reply'[r] \notin {"tokens", "conflict"}
       /\ UNCHANGED <<users, mailbox>>
    \/ /\ pc[r] = "idle" /\ pc'[r] \in Saving                   \* Load
       /\ target'[r] \in Users /\ snap'[r] = users[target'[r]]
       /\ pc'[r] = "loginSave" => users[target'[r]].status = "ACTIVE"
       /\ UNCHANGED <<users, reply, mailbox>>
    \/ /\ pc[r] \in Pushes /\ pc'[r] \in Mailing                \* SaveAndGoOn
       /\ HoldsToken(target[r], made[r].tokenHash)'
       /\ \A u \in Users \ {target[r]} : users'[u] = users[u]
       /\ UNCHANGED <<reply, mailbox>>
    \/ /\ pc[r] \in Saving \ Pushes /\ pc'[r] = "done"          \* SaveAndAnswer
       /\ reply'[r] = "tokens" => pc[r] = "loginSave"
       /\ reply'[r] # "conflict"
       /\ VersionsStay /\ UNCHANGED mailbox
    \/ /\ pc[r] \in Saving /\ pc'[r] = "done"                   \* VersionError
       /\ reply'[r] = "conflict" /\ ~VersionMatches(r)
       /\ UNCHANGED <<users, mailbox>>
    \/ /\ pc[r] \in Mailing /\ pc'[r] = "done"                  \* SendMail
       /\ reply'[r] = "sent" /\ UNCHANGED users
       /\ mailbox' \subseteq mailbox \cup {<<target[r], made[r].tokenHash>>}
    \/ /\ pc[r] # "done" /\ pc'[r] = "done"                     \* Abort
       /\ reply'[r] = "error" /\ UNCHANGED <<users, mailbox>>

\* A step of r, seen from all requests.
Moved(r) ==
    /\ pc[r] # "done"
    /\ \A q \in Requests \ {r} :
          /\ pc'[q] = pc[q] /\ target'[q] = target[q] /\ snap'[q] = snap[q]
          /\ made'[q] = made[q] /\ reply'[q] = reply[q]
    /\ pc[r] # "idle" => target'[r] = target[r]
    /\ Moves(r)

LEMMA RefuseMoves ==
    ASSUME TypeOK, NEW r \in Requests,
           NEW with \in Reply \ {"tokens", "conflict"}, NEW given,
           Refuse(r, given, with)
    PROVE  Moved(r)
BY DEF Refuse, Answer, TypeOK, Moved, Moves

LEMMA LoadMoves ==
    ASSUME TypeOK, NEW r \in Requests, NEW u \in Users, NEW given, NEW entry,
           NEW next \in Saving, Load(r, u, given, entry, next),
           next = "loginSave" => users[u].status = "ACTIVE"
    PROVE  Moved(r)
BY DEF Load, TypeOK, Moved, Moves, Saving

LEMMA VersionErrorMoves ==
    ASSUME TypeOK, NEW r \in Requests, NEW at \in Saving, VersionError(r, at)
    PROVE  Moved(r)
BY DEF VersionError, Answer, TypeOK, Moved, Moves, Saving

LEMMA SendMailMoves ==
    ASSUME TypeOK, NEW r \in Requests, NEW at \in Mailing, SendMail(r, at)
    PROVE  Moved(r)
BY DEF SendMail, Answer, TypeOK, Moved, Moves, Mailing

LEMMA AbortMoves ==
    ASSUME TypeOK, NEW r \in Requests, Abort(r)
    PROVE  Moved(r)
BY DEF Abort, Answer, TypeOK, Moved, Moves

\* A $push: its token is in the document that it leaves.
LEMMA GoOnMoves ==
    ASSUME TypeOK, NEW r \in Requests, NEW next \in Mailing, pc[r] \in Pushes,
           NEW s \in Seq(TokenEntry), NEW doc, SaveAndGoOn(r, doc, next),
           \/ doc = [users[target[r]] EXCEPT
                        !.resetTokens = Append(s, made[r]), !.v = @ + 1]
           \/ doc = [users[target[r]] EXCEPT
                        !.emailVerificationTokens = Append(s, made[r]),
                        !.v = @ + 1]
    PROVE  Moved(r)
<1>1. PICK u \in Users : u = target[r]
  BY DEF TypeOK, Pushes, Saving
<1>2. users[u] \in Document /\ made[r] \in TokenEntry
  BY <1>1 DEF TypeOK, Pushes, Pushing
<1>3. users' = [users EXCEPT ![u] = doc]
  BY <1>1 DEF SaveAndGoOn, Store
<1>4. /\ users'[u] = doc
      /\ \A v \in Users \ {u} : users'[v] = users[v]
  BY <1>3 DEF TypeOK
<1>5. \/ doc.resetTokens = Append(s, made[r])
      \/ doc.emailVerificationTokens = Append(s, made[r])
  BY <1>1, <1>2 DEF Document
<1>6. Holds(Append(s, made[r]), made[r].tokenHash)
  <2>1. /\ Len(s) + 1 \in DOMAIN Append(s, made[r])
        /\ Append(s, made[r])[Len(s) + 1] = made[r]
    OBVIOUS
  <2>. QED  BY <2>1 DEF Holds
<1>7. HoldsToken(target[r], made[r].tokenHash)'
  <2>1. target' = target /\ made' = made
    BY DEF SaveAndGoOn
  <2>2. \/ Holds(users'[u].resetTokens, made[r].tokenHash)
        \/ Holds(users'[u].emailVerificationTokens, made[r].tokenHash)
    BY <1>4, <1>5, <1>6
  <2>. QED  BY <1>1, <2>1, <2>2 DEF HoldsToken
<1>. QED  BY <1>1, <1>4, <1>7
     DEF SaveAndGoOn, TypeOK, Moved, Moves, Pushes, Saving, Mailing

\* A $set: not of the version.
LEMMA AnswerMoves ==
    ASSUME TypeOK, NEW r \in Requests, pc[r] \in Saving \ Pushes,
           NEW doc, NEW with \in Reply \ {"conflict"}, SaveAndAnswer(r, doc, with),
           doc.v = users[target[r]].v,
           with = "tokens" => pc[r] = "loginSave"
    PROVE  Moved(r)
<1>1. VersionsStay
  BY DEF SaveAndAnswer, Store, VersionsStay, TypeOK
<1>. QED  BY <1>1
     DEF SaveAndAnswer, Answer, TypeOK, Moved, Moves, Saving, Pushes

LEMMA SavesMove ==
    ASSUME TypeOK, NEW r \in Requests, Save(r)
    PROVE  Moved(r)
<1>. DEFINE d == users[target[r]]
<1>1. pc[r] \in Saving
  BY DEF Save, ForgotSave, ResetSave, VerifySave, ResendPush, ResendSet,
         LoginSave, Saving
<1>2. d \in Document /\ snap[r] \in Document
  BY <1>1 DEF TypeOK
<1>3. CASE ForgotSave(r)
  <2>1. d.resetTokens \in Seq(TokenEntry)
    BY <1>2 DEF Document
  <2>. QED  BY <1>3, <2>1, GoOnMoves DEF ForgotSave, Pushes, Mailing
<1>4. CASE ResendPush(r)
  <2>1. d.emailVerificationTokens \in Seq(TokenEntry)
    BY <1>2 DEF Document
  <2>. QED  BY <1>4, <2>1, GoOnMoves DEF ResendPush, ResendSaved, Pushes, Mailing
<1>5. CASE ResendSet(r)
  <2>. DEFINE old == snap[r].emailVerificationTokens
  <2>1. SetUsed(old, Dirty(old)) \in Seq(TokenEntry)
    BY <1>2, SetUsedProperties DEF Document
  <2>. QED  BY <1>5, <2>1, GoOnMoves DEF ResendSet, ResendSaved, Pushes, Mailing
<1>6. CASE ResetSave(r)
  <2>1. \E doc : doc.v = d.v /\ SaveAndAnswer(r, doc, "reset")
    <3>. DEFINE f == [d EXCEPT !.password = r,
                               !.resetTokens =
                                   SetUsed(@, Dirty(snap[r].resetTokens))]
    <3>1. f.v = d.v
      BY <1>2 DEF Document
    <3>2. SaveAndAnswer(r, f, "reset")
      BY <1>6 DEF ResetSave
    <3>. QED  BY <3>1, <3>2
  <2>. QED  BY <1>6, <2>1, AnswerMoves DEF ResetSave, Saving, Pushes, Reply
<1>7. CASE VerifySave(r)
  <2>1. Verified(r, d).v = d.v
    BY <1>2 DEF Verified, Document
  <2>. QED  BY <1>7, <2>1, AnswerMoves DEF VerifySave, Saving, Pushes, Reply
<1>8. CASE LoginSave(r)
  <2>1. [d EXCEPT !.lastLogin = TRUE].v = d.v
    BY <1>2 DEF Document
  <2>. QED  BY <1>8, <2>1, AnswerMoves DEF LoginSave, Saving, Pushes, Reply
<1>. QED  BY <1>3, <1>4, <1>5, <1>6, <1>7, <1>8 DEF Save

LEMMA NextMoves ==
    ASSUME TypeOK, [Next]_vars
    PROVE  \/ \E r \in Requests : Moved(r)
           \/ UNCHANGED <<users, pc, target, snap, made, reply, mailbox>>
<1>1. ASSUME NEW r \in Requests, Forgot(r) \/ Reset(r)  PROVE Moved(r)
  BY <1>1, RefuseMoves, LoadMoves, SavesMove, VersionErrorMoves, SendMailMoves
  DEF Forgot, ForgotUnknown, ForgotLoad, ForgotMail, Reset, ResetRefused,
      ResetLoad, ResetConflict, Save, Reply, Saving, Mailing
<1>2. ASSUME NEW r \in Requests, Verify(r)  PROVE Moved(r)
  BY <1>2, RefuseMoves, LoadMoves, SavesMove, VersionErrorMoves
  DEF Verify, VerifyRefused, VerifyAgain, VerifyLoad, VerifyConflict, Save,
      Reply, Saving
<1>3. ASSUME NEW r \in Requests, Resend(r)  PROVE Moved(r)
  BY <1>3, RefuseMoves, LoadMoves, SavesMove, VersionErrorMoves, SendMailMoves
  DEF Resend, ResendUnknown, ResendVerified, ResendLoad, ResendConflict,
      ResendMail, Save, Reply, Saving, Mailing
<1>4. ASSUME NEW r \in Requests, Login(r)  PROVE Moved(r)
  BY <1>4, RefuseMoves, LoadMoves, SavesMove
  DEF Login, LoginDenied, LoginResetRequired, LoginLoad, Save, Reply, Saving
<1>. QED  BY <1>1, <1>2, <1>3, <1>4, AbortMoves DEF Next, Tick, vars
----------------------------------------------------------------------------
(* What is mailed is stored.                                               *)

MailsStored ==
    /\ \A m \in mailbox : HoldsToken(m[1], m[2])
    /\ \A r \in Requests :
          pc[r] \in Mailing => HoldsToken(target[r], made[r].tokenHash)

LEMMA HoldsTokenStays ==
    ASSUME TypeOK, SnapshotBehind, [Next]_vars, NEW u \in Users, NEW hash,
           HoldsToken(u, hash)
    PROVE  HoldsToken(u, hash)'
<1>1. Behind(users[u], users'[u])
  BY NextBehind
<1>2. ASSUME NEW s, NEW t, OnlySpent(s, t), s \in Seq(TokenEntry),
             t \in Seq(TokenEntry), Holds(s, hash)
      PROVE  Holds(t, hash)
  BY <1>2 DEF OnlySpent, Holds
<1>3. users[u] \in Document /\ users'[u] \in Document
  BY NextTyping DEF TypeOK
<1>4. /\ users[u].resetTokens \in Seq(TokenEntry)
      /\ users'[u].resetTokens \in Seq(TokenEntry)
      /\ users[u].emailVerificationTokens \in Seq(TokenEntry)
      /\ users'[u].emailVerificationTokens \in Seq(TokenEntry)
  BY <1>3 DEF Document
<1>. QED  BY <1>1, <1>2, <1>4 DEF HoldsToken, Behind

LEMMA NextMailsStored ==
    ASSUME TypeOK, SnapshotBehind, MailsStored, [Next]_vars
    PROVE  MailsStored'
<1>1. ASSUME NEW m \in mailbox'
      PROVE  HoldsToken(m[1], m[2])'
  <2>1. CASE m \in mailbox
    <3>1. PICK u \in Users, h \in Token : m = <<u, h>>
      BY <2>1 DEF TypeOK
    <3>2. HoldsToken(u, h)
      BY <2>1, <3>1 DEF MailsStored
    <3>. QED  BY <3>1, <3>2, HoldsTokenStays DEF HoldsToken
  <2>2. CASE m \notin mailbox
    <3>1. PICK r \in Requests :
              /\ pc[r] \in Mailing
              /\ m = <<target[r], made[r].tokenHash>>
      BY <1>1, <2>2, NextMoves DEF Moved, Moves
    <3>2. PICK u, h : u = target[r] /\ h = made[r].tokenHash
      OBVIOUS
    <3>3. u \in Users /\ HoldsToken(u, h)
      BY <3>1, <3>2 DEF TypeOK, MailsStored
    <3>. QED  BY <3>1, <3>2, <3>3, HoldsTokenStays DEF HoldsToken
  <2>. QED  BY <2>1, <2>2
<1>2. ASSUME NEW r \in Requests, pc'[r] \in Mailing
      PROVE  HoldsToken(target[r], made[r].tokenHash)'
  <2>1. \/ HoldsToken(target[r], made[r].tokenHash)'
        \/ /\ pc[r] \in Mailing
           /\ target'[r] = target[r] /\ made'[r] = made[r]
    BY <1>2, NextMoves DEF Moved, Moves, Mailing, Saving
  <2>2. CASE /\ pc[r] \in Mailing
             /\ target'[r] = target[r] /\ made'[r] = made[r]
    <3>1. PICK u, h : u = target[r] /\ h = made[r].tokenHash
      OBVIOUS
    <3>2. u \in Users /\ HoldsToken(u, h)'
      BY <2>2, <3>1, HoldsTokenStays DEF TypeOK, MailsStored
    <3>. QED  BY <2>2, <3>1, <3>2 DEF HoldsToken
  <2>. QED  BY <2>1, <2>2
<1>. QED  BY <1>1, <1>2 DEF MailsStored
----------------------------------------------------------------------------
(* Who logs in is verified.                                                *)

\* u may have the status ACTIVE: it was imported, or verified.
MayBeActive(u) ==
    \/ u \in Imported
    \/ users[u].emailVerified /\ users[u].status = "ACTIVE"

ActiveVerified ==
    /\ \A u \in Users : users[u].status = "ACTIVE" => MayBeActive(u)
    /\ \A r \in Requests :
          pc[r] = "loginSave" \/ reply[r] = "tokens" =>
              target[r] \in Users /\ MayBeActive(target[r])
    /\ \A r \in Requests : pc[r] # "done" => reply[r] = None

\* A save changes the status and the verification only to ACTIVE and verified.
LEMMA StatusStays ==
    ASSUME TypeOK, SnapshotBehind, [Next]_vars, NEW u \in Users
    PROVE  \/ users'[u].emailVerified /\ users'[u].status = "ACTIVE"
           \/ /\ users'[u].emailVerified = users[u].emailVerified
              /\ users'[u].status = users[u].status
<1>. PICK d, e : d = users[u] /\ e = users'[u]
  OBVIOUS
<1>1. d \in Document /\ Rewritten(u, d, e)
  BY NextRewritten DEF TypeOK
<1>2. \/ e.emailVerified = TRUE /\ e.status = "ACTIVE"
      \/ e.emailVerified = d.emailVerified /\ e.status = d.status
  BY <1>1 DEF Rewritten, Document
<1>. QED  BY <1>2

LEMMA NextActiveVerified ==
    ASSUME TypeOK, SnapshotBehind, ActiveVerified, [Next]_vars
    PROVE  ActiveVerified'
<1>1. ASSUME NEW u \in Users, MayBeActive(u)  PROVE MayBeActive(u)'
  BY <1>1, StatusStays DEF MayBeActive
<1>2. ASSUME NEW u \in Users, users'[u].status = "ACTIVE"
      PROVE  MayBeActive(u)'
  <2>1. CASE users[u].status = "ACTIVE"
    BY <1>1, <2>1 DEF ActiveVerified
  <2>2. CASE users[u].status # "ACTIVE"
    BY <1>2, <2>2, StatusStays DEF MayBeActive
  <2>. QED  BY <2>1, <2>2
<1>3. ASSUME NEW r \in Requests  PROVE pc'[r] # "done" => reply'[r] = None
  BY NextMoves DEF Moved, Moves, ActiveVerified
<1>4. ASSUME NEW r \in Requests, pc'[r] = "loginSave" \/ reply'[r] = "tokens"
      PROVE  target'[r] \in Users /\ MayBeActive(target[r])'
  <2>1. \/ /\ pc[r] = "loginSave" \/ reply[r] = "tokens"
           /\ target'[r] = target[r]
        \/ target'[r] \in Users /\ users[target'[r]].status = "ACTIVE"
    <3>1. reply[r] = "tokens" => pc[r] = "done"
      BY NoneAssumption DEF ActiveVerified, Reply
    <3>. QED  BY <1>4, <3>1, NextMoves DEF Moved, Moves, Saving, Mailing
  <2>2. PICK u : u = target'[r]
    OBVIOUS
  <2>3. u \in Users /\ MayBeActive(u)
    BY <2>1, <2>2 DEF ActiveVerified
  <2>. QED  BY <1>1, <2>2, <2>3 DEF MayBeActive
<1>. QED  BY <1>2, <1>3, <1>4 DEF ActiveVerified
----------------------------------------------------------------------------
(* Why a version may not match.                                            *)

\* Another request than r got a token into the document of u.
PushedBy(q, u) ==
    /\ target[q] = u
    /\ \/ pc[q] \in Mailing
       \/ pc[q] = "done" /\ reply[q] \in {"sent", "error"}

HasCause(r) == \E q \in Requests \ {r} : PushedBy(q, target[r])

Causes ==
    \A r \in Requests :
        /\ pc[r] \in Saving /\ ~VersionMatches(r) => HasCause(r)
        /\ reply[r] = "conflict" => HasCause(r)

LEMMA PushedStays ==
    ASSUME TypeOK, [Next]_vars, NEW q \in Requests, NEW u, PushedBy(q, u)
    PROVE  PushedBy(q, u)'
BY NextMoves DEF PushedBy, Moved, Moves, Mailing, Saving, Pushes

LEMMA NextCauses ==
    ASSUME TypeOK, ActiveVerified, Causes, [Next]_vars
    PROVE  Causes'
<1>1. ASSUME NEW r \in Requests, HasCause(r), target'[r] = target[r]
      PROVE  HasCause(r)'
  BY <1>1, PushedStays DEF HasCause, PushedBy
<1>2. ASSUME NEW r \in Requests, pc'[r] \in Saving, ~VersionMatches(r)'
      PROVE  HasCause(r)'
  <2>1. CASE pc[r] \in Saving /\ ~VersionMatches(r) /\ target'[r] = target[r]
    BY <1>1, <2>1 DEF Causes
  <2>2. CASE ~(pc[r] \in Saving /\ ~VersionMatches(r) /\ target'[r] = target[r])
    <3>1. PICK q \in Requests : Moved(q)
      BY <1>2, <2>2, NextMoves DEF VersionMatches
    <3>2. /\ q # r /\ pc[r] \in Saving /\ VersionMatches(r)
          /\ target'[r] = target[r] /\ snap'[r] = snap[r]
      BY <1>2, <2>2, <3>1 DEF Moved, Moves, VersionMatches, Saving, Mailing
    <3>3. PICK u \in Users : u = target[r]
      BY <3>2 DEF TypeOK
    <3>4. users'[u].v # users[u].v
      BY <1>2, <3>2, <3>3 DEF VersionMatches
    <3>5. pc[q] \in Pushes /\ pc'[q] \in Mailing /\ target[q] = u
      BY <3>1, <3>4 DEF Moved, Moves, VersionsStay
    <3>6. PushedBy(q, u)'
      BY <3>1, <3>5 DEF PushedBy, Moved, Pushes
    <3>. QED  BY <3>2, <3>3, <3>6 DEF HasCause, PushedBy
  <2>. QED  BY <2>1, <2>2
<1>3. ASSUME NEW r \in Requests, reply'[r] = "conflict"
      PROVE  HasCause(r)'
  <2>1. reply[r] = "conflict" => pc[r] = "done"
    BY NoneAssumption DEF ActiveVerified, Reply
  <2>2. /\ target'[r] = target[r]
        /\ reply[r] = "conflict" \/ (pc[r] \in Saving /\ ~VersionMatches(r))
    BY <1>3, <2>1, NextMoves DEF Moved, Moves, Saving
  <2>. QED  BY <1>1, <2>2 DEF Causes
<1>. QED  BY <1>2, <1>3 DEF Causes

LEMMA AnswersInvariance ==
    Spec => [](TypeOK /\ MailsStored /\ ActiveVerified /\ Causes)
<1>1. Init => MailsStored /\ ActiveVerified /\ Causes
  <2>. SUFFICES ASSUME Init PROVE MailsStored /\ ActiveVerified /\ Causes
    OBVIOUS
  <2>1. /\ \A r \in Requests : pc[r] = "idle" /\ reply[r] = None
        /\ "idle" \notin Saving \cup Mailing
    BY DEF Init, Saving, Mailing
  <2>2. ASSUME NEW u \in Users, users[u].status = "ACTIVE"
        PROVE  u \in Imported
    BY <2>2 DEF Init, InitialDocuments, RegisteredDocument
  <2>3. ASSUME NEW m \in mailbox
        PROVE  HoldsToken(m[1], m[2])
    <3>1. PICK u \in Users \ Imported :
              m = <<u, users[u].emailVerificationTokens[1].tokenHash>>
      BY <2>3 DEF Init, RegistrationMails
    <3>2. DOMAIN users[u].emailVerificationTokens = {1}
      BY <3>1 DEF Init, InitialDocuments, RegisteredDocument
    <3>. QED  BY <3>1, <3>2 DEF HoldsToken, Holds
  <2>. QED  BY <2>1, <2>2, <2>3, NoneAssumption
            DEF MailsStored, ActiveVerified, MayBeActive, Causes, Reply
<1>2. TypeOK /\ SnapshotBehind /\ MailsStored /\ ActiveVerified /\ Causes
         /\ [Next]_vars => (MailsStored /\ ActiveVerified /\ Causes)'
  BY NextMailsStored, NextActiveVerified, NextCauses
<1>. QED  BY <1>1, <1>2, Invariance, PTL DEF Spec
----------------------------------------------------------------------------
(* Theorems.                                                               *)

\* The documents stored and loaded keep to the schema, whatever saves run.
THEOREM TypeCorrect == Spec => []TypeOK
  BY Invariance, PTL

\* A snapshot is never ahead of the store, and its version tells whether an
\* array has grown since it was loaded.
THEOREM SnapshotsBehind == Spec => []SnapshotBehind
  BY Invariance, PTL

\* No save of any request loses a token or revives a used one.
THEOREM TokensKept == Spec => TokensOnlySpent
<1>1. TypeOK /\ SnapshotBehind /\ [Next]_vars =>
         [\A u \in Users :
             /\ OnlySpent(users[u].resetTokens, users'[u].resetTokens)
             /\ OnlySpent(users[u].emailVerificationTokens,
                          users'[u].emailVerificationTokens)]_vars
  BY NextBehind DEF Behind
<1>. QED  BY <1>1, Invariance, PTL DEF Spec, TokensOnlySpent

\* A reset that passes the version filter spends every reset token of its user,
\* those included that were added after it loaded the document; nothing else
\* spends one.
THEOREM ResetSpends == Spec => ResetSpendsEveryToken
<1>1. TypeOK /\ SnapshotBehind /\ PasswordsSet /\ [Next]_vars =>
         [\A u \in Users :
             IF users'[u].password # users[u].password
             THEN Dirty(users'[u].resetTokens) = {}
             ELSE Dirty(users[u].resetTokens) \subseteq
                  Dirty(users'[u].resetTokens)]_vars
  BY NextSpends
<1>. QED  BY <1>1, PasswordInvariance, PTL DEF Spec, ResetSpendsEveryToken

\* An account that register made never has two codes that work.
THEOREM OneLiveCode == Spec => []AtMostOneLiveCode
<1>1. TypeOK /\ SnapshotBehind /\ LiveUntilVerified /\ AtMostOneLiveCode
         /\ [Next]_vars => (LiveUntilVerified /\ AtMostOneLiveCode)'
  BY NextLiveUntilVerified, NextAtMostOne
<1>. QED  BY <1>1, InitCodes, Invariance, PTL DEF Spec

\* forgotPassword, resendVerification: what is mailed was saved before, and no
\* later save drops it.
THEOREM MailsKept == Spec => []MailedTokensStored
<1>1. MailsStored => MailedTokensStored
  BY DEF MailsStored, MailedTokensStored, HoldsToken
<1>. QED  BY <1>1, AnswersInvariance, PTL

\* login: who got tokens is verified or was imported, and stays so.
THEOREM LoginVerified == Spec => []LoginNeedsVerifiedEmail
<1>1. ActiveVerified => LoginNeedsVerifiedEmail
  BY DEF ActiveVerified, LoginNeedsVerifiedEmail, MayBeActive
<1>. QED  BY <1>1, AnswersInvariance, PTL

\* A version conflict has a cause: another request's push.
THEOREM ConflictsCaused == Spec => []ConflictNeedsPush
<1>1. Causes => ConflictNeedsPush
  BY DEF Causes, ConflictNeedsPush, HasCause, PushedBy, Mailing
<1>. QED  BY <1>1, AnswersInvariance, PTL
=============================================================================
