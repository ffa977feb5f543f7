------------------------- MODULE RegistrationProofs -------------------------
(***************************************************************************)
(* What TLAPS proves of Registration, for every set of requests, forms and *)
(* codes.                                                                  *)
(*                                                                         *)
(* A request that has not inserted its account has none, and what it has   *)
(* found (a code, a referrer) is what the insert will use.  Only Save      *)
(* changes the collection, and it adds one account that nobody refers to.  *)
(***************************************************************************)
EXTENDS Registration, TLAPS

Looking == {"email", "phone", "code", "referrer", "save"}

\* What r has by the time it comes to an await.
Stages ==
    \A r \in Requests :
        /\ pc[r] \in Looking \cup {"mail"} => data[r] \in Forms
        /\ pc[r] \in {"idle", "email", "phone", "code"} =>
              attempts[r] < MaxAttempts
        /\ pc[r] \in {"referrer", "save"} => code[r] \in Codes
        /\ pc[r] # "done" => reply[r] = None
        /\ pc[r] \in Looking \cup {"idle"} => users[r] = None
        /\ pc[r] = "mail" => users[r] # None
        /\ referrer[r] \in Registered \cup {None}

LEMMA InitStages == Init => TypeOK /\ Stages
BY AttemptsAssumption DEF Init, TypeOK, Stages, Looking, Registered

\* Ending without an account leaves everything else as it was.
LEMMA RefuseKeeps ==
    ASSUME TypeOK, Stages, NEW r \in Requests, NEW how, Refuse(r, how),
           pc[r] # "done",
           how \in Replies
    PROVE  TypeOK' /\ Stages'
BY DEF Refuse, Answer, GoTo, TypeOK, Stages, Looking, Registered

LEMMA StepsKeep ==
    ASSUME TypeOK, Stages, NEW r \in Requests
    PROVE  /\ Register(r) => TypeOK' /\ Stages'
           /\ EmailFree(r) \/ PhoneFree(r) => TypeOK' /\ Stages'
           /\ CodeTaken(r) => TypeOK' /\ Stages'
           /\ CodeFree(r) => TypeOK' /\ Stages'
           /\ FindReferrer(r) => TypeOK' /\ Stages'
           /\ Save(r) => TypeOK' /\ Stages'
           /\ Mail(r) => TypeOK' /\ Stages'
<1>1. ASSUME Register(r) PROVE TypeOK' /\ Stages'
  BY <1>1 DEF Register, GoTo, TypeOK, Stages, Looking, Registered
<1>2. ASSUME EmailFree(r) \/ PhoneFree(r) PROVE TypeOK' /\ Stages'
  BY <1>2 DEF EmailFree, PhoneFree, GoTo, TypeOK, Stages, Looking, Registered
<1>3. ASSUME CodeTaken(r) PROVE TypeOK' /\ Stages'
  BY <1>3, AttemptsAssumption
  DEF CodeTaken, GoTo, TypeOK, Stages, Looking, Registered
<1>4. ASSUME CodeFree(r) PROVE TypeOK' /\ Stages'
  BY <1>4, AttemptsAssumption
  DEF CodeFree, GoTo, TypeOK, Stages, Looking, Registered
<1>5. ASSUME FindReferrer(r) PROVE TypeOK' /\ Stages'
  BY <1>5
  DEF FindReferrer, ByCode, GoTo, TypeOK, Stages, Looking, Registered
<1>6. ASSUME Save(r) PROVE TypeOK' /\ Stages'
  <2>1. PICK a : /\ a = [email |-> data[r].email, phone |-> data[r].phone,
                         referralCode |-> code[r],
                         referredByUserId |-> referrer[r]]
                 /\ users' = [users EXCEPT ![r] = a]
    BY <1>6 DEF Save
  <2>2. a \in Account
    BY <1>6, <2>1, FormsAssumption DEF Save, TypeOK, Stages, Looking, Account, Data
  <2>3. a # None
    BY <2>2, AccountAssumption
  <2>4. TypeOK'
    BY <1>6, <2>1, <2>2 DEF Save, GoTo, TypeOK
  <2>5. Registered \subseteq Registered'
    BY <2>1, <2>3 DEF Registered, TypeOK
  <2>6. Stages'
    BY <1>6, <2>1, <2>3, <2>5 DEF Save, GoTo, TypeOK, Stages, Looking
  <2>. QED  BY <2>4, <2>6
<1>7. ASSUME Mail(r) PROVE TypeOK' /\ Stages'
  BY <1>7
  DEF Mail, Answer, GoTo, TypeOK, Replies, Stages, Looking, Registered
<1>. QED  BY <1>1, <1>2, <1>3, <1>4, <1>5, <1>6, <1>7

\* Every step registers, refuses, goes on, or inserts.
LEMMA NextKeeps == TypeOK /\ Stages /\ [Next]_vars => TypeOK' /\ Stages'
<1>. SUFFICES ASSUME TypeOK, Stages, [Next]_vars  PROVE TypeOK' /\ Stages'
  OBVIOUS
<1>1. CASE UNCHANGED vars
  BY <1>1 DEF vars, TypeOK, Stages, Looking, Registered
<1>2. ASSUME NEW r \in Requests, Register(r) \/ Serve(r) \/ Abort(r)
      PROVE  TypeOK' /\ Stages'
  <2>1. CASE EmailTaken(r)
    BY <2>1, RefuseKeeps DEF EmailTaken, Replies
  <2>2. CASE PhoneTaken(r)
    BY <2>2, RefuseKeeps DEF PhoneTaken, Replies
  <2>3. CASE CodesExhausted(r)
    BY <2>3, RefuseKeeps DEF CodesExhausted, Replies
  <2>4. CASE SaveConflict(r)
    BY <2>4, RefuseKeeps DEF SaveConflict, Replies
  <2>5. CASE Abort(r)
    BY <2>5, RefuseKeeps DEF Abort, Replies
  <2>. QED  BY <1>2, <2>1, <2>2, <2>3, <2>4, <2>5, StepsKeep DEF Serve
<1>. QED  BY <1>1, <1>2 DEF Next

LEMMA Staged == Spec => [](TypeOK /\ Stages)
BY InitStages, NextKeeps, PTL DEF Spec

\* Accounts, requests and answers keep to the schema, whatever the limit on
\* attempts is.
THEOREM TypeCorrect == Spec => []TypeOK
BY Staged, PTL
----------------------------------------------------------------------------
(* The collection.                                                         *)

\* The collection only changes by an insert of an account that has not been
\* there, that no index keeps out, and whose referrer has been there.
Inserted(r) ==
    /\ r \notin Registered
    /\ Duplicates(r) = {}
    /\ referrer[r] \in Registered \cup {None}
    /\ Registered' = Registered \cup {r}
    /\ \A q \in Registered : users'[q] = users[q]
    /\ users'[r].email = data[r].email
    /\ users'[r].phone = data[r].phone
    /\ users'[r].referralCode = code[r]
    /\ users'[r].referredByUserId = referrer[r]

LEMMA OnlyInserts ==
    ASSUME TypeOK, Stages, [Next]_vars
    PROVE  UNCHANGED users \/ \E r \in Requests : Save(r) /\ Inserted(r)
<1>1. CASE UNCHANGED vars
  BY <1>1 DEF vars
<1>2. ASSUME NEW r \in Requests, Register(r) \/ Serve(r) \/ Abort(r), ~Save(r)
      PROVE  UNCHANGED users
  BY <1>2
  DEF Register, Serve, Abort, EmailTaken, EmailFree, PhoneTaken, PhoneFree,
      CodeTaken, CodesExhausted, CodeFree, FindReferrer, SaveConflict, Mail,
      Refuse
<1>3. ASSUME NEW r \in Requests, Save(r)
      PROVE  Inserted(r)
  <2>1. PICK a : /\ a = [email |-> data[r].email, phone |-> data[r].phone,
                         referralCode |-> code[r],
                         referredByUserId |-> referrer[r]]
                 /\ users' = [users EXCEPT ![r] = a]
    BY <1>3 DEF Save
  <2>2. a \in Account
    BY <1>3, <2>1, FormsAssumption DEF Save, TypeOK, Stages, Looking, Account, Data
  <2>3. a # None
    BY <2>2, AccountAssumption
  <2>4. /\ r \notin Registered
        /\ Duplicates(r) = {}
        /\ referrer[r] \in Registered \cup {None}
    BY <1>3 DEF Save, Stages, Looking, Registered
  <2>5. users'[r] = a /\ \A q \in Requests \ {r} : users'[q] = users[q]
    BY <2>1 DEF TypeOK
  <2>6. Registered' = Registered \cup {r}
    BY <2>3, <2>5 DEF Registered
  <2>. QED  BY <2>1, <2>4, <2>5, <2>6 DEF Inserted, Registered
<1>. QED  BY <1>1, <1>2, <1>3 DEF Next

\* UNIQUENESS.  The indexes keep the account of every other request out.
LEMMA NextUnique ==
    TypeOK /\ Stages /\ UniqueAccounts /\ [Next]_vars => UniqueAccounts'
<1>. SUFFICES ASSUME TypeOK, Stages, UniqueAccounts, [Next]_vars
              PROVE  UniqueAccounts'
  OBVIOUS
<1>1. CASE UNCHANGED users
  BY <1>1 DEF UniqueAccounts, Registered
<1>2. ASSUME NEW r \in Requests, Inserted(r)
      PROVE  UniqueAccounts'
  <2>1. \A q \in Registered :
            /\ users[q].email # users'[r].email
            /\ users[q].phone # users'[r].phone
            /\ users[q].referralCode # users'[r].referralCode
    BY <1>2 DEF Inserted, Duplicates, ByEmail, ByPhone, ByCode
  <2>. QED  BY <1>2, <2>1 DEF Inserted, UniqueAccounts
<1>. QED  BY <1>1, <1>2, OnlyInserts

\* However many registrations find an email, a phone or a code free at the same
\* time, no two accounts share one.
THEOREM Uniqueness == Spec => []UniqueAccounts
<1>1. Init => UniqueAccounts
  BY DEF Init, UniqueAccounts, Registered
<1>. QED  BY <1>1, NextUnique, Staged, PTL DEF Spec

\* A set with the new account has one that was referred from outside the set:
\* the new one if it is alone, and otherwise the one that the others have, which
\* was referred by an account that is older than the new one.
LEMMA NextTrees ==
    TypeOK /\ Stages /\ ReferralsAreTrees /\ [Next]_vars => ReferralsAreTrees'
<1>. SUFFICES ASSUME TypeOK, Stages, ReferralsAreTrees, [Next]_vars
              PROVE  ReferralsAreTrees'
  OBVIOUS
<1>1. CASE UNCHANGED users
  BY <1>1 DEF ReferralsAreTrees, Registered
<1>2. ASSUME NEW r \in Requests, Inserted(r)
      PROVE  ReferralsAreTrees'
  <2>. SUFFICES ASSUME NEW S \in SUBSET Registered', S # {}
                PROVE  /\ \A q \in S : users'[q].referredByUserId
                                          \in Registered' \cup {None}
                       /\ \E q \in S : users'[q].referredByUserId \notin S
    BY DEF ReferralsAreTrees
  <2>1. \A q \in Registered :
            users'[q].referredByUserId \in Registered \cup {None}
    BY <1>2 DEF Inserted, ReferralsAreTrees
  <2>2. users'[r].referredByUserId \in Registered \cup {None}
    BY <1>2 DEF Inserted
  <2>3. None \notin Requests /\ Registered \subseteq Requests
    BY NoneAssumption DEF Registered
  <2>4. r \notin Registered /\ Registered' = Registered \cup {r}
    BY <1>2 DEF Inserted
  <2>5. CASE S \ {r} = {}
    BY <2>2, <2>3, <2>4, <2>5
  <2>6. CASE S \ {r} # {}
    <3>1. S \ {r} \in (SUBSET Registered) \ {{}}
      <4>1. S \ {r} \subseteq Registered
        BY <2>4
      <4>. QED  BY <2>6, <4>1
    <3>2. PICK q \in S \ {r} : users[q].referredByUserId \notin S \ {r}
      BY <3>1 DEF ReferralsAreTrees
    <3>3. users'[q].referredByUserId = users[q].referredByUserId
      BY <1>2, <3>1 DEF Inserted
    <3>4. users'[q].referredByUserId # r
      BY <2>1, <2>3, <2>4, <3>1
    <3>. QED  BY <2>1, <2>2, <2>4, <3>2, <3>3, <3>4
  <2>. QED  BY <2>5, <2>6
<1>. QED  BY <1>1, <1>2, OnlyInserts

\* The referrals of any number of accounts have no circle and end at an account
\* that nobody referred.
THEOREM Trees == Spec => []ReferralsAreTrees
<1>1. Init => ReferralsAreTrees
  <2>1. Init => Registered = {}
    BY DEF Init, Registered
  <2>2. ASSUME Registered = {}, NEW S \in (SUBSET Registered) \ {{}}
        PROVE  FALSE
    <3>1. S \subseteq {} /\ S # {}
      BY <2>2
    <3>. QED  BY <3>1
  <2>. QED  BY <2>1, <2>2 DEF ReferralsAreTrees
<1>. QED  BY <1>1, NextTrees, Staged, PTL DEF Spec
----------------------------------------------------------------------------
(* The answers.                                                            *)

\* What RefusalsAreTrue says of one request.
Truthful(r) ==
    /\ reply[r] = "emailTaken" => ByEmail(data[r].email) \ {r} # {}
    /\ reply[r] = "phoneTaken" => ByPhone(data[r].phone) \ {r} # {}
    /\ reply[r] = "noCode" => Registered # {}
    /\ reply[r] = "conflict" => Duplicates(r) \ {r} # {}
    /\ reply[r] = "registered" => r \in Registered
    /\ r \in Registered => reply[r] \in {"registered", "error", None}

\* An account that was found is found again.
LEMMA FoundStays ==
    ASSUME TypeOK, Stages, [Next]_vars
    PROVE  /\ Registered \subseteq Registered'
           /\ \A email : ByEmail(email) \subseteq ByEmail(email)'
           /\ \A phone : ByPhone(phone) \subseteq ByPhone(phone)'
           /\ \A c : ByCode(c) \subseteq ByCode(c)'
<1>1. /\ Registered \subseteq Registered'
      /\ \A q \in Registered : users'[q] = users[q]
  BY OnlyInserts DEF Inserted, Registered
<1>. QED  BY <1>1 DEF ByEmail, ByPhone, ByCode

\* A request that has its answer, or takes no part in the step.
LEMMA OthersStayTruthful ==
    ASSUME TypeOK, Stages, [Next]_vars, NEW q \in Requests, Truthful(q),
           data'[q] = data[q], code'[q] = code[q], reply'[q] = reply[q],
           q \in Registered' => q \in Registered
    PROVE  Truthful(q)'
<1>1. /\ ByEmail(data[q].email) \subseteq ByEmail(data[q].email)'
      /\ ByPhone(data[q].phone) \subseteq ByPhone(data[q].phone)'
      /\ ByCode(code[q]) \subseteq ByCode(code[q])'
  BY FoundStays DEF ByEmail, ByPhone, ByCode
<1>2. Registered \subseteq Registered'
  BY FoundStays
<1>3. Duplicates(q) \subseteq Duplicates(q)'
  BY <1>1 DEF Duplicates
<1>. QED  BY <1>1, <1>2, <1>3 DEF Truthful

\* A request that has no answer yet claims nothing.
LEMMA SilentTruthful ==
    ASSUME NEW r \in Requests, reply'[r] = None
    PROVE  Truthful(r)'
BY NoneAssumption DEF Truthful, Replies

LEMMA ActorTruthful ==
    ASSUME TypeOK, Stages, NEW r \in Requests,
           Register(r) \/ Serve(r) \/ Abort(r)
    PROVE  /\ pc[r] # "done"
           /\ \A q \in Requests \ {r} :
                 /\ data'[q] = data[q] /\ code'[q] = code[q]
                 /\ reply'[q] = reply[q] /\ users'[q] = users[q]
           /\ Truthful(r)'
<1>1. CASE Register(r)
  <2>1. reply'[r] = None
    BY <1>1 DEF Register, Stages
  <2>. QED  BY <1>1, <2>1, SilentTruthful DEF Register, TypeOK
<1>2. CASE EmailTaken(r)
  BY <1>2 DEF EmailTaken, Refuse, Answer, TypeOK, Stages, Looking, Truthful,
              ByEmail, Registered
<1>3. CASE PhoneTaken(r)
  BY <1>3 DEF PhoneTaken, Refuse, Answer, TypeOK, Stages, Looking, Truthful,
              ByPhone, Registered
<1>4. CASE CodesExhausted(r)
  BY <1>4 DEF CodesExhausted, Refuse, Answer, TypeOK, Stages, Looking,
              Truthful, ByCode, Registered
<1>5. CASE SaveConflict(r)
  BY <1>5 DEF SaveConflict, Refuse, Answer, TypeOK, Stages, Looking, Truthful,
              Duplicates, ByEmail, ByPhone, ByCode, Registered
<1>6. CASE Abort(r)
  BY <1>6 DEF Abort, Refuse, Answer, TypeOK, Stages, Truthful, Registered
<1>7. CASE Mail(r)
  BY <1>7 DEF Mail, Answer, TypeOK, Stages, Truthful, Registered
<1>8. CASE EmailFree(r) \/ PhoneFree(r) \/ CodeTaken(r) \/ FindReferrer(r)
  <2>1. reply'[r] = None
    BY <1>8 DEF EmailFree, PhoneFree, CodeTaken, FindReferrer, Stages
  <2>. QED  BY <1>8, <2>1, SilentTruthful
            DEF EmailFree, PhoneFree, CodeTaken, FindReferrer, TypeOK
<1>9. CASE CodeFree(r) \/ Save(r)
  <2>1. reply'[r] = None
    BY <1>9 DEF CodeFree, Save, Stages
  <2>. QED  BY <1>9, <2>1, SilentTruthful DEF CodeFree, Save, TypeOK
<1>. QED  BY <1>1, <1>2, <1>3, <1>4, <1>5, <1>6, <1>7, <1>8, <1>9 DEF Serve

LEMMA NextTruthful ==
    TypeOK /\ Stages /\ RefusalsAreTrue /\ [Next]_vars => RefusalsAreTrue'
<1>. SUFFICES ASSUME TypeOK, Stages, [Next]_vars,
                     \A q \in Requests : Truthful(q), NEW q \in Requests
              PROVE  Truthful(q)'
  BY DEF RefusalsAreTrue, Truthful
<1>1. CASE UNCHANGED vars
  BY <1>1, OthersStayTruthful DEF vars, Registered
<1>2. ASSUME NEW r \in Requests, Register(r) \/ Serve(r) \/ Abort(r)
      PROVE  Truthful(q)'
  BY <1>2, ActorTruthful, OthersStayTruthful DEF Registered
<1>. QED  BY <1>1, <1>2 DEF Next

\* Nobody is turned away for an account of his own or for none, and whoever is
\* turned away has no account; whoever gets tokens has one.
THEOREM Refusals == Spec => []RefusalsAreTrue
<1>1. Init => RefusalsAreTrue
  BY NoneAssumption DEF Init, RefusalsAreTrue, Registered, Replies
<1>. QED  BY <1>1, NextTruthful, Staged, PTL DEF Spec
=============================================================================
