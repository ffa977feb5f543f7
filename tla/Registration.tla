--------------------------- MODULE Registration ---------------------------
(***************************************************************************)
(* AuthService.register (src/src/auth/auth.service.ts) by requests that    *)
(* interleave at every await: it looks whether email, phone and referral   *)
(* code are free, and inserts later.  Only the unique indexes of           *)
(* src/src/schemas/user.schema.ts see two requests at once.                *)
(*                                                                         *)
(* An account is named by the request that registers it; addresses and     *)
(* numbers are what lower-casing and stripping leave of them.              *)
(***************************************************************************)
EXTENDS Naturals, FiniteSets

CONSTANTS
    Requests,       \* the requests, and the accounts they make
    Emails, Phones, \* what is registered
    Codes,          \* the referral codes that generateRandomChars can give
    Forms,          \* what requests ask for
    MaxAttempts,    \* 10
    None            \* null

Data == [email : Emails, phone : Phones, referredByCode : Codes \cup {None}]

ASSUME FormsAssumption == Forms \subseteq Data

ASSUME AttemptsAssumption == MaxAttempts \in Nat \ {0}

\* How a request may end.
Replies ==
    {"registered", "emailTaken", "phoneTaken", "noCode", "conflict", "error"}

ASSUME NoneAssumption ==
    None \notin UNION {Requests, Emails, Phones, Codes, Replies}

VARIABLES
    users,          \* users[r]: the account that r made, or None
    pc,             \* pc[r]: the await that r stands at
    data,           \* data[r]: what r asks for
    attempts,       \* attempts[r]: the codes r has tried
    code,           \* code[r]: the one it holds to be free
    referrer,       \* referrer[r]: the account it was referred by
    reply           \* reply[r]: how r ended

vars == <<users, pc, data, attempts, code, referrer, reply>>

Account ==
    [email : Emails, phone : Phones, referralCode : Codes,
     referredByUserId : Requests \cup {None}]

ASSUME AccountAssumption == None \notin Account

Init ==
    /\ users = [r \in Requests |-> None]
    /\ pc = [r \in Requests |-> "idle"]
    /\ data = [r \in Requests |-> None]
    /\ attempts = [r \in Requests |-> 0]
    /\ code = [r \in Requests |-> None]
    /\ referrer = [r \in Requests |-> None]
    /\ reply = [r \in Requests |-> None]
----------------------------------------------------------------------------
\* The accounts in the database, and what findOne finds by a field.
Registered == {r \in Requests : users[r] # None}

ByEmail(email) == {r \in Registered : users[r].email = email}
ByPhone(phone) == {r \in Registered : users[r].phone = phone}
ByCode(c) == {r \in Registered : users[r].referralCode = c}

\* r comes to the next await.
GoTo(r, next) == pc' = [pc EXCEPT ![r] = next]

\* r ends; the tokens it answers with are of no account but its own.
Answer(r, with) ==
    /\ GoTo(r, "done")
    /\ reply' = [reply EXCEPT ![r] = with]

\* r ends with an exception.
Refuse(r, with) ==
    /\ Answer(r, with)
    /\ UNCHANGED <<users, data, attempts, code, referrer>>

\* A request arrives, and asks for its email.
Register(r) ==
    /\ pc[r] = "idle"
    /\ GoTo(r, "email")
    /\ \E d \in Forms : data' = [data EXCEPT ![r] = d]
    /\ UNCHANGED <<users, attempts, code, referrer, reply>>

\* Mutant: an email is reserved, for good, when the request arrives.
EmailTakenReserved(r) ==
    /\ pc[r] = "email"
    /\ \E q \in Requests \ {r} :
          data[q] # None /\ data[q].email = data[r].email
    /\ Refuse(r, "emailTaken")

EmailTaken(r) ==
    /\ pc[r] = "email"
    /\ ByEmail(data[r].email) # {}
    /\ Refuse(r, "emailTaken")

EmailFree(r) ==
    /\ pc[r] = "email"
    /\ ByEmail(data[r].email) = {}
    /\ GoTo(r, "phone")
    /\ UNCHANGED <<users, data, attempts, code, referrer, reply>>

PhoneTaken(r) ==
    /\ pc[r] = "phone"
    /\ ByPhone(data[r].phone) # {}
    /\ Refuse(r, "phoneTaken")

\* The phone is free; the password is hashed, and a code is asked for.
PhoneFree(r) ==
    /\ pc[r] = "phone"
    /\ ByPhone(data[r].phone) = {}
    /\ GoTo(r, "code")
    /\ UNCHANGED <<users, data, attempts, code, referrer, reply>>
----------------------------------------------------------------------------
(* The referral code, and the account that referred this one.              *)

\* Mutant: one attempt too many.
CodeTakenOnceMore(r) ==
    /\ pc[r] = "code"
    /\ \E c \in Codes : ByCode(c) # {}
    /\ attempts[r] + 1 <= MaxAttempts
    /\ GoTo(r, "code")
    /\ attempts' = [attempts EXCEPT ![r] = @ + 1]
    /\ UNCHANGED <<users, data, code, referrer, reply>>

\* Mutant: attempts are not counted.
CodeTakenUncounted(r) ==
    /\ pc[r] = "code"
    /\ \E c \in Codes : ByCode(c) # {}
    /\ GoTo(r, "code")
    /\ UNCHANGED <<users, data, attempts, code, referrer, reply>>

\* The code drawn is taken, and there are attempts left.
CodeTaken(r) ==
    /\ pc[r] = "code"
    /\ \E c \in Codes : ByCode(c) # {}
    /\ attempts[r] + 1 < MaxAttempts
    /\ GoTo(r, "code")
    /\ attempts' = [attempts EXCEPT ![r] = @ + 1]
    /\ UNCHANGED <<users, data, code, referrer, reply>>

CodesExhausted(r) ==
    /\ pc[r] = "code"
    /\ \E c \in Codes : ByCode(c) # {}
    /\ attempts[r] + 1 = MaxAttempts
    /\ Refuse(r, "noCode")

\* The code drawn is free; the code of the referrer is looked up if there is one.
CodeFree(r) ==
    /\ pc[r] = "code"
    /\ GoTo(r, IF data[r].referredByCode = None THEN "save" ELSE "referrer")
    /\ \E c \in Codes :
          /\ ByCode(c) = {}
          /\ code' = [code EXCEPT ![r] = c]
    /\ attempts' = [attempts EXCEPT ![r] = @ + 1]
    /\ UNCHANGED <<users, data, referrer, reply>>

\* Mutant: the code may also be the one that r is about to get.
FindReferrerOrSelf(r) ==
    /\ pc[r] = "referrer"
    /\ GoTo(r, "save")
    /\ referrer' = [referrer EXCEPT ![r] =
           LET found == {q \in Requests :
                            \/ q \in ByCode(data[r].referredByCode)
                            \/ code[q] = data[r].referredByCode}
           IN  IF found = {} THEN None ELSE CHOOSE q \in found : TRUE]
    /\ UNCHANGED <<users, data, attempts, code, reply>>

\* A code that nobody has is ignored.
FindReferrer(r) ==
    LET found == ByCode(data[r].referredByCode) IN
    /\ pc[r] = "referrer"
    /\ GoTo(r, "save")
    /\ \/ found = {} /\ UNCHANGED referrer
       \/ \E q \in found : referrer' = [referrer EXCEPT ![r] = q]
    /\ UNCHANGED <<users, data, attempts, code, reply>>
----------------------------------------------------------------------------
(* The insert.                                                             *)

\* Mutant: the schema lacks the index on phone.
DuplicatesUnindexed(r) == ByEmail(data[r].email) \cup ByCode(code[r])

\* An account that a unique index keeps r's out for.
Duplicates(r) ==
    ByEmail(data[r].email) \cup ByPhone(data[r].phone) \cup ByCode(code[r])

\* E11000, which the exception filter answers with 409.
SaveConflict(r) ==
    /\ pc[r] = "save"
    /\ Duplicates(r) # {}
    /\ Refuse(r, "conflict")

Save(r) ==
    /\ pc[r] = "save"
    /\ Duplicates(r) = {}
    /\ GoTo(r, "mail")
    /\ users' = [users EXCEPT ![r] =
                    [email |-> data[r].email, phone |-> data[r].phone,
                     referralCode |-> code[r],
                     referredByUserId |-> referrer[r]]]
    /\ UNCHANGED <<data, attempts, code, referrer, reply>>

\* Whether the mail is sent or not, r is answered with tokens.
Mail(r) ==
    /\ pc[r] = "mail"
    /\ Answer(r, "registered")
    /\ UNCHANGED <<users, data, attempts, code, referrer>>

\* The database fails under r, or the process dies.
Abort(r) ==
    /\ pc[r] \notin {"idle", "done"}
    /\ Refuse(r, "error")

Serve(r) ==
    \/ EmailTaken(r) \/ EmailFree(r) \/ PhoneTaken(r) \/ PhoneFree(r)
    \/ CodeTaken(r) \/ CodesExhausted(r) \/ CodeFree(r) \/ FindReferrer(r)
    \/ SaveConflict(r) \/ Save(r) \/ Mail(r)

Next == \E r \in Requests : Register(r) \/ Serve(r) \/ Abort(r)

\* Database and mail server answer, if only with an error.
Spec == Init /\ [][Next]_vars /\ \A r \in Requests : WF_vars(Serve(r))
----------------------------------------------------------------------------
(* Properties.                                                             *)

TypeOK ==
    /\ users \in [Requests -> Account \cup {None}]
    /\ pc \in [Requests -> {"idle", "email", "phone", "code", "referrer",
                            "save", "mail", "done"}]
    /\ data \in [Requests -> Forms \cup {None}]
    /\ attempts \in [Requests -> 0..MaxAttempts]
    /\ code \in [Requests -> Codes \cup {None}]
    /\ referrer \in [Requests -> Requests \cup {None}]
    /\ reply \in [Requests -> Replies \cup {None}]

\* register: no two accounts share an email, a phone or a referral code,
\* however many requests found them free at the same time.
UniqueAccounts ==
    \A r, q \in Registered :
        r # q => /\ users[r].email # users[q].email
                 /\ users[r].phone # users[q].phone
                 /\ users[r].referralCode # users[q].referralCode

\* register, the referral link: every account was referred by one that exists,
\* and nobody refers himself, directly or in a circle: each set of accounts has
\* one that was referred by none of them.
ReferralsAreTrees ==
    \A S \in (SUBSET Registered) \ {{}} :
        /\ \A r \in S : users[r].referredByUserId \in Registered \cup {None}
        /\ \E r \in S : users[r].referredByUserId \notin S

\* register: a request is turned away only for what an account has that is not
\* its own, and then has made none; it is answered with tokens only if it has.
RefusalsAreTrue ==
    \A r \in Requests :
        /\ reply[r] = "emailTaken" => ByEmail(data[r].email) \ {r} # {}
        /\ reply[r] = "phoneTaken" => ByPhone(data[r].phone) \ {r} # {}
        /\ reply[r] = "noCode" => Registered # {}
        /\ reply[r] = "conflict" => Duplicates(r) \ {r} # {}
        /\ reply[r] = "registered" => r \in Registered
        /\ r \in Registered => reply[r] \in {"registered", "error", None}

\* register, `while (attempts < 10 && !isUnique)': every request is answered,
\* even if every code it draws is taken.
RegistrationEnds == \A r \in Requests : pc[r] = "email" ~> pc[r] = "done"
=============================================================================
