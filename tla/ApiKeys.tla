------------------------------ MODULE ApiKeys ------------------------------
(***************************************************************************)
(* ApiKeysService (src/src/modules/api-keys/api-keys.service.ts): keys are *)
(* created, revoked, rotated and validated by requests that interleave at  *)
(* every await, over the counters of RedisService.                         *)
(*                                                                         *)
(* A request changes the document it loaded in memory and saves it.  The   *)
(* document has no arrays of its own to version: a save is a $set of the   *)
(* fields whose value differs from the loaded one, and is never filtered.  *)
(***************************************************************************)
EXTENDS RedisService, Integers, FiniteSets

CONSTANTS
    Requests,       \* the requests
    KeyIds,         \* the _ids of API keys
    Limits,         \* values of rateLimitPerMinute; 0 is no limit
    Expiries,       \* values of expiresAt
    MaxTime,        \* bound on the clock
    None            \* null

ASSUME LimitsAssumption == Limits \subseteq Nat /\ MaxTime \in Nat

ASSUME RequestsAssumption == IsFiniteSet(Requests)

\* A raw key stands for the request that generated it, and has its counter.
ASSUME KeysAssumption == CounterKeys = Requests

VARIABLES
    keys,           \* keys[k]: the stored document, or None
    underscored,    \* the raw keys whose base64url secret contains a `_'
    pc,             \* pc[r]: the await that request r stands at
    target,         \* target[r]: the key r works on
    raw,            \* raw[r]: the raw key that r presents
    snap,           \* snap[r]: the document as loaded
    mem,            \* mem[r]: the document as changed in memory
    at,             \* at[r]: the time validate noted before the rate limit
    hits,           \* hits[r]: the count that Redis answered
    countedIn,      \* countedIn[r]: the window it counted r in
    reply,          \* reply[r]: how r ended
    now             \* the clock

counting == <<hits, countedIn>>
requestVars == <<pc, target, raw, snap, mem, at, counting, reply>>
vars == <<keys, underscored, requestVars, redisVars, now>>
----------------------------------------------------------------------------
\* 4 random bytes as prefix and 24 as secret are new each time: prefix, hash
\* and raw key stand for the request that generated them.
Document ==
    [prefix : Requests, hash : Requests, isActive : BOOLEAN, expiresAt : Expiries,
     rateLimitPerMinute : Limits, usageCount : Nat,
     currentMinuteWindow : Int \cup {None}, currentMinuteCount : Nat]

\* How a request may end.
Replies ==
    {"created", "notOwned", "revoked", "rotated", "null", "limited",
     "accepted", "error"}

ASSUME NoneAssumption ==
    None \notin Document /\ None \notin Replies /\ None \notin Nat

Created(r, expiresAt, limit) ==
    [prefix |-> r, hash |-> r, isActive |-> TRUE, expiresAt |-> expiresAt,
     rateLimitPerMinute |-> limit, usageCount |-> 0,
     currentMinuteWindow |-> None, currentMinuteCount |-> 0]

Expired(doc) == doc.expiresAt # None /\ doc.expiresAt < now

Init ==
    /\ keys = [k \in KeyIds |-> None]
    /\ underscored \in SUBSET Requests
    /\ pc = [r \in Requests |-> "idle"]
    /\ target = [r \in Requests |-> None]
    /\ raw = [r \in Requests |-> None]
    /\ snap = [r \in Requests |-> None]
    /\ mem = [r \in Requests |-> None]
    /\ at = [r \in Requests |-> 0]
    /\ hits = [r \in Requests |-> 0]
    /\ countedIn = [r \in Requests |-> None]
    /\ reply = [r \in Requests |-> None]
    /\ RedisInit
    /\ now = 0
----------------------------------------------------------------------------
(* The parts the operations share.                                         *)

Answer(r, with) ==
    /\ pc' = [pc EXCEPT ![r] = "done"]
    /\ reply' = [reply EXCEPT ![r] = with]
    /\ snap' = [snap EXCEPT ![r] = None]

\* r is answered, and wrote nothing.
Refuse(r, with) ==
    /\ Answer(r, with)
    /\ UNCHANGED <<keys, underscored, target, mem, at, counting, redisVars, now>>

\* r has loaded the document of k, changed it to doc, and awaits what is next.
Load(r, k, doc, next) ==
    /\ pc[r] = "idle"
    /\ pc' = [pc EXCEPT ![r] = next]
    /\ target' = [target EXCEPT ![r] = k]
    /\ snap' = [snap EXCEPT ![r] = keys[k]]
    /\ mem' = [mem EXCEPT ![r] = doc]
    /\ UNCHANGED <<keys, underscored, at, counting, reply,
                   redisVars, now>>

\* r goes on in memory, to wait for something else.
Continue(r, doc, next) ==
    /\ pc' = [pc EXCEPT ![r] = next]
    /\ mem' = [mem EXCEPT ![r] = doc]
    /\ UNCHANGED <<keys, underscored, target, raw, snap, reply, now>>

\* Mutant: the save replaces the stored document by the one in memory.
SavedWhole(r) == mem[r]

\* Mutant: the use count is added to the stored one.
SavedAdding(r) ==
    [keys[target[r]] EXCEPT
        !.isActive = mem[r].isActive,
        !.usageCount = @ + mem[r].usageCount]

\* The stored document with the fields that r changed.
Saved(r) ==
    [f \in DOMAIN mem[r] |->
        IF mem[r][f] # snap[r][f] THEN mem[r][f] ELSE keys[target[r]][f]]

Save(r, at_, with) ==
    /\ pc[r] = at_
    /\ keys' = [keys EXCEPT ![target[r]] = Saved(r)]
    /\ Answer(r, with)
    /\ UNCHANGED <<underscored, target, raw, mem, at, counting, redisVars, now>>

\* The database fails under r, or the process dies.
Abort(r) ==
    /\ pc[r] \notin {"idle", "done"}
    /\ Refuse(r, "error")
    /\ UNCHANGED raw
----------------------------------------------------------------------------
(* createKey, revokeKey, rotateKey                                         *)

CreateKey(r) ==
    /\ pc[r] = "idle"
    /\ \E k \in KeyIds, expiresAt \in Expiries, limit \in Limits :
          /\ keys[k] = None
          /\ keys' = [keys EXCEPT ![k] = Created(r, expiresAt, limit)]
          /\ target' = [target EXCEPT ![r] = k]
    /\ Answer(r, "created")
    /\ UNCHANGED <<underscored, raw, mem, at, counting, redisVars, now>>

\* No such key, or one of another user: neither operation writes.
NotOwned(r) ==
    /\ pc[r] = "idle"
    /\ Refuse(r, "notOwned")
    /\ UNCHANGED raw

RevokeLoad(r) ==
    /\ \E k \in KeyIds :
          /\ keys[k] # None
          /\ Load(r, k, [keys[k] EXCEPT !.isActive = FALSE], "revoke")
    /\ UNCHANGED raw

RevokeSave(r) == Save(r, "revoke", "revoked")

\* Between the load and the save there is the bcrypt hash of the new secret.
RotateLoad(r) ==
    /\ \E k \in KeyIds :
          /\ keys[k] # None
          /\ Load(r, k, [keys[k] EXCEPT !.prefix = r, !.hash = r,
                                        !.usageCount = 0], "rotate")
    /\ UNCHANGED raw

RotateSave(r) == Save(r, "rotate", "rotated")
----------------------------------------------------------------------------
(* validate                                                                *)

\* The raw keys a client may hold.
Issued == {r \in Requests : reply[r] \in {"created", "rotated"}}

\* split('_') finds three parts only if the secret has no `_' itself.
Parses(w) == w \notin underscored

\* Mutant: the document found is not asked whether it is active.
AcceptsInactive(k, w) ==
    /\ keys[k] # None
    /\ keys[k].prefix = w
    /\ ~Expired(keys[k])
    /\ keys[k].hash = w

Accepts(k, w) ==
    /\ keys[k] # None
    /\ keys[k].prefix = w
    /\ keys[k].isActive
    /\ ~Expired(keys[k])
    /\ keys[k].hash = w

\* Not of the form, unknown, inactive, expired, or the wrong secret.
ValidateNull(r) ==
    /\ pc[r] = "idle"
    /\ \E w \in Issued :
          /\ ~Parses(w) \/ \A k \in KeyIds : ~Accepts(k, w)
          /\ raw' = [raw EXCEPT ![r] = w]
    /\ Refuse(r, "null")

ValidateLoad(r) ==
    \E w \in Issued, k \in KeyIds :
        /\ Parses(w)
        /\ Accepts(k, w)
        /\ raw' = [raw EXCEPT ![r] = w]
        /\ Load(r, k, keys[k], "compare")

\* The use is counted in memory, to be saved.
Counted(doc) == [doc EXCEPT !.usageCount = @ + 1]

\* bcrypt has compared the secret with the loaded hash, which is the right one.
ValidateCompare(r) ==
    /\ pc[r] = "compare"
    /\ at' = [at EXCEPT ![r] = now]
    /\ IF mem[r].rateLimitPerMinute > 0
       THEN Continue(r, mem[r], "increment")
       ELSE Continue(r, Counted(mem[r]), "use")
    /\ UNCHANGED <<counting, redisVars>>

\* enforceApiKeyRateLimit, by Redis: the increment, then the TTL.
Increment(r) ==
    /\ pc[r] = "increment"
    /\ IncrementWithWindow(raw[r])
    /\ hits' = [hits EXCEPT ![r] = count'[raw[r]]]
    /\ countedIn' = [countedIn EXCEPT ![r] = window[raw[r]]]
    /\ Continue(r, mem[r], "ttl")
    /\ UNCHANGED at

\* Mutant: one use more than the limit.
WithinRedisLimitOrNext(r) == hits[r] <= mem[r].rateLimitPerMinute + 1

WithinRedisLimit(r) == hits[r] <= mem[r].rateLimitPerMinute

RedisAllows(r) ==
    /\ pc[r] = "ttl"
    /\ WithinRedisLimit(r)
    /\ Continue(r, Counted([mem[r] EXCEPT
                       !.currentMinuteWindow =
                           at[r] - (WindowSec - RetryAfter(raw[r])),
                       !.currentMinuteCount = hits[r]]), "use")
    /\ UNCHANGED <<at, counting, redisVars>>

RedisLimits(r) ==
    /\ pc[r] = "ttl"
    /\ ~WithinRedisLimit(r)
    /\ Refuse(r, "limited")
    /\ UNCHANGED raw

\* applyDocumentRateLimitFallback, after an error of Redis: the window and the
\* count in the document as it was loaded, renewed if the window is over.
Fallback(doc, time) ==
    LET over == \/ doc.currentMinuteWindow = None
                \/ time - doc.currentMinuteWindow >= WindowSec
    IN  [doc EXCEPT
            !.currentMinuteWindow = IF over THEN time ELSE @,
            !.currentMinuteCount = (IF over THEN 0 ELSE @) + 1]

WithinDocumentLimit(doc) == doc.currentMinuteCount <= doc.rateLimitPerMinute

FallbackAllows(r) ==
    LET doc == Fallback(mem[r], at[r]) IN
    /\ pc[r] \in {"increment", "ttl"}
    /\ WithinDocumentLimit(doc)
    /\ Continue(r, Counted(doc), "use")
    /\ hits' = [hits EXCEPT ![r] = 0]
    /\ countedIn' = [countedIn EXCEPT ![r] = None]
    /\ UNCHANGED <<at, redisVars>>

FallbackLimits(r) ==
    /\ pc[r] \in {"increment", "ttl"}
    /\ ~WithinDocumentLimit(Fallback(mem[r], at[r]))
    /\ Refuse(r, "limited")
    /\ UNCHANGED raw

ValidateSave(r) == Save(r, "use", "accepted")
----------------------------------------------------------------------------
Tick ==
    /\ now < MaxTime
    /\ now' = now + 1
    /\ Elapse
    /\ UNCHANGED <<keys, underscored, requestVars>>

Revoke(r) == RevokeLoad(r) \/ RevokeSave(r)

Rotate(r) == RotateLoad(r) \/ RotateSave(r)

Validate(r) ==
    \/ ValidateNull(r) \/ ValidateLoad(r) \/ ValidateCompare(r) \/ Increment(r)
    \/ RedisAllows(r) \/ RedisLimits(r) \/ FallbackAllows(r) \/ FallbackLimits(r)
    \/ ValidateSave(r)

Next ==
    \/ \E r \in Requests :
          \/ CreateKey(r) \/ NotOwned(r) \/ Revoke(r) \/ Rotate(r)
          \/ Validate(r) \/ Abort(r)
    \/ Tick

Spec == Init /\ [][Next]_vars
----------------------------------------------------------------------------
(* Properties.                                                             *)

TypeOK ==
    /\ keys \in [KeyIds -> Document \cup {None}]
    /\ underscored \subseteq Requests
    /\ pc \in [Requests -> {"idle", "revoke", "rotate", "compare",
                            "increment", "ttl", "use", "done"}]
    /\ target \in [Requests -> KeyIds \cup {None}]
    /\ raw \in [Requests -> Requests \cup {None}]
    /\ snap \in [Requests -> Document \cup {None}]
    /\ mem \in [Requests -> Document \cup {None}]
    /\ at \in [Requests -> Nat]
    /\ hits \in [Requests -> Nat]
    /\ countedIn \in [Requests -> Nat \cup {None}]
    /\ reply \in [Requests -> Replies \cup {None}]
    /\ RedisTypeOK
    /\ now \in 0..MaxTime

\* revokeKey: a key that is not active is never active again, although a
\* rotation or a use that loaded it while it was active is saved afterwards.
RevokedIsFinal ==
    [][\A k \in KeyIds :
          keys[k] # None /\ ~keys[k].isActive => ~keys'[k].isActive]_vars

\* rotateKey: a raw key that was replaced never works again: prefix and hash
\* only ever change, and together, to those of a key nobody was given yet.
ReplacedNeverReturns ==
    [][\A k \in KeyIds :
          /\ keys[k] # None /\ keys'[k].prefix # keys[k].prefix =>
                keys'[k].prefix \notin Issued
          /\ keys'[k] # None => keys'[k].prefix = keys'[k].hash]_vars

\* validate: once a revocation has been answered, no request that starts later
\* gets past the checks; nor does one with a raw key that was replaced.
LateRequestsRefused ==
    [][\A r \in Requests :
          pc[r] = "idle" /\ pc'[r] = "compare" =>
              /\ raw'[r] = keys[target'[r]].prefix
              /\ \A q \in Requests :
                    reply[q] = "revoked" => target[q] # target'[r]]_vars

\* usageCount never claims more uses than were accepted: saves of stale counts
\* lose uses, and can undo a rotation's reset, but invent none.
UsageIsReal ==
    \A k \in KeyIds :
        keys[k] # None =>
            keys[k].usageCount <=
                Cardinality({r \in Requests : /\ target[r] = k
                                              /\ reply[r] = "accepted"})

\* enforceApiKeyRateLimit: while Redis answers, no raw key is accepted more
\* often than the limit by uses that were counted in one window, however late
\* they are decided.
RedisHoldsLimit ==
    \A w \in Requests, k \in KeyIds, n \in 0..MaxTime :
        LET accepted == {r \in Requests : /\ raw[r] = w
                                          /\ target[r] = k
                                          /\ reply[r] = "accepted"
                                          /\ countedIn[r] = n}
        IN  accepted # {} =>
                Cardinality(accepted) <= keys[k].rateLimitPerMinute

\* applyDocumentRateLimitFallback: a key is not accepted in one window more
\* often than its limit when Redis does not answer.
FallbackHoldsLimit ==
    \A k \in KeyIds :
        keys[k] # None /\ keys[k].rateLimitPerMinute > 0 =>
            \A t \in 0..MaxTime :
                Cardinality({r \in Requests :
                                /\ target[r] = k
                                /\ reply[r] = "accepted"
                                /\ hits[r] = 0
                                /\ mem[r].currentMinuteWindow = t})
                    <= keys[k].rateLimitPerMinute

\* createKey and rotateKey give out the raw key once; validate accepts it while
\* its document holds it and is active and not expired.
IssuedKeyIsAccepted ==
    [][\A r \in Requests :
          pc[r] = "idle" /\ reply'[r] = "null" =>
              \A k \in KeyIds : ~Accepts(k, raw'[r])]_vars
=============================================================================
