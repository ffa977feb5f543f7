---------------------------- MODULE RateLimiter ----------------------------
(***************************************************************************)
(* RedisRateLimitMiddleware (src/src/common/middleware/                    *)
(* redis-rate-limit.middleware.ts) over RedisService, and the ioredis      *)
(* client as src/src/common/redis/redis.module.ts configures it.           *)
(*                                                                         *)
(* checkRateLimit sends the increment, awaits its result, then sends TTL.  *)
(* maxRetriesPerRequest is null: while the connection is down a command    *)
(* waits in the client, for ever if need be, and every command that was    *)
(* sent but not answered when the connection broke is sent again, whether  *)
(* Redis has run it, or will, or never does.                               *)
(***************************************************************************)
EXTENDS RedisService, FiniteSets

CONSTANTS
    Requests,       \* the HTTP requests
    Limits,         \* values RATE_LIMIT_MAX_REQUESTS may have
    MaxWindows,     \* bound: windows of a key
    MaxBreaks,      \* bound: breaks of the connection
    None

ASSUME LimitsAssumption ==
    Limits \subseteq Nat /\ MaxWindows \in Nat /\ MaxBreaks \in Nat

ASSUME RequestsAssumption == IsFiniteSet(Requests)

ASSUME NoneAssumption == None \notin Nat

VARIABLES
    maxRequests,    \* the configured limit
    pc,             \* pc[r]: what request r awaits, or how it ended
    key,            \* key[r]: the counter of r's address, method and path
    hits,           \* hits[r]: the count that r's increment answered
    countedIn,      \* countedIn[r]: the window r's increment ran in
    up,             \* the connection to Redis is up
    breaks,         \* how often it broke
    again,          \* the increments sent again, as <<request, break>>
    strays          \* those of again whose first sending Redis may still run

requestVars == <<pc, key, hits, countedIn>>
connectionVars == <<up, breaks, again, strays>>
vars == <<redisVars, maxRequests, requestVars, connectionVars>>

Init ==
    /\ RedisInit
    /\ maxRequests \in Limits
    /\ pc = [r \in Requests |-> "idle"]
    /\ key = [r \in Requests |-> None]
    /\ hits = [r \in Requests |-> 0]
    /\ countedIn = [r \in Requests |-> None]
    /\ up = TRUE
    /\ breaks = 0
    /\ again = {}
    /\ strays = {}
----------------------------------------------------------------------------
\* r passes, or is refused; nothing else happens.
End(r, how) ==
    /\ pc' = [pc EXCEPT ![r] = how]
    /\ UNCHANGED <<redisVars, maxRequests, key, hits, countedIn, connectionVars>>

\* The limiter is switched off by a limit of 0.
Unlimited(r) == pc[r] = "idle" /\ maxRequests = 0 /\ End(r, "passed")

\* r hands its increment to the client, which sends it or queues it.
Check(r) ==
    /\ pc[r] = "idle"
    /\ maxRequests > 0
    /\ \E k \in CounterKeys : key' = [key EXCEPT ![r] = k]
    /\ pc' = [pc EXCEPT ![r] = "increment"]
    /\ UNCHANGED <<redisVars, maxRequests, hits, countedIn, connectionVars>>

\* The script runs.  Its result is on its way; when it arrives, r asks for TTL.
Incremented(r) ==
    /\ pc[r] = "increment"
    /\ up
    /\ IncrementWithWindow(key[r])
    /\ hits' = [hits EXCEPT ![r] = count'[key[r]]]
    /\ countedIn' = [countedIn EXCEPT ![r] = window[key[r]]]
    /\ pc' = [pc EXCEPT ![r] = "ttl"]
    /\ UNCHANGED <<maxRequests, key, connectionVars>>

\* Mutant: the request that reaches the limit is refused.
BelowLimit(r) == hits[r] < maxRequests

Allowed(r) == hits[r] <= maxRequests

\* Mutant: TTL is asked again until the key has a life.
DecidedWithTtl(r) ==
    /\ pc[r] = "ttl"
    /\ up
    /\ ttl[key[r]] > 0
    /\ End(r, IF Allowed(r) THEN "passed" ELSE "limited")

\* TTL is answered, whether the key still exists or not; r passes or gets 429.
Decided(r) ==
    /\ pc[r] = "ttl"
    /\ up
    /\ End(r, IF Allowed(r) THEN "passed" ELSE "limited")

\* Redis answers with an error: the limiter lets r pass.
FailOpen(r) == pc[r] \in {"increment", "ttl"} /\ up /\ End(r, "failedOpen")

\* The connection breaks.  The results of some requests were on their way and
\* are lost.  The client will send again all increments that have no result, of
\* which those that Redis has not run yet may have reached it all the same.
Break ==
    /\ up
    /\ breaks < MaxBreaks
    /\ up' = FALSE
    /\ breaks' = breaks + 1
    /\ \E lost \in SUBSET {r \in Requests : pc[r] = "ttl"} :
          LET sent == {r \in Requests : pc[r] = "increment"}
          IN  /\ pc' = [r \in Requests |->
                            IF r \in lost THEN "increment" ELSE pc[r]]
              /\ hits' = [r \in Requests |-> IF r \in lost THEN 0 ELSE hits[r]]
              /\ countedIn' = [r \in Requests |->
                                   IF r \in lost THEN None ELSE countedIn[r]]
              /\ again' = again \cup ((sent \cup lost) \X {breaks})
              /\ strays' = strays \cup (sent \X {breaks})
    /\ UNCHANGED <<redisVars, maxRequests, key>>

\* Redis runs an increment that came by a connection that has broken since.
RunStray ==
    /\ \E s \in strays :
          IncrementWithWindow(key[s[1]]) /\ strays' = strays \ {s}
    /\ UNCHANGED <<maxRequests, requestVars, up, breaks, again>>

Reconnect ==
    /\ ~up
    /\ up' = TRUE
    /\ UNCHANGED <<redisVars, maxRequests, requestVars, breaks, again, strays>>

Tick ==
    /\ \E k \in CounterKeys : ttl[k] > 0
    /\ \A k \in Expiring : window[k] < MaxWindows
    /\ Elapse
    /\ UNCHANGED <<maxRequests, requestVars, connectionVars>>

Answered(r) == Incremented(r) \/ Decided(r)

Next ==
    \/ \E r \in Requests :
          \/ Unlimited(r) \/ Check(r) \/ Incremented(r)
          \/ Decided(r) \/ FailOpen(r)
    \/ Break
    \/ RunStray
    \/ Reconnect
    \/ Tick

Spec == Init /\ [][Next]_vars

\* While the connection is up, Redis answers what it is asked.  That it ever
\* comes back is not assumed.
FairSpec == Spec /\ \A r \in Requests : WF_vars(Answered(r))
----------------------------------------------------------------------------
(* Properties.                                                             *)

Ended == {"passed", "limited", "failedOpen"}

TypeOK ==
    /\ RedisTypeOK
    /\ maxRequests \in Limits
    /\ pc \in [Requests -> {"idle", "increment", "ttl"} \cup Ended]
    /\ key \in [Requests -> CounterKeys \cup {None}]
    /\ hits \in [Requests -> Nat]
    /\ countedIn \in [Requests -> Nat \cup {None}]
    /\ up \in BOOLEAN
    /\ breaks \in 0..MaxBreaks
    /\ again \subseteq Requests \X (0..MaxBreaks)
    /\ strays \subseteq again

\* The requests that the limit let pass in window w of key k.
PassedIn(k, w) ==
    {r \in Requests : /\ pc[r] = "passed"
                      /\ key[r] = k
                      /\ countedIn[r] = w}

\* use, `allowed: count <= maxRequests': however many requests are between
\* their increment and their decision, no window lets more than the limit
\* pass; an increment that the client sent twice takes from the limit only.
WithinLimit ==
    \A k \in CounterKeys, w \in 0..MaxWindows :
        Cardinality(PassedIn(k, w)) <= maxRequests

\* The requests that window w of key k counted, as their answers say.
CountedIn(k, w) == {r \in Requests : key[r] = k /\ countedIn[r] = w}

\* The increments of key k that were sent again.
AgainFor(k) == {s \in again : key[s[1]] = k}

\* A client is refused only if it made more requests than the limit, or the
\* connection is to blame: the window that counted the request ran the script
\* for the requests that it counted, and else only for increments that the
\* client sent a second time.
RefusedOnlyWhenFull ==
    \A r \in Requests :
        pc[r] = "limited" =>
            Cardinality(CountedIn(key[r], countedIn[r]))
                + Cardinality(AgainFor(key[r])) > maxRequests

\* Once the connection stays up, every request that was checked is answered,
\* even if its window ended between its increment and its TTL.
AnsweredOnceUp ==
    \A r \in Requests :
        <>[]up => (pc[r] \in {"increment", "ttl"} ~> pc[r] \in Ended)

\* use, "Fail open to avoid full API outage when Redis is unreachable": a
\* request that is checked is answered, whether Redis is reachable or not.
FailsOpen ==
    \A r \in Requests : pc[r] \in {"increment", "ttl"} ~> pc[r] \in Ended
=============================================================================
