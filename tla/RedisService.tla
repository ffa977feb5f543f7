--------------------------- MODULE RedisService ---------------------------
(***************************************************************************)
(* The counters that src/src/common/redis/redis.service.ts keeps in Redis: *)
(* a key is counted up, and lives for one window from its first count on.  *)
(*                                                                         *)
(* This module holds the state and its operations.  Who calls them, and    *)
(* what happens between the calls, is in RateLimiter and in ApiKeys.       *)
(***************************************************************************)
EXTENDS Naturals

CONSTANTS
    CounterKeys,    \* the Redis keys
    WindowSec       \* length of a window, in ticks of the Redis clock

ASSUME WindowAssumption == WindowSec \in Nat \ {0}

VARIABLES
    count,      \* count[k]: the value of k; 0 if the key does not exist
    ttl,        \* ttl[k]: what is left of k's life; 0 if none is set
    window      \* window[k]: the lives of k that have ended, a history

redisVars == <<count, ttl, window>>

RedisInit ==
    /\ count = [k \in CounterKeys |-> 0]
    /\ ttl = [k \in CounterKeys |-> 0]
    /\ window = [k \in CounterKeys |-> 0]

\* Mutant: the life is set when the counter was 1 before.
IncrementLate(k) ==
    /\ count' = [count EXCEPT ![k] = @ + 1]
    /\ ttl' = [ttl EXCEPT ![k] = IF count[k] = 1 THEN WindowSec ELSE @]
    /\ UNCHANGED window

\* Mutant: every increment lengthens the life.
IncrementLonger(k) ==
    /\ count' = [count EXCEPT ![k] = @ + 1]
    /\ ttl' = [ttl EXCEPT ![k] = @ + WindowSec]
    /\ UNCHANGED window

\* Mutant: the counter is read and written back; another increment got between.
IncrementStale(k) ==
    /\ \/ /\ count' = [count EXCEPT ![k] = @ + 1]
          /\ ttl' = [ttl EXCEPT ![k] = IF count[k] = 0 THEN WindowSec ELSE @]
       \/ count[k] > 0 /\ UNCHANGED <<count, ttl>>
    /\ UNCHANGED window

\* The Lua script: INCR, and EXPIRE if that made it 1.  Redis runs a script
\* atomically.
IncrementWithWindow(k) ==
    /\ count' = [count EXCEPT ![k] = @ + 1]
    /\ ttl' = [ttl EXCEPT ![k] = IF count[k] = 0 THEN WindowSec ELSE @]
    /\ UNCHANGED window

\* One tick: a key whose life ends is deleted.  A key without a life stays.
Elapse ==
    /\ ttl' = [k \in CounterKeys |-> IF ttl[k] > 0 THEN ttl[k] - 1 ELSE 0]
    /\ count' = [k \in CounterKeys |-> IF ttl[k] = 1 THEN 0 ELSE count[k]]
    /\ window' = [k \in CounterKeys |->
                     IF ttl[k] = 1 THEN window[k] + 1 ELSE window[k]]

\* The keys that the next tick deletes.
Expiring == {k \in CounterKeys : ttl[k] = 1}

\* checkRateLimit's retryAfter: what TTL answers, or the whole window if the
\* key is gone by then.
RetryAfter(k) == IF ttl[k] > 0 THEN ttl[k] ELSE WindowSec

RedisTypeOK ==
    /\ count \in [CounterKeys -> Nat]
    /\ ttl \in [CounterKeys -> 0..WindowSec]
    /\ window \in [CounterKeys -> Nat]

\* incrementWithWindow: a counter that was started always has a life, so no
\* client is refused for ever, and a life belongs to a counter that counts.
CountersExpire == \A k \in CounterKeys : count[k] > 0 <=> ttl[k] > 0
=============================================================================
