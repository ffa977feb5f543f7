-------------------------- MODULE RateLimiterProofs --------------------------
(***************************************************************************)
(* Theorems about RateLimiter, for every set of requests and counters and  *)
(* every limit.                                                            *)
(*                                                                         *)
(* They rest on one invariant about the answers that the requests hold:    *)
(* the counts answered in one window are all different, none is ahead of   *)
(* the counter, and the counter has counted requests that have their count *)
(* and increments that were sent again only.                               *)
(***************************************************************************)
EXTENDS RateLimiter, Integers, FiniteSetTheorems, TLAPS

\* A request that awaits Redis has a key; one that was counted has an answer.
Answers ==
    \A r \in Requests :
        /\ pc[r] \in {"increment", "ttl", "limited"} => key[r] \in CounterKeys
        /\ pc[r] \in {"idle", "increment"} => countedIn[r] = None
        /\ pc[r] \in {"ttl", "limited"} => countedIn[r] \in Nat
        /\ countedIn[r] \in Nat =>
              key[r] \in CounterKeys /\ hits[r] \in Nat \ {0}

\* The counts of the current window are not ahead of its counter, and no count
\* is of a window to come.
NotAhead ==
    \A r \in Requests :
        countedIn[r] \in Nat =>
            /\ countedIn[r] <= window[key[r]]
            /\ countedIn[r] = window[key[r]] => hits[r] <= count[key[r]]

\* No two requests got the same count in one window.
Distinct ==
    \A q, r \in Requests :
        countedIn[r] \in Nat /\ countedIn[q] = countedIn[r] /\ key[q] = key[r]
            /\ hits[q] = hits[r] => q = r

\* Who passes by the limit, and who is refused.
Decisions ==
    \A r \in Requests :
        /\ pc[r] = "passed" /\ countedIn[r] \in Nat => hits[r] <= maxRequests
        /\ pc[r] = "limited" => hits[r] > maxRequests

\* An increment is sent again after an earlier break, by a request that has
\* been checked.
SentBefore ==
    \A s \in again :
        /\ s[2] < breaks
        /\ pc[s[1]] # "idle"
        /\ key[s[1]] \in CounterKeys

\* The increments for k that were sent again and that Redis may have run before.
RanFor(k) == {s \in AgainFor(k) : s \notin strays}

\* As often may the script have run for k in window w.
Runs(k, w) == Cardinality(CountedIn(k, w)) + Cardinality(RanFor(k))

\* A counter has counted the requests that have their count of it, and for the
\* rest increments that were sent again.
AllCounted ==
    \A k \in CounterKeys, w \in Nat :
        /\ window[k] = w => count[k] <= Runs(k, w)
        /\ \A r \in CountedIn(k, w) : hits[r] <= Runs(k, w)

Inv ==
    /\ TypeOK /\ CountersExpire /\ Answers /\ NotAhead /\ Distinct /\ Decisions
    /\ SentBefore /\ AllCounted
----------------------------------------------------------------------------
(* The sets that are counted are finite.                                   *)

LEMMA CountedInFinite ==
    ASSUME NEW k, NEW w
    PROVE  /\ IsFiniteSet(CountedIn(k, w))
           /\ Cardinality(CountedIn(k, w)) \in Nat
<1>1. CountedIn(k, w) \in SUBSET Requests
  BY DEF CountedIn
<1>. QED  BY <1>1, RequestsAssumption, FS_Subset, FS_CardinalityType

LEMMA RanForFinite ==
    ASSUME TypeOK, NEW k
    PROVE  /\ IsFiniteSet(RanFor(k)) /\ Cardinality(RanFor(k)) \in Nat
           /\ IsFiniteSet(AgainFor(k)) /\ Cardinality(AgainFor(k)) \in Nat
           /\ Cardinality(RanFor(k)) <= Cardinality(AgainFor(k))
<1>1. IsFiniteSet(0..MaxBreaks)
  BY LimitsAssumption, FS_Interval
<1>2. IsFiniteSet(Requests \X (0..MaxBreaks))
  BY <1>1, RequestsAssumption, FS_Product
<1>3. AgainFor(k) \in SUBSET (Requests \X (0..MaxBreaks))
  BY DEF TypeOK, AgainFor
<1>4. IsFiniteSet(AgainFor(k)) /\ RanFor(k) \in SUBSET AgainFor(k)
  BY <1>2, <1>3, FS_Subset DEF RanFor
<1>. QED  BY <1>4, FS_Subset, FS_CardinalityType

LEMMA RunsNat ==
    ASSUME TypeOK, NEW k, NEW w
    PROVE  Runs(k, w) \in Nat
BY CountedInFinite, RanForFinite DEF Runs

\* The same of the state after a step.
LEMMA NextFinite ==
    TypeOK' => (\A k, w : /\ Runs(k, w) \in Nat
                          /\ IsFiniteSet(RanFor(k))
                          /\ Cardinality(RanFor(k)) \in Nat)'
<1>1. TypeOK => \A k, w : /\ Runs(k, w) \in Nat
                          /\ IsFiniteSet(RanFor(k))
                          /\ Cardinality(RanFor(k)) \in Nat
  BY RunsNat, RanForFinite
<1>. QED  BY <1>1, PTL
----------------------------------------------------------------------------
(* Every step keeps the invariant.                                         *)

\* Where the script does not run, AllCounted stays: counters stand or are
\* deleted, no request gets a count, and none that had one is forgotten unless
\* its increment is sent again.
LEMMA NoRunKeeps ==
    ASSUME Inv, TypeOK',
           \A k \in CounterKeys, w \in Nat : Runs(k, w) <= Runs(k, w)',
           \A k \in CounterKeys :
               \/ count'[k] = 0
               \/ count'[k] = count[k] /\ window'[k] = window[k],
           \A r \in Requests :
               countedIn'[r] \in Nat =>
                   /\ countedIn'[r] = countedIn[r] /\ hits'[r] = hits[r]
                   /\ key'[r] = key[r]
    PROVE  AllCounted'
<1>1. ASSUME NEW k \in CounterKeys, NEW w \in Nat
      PROVE  /\ window'[k] = w => count'[k] <= Runs(k, w)'
             /\ \A r \in CountedIn(k, w)' : hits'[r] <= Runs(k, w)'
  <2>1. PICK m \in Nat, n \in Nat : m = Runs(k, w) /\ n = Runs(k, w)'
    <3>1. Runs(k, w) \in Nat
      BY RunsNat DEF Inv
    <3>2. Runs(k, w)' \in Nat
      BY NextFinite
    <3>. QED  BY <3>1, <3>2
  <2>2. m <= n
    BY <2>1
  <2>3. /\ window[k] = w => count[k] <= m
        /\ \A r \in CountedIn(k, w) : hits[r] <= m /\ hits[r] \in Nat
    BY <2>1 DEF Inv, AllCounted, TypeOK, CountedIn
  <2>4. count[k] \in Nat
    BY DEF Inv, TypeOK, RedisTypeOK
  <2>5. ASSUME NEW r \in CountedIn(k, w)'
        PROVE  r \in CountedIn(k, w) /\ hits'[r] = hits[r]
    BY <2>5 DEF CountedIn
  <2>6. window'[k] = w => count'[k] <= n
    BY <2>2, <2>3, <2>4
  <2>7. ASSUME NEW r \in CountedIn(k, w)'
        PROVE  hits'[r] <= n
    BY <2>2, <2>3, <2>5
  <2>. QED  BY <2>1, <2>6, <2>7
<1>. QED  BY <1>1 DEF AllCounted

\* The parts of the invariant that say nothing of the phase of the requests
\* stay when only the phase of one changes.
LEMMA EndKeeps ==
    ASSUME Inv, NEW r \in Requests, NEW how \in Ended, End(r, how),
           how = "passed" /\ countedIn[r] \in Nat => hits[r] <= maxRequests,
           how = "limited" => /\ countedIn[r] \in Nat
                              /\ hits[r] > maxRequests
    PROVE  Inv'
<1>1. TypeOK' /\ CountersExpire'
  BY DEF Inv, TypeOK, RedisTypeOK, CountersExpire, End, redisVars, connectionVars
<1>2. Answers' /\ Decisions'
  BY DEF Inv, TypeOK, Answers, Decisions, End, Ended
<1>3. NotAhead' /\ Distinct'
  BY DEF Inv, NotAhead, Distinct, End, redisVars
<1>4. SentBefore'
  BY DEF Inv, TypeOK, SentBefore, End, Ended, connectionVars
<1>5. ASSUME NEW k, NEW w PROVE Runs(k, w)' = Runs(k, w)
  BY DEF Runs, CountedIn, RanFor, AgainFor, End, connectionVars
<1>6. AllCounted'
  BY <1>5 DEF Inv, AllCounted, CountedIn, End, redisVars
<1>. QED  BY <1>1, <1>2, <1>3, <1>4, <1>6 DEF Inv

LEMMA CheckKeeps ==
    ASSUME Inv, NEW r \in Requests, Check(r)
    PROVE  Inv'
<1>1. PICK k \in CounterKeys :
        /\ pc[r] = "idle"
        /\ key' = [key EXCEPT ![r] = k]
        /\ pc' = [pc EXCEPT ![r] = "increment"]
        /\ UNCHANGED <<redisVars, maxRequests, hits, countedIn, connectionVars>>
  BY DEF Check
<1>2. countedIn[r] = None
  BY <1>1 DEF Inv, Answers
<1>3. TypeOK' /\ CountersExpire'
  BY <1>1 DEF Inv, TypeOK, RedisTypeOK, CountersExpire, redisVars, connectionVars
<1>4. Answers' /\ Decisions'
  BY <1>1, <1>2, NoneAssumption DEF Inv, TypeOK, Answers, Decisions
<1>5. NotAhead' /\ Distinct'
  BY <1>1, <1>2, NoneAssumption DEF Inv, TypeOK, NotAhead, Distinct, redisVars
<1>6. \A s \in again : s[1] # r /\ s[1] \in Requests
  BY <1>1 DEF Inv, SentBefore, TypeOK
<1>7. SentBefore'
  BY <1>1, <1>6 DEF Inv, TypeOK, SentBefore, connectionVars
<1>8. ASSUME NEW j \in CounterKeys, NEW w \in Nat
      PROVE  Runs(j, w)' = Runs(j, w)
  <2>1. CountedIn(j, w)' = CountedIn(j, w)
    BY <1>1, <1>2, NoneAssumption DEF CountedIn, Inv, TypeOK
  <2>2. AgainFor(j)' = AgainFor(j)
    BY <1>1, <1>6 DEF AgainFor, Inv, TypeOK, connectionVars
  <2>. QED  BY <1>1, <2>1, <2>2 DEF Runs, RanFor, connectionVars
<1>9. AllCounted'
  <2>1. \A q \in Requests :
           countedIn'[q] \in Nat =>
               /\ countedIn'[q] = countedIn[q] /\ hits'[q] = hits[q]
               /\ key'[q] = key[q]
    BY <1>1, <1>2, NoneAssumption DEF Inv, TypeOK
  <2>2. \A j \in CounterKeys, w \in Nat : Runs(j, w) <= Runs(j, w)'
    BY <1>8, RunsNat DEF Inv
  <2>. QED  BY <1>1, <1>3, <2>1, <2>2, NoRunKeeps DEF redisVars
<1>. QED  BY <1>3, <1>4, <1>5, <1>7, <1>9 DEF Inv

\* The script counts, and gives a life to what it starts.
LEMMA IncrementKeeps ==
    ASSUME RedisTypeOK, CountersExpire, NEW k \in CounterKeys,
           IncrementWithWindow(k)
    PROVE  /\ RedisTypeOK' /\ CountersExpire'
           /\ count' = [count EXCEPT ![k] = count[k] + 1]
           /\ window' = window
<1>1. RedisTypeOK'
  BY WindowAssumption DEF RedisTypeOK, IncrementWithWindow
<1>2. ASSUME NEW j \in CounterKeys
      PROVE  count'[j] > 0 <=> ttl'[j] > 0
  <2>1. CASE j = k
    BY <2>1, WindowAssumption
       DEF RedisTypeOK, CountersExpire, IncrementWithWindow
  <2>2. CASE j # k
    BY <2>2 DEF RedisTypeOK, CountersExpire, IncrementWithWindow
  <2>. QED  BY <2>1, <2>2
<1>. QED  BY <1>1, <1>2 DEF CountersExpire, IncrementWithWindow

\* The count that is answered is new in its window, and there is one request
\* more that the window has counted.
LEMMA IncrementedKeeps ==
    ASSUME Inv, NEW r \in Requests, Incremented(r)
    PROVE  Inv'
<1>. PICK k \in CounterKeys : k = key[r]
  BY DEF Inv, Answers, Incremented
<1>. PICK n : n = count[k] + 1
  OBVIOUS
<1>. PICK w : w = window[k]
  OBVIOUS
<1>1. /\ count[k] \in Nat /\ n \in Nat \ {0} /\ w \in Nat
      /\ window \in [CounterKeys -> Nat] /\ count \in [CounterKeys -> Nat]
  BY DEF Inv, TypeOK, RedisTypeOK
<1>2. /\ pc[r] = "increment" /\ countedIn[r] = None
      /\ RedisTypeOK' /\ CountersExpire'
      /\ count' = [count EXCEPT ![k] = n]
      /\ hits' = [hits EXCEPT ![r] = n]
      /\ countedIn' = [countedIn EXCEPT ![r] = w]
      /\ pc' = [pc EXCEPT ![r] = "ttl"]
      /\ UNCHANGED <<maxRequests, key, connectionVars, window>>
  <2>1. IncrementWithWindow(k) /\ pc[r] = "increment"
    BY DEF Incremented
  <2>2. RedisTypeOK /\ CountersExpire
    BY DEF Inv, TypeOK
  <2>3. /\ RedisTypeOK' /\ CountersExpire' /\ window' = window
        /\ count' = [count EXCEPT ![k] = n]
    BY <2>1, <2>2, IncrementKeeps
  <2>4. countedIn[r] = None
    BY <2>1 DEF Inv, Answers
  <2>5. count'[k] = n
    BY <1>1, <2>3
  <2>. QED  BY <2>1, <2>3, <2>4, <2>5 DEF Incremented
<1>3. TypeOK'
  BY <1>1, <1>2 DEF Inv, TypeOK, connectionVars
<1>4. Answers' /\ Decisions'
  BY <1>1, <1>2, NoneAssumption DEF Inv, TypeOK, Answers, Decisions
<1>5. NotAhead'
  <2>1. ASSUME NEW q \in Requests, countedIn'[q] \in Nat
        PROVE  /\ countedIn'[q] <= window'[key'[q]]
               /\ countedIn'[q] = window'[key'[q]] => hits'[q] <= count'[key'[q]]
    <3>1. CASE q = r
      BY <1>1, <1>2, <3>1 DEF Inv, TypeOK
    <3>2. CASE q # r
      <4>1. /\ countedIn[q] \in Nat /\ key[q] \in CounterKeys
            /\ countedIn'[q] = countedIn[q] /\ hits'[q] = hits[q]
            /\ hits[q] \in Nat
        BY <1>2, <2>1, <3>2 DEF Inv, TypeOK, Answers
      <4>. QED  BY <1>1, <1>2, <4>1 DEF Inv, NotAhead
    <3>. QED  BY <3>1, <3>2
  <2>. QED  BY <2>1 DEF NotAhead
<1>6. Distinct'
  <2>1. ASSUME NEW q \in Requests \ {r}, countedIn[q] = w, key[q] = k
        PROVE  hits[q] < n
    BY <1>1, <2>1 DEF Inv, TypeOK, NotAhead
  <2>. QED  BY <1>1, <1>2, <2>1, NoneAssumption DEF Inv, TypeOK, Distinct
<1>7. AllCounted'
  <2>1. ASSUME NEW j \in CounterKeys, NEW v \in Nat, <<j, v>> # <<k, w>>
        PROVE  CountedIn(j, v)' = CountedIn(j, v)
    BY <1>1, <1>2, <2>1, NoneAssumption DEF CountedIn, Inv, TypeOK
  <2>2. /\ CountedIn(k, w)' = CountedIn(k, w) \cup {r}
        /\ r \notin CountedIn(k, w)
    BY <1>1, <1>2, NoneAssumption DEF CountedIn, Inv, TypeOK
  <2>3. Cardinality(CountedIn(k, w)') = Cardinality(CountedIn(k, w)) + 1
    <3>. PICK S : S = CountedIn(k, w)
      OBVIOUS
    <3>1. IsFiniteSet(S) /\ r \notin S /\ CountedIn(k, w)' = S \cup {r}
      BY <2>2, CountedInFinite
    <3>2. Cardinality(S \cup {r}) = Cardinality(S) + 1
      BY <3>1, FS_AddElement
    <3>. QED  BY <3>1, <3>2
  <2>4. ASSUME NEW j  PROVE RanFor(j)' = RanFor(j)
    BY <1>2 DEF RanFor, AgainFor, connectionVars
  <2>5. PICK m \in Nat : m = Runs(k, w)
    BY RunsNat DEF Inv
  <2>6. Runs(k, w)' = m + 1
    BY <2>3, <2>4, <2>5, CountedInFinite, RanForFinite DEF Runs, Inv
  <2>7. ASSUME NEW j \in CounterKeys, NEW v \in Nat, <<j, v>> # <<k, w>>
        PROVE  Runs(j, v)' = Runs(j, v)
    BY <2>1, <2>4, <2>7 DEF Runs
  <2>8. count[k] <= m /\ \A q \in CountedIn(k, w) : hits[q] <= m
    BY <1>1, <2>5 DEF Inv, AllCounted
  <2>9. hits'[r] = n /\ n <= m + 1
    BY <1>1, <1>2, <2>8 DEF Inv, TypeOK
  <2>10. ASSUME NEW q \in CountedIn(k, w)
         PROVE  hits'[q] <= m + 1
    <3>1. hits[q] <= m /\ hits[q] \in Nat /\ hits'[q] = hits[q]
      BY <1>1, <1>2, <2>2, <2>8, <2>10 DEF Inv, TypeOK, CountedIn
    <3>. QED  BY <3>1
  <2>11. ASSUME NEW j \in CounterKeys, NEW v \in Nat
         PROVE  /\ window'[j] = v => count'[j] <= Runs(j, v)'
                /\ \A q \in CountedIn(j, v)' : hits'[q] <= Runs(j, v)'
    <3>1. CASE j = k /\ v = w
      BY <1>1, <1>2, <2>2, <2>6, <2>9, <2>10, <3>1
    <3>2. CASE j # k
      BY <1>1, <1>2, <2>1, <2>2, <2>7, <3>2 DEF Inv, TypeOK, AllCounted, CountedIn
    <3>3. CASE j = k /\ v # w
      BY <1>1, <1>2, <2>1, <2>2, <2>7, <3>3 DEF Inv, TypeOK, AllCounted, CountedIn
    <3>. QED  BY <3>1, <3>2, <3>3
  <2>. QED  BY <2>11 DEF AllCounted
<1>8. SentBefore'
  BY <1>2 DEF Inv, TypeOK, SentBefore, connectionVars
<1>. QED  BY <1>2, <1>3, <1>4, <1>5, <1>6, <1>7, <1>8 DEF Inv

\* What is counted twice is paid for by an increment that was sent again.
LEMMA RunStrayKeeps ==
    ASSUME Inv, RunStray
    PROVE  Inv'
<1>1. PICK s \in strays :
        /\ IncrementWithWindow(key[s[1]])
        /\ strays' = strays \ {s}
        /\ UNCHANGED <<maxRequests, requestVars, up, breaks, again>>
  BY DEF RunStray
<1>2. s \in again
  BY DEF Inv, TypeOK
<1>. PICK k \in CounterKeys : k = key[s[1]]
  BY <1>2 DEF Inv, SentBefore
<1>3. /\ RedisTypeOK' /\ CountersExpire'
      /\ count' = [count EXCEPT ![k] = count[k] + 1]
      /\ UNCHANGED <<maxRequests, pc, key, hits, countedIn, up, breaks, again,
                     window>>
  BY <1>1, IncrementKeeps DEF Inv, TypeOK, requestVars
<1>4. /\ count \in [CounterKeys -> Nat] /\ hits \in [Requests -> Nat]
  BY DEF Inv, TypeOK, RedisTypeOK
<1>5. TypeOK'
  BY <1>1, <1>3 DEF Inv, TypeOK
<1>6. Answers' /\ Decisions' /\ Distinct' /\ SentBefore'
  BY <1>3 DEF Inv, Answers, Decisions, Distinct, SentBefore
<1>7. \A j \in CounterKeys : count[j] <= count'[j] /\ count'[j] \in Nat
  BY <1>3, <1>4
<1>8. NotAhead'
  <2>1. ASSUME NEW q \in Requests, countedIn[q] \in Nat
        PROVE  key[q] \in CounterKeys /\ hits[q] \in Nat
    BY <1>4, <2>1 DEF Inv, Answers
  <2>. QED  BY <1>3, <1>4, <1>7, <2>1 DEF Inv, NotAhead
<1>9. AllCounted'
  <2>1. ASSUME NEW j, NEW v  PROVE CountedIn(j, v)' = CountedIn(j, v)
    BY <1>3 DEF CountedIn
  <2>2. RanFor(k)' = RanFor(k) \cup {s} /\ s \notin RanFor(k)
    BY <1>1, <1>2, <1>3 DEF RanFor, AgainFor
  <2>3. \A j \in CounterKeys \ {k} : RanFor(j)' = RanFor(j)
    BY <1>1, <1>3 DEF RanFor, AgainFor
  <2>4. Cardinality(RanFor(k)') = Cardinality(RanFor(k)) + 1
    <3>. PICK S : S = RanFor(k)
      OBVIOUS
    <3>1. IsFiniteSet(S) /\ s \notin S /\ RanFor(k)' = S \cup {s}
      BY <2>2, RanForFinite DEF Inv
    <3>2. Cardinality(S \cup {s}) = Cardinality(S) + 1
      BY <3>1, FS_AddElement
    <3>. QED  BY <3>1, <3>2
  <2>5. ASSUME NEW v \in Nat
        PROVE  Runs(k, v)' = Runs(k, v) + 1
    BY <2>1, <2>4, CountedInFinite, RanForFinite DEF Runs, Inv
  <2>6. \A j \in CounterKeys \ {k}, v \in Nat : Runs(j, v)' = Runs(j, v)
    BY <2>1, <2>3 DEF Runs
  <2>7. ASSUME NEW j \in CounterKeys, NEW v \in Nat
        PROVE  /\ window'[j] = v => count'[j] <= Runs(j, v)'
               /\ \A q \in CountedIn(j, v)' : hits'[q] <= Runs(j, v)'
    <3>1. PICK m \in Nat : m = Runs(j, v)
      BY RunsNat DEF Inv
    <3>2. /\ window[j] = v => count[j] <= m
          /\ \A q \in CountedIn(j, v) : hits[q] <= m /\ hits[q] \in Nat
      BY <1>4, <3>1 DEF Inv, AllCounted, CountedIn
    <3>3. CASE j = k
      BY <1>3, <1>4, <2>1, <2>5, <3>1, <3>2, <3>3
    <3>4. CASE j # k
      BY <1>3, <1>4, <2>1, <2>6, <3>1, <3>2, <3>4
    <3>. QED  BY <3>3, <3>4
  <2>. QED  BY <2>7 DEF AllCounted
<1>. QED  BY <1>3, <1>5, <1>6, <1>8, <1>9 DEF Inv

\* The requests whose results a break loses are as many as the increments that
\* are sent again on their behalf.
LEMMA LostAreAgain ==
    ASSUME TypeOK, TypeOK', NEW lost \in SUBSET Requests, NEW k, NEW w,
           CountedIn(k, w)' = CountedIn(k, w) \ lost,
           RanFor(k) \cup ((CountedIn(k, w) \cap lost) \X {breaks})
               \subseteq RanFor(k)',
           \A s \in RanFor(k) : s[2] # breaks
    PROVE  Runs(k, w) <= Runs(k, w)'
<1>. DEFINE C == CountedIn(k, w)
            R == RanFor(k)
            D == C \cap lost
            E == D \X {breaks}
<1>1. /\ IsFiniteSet(C) /\ Cardinality(C) \in Nat
      /\ IsFiniteSet(R) /\ Cardinality(R) \in Nat
  BY CountedInFinite, RanForFinite
<1>2. IsFiniteSet(R') /\ Cardinality(R') \in Nat
  BY NextFinite
<1>. HIDE DEF C, R
<1>3. /\ IsFiniteSet(D) /\ Cardinality(D) \in Nat
      /\ IsFiniteSet(C \ lost) /\ Cardinality(C \ lost) \in Nat
      /\ Cardinality(C) = Cardinality(C \ lost) + Cardinality(D)
  <2>1. D \in SUBSET C /\ C \ lost \in SUBSET C
    OBVIOUS
  <2>2. IsFiniteSet(D) /\ IsFiniteSet(C \ lost)
    BY <1>1, <2>1, FS_Subset
  <2>3. /\ (C \ lost) \cup D = C
        /\ (C \ lost) \cap D = {}
    OBVIOUS
  <2>4. Cardinality((C \ lost) \cup D) =
           Cardinality(C \ lost) + Cardinality(D) - Cardinality((C \ lost) \cap D)
    BY <2>2, FS_Union
  <2>5. Cardinality(D) \in Nat /\ Cardinality(C \ lost) \in Nat
    BY <2>2, FS_CardinalityType
  <2>6. Cardinality((C \ lost) \cap D) = 0
    BY <2>3, FS_EmptySet
  <2>7. Cardinality(C) =
           Cardinality(C \ lost) + Cardinality(D) - Cardinality((C \ lost) \cap D)
    BY <2>3, <2>4
  <2>. HIDE DEF D
  <2>. QED  BY <2>2, <2>5, <2>6, <2>7
<1>4. IsFiniteSet(E) /\ Cardinality(E) = Cardinality(D)
  <2>1. IsFiniteSet({breaks}) /\ Cardinality({breaks}) = 1
    BY FS_Singleton
  <2>2. IsFiniteSet(E) /\ Cardinality(E) = Cardinality(D) * Cardinality({breaks})
    BY <1>3, <2>1, FS_Product
  <2>. HIDE DEF D
  <2>. QED  BY <1>3, <2>1, <2>2
<1>5. Cardinality(R \cup E) = Cardinality(R) + Cardinality(D)
  <2>1. R \cap E = {}
    BY DEF R
  <2>2. Cardinality(R \cup E) =
           Cardinality(R) + Cardinality(E) - Cardinality(R \cap E)
    BY <1>1, <1>4, FS_Union
  <2>. QED  BY <1>1, <1>3, <1>4, <2>1, <2>2, FS_EmptySet
<1>6. Cardinality(R \cup E) <= Cardinality(R')
  <2>1. R \cup E \in SUBSET R'
    BY DEF R, C
  <2>. QED  BY <1>2, <2>1, FS_Subset
<1>7. Runs(k, w) = Cardinality(C) + Cardinality(R)
  BY DEF Runs, C, R
<1>8. Runs(k, w)' = Cardinality(C \ lost) + Cardinality(R')
  BY DEF Runs, C, R
<1>. QED  BY <1>1, <1>2, <1>3, <1>5, <1>6, <1>7, <1>8

LEMMA BreakKeeps ==
    ASSUME Inv, Break
    PROVE  Inv'
<1>. DEFINE sent == {r \in Requests : pc[r] = "increment"}
<1>1. PICK lost \in SUBSET {r \in Requests : pc[r] = "ttl"} :
        /\ pc' = [r \in Requests |-> IF r \in lost THEN "increment" ELSE pc[r]]
        /\ hits' = [r \in Requests |-> IF r \in lost THEN 0 ELSE hits[r]]
        /\ countedIn' =
              [r \in Requests |-> IF r \in lost THEN None ELSE countedIn[r]]
        /\ again' = again \cup ((sent \cup lost) \X {breaks})
        /\ strays' = strays \cup (sent \X {breaks})
  BY DEF Break
<1>2. /\ UNCHANGED <<count, ttl, window, maxRequests, key>>
      /\ up' = FALSE /\ breaks' = breaks + 1 /\ breaks < MaxBreaks
      /\ breaks \in Nat /\ breaks' \in 0..MaxBreaks /\ breaks \in 0..MaxBreaks
  <2>1. breaks \in 0..MaxBreaks /\ MaxBreaks \in Nat
    BY LimitsAssumption DEF Inv, TypeOK
  <2>. QED  BY <2>1 DEF Break, redisVars
<1>3. /\ lost \subseteq Requests /\ sent \subseteq Requests
      /\ lost \cap sent = {}
      /\ \A r \in lost \cup sent : pc[r] # "idle" /\ key[r] \in CounterKeys
  BY DEF Inv, Answers
<1>. HIDE DEF sent
<1>4. TypeOK' /\ CountersExpire'
  <2>1. again' \subseteq Requests \X (0..MaxBreaks) /\ strays' \subseteq again'
    BY <1>1, <1>2, <1>3 DEF Inv, TypeOK
  <2>2. /\ pc' \in [Requests -> {"idle", "increment", "ttl"} \cup Ended]
        /\ hits' \in [Requests -> Nat]
        /\ countedIn' \in [Requests -> Nat \cup {None}]
    BY <1>1 DEF Inv, TypeOK
  <2>. QED  BY <1>2, <2>1, <2>2
            DEF Inv, TypeOK, RedisTypeOK, CountersExpire
<1>5. Answers' /\ Decisions'
  BY <1>1, <1>2, <1>3, NoneAssumption DEF Inv, TypeOK, Answers, Decisions
<1>6. NotAhead' /\ Distinct'
  BY <1>1, <1>2, NoneAssumption DEF Inv, TypeOK, NotAhead, Distinct
<1>7. SentBefore'
  <2>1. ASSUME NEW s \in again'
        PROVE  s[2] < breaks' /\ pc'[s[1]] # "idle" /\ key'[s[1]] \in CounterKeys
    <3>1. CASE s \in again
      <4>1. /\ s[2] < breaks /\ pc[s[1]] # "idle" /\ key[s[1]] \in CounterKeys
            /\ s[1] \in Requests /\ s[2] \in Nat
        BY <3>1 DEF Inv, SentBefore, TypeOK
      <4>. QED  BY <1>1, <1>2, <4>1
    <3>2. CASE s \in (sent \cup lost) \X {breaks}
      BY <1>1, <1>2, <1>3, <3>2
    <3>. QED  BY <1>1, <3>1, <3>2
  <2>. QED  BY <2>1 DEF SentBefore
<1>8. ASSUME NEW k \in CounterKeys, NEW w \in Nat
      PROVE  Runs(k, w) <= Runs(k, w)'
  <2>1. CountedIn(k, w)' = CountedIn(k, w) \ lost
    BY <1>1, <1>2, NoneAssumption DEF CountedIn
  <2>2. \A s \in again : s[2] # breaks
    BY <1>2 DEF Inv, SentBefore, TypeOK
  <2>3. RanFor(k) \subseteq RanFor(k)'
    BY <1>1, <1>2, <2>2 DEF RanFor, AgainFor
  <2>4. (CountedIn(k, w) \cap lost) \X {breaks} \subseteq RanFor(k)'
    <3>1. ASSUME NEW s \in (CountedIn(k, w) \cap lost) \X {breaks}
          PROVE  s \in RanFor(k)'
      <4>1. s[1] \in lost /\ s[1] \notin sent /\ s[2] = breaks /\ key[s[1]] = k
        BY <1>3, <3>1 DEF CountedIn
      <4>2. s \in again'
        BY <1>1, <3>1
      <4>3. s \notin strays
        BY <2>2, <4>1 DEF Inv, TypeOK
      <4>4. s \notin strays'
        BY <1>1, <4>1, <4>3
      <4>. QED  BY <1>2, <4>1, <4>2, <4>4 DEF RanFor, AgainFor
    <3>. QED  BY <3>1
  <2>5. \A s \in RanFor(k) : s[2] # breaks
    BY <2>2 DEF RanFor, AgainFor
  <2>. QED  BY <1>3, <1>4, <2>1, <2>3, <2>4, <2>5, LostAreAgain DEF Inv
<1>9. AllCounted'
  <2>1. \A q \in Requests :
           countedIn'[q] \in Nat =>
               /\ countedIn'[q] = countedIn[q] /\ hits'[q] = hits[q]
               /\ key'[q] = key[q]
    BY <1>1, <1>2, NoneAssumption
  <2>. QED  BY <1>2, <1>4, <1>8, <2>1, NoRunKeeps
<1>. QED  BY <1>4, <1>5, <1>6, <1>7, <1>9 DEF Inv

LEMMA ReconnectKeeps ==
    ASSUME Inv, Reconnect
    PROVE  Inv'
<1>1. /\ UNCHANGED <<redisVars, maxRequests, requestVars, breaks, again, strays>>
      /\ up' \in BOOLEAN
  BY DEF Reconnect
<1>2. TypeOK' /\ CountersExpire' /\ Answers' /\ Decisions'
  BY <1>1 DEF Inv, TypeOK, RedisTypeOK, CountersExpire, Answers, Decisions,
              redisVars, requestVars
<1>3. Distinct' /\ NotAhead' /\ SentBefore'
  BY <1>1 DEF Inv, Distinct, NotAhead, SentBefore, redisVars, requestVars
<1>4. AllCounted'
  BY <1>1 DEF Inv, AllCounted, Runs, CountedIn, RanFor, AgainFor,
              redisVars, requestVars
<1>. QED  BY <1>2, <1>3, <1>4 DEF Inv

\* A counter that is deleted begins a window that has counted nothing yet.
LEMMA TickKeeps ==
    ASSUME Inv, Tick
    PROVE  Inv'
<1>1. /\ UNCHANGED <<maxRequests, pc, key, hits, countedIn, connectionVars>>
      /\ Elapse
  BY DEF Tick, requestVars
<1>2. /\ count \in [CounterKeys -> Nat] /\ ttl \in [CounterKeys -> 0..WindowSec]
      /\ window \in [CounterKeys -> Nat]
  BY DEF Inv, TypeOK, RedisTypeOK
<1>3. \A k \in CounterKeys :
         \/ window'[k] = window[k] /\ count'[k] = count[k]
         \/ window'[k] = window[k] + 1 /\ count'[k] = 0
  BY <1>1, <1>2 DEF Elapse
<1>4. RedisTypeOK'
  BY <1>1, <1>2, WindowAssumption DEF Elapse, RedisTypeOK
<1>5. CountersExpire'
  BY <1>1, <1>2, WindowAssumption DEF Elapse, Inv, CountersExpire
<1>6. TypeOK'
  BY <1>1, <1>4 DEF Inv, TypeOK, connectionVars
<1>7. Answers' /\ Decisions' /\ Distinct' /\ SentBefore'
  BY <1>1 DEF Inv, Answers, Decisions, Distinct, SentBefore, connectionVars
<1>8. NotAhead'
  <2>1. ASSUME NEW q \in Requests, countedIn[q] \in Nat
        PROVE  /\ countedIn[q] <= window'[key[q]]
               /\ countedIn[q] = window'[key[q]] => hits[q] <= count'[key[q]]
    <3>1. /\ key[q] \in CounterKeys
          /\ countedIn[q] <= window[key[q]]
          /\ countedIn[q] = window[key[q]] => hits[q] <= count[key[q]]
      BY <2>1 DEF Inv, Answers, NotAhead
    <3>. QED  BY <1>2, <1>3, <2>1, <3>1
  <2>. QED  BY <1>1, <2>1 DEF NotAhead
<1>9. AllCounted'
  <2>1. ASSUME NEW k \in CounterKeys, NEW w \in Nat
        PROVE  Runs(k, w)' = Runs(k, w) /\ Runs(k, w) \in Nat
    BY <1>1, RunsNat DEF Inv, Runs, CountedIn, RanFor, AgainFor, connectionVars
  <2>2. \A k \in CounterKeys, w \in Nat : Runs(k, w) <= Runs(k, w)'
    BY <2>1
  <2>. QED  BY <1>1, <1>3, <1>6, <2>2, NoRunKeeps
<1>. QED  BY <1>5, <1>6, <1>7, <1>8, <1>9 DEF Inv

LEMMA NextKeeps ==
    ASSUME Inv, [Next]_vars
    PROVE  Inv'
<1>1. ASSUME NEW r \in Requests, Unlimited(r) \/ FailOpen(r)
      PROVE  Inv'
  <2>1. pc[r] = "idle" => countedIn[r] \notin Nat
    BY NoneAssumption DEF Inv, Answers
  <2>. QED  BY <1>1, <2>1, EndKeeps DEF Unlimited, FailOpen, Ended
<1>2. ASSUME NEW r \in Requests, Decided(r)
      PROVE  Inv'
  <2>1. /\ countedIn[r] \in Nat /\ hits[r] \in Nat /\ maxRequests \in Nat
        /\ End(r, IF hits[r] <= maxRequests THEN "passed" ELSE "limited")
    BY <1>2, LimitsAssumption DEF Inv, TypeOK, Answers, Decided, Allowed
  <2>2. CASE hits[r] <= maxRequests
    BY <2>1, <2>2, EndKeeps DEF Ended
  <2>3. CASE ~(hits[r] <= maxRequests)
    BY <2>1, <2>3, EndKeeps DEF Ended
  <2>. QED  BY <2>2, <2>3
<1>3. CASE UNCHANGED vars
  <2>1. \A k, w : CountedIn(k, w)' = CountedIn(k, w) /\ Runs(k, w)' = Runs(k, w)
    BY <1>3 DEF CountedIn, Runs, RanFor, AgainFor, vars, requestVars,
                connectionVars
  <2>. QED  BY <1>3, <2>1 DEF Inv, TypeOK, RedisTypeOK, CountersExpire, Answers,
               NotAhead, Distinct, Decisions, SentBefore, AllCounted, vars,
               requestVars, connectionVars, redisVars
<1>. QED  BY <1>1, <1>2, <1>3, CheckKeeps, IncrementedKeeps, RunStrayKeeps,
             BreakKeeps, ReconnectKeeps, TickKeeps DEF Next

LEMMA Invariance == Spec => []Inv
<1>1. Init => Inv
  <2>1. ASSUME Init PROVE TypeOK /\ CountersExpire /\ Answers
    BY <2>1, LimitsAssumption, WindowAssumption, NoneAssumption
       DEF Init, RedisInit, TypeOK, RedisTypeOK, CountersExpire, Answers
  <2>2. ASSUME Init PROVE NotAhead /\ Distinct /\ Decisions /\ SentBefore
    BY <2>2, NoneAssumption
       DEF Init, NotAhead, Distinct, Decisions, SentBefore
  <2>3. ASSUME Init PROVE AllCounted
    <3>1. ASSUME NEW k \in CounterKeys, NEW w \in Nat
          PROVE  CountedIn(k, w) = {} /\ RanFor(k) = {} /\ count[k] = 0
      BY <2>3, NoneAssumption
         DEF Init, RedisInit, CountedIn, RanFor, AgainFor
    <3>. QED  BY <3>1, FS_EmptySet DEF AllCounted, Runs
  <2>. QED  BY <2>1, <2>2, <2>3 DEF Inv
<1>. QED  BY <1>1, NextKeeps, PTL DEF Spec
----------------------------------------------------------------------------
\* Every reachable state has the types.
THEOREM TypeCorrect == Spec => []TypeOK
BY Invariance, PTL DEF Inv

\* The Lua script: no counter lives for ever, and none dies early.
THEOREM Expiry == Spec => []CountersExpire
BY Invariance, PTL DEF Inv

\* The counts that a window let pass are all different, and from 1 to the limit.
THEOREM LimitHeld == Spec => []WithinLimit
<1>1. ASSUME Inv, NEW k \in CounterKeys, NEW w \in 0..MaxWindows
      PROVE  Cardinality(PassedIn(k, w)) <= maxRequests
  <2>. DEFINE f == [r \in PassedIn(k, w) |-> hits[r]]
  <2>1. maxRequests \in Nat
    BY <1>1, LimitsAssumption DEF Inv, TypeOK
  <2>2. ASSUME NEW r \in PassedIn(k, w)
        PROVE  /\ r \in Requests /\ key[r] = k /\ countedIn[r] = w
               /\ w \in Nat /\ hits[r] \in 1..maxRequests
    <3>1. /\ r \in Requests /\ key[r] = k /\ countedIn[r] = w /\ w \in Nat
          /\ pc[r] = "passed"
      BY DEF PassedIn
    <3>2. hits[r] \in Nat \ {0} /\ hits[r] <= maxRequests
      BY <1>1, <3>1 DEF Inv, Answers, Decisions
    <3>. QED  BY <2>1, <3>1, <3>2
  <2>3. \A q, r \in PassedIn(k, w) : hits[q] = hits[r] => q = r
    BY <1>1, <2>2 DEF Inv, Distinct
  <2>4. f \in Injection(PassedIn(k, w), 1..maxRequests)
    BY <2>2, <2>3 DEF Injection, IsInjective
  <2>5. IsFiniteSet(1..maxRequests) /\ Cardinality(1..maxRequests) = maxRequests
    BY <2>1, FS_Interval
  <2>. QED  BY <2>4, <2>5, FS_Injection
<1>2. Inv => WithinLimit
  BY <1>1 DEF WithinLimit
<1>. QED  BY <1>2, Invariance, PTL

\* Whoever is refused got a count beyond the limit, and so many requests were
\* counted in its window, or increments sent again.
THEOREM RefusalsJust == Spec => []RefusedOnlyWhenFull
<1>1. ASSUME Inv, NEW r \in Requests, pc[r] = "limited"
      PROVE  Cardinality(CountedIn(key[r], countedIn[r]))
                 + Cardinality(AgainFor(key[r])) > maxRequests
  <2>1. PICK k \in CounterKeys, w \in Nat : k = key[r] /\ w = countedIn[r]
    BY <1>1 DEF Inv, Answers
  <2>2. PICK c \in Nat, a \in Nat, m \in Nat :
            /\ c = Cardinality(CountedIn(k, w))
            /\ a = Cardinality(AgainFor(k))
            /\ m = Cardinality(RanFor(k)) /\ m <= a
    BY <1>1, CountedInFinite, RanForFinite DEF Inv
  <2>3. hits[r] <= c + m
    BY <1>1, <2>1, <2>2 DEF Inv, AllCounted, CountedIn, Runs
  <2>4. /\ hits[r] > maxRequests /\ hits[r] \in Nat /\ maxRequests \in Nat
    BY <1>1, LimitsAssumption DEF Inv, TypeOK, Decisions
  <2>5. c + a > maxRequests
    BY <2>2, <2>3, <2>4
  <2>. QED  BY <2>1, <2>2, <2>5
<1>2. Inv => RefusedOnlyWhenFull
  BY <1>1 DEF RefusedOnlyWhenFull
<1>. QED  BY <1>2, Invariance, PTL
=============================================================================
