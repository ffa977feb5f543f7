--------------------------- MODULE ApiKeysProofs ---------------------------
(***************************************************************************)
(* What TLAPS proves of ApiKeys, for every set of requests and keys, every *)
(* limit and every expiry.                                                 *)
(*                                                                         *)
(* A save writes only the fields that its request changed, and requests    *)
(* change few: only rotateKey touches prefix and hash, only revokeKey      *)
(* isActive, and nobody the limit.  So however old the loaded document is, *)
(* a save moves the stored one forward.                                    *)
(***************************************************************************)
EXTENDS ApiKeys, FiniteSetTheorems, TLAPS

Using == {"compare", "increment", "ttl", "use"}
Working == {"revoke", "rotate"} \cup Using

\* What r changed in the document it loaded, from old to new, by the await that
\* it stands at.
Change(r, stage, old, new) ==
    /\ stage = "revoke" => new = [old EXCEPT !.isActive = FALSE]
    /\ stage = "rotate" =>
          new = [old EXCEPT !.prefix = r, !.hash = r, !.usageCount = 0]
    /\ stage \in {"compare", "increment", "ttl"} => new = old
    /\ stage = "use" =>
          /\ new.prefix = old.prefix /\ new.hash = old.hash
          /\ new.isActive = old.isActive
          /\ new.rateLimitPerMinute = old.rateLimitPerMinute
          /\ new.usageCount = old.usageCount + 1

Changed(r) == Change(r, pc[r], snap[r], mem[r])

\* The later document of a key: the limit is the same, and if it was revoked it
\* still is.
Follows(old, new) ==
    /\ new \in Document
    /\ new.rateLimitPerMinute = old.rateLimitPerMinute
    /\ old.isActive = FALSE => new.isActive = FALSE

\* r has a document of a key that exists, in a state that the stored one follows.
Prepared(r) ==
    /\ target[r] \in KeyIds
    /\ keys[target[r]] \in Document
    /\ snap[r] \in Document
    /\ snap[r].prefix = snap[r].hash
    /\ mem[r] \in Document
    /\ Follows(snap[r], keys[target[r]])
    /\ Changed(r)

Sound(r) ==
    /\ pc[r] \in Working => Prepared(r)
    /\ pc[r] \in Using => raw[r] \in Requests
    /\ pc[r] # "done" => reply[r] = None
    /\ reply[r] \in {"created", "revoked", "rotated", "accepted"} =>
          target[r] \in KeyIds /\ keys[target[r]] \in Document
    /\ reply[r] = "revoked" => keys[target[r]].isActive = FALSE

Twins == \A k \in KeyIds : keys[k] # None => keys[k].prefix = keys[k].hash

DocInv == TypeOK /\ Twins /\ \A r \in Requests : Sound(r)
----------------------------------------------------------------------------
(* A save.                                                                 *)

LEMMA SavedTyped ==
    ASSUME NEW r \in Requests,
           keys[target[r]] \in Document, snap[r] \in Document,
           mem[r] \in Document
    PROVE  Saved(r) \in Document
BY DEF Saved, Document

LEMMA SavedField ==
    ASSUME NEW r \in Requests, mem[r] \in Document,
           NEW f \in {"prefix", "hash", "isActive", "expiresAt",
                      "rateLimitPerMinute", "usageCount"}
    PROVE  /\ mem[r][f] # snap[r][f] => Saved(r)[f] = mem[r][f]
           /\ mem[r][f] = snap[r][f] => Saved(r)[f] = keys[target[r]][f]
BY DEF Saved, Document

\* What a save makes of the stored document, by the operation it is for.
LEMMA SavedByOperation ==
    ASSUME NEW r \in Requests, Prepared(r), Twins
    PROVE  /\ pc[r] \in {"revoke", "rotate", "use"} =>
                 /\ Follows(keys[target[r]], Saved(r))
                 /\ Saved(r).prefix = Saved(r).hash
           /\ pc[r] \in {"revoke", "use"} =>
                 Saved(r).prefix = keys[target[r]].prefix
           /\ pc[r] = "rotate" => Saved(r).prefix \in {keys[target[r]].prefix, r}
           /\ pc[r] = "revoke" => Saved(r).isActive = FALSE
           /\ pc[r] = "revoke" => Saved(r).usageCount = keys[target[r]].usageCount
           /\ pc[r] = "rotate" =>
                 Saved(r).usageCount \in {0, keys[target[r]].usageCount}
           /\ pc[r] = "use" => Saved(r).usageCount = snap[r].usageCount + 1
<1>. DEFINE k == target[r]
<1>1. /\ Saved(r) \in Document
      /\ snap[r] \in Document /\ mem[r] \in Document /\ keys[k] \in Document
  BY SavedTyped DEF Prepared
<1>2. /\ keys[k].prefix = keys[k].hash
      /\ snap[r].prefix = snap[r].hash
      /\ snap[r].isActive = FALSE => keys[k].isActive = FALSE
  BY <1>1, NoneAssumption DEF Prepared, Twins, Follows
<1>3. CASE pc[r] = "revoke"
  <2>1. mem[r] = [snap[r] EXCEPT !.isActive = FALSE]
    BY <1>3 DEF Prepared, Changed, Change
  <2>2. /\ mem[r].prefix = snap[r].prefix /\ mem[r].hash = snap[r].hash
        /\ mem[r].rateLimitPerMinute = snap[r].rateLimitPerMinute
        /\ mem[r].usageCount = snap[r].usageCount
    BY <1>1, <2>1 DEF Document
  <2>3. mem[r].isActive = FALSE
    BY <1>1, <2>1 DEF Document
  <2>4. /\ Saved(r).prefix = keys[k].prefix /\ Saved(r).hash = keys[k].hash
        /\ Saved(r).rateLimitPerMinute = keys[k].rateLimitPerMinute
        /\ Saved(r).usageCount = keys[k].usageCount
    BY <1>1, <2>2, SavedField
  <2>5. Saved(r).isActive = FALSE
    BY <1>1, <1>2, <2>3, SavedField
  <2>. QED  BY <1>1, <1>2, <1>3, <2>4, <2>5 DEF Follows
<1>4. CASE pc[r] = "rotate"
  <2>1. mem[r] = [snap[r] EXCEPT !.prefix = r, !.hash = r, !.usageCount = 0]
    BY <1>4 DEF Prepared, Changed, Change
  <2>2. /\ mem[r].prefix = r /\ mem[r].hash = r
        /\ mem[r].rateLimitPerMinute = snap[r].rateLimitPerMinute
        /\ mem[r].usageCount = 0
    BY <1>1, <2>1 DEF Document
  <2>3. mem[r].isActive = snap[r].isActive
    BY <1>1, <2>1 DEF Document
  <2>4. \/ Saved(r).prefix = r /\ Saved(r).hash = r
        \/ Saved(r).prefix = keys[k].prefix /\ Saved(r).hash = keys[k].hash
    BY <1>1, <1>2, <2>2, SavedField
  <2>5. /\ Saved(r).rateLimitPerMinute = keys[k].rateLimitPerMinute
        /\ Saved(r).usageCount \in {0, keys[k].usageCount}
    BY <1>1, <2>2, SavedField
  <2>6. Saved(r).isActive = keys[k].isActive
    BY <1>1, <2>3, SavedField
  <2>. QED  BY <1>1, <1>2, <1>4, <2>4, <2>5, <2>6 DEF Follows
<1>5. CASE pc[r] = "use"
  <2>1. snap[r].usageCount \in Nat
    BY <1>1 DEF Document
  <2>2. /\ mem[r].prefix = snap[r].prefix /\ mem[r].hash = snap[r].hash
        /\ mem[r].rateLimitPerMinute = snap[r].rateLimitPerMinute
        /\ mem[r].usageCount = snap[r].usageCount + 1
    BY <1>5 DEF Prepared, Changed, Change
  <2>3. mem[r].isActive = snap[r].isActive
    BY <1>5 DEF Prepared, Changed, Change
  <2>4. /\ Saved(r).prefix = keys[k].prefix /\ Saved(r).hash = keys[k].hash
        /\ Saved(r).rateLimitPerMinute = keys[k].rateLimitPerMinute
    BY <1>1, <2>2, SavedField
  <2>5. Saved(r).usageCount = snap[r].usageCount + 1
    <3>1. mem[r].usageCount # snap[r].usageCount
      BY <2>1, <2>2
    <3>. QED  BY <1>1, <2>2, <3>1, SavedField
  <2>6. Saved(r).isActive = keys[k].isActive
    BY <1>1, <2>3, SavedField
  <2>. QED  BY <1>1, <1>2, <1>5, <2>4, <2>5, <2>6 DEF Follows
<1>. QED  BY <1>3, <1>4, <1>5
----------------------------------------------------------------------------
(* The documents through every step.                                       *)

\* A step of r: the other requests stand where they stood, and every stored
\* document is followed by the one that replaces it.
StepOf(r) ==
    /\ \A q \in Requests \ {r} :
          /\ pc'[q] = pc[q] /\ target'[q] = target[q] /\ raw'[q] = raw[q]
          /\ snap'[q] = snap[q] /\ mem'[q] = mem[q] /\ reply'[q] = reply[q]
    /\ \A k \in KeyIds : keys[k] \in Document => Follows(keys[k], keys'[k])

LEMMA FollowsItself == \A doc \in Document : Follows(doc, doc)
BY DEF Follows

LEMMA FollowsOn ==
    ASSUME NEW a, NEW b, NEW c, Follows(a, b), Follows(b, c)
    PROVE  Follows(a, c)
BY DEF Follows

LEMMA StaysSound ==
    ASSUME NEW q \in Requests, Sound(q),
           pc'[q] = pc[q], target'[q] = target[q], raw'[q] = raw[q],
           snap'[q] = snap[q], mem'[q] = mem[q], reply'[q] = reply[q],
           \A k \in KeyIds : keys[k] \in Document => Follows(keys[k], keys'[k])
    PROVE  Sound(q)'
<1>1. target[q] \in KeyIds /\ keys[target[q]] \in Document =>
          /\ Follows(keys[target[q]], keys'[target[q]])
          /\ keys'[target[q]] \in Document
  BY DEF Follows
<1>2. ASSUME Prepared(q) PROVE Prepared(q)'
  <2>1. Follows(snap[q], keys'[target[q]])
    BY <1>1, <1>2, FollowsOn DEF Prepared
  <2>2. Changed(q)'
    BY <1>2 DEF Prepared, Changed
  <2>. QED  BY <1>1, <1>2, <2>1, <2>2 DEF Prepared
<1>3. ASSUME target[q] \in KeyIds, keys[target[q]] \in Document,
             keys[target[q]].isActive = FALSE
      PROVE  keys'[target[q]].isActive = FALSE
  BY <1>1, <1>3 DEF Follows
<1>4. (reply[q] = "revoked" => keys[target[q]].isActive = FALSE)'
  BY <1>3 DEF Sound
<1>. QED  BY <1>1, <1>2, <1>4 DEF Sound

LEMMA StepKeeps ==
    ASSUME DocInv, NEW r \in Requests, StepOf(r), TypeOK', Twins', Sound(r)'
    PROVE  DocInv'
<1>1. ASSUME NEW q \in Requests \ {r}  PROVE Sound(q)'
  BY <1>1, StaysSound DEF DocInv, StepOf
<1>. QED  BY <1>1 DEF DocInv

LEMMA UnchangedFollow ==
    ASSUME UNCHANGED keys
    PROVE  \A k \in KeyIds : keys[k] \in Document => Follows(keys[k], keys'[k])
BY FollowsItself

\* r ends without a save.
LEMMA RefuseKeeps ==
    ASSUME DocInv, NEW r \in Requests, pc[r] # "done",
           NEW with \in {"notOwned", "null", "limited", "error"},
           Refuse(r, with),
           raw' \in [Requests -> Requests \cup {None}],
           \A q \in Requests \ {r} : raw'[q] = raw[q]
    PROVE  DocInv'
<1>. USE DEF Refuse, Answer
<1>1. TypeOK'
  BY DEF DocInv, TypeOK, Replies, counting, redisVars, RedisTypeOK
<1>2. Twins'
  BY DEF DocInv, Twins
<1>3. StepOf(r)
  BY UnchangedFollow DEF DocInv, TypeOK, StepOf
<1>4. pc'[r] = "done" /\ reply'[r] = with
  BY DEF DocInv, TypeOK
<1>5. Sound(r)'
  BY <1>4 DEF Sound, Working, Using
<1>. QED  BY <1>1, <1>2, <1>3, <1>5, StepKeeps

LEMMA CreateKeeps ==
    ASSUME DocInv, NEW r \in Requests, CreateKey(r)
    PROVE  DocInv'
<1>. USE DEF CreateKey, Answer
<1>1. PICK k \in KeyIds, expiresAt \in Expiries, limit \in Limits :
          /\ keys[k] = None
          /\ keys' = [keys EXCEPT ![k] = Created(r, expiresAt, limit)]
          /\ target' = [target EXCEPT ![r] = k]
  OBVIOUS
<1>2. PICK doc : doc = Created(r, expiresAt, limit)
  OBVIOUS
<1>3. doc \in Document /\ doc.prefix = doc.hash
  BY <1>2 DEF Created, Document
<1>4. TypeOK'
  BY <1>1, <1>2, <1>3
  DEF DocInv, TypeOK, Replies, counting, redisVars, RedisTypeOK
<1>5. keys'[k] = doc /\ \A j \in KeyIds \ {k} : keys'[j] = keys[j]
  BY <1>1, <1>2 DEF DocInv, TypeOK
<1>6. Twins'
  BY <1>3, <1>5 DEF DocInv, Twins
<1>7. StepOf(r)
  <2>1. \A j \in KeyIds : keys[j] \in Document => Follows(keys[j], keys'[j])
    BY <1>1, <1>5, FollowsItself, NoneAssumption
  <2>. QED  BY <1>1, <2>1 DEF DocInv, TypeOK, StepOf
<1>8. /\ pc'[r] = "done" /\ reply'[r] = "created" /\ target'[r] = k
  BY <1>1 DEF DocInv, TypeOK
<1>9. Sound(r)'
  BY <1>3, <1>5, <1>8 DEF Sound, Working, Using
<1>. QED  BY <1>4, <1>6, <1>7, <1>9, StepKeeps

\* r has loaded a document, and changed it as its operation does.
LEMMA LoadKeeps ==
    ASSUME DocInv, NEW r \in Requests, NEW k \in KeyIds, NEW doc \in Document,
           NEW next \in Working, Load(r, k, doc, next),
           keys[k] # None, Changed(r)',
           raw' \in [Requests -> Requests \cup {None}],
           \A q \in Requests \ {r} : raw'[q] = raw[q],
           next \in Using => raw'[r] \in Requests
    PROVE  DocInv'
<1>. USE DEF Load
<1>1. keys[k] \in Document /\ keys[k].prefix = keys[k].hash
  BY DEF DocInv, TypeOK, Twins
<1>2. TypeOK'
  BY <1>1 DEF DocInv, TypeOK, Working, Using, counting, redisVars, RedisTypeOK
<1>3. Twins'
  BY DEF DocInv, Twins
<1>4. StepOf(r)
  BY UnchangedFollow DEF DocInv, TypeOK, StepOf
<1>5. /\ pc'[r] = next /\ target'[r] = k /\ snap'[r] = keys[k]
      /\ mem'[r] = doc /\ reply'[r] = reply[r] /\ keys' = keys
  BY DEF DocInv, TypeOK
<1>6. reply[r] = None
  BY DEF DocInv, Sound
<1>7. Prepared(r)'
  BY <1>1, <1>5, FollowsItself DEF Prepared
<1>8. Sound(r)'
  BY <1>5, <1>6, <1>7, NoneAssumption DEF Sound, Working, Using, Replies
<1>. QED  BY <1>2, <1>3, <1>4, <1>8, StepKeeps

\* r goes on with validate.
LEMMA ContinueKeeps ==
    ASSUME DocInv, NEW r \in Requests, pc[r] \in {"compare", "increment", "ttl"},
           NEW doc \in Document, NEW next \in {"increment", "ttl", "use"},
           Continue(r, doc, next), Changed(r)',
           at' \in [Requests -> Nat], hits' \in [Requests -> Nat],
           countedIn' \in [Requests -> Nat \cup {None}], RedisTypeOK'
    PROVE  DocInv'
<1>. USE DEF Continue
<1>1. TypeOK'
  BY DEF DocInv, TypeOK
<1>2. Twins'
  BY DEF DocInv, Twins
<1>3. StepOf(r)
  BY UnchangedFollow DEF DocInv, TypeOK, StepOf
<1>4. /\ pc'[r] = next /\ target'[r] = target[r] /\ snap'[r] = snap[r]
      /\ mem'[r] = doc /\ reply'[r] = reply[r] /\ keys' = keys
      /\ raw'[r] = raw[r]
  BY DEF DocInv, TypeOK
<1>5. reply[r] = None /\ raw[r] \in Requests /\ Prepared(r)
  BY DEF DocInv, Sound, Working, Using
<1>6. Prepared(r)'
  BY <1>4, <1>5 DEF Prepared
<1>7. Sound(r)'
  BY <1>4, <1>5, <1>6, NoneAssumption DEF Sound, Working, Using, Replies
<1>. QED  BY <1>1, <1>2, <1>3, <1>7, StepKeeps

LEMMA SaveKeeps ==
    ASSUME DocInv, NEW r \in Requests, NEW stage, NEW with,
           <<stage, with>> \in {<<"revoke", "revoked">>, <<"rotate", "rotated">>,
                                <<"use", "accepted">>},
           Save(r, stage, with)
    PROVE  DocInv'
<1>. USE DEF Save, Answer
<1>1. PICK k, doc : k = target[r] /\ doc = Saved(r)
  OBVIOUS
<1>2. pc[r] \in {"revoke", "rotate", "use"} /\ Prepared(r) /\ Twins
  BY DEF DocInv, Sound, Working, Using
<1>3. /\ Follows(keys[k], doc) /\ doc.prefix = doc.hash /\ doc \in Document
      /\ with = "revoked" => doc.isActive = FALSE
  BY <1>1, <1>2, SavedByOperation DEF Follows
<1>4. k \in KeyIds /\ keys' = [keys EXCEPT ![k] = doc]
  BY <1>1, <1>2 DEF Prepared
<1>5. keys'[k] = doc /\ \A j \in KeyIds \ {k} : keys'[j] = keys[j]
  BY <1>4 DEF DocInv, TypeOK
<1>6. TypeOK'
  BY <1>3, <1>4 DEF DocInv, TypeOK, Replies, counting, redisVars, RedisTypeOK
<1>7. Twins'
  BY <1>3, <1>5 DEF DocInv, Twins
<1>8. StepOf(r)
  <2>1. \A j \in KeyIds : keys[j] \in Document => Follows(keys[j], keys'[j])
    BY <1>3, <1>5, FollowsItself
  <2>. QED  BY <2>1 DEF DocInv, TypeOK, StepOf
<1>9. pc'[r] = "done" /\ reply'[r] = with /\ target'[r] = k
  BY <1>1 DEF DocInv, TypeOK
<1>10. Sound(r)'
  BY <1>3, <1>4, <1>5, <1>9 DEF Sound, Working, Using
<1>. QED  BY <1>6, <1>7, <1>8, <1>10, StepKeeps
----------------------------------------------------------------------------
(* Every action is one of these.                                           *)

LEMMA LoadsKeep ==
    ASSUME DocInv, NEW r \in Requests,
           RevokeLoad(r) \/ RotateLoad(r) \/ ValidateLoad(r)
    PROVE  DocInv'
<1>1. ASSUME NEW k \in KeyIds, keys[k] # None,
             Load(r, k, [keys[k] EXCEPT !.isActive = FALSE], "revoke"),
             UNCHANGED raw
      PROVE  DocInv'
  <2>1. PICK doc : doc = [keys[k] EXCEPT !.isActive = FALSE]
    OBVIOUS
  <2>2. keys[k] \in Document
    BY <1>1 DEF DocInv, TypeOK
  <2>3. doc \in Document
    BY <2>1, <2>2 DEF Document
  <2>4. Load(r, k, doc, "revoke")
    BY <1>1, <2>1
  <2>5. pc'[r] = "revoke" /\ snap'[r] = keys[k] /\ mem'[r] = doc
    BY <2>4 DEF Load, DocInv, TypeOK
  <2>6. Changed(r)'
    BY <2>1, <2>5 DEF Changed, Change
  <2>. QED  BY <1>1, <2>3, <2>4, <2>6, LoadKeeps DEF Working, Using, DocInv, TypeOK
<1>2. ASSUME NEW k \in KeyIds, keys[k] # None,
             Load(r, k, [keys[k] EXCEPT !.prefix = r, !.hash = r,
                                        !.usageCount = 0], "rotate"),
             UNCHANGED raw
      PROVE  DocInv'
  <2>1. PICK doc : doc = [keys[k] EXCEPT !.prefix = r, !.hash = r,
                                         !.usageCount = 0]
    OBVIOUS
  <2>2. keys[k] \in Document
    BY <1>2 DEF DocInv, TypeOK
  <2>3. doc \in Document
    BY <2>1, <2>2 DEF Document
  <2>4. Load(r, k, doc, "rotate")
    BY <1>2, <2>1
  <2>5. pc'[r] = "rotate" /\ snap'[r] = keys[k] /\ mem'[r] = doc
    BY <2>4 DEF Load, DocInv, TypeOK
  <2>6. Changed(r)'
    BY <2>1, <2>5 DEF Changed, Change
  <2>. QED  BY <1>2, <2>3, <2>4, <2>6, LoadKeeps DEF Working, Using, DocInv, TypeOK
<1>3. ASSUME NEW w \in Issued, NEW k \in KeyIds, Accepts(k, w),
             raw' = [raw EXCEPT ![r] = w], Load(r, k, keys[k], "compare")
      PROVE  DocInv'
  <2>1. keys[k] # None /\ keys[k] \in Document /\ w \in Requests
    BY <1>3 DEF Accepts, Issued, DocInv, TypeOK
  <2>2. /\ raw' \in [Requests -> Requests \cup {None}] /\ raw'[r] = w
        /\ \A q \in Requests \ {r} : raw'[q] = raw[q]
    BY <1>3, <2>1 DEF DocInv, TypeOK
  <2>3. pc'[r] = "compare" /\ snap'[r] = keys[k] /\ mem'[r] = keys[k]
    BY <1>3 DEF Load, DocInv, TypeOK
  <2>4. Changed(r)'
    BY <2>3 DEF Changed, Change
  <2>. QED  BY <1>3, <2>1, <2>2, <2>4, LoadKeeps DEF Working, Using
<1>. QED  BY <1>1, <1>2, <1>3 DEF RevokeLoad, RotateLoad, ValidateLoad

LEMMA RefusalsKeep ==
    ASSUME DocInv, NEW r \in Requests,
           \/ NotOwned(r) \/ ValidateNull(r) \/ RedisLimits(r)
           \/ FallbackLimits(r) \/ Abort(r)
    PROVE  DocInv'
<1>1. raw \in [Requests -> Requests \cup {None}]
  BY DEF DocInv, TypeOK
<1>2. CASE NotOwned(r) \/ RedisLimits(r) \/ FallbackLimits(r) \/ Abort(r)
  <2>1. /\ pc[r] # "done" /\ UNCHANGED raw
        /\ \E with \in {"notOwned", "limited", "error"} : Refuse(r, with)
    BY <1>2 DEF NotOwned, RedisLimits, FallbackLimits, Abort
  <2>. QED  BY <1>1, <2>1, RefuseKeeps
<1>3. CASE ValidateNull(r)
  <2>1. PICK w \in Issued : raw' = [raw EXCEPT ![r] = w]
    BY <1>3 DEF ValidateNull
  <2>2. /\ raw' \in [Requests -> Requests \cup {None}]
        /\ \A q \in Requests \ {r} : raw'[q] = raw[q]
    BY <1>1, <2>1 DEF Issued
  <2>. QED  BY <1>3, <2>2, RefuseKeeps DEF ValidateNull
<1>. QED  BY <1>2, <1>3

\* The uses that go on count in memory and leave the rest as it was loaded.
LEMMA CountedSound ==
    ASSUME NEW old \in Document, NEW w \in Int \cup {None}, NEW c \in Nat,
           NEW new, new = Counted([old EXCEPT !.currentMinuteWindow = w,
                                              !.currentMinuteCount = c])
    PROVE  new \in Document /\ \A r : Change(r, "use", old, new)
<1>1. PICK d : d = [old EXCEPT !.currentMinuteWindow = w,
                               !.currentMinuteCount = c]
  OBVIOUS
<1>2. d.prefix \in Requests /\ d \in Document
  BY <1>1 DEF Document
<1>3. /\ d.prefix = old.prefix /\ d.hash = old.hash
      /\ d.rateLimitPerMinute = old.rateLimitPerMinute
      /\ d.usageCount = old.usageCount /\ d.usageCount \in Nat
  BY <1>1 DEF Document
<1>4. d.isActive = old.isActive
  BY <1>1 DEF Document
<1>5. new = [d EXCEPT !.usageCount = @ + 1]
  BY <1>1 DEF Counted
<1>6. /\ new.prefix = d.prefix /\ new.hash = d.hash
      /\ new.rateLimitPerMinute = d.rateLimitPerMinute
      /\ new.usageCount = d.usageCount + 1
  BY <1>2, <1>5 DEF Document
<1>7. new.isActive = d.isActive
  BY <1>2, <1>5 DEF Document
<1>8. new \in Document
  BY <1>2, <1>5 DEF Document
<1>. QED  BY <1>3, <1>4, <1>6, <1>7, <1>8 DEF Change

\* The document that the fallback decides by.
LEMMA FallbackOf ==
    ASSUME NEW old \in Document, NEW time \in Nat
    PROVE  \E w \in Int \cup {None}, c \in Nat :
              Fallback(old, time) = [old EXCEPT !.currentMinuteWindow = w,
                                                !.currentMinuteCount = c]
<1>. DEFINE over == \/ old.currentMinuteWindow = None
                    \/ time - old.currentMinuteWindow >= WindowSec
            w == IF over THEN time ELSE old.currentMinuteWindow
            c == (IF over THEN 0 ELSE old.currentMinuteCount) + 1
<1>1. w \in Int \cup {None} /\ c \in Nat
  BY DEF Document
<1>2. Fallback(old, time) = [old EXCEPT !.currentMinuteWindow = w,
                                        !.currentMinuteCount = c]
  BY DEF Fallback
<1>. QED  BY <1>1, <1>2

\* What validate makes of the document old that r holds.
Goes(r, old, doc, next) ==
    \/ next \in {"increment", "ttl"} /\ doc = old
    \/ next = "use" /\ doc = Counted(old)
    \/ /\ next = "use"
       /\ doc = Counted([old EXCEPT
                    !.currentMinuteWindow =
                        at[r] - (WindowSec - RetryAfter(raw[r])),
                    !.currentMinuteCount = hits[r]])
    \/ next = "use" /\ doc = Counted(Fallback(old, at[r]))

LEMMA ValidatesKeep ==
    ASSUME DocInv, NEW r \in Requests,
           \/ ValidateCompare(r) \/ Increment(r) \/ RedisAllows(r)
           \/ FallbackAllows(r)
    PROVE  DocInv'
<1>1. PICK old, doc, next :
          /\ pc[r] \in {"compare", "increment", "ttl"}
          /\ old = mem[r]
          /\ next \in {"increment", "ttl", "use"}
          /\ Continue(r, doc, next)
          /\ Goes(r, old, doc, next)
  <2>1. CASE ValidateCompare(r)
    <3>1. /\ pc[r] = "compare"
          /\ \/ Continue(r, mem[r], "increment")
             \/ Continue(r, Counted(mem[r]), "use")
      BY <2>1 DEF ValidateCompare
    <3>2. /\ Goes(r, mem[r], mem[r], "increment")
          /\ Goes(r, mem[r], Counted(mem[r]), "use")
      BY DEF Goes
    <3>. QED  BY <3>1, <3>2
  <2>2. CASE Increment(r)
    <3>1. pc[r] = "increment" /\ Continue(r, mem[r], "ttl")
      BY <2>2 DEF Increment
    <3>2. Goes(r, mem[r], mem[r], "ttl")
      BY DEF Goes
    <3>. QED  BY <3>1, <3>2
  <2>3. CASE RedisAllows(r)
    <3>. DEFINE d == Counted([mem[r] EXCEPT
                         !.currentMinuteWindow =
                             at[r] - (WindowSec - RetryAfter(raw[r])),
                         !.currentMinuteCount = hits[r]])
    <3>1. pc[r] = "ttl" /\ Continue(r, d, "use")
      BY <2>3 DEF RedisAllows
    <3>2. Goes(r, mem[r], d, "use")
      BY DEF Goes
    <3>. HIDE DEF d
    <3>. QED  BY <3>1, <3>2
  <2>4. CASE FallbackAllows(r)
    <3>. DEFINE d == Counted(Fallback(mem[r], at[r]))
    <3>1. pc[r] \in {"increment", "ttl"} /\ Continue(r, d, "use")
      BY <2>4 DEF FallbackAllows
    <3>2. Goes(r, mem[r], d, "use")
      BY DEF Goes
    <3>. HIDE DEF d
    <3>. QED  BY <3>1, <3>2
  <2>. QED  BY <2>1, <2>2, <2>3, <2>4
<1>2. Prepared(r) /\ raw[r] \in Requests
  BY <1>1 DEF DocInv, Sound, Working, Using
<1>3. old = snap[r] /\ old \in Document
  BY <1>1, <1>2 DEF Prepared, Changed, Change
<1>4. /\ at[r] \in Nat /\ hits[r] \in Nat
      /\ RetryAfter(raw[r]) \in Nat /\ WindowSec \in Nat
  BY <1>2, WindowAssumption, KeysAssumption
  DEF DocInv, TypeOK, RedisTypeOK, RetryAfter
<1>5. /\ doc \in Document
      /\ next = "use" => Change(r, "use", old, doc)
      /\ next # "use" => doc = old
  <2>1. CASE doc = Counted(old) /\ next = "use"
    <3>1. /\ doc \in Document
          /\ doc.prefix = old.prefix /\ doc.hash = old.hash
          /\ doc.rateLimitPerMinute = old.rateLimitPerMinute
          /\ doc.usageCount = old.usageCount + 1
      BY <1>3, <2>1 DEF Counted, Document
    <3>2. doc.isActive = old.isActive
      BY <1>3, <2>1 DEF Counted, Document
    <3>. QED  BY <2>1, <3>1, <3>2 DEF Change
  <2>2. CASE /\ next = "use"
             /\ doc = Counted([old EXCEPT
                          !.currentMinuteWindow =
                              at[r] - (WindowSec - RetryAfter(raw[r])),
                          !.currentMinuteCount = hits[r]])
    <3>1. at[r] - (WindowSec - RetryAfter(raw[r])) \in Int \cup {None}
      BY <1>4
    <3>. QED  BY <1>3, <1>4, <2>2, <3>1, CountedSound
  <2>3. CASE next = "use" /\ doc = Counted(Fallback(old, at[r]))
    <3>1. PICK w \in Int \cup {None}, c \in Nat :
              Fallback(old, at[r]) = [old EXCEPT !.currentMinuteWindow = w,
                                                 !.currentMinuteCount = c]
      BY <1>3, <1>4, FallbackOf
    <3>. QED  BY <1>3, <2>3, <3>1, CountedSound
  <2>. QED  BY <1>1, <1>3, <2>1, <2>2, <2>3 DEF Goes
<1>6. pc'[r] = next /\ snap'[r] = old /\ mem'[r] = doc
  BY <1>1, <1>3 DEF Continue, DocInv, TypeOK
<1>7. Changed(r)'
  BY <1>1, <1>5, <1>6 DEF Changed, Change
<1>8. /\ at' \in [Requests -> Nat]
      /\ hits' \in [Requests -> Nat]
      /\ countedIn' \in [Requests -> Nat \cup {None}]
      /\ RedisTypeOK'
  <2>1. CASE ValidateCompare(r) \/ RedisAllows(r) \/ FallbackAllows(r)
    BY <2>1, LimitsAssumption
    DEF ValidateCompare, RedisAllows, FallbackAllows, DocInv, TypeOK, counting,
        redisVars, RedisTypeOK
  <2>2. CASE Increment(r)
    BY <1>2, <2>2, WindowAssumption, KeysAssumption
    DEF Increment, IncrementWithWindow, DocInv, TypeOK, RedisTypeOK
  <2>. QED  BY <2>1, <2>2
<1>. QED  BY <1>1, <1>5, <1>7, <1>8, ContinueKeeps

LEMMA TickKeeps ==
    ASSUME DocInv, Tick \/ UNCHANGED vars
    PROVE  DocInv'
<1>1. /\ UNCHANGED <<keys, underscored, requestVars>>
      /\ now' \in 0..MaxTime /\ RedisTypeOK'
  <2>1. CASE Tick
    BY <2>1, LimitsAssumption, WindowAssumption
    DEF Tick, Elapse, DocInv, TypeOK, RedisTypeOK
  <2>2. CASE UNCHANGED vars
    BY <2>2 DEF vars, redisVars, DocInv, TypeOK, RedisTypeOK
  <2>. QED  BY <2>1, <2>2
<1>2. TypeOK' /\ Twins'
  BY <1>1 DEF DocInv, TypeOK, Twins, requestVars, counting
<1>3. ASSUME NEW q \in Requests  PROVE Sound(q)'
  BY <1>1, StaysSound, UnchangedFollow DEF DocInv, requestVars
<1>. QED  BY <1>2, <1>3 DEF DocInv

LEMMA InitDoc == Init => DocInv
BY LimitsAssumption, WindowAssumption, NoneAssumption
DEF Init, RedisInit, DocInv, TypeOK, RedisTypeOK, Twins, Sound, Working, Using,
    Replies

LEMMA NextDoc == DocInv /\ [Next]_vars => DocInv'
<1>. SUFFICES ASSUME DocInv, [Next]_vars  PROVE DocInv'
  OBVIOUS
<1>1. ASSUME NEW r \in Requests,
             \/ CreateKey(r) \/ NotOwned(r) \/ Revoke(r) \/ Rotate(r)
             \/ Validate(r) \/ Abort(r)
      PROVE  DocInv'
  <2>1. CASE RevokeSave(r) \/ RotateSave(r) \/ ValidateSave(r)
    BY <2>1, SaveKeeps DEF RevokeSave, RotateSave, ValidateSave
  <2>. QED  BY <1>1, <2>1, CreateKeeps, LoadsKeep, RefusalsKeep, ValidatesKeep
            DEF Revoke, Rotate, Validate
<1>. QED  BY <1>1, TickKeeps DEF Next

LEMMA DocInvariance == Spec => []DocInv
BY InitDoc, NextDoc, PTL DEF Spec

\* The type invariant of the requests, the documents and the counters.
THEOREM TypeCorrect == Spec => []TypeOK
BY DocInvariance, PTL DEF DocInv
----------------------------------------------------------------------------
(* What a step may do to a stored document.                                *)

\* A stored document stays, is created, or is saved by a request that loaded it.
LEMMA KeysStep ==
    ASSUME [Next]_vars
    PROVE  \/ UNCHANGED keys
           \/ \E r \in Requests :
                 \/ CreateKey(r)
                 \/ Save(r, "revoke", "revoked")
                 \/ Save(r, "rotate", "rotated")
                 \/ Save(r, "use", "accepted")
<1>1. ASSUME NEW r \in Requests,
             \/ NotOwned(r) \/ RevokeLoad(r) \/ RotateLoad(r) \/ Abort(r)
             \/ ValidateNull(r) \/ ValidateLoad(r) \/ RedisLimits(r)
             \/ FallbackLimits(r)
      PROVE  UNCHANGED keys
  BY <1>1 DEF NotOwned, RevokeLoad, RotateLoad, Abort, ValidateNull,
              ValidateLoad, RedisLimits, FallbackLimits, Refuse, Load
<1>2. ASSUME NEW r \in Requests,
             \/ ValidateCompare(r) \/ Increment(r) \/ RedisAllows(r)
             \/ FallbackAllows(r)
      PROVE  UNCHANGED keys
  BY <1>2 DEF ValidateCompare, Increment, RedisAllows, FallbackAllows, Continue
<1>3. Tick \/ UNCHANGED vars => UNCHANGED keys
  BY DEF Tick, vars
<1>. QED  BY <1>1, <1>2, <1>3
     DEF Next, Revoke, Rotate, Validate, RevokeSave, RotateSave, ValidateSave

\* Each stored document is followed by the one that replaces it, and its prefix
\* is changed only by a rotation, to the prefix of that rotation.
LEMMA KeyMoves ==
    ASSUME DocInv, [Next]_vars, NEW k \in KeyIds, keys[k] # None
    PROVE  /\ keys[k] \in Document /\ Follows(keys[k], keys'[k])
           /\ \/ keys'[k].prefix = keys[k].prefix
              \/ keys'[k].prefix \in Requests /\ pc[keys'[k].prefix] = "rotate"
<1>1. keys[k] \in Document
  BY DEF DocInv, TypeOK
<1>2. CASE UNCHANGED keys
  BY <1>1, <1>2, FollowsItself
<1>3. ASSUME NEW r \in Requests, CreateKey(r)
      PROVE  keys'[k] = keys[k]
  BY <1>3 DEF CreateKey, DocInv, TypeOK
<1>4. ASSUME NEW r \in Requests, NEW stage \in {"revoke", "rotate", "use"},
             NEW with, Save(r, stage, with)
      PROVE  /\ Follows(keys[k], keys'[k])
             /\ \/ keys'[k].prefix = keys[k].prefix
                \/ keys'[k].prefix = r /\ pc[r] = "rotate"
  <2>1. PICK j, doc : j = target[r] /\ doc = Saved(r)
    OBVIOUS
  <2>2. pc[r] = stage /\ Prepared(r) /\ Twins
    BY <1>4 DEF Save, DocInv, Sound, Working, Using
  <2>3. /\ Follows(keys[j], doc)
        /\ doc.prefix = keys[j].prefix \/ (doc.prefix = r /\ pc[r] = "rotate")
    BY <2>1, <2>2, SavedByOperation
  <2>4. keys' = [keys EXCEPT ![j] = doc]
    BY <1>4, <2>1 DEF Save
  <2>5. (keys'[k] = doc /\ k = j) \/ keys'[k] = keys[k]
    BY <2>4 DEF DocInv, TypeOK
  <2>. QED  BY <1>1, <2>3, <2>5, FollowsItself
<1>. QED  BY <1>1, <1>2, <1>3, <1>4, KeysStep, FollowsItself

\* revokeKey: a key that is not active is never active again, although a
\* rotation or a use that loaded it while it was active is saved afterwards.
THEOREM RevokedFinal == Spec => RevokedIsFinal
<1>1. ASSUME DocInv, [Next]_vars, NEW k \in KeyIds, keys[k] # None,
             ~keys[k].isActive
      PROVE  ~keys'[k].isActive
  <2>1. keys[k] \in Document /\ Follows(keys[k], keys'[k])
    BY <1>1, KeyMoves
  <2>2. keys[k].isActive = FALSE
    BY <1>1, <2>1 DEF Document
  <2>3. keys'[k].isActive = FALSE
    BY <2>1, <2>2 DEF Follows
  <2>. QED  BY <2>3
<1>2. DocInv /\ [Next]_vars =>
          [\A k \in KeyIds :
              keys[k] # None /\ ~keys[k].isActive => ~keys'[k].isActive]_vars
  BY <1>1
<1>. QED  BY <1>2, DocInvariance, PTL DEF Spec, RevokedIsFinal

\* rotateKey: the prefix of a key only ever changes to one that nobody holds yet,
\* and its hash changes with it.
THEOREM ReplacedGone == Spec => ReplacedNeverReturns
<1>1. ASSUME DocInv, [Next]_vars, NEW k \in KeyIds,
             keys[k] # None, keys'[k].prefix # keys[k].prefix
      PROVE  keys'[k].prefix \notin Issued
  <2>1. PICK r \in Requests : r = keys'[k].prefix /\ pc[r] = "rotate"
    BY <1>1, KeyMoves
  <2>2. reply[r] = None
    BY <1>1, <2>1 DEF DocInv, Sound
  <2>. QED  BY <2>1, <2>2, NoneAssumption DEF Issued, Replies
<1>2. ASSUME DocInv, [Next]_vars, NEW k \in KeyIds, keys'[k] # None
      PROVE  keys'[k].prefix = keys'[k].hash
  BY <1>2, NextDoc DEF DocInv, Twins
<1>. DEFINE Step ==
        \A k \in KeyIds :
            /\ keys[k] # None /\ keys'[k].prefix # keys[k].prefix =>
                  keys'[k].prefix \notin Issued
            /\ keys'[k] # None => keys'[k].prefix = keys'[k].hash
<1>3. DocInv /\ [Next]_vars => [Step]_vars
  BY <1>1, <1>2
<1>. QED  BY <1>3, DocInvariance, PTL DEF Spec, ReplacedNeverReturns

\* Only ValidateLoad takes a request past the checks.
LEMMA BeginsToValidate ==
    ASSUME DocInv, [Next]_vars, NEW r \in Requests,
           pc[r] = "idle", pc'[r] = "compare"
    PROVE  ValidateLoad(r)
<1>1. pc \in [Requests -> {"idle", "revoke", "rotate", "compare",
                           "increment", "ttl", "use", "done"}]
  BY DEF DocInv, TypeOK
<1>2. ASSUME NEW q \in Requests,
             \/ CreateKey(q) \/ NotOwned(q) \/ ValidateNull(q) \/ RedisLimits(q)
             \/ FallbackLimits(q) \/ Abort(q)
             \/ RevokeSave(q) \/ RotateSave(q) \/ ValidateSave(q)
      PROVE  FALSE
  <2>1. pc' = [pc EXCEPT ![q] = "done"]
    BY <1>2 DEF CreateKey, NotOwned, ValidateNull, RedisLimits, FallbackLimits,
                Abort, RevokeSave, RotateSave, ValidateSave, Save, Refuse, Answer
  <2>. QED  BY <1>1, <2>1
<1>3. ASSUME NEW q \in Requests, RevokeLoad(q) \/ RotateLoad(q)
      PROVE  FALSE
  <2>1. \E next \in {"revoke", "rotate"} : pc' = [pc EXCEPT ![q] = next]
    BY <1>3 DEF RevokeLoad, RotateLoad, Load
  <2>. QED  BY <1>1, <2>1
<1>4. ASSUME NEW q \in Requests,
             \/ ValidateCompare(q) \/ Increment(q) \/ RedisAllows(q)
             \/ FallbackAllows(q)
      PROVE  FALSE
  <2>1. pc[q] # "idle"
    BY <1>4 DEF ValidateCompare, Increment, RedisAllows, FallbackAllows
  <2>2. \E next : pc' = [pc EXCEPT ![q] = next]
    BY <1>4 DEF ValidateCompare, Increment, RedisAllows, FallbackAllows, Continue
  <2>. QED  BY <1>1, <2>1, <2>2
<1>5. ASSUME NEW q \in Requests, ValidateLoad(q)
      PROVE  q = r
  <2>1. \E next : pc' = [pc EXCEPT ![q] = next]
    BY <1>5 DEF ValidateLoad, Load
  <2>. QED  BY <1>1, <2>1
<1>6. ~Tick /\ ~UNCHANGED vars
  BY DEF Tick, vars, requestVars
<1>. QED  BY <1>2, <1>3, <1>4, <1>5, <1>6 DEF Next, Revoke, Rotate, Validate

\* validate: a request that starts after a revocation was answered, or with a raw
\* key that was replaced, does not get past the checks.
THEOREM LateRefused == Spec => LateRequestsRefused
<1>1. ASSUME DocInv, [Next]_vars, NEW r \in Requests,
             pc[r] = "idle", pc'[r] = "compare"
      PROVE  /\ raw'[r] = keys[target'[r]].prefix
             /\ \A q \in Requests : reply[q] = "revoked" => target[q] # target'[r]
  <2>1. PICK w \in Issued, k \in KeyIds :
            /\ Accepts(k, w)
            /\ raw' = [raw EXCEPT ![r] = w]
            /\ target' = [target EXCEPT ![r] = k]
    BY <1>1, BeginsToValidate DEF ValidateLoad, Load
  <2>2. raw'[r] = w /\ target'[r] = k
    BY <1>1, <2>1 DEF DocInv, TypeOK
  <2>3. keys[k].prefix = w
    BY <2>1 DEF Accepts
  <2>4. ASSUME NEW q \in Requests, reply[q] = "revoked", target[q] = k
        PROVE  FALSE
    <3>1. keys[k].isActive = FALSE
      BY <1>1, <2>4 DEF DocInv, Sound
    <3>2. keys[k].isActive
      BY <2>1 DEF Accepts
    <3>. QED  BY <3>1, <3>2
  <2>. QED  BY <2>2, <2>3, <2>4
<1>. DEFINE Step ==
        \A r \in Requests :
            pc[r] = "idle" /\ pc'[r] = "compare" =>
                /\ raw'[r] = keys[target'[r]].prefix
                /\ \A q \in Requests :
                      reply[q] = "revoked" => target[q] # target'[r]
<1>2. DocInv /\ [Next]_vars => [Step]_vars
  BY <1>1
<1>. QED  BY <1>2, DocInvariance, PTL DEF Spec, LateRequestsRefused
----------------------------------------------------------------------------
(* What a step may do to the requests and the counters.                    *)

\* The awaits at which a request has not been counted by Redis.
Uncounted == {"idle", "revoke", "rotate", "compare", "increment"}

\* What r does at its own counters when it moves.
Moves(r) ==
    \/ /\ pc'[r] = "done"                               \* it ends
       /\ reply'[r] = "accepted" => pc[r] = "use"
       /\ UNCHANGED <<hits, countedIn, redisVars>>
    \/ /\ pc[r] = "idle" /\ pc'[r] \in {"revoke", "rotate", "compare"}
       /\ target'[r] \in KeyIds /\ snap'[r] = keys[target'[r]]
       /\ keys[target'[r]] # None
       /\ UNCHANGED <<keys, reply, hits, countedIn, redisVars>>
    \/ /\ pc[r] = "compare" /\ pc'[r] \in {"increment", "use"}
       /\ UNCHANGED <<keys, reply, snap, hits, countedIn, redisVars>>
    \/ /\ pc[r] = "increment" /\ pc'[r] = "ttl"
       /\ IncrementWithWindow(raw[r])
       /\ hits' = [hits EXCEPT ![r] = count'[raw[r]]]
       /\ countedIn' = [countedIn EXCEPT ![r] = window[raw[r]]]
       /\ UNCHANGED <<keys, reply, snap>>
    \/ /\ pc[r] = "ttl" /\ pc'[r] = "use"
       /\ hits[r] <= mem[r].rateLimitPerMinute
       /\ UNCHANGED <<keys, reply, snap, hits, countedIn, redisVars>>
    \/ /\ pc[r] \in {"increment", "ttl"} /\ pc'[r] = "use"
       /\ hits' = [hits EXCEPT ![r] = 0]
       /\ countedIn' = [countedIn EXCEPT ![r] = None]
       /\ UNCHANGED <<keys, reply, snap, redisVars>>

\* A step of r, seen from all requests.
Moved(r) ==
    /\ pc[r] # "done"
    /\ \A q \in Requests \ {r} :
          /\ pc'[q] = pc[q] /\ target'[q] = target[q] /\ raw'[q] = raw[q]
          /\ snap'[q] = snap[q] /\ reply'[q] = reply[q]
    /\ pc[r] # "idle" => raw'[r] = raw[r] /\ target'[r] = target[r]
    /\ Moves(r)

\* No request moves; the counters may get older.
Stands ==
    /\ UNCHANGED <<keys, requestVars>>
    /\ Elapse \/ UNCHANGED redisVars

LEMMA EndMoves ==
    ASSUME DocInv, NEW r \in Requests,
           \/ CreateKey(r) \/ NotOwned(r) \/ ValidateNull(r) \/ RedisLimits(r)
           \/ FallbackLimits(r) \/ Abort(r)
           \/ RevokeSave(r) \/ RotateSave(r) \/ ValidateSave(r)
    PROVE  Moved(r)
<1>1. PICK with :
          /\ Answer(r, with) /\ pc[r] # "done"
          /\ with = "accepted" => pc[r] = "use"
          /\ UNCHANGED <<hits, countedIn, redisVars>>
  <2>1. CASE CreateKey(r) \/ RevokeSave(r) \/ RotateSave(r) \/ ValidateSave(r)
    BY <2>1 DEF CreateKey, RevokeSave, RotateSave, ValidateSave, Save, counting
  <2>2. CASE NotOwned(r) \/ ValidateNull(r) \/ RedisLimits(r)
             \/ FallbackLimits(r) \/ Abort(r)
    BY <2>2 DEF NotOwned, ValidateNull, RedisLimits, FallbackLimits, Abort,
                Refuse, counting
  <2>. QED  BY <2>1, <2>2
<1>2. /\ \A q \in Requests \ {r} : target'[q] = target[q] /\ raw'[q] = raw[q]
      /\ pc[r] # "idle" => raw'[r] = raw[r] /\ target'[r] = target[r]
  <2>1. CASE CreateKey(r)
    BY <2>1 DEF CreateKey, DocInv, TypeOK
  <2>2. CASE ValidateNull(r)
    BY <2>2 DEF ValidateNull, Refuse, DocInv, TypeOK
  <2>3. CASE NotOwned(r) \/ RedisLimits(r) \/ FallbackLimits(r) \/ Abort(r)
             \/ RevokeSave(r) \/ RotateSave(r) \/ ValidateSave(r)
    BY <2>3 DEF NotOwned, RedisLimits, FallbackLimits, Abort, Refuse,
                RevokeSave, RotateSave, ValidateSave, Save
  <2>. QED  BY <2>1, <2>2, <2>3
<1>3. /\ pc'[r] = "done" /\ reply'[r] = with
      /\ \A q \in Requests \ {r} :
            pc'[q] = pc[q] /\ snap'[q] = snap[q] /\ reply'[q] = reply[q]
  BY <1>1 DEF Answer, DocInv, TypeOK
<1>. QED  BY <1>1, <1>2, <1>3 DEF Moved, Moves

LEMMA LoadMoves ==
    ASSUME DocInv, NEW r \in Requests,
           RevokeLoad(r) \/ RotateLoad(r) \/ ValidateLoad(r)
    PROVE  Moved(r)
<1>1. PICK k \in KeyIds, next \in {"revoke", "rotate", "compare"} :
          /\ keys[k] # None /\ pc[r] = "idle"
          /\ pc' = [pc EXCEPT ![r] = next]
          /\ target' = [target EXCEPT ![r] = k]
          /\ snap' = [snap EXCEPT ![r] = keys[k]]
          /\ UNCHANGED <<keys, counting, reply, redisVars>>
  <2>1. CASE RevokeLoad(r)
    BY <2>1 DEF RevokeLoad, Load
  <2>2. CASE RotateLoad(r)
    BY <2>2 DEF RotateLoad, Load
  <2>3. CASE ValidateLoad(r)
    BY <2>3 DEF ValidateLoad, Accepts, Load
  <2>. QED  BY <2>1, <2>2, <2>3
<1>2. \A q \in Requests \ {r} : raw'[q] = raw[q]
  BY DEF RevokeLoad, RotateLoad, ValidateLoad, DocInv, TypeOK
<1>. QED  BY <1>1, <1>2 DEF Moved, Moves, counting, DocInv, TypeOK

LEMMA ContinueMoves ==
    ASSUME DocInv, NEW r \in Requests,
           \/ ValidateCompare(r) \/ Increment(r) \/ RedisAllows(r)
           \/ FallbackAllows(r)
    PROVE  Moved(r)
<1>1. /\ pc[r] # "done" /\ UNCHANGED <<keys, target, raw, snap, reply>>
      /\ \A q \in Requests \ {r} : pc'[q] = pc[q]
  BY DEF ValidateCompare, Increment, RedisAllows, FallbackAllows, Continue,
         DocInv, TypeOK
<1>2. Moves(r)
  <2>1. CASE ValidateCompare(r)
    BY <2>1 DEF Moves, ValidateCompare, Continue, counting, DocInv, TypeOK
  <2>2. CASE Increment(r)
    BY <2>2 DEF Moves, Increment, Continue, DocInv, TypeOK
  <2>3. CASE RedisAllows(r)
    BY <2>3 DEF Moves, RedisAllows, WithinRedisLimit, Continue, counting,
                DocInv, TypeOK
  <2>4. CASE FallbackAllows(r)
    BY <2>4 DEF Moves, FallbackAllows, Continue, DocInv, TypeOK
  <2>. QED  BY <2>1, <2>2, <2>3, <2>4
<1>. QED  BY <1>1, <1>2 DEF Moved

LEMMA NextMoves ==
    ASSUME DocInv, [Next]_vars
    PROVE  (\E r \in Requests : Moved(r)) \/ Stands
<1>1. Tick \/ UNCHANGED vars => Stands
  BY DEF Tick, vars, Stands
<1>. QED  BY <1>1, EndMoves, LoadMoves, ContinueMoves
     DEF Next, Revoke, Rotate, Validate
----------------------------------------------------------------------------
(* The counts of uses.                                                     *)

Uses(k) == {r \in Requests : target[r] = k /\ reply[r] = "accepted"}

LEMMA UsesFinite ==
    \A k : IsFiniteSet(Uses(k)) /\ Cardinality(Uses(k)) \in Nat
<1>1. \A k : Uses(k) \in SUBSET Requests
  BY DEF Uses
<1>. QED  BY <1>1, RequestsAssumption, FS_Subset, FS_CardinalityType

\* No document claims more uses than were accepted, nor does a loaded one.
Claims ==
    /\ \A k \in KeyIds :
          keys[k] # None => keys[k].usageCount <= Cardinality(Uses(k))
    /\ \A r \in Requests :
          pc[r] \in Working =>
              snap[r].usageCount <= Cardinality(Uses(target[r]))

\* A request that was accepted stays accepted, and one that is being accepted
\* is a use more.
LEMMA UsesGrow ==
    ASSUME DocInv, [Next]_vars, NEW k \in KeyIds
    PROVE  /\ Cardinality(Uses(k)) <= Cardinality(Uses(k)')
           /\ Cardinality(Uses(k)') \in Nat
           /\ \A r \in Requests :
                 /\ reply[r] # "accepted"
                 /\ reply'[r] = "accepted" /\ target'[r] = k
                 => Cardinality(Uses(k)) + 1 <= Cardinality(Uses(k)')
<1>. PICK S, T : S = Uses(k) /\ T = Uses(k)'
  OBVIOUS
<1>1. T \in SUBSET Requests /\ S \in SUBSET Requests
  BY DEF Uses
<1>2. /\ IsFiniteSet(S) /\ Cardinality(S) \in Nat
      /\ IsFiniteSet(T) /\ Cardinality(T) \in Nat
  BY <1>1, RequestsAssumption, FS_Subset, FS_CardinalityType
<1>3. S \subseteq T
  <2>1. ASSUME NEW q \in S
        PROVE  target'[q] = target[q] /\ reply'[q] = reply[q]
    <3>1. q \in Requests /\ pc[q] = "done"
      BY NoneAssumption DEF Uses, DocInv, Sound, Replies
    <3>. QED  BY <3>1, NextMoves DEF Moved, Stands, requestVars
  <2>. QED  BY <2>1 DEF Uses
<1>4. Cardinality(S) <= Cardinality(T)
  BY <1>2, <1>3, FS_Subset
<1>5. ASSUME NEW r \in Requests, reply[r] # "accepted",
             reply'[r] = "accepted", target'[r] = k
      PROVE  Cardinality(S) + 1 <= Cardinality(T)
  <2>1. r \notin S /\ S \cup {r} \subseteq T
    BY <1>3, <1>5 DEF Uses
  <2>2. Cardinality(S \cup {r}) = Cardinality(S) + 1
    BY <1>2, <2>1, FS_AddElement
  <2>3. Cardinality(S \cup {r}) <= Cardinality(T)
    BY <1>2, <2>1, FS_Subset
  <2>. QED  BY <2>2, <2>3
<1>. QED  BY <1>2, <1>4, <1>5

LEMMA ClaimsKept ==
    ASSUME DocInv, Claims, [Next]_vars
    PROVE  Claims'
<1>1. ASSUME NEW k \in KeyIds, keys'[k] # None
      PROVE  keys'[k].usageCount <= Cardinality(Uses(k)')
  <2>1. /\ Cardinality(Uses(k)) \in Nat /\ Cardinality(Uses(k)') \in Nat
        /\ Cardinality(Uses(k)) <= Cardinality(Uses(k)')
    BY UsesGrow, UsesFinite
  <2>2. CASE keys'[k] = keys[k]
    <3>1. keys[k].usageCount \in Nat
      BY <1>1, <2>2 DEF DocInv, TypeOK, Document
    <3>. QED  BY <1>1, <2>1, <2>2, <3>1 DEF Claims
  <2>3. ASSUME NEW r \in Requests, CreateKey(r), keys'[k] # keys[k]
        PROVE  keys'[k].usageCount = 0
    BY <2>3 DEF CreateKey, Created, DocInv, TypeOK
  <2>4. ASSUME NEW r \in Requests, NEW stage, NEW with, keys'[k] # keys[k],
               <<stage, with>> \in {<<"revoke", "revoked">>,
                                    <<"rotate", "rotated">>,
                                    <<"use", "accepted">>},
               Save(r, stage, with)
        PROVE  keys'[k].usageCount <= Cardinality(Uses(k)')
    <3>1. PICK doc : doc = Saved(r)
      OBVIOUS
    <3>2. /\ pc[r] = stage /\ Prepared(r) /\ Twins /\ reply[r] = None
          /\ stage \in {"revoke", "rotate", "use"}
      BY <2>4 DEF Save, DocInv, Sound, Working, Using
    <3>3. k = target[r] /\ keys'[k] = doc
      BY <2>4, <3>1 DEF Save, DocInv, TypeOK
    <3>4. keys[k] \in Document /\ snap[r] \in Document
      BY <3>2, <3>3 DEF Prepared
    <3>5. keys[k].usageCount \in Nat /\ snap[r].usageCount \in Nat
      BY <3>4 DEF Document
    <3>6. /\ keys[k].usageCount <= Cardinality(Uses(k))
          /\ snap[r].usageCount <= Cardinality(Uses(k))
      BY <3>2, <3>3, <3>4, NoneAssumption DEF Claims, Working, Using
    <3>7. CASE stage \in {"revoke", "rotate"}
      <4>1. doc.usageCount \in {0, keys[k].usageCount}
        BY <3>1, <3>2, <3>3, <3>7, SavedByOperation
      <4>. QED  BY <2>1, <3>3, <3>5, <3>6, <4>1
    <3>8. CASE stage = "use"
      <4>1. doc.usageCount = snap[r].usageCount + 1
        BY <3>1, <3>2, <3>8, SavedByOperation
      <4>2. reply'[r] = "accepted" /\ target'[r] = k
        BY <2>4, <3>3, <3>8 DEF Save, Answer, DocInv, TypeOK
      <4>3. reply[r] # "accepted"
        BY <3>2, NoneAssumption DEF Replies
      <4>4. Cardinality(Uses(k)) + 1 <= Cardinality(Uses(k)')
        BY <4>2, <4>3, UsesGrow
      <4>. QED  BY <2>1, <3>3, <3>5, <3>6, <4>1, <4>4
    <3>. QED  BY <3>2, <3>7, <3>8
  <2>. QED  BY <2>1, <2>2, <2>3, <2>4, KeysStep
<1>2. ASSUME NEW q \in Requests, pc'[q] \in Working, NEW k, k = target'[q]
      PROVE  snap'[q].usageCount <= Cardinality(Uses(k)')
  <2>. DEFINE Kept == /\ pc[q] \in Working /\ target[q] = k
                      /\ snap'[q] = snap[q]
              Loaded == k \in KeyIds /\ keys[k] # None /\ snap'[q] = keys[k]
  <2>1. CASE Kept
    <3>1. k \in KeyIds /\ snap[q] \in Document
      BY <2>1 DEF DocInv, Sound, Prepared
    <3>2. snap[q].usageCount \in Nat
      BY <3>1 DEF Document
    <3>3. snap[q].usageCount <= Cardinality(Uses(k))
      BY <2>1 DEF Claims
    <3>4. /\ Cardinality(Uses(k)) \in Nat /\ Cardinality(Uses(k)') \in Nat
          /\ Cardinality(Uses(k)) <= Cardinality(Uses(k)')
      BY <3>1, UsesGrow, UsesFinite
    <3>. QED  BY <2>1, <3>2, <3>3, <3>4
  <2>2. CASE Loaded
    <3>1. keys[k] \in Document
      BY <2>2 DEF DocInv, TypeOK
    <3>2. keys[k].usageCount \in Nat
      BY <3>1 DEF Document
    <3>3. keys[k].usageCount <= Cardinality(Uses(k))
      BY <2>2 DEF Claims
    <3>4. /\ Cardinality(Uses(k)) \in Nat /\ Cardinality(Uses(k)') \in Nat
          /\ Cardinality(Uses(k)) <= Cardinality(Uses(k)')
      BY <2>2, UsesGrow, UsesFinite
    <3>. QED  BY <2>2, <3>2, <3>3, <3>4
  <2>3. CASE Stands
    BY <1>2, <2>1, <2>3 DEF Stands, requestVars
  <2>4. ASSUME NEW r \in Requests, Moved(r)
        PROVE  Kept \/ Loaded
    <3>1. CASE q # r
      BY <1>2, <2>4, <3>1 DEF Moved
    <3>2. CASE q = r
      BY <1>2, <2>4, <3>2 DEF Moved, Moves, Working, Using
    <3>. QED  BY <3>1, <3>2
  <2>. QED  BY <2>1, <2>2, <2>3, <2>4, NextMoves
<1>3. ASSUME NEW q \in Requests, pc'[q] \in Working
      PROVE  (snap[q].usageCount <= Cardinality(Uses(target[q])))'
  <2>1. PICK k : k = target'[q]
    OBVIOUS
  <2>2. snap'[q].usageCount <= Cardinality(Uses(k)')
    BY <1>2, <1>3, <2>1
  <2>. QED  BY <2>1, <2>2 DEF Uses
<1>. QED  BY <1>1, <1>3 DEF Claims

\* validate, rotateKey: usageCount never claims more uses than were accepted.
THEOREM UsageReal == Spec => []UsageIsReal
<1>1. Init => Claims
  BY DEF Init, Claims, Working, Using
<1>2. Claims => UsageIsReal
  BY DEF Claims, UsageIsReal, Uses
<1>3. DocInv /\ Claims /\ [Next]_vars => Claims'
  BY ClaimsKept
<1>. QED  BY <1>1, <1>2, <1>3, DocInvariance, PTL DEF Spec
----------------------------------------------------------------------------
(* The counts that Redis answered.                                         *)

\* A request that was counted presented a raw key, and one that was not yet has
\* no count.
Answers ==
    \A r \in Requests :
        /\ pc[r] \in Uncounted => countedIn[r] = None
        /\ countedIn[r] \in Nat => raw[r] \in Requests

\* No count is ahead of its counter.
NotAhead ==
    \A r \in Requests :
        countedIn[r] \in Nat =>
            /\ hits[r] > 0
            /\ countedIn[r] <= window[raw[r]]
            /\ countedIn[r] = window[raw[r]] => hits[r] <= count[raw[r]]

\* No two uses of a raw key got the same count in one window.
Distinct ==
    \A q, r \in Requests :
        countedIn[r] \in Nat /\ countedIn[q] = countedIn[r] /\ raw[q] = raw[r]
            /\ hits[q] = hits[r] => q = r

\* A use that Redis let pass was within the limit of its key, which nobody
\* changes.
Decided(r) ==
    (pc[r] = "use" \/ reply[r] = "accepted") /\ countedIn[r] \in Nat =>
        hits[r] <= keys[target[r]].rateLimitPerMinute

Counts == Answers /\ NotAhead /\ Distinct /\ \A r \in Requests : Decided(r)

LEMMA IncrementCounts ==
    ASSUME DocInv, Answers, NotAhead, Distinct, NEW r \in Requests,
           pc[r] = "increment", Moved(r)
    PROVE  Answers' /\ NotAhead' /\ Distinct'
<1>1. CASE UNCHANGED <<hits, countedIn, redisVars>>
  <2>1. \A q \in Requests : /\ raw'[q] = raw[q]
                            /\ pc'[q] \in Uncounted => pc[q] \in Uncounted
    BY DEF Moved, Moves, Uncounted
  <2>. QED  BY <1>1, <2>1 DEF Answers, NotAhead, Distinct, redisVars
<1>2. CASE /\ pc'[r] = "use" /\ hits' = [hits EXCEPT ![r] = 0]
           /\ countedIn' = [countedIn EXCEPT ![r] = None]
           /\ UNCHANGED redisVars
  <2>1. /\ countedIn'[r] = None
        /\ \A q \in Requests \ {r} :
              countedIn'[q] = countedIn[q] /\ hits'[q] = hits[q]
    BY <1>2 DEF DocInv, TypeOK
  <2>2. \A q \in Requests : /\ raw'[q] = raw[q]
                            /\ pc'[q] \in Uncounted => pc[q] \in Uncounted
    BY <1>2 DEF Moved, Uncounted
  <2>. QED  BY <1>2, <2>1, <2>2, NoneAssumption
            DEF Answers, NotAhead, Distinct, redisVars
<1>3. CASE /\ pc'[r] = "ttl" /\ IncrementWithWindow(raw[r])
           /\ hits' = [hits EXCEPT ![r] = count'[raw[r]]]
           /\ countedIn' = [countedIn EXCEPT ![r] = window[raw[r]]]
  <2>1. PICK w \in Requests : w = raw[r]
    BY DEF DocInv, Sound, Using
  <2>2. PICK n \in Nat, v \in Nat : n = count[w] /\ v = window[w]
    BY KeysAssumption DEF DocInv, TypeOK, RedisTypeOK
  <2>3. /\ count' = [count EXCEPT ![w] = n + 1] /\ window' = window
        /\ count \in [Requests -> Nat] /\ window \in [Requests -> Nat]
    BY <1>3, <2>1, <2>2, KeysAssumption
    DEF IncrementWithWindow, DocInv, TypeOK, RedisTypeOK
  <2>4. /\ count'[w] = n + 1 /\ countedIn'[r] = v /\ hits'[r] = n + 1
        /\ \A q \in Requests \ {r} :
              countedIn'[q] = countedIn[q] /\ hits'[q] = hits[q]
    BY <1>3, <2>1, <2>2, <2>3 DEF DocInv, TypeOK
  <2>5. \A q \in Requests : /\ raw'[q] = raw[q]
                            /\ pc'[q] \in Uncounted => q # r /\ pc[q] \in Uncounted
    BY <1>3 DEF Moved, Uncounted
  <2>6. \A q \in Requests : hits[q] \in Nat /\ raw[q] \in Requests \cup {None}
    BY DEF DocInv, TypeOK
  <2>7. ASSUME NEW q \in Requests \ {r}, countedIn[q] = v, raw[q] = w
        PROVE  hits[q] <= n
    BY <2>2, <2>7 DEF NotAhead
  <2>8. Answers'
    BY <2>1, <2>4, <2>5, NoneAssumption DEF Answers
  <2>9. NotAhead'
    <3>1. ASSUME NEW q \in Requests \ {r}, countedIn[q] \in Nat
          PROVE  /\ hits[q] > 0 /\ countedIn[q] <= window'[raw[q]]
                 /\ countedIn[q] = window'[raw[q]] => hits[q] <= count'[raw[q]]
      <4>1. raw[q] \in Requests
        BY <3>1 DEF Answers
      <4>2. count[raw[q]] <= count'[raw[q]] /\ count[raw[q]] \in Nat
            /\ count'[raw[q]] \in Nat
        BY <2>2, <2>3, <4>1
      <4>. QED  BY <2>3, <2>6, <3>1, <4>2 DEF NotAhead
    <3>2. /\ hits'[r] > 0 /\ countedIn'[r] <= window'[raw[r]]
          /\ hits'[r] <= count'[raw[r]]
      BY <2>1, <2>2, <2>3, <2>4
    <3>. QED  BY <2>4, <2>5, <3>1, <3>2 DEF NotAhead
  <2>10. Distinct'
    BY <2>1, <2>2, <2>4, <2>5, <2>6, <2>7 DEF Distinct
  <2>. QED  BY <2>8, <2>9, <2>10
<1>. QED  BY <1>1, <1>2, <1>3 DEF Moved, Moves

\* A counter whose life ends begins a new window at 0.
LEMMA AnswersKept ==
    ASSUME DocInv, Answers, NotAhead, Distinct, [Next]_vars
    PROVE  Answers' /\ NotAhead' /\ Distinct'
<1>1. CASE Stands /\ Elapse
  <2>1. UNCHANGED <<pc, raw, hits, countedIn>>
    BY <1>1 DEF Stands, requestVars, counting
  <2>2. /\ count \in [Requests -> Nat] /\ window \in [Requests -> Nat]
        /\ \A q \in Requests : hits[q] \in Nat
    BY KeysAssumption DEF DocInv, TypeOK, RedisTypeOK
  <2>3. \A w \in Requests :
           \/ window'[w] = window[w] /\ count'[w] = count[w]
           \/ window'[w] = window[w] + 1 /\ count'[w] = 0
    BY <1>1, KeysAssumption DEF Elapse
  <2>4. ASSUME NEW q \in Requests, countedIn[q] \in Nat
        PROVE  /\ hits[q] > 0 /\ countedIn[q] <= window'[raw[q]]
               /\ countedIn[q] = window'[raw[q]] => hits[q] <= count'[raw[q]]
    <3>1. raw[q] \in Requests
      BY <2>4 DEF Answers
    <3>. QED  BY <2>2, <2>3, <2>4, <3>1 DEF NotAhead
  <2>. QED  BY <2>1, <2>4 DEF Answers, NotAhead, Distinct
<1>2. CASE Stands /\ UNCHANGED redisVars
  BY <1>2 DEF Stands, requestVars, counting, redisVars, Answers, NotAhead, Distinct
<1>3. ASSUME NEW r \in Requests, Moved(r), pc[r] # "increment"
      PROVE  Answers' /\ NotAhead' /\ Distinct'
  <2>1. CASE UNCHANGED <<hits, countedIn, redisVars>>
    <3>1. \A q \in Requests : countedIn[q] \in Nat => raw'[q] = raw[q]
      BY <1>3, NoneAssumption DEF Moved, Answers, Uncounted
    <3>2. \A q \in Requests : pc'[q] \in Uncounted => countedIn[q] = None
      BY <1>3 DEF Moved, Moves, Answers, Uncounted
    <3>. QED  BY <2>1, <3>1, <3>2 DEF Answers, NotAhead, Distinct, redisVars
  <2>2. CASE /\ pc[r] = "ttl" /\ pc'[r] = "use"
             /\ hits' = [hits EXCEPT ![r] = 0]
             /\ countedIn' = [countedIn EXCEPT ![r] = None]
             /\ UNCHANGED redisVars
    <3>1. /\ countedIn'[r] = None
          /\ \A q \in Requests \ {r} :
                countedIn'[q] = countedIn[q] /\ hits'[q] = hits[q]
      BY <2>2 DEF DocInv, TypeOK
    <3>2. \A q \in Requests : /\ raw'[q] = raw[q]
                              /\ pc'[q] \in Uncounted => pc[q] \in Uncounted
      BY <1>3, <2>2 DEF Moved, Uncounted
    <3>. QED  BY <2>2, <3>1, <3>2, NoneAssumption
              DEF Answers, NotAhead, Distinct, redisVars
  <2>. QED  BY <1>3, <2>1, <2>2 DEF Moved, Moves
<1>. QED  BY <1>1, <1>2, <1>3, IncrementCounts, NextMoves DEF Stands

\* The limit of the key that a request uses.
LEMMA LimitStays ==
    ASSUME DocInv, [Next]_vars, NEW k \in KeyIds, keys[k] \in Document
    PROVE  /\ keys'[k].rateLimitPerMinute = keys[k].rateLimitPerMinute
           /\ keys[k].rateLimitPerMinute \in Nat
BY KeyMoves, NoneAssumption, LimitsAssumption DEF Follows, Document

LEMMA DecidedKept ==
    ASSUME DocInv, Counts, [Next]_vars, NEW q \in Requests
    PROVE  Decided(q)'
<1>. SUFFICES ASSUME pc'[q] = "use" \/ reply'[q] = "accepted",
                     countedIn'[q] \in Nat
              PROVE  hits'[q] <= keys'[target'[q]].rateLimitPerMinute
  BY DEF Decided
<1>1. CASE /\ pc[q] \in Using \/ reply[q] = "accepted"
           /\ target'[q] = target[q] /\ hits'[q] = hits[q]
           /\ hits[q] <= keys[target[q]].rateLimitPerMinute
  <2>1. target[q] \in KeyIds /\ keys[target[q]] \in Document
    BY <1>1 DEF DocInv, Sound, Prepared, Working
  <2>. QED  BY <1>1, <2>1, LimitStays
<1>2. CASE Stands
  BY <1>1, <1>2 DEF Stands, requestVars, counting, Counts, Decided, Using
<1>3. ASSUME NEW r \in Requests, Moved(r), r # q
      PROVE  /\ pc[q] \in Using \/ reply[q] = "accepted"
             /\ target'[q] = target[q] /\ hits'[q] = hits[q]
             /\ hits[q] <= keys[target[q]].rateLimitPerMinute
  <2>1. /\ pc'[q] = pc[q] /\ reply'[q] = reply[q] /\ target'[q] = target[q]
        /\ hits'[q] = hits[q] /\ countedIn'[q] = countedIn[q]
    BY <1>3 DEF Moved, Moves, DocInv, TypeOK
  <2>. QED  BY <2>1 DEF Counts, Decided, Using
<1>4. CASE Moved(q)
  <2>1. reply[q] = None /\ pc[q] # "done"
    BY <1>4 DEF Moved, DocInv, Sound
  <2>2. reply[q] # "accepted"
    BY <2>1, NoneAssumption DEF Replies
  <2>3. \/ /\ pc[q] = "use" /\ UNCHANGED <<hits, countedIn>>
        \/ /\ pc[q] = "compare" /\ countedIn'[q] = countedIn[q]
        \/ /\ pc[q] = "ttl" /\ hits[q] <= mem[q].rateLimitPerMinute
           /\ UNCHANGED hits
        \/ countedIn'[q] = None
    BY <1>4, <2>2 DEF Moved, Moves, DocInv, TypeOK
  <2>4. CASE pc[q] = "use" /\ UNCHANGED <<hits, countedIn>>
    BY <1>1, <1>4, <2>4 DEF Moved, Counts, Decided, Using
  <2>5. CASE pc[q] = "ttl" /\ hits[q] <= mem[q].rateLimitPerMinute
             /\ UNCHANGED hits
    <3>1. Prepared(q)
      BY <2>5 DEF DocInv, Sound, Working, Using
    <3>2. mem[q].rateLimitPerMinute = keys[target[q]].rateLimitPerMinute
      BY <2>5, <3>1 DEF Prepared, Changed, Change, Follows
    <3>. QED  BY <1>1, <1>4, <2>5, <3>2 DEF Moved, Using
  <2>6. ~(pc[q] = "compare" /\ countedIn'[q] = countedIn[q])
    BY NoneAssumption DEF Counts, Answers, Uncounted
  <2>. QED  BY <2>3, <2>4, <2>5, <2>6, NoneAssumption
<1>. QED  BY <1>1, <1>2, <1>3, <1>4, NextMoves

LEMMA CountsInvariance == Spec => [](DocInv /\ Counts)
<1>1. Init => Counts
  BY NoneAssumption
  DEF Init, Counts, Answers, NotAhead, Distinct, Decided, Replies
<1>2. DocInv /\ Counts /\ [Next]_vars => Counts'
  BY AnswersKept, DecidedKept DEF Counts
<1>. QED  BY <1>1, <1>2, DocInvariance, PTL DEF Spec

\* enforceApiKeyRateLimit: the uses of a raw key that are accepted and were
\* counted in one window have different counts, none beyond the limit.
THEOREM RedisLimit == Spec => []RedisHoldsLimit
<1>1. ASSUME DocInv, Counts, NEW w \in Requests, NEW k \in KeyIds,
             NEW n \in 0..MaxTime, NEW accepted,
             accepted = {r \in Requests : /\ raw[r] = w
                                          /\ target[r] = k
                                          /\ reply[r] = "accepted"
                                          /\ countedIn[r] = n},
             accepted # {}
      PROVE  Cardinality(accepted) <= keys[k].rateLimitPerMinute
  <2>1. PICK limit \in Nat : limit = keys[k].rateLimitPerMinute
    <3>1. keys[k] \in Document
      BY <1>1 DEF DocInv, Sound
    <3>. QED  BY <3>1, LimitsAssumption DEF Document
  <2>2. n \in Nat
    BY LimitsAssumption
  <2>. DEFINE f == [r \in accepted |-> hits[r]]
  <2>3. ASSUME NEW r \in accepted
        PROVE  hits[r] \in 1..limit
    <3>1. r \in Requests /\ countedIn[r] \in Nat /\ hits[r] \in Nat
      BY <1>1, <2>2 DEF DocInv, TypeOK
    <3>2. hits[r] > 0
      BY <1>1, <3>1 DEF Counts, NotAhead
    <3>3. hits[r] <= limit
      BY <1>1, <2>1, <3>1 DEF Counts, Decided
    <3>. QED  BY <3>1, <3>2, <3>3
  <2>4. \A q, r \in accepted : hits[q] = hits[r] => q = r
    BY <1>1, <2>2 DEF Counts, Distinct
  <2>5. f \in Injection(accepted, 1..limit)
    BY <2>3, <2>4 DEF Injection, IsInjective
  <2>6. IsFiniteSet(1..limit) /\ Cardinality(1..limit) = limit
    BY FS_Interval
  <2>7. Cardinality(accepted) <= Cardinality(1..limit)
    BY <2>5, <2>6, FS_Injection
  <2>. QED  BY <2>1, <2>6, <2>7
<1>2. DocInv /\ Counts => RedisHoldsLimit
  BY <1>1 DEF RedisHoldsLimit
<1>. QED  BY <1>2, CountsInvariance, PTL
=============================================================================
