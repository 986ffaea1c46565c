-------------------------- MODULE ClientCache_proofs --------------------------
(***************************************************************************)
(* The inductive invariant of the client cache, for any number of requests,*)
(* resources, configurations, faults and edits: every step of ClientCache  *)
(* preserves CacheInv, whatever the module that composes it does between   *)
(* the steps.                                                              *)
(***************************************************************************)
EXTENDS ClientCache, TLAPS

(* A call that has started is about a resource; one that is done has a     *)
(* client that was opened from a configuration.                            *)
CallsWellFormed == \A r \in Requests :
  /\ call[r].stage # "none" => call[r].resource \in Resources
  /\ call[r].stage = "done" => call[r].client \in Revisions

(* The request inside syncResource is the holder of resourceMu.            *)
MutexInv == \A r \in Requests : call[r].stage = "apply" <=> resourceMu = r

(* An open client is the cached one.                                       *)
OpenIsCached == \A r \in Requests :
  call[r].open => /\ call[r].stage = "done"
                  /\ cache[call[r].resource] = call[r].client

CacheInv == CacheTypeOK /\ CallsWellFormed /\ MutexInv /\ OpenIsCached

-----------------------------------------------------------------------------
(* The empty cache a process starts with satisfies the invariant.          *)
LEMMA CacheInitInv == CacheInit => CacheInv
BY NoneIsFresh DEF CacheInit, CacheInv, CacheTypeOK, CallsWellFormed, MutexInv,
     OpenIsCached, NoCall, Call, Configs

(* A step that leaves the cache alone.                                     *)
LEMMA CacheStutter == CacheInv /\ UNCHANGED cacheVars => CacheInv'
BY DEF cacheVars, CacheInv, CacheTypeOK, CallsWellFormed, MutexInv, OpenIsCached

(* syncResource's first half: lock and read.                               *)
LEMMA SyncReadInv ==
  ASSUME CacheInv, NEW r \in Requests, SyncRead(r)
  PROVE  CacheInv'
<1> USE DEF CacheInv, CacheTypeOK, Configs
<1>1. PICK got \in Configs : call' = [call EXCEPT ![r].stage = "apply", ![r].read = got]
  <2>1. call[r].resource \in Resources
    BY DEF SyncRead, Lock, CallsWellFormed
  <2> QED BY <2>1 DEF SyncRead, Lock
<1>2. call'[r] = [call[r] EXCEPT !.stage = "apply", !.read = got]
  BY <1>1
<1>3. \A q \in Requests : q # r => call'[q] = call[q]
  BY <1>1
<1>4. call[r] \in Call /\ call[r].stage = "sync"
  BY DEF SyncRead, Lock
<1>5. CacheTypeOK'
  BY <1>1, <1>4 DEF SyncRead, Lock, Call
<1>6. CallsWellFormed'
  <2>1. call'[r].stage = "apply" /\ call'[r].resource = call[r].resource
    BY <1>2, <1>4 DEF Call
  <2> QED BY <1>3, <1>4, <2>1 DEF CallsWellFormed
<1>7. MutexInv'
  BY <1>2, <1>3, <1>4, NoneIsFresh DEF MutexInv, SyncRead, Lock, Call
<1>8. OpenIsCached'
  BY <1>2, <1>3, <1>4 DEF OpenIsCached, SyncRead, Lock, Call
<1> QED BY <1>5, <1>6, <1>7, <1>8

(* Closing the cached client of x changes nothing but open.                *)
LEMMA ClosingKeeps ==
  ASSUME CacheInv, NEW x \in Resources
  PROVE  /\ Closing(x) \in [Requests -> Call]
         /\ \A q \in Requests :
              /\ Closing(x)[q].stage = call[q].stage
              /\ Closing(x)[q].resource = call[q].resource
              /\ Closing(x)[q].client = call[q].client
              /\ Closing(x)[q].open => call[q].open /\ call[q].resource # x
<1>1. SUFFICES ASSUME NEW q \in Requests
               PROVE  /\ Closing(x)[q] \in Call
                      /\ Closing(x)[q].stage = call[q].stage
                      /\ Closing(x)[q].resource = call[q].resource
                      /\ Closing(x)[q].client = call[q].client
                      /\ Closing(x)[q].open => call[q].open /\ call[q].resource # x
  BY DEF Closing
<1>2. call[q] \in Call
  BY DEF CacheInv, CacheTypeOK
<1>3. CASE call[q].resource = x
  <2>1. Closing(x)[q] = [call[q] EXCEPT !.open = FALSE]
    BY <1>3 DEF Closing
  <2> QED BY <1>2, <2>1 DEF Call
<1>4. CASE call[q].resource # x
  <2>1. Closing(x)[q] = call[q]
    BY <1>4 DEF Closing
  <2> QED BY <1>2, <1>4, <2>1
<1> QED BY <1>3, <1>4

(* syncResource's second half: remove, remember, unlock.                   *)
LEMMA SyncApplyInv ==
  ASSUME CacheInv, NEW r \in Requests, SyncApply(r)
  PROVE  CacheInv'
<1> USE DEF CacheInv, CacheTypeOK, Configs
<1> DEFINE x    == call[r].resource
           read == call[r].read
           left == IF MustRemove(x, read) THEN Closing(x) ELSE call
<1>1. call[r] \in Call /\ call[r].stage = "apply" /\ x \in Resources /\ read \in Configs
  BY DEF SyncApply, Unlock, CallsWellFormed, Call
<1>2. PICK s \in {"failed", "fetch"} : call' = [left EXCEPT ![r].stage = s]
  BY DEF SyncApply, Unlock
<1>3. /\ left \in [Requests -> Call]
      /\ \A q \in Requests : /\ left[q].stage = call[q].stage
                             /\ left[q].resource = call[q].resource
                             /\ left[q].client = call[q].client
                             /\ left[q].open => call[q].open
                             /\ left[q].open /\ MustRemove(x, read) => call[q].resource # x
  BY <1>1, ClosingKeeps
<1>4. \A q \in Requests : q # r => call'[q] = left[q]
  BY <1>2, <1>3
<1>5. /\ call'[r].stage = s /\ call'[r].resource = x
      /\ call'[r].open = left[r].open /\ call'[r].client = left[r].client
  BY <1>2, <1>3 DEF Call
<1>6. CacheTypeOK'
  <2>1. call' \in [Requests -> Call]
    BY <1>2, <1>3 DEF Call
  <2> QED BY <2>1, <1>1 DEF SyncApply, Unlock
<1>7. CallsWellFormed'
  BY <1>1, <1>3, <1>4, <1>5 DEF CallsWellFormed
<1>8. MutexInv'
  <2>1. resourceMu = r /\ resourceMu' = None
    BY <1>1 DEF SyncApply, Unlock, MutexInv
  <2> QED BY <2>1, <1>3, <1>4, <1>5, NoneIsFresh DEF MutexInv
<1>9. OpenIsCached'
  <2>1. ~left[r].open
    BY <1>1, <1>3 DEF OpenIsCached
  <2>2. ASSUME NEW q \in Requests, call'[q].open
        PROVE  call'[q].stage = "done" /\ cache'[call'[q].resource] = call'[q].client
    <3>1. q # r /\ call'[q] = left[q]
      BY <2>1, <2>2, <1>4, <1>5
    <3>2. /\ call[q].open /\ left[q].stage = "done"
          /\ left[q].resource \in Resources
          /\ cache[left[q].resource] = left[q].client
          /\ MustRemove(x, read) => left[q].resource # x
      BY <3>1, <2>2, <1>3 DEF OpenIsCached, CallsWellFormed
    <3> QED BY <3>1, <3>2, <1>1 DEF SyncApply, Unlock
  <2> QED BY <2>2 DEF OpenIsCached
<1> QED BY <1>6, <1>7, <1>8, <1>9

(* A request that obtains the client cached for its resource.              *)
LEMMA ObtainInv ==
  ASSUME CacheInv, NEW r \in Requests, NEW rev \in Revisions,
         call[r].stage = "fetch", Obtain(r, rev),
         cache' = [cache EXCEPT ![call[r].resource] = rev],
         \A q \in Requests : call[q].open /\ call[q].resource = call[r].resource
                               => call[q].client = rev,
         UNCHANGED <<config, revisions, resourceMu, seen>>
  PROVE  CacheInv'
<1> USE DEF CacheInv, CacheTypeOK, Configs
<1>1. call[r] \in Call /\ call[r].resource \in Resources
  BY DEF CallsWellFormed
<1>2. /\ call' \in [Requests -> Call]
      /\ \A q \in Requests : q # r => call'[q] = call[q]
      /\ call'[r].stage = "done" /\ call'[r].resource = call[r].resource
      /\ call'[r].client = rev
  BY <1>1 DEF Obtain, Call
<1>3. CacheTypeOK'
  BY <1>1, <1>2
<1>4. CallsWellFormed'
  BY <1>1, <1>2 DEF CallsWellFormed
<1>5. MutexInv'
  BY <1>2 DEF MutexInv
<1>6. OpenIsCached'
  BY <1>1, <1>2 DEF OpenIsCached, CallsWellFormed
<1> QED BY <1>3, <1>4, <1>5, <1>6

(* Manager.Get closes an idle client.                                      *)
LEMMA CloseIdleInv ==
  ASSUME CacheInv, NEW r \in Requests, CloseIdle(r)
  PROVE  CacheInv'
<1> USE DEF CacheInv, CacheTypeOK, Configs
<1> DEFINE x == call[r].resource
<1>1. call[r].stage = "fetch" /\ x \in Resources
  BY DEF CloseIdle, CallsWellFormed
<1>2. /\ call' \in [Requests -> Call]
      /\ \A q \in Requests :
           /\ call'[q].stage = call[q].stage
           /\ call'[q].resource = call[q].resource
           /\ call'[q].client = call[q].client
           /\ call'[q].open => call[q].open /\ call[q].resource # x
  BY <1>1, ClosingKeeps DEF CloseIdle
<1>3. /\ cache' = [cache EXCEPT ![x] = None]
      /\ UNCHANGED <<config, revisions, resourceMu, seen>>
  BY DEF CloseIdle
<1>4. CacheTypeOK'
  BY <1>1, <1>2, <1>3
<1>5. CallsWellFormed' /\ MutexInv'
  BY <1>2, <1>3 DEF CallsWellFormed, MutexInv
<1>6. OpenIsCached'
  BY <1>1, <1>2, <1>3 DEF OpenIsCached, CallsWellFormed
<1> QED BY <1>4, <1>5, <1>6

(* Manager.Get, in its three outcomes.                                     *)
LEMMA FetchInv ==
  ASSUME CacheInv, NEW r \in Requests,
         FetchCached(r) \/ FetchNew(r) \/ FetchFails(r)
  PROVE  CacheInv'
<1> USE DEF CacheInv, CacheTypeOK, Configs
<1> DEFINE x == call[r].resource
<1>1. call[r] \in Call /\ call[r].stage = "fetch" /\ x \in Resources
  BY DEF FetchCached, FetchNew, FetchFails, CallsWellFormed
<1>2. CASE FetchCached(r)
  <2>1. cache[x] \in Revisions /\ cache' = [cache EXCEPT ![x] = cache[x]]
    BY <1>1, <1>2 DEF FetchCached
  <2>2. \A q \in Requests : call[q].open /\ call[q].resource = x => call[q].client = cache[x]
    BY DEF OpenIsCached
  <2> QED BY <1>1, <1>2, <2>1, <2>2, ObtainInv DEF FetchCached
<1>3. cache[x] = None =>
        \A q \in Requests : ~(call[q].open /\ call[q].resource = x)
  <2>1. SUFFICES ASSUME NEW q \in Requests, cache[x] = None, call[q].open,
                        call[q].resource = x
                 PROVE  FALSE
    OBVIOUS
  <2>2. call[q].client \in Revisions /\ cache[x] = call[q].client
    BY <2>1 DEF OpenIsCached, CallsWellFormed
  <2> QED BY <2>1, <2>2, NoneIsFresh
<1>4. CASE FetchNew(r)
  <2>1. config[x] \in Revisions
    BY <1>1, <1>4 DEF FetchNew
  <2> QED BY <1>1, <1>3, <1>4, <2>1, ObtainInv DEF FetchNew
<1>5. CASE FetchFails(r)
  <2>1. /\ call' \in [Requests -> Call]
        /\ \A q \in Requests : q # r => call'[q] = call[q]
        /\ call'[r].stage = "failed" /\ call'[r].resource = x
        /\ call'[r].open = call[r].open
    BY <1>1, <1>5 DEF FetchFails, Call
  <2>2. CacheTypeOK'
    BY <1>1, <1>5, <2>1 DEF FetchFails
  <2>3. CallsWellFormed'
    BY <1>1, <2>1 DEF CallsWellFormed
  <2>4. MutexInv'
    BY <1>1, <1>5, <2>1 DEF MutexInv, FetchFails
  <2>5. OpenIsCached'
    BY <1>1, <1>3, <1>5, <2>1 DEF OpenIsCached, FetchFails, CallsWellFormed
  <2> QED BY <2>2, <2>3, <2>4, <2>5
<1> QED BY <1>2, <1>4, <1>5

(* Every step of a client call preserves the invariant, and moves the call *)
(* of its own request only, other calls losing at most their open client.  *)
LEMMA CacheStepInv ==
  ASSUME CacheInv, NEW r \in Requests, CacheStep(r)
  PROVE  CacheInv'
BY SyncReadInv, SyncApplyInv, FetchInv, CloseIdleInv DEF CacheStep, Advance

(* A step of the cache moves its own request; the others keep their call.   *)
LEMMA CacheStepFrame ==
  ASSUME CacheInv, NEW r \in Requests, CacheStep(r)
  PROVE  /\ call[r].stage \in {"sync", "apply", "fetch"}
         /\ \A q \in Requests : call'[q].resource = call[q].resource
         /\ \A q \in Requests : q # r => /\ call'[q].stage = call[q].stage
                                         /\ call'[q].client = call[q].client
<1> USE DEF CacheInv, CacheTypeOK, Configs
<1>1. CASE SyncRead(r)
  BY <1>1 DEF SyncRead, Lock, Call
<1>2. CASE SyncApply(r)
  <2>1. call[r].resource \in Resources
    BY <1>2 DEF SyncApply, Unlock, CallsWellFormed
  <2> DEFINE x    == call[r].resource
             left == IF MustRemove(x, call[r].read) THEN Closing(x) ELSE call
  <2>2. /\ left \in [Requests -> Call]
        /\ \A q \in Requests : /\ left[q].stage = call[q].stage
                               /\ left[q].resource = call[q].resource
                               /\ left[q].client = call[q].client
    BY <2>1, ClosingKeeps
  <2>3. PICK s \in {"failed", "fetch"} : call' = [left EXCEPT ![r].stage = s]
    BY <1>2 DEF SyncApply, Unlock
  <2>4. call[r].stage = "apply"
    BY <1>2 DEF SyncApply, Unlock
  <2> HIDE DEF left
  <2> QED BY <2>2, <2>3, <2>4 DEF Call
<1>3. CASE FetchCached(r) \/ FetchNew(r) \/ FetchFails(r)
  BY <1>3 DEF FetchCached, FetchNew, FetchFails, Obtain, Call
<1>4. CASE CloseIdle(r)
  <2>1. call[r].stage = "fetch" /\ call[r].resource \in Resources
    BY <1>4 DEF CloseIdle, CallsWellFormed
  <2> QED BY <1>4, <2>1, ClosingKeeps DEF CloseIdle
<1> QED BY <1>1, <1>2, <1>3, <1>4 DEF CacheStep, Advance

(* Beginning, asking and ending, for whoever composes the cache.           *)
LEMMA CallStepsInv ==
  ASSUME CacheInv, NEW r \in Requests,
         \/ \E x \in Resources, stage \in {"none", "sync"} :
              Open(r, x, stage) /\ call[r].stage # "apply"
         \/ Release(r) /\ call[r].stage # "apply"
         \/ StartCall(r) /\ call[r].stage = "none" /\ call[r].resource \in Resources
  PROVE  CacheInv'
<1> USE DEF CacheInv, CacheTypeOK, Configs
<1>1. CASE \E x \in Resources, stage \in {"none", "sync"} :
             Open(r, x, stage) /\ call[r].stage # "apply"
  <2>1. PICK x \in Resources, stage \in {"none", "sync"} :
          Open(r, x, stage) /\ call[r].stage # "apply"
    BY <1>1
  <2> DEFINE new == For(x, stage)
  <2>2. new \in Call /\ new.stage = stage /\ new.open = FALSE /\ new.resource = x
    BY DEF For, NoCall, Call
  <2>3. /\ call' \in [Requests -> Call] /\ call'[r] = new
        /\ \A q \in Requests : q # r => call'[q] = call[q]
    BY <2>1, <2>2 DEF Open
  <2>4. CacheTypeOK'
    BY <2>1, <2>3 DEF Open
  <2>5. CallsWellFormed' /\ MutexInv' /\ OpenIsCached'
    BY <2>1, <2>2, <2>3 DEF Open, CallsWellFormed, MutexInv, OpenIsCached
  <2> QED BY <2>4, <2>5
<1>2. CASE Release(r) /\ call[r].stage # "apply"
  BY <1>2, NoneIsFresh DEF Release, NoCall, Call, CallsWellFormed, MutexInv, OpenIsCached
<1>3. CASE StartCall(r) /\ call[r].stage = "none" /\ call[r].resource \in Resources
  <2>1. /\ call' \in [Requests -> Call]
        /\ \A q \in Requests : q # r => call'[q] = call[q]
        /\ call'[r].stage = "sync" /\ call'[r].resource = call[r].resource
        /\ call'[r].open = call[r].open
    <3>1. call[r] \in Call /\ call' = [call EXCEPT ![r] = [call[r] EXCEPT !.stage = "sync"]]
      BY <1>3 DEF StartCall
    <3>2. [call[r] EXCEPT !.stage = "sync"] \in Call
      BY <3>1 DEF Call
    <3> QED BY <3>1, <3>2 DEF Call
  <2> QED BY <1>3, <2>1 DEF StartCall, CallsWellFormed, MutexInv, OpenIsCached
<1> QED BY <1>1, <1>2, <1>3

(* Outside edits and restarts.                                             *)
LEMMA OutsideInv ==
  ASSUME CacheInv,
         LoseMemory \/ \E x \in Resources, rev \in Configs : EditConfig(x, rev)
  PROVE  CacheInv'
<1> USE DEF CacheInv, CacheTypeOK, Configs
<1>1. CASE LoseMemory
  BY <1>1, NoneIsFresh DEF LoseMemory, NoCall, Call, CallsWellFormed, MutexInv, OpenIsCached
<1>2. CASE \E x \in Resources, rev \in Configs : EditConfig(x, rev)
  BY <1>2 DEF EditConfig, CallsWellFormed, MutexInv, OpenIsCached
<1> QED BY <1>1, <1>2
=============================================================================
