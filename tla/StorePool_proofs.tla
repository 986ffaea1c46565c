--------------------------- MODULE StorePool_proofs ---------------------------
(***************************************************************************)
(* For every number of requests, resources, observers and transactions: no *)
(* circle of waiting goroutines, no client of a configuration that was not *)
(* in force since the request began, and the way a request gets a client,  *)
(* lock by lock, implements that of ClientUse.                             *)
(***************************************************************************)
EXTENDS StorePool, TLAPS

(* Where an actor is while it holds a lock.                                *)
RequestHolds(r, l) ==
  \/ l = "resourceMu" /\ call[r].stage \in {"read", "reading", "apply", "noted"}
  \/ l = Manager(r)   /\ call[r].stage \in {"resolve", "resolving", "dial"}
  \/ l = "conn"       /\ call[r].stage \in {"reading", "resolving"}

OtherHolds(w, l) ==
  \/ l = "storeMu" /\ job[w].at \in {"query", "rows", "report", "insert"}
  \/ l = "conn"    /\ job[w].at \in {"rows", "insert", "tx"}

OwnerInv ==
  /\ \A r \in Requests, l \in Locks : owner[l] = r => RequestHolds(r, l)
  /\ \A w \in Others, l \in Locks : owner[l] = w => OtherHolds(w, l)

(* A request that is on its way has a resource; a job that goes on has     *)
(* something left to do.                                                   *)
NamedInv == \A r \in Requests : call[r].stage # "none" => call[r].resource \in Resources
LeftInv  == \A w \in Others : job[w].at \in {"query", "begin", "tx"} => job[w].left > 0

PoolInv == TypeOK /\ OwnerInv /\ NamedInv /\ LeftInv

-----------------------------------------------------------------------------
LEMMA LocksDiffer ==
  /\ {"resourceMu", "storeMu", "conn"} \subseteq Locks /\ Kinds \subseteq Locks
  /\ \A k \in Kinds : k \notin {"resourceMu", "storeMu", "conn"}
  /\ \A x \in Resources : KindOf[x] \in Kinds
  /\ None \notin Requests /\ None \notin Others /\ None \notin Resources
  /\ \A w \in Others : w \notin Requests
BY PoolTyped DEF Locks, Mutexes, Actors

(* A request that moves keeps the locks of everyone else; it must still be *)
(* where it may hold what it holds.                                        *)
LEMMA RequestMoves ==
  ASSUME PoolInv, NEW r \in Requests, job' = job,
         \A q \in Requests \ {r} : /\ call'[q].stage = call[q].stage
                                   /\ call'[q].resource = call[q].resource,
         \A l \in Locks : owner'[l] \in {owner[l], None, r},
         \A l \in Locks : owner'[l] = r => RequestHolds(r, l)'
  PROVE  OwnerInv' /\ LeftInv'
<1>1. ASSUME NEW q \in Requests, NEW l \in Locks, owner'[l] = q
      PROVE  RequestHolds(q, l)'
  <2>1. CASE q = r
    BY <1>1, <2>1
  <2>2. CASE q # r
    <3>1. owner[l] = q
      BY <1>1, <2>2, LocksDiffer
    <3>2. RequestHolds(q, l)
      BY <3>1 DEF PoolInv, OwnerInv
    <3> QED BY <2>2, <3>2 DEF RequestHolds, Manager
  <2> QED BY <2>1, <2>2
<1>2. ASSUME NEW w \in Others, NEW l \in Locks, owner'[l] = w
      PROVE  OtherHolds(w, l)'
  <2>1. owner[l] = w
    BY <1>2, LocksDiffer
  <2>2. OtherHolds(w, l)
    BY <2>1 DEF PoolInv, OwnerInv
  <2> QED BY <2>2 DEF OtherHolds
<1> QED BY <1>1, <1>2 DEF OwnerInv, LeftInv, PoolInv

(* The same of an observer or a transaction.                               *)
LEMMA OtherMoves ==
  ASSUME PoolInv, NEW w \in Others, call' = call,
         \A v \in Others \ {w} : job'[v] = job[v],
         \A l \in Locks : owner'[l] \in {owner[l], None, w},
         \A l \in Locks : owner'[l] = w => OtherHolds(w, l)',
         job'[w].at \in {"query", "begin", "tx"} => job'[w].left > 0
  PROVE  OwnerInv' /\ LeftInv' /\ NamedInv'
<1>1. ASSUME NEW q \in Requests, NEW l \in Locks, owner'[l] = q
      PROVE  RequestHolds(q, l)'
  <2>1. owner[l] = q
    BY <1>1, LocksDiffer
  <2>2. RequestHolds(q, l)
    BY <2>1 DEF PoolInv, OwnerInv
  <2> QED BY <2>2 DEF RequestHolds, Manager
<1>2. ASSUME NEW v \in Others, NEW l \in Locks, owner'[l] = v
      PROVE  OtherHolds(v, l)'
  <2>1. CASE v = w
    BY <1>2, <2>1
  <2>2. CASE v # w
    <3>1. owner[l] = v
      BY <1>2, <2>2, LocksDiffer
    <3>2. OtherHolds(v, l)
      BY <3>1 DEF PoolInv, OwnerInv
    <3> QED BY <2>2, <3>2 DEF OtherHolds
  <2> QED BY <2>1, <2>2
<1>3. LeftInv'
  <2> SUFFICES ASSUME NEW v \in Others, job'[v].at \in {"query", "begin", "tx"}
               PROVE  job'[v].left > 0
    BY DEF LeftInv
  <2> QED BY DEF PoolInv, LeftInv
<1> QED BY <1>1, <1>2, <1>3 DEF OwnerInv, NamedInv, PoolInv

-----------------------------------------------------------------------------
Owners == [Locks -> Actors \cup {None}]

LEMMA TakeTyped ==
  ASSUME TypeOK, NEW l \in Locks, NEW w \in Actors, Take(l, w) PROVE owner' \in Owners
BY DEF TypeOK, Take, Owners

LEMMA DropTyped == ASSUME TypeOK, NEW S, Drop(S) PROVE owner' \in Owners
BY DEF TypeOK, Drop, Owners

LEMMA CallTyped ==
  ASSUME TypeOK, NEW r \in Requests, NEW c \in CallState,
         call' = [call EXCEPT ![r] = c]
  PROVE  call' \in [Requests -> CallState]
BY DEF TypeOK

LEMMA GotoTyped ==
  ASSUME TypeOK, NEW r \in Requests, NEW stage \in Stages, Goto(r, stage)
  PROVE  call' \in [Requests -> CallState]
<1>1. [call[r] EXCEPT !.stage = stage] \in CallState
  BY DEF TypeOK, CallState
<1>2. call' = [call EXCEPT ![r] = [call[r] EXCEPT !.stage = stage]]
  BY DEF Goto
<1> QED BY <1>1, <1>2, CallTyped

LEMMA HaveReadTyped ==
  ASSUME TypeOK, NEW r \in Requests, NEW rev \in Configs, HaveRead(r, rev)
  PROVE  call' \in [Requests -> CallState]
<1>1. [call[r] EXCEPT !.stage = "apply", !.read = rev] \in CallState
  <2>1. call[r] \in CallState /\ "apply" \in Stages
    BY DEF TypeOK, Stages
  <2> QED BY <2>1 DEF CallState
<1>2. call' = [call EXCEPT ![r] = [call[r] EXCEPT !.stage = "apply", !.read = rev]]
  BY DEF HaveRead
<1> QED BY <1>1, <1>2, CallTyped

(* Closing the client of a resource changes nothing else of its holders.   *)
LEMMA ClosedFields ==
  ASSUME TypeOK, NEW r \in Requests, NEW stage \in Stages, CloseClient(r, stage),
         NEW q \in Requests
  PROVE  /\ call'[q] \in CallState
         /\ call'[q].resource = call[q].resource
         /\ call'[q].stage = IF q = r THEN stage ELSE call[q].stage
         /\ call'[q].read = call[q].read /\ call'[q].client = call[q].client
         /\ call'[q].open = (call[q].open /\ call[q].resource # call[r].resource)
<1> DEFINE o == call[q].open /\ call[q].resource # call[r].resource
           s == IF q = r THEN stage ELSE call[q].stage
<1>1. call[q] \in CallState
  BY DEF TypeOK
<1>2. call'[q] = [call[q] EXCEPT !.open = o, !.stage = s]
  BY DEF CloseClient
<1>3. o \in BOOLEAN /\ s \in Stages
  BY <1>1 DEF CallState
<1> HIDE DEF o, s
<1>4. /\ call'[q] \in CallState /\ call'[q].resource = call[q].resource
      /\ call'[q].stage = s /\ call'[q].open = o
      /\ call'[q].read = call[q].read /\ call'[q].client = call[q].client
  BY <1>1, <1>2, <1>3 DEF CallState
<1> QED BY <1>4 DEF o, s

LEMMA ClosedTyped ==
  ASSUME TypeOK, NEW r \in Requests, NEW stage \in Stages, CloseClient(r, stage)
  PROVE  call' \in [Requests -> CallState] /\ cache' \in [Resources -> Configs]
<1>1. \A q \in Requests : call'[q] \in CallState
  BY ClosedFields
<1>2. call' = [q \in Requests |-> call'[q]]
  BY DEF CloseClient
<1>3. call' \in [Requests -> CallState]
  BY <1>1, <1>2
<1> QED BY <1>3 DEF CloseClient, TypeOK, Configs

(* The two steps that do it: Manager.Remove, and a Get that opens anew.    *)
Closes(r, stage) ==
  /\ cache' = [cache EXCEPT ![call[r].resource] = None]
  /\ \A q \in Requests :
       /\ call'[q].resource = call[q].resource
       /\ call'[q].stage = IF q = r THEN stage ELSE call[q].stage
       /\ call'[q].read = call[q].read /\ call'[q].client = call[q].client
       /\ call'[q].open = (call[q].open /\ call[q].resource # call[r].resource)

LEMMA RemoveCloses == ASSUME PoolInv, NEW r \in Requests, SyncRemove(r) PROVE Closes(r, "noted")
<1>1. "noted" \in Stages
  BY DEF Stages
<1>2. CloseClient(r, "noted") /\ TypeOK
  BY DEF PoolInv, SyncRemove
<1>3. \A q \in Requests :
        /\ call'[q].resource = call[q].resource
        /\ call'[q].stage = IF q = r THEN "noted" ELSE call[q].stage
        /\ call'[q].read = call[q].read /\ call'[q].client = call[q].client
        /\ call'[q].open = (call[q].open /\ call[q].resource # call[r].resource)
  BY <1>1, <1>2, ClosedFields
<1>4. cache' = [cache EXCEPT ![call[r].resource] = None]
  BY <1>2 DEF CloseClient
<1> QED BY <1>3, <1>4 DEF Closes

LEMMA MissCloses == ASSUME PoolInv, NEW r \in Requests, GetMiss(r) PROVE Closes(r, "resolve")
<1>1. "resolve" \in Stages
  BY DEF Stages
<1>2. CloseClient(r, "resolve") /\ TypeOK
  BY DEF PoolInv, GetMiss
<1>3. \A q \in Requests :
        /\ call'[q].resource = call[q].resource
        /\ call'[q].stage = IF q = r THEN "resolve" ELSE call[q].stage
        /\ call'[q].read = call[q].read /\ call'[q].client = call[q].client
        /\ call'[q].open = (call[q].open /\ call[q].resource # call[r].resource)
  BY <1>1, <1>2, ClosedFields
<1>4. cache' = [cache EXCEPT ![call[r].resource] = None]
  BY <1>2 DEF CloseClient
<1> QED BY <1>3, <1>4 DEF Closes

-----------------------------------------------------------------------------
(* What each step of a request does to its place and to the locks.         *)
LEMMA BeginInv == ASSUME PoolInv, NEW r \in Requests, Begin(r) PROVE PoolInv'
<1>1. TypeOK'
  <2>1. PICK x \in Resources : call' = [call EXCEPT ![r] = [call[r] EXCEPT !.resource = x]]
    BY DEF Begin
  <2>2. [call[r] EXCEPT !.resource = x] \in CallState
    BY DEF PoolInv, TypeOK, CallState
  <2>3. call' \in [Requests -> CallState]
    BY <2>1, <2>2, CallTyped DEF PoolInv
  <2>4. seen' \in [Requests -> SUBSET Configs]
    BY DEF PoolInv, TypeOK, Begin
  <2> QED BY <2>3, <2>4 DEF PoolInv, TypeOK, Begin
<1>2. job' = job
  BY DEF Begin, Goto
<1>3. \A q \in Requests \ {r} : /\ call'[q].stage = call[q].stage
                              /\ call'[q].resource = call[q].resource
  BY LocksDiffer DEF PoolInv, TypeOK, Begin
<1>4. \A l \in Locks : owner'[l] \in {owner[l], None, r}
  BY LocksDiffer DEF PoolInv, TypeOK, NamedInv, Begin, Manager
<1>5. \A l \in Locks : owner'[l] = r => RequestHolds(r, l)'
  BY LocksDiffer DEF PoolInv, TypeOK, OwnerInv, NamedInv, RequestHolds, Begin,
     Manager
<1>6. NamedInv'
  BY LocksDiffer DEF PoolInv, TypeOK, NamedInv, Begin
<1> QED BY <1>1, <1>2, <1>3, <1>4, <1>5, <1>6, RequestMoves DEF PoolInv

LEMMA AskInv == ASSUME PoolInv, NEW r \in Requests, Ask(r) PROVE PoolInv'
<1>1. TypeOK'
  <2>1. call' \in [Requests -> CallState]
    BY GotoTyped DEF Ask, PoolInv, Stages
  <2> QED BY <2>1 DEF Ask, PoolInv, TypeOK
<1>2. job' = job
  BY DEF Ask, Goto
<1>3. \A q \in Requests \ {r} : /\ call'[q].stage = call[q].stage
                              /\ call'[q].resource = call[q].resource
  BY LocksDiffer DEF PoolInv, TypeOK, Ask, Goto
<1>4. \A l \in Locks : owner'[l] \in {owner[l], None, r}
  BY LocksDiffer DEF PoolInv, TypeOK, NamedInv, Ask, Goto, Manager
<1>5. \A l \in Locks : owner'[l] = r => RequestHolds(r, l)'
  BY LocksDiffer DEF PoolInv, TypeOK, OwnerInv, NamedInv, RequestHolds, Ask,
     Goto, Manager
<1>6. NamedInv'
  <2>1. call[r].resource \in Resources
    BY DEF PoolInv, TypeOK, NamedInv, CallState, Ask
  <2>2. \A q \in Requests : call'[q].resource = call[q].resource
    BY DEF PoolInv, TypeOK, CallState, Ask, Goto
  <2> QED BY <1>3, <2>1, <2>2 DEF PoolInv, NamedInv
<1> QED BY <1>1, <1>2, <1>3, <1>4, <1>5, <1>6, RequestMoves DEF PoolInv

LEMMA SyncLockInv == ASSUME PoolInv, NEW r \in Requests, SyncLock(r) PROVE PoolInv'
<1>1. TypeOK'
  <2>1. owner' \in Owners
    BY LocksDiffer, TakeTyped DEF SyncLock, Actors, PoolInv
  <2>2. call' \in [Requests -> CallState]
    BY GotoTyped DEF SyncLock, PoolInv, Stages
  <2> QED BY <2>1, <2>2 DEF SyncLock, PoolInv, TypeOK, Owners
<1>2. job' = job
  BY DEF SyncLock, Goto
<1>3. \A q \in Requests \ {r} : /\ call'[q].stage = call[q].stage
                              /\ call'[q].resource = call[q].resource
  BY LocksDiffer DEF PoolInv, TypeOK, SyncLock, Take, Goto
<1>4. \A l \in Locks : owner'[l] \in {owner[l], None, r}
  BY LocksDiffer DEF PoolInv, TypeOK, NamedInv, SyncLock, Take, Goto, Manager
<1>5. \A l \in Locks : owner'[l] = r => RequestHolds(r, l)'
  BY LocksDiffer DEF PoolInv, TypeOK, OwnerInv, NamedInv, RequestHolds,
     SyncLock, Take, Goto, Manager
<1>6. NamedInv'
  BY LocksDiffer DEF PoolInv, TypeOK, NamedInv, SyncLock, Take, Goto
<1> QED BY <1>1, <1>2, <1>3, <1>4, <1>5, <1>6, RequestMoves DEF PoolInv

LEMMA SyncConnectInv == ASSUME PoolInv, NEW r \in Requests, SyncConnect(r) PROVE PoolInv'
<1>1. TypeOK'
  <2>1. owner' \in Owners
    BY LocksDiffer, TakeTyped DEF SyncConnect, Actors, PoolInv
  <2>2. call' \in [Requests -> CallState]
    BY GotoTyped DEF SyncConnect, PoolInv, Stages
  <2> QED BY <2>1, <2>2 DEF SyncConnect, PoolInv, TypeOK, Owners
<1>2. job' = job
  BY DEF SyncConnect, Goto
<1>3. \A q \in Requests \ {r} : /\ call'[q].stage = call[q].stage
                              /\ call'[q].resource = call[q].resource
  BY LocksDiffer DEF PoolInv, TypeOK, SyncConnect, Take, Goto
<1>4. \A l \in Locks : owner'[l] \in {owner[l], None, r}
  BY LocksDiffer DEF PoolInv, TypeOK, NamedInv, SyncConnect, Take, Goto,
     Manager
<1>5. \A l \in Locks : owner'[l] = r => RequestHolds(r, l)'
  BY LocksDiffer DEF PoolInv, TypeOK, OwnerInv, NamedInv, RequestHolds,
     SyncConnect, Take, Goto, Manager
<1>6. NamedInv'
  BY LocksDiffer DEF PoolInv, TypeOK, NamedInv, SyncConnect, Take, Goto
<1> QED BY <1>1, <1>2, <1>3, <1>4, <1>5, <1>6, RequestMoves DEF PoolInv

LEMMA SyncReadInv == ASSUME PoolInv, NEW r \in Requests, SyncRead(r) PROVE PoolInv'
<1>1. TypeOK'
  <2>1. owner' \in Owners
    BY DropTyped DEF SyncRead, PoolInv
  <2>2. PICK rev \in Configs : HaveRead(r, rev)
    BY DEF SyncRead, PoolInv, TypeOK, NotRead, NamedInv, Configs
  <2>3. call' \in [Requests -> CallState]
    BY <2>2, HaveReadTyped DEF PoolInv
  <2> QED BY <2>1, <2>3 DEF SyncRead, PoolInv, TypeOK, Owners, NamedInv, NotRead
<1>2. job' = job
  BY DEF SyncRead, Goto
<1>3. \A q \in Requests \ {r} : /\ call'[q].stage = call[q].stage
                              /\ call'[q].resource = call[q].resource
  BY LocksDiffer DEF PoolInv, TypeOK, SyncRead, Drop, HaveRead, NotRead
<1>4. \A l \in Locks : owner'[l] \in {owner[l], None, r}
  BY LocksDiffer DEF PoolInv, TypeOK, NamedInv, SyncRead, Drop, HaveRead,
     NotRead, Manager
<1>5. \A l \in Locks : owner'[l] = r => RequestHolds(r, l)'
  <2>1. call[r].stage = "reading" /\ call'[r].stage = "apply"
    BY DEF SyncRead, HaveRead, NotRead, PoolInv, TypeOK, CallState
  <2>2. \A l \in Locks : owner'[l] = r => l # "conn" /\ owner[l] = r
    BY LocksDiffer DEF SyncRead, Drop
  <2> QED BY <2>1, <2>2 DEF PoolInv, OwnerInv, RequestHolds
<1>6. NamedInv'
  <2>1. call[r].resource \in Resources
    BY DEF PoolInv, TypeOK, NamedInv, CallState, SyncRead
  <2>2. PICK rev : HaveRead(r, rev)
    BY DEF SyncRead, NotRead
  <2>3. call'[r].resource = call[r].resource
    BY <2>2 DEF PoolInv, TypeOK, CallState, HaveRead
  <2> QED BY <1>3, <2>1, <2>3 DEF PoolInv, NamedInv
<1> QED BY <1>1, <1>2, <1>3, <1>4, <1>5, <1>6, RequestMoves DEF PoolInv

LEMMA SyncTimeoutInv == ASSUME PoolInv, NEW r \in Requests, SyncTimeout(r) PROVE PoolInv'
<1>1. TypeOK'
  <2>1. call' \in [Requests -> CallState]
    BY HaveReadTyped DEF SyncTimeout, NotRead, PoolInv, Configs
  <2> QED BY <2>1 DEF SyncTimeout, PoolInv, TypeOK, NamedInv, NotRead
<1>2. job' = job
  BY DEF SyncTimeout, Goto
<1>3. \A q \in Requests \ {r} : /\ call'[q].stage = call[q].stage
                              /\ call'[q].resource = call[q].resource
  BY LocksDiffer DEF PoolInv, TypeOK, SyncTimeout, HaveRead, NotRead
<1>4. \A l \in Locks : owner'[l] \in {owner[l], None, r}
  BY LocksDiffer DEF PoolInv, TypeOK, NamedInv, SyncTimeout, HaveRead,
     NotRead, Manager
<1>5. \A l \in Locks : owner'[l] = r => RequestHolds(r, l)'
  BY LocksDiffer DEF PoolInv, TypeOK, OwnerInv, NamedInv, RequestHolds,
     SyncTimeout, HaveRead, NotRead, Manager
<1>6. NamedInv'
  BY LocksDiffer DEF PoolInv, TypeOK, NamedInv, SyncTimeout, HaveRead, NotRead
<1> QED BY <1>1, <1>2, <1>3, <1>4, <1>5, <1>6, RequestMoves DEF PoolInv

LEMMA SyncRemoveInv == ASSUME PoolInv, NEW r \in Requests, SyncRemove(r) PROVE PoolInv'
<1>1. TypeOK'
  <2>1. "noted" \in Stages
    BY DEF Stages
  <2>2. call' \in [Requests -> CallState] /\ cache' \in [Resources -> Configs]
    BY <2>1, ClosedTyped DEF SyncRemove, PoolInv
  <2> QED BY <2>2 DEF SyncRemove, PoolInv, TypeOK
<1>2. job' = job
  BY DEF SyncRemove
<1>3. \A q \in Requests : /\ call'[q].resource = call[q].resource
                          /\ call'[q].stage = IF q = r THEN "noted" ELSE call[q].stage
  BY RemoveCloses DEF Closes
<1>4. \A l \in Locks : owner'[l] \in {owner[l], None, r}
  BY LocksDiffer DEF PoolInv, TypeOK, NamedInv, SyncRemove, Manager
<1>5. \A l \in Locks : owner'[l] = r => RequestHolds(r, l)'
  <2>1. owner' = owner /\ call[r].stage = "apply"
    BY DEF SyncRemove
  <2> QED BY <1>3, <2>1, LocksDiffer DEF PoolInv, OwnerInv, RequestHolds, Manager
<1>6. NamedInv'
  <2>1. call[r].resource \in Resources
    BY DEF PoolInv, NamedInv, SyncRemove
  <2> QED BY <1>3, <2>1 DEF PoolInv, NamedInv
<1> QED BY <1>1, <1>2, <1>3, <1>4, <1>5, <1>6, RequestMoves DEF PoolInv

LEMMA SyncNoteInv == ASSUME PoolInv, NEW r \in Requests, SyncNote(r) PROVE PoolInv'
<1>1. TypeOK'
  <2>1. owner' \in Owners
    BY DropTyped DEF SyncNote, PoolInv
  <2>2. call' \in [Requests -> CallState]
    BY GotoTyped DEF SyncNote, PoolInv, Stages
  <2>3. call[r].read \in Configs
    BY DEF PoolInv, TypeOK, CallState
  <2> QED BY <2>1, <2>2, <2>3 DEF SyncNote, PoolInv, TypeOK, Owners
<1>2. job' = job
  BY DEF SyncNote, Goto
<1>3. \A q \in Requests \ {r} : /\ call'[q].stage = call[q].stage
                              /\ call'[q].resource = call[q].resource
  BY LocksDiffer DEF PoolInv, TypeOK, SyncNote, Settled, Drop, Goto
<1>4. \A l \in Locks : owner'[l] \in {owner[l], None, r}
  BY LocksDiffer DEF PoolInv, TypeOK, NamedInv, SyncNote, Settled, Drop, Goto,
     Manager
<1>5. \A l \in Locks : owner'[l] = r => RequestHolds(r, l)'
  BY LocksDiffer DEF PoolInv, TypeOK, OwnerInv, NamedInv, RequestHolds,
     SyncNote, Settled, Drop, Goto, Manager
<1>6. NamedInv'
  BY LocksDiffer DEF PoolInv, TypeOK, NamedInv, SyncNote, Settled, Drop, Goto
<1> QED BY <1>1, <1>2, <1>3, <1>4, <1>5, <1>6, RequestMoves DEF PoolInv

LEMMA GetCachedInv == ASSUME PoolInv, NEW r \in Requests, GetCached(r) PROVE PoolInv'
<1>1. TypeOK'
  <2>1. cache[call[r].resource] \in Configs
    BY DEF GetCached, PoolInv, NamedInv, TypeOK
  <2>2. [call[r] EXCEPT !.stage = "done", !.client = cache[call[r].resource],
                        !.open = TRUE] \in CallState
    <3>1. call[r] \in CallState /\ "done" \in Stages
      BY DEF PoolInv, TypeOK, Stages
    <3> QED BY <2>1, <3>1 DEF CallState
  <2>3. call' = [call EXCEPT ![r] = [call[r] EXCEPT !.stage = "done",
                   !.client = cache[call[r].resource], !.open = TRUE]]
    BY DEF GetCached
  <2>4. call' \in [Requests -> CallState]
    BY <2>2, <2>3, CallTyped DEF PoolInv
  <2> QED BY <2>4 DEF GetCached, PoolInv, TypeOK
<1>2. job' = job
  BY DEF GetCached, Goto
<1>3. \A q \in Requests \ {r} : /\ call'[q].stage = call[q].stage
                              /\ call'[q].resource = call[q].resource
  BY LocksDiffer DEF PoolInv, TypeOK, GetCached
<1>4. \A l \in Locks : owner'[l] \in {owner[l], None, r}
  BY LocksDiffer DEF PoolInv, TypeOK, NamedInv, GetCached, Manager
<1>5. \A l \in Locks : owner'[l] = r => RequestHolds(r, l)'
  BY LocksDiffer DEF PoolInv, TypeOK, OwnerInv, NamedInv, RequestHolds,
     GetCached, Manager
<1>6. NamedInv'
  BY LocksDiffer DEF PoolInv, TypeOK, NamedInv, GetCached
<1> QED BY <1>1, <1>2, <1>3, <1>4, <1>5, <1>6, RequestMoves DEF PoolInv

LEMMA GetMissInv == ASSUME PoolInv, NEW r \in Requests, GetMiss(r) PROVE PoolInv'
<1>1. TypeOK'
  <2>1. owner' \in Owners
    BY LocksDiffer, TakeTyped DEF GetMiss, Actors, PoolInv, NamedInv, Manager
  <2>2. "resolve" \in Stages
    BY DEF Stages
  <2>3. call' \in [Requests -> CallState] /\ cache' \in [Resources -> Configs]
    BY <2>2, ClosedTyped DEF GetMiss, PoolInv
  <2> QED BY <2>1, <2>3 DEF GetMiss, PoolInv, TypeOK, Owners
<1>2. job' = job
  BY DEF GetMiss
<1>3. \A q \in Requests : /\ call'[q].resource = call[q].resource
                          /\ call'[q].stage = IF q = r THEN "resolve" ELSE call[q].stage
  BY MissCloses DEF Closes
<1>4. \A l \in Locks : owner'[l] \in {owner[l], None, r}
  BY LocksDiffer DEF PoolInv, TypeOK, NamedInv, GetMiss, Take, Manager
<1>5. \A l \in Locks : owner'[l] = r => RequestHolds(r, l)'
  <2>1. call[r].stage = "fetch" /\ call[r].resource \in Resources
    BY DEF PoolInv, NamedInv, GetMiss
  <2>2. \A l \in Locks : owner'[l] = r => l = Manager(r) \/ owner[l] = r
    BY DEF PoolInv, TypeOK, GetMiss, Take
  <2> QED BY <1>3, <2>1, <2>2, LocksDiffer DEF PoolInv, OwnerInv, RequestHolds, Manager
<1>6. NamedInv'
  <2>1. call[r].resource \in Resources
    BY DEF PoolInv, NamedInv, GetMiss
  <2> QED BY <1>3, <2>1 DEF PoolInv, NamedInv
<1> QED BY <1>1, <1>2, <1>3, <1>4, <1>5, <1>6, RequestMoves DEF PoolInv

LEMMA ResolveConnectInv == ASSUME PoolInv, NEW r \in Requests, ResolveConnect(r) PROVE PoolInv'
<1>1. TypeOK'
  <2>1. owner' \in Owners
    BY LocksDiffer, TakeTyped DEF ResolveConnect, Actors, PoolInv
  <2>2. call' \in [Requests -> CallState]
    BY GotoTyped DEF ResolveConnect, PoolInv, Stages
  <2> QED BY <2>1, <2>2 DEF ResolveConnect, PoolInv, TypeOK, Owners
<1>2. job' = job
  BY DEF ResolveConnect, Goto
<1>3. \A q \in Requests \ {r} : /\ call'[q].stage = call[q].stage
                              /\ call'[q].resource = call[q].resource
  BY LocksDiffer DEF PoolInv, TypeOK, ResolveConnect, Take, Goto
<1>4. \A l \in Locks : owner'[l] \in {owner[l], None, r}
  BY LocksDiffer DEF PoolInv, TypeOK, NamedInv, ResolveConnect, Take, Goto,
     Manager
<1>5. \A l \in Locks : owner'[l] = r => RequestHolds(r, l)'
  BY LocksDiffer DEF PoolInv, TypeOK, OwnerInv, NamedInv, RequestHolds,
     ResolveConnect, Take, Goto, Manager
<1>6. NamedInv'
  BY LocksDiffer DEF PoolInv, TypeOK, NamedInv, ResolveConnect, Take, Goto
<1> QED BY <1>1, <1>2, <1>3, <1>4, <1>5, <1>6, RequestMoves DEF PoolInv

LEMMA ResolveInv == ASSUME PoolInv, NEW r \in Requests, Resolve(r) PROVE PoolInv'
<1>1. TypeOK'
  <2>1. owner' \in Owners
    BY DropTyped DEF Resolve, PoolInv
  <2>2. PICK rev \in Configs :
          call' = [call EXCEPT ![r].stage = "dial", ![r].client = rev]
    BY DEF Resolve, Reachable, PoolInv, NamedInv, TypeOK, Configs
  <2>3. [call[r] EXCEPT !.stage = "dial", !.client = rev] \in CallState
    <3>1. call[r] \in CallState /\ None \in Configs /\ "dial" \in Stages
      BY DEF PoolInv, TypeOK, Stages, Configs
    <3> QED BY <3>1 DEF CallState
  <2>4. call' = [call EXCEPT ![r] =
                   [call[r] EXCEPT !.stage = "dial", !.client = rev]]
    BY <2>2
  <2>5. call' \in [Requests -> CallState]
    BY <2>3, <2>4, CallTyped DEF PoolInv
  <2> QED BY <2>1, <2>5 DEF Resolve, PoolInv, TypeOK, Owners
<1>2. job' = job
  BY DEF Resolve, Goto
<1>3. \A q \in Requests \ {r} : /\ call'[q].stage = call[q].stage
                              /\ call'[q].resource = call[q].resource
  BY LocksDiffer DEF PoolInv, TypeOK, Resolve, Drop, Reachable
<1>4. \A l \in Locks : owner'[l] \in {owner[l], None, r}
  BY LocksDiffer DEF PoolInv, TypeOK, NamedInv, Resolve, Drop, Reachable,
     Manager
<1>5. \A l \in Locks : owner'[l] = r => RequestHolds(r, l)'
  BY LocksDiffer DEF PoolInv, TypeOK, OwnerInv, NamedInv, RequestHolds,
     Resolve, Drop, Reachable, Manager
<1>6. NamedInv'
  BY LocksDiffer DEF PoolInv, TypeOK, NamedInv, Resolve, Drop, Reachable
<1> QED BY <1>1, <1>2, <1>3, <1>4, <1>5, <1>6, RequestMoves DEF PoolInv

LEMMA DialledInv == ASSUME PoolInv, NEW r \in Requests, Dialled(r) PROVE PoolInv'
<1>1. TypeOK'
  <2>1. owner' \in Owners
    BY DropTyped DEF Dialled, PoolInv
  <2>2. call[r].client \in Configs
    BY DEF PoolInv, TypeOK, CallState
  <2>3. call' \in [Requests -> CallState]
    <3>1. CASE call[r].client = None
      BY <3>1, GotoTyped DEF Dialled, PoolInv, Stages
    <3>2. CASE call[r].client # None
      <4>1. [call[r] EXCEPT !.stage = "done", !.open = TRUE] \in CallState
        <5>1. call[r] \in CallState /\ "done" \in Stages
          BY DEF PoolInv, TypeOK, Stages
        <5> QED BY <5>1 DEF CallState
      <4>2. call' = [call EXCEPT ![r] = [call[r] EXCEPT !.stage = "done", !.open = TRUE]]
        BY <3>2 DEF Dialled
      <4> QED BY <4>1, <4>2, CallTyped DEF PoolInv
    <3> QED BY <3>1, <3>2
  <2> QED BY <2>1, <2>2, <2>3 DEF Dialled, PoolInv, TypeOK, Owners
<1>2. job' = job
  BY DEF Dialled, Goto
<1>3. \A q \in Requests \ {r} : /\ call'[q].stage = call[q].stage
                              /\ call'[q].resource = call[q].resource
  BY LocksDiffer DEF PoolInv, TypeOK, Dialled, Drop, Goto
<1>4. \A l \in Locks : owner'[l] \in {owner[l], None, r}
  BY LocksDiffer DEF PoolInv, TypeOK, NamedInv, Dialled, Drop, Goto, Manager
<1>5. \A l \in Locks : owner'[l] = r => RequestHolds(r, l)'
  BY LocksDiffer DEF PoolInv, TypeOK, OwnerInv, NamedInv, RequestHolds,
     Dialled, Drop, Goto, Manager
<1>6. NamedInv'
  <2>1. call[r].resource \in Resources
    BY DEF PoolInv, TypeOK, NamedInv, CallState, Dialled
  <2>2. call'[r].resource = call[r].resource
    <3>1. CASE call[r].client = None
      BY <3>1 DEF PoolInv, TypeOK, CallState, Dialled, Goto
    <3>2. CASE call[r].client # None
      BY <3>2 DEF PoolInv, TypeOK, CallState, Dialled
    <3> QED BY <3>1, <3>2
  <2> QED BY <1>3, <2>1, <2>2 DEF PoolInv, NamedInv
<1> QED BY <1>1, <1>2, <1>3, <1>4, <1>5, <1>6, RequestMoves DEF PoolInv

LEMMA FinishInv == ASSUME PoolInv, NEW r \in Requests, Finish(r) PROVE PoolInv'
<1>1. TypeOK'
  BY LocksDiffer DEF PoolInv, TypeOK, NamedInv, Finish, NoCall, CallState,
     Stages, Configs, Actors, Manager
<1>2. job' = job
  BY DEF Finish, Goto
<1>3. \A q \in Requests \ {r} : /\ call'[q].stage = call[q].stage
                              /\ call'[q].resource = call[q].resource
  BY LocksDiffer DEF PoolInv, TypeOK, Finish, NoCall
<1>4. \A l \in Locks : owner'[l] \in {owner[l], None, r}
  BY LocksDiffer DEF PoolInv, TypeOK, NamedInv, Finish, NoCall, Manager
<1>5. \A l \in Locks : owner'[l] = r => RequestHolds(r, l)'
  BY LocksDiffer DEF PoolInv, TypeOK, OwnerInv, NamedInv, RequestHolds,
     Finish, NoCall, Manager
<1>6. NamedInv'
  BY LocksDiffer DEF PoolInv, TypeOK, NamedInv, Finish, NoCall
<1> QED BY <1>1, <1>2, <1>3, <1>4, <1>5, <1>6, RequestMoves DEF PoolInv

-----------------------------------------------------------------------------
(* What each step of an observer or a transaction does.                    *)
LEMMA TickInv == ASSUME PoolInv, NEW w \in Others, Tick(w) PROVE PoolInv'
<1>1. TypeOK'
  BY LocksDiffer, PoolTyped DEF PoolInv, TypeOK, LeftInv, Tick, Move, On,
     KeepRequests, JobSteps, Actors
<1>2. call' = call /\ \A v \in Others \ {w} : job'[v] = job[v]
  BY LocksDiffer DEF PoolInv, TypeOK, Tick, Move, On, KeepRequests
<1>3. \A l \in Locks : owner'[l] \in {owner[l], None, w}
  BY LocksDiffer DEF PoolInv, TypeOK, Tick, Move, On, KeepRequests
<1>4. \A l \in Locks : owner'[l] = w => OtherHolds(w, l)'
  BY LocksDiffer DEF PoolInv, TypeOK, OwnerInv, OtherHolds, Tick, Move, On,
     KeepRequests
<1>5. job'[w].at \in {"query", "begin", "tx"} => job'[w].left > 0
  BY LocksDiffer, PoolTyped DEF PoolInv, TypeOK, LeftInv, Tick, Move, On,
     KeepRequests
<1> QED BY <1>1, <1>2, <1>3, <1>4, <1>5, OtherMoves DEF PoolInv

LEMMA ObserveLockInv == ASSUME PoolInv, NEW w \in Others, ObserveLock(w) PROVE PoolInv'
<1>1. TypeOK'
  BY LocksDiffer, PoolTyped DEF PoolInv, TypeOK, LeftInv, ObserveLock, Take,
     Move, On, KeepRequests, JobSteps, Actors
<1>2. call' = call /\ \A v \in Others \ {w} : job'[v] = job[v]
  BY LocksDiffer DEF PoolInv, TypeOK, ObserveLock, Take, Move, On,
     KeepRequests
<1>3. \A l \in Locks : owner'[l] \in {owner[l], None, w}
  BY LocksDiffer DEF PoolInv, TypeOK, ObserveLock, Take, Move, On,
     KeepRequests
<1>4. \A l \in Locks : owner'[l] = w => OtherHolds(w, l)'
  BY LocksDiffer DEF PoolInv, TypeOK, OwnerInv, OtherHolds, ObserveLock, Take,
     Move, On, KeepRequests
<1>5. job'[w].at \in {"query", "begin", "tx"} => job'[w].left > 0
  BY LocksDiffer, PoolTyped DEF PoolInv, TypeOK, LeftInv, ObserveLock, Take,
     Move, On, KeepRequests
<1> QED BY <1>1, <1>2, <1>3, <1>4, <1>5, OtherMoves DEF PoolInv

LEMMA QueryTableInv == ASSUME PoolInv, NEW w \in Others, QueryTable(w) PROVE PoolInv'
<1>1. TypeOK'
  BY LocksDiffer, PoolTyped DEF PoolInv, TypeOK, LeftInv, QueryTable, Take,
     Move, On, KeepRequests, JobSteps, Actors
<1>2. call' = call /\ \A v \in Others \ {w} : job'[v] = job[v]
  BY LocksDiffer DEF PoolInv, TypeOK, QueryTable, Take, Move, On, KeepRequests
<1>3. \A l \in Locks : owner'[l] \in {owner[l], None, w}
  BY LocksDiffer DEF PoolInv, TypeOK, QueryTable, Take, Move, On, KeepRequests
<1>4. \A l \in Locks : owner'[l] = w => OtherHolds(w, l)'
  BY LocksDiffer DEF PoolInv, TypeOK, OwnerInv, OtherHolds, QueryTable, Take,
     Move, On, KeepRequests
<1>5. job'[w].at \in {"query", "begin", "tx"} => job'[w].left > 0
  BY LocksDiffer, PoolTyped DEF PoolInv, TypeOK, LeftInv, QueryTable, Take,
     Move, On, KeepRequests
<1> QED BY <1>1, <1>2, <1>3, <1>4, <1>5, OtherMoves DEF PoolInv

LEMMA CloseRowsInv == ASSUME PoolInv, NEW w \in Others, CloseRows(w) PROVE PoolInv'
<1>1. TypeOK'
  BY LocksDiffer, PoolTyped DEF PoolInv, TypeOK, LeftInv, CloseRows, Drop,
     Move, On, KeepRequests, JobSteps, Actors
<1>2. call' = call /\ \A v \in Others \ {w} : job'[v] = job[v]
  BY LocksDiffer DEF PoolInv, TypeOK, CloseRows, Drop, Move, On, KeepRequests
<1>3. \A l \in Locks : owner'[l] \in {owner[l], None, w}
  BY LocksDiffer DEF PoolInv, TypeOK, CloseRows, Drop, Move, On, KeepRequests
<1>4. \A l \in Locks : owner'[l] = w => OtherHolds(w, l)'
  BY LocksDiffer DEF PoolInv, TypeOK, OwnerInv, OtherHolds, CloseRows, Drop,
     Move, On, KeepRequests
<1>5. job'[w].at \in {"query", "begin", "tx"} => job'[w].left > 0
  BY LocksDiffer, PoolTyped DEF PoolInv, TypeOK, LeftInv, CloseRows, Drop,
     Move, On, KeepRequests
<1> QED BY <1>1, <1>2, <1>3, <1>4, <1>5, OtherMoves DEF PoolInv

LEMMA ReportInv == ASSUME PoolInv, NEW w \in Others, Report(w) PROVE PoolInv'
<1>1. TypeOK'
  BY LocksDiffer, PoolTyped DEF PoolInv, TypeOK, LeftInv, Report, Take, Move,
     On, KeepRequests, JobSteps, Actors
<1>2. call' = call /\ \A v \in Others \ {w} : job'[v] = job[v]
  BY LocksDiffer DEF PoolInv, TypeOK, Report, Take, Move, On, KeepRequests
<1>3. \A l \in Locks : owner'[l] \in {owner[l], None, w}
  BY LocksDiffer DEF PoolInv, TypeOK, Report, Take, Move, On, KeepRequests
<1>4. \A l \in Locks : owner'[l] = w => OtherHolds(w, l)'
  BY LocksDiffer DEF PoolInv, TypeOK, OwnerInv, OtherHolds, Report, Take,
     Move, On, KeepRequests
<1>5. job'[w].at \in {"query", "begin", "tx"} => job'[w].left > 0
  BY LocksDiffer, PoolTyped DEF PoolInv, TypeOK, LeftInv, Report, Take, Move,
     On, KeepRequests
<1> QED BY <1>1, <1>2, <1>3, <1>4, <1>5, OtherMoves DEF PoolInv

LEMMA ReportedInv == ASSUME PoolInv, NEW w \in Others, Reported(w) PROVE PoolInv'
<1>1. TypeOK'
  BY LocksDiffer, PoolTyped DEF PoolInv, TypeOK, LeftInv, Reported, Drop,
     Move, On, KeepRequests, JobSteps, Actors
<1>2. call' = call /\ \A v \in Others \ {w} : job'[v] = job[v]
  BY LocksDiffer DEF PoolInv, TypeOK, Reported, Drop, Move, On, KeepRequests
<1>3. \A l \in Locks : owner'[l] \in {owner[l], None, w}
  BY LocksDiffer DEF PoolInv, TypeOK, Reported, Drop, Move, On, KeepRequests
<1>4. \A l \in Locks : owner'[l] = w => OtherHolds(w, l)'
  BY LocksDiffer DEF PoolInv, TypeOK, OwnerInv, OtherHolds, Reported, Drop,
     Move, On, KeepRequests
<1>5. job'[w].at \in {"query", "begin", "tx"} => job'[w].left > 0
  BY LocksDiffer, PoolTyped DEF PoolInv, TypeOK, LeftInv, Reported, Drop,
     Move, On, KeepRequests
<1> QED BY <1>1, <1>2, <1>3, <1>4, <1>5, OtherMoves DEF PoolInv

LEMMA ObservedInv == ASSUME PoolInv, NEW w \in Others, Observed(w) PROVE PoolInv'
<1>1. TypeOK'
  BY LocksDiffer, PoolTyped DEF PoolInv, TypeOK, LeftInv, Observed, Drop,
     Move, On, KeepRequests, JobSteps, Actors
<1>2. call' = call /\ \A v \in Others \ {w} : job'[v] = job[v]
  BY LocksDiffer DEF PoolInv, TypeOK, Observed, Drop, Move, On, KeepRequests
<1>3. \A l \in Locks : owner'[l] \in {owner[l], None, w}
  BY LocksDiffer DEF PoolInv, TypeOK, Observed, Drop, Move, On, KeepRequests
<1>4. \A l \in Locks : owner'[l] = w => OtherHolds(w, l)'
  BY LocksDiffer DEF PoolInv, TypeOK, OwnerInv, OtherHolds, Observed, Drop,
     Move, On, KeepRequests
<1>5. job'[w].at \in {"query", "begin", "tx"} => job'[w].left > 0
  BY LocksDiffer, PoolTyped DEF PoolInv, TypeOK, LeftInv, Observed, Drop,
     Move, On, KeepRequests
<1> QED BY <1>1, <1>2, <1>3, <1>4, <1>5, OtherMoves DEF PoolInv

LEMMA ObserveFailsInv == ASSUME PoolInv, NEW w \in Others, ObserveFails(w) PROVE PoolInv'
<1>1. TypeOK'
  BY LocksDiffer, PoolTyped DEF PoolInv, TypeOK, LeftInv, ObserveFails, Drop,
     Move, On, KeepRequests, JobSteps, Actors
<1>2. call' = call /\ \A v \in Others \ {w} : job'[v] = job[v]
  BY LocksDiffer DEF PoolInv, TypeOK, ObserveFails, Drop, Move, On,
     KeepRequests
<1>3. \A l \in Locks : owner'[l] \in {owner[l], None, w}
  BY LocksDiffer DEF PoolInv, TypeOK, ObserveFails, Drop, Move, On,
     KeepRequests
<1>4. \A l \in Locks : owner'[l] = w => OtherHolds(w, l)'
  BY LocksDiffer DEF PoolInv, TypeOK, OwnerInv, OtherHolds, ObserveFails,
     Drop, Move, On, KeepRequests
<1>5. job'[w].at \in {"query", "begin", "tx"} => job'[w].left > 0
  BY LocksDiffer, PoolTyped DEF PoolInv, TypeOK, LeftInv, ObserveFails, Drop,
     Move, On, KeepRequests
<1> QED BY <1>1, <1>2, <1>3, <1>4, <1>5, OtherMoves DEF PoolInv

LEMMA TxStartInv == ASSUME PoolInv, NEW w \in Others, TxStart(w) PROVE PoolInv'
<1>1. TypeOK'
  BY LocksDiffer, PoolTyped DEF PoolInv, TypeOK, LeftInv, TxStart, Move, On,
     KeepRequests, JobSteps, Actors
<1>2. call' = call /\ \A v \in Others \ {w} : job'[v] = job[v]
  BY LocksDiffer DEF PoolInv, TypeOK, TxStart, Move, On, KeepRequests
<1>3. \A l \in Locks : owner'[l] \in {owner[l], None, w}
  BY LocksDiffer DEF PoolInv, TypeOK, TxStart, Move, On, KeepRequests
<1>4. \A l \in Locks : owner'[l] = w => OtherHolds(w, l)'
  BY LocksDiffer DEF PoolInv, TypeOK, OwnerInv, OtherHolds, TxStart, Move, On,
     KeepRequests
<1>5. job'[w].at \in {"query", "begin", "tx"} => job'[w].left > 0
  BY LocksDiffer, PoolTyped DEF PoolInv, TypeOK, LeftInv, TxStart, Move, On,
     KeepRequests
<1> QED BY <1>1, <1>2, <1>3, <1>4, <1>5, OtherMoves DEF PoolInv

LEMMA TxBeginInv == ASSUME PoolInv, NEW w \in Others, TxBegin(w) PROVE PoolInv'
<1>1. TypeOK'
  BY LocksDiffer, PoolTyped DEF PoolInv, TypeOK, LeftInv, TxBegin, Take, Move,
     On, KeepRequests, JobSteps, Actors
<1>2. call' = call /\ \A v \in Others \ {w} : job'[v] = job[v]
  BY LocksDiffer DEF PoolInv, TypeOK, TxBegin, Take, Move, On, KeepRequests
<1>3. \A l \in Locks : owner'[l] \in {owner[l], None, w}
  BY LocksDiffer DEF PoolInv, TypeOK, TxBegin, Take, Move, On, KeepRequests
<1>4. \A l \in Locks : owner'[l] = w => OtherHolds(w, l)'
  BY LocksDiffer DEF PoolInv, TypeOK, OwnerInv, OtherHolds, TxBegin, Take,
     Move, On, KeepRequests
<1>5. job'[w].at \in {"query", "begin", "tx"} => job'[w].left > 0
  BY LocksDiffer, PoolTyped DEF PoolInv, TypeOK, LeftInv, TxBegin, Take, Move,
     On, KeepRequests
<1> QED BY <1>1, <1>2, <1>3, <1>4, <1>5, OtherMoves DEF PoolInv

LEMMA TxStatementInv == ASSUME PoolInv, NEW w \in Others, TxStatement(w) PROVE PoolInv'
<1>1. TypeOK'
  BY LocksDiffer, PoolTyped DEF PoolInv, TypeOK, LeftInv, TxStatement, Drop,
     Move, On, KeepRequests, JobSteps, Actors
<1>2. call' = call /\ \A v \in Others \ {w} : job'[v] = job[v]
  BY LocksDiffer DEF PoolInv, TypeOK, TxStatement, Drop, Move, On,
     KeepRequests
<1>3. \A l \in Locks : owner'[l] \in {owner[l], None, w}
  BY LocksDiffer DEF PoolInv, TypeOK, TxStatement, Drop, Move, On,
     KeepRequests
<1>4. \A l \in Locks : owner'[l] = w => OtherHolds(w, l)'
  BY LocksDiffer DEF PoolInv, TypeOK, OwnerInv, OtherHolds, TxStatement, Drop,
     Move, On, KeepRequests
<1>5. job'[w].at \in {"query", "begin", "tx"} => job'[w].left > 0
  BY LocksDiffer, PoolTyped DEF PoolInv, TypeOK, LeftInv, TxStatement, Drop,
     Move, On, KeepRequests
<1> QED BY <1>1, <1>2, <1>3, <1>4, <1>5, OtherMoves DEF PoolInv

LEMMA TxFailsInv == ASSUME PoolInv, NEW w \in Others, TxFails(w) PROVE PoolInv'
<1>1. TypeOK'
  BY LocksDiffer, PoolTyped DEF PoolInv, TypeOK, LeftInv, TxFails, Drop, Move,
     On, KeepRequests, JobSteps, Actors
<1>2. call' = call /\ \A v \in Others \ {w} : job'[v] = job[v]
  BY LocksDiffer DEF PoolInv, TypeOK, TxFails, Drop, Move, On, KeepRequests
<1>3. \A l \in Locks : owner'[l] \in {owner[l], None, w}
  BY LocksDiffer DEF PoolInv, TypeOK, TxFails, Drop, Move, On, KeepRequests
<1>4. \A l \in Locks : owner'[l] = w => OtherHolds(w, l)'
  BY LocksDiffer DEF PoolInv, TypeOK, OwnerInv, OtherHolds, TxFails, Drop,
     Move, On, KeepRequests
<1>5. job'[w].at \in {"query", "begin", "tx"} => job'[w].left > 0
  BY LocksDiffer, PoolTyped DEF PoolInv, TypeOK, LeftInv, TxFails, Drop, Move,
     On, KeepRequests
<1> QED BY <1>1, <1>2, <1>3, <1>4, <1>5, OtherMoves DEF PoolInv

-----------------------------------------------------------------------------
LEMMA EditInv == PoolInv /\ Edit => PoolInv'
BY DEF PoolInv, TypeOK, OwnerInv, NamedInv, LeftInv, Edit, RequestHolds, OtherHolds, Manager, Configs

LEMMA StutterInv == PoolInv /\ UNCHANGED vars => PoolInv'
BY DEF PoolInv, TypeOK, OwnerInv, NamedInv, LeftInv, vars, RequestHolds, OtherHolds, Manager

LEMMA InitInv == Init => PoolInv
<1> SUFFICES ASSUME Init PROVE PoolInv
  OBVIOUS
<1>1. TypeOK
  BY DEF Init, TypeOK, CallState, Stages, NoCall, NoJob, JobSteps, Configs
<1>2. OwnerInv
  BY LocksDiffer DEF Init, OwnerInv
<1>3. NamedInv /\ LeftInv
  BY DEF Init, NamedInv, LeftInv, NoCall, NoJob
<1> QED BY <1>1, <1>2, <1>3 DEF PoolInv

LEMMA StepInv == PoolInv /\ [Next]_vars => PoolInv'
<1> SUFFICES ASSUME PoolInv, [Next]_vars PROVE PoolInv'
  OBVIOUS
<1>1. ASSUME NEW r \in Requests, Begin(r) \/ Waits(r) \/ Works(r) \/ SyncTimeout(r)
      PROVE  PoolInv'
  BY <1>1, BeginInv, AskInv, SyncLockInv, SyncConnectInv, SyncReadInv, SyncTimeoutInv,
     SyncRemoveInv, SyncNoteInv, GetCachedInv, GetMissInv, ResolveConnectInv,
     ResolveInv, DialledInv, FinishInv DEF Waits, Works
<1>2. ASSUME NEW w \in Others,
             \/ Tick(w) \/ TxStart(w) \/ OtherWaits(w) \/ OtherWorks(w)
             \/ ObserveFails(w) \/ TxFails(w)
      PROVE  PoolInv'
  BY <1>2, TickInv, ObserveLockInv, QueryTableInv, CloseRowsInv, ReportInv, ReportedInv,
     ObservedInv, ObserveFailsInv, TxStartInv, TxBeginInv, TxStatementInv, TxFailsInv
     DEF OtherWaits, OtherWorks
<1> QED BY <1>1, <1>2, EditInv, StutterInv DEF Next

-----------------------------------------------------------------------------
LEMMA InvOrdersLocks == PoolInv => LockOrder
<1> SUFFICES ASSUME PoolInv, NEW w \in Actors, NEW l \in Locks,
                    owner[l] = w, Wanted(w) # None
             PROVE  Rank(l) < Rank(Wanted(w))
  BY DEF LockOrder
<1>1. CASE w \in Requests
  <2>1. RequestHolds(w, l)
    BY <1>1 DEF PoolInv, OwnerInv
  <2>2. CASE l = "resourceMu"
    <3>1. Rank(l) = 1
      BY <2>2, LocksDiffer DEF Rank, Mutexes
    <3>2. Wanted(w) = "conn" \/ Wanted(w) \in Kinds
      BY <1>1, <2>1, <2>2, LocksDiffer DEF Wanted, RequestHolds, PoolInv, NamedInv, Manager
    <3>3. Rank(Wanted(w)) \in {2, 3}
      BY <3>2, LocksDiffer DEF Rank, Mutexes
    <3> QED BY <3>1, <3>3
  <2>3. CASE l = Manager(w) /\ call[w].stage \in {"resolve", "resolving", "dial"}
    <3>1. l \in Kinds
      BY <1>1, <2>3, LocksDiffer DEF PoolInv, NamedInv, Manager
    <3>2. Rank(l) = 2
      BY <3>1, LocksDiffer DEF Rank, Mutexes
    <3>3. Wanted(w) = "conn"
      BY <1>1, <2>3 DEF Wanted
    <3>4. Rank(Wanted(w)) = 3
      BY <3>3, LocksDiffer DEF Rank, Mutexes
    <3> QED BY <3>2, <3>4
  <2>4. CASE l = "conn" /\ call[w].stage \in {"reading", "resolving"}
    BY <1>1, <2>4 DEF Wanted
  <2> QED BY <2>1, <2>2, <2>3, <2>4 DEF RequestHolds
<1>2. CASE w \in Others
  <2>1. OtherHolds(w, l) /\ w \notin Requests
    BY <1>2, LocksDiffer DEF PoolInv, OwnerInv
  <2>2. l = "storeMu" /\ Wanted(w) = "conn"
    BY <1>2, <2>1 DEF OtherHolds, Wanted
  <2>3. Rank(l) = 1 /\ Rank(Wanted(w)) = 3
    BY <2>2, LocksDiffer DEF Rank, Mutexes
  <2> QED BY <2>3
<1> QED BY <1>1, <1>2 DEF Actors

(* Nobody ever waits for a lock while holding one that comes after it:     *)
(* resourceMu and Store.mu, then a manager, then the only connection; so   *)
(* no circle of goroutines can wait for each other, however many there     *)
(* are, and a transaction never asks the pool for a second connection.     *)
THEOREM NoCircleOfWaits == Spec => [](TypeOK /\ LockOrder)
<1>1. PoolInv => TypeOK
  BY DEF PoolInv
<1> QED BY <1>1, InitInv, StepInv, InvOrdersLocks, PTL DEF Spec

(* Whoever is where a lock is needed holds it: two requests are never      *)
(* inside syncResource together, nor inside the Get of one manager.        *)
Syncing == {"read", "reading", "apply", "noted"}
Getting == {"resolve", "resolving", "dial"}

HeldInv == \A r \in Requests :
  /\ call[r].stage \in Syncing => owner["resourceMu"] = r
  /\ call[r].stage \in Getting => owner[Manager(r)] = r

-----------------------------------------------------------------------------
(* The age of a configuration.  A configuration that was left does not     *)
(* come back, and a resource that was removed is not created again.        *)
NoWayBack(age) ==
  /\ \A e \in Edits : age[e[1]] < age[e[2]]
  /\ \A e \in Edits : e[1] = None => \A rev \in Configs : age[None] <= age[rev]

Past == {"fetch"} \cup Getting

(* A configuration x had until now.                                        *)
Was(age, x, rev) == rev = config[x] \/ age[rev] < age[config[x]]

(* A client of x that is cached or will be; a configuration that somebody  *)
(* knows to be the oldest such a client may have.                          *)
IsOpen(x, rev) ==
  /\ rev # None
  /\ \/ cache[x] = rev
     \/ \E q \in Requests : call[q].resource = x /\ call[q].stage = "dial" /\ call[q].client = rev
IsFloor(x, rev) ==
  /\ rev # None
  /\ \/ revisions[x] = rev
     \/ \E q \in Requests : /\ call[q].resource = x /\ call[q].read = rev
                            /\ call[q].stage \in {"noted"} \cup Past
InUse(x) == \/ cache[x] # None
            \/ \E q \in Requests : call[q].resource = x /\ call[q].stage \in Past

SeenInv(age, r) ==
  /\ call[r].resource = None => call[r].read = None
  /\ call[r].resource \in Resources =>
       /\ config[call[r].resource] \in seen[r]
       /\ \A rev \in seen[r] : Was(age, call[r].resource, rev)
  /\ call[r].read # None => call[r].read \in seen[r]
  /\ call[r].stage \in Past => call[r].read # None
  /\ call[r].stage = "dial" /\ call[r].client # None => call[r].client \in seen[r]
  /\ call[r].stage = "done" /\ call[r].resource \notin unread => call[r].client \in seen[r]

OpenInv(age, x) ==
  /\ revisions[x] # None => Was(age, x, revisions[x])
  /\ \A rev \in Configs : IsOpen(x, rev) =>
       /\ Was(age, x, rev)
       /\ \A r \in Requests : call[r].resource = x =>
            rev \in seen[r] \/ \A old \in seen[r] : age[rev] < age[old]

FloorInv(age, x) ==
  x \notin unread =>
    /\ \A rev, floor \in Configs : IsOpen(x, rev) /\ IsFloor(x, floor) => age[floor] <= age[rev]
    /\ revisions[x] = None /\ InUse(x) =>
         /\ config[x] = None
         /\ \A q \in Requests : call[q].resource = x /\ call[q].stage = "apply" => call[q].read = None
    /\ \A q \in Requests :
         /\ call[q].resource = x /\ call[q].stage \in {"apply", "noted"}
         /\ call[q].read = None /\ InUse(x)
         => config[x] = None

FreshInv(age) == /\ \A r \in Requests : SeenInv(age, r)
                 /\ \A x \in Resources : OpenInv(age, x) /\ FloorInv(age, x)

-----------------------------------------------------------------------------
(* The locks HeldInv is about are taken from nobody but r, which must hold *)
(* those of the place it went to.                                          *)
Kept(w) == \A l \in Kinds \cup {"resourceMu"} :
             owner[l] = w \/ owner[l] = None \/ owner'[l] = owner[l]

LEMMA HeldByOthers ==
  ASSUME PoolInv, HeldInv, NEW r \in Actors, Kept(r),
         \A q \in Requests \ {r} : /\ call'[q].stage = call[q].stage
                                   /\ call'[q].resource = call[q].resource
  PROVE  \A q \in Requests \ {r} :
           /\ call'[q].stage \in Syncing => owner'["resourceMu"] = q
           /\ call'[q].stage \in Getting => owner'[Manager(q)'] = q
<1> SUFFICES ASSUME NEW q \in Requests \ {r}
             PROVE  /\ call'[q].stage \in Syncing => owner'["resourceMu"] = q
                    /\ call'[q].stage \in Getting => owner'[Manager(q)'] = q
  OBVIOUS
<1>1. q # None
  BY LocksDiffer
<1>2. call[q].stage \in Syncing => owner'["resourceMu"] = q
  BY <1>1 DEF HeldInv, Kept
<1>3. ASSUME call[q].stage \in Getting PROVE owner'[Manager(q)] = q
  <2>1. Manager(q) \in Kinds
    BY <1>3, LocksDiffer DEF PoolInv, NamedInv, Manager, Getting
  <2> QED BY <1>1, <1>3, <2>1 DEF HeldInv, Kept
<1>4. Manager(q)' = Manager(q)
  BY DEF Manager
<1> QED BY <1>2, <1>3, <1>4

(* A step of an observer or a transaction.                                 *)
LEMMA OtherHeld ==
  ASSUME PoolInv, HeldInv, NEW w \in Others,
         \/ Tick(w) \/ TxStart(w) \/ OtherWaits(w) \/ OtherWorks(w)
         \/ ObserveFails(w) \/ TxFails(w)
  PROVE  HeldInv'
<1>1. call' = call
  BY DEF Tick, TxStart, OtherWaits, OtherWorks, ObserveFails, TxFails, ObserveLock, QueryTable,
         Report, TxBegin, CloseRows, Reported, Observed, TxStatement, KeepRequests
<1>2. Kept(w)
  BY LocksDiffer DEF PoolInv, TypeOK, Kept, Tick, TxStart, OtherWaits, OtherWorks, ObserveFails, TxFails, ObserveLock,
         QueryTable, Report, TxBegin, CloseRows, Reported, Observed, TxStatement, Take, Drop
<1> QED BY <1>1, <1>2, HeldByOthers, LocksDiffer DEF HeldInv, Manager, Actors

(* A step of a request.                                                    *)
LEMMA RequestHeld ==
  ASSUME PoolInv, HeldInv, NEW r \in Requests,
         Begin(r) \/ Waits(r) \/ Works(r) \/ SyncTimeout(r)
  PROVE  HeldInv'
<1>1. \A q \in Requests \ {r} : /\ call'[q].stage = call[q].stage
                                /\ call'[q].resource = call[q].resource
  <2>1. CASE SyncRemove(r) \/ GetMiss(r)
    BY <2>1, RemoveCloses, MissCloses DEF Closes
  <2>2. CASE ~(SyncRemove(r) \/ GetMiss(r))
    BY <2>2 DEF PoolInv, TypeOK, Begin, Waits, Works, SyncTimeout, Ask, SyncLock, SyncConnect,
       SyncRead, SyncNote, GetCached, ResolveConnect, Resolve, Dialled, Finish,
       Goto, HaveRead, NotRead
  <2> QED BY <2>1, <2>2
<1>2. call[r].stage # "none" => Manager(r) \in Kinds
  BY LocksDiffer DEF PoolInv, NamedInv, Manager
<1> DEFINE Held == /\ Kept(r)
                   /\ call'[r].stage \in Syncing => owner'["resourceMu"] = r
                   /\ call'[r].stage \in Getting => owner'[Manager(r)'] = r
<1>3. Held
  <2>1. CASE Begin(r)
    BY <1>2, <2>1, LocksDiffer DEF PoolInv, TypeOK, NamedInv, HeldInv, Kept, CallState, Manager,
       Syncing, Getting, Begin
  <2>2. CASE Ask(r)
    BY <1>2, <2>2, LocksDiffer DEF PoolInv, TypeOK, NamedInv, HeldInv, Kept, CallState, Manager,
       Syncing, Getting, Ask, Goto
  <2>3. CASE SyncLock(r)
    BY <1>2, <2>3, LocksDiffer DEF PoolInv, TypeOK, NamedInv, HeldInv, Kept, CallState, Manager,
       Syncing, Getting, SyncLock, Take, Goto
  <2>4. CASE SyncConnect(r)
    BY <1>2, <2>4, LocksDiffer DEF PoolInv, TypeOK, NamedInv, HeldInv, Kept, CallState, Manager,
       Syncing, Getting, SyncConnect, Take, Goto
  <2>5. CASE SyncRead(r)
    BY <1>2, <2>5, LocksDiffer DEF PoolInv, TypeOK, NamedInv, HeldInv, Kept, CallState, Manager,
       Syncing, Getting, SyncRead, Drop, HaveRead, NotRead
  <2>6. CASE SyncTimeout(r)
    BY <1>2, <2>6, LocksDiffer DEF PoolInv, TypeOK, NamedInv, HeldInv, Kept, CallState, Manager,
       Syncing, Getting, SyncTimeout, HaveRead, NotRead
  <2>7. CASE SyncRemove(r)
    <3>1. owner' = owner /\ call[r].stage = "apply"
      BY <2>7 DEF SyncRemove
    <3>2. call'[r].stage = "noted"
      BY <2>7, RemoveCloses DEF Closes
    <3> QED BY <3>1, <3>2 DEF HeldInv, Kept, Syncing, Getting
  <2>8. CASE SyncNote(r)
    BY <1>2, <2>8, LocksDiffer DEF PoolInv, TypeOK, NamedInv, HeldInv, Kept, CallState, Manager,
       Syncing, Getting, SyncNote, Drop, Goto, Settled
  <2>9. CASE GetCached(r)
    BY <1>2, <2>9, LocksDiffer DEF PoolInv, TypeOK, NamedInv, HeldInv, Kept, CallState, Manager,
       Syncing, Getting, GetCached
  <2>10. CASE GetMiss(r)
    <3>1. /\ call[r].stage = "fetch" /\ call'[r].stage = "resolve"
          /\ call'[r].resource = call[r].resource
      BY <2>10, MissCloses DEF GetMiss, Closes
    <3>2. Take(Manager(r), r) /\ Manager(r)' = Manager(r) /\ Manager(r) \in Kinds
      BY <1>2, <2>10, <3>1 DEF GetMiss, Manager
    <3> QED BY <3>1, <3>2, LocksDiffer DEF PoolInv, TypeOK, HeldInv, Kept, Syncing, Getting, Take
  <2>11. CASE ResolveConnect(r)
    BY <1>2, <2>11, LocksDiffer DEF PoolInv, TypeOK, NamedInv, HeldInv, Kept, CallState, Manager,
       Syncing, Getting, ResolveConnect, Take, Goto
  <2>12. CASE Resolve(r)
    BY <1>2, <2>12, LocksDiffer DEF PoolInv, TypeOK, NamedInv, HeldInv, Kept, CallState, Manager,
       Syncing, Getting, Resolve, Drop
  <2>13. CASE Dialled(r)
    BY <1>2, <2>13, LocksDiffer DEF PoolInv, TypeOK, NamedInv, HeldInv, Kept, CallState, Manager,
       Syncing, Getting, Dialled, Drop, Goto
  <2>14. CASE Finish(r)
    BY <1>2, <2>14, LocksDiffer DEF PoolInv, TypeOK, NamedInv, HeldInv, Kept, CallState, Manager,
       Syncing, Getting, Finish, NoCall
  <2> QED BY <2>1, <2>2, <2>3, <2>4, <2>5, <2>6, <2>7, <2>8, <2>9, <2>10, <2>11, <2>12, <2>13, <2>14 DEF Waits, Works
<1> QED BY <1>1, <1>3, HeldByOthers DEF HeldInv, Actors

(* Nobody holds anything at first, and each step keeps HeldInv.             *)
LEMMA InitHeld == Init => HeldInv
BY DEF Init, HeldInv, NoCall, Syncing, Getting

LEMMA StepHeld == PoolInv /\ HeldInv /\ [Next]_vars => HeldInv'
<1> SUFFICES ASSUME PoolInv, HeldInv, [Next]_vars PROVE HeldInv'
  OBVIOUS
<1>1. CASE Edit \/ UNCHANGED vars
  BY <1>1 DEF Edit, vars, HeldInv, Manager
<1> QED BY <1>1, RequestHeld, OtherHeld DEF Next

-----------------------------------------------------------------------------
(* A request whose place, row and client are the same.                     *)
Stays(q) == /\ call'[q].stage = call[q].stage
            /\ call'[q].resource = call[q].resource
            /\ call'[q].read = call[q].read
            /\ call'[q].client = call[q].client

(* What a step that edits nothing needs not to do to keep the invariant:   *)
(* open a client, come to know a floor, use an unused resource, or read.   *)
Keeps(x) ==
  /\ revisions'[x] = revisions[x]
  /\ \A rev \in Configs : /\ IsOpen(x, rev)' => IsOpen(x, rev)
                          /\ IsFloor(x, rev)' => IsFloor(x, rev)
  /\ InUse(x)' => InUse(x)
  /\ \A q \in Requests : call'[q].resource = x /\ call'[q].stage \in {"apply", "noted"} =>
       call[q].resource = x /\ call[q].stage = call'[q].stage /\ call[q].read = call'[q].read

(* Whoever comes to be about x has seen its configuration only.            *)
Watches(x) == \A q \in Requests : call'[q].resource = x =>
  \/ call[q].resource = x /\ seen'[q] = seen[q]
  \/ seen'[q] = {config[x]}

LEMMA SeenStays ==
  ASSUME NEW age, NEW q \in Requests, SeenInv(age, q), Stays(q), config' = config,
         seen'[q] = seen[q], unread \subseteq unread'
  PROVE  SeenInv(age, q)'
BY DEF SeenInv, Stays, Was

(* The parts of the invariant, kept by a step that does none of these.     *)
LEMMA OpenKeeps ==
  ASSUME NEW age, NEW x \in Resources, OpenInv(age, x), config' = config, Watches(x),
         revisions'[x] # None => revisions'[x] = revisions[x] \/ Was(age, x, revisions'[x]),
         \A rev \in Configs : IsOpen(x, rev)' => IsOpen(x, rev)
  PROVE  OpenInv(age, x)'
<1>1. \A rev : Was(age, x, rev)' <=> Was(age, x, rev)
  BY DEF Was
<1>2. revisions'[x] # None => Was(age, x, revisions'[x])
  BY DEF OpenInv
<1>3. ASSUME NEW rev \in Configs, IsOpen(x, rev)'
      PROVE  /\ Was(age, x, rev)
             /\ \A q \in Requests : call'[q].resource = x =>
                  rev \in seen'[q] \/ \A old \in seen'[q] : age[rev] < age[old]
  <2>1. IsOpen(x, rev)
    BY <1>3
  <2>2. Was(age, x, rev) /\ \A q \in Requests : call[q].resource = x =>
                                rev \in seen[q] \/ \A old \in seen[q] : age[rev] < age[old]
    BY <2>1 DEF OpenInv
  <2> QED BY <2>2 DEF Watches, Was
<1> QED BY <1>1, <1>2, <1>3 DEF OpenInv

LEMMA FloorKeeps ==
  ASSUME NEW age, NEW x \in Resources, FloorInv(age, x), config' = config,
         unread \subseteq unread', Keeps(x)
  PROVE  FloorInv(age, x)'
BY DEF FloorInv, Keeps

Fresh(age) == PoolInv /\ HeldInv /\ FreshInv(age)

(* A step of r that keeps what the invariant is about.                     *)
LEMMA FreshKeeps ==
  ASSUME NEW age, FreshInv(age), NEW r \in Requests, config' = config,
         unread \subseteq unread',
         \A q \in Requests \ {r} : Stays(q) /\ seen'[q] = seen[q],
         SeenInv(age, r)',
         \A x \in Resources : Watches(x) /\ Keeps(x)
  PROVE  FreshInv(age)'
<1>1. \A q \in Requests : SeenInv(age, q)'
  BY SeenStays DEF FreshInv
<1>2. \A x \in Resources : OpenInv(age, x)'
  BY OpenKeeps DEF FreshInv, Keeps
<1>3. \A x \in Resources : FloorInv(age, x)'
  BY FloorKeeps DEF FreshInv
<1> QED BY <1>1, <1>2, <1>3 DEF FreshInv

(* What each step of a request does to what it and the others may hold.    *)
LEMMA BeginFresh ==
  ASSUME NEW age \in [Configs -> Nat], Fresh(age), NEW r \in Requests, Begin(r)
  PROVE  FreshInv(age)'
<1>1. \A q \in Requests \ {r} : Stays(q) /\ seen'[q] = seen[q]
  BY DEF Fresh, PoolInv, TypeOK, CallState, Stays, Begin
<1>2. config' = config /\ unread' = unread /\ revisions' = revisions
  BY DEF Begin
<1>3. SeenInv(age, r)'
  <2>1. SeenInv(age, r)
    BY DEF Fresh, FreshInv
  <2> QED BY <2>1, LocksDiffer DEF Fresh, PoolInv, TypeOK, NamedInv, CallState, SeenInv, Was, Past, Getting,
       Begin
<1>4. ASSUME NEW x \in Resources PROVE Watches(x) /\ Keeps(x)
  <2>1. Watches(x)
    BY <1>1, <1>2, LocksDiffer DEF Fresh, PoolInv, TypeOK, CallState, Watches, Begin
  <2>2. Keeps(x)
    BY <1>1, <1>2, LocksDiffer DEF Fresh, PoolInv, TypeOK, NamedInv, CallState, Stays, Keeps, IsOpen,
       IsFloor, InUse, Past, Getting, Begin
  <2> QED BY <2>1, <2>2
<1> QED BY <1>1, <1>2, <1>3, <1>4, FreshKeeps DEF Fresh

LEMMA AskFresh ==
  ASSUME NEW age \in [Configs -> Nat], Fresh(age), NEW r \in Requests, Ask(r)
  PROVE  FreshInv(age)'
<1>1. \A q \in Requests \ {r} : Stays(q) /\ seen'[q] = seen[q]
  BY DEF Fresh, PoolInv, TypeOK, CallState, Stays, Ask, Goto
<1>2. config' = config /\ unread' = unread /\ revisions' = revisions
  BY DEF Ask
<1>3. SeenInv(age, r)'
  <2>1. SeenInv(age, r)
    BY DEF Fresh, FreshInv
  <2> QED BY <2>1, LocksDiffer DEF Fresh, PoolInv, TypeOK, NamedInv, CallState, SeenInv, Was, Past, Getting,
       Ask, Goto
<1>4. ASSUME NEW x \in Resources PROVE Watches(x) /\ Keeps(x)
  <2>1. Watches(x)
    BY <1>1, <1>2, LocksDiffer DEF Fresh, PoolInv, TypeOK, CallState, Watches, Ask, Goto
  <2>2. Keeps(x)
    BY <1>1, <1>2, LocksDiffer DEF Fresh, PoolInv, TypeOK, NamedInv, CallState, Stays, Keeps, IsOpen,
       IsFloor, InUse, Past, Getting, Ask, Goto
  <2> QED BY <2>1, <2>2
<1> QED BY <1>1, <1>2, <1>3, <1>4, FreshKeeps DEF Fresh

LEMMA SyncLockFresh ==
  ASSUME NEW age \in [Configs -> Nat], Fresh(age), NEW r \in Requests, SyncLock(r)
  PROVE  FreshInv(age)'
<1>1. \A q \in Requests \ {r} : Stays(q) /\ seen'[q] = seen[q]
  BY DEF Fresh, PoolInv, TypeOK, CallState, Stays, SyncLock, Goto
<1>2. config' = config /\ unread' = unread /\ revisions' = revisions
  BY DEF SyncLock
<1>3. SeenInv(age, r)'
  <2>1. SeenInv(age, r)
    BY DEF Fresh, FreshInv
  <2> QED BY <2>1, LocksDiffer DEF Fresh, PoolInv, TypeOK, NamedInv, CallState, SeenInv, Was, Past, Getting,
       SyncLock, Goto
<1>4. ASSUME NEW x \in Resources PROVE Watches(x) /\ Keeps(x)
  <2>1. Watches(x)
    BY <1>1, <1>2, LocksDiffer DEF Fresh, PoolInv, TypeOK, CallState, Watches, SyncLock, Goto
  <2>2. Keeps(x)
    BY <1>1, <1>2, LocksDiffer DEF Fresh, PoolInv, TypeOK, NamedInv, CallState, Stays, Keeps, IsOpen,
       IsFloor, InUse, Past, Getting, SyncLock, Goto
  <2> QED BY <2>1, <2>2
<1> QED BY <1>1, <1>2, <1>3, <1>4, FreshKeeps DEF Fresh

LEMMA SyncConnectFresh ==
  ASSUME NEW age \in [Configs -> Nat], Fresh(age), NEW r \in Requests, SyncConnect(r)
  PROVE  FreshInv(age)'
<1>1. \A q \in Requests \ {r} : Stays(q) /\ seen'[q] = seen[q]
  BY DEF Fresh, PoolInv, TypeOK, CallState, Stays, SyncConnect, Goto
<1>2. config' = config /\ unread' = unread /\ revisions' = revisions
  BY DEF SyncConnect
<1>3. SeenInv(age, r)'
  <2>1. SeenInv(age, r)
    BY DEF Fresh, FreshInv
  <2> QED BY <2>1, LocksDiffer DEF Fresh, PoolInv, TypeOK, NamedInv, CallState, SeenInv, Was, Past, Getting,
       SyncConnect, Goto
<1>4. ASSUME NEW x \in Resources PROVE Watches(x) /\ Keeps(x)
  <2>1. Watches(x)
    BY <1>1, <1>2, LocksDiffer DEF Fresh, PoolInv, TypeOK, CallState, Watches, SyncConnect, Goto
  <2>2. Keeps(x)
    BY <1>1, <1>2, LocksDiffer DEF Fresh, PoolInv, TypeOK, NamedInv, CallState, Stays, Keeps, IsOpen,
       IsFloor, InUse, Past, Getting, SyncConnect, Goto
  <2> QED BY <2>1, <2>2
<1> QED BY <1>1, <1>2, <1>3, <1>4, FreshKeeps DEF Fresh

LEMMA GetCachedFresh ==
  ASSUME NEW age \in [Configs -> Nat], Fresh(age), NEW r \in Requests, GetCached(r)
  PROVE  FreshInv(age)'
<1>1. \A q \in Requests \ {r} : Stays(q) /\ seen'[q] = seen[q]
  BY DEF Fresh, PoolInv, TypeOK, CallState, Stays, GetCached
<1>2. config' = config /\ unread' = unread /\ revisions' = revisions
  BY DEF GetCached
<1>3. SeenInv(age, r)'
  <2> DEFINE x == call[r].resource
  <2>1. SeenInv(age, r) /\ x \in Resources /\ call[r].stage = "fetch" /\ cache[x] \in Configs \ {None}
    BY DEF Fresh, FreshInv, PoolInv, TypeOK, NamedInv, GetCached
  <2>2. call'[r] = [call[r] EXCEPT !.stage = "done", !.client = cache[x], !.open = TRUE]
    BY DEF GetCached, Fresh, PoolInv, TypeOK
  <2>3. call[r].read \in seen[r] /\ call[r].read # None /\ call[r].read \in Configs
    BY <2>1 DEF SeenInv, Past, Fresh, PoolInv, TypeOK, CallState
  <2>4. ASSUME x \notin unread PROVE cache[x] \in seen[r]
    <3>1. IsOpen(x, cache[x]) /\ IsFloor(x, call[r].read)
      BY <2>1, <2>3 DEF IsOpen, IsFloor, Past
    <3>2. age[call[r].read] <= age[cache[x]]
      BY <2>1, <2>3, <2>4, <3>1 DEF Fresh, FreshInv, FloorInv
    <3>3. cache[x] \in seen[r] \/ age[cache[x]] < age[call[r].read]
      BY <2>1, <2>3, <3>1 DEF Fresh, FreshInv, OpenInv
    <3>4. age[cache[x]] \in Nat /\ age[call[r].read] \in Nat
      BY <2>1, <2>3
    <3> QED BY <3>2, <3>3, <3>4
  <2>5. seen' = seen
    BY DEF GetCached
  <2> QED BY <1>2, <2>1, <2>2, <2>3, <2>4, <2>5
        DEF Fresh, PoolInv, TypeOK, CallState, SeenInv, Was, Past, Getting
<1>4. ASSUME NEW x \in Resources PROVE Watches(x) /\ Keeps(x)
  <2>1. Watches(x)
    BY <1>1, <1>2, LocksDiffer DEF Fresh, PoolInv, TypeOK, CallState, Watches, GetCached
  <2>2. /\ call'[r].resource = call[r].resource /\ call'[r].stage = "done"
        /\ cache' = cache
    BY DEF Fresh, PoolInv, TypeOK, CallState, GetCached
  <2>3. Keeps(x)
    BY <1>1, <1>2, <2>2 DEF Stays, Keeps, IsOpen, IsFloor, InUse, Past, Getting
  <2> QED BY <2>1, <2>3
<1> QED BY <1>1, <1>2, <1>3, <1>4, FreshKeeps DEF Fresh

LEMMA GetMissFresh ==
  ASSUME NEW age \in [Configs -> Nat], Fresh(age), NEW r \in Requests, GetMiss(r)
  PROVE  FreshInv(age)'
<1>1. UNCHANGED <<config, seen, revisions, unread>>
  BY DEF GetMiss
<1>2. /\ call[r].stage = "fetch" /\ call'[r].stage = "resolve"
      /\ call'[r].resource = call[r].resource /\ call'[r].read = call[r].read
      /\ call'[r].client = call[r].client
  <2>1. PoolInv /\ call[r].stage = "fetch"
    BY DEF Fresh, GetMiss
  <2> QED BY <2>1, MissCloses DEF Closes
<1>3. \A q \in Requests \ {r} : Stays(q) /\ seen'[q] = seen[q]
  BY <1>1, MissCloses DEF Fresh, Closes, Stays
<1>4. SeenInv(age, r)'
  <2>1. SeenInv(age, r)
    BY DEF Fresh, FreshInv
  <2> QED BY <1>1, <1>2, <2>1 DEF SeenInv, Was, Past, Getting
<1>5. ASSUME NEW x \in Resources PROVE Watches(x) /\ Keeps(x)
  <2>1. Watches(x)
    BY <1>1, <1>2, <1>3 DEF Stays, Watches
  <2>2. cache'[x] \in {cache[x], None}
    BY DEF Fresh, PoolInv, TypeOK, GetMiss, CloseClient
  <2>3. \A rev \in Configs : IsOpen(x, rev)' => IsOpen(x, rev)
    BY <1>2, <1>3, <2>2 DEF Stays, IsOpen
  <2>4. \A rev \in Configs : IsFloor(x, rev)' => IsFloor(x, rev)
    BY <1>1, <1>2, <1>3, <2>2 DEF Stays, IsFloor, Past, Getting
  <2>5. InUse(x)' => InUse(x)
    BY <1>2, <1>3, <2>2 DEF Stays, InUse, Past, Getting
  <2>6. Keeps(x)
    BY <1>1, <1>2, <1>3, <2>2, <2>3, <2>4, <2>5 DEF Stays, Keeps
  <2> QED BY <2>1, <2>6
<1> QED BY <1>1, <1>3, <1>4, <1>5, FreshKeeps DEF Fresh

LEMMA ResolveConnectFresh ==
  ASSUME NEW age \in [Configs -> Nat], Fresh(age), NEW r \in Requests, ResolveConnect(r)
  PROVE  FreshInv(age)'
<1>1. \A q \in Requests \ {r} : Stays(q) /\ seen'[q] = seen[q]
  BY DEF Fresh, PoolInv, TypeOK, CallState, Stays, ResolveConnect, Goto
<1>2. config' = config /\ unread' = unread /\ revisions' = revisions
  BY DEF ResolveConnect
<1>3. SeenInv(age, r)'
  <2>1. SeenInv(age, r)
    BY DEF Fresh, FreshInv
  <2> QED BY <2>1, LocksDiffer DEF Fresh, PoolInv, TypeOK, NamedInv, CallState, SeenInv, Was, Past, Getting,
       ResolveConnect, Goto
<1>4. ASSUME NEW x \in Resources PROVE Watches(x) /\ Keeps(x)
  <2>1. Watches(x)
    BY <1>1, <1>2, LocksDiffer DEF Fresh, PoolInv, TypeOK, CallState, Watches, ResolveConnect, Goto
  <2>2. Keeps(x)
    BY <1>1, <1>2, LocksDiffer DEF Fresh, PoolInv, TypeOK, NamedInv, CallState, Stays, Keeps, IsOpen,
       IsFloor, InUse, Past, Getting, ResolveConnect, Goto
  <2> QED BY <2>1, <2>2
<1> QED BY <1>1, <1>2, <1>3, <1>4, FreshKeeps DEF Fresh

LEMMA DialledFresh ==
  ASSUME NEW age \in [Configs -> Nat], Fresh(age), NEW r \in Requests, Dialled(r)
  PROVE  FreshInv(age)'
<1>1. \A q \in Requests \ {r} : Stays(q) /\ seen'[q] = seen[q]
  BY DEF Fresh, PoolInv, TypeOK, CallState, Stays, Dialled, Goto
<1>2. config' = config /\ unread' = unread /\ revisions' = revisions
  BY DEF Dialled
<1>3. SeenInv(age, r)'
  <2>1. SeenInv(age, r)
    BY DEF Fresh, FreshInv
  <2> QED BY <2>1, LocksDiffer DEF Fresh, PoolInv, TypeOK, NamedInv, CallState, SeenInv, Was, Past, Getting,
       Dialled, Goto
<1>4. ASSUME NEW x \in Resources PROVE Watches(x) /\ Keeps(x)
  <2>1. Watches(x)
    BY <1>1, <1>2, LocksDiffer DEF Fresh, PoolInv, TypeOK, CallState, Watches, Dialled, Goto
  <2>2. call'[r].resource = call[r].resource /\ call[r].stage = "dial"
        /\ call'[r].stage \in {"failed", "done"}
    BY DEF Fresh, PoolInv, TypeOK, CallState, Dialled, Goto
  <2>3. cache'[x] = cache[x] \/ (call[r].resource = x /\ cache'[x] = call[r].client)
    <3>1. cache' = cache \/ cache' = [cache EXCEPT ![call[r].resource] = call[r].client]
      BY DEF Dialled
    <3>2. cache \in [Resources -> Configs]
      BY DEF Fresh, PoolInv, TypeOK
    <3> QED BY <3>1, <3>2
  <2>4. \A rev \in Configs : IsOpen(x, rev)' => IsOpen(x, rev)
    BY <1>1, <2>2, <2>3 DEF Stays, IsOpen
  <2>5. \A rev \in Configs : IsFloor(x, rev)' => IsFloor(x, rev)
    BY <1>1, <1>2, <2>2 DEF Stays, IsFloor, Past, Getting
  <2>6. InUse(x)' => InUse(x)
    BY <1>1, <2>2, <2>3 DEF Stays, InUse, Past, Getting
  <2>7. Keeps(x)
    BY <1>1, <1>2, <2>2, <2>4, <2>5, <2>6 DEF Stays, Keeps
  <2> QED BY <2>1, <2>7
<1> QED BY <1>1, <1>2, <1>3, <1>4, FreshKeeps DEF Fresh

LEMMA FinishFresh ==
  ASSUME NEW age \in [Configs -> Nat], Fresh(age), NEW r \in Requests, Finish(r)
  PROVE  FreshInv(age)'
<1>1. \A q \in Requests \ {r} : Stays(q) /\ seen'[q] = seen[q]
  BY DEF Fresh, PoolInv, TypeOK, CallState, Stays, Finish, NoCall
<1>2. config' = config /\ unread' = unread /\ revisions' = revisions
  BY DEF Finish
<1>3. SeenInv(age, r)'
  <2>1. SeenInv(age, r)
    BY DEF Fresh, FreshInv
  <2> QED BY <2>1, LocksDiffer DEF Fresh, PoolInv, TypeOK, NamedInv, CallState, SeenInv, Was, Past, Getting,
       Finish, NoCall
<1>4. ASSUME NEW x \in Resources PROVE Watches(x) /\ Keeps(x)
  <2>1. Watches(x)
    BY <1>1, <1>2, LocksDiffer DEF Fresh, PoolInv, TypeOK, CallState, Watches, Finish, NoCall
  <2>2. Keeps(x)
    BY <1>1, <1>2, LocksDiffer DEF Fresh, PoolInv, TypeOK, NamedInv, CallState, Stays, Keeps, IsOpen,
       IsFloor, InUse, Past, Getting, Finish, NoCall
  <2> QED BY <2>1, <2>2
<1> QED BY <1>1, <1>2, <1>3, <1>4, FreshKeeps DEF Fresh

(* The row is read, or taken for missing.                                  *)
LEMMA HaveReadFresh ==
  ASSUME NEW age \in [Configs -> Nat], Fresh(age), NEW r \in Requests, NEW rev \in Configs,
         call[r].stage \in {"read", "reading"}, HaveRead(r, rev),
         UNCHANGED <<config, seen, revisions, cache>>,
         \/ rev = config[call[r].resource] /\ unread' = unread
         \/ rev = None /\ unread' = unread \cup {call[r].resource}
  PROVE  FreshInv(age)'
<1>1. \A q \in Requests \ {r} : Stays(q) /\ seen'[q] = seen[q]
  BY DEF Fresh, PoolInv, TypeOK, CallState, Stays, HaveRead
<1>2. /\ call'[r].stage = "apply" /\ call'[r].read = rev
      /\ call'[r].resource = call[r].resource /\ call'[r].resource \in Resources
  BY DEF Fresh, PoolInv, TypeOK, NamedInv, CallState, HaveRead
<1>3. \A q \in Requests : SeenInv(age, q)'
  <2>1. SeenInv(age, r)'
    <3>1. SeenInv(age, r)
      BY DEF Fresh, FreshInv
    <3> QED BY <1>2, <3>1, LocksDiffer DEF SeenInv, Was, Past, Getting
  <2> QED BY <1>1, <2>1, SeenStays DEF Fresh, FreshInv
<1>4. ASSUME NEW x \in Resources, NEW old \in Configs
      PROVE  (IsOpen(x, old)' => IsOpen(x, old)) /\ (IsFloor(x, old)' => IsFloor(x, old))
  BY <1>1, <1>2 DEF Stays, IsOpen, IsFloor, Past, Getting
<1>5. ASSUME NEW x \in Resources PROVE InUse(x)' => InUse(x)
  BY <1>1, <1>2 DEF Stays, InUse, Past, Getting
<1>6. ASSUME NEW x \in Resources PROVE OpenInv(age, x)'
  <2>1. Watches(x)
    BY <1>1, <1>2 DEF Stays, Watches
  <2> QED BY <1>4, <2>1, OpenKeeps DEF Fresh, FreshInv
<1>7. ASSUME NEW x \in Resources PROVE FloorInv(age, x)'
  <2>1. FloorInv(age, x)
    BY DEF Fresh, FreshInv
  <2>2. CASE x # call[r].resource
    <3>1. Keeps(x)
      BY <1>1, <1>2, <1>4, <1>5, <2>2 DEF Stays, Keeps
    <3> QED BY <2>1, <3>1, FloorKeeps
  <2>3. CASE x = call[r].resource /\ rev = config[x] /\ unread' = unread
    <3>1. \A q \in Requests : /\ call'[q].resource = x
                              /\ call'[q].stage \in {"apply", "noted"}
                              /\ q # r
            => /\ call[q].resource = x /\ call[q].stage = call'[q].stage
               /\ call[q].read = call'[q].read
      BY <1>1 DEF Stays
    <3> QED BY <1>2, <1>4, <1>5, <2>1, <2>3, <3>1 DEF FloorInv
  <2>4. CASE x = call[r].resource /\ x \in unread'
    BY <2>4 DEF FloorInv
  <2> QED BY <2>2, <2>3, <2>4
<1> QED BY <1>3, <1>6, <1>7 DEF FreshInv

(* The two ways to have read the row.                                      *)
LEMMA SyncReadFresh ==
  ASSUME NEW age \in [Configs -> Nat], Fresh(age), NEW r \in Requests, SyncRead(r)
  PROVE  FreshInv(age)'
<1>1. config[call[r].resource] \in Configs /\ None \in Configs
  BY DEF Fresh, PoolInv, TypeOK, NamedInv, SyncRead, Configs
<1> QED BY <1>1, HaveReadFresh DEF SyncRead, NotRead

LEMMA SyncTimeoutFresh ==
  ASSUME NEW age \in [Configs -> Nat], Fresh(age), NEW r \in Requests, SyncTimeout(r)
  PROVE  FreshInv(age)'
<1>1. None \in Configs
  BY DEF Configs
<1> QED BY <1>1, HaveReadFresh DEF SyncTimeout, NotRead

(* Nobody is inside the Get of the manager, so no client of x is about to  *)
(* be cached once the cached one is gone.                                  *)
LEMMA SyncRemoveFresh ==
  ASSUME NEW age \in [Configs -> Nat], Fresh(age), NEW r \in Requests, SyncRemove(r)
  PROVE  FreshInv(age)'
<1> DEFINE y == call[r].resource
<1>1. UNCHANGED <<config, seen, revisions, unread>> /\ cache' = [cache EXCEPT ![y] = None]
  BY DEF SyncRemove, CloseClient
<1>2. /\ call[r].stage = "apply" /\ y \in Resources
      /\ call'[r].stage = "noted" /\ call'[r].resource = y
      /\ call'[r].read = call[r].read /\ call'[r].client = call[r].client
  <2>1. PoolInv /\ call[r].stage = "apply" /\ y \in Resources
    BY DEF Fresh, PoolInv, NamedInv, SyncRemove
  <2> QED BY <2>1, RemoveCloses DEF Closes
<1>3. \A q \in Requests \ {r} : Stays(q)
  BY RemoveCloses DEF Fresh, Closes, Stays
<1>4. \A q \in Requests : call[q].resource = y => call[q].stage \notin Getting
  BY LocksDiffer DEF Fresh, HeldInv, SyncRemove, Manager
<1>5. \A q \in Requests : SeenInv(age, q)'
  <2>1. SeenInv(age, r)'
    <3>1. SeenInv(age, r)
      BY DEF Fresh, FreshInv
    <3> QED BY <1>1, <1>2, <3>1 DEF SeenInv, Was, Past, Getting
  <2> QED BY <1>1, <1>3, <2>1, SeenStays DEF Fresh, FreshInv
<1>6. ASSUME NEW x \in Resources PROVE InUse(x)' => InUse(x)
  BY <1>1, <1>2, <1>3 DEF Fresh, PoolInv, TypeOK, Stays, InUse, Past, Getting
<1>7. ASSUME NEW x \in Resources, NEW rev \in Configs
      PROVE  (IsOpen(x, rev)' => IsOpen(x, rev)) /\ (x # y => (IsFloor(x, rev)' => IsFloor(x, rev)))
  BY <1>1, <1>2, <1>3 DEF Fresh, PoolInv, TypeOK, Stays, IsOpen, IsFloor, Past, Getting
<1>8. ASSUME NEW rev \in Configs PROVE ~IsOpen(y, rev)'
  BY <1>1, <1>2, <1>3, <1>4 DEF Fresh, PoolInv, TypeOK, Stays, IsOpen, Getting
<1>9. ASSUME NEW x \in Resources PROVE OpenInv(age, x)'
  <2>1. Watches(x)
    BY <1>1, <1>2, <1>3 DEF Stays, Watches
  <2> QED BY <1>1, <1>7, <2>1, OpenKeeps DEF Fresh, FreshInv
<1>10. ASSUME NEW x \in Resources PROVE FloorInv(age, x)'
  <2>1. FloorInv(age, x)
    BY DEF Fresh, FreshInv
  <2>2. CASE x # y
    <3>1. Keeps(x)
      BY <1>1, <1>2, <1>3, <1>6, <1>7, <2>2 DEF Stays, Keeps
    <3> QED BY <1>1, <2>1, <3>1, FloorKeeps
  <2>3. CASE x = y
    BY <1>1, <1>2, <1>3, <1>6, <1>8, <2>1, <2>3 DEF Stays, FloorInv
  <2> QED BY <2>2, <2>3
<1> QED BY <1>5, <1>9, <1>10 DEF FreshInv

(* The revision is noted only if it is a floor already, or if no client of *)
(* the resource is in use.                                                 *)
LEMMA SyncNoteFresh ==
  ASSUME NEW age \in [Configs -> Nat], Fresh(age), NEW r \in Requests, SyncNote(r)
  PROVE  FreshInv(age)'
<1> DEFINE p == call[r].read
<1>0. PICK y \in Resources : call[r].resource = y
  BY DEF Fresh, PoolInv, NamedInv, SyncNote, Settled
<1>1. UNCHANGED <<config, seen, cache, unread>> /\ revisions' = [revisions EXCEPT ![y] = p]
  BY <1>0 DEF SyncNote
<1>2. /\ call[r].stage \in {"apply", "noted"} /\ call[r].resource = y /\ p \in Configs
      /\ call'[r].stage = IF p = None THEN "failed" ELSE "fetch"
      /\ call'[r].resource = y /\ call'[r].read = p /\ call'[r].client = call[r].client
  BY <1>0 DEF Fresh, PoolInv, TypeOK, CallState, SyncNote, Settled, Goto
<1>3. \A q \in Requests \ {r} : Stays(q)
  BY DEF Fresh, PoolInv, TypeOK, CallState, Stays, SyncNote, Goto
<1>4. \A q \in Requests \ {r} : call[q].stage \notin {"apply", "noted"}
  BY <1>2 DEF Fresh, HeldInv, Syncing
<1>5. /\ FloorInv(age, y) /\ OpenInv(age, y) /\ SeenInv(age, r)
  BY <1>2 DEF Fresh, FreshInv
<1>6. \A q \in Requests : SeenInv(age, q)'
  <2>1. SeenInv(age, r)'
    BY <1>1, <1>2, <1>5 DEF SeenInv, Was, Past, Getting
  <2> QED BY <1>1, <1>3, <2>1, SeenStays DEF Fresh, FreshInv
<1>7. ASSUME NEW x \in Resources, NEW rev \in Configs PROVE IsOpen(x, rev)' => IsOpen(x, rev)
  BY <1>1, <1>2, <1>3 DEF Stays, IsOpen
<1>8. ASSUME NEW x \in Resources PROVE OpenInv(age, x)'
  <2>1. Watches(x)
    BY <1>1, <1>2, <1>3 DEF Stays, Watches
  <2>2. p # None => Was(age, y, p)
    BY <1>2, <1>5 DEF SeenInv
  <2>3. revisions'[x] = revisions[x] \/ (x = y /\ revisions'[x] = p)
    BY <1>1 DEF Fresh, PoolInv, TypeOK
  <2> QED BY <1>1, <1>7, <2>1, <2>2, <2>3, OpenKeeps DEF Fresh, FreshInv
<1>9. ASSUME NEW x \in Resources, x # y PROVE FloorInv(age, x)'
  <2>1. Keeps(x)
    BY <1>1, <1>2, <1>3, <1>7, <1>9 DEF Fresh, PoolInv, TypeOK, Stays, Keeps, IsFloor, InUse
  <2> QED BY <1>1, <2>1, FloorKeeps DEF Fresh, FreshInv
<1>10. revisions'[y] = p
  BY <1>1, <1>2 DEF Fresh, PoolInv, TypeOK
<1>11. FloorInv(age, y)'
  <2>1. ASSUME NEW rev \in Configs, NEW floor \in Configs, IsOpen(y, rev)', IsFloor(y, floor)',
               y \notin unread
        PROVE  age[floor] <= age[rev]
    <3>1. IsOpen(y, rev)
      BY <1>2, <1>7, <2>1
    <3>2. CASE IsFloor(y, floor)
      BY <1>5, <2>1, <3>1, <3>2 DEF FloorInv
    <3>3. CASE ~IsFloor(y, floor)
      <4>1. floor = p /\ p # None /\ call[r].stage = "apply"
        BY <1>2, <1>3, <1>10, <2>1, <3>3 DEF Stays, IsFloor, Past, Getting
      <4>2. revisions[y] \in {None, p} /\ revisions[y] # p
        BY <1>2, <3>3, <4>1 DEF SyncNote, Settled, MustRemove, IsFloor
      <4>3. ~InUse(y)
        BY <1>2, <1>5, <2>1, <4>1, <4>2 DEF FloorInv
      <4> QED BY <3>1, <4>3 DEF IsOpen, InUse, Past, Getting
    <3> QED BY <3>2, <3>3
  <2>2. ASSUME p = None, InUse(y)', y \notin unread PROVE config[y] = None
    <3>1. InUse(y)
      BY <1>1, <1>2, <1>3, <2>2 DEF Stays, InUse, Past, Getting
    <3> QED BY <1>2, <1>5, <2>2, <3>1 DEF FloorInv
  <2>3. \A q \in Requests : call'[q].stage \notin {"apply", "noted"}
    BY <1>2, <1>3, <1>4 DEF Stays
  <2> QED BY <1>1, <1>10, <2>1, <2>2, <2>3 DEF FloorInv
<1> QED BY <1>6, <1>8, <1>9, <1>11 DEF FreshInv

(* The client that will be opened is of the newest configuration.          *)
LEMMA ResolveFresh ==
  ASSUME NEW age \in [Configs -> Nat], Fresh(age), NEW r \in Requests, Resolve(r)
  PROVE  FreshInv(age)'
<1> DEFINE y == call[r].resource
<1>1. UNCHANGED <<config, seen, revisions, cache, unread>>
  BY DEF Resolve
<1>2. /\ call[r].stage = "resolving" /\ y \in Resources
      /\ call'[r].stage = "dial" /\ call'[r].client \in {config[y], None}
      /\ call'[r].resource = y /\ call'[r].read = call[r].read
  BY DEF Fresh, PoolInv, TypeOK, NamedInv, CallState, Resolve, Reachable
<1>3. \A q \in Requests \ {r} : Stays(q)
  BY DEF Fresh, PoolInv, TypeOK, CallState, Stays, Resolve
<1>4. \A q \in Requests : SeenInv(age, q)'
  <2>1. SeenInv(age, r)
    BY DEF Fresh, FreshInv
  <2>2. SeenInv(age, r)'
    BY <1>1, <1>2, <2>1 DEF SeenInv, Was, Past, Getting
  <2> QED BY <1>1, <1>3, <2>2, SeenStays DEF Fresh, FreshInv
<1>5. ASSUME NEW x \in Resources, NEW rev \in Configs, IsOpen(x, rev)', ~IsOpen(x, rev)
      PROVE  x = y /\ rev = config[x]
  BY <1>1, <1>2, <1>3, <1>5 DEF Stays, IsOpen
<1>6. ASSUME NEW x \in Resources, NEW rev \in Configs PROVE IsFloor(x, rev)' => IsFloor(x, rev)
  BY <1>1, <1>2, <1>3 DEF Stays, IsFloor, Past, Getting
<1>7. ASSUME NEW x \in Resources PROVE InUse(x)' => InUse(x)
  BY <1>1, <1>2, <1>3 DEF Stays, InUse, Past, Getting
<1>8. ASSUME NEW x \in Resources PROVE OpenInv(age, x)'
  <2>1. OpenInv(age, x) /\ \A q \in Requests : SeenInv(age, q)
    BY DEF Fresh, FreshInv
  <2>2. ASSUME NEW rev \in Configs, IsOpen(x, rev)'
        PROVE  /\ Was(age, x, rev)
               /\ \A q \in Requests : call'[q].resource = x =>
                    rev \in seen[q] \/ \A old \in seen[q] : age[rev] < age[old]
    <3>1. \A q \in Requests : call'[q].resource = call[q].resource
      BY <1>2, <1>3 DEF Stays
    <3>2. CASE IsOpen(x, rev)
      BY <2>1, <3>1, <3>2 DEF OpenInv
    <3>3. CASE ~IsOpen(x, rev)
      <4>1. rev = config[x]
        BY <1>5, <2>2, <3>3
      <4> QED BY <2>1, <3>1, <4>1 DEF Was, SeenInv
    <3> QED BY <3>2, <3>3
  <2> QED BY <1>1, <2>1, <2>2 DEF OpenInv, Was
<1>9. ASSUME NEW x \in Resources PROVE FloorInv(age, x)'
  <2>1. FloorInv(age, x) /\ OpenInv(age, x) /\ \A q \in Requests : SeenInv(age, q)
    BY DEF Fresh, FreshInv
  <2>2. ASSUME NEW rev \in Configs, NEW floor \in Configs, IsOpen(x, rev)', IsFloor(x, floor)',
               x \notin unread
        PROVE  age[floor] <= age[rev]
    <3>1. IsFloor(x, floor)
      BY <1>6, <2>2
    <3>2. CASE IsOpen(x, rev)
      BY <2>1, <2>2, <3>1, <3>2 DEF FloorInv
    <3>3. CASE ~IsOpen(x, rev)
      <4>1. rev = config[x]
        BY <1>5, <2>2, <3>3
      <4>2. Was(age, x, floor)
        BY <2>1, <3>1 DEF IsFloor, OpenInv, SeenInv
      <4>3. age[floor] \in Nat /\ age[rev] \in Nat
        OBVIOUS
      <4> QED BY <4>1, <4>2, <4>3 DEF Was
    <3> QED BY <3>2, <3>3
  <2>3. \A q \in Requests : call'[q].resource = x /\ call'[q].stage \in {"apply", "noted"} =>
          /\ call[q].resource = x /\ call[q].stage = call'[q].stage
          /\ call[q].read = call'[q].read
    BY <1>2, <1>3 DEF Stays
  <2> QED BY <1>1, <1>7, <2>1, <2>2, <2>3 DEF FloorInv
<1> QED BY <1>4, <1>8, <1>9 DEF FreshInv

(* A new configuration is newer than whatever was seen or opened; a        *)
(* resource whose row is missing, and is created now, is in nobody's hands.*)
LEMMA EditFresh ==
  ASSUME NEW age \in [Configs -> Nat], NoWayBack(age), Fresh(age), Edit
  PROVE  FreshInv(age)'
<1>1. PICK y \in Resources, new \in Configs :
        /\ <<config[y], new>> \in Edits
        /\ config' = [config EXCEPT ![y] = new]
        /\ seen' = [r \in Requests |->
                     IF call[r].resource = y THEN seen[r] \cup {new} ELSE seen[r]]
  BY DEF Edit
<1>2. UNCHANGED <<revisions, cache, call, unread>>
  BY DEF Edit
<1>3. /\ age[config[y]] < age[new]
      /\ config[y] = None => \A rev \in Configs : age[None] <= age[rev]
  BY <1>1 DEF NoWayBack
<1>4. /\ config \in [Resources -> Configs] /\ seen \in [Requests -> SUBSET Configs]
      /\ \A rev \in Configs : age[rev] \in Nat
  BY DEF Fresh, PoolInv, TypeOK
<1>5. config'[y] = new /\ \A x \in Resources \ {y} : config'[x] = config[x]
  BY <1>1, <1>4
<1>6. ASSUME NEW x \in Resources, NEW rev \in Configs, Was(age, x, rev)
      PROVE  Was(age, x, rev)' /\ (x = y => age[rev] < age[new])
  BY <1>3, <1>4, <1>5, <1>6 DEF Was
<1>7. \A q \in Requests : /\ call[q].resource # y => seen'[q] = seen[q]
                          /\ call[q].resource = y => seen'[q] = seen[q] \cup {new}
  BY <1>1
<1>8. ASSUME NEW q \in Requests PROVE SeenInv(age, q)'
  <2>1. SeenInv(age, q)
    BY DEF Fresh, FreshInv
  <2>2. ASSUME call[q].resource \in Resources
        PROVE  /\ config'[call[q].resource] \in seen'[q]
               /\ \A rev \in seen'[q] : Was(age, call[q].resource, rev)'
    <3>1. CASE call[q].resource = y
      <4>1. \A rev \in seen[q] : Was(age, y, rev)
        BY <2>1, <3>1 DEF SeenInv
      <4>2. \A rev \in seen[q] : Was(age, y, rev)'
        BY <1>4, <1>6, <4>1
      <4> QED BY <1>2, <1>5, <1>7, <3>1, <4>2 DEF Was
    <3>2. CASE call[q].resource # y
      BY <1>2, <1>5, <1>7, <2>1, <2>2, <3>2 DEF SeenInv, Was
    <3> QED BY <3>1, <3>2
  <2>3. seen[q] \subseteq seen'[q]
    BY <1>7
  <2> QED BY <1>2, <2>1, <2>2, <2>3 DEF SeenInv, Was
<1>9. ASSUME NEW x \in Resources PROVE OpenInv(age, x)'
  <2>1. OpenInv(age, x)
    BY DEF Fresh, FreshInv
  <2>2. revisions[x] # None => Was(age, x, revisions[x])'
    BY <1>2, <1>6, <2>1 DEF OpenInv, Fresh, PoolInv, TypeOK
  <2>3. ASSUME NEW rev \in Configs, IsOpen(x, rev)'
        PROVE  /\ Was(age, x, rev)'
               /\ \A q \in Requests : call[q].resource = x =>
                    rev \in seen'[q] \/ \A old \in seen'[q] : age[rev] < age[old]
    <3>1. IsOpen(x, rev)
      BY <1>2, <2>3 DEF IsOpen
    <3>2. Was(age, x, rev)
      BY <2>1, <3>1 DEF OpenInv
    <3>3. \A q \in Requests : call[q].resource = x =>
            rev \in seen[q] \/ \A old \in seen[q] : age[rev] < age[old]
      BY <2>1, <3>1 DEF OpenInv
    <3> QED BY <1>6, <1>7, <3>2, <3>3
  <2> QED BY <1>2, <2>2, <2>3 DEF OpenInv
<1>10. ASSUME NEW x \in Resources PROVE FloorInv(age, x)'
  <2>1. FloorInv(age, x) /\ OpenInv(age, x) /\ \A q \in Requests : SeenInv(age, q)
    BY DEF Fresh, FreshInv
  <2>2. ASSUME InUse(y), x = y PROVE config[y] # None
    <3>1. SUFFICES ASSUME config[y] = None PROVE FALSE
      OBVIOUS
    <3>2. \A rev \in Configs : Was(age, y, rev) => rev = None
      BY <1>3, <1>4, <3>1 DEF Was
    <3>3. CASE cache[y] # None
      <4>1. cache[y] \in Configs /\ IsOpen(y, cache[y])
        BY <3>3 DEF IsOpen, Fresh, PoolInv, TypeOK
      <4> QED BY <2>1, <2>2, <3>2, <3>3, <4>1 DEF OpenInv
    <3>4. ASSUME NEW q \in Requests, call[q].resource = y, call[q].stage \in Past PROVE FALSE
      <4>1. call[q].read # None /\ call[q].read \in seen[q]
        BY <2>1, <3>4 DEF SeenInv
      <4>2. call[q].read \in Configs /\ Was(age, y, call[q].read)
        BY <1>4, <2>1, <3>4, <4>1 DEF SeenInv
      <4> QED BY <3>2, <4>1, <4>2
    <3> QED BY <2>2, <3>3, <3>4 DEF InUse
  <2>3. /\ \A rev : (IsOpen(x, rev)' <=> IsOpen(x, rev)) /\ (IsFloor(x, rev)' <=> IsFloor(x, rev))
        /\ InUse(x)' <=> InUse(x)
    BY <1>2 DEF IsOpen, IsFloor, InUse
  <2> QED BY <1>2, <1>5, <2>1, <2>2, <2>3 DEF FloorInv
<1> QED BY <1>8, <1>9, <1>10 DEF FreshInv

(* A step that leaves the requests and the clients alone.                  *)
LEMMA OutsideFresh ==
  ASSUME NEW age, FreshInv(age),
         UNCHANGED <<config, seen, revisions, cache, call, unread>>
  PROVE  FreshInv(age)'
BY DEF FreshInv, SeenInv, OpenInv, FloorInv, Was, IsOpen, IsFloor, InUse

(* The invariant at the start and after each step.                         *)
LEMMA InitFresh ==
  ASSUME NEW age \in [Configs -> Nat], Init PROVE FreshInv(age)
<1>1. \A r \in Requests : call[r] = NoCall
  BY DEF Init
<1>2. ASSUME NEW x \in Resources PROVE revisions[x] = None /\ ~InUse(x) /\ \A rev : ~IsOpen(x, rev)
  BY <1>1 DEF Init, NoCall, InUse, IsOpen, Past, Getting
<1>3. \A r \in Requests : SeenInv(age, r)
  BY <1>1, LocksDiffer DEF SeenInv, NoCall, Past, Getting
<1> QED BY <1>1, <1>2, <1>3 DEF FreshInv, OpenInv, FloorInv, NoCall

LEMMA StepFresh ==
  ASSUME NEW age \in [Configs -> Nat], NoWayBack(age), Fresh(age), [Next]_vars
  PROVE  FreshInv(age)'
<1>1. ASSUME NEW r \in Requests, Begin(r) \/ Waits(r) \/ Works(r) \/ SyncTimeout(r)
      PROVE  FreshInv(age)'
  BY <1>1, BeginFresh, AskFresh, SyncLockFresh, SyncConnectFresh, SyncReadFresh, SyncTimeoutFresh,
     SyncRemoveFresh, SyncNoteFresh, GetCachedFresh, GetMissFresh, ResolveConnectFresh,
     ResolveFresh, DialledFresh, FinishFresh DEF Waits, Works
<1>2. ASSUME NEW w \in Others,
             \/ Tick(w) \/ TxStart(w) \/ OtherWaits(w) \/ OtherWorks(w)
             \/ ObserveFails(w) \/ TxFails(w)
      PROVE  FreshInv(age)'
  <2>1. KeepRequests
    BY <1>2 DEF Tick, TxStart, OtherWaits, OtherWorks, ObserveFails, TxFails, ObserveLock, QueryTable,
       Report, TxBegin, CloseRows, Reported, Observed, TxStatement
  <2> QED BY <2>1, OutsideFresh DEF KeepRequests, Fresh
<1>3. CASE UNCHANGED vars
  BY <1>3, OutsideFresh DEF vars, Fresh
<1> QED BY <1>1, <1>2, <1>3, EditFresh DEF Next

(* Where the edits never go back to an earlier configuration, nor create a *)
(* removed resource again, a request is only given a client opened from a  *)
(* configuration that was in force since it began: however many requests,  *)
(* resources and configurations there are, and wherever the others run in  *)
(* between.  Without that hypothesis it is false: ClientCacheRevert.       *)
THEOREM FreshClientThm ==
  ASSUME NEW age \in [Configs -> Nat], NoWayBack(age)
  PROVE  Spec => []FreshClient
<1>1. FreshInv(age) => FreshClient
  BY DEF FreshInv, SeenInv, FreshClient
<1>2. Init => PoolInv /\ HeldInv /\ FreshInv(age)
  BY InitInv, InitHeld, InitFresh
<1>3. PoolInv /\ HeldInv /\ FreshInv(age) /\ [Next]_vars => PoolInv' /\ HeldInv' /\ FreshInv(age)'
  BY StepInv, StepHeld, StepFresh DEF Fresh
<1> QED BY <1>1, <1>2, <1>3, PTL DEF Spec

-----------------------------------------------------------------------------
(* What an early return of syncResource or of Get leaves no trace of: a    *)
(* request without a client yet has none; an entry of the map is only      *)
(* written by the holder of the manager's mutex; and an open client is in  *)
(* the map.                                                                *)
Asking == {"none", "sync", "read", "reading", "apply", "noted", "fetch", "resolve", "resolving"}

CleanInv == \A r \in Requests :
  /\ call[r].stage \in Asking => call[r].client = None
  /\ call[r].stage = "none" => call[r].read = None /\ call[r].open = FALSE

MissInv == \A r \in Requests :
  call[r].stage \in Getting => cache[call[r].resource] = None

OpenKept == \A r \in Requests :
  call[r].open => call[r].resource \in Resources /\ cache[call[r].resource] # None

UseInv == CleanInv /\ MissInv /\ OpenKept

Ready == PoolInv /\ HeldInv /\ UseInv

(* A request of which nothing at all changes.                              *)
Rests(q) == /\ Stays(q)
            /\ call'[q].open = call[q].open

(* Each step of a request keeps UseInv.                                    *)
LEMMA BeginReady == ASSUME Ready, NEW r \in Requests, Begin(r) PROVE UseInv'
<1>1. \A q \in Requests \ {r} : Rests(q)
  BY DEF Ready, PoolInv, TypeOK, CallState, Rests, Stays, Begin
<1>2. CleanInv'
  BY <1>1, LocksDiffer DEF Ready, PoolInv, TypeOK, NamedInv, CallState, UseInv, CleanInv, Rests, Stays, Asking, Begin
<1>3. MissInv'
  BY <1>1, LocksDiffer DEF Ready, PoolInv, TypeOK, NamedInv, HeldInv, CallState, UseInv, MissInv, Rests, Stays, Getting, Manager, Begin
<1>4. OpenKept'
  BY <1>1, LocksDiffer DEF Ready, PoolInv, TypeOK, NamedInv, HeldInv, CallState, UseInv, CleanInv, OpenKept, Rests, Stays,
     Getting, Manager, Begin
<1> QED BY <1>2, <1>3, <1>4 DEF UseInv

LEMMA AskReady == ASSUME Ready, NEW r \in Requests, Ask(r) PROVE UseInv'
<1>1. \A q \in Requests \ {r} : Rests(q)
  BY DEF Ready, PoolInv, TypeOK, CallState, Rests, Stays, Ask, Goto
<1>2. CleanInv'
  BY <1>1, LocksDiffer DEF Ready, PoolInv, TypeOK, NamedInv, CallState, UseInv, CleanInv, Rests, Stays, Asking, Ask, Goto
<1>3. MissInv'
  BY <1>1, LocksDiffer DEF Ready, PoolInv, TypeOK, NamedInv, HeldInv, CallState, UseInv, MissInv, Rests, Stays, Getting, Manager, Ask, Goto
<1>4. OpenKept'
  BY <1>1, LocksDiffer DEF Ready, PoolInv, TypeOK, NamedInv, HeldInv, CallState, UseInv, CleanInv, OpenKept, Rests, Stays,
     Getting, Manager, Ask, Goto
<1> QED BY <1>2, <1>3, <1>4 DEF UseInv

LEMMA SyncLockReady == ASSUME Ready, NEW r \in Requests, SyncLock(r) PROVE UseInv'
<1>1. \A q \in Requests \ {r} : Rests(q)
  BY DEF Ready, PoolInv, TypeOK, CallState, Rests, Stays, SyncLock, Goto
<1>2. CleanInv'
  BY <1>1, LocksDiffer DEF Ready, PoolInv, TypeOK, NamedInv, CallState, UseInv, CleanInv, Rests, Stays, Asking, SyncLock, Goto
<1>3. MissInv'
  BY <1>1, LocksDiffer DEF Ready, PoolInv, TypeOK, NamedInv, HeldInv, CallState, UseInv, MissInv, Rests, Stays, Getting, Manager, SyncLock, Goto
<1>4. OpenKept'
  BY <1>1, LocksDiffer DEF Ready, PoolInv, TypeOK, NamedInv, HeldInv, CallState, UseInv, CleanInv, OpenKept, Rests, Stays,
     Getting, Manager, SyncLock, Goto
<1> QED BY <1>2, <1>3, <1>4 DEF UseInv

LEMMA SyncConnectReady == ASSUME Ready, NEW r \in Requests, SyncConnect(r) PROVE UseInv'
<1>1. \A q \in Requests \ {r} : Rests(q)
  BY DEF Ready, PoolInv, TypeOK, CallState, Rests, Stays, SyncConnect, Goto
<1>2. CleanInv'
  BY <1>1, LocksDiffer DEF Ready, PoolInv, TypeOK, NamedInv, CallState, UseInv, CleanInv, Rests, Stays, Asking, SyncConnect, Goto
<1>3. MissInv'
  BY <1>1, LocksDiffer DEF Ready, PoolInv, TypeOK, NamedInv, HeldInv, CallState, UseInv, MissInv, Rests, Stays, Getting, Manager, SyncConnect, Goto
<1>4. OpenKept'
  BY <1>1, LocksDiffer DEF Ready, PoolInv, TypeOK, NamedInv, HeldInv, CallState, UseInv, CleanInv, OpenKept, Rests, Stays,
     Getting, Manager, SyncConnect, Goto
<1> QED BY <1>2, <1>3, <1>4 DEF UseInv

LEMMA SyncReadReady == ASSUME Ready, NEW r \in Requests, SyncRead(r) PROVE UseInv'
<1>1. \A q \in Requests \ {r} : Rests(q)
  BY DEF Ready, PoolInv, TypeOK, CallState, Rests, Stays, SyncRead, HaveRead, NotRead
<1>2. CleanInv'
  BY <1>1, LocksDiffer DEF Ready, PoolInv, TypeOK, NamedInv, CallState, UseInv, CleanInv, Rests, Stays, Asking, SyncRead, HaveRead, NotRead
<1>3. MissInv'
  BY <1>1, LocksDiffer DEF Ready, PoolInv, TypeOK, NamedInv, HeldInv, CallState, UseInv, MissInv, Rests, Stays, Getting, Manager, SyncRead, HaveRead, NotRead
<1>4. OpenKept'
  <2>1. /\ call'[r].stage = "apply" /\ call'[r].resource = call[r].resource
        /\ call'[r].open = call[r].open /\ cache' = cache
    BY DEF Ready, PoolInv, TypeOK, CallState, SyncRead, HaveRead, NotRead
  <2> QED BY <1>1, <2>1 DEF Ready, UseInv, OpenKept, Rests, Stays
<1> QED BY <1>2, <1>3, <1>4 DEF UseInv

LEMMA SyncTimeoutReady == ASSUME Ready, NEW r \in Requests, SyncTimeout(r) PROVE UseInv'
<1>1. \A q \in Requests \ {r} : Rests(q)
  BY DEF Ready, PoolInv, TypeOK, CallState, Rests, Stays, SyncTimeout, HaveRead, NotRead
<1>2. CleanInv'
  BY <1>1, LocksDiffer DEF Ready, PoolInv, TypeOK, NamedInv, CallState, UseInv, CleanInv, Rests, Stays, Asking, SyncTimeout, HaveRead, NotRead
<1>3. MissInv'
  BY <1>1, LocksDiffer DEF Ready, PoolInv, TypeOK, NamedInv, HeldInv, CallState, UseInv, MissInv, Rests, Stays, Getting, Manager, SyncTimeout, HaveRead, NotRead
<1>4. OpenKept'
  BY <1>1, LocksDiffer DEF Ready, PoolInv, TypeOK, NamedInv, HeldInv, CallState, UseInv, CleanInv, OpenKept, Rests, Stays,
     Getting, Manager, SyncTimeout, HaveRead, NotRead
<1> QED BY <1>2, <1>3, <1>4 DEF UseInv

LEMMA SyncNoteReady == ASSUME Ready, NEW r \in Requests, SyncNote(r) PROVE UseInv'
<1>1. \A q \in Requests \ {r} : Rests(q)
  BY DEF Ready, PoolInv, TypeOK, CallState, Rests, Stays, SyncNote, Goto, Settled
<1>2. CleanInv'
  BY <1>1, LocksDiffer DEF Ready, PoolInv, TypeOK, NamedInv, CallState, UseInv, CleanInv, Rests, Stays, Asking, SyncNote, Goto, Settled
<1>3. MissInv'
  BY <1>1, LocksDiffer DEF Ready, PoolInv, TypeOK, NamedInv, HeldInv, CallState, UseInv, MissInv, Rests, Stays, Getting, Manager, SyncNote, Goto, Settled
<1>4. OpenKept'
  BY <1>1, LocksDiffer DEF Ready, PoolInv, TypeOK, NamedInv, HeldInv, CallState, UseInv, CleanInv, OpenKept, Rests, Stays,
     Getting, Manager, SyncNote, Goto, Settled
<1> QED BY <1>2, <1>3, <1>4 DEF UseInv

LEMMA GetCachedReady == ASSUME Ready, NEW r \in Requests, GetCached(r) PROVE UseInv'
<1>1. \A q \in Requests \ {r} : Rests(q)
  BY DEF Ready, PoolInv, TypeOK, CallState, Rests, Stays, GetCached
<1>2. /\ call'[r].stage = "done" /\ call'[r].resource = call[r].resource /\ cache' = cache
      /\ cache[call[r].resource] # None /\ call[r].resource \in Resources
  BY DEF Ready, PoolInv, TypeOK, NamedInv, CallState, GetCached
<1>3. CleanInv'
  BY <1>1, <1>2 DEF Ready, UseInv, CleanInv, Rests, Stays, Asking
<1>4. MissInv'
  BY <1>1, <1>2 DEF Ready, UseInv, MissInv, Rests, Stays, Getting
<1>5. OpenKept'
  BY <1>1, <1>2 DEF Ready, UseInv, OpenKept, Rests, Stays
<1> QED BY <1>3, <1>4, <1>5 DEF UseInv

(* The client of the resource is closed in all hands, and forgotten.       *)
LEMMA ClosesReady ==
  ASSUME Ready, NEW r \in Requests, NEW stage \in {"noted", "resolve"},
         call[r].stage \in {"apply", "fetch"}, Closes(r, stage)
  PROVE  UseInv'
<1>1. call[r].resource \in Resources /\ cache \in [Resources -> Configs]
  BY DEF Ready, PoolInv, TypeOK, NamedInv
<1>2. CleanInv'
  <2>1. \A q \in Requests : /\ call'[q].stage = "none" => call[q].stage = "none"
                            /\ call'[q].stage \in Asking => call[q].stage \in Asking
                            /\ call[q].open = FALSE => call'[q].open = FALSE
    BY DEF Closes, Asking
  <2> QED BY <2>1 DEF Ready, UseInv, CleanInv, Closes
<1>3. MissInv'
  BY <1>1 DEF Ready, PoolInv, NamedInv, UseInv, MissInv, Getting, Closes
<1>4. OpenKept'
  BY <1>1 DEF Ready, UseInv, OpenKept, Closes
<1> QED BY <1>2, <1>3, <1>4 DEF UseInv

LEMMA GetMissReady == ASSUME Ready, NEW r \in Requests, GetMiss(r) PROVE UseInv'
BY MissCloses, ClosesReady DEF Ready, GetMiss

LEMMA ResolveConnectReady == ASSUME Ready, NEW r \in Requests, ResolveConnect(r) PROVE UseInv'
<1>1. \A q \in Requests \ {r} : Rests(q)
  BY DEF Ready, PoolInv, TypeOK, CallState, Rests, Stays, ResolveConnect, Goto
<1>2. CleanInv'
  BY <1>1, LocksDiffer DEF Ready, PoolInv, TypeOK, NamedInv, CallState, UseInv, CleanInv, Rests, Stays, Asking, ResolveConnect, Goto
<1>3. MissInv'
  BY <1>1, LocksDiffer DEF Ready, PoolInv, TypeOK, NamedInv, HeldInv, CallState, UseInv, MissInv, Rests, Stays, Getting, Manager, ResolveConnect, Goto
<1>4. OpenKept'
  BY <1>1, LocksDiffer DEF Ready, PoolInv, TypeOK, NamedInv, HeldInv, CallState, UseInv, CleanInv, OpenKept, Rests, Stays,
     Getting, Manager, ResolveConnect, Goto
<1> QED BY <1>2, <1>3, <1>4 DEF UseInv

LEMMA ResolveReady == ASSUME Ready, NEW r \in Requests, Resolve(r) PROVE UseInv'
<1>1. \A q \in Requests \ {r} : Rests(q)
  BY DEF Ready, PoolInv, TypeOK, CallState, Rests, Stays, Resolve
<1>2. CleanInv'
  BY <1>1, LocksDiffer DEF Ready, PoolInv, TypeOK, NamedInv, CallState, UseInv, CleanInv, Rests, Stays, Asking, Resolve
<1>3. MissInv'
  BY <1>1, LocksDiffer DEF Ready, PoolInv, TypeOK, NamedInv, HeldInv, CallState, UseInv, MissInv, Rests, Stays, Getting, Manager, Resolve
<1>4. OpenKept'
  BY <1>1, LocksDiffer DEF Ready, PoolInv, TypeOK, NamedInv, HeldInv, CallState, UseInv, CleanInv, OpenKept, Rests, Stays,
     Getting, Manager, Resolve
<1> QED BY <1>2, <1>3, <1>4 DEF UseInv

LEMMA DialledReady == ASSUME Ready, NEW r \in Requests, Dialled(r) PROVE UseInv'
<1>0. PICK y \in Resources : call[r].resource = y
  BY DEF Ready, PoolInv, NamedInv, Dialled
<1>1. \A q \in Requests \ {r} : Rests(q)
  BY DEF Ready, PoolInv, TypeOK, CallState, Rests, Stays, Dialled, Goto
<1>2. call'[r].stage \in {"done", "failed"} /\ call'[r].resource = y
  BY <1>0 DEF Ready, PoolInv, TypeOK, CallState, Dialled, Goto
<1>3. \A q \in Requests \ {r} : call[q].resource = y => call[q].stage \notin Getting
  BY <1>0, LocksDiffer DEF Ready, HeldInv, Manager, Dialled, Getting
<1>4. CleanInv'
  BY <1>1, <1>2 DEF Ready, UseInv, CleanInv, Rests, Stays, Asking
<1>5. MissInv'
  <2>1. \A x \in Resources \ {y} : cache'[x] = cache[x]
    BY <1>0 DEF Ready, PoolInv, TypeOK, Dialled
  <2>2. \A q \in Requests : call[q].stage \in Getting => call[q].resource \in Resources
    BY DEF Ready, PoolInv, NamedInv, Getting
  <2> QED BY <1>1, <1>2, <1>3, <2>1, <2>2 DEF Ready, UseInv, MissInv, Rests, Stays, Getting
<1>6. OpenKept'
  <2>1. CASE call[r].client = None
    <3>1. cache' = cache /\ call'[r].open = call[r].open
      BY <2>1 DEF Ready, PoolInv, TypeOK, CallState, Dialled, Goto
    <3> QED BY <1>0, <1>1, <1>2, <3>1 DEF Ready, UseInv, OpenKept, Rests, Stays
  <2>2. CASE call[r].client # None
    <3>1. cache'[y] # None /\ \A x \in Resources \ {y} : cache'[x] = cache[x]
      BY <1>0, <2>2 DEF Ready, PoolInv, TypeOK, Dialled
    <3> QED BY <1>0, <1>1, <1>2, <3>1 DEF Ready, UseInv, OpenKept, Rests, Stays
  <2> QED BY <2>1, <2>2
<1> QED BY <1>4, <1>5, <1>6 DEF UseInv

LEMMA FinishReady == ASSUME Ready, NEW r \in Requests, Finish(r) PROVE UseInv'
<1>1. \A q \in Requests \ {r} : Rests(q)
  BY DEF Ready, PoolInv, TypeOK, CallState, Rests, Stays, Finish, NoCall
<1>2. CleanInv'
  BY <1>1, LocksDiffer DEF Ready, PoolInv, TypeOK, NamedInv, CallState, UseInv, CleanInv, Rests, Stays, Asking, Finish, NoCall
<1>3. MissInv'
  BY <1>1, LocksDiffer DEF Ready, PoolInv, TypeOK, NamedInv, HeldInv, CallState, UseInv, MissInv, Rests, Stays, Getting, Manager, Finish, NoCall
<1>4. OpenKept'
  BY <1>1, LocksDiffer DEF Ready, PoolInv, TypeOK, NamedInv, HeldInv, CallState, UseInv, CleanInv, OpenKept, Rests, Stays,
     Getting, Manager, Finish, NoCall
<1> QED BY <1>2, <1>3, <1>4 DEF UseInv

LEMMA SyncRemoveReady == ASSUME Ready, NEW r \in Requests, SyncRemove(r) PROVE UseInv'
BY RemoveCloses, ClosesReady DEF Ready, SyncRemove

(* UseInv at the start and after each step.                                *)
LEMMA InitUse == Init => UseInv
BY DEF Init, UseInv, CleanInv, MissInv, OpenKept, NoCall, Getting

LEMMA StepUse == Ready /\ [Next]_vars => UseInv'
<1> SUFFICES ASSUME Ready, [Next]_vars PROVE UseInv'
  OBVIOUS
<1>1. ASSUME NEW r \in Requests, Begin(r) \/ Waits(r) \/ Works(r) \/ SyncTimeout(r)
      PROVE  UseInv'
  BY <1>1, BeginReady, AskReady, SyncLockReady, SyncConnectReady, SyncReadReady, SyncTimeoutReady,
     SyncRemoveReady, SyncNoteReady, GetCachedReady, GetMissReady, ResolveConnectReady,
     ResolveReady, DialledReady, FinishReady DEF Waits, Works
<1>2. ASSUME UNCHANGED <<cache, call>> PROVE UseInv'
  BY <1>2 DEF Ready, UseInv, CleanInv, MissInv, OpenKept
<1>3. ASSUME NEW w \in Others,
             \/ Tick(w) \/ TxStart(w) \/ OtherWaits(w) \/ OtherWorks(w)
             \/ ObserveFails(w) \/ TxFails(w)
      PROVE  KeepRequests
  BY <1>3 DEF Tick, TxStart, OtherWaits, OtherWorks, ObserveFails, TxFails, ObserveLock, QueryTable,
     Report, TxBegin, CloseRows, Reported, Observed, TxStatement
<1> QED BY <1>1, <1>2, <1>3 DEF Next, Edit, KeepRequests, vars

-----------------------------------------------------------------------------
(* The request Use sees in place of r, and the variables Use sees: there   *)
(* is one holder of resourceMu, and one of each manager's mutex.           *)
Coarse(r) == [stage |-> CoarseStage(call[r]), resource |-> call[r].resource, read |-> call[r].read,
              client |-> call[r].client, open |-> call[r].open \/ Opened(r)]
Mapped ==
  /\ UsedRevisions \in [Resources -> Configs]
  /\ UsedCache \in [Resources -> Configs]
  /\ UsedCall = [r \in Requests |-> Coarse(r)] /\ \A r \in Requests : Coarse(r) \in Use!Call
  /\ \A x \in Resources, r \in Requests :
       /\ Noting(x, r) => UsedRevisions[x] = call[r].read
       /\ Dialling(x, r) => UsedCache[x] = call[r].client
  /\ \A x \in Resources :
       /\ (\A r \in Requests : ~Noting(x, r)) => UsedRevisions[x] = revisions[x]
       /\ (\A r \in Requests : ~Dialling(x, r)) => UsedCache[x] = cache[x]
  /\ \A r \in Requests : call[r].stage = "apply" => UsedMu = r
  /\ (\A r \in Requests : call[r].stage # "apply") => UsedMu = None

(* The values of the mapping, in the terms of whoever holds the locks.     *)
LEMMA ReadyMaps == Ready => Mapped
<1> SUFFICES ASSUME Ready PROVE Mapped
  OBVIOUS
<1>1. \A r \in Requests : call[r].read \in Configs /\ call[r].client \in Configs
  BY DEF Ready, PoolInv, TypeOK, CallState
<1>2. UsedRevisions \in [Resources -> Configs]
  BY <1>1 DEF Ready, PoolInv, TypeOK, UsedRevisions, Noting
<1>3. UsedCache \in [Resources -> Configs]
  BY <1>1 DEF Ready, PoolInv, TypeOK, UsedCache, Dialling
<1>4. UsedCall = [r \in Requests |-> Coarse(r)] /\ \A r \in Requests : Coarse(r) \in Use!Call
  <2>1. UsedCall = [r \in Requests |-> Coarse(r)]
    BY DEF UsedCall, Coarse
  <2>2. \A r \in Requests : Coarse(r) \in Use!Call
    BY DEF Ready, PoolInv, TypeOK, CallState, Use!Call, Coarse, CoarseStage, Stages, Use!Configs,
       Configs, Opened
  <2> QED BY <2>1, <2>2
<1>5. ASSUME NEW x \in Resources, NEW r \in Requests
      PROVE  /\ Noting(x, r) => UsedRevisions[x] = call[r].read
             /\ Dialling(x, r) => UsedCache[x] = call[r].client
  <2>1. Noting(x, r) => owner["resourceMu"] = r
    BY DEF Ready, HeldInv, Noting, Syncing
  <2>2. Dialling(x, r) => owner[KindOf[x]] = r
    BY DEF Ready, HeldInv, Dialling, Getting, Manager
  <2> QED BY <2>1, <2>2 DEF UsedRevisions, UsedCache
<1>6. ASSUME NEW x \in Resources
      PROVE  /\ (\A r \in Requests : ~Noting(x, r)) => UsedRevisions[x] = revisions[x]
             /\ (\A r \in Requests : ~Dialling(x, r)) => UsedCache[x] = cache[x]
  BY DEF UsedRevisions, UsedCache, Noting, Dialling
<1>7. \A r \in Requests : call[r].stage = "apply" => UsedMu = r
  BY DEF Ready, HeldInv, Syncing, UsedMu
<1>8. (\A r \in Requests : call[r].stage # "apply") => UsedMu = None
  BY DEF UsedMu
<1> QED BY <1>2, <1>3, <1>4, <1>5, <1>6, <1>7, <1>8 DEF Mapped

(* Records of Use with the same fields are the same.                       *)
LEMMA FieldsTell ==
  ASSUME NEW c \in Use!Call, NEW d \in Use!Call, c.stage = d.stage, c.resource = d.resource,
         c.read = d.read, c.client = d.client, c.open = d.open
  PROVE  c = d
BY DEF Use!Call

(* Nobody but r moves.                                                     *)
LEMMA CallMaps ==
  ASSUME Mapped, Mapped', NEW r \in Requests, \A q \in Requests \ {r} : Rests(q)
  PROVE  UsedCall' = [UsedCall EXCEPT ![r] = Coarse(r)']
<1>1. \A q \in Requests \ {r} : Coarse(q)' = Coarse(q)
  BY DEF Rests, Stays, Coarse, CoarseStage, Opened
<1> QED BY <1>1 DEF Mapped

(* A step of r outside of the places the mapping looks at is not seen.     *)
LEMMA RevisionsStay ==
  ASSUME Mapped, Mapped', NEW r \in Requests, \A q \in Requests \ {r} : Rests(q),
         revisions' = revisions, call[r].stage # "noted", call'[r].stage # "noted"
  PROVE  UsedRevisions' = UsedRevisions
<1>1. ASSUME NEW x \in Resources PROVE UsedRevisions'[x] = UsedRevisions[x]
  <2>1. \A q \in Requests : Noting(x, q)' <=> Noting(x, q)
    BY DEF Rests, Stays, Noting
  <2>2. ASSUME NEW q \in Requests, Noting(x, q) PROVE call'[q].read = call[q].read
    BY <2>2 DEF Rests, Stays, Noting
  <2> QED BY <2>1, <2>2 DEF Mapped
<1> QED BY <1>1 DEF Mapped

LEMMA CacheStays ==
  ASSUME Mapped, Mapped', NEW r \in Requests, \A q \in Requests \ {r} : Rests(q),
         cache' = cache, call[r].stage # "dial", call'[r].stage # "dial"
  PROVE  UsedCache' = UsedCache
<1>1. ASSUME NEW x \in Resources PROVE UsedCache'[x] = UsedCache[x]
  <2>1. \A q \in Requests : Dialling(x, q)' <=> Dialling(x, q)
    BY DEF Rests, Stays, Dialling
  <2>2. ASSUME NEW q \in Requests, Dialling(x, q) PROVE call'[q].client = call[q].client
    BY <2>2 DEF Rests, Stays, Dialling
  <2> QED BY <2>1, <2>2 DEF Mapped
<1> QED BY <1>1 DEF Mapped

LEMMA MuStays ==
  ASSUME Mapped, Mapped', NEW r \in Requests, \A q \in Requests \ {r} : Rests(q),
         call[r].stage # "apply", call'[r].stage # "apply"
  PROVE  UsedMu' = UsedMu
BY DEF Mapped, Rests, Stays

(* r only gets on, in the eyes of Use to the stage to.                     *)
LEMMA CoarseGoes ==
  ASSUME Mapped, Mapped', NEW r \in Requests, NEW to,
         CoarseStage(call'[r]) = to, call'[r].resource = call[r].resource,
         call'[r].read = call[r].read, call'[r].client = call[r].client,
         (call'[r].open \/ Opened(r)') = (call[r].open \/ Opened(r))
  PROVE  /\ Coarse(r)' = [Coarse(r) EXCEPT !.stage = to]
         /\ to = CoarseStage(call[r]) => Coarse(r)' = Coarse(r)
<1> DEFINE c == Coarse(r)
           d == Coarse(r)'
           e == [Coarse(r) EXCEPT !.stage = to]
<1>1. c \in Use!Call /\ d \in Use!Call
  BY DEF Mapped
<1>2. /\ d.stage = to /\ c.stage = CoarseStage(call[r]) /\ d.resource = c.resource
      /\ d.read = c.read /\ d.client = c.client /\ d.open = c.open
  BY DEF Coarse
<1> HIDE DEF c, d
<1>3. e \in Use!Call /\ e.stage = to /\ e.resource = c.resource /\ e.read = c.read
      /\ e.client = c.client /\ e.open = c.open
  BY <1>1, <1>2 DEF Use!Call, c
<1> HIDE DEF e
<1>4. d = e /\ (to = CoarseStage(call[r]) => d = c)
  BY <1>1, <1>2, <1>3, FieldsTell
<1> QED BY <1>4 DEF c, d, e

(* A step Use does not see.                                                *)
LEMMA Unseen ==
  ASSUME Mapped, Mapped', NEW r \in Requests, \A q \in Requests \ {r} : Rests(q),
         Coarse(r)' = Coarse(r), UNCHANGED <<config, seen, UsedRevisions, UsedCache, UsedMu>>
  PROVE  UNCHANGED Use!cacheVars
<1>1. UsedCall' = UsedCall
  BY CallMaps DEF Mapped
<1> QED BY <1>1 DEF Use!cacheVars

-----------------------------------------------------------------------------
(* A request that begins, and one that asks, are those of Use.             *)
LEMMA BeginUses ==
  ASSUME Ready, Mapped, Mapped', NEW r \in Requests, Begin(r) PROVE Use!Begin(r)
<1>1. \A q \in Requests \ {r} : Rests(q)
  BY DEF Ready, PoolInv, TypeOK, CallState, Rests, Stays, Begin
<1>2. call[r].stage = "none" /\ call'[r].stage = "none" /\ call[r].resource = None
  BY LocksDiffer DEF Ready, PoolInv, TypeOK, NamedInv, CallState, Begin
<1>3. UNCHANGED <<config, UsedRevisions, UsedCache, UsedMu>>
  BY <1>1, <1>2, RevisionsStay, CacheStays, MuStays DEF Begin, Getting
<1>4. PICK x \in Resources : /\ call' = [call EXCEPT ![r].resource = x]
                             /\ seen' = [seen EXCEPT ![r] = {config[x]}]
  BY DEF Begin
<1>5. Coarse(r)' = Use!For(x, "none")
  <2> DEFINE c == Coarse(r)'
             d == Use!For(x, "none")
  <2>1. call'[r].resource = x /\ call'[r].client = None /\ call'[r].read = None /\ call'[r].open = FALSE
    BY <1>2, <1>4 DEF Ready, PoolInv, TypeOK, CallState, UseInv, CleanInv, Asking
  <2>2. CoarseStage(call'[r]) = "none" /\ ~Opened(r)'
    BY <1>2 DEF CoarseStage, Opened
  <2>3. /\ c \in Use!Call /\ c.stage = "none" /\ c.resource = x
        /\ c.read = None /\ c.client = None /\ c.open = FALSE
    BY <2>1, <2>2 DEF Coarse, Mapped
  <2>4. d \in Use!Call /\ d.stage = "none" /\ d.resource = x /\ d.read = None /\ d.client = None
    BY DEF Use!For, Use!NoCall, Use!Call, Use!Configs
  <2>5. d.open = FALSE
    BY DEF Use!For, Use!NoCall
  <2> HIDE DEF c, d
  <2>6. c = d
    BY <2>3, <2>4, <2>5, FieldsTell
  <2> QED BY <2>6 DEF c, d
<1>6. UsedCall[r].resource = None
  BY <1>2 DEF Mapped, Coarse
<1>7. UsedCall' = [UsedCall EXCEPT ![r] = Use!For(x, "none")]
  BY <1>1, <1>5, CallMaps
<1> QED BY <1>3, <1>4, <1>6, <1>7 DEF Use!Begin, Use!Open

LEMMA AskUses ==
  ASSUME Ready, Mapped, Mapped', NEW r \in Requests, Ask(r) PROVE Use!Ask(r)
<1>1. \A q \in Requests \ {r} : Rests(q)
  BY DEF Ready, PoolInv, TypeOK, CallState, Rests, Stays, Ask, Goto
<1>2. /\ call[r].stage = "none" /\ call[r].resource # None /\ call'[r].stage = "sync"
      /\ call'[r].resource = call[r].resource /\ call'[r].read = call[r].read
      /\ call'[r].client = call[r].client /\ call'[r].open = call[r].open
  BY DEF Ready, PoolInv, TypeOK, CallState, Ask, Goto
<1>3. UNCHANGED <<config, seen, UsedRevisions, UsedCache, UsedMu>>
  BY <1>1, <1>2, RevisionsStay, CacheStays, MuStays DEF Ask, Getting
<1>4. Coarse(r)' = [Coarse(r) EXCEPT !.stage = "sync"]
  <2>1. CoarseStage(call'[r]) = "sync" /\ ~Opened(r) /\ ~Opened(r)'
    BY <1>2 DEF CoarseStage, Opened
  <2> QED BY <1>2, <2>1, CoarseGoes
<1>5. UsedCall[r] = Coarse(r) /\ UsedCall' = [UsedCall EXCEPT ![r] = [UsedCall[r] EXCEPT !.stage = "sync"]]
  BY <1>1, <1>4, CallMaps DEF Mapped
<1>6. UsedCall[r].resource # None /\ UsedCall[r].stage = "none"
  BY <1>2, <1>5 DEF Coarse, CoarseStage
<1> QED BY <1>3, <1>5, <1>6 DEF Use!Ask, Use!StartCall

(* Taking resourceMu and the connection is not seen: the request still     *)
(* asks to be synchronised, or to fetch.                                   *)
LEMMA WaitUses ==
  ASSUME Ready, Mapped, Mapped', NEW r \in Requests,
         SyncLock(r) \/ SyncConnect(r) \/ ResolveConnect(r)
  PROVE  UNCHANGED Use!cacheVars
<1>1. \A q \in Requests \ {r} : Rests(q)
  BY DEF Ready, PoolInv, TypeOK, CallState, Rests, Stays, SyncLock, SyncConnect, ResolveConnect, Goto
<1>2. /\ \/ call[r].stage \in {"sync", "read"} /\ call'[r].stage \in {"read", "reading"}
         \/ call[r].stage = "resolve" /\ call'[r].stage = "resolving"
      /\ call'[r].resource = call[r].resource /\ call'[r].read = call[r].read
      /\ call'[r].client = call[r].client /\ call'[r].open = call[r].open
  BY DEF Ready, PoolInv, TypeOK, CallState, SyncLock, SyncConnect, ResolveConnect, Goto
<1>3. UNCHANGED <<config, seen, UsedRevisions, UsedCache, UsedMu>>
  BY <1>1, <1>2, RevisionsStay, CacheStays, MuStays DEF SyncLock, SyncConnect, ResolveConnect
<1>4. Coarse(r)' = Coarse(r)
  <2>1. CoarseStage(call'[r]) = CoarseStage(call[r]) /\ ~Opened(r) /\ ~Opened(r)'
    BY <1>2 DEF CoarseStage, Opened
  <2> QED BY <1>2, <2>1, CoarseGoes
<1> QED BY <1>1, <1>3, <1>4, Unseen

(* syncResource has the row, or takes it for missing: what Use does when   *)
(* it locks and reads at once.                                             *)
LEMMA HaveReadUses ==
  ASSUME Ready, Mapped, Mapped', NEW r \in Requests, NEW rev \in Configs,
         call[r].stage \in {"read", "reading"}, HaveRead(r, rev),
         rev = config[call[r].resource] \/ (rev = None /\ "store" \in Faults),
         UNCHANGED <<config, seen, revisions, cache>>
  PROVE  Use!SyncRead(r)
<1>1. \A q \in Requests \ {r} : Rests(q)
  BY DEF Ready, PoolInv, TypeOK, CallState, Rests, Stays, HaveRead
<1>2. /\ call'[r].stage = "apply" /\ call'[r].read = rev
      /\ call'[r].resource = call[r].resource /\ call'[r].client = call[r].client
      /\ call'[r].open = call[r].open
  BY DEF Ready, PoolInv, TypeOK, CallState, HaveRead
<1>3. UNCHANGED <<config, seen, UsedRevisions, UsedCache>>
  BY <1>1, <1>2, RevisionsStay, CacheStays DEF Getting
<1>4. UsedMu = None /\ UsedMu' = r
  <2>1. \A q \in Requests : call[q].stage # "apply"
    BY DEF Ready, HeldInv, Syncing
  <2> QED BY <1>2, <2>1 DEF Mapped
<1>5. Coarse(r)' = [Coarse(r) EXCEPT !.stage = "apply", !.read = rev]
  <2> DEFINE c == Coarse(r)
             d == Coarse(r)'
             e == [Coarse(r) EXCEPT !.stage = "apply", !.read = rev]
  <2>1. CoarseStage(call'[r]) = "apply" /\ ~Opened(r) /\ ~Opened(r)'
    BY <1>2 DEF CoarseStage, Opened
  <2>2. c \in Use!Call /\ d \in Use!Call
    BY DEF Mapped
  <2>3. /\ d.stage = "apply" /\ d.resource = c.resource /\ d.read = rev
        /\ d.client = c.client /\ d.open = c.open
    BY <1>2, <2>1 DEF Coarse
  <2> HIDE DEF c, d
  <2>4. /\ e \in Use!Call /\ e.stage = "apply" /\ e.resource = c.resource /\ e.read = rev
        /\ e.client = c.client /\ e.open = c.open
    BY <2>2 DEF Use!Call, Use!Configs, Configs, c
  <2> HIDE DEF e
  <2>5. d = e
    BY <2>2, <2>3, <2>4, FieldsTell
  <2> QED BY <2>5 DEF d, e
<1>6. UsedCall[r] = Coarse(r)
      /\ UsedCall' = [UsedCall EXCEPT ![r] = [UsedCall[r] EXCEPT !.stage = "apply", !.read = rev]]
  BY <1>1, <1>5, CallMaps DEF Mapped
<1>7. UsedCall[r].stage = "sync" /\ UsedCall[r].resource = call[r].resource
  BY <1>6 DEF Coarse, CoarseStage
<1> QED BY <1>3, <1>4, <1>6, <1>7 DEF Use!SyncRead, Use!Lock

LEMMA SyncReadUses ==
  ASSUME Ready, Mapped, Mapped', NEW r \in Requests, SyncRead(r) \/ SyncTimeout(r)
  PROVE  Use!SyncRead(r)
<1>1. config[call[r].resource] \in Configs /\ None \in Configs
  BY DEF Ready, PoolInv, TypeOK, NamedInv, SyncRead, SyncTimeout, Configs
<1> QED BY <1>1, HaveReadUses DEF SyncRead, SyncTimeout, NotRead

(* The step of Use that ends syncResource, from what it does to its        *)
(* variables.                                                              *)
LEMMA AppliedUses ==
  ASSUME Mapped, NEW r \in Requests, NEW y \in Resources,
         call[r].stage = "apply", call[r].resource = y,
         UsedRevisions' = [UsedRevisions EXCEPT ![y] = call[r].read],
         UsedMu' = None, UNCHANGED <<config, seen>>,
         NEW left,
         UsedCall' = [left EXCEPT ![r].stage = IF call[r].read = None THEN "failed" ELSE "fetch"],
         \/ /\ Use!MustRemove(y, call[r].read) /\ left = Use!Closing(y)
            /\ UsedCache' = [UsedCache EXCEPT ![y] = None]
         \/ /\ ~Use!MustRemove(y, call[r].read) /\ left = UsedCall
            /\ UsedCache' = UsedCache
  PROVE  Use!SyncApply(r)
<1>1. UsedCall[r].stage = "apply" /\ UsedCall[r].resource = y /\ UsedCall[r].read = call[r].read
  BY DEF Mapped, Coarse, CoarseStage
<1> QED BY <1>1 DEF Use!SyncApply, Use!Unlock

(* The client of y is closed in all hands, while nobody opens another one: *)
(* Use closes it too.                                                      *)
LEMMA ClosedUses ==
  ASSUME Ready, Mapped, Mapped', NEW r \in Requests, NEW y \in Resources, call[r].resource = y,
         NEW stage \in {"noted", "resolve"}, NEW to \in {"failed", "fetch"},
         call[r].stage \in {"apply", "fetch"}, Closes(r, stage), CoarseStage(call'[r]) = to,
         \A q \in Requests : ~Dialling(y, q)
  PROVE  /\ UsedCache' = [UsedCache EXCEPT ![y] = None]
         /\ UsedCall' = [Use!Closing(y) EXCEPT ![r].stage = to]
<1>1. \A q \in Requests : /\ call'[q].resource = call[q].resource
                          /\ call'[q].read = call[q].read /\ call'[q].client = call[q].client
                          /\ call'[q].stage = IF q = r THEN stage ELSE call[q].stage
                          /\ call'[q].open = (call[q].open /\ call[q].resource # y)
  BY DEF Closes
<1>2. UsedCache' = [UsedCache EXCEPT ![y] = None]
  <2>1. /\ cache'[y] = None
        /\ \A x \in Resources \ {y} : cache'[x] = cache[x]
    BY DEF Closes, Ready, PoolInv, TypeOK
  <2>2. UsedCache'[y] = None
    <3>1. \A q \in Requests : ~Dialling(y, q)'
      BY <1>1 DEF Dialling
    <3> QED BY <2>1, <3>1 DEF Mapped
  <2>3. ASSUME NEW x \in Resources, x # y PROVE UsedCache'[x] = UsedCache[x]
    <3>1. \A q \in Requests : Dialling(x, q)' <=> Dialling(x, q)
      BY <1>1, <2>3 DEF Dialling
    <3> QED BY <1>1, <2>1, <2>3, <3>1 DEF Mapped
  <2> QED BY <2>2, <2>3 DEF Mapped
<1>3. ASSUME NEW q \in Requests
      PROVE  Coarse(q)' = IF q = r THEN [Use!Closing(y)[q] EXCEPT !.stage = to]
                                   ELSE Use!Closing(y)[q]
  <2> DEFINE c == Coarse(q)
             d == Coarse(q)'
             k == Use!Closing(y)[q]
             e == [Use!Closing(y)[q] EXCEPT !.stage = to]
  <2>1. c \in Use!Call /\ d \in Use!Call /\ UsedCall[q] = c
    BY DEF Mapped
  <2>2. k = IF c.resource = y THEN [c EXCEPT !.open = FALSE] ELSE c
    BY <2>1 DEF Use!Closing
  <2>3. /\ d.stage = IF q = r THEN to ELSE c.stage
        /\ d.resource = c.resource /\ d.read = c.read /\ d.client = c.client
    BY <1>1 DEF Coarse, CoarseStage
  <2>4. d.open = IF c.resource = y THEN FALSE ELSE c.open
    <3>1. Opened(q)' = Opened(q) /\ (call[q].resource = y => ~Opened(q))
      BY <1>1 DEF Opened, Dialling
    <3> QED BY <1>1, <3>1 DEF Coarse
  <2> HIDE DEF c, d
  <2> HIDE DEF k
  <2>5. /\ k \in Use!Call /\ k.stage = c.stage /\ k.resource = c.resource /\ k.read = c.read
        /\ k.client = c.client /\ k.open = IF c.resource = y THEN FALSE ELSE c.open
    BY <2>1, <2>2 DEF Use!Call
  <2> HIDE DEF k
  <2>6. /\ e \in Use!Call /\ e.stage = to /\ e.resource = k.resource /\ e.read = k.read
        /\ e.client = k.client /\ e.open = k.open
    BY <2>5 DEF Use!Call, k
  <2> HIDE DEF e
  <2>7. CASE q = r
    <3>1. d.stage = e.stage /\ d.resource = e.resource /\ d.read = e.read /\ d.client = e.client
      BY <2>3, <2>5, <2>6, <2>7
    <3>2. d.open = e.open
      BY <2>4, <2>5, <2>6
    <3>3. d = e
      BY <2>1, <2>6, <3>1, <3>2, FieldsTell
    <3> QED BY <2>7, <3>3 DEF d, e, k
  <2>8. CASE q # r
    <3>1. d = k
      BY <2>1, <2>3, <2>4, <2>5, <2>8, FieldsTell
    <3> QED BY <2>8, <3>1 DEF d, k
  <2> QED BY <2>7, <2>8
<1>4. UsedCall' = [q \in Requests |-> Coarse(q)']
  BY DEF Mapped
<1>5. Use!Closing(y) = [q \in Requests |-> Use!Closing(y)[q]]
  BY DEF Use!Closing
<1> QED BY <1>2, <1>3, <1>4, <1>5

(* The client is removed: Use notes the revision in the same step.         *)
LEMMA SyncRemoveUses ==
  ASSUME Ready, Mapped, Mapped', NEW r \in Requests, SyncRemove(r) PROVE Use!SyncApply(r)
<1>0. PICK y \in Resources : call[r].resource = y
  BY DEF Ready, PoolInv, NamedInv, SyncRemove
<1> DEFINE p == call[r].read
           to == IF p = None THEN "failed" ELSE "fetch"
<1>1. /\ UNCHANGED <<config, seen, revisions>> /\ Closes(r, "noted")
      /\ call[r].stage = "apply" /\ MustRemove(r) /\ owner[KindOf[y]] = None
  BY <1>0, RemoveCloses DEF Ready, SyncRemove, Manager
<1>2. \A q \in Requests : /\ call'[q].resource = call[q].resource
                          /\ call'[q].read = call[q].read
                          /\ call'[q].stage = IF q = r THEN "noted" ELSE call[q].stage
  BY <1>1 DEF Closes
<1>3. \A q \in Requests \ {r} : call[q].stage \notin {"apply", "noted"}
  BY <1>1 DEF Ready, HeldInv, Syncing
<1>4. \A q \in Requests : ~Dialling(y, q)
  BY <1>1, LocksDiffer DEF Ready, HeldInv, Manager, Dialling, Getting
<1>5. UsedRevisions[y] = revisions[y] /\ Use!MustRemove(y, p)
  <2>1. \A q \in Requests : ~Noting(y, q)
    BY <1>1, <1>3 DEF Noting
  <2>2. UsedRevisions[y] = revisions[y]
    BY <2>1 DEF Mapped
  <2> QED BY <1>0, <1>1, <2>2 DEF MustRemove, Use!MustRemove
<1>6. UsedRevisions' = [UsedRevisions EXCEPT ![y] = p]
  <2>1. UsedRevisions'[y] = p
    BY <1>0, <1>2 DEF Mapped, Noting
  <2>2. ASSUME NEW x \in Resources, x # y PROVE UsedRevisions'[x] = UsedRevisions[x]
    <3>1. \A q \in Requests : ~Noting(x, q) /\ ~Noting(x, q)'
      BY <1>0, <1>1, <1>2, <1>3, <2>2 DEF Noting
    <3> QED BY <1>1, <3>1 DEF Mapped
  <2> QED BY <2>1, <2>2 DEF Mapped
<1>7. UsedMu' = None
  BY <1>2, <1>3 DEF Mapped
<1>8. /\ UsedCache' = [UsedCache EXCEPT ![y] = None]
      /\ UsedCall' = [Use!Closing(y) EXCEPT ![r].stage = to]
  <2>1. CoarseStage(call'[r]) = to
    BY <1>2 DEF CoarseStage
  <2>2. to \in {"failed", "fetch"}
    OBVIOUS
  <2> HIDE DEF to
  <2> QED BY <1>0, <1>1, <1>4, <2>1, <2>2, ClosedUses
<1> QED BY <1>0, <1>1, <1>5, <1>6, <1>7, <1>8, AppliedUses

(* The revision is noted: what ends syncResource when nothing had to be    *)
(* removed, and was seen already when a client was.                        *)
LEMMA SyncNoteUses ==
  ASSUME Ready, Mapped, Mapped', NEW r \in Requests, SyncNote(r)
  PROVE  Use!SyncApply(r) \/ UNCHANGED Use!cacheVars
<1>0. PICK y \in Resources : call[r].resource = y
  BY DEF Ready, PoolInv, NamedInv, SyncNote, Settled
<1> DEFINE p == call[r].read
           to == IF p = None THEN "failed" ELSE "fetch"
<1>1. /\ UNCHANGED <<config, seen, cache>> /\ revisions' = [revisions EXCEPT ![y] = p]
      /\ call[r].stage \in {"apply", "noted"}
      /\ call[r].stage = "apply" => ~MustRemove(r)
  BY <1>0 DEF SyncNote, Settled
<1>2. /\ call'[r].stage = to
      /\ call'[r].resource = y /\ call'[r].read = p
      /\ call'[r].client = call[r].client /\ call'[r].open = call[r].open
  BY <1>0 DEF Ready, PoolInv, TypeOK, CallState, SyncNote, Goto
<1>3. \A q \in Requests \ {r} : Rests(q)
  BY DEF Ready, PoolInv, TypeOK, CallState, Rests, Stays, SyncNote, Goto
<1>4. \A q \in Requests \ {r} : call[q].stage \notin {"apply", "noted"}
  BY <1>1 DEF Ready, HeldInv, Syncing
<1>5. UsedCache' = UsedCache
  BY <1>1, <1>2, <1>3, CacheStays
<1>6. UsedMu' = None
  BY <1>2, <1>3, <1>4 DEF Mapped, Rests, Stays
<1>7. /\ UsedRevisions'[y] = p
      /\ \A x \in Resources : x # y => UsedRevisions'[x] = UsedRevisions[x]
  <2>1. ASSUME NEW x \in Resources PROVE UsedRevisions'[x] = revisions'[x]
    <3>1. \A q \in Requests : ~Noting(x, q)'
      BY <1>2, <1>3, <1>4 DEF Noting, Rests, Stays
    <3> QED BY <3>1 DEF Mapped
  <2>2. ASSUME NEW x \in Resources, x # y PROVE UsedRevisions[x] = revisions[x]
    <3>1. \A q \in Requests : ~Noting(x, q)
      BY <1>0, <1>4, <2>2 DEF Noting
    <3> QED BY <3>1 DEF Mapped
  <2> QED BY <1>1, <2>1, <2>2 DEF Ready, PoolInv, TypeOK
<1>8. UsedRevisions' = [UsedRevisions EXCEPT ![y] = p]
  BY <1>7 DEF Mapped
<1>9. Coarse(r)' = [Coarse(r) EXCEPT !.stage = to] /\ (call[r].stage = "noted" => Coarse(r)' = Coarse(r))
  <2>1. /\ CoarseStage(call'[r]) = to /\ ~Opened(r) /\ ~Opened(r)'
        /\ call[r].stage = "noted" => CoarseStage(call[r]) = to
    BY <1>1, <1>2 DEF CoarseStage, Opened
  <2> HIDE DEF to
  <2> QED BY <1>0, <1>2, <2>1, CoarseGoes
<1>10. CASE call[r].stage = "apply"
  <2>0. UsedCall[r] = Coarse(r) /\ UsedCall' = [UsedCall EXCEPT ![r] = Coarse(r)']
    BY <1>3, CallMaps DEF Mapped
  <2>1. UsedCall' = [UsedCall EXCEPT ![r] = [UsedCall[r] EXCEPT !.stage = to]]
    BY <1>9, <2>0
  <2>2. ~Use!MustRemove(y, p)
    <3>1. \A q \in Requests : ~Noting(y, q)
      BY <1>4, <1>10 DEF Noting
    <3>2. UsedRevisions[y] = revisions[y]
      BY <3>1 DEF Mapped
    <3> QED BY <1>0, <1>1, <1>10, <3>2 DEF MustRemove, Use!MustRemove
  <2>3. Use!SyncApply(r)
    BY <1>0, <1>1, <1>5, <1>6, <1>8, <1>10, <2>1, <2>2, AppliedUses
  <2> QED BY <2>3
<1>11. CASE call[r].stage = "noted"
  <2>1. UsedRevisions[y] = p
    BY <1>0, <1>11 DEF Mapped, Noting
  <2>2. UsedRevisions' = UsedRevisions
    BY <1>8, <2>1 DEF Mapped
  <2>3. UsedMu = None
    BY <1>4, <1>11 DEF Mapped
  <2> QED BY <1>1, <1>3, <1>5, <1>6, <1>9, <1>11, <2>2, <2>3, Unseen
<1> QED BY <1>1, <1>10, <1>11

(* A cached client is returned.                                            *)
LEMMA GetCachedUses ==
  ASSUME Ready, Mapped, Mapped', NEW r \in Requests, GetCached(r) PROVE Use!FetchCached(r)
<1>0. PICK y \in Resources : call[r].resource = y
  BY DEF Ready, PoolInv, NamedInv, GetCached
<1>1. /\ UNCHANGED <<config, seen, revisions, cache>> /\ call[r].stage = "fetch"
      /\ cache[y] # None /\ owner[KindOf[y]] = None
  BY <1>0 DEF GetCached, Manager
<1>2. /\ call'[r].stage = "done" /\ call'[r].resource = y /\ call'[r].read = call[r].read
      /\ call'[r].client = cache[y] /\ call'[r].open = TRUE
  BY <1>0 DEF Ready, PoolInv, TypeOK, CallState, GetCached
<1>3. \A q \in Requests \ {r} : Rests(q)
  BY DEF Ready, PoolInv, TypeOK, CallState, Rests, Stays, GetCached
<1>4. UNCHANGED <<UsedRevisions, UsedCache, UsedMu>>
  BY <1>1, <1>2, <1>3, RevisionsStay, CacheStays, MuStays DEF Getting
<1>5. UsedCache[y] = cache[y]
  <2>1. \A q \in Requests : ~Dialling(y, q)
    BY <1>1, LocksDiffer DEF Ready, HeldInv, Dialling, Getting, Manager
  <2> QED BY <2>1 DEF Mapped
<1>6. Coarse(r)' = [Coarse(r) EXCEPT !.stage = "done", !.client = cache[y], !.open = TRUE]
  <2> DEFINE c == Coarse(r)
             d == Coarse(r)'
             e == [Coarse(r) EXCEPT !.stage = "done", !.client = cache[y], !.open = TRUE]
  <2>1. CoarseStage(call'[r]) = "done"
    BY <1>2 DEF CoarseStage
  <2>2. c \in Use!Call /\ d \in Use!Call /\ cache[y] \in Configs
    BY DEF Mapped, Ready, PoolInv, TypeOK
  <2>3. /\ d.stage = "done" /\ d.resource = c.resource /\ d.read = c.read
        /\ d.client = cache[y] /\ d.open = TRUE
    BY <1>0, <1>2, <2>1 DEF Coarse
  <2> HIDE DEF c, d
  <2>4. /\ e \in Use!Call /\ e.stage = "done" /\ e.resource = c.resource /\ e.read = c.read
        /\ e.client = cache[y] /\ e.open = TRUE
    BY <2>2 DEF Use!Call, Use!Configs, Configs, c
  <2> HIDE DEF e
  <2>5. d = e
    BY <2>2, <2>3, <2>4, FieldsTell
  <2> QED BY <2>5 DEF d, e
<1>7. /\ UsedCall[r] = Coarse(r)
      /\ UsedCall' = [UsedCall EXCEPT ![r] = [UsedCall[r] EXCEPT !.stage = "done",
                                                                !.client = cache[y], !.open = TRUE]]
  BY <1>3, <1>6, CallMaps DEF Mapped
<1>8. UsedCall[r].stage = "fetch" /\ UsedCall[r].resource = y
  BY <1>0, <1>1, <1>7 DEF Coarse, CoarseStage
<1> QED BY <1>1, <1>4, <1>5, <1>7, <1>8 DEF Use!FetchCached, Use!Obtain

(* Who opens the client of y is alone there, and Use sees it in the map.   *)
LEMMA DiallingMaps ==
  ASSUME Ready, Mapped, Mapped', NEW r \in Requests, NEW y \in Resources,
         \A q \in Requests \ {r} : Rests(q) /\ ~Dialling(y, q),
         \A x \in Resources \ {y} : cache'[x] = cache[x],
         call[r].resource = y, call'[r].resource = y,
         NEW new \in Configs,
         \/ Dialling(y, r)' /\ call'[r].client = new
         \/ ~Dialling(y, r)' /\ cache'[y] = new
  PROVE  UsedCache' = [UsedCache EXCEPT ![y] = new]
<1>1. \A q \in Requests \ {r} : ~Dialling(y, q)'
  BY DEF Rests, Stays, Dialling
<1>2. UsedCache'[y] = new
  BY <1>1 DEF Mapped
<1>3. ASSUME NEW x \in Resources, x # y PROVE UsedCache'[x] = UsedCache[x]
  <2>1. \A q \in Requests : (Dialling(x, q)' <=> Dialling(x, q)) /\ (Dialling(x, q) => q # r)
    BY <1>3 DEF Rests, Stays, Dialling
  <2>2. \A q \in Requests : Dialling(x, q) => call'[q].client = call[q].client
    BY <2>1 DEF Rests, Stays
  <2> QED BY <1>3, <2>1, <2>2 DEF Mapped
<1> QED BY <1>2, <1>3 DEF Mapped

(* The mutex is taken: Use closes the idle client, or sees nothing.        *)
LEMMA GetMissUses ==
  ASSUME Ready, Mapped, Mapped', NEW r \in Requests, GetMiss(r)
  PROVE  Use!CloseIdle(r) \/ UNCHANGED Use!cacheVars
<1>0. PICK y \in Resources : call[r].resource = y
  BY DEF Ready, PoolInv, NamedInv, GetMiss
<1>1. /\ UNCHANGED <<config, seen, revisions>> /\ Closes(r, "resolve")
      /\ call[r].stage = "fetch" /\ owner[KindOf[y]] = None
      /\ cache[y] # None => "idle" \in Faults
  BY <1>0, MissCloses DEF Ready, GetMiss, Manager, Take, Idle
<1>2. \A q \in Requests : /\ call'[q].resource = call[q].resource /\ call'[q].read = call[q].read
                          /\ call'[q].stage = IF q = r THEN "resolve" ELSE call[q].stage
  BY <1>1 DEF Closes
<1>3. \A q \in Requests : ~Dialling(y, q)
  BY <1>1, LocksDiffer DEF Ready, HeldInv, Manager, Dialling, Getting
<1>4. UNCHANGED <<UsedRevisions, UsedMu>>
  <2>1. ASSUME NEW x \in Resources PROVE UsedRevisions'[x] = UsedRevisions[x]
    <3>1. \A q \in Requests : Noting(x, q)' <=> Noting(x, q)
      BY <1>1, <1>2 DEF Noting
    <3>2. CASE \E q \in Requests : Noting(x, q)
      <4>1. PICK q \in Requests : Noting(x, q)
        BY <3>2
      <4>2. UsedRevisions[x] = call[q].read
        BY <4>1 DEF Mapped
      <4>3. UsedRevisions'[x] = call'[q].read
        BY <3>1, <4>1 DEF Mapped
      <4> QED BY <1>2, <4>2, <4>3
    <3>3. CASE \A q \in Requests : ~Noting(x, q)
      BY <1>1, <3>1, <3>3 DEF Mapped
    <3> QED BY <3>2, <3>3
  <2>2. UsedRevisions' = UsedRevisions
    BY <2>1 DEF Mapped
  <2>3. \A q \in Requests : call'[q].stage = "apply" <=> call[q].stage = "apply"
    BY <1>1, <1>2
  <2>4. UsedMu' = UsedMu
    BY <2>3 DEF Mapped
  <2> QED BY <2>2, <2>4
<1>5. /\ UsedCache' = [UsedCache EXCEPT ![y] = None]
      /\ UsedCall' = [Use!Closing(y) EXCEPT ![r].stage = "fetch"]
  <2>1. CoarseStage(call'[r]) = "fetch"
    BY <1>2 DEF CoarseStage
  <2> QED BY <1>0, <1>1, <1>3, <2>1, ClosedUses
<1>6. UsedCall[r].stage = "fetch" /\ UsedCall[r].resource = y /\ UsedCache[y] = cache[y]
  BY <1>0, <1>1, <1>3 DEF Mapped, Coarse, CoarseStage
<1>7. UsedCall' = Use!Closing(y)
  <2>1. Use!Closing(y)[r].stage = "fetch" /\ Use!Closing(y)[r] \in Use!Call
    <3>1. UsedCall[r] \in Use!Call
      BY DEF Mapped
    <3>2. Use!Closing(y)[r] = [UsedCall[r] EXCEPT !.open = FALSE]
      BY <1>6 DEF Use!Closing
    <3> QED BY <1>6, <3>1, <3>2 DEF Use!Call
  <2>2. [Use!Closing(y)[r] EXCEPT !.stage = "fetch"] = Use!Closing(y)[r]
    BY <2>1 DEF Use!Call
  <2> QED BY <1>5, <2>2 DEF Use!Closing
<1>8. CASE cache[y] # None
  BY <1>1, <1>4, <1>5, <1>6, <1>7, <1>8 DEF Use!CloseIdle, Use!Idle
<1>9. CASE cache[y] = None
  <2>1. UsedCache' = UsedCache
    BY <1>5, <1>6, <1>9 DEF Mapped
  <2>2. ASSUME NEW q \in Requests PROVE Use!Closing(y)[q] = UsedCall[q]
    <3>1. UsedCall[q] = Coarse(q) /\ Coarse(q) \in Use!Call /\ Coarse(q).resource = call[q].resource
      BY DEF Mapped, Coarse
    <3>2. call[q].resource = y => Coarse(q).open = FALSE
      BY <1>3, <1>9 DEF Ready, UseInv, OpenKept, Coarse, Opened, Dialling
    <3>3. Use!Closing(y)[q] = IF call[q].resource = y THEN [Coarse(q) EXCEPT !.open = FALSE]
                                                      ELSE Coarse(q)
      BY <3>1 DEF Use!Closing
    <3> QED BY <3>1, <3>2, <3>3 DEF Use!Call
  <2>3. UsedCall' = UsedCall
    BY <1>7, <2>2 DEF Use!Closing, Mapped
  <2> QED BY <1>1, <1>4, <2>1, <2>3 DEF Use!cacheVars
<1> QED BY <1>8, <1>9

(* The row is read, and whether the remote end answers is settled.         *)
LEMMA ResolveUses ==
  ASSUME Ready, Mapped, Mapped', NEW r \in Requests, Resolve(r)
  PROVE  Use!FetchNew(r) \/ Use!FetchFails(r)
<1>0. PICK y \in Resources : call[r].resource = y
  BY DEF Ready, PoolInv, NamedInv, Resolve
<1>1. UNCHANGED <<config, seen, revisions, cache>> /\ call[r].stage = "resolving"
  BY DEF Resolve
<1>2. PICK rev \in Reachable(config[y]) :
        call' = [call EXCEPT ![r].stage = "dial", ![r].client = rev]
  BY <1>0 DEF Resolve
<1>3. rev \in Configs /\ rev \in {config[y], None}
      /\ (rev # config[y] => Faults \cap {"remote", "store"} # {})
  BY DEF Reachable, Ready, PoolInv, TypeOK, Configs
<1>4. /\ call'[r].stage = "dial" /\ call'[r].resource = y /\ call'[r].read = call[r].read
      /\ call'[r].client = rev /\ call'[r].open = call[r].open
  BY <1>0, <1>2, <1>3 DEF Ready, PoolInv, TypeOK, CallState
<1>5. \A q \in Requests \ {r} : Rests(q)
  BY <1>2 DEF Ready, PoolInv, TypeOK, CallState, Rests, Stays
<1>6. \A q \in Requests \ {r} : ~Dialling(y, q)
  BY <1>0, <1>1 DEF Ready, HeldInv, Dialling, Getting, Manager
<1>7. UsedCache' = [UsedCache EXCEPT ![y] = rev]
  <2>1. Dialling(y, r)' /\ call'[r].client = rev
    BY <1>4 DEF Dialling
  <2> QED BY <1>0, <1>1, <1>3, <1>4, <1>5, <1>6, <2>1, DiallingMaps
<1>8. UNCHANGED <<UsedRevisions, UsedMu>>
  BY <1>1, <1>4, <1>5, RevisionsStay, MuStays
<1>9. UsedCache[y] = None
  <2>1. \A q \in Requests : ~Dialling(y, q)
    BY <1>1, <1>6 DEF Dialling
  <2>2. cache[y] = None
    BY <1>0, <1>1 DEF Ready, UseInv, MissInv, Getting
  <2> QED BY <2>1, <2>2 DEF Mapped
<1>10. /\ UsedCall[r] = Coarse(r) /\ UsedCall[r].stage = "fetch" /\ UsedCall[r].resource = y
       /\ UsedCall' = [UsedCall EXCEPT ![r] = Coarse(r)']
  BY <1>0, <1>1, <1>5, CallMaps DEF Mapped, Coarse, CoarseStage
<1> DEFINE c == Coarse(r)
           d == Coarse(r)'
<1>11. c \in Use!Call /\ d \in Use!Call
  BY DEF Mapped
<1>12. CASE rev # None
  <2> DEFINE e == [Coarse(r) EXCEPT !.stage = "done", !.client = rev, !.open = TRUE]
  <2>1. CoarseStage(call'[r]) = "done" /\ Opened(r)'
    BY <1>4, <1>12 DEF CoarseStage, Opened
  <2>2. /\ d.stage = "done" /\ d.resource = c.resource /\ d.read = c.read
        /\ d.client = rev /\ d.open = TRUE
    BY <1>0, <1>4, <2>1 DEF Coarse
  <2> HIDE DEF c, d
  <2>3. /\ e \in Use!Call /\ e.stage = "done" /\ e.resource = c.resource /\ e.read = c.read
        /\ e.client = rev /\ e.open = TRUE
    BY <1>3, <1>11 DEF Use!Call, Use!Configs, Configs, c
  <2> HIDE DEF e
  <2>4. d = e
    BY <1>11, <2>2, <2>3, FieldsTell
  <2>5. UsedCall' = [UsedCall EXCEPT ![r] = [UsedCall[r] EXCEPT !.stage = "done", !.client = rev,
                                                                !.open = TRUE]]
    BY <1>10, <2>4 DEF d, e
  <2>6. Use!FetchNew(r)
    BY <1>1, <1>3, <1>7, <1>8, <1>9, <1>10, <1>12, <2>5 DEF Use!FetchNew, Use!Obtain
  <2> QED BY <2>6
<1>13. CASE rev = None
  <2>1. CoarseStage(call'[r]) = "failed" /\ ~Opened(r) /\ ~Opened(r)'
    BY <1>1, <1>4, <1>13 DEF CoarseStage, Opened
  <2>2. call[r].client = None
    BY <1>1 DEF Ready, UseInv, CleanInv, Asking
  <2>3. Coarse(r)' = [Coarse(r) EXCEPT !.stage = "failed"]
    BY <1>0, <1>4, <1>13, <2>1, <2>2, CoarseGoes
  <2>4. UsedCall' = [UsedCall EXCEPT ![r] = [UsedCall[r] EXCEPT !.stage = "failed"]]
    BY <1>10, <2>3
  <2>5. Use!FetchFails(r)
    <3>1. UsedCache' = UsedCache
      BY <1>7, <1>9, <1>13 DEF Mapped
    <3> QED BY <1>1, <1>3, <1>8, <1>9, <1>10, <1>13, <2>4, <3>1 DEF Use!FetchFails
  <2> QED BY <2>5
<1> QED BY <1>12, <1>13

(* The client goes into the map: Use has it there already.                 *)
LEMMA DialledUses ==
  ASSUME Ready, Mapped, Mapped', NEW r \in Requests, Dialled(r) PROVE UNCHANGED Use!cacheVars
<1>0. PICK y \in Resources : call[r].resource = y
  BY DEF Ready, PoolInv, NamedInv, Dialled
<1>1. UNCHANGED <<config, seen, revisions>> /\ call[r].stage = "dial"
  BY DEF Dialled
<1>2. \A q \in Requests \ {r} : Rests(q)
  BY DEF Ready, PoolInv, TypeOK, CallState, Rests, Stays, Dialled, Goto
<1>3. \A q \in Requests \ {r} : ~Dialling(y, q)
  BY <1>0, <1>1 DEF Ready, HeldInv, Dialling, Getting, Manager
<1>4. UsedCache[y] = call[r].client /\ cache[y] = None /\ call[r].client \in Configs
  BY <1>0, <1>1 DEF Mapped, Dialling, Ready, PoolInv, TypeOK, CallState, UseInv, MissInv, Getting
<1>5. /\ call'[r].stage = IF call[r].client = None THEN "failed" ELSE "done"
      /\ call'[r].resource = y /\ call'[r].read = call[r].read /\ call'[r].client = call[r].client
      /\ call[r].client = None => call'[r].open = call[r].open
      /\ call[r].client # None => call'[r].open = TRUE
  BY <1>0 DEF Ready, PoolInv, TypeOK, CallState, Dialled, Goto
<1>6. /\ cache'[y] = call[r].client
      /\ \A x \in Resources \ {y} : cache'[x] = cache[x]
  <2>1. cache \in [Resources -> Configs]
    BY DEF Ready, PoolInv, TypeOK
  <2> QED BY <1>0, <1>4, <2>1 DEF Dialled
<1>7. UsedCache' = UsedCache
  <2>1. ~Dialling(y, r)'
    BY <1>5 DEF Dialling
  <2>2. UsedCache' = [UsedCache EXCEPT ![y] = call[r].client]
    BY <1>0, <1>2, <1>3, <1>4, <1>5, <1>6, <2>1, DiallingMaps
  <2> QED BY <1>4, <2>2 DEF Mapped
<1>8. UNCHANGED <<UsedRevisions, UsedMu>>
  BY <1>1, <1>2, <1>5, RevisionsStay, MuStays
<1>9. Coarse(r)' = Coarse(r)
  <2>1. /\ CoarseStage(call'[r]) = CoarseStage(call[r])
        /\ (call'[r].open \/ Opened(r)') = (call[r].open \/ Opened(r))
    BY <1>1, <1>5 DEF CoarseStage, Opened
  <2> QED BY <1>0, <1>5, <2>1, CoarseGoes
<1> QED BY <1>1, <1>2, <1>7, <1>8, <1>9, Unseen

(* A request is over, and a request that is about nothing is NoCall.       *)
LEMMA NothingTells ==
  ASSUME NEW c \in Use!Call, c.stage = "none", c.resource = None, c.read = None,
         c.client = None, c.open = FALSE
  PROVE  c = Use!NoCall
<1> DEFINE d == Use!NoCall
<1>1. /\ d \in Use!Call /\ d.stage = "none" /\ d.resource = None /\ d.read = None
      /\ d.client = None
  BY DEF Use!NoCall, Use!Call, Use!Configs
<1>2. d.open = FALSE
  BY DEF Use!NoCall
<1> HIDE DEF d
<1>3. c = d
  BY <1>1, <1>2, FieldsTell
<1> QED BY <1>3 DEF d

LEMMA FinishUses ==
  ASSUME Ready, Mapped, Mapped', NEW r \in Requests, Finish(r) PROVE Use!Finish(r)
<1>1. /\ UNCHANGED <<config, revisions, cache>> /\ call[r].stage \in {"done", "failed"}
      /\ call'[r] = NoCall /\ seen' = [seen EXCEPT ![r] = {}]
  BY DEF Ready, PoolInv, TypeOK, Finish
<1>2. \A q \in Requests \ {r} : Rests(q)
  BY DEF Ready, PoolInv, TypeOK, CallState, Rests, Stays, Finish
<1>3. UNCHANGED <<UsedRevisions, UsedCache, UsedMu>>
  BY <1>1, <1>2, RevisionsStay, CacheStays, MuStays DEF NoCall, Getting
<1>4. Coarse(r)' = Use!NoCall
  <2> DEFINE c == Coarse(r)'
  <2>1. CoarseStage(call'[r]) = "none" /\ ~Opened(r)'
    BY <1>1 DEF CoarseStage, Opened, NoCall
  <2>2. /\ c \in Use!Call /\ c.stage = "none" /\ c.resource = None /\ c.read = None
        /\ c.client = None
    BY <1>1, <2>1 DEF Coarse, NoCall, Mapped
  <2>3. c.open = FALSE
    <3>1. call'[r].open = FALSE
      BY <1>1 DEF NoCall
    <3>2. c.open = (call'[r].open \/ Opened(r)')
      BY DEF Coarse
    <3> HIDE DEF c
    <3> QED BY <2>1, <3>1, <3>2
  <2> HIDE DEF c
  <2>4. c = Use!NoCall
    BY <2>2, <2>3, NothingTells
  <2> QED BY <2>4 DEF c
<1>5. UsedCall' = [UsedCall EXCEPT ![r] = Use!NoCall]
  BY <1>2, <1>4, CallMaps
<1>6. UsedCall[r].stage \in {"done", "failed"}
  BY <1>1 DEF Mapped, Coarse, CoarseStage
<1> QED BY <1>1, <1>3, <1>5, <1>6 DEF Use!Finish, Use!Answered, Use!Release

(* What moves no request and no client is not seen, whoever holds locks.   *)
LEMMA OutsideMaps ==
  ASSUME Mapped, Mapped', UNCHANGED <<revisions, cache, call>>
  PROVE  UNCHANGED <<UsedRevisions, UsedCache, UsedMu, UsedCall>>
<1>1. ASSUME NEW x \in Resources
      PROVE  UsedRevisions'[x] = UsedRevisions[x] /\ UsedCache'[x] = UsedCache[x]
  BY DEF Mapped, Noting, Dialling
<1>2. UsedMu' = UsedMu
  BY DEF Mapped
<1>3. UsedCall' = UsedCall
  BY DEF Mapped, Coarse, CoarseStage, Opened
<1> QED BY <1>1, <1>2, <1>3 DEF Mapped

(* An edit is one of Use.                                                  *)
LEMMA EditUses == ASSUME Ready, Mapped, Mapped', Edit PROVE Use!Edit
<1>1. UNCHANGED <<UsedRevisions, UsedCache, UsedMu, UsedCall>>
  BY OutsideMaps DEF Edit
<1>2. \A q \in Requests : UsedCall[q].resource = call[q].resource
  BY DEF Mapped, Coarse
<1>3. PICK x \in Resources, rev \in Configs :
        /\ <<config[x], rev>> \in Edits
        /\ config' = [config EXCEPT ![x] = rev]
        /\ seen' = [r \in Requests |->
                     IF call[r].resource = x THEN seen[r] \cup {rev} ELSE seen[r]]
  BY DEF Edit
<1>4. seen' = [r \in Requests |->
                IF UsedCall[r].resource = x THEN seen[r] \cup {rev} ELSE seen[r]]
  BY <1>2, <1>3
<1>5. Use!Configs = Configs
  BY DEF Use!Configs, Configs
<1> QED BY <1>1, <1>3, <1>4, <1>5 DEF Use!Edit, Use!EditConfig

(* Every step is one of Use, or is not seen by it; so is the beginning.    *)
LEMMA UseStep == Ready /\ Mapped /\ Mapped' /\ [Next]_vars => [Use!Next]_(Use!cacheVars)
<1> SUFFICES ASSUME Ready, Mapped, Mapped', [Next]_vars
             PROVE  Use!Next \/ UNCHANGED Use!cacheVars
  BY DEF Use!cacheVars
<1>1. ASSUME NEW r \in Requests, Begin(r) \/ Waits(r) \/ Works(r) \/ SyncTimeout(r)
      PROVE  Use!Next \/ UNCHANGED Use!cacheVars
  <2>1. \/ Use!Begin(r) \/ Use!Ask(r) \/ Use!CacheStep(r) \/ Use!Finish(r)
        \/ UNCHANGED Use!cacheVars
    BY <1>1, BeginUses, AskUses, WaitUses, SyncReadUses, SyncRemoveUses, SyncNoteUses,
       GetCachedUses, GetMissUses, ResolveUses, DialledUses, FinishUses
       DEF Waits, Works, Use!CacheStep, Use!Advance
  <2> QED BY <2>1 DEF Use!Next
<1>2. ASSUME NEW w \in Others,
             \/ Tick(w) \/ TxStart(w) \/ OtherWaits(w) \/ OtherWorks(w)
             \/ ObserveFails(w) \/ TxFails(w)
      PROVE  UNCHANGED Use!cacheVars
  <2>1. KeepRequests
    BY <1>2 DEF Tick, TxStart, OtherWaits, OtherWorks, ObserveFails, TxFails, ObserveLock, QueryTable,
       Report, TxBegin, CloseRows, Reported, Observed, TxStatement
  <2> QED BY <2>1, OutsideMaps DEF KeepRequests, Use!cacheVars
<1>3. CASE Edit
  BY <1>3, EditUses DEF Use!Next
<1>4. CASE UNCHANGED vars
  BY <1>4, OutsideMaps DEF vars, Use!cacheVars
<1> QED BY <1>1, <1>2, <1>3, <1>4 DEF Next

LEMMA UseStart == ASSUME Init, Mapped PROVE Use!Init
<1>1. \A r \in Requests : call[r] = NoCall
  BY DEF Init
<1>2. \A x \in Resources : UsedRevisions[x] = None /\ UsedCache[x] = None
  BY <1>1 DEF Init, Mapped, Noting, Dialling, NoCall
<1>3. UsedMu = None
  BY <1>1 DEF Mapped, NoCall
<1>4. ASSUME NEW r \in Requests PROVE Coarse(r) = Use!NoCall
  <2> DEFINE c == Coarse(r)
  <2>1. CoarseStage(call[r]) = "none" /\ ~Opened(r)
    BY <1>1 DEF CoarseStage, Opened, NoCall
  <2>2. /\ c \in Use!Call /\ c.stage = "none" /\ c.resource = None /\ c.read = None
        /\ c.client = None
    BY <1>1, <2>1 DEF Coarse, NoCall, Mapped
  <2>3. c.open = FALSE
    <3>1. call[r].open = FALSE
      BY <1>1 DEF NoCall
    <3>2. c.open = (call[r].open \/ Opened(r))
      BY DEF Coarse
    <3> HIDE DEF c
    <3> QED BY <2>1, <3>1, <3>2
  <2> HIDE DEF c
  <2>4. c = Use!NoCall
    BY <2>2, <2>3, NothingTells
  <2> QED BY <2>4 DEF c
<1>5. UsedCall = [r \in Requests |-> Use!NoCall]
  BY <1>4 DEF Mapped
<1>6. UsedRevisions = [x \in Resources |-> None] /\ UsedCache = [x \in Resources |-> None]
  BY <1>2 DEF Mapped
<1>7. Use!Configs = Configs
  BY DEF Use!Configs, Configs
<1> QED BY <1>3, <1>5, <1>6, <1>7 DEF Init, Use!Init, Use!CacheInit

(* Lock by lock, and with everyone else running in between, a request gets *)
(* its client as in ClientUse, in which syncResource is two steps and the  *)
(* Get of a Manager is one, or two when it closes an idle client first:    *)
(* for every number of requests and resources, whatever fails and whatever *)
(* is edited.                                                              *)
THEOREM UsesClientsThm == Spec => UsesClients
<1>1. Init => Ready
  BY InitInv, InitHeld, InitUse DEF Ready
<1>2. Ready /\ [Next]_vars => Ready'
  BY StepInv, StepHeld, StepUse DEF Ready
<1>3. Init /\ Mapped => Use!Init
  BY UseStart
<1> QED BY <1>1, <1>2, <1>3, ReadyMaps, UseStep, PTL DEF Spec, UsesClients, Use!Spec
=============================================================================
