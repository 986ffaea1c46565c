------------------------------ MODULE StorePool ------------------------------
(***************************************************************************)
(* What waits for what.  All stores share a pool of one SQLite connection  *)
(* (storage.go:24); Service.resourceMu covers syncResource, each Manager   *)
(* has a mutex it holds while its resolver reads the configuration and     *)
(* dials, Store.mu covers Observe, and a transaction keeps the connection  *)
(* over several statements.                                                *)
(*                                                                         *)
(* A request gets clients exactly as in ClientUse, in which syncResource   *)
(* and Manager.Get are one or two steps: here they take their locks and    *)
(* the connection one by one, everyone else runs in between, and the       *)
(* module shows that the coarse steps are what is left of the fine ones.   *)
(***************************************************************************)
EXTENDS Naturals, FiniteSets

CONSTANTS
  Requests,      \* goroutines that ask for clients
  Resources,     \* configured resource names
  Revisions,     \* the configurations a resource can have
  None,          \* no row, no client, no owner, nothing wanted
  Faults,        \* "store", "remote", "idle"
  Edits,         \* the <<from, to>> pairs of outside edits
  Kinds,         \* the managers: database, linux, kubernetes
  KindOf,        \* the manager of a resource
  Others,        \* goroutines that observe the tables or run a transaction
  Tables,        \* resource tables Observe reads
  MaxStatements, \* statements of a transaction
  MaxChanges     \* changes one Observe reports

Mutexes == {"resourceMu", "storeMu"}
Locks   == Mutexes \cup Kinds \cup {"conn"}
Actors  == Requests \cup Others

ASSUME PoolTyped ==
  /\ KindOf \in [Resources -> Kinds]
  /\ Kinds \cap (Mutexes \cup {"conn"}) = {}
  /\ None \notin Actors \cup Locks \cup Revisions \cup Resources
  /\ Requests \cap Others = {}
  /\ {Tables, MaxStatements} \subseteq Nat \ {0} /\ MaxChanges \in Nat

VARIABLES
  config, seen,  \* as in ClientCache
  revisions, cache,
  owner,         \* who holds each lock, or None
  call,          \* what each request is doing
  job,           \* what each of the others is doing
  unread         \* history: resources a syncResource could not read

vars == <<config, seen, revisions, cache, owner, call, job, unread>>

Configs == Revisions \cup {None}

Stages == {"none", "sync", "read", "reading", "apply", "noted", "fetch", "resolve",
           "resolving", "dial", "done", "failed"}

NoCall == [stage |-> "none", resource |-> None, read |-> None, client |-> None,
           open |-> FALSE]
CallState == [stage : Stages, resource : Resources \cup {None}, read : Configs,
              client : Configs, open : BOOLEAN]

JobSteps == {"idle", "lock", "query", "rows", "report", "insert", "begin", "tx"}
NoJob == [at |-> "idle", left |-> 0]

TypeOK ==
  /\ config \in [Resources -> Configs] /\ seen \in [Requests -> SUBSET Configs]
  /\ revisions \in [Resources -> Configs] /\ cache \in [Resources -> Configs]
  /\ owner \in [Locks -> Actors \cup {None}]
  /\ call \in [Requests -> CallState]
  /\ job \in [Others -> [at : JobSteps, left : Nat]]
  /\ unread \subseteq Resources

Init ==
  /\ config \in [Resources -> Configs]
  /\ seen = [r \in Requests |-> {}]
  /\ revisions = [x \in Resources |-> None]
  /\ cache = [x \in Resources |-> None]
  /\ owner = [l \in Locks |-> None]
  /\ call = [r \in Requests |-> NoCall]
  /\ job = [w \in Others |-> NoJob]
  /\ unread = {}

-----------------------------------------------------------------------------
Take(l, w) == owner[l] = None /\ owner' = [owner EXCEPT ![l] = w]
Drop(S)    == owner' = [l \in Locks |-> IF l \in S THEN None ELSE owner[l]]

Manager(r) == KindOf[call[r].resource]
Goto(r, stage) == call' = [call EXCEPT ![r].stage = stage]

(* A request about x: Begin, the question for its client, and its end.     *)
Begin(r) ==
  /\ call[r].resource = None
  /\ \E x \in Resources :
       /\ call' = [call EXCEPT ![r].resource = x]
       /\ seen' = [seen EXCEPT ![r] = {config[x]}]
  /\ UNCHANGED <<config, revisions, cache, owner, job, unread>>

Ask(r) ==
  /\ call[r].resource # None /\ call[r].stage = "none"
  /\ Goto(r, "sync")
  /\ UNCHANGED <<config, seen, revisions, cache, owner, job, unread>>

Finish(r) ==
  /\ call[r].stage \in {"done", "failed"}
  /\ call' = [call EXCEPT ![r] = NoCall]
  /\ seen' = [seen EXCEPT ![r] = {}]
  /\ UNCHANGED <<config, revisions, cache, owner, job, unread>>

-----------------------------------------------------------------------------
(* syncResource: the mutex, the connection, the row.                       *)
SyncLock(r) ==
  /\ call[r].stage = "sync"
  /\ Take("resourceMu", r) /\ Goto(r, "read")
  /\ UNCHANGED <<config, seen, revisions, cache, job, unread>>

SyncConnect(r) ==
  /\ call[r].stage = "read"
  /\ Take("conn", r) /\ Goto(r, "reading")
  /\ UNCHANGED <<config, seen, revisions, cache, job, unread>>

HaveRead(r, rev) == call' = [call EXCEPT ![r].stage = "apply", ![r].read = rev]
NotRead(r) == HaveRead(r, None) /\ unread' = unread \cup {call[r].resource}

SyncRead(r) ==
  /\ call[r].stage = "reading"
  /\ Drop({"conn"})
  /\ \/ HaveRead(r, config[call[r].resource]) /\ UNCHANGED unread
     \/ "store" \in Faults /\ NotRead(r)
  /\ UNCHANGED <<config, seen, revisions, cache, job>>

(* Its five seconds began before the mutex was taken; an error of any kind *)
(* counts as a missing row.                                                *)
SyncTimeout(r) ==
  /\ "store" \in Faults /\ call[r].stage = "read"
  /\ NotRead(r)
  /\ UNCHANGED <<config, seen, revisions, cache, owner, job>>

(* A bug: a changed configuration is not noticed, a missing one is.        *)
MustRemoveMissing(r) == call[r].read = None

MustRemove(r) ==
  \/ call[r].read = None
  \/ revisions[call[r].resource] \notin {None, call[r].read}

(* r, which goes on, closes the client of its resource: whoever holds it   *)
(* holds a closed one.                                                     *)
CloseClient(r, stage) ==
  LET x == call[r].resource IN
  /\ cache' = [cache EXCEPT ![x] = None]
  /\ call' = [q \in Requests |->
       [call[q] EXCEPT !.open = @ /\ call[q].resource # x,
                       !.stage = IF q = r THEN stage ELSE @]]

(* Manager.Remove under resourceMu: the manager's mutex is taken and given *)
(* back.                                                                   *)
SyncRemove(r) ==
  /\ call[r].stage = "apply" /\ MustRemove(r)
  /\ owner[Manager(r)] = None
  /\ CloseClient(r, "noted")
  /\ UNCHANGED <<config, seen, revisions, owner, job, unread>>

(* Nothing had to be removed, or it has been.                              *)
Settled(r) == \/ call[r].stage = "noted"
              \/ call[r].stage = "apply" /\ ~MustRemove(r)

(* A bug: an early return leaves resourceMu locked.                        *)
SyncNoteForgetting(r) ==
  /\ Settled(r)
  /\ revisions' = [revisions EXCEPT ![call[r].resource] = call[r].read]
  /\ Goto(r, IF call[r].read = None THEN "failed" ELSE "fetch")
  /\ Drop(IF call[r].read = None THEN {} ELSE {"resourceMu"})
  /\ UNCHANGED <<config, seen, cache, job, unread>>

SyncNote(r) ==
  /\ Settled(r)
  /\ revisions' = [revisions EXCEPT ![call[r].resource] = call[r].read]
  /\ Goto(r, IF call[r].read = None THEN "failed" ELSE "fetch")
  /\ Drop({"resourceMu"})
  /\ UNCHANGED <<config, seen, cache, job, unread>>

-----------------------------------------------------------------------------
(* Manager.Get: a cached client that is not idle is returned at once.      *)
GetCached(r) ==
  LET x == call[r].resource IN
  /\ call[r].stage = "fetch"
  /\ owner[Manager(r)] = None /\ cache[x] # None
  /\ call' = [call EXCEPT ![r].stage = "done", ![r].client = cache[x], ![r].open = TRUE]
  /\ UNCHANGED <<config, seen, revisions, cache, owner, job, unread>>

Idle(x) == "idle" \in Faults /\ cache[x] # None

(* Otherwise the mutex is kept, and an idle client closed and forgotten.   *)
GetMiss(r) ==
  LET x == call[r].resource IN
  /\ call[r].stage = "fetch"
  /\ cache[x] = None \/ Idle(x)
  /\ Take(Manager(r), r)
  /\ CloseClient(r, "resolve")
  /\ UNCHANGED <<config, seen, revisions, job, unread>>

(* The resolver reads the configuration, with no time limit (main.go:98).  *)
ResolveConnect(r) ==
  /\ call[r].stage = "resolve"
  /\ Take("conn", r) /\ Goto(r, "resolving")
  /\ UNCHANGED <<config, seen, revisions, cache, job, unread>>

(* The row, if there is one.  Whether the remote end can be reached with   *)
(* it is settled here: nobody sees it before Get lets go of the mutex.     *)
Reachable(rev) == {rev} \cup (IF Faults \cap {"remote", "store"} # {} THEN {None} ELSE {})

(* A bug: the mutex is given back while the client is being opened.        *)
ResolveUnlocked(r) ==
  /\ call[r].stage = "resolving"
  /\ Drop({"conn", Manager(r)})
  /\ \E rev \in Reachable(config[call[r].resource]) :
       call' = [call EXCEPT ![r].stage = "dial", ![r].client = rev]
  /\ UNCHANGED <<config, seen, revisions, cache, job, unread>>

Resolve(r) ==
  /\ call[r].stage = "resolving"
  /\ Drop({"conn"})
  /\ \E rev \in Reachable(config[call[r].resource]) :
       call' = [call EXCEPT ![r].stage = "dial", ![r].client = rev]
  /\ UNCHANGED <<config, seen, revisions, cache, job, unread>>

(* sql.Open, FromKubeconfig, or dial and handshake within ten seconds; the *)
(* client goes into the map and the mutex is given back.                   *)
Dialled(r) ==
  /\ call[r].stage = "dial"
  /\ Drop({Manager(r)})
  /\ IF call[r].client = None
       THEN Goto(r, "failed") /\ UNCHANGED cache
       ELSE /\ call' = [call EXCEPT ![r].stage = "done", ![r].open = TRUE]
            /\ cache' = [cache EXCEPT ![call[r].resource] = call[r].client]
  /\ UNCHANGED <<config, seen, revisions, job, unread>>

-----------------------------------------------------------------------------
(* Store.Observe (store.go:196): under Store.mu it reads one table after   *)
(* another, closes the rows of each, and reports every change with an      *)
(* INSERT of the audit store.                                              *)
Move(w, at, left) == job' = [job EXCEPT ![w] = [at |-> at, left |-> left]]
On(w, at) == job[w].at = at
KeepRequests == UNCHANGED <<config, seen, revisions, cache, call, unread>>

Tick(w) ==
  /\ On(w, "idle")
  /\ Move(w, "lock", 0)
  /\ UNCHANGED owner /\ KeepRequests

ObserveLock(w) ==
  /\ On(w, "lock")
  /\ Take("storeMu", w) /\ Move(w, "query", Tables)
  /\ KeepRequests

QueryTable(w) ==
  /\ On(w, "query")
  /\ Take("conn", w) /\ Move(w, "rows", job[w].left - 1)
  /\ KeepRequests

(* A bug: the rows of a table are closed by a defer, after the reports.    *)
CloseRowsLate(w) ==
  /\ On(w, "rows")
  /\ IF job[w].left > 0
       THEN Drop({"conn"}) /\ Move(w, "query", job[w].left)
       ELSE UNCHANGED owner /\ \E n \in 0..MaxChanges : Move(w, "report", n)
  /\ KeepRequests

CloseRows(w) ==
  /\ On(w, "rows")
  /\ Drop({"conn"})
  /\ IF job[w].left > 0
       THEN Move(w, "query", job[w].left)
       ELSE \E n \in 0..MaxChanges : Move(w, "report", n)
  /\ KeepRequests

Report(w) ==
  /\ On(w, "report") /\ job[w].left > 0
  /\ Take("conn", w) /\ Move(w, "insert", job[w].left - 1)
  /\ KeepRequests

Reported(w) ==
  /\ On(w, "insert")
  /\ Drop({"conn"}) /\ Move(w, "report", job[w].left)
  /\ KeepRequests

Observed(w) ==
  /\ On(w, "report") /\ job[w].left = 0
  /\ Drop({"storeMu"}) /\ Move(w, "idle", 0)
  /\ KeepRequests

(* A statement fails, or a report is not given the connection within its   *)
(* five seconds: Observe returns the error.                                *)
ObserveFails(w) ==
  /\ "store" \in Faults /\ job[w].at \in {"rows", "report", "insert"}
  /\ On(w, "report") => job[w].left > 0
  /\ Drop(IF On(w, "report") THEN {"storeMu"} ELSE {"storeMu", "conn"})
  /\ Move(w, "idle", 0)
  /\ KeepRequests

-----------------------------------------------------------------------------
(* BeginTxx, the statements of the transaction through it, and Commit or   *)
(* the deferred Rollback (audit.go:119 and 172, query.go, store.go:180).   *)
(* A single statement is a transaction of one.                             *)
TxStart(w) ==
  /\ On(w, "idle")
  /\ \E n \in 1..MaxStatements : Move(w, "begin", n)
  /\ UNCHANGED owner /\ KeepRequests

TxBegin(w) ==
  /\ On(w, "begin")
  /\ Take("conn", w) /\ Move(w, "tx", job[w].left)
  /\ KeepRequests

TxStatement(w) ==
  /\ On(w, "tx")
  /\ IF job[w].left > 1 THEN Move(w, "tx", job[w].left - 1) /\ UNCHANGED owner
                        ELSE Move(w, "idle", 0) /\ Drop({"conn"})
  /\ KeepRequests

(* A failing statement, or a caller that left while the transaction waited *)
(* for the connection.                                                     *)
TxFails(w) ==
  /\ "store" \in Faults /\ job[w].at \in {"begin", "tx"}
  /\ Move(w, "idle", 0)
  /\ IF On(w, "tx") THEN Drop({"conn"}) ELSE UNCHANGED owner
  /\ KeepRequests

-----------------------------------------------------------------------------
Edit == \E x \in Resources, rev \in Configs :
  /\ <<config[x], rev>> \in Edits
  /\ config' = [config EXCEPT ![x] = rev]
  /\ seen' = [r \in Requests |->
               IF call[r].resource = x THEN seen[r] \cup {rev} ELSE seen[r]]
  /\ UNCHANGED <<revisions, cache, owner, call, job, unread>>

Waits(r) == \/ SyncLock(r) \/ SyncConnect(r) \/ SyncRemove(r)
            \/ GetCached(r) \/ GetMiss(r) \/ ResolveConnect(r)
Works(r) == Ask(r) \/ SyncRead(r) \/ SyncNote(r) \/ Resolve(r) \/ Dialled(r) \/ Finish(r)

OtherWaits(w) == ObserveLock(w) \/ QueryTable(w) \/ Report(w) \/ TxBegin(w)
OtherWorks(w) == CloseRows(w) \/ Reported(w) \/ Observed(w) \/ TxStatement(w)

Next ==
  \/ \E r \in Requests : Begin(r) \/ Waits(r) \/ Works(r) \/ SyncTimeout(r)
  \/ \E w \in Others : \/ Tick(w) \/ TxStart(w) \/ OtherWaits(w) \/ OtherWorks(w)
                        \/ ObserveFails(w) \/ TxFails(w)
  \/ Edit

(* Whoever holds what it needs goes on: statements end, and a dial has its *)
(* ten seconds.  sync.Mutex hands over to a waiter after 1 ms, and the     *)
(* pool gives a returned connection to a goroutine that waits for it:      *)
(* strong fairness for those who wait.  No time-out is ever relied upon.   *)
Fairness ==
  /\ \A r \in Requests : WF_vars(Works(r)) /\ SF_vars(Waits(r))
  /\ \A w \in Others : WF_vars(OtherWorks(w)) /\ SF_vars(OtherWaits(w))

Spec == Init /\ [][Next]_vars
FairSpec == Spec /\ Fairness

-----------------------------------------------------------------------------
(* The lock a goroutine cannot go on without, if any.                      *)
Wanted(w) ==
  IF w \in Requests
    THEN CASE call[w].stage = "sync"                      -> "resourceMu"
           [] call[w].stage \in {"read", "resolve"}       -> "conn"
           [] call[w].stage = "fetch"                     -> Manager(w)
           [] call[w].stage = "apply" /\ MustRemove(w)    -> Manager(w)
           [] OTHER                                       -> None
    ELSE CASE job[w].at = "lock"                          -> "storeMu"
           [] job[w].at \in {"query", "begin"}            -> "conn"
           [] job[w].at = "report" /\ job[w].left > 0     -> "conn"
           [] OTHER                                       -> None

(* resourceMu and Store.mu come first, then a manager, the connection last *)
Rank(l) == CASE l \in Mutexes -> 1 [] l \in Kinds -> 2 [] OTHER -> 3

(* "Do not re-enter the pool through another Store while a transaction is  *)
(* held, and close query results before the audit callback"                *)
(* (.specs/config.md:15), and the same for the mutexes: whoever waits for  *)
(* a lock holds only locks that come before it.  So there is no circle of  *)
(* goroutines each waiting for the next, and nobody waits for itself.      *)
LockOrder == \A w \in Actors, l \in Locks :
  owner[l] = w /\ Wanted(w) # None => Rank(l) < Rank(Wanted(w))

(* Nobody waits for ever for a mutex or for the connection, although no    *)
(* time-out is needed for it: every wait ends.                             *)
WaitsEnd == \A w \in Actors : (Wanted(w) # None) ~> (Wanted(w) = None)

(* Split into its single locks, the way a request gets a client is still   *)
(* the one of ClientUse: Manager.Get closes an idle client when it takes   *)
(* its mutex and counts as done when its resolver has the row,             *)
(* syncResource when the client is removed or the revision noted.          *)
CoarseStage(c) ==
  CASE c.stage \in {"read", "reading"}      -> "sync"
    [] c.stage \in {"resolve", "resolving"} -> "fetch"
    [] c.stage = "noted"  -> IF c.read = None THEN "failed" ELSE "fetch"
    [] c.stage = "dial"   -> IF c.client = None THEN "failed" ELSE "done"
    [] OTHER              -> c.stage

(* Who is between Manager.Remove and the note of the revision, and who is  *)
(* opening the client of x: they hold resourceMu and the manager's mutex.  *)
Noting(x, r)   == r \in Requests /\ call[r].resource = x /\ call[r].stage = "noted"
Dialling(x, r) == r \in Requests /\ call[r].resource = x /\ call[r].stage = "dial"
Opened(r)      == call[r].stage = "dial" /\ call[r].client # None

UsedRevisions == [x \in Resources |->
  LET r == owner["resourceMu"] IN IF Noting(x, r) THEN call[r].read ELSE revisions[x]]
UsedCache == [x \in Resources |->
  LET r == owner[KindOf[x]] IN
  IF Dialling(x, r) THEN call[r].client ELSE cache[x]]
UsedMu == LET r == owner["resourceMu"] IN
          IF r \in Requests /\ call[r].stage = "apply" THEN r ELSE None
UsedCall == [r \in Requests |->
  [stage |-> CoarseStage(call[r]), resource |-> call[r].resource, read |-> call[r].read,
   client |-> call[r].client, open |-> call[r].open \/ Opened(r)]]

Use == INSTANCE ClientUse WITH revisions <- UsedRevisions, cache <- UsedCache,
                               resourceMu <- UsedMu, call <- UsedCall

UsesClients == Use!Spec

(* The comment on syncResource (resources.go:28) and .specs/config.md:27:  *)
(* the client a request is given was opened from a configuration that was  *)
(* current at some moment since the request began, however long it waited  *)
(* for locks in between.  Not so once a syncResource could not read the    *)
(* row: it forgets the revision while another request, past its own        *)
(* syncResource, may be about to open and cache a client.                  *)
FreshClient == \A r \in Requests :
  call[r].stage = "done" /\ call[r].resource \notin unread
    => call[r].client \in seen[r]
=============================================================================
