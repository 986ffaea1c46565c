----------------------------- MODULE ClientCache -----------------------------
(***************************************************************************)
(* How a request gets the client of a resource: Service.Database,          *)
(* LinuxClient and KubernetesClient (service.go) first call syncResource   *)
(* (resources.go), which compares the stored configuration with the        *)
(* revision seen last and drops the cached client when they differ, and    *)
(* then ask the Manager, which returns the cached client or opens one.     *)
(* resourceMu covers syncResource only; the Manager has a mutex of its     *)
(* own, so other requests and outside edits of the resource tables run     *)
(* between the two.                                                        *)
(*                                                                         *)
(* A configuration is identified with its Revision(), a hash of all its    *)
(* fields.  call[r].open says that the client r holds is still usable:     *)
(* closing it (Manager.Remove) does not take it away from its holder.      *)
(***************************************************************************)
CONSTANTS
  Requests,   \* the concurrent requests (HTTP or MCP handlers)
  Resources,  \* configured resource names
  Revisions,  \* the configurations a resource can have
  None,       \* no row, no revision, no client, no lock holder
  Faults,     \* which failures happen: "crash", "store", "remote", "idle"
  Edits       \* the <<from, to>> pairs of outside edits of a configuration

ASSUME NoneIsFresh == None \notin Revisions \cup Requests \cup Resources
ASSUME EditsTyped == Edits \subseteq (Revisions \cup {None}) \X (Revisions \cup {None})

VARIABLES
  config,      \* resource tables: the current revision of each resource
  revisions,   \* Service.revisions: the revision syncResource saw last
  cache,       \* the Managers' maps: the revision the cached client has
  resourceMu,  \* the request that holds Service.resourceMu, or None
  call,        \* what each request's client call is doing
  seen         \* history: configurations its resource had since r began

cacheVars == <<config, revisions, cache, resourceMu, call, seen>>

Configs == Revisions \cup {None}
NoCall  == [stage |-> "none", resource |-> None, read |-> None,
            client |-> None, open |-> FALSE]

(* A request is about one resource: it is on call[r] from the beginning.   *)
For(x, stage) == [NoCall EXCEPT !.resource = x, !.stage = stage]
Call == [stage : {"none", "sync", "apply", "fetch", "done", "failed"},
         resource : Resources \cup {None}, read : Configs,
         client : Configs, open : BOOLEAN]

CacheTypeOK ==
  /\ config \in [Resources -> Configs]
  /\ revisions \in [Resources -> Configs]
  /\ cache \in [Resources -> Configs]
  /\ resourceMu \in Requests \cup {None}
  /\ call \in [Requests -> Call]
  /\ seen \in [Requests -> SUBSET Configs]

CacheInit ==
  /\ config \in [Resources -> Configs]
  /\ revisions = [x \in Resources |-> None]
  /\ cache = [x \in Resources |-> None]
  /\ resourceMu = None
  /\ call = [r \in Requests |-> NoCall]
  /\ seen = [r \in Requests |-> {}]

-----------------------------------------------------------------------------
(* A request about x begins, asking for the client at once (stage "sync")  *)
(* or later ("none"), and ends.                                            *)
Open(r, x, stage) == /\ call' = [call EXCEPT ![r] = For(x, stage)]
                     /\ seen' = [seen EXCEPT ![r] = {config[x]}]
                     /\ UNCHANGED <<config, revisions, cache, resourceMu>>
Release(r) == /\ call' = [call EXCEPT ![r] = NoCall]
              /\ seen' = [seen EXCEPT ![r] = {}]
              /\ UNCHANGED <<config, revisions, cache, resourceMu>>

(* A request asks for the client: Service.Database and its siblings.       *)
StartCall(r) == /\ call' = [call EXCEPT ![r].stage = "sync"]
                /\ UNCHANGED <<config, revisions, cache, resourceMu, seen>>
Answered(r) == call[r].stage \in {"done", "failed"}

(* The calls once the cached client of x is closed: whoever holds it, holds *)
(* a closed client.                                                        *)
Closing(x) == [q \in Requests |->
  IF call[q].resource = x THEN [call[q] EXCEPT !.open = FALSE] ELSE call[q]]

Lock(r) == resourceMu = None /\ resourceMu' = r

(* A bug: the error return does not unlock.                               *)
UnlockUnlessError(r) == resourceMu' = IF call[r].read = None THEN r ELSE None

Unlock(r) == resourceMu' = None

(* syncResource takes resourceMu and reads the configuration; the read     *)
(* fails when the row is missing or the store does not answer in 5 s.      *)
SyncRead(r) ==
  /\ call[r].stage = "sync"
  /\ Lock(r)
  /\ \E got \in {config[call[r].resource]}
               \cup (IF "store" \in Faults THEN {None} ELSE {}) :
       call' = [call EXCEPT ![r].stage = "apply", ![r].read = got]
  /\ UNCHANGED <<config, revisions, cache, seen>>

MustRemove(x, read) == \/ read = None
                       \/ revisions[x] # None /\ revisions[x] # read

(* The rest of syncResource: Manager.Remove when needed, the revision map, *)
(* the unlock.                                                             *)
SyncApply(r) ==
  LET x    == call[r].resource
      read == call[r].read
      left == IF MustRemove(x, read) THEN Closing(x) ELSE call
  IN
  /\ call[r].stage = "apply"
  /\ cache' = IF MustRemove(x, read) THEN [cache EXCEPT ![x] = None] ELSE cache
  /\ revisions' = [revisions EXCEPT ![x] = read]
  /\ call' = [left EXCEPT ![r].stage = IF read = None THEN "failed" ELSE "fetch"]
  /\ Unlock(r)
  /\ UNCHANGED <<config, seen>>

Obtain(r, rev) ==
  call' = [call EXCEPT ![r].stage = "done", ![r].client = rev, ![r].open = TRUE]

(* Manager.Get: a cached client that is not idle is returned.              *)
FetchCached(r) ==
  LET x == call[r].resource IN
  /\ call[r].stage = "fetch"
  /\ cache[x] # None
  /\ Obtain(r, cache[x])
  /\ UNCHANGED <<config, revisions, cache, resourceMu, seen>>

(* Ten minutes after the last Get of a client, whether a call still holds  *)
(* it or not.                                                              *)
Idle(x) == "idle" \in Faults /\ cache[x] # None

(* Manager.Get closes an idle client, also under those who hold it, before *)
(* it opens another.                                                       *)
CloseIdle(r) ==
  LET x == call[r].resource IN
  /\ call[r].stage = "fetch"
  /\ Idle(x)
  /\ cache' = [cache EXCEPT ![x] = None]
  /\ call' = Closing(x)
  /\ UNCHANGED <<config, revisions, resourceMu, seen>>

(* Manager.Get otherwise: the resolver reads the configuration and opens a *)
(* client, or fails (no row, or the remote end cannot be reached).         *)
FetchNew(r) ==
  LET x == call[r].resource IN
  /\ call[r].stage = "fetch"
  /\ cache[x] = None
  /\ config[x] # None
  /\ cache' = [cache EXCEPT ![x] = config[x]]
  /\ Obtain(r, config[x])
  /\ UNCHANGED <<config, revisions, resourceMu, seen>>

FetchFails(r) ==
  LET x == call[r].resource IN
  /\ call[r].stage = "fetch"
  /\ cache[x] = None
  /\ config[x] = None \/ Faults \cap {"remote", "store"} # {}
  /\ call' = [call EXCEPT ![r].stage = "failed"]
  /\ UNCHANGED <<config, revisions, cache, resourceMu, seen>>

(* The steps that bring a request nearer to its client, and all of them.   *)
Advance(r)   == SyncRead(r) \/ SyncApply(r) \/ FetchCached(r) \/ FetchNew(r) \/ FetchFails(r)
CacheStep(r) == Advance(r) \/ CloseIdle(r)

(* An edit of a resource table from outside the gateway (there is no write *)
(* API): an insert, an update or a delete of the row.                      *)
EditConfig(x, rev) ==
  /\ <<config[x], rev>> \in Edits
  /\ config' = [config EXCEPT ![x] = rev]
  /\ seen' = [r \in Requests |->
               IF call[r].resource = x THEN seen[r] \cup {rev} ELSE seen[r]]
  /\ UNCHANGED <<revisions, cache, resourceMu, call>>

(* The process stops and starts again: everything but the tables is lost.  *)
LoseMemory ==
  /\ revisions' = [x \in Resources |-> None]
  /\ cache' = [x \in Resources |-> None]
  /\ resourceMu' = None
  /\ call' = [r \in Requests |-> NoCall]
  /\ seen' = [r \in Requests |-> {}]
  /\ UNCHANGED config
=============================================================================
