------------------------------ MODULE ClientUse ------------------------------
(***************************************************************************)
(* The client cache on its own: requests that do nothing but get a client  *)
(* (the read-only tools of internal/server and QuerySQL are such requests), *)
(* hold it while they use it, and let it go.                               *)
(***************************************************************************)
EXTENDS ClientCache

Init == CacheInit

Begin(r) == /\ call[r].resource = None
            /\ \E x \in Resources : Open(r, x, "none")
Ask(r)   == /\ call[r].resource # None /\ call[r].stage = "none"
            /\ StartCall(r)
Finish(r) == Answered(r) /\ Release(r)
Edit == \E x \in Resources, rev \in Configs : EditConfig(x, rev)
Restart == "crash" \in Faults /\ LoseMemory

Next == \/ \E r \in Requests : Begin(r) \/ Ask(r) \/ CacheStep(r) \/ Finish(r)
        \/ Edit
        \/ Restart

Spec == Init /\ [][Next]_cacheVars

-----------------------------------------------------------------------------
(* The comment on syncResource (resources.go:28) and .specs/config.md:27:  *)
(* every use checks the latest configuration first, so the client a        *)
(* request gets was opened from a configuration that was current at some   *)
(* moment since the request began.                                         *)
FreshClient == \A r \in Requests :
  call[r].stage = "done" => call[r].client \in seen[r]

(* No connection leaks: a client that is still open is the one in the      *)
(* Manager's map, where Remove and the shutdown will find it.              *)
NoLeakedClient == \A r \in Requests :
  call[r].open => cache[call[r].resource] = call[r].client

(* resourceMu is held by a request that is inside syncResource, and only   *)
(* while it is: no path leaves it locked.                                  *)
MutexHeldInside == \A r \in Requests :
  call[r].stage = "apply" <=> resourceMu = r
=============================================================================
