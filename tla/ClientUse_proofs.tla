--------------------------- MODULE ClientUse_proofs ---------------------------
(***************************************************************************)
(* The safety of the client cache, for every number of requests and        *)
(* resources and for every behaviour of the editors and of the store.      *)
(***************************************************************************)
EXTENDS ClientUse, ClientCache_proofs

(* Every step of requests that only use clients preserves CacheInv.        *)
LEMMA UseStepInv == CacheInv /\ [Next]_cacheVars => CacheInv'
<1> SUFFICES ASSUME CacheInv, [Next]_cacheVars PROVE CacheInv'
  OBVIOUS
<1>1. CASE \E r \in Requests : Begin(r)
  <2>1. PICK r \in Requests : Begin(r)
    BY <1>1
  <2>2. call[r].stage # "apply"
    BY <2>1, NoneIsFresh DEF Begin, CacheInv, CallsWellFormed
  <2> QED BY <2>1, <2>2, CallStepsInv DEF Begin
<1>2. CASE \E r \in Requests : Ask(r)
  <2>1. PICK r \in Requests : Ask(r)
    BY <1>2
  <2>2. call[r].resource \in Resources
    BY <2>1 DEF Ask, CacheInv, CacheTypeOK, Call
  <2> QED BY <2>1, <2>2, CallStepsInv DEF Ask
<1>3. CASE \E r \in Requests : CacheStep(r)
  BY <1>3, CacheStepInv
<1>4. CASE \E r \in Requests : Finish(r)
  BY <1>4, CallStepsInv DEF Finish, Answered
<1>5. CASE Edit \/ Restart
  BY <1>5, OutsideInv DEF Edit, Restart
<1>6. CASE UNCHANGED cacheVars
  BY <1>6, CacheStutter
<1> QED BY <1>1, <1>2, <1>3, <1>4, <1>5, <1>6 DEF Next

(* The cache never leaks a client and never leaves resourceMu locked, for  *)
(* every number of requests, resources, configurations, edits and faults.  *)
THEOREM ClientUseSafety == Spec => [](CacheTypeOK /\ NoLeakedClient /\ MutexHeldInside)
<1>1. Init => CacheInv
  BY CacheInitInv DEF Init
<1>2. CacheInv => CacheTypeOK /\ NoLeakedClient /\ MutexHeldInside
  BY DEF CacheInv, OpenIsCached, MutexInv, NoLeakedClient, MutexHeldInside
<1> QED BY <1>1, <1>2, UseStepInv, PTL DEF Spec
=============================================================================
