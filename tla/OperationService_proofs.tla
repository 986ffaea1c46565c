------------------------ MODULE OperationService_proofs ------------------------
(***************************************************************************)
(* Type correctness of OperationService, that an operation runs at most    *)
(* once and only on the record, what its row says and what a confirmation  *)
(* goes through, and that the service implements OperationLifecycle: for   *)
(* any number of requests, resources, configurations and operations, under *)
(* any faults and edits.                                                   *)
(*                                                                         *)
(* The argument: confirmed_by names one request per operation, and only    *)
(* the request it names is past the claim (ClaimInv).  Before the claim    *)
(* the row is "pending", and a row that left "pending" never returns to it.*)
(***************************************************************************)
EXTENDS OperationSafety, ClientCache_proofs

(* What the program counter of a request says about the rest of it.        *)
RequestsWellFormed == \A r \in Requests :
  /\ req[r].pc # "idle" => req[r].id \in Ids /\ call[r].resource \in Resources
  /\ req[r].pc \in {"evaluate", "metadata", "freeze", "record"} =>
       req[r].command \in Commands
  /\ req[r].pc = "record" => call[r].stage = "done"
  /\ req[r].pc = "complete" => req[r].outcome \in {"succeeded", "failed"}

(* Where a request has no client call under way.                           *)
CallsSettled == \A r \in Requests :
  /\ req[r].pc \in {"idle", "metadata", "status", "row", "expire", "check"} =>
       call[r].stage = "none"
  /\ req[r].pc = "claim" /\ ~OfDatabase(r) => call[r].stage = "none"
  /\ req[r].pc = "complete" => call[r].stage \in {"done", "failed"}

Submitted == {"pending", "evaluated"}

(* A request past the claim is the one confirmed_by names; it has not run  *)
(* the operation before "run", and has when it reports success.            *)
OwnerInv == \A r \in Requests :
  /\ req[r].pc \in {"run", "complete"} =>
       /\ Exists(req[r].id)
       /\ operations[req[r].id].confirmedBy = r
       /\ operations[req[r].id].status \notin Submitted
  /\ req[r].pc = "run" => runs[req[r].id] = 0
  /\ req[r].pc = "complete" /\ req[r].outcome = "succeeded" => runs[req[r].id] = 1

RowInv == \A id \in Ids :
  /\ runs[id] \in {0, 1}
  /\ runs[id] > 0 => /\ Exists(id)
                     /\ operations[id].status \notin Submitted
                     /\ operations[id].confirmedBy # Nobody
  /\ Exists(id) /\ operations[id].status = "succeeded" => runs[id] = 1
  /\ Exists(id) =>
       (operations[id].status \in Submitted => operations[id].confirmedBy = Nobody)

ClaimInv == OwnerInv /\ RowInv

IInv == TypeOK /\ CacheInv /\ RequestsWellFormed /\ CallsSettled /\ ClaimInv

-----------------------------------------------------------------------------
(* The state a process starts with.                                        *)
LEMMA ServiceInit == Init => IInv
<1> SUFFICES ASSUME Init PROVE IInv
  OBVIOUS
<1>1. CacheInv
  BY CacheInitInv DEF Init
<1>2. NoRequest \in RequestState /\ NoRequest.pc = "idle"
  BY DEF NoRequest, RequestState, Steps, Configs
<1>3. TypeOK
  BY <1>1, <1>2 DEF Init, AuditInit, TypeOK, CacheInv, Configs
<1>4. RequestsWellFormed /\ CallsSettled
  BY <1>2 DEF Init, CacheInit, NoCall, RequestsWellFormed, CallsSettled
<1>5. ClaimInv
  BY <1>2 DEF Init, AuditInit, ClaimInv, OwnerInv, RowInv, Exists
<1> QED BY <1>1, <1>3, <1>4, <1>5 DEF IInv

(* Only r moves: the well-formedness of the others is theirs already.      *)
LEMMA OthersKeep ==
  ASSUME IInv, NEW r \in Requests,
         \A q \in Requests \ {r} : /\ req'[q] = req[q]
                                   /\ call'[q].stage = call[q].stage
                                   /\ call'[q].resource = call[q].resource,
         req'[r].pc # "idle" => req'[r].id \in Ids /\ call'[r].resource \in Resources,
         req'[r].pc \in {"evaluate", "metadata", "freeze", "record"} =>
           req'[r].command \in Commands,
         req'[r].pc = "record" => call'[r].stage = "done",
         req'[r].pc = "complete" => /\ req'[r].outcome \in {"succeeded", "failed"}
                                    /\ call'[r].stage \in {"done", "failed"},
         req'[r].pc \in {"idle", "metadata", "status", "row", "expire", "check"} =>
           call'[r].stage = "none",
         req'[r].pc = "claim" /\ TypeOf[call'[r].resource] # "database" =>
           call'[r].stage = "none"
  PROVE  RequestsWellFormed' /\ CallsSettled'
<1>1. RequestsWellFormed'
  BY DEF IInv, RequestsWellFormed
<1>2. CallsSettled'
  BY DEF IInv, CallsSettled, RequestsWellFormed, OfDatabase, Target
<1> QED BY <1>1, <1>2

(* A step of r that neither claims nor runs nor writes rows.               *)
LEMMA QuietStep ==
  ASSUME IInv, NEW r \in Requests,
         \A q \in Requests \ {r} : req'[q] = req[q],
         req'[r].pc \notin {"run", "complete"},
         UNCHANGED <<operations, runs>>
  PROVE  ClaimInv'
BY DEF IInv, ClaimInv, OwnerInv, RowInv, Exists

(* A row is only closed, or written for the first time as submitted, and   *)
(* whoever was past the claim still is.                                    *)
LEMMA RowsProgress ==
  ASSUME IInv, NEW r \in Requests, NEW id \in Ids, NEW row \in OperationRow,
         \A q \in Requests \ {r} : req'[q] = req[q],
         req'[r].pc \notin {"run", "complete"},
         operations' = [operations EXCEPT ![id] = row],
         UNCHANGED runs,
         \/ /\ ~Exists(id)
            /\ row.status \in Submitted /\ row.confirmedBy = Nobody
         \/ /\ Exists(id) /\ row.confirmedBy = operations[id].confirmedBy
            /\ row.status \in Finished
            /\ row.status = "succeeded" => runs[id] = 1
  PROVE  ClaimInv'
<1>0. /\ row # NoRow /\ operations'[id] = row /\ runs' = runs
      /\ \A i \in Ids \ {id} : operations'[i] = operations[i]
  BY ConstantsTyped DEF IInv, TypeOK
<1> USE DEF Exists, Submitted, Finished
<1>1. OwnerInv'
  <2>1. SUFFICES ASSUME NEW q \in Requests, req'[q].pc \in {"run", "complete"}
                 PROVE  /\ operations'[req'[q].id] # NoRow
                        /\ operations'[req'[q].id].confirmedBy = q
                        /\ operations'[req'[q].id].status \notin Submitted
                        /\ req'[q].pc = "run" => runs'[req'[q].id] = 0
                        /\ req'[q].pc = "complete" /\ req'[q].outcome = "succeeded" =>
                             runs'[req'[q].id] = 1
    BY DEF OwnerInv, Exists
  <2>2. q # r /\ req'[q] = req[q] /\ req[q].id \in Ids
    BY <2>1 DEF IInv, RequestsWellFormed
  <2>3. /\ Exists(req[q].id)
        /\ operations[req[q].id].confirmedBy = q
        /\ operations[req[q].id].status \notin Submitted
        /\ req[q].pc = "run" => runs[req[q].id] = 0
        /\ req[q].pc = "complete" /\ req[q].outcome = "succeeded" => runs[req[q].id] = 1
    BY <2>1, <2>2 DEF IInv, ClaimInv, OwnerInv
  <2>4. CASE req[q].id = id
    BY <1>0, <2>2, <2>3, <2>4
  <2>5. CASE req[q].id # id
    BY <1>0, <2>2, <2>3, <2>5
  <2> QED BY <2>4, <2>5
<1>2. RowInv'
  <2>1. SUFFICES ASSUME NEW i \in Ids
                 PROVE  /\ runs'[i] \in {0, 1}
                        /\ runs'[i] > 0 => /\ operations'[i] # NoRow
                                           /\ operations'[i].status \notin Submitted
                                           /\ operations'[i].confirmedBy # Nobody
                        /\ operations'[i] # NoRow /\ operations'[i].status = "succeeded" => runs'[i] = 1
                        /\ operations'[i] # NoRow => (operations'[i].status \in Submitted =>
                                            operations'[i].confirmedBy = Nobody)
    BY DEF RowInv, Exists
  <2>0. /\ runs[i] \in {0, 1}
        /\ runs[i] > 0 => /\ Exists(i)
                          /\ operations[i].status \notin Submitted
                          /\ operations[i].confirmedBy # Nobody
        /\ Exists(i) /\ operations[i].status = "succeeded" => runs[i] = 1
        /\ Exists(i) => (operations[i].status \in Submitted =>
                           operations[i].confirmedBy = Nobody)
    BY DEF IInv, ClaimInv, RowInv
  <2>2. CASE i = id
    BY <1>0, <2>0, <2>2
  <2>3. CASE i # id
    BY <1>0, <2>0, <2>3
  <2> QED BY <2>2, <2>3
<1> QED BY <1>1, <1>2 DEF ClaimInv

(* The end of a request, whatever it wrote before.                         *)
LEMMA DoneKeeps ==
  ASSUME IInv, NEW r \in Requests, Done(r), call[r].stage # "apply"
  PROVE  /\ CacheInv' /\ RequestsWellFormed' /\ CallsSettled'
         /\ req' \in [Requests -> RequestState]
         /\ \A q \in Requests \ {r} : req'[q] = req[q]
         /\ req'[r].pc = "idle"
<1>1. NoRequest \in RequestState /\ NoRequest.pc = "idle"
  BY DEF NoRequest, RequestState, Steps, Configs
<1>2. CacheInv'
  BY CallStepsInv DEF IInv, Done
<1>3. /\ req' \in [Requests -> RequestState]
      /\ \A q \in Requests \ {r} : req'[q] = req[q]
      /\ req'[r].pc = "idle"
  BY <1>1 DEF IInv, TypeOK, Done
<1>4. /\ \A q \in Requests \ {r} : call'[q] = call[q]
      /\ call'[r].stage = "none"
  BY DEF Done, Release, NoCall, IInv, TypeOK, CacheTypeOK
<1>5. RequestsWellFormed' /\ CallsSettled'
  BY <1>3, <1>4, OthersKeep
<1> QED BY <1>2, <1>3, <1>5

(* A request that goes on to another step before the claim.                *)
LEMMA MoveKeeps ==
  ASSUME IInv, NEW r \in Requests, NEW st \in RequestState,
         req' = [req EXCEPT ![r] = st],
         st.pc \notin {"idle", "run", "complete"}, st.id \in Ids,
         st.pc \in {"evaluate", "metadata", "freeze", "record"} => st.command \in Commands,
         CacheInv',
         \A q \in Requests \ {r} : /\ call'[q].stage = call[q].stage
                                   /\ call'[q].resource = call[q].resource,
         call'[r].resource \in Resources,
         st.pc = "record" => call'[r].stage = "done",
         st.pc \in {"metadata", "status", "row", "expire", "check"} => call'[r].stage = "none",
         st.pc = "claim" /\ TypeOf[call'[r].resource] # "database" => call'[r].stage = "none",
         UNCHANGED <<auditVars, overdue, runs, ranOn>>
  PROVE  IInv'
<1>1. /\ req' \in [Requests -> RequestState] /\ req'[r] = st
      /\ \A q \in Requests \ {r} : req'[q] = req[q]
  BY DEF IInv, TypeOK
<1>2. TypeOK'
  BY <1>1 DEF IInv, TypeOK, CacheInv, auditVars
<1>3. RequestsWellFormed' /\ CallsSettled'
  BY <1>1, OthersKeep
<1>4. ClaimInv'
  BY <1>1, QuietStep DEF auditVars
<1> QED BY <1>2, <1>3, <1>4 DEF IInv

(* A request that ends and leaves the tables alone.                        *)
LEMMA EndKeeps ==
  ASSUME IInv, NEW r \in Requests, Done(r), call[r].stage # "apply",
         UNCHANGED <<auditVars, overdue, runs, ranOn>>
  PROVE  IInv'
<1>1. /\ CacheInv' /\ RequestsWellFormed' /\ CallsSettled'
      /\ req' \in [Requests -> RequestState]
      /\ \A q \in Requests \ {r} : req'[q] = req[q]
      /\ req'[r].pc = "idle"
  BY DoneKeeps
<1>2. TypeOK'
  BY <1>1 DEF IInv, TypeOK, CacheInv, auditVars
<1>3. ClaimInv'
  BY <1>1, QuietStep DEF auditVars
<1> QED BY <1>1, <1>2, <1>3 DEF IInv

(* A request whose last act is to write one row.                           *)
LEMMA EndWithRow ==
  ASSUME IInv, NEW r \in Requests, NEW id \in Ids, NEW row \in OperationRow,
         Done(r), call[r].stage # "apply",
         operations' = [operations EXCEPT ![id] = row],
         pendingOperations' \in SUBSET Ids, pendingActions' \in SUBSET Ids,
         UNCHANGED <<overdue, runs, ranOn>>,
         \/ /\ ~Exists(id)
            /\ row.status \in Submitted /\ row.confirmedBy = Nobody
         \/ /\ Exists(id) /\ row.confirmedBy = operations[id].confirmedBy
            /\ row.status \in Finished
            /\ row.status = "succeeded" => runs[id] = 1
  PROVE  IInv'
<1>1. /\ CacheInv' /\ RequestsWellFormed' /\ CallsSettled'
      /\ req' \in [Requests -> RequestState]
      /\ \A q \in Requests \ {r} : req'[q] = req[q]
      /\ req'[r].pc = "idle"
  BY DoneKeeps
<1>2. TypeOK'
  BY <1>1 DEF IInv, TypeOK, CacheInv
<1>3. ClaimInv'
  BY <1>1, RowsProgress
<1> QED BY <1>1, <1>2, <1>3 DEF IInv

-----------------------------------------------------------------------------
(* Submitting.                                                             *)
LEMMA BeginPrepareKeeps ==
  ASSUME IInv, NEW r \in Requests, NEW x \in Resources, NEW c \in Commands, NEW id \in Ids,
         BeginPrepare(r, x, c, id)
  PROVE  IInv'
<1> DEFINE stage == IF TypeOf[x] = "database" THEN "sync" ELSE "none"
           st == [NoRequest EXCEPT !.id = id, !.command = c,
                    !.pc = IF TypeOf[x] = "database" THEN "evaluate" ELSE "metadata"]
<1>1. /\ req' = [req EXCEPT ![r] = st] /\ Open(r, x, stage)
      /\ UNCHANGED <<auditVars, overdue, runs, ranOn>>
  BY DEF BeginPrepare
<1>2. /\ st \in RequestState /\ st.id = id /\ st.command = c
      /\ st.pc = IF TypeOf[x] = "database" THEN "evaluate" ELSE "metadata"
  BY DEF RequestState, NoRequest, Steps, Configs
<1>3. call[r].stage = "none"
  BY DEF BeginPrepare, At, IInv, CallsSettled
<1>4. CacheInv'
  BY <1>1, <1>3, CallStepsInv DEF IInv
<1>5. /\ \A q \in Requests \ {r} : call'[q] = call[q]
      /\ call'[r].stage = stage /\ call'[r].resource = x
  BY <1>1 DEF Open, For, NoCall, IInv, TypeOK, CacheTypeOK
<1> HIDE DEF st
<1> QED BY <1>1, <1>2, <1>4, <1>5, MoveKeeps

(* EvaluateSQL ends the request or goes on to a row to write.               *)
LEMMA EvaluateSQLKeeps ==
  ASSUME IInv, NEW r \in Requests, EvaluateSQL(r)
  PROVE  IInv'
<1>1. call[r].stage # "apply" /\ req[r].pc = "evaluate"
  BY DEF EvaluateSQL, Answered, At
<1>2. CASE call[r].stage = "failed" \/ Current(r) = None
  BY <1>1, <1>2, EndKeeps DEF EvaluateSQL
<1>3. CASE ~(call[r].stage = "failed" \/ Current(r) = None)
  <2>1. PICK pc \in {"freeze", "record"} :
          req' = [req EXCEPT ![r].rev = Current(r), ![r].pc = pc]
    BY <1>3 DEF EvaluateSQL
  <2> DEFINE st == [req[r] EXCEPT !.rev = Current(r), !.pc = pc]
  <2>2. /\ req[r] \in RequestState /\ req[r].id \in Ids /\ Target(r) \in Resources
        /\ req[r].command \in Commands /\ Current(r) \in Configs
    BY <1>1 DEF IInv, TypeOK, CacheTypeOK, RequestsWellFormed, Target, Current
  <2>3. st \in RequestState /\ st.id = req[r].id /\ st.command = req[r].command /\ st.pc = pc
    BY <2>2 DEF RequestState, Steps
  <2>4. req' = [req EXCEPT ![r] = st]
    BY <2>1
  <2>5. /\ UNCHANGED cacheVars /\ call' = call /\ CacheInv'
        /\ UNCHANGED <<auditVars, overdue, runs, ranOn>>
    BY <1>3, CacheStutter DEF EvaluateSQL, cacheVars, IInv
  <2>6. call[r].stage = "done"
    BY <1>3 DEF EvaluateSQL, Answered
  <2> HIDE DEF st
  <2> QED BY <2>2, <2>3, <2>4, <2>5, <2>6, MoveKeeps DEF Target
<1> QED BY <1>2, <1>3

(* PrepareAction ends the request or goes on to freeze the action.          *)
LEMMA PrepareActionKeeps ==
  ASSUME IInv, NEW r \in Requests, PrepareAction(r)
  PROVE  IInv'
<1> DEFINE over == Current(r) = None \/ Decision(r, Current(r), None, req[r].command) # "confirm"
<1>1. call[r].stage = "none" /\ req[r].pc = "metadata"
  BY DEF PrepareAction, At, IInv, CallsSettled
<1>2. CASE over
  BY <1>1, <1>2, EndKeeps DEF PrepareAction
<1>3. CASE ~over
  <2>1. /\ req' = [req EXCEPT ![r].rev = Current(r), ![r].pc = "freeze"] /\ StartCall(r)
        /\ UNCHANGED <<auditVars, overdue, runs, ranOn>>
    BY <1>3 DEF PrepareAction
  <2> DEFINE st == [req[r] EXCEPT !.rev = Current(r), !.pc = "freeze"]
  <2>2. /\ req[r] \in RequestState /\ req[r].id \in Ids /\ Target(r) \in Resources
        /\ req[r].command \in Commands /\ Current(r) \in Configs
    BY <1>1 DEF IInv, TypeOK, CacheTypeOK, RequestsWellFormed, Target, Current
  <2>3. st \in RequestState /\ st.id = req[r].id /\ st.command = req[r].command /\ st.pc = "freeze"
    BY <2>2 DEF RequestState, Steps
  <2>4. req' = [req EXCEPT ![r] = st]
    BY <2>1
  <2>5. CacheInv'
    BY <1>1, <2>1, <2>2, CallStepsInv DEF IInv, Target
  <2>6. /\ \A q \in Requests \ {r} : call'[q] = call[q]
        /\ call'[r].resource = Target(r)
    BY <2>1 DEF StartCall, IInv, TypeOK, CacheTypeOK, Call, Target
  <2> HIDE DEF st
  <2> QED BY <2>1, <2>2, <2>3, <2>4, <2>5, <2>6, MoveKeeps
<1> QED BY <1>2, <1>3

(* The row a submission writes.                                            *)
LEMMA SubmittedRow ==
  ASSUME IInv, NEW r \in Requests, req[r].pc \in {"freeze", "record"},
         NEW status \in Submitted, NEW dialect \in Dialects \cup {None}
  PROVE  /\ Row(r, status, dialect) \in OperationRow
         /\ Row(r, status, dialect).status = status
         /\ Row(r, status, dialect).confirmedBy = Nobody
         /\ req[r].id \in Ids
<1>1. /\ req[r] \in RequestState /\ req[r].id \in Ids
      /\ req[r].command \in Commands /\ Target(r) \in Resources
  BY DEF IInv, TypeOK, RequestsWellFormed, Target
<1> QED BY <1>1 DEF Row, OperationRow, RequestState, Submitted, Statuses, Unfinished

(* The transaction that freezes an operation, or its failure.               *)
LEMMA FreezeKeeps ==
  ASSUME IInv, NEW r \in Requests, Freeze(r)
  PROVE  IInv'
<1>1. /\ req[r].pc = "freeze" /\ call[r].stage # "apply" /\ Done(r)
      /\ UNCHANGED <<overdue, runs, ranOn>>
  BY DEF Freeze, At, Answered
<1>2. CASE UNCHANGED auditVars
  BY <1>1, <1>2, EndKeeps
<1>3. CASE call[r].stage = "done" /\ OfDatabase(r)
           /\ PrepareSQL(req[r].id, Row(r, "pending", DriverOf[call[r].client]))
  <2>1. DriverOf[call[r].client] \in Dialects
    BY <1>3, ConstantsTyped DEF IInv, CacheInv, CallsWellFormed
  <2> DEFINE row == Row(r, "pending", DriverOf[call[r].client])
  <2>2. /\ row \in OperationRow /\ row.status = "pending" /\ row.confirmedBy = Nobody
        /\ req[r].id \in Ids
    BY <1>1, <2>1, SubmittedRow DEF Submitted
  <2>3. /\ ~Exists(req[r].id) /\ operations' = [operations EXCEPT ![req[r].id] = row]
        /\ pendingOperations' \in SUBSET Ids /\ pendingActions' \in SUBSET Ids
    BY <1>3, <2>2 DEF PrepareSQL, IInv, TypeOK
  <2> HIDE DEF row
  <2> QED BY <1>1, <2>2, <2>3, EndWithRow DEF Submitted
<1>4. CASE PrepareRestart(req[r].id, Row(r, "pending", None))
  <2> DEFINE row == Row(r, "pending", None)
  <2>2. /\ row \in OperationRow /\ row.status = "pending" /\ row.confirmedBy = Nobody
        /\ req[r].id \in Ids
    BY <1>1, SubmittedRow DEF Submitted
  <2>3. /\ ~Exists(req[r].id) /\ operations' = [operations EXCEPT ![req[r].id] = row]
        /\ pendingOperations' \in SUBSET Ids /\ pendingActions' \in SUBSET Ids
    BY <1>4, <2>2 DEF PrepareRestart, IInv, TypeOK
  <2> HIDE DEF row
  <2> QED BY <1>1, <2>2, <2>3, EndWithRow DEF Submitted
<1> QED BY <1>2, <1>3, <1>4 DEF Freeze

(* The row of a statement that needs no confirmation.                       *)
LEMMA RecordEvaluatedKeeps ==
  ASSUME IInv, NEW r \in Requests, RecordEvaluated(r)
  PROVE  IInv'
<1> DEFINE row == Row(r, "evaluated", DriverOf[call[r].client])
<1>1. /\ req[r].pc = "record" /\ call[r].stage = "done" /\ Done(r)
      /\ UNCHANGED <<overdue, runs, ranOn>> /\ Record(req[r].id, row)
  BY DEF RecordEvaluated, At, IInv, RequestsWellFormed
<1>2. DriverOf[call[r].client] \in Dialects
  BY <1>1, ConstantsTyped DEF IInv, CacheInv, CallsWellFormed
<1>3. /\ row \in OperationRow /\ row.status = "evaluated" /\ row.confirmedBy = Nobody
      /\ req[r].id \in Ids
  BY <1>1, <1>2, SubmittedRow DEF Submitted
<1>4. /\ ~Exists(req[r].id) /\ operations' = [operations EXCEPT ![req[r].id] = row]
      /\ pendingOperations' \in SUBSET Ids /\ pendingActions' \in SUBSET Ids
  BY <1>1, <1>3 DEF Record, IInv, TypeOK
<1> HIDE DEF row
<1> QED BY <1>1, <1>3, <1>4, EndWithRow DEF Submitted

-----------------------------------------------------------------------------
(* Confirming, up to the claim.                                            *)
LEMMA BeginConfirmKeeps ==
  ASSUME IInv, NEW r \in Requests, NEW id \in Ids, BeginConfirm(r, id)
  PROVE  IInv'
<1> DEFINE x  == operations[id].resource
           pc == IF TypeOf[x] = "database" THEN "status" ELSE "row"
<1>0. PICK late \in BOOLEAN :
        req' = [req EXCEPT ![r] = [NoRequest EXCEPT !.id = id, !.pc = pc, !.late = late]]
  <2>1. (id \in overdue) \in BOOLEAN
    OBVIOUS
  <2> QED BY <2>1, Zenon DEF BeginConfirm
<1> DEFINE st == [NoRequest EXCEPT !.id = id, !.pc = pc, !.late = late]
<1>1. /\ req' = [req EXCEPT ![r] = st] /\ Open(r, x, "none")
      /\ UNCHANGED <<auditVars, overdue, runs, ranOn>> /\ x \in Resources
  BY <1>0 DEF BeginConfirm, Exists, IInv, TypeOK, OperationRow
<1>2. st \in RequestState /\ st.id = id /\ st.pc = pc
  BY DEF RequestState, NoRequest, Steps, Configs
<1>3. call[r].stage = "none"
  BY DEF BeginConfirm, At, IInv, CallsSettled
<1>4. CacheInv'
  BY <1>1, <1>3, CallStepsInv DEF IInv
<1>5. /\ \A q \in Requests \ {r} : call'[q] = call[q]
      /\ call'[r].stage = "none" /\ call'[r].resource = x
  BY <1>1 DEF Open, For, NoCall, IInv, TypeOK, CacheTypeOK
<1> HIDE DEF st, x
<1> QED BY <1>1, <1>2, <1>4, <1>5, MoveKeeps

(* A step that only moves the program counter of a confirmation.           *)
LEMMA GotoKeeps ==
  ASSUME IInv, NEW r \in Requests, NEW pc \in {"row", "expire", "check", "claim"},
         req[r].pc \in {"status", "row", "check"}, Goto(r, pc), UNCHANGED cacheVars,
         UNCHANGED <<auditVars, overdue, runs, ranOn>>
  PROVE  IInv'
<1> DEFINE st == [req[r] EXCEPT !.pc = pc]
<1>1. /\ req[r] \in RequestState /\ req[r].id \in Ids /\ call[r].resource \in Resources
      /\ call[r].stage = "none"
  BY DEF IInv, TypeOK, RequestsWellFormed, CallsSettled
<1>2. st \in RequestState /\ st.id = req[r].id /\ st.pc = pc
  BY <1>1 DEF RequestState, Steps
<1>3. req' = [req EXCEPT ![r] = st]
  BY DEF Goto
<1>4. CacheInv' /\ call' = call
  BY CacheStutter DEF IInv, cacheVars
<1> HIDE DEF st
<1> QED BY <1>1, <1>2, <1>3, <1>4, MoveKeeps

(* The status check of ConfirmSQL.                                          *)
LEMMA CheckStatusKeeps ==
  ASSUME IInv, NEW r \in Requests, CheckStatus(r)
  PROVE  IInv'
<1>1. call[r].stage # "apply" /\ req[r].pc = "status"
  BY DEF CheckStatus, At, IInv, CallsSettled
<1>2. CASE Done(r)
  BY <1>1, <1>2, EndKeeps DEF CheckStatus
<1>3. CASE Goto(r, "row") /\ UNCHANGED cacheVars
  BY <1>1, <1>3, GotoKeeps DEF CheckStatus
<1> QED BY <1>2, <1>3 DEF CheckStatus

(* The frozen row is there, overdue, or gone.                               *)
LEMMA ReadRowKeeps ==
  ASSUME IInv, NEW r \in Requests, ReadRow(r)
  PROVE  IInv'
<1>1. call[r].stage # "apply" /\ req[r].pc = "row"
  BY DEF ReadRow, At, IInv, CallsSettled
<1>2. CASE Done(r)
  BY <1>1, <1>2, EndKeeps DEF ReadRow
<1>3. CASE /\ Goto(r, IF req[r].id \in overdue THEN "expire" ELSE "check")
           /\ UNCHANGED cacheVars
  BY <1>1, <1>3, GotoKeeps DEF ReadRow
<1> QED BY <1>2, <1>3 DEF ReadRow

(* The row of a closed operation.                                          *)
LEMMA CloseKeeps ==
  ASSUME IInv, NEW r \in Requests, NEW status \in Finished, req[r].id \in Ids,
         CompleteResult(req[r].id, status), Done(r), call[r].stage # "apply",
         status = "succeeded" => runs[req[r].id] = 1,
         UNCHANGED <<overdue, runs, ranOn>>
  PROVE  IInv'
<1> DEFINE id == req[r].id
           row == [operations[id] EXCEPT !.status = status]
<1>1. Exists(id) /\ operations[id] \in OperationRow
  BY DEF CompleteResult, Completable, HasStatus, Exists, IInv, TypeOK
<1>2. /\ row \in OperationRow /\ row.status = status
      /\ row.confirmedBy = operations[id].confirmedBy
  BY <1>1 DEF OperationRow, Statuses, Finished
<1>3. /\ operations' = [operations EXCEPT ![id] = row]
      /\ pendingOperations' \in SUBSET Ids /\ pendingActions' \in SUBSET Ids
  BY DEF CompleteResult, IInv, TypeOK
<1> HIDE DEF row
<1> QED BY <1>1, <1>2, <1>3, EndWithRow

(* An overdue operation is closed without having been claimed.              *)
LEMMA ExpireKeeps ==
  ASSUME IInv, NEW r \in Requests, Expire(r)
  PROVE  IInv'
<1>1. /\ call[r].stage # "apply" /\ req[r].id \in Ids /\ Done(r)
      /\ UNCHANGED <<overdue, runs, ranOn>>
  BY DEF Expire, At, IInv, CallsSettled, RequestsWellFormed
<1>2. CASE UNCHANGED auditVars
  BY <1>1, <1>2, EndKeeps
<1>3. CASE CompleteResult(req[r].id, "expired")
  BY <1>1, <1>3, CloseKeeps DEF Finished
<1> QED BY <1>2, <1>3 DEF Expire

(* The check of revision and policy.                                        *)
LEMMA CheckResourceKeeps ==
  ASSUME IInv, NEW r \in Requests, CheckResource(r)
  PROVE  IInv'
<1>1. /\ call[r].stage = "none" /\ req[r].pc = "check"
      /\ UNCHANGED <<auditVars, overdue, runs, ranOn>>
  BY DEF CheckResource, At, IInv, CallsSettled
<1>2. CASE Done(r)
  BY <1>1, <1>2, EndKeeps
<1>3. CASE Goto(r, "claim") /\ UNCHANGED cacheVars
  BY <1>1, <1>3, GotoKeeps
<1>4. CASE Goto(r, "claim") /\ OfDatabase(r) /\ StartCall(r)
  <2> DEFINE st == [req[r] EXCEPT !.pc = "claim"]
  <2>1. /\ req[r] \in RequestState /\ req[r].id \in Ids /\ call[r].resource \in Resources
    BY <1>1 DEF IInv, TypeOK, RequestsWellFormed
  <2>2. st \in RequestState /\ st.id = req[r].id /\ st.pc = "claim"
    BY <2>1 DEF RequestState, Steps
  <2>3. req' = [req EXCEPT ![r] = st]
    BY <1>4 DEF Goto
  <2>4. CacheInv'
    BY <1>1, <1>4, <2>1, CallStepsInv DEF IInv
  <2>5. /\ \A q \in Requests \ {r} : call'[q] = call[q]
        /\ call'[r].resource = call[r].resource
    BY <1>4 DEF StartCall, IInv, TypeOK, CacheTypeOK, Call
  <2>6. TypeOf[call'[r].resource] = "database"
    BY <1>4, <2>5 DEF OfDatabase, Target
  <2> HIDE DEF st
  <2> QED BY <1>1, <2>1, <2>2, <2>3, <2>4, <2>5, <2>6, MoveKeeps
<1> QED BY <1>2, <1>3, <1>4 DEF CheckResource

-----------------------------------------------------------------------------
(* The claim: from here on confirmed_by names r, and nobody else is past   *)
(* the claim of this operation, because its row was pending.               *)
LEMMA ClaimKeeps ==
  ASSUME IInv, NEW r \in Requests, Claim(r)
  PROVE  IInv'
<1> DEFINE id == req[r].id
<1>1. /\ req[r].pc = "claim" /\ id \in Ids /\ Target(r) \in Resources
      /\ req[r] \in RequestState /\ call[r].stage # "apply"
      /\ UNCHANGED <<overdue, runs, ranOn>>
  BY DEF Claim, At, Answered, IInv, TypeOK, CallsSettled, RequestsWellFormed, Target
<1>2. CASE Done(r) /\ UNCHANGED auditVars
  BY <1>1, <1>2, EndKeeps
<1>3. CASE /\ ClaimBy(id, r) /\ Goto(r, "run")
           /\ OfDatabase(r) => UNCHANGED cacheVars
           /\ ~OfDatabase(r) => StartCall(r)
  <2> DEFINE st  == [req[r] EXCEPT !.pc = "run"]
             row == [operations[id] EXCEPT !.status = "executing", !.confirmedBy = r]
  <2>1. /\ Exists(id) /\ operations[id].status = "pending" /\ operations[id] \in OperationRow
        /\ operations' = [operations EXCEPT ![id] = row]
        /\ UNCHANGED <<pendingOperations, pendingActions>>
    BY <1>1, <1>3 DEF ClaimBy, Claimable, HasStatus, Exists, IInv, TypeOK
  <2>2. row \in OperationRow /\ row.status = "executing" /\ row.confirmedBy = r /\ row # NoRow
    <3>1. row \in OperationRow /\ row.status = "executing" /\ row.confirmedBy = r
      BY <2>1 DEF OperationRow, Statuses, Unfinished
    <3> QED BY <3>1, ConstantsTyped
  <2>3. st \in RequestState /\ st.id = id /\ st.pc = "run" /\ req' = [req EXCEPT ![r] = st]
    BY <1>1, <1>3 DEF Goto, RequestState, Steps
  <2> HIDE DEF st, row
  <2>4. /\ req' \in [Requests -> RequestState] /\ req'[r] = st
        /\ \A q \in Requests \ {r} : req'[q] = req[q]
        /\ operations' \in [Ids -> {NoRow} \cup OperationRow]
        /\ operations'[id] = row
        /\ \A i \in Ids \ {id} : operations'[i] = operations[i]
    BY <1>1, <2>1, <2>2, <2>3 DEF IInv, TypeOK
  <2>5. CacheInv'
    <3>1. CASE OfDatabase(r)
      BY <1>3, <3>1, CacheStutter DEF IInv
    <3>2. CASE ~OfDatabase(r)
      <4>1. call[r].stage = "none"
        BY <1>1, <3>2 DEF IInv, CallsSettled
      <4> QED BY <1>1, <1>3, <3>2, <4>1, CallStepsInv DEF IInv, Target
    <3> QED BY <3>1, <3>2
  <2>6. /\ \A q \in Requests \ {r} : call'[q] = call[q]
        /\ call'[r].resource \in Resources
    BY <1>1, <1>3 DEF StartCall, cacheVars, IInv, TypeOK, CacheTypeOK, Call, Target
  <2>7. TypeOK'
    BY <1>1, <2>1, <2>4, <2>5 DEF IInv, TypeOK, CacheInv
  <2>8. RequestsWellFormed' /\ CallsSettled'
    BY <1>1, <2>3, <2>4, <2>6, OthersKeep
  <2>9. OwnerInv'
    <3>1. runs[id] = 0
      BY <1>1, <2>1 DEF IInv, ClaimInv, RowInv, Submitted
    <3>2. \A q \in Requests \ {r} : req[q].pc \in {"run", "complete"} =>
            req[q].id # id /\ req[q].id \in Ids
      BY <2>1 DEF IInv, ClaimInv, OwnerInv, RequestsWellFormed, Submitted
    <3> QED BY <1>1, <2>2, <2>3, <2>4, <3>1, <3>2
         DEF IInv, ClaimInv, OwnerInv, Exists, Submitted
  <2>10. RowInv'
    <3>1. SUFFICES ASSUME NEW i \in Ids
                   PROVE  /\ runs'[i] \in {0, 1}
                          /\ runs'[i] > 0 => /\ operations'[i] # NoRow
                                             /\ operations'[i].status \notin Submitted
                                             /\ operations'[i].confirmedBy # Nobody
                          /\ operations'[i] # NoRow /\ operations'[i].status = "succeeded"
                               => runs'[i] = 1
                          /\ operations'[i] # NoRow =>
                               (operations'[i].status \in Submitted =>
                                  operations'[i].confirmedBy = Nobody)
      BY DEF RowInv, Exists
    <3>2. runs[id] = 0
      BY <1>1, <2>1 DEF IInv, ClaimInv, RowInv, Submitted
    <3>3. CASE i = id
      BY <1>1, <2>2, <2>4, <3>2, <3>3 DEF Submitted
    <3>4. CASE i # id
      BY <1>1, <2>4, <3>4 DEF IInv, ClaimInv, RowInv, Exists
    <3> QED BY <3>3, <3>4
  <2> QED BY <2>5, <2>7, <2>8, <2>9, <2>10 DEF IInv, ClaimInv
<1> QED BY <1>2, <1>3 DEF Claim

(* The remote call: r is the only request past the claim of its operation, *)
(* which has not run yet.                                                  *)
LEMMA RunKeeps ==
  ASSUME IInv, NEW r \in Requests, Run(r) \/ RunWithoutClient(r)
  PROVE  IInv'
<1> DEFINE id == req[r].id
<1>1. /\ req[r].pc = "run" /\ id \in Ids /\ Target(r) \in Resources
      /\ req[r] \in RequestState /\ call[r].stage \in {"done", "failed"}
      /\ UNCHANGED <<auditVars, cacheVars, overdue>>
  BY DEF Run, RunWithoutClient, At, IInv, TypeOK, RequestsWellFormed, Target
<1>2. PICK ran \in {0, 1}, outcome \in {"succeeded", "failed"} :
        /\ outcome = "succeeded" => ran = 1
        /\ runs' = [runs EXCEPT ![id] = @ + ran]
        /\ ranOn' \in [Ids -> Configs]
        /\ req' = [req EXCEPT ![r].pc = "complete", ![r].outcome = outcome]
  <2>1. runs \in [Ids -> Nat] /\ ranOn \in [Ids -> Configs] /\ call[r].client \in Configs
    BY DEF IInv, TypeOK, CacheTypeOK, Call
  <2>2. CASE RunWithoutClient(r)
    <3>1. runs' = [runs EXCEPT ![id] = @ + 0]
      BY <2>1, <2>2 DEF RunWithoutClient
    <3> QED BY <2>1, <2>2, <3>1 DEF RunWithoutClient
  <2>3. CASE Run(r)
    <3>1. PICK o \in Outcomes(r) :
            /\ runs' = [runs EXCEPT ![id] = @ + o[1]]
            /\ ranOn' = IF o[1] = 1 THEN [ranOn EXCEPT ![id] = call[r].client] ELSE ranOn
            /\ req' = [req EXCEPT ![r].pc = "complete", ![r].outcome = o[2]]
      BY <2>3 DEF Run
    <3>2. \/ o = <<0, "failed">>
          \/ o = <<1, "failed">>
          \/ o = <<1, "succeeded">>
      BY Zenon DEF Outcomes
    <3>3. CASE o = <<0, "failed">>
      <4>1. /\ runs' = [runs EXCEPT ![id] = @ + 0] /\ ranOn' = ranOn
            /\ req' = [req EXCEPT ![r].pc = "complete", ![r].outcome = "failed"]
        BY <3>1, <3>3
      <4> QED BY <2>1, <4>1
    <3>4. CASE o[1] = 1 /\ o[2] \in {"succeeded", "failed"}
      <4>1. /\ runs' = [runs EXCEPT ![id] = @ + 1]
            /\ ranOn' = [ranOn EXCEPT ![id] = call[r].client]
            /\ req' = [req EXCEPT ![r].pc = "complete", ![r].outcome = o[2]]
        BY <3>1, <3>4
      <4>2. ranOn' \in [Ids -> Configs]
        BY <2>1, <4>1
      <4> QED BY <3>4, <4>1, <4>2
    <3> QED BY <3>2, <3>3, <3>4
  <2> QED BY <2>2, <2>3
<1> DEFINE st == [req[r] EXCEPT !.pc = "complete", !.outcome = outcome]
<1>3. /\ st \in RequestState /\ st.id = id /\ st.pc = "complete" /\ st.outcome = outcome
      /\ req' = [req EXCEPT ![r] = st]
  BY <1>1, <1>2 DEF RequestState, Steps
<1> HIDE DEF st
<1>4. /\ req' \in [Requests -> RequestState] /\ req'[r] = st
      /\ \A q \in Requests \ {r} : req'[q] = req[q]
  BY <1>3 DEF IInv, TypeOK
<1>5. /\ runs[id] = 0 /\ runs'[id] = ran /\ runs' \in [Ids -> Nat]
      /\ \A i \in Ids \ {id} : runs'[i] = runs[i]
  BY <1>1, <1>2 DEF IInv, TypeOK, ClaimInv, OwnerInv
<1>6. CacheInv' /\ call' = call
  BY <1>1, CacheStutter DEF IInv, cacheVars
<1>7. TypeOK'
  BY <1>1, <1>2, <1>4, <1>5, <1>6 DEF IInv, TypeOK, CacheInv, auditVars
<1>8. RequestsWellFormed' /\ CallsSettled'
  BY <1>1, <1>3, <1>4, <1>6, OthersKeep DEF Target
<1>9. /\ Exists(id) /\ operations[id].confirmedBy = r /\ operations[id].status \notin Submitted
  BY <1>1 DEF IInv, ClaimInv, OwnerInv
<1>10. OwnerInv'
  <2>1. \A q \in Requests \ {r} : req[q].pc \in {"run", "complete"} =>
          req[q].id # id /\ req[q].id \in Ids
    BY <1>9 DEF IInv, ClaimInv, OwnerInv, RequestsWellFormed
  <2> QED BY <1>1, <1>2, <1>3, <1>4, <1>5, <1>9, <2>1
       DEF IInv, ClaimInv, OwnerInv, Exists, auditVars
<1>11. RowInv'
  <2>1. Nobody \notin Requests
    BY ConstantsTyped
  <2>2. SUFFICES ASSUME NEW i \in Ids
                 PROVE  /\ runs'[i] \in {0, 1}
                        /\ runs'[i] > 0 => /\ operations[i] # NoRow
                                           /\ operations[i].status \notin Submitted
                                           /\ operations[i].confirmedBy # Nobody
                        /\ operations[i] # NoRow /\ operations[i].status = "succeeded"
                             => runs'[i] = 1
                        /\ operations[i] # NoRow =>
                             (operations[i].status \in Submitted =>
                                operations[i].confirmedBy = Nobody)
    BY <1>1 DEF RowInv, Exists, auditVars
  <2>3. CASE i = id
    BY <1>1, <1>5, <1>9, <2>1, <2>3 DEF IInv, ClaimInv, RowInv, Exists, Submitted
  <2>4. CASE i # id
    BY <1>5, <2>4 DEF IInv, ClaimInv, RowInv, Exists
  <2> QED BY <2>3, <2>4
<1> QED BY <1>6, <1>7, <1>8, <1>10, <1>11 DEF IInv, ClaimInv

(* The last step of a confirmation: it closes its own operation.            *)
LEMMA CompleteKeeps ==
  ASSUME IInv, NEW r \in Requests, Complete(r)
  PROVE  IInv'
<1>1. /\ call[r].stage # "apply" /\ req[r].id \in Ids /\ Done(r)
      /\ UNCHANGED <<overdue, runs, ranOn>>
      /\ req[r].outcome \in {"succeeded", "failed"}
      /\ req[r].outcome = "succeeded" => runs[req[r].id] = 1
  BY DEF Complete, At, IInv, CallsSettled, RequestsWellFormed, ClaimInv, OwnerInv
<1>2. CASE UNCHANGED auditVars
  BY <1>1, <1>2, EndKeeps
<1>3. CASE CompleteResult(req[r].id, req[r].outcome)
  BY <1>1, <1>3, CloseKeeps DEF Finished
<1> QED BY <1>2, <1>3 DEF Complete

-----------------------------------------------------------------------------
(* Client calls, the clock, editors and restarts.                          *)
LEMMA ClientStepKeeps ==
  ASSUME IInv, NEW r \in Requests, ClientStep(r)
  PROVE  IInv'
<1>1. CacheStep(r) /\ UNCHANGED <<auditVars, serviceVars>>
  BY DEF ClientStep
<1>2. CacheInv'
  BY <1>1, CacheStepInv DEF IInv
<1>3. /\ call[r].stage \in {"sync", "apply", "fetch"}
      /\ \A q \in Requests : call'[q].resource = call[q].resource
      /\ \A q \in Requests \ {r} : call'[q].stage = call[q].stage
  BY <1>1, CacheStepFrame DEF IInv
<1>4. TypeOK'
  BY <1>1, <1>2 DEF IInv, TypeOK, CacheInv, auditVars, serviceVars
<1>5. RequestsWellFormed' /\ CallsSettled'
  BY <1>1, <1>3 DEF IInv, RequestsWellFormed, CallsSettled, OfDatabase, Target, serviceVars
<1>6. ClaimInv'
  BY <1>1 DEF IInv, ClaimInv, OwnerInv, RowInv, Exists, auditVars, serviceVars
<1> QED BY <1>2, <1>4, <1>5, <1>6 DEF IInv

(* A store error ends the request.                                          *)
LEMMA StoreErrorKeeps ==
  ASSUME IInv, NEW r \in Requests, StoreError(r)
  PROVE  IInv'
BY EndKeeps DEF StoreError

(* The clock and the editors do not touch the operations.                   *)
LEMMA OutsideKeeps ==
  ASSUME IInv,
         \/ \E id \in Ids : PassDeadline(id)
         \/ \E x \in Resources, rev \in Configs : Edit(x, rev)
         \/ UNCHANGED vars
  PROVE  IInv'
<1>1. CacheInv' /\ call' = call
  BY CacheStutter, OutsideInv DEF IInv, PassDeadline, Edit, EditConfig, vars, cacheVars
<1>2. /\ overdue' \in SUBSET Ids /\ UNCHANGED <<auditVars, req, runs, ranOn>>
  BY DEF PassDeadline, Edit, vars, serviceVars, IInv, TypeOK
<1>3. TypeOK'
  BY <1>1, <1>2 DEF IInv, TypeOK, CacheInv, auditVars
<1>4. RequestsWellFormed' /\ CallsSettled'
  BY <1>1, <1>2 DEF IInv, RequestsWellFormed, CallsSettled, OfDatabase, Target
<1>5. ClaimInv'
  BY <1>2 DEF IInv, ClaimInv, OwnerInv, RowInv, Exists, auditVars
<1> QED BY <1>1, <1>3, <1>4, <1>5 DEF IInv

(* A restart forgets the requests and keeps the tables.                     *)
LEMMA RestartKeeps ==
  ASSUME IInv, Restart
  PROVE  IInv'
<1>1. CacheInv'
  BY OutsideInv DEF IInv, Restart
<1>2. NoRequest \in RequestState /\ NoRequest.pc = "idle"
  BY DEF NoRequest, RequestState, Steps, Configs
<1>3. TypeOK'
  BY <1>1, <1>2 DEF Restart, IInv, TypeOK, CacheInv, auditVars
<1>4. RequestsWellFormed' /\ CallsSettled'
  BY <1>2 DEF Restart, LoseMemory, NoCall, RequestsWellFormed, CallsSettled
<1>5. ClaimInv'
  BY <1>2 DEF Restart, IInv, ClaimInv, OwnerInv, RowInv, Exists, auditVars
<1> QED BY <1>1, <1>3, <1>4, <1>5 DEF IInv

-----------------------------------------------------------------------------
(* The invariant is inductive.                                             *)
LEMMA ServiceStep == IInv /\ [Next]_vars => IInv'
<1> SUFFICES ASSUME IInv, [Next]_vars PROVE IInv'
  OBVIOUS
<1>1. CASE \E r \in Requests : Begin(r)
  BY <1>1, BeginPrepareKeeps, BeginConfirmKeeps DEF Begin
<1>2. CASE \E r \in Requests : Proceed(r)
  <2>1. PICK r \in Requests : Proceed(r)
    BY <1>2
  <2> QED BY <2>1, EvaluateSQLKeeps, PrepareActionKeeps, FreezeKeeps, RecordEvaluatedKeeps,
             CheckStatusKeeps, ReadRowKeeps, ExpireKeeps, CheckResourceKeeps,
             ClaimKeeps, RunKeeps, CompleteKeeps
          DEF Proceed
<1>3. CASE \E r \in Requests : ClientStep(r)
  BY <1>3, ClientStepKeeps
<1>4. CASE \E r \in Requests : StoreError(r)
  BY <1>4, StoreErrorKeeps
<1>5. CASE \/ \E id \in Ids : PassDeadline(id)
           \/ \E x \in Resources, rev \in Configs : Edit(x, rev)
           \/ UNCHANGED vars
  BY <1>5, OutsideKeeps
<1>6. CASE Restart
  BY <1>6, RestartKeeps
<1> QED BY <1>1, <1>2, <1>3, <1>4, <1>5, <1>6 DEF Next

(* Type correctness, for every value of the constants.                     *)
THEOREM ServiceTypeOK == Spec => []TypeOK
<1>1. IInv => TypeOK
  BY DEF IInv
<1> QED BY <1>1, ServiceInit, ServiceStep, PTL DEF Spec

(* However many confirmations, restarts, faults and edits there are, no    *)
(* operation runs twice.                                                   *)
THEOREM RunsAtMostOnce == Spec => []AtMostOnce
<1>1. IInv => AtMostOnce
  <2> SUFFICES ASSUME IInv, NEW id \in Ids PROVE runs[id] <= 1
    BY DEF AtMostOnce
  <2>2. runs[id] \in {0, 1}
    BY DEF IInv, ClaimInv, RowInv
  <2> QED BY <2>2
<1> QED BY <1>1, ServiceInit, ServiceStep, PTL DEF Spec

(* An operation that ran is confirmed by name and not pending.             *)
THEOREM RecordsAreTrue == Spec => []RunIsOnRecord
<1>1. IInv => RunIsOnRecord
  <2> SUFFICES ASSUME IInv, NEW id \in Ids, runs[id] > 0
               PROVE  /\ Status(id) \notin {"none", "pending", "evaluated"}
                      /\ operations[id].confirmedBy # Nobody
    BY DEF RunIsOnRecord
  <2>1. Exists(id) => operations[id].status \in Statuses
    BY DEF Exists, IInv, TypeOK, OperationRow
  <2> QED BY <2>1 DEF IInv, ClaimInv, RowInv, Status, Submitted, Statuses, Unfinished, Finished
<1> QED BY <1>1, ServiceInit, ServiceStep, PTL DEF Spec

(* The record never claims a success that did not happen: an operation     *)
(* whose row says succeeded has run, whoever crashed in between.           *)
THEOREM SucceededRanThm == Spec => []SucceededRan
<1>1. IInv => SucceededRan
  <2> SUFFICES ASSUME IInv, NEW id \in Ids, Status(id) = "succeeded" PROVE runs[id] = 1
    BY DEF SucceededRan
  <2> QED BY DEF IInv, ClaimInv, RowInv, Status, Submitted, Statuses, Unfinished, Finished
<1> QED BY <1>1, ServiceInit, ServiceStep, PTL DEF Spec
-----------------------------------------------------------------------------
(* The rows: what they say and keep, what a confirmation goes through, and *)
(* that the service implements OperationLifecycle.                         *)
(*                                                                         *)
(* Every step of the service is one of five writes of the audit store, or  *)
(* leaves its tables alone (AuditStep).  What is said about rows follows   *)
(* from that and from IInv; what is said about a confirmation, from what   *)
(* each request knows of its own row (Mine).                               *)

Submits(r) ==
  \/ /\ At(r, "freeze") /\ OfDatabase(r) /\ call[r].stage = "done"
     /\ PrepareSQL(req[r].id, Row(r, "pending", DriverOf[call[r].client]))
  \/ /\ At(r, "freeze") /\ ~OfDatabase(r)
     /\ PrepareRestart(req[r].id, Row(r, "pending", None))
  \/ /\ At(r, "record")
     /\ Record(req[r].id, Row(r, "evaluated", DriverOf[call[r].client]))

Claims(r) == At(r, "claim") /\ ClaimBy(req[r].id, r)

Closes(r) ==
  \/ At(r, "expire")   /\ CompleteResult(req[r].id, "expired")
  \/ At(r, "complete") /\ CompleteResult(req[r].id, req[r].outcome)

(* The only steps that touch the audit tables.                             *)
LEMMA AuditStep ==
  ASSUME IInv, [Next]_vars
  PROVE  \/ UNCHANGED auditVars
         \/ \E r \in Requests : /\ Submits(r) \/ Claims(r) \/ Closes(r)
                                /\ Claims(r) \/ Done(r)
                                /\ UNCHANGED <<overdue, runs, ranOn, config>>
<1>1. CASE \E r \in Requests : Begin(r)
  BY <1>1 DEF Begin, BeginPrepare, BeginConfirm
<1>2. CASE \E r \in Requests : Proceed(r)
  <2>1. PICK r \in Requests : Proceed(r)
    BY <1>2
  <2>2. CASE \/ EvaluateSQL(r) \/ PrepareAction(r) \/ CheckStatus(r) \/ ReadRow(r)
             \/ CheckResource(r) \/ Run(r) \/ RunWithoutClient(r)
    BY <2>2 DEF EvaluateSQL, PrepareAction, CheckStatus, ReadRow, CheckResource, Run,
                RunWithoutClient
  <2>3. CASE Freeze(r) \/ RecordEvaluated(r)
    BY <2>3 DEF Freeze, RecordEvaluated, Submits, Done, Release
  <2>4. CASE Expire(r) \/ Complete(r)
    BY <2>4 DEF Expire, Complete, Closes, Done, Release
  <2>5. CASE Claim(r)
    <3>1. CASE UNCHANGED auditVars
      BY <3>1
    <3>2. CASE ClaimBy(req[r].id, r) /\ (UNCHANGED cacheVars \/ StartCall(r))
      BY <2>5, <3>2 DEF Claim, Claims, StartCall, cacheVars
    <3> QED BY <2>5, <3>1, <3>2 DEF Claim
  <2> QED BY <2>1, <2>2, <2>3, <2>4, <2>5 DEF Proceed
<1>3. CASE \E r \in Requests : ClientStep(r) \/ StoreError(r)
  BY <1>3 DEF ClientStep, StoreError
<1>4. CASE \/ \E id \in Ids : PassDeadline(id)
           \/ \E x \in Resources, rev \in Configs : Edit(x, rev)
           \/ Restart \/ UNCHANGED vars
  BY <1>4 DEF PassDeadline, Edit, Restart, vars
<1> QED BY <1>1, <1>2, <1>3, <1>4 DEF Next

(* The same, row by row.                                                   *)
Kept(id)       == operations'[id] = operations[id]
NewRow(r, row) == /\ ~Exists(req[r].id) /\ row \in OperationRow
                  /\ row.status \in Submitted /\ row.confirmedBy = Nobody
                  /\ row.resource = Target(r) /\ row.command = req[r].command
                  /\ row.rev = req[r].rev
ClaimedRow(r)  == [operations[req[r].id] EXCEPT !.status = "executing", !.confirmedBy = r]
ClosedRow(r, s) == [operations[req[r].id] EXCEPT !.status = s]

(* Submitting adds one new row, and freezes it in the same write unless it *)
(* is only recorded.                                                       *)
LEMMA SubmitsRow ==
  ASSUME IInv, NEW r \in Requests, Submits(r)
  PROVE  \E row \in OperationRow :
           /\ req[r].id \in Ids /\ NewRow(r, row)
           /\ operations'[req[r].id] = row
           /\ \A i \in Ids \ {req[r].id} : Kept(i)
           /\ \/ /\ At(r, "freeze") /\ OfDatabase(r) /\ call[r].stage = "done"
                 /\ row.status = "pending" /\ row.dialect = DriverOf[call[r].client]
                 /\ pendingOperations' = pendingOperations \cup {req[r].id}
                 /\ UNCHANGED pendingActions
              \/ /\ At(r, "freeze") /\ ~OfDatabase(r) /\ row.status = "pending"
                 /\ row.dialect = None
                 /\ pendingActions' = pendingActions \cup {req[r].id}
                 /\ UNCHANGED pendingOperations
              \/ /\ row.status = "evaluated"
                 /\ UNCHANGED <<pendingOperations, pendingActions>>
<1> DEFINE id == req[r].id
<1>1. CASE /\ At(r, "freeze") /\ OfDatabase(r) /\ call[r].stage = "done"
           /\ PrepareSQL(id, Row(r, "pending", DriverOf[call[r].client]))
  <2> DEFINE row == Row(r, "pending", DriverOf[call[r].client])
  <2>1. DriverOf[call[r].client] \in Dialects
    BY <1>1, ConstantsTyped DEF IInv, CacheInv, CallsWellFormed
  <2>2. row \in OperationRow /\ row.status = "pending" /\ row.confirmedBy = Nobody /\ id \in Ids
    BY <1>1, <2>1, SubmittedRow DEF Submitted, At
  <2>3. /\ row.resource = Target(r) /\ row.command = req[r].command /\ row.rev = req[r].rev
        /\ row.dialect = DriverOf[call[r].client]
    BY DEF Row
  <2>4. /\ ~Exists(id) /\ operations' = [operations EXCEPT ![id] = row]
        /\ pendingOperations' = pendingOperations \cup {id} /\ UNCHANGED pendingActions
    BY <1>1 DEF PrepareSQL
  <2> HIDE DEF row
  <2>5. operations'[id] = row /\ \A i \in Ids \ {id} : Kept(i)
    BY <2>2, <2>4 DEF IInv, TypeOK, Kept
  <2>6. NewRow(r, row)
    BY <2>2, <2>3, <2>4 DEF NewRow, Submitted
  <2> QED BY <1>1, <2>2, <2>3, <2>4, <2>5, <2>6
<1>2. CASE At(r, "freeze") /\ ~OfDatabase(r) /\ PrepareRestart(id, Row(r, "pending", None))
  <2> DEFINE row == Row(r, "pending", None)
  <2>2. row \in OperationRow /\ row.status = "pending" /\ row.confirmedBy = Nobody /\ id \in Ids
    BY <1>2, SubmittedRow DEF Submitted, At
  <2>3. /\ row.resource = Target(r) /\ row.command = req[r].command /\ row.rev = req[r].rev
        /\ row.dialect = None
    BY DEF Row
  <2>4. /\ ~Exists(id) /\ operations' = [operations EXCEPT ![id] = row]
        /\ pendingActions' = pendingActions \cup {id} /\ UNCHANGED pendingOperations
    BY <1>2 DEF PrepareRestart
  <2> HIDE DEF row
  <2>5. operations'[id] = row /\ \A i \in Ids \ {id} : Kept(i)
    BY <2>2, <2>4 DEF IInv, TypeOK, Kept
  <2>6. NewRow(r, row)
    BY <2>2, <2>3, <2>4 DEF NewRow, Submitted
  <2> QED BY <1>2, <2>2, <2>3, <2>4, <2>5, <2>6
<1>3. CASE At(r, "record") /\ Record(id, Row(r, "evaluated", DriverOf[call[r].client]))
  <2> DEFINE row == Row(r, "evaluated", DriverOf[call[r].client])
  <2>1. DriverOf[call[r].client] \in Dialects
    BY <1>3, ConstantsTyped DEF At, IInv, RequestsWellFormed, CacheInv, CallsWellFormed
  <2>2. row \in OperationRow /\ row.status = "evaluated" /\ row.confirmedBy = Nobody /\ id \in Ids
    BY <1>3, <2>1, SubmittedRow DEF Submitted, At
  <2>3. row.resource = Target(r) /\ row.command = req[r].command /\ row.rev = req[r].rev
    BY DEF Row
  <2>4. /\ ~Exists(id) /\ operations' = [operations EXCEPT ![id] = row]
        /\ UNCHANGED <<pendingOperations, pendingActions>>
    BY <1>3 DEF Record
  <2> HIDE DEF row
  <2>5. operations'[id] = row /\ \A i \in Ids \ {id} : Kept(i)
    BY <2>2, <2>4 DEF IInv, TypeOK, Kept
  <2>6. NewRow(r, row)
    BY <2>2, <2>3, <2>4 DEF NewRow, Submitted
  <2> QED BY <2>2, <2>4, <2>5, <2>6
<1> QED BY <1>1, <1>2, <1>3 DEF Submits

(* The claim takes a pending row that nobody confirmed and names its taker.*)
LEMMA ClaimsRow ==
  ASSUME IInv, NEW r \in Requests, Claims(r)
  PROVE  LET id == req[r].id IN
         /\ id \in Ids /\ Exists(id)
         /\ operations[id].status = "pending" /\ operations[id].confirmedBy = Nobody
         /\ runs[id] = 0
         /\ operations'[id] \in OperationRow
         /\ operations'[id].status = "executing" /\ operations'[id].confirmedBy = r
         /\ operations'[id].resource = operations[id].resource
         /\ operations'[id].command = operations[id].command
         /\ operations'[id].rev = operations[id].rev
         /\ operations'[id].dialect = operations[id].dialect
         /\ \A i \in Ids \ {id} : Kept(i)
         /\ UNCHANGED <<pendingOperations, pendingActions>>
<1> DEFINE id == req[r].id
<1>1. /\ id \in Ids /\ Exists(id) /\ operations[id].status = "pending"
      /\ operations' = [operations EXCEPT ![id] = ClaimedRow(r)]
      /\ UNCHANGED <<pendingOperations, pendingActions>>
  BY DEF Claims, At, ClaimBy, Claimable, HasStatus, ClaimedRow, IInv, RequestsWellFormed
<1>2. operations[id] \in OperationRow
  BY <1>1 DEF Exists, IInv, TypeOK
<1>3. /\ ClaimedRow(r) \in OperationRow
      /\ ClaimedRow(r).status = "executing" /\ ClaimedRow(r).confirmedBy = r
      /\ ClaimedRow(r).resource = operations[id].resource
      /\ ClaimedRow(r).command = operations[id].command
      /\ ClaimedRow(r).rev = operations[id].rev
      /\ ClaimedRow(r).dialect = operations[id].dialect
  BY <1>2 DEF ClaimedRow, OperationRow, Statuses, Unfinished
<1>4. operations'[id] = ClaimedRow(r) /\ \A i \in Ids \ {id} : Kept(i)
  BY <1>1 DEF IInv, TypeOK, Kept
<1>5. operations[id].confirmedBy = Nobody /\ runs[id] = 0
  BY <1>1 DEF IInv, ClaimInv, RowInv, Submitted
<1> QED BY <1>1, <1>3, <1>4, <1>5

(* Closing ends an unfinished row and removes what was frozen for it.      *)
LEMMA ClosesRow ==
  ASSUME IInv, NEW r \in Requests, Closes(r)
  PROVE  LET id == req[r].id IN
         /\ id \in Ids /\ Exists(id)
         /\ operations[id].status \in Unfinished
         /\ operations'[id] \in OperationRow
         /\ operations'[id].status \in Finished
         /\ operations[id].status = "pending" => operations'[id].status = "expired"
         /\ operations'[id].status = "succeeded" => runs[id] = 1
         /\ operations'[id].confirmedBy = operations[id].confirmedBy
         /\ operations'[id].resource = operations[id].resource
         /\ operations'[id].command = operations[id].command
         /\ operations'[id].rev = operations[id].rev
         /\ operations'[id].dialect = operations[id].dialect
         /\ \A i \in Ids \ {id} : Kept(i)
         /\ pendingOperations' = pendingOperations \ {id}
         /\ pendingActions' = pendingActions \ {id}
<1> DEFINE id == req[r].id
<1>1. /\ id \in Ids /\ Exists(id) /\ operations[id].status \in Unfinished
      /\ pendingOperations' = pendingOperations \ {id}
      /\ pendingActions' = pendingActions \ {id}
  BY DEF Closes, At, CompleteResult, Completable, HasStatus, IInv, RequestsWellFormed
<1>2. PICK s \in Finished :
        /\ operations' = [operations EXCEPT ![id] = ClosedRow(r, s)]
        /\ operations[id].status = "pending" => s = "expired"
        /\ s = "succeeded" => runs[id] = 1
  <2>1. CASE At(r, "expire") /\ CompleteResult(id, "expired")
    BY <2>1 DEF CompleteResult, ClosedRow, Finished
  <2>2. CASE At(r, "complete") /\ CompleteResult(id, req[r].outcome)
    <3>1. /\ req[r].outcome \in {"succeeded", "failed"}
          /\ operations[id].status # "pending"
          /\ req[r].outcome = "succeeded" => runs[id] = 1
      BY <2>2 DEF At, IInv, RequestsWellFormed, ClaimInv, OwnerInv, Submitted
    <3> QED BY <2>2, <3>1 DEF CompleteResult, ClosedRow, Finished
  <2> QED BY <2>1, <2>2 DEF Closes
<1>3. operations[id] \in OperationRow
  BY <1>1 DEF Exists, IInv, TypeOK
<1>4. /\ ClosedRow(r, s) \in OperationRow /\ ClosedRow(r, s).status = s
      /\ ClosedRow(r, s).confirmedBy = operations[id].confirmedBy
      /\ ClosedRow(r, s).resource = operations[id].resource
      /\ ClosedRow(r, s).command = operations[id].command
      /\ ClosedRow(r, s).rev = operations[id].rev
      /\ ClosedRow(r, s).dialect = operations[id].dialect
  BY <1>3 DEF ClosedRow, OperationRow, Statuses, Finished
<1>5. operations'[id] = ClosedRow(r, s) /\ \A i \in Ids \ {id} : Kept(i)
  BY <1>1, <1>2 DEF IInv, TypeOK, Kept
<1> QED BY <1>1, <1>2, <1>4, <1>5

-----------------------------------------------------------------------------
(* A row, once written, keeps everything but its status and its            *)
(* confirmed_by, and these once they are final.                            *)
SameOrder(id) == /\ operations'[id].resource = operations[id].resource
                 /\ operations'[id].command = operations[id].command
                 /\ operations'[id].rev = operations[id].rev
                 /\ operations'[id].dialect = operations[id].dialect

FinalRow(id) ==
  /\ operations[id].status \notin Unfinished => operations'[id] = operations[id]
  /\ operations[id].confirmedBy # Nobody =>
       operations'[id].confirmedBy = operations[id].confirmedBy

(* Every step keeps what rows say: no row is removed, no order rewritten.  *)
LEMMA RowsKeep ==
  ASSUME IInv, [Next]_vars, NEW id \in Ids, Exists(id)
  PROVE  Exists(id)' /\ SameOrder(id) /\ FinalRow(id)
<1>0. NoRow \notin OperationRow
  BY ConstantsTyped
<1>1. CASE Kept(id)
  BY <1>1 DEF Kept, Exists, SameOrder, FinalRow
<1>2. CASE \E r \in Requests : Submits(r)
  <2>1. PICK r \in Requests : Submits(r)
    BY <1>2
  <2>2. Kept(id)
    BY <2>1, SubmitsRow DEF NewRow
  <2> QED BY <1>1, <2>2
<1>3. CASE \E r \in Requests : Claims(r)
  <2>1. PICK r \in Requests : Claims(r)
    BY <1>3
  <2>2. CASE id = req[r].id
    BY <1>0, <2>1, <2>2, ClaimsRow DEF Exists, SameOrder, FinalRow, Unfinished
  <2> QED BY <1>1, <2>1, <2>2, ClaimsRow
<1>4. CASE \E r \in Requests : Closes(r)
  <2>1. PICK r \in Requests : Closes(r)
    BY <1>4
  <2>2. CASE id = req[r].id
    BY <1>0, <2>1, <2>2, ClosesRow DEF Exists, SameOrder, FinalRow
  <2> QED BY <1>1, <2>1, <2>2, ClosesRow
<1> QED BY <1>1, <1>2, <1>3, <1>4, AuditStep DEF auditVars, Kept

(* No finished row is written again, and who confirmed stays.              *)
THEOREM RowsAreFinalThm == Spec => RowsAreFinal
<1>1. ASSUME IInv, [Next]_vars
      PROVE  [\A id \in Ids : Exists(id) => FinalRow(id)]_vars
  BY <1>1, RowsKeep
<1> QED BY <1>1, ServiceInit, ServiceStep, PTL DEF Spec, RowsAreFinal, FinalRow

-----------------------------------------------------------------------------
(* The frozen statement is there as long as the operation is unfinished,   *)
(* in the table of its kind.                                               *)
FrozenRow(id) ==
  /\ Frozen(id) <=> Exists(id) /\ operations[id].status \in Unfinished
  /\ Frozen(id) => (id \in pendingOperations <=> IsSQL(id))
  /\ ~(id \in pendingOperations /\ id \in pendingActions)
FrozenInv == \A id \in Ids : FrozenRow(id)

(* A write that freezes leaves the row unfinished; one that finishes it,   *)
(* unfreezes it.                                                           *)
LEMMA FrozenStep == IInv /\ FrozenInv /\ [Next]_vars => FrozenInv'
<1> SUFFICES ASSUME IInv, FrozenInv, [Next]_vars, NEW id \in Ids PROVE FrozenRow(id)'
  BY DEF FrozenInv
<1>0. FrozenRow(id)
  BY DEF FrozenInv
<1>1. CASE /\ Kept(id)
           /\ id \in pendingOperations' <=> id \in pendingOperations
           /\ id \in pendingActions' <=> id \in pendingActions
  BY <1>0, <1>1 DEF Kept, FrozenRow, Frozen, Exists, IsSQL
<1>2. CASE UNCHANGED auditVars
  BY <1>1, <1>2 DEF auditVars, Kept
<1>3. CASE \E r \in Requests : Submits(r)
  <2>1. PICK r \in Requests : Submits(r)
    BY <1>3
  <2>2. CASE id = req[r].id
    <3>1. PICK row \in OperationRow :
            /\ NewRow(r, row) /\ operations'[id] = row
            /\ \/ /\ OfDatabase(r) /\ row.status = "pending"
                  /\ pendingOperations' = pendingOperations \cup {id}
                  /\ UNCHANGED pendingActions
               \/ /\ ~OfDatabase(r) /\ row.status = "pending"
                  /\ pendingActions' = pendingActions \cup {id}
                  /\ UNCHANGED pendingOperations
               \/ /\ row.status = "evaluated"
                  /\ UNCHANGED <<pendingOperations, pendingActions>>
      BY <2>1, <2>2, SubmitsRow
    <3>2. id \notin pendingOperations /\ id \notin pendingActions
      BY <1>0, <2>2, <3>1 DEF FrozenRow, Frozen, NewRow
    <3>3. /\ Exists(id)' /\ operations'[id].status = row.status
          /\ IsSQL(id)' <=> OfDatabase(r)
      BY <3>1, ConstantsTyped DEF Exists, IsSQL, OfDatabase, NewRow
    <3> QED BY <3>1, <3>2, <3>3 DEF FrozenRow, Frozen, Unfinished
  <2>3. CASE id # req[r].id
    BY <1>1, <2>1, <2>3, SubmitsRow
  <2> QED BY <2>2, <2>3
<1>4. CASE \E r \in Requests : Claims(r)
  <2>1. PICK r \in Requests : Claims(r)
    BY <1>4
  <2>2. CASE id = req[r].id
    <3>1. /\ Exists(id) /\ Exists(id)' /\ operations[id].status = "pending"
          /\ operations'[id].status = "executing"
          /\ operations'[id].resource = operations[id].resource
          /\ UNCHANGED <<pendingOperations, pendingActions>>
      BY <2>1, <2>2, ClaimsRow, ConstantsTyped DEF Exists
    <3> QED BY <1>0, <3>1 DEF FrozenRow, Frozen, IsSQL, Unfinished
  <2>3. CASE id # req[r].id
    BY <1>1, <2>1, <2>3, ClaimsRow
  <2> QED BY <2>2, <2>3
<1>5. CASE \E r \in Requests : Closes(r)
  <2>1. PICK r \in Requests : Closes(r)
    BY <1>5
  <2>2. CASE id = req[r].id
    <3>1. /\ operations'[id].status \notin Unfinished
          /\ id \notin pendingOperations' /\ id \notin pendingActions'
      BY <2>1, <2>2, ClosesRow DEF Unfinished, Finished
    <3> QED BY <3>1 DEF FrozenRow, Frozen
  <2>3. CASE id # req[r].id
    BY <1>1, <2>1, <2>3, ClosesRow
  <2> QED BY <2>2, <2>3
<1> QED BY <1>2, <1>3, <1>4, <1>5, AuditStep

(* A statement stays frozen exactly as long as its operation is            *)
(* unfinished: what is confirmed is what was submitted, and nothing is     *)
(* left to be confirmed afterwards.                                        *)
THEOREM FrozenWhileUnfinishedThm == Spec => []FrozenWhileUnfinished
<1>1. Init => FrozenInv
  BY DEF Init, AuditInit, FrozenInv, FrozenRow, Frozen, Exists
<1>2. FrozenInv => FrozenWhileUnfinished
  BY DEF FrozenInv, FrozenRow, FrozenWhileUnfinished, Status, Unfinished
<1> QED BY <1>1, <1>2, FrozenStep, ServiceInit, ServiceStep, PTL DEF Spec

-----------------------------------------------------------------------------
(* What a request knows of the operation it is about.                      *)
Approved(r, dialect) == Decision(r, req[r].rev, dialect, req[r].command) = "confirm"

ConfirmSteps == {"status", "row", "expire", "check", "claim", "run", "complete"}

(* Its deadline, the configuration, the row, the client.                   *)
MyTime(r) ==
  /\ req[r].late => req[r].id \in overdue
  /\ req[r].pc \in {"check", "claim", "run", "complete"} => ~req[r].late
MyConfig(r) ==
  /\ req[r].pc # "idle" => config[Target(r)] \in seen[r]
  /\ Confirming(r) => operations[req[r].id].rev \in seen[r]
MyRow(r) ==
  req[r].pc \in ConfirmSteps =>
    Exists(req[r].id) /\ operations[req[r].id].resource = Target(r)
MyClient(r) ==
  /\ req[r].pc = "evaluate" => OfDatabase(r)
  /\ req[r].pc = "metadata" => ~OfDatabase(r)
  /\ req[r].pc = "freeze" /\ ~OfDatabase(r) => Approved(r, None)
  /\ req[r].pc = "freeze" /\ OfDatabase(r) =>
       call[r].stage = "done" /\ Approved(r, DriverOf[call[r].client])
  /\ req[r].pc = "run" /\ OfDatabase(r) =>
       /\ call[r].stage = "done"
       /\ DriverOf[call[r].client] = operations[req[r].id].dialect

Mine(r) == MyTime(r) /\ MyConfig(r) /\ MyRow(r) /\ MyClient(r)

InCall(q) == call[q].stage \in {"sync", "apply", "fetch"}

(* A request that does not move knows the same afterwards.                 *)
LEMMA MineKept ==
  ASSUME IInv, [Next]_vars, NEW q \in Requests, Mine(q),
         req'[q] = req[q], call'[q].resource = call[q].resource,
         InCall(q) \/ (call'[q].stage = call[q].stage /\ call'[q].client = call[q].client),
         \/ config'[Target(q)] = config[Target(q)]
         \/ config'[Target(q)] \in seen'[q],
         seen[q] \subseteq seen'[q], overdue \subseteq overdue'
  PROVE  Mine(q)'
<1>0. Target(q)' = Target(q) /\ (OfDatabase(q)' <=> OfDatabase(q))
  BY DEF Target, OfDatabase
<1>1. MyTime(q)'
  BY DEF Mine, MyTime
<1>2. req[q].pc \in ConfirmSteps => req[q].id \in Ids
  BY DEF IInv, RequestsWellFormed, ConfirmSteps
<1>3. req[q].pc \in ConfirmSteps => /\ Exists(req[q].id) /\ Exists(req[q].id)'
                                    /\ SameOrder(req[q].id)
  BY <1>2, RowsKeep DEF Mine, MyRow
<1>4. MyConfig(q)'
  BY <1>0, <1>3 DEF Mine, MyConfig, Confirming, SameOrder, ConfirmSteps
<1>5. MyRow(q)'
  BY <1>0, <1>3 DEF Mine, MyRow, SameOrder, Exists
<1>6. MyClient(q)'
  <2>1. \A d : Approved(q, d)' <=> Approved(q, d)
    BY <1>0 DEF Approved, Decision
  <2>2. CASE req[q].pc = "freeze" /\ ~OfDatabase(q)
    BY <1>0, <2>1, <2>2 DEF Mine, MyClient
  <2>3. CASE req[q].pc = "freeze" /\ OfDatabase(q)
    <3>1. call'[q].stage = "done" /\ call'[q].client = call[q].client
      BY <2>3 DEF Mine, MyClient, InCall
    <3> QED BY <1>0, <2>1, <2>3, <3>1 DEF Mine, MyClient
  <2>4. CASE req[q].pc = "run" /\ OfDatabase(q)
    <3>1. call'[q].stage = "done" /\ call'[q].client = call[q].client
      BY <2>4 DEF Mine, MyClient, InCall
    <3> QED BY <1>0, <1>3, <2>4, <3>1 DEF Mine, MyClient, SameOrder, ConfirmSteps
  <2>5. CASE ~(req[q].pc \in {"freeze", "run"})
    BY <1>0, <2>5 DEF Mine, MyClient
  <2> QED BY <1>0, <2>2, <2>3, <2>4, <2>5 DEF MyClient
<1> QED BY <1>1, <1>4, <1>5, <1>6 DEF Mine

(* A request that ended knows nothing.                                     *)
LEMMA MineIdle ==
  ASSUME NEW q, req'[q] = NoRequest PROVE Mine(q)'
<1>1. req'[q].pc = "idle" /\ req'[q].late = FALSE
  BY DEF NoRequest
<1> QED BY <1>1 DEF Mine, MyTime, MyConfig, MyRow, MyClient, Confirming, ConfirmSteps

(* Whatever a request does, the others do not move.                        *)
Elsewhere(r) ==
  /\ config' = config /\ overdue' = overdue
  /\ \A q \in Requests \ {r} : /\ req'[q] = req[q] /\ call'[q].stage = call[q].stage
                                /\ call'[q].client = call[q].client
                                /\ call'[q].resource = call[q].resource
                                /\ seen'[q] = seen[q]

(* The end of a request changes nothing that another one has seen.         *)
LEMMA EndsElsewhere ==
  ASSUME IInv, NEW r \in Requests, Done(r), overdue' = overdue
  PROVE  Elsewhere(r) /\ req'[r] = NoRequest
BY DEF IInv, TypeOK, CacheTypeOK, Done, Release, Elsewhere

(* The move of a request changes nothing that another one has seen.        *)
LEMMA MovesElsewhere ==
  ASSUME IInv, NEW r \in Requests, NEW st, req' = [req EXCEPT ![r] = st], overdue' = overdue,
         \/ UNCHANGED cacheVars
         \/ StartCall(r)
         \/ \E x \in Resources, stage \in {"none", "sync"} : Open(r, x, stage)
  PROVE  Elsewhere(r) /\ req'[r] = st
<1>1. req'[r] = st /\ \A q \in Requests \ {r} : req'[q] = req[q]
  BY DEF IInv, TypeOK
<1>2. config' = config
  BY DEF cacheVars, StartCall, Open
<1>3. \A q \in Requests \ {r} : call'[q] = call[q] /\ seen'[q] = seen[q]
  <2>1. CASE UNCHANGED cacheVars
    BY <2>1 DEF cacheVars
  <2>2. CASE StartCall(r)
    BY <2>2 DEF StartCall, IInv, TypeOK, CacheTypeOK
  <2>3. CASE \E x \in Resources, stage \in {"none", "sync"} : Open(r, x, stage)
    BY <2>3 DEF Open, IInv, TypeOK, CacheTypeOK
  <2> QED BY <2>1, <2>2, <2>3
<1> QED BY <1>1, <1>2, <1>3 DEF Elsewhere

MineInv == \A r \in Requests : Mine(r)

(* Only what the request that moves knows has to be shown.                 *)
LEMMA OneMoves ==
  ASSUME IInv, MineInv, [Next]_vars, NEW r \in Requests, Elsewhere(r), Mine(r)'
  PROVE  MineInv'
<1> SUFFICES ASSUME NEW q \in Requests PROVE Mine(q)'
  BY DEF MineInv
<1>1. CASE q = r
  BY <1>1
<1>2. CASE q # r
  <2>1. Mine(q)
    BY DEF MineInv
  <2> QED BY <1>2, <2>1, MineKept DEF Elsewhere
<1> QED BY <1>1, <1>2

-----------------------------------------------------------------------------
(* A request that ends leaves MineInv alone; one that moves on has to know *)
(* what its next step needs.                                               *)
LEMMA MineEnds ==
  ASSUME IInv, MineInv, [Next]_vars, NEW r \in Requests, Done(r), overdue' = overdue
  PROVE  MineInv'
BY EndsElsewhere, MineIdle, OneMoves

(* A request that begins has seen nothing yet.                             *)
LEMMA MineBegins ==
  ASSUME IInv, MineInv, [Next]_vars, NEW r \in Requests, Begin(r)
  PROVE  MineInv'
<1>1. ASSUME NEW x \in Resources, NEW c \in Commands, NEW id \in Ids, BeginPrepare(r, x, c, id)
      PROVE  MineInv'
  <2> DEFINE st == [NoRequest EXCEPT !.id = id, !.command = c,
                     !.pc = IF TypeOf[x] = "database" THEN "evaluate" ELSE "metadata"]
             stage == IF TypeOf[x] = "database" THEN "sync" ELSE "none"
  <2>1. req' = [req EXCEPT ![r] = st] /\ Open(r, x, stage) /\ overdue' = overdue
    BY <1>1 DEF BeginPrepare
  <2>2. /\ st.pc = IF TypeOf[x] = "database" THEN "evaluate" ELSE "metadata"
        /\ st.late = FALSE
    BY DEF NoRequest
  <2> HIDE DEF st
  <2>3. Elsewhere(r) /\ req'[r] = st
    BY <2>1, MovesElsewhere
  <2>4. call'[r].resource = x /\ seen'[r] = {config[x]}
    BY <2>1 DEF Open, For, NoCall, IInv, TypeOK, CacheTypeOK
  <2>5. Mine(r)'
    BY <2>2, <2>3, <2>4 DEF Mine, MyTime, MyConfig, MyRow, MyClient, Confirming, ConfirmSteps,
                            Target, OfDatabase, Elsewhere
  <2> QED BY <2>3, <2>5, OneMoves
<1>2. ASSUME NEW id \in Ids, BeginConfirm(r, id)
      PROVE  MineInv'
  <2> DEFINE x  == operations[id].resource
             st == [NoRequest EXCEPT !.id = id,
                     !.pc = IF TypeOf[x] = "database" THEN "status" ELSE "row",
                     !.late = id \in overdue]
  <2>1. /\ req' = [req EXCEPT ![r] = st] /\ Open(r, x, "none") /\ overdue' = overdue
        /\ Exists(id) /\ x \in Resources /\ UNCHANGED auditVars
    BY <1>2 DEF BeginConfirm, Exists, IInv, TypeOK, OperationRow
  <2>2. st.pc \in {"status", "row"} /\ st.id = id /\ (st.late => id \in overdue)
    BY DEF NoRequest
  <2> HIDE DEF st
  <2>3. Elsewhere(r) /\ req'[r] = st
    BY <2>1, MovesElsewhere
  <2>4. call'[r].resource = x /\ seen'[r] = {config[x]}
    BY <2>1 DEF Open, For, NoCall, IInv, TypeOK, CacheTypeOK
  <2>5. Exists(id)' /\ operations'[id].resource = x
    BY <2>1 DEF auditVars, Exists
  <2>6. Mine(r)'
    BY <2>2, <2>3, <2>4, <2>5 DEF Mine, MyTime, MyConfig, MyRow, MyClient, Confirming,
                                  ConfirmSteps, Target, Elsewhere
  <2> QED BY <2>3, <2>6, OneMoves
<1> QED BY <1>1, <1>2 DEF Begin

(* A request moves on with the same operation.                             *)
LEMMA MovesOn ==
  ASSUME IInv, MineInv, NEW r \in Requests, NEW st \in RequestState,
         req' = [req EXCEPT ![r] = st], overdue' = overdue,
         UNCHANGED cacheVars \/ StartCall(r),
         st.id = req[r].id, st.late = req[r].late, req[r].pc # "idle"
  PROVE  /\ Elsewhere(r) /\ req'[r] = st /\ Mine(r)
         /\ Target(r)' = Target(r) /\ (OfDatabase(r)' <=> OfDatabase(r))
         /\ config' = config /\ seen' = seen
<1>1. Elsewhere(r) /\ req'[r] = st
  BY MovesElsewhere
<1>2. call'[r].resource = call[r].resource /\ config' = config /\ seen' = seen
  <2>1. CASE UNCHANGED cacheVars
    BY <2>1 DEF cacheVars
  <2>2. CASE StartCall(r)
    BY <2>2 DEF StartCall, IInv, TypeOK, CacheTypeOK, Call
  <2> QED BY <2>1, <2>2
<1> QED BY <1>1, <1>2 DEF MineInv, Target, OfDatabase

(* Submitting: policy has asked for a confirmation of what is frozen.      *)
LEMMA MinePrepares ==
  ASSUME IInv, MineInv, [Next]_vars, NEW r \in Requests, EvaluateSQL(r) \/ PrepareAction(r)
  PROVE  MineInv'
<1>0. overdue' = overdue /\ UNCHANGED auditVars
  BY DEF EvaluateSQL, PrepareAction
<1>1. CASE Done(r)
  BY <1>0, <1>1, MineEnds
<1>2. CASE ~Done(r) /\ EvaluateSQL(r)
  <2> DEFINE ask == Decision(r, Current(r), DriverOf[call[r].client], req[r].command) = "confirm"
             pc == IF ask THEN "freeze" ELSE "record"
             st == [req[r] EXCEPT !.rev = Current(r), !.pc = pc]
  <2>1. /\ req' = [req EXCEPT ![r].rev = Current(r), ![r].pc = pc] /\ UNCHANGED cacheVars
        /\ req[r].pc = "evaluate" /\ call[r].stage = "done" /\ Current(r) # None
    BY <1>2 DEF EvaluateSQL, At, Answered
  <2>2. req' = [req EXCEPT ![r] = st]
    BY <2>1
  <2>3. req[r] \in RequestState /\ Target(r) \in Resources /\ Current(r) \in Configs
    BY <2>1 DEF IInv, TypeOK, CacheTypeOK, RequestsWellFormed, Target, Current
  <2>4. /\ st \in RequestState /\ st.pc = pc /\ st.rev = Current(r)
        /\ st.late = req[r].late /\ st.id = req[r].id /\ st.command = req[r].command
    BY <2>3 DEF RequestState, Steps
  <2> HIDE DEF st
  <2>5. /\ Elsewhere(r) /\ req'[r] = st /\ Mine(r)
        /\ Target(r)' = Target(r) /\ (OfDatabase(r)' <=> OfDatabase(r))
        /\ config' = config /\ seen' = seen
    BY <1>0, <2>1, <2>2, <2>4, MovesOn
  <2>6. OfDatabase(r) /\ call' = call
    BY <2>1, <2>5 DEF Mine, MyClient, cacheVars
  <2>7. MyTime(r)' /\ MyConfig(r)' /\ MyRow(r)'
    BY <2>1, <2>4, <2>5 DEF Mine, MyTime, MyConfig, MyRow, Confirming, ConfirmSteps, Elsewhere
  <2>8. pc = "freeze" => Approved(r, DriverOf[call[r].client])'
    BY <2>4, <2>5, <2>6 DEF Approved, Decision
  <2>9. MyClient(r)'
    BY <2>1, <2>4, <2>5, <2>6, <2>8 DEF MyClient
  <2> QED BY <2>5, <2>7, <2>9, OneMoves DEF Mine
<1>3. CASE ~Done(r) /\ PrepareAction(r)
  <2> DEFINE st == [req[r] EXCEPT !.rev = Current(r), !.pc = "freeze"]
  <2>1. /\ req' = [req EXCEPT ![r].rev = Current(r), ![r].pc = "freeze"] /\ StartCall(r)
        /\ req[r].pc = "metadata"
        /\ Decision(r, Current(r), None, req[r].command) = "confirm"
    BY <1>3 DEF PrepareAction, At
  <2>2. req' = [req EXCEPT ![r] = st]
    BY <2>1
  <2>3. req[r] \in RequestState /\ Target(r) \in Resources /\ Current(r) \in Configs
    BY <2>1 DEF IInv, TypeOK, CacheTypeOK, RequestsWellFormed, Target, Current
  <2>4. /\ st \in RequestState /\ st.pc = "freeze" /\ st.rev = Current(r)
        /\ st.late = req[r].late /\ st.id = req[r].id /\ st.command = req[r].command
    BY <2>3 DEF RequestState, Steps
  <2> HIDE DEF st
  <2>5. /\ Elsewhere(r) /\ req'[r] = st /\ Mine(r)
        /\ Target(r)' = Target(r) /\ (OfDatabase(r)' <=> OfDatabase(r))
        /\ config' = config /\ seen' = seen
    BY <1>0, <2>1, <2>2, <2>4, MovesOn
  <2>6. ~OfDatabase(r)
    BY <2>1, <2>5 DEF Mine, MyClient
  <2>7. MyTime(r)' /\ MyConfig(r)' /\ MyRow(r)'
    BY <2>1, <2>4, <2>5 DEF Mine, MyTime, MyConfig, MyRow, Confirming, ConfirmSteps, Elsewhere
  <2>8. Approved(r, None)'
    BY <2>1, <2>4, <2>5 DEF Approved, Decision
  <2>9. MyClient(r)'
    BY <2>4, <2>5, <2>6, <2>8 DEF MyClient
  <2> QED BY <2>5, <2>7, <2>9, OneMoves DEF Mine
<1> QED BY <1>1, <1>2, <1>3

(* Confirming, up to the claim: the row, its deadline, its revision.       *)
LEMMA MineChecks ==
  ASSUME IInv, MineInv, [Next]_vars, NEW r \in Requests,
         CheckStatus(r) \/ ReadRow(r) \/ CheckResource(r)
  PROVE  MineInv'
<1>0. overdue' = overdue /\ UNCHANGED auditVars
  BY DEF CheckStatus, ReadRow, CheckResource
<1>1. CASE Done(r)
  BY <1>0, <1>1, MineEnds
<1>2. CASE ~Done(r)
  <2>1. PICK pc \in {"row", "expire", "check", "claim"} :
          /\ req' = [req EXCEPT ![r].pc = pc]
          /\ UNCHANGED cacheVars \/ StartCall(r)
          /\ req[r].pc \in {"status", "row", "check"}
          /\ pc = "check" => req[r].pc = "row" /\ req[r].id \notin overdue
          /\ pc = "claim" => req[r].pc = "check" /\ StillConfirmable(r)
    <3>1. CASE CheckStatus(r)
      BY <1>2, <3>1 DEF CheckStatus, Goto, At
    <3>2. CASE ReadRow(r)
      BY <1>2, <3>2 DEF ReadRow, Goto, At
    <3>3. CASE CheckResource(r)
      BY <1>2, <3>3 DEF CheckResource, Goto, At
    <3> QED BY <3>1, <3>2, <3>3
  <2> DEFINE st == [req[r] EXCEPT !.pc = pc]
  <2>2. req' = [req EXCEPT ![r] = st]
    BY <2>1
  <2>3. req[r] \in RequestState /\ req[r].id \in Ids
    BY <2>1 DEF IInv, TypeOK, RequestsWellFormed
  <2>4. st \in RequestState /\ st.pc = pc /\ st.late = req[r].late /\ st.id = req[r].id
    BY <2>3 DEF RequestState, Steps
  <2> HIDE DEF st
  <2>5. /\ Elsewhere(r) /\ req'[r] = st /\ Mine(r)
        /\ Target(r)' = Target(r) /\ (OfDatabase(r)' <=> OfDatabase(r))
        /\ config' = config /\ seen' = seen
    BY <1>0, <2>1, <2>2, <2>4, MovesOn
  <2>6. MyTime(r)'
    BY <2>1, <2>4, <2>5 DEF Mine, MyTime, Elsewhere
  <2>7. operations' = operations
    BY <1>0 DEF auditVars
  <2>8. pc = "claim" => operations[req[r].id].rev \in seen[r]
    BY <2>1, <2>5 DEF StillConfirmable, Current, Mine, MyConfig
  <2>9. MyConfig(r)'
    BY <2>1, <2>4, <2>5, <2>7, <2>8 DEF Mine, MyConfig, Confirming
  <2>10. MyRow(r)' /\ MyClient(r)'
    BY <2>1, <2>4, <2>5, <2>7 DEF Mine, MyRow, MyClient, ConfirmSteps, Exists
  <2> QED BY <2>5, <2>6, <2>9, <2>10, OneMoves DEF Mine
<1> QED BY <1>1, <1>2

(* The claim, made through a client of the dialect of the row.             *)
LEMMA MineClaims ==
  ASSUME IInv, MineInv, [Next]_vars, NEW r \in Requests, Claim(r)
  PROVE  MineInv'
<1>0. overdue' = overdue
  BY DEF Claim
<1>1. CASE Done(r)
  BY <1>0, <1>1, MineEnds
<1>2. CASE ~Done(r)
  <2> DEFINE st == [req[r] EXCEPT !.pc = "run"]
  <2>1. /\ Claims(r) /\ req[r].pc = "claim"
        /\ req' = [req EXCEPT ![r] = st]
        /\ OfDatabase(r) => UNCHANGED cacheVars /\ call[r].stage = "done" /\ SameDialect(r)
        /\ ~OfDatabase(r) => StartCall(r)
    BY <1>2 DEF Claim, Claims, Goto, At
  <2>2. req[r] \in RequestState /\ req[r].id \in Ids
    BY <2>1 DEF IInv, TypeOK, RequestsWellFormed
  <2>3. st \in RequestState /\ st.pc = "run" /\ st.late = req[r].late /\ st.id = req[r].id
    BY <2>2 DEF RequestState, Steps
  <2> HIDE DEF st
  <2>4. /\ Elsewhere(r) /\ req'[r] = st /\ Mine(r)
        /\ Target(r)' = Target(r) /\ (OfDatabase(r)' <=> OfDatabase(r))
        /\ config' = config /\ seen' = seen
    BY <1>0, <2>1, <2>3, MovesOn
  <2>5. /\ Exists(req[r].id) /\ operations'[req[r].id] # NoRow /\ SameOrder(req[r].id)
    BY <2>1, ClaimsRow, ConstantsTyped DEF SameOrder
  <2>6. MyTime(r)' /\ MyConfig(r)' /\ MyRow(r)'
    BY <2>1, <2>3, <2>4, <2>5 DEF Mine, MyTime, MyConfig, MyRow, Confirming, ConfirmSteps,
                                  Exists, SameOrder, Elsewhere
  <2>7. OfDatabase(r) => call' = call
    BY <2>1 DEF cacheVars
  <2>8. MyClient(r)'
    BY <2>1, <2>3, <2>4, <2>5, <2>7 DEF MyClient, SameDialect, SameOrder
  <2> QED BY <2>4, <2>6, <2>8, OneMoves DEF Mine
<1> QED BY <1>1, <1>2

(* The run, and the outcome to write.                                      *)
LEMMA MineRuns ==
  ASSUME IInv, MineInv, [Next]_vars, NEW r \in Requests, Run(r) \/ RunWithoutClient(r)
  PROVE  MineInv'
<1>1. PICK outcome \in {"succeeded", "failed"} :
        req' = [req EXCEPT ![r].pc = "complete", ![r].outcome = outcome]
  BY DEF Run, RunWithoutClient, Outcomes
<1>2. /\ req[r].pc = "run" /\ UNCHANGED cacheVars /\ UNCHANGED auditVars
      /\ overdue' = overdue
  BY DEF Run, RunWithoutClient, At
<1> DEFINE st == [req[r] EXCEPT !.pc = "complete", !.outcome = outcome]
<1>3. req' = [req EXCEPT ![r] = st]
  BY <1>1
<1>4. req[r] \in RequestState
  BY DEF IInv, TypeOK
<1>5. st \in RequestState /\ st.pc = "complete" /\ st.late = req[r].late /\ st.id = req[r].id
  BY <1>4 DEF RequestState, Steps
<1> HIDE DEF st
<1>6. /\ Elsewhere(r) /\ req'[r] = st /\ Mine(r)
      /\ Target(r)' = Target(r) /\ (OfDatabase(r)' <=> OfDatabase(r))
      /\ config' = config /\ seen' = seen
  BY <1>2, <1>3, <1>5, MovesOn
<1>7. operations' = operations
  BY <1>2 DEF auditVars
<1>8. MyTime(r)' /\ MyConfig(r)' /\ MyRow(r)' /\ MyClient(r)'
  BY <1>2, <1>5, <1>6, <1>7 DEF Mine, MyTime, MyConfig, MyRow, MyClient, Confirming,
                                ConfirmSteps, Exists, Elsewhere
<1> QED BY <1>6, <1>8, OneMoves DEF Mine

(* The steps of a client call: the request does not move.                  *)
LEMMA MineCalls ==
  ASSUME IInv, MineInv, [Next]_vars, NEW r \in Requests, ClientStep(r)
  PROVE  MineInv'
<1>1. CacheStep(r) /\ req' = req /\ overdue' = overdue
  BY DEF ClientStep, serviceVars
<1>2. config' = config /\ seen' = seen
  BY <1>1 DEF CacheStep, Advance, SyncRead, SyncApply, FetchCached, FetchNew, FetchFails,
            CloseIdle
<1>3. /\ InCall(r)
      /\ \A q \in Requests : call'[q].resource = call[q].resource
      /\ \A q \in Requests : q # r => /\ call'[q].stage = call[q].stage
                                      /\ call'[q].client = call[q].client
  BY <1>1, CacheStepFrame DEF IInv, InCall
<1> SUFFICES ASSUME NEW q \in Requests PROVE Mine(q)'
  BY DEF MineInv
<1>4. Mine(q)
  BY DEF MineInv
<1> QED BY <1>1, <1>2, <1>3, <1>4, MineKept

(* The clock and the editors: what was seen stays seen.                    *)
LEMMA MineOutside ==
  ASSUME IInv, MineInv, [Next]_vars,
         \/ \E id \in Ids : PassDeadline(id)
         \/ \E x \in Resources, rev \in Configs : Edit(x, rev)
         \/ UNCHANGED vars
  PROVE  MineInv'
<1> SUFFICES ASSUME NEW q \in Requests PROVE Mine(q)'
  BY DEF MineInv
<1>1. Mine(q)
  BY DEF MineInv
<1>2. req' = req /\ call' = call /\ overdue \subseteq overdue'
  BY DEF PassDeadline, Edit, EditConfig, vars, cacheVars, serviceVars
<1>3. CASE UNCHANGED cacheVars
  BY <1>1, <1>2, <1>3, MineKept DEF cacheVars
<1>4. CASE \E x \in Resources, rev \in Configs : Edit(x, rev)
  <2>1. PICK x \in Resources, rev \in Configs : EditConfig(x, rev)
    BY <1>4 DEF Edit
  <2>2. CASE Target(q) = x
    <3>1. config'[Target(q)] = rev /\ seen'[q] = seen[q] \cup {rev}
      BY <2>1, <2>2 DEF EditConfig, Target, IInv, TypeOK, CacheTypeOK
    <3> QED BY <1>1, <1>2, <3>1, MineKept
  <2>3. CASE Target(q) # x
    <3>1. config'[Target(q)] = config[Target(q)] /\ seen'[q] = seen[q]
      BY <2>1, <2>3 DEF EditConfig, Target, IInv, TypeOK, CacheTypeOK
    <3> QED BY <1>1, <1>2, <3>1, MineKept
  <2> QED BY <2>2, <2>3
<1> QED BY <1>3, <1>4 DEF PassDeadline, vars

(* After a restart no request is left to know anything.                    *)
LEMMA MineRestarts ==
  ASSUME Restart PROVE MineInv'
<1> SUFFICES ASSUME NEW q \in Requests PROVE Mine(q)'
  BY DEF MineInv
<1>1. req'[q] = NoRequest
  BY DEF Restart
<1> QED BY <1>1, MineIdle

(* Every step keeps what the requests know true.                           *)
LEMMA MineStep == IInv /\ MineInv /\ [Next]_vars => MineInv'
<1> SUFFICES ASSUME IInv, MineInv, [Next]_vars PROVE MineInv'
  OBVIOUS
<1>1. CASE \E r \in Requests : Begin(r)
  BY <1>1, MineBegins
<1>2. CASE \E r \in Requests : Proceed(r) \/ StoreError(r)
  <2>1. PICK r \in Requests : Proceed(r) \/ StoreError(r)
    BY <1>2
  <2>2. CASE Freeze(r) \/ RecordEvaluated(r) \/ Expire(r) \/ Complete(r) \/ StoreError(r)
    <3>1. Done(r) /\ overdue' = overdue
      BY <2>2 DEF Freeze, RecordEvaluated, Expire, Complete, StoreError
    <3> QED BY <3>1, MineEnds
  <2>3. CASE ~(Freeze(r) \/ RecordEvaluated(r) \/ Expire(r) \/ Complete(r) \/ StoreError(r))
    BY <2>1, <2>3, MinePrepares, MineChecks, MineClaims, MineRuns DEF Proceed
  <2> QED BY <2>2, <2>3
<1>3. CASE \E r \in Requests : ClientStep(r)
  BY <1>3, MineCalls
<1>4. CASE \/ \E id \in Ids : PassDeadline(id)
           \/ \E x \in Resources, rev \in Configs : Edit(x, rev)
           \/ UNCHANGED vars
  BY <1>4, MineOutside
<1>5. CASE Restart
  BY <1>5, MineRestarts
<1> QED BY <1>1, <1>2, <1>3, <1>4, <1>5 DEF Next

(* At first no request runs.                                               *)
LEMMA MineInit == Init => MineInv
<1> SUFFICES ASSUME Init, NEW r \in Requests PROVE Mine(r)
  BY DEF MineInv
<1>1. req[r].pc = "idle" /\ req[r].late = FALSE
  BY DEF Init, NoRequest
<1> QED BY <1>1 DEF Mine, MyTime, MyConfig, MyRow, MyClient, Confirming, ConfirmSteps

(* A confirmation goes through only if the configuration the operation was *)
(* prepared for was in force during it, however the configurations change  *)
(* and the process restarts meanwhile.                                     *)
THEOREM ApprovedConfigSeenThm == Spec => []ApprovedConfigSeen
<1>1. MineInv => ApprovedConfigSeen
  BY DEF MineInv, Mine, MyConfig, ApprovedConfigSeen, Confirming
<1> QED BY <1>1, MineInit, MineStep, ServiceInit, ServiceStep, PTL DEF Spec

(* A confirmation that arrived after the deadline does not go through.     *)
THEOREM DeadlineHonouredThm == Spec => []DeadlineHonoured
<1>1. MineInv => DeadlineHonoured
  BY DEF MineInv, Mine, MyTime, DeadlineHonoured, Confirming
<1> QED BY <1>1, MineInit, MineStep, ServiceInit, ServiceStep, PTL DEF Spec

-----------------------------------------------------------------------------
(* What policy asked to have confirmed, and through what client it ran.    *)
NeedsConfirm(id) ==
  LET op == operations[id] IN
  (IF IsSQL(id)
     THEN EvaluateSQLForEnvironment(EnvironmentOf[op.rev], op.dialect, op.command)
     ELSE EvaluateActionForEnvironment(EnvironmentOf[op.rev], TypeOf[op.resource],
                                       op.command)).decision = "confirm"
RanThere(id) ==
  runs[id] > 0 /\ IsSQL(id) => DriverOf[ranOn[id]] = operations[id].dialect

PolicyInv == \A id \in Ids :
  Exists(id) /\ operations[id].status # "evaluated" => NeedsConfirm(id)
ClientInv == \A id \in Ids : RanThere(id)

(* Every step keeps the rows that wait within what policy lets confirm.    *)
LEMMA PolicyStep == IInv /\ MineInv /\ PolicyInv /\ [Next]_vars => PolicyInv'
<1> SUFFICES ASSUME IInv, MineInv, PolicyInv, [Next]_vars, NEW id \in Ids,
                    Exists(id)', operations'[id].status # "evaluated"
             PROVE  NeedsConfirm(id)'
  BY DEF PolicyInv
<1>1. CASE Exists(id)
  <2>1. SameOrder(id) /\ FinalRow(id)
    BY <1>1, RowsKeep
  <2>2. operations[id].status # "evaluated"
    BY <2>1 DEF FinalRow, Unfinished
  <2>3. NeedsConfirm(id)
    BY <1>1, <2>2 DEF PolicyInv
  <2> QED BY <2>1, <2>3 DEF NeedsConfirm, SameOrder, IsSQL
<1>2. CASE ~Exists(id)
  <2>1. PICK r \in Requests : Submits(r) \/ Claims(r) \/ Closes(r)
    BY <1>2, AuditStep DEF auditVars, Exists
  <2>2. ~Kept(id)
    BY <1>2 DEF Kept, Exists
  <2>3. id = req[r].id /\ Submits(r)
    BY <1>2, <2>1, <2>2, SubmitsRow, ClaimsRow, ClosesRow
  <2>4. PICK row \in OperationRow :
          /\ NewRow(r, row) /\ operations'[id] = row
          /\ \/ /\ At(r, "freeze") /\ OfDatabase(r)
                /\ row.dialect = DriverOf[call[r].client]
             \/ At(r, "freeze") /\ ~OfDatabase(r)
             \/ row.status = "evaluated"
    BY <2>3, SubmitsRow
  <2>5. At(r, "freeze") /\ (OfDatabase(r) => row.dialect = DriverOf[call[r].client])
    BY <2>4
  <2>6. Mine(r)
    BY DEF MineInv
  <2>7. CASE OfDatabase(r)
    <3>1. Decision(r, row.rev, row.dialect, row.command) = "confirm"
      BY <2>4, <2>5, <2>6, <2>7 DEF Mine, MyClient, At, Approved, NewRow
    <3>2. IsSQL(id)'
      BY <2>4, <2>7 DEF IsSQL, OfDatabase, NewRow
    <3> QED BY <2>4, <2>7, <3>1, <3>2 DEF NeedsConfirm, Decision
  <2>8. CASE ~OfDatabase(r)
    <3>1. Decision(r, row.rev, None, row.command) = "confirm"
      BY <2>4, <2>5, <2>6, <2>8 DEF Mine, MyClient, At, Approved, NewRow
    <3>2. ~IsSQL(id)' /\ row.resource = Target(r)
      BY <2>4, <2>8 DEF IsSQL, OfDatabase, NewRow
    <3> QED BY <2>4, <2>8, <3>1, <3>2 DEF NeedsConfirm, Decision
  <2> QED BY <2>7, <2>8
<1> QED BY <1>1, <1>2

(* The only step that counts a run.                                        *)
LEMMA RunStep ==
  ASSUME IInv, [Next]_vars
  PROVE  \/ UNCHANGED <<runs, ranOn>>
         \/ \E r \in Requests :
              /\ Run(r) /\ UNCHANGED auditVars
              /\ req[r].id \in Ids /\ runs[req[r].id] = 0
              /\ \/ UNCHANGED <<runs, ranOn>>
                 \/ /\ runs' = [runs EXCEPT ![req[r].id] = 1]
                    /\ ranOn' = [ranOn EXCEPT ![req[r].id] = call[r].client]
<1>1. CASE \E r \in Requests : Run(r)
  <2>1. PICK r \in Requests : Run(r)
    BY <1>1
  <2>2. req[r].id \in Ids /\ runs[req[r].id] = 0 /\ UNCHANGED auditVars
    BY <2>1 DEF Run, At, IInv, RequestsWellFormed, ClaimInv, OwnerInv
  <2>3. PICK o \in Outcomes(r) :
          /\ runs' = [runs EXCEPT ![req[r].id] = @ + o[1]]
          /\ ranOn' = IF o[1] = 1 THEN [ranOn EXCEPT ![req[r].id] = call[r].client] ELSE ranOn
    BY <2>1 DEF Run
  <2>4. o = <<0, "failed">> \/ o = <<1, "failed">> \/ o = <<1, "succeeded">>
    BY Zenon DEF Outcomes
  <2>5. runs \in [Ids -> Nat]
    BY DEF IInv, TypeOK
  <2>6. CASE o[1] = 0
    <3>1. runs' = [runs EXCEPT ![req[r].id] = @ + 0]
      BY <2>3, <2>6
    <3> QED BY <2>1, <2>2, <2>3, <2>5, <2>6, <3>1
  <2>7. CASE o[1] = 1
    <3>1. runs' = [runs EXCEPT ![req[r].id] = @ + 1]
      BY <2>3, <2>7
    <3>2. runs' = [runs EXCEPT ![req[r].id] = 1]
      BY <2>2, <2>5, <3>1
    <3>3. ranOn' = [ranOn EXCEPT ![req[r].id] = call[r].client]
      BY <2>3, <2>7
    <3> QED BY <2>1, <2>2, <3>2, <3>3
  <2> QED BY <2>4, <2>6, <2>7
<1>2. CASE ~\E r \in Requests : Run(r)
  <2>1. CASE \E r \in Requests : Begin(r) \/ ClientStep(r) \/ StoreError(r)
    BY <2>1 DEF Begin, BeginPrepare, BeginConfirm, ClientStep, StoreError, serviceVars
  <2>2. CASE \E r \in Requests : Proceed(r)
    BY <1>2, <2>2 DEF Proceed, EvaluateSQL, PrepareAction, Freeze, RecordEvaluated, CheckStatus,
       ReadRow, Expire, CheckResource, Claim, RunWithoutClient, Complete
  <2>3. CASE \/ \E id \in Ids : PassDeadline(id)
             \/ \E x \in Resources, rev \in Configs : Edit(x, rev)
             \/ Restart \/ UNCHANGED vars
    BY <2>3 DEF PassDeadline, Edit, Restart, vars, serviceVars
  <2> QED BY <2>1, <2>2, <2>3 DEF Next
<1> QED BY <1>1, <1>2

(* Every step keeps the record of the clients that ran, in their dialect.  *)
LEMMA ClientInvStep == IInv /\ MineInv /\ ClientInv /\ [Next]_vars => ClientInv'
<1> SUFFICES ASSUME IInv, MineInv, ClientInv, [Next]_vars, NEW id \in Ids
             PROVE  RanThere(id)'
  BY DEF ClientInv
<1>1. RanThere(id)
  BY DEF ClientInv
<1>2. runs[id] > 0 => Exists(id)
  BY DEF IInv, ClaimInv, RowInv
<1>3. CASE UNCHANGED <<runs, ranOn>>
  <2>1. CASE Exists(id)
    BY <1>1, <1>3, <2>1, RowsKeep DEF RanThere, SameOrder, IsSQL
  <2> QED BY <1>2, <1>3, <2>1 DEF RanThere
<1>4. ASSUME NEW r \in Requests, Run(r), UNCHANGED auditVars, req[r].id \in Ids,
             runs' = [runs EXCEPT ![req[r].id] = 1],
             ranOn' = [ranOn EXCEPT ![req[r].id] = call[r].client]
      PROVE  RanThere(id)'
  <2>1. operations' = operations /\ Mine(r) /\ req[r].pc = "run"
    BY <1>4 DEF auditVars, MineInv, Run, At
  <2>2. CASE id = req[r].id
    <3>1. ranOn'[id] = call[r].client
      BY <1>4, <2>2 DEF IInv, TypeOK
    <3>2. IsSQL(id) => OfDatabase(r)
      BY <2>1, <2>2 DEF IsSQL, OfDatabase, Mine, MyRow, ConfirmSteps
    <3> QED BY <2>1, <2>2, <3>1, <3>2 DEF RanThere, IsSQL, Mine, MyClient
  <2>3. CASE id # req[r].id
    <3>1. runs'[id] = runs[id] /\ ranOn'[id] = ranOn[id]
      BY <1>4, <2>3 DEF IInv, TypeOK
    <3> QED BY <1>1, <2>1, <3>1 DEF RanThere, IsSQL
  <2> QED BY <2>2, <2>3
<1> QED BY <1>3, <1>4, RunStep

(* What is frozen or ran is what policy wanted confirmed in the            *)
(* environment of its configuration and under its dialect.                 *)
THEOREM OnlyWhatIsConfirmable == Spec => []FrozenIsConfirmable
<1>1. Init => PolicyInv /\ FrozenInv
  BY DEF Init, AuditInit, PolicyInv, FrozenInv, FrozenRow, Frozen, Exists
<1>2. IInv /\ FrozenInv /\ PolicyInv => FrozenIsConfirmable
  <2> SUFFICES ASSUME IInv, FrozenInv, PolicyInv, NEW id \in Ids, Frozen(id) \/ runs[id] > 0
               PROVE  NeedsConfirm(id)
    BY DEF FrozenIsConfirmable, NeedsConfirm
  <2>1. Exists(id) /\ operations[id].status # "evaluated"
    BY DEF FrozenInv, FrozenRow, Unfinished, IInv, ClaimInv, RowInv, Submitted
  <2> QED BY <2>1 DEF PolicyInv
<1> QED BY <1>1, <1>2, FrozenStep, PolicyStep, MineInit, MineStep,
           ServiceInit, ServiceStep, PTL DEF Spec

(* What runs was parsed and approved under the dialect of the client it    *)
(* runs through, whatever was edited meanwhile.                            *)
THEOREM RunsInItsDialectThm == Spec => []RunsInItsDialect
<1>1. Init => ClientInv
  BY DEF Init, AuditInit, ClientInv, RanThere
<1>2. ClientInv => RunsInItsDialect
  BY DEF ClientInv, RanThere, RunsInItsDialect
<1> QED BY <1>1, <1>2, ClientInvStep, MineInit, MineStep,
           ServiceInit, ServiceStep, PTL DEF Spec

-----------------------------------------------------------------------------
(* The promise of OperationLifecycle, operation by operation: what one     *)
(* step may do to the status, the confirmation and the run of id.          *)
IsConfirmed(id) == Exists(id) /\ operations[id].confirmedBy # Nobody
HasRun(id)      == runs[id] > 0

Same(id) == /\ Status(id)' = Status(id)
            /\ IsConfirmed(id)' <=> IsConfirmed(id)
            /\ HasRun(id)' <=> HasRun(id)

Step(id) ==
  \/ /\ Status(id) = "none" /\ Status(id)' \in {"pending", "evaluated"}
     /\ IsConfirmed(id)' <=> IsConfirmed(id)
     /\ HasRun(id)' <=> HasRun(id)
  \/ /\ Status(id) = "pending" /\ ~IsConfirmed(id)
     /\ Status(id)' = "executing" /\ IsConfirmed(id)'
     /\ HasRun(id)' <=> HasRun(id)
  \/ /\ IsConfirmed(id) /\ ~HasRun(id) /\ HasRun(id)'
     /\ Status(id)' = Status(id)
     /\ IsConfirmed(id)' <=> IsConfirmed(id)
  \/ /\ \/ Status(id) = "executing"
        \/ Status(id) = "pending" /\ Status(id)' = "expired"
     /\ Status(id)' \in {"succeeded", "failed", "expired"}
     /\ Status(id)' = "succeeded" => HasRun(id)
     /\ IsConfirmed(id)' <=> IsConfirmed(id)
     /\ HasRun(id)' <=> HasRun(id)

(* Every step of the service is one of the promise for one operation, and  *)
(* leaves the others the same, or leaves all of them the same.             *)
LEMMA LifecycleStep ==
  ASSUME IInv, [Next]_vars
  PROVE  \/ \A i \in Ids : Same(i)
         \/ \E id \in Ids : Step(id) /\ \A i \in Ids \ {id} : Same(i)
<1>0. NoRow \notin OperationRow /\ Nobody \notin Requests
  BY ConstantsTyped
<1>1. ASSUME NEW i \in Ids, Kept(i), runs'[i] = runs[i] PROVE Same(i)
  BY <1>1 DEF Kept, Same, Status, IsConfirmed, HasRun, Exists
<1>2. ASSUME NEW r \in Requests, Submits(r), UNCHANGED runs
      PROVE  \E id \in Ids : Step(id) /\ \A i \in Ids \ {id} : Same(i)
  <2>0. PICK id \in Ids : id = req[r].id
    BY <1>2, SubmitsRow
  <2>1. PICK row \in OperationRow :
          /\ id \in Ids /\ NewRow(r, row) /\ operations'[id] = row
          /\ \A i \in Ids \ {id} : Kept(i)
    BY <1>2, <2>0, SubmitsRow
  <2>2. /\ Status(id) = "none" /\ Status(id)' = row.status
        /\ ~IsConfirmed(id) /\ ~IsConfirmed(id)'
    <3>1. ~Exists(id) /\ row # NoRow /\ row.confirmedBy = Nobody
      BY <1>0, <2>0, <2>1 DEF NewRow
    <3> QED BY <2>1, <3>1 DEF Status, IsConfirmed, Exists
  <2>3. HasRun(id)' <=> HasRun(id)
    BY <1>2 DEF HasRun
  <2>4. Step(id)
    BY <2>1, <2>2, <2>3 DEF Step, NewRow, Submitted
  <2>5. \A i \in Ids \ {id} : Same(i)
    BY <1>1, <1>2, <2>1
  <2> QED BY <2>1, <2>4, <2>5
<1>3. ASSUME NEW r \in Requests, Claims(r), UNCHANGED runs
      PROVE  \E id \in Ids : Step(id) /\ \A i \in Ids \ {id} : Same(i)
  <2>0. PICK id \in Ids : id = req[r].id
    BY <1>3, ClaimsRow
  <2>1. /\ id \in Ids /\ Exists(id) /\ operations[id].status = "pending"
        /\ operations[id].confirmedBy = Nobody /\ operations'[id] \in OperationRow
        /\ operations'[id].status = "executing" /\ operations'[id].confirmedBy = r
        /\ \A i \in Ids \ {id} : Kept(i)
    BY <1>3, <2>0, ClaimsRow
  <2>2. /\ Status(id) = "pending" /\ Status(id)' = "executing"
        /\ ~IsConfirmed(id) /\ IsConfirmed(id)'
    BY <1>0, <2>1 DEF Status, IsConfirmed, Exists
  <2>3. HasRun(id)' <=> HasRun(id)
    BY <1>3 DEF HasRun
  <2>4. Step(id)
    BY <2>2, <2>3 DEF Step
  <2>5. \A i \in Ids \ {id} : Same(i)
    BY <1>1, <1>3, <2>1
  <2> QED BY <2>1, <2>4, <2>5
<1>4. ASSUME NEW r \in Requests, Closes(r), UNCHANGED runs
      PROVE  \E id \in Ids : Step(id) /\ \A i \in Ids \ {id} : Same(i)
  <2>0. PICK id \in Ids : id = req[r].id
    BY <1>4, ClosesRow
  <2>1. /\ id \in Ids /\ Exists(id) /\ operations[id].status \in Unfinished
        /\ operations'[id] \in OperationRow /\ operations'[id].status \in Finished
        /\ operations[id].status = "pending" => operations'[id].status = "expired"
        /\ operations'[id].status = "succeeded" => runs[id] = 1
        /\ operations'[id].confirmedBy = operations[id].confirmedBy
        /\ \A i \in Ids \ {id} : Kept(i)
    BY <1>4, <2>0, ClosesRow
  <2>2. /\ Status(id) = operations[id].status /\ Status(id)' = operations'[id].status
        /\ IsConfirmed(id)' <=> IsConfirmed(id)
    BY <1>0, <2>1 DEF Status, IsConfirmed, Exists
  <2>3. (HasRun(id)' <=> HasRun(id)) /\ (runs[id] = 1 => HasRun(id))
    BY <1>4 DEF HasRun
  <2>4. Step(id)
    BY <2>1, <2>2, <2>3 DEF Step, Unfinished, Finished
  <2>5. \A i \in Ids \ {id} : Same(i)
    BY <1>1, <1>4, <2>1
  <2> QED BY <2>1, <2>4, <2>5
<1>5. ASSUME NEW r \in Requests, Run(r), UNCHANGED auditVars, req[r].id \in Ids,
             runs[req[r].id] = 0, runs' = [runs EXCEPT ![req[r].id] = 1]
      PROVE  \E id \in Ids : Step(id) /\ \A i \in Ids \ {id} : Same(i)
  <2>0. PICK id \in Ids : id = req[r].id
    BY <1>5
  <2>1. operations' = operations /\ req[r].pc = "run"
    BY <1>5 DEF auditVars, Run, At
  <2>2. IsConfirmed(id)
    BY <1>0, <2>0, <2>1 DEF IInv, ClaimInv, OwnerInv, IsConfirmed
  <2>3. runs'[id] = 1 /\ \A i \in Ids \ {id} : runs'[i] = runs[i]
    BY <1>5, <2>0 DEF IInv, TypeOK
  <2>4. ~HasRun(id) /\ HasRun(id)'
    BY <1>5, <2>0, <2>3 DEF HasRun
  <2>5. Status(id)' = Status(id) /\ (IsConfirmed(id)' <=> IsConfirmed(id))
    BY <2>1 DEF Status, IsConfirmed, Exists
  <2>6. Step(id)
    BY <2>2, <2>4, <2>5 DEF Step
  <2>7. \A i \in Ids \ {id} : Same(i)
    BY <1>1, <2>1, <2>3 DEF Kept
  <2> QED BY <2>6, <2>7
<1>6. CASE \E r \in Requests : /\ Submits(r) \/ Claims(r) \/ Closes(r)
                               /\ UNCHANGED runs
  BY <1>2, <1>3, <1>4, <1>6
<1>7. CASE UNCHANGED auditVars /\ UNCHANGED runs
  BY <1>1, <1>7 DEF auditVars, Kept
<1>8. CASE UNCHANGED auditVars /\ ~UNCHANGED runs
  BY <1>5, <1>8, RunStep
<1> QED BY <1>6, <1>7, <1>8, AuditStep

(* As functions of the operations, which is how OperationLifecycle has it. *)
AbsStatus    == [id \in Ids |-> Status(id)]
AbsConfirmed == [id \in Ids |-> Exists(id) /\ operations[id].confirmedBy # Nobody]
AbsRan       == [id \in Ids |-> runs[id] > 0]

(* A step for one operation is a step of OperationLifecycle.               *)
LEMMA StepMaps ==
  ASSUME NEW id \in Ids, Step(id), \A i \in Ids \ {id} : Same(i)
  PROVE  Lifecycle!Next
<1>1. /\ \A i \in Ids \ {id} : /\ Status(i)' = Status(i)
                               /\ IsConfirmed(i)' = IsConfirmed(i)
                               /\ HasRun(i)' = HasRun(i)
  BY DEF Same, IsConfirmed, HasRun
<1>2. AbsStatus' = [AbsStatus EXCEPT ![id] = Status(id)']
  BY <1>1 DEF AbsStatus
<1>3. (IsConfirmed(id)' <=> IsConfirmed(id)) => AbsConfirmed' = AbsConfirmed
  BY <1>1, Zenon DEF AbsConfirmed, IsConfirmed
<1>4. (HasRun(id)' <=> HasRun(id)) => AbsRan' = AbsRan
  <2>1. SUFFICES ASSUME HasRun(id)' <=> HasRun(id) PROVE AbsRan' = AbsRan
    OBVIOUS
  <2>2. \A i \in Ids : (runs'[i] > 0) = (runs[i] > 0)
    BY <1>1, <2>1 DEF HasRun
  <2> QED BY <2>2 DEF AbsRan
<1>5. Status(id)' = Status(id) => AbsStatus' = AbsStatus
  BY <1>1 DEF AbsStatus
<1>6. IsConfirmed(id)' => AbsConfirmed' = [AbsConfirmed EXCEPT ![id] = TRUE]
  BY <1>1 DEF AbsConfirmed, IsConfirmed
<1>7. HasRun(id)' => AbsRan' = [AbsRan EXCEPT ![id] = TRUE]
  BY <1>1 DEF AbsRan, HasRun
<1>8. /\ AbsStatus[id] = Status(id) /\ AbsConfirmed[id] = IsConfirmed(id)
      /\ AbsRan[id] = HasRun(id)
  BY DEF AbsStatus, AbsConfirmed, AbsRan, IsConfirmed, HasRun
<1>9. \/ Lifecycle!Submit(id, "pending") \/ Lifecycle!Submit(id, "evaluated")
      \/ Lifecycle!Confirm(id) \/ Lifecycle!Run(id)
      \/ \E s \in {"succeeded", "failed", "expired"} : Lifecycle!Close(id, s)
  BY <1>2, <1>3, <1>4, <1>5, <1>6, <1>7, <1>8
     DEF Step, Lifecycle!Submit, Lifecycle!Confirm, Lifecycle!Run, Lifecycle!Close,
         AbsStatus, AbsConfirmed, AbsRan
<1> QED BY <1>9 DEF Lifecycle!Next

(* A step that leaves all operations the same is a stutter of it.          *)
LEMMA SameMaps ==
  ASSUME \A i \in Ids : Same(i)
  PROVE  UNCHANGED Lifecycle!vars
<1>1. AbsStatus' = AbsStatus
  BY DEF AbsStatus, Same
<1>2. \A i \in Ids : (runs'[i] > 0) = (runs[i] > 0)
  BY DEF Same, HasRun
<1>3. AbsRan' = AbsRan
  BY <1>2 DEF AbsRan
<1>4. AbsConfirmed' = AbsConfirmed
  BY Zenon DEF AbsConfirmed, Same, IsConfirmed
<1> QED BY <1>1, <1>3, <1>4 DEF Lifecycle!vars, AbsStatus, AbsConfirmed, AbsRan

(* The service implements the promise of OperationLifecycle: with all its  *)
(* requests, clients, edits, failures and restarts, an operation is        *)
(* submitted, confirmed at most once, run at most once and only after it,  *)
(* and closed for good.                                                    *)
THEOREM ImplementsLifecycle == Spec => KeepsLifecycle
<1>1. Init => Lifecycle!Init
  <2> SUFFICES ASSUME Init PROVE Lifecycle!Init
    OBVIOUS
  <2>1. \A id \in Ids : ~Exists(id) /\ runs[id] = 0
    BY DEF Init, AuditInit, Exists
  <2>2. \A id \in Ids : Status(id) = "none"
    BY <2>1 DEF Status
  <2>3. [id \in Ids |-> Exists(id) /\ operations[id].confirmedBy # Nobody]
          = [id \in Ids |-> FALSE]
    BY <2>1, Zenon
  <2>4. \A id \in Ids : (runs[id] > 0) = FALSE
    <3> SUFFICES ASSUME NEW id \in Ids PROVE (runs[id] > 0) = FALSE
      OBVIOUS
    <3>1. runs[id] = 0
      BY <2>1
    <3>2. ~(0 > 0)
      OBVIOUS
    <3> QED BY <3>1, <3>2
  <2>5. [id \in Ids |-> runs[id] > 0] = [id \in Ids |-> FALSE]
    BY <2>4
  <2> QED BY <2>2, <2>3, <2>5 DEF Lifecycle!Init
<1>2. IInv /\ [Next]_vars => [Lifecycle!Next]_(Lifecycle!vars)
  BY LifecycleStep, StepMaps, SameMaps
<1> QED BY <1>1, <1>2, ServiceInit, ServiceStep, PTL DEF Spec, KeepsLifecycle, Lifecycle!Spec
=============================================================================
