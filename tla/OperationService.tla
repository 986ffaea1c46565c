-------------------------- MODULE OperationService --------------------------
(***************************************************************************)
(* The life of a write operation: EvaluateSQL and PrepareAction freeze it, *)
(* ConfirmOperation (ConfirmSQL, ConfirmAction) runs it, in                *)
(* internal/service/service.go.  A request is a goroutine that serves one  *)
(* HTTP or MCP call; every step below is the code between two points where *)
(* another request, an outside edit of the resource tables, the clock or a *)
(* restart of the process can be seen, that is one call of the audit store,*)
(* of the resource store, of the client cache or of the remote system.     *)
(*                                                                         *)
(* Time is abstracted to the one fact the code asks of it: whether the ten *)
(* minutes of an operation have passed.  The statement of a frozen row is  *)
(* immutable, so the hash check of ConfirmSQL always succeeds.             *)
(***************************************************************************)
EXTENDS AuditStore, ClientCache, Policy

CONSTANTS
  TypeOf,         \* resource type of each resource
  EnvironmentOf,  \* environment of a configuration
  DriverOf,       \* driver (dialect) of a database configuration
  Statements,     \* statements databases are asked to run
  Actions         \* actions hosts and clusters are asked to run

Commands == Statements \cup Actions

(* The rows of table operations, as far as they are modelled.              *)
OperationRow == [status : Statuses, resource : Resources, command : Commands,
                 rev : Configs, dialect : Dialects \cup {None},
                 confirmedBy : Requests \cup {Nobody}]

ASSUME ConstantsTyped ==
  /\ TypeOf \in [Resources -> {"database", "linux", "kubernetes"}]
  /\ EnvironmentOf \in [Revisions -> Environments]
  /\ DriverOf \in [Revisions -> Dialects]
  /\ Statements \subseteq Classes
  /\ Nobody \notin Requests
  /\ NoRow \notin OperationRow

VARIABLES
  req,      \* what each request is doing
  overdue,  \* ids of frozen operations whose ExpiresAt has passed
  runs,     \* history: how often the remote system ran an operation
  ranOn     \* history: the configuration of the client it was run through

serviceVars == <<req, overdue, runs, ranOn>>
vars == <<auditVars, cacheVars, serviceVars>>

Steps == {"idle", "evaluate", "metadata", "freeze", "record",
          "status", "row", "expire", "check", "claim", "run", "complete"}

NoRequest == [pc |-> "idle", id |-> None, command |-> None, rev |-> None,
              outcome |-> None, late |-> FALSE]

RequestState == [pc : Steps, id : Ids \cup {None}, command : Commands \cup {None},
                 rev : Configs, outcome : {"succeeded", "failed", None}, late : BOOLEAN]

TypeOK ==
  /\ CacheTypeOK
  /\ operations \in [Ids -> {NoRow} \cup OperationRow]
  /\ pendingOperations \subseteq Ids
  /\ pendingActions \subseteq Ids
  /\ req \in [Requests -> RequestState]
  /\ overdue \subseteq Ids
  /\ runs \in [Ids -> Nat]
  /\ ranOn \in [Ids -> Configs]

Init ==
  /\ AuditInit
  /\ CacheInit
  /\ req = [r \in Requests |-> NoRequest]
  /\ overdue = {}
  /\ runs = [id \in Ids |-> 0]
  /\ ranOn = [id \in Ids |-> None]

-----------------------------------------------------------------------------
At(r, pc) == req[r].pc = pc
Goto(r, pc) == req' = [req EXCEPT ![r].pc = pc]

Target(r)     == call[r].resource                  \* the resource it is about
OfDatabase(r) == TypeOf[Target(r)] = "database"
Current(r)    == config[Target(r)]                 \* Resources.Get, right now

(* The request ends: an answer was written or an error returned.           *)
Done(r) == req' = [req EXCEPT ![r] = NoRequest] /\ Release(r)

Row(r, status, dialect) ==
  [status |-> status, resource |-> Target(r), command |-> req[r].command,
   rev |-> req[r].rev, dialect |-> dialect, confirmedBy |-> Nobody]

(* A bug: the environment of the resource is not taken into account.      *)
DecisionAsInDev(r, rev, dialect, command) ==
  IF OfDatabase(r)
    THEN EvaluateSQLDialect(dialect, command).decision
    ELSE EvaluateAction(TypeOf[Target(r)], command).decision

(* Policy for the target in the environment of configuration rev; the      *)
(* dialect only matters to SQL.                                            *)
Decision(r, rev, dialect, command) ==
  IF OfDatabase(r)
    THEN EvaluateSQLForEnvironment(EnvironmentOf[rev], dialect, command).decision
    ELSE EvaluateActionForEnvironment(EnvironmentOf[rev], TypeOf[Target(r)], command).decision

-----------------------------------------------------------------------------
(* Preparing: MCP db_prepare_execute and the restart tools, and their REST *)
(* routes.  The id stands for the uuid.NewString() of this request.        *)
FreshId(id) == ~Exists(id) /\ \A q \in Requests : req[q].id # id

CommandsFor(x) == IF TypeOf[x] = "database" THEN Statements ELSE Actions

BeginPrepare(r, x, command, id) ==
  /\ At(r, "idle") /\ FreshId(id)
  /\ command \in CommandsFor(x)
  /\ req' = [req EXCEPT ![r] = [NoRequest EXCEPT !.id = id, !.command = command,
               !.pc = IF TypeOf[x] = "database" THEN "evaluate" ELSE "metadata"]]
  /\ Open(r, x, IF TypeOf[x] = "database" THEN "sync" ELSE "none")
  /\ UNCHANGED <<auditVars, overdue, runs, ranOn>>

(* EvaluateSQL after s.Database: metadata, policy with the driver of the   *)
(* client that was obtained, and on to the row to write.                   *)
EvaluateSQL(r) ==
  /\ At(r, "evaluate") /\ Answered(r)
  /\ UNCHANGED <<auditVars, overdue, runs, ranOn>>
  /\ IF call[r].stage = "failed" \/ Current(r) = None
       THEN Done(r)
       ELSE /\ req' = [req EXCEPT ![r].rev = Current(r),
                 ![r].pc = IF Decision(r, Current(r), DriverOf[call[r].client],
                                       req[r].command) = "confirm"
                             THEN "freeze" ELSE "record"]
            /\ UNCHANGED cacheVars

(* PrepareAction: metadata, policy, then the client, whose only use is to  *)
(* show that the target exists.  A denied action leaves no trace.          *)
PrepareAction(r) ==
  /\ At(r, "metadata")
  /\ UNCHANGED <<auditVars, overdue, runs, ranOn>>
  /\ IF Current(r) = None \/ Decision(r, Current(r), None, req[r].command) # "confirm"
       THEN Done(r)
       ELSE /\ req' = [req EXCEPT ![r].rev = Current(r), ![r].pc = "freeze"]
            /\ StartCall(r)

(* The transaction that freezes the operation, or, for a restart whose     *)
(* client or target was not found, nothing.                                *)
Freeze(r) ==
  /\ At(r, "freeze") /\ Answered(r)
  /\ UNCHANGED <<overdue, runs, ranOn>>
  /\ Done(r)
  /\ \/ /\ call[r].stage = "done"
        /\ IF OfDatabase(r)
             THEN PrepareSQL(req[r].id, Row(r, "pending", DriverOf[call[r].client]))
             ELSE PrepareRestart(req[r].id, Row(r, "pending", None))
     \/ ~OfDatabase(r) /\ UNCHANGED auditVars

(* A statement that is allowed or denied is recorded and goes no further.  *)
RecordEvaluated(r) ==
  /\ At(r, "record")
  /\ Record(req[r].id, Row(r, "evaluated", DriverOf[call[r].client]))
  /\ Done(r)
  /\ UNCHANGED <<overdue, runs, ranOn>>

-----------------------------------------------------------------------------
(* Confirming: POST .../operations/:id/confirm of the Web page and REST.   *)
(* ConfirmOperation reads the row to tell SQL from restarts.               *)
BeginConfirm(r, id) ==
  /\ At(r, "idle") /\ Exists(id)
  /\ LET x == operations[id].resource IN
       /\ req' = [req EXCEPT ![r] = [NoRequest EXCEPT !.id = id,
                    !.pc = IF TypeOf[x] = "database" THEN "status" ELSE "row",
                    !.late = id \in overdue]]
       /\ Open(r, x, "none")
  /\ UNCHANGED <<auditVars, overdue, runs, ranOn>>

(* ConfirmSQL: s.Audit.Get and the status check.                           *)
CheckStatus(r) ==
  /\ At(r, "status")
  /\ IF HasStatus(req[r].id, {"pending"})
       THEN Goto(r, "row") /\ UNCHANGED cacheVars
       ELSE Done(r)
  /\ UNCHANGED <<auditVars, overdue, runs, ranOn>>

FrozenFor(r) == req[r].id \in IF OfDatabase(r) THEN pendingOperations ELSE pendingActions

(* A bug: the expiry is not checked.                                      *)
ReadRowOnly(r) ==
  /\ At(r, "row")
  /\ IF FrozenFor(r) THEN Goto(r, "check") /\ UNCHANGED cacheVars ELSE Done(r)
  /\ UNCHANGED <<auditVars, overdue, runs, ranOn>>

(* The frozen row, and the expiry check on the clock right after.          *)
ReadRow(r) ==
  /\ At(r, "row")
  /\ IF FrozenFor(r)
       THEN /\ Goto(r, IF req[r].id \in overdue THEN "expire" ELSE "check")
            /\ UNCHANGED cacheVars
       ELSE Done(r)
  /\ UNCHANGED <<auditVars, overdue, runs, ranOn>>

(* Complete(..., "expired"), whose error is ignored.                       *)
Expire(r) ==
  /\ At(r, "expire")
  /\ IF Completable(req[r].id) THEN CompleteResult(req[r].id, "expired")
                               ELSE UNCHANGED auditVars
  /\ Done(r)
  /\ UNCHANGED <<overdue, runs, ranOn>>

(* A bug: the revision is not compared.                                   *)
StillAllowed(r) ==
  LET op == operations[req[r].id] IN
  /\ Current(r) # None
  /\ Decision(r, Current(r), op.dialect, op.command) = "confirm"

(* operationResource, the revision check and the policy, with the frozen   *)
(* command and dialect.                                                    *)
StillConfirmable(r) ==
  LET op == operations[req[r].id] IN
  /\ Current(r) # None
  /\ op.rev = Current(r)
  /\ Decision(r, Current(r), op.dialect, op.command) = "confirm"

(* SQL goes on to get the client, a restart claims the operation first.    *)
CheckResource(r) ==
  /\ At(r, "check")
  /\ IF StillConfirmable(r)
       THEN /\ Goto(r, "claim")
            /\ IF OfDatabase(r) THEN StartCall(r) ELSE UNCHANGED cacheVars
       ELSE Done(r)
  /\ UNCHANGED <<auditVars, overdue, runs, ranOn>>

(* A bug: the driver of the client is not compared.                       *)
AnyDialect(r) == TRUE

SameDialect(r) == DriverOf[call[r].client] = operations[req[r].id].dialect

(* ClaimBy: the one step that decides who runs the operation.              *)
Claim(r) ==
  /\ At(r, "claim")
  /\ OfDatabase(r) => Answered(r)
  /\ UNCHANGED <<overdue, runs, ranOn>>
  /\ IF /\ Claimable(req[r].id)
        /\ OfDatabase(r) => call[r].stage = "done" /\ SameDialect(r)
       THEN /\ ClaimBy(req[r].id, r)
            /\ Goto(r, "run")
            /\ IF OfDatabase(r) THEN UNCHANGED cacheVars ELSE StartCall(r)
       ELSE Done(r) /\ UNCHANGED auditVars

(* A bug: an error is reported as a success.                              *)
OutcomesOfOptimist(r) == {<<1, "succeeded">>, <<0, "succeeded">>}

(* The remote call: how often the remote system did it (1 or 0), and what  *)
(* the gateway was told.  A time-out or a lost connection tells nothing    *)
(* about the effect.  A closed client fails at once (Kubernetes clients, which hold  *)
(* no connection of their own, go on working).                             *)
Usable(r) == call[r].open \/ TypeOf[Target(r)] = "kubernetes"
Outcomes(r) ==
  IF ~Usable(r) THEN {<<0, "failed">>}
  ELSE {<<1, "succeeded">>}
       \cup (IF "remote" \in Faults THEN {<<0, "failed">>, <<1, "failed">>} ELSE {})

Run(r) ==
  /\ At(r, "run") /\ call[r].stage = "done"
  /\ \E o \in Outcomes(r) :
       LET id == req[r].id IN
       /\ runs' = [runs EXCEPT ![id] = @ + o[1]]
       /\ ranOn' = IF o[1] = 1 THEN [ranOn EXCEPT ![id] = call[r].client] ELSE ranOn
       /\ req' = [req EXCEPT ![r].pc = "complete", ![r].outcome = o[2]]
  /\ UNCHANGED <<auditVars, cacheVars, overdue>>

(* ConfirmAction gets its client after the claim, and may fail to.         *)
RunWithoutClient(r) ==
  /\ At(r, "run") /\ call[r].stage = "failed"
  /\ req' = [req EXCEPT ![r].pc = "complete", ![r].outcome = "failed"]
  /\ UNCHANGED <<auditVars, cacheVars, overdue, runs, ranOn>>

(* CompleteResult under its own 5 s; its error goes to the caller.         *)
Complete(r) ==
  /\ At(r, "complete")
  /\ IF Completable(req[r].id) THEN CompleteResult(req[r].id, req[r].outcome)
                               ELSE UNCHANGED auditVars
  /\ Done(r)
  /\ UNCHANGED <<overdue, runs, ranOn>>

-----------------------------------------------------------------------------
(* A read or write of SQLite fails (busy connection, cancelled context):   *)
(* the request returns the error, wherever it is.                          *)
StoreError(r) ==
  /\ "store" \in Faults
  /\ req[r].pc \notin {"idle", "run"} /\ call[r].stage \in {"none", "done", "failed"}
  /\ Done(r)
  /\ UNCHANGED <<auditVars, overdue, runs, ranOn>>

ClientStep(r) == CacheStep(r) /\ UNCHANGED <<auditVars, serviceVars>>

PassDeadline(id) ==
  /\ Frozen(id) /\ id \notin overdue
  /\ overdue' = overdue \cup {id}
  /\ UNCHANGED <<auditVars, cacheVars, req, runs, ranOn>>

Edit(x, rev) == EditConfig(x, rev) /\ UNCHANGED <<auditVars, serviceVars>>

Restart ==
  /\ "crash" \in Faults
  /\ LoseMemory
  /\ req' = [r \in Requests |-> NoRequest]
  /\ UNCHANGED <<auditVars, overdue, runs, ranOn>>

Begin(r) ==
  \/ \E x \in Resources, c \in Commands, id \in Ids : BeginPrepare(r, x, c, id)
  \/ \E id \in Ids : BeginConfirm(r, id)

Proceed(r) ==
  \/ EvaluateSQL(r) \/ PrepareAction(r) \/ Freeze(r) \/ RecordEvaluated(r)
  \/ CheckStatus(r) \/ ReadRow(r) \/ Expire(r) \/ CheckResource(r)
  \/ Claim(r) \/ Run(r) \/ RunWithoutClient(r) \/ Complete(r)

Next ==
  \/ \E r \in Requests : Begin(r) \/ Proceed(r) \/ ClientStep(r) \/ StoreError(r)
  \/ \E id \in Ids : PassDeadline(id)
  \/ \E x \in Resources, rev \in Configs : Edit(x, rev)
  \/ Restart

(* A goroutine keeps running, sync.Mutex is handed over in turn (strong    *)
(* fairness for SyncRead), and every remote call ends: true of databases   *)
(* and clusters, whose calls have a time limit; a host may leave the SSH   *)
(* session of a restart unanswered (RemoteCall).                           *)
Fairness == \A r \in Requests :
  /\ WF_vars(Proceed(r))
  /\ WF_vars(Advance(r) /\ UNCHANGED <<auditVars, serviceVars>>)
  /\ SF_vars(SyncRead(r) /\ UNCHANGED <<auditVars, serviceVars>>)

Spec == Init /\ [][Next]_vars
FairSpec == Spec /\ Fairness
=============================================================================
