----------------------------- MODULE AuditStore -----------------------------
(***************************************************************************)
(* The audit tables of internal/audit/audit.go: operations, and the frozen *)
(* statements and actions that wait for a confirmation.  Every operator is *)
(* one statement or one transaction of the store on SQLite, hence atomic   *)
(* and durable.                                                            *)
(*                                                                         *)
(* An operation's row keeps what the gateway decides with later: resource, *)
(* command (statement or action), the configuration revision and the       *)
(* dialect it was prepared under, its status and who confirmed it.  The    *)
(* columns of pure reporting (risk, reason, durations, timestamps) are     *)
(* left out.  The statement of a frozen row is the one of the operation:   *)
(* both are written by one transaction and never updated.                  *)
(***************************************************************************)
CONSTANTS
  Ids,        \* operation ids (uuid.NewString never repeats)
  NoRow,      \* the value of operations[id] while there is no such row
  Nobody      \* confirmed_by of an operation nobody confirmed

VARIABLES
  operations,         \* table operations, by operation_id
  pendingOperations,  \* ids in table pending_operations (frozen SQL)
  pendingActions      \* ids in table pending_actions (frozen restarts)

auditVars == <<operations, pendingOperations, pendingActions>>

Unfinished == {"pending", "executing"}
Finished   == {"succeeded", "failed", "expired"}
Statuses   == Unfinished \cup Finished \cup {"evaluated"}

Exists(id) == operations[id] # NoRow
Frozen(id) == id \in pendingOperations \cup pendingActions
HasStatus(id, S) == Exists(id) /\ operations[id].status \in S

AuditInit ==
  /\ operations = [id \in Ids |-> NoRow]
  /\ pendingOperations = {}
  /\ pendingActions = {}

(* INSERT INTO operations: operation_id is the primary key.                *)
Record(id, row) ==
  /\ ~Exists(id)
  /\ operations' = [operations EXCEPT ![id] = row]
  /\ UNCHANGED <<pendingOperations, pendingActions>>

(* Prepare and PrepareAction: operation and frozen row in one transaction. *)
PrepareSQL(id, row) ==
  /\ ~Exists(id)
  /\ operations' = [operations EXCEPT ![id] = row]
  /\ pendingOperations' = pendingOperations \cup {id}
  /\ UNCHANGED pendingActions

PrepareRestart(id, row) ==
  /\ ~Exists(id)
  /\ operations' = [operations EXCEPT ![id] = row]
  /\ pendingActions' = pendingActions \cup {id}
  /\ UNCHANGED pendingOperations

(* Bugs: the claim does not look at the status, or not name who confirms.  *)
ClaimableTwice(id) == HasStatus(id, Unfinished)
ClaimUnsigned(id, actor) ==
  /\ HasStatus(id, {"pending"})
  /\ operations' = [operations EXCEPT ![id].status = "executing"]
  /\ UNCHANGED <<pendingOperations, pendingActions>>

(* UPDATE ... SET status='executing',confirmed_by=? WHERE status='pending' *)
Claimable(id) == HasStatus(id, {"pending"})
ClaimBy(id, actor) ==
  /\ Claimable(id)
  /\ operations' = [operations EXCEPT ![id].status = "executing",
                                      ![id].confirmedBy = actor]
  /\ UNCHANGED <<pendingOperations, pendingActions>>

(* Bugs: rows are completed whatever their status, or only pending ones,   *)
(* or the frozen statement is left behind.                                 *)
CompletableAlways(id)  == Exists(id)
CompletablePending(id) == HasStatus(id, {"pending"})
CompleteKeepsSQL(id, status) ==
  /\ HasStatus(id, Unfinished)
  /\ operations' = [operations EXCEPT ![id].status = status]
  /\ pendingActions' = pendingActions \ {id}
  /\ UNCHANGED pendingOperations

(* The update and the two deletes of CompleteResult, in one transaction    *)
(* that is rolled back when the row is not pending or executing.           *)
Completable(id) == HasStatus(id, Unfinished)
CompleteResult(id, status) ==
  /\ Completable(id)
  /\ operations' = [operations EXCEPT ![id].status = status]
  /\ pendingOperations' = pendingOperations \ {id}
  /\ pendingActions' = pendingActions \ {id}
=============================================================================
