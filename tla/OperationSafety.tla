-------------------------- MODULE OperationSafety --------------------------
(***************************************************************************)
(* What a confirmed operation may and may not do: the properties of        *)
(* OperationService.                                                       *)
(***************************************************************************)
EXTENDS OperationService

Status(id) == IF Exists(id) THEN operations[id].status ELSE "none"
IsSQL(id)  == TypeOf[operations[id].resource] = "database"

(* A request that has passed every check of its confirmation.              *)
Confirming(r) == req[r].pc \in {"claim", "run", "complete"}

-----------------------------------------------------------------------------
(* However many confirmations of an operation arrive, together or one      *)
(* after another, across failures and restarts, the remote system runs it  *)
(* at most once ("operation must only be claimed once", "completed         *)
(* operation must not execute twice": internal/audit/audit_test.go).       *)
AtMostOnce == \A id \in Ids : runs[id] <= 1

(* Nothing runs without a confirmation, and the audit row says so from     *)
(* before the run on: an operation that ran is never still pending, never  *)
(* one that was only evaluated, and names who confirmed it.                *)
RunIsOnRecord == \A id \in Ids :
  runs[id] > 0 => /\ Status(id) \notin {"none", "pending", "evaluated"}
                  /\ operations[id].confirmedBy # Nobody

(* A row that says "succeeded" tells the truth.                            *)
SucceededRan == \A id \in Ids : Status(id) = "succeeded" => runs[id] = 1

(* The frozen statement is kept, in the table of its kind and no other,    *)
(* exactly as long as the operation is unfinished.                         *)
FrozenWhileUnfinished == \A id \in Ids :
  /\ Frozen(id) <=> Status(id) \in Unfinished
  /\ Frozen(id) => (id \in pendingOperations <=> IsSQL(id))
  /\ ~(id \in pendingOperations /\ id \in pendingActions)

(* What waits for a confirmation, or was run after one, is what the policy *)
(* wants confirmed, in the environment of the configuration and under the  *)
(* dialect it was frozen with: although driver and environment are read    *)
(* from two places at two times, no denied statement is ever frozen.       *)
FrozenIsConfirmable == \A id \in Ids :
  Frozen(id) \/ runs[id] > 0 =>
    LET op == operations[id] IN
    (IF IsSQL(id)
       THEN EvaluateSQLForEnvironment(EnvironmentOf[op.rev], op.dialect, op.command)
       ELSE EvaluateActionForEnvironment(EnvironmentOf[op.rev], TypeOf[op.resource],
                                         op.command)).decision = "confirm"

(* A statement is only ever run by a client of the dialect it was parsed   *)
(* and approved under, whatever happened to the configuration meanwhile.   *)
RunsInItsDialect == \A id \in Ids :
  runs[id] > 0 /\ IsSQL(id) => DriverOf[ranOn[id]] = operations[id].dialect

(* A confirmation goes through only if the configuration the operation was *)
(* prepared for was in force at some moment of that confirmation: an       *)
(* operation whose resource changed before cannot be confirmed.            *)
ApprovedConfigSeen == \A r \in Requests :
  Confirming(r) => operations[req[r].id].rev \in seen[r]

(* An operation whose time was over when the confirmation arrived is not   *)
(* run by it.                                                              *)
DeadlineHonoured == \A r \in Requests : Confirming(r) => ~req[r].late

(* A finished or merely evaluated row is never written again, and who      *)
(* confirmed an operation never changes.                                   *)
RowsAreFinal == [][\A id \in Ids : Exists(id) =>
  /\ operations[id].status \notin Unfinished => operations'[id] = operations[id]
  /\ operations[id].confirmedBy # Nobody =>
       operations'[id].confirmedBy = operations[id].confirmedBy]_vars

(* With a store that answers and no restart, an operation that was claimed *)
(* is closed: it does not stay "executing".                                *)
ClaimedIsClosed == \A id \in Ids :
  (Status(id) = "executing") ~> (Status(id) \in Finished)

(* Every confirmation and every submission comes to an end.                *)
RequestsEnd == \A r \in Requests : ~At(r, "idle") ~> At(r, "idle")

(* The service implements the promise of OperationLifecycle.               *)
Lifecycle == INSTANCE OperationLifecycle WITH
  status    <- [id \in Ids |-> Status(id)],
  confirmed <- [id \in Ids |-> Exists(id) /\ operations[id].confirmedBy # Nobody],
  ran       <- [id \in Ids |-> runs[id] > 0]

KeepsLifecycle == Lifecycle!Spec

-----------------------------------------------------------------------------
(* A statement of the repository that the code does not keep.              *)

(* .specs/safety.md:7: after a change or removal of the resource the       *)
(* operation must be submitted again.  So it only ever runs on the         *)
(* configuration it was prepared for.                                      *)
RunsOnApprovedConfig == \A id \in Ids :
  runs[id] > 0 => ranOn[id] = operations[id].rev
=============================================================================
