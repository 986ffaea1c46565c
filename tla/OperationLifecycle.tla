------------------------- MODULE OperationLifecycle -------------------------
(***************************************************************************)
(* What the gateway promises of a write operation, without requests,       *)
(* clients, configurations or restarts: it is submitted, confirmed at most *)
(* once, run at most once and only after it was confirmed, and closed once *)
(* and for all.  "succeeded" is only written for an operation that ran.    *)
(*                                                                         *)
(* Two freedoms of the code are part of the promise.  An operation can be  *)
(* closed as expired or failed whether or not it ran, and it can still run *)
(* after it was closed as expired, if it was confirmed before.             *)
(***************************************************************************)
CONSTANT Ids

VARIABLES status, confirmed, ran
vars == <<status, confirmed, ran>>

Init ==
  /\ status = [id \in Ids |-> "none"]
  /\ confirmed = [id \in Ids |-> FALSE]
  /\ ran = [id \in Ids |-> FALSE]

(* A statement that needs confirmation waits for it; any other is only     *)
(* recorded.                                                               *)
Submit(id, s) ==
  /\ status[id] = "none"
  /\ s \in {"pending", "evaluated"}
  /\ status' = [status EXCEPT ![id] = s]
  /\ UNCHANGED <<confirmed, ran>>

Confirm(id) ==
  /\ status[id] = "pending"
  /\ ~confirmed[id]
  /\ status' = [status EXCEPT ![id] = "executing"]
  /\ confirmed' = [confirmed EXCEPT ![id] = TRUE]
  /\ UNCHANGED ran

Run(id) ==
  /\ confirmed[id] /\ ~ran[id]
  /\ ran' = [ran EXCEPT ![id] = TRUE]
  /\ UNCHANGED <<status, confirmed>>

Close(id, s) ==
  /\ \/ status[id] = "executing"
     \/ status[id] = "pending" /\ s = "expired"
  /\ s \in {"succeeded", "failed", "expired"}
  /\ s = "succeeded" => ran[id]
  /\ status' = [status EXCEPT ![id] = s]
  /\ UNCHANGED <<confirmed, ran>>

Next == \E id \in Ids :
  \/ Submit(id, "pending") \/ Submit(id, "evaluated")
  \/ Confirm(id)
  \/ Run(id)
  \/ \E s \in {"succeeded", "failed", "expired"} : Close(id, s)

Spec == Init /\ [][Next]_vars
=============================================================================
