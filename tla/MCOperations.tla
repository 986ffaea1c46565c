---------------------------- MODULE MCOperations ----------------------------
(* Instances of OperationService for TLC.                                   *)
EXTENDS OperationSafety, TLC
CONSTANTS c1, c2, x1, x2, q1, q2

TypeDatabase   == [x \in Resources |-> "database"]
(* One of each way to run: claimed after, and before, the client is there. *)
TypeEach       == [x \in Resources |-> IF x = x1 THEN "database" ELSE "kubernetes"]

(* c1 is a development resource, c2 the same name pointed at production.    *)
Promote == [c \in Revisions |-> IF c = c1 THEN "dev" ELSE "prod"]
(* c2 names a database of the other dialect.                                *)
Switch  == [c \in Revisions |-> IF c = c1 THEN "postgres" ELSE "mysql"]
Same    == [c \in Revisions |-> "postgres"]

(* Requests are interchangeable.                                          *)
Interchange == Permutations(Requests)

Either == {<<c1, c2>>, <<c2, c1>>, <<c1, None>>, <<None, c1>>}
Once   == {<<c1, c2>>}
=============================================================================
