------------------------------ MODULE MCGateway ------------------------------
(* Constant values for the runs of GatewaySafety.                          *)
EXTENDS GatewaySafety

(* The loop of main.go:86, and parts of it.                                *)
InOrder == <<"mcp", "rest", "admin">>
TwoOnly == <<"mcp", "rest">>
NoNames == <<>>

NoKinds  == [k \in {} |-> k]
TwoKinds == [k \in Keys |-> IF k = "db" THEN "database" ELSE "linux"]
=============================================================================
