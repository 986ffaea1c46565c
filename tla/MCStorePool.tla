----------------------------- MODULE MCStorePool -----------------------------
(* StorePool for TLC: one edit, and one manager for all resources.          *)
EXTENDS StorePool
CONSTANTS c1, c2

Forward == {<<c1, c2>>}
OneKind == [x \in Resources |-> "linux"]
=============================================================================
