----------------------------- MODULE MCClientUse -----------------------------
(* ClientUse for TLC: one edit of a resource, and its undo.                 *)
EXTENDS ClientUse
CONSTANTS c1, c2

Revert == {<<c1, c2>>, <<c2, c1>>}
=============================================================================
