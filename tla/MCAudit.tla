------------------------------- MODULE MCAudit -------------------------------
(* The Audit page for TLC.  pages/Audit.tsx shows the list or the detail;   *)
(* they share no state but the server, so one run goes through each alone.  *)
EXTENDS Console, AuditList
VARIABLE page

PageVars == <<page, vars, listVars>>
PageInit == page \in {"list", "detail"} /\ Init /\ ListInit
ShowList   == page = "list" /\ ListNext /\ UNCHANGED <<page, vars>>
ShowDetail == page = "detail" /\ Next /\ UNCHANGED <<page, listVars>>
PageSpec == PageInit /\ [][ShowList \/ ShowDetail]_PageVars
=============================================================================
