----------------------------- MODULE PolicyCheck -----------------------------
(***************************************************************************)
(* The question a request puts to the policy, and the answer: EvaluateSQL, *)
(* QuerySQL and ConfirmSQL ask about SQL, PrepareAction and ConfirmAction  *)
(* about actions (internal/service/service.go).  Reads of hosts and        *)
(* clusters ask nothing.  OperationService asks with the few commands of   *)
(* its instances; here every question there is can be put.                 *)
(***************************************************************************)
EXTENDS Policy

VARIABLES question, answer

Asked == <<question, answer>>

AboutSQL(e, d, c)    == [kind |-> "sql", env |-> e, of |-> d, what |-> c]
AboutAction(e, t, a) == [kind |-> "action", env |-> e, of |-> t, what |-> a]

Unasked              == [kind |-> "read", env |-> "dev", of |-> "any", what |-> "any"]

SQLQuestions    == {AboutSQL(e, d, c) : e \in Environments, d \in Dialects, c \in Classes}
ActionQuestions == {AboutAction(e, t, a) : e \in Environments,
                      t \in {"linux", "kubernetes", "database"},
                      a \in {"restart_service", "rollout_restart", "exec"}}

Decide(q) ==
  CASE q.kind = "sql"    -> EvaluateSQLForEnvironment(q.env, q.of, q.what)
    [] q.kind = "action" -> EvaluateActionForEnvironment(q.env, q.of, q.what)
    [] q.kind = "read"   -> Allow("read")

Put(q) == question = q /\ answer = Decide(q)

-----------------------------------------------------------------------------
Strictness == [allow |-> 0, confirm |-> 1, deny |-> 2]

(* The rows a statement adds and the schema it changes: no confirmation    *)
(* lets it through in prod.                                                *)
SchemaOrInsert ==
  {"insert", "create_table", "create_index", "create_view", "create_database",
   "create_role", "create_function", "alter_table", "alter_view", "alter_database",
   "alter_role", "alter_rename", "rename_table", "drop_index"}

(* "prod is stricter than dev/test" (.specs/safety.md:7): whatever the     *)
(* request, prod never answers with a weaker decision or a lower risk than *)
(* dev does, however the environment is spelled, and denies an INSERT and  *)
(* every change of the schema.                                             *)
ProdIsStricter ==
  question.env \in {"prod", "PROD"} =>
    LET dev == Decide([question EXCEPT !.env = "dev"]) IN
      /\ Strictness[answer.decision] >= Strictness[dev.decision]
      /\ dev.risk = "high" => answer.risk = "high"
      /\ question.kind = "sql" /\ question.what \in SchemaOrInsert
           => answer.decision = "deny"

(* An unscoped or destructive write is refused outright in every           *)
(* environment and dialect, and so is a text that is not exactly one       *)
(* statement: no confirmation can let it through.  The one DROP that is    *)
(* not refused is MySQL's DROP INDEX, which parses to an ALTER TABLE.      *)
Destructive == {"update_all", "delete_all", "drop_table", "drop_view", "drop_database",
                "drop_role", "truncate", "two_statements", "garbage", "blank",
                "cte_write_select"}

DestructiveIsDenied ==
  question.kind = "sql" =>
    /\ question.what \in Destructive => answer.decision = "deny"
    /\ question.what = "drop_index" /\ question.of # "mysql" => answer.decision = "deny"

(* The decision table of .specs/safety.md:5 for dev and test, by the word  *)
(* a statement begins with: every class the table names, whichever way the *)
(* code answers it.                                                        *)
ReadWords    == {"select", "union", "select_into", "union_into", "show", "describe",
                 "explain_select", "explain_write"}
ConfirmWords == {"insert", "update_where", "delete_where", "create_table", "create_index",
                 "create_view", "create_database", "create_role", "create_function",
                 "alter_table", "alter_view", "alter_database", "alter_role",
                 "alter_rename"}
DenyWords    == {"update_all", "delete_all", "drop_table", "drop_view", "drop_index",
                 "drop_database", "drop_role", "truncate"}

Documented(c) == CASE c \in ReadWords -> "allow" [] c \in ConfirmWords -> "confirm"
                   [] c \in DenyWords -> "deny"

(* Where the code answers otherwise: a node with a name of its own, a      *)
(* statement the parser does not know, an EXPLAIN or SELECT that writes,   *)
(* and MySQL's DROP INDEX, which parses to an ALTER TABLE.                 *)
Undocumented ==
  {<<"postgres", c>> : c \in {"create_index", "create_view", "describe", "explain_write",
                              "alter_rename"}}
  \cup {<<"mysql", c>> : c \in {"create_view", "create_role", "create_function",
                                "alter_view", "alter_role", "select_into", "drop_index"}}

(* In dev and test, whichever parser and whichever of its node types a     *)
(* statement goes through, the code answers what the documented table says *)
(* of its first word, but for the statements listed above: those it        *)
(* answers more strictly, and only MySQL's DROP INDEX less so.             *)
DocumentedDecision ==
  question.kind = "sql" /\ question.env \in {"dev", "test"}
    /\ question.of \in {"postgres", "mysql"}
    /\ question.what \in ReadWords \cup ConfirmWords \cup DenyWords
    => LET said   == Documented(question.what)
           listed == <<question.of, question.what>> \in Undocumented
       IN  /\ ~listed => answer.decision = said
           /\ listed /\ question.what # "drop_index"
                => Strictness[answer.decision] > Strictness[said]
           /\ listed /\ question.what = "drop_index" => answer.decision = "confirm"
=============================================================================
