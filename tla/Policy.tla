------------------------------- MODULE Policy -------------------------------
(***************************************************************************)
(* The decision the gateway takes on a request, translated from            *)
(* internal/policy/policy.go.  A statement is abstracted to the class of   *)
(* SQL it belongs to; the two external parsers (pg_query and vitess) are   *)
(* the functions PgNode and MySQLNode, which say which AST node a class    *)
(* parses to.  Every case of the two switch statements of policy.go has a  *)
(* class that reaches it, and the prefixes Create and Alter have several;  *)
(* a node none of them names is "other".  Reasons are left out, rules are  *)
(* kept where the code branches on them.                                   *)
(***************************************************************************)
EXTENDS Naturals

Environments == {"dev", "test", "prod", "PROD"}
Dialects     == {"postgres", "mysql", "oracle"}

(* What a SQL text says.  "two_statements" stands for any text with more   *)
(* than one statement, "garbage" for text neither parser accepts, and      *)
(* "alter_rename" for ALTER TABLE ... RENAME.                              *)
Classes ==
  {"blank", "garbage", "two_statements", "comment_only",
   "select", "union", "select_into", "union_into", "cte_write_select", "show",
   "describe", "explain_select", "explain_write",
   "update_where", "update_all", "delete_where", "delete_all", "insert",
   "drop_table", "drop_view", "drop_index", "drop_database", "drop_role", "truncate",
   "create_table", "create_index", "create_view", "create_database", "create_role",
   "create_function", "alter_table", "alter_view", "alter_database", "alter_role",
   "alter_rename", "rename_table", "call", "merge", "copy", "set", "grant"}

Unparsed == "parse error"
Many     == "not one statement"

(* pg_query: which node the single statement of a text is.                 *)
PgNode == [c \in Classes |->
  CASE c \in {"garbage", "describe", "rename_table"} -> Unparsed
    [] c \in {"two_statements", "comment_only"}   -> Many
    [] c \in {"select", "union", "select_into", "union_into",
              "cte_write_select"}                 -> "SelectStmt"
    [] c = "show"                                 -> "VariableShowStmt"
    [] c \in {"explain_select", "explain_write"}  -> "ExplainStmt"
    [] c \in {"update_where", "update_all"}       -> "UpdateStmt"
    [] c \in {"delete_where", "delete_all"}       -> "DeleteStmt"
    [] c = "insert"                               -> "InsertStmt"
    [] c \in {"drop_table", "drop_view", "drop_index"} -> "DropStmt"
    [] c = "truncate"                             -> "TruncateStmt"
    [] c = "create_table"                         -> "CreateStmt"
    [] c = "create_database"                      -> "CreatedbStmt"
    [] c = "create_role"                          -> "CreateRoleStmt"
    [] c = "create_function"                      -> "CreateFunctionStmt"
    [] c \in {"alter_table", "alter_view"}        -> "AlterTableStmt"
    [] c = "alter_database"                       -> "AlterDatabaseStmt"
    [] c = "alter_role"                           -> "AlterRoleStmt"
    [] c = "alter_rename"                         -> "RenameStmt"
    [] c = "drop_database"                        -> "DropdbStmt"
    [] c = "drop_role"                            -> "DropRoleStmt"
    [] c = "create_index"                         -> "IndexStmt"
    [] c = "create_view"                          -> "ViewStmt"
    [] OTHER                                      -> "other"]

(* vitess: which Go type the single statement of a text is.                *)
MySQLNode == [c \in Classes |->
  CASE c \in {"garbage", "cte_write_select", "merge", "copy", "create_role",
              "create_function", "alter_role", "drop_role"}  -> Unparsed
    [] c \in {"two_statements", "comment_only", "blank"}      -> Many
    [] c \in {"select", "select_into"}            -> "Select"
    [] c \in {"union", "union_into"}              -> "Union"
    [] c = "show"                                 -> "Show"
    [] c \in {"explain_select", "explain_write"}  -> "ExplainStmt"
    [] c = "describe"                             -> "ExplainTab"
    [] c \in {"update_where", "update_all"}       -> "Update"
    [] c \in {"delete_where", "delete_all"}       -> "Delete"
    [] c = "insert"                               -> "Insert"
    [] c = "drop_table"                           -> "DropTable"
    [] c = "drop_database"                        -> "DropDatabase"
    [] c = "truncate"                             -> "TruncateTable"
    [] c = "create_table"                         -> "CreateTable"
    [] c = "create_database"                      -> "CreateDatabase"
    [] c \in {"alter_table", "alter_rename", "create_index", "drop_index"} -> "AlterTable"
    [] c = "alter_database"                       -> "AlterDatabase"
    [] OTHER                                      -> "other"]

HasWhere(c)         == c \in {"update_where", "delete_where"}
HasInto(c)          == c = "select_into"
ContainsMutation(c) == c \in {"cte_write_select", "explain_write"}

Result(decision, risk, rule) ==
  [decision |-> decision, risk |-> risk, rule |-> rule]

Allow(rule)         == Result("allow", "low", rule)
Confirm(risk, rule) == Result("confirm", risk, rule)
Deny(rule)          == Result("deny", "high", rule)

(* A bug: the WHERE clause is not looked at.                              *)
AnyWrite(c) == Confirm("medium", "sql.write")

ScopedWrite(c) == IF HasWhere(c) THEN Confirm("medium", "sql.write")
                                 ELSE Deny("sql.no_where")

(* A bug: the nodes of a table are listed instead of the prefixes.         *)
SchemaNodeListed(node) == node \in {"CreateStmt", "AlterTableStmt"}

(* The nodes whose names begin with Create or Alter: neither IndexStmt nor *)
(* ViewStmt, nor RenameStmt does.                                          *)
SchemaNode(node) ==
  node \in {"CreateStmt", "CreatedbStmt", "CreateRoleStmt", "CreateFunctionStmt",
            "AlterTableStmt", "AlterDatabaseStmt", "AlterRoleStmt"}

EvaluatePostgres(c) ==
  LET node == PgNode[c] IN
  CASE node = Unparsed          -> Deny("sql.invalid")
    [] node = Many              -> Deny("sql.multiple")
    [] node = "SelectStmt"      -> IF ContainsMutation(c)
                                     THEN Deny("sql.cte_write")
                                     ELSE Allow("sql.read")
    [] node = "VariableShowStmt" -> Allow("sql.read")
    [] node = "ExplainStmt"     -> IF ContainsMutation(c)
                                     THEN Deny("sql.explain_write")
                                     ELSE Allow("sql.explain")
    [] node \in {"UpdateStmt", "DeleteStmt"}       -> ScopedWrite(c)
    [] node = "InsertStmt"      -> Confirm("high", "sql.mutation")
    [] node \in {"DropStmt", "TruncateStmt"}       -> Deny("sql.destructive")
    [] SchemaNode(node)         -> Confirm("high", "sql.mutation")
    [] OTHER                    -> Deny("sql.default_deny")

EvaluateMySQL(c) ==
  LET node == MySQLNode[c] IN
  CASE node = Unparsed          -> Deny("sql.invalid")
    [] node = Many              -> Deny("sql.multiple")
    [] node = "Select"          -> IF HasInto(c) THEN Deny("sql.write")
                                                 ELSE Allow("sql.read")
    [] node \in {"Union", "Show", "ExplainStmt", "ExplainTab"} -> Allow("sql.read")
    [] node \in {"Update", "Delete"}               -> ScopedWrite(c)
    [] node = "Insert"          -> Confirm("high", "sql.mutation")
    [] node \in {"DropTable", "DropDatabase", "TruncateTable"} -> Deny("sql.destructive")
    [] node \in {"CreateTable", "CreateDatabase", "AlterTable", "AlterDatabase"}
                                -> Confirm("high", "sql.mutation")
    [] OTHER                    -> Deny("sql.default_deny")

EvaluateSQLDialect(dialect, c) ==
  IF c = "blank" THEN Deny("sql.invalid")
  ELSE CASE dialect = "postgres" -> EvaluatePostgres(c)
         [] dialect = "mysql"    -> EvaluateMySQL(c)
         [] OTHER                -> Deny("sql.dialect")

(* A bug: environments are compared by ==.                                *)
IsProdLiteral(environment) == environment = "prod"

(* strings.EqualFold(environment, "prod")                                  *)
IsProd(environment) == environment \in {"prod", "PROD"}

EvaluateSQLForEnvironment(environment, dialect, c) ==
  LET result == EvaluateSQLDialect(dialect, c) IN
  IF IsProd(environment) /\ result.decision = "confirm" /\ result.rule = "sql.mutation"
    THEN Deny("sql.prod_mutation")
    ELSE result

EvaluateAction(resourceType, action) ==
  IF \/ resourceType = "linux" /\ action = "restart_service"
     \/ resourceType = "kubernetes" /\ action = "rollout_restart"
    THEN Confirm("high", "restart")
    ELSE Deny("action.default_deny")

EvaluateActionForEnvironment(environment, resourceType, action) ==
  LET result == EvaluateAction(resourceType, action) IN
  IF IsProd(environment) /\ result.decision = "confirm"
    THEN Confirm("high", "restart.prod")
    ELSE result
=============================================================================
