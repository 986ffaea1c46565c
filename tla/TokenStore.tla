----------------------------- MODULE TokenStore -----------------------------
(***************************************************************************)
(* Table api_tokens (internal/auth/auth.go and 00001_initial.sql): one row *)
(* per name, and no two rows with the same token_hash, revoked or not.     *)
(* SHA-256 is injective here: a row holds the token.  The built-in names   *)
(* have a fixed scope and no expires_at.                                   *)
(***************************************************************************)
CONSTANTS
  Names,    \* the built-in tokens of main.go: "mcp", "rest", "admin"
  Secrets,  \* values of the environment variables, other than ""
  Unset,    \* a variable that is not set
  NoToken   \* a name without a row

ASSUME SettingsDiffer == /\ "" \notin Secrets
                         /\ Unset \notin Secrets \cup {""}
                         /\ NoToken \notin [secret : Secrets, revoked : BOOLEAN]

VARIABLE tokens  \* api_tokens by name

Settings == Secrets \cup {"", Unset}
TokenRow == [secret : Secrets, revoked : BOOLEAN]

TokensTypeOK == tokens \in [Names -> TokenRow \cup {NoToken}]

HasRow(name) == tokens[name] # NoToken

(* A bug: token_hash is not unique.                                        *)
NeverTaken(name, secret) == FALSE

(* The primary key token_hash refuses a token another name has.            *)
Taken(name, secret) ==
  \E other \in Names \ {name} : HasRow(other) /\ tokens[other].secret = secret

(* Upsert: an empty token revokes what is there.                           *)
Refused(name, setting) == setting \in Secrets /\ Taken(name, setting)

(* A bug: revoked_at stays.                                                *)
AfterUpsertRevoked(name, setting) ==
  [tokens EXCEPT ![name] =
     IF setting # "" THEN [secret |-> setting, revoked |-> HasRow(name) /\ @.revoked]
     ELSE IF HasRow(name) THEN [@ EXCEPT !.revoked = TRUE] ELSE @]

AfterUpsert(name, setting) ==
  [tokens EXCEPT ![name] =
     IF setting # "" THEN [secret |-> setting, revoked |-> FALSE]
     ELSE IF HasRow(name) THEN [@ EXCEPT !.revoked = TRUE] ELSE @]

ScopeOf == [name \in {"mcp", "rest", "admin"} |->
  CASE name = "mcp"   -> {"mcp"}
    [] name = "rest"  -> {"rest"}
    [] name = "admin" -> {"mcp", "rest"}]

(* Authenticate: the names a bearer of secret is let in as.                *)
Authenticate(secret, required) ==
  {name \in Names : /\ HasRow(name)
                    /\ tokens[name].secret = secret
                    /\ ~tokens[name].revoked
                    /\ required \in ScopeOf[name]}
=============================================================================
