---------------------------- MODULE GatewaySafety ----------------------------
(***************************************************************************)
(* What a start, a run and a shutdown of the gateway owe its operator.     *)
(***************************************************************************)
EXTENDS Gateway

(* A file with tables, also one goose has not seen yet, is never migrated  *)
(* before a complete snapshot of the version it was found in exists,       *)
(* however often starts crashed half way (storage.go:66).                  *)
UpgradeKeepsACopy ==
  [][version' # version /\ began.tables => began.version \in backups]_vars

(* From the baseline on, the file has exactly the schema this program was  *)
(* written for: neither an interrupted upgrade nor a file of a newer       *)
(* program gets past storage.Open (storage.go:54, 71).                     *)
ServesItsVersion ==
  main \in {"baseline", "tokens", "serve", "drain"} => version = Target

(* A bearer token is the token of one name at most, so the confirmed_by of *)
(* an operation names one caller, also while run() is half way through the *)
(* tokens of a start (auth.go:43, 00001_initial.sql:54).                   *)
OneIdentity ==
  \A secret \in Secrets, scope \in {"mcp", "rest"} :
    Cardinality(Authenticate(secret, scope)) <= 1

(* When the gateway serves, each configured variable is in force: its      *)
(* token lets its name in with the scope of main.go:86, an empty one lets  *)
(* nobody in under that name, whatever earlier starts left in the table.   *)
ConfiguredTokensHold ==
  main = "serve" =>
    \A name \in Names, scope \in {"mcp", "rest"} :
      /\ env[name] \in Secrets =>
           ((name \in Authenticate(env[name], scope)) <=> (scope \in ScopeOf[name]))
      /\ env[name] = "" => \A secret \in Secrets : name \notin Authenticate(secret, scope)

(* .specs/config.md:31, "a non-empty value updates the token": when the    *)
(* tokens of a start differ from each other and no statement fails, run()  *)
(* gets past the tokens.                                                   *)
Distinct == \A a, b \in Names : env[a] \in Secrets /\ env[a] = env[b] => a = b
NewTokensAreTaken ==
  [][main = "tokens" /\ main' = "drain" => ~Distinct \/ faults' # faults]_vars

-----------------------------------------------------------------------------
(* Between two Observes the audit rows account for the state: replayed     *)
(* over the first state they give the last one, for every resource but     *)
(* those an Observe reported before it failed (store.go:221-245).          *)
TrailAgrees == step = "idle" => \A k \in Keys \ torn : trail[k] = state[k]

(* A row is written again for what an earlier row already said only where  *)
(* an Observe failed after reporting it (store.go:231, 245).               *)
NoRepeatedRow ==
  [][\A k \in Keys : step = "report" /\ step' = "report" /\ k \in todo \ todo'
                       => trail[k] # next[k] \/ k \in torn]_vars

(* The goroutine never outlives the database handle it uses: the file is   *)
(* closed only after <-observeDone (main.go:54, 69).                       *)
StoreOpenWhileUsed == step # "off" => main # "down"

(* Waiting for the goroutine ends, also when an Observe was on its way or  *)
(* a tick arrives together with the cancellation (main.go:69-85).          *)
ShutdownEnds == main = "drain" ~> main = "down"

(* An edit from outside that stays is seen while the gateway serves, after *)
(* any failures of Observes before it (main.go:80).                        *)
ChangesNoticed ==
  \A k \in Keys, rev \in Revisions \cup {Absent} :
    main = "serve" /\ table[k] = rev ~> state[k] = rev \/ table[k] # rev \/ main # "serve"
=============================================================================
