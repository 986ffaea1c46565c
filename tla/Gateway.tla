------------------------------- MODULE Gateway -------------------------------
(***************************************************************************)
(* The life of the process: run() of cmd/ops-gateway-mcp/main.go.  It      *)
(* opens and migrates the file, takes the baseline of the resource tables, *)
(* starts the goroutine that observes them every 5 s, writes the tokens of *)
(* the environment one after the other, and serves.  An early return or    *)
(* the end of e.Start runs the deferred calls: stop the goroutine, wait    *)
(* for it, close the file.                                                 *)
(***************************************************************************)
EXTENDS Migration, TokenStore, ResourceObserver, Sequences

CONSTANTS
  Builtin,   \* the names in the order in which run() sets their tokens
  MaxFaults  \* how often a statement on the file fails

ASSUME MaxFaultsTyped == MaxFaults \in Nat
ASSUME BuiltinTyped == /\ Builtin \in Seq(Names)
                       /\ \A name \in Names : \E i \in DOMAIN Builtin : Builtin[i] = name

VARIABLES
  main,     \* where run() is
  began,    \* what this start found in the file
  env,      \* the environment variables of this start
  toSet,    \* names whose variable is still to be handled, in order
  faults    \* statements that failed so far

mainVars == <<main, began, env, toSet, faults>>
vars == <<fileVars, tokens, observerVars, mainVars>>

Mains == {"down", "check", "backup", "up", "baseline", "tokens", "serve", "drain"}

NoEnv  == [name \in Names |-> Unset]
NoFile == [version |-> 0, tables |-> FALSE]
Found  == [version : 0..Newest, tables : BOOLEAN]

TypeOK ==
  /\ FileTypeOK /\ TokensTypeOK /\ ObserverTypeOK
  /\ main \in Mains /\ began \in Found
  /\ env \in [Names -> Settings] /\ toSet \in Seq(Names)
  /\ faults \in 0..MaxFaults

Init ==
  /\ FileInit /\ ObserverInit
  /\ version = 0 => table = Nothing
  /\ tokens = [name \in Names |-> NoToken]
  /\ main = "down" /\ began = NoFile /\ env = NoEnv /\ toSet = <<>> /\ faults = 0

-----------------------------------------------------------------------------
Goto(pc) == main' = pc /\ UNCHANGED <<began, env, toSet>>
Down     == main' = "down" /\ began' = NoFile /\ env' = NoEnv /\ toSet' = <<>>
Fault    == faults < MaxFaults /\ faults' = faults + 1
FileOnly == UNCHANGED <<tokens, observerVars>>

Launch(e) ==
  /\ main = "down"
  /\ main' = "check" /\ began' = [version |-> version, tables |-> tables] /\ env' = e
  /\ UNCHANGED <<fileVars, tokens, observerVars, toSet, faults>>

(* migrate: refuse a newer file, leave a current one alone, back up one    *)
(* that has tables.                                                        *)
CheckVersion ==
  /\ main = "check"
  /\ UNCHANGED <<fileVars, tokens, faults>>
  /\ IF TooNew THEN Down /\ UNCHANGED observerVars
     ELSE IF Pending THEN Goto(IF HasTables THEN "backup" ELSE "up") /\ UNCHANGED observerVars
     ELSE Goto("baseline") /\ BeginObserve

TakeBackup ==
  /\ main = "backup"
  /\ FileOnly
  /\ \/ Snapshot /\ Goto("up") /\ UNCHANGED faults
     \/ Fault /\ Down /\ UNCHANGED fileVars

Migrate ==
  /\ main = "up"
  /\ UNCHANGED tokens
  /\ \/ Pending /\ ApplyNext /\ Goto("up") /\ UNCHANGED <<observerVars, faults>>
     \/ Pending /\ Fault /\ Down /\ UNCHANGED <<fileVars, observerVars>>
     \/ ~Pending /\ Goto("baseline") /\ BeginObserve /\ UNCHANGED <<fileVars, faults>>

(* The first Observe, in run() itself and without an observer.             *)
BaselineRead ==
  /\ main = "baseline"
  /\ \E kind \in KindsOf : ReadTable(kind)
  /\ UNCHANGED <<fileVars, tokens, mainVars>>
BaselineTaken ==
  /\ main = "baseline" /\ Compare(FALSE)
  /\ main' = "tokens" /\ toSet' = Builtin
  /\ UNCHANGED <<fileVars, tokens, began, env, faults>>
BaselineFails ==
  /\ main = "baseline" /\ Fault /\ Down /\ Forgotten
  /\ UNCHANGED <<fileVars, tokens, table>>

(* authStore.Upsert for the next variable that is set; an error ends run() *)
(* with the tokens before it written.                                      *)
SetToken ==
  /\ main = "tokens" /\ toSet # <<>>
  /\ LET name == Head(toSet)  setting == env[name] IN
       \/ /\ setting = Unset \/ ~Refused(name, setting)
          /\ tokens' = IF setting = Unset THEN tokens ELSE AfterUpsert(name, setting)
          /\ toSet' = Tail(toSet) /\ UNCHANGED <<main, faults>>
       \/ /\ Refused(name, setting)
          /\ main' = "drain" /\ UNCHANGED <<tokens, toSet, faults>>
       \/ /\ setting # Unset /\ Fault
          /\ main' = "drain" /\ UNCHANGED <<tokens, toSet>>
  /\ UNCHANGED <<fileVars, observerVars, began, env>>

Serve ==
  /\ main = "tokens" /\ toSet = <<>>
  /\ Goto("serve")
  /\ UNCHANGED <<fileVars, tokens, observerVars, faults>>

-----------------------------------------------------------------------------
(* The observing goroutine.  A tick that is taken together with the        *)
(* cancellation ends at its first query and changes nothing.               *)
Running == main \in {"tokens", "serve", "drain"}

(* A bug: the loop does not watch for the cancellation.                    *)
TickForever ==
  /\ Running /\ step = "idle" /\ BeginObserve
  /\ UNCHANGED <<fileVars, tokens, mainVars>>

Tick ==
  /\ main \in {"tokens", "serve"} /\ step = "idle" /\ BeginObserve
  /\ UNCHANGED <<fileVars, tokens, mainVars>>
ObserveStep ==
  /\ Running
  /\ \/ \E kind \in KindsOf : ReadTable(kind)
     \/ Compare(TRUE)
     \/ \E k \in Keys : Report(k)
     \/ Settle
  /\ UNCHANGED <<fileVars, tokens, mainVars>>
(* A statement fails, or the read is cancelled; a report is not: it has a  *)
(* context of its own.                                                     *)
ObserveFails ==
  /\ Running /\ GiveUp
  /\ \/ Fault
     \/ main = "drain" /\ step = "read" /\ UNCHANGED faults
  /\ UNCHANGED <<fileVars, tokens, main, began, env, toSet>>

Stop ==
  /\ main = "serve" /\ Goto("drain")
  /\ UNCHANGED <<fileVars, tokens, observerVars, faults>>

(* A bug: the file is closed without waiting for the goroutine.            *)
FinishAtOnce ==
  /\ main = "drain" /\ Down
  /\ UNCHANGED <<fileVars, tokens, observerVars, faults>>

(* <-observeDone, then db.Close.                                           *)
Finish ==
  /\ main = "drain" /\ step = "idle" /\ Down /\ Forgotten
  /\ UNCHANGED <<fileVars, tokens, table, faults>>

Crash ==
  /\ main # "down" /\ Down /\ Forgotten
  /\ UNCHANGED <<fileVars, tokens, table, faults>>

(* Resources are edited from outside; edits of a file nobody has open are  *)
(* in the choice of the initial tables.                                    *)
Edit(k, rev) ==
  /\ main \in {"baseline", "tokens", "serve", "drain"}
  /\ table[k] # rev /\ EditTable(k, rev)
  /\ UNCHANGED <<fileVars, tokens, mainVars>>

Startup == CheckVersion \/ TakeBackup \/ Migrate \/ BaselineRead \/ BaselineTaken
           \/ BaselineFails \/ SetToken \/ Serve

Next == \/ \E e \in [Names -> Settings] : Launch(e)
        \/ Startup \/ Tick \/ ObserveStep \/ ObserveFails
        \/ Stop \/ Finish \/ Crash
        \/ \E k \in Keys, rev \in Revisions \cup {Absent} : Edit(k, rev)

(* The ticker ticks, statements end, and the goroutine is waited for.      *)
Spec == Init /\ [][Next]_vars
        /\ WF_vars(Tick) /\ WF_vars(ObserveStep) /\ WF_vars(Finish)
=============================================================================
