---------------------------- MODULE Gateway_proofs ----------------------------
(***************************************************************************)
(* The safety properties of the process, for every chain of versions, any  *)
(* names, secrets, resources and edits, and any number of failures: first  *)
(* the file, then the tokens, then the audit rows of the observer.  Each   *)
(* part has an invariant of its own.                                       *)
(***************************************************************************)
EXTENDS GatewaySafety, FiniteSetTheorems, TLAPS

(* Where run() has the file open for its services.                         *)
Opened == {"baseline", "tokens", "serve", "drain"}

(* The file while a start works on it: began is the version found, it is   *)
(* kept before the first migration, and migrations stop at Target.         *)
FileInv ==
  /\ main \in Mains /\ version \in Nat
  /\ main \in {"check", "backup"} => began.version = version /\ began.tables = tables
  /\ main \in {"backup", "up"} => version <= Target
  /\ main = "up" /\ began.tables => began.version \in backups
  /\ main \in Opened => version = Target

(* A file of any version, and nobody running.                              *)
LEMMA FileInvInit == Init => FileInv
  BY VersionsTyped DEF Init, FileInit, FileInv, Mains, Opened

(* Every step of run() keeps to the order check, backup, up.               *)
LEMMA FileStep == FileInv /\ [Next]_vars => FileInv'
<1> SUFFICES ASSUME FileInv, [Next]_vars PROVE FileInv'
  OBVIOUS
<1> USE VersionsTyped DEF FileInv, Mains, Opened
<1>1. CASE UNCHANGED <<fileVars, main, began>>
  BY <1>1 DEF fileVars
<1>2. CASE \E e \in [Names -> Settings] : Launch(e)
  BY <1>2 DEF Launch, fileVars
<1>3. CASE CheckVersion
  BY <1>3 DEF CheckVersion, Down, Goto, TooNew, Pending, HasTables, fileVars
<1>4. CASE TakeBackup
  BY <1>4 DEF TakeBackup, Snapshot, Down, Goto, fileVars
<1>5. CASE Migrate
  BY <1>5 DEF Migrate, Pending, ApplyNext, Down, Goto, fileVars
<1>6. CASE BaselineTaken \/ BaselineFails \/ SetToken \/ Serve
  BY <1>6 DEF BaselineTaken, BaselineFails, SetToken, Serve, Goto, Down, fileVars
<1>7. CASE Stop \/ Finish \/ Crash
  BY <1>7 DEF Stop, Finish, Crash, Goto, Down, fileVars
<1>8. CASE \/ BaselineRead \/ Tick \/ ObserveStep \/ ObserveFails
           \/ \E k \in Keys, rev \in Revisions \cup {Absent} : Edit(k, rev)
  BY <1>8, <1>1 DEF BaselineRead, Tick, ObserveStep, ObserveFails, Edit, mainVars
<1> QED BY <1>1, <1>2, <1>3, <1>4, <1>5, <1>6, <1>7, <1>8 DEF Next, Startup, vars, mainVars

(* The gateway only ever works on a file of the version it knows.          *)
THEOREM ServesItsVersionThm == Spec => []ServesItsVersion
<1>1. FileInv => ServesItsVersion
  BY DEF FileInv, ServesItsVersion, Opened
<1> QED BY <1>1, FileInvInit, FileStep, PTL DEF Spec

(* No upgrade without a complete copy of what it started from.             *)
THEOREM UpgradeKeepsACopyThm == Spec => UpgradeKeepsACopy
<1>1. FileInv /\ [Next]_vars => [version' # version /\ began.tables => began.version \in backups]_vars
  <2> SUFFICES ASSUME FileInv, Next, version' # version, began.tables
               PROVE  began.version \in backups
    BY DEF vars, fileVars
  <2>1. main = "up"
    BY DEF Next, Startup, Launch, CheckVersion, TakeBackup, Snapshot, Migrate, BaselineRead,
           BaselineTaken, BaselineFails, SetToken, Serve, Tick, ObserveStep, ObserveFails,
           Stop, Finish, Crash, Edit, fileVars
  <2> QED BY <2>1 DEF FileInv
<1> QED BY <1>1, FileInvInit, FileStep, PTL DEF Spec, UpgradeKeepsACopy
-----------------------------------------------------------------------------
(* No two names have the same token, and once run() has handled a variable *)
(* the row of its name says what the variable says.                        *)
TokensUnique == \A a, b \in Names :
  HasRow(a) /\ HasRow(b) /\ tokens[a].secret = tokens[b].secret => a = b

Waiting(name) == \E i \in DOMAIN toSet : toSet[i] = name
InForce(name) ==
  /\ env[name] \in Secrets => tokens[name] = [secret |-> env[name], revoked |-> FALSE]
  /\ env[name] = "" /\ HasRow(name) => tokens[name].revoked

TokenInv ==
  /\ TokensTypeOK
  /\ main # "down" => env \in [Names -> Settings]
  /\ toSet \in Seq(Names)
  /\ TokensUnique
  /\ main = "tokens" => \A name \in Names : Waiting(name) \/ InForce(name)
  /\ main = "serve" => \A name \in Names : InForce(name)

(* No rows, no variables.                                                  *)
LEMMA TokenInvInit == Init => TokenInv
  BY DEF Init, TokenInv, TokensTypeOK, TokensUnique, HasRow

(* An Upsert that goes through keeps the tokens apart and puts its own     *)
(* variable in force.                                                      *)
UpsertResult(name, setting, new) ==
  /\ new \in [Names -> TokenRow \cup {NoToken}]
  /\ \A a, b \in Names :
       new[a] # NoToken /\ new[b] # NoToken /\ new[a].secret = new[b].secret => a = b
  /\ \A a \in Names \ {name} : new[a] = tokens[a]
  /\ setting \in Secrets => new[name] = [secret |-> setting, revoked |-> FALSE]
  /\ setting = "" /\ new[name] # NoToken => new[name].revoked

LEMMA UpsertKeeps ==
  ASSUME TokensTypeOK, TokensUnique, NEW name \in Names, NEW setting \in Secrets \cup {""},
         ~Refused(name, setting)
  PROVE  UpsertResult(name, setting, AfterUpsert(name, setting))
<1> DEFINE new == AfterUpsert(name, setting)
           row == [secret |-> setting, revoked |-> FALSE]
<1>1. CASE setting \in Secrets
  <2>1. new = [tokens EXCEPT ![name] = row]
    BY <1>1, SettingsDiffer DEF AfterUpsert
  <2>2. \A a \in Names \ {name} : HasRow(a) => tokens[a].secret # setting
    BY <1>1 DEF Refused, Taken
  <2>3. row \in TokenRow /\ row.secret = setting
    BY <1>1 DEF TokenRow
  <2> HIDE DEF row
  <2>4. new[name] = row /\ \A a \in Names \ {name} : new[a] = tokens[a]
    BY <2>1 DEF TokensTypeOK
  <2>5. new \in [Names -> TokenRow \cup {NoToken}]
    BY <2>1, <2>3 DEF TokensTypeOK
  <2> HIDE DEF new
  <2>6. ASSUME NEW a \in Names, NEW b \in Names, new[a] # NoToken, new[b] # NoToken,
               new[a].secret = new[b].secret
        PROVE  a = b
    <3>1. CASE a # name /\ b # name
      BY <3>1, <2>4, <2>6 DEF TokensUnique, HasRow
    <3>2. CASE a = name \/ b = name
      BY <3>2, <2>2, <2>3, <2>4, <2>6 DEF HasRow
    <3> QED BY <3>1, <3>2
  <2>7. setting # ""
    BY <1>1, SettingsDiffer
  <2> QED BY <2>4, <2>5, <2>6, <2>7 DEF UpsertResult, row, new
<1>2. CASE setting = ""
  <2>1. /\ HasRow(name) => new = [tokens EXCEPT ![name] = [@ EXCEPT !.revoked = TRUE]]
        /\ ~HasRow(name) => new = [tokens EXCEPT ![name] = tokens[name]]
    BY <1>2 DEF AfterUpsert
  <2>2. HasRow(name) => /\ new[name] = [tokens[name] EXCEPT !.revoked = TRUE]
                        /\ new[name] \in TokenRow
                        /\ new[name].secret = tokens[name].secret
                        /\ new[name].revoked
    BY <2>1 DEF TokensTypeOK, TokenRow, HasRow
  <2>3. \A a \in Names \ {name} : new[a] = tokens[a]
    BY <2>1 DEF TokensTypeOK
  <2>4. new \in [Names -> TokenRow \cup {NoToken}]
    BY <2>1, <2>2, <2>3 DEF TokensTypeOK
  <2>5. \A a \in Names : new[a] # NoToken => HasRow(a) /\ new[a].secret = tokens[a].secret
    BY <2>1, <2>2, <2>3 DEF HasRow, TokensTypeOK
  <2>6. \A a, b \in Names : new[a] # NoToken /\ new[b] # NoToken
                            /\ new[a].secret = new[b].secret => a = b
    BY <2>5 DEF TokensUnique
  <2>7. new[name] # NoToken => new[name].revoked
    BY <2>2, <2>5
  <2> QED BY <1>2, <2>3, <2>4, <2>6, <2>7, SettingsDiffer DEF UpsertResult
<1> QED BY <1>1, <1>2

(* The loop of main.go over the variables.                                 *)
LEMMA SetTokenKeeps == TokenInv /\ SetToken => TokenInv'
<1> SUFFICES ASSUME TokenInv, SetToken PROVE TokenInv'
  OBVIOUS
<1>1. main = "tokens" /\ toSet # <<>> /\ env' = env /\ env \in [Names -> Settings]
  BY DEF SetToken, TokenInv
<1>2. PICK name \in Names : name = Head(toSet)
  BY <1>1 DEF TokenInv
<1>3. Tail(toSet) \in Seq(Names)
  BY <1>1 DEF TokenInv
<1>4. ASSUME NEW other \in Names \ {name}, Waiting(other)
      PROVE  \E i \in DOMAIN Tail(toSet) : Tail(toSet)[i] = other
  <2>1. PICK i \in DOMAIN toSet : toSet[i] = other
    BY <1>4 DEF Waiting
  <2>2. i - 1 \in DOMAIN Tail(toSet) /\ Tail(toSet)[i - 1] = other
    BY <1>1, <1>2, <2>1 DEF TokenInv
  <2> QED BY <2>2
<1> DEFINE setting == env[name]
<1>5. CASE main' = "drain" /\ UNCHANGED <<tokens, toSet>>
  BY <1>1, <1>5 DEF TokenInv, TokensTypeOK, TokensUnique, HasRow
<1>6. CASE setting = Unset /\ tokens' = tokens /\ toSet' = Tail(toSet) /\ main' = main
  <2>1. InForce(name)
    BY <1>6, SettingsDiffer DEF InForce
  <2>2. \A other \in Names : Waiting(other)' \/ InForce(other)'
    BY <1>1, <1>4, <1>6, <2>1 DEF TokenInv, Waiting, InForce, HasRow
  <2> QED BY <1>1, <1>3, <1>6, <2>2 DEF TokenInv, TokensTypeOK, TokensUnique, HasRow
<1>7. CASE /\ setting # Unset /\ ~Refused(name, setting)
           /\ tokens' = AfterUpsert(name, setting) /\ toSet' = Tail(toSet) /\ main' = main
  <2>1. setting \in Secrets \cup {""}
    BY <1>1, <1>7 DEF Settings
  <2>2. UpsertResult(name, setting, tokens')
    BY <1>7, <2>1, UpsertKeeps DEF TokenInv
  <2>3. InForce(name)'
    BY <1>1, <2>2 DEF InForce, HasRow, UpsertResult
  <2>4. ASSUME NEW other \in Names \ {name}
        PROVE  Waiting(other)' \/ InForce(other)'
    <3>1. Waiting(other) => Waiting(other)'
      BY <1>4, <1>7 DEF Waiting
    <3>2. InForce(other) => InForce(other)'
      BY <1>1, <2>2 DEF InForce, HasRow, UpsertResult
    <3> QED BY <1>1, <3>1, <3>2 DEF TokenInv
  <2>5. TokensTypeOK' /\ TokensUnique'
    BY <2>2 DEF TokensTypeOK, TokensUnique, HasRow, UpsertResult
  <2>6. \A other \in Names : Waiting(other)' \/ InForce(other)'
    BY <2>3, <2>4
  <2> QED BY <1>1, <1>3, <1>7, <2>5, <2>6 DEF TokenInv
<1> QED BY <1>2, <1>5, <1>6, <1>7 DEF SetToken

(* Nothing else writes tokens; the loop starts with every variable waiting,*)
(* and serving starts when none is.                                        *)
LEMMA TokenStep == TokenInv /\ [Next]_vars => TokenInv'
<1> SUFFICES ASSUME TokenInv, [Next]_vars PROVE TokenInv'
  OBVIOUS
<1>1. CASE UNCHANGED <<tokens, main, env, toSet>>
  BY <1>1 DEF TokenInv, TokensTypeOK, TokensUnique, HasRow, Waiting, InForce
<1>2. ASSUME tokens' = tokens, main' \notin {"tokens", "serve"}, toSet' \in Seq(Names),
             main' # "down" => env' \in [Names -> Settings]
      PROVE  TokenInv'
  BY <1>2 DEF TokenInv, TokensTypeOK, TokensUnique, HasRow
<1>3. CASE \E e \in [Names -> Settings] : Launch(e)
  BY <1>2, <1>3 DEF Launch, TokenInv
<1>4. CASE CheckVersion \/ TakeBackup \/ Migrate \/ BaselineFails
  <2>1. tokens' = tokens /\ main # "down" /\ main' \notin {"tokens", "serve"}
    BY <1>4 DEF CheckVersion, TakeBackup, Migrate, BaselineFails, Down, Goto, FileOnly
  <2>2. \/ toSet' = <<>> /\ main' = "down"
        \/ toSet' = toSet /\ env' = env
    BY <1>4 DEF CheckVersion, TakeBackup, Migrate, BaselineFails, Down, Goto
  <2>3. CASE toSet' = <<>> /\ main' = "down"
    BY <1>2, <2>1, <2>3
  <2>4. CASE toSet' = toSet /\ env' = env
    <3>1. toSet' \in Seq(Names) /\ env' \in [Names -> Settings]
      BY <2>1, <2>4 DEF TokenInv
    <3> QED BY <1>2, <2>1, <3>1
  <2> QED BY <2>2, <2>3, <2>4
<1>5. CASE BaselineTaken
  <2>1. tokens' = tokens /\ env' = env /\ main = "baseline" /\ main' = "tokens" /\ toSet' = Builtin
    BY <1>5 DEF BaselineTaken
  <2>2. \A name \in Names : Waiting(name)'
    BY <2>1, BuiltinTyped DEF Waiting
  <2> QED BY <2>1, <2>2, BuiltinTyped DEF TokenInv, TokensTypeOK, TokensUnique, HasRow
<1>6. CASE SetToken
  BY <1>6, SetTokenKeeps
<1>7. CASE Serve
  <2>1. toSet = <<>> /\ main = "tokens" /\ main' = "serve" /\ UNCHANGED <<tokens, env, toSet>>
    BY <1>7 DEF Serve, Goto
  <2>2. \A name \in Names : InForce(name)
    BY <2>1 DEF TokenInv, Waiting
  <2>3. env' \in [Names -> Settings]
    BY <2>1 DEF TokenInv
  <2> QED BY <2>1, <2>2, <2>3 DEF TokenInv, TokensTypeOK, TokensUnique, HasRow, InForce
<1>8. CASE Stop \/ Finish \/ Crash
  <2>1. tokens' = tokens /\ main # "down" /\ main' \notin {"tokens", "serve"}
    BY <1>8 DEF Stop, Finish, Crash, Down, Goto
  <2>2. \/ toSet' = <<>> /\ main' = "down"
        \/ toSet' = toSet /\ env' = env
    BY <1>8 DEF Stop, Finish, Crash, Down, Goto
  <2>3. CASE toSet' = <<>> /\ main' = "down"
    BY <1>2, <2>1, <2>3
  <2>4. CASE toSet' = toSet /\ env' = env
    <3>1. toSet' \in Seq(Names) /\ env' \in [Names -> Settings]
      BY <2>1, <2>4 DEF TokenInv
    <3> QED BY <1>2, <2>1, <3>1
  <2> QED BY <2>2, <2>3, <2>4
<1>9. CASE \/ BaselineRead \/ Tick \/ ObserveStep \/ ObserveFails
           \/ \E k \in Keys, rev \in Revisions \cup {Absent} : Edit(k, rev)
  BY <1>1, <1>9 DEF BaselineRead, Tick, ObserveStep, ObserveFails, Edit, mainVars
<1>10. CASE UNCHANGED vars
  BY <1>1, <1>10 DEF vars, mainVars
<1> QED BY <1>3, <1>4, <1>5, <1>6, <1>7, <1>8, <1>9, <1>10 DEF Next, Startup

(* A set without two different members.                                    *)
LEMMA AtMostOne == ASSUME NEW S, \A a, b \in S : a = b PROVE Cardinality(S) <= 1
<1>1. CASE S = {}
  BY <1>1, FS_EmptySet
<1>2. CASE S # {}
  <2>1. PICK a \in S : TRUE
    BY <1>2
  <2>2. S = {a}
    BY <2>1
  <2>3. Cardinality(S) = 1
    BY <2>2, FS_Singleton
  <2> QED BY <2>3
<1> QED BY <1>1, <1>2

(* A bearer is one caller, at every moment of every start.                 *)
THEOREM OneIdentityThm == Spec => []OneIdentity
<1>1. TokenInv => OneIdentity
  <2> SUFFICES ASSUME TokenInv, NEW secret \in Secrets, NEW scope \in {"mcp", "rest"}
               PROVE  Cardinality(Authenticate(secret, scope)) <= 1
    BY DEF OneIdentity
  <2>1. \A a, b \in Authenticate(secret, scope) : a = b
    BY DEF TokenInv, TokensUnique, Authenticate
  <2> QED BY <2>1, AtMostOne
<1> QED BY <1>1, TokenInvInit, TokenStep, PTL DEF Spec

(* While the gateway serves, its environment variables are in force.       *)
THEOREM ConfiguredTokensHoldThm == Spec => []ConfiguredTokensHold
<1>1. TokenInv => ConfiguredTokensHold
  <2> SUFFICES ASSUME TokenInv, main = "serve", NEW name \in Names, NEW scope \in {"mcp", "rest"}
               PROVE  /\ env[name] \in Secrets =>
                           ((name \in Authenticate(env[name], scope)) <=> (scope \in ScopeOf[name]))
                      /\ env[name] = "" =>
                           \A secret \in Secrets : name \notin Authenticate(secret, scope)
    BY DEF ConfiguredTokensHold
  <2>1. InForce(name)
    BY DEF TokenInv
  <2>2. CASE env[name] \in Secrets
    <3>1. tokens[name] = [secret |-> env[name], revoked |-> FALSE]
      BY <2>1, <2>2 DEF InForce
    <3>2. tokens[name] \in [secret : Secrets, revoked : BOOLEAN]
      BY <2>2, <3>1
    <3>3. HasRow(name)
      BY <3>2, SettingsDiffer DEF HasRow
    <3>4. tokens[name].secret = env[name] /\ tokens[name].revoked = FALSE
      BY <3>1
    <3>5. ~tokens[name].revoked
      BY <3>4, Zenon
    <3> QED BY <2>2, <3>3, <3>4, <3>5, SettingsDiffer DEF Authenticate
  <2>3. CASE env[name] \notin Secrets
    BY <2>1, <2>3 DEF InForce, Authenticate
  <2> QED BY <2>2, <2>3
<1> QED BY <1>1, TokenInvInit, TokenStep, PTL DEF Spec
-----------------------------------------------------------------------------
(* What was reported on top of the first state, in every phase of an       *)
(* Observe.                                                                *)
TrailInv ==
  /\ step \in {"off", "idle", "read", "report"}
  /\ step # "report" => \A k \in Keys \ torn : trail[k] = state[k]
  /\ step = "report" =>
       /\ todo \subseteq Differ
       /\ \A k \in Keys : IF k \in Differ \ todo THEN trail[k] = next[k]
                                               ELSE k \in torn \/ trail[k] = state[k]
  /\ state \in Contents /\ next \in Contents /\ trail \in Contents /\ table \in Contents

(* The goroutine, and the Observe of run(), exist while the file is open.  *)
PhaseInv ==
  /\ main \in Mains
  /\ step = "off" <=> main \notin Opened
  /\ main = "baseline" => step = "read"

ObserverInv == TrailInv /\ PhaseInv

(* Nothing seen, nothing reported.                                         *)
LEMMA ObserverInvInit == Init => ObserverInv
  BY DEF Init, ObserverInit, Nothing, ObserverInv, TrailInv, PhaseInv, Mains, Opened, Contents

(* What comes before the reports leaves state and rows as they are.        *)
LEMMA ReadKeeps ==
  ASSUME TrailInv,
         \/ BeginObserve
         \/ \E kind \in KindsOf : ReadTable(kind)
         \/ \E k \in Keys, rev \in Revisions \cup {Absent} : EditTable(k, rev),
         step # "report" \/ step' = step
  PROVE  TrailInv'
<1>1. CASE BeginObserve
  <2>1. Nothing \in Contents
    BY DEF Nothing, Contents
  <2>2. step # "report"
    BY <1>1 DEF BeginObserve
  <2> QED BY <1>1, <2>1, <2>2 DEF BeginObserve, TrailInv
<1>2. CASE \E kind \in KindsOf : ReadTable(kind)
  <2>1. next' \in Contents
    BY <1>2 DEF ReadTable, TrailInv, Contents
  <2> QED BY <1>2, <2>1 DEF ReadTable, TrailInv
<1>3. CASE \E k \in Keys, rev \in Revisions \cup {Absent} : EditTable(k, rev)
  <2>1. table' \in Contents
    BY <1>3 DEF EditTable, TrailInv, Contents
  <2> QED BY <1>3, <2>1 DEF EditTable, TrailInv, Differ
<1> QED BY <1>1, <1>2, <1>3

(* The comparison, with and without an observer.                           *)
LEMMA CompareKeeps ==
  ASSUME TrailInv, NEW observed \in BOOLEAN, Compare(observed) PROVE TrailInv'
<1>1. Nothing \in Contents
  BY DEF Nothing, Contents
<1>2. CASE observed
  BY <1>2 DEF Compare, TrailInv, Differ
<1>3. CASE ~observed
  BY <1>1, <1>3 DEF Compare, TrailInv
<1> QED BY <1>2, <1>3

(* One more row: the key is no longer to do.                               *)
LEMMA ReportKeeps == ASSUME TrailInv, NEW k \in Keys, Report(k) PROVE TrailInv'
<1>1. /\ step = "report" /\ step' = step /\ k \in todo /\ todo' = todo \ {k}
      /\ trail' = [trail EXCEPT ![k] = next[k]] /\ UNCHANGED <<table, state, next, torn>>
  BY DEF Report
<1>2. trail' \in Contents
  BY <1>1 DEF TrailInv, Contents
<1>3. Differ' = Differ
  BY <1>1 DEF Differ
<1>4. ASSUME NEW j \in Keys
      PROVE  IF j \in Differ \ todo' THEN trail'[j] = next[j]
                                     ELSE j \in torn \/ trail'[j] = state[j]
  BY <1>1, <1>4 DEF TrailInv, Contents
<1> QED BY <1>1, <1>2, <1>3, <1>4 DEF TrailInv

(* The end of an Observe, with or without an error.                        *)
LEMMA EndKeeps == ASSUME TrailInv, Settle \/ GiveUp PROVE TrailInv'
<1>1. Nothing \in Contents
  BY DEF Nothing, Contents
<1>2. CASE Settle
  <2>1. \A k \in Keys \ (torn \ Differ) : trail[k] = next[k]
    BY <1>2 DEF Settle, TrailInv, Differ
  <2> QED BY <1>1, <1>2, <2>1 DEF Settle, TrailInv
<1>3. CASE GiveUp
  BY <1>1, <1>3 DEF GiveUp, TrailInv
<1> QED BY <1>2, <1>3

(* Shutdown, crash and a failed start forget everything.                   *)
LEMMA ForgottenKeeps == ASSUME TrailInv, Forgotten, table' = table PROVE TrailInv'
  BY DEF Forgotten, Nothing, TrailInv, Contents

(* Every step of the process keeps the rows and the state in agreement.    *)
LEMMA ObserverStep == ObserverInv /\ [Next]_vars => ObserverInv'
<1> SUFFICES ASSUME ObserverInv, [Next]_vars PROVE ObserverInv'
  OBVIOUS
<1> USE DEF ObserverInv
<1>1. TrailInv'
  <2>1. CASE UNCHANGED observerVars
    BY <2>1 DEF observerVars, TrailInv, Differ
  <2>2. CASE \E e \in [Names -> Settings] : Launch(e)
    BY <2>1, <2>2 DEF Launch
  <2>3. CASE CheckVersion \/ Migrate
    <3>1. step = "off"
      BY <2>3 DEF CheckVersion, Migrate, PhaseInv, Opened
    <3>2. UNCHANGED observerVars \/ BeginObserve
      BY <2>3 DEF CheckVersion, Migrate
    <3> QED BY <2>1, <3>1, <3>2, ReadKeeps
  <2>4. CASE TakeBackup \/ SetToken \/ Serve \/ Stop
    BY <2>1, <2>4 DEF TakeBackup, FileOnly, SetToken, Serve, Stop
  <2>5. CASE BaselineRead \/ Tick
    BY <2>5, ReadKeeps DEF BaselineRead, Tick, ReadTable
  <2>6. CASE BaselineTaken
    BY <2>6, CompareKeeps DEF BaselineTaken
  <2>7. CASE BaselineFails \/ Finish \/ Crash
    BY <2>7, ForgottenKeeps DEF BaselineFails, Finish, Crash
  <2>8. CASE ObserveStep
    <3>1. CASE \E kind \in KindsOf : ReadTable(kind)
      BY <3>1, ReadKeeps DEF ReadTable
    <3>2. CASE Compare(TRUE)
      BY <3>2, CompareKeeps
    <3> QED BY <2>8, <3>1, <3>2, ReportKeeps, EndKeeps DEF ObserveStep
  <2>9. CASE ObserveFails
    BY <2>9, EndKeeps DEF ObserveFails
  <2>10. CASE \E k \in Keys, rev \in Revisions \cup {Absent} : Edit(k, rev)
    BY <2>10, ReadKeeps DEF Edit, EditTable
  <2>11. CASE UNCHANGED vars
    BY <2>1, <2>11 DEF vars
  <2> QED BY <2>2, <2>3, <2>4, <2>5, <2>6, <2>7, <2>8, <2>9, <2>10, <2>11 DEF Next, Startup
<1>2. PhaseInv'
  <2> USE DEF PhaseInv, Mains, Opened
  <2>1. CASE \/ \E e \in [Names -> Settings] : Launch(e)
             \/ TakeBackup \/ SetToken \/ Serve \/ Stop \/ UNCHANGED vars
    BY <2>1 DEF Launch, TakeBackup, FileOnly, Goto, Down, SetToken, Serve, Stop, observerVars,
                vars, mainVars
  <2>2. CASE CheckVersion \/ Migrate
    BY <2>2 DEF CheckVersion, Migrate, BeginObserve, Goto, Down, observerVars
  <2>3. CASE BaselineRead \/ BaselineTaken \/ Tick
    BY <2>3 DEF BaselineRead, BaselineTaken, Tick, ReadTable, Compare, BeginObserve, mainVars
  <2>4. CASE BaselineFails \/ Finish \/ Crash
    BY <2>4 DEF BaselineFails, Finish, Crash, Down, Forgotten
  <2>5. CASE ObserveStep \/ ObserveFails
    BY <2>5 DEF ObserveStep, ObserveFails, Running, ReadTable, Compare, Report, Settle, GiveUp,
                mainVars
  <2>6. CASE \E k \in Keys, rev \in Revisions \cup {Absent} : Edit(k, rev)
    BY <2>6 DEF Edit, EditTable, mainVars
  <2> QED BY <2>1, <2>2, <2>3, <2>4, <2>5, <2>6 DEF Next, Startup
<1> QED BY <1>1, <1>2

(* The audit rows of the resources account for the state of the tables.    *)
THEOREM TrailAgreesThm == Spec => []TrailAgrees
<1>1. ObserverInv => TrailAgrees
  BY DEF ObserverInv, TrailInv, PhaseInv, TrailAgrees, Opened
<1> QED BY <1>1, ObserverInvInit, ObserverStep, PTL DEF Spec

(* The observer never runs on a store that was closed: main waits for it   *)
(* before it closes the file.                                              *)
THEOREM StoreOpenWhileUsedThm == Spec => []StoreOpenWhileUsed
<1>1. ObserverInv => StoreOpenWhileUsed
  BY DEF ObserverInv, PhaseInv, StoreOpenWhileUsed, Opened
<1> QED BY <1>1, ObserverInvInit, ObserverStep, PTL DEF Spec

(* A row repeats an earlier one only after a failed Observe.               *)
THEOREM NoRepeatedRowThm == Spec => NoRepeatedRow
<1>1. ObserverInv =>
        \A k \in Keys : step = "report" /\ step' = "report" /\ k \in todo \ todo'
                          => trail[k] # next[k] \/ k \in torn
  <2> SUFFICES ASSUME ObserverInv, NEW k \in Keys, step = "report", k \in todo
               PROVE  trail[k] # next[k] \/ k \in torn
    OBVIOUS
  <2> QED BY DEF ObserverInv, TrailInv, Differ
<1> QED BY <1>1, ObserverInvInit, ObserverStep, PTL DEF Spec, NoRepeatedRow
-----------------------------------------------------------------------------
(* Every variable of the process keeps its type; of the tokens TokenInv    *)
(* says so.                                                                *)
TypeInv ==
  /\ FileTypeOK /\ ObserverTypeOK
  /\ main \in Mains /\ began \in Found
  /\ env \in [Names -> Settings] /\ toSet \in Seq(Names)
  /\ faults \in 0..MaxFaults

LEMMA TypeInvInit == Init => TypeInv
<1> SUFFICES ASSUME Init PROVE TypeInv
  OBVIOUS
<1>1. FileTypeOK /\ began \in Found
  BY VersionsTyped DEF Init, FileInit, FileTypeOK, Found, NoFile
<1>2. ObserverTypeOK
  BY DEF Init, ObserverInit, ObserverTypeOK, Nothing, Contents
<1>3. env \in [Names -> Settings] /\ toSet \in Seq(Names)
  BY DEF Init, NoEnv, Settings
<1>4. main \in Mains /\ faults \in 0..MaxFaults
  BY MaxFaultsTyped DEF Init, Mains
<1> QED BY <1>1, <1>2, <1>3, <1>4 DEF TypeInv

(* The file.                                                               *)
LEMMA FileTyped == TypeInv /\ [Next]_vars => FileTypeOK' /\ began' \in Found
<1> SUFFICES ASSUME TypeInv, [Next]_vars PROVE FileTypeOK' /\ began' \in Found
  OBVIOUS
<1>0. /\ version \in 0..Newest /\ tables \in BOOLEAN /\ backups \subseteq 0..Newest
      /\ began \in Found /\ NoFile \in Found
      /\ Target \in Nat /\ Newest \in Nat /\ Target <= Newest
  BY VersionsTyped DEF TypeInv, FileTypeOK, Found, NoFile
<1>1. CASE CheckVersion \/ TakeBackup
  <2>1. /\ version' = version /\ tables' = tables
        /\ backups' \in {backups, backups \cup {version}} /\ began' \in {NoFile, began}
    BY <1>1 DEF CheckVersion, TakeBackup, Snapshot, Down, Goto, fileVars
  <2> QED BY <1>0, <2>1 DEF FileTypeOK
<1>2. CASE Migrate
  <2>1. /\ version' = version \/ (version < Target /\ version' = version + 1)
        /\ tables' \in {tables, TRUE} /\ backups' = backups /\ began' \in {NoFile, began}
    BY <1>2 DEF Migrate, Pending, ApplyNext, Down, Goto, fileVars
  <2>2. version' \in 0..Newest
    BY <1>0, <2>1
  <2>3. tables' \in BOOLEAN /\ began' \in Found
    BY <1>0, <2>1
  <2> QED BY <1>0, <2>1, <2>2, <2>3 DEF FileTypeOK
<1>3. CASE ~CheckVersion /\ ~TakeBackup /\ ~Migrate
  <2>1. UNCHANGED fileVars
        /\ began' \in {NoFile, began, [version |-> version, tables |-> tables]}
    BY <1>3 DEF Next, Startup, Launch, BaselineRead, BaselineTaken, BaselineFails, SetToken,
           Serve, Tick, ObserveStep, ObserveFails, Stop, Finish, Crash, Edit, Down, Goto,
           vars, mainVars
  <2>2. [version |-> version, tables |-> tables] \in Found
    BY <1>0 DEF Found
  <2> QED BY <1>0, <2>1, <2>2 DEF FileTypeOK, fileVars
<1> QED BY <1>1, <1>2, <1>3

(* Where run() is, and what it still has to do.                            *)
LEMMA MainTyped == TypeInv /\ [Next]_vars =>
  /\ main' \in Mains /\ env' \in [Names -> Settings] /\ toSet' \in Seq(Names)
  /\ faults' \in 0..MaxFaults
<1> SUFFICES ASSUME TypeInv, [Next]_vars
             PROVE  /\ main' \in Mains /\ env' \in [Names -> Settings] /\ toSet' \in Seq(Names)
                    /\ faults' \in 0..MaxFaults
  OBVIOUS
<1>1. NoEnv \in [Names -> Settings]
  BY DEF NoEnv, Settings
<1>2. faults' \in 0..MaxFaults
  <2>1. UNCHANGED faults \/ Fault
    BY DEF Next, Startup, Launch, CheckVersion, TakeBackup, Migrate, BaselineRead, BaselineTaken,
           BaselineFails, SetToken, Serve, Tick, ObserveStep, ObserveFails, Stop, Finish, Crash,
           Edit, vars, mainVars
  <2> QED BY <2>1, MaxFaultsTyped DEF Fault, TypeInv
<1>3. CASE SetToken
  <2>1. toSet # <<>> /\ toSet \in Seq(Names)
    BY <1>3 DEF SetToken, TypeInv
  <2>2. toSet' \in {toSet, Tail(toSet)}
    BY <1>3 DEF SetToken
  <2>3. toSet' \in Seq(Names)
    BY <2>1, <2>2
  <2>4. main' \in {main, "drain"} /\ env' = env
    BY <1>3 DEF SetToken
  <2> QED BY <1>2, <2>3, <2>4 DEF TypeInv, Mains
<1>4. CASE ~SetToken
  <2>1. main' \in Mains
    BY <1>4 DEF TypeInv, Mains, Next, Startup, Launch, CheckVersion, TakeBackup, Migrate,
           BaselineRead, BaselineTaken, BaselineFails, Serve, Tick, ObserveStep, ObserveFails,
           Stop, Finish, Crash, Edit, Down, Goto, vars, mainVars
  <2>2. env' \in {env, NoEnv} \cup [Names -> Settings]
    BY <1>4 DEF Next, Startup, Launch, CheckVersion, TakeBackup, Migrate,
           BaselineRead, BaselineTaken, BaselineFails, Serve, Tick, ObserveStep, ObserveFails,
           Stop, Finish, Crash, Edit, Down, Goto, vars, mainVars
  <2>3. toSet' \in {toSet, <<>>, Builtin}
    BY <1>4 DEF Next, Startup, Launch, CheckVersion, TakeBackup, Migrate,
           BaselineRead, BaselineTaken, BaselineFails, Serve, Tick, ObserveStep, ObserveFails,
           Stop, Finish, Crash, Edit, Down, Goto, vars, mainVars
  <2>4. {toSet, <<>>, Builtin} \subseteq Seq(Names)
    BY BuiltinTyped DEF TypeInv
  <2> QED BY <1>1, <1>2, <2>1, <2>2, <2>3, <2>4 DEF TypeInv
<1> QED BY <1>3, <1>4

(* The observer.                                                           *)
LEMMA ObserverTyped == TypeInv /\ [Next]_vars => ObserverTypeOK'
<1> SUFFICES ASSUME TypeInv, [Next]_vars PROVE ObserverTypeOK'
  OBVIOUS
<1>1. Nothing \in Contents
  BY DEF Nothing, Contents
<1> USE DEF TypeInv, ObserverTypeOK
<1>2. CASE UNCHANGED observerVars
  BY <1>2 DEF observerVars
<1>3. CASE BeginObserve \/ (Forgotten /\ table' = table)
  BY <1>1, <1>3 DEF BeginObserve, Forgotten
<1>4. CASE \E kind \in KindsOf : ReadTable(kind)
  <2>1. next' \in Contents
    BY <1>4 DEF ReadTable, Contents
  <2> QED BY <1>4, <2>1 DEF ReadTable
<1>5. CASE Compare(TRUE) \/ Compare(FALSE)
  BY <1>1, <1>5 DEF Compare, Differ
<1>6. CASE \E k \in Keys : Report(k)
  <2>1. trail' \in Contents
    BY <1>6 DEF Report, Contents
  <2> QED BY <1>6, <2>1 DEF Report
<1>7. CASE Settle \/ GiveUp
  BY <1>1, <1>7 DEF Settle, GiveUp, Differ
<1>8. CASE \E k \in Keys, rev \in Revisions \cup {Absent} : EditTable(k, rev)
  <2>1. table' \in Contents
    BY <1>8 DEF EditTable, Contents
  <2> QED BY <1>8, <2>1 DEF EditTable
<1> HIDE DEF TypeInv, ObserverTypeOK
<1> QED BY <1>2, <1>3, <1>4, <1>5, <1>6, <1>7, <1>8
        DEF Next, Startup, Launch, CheckVersion, TakeBackup, FileOnly, Migrate, BaselineRead,
            BaselineTaken, BaselineFails, SetToken, Serve, Tick, ObserveStep, ObserveFails,
            Stop, Finish, Crash, Edit, vars

(* Type correctness of the process, its file, tokens and observer.         *)
THEOREM GatewayTypeOK == Spec => []TypeOK
<1>1. TypeInv /\ TokenInv => TypeOK
  BY DEF TypeInv, TokenInv, TypeOK
<1>2. TypeInv /\ [Next]_vars => TypeInv'
  BY FileTyped, MainTyped, ObserverTyped DEF TypeInv
<1> QED BY <1>1, <1>2, TypeInvInit, TokenInvInit, TokenStep, PTL DEF Spec
=============================================================================
