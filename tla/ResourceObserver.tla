-------------------------- MODULE ResourceObserver --------------------------
(***************************************************************************)
(* Store.Observe (internal/resources/store.go): it reads the resource      *)
(* tables one after the other, compares what it read with what it saw last *)
(* and reports every difference to the observer of main.go, which writes   *)
(* an audit row.  Edits come from outside at any time, also between the    *)
(* tables.  One Observe runs at a time (Store.mu).                         *)
(***************************************************************************)
EXTENDS FiniteSets

CONSTANTS
  Keys,       \* resources
  KindOf,     \* the table of each
  Revisions,  \* configurations
  Absent      \* no row

ASSUME KindsTyped == DOMAIN KindOf = Keys /\ Absent \notin Revisions

VARIABLES
  table,  \* the resource tables
  state,  \* Store.state: revisions of the last complete Observe
  next,   \* what this Observe has read
  step,   \* "off", "idle", "read" or "report"
  todo,   \* kinds left to read, or keys left to compare
  trail,  \* history: the first state, brought up to date by the rows since
  torn    \* history: keys reported by an Observe that then failed

observerVars == <<table, state, next, step, todo, trail, torn>>

KindsOf == {KindOf[k] : k \in Keys}
Contents == [Keys -> Revisions \cup {Absent}]

ObserverTypeOK ==
  /\ {table, state, next, trail} \subseteq Contents
  /\ step \in {"off", "idle", "read", "report"}
  /\ todo \subseteq KindsOf \cup Keys
  /\ torn \subseteq Keys

Nothing == [k \in Keys |-> Absent]
Forgotten ==
  /\ state' = Nothing /\ next' = Nothing /\ step' = "off" /\ todo' = {}
  /\ trail' = Nothing /\ torn' = {}

ObserverInit ==
  /\ table \in Contents
  /\ state = Nothing /\ next = Nothing /\ step = "off" /\ todo = {}
  /\ trail = Nothing /\ torn = {}

-----------------------------------------------------------------------------
BeginObserve ==
  /\ step' = "read" /\ todo' = KindsOf /\ next' = Nothing
  /\ UNCHANGED <<table, state, trail, torn>>

Differ == {k \in Keys : state[k] # next[k]}

(* One table, read to its end.                                             *)
ReadTable(kind) ==
  /\ step = "read" /\ kind \in todo
  /\ next' = [k \in Keys |-> IF KindOf[k] = kind THEN table[k] ELSE next[k]]
  /\ todo' = todo \ {kind}
  /\ UNCHANGED <<table, state, step, trail, torn>>

(* All tables are read: without an observer (the first Observe of a        *)
(* process) that is the new state, else the differences are reported.      *)
Compare(observed) ==
  /\ step = "read" /\ todo = {}
  /\ IF observed
       THEN step' = "report" /\ todo' = Differ /\ UNCHANGED <<state, trail, next>>
       ELSE /\ step' = "idle" /\ state' = next /\ trail' = next
            /\ next' = Nothing /\ UNCHANGED todo
  /\ UNCHANGED <<table, torn>>

(* One row: added, updated or removed.  Additions and updates come first,  *)
(* in any order, then removals.                                            *)
Report(k) ==
  /\ step = "report" /\ k \in todo
  /\ next[k] = Absent => \A other \in todo : next[other] = Absent
  /\ trail' = [trail EXCEPT ![k] = next[k]]
  /\ todo' = todo \ {k}
  /\ UNCHANGED <<table, state, next, step, torn>>

(* A bug: what was reported is not remembered.                             *)
SettleUnsaved ==
  /\ step = "report" /\ todo = {}
  /\ step' = "idle" /\ torn' = torn \ Differ /\ next' = Nothing
  /\ UNCHANGED <<table, state, todo, trail>>

Settle ==
  /\ step = "report" /\ todo = {}
  /\ state' = next /\ step' = "idle"
  /\ torn' = torn \ Differ
  /\ next' = Nothing
  /\ UNCHANGED <<table, todo, trail>>

(* A bug: a failed report counts as made.                                  *)
GiveUpSettled ==
  /\ step \in {"read", "report"}
  /\ step' = "idle" /\ todo' = {}
  /\ state' = IF step = "report" THEN next ELSE state
  /\ next' = Nothing
  /\ UNCHANGED <<table, trail, torn>>

(* A read or a report fails: the Observe ends, and the state stays.        *)
GiveUp ==
  /\ step \in {"read", "report"}
  /\ step' = "idle" /\ todo' = {}
  /\ torn' = IF step = "report" THEN torn \cup (Differ \ todo) ELSE torn
  /\ next' = Nothing
  /\ UNCHANGED <<table, state, trail>>

EditTable(k, rev) ==
  /\ table' = [table EXCEPT ![k] = rev]
  /\ UNCHANGED <<state, next, step, todo, trail, torn>>
=============================================================================
