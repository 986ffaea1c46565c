------------------------------ MODULE Migration ------------------------------
(***************************************************************************)
(* The gateway's SQLite file across versions of the program:               *)
(* storage.Open, migrate and backup (internal/storage/storage.go).  goose  *)
(* applies the missing migrations in order, each in a transaction of its   *)
(* own together with its version number.  Every version after 0 has tables *)
(* in it; a file of version 0 is empty, or has tables of another origin.   *)
(***************************************************************************)
EXTENDS Naturals

CONSTANTS
  Target,  \* the version this program knows (2: 00001_initial, 00002_indexes)
  Newest   \* the newest version any program has written

ASSUME VersionsTyped == Target \in Nat /\ Newest \in Nat /\ Target <= Newest

VARIABLES
  version,  \* schema version of the file
  tables,   \* it has tables, not counting those of SQLite and goose
  backups   \* versions of which there is a complete pre-migrate snapshot

fileVars == <<version, tables, backups>>

FileTypeOK == version \in 0..Newest /\ tables \in BOOLEAN /\ backups \subseteq 0..Newest
FileInit   == /\ version \in 0..Newest /\ tables \in BOOLEAN /\ backups = {}
              /\ version > 0 => tables

(* Bugs: any file is taken; a file goose has not seen counts as empty.     *)
TakenAnyway == FALSE
Versioned   == version > 0

TooNew    == version > Target
Pending   == version < Target
HasTables == tables

(* VACUUM INTO a file of its own; a failed one is removed.                 *)
Snapshot == backups' = backups \cup {version} /\ UNCHANGED <<version, tables>>

ApplyNext == version' = version + 1 /\ tables' = TRUE /\ UNCHANGED backups
=============================================================================
