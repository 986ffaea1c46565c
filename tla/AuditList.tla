------------------------------ MODULE AuditList ------------------------------
(***************************************************************************)
(* The list of the audit rows: Search (internal/audit/query.go), which     *)
(* answers one page of the rows that pass a filter, and the page of the    *)
(* Web console that asks it (pages/Audit.tsx, useList).  Rows are added    *)
(* and completed while somebody walks through the pages.  A row carries    *)
(* the time its call began, so it may be inserted behind a younger one.    *)
(***************************************************************************)
EXTENDS Naturals, Sequences, SequencesExt

CONSTANTS
  RowIds,    \* operation ids, ordered like the strings they are
  Times,     \* clock readings of the rows
  PageSize,
  MaxRequests,  \* bound: requests under way, aborted ones included
  NoData
ASSUME SizesArePositive == PageSize \in Nat \ {0} /\ RowIds \subseteq Nat /\ Times \subseteq Nat

VARIABLES
  table,   \* the operations table: a set of rows
  query,   \* page and status of the URL
  data,    \* useList: the answer shown, or NoData
  lists,   \* requests of useList under way, aborted ones too
  begun,   \* history: the rows there were when page 1 was answered, or NoData
  seen     \* history: the rows shown since

listVars == <<table, query, data, lists, begun, seen>>

Row(id, t) == [id |-> id, time |-> t, status |-> "pending"]
IdsOf(S)   == {r.id : r \in S}
Request(q) == [query |-> q, live |-> TRUE, reply |-> NoData]
First      == [page |-> 1, status |-> ""]

ListInit ==
  /\ table = {} /\ query = First /\ data = NoData
  /\ lists = {Request(First)}
  /\ begun = NoData /\ seen = {}

-----------------------------------------------------------------------------
(* ORDER BY julianday(timestamp) DESC, operation_id DESC                   *)
Before(a, b) == a.time > b.time \/ (a.time = b.time /\ a.id > b.id)

Offset(q) == (q.page - 1) * PageSize

(* The orders SQLite may return the rows of S in.                          *)
Orders(S) == {s \in SetToSeqs(S) :
                \A i, j \in DOMAIN s : i < j => ~Before(s[j], s[i])}

Matching(q) == {r \in table : q.status \in {"", r.status}}

(* Count and items come from one transaction.                              *)
OnPage(s, q) == {i \in DOMAIN s : Offset(q) < i /\ i <= Offset(q) + PageSize}
Search(q) == {[total |-> Len(s), all |-> IdsOf(Matching(q)),
               items |-> {s[i].id : i \in OnPage(s, q)}] : s \in Orders(Matching(q))}

-----------------------------------------------------------------------------
(* Calls of MCP clients: a row is inserted when a call begins, and         *)
(* completed when it ends.                                                 *)
Record(id, t) ==
  /\ id \notin IdsOf(table)
  /\ table' = table \cup {Row(id, t)}
  /\ UNCHANGED <<query, data, lists, begun, seen>>

CompleteRow(r) ==
  /\ r \in table /\ r.status = "pending"
  /\ table' = (table \ {r}) \cup {[r EXCEPT !.status = "failed"]}
  /\ UNCHANGED <<query, data, lists, begun, seen>>

(* AuditHandler.list                                                       *)
Answer(l) ==
  /\ l \in lists /\ l.reply = NoData
  /\ \E answer \in Search(l.query) : lists' = (lists \ {l}) \cup {[l EXCEPT !.reply = answer]}
  /\ UNCHANGED <<table, query, data, begun, seen>>

-----------------------------------------------------------------------------
(* A bug: the signal is not looked at.                                     *)
ArriveAnyway(l) ==
  /\ l \in lists /\ l.reply # NoData
  /\ lists' = lists \ {l} /\ data' = l.reply
  /\ begun' = IF query = First THEN l.reply.all ELSE begun
  /\ seen' = l.reply.items \cup (IF query = First THEN {} ELSE seen)
  /\ UNCHANGED <<table, query>>

(* The answer of a request is shown unless it was aborted.  A walk begins  *)
(* with page 1 of the unfiltered list.                                     *)
Arrive(l) ==
  /\ l \in lists /\ l.reply # NoData
  /\ lists' = lists \ {l}
  /\ IF ~l.live THEN UNCHANGED <<data, begun, seen>>
     ELSE /\ data' = l.reply
          /\ begun' = IF query = First THEN l.reply.all ELSE begun
          /\ seen' = l.reply.items \cup (IF query = First THEN {} ELSE seen)
  /\ UNCHANGED <<table, query>>

(* The request fails: an error is shown, no rows.                          *)
Fail(l) ==
  /\ l \in lists
  /\ lists' = lists \ {l}
  /\ UNCHANGED <<table, query, data, begun, seen>>

(* The effect of useList: its cleanup aborts the request before.           *)
Fetch(q) ==
  /\ Cardinality(lists) < MaxRequests
  /\ query' = q /\ data' = NoData
  /\ lists' = {[l EXCEPT !.live = FALSE] : l \in lists} \cup {Request(q)}
  /\ UNCHANGED table

(* The buttons of Pagination work on the answer shown.                     *)
NextPage ==
  /\ data # NoData /\ query.page * PageSize < data.total
  /\ Fetch([query EXCEPT !.page = @ + 1]) /\ UNCHANGED <<begun, seen>>

PreviousPage ==
  /\ query.page > 1 /\ \A l \in lists : ~l.live
  /\ Fetch([query EXCEPT !.page = @ - 1]) /\ UNCHANGED <<begun, seen>>

(* The refresh button, and the way back from a detail.                     *)
RefreshList == Fetch(query) /\ UNCHANGED <<begun, seen>>

(* A tab or a filter: back to page 1.                                      *)
Choose(status) ==
  /\ status # query.status
  /\ Fetch([page |-> 1, status |-> status])
  /\ begun' = NoData /\ seen' = {}

ListNext ==
  \/ \E id \in RowIds, t \in Times : Record(id, t)
  \/ \E r \in table : CompleteRow(r)
  \/ \E l \in lists : Answer(l) \/ Arrive(l) \/ Fail(l)
  \/ NextPage \/ PreviousPage \/ RefreshList
  \/ \E status \in {"", "pending"} : Choose(status)

-----------------------------------------------------------------------------
(* Whoever goes through the unfiltered pages from the first to the last is *)
(* shown every row that was there when the first was read, although rows   *)
(* are added in between, several carry the same time, and answers to       *)
(* requests given up arrive late ("requests are cancelled on a switch, old *)
(* results are not shown", .specs/frontend.md).                            *)
WalkShowsAll ==
  data # NoData /\ query.status = "" /\ begun # NoData /\ query.page * PageSize >= data.total
    => begun \subseteq seen
=============================================================================
