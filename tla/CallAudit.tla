----------------------------- MODULE CallAudit -----------------------------
(***************************************************************************)
(* Who writes the audit row of a call, and when: mcpAuditMiddleware        *)
(* (mcp.go) around the MCP tools, auditREST (audit_rest.go) around the     *)
(* REST routes, QuerySQL and the submissions of service.go below both.     *)
(*                                                                         *)
(* A call is a goroutine that runs one handler; a step is the code up to   *)
(* the next write of an audit row, or the answer.  Tools and routes differ *)
(* by the way they are recorded only:                                      *)
(*   read    every tool or route that reads a resource                     *)
(*   query   db_query, db_explain, POST /databases/:name/query             *)
(*   submit  db_prepare_execute, the restarts, POST /database/evaluate     *)
(* Confirmations are in OperationService.                                  *)
(***************************************************************************)
EXTENDS Sequences, FiniteSets, Naturals

CONSTANTS
  Calls,   \* calls of tools and routes; each is made once
  Faults   \* which failures happen: "store", "remote", "crash", "leave"

Kinds  == {"read", "query", "submit"}
Doors  == {"mcp", "rest"}
Status == {"executing", "succeeded", "failed", "pending", "evaluated"}

VARIABLES
  call,    \* what each call is doing
  rows,    \* the audit rows a call has written (statuses)
  gone     \* calls whose client has left: their request context is cancelled

vars == <<call, rows, gone>>

Pcs == {"new", "decode", "announce", "handle", "record", "middleware",
        "complete", "done"}

(* outcome: what the handler returned; answer: what the client was given;  *)
(* reached: the remote system was asked; hurt: a write of the row failed   *)
(* or the process died.                                                    *)
CallState == [pc : Pcs, door : Doors, kind : Kinds,
              outcome : {"none", "data", "error"}, answer : {"none", "data", "error"},
              reached : BOOLEAN, hurt : BOOLEAN]

TypeOK == /\ call \in [Calls -> CallState]
          /\ rows \in [Calls -> Seq(Status)]
          /\ gone \subseteq Calls

Init ==
  /\ call \in {[c \in Calls |-> [pc |-> "new", door |-> door[c], kind |-> kind[c],
                  outcome |-> "none", answer |-> "none", reached |-> FALSE, hurt |-> FALSE]] :
               door \in [Calls -> Doors], kind \in [Calls -> Kinds]}
  /\ rows = [c \in Calls |-> <<>>]
  /\ gone = {}

-----------------------------------------------------------------------------
At(c, pc)    == call[c].pc = pc
Is(c, d, k)  == call[c].door = d /\ call[c].kind = k
Read(c, d)   == Is(c, d, "read")
StoreMayFail == "store" \in Faults

Goto(c, pc)          == call' = [call EXCEPT ![c].pc = pc]
Answer(c, given)     == call' = [call EXCEPT ![c].pc = "done", ![c].answer = given]
AnswerUnrecorded(c)  == call' = [call EXCEPT ![c].pc = "done", ![c].answer = "error",
                                             ![c].hurt = TRUE]
Append1(c, status)   == rows' = [rows EXCEPT ![c] = Append(@, status)]
(* A bug: a tool result that is an error or a 4xx response counts as a     *)
(* success.                                                                *)
StatusOfReturn(outcome) == "succeeded"

StatusOf(outcome) == IF outcome = "data" THEN "succeeded" ELSE "failed"

(* A write under the context of the request fails once the client left;    *)
(* one under context.WithoutCancel does not.                               *)
WriteMayFail(c)         == StoreMayFail \/ c \in gone
DetachedWriteMayFail(c) == StoreMayFail

-----------------------------------------------------------------------------
Begin(c) ==
  /\ At(c, "new")
  /\ Goto(c, IF Read(c, "rest") THEN "announce" ELSE "decode")
  /\ UNCHANGED <<rows, gone>>

(* The SDK checks the arguments of a tool against its schema; a REST       *)
(* handler binds the body.  A bad REST body is answered at once, a bad     *)
(* tool call goes back through the middleware.                             *)
Decode(c) ==
  /\ At(c, "decode")
  /\ UNCHANGED <<rows, gone>>
  /\ \/ Goto(c, "handle")
     \/ /\ call[c].door = "mcp"
        /\ call' = [call EXCEPT ![c].pc = "middleware", ![c].outcome = "error"]
     \/ call[c].door = "rest" /\ Answer(c, "error")

(* A bug: the work is done even when it could not be announced.            *)
AnnounceIfPossible(c) ==
  /\ At(c, "announce")
  /\ UNCHANGED gone
  /\ Goto(c, "handle")
  /\ \/ Append1(c, "executing")
     \/ WriteMayFail(c) /\ UNCHANGED rows

(* auditREST: the row comes before the work, "executing".                  *)
Announce(c) ==
  /\ At(c, "announce")
  /\ UNCHANGED gone
  /\ \/ Append1(c, "executing") /\ Goto(c, "handle")
     \/ WriteMayFail(c) /\ AnswerUnrecorded(c) /\ UNCHANGED rows

(* What a read of a remote system comes to: the client of the resource is  *)
(* missing or policy says no, the remote end fails, or there is data.      *)
Attempts(c) == {<<"error", FALSE>>, <<"data", TRUE>>}
  \cup (IF "remote" \in Faults \/ c \in gone THEN {<<"error", TRUE>>} ELSE {})

AfterHandler(c) == CASE call[c].kind = "query" -> "record"
                     [] Read(c, "mcp")         -> "middleware"
                     [] Read(c, "rest")        -> "complete"

(* The handler of a read or a query.  A REST read answers right here.      *)
Handle(c) ==
  /\ At(c, "handle") /\ call[c].kind # "submit"
  /\ \E a \in Attempts(c) :
       call' = [call EXCEPT ![c].pc = AfterHandler(c), ![c].outcome = a[1],
                            ![c].reached = a[2],
                            ![c].answer = IF Read(c, "rest") THEN a[1] ELSE @]
  /\ UNCHANGED <<rows, gone>>

(* EvaluateSQL and PrepareAction: the row is there or the caller gets an   *)
(* error.                                                                  *)
Submit(c) ==
  /\ At(c, "handle") /\ call[c].kind = "submit"
  /\ UNCHANGED gone
  /\ \E outcome \in {"data", "error"} :
       /\ IF outcome = "data" THEN \E s \in {"pending", "evaluated"} : Append1(c, s)
                              ELSE UNCHANGED rows
       /\ IF call[c].door = "rest"
            THEN Answer(c, outcome)
            ELSE call' = [call EXCEPT ![c].pc = "middleware", ![c].outcome = outcome]

(* The deferred function of QuerySQL: data that cannot be recorded is not  *)
(* returned.                                                               *)
RecordQuery(c) ==
  /\ At(c, "record")
  /\ UNCHANGED gone
  /\ \/ /\ Append1(c, StatusOf(call[c].outcome))
        /\ IF call[c].door = "rest" THEN Answer(c, call[c].outcome)
                                    ELSE Goto(c, "middleware")
     \/ /\ DetachedWriteMayFail(c)
        /\ UNCHANGED rows
        /\ IF call[c].door = "rest"
             THEN AnswerUnrecorded(c)
             ELSE call' = [call EXCEPT ![c].pc = "middleware", ![c].outcome = "error",
                                       ![c].hurt = TRUE]

(* Bugs: nothing, or every query and submission, is recorded below.        *)
RecordedBelowNothing(c) == FALSE
RecordedBelowAlways(c)  == call[c].kind # "read"

RecordedBelow(c) == \/ call[c].kind = "submit" /\ call[c].outcome = "data"
                    \/ call[c].kind = "query"

(* A bug: a row that cannot be written is logged only.                     *)
McpAuditLogged(c) ==
  /\ At(c, "middleware")
  /\ UNCHANGED gone
  /\ Answer(c, call[c].outcome)
  /\ \/ RecordedBelow(c) /\ UNCHANGED rows
     \/ ~RecordedBelow(c) /\ Append1(c, StatusOf(call[c].outcome))
     \/ DetachedWriteMayFail(c) /\ UNCHANGED rows

(* mcpAuditMiddleware, after the tool: what the service has not recorded   *)
(* is recorded here, or the answer is an error.                            *)
McpAudit(c) ==
  /\ At(c, "middleware")
  /\ UNCHANGED gone
  /\ IF RecordedBelow(c)
       THEN Answer(c, call[c].outcome) /\ UNCHANGED rows
       ELSE \/ Append1(c, StatusOf(call[c].outcome)) /\ Answer(c, call[c].outcome)
            \/ DetachedWriteMayFail(c) /\ AnswerUnrecorded(c) /\ UNCHANGED rows

(* A bug: the completion ends with the request.                            *)
CompleteIfPresent(c) ==
  /\ At(c, "complete")
  /\ UNCHANGED gone
  /\ Goto(c, "done")
  /\ IF c \in gone THEN UNCHANGED rows
                    ELSE rows' = [rows EXCEPT ![c] = <<StatusOf(call[c].outcome)>>]

(* auditREST after the response: CompleteResult, whose error is logged.    *)
Complete(c) ==
  /\ At(c, "complete")
  /\ UNCHANGED gone
  /\ \/ rows' = [rows EXCEPT ![c] = <<StatusOf(call[c].outcome)>>] /\ Goto(c, "done")
     \/ /\ DetachedWriteMayFail(c)
        /\ call' = [call EXCEPT ![c].pc = "done", ![c].hurt = TRUE]
        /\ UNCHANGED rows

Leave(c) ==
  /\ "leave" \in Faults /\ call[c].pc \notin {"new", "done"}
  /\ gone' = gone \cup {c}
  /\ UNCHANGED <<call, rows>>

Crash ==
  /\ "crash" \in Faults
  /\ call' = [c \in Calls |-> IF call[c].pc \in {"new", "done"} THEN call[c]
                              ELSE [call[c] EXCEPT !.pc = "done", !.hurt = TRUE]]
  /\ UNCHANGED <<rows, gone>>

Around(c) == Decode(c) \/ Announce(c) \/ RecordQuery(c) \/ McpAudit(c) \/ Complete(c)

AllAnswered == (\A c \in Calls : At(c, "done")) /\ UNCHANGED vars

Next == \/ \E c \in Calls : Begin(c) \/ Handle(c) \/ Submit(c) \/ Around(c) \/ Leave(c)
        \/ Crash
        \/ AllAnswered

(* The code around a handler runs to its end; the handler itself may hang  *)
(* (an SSH session that is never opened has no time limit).                *)
Spec == Init /\ [][Next]_vars /\ \A c \in Calls : WF_vars(Around(c))

-----------------------------------------------------------------------------
(* "A failed write of the MCP audit row returns an error"                  *)
(* (.specs/audit-observability.md:11), and no door does otherwise: data is *)
(* never handed out without a row that says so.                            *)
NoUnrecordedData == \A c \in Calls : call[c].answer = "data" => rows[c] # <<>>

(* Two layers can record a call; it has one row at most ("to avoid a       *)
(* double audit", audit_rest.go:28).                                       *)
RecordedOnce == \A c \in Calls : Len(rows[c]) <= 1

(* The row and the answer tell the same story, unless the store or the     *)
(* process failed in between.                                              *)
RowTellsAnswer == \A c \in Calls :
  At(c, "done") /\ ~call[c].hurt /\ rows[c] # <<>> =>
    (call[c].answer = "data" <=> Head(rows[c]) \in {"succeeded", "pending", "evaluated"})

(* A REST read asks the remote system only after its row is on disk: a     *)
(* crash cannot lose the trace of what was read.                           *)
AskedOnRecord == \A c \in Calls :
  Read(c, "rest") /\ call[c].reached => rows[c] # <<>>

(* Tool calls and REST reads are recorded, failed ones too                 *)
(* (.specs/audit-observability.md:11).  Not so queries whose arguments are *)
(* rejected, and REST submissions that fail.                               *)
AnsweredIsRecorded == \A c \in Calls :
  /\ At(c, "done") /\ ~call[c].hurt
  /\ \/ call[c].door = "mcp" /\ call[c].kind # "query"
     \/ Read(c, "rest")
     \/ call[c].kind = "query" /\ call[c].reached
  => rows[c] # <<>>

(* A REST read does not stay "executing": once its handler has answered,   *)
(* its row is completed even if the client has left, unless the store      *)
(* fails or the process dies.                                              *)
ReadsAreCompleted == \A c \in Calls :
  (Read(c, "rest") /\ call[c].answer # "none" /\ rows[c] # <<>>)
    ~> (rows[c] # <<"executing">> \/ call[c].hurt)
=============================================================================
