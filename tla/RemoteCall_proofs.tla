--------------------------- MODULE RemoteCall_proofs ---------------------------
(***************************************************************************)
(* What a remote call returns, for every limit and every size of output,   *)
(* and what the policy in front of it answers to every question.           *)
(***************************************************************************)
EXTENDS GuardedCall, TLAPS

Whole == EndedWell /\ got = remote.size /\ got <= Limit

(* The remote end: what was read was written, and an end that is reported  *)
(* as good comes after everything was written.                             *)
RemoteInv ==
  /\ got <= remote.wrote /\ remote.wrote <= remote.size
  /\ EndedWell => remote.wrote = remote.size
  /\ spilled => kind = "file" /\ remote.size > Limit

(* A file the caller cannot know to be cut short.                          *)
FilePart == kind = "file" /\ (link = "cut" \/ (EndedWell /\ remote.size > Limit))

(* The caller, and the calls that have no reader.                          *)
CallerInv ==
  /\ pc # "returned" => outcome = "none"
  /\ pc \in {"session", "start", "select"} => kind = "command"
  /\ pc \in {"session", "start"} => got = 0 /\ reader = "none"
  /\ pc = "collect" => kind # "command"
  /\ kind # "command" => reader = "none" /\ got <= Limit

(* The reader: up to the limit it is reading or has seen the stream end;   *)
(* its result, once it is in the channel, remains true.                    *)
ReaderInv ==
  /\ reader \in {"reading", "wait"} => got <= Limit
  /\ reader = "wait" => StreamEnded
  /\ reader = "send" => got > Limit \/ StreamEnded
  /\ done # "none" => reader = "ended"
  /\ done = "data" => Whole
  /\ done = "too long" => remote.size > Limit

OutcomeInv ==
  /\ outcome = "data" => Whole \/ (kind = "log" /\ got = Limit) \/ FilePart
  /\ outcome = "too long" => remote.size > Limit /\ kind # "file"
  /\ outcome = "data" /\ kind = "command" => reader = "ended"

CallInv == TypeOK /\ RemoteInv /\ CallerInv /\ ReaderInv /\ OutcomeInv

-----------------------------------------------------------------------------
LEMMA Numbers == CallInv =>
  /\ got \in Nat /\ Limit \in Nat /\ MaxSize \in Nat
  /\ remote.wrote \in Nat /\ remote.size \in Nat
BY SizesTyped DEF CallInv, TypeOK

LEMMA InitInv == Init => CallInv
<1> SUFFICES ASSUME Init PROVE CallInv
  OBVIOUS
<1>1. remote \in [state : {"asked", "running", "ended"}, size : 0..MaxSize,
                  wrote : 0..MaxSize, ok : BOOLEAN]
  BY SizesTyped DEF Init
<1>2. got \in 0..(Limit + 1)
  BY SizesTyped DEF Init
<1>3. TypeOK
  BY <1>1, <1>2 DEF Init, TypeOK, Kinds, Outcomes
<1>4. RemoteInv
  BY SizesTyped DEF Init, RemoteInv, EndedWell
<1>5. CallerInv /\ ReaderInv /\ OutcomeInv
  BY SizesTyped DEF Init, CallerInv, ReaderInv, OutcomeInv
<1> QED BY <1>3, <1>4, <1>5 DEF CallInv

(* The remote end and the network: what has ended stays as it ended.       *)
LEMMA OutsideInv == CallInv /\ Outside => CallInv'
<1> SUFFICES ASSUME CallInv, Outside PROVE CallInv'
  OBVIOUS
<1>1. CASE RemoteStart
  BY <1>1, SizesTyped DEF CallInv, RemoteInv, CallerInv, ReaderInv, OutcomeInv, Whole, FilePart,
        EndedWell, StreamEnded, RemoteStart, TypeOK
<1>2. CASE RemoteWrite
  <2>1. TypeOK'
    BY <1>2, SizesTyped DEF CallInv, RemoteWrite, TypeOK, RemoteInv
  <2>2. RemoteInv'
    BY <1>2, SizesTyped DEF CallInv, RemoteWrite, TypeOK, RemoteInv, EndedWell
  <2>3. CallerInv'
    BY <1>2 DEF CallInv, RemoteWrite, CallerInv
  <2>4. ReaderInv'
    BY <1>2, SizesTyped DEF CallInv, RemoteWrite, TypeOK, ReaderInv, StreamEnded, Whole,
                            EndedWell
  <2>5. OutcomeInv'
    BY <1>2, SizesTyped DEF CallInv, RemoteWrite, TypeOK, OutcomeInv, Whole, FilePart,
                            EndedWell
  <2> QED BY <2>1, <2>2, <2>3, <2>4, <2>5 DEF CallInv
<1>3. CASE RemoteEnd
  <2>1. TypeOK'
    BY <1>3 DEF CallInv, RemoteEnd, TypeOK
  <2>2. RemoteInv'
    BY <1>3 DEF CallInv, RemoteEnd, TypeOK, RemoteInv, EndedWell
  <2>3. CallerInv'
    BY <1>3 DEF CallInv, RemoteEnd, CallerInv
  <2>4. remote'.size = remote.size /\ remote'.wrote = remote.wrote /\ ~EndedWell
    BY <1>3 DEF CallInv, RemoteEnd, TypeOK, EndedWell
  <2>5. ReaderInv'
    BY <1>3, <2>4 DEF CallInv, RemoteEnd, ReaderInv, StreamEnded, Whole
  <2>6. OutcomeInv'
    BY <1>3, <2>4 DEF CallInv, RemoteEnd, OutcomeInv, Whole, FilePart
  <2> QED BY <2>1, <2>2, <2>3, <2>5, <2>6 DEF CallInv
<1>4. CASE Cut
  <2>1. TypeOK'
    BY <1>4 DEF CallInv, Cut, TypeOK
  <2>2. RemoteInv'
    BY <1>4 DEF CallInv, Cut, RemoteInv, EndedWell
  <2>3. CallerInv' /\ OutcomeInv'
    BY <1>4 DEF CallInv, Cut, CallerInv, OutcomeInv, Whole, FilePart, EndedWell
  <2>4. ReaderInv'
    BY <1>4 DEF CallInv, Cut, ReaderInv, StreamEnded, Whole, EndedWell
  <2> QED BY <2>1, <2>2, <2>3, <2>4 DEF CallInv
<1>5. CASE TimeUp
  <2>1. TypeOK' /\ RemoteInv' /\ CallerInv'
    BY <1>5 DEF CallInv, TimeUp, TypeOK, RemoteInv, CallerInv, EndedWell
  <2>2. (Whole' <=> Whole) /\ (FilePart' <=> FilePart) /\ (StreamEnded' <=> StreamEnded)
    BY <1>5 DEF TimeUp, Whole, FilePart, StreamEnded, EndedWell
  <2>3. ReaderInv' /\ OutcomeInv'
    BY <1>5, <2>2 DEF CallInv, TimeUp, ReaderInv, OutcomeInv
  <2> QED BY <2>1, <2>3 DEF CallInv
<1> QED BY <1>1, <1>2, <1>3, <1>4, <1>5 DEF Outside

(* The goroutine that reads the output of a command.                       *)
LEMMA ReaderStepInv == CallInv /\ Reader => CallInv'
<1> SUFFICES ASSUME CallInv, Reader PROVE CallInv'
  OBVIOUS
<1>0. got \in Nat /\ Limit \in Nat /\ remote.wrote \in Nat /\ remote.size \in Nat
  BY Numbers
<1>1. CASE ReadUnit
  <2>1. /\ got' = got + 1 /\ got <= Limit
        /\ reader' \in {"none", "reading", "wait", "send", "ended"}
        /\ done = "none" /\ kind = "command" /\ outcome # "data"
    BY <1>1 DEF CallInv, ReadUnit, ReaderInv, CallerInv, OutcomeInv
  <2>2. got' \in 0..(Limit + 1)
    BY <2>1, <1>0
  <2>3. TypeOK'
    BY <1>1, <2>1, <2>2 DEF CallInv, ReadUnit, TypeOK
  <2>4. RemoteInv'
    BY <1>1, SizesTyped DEF CallInv, ReadUnit, TypeOK, RemoteInv, EndedWell
  <2>5. CallerInv' /\ OutcomeInv'
    BY <1>1, <2>1 DEF CallInv, ReadUnit, CallerInv, OutcomeInv
  <2>6. ReaderInv'
    BY <1>1, <2>1, <1>0 DEF ReadUnit, ReaderInv
  <2> QED BY <2>3, <2>4, <2>5, <2>6 DEF CallInv
<1>2. CASE ReadEnd
  BY <1>2, SizesTyped DEF CallInv, RemoteInv, CallerInv, ReaderInv, OutcomeInv, Whole, FilePart,
        EndedWell, StreamEnded, ReadEnd, TypeOK
<1>3. CASE Wait
  BY <1>3, SizesTyped DEF CallInv, RemoteInv, CallerInv, ReaderInv, OutcomeInv, Whole, FilePart,
        EndedWell, StreamEnded, Wait, TypeOK
<1>4. CASE Send
  <2>1. /\ ReadResult = "too long" => got > Limit
        /\ ReadResult = "data" => got <= Limit /\ EndedWell
        /\ ReadResult \in Outcomes
    BY <1>0 DEF ReadResult, Outcomes
  <2>0. /\ got <= remote.wrote /\ remote.wrote <= remote.size
        /\ EndedWell => remote.wrote = remote.size
        /\ got > Limit \/ got = remote.wrote
    BY <1>4 DEF CallInv, Send, RemoteInv, CallerInv, ReaderInv, StreamEnded
  <2>2. ReadResult = "data" => Whole
    BY <2>0, <2>1, <1>0 DEF Whole
  <2>3. ReadResult = "too long" => remote.size > Limit
    <3>1. got > Limit => remote.size > Limit
      <4>1. got <= remote.wrote /\ remote.wrote <= remote.size
        BY <2>0
      <4> QED BY <4>1, <1>0
    <3> QED BY <3>1, <2>1
  <2>4. TypeOK'
    BY <1>4, <2>1 DEF CallInv, Send, TypeOK
  <2>5. RemoteInv' /\ CallerInv' /\ OutcomeInv'
    BY <1>4 DEF CallInv, Send, RemoteInv, CallerInv, OutcomeInv, Whole, FilePart,
                     EndedWell
  <2>6. ReaderInv'
    BY <1>4, <2>2, <2>3 DEF CallInv, Send, ReaderInv, Whole, EndedWell
  <2> QED BY <2>4, <2>5, <2>6 DEF CallInv
<1> QED BY <1>1, <1>2, <1>3, <1>4 DEF Reader

(* The caller.                                                             *)
LEMMA CallerStepInv == CallInv /\ Caller => CallInv'
<1> SUFFICES ASSUME CallInv, Caller PROVE CallInv'
  OBVIOUS
<1>0. got \in Nat /\ Limit \in Nat /\ remote.wrote \in Nat /\ remote.size \in Nat
  BY Numbers
<1>1. CASE NewSession
  BY <1>1, SizesTyped DEF CallInv, RemoteInv, CallerInv, ReaderInv, OutcomeInv, Whole, FilePart,
        EndedWell, StreamEnded, Return, NewSession, TypeOK, Outcomes
<1>2. CASE Start
  <2>1. /\ got = 0 /\ reader = "none" /\ done = "none" /\ outcome = "none"
        /\ kind = "command"
    BY <1>2 DEF CallInv, Start, CallerInv, ReaderInv
  <2>2. TypeOK'
    BY <1>2 DEF CallInv, Start, TypeOK, Return, Outcomes
  <2>3. RemoteInv'
    BY <1>2 DEF CallInv, Start, TypeOK, RemoteInv, EndedWell
  <2>4. CallerInv'
    BY <1>2, <2>1, <1>0 DEF CallInv, Start, CallerInv, Return
  <2>5. outcome' \in {"none", "error"} /\ reader' \in {"none", "reading"}
        /\ done' = "none" /\ got' = got
    BY <1>2, <2>1 DEF Start, Return
  <2>6. ReaderInv'
    BY <2>1, <2>5, <1>0 DEF ReaderInv
  <2>7. OutcomeInv'
    BY <2>5 DEF OutcomeInv
  <2> QED BY <2>2, <2>3, <2>4, <2>6, <2>7 DEF CallInv
<1>3. CASE SelectDone
  BY <1>3, SizesTyped DEF CallInv, RemoteInv, CallerInv, ReaderInv, OutcomeInv, Whole, FilePart,
        EndedWell, StreamEnded, Return, SelectDone, TypeOK
<1>4. CASE SelectTimeout
  <2>1. TypeOK' /\ RemoteInv' /\ CallerInv'
    BY <1>4 DEF CallInv, SelectTimeout, Return, TypeOK, Outcomes, RemoteInv, CallerInv,
                EndedWell
  <2>2. (Whole' <=> Whole) /\ (FilePart' <=> FilePart) /\ (StreamEnded' <=> StreamEnded)
    BY <1>4 DEF SelectTimeout, Whole, FilePart, StreamEnded, EndedWell
  <2>3. ReaderInv' /\ OutcomeInv'
    BY <1>4, <2>2 DEF CallInv, SelectTimeout, Return, ReaderInv, OutcomeInv
  <2> QED BY <2>1, <2>3 DEF CallInv
<1>5. CASE CollectUnit
  <2>1. /\ kind # "command" /\ reader = "none" /\ done = "none" /\ outcome = "none"
        /\ got < remote.wrote
    BY <1>5 DEF CallInv, CollectUnit, Collecting, CallerInv, ReaderInv
  <2>2. CASE OverLimit(got + 1)
    <3>1. remote.size > Limit
      <4>1. got + 1 <= remote.wrote /\ remote.wrote <= remote.size
        BY <2>1, <1>0 DEF CallInv, RemoteInv
      <4> QED BY <4>1, <2>2, <1>0 DEF OverLimit
    <3>2. TypeOK' /\ RemoteInv'
      BY <1>5, <2>2 DEF CallInv, CollectUnit, Return, TypeOK, Outcomes, RemoteInv, EndedWell
    <3>3. CallerInv' /\ ReaderInv' /\ OutcomeInv'
      BY <1>5, <2>1, <2>2, <3>1
         DEF CallInv, CollectUnit, Return, CallerInv, ReaderInv, OutcomeInv
    <3> QED BY <3>2, <3>3 DEF CallInv
  <2>3. CASE ~OverLimit(got + 1)
    <3>1. got' = got + 1 /\ got' <= Limit /\ got' \in 0..(Limit + 1)
      BY <1>5, <2>3, <1>0 DEF CollectUnit, OverLimit
    <3>2. TypeOK'
      BY <1>5, <2>3, <3>1 DEF CallInv, CollectUnit, TypeOK
    <3>3. RemoteInv'
      <4>1. /\ remote.wrote <= remote.size /\ remote' = remote /\ kind' = kind
            /\ EndedWell => remote.wrote = remote.size
            /\ spilled' => kind = "file" /\ remote.size > Limit
        BY <1>5 DEF CallInv, CollectUnit, RemoteInv
      <4> QED BY <4>1, <2>1, <3>1, <1>0 DEF RemoteInv, EndedWell
    <3>4. CallerInv' /\ ReaderInv' /\ OutcomeInv'
      BY <1>5, <2>1, <2>3, <3>1
         DEF CallInv, CollectUnit, CallerInv, ReaderInv, OutcomeInv
    <3> QED BY <3>2, <3>3, <3>4 DEF CallInv
  <2> QED BY <2>2, <2>3
<1>9. CASE CopyChunk
  <2>1. /\ kind = "file" /\ reader = "none" /\ done = "none" /\ outcome = "none"
        /\ got <= Limit /\ remote.wrote <= remote.size
        /\ EndedWell => remote.wrote = remote.size
    BY <1>9 DEF CallInv, CopyChunk, RemoteInv, CallerInv, ReaderInv
  <2>2. PICK n \in 1..(remote.wrote - got) :
          IF OverLimit(got + n) THEN spilled' = TRUE /\ got' = got
                                ELSE got' = got + n /\ spilled' = spilled
    BY <1>9 DEF CopyChunk
  <2>3. n \in Nat /\ got + n <= remote.wrote
    BY <2>2, <1>0
  <2>4. got' \in 0..(Limit + 1) /\ got' <= Limit /\ got' <= remote.wrote
    BY <2>1, <2>2, <2>3, <1>0 DEF OverLimit
  <2>5. spilled' \in BOOLEAN /\ (spilled' => remote.size > Limit)
    <3>1. OverLimit(got + n) => remote.size > Limit
      BY <2>1, <2>3, <1>0 DEF OverLimit
    <3> QED BY <2>2, <3>1 DEF CallInv, TypeOK, RemoteInv
  <2>6. TypeOK'
    BY <1>9, <2>4, <2>5 DEF CallInv, CopyChunk, TypeOK
  <2>7. RemoteInv'
    BY <1>9, <2>1, <2>4, <2>5 DEF CopyChunk, RemoteInv, EndedWell
  <2>8. CallerInv' /\ ReaderInv' /\ OutcomeInv'
    BY <1>9, <2>1, <2>4 DEF CallInv, CopyChunk, CallerInv, ReaderInv, OutcomeInv
  <2> QED BY <2>6, <2>7, <2>8 DEF CallInv
<1>6. CASE CollectEnd
  <2>1. /\ kind # "command" /\ reader = "none" /\ done = "none" /\ outcome = "none"
        /\ got <= Limit /\ (got = remote.wrote \/ spilled)
    BY <1>6 DEF CallInv, CollectEnd, Collecting, StreamEnded, CallerInv, ReaderInv
  <2>2. /\ kind' = kind /\ timeUp' = timeUp /\ link' = link /\ remote' = remote
        /\ got' = got /\ reader' = reader /\ done' = done /\ spilled' = spilled
        /\ pc' = "returned" /\ outcome' \in {"data", "error"}
        /\ outcome' = "data" => EndedWell \/ CutUnseen
    BY <1>6 DEF CollectEnd, Return
  <2>3. TypeOK'
    <3>1. pc' \in {"session", "start", "select", "collect", "returned"} /\ outcome' \in Outcomes
      BY <2>2 DEF Outcomes
    <3> QED BY <2>2, <3>1 DEF CallInv, TypeOK
  <2>4. RemoteInv' /\ CallerInv'
    BY <2>1, <2>2 DEF CallInv, RemoteInv, CallerInv, EndedWell
  <2>5. ReaderInv'
    BY <2>1, <2>2 DEF ReaderInv
  <2>6. EndedWell => Whole \/ FilePart
    BY <2>1 DEF CallInv, RemoteInv, Whole, FilePart
  <2>7. CutUnseen => FilePart
    BY DEF CutUnseen, FilePart
  <2>8. (Whole' <=> Whole) /\ (FilePart' <=> FilePart)
    BY <2>2 DEF Whole, FilePart, EndedWell
  <2>9. OutcomeInv'
    BY <2>1, <2>2, <2>6, <2>7, <2>8 DEF OutcomeInv
  <2> QED BY <2>3, <2>4, <2>5, <2>9 DEF CallInv
<1>7. CASE CollectTimeout
  BY <1>7, SizesTyped DEF CallInv, RemoteInv, CallerInv, ReaderInv, OutcomeInv, Whole, FilePart,
        EndedWell, StreamEnded, Return, CollectTimeout, Collecting, TypeOK, Outcomes
<1>8. CASE LogFull
  BY <1>8, SizesTyped DEF CallInv, RemoteInv, CallerInv, ReaderInv, OutcomeInv, Whole, FilePart,
        EndedWell, StreamEnded, Return, LogFull, Full, TypeOK, Outcomes
<1> QED BY <1>1, <1>2, <1>3, <1>4, <1>5, <1>6, <1>7, <1>8, <1>9 DEF Caller

LEMMA StutterInv == CallInv /\ UNCHANGED vars => CallInv'
<1> SUFFICES ASSUME CallInv, UNCHANGED vars PROVE CallInv'
  OBVIOUS
<1>0. /\ kind' = kind /\ pc' = pc /\ outcome' = outcome /\ timeUp' = timeUp
      /\ link' = link /\ remote' = remote /\ got' = got /\ reader' = reader
      /\ done' = done /\ spilled' = spilled
  BY DEF vars
<1>1. TypeOK'
  BY <1>0 DEF CallInv, TypeOK
<1>2. RemoteInv' /\ CallerInv'
  BY <1>0 DEF CallInv, RemoteInv, CallerInv, EndedWell
<1>3. (Whole' <=> Whole) /\ (FilePart' <=> FilePart) /\ (StreamEnded' <=> StreamEnded)
  BY <1>0 DEF Whole, FilePart, StreamEnded, EndedWell
<1>4. ReaderInv'
  BY <1>0, <1>3 DEF CallInv, ReaderInv
<1>5. OutcomeInv'
  BY <1>0, <1>3 DEF CallInv, OutcomeInv
<1> QED BY <1>1, <1>2, <1>4, <1>5 DEF CallInv

LEMMA StepInv == CallInv /\ [Next]_vars => CallInv'
BY OutsideInv, ReaderStepInv, CallerStepInv, StutterInv DEF Next, Returned

-----------------------------------------------------------------------------
LEMMA CallInvTells == CallInv => DataIsWhole /\ LimitIsExact
<1> SUFFICES ASSUME CallInv PROVE DataIsWhole /\ LimitIsExact
  OBVIOUS
<1>1. DataIsWhole
  BY DEF CallInv, OutcomeInv, Whole, FilePart, DataIsWhole
<1>2. outcome = "data" => got <= Limit
  BY SizesTyped DEF CallInv, TypeOK, CallerInv, OutcomeInv, Whole, FilePart
<1>3. outcome = "too long" \/ spilled => remote.size > Limit
  BY DEF CallInv, RemoteInv, OutcomeInv
<1>4. outcome = "too long" => kind # "file"
  BY DEF CallInv, OutcomeInv
<1> QED BY <1>1, <1>2, <1>3, <1>4 DEF LimitIsExact

(* Whatever the remote end writes, wherever it is cut off and whenever the *)
(* time is over: what a command or a query returns as data is all of the   *)
(* output of a call that ended well; a log may be cut at the limit; a file *)
(* is whole unless it was larger than the limit or its connection was cut. *)
(* For every limit and every size of output.                               *)
THEOREM ReturnsWholeData == Spec => [](TypeOK /\ DataIsWhole)
<1>1. CallInv => TypeOK /\ DataIsWhole
  BY CallInvTells DEF CallInv
<1> QED BY <1>1, InitInv, StepInv, PTL DEF Spec

(* Output is refused as too long, or thrown away, only if there was more   *)
(* than the limit; never is more than the limit returned; and a file is    *)
(* never refused as too long.                                              *)
THEOREM LimitsAreExact == Spec => []LimitIsExact
BY CallInvTells, InitInv, StepInv, PTL DEF Spec

-----------------------------------------------------------------------------
(* The policy in front of the call.  What a request may be answered: the   *)
(* decision goes with a risk, and only two rules ask for a confirmation.   *)
Graded(r) ==
  \/ r.decision = "allow" /\ r.risk = "low"
  \/ r.decision = "confirm" /\ r.risk = "medium" /\ r.rule = "sql.write"
  \/ r.decision = "confirm" /\ r.risk = "high" /\ r.rule = "sql.mutation"
  \/ r.decision = "deny" /\ r.risk = "high"

LEMMA AnswersAreGraded ==
  /\ \A rule : Graded(Allow(rule)) /\ Graded(Deny(rule))
  /\ Graded(Confirm("high", "sql.mutation"))
  /\ \A c : Graded(ScopedWrite(c))
BY DEF Graded, Deny, Allow, Confirm, Result, ScopedWrite

LEMMA EvaluationIsGraded == ASSUME NEW dialect, NEW c
                            PROVE  Graded(EvaluateSQLDialect(dialect, c))
<1>1. Graded(EvaluatePostgres(c))
  BY AnswersAreGraded DEF EvaluatePostgres
<1>2. Graded(EvaluateMySQL(c))
  BY AnswersAreGraded DEF EvaluateMySQL
<1> QED BY <1>1, <1>2, AnswersAreGraded DEF EvaluateSQLDialect

(* What the policy decides of each statement: by the node PostgreSQL's     *)
(* parser makes of it, and what the code answers to that node.             *)
LEMMA PgReads ==
  /\ \A c \in {"garbage", "describe", "rename_table"} : PgNode[c] = Unparsed
  /\ PgNode["two_statements"] = Many
  /\ \A c \in {"select", "union", "select_into", "union_into", "cte_write_select"} :
       PgNode[c] = "SelectStmt"
  /\ PgNode["show"] = "VariableShowStmt"
  /\ \A c \in {"explain_select", "explain_write"} : PgNode[c] = "ExplainStmt"
BY DEF PgNode, Classes

LEMMA PgWrites ==
  /\ \A c \in {"update_where", "update_all"} : PgNode[c] = "UpdateStmt"
  /\ \A c \in {"delete_where", "delete_all"} : PgNode[c] = "DeleteStmt"
  /\ PgNode["insert"] = "InsertStmt"
  /\ \A c \in {"drop_table", "drop_view", "drop_index"} : PgNode[c] = "DropStmt"
  /\ PgNode["truncate"] = "TruncateStmt"
BY DEF PgNode, Classes

LEMMA PgSchema ==
  /\ \A c \in {"create_table", "create_database", "create_role", "create_function",
               "alter_table", "alter_view", "alter_database", "alter_role"} :
       SchemaNode(PgNode[c])
  /\ \A c \in {"create_index", "create_view", "alter_rename", "drop_database", "drop_role"} :
       PgNode[c] \in {"IndexStmt", "ViewStmt", "RenameStmt", "DropdbStmt", "DropRoleStmt"}
BY DEF PgNode, Classes, SchemaNode

LEMMA PgAnswers ==
  ASSUME NEW c PROVE
  /\ PgNode[c] = Unparsed => EvaluatePostgres(c) = Deny("sql.invalid")
  /\ PgNode[c] = Many => EvaluatePostgres(c) = Deny("sql.multiple")
  /\ PgNode[c] = "SelectStmt" => EvaluatePostgres(c) =
       IF ContainsMutation(c) THEN Deny("sql.cte_write") ELSE Allow("sql.read")
  /\ PgNode[c] = "VariableShowStmt" => EvaluatePostgres(c) = Allow("sql.read")
  /\ PgNode[c] = "ExplainStmt" => EvaluatePostgres(c) =
       IF ContainsMutation(c) THEN Deny("sql.explain_write") ELSE Allow("sql.explain")
  /\ PgNode[c] \in {"UpdateStmt", "DeleteStmt"} => EvaluatePostgres(c) = ScopedWrite(c)
  /\ PgNode[c] = "InsertStmt" \/ SchemaNode(PgNode[c])
       => EvaluatePostgres(c) = Confirm("high", "sql.mutation")
  /\ PgNode[c] \in {"DropStmt", "TruncateStmt"} => EvaluatePostgres(c) = Deny("sql.destructive")
  /\ PgNode[c] \in {"IndexStmt", "ViewStmt", "RenameStmt", "DropdbStmt", "DropRoleStmt"}
       => EvaluatePostgres(c) = Deny("sql.default_deny")
BY DEF EvaluatePostgres, Unparsed, Many, SchemaNode

(* And by the node of MySQL's.                                             *)
LEMMA MySQLReads ==
  /\ \A c \in {"garbage", "cte_write_select", "create_role", "create_function",
               "alter_role", "drop_role"} : MySQLNode[c] = Unparsed
  /\ MySQLNode["two_statements"] = Many
  /\ \A c \in {"select", "select_into"} : MySQLNode[c] = "Select"
  /\ \A c \in {"union", "union_into", "show", "explain_select", "explain_write", "describe"} :
       MySQLNode[c] \in {"Union", "Show", "ExplainStmt", "ExplainTab"}
BY DEF MySQLNode, Classes

LEMMA MySQLWrites ==
  /\ \A c \in {"update_where", "update_all"} : MySQLNode[c] = "Update"
  /\ \A c \in {"delete_where", "delete_all"} : MySQLNode[c] = "Delete"
  /\ MySQLNode["insert"] = "Insert"
  /\ \A c \in {"drop_table", "drop_database", "truncate"} :
       MySQLNode[c] \in {"DropTable", "DropDatabase", "TruncateTable"}
BY DEF MySQLNode, Classes

LEMMA MySQLSchema ==
  /\ \A c \in {"create_table", "create_database", "create_index", "alter_table",
               "alter_rename", "alter_database", "drop_index"} :
       MySQLNode[c] \in {"CreateTable", "CreateDatabase", "AlterTable", "AlterDatabase"}
  /\ \A c \in {"create_view", "alter_view", "drop_view", "rename_table"} : MySQLNode[c] = "other"
BY DEF MySQLNode, Classes

LEMMA MySQLAnswers ==
  ASSUME NEW c PROVE
  /\ MySQLNode[c] = Unparsed => EvaluateMySQL(c) = Deny("sql.invalid")
  /\ MySQLNode[c] = Many => EvaluateMySQL(c) = Deny("sql.multiple")
  /\ MySQLNode[c] = "Select" => EvaluateMySQL(c) =
       IF HasInto(c) THEN Deny("sql.write") ELSE Allow("sql.read")
  /\ MySQLNode[c] \in {"Union", "Show", "ExplainStmt", "ExplainTab"}
       => EvaluateMySQL(c) = Allow("sql.read")
  /\ MySQLNode[c] \in {"Update", "Delete"} => EvaluateMySQL(c) = ScopedWrite(c)
  /\ MySQLNode[c] \in {"Insert", "CreateTable", "CreateDatabase", "AlterTable", "AlterDatabase"}
       => EvaluateMySQL(c) = Confirm("high", "sql.mutation")
  /\ MySQLNode[c] \in {"DropTable", "DropDatabase", "TruncateTable"}
       => EvaluateMySQL(c) = Deny("sql.destructive")
  /\ MySQLNode[c] = "other" => EvaluateMySQL(c) = Deny("sql.default_deny")
BY DEF EvaluateMySQL, Unparsed, Many

LEMMA Decisions ==
  /\ \A rule : Deny(rule).decision = "deny" /\ Allow(rule).decision = "allow"
  /\ \A c : ScopedWrite(c).decision = IF HasWhere(c) THEN "confirm" ELSE "deny"
  /\ Confirm("high", "sql.mutation").decision = "confirm"
BY DEF Deny, Allow, Confirm, ScopedWrite, Result

(* A text that must not pass, in either dialect and in any other.          *)
LEMMA DestructiveDecision == ASSUME NEW dialect \in Dialects, NEW c \in Destructive
                             PROVE  EvaluateSQLDialect(dialect, c).decision = "deny"
<1>1. c # "blank" => EvaluatePostgres(c).decision = "deny"
  BY PgReads, PgWrites, PgSchema, PgAnswers, Decisions
     DEF Destructive, HasWhere, ContainsMutation
<1>2. c # "blank" => EvaluateMySQL(c).decision = "deny"
  BY MySQLReads, MySQLWrites, MySQLSchema, MySQLAnswers, Decisions DEF Destructive, HasWhere
<1> QED BY <1>1, <1>2, Decisions DEF EvaluateSQLDialect, Dialects

LEMMA DropIndexDecision == ASSUME NEW dialect \in Dialects, dialect # "mysql"
                           PROVE  EvaluateSQLDialect(dialect, "drop_index").decision = "deny"
BY PgWrites, PgAnswers, Decisions DEF EvaluateSQLDialect, Dialects

(* Rows that are added and schemas that are changed: denied already, or by *)
(* the rule prod turns into a refusal.                                     *)
LEMMA MutationRule == ASSUME NEW dialect \in Dialects, NEW c \in SchemaOrInsert
                      PROVE  \/ EvaluateSQLDialect(dialect, c) = Confirm("high", "sql.mutation")
                             \/ EvaluateSQLDialect(dialect, c).decision = "deny"
<1>1. \/ EvaluatePostgres(c) = Confirm("high", "sql.mutation")
      \/ EvaluatePostgres(c).decision = "deny"
  BY PgReads, PgWrites, PgSchema, PgAnswers, Decisions DEF SchemaOrInsert
<1>2. \/ EvaluateMySQL(c) = Confirm("high", "sql.mutation")
      \/ EvaluateMySQL(c).decision = "deny"
  BY MySQLReads, MySQLWrites, MySQLSchema, MySQLAnswers, Decisions DEF SchemaOrInsert
<1> QED BY <1>1, <1>2, Decisions DEF EvaluateSQLDialect, Dialects

(* The two columns of the table, statement by statement.                   *)
Named == ReadWords \cup ConfirmWords \cup DenyWords

PgAllowed      == ReadWords \ {"describe", "explain_write"}
PgConfirmed    == ConfirmWords \ {"create_index", "create_view", "alter_rename"}
MySQLAllowed   == ReadWords \ {"select_into"}
MySQLConfirmed == (ConfirmWords \ {"create_view", "create_role", "create_function",
                                   "alter_view", "alter_role"}) \cup {"drop_index"}

LEMMA PostgresTable == ASSUME NEW c \in Named
                       PROVE  EvaluatePostgres(c).decision =
                                IF c \in PgAllowed THEN "allow"
                                ELSE IF c \in PgConfirmed THEN "confirm" ELSE "deny"
<1>1. CASE c \in ReadWords
  BY <1>1, PgReads, PgAnswers, Decisions
     DEF ReadWords, PgAllowed, PgConfirmed, ConfirmWords, ContainsMutation
<1>2. CASE c \in ConfirmWords
  BY <1>2, PgWrites, PgSchema, PgAnswers, Decisions
     DEF ReadWords, PgAllowed, PgConfirmed, ConfirmWords, HasWhere
<1>3. CASE c \in DenyWords
  BY <1>3, PgWrites, PgSchema, PgAnswers, Decisions
     DEF ReadWords, PgAllowed, PgConfirmed, ConfirmWords, DenyWords, HasWhere
<1> QED BY <1>1, <1>2, <1>3 DEF Named

LEMMA MySQLTable == ASSUME NEW c \in Named
                    PROVE  EvaluateMySQL(c).decision =
                             IF c \in MySQLAllowed THEN "allow"
                             ELSE IF c \in MySQLConfirmed THEN "confirm" ELSE "deny"
<1>1. CASE c \in ReadWords
  BY <1>1, MySQLReads, MySQLAnswers, Decisions
     DEF ReadWords, MySQLAllowed, MySQLConfirmed, ConfirmWords, HasInto
<1>2. CASE c \in ConfirmWords
  BY <1>2, MySQLReads, MySQLWrites, MySQLSchema, MySQLAnswers, Decisions
     DEF ReadWords, MySQLAllowed, MySQLConfirmed, ConfirmWords, HasWhere
<1>3. CASE c \in DenyWords
  BY <1>3, MySQLReads, MySQLWrites, MySQLSchema, MySQLAnswers, Decisions
     DEF ReadWords, MySQLAllowed, MySQLConfirmed, ConfirmWords, DenyWords, HasWhere
<1> QED BY <1>1, <1>2, <1>3 DEF Named

LEMMA DocumentedValues == ASSUME NEW c \in Named
                          PROVE  /\ c \in ReadWords    => Documented(c) = "allow"
                                 /\ c \in ConfirmWords => Documented(c) = "confirm"
                                 /\ c \in DenyWords    => Documented(c) = "deny"
BY DEF Named, ReadWords, ConfirmWords, DenyWords, Documented

(* The question a call began with, and its answer, stay what they were.    *)
AskedInv ==
  /\ question \in SQLQuestions \cup ActionQuestions \cup {Unasked}
  /\ answer = Decide(question)

LEMMA AskedInvariant == GuardedSpec => []AskedInv
<1>1. GuardedInit => AskedInv
  BY DEF GuardedInit, AskedInv, QuestionsFor, Put
<1>2. AskedInv /\ [GuardedNext]_guardedVars => AskedInv'
  BY DEF AskedInv, GuardedNext, Refuse, Call, Refused, guardedVars, Asked
<1> QED BY <1>1, <1>2, PTL DEF GuardedSpec

(* A call behind the policy is a call.                                     *)
LEMMA GuardedCallInvariant == GuardedSpec => []CallInv
<1>1. GuardedInit => CallInv
  BY InitInv DEF GuardedInit
<1>2. ASSUME CallInv, Refuse PROVE CallInv'
  <2>1. /\ pc' = "returned" /\ outcome' = "error"
        /\ kind' = kind /\ timeUp' = timeUp /\ link' = link /\ remote' = remote
        /\ got' = got /\ reader' = reader /\ done' = done /\ spilled' = spilled
    BY <1>2 DEF Refuse, Return
  <2>2. TypeOK'
    BY <1>2, <2>1 DEF CallInv, TypeOK, Outcomes
  <2>3. RemoteInv' /\ CallerInv'
    BY <1>2, <2>1 DEF CallInv, RemoteInv, CallerInv, EndedWell
  <2>4. (Whole' <=> Whole) /\ (FilePart' <=> FilePart) /\ (StreamEnded' <=> StreamEnded)
    BY <2>1 DEF Whole, FilePart, StreamEnded, EndedWell
  <2>5. ReaderInv'
    BY <1>2, <2>1, <2>4 DEF CallInv, ReaderInv
  <2>6. OutcomeInv'
    BY <2>1 DEF OutcomeInv
  <2> QED BY <2>2, <2>3, <2>5, <2>6 DEF CallInv
<1>3. CallInv /\ [GuardedNext]_guardedVars => CallInv'
  BY <1>2, StepInv DEF GuardedNext, Call, Refused, guardedVars
<1> QED BY <1>1, <1>3, PTL DEF GuardedSpec

(* Behind the policy too, a command or a query returns all of its output   *)
(* or none, and only a log or the file of a pod may come back in part.     *)
THEOREM GuardedReturnsWholeData == GuardedSpec => []DataIsWhole
BY CallInvTells, GuardedCallInvariant, PTL

(* And output is refused or thrown away only if it was over the limit.     *)
THEOREM GuardedLimitsAreExact == GuardedSpec => []LimitIsExact
BY CallInvTells, GuardedCallInvariant, PTL

(* prod never answers with a weaker decision or a lower risk than dev,     *)
(* whatever is asked and however the environment is spelled.               *)
THEOREM ProdIsStricterThm == GuardedSpec => []ProdIsStricter
<1>1. ASSUME AskedInv, question \in SQLQuestions PROVE ProdIsStricter
  <2>1. PICK e \in Environments, d \in Dialects, c \in Classes : question = AboutSQL(e, d, c)
    BY <1>1 DEF SQLQuestions
  <2> DEFINE dev == Decide([question EXCEPT !.env = "dev"])
             r   == EvaluateSQLDialect(d, c)
  <2> SUFFICES ASSUME IsProd(e)
               PROVE  /\ Strictness[answer.decision] >= Strictness[dev.decision]
                      /\ dev.risk = "high" => answer.risk = "high"
                      /\ c \in SchemaOrInsert
                           => answer.decision = "deny"
    BY <2>1 DEF ProdIsStricter, AboutSQL, IsProd
  <2>2. dev = r
    BY <2>1 DEF Decide, AboutSQL, EvaluateSQLForEnvironment, IsProd
  <2>3. answer = IF r.decision = "confirm" /\ r.rule = "sql.mutation"
                   THEN Deny("sql.prod_mutation") ELSE r
    BY <1>1, <2>1 DEF AskedInv, Decide, AboutSQL, EvaluateSQLForEnvironment
  <2>4. Deny("sql.prod_mutation").decision = "deny" /\ Deny("sql.prod_mutation").risk = "high"
    BY DEF Deny, Result
  <2>5. Graded(r)
    BY EvaluationIsGraded
  <2>6. Strictness["allow"] = 0 /\ Strictness["confirm"] = 1 /\ Strictness["deny"] = 2
    BY DEF Strictness
  <2>7. c \in SchemaOrInsert =>
          r.decision = "deny" \/ (r.decision = "confirm" /\ r.rule = "sql.mutation")
    BY MutationRule DEF Confirm, Deny, Result
  <2>8. answer.decision = r.decision \/ answer.decision = "deny"
    BY <2>3, <2>4
  <2>9. r.decision \in {"allow", "confirm", "deny"}
    BY <2>5 DEF Graded
  <2>10. Strictness[answer.decision] >= Strictness[dev.decision]
    <3> HIDE DEF r, dev
    <3> QED BY <2>2, <2>6, <2>8, <2>9
  <2> QED BY <2>2, <2>3, <2>4, <2>7, <2>10
<1>2. ASSUME AskedInv, question \in ActionQuestions PROVE ProdIsStricter
  <2>1. PICK e \in Environments, t \in {"linux", "kubernetes", "database"},
             a \in {"restart_service", "rollout_restart", "exec"} :
               question = AboutAction(e, t, a)
    BY <1>2 DEF ActionQuestions
  <2> DEFINE dev == Decide([question EXCEPT !.env = "dev"])
             r   == EvaluateAction(t, a)
  <2> SUFFICES ASSUME IsProd(e)
               PROVE  /\ Strictness[answer.decision] >= Strictness[dev.decision]
                      /\ dev.risk = "high" => answer.risk = "high"
    BY <2>1 DEF ProdIsStricter, AboutAction, IsProd
  <2>2. dev = r
    BY <2>1 DEF Decide, AboutAction, EvaluateActionForEnvironment, IsProd
  <2>3. answer = IF r.decision = "confirm" THEN Confirm("high", "restart.prod") ELSE r
    BY <1>2, <2>1 DEF AskedInv, Decide, AboutAction, EvaluateActionForEnvironment
  <2>4. /\ Confirm("high", "restart.prod").decision = "confirm"
        /\ Confirm("high", "restart.prod").risk = "high"
    BY DEF Confirm, Result
  <2>5. r.decision \in {"confirm", "deny"}
    BY DEF EvaluateAction, Confirm, Deny, Result
  <2>6. answer.decision = r.decision
    BY <2>3, <2>4
  <2>7. Strictness[answer.decision] >= Strictness[dev.decision]
    <3>1. Strictness["confirm"] = 1 /\ Strictness["deny"] = 2
      BY DEF Strictness
    <3> HIDE DEF r, dev
    <3> QED BY <2>2, <2>5, <2>6, <3>1
  <2> QED BY <2>2, <2>3, <2>4, <2>7
<1>3. question = Unasked => ProdIsStricter
  BY DEF ProdIsStricter, Unasked
<1>4. AskedInv => ProdIsStricter
  BY <1>1, <1>2, <1>3 DEF AskedInv
<1> QED BY <1>4, AskedInvariant, PTL

(* An unscoped or destructive write, and a text that is not exactly one    *)
(* statement, is denied in every environment and dialect, but for MySQL's  *)
(* DROP INDEX.                                                             *)
THEOREM DestructiveIsDeniedThm == GuardedSpec => []DestructiveIsDenied
<1>1. ASSUME AskedInv, question \in SQLQuestions PROVE DestructiveIsDenied
  <2>1. PICK e \in Environments, d \in Dialects, c \in Classes : question = AboutSQL(e, d, c)
    BY <1>1 DEF SQLQuestions
  <2>2. question.what = c /\ question.of = d
    BY <2>1 DEF AboutSQL
  <2>3. answer = EvaluateSQLForEnvironment(e, d, c)
    BY <1>1, <2>1 DEF AskedInv, Decide, AboutSQL
  <2>4. EvaluateSQLDialect(d, c).decision = "deny" => answer.decision = "deny"
    BY <2>3 DEF EvaluateSQLForEnvironment
  <2>5. c \in Destructive => EvaluateSQLDialect(d, c).decision = "deny"
    BY DestructiveDecision
  <2>6. c = "drop_index" /\ d # "mysql" => EvaluateSQLDialect(d, c).decision = "deny"
    BY DropIndexDecision
  <2> QED BY <2>2, <2>4, <2>5, <2>6 DEF DestructiveIsDenied
<1>2. AskedInv /\ question.kind = "sql" => question \in SQLQuestions
  BY DEF AskedInv, ActionQuestions, AboutAction, Unasked
<1>3. AskedInv => DestructiveIsDenied
  BY <1>1, <1>2 DEF DestructiveIsDenied
<1> QED BY <1>3, AskedInvariant, PTL

(* In dev and test both evaluations answer what the documented table says  *)
(* of every statement it names, but for the twelve of Undocumented, of     *)
(* which all but MySQL's DROP INDEX are answered more strictly.            *)
THEOREM DocumentedDecisionThm == GuardedSpec => []DocumentedDecision
<1>1. ASSUME AskedInv, question \in SQLQuestions, question.env \in {"dev", "test"},
             question.of \in {"postgres", "mysql"}, question.what \in Named
      PROVE  DocumentedDecision
  <2>1. PICK e \in Environments, d \in Dialects, c \in Classes : question = AboutSQL(e, d, c)
    BY <1>1 DEF SQLQuestions
  <2>2. /\ e \in {"dev", "test"} /\ d \in {"postgres", "mysql"} /\ c \in Named
        /\ question.what = c /\ question.of = d
    BY <1>1, <2>1 DEF AboutSQL
  <2>3. answer = EvaluateSQLDialect(d, c)
    BY <1>1, <2>1, <2>2 DEF AskedInv, Decide, AboutSQL, EvaluateSQLForEnvironment, IsProd
  <2>4. c # "blank"
    BY <2>2 DEF Named, ReadWords, ConfirmWords, DenyWords
  <2>5. Strictness["allow"] = 0 /\ Strictness["confirm"] = 1 /\ Strictness["deny"] = 2
    BY DEF Strictness
  <2>6. CASE d = "postgres"
    <3>1. answer.decision = IF c \in PgAllowed THEN "allow"
                            ELSE IF c \in PgConfirmed THEN "confirm" ELSE "deny"
      BY <2>2, <2>3, <2>4, <2>6, PostgresTable DEF EvaluateSQLDialect
    <3>2. <<d, c>> \in Undocumented <=>
            c \in {"create_index", "create_view", "describe", "explain_write", "alter_rename"}
      BY <2>6 DEF Undocumented
    <3> QED BY <2>2, <2>5, <2>6, <3>1, <3>2, DocumentedValues
            DEF DocumentedDecision, PgAllowed, PgConfirmed, ReadWords, ConfirmWords,
                DenyWords, Named
  <2>7. CASE d = "mysql"
    <3>1. answer.decision = IF c \in MySQLAllowed THEN "allow"
                            ELSE IF c \in MySQLConfirmed THEN "confirm" ELSE "deny"
      BY <2>2, <2>3, <2>4, <2>7, MySQLTable DEF EvaluateSQLDialect
    <3>2. <<d, c>> \in Undocumented <=>
            c \in {"create_view", "create_role", "create_function", "alter_view",
                   "alter_role", "select_into", "drop_index"}
      BY <2>7 DEF Undocumented
    <3> QED BY <2>2, <2>5, <2>7, <3>1, <3>2, DocumentedValues
            DEF DocumentedDecision, MySQLAllowed, MySQLConfirmed, ReadWords, ConfirmWords,
                DenyWords, Named
  <2> QED BY <2>2, <2>6, <2>7
<1>2. AskedInv /\ question.kind = "sql" => question \in SQLQuestions
  BY DEF AskedInv, ActionQuestions, AboutAction, Unasked
<1>3. AskedInv => DocumentedDecision
  BY <1>1, <1>2 DEF DocumentedDecision, Named
<1> QED BY <1>3, AskedInvariant, PTL
=============================================================================
