-------------------------- MODULE CallAudit_proofs --------------------------
(***************************************************************************)
(* What the audit rows say of the calls, for any number of calls under any *)
(* failures.                                                               *)
(*                                                                         *)
(* A step concerns one call and its row.  CallInv says, place by place,    *)
(* what the row of a call looks like, and what the handler has learned.    *)
(***************************************************************************)
EXTENDS CallAudit, TLAPS

NoRows(c) == rows[c] = <<>>

(* Before the handler: only a REST read has announced itself.              *)
BeforeInv(c) ==
  /\ call[c].pc \in {"new", "decode", "announce"} => NoRows(c) /\ ~call[c].reached
  /\ call[c].pc = "decode" => ~Read(c, "rest")
  /\ call[c].pc = "announce" => Read(c, "rest")
  /\ call[c].pc = "handle" =>
       /\ rows[c] = IF Read(c, "rest") THEN <<"executing">> ELSE <<>>
       /\ ~call[c].reached

(* After it: what has been written below the middleware, and what has not. *)
AfterInv(c) ==
  /\ call[c].pc \in {"record", "middleware", "complete"} =>
       call[c].outcome \in {"data", "error"}
  /\ call[c].pc = "record" => call[c].kind = "query" /\ NoRows(c)
  /\ call[c].pc = "complete" =>
       /\ Read(c, "rest") /\ rows[c] = <<"executing">>
       /\ call[c].answer = call[c].outcome
  /\ call[c].pc = "middleware" =>
       /\ call[c].door = "mcp"
       /\ call[c].kind = "read" => NoRows(c)
       /\ call[c].kind = "query" =>
            \/ rows[c] = <<StatusOf(call[c].outcome)>>
            \/ /\ NoRows(c) /\ call[c].outcome = "error"
               /\ call[c].reached => call[c].hurt
       /\ call[c].kind = "submit" =>
            IF call[c].outcome = "data" THEN rows[c] \in {<<"pending">>, <<"evaluated">>}
                                        ELSE NoRows(c)

(* The row a call ends with.                                               *)
DoneInv(c) ==
  call[c].pc = "done" =>
    \/ /\ NoRows(c) /\ call[c].answer # "data"
       /\ Read(c, "rest") => ~call[c].reached
       /\ \/ call[c].hurt
          \/ call[c].door = "rest" /\ call[c].kind = "submit"
          \/ call[c].kind = "query" /\ ~call[c].reached
    \/ /\ call[c].answer = "data" /\ rows[c] \in {<<"succeeded">>, <<"pending">>, <<"evaluated">>}
    \/ /\ call[c].answer # "data" /\ rows[c] = <<"failed">>
    \/ /\ call[c].hurt /\ \E s \in Status : rows[c] = <<s>>

LocalInv(c) ==
  /\ BeforeInv(c) /\ AfterInv(c) /\ DoneInv(c)
  /\ call[c].pc \notin {"complete", "done"} => call[c].answer = "none"

CallInv == \A c \in Calls : LocalInv(c)
IInv    == TypeOK /\ CallInv

-----------------------------------------------------------------------------
(* Only the call that moves has to be looked at.                           *)
LEMMA OneMoves ==
  ASSUME IInv, NEW c \in Calls, NEW st \in CallState, NEW row \in Seq(Status),
         call' = [call EXCEPT ![c] = st], rows' = [rows EXCEPT ![c] = row],
         gone' = gone, LocalInv(c)'
  PROVE  IInv'
<1>1. TypeOK'
  BY DEF IInv, TypeOK
<1>2. ASSUME NEW d \in Calls \ {c} PROVE LocalInv(d)'
  <2>1. call'[d] = call[d] /\ rows'[d] = rows[d]
    BY DEF IInv, TypeOK
  <2>2. LocalInv(d)
    BY DEF IInv, CallInv
  <2> QED BY <2>1, <2>2 DEF LocalInv, BeforeInv, AfterInv, DoneInv, NoRows, Read, Is
<1> QED BY <1>1, <1>2 DEF IInv, CallInv

(* What one write adds to the row of a call.                               *)
LEMMA OneRow ==
  ASSUME NEW s \in Status
  PROVE  <<s>> \in Seq(Status) /\ Append(<<>>, s) = <<s>> /\ <<s>> # <<>>
OBVIOUS

(* Each kind of step keeps the invariant.  A call begins.                  *)
LEMMA BeginInv == ASSUME IInv, NEW c \in Calls, Begin(c) PROVE IInv'
<1> DEFINE st == [call[c] EXCEPT !.pc = IF Read(c, "rest") THEN "announce" ELSE "decode"]
<1>1. call[c] \in CallState /\ rows[c] \in Seq(Status) /\ LocalInv(c)
  BY DEF IInv, TypeOK, CallInv
<1>2. st \in CallState
  BY <1>1 DEF CallState, Pcs
<1>3. call' = [call EXCEPT ![c] = st] /\ rows' = [rows EXCEPT ![c] = rows[c]]
  BY DEF Begin, Goto, IInv, TypeOK
<1>4. call'[c] = st /\ rows'[c] = rows[c]
  BY <1>3 DEF IInv, TypeOK
<1>5. LocalInv(c)'
  BY <1>1, <1>4
     DEF CallState, Begin, At, Read, Is, LocalInv, BeforeInv, AfterInv, DoneInv, NoRows
<1> QED BY <1>1, <1>2, <1>3, <1>5, OneMoves DEF Begin

(* Its arguments are taken or refused.                                     *)
LEMMA DecodeInv == ASSUME IInv, NEW c \in Calls, Decode(c) PROVE IInv'
<1>1. call[c] \in CallState /\ rows[c] \in Seq(Status) /\ LocalInv(c)
  BY DEF IInv, TypeOK, CallInv
<1>2. PICK st \in {[call[c] EXCEPT !.pc = "handle"],
                   [call[c] EXCEPT !.pc = "middleware", !.outcome = "error"],
                   [call[c] EXCEPT !.pc = "done", !.answer = "error"]} :
        /\ call' = [call EXCEPT ![c] = st] /\ rows' = [rows EXCEPT ![c] = rows[c]]
        /\ st.pc = "middleware" => call[c].door = "mcp"
        /\ st.pc = "done" => call[c].door = "rest"
  BY <1>1 DEF Decode, Goto, Answer, IInv, TypeOK, CallState
<1>3. st \in CallState
  BY <1>1 DEF CallState, Pcs
<1>4. call'[c] = st /\ rows'[c] = rows[c]
  BY <1>2 DEF IInv, TypeOK
<1>5. /\ NoRows(c) /\ ~call[c].reached /\ call[c].answer = "none"
      /\ ~Read(c, "rest") /\ call[c].pc = "decode"
  BY <1>1 DEF Decode, At, LocalInv, BeforeInv
<1>6. LocalInv(c)'
  <2>1. CASE st = [call[c] EXCEPT !.pc = "handle"]
    BY <1>1, <1>4, <1>5, <2>1
       DEF CallState, Read, Is, LocalInv, BeforeInv, AfterInv, DoneInv, NoRows
  <2>2. CASE st = [call[c] EXCEPT !.pc = "middleware", !.outcome = "error"]
    BY <1>1, <1>2, <1>4, <1>5, <2>2
       DEF CallState, Read, Is, LocalInv, BeforeInv, AfterInv, DoneInv, NoRows
  <2>3. CASE st = [call[c] EXCEPT !.pc = "done", !.answer = "error"]
    BY <1>1, <1>2, <1>4, <1>5, <2>3
       DEF CallState, Kinds, Read, Is, LocalInv, BeforeInv, AfterInv, DoneInv, NoRows
  <2> QED BY <2>1, <2>2, <2>3
<1> QED BY <1>1, <1>2, <1>3, <1>6, OneMoves DEF Decode

(* A REST read is announced, or refused.                                   *)
LEMMA AnnounceInv == ASSUME IInv, NEW c \in Calls, Announce(c) PROVE IInv'
<1>1. call[c] \in CallState /\ rows[c] \in Seq(Status) /\ LocalInv(c)
  BY DEF IInv, TypeOK, CallInv
<1>2. NoRows(c) /\ Read(c, "rest") /\ ~call[c].reached
  BY <1>1 DEF Announce, At, LocalInv, BeforeInv
<1>3. CASE Append1(c, "executing") /\ Goto(c, "handle")
  <2> DEFINE st == [call[c] EXCEPT !.pc = "handle"]
  <2>1. st \in CallState /\ <<"executing">> \in Seq(Status)
    BY <1>1, OneRow DEF CallState, Pcs, Status
  <2>2. call' = [call EXCEPT ![c] = st] /\ rows' = [rows EXCEPT ![c] = <<"executing">>]
    BY <1>2, <1>3, OneRow DEF Append1, Goto, NoRows, Status
  <2>3. call'[c] = st /\ rows'[c] = <<"executing">>
    BY <2>2 DEF IInv, TypeOK
  <2>4. LocalInv(c)'
    BY <1>1, <1>2, <2>3
       DEF CallState, Announce, At, Read, Is, LocalInv, BeforeInv, AfterInv, DoneInv, NoRows
  <2> QED BY <2>1, <2>2, <2>4, OneMoves DEF Announce
<1>4. CASE AnswerUnrecorded(c) /\ UNCHANGED rows
  <2> DEFINE st == [call[c] EXCEPT !.pc = "done", !.answer = "error", !.hurt = TRUE]
  <2>1. st \in CallState
    BY <1>1 DEF CallState, Pcs
  <2>2. call' = [call EXCEPT ![c] = st] /\ rows' = [rows EXCEPT ![c] = rows[c]]
    BY <1>4 DEF AnswerUnrecorded, IInv, TypeOK
  <2>3. call'[c] = st /\ rows'[c] = rows[c]
    BY <2>2 DEF IInv, TypeOK
  <2>4. LocalInv(c)'
    BY <1>1, <1>2, <2>3
       DEF CallState, Announce, At, Read, Is, LocalInv, BeforeInv, AfterInv, DoneInv, NoRows
  <2> QED BY <1>1, <2>1, <2>2, <2>4, OneMoves DEF Announce
<1> QED BY <1>3, <1>4 DEF Announce

(* The handler of a read or a query has asked.                             *)
LEMMA HandleInv == ASSUME IInv, NEW c \in Calls, Handle(c) PROVE IInv'
<1>1. call[c] \in CallState /\ rows[c] \in Seq(Status) /\ LocalInv(c)
  BY DEF IInv, TypeOK, CallInv
<1>2. PICK a \in Attempts(c) :
        call' = [call EXCEPT ![c].pc = AfterHandler(c), ![c].outcome = a[1],
                             ![c].reached = a[2],
                             ![c].answer = IF Read(c, "rest") THEN a[1] ELSE @]
  BY DEF Handle
<1> DEFINE answer == IF Read(c, "rest") THEN a[1] ELSE call[c].answer
           st == [call[c] EXCEPT !.pc = AfterHandler(c), !.outcome = a[1],
                                 !.reached = a[2], !.answer = answer]
<1>3. a[1] \in {"data", "error"} /\ a[2] \in BOOLEAN
  <2>1. a \in {<<"error", FALSE>>, <<"data", TRUE>>, <<"error", TRUE>>}
    <3>1. CASE a \in {<<"error", FALSE>>, <<"data", TRUE>>}
      BY <3>1
    <3>2. CASE a \in (IF "remote" \in Faults \/ c \in gone THEN {<<"error", TRUE>>} ELSE {})
      BY <3>2, Zenon
    <3> QED BY <3>1, <3>2 DEF Attempts
  <2>2. CASE a = <<"error", FALSE>>
    BY <2>2
  <2>3. CASE a = <<"data", TRUE>>
    BY <2>3
  <2>4. CASE a = <<"error", TRUE>>
    BY <2>4
  <2> QED BY <2>1, <2>2, <2>3, <2>4
<1>4. \/ call[c].kind = "query" /\ AfterHandler(c) = "record"
      \/ call[c].kind = "read" /\ call[c].door = "mcp" /\ AfterHandler(c) = "middleware"
      \/ Read(c, "rest") /\ AfterHandler(c) = "complete"
  <2>1. call[c].kind \in {"query", "read"} /\ call[c].door \in {"mcp", "rest"}
    BY <1>1 DEF Handle, CallState, Kinds, Doors
  <2>2. CASE call[c].kind = "query"
    BY <2>2 DEF AfterHandler, Read, Is
  <2>3. CASE call[c].kind = "read" /\ call[c].door = "mcp"
    BY <2>3 DEF AfterHandler, Read, Is
  <2>4. CASE call[c].kind = "read" /\ call[c].door = "rest"
    BY <2>4 DEF AfterHandler, Read, Is
  <2> QED BY <2>1, <2>2, <2>3, <2>4
<1>5. st \in CallState
  BY <1>1, <1>3, <1>4 DEF CallState, Pcs
<1>6. call' = [call EXCEPT ![c] = st] /\ rows' = [rows EXCEPT ![c] = rows[c]]
  BY <1>2 DEF Handle, IInv, TypeOK
<1>7. call'[c] = st /\ rows'[c] = rows[c]
  BY <1>6 DEF IInv, TypeOK
<1>8. /\ st.pc = AfterHandler(c) /\ st.outcome = a[1] /\ st.answer = answer
      /\ st.door = call[c].door /\ st.kind = call[c].kind
  BY <1>1 DEF CallState
<1>9. /\ call[c].answer = "none" /\ rows[c] = IF Read(c, "rest") THEN <<"executing">> ELSE <<>>
  BY <1>1 DEF Handle, At, LocalInv, BeforeInv
<1> HIDE DEF st
<1>10. LocalInv(c)'
  <2>1. CASE call[c].kind = "query" /\ AfterHandler(c) = "record"
    BY <1>3, <1>7, <1>8, <1>9, <2>1
       DEF Read, Is, LocalInv, BeforeInv, AfterInv, DoneInv, NoRows
  <2>2. CASE call[c].kind = "read" /\ call[c].door = "mcp" /\ AfterHandler(c) = "middleware"
    BY <1>3, <1>7, <1>8, <1>9, <2>2
       DEF Read, Is, LocalInv, BeforeInv, AfterInv, DoneInv, NoRows
  <2>3. CASE Read(c, "rest") /\ AfterHandler(c) = "complete"
    BY <1>3, <1>7, <1>8, <1>9, <2>3
       DEF Read, Is, LocalInv, BeforeInv, AfterInv, DoneInv, NoRows
  <2> QED BY <1>4, <2>1, <2>2, <2>3
<1> QED BY <1>1, <1>5, <1>6, <1>10, OneMoves DEF Handle, st

(* An operation is submitted with its row, or not at all.                  *)
LEMMA SubmitInv == ASSUME IInv, NEW c \in Calls, Submit(c) PROVE IInv'
<1>1. call[c] \in CallState /\ rows[c] \in Seq(Status) /\ LocalInv(c)
  BY DEF IInv, TypeOK, CallInv
<1>2. PICK outcome \in {"data", "error"} :
        /\ IF outcome = "data" THEN \E s \in {"pending", "evaluated"} : Append1(c, s)
                               ELSE UNCHANGED rows
        /\ IF call[c].door = "rest"
             THEN Answer(c, outcome)
             ELSE call' = [call EXCEPT ![c].pc = "middleware", ![c].outcome = outcome]
  BY DEF Submit
<1>3. NoRows(c) /\ call[c].kind = "submit"
  BY <1>1 DEF Submit, At, LocalInv, BeforeInv, NoRows, Read, Is
<1>4. PICK row \in {<<>>, <<"pending">>, <<"evaluated">>} :
        /\ rows' = [rows EXCEPT ![c] = row]
        /\ IF outcome = "data" THEN row # <<>> ELSE row = <<>>
        /\ row \in Seq(Status)
  <2>1. CASE outcome = "data"
    <3>1. PICK s \in {"pending", "evaluated"} : Append1(c, s)
      BY <1>2, <2>1
    <3>2. rows' = [rows EXCEPT ![c] = <<s>>] /\ <<s>> \in Seq(Status) /\ <<s>> # <<>>
      BY <1>3, <3>1, OneRow DEF Append1, NoRows, Status
    <3> QED BY <2>1, <3>2
  <2>2. CASE outcome # "data"
    BY <1>2, <1>3, <2>2 DEF IInv, TypeOK, NoRows
  <2> QED BY <2>1, <2>2
<1>5. PICK st \in {[call[c] EXCEPT !.pc = "done", !.answer = outcome],
                   [call[c] EXCEPT !.pc = "middleware", !.outcome = outcome]} :
        /\ call' = [call EXCEPT ![c] = st]
        /\ st.pc = "done" <=> call[c].door = "rest"
  BY <1>1, <1>2 DEF Answer, CallState
<1>6. st \in CallState
  BY <1>1 DEF CallState, Pcs
<1>7. call'[c] = st /\ rows'[c] = row
  BY <1>4, <1>5 DEF IInv, TypeOK
<1>8. LocalInv(c)'
  <2>1. call[c].answer = "none" /\ call[c].pc = "handle" /\ ~Read(c, "rest")
    BY <1>1, <1>3 DEF Submit, At, LocalInv, Read, Is
  <2>2. CASE st = [call[c] EXCEPT !.pc = "done", !.answer = outcome]
    <3>1. /\ call'[c].pc = "done" /\ call'[c].answer = outcome
          /\ call'[c].kind = "submit" /\ call'[c].door = "rest"
      <4>1. /\ st.pc = "done" /\ st.answer = outcome
            /\ st.kind = call[c].kind /\ st.door = call[c].door
        BY <1>1, <2>2 DEF CallState
      <4> QED BY <1>3, <1>5, <1>7, <4>1
    <3> QED BY <1>4, <1>7, <3>1
            DEF Read, Is, LocalInv, BeforeInv, AfterInv, DoneInv, NoRows
  <2>3. CASE st = [call[c] EXCEPT !.pc = "middleware", !.outcome = outcome]
    <3>1. /\ call'[c].pc = "middleware" /\ call'[c].outcome = outcome
          /\ call'[c].kind = "submit" /\ call'[c].door = "mcp"
          /\ call'[c].answer = "none"
      <4>1. /\ st.pc = "middleware" /\ st.outcome = outcome /\ st.answer = call[c].answer
            /\ st.kind = call[c].kind /\ st.door = call[c].door
        BY <1>1, <2>3 DEF CallState
      <4> QED BY <1>1, <1>3, <1>5, <1>7, <2>1, <4>1 DEF CallState, Doors
    <3> QED BY <1>4, <1>7, <3>1
            DEF Read, Is, LocalInv, BeforeInv, AfterInv, DoneInv, NoRows
  <2> QED BY <2>2, <2>3, <1>5
<1> QED BY <1>4, <1>5, <1>6, <1>8, OneMoves DEF Submit

(* A call that is answered: only the row it ends with matters.             *)
EndsWell(c, answer, hurt, row) ==
  \/ /\ row = <<>> /\ answer # "data"
     /\ Read(c, "rest") => ~call[c].reached
     /\ \/ hurt
        \/ call[c].door = "rest" /\ call[c].kind = "submit"
        \/ call[c].kind = "query" /\ ~call[c].reached
  \/ answer = "data" /\ row \in {<<"succeeded">>, <<"pending">>, <<"evaluated">>}
  \/ answer # "data" /\ row = <<"failed">>
  \/ hurt /\ \E s \in Status : row = <<s>>

LEMMA CallEnds ==
  ASSUME IInv, NEW c \in Calls, NEW answer \in {"none", "data", "error"},
         NEW hurt \in BOOLEAN, NEW row \in Seq(Status),
         call' = [call EXCEPT ![c] = [call[c] EXCEPT !.pc = "done", !.answer = answer,
                                                     !.hurt = hurt]],
         rows' = [rows EXCEPT ![c] = row], gone' = gone,
         EndsWell(c, answer, hurt, row)
  PROVE  IInv'
<1> DEFINE st == [call[c] EXCEPT !.pc = "done", !.answer = answer, !.hurt = hurt]
<1>1. call[c] \in CallState
  BY DEF IInv, TypeOK
<1>2. /\ st \in CallState /\ st.pc = "done" /\ st.answer = answer /\ st.hurt = hurt
      /\ st.door = call[c].door /\ st.kind = call[c].kind /\ st.reached = call[c].reached
  BY <1>1 DEF CallState, Pcs
<1>3. call'[c] = st /\ rows'[c] = row
  BY DEF IInv, TypeOK
<1> HIDE DEF st
<1>4. LocalInv(c)'
  BY <1>2, <1>3
     DEF EndsWell, Read, Is, LocalInv, BeforeInv, AfterInv, DoneInv, NoRows
<1> QED BY <1>2, <1>4, OneMoves DEF st

(* A call that gets its answer.                                            *)
LEMMA AnswerEnds ==
  ASSUME IInv, NEW c \in Calls, NEW answer \in {"none", "data", "error"},
         NEW row \in Seq(Status), rows' = [rows EXCEPT ![c] = row], gone' = gone,
         Answer(c, answer), EndsWell(c, answer, call[c].hurt, row)
  PROVE  IInv'
<1>1. call[c] \in CallState /\ call[c].hurt \in BOOLEAN
  BY DEF IInv, TypeOK, CallState
<1>2. [call[c] EXCEPT !.pc = "done", !.answer = answer]
        = [call[c] EXCEPT !.pc = "done", !.answer = answer, !.hurt = call[c].hurt]
  BY <1>1 DEF CallState
<1>3. call' = [call EXCEPT ![c] = [call[c] EXCEPT !.pc = "done", !.answer = answer]]
  BY DEF Answer
<1>4. call' = [call EXCEPT ![c] = [call[c] EXCEPT !.pc = "done", !.answer = answer,
                                                  !.hurt = call[c].hurt]]
  BY <1>2, <1>3, Zenon
<1> QED BY <1>1, <1>4, CallEnds

(* Without its row it is an error; that is how it ends well.               *)
LEMMA UnrecordedEnds ==
  ASSUME IInv, NEW c \in Calls, NoRows(c), ~Read(c, "rest") \/ ~call[c].reached,
         AnswerUnrecorded(c), UNCHANGED <<rows, gone>>
  PROVE  IInv'
<1>1. call' = [call EXCEPT ![c] = [call[c] EXCEPT !.pc = "done", !.answer = "error",
                                                  !.hurt = TRUE]]
  BY DEF AnswerUnrecorded
<1>2. rows' = [rows EXCEPT ![c] = <<>>]
  BY DEF NoRows, IInv, TypeOK
<1>3. EndsWell(c, "error", TRUE, <<>>)
  BY DEF EndsWell
<1>4. <<>> \in Seq(Status)
  OBVIOUS
<1> QED BY <1>1, <1>2, <1>3, <1>4, CallEnds

(* QuerySQL records the query, or takes the data back.                     *)
LEMMA RecordQueryInv == ASSUME IInv, NEW c \in Calls, RecordQuery(c) PROVE IInv'
<1> DEFINE outcome == call[c].outcome
           row     == <<StatusOf(outcome)>>
<1>1. call[c] \in CallState /\ rows[c] \in Seq(Status) /\ LocalInv(c)
  BY DEF IInv, TypeOK, CallInv
<1>2. /\ NoRows(c) /\ call[c].kind = "query" /\ outcome \in {"data", "error"}
      /\ call[c].answer = "none" /\ call[c].pc = "record"
  BY <1>1 DEF RecordQuery, At, LocalInv, AfterInv
<1>3. /\ row \in Seq(Status) /\ Append(<<>>, StatusOf(outcome)) = row
      /\ StatusOf(outcome) = IF outcome = "data" THEN "succeeded" ELSE "failed"
  BY OneRow DEF StatusOf, Status
<1>4. CASE Append1(c, StatusOf(outcome)) /\ Answer(c, outcome)
  <2>1. rows' = [rows EXCEPT ![c] = row]
    BY <1>2, <1>3, <1>4 DEF Append1, NoRows
  <2>2. EndsWell(c, outcome, call[c].hurt, row)
    BY <1>2, <1>3 DEF EndsWell
  <2> QED BY <1>2, <1>3, <1>4, <2>1, <2>2, AnswerEnds DEF RecordQuery
<1>5. CASE UNCHANGED rows /\ AnswerUnrecorded(c)
  <2>1. ~Read(c, "rest")
    BY <1>2 DEF Read, Is
  <2> QED BY <1>2, <1>5, <2>1, UnrecordedEnds DEF RecordQuery
<1>6. CASE /\ Append1(c, StatusOf(outcome)) /\ call[c].door # "rest"
           /\ Goto(c, "middleware")
  <2> DEFINE st == [call[c] EXCEPT !.pc = "middleware"]
  <2>1. /\ rows' = [rows EXCEPT ![c] = row] /\ call' = [call EXCEPT ![c] = st]
    BY <1>2, <1>3, <1>6 DEF Append1, NoRows, Goto
  <2>2. /\ st \in CallState /\ st.pc = "middleware" /\ st.outcome = outcome
        /\ st.kind = "query" /\ st.door = "mcp" /\ st.answer = "none"
    BY <1>1, <1>2, <1>6 DEF CallState, Pcs, Doors
  <2>3. call'[c] = st /\ rows'[c] = row
    BY <2>1 DEF IInv, TypeOK
  <2> HIDE DEF st
  <2>4. LocalInv(c)'
    BY <1>2, <2>2, <2>3
       DEF Read, Is, LocalInv, BeforeInv, AfterInv, DoneInv, NoRows
  <2> QED BY <1>3, <2>1, <2>2, <2>4, OneMoves DEF RecordQuery
<1>7. CASE /\ UNCHANGED rows /\ call[c].door # "rest"
           /\ call' = [call EXCEPT ![c].pc = "middleware", ![c].outcome = "error",
                                   ![c].hurt = TRUE]
  <2> DEFINE st == [call[c] EXCEPT !.pc = "middleware", !.outcome = "error", !.hurt = TRUE]
  <2>1. /\ rows' = [rows EXCEPT ![c] = rows[c]] /\ call' = [call EXCEPT ![c] = st]
    BY <1>7 DEF IInv, TypeOK
  <2>2. /\ st \in CallState /\ st.pc = "middleware" /\ st.outcome = "error"
        /\ st.kind = "query" /\ st.door = "mcp" /\ st.answer = "none" /\ st.hurt = TRUE
    BY <1>1, <1>2, <1>7 DEF CallState, Pcs, Doors
  <2>3. call'[c] = st /\ rows'[c] = <<>>
    BY <1>2, <2>1 DEF IInv, TypeOK, NoRows
  <2> HIDE DEF st
  <2>4. LocalInv(c)'
    BY <1>2, <2>2, <2>3
       DEF Read, Is, LocalInv, BeforeInv, AfterInv, DoneInv, NoRows
  <2> QED BY <1>1, <2>1, <2>2, <2>4, OneMoves DEF RecordQuery
<1> QED BY <1>4, <1>5, <1>6, <1>7 DEF RecordQuery

(* The middleware records what nobody has recorded.                        *)
LEMMA McpAuditInv == ASSUME IInv, NEW c \in Calls, McpAudit(c) PROVE IInv'
<1> DEFINE outcome == call[c].outcome
           row     == <<StatusOf(outcome)>>
<1>1. call[c] \in CallState /\ rows[c] \in Seq(Status) /\ LocalInv(c)
  BY DEF IInv, TypeOK, CallInv
<1>2. /\ AfterInv(c) /\ call[c].pc = "middleware" /\ call[c].door = "mcp"
      /\ outcome \in {"data", "error"} /\ call[c].kind \in Kinds /\ ~Read(c, "rest")
  BY <1>1 DEF McpAudit, At, LocalInv, AfterInv, CallState, Read, Is
<1>3. /\ row \in Seq(Status) /\ Append(<<>>, StatusOf(outcome)) = row
      /\ StatusOf(outcome) = IF outcome = "data" THEN "succeeded" ELSE "failed"
  BY OneRow DEF StatusOf, Status
<1>4. CASE RecordedBelow(c)
  <2>1. rows' = [rows EXCEPT ![c] = rows[c]] /\ Answer(c, outcome)
    BY <1>4 DEF McpAudit, IInv, TypeOK
  <2>2. EndsWell(c, outcome, call[c].hurt, rows[c])
    BY <1>2, <1>3, <1>4 DEF RecordedBelow, EndsWell, AfterInv, NoRows
  <2> QED BY <1>1, <1>2, <2>1, <2>2, AnswerEnds DEF McpAudit
<1>5. CASE ~RecordedBelow(c)
  <2>1. NoRows(c)
    BY <1>2, <1>5 DEF RecordedBelow, AfterInv, Kinds
  <2>2. CASE Append1(c, StatusOf(outcome)) /\ Answer(c, outcome)
    <3>1. rows' = [rows EXCEPT ![c] = row]
      BY <1>3, <2>1, <2>2 DEF Append1, NoRows
    <3>2. EndsWell(c, outcome, call[c].hurt, row)
      BY <1>2, <1>3 DEF EndsWell
    <3> QED BY <1>2, <1>3, <2>2, <3>1, <3>2, AnswerEnds DEF McpAudit
  <2>3. CASE AnswerUnrecorded(c) /\ UNCHANGED rows
    BY <1>2, <2>1, <2>3, UnrecordedEnds DEF McpAudit
  <2> QED BY <1>5, <2>2, <2>3 DEF McpAudit
<1> QED BY <1>4, <1>5

(* The row of a REST read is completed after the answer.                   *)
LEMMA CompleteInv == ASSUME IInv, NEW c \in Calls, Complete(c) PROVE IInv'
<1> DEFINE outcome == call[c].outcome
           row     == <<StatusOf(outcome)>>
<1>1. call[c] \in CallState /\ rows[c] \in Seq(Status) /\ LocalInv(c)
  BY DEF IInv, TypeOK, CallInv
<1>2. /\ rows[c] = <<"executing">> /\ call[c].answer = outcome
      /\ outcome \in {"data", "error"} /\ call[c].hurt \in BOOLEAN
  BY <1>1 DEF Complete, At, LocalInv, AfterInv, CallState
<1>3. /\ row \in Seq(Status)
      /\ StatusOf(outcome) = IF outcome = "data" THEN "succeeded" ELSE "failed"
  BY OneRow DEF StatusOf, Status
<1>4. CASE rows' = [rows EXCEPT ![c] = row] /\ Goto(c, "done")
  <2>1. [call[c] EXCEPT !.pc = "done"] =
          [call[c] EXCEPT !.pc = "done", !.answer = outcome, !.hurt = call[c].hurt]
    BY <1>1, <1>2 DEF CallState
  <2>2. call' = [call EXCEPT ![c] = [call[c] EXCEPT !.pc = "done", !.answer = outcome,
                                                    !.hurt = call[c].hurt]]
    BY <1>4, <2>1 DEF Goto
  <2>3. EndsWell(c, outcome, call[c].hurt, row)
    BY <1>2, <1>3 DEF EndsWell
  <2> QED BY <1>2, <1>3, <1>4, <2>2, <2>3, CallEnds DEF Complete
<1>5. CASE UNCHANGED rows /\ call' = [call EXCEPT ![c].pc = "done", ![c].hurt = TRUE]
  <2>1. [call[c] EXCEPT !.pc = "done", !.hurt = TRUE] =
          [call[c] EXCEPT !.pc = "done", !.answer = outcome, !.hurt = TRUE]
    BY <1>1, <1>2 DEF CallState
  <2>2. call' = [call EXCEPT ![c] = [call[c] EXCEPT !.pc = "done", !.answer = outcome,
                                                    !.hurt = TRUE]]
    BY <1>5, <2>1
  <2>3. EndsWell(c, outcome, TRUE, rows[c])
    BY <1>2 DEF EndsWell, Status
  <2>4. rows' = [rows EXCEPT ![c] = rows[c]]
    BY <1>5 DEF IInv, TypeOK
  <2> QED BY <1>1, <1>2, <2>2, <2>3, <2>4, CallEnds DEF Complete
<1> QED BY <1>4, <1>5 DEF Complete

(* What every call has left behind, wherever it is: one row at most; and   *)
(* without a row, neither data nor, of a REST read, a question to the      *)
(* remote system.                                                          *)
LEMMA Traces ==
  ASSUME IInv, NEW c \in Calls
  PROVE  /\ NoRows(c) \/ \E s \in Status : rows[c] = <<s>>
         /\ NoRows(c) => call[c].answer # "data"
         /\ NoRows(c) /\ Read(c, "rest") => ~call[c].reached
<1>1. call[c] \in CallState /\ LocalInv(c)
  BY DEF IInv, TypeOK, CallInv
<1>2. \A s \in Status : <<s>> # <<>>
  BY OneRow
<1>3. CASE call[c].pc \in {"new", "decode", "announce"}
  BY <1>1, <1>3 DEF LocalInv, BeforeInv, NoRows
<1>4. CASE call[c].pc = "handle"
  BY <1>1, <1>4 DEF LocalInv, BeforeInv, NoRows, Status
<1>5. CASE call[c].pc = "record"
  BY <1>1, <1>5 DEF LocalInv, AfterInv, NoRows, Read, Is
<1>6. CASE call[c].pc = "middleware"
  <2>1. call[c].kind \in {"read", "query", "submit"}
    BY <1>1 DEF CallState, Kinds
  <2>2. StatusOf(call[c].outcome) \in Status
    BY DEF StatusOf, Status
  <2> QED BY <1>1, <1>6, <2>1, <2>2 DEF LocalInv, AfterInv, NoRows, Read, Is, Status
<1>7. CASE call[c].pc = "complete"
  <2>1. "executing" \in Status /\ rows[c] = <<"executing">>
    BY <1>1, <1>7 DEF LocalInv, AfterInv, Status
  <2> QED BY <1>2, <2>1 DEF NoRows
<1>8. CASE call[c].pc = "done"
  BY <1>1, <1>2, <1>8 DEF LocalInv, DoneInv, NoRows, Status
<1> QED BY <1>1, <1>3, <1>4, <1>5, <1>6, <1>7, <1>8 DEF CallState, Pcs

(* A crash ends every call that is under way, wherever it is.              *)
LEMMA CrashInv == ASSUME IInv, Crash PROVE IInv'
<1>1. ASSUME NEW c \in Calls
      PROVE  call'[c] \in CallState /\ rows'[c] = rows[c] /\ LocalInv(c)'
  <2>1. call[c] \in CallState /\ rows[c] \in Seq(Status) /\ LocalInv(c) /\ rows'[c] = rows[c]
    BY DEF IInv, TypeOK, CallInv, Crash
  <2>2. CASE call[c].pc \in {"new", "done"}
    <3>1. call'[c] = call[c]
      BY <2>2 DEF Crash
    <3> QED BY <2>1, <3>1
            DEF LocalInv, BeforeInv, AfterInv, DoneInv, NoRows, Read, Is
  <2>3. CASE call[c].pc \notin {"new", "done"}
    <3> DEFINE st == [call[c] EXCEPT !.pc = "done", !.hurt = TRUE]
    <3>1. call'[c] = st
      BY <2>3 DEF Crash
    <3>2. /\ st \in CallState /\ st.pc = "done" /\ st.hurt = TRUE
          /\ st.door = call[c].door /\ st.kind = call[c].kind
          /\ st.answer = call[c].answer /\ st.reached = call[c].reached
      BY <2>1 DEF CallState, Pcs
    <3> HIDE DEF st
    <3>3. /\ NoRows(c) \/ \E s \in Status : rows[c] = <<s>>
          /\ NoRows(c) => call[c].answer # "data"
          /\ NoRows(c) /\ Read(c, "rest") => ~call[c].reached
      BY Traces
    <3> QED BY <2>1, <3>1, <3>2, <3>3
            DEF LocalInv, BeforeInv, AfterInv, DoneInv, NoRows, Read, Is
  <2> QED BY <2>2, <2>3
<1>2. TypeOK'
  BY <1>1 DEF IInv, TypeOK, Crash
<1> QED BY <1>1, <1>2 DEF IInv, CallInv

(* So every step keeps it.                                                 *)
LEMMA Inductive == IInv /\ [Next]_vars => IInv'
<1> SUFFICES ASSUME IInv, [Next]_vars PROVE IInv'
  OBVIOUS
<1>1. CASE \E c \in Calls : Begin(c) \/ Handle(c) \/ Submit(c) \/ Around(c)
  BY <1>1, BeginInv, HandleInv, SubmitInv, DecodeInv, AnnounceInv, RecordQueryInv,
     McpAuditInv, CompleteInv DEF Around
<1>2. CASE Crash
  BY <1>2, CrashInv
<1>3. CASE (\E c \in Calls : Leave(c)) \/ UNCHANGED vars
  <2>1. call' = call /\ rows' = rows /\ gone' \subseteq Calls
    BY <1>3 DEF Leave, vars, IInv, TypeOK
  <2> QED BY <2>1
          DEF IInv, TypeOK, CallInv, LocalInv, BeforeInv, AfterInv, DoneInv, NoRows, Read, Is
<1> QED BY <1>1, <1>2, <1>3 DEF Next, AllAnswered

(* And it holds at first.                                                  *)
LEMMA AtFirst == Init => IInv
<1> SUFFICES ASSUME Init PROVE IInv
  OBVIOUS
<1>1. PICK door \in [Calls -> Doors], kind \in [Calls -> Kinds] :
        call = [c \in Calls |-> [pc |-> "new", door |-> door[c], kind |-> kind[c],
                  outcome |-> "none", answer |-> "none", reached |-> FALSE, hurt |-> FALSE]]
  BY DEF Init
<1>2. rows = [c \in Calls |-> <<>>] /\ gone = {} /\ <<>> \in Seq(Status)
  BY DEF Init
<1>3. TypeOK
  BY <1>1, <1>2 DEF TypeOK, CallState, Pcs
<1>4. \A c \in Calls : LocalInv(c)
  BY <1>1, <1>2 DEF LocalInv, BeforeInv, AfterInv, DoneInv, NoRows
<1> QED BY <1>3, <1>4 DEF IInv, CallInv

(* The invariant holds in every state.                                     *)
LEMMA CallsInvariant == Spec => []IInv
BY AtFirst, Inductive, PTL DEF Spec

-----------------------------------------------------------------------------
(* Data is never handed out without a row that says so, whatever fails.    *)
THEOREM NoUnrecordedDataThm == Spec => []NoUnrecordedData
<1>1. IInv => NoUnrecordedData
  BY Traces DEF NoUnrecordedData, NoRows
<1> QED BY <1>1, CallsInvariant, PTL

(* Although two layers record calls, a call has one row at most.           *)
THEOREM RecordedOnceThm == Spec => []RecordedOnce
<1>1. Len(<<>>) = 0 /\ \A s \in Status : Len(<<s>>) = 1
  OBVIOUS
<1>2. ASSUME IInv, NEW c \in Calls PROVE Len(rows[c]) <= 1
  <2>1. CASE NoRows(c)
    BY <1>1, <2>1 DEF NoRows
  <2>2. CASE \E s \in Status : rows[c] = <<s>>
    BY <1>1, <2>2
  <2> QED BY <1>2, <2>1, <2>2, Traces
<1>3. IInv => RecordedOnce
  BY <1>2 DEF RecordedOnce
<1> QED BY <1>3, CallsInvariant, PTL

(* The row and the answer tell the same story, unless a write of the row   *)
(* failed or the process died.                                             *)
THEOREM RowTellsAnswerThm == Spec => []RowTellsAnswer
<1>1. \A s \in Status : Head(<<s>>) = s
  OBVIOUS
<1>2. ASSUME IInv, NEW c \in Calls, At(c, "done"), ~call[c].hurt, rows[c] # <<>>
      PROVE  call[c].answer = "data" <=> Head(rows[c]) \in {"succeeded", "pending", "evaluated"}
  <2>1. \/ call[c].answer = "data"
           /\ rows[c] \in {<<"succeeded">>, <<"pending">>, <<"evaluated">>}
        \/ call[c].answer # "data" /\ rows[c] = <<"failed">>
    BY <1>2 DEF IInv, CallInv, LocalInv, DoneInv, NoRows, At
  <2> QED BY <1>1, <2>1 DEF Status
<1>3. IInv => RowTellsAnswer
  BY <1>2 DEF RowTellsAnswer
<1> QED BY <1>3, CallsInvariant, PTL

(* A REST read asks the remote system only with its row on disk, so that   *)
(* no crash loses the trace of what was read.                              *)
THEOREM AskedOnRecordThm == Spec => []AskedOnRecord
<1>1. IInv => AskedOnRecord
  BY Traces DEF AskedOnRecord, NoRows
<1> QED BY <1>1, CallsInvariant, PTL

(* Every answered tool call and REST read has a row, failed ones too, and  *)
(* every query that reached a database.                                    *)
THEOREM AnsweredIsRecordedThm == Spec => []AnsweredIsRecorded
<1>1. IInv => AnsweredIsRecorded
  <2> SUFFICES ASSUME IInv, NEW c \in Calls, At(c, "done"), ~call[c].hurt, NoRows(c)
               PROVE  ~ \/ call[c].door = "mcp" /\ call[c].kind # "query"
                        \/ Read(c, "rest")
                        \/ call[c].kind = "query" /\ call[c].reached
    BY DEF AnsweredIsRecorded, NoRows
  <2>1. \A s \in Status : <<s>> # <<>>
    BY OneRow
  <2>2. \/ call[c].door = "rest" /\ call[c].kind = "submit"
        \/ call[c].kind = "query" /\ ~call[c].reached
    BY <2>1 DEF IInv, CallInv, LocalInv, DoneInv, NoRows, At, Status
  <2> QED BY <2>2 DEF Read, Is
<1> QED BY <1>1, CallsInvariant, PTL
=============================================================================
