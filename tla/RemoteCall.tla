------------------------------ MODULE RemoteCall ------------------------------
(***************************************************************************)
(* One call of a remote system and what comes back of it: a command on a   *)
(* host (Client.run of linux/client.go), a query (Adapter.Query of         *)
(* database/database.go), the log or a file of a pod (Logs, DownloadFile   *)
(* of kubernetes/client.go).  The remote end writes its output unit by     *)
(* unit and may stop at any moment; the connection may be cut, by the      *)
(* network or because another request had the client removed; the time of  *)
(* the call may be over, or its caller gone.                               *)
(*                                                                         *)
(* A unit stands for a byte of a command, log or file and for a row of a   *)
(* query; Limit for the most of it the gateway accepts.  The SSH, SQL and  *)
(* Kubernetes libraries are external: a Read returns what has arrived and  *)
(* then the end of the stream, which says nothing of why it ended;         *)
(* Session.Wait and Rows.Err tell the reason, as does the body of a log.   *)
(* StreamWithContext tells how the command in the pod ended, but not that  *)
(* the connection was cut, nor that the buffer it copies into refused a    *)
(* chunk: client-go logs that error, drains the stream and returns nil.    *)
(***************************************************************************)
EXTENDS Naturals

CONSTANTS
  Limit,    \* units accepted: 1 to 4 MiB, 1000 rows or 16 MiB, 16 MiB
  MaxSize   \* bound on what the remote end writes

ASSUME SizesTyped == Limit \in Nat \ {0} /\ MaxSize \in Nat

Kinds == {"command", "query", "log", "file"}

VARIABLES
  kind,    \* which call
  pc,      \* where the caller is
  outcome, \* what it returned
  timeUp,  \* the context is done: time limit, or the caller has gone
  link,    \* the connection
  remote,  \* the remote end: [state, size, wrote, ok]
  got,     \* units read so far
  reader,  \* the goroutine of a command that reads its output
  done,    \* the channel it answers on: what is in it
  spilled  \* a chunk of a file was over the limit: the rest is thrown away

vars == <<kind, pc, outcome, timeUp, link, remote, got, reader, done, spilled>>

Outcomes == {"none", "data", "error", "too long"}

TypeOK ==
  /\ kind \in Kinds
  /\ pc \in {"session", "start", "select", "collect", "returned"}
  /\ outcome \in Outcomes /\ done \in Outcomes
  /\ timeUp \in BOOLEAN /\ spilled \in BOOLEAN
  /\ link \in {"up", "cut"}
  /\ remote \in [state : {"asked", "running", "ended"}, size : 0..MaxSize,
                 wrote : 0..MaxSize, ok : BOOLEAN]
  /\ got \in 0..(Limit + 1)
  /\ reader \in {"none", "reading", "wait", "send", "ended"}

Init ==
  /\ kind \in Kinds
  /\ pc = IF kind = "command" THEN "session" ELSE "collect"
  /\ outcome = "none" /\ timeUp = FALSE /\ link = "up"
  /\ \E n \in 0..MaxSize :
       remote = [state |-> "asked", size |-> n, wrote |-> 0, ok |-> TRUE]
  /\ got = 0 /\ reader = "none" /\ done = "none" /\ spilled = FALSE

-----------------------------------------------------------------------------
(* The remote end accepts the call, writes, and ends: with everything      *)
(* written and success, or early or with a failure (exit status, SQL       *)
(* error, text on the error stream of a pod).                              *)
RemoteStart ==
  /\ link = "up" /\ remote.state = "asked" /\ kind # "command"
  /\ remote' = [remote EXCEPT !.state = "running"]
  /\ UNCHANGED <<kind, pc, outcome, timeUp, link, got, reader, done, spilled>>

RemoteWrite ==
  /\ link = "up" /\ remote.state = "running" /\ remote.wrote < remote.size
  /\ remote' = [remote EXCEPT !.wrote = @ + 1]
  /\ UNCHANGED <<kind, pc, outcome, timeUp, link, got, reader, done, spilled>>

RemoteEnd ==
  /\ link = "up" /\ remote.state \in {"asked", "running"}
  /\ pc # "session"
  /\ \E ok \in BOOLEAN :
       /\ ok => remote.state = "running" /\ remote.wrote = remote.size
       /\ remote' = [remote EXCEPT !.state = "ended", !.ok = ok]
  /\ UNCHANGED <<kind, pc, outcome, timeUp, link, got, reader, done, spilled>>

Cut ==
  /\ link = "up"
  /\ link' = "cut"
  /\ UNCHANGED <<kind, pc, outcome, timeUp, remote, got, reader, done, spilled>>

TimeUp ==
  /\ ~timeUp /\ pc # "returned"
  /\ timeUp' = TRUE
  /\ UNCHANGED <<kind, pc, outcome, link, remote, got, reader, done, spilled>>

(* The stream of the output has come to its end, for whatever reason.      *)
StreamEnded == (got = remote.wrote \/ spilled) /\ (remote.state = "ended" \/ link = "cut")

EndedWell == remote.state = "ended" /\ remote.ok
(* A file whose connection was cut: its streams and the error stream read  *)
(* as ended, and an empty error stream is success.                         *)
CutUnseen == kind = "file" /\ link = "cut" /\ remote.state # "asked"

Return(result) == pc' = "returned" /\ outcome' = result

-----------------------------------------------------------------------------
(* client.go:128: NewSession and Start wait for the answer of the host,    *)
(* and for nothing else: the context is not looked at, and the deadline of *)
(* the connection was lifted after the handshake.                          *)
NewSession ==
  /\ kind = "command" /\ pc = "session"
  /\ \/ link = "up" /\ pc' = "start" /\ UNCHANGED outcome
     \/ Return("error")
  /\ UNCHANGED <<kind, timeUp, link, remote, got, reader, done, spilled>>

Start ==
  /\ kind = "command" /\ pc = "start"
  /\ \/ /\ link = "up" /\ remote.state = "asked"
        /\ remote' = [remote EXCEPT !.state = "running"]
        /\ pc' = "select" /\ reader' = "reading"
        /\ UNCHANGED outcome
     \/ /\ link = "cut" \/ remote.state = "ended"
        /\ Return("error")
        /\ UNCHANGED <<remote, reader>>
  /\ UNCHANGED <<kind, timeUp, link, got, done, spilled>>

(* The reader goroutine: io.ReadAll of at most limit+1 bytes.  With one    *)
(* byte more than allowed it closes the session and has an error to send.  *)
ReadUnit ==
  /\ reader = "reading" /\ got < remote.wrote
  /\ got' = got + 1
  /\ IF got + 1 > Limit THEN reader' = "send" ELSE UNCHANGED reader
  /\ UNCHANGED <<kind, pc, outcome, timeUp, link, remote, done, spilled>>

(* The stream ends; sess.Wait then returns once the exit status is there,  *)
(* or an error once the connection is gone.                                *)
ReadEnd ==
  /\ reader = "reading" /\ StreamEnded
  /\ reader' = "wait"
  /\ UNCHANGED <<kind, pc, outcome, timeUp, link, remote, got, done, spilled>>

Wait ==
  /\ reader = "wait"
  /\ remote.state = "ended" \/ link = "cut"
  /\ reader' = "send"
  /\ UNCHANGED <<kind, pc, outcome, timeUp, link, remote, got, done, spilled>>

(* A bug: the end of the stream is taken for the end of the command.       *)
ReadResultUnwaited == IF got > Limit THEN "too long" ELSE "data"

ReadResult == IF got > Limit THEN "too long" ELSE IF EndedWell THEN "data" ELSE "error"

(* A bug: the channel has no buffer, so somebody must be there to receive. *)
SendUnbuffered ==
  /\ reader = "send" /\ pc = "select"
  /\ reader' = "ended" /\ done' = ReadResult
  /\ UNCHANGED <<kind, pc, outcome, timeUp, link, remote, got, spilled>>

(* done has room for one result: the reader never waits for the caller.    *)
Send ==
  /\ reader = "send"
  /\ reader' = "ended" /\ done' = ReadResult
  /\ UNCHANGED <<kind, pc, outcome, timeUp, link, remote, got, spilled>>

SelectDone ==
  /\ pc = "select" /\ done # "none"
  /\ Return(done)
  /\ UNCHANGED <<kind, timeUp, link, remote, got, reader, done, spilled>>

(* The time is over: the session is closed, whatever the reader does.      *)
SelectTimeout ==
  /\ pc = "select" /\ timeUp
  /\ Return("error")
  /\ UNCHANGED <<kind, timeUp, link, remote, got, reader, done, spilled>>

-----------------------------------------------------------------------------
(* Adapter.Query, row by row, and the log of a pod, of which no more than  *)
(* the limit is read and no one asks whether there was more.               *)
Full       == kind = "log" /\ got = Limit
Collecting == pc = "collect" /\ ~Full

(* A bug: one unit too few is accepted.                                    *)
OverLimitEarly(n) == n >= Limit

OverLimit(n) == n > Limit

CollectUnit ==
  /\ Collecting /\ kind # "file" /\ got < remote.wrote
  /\ IF OverLimit(got + 1) THEN Return("too long") /\ UNCHANGED got
                           ELSE got' = got + 1 /\ UNCHANGED <<pc, outcome>>
  /\ UNCHANGED <<kind, timeUp, link, remote, reader, done, spilled>>

(* The file of a pod: io.Copy writes what has arrived into a limitedBuffer,*)
(* chunk by chunk, until a Write fails; what follows is drained unread.    *)
CopyChunk ==
  /\ kind = "file" /\ pc = "collect" /\ ~spilled
  /\ \E n \in 1..(remote.wrote - got) :
       IF OverLimit(got + n) THEN spilled' = TRUE /\ UNCHANGED got
                             ELSE got' = got + n /\ UNCHANGED spilled
  /\ UNCHANGED <<kind, pc, outcome, timeUp, link, remote, reader, done>>

LogFull ==
  /\ pc = "collect" /\ Full
  /\ Return("data")
  /\ UNCHANGED <<kind, timeUp, link, remote, got, reader, done, spilled>>

CollectEnd ==
  /\ Collecting /\ StreamEnded
  /\ \/ (EndedWell \/ CutUnseen) /\ Return("data")
     \/ ~EndedWell /\ Return("error")
  /\ UNCHANGED <<kind, timeUp, link, remote, got, reader, done, spilled>>

CollectTimeout ==
  /\ Collecting /\ timeUp
  /\ Return("error")
  /\ UNCHANGED <<kind, timeUp, link, remote, got, reader, done, spilled>>

-----------------------------------------------------------------------------
Caller  == NewSession \/ Start \/ SelectDone \/ SelectTimeout
           \/ CollectUnit \/ CopyChunk \/ CollectEnd \/ CollectTimeout \/ LogFull
Reader  == ReadUnit \/ ReadEnd \/ Wait \/ Send
Outside == RemoteStart \/ RemoteWrite \/ RemoteEnd \/ Cut \/ TimeUp

Returned == pc = "returned" /\ reader \in {"none", "ended"} /\ UNCHANGED vars

Next == Caller \/ Reader \/ Outside \/ Returned

(* Goroutines go on when they can, and the clock runs for the calls that   *)
(* have a time limit: the stream of a pod's file has none, only a caller   *)
(* that may leave.  Nothing is assumed of the remote end and the network,  *)
(* not even that a host answers NewSession and Start.                      *)
GoOn == SelectDone \/ SelectTimeout
        \/ CollectUnit \/ CopyChunk \/ CollectEnd \/ CollectTimeout \/ LogFull
Limited == kind # "file"
Fairness == WF_vars(GoOn) /\ WF_vars(Reader) /\ WF_vars(TimeUp /\ Limited)

Spec == Init /\ [][Next]_vars /\ Fairness

-----------------------------------------------------------------------------
(* What a command or a query returns as data is everything the remote end  *)
(* wrote, and the remote end ended well: never the part that arrived       *)
(* before the connection was cut, the time was over or the limit was       *)
(* reached.  A log may be cut at its limit.  A file is whole unless it was *)
(* larger than the limit or its connection was cut: then a part of it is   *)
(* returned, and the answer does not say so.                               *)
DataIsWhole ==
  outcome = "data" =>
    \/ EndedWell /\ got = remote.size
    \/ kind = "log" /\ got = Limit
    \/ kind = "file" /\ (link = "cut" \/ (EndedWell /\ remote.size > Limit))

(* Output of exactly Limit is neither refused nor thrown away, more of it  *)
(* is never returned; and nobody is told that a file was too long.         *)
LimitIsExact ==
  /\ outcome = "too long" \/ spilled => remote.size > Limit
  /\ outcome = "too long" => kind # "file"
  /\ outcome = "data" => got <= Limit

(* A call whose work has begun returns, at the latest when its time is     *)
(* over, even if the remote end is never heard of again; and the goroutine *)
(* that reads for it ends with the remote end or the connection, even if   *)
(* nobody waits for its result any more.                                   *)
CallsEnd ==
  /\ (pc \in {"select", "collect"} /\ Limited) ~> pc = "returned"
  /\ (reader # "none" /\ (remote.state = "ended" \/ link = "cut")) ~> reader = "ended"
=============================================================================
