----------------------------- MODULE GuardedCall -----------------------------
(***************************************************************************)
(* A remote call and the policy in front of it.  QuerySQL asks before it   *)
(* queries, the services of the write operations before a statement or a   *)
(* restart is frozen and again before it runs; what is denied never        *)
(* becomes a call.  An action reaches a host as a command; one that        *)
(* reaches a cluster or database is a call of the same shape as a query.   *)
(***************************************************************************)
EXTENDS RemoteCall, PolicyCheck

guardedVars == <<vars, Asked>>

QuestionsFor(k) == CASE k = "query"   -> SQLQuestions \cup
                                          {q \in ActionQuestions : q.of # "linux"}
                     [] k = "command" -> {Unasked} \cup {q \in ActionQuestions : q.of = "linux"}
                     [] OTHER         -> {Unasked}

GuardedInit == Init /\ \E q \in QuestionsFor(kind) : Put(q)

Denied == answer.decision = "deny"

Refuse ==
  /\ Denied /\ pc # "returned"
  /\ Return("error")
  /\ UNCHANGED <<kind, timeUp, link, remote, got, reader, done, spilled, Asked>>

Call == ~Denied /\ Next /\ UNCHANGED Asked

Refused == Denied /\ pc = "returned" /\ UNCHANGED guardedVars

GuardedNext == Refuse \/ Call \/ Refused

GuardedSpec == GuardedInit /\ [][GuardedNext]_guardedVars
                /\ Fairness /\ WF_guardedVars(Refuse)
=============================================================================
