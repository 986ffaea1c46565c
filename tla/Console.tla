------------------------------- MODULE Console -------------------------------
(***************************************************************************)
(* The page of one operation of the Web console (OperationDetail.tsx) and  *)
(* the two handlers it talks to: the detail is read with a GET; its button *)
(* sends a POST and, after it, another GET.  Answers arrive in any order;  *)
(* the effect of the page aborts the request it started before, and an     *)
(* unmounted page ignores what still arrives.  AuditList is the list.      *)
(*                                                                         *)
(* The server keeps the promise of OperationLifecycle: other people        *)
(* confirm through it too, and operations expire.  A frozen statement is   *)
(* there as long as its operation is unfinished (FrozenWhileUnfinished of  *)
(* OperationSafety).  The handler of the detail reads twice: the operation *)
(* and then, if it was pending, the frozen row (server/audit.go:64).       *)
(***************************************************************************)
CONSTANTS
  Ids,      \* operations
  Posts,    \* confirmations the browser may have under way
  None      \* nothing selected, nothing shown

VARIABLES
  status, confirmed, ran,  \* the server
  selected,  \* the operation of the URL, or None for the list
  op,        \* OperationDetail: the operation shown, or None
  busy,      \* OperationDetail: a confirmation is under way
  read,      \* OperationDetail: the request of its effect
  posts,     \* confirmations, those of unmounted pages too
  reviewed   \* history: operations shown pending, with their statement

server  == <<status, confirmed, ran>>
detail  == <<selected, op, busy, read, posts, reviewed>>
vars    == <<server, detail>>

Server == INSTANCE OperationLifecycle

Final  == {"succeeded", "failed", "expired"}
Frozen(id) == status[id] \in {"pending", "executing"}

(* A request for the detail of an operation.  "half": the operation was    *)
(* read and is pending, the frozen row is read next.                       *)
Get(id)   == [at |-> "sent", id |-> id, reply |-> None]
NoGet     == [at |-> "none", id |-> None, reply |-> None]
NoPost    == [at |-> "free", id |-> None, live |-> FALSE, get |-> NoGet]

Error == [id |-> None, status |-> "error", statement |-> FALSE]
Detail(id, s, shown) == [id |-> id, status |-> s, statement |-> shown]

Init ==
  /\ status = [id \in Ids |-> "pending"]
  /\ confirmed = [id \in Ids |-> FALSE] /\ ran = [id \in Ids |-> FALSE]
  /\ selected = None /\ op = None /\ busy = FALSE /\ read = NoGet
  /\ posts = [p \in Posts |-> NoPost]
  /\ reviewed = {}

-----------------------------------------------------------------------------
(* A bug: a frozen row that is gone is taken for an empty statement.       *)
AnsweredAnyway(get) ==
  IF get.at = "sent" /\ status[get.id] = "pending"
    THEN [get EXCEPT !.at = "half"]
    ELSE [get EXCEPT !.at = "back",
            !.reply = IF get.at = "half" THEN Detail(get.id, "pending", Frozen(get.id))
                                         ELSE Detail(get.id, status[get.id], FALSE)]

(* One step of AuditHandler.get.                                           *)
Answered(get) ==
  IF get.at = "sent" /\ status[get.id] = "pending"
    THEN [get EXCEPT !.at = "half"]
    ELSE [get EXCEPT !.at = "back",
            !.reply = IF get.at = "sent" THEN Detail(get.id, status[get.id], FALSE)
                      ELSE IF Frozen(get.id) THEN Detail(get.id, "pending", TRUE) ELSE Error]
UnderWay(get) == get.at \in {"sent", "half"}

(* The server on its own: confirmations of others, runs, expiry.           *)
Elsewhere ==
  /\ \E id \in Ids : \/ Server!Confirm(id) \/ Server!Run(id)
                     \/ \E s \in Final : Server!Close(id, s)
  /\ UNCHANGED detail

ServeRead ==
  /\ UnderWay(read)
  /\ read' = Answered(read)
  /\ UNCHANGED <<server, selected, op, busy, posts, reviewed>>

(* ActionHandler.confirm: the claim, or 409.                               *)
ServeClaim(p) ==
  /\ posts[p].at = "sent"
  /\ \/ Server!Confirm(posts[p].id) /\ posts' = [posts EXCEPT ![p].at = "claimed"]
     \/ posts' = [posts EXCEPT ![p].at = "refused"] /\ UNCHANGED server
  /\ UNCHANGED <<selected, op, busy, read, reviewed>>

(* 200 once the operation is closed as succeeded, 409 otherwise.           *)
ServeConfirmed(p) ==
  /\ posts[p].at = "claimed" /\ status[posts[p].id] \in Final
  /\ posts' = [posts EXCEPT ![p].at =
                 IF status[posts[p].id] = "succeeded" THEN "accepted" ELSE "refused"]
  /\ UNCHANGED <<server, selected, op, busy, read, reviewed>>

ServeReread(p) ==
  /\ UnderWay(posts[p].get)
  /\ posts' = [posts EXCEPT ![p].get = Answered(@)]
  /\ UNCHANGED <<server, selected, op, busy, read, reviewed>>

(* The connection of a browser breaks: a request fails there, wherever the *)
(* server is with it.                                                      *)
Break ==
  /\ \/ /\ read.at # "none"
        /\ read' = [read EXCEPT !.at = "back", !.reply = Error]
        /\ UNCHANGED posts
     \/ /\ \E p \in Posts : posts[p].at \in {"sent", "claimed", "accepted"}
             /\ posts' = [posts EXCEPT ![p].at = "refused"]
        /\ UNCHANGED read
     \/ /\ \E p \in Posts : UnderWay(posts[p].get)
             /\ posts' = [posts EXCEPT ![p].get = [@ EXCEPT !.at = "back", !.reply = Error]]
        /\ UNCHANGED read
  /\ UNCHANGED <<server, selected, op, busy, reviewed>>

-----------------------------------------------------------------------------
(* What the page shows; what somebody saw of a statement before clicking.  *)
Show(value) ==
  /\ op' = value
  /\ reviewed' = IF value # None /\ value.status = "pending" /\ value.statement
                   THEN reviewed \cup {value.id} ELSE reviewed

(* A link of the list or the history of the browser leads to id.  The page *)
(* has key={selected} (pages/Audit.tsx): it is a new one, empty.           *)
Open(id) ==
  /\ selected # id
  /\ selected' = id
  /\ op' = None /\ busy' = FALSE /\ read' = Get(id)
  /\ posts' = [p \in Posts |-> [posts[p] EXCEPT !.live = FALSE]]
  /\ UNCHANGED <<server, reviewed>>

Back ==
  /\ selected # None
  /\ selected' = None /\ op' = None /\ busy' = FALSE /\ read' = NoGet
  /\ posts' = [p \in Posts |-> [posts[p] EXCEPT !.live = FALSE]]
  /\ UNCHANGED <<server, reviewed>>

(* The effect runs again and aborts the request it started before.         *)
Refresh ==
  /\ selected # None
  /\ read' = Get(selected)
  /\ UNCHANGED <<server, selected, op, busy, posts, reviewed>>

ReadArrives ==
  /\ read.at = "back"
  /\ IF read.reply = Error THEN UNCHANGED <<op, reviewed>> ELSE Show(read.reply)
  /\ read' = NoGet
  /\ UNCHANGED <<server, selected, busy, posts>>

(* A bug: the page reads again while its confirmation is under way.        *)
ConfirmAndRead(p) ==
  /\ op # None /\ op.status = "pending" /\ ~busy
  /\ posts[p] = NoPost
  /\ posts' = [posts EXCEPT ![p] = [at |-> "sent", id |-> selected, live |-> TRUE,
                                    get |-> Get(selected)]]
  /\ busy' = TRUE
  /\ UNCHANGED <<server, selected, op, read, reviewed>>

(* The button (disabled while busy; an expired operation, by the clock of  *)
(* the browser, cannot be clicked either, which only removes behaviours).  *)
Confirm(p) ==
  /\ op # None /\ op.status = "pending" /\ ~busy
  /\ posts[p] = NoPost
  /\ posts' = [posts EXCEPT ![p] = [at |-> "sent", id |-> selected, live |-> TRUE,
                                    get |-> NoGet]]
  /\ busy' = TRUE
  /\ UNCHANGED <<server, selected, op, read, reviewed>>

(* The POST came back with 200: the state of the server is read again.     *)
Accepted(p) ==
  /\ posts[p].at = "accepted"
  /\ posts' = [posts EXCEPT ![p].at = "reading",
                            ![p].get = IF @ = NoGet THEN Get(posts[p].id) ELSE @]
  /\ UNCHANGED <<server, selected, op, busy, read, reviewed>>

(* The second answer is there, or either request failed: then the error is *)
(* shown and the detail fetched again.  An unmounted page does nothing.    *)
Settled(p) == posts[p].at = "reading" /\ posts[p].get.at = "back"
Ends(p) ==
  /\ Settled(p) \/ posts[p].at = "refused"
  /\ posts' = [posts EXCEPT ![p] = NoPost]
  /\ IF ~posts[p].live
       THEN UNCHANGED <<op, busy, read, reviewed>>
       ELSE /\ busy' = FALSE
            /\ IF Settled(p) /\ posts[p].get.reply # Error
                 THEN Show(posts[p].get.reply) /\ UNCHANGED read
                 ELSE op' = None /\ read' = Get(selected) /\ UNCHANGED reviewed
  /\ UNCHANGED <<server, selected>>

Next ==
  \/ Elsewhere \/ ServeRead \/ Break
  \/ \E p \in Posts : ServeClaim(p) \/ ServeConfirmed(p) \/ ServeReread(p)
  \/ \E id \in Ids : Open(id)
  \/ Back \/ Refresh \/ ReadArrives
  \/ \E p \in Posts : Confirm(p) \/ Accepted(p) \/ Ends(p)

Spec == Init /\ [][Next]_vars

-----------------------------------------------------------------------------
(* Somebody who clicks has seen what they confirm: a POST is only sent for *)
(* an operation that this browser has shown as pending together with its   *)
(* frozen statement ("a pending SQL shows the frozen text, its expiry and  *)
(* the button", .specs/frontend.md), however answers, navigation and other *)
(* people's confirmations are interleaved.                                 *)
ConfirmsWhatItShows == \A p \in Posts :
  posts[p].at # "free" => posts[p].id \in reviewed

(* "The true state is read after the confirmation" (.specs/frontend.md):   *)
(* when a confirmation succeeded and its page is still there, what it      *)
(* shows at that moment is the final state of the operation.               *)
TrueStateAfterwards == [][\A p \in Posts :
  posts[p].live /\ Settled(p) /\ posts'[p] = NoPost /\ op' # None
    => op'.id = selected /\ op'.status \in Final]_vars
=============================================================================
