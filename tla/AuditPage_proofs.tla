--------------------------- MODULE AuditPage_proofs ---------------------------
(***************************************************************************)
(* The Audit page: what the detail of an operation shows and confirms, for *)
(* any operations and any number of confirmations under way, and that a    *)
(* walk through the list misses no row, for any rows, clock readings, page *)
(* size and number of requests.                                            *)
(*                                                                         *)
(* The argument for the detail: an answer names the operation that was     *)
(* asked for, whatever arrives, and what was asked for is the operation of *)
(* the page (ReadInv, PostInv); a confirmation that was accepted reads an  *)
(* operation that is final and remains so (Rereads).                       *)
(*                                                                         *)
(* The argument for the list: rows are only added, so the number of rows   *)
(* before a row never falls (RanksGrow).  A row of the walk that was not   *)
(* on a page shown is behind all of them (WalkInv), and an answer on its   *)
(* way brings what its page holds of them (ReplyInv).                      *)
(***************************************************************************)
EXTENDS MCAudit, FiniteSetTheorems, SequenceTheorems, TLAPS

-----------------------------------------------------------------------------
(* The page of one operation.                                              *)
Statuses == {"pending", "executing"} \cup Final
Replies  == {None} \cup [id : Ids \cup {None}, status : Statuses \cup {"error"},
                         statement : BOOLEAN]
Gets     == [at : {"none", "sent", "half", "back"}, id : Ids \cup {None}, reply : Replies]
PostForms == [at : {"free", "sent", "claimed", "accepted", "refused", "reading"},
              id : Ids \cup {None}, live : BOOLEAN, get : Gets]

PageTypeOK ==
  /\ status \in [Ids -> Statuses]
  /\ confirmed \in [Ids -> BOOLEAN] /\ ran \in [Ids -> BOOLEAN]
  /\ selected \in Ids \cup {None} /\ op \in Replies /\ busy \in BOOLEAN
  /\ read \in Gets /\ posts \in [Posts -> PostForms]

(* What is shown is the operation of the URL; pending, it was reviewed.    *)
ShownInv ==
  op # None => /\ selected \in Ids /\ op.id = selected
               /\ op.status = "pending" => selected \in reviewed

(* A detail names the operation asked for, and comes with the statement if *)
(* it says pending.                                                        *)
Tells(get) == get.reply = Error \/
  (get.reply.id = get.id /\ (get.reply.status = "pending" => get.reply.statement))

ReadInv ==
  /\ read.at # "none" => read.id = selected /\ selected \in Ids
  /\ read.at = "back" => Tells(read)

(* Once a confirmation was accepted its operation is final, and so is what *)
(* the second request finds.                                               *)
Rereads(get) ==
  /\ get.at \in {"sent", "back"}
  /\ get.at = "back" =>
       get.reply = Error \/ (get.reply.id = get.id /\ get.reply.status \in Final)

PostInv(p) ==
  /\ posts[p].at # "free" => posts[p].id \in reviewed /\ posts[p].id \in Ids
  /\ posts[p].live => posts[p].at # "free" /\ posts[p].id = selected
  /\ posts[p].at # "reading" => posts[p].get = NoGet
  /\ posts[p].at = "reading" => posts[p].get.id = posts[p].id /\ Rereads(posts[p].get)
  /\ posts[p].at \in {"accepted", "reading"} => status[posts[p].id] \in Final

PostsInv == \A p \in Posts : PostInv(p)

DetailInv == PageTypeOK /\ ShownInv /\ ReadInv /\ PostsInv

-----------------------------------------------------------------------------
LEMMA FreshForms == ASSUME NEW id \in Ids
                    PROVE  /\ NoGet \in Gets /\ Get(id) \in Gets /\ NoPost \in PostForms
                           /\ Error \in Replies
BY DEF NoGet, Get, Gets, NoPost, PostForms, Replies, Error, Statuses

LEMMA DetailInit == Init => DetailInv
<1> SUFFICES ASSUME Init PROVE DetailInv
  OBVIOUS
<1>1. NoGet \in Gets /\ NoPost \in PostForms
  BY DEF NoGet, Gets, NoPost, PostForms, Replies
<1>2. PageTypeOK
  BY <1>1 DEF Init, PageTypeOK, Statuses, Replies
<1>3. ShownInv /\ ReadInv
  BY DEF Init, ShownInv, ReadInv, NoGet
<1>4. PostsInv
  BY DEF Init, PostsInv, PostInv, NoPost
<1> QED BY <1>2, <1>3, <1>4 DEF DetailInv

(* What one step of the handler leaves in a request under way.             *)
LEMMA AnsweredForms ==
  ASSUME NEW g \in Gets, UnderWay(g), g.id \in Ids, PageTypeOK
  PROVE  /\ Answered(g) \in Gets /\ Answered(g).id = g.id
         /\ Answered(g).at \in {"half", "back"}
         /\ Answered(g).at = "back" => Tells(Answered(g))
         /\ g.at = "sent" /\ status[g.id] \in Final => Rereads(Answered(g))
<1> DEFINE s == status[g.id]
<1>0. s \in Statuses
  BY DEF PageTypeOK
<1>1. \A x \in BOOLEAN, t \in Statuses : Detail(g.id, t, x) \in Replies
  BY DEF Detail, Replies
<1>2. Error \in Replies
  BY DEF Error, Replies
<1>3. CASE g.at = "sent" /\ s = "pending"
  <2>1. Answered(g) = [g EXCEPT !.at = "half"]
    BY <1>3 DEF Answered
  <2> QED BY <2>1, <1>3 DEF Gets, Final
<1>4. CASE g.at = "sent" /\ s # "pending"
  <2>1. Answered(g) = [g EXCEPT !.at = "back", !.reply = Detail(g.id, s, FALSE)]
    BY <1>4 DEF Answered
  <2>2. Detail(g.id, s, FALSE).id = g.id /\ Detail(g.id, s, FALSE).status = s
    BY DEF Detail
  <2>3. Detail(g.id, s, FALSE) \in Replies
    BY <1>0, <1>1
  <2> HIDE DEF s
  <2>4. /\ Answered(g) \in Gets /\ Answered(g).id = g.id /\ Answered(g).at = "back"
        /\ Answered(g).reply = Detail(g.id, s, FALSE)
    BY <2>1, <2>3 DEF Gets
  <2> QED BY <2>2, <2>4, <1>4 DEF Tells, Rereads, s
<1>5. CASE g.at = "half"
  <2> DEFINE a == IF Frozen(g.id) THEN Detail(g.id, "pending", TRUE) ELSE Error
  <2>1. Answered(g) = [g EXCEPT !.at = "back", !.reply = a]
    BY <1>5 DEF Answered
  <2>2. a \in Replies
    BY <1>1, <1>2 DEF Statuses
  <2>3. a = Error \/ (a.id = g.id /\ a.status = "pending" /\ a.statement = TRUE)
    BY DEF Detail
  <2> HIDE DEF a
  <2>4. /\ Answered(g) \in Gets /\ Answered(g).id = g.id /\ Answered(g).at = "back"
        /\ Answered(g).reply = a
    BY <2>1, <2>2 DEF Gets
  <2> QED BY <2>3, <2>4, <1>5 DEF Tells
<1> QED BY <1>3, <1>4, <1>5 DEF UnderWay

(* What the page keeps when neither it nor its requests change.            *)
LEMMA PageKeeps ==
  ASSUME DetailInv, UNCHANGED <<selected, op>>, reviewed \subseteq reviewed'
  PROVE  ShownInv'
BY DEF DetailInv, ShownInv

(* A post that stays as it is, while what was reviewed or is final remains.*)
LEMMA PostKeeps ==
  ASSUME NEW p \in Posts, PostInv(p), posts'[p] = posts[p], UNCHANGED selected,
         reviewed \subseteq reviewed',
         \A id \in Ids : status[id] \in Final => status'[id] \in Final
  PROVE  PostInv(p)'
BY DEF PostInv, Rereads

(* Somebody else confirms, something runs or is closed: final stays final. *)
LEMMA ServerKeeps ==
  ASSUME PageTypeOK, NEW id \in Ids,
         \/ Server!Confirm(id) \/ Server!Run(id) \/ \E s \in Final : Server!Close(id, s)
  PROVE  /\ status' \in [Ids -> Statuses] /\ confirmed' \in [Ids -> BOOLEAN]
         /\ ran' \in [Ids -> BOOLEAN]
         /\ \A x \in Ids : status[x] \in Final => status'[x] = status[x]
<1>1. CASE Server!Confirm(id)
  BY <1>1 DEF Server!Confirm, PageTypeOK, Statuses, Final
<1>2. CASE Server!Run(id)
  BY <1>2 DEF Server!Run, PageTypeOK
<1>3. ASSUME NEW s \in Final, Server!Close(id, s)
      PROVE  /\ status' \in [Ids -> Statuses] /\ confirmed' = confirmed /\ ran' = ran
             /\ \A x \in Ids : status[x] \in Final => status'[x] = status[x]
  BY <1>3 DEF Server!Close, PageTypeOK, Statuses, Final
<1>4. CASE \E s \in Final : Server!Close(id, s)
  BY <1>3, <1>4 DEF PageTypeOK
<1> QED BY <1>1, <1>2, <1>4

LEMMA ElsewhereKeeps == DetailInv /\ Elsewhere => DetailInv'
<1> SUFFICES ASSUME DetailInv, Elsewhere PROVE DetailInv'
  OBVIOUS
<1>1. PICK id \in Ids : \/ Server!Confirm(id) \/ Server!Run(id)
                        \/ \E s \in Final : Server!Close(id, s)
  BY DEF Elsewhere
<1>2. UNCHANGED <<selected, op, busy, read, posts, reviewed>>
  BY DEF Elsewhere, detail
<1>3. PageTypeOK
  BY DEF DetailInv
<1>4. /\ status' \in [Ids -> Statuses] /\ confirmed' \in [Ids -> BOOLEAN]
      /\ ran' \in [Ids -> BOOLEAN]
      /\ \A x \in Ids : status[x] \in Final => status'[x] = status[x]
  BY <1>1, <1>3, ServerKeeps
<1>5. PageTypeOK'
  BY <1>2, <1>3, <1>4 DEF PageTypeOK
<1>6. ShownInv' /\ ReadInv'
  BY <1>2 DEF DetailInv, ShownInv, ReadInv, Tells
<1>7. PostsInv'
  BY <1>2, <1>4, PostKeeps DEF DetailInv, PostsInv
<1> QED BY <1>5, <1>6, <1>7 DEF DetailInv

LEMMA ServeReadKeeps == DetailInv /\ ServeRead => DetailInv'
<1> SUFFICES ASSUME DetailInv, ServeRead PROVE DetailInv'
  OBVIOUS
<1>1. /\ UnderWay(read) /\ read' = Answered(read)
      /\ UNCHANGED <<status, confirmed, ran, selected, op, busy, posts, reviewed>>
  BY DEF ServeRead, server
<1>2. read \in Gets /\ read.id = selected /\ read.id \in Ids /\ PageTypeOK
  BY <1>1 DEF DetailInv, PageTypeOK, ReadInv, UnderWay
<1>3. /\ read' \in Gets /\ read'.id = read.id /\ read'.at \in {"half", "back"}
      /\ read'.at = "back" => Tells(read)'
  BY <1>1, <1>2, AnsweredForms DEF Tells
<1>4. PageTypeOK'
  BY <1>1, <1>2, <1>3 DEF PageTypeOK
<1>5. ReadInv'
  BY <1>1, <1>2, <1>3 DEF ReadInv
<1>6. ShownInv'
  BY <1>1 DEF DetailInv, ShownInv
<1>7. PostsInv'
  BY <1>1, PostKeeps DEF DetailInv, PostsInv
<1> QED BY <1>4, <1>5, <1>6, <1>7 DEF DetailInv

(* A step of the server or the network for one confirmation: the page and  *)
(* the other confirmations are not concerned.                              *)
LEMMA OnePostKeeps ==
  ASSUME DetailInv, NEW p \in Posts, UNCHANGED <<selected, op, busy, read, reviewed>>,
         NEW post \in PostForms, posts' = [posts EXCEPT ![p] = post],
         status' \in [Ids -> Statuses], confirmed' \in [Ids -> BOOLEAN],
         ran' \in [Ids -> BOOLEAN],
         \A x \in Ids : status[x] \in Final => status'[x] = status[x],
         PostInv(p)'
  PROVE  DetailInv'
<1>1. posts \in [Posts -> PostForms]
  BY DEF DetailInv, PageTypeOK
<1>2. PageTypeOK'
  BY <1>1 DEF DetailInv, PageTypeOK
<1>3. ShownInv' /\ ReadInv'
  BY DEF DetailInv, ShownInv, ReadInv, Tells
<1>4. ASSUME NEW q \in Posts, q # p PROVE PostInv(q)'
  BY <1>1, <1>4, PostKeeps DEF DetailInv, PostsInv
<1>5. PostsInv'
  BY <1>4 DEF PostsInv
<1> QED BY <1>2, <1>3, <1>5 DEF DetailInv

LEMMA ServeClaimKeeps == ASSUME DetailInv, NEW p \in Posts, ServeClaim(p) PROVE DetailInv'
<1>1. posts[p] \in PostForms /\ PostInv(p) /\ posts \in [Posts -> PostForms] /\ PageTypeOK
  BY DEF DetailInv, PageTypeOK, PostsInv
<1>2. /\ posts[p].at = "sent" /\ UNCHANGED <<selected, op, busy, read, reviewed>>
      /\ posts[p].id \in Ids
  BY <1>1 DEF ServeClaim, PostInv
<1>3. ASSUME NEW at \in {"claimed", "refused"}, posts' = [posts EXCEPT ![p].at = at]
      PROVE  LET post == [posts[p] EXCEPT !.at = at] IN
             post \in PostForms /\ posts' = [posts EXCEPT ![p] = post] /\ PostInv(p)'
  <2> DEFINE post == [posts[p] EXCEPT !.at = at]
  <2>1. posts' = [posts EXCEPT ![p] = post] /\ posts'[p] = post
    BY <1>1, <1>3
  <2>2. /\ post \in PostForms /\ post.id = posts[p].id /\ post.live = posts[p].live
        /\ post.get = posts[p].get /\ post.at = at
    BY <1>1 DEF PostForms
  <2>3. PostInv(p)'
    BY <1>1, <1>2, <2>1, <2>2 DEF PostInv
  <2> QED BY <2>1, <2>2, <2>3
<1>4. CASE Server!Confirm(posts[p].id) /\ posts' = [posts EXCEPT ![p].at = "claimed"]
  <2>1. /\ status' \in [Ids -> Statuses] /\ confirmed' \in [Ids -> BOOLEAN]
        /\ ran' \in [Ids -> BOOLEAN]
        /\ \A x \in Ids : status[x] \in Final => status'[x] = status[x]
    BY <1>1, <1>2, <1>4, ServerKeeps
  <2> QED BY <1>2, <1>3, <1>4, <2>1, OnePostKeeps
<1>5. CASE posts' = [posts EXCEPT ![p].at = "refused"] /\ UNCHANGED server
  <2>1. /\ status' \in [Ids -> Statuses] /\ confirmed' \in [Ids -> BOOLEAN]
        /\ ran' \in [Ids -> BOOLEAN]
        /\ \A x \in Ids : status[x] \in Final => status'[x] = status[x]
    BY <1>1, <1>5 DEF PageTypeOK, server
  <2> QED BY <1>2, <1>3, <1>5, <2>1, OnePostKeeps
<1> QED BY <1>4, <1>5 DEF ServeClaim

LEMMA StillServer ==
  ASSUME PageTypeOK, UNCHANGED server
  PROVE  /\ status' \in [Ids -> Statuses] /\ confirmed' \in [Ids -> BOOLEAN]
         /\ ran' \in [Ids -> BOOLEAN]
         /\ \A x \in Ids : status[x] \in Final => status'[x] = status[x]
BY DEF PageTypeOK, server

LEMMA ServeConfirmedKeeps ==
  ASSUME DetailInv, NEW p \in Posts, ServeConfirmed(p) PROVE DetailInv'
<1>1. posts[p] \in PostForms /\ PostInv(p) /\ posts \in [Posts -> PostForms] /\ PageTypeOK
  BY DEF DetailInv, PageTypeOK, PostsInv
<1>2. /\ posts[p].at = "claimed" /\ status[posts[p].id] \in Final
      /\ UNCHANGED <<server, selected, op, busy, read, reviewed>>
  BY DEF ServeConfirmed
<1>3. PICK at \in {"accepted", "refused"} : posts' = [posts EXCEPT ![p].at = at]
  BY DEF ServeConfirmed
<1>4. PICK post : post = [posts[p] EXCEPT !.at = at]
  OBVIOUS
<1>5. /\ post \in PostForms /\ post.id = posts[p].id /\ post.live = posts[p].live
      /\ post.get = posts[p].get /\ post.at = at
  BY <1>1, <1>4 DEF PostForms
<1>6. posts' = [posts EXCEPT ![p] = post] /\ posts'[p] = post
  BY <1>1, <1>3, <1>4
<1>7. PostInv(p)'
  BY <1>1, <1>2, <1>5, <1>6 DEF PostInv, server
<1> QED BY <1>1, <1>2, <1>5, <1>6, <1>7, OnePostKeeps, StillServer

LEMMA ServeRereadKeeps ==
  ASSUME DetailInv, NEW p \in Posts, ServeReread(p) PROVE DetailInv'
<1>1. posts[p] \in PostForms /\ PostInv(p) /\ posts \in [Posts -> PostForms] /\ PageTypeOK
  BY DEF DetailInv, PageTypeOK, PostsInv
<1>2. /\ UnderWay(posts[p].get) /\ UNCHANGED <<server, selected, op, busy, read, reviewed>>
      /\ posts' = [posts EXCEPT ![p].get = Answered(posts[p].get)]
  BY <1>1 DEF ServeReread
<1>3. posts[p].at = "reading" /\ posts[p].get.at = "sent" /\ posts[p].get.id = posts[p].id
  BY <1>1, <1>2 DEF PostInv, UnderWay, NoGet, Rereads
<1>4. posts[p].get \in Gets /\ posts[p].id \in Ids /\ status[posts[p].id] \in Final
  BY <1>1, <1>3 DEF PostInv, PostForms
<1>5. PICK get : get = Answered(posts[p].get)
  OBVIOUS
<1>6. get \in Gets /\ get.id = posts[p].id /\ Rereads(get)
  BY <1>1, <1>2, <1>3, <1>4, <1>5, AnsweredForms
<1>7. PICK post : post = [posts[p] EXCEPT !.get = get]
  OBVIOUS
<1>8. /\ post \in PostForms /\ post.id = posts[p].id /\ post.live = posts[p].live
      /\ post.get = get /\ post.at = posts[p].at
  BY <1>1, <1>6, <1>7 DEF PostForms
<1>9. posts' = [posts EXCEPT ![p] = post] /\ posts'[p] = post
  BY <1>1, <1>2, <1>5, <1>7
<1>10. PostInv(p)'
  BY <1>1, <1>2, <1>3, <1>4, <1>6, <1>8, <1>9 DEF PostInv, server, Rereads
<1> QED BY <1>1, <1>2, <1>8, <1>9, <1>10, OnePostKeeps, StillServer

LEMMA BreakKeeps == DetailInv /\ Break => DetailInv'
<1> SUFFICES ASSUME DetailInv, Break PROVE DetailInv'
  OBVIOUS
<1>0. Error \in Replies /\ PageTypeOK /\ posts \in [Posts -> PostForms] /\ read \in Gets
  BY DEF DetailInv, PageTypeOK, Error, Replies
<1>1. UNCHANGED <<server, selected, op, busy, reviewed>>
  BY DEF Break
<1>2. ASSUME read.at # "none", read' = [read EXCEPT !.at = "back", !.reply = Error],
             UNCHANGED posts
      PROVE  DetailInv'
  <2>1. read' \in Gets /\ read'.id = read.id /\ read'.at = "back" /\ read'.reply = Error
    BY <1>0, <1>2 DEF Gets
  <2>2. PageTypeOK'
    BY <1>0, <1>1, <1>2, <2>1 DEF PageTypeOK, server
  <2>3. ReadInv'
    BY <1>1, <1>2, <2>1 DEF DetailInv, ReadInv, Tells
  <2>4. ShownInv'
    BY <1>1 DEF DetailInv, ShownInv
  <2>5. PostsInv'
    BY <1>1, <1>2, PostKeeps DEF DetailInv, PostsInv, server
  <2> QED BY <2>2, <2>3, <2>4, <2>5 DEF DetailInv
<1>3. ASSUME NEW p \in Posts, posts[p].at \in {"sent", "claimed", "accepted"},
             posts' = [posts EXCEPT ![p].at = "refused"], UNCHANGED read
      PROVE  DetailInv'
  <2>1. PICK post : post = [posts[p] EXCEPT !.at = "refused"]
    OBVIOUS
  <2>2. /\ post \in PostForms /\ post.id = posts[p].id /\ post.live = posts[p].live
        /\ post.get = posts[p].get /\ post.at = "refused"
    BY <1>0, <2>1 DEF PostForms
  <2>3. posts' = [posts EXCEPT ![p] = post] /\ posts'[p] = post
    BY <1>0, <1>3, <2>1
  <2>4. PostInv(p)'
    BY <1>1, <1>3, <2>2, <2>3 DEF DetailInv, PostsInv, PostInv
  <2> QED BY <1>0, <1>1, <1>3, <2>2, <2>3, <2>4, OnePostKeeps, StillServer
<1>4. ASSUME NEW p \in Posts, UnderWay(posts[p].get), UNCHANGED read,
             posts' = [posts EXCEPT ![p].get =
                         [posts[p].get EXCEPT !.at = "back", !.reply = Error]]
      PROVE  DetailInv'
  <2>0. PostInv(p) /\ posts[p].get \in Gets
    BY <1>0 DEF DetailInv, PostsInv, PostForms
  <2>1. posts[p].at = "reading"
    BY <1>4, <2>0 DEF PostInv, UnderWay, NoGet
  <2>2. PICK get : get = [posts[p].get EXCEPT !.at = "back", !.reply = Error]
    OBVIOUS
  <2>3. get \in Gets /\ get.id = posts[p].get.id /\ get.at = "back" /\ get.reply = Error
    BY <1>0, <2>0, <2>2 DEF Gets
  <2>4. PICK post : post = [posts[p] EXCEPT !.get = get]
    OBVIOUS
  <2>5. /\ post \in PostForms /\ post.id = posts[p].id /\ post.live = posts[p].live
        /\ post.get = get /\ post.at = posts[p].at
    BY <1>0, <2>3, <2>4 DEF PostForms
  <2>6. posts' = [posts EXCEPT ![p] = post] /\ posts'[p] = post
    BY <1>0, <1>4, <2>2, <2>4
  <2>7. PostInv(p)'
    BY <1>1, <2>0, <2>1, <2>3, <2>5, <2>6 DEF PostInv, Rereads, server
  <2> QED BY <1>0, <1>1, <1>4, <2>5, <2>6, <2>7, OnePostKeeps, StillServer
<1> QED BY <1>0, <1>2, <1>3, <1>4 DEF Break

-----------------------------------------------------------------------------
(* The browser.  A page that is left has no claim on what comes back.      *)
LEMMA LeavesPage ==
  ASSUME DetailInv, UNCHANGED <<server, reviewed>>,
         posts' = [p \in Posts |-> [posts[p] EXCEPT !.live = FALSE]]
  PROVE  posts' \in [Posts -> PostForms] /\ PostsInv'
<1>1. \A p \in Posts :
        /\ posts'[p] \in PostForms /\ posts'[p].id = posts[p].id /\ posts'[p].live = FALSE
        /\ posts'[p].get = posts[p].get /\ posts'[p].at = posts[p].at
  BY DEF DetailInv, PageTypeOK, PostForms
<1>2. \A p \in Posts : PostInv(p)'
  BY <1>1 DEF DetailInv, PostsInv, PostInv, server, Rereads
<1>3. posts' \in [Posts -> PostForms]
  BY <1>1
<1> QED BY <1>2, <1>3 DEF PostsInv

LEMMA OpenKeeps == ASSUME DetailInv, NEW id \in Ids, Open(id) PROVE DetailInv'
<1>1. /\ selected' = id /\ op' = None /\ busy' = FALSE /\ read' = Get(id)
      /\ UNCHANGED <<server, reviewed>>
      /\ posts' = [p \in Posts |-> [posts[p] EXCEPT !.live = FALSE]]
  BY DEF Open
<1>2. posts' \in [Posts -> PostForms] /\ PostsInv'
  BY <1>1, LeavesPage
<1>3. PageTypeOK'
  BY <1>1, <1>2, FreshForms DEF DetailInv, PageTypeOK, server, Replies
<1>4. ShownInv' /\ ReadInv'
  BY <1>1 DEF ShownInv, ReadInv, Get
<1> QED BY <1>2, <1>3, <1>4 DEF DetailInv

LEMMA BackKeeps == DetailInv /\ Back => DetailInv'
<1> SUFFICES ASSUME DetailInv, Back PROVE DetailInv'
  OBVIOUS
<1>1. /\ selected' = None /\ op' = None /\ busy' = FALSE /\ read' = NoGet
      /\ UNCHANGED <<server, reviewed>>
      /\ posts' = [p \in Posts |-> [posts[p] EXCEPT !.live = FALSE]]
  BY DEF Back
<1>2. posts' \in [Posts -> PostForms] /\ PostsInv'
  BY <1>1, LeavesPage
<1>3. NoGet \in Gets
  BY DEF NoGet, Gets, Replies
<1>4. PageTypeOK'
  BY <1>1, <1>2, <1>3 DEF DetailInv, PageTypeOK, server, Replies
<1>5. ShownInv' /\ ReadInv'
  BY <1>1 DEF ShownInv, ReadInv, NoGet
<1> QED BY <1>2, <1>4, <1>5 DEF DetailInv

LEMMA RefreshKeeps == DetailInv /\ Refresh => DetailInv'
<1> SUFFICES ASSUME DetailInv, Refresh PROVE DetailInv'
  OBVIOUS
<1>1. /\ selected \in Ids /\ read' = Get(selected)
      /\ UNCHANGED <<server, selected, op, busy, posts, reviewed>>
  BY DEF Refresh, DetailInv, PageTypeOK
<1>2. PageTypeOK'
  BY <1>1, FreshForms DEF DetailInv, PageTypeOK, server
<1>3. ShownInv' /\ ReadInv'
  BY <1>1 DEF DetailInv, ShownInv, ReadInv, Get
<1>4. PostsInv'
  BY <1>1, PostKeeps DEF DetailInv, PostsInv, server
<1> QED BY <1>2, <1>3, <1>4 DEF DetailInv

LEMMA ReadArrivesKeeps == DetailInv /\ ReadArrives => DetailInv'
<1> SUFFICES ASSUME DetailInv, ReadArrives PROVE DetailInv'
  OBVIOUS
<1>1. /\ read.at = "back" /\ read' = NoGet
      /\ UNCHANGED <<server, selected, busy, posts>>
  BY DEF ReadArrives
<1>2. /\ read.reply \in Replies /\ read.id = selected /\ selected \in Ids /\ Tells(read)
      /\ NoGet \in Gets
  BY <1>1 DEF DetailInv, PageTypeOK, ReadInv, Gets, NoGet, Replies
<1>3. CASE read.reply = Error
  <2>1. UNCHANGED <<op, reviewed>>
    BY <1>3 DEF ReadArrives
  <2>2. PageTypeOK'
    BY <1>1, <1>2, <2>1 DEF DetailInv, PageTypeOK, server
  <2>3. ShownInv' /\ ReadInv'
    BY <1>1, <2>1 DEF DetailInv, ShownInv, ReadInv, NoGet
  <2>4. PostsInv'
    BY <1>1, <2>1, PostKeeps DEF DetailInv, PostsInv, server
  <2> QED BY <2>2, <2>3, <2>4 DEF DetailInv
<1>4. CASE read.reply # Error
  <2>1. /\ op' = read.reply
        /\ reviewed' = IF /\ read.reply # None /\ read.reply.status = "pending"
                          /\ read.reply.statement
                         THEN reviewed \cup {read.reply.id} ELSE reviewed
    BY <1>4 DEF ReadArrives, Show
  <2>2. read.reply.id = selected /\ (read.reply.status = "pending" => read.reply.statement)
    BY <1>2, <1>4 DEF Tells
  <2>3. PageTypeOK'
    BY <1>1, <1>2, <2>1 DEF DetailInv, PageTypeOK, server
  <2>4. ShownInv' /\ ReadInv'
    BY <1>1, <1>2, <2>1, <2>2 DEF ShownInv, ReadInv, NoGet
  <2>5. PostsInv'
    BY <1>1, <2>1, PostKeeps DEF DetailInv, PostsInv, server
  <2> QED BY <2>3, <2>4, <2>5 DEF DetailInv
<1> QED BY <1>3, <1>4

LEMMA ConfirmKeeps == ASSUME DetailInv, NEW p \in Posts, Confirm(p) PROVE DetailInv'
<1>1. /\ op # None /\ op.status = "pending" /\ posts[p] = NoPost
      /\ busy' = TRUE /\ UNCHANGED <<server, selected, op, read, reviewed>>
  BY DEF Confirm
<1>2. PICK post : post = [at |-> "sent", id |-> selected, live |-> TRUE, get |-> NoGet]
  OBVIOUS
<1>3. posts' = [posts EXCEPT ![p] = post] /\ posts \in [Posts -> PostForms]
  BY <1>2 DEF Confirm, DetailInv, PageTypeOK
<1>4. selected \in Ids /\ selected \in reviewed
  BY <1>1 DEF DetailInv, ShownInv
<1>5. post \in PostForms
  BY <1>2, <1>4, FreshForms DEF PostForms
<1>6. PageTypeOK'
  BY <1>1, <1>3, <1>5 DEF DetailInv, PageTypeOK, server
<1>7. ShownInv' /\ ReadInv'
  BY <1>1 DEF DetailInv, ShownInv, ReadInv, Tells
<1>8. ASSUME NEW q \in Posts PROVE PostInv(q)'
  <2>1. CASE q = p
    <3>1. /\ posts'[q].at = "sent" /\ posts'[q].id = selected /\ posts'[q].get = NoGet
      BY <1>2, <1>3, <2>1
    <3> QED BY <1>1, <1>4, <3>1 DEF PostInv
  <2>2. CASE q # p
    <3>1. posts'[q] = posts[q]
      BY <1>3, <2>2
    <3> QED BY <1>1, <3>1, PostKeeps DEF DetailInv, PostsInv, server
  <2> QED BY <2>1, <2>2
<1> QED BY <1>6, <1>7, <1>8 DEF DetailInv, PostsInv

LEMMA AcceptedKeeps == ASSUME DetailInv, NEW p \in Posts, Accepted(p) PROVE DetailInv'
<1>1. posts[p] \in PostForms /\ PostInv(p) /\ posts \in [Posts -> PostForms] /\ PageTypeOK
  BY DEF DetailInv, PageTypeOK, PostsInv
<1>2. posts[p].at = "accepted" /\ UNCHANGED <<server, selected, op, busy, read, reviewed>>
  BY DEF Accepted
<1>3. /\ posts[p].id \in Ids /\ posts[p].id \in reviewed /\ posts[p].get = NoGet
      /\ status[posts[p].id] \in Final
  BY <1>1, <1>2 DEF PostInv
<1>4. PICK post : post = [posts[p] EXCEPT !.at = "reading", !.get = Get(posts[p].id)]
  OBVIOUS
<1>5. posts' = [posts EXCEPT ![p] = post] /\ posts'[p] = post
  BY <1>1, <1>3, <1>4 DEF Accepted, PostForms
<1>6. /\ post \in PostForms /\ post.id = posts[p].id /\ post.live = posts[p].live
      /\ post.at = "reading" /\ post.get = Get(posts[p].id)
  BY <1>1, <1>3, <1>4, FreshForms DEF PostForms
<1>7. post.get.id = posts[p].id /\ post.get.at = "sent"
  BY <1>6 DEF Get
<1>8. PostInv(p)'
  BY <1>1, <1>2, <1>3, <1>5, <1>6, <1>7 DEF PostInv, Rereads, server
<1> QED BY <1>1, <1>2, <1>5, <1>6, <1>8, OnePostKeeps, StillServer

(* A confirmation that has ended shows what the second request found: the  *)
(* operation of the page, in its final state.                              *)
LEMMA EndShowsFinal ==
  ASSUME DetailInv, NEW p \in Posts, Ends(p), posts[p].live,
         Settled(p), posts[p].get.reply # Error
  PROVE  /\ op' = posts[p].get.reply /\ op'.id = selected /\ op'.status \in Final
         /\ reviewed' = reviewed /\ read' = read
<1>1. PostInv(p)
  BY DEF DetailInv, PostsInv
<1>2. posts[p].get.reply.id = selected /\ posts[p].get.reply.status \in Final
  BY <1>1 DEF PostInv, Settled, Rereads
<1>3. Show(posts[p].get.reply) /\ UNCHANGED read
  BY DEF Ends
<1> QED BY <1>2, <1>3 DEF Show, Final

LEMMA EndsKeeps == ASSUME DetailInv, NEW p \in Posts, Ends(p) PROVE DetailInv'
<1>1. posts[p] \in PostForms /\ PostInv(p) /\ posts \in [Posts -> PostForms] /\ PageTypeOK
  BY DEF DetailInv, PageTypeOK, PostsInv
<1>2. posts' = [posts EXCEPT ![p] = NoPost] /\ UNCHANGED <<server, selected>>
  BY DEF Ends
<1>3. NoPost \in PostForms
  BY DEF NoPost, NoGet, PostForms, Gets, Replies
<1>4. ASSUME reviewed' = reviewed PROVE PostsInv'
  <2>1. ASSUME NEW q \in Posts PROVE PostInv(q)'
    <3>1. CASE q = p
      <4>1. posts'[q] = NoPost
        BY <1>1, <1>2, <3>1
      <4> QED BY <4>1 DEF PostInv, NoPost
    <3>2. CASE q # p
      <4>1. posts'[q] = posts[q]
        BY <1>1, <1>2, <3>2
      <4> QED BY <1>2, <1>4, <4>1, PostKeeps DEF DetailInv, PostsInv, server
    <3> QED BY <3>1, <3>2
  <2> QED BY <2>1 DEF PostsInv
<1>5. CASE ~posts[p].live
  <2>1. UNCHANGED <<op, busy, read, reviewed>>
    BY <1>5 DEF Ends
  <2>2. PageTypeOK'
    BY <1>1, <1>2, <1>3, <2>1 DEF PageTypeOK, server
  <2>3. ShownInv' /\ ReadInv'
    BY <1>2, <2>1 DEF DetailInv, ShownInv, ReadInv, Tells
  <2> QED BY <1>4, <2>1, <2>2, <2>3 DEF DetailInv
<1>6. CASE posts[p].live
  <2>0. busy' = FALSE /\ selected \in Ids
    BY <1>1, <1>6 DEF Ends, PostInv
  <2>1. CASE Settled(p) /\ posts[p].get.reply # Error
    <3>1. /\ op' = posts[p].get.reply /\ op'.id = selected /\ op'.status \in Final
          /\ reviewed' = reviewed /\ read' = read
      BY <1>6, <2>1, EndShowsFinal
    <3>2. op' \in Replies
      BY <1>1, <3>1 DEF PostForms, Gets
    <3>3. PageTypeOK'
      BY <1>1, <1>2, <1>3, <2>0, <3>1, <3>2 DEF PageTypeOK, server
    <3>4. ShownInv' /\ ReadInv'
      BY <1>2, <2>0, <3>1 DEF DetailInv, ShownInv, ReadInv, Tells, Final
    <3> QED BY <1>4, <3>1, <3>3, <3>4 DEF DetailInv
  <2>2. CASE ~(Settled(p) /\ posts[p].get.reply # Error)
    <3>1. op' = None /\ read' = Get(selected) /\ reviewed' = reviewed
      BY <1>6, <2>2 DEF Ends
    <3>2. PageTypeOK'
      BY <1>1, <1>2, <1>3, <2>0, <3>1, FreshForms DEF PageTypeOK, server, Replies
    <3>3. ShownInv' /\ ReadInv'
      BY <1>2, <2>0, <3>1 DEF ShownInv, ReadInv, Get
    <3> QED BY <1>4, <3>1, <3>2, <3>3 DEF DetailInv
  <2> QED BY <2>1, <2>2
<1> QED BY <1>5, <1>6

LEMMA DetailStutters == DetailInv /\ UNCHANGED vars => DetailInv'
<1> SUFFICES ASSUME DetailInv, UNCHANGED vars PROVE DetailInv'
  OBVIOUS
<1>1. UNCHANGED <<status, confirmed, ran, selected, op, busy, read, posts, reviewed>>
  BY DEF vars, server, detail
<1>2. PageTypeOK'
  BY <1>1 DEF DetailInv, PageTypeOK
<1>3. ShownInv' /\ ReadInv'
  BY <1>1 DEF DetailInv, ShownInv, ReadInv, Tells
<1>4. PostsInv'
  BY <1>1, PostKeeps DEF DetailInv, PostsInv
<1> QED BY <1>2, <1>3, <1>4 DEF DetailInv

LEMMA DetailStep == DetailInv /\ [Next]_vars => DetailInv'
BY DetailStutters, ElsewhereKeeps, ServeReadKeeps, BreakKeeps, ServeClaimKeeps,
   ServeConfirmedKeeps, ServeRereadKeeps, OpenKeeps, BackKeeps, RefreshKeeps,
   ReadArrivesKeeps, ConfirmKeeps, AcceptedKeeps, EndsKeeps
   DEF Next

LEMMA DetailInvariant == PageSpec => []DetailInv
<1>1. PageInit => DetailInv
  BY DetailInit DEF PageInit
<1>2. DetailInv /\ [ShowList \/ ShowDetail]_PageVars => DetailInv'
  BY DetailStep DEF ShowList, ShowDetail, PageVars
<1> QED BY <1>1, <1>2, PTL DEF PageSpec

(* A confirmation is only ever sent for an operation this browser has      *)
(* shown pending with its statement, whatever answers arrive late.         *)
THEOREM ConfirmsWhatItShowsThm == PageSpec => []ConfirmsWhatItShows
<1>1. DetailInv => ConfirmsWhatItShows
  BY DEF DetailInv, PostsInv, PostInv, ConfirmsWhatItShows
<1> QED BY <1>1, DetailInvariant, PTL

(* Only Ends takes a settled confirmation off the page.                    *)
LEMMA OnlyEndsSettles ==
  ASSUME DetailInv, NEW p \in Posts, Settled(p), Next, posts'[p] = NoPost
  PROVE  Ends(p)
<1>1. posts \in [Posts -> PostForms] /\ posts[p] \in PostForms /\ posts[p].at = "reading"
  BY DEF DetailInv, PageTypeOK, Settled
<1>2. posts'[p].at = "free"
  BY DEF NoPost
<1>3. posts' # posts /\ posts'[p].at # posts[p].at
  BY <1>1, <1>2
<1>4. ~Elsewhere /\ ~ServeRead /\ ~Refresh /\ ~ReadArrives
  BY <1>3 DEF Elsewhere, detail, ServeRead, Refresh, ReadArrives
<1>5. posts' # [q \in Posts |-> [posts[q] EXCEPT !.live = FALSE]]
  BY <1>1, <1>3 DEF PostForms
<1>6. ~Back /\ \A id \in Ids : ~Open(id)
  BY <1>5 DEF Back, Open
<1>7. ASSUME NEW q \in Posts
      PROVE  ~ServeClaim(q) /\ ~ServeConfirmed(q) /\ ~ServeReread(q)
  <2>1. CASE q # p
    BY <1>1, <1>3, <2>1 DEF ServeClaim, ServeConfirmed, ServeReread
  <2>2. CASE q = p
    BY <1>1, <1>3, <2>2 DEF ServeClaim, ServeConfirmed, ServeReread, PostForms
  <2> QED BY <2>1, <2>2
<1>8. ~Break
  <2>1. SUFFICES ASSUME Break PROVE FALSE
    OBVIOUS
  <2>2. ASSUME NEW q \in Posts, posts[q].at \in {"sent", "claimed", "accepted"},
               posts' = [posts EXCEPT ![q].at = "refused"]
        PROVE  FALSE
    <3>1. q # p
      BY <1>1, <2>2
    <3> QED BY <1>1, <1>3, <2>2, <3>1
  <2>3. ASSUME NEW q \in Posts,
               posts' = [posts EXCEPT ![q].get =
                           [posts[q].get EXCEPT !.at = "back", !.reply = Error]]
        PROVE  FALSE
    BY <1>1, <1>3, <2>3 DEF PostForms
  <2> QED BY <1>1, <1>3, <2>1, <2>2, <2>3 DEF Break
<1>9. ASSUME NEW q \in Posts PROVE ~Confirm(q) /\ ~Accepted(q)
  <2>1. CASE q # p
    BY <1>1, <1>3, <2>1 DEF Confirm, Accepted
  <2>2. CASE q = p
    BY <1>1, <2>2 DEF Confirm, Accepted, NoPost
  <2> QED BY <2>1, <2>2
<1>10. ASSUME NEW q \in Posts, q # p PROVE ~Ends(q)
  BY <1>1, <1>3, <1>10 DEF Ends
<1> QED BY <1>4, <1>6, <1>7, <1>8, <1>9, <1>10 DEF Next

(* When a confirmation succeeded and its page is still there, the page     *)
(* shows the final state of its operation.                                 *)
THEOREM TrueStateAfterwardsThm == PageSpec => TrueStateAfterwards
<1> DEFINE Step == \A p \in Posts :
             posts[p].live /\ Settled(p) /\ posts'[p] = NoPost /\ op' # None
               => op'.id = selected /\ op'.status \in Final
<1>1. ASSUME DetailInv, Next PROVE Step
  <2> SUFFICES ASSUME NEW p \in Posts, posts[p].live, Settled(p), posts'[p] = NoPost,
                      op' # None
               PROVE  op'.id = selected /\ op'.status \in Final
    OBVIOUS
  <2>1. Ends(p)
    BY <1>1, OnlyEndsSettles
  <2>2. posts[p].get.reply # Error
    BY <2>1 DEF Ends
  <2> QED BY <1>1, <2>1, <2>2, EndShowsFinal
<1>2. ASSUME DetailInv, [ShowList \/ ShowDetail]_PageVars PROVE [Step]_vars
  BY <1>1, <1>2 DEF ShowList, ShowDetail, PageVars
<1>3. DetailInv /\ [ShowList \/ ShowDetail]_PageVars => [Step]_vars
  BY <1>2
<1> QED BY <1>3, DetailInvariant, PTL DEF PageSpec, TrueStateAfterwards

-----------------------------------------------------------------------------
(* The list.  A table has a row per id; the rank of a row is the number of *)
(* rows before it in the order of the list.                                *)
Rows == [id : RowIds, time : Times, status : {"pending", "failed"}]

IsTable(S) ==
  /\ IsFiniteSet(S) /\ S \subseteq Rows
  /\ \A a, b \in S : a.id = b.id => a = b

Ahead(S, r) == {y \in S : Before(y, r)}
Rank(S, r)  == Cardinality(IdsOf(Ahead(S, r)))

LEMMA RankIsNat ==
  ASSUME NEW S, IsTable(S), NEW r
  PROVE  IsFiniteSet(IdsOf(Ahead(S, r))) /\ Rank(S, r) \in Nat
<1> DEFINE A == Ahead(S, r)
           f == [y \in A |-> y.id]
<1>1. IsFiniteSet(A)
  BY FS_Subset DEF IsTable, Ahead
<1>2. f \in Surjection(A, IdsOf(A))
  <2> HIDE DEF A
  <2>1. f \in [A -> IdsOf(A)] /\ \A t \in IdsOf(A) : \E y \in A : f[y] = t
    BY DEF IdsOf
  <2> QED BY <2>1 DEF Surjection
<1>3. IsFiniteSet(IdsOf(A))
  BY <1>1, <1>2, FS_Surjection
<1> QED BY <1>3, FS_CardinalityType DEF Rank

(* Whatever happens to a table whose rows keep id and time, no row moves   *)
(* forward.                                                                *)
LEMMA RanksGrow ==
  ASSUME NEW S, NEW T, IsTable(S), IsTable(T),
         \A x \in S : \E y \in T : y.id = x.id /\ y.time = x.time,
         NEW x \in S, NEW y \in T, y.id = x.id
  PROVE  Rank(S, x) <= Rank(T, y)
<1>1. y.time = x.time
  BY DEF IsTable
<1>2. ASSUME NEW z \in S, Before(z, x) PROVE z.id \in IdsOf(Ahead(T, y))
  <2>1. PICK w \in T : w.id = z.id /\ w.time = z.time
    OBVIOUS
  <2>2. Before(w, y)
    BY <1>1, <1>2, <2>1 DEF Before
  <2> QED BY <2>1, <2>2 DEF Ahead, IdsOf
<1>3. IdsOf(Ahead(S, x)) \subseteq IdsOf(Ahead(T, y))
  BY <1>2 DEF Ahead, IdsOf
<1> QED BY <1>3, RankIsNat, FS_Subset DEF Rank

LEMMA OrderForm ==
  ASSUME NEW S, IsTable(S), NEW s \in Orders(S)
  PROVE  /\ Cardinality(S) \in Nat /\ s \in [1..Cardinality(S) -> S]
         /\ Len(s) = Cardinality(S) /\ DOMAIN s = 1..Len(s)
         /\ \A i, j \in 1..Cardinality(S) : i # j => s[i] # s[j]
<1> DEFINE n == Cardinality(S)
<1>1. n \in Nat
  BY FS_CardinalityType DEF IsTable
<1>2. s \in [1..n -> S] /\ \A i, j \in 1..n : i # j => s[i] # s[j]
  BY DEF Orders, SetToSeqs
<1> HIDE DEF n
<1>3. Len(s) = n /\ DOMAIN s = 1..n
  BY <1>1, <1>2, LenProperties, SeqDef
<1> QED BY <1>1, <1>2, <1>3 DEF n

(* In the order of the list a row is preceded by exactly those that come   *)
(* before it.                                                              *)
LEMMA PlaceIsRank ==
  ASSUME NEW S, IsTable(S), NEW s \in Orders(S), NEW r \in S
  PROVE  /\ Len(s) \in Nat /\ DOMAIN s = 1..Len(s)
         /\ Rank(S, r) + 1 \in DOMAIN s /\ s[Rank(S, r) + 1] = r
<1> DEFINE n == Cardinality(S)
<1>1. n \in Nat /\ Len(s) = n /\ DOMAIN s = 1..n
  BY OrderForm
<1>2. s \in [1..n -> S] /\ \A i, j \in 1..n : i # j => s[i] # s[j]
  BY OrderForm
<1>3. IsFiniteSet(S)
  BY DEF IsTable
<1>4. Cardinality(1..n) = n /\ IsFiniteSet(1..n)
  BY <1>1, FS_Interval
<1>5. s \in Injection(1..n, S)
  BY <1>2 DEF Injection, IsInjective
<1>6. s \in Surjection(1..n, S)
  BY <1>3, <1>4, <1>5, FS_Injection
<1> HIDE DEF n
<1>7. PICK k \in 1..n : s[k] = r
  BY <1>6 DEF Surjection
<1>8. ASSUME NEW i \in 1..n, NEW j \in 1..n, i < j PROVE Before(s[i], s[j])
  <2>1. s[i] \in S /\ s[j] \in S /\ s[i] # s[j]
    BY <1>2, <1>8
  <2>2. s[i].id # s[j].id
    BY <2>1 DEF IsTable
  <2>3. ~Before(s[j], s[i])
    BY <1>1, <1>8 DEF Orders
  <2>4. /\ s[i].id \in Nat /\ s[j].id \in Nat /\ s[i].time \in Nat /\ s[j].time \in Nat
    BY <2>1, SizesArePositive DEF IsTable, Rows
  <2> QED BY <2>2, <2>3, <2>4 DEF Before
<1>9. ASSUME NEW i \in 1..n PROVE Before(s[i], r) <=> i < k
  <2>1. CASE i < k
    BY <1>7, <1>8, <2>1
  <2>2. CASE i >= k
    <3>1. ~Before(s[i], r)
      <4>1. CASE i = k
        <5>1. r.id \in Nat /\ r.time \in Nat
          BY SizesArePositive DEF IsTable, Rows
        <5> QED BY <1>7, <4>1, <5>1 DEF Before
      <4>2. CASE k < i
        <5>1. Before(r, s[i])
          BY <1>7, <1>8, <4>2
        <5>2. s[i] \in S
          BY <1>2
        <5>3. r.id \in Nat /\ r.time \in Nat /\ s[i].id \in Nat /\ s[i].time \in Nat
          BY <5>2, SizesArePositive DEF IsTable, Rows
        <5> QED BY <5>1, <5>3 DEF Before
      <4> QED BY <2>2, <4>1, <4>2
    <3> QED BY <2>2, <3>1
  <2> QED BY <2>1, <2>2
<1> DEFINE D == 1..(k - 1)
           A == IdsOf(Ahead(S, r))
           g == [i \in D |-> s[i].id]
<1>10. Ahead(S, r) = {s[i] : i \in D}
  <2>1. \A i \in 1..n : i < k <=> i \in D
    OBVIOUS
  <2>2. \A i \in D : i \in 1..n
    BY <1>1
  <2>3. \A x \in S : \E i \in 1..n : s[i] = x
    BY <1>6 DEF Surjection
  <2> HIDE DEF D
  <2>4. ASSUME NEW x \in Ahead(S, r) PROVE \E i \in D : s[i] = x
    BY <1>9, <2>1, <2>3 DEF Ahead
  <2>5. ASSUME NEW i \in D PROVE s[i] \in Ahead(S, r)
    BY <1>2, <1>9, <2>1, <2>2 DEF Ahead
  <2> QED BY <2>4, <2>5
<1>11. A = {s[i].id : i \in D}
  BY <1>10 DEF IdsOf
<1>12. g \in Surjection(D, A)
  BY <1>11 DEF Surjection
<1>13. ASSUME NEW i \in D, NEW j \in D, s[i].id = s[j].id PROVE i = j
  <2>1. i \in 1..n /\ j \in 1..n
    BY <1>1
  <2>2. s[i] = s[j]
    BY <1>2, <1>13, <2>1 DEF IsTable
  <2> QED BY <1>2, <2>1, <2>2
<1>14. g \in Injection(D, A)
  BY <1>11, <1>13 DEF Injection, IsInjective
<1>15. IsFiniteSet(D) /\ Cardinality(D) = k - 1
  BY FS_Interval
<1>16. Cardinality(A) = Cardinality(D)
  BY <1>12, <1>14, <1>15, FS_Surjection
<1>17. Rank(S, r) + 1 = k
  BY <1>15, <1>16 DEF Rank
<1> QED BY <1>1, <1>7, <1>17

-----------------------------------------------------------------------------
Queries == [page : Nat \ {0}, status : {"", "pending"}]
Answers == {NoData} \cup [total : Nat, all : SUBSET RowIds, items : SUBSET RowIds]

ListTypeOK ==
  /\ IsTable(table) /\ query \in Queries /\ data \in Answers
  /\ lists \subseteq [query : Queries, live : BOOLEAN, reply : Answers]
  /\ begun # NoData => begun \subseteq IdsOf(table)

(* One request at most counts, it asks for the page of the URL, and only   *)
(* while no answer is shown.                                               *)
LiveInv ==
  /\ \A l \in lists : l.live => l.query = query /\ data = NoData
  /\ \A l, m \in lists : l.live /\ m.live => l = m

(* Rows of the walk that were not shown yet are behind the pages shown.    *)
Walking == begun # NoData /\ query.status = ""
Depth   == IF data = NoData THEN Offset(query) ELSE Offset(query) + PageSize
Behind(S, depth) == \A r \in table : r.id \in S => Rank(table, r) >= depth
WalkInv == Walking => Behind(begun \ seen, Depth)

(* What an answer brings of the rows in S: all that are on its page or     *)
(* before it; all of them, if it is of the last page.                      *)
LastPage(reply) == Offset(query) + PageSize >= reply.total
Brings(reply, S) ==
  /\ Behind(S \ reply.items, Offset(query) + PageSize)
  /\ LastPage(reply) => S \subseteq reply.items

ReplyInv == \A l \in lists : l.live /\ l.reply # NoData =>
  /\ Walking => Brings(l.reply, begun \ seen)
  /\ query = First => l.reply.all \subseteq IdsOf(table) /\ Brings(l.reply, l.reply.all)

(* WalkShowsAll, with the product computed.                                *)
DoneInv == Walking /\ data # NoData /\ LastPage(data) => begun \subseteq seen

ListInv == ListTypeOK /\ LiveInv /\ WalkInv /\ ReplyInv /\ DoneInv

-----------------------------------------------------------------------------
LEMMA Offsets ==
  ASSUME NEW q \in Queries
  PROVE  /\ Offset(q) \in Nat /\ PageSize \in Nat \ {0}
         /\ q.page * PageSize = Offset(q) + PageSize
         /\ Offset([q EXCEPT !.page = @ + 1]) = Offset(q) + PageSize
         /\ q.page > 1 => Offset([q EXCEPT !.page = @ - 1]) = Offset(q) - PageSize
<1>1. PICK k \in Nat \ {0} : q.page = k
  BY DEF Queries
<1>2. PageSize \in Nat \ {0}
  BY SizesArePositive
<1>3. (k - 1) * PageSize \in Nat /\ k * PageSize = (k - 1) * PageSize + PageSize
  BY <1>2
<1>4. [q EXCEPT !.page = @ + 1].page = k + 1 /\ [q EXCEPT !.page = @ - 1].page = k - 1
  BY <1>1 DEF Queries
<1>5. (k + 1) - 1 = k /\ ((k - 1) - 1) * PageSize = (k - 1) * PageSize - PageSize
  BY <1>2
<1> QED BY <1>1, <1>2, <1>3, <1>4, <1>5 DEF Offset

LEMMA FirstPage == \A s \in {"", "pending"} : [page |-> 1, status |-> s] \in Queries
<1>1. [page |-> 1, status |-> ""] \in Queries
  BY DEF Queries
<1>2. [page |-> 1, status |-> "pending"] \in Queries
  BY DEF Queries
<1> QED BY <1>1, <1>2

LEMMA ListInitInv == ListInit => ListInv
<1> SUFFICES ASSUME ListInit PROVE ListInv
  OBVIOUS
<1>1. IsTable(table)
  BY FS_EmptySet DEF ListInit, IsTable
<1>2. First \in Queries /\ NoData \in Answers
  BY FirstPage DEF Answers, First
<1>3. ListTypeOK
  BY <1>1, <1>2 DEF ListInit, ListTypeOK, Request
<1>4. LiveInv /\ WalkInv /\ ReplyInv /\ DoneInv
  BY DEF ListInit, LiveInv, WalkInv, ReplyInv, DoneInv, Request, Walking
<1> QED BY <1>3, <1>4 DEF ListInv

(* A row is added or completed: nothing that is behind comes forward.      *)
LEMMA TableGrows ==
  ASSUME ListInv, IsTable(table'), UNCHANGED <<query, data, lists, begun, seen>>,
         \A x \in table : \E y \in table' : y.id = x.id /\ y.time = x.time
  PROVE  ListInv'
<1>1. IsTable(table) /\ IdsOf(table) \subseteq IdsOf(table')
  BY DEF ListInv, ListTypeOK, IdsOf
<1>2. ASSUME NEW S, S \subseteq IdsOf(table), NEW d \in Nat, Behind(S, d)
      PROVE  Behind(S, d)'
  <2> SUFFICES ASSUME NEW y \in table', y.id \in S PROVE Rank(table', y) >= d
    BY DEF Behind
  <2>1. PICK x \in table : x.id = y.id
    BY <1>2 DEF IdsOf
  <2>2. Rank(table, x) >= d
    BY <1>2, <2>1 DEF Behind
  <2>3. Rank(table, x) <= Rank(table', y)
    BY <1>1, <2>1, RanksGrow
  <2>4. Rank(table, x) \in Nat /\ Rank(table', y) \in Nat
    BY <1>1, RankIsNat
  <2> QED BY <2>2, <2>3, <2>4
<1>3. Offset(query) \in Nat /\ PageSize \in Nat /\ Depth \in Nat
  <2>1. query \in Queries
    BY DEF ListInv, ListTypeOK
  <2>2. Offset(query) \in Nat /\ PageSize \in Nat
    BY <2>1, Offsets
  <2> QED BY <2>2 DEF Depth
<1>4. ListTypeOK'
  BY <1>1 DEF ListInv, ListTypeOK
<1>5. LiveInv'
  BY DEF ListInv, LiveInv
<1>6. (Walking' <=> Walking) /\ Depth' = Depth
  BY DEF Walking, Depth, Offset
<1>7. ASSUME Walking PROVE begun \ seen \subseteq IdsOf(table)
  BY <1>7 DEF ListInv, ListTypeOK, Walking
<1>8. WalkInv'
  <2> SUFFICES ASSUME Walking PROVE Behind(begun \ seen, Depth)'
    BY <1>6 DEF WalkInv
  <2>1. Behind(begun \ seen, Depth)
    BY DEF ListInv, WalkInv
  <2>2. PICK S : S = begun \ seen
    OBVIOUS
  <2>3. PICK d \in Nat : d = Depth
    BY <1>3
  <2>4. Behind(S, d)'
    BY <1>2, <1>7, <2>1, <2>2, <2>3
  <2> QED BY <1>6, <2>2, <2>3, <2>4 DEF Behind
<1>9. ASSUME NEW reply, NEW S, S \subseteq IdsOf(table), Brings(reply, S)
      PROVE  Brings(reply, S)'
  <2>1. PICK d \in Nat : d = Offset(query) + PageSize
    BY <1>3
  <2>2. Behind(S \ reply.items, d)'
    BY <1>2, <1>9, <2>1 DEF Brings
  <2>3. d = (Offset(query) + PageSize)' /\ (LastPage(reply)' <=> LastPage(reply))
    BY <2>1 DEF Offset, LastPage
  <2> QED BY <1>9, <2>2, <2>3 DEF Brings, Behind
<1>10. ReplyInv'
  <2> SUFFICES ASSUME NEW l \in lists, l.live, l.reply # NoData
               PROVE  /\ Walking => Brings(l.reply, begun \ seen)'
                      /\ query = First => /\ l.reply.all \subseteq IdsOf(table')
                                          /\ Brings(l.reply, l.reply.all)'
    BY <1>6 DEF ReplyInv
  <2>1. ASSUME Walking PROVE Brings(l.reply, begun \ seen)'
    <3>1. PICK S : S = begun \ seen
      OBVIOUS
    <3>2. Brings(l.reply, S)'
      BY <1>7, <1>9, <2>1, <3>1 DEF ListInv, ReplyInv
    <3> QED BY <3>1, <3>2 DEF Brings, Behind
  <2>2. ASSUME query = First
        PROVE  l.reply.all \subseteq IdsOf(table') /\ Brings(l.reply, l.reply.all)'
    BY <1>1, <1>9, <2>2 DEF ListInv, ReplyInv
  <2> QED BY <2>1, <2>2
<1>11. DoneInv'
  BY <1>6 DEF ListInv, DoneInv, LastPage, Offset
<1> QED BY <1>4, <1>5, <1>8, <1>10, <1>11 DEF ListInv

LEMMA RecordKeeps ==
  ASSUME ListInv, NEW id \in RowIds, NEW t \in Times, Record(id, t) PROVE ListInv'
<1>1. /\ table' = table \cup {Row(id, t)} /\ id \notin IdsOf(table)
      /\ UNCHANGED <<query, data, lists, begun, seen>>
  BY DEF Record
<1>2. IsTable(table) /\ Row(id, t) \in Rows /\ Row(id, t).id = id
  BY DEF ListInv, ListTypeOK, Row, Rows
<1>3. IsFiniteSet(table')
  BY <1>1, <1>2, FS_AddElement DEF IsTable
<1>4. IsTable(table')
  BY <1>1, <1>2, <1>3 DEF IsTable, IdsOf
<1> QED BY <1>1, <1>4, TableGrows

LEMMA CompleteRowKeeps == ASSUME ListInv, NEW r \in table, CompleteRow(r) PROVE ListInv'
<1>1. PICK c : c = [r EXCEPT !.status = "failed"]
  OBVIOUS
<1>2. /\ table' = (table \ {r}) \cup {c}
      /\ UNCHANGED <<query, data, lists, begun, seen>>
  BY <1>1 DEF CompleteRow
<1>3. IsTable(table) /\ c \in Rows /\ c.id = r.id /\ c.time = r.time
  BY <1>1 DEF ListInv, ListTypeOK, IsTable, Rows
<1>4. IsFiniteSet(table')
  BY <1>2, <1>3, FS_AddElement, FS_RemoveElement DEF IsTable
<1>5. IsTable(table')
  BY <1>2, <1>3, <1>4 DEF IsTable
<1>6. \A x \in table : \E y \in table' : y.id = x.id /\ y.time = x.time
  BY <1>2, <1>3
<1> QED BY <1>2, <1>5, <1>6, TableGrows

-----------------------------------------------------------------------------
(* Which rows are on the page asked for.                                   *)
LEMMA OnItsPage ==
  ASSUME IsTable(table), Offset(query) \in Nat, NEW s \in Orders(table), NEW r \in table
  PROVE  /\ Rank(table, r) >= Offset(query) + PageSize
              => ~(Offset(query) + PageSize >= Len(s))
         /\ \/ Rank(table, r) < Offset(query)
            \/ \E i \in OnPage(s, query) : s[i] = r
            \/ Rank(table, r) >= Offset(query) + PageSize
<1>1. PICK k \in Nat : k = Rank(table, r)
  BY RankIsNat
<1>2. PICK o \in Nat : o = Offset(query)
  OBVIOUS
<1>3. Len(s) \in Nat /\ DOMAIN s = 1..Len(s) /\ k + 1 \in DOMAIN s /\ s[k + 1] = r
  BY <1>1, PlaceIsRank
<1>4. k < Len(s)
  BY <1>1, <1>3
<1>5. k >= o + PageSize => ~(o + PageSize >= Len(s))
  BY <1>1, <1>2, <1>3, <1>4, SizesArePositive
<1>6. ASSUME ~(k < o), ~(k >= o + PageSize) PROVE k + 1 \in OnPage(s, query)
  <2>1. o < k + 1 /\ k + 1 <= o + PageSize
    BY <1>1, <1>2, <1>6, SizesArePositive
  <2> QED BY <1>2, <1>3, <2>1 DEF OnPage
<1> QED BY <1>1, <1>2, <1>3, <1>5, <1>6

(* An answer brings every row that was neither on an earlier page nor is   *)
(* behind the page asked for.                                              *)
LEMMA SearchBrings ==
  ASSUME ListTypeOK, NEW answer \in Search(query), query.status = "",
         NEW S, S \subseteq IdsOf(table),
         \A r \in table : r.id \in S => ~(Rank(table, r) < Offset(query))
  PROVE  Brings(answer, S)
<1>1. PICK s \in Orders(table) :
        answer = [total |-> Len(s), all |-> IdsOf(table),
                  items |-> {s[i].id : i \in OnPage(s, query)}]
  BY DEF Search, Matching
<1>2. Offset(query) \in Nat /\ PageSize \in Nat
  BY Offsets DEF ListTypeOK
<1>3. IsTable(table)
  BY DEF ListTypeOK
<1>4. ASSUME NEW r \in table, r.id \in S
      PROVE  /\ r.id \in answer.items \/ Rank(table, r) >= Offset(query) + PageSize
             /\ LastPage(answer) => r.id \in answer.items
  <2>1. /\ Rank(table, r) >= Offset(query) + PageSize
             => ~(Offset(query) + PageSize >= Len(s))
        /\ \/ \E i \in OnPage(s, query) : s[i] = r
           \/ Rank(table, r) >= Offset(query) + PageSize
    BY <1>2, <1>3, <1>4, OnItsPage
  <2>2. (\E i \in OnPage(s, query) : s[i] = r) => r.id \in answer.items
    BY <1>1
  <2>3. LastPage(answer) => ~(Rank(table, r) >= Offset(query) + PageSize)
    <3>1. answer.total = Len(s)
      BY <1>1
    <3> QED BY <2>1, <3>1 DEF LastPage
  <2> QED BY <2>1, <2>2, <2>3
<1>5. Behind(S \ answer.items, Offset(query) + PageSize)
  BY <1>4 DEF Behind
<1>6. LastPage(answer) => S \subseteq answer.items
  BY <1>4 DEF IdsOf
<1> QED BY <1>5, <1>6 DEF Brings

LEMMA SearchForms ==
  ASSUME ListTypeOK, NEW q \in Queries, NEW answer \in Search(q)
  PROVE  answer \in Answers
<1>1. PICK s \in Orders(Matching(q)) :
        answer = [total |-> Len(s), all |-> IdsOf(Matching(q)),
                  items |-> {s[i].id : i \in OnPage(s, q)}]
  BY DEF Search
<1>2. IsTable(Matching(q))
  BY FS_Subset DEF ListTypeOK, IsTable, Matching
<1>3. /\ Len(s) \in Nat /\ DOMAIN s = 1..Len(s) /\ s \in [1..Len(s) -> Matching(q)]
  BY <1>2, OrderForm
<1>4. \A i \in OnPage(s, q) : s[i].id \in RowIds
  BY <1>2, <1>3 DEF OnPage, IsTable, Rows
<1>5. IdsOf(Matching(q)) \subseteq RowIds
  BY <1>2 DEF IdsOf, IsTable, Rows
<1> QED BY <1>1, <1>3, <1>4, <1>5 DEF Answers

LEMMA AnswerKeeps == ASSUME ListInv, NEW l \in lists, Answer(l) PROVE ListInv'
<1>1. PICK answer \in Search(l.query) :
        lists' = (lists \ {l}) \cup {[l EXCEPT !.reply = answer]}
  BY DEF Answer
<1>2. UNCHANGED <<table, query, data, begun, seen>>
  BY DEF Answer
<1>3. ListTypeOK /\ l \in [query : Queries, live : BOOLEAN, reply : Answers]
  BY DEF ListInv, ListTypeOK
<1>4. PICK m : m = [l EXCEPT !.reply = answer]
  OBVIOUS
<1>5. answer \in Answers
  BY <1>3, SearchForms
<1>6. /\ m \in [query : Queries, live : BOOLEAN, reply : Answers]
      /\ m.query = l.query /\ m.live = l.live /\ m.reply = answer
  BY <1>3, <1>4, <1>5
<1>7. lists' = (lists \ {l}) \cup {m}
  BY <1>1, <1>4
<1>8. ListTypeOK'
  BY <1>2, <1>3, <1>6, <1>7 DEF ListTypeOK
<1>9. LiveInv'
  BY <1>2, <1>6, <1>7 DEF ListInv, LiveInv
<1>10. WalkInv' /\ DoneInv'
  BY <1>2 DEF ListInv, WalkInv, DoneInv, Walking, Depth, Behind, LastPage, Offset
<1>11. ASSUME l.live
       PROVE  /\ Walking => Brings(answer, begun \ seen)
              /\ query = First => answer.all \subseteq IdsOf(table)
                                  /\ Brings(answer, answer.all)
  <2>1. answer \in Search(query) /\ data = NoData
    BY <1>11 DEF ListInv, LiveInv
  <2>2. IsTable(table) /\ query \in Queries
    BY <1>3 DEF ListTypeOK
  <2>3. Offset(query) \in Nat
    BY <2>2, Offsets
  <2>4. ASSUME NEW r \in table, Rank(table, r) >= Offset(query)
        PROVE  ~(Rank(table, r) < Offset(query))
    <3>1. PICK k \in Nat : k = Rank(table, r)
      BY <2>2, RankIsNat
    <3>2. PICK o \in Nat : o = Offset(query)
      BY <2>3
    <3> QED BY <2>4, <3>1, <3>2
  <2>5. ASSUME Walking PROVE Brings(answer, begun \ seen)
    <3>1. begun \ seen \subseteq IdsOf(table) /\ query.status = ""
      BY <1>3, <2>5 DEF ListTypeOK, Walking
    <3>2. \A r \in table : r.id \in begun \ seen => Rank(table, r) >= Offset(query)
      BY <2>1, <2>5 DEF ListInv, WalkInv, Depth, Behind
    <3> QED BY <1>3, <2>1, <2>4, <3>1, <3>2, SearchBrings
  <2>6. ASSUME query = First
        PROVE  answer.all \subseteq IdsOf(table) /\ Brings(answer, answer.all)
    <3>1. query.status = "" /\ Offset(query) = 0
      <4>1. query.page = 1 /\ query.status = ""
        BY <2>6 DEF First
      <4>2. (1 - 1) * PageSize = 0
        BY SizesArePositive
      <4> QED BY <4>1, <4>2 DEF Offset
    <3>2. answer.all = IdsOf(table)
      <4>1. Matching(query) = table
        BY <3>1 DEF Matching
      <4>2. answer.all = IdsOf(Matching(query))
        BY <2>1 DEF Search
      <4> QED BY <4>1, <4>2
    <3>3. \A r \in table : ~(Rank(table, r) < Offset(query))
      <4>1. SUFFICES ASSUME NEW r \in table PROVE ~(Rank(table, r) < 0)
        BY <3>1
      <4>2. PICK k \in Nat : k = Rank(table, r)
        BY <2>2, RankIsNat
      <4> QED BY <4>2
    <3> QED BY <1>3, <2>1, <3>1, <3>2, <3>3, SearchBrings
  <2> QED BY <2>5, <2>6
<1>12. ReplyInv'
  <2> SUFFICES ASSUME NEW x \in lists', x.live, x.reply # NoData
               PROVE  /\ Walking => Brings(x.reply, begun \ seen)
                      /\ query = First => x.reply.all \subseteq IdsOf(table)
                                          /\ Brings(x.reply, x.reply.all)
    BY <1>2 DEF ReplyInv, Walking, Brings, Behind, LastPage, Offset
  <2>1. CASE x = m
    BY <1>6, <1>11, <2>1
  <2>2. CASE x \in lists
    BY <2>2 DEF ListInv, ReplyInv
  <2> QED BY <1>7, <2>1, <2>2
<1> QED BY <1>8, <1>9, <1>10, <1>12 DEF ListInv

(* The answer of the page is shown: what is left is behind that page.      *)
LEMMA ArriveKeeps == ASSUME ListInv, NEW l \in lists, Arrive(l) PROVE ListInv'
<1>1. l.reply # NoData /\ lists' = lists \ {l} /\ UNCHANGED <<table, query>>
  BY DEF Arrive
<1>2. ListTypeOK /\ l \in [query : Queries, live : BOOLEAN, reply : Answers]
  BY DEF ListInv, ListTypeOK
<1>3. CASE ~l.live
  <2>1. UNCHANGED <<data, begun, seen>>
    BY <1>3 DEF Arrive
  <2>2. ListTypeOK' /\ LiveInv'
    BY <1>1, <2>1 DEF ListInv, ListTypeOK, LiveInv
  <2>3. WalkInv' /\ DoneInv'
    BY <1>1, <2>1 DEF ListInv, WalkInv, DoneInv, Walking, Depth, Behind, LastPage, Offset
  <2>4. ReplyInv'
    BY <1>1, <2>1 DEF ListInv, ReplyInv, Walking, Brings, Behind, LastPage, Offset
  <2> QED BY <2>2, <2>3, <2>4 DEF ListInv
<1>4. CASE l.live
  <2>1. /\ data' = l.reply
        /\ begun' = IF query = First THEN l.reply.all ELSE begun
        /\ seen' = l.reply.items \cup (IF query = First THEN {} ELSE seen)
    BY <1>4 DEF Arrive
  <2>2. \A m \in lists' : ~m.live
    BY <1>1, <1>4 DEF ListInv, LiveInv
  <2>3. /\ Walking => Brings(l.reply, begun \ seen)
        /\ query = First => l.reply.all \subseteq IdsOf(table) /\ Brings(l.reply, l.reply.all)
    BY <1>1, <1>4 DEF ListInv, ReplyInv
  <2>4. Walking' => Brings(l.reply, begun' \ seen')
    <3>1. CASE query = First
      <4>1. Brings(l.reply, l.reply.all) /\ begun' \ seen' = l.reply.all \ l.reply.items
        BY <2>1, <2>3, <3>1
      <4> QED BY <4>1 DEF Brings, Behind
    <3>2. CASE query # First
      <4>1. begun' = begun /\ seen' = l.reply.items \cup seen
        BY <2>1, <3>2
      <4>2. Walking' => Brings(l.reply, begun \ seen)
        BY <1>1, <2>3, <4>1 DEF Walking
      <4> QED BY <4>1, <4>2 DEF Brings, Behind
    <3> QED BY <3>1, <3>2
  <2>5. (begun' \ seen') \cap l.reply.items = {}
    BY <2>1
  <2>6. ListTypeOK'
    BY <1>1, <1>2, <2>1, <2>3 DEF ListTypeOK
  <2>7. LiveInv' /\ ReplyInv'
    BY <2>2 DEF LiveInv, ReplyInv
  <2>8. ASSUME Walking' PROVE Behind(begun \ seen, Depth)'
    <3>1. Behind((begun' \ seen') \ l.reply.items, Offset(query) + PageSize)
      BY <2>4, <2>8 DEF Brings
    <3>2. (begun' \ seen') \ l.reply.items = begun' \ seen'
      BY <2>5
    <3>3. Depth' = Offset(query) + PageSize
      BY <1>1, <2>1 DEF Depth, Offset
    <3> QED BY <1>1, <3>1, <3>2, <3>3 DEF Behind
  <2>9. WalkInv'
    BY <2>8 DEF WalkInv
  <2>10. DoneInv'
    <3> SUFFICES ASSUME Walking', LastPage(data)' PROVE begun' \subseteq seen'
      BY DEF DoneInv
    <3>1. LastPage(l.reply)
      BY <1>1, <2>1 DEF LastPage, Offset
    <3>2. begun' \ seen' \subseteq l.reply.items
      BY <2>4, <3>1 DEF Brings
    <3> QED BY <2>5, <3>2
  <2> QED BY <2>6, <2>7, <2>9, <2>10 DEF ListInv
<1> QED BY <1>3, <1>4

LEMMA FailKeeps == ASSUME ListInv, NEW l \in lists, Fail(l) PROVE ListInv'
<1>1. lists' = lists \ {l} /\ UNCHANGED <<table, query, data, begun, seen>>
  BY DEF Fail
<1>2. ListTypeOK' /\ LiveInv'
  BY <1>1 DEF ListInv, ListTypeOK, LiveInv
<1>3. WalkInv' /\ DoneInv'
  BY <1>1 DEF ListInv, WalkInv, DoneInv, Walking, Depth, Behind, LastPage, Offset
<1>4. ReplyInv'
  BY <1>1 DEF ListInv, ReplyInv, Walking, Brings, Behind, LastPage, Offset
<1> QED BY <1>2, <1>3, <1>4 DEF ListInv

-----------------------------------------------------------------------------
(* A request for a page gives up the one before it; no answer is shown.    *)
LEMMA FetchForms ==
  ASSUME ListInv, NEW q \in Queries, Fetch(q),
         begun' # NoData => begun' \subseteq IdsOf(table)
  PROVE  ListTypeOK' /\ LiveInv' /\ ReplyInv' /\ DoneInv'
<1>1. /\ query' = q /\ data' = NoData /\ table' = table
      /\ lists' = {[l EXCEPT !.live = FALSE] : l \in lists} \cup {Request(q)}
  BY DEF Fetch
<1>2. Request(q) \in [query : Queries, live : BOOLEAN, reply : Answers]
  BY DEF Request, Answers
<1>3. \A l \in lists : /\ [l EXCEPT !.live = FALSE] \in
                            [query : Queries, live : BOOLEAN, reply : Answers]
                       /\ [l EXCEPT !.live = FALSE].live = FALSE
  BY DEF ListInv, ListTypeOK
<1>4. \A l \in lists' : l.live => l = Request(q)
  BY <1>1, <1>3
<1>5. Request(q).query = q /\ Request(q).reply = NoData
  BY DEF Request
<1>6. ListTypeOK'
  BY <1>1, <1>2, <1>3 DEF ListInv, ListTypeOK, Answers
<1>7. LiveInv' /\ ReplyInv' /\ DoneInv'
  BY <1>1, <1>4, <1>5 DEF LiveInv, ReplyInv, DoneInv
<1> QED BY <1>6, <1>7

(* The walk goes on where it was, or falls back.                           *)
LEMMA FetchKeeps ==
  ASSUME ListInv, NEW q \in Queries, Fetch(q), UNCHANGED <<begun, seen>>,
         q.status = query.status, Offset(q) <= Depth
  PROVE  ListInv'
<1>1. query' = q /\ data' = NoData /\ table' = table
  BY DEF Fetch
<1>2. ListTypeOK' /\ LiveInv' /\ ReplyInv' /\ DoneInv'
  BY FetchForms DEF ListInv, ListTypeOK
<1>3. ASSUME Walking' PROVE Behind(begun \ seen, Depth)'
  <2>1. Behind(begun \ seen, Depth)
    BY <1>1, <1>3 DEF ListInv, WalkInv, Walking
  <2>2. Depth' = Offset(q)
    BY <1>1 DEF Depth, Offset
  <2>3. ASSUME NEW r \in table, Rank(table, r) >= Depth PROVE Rank(table, r) >= Offset(q)
    <3>1. PICK k \in Nat : k = Rank(table, r)
      BY RankIsNat DEF ListInv, ListTypeOK
    <3>2. PICK o \in Nat : o = Offset(q)
      BY Offsets
    <3>3. query \in Queries
      BY DEF ListInv, ListTypeOK
    <3>4. Offset(query) \in Nat /\ PageSize \in Nat
      BY <3>3, Offsets
    <3>5. PICK d \in Nat : d = Depth
      BY <3>4 DEF Depth
    <3>6. k >= d /\ o <= d
      BY <2>3, <3>1, <3>2, <3>5
    <3> QED BY <3>1, <3>2, <3>6
  <2> QED BY <1>1, <2>1, <2>2, <2>3 DEF Behind
<1> QED BY <1>2, <1>3 DEF ListInv, WalkInv

LEMMA TurnPageKeeps ==
  ASSUME ListInv, NextPage \/ PreviousPage \/ RefreshList PROVE ListInv'
<1>1. query \in Queries
  BY DEF ListInv, ListTypeOK
<1>2. PICK o \in Nat : o = Offset(query)
  BY <1>1, Offsets
<1>3. PICK p \in Nat : p = PageSize
  BY SizesArePositive
<1>4. Depth = IF data = NoData THEN o ELSE o + p
  BY <1>2, <1>3 DEF Depth
<1>5. CASE NextPage
  <2>1. PICK q : q = [query EXCEPT !.page = @ + 1]
    OBVIOUS
  <2>2. /\ data # NoData /\ Fetch(q) /\ UNCHANGED <<begun, seen>>
    BY <1>5, <2>1 DEF NextPage
  <2>3. q \in Queries /\ q.status = query.status
    <3>1. PICK n \in Nat \ {0} : n = query.page
      BY <1>1 DEF Queries
    <3>2. q = [page |-> n + 1, status |-> query.status] /\ query.status \in {"", "pending"}
      BY <1>1, <2>1, <3>1 DEF Queries
    <3>3. n + 1 \in Nat \ {0}
      BY <3>1
    <3> QED BY <3>2, <3>3 DEF Queries
  <2>4. Offset(q) = o + p
    BY <1>1, <1>2, <1>3, <2>1, Offsets
  <2>5. Offset(q) <= Depth
    BY <1>4, <2>2, <2>4
  <2> QED BY <2>2, <2>3, <2>5, FetchKeeps
<1>6. CASE PreviousPage
  <2>1. PICK q : q = [query EXCEPT !.page = @ - 1]
    OBVIOUS
  <2>2. query.page > 1 /\ Fetch(q) /\ UNCHANGED <<begun, seen>>
    BY <1>6, <2>1 DEF PreviousPage
  <2>3. q \in Queries /\ q.status = query.status
    <3>1. PICK n \in Nat \ {0} : n = query.page
      BY <1>1 DEF Queries
    <3>2. q = [page |-> n - 1, status |-> query.status] /\ query.status \in {"", "pending"}
      BY <1>1, <2>1, <3>1 DEF Queries
    <3>3. n - 1 \in Nat \ {0}
      BY <2>2, <3>1
    <3> QED BY <3>2, <3>3 DEF Queries
  <2>4. Offset(q) = o - p
    BY <1>1, <1>2, <1>3, <2>1, <2>2, Offsets
  <2>5. Offset(q) <= Depth
    BY <1>4, <2>4
  <2> QED BY <2>2, <2>3, <2>5, FetchKeeps
<1>7. CASE RefreshList
  <2>1. Fetch(query) /\ UNCHANGED <<begun, seen>>
    BY <1>7 DEF RefreshList
  <2>2. Offset(query) <= Depth
    BY <1>2, <1>4
  <2> QED BY <1>1, <2>1, <2>2, FetchKeeps
<1> QED BY <1>5, <1>6, <1>7

LEMMA ChooseKeeps ==
  ASSUME ListInv, NEW s \in {"", "pending"}, Choose(s) PROVE ListInv'
<1>1. PICK q : q = [page |-> 1, status |-> s]
  OBVIOUS
<1>2. q \in Queries
  BY <1>1, FirstPage
<1>3. Fetch(q) /\ begun' = NoData
  BY <1>1 DEF Choose
<1>4. ListTypeOK' /\ LiveInv' /\ ReplyInv' /\ DoneInv'
  BY <1>2, <1>3, FetchForms
<1>5. WalkInv'
  BY <1>3 DEF WalkInv, Walking
<1> QED BY <1>4, <1>5 DEF ListInv

LEMMA ListStutters == ListInv /\ UNCHANGED listVars => ListInv'
<1> SUFFICES ASSUME ListInv, UNCHANGED listVars PROVE ListInv'
  OBVIOUS
<1>1. UNCHANGED <<table, query, data, lists, begun, seen>>
  BY DEF listVars
<1>2. ListTypeOK' /\ LiveInv'
  BY <1>1 DEF ListInv, ListTypeOK, LiveInv
<1>3. WalkInv' /\ DoneInv'
  BY <1>1 DEF ListInv, WalkInv, DoneInv, Walking, Depth, Behind, LastPage, Offset
<1>4. ReplyInv'
  BY <1>1 DEF ListInv, ReplyInv, Walking, Brings, Behind, LastPage, Offset
<1> QED BY <1>2, <1>3, <1>4 DEF ListInv

LEMMA ListStep == ListInv /\ [ListNext]_listVars => ListInv'
BY ListStutters, RecordKeeps, CompleteRowKeeps, AnswerKeeps, ArriveKeeps, FailKeeps,
   TurnPageKeeps, ChooseKeeps
   DEF ListNext

LEMMA ListInvariant == PageSpec => []ListInv
<1>1. PageInit => ListInv
  BY ListInitInv DEF PageInit
<1>2. ListInv /\ [ShowList \/ ShowDetail]_PageVars => ListInv'
  BY ListStep DEF ShowList, ShowDetail, PageVars
<1> QED BY <1>1, <1>2, PTL DEF PageSpec

(* Whoever walks through the unfiltered list sees every row there was when *)
(* the walk began, whatever is recorded, retried or reordered meanwhile.   *)
THEOREM WalkShowsAllThm == PageSpec => []WalkShowsAll
<1>1. ASSUME ListInv PROVE WalkShowsAll
  <2>1. query \in Queries
    BY <1>1 DEF ListInv, ListTypeOK
  <2>2. query.page * PageSize = Offset(query) + PageSize
    BY <2>1, Offsets
  <2> QED BY <1>1, <2>2 DEF ListInv, DoneInv, Walking, LastPage, WalkShowsAll
<1>2. ListInv => WalkShowsAll
  BY <1>1
<1> QED BY <1>2, ListInvariant, PTL
=============================================================================
