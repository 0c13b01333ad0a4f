--------------------------- MODULE EditorialProofs ---------------------------
(***************************************************************************)
(* Proofs about Editorial, for any posts, texts and requests.              *)
(***************************************************************************)
EXTENDS Editorial, TLAPS

(* What a request holds on to is a post that exists, and its loaded status *)
(* is one an edit may start from; nothing is archived (no service does it).*)
RequestsKnowPosts ==
  \A r \in Requests :
    /\ req[r].pc \in {"rewrite", "delete", "save"} => post[req[r].p].status # "none"
    /\ req[r].pc = "save" => req[r].status # "archived"
    /\ req[r].pc = "approve" => \A p \in req[r].ps : post[p].status # "none"

NoneArchived == \A p \in Posts : post[p].status # "archived"

TextsAreTexts == \A p \in Posts : post[p].status # "none" => post[p].text \in Texts

EditorialInv ==
  /\ TypeOK
  /\ TextsAreTexts
  /\ NoneArchived
  /\ RequestsKnowPosts
  /\ ApprovedIsStamped
  /\ NothingIsLostUnlessCrossed

(* What the actions have in common: a new row, and a request that goes on. *)
LEMMA AfterEditType ==
  ASSUME NEW s \in PostStatuses \ {"archived"}
  PROVE  StatusAfterEdit(s) \in {"draft", "pending_review"}
  BY DEF PostStatuses, StatusAfterEdit

LEMMA InitHolds == Init => EditorialInv
<1> SUFFICES ASSUME Init PROVE EditorialInv
  OBVIOUS
<1>1. TypeOK
  <2>1. NoRow \in Row
    BY DEF NoRow, Row
  <2>2. Idle \in ReqState
    BY DEF Idle, ReqState
  <2> QED
    BY <2>1, <2>2 DEF Init, TypeOK
<1>2. TextsAreTexts /\ NoneArchived /\ ApprovedIsStamped
  BY DEF Init, NoRow, TextsAreTexts, NoneArchived, ApprovedIsStamped
<1>3. RequestsKnowPosts
  BY DEF Init, Idle, RequestsKnowPosts
<1>4. NothingIsLostUnlessCrossed
  BY DEF Init, NothingIsLostUnlessCrossed
<1> QED
  BY <1>1, <1>2, <1>3, <1>4 DEF EditorialInv

(* Creating a post, or a copy of one.                                      *)
LEMMA NewPostKeeps ==
  ASSUME EditorialInv, NEW p \in Posts, NEW s \in {"draft", "ai_generated"},
         NEW t \in Texts, NewPost(p, s, t), UNCHANGED req
  PROVE  EditorialInv'
<1>1. post'[p] = [status |-> s, text |-> t, stamped |-> FALSE, deleted |-> FALSE]
      /\ \A q \in Posts \ {p} : post'[q] = post[q]
  BY DEF EditorialInv, TypeOK, NewPost, NoRow
<1>2. post' \in [Posts -> Row]
  <2>1. [status |-> s, text |-> t, stamped |-> FALSE, deleted |-> FALSE] \in Row
    BY DEF Row, PostStatuses
  <2> QED
    BY <2>1 DEF EditorialInv, TypeOK, NewPost, NoRow
<1>3. had' = [had EXCEPT ![p] = {t}] /\ UNCHANGED <<revisions, req, crossed>>
  BY DEF NewPost
<1>4. TypeOK'
  BY <1>2, <1>3 DEF EditorialInv, TypeOK
<1>5. TextsAreTexts' /\ NoneArchived' /\ ApprovedIsStamped'
  BY <1>1 DEF EditorialInv, TextsAreTexts, NoneArchived, ApprovedIsStamped
<1>6. RequestsKnowPosts'
  <2>1. \A q \in Posts : post[q].status # "none" => post'[q].status # "none"
    BY <1>1
  <2>2. \A r \in Requests : /\ req[r].pc \in {"rewrite", "delete", "save"} => req[r].p \in Posts
                            /\ req[r].pc = "approve" => req[r].ps \subseteq Posts
    BY DEF EditorialInv, TypeOK, ReqState
  <2> QED
    BY <1>3, <2>1, <2>2 DEF EditorialInv, RequestsKnowPosts
<1>7. NothingIsLostUnlessCrossed'
  <2> SUFFICES ASSUME NEW q \in Posts, q \notin crossed'
               PROVE  had'[q] \subseteq revisions'[q] \cup {post'[q].text}
    BY DEF NothingIsLostUnlessCrossed
  <2>1. CASE q = p
    BY <1>1, <1>3, <2>1 DEF EditorialInv, TypeOK
  <2>2. CASE q # p
    BY <1>1, <1>3, <2>2 DEF EditorialInv, TypeOK, NothingIsLostUnlessCrossed
  <2> QED
    BY <2>1, <2>2
<1> QED
  BY <1>4, <1>5, <1>6, <1>7 DEF EditorialInv

(* A request takes its next step without touching a table.                 *)
LEMMA RequestKeeps ==
  ASSUME EditorialInv, UNCHANGED <<post, revisions, had, crossed>>,
         NEW r \in Requests, NEW e \in ReqState, req' = [req EXCEPT ![r] = e],
         e.pc \in {"rewrite", "delete", "save"} => post[e.p].status # "none",
         e.pc = "save" => e.status # "archived",
         e.pc = "approve" => \A p \in e.ps : post[p].status # "none"
  PROVE  EditorialInv'
<1>1. TypeOK'
  BY DEF EditorialInv, TypeOK
<1>2. \A q \in Requests : req'[q] = IF q = r THEN e ELSE req[q]
  BY DEF EditorialInv, TypeOK
<1>3. RequestsKnowPosts'
  BY <1>2 DEF EditorialInv, RequestsKnowPosts
<1>4. (TextsAreTexts /\ NoneArchived /\ ApprovedIsStamped /\ NothingIsLostUnlessCrossed)'
  BY DEF EditorialInv, TextsAreTexts, NoneArchived, ApprovedIsStamped,
         NothingIsLostUnlessCrossed
<1> QED
  BY <1>1, <1>3, <1>4 DEF EditorialInv

LEMMA IdleFacts == Idle \in ReqState /\ Idle.pc = "idle"
  BY DEF Idle, ReqState

LEMMA EditLoadsKeeps ==
  ASSUME EditorialInv, NEW r \in Requests, NEW p \in Posts, NEW t \in Texts,
         EditLoads(r, p, t)
  PROVE  EditorialInv'
<1> DEFINE e == [pc |-> "save", p |-> p, loaded |-> post[p].text,
                 status |-> post[p].status, text |-> t]
<1>1. post[p].status \in PostStatuses /\ post[p].text \in Texts
  BY DEF EditorialInv, TypeOK, Row, TextsAreTexts, EditLoads, Live
<1>2. e \in ReqState
  BY <1>1 DEF ReqState
<1>3. e.pc = "save" /\ e.p = p /\ e.status = post[p].status
  OBVIOUS
<1>4. req' = [req EXCEPT ![r] = e] /\ UNCHANGED <<post, revisions, had, crossed>>
  BY DEF EditLoads, Begin
<1>5. post[p].status # "archived" /\ post[p].status # "none"
  BY DEF EditLoads, IsEditable, Live
<1> HIDE DEF e
<1> QED
  BY <1>2, <1>3, <1>4, <1>5, RequestKeeps

LEMMA RewriteAnswersKeeps ==
  ASSUME EditorialInv, NEW r \in Requests, NEW t \in Texts, RewriteAnswers(r, t)
  PROVE  EditorialInv'
<1> DEFINE p == req[r].p
           e == [pc |-> "save", p |-> p, loaded |-> post[p].text,
                 status |-> post[p].status, text |-> t]
<1>0. p \in Posts
  BY DEF EditorialInv, TypeOK, ReqState, RewriteAnswers
<1>1. post[p].status \in PostStatuses /\ post[p].text \in Texts
  BY <1>0 DEF EditorialInv, TypeOK, Row, TextsAreTexts, RewriteAnswers, Live
<1>2. e \in ReqState
  BY <1>0, <1>1 DEF ReqState
<1>3. e.pc = "save" /\ e.p = p /\ e.status = post[p].status
  OBVIOUS
<1>4. req' = [req EXCEPT ![r] = e] /\ UNCHANGED <<post, revisions, had, crossed>>
  BY DEF RewriteAnswers
<1>5. post[p].status # "archived" /\ post[p].status # "none"
  BY DEF RewriteAnswers, IsEditable, Live
<1> HIDE DEF e, p
<1> QED
  BY <1>2, <1>3, <1>4, <1>5, RequestKeeps

(* A write of the tables by a request that is then over.                   *)
LEMMA SaveKeeps ==
  ASSUME EditorialInv, NEW r \in Requests, Save(r)
  PROVE  EditorialInv'
<1> DEFINE e == req[r]
           p == req[r].p
           s == StatusAfterEdit(req[r].status)
<1>1. /\ e.pc = "save" /\ p \in Posts /\ e.loaded \in Texts /\ e.text \in Texts
      /\ e.status \in PostStatuses /\ e.status # "archived"
      /\ post[p].status # "none"
  BY DEF EditorialInv, TypeOK, ReqState, Save, RequestsKnowPosts
<1>2. s \in {"draft", "pending_review"}
  BY <1>1, AfterEditType
<1>3. /\ post'[p] = [post[p] EXCEPT !.text = e.text, !.status = s, !.stamped = FALSE]
      /\ \A q \in Posts \ {p} : post'[q] = post[q]
      /\ post' \in [Posts -> Row]
  <2>1. [post[p] EXCEPT !.text = e.text, !.status = s, !.stamped = FALSE] \in Row
    BY <1>1, <1>2 DEF EditorialInv, TypeOK, Row, PostStatuses
  <2> QED
    BY <1>1, <2>1 DEF EditorialInv, TypeOK, Save
<1>4. post'[p].text = e.text /\ post'[p].status = s /\ post'[p].stamped = FALSE
  BY <1>1, <1>3 DEF EditorialInv, TypeOK, Row
<1>5. /\ revisions' = [revisions EXCEPT ![p] = @ \cup Snapshot(e)]
      /\ had' = [had EXCEPT ![p] = @ \cup {e.text}]
      /\ crossed' = IF post[p].text = e.loaded THEN crossed ELSE crossed \cup {p}
      /\ req' = [req EXCEPT ![r] = Idle]
  BY DEF Save, End
<1> HIDE DEF e, p, s
<1>6. TypeOK'
  <2>1. Snapshot(e) \subseteq Texts
    BY <1>1 DEF Snapshot
  <2>2. revisions' \in [Posts -> SUBSET Texts]
    BY <1>1, <1>5, <2>1 DEF EditorialInv, TypeOK
  <2>3. had' \in [Posts -> SUBSET Texts]
    BY <1>1, <1>5 DEF EditorialInv, TypeOK
  <2>4. req' \in [Requests -> ReqState]
    BY <1>1, <1>5, IdleFacts DEF EditorialInv, TypeOK
  <2>5. crossed' \subseteq Posts
    <3>1. crossed \subseteq Posts /\ p \in Posts
      BY <1>1 DEF EditorialInv, TypeOK
    <3>2. crossed' = crossed \/ crossed' = crossed \cup {p}
      BY <1>5
    <3> QED
      BY <3>1, <3>2
  <2>6. post' \in [Posts -> Row]
    BY <1>3
  <2> QED
    BY <2>2, <2>3, <2>4, <2>5, <2>6 DEF TypeOK
<1>7. TextsAreTexts' /\ NoneArchived' /\ ApprovedIsStamped'
  <2>1. \A q \in Posts : q # p => post'[q] = post[q]
    BY <1>3
  <2>2. e.text \in Texts
    BY <1>1
  <2>3. TextsAreTexts'
    BY <1>4, <2>1, <2>2 DEF EditorialInv, TextsAreTexts
  <2>4. NoneArchived'
    BY <1>2, <1>4, <2>1 DEF EditorialInv, NoneArchived
  <2>5. ApprovedIsStamped'
    BY <1>2, <1>4, <2>1 DEF EditorialInv, ApprovedIsStamped
  <2> QED
    BY <2>3, <2>4, <2>5
<1>8. RequestsKnowPosts'
  <2>1. \A q \in Posts : post[q].status # "none" => post'[q].status # "none"
    BY <1>2, <1>3, <1>4
  <2>2. \A q \in Requests : req'[q] = IF q = r THEN Idle ELSE req[q]
    BY <1>5 DEF EditorialInv, TypeOK
  <2>3. \A q \in Requests : /\ req[q].pc \in {"rewrite", "delete", "save"} => req[q].p \in Posts
                            /\ req[q].pc = "approve" => req[q].ps \subseteq Posts
    BY DEF EditorialInv, TypeOK, ReqState
  <2> QED
    BY <2>1, <2>2, <2>3, IdleFacts DEF EditorialInv, RequestsKnowPosts
<1>9. NothingIsLostUnlessCrossed'
  <2> SUFFICES ASSUME NEW q \in Posts, q \notin crossed'
               PROVE  had'[q] \subseteq revisions'[q] \cup {post'[q].text}
    BY DEF NothingIsLostUnlessCrossed
  <2>1. q \notin crossed /\ had[q] \subseteq revisions[q] \cup {post[q].text}
    BY <1>5 DEF EditorialInv, NothingIsLostUnlessCrossed
  <2>2. CASE q # p
    BY <1>3, <1>5, <2>1, <2>2 DEF EditorialInv, TypeOK
  <2>3. CASE q = p
    <3>1. post[p].text = e.loaded
      BY <1>5, <2>3
    <3>2. had'[q] = had[q] \cup {e.text} /\ revisions'[q] = revisions[q] \cup Snapshot(e)
      BY <1>1, <1>5, <2>3 DEF EditorialInv, TypeOK
    <3> QED
      BY <1>4, <2>1, <2>3, <3>1, <3>2 DEF Snapshot
  <2> QED
    BY <2>2, <2>3
<1> QED
  BY <1>6, <1>7, <1>8, <1>9 DEF EditorialInv

(* A write that leaves every text alone and keeps stamps and approvals in  *)
(* step: approving, deleting, bringing back.                               *)
LEMMA MarkingKeeps ==
  ASSUME EditorialInv, post' \in [Posts -> Row],
         \A p \in Posts : /\ post'[p].text = post[p].text
                          /\ (post'[p].status = "none") = (post[p].status = "none")
                          /\ post'[p].status # "archived"
                          /\ (post'[p].status = "approved") <=> post'[p].stamped,
         UNCHANGED <<revisions, had, crossed>>,
         UNCHANGED req \/ \E r \in Requests : req' = [req EXCEPT ![r] = Idle]
  PROVE  EditorialInv'
<1>1. req' \in [Requests -> ReqState] /\ \A q \in Requests : req'[q] \in {Idle, req[q]}
  BY IdleFacts DEF EditorialInv, TypeOK
<1>2. TypeOK'
  BY <1>1 DEF EditorialInv, TypeOK
<1>3. TextsAreTexts' /\ NoneArchived' /\ ApprovedIsStamped' /\ NothingIsLostUnlessCrossed'
  BY DEF EditorialInv, TextsAreTexts, NoneArchived, ApprovedIsStamped,
         NothingIsLostUnlessCrossed
<1>4. RequestsKnowPosts'
  <2>1. \A q \in Requests : /\ req[q].pc \in {"rewrite", "delete", "save"} => req[q].p \in Posts
                            /\ req[q].pc = "approve" => req[q].ps \subseteq Posts
    BY DEF EditorialInv, TypeOK, ReqState
  <2> QED
    BY <1>1, <2>1, IdleFacts DEF EditorialInv, RequestsKnowPosts
<1> QED
  BY <1>2, <1>3, <1>4 DEF EditorialInv

LEMMA ApproveWritesKeeps ==
  ASSUME EditorialInv, NEW r \in Requests, ApproveWrites(r)
  PROVE  EditorialInv'
<1> DEFINE ps == req[r].ps
<1>1. ps \subseteq Posts /\ \A p \in ps : post[p].status # "none"
  BY DEF EditorialInv, TypeOK, ReqState, ApproveWrites, RequestsKnowPosts
<1>2. \A p \in Posts : post'[p] = IF p \in ps
                         THEN [post[p] EXCEPT !.status = "approved", !.stamped = TRUE]
                         ELSE post[p]
  BY DEF ApproveWrites
<1>3. \A p \in Posts : [post[p] EXCEPT !.status = "approved", !.stamped = TRUE] \in Row
  BY DEF EditorialInv, TypeOK, Row, PostStatuses
<1>4. post' \in [Posts -> Row]
  BY <1>3 DEF EditorialInv, TypeOK, ApproveWrites
<1> HIDE DEF ps
<1>5. \A p \in Posts : /\ post'[p].text = post[p].text
                       /\ (post'[p].status = "none") = (post[p].status = "none")
                       /\ post'[p].status # "archived"
                       /\ (post'[p].status = "approved") <=> post'[p].stamped
  <2> TAKE p \in Posts
  <2>1. post[p] \in Row
    BY DEF EditorialInv, TypeOK
  <2>2. CASE p \in ps
    <3>1. /\ post'[p].text = post[p].text /\ post'[p].status = "approved"
          /\ post'[p].stamped = TRUE
      BY <1>2, <2>1, <2>2 DEF Row
    <3> QED
      BY <1>1, <2>2, <3>1
  <2>3. CASE p \notin ps
    BY <1>2, <2>3 DEF EditorialInv, ApprovedIsStamped, NoneArchived
  <2> QED
    BY <2>2, <2>3
<1>6. UNCHANGED <<revisions, had, crossed>> /\ req' = [req EXCEPT ![r] = Idle]
  BY DEF ApproveWrites, End
<1> QED
  BY <1>4, <1>5, <1>6, MarkingKeeps

LEMMA DeleteWritesKeeps ==
  ASSUME EditorialInv, NEW r \in Requests, DeleteWrites(r)
  PROVE  EditorialInv'
<1> DEFINE d == req[r].p
<1>1. d \in Posts
  BY DEF EditorialInv, TypeOK, ReqState, DeleteWrites
<1>2. \A p \in Posts : post'[p] = IF p = d THEN [post[p] EXCEPT !.deleted = TRUE]
                                  ELSE post[p]
  BY <1>1 DEF EditorialInv, TypeOK, DeleteWrites
<1>3. \A p \in Posts : [post[p] EXCEPT !.deleted = TRUE] \in Row
  BY DEF EditorialInv, TypeOK, Row
<1>4. post' \in [Posts -> Row]
  BY <1>1, <1>3 DEF EditorialInv, TypeOK, DeleteWrites
<1> HIDE DEF d
<1>5. \A p \in Posts : /\ post'[p].text = post[p].text
                       /\ (post'[p].status = "none") = (post[p].status = "none")
                       /\ post'[p].status # "archived"
                       /\ (post'[p].status = "approved") <=> post'[p].stamped
  BY <1>1, <1>2 DEF EditorialInv, TypeOK, Row, ApprovedIsStamped, NoneArchived
<1>6. UNCHANGED <<revisions, had, crossed>> /\ req' = [req EXCEPT ![r] = Idle]
  BY DEF DeleteWrites, End
<1> QED
  BY <1>4, <1>5, <1>6, MarkingKeeps

LEMMA SetDeletedKeeps ==
  ASSUME EditorialInv, NEW ps \in SUBSET Posts, NEW gone \in BOOLEAN,
         SetDeleted(ps, gone)
  PROVE  EditorialInv'
<1>2. \A p \in Posts : post'[p] = IF p \in ps THEN [post[p] EXCEPT !.deleted = gone]
                                  ELSE post[p]
  BY DEF SetDeleted
<1>3. \A p \in Posts : [post[p] EXCEPT !.deleted = gone] \in Row
  BY DEF EditorialInv, TypeOK, Row
<1>4. post' \in [Posts -> Row]
  BY <1>3 DEF EditorialInv, TypeOK, SetDeleted
<1>5. \A p \in Posts : /\ post'[p].text = post[p].text
                       /\ (post'[p].status = "none") = (post[p].status = "none")
                       /\ post'[p].status # "archived"
                       /\ (post'[p].status = "approved") <=> post'[p].stamped
  BY <1>2 DEF EditorialInv, TypeOK, Row, ApprovedIsStamped, NoneArchived
<1>6. UNCHANGED <<revisions, had, crossed, req>>
  BY DEF SetDeleted
<1> QED
  BY <1>4, <1>5, <1>6, MarkingKeeps

(* The requests that only take their next step.                            *)
LEMMA WaitingKeeps ==
  ASSUME EditorialInv, NEW r \in Requests,
         \/ \E p \in Posts : RewriteAsks(r, p) \/ DeleteLoads(r, p)
         \/ RewriteFails(r)
         \/ \E ps \in SUBSET Posts : ApproveLoads(r, ps)
  PROVE  EditorialInv'
<1>1. CASE RewriteFails(r)
  BY <1>1, IdleFacts, RequestKeeps DEF RewriteFails, End
<1>2. ASSUME NEW p \in Posts, NEW e \in {[pc |-> "rewrite", p |-> p], [pc |-> "delete", p |-> p]},
             Live(p), Begin(r, e), UNCHANGED <<post, revisions, had, crossed>>
      PROVE  EditorialInv'
  <2>1. e \in ReqState /\ e.pc \in {"rewrite", "delete"} /\ e.p = p
    BY <1>2 DEF ReqState
  <2> QED
    BY <1>2, <2>1, RequestKeeps DEF Begin, Live
<1>3. ASSUME NEW ps \in SUBSET Posts, ApproveLoads(r, ps)
      PROVE  EditorialInv'
  <2> DEFINE e == [pc |-> "approve", ps |-> ps]
  <2>1. e \in ReqState /\ e.pc = "approve" /\ e.ps = ps
    BY DEF ReqState
  <2>2. /\ req' = [req EXCEPT ![r] = e] /\ \A p \in ps : post[p].status # "none"
        /\ UNCHANGED <<post, revisions, had, crossed>>
    BY <1>3 DEF ApproveLoads, Begin, Live
  <2> HIDE DEF e
  <2> QED
    BY <2>1, <2>2, RequestKeeps
<1> QED
  BY <1>1, <1>2, <1>3 DEF RewriteAsks, DeleteLoads

LEMMA StutterKeeps == EditorialInv /\ UNCHANGED vars => EditorialInv'
  BY DEF vars, EditorialInv, TypeOK, TextsAreTexts, NoneArchived, RequestsKnowPosts,
         ApprovedIsStamped, NothingIsLostUnlessCrossed

LEMMA NextKeeps == EditorialInv /\ [Next]_vars => EditorialInv'
<1> SUFFICES ASSUME EditorialInv, [Next]_vars PROVE EditorialInv'
  OBVIOUS
<1>1. ASSUME NEW p \in Posts, Create(p) PROVE EditorialInv'
  BY <1>1, NewPostKeeps, StartsAssumption DEF Create, NewPost
<1>2. ASSUME NEW p \in Posts, NEW copy \in Posts, Duplicate(p, copy) PROVE EditorialInv'
  <2>1. post[p].text \in Texts
    BY <1>2 DEF Duplicate, Live, EditorialInv, TextsAreTexts
  <2> QED
    BY <1>2, <2>1, NewPostKeeps DEF Duplicate, NewPost
<1>3. ASSUME NEW r \in Requests,
             \/ \E p \in Posts, t \in Texts : EditLoads(r, p, t)
             \/ \E p \in Posts : RewriteAsks(r, p) \/ DeleteLoads(r, p)
             \/ \E t \in Texts : RewriteAnswers(r, t)
             \/ \E ps \in SUBSET Posts : ApproveLoads(r, ps)
             \/ RewriteFails(r) \/ Save(r) \/ ApproveWrites(r) \/ DeleteWrites(r)
      PROVE  EditorialInv'
  BY <1>3, EditLoadsKeeps, WaitingKeeps, RewriteAnswersKeeps, SaveKeeps,
     ApproveWritesKeeps, DeleteWritesKeeps
<1>4. ASSUME NEW ps \in SUBSET Posts, NEW gone \in BOOLEAN, SetDeleted(ps, gone)
      PROVE  EditorialInv'
  BY <1>4, SetDeletedKeeps
<1>5. CASE UNCHANGED vars
  BY <1>5, StutterKeeps
<1> QED
  BY <1>1, <1>2, <1>3, <1>4, <1>5 DEF Next

(* Whatever requests run side by side, the invariant holds.                *)
THEOREM EditorialCorrect == Spec => []EditorialInv
  BY InitHolds, NextKeeps, PTL DEF Spec

(* Whatever posts, texts and requests there are, content_posts,            *)
(* post_revisions and what a request holds keep their types.               *)
THEOREM TypesHold == Spec => []TypeOK
  BY EditorialCorrect, PTL DEF EditorialInv

(* An approved post always has somebody on record for it, and no other post*)
(* has.                                                                    *)
THEOREM ApprovalOnRecord == Spec => []ApprovedIsStamped
  BY EditorialCorrect, PTL DEF EditorialInv

(* No text is lost unless two edits of one post cross.                     *)
THEOREM EditsAreUndoable == Spec => []NothingIsLostUnlessCrossed
  BY EditorialCorrect, PTL DEF EditorialInv

(* How content_posts changes: a new row, a saved edit, or a mark that keeps*)
(* the text.                                                               *)
LEMMA HowPostsChange ==
  ASSUME EditorialInv, [Next]_vars, NEW p \in Posts
  PROVE  \/ post[p].status = "none" /\ post'[p].status \in Starts \cup {"draft"}
         \/ \E r \in Requests : Save(r) /\ req[r].p = p
         \/ /\ post'[p].text = post[p].text
            /\ post'[p].status \in {post[p].status, "approved"}
<1> DEFINE Kept == /\ post'[p].text = post[p].text
                   /\ post'[p].status \in {post[p].status, "approved"}
           Known == \/ post[p].status = "none" /\ post'[p].status \in Starts \cup {"draft"}
                    \/ \E r \in Requests : Save(r) /\ req[r].p = p
                    \/ Kept
<1>0. post \in [Posts -> Row] /\ post[p] \in Row
  BY DEF EditorialInv, TypeOK
<1>1. ASSUME NEW q \in Posts, NEW s \in Starts \cup {"draft"}, NEW t, NewPost(q, s, t)
      PROVE  Known
  BY <1>0, <1>1 DEF NewPost, NoRow
<1>2. ASSUME NEW r \in Requests, Save(r) PROVE Known
  BY <1>0, <1>2 DEF Save
<1>3. ASSUME NEW r \in Requests, ApproveWrites(r) PROVE Known
  <2>1. CASE p \in req[r].ps
    BY <1>0, <1>3, <2>1 DEF ApproveWrites, Row
  <2>2. CASE p \notin req[r].ps
    BY <1>0, <1>3, <2>2 DEF ApproveWrites
  <2> QED
    BY <2>1, <2>2
<1>4. ASSUME NEW r \in Requests, DeleteWrites(r) PROVE Known
  BY <1>0, <1>4 DEF DeleteWrites, Row
<1>5. ASSUME NEW ps \in SUBSET Posts, NEW gone \in BOOLEAN, SetDeleted(ps, gone)
      PROVE  Known
  <2>1. post'[p] = IF p \in ps THEN [post[p] EXCEPT !.deleted = gone] ELSE post[p]
    BY <1>5 DEF SetDeleted
  <2> QED
    BY <1>0, <2>1 DEF Row
<1>6. CASE UNCHANGED post
  BY <1>6
<1> QED
  BY <1>1, <1>2, <1>3, <1>4, <1>5, <1>6
  DEF Next, vars, Create, Duplicate, EditLoads, RewriteAsks, RewriteAnswers, RewriteFails,
      ApproveLoads, DeleteLoads

LEMMA WhatSavesDo ==
  ASSUME EditorialInv, NEW r \in Requests, Save(r)
  PROVE  post'[req[r].p].status \in {"draft", "pending_review"}
<1>1. req[r].p \in Posts /\ req[r].status \in PostStatuses \ {"archived"}
  BY DEF EditorialInv, TypeOK, ReqState, Save, RequestsKnowPosts
<1>2. post[req[r].p] \in Row
  BY <1>1 DEF EditorialInv, TypeOK
<1>3. post'[req[r].p].status = StatusAfterEdit(req[r].status)
  BY <1>1, <1>2 DEF Save, EditorialInv, TypeOK, Row
<1> QED
  BY <1>1, <1>3, AfterEditType

(* No step leaves an approved post with another text, whatever was loaded  *)
(* and however long ago.                                                   *)
THEOREM ApprovalIsOfTheText == Spec => EditWithdrawsApproval
<1>1. EditorialInv /\ [Next]_vars =>
        [\A p \in Posts : post'[p].text # post[p].text => post'[p].status # "approved"]_vars
  <2> SUFFICES ASSUME EditorialInv, [Next]_vars, NEW p \in Posts,
                      post'[p].text # post[p].text
               PROVE  post'[p].status # "approved"
    OBVIOUS
  <2>1. ASSUME NEW r \in Requests, Save(r), req[r].p = p
        PROVE  post'[p].status # "approved"
    BY <2>1, WhatSavesDo
  <2> QED
    BY <2>1, HowPostsChange, StartsAssumption
<1> QED
  BY <1>1, EditorialCorrect, PTL DEF Spec, EditWithdrawsApproval

(* No post moves but along the arrows of the diagram, although every write *)
(* may land on another status than the one that was checked.               *)
THEOREM StatusesFollowTheDiagram == Spec => OnlyAllowedTransitions
<1>1. EditorialInv /\ [Next]_vars =>
        [\A p \in Posts : post[p].status # "none"
           => CanTransition(post[p].status, post'[p].status)]_vars
  <2> SUFFICES ASSUME EditorialInv, [Next]_vars, NEW p \in Posts, post[p].status # "none"
               PROVE  CanTransition(post[p].status, post'[p].status)
    OBVIOUS
  <2>1. post[p].status \in PostStatuses \ {"archived"}
    BY DEF EditorialInv, TypeOK, NoneArchived, Row
  <2>2. CASE post'[p].status \in {post[p].status, "approved"}
    BY <2>1, <2>2 DEF CanTransition, Transitions, PostStatuses
  <2>3. ASSUME NEW r \in Requests, Save(r), req[r].p = p
        PROVE  CanTransition(post[p].status, post'[p].status)
    BY <2>1, <2>3, WhatSavesDo DEF CanTransition, Transitions, PostStatuses
  <2> QED
    BY <2>2, <2>3, HowPostsChange
<1> QED
  BY <1>1, EditorialCorrect, PTL DEF Spec, OnlyAllowedTransitions
=============================================================================
