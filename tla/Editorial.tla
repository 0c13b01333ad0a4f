------------------------------ MODULE Editorial ------------------------------
(***************************************************************************)
(* The editorial life of posts (services/posts.ts, services/post-ai.ts,    *)
(* content/status.ts): creating, editing, approving, deleting and bringing *)
(* back posts, and the revisions that make an edit undoable.               *)
(*                                                                         *)
(* Requests of a workspace's members run side by side.  Each loads the post*)
(* with one query and writes it with another, by id, without looking again;*)
(* what was loaded is kept in req meanwhile.  A text stands for body,      *)
(* hashtags and call to action together.                                   *)
(***************************************************************************)
EXTENDS FiniteSets

CONSTANTS
  Posts,
  Texts,
  Requests,
  Starts     \* the statuses posts are created with

(* content/status.ts.                                                      *)
PostStatuses == {"draft", "ai_generated", "pending_review", "approved", "archived"}

Transitions ==
  ({"draft"} \X {"pending_review", "approved", "archived"}) \cup
  ({"ai_generated"} \X {"pending_review", "approved", "draft", "archived"}) \cup
  ({"pending_review"} \X {"approved", "draft", "archived"}) \cup
  ({"approved"} \X {"pending_review", "draft", "archived"}) \cup
  ({"archived"} \X {"draft"})

CanTransition(from, to) == from = to \/ <<from, to>> \in Transitions

IsEditable(status) == status # "archived"

(* Mutants: an edit keeps an approval, and keeps what only a machine sets. *)
EditKeepsApproval(status) ==
  IF status = "ai_generated" THEN "pending_review" ELSE status
EditKeepsOrigin(status) ==
  IF status = "approved" THEN "pending_review" ELSE status

StatusAfterEdit(status) ==
  IF status \in {"approved", "ai_generated"} THEN "pending_review" ELSE status

ASSUME StartsAssumption == Starts \subseteq {"draft", "ai_generated"}

VARIABLES
  post,       \* content_posts
  revisions,  \* post_revisions: the earlier texts kept for each post
  req,        \* what each request is doing
  had,        \* history: every text a post has ever had
  crossed     \* history: posts whose text was replaced between the load
              \* and the save of another edit

vars == <<post, revisions, req, had, crossed>>

Row == [status: PostStatuses \cup {"none"}, text: Texts \cup {"none"},
        stamped: BOOLEAN,     \* approvedAt and approvedById are set
        deleted: BOOLEAN]

NoRow == [status |-> "none", text |-> "none", stamped |-> FALSE, deleted |-> FALSE]

Idle == [pc |-> "idle"]

ReqState ==
  [pc: {"idle"}] \cup
  [pc: {"rewrite", "delete"}, p: Posts] \cup
  [pc: {"save"}, p: Posts, loaded: Texts, status: PostStatuses, text: Texts] \cup
  [pc: {"approve"}, ps: SUBSET Posts]

TypeOK ==
  /\ post \in [Posts -> Row]
  /\ revisions \in [Posts -> SUBSET Texts]
  /\ req \in [Requests -> ReqState]
  /\ had \in [Posts -> SUBSET Texts]
  /\ crossed \subseteq Posts

Init ==
  /\ post = [p \in Posts |-> NoRow]
  /\ revisions = [p \in Posts |-> {}]
  /\ req = [r \in Requests |-> Idle]
  /\ had = [p \in Posts |-> {}]
  /\ crossed = {}

(* Mutant: loadPost does not notice that it found nothing.                 *)
FindsNothing(p) == ~post[p].deleted

(* What loadPost finds.                                                    *)
Live(p) == post[p].status # "none" /\ ~post[p].deleted

Begin(r, state) == req[r].pc = "idle" /\ req' = [req EXCEPT ![r] = state]
End(r) == req' = [req EXCEPT ![r] = Idle]
-----------------------------------------------------------------------------
NewPost(p, s, t) ==
  /\ post[p].status = "none"
  /\ post' = [post EXCEPT ![p] = [NoRow EXCEPT !.status = s, !.text = t]]
  /\ had' = [had EXCEPT ![p] = {t}]
  /\ UNCHANGED <<revisions, req, crossed>>

Create(p) == \E s \in Starts, t \in Texts : NewPost(p, s, t)

(* The copy is a draft, whatever its original is.  That the original is    *)
(* read first changes nothing: its text then is as good as any.            *)
Duplicate(p, copy) == Live(p) /\ NewPost(copy, "draft", post[p].text)

(* updatePost loads the post.  The text to save is the caller's, a revision*)
(* (restoreRevision), or the loaded one again when only the title or the   *)
(* planned date is edited.                                                 *)
EditLoads(r, p, t) ==
  /\ Live(p) /\ IsEditable(post[p].status)
  /\ Begin(r, [pc |-> "save", p |-> p, loaded |-> post[p].text,
               status |-> post[p].status, text |-> t])
  /\ UNCHANGED <<post, revisions, had, crossed>>

(* regeneratePost reads the post for the model, which takes its time, and  *)
(* only then calls updatePost, which loads it anew ...                     *)
RewriteAsks(r, p) ==
  /\ Live(p)
  /\ Begin(r, [pc |-> "rewrite", p |-> p])
  /\ UNCHANGED <<post, revisions, had, crossed>>

RewriteAnswers(r, t) ==
  LET p == req[r].p IN
  /\ req[r].pc = "rewrite"
  /\ Live(p) /\ IsEditable(post[p].status)
  /\ req' = [req EXCEPT ![r] = [pc |-> "save", p |-> p, loaded |-> post[p].text,
                                status |-> post[p].status, text |-> t]]
  /\ UNCHANGED <<post, revisions, had, crossed>>

(* ... or finds no answer, or no post any more.                            *)
RewriteFails(r) ==
  /\ req[r].pc = "rewrite"
  /\ End(r)
  /\ UNCHANGED <<post, revisions, had, crossed>>

(* Mutant: the snapshot is of the new text.                                *)
KeepsTheNewText(e) == IF e.text # e.loaded THEN {e.text} ELSE {}

(* The revision of an edit: what was loaded, if the edit changes it.       *)
Snapshot(e) == IF e.text # e.loaded THEN {e.loaded} ELSE {}

(* Mutant: the approval goes, the record of it stays.                      *)
SaveLeavesStamp(r) ==
  LET e == req[r] IN
  /\ e.pc = "save"
  /\ revisions' = [revisions EXCEPT ![e.p] = @ \cup Snapshot(e)]
  /\ post' = [post EXCEPT ![e.p].text = e.text,
                          ![e.p].status = StatusAfterEdit(e.status)]
  /\ had' = [had EXCEPT ![e.p] = @ \cup {e.text}]
  /\ crossed' = IF post[e.p].text = e.loaded THEN crossed ELSE crossed \cup {e.p}
  /\ End(r)

(* The transaction of updatePost.                                          *)
Save(r) ==
  LET e == req[r] IN
  /\ e.pc = "save"
  /\ revisions' = [revisions EXCEPT ![e.p] = @ \cup Snapshot(e)]
  /\ post' = [post EXCEPT ![e.p].text = e.text,
                          ![e.p].status = StatusAfterEdit(e.status),
                          ![e.p].stamped = FALSE]
  /\ had' = [had EXCEPT ![e.p] = @ \cup {e.text}]
  /\ crossed' = IF post[e.p].text = e.loaded THEN crossed ELSE crossed \cup {e.p}
  /\ End(r)

(* approvePost, and approvePosts, which leaves out what is approved already*)
(* and never calls assertTransition.                                       *)
ApproveLoads(r, ps) ==
  /\ ps # {}
  /\ \A p \in ps : Live(p)
  /\ \/ \E p \in ps : ps = {p} /\ CanTransition(post[p].status, "approved")
     \/ \A p \in ps : post[p].status \notin {"approved", "archived"}
  /\ Begin(r, [pc |-> "approve", ps |-> ps])
  /\ UNCHANGED <<post, revisions, had, crossed>>

ApproveWrites(r) ==
  /\ req[r].pc = "approve"
  /\ post' = [p \in Posts |->
                IF p \in req[r].ps
                THEN [post[p] EXCEPT !.status = "approved", !.stamped = TRUE]
                ELSE post[p]]
  /\ End(r)
  /\ UNCHANGED <<revisions, had, crossed>>

DeleteLoads(r, p) ==
  /\ Live(p)
  /\ Begin(r, [pc |-> "delete", p |-> p])
  /\ UNCHANGED <<post, revisions, had, crossed>>

DeleteWrites(r) ==
  /\ req[r].pc = "delete"
  /\ post' = [post EXCEPT ![req[r].p].deleted = TRUE]
  /\ End(r)
  /\ UNCHANGED <<revisions, had, crossed>>

(* deletePosts, and restorePost(s): one conditional update.                *)
SetDeleted(ps, gone) ==
  /\ ps # {}
  /\ \A p \in ps : post[p].status # "none" /\ post[p].deleted # gone
  /\ post' = [p \in Posts |-> IF p \in ps THEN [post[p] EXCEPT !.deleted = gone]
                              ELSE post[p]]
  /\ UNCHANGED <<revisions, req, had, crossed>>

Next ==
  \/ \E p \in Posts : Create(p)
  \/ \E p, copy \in Posts : Duplicate(p, copy)
  \/ \E r \in Requests :
       \/ \E p \in Posts, t \in Texts : EditLoads(r, p, t)
       \/ \E p \in Posts : RewriteAsks(r, p) \/ DeleteLoads(r, p)
       \/ \E t \in Texts : RewriteAnswers(r, t)
       \/ \E ps \in SUBSET Posts : ApproveLoads(r, ps)
       \/ RewriteFails(r) \/ Save(r) \/ ApproveWrites(r) \/ DeleteWrites(r)
  \/ \E ps \in SUBSET Posts, gone \in BOOLEAN : SetDeleted(ps, gone)

Spec == Init /\ [][Next]_vars
-----------------------------------------------------------------------------
(* "Every edit keeps the previous version, so this is never destructive"   *)
(* (PATCH /posts/:id): every text a post has had can be brought back.      *)
NothingIsLost == \A p \in Posts : had[p] \subseteq revisions[p] \cup {post[p].text}

(* It holds for every post on which no save came between the load and the  *)
(* save of another edit, however long a rewrite takes and whatever is      *)
(* approved, deleted or restored meanwhile.                                *)
NothingIsLostUnlessCrossed ==
  \A p \in Posts : p \in crossed \/ had[p] \subseteq revisions[p] \cup {post[p].text}

(* A post is approved exactly when somebody is on record for it, whichever *)
(* of an edit and an approval lands last.                                  *)
ApprovedIsStamped == \A p \in Posts : post[p].status = "approved" <=> post[p].stamped

(* "Approval is a statement about a particular text": no edit leaves an    *)
(* approved post with another text, the edit that loaded it before it was  *)
(* approved included.                                                      *)
EditWithdrawsApproval ==
  [][\A p \in Posts : post'[p].text # post[p].text => post'[p].status # "approved"]_vars

(* "Every transition goes through assertTransition": although bulk approval*)
(* does not, and every write may land on another status than was checked,  *)
(* no post ever changes status but along an arrow of the diagram.          *)
OnlyAllowedTransitions ==
  [][\A p \in Posts : post[p].status # "none"
       => CanTransition(post[p].status, post'[p].status)]_vars
=============================================================================
