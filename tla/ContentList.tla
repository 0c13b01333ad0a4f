---------------------------- MODULE ContentList ----------------------------
(***************************************************************************)
(* The content list (components/app/content/content-list.tsx) against the  *)
(* query it pages through (services/posts.ts, listPosts) and the bulk      *)
(* endpoint.                                                               *)
(*                                                                         *)
(* Everything the page awaits is a call in a slot: a load asks for a page, *)
(* passes its check of the request's id when the headers arrive, and       *)
(* applies the body when that has been read; a bulk action changes the     *)
(* posts and loads again.  A call keeps the filter of the render it was    *)
(* started in, as its closure does.  The filter stands for the chips and   *)
(* the search words together.                                              *)
(***************************************************************************)
EXTENDS Naturals, SequencesExt, Paging

CONSTANTS
  ListPosts,
  ListSlots,   \* bound: calls under way at once
  PageSize,    \* PAGE_SIZE
  MaxChanges,  \* bound: how often other members touch a post
  MaxClicks    \* bound: what the member does on the page

ASSUME ListAssumption ==
  /\ IsFiniteSet(ListPosts) /\ "none" \notin ListPosts
  /\ PageSize \in Nat \ {0} /\ MaxChanges \in Nat /\ MaxClicks \in Nat
  /\ "none" \notin ListSlots

Filters == {"all", "draft"}

VARIABLES
  order,      \* content_posts, last updated first
  state,      \* "draft" or "approved", for each post
  live,       \* the posts whose deletedAt is null
  changes,    \* changes by other members so far
  clicks,     \* of this one
  filter, timer,                  \* the filter and its pending re-query
  shown, cursor, loading,         \* posts, cursor, loading
  selected,
  newest,     \* the slot whose load has the current requestId, or "none"
  call,       \* what is awaited, for each slot
  offers,     \* undo toasts: the ids of a bulk delete and its closure
  asked,      \* history: the filters the pages in the list were asked with
  astray      \* history: what went past the page's guards

listDb == <<order, state, live, changes>>
listView == <<shown, cursor, loading, asked>>
listVars == <<listDb, listView, filter, timer, selected, newest, call, offers, clicks, astray>>

Click == clicks < MaxClicks /\ clicks' = clicks + 1

NoCall == [pc |-> "idle"]

(* A call takes any slot that is free; which one makes no difference.      *)
FreeSlot(s) ==
  call[s].pc = "idle" /\ s = CHOOSE x \in ListSlots : call[x].pc = "idle"

(* buildWhere: deleted posts never match.                                  *)
Matches(f, p) == p \in live /\ f \in {"all", state[p]}

(* listPosts, for the filter and the cursor of a request.                  *)
PostPages(f, c) == PagesFrom(order, {p \in ListPosts : Matches(f, p)}, c, PageSize)

(* Writing a row makes it the last updated one.                            *)
Touched(ps) ==
  {o \in SetToSeqs(ListPosts) :
     \A p, q \in ListPosts :
       Ahead(o, p, q) <=> IF p \in ps <=> q \in ps THEN Ahead(order, p, q) ELSE p \in ps}

ListInit ==
  /\ order \in SetToSeqs(ListPosts)
  /\ state \in [ListPosts -> {"draft", "approved"}]
  /\ live = ListPosts
  /\ changes = 0 /\ clicks = 0
  /\ filter = "all" /\ timer = TRUE     \* the effect runs on mount as well
  /\ \E page \in PostPages("all", "none") : shown = page.items /\ cursor = page.cursor
  /\ loading = FALSE
  /\ selected = {}
  /\ newest = "none"
  /\ call = [s \in ListSlots |-> NoCall]
  /\ offers = {}
  /\ asked = {"all"}
  /\ astray = {}

-----------------------------------------------------------------------------
(* A chip or the search box: the render's effect clears the timer of the   *)
(* last filter and sets its own.                                           *)
ChangeFilter(f) ==
  /\ f # filter
  /\ Click
  /\ filter' = f
  /\ timer' = TRUE
  /\ UNCHANGED <<listDb, listView, selected, newest, call, offers, astray>>

(* load(): its id becomes the current one.  Two things then pass the       *)
(* page's guards: an older load whose headers were read already, and a     *)
(* closure older than the filter it shows.  A load from the top makes good *)
(* whatever had gone wrong before.                                         *)
StartLoad(s, f, c) ==
  /\ newest' = s
  /\ loading' = TRUE
  /\ astray' = (IF c = "none" THEN {} ELSE astray)
       \cup {"body" : x \in {y \in ListSlots : call[y].pc = "body"}}
       \cup (IF f # filter /\ ~timer THEN {"closure"} ELSE {})
  /\ call' = [x \in ListSlots |->
        IF x = s THEN [pc |-> "sent", filter |-> f, after |-> c]
        ELSE call[x]]

TimerFires(s) ==
  /\ timer
  /\ FreeSlot(s)
  /\ timer' = FALSE
  /\ StartLoad(s, filter, "none")
  /\ UNCHANGED <<clicks, listDb, filter, shown, cursor, selected, offers, asked>>

(* "Load more", disabled while loading.                                    *)
CanLoadMore == cursor # "none" /\ ~loading

LoadMore(s) ==
  /\ CanLoadMore
  /\ Click
  /\ FreeSlot(s)
  /\ StartLoad(s, filter, cursor)
  /\ UNCHANGED <<listDb, filter, timer, shown, cursor, selected, offers, asked>>

(* GET /api/v1/posts runs.                                                 *)
AnswerLoad(s) ==
  /\ call[s].pc = "sent"
  /\ \/ \E page \in PostPages(call[s].filter, call[s].after) :
          call' = [call EXCEPT ![s] = [pc |-> "headers", filter |-> @.filter,
                                       after |-> @.after, page |-> page]]
     \/ call' = [call EXCEPT ![s] = [pc |-> "refused"]]
  /\ UNCHANGED <<clicks, listDb, filter, timer, listView, selected, newest, offers, astray>>

(* The headers are here: an answer that is no longer the newest is dropped.*)
NeverSuperseded(s) == FALSE
Superseded(s) == newest # s

ReadHeaders(s) ==
  /\ call[s].pc \in {"headers", "refused"}
  /\ IF Superseded(s)
     THEN call' = [call EXCEPT ![s] = NoCall] /\ UNCHANGED <<loading, newest, astray>>
     ELSE /\ loading' = FALSE
          /\ IF call[s].pc = "refused"
             THEN /\ call' = [call EXCEPT ![s] = NoCall]
                  /\ newest' = "none"
                  /\ astray' = astray \cup {"refused"}
             ELSE /\ call' = [call EXCEPT ![s].pc = "body"]
                  /\ UNCHANGED <<newest, astray>>
  /\ UNCHANGED <<clicks, listDb, filter, timer, shown, cursor, selected, offers, asked>>

(* The body is here: it is applied without another look at the id.         *)
ReadBody(s) ==
  /\ call[s].pc = "body"
  /\ LET more == call[s].after # "none" IN
     /\ shown' = (IF more THEN shown ELSE <<>>) \o call[s].page.items
     /\ asked' = (IF more THEN asked ELSE {}) \cup {call[s].filter}
     /\ cursor' = call[s].page.cursor
  /\ call' = [call EXCEPT ![s] = NoCall]
  /\ newest' = IF newest = s THEN "none" ELSE newest
  /\ UNCHANGED <<clicks, listDb, filter, timer, loading, selected, offers, astray>>

(* fetch rejects: nothing catches it, and loading stays set.               *)
LoadRejects(s) ==
  /\ call[s].pc = "sent"
  /\ call' = [call EXCEPT ![s] = NoCall]
  /\ newest' = IF newest = s THEN "none" ELSE newest
  /\ astray' = IF newest = s THEN astray \cup {"offline"} ELSE astray
  /\ UNCHANGED <<clicks, listDb, filter, timer, listView, selected, offers>>

-----------------------------------------------------------------------------
ToggleSelected(p) ==
  /\ p \in ToSet(shown)
  /\ Click
  /\ selected' = IF p \in selected THEN selected \ {p} ELSE selected \cup {p}
  /\ UNCHANGED <<listDb, filter, timer, listView, newest, call, offers, astray>>

(* The box above the list.                                                 *)
ToggleAll ==
  /\ shown # <<>>
  /\ Click
  /\ selected' = IF Cardinality(selected) = Len(shown) THEN {} ELSE ToSet(shown)
  /\ UNCHANGED <<listDb, filter, timer, listView, newest, call, offers, astray>>

ClearSelection ==
  /\ selected # {}
  /\ Click
  /\ selected' = {}
  /\ UNCHANGED <<listDb, filter, timer, listView, newest, call, offers, astray>>

Bulk(s, action) ==
  /\ selected # {}
  /\ Click
  /\ FreeSlot(s)
  /\ call' = [call EXCEPT ![s] =
        [pc |-> "bulk", action |-> action, ids |-> selected, filter |-> filter]]
  /\ UNCHANGED <<listDb, filter, timer, listView, selected, newest, offers, astray>>

(* What the bulk endpoint may change: approvePosts skips what is gone or   *)
(* approved, deletePosts and restorePosts ask for deletedAt.               *)
BulkReaches(action, ids) ==
  IF action = "restore" THEN ids \ live
  ELSE {p \in ids \cap live : action = "delete" \/ state[p] = "draft"}

AnswerBulk(s) ==
  /\ call[s].pc = "bulk"
  /\ LET ids == BulkReaches(call[s].action, call[s].ids)
         action == call[s].action
     IN
     /\ order' \in Touched(ids)
     /\ state' = [p \in ListPosts |->
           IF p \in ids /\ action = "approve" THEN "approved" ELSE state[p]]
     /\ live' = IF action = "delete" THEN live \ ids
                ELSE IF action = "restore" THEN live \cup ids ELSE live
  /\ call' = [call EXCEPT ![s].pc = "done"]
  /\ UNCHANGED <<clicks, changes, filter, timer, listView, selected, newest, offers, astray>>

(* The page hears: the selection is cleared, the list loaded again with    *)
(* the filter of the click, and a delete offers its undo.                  *)
BulkDone(s) ==
  /\ call[s].pc = "done"
  /\ selected' = IF call[s].action = "restore" THEN selected ELSE {}
  /\ offers' = IF call[s].action = "delete"
               THEN offers \cup {[ids |-> call[s].ids, filter |-> call[s].filter]}
               ELSE offers
  /\ StartLoad(s, call[s].filter, "none")
  /\ UNCHANGED <<clicks, listDb, filter, timer, shown, cursor, asked>>

(* apiPost answers with an error when the network fails.                   *)
BulkFails(s) ==
  /\ call[s].pc \in {"bulk", "done"}
  /\ astray' = IF call[s].pc = "done" THEN astray \cup {"offline"} ELSE astray
  /\ call' = [call EXCEPT ![s] = NoCall]
  /\ UNCHANGED <<clicks, listDb, filter, timer, listView, selected, newest, offers>>

Undo(s) ==
  /\ Click
  /\ FreeSlot(s)
  /\ \E o \in offers :
       /\ offers' = offers \ {o}
       /\ call' = [call EXCEPT ![s] =
             [pc |-> "bulk", action |-> "restore", ids |-> o.ids, filter |-> o.filter]]
  /\ UNCHANGED <<listDb, filter, timer, listView, selected, newest, astray>>

(* Another member approves, edits or deletes a post.                       *)
OthersChange ==
  /\ changes < MaxChanges
  /\ changes' = changes + 1
  /\ \E p \in live, st \in {"draft", "approved"} :
       /\ state' = [state EXCEPT ![p] = st]
       /\ live' \in {live, live \ {p}}
       /\ order' \in Touched({p})
       /\ astray' = astray \cup {"moved"}
  /\ UNCHANGED <<clicks, filter, timer, listView, selected, newest, call, offers>>

ListNext ==
  \/ \E f \in Filters : ChangeFilter(f)
  \/ \E s \in ListSlots :
       \/ TimerFires(s)
       \/ LoadMore(s)
       \/ AnswerLoad(s)
       \/ ReadHeaders(s)
       \/ ReadBody(s)
       \/ LoadRejects(s)
       \/ \E a \in {"approve", "delete"} : Bulk(s, a)
       \/ AnswerBulk(s)
       \/ BulkDone(s)
       \/ BulkFails(s)
       \/ Undo(s)
  \/ \E p \in ListPosts : ToggleSelected(p)
  \/ ToggleAll \/ ClearSelection
  \/ OthersChange

ListSpec == ListInit /\ [][ListNext]_listVars

-----------------------------------------------------------------------------
ListTypeOK ==
  /\ order \in SetToSeqs(ListPosts)
  /\ state \in [ListPosts -> {"draft", "approved"}]
  /\ live \subseteq ListPosts /\ selected \subseteq ListPosts
  /\ changes \in 0..MaxChanges /\ clicks \in 0..MaxClicks
  /\ filter \in Filters /\ asked \subseteq Filters
  /\ timer \in BOOLEAN /\ loading \in BOOLEAN
  /\ cursor \in ListPosts \cup {"none"}
  /\ newest \in ListSlots \cup {"none"}
  /\ \A s \in ListSlots : call[s].pc \in
       {"idle", "sent", "headers", "refused", "body", "bulk", "done"}
  /\ offers \subseteq [ids: SUBSET ListPosts, filter: Filters]
  /\ astray \subseteq {"body", "closure", "refused", "offline", "moved"}

ListQuiet == ~timer /\ \A s \in ListSlots : call[s].pc = "idle"

(* What the guard of load() is for (content-list.tsx:67): once nothing is  *)
(* under way the list is what the filter on the screen was answered with,  *)
(* page by page, unless the last load from the top failed, or met one of   *)
(* the two known gaps: a body read after a newer load began, a closure     *)
(* older than the filter.                                                  *)
ListShownForFilter ==
  ListQuiet /\ astray \cap {"body", "closure", "refused", "offline"} = {}
    => asked = {filter}

(* Paging (posts.ts:301): when there is no further page the list holds all *)
(* that matches the filter, each post once, if no other member touched a   *)
(* post since it was loaded from the top.                                  *)
ListIsComplete ==
  ListQuiet /\ astray = {} /\ cursor = "none"
    => /\ ToSet(shown) = {p \in ListPosts : Matches(filter, p)}
       /\ Cardinality(ToSet(shown)) = Len(shown)
=============================================================================
