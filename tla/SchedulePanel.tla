--------------------------- MODULE SchedulePanel ---------------------------
(***************************************************************************)
(* Scheduling inside the post sheet (schedule-panel.tsx): the Page chosen, *)
(* the requests behind the four buttons, and the list of publications that *)
(* is loaded on opening and again after each of them.                      *)
(*                                                                         *)
(* A post has one publication for each Page at most.  version counts its   *)
(* changes, so that a list can be older than what the member was told.     *)
(***************************************************************************)
EXTENDS Naturals, Sequences

CONSTANTS
  Pages,
  PanelSlots,      \* bound: requests under way at once
  MaxPanelClicks,  \* bound: what the member does in the panel
  MaxRuns          \* bound: steps of the worker

ASSUME PanelAssumption == MaxPanelClicks \in Nat /\ MaxRuns \in Nat

VARIABLES
  channels,   \* the Pages and their status, in the order of the channels page
  channelId,  \* the Page that will be sent
  approved,   \* the sheet's status is "approved"
  pub,        \* the publication for each Page: status, version
  running,    \* the Pages whose publication a run has claimed
  listed,     \* the panel's copy of the publications
  busy,       \* schedule or publish under way
  fetch,      \* requests, for each slot
  told,       \* history: the version the last good answer left, by Page
  panelClicks, runs,
  overtaken   \* history: two loads were under way at once, or one failed

panelServer == <<pub, running, runs>>
panelVars == <<channels, channelId, approved, panelServer, listed, busy,
               fetch, told, panelClicks, overtaken>>

PubStatuses == {"none", "scheduled", "cancelled", "publishing", "published", "failed"}

Free == [pc |-> "free"]
Unsent == [p \in Pages |-> [status |-> "none", version |-> 0]]
Active == {i \in 1..Len(channels) : channels[i].status = "active"}

(* Mounting: the first channel is the choice, and the list is loaded.      *)
PanelInit ==
  /\ \E f \in [Pages -> {"active", "needs_reconnect"}],
        order \in {s \in [1..2 -> Pages] : s[1] # s[2]} :
       channels = [i \in 1..2 |-> [page |-> order[i], status |-> f[order[i]]]]
  /\ channelId = channels[1].page
  /\ approved \in BOOLEAN
  /\ pub = Unsent /\ listed = Unsent
  /\ running = {}
  /\ busy = FALSE
  /\ \E s \in PanelSlots :
       fetch = [x \in PanelSlots |-> IF x = s THEN [pc |-> "load"] ELSE Free]
  /\ told = [p \in Pages |-> 0]
  /\ panelClicks = 0 /\ runs = 0
  /\ overtaken = FALSE

-----------------------------------------------------------------------------
(* The form is there for an approved post when some Page is connected; the *)
(* select lists the connected ones.                                        *)
FormShown == Active # {} /\ approved

ChoosePage ==
  /\ FormShown
  /\ panelClicks < MaxPanelClicks /\ panelClicks' = panelClicks + 1
  /\ \E i \in Active : channelId' = channels[i].page
  /\ UNCHANGED <<channels, approved, panelServer, listed, busy, fetch, told, overtaken>>

(* The form's buttons send the Page chosen, those of a publication its own.*)
Offered(kind, page) ==
  IF kind \in {"schedule", "publish"} THEN FormShown /\ ~busy /\ page = channelId
  ELSE listed[page].status = (IF kind = "cancel" THEN "scheduled" ELSE "failed")

Press(s, kind, page) ==
  /\ Offered(kind, page)
  /\ panelClicks < MaxPanelClicks /\ panelClicks' = panelClicks + 1
  /\ fetch[s] = Free
  /\ fetch' = [fetch EXCEPT ![s] = [pc |-> "act", kind |-> kind, page |-> page]]
  /\ busy' = (busy \/ kind \in {"schedule", "publish"})
  /\ UNCHANGED <<channels, channelId, approved, panelServer, listed, told, overtaken>>

(* The services.  A Page must be active but for a cancellation; one that   *)
(* is being published may be published now, and even cancelled.            *)
Accepted(kind, page) ==
  /\ kind \in {"schedule", "publish"} => approved
  /\ kind # "cancel" => \E i \in Active : channels[i].page = page
  /\ pub[page].status \notin (IF kind = "schedule" THEN {"publishing", "published"}
                              ELSE {"published"})
  /\ kind = "retry" => pub[page].status = "failed"

PubAfter(kind, page) ==
  [status |-> IF kind = "cancel" THEN "cancelled" ELSE "scheduled",
   version |-> pub[page].version + 1]

Act(s) ==
  /\ fetch[s].pc = "act"
  /\ LET kind == fetch[s].kind  page == fetch[s].page IN
     \/ /\ Accepted(kind, page)
        /\ pub' = [pub EXCEPT ![page] = PubAfter(kind, page)]
        /\ fetch' = [fetch EXCEPT ![s] = [pc |-> "ok", kind |-> kind, page |-> page,
                                         version |-> pub[page].version + 1]]
     \/ /\ fetch' = [fetch EXCEPT ![s] = [pc |-> "error", kind |-> kind]]
        /\ UNCHANGED pub
  /\ UNCHANGED <<channels, channelId, approved, running, runs, listed, busy, told,
                 panelClicks, overtaken>>

(* The answer: an error is shown; after a good one the list is loaded.     *)
ReloadsNotAfterCancel == {"schedule", "publish", "retry"}
Reloads == {"schedule", "publish", "cancel", "retry"}

Loading == {s \in PanelSlots : fetch[s].pc \in {"load", "loaded"}}

Hear(s) ==
  /\ fetch[s].pc \in {"ok", "error"}
  /\ busy' = (busy /\ fetch[s].kind \notin {"schedule", "publish"})
  /\ IF fetch[s].pc = "error"
     THEN fetch' = [fetch EXCEPT ![s] = Free] /\ UNCHANGED <<told, overtaken>>
     ELSE /\ told' = IF fetch[s].version > told[fetch[s].page]
                     THEN [told EXCEPT ![fetch[s].page] = fetch[s].version] ELSE told
          /\ fetch' = [fetch EXCEPT ![s] =
                IF @.kind \in Reloads THEN [pc |-> "load"] ELSE Free]
          /\ overtaken' = (overtaken \/ Loading # {})
  /\ UNCHANGED <<channels, channelId, approved, panelServer, listed, panelClicks>>

RunLoad(s) ==
  /\ fetch[s].pc = "load"
  /\ fetch' = [fetch EXCEPT ![s] = [pc |-> "loaded", pub |-> pub]]
  /\ UNCHANGED <<channels, channelId, approved, panelServer, listed, busy, told,
                 panelClicks, overtaken>>

(* The list is replaced by whichever load answers last.                    *)
Loaded(s) ==
  /\ fetch[s].pc = "loaded"
  /\ \/ listed' = fetch[s].pub /\ UNCHANGED overtaken
     \/ overtaken' = TRUE /\ UNCHANGED listed
  /\ fetch' = [fetch EXCEPT ![s] = Free]
  /\ UNCHANGED <<channels, channelId, approved, panelServer, busy, told, panelClicks>>

(* Elsewhere: a run claims a scheduled publication, and leaves its outcome *)
(* whatever happened to it meanwhile; the sheet's badge changes with an    *)
(* edit or an approval.                                                    *)
WorkerRuns ==
  /\ runs < MaxRuns /\ runs' = runs + 1
  /\ \E page \in Pages, status \in {"publishing", "published", "failed", "scheduled"} :
       /\ IF status = "publishing"
          THEN pub[page].status = "scheduled" /\ running' = running \cup {page}
          ELSE page \in running /\ running' = running \ {page}
       /\ pub' = [pub EXCEPT ![page] = [status |-> status, version |-> @.version + 1]]
  /\ UNCHANGED <<channels, channelId, approved, listed, busy, fetch, told,
                 panelClicks, overtaken>>

SheetStatusChanges ==
  /\ panelClicks < MaxPanelClicks /\ panelClicks' = panelClicks + 1
  /\ approved' = ~approved
  /\ UNCHANGED <<channels, channelId, panelServer, listed, busy, fetch, told, overtaken>>

PanelNext ==
  \/ ChoosePage
  \/ \E s \in PanelSlots :
       \/ \E k \in {"schedule", "publish", "cancel", "retry"}, page \in Pages :
            Press(s, k, page)
       \/ Act(s)
       \/ Hear(s)
       \/ RunLoad(s)
       \/ Loaded(s)
  \/ WorkerRuns
  \/ SheetStatusChanges

PanelSpec == PanelInit /\ [][PanelNext]_panelVars

-----------------------------------------------------------------------------
PanelTypeOK ==
  /\ \A i \in 1..2 : channels[i] \in [page: Pages, status: {"active", "needs_reconnect"}]
  /\ channelId \in Pages
  /\ approved \in BOOLEAN /\ busy \in BOOLEAN /\ overtaken \in BOOLEAN
  /\ running \subseteq Pages
  /\ \A p \in Pages : pub[p].status \in PubStatuses /\ listed[p].status \in PubStatuses
  /\ \A s \in PanelSlots : fetch[s].pc \in {"free", "act", "ok", "error", "load", "loaded"}

(* Once nothing is under way the list is no older than what the member was *)
(* last told ("Scheduled.", "Cancelled.") (schedule-panel.tsx:71), unless  *)
(* two loads crossed, which nothing orders, or a load failed.              *)
PanelShowsWhatItTold ==
  (\A s \in PanelSlots : fetch[s] = Free) /\ ~overtaken
    => \A p \in Pages : listed[p].version >= told[p]
=============================================================================
