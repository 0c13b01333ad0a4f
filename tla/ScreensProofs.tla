---------------------------- MODULE ScreensProofs ----------------------------
(***************************************************************************)
(* What the screens show, for any posts, Pages, texts and number of        *)
(* requests under way: the panel's publications, the composer's "Saved",   *)
(* the content list's filter, the post sheet's preview, what a page of a   *)
(* list holds, and with it the library's grid and the whole content list.  *)
(* One part of the module for each screen; the last two share the lemmas   *)
(* on pages, and the content list's is built on that of its filter.        *)
(***************************************************************************)
EXTENDS SchedulePanel, Composer, ContentList, PostSheet, MediaLibrary,
        FiniteSetTheorems, SequenceTheorems, TLAPS

-----------------------------------------------------------------------------
(* The panel.  Versions only grow.  While loads do not overlap there is    *)
(* one at most, and it will bring, or brought, all that has been told.     *)
VersionsGrow ==
  /\ pub \in [Pages -> [status: PubStatuses, version: Nat]]
  /\ told \in [Pages -> Nat]
  /\ \A p \in Pages : told[p] <= pub[p].version

AnswersAreKnown ==
  /\ DOMAIN fetch = PanelSlots
  /\ \A s \in PanelSlots :
       /\ fetch[s].pc \in {"act", "ok"} => fetch[s].page \in Pages
       /\ fetch[s].pc = "ok" =>
            fetch[s].version \in Nat /\ fetch[s].version <= pub[fetch[s].page].version
       /\ fetch[s].pc = "act" => fetch[s].kind \in Reloads
       /\ fetch[s].pc = "ok" => fetch[s].kind \in Reloads

ListIsFresh ==
  ~overtaken =>
    /\ \A s, t \in Loading : s = t
    /\ \A s \in PanelSlots : fetch[s].pc = "loaded" =>
         \A p \in Pages : told[p] <= fetch[s].pub[p].version
    /\ Loading = {} => \A p \in Pages : told[p] <= listed[p].version

PanelInv == VersionsGrow /\ AnswersAreKnown /\ ListIsFresh

LEMMA PanelInitInv == PanelInit => PanelInv
<1> SUFFICES ASSUME PanelInit PROVE PanelInv
  OBVIOUS
<1>1. PICK s \in PanelSlots :
        fetch = [x \in PanelSlots |-> IF x = s THEN [pc |-> "load"] ELSE Free]
  BY DEF PanelInit
<1>2. pub = Unsent /\ told = [p \in Pages |-> 0]
  BY DEF PanelInit
<1>3. VersionsGrow
  BY <1>2 DEF VersionsGrow, Unsent, PubStatuses
<1>4. AnswersAreKnown
  BY <1>1 DEF AnswersAreKnown, Free
<1>5. Loading = {s} /\ \A t \in PanelSlots : fetch[t].pc # "loaded"
  BY <1>1 DEF Loading, Free
<1> QED
  BY <1>3, <1>4, <1>5 DEF PanelInv, ListIsFresh

(* A request takes its next step: what the three parts need of it.         *)
LEMMA PanelGoesOn ==
  ASSUME PanelInv, NEW s \in PanelSlots, NEW next, fetch' = [fetch EXCEPT ![s] = next],
         UNCHANGED <<pub, told, listed, overtaken>>,
         fetch[s].pc \notin {"load", "loaded"}, next.pc \in {"free", "act", "error"},
         next.pc = "act" => next.page \in Pages /\ next.kind \in Reloads
  PROVE  PanelInv'
<1>1. fetch'[s] = next /\ \A t \in PanelSlots \ {s} : fetch'[t] = fetch[t]
      /\ DOMAIN fetch' = PanelSlots
  BY DEF PanelInv, AnswersAreKnown
<1>2. Loading' = Loading
  BY <1>1 DEF Loading
<1>3. AnswersAreKnown'
  BY <1>1 DEF PanelInv, AnswersAreKnown
<1>4. ListIsFresh'
  BY <1>1, <1>2 DEF PanelInv, ListIsFresh
<1> QED
  BY <1>3, <1>4 DEF PanelInv, VersionsGrow

LEMMA PanelPress ==
  ASSUME PanelInv, NEW s \in PanelSlots, NEW k \in {"schedule", "publish", "cancel", "retry"},
         NEW page \in Pages, Press(s, k, page)
  PROVE  PanelInv'
<1> DEFINE next == [pc |-> "act", kind |-> k, page |-> page]
<1>1. fetch' = [fetch EXCEPT ![s] = next] /\ fetch[s].pc = "free"
      /\ UNCHANGED <<pub, told, listed, overtaken>>
  BY DEF Press, Free, panelServer
<1>2. next.pc = "act" /\ next.page \in Pages /\ next.kind \in Reloads
  BY DEF Reloads
<1> HIDE DEF next
<1> QED
  BY <1>1, <1>2, PanelGoesOn

LEMMA PanelAct ==
  ASSUME PanelInv, NEW s \in PanelSlots, Act(s)
  PROVE  PanelInv'
<1>1. PICK kind, page : kind = fetch[s].kind /\ page = fetch[s].page
  OBVIOUS
<1>2. /\ fetch[s].pc = "act" /\ page \in Pages /\ kind \in Reloads
      /\ UNCHANGED <<told, listed, overtaken>>
      /\ VersionsGrow /\ AnswersAreKnown /\ ListIsFresh
  BY <1>1 DEF Act, PanelInv, AnswersAreKnown
<1>3. CASE fetch' = [fetch EXCEPT ![s] = [pc |-> "error", kind |-> kind]] /\ UNCHANGED pub
  BY <1>2, <1>3, PanelGoesOn
<1>4. CASE /\ pub' = [pub EXCEPT ![page] = PubAfter(kind, page)]
           /\ fetch' = [fetch EXCEPT ![s] = [pc |-> "ok", kind |-> kind, page |-> page,
                                            version |-> pub[page].version + 1]]
  <2>1. /\ pub'[page] = PubAfter(kind, page) /\ pub'[page].version = pub[page].version + 1
        /\ \A p \in Pages \ {page} : pub'[p] = pub[p]
        /\ pub' \in [Pages -> [status: PubStatuses, version: Nat]]
    BY <1>2, <1>4 DEF VersionsGrow, PubAfter, PubStatuses
  <2>2. VersionsGrow' /\ \A p \in Pages : pub[p].version <= pub'[p].version
    BY <1>2, <2>1 DEF VersionsGrow
  <2>3. /\ fetch'[s] = [pc |-> "ok", kind |-> kind, page |-> page,
                        version |-> pub[page].version + 1]
        /\ \A t \in PanelSlots \ {s} : fetch'[t] = fetch[t]
        /\ DOMAIN fetch' = PanelSlots
    BY <1>2, <1>4 DEF AnswersAreKnown
  <2>4. AnswersAreKnown'
    <3>1. ASSUME NEW t \in PanelSlots, t # s, fetch[t].pc = "ok"
          PROVE  fetch[t].version <= pub'[fetch[t].page].version
      <4>1. fetch[t].page \in Pages /\ fetch[t].version \in Nat
            /\ fetch[t].version <= pub[fetch[t].page].version
        BY <1>2, <3>1 DEF AnswersAreKnown
      <4>2. pub[fetch[t].page].version \in Nat /\ pub'[fetch[t].page].version \in Nat
        BY <1>2, <2>1, <4>1 DEF VersionsGrow
      <4> QED
        BY <2>2, <4>1, <4>2
    <3>2. pub[page].version \in Nat
      BY <1>2 DEF VersionsGrow
    <3> QED
      BY <1>2, <2>1, <2>3, <3>1, <3>2 DEF AnswersAreKnown
  <2>5. Loading' = Loading
    BY <1>2, <2>3 DEF Loading
  <2>6. ListIsFresh'
    BY <1>2, <2>3, <2>5 DEF ListIsFresh
  <2> QED
    BY <2>2, <2>4, <2>6 DEF PanelInv
<1> QED
  BY <1>1, <1>3, <1>4 DEF Act

(* A good answer starts a load: alone, it will bring what was just told.   *)
LEMMA PanelHear ==
  ASSUME PanelInv, NEW s \in PanelSlots, Hear(s)
  PROVE  PanelInv'
<1>1. VersionsGrow /\ AnswersAreKnown /\ ListIsFresh
  BY DEF PanelInv
<1>2. CASE fetch[s].pc = "error"
  <2>1. fetch' = [fetch EXCEPT ![s] = Free] /\ UNCHANGED <<pub, told, listed, overtaken>>
    BY <1>2 DEF Hear, panelServer
  <2> QED
    BY <1>2, <2>1, PanelGoesOn DEF Free
<1>3. CASE fetch[s].pc = "ok"
  <2>1. PICK page, version : page = fetch[s].page /\ version = fetch[s].version
    OBVIOUS
  <2>2. /\ page \in Pages /\ version \in Nat /\ version <= pub[page].version
        /\ fetch[s].kind \in Reloads
    BY <1>1, <1>3, <2>1 DEF AnswersAreKnown
  <2>3. /\ told' = IF version > told[page] THEN [told EXCEPT ![page] = version] ELSE told
        /\ overtaken' = (overtaken \/ Loading # {})
        /\ UNCHANGED <<pub, listed>>
    BY <1>3, <2>1 DEF Hear, panelServer
  <2>4. fetch' = [fetch EXCEPT ![s] = [pc |-> "load"]]
    BY <1>3, <2>2 DEF Hear
  <2>5. VersionsGrow'
    BY <1>1, <2>2, <2>3 DEF VersionsGrow
  <2>6. /\ fetch'[s].pc = "load" /\ DOMAIN fetch' = PanelSlots
        /\ \A t \in PanelSlots \ {s} : fetch'[t] = fetch[t]
    BY <1>1, <2>4 DEF AnswersAreKnown
  <2>7. AnswersAreKnown'
    BY <1>1, <2>3, <2>6 DEF AnswersAreKnown
  <2>8. ListIsFresh'
    <3> SUFFICES ASSUME ~overtaken, Loading = {}
                 PROVE  /\ Loading' = {s}
                        /\ \A t \in PanelSlots : fetch'[t].pc # "loaded"
      BY <2>3 DEF ListIsFresh
    <3> QED
      BY <2>6 DEF Loading
  <2> QED
    BY <2>5, <2>7, <2>8 DEF PanelInv
<1> QED
  BY <1>2, <1>3 DEF Hear

LEMMA PanelLoads ==
  ASSUME PanelInv, NEW s \in PanelSlots, RunLoad(s) \/ Loaded(s)
  PROVE  PanelInv'
<1>1. VersionsGrow /\ AnswersAreKnown /\ ListIsFresh
  BY DEF PanelInv
<1>2. UNCHANGED <<pub, told>> /\ VersionsGrow'
  BY <1>1 DEF RunLoad, Loaded, panelServer, VersionsGrow
<1>3. CASE RunLoad(s)
  <2>1. /\ fetch[s].pc = "load" /\ fetch'[s] = [pc |-> "loaded", pub |-> pub]
        /\ DOMAIN fetch' = PanelSlots
        /\ \A t \in PanelSlots \ {s} : fetch'[t] = fetch[t]
        /\ UNCHANGED <<listed, overtaken>>
    BY <1>1, <1>3 DEF RunLoad, AnswersAreKnown
  <2>2. AnswersAreKnown'
    BY <1>1, <1>2, <2>1 DEF AnswersAreKnown
  <2>3. Loading' = Loading
    BY <2>1 DEF Loading
  <2>4. ListIsFresh'
    BY <1>1, <1>2, <2>1, <2>3 DEF ListIsFresh, VersionsGrow
  <2> QED
    BY <1>2, <2>2, <2>4 DEF PanelInv
<1>4. CASE Loaded(s)
  <2>1. /\ fetch[s].pc = "loaded" /\ fetch'[s].pc = "free"
        /\ DOMAIN fetch' = PanelSlots
        /\ \A t \in PanelSlots \ {s} : fetch'[t] = fetch[t]
        /\ (listed' = fetch[s].pub /\ UNCHANGED overtaken) \/ overtaken' = TRUE
    BY <1>1, <1>4 DEF Loaded, AnswersAreKnown, Free
  <2>2. AnswersAreKnown'
    BY <1>1, <1>2, <2>1 DEF AnswersAreKnown
  <2>3. ListIsFresh'
    BY <1>1, <1>2, <2>1 DEF ListIsFresh, Loading
  <2> QED
    BY <1>2, <2>2, <2>3 DEF PanelInv
<1> QED
  BY <1>3, <1>4

LEMMA PanelElsewhere ==
  ASSUME PanelInv, WorkerRuns
  PROVE  PanelInv'
<1>1. PICK page \in Pages, status \in {"publishing", "published", "failed", "scheduled"} :
        pub' = [pub EXCEPT ![page] = [status |-> status, version |-> @.version + 1]]
  BY DEF WorkerRuns
<1>2. UNCHANGED <<fetch, told, listed, overtaken>> /\ VersionsGrow /\ AnswersAreKnown
      /\ ListIsFresh
  BY DEF WorkerRuns, PanelInv
<1>3. /\ pub'[page] = [status |-> status, version |-> pub[page].version + 1]
      /\ \A p \in Pages \ {page} : pub'[p] = pub[p]
      /\ pub' \in [Pages -> [status: PubStatuses, version: Nat]]
  BY <1>1, <1>2 DEF VersionsGrow, PubStatuses
<1>4. VersionsGrow' /\ \A p \in Pages : pub[p].version <= pub'[p].version
  BY <1>2, <1>3 DEF VersionsGrow
<1>5. AnswersAreKnown'
  <2>1. ASSUME NEW t \in PanelSlots, fetch[t].pc = "ok"
        PROVE  fetch[t].version <= pub'[fetch[t].page].version
    <3>1. fetch[t].page \in Pages /\ fetch[t].version \in Nat
          /\ fetch[t].version <= pub[fetch[t].page].version
      BY <1>2, <2>1 DEF AnswersAreKnown
    <3>2. pub[fetch[t].page].version \in Nat /\ pub'[fetch[t].page].version \in Nat
      BY <1>2, <1>3, <3>1 DEF VersionsGrow
    <3> QED
      BY <1>4, <3>1, <3>2
  <2> QED
    BY <1>2, <2>1 DEF AnswersAreKnown
<1>6. ListIsFresh'
  BY <1>2 DEF ListIsFresh, Loading
<1> QED
  BY <1>4, <1>5, <1>6 DEF PanelInv

LEMMA PanelStays ==
  ASSUME PanelInv, UNCHANGED <<pub, fetch, told, listed, overtaken>>
  PROVE  PanelInv'
  BY DEF PanelInv, VersionsGrow, AnswersAreKnown, ListIsFresh, Loading

LEMMA PanelInvariant == PanelSpec => []PanelInv
<1>1. PanelInv /\ [PanelNext]_panelVars => PanelInv'
  <2> SUFFICES ASSUME PanelInv, [PanelNext]_panelVars PROVE PanelInv'
    OBVIOUS
  <2>1. CASE ChoosePage \/ SheetStatusChanges \/ UNCHANGED panelVars
    BY <2>1, PanelStays DEF ChoosePage, SheetStatusChanges, panelVars, panelServer
  <2>2. CASE WorkerRuns
    BY <2>2, PanelElsewhere
  <2>3. ASSUME NEW s \in PanelSlots,
               \/ \E k \in {"schedule", "publish", "cancel", "retry"}, page \in Pages :
                    Press(s, k, page)
               \/ Act(s) \/ Hear(s) \/ RunLoad(s) \/ Loaded(s)
        PROVE  PanelInv'
    BY <2>3, PanelPress, PanelAct, PanelHear, PanelLoads
  <2> QED
    BY <2>1, <2>2, <2>3 DEF PanelNext
<1> QED
  BY <1>1, PanelInitInv, PTL DEF PanelSpec

(* schedule-panel.tsx: after each good answer the list is loaded, so that  *)
(* at rest it shows what the member was told.                              *)
THEOREM PanelIsFresh == PanelSpec => []PanelShowsWhatItTold
<1>1. PanelInv => PanelShowsWhatItTold
  <2> SUFFICES ASSUME PanelInv, ~overtaken, \A s \in PanelSlots : fetch[s] = Free,
                      NEW p \in Pages
               PROVE  listed[p].version >= told[p]
    BY DEF PanelShowsWhatItTold
  <2>1. Loading = {}
    BY DEF Loading, Free
  <2>2. told[p] <= listed[p].version
    BY <2>1 DEF PanelInv, ListIsFresh
  <2> QED
    BY <2>2
<1> QED
  BY <1>1, PanelInvariant, PTL

-----------------------------------------------------------------------------
(* The composer.  From the click on, the request holds the post that was   *)
(* on the screen; while no error was shown, what is answered was written.  *)
SavesNothingElse ==
  asking.kind = "save" /\ asking.pc # "error" =>
    /\ {"kind", "pc", "body", "media"} \subseteq DOMAIN asking
    /\ asking.pc = "saved" => [text |-> asking.body, media |-> asking.media] \in posts
    /\ asking.pc \in {"sent", "saved", "attach"} => message = "none"
    /\ asking.pc = "heard" /\ message # "trouble" =>
         [text |-> asking.body, media |-> asking.media] \in posts

LEMMA ComposerAsks ==
  ASSUME NEW k \in Kinds, AskFor(k)
  PROVE  SavesNothingElse'
<1>1. PICK n : asking' = [kind |-> k, pc |-> "sent", count |-> n,
                          body |-> body, media |-> media]
  BY DEF AskFor
<1>2. message' = "none"
  BY DEF AskFor
<1> QED
  BY <1>1, <1>2 DEF SavesNothingElse

LEMMA ComposerSaves ==
  ASSUME SavesNothingElse, ServeSave
  PROVE  SavesNothingElse'
<1>1. asking.kind = "save" /\ asking.pc = "sent" /\ message' = message
  BY DEF ServeSave, Asking
<1>2. {"kind", "pc", "body", "media"} \subseteq DOMAIN asking /\ message = "none"
  BY <1>1 DEF SavesNothingElse
<1>3. CASE Refuse("INTERNAL")
  BY <1>3 DEF Refuse, SavesNothingElse
<1>4. CASE /\ posts' = posts \cup {[text |-> asking.body, media |-> <<>>]}
           /\ asking' = [asking EXCEPT !.pc = IF asking.media = <<>> THEN "saved"
                                              ELSE "attach"]
  <2>1. /\ DOMAIN asking' = DOMAIN asking
        /\ asking'.kind = "save" /\ asking'.body = asking.body
        /\ asking'.media = asking.media
        /\ asking'.pc = IF asking.media = <<>> THEN "saved" ELSE "attach"
    BY <1>1, <1>2, <1>4
  <2>2. asking.media = <<>> =>
          [text |-> asking'.body, media |-> asking'.media] \in posts'
    BY <1>4, <2>1
  <2> QED
    BY <1>1, <1>2, <2>1, <2>2 DEF SavesNothingElse
<1> QED
  BY <1>3, <1>4 DEF ServeSave

LEMMA ComposerAttaches ==
  ASSUME SavesNothingElse, ServeAttach
  PROVE  SavesNothingElse'
<1>1. /\ asking.kind = "save" /\ asking.pc = "attach"
      /\ asking' = [asking EXCEPT !.pc = "heard"]
  BY DEF ServeAttach, Asking
<1>2. {"kind", "pc", "body", "media"} \subseteq DOMAIN asking
  BY <1>1 DEF SavesNothingElse
<1>3. /\ DOMAIN asking' = DOMAIN asking
      /\ asking'.kind = "save" /\ asking'.pc = "heard"
      /\ asking'.body = asking.body /\ asking'.media = asking.media
  BY <1>1, <1>2
<1>4. message' # "trouble" => [text |-> asking.body, media |-> asking.media] \in posts'
  BY DEF ServeAttach, ClickedMedia
<1>5. message' # "trouble" => [text |-> asking'.body, media |-> asking'.media] \in posts'
  BY <1>3, <1>4
<1> QED
  BY <1>2, <1>3, <1>5 DEF SavesNothingElse

(* Nothing else gives a save its place or touches what it waits for.       *)
LEMMA ComposerRest ==
  ASSUME SavesNothingElse,
         \/ ServeText \/ ServeImage \/ HearText \/ HearImage \/ HearSaved
         \/ HearError \/ AnswerIsLost \/ OtherTab \/ UNCHANGED composerVars
         \/ \E x : TypeWords(x)
         \/ \E x \in Words : ApplyDraft(x)
         \/ \E m \in Images : PickImage(m)
  PROVE  SavesNothingElse'
<1>1. CASE UNCHANGED <<asking, posts, message>>
  BY <1>1 DEF SavesNothingElse
<1>2. CASE asking'.kind # "save"
  BY <1>2 DEF SavesNothingElse
<1>3. CASE HearText \/ HearImage \/ HearSaved \/ HearError \/ AnswerIsLost
  BY <1>2, <1>3 DEF HearText, HearImage, HearSaved, HearError, AnswerIsLost, NotAsking
<1>4. CASE ServeText
  <2>1. PICK k : k = asking.kind
    OBVIOUS
  <2>2. k # "save"
    BY <1>4, <2>1 DEF ServeText
  <2>3. asking'.kind = k
    <3>1. CASE \E code : Refuse(code)
      BY <2>1, <3>1 DEF Refuse
    <3>2. CASE \E made, left : asking' = [kind |-> asking.kind, pc |-> "ok",
                                         made |-> made, remaining |-> left]
      BY <2>1, <3>2
    <3> QED
      BY <1>4, <3>1, <3>2 DEF ServeText
  <2> QED
    BY <1>2, <2>2, <2>3
<1>5. CASE ServeImage
  <2>1. CASE \E code : Refuse(code)
    BY <1>2, <1>5, <2>1 DEF ServeImage, Asking, Refuse
  <2>2. CASE \E m : asking' = [kind |-> "image", pc |-> "ok", media |-> m]
    BY <1>2, <2>2
  <2> QED
    BY <1>5, <2>1, <2>2 DEF ServeImage
<1>6. CASE OtherTab \/ UNCHANGED composerVars
  BY <1>1, <1>6 DEF OtherTab, composerVars
<1>7. CASE \/ \E x : TypeWords(x)
           \/ \E x \in Words : ApplyDraft(x)
           \/ \E m \in Images : PickImage(m)
  BY <1>1, <1>7 DEF TypeWords, ApplyDraft, PickImage, composerServer
<1> QED
  BY <1>3, <1>4, <1>5, <1>6, <1>7

LEMMA ComposerStepInv ==
  ASSUME SavesNothingElse, [ComposerNext]_composerVars
  PROVE  SavesNothingElse'
  BY ComposerAsks, ComposerSaves, ComposerAttaches, ComposerRest DEF ComposerNext

(* composer.tsx:188: "Saved", and no error beside it, means that the post  *)
(* the member saw when clicking exists with all its images, whatever was   *)
(* typed, picked or deleted while the two requests ran.                    *)
THEOREM SavedMeansSaved == ComposerSpec => SavedIsWhatWasClicked
<1>1. ComposerInit => SavesNothingElse
  <2>1. ComposerInit => asking = NotAsking
    BY Zenon DEF ComposerInit
  <2> QED
    BY <2>1 DEF SavesNothingElse, NotAsking
<1>2. ASSUME SavesNothingElse, ComposerNext
      PROVE  message' = "saved" /\ message # "saved"
               => [text |-> asking.body, media |-> asking.media] \in posts
  <2>1. CASE HearSaved
    BY <1>2, <2>1 DEF HearSaved, SavesNothingElse, Asking
  <2>2. CASE message' # "saved" \/ message' = message
    BY <2>2
  <2>3. CASE ServeAttach \/ HearError \/ AnswerIsLost \/ \E k \in Kinds : AskFor(k)
    BY <2>2, <2>3 DEF ServeAttach, HearError, AnswerIsLost, AskFor
  <2>4. CASE ServeText \/ ServeImage \/ ServeSave \/ HearText \/ HearImage \/ OtherTab
    BY <2>2, <2>4 DEF ServeText, ServeImage, ServeSave, HearText, HearImage, OtherTab
  <2>5. CASE \/ \E x : TypeWords(x)
             \/ \E x \in Words : ApplyDraft(x)
             \/ \E m \in Images : PickImage(m)
    BY <2>2, <2>5 DEF TypeWords, ApplyDraft, PickImage
  <2> QED
    BY <1>2, <2>1, <2>3, <2>4, <2>5 DEF ComposerNext
<1>3. SavesNothingElse /\ [ComposerNext]_composerVars => SavesNothingElse'
  BY ComposerStepInv
<1>4. SavesNothingElse /\ [ComposerNext]_composerVars =>
        [message' = "saved" /\ message # "saved"
           => [text |-> asking.body, media |-> asking.media] \in posts]_composerVars
  BY <1>2
<1> QED
  BY <1>1, <1>3, <1>4, PTL DEF ComposerSpec, SavedIsWhatWasClicked

-----------------------------------------------------------------------------
(* The content list.  The load with the current id is on its way, or has   *)
(* passed the check and is loading no more; while nothing went past the    *)
(* guards it is the only one that will still be applied, and it asked, or  *)
(* the list was asked, with the filter on the screen.                      *)
Unharmed == astray \cap {"body", "closure", "refused", "offline"} = {}

NewestIsUnderWay ==
  /\ DOMAIN call = ListSlots /\ \A s \in ListSlots : "pc" \in DOMAIN call[s]
  /\ newest \in ListSlots \cup {"none"}
  /\ newest # "none" => call[newest].pc \in {"sent", "headers", "refused", "body"}
  /\ newest # "none" /\ call[newest].pc # "body" => loading

OnlyNewestApplies ==
  Unharmed => \A s \in ListSlots : call[s].pc = "body" => s = newest

AskedForFilter ==
  Unharmed /\ ~timer =>
    IF newest = "none" THEN asked = {filter}
    ELSE call[newest].pc # "refused" =>
           /\ call[newest].filter = filter
           /\ call[newest].after # "none" => asked = {filter}

FilterInv == NewestIsUnderWay /\ OnlyNewestApplies /\ AskedForFilter

(* A call that is not the current load goes on, or a slot is taken.        *)
LEMMA ListOther ==
  ASSUME FilterInv, NEW s \in ListSlots, s # newest, DOMAIN call' = ListSlots,
         "pc" \in DOMAIN call'[s], call'[s].pc # "body",
         \A t \in ListSlots \ {s} : call'[t] = call[t],
         UNCHANGED <<newest, loading, filter, timer, asked>>, Unharmed' => Unharmed
  PROVE  FilterInv'
<1>1. newest \in ListSlots \cup {"none"}
  BY DEF FilterInv, NewestIsUnderWay
<1>2. newest # "none" => call'[newest] = call[newest]
  BY <1>1
<1>3. NewestIsUnderWay'
  BY <1>2 DEF FilterInv, NewestIsUnderWay
<1>4. OnlyNewestApplies'
  BY DEF FilterInv, OnlyNewestApplies
<1>5. AskedForFilter'
  BY <1>2 DEF FilterInv, AskedForFilter
<1> QED
  BY <1>3, <1>4, <1>5 DEF FilterInv

(* A new load: no body is being read, or the history says so.              *)
LEMMA ListStarts ==
  ASSUME FilterInv, NEW s \in ListSlots, NEW f, NEW c, StartLoad(s, f, c),
         UNCHANGED <<filter, asked>>,
         Unharmed' /\ ~timer' => f = filter,
         c # "none" /\ Unharmed' /\ ~timer' => Unharmed /\ asked = {filter}
  PROVE  FilterInv'
<1>1. /\ newest' = s /\ loading' = TRUE
      /\ call'[s] = [pc |-> "sent", filter |-> f, after |-> c] /\ DOMAIN call' = ListSlots
      /\ \A t \in ListSlots \ {s} : call'[t] = call[t]
  BY DEF StartLoad
<1>2. Unharmed' => \A t \in ListSlots : call[t].pc # "body"
  BY DEF StartLoad, Unharmed
<1>3. NewestIsUnderWay'
  BY <1>1 DEF FilterInv, NewestIsUnderWay
<1>4. OnlyNewestApplies'
  BY <1>1, <1>2 DEF OnlyNewestApplies
<1>5. AskedForFilter'
  BY <1>1, ListAssumption DEF AskedForFilter
<1> QED
  BY <1>3, <1>4, <1>5 DEF FilterInv

LEMMA ListLoads ==
  ASSUME FilterInv, NEW s \in ListSlots, TimerFires(s) \/ LoadMore(s) \/ BulkDone(s)
  PROVE  FilterInv'
<1>1. CASE TimerFires(s)
  <2>1. StartLoad(s, filter, "none") /\ UNCHANGED <<filter, asked>>
    BY <1>1 DEF TimerFires
  <2> QED
    BY <2>1, ListStarts
<1>2. CASE LoadMore(s)
  <2>1. /\ StartLoad(s, filter, cursor) /\ UNCHANGED <<filter, asked, timer>>
        /\ cursor # "none" /\ ~loading
    BY <1>2 DEF LoadMore, CanLoadMore
  <2>2. ASSUME Unharmed', ~timer' PROVE Unharmed /\ asked = {filter}
    <3>1. /\ astray \subseteq astray'
          /\ \A t \in ListSlots : call[t].pc # "body"
      BY <2>1, <2>2 DEF StartLoad, Unharmed
    <3>2. Unharmed
      BY <2>2, <3>1 DEF Unharmed
    <3>3. newest = "none"
      BY <2>1, <3>1 DEF FilterInv, NewestIsUnderWay
    <3> QED
      BY <2>1, <2>2, <3>2, <3>3 DEF FilterInv, AskedForFilter
  <2> QED
    BY <2>1, <2>2, ListStarts
<1>3. CASE BulkDone(s)
  <2>1. PICK f : f = call[s].filter
    OBVIOUS
  <2>2. StartLoad(s, f, "none") /\ UNCHANGED <<filter, asked, timer>>
    BY <1>3, <2>1 DEF BulkDone
  <2>3. Unharmed' /\ ~timer' => f = filter
    BY <2>2 DEF StartLoad, Unharmed
  <2> QED
    BY <2>2, <2>3, ListStarts
<1> QED
  BY <1>1, <1>2, <1>3

LEMMA ListAnswers ==
  ASSUME FilterInv, NEW s \in ListSlots, AnswerLoad(s)
  PROVE  FilterInv'
<1>1. PICK f, c : f = call[s].filter /\ c = call[s].after
  OBVIOUS
<1>2. /\ DOMAIN call' = ListSlots /\ "pc" \in DOMAIN call'[s]
      /\ \A t \in ListSlots \ {s} : call'[t] = call[t]
      /\ \/ call'[s].pc = "headers" /\ call'[s].filter = f /\ call'[s].after = c
         \/ call'[s].pc = "refused"
  <2>1. ASSUME NEW page,
               call' = [call EXCEPT ![s] = [pc |-> "headers", filter |-> @.filter,
                                            after |-> @.after, page |-> page]]
        PROVE  /\ DOMAIN call' = ListSlots /\ "pc" \in DOMAIN call'[s]
               /\ \A t \in ListSlots \ {s} : call'[t] = call[t]
               /\ call'[s].pc = "headers" /\ call'[s].filter = f /\ call'[s].after = c
    <3>1. call' = [call EXCEPT ![s] = [pc |-> "headers", filter |-> f,
                                       after |-> c, page |-> page]]
      BY <1>1, <2>1
    <3> QED
      BY <3>1 DEF FilterInv, NewestIsUnderWay
  <2>2. CASE call' = [call EXCEPT ![s] = [pc |-> "refused"]]
    BY <2>2 DEF FilterInv, NewestIsUnderWay
  <2> QED
    BY <2>1, <2>2 DEF AnswerLoad
<1>3. call[s].pc = "sent"
      /\ UNCHANGED <<newest, loading, filter, timer, asked, astray>>
  BY DEF AnswerLoad, listView
<1>4. CASE s # newest
  BY <1>2, <1>3, <1>4, ListOther DEF Unharmed
<1>5. CASE s = newest
  <2>1. DOMAIN call = ListSlots /\ s # "none"
    BY ListAssumption DEF FilterInv, NewestIsUnderWay
  <2>2. NewestIsUnderWay'
    BY <1>2, <1>3, <1>5, <2>1 DEF FilterInv, NewestIsUnderWay
  <2>3. OnlyNewestApplies'
    BY <1>2, <1>3 DEF FilterInv, OnlyNewestApplies, Unharmed
  <2>4. AskedForFilter'
    BY <1>1, <1>2, <1>3, <1>5, <2>1 DEF FilterInv, AskedForFilter, Unharmed
  <2> QED
    BY <2>2, <2>3, <2>4 DEF FilterInv
<1> QED
  BY <1>4, <1>5

LEMMA ListHears ==
  ASSUME FilterInv, NEW s \in ListSlots, ReadHeaders(s) \/ ReadBody(s) \/ LoadRejects(s)
  PROVE  FilterInv'
<1>1. /\ DOMAIN call = ListSlots /\ s # "none" /\ newest \in ListSlots \cup {"none"}
      /\ UNCHANGED <<filter, timer>>
  BY ListAssumption
     DEF FilterInv, NewestIsUnderWay, ReadHeaders, ReadBody, LoadRejects, listView
<1>2. CASE call' = [call EXCEPT ![s] = NoCall] /\ newest # s
           /\ UNCHANGED <<newest, loading, asked, astray>>
  <2>1. /\ DOMAIN call' = ListSlots /\ call'[s].pc # "body" /\ "pc" \in DOMAIN call'[s]
        /\ \A t \in ListSlots \ {s} : call'[t] = call[t]
    BY <1>1, <1>2 DEF NoCall
  <2> QED
    BY <1>1, <1>2, <2>1, ListOther DEF Unharmed
<1>3. CASE call' = [call EXCEPT ![s] = NoCall] /\ newest = s /\ newest' = "none"
  <2>1. /\ DOMAIN call' = ListSlots
        /\ call'[s].pc = "idle" /\ "pc" \in DOMAIN call'[s]
        /\ \A t \in ListSlots \ {s} : call'[t] = call[t]
    BY <1>1, <1>3 DEF NoCall
  <2>2. NewestIsUnderWay'
    BY <1>3, <2>1 DEF FilterInv, NewestIsUnderWay
  <2>3. Unharmed' => Unharmed
    BY DEF ReadHeaders, ReadBody, LoadRejects, Unharmed
  <2>4. OnlyNewestApplies'
    BY <1>3, <2>1, <2>3 DEF FilterInv, OnlyNewestApplies
  <2>5. AskedForFilter'
    <3> SUFFICES ASSUME Unharmed', ~timer' PROVE asked' = {filter'}
      BY <1>3 DEF AskedForFilter
    <3>1. ReadBody(s)
      BY <1>1, <1>3 DEF ReadHeaders, LoadRejects, Unharmed, Superseded
    <3>2. /\ call[s].filter = filter
          /\ call[s].after # "none" => asked = {filter}
      BY <1>1, <1>3, <2>3, <3>1 DEF FilterInv, AskedForFilter, ReadBody
    <3> QED
      BY <1>1, <3>1, <3>2 DEF ReadBody
  <2> QED
    BY <2>2, <2>4, <2>5 DEF FilterInv
<1>4. CASE /\ call' = [call EXCEPT ![s].pc = "body"] /\ call[s].pc = "headers"
           /\ newest = s /\ UNCHANGED <<newest, asked, astray>>
  <2>1. /\ DOMAIN call' = ListSlots
        /\ \A t \in ListSlots \ {s} : call'[t] = call[t]
    BY <1>1, <1>4
  <2>2. call'[s] = [call[s] EXCEPT !.pc = "body"]
    BY <1>1, <1>4
  <2>3. /\ call'[s].filter = call[s].filter /\ call'[s].after = call[s].after
        /\ call'[s].pc = "body" /\ "pc" \in DOMAIN call'[s]
    BY <2>2 DEF FilterInv, NewestIsUnderWay
  <2>4. NewestIsUnderWay'
    BY <1>1, <1>4, <2>1, <2>3 DEF FilterInv, NewestIsUnderWay
  <2>5. OnlyNewestApplies'
    BY <1>4, <2>1, <2>3 DEF FilterInv, OnlyNewestApplies, Unharmed
  <2>6. AskedForFilter'
    BY <1>1, <1>4, <2>3 DEF FilterInv, AskedForFilter, Unharmed
  <2> QED
    BY <2>4, <2>5, <2>6 DEF FilterInv
<1>5. CASE ReadHeaders(s)
  <2>1. CASE newest # s
    BY <1>2, <1>5, <2>1 DEF ReadHeaders, Superseded
  <2>2. CASE newest = s /\ call[s].pc = "refused"
    BY <1>3, <1>5, <2>2 DEF ReadHeaders, Superseded
  <2>3. CASE newest = s /\ call[s].pc # "refused"
    BY <1>4, <1>5, <2>3 DEF ReadHeaders, Superseded
  <2> QED
    BY <2>1, <2>2, <2>3
<1>6. CASE ReadBody(s)
  <2>1. CASE newest = s
    BY <1>3, <1>6, <2>1 DEF ReadBody
  <2>2. CASE newest # s
    <3>1. ~Unharmed /\ ~Unharmed'
      BY <1>6, <2>2 DEF FilterInv, OnlyNewestApplies, ReadBody, Unharmed
    <3>2. /\ DOMAIN call' = ListSlots /\ "pc" \in DOMAIN call'[s]
          /\ \A t \in ListSlots \ {s} : call'[t] = call[t]
          /\ UNCHANGED <<newest, loading>>
      BY <1>1, <1>6, <2>2 DEF ReadBody, NoCall
    <3>3. NewestIsUnderWay'
      BY <1>1, <2>2, <3>2 DEF FilterInv, NewestIsUnderWay
    <3> QED
      BY <3>1, <3>3 DEF FilterInv, OnlyNewestApplies, AskedForFilter
  <2> QED
    BY <2>1, <2>2
<1>7. CASE LoadRejects(s)
  BY <1>2, <1>3, <1>7 DEF LoadRejects, listView
<1> QED
  BY <1>5, <1>6, <1>7

(* Everything else is no load.                                             *)
LEMMA ListActs ==
  ASSUME FilterInv, NEW s \in ListSlots,
         (\E a : Bulk(s, a)) \/ AnswerBulk(s) \/ BulkFails(s) \/ Undo(s)
  PROVE  FilterInv'
<1>1. /\ DOMAIN call = ListSlots /\ \A t \in ListSlots : "pc" \in DOMAIN call[t]
      /\ newest # "none" => call[newest].pc \in {"sent", "headers", "refused", "body"}
      /\ s # "none"
  BY ListAssumption DEF FilterInv, NewestIsUnderWay
<1>2. /\ call[s].pc \in {"idle", "bulk", "done"}
      /\ UNCHANGED <<newest, loading, filter, timer, asked>>
  BY DEF Bulk, AnswerBulk, BulkFails, Undo, FreeSlot, listView
<1>3. s # newest
  BY <1>1, <1>2
<1>4. Unharmed' => Unharmed
  BY DEF Bulk, AnswerBulk, BulkFails, Undo, Unharmed
<1>5. /\ DOMAIN call' = ListSlots
      /\ \A t \in ListSlots \ {s} : call'[t] = call[t]
  BY <1>1 DEF Bulk, AnswerBulk, BulkFails, Undo
<1>6. "pc" \in DOMAIN call'[s] /\ call'[s].pc # "body"
  <2>1. CASE (\E a : Bulk(s, a)) \/ BulkFails(s)
    BY <1>1, <2>1 DEF Bulk, BulkFails, NoCall
  <2>2. CASE AnswerBulk(s)
    <3>1. call' = [call EXCEPT ![s].pc = "done"]
      BY <2>2 DEF AnswerBulk
    <3>2. call'[s] = [call[s] EXCEPT !.pc = "done"]
      BY <1>1, <3>1
    <3> QED
      BY <1>1, <3>2
  <2>3. CASE Undo(s)
    BY <1>1, <2>3 DEF Undo
  <2> QED
    BY <2>1, <2>2, <2>3
<1> QED
  BY <1>2, <1>3, <1>4, <1>5, <1>6, ListOther

LEMMA ListRest ==
  ASSUME FilterInv,
         \/ \E f \in Filters : ChangeFilter(f)
         \/ \E p \in ListPosts : ToggleSelected(p)
         \/ ToggleAll \/ ClearSelection \/ OthersChange \/ UNCHANGED listVars
  PROVE  FilterInv'
<1>1. /\ UNCHANGED <<newest, loading, call, asked>>
      /\ timer' \/ UNCHANGED <<filter, timer>>
      /\ Unharmed' => Unharmed
  BY DEF ChangeFilter, ToggleSelected, ToggleAll, ClearSelection, OthersChange, listVars,
         listView, Unharmed
<1>2. NewestIsUnderWay'
  BY <1>1 DEF FilterInv, NewestIsUnderWay
<1>3. OnlyNewestApplies'
  BY <1>1 DEF FilterInv, OnlyNewestApplies
<1>4. AskedForFilter'
  BY <1>1 DEF FilterInv, AskedForFilter
<1> QED
  BY <1>2, <1>3, <1>4 DEF FilterInv

LEMMA ListStepInv ==
  ASSUME FilterInv, [ListNext]_listVars
  PROVE  FilterInv'
<1>1. ASSUME NEW s \in ListSlots,
             \/ TimerFires(s) \/ LoadMore(s) \/ AnswerLoad(s) \/ ReadHeaders(s)
             \/ ReadBody(s) \/ LoadRejects(s)
             \/ \E a \in {"approve", "delete"} : Bulk(s, a)
             \/ AnswerBulk(s) \/ BulkDone(s) \/ BulkFails(s) \/ Undo(s)
      PROVE  FilterInv'
  BY <1>1, ListLoads, ListAnswers, ListHears, ListActs
<1> QED
  BY <1>1, ListRest DEF ListNext

(* content-list.tsx:67: once nothing is under way the list is what the     *)
(* filter on the screen was answered with, unless the last load from the   *)
(* top failed, or met one of the two known gaps.                           *)
THEOREM ListIsForFilter == ListSpec => []ListShownForFilter
<1>1. ListInit => FilterInv
  <2> SUFFICES ASSUME ListInit PROVE FilterInv
    OBVIOUS
  <2>1. /\ newest = "none" /\ call = [s \in ListSlots |-> NoCall]
        /\ asked = {"all"} /\ filter = "all"
    BY DEF ListInit
  <2> QED
    BY <2>1 DEF FilterInv, NewestIsUnderWay, OnlyNewestApplies, AskedForFilter, NoCall
<1>2. FilterInv => ListShownForFilter
  <2> SUFFICES ASSUME FilterInv, ListQuiet, Unharmed PROVE asked = {filter}
    BY DEF ListShownForFilter, Unharmed
  <2>1. newest = "none"
    BY DEF FilterInv, NewestIsUnderWay, ListQuiet
  <2> QED
    BY <2>1 DEF FilterInv, AskedForFilter, ListQuiet
<1> QED
  BY <1>1, <1>2, ListStepInv, PTL DEF ListSpec

-----------------------------------------------------------------------------
(* The post sheet.  A sheet has one request of its own under way at most,  *)
(* and knows it; a text the list does not have yet will make it reload;    *)
(* and what the sheet shows is the post's text, or is being edited, or is  *)
(* about to be replaced by the answer that has it.                         *)
SheetCalls ==
  [kind: SheetKinds, text: SheetTexts, pc: {"sent", "error"}, mine: BOOLEAN]
    \cup [kind: SheetKinds, pc: {"ok"}, mine: BOOLEAN, text: PostTexts,
          status: SheetStatuses, revisions: SUBSET PostTexts]

SheetPosts == [text: PostTexts, status: SheetStatuses, live: BOOLEAN]
SheetStates == [open: BOOLEAN, editing: BOOLEAN, body: SheetTexts, status: SheetStatuses,
                busy: SheetKinds \cup {"none"}, revisions: SUBSET PostTexts]

SheetTyped ==
  /\ row \in SheetPosts /\ listCopy \in SheetPosts
  /\ past \subseteq PostTexts
  /\ sheet \in SheetStates
  /\ sent \subseteq SheetCalls

OneRequest ==
  /\ \A c, d \in sent : c.mine /\ d.mine => c = d
  /\ \A c \in sent : c.mine => sheet.open /\ sheet.busy = c.kind

ListKeepsUp ==
  sheetAstray \cap {"lost", "others"} = {} =>
    \/ listCopy.text = row.text
    \/ reloading
    \/ \E c \in sent : c.pc = "ok" /\ c.kind # "revisions"

(* A save under way carries the fields, an answered one what they became.  *)
SavedWords(c) ==
  IF c.pc = "ok" THEN c.text = AsSaved[sheet.body] ELSE c.text = sheet.body

ShownIsTrue ==
  sheet.open /\ sheetAstray = {} =>
    /\ \A c \in sent : c.mine \/ c.kind = "undo"
    /\ \A c \in sent : c.mine /\ c.pc = "ok" /\ Rewrites(c) => c.text = row.text
    /\ \A c \in sent : c.kind = "save" /\ c.pc # "error" =>
                         sheet.editing /\ SavedWords(c)
    /\ \/ sheet.editing
       \/ SameWords(sheet.body, row.text)
       \/ \E c \in sent : c.mine /\ c.pc = "ok" /\ c.kind \in {"regenerate", "restore"}

SheetInv == SheetTyped /\ OneRequest /\ ListKeepsUp /\ ShownIsTrue

LEMMA StoredTexts ==
  /\ PostTexts \subseteq SheetTexts
  /\ \A x \in SheetTexts : AsSaved[x] \in PostTexts
BY SheetAssumption DEF PostTexts

LEMMA SheetInitInv == SheetInit => SheetInv
<1> SUFFICES ASSUME SheetInit PROVE SheetInv
  OBVIOUS
<1>1. /\ row \in SheetPosts /\ past = {} /\ listCopy = row /\ sent = {}
      /\ sheet = Mounted(row)
  BY DEF SheetInit, SheetPosts
<1>2. Mounted(row) \in SheetStates /\ Mounted(row).body = row.text
  BY <1>1, StoredTexts DEF Mounted, SheetStates, SheetPosts
<1>3. SheetTyped
  BY <1>1, <1>2 DEF SheetTyped
<1> QED
  BY <1>1, <1>2, <1>3 DEF SheetInv, OneRequest, ListKeepsUp, ShownIsTrue, SameWords

(* What a button sends.                                                    *)
LEMMA SheetSends ==
  ASSUME SheetInv, NEW k \in SheetKinds \ {"undo"}, Send(k)
  PROVE  SheetInv'
<1> DEFINE new(x) == [kind |-> k, text |-> x, pc |-> "sent", mine |-> TRUE]
<1>1. SheetTyped /\ OneRequest /\ ListKeepsUp /\ ShownIsTrue
  BY DEF SheetInv
<1>2. PICK x \in SheetTexts : /\ sent' = sent \cup {new(x)}
                              /\ k = "save" => x = sheet.body
  BY <1>1, StoredTexts DEF SheetTyped, SheetStates, Send
<1>3. /\ sheet.open /\ sheet.busy = "none" /\ (k = "save" => sheet.editing)
      /\ sheet' = [sheet EXCEPT !.busy = k]
      /\ UNCHANGED <<row, past, listCopy, reloading, sheetAstray>>
  BY DEF Send, Ready, sheetList
<1>4. /\ new(x) \in SheetCalls /\ new(x).kind = k /\ new(x).text = x
      /\ new(x).mine = TRUE /\ new(x).pc = "sent"
  BY DEF SheetCalls
<1>5. PICK c : c = new(x)
  OBVIOUS
<1> HIDE DEF new
<1>6. /\ sheet'.open = sheet.open /\ sheet'.editing = sheet.editing
      /\ sheet'.body = sheet.body /\ sheet'.busy = k /\ sheet' \in SheetStates
  BY <1>1, <1>3 DEF SheetTyped, SheetStates
<1>7. SheetTyped'
  BY <1>1, <1>2, <1>3, <1>4, <1>6 DEF SheetTyped
<1>8. \A d \in sent : ~d.mine
  <2> SUFFICES ASSUME NEW d \in sent, d.mine PROVE FALSE
    OBVIOUS
  <2>1. d.kind \in SheetKinds
    BY <1>1 DEF SheetTyped, SheetCalls
  <2> QED
    BY <1>1, <1>3, <2>1 DEF OneRequest, SheetKinds
<1>9. OneRequest'
  BY <1>2, <1>3, <1>4, <1>5, <1>6, <1>8 DEF OneRequest
<1>10. ListKeepsUp'
  BY <1>1, <1>2, <1>3 DEF ListKeepsUp
<1>11. ShownIsTrue'
  BY <1>1, <1>2, <1>3, <1>4, <1>5, <1>6, <1>8 DEF ShownIsTrue, Rewrites, SavedWords, SameWords
<1> QED
  BY <1>7, <1>9, <1>10, <1>11 DEF SheetInv

(* The fields.                                                             *)
LEMMA SheetEdits ==
  ASSUME SheetInv, StartEdit \/ CancelEdit \/ \E x \in SheetTexts : Type(x)
  PROVE  SheetInv'
<1>1. SheetTyped /\ OneRequest /\ ListKeepsUp /\ ShownIsTrue
  BY DEF SheetInv
<1>2. UNCHANGED <<row, past, listCopy, reloading, sent>>
  BY DEF StartEdit, CancelEdit, Type, sheetList
<1>3. /\ sheet' \in SheetStates
      /\ sheet'.open = sheet.open /\ sheet'.busy = sheet.busy
  BY <1>1 DEF SheetTyped, SheetStates, StartEdit, CancelEdit, Type
<1>4. sheetAstray \subseteq sheetAstray'
      /\ sheetAstray' \subseteq sheetAstray \cup {"typed", "cancelled"}
  BY DEF StartEdit, CancelEdit, Type
<1>5. SheetTyped'
  BY <1>1, <1>2, <1>3 DEF SheetTyped
<1>6. OneRequest' /\ ListKeepsUp'
  BY <1>1, <1>2, <1>3, <1>4 DEF OneRequest, ListKeepsUp
<1>7. sheetAstray' = {} => sheetAstray = {}
  BY <1>4
<1>8. ASSUME StartEdit PROVE ShownIsTrue'
  <2>1. sheet'.editing = TRUE /\ sheet'.body = sheet.body
    BY <1>1, <1>8 DEF SheetTyped, SheetStates, StartEdit
  <2> QED
    BY <1>1, <1>2, <1>3, <1>7, <2>1 DEF ShownIsTrue, SavedWords
<1>9. ASSUME CancelEdit PROVE ShownIsTrue'
  <2>1. sheet'.body = sheet.body
    BY <1>1, <1>9 DEF SheetTyped, SheetStates, CancelEdit
  <2>2. sheetAstray' = {} => SameWords(sheet.body, row.text) /\ sent = {}
    BY <1>9 DEF CancelEdit
  <2> QED
    BY <1>2, <2>1, <2>2 DEF ShownIsTrue, SameWords
<1>10. ASSUME NEW x \in SheetTexts, Type(x) PROVE ShownIsTrue'
  <2>1. sheet'.editing = TRUE
    BY <1>1, <1>10 DEF SheetTyped, SheetStates, Type
  <2>2. sheetAstray' = {} => sheet.busy # "save"
    BY <1>10 DEF Type
  <2>3. sheet.open /\ sheetAstray' = {} => \A c \in sent : c.kind # "save"
    BY <1>1, <1>7, <2>2 DEF OneRequest, ShownIsTrue
  <2> QED
    BY <1>1, <1>2, <1>3, <1>7, <2>1, <2>3 DEF ShownIsTrue
<1> QED
  BY <1>5, <1>6, <1>8, <1>9, <1>10 DEF SheetInv

(* What a request becomes keeps the shape of a request.                    *)
LEMMA SheetCallShapes ==
  ASSUME NEW c \in SheetCalls
  PROVE  /\ c.kind \in SheetKinds /\ c.text \in SheetTexts
         /\ c.pc \in {"sent", "ok", "error"} /\ c.mine \in BOOLEAN
         /\ LET d == [c EXCEPT !.mine = FALSE] IN
              /\ d \in SheetCalls /\ d.kind = c.kind /\ d.text = c.text
              /\ d.pc = c.pc /\ ~d.mine
         /\ c.pc = "sent" =>
              LET d == [c EXCEPT !.pc = "error"] IN
              /\ d \in SheetCalls /\ d.kind = c.kind /\ d.text = c.text
              /\ d.pc = "error" /\ d.mine = c.mine
<1>1. CASE c \in [kind: SheetKinds, text: SheetTexts, pc: {"sent", "error"}, mine: BOOLEAN]
  BY <1>1 DEF SheetCalls
<1>2. CASE c \in [kind: SheetKinds, pc: {"ok"}, mine: BOOLEAN, text: PostTexts,
                  status: SheetStatuses, revisions: SUBSET PostTexts]
  BY <1>2, StoredTexts DEF SheetCalls
<1> QED
  BY <1>1, <1>2 DEF SheetCalls

(* A sheet opens with what the list has, and takes nothing with it.        *)
LEMMA SheetDoors ==
  ASSUME SheetInv, CloseSheet \/ OpenSheet
  PROVE  SheetInv'
<1>1. SheetTyped /\ OneRequest /\ ListKeepsUp /\ ShownIsTrue
  BY DEF SheetInv
<1>2. UNCHANGED <<row, past, listCopy, reloading>>
  BY DEF CloseSheet, OpenSheet, sheetList
<1>3. CASE CloseSheet
  <2>1. /\ sent' = {[c EXCEPT !.mine = FALSE] : c \in sent}
        /\ UNCHANGED sheetAstray /\ sheet' = [sheet EXCEPT !.open = FALSE]
    BY <1>3 DEF CloseSheet
  <2>2. sheet' \in SheetStates /\ ~sheet'.open
    BY <1>1, <2>1 DEF SheetTyped, SheetStates
  <2>3. \A d \in sent' : d \in SheetCalls /\ ~d.mine
    BY <1>1, <2>1, SheetCallShapes DEF SheetTyped
  <2>4. ASSUME NEW c \in sent, c.pc = "ok", c.kind # "revisions"
        PROVE  \E d \in sent' : d.pc = "ok" /\ d.kind # "revisions"
    <3>1. [c EXCEPT !.mine = FALSE] \in sent'
      BY <2>1
    <3>2. /\ [c EXCEPT !.mine = FALSE].pc = "ok"
          /\ [c EXCEPT !.mine = FALSE].kind # "revisions"
      BY <1>1, <2>4, SheetCallShapes DEF SheetTyped
    <3> QED
      BY <3>1, <3>2
  <2>5. SheetTyped'
    BY <1>1, <1>2, <2>2, <2>3 DEF SheetTyped
  <2>6. ListKeepsUp'
    BY <1>1, <1>2, <2>1, <2>4 DEF ListKeepsUp
  <2> QED
    BY <2>2, <2>3, <2>5, <2>6 DEF SheetInv, OneRequest, ShownIsTrue
<1>4. CASE OpenSheet
  <2>1. /\ ~sheet.open /\ sheet' = Mounted(listCopy) /\ sent' = sent
        /\ sheetAstray' = (sheetAstray \ {"cancelled", "typed"})
                             \cup (IF sent # {} \/ reloading THEN {"early"} ELSE {})
    BY <1>4 DEF OpenSheet
  <2>2. sheet' \in SheetStates /\ sheet'.body = listCopy.text
    BY <1>1, <2>1, StoredTexts DEF SheetTyped, SheetStates, SheetPosts, Mounted
  <2>3. \A c \in sent : ~c.mine
    BY <1>1, <2>1 DEF OneRequest
  <2>4. SheetTyped' /\ OneRequest' /\ ListKeepsUp'
    BY <1>1, <1>2, <2>1, <2>2, <2>3 DEF SheetTyped, OneRequest, ListKeepsUp
  <2>5. ASSUME sheetAstray' = {} PROVE sent = {} /\ listCopy.text = row.text
    <3>1. sent = {} /\ ~reloading /\ sheetAstray \cap {"lost", "others"} = {}
      BY <2>1, <2>5
    <3> QED
      BY <1>1, <3>1 DEF ListKeepsUp
  <2>6. ShownIsTrue'
    BY <1>2, <2>1, <2>2, <2>5 DEF ShownIsTrue, SameWords
  <2> QED
    BY <2>4, <2>6 DEF SheetInv
<1> QED
  BY <1>3, <1>4

(* Behind the sheet: the list reloads, a delete is taken back, somebody    *)
(* else writes, an answer is lost.                                         *)
LEMMA SheetElsewhere ==
  ASSUME SheetInv, ListReloads \/ UndoDelete \/ OthersEdit
  PROVE  SheetInv'
<1>1. SheetTyped /\ OneRequest /\ ListKeepsUp /\ ShownIsTrue
  BY DEF SheetInv
<1>2. UNCHANGED <<past, sheet>>
  BY DEF ListReloads, UndoDelete, OthersEdit
<1>3. CASE ListReloads
  <2>1. UNCHANGED <<row, sent>> /\ (listCopy' = row \/ UNCHANGED listCopy)
    BY <1>3 DEF ListReloads
  <2>2. SheetTyped' /\ OneRequest'
    BY <1>1, <1>2, <2>1 DEF SheetTyped, OneRequest
  <2>3. ListKeepsUp'
    BY <1>3, <2>1 DEF ListReloads, ListKeepsUp
  <2>4. sheet.open /\ sheetAstray' = {} => sheetAstray = {}
    BY <1>3 DEF ListReloads
  <2>5. ShownIsTrue'
    BY <1>1, <1>2, <2>1, <2>4 DEF ShownIsTrue, SameWords, SavedWords
  <2> QED
    BY <2>2, <2>3, <2>5 DEF SheetInv
<1>4. CASE UndoDelete
  <2> DEFINE new == [kind |-> "undo", text |-> row.text, pc |-> "sent", mine |-> FALSE]
  <2>1. sent' = sent \cup {new} /\ UNCHANGED <<row, listCopy, reloading, sheetAstray>>
    BY <1>4 DEF UndoDelete, sheetList
  <2>2. new \in SheetCalls /\ new.kind = "undo" /\ new.pc = "sent" /\ new.mine = FALSE
    BY <1>1, StoredTexts DEF SheetTyped, SheetPosts, SheetCalls, SheetKinds
  <2>3. PICK c : c = new
    OBVIOUS
  <2> HIDE DEF new
  <2>4. SheetTyped'
    BY <1>1, <1>2, <2>1, <2>2 DEF SheetTyped
  <2>5. OneRequest'
    BY <1>1, <1>2, <2>1, <2>2, <2>3 DEF OneRequest
  <2>6. ListKeepsUp'
    BY <1>1, <2>1 DEF ListKeepsUp
  <2>7. ShownIsTrue'
    BY <1>1, <1>2, <2>1, <2>2, <2>3 DEF ShownIsTrue, Rewrites, SavedWords, SameWords
  <2> QED
    BY <2>4, <2>5, <2>6, <2>7 DEF SheetInv
<1>5. CASE OthersEdit
  <2>0. PICK x \in PostTexts, st \in {"pending_review", "approved"} :
          row' = [row EXCEPT !.text = x, !.status = st]
    BY <1>5, Zenon DEF OthersEdit
  <2>1. UNCHANGED <<listCopy, reloading, sent>> /\ "others" \in sheetAstray'
    <3>1. UNCHANGED sheetList /\ UNCHANGED sent
      BY <1>5, Zenon DEF OthersEdit
    <3>2. sheetAstray' = sheetAstray \cup {"others"}
      BY <1>5, Zenon DEF OthersEdit
    <3> QED
      BY <3>1, <3>2 DEF sheetList
  <2>2. row' \in SheetPosts
    BY <1>1, <2>0 DEF SheetTyped, SheetPosts, SheetStatuses
  <2>3. SheetTyped' /\ OneRequest'
    BY <1>1, <1>2, <2>1, <2>2 DEF SheetTyped, OneRequest
  <2> QED
    BY <2>1, <2>3 DEF SheetInv, ListKeepsUp, ShownIsTrue
<1> QED
  BY <1>3, <1>4, <1>5

LEMMA SheetLoses ==
  ASSUME SheetInv, NEW c \in sent, AnswerLost(c)
  PROVE  SheetInv'
<1> DEFINE new == [kind |-> c.kind, text |-> c.text, pc |-> "error", mine |-> c.mine]
<1>1. SheetTyped /\ OneRequest
  BY DEF SheetInv
<1>2. /\ sent' = (sent \ {c}) \cup {new} /\ "lost" \in sheetAstray'
      /\ UNCHANGED <<row, past, listCopy, reloading, sheet>>
  BY DEF AnswerLost, sheetList
<1>3. /\ new \in SheetCalls /\ new.kind = c.kind /\ new.mine = c.mine
      /\ c.mine \in BOOLEAN
  BY <1>1, SheetCallShapes DEF SheetTyped, SheetCalls
<1>4. PICK d : d = new
  OBVIOUS
<1> HIDE DEF new
<1>5. SheetTyped'
  BY <1>1, <1>2, <1>3 DEF SheetTyped
<1>6. OneRequest'
  BY <1>1, <1>2, <1>3, <1>4 DEF OneRequest
<1> QED
  BY <1>2, <1>5, <1>6 DEF SheetInv, ListKeepsUp, ShownIsTrue

LEMMA SheetRowAfter ==
  ASSUME row \in SheetPosts, NEW c \in SheetCalls
  PROVE  /\ RowAfter(c) \in SheetPosts
         /\ Rewrites(c) => RowAfter(c).text = AsSaved[c.text]
         /\ ~Rewrites(c) => RowAfter(c).text = row.text
<1>1. AsSaved[c.text] \in PostTexts /\ EditedStatus(row.status) \in SheetStatuses
  BY SheetCallShapes, StoredTexts DEF SheetPosts, SheetStatuses, EditedStatus
<1>2. CASE Rewrites(c)
  BY <1>1, <1>2 DEF Rewrites, RowAfter, SheetPosts
<1>3. CASE c.kind = "approve"
  BY <1>3 DEF Rewrites, RowAfter, SheetPosts, SheetStatuses
<1>4. CASE c.kind \in {"delete", "undo"}
  BY <1>4 DEF Rewrites, RowAfter, SheetPosts
<1>5. CASE ~Rewrites(c) /\ c.kind \notin {"approve", "delete", "undo"}
  BY <1>5 DEF Rewrites, RowAfter
<1> QED
  BY <1>2, <1>3, <1>4, <1>5

(* A request runs: refused it changes nothing, and what it answers is what *)
(* the post is by then.                                                    *)
LEMMA SheetRuns ==
  ASSUME SheetInv, NEW c \in sent, ServerRuns(c)
  PROVE  SheetInv'
<1>1. SheetTyped /\ OneRequest /\ ListKeepsUp /\ ShownIsTrue
  BY DEF SheetInv
<1>2. /\ c \in SheetCalls /\ c.pc = "sent"
      /\ c.kind \in SheetKinds /\ c.text \in SheetTexts /\ c.mine \in BOOLEAN
  BY <1>1, SheetCallShapes DEF SheetTyped, ServerRuns
<1>3. UNCHANGED <<listCopy, reloading, sheet, sheetAstray>>
  BY DEF ServerRuns, sheetList
<1>4. CASE sent' = (sent \ {c}) \cup {[c EXCEPT !.pc = "error"]} /\ UNCHANGED <<row, past>>
  <2>1. PICK d : d = [c EXCEPT !.pc = "error"]
    OBVIOUS
  <2>2. /\ sent' = (sent \ {c}) \cup {d} /\ d \in SheetCalls /\ d.kind = c.kind
        /\ d.text = c.text /\ d.pc = "error" /\ d.mine = c.mine
    BY <1>2, <1>4, <2>1, SheetCallShapes
  <2>3. SheetTyped'
    BY <1>1, <1>3, <1>4, <2>2 DEF SheetTyped
  <2>4. OneRequest'
    BY <1>1, <1>3, <2>2 DEF OneRequest
  <2>5. ListKeepsUp'
    BY <1>1, <1>2, <1>3, <1>4, <2>2 DEF ListKeepsUp
  <2>6. ShownIsTrue'
    BY <1>1, <1>2, <1>3, <1>4, <2>2 DEF ShownIsTrue, Rewrites, SavedWords, SameWords
  <2> QED
    BY <2>3, <2>4, <2>5, <2>6 DEF SheetInv
<1>5. CASE /\ row' = RowAfter(c)
           /\ past' = (IF Rewrites(c) /\ AsSaved[c.text] # row.text
                       THEN past \cup {row.text} ELSE past)
           /\ sent' = (sent \ {c}) \cup {[kind |-> c.kind, pc |-> "ok", mine |-> c.mine,
                                          text |-> row'.text, status |-> row'.status,
                                          revisions |-> past]}
  <2> DEFINE new == [kind |-> c.kind, pc |-> "ok", mine |-> c.mine, text |-> row'.text,
                     status |-> row'.status, revisions |-> past]
  <2>1. /\ row' \in SheetPosts /\ past' \subseteq PostTexts
        /\ Rewrites(c) => row'.text = AsSaved[c.text]
        /\ ~Rewrites(c) => row'.text = row.text
    BY <1>1, <1>2, <1>5, SheetRowAfter DEF SheetTyped, SheetPosts
  <2>2. /\ new \in SheetCalls /\ new.kind = c.kind /\ new.text = row'.text
        /\ new.pc = "ok" /\ new.mine = c.mine
    BY <1>1, <1>2, <2>1 DEF SheetTyped, SheetCalls, SheetPosts
  <2>3. PICK d : d = new
    OBVIOUS
  <2>4. sent' = (sent \ {c}) \cup {d}
    BY <1>5, <2>3
  <2>5. /\ d \in SheetCalls /\ d.kind = c.kind /\ d.text = row'.text
        /\ d.pc = "ok" /\ d.mine = c.mine
    BY <2>2, <2>3
  <2> HIDE DEF new
  <2>6. SheetTyped'
    BY <1>1, <1>3, <2>1, <2>4, <2>5 DEF SheetTyped
  <2>7. OneRequest'
    BY <1>1, <1>3, <2>4, <2>5 DEF OneRequest
  <2>8. ListKeepsUp'
    BY <1>1, <1>2, <1>3, <2>1, <2>4, <2>5 DEF ListKeepsUp, Rewrites
  <2>9. ShownIsTrue'
    <3> SUFFICES ASSUME sheet.open, sheetAstray = {} PROVE ShownIsTrue'
      BY <1>3 DEF ShownIsTrue
    <3>1. Rewrites(c) => c.mine
      BY <1>1 DEF ShownIsTrue, Rewrites
    <3>2. \A e \in sent' : e.mine \/ e.kind = "undo"
      BY <1>1, <2>4, <2>5 DEF ShownIsTrue
    <3>3. ASSUME NEW e \in sent', e.mine, e.pc = "ok", Rewrites(e)
          PROVE  e.text = row'.text
      <4>1. CASE e = d
        BY <2>5, <4>1
      <4>2. CASE e \in sent \ {c}
        <5>1. ~c.mine /\ e.text = row.text
          BY <1>1, <3>3, <4>2 DEF OneRequest, ShownIsTrue
        <5> QED
          BY <2>1, <3>1, <5>1
      <4> QED
        BY <2>4, <4>1, <4>2
    <3>4. ASSUME NEW e \in sent', e.kind = "save", e.pc # "error"
          PROVE  /\ sheet'.editing
                 /\ IF e.pc = "ok" THEN e.text = AsSaved[sheet'.body]
                                   ELSE e.text = sheet'.body
      <4>1. CASE e = d
        BY <1>1, <1>2, <1>3, <2>1, <2>5, <3>4, <4>1 DEF ShownIsTrue, Rewrites, SavedWords
      <4>2. CASE e \in sent
        BY <1>1, <1>3, <3>4, <4>2 DEF ShownIsTrue, SavedWords
      <4> QED
        BY <2>4, <4>1, <4>2
    <3>5. \/ sheet'.editing
          \/ SameWords(sheet'.body, row'.text)
          \/ \E e \in sent' : e.mine /\ e.pc = "ok" /\ e.kind \in {"regenerate", "restore"}
      <4>1. CASE c.kind = "save"
        BY <1>1, <1>2, <1>3, <4>1 DEF ShownIsTrue
      <4>2. CASE c.kind \in {"regenerate", "restore"}
        BY <2>4, <2>5, <3>1, <4>2 DEF Rewrites
      <4>3. CASE ~Rewrites(c)
        BY <1>1, <1>2, <1>3, <2>1, <2>4, <4>3 DEF ShownIsTrue, SameWords
      <4> QED
        BY <4>1, <4>2, <4>3 DEF Rewrites
    <3> QED
      BY <3>2, <3>3, <3>4, <3>5 DEF ShownIsTrue, SavedWords, SameWords
  <2> QED
    BY <2>6, <2>7, <2>8, <2>9 DEF SheetInv
<1> QED
  BY <1>4, <1>5 DEF ServerRuns

(* The sheet hears, from its own request or, of a delete, from any.        *)
LEMMA SheetHears ==
  ASSUME SheetInv, NEW c \in sent, Answer(c)
  PROVE  SheetInv'
<1> DEFINE rested == IF c.mine THEN [sheet EXCEPT !.busy = "none"] ELSE sheet
           closes == c.pc = "ok" /\ c.kind = "delete"
<1>1. SheetTyped /\ OneRequest /\ ListKeepsUp /\ ShownIsTrue
  BY DEF SheetInv
<1>2. /\ c \in SheetCalls /\ c.pc \in {"ok", "error"}
      /\ c.kind \in SheetKinds /\ c.text \in SheetTexts /\ c.mine \in BOOLEAN
      /\ c.pc = "ok" => c.status \in SheetStatuses /\ c.revisions \subseteq PostTexts
  BY <1>1, SheetCallShapes DEF SheetTyped, Answer, SheetCalls
<1>3. UNCHANGED <<row, past, listCopy, sheetAstray>>
  BY DEF Answer
<1>4. /\ rested \in SheetStates /\ rested.open = sheet.open
      /\ rested.editing = sheet.editing /\ rested.body = sheet.body
      /\ ~c.mine => rested = sheet
  BY <1>1 DEF SheetTyped, SheetStates
<1>5. sheet' = IF c.pc = "ok" /\ (c.mine \/ c.kind = "delete")
               THEN SheetAfter(c, rested) ELSE rested
  BY DEF Answer
<1>6. PICK s : s = rested
  OBVIOUS
<1> HIDE DEF rested
<1>7. /\ sheet' \in SheetStates
      /\ ~closes => sheet'.open = sheet.open
      /\ closes => ~sheet'.open
      /\ ~c.mine /\ ~closes => sheet' = sheet
      /\ c.pc = "error" \/ c.kind \notin {"save", "regenerate", "restore", "delete"} =>
           sheet'.editing = sheet.editing /\ sheet'.body = sheet.body
      /\ c.mine /\ c.pc = "ok" /\ c.kind = "save" => sheet'.body = sheet.body
      /\ c.mine /\ c.pc = "ok" /\ c.kind \in {"regenerate", "restore"} =>
           sheet'.body = c.text
  <2>1. CASE ~(c.pc = "ok" /\ (c.mine \/ c.kind = "delete"))
    BY <1>2, <1>4, <1>5, <2>1
  <2>2. CASE c.pc = "ok" /\ c.kind = "save" /\ c.mine
    BY <1>2, <1>4, <1>5, <2>2 DEF SheetAfter, SheetStates
  <2>3. CASE c.pc = "ok" /\ c.kind = "approve" /\ c.mine
    BY <1>2, <1>4, <1>5, <2>3 DEF SheetAfter, SheetStates
  <2>4. CASE c.pc = "ok" /\ c.kind = "regenerate" /\ c.mine
    BY <1>2, <1>4, <1>5, <2>4 DEF SheetAfter, SheetStates
  <2>5. CASE c.pc = "ok" /\ c.kind = "restore" /\ c.mine
    BY <1>2, <1>4, <1>5, <2>5 DEF SheetAfter, SheetStates
  <2>6. CASE c.pc = "ok" /\ c.kind = "delete"
    BY <1>2, <1>4, <1>5, <2>6 DEF SheetAfter, SheetStates
  <2>7. CASE c.pc = "ok" /\ c.kind = "revisions" /\ c.mine
    BY <1>2, <1>4, <1>5, <2>7 DEF SheetAfter, SheetStates
  <2>8. CASE c.pc = "ok" /\ c.kind \in {"duplicate", "undo"} /\ c.mine
    BY <1>2, <1>4, <1>5, <2>8 DEF SheetAfter
  <2> QED
    BY <1>2, <2>1, <2>2, <2>3, <2>4, <2>5, <2>6, <2>7, <2>8 DEF SheetKinds
<1>8. CASE closes
  <2>1. sent' = {[d EXCEPT !.mine = FALSE] : d \in sent \ {c}} /\ reloading' = TRUE
    BY <1>8 DEF Answer
  <2>2. \A d \in sent' : d \in SheetCalls /\ ~d.mine
    BY <1>1, <2>1, SheetCallShapes DEF SheetTyped
  <2>3. SheetTyped'
    BY <1>1, <1>3, <1>7, <2>2 DEF SheetTyped
  <2> QED
    BY <1>7, <1>8, <2>1, <2>2, <2>3 DEF SheetInv, OneRequest, ListKeepsUp, ShownIsTrue
<1>9. CASE ~closes
  <2>1. /\ sent' = sent \ {c}
        /\ reloading' <=> (reloading \/ (c.pc = "ok" /\ c.kind # "revisions"))
    BY <1>9 DEF Answer
  <2>2. SheetTyped'
    BY <1>1, <1>3, <1>7, <2>1 DEF SheetTyped
  <2>3. \A d \in sent' : d.mine => sheet' = sheet
    BY <1>1, <1>2, <1>7, <1>9, <2>1 DEF OneRequest
  <2>4. OneRequest'
    BY <1>1, <2>1, <2>3 DEF OneRequest
  <2>5. ListKeepsUp'
    BY <1>1, <1>2, <1>3, <2>1 DEF ListKeepsUp
  <2>6. ShownIsTrue'
    <3> SUFFICES ASSUME sheet.open, sheetAstray = {} PROVE ShownIsTrue'
      BY <1>3, <1>7, <1>9 DEF ShownIsTrue
    <3>1. \A d \in sent' : d.kind = "save" /\ d.pc # "error" =>
                              /\ sheet'.editing
                              /\ IF d.pc = "ok" THEN d.text = AsSaved[sheet'.body]
                                                ELSE d.text = sheet'.body
      BY <1>1, <2>1, <2>3 DEF ShownIsTrue, SavedWords
    <3>2. \/ sheet'.editing
          \/ SameWords(sheet'.body, row'.text)
          \/ \E d \in sent' : d.mine /\ d.pc = "ok" /\ d.kind \in {"regenerate", "restore"}
      <4>1. CASE ~c.mine
        BY <1>1, <1>3, <1>7, <1>9, <2>1, <4>1 DEF ShownIsTrue, SameWords
      <4>2. CASE c.mine /\ c.pc = "ok" /\ c.kind = "save"
        BY <1>1, <1>3, <1>7, <4>2 DEF ShownIsTrue, Rewrites, SavedWords, SameWords
      <4>3. CASE c.mine /\ c.pc = "ok" /\ c.kind \in {"regenerate", "restore"}
        BY <1>1, <1>3, <1>7, <4>3 DEF ShownIsTrue, Rewrites, SameWords
      <4>4. CASE c.mine /\ (c.pc = "error" \/ ~Rewrites(c))
        <5>1. sheet.editing \/ SameWords(sheet.body, row.text)
          BY <1>1, <4>4 DEF OneRequest, ShownIsTrue, Rewrites
        <5> QED
          BY <1>2, <1>3, <1>7, <1>9, <4>4, <5>1 DEF Rewrites, SameWords
      <4> QED
        BY <1>2, <4>1, <4>2, <4>3, <4>4 DEF Rewrites
    <3> QED
      BY <1>1, <1>3, <2>1, <3>1, <3>2 DEF ShownIsTrue, SavedWords, SameWords
  <2> QED
    BY <2>2, <2>4, <2>5, <2>6 DEF SheetInv
<1> QED
  BY <1>8, <1>9

LEMMA SheetInvariant == SheetSpec => []SheetInv
<1>1. SheetInv /\ [SheetNext]_sheetVars => SheetInv'
  <2> SUFFICES ASSUME SheetInv, [SheetNext]_sheetVars PROVE SheetInv'
    OBVIOUS
  <2>1. ASSUME UNCHANGED sheetVars PROVE SheetInv'
    BY <2>1 DEF sheetVars, sheetList, SheetInv, SheetTyped, OneRequest, ListKeepsUp,
                ShownIsTrue, SavedWords, SameWords
  <2>2. ASSUME NEW c \in sent, ServerRuns(c) \/ Answer(c) \/ AnswerLost(c)
        PROVE  SheetInv'
    BY <2>2, SheetRuns, SheetHears, SheetLoses
  <2> QED
    BY <2>1, <2>2, SheetSends, SheetEdits, SheetDoors, SheetElsewhere DEF SheetNext
<1> QED
  BY <1>1, SheetInitInv, PTL DEF SheetSpec

(* post-sheet.tsx:276: the preview shows the words the post has, or words  *)
(* stored as those, whatever storing makes of a text, unless the member    *)
(* typed during a save or cancelled an edit, an answer was lost, another   *)
(* member wrote, or the sheet was opened too early.                        *)
THEOREM PreviewIsTrue == SheetSpec => []PreviewIsThePost
<1>1. SheetInv => PreviewIsThePost
  BY DEF SheetInv, ShownIsTrue, PreviewIsThePost
<1> QED
  BY <1>1, SheetInvariant, PTL

-----------------------------------------------------------------------------
(***************************************************************************)
(* Paging.  A table orders its rows; what is sorted by it is cut into      *)
(* pages, and a page put after those before it goes as far as its cursor.  *)
(***************************************************************************)
Line(table, S) ==
  /\ \A p \in S : ~Ahead(table, p, p)
  /\ \A p, q, u \in S : Ahead(table, p, q) /\ Ahead(table, q, u) => Ahead(table, p, u)
  /\ \A p, q \in S : p = q \/ Ahead(table, p, q) \/ Ahead(table, q, p)

InRow(r, S, table) ==
  /\ r \in Seq(S)
  /\ \A p \in S : \E i \in 1..Len(r) : r[i] = p
  /\ \A i, j \in 1..Len(r) : i < j => Ahead(table, r[i], r[j])

(* A list holds each row of S up to its cursor once, without one all of S. *)
Shows(list, c, S, table) ==
  /\ list \in Seq(S)
  /\ \A i, j \in 1..Len(list) : list[i] = list[j] => i = j
  /\ c = "none" => \A p \in S : \E i \in 1..Len(list) : list[i] = p
  /\ c # "none" =>
       /\ c \in S
       /\ \A p \in S : (\E i \in 1..Len(list) : list[i] = p)
                         <=> p = c \/ Ahead(table, p, c)

LEMMA TableIsLine ==
  ASSUME NEW S, NEW table \in Seq(S),
         \A i, j \in 1..Len(table) : table[i] = table[j] => i = j,
         \A p \in S : \E i \in 1..Len(table) : table[i] = p
  PROVE  Line(table, S)
<1>1. \A p \in S : ~Ahead(table, p, p)
  <2> SUFFICES ASSUME NEW p \in S, Ahead(table, p, p) PROVE FALSE
    OBVIOUS
  <2>1. PICK i \in 1..Len(table), j \in 1..Len(table) : i < j /\ table[i] = p /\ table[j] = p
    BY DEF Ahead
  <2>2. i = j
    BY <2>1
  <2> QED
    BY <2>1, <2>2
<1>2. \A p, q, u \in S : Ahead(table, p, q) /\ Ahead(table, q, u) => Ahead(table, p, u)
  <2> SUFFICES ASSUME NEW p \in S, NEW q \in S, NEW u \in S,
                      Ahead(table, p, q), Ahead(table, q, u)
               PROVE  Ahead(table, p, u)
    OBVIOUS
  <2>1. PICK i \in 1..Len(table), j \in 1..Len(table) : i < j /\ table[i] = p /\ table[j] = q
    BY DEF Ahead
  <2>2. PICK k \in 1..Len(table), l \in 1..Len(table) : k < l /\ table[k] = q /\ table[l] = u
    BY DEF Ahead
  <2>3. j = k
    BY <2>1, <2>2
  <2>4. i < l
    BY <2>1, <2>2, <2>3
  <2> QED
    BY <2>1, <2>2, <2>4 DEF Ahead
<1>3. \A p, q \in S : p = q \/ Ahead(table, p, q) \/ Ahead(table, q, p)
  <2> SUFFICES ASSUME NEW p \in S, NEW q \in S
               PROVE  p = q \/ Ahead(table, p, q) \/ Ahead(table, q, p)
    OBVIOUS
  <2>1. PICK i \in 1..Len(table), j \in 1..Len(table) : table[i] = p /\ table[j] = q
    OBVIOUS
  <2>2. i = j \/ i < j \/ j < i
    OBVIOUS
  <2> QED
    BY <2>1, <2>2 DEF Ahead
<1> QED
  BY <1>1, <1>2, <1>3 DEF Line

LEMMA SortedIsRow ==
  ASSUME NEW S, IsFiniteSet(S), NEW table, NEW r \in Sorted(table, S)
  PROVE  InRow(r, S, table)
<1> DEFINE n == Cardinality(S)
<1>1. n \in Nat
  BY FS_CardinalityType
<1>2. /\ r \in [1..n -> S]
      /\ \A p \in S : \E i \in 1..n : r[i] = p
      /\ \A i, j \in 1..n : i < j => Ahead(table, r[i], r[j])
  BY DEF Sorted
<1> HIDE DEF n
<1>3. r \in Seq(S) /\ Len(r) = n
  BY <1>1, <1>2
<1> QED
  BY <1>2, <1>3 DEF InRow

(* Without its first row a sorted list is that of the rows after it.       *)
LEMMA TailIsRow ==
  ASSUME NEW S, NEW table, Line(table, S), NEW T, T \subseteq S, NEW c \in T,
         \A p \in T : p = c \/ Ahead(table, c, p),
         NEW r, InRow(r, T, table)
  PROVE  r # <<>> /\ InRow(Tail(r), T \ {c}, table)
<1>1. /\ r \in Seq(T) /\ Len(r) \in Nat
      /\ \A p \in T : \E i \in 1..Len(r) : r[i] = p
      /\ \A i, j \in 1..Len(r) : i < j => Ahead(table, r[i], r[j])
  BY DEF InRow
<1>2. PICK k \in 1..Len(r) : r[k] = c
  BY <1>1
<1>3. 1 \in 1..Len(r) /\ r # <<>> /\ r[1] \in T /\ c \in S
  BY <1>1
<1>4. r[1] = c
  <2> SUFFICES ASSUME r[1] # c PROVE FALSE
    OBVIOUS
  <2>1. Ahead(table, c, r[1])
    BY <1>3
  <2>2. 1 < k
    BY <1>1, <1>2
  <2>3. Ahead(table, r[1], c)
    BY <1>1, <1>2, <1>3, <2>2
  <2>4. r[1] \in S
    BY <1>3
  <2> QED
    BY <1>3, <2>1, <2>3, <2>4 DEF Line
<1>5. /\ Tail(r) \in Seq(T) /\ Len(Tail(r)) = Len(r) - 1
      /\ \A i \in 1..Len(Tail(r)) : Tail(r)[i] = r[i + 1]
  BY <1>1, <1>3, HeadTailProperties
<1>6. \A i \in 1..Len(Tail(r)) :
        i \in Nat /\ i + 1 \in 1..Len(r) /\ 1 < i + 1 /\ Tail(r)[i] = r[i + 1]
  BY <1>1, <1>5
<1>7. ASSUME NEW i \in 1..Len(Tail(r)) PROVE Tail(r)[i] \in T \ {c}
  <2>1. r[i + 1] \in T
    BY <1>1, <1>6
  <2>2. Ahead(table, c, r[i + 1])
    BY <1>1, <1>3, <1>4, <1>6
  <2>3. r[i + 1] # c
    BY <1>3, <2>2 DEF Line
  <2> QED
    BY <1>6, <2>1, <2>3
<1>8. Tail(r) \in Seq(T \ {c})
  <2> DEFINE t == Tail(r)
  <2>1. t \in Seq(T) /\ \A i \in 1..Len(t) : t[i] \in T \ {c}
    BY <1>5, <1>7
  <2> HIDE DEF t
  <2>2. t \in [1..Len(t) -> T \ {c}] /\ Len(t) \in Nat
    BY <2>1
  <2>3. t \in Seq(T \ {c})
    BY <2>2
  <2> QED
    BY <2>3 DEF t
<1>9. ASSUME NEW p \in T \ {c} PROVE \E i \in 1..Len(Tail(r)) : Tail(r)[i] = p
  <2>1. PICK j \in 1..Len(r) : r[j] = p
    BY <1>1
  <2>2. j # 1
    BY <1>4, <2>1
  <2>3. j - 1 \in 1..Len(Tail(r)) /\ (j - 1) + 1 = j
    BY <1>1, <1>5, <2>2
  <2> QED
    BY <1>6, <2>1, <2>3
<1>10. ASSUME NEW i \in 1..Len(Tail(r)), NEW j \in 1..Len(Tail(r)), i < j
       PROVE  Ahead(table, Tail(r)[i], Tail(r)[j])
  <2>1. i + 1 < j + 1
    BY <1>6, <1>10
  <2> QED
    BY <1>1, <1>6, <2>1
<1> QED
  BY <1>3, <1>8, <1>9, <1>10 DEF InRow

(* A page of a sorted list shows it.                                       *)
LEMMA PageShows ==
  ASSUME NEW S, NEW table, Line(table, S), NEW T, T \subseteq S, "none" \notin S,
         NEW r, InRow(r, T, table), NEW size \in Nat \ {0}
  PROVE  Shows(PageOf(r, size).items, PageOf(r, size).cursor, T, table)
<1> DEFINE m == IF Len(r) > size THEN size ELSE Len(r)
           it == SubSeq(r, 1, m)
           c == PageOf(r, size).cursor
<1>1. /\ r \in Seq(T) /\ Len(r) \in Nat
      /\ \A p \in T : \E i \in 1..Len(r) : r[i] = p
      /\ \A i, j \in 1..Len(r) : i < j => Ahead(table, r[i], r[j])
  BY DEF InRow
<1>2. m \in Nat /\ m <= Len(r)
  BY <1>1
<1>3. PageOf(r, size).items = it /\ c = IF Len(r) > size THEN r[size] ELSE "none"
  BY DEF PageOf
<1>4. it \in Seq(T) /\ Len(it) = m /\ \A i \in 1..m : i \in 1..Len(r) /\ it[i] = r[i]
  <2> HIDE DEF m
  <2>1. \A i \in 1..m : r[i] \in T /\ i \in 1..Len(r)
    BY <1>1, <1>2
  <2>2. /\ it \in Seq(T)
        /\ Len(it) = IF 1 <= m THEN m - 1 + 1 ELSE 0
        /\ \A i \in 1..(m - 1 + 1) : it[i] = r[1 + i - 1]
    BY <1>2, <2>1, SubSeqProperties
  <2> QED
    BY <1>2, <2>1, <2>2
<1>5. \A i, j \in 1..Len(r) : r[i] = r[j] => i = j
  <2> SUFFICES ASSUME NEW i \in 1..Len(r), NEW j \in 1..Len(r), r[i] = r[j], i # j
               PROVE  FALSE
    OBVIOUS
  <2>1. i < j \/ j < i
    BY <1>1
  <2>2. Ahead(table, r[i], r[i])
    BY <1>1, <2>1
  <2>3. r[i] \in S
    BY <1>1
  <2> QED
    BY <2>2, <2>3 DEF Line
<1> HIDE DEF it
<1>6. \A i, j \in 1..Len(it) : it[i] = it[j] => i = j
  BY <1>4, <1>5
<1>7. CASE Len(r) > size
  <2>1. m = size /\ size \in 1..Len(r) /\ c = r[size]
    BY <1>1, <1>3, <1>7
  <2>2. c \in T /\ c \in S /\ c # "none"
    BY <1>1, <2>1
  <2>3. ASSUME NEW p \in T, NEW i \in 1..Len(it), it[i] = p
        PROVE  p = c \/ Ahead(table, p, c)
    <3>1. i = size \/ i < size
      BY <1>4, <2>1
    <3> QED
      BY <1>1, <1>4, <2>1, <2>3, <3>1
  <2>4. ASSUME NEW p \in T, p = c \/ Ahead(table, p, c)
        PROVE  \E i \in 1..Len(it) : it[i] = p
    <3>1. PICK k \in 1..Len(r) : r[k] = p
      BY <1>1
    <3>2. k <= size
      <4> SUFFICES ASSUME ~(k <= size) PROVE FALSE
        OBVIOUS
      <4>1. size < k /\ size \in 1..Len(r)
        BY <1>1, <1>7
      <4>2. Ahead(table, r[size], r[k])
        BY <1>1, <4>1
      <4>3. Ahead(table, c, p)
        BY <2>1, <3>1, <4>2
      <4>4. p \in S
        OBVIOUS
      <4> QED
        BY <2>2, <2>4, <4>3, <4>4 DEF Line
    <3>3. k \in 1..Len(it)
      BY <1>1, <1>4, <2>1, <3>2
    <3> QED
      BY <1>4, <3>1, <3>3
  <2> QED
    BY <1>3, <1>4, <1>6, <2>2, <2>3, <2>4 DEF Shows
<1>8. CASE ~(Len(r) > size)
  <2>1. m = Len(r) /\ c = "none"
    BY <1>1, <1>3, <1>8
  <2>2. \A p \in T : \E i \in 1..Len(it) : it[i] = p
    BY <1>1, <1>4, <2>1
  <2> QED
    BY <1>3, <1>4, <1>6, <2>1, <2>2 DEF Shows
<1> QED
  BY <1>7, <1>8

(* What a list shows and what a page shows of the rows after it, together. *)
LEMMA PagesJoin ==
  ASSUME NEW S, NEW table, Line(table, S), NEW M, M \subseteq S,
         NEW list, NEW c, c # "none", Shows(list, c, M, table),
         NEW it, NEW d, Shows(it, d, {p \in M : Ahead(table, c, p)}, table)
  PROVE  Shows(list \o it, d, M, table)
<1> DEFINE T == {p \in M : Ahead(table, c, p)}
           all == list \o it
           In(seq, p) == \E i \in 1..Len(seq) : seq[i] = p
<1>1. /\ list \in Seq(M) /\ Len(list) \in Nat
      /\ \A i, j \in 1..Len(list) : list[i] = list[j] => i = j
      /\ c \in M /\ c \in S
      /\ \A p \in M : In(list, p) <=> p = c \/ Ahead(table, p, c)
  BY DEF Shows
<1>2. /\ it \in Seq(T) /\ it \in Seq(M) /\ Len(it) \in Nat
      /\ \A i, j \in 1..Len(it) : it[i] = it[j] => i = j
      /\ d = "none" => \A p \in T : In(it, p)
      /\ d # "none" => d \in T /\ \A p \in T : In(it, p) <=> p = d \/ Ahead(table, p, d)
  <2>1. it \in Seq(T)
    BY DEF Shows
  <2>2. \A i \in 1..Len(it) : it[i] \in M
    BY <2>1
  <2>3. it \in Seq(M)
    BY <2>1, <2>2
  <2> QED
    BY <2>1, <2>3 DEF Shows
<1>3. /\ all \in Seq(M)
      /\ Len(all) = Len(list) + Len(it)
      /\ \A i \in 1..(Len(list) + Len(it)) :
           all[i] = IF i <= Len(list) THEN list[i] ELSE it[i - Len(list)]
  BY <1>1, <1>2, ConcatProperties
<1> HIDE DEF all
<1>4. \A i \in 1..Len(all) :
        \/ i \in 1..Len(list) /\ all[i] = list[i]
        \/ i - Len(list) \in 1..Len(it) /\ all[i] = it[i - Len(list)]
  BY <1>1, <1>2, <1>3
<1>5. \A i \in 1..Len(list) : i \in 1..Len(all) /\ all[i] = list[i]
  BY <1>1, <1>2, <1>3
<1>6. ASSUME NEW i \in 1..Len(it)
      PROVE  i + Len(list) \in 1..Len(all) /\ all[i + Len(list)] = it[i]
  <2>1. /\ i + Len(list) \in 1..(Len(list) + Len(it))
        /\ ~(i + Len(list) <= Len(list)) /\ i + Len(list) - Len(list) = i
    BY <1>1, <1>2
  <2> QED
    BY <1>3, <2>1
<1>7. \A p : In(all, p) <=> In(list, p) \/ In(it, p)
  BY <1>4, <1>5, <1>6
(* The two share no row.                                                   *)
<1>8. \A p \in M : ~(In(list, p) /\ In(it, p))
  <2> SUFFICES ASSUME NEW p \in M, In(list, p), In(it, p) PROVE FALSE
    OBVIOUS
  <2>1. p \in T /\ Ahead(table, c, p) /\ p \in S
    BY <1>2
  <2>2. p = c \/ Ahead(table, p, c)
    BY <1>1
  <2> QED
    BY <1>1, <2>1, <2>2 DEF Line
<1>9. \A i, j \in 1..Len(all) : all[i] = all[j] => i = j
  <2> SUFFICES ASSUME NEW i \in 1..Len(all), NEW j \in 1..Len(all), all[i] = all[j]
               PROVE  i = j
    OBVIOUS
  <2> DEFINE n == Len(list)
  <2>1. CASE i \in 1..n /\ all[i] = list[i] /\ j \in 1..n /\ all[j] = list[j]
    BY <1>1, <2>1
  <2>2. CASE /\ i - n \in 1..Len(it) /\ all[i] = it[i - n]
             /\ j - n \in 1..Len(it) /\ all[j] = it[j - n]
    <3>1. i - n = j - n
      BY <1>2, <2>2
    <3>2. i \in Int /\ j \in Int
      BY <1>1, <1>2, <1>3
    <3> QED
      BY <1>1, <3>1, <3>2
  <2>3. all[i] \in M
    BY <1>3
  <2>4. CASE i \in 1..n /\ all[i] = list[i] /\ j - n \in 1..Len(it) /\ all[j] = it[j - n]
    BY <1>8, <2>3, <2>4
  <2>5. CASE j \in 1..n /\ all[j] = list[j] /\ i - n \in 1..Len(it) /\ all[i] = it[i - n]
    BY <1>8, <2>3, <2>5
  <2> QED
    BY <1>4, <2>1, <2>2, <2>4, <2>5
<1>10. \A p \in M : p = c \/ Ahead(table, p, c) \/ p \in T
  BY <1>1 DEF Line
<1>11. d = "none" => \A p \in M : In(all, p)
  BY <1>1, <1>2, <1>7, <1>10
<1>12. ASSUME d # "none"
       PROVE  d \in M /\ \A p \in M : In(all, p) <=> p = d \/ Ahead(table, p, d)
  <2>1. d \in M /\ d \in S /\ Ahead(table, c, d) /\ d \in T
    BY <1>2, <1>12
  <2>2. ASSUME NEW p \in M, In(all, p) PROVE p = d \/ Ahead(table, p, d)
    <3>1. p \in S
      OBVIOUS
    <3>2. CASE In(list, p)
      <4>1. p = c \/ Ahead(table, p, c)
        BY <1>1, <3>2
      <4> QED
        BY <1>1, <2>1, <3>1, <4>1 DEF Line
    <3>3. CASE In(it, p)
      <4>1. p \in T
        BY <1>2, <3>3
      <4> QED
        BY <1>2, <1>12, <3>3, <4>1
    <3> QED
      BY <1>7, <2>2, <3>2, <3>3
  <2>3. ASSUME NEW p \in M, p = d \/ Ahead(table, p, d) PROVE In(all, p)
    <3>1. CASE p \in T
      BY <1>2, <1>7, <1>12, <2>3, <3>1
    <3>2. CASE p \notin T
      BY <1>1, <1>7, <1>10, <3>2
    <3> QED
      BY <3>1, <3>2
  <2> QED
    BY <2>1, <2>2, <2>3
<1> QED
  BY <1>3, <1>9, <1>11, <1>12 DEF Shows, all

(* The first page, and the one after a cursor.                             *)
LEMMA TopShows ==
  ASSUME NEW S, IsFiniteSet(S), "none" \notin S, NEW table, Line(table, S),
         NEW M, M \subseteq S, NEW size \in Nat \ {0},
         NEW page \in PagesFrom(table, M, "none", size)
  PROVE  Shows(page.items, page.cursor, M, table)
<1>1. PICK r \in Sorted(table, M) : page = PageOf(r, size)
  BY DEF PagesFrom, RowsFrom
<1>2. InRow(r, M, table)
  <2>1. IsFiniteSet(M)
    BY FS_Subset
  <2> QED
    BY <2>1, SortedIsRow
<1> QED
  BY <1>1, <1>2, PageShows

LEMMA NextShows ==
  ASSUME NEW S, IsFiniteSet(S), "none" \notin S, NEW table, Line(table, S),
         NEW M, M \subseteq S, NEW size \in Nat \ {0},
         NEW list, NEW c, c # "none", Shows(list, c, M, table),
         NEW page \in PagesFrom(table, M, c, size)
  PROVE  Shows(list \o page.items, page.cursor, M, table)
<1> DEFINE T == {p \in M : p = c \/ Ahead(table, c, p)}
           U == {p \in M : Ahead(table, c, p)}
<1>1. c \in M /\ c \in S
  BY DEF Shows
<1>2. PICK r \in Sorted(table, T) : page = PageOf(IF r = <<>> THEN r ELSE Tail(r), size)
  BY DEF PagesFrom, RowsFrom
<1>3. /\ T \subseteq S /\ c \in T /\ \A p \in T : p = c \/ Ahead(table, c, p)
      /\ T \ {c} = U /\ U \subseteq S
  BY <1>1 DEF Line
<1>4. InRow(r, T, table)
  <2>1. IsFiniteSet(T)
    BY <1>3, FS_Subset
  <2> QED
    BY <2>1, SortedIsRow
<1> HIDE DEF T, U
<1>5. r # <<>> /\ InRow(Tail(r), U, table)
  <2>1. r # <<>> /\ InRow(Tail(r), T \ {c}, table)
    BY <1>3, <1>4, TailIsRow
  <2> QED
    BY <1>3, <2>1
<1>6. Shows(page.items, page.cursor, U, table)
  BY <1>2, <1>3, <1>5, PageShows
<1>7. Shows(page.items, page.cursor, {p \in M : Ahead(table, c, p)}, table)
  BY <1>6 DEF U
<1> QED
  BY <1>7, PagesJoin

(* A list that shows rows shows each once, and all of them at the end.     *)
LEMMA ShownOnce ==
  ASSUME NEW S, NEW table, NEW list, NEW c, Shows(list, c, S, table)
  PROVE  /\ Cardinality(ToSet(list)) = Len(list)
         /\ c = "none" => ToSet(list) = S
<1> DEFINE n == Len(list)
           T == ToSet(list)
<1>1. /\ list \in Seq(S) /\ n \in Nat
      /\ \A i, j \in 1..n : list[i] = list[j] => i = j
      /\ c = "none" => \A p \in S : \E i \in 1..n : list[i] = p
  BY DEF Shows
<1>2. DOMAIN list = 1..n /\ list \in [1..n -> S]
  BY <1>1
<1>3. T = {list[i] : i \in 1..n} /\ T \subseteq S
  <2>1. T = {list[i] : i \in 1..n}
    BY <1>2 DEF ToSet
  <2>2. \A i \in 1..n : list[i] \in S
    BY <1>2
  <2> QED
    BY <2>1, <2>2
<1>4. list \in [1..n -> T]
  BY <1>2, <1>3
<1>5. list \in Bijection(1..n, T)
  <2>1. \A p \in T : \E i \in 1..n : list[i] = p
    BY <1>3
  <2> HIDE DEF T
  <2> QED
    BY <1>1, <1>4, <2>1 DEF n, Bijection, Injection, IsInjective, Surjection
<1> HIDE DEF n
<1>6. IsFiniteSet(1..n) /\ Cardinality(1..n) = n
  BY <1>1, FS_Interval
<1>7. ExistsBijection(1..n, T)
  BY <1>5 DEF ExistsBijection
<1>8. Cardinality(T) = n
  BY <1>6, <1>7, FS_Bijection
<1> QED
  BY <1>1, <1>3, <1>8 DEF n

-----------------------------------------------------------------------------
(***************************************************************************)
(* The library's grid.  Loads are not numbered; but while two have not     *)
(* crossed, none failed and none came of a closure older than the filter,  *)
(* there is one at most, for the filter on the screen or sure to cross one *)
(* that is; and unless another is sure to follow it brings what is         *)
(* missing.  A deletion the page has not heard of is missing from the grid *)
(* until the first page is read again.                                     *)
(***************************************************************************)
LibSane == libAstray \cap {"crossed", "failed", "closure", "offline"} = {}
LibBusy(s) == ask[s].pc \in {"load", "page"}

(* No load from the top will be started by what is under way.              *)
LibSettled ==
  LibSane /\ "unheard" \notin libAstray /\ ~libTimer /\ \A s \in LibSlots : ask[s].pc \notin {"upload", "deleteDone"}

LibWanted(f) == {m \in LibImages : LibMatches(f, m)}
GridShows == itemsFor = {source} /\ Shows(items, libCursor, LibWanted(source), library)

PageFits(s) ==
  /\ ask[s].filter = source
  /\ ask[s].after = "none" /\ ask[s].pc = "page" =>
       Shows(ask[s].page.items, ask[s].page.cursor, LibWanted(source), library)
  /\ ask[s].after # "none" =>
       /\ GridShows /\ ask[s].after = libCursor
       /\ ask[s].pc = "page" =>
            Shows(items \o ask[s].page.items, ask[s].page.cursor, LibWanted(source), library)

LibTyped ==
  /\ DOMAIN ask = LibSlots /\ \A s \in LibSlots : "pc" \in DOMAIN ask[s]
  /\ kept \subseteq LibImages
  /\ library \in Seq(LibImages)
  /\ \A i, j \in 1..Len(library) : library[i] = library[j] => i = j
  /\ \A m \in kept : \E i \in 1..Len(library) : library[i] = m

OneLoadAtATime ==
  LibSane => \A s, u \in LibSlots : LibBusy(s) /\ LibBusy(u) => s = u

(* A load is for the filter on the screen, or one that is will cross it.   *)
LoadsForSource ==
  LibSane /\ ~libTimer => \A s \in LibSlots : LibBusy(s) => ask[s].filter = source

GridKeepsUp ==
  LibSettled =>
    /\ (\A s \in LibSlots : ~LibBusy(s)) => GridShows
    /\ \A s \in LibSlots : LibBusy(s) => PageFits(s)

LibInv == LibTyped /\ OneLoadAtATime /\ LoadsForSource /\ GridKeepsUp

LibStored == {m \in LibImages : \E i \in 1..Len(library) : library[i] = m}

LEMMA LibIsLine ==
  ASSUME LibTyped
  PROVE  /\ IsFiniteSet(LibStored) /\ "none" \notin LibStored
         /\ Line(library, LibStored)
         /\ \A f : LibWanted(f) \subseteq LibStored
<1>1. LibStored \subseteq LibImages
  BY DEF LibStored
<1>2. IsFiniteSet(LibStored) /\ "none" \notin LibStored
  BY <1>1, FS_Subset, LibAssumption
<1>3. \A i \in 1..Len(library) : library[i] \in LibStored
  BY DEF LibTyped, LibStored
<1>4. library \in Seq(LibStored)
  <2>1. Len(library) \in Nat /\ library \in [1..Len(library) -> LibImages]
    BY DEF LibTyped
  <2>2. library \in [1..Len(library) -> LibStored]
    BY <1>3, <2>1
  <2> QED
    BY <2>1, <2>2
<1>5. Line(library, LibStored)
  <2>1. \A p \in LibStored : \E i \in 1..Len(library) : library[i] = p
    BY DEF LibStored
  <2>2. \A i, j \in 1..Len(library) : library[i] = library[j] => i = j
    BY DEF LibTyped
  <2> QED
    BY <1>4, <2>1, <2>2, TableIsLine
<1>6. \A f : LibWanted(f) \subseteq LibStored
  BY DEF LibTyped, LibWanted, LibMatches, LibStored
<1> QED
  BY <1>2, <1>5, <1>6

(* A step that leaves the grid and every load as they are, or after which  *)
(* a load from the top is to come.                                         *)
LEMMA LibOther ==
  ASSUME LibInv, LibTyped', NEW s \in LibSlots, DOMAIN ask' = LibSlots,
         \A u \in LibSlots \ {s} : ask'[u] = ask[u],
         ~LibBusy(s) \/ ask'[s] = ask[s], ~LibBusy(s)' \/ ask'[s] = ask[s],
         LibSane' => LibSane, UNCHANGED <<source, libTimer>>,
         LibSettled' => /\ LibSettled
                        /\ UNCHANGED <<libDb, source, libView>>
  PROVE  LibInv'
<1>1. \A u \in LibSlots : LibBusy(u)' <=> LibBusy(u)
  BY DEF LibBusy
<1>2. \A u \in LibSlots : LibBusy(u) => ask'[u] = ask[u]
  BY DEF LibBusy
<1>3. OneLoadAtATime' /\ LoadsForSource'
  BY <1>1, <1>2 DEF LibInv, OneLoadAtATime, LoadsForSource
<1>4. GridKeepsUp'
  <2> SUFFICES ASSUME LibSettled'
               PROVE  /\ (\A u \in LibSlots : ~LibBusy(u)') => GridShows'
                      /\ \A u \in LibSlots : LibBusy(u)' => PageFits(u)'
    BY DEF GridKeepsUp
  <2>1. UNCHANGED <<library, kept, source, items, libCursor, itemsFor>>
    BY DEF libDb, libView
  <2>2. GridShows' <=> GridShows
    BY <2>1 DEF GridShows, LibWanted, LibMatches
  <2>3. ASSUME NEW u \in LibSlots, ask'[u] = ask[u] PROVE PageFits(u)' <=> PageFits(u)
    BY <2>1, <2>2, <2>3 DEF PageFits, LibWanted, LibMatches
  <2> QED
    BY <1>1, <1>2, <2>2, <2>3 DEF LibInv, GridKeepsUp
<1> QED
  BY <1>3, <1>4 DEF LibInv

LEMMA LibLoadStarts ==
  ASSUME LibInv, LibTyped', NEW s \in LibSlots, NEW f, NEW c, LibLoad(s, f, c), ~LibBusy(s),
         UNCHANGED <<libDb, source, libView>>,
         f = source \/ libTimer' = libTimer,
         c # "none" /\ LibSettled' => LibSettled /\ c = libCursor
  PROVE  LibInv'
<1>1. /\ DOMAIN ask' = LibSlots
      /\ ask'[s] = [pc |-> "load", filter |-> f, after |-> c]
      /\ \A u \in LibSlots \ {s} : ask'[u] = ask[u]
      /\ LibSane' => LibSane /\ \A u \in LibSlots \ {s} : ~LibBusy(u)
      /\ LibSane' => f = source \/ libTimer
  <2>1. DOMAIN ask = LibSlots
    BY DEF LibInv, LibTyped
  <2>2. ask' = [ask EXCEPT ![s] = [pc |-> "load", filter |-> f, after |-> c]]
    BY DEF LibLoad
  <2>3. LibSane' => LibSane
    BY DEF LibLoad, LibSane
  <2>4. LibSane' => \A u \in LibSlots \ {s} : ~LibBusy(u)
    BY DEF LibLoad, LibSane, LibBusy
  <2>5. LibSane' => f = source \/ libTimer
    BY DEF LibLoad, LibSane
  <2> QED
    BY <2>1, <2>2, <2>3, <2>4, <2>5
<1>2. LibSane' => \A u \in LibSlots : LibBusy(u)' => u = s
  BY <1>1 DEF LibBusy
<1>3. OneLoadAtATime' /\ LoadsForSource'
  BY <1>1, <1>2 DEF OneLoadAtATime, LoadsForSource
<1>4. GridKeepsUp'
  <2> SUFFICES ASSUME LibSettled'
               PROVE  /\ LibBusy(s)' /\ PageFits(s)'
                      /\ \A u \in LibSlots : LibBusy(u)' => u = s
    BY DEF GridKeepsUp
  <2>1. LibBusy(s)'
    BY <1>1 DEF LibBusy
  <2>2. UNCHANGED <<library, kept, source, items, libCursor, itemsFor>>
    BY DEF libDb, libView
  <2>3. c # "none" => GridShows' /\ c = libCursor'
    <3> SUFFICES ASSUME c # "none" PROVE GridShows' /\ c = libCursor'
      OBVIOUS
    <3>1. LibSettled /\ c = libCursor
      OBVIOUS
    <3>2. \A u \in LibSlots : ~LibBusy(u)
      BY <1>1 DEF LibSettled
    <3>3. GridShows
      BY <3>1, <3>2 DEF LibInv, GridKeepsUp
    <3> QED
      BY <2>2, <3>1, <3>3 DEF GridShows, LibWanted, LibMatches
  <2>4. ask'[s].filter = f /\ ask'[s].after = c /\ ask'[s].pc = "load"
    BY <1>1
  <2>6. LibSane' /\ ~libTimer'
    BY DEF LibSettled
  <2>5. PageFits(s)'
    BY <1>1, <2>2, <2>3, <2>4, <2>6 DEF PageFits
  <2> QED
    BY <1>2, <2>1, <2>5, <2>6
<1> QED
  BY <1>3, <1>4 DEF LibInv

(* What a slot does apart from loads is typed.                             *)
LEMMA LibSlotTyped ==
  ASSUME LibTyped, NEW s \in LibSlots, DOMAIN ask' = LibSlots, "pc" \in DOMAIN ask'[s],
         \A u \in LibSlots \ {s} : ask'[u] = ask[u],
         library' = library, kept' \subseteq kept
  PROVE  LibTyped'
BY DEF LibTyped

LEMMA LibLoads ==
  ASSUME LibInv, NEW s \in LibSlots,
         LibTimerFires(s) \/ MoreImages(s) \/ UploadDone(s) \/ Deleted(s)
  PROVE  LibInv'
<1>1. PICK f, c : LibLoad(s, f, c) /\ UNCHANGED <<libDb, source, libView>>
                  /\ \/ libTimer' = FALSE /\ f = source /\ c = "none"
                     \/ libTimer' = libTimer /\ c = "none"
                     \/ MoreImages(s) /\ f = source /\ c = libCursor
  BY DEF LibTimerFires, MoreImages, UploadDone, Deleted, libView
<1>2. ask[s] = NoAsk \/ ask[s].pc \in {"upload", "deleteDone"}
  BY DEF LibTimerFires, MoreImages, UploadDone, Deleted
<1>3. ~LibBusy(s)
  BY <1>2 DEF LibBusy, NoAsk
<1>4. LibTyped'
  <2>1. DOMAIN ask = LibSlots
    BY DEF LibInv, LibTyped
  <2>2. /\ DOMAIN ask' = LibSlots /\ "pc" \in DOMAIN ask'[s]
        /\ \A u \in LibSlots \ {s} : ask'[u] = ask[u]
    BY <1>1, <2>1 DEF LibLoad
  <2> QED
    BY <1>1, <2>2, LibSlotTyped DEF LibInv, libDb
<1>5. f = source \/ libTimer' = libTimer
  BY <1>1
<1>6. ASSUME c # "none", LibSettled' PROVE LibSettled /\ c = libCursor
  <2>1. MoreImages(s) /\ c = libCursor
    BY <1>1, <1>6
  <2>2. ask[s] = NoAsk /\ libTimer' = libTimer
    BY <2>1 DEF MoreImages
  <2>3. DOMAIN ask = LibSlots
    BY DEF LibInv, LibTyped
  <2>4. \A u \in LibSlots \ {s} : ask'[u] = ask[u]
    BY <1>1, <2>3 DEF LibLoad
  <2>5. \A u \in LibSlots : ask[u].pc \notin {"upload", "deleteDone"}
    BY <1>6, <2>2, <2>4 DEF LibSettled, NoAsk
  <2>6. LibSane /\ "unheard" \notin libAstray
    BY <1>1, <1>6 DEF LibLoad, LibSettled, LibSane
  <2> QED
    BY <1>6, <2>1, <2>2, <2>5, <2>6 DEF LibSettled
<1> QED
  BY <1>1, <1>3, <1>4, <1>5, <1>6, LibLoadStarts

(* The server's answer, and the page that hears it.                        *)
LEMMA LibAnswers ==
  ASSUME LibInv, NEW s \in LibSlots, LibServe(s)
  PROVE  LibInv'
<1>1. PICK f, c : f = ask[s].filter /\ c = ask[s].after
  OBVIOUS
<1>2. PICK page \in LibPages(f, c) :
        ask' = [ask EXCEPT ![s] = [pc |-> "page", filter |-> @.filter,
                                   after |-> @.after, page |-> page]]
  BY <1>1 DEF LibServe
<1>3. DOMAIN ask = LibSlots
  BY DEF LibInv, LibTyped
<1>4. /\ DOMAIN ask' = LibSlots
      /\ ask'[s] = [pc |-> "page", filter |-> f, after |-> c, page |-> page]
      /\ \A u \in LibSlots \ {s} : ask'[u] = ask[u]
  <2>1. ask' = [ask EXCEPT ![s] = [pc |-> "page", filter |-> f,
                                   after |-> c, page |-> page]]
    BY <1>1, <1>2
  <2> QED
    BY <1>3, <2>1
<1>5. /\ ask[s].pc = "load"
      /\ UNCHANGED <<library, kept, source, libTimer, items, libCursor, itemsFor>>
      /\ libAstray' = IF c = "none" THEN libAstray \ {"unheard"} ELSE libAstray
  BY <1>1 DEF LibServe, libDb, libView
<1>6. LibTyped'
  BY <1>4, <1>5, LibSlotTyped DEF LibInv
<1>7. /\ \A u \in LibSlots : LibBusy(u)' <=> LibBusy(u)
      /\ LibBusy(s) /\ LibBusy(s)'
      /\ LibSane' <=> LibSane
      /\ LibSettled' => LibSane /\ ~libTimer /\ (c # "none" => LibSettled)
  BY <1>4, <1>5 DEF LibBusy, LibSettled, LibSane
<1>8. OneLoadAtATime' /\ LoadsForSource'
  <2>1. ask'[s].filter = ask[s].filter
    BY <1>1, <1>4
  <2>2. LoadsForSource'
    BY <1>4, <1>5, <1>7, <2>1 DEF LibInv, LoadsForSource
  <2> QED
    BY <1>7, <2>2 DEF LibInv, OneLoadAtATime
<1>9. GridKeepsUp'
  <2> SUFFICES ASSUME LibSettled' PROVE PageFits(s)'
    BY <1>5, <1>7, <1>8 DEF GridKeepsUp, OneLoadAtATime, LibSettled
  <2>1. c # "none" => PageFits(s)
    BY <1>7 DEF LibInv, GridKeepsUp
  <2>2. f = source /\ (c # "none" => GridShows /\ c = libCursor)
    BY <1>1, <1>7, <2>1 DEF LibInv, LoadsForSource, PageFits
  <2> DEFINE M == LibWanted(source)
  <2>3. /\ IsFiniteSet(LibStored) /\ "none" \notin LibStored
        /\ Line(library, LibStored) /\ M \subseteq LibStored
        /\ LibPage \in Nat \ {0}
    BY LibIsLine, LibAssumption DEF LibInv
  <2>4. page \in PagesFrom(library, M, c, LibPage)
    BY <1>2, <2>2 DEF LibPages, LibWanted
  <2> HIDE DEF M
  <2>5. c = "none" => Shows(page.items, page.cursor, M, library)
    BY <2>3, <2>4, TopShows
  <2>6. c # "none" => Shows(items \o page.items, page.cursor, M, library)
    <3> SUFFICES ASSUME c # "none" PROVE Shows(items \o page.items, page.cursor, M, library)
      OBVIOUS
    <3>1. Shows(items, c, M, library)
      BY <2>2 DEF GridShows, M
    <3> QED
      BY <2>3, <2>4, <3>1, NextShows
  <2>7. M' = M /\ (GridShows' <=> GridShows)
    BY <1>5 DEF M, GridShows, LibWanted, LibMatches
  <2>8. ask'[s].filter = f /\ ask'[s].after = c /\ ask'[s].page = page
    BY <1>4
  <2>9. M' = LibWanted(source)'
    BY DEF M
  <2> QED
    BY <1>5, <2>2, <2>5, <2>6, <2>7, <2>8, <2>9 DEF PageFits
<1> QED
  BY <1>6, <1>8, <1>9 DEF LibInv

LEMMA LibHears ==
  ASSUME LibInv, NEW s \in LibSlots, LibPageHeard(s)
  PROVE  LibInv'
<1>1. DOMAIN ask = LibSlots
  BY DEF LibInv, LibTyped
<1>2. /\ ask[s].pc = "page" /\ items' = ItemsAfter(s)
      /\ itemsFor' = (IF ask[s].after = "none" THEN {} ELSE itemsFor) \cup {ask[s].filter}
      /\ libCursor' = ask[s].page.cursor
      /\ ask' = [ask EXCEPT ![s] = NoAsk]
      /\ UNCHANGED <<library, kept, source, libTimer, libAstray>>
  BY DEF LibPageHeard, libDb
<1>3. /\ DOMAIN ask' = LibSlots /\ ask'[s] = NoAsk
      /\ \A u \in LibSlots \ {s} : ask'[u] = ask[u]
  BY <1>1, <1>2
<1>4. LibTyped'
  <2>1. "pc" \in DOMAIN ask'[s]
    BY <1>3 DEF NoAsk
  <2> QED
    BY <1>2, <1>3, <2>1, LibSlotTyped DEF LibInv
<1>5. /\ LibBusy(s) /\ ~LibBusy(s)'
      /\ \A u \in LibSlots : LibBusy(u)' => LibBusy(u)
      /\ LibSettled' => LibSettled
      /\ LibSane' <=> LibSane
  BY <1>2, <1>3 DEF LibBusy, LibSettled, LibSane, NoAsk
<1>6. OneLoadAtATime' /\ LoadsForSource'
  <2>1. \A u \in LibSlots : LibBusy(u)' => ask'[u] = ask[u]
    BY <1>3, <1>5
  <2> QED
    BY <1>2, <1>5, <2>1 DEF LibInv, OneLoadAtATime, LoadsForSource
<1>7. GridKeepsUp'
  <2> SUFFICES ASSUME LibSettled'
               PROVE  GridShows' /\ \A u \in LibSlots : ~LibBusy(u)'
    BY DEF GridKeepsUp
  <2>1. PageFits(s) /\ LibSettled
    BY <1>5 DEF LibInv, GridKeepsUp
  <2>2. \A u \in LibSlots : ~LibBusy(u)'
    BY <1>5, <2>1 DEF LibInv, OneLoadAtATime, LibSettled
  <2>3. LibWanted(source)' = LibWanted(source)
    BY <1>2 DEF LibWanted, LibMatches
  <2>4. CASE ask[s].after = "none"
    <3>1. ask[s].page.items \in Seq(LibWanted(source))
      BY <1>2, <2>1, <2>4 DEF PageFits, Shows
    <3>2. items' = ask[s].page.items
      BY <1>2, <2>4, <3>1, ConcatEmptySeq DEF ItemsAfter
    <3> QED
      BY <1>2, <2>1, <2>2, <2>3, <2>4, <3>2 DEF PageFits, GridShows
  <2>5. CASE ask[s].after # "none"
    <3>1. items' = items \o ask[s].page.items
      BY <1>2, <2>5 DEF ItemsAfter
    <3> QED
      BY <1>2, <2>1, <2>2, <2>3, <2>5, <3>1 DEF PageFits, GridShows
  <2> QED
    BY <2>4, <2>5
<1> QED
  BY <1>4, <1>6, <1>7 DEF LibInv

(* A slot that takes or gives up something other than a load, after which  *)
(* nothing is settled, or nothing else has changed.                        *)
LEMMA LibSlotMoves ==
  ASSUME LibInv, LibTyped', NEW s \in LibSlots, DOMAIN ask' = LibSlots,
         \A u \in LibSlots \ {s} : ask'[u] = ask[u],
         ~LibBusy(s), ~LibBusy(s)', libAstray \subseteq libAstray',
         UNCHANGED <<source, libTimer>>,
         \/ ask'[s].pc \in {"upload", "deleteDone"}
         \/ ~LibSane' \/ "unheard" \in libAstray'
         \/ /\ ask[s].pc \notin {"upload", "deleteDone"}
            /\ UNCHANGED <<libDb, source, libView, libTimer>>
  PROVE  LibInv'
<1>1. LibSane' => LibSane
  BY DEF LibSane
<1>2. LibSettled' => LibSettled /\ UNCHANGED <<libDb, source, libView>>
  <2>1. CASE \/ ask'[s].pc \in {"upload", "deleteDone"}
             \/ ~LibSane' \/ "unheard" \in libAstray'
    BY <2>1 DEF LibSettled
  <2>2. CASE /\ ask[s].pc \notin {"upload", "deleteDone"}
             /\ UNCHANGED <<libDb, source, libView, libTimer>>
    BY <1>1, <2>2 DEF LibSettled
  <2> QED
    BY <2>1, <2>2
<1> QED
  BY <1>1, <1>2, LibOther

(* A file that arrives is the newest of the images.                        *)
LEMMA LibFileTyped ==
  ASSUME LibTyped, NEW s \in LibSlots, DOMAIN ask' = LibSlots, "pc" \in DOMAIN ask'[s],
         \A u \in LibSlots \ {s} : ask'[u] = ask[u],
         FileArrives
  PROVE  LibTyped'
<1>1. CASE UNCHANGED libDb
  BY <1>1, LibSlotTyped DEF libDb
<1>2. ASSUME NEW m \in LibImages \ ToSet(library),
             library' = <<m>> \o library, kept' = kept \cup {m}
      PROVE  LibTyped'
  <2>1. library \in Seq(LibImages) /\ <<m>> \in Seq(LibImages) /\ Len(<<m>>) = 1
    BY DEF LibTyped
  <2>2. /\ library' \in Seq(LibImages)
        /\ Len(library') = 1 + Len(library)
        /\ \A i \in 1..(1 + Len(library)) :
             library'[i] = IF i <= 1 THEN <<m>>[i] ELSE library[i - 1]
    BY <1>2, <2>1, ConcatProperties
  <2>3. \A i \in 1..Len(library) : library[i] # m
    <3>1. \A i \in 1..Len(library) : library[i] \in ToSet(library)
      BY <2>1 DEF ToSet
    <3> QED
      BY <3>1
  <2>4. \A i \in 1..Len(library') :
          \/ i = 1 /\ library'[i] = m
          \/ i # 1 /\ i - 1 \in 1..Len(library) /\ library'[i] = library[i - 1]
    BY <2>1, <2>2
  <2>5. \A i, j \in 1..Len(library') : library'[i] = library'[j] => i = j
    <3> SUFFICES ASSUME NEW i \in 1..Len(library'), NEW j \in 1..Len(library'),
                        library'[i] = library'[j]
                 PROVE  i = j
      OBVIOUS
    <3>1. CASE i # 1 /\ j # 1
      <4>1. i - 1 = j - 1
        BY <2>4, <3>1 DEF LibTyped
      <4>2. i \in Int /\ j \in Int
        BY <2>1, <2>2
      <4> QED
        BY <4>1, <4>2
    <3>2. CASE i = 1 \/ j = 1
      BY <2>3, <2>4, <3>2
    <3> QED
      BY <3>1, <3>2
  <2>6. \A i \in 1..Len(library) : i + 1 \in 1..Len(library') /\ library'[i + 1] = library[i]
    <3> SUFFICES ASSUME NEW i \in 1..Len(library)
                 PROVE  i + 1 \in 1..Len(library') /\ library'[i + 1] = library[i]
      OBVIOUS
    <3>1. i + 1 \in 1..(1 + Len(library)) /\ ~(i + 1 <= 1) /\ (i + 1) - 1 = i
      BY <2>1
    <3> QED
      BY <2>2, <3>1
  <2>7. 1 \in 1..Len(library') /\ library'[1] = m
    BY <2>1, <2>2
  <2>8. \A x \in kept' : \E i \in 1..Len(library') : library'[i] = x
    BY <1>2, <2>6, <2>7 DEF LibTyped
  <2>9. kept' \subseteq LibImages
    BY <1>2 DEF LibTyped
  <2>10. DOMAIN ask' = LibSlots /\ \A u \in LibSlots : "pc" \in DOMAIN ask'[u]
    BY DEF LibTyped
  <2> QED
    BY <2>2, <2>5, <2>8, <2>9, <2>10 DEF LibTyped
<1> QED
  BY <1>1, <1>2 DEF FileArrives

LEMMA LibUploads ==
  ASSUME LibInv, NEW s \in LibSlots,
         (\E n \in 1..2 : Upload(s, n)) \/ UploadOne(s) \/ UploadRejects(s)
  PROVE  LibInv'
<1>1. DOMAIN ask = LibSlots /\ "pc" \in DOMAIN ask[s] /\ LibTyped
  BY DEF LibInv, LibTyped
<1>2. CASE \E n \in 1..2 : Upload(s, n)
  <2>1. PICK n \in 1..2 : Upload(s, n)
    BY <1>2
  <2>2. PICK f : f = source
    OBVIOUS
  <2>3. /\ ask[s] = NoAsk
        /\ ask' = [ask EXCEPT ![s] = [pc |-> "upload", files |-> n, filter |-> f]]
        /\ UNCHANGED <<library, kept, libAstray, source, libTimer>>
    BY <2>1, <2>2 DEF Upload, libDb
  <2>4. /\ DOMAIN ask' = LibSlots /\ "pc" \in DOMAIN ask'[s] /\ ask'[s].pc = "upload"
        /\ \A u \in LibSlots \ {s} : ask'[u] = ask[u]
    BY <1>1, <2>3
  <2>5. LibTyped'
    BY <1>1, <2>3, <2>4, LibSlotTyped
  <2>6. ~LibBusy(s) /\ ~LibBusy(s)'
    BY <2>3, <2>4 DEF LibBusy, NoAsk
  <2> QED
    BY <2>3, <2>4, <2>5, <2>6, LibSlotMoves
<1>3. CASE UploadOne(s)
  <2>1. /\ ask[s].pc = "upload"
        /\ FileArrives
        /\ ask' = [ask EXCEPT ![s].files = @ - 1]
        /\ UNCHANGED <<libAstray, source, libTimer>>
    BY <1>3 DEF UploadOne
  <2>2. /\ DOMAIN ask' = LibSlots /\ "pc" \in DOMAIN ask'[s] /\ ask'[s].pc = "upload"
        /\ \A u \in LibSlots \ {s} : ask'[u] = ask[u]
    BY <1>1, <2>1
  <2>3. LibTyped'
    BY <1>1, <2>1, <2>2, LibFileTyped
  <2>4. ~LibBusy(s) /\ ~LibBusy(s)'
    BY <2>1, <2>2 DEF LibBusy
  <2> QED
    BY <2>1, <2>2, <2>3, <2>4, LibSlotMoves
<1>4. CASE UploadRejects(s)
  <2>1. /\ ask[s].pc = "upload" /\ ask' = [ask EXCEPT ![s] = NoAsk]
        /\ libAstray' = libAstray \cup {"offline"} /\ FileArrives
        /\ UNCHANGED <<source, libTimer>>
    BY <1>4 DEF UploadRejects
  <2>2. /\ DOMAIN ask' = LibSlots /\ "pc" \in DOMAIN ask'[s] /\ ask'[s].pc = "idle"
        /\ \A u \in LibSlots \ {s} : ask'[u] = ask[u]
    BY <1>1, <2>1 DEF NoAsk
  <2>3. LibTyped'
    BY <1>1, <2>1, <2>2, LibFileTyped
  <2>4. ~LibBusy(s) /\ ~LibBusy(s)' /\ ~LibSane'
    BY <2>1, <2>2 DEF LibBusy, LibSane
  <2> QED
    BY <2>1, <2>2, <2>3, <2>4, LibSlotMoves
<1> QED
  BY <1>2, <1>3, <1>4

LEMMA LibChanges ==
  ASSUME LibInv, NEW s \in LibSlots,
         \/ \E w \in {"alt", "delete"} : Change(s, w)
         \/ ServeChange(s) \/ AltSaved(s) \/ ChangeUnheard(s)
  PROVE  LibInv'
<1>1. DOMAIN ask = LibSlots /\ "pc" \in DOMAIN ask[s] /\ LibTyped
  BY DEF LibInv, LibTyped
<1>2. CASE \E w \in {"alt", "delete"} : Change(s, w)
  <2>1. PICK w \in {"alt", "delete"} : Change(s, w)
    BY <1>2
  <2>2. PICK f, m : f = source /\ m = openImage
    OBVIOUS
  <2>3. /\ ask[s] = NoAsk
        /\ ask' = [ask EXCEPT ![s] = [pc |-> w, image |-> m, filter |-> f]]
        /\ UNCHANGED <<libDb, source, libTimer, libView, libAstray>>
    BY <2>1, <2>2 DEF Change
  <2>4. /\ DOMAIN ask' = LibSlots /\ "pc" \in DOMAIN ask'[s] /\ ask'[s].pc = w
        /\ \A u \in LibSlots \ {s} : ask'[u] = ask[u]
    BY <1>1, <2>3
  <2>5. LibTyped'
    BY <1>1, <2>3, <2>4, LibSlotTyped DEF libDb
  <2>6. ~LibBusy(s) /\ ~LibBusy(s)' /\ ask[s].pc = "idle"
    BY <2>3, <2>4 DEF LibBusy, NoAsk
  <2> QED
    BY <2>3, <2>4, <2>5, <2>6, LibSlotMoves
<1>3. CASE ServeChange(s)
  <2>1. /\ ask[s].pc \in {"alt", "delete"} /\ library' = library
        /\ UNCHANGED <<source, libTimer, libView, libAstray>>
        /\ \/ /\ kept' = IF ask[s].pc = "delete" THEN kept \ {ask[s].image} ELSE kept
              /\ ask' = [ask EXCEPT ![s].pc = IF @ = "delete" THEN "deleteDone" ELSE "altDone"]
           \/ ask' = [ask EXCEPT ![s] = NoAsk] /\ UNCHANGED kept
    BY <1>3 DEF ServeChange
  <2>2. /\ DOMAIN ask' = LibSlots /\ "pc" \in DOMAIN ask'[s]
        /\ \A u \in LibSlots \ {s} : ask'[u] = ask[u]
        /\ ~LibBusy(s) /\ ask'[s].pc \notin {"load", "page"} /\ kept' \subseteq kept
        /\ ask'[s].pc = "deleteDone" \/ kept' = kept
    <3>1. CASE ask' = [ask EXCEPT ![s] = NoAsk] /\ UNCHANGED kept
      BY <1>1, <2>1, <3>1 DEF LibBusy, NoAsk
    <3>2. CASE /\ kept' = IF ask[s].pc = "delete" THEN kept \ {ask[s].image} ELSE kept
               /\ ask' = [ask EXCEPT ![s].pc = IF @ = "delete" THEN "deleteDone" ELSE "altDone"]
      BY <1>1, <2>1, <3>2 DEF LibBusy
    <3> QED
      BY <2>1, <3>1, <3>2
  <2>3. LibTyped'
    BY <1>1, <2>1, <2>2, LibSlotTyped
  <2>4. ~LibBusy(s)'
    BY <2>2 DEF LibBusy
  <2>5. /\ ask[s].pc \notin {"upload", "deleteDone"}
        /\ ask'[s].pc = "deleteDone" \/ UNCHANGED <<libDb, source, libView, libTimer>>
    BY <2>1, <2>2 DEF libDb
  <2> QED
    BY <2>1, <2>2, <2>3, <2>4, <2>5, LibSlotMoves
<1>4. CASE AltSaved(s)
  <2>1. /\ ask[s].pc = "altDone" /\ ask' = [ask EXCEPT ![s] = NoAsk]
        /\ UNCHANGED <<libDb, source, libTimer, libView, libAstray>>
    BY <1>4 DEF AltSaved
  <2>2. /\ DOMAIN ask' = LibSlots /\ "pc" \in DOMAIN ask'[s] /\ ask'[s].pc = "idle"
        /\ \A u \in LibSlots \ {s} : ask'[u] = ask[u]
    BY <1>1, <2>1 DEF NoAsk
  <2>3. LibTyped'
    BY <1>1, <2>1, <2>2, LibSlotTyped DEF libDb
  <2>4. ~LibBusy(s) /\ ~LibBusy(s)'
    BY <2>1, <2>2 DEF LibBusy
  <2> QED
    BY <2>1, <2>2, <2>3, <2>4, LibSlotMoves
<1>5. CASE ChangeUnheard(s)
  <2>1. /\ ask[s].pc \in {"altDone", "deleteDone"} /\ ask' = [ask EXCEPT ![s] = NoAsk]
        /\ libAstray \subseteq libAstray'
        /\ ask[s].pc = "deleteDone" => "unheard" \in libAstray'
        /\ UNCHANGED <<libDb, source, libTimer, libView>>
    BY <1>5 DEF ChangeUnheard
  <2>2. /\ DOMAIN ask' = LibSlots /\ "pc" \in DOMAIN ask'[s] /\ ask'[s].pc = "idle"
        /\ \A u \in LibSlots \ {s} : ask'[u] = ask[u]
    BY <1>1, <2>1 DEF NoAsk
  <2>3. LibTyped'
    BY <1>1, <2>1, <2>2, LibSlotTyped DEF libDb
  <2>4. ~LibBusy(s) /\ ~LibBusy(s)'
    BY <2>1, <2>2 DEF LibBusy
  <2> QED
    BY <2>1, <2>2, <2>3, <2>4, LibSlotMoves
<1> QED
  BY <1>2, <1>3, <1>4, <1>5

LEMMA LibFailures ==
  ASSUME LibInv, NEW s \in LibSlots, LibFails(s)
  PROVE  LibInv'
<1>1. DOMAIN ask = LibSlots /\ LibTyped
  BY DEF LibInv, LibTyped
<1>2. /\ ask' = [ask EXCEPT ![s] = NoAsk] /\ libAstray' = libAstray \cup {"failed"}
      /\ UNCHANGED <<library, kept>>
  BY DEF LibFails, libDb
<1>3. /\ DOMAIN ask' = LibSlots /\ "pc" \in DOMAIN ask'[s]
      /\ \A u \in LibSlots \ {s} : ask'[u] = ask[u]
  BY <1>1, <1>2 DEF NoAsk
<1>4. LibTyped'
  BY <1>1, <1>2, <1>3, LibSlotTyped
<1>5. ~LibSane'
  BY <1>2 DEF LibSane
<1> QED
  BY <1>4, <1>5 DEF LibInv, OneLoadAtATime, LoadsForSource, GridKeepsUp, LibSettled

(* The page's own clicks, and no step.                                     *)
LEMMA LibClicks ==
  ASSUME LibInv, UNCHANGED <<libDb, libView, ask, libAstray>>,
         libTimer' = TRUE \/ UNCHANGED <<source, libTimer>>
  PROVE  LibInv'
<1>1. LibTyped'
  BY DEF LibInv, LibTyped, libDb
<1>2. \A u \in LibSlots : LibBusy(u)' <=> LibBusy(u)
  BY DEF LibBusy
<1>3. OneLoadAtATime' /\ LoadsForSource'
  BY <1>2 DEF LibInv, OneLoadAtATime, LoadsForSource, LibSane
<1>4. GridKeepsUp'
  <2>1. CASE libTimer' = TRUE
    BY <2>1 DEF GridKeepsUp, LibSettled
  <2>2. CASE UNCHANGED <<source, libTimer>>
    <3>1. GridShows' <=> GridShows
      BY <2>2 DEF GridShows, LibWanted, LibMatches, libDb, libView
    <3>2. LibSettled' <=> LibSettled
      BY <2>2 DEF LibSettled, LibSane
    <3>3. ASSUME NEW u \in LibSlots PROVE PageFits(u)' <=> PageFits(u)
      BY <2>2, <3>1 DEF PageFits, LibWanted, LibMatches, libDb, libView
    <3> QED
      BY <1>2, <3>1, <3>2, <3>3 DEF LibInv, GridKeepsUp
  <2> QED
    BY <2>1, <2>2
<1> QED
  BY <1>1, <1>3, <1>4 DEF LibInv

LEMMA LibInvariant == LibSpec => []LibInv
<1>1. LibInit => LibInv
  <2> SUFFICES ASSUME LibInit PROVE LibInv
    OBVIOUS
  <2>1. PICK ms \in SUBSET LibImages : kept = ms /\ library \in SetToSeqs(ms)
    BY DEF LibInit
  <2> DEFINE n == Cardinality(ms)
  <2>2. IsFiniteSet(ms) /\ n \in Nat
    BY FS_Subset, FS_CardinalityType, LibAssumption
  <2>3. /\ library \in [1..n -> ms]
        /\ \A i, j \in 1..n : i # j => library[i] # library[j]
    BY <2>1 DEF SetToSeqs
  <2>4. IsFiniteSet(1..n) /\ Cardinality(1..n) = n
    BY <2>2, FS_Interval
  <2> HIDE DEF n
  <2>5. library \in Injection(1..n, ms)
    BY <2>3 DEF Injection, IsInjective
  <2>6. library \in Surjection(1..n, ms)
    BY <2>2, <2>4, <2>5, FS_Injection DEF n
  <2>7. \A m \in ms : \E i \in 1..n : library[i] = m
    BY <2>6 DEF Surjection
  <2>8. library \in Seq(LibImages) /\ Len(library) = n
    <3>1. library \in [1..n -> LibImages]
      BY <2>3
    <3> QED
      BY <2>2, <3>1
  <2>9. DOMAIN ask = LibSlots /\ \A s \in LibSlots : ask[s] = NoAsk
    BY DEF LibInit
  <2>10. LibTyped
    BY <2>1, <2>3, <2>7, <2>8, <2>9 DEF LibTyped, NoAsk
  <2>11. \A s \in LibSlots : ~LibBusy(s)
    BY <2>9 DEF LibBusy, NoAsk
  <2>12. ~LibSettled
    BY DEF LibInit, LibSettled
  <2> QED
    BY <2>10, <2>11, <2>12 DEF LibInv, OneLoadAtATime, LoadsForSource, GridKeepsUp
<1>2. LibInv /\ [LibNext]_libVars => LibInv'
  <2> SUFFICES ASSUME LibInv, [LibNext]_libVars PROVE LibInv'
    OBVIOUS
  <2>1. ASSUME NEW f \in Sources, ChooseSource(f) PROVE LibInv'
    BY <2>1, LibClicks DEF ChooseSource
  <2>2. ASSUME NEW s \in LibSlots, LibTimerFires(s) \/ MoreImages(s) \/ UploadDone(s) \/ Deleted(s)
        PROVE  LibInv'
    BY <2>2, LibLoads
  <2>3. ASSUME NEW s \in LibSlots, LibServe(s) \/ LibFails(s) \/ LibPageHeard(s) PROVE LibInv'
    BY <2>3, LibAnswers, LibFailures, LibHears
  <2>4. ASSUME NEW s \in LibSlots,
               (\E n \in 1..2 : Upload(s, n)) \/ UploadOne(s) \/ UploadRejects(s)
        PROVE  LibInv'
    BY <2>4, LibUploads
  <2>5. ASSUME NEW s \in LibSlots,
               \/ \E w \in {"alt", "delete"} : Change(s, w)
               \/ ServeChange(s) \/ AltSaved(s) \/ ChangeUnheard(s)
        PROVE  LibInv'
    BY <2>5, LibChanges
  <2>6. ASSUME NEW m \in LibImages, OpenImage(m) PROVE LibInv'
    BY <2>6, LibClicks DEF OpenImage
  <2>7. CASE CloseImage
    BY <2>7, LibClicks DEF CloseImage
  <2>8. CASE UNCHANGED libVars
    BY <2>8, LibClicks DEF libVars
  <2> QED
    BY <2>1, <2>2, <2>3, <2>4, <2>5, <2>6, <2>7, <2>8 DEF LibNext
<1> QED
  BY <1>1, <1>2, PTL DEF LibSpec

(* Once nothing is under way the grid holds what the filter asks for, each *)
(* image once, and all of it when there is no further page, whatever the   *)
(* uploads, deletions and pages were (media-library.tsx, services/media.ts)*)
(* - unless loads crossed, one failed or was begun by an older closure, an *)
(* upload was cut off, or a deletion is not heard of and not reloaded.     *)
THEOREM GridIsTrue == LibSpec => []GridIsForSource
<1>1. LibInv => GridIsForSource
  <2> SUFFICES ASSUME LibInv, LibQuiet, LibSane, "unheard" \notin libAstray
               PROVE  /\ itemsFor = {source}
                      /\ Cardinality(ToSet(items)) = Len(items)
                      /\ libCursor = "none" => ToSet(items) = LibWanted(source)
    <3>1. LibInv => LibWanted(source) = {m \in kept : LibMatches(source, m)}
      BY DEF LibInv, LibTyped, LibWanted, LibMatches
    <3> QED
      BY <3>1 DEF GridIsForSource, LibSane
  <2>1. \A s \in LibSlots : ask[s].pc = "idle"
    BY DEF LibQuiet, NoAsk
  <2>2. GridShows
    BY <2>1 DEF LibQuiet, LibInv, GridKeepsUp, LibSettled, LibBusy
  <2> QED
    BY <2>2, ShownOnce DEF GridShows
<1> QED
  BY <1>1, LibInvariant, PTL

-----------------------------------------------------------------------------
(***************************************************************************)
(* Paging the content list.  Unless a load from the top is still to come,  *)
(* or something has gone past the guards, the list shows the posts up to   *)
(* its cursor, and the answer under way continues or replaces it.          *)
(***************************************************************************)
ListTyped == order \in SetToSeqs(ListPosts)

ListSettled ==
  astray = {} /\ ~timer /\ \A s \in ListSlots : call[s].pc # "done"

Wanted(f) == {p \in ListPosts : Matches(f, p)}
ListShows == Shows(shown, cursor, Wanted(filter), order)

NextFits(s) ==
  /\ call[s].after = "none" /\ call[s].pc # "sent" =>
       Shows(call[s].page.items, call[s].page.cursor, Wanted(filter), order)
  /\ call[s].after # "none" =>
       /\ ListShows /\ call[s].after = cursor
       /\ call[s].pc # "sent" =>
            Shows(shown \o call[s].page.items, call[s].page.cursor, Wanted(filter), order)

PagesKeepUp ==
  ListSettled =>
    IF newest = "none" THEN ListShows
    ELSE call[newest].pc # "refused" => NextFits(newest)

ListInv == FilterInv /\ ListTyped /\ PagesKeepUp

(* The filter's posts are sorted by the table of all of them.              *)
LEMMA ListIsLine ==
  ASSUME ListTyped
  PROVE  Line(order, ListPosts)
<1> DEFINE n == Cardinality(ListPosts)
<1>1. IsFiniteSet(ListPosts) /\ n \in Nat
  BY FS_CardinalityType, ListAssumption
<1>2. order \in [1..n -> ListPosts] /\ \A i, j \in 1..n : i # j => order[i] # order[j]
  BY DEF ListTyped, SetToSeqs
<1>3. IsFiniteSet(1..n) /\ Cardinality(1..n) = n
  BY <1>1, FS_Interval
<1> HIDE DEF n
<1>4. order \in Injection(1..n, ListPosts)
  BY <1>2 DEF Injection, IsInjective
<1>5. order \in Surjection(1..n, ListPosts)
  BY <1>1, <1>3, <1>4, FS_Injection DEF n
<1>6. \A p \in ListPosts : \E i \in 1..n : order[i] = p
  BY <1>5 DEF Surjection
<1>7. order \in Seq(ListPosts) /\ Len(order) = n
  BY <1>1, <1>2
<1>8. \A i, j \in 1..Len(order) : order[i] = order[j] => i = j
  BY <1>2, <1>7
<1>9. \A p \in ListPosts : \E i \in 1..Len(order) : order[i] = p
  BY <1>6, <1>7
<1> QED
  BY <1>7, <1>8, <1>9, TableIsLine

(* A step that leaves the list and the load with the current id alone.     *)
LEMMA ListStays ==
  ASSUME ListInv, UNCHANGED <<newest, order, state, live, filter, shown, cursor>>,
         newest # "none" => call'[newest] = call[newest],
         ListSettled' => ListSettled
  PROVE  PagesKeepUp'
<1> SUFFICES ASSUME ListSettled'
             PROVE  IF newest = "none" THEN ListShows'
                    ELSE call[newest].pc # "refused" => NextFits(newest)'
  BY DEF PagesKeepUp
<1>1. Wanted(filter)' = Wanted(filter)
  BY DEF Wanted, Matches
<1>2. ListShows' <=> ListShows
  BY <1>1 DEF ListShows
<1>3. newest # "none" => (NextFits(newest)' <=> NextFits(newest))
  BY <1>1, <1>2 DEF NextFits
<1> QED
  BY <1>2, <1>3 DEF ListInv, PagesKeepUp

LEMMA ListPageStarts ==
  ASSUME ListInv, NEW s \in ListSlots, TimerFires(s) \/ LoadMore(s) \/ BulkDone(s)
  PROVE  PagesKeepUp'
<1>1. PICK f, c : /\ StartLoad(s, f, c)
                  /\ UNCHANGED <<order, state, live, filter, shown, cursor>>
                  /\ c = "none" \/ (LoadMore(s) /\ f = filter /\ c = cursor)
  BY DEF TimerFires, LoadMore, BulkDone, listDb
<1>2. /\ newest' = s /\ s # "none"
      /\ call'[s] = [pc |-> "sent", filter |-> f, after |-> c]
      /\ \A t \in ListSlots \ {s} : call'[t] = call[t]
  BY <1>1, ListAssumption DEF StartLoad
<1> SUFFICES ASSUME ListSettled', c # "none" PROVE ListShows' /\ c = cursor'
  BY <1>2 DEF PagesKeepUp, NextFits
<1>3. LoadMore(s) /\ c = cursor
  BY <1>1
<1>4. call[s].pc = "idle" /\ ~loading /\ UNCHANGED timer
  BY <1>3 DEF LoadMore, CanLoadMore, FreeSlot
<1>5. astray = {} /\ \A t \in ListSlots : call[t].pc # "body"
  BY <1>1 DEF StartLoad, ListSettled
<1>6. newest = "none"
  BY <1>4, <1>5 DEF ListInv, FilterInv, NewestIsUnderWay
<1>7. ListSettled
  BY <1>2, <1>4, <1>5 DEF ListSettled
<1>8. ListShows
  BY <1>6, <1>7 DEF ListInv, PagesKeepUp
<1> QED
  BY <1>1, <1>3, <1>8 DEF ListShows, Wanted, Matches

LEMMA ListPageAnswers ==
  ASSUME ListInv, NEW s \in ListSlots, AnswerLoad(s)
  PROVE  PagesKeepUp'
<1>1. /\ DOMAIN call = ListSlots /\ call[s].pc = "sent" /\ s # "none"
      /\ newest \in ListSlots \cup {"none"}
      /\ UNCHANGED <<order, state, live, filter, timer, shown, cursor, newest, astray>>
  BY ListAssumption DEF AnswerLoad, ListInv, FilterInv, NewestIsUnderWay, listDb, listView
<1>2. PICK f, c : f = call[s].filter /\ c = call[s].after
  OBVIOUS
<1>3. /\ \A t \in ListSlots \ {s} : call'[t] = call[t]
      /\ \/ \E page \in PostPages(f, c) :
              call'[s] = [pc |-> "headers", filter |-> f, after |-> c, page |-> page]
         \/ call'[s] = [pc |-> "refused"]
  <2>1. ASSUME NEW page \in PostPages(f, c),
               call' = [call EXCEPT ![s] = [pc |-> "headers", filter |-> @.filter,
                                            after |-> @.after, page |-> page]]
        PROVE  /\ \A t \in ListSlots \ {s} : call'[t] = call[t]
               /\ call'[s] = [pc |-> "headers", filter |-> f, after |-> c, page |-> page]
    <3>1. call' = [call EXCEPT ![s] = [pc |-> "headers", filter |-> f,
                                       after |-> c, page |-> page]]
      BY <1>2, <2>1
    <3> QED
      BY <1>1, <3>1
  <2>2. CASE call' = [call EXCEPT ![s] = [pc |-> "refused"]]
    BY <1>1, <2>2
  <2> QED
    BY <1>2, <2>1, <2>2 DEF AnswerLoad
<1>4. call'[s].pc # "done"
  <2>1. ASSUME NEW page,
               call'[s] = [pc |-> "headers", filter |-> f, after |-> c, page |-> page]
        PROVE  call'[s].pc # "done"
    <3>1. call'[s].pc = "headers"
      BY <2>1
    <3> QED
      BY <3>1
  <2>2. CASE call'[s] = [pc |-> "refused"]
    BY <2>2
  <2> QED
    BY <1>3, <2>1, <2>2
<1>5. ListSettled' => ListSettled
  BY <1>1, <1>3, <1>4 DEF ListSettled
<1>6. CASE newest # s
  <2>1. newest # "none" => call'[newest] = call[newest]
    BY <1>1, <1>3, <1>6
  <2> QED
    BY <1>1, <1>5, <2>1, ListStays
<1>7. CASE newest = s
  <2> SUFFICES ASSUME ListSettled', call'[s].pc # "refused" PROVE NextFits(s)'
    BY <1>1, <1>7 DEF PagesKeepUp
  <2>1. PICK page \in PostPages(f, c) :
          call'[s] = [pc |-> "headers", filter |-> f, after |-> c, page |-> page]
    BY <1>3
  <2>2. ListSettled /\ NextFits(s) /\ f = filter
    BY <1>1, <1>2, <1>5, <1>7
       DEF ListInv, PagesKeepUp, FilterInv, AskedForFilter, Unharmed, ListSettled
  <2>3. c # "none" => ListShows /\ c = cursor
    BY <1>2, <2>2 DEF NextFits
  <2> DEFINE M == Wanted(filter)
  <2>4. /\ IsFiniteSet(ListPosts) /\ "none" \notin ListPosts /\ PageSize \in Nat \ {0}
        /\ Line(order, ListPosts) /\ M \subseteq ListPosts
    BY ListAssumption, ListIsLine DEF ListInv, Wanted
  <2>5. page \in PagesFrom(order, M, c, PageSize)
    BY <2>2 DEF PostPages, Wanted
  <2>6. M' = M
    BY <1>1 DEF Wanted, Matches
  <2>7. Wanted(filter)' = M'
    OBVIOUS
  <2> HIDE DEF M
  <2>8. c = "none" => Shows(page.items, page.cursor, M, order)
    BY <2>4, <2>5, TopShows
  <2>9. c # "none" => Shows(shown \o page.items, page.cursor, M, order)
    <3> SUFFICES ASSUME c # "none" PROVE Shows(shown \o page.items, page.cursor, M, order)
      OBVIOUS
    <3>1. Shows(shown, c, M, order)
      BY <2>3 DEF ListShows, M
    <3> QED
      BY <2>4, <2>5, <3>1, NextShows
  <2>10. c # "none" => ListShows'
    BY <1>1, <2>3, <2>6, <2>7 DEF ListShows, M
  <2>11. call'[s].after = c /\ call'[s].page = page
    BY <2>1
  <2> QED
    BY <1>1, <2>3, <2>6, <2>7, <2>8, <2>9, <2>10, <2>11 DEF NextFits
<1> QED
  BY <1>6, <1>7

LEMMA ListHeadersRead ==
  ASSUME ListInv, NEW s \in ListSlots, ReadHeaders(s)
  PROVE  PagesKeepUp'
<1>1. /\ DOMAIN call = ListSlots /\ s # "none" /\ "pc" \in DOMAIN call[s]
      /\ call[s].pc \in {"headers", "refused"}
      /\ newest \in ListSlots \cup {"none"}
      /\ UNCHANGED <<order, state, live, filter, timer, shown, cursor>>
  BY ListAssumption DEF ReadHeaders, ListInv, FilterInv, NewestIsUnderWay, listDb
<1>2. CASE newest # s
  <2>1. call' = [call EXCEPT ![s] = NoCall] /\ UNCHANGED <<newest, astray>>
    BY <1>2 DEF ReadHeaders, Superseded
  <2>2. \A t \in ListSlots \ {s} : call'[t] = call[t]
    BY <1>1, <2>1
  <2>3. ListSettled' => ListSettled
    BY <1>1, <2>1, <2>2 DEF ListSettled
  <2>4. newest # "none" => call'[newest] = call[newest]
    BY <1>1, <1>2, <2>2
  <2> QED
    BY <1>1, <2>1, <2>3, <2>4, ListStays
<1>3. CASE newest = s /\ call[s].pc = "refused"
  <2>1. astray' # {}
    BY <1>3 DEF ReadHeaders, Superseded
  <2> QED
    BY <2>1 DEF PagesKeepUp, ListSettled
<1>4. CASE newest = s /\ call[s].pc = "headers"
  <2>1. call' = [call EXCEPT ![s].pc = "body"] /\ UNCHANGED <<newest, astray>>
    BY <1>4 DEF ReadHeaders, Superseded
  <2>2. call'[s] = [call[s] EXCEPT !.pc = "body"]
        /\ \A t \in ListSlots \ {s} : call'[t] = call[t]
    BY <1>1, <2>1
  <2>3. /\ call'[s].pc = "body" /\ call'[s].after = call[s].after
        /\ call'[s].page = call[s].page
    BY <1>1, <2>2
  <2>4. ListSettled' => ListSettled
    BY <1>1, <1>4, <2>1, <2>2 DEF ListSettled
  <2>5. Wanted(filter)' = Wanted(filter)
    BY <1>1 DEF Wanted, Matches
  <2>6. ListShows' <=> ListShows
    BY <1>1, <2>5 DEF ListShows
  <2>7. NextFits(s) => NextFits(s)'
    BY <1>1, <1>4, <2>3, <2>5, <2>6 DEF NextFits
  <2> QED
    BY <1>1, <1>4, <2>1, <2>3, <2>4, <2>7 DEF ListInv, PagesKeepUp
<1> QED
  BY <1>1, <1>2, <1>3, <1>4

LEMMA ListBodyRead ==
  ASSUME ListInv, NEW s \in ListSlots, ReadBody(s)
  PROVE  PagesKeepUp'
<1>1. /\ DOMAIN call = ListSlots /\ s # "none" /\ call[s].pc = "body"
      /\ newest \in ListSlots \cup {"none"}
      /\ UNCHANGED <<order, state, live, filter, timer, astray>>
      /\ call' = [call EXCEPT ![s] = NoCall]
      /\ newest' = IF newest = s THEN "none" ELSE newest
      /\ cursor' = call[s].page.cursor
      /\ shown' = (IF call[s].after # "none" THEN shown ELSE <<>>) \o call[s].page.items
  BY ListAssumption DEF ReadBody, ListInv, FilterInv, NewestIsUnderWay, listDb
<1> SUFFICES ASSUME ListSettled' PROVE newest' = "none" /\ ListShows'
  BY DEF PagesKeepUp
<1>2. \A t \in ListSlots \ {s} : call'[t] = call[t]
  BY <1>1
<1>3. ListSettled
  BY <1>1, <1>2 DEF ListSettled
<1>4. newest = s
  BY <1>1, <1>3 DEF ListInv, FilterInv, OnlyNewestApplies, Unharmed, ListSettled
<1>5. NextFits(s)
  BY <1>1, <1>3, <1>4 DEF ListInv, PagesKeepUp
<1>6. Wanted(filter)' = Wanted(filter)
  BY <1>1 DEF Wanted, Matches
<1>7. CASE call[s].after = "none"
  <2>1. Shows(call[s].page.items, call[s].page.cursor, Wanted(filter), order)
    BY <1>1, <1>5, <1>7 DEF NextFits
  <2>2. call[s].page.items \in Seq(Wanted(filter))
    BY <2>1 DEF Shows
  <2>3. shown' = call[s].page.items
    BY <1>1, <1>7, <2>2, ConcatEmptySeq
  <2> QED
    BY <1>1, <1>4, <1>6, <2>1, <2>3 DEF ListShows
<1>8. CASE call[s].after # "none"
  BY <1>1, <1>4, <1>5, <1>6, <1>8 DEF ListShows, NextFits
<1> QED
  BY <1>7, <1>8

LEMMA ListLoadRejected ==
  ASSUME ListInv, NEW s \in ListSlots, LoadRejects(s)
  PROVE  PagesKeepUp'
<1>1. /\ DOMAIN call = ListSlots /\ s # "none" /\ call[s].pc = "sent"
      /\ newest \in ListSlots \cup {"none"}
      /\ UNCHANGED <<order, state, live, filter, timer, shown, cursor>>
      /\ call' = [call EXCEPT ![s] = NoCall]
      /\ newest' = IF newest = s THEN "none" ELSE newest
      /\ astray' = IF newest = s THEN astray \cup {"offline"} ELSE astray
  BY ListAssumption DEF LoadRejects, ListInv, FilterInv, NewestIsUnderWay, listDb, listView
<1>2. CASE newest = s
  <2>1. astray' # {}
    BY <1>1, <1>2
  <2> QED
    BY <2>1 DEF PagesKeepUp, ListSettled
<1>3. CASE newest # s
  <2>1. \A t \in ListSlots \ {s} : call'[t] = call[t]
    BY <1>1
  <2>2. ListSettled' => ListSettled
    BY <1>1, <1>3, <2>1 DEF ListSettled
  <2>3. newest # "none" => call'[newest] = call[newest]
    BY <1>1, <1>3, <2>1
  <2> QED
    BY <1>1, <1>3, <2>2, <2>3, ListStays
<1> QED
  BY <1>2, <1>3

(* A bulk action has not come to its end, or changed nothing yet, or a load*)
(* from the top is sure to follow.                                         *)
LEMMA ListBulkKeepsUp ==
  ASSUME ListInv, NEW s \in ListSlots,
         (\E a : Bulk(s, a)) \/ AnswerBulk(s) \/ BulkFails(s) \/ Undo(s)
  PROVE  PagesKeepUp'
<1>1. /\ DOMAIN call = ListSlots /\ s # "none" /\ "pc" \in DOMAIN call[s]
      /\ newest \in ListSlots \cup {"none"}
      /\ newest # "none" => call[newest].pc \in {"sent", "headers", "refused", "body"}
  BY ListAssumption DEF ListInv, FilterInv, NewestIsUnderWay
<1>2. /\ call[s].pc \in {"idle", "bulk", "done"}
      /\ \A t \in ListSlots \ {s} : call'[t] = call[t]
      /\ UNCHANGED <<filter, timer, shown, cursor, newest>>
  BY <1>1 DEF Bulk, AnswerBulk, BulkFails, Undo, FreeSlot, listView
<1>3. newest # "none" => call'[newest] = call[newest]
  BY <1>1, <1>2
<1>4. CASE AnswerBulk(s)
  <2>1. call' = [call EXCEPT ![s].pc = "done"]
    BY <1>4 DEF AnswerBulk
  <2>2. call'[s] = [call[s] EXCEPT !.pc = "done"]
    BY <1>1, <2>1
  <2>3. call'[s].pc = "done"
    BY <1>1, <2>2
  <2> QED
    BY <2>3 DEF PagesKeepUp, ListSettled
<1>5. CASE BulkFails(s) /\ call[s].pc = "done"
  <2>1. astray' # {}
    BY <1>5 DEF BulkFails
  <2> QED
    BY <2>1 DEF PagesKeepUp, ListSettled
<1>6. CASE (\E a : Bulk(s, a)) \/ Undo(s) \/ (BulkFails(s) /\ call[s].pc # "done")
  <2>1. call[s].pc # "done" /\ UNCHANGED <<order, state, live, astray>>
    BY <1>6 DEF Bulk, Undo, BulkFails, FreeSlot, listDb
  <2>2. ListSettled' => ListSettled
    BY <1>2, <2>1 DEF ListSettled
  <2> QED
    BY <1>2, <1>3, <2>1, <2>2, ListStays
<1> QED
  BY <1>4, <1>5, <1>6

LEMMA ListRestKeepsUp ==
  ASSUME ListInv,
         \/ \E f \in Filters : ChangeFilter(f)
         \/ \E p \in ListPosts : ToggleSelected(p)
         \/ ToggleAll \/ ClearSelection \/ OthersChange \/ UNCHANGED listVars
  PROVE  PagesKeepUp'
<1>1. CASE \E f \in Filters : ChangeFilter(f)
  BY <1>1 DEF ChangeFilter, PagesKeepUp, ListSettled
<1>2. CASE OthersChange
  <2>1. astray' # {}
    BY <1>2 DEF OthersChange
  <2> QED
    BY <2>1 DEF PagesKeepUp, ListSettled
<1>3. CASE (\E p \in ListPosts : ToggleSelected(p)) \/ ToggleAll \/ ClearSelection
           \/ UNCHANGED listVars
  <2>1. UNCHANGED <<order, state, live, filter, timer, shown, cursor, newest, call, astray>>
    BY <1>3 DEF ToggleSelected, ToggleAll, ClearSelection, listVars, listDb, listView
  <2>2. ListSettled' => ListSettled
    BY <2>1 DEF ListSettled
  <2> QED
    BY <2>1, <2>2, ListStays
<1> QED
  BY <1>1, <1>2, <1>3

LEMMA ListStaysTyped ==
  ASSUME ListTyped, [ListNext]_listVars
  PROVE  ListTyped'
<1>1. UNCHANGED listDb => UNCHANGED order
  BY DEF listDb
<1>2. \A ps : Touched(ps) \subseteq SetToSeqs(ListPosts)
  BY DEF Touched
<1>3. ASSUME NEW s \in ListSlots,
             \/ TimerFires(s) \/ LoadMore(s) \/ AnswerLoad(s) \/ ReadHeaders(s)
             \/ ReadBody(s) \/ LoadRejects(s) \/ BulkDone(s) \/ BulkFails(s) \/ Undo(s)
             \/ \E a \in {"approve", "delete"} : Bulk(s, a)
      PROVE  UNCHANGED order
  <2>1. CASE TimerFires(s) \/ LoadMore(s) \/ AnswerLoad(s) \/ ReadHeaders(s) \/ ReadBody(s)
    BY <1>1, <2>1 DEF TimerFires, LoadMore, AnswerLoad, ReadHeaders, ReadBody
  <2>2. CASE \/ LoadRejects(s) \/ BulkDone(s) \/ BulkFails(s) \/ Undo(s)
             \/ \E a \in {"approve", "delete"} : Bulk(s, a)
    BY <1>1, <2>2 DEF LoadRejects, BulkDone, BulkFails, Undo, Bulk
  <2> QED
    BY <1>3, <2>1, <2>2
<1>4. ASSUME \/ \E f \in Filters : ChangeFilter(f)
             \/ \E p \in ListPosts : ToggleSelected(p)
             \/ ToggleAll \/ ClearSelection \/ UNCHANGED listVars
      PROVE  UNCHANGED order
  BY <1>1, <1>4 DEF ChangeFilter, ToggleSelected, ToggleAll, ClearSelection, listVars
<1>5. ASSUME NEW s \in ListSlots, AnswerBulk(s) PROVE order' \in SetToSeqs(ListPosts)
  BY <1>2, <1>5 DEF AnswerBulk
<1>6. CASE OthersChange
  BY <1>2, <1>6 DEF OthersChange, ListTyped
<1> QED
  BY <1>3, <1>4, <1>5, <1>6 DEF ListNext, ListTyped

LEMMA ListInvariant == ListSpec => []ListInv
<1>1. ListInit => ListInv
  <2> SUFFICES ASSUME ListInit PROVE ListInv
    OBVIOUS
  <2>1. /\ newest = "none" /\ call = [s \in ListSlots |-> NoCall]
        /\ asked = {"all"} /\ filter = "all" /\ timer = TRUE
        /\ order \in SetToSeqs(ListPosts)
    BY DEF ListInit
  <2>2. FilterInv
    BY <2>1 DEF FilterInv, NewestIsUnderWay, OnlyNewestApplies, AskedForFilter, NoCall
  <2> QED
    BY <2>1, <2>2 DEF ListInv, ListTyped, PagesKeepUp, ListSettled
<1>2. ListInv /\ [ListNext]_listVars => ListInv'
  <2> SUFFICES ASSUME ListInv, [ListNext]_listVars PROVE ListInv'
    OBVIOUS
  <2>1. FilterInv' /\ ListTyped'
    BY ListStepInv, ListStaysTyped DEF ListInv
  <2>2. ASSUME NEW s \in ListSlots,
               \/ TimerFires(s) \/ LoadMore(s) \/ AnswerLoad(s) \/ ReadHeaders(s)
               \/ ReadBody(s) \/ LoadRejects(s)
               \/ \E a \in {"approve", "delete"} : Bulk(s, a)
               \/ AnswerBulk(s) \/ BulkDone(s) \/ BulkFails(s) \/ Undo(s)
        PROVE  PagesKeepUp'
    BY <2>2, ListPageStarts, ListPageAnswers, ListHeadersRead, ListBodyRead,
       ListLoadRejected, ListBulkKeepsUp
  <2>3. PagesKeepUp'
    BY <2>2, ListRestKeepsUp DEF ListNext
  <2> QED
    BY <2>1, <2>3 DEF ListInv
<1> QED
  BY <1>1, <1>2, PTL DEF ListSpec

(* posts.ts:301: once nothing is under way and there is no further page,   *)
(* the list holds every post that matches the filter, each once, however   *)
(* the pages, bulk actions and their undos came - if no other member       *)
(* touched a post since the load from the top.                             *)
THEOREM ListHoldsAll == ListSpec => []ListIsComplete
<1>1. ListInv => ListIsComplete
  <2> SUFFICES ASSUME ListInv, ListQuiet, astray = {}, cursor = "none"
               PROVE  /\ ToSet(shown) = Wanted(filter)
                      /\ Cardinality(ToSet(shown)) = Len(shown)
    BY DEF ListIsComplete, Wanted
  <2>1. newest = "none"
    BY DEF ListInv, FilterInv, NewestIsUnderWay, ListQuiet
  <2>2. ListSettled
    BY DEF ListQuiet, ListSettled
  <2>3. ListShows
    BY <2>1, <2>2 DEF ListInv, PagesKeepUp
  <2> QED
    BY <2>3, ShownOnce DEF ListShows
<1> QED
  BY <1>1, ListInvariant, PTL

-----------------------------------------------------------------------------
(***************************************************************************)
(* The types of the screens: for each a shape of its pending calls, and    *)
(* that every action keeps it.                                             *)
(***************************************************************************)
(* The panel.  A list that was loaded is one the server had.               *)
PanelPcs == {"free", "act", "ok", "error", "load", "loaded"}

PanelShapes ==
  /\ channels \in [1..2 -> [page: Pages, status: {"active", "needs_reconnect"}]]
  /\ channelId \in Pages
  /\ approved \in BOOLEAN /\ busy \in BOOLEAN /\ overtaken \in BOOLEAN
  /\ running \subseteq Pages
  /\ \A p \in Pages : listed[p].status \in PubStatuses
  /\ \A s \in PanelSlots :
       /\ fetch[s].pc \in PanelPcs
       /\ fetch[s].pc = "loaded" => \A p \in Pages : fetch[s].pub[p].status \in PubStatuses

LEMMA PanelShapesInit == PanelInit => PanelShapes
<1> SUFFICES ASSUME PanelInit
             PROVE  PanelShapes
  OBVIOUS
<1>1. PICK f \in [Pages -> {"active", "needs_reconnect"}], ps \in [1..2 -> Pages] :
        channels = [i \in 1..2 |-> [page |-> ps[i], status |-> f[ps[i]]]]
  BY DEF PanelInit
<1>2. channels \in [1..2 -> [page: Pages, status: {"active", "needs_reconnect"}]]
  BY <1>1
<1>3. channelId \in Pages
  BY <1>2 DEF PanelInit
<1>4. PICK s \in PanelSlots :
        fetch = [x \in PanelSlots |-> IF x = s THEN [pc |-> "load"] ELSE Free]
  BY DEF PanelInit
<1>5. \A x \in PanelSlots : fetch[x].pc \in PanelPcs /\ fetch[x].pc # "loaded"
  BY <1>4 DEF Free, PanelPcs
<1>6. \A p \in Pages : listed[p].status \in PubStatuses
  BY DEF PanelInit, Unsent, PubStatuses
<1> QED
  BY <1>2, <1>3, <1>5, <1>6 DEF PanelInit, PanelShapes

(* A slot goes on to next.                                                 *)
LEMMA FetchGoesOn ==
  ASSUME PanelInv, PanelShapes, NEW s \in PanelSlots, NEW next,
         fetch' = [fetch EXCEPT ![s] = next], next.pc \in PanelPcs,
         next.pc = "loaded" => \A p \in Pages : next.pub[p].status \in PubStatuses
  PROVE  \A x \in PanelSlots :
           /\ fetch'[x].pc \in PanelPcs
           /\ fetch'[x].pc = "loaded" => \A p \in Pages : fetch'[x].pub[p].status \in PubStatuses
<1>1. fetch'[s] = next /\ \A x \in PanelSlots \ {s} : fetch'[x] = fetch[x]
  BY DEF PanelInv, AnswersAreKnown
<1> QED
  BY <1>1 DEF PanelShapes

LEMMA PanelShapesStep ==
  PanelInv /\ PanelShapes /\ [PanelNext]_panelVars => PanelShapes'
<1> SUFFICES ASSUME PanelInv, PanelShapes, [PanelNext]_panelVars
             PROVE  PanelShapes'
  OBVIOUS
<1>1. CASE ChoosePage
  <2> DEFINE S == [page: Pages, status: {"active", "needs_reconnect"}]
  <2>1. Active \subseteq 1..2
    <3>1. channels \in [1..2 -> S]
      BY DEF PanelShapes
    <3> HIDE DEF S
    <3>2. Len(channels) = 2
      BY <3>1
    <3> QED
      BY <3>2 DEF Active
  <2>2. channelId' \in Pages
    BY <1>1, <2>1 DEF ChoosePage, PanelShapes
  <2> QED
    BY <1>1, <2>2 DEF ChoosePage, PanelShapes, panelServer
<1>2. ASSUME NEW s \in PanelSlots, NEW k \in {"schedule", "publish", "cancel", "retry"},
             NEW page \in Pages, Press(s, k, page)
      PROVE  PanelShapes'
  <2> DEFINE next == [pc |-> "act", kind |-> k, page |-> page]
  <2>1. fetch' = [fetch EXCEPT ![s] = next] /\ next.pc = "act"
    BY <1>2 DEF Press
  <2> HIDE DEF next
  <2>2. \A x \in PanelSlots :
          /\ fetch'[x].pc \in PanelPcs
          /\ fetch'[x].pc = "loaded" => \A p \in Pages : fetch'[x].pub[p].status \in PubStatuses
    BY <2>1, FetchGoesOn DEF PanelPcs
  <2>3. busy' \in BOOLEAN
    BY <1>2 DEF Press
  <2> QED
    BY <1>2, <2>2, <2>3 DEF Press, PanelShapes, panelServer
<1>3. ASSUME NEW s \in PanelSlots, Act(s)
      PROVE  PanelShapes'
  <2>1. PICK next : fetch' = [fetch EXCEPT ![s] = next] /\ next.pc \in {"ok", "error"}
    <3>1. ASSUME NEW kind, NEW page, NEW version,
                 fetch' = [fetch EXCEPT ![s] = [pc |-> "ok", kind |-> kind, page |-> page,
                                                version |-> version]]
          PROVE  \E next : fetch' = [fetch EXCEPT ![s] = next] /\ next.pc \in {"ok", "error"}
      <4> DEFINE next == [pc |-> "ok", kind |-> kind, page |-> page, version |-> version]
      <4>1. next.pc = "ok" /\ fetch' = [fetch EXCEPT ![s] = next]
        BY <3>1
      <4> HIDE DEF next
      <4> QED
        BY <4>1
    <3>2. ASSUME NEW kind, fetch' = [fetch EXCEPT ![s] = [pc |-> "error", kind |-> kind]]
          PROVE  \E next : fetch' = [fetch EXCEPT ![s] = next] /\ next.pc \in {"ok", "error"}
      <4> DEFINE next == [pc |-> "error", kind |-> kind]
      <4>1. next.pc = "error" /\ fetch' = [fetch EXCEPT ![s] = next]
        BY <3>2
      <4> HIDE DEF next
      <4> QED
        BY <4>1
    <3> QED
      BY <1>3, <3>1, <3>2, Zenon DEF Act
  <2>2. \A x \in PanelSlots :
          /\ fetch'[x].pc \in PanelPcs
          /\ fetch'[x].pc = "loaded" => \A p \in Pages : fetch'[x].pub[p].status \in PubStatuses
    BY <2>1, FetchGoesOn DEF PanelPcs
  <2> QED
    BY <1>3, <2>2 DEF Act, PanelShapes
<1>4. ASSUME NEW s \in PanelSlots, Hear(s)
      PROVE  PanelShapes'
  <2>1. PICK next : fetch' = [fetch EXCEPT ![s] = next] /\ next.pc \in {"free", "load"}
    <3>1. Free.pc = "free"
      BY DEF Free
    <3>2. CASE fetch[s].pc = "error"
      BY <1>4, <3>1, <3>2 DEF Hear
    <3>3. CASE fetch[s].pc # "error"
      <4>1. fetch' = [fetch EXCEPT ![s] = IF fetch[s].kind \in Reloads THEN [pc |-> "load"] ELSE Free]
        BY <1>4, <3>3, Zenon DEF Hear
      <4>2. CASE fetch[s].kind \in Reloads
        <5> DEFINE next == [pc |-> "load"]
        <5>1. next.pc = "load" /\ fetch' = [fetch EXCEPT ![s] = next]
          BY <4>1, <4>2
        <5> HIDE DEF next
        <5> QED
          BY <5>1
      <4>3. CASE fetch[s].kind \notin Reloads
        BY <3>1, <4>1, <4>3
      <4> QED
        BY <4>2, <4>3
    <3> QED
      BY <3>2, <3>3
  <2>2. \A x \in PanelSlots :
          /\ fetch'[x].pc \in PanelPcs
          /\ fetch'[x].pc = "loaded" => \A p \in Pages : fetch'[x].pub[p].status \in PubStatuses
    BY <2>1, FetchGoesOn DEF PanelPcs
  <2>3. busy' \in BOOLEAN /\ overtaken' \in BOOLEAN
    BY <1>4 DEF Hear, PanelShapes
  <2> QED
    BY <1>4, <2>2, <2>3 DEF Hear, PanelShapes, panelServer
<1>5. ASSUME NEW s \in PanelSlots, RunLoad(s)
      PROVE  PanelShapes'
  <2> DEFINE next == [pc |-> "loaded", pub |-> pub]
  <2>1. fetch' = [fetch EXCEPT ![s] = next] /\ next.pc = "loaded" /\ next.pub = pub
    BY <1>5 DEF RunLoad
  <2>2. \A p \in Pages : pub[p].status \in PubStatuses
    BY DEF PanelInv, VersionsGrow
  <2> HIDE DEF next
  <2>3. \A x \in PanelSlots :
          /\ fetch'[x].pc \in PanelPcs
          /\ fetch'[x].pc = "loaded" => \A p \in Pages : fetch'[x].pub[p].status \in PubStatuses
    BY <2>1, <2>2, FetchGoesOn DEF PanelPcs
  <2> QED
    BY <1>5, <2>3 DEF RunLoad, PanelShapes, panelServer
<1>6. ASSUME NEW s \in PanelSlots, Loaded(s)
      PROVE  PanelShapes'
  <2>1. fetch' = [fetch EXCEPT ![s] = Free] /\ Free.pc = "free"
    BY <1>6 DEF Loaded, Free
  <2>2. \A x \in PanelSlots :
          /\ fetch'[x].pc \in PanelPcs
          /\ fetch'[x].pc = "loaded" => \A p \in Pages : fetch'[x].pub[p].status \in PubStatuses
    BY <2>1, FetchGoesOn DEF PanelPcs
  <2>3. overtaken' \in BOOLEAN /\ \A p \in Pages : listed'[p].status \in PubStatuses
    BY <1>6 DEF Loaded, PanelShapes
  <2> QED
    BY <1>6, <2>2, <2>3 DEF Loaded, PanelShapes, panelServer
<1>7. CASE WorkerRuns
  BY <1>7 DEF WorkerRuns, PanelShapes
<1>8. CASE SheetStatusChanges
  BY <1>8 DEF SheetStatusChanges, PanelShapes, panelServer
<1>9. CASE UNCHANGED panelVars
  BY <1>9 DEF panelVars, panelServer, PanelShapes
<1> QED
  BY <1>1, <1>2, <1>3, <1>4, <1>5, <1>6, <1>7, <1>8, <1>9 DEF PanelNext

LEMMA PanelTypesHold == PanelSpec => []PanelTypeOK
<1>1. PanelInv /\ PanelShapes => PanelTypeOK
  BY DEF PanelInv, VersionsGrow, PanelShapes, PanelPcs, PanelTypeOK
<1> QED
  BY <1>1, PanelInvariant, PanelShapesInit, PanelShapesStep, PTL DEF PanelSpec

-----------------------------------------------------------------------------
(* The post sheet.                                                         *)
SheetShapes ==
  /\ reloading \in BOOLEAN /\ undoOffer \in BOOLEAN
  /\ sheetClicks \in 0..MaxSheetClicks
  /\ sheetAstray \subseteq {"typed", "cancelled", "lost", "others", "early"}

LEMMA SheetShapesStep ==
  SheetShapes /\ [SheetNext]_sheetVars => SheetShapes'
<1> SUFFICES ASSUME SheetShapes, [SheetNext]_sheetVars
             PROVE  SheetShapes'
  OBVIOUS
<1>1. SheetClick => sheetClicks' \in 0..MaxSheetClicks
  BY SheetAssumption DEF SheetClick, SheetShapes
<1>2. ASSUME \/ \E k \in SheetKinds \ {"undo"} : Send(k)
             \/ StartEdit \/ CancelEdit \/ CloseSheet
             \/ \E x \in SheetTexts : Type(x)
      PROVE  SheetShapes'
  <2>1. SheetClick /\ UNCHANGED <<reloading, undoOffer>>
    BY <1>2 DEF Send, StartEdit, CancelEdit, CloseSheet, Type, sheetList
  <2>2. sheetAstray' \subseteq sheetAstray \cup {"typed", "cancelled"}
    BY <1>2 DEF Send, StartEdit, CancelEdit, CloseSheet, Type
  <2> QED
    BY <1>1, <2>1, <2>2 DEF SheetShapes
<1>3. CASE OpenSheet
  BY <1>1, <1>3 DEF OpenSheet, SheetShapes, sheetList
<1>4. CASE ListReloads
  BY <1>4 DEF ListReloads, SheetShapes
<1>5. CASE UndoDelete
  BY <1>1, <1>5 DEF UndoDelete, SheetShapes, sheetList
<1>6. ASSUME NEW c \in sent, ServerRuns(c) \/ AnswerLost(c)
      PROVE  SheetShapes'
  BY <1>6 DEF ServerRuns, AnswerLost, SheetShapes, sheetList
<1>7. ASSUME NEW c \in sent, Answer(c)
      PROVE  SheetShapes'
  <2>1. undoOffer' \in BOOLEAN /\ reloading' \in BOOLEAN
    BY <1>7, Zenon DEF Answer
  <2> QED
    BY <1>7, <2>1 DEF Answer, SheetShapes
<1>8. CASE OthersEdit
  BY <1>8 DEF OthersEdit, SheetShapes, sheetList
<1>9. CASE UNCHANGED sheetVars
  BY <1>9 DEF sheetVars, sheetList, SheetShapes
<1> QED
  BY <1>2, <1>3, <1>4, <1>5, <1>6, <1>7, <1>8, <1>9 DEF SheetNext

LEMMA SheetTypesHold == SheetSpec => []SheetTypeOK
<1>1. SheetInit => SheetShapes
  <2> SUFFICES ASSUME SheetInit
               PROVE  SheetShapes
    OBVIOUS
  <2>1. reloading = FALSE /\ undoOffer = FALSE /\ sheetClicks = 0 /\ sheetAstray = {}
    BY Zenon DEF SheetInit
  <2>2. sheetClicks \in 0..MaxSheetClicks
    BY <2>1, SheetAssumption
  <2>3. reloading \in BOOLEAN /\ undoOffer \in BOOLEAN
    BY <2>1
  <2> QED
    BY <2>1, <2>2, <2>3 DEF SheetShapes
<1>2. SheetInv /\ SheetShapes => SheetTypeOK
  BY DEF SheetInv, SheetTyped, SheetPosts, SheetStates, SheetShapes, SheetTypeOK
<1> QED
  BY <1>1, <1>2, SheetInvariant, SheetShapesStep, PTL DEF SheetSpec

(* What a page holds is of the rows asked for, whatever the table.         *)
LEMMA PagesAreOfRows ==
  ASSUME NEW S, IsFiniteSet(S), NEW M \in SUBSET S, NEW table, NEW c, NEW size \in Nat \ {0},
         NEW page \in PagesFrom(table, M, c, size)
  PROVE  page.items \in Seq(S) /\ page.cursor \in S \cup {"none"}
<1>1. ASSUME NEW rows \in SUBSET S, NEW r \in Sorted(table, rows)
      PROVE  r \in Seq(S)
  <2> DEFINE n == Cardinality(rows)
  <2>1. n \in Nat
    BY FS_Subset, FS_CardinalityType
  <2>2. r \in [1..n -> rows]
    BY DEF Sorted
  <2> HIDE DEF n
  <2>3. r \in [1..n -> S]
    BY <2>2
  <2> QED
    BY <2>1, <2>3
<1>2. PICK r : r \in RowsFrom(table, M, c) /\ page = PageOf(r, size)
  BY DEF PagesFrom
<1>3. r \in Seq(S)
  <2>1. CASE c = "none"
    BY <1>1, <1>2, <2>1 DEF RowsFrom
  <2>2. CASE c # "none"
    <3> DEFINE rows == {p \in M : p = c \/ Ahead(table, c, p)}
    <3>1. PICK q : q \in Sorted(table, rows) /\ r = IF q = <<>> THEN q ELSE Tail(q)
      BY <1>2, <2>2 DEF RowsFrom
    <3>2. q \in Seq(S)
      BY <1>1, <3>1
    <3>3. q # <<>> => Tail(q) \in Seq(S)
      BY <3>2, HeadTailProperties
    <3> QED
      BY <3>1, <3>2, <3>3
  <2> QED
    BY <2>1, <2>2
<1> DEFINE m == IF Len(r) > size THEN size ELSE Len(r)
<1>4. Len(r) \in Nat /\ m \in 0..Len(r) /\ \A i \in 1..m : r[i] \in S
  BY <1>3
<1>5. page.items = SubSeq(r, 1, m) /\ page.cursor = IF Len(r) > size THEN r[size] ELSE "none"
  BY <1>2 DEF PageOf
<1>6. page.cursor \in S \cup {"none"}
  BY <1>3, <1>4, <1>5
<1> HIDE DEF m
<1>7. SubSeq(r, 1, m) \in Seq(S)
  BY <1>4, SubSeqProperties
<1> QED
  BY <1>5, <1>6, <1>7

LEMMA NamesOfSeq ==
  ASSUME NEW S, NEW s \in Seq(S)
  PROVE  ToSet(s) \subseteq S
BY DEF ToSet

-----------------------------------------------------------------------------
(* The library.  Calls keep the filter they were begun with.               *)
AskShape(a) ==
  /\ a.pc \in {"load", "page", "upload", "alt", "delete", "altDone", "deleteDone"} =>
       a.filter \in Sources
  /\ a.pc = "page" => a.page.items \in Seq(LibImages) /\ a.page.cursor \in LibImages \cup {"none"}
  /\ a.pc \in {"alt", "delete", "altDone", "deleteDone"} => a.image \in LibImages

LibShapes ==
  /\ source \in Sources /\ itemsFor \subseteq Sources
  /\ libTimer \in BOOLEAN /\ uploading \in BOOLEAN
  /\ items \in Seq(LibImages)
  /\ libCursor \in LibImages \cup {"none"} /\ openImage \in LibImages \cup {"none"}
  /\ libClicks \in 0..MaxLibClicks
  /\ \A s \in LibSlots : AskShape(ask[s])

LEMMA LibPageShape ==
  ASSUME NEW f, NEW c, NEW page \in LibPages(f, c)
  PROVE  page.items \in Seq(LibImages) /\ page.cursor \in LibImages \cup {"none"}
<1> DEFINE M == {m \in LibImages : LibMatches(f, m)}
<1>1. page \in PagesFrom(library, M, c, LibPage) /\ M \in SUBSET LibImages
  BY DEF LibPages
<1> HIDE DEF M
<1> QED
  BY <1>1, PagesAreOfRows, LibAssumption

(* A slot goes on to next.                                                 *)
LEMMA AskGoesOn ==
  ASSUME LibInv, LibShapes, NEW s \in LibSlots, NEW next,
         ask' = [ask EXCEPT ![s] = next], AskShape(next)
  PROVE  \A u \in LibSlots : AskShape(ask'[u])
<1>1. ask'[s] = next /\ \A u \in LibSlots \ {s} : ask'[u] = ask[u]
  BY DEF LibInv, LibTyped
<1> QED
  BY <1>1 DEF LibShapes

LEMMA LibLoadShape ==
  ASSUME LibInv, LibShapes, NEW s \in LibSlots, NEW f \in Sources, NEW c, LibLoad(s, f, c)
  PROVE  \A u \in LibSlots : AskShape(ask'[u])
<1> DEFINE next == [pc |-> "load", filter |-> f, after |-> c]
<1>1. ask' = [ask EXCEPT ![s] = next] /\ next.pc = "load" /\ next.filter = f
  BY DEF LibLoad
<1> HIDE DEF next
<1>2. AskShape(next)
  BY <1>1 DEF AskShape
<1> QED
  BY <1>1, <1>2, AskGoesOn

LEMMA LibStartsKeepShapes ==
  ASSUME LibInv, LibShapes, NEW s \in LibSlots,
         LibTimerFires(s) \/ MoreImages(s) \/ UploadDone(s) \/ Deleted(s)
  PROVE  LibShapes'
<1>1. CASE LibTimerFires(s)
  <2>1. \A u \in LibSlots : AskShape(ask'[u])
    BY <1>1, LibLoadShape DEF LibTimerFires, LibShapes
  <2> QED
    BY <1>1, <2>1 DEF LibTimerFires, LibShapes, libView, libDb
<1>2. CASE MoreImages(s)
  <2>1. \A u \in LibSlots : AskShape(ask'[u])
    BY <1>2, LibLoadShape DEF MoreImages, LibShapes
  <2> QED
    BY <1>2, <2>1, LibAssumption DEF MoreImages, LibClick, LibShapes, libView, libDb
<1>3. CASE UploadDone(s)
  <2>1. ask[s].filter \in Sources
    BY <1>3 DEF UploadDone, LibShapes, AskShape
  <2>2. LibLoad(s, ask[s].filter, "none")
    BY <1>3 DEF UploadDone
  <2>3. \A u \in LibSlots : AskShape(ask'[u])
    BY <2>1, <2>2, LibLoadShape
  <2> QED
    BY <1>3, <2>3 DEF UploadDone, LibShapes, libView, libDb
<1>4. CASE Deleted(s)
  <2>1. ask[s].filter \in Sources
    BY <1>4 DEF Deleted, LibShapes, AskShape
  <2>2. LibLoad(s, ask[s].filter, "none")
    BY <1>4 DEF Deleted
  <2>3. \A u \in LibSlots : AskShape(ask'[u])
    BY <2>1, <2>2, LibLoadShape
  <2> QED
    BY <1>4, <2>3 DEF Deleted, LibShapes, libView, libDb
<1> QED
  BY <1>1, <1>2, <1>3, <1>4

LEMMA LibAnswersKeepShapes ==
  ASSUME LibInv, LibShapes, NEW s \in LibSlots,
         \/ LibServe(s) \/ LibFails(s) \/ LibPageHeard(s) \/ UploadRejects(s)
         \/ AltSaved(s) \/ ChangeUnheard(s)
  PROVE  LibShapes'
<1>1. AskShape(NoAsk)
  BY DEF AskShape, NoAsk
<1>2. AskShape(ask[s])
  BY DEF LibShapes
<1>3. CASE LibServe(s)
  <2>1. PICK f, c : f = ask[s].filter /\ c = ask[s].after
    OBVIOUS
  <2>2. f \in Sources
    BY <1>2, <1>3, <2>1 DEF LibServe, AskShape
  <2>3. PICK page \in LibPages(f, c) :
          ask' = [ask EXCEPT ![s] = [pc |-> "page", filter |-> f, after |-> c, page |-> page]]
    BY <1>3, <2>1 DEF LibServe
  <2> DEFINE next == [pc |-> "page", filter |-> f, after |-> c, page |-> page]
  <2>4. /\ ask' = [ask EXCEPT ![s] = next]
        /\ next.pc = "page" /\ next.filter = f /\ next.page = page
    BY <2>3
  <2> HIDE DEF next
  <2>5. AskShape(next)
    BY <2>2, <2>4, LibPageShape DEF AskShape
  <2>6. \A u \in LibSlots : AskShape(ask'[u])
    BY <2>4, <2>5, AskGoesOn
  <2> QED
    BY <1>3, <2>6 DEF LibServe, LibShapes, libView, libDb
<1>4. CASE LibFails(s) \/ UploadRejects(s) \/ ChangeUnheard(s)
  <2>1. ask' = [ask EXCEPT ![s] = NoAsk]
    BY <1>4 DEF LibFails, UploadRejects, ChangeUnheard
  <2>2. \A u \in LibSlots : AskShape(ask'[u])
    BY <1>1, <2>1, AskGoesOn
  <2> QED
    BY <1>4, <2>2 DEF LibFails, UploadRejects, ChangeUnheard, LibShapes, libView, libDb
<1>5. CASE LibPageHeard(s)
  <2>1. \A u \in LibSlots : AskShape(ask'[u])
    BY <1>1, <1>5, AskGoesOn DEF LibPageHeard
  <2>2. /\ ask[s].filter \in Sources /\ ask[s].page.items \in Seq(LibImages)
        /\ ask[s].page.cursor \in LibImages \cup {"none"}
    BY <1>2, <1>5 DEF LibPageHeard, AskShape
  <2>3. items \o ask[s].page.items \in Seq(LibImages)
    BY <2>2, ConcatProperties DEF LibShapes
  <2>4. <<>> \o ask[s].page.items = ask[s].page.items
    BY <2>2, ConcatEmptySeq
  <2>5. items' \in Seq(LibImages)
    BY <1>5, <2>2, <2>3, <2>4 DEF LibPageHeard, ItemsAfter
  <2>6. itemsFor' \subseteq Sources /\ libCursor' \in LibImages \cup {"none"}
    BY <1>5, <2>2 DEF LibPageHeard, LibShapes
  <2> QED
    BY <1>5, <2>1, <2>5, <2>6 DEF LibPageHeard, LibShapes, libDb
<1>6. CASE AltSaved(s)
  <2>1. \A u \in LibSlots : AskShape(ask'[u])
    BY <1>1, <1>6, AskGoesOn DEF AltSaved
  <2>2. openImage' \in LibImages
    BY <1>2, <1>6 DEF AltSaved, AskShape
  <2> QED
    BY <1>6, <2>1, <2>2 DEF AltSaved, LibShapes, libView, libDb
<1> QED
  BY <1>3, <1>4, <1>5, <1>6

LEMMA LibChangesKeepShapes ==
  ASSUME LibInv, LibShapes, NEW s \in LibSlots,
         \/ \E n \in 1..2 : Upload(s, n)
         \/ UploadOne(s)
         \/ \E w \in {"alt", "delete"} : Change(s, w)
         \/ ServeChange(s)
  PROVE  LibShapes'
<1>1. AskShape(ask[s]) /\ AskShape(NoAsk) /\ "pc" \in DOMAIN ask[s]
  BY DEF LibShapes, AskShape, NoAsk, LibInv, LibTyped
<1>2. LibClick => libClicks' \in 0..MaxLibClicks
  BY LibAssumption DEF LibClick, LibShapes
<1>3. ASSUME NEW n \in 1..2, Upload(s, n)
      PROVE  LibShapes'
  <2> DEFINE next == [pc |-> "upload", files |-> n, filter |-> source]
  <2>1. /\ ask' = [ask EXCEPT ![s] = next]
        /\ next.pc = "upload" /\ next.filter = source
    BY <1>3 DEF Upload
  <2> HIDE DEF next
  <2>2. AskShape(next)
    BY <2>1 DEF AskShape, LibShapes
  <2>3. \A u \in LibSlots : AskShape(ask'[u])
    BY <2>1, <2>2, AskGoesOn
  <2> QED
    BY <1>2, <1>3, <2>3 DEF Upload, LibShapes, libView, libDb
<1>4. CASE UploadOne(s)
  <2> DEFINE next == [ask[s] EXCEPT !.files = @ - 1]
  <2>1. /\ ask[s].pc = "upload" /\ next.pc = ask[s].pc /\ next.filter = ask[s].filter
    BY <1>4 DEF UploadOne
  <2>2. ask' = [ask EXCEPT ![s] = next]
    BY <1>4 DEF UploadOne
  <2> HIDE DEF next
  <2>3. AskShape(next)
    BY <1>1, <2>1 DEF AskShape
  <2>4. \A u \in LibSlots : AskShape(ask'[u])
    BY <2>2, <2>3, AskGoesOn
  <2> QED
    BY <1>4, <2>4 DEF UploadOne, LibShapes, libView
<1>5. ASSUME NEW w \in {"alt", "delete"}, Change(s, w)
      PROVE  LibShapes'
  <2> DEFINE next == [pc |-> w, image |-> openImage, filter |-> source]
  <2>1. /\ ask' = [ask EXCEPT ![s] = next]
        /\ next.pc = w /\ next.image = openImage /\ next.filter = source
    BY <1>5 DEF Change
  <2>2. openImage \in LibImages
    BY <1>5 DEF Change, LibShapes
  <2> HIDE DEF next
  <2>3. AskShape(next)
    BY <2>1, <2>2 DEF AskShape, LibShapes
  <2>4. \A u \in LibSlots : AskShape(ask'[u])
    BY <2>1, <2>3, AskGoesOn
  <2> QED
    BY <1>2, <1>5, <2>4 DEF Change, LibShapes, libView, libDb
<1>6. CASE ServeChange(s)
  <2>1. PICK next : ask' = [ask EXCEPT ![s] = next] /\ AskShape(next)
    <3>1. CASE ask' = [ask EXCEPT ![s] = NoAsk]
      BY <1>1, <3>1
    <3>2. CASE ask' = [ask EXCEPT ![s].pc = IF @ = "delete" THEN "deleteDone" ELSE "altDone"]
      <4>1. PICK pc : pc = IF ask[s].pc = "delete" THEN "deleteDone" ELSE "altDone"
        OBVIOUS
      <4> DEFINE next == [ask[s] EXCEPT !.pc = pc]
      <4>2. /\ next.pc = pc /\ next.filter = ask[s].filter /\ next.image = ask[s].image
        BY <1>1
      <4>3. ask' = [ask EXCEPT ![s] = next]
        BY <3>2, <4>1
      <4> HIDE DEF next
      <4>4. AskShape(next)
        BY <1>1, <1>6, <4>1, <4>2 DEF AskShape, ServeChange
      <4> QED
        BY <4>3, <4>4
    <3> QED
      BY <1>6, <3>1, <3>2 DEF ServeChange
  <2>2. \A u \in LibSlots : AskShape(ask'[u])
    BY <2>1, AskGoesOn
  <2> QED
    BY <1>6, <2>2 DEF ServeChange, LibShapes, libView
<1> QED
  BY <1>3, <1>4, <1>5, <1>6

LEMMA LibShapesStep ==
  LibInv /\ LibShapes /\ [LibNext]_libVars => LibShapes'
<1> SUFFICES ASSUME LibInv, LibShapes, [LibNext]_libVars
             PROVE  LibShapes'
  OBVIOUS
<1>1. LibClick => libClicks' \in 0..MaxLibClicks
  BY LibAssumption DEF LibClick, LibShapes
<1>2. ASSUME NEW f \in Sources, ChooseSource(f)
      PROVE  LibShapes'
  BY <1>1, <1>2 DEF ChooseSource, LibShapes, libView, libDb
<1>3. ASSUME NEW m \in LibImages, OpenImage(m)
      PROVE  LibShapes'
  BY <1>1, <1>3 DEF OpenImage, LibShapes, libView, libDb
<1>4. CASE CloseImage
  BY <1>4 DEF CloseImage, LibShapes, libView, libDb
<1>5. CASE UNCHANGED libVars
  BY <1>5 DEF libVars, LibShapes, libView, libDb
<1>6. ASSUME NEW s \in LibSlots,
             \/ LibTimerFires(s) \/ MoreImages(s) \/ LibServe(s) \/ LibFails(s) \/ LibPageHeard(s)
             \/ \E n \in 1..2 : Upload(s, n)
             \/ UploadOne(s) \/ UploadDone(s) \/ UploadRejects(s)
             \/ \E w \in {"alt", "delete"} : Change(s, w)
             \/ ServeChange(s) \/ AltSaved(s) \/ Deleted(s) \/ ChangeUnheard(s)
      PROVE  LibShapes'
  BY <1>6, LibStartsKeepShapes, LibAnswersKeepShapes, LibChangesKeepShapes
<1> QED
  BY <1>2, <1>3, <1>4, <1>5, <1>6 DEF LibNext

LEMMA LibTypesHold == LibSpec => []LibTypeOK
<1>1. LibInit => LibShapes
  <2> SUFFICES ASSUME LibInit
               PROVE  LibShapes
    OBVIOUS
  <2>1. PICK page \in LibPages("all", "none") : items = page.items /\ libCursor = page.cursor
    BY DEF LibInit
  <2>2. items \in Seq(LibImages) /\ libCursor \in LibImages \cup {"none"}
    BY <2>1, LibPageShape
  <2>3. \A s \in LibSlots : AskShape(ask[s])
    BY DEF LibInit, NoAsk, AskShape
  <2> QED
    <3>1. /\ source = "all" /\ itemsFor = {"all"} /\ libTimer = TRUE /\ uploading = FALSE
          /\ openImage = "none" /\ libClicks = 0
      BY DEF LibInit
    <3>2. libClicks \in 0..MaxLibClicks
      BY <3>1, LibAssumption
    <3>3. libTimer \in BOOLEAN /\ uploading \in BOOLEAN
      BY <3>1
    <3> QED
      BY <2>2, <2>3, <3>1, <3>2, <3>3 DEF LibShapes, Sources
<1>2. LibInv /\ LibShapes => LibTypeOK
  BY NamesOfSeq DEF LibInv, LibTyped, LibShapes, LibTypeOK
<1> QED
  BY <1>1, <1>2, LibInvariant, LibShapesStep, PTL DEF LibSpec

(* The content list.  A call keeps the filter and the posts it was begun   *)
(* with, and an answer is a page of posts.                                 *)
CallShape(k) ==
  /\ k.pc \in {"idle", "sent", "headers", "refused", "body", "bulk", "done"}
  /\ k.pc \in {"sent", "headers", "body", "bulk", "done"} => k.filter \in Filters
  /\ k.pc \in {"headers", "body"} =>
       k.page.items \in Seq(ListPosts) /\ k.page.cursor \in ListPosts \cup {"none"}
  /\ k.pc \in {"bulk", "done"} => k.ids \in SUBSET ListPosts

ListShapes ==
  /\ state \in [ListPosts -> {"draft", "approved"}]
  /\ live \subseteq ListPosts /\ selected \subseteq ListPosts
  /\ changes \in 0..MaxChanges /\ clicks \in 0..MaxClicks
  /\ filter \in Filters /\ asked \subseteq Filters
  /\ timer \in BOOLEAN /\ loading \in BOOLEAN
  /\ shown \in Seq(ListPosts) /\ cursor \in ListPosts \cup {"none"}
  /\ \A s \in ListSlots : CallShape(call[s])
  /\ offers \subseteq [ids: SUBSET ListPosts, filter: Filters]
  /\ astray \subseteq {"body", "closure", "refused", "offline", "moved"}

LEMMA PostPageShape ==
  ASSUME NEW f, NEW c, NEW page \in PostPages(f, c)
  PROVE  page.items \in Seq(ListPosts) /\ page.cursor \in ListPosts \cup {"none"}
<1> DEFINE M == {p \in ListPosts : Matches(f, p)}
<1>1. page \in PagesFrom(order, M, c, PageSize) /\ M \in SUBSET ListPosts
  BY DEF PostPages
<1> HIDE DEF M
<1> QED
  BY <1>1, PagesAreOfRows, ListAssumption

LEMMA CallGoesOn ==
  ASSUME ListInv, ListShapes, NEW s \in ListSlots, NEW next,
         call' = [call EXCEPT ![s] = next], CallShape(next)
  PROVE  \A t \in ListSlots : CallShape(call'[t])
<1>1. call'[s] = next /\ \A t \in ListSlots \ {s} : call'[t] = call[t]
  BY DEF ListInv, FilterInv, NewestIsUnderWay
<1> QED
  BY <1>1 DEF ListShapes

LEMMA ListClicks ==
  ASSUME ListShapes, Click
  PROVE  clicks' \in 0..MaxClicks
BY ListAssumption DEF ListShapes, Click

LEMMA ListLoadShape ==
  ASSUME ListInv, ListShapes, NEW s \in ListSlots, NEW f \in Filters, NEW c, StartLoad(s, f, c)
  PROVE  /\ \A t \in ListSlots : CallShape(call'[t])
         /\ astray' \subseteq {"body", "closure", "refused", "offline", "moved"}
         /\ loading' = TRUE
<1> DEFINE next == [pc |-> "sent", filter |-> f, after |-> c]
<1>1. next.pc = "sent" /\ next.filter = f
  OBVIOUS
<1>2. call' = [x \in ListSlots |-> IF x = s THEN next ELSE call[x]]
  BY DEF StartLoad
<1> HIDE DEF next
<1>3. CallShape(next)
  BY <1>1 DEF CallShape
<1>4. \A t \in ListSlots : CallShape(call'[t])
  BY <1>2, <1>3 DEF ListShapes
<1>5. astray' \subseteq {"body", "closure", "refused", "offline", "moved"}
  BY DEF StartLoad, ListShapes
<1> QED
  BY <1>4, <1>5 DEF StartLoad

LEMMA ListStartsKeepShapes ==
  ASSUME ListInv, ListShapes, NEW s \in ListSlots,
         TimerFires(s) \/ LoadMore(s) \/ BulkDone(s)
  PROVE  ListShapes'
<1>1. CASE TimerFires(s)
  <2>1. filter \in Filters /\ StartLoad(s, filter, "none")
    BY <1>1 DEF TimerFires, ListShapes
  <2> QED
    BY <1>1, <2>1, ListLoadShape DEF TimerFires, ListShapes, listDb
<1>2. CASE LoadMore(s)
  <2>1. filter \in Filters /\ StartLoad(s, filter, cursor)
    BY <1>2 DEF LoadMore, ListShapes
  <2>2. clicks' \in 0..MaxClicks
    BY <1>2, ListClicks DEF LoadMore
  <2> QED
    BY <1>2, <2>1, <2>2, ListLoadShape DEF LoadMore, ListShapes, listDb
<1>3. CASE BulkDone(s)
  <2>1. PICK f, ids : f = call[s].filter /\ ids = call[s].ids
    OBVIOUS
  <2>2. f \in Filters /\ ids \in SUBSET ListPosts
    BY <1>3, <2>1 DEF BulkDone, ListShapes, CallShape
  <2>3. StartLoad(s, f, "none")
    BY <1>3, <2>1 DEF BulkDone
  <2>4. [ids |-> ids, filter |-> f] \in [ids: SUBSET ListPosts, filter: Filters]
    BY <2>2
  <2>5. offers' = offers \/ offers' = offers \cup {[ids |-> ids, filter |-> f]}
    BY <1>3, <2>1 DEF BulkDone
  <2>6. offers' \subseteq [ids: SUBSET ListPosts, filter: Filters]
    BY <2>4, <2>5 DEF ListShapes
  <2>7. selected' \subseteq ListPosts
    BY <1>3 DEF BulkDone, ListShapes
  <2> QED
    BY <1>3, <2>2, <2>3, <2>6, <2>7, ListLoadShape DEF BulkDone, ListShapes, listDb
<1> QED
  BY <1>1, <1>2, <1>3

LEMMA ListAnswersKeepShapes ==
  ASSUME ListInv, ListShapes, NEW s \in ListSlots,
         AnswerLoad(s) \/ ReadHeaders(s) \/ ReadBody(s) \/ LoadRejects(s) \/ BulkFails(s)
  PROVE  ListShapes'
<1>1. /\ CallShape(call[s]) /\ CallShape(NoCall) /\ "pc" \in DOMAIN call[s]
  BY DEF ListShapes, CallShape, NoCall, ListInv, FilterInv, NewestIsUnderWay
<1>2. CASE AnswerLoad(s)
  <2>1. PICK f, c : f = call[s].filter /\ c = call[s].after
    OBVIOUS
  <2>2. f \in Filters
    BY <1>1, <1>2, <2>1 DEF AnswerLoad, CallShape
  <2>3. \A t \in ListSlots : CallShape(call'[t])
    <3>1. ASSUME NEW page \in PostPages(f, c),
                 call' = [call EXCEPT ![s] = [pc |-> "headers", filter |-> f,
                                              after |-> c, page |-> page]]
          PROVE  \A t \in ListSlots : CallShape(call'[t])
      <4> DEFINE next == [pc |-> "headers", filter |-> f, after |-> c, page |-> page]
      <4>1. /\ call' = [call EXCEPT ![s] = next]
            /\ next.pc = "headers" /\ next.filter = f /\ next.page = page
        BY <3>1
      <4> HIDE DEF next
      <4>2. CallShape(next)
        BY <2>2, <3>1, <4>1, PostPageShape DEF CallShape
      <4> QED
        BY <4>1, <4>2, CallGoesOn
    <3>2. CASE call' = [call EXCEPT ![s] = [pc |-> "refused"]]
      <4> DEFINE next == [pc |-> "refused"]
      <4>1. call' = [call EXCEPT ![s] = next] /\ next.pc = "refused"
        BY <3>2
      <4> HIDE DEF next
      <4>2. CallShape(next)
        BY <4>1 DEF CallShape
      <4> QED
        BY <4>1, <4>2, CallGoesOn
    <3> QED
      BY <1>2, <2>1, <3>1, <3>2 DEF AnswerLoad
  <2> QED
    BY <1>2, <2>3 DEF AnswerLoad, ListShapes, listDb, listView
<1>3. CASE ReadHeaders(s)
  <2>1. \A t \in ListSlots : CallShape(call'[t])
    <3>1. CASE call' = [call EXCEPT ![s] = NoCall]
      BY <1>1, <3>1, CallGoesOn
    <3>2. CASE call[s].pc = "headers" /\ call' = [call EXCEPT ![s].pc = "body"]
      <4> DEFINE next == [call[s] EXCEPT !.pc = "body"]
      <4>1. /\ call' = [call EXCEPT ![s] = next]
            /\ next.pc = "body" /\ next.filter = call[s].filter /\ next.page = call[s].page
        BY <1>1, <3>2
      <4> HIDE DEF next
      <4>2. CallShape(next)
        BY <1>1, <3>2, <4>1 DEF CallShape
      <4> QED
        BY <4>1, <4>2, CallGoesOn
    <3> QED
      BY <1>3, <3>1, <3>2 DEF ReadHeaders
  <2>2. astray' \subseteq astray \cup {"refused"} /\ loading' \in {loading, FALSE}
    BY <1>3 DEF ReadHeaders
  <2> QED
    BY <1>3, <2>1, <2>2 DEF ReadHeaders, ListShapes, listDb
<1>4. CASE ReadBody(s)
  <2>1. /\ call[s].filter \in Filters /\ call[s].page.items \in Seq(ListPosts)
        /\ call[s].page.cursor \in ListPosts \cup {"none"}
    BY <1>1, <1>4 DEF ReadBody, CallShape
  <2>2. shown \o call[s].page.items \in Seq(ListPosts)
    BY <2>1, ConcatProperties DEF ListShapes
  <2>3. <<>> \o call[s].page.items = call[s].page.items
    BY <2>1, ConcatEmptySeq
  <2>4. shown' \in Seq(ListPosts)
    BY <1>4, <2>1, <2>2, <2>3 DEF ReadBody
  <2>5. asked' \subseteq Filters /\ cursor' \in ListPosts \cup {"none"}
    BY <1>4, <2>1 DEF ReadBody, ListShapes
  <2>6. \A t \in ListSlots : CallShape(call'[t])
    BY <1>1, <1>4, CallGoesOn DEF ReadBody
  <2> QED
    BY <1>4, <2>4, <2>5, <2>6 DEF ReadBody, ListShapes, listDb
<1>5. CASE LoadRejects(s) \/ BulkFails(s)
  <2>1. \A t \in ListSlots : CallShape(call'[t])
    BY <1>1, <1>5, CallGoesOn DEF LoadRejects, BulkFails
  <2>2. astray' \subseteq astray \cup {"offline"}
    BY <1>5 DEF LoadRejects, BulkFails
  <2>3. UNCHANGED <<clicks, listDb, filter, timer, listView, selected, offers>>
    BY <1>5 DEF LoadRejects, BulkFails
  <2> QED
    BY <2>1, <2>2, <2>3 DEF ListShapes, listDb, listView
<1> QED
  BY <1>2, <1>3, <1>4, <1>5

LEMMA ListBulkKeepsShapes ==
  ASSUME ListInv, ListShapes, NEW s \in ListSlots,
         \/ \E a \in {"approve", "delete"} : Bulk(s, a)
         \/ AnswerBulk(s)
         \/ Undo(s)
  PROVE  ListShapes'
<1>1. CallShape(call[s]) /\ "pc" \in DOMAIN call[s]
  BY DEF ListShapes, ListInv, FilterInv, NewestIsUnderWay
<1>2. ASSUME NEW action, NEW ids \in SUBSET ListPosts, NEW f \in Filters,
             call' = [call EXCEPT ![s] =
                        [pc |-> "bulk", action |-> action, ids |-> ids, filter |-> f]]
      PROVE  \A t \in ListSlots : CallShape(call'[t])
  <2> DEFINE next == [pc |-> "bulk", action |-> action, ids |-> ids, filter |-> f]
  <2>1. /\ call' = [call EXCEPT ![s] = next]
        /\ next.pc = "bulk" /\ next.ids = ids /\ next.filter = f
    BY <1>2
  <2> HIDE DEF next
  <2>2. CallShape(next)
    BY <2>1 DEF CallShape
  <2> QED
    BY <2>1, <2>2, CallGoesOn
<1>3. ASSUME NEW a \in {"approve", "delete"}, Bulk(s, a)
      PROVE  ListShapes'
  <2>1. selected \in SUBSET ListPosts /\ filter \in Filters
    BY DEF ListShapes
  <2>2. \A t \in ListSlots : CallShape(call'[t])
    BY <1>2, <1>3, <2>1 DEF Bulk
  <2>3. clicks' \in 0..MaxClicks
    BY <1>3, ListClicks DEF Bulk
  <2> QED
    BY <1>3, <2>2, <2>3 DEF Bulk, ListShapes, listDb, listView
<1>4. CASE AnswerBulk(s)
  <2> DEFINE next == [call[s] EXCEPT !.pc = "done"]
  <2>1. /\ call' = [call EXCEPT ![s] = next] /\ call[s].pc = "bulk"
        /\ next.pc = "done" /\ next.filter = call[s].filter /\ next.ids = call[s].ids
    BY <1>1, <1>4 DEF AnswerBulk
  <2> HIDE DEF next
  <2>2. CallShape(next) /\ call[s].ids \in SUBSET ListPosts
    BY <1>1, <2>1 DEF CallShape
  <2>3. \A t \in ListSlots : CallShape(call'[t])
    BY <2>1, <2>2, CallGoesOn
  <2> DEFINE ids == BulkReaches(call[s].action, call[s].ids)
  <2>4. ids \in SUBSET ListPosts
    BY <2>2 DEF BulkReaches
  <2>5. /\ state' = [p \in ListPosts |->
              IF p \in ids /\ call[s].action = "approve" THEN "approved" ELSE state[p]]
        /\ live' = IF call[s].action = "delete" THEN live \ ids
                   ELSE IF call[s].action = "restore" THEN live \cup ids ELSE live
    BY <1>4 DEF AnswerBulk
  <2> HIDE DEF ids
  <2>6. state' \in [ListPosts -> {"draft", "approved"}] /\ live' \subseteq ListPosts
    BY <2>4, <2>5 DEF ListShapes
  <2> QED
    BY <1>4, <2>3, <2>6 DEF AnswerBulk, ListShapes, listView
<1>5. CASE Undo(s)
  <2>1. PICK o \in offers :
          /\ offers' = offers \ {o}
          /\ call' = [call EXCEPT ![s] =
               [pc |-> "bulk", action |-> "restore", ids |-> o.ids, filter |-> o.filter]]
    BY <1>5 DEF Undo
  <2>2. o.ids \in SUBSET ListPosts /\ o.filter \in Filters
    BY DEF ListShapes
  <2>3. \A t \in ListSlots : CallShape(call'[t])
    BY <1>2, <2>1, <2>2
  <2>4. clicks' \in 0..MaxClicks
    BY <1>5, ListClicks DEF Undo
  <2>5. offers' \subseteq [ids: SUBSET ListPosts, filter: Filters]
    BY <2>1 DEF ListShapes
  <2> QED
    BY <1>5, <2>3, <2>4, <2>5 DEF Undo, ListShapes, listDb, listView
<1> QED
  BY <1>3, <1>4, <1>5

LEMMA ListShapesStep ==
  ListInv /\ ListShapes /\ [ListNext]_listVars => ListShapes'
<1> SUFFICES ASSUME ListInv, ListShapes, [ListNext]_listVars
             PROVE  ListShapes'
  OBVIOUS
<1>1. ASSUME NEW s \in ListSlots,
             \/ TimerFires(s) \/ LoadMore(s) \/ AnswerLoad(s) \/ ReadHeaders(s)
             \/ ReadBody(s) \/ LoadRejects(s)
             \/ \E a \in {"approve", "delete"} : Bulk(s, a)
             \/ AnswerBulk(s) \/ BulkDone(s) \/ BulkFails(s) \/ Undo(s)
      PROVE  ListShapes'
  BY <1>1, ListStartsKeepShapes, ListAnswersKeepShapes, ListBulkKeepsShapes
<1>2. ASSUME NEW f \in Filters, ChangeFilter(f)
      PROVE  ListShapes'
  <2>1. clicks' \in 0..MaxClicks
    BY <1>2, ListClicks DEF ChangeFilter
  <2> QED
    BY <1>2, <2>1 DEF ChangeFilter, ListShapes, listDb, listView
<1>3. ToSet(shown) \subseteq ListPosts
  BY NamesOfSeq DEF ListShapes
<1>4. ASSUME NEW p \in ListPosts, ToggleSelected(p)
      PROVE  ListShapes'
  <2>1. clicks' \in 0..MaxClicks
    BY <1>4, ListClicks DEF ToggleSelected
  <2> QED
    BY <1>4, <2>1 DEF ToggleSelected, ListShapes, listDb, listView
<1>5. CASE ToggleAll \/ ClearSelection
  <2>1. clicks' \in 0..MaxClicks
    BY <1>5, ListClicks DEF ToggleAll, ClearSelection
  <2>2. selected' \subseteq ListPosts
    BY <1>3, <1>5 DEF ToggleAll, ClearSelection
  <2> QED
    BY <1>5, <2>1, <2>2 DEF ToggleAll, ClearSelection, ListShapes, listDb, listView
<1>6. CASE OthersChange
  <2>1. changes' \in 0..MaxChanges
    BY <1>6, ListAssumption DEF OthersChange, ListShapes
  <2>2. /\ state' \in [ListPosts -> {"draft", "approved"}]
        /\ live' \subseteq ListPosts /\ astray' = astray \cup {"moved"}
    BY <1>6 DEF OthersChange, ListShapes
  <2> QED
    BY <1>6, <2>1, <2>2 DEF OthersChange, ListShapes, listView
<1>7. CASE UNCHANGED listVars
  BY <1>7 DEF listVars, ListShapes, listDb, listView
<1> QED
  BY <1>1, <1>2, <1>4, <1>5, <1>6, <1>7 DEF ListNext

LEMMA ListTypesHold == ListSpec => []ListTypeOK
<1>1. ListInit => ListShapes
  <2> SUFFICES ASSUME ListInit
               PROVE  ListShapes
    OBVIOUS
  <2>1. PICK page \in PostPages("all", "none") : shown = page.items /\ cursor = page.cursor
    BY DEF ListInit
  <2>2. shown \in Seq(ListPosts) /\ cursor \in ListPosts \cup {"none"}
    BY <2>1, PostPageShape
  <2>3. \A s \in ListSlots : CallShape(call[s])
    BY DEF ListInit, NoCall, CallShape
  <2>4. /\ live = ListPosts /\ changes = 0 /\ clicks = 0 /\ filter = "all" /\ timer = TRUE
        /\ loading = FALSE /\ selected = {} /\ offers = {} /\ asked = {"all"} /\ astray = {}
        /\ state \in [ListPosts -> {"draft", "approved"}]
    BY DEF ListInit
  <2>5. changes \in 0..MaxChanges /\ clicks \in 0..MaxClicks
    BY <2>4, ListAssumption
  <2>6. timer \in BOOLEAN /\ loading \in BOOLEAN
    BY <2>4
  <2> QED
    BY <2>2, <2>3, <2>4, <2>5, <2>6 DEF ListShapes, Filters
<1>2. ListInv /\ ListShapes => ListTypeOK
  BY DEF ListInv, ListTyped, FilterInv, NewestIsUnderWay, ListShapes, CallShape, ListTypeOK
<1> QED
  BY <1>1, <1>2, ListInvariant, ListShapesStep, PTL DEF ListSpec

(* The composer.  A save holds words that can be posted; what a model      *)
(* answers with is some words, and the quota that is left.                 *)
IsText(x) == x \in Words \cup {""}

AskingShape(a) ==
  /\ a.kind \in Kinds \cup {"none"}
  /\ a.kind \in {"generate", "rewrite"} =>
       /\ a.pc = "sent" => a.count \in 1..2
       /\ a.pc = "ok" => /\ a.made \in SUBSET Words
                         /\ a.remaining \in 0..PostLimit
  /\ a.kind = "image" /\ a.pc = "ok" => a.media \in Images
  /\ a.kind = "save" /\ a.pc # "error" =>
       /\ "pc" \in DOMAIN a
       /\ a.body \in Words /\ a.media \in Seq(Images)

ComposerShapes ==
  /\ IsText(body)
  /\ drafts \subseteq Words
  /\ media \in Seq(Images)
  /\ remaining \in 0..PostLimit
  /\ AskingShape(asking)
  /\ usedPosts \in 0..PostLimit /\ usedImages \in 0..ImageLimit
  /\ posts \subseteq [text: Words, media: Seq(Images)]
  /\ message \in {"none", "saved", "trouble", "both"}

LEMMA ComposerBounds == PostLimit \in Nat /\ ImageLimit \in Nat
<1>1. {MaxImages, PostLimit, ImageLimit, MaxComposerSteps} \subseteq Nat
  BY Zenon, ComposerAssumption
<1> QED
  BY <1>1

LEMMA QuotaLeft ==
  \A used \in 0..PostLimit : \A left : left = PostLimit - used => left \in 0..PostLimit
<1>1. PostLimit \in Nat
  BY ComposerBounds
<1>2. \A used \in 0..PostLimit : PostLimit - used \in 0..PostLimit
  BY <1>1
<1> QED
  BY <1>2, Zenon

LEMMA TextFacts ==
  /\ IsText("")
  /\ \A x \in Words : IsText(x)
  /\ \A x : IsText(x) /\ Valid(x) => x \in Words
BY Zenon DEF IsText, Valid

LEMMA NotAskingShape == AskingShape(NotAsking)
BY DEF AskingShape, NotAsking, Kinds

LEMMA ComposerShapesInit == ComposerInit => ComposerShapes
<1> SUFFICES ASSUME ComposerInit
             PROVE  ComposerShapes
  OBVIOUS
<1>1. /\ body = "" /\ drafts = {} /\ media = <<>>
      /\ usedPosts \in 0..PostLimit /\ usedImages \in 0..ImageLimit
      /\ remaining = PostLimit - usedPosts
      /\ asking = NotAsking /\ posts = {} /\ message = "none"
  BY Zenon DEF ComposerInit
<1>2. IsText(body)
  BY <1>1, TextFacts, Zenon
<1>3. /\ drafts = {} /\ media = <<>>
      /\ usedPosts \in 0..PostLimit /\ usedImages \in 0..ImageLimit
      /\ remaining = PostLimit - usedPosts
      /\ asking = NotAsking /\ posts = {} /\ message = "none"
  BY <1>1, Zenon
<1>4. remaining \in 0..PostLimit
  BY <1>3, ComposerBounds
<1> QED
  BY <1>2, <1>3, <1>4, NotAskingShape DEF ComposerShapes

(* What a filter of an array goes through are indices of it.               *)
LEMMA FilterIndices ==
  ASSUME NEW n \in Nat, NEW S \in SUBSET (1..n), NEW left \in InOrder(S)
  PROVE  Len(left) \in Nat /\ \A i \in 1..Len(left) : left[i] \in S
<1> DEFINE k == Cardinality(S)
<1>1. IsFiniteSet(1..n)
  BY FS_Interval
<1>2. k \in Nat
  BY <1>1, FS_Subset, FS_CardinalityType
<1>3. left \in [1..k -> S]
  BY DEF InOrder
<1> HIDE DEF k
<1> QED
  BY <1>2, <1>3

LEMMA TakenOff ==
  ASSUME NEW q \in Seq(Images), NEW m,
         NEW left \in InOrder({i \in 1..Len(q) : q[i] # m})
  PROVE  [i \in 1..Len(left) |-> q[left[i]]] \in Seq(Images)
<1>1. PICK n \in Nat : n = Len(q)
  OBVIOUS
<1>2. PICK S \in SUBSET (1..n) : S = {i \in 1..Len(q) : q[i] # m}
  BY <1>1
<1>3. Len(left) \in Nat /\ \A i \in 1..Len(left) : left[i] \in S
  BY <1>2, FilterIndices
<1>4. \A i \in 1..n : q[i] \in Images
  BY <1>1
<1>5. PICK k \in Nat : k = Len(left)
  BY <1>3
<1>6. \A i \in 1..k : q[left[i]] \in Images
  BY <1>3, <1>4, <1>5
<1>7. [i \in 1..k |-> q[left[i]]] \in Seq(Images)
  BY <1>6
<1> QED
  BY <1>5, <1>7

LEMMA OtherTabKeepsShapes == ComposerShapes /\ OtherTab => ComposerShapes'
<1> SUFFICES ASSUME ComposerShapes, OtherTab
             PROVE  ComposerShapes'
  OBVIOUS
<1>1. usedPosts < PostLimit /\ usedPosts' = usedPosts + 1 /\ usedPosts \in 0..PostLimit
  BY Zenon DEF OtherTab, ComposerShapes
<1>2. usedPosts' \in 0..PostLimit
  BY <1>1, ComposerBounds
<1> QED
  BY <1>2 DEF OtherTab, ComposerShapes, IsText, AskingShape

(* The fields, the list of drafts, the picker and another tab.             *)
LEMMA FieldsKeepShapes ==
  ASSUME ComposerShapes,
         \/ \E x \in Words \cup {""} : TypeWords(x)
         \/ \E x \in Words : ApplyDraft(x)
         \/ \E m \in Images : PickImage(m)
         \/ OtherTab
  PROVE  ComposerShapes'
<1>1. ASSUME NEW x, IsText(x), TypeWords(x) \/ ApplyDraft(x)
      PROVE  ComposerShapes'
  BY <1>1 DEF TypeWords, ApplyDraft, ComposerShapes, composerServer, IsText
<1>2. ASSUME NEW m \in Images, PickImage(m)
      PROVE  ComposerShapes'
  <2>1. media \in Seq(Images)
    BY DEF ComposerShapes
  <2>2. Append(media, m) \in Seq(Images)
    BY <2>1, AppendProperties
  <2>3. ASSUME NEW left \in InOrder({i \in 1..Len(media) : media[i] # m})
        PROVE  [i \in 1..Len(left) |-> media[left[i]]] \in Seq(Images)
    BY <2>1, <2>3, TakenOff
  <2>4. media' \in Seq(Images)
    BY <1>2, <2>2, <2>3 DEF PickImage
  <2> QED
    BY <1>2, <2>4 DEF PickImage, ComposerShapes, composerServer, IsText
<1>3. CASE OtherTab
  BY <1>3, OtherTabKeepsShapes
<1>4. ASSUME NEW x \in Words \cup {""}, TypeWords(x)
      PROVE  ComposerShapes'
  <2>1. IsText(x)
    BY Zenon DEF IsText
  <2> QED
    BY <1>1, <1>4, <2>1, Zenon
<1>5. ASSUME NEW x \in Words, ApplyDraft(x)
      PROVE  ComposerShapes'
  BY <1>1, <1>5, TextFacts, Zenon
<1> QED
  BY <1>2, <1>3, <1>4, <1>5, Zenon

LEMMA AskingKeepsShapes ==
  ASSUME ComposerShapes, NEW k \in Kinds, AskFor(k)
  PROVE  ComposerShapes'
<1>1. PICK n \in 1..2 : asking' = [kind |-> k, pc |-> "sent", count |-> n,
                                   body |-> body, media |-> media]
  <2>1. 1 \in 1..2
    OBVIOUS
  <2> QED
    BY <2>1, Zenon DEF AskFor
<1>2. k = "save" => body \in Words
  BY TextFacts DEF AskFor, Enabled, CanSave, ComposerShapes
<1>3. /\ asking'.kind = k /\ asking'.pc = "sent" /\ asking'.count = n
      /\ asking'.body = body /\ asking'.media = media /\ "pc" \in DOMAIN asking'
  BY <1>1
<1>4. AskingShape(asking)'
  BY <1>2, <1>3 DEF AskingShape, ComposerShapes
<1>5. /\ message' = "none"
      /\ UNCHANGED <<body, drafts, media, remaining, usedPosts, usedImages, posts>>
  BY Zenon DEF AskFor, composerServer
<1> QED
  BY <1>4, <1>5 DEF ComposerShapes, IsText

(* The server refuses, or answers.                                         *)
LEMMA RefusalShape ==
  ASSUME AskingShape(asking), NEW code, Refuse(code)
  PROVE  AskingShape(asking)'
<1>1. PICK k : k = asking.kind
  OBVIOUS
<1>2. k \in Kinds \cup {"none"}
  BY <1>1 DEF AskingShape
<1>3. asking' = [kind |-> k, pc |-> "error", code |-> code]
  BY <1>1 DEF Refuse
<1>4. asking'.kind = k /\ asking'.pc = "error"
  BY <1>3
<1> QED
  BY <1>2, <1>4 DEF AskingShape

LEMMA ServingKeepsShapes ==
  ASSUME ComposerShapes, ServeText \/ ServeImage
  PROVE  ComposerShapes'
<1>1. PostLimit \in Nat /\ ImageLimit \in Nat /\ AskingShape(asking)
  BY ComposerBounds DEF ComposerShapes
<1>2. CASE ServeText
  <2>1. PICK k : k = asking.kind /\ k \in {"generate", "rewrite"} /\ asking.pc = "sent"
    BY <1>2, Zenon DEF ServeText
  <2>2. UNCHANGED <<body, drafts, media, remaining, usedImages, posts, message>>
    BY <1>2, Zenon DEF ServeText
  <2>3. ASSUME NEW n \in 1..asking.count, NEW made \in (SUBSET Words) \ {{}},
               usedPosts + asking.count <= PostLimit, usedPosts' = usedPosts + n,
               asking' = [kind |-> asking.kind, pc |-> "ok", made |-> made,
                          remaining |-> PostLimit - usedPosts']
        PROVE  usedPosts' \in 0..PostLimit /\ AskingShape(asking)'
    <3>1. asking.count \in 1..2
      BY <1>1, <2>1 DEF AskingShape
    <3>a. PICK c : c = asking.count
      OBVIOUS
    <3>b. usedPosts \in 0..PostLimit
      BY Zenon DEF ComposerShapes
    <3>c. c \in 1..2 /\ n \in 1..c /\ usedPosts + c <= PostLimit /\ usedPosts' = usedPosts + n
      BY <2>3, <3>1, <3>a
    <3>2. usedPosts' \in 0..PostLimit
      BY <1>1, <3>b, <3>c
    <3>3. PICK left : left = PostLimit - usedPosts'
      OBVIOUS
    <3>4. left \in 0..PostLimit
      BY <3>2, <3>3, QuotaLeft
    <3>5. asking' = [kind |-> k, pc |-> "ok", made |-> made, remaining |-> left]
      BY <2>1, <2>3, <3>3
    <3>6. asking'.kind = k /\ asking'.pc = "ok" /\ asking'.made = made /\ asking'.remaining = left
      BY <3>5
    <3> QED
      BY <2>1, <3>2, <3>4, <3>6 DEF AskingShape, Kinds
  <2>4. ASSUME NEW code, Refuse(code), UNCHANGED usedPosts
        PROVE  usedPosts' \in 0..PostLimit /\ AskingShape(asking)'
    BY <1>1, <2>4, RefusalShape DEF ComposerShapes
  <2>5. usedPosts' \in 0..PostLimit /\ AskingShape(asking)'
    BY <1>2, <2>3, <2>4, Zenon DEF ServeText
  <2> QED
    BY <2>2, <2>5 DEF ComposerShapes, IsText
<1>3. CASE ServeImage
  <2>1. UNCHANGED <<body, drafts, media, remaining, usedPosts, posts, message>>
    BY <1>3, Zenon DEF ServeImage
  <2>2. ASSUME NEW m \in Images, usedImages < ImageLimit, usedImages' = usedImages + 1,
               asking' = [kind |-> "image", pc |-> "ok", media |-> m]
        PROVE  usedImages' \in 0..ImageLimit /\ AskingShape(asking)'
    <3>1. asking'.kind = "image" /\ asking'.pc = "ok" /\ asking'.media = m
      BY <2>2
    <3>2. AskingShape(asking)'
      BY <3>1 DEF AskingShape, Kinds
    <3>3. usedImages' \in 0..ImageLimit
      BY <1>1, <2>2 DEF ComposerShapes
    <3> QED
      BY <3>2, <3>3
  <2>3. ASSUME NEW code, Refuse(code), UNCHANGED usedImages
        PROVE  usedImages' \in 0..ImageLimit /\ AskingShape(asking)'
    BY <1>1, <2>3, RefusalShape DEF ComposerShapes
  <2>4. usedImages' \in 0..ImageLimit /\ AskingShape(asking)'
    BY <1>3, <2>2, <2>3, Zenon DEF ServeImage
  <2> QED
    BY <2>1, <2>4 DEF ComposerShapes, IsText
<1> QED
  BY <1>2, <1>3

(* A save that goes on keeps what it was sent with.                        *)
LEMMA SaveGoesOn ==
  ASSUME AskingShape(asking), asking.kind = "save", asking.pc # "error", NEW pc,
         asking' = [asking EXCEPT !.pc = pc], pc # "error", "kind" \in DOMAIN asking,
         {"body", "media"} \subseteq DOMAIN asking
  PROVE  AskingShape(asking)'
<1>1. /\ "pc" \in DOMAIN asking /\ asking.body \in Words /\ asking.media \in Seq(Images)
  BY DEF AskingShape
<1>2. /\ asking'.kind = "save" /\ asking'.pc = pc /\ "pc" \in DOMAIN asking'
      /\ asking'.body = asking.body /\ asking'.media = asking.media
  BY <1>1
<1> QED
  BY <1>1, <1>2 DEF AskingShape, Kinds

LEMMA SavingKeepsShapes ==
  ASSUME SavesNothingElse, ComposerShapes, ServeSave \/ ServeAttach
  PROVE  ComposerShapes'
<1>1. /\ asking.kind = "save" /\ asking.pc \in {"sent", "attach"} /\ AskingShape(asking)
      /\ {"kind", "pc", "body", "media"} \subseteq DOMAIN asking
      /\ asking.body \in Words /\ asking.media \in Seq(Images)
  BY DEF ServeSave, ServeAttach, Asking, SavesNothingElse, ComposerShapes, AskingShape
<1>2. UNCHANGED <<body, drafts, media, remaining, usedPosts, usedImages>>
  BY Zenon DEF ServeSave, ServeAttach
<1>3. ASSUME NEW ms \in Seq(Images)
      PROVE  [text |-> asking.body, media |-> ms] \in [text: Words, media: Seq(Images)]
  BY <1>1
<1>4. CASE ServeSave
  <2>1. message' = message
    BY <1>4, Zenon DEF ServeSave
  <2>2. CASE Refuse("INTERNAL") /\ UNCHANGED posts
    <3>1. AskingShape(asking)'
      BY <1>1, <2>2, RefusalShape
    <3> QED
      BY <1>2, <2>1, <2>2, <3>1 DEF ComposerShapes, IsText
  <2>3. CASE /\ posts' = posts \cup {[text |-> asking.body, media |-> <<>>]}
             /\ asking' = [asking EXCEPT !.pc = IF asking.media = <<>> THEN "saved" ELSE "attach"]
    <3>1. PICK pc : pc = IF asking.media = <<>> THEN "saved" ELSE "attach"
      OBVIOUS
    <3>2. AskingShape(asking)'
      BY <1>1, <2>3, <3>1, SaveGoesOn
    <3>3. <<>> \in Seq(Images)
      OBVIOUS
    <3>4. posts' \subseteq [text: Words, media: Seq(Images)]
      BY <1>3, <2>3, <3>3 DEF ComposerShapes
    <3> QED
      BY <1>2, <2>1, <3>2, <3>4 DEF ComposerShapes, IsText
  <2> QED
    BY <1>4, <2>2, <2>3, Zenon DEF ServeSave
<1>5. CASE ServeAttach
  <2>1. asking' = [asking EXCEPT !.pc = "heard"] /\ message' \in {message, "trouble"}
    BY <1>5 DEF ServeAttach
  <2>2. AskingShape(asking)'
    BY <1>1, <2>1, SaveGoesOn
  <2>3. posts' \subseteq posts \cup {[text |-> asking.body, media |-> asking.media]}
    BY <1>5 DEF ServeAttach, ClickedMedia
  <2>4. posts' \subseteq [text: Words, media: Seq(Images)]
    BY <1>1, <1>3, <2>3 DEF ComposerShapes
  <2> QED
    BY <1>2, <2>1, <2>2, <2>4 DEF ComposerShapes, IsText
<1> QED
  BY <1>4, <1>5

(* The page hears.                                                         *)
LEMMA HearingKeepsShapes ==
  ASSUME ComposerShapes, HearText \/ HearImage \/ HearSaved \/ HearError \/ AnswerIsLost
  PROVE  ComposerShapes'
<1>1. /\ asking' = NotAsking /\ AskingShape(asking)
      /\ UNCHANGED <<usedPosts, usedImages, posts>>
  BY Zenon DEF HearText, HearImage, HearSaved, HearError, AnswerIsLost, composerServer,
               ComposerShapes
<1>2. AskingShape(asking)'
  BY <1>1, NotAskingShape, Zenon
<1>3. CASE HearText
  <2>1. /\ asking.made \in SUBSET Words /\ asking.remaining \in 0..PostLimit
    BY <1>1, <1>3 DEF HearText, AskingShape
  <2>2. PICK first \in asking.made : body' = first
    BY <1>3, Zenon DEF HearText
  <2>3. IsText(body')
    BY <2>1, <2>2, TextFacts, Zenon
  <2>4. remaining' \in 0..PostLimit /\ drafts' \subseteq Words /\ UNCHANGED <<media, message>>
    BY <1>3, <2>1 DEF HearText, ComposerShapes
  <2> QED
    BY <1>1, <1>2, <2>3, <2>4 DEF ComposerShapes, IsText
<1>4. CASE HearImage
  <2>1. asking.media \in Images /\ media \in Seq(Images)
    BY <1>1, <1>4 DEF HearImage, Asking, AskingShape, ComposerShapes
  <2>2. media' \in Seq(Images)
    BY <1>4, <2>1, AppendProperties DEF HearImage
  <2> QED
    BY <1>1, <1>2, <1>4, <2>2 DEF HearImage, ComposerShapes, IsText
<1>5. CASE HearSaved \/ AnswerIsLost
  <2>1. message' \in {"both", "saved", "trouble"} /\ UNCHANGED <<body, drafts, media, remaining>>
    BY <1>5 DEF HearSaved, AnswerIsLost
  <2> QED
    BY <1>1, <1>2, <2>1 DEF ComposerShapes, IsText
<1>6. CASE HearError
  <2>1. /\ message' = "trouble" /\ UNCHANGED <<body, drafts, media>>
        /\ remaining' = 0 \/ remaining' = remaining
    BY <1>6 DEF HearError
  <2>2. remaining' \in 0..PostLimit
    BY <2>1, ComposerBounds DEF ComposerShapes
  <2> QED
    BY <1>1, <1>2, <2>1, <2>2 DEF ComposerShapes, IsText
<1> QED
  BY <1>3, <1>4, <1>5, <1>6

LEMMA ComposerShapesStep ==
  SavesNothingElse /\ ComposerShapes /\ [ComposerNext]_composerVars => ComposerShapes'
<1> SUFFICES ASSUME SavesNothingElse, ComposerShapes, [ComposerNext]_composerVars
             PROVE  ComposerShapes'
  OBVIOUS
<1>1. CASE UNCHANGED composerVars
  BY <1>1 DEF composerVars, ComposerShapes, IsText, AskingShape
<1> QED
  BY <1>1, FieldsKeepShapes, AskingKeepsShapes, ServingKeepsShapes, SavingKeepsShapes,
     HearingKeepsShapes, Zenon DEF ComposerNext

LEMMA ComposerTypesHold == ComposerSpec => []ComposerTypeOK
<1>1. ComposerInit => SavesNothingElse
  <2>1. ComposerInit => asking = NotAsking
    BY Zenon DEF ComposerInit
  <2> QED
    BY <2>1 DEF SavesNothingElse, NotAsking
<1>2. SavesNothingElse /\ [ComposerNext]_composerVars => SavesNothingElse'
  BY ComposerStepInv
<1>3. ComposerShapes => ComposerTypeOK
  BY Zenon DEF ComposerShapes, AskingShape, IsText, ComposerTypeOK
<1> QED
  BY <1>1, <1>2, <1>3, ComposerShapesInit, ComposerShapesStep, PTL DEF ComposerSpec
=============================================================================
