---------------------------- MODULE MediaLibrary ----------------------------
(***************************************************************************)
(* The media library (media-library.tsx), which is also the picker's grid: *)
(* its filter and pages, the uploads, and the sheet of one image with its  *)
(* alt text and its delete button.  Unlike the content list, a load is not *)
(* numbered: whichever answers last is shown.                              *)
(***************************************************************************)
EXTENDS Naturals, SequencesExt, Paging

CONSTANTS
  LibImages,   \* every image there will be
  AiImages,    \* those with the source "ai"
  LibSlots,    \* bound: requests under way at once
  LibPage,     \* images a page holds
  MaxLibClicks \* bound: what the member does

ASSUME LibAssumption ==
  /\ IsFiniteSet(LibImages) /\ "none" \notin LibImages /\ AiImages \subseteq LibImages
  /\ LibPage \in Nat \ {0} /\ MaxLibClicks \in Nat

Sources == {"all", "ai"}

VARIABLES
  library,    \* the workspace's images, newest first, deleted ones included
  kept,       \* those whose deletedAt is null
  source, libTimer,               \* the filter and its pending load
  items, libCursor, uploading, openImage,
  ask,        \* requests, for each slot
  libClicks,
  itemsFor,   \* history: the filters of the pages in items
  libAstray   \* history

libDb == <<library, kept>>
libView == <<items, libCursor, itemsFor>>
libVars == <<libDb, source, libTimer, libView, uploading, openImage, ask, libClicks, libAstray>>

NoAsk == [pc |-> "idle"]
LibClick == libClicks < MaxLibClicks /\ libClicks' = libClicks + 1

(* listMedia: ready images of the source, newest first.                    *)
LibMatches(f, m) == m \in kept /\ (f = "all" \/ m \in AiImages)
LibPages(f, c) == PagesFrom(library, {m \in LibImages : LibMatches(f, m)}, c, LibPage)

LibInit ==
  /\ \E ms \in SUBSET LibImages : kept = ms /\ library \in SetToSeqs(ms)
  /\ source = "all" /\ libTimer = TRUE
  /\ \E page \in LibPages("all", "none") : items = page.items /\ libCursor = page.cursor
  /\ uploading = FALSE /\ openImage = "none"
  /\ ask = [s \in LibSlots |-> NoAsk]
  /\ libClicks = 0
  /\ itemsFor = {"all"}
  /\ libAstray = {}

-----------------------------------------------------------------------------
(* load(): history notes when two cross, or when it was started by a       *)
(* closure older than the filter.                                          *)
LibLoad(s, f, c) ==
  /\ ask' = [ask EXCEPT ![s] = [pc |-> "load", filter |-> f, after |-> c]]
  /\ libAstray' = libAstray
       \cup (IF \E u \in LibSlots \ {s} : ask[u].pc \in {"load", "page"} THEN {"crossed"} ELSE {})
       \cup (IF f # source /\ ~libTimer THEN {"closure"} ELSE {})

ChooseSource(f) ==
  /\ f # source
  /\ LibClick
  /\ source' = f
  /\ libTimer' = TRUE
  /\ UNCHANGED <<libDb, libView, uploading, openImage, ask, libAstray>>

LibTimerFires(s) ==
  /\ libTimer /\ ask[s] = NoAsk
  /\ libTimer' = FALSE
  /\ LibLoad(s, source, "none")
  /\ UNCHANGED <<libDb, source, libView, uploading, openImage, libClicks>>

(* "Load more", which nothing disables.                                    *)
MoreImages(s) ==
  /\ libCursor # "none" /\ ask[s] = NoAsk
  /\ LibClick
  /\ LibLoad(s, source, libCursor)
  /\ UNCHANGED <<libDb, source, libTimer, libView, uploading, openImage>>

(* What the database has is what a first page brings: a deletion the page  *)
(* has not heard of is made good by it.                                    *)
LibServe(s) ==
  /\ ask[s].pc = "load"
  /\ \E page \in LibPages(ask[s].filter, ask[s].after) :
       ask' = [ask EXCEPT ![s] = [pc |-> "page", filter |-> @.filter,
                                  after |-> @.after, page |-> page]]
  /\ libAstray' = IF ask[s].after = "none" THEN libAstray \ {"unheard"} ELSE libAstray
  /\ UNCHANGED <<libDb, source, libTimer, libView, uploading, openImage, libClicks>>

LibFails(s) ==
  /\ ask[s].pc = "load"
  /\ ask' = [ask EXCEPT ![s] = NoAsk]
  /\ libAstray' = libAstray \cup {"failed"}
  /\ UNCHANGED <<libDb, source, libTimer, libView, uploading, openImage, libClicks>>

AppendAlways(s) == items \o ask[s].page.items
ItemsAfter(s) ==
  (IF ask[s].after = "none" THEN <<>> ELSE items) \o ask[s].page.items

LibPageHeard(s) ==
  /\ ask[s].pc = "page"
  /\ items' = ItemsAfter(s)
  /\ itemsFor' = (IF ask[s].after = "none" THEN {} ELSE itemsFor) \cup {ask[s].filter}
  /\ libCursor' = ask[s].page.cursor
  /\ ask' = [ask EXCEPT ![s] = NoAsk]
  /\ UNCHANGED <<libDb, source, libTimer, uploading, openImage, libClicks, libAstray>>

-----------------------------------------------------------------------------
(* The files chosen go up one after the other; then the list is loaded     *)
(* with the filter of the click.                                           *)
Upload(s, n) ==
  /\ ~uploading /\ ask[s] = NoAsk
  /\ LibClick
  /\ uploading' = TRUE
  /\ ask' = [ask EXCEPT ![s] = [pc |-> "upload", files |-> n, filter |-> source]]
  /\ UNCHANGED <<libDb, source, libTimer, libView, openImage, libAstray>>

(* A file is stored, or refused: not an image, too large.                  *)
FileArrives ==
  \/ \E m \in LibImages \ ToSet(library) :
       library' = <<m>> \o library /\ kept' = kept \cup {m}
  \/ UNCHANGED libDb

UploadOne(s) ==
  /\ ask[s].pc = "upload" /\ ask[s].files > 0
  /\ FileArrives
  /\ ask' = [ask EXCEPT ![s].files = @ - 1]
  /\ UNCHANGED <<source, libTimer, libView, uploading, openImage, libClicks, libAstray>>

UploadDone(s) ==
  /\ ask[s].pc = "upload" /\ ask[s].files = 0
  /\ uploading' = FALSE
  /\ LibLoad(s, ask[s].filter, "none")
  /\ UNCHANGED <<libDb, source, libTimer, libView, openImage, libClicks>>

(* fetch rejects in the middle, whether or not the file has arrived: the   *)
(* loop ends without its last lines.                                       *)
UploadRejects(s) ==
  /\ ask[s].pc = "upload" /\ ask[s].files > 0
  /\ FileArrives
  /\ ask' = [ask EXCEPT ![s] = NoAsk]
  /\ libAstray' = libAstray \cup {"offline"}
  /\ UNCHANGED <<source, libTimer, libView, uploading, openImage, libClicks>>

-----------------------------------------------------------------------------
OpenImage(m) ==
  /\ m \in ToSet(items) /\ openImage = "none"
  /\ LibClick
  /\ openImage' = m
  /\ UNCHANGED <<libDb, source, libTimer, libView, uploading, ask, libAstray>>

CloseImage ==
  /\ openImage # "none"
  /\ openImage' = "none"
  /\ UNCHANGED <<libDb, source, libTimer, libView, uploading, ask, libClicks, libAstray>>

(* Leaving the alt text field sends it; clicking "Delete" is one way of    *)
(* leaving it, so that both requests are then under way.                   *)
Change(s, what) ==
  /\ openImage # "none" /\ ask[s] = NoAsk
  /\ LibClick
  /\ ask' = [ask EXCEPT ![s] = [pc |-> what, image |-> openImage, filter |-> source]]
  /\ UNCHANGED <<libDb, source, libTimer, libView, uploading, openImage, libAstray>>

ServeChange(s) ==
  /\ ask[s].pc \in {"alt", "delete"}
  /\ \/ /\ ask[s].image \in kept
        /\ kept' = IF ask[s].pc = "delete" THEN kept \ {ask[s].image} ELSE kept
        /\ ask' = [ask EXCEPT ![s].pc = IF @ = "delete" THEN "deleteDone" ELSE "altDone"]
     \/ /\ ask' = [ask EXCEPT ![s] = NoAsk]    \* refused: gone, in use
        /\ UNCHANGED kept
  /\ UNCHANGED <<library, source, libTimer, libView, uploading, openImage, libClicks, libAstray>>

(* After the alt text is saved the sheet shows that image, after a delete  *)
(* none, whichever is open by then.                                        *)
AltSaved(s) ==
  /\ ask[s].pc = "altDone"
  /\ openImage' = ask[s].image
  /\ ask' = [ask EXCEPT ![s] = NoAsk]
  /\ UNCHANGED <<libDb, source, libTimer, libView, uploading, libClicks, libAstray>>

Deleted(s) ==
  /\ ask[s].pc = "deleteDone"
  /\ openImage' = "none"
  /\ LibLoad(s, ask[s].filter, "none")
  /\ UNCHANGED <<libDb, source, libTimer, libView, uploading, libClicks>>

(* What the server did is answered with an error, for what failed after    *)
(* the image was gone (media.ts:267), or the answer is lost: the page says *)
(* so and loads nothing.                                                   *)
ChangeUnheard(s) ==
  /\ ask[s].pc \in {"altDone", "deleteDone"}
  /\ libAstray' = IF ask[s].pc = "deleteDone" THEN libAstray \cup {"unheard"} ELSE libAstray
  /\ ask' = [ask EXCEPT ![s] = NoAsk]
  /\ UNCHANGED <<libDb, source, libTimer, libView, uploading, openImage, libClicks>>

LibNext ==
  \/ \E f \in Sources : ChooseSource(f)
  \/ \E s \in LibSlots :
       \/ LibTimerFires(s) \/ MoreImages(s) \/ LibServe(s) \/ LibFails(s) \/ LibPageHeard(s)
       \/ \E n \in 1..2 : Upload(s, n)
       \/ UploadOne(s) \/ UploadDone(s) \/ UploadRejects(s)
       \/ \E w \in {"alt", "delete"} : Change(s, w)
       \/ ServeChange(s) \/ AltSaved(s) \/ Deleted(s) \/ ChangeUnheard(s)
  \/ \E m \in LibImages : OpenImage(m)
  \/ CloseImage

LibSpec == LibInit /\ [][LibNext]_libVars

-----------------------------------------------------------------------------
LibTypeOK ==
  /\ kept \subseteq LibImages /\ ToSet(library) \subseteq LibImages
  /\ source \in Sources /\ itemsFor \subseteq Sources
  /\ libTimer \in BOOLEAN /\ uploading \in BOOLEAN
  /\ ToSet(items) \subseteq LibImages
  /\ libCursor \in LibImages \cup {"none"} /\ openImage \in LibImages \cup {"none"}
  /\ libClicks \in 0..MaxLibClicks

LibQuiet == ~libTimer /\ \A s \in LibSlots : ask[s] = NoAsk

(* Once nothing is under way the grid is the answer for the filter on the  *)
(* screen, uploads and deletions of this page included, each image once    *)
(* (media-library.tsx:71) - unless two loads crossed, which nothing        *)
(* orders, one failed, one was begun by a closure older than the filter,   *)
(* or an upload was cut off; or while the first page has not been loaded   *)
(* since an image was deleted and the page heard of an error instead.      *)
GridIsForSource ==
  LibQuiet /\ libAstray \cap {"crossed", "failed", "closure", "offline", "unheard"} = {}
    => /\ itemsFor = {source}
       /\ Cardinality(ToSet(items)) = Len(items)
       /\ libCursor = "none" => ToSet(items) = {m \in kept : LibMatches(source, m)}
=============================================================================
