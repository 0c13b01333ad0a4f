----------------------------- MODULE PostSheet -----------------------------
(***************************************************************************)
(* The sheet a post opens in (components/app/content/post-sheet.tsx): its  *)
(* copy of the text and of the status, the edits typed into that copy, and *)
(* the requests whose answers change it.  A text stands for body, hashtags *)
(* and call to action; writing it to the post trims it and takes '#' and   *)
(* blanks out of its hashtags, and the sheet is not told.  A request has   *)
(* run on the server some time before its answer is applied; the sheet may *)
(* be closed and opened meanwhile.                                         *)
(***************************************************************************)
EXTENDS Naturals

CONSTANTS
  SheetTexts,
  AsSaved,         \* what updatePost makes of a text that was typed
  MaxSheetClicks   \* bound: what the member does in the sheet

ASSUME SheetAssumption ==
  MaxSheetClicks \in Nat /\ AsSaved \in [SheetTexts -> SheetTexts]

PostTexts == {AsSaved[x] : x \in SheetTexts}

SheetStatuses == {"draft", "ai_generated", "pending_review", "approved"}
SheetKinds == {"save", "approve", "duplicate", "regenerate", "delete",
               "revisions", "restore", "undo"}

VARIABLES
  row,        \* the post: text, status, live
  past,       \* its revisions
  listCopy,   \* the post in the list behind the sheet, which opens with it
  reloading,  \* the list is being loaded again
  sheet,      \* open, editing, body, status, busy, revisions
  sent,       \* requests under way: kind, text, pc, and whether the sheet
              \* that sent it is still the one on the screen
  undoOffer,  \* the toast after a delete
  sheetClicks,
  sheetAstray \* history: why sheet and post may differ

sheetList == <<listCopy, reloading>>
sheetVars == <<row, past, sheetList, sheet, sent, undoOffer, sheetClicks, sheetAstray>>

SheetClick == sheetClicks < MaxSheetClicks /\ sheetClicks' = sheetClicks + 1

(* Opening mounts a fresh editor with the words the list has of the post;  *)
(* closing drops it.                                                       *)
Mounted(r) == [open |-> TRUE, editing |-> FALSE, body |-> r.text,
               status |-> r.status, busy |-> "none", revisions |-> {}]

SheetInit ==
  /\ row \in [text: PostTexts, status: SheetStatuses, live: {TRUE}]
  /\ past = {}
  /\ listCopy = row /\ reloading = FALSE
  /\ sheet = Mounted(row)
  /\ sent = {}
  /\ undoOffer = FALSE
  /\ sheetClicks = 0
  /\ sheetAstray = {}

-----------------------------------------------------------------------------
(* The buttons.  All but "Edit" and "Cancel" wait for the request under    *)
(* way, and approving is for a post that is not approved.                  *)
Ready(kind) ==
  /\ sheet.open
  /\ kind = "save" => sheet.editing
  /\ kind = "approve" => sheet.status # "approved"
  /\ kind = "restore" => sheet.revisions # {}
  /\ sheet.busy = "none"

Send(kind) ==
  /\ Ready(kind)
  /\ SheetClick
  /\ \E x \in IF kind = "save" THEN {sheet.body}
              ELSE IF kind = "restore" THEN sheet.revisions
              ELSE SheetTexts :    \* what the model will write
       sent' = sent \cup {[kind |-> kind, text |-> x, pc |-> "sent", mine |-> TRUE]}
  /\ sheet' = [sheet EXCEPT !.busy = kind]
  /\ UNCHANGED <<row, past, sheetList, undoOffer, sheetAstray>>

StartEdit ==
  /\ sheet.open /\ ~sheet.editing
  /\ SheetClick
  /\ sheet' = [sheet EXCEPT !.editing = TRUE]
  /\ UNCHANGED <<row, past, sheetList, sent, undoOffer, sheetAstray>>

(* The fields stay open while a save is under way: its answer then shows   *)
(* what was typed since as if it had been saved.                           *)
Type(x) ==
  /\ sheet.open /\ sheet.editing /\ x # sheet.body
  /\ SheetClick
  /\ sheet' = [sheet EXCEPT !.body = x]
  /\ sheetAstray' = IF sheet.busy = "save" THEN sheetAstray \cup {"typed"} ELSE sheetAstray
  /\ UNCHANGED <<row, past, sheetList, sent, undoOffer>>

(* The fields read as the post does, or as it would once they are saved.   *)
SameWords(body, text) == text \in {body, AsSaved[body]}

(* "Cancel" leaves the fields as they are.                                 *)
CancelEdit ==
  /\ sheet.open /\ sheet.editing
  /\ SheetClick
  /\ sheet' = [sheet EXCEPT !.editing = FALSE]
  /\ sheetAstray' = IF ~SameWords(sheet.body, row.text) \/ sent # {}
                    THEN sheetAstray \cup {"cancelled"} ELSE sheetAstray
  /\ UNCHANGED <<row, past, sheetList, sent, undoOffer>>

CloseSheet ==
  /\ sheet.open
  /\ SheetClick
  /\ sheet' = [sheet EXCEPT !.open = FALSE]
  /\ sent' = {[c EXCEPT !.mine = FALSE] : c \in sent}
  /\ UNCHANGED <<row, past, sheetList, undoOffer, sheetAstray>>

OpenSheet ==
  /\ ~sheet.open /\ listCopy.live
  /\ SheetClick
  /\ sheet' = Mounted(listCopy)
  /\ sheetAstray' = (sheetAstray \ {"cancelled", "typed"})
                      \cup (IF sent # {} \/ reloading THEN {"early"} ELSE {})
  /\ UNCHANGED <<row, past, sheetList, sent, undoOffer>>

(* The list asks again after every change that it hears of; behind a       *)
(* closed sheet, what had gone wrong is thereby made good.                 *)
ListReloads ==
  /\ reloading
  /\ reloading' = FALSE
  /\ \/ /\ listCopy' = row
        /\ sheetAstray' = IF sheet.open \/ sent # {} THEN sheetAstray ELSE {}
     \/ /\ sheetAstray' = sheetAstray \cup {"lost"}
        /\ UNCHANGED listCopy
  /\ UNCHANGED <<row, past, sheet, sent, undoOffer, sheetClicks>>

(* The undo of the toast, outside the sheet's busy.                        *)
UndoDelete ==
  /\ undoOffer
  /\ SheetClick
  /\ undoOffer' = FALSE
  /\ sent' = sent \cup {[kind |-> "undo", text |-> row.text, pc |-> "sent", mine |-> FALSE]}
  /\ UNCHANGED <<row, past, sheetList, sheet, sheetAstray>>

-----------------------------------------------------------------------------
(* statusAfterEdit.                                                        *)
EditedStatus(status) ==
  IF status \in {"approved", "ai_generated"} THEN "pending_review" ELSE status

(* What a request does to the post.  Only updatePost writes a text.        *)
Rewrites(c) == c.kind \in {"save", "regenerate", "restore"}

RowAfter(c) ==
  CASE Rewrites(c) ->
         [row EXCEPT !.text = AsSaved[c.text], !.status = EditedStatus(row.status)]
    [] c.kind = "approve" -> [row EXCEPT !.status = "approved"]
    [] c.kind = "delete"  -> [row EXCEPT !.live = FALSE]
    [] c.kind = "undo"    -> [row EXCEPT !.live = TRUE]
    [] OTHER -> row

(* The request runs, answers what the post is now; or it is refused, the   *)
(* post being gone or the service failing; or the connection is lost.      *)
ServerRuns(c) ==
  /\ c.pc = "sent"
  /\ \/ /\ row.live \/ c.kind = "undo"
        /\ row' = RowAfter(c)
        /\ past' = IF Rewrites(c) /\ AsSaved[c.text] # row.text
                   THEN past \cup {row.text} ELSE past
        /\ sent' = (sent \ {c}) \cup {[kind |-> c.kind, pc |-> "ok", mine |-> c.mine,
                                       text |-> row'.text, status |-> row'.status,
                                       revisions |-> past]}
     \/ /\ sent' = (sent \ {c}) \cup {[c EXCEPT !.pc = "error"]}
        /\ UNCHANGED <<row, past>>
  /\ UNCHANGED <<sheetList, sheet, undoOffer, sheetClicks, sheetAstray>>

(* What an answer does to the sheet that asked.  Another sheet's changes   *)
(* nothing, but a delete closes whichever sheet is open: onOpenChange is   *)
(* the list's.                                                             *)
RegenerateKeepsBody(c, s) ==
  IF c.kind \in {"regenerate", "approve"} THEN [s EXCEPT !.status = c.status] ELSE s

SheetAfter(c, s) ==
  CASE c.kind = "save" -> [s EXCEPT !.editing = FALSE, !.status = c.status]
    [] c.kind = "approve" -> [s EXCEPT !.status = c.status]
    [] c.kind = "regenerate" -> [s EXCEPT !.body = c.text, !.status = c.status]
    [] c.kind = "restore" ->
         [s EXCEPT !.body = c.text, !.status = c.status, !.revisions = {}]
    [] c.kind = "delete" -> [s EXCEPT !.open = FALSE]
    [] c.kind = "revisions" -> [s EXCEPT !.revisions = c.revisions]
    [] OTHER -> s

Answer(c) ==
  /\ c.pc \in {"ok", "error"}
  /\ sent' = (IF c.pc = "ok" /\ c.kind = "delete"
              THEN {[d EXCEPT !.mine = FALSE] : d \in sent \ {c}} ELSE sent \ {c})
  /\ sheet' = LET s == IF c.mine THEN [sheet EXCEPT !.busy = "none"] ELSE sheet
              IN IF c.pc = "ok" /\ (c.mine \/ c.kind = "delete") THEN SheetAfter(c, s) ELSE s
  /\ undoOffer' = (undoOffer \/ (c.pc = "ok" /\ c.kind = "delete"))
  /\ reloading' = (reloading \/ (c.pc = "ok" /\ c.kind # "revisions"))
  /\ UNCHANGED <<row, past, listCopy, sheetClicks, sheetAstray>>

(* The answer is lost: apiPost says the network failed, the post changed.  *)
AnswerLost(c) ==
  /\ c.pc = "ok"
  /\ sent' = (sent \ {c}) \cup {[kind |-> c.kind, text |-> c.text, pc |-> "error", mine |-> c.mine]}
  /\ sheetAstray' = sheetAstray \cup {"lost"}
  /\ UNCHANGED <<row, past, sheetList, sheet, undoOffer, sheetClicks>>

(* Another member edits or approves the post.                              *)
OthersEdit ==
  /\ row.live /\ sheetAstray = {}
  /\ \E x \in PostTexts, st \in {"pending_review", "approved"} :
       row' = [row EXCEPT !.text = x, !.status = st]
  /\ sheetAstray' = sheetAstray \cup {"others"}
  /\ UNCHANGED <<past, sheetList, sheet, sent, undoOffer, sheetClicks>>

SheetNext ==
  \/ \E k \in SheetKinds \ {"undo"} : Send(k)
  \/ StartEdit
  \/ \E x \in SheetTexts : Type(x)
  \/ CancelEdit
  \/ CloseSheet
  \/ OpenSheet
  \/ ListReloads
  \/ UndoDelete
  \/ \E c \in sent : ServerRuns(c) \/ Answer(c) \/ AnswerLost(c)
  \/ OthersEdit

SheetSpec == SheetInit /\ [][SheetNext]_sheetVars

-----------------------------------------------------------------------------
SheetTypeOK ==
  /\ row \in [text: PostTexts, status: SheetStatuses, live: BOOLEAN]
  /\ past \subseteq PostTexts
  /\ listCopy \in [text: PostTexts, status: SheetStatuses, live: BOOLEAN]
  /\ reloading \in BOOLEAN
  /\ sheet \in [open: BOOLEAN, editing: BOOLEAN, body: SheetTexts,
                status: SheetStatuses, busy: SheetKinds \cup {"none"},
                revisions: SUBSET PostTexts]
  /\ undoOffer \in BOOLEAN
  /\ sheetClicks \in 0..MaxSheetClicks
  /\ sheetAstray \subseteq {"typed", "cancelled", "lost", "others", "early"}

(* The preview shows the words the post has (post-sheet.tsx:276): what is  *)
(* approved with the button under it is what was read, unless the member   *)
(* typed during a save or cancelled an edit, an answer was lost, another   *)
(* member wrote, or the sheet was opened before the list had reloaded.     *)
(* After a save they may be as the member wrote them rather than as they   *)
(* were stored: a hashtag typed '#sale' is previewed as '##sale'.          *)
PreviewIsThePost ==
  sheet.open /\ sent = {} /\ ~sheet.editing /\ sheetAstray = {}
    => SameWords(sheet.body, row.text)
=============================================================================
