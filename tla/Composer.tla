------------------------------ MODULE Composer ------------------------------
(***************************************************************************)
(* The page posts are written on (composer.tsx, media-picker.tsx): the     *)
(* words and images on the screen, the meter of AI posts, and the four     *)
(* requests - generate, rewrite, make an image, save - of which busy lets  *)
(* one be under way at a time.  The fields and the picker stay open        *)
(* meanwhile.  A text stands for body, hashtags and call to action.        *)
(***************************************************************************)
EXTENDS Naturals, Sequences, Paging

CONSTANTS
  Words,          \* texts, the empty one apart
  Rejected,       \* those beyond Facebook's limits
  Images,         \* the media library
  MaxImages,      \* MAX_IMAGES of the picker, MAX_MEDIA_PER_POST of the server
  PostLimit, ImageLimit,    \* the plan's allowances
  MaxComposerSteps          \* bound: what the member does on the page

ASSUME ComposerAssumption ==
  /\ {MaxImages, PostLimit, ImageLimit, MaxComposerSteps} \subseteq Nat
  /\ Rejected \subseteq Words /\ "" \notin Words

Kinds == {"generate", "rewrite", "image", "save"}

VARIABLES
  body, drafts, media, remaining,  \* the page's state
  asking,     \* the request busy stands for, with what it was sent
  usedPosts, usedImages,           \* the server's counters
  posts,      \* the posts saved
  message,    \* the toasts of the last request: "none", "saved", "trouble", "both"
  composerSteps

composerServer == <<usedPosts, usedImages, posts>>
composerVars == <<body, drafts, media, remaining, asking, usedPosts, usedImages,
                  posts, message, composerSteps>>

NotAsking == [kind |-> "none"]
Asking(kind) == asking.kind = kind
ComposerStep == composerSteps < MaxComposerSteps /\ composerSteps' = composerSteps + 1

ComposerInit ==
  /\ body = "" /\ drafts = {} /\ media = <<>>
  /\ usedPosts \in 0..PostLimit /\ usedImages \in 0..ImageLimit
  /\ remaining = PostLimit - usedPosts
  /\ asking = NotAsking
  /\ posts = {}
  /\ message = "none"
  /\ composerSteps = 0

-----------------------------------------------------------------------------
(* The fields, a draft chosen from the list, the picker.                   *)
TypeWords(x) ==
  /\ x # body
  /\ ComposerStep
  /\ body' = x
  /\ UNCHANGED <<drafts, media, remaining, asking, composerServer, message>>

ApplyDraft(x) ==
  /\ x \in drafts
  /\ ComposerStep
  /\ body' = x
  /\ UNCHANGED <<drafts, media, remaining, asking, composerServer, message>>

Attached == {media[i] : i \in 1..Len(media)}

(* The picker stops at its cap; taking an image off is always possible.    *)
PickImage(m) ==
  /\ ComposerStep
  /\ \/ /\ m \in Attached
        /\ \E kept \in InOrder({i \in 1..Len(media) : media[i] # m}) :
             media' = [i \in 1..Len(kept) |-> media[kept[i]]]
     \/ /\ m \notin Attached /\ Len(media) < MaxImages
        /\ media' = Append(media, m)
  /\ UNCHANGED <<body, drafts, remaining, asking, composerServer, message>>

(* validatePost, on the page as on the server.                             *)
Valid(x) == x # "" /\ x \notin Rejected

(* The buttons: nothing is under way; a text that can be posted, or some of*)
(* the allowance (canUseAi) and, but for "Write", words to work on.        *)
CanSave == asking = NotAsking /\ Valid(body)
CanUseAi(kind) == asking = NotAsking /\ remaining > 0 /\ (kind # "generate" => body # "")
Enabled(kind) == IF kind = "save" THEN CanSave ELSE CanUseAi(kind)

AskFor(kind) ==
  /\ Enabled(kind)
  /\ ComposerStep
  /\ \E n \in IF kind = "generate" THEN 1..2 ELSE {1} :
       asking' = [kind |-> kind, pc |-> "sent", count |-> n, body |-> body, media |-> media]
  /\ message' = "none"
  /\ UNCHANGED <<body, drafts, media, remaining, composerServer>>

-----------------------------------------------------------------------------
(* The server.  A model request is refused beyond the allowance, costs     *)
(* nothing when the model fails, and answers with the quota that is left.  *)
Refuse(code) == asking' = [kind |-> asking.kind, pc |-> "error", code |-> code]

ServeText ==
  /\ asking.kind \in {"generate", "rewrite"} /\ asking.pc = "sent"
  /\ \/ /\ usedPosts + asking.count <= PostLimit
        /\ \E n \in 1..asking.count : usedPosts' = usedPosts + n  \* what was made
        /\ \E made \in (SUBSET Words) \ {{}} :
             asking' = [kind |-> asking.kind, pc |-> "ok", made |-> made,
                        remaining |-> PostLimit - usedPosts']
     \/ /\ usedPosts + asking.count > PostLimit
        /\ Refuse("QUOTA_EXCEEDED")
        /\ UNCHANGED usedPosts
     \/ Refuse("PLATFORM_ERROR") /\ UNCHANGED usedPosts
  /\ UNCHANGED <<body, drafts, media, remaining, usedImages, posts, message,
                 composerSteps>>

ServeImage ==
  /\ Asking("image") /\ asking.pc = "sent"
  /\ \/ /\ usedImages < ImageLimit
        /\ usedImages' = usedImages + 1
        /\ \E m \in Images \ Attached : asking' = [kind |-> "image", pc |-> "ok", media |-> m]
     \/ /\ usedImages = ImageLimit
        /\ Refuse("QUOTA_EXCEEDED")
        /\ UNCHANGED usedImages
     \/ Refuse("PLATFORM_ERROR") /\ UNCHANGED usedImages
  /\ UNCHANGED <<body, drafts, media, remaining, usedPosts, posts, message,
                 composerSteps>>

(* Saving is two requests: the post, then its images.                      *)
ServeSave ==
  /\ Asking("save") /\ asking.pc = "sent"
  /\ \/ /\ Valid(asking.body)
        /\ posts' = posts \cup {[text |-> asking.body, media |-> <<>>]}
        /\ asking' = [asking EXCEPT !.pc = IF asking.media = <<>> THEN "saved" ELSE "attach"]
     \/ Refuse("INTERNAL") /\ UNCHANGED posts
  /\ UNCHANGED <<body, drafts, media, remaining, usedPosts, usedImages, message,
                 composerSteps>>

(* The images of the click, all of them or none: more than the cap, or one *)
(* that was deleted meanwhile, refuses the request.  An answer that is     *)
(* lost shows its error too, before the "Saved" of the post.               *)
MediaByThen == media
ClickedMedia == asking.media

ServeAttach ==
  /\ Asking("save") /\ asking.pc = "attach"
  /\ LET bare == [text |-> asking.body, media |-> <<>>]
         full == [text |-> asking.body, media |-> ClickedMedia]
         attached == (posts \ {bare}) \cup {full}
     IN \/ Len(ClickedMedia) <= MaxImages /\ posts' = attached /\ UNCHANGED message
        \/ posts' = posts /\ message' = "trouble"
        \/ Len(ClickedMedia) <= MaxImages /\ posts' = attached /\ message' = "trouble"
  /\ asking' = [asking EXCEPT !.pc = "heard"]
  /\ UNCHANGED <<body, drafts, media, remaining, usedPosts, usedImages,
                 composerSteps>>

-----------------------------------------------------------------------------
HearText ==
  /\ asking.kind \in {"generate", "rewrite"} /\ asking.pc = "ok"
  /\ remaining' = asking.remaining
  /\ drafts' = IF Asking("generate") THEN asking.made ELSE drafts
  /\ \E first \in asking.made : body' = first
  /\ asking' = NotAsking
  /\ UNCHANGED <<media, composerServer, message, composerSteps>>

(* Appended without a look at the cap of the picker.                       *)
HearImage ==
  /\ Asking("image") /\ asking.pc = "ok"
  /\ media' = Append(media, asking.media)
  /\ asking' = NotAsking
  /\ UNCHANGED <<body, drafts, remaining, composerServer, message, composerSteps>>

HearSaved ==
  /\ Asking("save") /\ asking.pc \in {"saved", "heard"}
  /\ message' = IF message = "trouble" THEN "both" ELSE "saved"
  /\ asking' = NotAsking
  /\ UNCHANGED <<body, drafts, media, remaining, composerServer, composerSteps>>

(* handleApiError: any refusal for the quota empties the meter.            *)
HearError ==
  /\ asking # NotAsking /\ asking.pc = "error"
  /\ message' = "trouble"
  /\ IF asking.code = "QUOTA_EXCEEDED"
     THEN remaining' = 0 ELSE UNCHANGED remaining
  /\ asking' = NotAsking
  /\ UNCHANGED <<body, drafts, media, composerServer, composerSteps>>

(* The network drops an answer; another tab uses the allowance.            *)
AnswerIsLost ==
  /\ asking # NotAsking /\ asking.pc \in {"ok", "saved", "attach"}
  /\ message' = "trouble"
  /\ asking' = NotAsking
  /\ UNCHANGED <<body, drafts, media, remaining, composerServer, composerSteps>>

OtherTab ==
  /\ usedPosts < PostLimit
  /\ usedPosts' = usedPosts + 1
  /\ UNCHANGED <<body, drafts, media, remaining, asking, usedImages, posts, message,
                 composerSteps>>

ComposerNext ==
  \/ \E x \in Words \cup {""} : TypeWords(x)
  \/ \E x \in Words : ApplyDraft(x)
  \/ \E m \in Images : PickImage(m)
  \/ \E k \in Kinds : AskFor(k)
  \/ ServeText \/ ServeImage \/ ServeSave \/ ServeAttach
  \/ HearText \/ HearImage \/ HearSaved \/ HearError
  \/ AnswerIsLost
  \/ OtherTab

ComposerSpec == ComposerInit /\ [][ComposerNext]_composerVars

-----------------------------------------------------------------------------
ComposerTypeOK ==
  /\ body \in Words \cup {""}
  /\ drafts \subseteq Words
  /\ media \in Seq(Images)
  /\ remaining \in 0..PostLimit
  /\ asking.kind \in Kinds \cup {"none"}
  /\ usedPosts \in 0..PostLimit /\ usedImages \in 0..ImageLimit
  /\ posts \subseteq [text: Words, media: Seq(Images)]
  /\ message \in {"none", "saved", "trouble", "both"}

(* "Saved", and no error beside it, means that the post the member saw when*)
(* clicking exists with all its images (composer.tsx:188), whatever was    *)
(* typed, picked or deleted while the two requests ran.                    *)
SavedIsWhatWasClicked ==
  [][message' = "saved" /\ message # "saved"
       => [text |-> asking.body, media |-> asking.media] \in posts]_composerVars
=============================================================================
