----------------------------- MODULE PostImages -----------------------------
(***************************************************************************)
(* The images of posts (services/media.ts) beside the publications that    *)
(* need them: uploads, the list of images a post has, deletions, and the   *)
(* run that hands Facebook the addresses of the files.                     *)
(*                                                                         *)
(* No operation uses a transaction: each awaits its queries one by one,    *)
(* and what it found is kept in job meanwhile.  A process may stop between *)
(* any two of them.  A post has one publication, whose runs at one time    *)
(* count as one; the order of its images is left out.                      *)
(***************************************************************************)
EXTENDS FiniteSets

CONSTANTS
  ImgPosts,
  Assets,
  ImgRequests    \* bound: requests, each made once

VARIABLES
  asset,        \* media_assets: status, deleted, whether the row knows its
                \* file (storageKey), and whether the file is there
  attached,     \* post_media: the assets of each post
  publication,  \* the status of each post's publication
  sending,      \* the posts with a run that has claimed the publication
  job,          \* what each request is doing
  raced         \* history: assets a post took, was scheduled or was sent with
                \* while they were being deleted, or marked failed once ready

imagePubs == <<publication, sending>>
imageVars == <<asset, attached, imagePubs, job, raced>>

NoAsset == [status |-> "none", deleted |-> FALSE, key |-> FALSE, file |-> FALSE]
Stored == [status |-> "ready", deleted |-> FALSE, key |-> TRUE, file |-> TRUE]
NewJob == [pc |-> "new"]
Done == [pc |-> "done"]

Blocking == {"scheduled", "publishing", "published"}

ImagesInit ==
  /\ asset \in [Assets -> {NoAsset, Stored}]
  /\ attached = [p \in ImgPosts |-> {}]
  /\ publication = [p \in ImgPosts |-> "none"] /\ sending = {}
  /\ job = [r \in ImgRequests |-> NewJob]
  /\ raced = {}

Goes(r, state) == job' = [job EXCEPT ![r] = state]
Present(m) == asset[m].status # "none" /\ ~asset[m].deleted
Usable(m) == asset[m].status = "ready" /\ ~asset[m].deleted

(* Deleted, or about to be: the publications have been counted.            *)
Doomed(m) ==
  asset[m].deleted \/ \E r \in ImgRequests : job[r].pc = "soft" /\ job[r].m = m

(* The file store: the same key is written once, and erased or not there.  *)
Put(m) == [asset EXCEPT ![m].file = TRUE]
Erase(m) == [asset EXCEPT ![m].file = FALSE]

-----------------------------------------------------------------------------
(* uploadMedia: the row first, then the files, then "ready", then the      *)
(* audit entry; whatever fails after the row, the row says so.             *)
UploadCreates(r, m) ==
  /\ job[r].pc = "new" /\ asset[m].status = "none"
  /\ asset' = [asset EXCEPT ![m].status = "processing"]
  /\ Goes(r, [pc |-> "store", m |-> m])
  /\ UNCHANGED <<attached, imagePubs, raced>>

UploadStores(r) ==
  /\ job[r].pc = "store"
  /\ \/ /\ asset' = Put(job[r].m)
        /\ Goes(r, [pc |-> "ready", m |-> job[r].m])
     \/ /\ Goes(r, [pc |-> "markFailed", m |-> job[r].m])
        /\ UNCHANGED asset
  /\ UNCHANGED <<attached, imagePubs, raced>>

UploadReady(r) ==
  /\ job[r].pc = "ready"
  /\ \/ /\ asset' = [asset EXCEPT ![job[r].m].status = "ready", ![job[r].m].key = TRUE]
        /\ \/ Goes(r, Done)
           \/ Goes(r, [pc |-> "markFailed", m |-> job[r].m])  \* the audit entry fails
     \/ Goes(r, [pc |-> "markFailed", m |-> job[r].m]) /\ UNCHANGED asset
  /\ UNCHANGED <<attached, imagePubs, raced>>

UploadMarksFailed(r) ==
  /\ job[r].pc = "markFailed"
  /\ asset' = [asset EXCEPT ![job[r].m].status = "failed"]
  /\ raced' = IF asset[job[r].m].status = "ready" THEN raced \cup {job[r].m} ELSE raced
  /\ Goes(r, Done)
  /\ UNCHANGED <<attached, imagePubs>>

-----------------------------------------------------------------------------
(* setPostMedia: all of the images must be there; then the old list is     *)
(* deleted and the new one created.                                        *)
SetFinds(r, p, ms) ==
  /\ job[r].pc = "new"
  /\ \A m \in ms : Usable(m)
  /\ Goes(r, [pc |-> "clear", p |-> p, ms |-> ms])
  /\ UNCHANGED <<asset, attached, imagePubs, raced>>

SetClears(r) ==
  /\ job[r].pc = "clear"
  /\ LET p == job[r].p IN
     /\ attached' = [attached EXCEPT ![p] = {}]
     /\ Goes(r, IF job[r].ms = {} THEN Done ELSE [job[r] EXCEPT !.pc = "fill"])
  /\ UNCHANGED <<asset, imagePubs, raced>>

(* A row that is there already refuses them all.                           *)
SetFills(r) ==
  /\ job[r].pc = "fill"
  /\ LET p == job[r].p IN
     attached' = IF attached[p] \cap job[r].ms = {}
                 THEN [attached EXCEPT ![p] = @ \cup job[r].ms] ELSE attached
  /\ raced' = raced \cup {m \in job[r].ms : Doomed(m)}
  /\ Goes(r, Done)
  /\ UNCHANGED <<asset, imagePubs>>

-----------------------------------------------------------------------------
(* deleteMedia: refused for an image of a blocking publication; then the   *)
(* row, the lists it is in, and the files it had when it was found.        *)
DeleteFinds(r, m) ==
  /\ job[r].pc = "new" /\ Present(m)
  /\ Goes(r, [pc |-> "count", m |-> m, key |-> asset[m].key])
  /\ UNCHANGED <<asset, attached, imagePubs, raced>>

NothingBlocks(m) == FALSE
Blocked(m) == \E p \in ImgPosts : m \in attached[p] /\ publication[p] \in Blocking

DeleteCounts(r) ==
  /\ job[r].pc = "count"
  /\ Goes(r, IF Blocked(job[r].m) THEN Done ELSE [job[r] EXCEPT !.pc = "soft"])
  /\ UNCHANGED <<asset, attached, imagePubs, raced>>

DeleteRow(r) ==
  /\ job[r].pc = "soft"
  /\ asset' = [asset EXCEPT ![job[r].m].deleted = TRUE]
  /\ Goes(r, [job[r] EXCEPT !.pc = "detach"])
  /\ UNCHANGED <<attached, imagePubs, raced>>

DeleteDetaches(r) ==
  /\ job[r].pc = "detach"
  /\ attached' = [p \in ImgPosts |-> attached[p] \ {job[r].m}]
  /\ Goes(r, [job[r] EXCEPT !.pc = "files"])
  /\ UNCHANGED <<asset, imagePubs, raced>>

DeleteFiles(r) ==
  /\ job[r].pc = "files"
  /\ asset' \in {asset, IF job[r].key THEN Erase(job[r].m) ELSE asset}
  /\ Goes(r, Done)
  /\ UNCHANGED <<attached, imagePubs, raced>>

-----------------------------------------------------------------------------
(* A process stops.                                                        *)
ImgStops(r) ==
  /\ job[r].pc \notin {"new", "done"}
  /\ Goes(r, Done)
  /\ UNCHANGED <<asset, attached, imagePubs, raced>>

(* Scheduling does not look at the images; one that is being published may *)
(* be published now (publishNow) or cancelled.                             *)
Becomes(p, status) ==
  /\ publication' = [publication EXCEPT ![p] = status]
  /\ raced' = IF status \in Blocking /\ publication[p] \notin Blocking
              THEN raced \cup {m \in attached[p] : Doomed(m)} ELSE raced

ImgSchedule(p) ==
  /\ publication[p] \in {"none", "cancelled", "failed", "publishing"}
  /\ Becomes(p, "scheduled")
  /\ UNCHANGED <<asset, attached, sending, job>>

ImgCancel(p) ==
  /\ publication[p] \in {"scheduled", "publishing", "failed"}
  /\ Becomes(p, "cancelled")
  /\ UNCHANGED <<asset, attached, sending, job>>

(* The worker's run, which writes its outcome whatever the status is then. *)
ImgRun(p) ==
  /\ publication[p] = "scheduled"
  /\ Becomes(p, "publishing")
  /\ sending' = sending \cup {p}
  /\ UNCHANGED <<asset, attached, job>>

ImgRunEnds(p) ==
  /\ p \in sending
  /\ \E status \in {"published", "failed", "scheduled"} : Becomes(p, status)
  /\ sending' = sending \ {p}
  /\ UNCHANGED <<asset, attached, job>>

ImagesNext ==
  \/ \E r \in ImgRequests :
       \/ \E m \in Assets : UploadCreates(r, m) \/ DeleteFinds(r, m)
       \/ UploadStores(r) \/ UploadReady(r) \/ UploadMarksFailed(r)
       \/ \E p \in ImgPosts, ms \in SUBSET Assets : SetFinds(r, p, ms)
       \/ SetClears(r) \/ SetFills(r)
       \/ DeleteCounts(r) \/ DeleteRow(r) \/ DeleteDetaches(r) \/ DeleteFiles(r)
       \/ ImgStops(r)
  \/ \E p \in ImgPosts : 
       ImgSchedule(p) \/ ImgCancel(p) \/ ImgRun(p) \/ ImgRunEnds(p)

ImagesSpec == ImagesInit /\ [][ImagesNext]_imageVars

-----------------------------------------------------------------------------
ImagesTypeOK ==
  /\ asset \in [Assets -> [status: {"none", "processing", "ready", "failed"},
                           deleted: BOOLEAN, key: BOOLEAN, file: BOOLEAN]]
  /\ attached \in [ImgPosts -> SUBSET Assets]
  /\ sending \subseteq ImgPosts
  /\ publication \in [ImgPosts -> Blocking \cup {"none", "cancelled", "failed"}]
  /\ \A r \in ImgRequests : job[r].pc \in
       {"new", "store", "ready", "markFailed", "clear", "fill", "count", "soft",
        "detach", "files", "done"}
  /\ raced \subseteq Assets

(* Facebook fetches the files when the post goes out (media.ts:238): every *)
(* image of a post that is scheduled, publishing or published is ready and *)
(* has its file, unless the image was being deleted when the post took it, *)
(* was scheduled or, cancelled meanwhile, sent with it - nothing orders    *)
(* the two - or its upload failed late.                                    *)
ImagesCanBeFetched ==
  \A p \in ImgPosts : publication[p] \in Blocking =>
    \A m \in attached[p] \ raced : Usable(m) /\ asset[m].file
=============================================================================
