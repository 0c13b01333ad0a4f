----------------------------- MODULE Publishing -----------------------------
(***************************************************************************)
(* Getting an approved post onto a Facebook Page: the requests that move a *)
(* publication (services/scheduling.ts), the job queue, the worker that    *)
(* publishes (services/publishing.ts, apps/worker processors/publish.ts),  *)
(* and the sweep that repairs what the queue lost (reconcilePublications). *)
(*                                                                         *)
(* Every await of the code is a place where another process may run, so a  *)
(* request, a run of a job and a sweep are each a sequence of actions with *)
(* what they read earlier kept in req, run and recon.                      *)
(***************************************************************************)
EXTENDS PublishQueue

CONSTANTS
  Posts, Channels, Requests,
  Operations,   \* what requests ask for: some of AllOperations
  MaxVersion,   \* bound: how often one publication can be (re)scheduled
  MaxAttempts,  \* "attemptNumber < 3" in runPublication
  Faults,       \* what goes wrong in this instance: some of AllFaults
  MaxFaults     \* bound: how many of them in one behaviour

AllFaults == {"crash",       \* a process dies between two steps
              "error",       \* the database (or createContext) throws
              "redis",       \* Redis refuses the call
              "flush",       \* Redis loses every job
              "lost_answer", \* Facebook posts, the answer never arrives
              "lost_lock",   \* a live worker's job lock runs out
              "slow",        \* a live run takes more than ten minutes
              "token",       \* a Page token stops working
              "disconnect",  \* somebody disconnects a Page
              "expiry"}      \* finished jobs leave the queue (not counted)

AllOperations == {"schedule", "publishNow", "unschedule", "retry"}

ASSUME BoundsAssumption ==
  /\ Operations \subseteq AllOperations
  /\ MaxVersion \in Nat \ {0}
  /\ MaxAttempts \in Nat \ {0}
  /\ MaxFaults \in Nat
  /\ Faults \subseteq AllFaults

Pubs == Posts \X Channels          \* unique [postId, channelId]
PostOf(p) == p[1]
ChannelOf(p) == p[2]
Versions == 1 .. MaxVersion
JobIds == Pubs \X Versions         \* publicationId:jobVersion

VARIABLES
  pub,      \* the publications table
  planned,  \* whether content_posts.plannedFor is set
  chan,     \* social_channels.status, or "gone" once deleted
  log,      \* publish_attempts: rows unfinished, and rows finished ok
  jobs,     \* the queue
  run,      \* what each worker slot is doing
  req,      \* what each web request is doing
  recon,    \* what the sweep is doing
  onPage,   \* how many times Facebook has published the post
  doubt,    \* history: what happened to a publication that the claim
            \* does not protect against
  faults    \* how many failures have happened

vars == <<pub, planned, chan, log, jobs, run, req, recon, onPage, doubt, faults>>

RowStates == {"none", "scheduled", "publishing", "published", "failed",
              "cancelled", "gone"}
HasRow(s) == s \notin {"none", "gone"}

(* due: scheduledAt <= now.  aged: updatedAt is over ten minutes ago, kept *)
(* only for the status the sweep reads it with.                            *)
Row == [status: RowStates, version: 0 .. MaxVersion, attempts: Nat, due: BOOLEAN,
        aged: BOOLEAN]

ChannelStates == {"active", "needs_reconnect", "gone"}
Doubts == {"user", "unstuck", "late"}

(* A worker slot: pc names the next await of runPublication.               *)
FailureClasses == {"none", "AUTH", "TRANSIENT", "PERMANENT"}
Idle == [pc |-> "idle"]
Unsent == {"begin", "call", "note_fail", "note_status"}
Sent == {"note_ok", "note_published"}
Holding == Unsent \cup Sent
Running == {"claim", "announce", "settle"} \cup Holding
RunState == [pc: {"idle"}] \cup
            [pc: Running, p: Pubs, v: Versions, n: Nat, usable: BOOLEAN,
             noted: BOOLEAN, class: FailureClasses]

(* A web request: old is the version it read (0: no row), new the one it   *)
(* wrote (0: nothing written).  A failed one has answered with an error.   *)
ReqState == [pc: {"idle"}] \cup
            [pc: {"write", "queue", "plan"}, op: Operations, p: Pubs,
             old: 0 .. MaxVersion, new: 0 .. MaxVersion] \cup
            [pc: {"failed"}, wrote: BOOLEAN]

ReconState == [pc: {"idle", "enqueue"}, todo: SUBSET (Pubs \X (0 .. MaxVersion))]
SweepOver == [pc |-> "idle", todo |-> {}]

TypeOK ==
  /\ pub \in [Pubs -> Row]
  /\ planned \in [Posts -> BOOLEAN]
  /\ chan \in [Channels -> ChannelStates]
  /\ log \in [Pubs -> [open: Int, ok: Int]]
  /\ jobs \in [JobIds -> Job]
  /\ run \in [Workers -> RunState]
  /\ req \in [Requests -> ReqState]
  /\ recon \in ReconState
  /\ onPage \in [Pubs -> Nat]
  /\ doubt \in [Pubs -> SUBSET Doubts]
  /\ faults \in Nat

Init ==
  /\ pub = [p \in Pubs |-> [status |-> "none", version |-> 0, attempts |-> 0,
                            due |-> FALSE, aged |-> FALSE]]
  /\ planned = [t \in Posts |-> FALSE]
  /\ chan = [c \in Channels |-> "active"]
  /\ log = [p \in Pubs |-> [open |-> 0, ok |-> 0]]
  /\ jobs = [id \in JobIds |-> NoJob]
  /\ run = [w \in Workers |-> Idle]
  /\ req = [r \in Requests |-> Idle]
  /\ recon = SweepOver
  /\ onPage = [p \in Pubs |-> 0]
  /\ doubt = [p \in Pubs |-> {}]
  /\ faults = 0

(* A failure of this kind happens in this step; none does.                 *)
Fault(kind) == kind \in Faults /\ faults < MaxFaults /\ faults' = faults + 1
NoFault == UNCHANGED faults

(* An UPDATE of the row sets updatedAt.                                    *)
SetStatus(p, s) == pub' = [pub EXCEPT ![p].status = s, ![p].aged = FALSE]

Doubted(p, why) == doubt' = [doubt EXCEPT ![p] = @ \cup {why}]

HoldsClaim(w, p) == run[w].pc \in Holding /\ run[w].p = p
-----------------------------------------------------------------------------
(* services/scheduling.ts.  A request reads and checks, writes the row,    *)
(* moves the job, and sets plannedFor; it acts on what it read.            *)

(* Which publication status each operation refuses.  The post itself is    *)
(* approved; "gone" is a row that was deleted under the request.           *)
Accepts(op, status, channel) ==
  CASE op = "schedule"   -> /\ status \notin {"published", "publishing"}
                            /\ channel = "active"
    [] op = "publishNow" -> status # "published" /\ channel = "active"
    [] op = "unschedule" -> status \notin {"none", "published"}
    [] op = "retry"      -> status = "failed" /\ channel = "active"

RequestReads(r, op, p) ==
  /\ req[r].pc \in {"idle", "failed"}
  /\ pub[p].status # "gone"
  /\ Accepts(op, pub[p].status, chan[ChannelOf(p)])
  /\ req' = [req EXCEPT ![r] = [pc |-> "write", op |-> op, p |-> p,
                                old |-> pub[p].version, new |-> 0]]
  /\ NoFault
  /\ UNCHANGED <<pub, planned, chan, log, jobs, run, recon, onPage, doubt>>

Written(row, op) ==
  [row EXCEPT !.status = IF op = "unschedule" THEN "cancelled" ELSE "scheduled",
              !.version = @ + 1,
              !.due = (op = "publishNow") \/ (op # "schedule" /\ @),
              !.aged = FALSE]

(* create() when the read found no row, else an update by id that looks at *)
(* nothing but the id.                                                     *)
RequestWrites(r) ==
  LET op == req[r].op
      p  == req[r].p
  IN
  /\ req[r].pc = "write"
  /\ (req[r].old = 0) = (pub[p].status = "none")
  /\ chan[ChannelOf(p)] # "gone" /\ pub[p].status # "gone"
  /\ pub[p].version < MaxVersion
  /\ pub' = [pub EXCEPT ![p] = Written(@, op)]
  /\ req' = [req EXCEPT ![r].pc = "queue", ![r].new = pub[p].version + 1]
  /\ IF \/ pub[p].status \in {"publishing", "published"}
        \/ op = "retry" /\ pub[p].status # "failed"
     THEN Doubted(p, "user") ELSE UNCHANGED doubt
  /\ NoFault
  /\ UNCHANGED <<planned, chan, log, jobs, run, recon, onPage>>

Fails(r) ==
  req' = [req EXCEPT ![r] = [pc |-> "failed", wrote |-> @.new # 0]]

(* The unique index, the foreign key or a missing row refuses the write.   *)
RequestRefused(r) ==
  LET p == req[r].p IN
  /\ req[r].pc = "write"
  /\ \/ req[r].old = 0 /\ pub[p].status # "none"
     \/ chan[ChannelOf(p)] = "gone"
     \/ pub[p].status = "gone"
  /\ Fails(r)
  /\ NoFault
  /\ UNCHANGED <<pub, planned, chan, log, jobs, run, recon, onPage, doubt>>

(* What is left of the operation once its job has been dealt with.         *)
AfterQueue(r) ==
  req' = IF req[r].op \in {"schedule", "unschedule"}
         THEN [req EXCEPT ![r].pc = "plan"] ELSE [req EXCEPT ![r] = Idle]

DropOldJob(q, r) ==
  IF req[r].old = 0 \/ req[r].op = "retry" THEN q
  ELSE Removed(q, <<req[r].p, req[r].old>>)

(* enqueuePublish's delay: only schedulePost asks for a later time.        *)
RequestQueues(r) ==
  LET id == <<req[r].p, req[r].new>>
      st == IF req[r].op = "schedule" THEN "delayed" ELSE "waiting"
  IN
  /\ req[r].pc = "queue"
  /\ jobs' = IF req[r].op = "unschedule" THEN DropOldJob(jobs, r)
             ELSE Added(DropOldJob(jobs, r), id, st)
  /\ AfterQueue(r)
  /\ NoFault
  /\ UNCHANGED <<pub, planned, chan, log, run, recon, onPage, doubt>>

(* Redis refuses: removePublishJob swallows it, enqueuePublish does not.   *)
RequestFindsRedisDown(r) ==
  /\ req[r].pc = "queue"
  /\ IF req[r].op = "unschedule" THEN AfterQueue(r)
     ELSE Fails(r)
  /\ Fault("redis")
  /\ UNCHANGED <<pub, planned, chan, log, jobs, run, recon, onPage, doubt>>

RequestPlans(r) ==
  /\ req[r].pc = "plan"
  /\ planned' = [planned EXCEPT ![PostOf(req[r].p)] = req[r].op = "schedule"]
  /\ req' = [req EXCEPT ![r] = Idle]
  /\ NoFault
  /\ UNCHANGED <<pub, chan, log, jobs, run, recon, onPage, doubt>>

(* The web process dies, or the database throws, before the next step.     *)
RequestLost(r) ==
  /\ req[r].pc \in {"write", "queue", "plan"}
  /\ Fails(r)
  /\ Fault("crash") \/ Fault("error")
  /\ UNCHANGED <<pub, planned, chan, log, jobs, run, recon, onPage, doubt>>
-----------------------------------------------------------------------------
(* runPublication, and the processor around it.                            *)

JobOf(w) == <<run[w].p, run[w].v>>

(* The processor returns: the job is completed.  It throws: BullMQ retries.*)
Returns(w) ==
  /\ run' = [run EXCEPT ![w] = Idle]
  /\ jobs' = Completed(jobs, JobOf(w), w)
Throws(w) ==
  /\ run' = [run EXCEPT ![w] = Idle]
  /\ jobs' = Thrown(jobs, JobOf(w), w)

Goto(w, pc) == run' = [run EXCEPT ![w].pc = pc]

(* fail(): what the catch block was entered with.                          *)
GoesWrong(w, class) ==
  run' = [run EXCEPT ![w].pc = "note_fail", ![w].class = class]

(* Mutant: "attemptNumber <= 3".                                           *)
RetriesOnceTooOften(r) == r.class = "TRANSIENT" /\ r.n <= MaxAttempts

(* willRetry: GraphErrors of a retryable class and our own bugs (TRANSIENT *)
(* too) are tried again while attemptNumber allows; an AppError counts as  *)
(* PERMANENT here, the code never retries it either.                       *)
WillRetry(r) == r.class = "TRANSIENT" /\ r.n < MaxAttempts

(* BullMQ hands out the job and the processor reads the row.  The job is   *)
(* left alone if it is stale; otherwise what was read is kept.             *)
Start(w, id) ==
  LET p == id[1]
      v == id[2]
      stale == \/ ~HasRow(pub[p].status)
               \/ pub[p].version # v
               \/ pub[p].status \in {"published", "cancelled"}
  IN
  /\ run[w].pc = "idle"
  /\ jobs[id].st = "waiting"
  /\ IF stale
     THEN jobs' = Completed(Taken(jobs, id, w), id, w) /\ UNCHANGED run
     ELSE /\ jobs' = Taken(jobs, id, w)
          /\ run' = [run EXCEPT ![w] =
                       [pc |-> "claim", p |-> p, v |-> v,
                        n |-> pub[p].attempts + 1,
                        usable |-> chan[ChannelOf(p)] = "active",
                        noted |-> FALSE, class |-> "none"]]
  /\ NoFault
  /\ UNCHANGED <<pub, planned, chan, log, req, recon, onPage, doubt>>

(* Mutants of the claim's WHERE clause: without the status, without the    *)
(* version, with "publishing" let in after a crash, and with the status    *)
(* check of the first read only.                                           *)
ClaimsAnyStatus(p, v)     == pub[p].version = v
ClaimsAnyVersion(p, v)    == pub[p].status = "scheduled"
ReclaimsPublishing(p, v)  == /\ pub[p].status \in {"scheduled", "publishing"}
                             /\ pub[p].version = v
ClaimsUnpublished(p, v)   == pub[p].status # "published"

(* The claim, a single conditional UPDATE.                                 *)
CanClaim(p, v) == pub[p].status = "scheduled" /\ pub[p].version = v

Claim(w) ==
  LET p == run[w].p IN
  /\ run[w].pc = "claim"
  /\ CanClaim(p, run[w].v)
  /\ pub' = [pub EXCEPT ![p].status = "publishing", ![p].attempts = @ + 1,
                        ![p].aged = FALSE]
  /\ Goto(w, "begin")
  /\ NoFault
  /\ UNCHANGED <<planned, chan, log, jobs, req, recon, onPage, doubt>>

ClaimLost(w) ==
  /\ run[w].pc = "claim"
  /\ ~CanClaim(run[w].p, run[w].v)
  /\ Returns(w)
  /\ NoFault
  /\ UNCHANGED <<pub, planned, chan, log, req, recon, onPage, doubt>>

(* Mutant: the attempt row is only written once the call is over.          *)
BeginsUnlogged(w) ==
  /\ run[w].pc = "begin"
  /\ IF run[w].usable THEN Goto(w, "call") ELSE GoesWrong(w, "AUTH")
  /\ NoFault
  /\ UNCHANGED <<pub, planned, chan, log, jobs, req, recon, onPage, doubt>>

(* The attempt row, then the check of the channel read at the start.       *)
Begin(w) ==
  LET p == run[w].p IN
  /\ run[w].pc = "begin"
  /\ HasRow(pub[p].status)
  /\ log' = [log EXCEPT ![p].open = @ + 1]
  /\ IF run[w].usable THEN Goto(w, "call") ELSE GoesWrong(w, "AUTH")
  /\ NoFault
  /\ UNCHANGED <<pub, planned, chan, jobs, req, recon, onPage, doubt>>

(* publishToPage: Facebook publishes the post and says so, or refuses it.  *)
CallSucceeds(w) ==
  /\ run[w].pc = "call"
  /\ onPage' = [onPage EXCEPT ![run[w].p] = @ + 1]
  /\ Goto(w, "note_ok")
  /\ NoFault
  /\ UNCHANGED <<pub, planned, chan, log, jobs, req, recon, doubt>>

CallRefused(w) ==
  /\ run[w].pc = "call"
  /\ \E class \in FailureClasses \ {"none"} : GoesWrong(w, class)
  /\ NoFault
  /\ UNCHANGED <<pub, planned, chan, log, jobs, req, recon, onPage, doubt>>

(* Facebook publishes, but the request is aborted after 20 seconds or the  *)
(* connection drops: a TRANSIENT failure.                                  *)
CallAnswerLost(w) ==
  LET p == run[w].p IN
  /\ run[w].pc = "call"
  /\ onPage' = [onPage EXCEPT ![p] = @ + 1]
  /\ GoesWrong(w, "TRANSIENT")
  /\ Doubted(p, "late")
  /\ Fault("lost_answer")
  /\ UNCHANGED <<pub, planned, chan, log, jobs, req, recon>>

(* The attempt row, the publication (by id only), then notify and audit.   *)
NoteOk(w) ==
  LET p == run[w].p IN
  /\ run[w].pc = "note_ok"
  /\ HasRow(pub[p].status)
  /\ log' = [log EXCEPT ![p].open = @ - 1, ![p].ok = @ + 1]
  /\ run' = [run EXCEPT ![w].pc = "note_published", ![w].noted = TRUE]
  /\ NoFault
  /\ UNCHANGED <<pub, planned, chan, jobs, req, recon, onPage, doubt>>

NotePublished(w) ==
  LET p == run[w].p IN
  /\ run[w].pc = "note_published"
  /\ HasRow(pub[p].status)
  /\ SetStatus(p, "published")
  /\ Goto(w, "announce")
  /\ NoFault
  /\ UNCHANGED <<planned, chan, log, jobs, req, recon, onPage, doubt>>

Announce(w) ==
  /\ run[w].pc = "announce"
  /\ Returns(w)
  /\ NoFault
  /\ UNCHANGED <<pub, planned, chan, log, req, recon, onPage, doubt>>

(* Inside the try block an error after the call is handled like one before *)
(* it: the row is gone, or the database throws.                            *)
LateError(w) ==
  LET p == run[w].p IN
  /\ run[w].pc \in {"note_ok", "note_published", "announce"}
  /\ \/ NoFault /\ run[w].pc # "announce" /\ ~HasRow(pub[p].status)
     \/ Fault("error")
  /\ GoesWrong(w, "TRANSIENT")
  /\ Doubted(p, "late")
  /\ UNCHANGED <<pub, planned, chan, log, jobs, req, recon, onPage>>

(* fail(): the attempt row, which may already say ok ...                   *)
NoteFail(w) ==
  LET p == run[w].p IN
  /\ run[w].pc = "note_fail"
  /\ HasRow(pub[p].status)
  /\ log' = IF run[w].noted THEN [log EXCEPT ![p].ok = @ - 1]
                            ELSE [log EXCEPT ![p].open = @ - 1]
  /\ Goto(w, "note_status")
  /\ NoFault
  /\ UNCHANGED <<pub, planned, chan, jobs, req, recon, onPage, doubt>>

(* ... the publication, by id only ...                                     *)
NoteStatus(w) ==
  LET p == run[w].p IN
  /\ run[w].pc = "note_status"
  /\ HasRow(pub[p].status)
  /\ SetStatus(p, IF WillRetry(run[w]) THEN "scheduled" ELSE "failed")
  /\ Goto(w, "settle")
  /\ NoFault
  /\ UNCHANGED <<planned, chan, log, jobs, req, recon, onPage, doubt>>

(* Mutant: the processor swallows the failure it should throw.             *)
SettlesQuietly(w) ==
  /\ run[w].pc = "settle"
  /\ Returns(w)
  /\ NoFault
  /\ UNCHANGED <<pub, planned, chan, log, req, recon, onPage, doubt>>

(* ... then the owner and the channel.  The processor throws exactly when  *)
(* BullMQ is to try again.                                                 *)
Settle(w) ==
  LET c == ChannelOf(run[w].p) IN
  /\ run[w].pc = "settle"
  /\ chan' = IF run[w].class = "AUTH" /\ chan[c] = "active"
             THEN [chan EXCEPT ![c] = "needs_reconnect"] ELSE chan
  /\ IF WillRetry(run[w]) THEN Throws(w) ELSE Returns(w)
  /\ NoFault
  /\ UNCHANGED <<pub, planned, log, req, recon, onPage, doubt>>

(* Nothing catches an error before the try block or in fail() itself: the  *)
(* row is gone, the database throws, or the author left the workspace      *)
(* (createContext, in "begin").                                            *)
RunThrows(w) ==
  LET p == run[w].p IN
  /\ run[w].pc \in {"claim", "begin", "note_fail", "note_status", "settle"}
  /\ \/ /\ NoFault
        /\ run[w].pc \in {"begin", "note_fail", "note_status"}
        /\ ~HasRow(pub[p].status)
     \/ Fault("error")
  /\ Throws(w)
  /\ UNCHANGED <<pub, planned, chan, log, req, recon, onPage, doubt>>

(* The worker process dies: its run is over, its job still looks active.   *)
WorkerDies(w) ==
  /\ run[w].pc # "idle"
  /\ run' = [run EXCEPT ![w] = Idle]
  /\ Fault("crash")
  /\ UNCHANGED <<pub, planned, chan, log, jobs, req, recon, onPage, doubt>>
-----------------------------------------------------------------------------
(* BullMQ and Redis (external).                                            *)

(* The delay is over: the scheduled time for a first try, else a backoff.  *)
(* The current version's first try is due when scheduledAt is.             *)
JobBecomesDue(id) ==
  /\ jobs[id].st = "delayed"
  /\ jobs[id].made = 0 /\ pub[id[1]].version = id[2] => pub[id[1]].due
  /\ jobs' = [jobs EXCEPT ![id].st = "waiting"]
  /\ NoFault
  /\ UNCHANGED <<pub, planned, chan, log, run, req, recon, onPage, doubt>>

(* The lock of an active job is only kept up by a live worker.             *)
JobStalls(id) ==
  /\ jobs[id].st = "active"
  /\ \/ NoFault /\ ~\E w \in Workers : run[w].pc # "idle" /\ JobOf(w) = id
     \/ Fault("lost_lock")
  /\ jobs' = Stalled(jobs, id)
  /\ UNCHANGED <<pub, planned, chan, log, run, req, recon, onPage, doubt>>

(* removeOnComplete / removeOnFail.                                        *)
JobExpires(id) ==
  /\ "expiry" \in Faults
  /\ jobs[id].st \in {"completed", "failed"}
  /\ jobs' = [jobs EXCEPT ![id] = NoJob]
  /\ NoFault
  /\ UNCHANGED <<pub, planned, chan, log, run, req, recon, onPage, doubt>>

RedisFlushed ==
  /\ jobs' = [id \in JobIds |-> NoJob]
  /\ Fault("flush")
  /\ UNCHANGED <<pub, planned, chan, log, run, req, recon, onPage, doubt>>
-----------------------------------------------------------------------------
(* reconcilePublications, every five minutes.                              *)

(* Mutants: the sweep forgets "scheduledAt <= now", or looks for stuck rows*)
(* under the wrong status.                                                 *)
OverdueAnyTime == {p \in Pubs : pub[p].status = "scheduled"}
StuckWrongStatus(p) == pub[p].status = "scheduled" /\ pub[p].aged

Overdue == {p \in Pubs : pub[p].status = "scheduled" /\ pub[p].due}

Stuck(p) == pub[p].status = "publishing" /\ pub[p].aged

(* "now" is taken here: a sweep that finds nothing overdue and nothing     *)
(* already stuck changes nothing, and is left out.                         *)
SweepReads ==
  /\ recon.pc = "idle"
  /\ Overdue # {} \/ \E p \in Pubs : Stuck(p)
  /\ recon' = [pc |-> "enqueue",
               todo |-> {<<p, pub[p].version>> : p \in Overdue}]
  /\ NoFault
  /\ UNCHANGED <<pub, planned, chan, log, jobs, run, req, onPage, doubt>>

SweepEnqueues(id) ==
  /\ recon.pc = "enqueue"
  /\ id \in recon.todo
  /\ jobs' = Added(jobs, id, "waiting")
  /\ recon' = [recon EXCEPT !.todo = @ \ {id}]
  /\ NoFault
  /\ UNCHANGED <<pub, planned, chan, log, run, req, onPage, doubt>>

(* One UPDATE over every stuck row; nobody looks at the Page.              *)
SweepReleases ==
  /\ recon.pc = "enqueue" /\ recon.todo = {}
  /\ pub' = [p \in Pubs |-> IF Stuck(p)
                            THEN [pub[p] EXCEPT !.status = "scheduled",
                                                !.aged = FALSE]
                            ELSE pub[p]]
  /\ doubt' = [p \in Pubs |->
                 IF /\ Stuck(p)
                    /\ onPage[p] > 0 \/ \E w \in Workers : HoldsClaim(w, p)
                 THEN doubt[p] \cup {"unstuck"} ELSE doubt[p]]
  /\ recon' = SweepOver
  /\ NoFault
  /\ UNCHANGED <<planned, chan, log, jobs, run, req, onPage>>

(* The process dies, or Redis refuses add(): the rest, the release         *)
(* included, waits for the next sweep.                                     *)
SweepAborts ==
  /\ recon.pc = "enqueue"
  /\ recon' = SweepOver
  /\ Fault("crash") \/ (Fault("redis") /\ recon.todo # {})
  /\ UNCHANGED <<pub, planned, chan, log, jobs, run, req, onPage, doubt>>
-----------------------------------------------------------------------------
(* Time, and what other parts of the system do to a channel.               *)

TimeComes(p) ==
  /\ pub[p].status \in {"scheduled", "publishing", "failed"} /\ ~pub[p].due
  /\ pub' = [pub EXCEPT ![p].due = TRUE]
  /\ NoFault
  /\ UNCHANGED <<planned, chan, log, jobs, run, req, recon, onPage, doubt>>

(* Ten minutes without an update.  One call is given up after 20 seconds,  *)
(* so a run that holds the claim that long has been held up.               *)
RowAges(p) ==
  /\ pub[p].status = "publishing" /\ ~pub[p].aged
  /\ \/ NoFault /\ ~\E w \in Workers : HoldsClaim(w, p)
     \/ Fault("slow")
  /\ pub' = [pub EXCEPT ![p].aged = TRUE]
  /\ UNCHANGED <<planned, chan, log, jobs, run, req, recon, onPage, doubt>>

(* checkChannelHealth finds the token dead; connectPages stores a new one. *)
ChannelBreaks(c) ==
  /\ chan[c] = "active"
  /\ chan' = [chan EXCEPT ![c] = "needs_reconnect"]
  /\ Fault("token")
  /\ UNCHANGED <<pub, planned, log, jobs, run, req, recon, onPage, doubt>>

ChannelReconnected(c) ==
  /\ chan[c] = "needs_reconnect"
  /\ chan' = [chan EXCEPT ![c] = "active"]
  /\ NoFault
  /\ UNCHANGED <<pub, planned, log, jobs, run, req, recon, onPage, doubt>>

(* disconnectChannel: the rows of its publications and their attempts go   *)
(* with it.                                                                *)
Disconnect(c) ==
  /\ chan[c] # "gone"
  /\ chan' = [chan EXCEPT ![c] = "gone"]
  /\ pub' = [p \in Pubs |-> IF ChannelOf(p) = c /\ HasRow(pub[p].status)
                            THEN [pub[p] EXCEPT !.status = "gone"] ELSE pub[p]]
  /\ log' = [p \in Pubs |-> IF ChannelOf(p) = c THEN [open |-> 0, ok |-> 0]
                                               ELSE log[p]]
  /\ Fault("disconnect")
  /\ UNCHANGED <<planned, jobs, run, req, recon, onPage, doubt>>
-----------------------------------------------------------------------------
RequestStep(r) ==
  \/ \E op \in Operations, p \in Pubs : RequestReads(r, op, p)
  \/ RequestWrites(r)
  \/ RequestRefused(r)
  \/ RequestQueues(r)
  \/ RequestFindsRedisDown(r)
  \/ RequestPlans(r)
  \/ RequestLost(r)

(* What a run does next, once it has a job.                                *)
RunStep(w) ==
  \/ Claim(w) \/ ClaimLost(w) \/ Begin(w)
  \/ CallSucceeds(w) \/ CallRefused(w) \/ CallAnswerLost(w)
  \/ NoteOk(w) \/ NotePublished(w) \/ Announce(w) \/ LateError(w)
  \/ NoteFail(w) \/ NoteStatus(w) \/ Settle(w) \/ RunThrows(w)

WorkerStep(w) ==
  \/ \E id \in JobIds : Start(w, id)
  \/ RunStep(w)
  \/ WorkerDies(w)

QueueStep ==
  \/ \E id \in JobIds : JobBecomesDue(id) \/ JobStalls(id) \/ JobExpires(id)
  \/ RedisFlushed

SweepStep ==
  \/ SweepReads
  \/ \E id \in JobIds : SweepEnqueues(id)
  \/ SweepReleases
  \/ SweepAborts

WorldStep ==
  \/ \E p \in Pubs : TimeComes(p) \/ RowAges(p)
  \/ \E c \in Channels : ChannelBreaks(c) \/ ChannelReconnected(c) \/ Disconnect(c)

Next ==
  \/ \E r \in Requests : RequestStep(r)
  \/ \E w \in Workers : WorkerStep(w)
  \/ QueueStep
  \/ SweepStep
  \/ WorldStep

Spec == Init /\ [][Next]_vars

(* Workers, timers and the sweep keep going; users owe nothing.  Expiry is *)
(* not in here: BullMQ removes an expired job only when another job ends.  *)
Fairness ==
  /\ \A w \in Workers : WF_vars(RunStep(w))
  /\ \A id \in JobIds :
       /\ WF_vars(\E w \in Workers : Start(w, id))
       /\ WF_vars(JobBecomesDue(id))
       /\ WF_vars(JobStalls(id))
       /\ WF_vars(SweepEnqueues(id))
  /\ \A p \in Pubs : WF_vars(TimeComes(p)) /\ WF_vars(RowAges(p))
  /\ WF_vars(SweepReads)
  /\ WF_vars(SweepReleases)

FairSpec == Spec /\ Fairness

(* A queue busy enough that finished jobs are removed at last.             *)
BusyFairSpec == FairSpec /\ \A id \in JobIds : WF_vars(JobExpires(id))
-----------------------------------------------------------------------------
(* Safety.                                                                 *)

(* Nothing has happened to p that the claim does not protect against: no   *)
(* request wrote over a run, a published row or, retrying, over a row that *)
(* had moved on ("user"), the sweep released no claim that was alive or had*)
(* already posted ("unstuck"), and no run failed after its call had got    *)
(* through ("late").                                                       *)
Undisturbed(p) == doubt[p] = {}

(* The header of publishing.ts promises that a post goes out once, whatever*)
(* happens to the worker.  It does, whatever else fails and whoever else   *)
(* runs, for every publication none of the three disturbances has hit.     *)
OnceUnlessDisturbed == \A p \in Pubs : Undisturbed(p) => onPage[p] <= 1

(* "Exactly one worker can win it": between its claim and its last write no*)
(* two runs hold the same undisturbed publication, be they two deliveries  *)
(* of one job, jobs of two versions, or a retry beside a forgotten run.    *)
OneClaimant ==
  \A p \in Pubs : Undisturbed(p) =>
    \A w1, w2 \in Workers :
      HoldsClaim(w1, p) /\ HoldsClaim(w2, p) => w1 = w2

(* A row says "published" only of a post that is on the Page, in every     *)
(* interleaving and after every failure.                                   *)
PublishedIsOnPage ==
  \A p \in Pubs : pub[p].status = "published" => onPage[p] > 0

(* A row that may be claimed, retried or scheduled again belongs to a post *)
(* that is not on the Page yet; "failed" is what the owner is told.        *)
PendingIsOffPage ==
  \A p \in Pubs :
    Undisturbed(p) /\ pub[p].status \in {"none", "scheduled", "failed", "cancelled"}
      => onPage[p] = 0

(* The writes after the claim name the row by its id only.  They hit the   *)
(* schedule they were claimed for: as long as a run is at it, the row says *)
(* "publishing" with the version of its job, or the row is gone.           *)
ClaimIsCurrent ==
  \A w \in Workers, p \in Pubs : Undisturbed(p) /\ HoldsClaim(w, p) =>
    \/ pub[p].status = "gone"
    \/ pub[p].status = "publishing" /\ pub[p].version = run[w].v

(* A run is right about the Page: what it does after the call is done of a *)
(* post that is there, and whoever is about to call, or to report a failed *)
(* call, has a post that is not, whatever earlier runs of it have done.    *)
RunKnowsPage ==
  \A w \in Workers :
    /\ run[w].pc \in Sent => onPage[run[w].p] > 0
    /\ run[w].pc \in Unsent /\ Undisturbed(run[w].p) => onPage[run[w].p] = 0

(* "A crash leaves a record of what was in flight": every post on the Page *)
(* has an attempt row that succeeded or was never finished, unless a late  *)
(* failure made the row say otherwise.                                     *)
AttemptOnRecord ==
  \A p \in Pubs :
    HasRow(pub[p].status) /\ "late" \notin doubt[p]
      => onPage[p] <= log[p].ok + log[p].open

(* willRetry leaves the row "scheduled" and relies on BullMQ to run the job*)
(* again.  The two count tries separately; when nothing throws outside the *)
(* try block, BullMQ always has the try left that the row counts on.       *)
RetryHasTryLeft ==
  \A w \in Workers :
    (/\ run[w].pc \in {"note_fail", "note_status", "settle"}
     /\ WillRetry(run[w])
     /\ Runs(jobs[JobOf(w)], w))
    => HasTryLeft(jobs[JobOf(w)])

(* A scheduled row has a job that will run it, or a request or a retry that*)
(* is about to queue one: without failures the sweep has nothing to do.    *)
ScheduledHasJob ==
  \A p \in Pubs :
    pub[p].status = "scheduled" /\ Undisturbed(p) =>
      \/ Pending(jobs[<<p, pub[p].version>>])
      \/ \E r \in Requests : /\ req[r].pc = "queue"
                             /\ req[r].p = p /\ req[r].new = pub[p].version

-----------------------------------------------------------------------------
(* What a step may never do.                                               *)

(* A publication that is published, failed or cancelled stays so until its *)
(* channel is disconnected or a user asks again, which bumps the version; a*)
(* published one stays so for good.  No late write of a run or the sweep   *)
(* may reopen it.                                                          *)
SettledStays ==
  [][\A p \in Pubs :
       (/\ pub[p].status \in {"published", "failed", "cancelled"}
        /\ pub'[p].status \notin {pub[p].status, "gone"}
        /\ doubt'[p] = {})
       => (/\ pub[p].status # "published"
           /\ pub'[p].version = pub[p].version + 1)]_vars

(* No job, no backoff and no sweep starts a post before the time its row is*)
(* scheduled for.                                                          *)
NeverEarly ==
  [][\A p \in Pubs :
       (/\ pub[p].status = "scheduled" /\ pub'[p].status = "publishing"
        /\ Undisturbed(p))
       => pub[p].due]_vars

(* The rows of the table, and the Page, are what Delivery promises: every  *)
(* step of a request, a run, the queue or the sweep is one of its moves.   *)
StatusOf == [p \in Pubs |-> pub[p].status]
OutOf == [p \in Pubs |-> IF onPage[p] = 0 THEN "no"
                         ELSE IF onPage[p] = 1 THEN "once" ELSE "more"]
DisturbedPubs == {p \in Pubs : ~Undisturbed(p)}

Promise == INSTANCE Delivery WITH
  status <- StatusOf, out <- OutOf, disturbed <- DisturbedPubs

ImplementsDelivery == Promise!Spec

-----------------------------------------------------------------------------
(* Liveness.                                                               *)

(* Whatever is scheduled or in flight is published, fails, is cancelled or *)
(* goes with its channel in the end: Redis may delay a post, never lose it.*)
EveryPostSettles ==
  \A p \in Pubs : (pub[p].status \in {"scheduled", "publishing"})
                   ~> (pub[p].status \notin {"scheduled", "publishing"})

-----------------------------------------------------------------------------
(* What comments and docs say, and the code does not do.                   *)

(* publishing.ts: "it is making sure a post goes out once, whatever happens*)
(* to the worker".                                                         *)
AtMostOnce == \A p \in Pubs : onPage[p] <= 1

(* scheduling.ts: retryPublication "tries a failed publication again, from *)
(* the beginning", and the queue gives "three tries": the first try of a   *)
(* version that meets a retryable failure has more to come.                *)
FreshVersionIsRetried ==
  \A w \in Workers :
    (/\ run[w].pc = "note_fail" /\ run[w].class = "TRANSIENT"
     /\ Undisturbed(run[w].p) /\ jobs[JobOf(w)].made = 0)
    => WillRetry(run[w])
=============================================================================
