---------------------------- MODULE QueueProofs ----------------------------
(***************************************************************************)
(* What the queue owes Publishing, for every value of the constants: no    *)
(* post goes out before its time, every call is on record, a failure that  *)
(* is to be tried again has a try left, and a scheduled row has a job.     *)
(***************************************************************************)
EXTENDS PublishingProofs, FiniteSetTheorems

-----------------------------------------------------------------------------
(* What a step of each actor does to the jobs and the runs.                *)

(* add() fills one empty place, or changes nothing.                        *)
LEMMA AddedAt ==
  ASSUME NEW q \in [JobIds -> Job], NEW id, NEW st
  PROVE  \A i \in JobIds :
           \/ Added(q, id, st)[i] = q[i]
           \/ i = id /\ q[i].st = "none" /\ Added(q, id, st)[i] = NewJob(st)
  BY DEF Added

(* remove() leaves a job that a worker holds, and the others.              *)
LEMMA RemovedAt ==
  ASSUME NEW q \in [JobIds -> Job], NEW id
  PROVE  \A i \in JobIds :
           \/ Removed(q, id)[i] = q[i]
           \/ i = id /\ q[i].st # "active" /\ Removed(q, id)[i] = NoJob
  BY DEF Removed

(* A worker takes a job.                                                   *)
LEMMA TakenAt ==
  ASSUME NEW q \in [JobIds -> Job], NEW id \in JobIds, NEW w \in Workers
  PROVE  /\ Taken(q, id, w)[id].made = q[id].made
         /\ Runs(Taken(q, id, w)[id], w)
         /\ \A i \in JobIds \ {id} : Taken(q, id, w)[i] = q[i]
<1>1. q[id] \in Job
  OBVIOUS
<1>2. QED
  BY <1>1 DEF Taken, Runs, Job

(* Only the worker that has a job completes it.                            *)
LEMMA CompletedAt ==
  ASSUME NEW q \in [JobIds -> Job], NEW id \in JobIds, NEW w
  PROVE  /\ Completed(q, id, w)[id] =
              IF Runs(q[id], w) THEN NewJob("completed") ELSE q[id]
         /\ \A i \in JobIds \ {id} : Completed(q, id, w)[i] = q[i]
  BY DEF Completed

(* Only the worker that has a job sends it back or lets it fail.           *)
LEMMA ThrownAt ==
  ASSUME NEW q \in [JobIds -> Job], NEW id \in JobIds, NEW w
  PROVE  /\ Thrown(q, id, w)[id] =
              IF Runs(q[id], w)
              THEN IF HasTryLeft(q[id]) THEN Delayed(q[id]) ELSE NewJob("failed")
              ELSE q[id]
         /\ \A i \in JobIds \ {id} : Thrown(q, id, w)[i] = q[i]
  BY DEF Thrown

(* A job whose lock ran out waits again or fails.                          *)
LEMMA StalledAt ==
  ASSUME NEW q \in [JobIds -> Job], NEW id \in JobIds
  PROVE  /\ Stalled(q, id)[id] \in {Redelivered(q[id]), NewJob("failed")}
         /\ \A i \in JobIds \ {id} : Stalled(q, id)[i] = q[i]
  BY DEF Stalled

(* A request that has written its row, when it comes to the queue: its old *)
(* job may go, and its new one is added unless it is there (enqueuePublish)*)
LEMMA RequestQueuesJob ==
  ASSUME TypeOK, NEW r \in Requests, RequestQueues(r), NEW id \in JobIds
  PROVE  \/ jobs'[id] = jobs[id]
         \/ /\ id = <<req[r].p, req[r].old>> /\ jobs[id].st # "active"
            /\ req[r].op # "retry" /\ jobs'[id] = NoJob
         \/ /\ id = <<req[r].p, req[r].new>> /\ req[r].op # "unschedule"
            /\ jobs[id].st # "active"
            /\ jobs'[id] = NewJob(IF req[r].op = "schedule" THEN "delayed"
                                                            ELSE "waiting")
<1> DEFINE new == <<req[r].p, req[r].new>>
           q == DropOldJob(jobs, r)
           st == IF req[r].op = "schedule" THEN "delayed" ELSE "waiting"
<1>1. jobs \in [JobIds -> Job] /\ q \in [JobIds -> Job]
  BY RemovedType DEF TypeOK, DropOldJob
<1>2. \/ q[id] = jobs[id]
      \/ /\ id = <<req[r].p, req[r].old>> /\ jobs[id].st # "active"
         /\ req[r].op # "retry" /\ q[id] = NoJob
  BY <1>1, RemovedAt DEF DropOldJob
<1>3. \/ Added(q, new, st)[id] = q[id]
      \/ id = new /\ q[id].st = "none" /\ Added(q, new, st)[id] = NewJob(st)
  BY <1>1, AddedAt
<1>4. \/ jobs' = q
      \/ req[r].op # "unschedule" /\ jobs' = Added(q, new, st)
  BY DEF RequestQueues
<1>5. QED
  BY <1>2, <1>3, <1>4

(* A run that goes on is still for the same try of the same job; when its  *)
(* processor ends, only its own job moves, and only if it still has it.    *)
LEMMA RunStepEffect ==
  ASSUME TypeOK, NEW w \in Workers, RunStep(w)
  PROVE  /\ run[w].pc # "idle" /\ UNCHANGED <<req, recon>>
         /\ \/ run'[w].pc = "idle"
            \/ /\ run'[w].pc \in Running \ {"claim"} /\ run'[w].p = run[w].p
               /\ run'[w].v = run[w].v /\ run'[w].n = run[w].n
         /\ \A id \in JobIds :
              \/ jobs'[id] = jobs[id]
              \/ /\ id = JobOf(w) /\ Runs(jobs[id], w) /\ run'[w].pc = "idle"
                 /\ \/ jobs'[id] = NewJob("completed") /\ Returns(w)
                    \/ jobs'[id] = NewJob("failed") /\ Throws(w) /\ ~HasTryLeft(jobs[id])
                    \/ jobs'[id] = Delayed(jobs[id]) /\ Throws(w) /\ HasTryLeft(jobs[id])
<1>0. run[w].pc # "idle" /\ UNCHANGED <<req, recon>>
  BY DEF RunStep, Claim, ClaimLost, Begin, CallSucceeds, CallRefused,
       CallAnswerLost, NoteOk, NotePublished, Announce, LateError, NoteFail,
       NoteStatus, Settle, RunThrows
<1>1. /\ run[w] \in [pc: Running, p: Pubs, v: Versions, n: Nat, usable: BOOLEAN,
                     noted: BOOLEAN, class: FailureClasses]
      /\ jobs \in [JobIds -> Job] /\ JobOf(w) \in JobIds /\ run \in [Workers -> RunState]
  BY <1>0, RunParts DEF TypeOK, RunState
<1>2. CASE Returns(w)
  <2>1. run'[w].pc = "idle"
    BY <1>1, <1>2 DEF Returns, Idle
  <2>2. QED
    BY <1>0, <1>1, <1>2, <2>1, CompletedAt DEF Returns
<1>3. CASE Throws(w)
  <2>1. run'[w].pc = "idle"
    BY <1>1, <1>3 DEF Throws, Idle
  <2>2. QED
    BY <1>0, <1>1, <1>3, <2>1, ThrownAt DEF Throws
<1>4. CASE ~Returns(w) /\ ~Throws(w)
  <2>1. jobs' = jobs
    BY <1>4 DEF RunStep, Claim, ClaimLost, Begin, CallSucceeds, CallRefused,
       CallAnswerLost, NoteOk, NotePublished, Announce, LateError, NoteFail,
       NoteStatus, Settle, RunThrows
  <2>2. \/ \E pc \in Running \ {"claim"} : Goto(w, pc)
        \/ \E class : GoesWrong(w, class)
        \/ run' = [run EXCEPT ![w].pc = "note_published", ![w].noted = TRUE]
    BY <1>4 DEF RunStep, Claim, ClaimLost, Begin, CallSucceeds, CallRefused,
       CallAnswerLost, NoteOk, NotePublished, Announce, LateError, NoteFail,
       NoteStatus, Settle, RunThrows, Running, Holding, Sent, Unsent
  <2>3. /\ run'[w].pc \in Running \ {"claim"} /\ run'[w].p = run[w].p
        /\ run'[w].v = run[w].v /\ run'[w].n = run[w].n
    BY <1>1, <2>2 DEF Goto, GoesWrong, Running, Holding, Sent, Unsent
  <2>4. QED
    BY <1>0, <2>1, <2>3
<1>5. QED
  BY <1>2, <1>3, <1>4

(* BullMQ hands out a waiting job; the run it starts reads the row, and a  *)
(* job that is stale, which one for a scheduled row of its version is not, *)
(* is completed at once (createPublishProcessor).                          *)
LEMMA StartEffect ==
  ASSUME TypeOK, NEW w \in Workers, NEW id \in JobIds, Start(w, id)
  PROVE  /\ run[w].pc = "idle" /\ jobs[id].st = "waiting"
         /\ UNCHANGED <<pub, req, recon, onPage, doubt, log>>
         /\ \A i \in JobIds \ {id} : jobs'[i] = jobs[i]
         /\ \A u \in Workers \ {w} : run'[u] = run[u]
         /\ \/ /\ run' = run /\ jobs'[id] = NewJob("completed")
               /\ \/ pub[id[1]].status # "scheduled"
                  \/ pub[id[1]].version # id[2]
            \/ /\ run'[w].pc = "claim" /\ run'[w].p = id[1] /\ run'[w].v = id[2]
               /\ run'[w].n = pub[id[1]].attempts + 1
               /\ pub[id[1]].version = id[2]
               /\ HasRow(pub[id[1]].status)
               /\ Runs(jobs'[id], w) /\ jobs'[id].made = jobs[id].made
<1> DEFINE q == Taken(jobs, id, w)
<1>1. /\ jobs \in [JobIds -> Job] /\ q \in [JobIds -> Job]
      /\ run \in [Workers -> RunState]
  BY TakenType DEF TypeOK
<1>2. /\ q[id].made = jobs[id].made /\ Runs(q[id], w)
      /\ \A i \in JobIds \ {id} : q[i] = jobs[i]
  BY <1>1, TakenAt
<1>3. /\ Completed(q, id, w)[id] = NewJob("completed")
      /\ \A i \in JobIds \ {id} : Completed(q, id, w)[i] = jobs[i]
  BY <1>1, <1>2, CompletedAt
<1>4. CASE run' = run /\ jobs' = Completed(q, id, w)
  <2>1. pub[id[1]].status # "scheduled" \/ pub[id[1]].version # id[2]
    <3>1. SUFFICES ASSUME pub[id[1]].status = "scheduled", pub[id[1]].version = id[2]
                   PROVE  FALSE
      OBVIOUS
    <3>2. jobs' = Taken(jobs, id, w)
      BY <3>1 DEF Start, HasRow
    <3>3. jobs'[id].st = "active" /\ NewJob("completed").st = "completed"
      BY <1>2, <3>2 DEF Runs, NewJob
    <3>4. QED
      BY <1>3, <1>4, <3>3
  <2>2. QED
    BY <1>3, <1>4, <2>1 DEF Start
<1>5. CASE jobs' = q /\ run' # run
  BY <1>1, <1>2, <1>5 DEF Start
<1>6. \/ run' = run /\ jobs' = Completed(q, id, w)
      \/ jobs' = q /\ run' # run
  <2>1. jobs' = q => run'[w].pc = "claim"
    <3>1. SUFFICES ASSUME jobs' = q PROVE run'[w].pc = "claim"
      OBVIOUS
    <3>2. q # Completed(q, id, w)
      BY <1>2, <1>3 DEF Runs, NewJob
    <3>3. QED
      BY <1>1, <3>1, <3>2 DEF Start
  <2>2. run[w].pc = "idle"
    BY DEF Start
  <2>3. QED
    BY <2>1, <2>2 DEF Start
<1>7. QED
  BY <1>4, <1>5, <1>6

-----------------------------------------------------------------------------
(* What a step does to the rows.  Only a request numbers a row anew or     *)
(* takes back that its time has come; a doubt stays.                       *)

(* The row keeps its number, what is due stays due, tries only add up, and *)
(* no doubt is forgotten.                                                  *)
KeepsRow(p) ==
  /\ pub'[p].version = pub[p].version
  /\ pub[p].due => pub'[p].due
  /\ pub[p].attempts <= pub'[p].attempts
  /\ Undisturbed(p)' => Undisturbed(p)

(* A step that leaves rows and doubts alone keeps every row.               *)
LEMMA SameRows ==
  ASSUME TypeOK, UNCHANGED <<pub, doubt>>, NEW p \in Pubs
  PROVE  KeepsRow(p)
<1>1. pub[p] \in Row
  BY DEF TypeOK
<1>2. pub[p].attempts <= pub[p].attempts
  BY <1>1 DEF Row
<1>3. QED
  BY <1>2 DEF KeepsRow, Undisturbed

(* A run's last write sets the status and updatedAt only (runPublication). *)
LEMMA SetStatusAt ==
  ASSUME TypeOK, NEW q \in Pubs, NEW s, SetStatus(q, s)
  PROVE  /\ pub'[q].status = s /\ pub'[q].version = pub[q].version
         /\ pub'[q].due = pub[q].due /\ pub'[q].attempts = pub[q].attempts
         /\ \A p \in Pubs \ {q} : pub'[p] = pub[p]
  BY DEF SetStatus, TypeOK, Row

(* The claim counts the try and takes the row (runPublication).            *)
LEMMA ClaimAt ==
  ASSUME TypeOK, NEW w \in Workers, Claim(w)
  PROVE  LET q == run[w].p IN
         /\ q \in Pubs /\ pub[q].status = "scheduled" /\ pub[q].version = run[w].v
         /\ pub'[q].status = "publishing" /\ pub'[q].version = pub[q].version
         /\ pub'[q].due = pub[q].due /\ pub'[q].attempts = pub[q].attempts + 1
         /\ \A p \in Pubs \ {q} : pub'[p] = pub[p]
<1>1. run[w].p \in Pubs
  BY RunParts DEF Claim
<1>2. QED
  BY <1>1 DEF Claim, CanClaim, TypeOK, Row

(* A run writes status, attempts and updatedAt only (runPublication).      *)
LEMMA WorkerKeepsRows ==
  ASSUME TypeOK, NEW w \in Workers, WorkerStep(w), NEW p \in Pubs
  PROVE  KeepsRow(p)
<1>0. pub[p] \in Row /\ pub \in [Pubs -> Row] /\ doubt \in [Pubs -> SUBSET Doubts]
  BY DEF TypeOK
<1>1. /\ pub'[p].version = pub[p].version /\ pub'[p].due = pub[p].due
      /\ pub'[p].attempts \in {pub[p].attempts, pub[p].attempts + 1}
  <2>1. CASE Claim(w)
    BY <2>1, ClaimAt
  <2>2. CASE NotePublished(w) \/ NoteStatus(w)
    <3>1. run[w].p \in Pubs /\ \E s \in RowStates : SetStatus(run[w].p, s)
      BY <2>2, RunParts DEF NotePublished, NoteStatus, RowStates
    <3>2. QED
      BY <3>1, SetStatusAt
  <2>3. CASE ~Claim(w) /\ ~NotePublished(w) /\ ~NoteStatus(w)
    BY <2>3 DEF WorkerStep, RunStep, Start, ClaimLost, Begin, CallSucceeds,
         CallRefused, CallAnswerLost, NoteOk, Announce, LateError, NoteFail,
         Settle, RunThrows, WorkerDies
  <2>4. QED
    BY <2>1, <2>2, <2>3
<1>2. doubt[p] \subseteq doubt'[p]
  BY <1>0 DEF WorkerStep, RunStep, Start, Claim, ClaimLost, Begin, CallSucceeds,
       CallRefused, CallAnswerLost, NoteOk, NotePublished, Announce, LateError,
       NoteFail, NoteStatus, Settle, RunThrows, WorkerDies, Doubted
<1>3. pub[p].attempts \in Nat
  BY <1>0 DEF Row
<1>4. QED
  BY <1>1, <1>2, <1>3 DEF KeepsRow, Undisturbed

(* The sweep writes the status of rows that are stuck.                     *)
LEMMA SweepKeepsRows ==
  ASSUME TypeOK, SweepStep, NEW p \in Pubs
  PROVE  KeepsRow(p)
<1>0. pub[p] \in Row /\ doubt \in [Pubs -> SUBSET Doubts]
  BY DEF TypeOK
<1>1. CASE SweepReleases
  <2>1. \/ pub'[p] = pub[p]
        \/ pub'[p] = [pub[p] EXCEPT !.status = "scheduled", !.aged = FALSE]
    BY <1>1 DEF SweepReleases
  <2>2. /\ pub'[p].version = pub[p].version /\ pub'[p].due = pub[p].due
        /\ pub'[p].attempts = pub[p].attempts /\ pub[p].attempts \in Nat
    BY <1>0, <2>1 DEF Row
  <2>3. doubt[p] \subseteq doubt'[p]
    BY <1>0, <1>1 DEF SweepReleases
  <2>4. QED
    BY <2>2, <2>3 DEF KeepsRow, Undisturbed
<1>2. CASE ~SweepReleases
  <2>1. UNCHANGED <<pub, doubt>>
    BY <1>2 DEF SweepStep, SweepReads, SweepEnqueues, SweepAborts
  <2>2. QED
    BY <2>1, SameRows
<1>3. QED
  BY <1>1, <1>2

(* Time makes rows due or old, and a disconnected Page deletes them.       *)
LEMMA WorldKeepsRows ==
  ASSUME TypeOK, WorldStep, NEW p \in Pubs
  PROVE  KeepsRow(p)
<1>0. pub[p] \in Row /\ pub \in [Pubs -> Row]
  BY DEF TypeOK
<1>1. UNCHANGED doubt
  BY DEF WorldStep, TimeComes, RowAges, ChannelBreaks, ChannelReconnected, Disconnect
<1>2. /\ pub'[p].version = pub[p].version /\ pub'[p].attempts = pub[p].attempts
      /\ pub[p].due => pub'[p].due
  <2>1. ASSUME NEW q \in Pubs, TimeComes(q) PROVE <1>2!:
    BY <1>0, <2>1 DEF TimeComes, Row
  <2>2. ASSUME NEW q \in Pubs, RowAges(q) PROVE <1>2!:
    BY <1>0, <2>2 DEF RowAges, Row
  <2>3. ASSUME NEW c \in Channels, Disconnect(c) PROVE <1>2!:
    BY <1>0, <2>3 DEF Disconnect, Row
  <2>4. ASSUME NEW c \in Channels, ChannelBreaks(c) \/ ChannelReconnected(c)
        PROVE  <1>2!:
    BY <2>4 DEF ChannelBreaks, ChannelReconnected
  <2>5. QED
    BY <2>1, <2>2, <2>3, <2>4 DEF WorldStep
<1>3. pub[p].attempts \in Nat
  BY <1>0 DEF Row
<1>4. QED
  BY <1>1, <1>2, <1>3 DEF KeepsRow, Undisturbed

(* Every step but a request's write keeps every row.                       *)
LEMMA NextKeepsRows ==
  ASSUME TypeOK, [Next]_vars, NEW p \in Pubs,
         ~\E r \in Requests : RequestWrites(r) /\ req[r].p = p
  PROVE  KeepsRow(p)
<1>1. ASSUME NEW r \in Requests, RequestStep(r) PROVE KeepsRow(p)
  <2>1. CASE RequestWrites(r)
    <3>1. pub'[p] = pub[p] /\ doubt'[p] = doubt[p]
      BY <2>1 DEF RequestWrites, Doubted, TypeOK
    <3>2. pub[p] \in Row
      BY DEF TypeOK
    <3>3. pub[p].attempts <= pub[p].attempts
      BY <3>2 DEF Row
    <3>4. QED
      BY <3>1, <3>3 DEF KeepsRow, Undisturbed
  <2>2. CASE ~RequestWrites(r)
    <3>1. UNCHANGED <<pub, doubt>>
      BY <1>1, <2>2 DEF RequestStep, RequestReads, RequestRefused, RequestQueues,
           RequestFindsRedisDown, RequestPlans, RequestLost
    <3>2. QED
      BY <3>1, SameRows
  <2>3. QED
    BY <2>1, <2>2
<1>2. CASE QueueStep
  BY <1>2, SameRows DEF QueueStep, JobBecomesDue, JobStalls, JobExpires, RedisFlushed
<1>3. CASE UNCHANGED vars
  BY <1>3, SameRows DEF vars
<1>4. QED
  BY <1>1, <1>2, <1>3, WorkerKeepsRows, SweepKeepsRows, WorldKeepsRows DEF Next

(* A request's write: the next version, waiting or cancelled.              *)
LEMMA RequestWritesRow ==
  ASSUME TypeOK, NEW r \in Requests, RequestWrites(r)
  PROVE  LET q == req[r].p IN
         /\ q \in Pubs /\ req[r].op \in Operations
         /\ UNCHANGED <<jobs, run, recon, onPage, log>>
         /\ pub'[q].version = pub[q].version + 1 /\ pub[q].version \in Nat
         /\ pub'[q].attempts = pub[q].attempts /\ pub[q].attempts \in Nat
         /\ pub'[q].status = IF req[r].op = "unschedule" THEN "cancelled" ELSE "scheduled"
         /\ pub'[q].due <=> \/ req[r].op = "publishNow"
                            \/ req[r].op # "schedule" /\ pub[q].due
         /\ req[r].op = "retry" /\ pub[q].status # "failed" => "user" \in doubt'[q]
         /\ pub[q].status \in {"publishing", "published"} => "user" \in doubt'[q]
         /\ Undisturbed(q)' => Undisturbed(q)
         /\ \A p \in Pubs \ {q} : pub'[p] = pub[p] /\ doubt'[p] = doubt[p]
         /\ req'[r].pc = "queue" /\ req'[r].p = q /\ req'[r].op = req[r].op
         /\ req'[r].old = req[r].old /\ req'[r].new = pub[q].version + 1
         /\ \A s \in Requests \ {r} : req'[s] = req[s]
<1> DEFINE q == req[r].p
<1>1. req[r] \in [pc: {"write", "queue", "plan"}, op: Operations, p: Pubs,
                  old: 0 .. MaxVersion, new: 0 .. MaxVersion]
  BY DEF RequestWrites, TypeOK, ReqState
<1>2. q \in Pubs /\ pub[q] \in Row
  BY <1>1 DEF TypeOK
<1>3. pub[q].version \in Nat /\ pub[q].attempts \in Nat /\ pub[q].due \in BOOLEAN
  BY <1>2 DEF Row
<1>4. pub'[q] = Written(pub[q], req[r].op) /\ \A p \in Pubs \ {q} : pub'[p] = pub[p]
  BY <1>2 DEF RequestWrites, TypeOK
<1>5. /\ pub'[q].version = pub[q].version + 1
      /\ pub'[q].attempts = pub[q].attempts
      /\ pub'[q].status = IF req[r].op = "unschedule" THEN "cancelled" ELSE "scheduled"
  BY <1>2, <1>4 DEF Written, Row
<1>6. pub'[q].due <=> \/ req[r].op = "publishNow"
                      \/ req[r].op # "schedule" /\ pub[q].due
  BY <1>2, <1>3, <1>4 DEF Written, Row
<1>7. /\ req'[r].pc = "queue" /\ req'[r].p = q /\ req'[r].op = req[r].op
      /\ req'[r].old = req[r].old /\ req'[r].new = pub[q].version + 1
      /\ \A s \in Requests \ {r} : req'[s] = req[s]
  BY <1>1 DEF RequestWrites, TypeOK
<1>8. /\ req[r].op = "retry" /\ pub[q].status # "failed" => "user" \in doubt'[q]
      /\ pub[q].status \in {"publishing", "published"} => "user" \in doubt'[q]
      /\ Undisturbed(q)' => Undisturbed(q)
      /\ \A p \in Pubs \ {q} : doubt'[p] = doubt[p]
  BY <1>2 DEF RequestWrites, Doubted, TypeOK, Undisturbed
<1>9. UNCHANGED <<jobs, run, recon, onPage, log>>
  BY DEF RequestWrites
<1>10. QED
  BY <1>1, <1>2, <1>3, <1>4, <1>5, <1>6, <1>7, <1>8, <1>9

-----------------------------------------------------------------------------
(* Where what is under way comes from: each piece of a job, a run, a       *)
(* request or a sweep in the next state is traced to the step that made it.*)

(* A request, a retention option or a lost Redis removes a job.            *)
Dropped(id) ==
  /\ jobs'[id] = NoJob
  /\ \/ \E r \in Requests :
          /\ RequestQueues(r) /\ id = <<req[r].p, req[r].old>>
          /\ req[r].op # "retry" /\ jobs[id].st # "active"
     \/ JobExpires(id)
     \/ RedisFlushed

(* A request adds one.                                                     *)
Queued(id) ==
  \E r \in Requests :
    /\ RequestQueues(r) /\ id = <<req[r].p, req[r].new>>
    /\ req[r].op # "unschedule" /\ jobs[id].st # "active"
    /\ jobs'[id] = NewJob(IF req[r].op = "schedule" THEN "delayed" ELSE "waiting")

(* The run that has it ends.                                               *)
Ended(id) ==
  \E w \in Workers :
    /\ RunStep(w) /\ id = JobOf(w) /\ Runs(jobs[id], w) /\ run'[w].pc = "idle"
    /\ \/ jobs'[id] = NewJob("completed") /\ Returns(w)
       \/ jobs'[id] = NewJob("failed") /\ Throws(w) /\ ~HasTryLeft(jobs[id])
       \/ jobs'[id] = Delayed(jobs[id]) /\ Throws(w) /\ HasTryLeft(jobs[id])

(* The sweep adds one.                                                     *)
Swept(id) ==
  /\ SweepEnqueues(id) /\ jobs[id].st = "none" /\ jobs'[id] = NewJob("waiting")

Moves(id) ==
  \/ Dropped(id) \/ Queued(id) \/ Ended(id) \/ Swept(id)
  \/ \E w \in Workers : Start(w, id)
  \/ JobBecomesDue(id) \/ JobStalls(id)

(* Removed or added, a job is not with a worker and has made no try.       *)
LEMMA FreshJob ==
  ASSUME NEW id, Dropped(id) \/ Queued(id) \/ Swept(id)
  PROVE  jobs'[id].st \in {"none", "delayed", "waiting"} /\ jobs'[id].made = 0
<1>1. \E st \in {"none", "delayed", "waiting"} : jobs'[id] = NewJob(st)
  BY DEF Dropped, Queued, Swept, NoJob
<1>2. QED
  BY <1>1 DEF NewJob

(* A job that changes is one of these.                                     *)
LEMMA JobMoves ==
  ASSUME TypeOK, [Next]_vars, NEW id \in JobIds, jobs'[id] # jobs[id]
  PROVE  Moves(id)
<1>0. jobs \in [JobIds -> Job]
  BY DEF TypeOK
<1>1. ASSUME NEW r \in Requests, RequestStep(r) PROVE Moves(id)
  <2>1. RequestQueues(r)
    BY <1>1 DEF RequestStep, RequestReads, RequestWrites, RequestRefused,
         RequestFindsRedisDown, RequestPlans, RequestLost
  <2>2. QED
    BY <2>1, RequestQueuesJob DEF Moves, Dropped, Queued
<1>2. ASSUME NEW w \in Workers, WorkerStep(w) PROVE Moves(id)
  <2>1. CASE RunStep(w)
    BY <2>1, RunStepEffect DEF Moves, Ended
  <2>2. ASSUME NEW i \in JobIds, Start(w, i) PROVE Moves(id)
    <3>1. i = id
      BY <2>2, StartEffect
    <3>2. QED
      BY <2>2, <3>1 DEF Moves
  <2>3. CASE WorkerDies(w)
    BY <2>3 DEF WorkerDies
  <2>4. QED
    BY <1>2, <2>1, <2>2, <2>3 DEF WorkerStep
<1>3. ASSUME QueueStep PROVE Moves(id)
  <2>1. ASSUME NEW i \in JobIds, JobBecomesDue(i) \/ JobStalls(i) \/ JobExpires(i)
        PROVE  Moves(id)
    <3>1. i = id
      BY <1>0, <2>1, StalledAt DEF JobBecomesDue, JobStalls, JobExpires
    <3>2. JobExpires(id) => jobs'[id] = NoJob
      BY <1>0 DEF JobExpires
    <3>3. QED
      BY <2>1, <3>1, <3>2 DEF Moves, Dropped
  <2>2. ASSUME RedisFlushed PROVE Moves(id)
    BY <2>2 DEF RedisFlushed, Moves, Dropped
  <2>3. QED
    BY <1>3, <2>1, <2>2 DEF QueueStep
<1>4. ASSUME SweepStep PROVE Moves(id)
  <2>1. PICK i \in JobIds : SweepEnqueues(i)
    BY <1>4 DEF SweepStep, SweepReads, SweepReleases, SweepAborts
  <2>2. /\ id = i /\ jobs[id].st = "none" /\ jobs'[id] = NewJob("waiting")
    BY <1>0, <2>1, AddedAt DEF SweepEnqueues
  <2>3. QED
    BY <2>1, <2>2 DEF Moves, Swept
<1>5. ASSUME WorldStep PROVE Moves(id)
  BY <1>5 DEF WorldStep, TimeComes, RowAges, ChannelBreaks, ChannelReconnected,
       Disconnect
<1>6. QED
  BY <1>1, <1>2, <1>3, <1>4, <1>5 DEF Next, vars

(* A slot changes by a step of its own.                                    *)
LEMMA RunMovesItself ==
  ASSUME TypeOK, [Next]_vars, NEW w \in Workers, run'[w] # run[w]
  PROVE  WorkerStep(w)
<1>1. ASSUME NEW r \in Requests, RequestStep(r) PROVE FALSE
  BY <1>1 DEF RequestStep, RequestReads, RequestWrites, RequestRefused,
       RequestQueues, RequestFindsRedisDown, RequestPlans, RequestLost
<1>2. ASSUME NEW u \in Workers, WorkerStep(u) PROVE u = w
  BY <1>2, OtherRuns
<1>3. ASSUME QueueStep PROVE FALSE
  BY <1>3 DEF QueueStep, JobBecomesDue, JobStalls, JobExpires, RedisFlushed
<1>4. ASSUME SweepStep PROVE FALSE
  BY <1>4 DEF SweepStep, SweepReads, SweepEnqueues, SweepReleases, SweepAborts
<1>5. ASSUME WorldStep PROVE FALSE
  BY <1>5 DEF WorldStep, TimeComes, RowAges, ChannelBreaks, ChannelReconnected,
       Disconnect
<1>6. QED
  BY <1>1, <1>2, <1>3, <1>4, <1>5 DEF Next, vars

(* A worker has started a job of the version the row has.                  *)
Started(w, id) ==
  /\ Start(w, id) /\ run[w].pc = "idle" /\ run'[w].pc = "claim"
  /\ run'[w].p = id[1] /\ run'[w].v = id[2]
  /\ run'[w].n = pub[id[1]].attempts + 1
  /\ pub[id[1]].version = id[2] /\ UNCHANGED <<pub, req, recon, onPage, doubt, log>>
  /\ jobs[id].st = "waiting" /\ HasRow(pub[id[1]].status)
  /\ Runs(jobs'[id], w) /\ jobs'[id].made = jobs[id].made

(* A run went on with the try of the job it was at.                        *)
WentOn(w) ==
  /\ run[w].pc # "idle"
  /\ run'[w].p = run[w].p /\ run'[w].v = run[w].v /\ run'[w].n = run[w].n
  /\ run'[w] = run[w] \/ (run'[w].pc # "claim" /\ RunStep(w))

(* A run under way did one or the other.                                   *)
LEMMA RunGoesOn ==
  ASSUME TypeOK, [Next]_vars, NEW w \in Workers, run'[w].pc # "idle"
  PROVE  WentOn(w) \/ \E id \in JobIds : Started(w, id)
<1>1. CASE run'[w] = run[w]
  BY <1>1 DEF WentOn
<1>2. CASE RunStep(w)
  BY <1>2, RunStepEffect DEF WentOn
<1>3. ASSUME NEW id \in JobIds, Start(w, id), run'[w] # run[w] PROVE Started(w, id)
  BY <1>3, StartEffect DEF Started
<1>4. ASSUME WorkerDies(w) PROVE FALSE
  BY <1>4 DEF WorkerDies, TypeOK, Idle
<1>5. QED
  BY <1>1, <1>2, <1>3, <1>4, RunMovesItself DEF WorkerStep

(* A request changes by a step of its own.                                 *)
LEMMA RequestMovesItself ==
  ASSUME TypeOK, [Next]_vars, NEW r \in Requests, req'[r] # req[r]
  PROVE  RequestStep(r)
<1>1. req \in [Requests -> ReqState]
  BY DEF TypeOK
<1>2. PICK s \in Requests : RequestStep(s)
  BY DEF Next, vars, WorkerStep, RunStep, Start, Claim, ClaimLost, Begin,
       CallSucceeds, CallRefused, CallAnswerLost, NoteOk, NotePublished,
       Announce, LateError, NoteFail, NoteStatus, Settle, RunThrows, WorkerDies,
       QueueStep, JobBecomesDue, JobStalls, JobExpires, RedisFlushed, SweepStep,
       SweepReads, SweepEnqueues, SweepReleases, SweepAborts, WorldStep,
       TimeComes, RowAges, ChannelBreaks, ChannelReconnected, Disconnect
<1>3. s = r
  BY <1>1, <1>2 DEF RequestStep, RequestReads, RequestWrites, RequestRefused,
       RequestQueues, RequestFindsRedisDown, RequestPlans, RequestLost,
       AfterQueue, Fails
<1>4. QED
  BY <1>2, <1>3

(* A request about to write or to queue was so before, or it has just read *)
(* the row, or just written it.                                            *)
LEMMA RequestGoesOn ==
  ASSUME TypeOK, [Next]_vars, NEW r \in Requests, req'[r].pc \in {"write", "queue"}
  PROVE  \/ req'[r] = req[r]
         \/ /\ req'[r].pc = "write" /\ req'[r].p \in Pubs
            /\ req'[r].old = pub[req'[r].p].version /\ UNCHANGED <<pub, doubt>>
         \/ req[r].pc = "write" /\ RequestWrites(r)
<1>1. req \in [Requests -> ReqState]
  BY DEF TypeOK
<1>2. SUFFICES ASSUME req'[r] # req[r]
               PROVE  \/ /\ req'[r].pc = "write" /\ req'[r].p \in Pubs
                         /\ req'[r].old = pub[req'[r].p].version
                         /\ UNCHANGED <<pub, doubt>>
                      \/ req[r].pc = "write" /\ RequestWrites(r)
  OBVIOUS
<1>3. RequestStep(r)
  BY <1>2, RequestMovesItself
<1>5. ASSUME NEW op \in Operations, NEW p \in Pubs, RequestReads(r, op, p)
      PROVE  /\ req'[r].pc = "write" /\ req'[r].p \in Pubs
             /\ req'[r].old = pub[req'[r].p].version /\ UNCHANGED <<pub, doubt>>
  BY <1>1, <1>5 DEF RequestReads
<1>6. RequestWrites(r) => req[r].pc = "write"
  BY DEF RequestWrites
<1>7. ~RequestRefused(r) /\ ~RequestLost(r)
  BY <1>1 DEF RequestRefused, RequestLost, Fails
<1>8. ~RequestQueues(r) /\ ~RequestFindsRedisDown(r)
  <2>1. ASSUME req[r].pc = "queue", AfterQueue(r) PROVE FALSE
    <3>1. req[r] \in [pc: {"write", "queue", "plan"}, op: Operations, p: Pubs,
                      old: 0 .. MaxVersion, new: 0 .. MaxVersion]
      BY <1>1, <2>1 DEF ReqState
    <3>2. QED
      BY <1>1, <2>1, <3>1 DEF AfterQueue, Idle
  <2>2. ~Fails(r)
    BY <1>1 DEF Fails
  <2>3. QED
    BY <2>1, <2>2 DEF RequestQueues, RequestFindsRedisDown
<1>9. ~RequestPlans(r)
  BY <1>1 DEF RequestPlans, Idle
<1>10. QED
  BY <1>3, <1>5, <1>6, <1>7, <1>8, <1>9 DEF RequestStep

(* What a sweep has to queue it had before, or it has just read: rows that *)
(* are scheduled and due, with their versions.                             *)
LEMMA SweepGoesOn ==
  ASSUME TypeOK, [Next]_vars, NEW x \in recon'.todo
  PROVE  \/ x \in recon.todo
         \/ /\ \E p \in Overdue : x = <<p, pub[p].version>>
            /\ UNCHANGED <<pub, doubt>>
<1>1. SUFFICES ASSUME recon' # recon
               PROVE  \/ x \in recon.todo
                      \/ /\ \E p \in Overdue : x = <<p, pub[p].version>>
                         /\ UNCHANGED <<pub, doubt>>
  OBVIOUS
<1>2. SweepStep
  BY <1>1 DEF Next, vars, WorkerStep, RunStep, Start, Claim, ClaimLost, Begin,
       CallSucceeds, CallRefused, CallAnswerLost, NoteOk, NotePublished,
       Announce, LateError, NoteFail, NoteStatus, Settle, RunThrows, WorkerDies,
       QueueStep, JobBecomesDue, JobStalls, JobExpires, RedisFlushed,
       RequestStep, RequestReads, RequestWrites, RequestRefused,
       RequestQueues, RequestFindsRedisDown, RequestPlans, RequestLost,
       WorldStep, TimeComes, RowAges, ChannelBreaks, ChannelReconnected, Disconnect
<1>3. SweepReads => /\ \E p \in Overdue : x = <<p, pub[p].version>>
                    /\ UNCHANGED <<pub, doubt>>
  BY DEF SweepReads
<1>4. (\E id \in JobIds : SweepEnqueues(id)) => x \in recon.todo
  BY DEF SweepEnqueues, TypeOK, ReconState
<1>5. ~SweepReleases /\ ~SweepAborts
  <2>1. SweepReleases \/ SweepAborts => recon' = SweepOver
    BY DEF SweepReleases, SweepAborts
  <2>2. QED
    BY <2>1 DEF SweepOver
<1>6. QED
  BY <1>2, <1>3, <1>4, <1>5 DEF SweepStep

-----------------------------------------------------------------------------
(* Versions.  A row is numbered before anything else is: no job, no run, no*)
(* request and no sweep is ahead of it, and a request takes the number it  *)
(* has written for newer than the one it read.                             *)
NothingAhead ==
  /\ \A id \in JobIds : id[2] > pub[id[1]].version => jobs[id] = NoJob
  /\ \A w \in Workers : run[w].pc # "idle" => run[w].v <= pub[run[w].p].version
  /\ \A r \in Requests :
       /\ req[r].pc = "write" => req[r].old <= pub[req[r].p].version
       /\ req[r].pc = "queue" => /\ req[r].old < req[r].new
                                 /\ req[r].new <= pub[req[r].p].version
  /\ \A x \in recon.todo : x[2] <= pub[x[1]].version

(* Before anybody asks there is nothing at all.                            *)
LEMMA AheadInit == Init => NothingAhead
  BY DEF Init, NothingAhead, Idle, SweepOver

(* Versions only grow.                                                     *)
LEMMA VersionsGrow ==
  ASSUME TypeOK, TypeOK', [Next]_vars, NEW p \in Pubs
  PROVE  /\ pub[p].version \in Nat /\ pub'[p].version \in Nat
         /\ pub[p].version <= pub'[p].version
<1>1. /\ pub[p].version \in Nat /\ pub'[p].version \in Nat
  <2>1. pub[p] \in Row /\ pub'[p] \in Row
    BY DEF TypeOK
  <2>2. QED
    BY <2>1 DEF Row
<1>2. CASE \E r \in Requests : RequestWrites(r) /\ req[r].p = p
  <2>1. pub'[p].version = pub[p].version + 1
    BY <1>2, RequestWritesRow
  <2>2. QED
    BY <1>1, <2>1
<1>3. CASE ~\E r \in Requests : RequestWrites(r) /\ req[r].p = p
  BY <1>1, <1>3, NextKeepsRows DEF KeepsRow
<1>4. QED
  BY <1>2, <1>3

(* A job's id is a publication and a version (PUBLISH_JOB_ID).             *)
LEMMA IdParts ==
  ASSUME NEW id \in JobIds
  PROVE  id[1] \in Pubs /\ id[2] \in Versions /\ id = <<id[1], id[2]>> /\ id[2] \in Nat
  BY BoundsAssumption DEF JobIds, Versions

(* No step puts anything ahead of its row.                                 *)
LEMMA AheadNext ==
  ASSUME TypeOK, TypeOK', NothingAhead, [Next]_vars
  PROVE  NothingAhead'
<1>1. ASSUME NEW id \in JobIds, id[2] > pub'[id[1]].version
      PROVE  jobs'[id] = NoJob
  <2>1. /\ id[1] \in Pubs /\ id[2] \in Nat /\ id = <<id[1], id[2]>>
        /\ id[2] > pub[id[1]].version /\ ~(id[2] <= pub[id[1]].version)
    <3>1. id[1] \in Pubs /\ id[2] \in Nat /\ id = <<id[1], id[2]>>
      BY IdParts
    <3>2. QED
      BY <1>1, <3>1, VersionsGrow
  <2>2. jobs[id] = NoJob /\ jobs[id].st = "none"
    BY <2>1 DEF NothingAhead, NoJob, NewJob
  <2>3. ~Queued(id)
    <3>1. \A r \in Requests : RequestQueues(r) => req[r].new <= pub[req[r].p].version
      BY DEF NothingAhead, RequestQueues
    <3>2. QED
      BY <2>1, <3>1 DEF Queued
  <2>4. ~Ended(id) /\ ~\E w \in Workers : Start(w, id)
    BY <2>2 DEF Ended, Runs, Start
  <2>5. ~JobBecomesDue(id) /\ ~JobStalls(id)
    BY <2>2 DEF JobBecomesDue, JobStalls
  <2>6. ~Swept(id)
    <3>1. id \in recon.todo => id[2] <= pub[id[1]].version
      BY DEF NothingAhead
    <3>2. QED
      BY <2>1, <3>1 DEF Swept, SweepEnqueues
  <2>7. QED
    BY <2>2, <2>3, <2>4, <2>5, <2>6, JobMoves DEF Moves, Dropped
<1>2. ASSUME NEW w \in Workers, run'[w].pc # "idle"
      PROVE  run'[w].v <= pub'[run'[w].p].version
  <2>1. CASE WentOn(w)
    <3>1. /\ run[w].p \in Pubs /\ run[w].v \in Nat
          /\ run[w].v <= pub[run[w].p].version
      <4>1. run[w].p \in Pubs /\ run[w].v \in Versions
        BY <2>1, RunParts DEF WentOn
      <4>2. run[w].v \in Nat
        BY <4>1, BoundsAssumption DEF Versions
      <4>3. QED
        BY <2>1, <4>1, <4>2 DEF WentOn, NothingAhead
    <3>2. QED
      BY <2>1, <3>1, VersionsGrow DEF WentOn
  <2>2. ASSUME NEW id \in JobIds, Started(w, id)
        PROVE  run'[w].v <= pub'[run'[w].p].version
    BY <2>2, IdParts DEF Started
  <2>3. QED
    BY <1>2, <2>1, <2>2, RunGoesOn
<1>3. ASSUME NEW r \in Requests
      PROVE  /\ req'[r].pc = "write" => req'[r].old <= pub'[req'[r].p].version
             /\ req'[r].pc = "queue" => /\ req'[r].old < req'[r].new
                                        /\ req'[r].new <= pub'[req'[r].p].version
  <2>1. CASE req'[r].pc \in {"write", "queue"} /\ req'[r] = req[r]
    <3>1. /\ req[r].p \in Pubs
          /\ req[r].old \in Nat /\ req[r].new \in Nat
      BY <2>1, RequestParts, BoundsAssumption
    <3>2. QED
      BY <2>1, <3>1, VersionsGrow DEF NothingAhead
  <2>2. CASE /\ req'[r].pc = "write" /\ req'[r].p \in Pubs
             /\ req'[r].old = pub[req'[r].p].version /\ UNCHANGED <<pub, doubt>>
    BY <2>2, VersionsGrow
  <2>3. CASE req[r].pc = "write" /\ RequestWrites(r)
    <3>1. /\ req[r].p \in Pubs /\ req[r].old \in Nat
          /\ req[r].old <= pub[req[r].p].version
      BY <2>3, RequestParts, BoundsAssumption DEF NothingAhead
    <3>2. /\ req'[r].pc = "queue" /\ req'[r].p = req[r].p /\ req'[r].old = req[r].old
          /\ req'[r].new = pub[req[r].p].version + 1
          /\ pub'[req[r].p].version = pub[req[r].p].version + 1
      BY <2>3, RequestWritesRow
    <3>3. QED
      BY <3>1, <3>2, VersionsGrow
  <2>4. QED
    BY <2>1, <2>2, <2>3, RequestGoesOn
<1>4. ASSUME NEW x \in recon'.todo PROVE x[2] <= pub'[x[1]].version
  <2>1. CASE x \in recon.todo
    <3>1. x[1] \in Pubs /\ x[2] \in Nat /\ x[2] <= pub[x[1]].version
      BY <2>1 DEF TypeOK, ReconState, NothingAhead
    <3>2. QED
      BY <3>1, VersionsGrow
  <2>2. ASSUME NEW p \in Overdue, x = <<p, pub[p].version>>, UNCHANGED pub
        PROVE  x[2] <= pub'[x[1]].version
    BY <2>2, VersionsGrow DEF Overdue
  <2>3. QED
    BY <2>1, <2>2, SweepGoesOn
<1>5. QED
  BY <1>1, <1>2, <1>3, <1>4 DEF NothingAhead

-----------------------------------------------------------------------------
(* Time.                                                                   *)

(* Who writes a status: a request, the run of the publication, the sweep   *)
(* over a stuck row, or whoever disconnects the Page.                      *)
LEMMA StatusChanges ==
  ASSUME TypeOK, [Next]_vars, NEW p \in Pubs, pub'[p].status # pub[p].status
  PROVE  \/ \E r \in Requests : RequestWrites(r) /\ req[r].p = p
         \/ \E w \in Workers : /\ run[w].p = p
                               /\ Claim(w) \/ NotePublished(w) \/ NoteStatus(w)
         \/ SweepReleases /\ Stuck(p) /\ pub'[p].status = "scheduled"
         \/ pub'[p].status = "gone" /\ HasRow(pub[p].status)
            /\ \E c \in Channels : Disconnect(c)
<1> DEFINE Goal ==
      \/ \E r \in Requests : RequestWrites(r) /\ req[r].p = p
      \/ \E w \in Workers : /\ run[w].p = p
                            /\ Claim(w) \/ NotePublished(w) \/ NoteStatus(w)
      \/ SweepReleases /\ Stuck(p) /\ pub'[p].status = "scheduled"
      \/ pub'[p].status = "gone" /\ HasRow(pub[p].status)
         /\ \E c \in Channels : Disconnect(c)
<1>0. pub[p] \in Row /\ pub \in [Pubs -> Row]
  BY DEF TypeOK
<1>1. ASSUME NEW r \in Requests, RequestStep(r) PROVE Goal
  <2>1. RequestWrites(r)
    BY <1>1 DEF RequestStep, RequestReads, RequestQueues, RequestRefused,
         RequestFindsRedisDown, RequestPlans, RequestLost
  <2>2. QED
    BY <2>1, RequestWritesRow
<1>2. ASSUME NEW w \in Workers, WorkerStep(w) PROVE Goal
  <2>1. Claim(w) \/ NotePublished(w) \/ NoteStatus(w)
    BY <1>2 DEF WorkerStep, RunStep, Start, ClaimLost, Begin, CallSucceeds,
         CallRefused, CallAnswerLost, NoteOk, Announce, LateError, NoteFail,
         Settle, RunThrows, WorkerDies
  <2>2. run[w].p = p
    <3>1. CASE Claim(w)
      BY <3>1, ClaimAt
    <3>2. CASE NotePublished(w) \/ NoteStatus(w)
      <4>1. run[w].p \in Pubs /\ \E s \in RowStates : SetStatus(run[w].p, s)
        BY <3>2, RunParts DEF NotePublished, NoteStatus, RowStates
      <4>2. QED
        BY <4>1, SetStatusAt
    <3>3. QED
      BY <2>1, <3>1, <3>2
  <2>3. QED
    BY <2>1, <2>2
<1>3. ASSUME SweepStep PROVE Goal
  <2>1. SweepReleases
    BY <1>3 DEF SweepStep, SweepReads, SweepEnqueues, SweepAborts
  <2>2. Stuck(p) /\ pub'[p] = [pub[p] EXCEPT !.status = "scheduled", !.aged = FALSE]
    BY <2>1 DEF SweepReleases
  <2>3. pub'[p].status = "scheduled"
    BY <1>0, <2>2 DEF Row
  <2>4. QED
    BY <2>1, <2>2, <2>3
<1>4. ASSUME WorldStep PROVE Goal
  <2>1. ASSUME NEW q \in Pubs, TimeComes(q) \/ RowAges(q) PROVE Goal
    BY <1>0, <2>1 DEF TimeComes, RowAges, Row
  <2>2. ASSUME NEW c \in Channels, Disconnect(c) PROVE Goal
    BY <1>0, <2>2 DEF Disconnect, Row
  <2>3. ASSUME NEW c \in Channels, ChannelBreaks(c) \/ ChannelReconnected(c)
        PROVE  Goal
    BY <2>3 DEF ChannelBreaks, ChannelReconnected
  <2>4. QED
    BY <1>4, <2>1, <2>2, <2>3 DEF WorldStep
<1>5. ~QueueStep
  BY DEF QueueStep, JobBecomesDue, JobStalls, JobExpires, RedisFlushed
<1>6. QED
  BY <1>1, <1>2, <1>3, <1>4, <1>5 DEF Next, vars

(* Nobody has overtaken the row and its time has not come.                 *)
NotDue(p) == Undisturbed(p) /\ ~pub[p].due

(* Such a row has never been tried, and of its version there is at most a  *)
(* job that waits for the time, and a request to schedule or cancel it: no *)
(* run, no sweep, no job that runs at once.                                *)
NothingEarly ==
  /\ \A p \in Pubs : NotDue(p) =>
       pub[p].status \notin {"publishing", "failed", "published"}
  /\ \A id \in JobIds : NotDue(id[1]) /\ id[2] = pub[id[1]].version =>
       jobs[id].st \in {"none", "delayed"} /\ jobs[id].made = 0
  /\ \A w \in Workers : run[w].pc # "idle" /\ NotDue(run[w].p) =>
       run[w].v # pub[run[w].p].version
  /\ \A r \in Requests :
       req[r].pc = "queue" /\ NotDue(req[r].p) /\ req[r].new = pub[req[r].p].version
         => req[r].op \in {"schedule", "unschedule"}
  /\ \A x \in recon.todo : NotDue(x[1]) => x[2] # pub[x[1]].version

(* Before anybody asks nothing can be early.                               *)
LEMMA EarlyInit == Init => NothingEarly
  BY DEF Init, NothingEarly, Idle, SweepOver, NoJob, NewJob

(* A row that is not due yet was not due before, unless a request has just *)
(* moved it, to a version nothing else knows.                              *)
LEMMA NotDueBefore ==
  ASSUME TypeOK, [Next]_vars, NEW p \in Pubs, NotDue(p)',
         ~\E r \in Requests : RequestWrites(r) /\ req[r].p = p
  PROVE  NotDue(p) /\ pub'[p].version = pub[p].version
<1>1. KeepsRow(p)
  BY NextKeepsRows
<1>2. QED
  BY <1>1 DEF KeepsRow, NotDue

(* No step is early.  A retry of a row that was never tried leaves a doubt.*)
LEMMA EarlyNext ==
  ASSUME ClaimInv, TypeOK', NothingAhead, NothingEarly, [Next]_vars
  PROVE  NothingEarly'
<1> DEFINE Moved(p) == \E r \in Requests : RequestWrites(r) /\ req[r].p = p
<1>0. TypeOK
  BY DEF ClaimInv
<1>a. ASSUME NEW p \in Pubs, Moved(p)
      PROVE  /\ pub'[p].version = pub[p].version + 1 /\ pub[p].version \in Nat
             /\ pub'[p].status \in {"cancelled", "scheduled"}
             /\ UNCHANGED <<jobs, run, recon>>
  BY <1>0, <1>a, RequestWritesRow
<1>b. ASSUME NEW p \in Pubs, ~Moved(p), NotDue(p)'
      PROVE  NotDue(p) /\ pub'[p].version = pub[p].version
  BY <1>0, <1>b, NotDueBefore
<1>1. ASSUME NEW p \in Pubs, NotDue(p)'
      PROVE  pub'[p].status \notin {"publishing", "failed", "published"}
  <2>1. CASE Moved(p)
    BY <1>a, <2>1
  <2>2. CASE ~Moved(p)
    <3>1. NotDue(p) /\ pub[p].status \notin {"publishing", "failed", "published"}
      BY <1>1, <1>b, <2>2 DEF NothingEarly
    <3>2. ASSUME NEW w \in Workers, run[w].p = p, Claim(w) PROVE FALSE
      BY <1>0, <3>1, <3>2, ClaimAt DEF NothingEarly, Claim
    <3>3. ASSUME NEW w \in Workers, run[w].p = p, NotePublished(w) \/ NoteStatus(w)
          PROVE  FALSE
      <4>1. HoldsClaim(w, p) /\ pub[p].status # "gone"
        BY <3>3 DEF HoldsClaim, NotePublished, NoteStatus, Holding, Sent, Unsent, HasRow
      <4>2. QED
        BY <3>1, <4>1 DEF ClaimInv, ClaimIsCurrent, NotDue
    <3>4. QED
      BY <1>0, <2>2, <3>1, <3>2, <3>3, StatusChanges
  <2>3. QED
    BY <2>1, <2>2
<1>2. ASSUME NEW id \in JobIds, NotDue(id[1])', id[2] = pub'[id[1]].version
      PROVE  jobs'[id].st \in {"none", "delayed"} /\ jobs'[id].made = 0
  <2>0. id[1] \in Pubs /\ id[2] \in Nat /\ id = <<id[1], id[2]>>
    BY IdParts
  <2>1. CASE Moved(id[1])
    <3>1. jobs'[id] = jobs[id] /\ id[2] > pub[id[1]].version
      BY <1>2, <1>a, <2>0, <2>1
    <3>2. QED
      BY <3>1 DEF NothingAhead, NoJob, NewJob
  <2>2. CASE ~Moved(id[1])
    <3>1. /\ NotDue(id[1]) /\ id[2] = pub[id[1]].version
          /\ jobs[id].st \in {"none", "delayed"} /\ jobs[id].made = 0
      BY <1>2, <1>b, <2>0, <2>2 DEF NothingEarly
    <3>2. CASE Dropped(id)
      BY <3>2 DEF Dropped, NoJob, NewJob
    <3>3. CASE Queued(id)
      <4>1. PICK r \in Requests :
              /\ RequestQueues(r) /\ id = <<req[r].p, req[r].new>>
              /\ req[r].op # "unschedule"
              /\ jobs'[id] = NewJob(IF req[r].op = "schedule" THEN "delayed" ELSE "waiting")
        BY <3>3 DEF Queued
      <4>2. req[r].op = "schedule"
        BY <3>1, <4>1 DEF NothingEarly, RequestQueues
      <4>3. QED
        BY <4>1, <4>2 DEF NewJob
    <3>4. ~Ended(id) /\ ~\E w \in Workers : Start(w, id)
      BY <3>1 DEF Ended, Runs, Start
    <3>5. ~JobBecomesDue(id) /\ ~JobStalls(id)
      BY <3>1 DEF JobBecomesDue, JobStalls, NotDue
    <3>6. ~Swept(id)
      BY <3>1 DEF Swept, SweepEnqueues, NothingEarly
    <3>7. QED
      BY <1>0, <3>1, <3>2, <3>3, <3>4, <3>5, <3>6, JobMoves DEF Moves
  <2>3. QED
    BY <2>1, <2>2
<1>3. ASSUME NEW w \in Workers, run'[w].pc # "idle",
             NEW q, q = run'[w].p, NotDue(q)'
      PROVE  run'[w].v # pub'[run'[w].p].version
  <2>1. CASE WentOn(w)
    <3>1. /\ run[w].p \in Pubs /\ run[w].v \in Versions /\ run[w].pc # "idle"
          /\ run'[w].p = run[w].p /\ run'[w].v = run[w].v
      BY <1>0, <2>1, RunParts DEF WentOn
    <3>2. CASE Moved(run[w].p)
      <4>1. /\ run[w].v <= pub[run[w].p].version /\ run[w].v \in Nat
            /\ pub'[run[w].p].version = pub[run[w].p].version + 1
            /\ pub[run[w].p].version \in Nat
        BY <1>a, <3>1, <3>2, BoundsAssumption DEF NothingAhead, Versions
      <4>2. QED
        BY <3>1, <4>1
    <3>3. CASE ~Moved(run[w].p)
      BY <1>3, <1>b, <3>1, <3>3 DEF NothingEarly
    <3>4. QED
      BY <3>2, <3>3
  <2>2. ASSUME NEW id \in JobIds, Started(w, id) PROVE FALSE
    <3>1. NotDue(id[1])
      BY <1>3, <2>2 DEF Started, NotDue, Undisturbed
    <3>2. QED
      BY <2>2, <3>1 DEF Started, NothingEarly
  <2>3. QED
    BY <1>0, <1>3, <2>1, <2>2, RunGoesOn
<1>4. ASSUME NEW r \in Requests, req'[r].pc = "queue",
             NEW q, q = req'[r].p, NotDue(q)', req'[r].new = pub'[q].version
      PROVE  req'[r].op \in {"schedule", "unschedule"}
  <2>1. CASE req'[r] = req[r]
    <3>1. req[r].pc = "queue" /\ req[r].p \in Pubs /\ req[r].new \in Nat
      BY <1>0, <1>4, <2>1, RequestParts, BoundsAssumption
    <3>2. CASE Moved(req[r].p)
      <4>1. /\ req[r].new <= pub[req[r].p].version
            /\ pub'[req[r].p].version = pub[req[r].p].version + 1
            /\ pub[req[r].p].version \in Nat
        BY <1>a, <3>1, <3>2 DEF NothingAhead
      <4>2. QED
        BY <1>4, <2>1, <3>1, <4>1
    <3>3. CASE ~Moved(req[r].p)
      BY <1>4, <1>b, <2>1, <3>1, <3>3 DEF NothingEarly
    <3>4. QED
      BY <3>2, <3>3
  <2>2. CASE RequestWrites(r)
    <3>0. q = req[r].p /\ q \in Pubs
      BY <1>0, <1>4, <2>2, RequestWritesRow
    <3>1. /\ req'[r].op = req[r].op
          /\ req[r].op \in Operations
          /\ pub'[q].due <=> \/ req[r].op = "publishNow"
                             \/ req[r].op # "schedule" /\ pub[q].due
          /\ req[r].op = "retry" /\ pub[q].status # "failed" => "user" \in doubt'[q]
          /\ Undisturbed(q)' => Undisturbed(q)
      BY <1>0, <2>2, <3>0, RequestWritesRow
    <3>2. Undisturbed(q) /\ ~pub'[q].due /\ doubt'[q] = {}
      BY <1>4, <3>1 DEF NotDue, Undisturbed
    <3>3. ASSUME req[r].op = "retry" PROVE FALSE
      <4>1. pub[q].status = "failed" /\ ~pub[q].due
        BY <3>1, <3>2, <3>3
      <4>2. QED
        BY <3>0, <3>2, <4>1 DEF NothingEarly, NotDue
    <3>4. QED
      BY <3>1, <3>2, <3>3, BoundsAssumption DEF AllOperations
  <2>3. QED
    BY <1>0, <1>4, <2>1, <2>2, RequestGoesOn
<1>5. ASSUME NEW x \in recon'.todo, NotDue(x[1])' PROVE x[2] # pub'[x[1]].version
  <2>1. CASE x \in recon.todo
    <3>1. x[1] \in Pubs /\ x[2] \in Nat /\ x[2] <= pub[x[1]].version
      BY <1>0, <2>1 DEF TypeOK, ReconState, NothingAhead
    <3>2. CASE Moved(x[1])
      BY <1>a, <3>1, <3>2
    <3>3. CASE ~Moved(x[1])
      BY <1>5, <1>b, <2>1, <3>1, <3>3 DEF NothingEarly
    <3>4. QED
      BY <3>2, <3>3
  <2>2. ASSUME NEW p \in Overdue, x = <<p, pub[p].version>>, UNCHANGED pub PROVE FALSE
    BY <1>5, <2>2 DEF Overdue, NotDue
  <2>3. QED
    BY <1>0, <2>1, <2>2, SweepGoesOn
<1>6. QED
  BY <1>1, <1>2, <1>3, <1>4, <1>5 DEF NothingEarly, NotDue, Undisturbed

(* Types, the claim, versions and time together, in every behaviour.       *)
TimeInv == ClaimInv /\ NothingAhead /\ NothingEarly

(* The initial states satisfy it, and every step keeps it.                 *)
LEMMA TimeInductive ==
  /\ Init => TimeInv
  /\ TimeInv /\ [Next]_vars => TimeInv'
<1>1. Init => TimeInv
  BY ClaimInit, AheadInit, EarlyInit DEF TimeInv
<1>2. ASSUME TimeInv, [Next]_vars PROVE TimeInv'
  <2>1. ClaimInv' /\ TypeOK /\ TypeOK'
    BY <1>2, ClaimNext, NextType DEF TimeInv, ClaimInv
  <2>2. QED
    BY <1>2, <2>1, AheadNext, EarlyNext DEF TimeInv
<1>3. QED
  BY <1>1, <1>2

(* No post is claimed before the time its row is scheduled for, whichever  *)
(* job, backoff or sweep starts it, unless a user or the sweep has overtaken*)
(* a run of it.                                                            *)
THEOREM NothingStartsEarly == Spec => NeverEarly
<1> DEFINE Step == \A p \in Pubs :
             (/\ pub[p].status = "scheduled" /\ pub'[p].status = "publishing"
              /\ Undisturbed(p))
             => pub[p].due
<1>1. ASSUME TimeInv, [Next]_vars PROVE Step
  <2>1. SUFFICES ASSUME NEW p \in Pubs, pub[p].status = "scheduled",
                        pub'[p].status = "publishing", Undisturbed(p), ~pub[p].due
                 PROVE  FALSE
    OBVIOUS
  <2>2. TypeOK /\ NothingEarly
    BY <1>1 DEF TimeInv, ClaimInv
  <2>3. ~\E r \in Requests : RequestWrites(r) /\ req[r].p = p
    BY <2>1, <2>2, RequestWritesRow
  <2>4. ASSUME NEW w \in Workers, run[w].p = p, NotePublished(w) \/ NoteStatus(w)
        PROVE  FALSE
    <3>1. HoldsClaim(w, p)
      BY <2>4 DEF HoldsClaim, NotePublished, NoteStatus, Holding, Sent, Unsent
    <3>2. QED
      BY <1>1, <2>1, <3>1 DEF TimeInv, ClaimInv, ClaimIsCurrent
  <2>5. PICK w \in Workers : run[w].p = p /\ Claim(w)
    BY <1>1, <2>1, <2>2, <2>3, <2>4, StatusChanges
  <2>6. run[w].v = pub[p].version /\ run[w].pc # "idle"
    BY <2>2, <2>5, ClaimAt DEF Claim
  <2>7. QED
    BY <2>1, <2>2, <2>5, <2>6 DEF NothingEarly, NotDue
<1>2. TimeInv /\ [Next]_vars => [Step]_vars
  BY <1>1
<1>3. QED
  BY <1>2, TimeInductive, PTL DEF Spec, NeverEarly

-----------------------------------------------------------------------------
(* The record.                                                             *)

(* The runs that have an attempt row open for p and no post for it yet:    *)
(* about to call, or about to say that the call has failed.                *)
InFlight(p) == {w \in Workers : run[w].pc \in {"call", "note_fail"} /\ run[w].p = p}

(* Every post on the Page and every run in flight has an attempt row of its*)
(* own, so a run that finishes one takes nothing from a post.              *)
LogInv ==
  /\ \A p \in Pubs : pub[p].status = "none" =>
       onPage[p] = 0 /\ log[p].ok = 0 /\ log[p].open = 0
  /\ \A w \in Workers : run[w].pc # "idle" => pub[run[w].p].status # "none"
  /\ \A p \in Pubs : pub[p].status # "gone" /\ "late" \notin doubt[p] =>
       onPage[p] + Cardinality(InFlight(p)) <= log[p].ok + log[p].open

(* The slots are finitely many, so these runs can be counted.              *)
LEMMA InFlightCounts ==
  ASSUME NEW p
  PROVE  /\ IsFiniteSet(InFlight(p)) /\ Cardinality(InFlight(p)) \in Nat
         /\ IsFiniteSet(InFlight(p)') /\ Cardinality(InFlight(p)') \in Nat
<1>1. InFlight(p) \subseteq Workers /\ InFlight(p)' \subseteq Workers
  BY DEF InFlight
<1>2. QED
  BY <1>1, WorkersAssumption, FS_Subset, FS_CardinalityType

(* At first there is neither post nor record.                              *)
LEMMA LogInit == Init => LogInv
<1> SUFFICES ASSUME Init PROVE LogInv
  OBVIOUS
<1>1. \A w \in Workers : run[w].pc = "idle"
  BY DEF Init, Idle
<1>2. \A p \in Pubs : Cardinality(InFlight(p)) = 0
  <2>1. \A p \in Pubs : InFlight(p) = {}
    BY <1>1 DEF InFlight
  <2>2. QED
    BY <2>1, FS_EmptySet
<1>3. \A p \in Pubs : onPage[p] = 0 /\ log[p].ok = 0 /\ log[p].open = 0
  BY DEF Init
<1>4. QED
  BY <1>1, <1>2, <1>3 DEF LogInv

(* A doubt stays, and so does a row that is gone.                          *)
LEMMA DoubtsStay ==
  ASSUME TypeOK, [Next]_vars, NEW p \in Pubs
  PROVE  /\ doubt[p] \subseteq doubt'[p]
         /\ pub[p].status = "gone" => pub'[p].status = "gone"
         /\ pub'[p].status = "none" => pub[p].status = "none"
<1>1. doubt[p] \subseteq doubt'[p]
  <2>0. doubt \in [Pubs -> SUBSET Doubts]
    BY DEF TypeOK
  <2>1. ASSUME NEW r \in Requests, RequestStep(r) PROVE <1>1!:
    BY <2>0, <2>1 DEF RequestStep, RequestReads, RequestWrites, RequestRefused,
         RequestQueues, RequestFindsRedisDown, RequestPlans, RequestLost, Doubted
  <2>2. ASSUME NEW w \in Workers, WorkerStep(w) PROVE <1>1!:
    BY <2>0, <2>2 DEF WorkerStep, RunStep, Start, Claim, ClaimLost, Begin,
         CallSucceeds, CallRefused, CallAnswerLost, NoteOk, NotePublished,
         Announce, LateError, NoteFail, NoteStatus, Settle, RunThrows,
         WorkerDies, Doubted
  <2>3. ASSUME QueueStep PROVE <1>1!:
    BY <2>3 DEF QueueStep, JobBecomesDue, JobStalls, JobExpires, RedisFlushed
  <2>4. ASSUME SweepStep PROVE <1>1!:
    <3>1. CASE SweepReleases
      BY <2>0, <3>1 DEF SweepReleases
    <3>2. CASE ~SweepReleases
      BY <2>4, <3>2 DEF SweepStep, SweepReads, SweepEnqueues, SweepAborts
    <3>3. QED
      BY <3>1, <3>2
  <2>5. ASSUME WorldStep PROVE <1>1!:
    BY <2>5 DEF WorldStep, TimeComes, RowAges, ChannelBreaks, ChannelReconnected,
         Disconnect
  <2>6. QED
    BY <2>1, <2>2, <2>3, <2>4, <2>5 DEF Next, vars
<1>2. ASSUME pub'[p].status # pub[p].status
      PROVE  pub[p].status # "gone" /\ pub'[p].status # "none"
  <2>1. ASSUME NEW r \in Requests, RequestWrites(r), req[r].p = p
        PROVE  pub[p].status # "gone" /\ pub'[p].status # "none"
    <3>1. pub'[p].status \in {"cancelled", "scheduled"}
      BY <2>1, RequestWritesRow
    <3>2. QED
      BY <2>1, <3>1 DEF RequestWrites
  <2>2. ASSUME NEW w \in Workers, run[w].p = p, Claim(w)
        PROVE  pub[p].status # "gone" /\ pub'[p].status # "none"
    BY <2>2, ClaimAt
  <2>3. ASSUME NEW w \in Workers, run[w].p = p, NotePublished(w) \/ NoteStatus(w)
        PROVE  pub[p].status # "gone" /\ pub'[p].status # "none"
    <3>1. HasRow(pub[p].status) /\ \E s \in RowStates \ {"none"} : SetStatus(p, s)
      BY <2>3 DEF NotePublished, NoteStatus, RowStates
    <3>2. QED
      BY <3>1, SetStatusAt DEF HasRow
  <2>4. QED
    BY <1>2, <2>1, <2>2, <2>3, StatusChanges DEF Stuck, HasRow
<1>3. QED
  BY <1>1, <1>2

(* The run w has an attempt row open for p.                                *)
Flies(w, p) == run[w].pc \in {"call", "note_fail"} /\ run[w].p = p

(* A step of w changes the count by w alone.                               *)
LEMMA InFlightMoves ==
  ASSUME TypeOK, NEW w \in Workers, WorkerStep(w), NEW p \in Pubs
  PROVE  Cardinality(InFlight(p)') = Cardinality(InFlight(p))
           + (IF Flies(w, p)' THEN 1 ELSE 0) - (IF Flies(w, p) THEN 1 ELSE 0)
<1> DEFINE Others == InFlight(p) \ {w}
<1>1. \A u \in Workers \ {w} : run'[u] = run[u]
  BY OtherRuns
<1>2. /\ IsFiniteSet(Others) /\ Cardinality(Others) \in Nat
      /\ Cardinality(InFlight(p)) = Cardinality(Others) + (IF Flies(w, p) THEN 1 ELSE 0)
  <2>1. w \in InFlight(p) <=> Flies(w, p)
    BY DEF InFlight, Flies
  <2>2. /\ IsFiniteSet(Others) /\ Cardinality(Others) \in Nat
        /\ Cardinality(Others) = IF w \in InFlight(p) THEN Cardinality(InFlight(p)) - 1
                                 ELSE Cardinality(InFlight(p))
    BY InFlightCounts, FS_RemoveElement, FS_CardinalityType
  <2>3. Cardinality(InFlight(p)) \in Nat
    BY InFlightCounts
  <2>4. QED
    BY <2>1, <2>2, <2>3
<1>3. InFlight(p)' = IF Flies(w, p)' THEN Others \cup {w} ELSE Others
  BY <1>1 DEF InFlight, Flies
<1>4. Cardinality(InFlight(p)') = Cardinality(Others) + (IF Flies(w, p)' THEN 1 ELSE 0)
  BY <1>2, <1>3, FS_AddElement
<1>5. QED
  BY <1>2, <1>4

(* What a run writes is balanced: an attempt row is opened before the call *)
(* and closed, as what it was, after it.                                   *)
LEMMA WorkerKeepsRecord ==
  ASSUME TypeOK, LogInv, NEW w \in Workers, WorkerStep(w), NEW p \in Pubs,
         pub[p].status # "gone", "late" \notin doubt[p], "late" \notin doubt'[p]
  PROVE  onPage'[p] + Cardinality(InFlight(p)') <= log'[p].ok + log'[p].open
<1> DEFINE Before == IF Flies(w, p) THEN 1 ELSE 0
           After == IF Flies(w, p)' THEN 1 ELSE 0
<1>1. /\ onPage[p] \in Nat /\ log[p].ok \in Int /\ log[p].open \in Int
      /\ Cardinality(InFlight(p)) \in Nat
      /\ onPage[p] + Cardinality(InFlight(p)) <= log[p].ok + log[p].open
      /\ Cardinality(InFlight(p)') = Cardinality(InFlight(p)) + After - Before
  BY InFlightCounts, InFlightMoves DEF TypeOK, LogInv
<1>2. CASE \/ \E id \in JobIds : Start(w, id)
           \/ Claim(w) \/ ClaimLost(w) \/ CallRefused(w) \/ NotePublished(w)
           \/ Announce(w) \/ NoteStatus(w) \/ Settle(w) \/ RunThrows(w)
           \/ WorkerDies(w)
  <2>1. UNCHANGED <<onPage, log>>
    BY <1>2 DEF Start, Claim, ClaimLost, CallRefused, NotePublished, Announce,
         NoteStatus, Settle, RunThrows, WorkerDies
  <2>2. Flies(w, p)' => Flies(w, p)
    <3>1. CASE CallRefused(w)
      <4>1. run[w].pc = "call" /\ run'[w].p = run[w].p
        BY <3>1 DEF CallRefused, GoesWrong, TypeOK
      <4>2. QED
        BY <4>1 DEF Flies
    <3>2. CASE ~CallRefused(w)
      <4>1. run'[w].pc \notin {"call", "note_fail"}
        <5>1. CASE \E id \in JobIds : Start(w, id)
          BY <5>1, StartEffect
        <5>2. CASE Claim(w) \/ NotePublished(w) \/ NoteStatus(w)
          <6>1. run[w] \in [pc: Running, p: Pubs, v: Versions, n: Nat, usable: BOOLEAN,
                            noted: BOOLEAN, class: FailureClasses]
            BY <5>2 DEF Claim, NotePublished, NoteStatus, TypeOK, RunState
          <6>2. \E pc \in {"begin", "announce", "settle"} : Goto(w, pc)
            BY <5>2 DEF Claim, NotePublished, NoteStatus
          <6>3. QED
            BY <6>1, <6>2 DEF Goto, TypeOK
        <5>3. CASE \/ ClaimLost(w) \/ Announce(w) \/ Settle(w) \/ RunThrows(w)
                   \/ WorkerDies(w)
          <6>1. run' = [run EXCEPT ![w] = Idle]
            BY <5>3 DEF ClaimLost, Announce, Settle, RunThrows, WorkerDies,
                 Returns, Throws
          <6>2. QED
            BY <6>1 DEF Idle, TypeOK
        <5>4. QED
          BY <1>2, <3>2, <5>1, <5>2, <5>3
      <4>2. QED
        BY <4>1 DEF Flies
    <3>3. QED
      BY <3>1, <3>2
  <2>3. QED
    BY <1>1, <2>1, <2>2
<1>3. CASE \/ Begin(w) \/ CallSucceeds(w) \/ NoteOk(w) \/ NoteFail(w)
  <2>1. run[w] \in [pc: Running, p: Pubs, v: Versions, n: Nat, usable: BOOLEAN,
                    noted: BOOLEAN, class: FailureClasses]
    BY <1>3 DEF Begin, CallSucceeds, NoteOk, NoteFail, TypeOK, RunState
  <2>2. run'[w].p = run[w].p
    BY <1>3, <2>1 DEF Begin, CallSucceeds, NoteOk, NoteFail, Goto, GoesWrong, TypeOK
  <2>3. CASE run[w].p # p
    <3>1. onPage'[p] = onPage[p] /\ log'[p] = log[p]
      BY <1>3, <2>1, <2>3 DEF Begin, CallSucceeds, NoteOk, NoteFail, TypeOK
    <3>2. ~Flies(w, p) /\ ~Flies(w, p)'
      BY <2>2, <2>3 DEF Flies
    <3>3. QED
      BY <1>1, <3>1, <3>2
  <2>4. CASE run[w].p = p
    <3>1. CASE Begin(w)
      <4>1. /\ onPage'[p] = onPage[p] /\ log'[p].ok = log[p].ok
            /\ log'[p].open = log[p].open + 1
        BY <2>4, <3>1 DEF Begin, TypeOK
      <4>2. ~Flies(w, p)
        BY <3>1 DEF Begin, Flies
      <4>3. QED
        BY <1>1, <4>1, <4>2
    <3>2. CASE CallSucceeds(w)
      <4>1. onPage'[p] = onPage[p] + 1 /\ log'[p] = log[p]
        BY <2>4, <3>2 DEF CallSucceeds, TypeOK
      <4>2. Flies(w, p) /\ ~Flies(w, p)'
        BY <2>1, <2>4, <3>2 DEF CallSucceeds, Flies, Goto, TypeOK
      <4>3. QED
        BY <1>1, <4>1, <4>2
    <3>3. CASE NoteOk(w)
      <4>1. /\ onPage'[p] = onPage[p] /\ log'[p].ok = log[p].ok + 1
            /\ log'[p].open = log[p].open - 1
        BY <2>4, <3>3 DEF NoteOk, TypeOK
      <4>2. ~Flies(w, p)'
        BY <2>1, <3>3 DEF NoteOk, Flies, TypeOK
      <4>3. QED
        BY <1>1, <4>1, <4>2
    <3>4. CASE NoteFail(w)
      <4>1. /\ onPage'[p] = onPage[p]
            /\ log'[p].ok + log'[p].open = log[p].ok + log[p].open - 1
        BY <1>1, <2>4, <3>4 DEF NoteFail, TypeOK
      <4>2. Flies(w, p) /\ ~Flies(w, p)'
        BY <2>1, <2>4, <3>4 DEF NoteFail, Flies, Goto, TypeOK
      <4>3. log'[p].ok \in Int /\ log'[p].open \in Int
        BY <1>1, <2>4, <3>4 DEF NoteFail, TypeOK
      <4>4. QED
        BY <1>1, <4>1, <4>2, <4>3
    <3>5. QED
      BY <1>3, <3>1, <3>2, <3>3, <3>4
  <2>5. QED
    BY <2>3, <2>4
<1>4. CASE CallAnswerLost(w) \/ LateError(w)
  <2>1. run[w] \in [pc: Running, p: Pubs, v: Versions, n: Nat, usable: BOOLEAN,
                    noted: BOOLEAN, class: FailureClasses]
    BY <1>4 DEF CallAnswerLost, LateError, TypeOK, RunState
  <2>2. "late" \in doubt'[run[w].p] /\ run'[w].p = run[w].p
    BY <1>4, <2>1 DEF CallAnswerLost, LateError, Doubted, GoesWrong, TypeOK
  <2>3. run[w].p # p
    BY <2>2
  <2>4. onPage'[p] = onPage[p] /\ log'[p] = log[p]
    BY <1>4, <2>1, <2>3 DEF CallAnswerLost, LateError, TypeOK
  <2>5. ~Flies(w, p) /\ ~Flies(w, p)'
    BY <2>2, <2>3 DEF Flies
  <2>6. QED
    BY <1>1, <2>4, <2>5
<1>5. QED
  BY <1>2, <1>3, <1>4 DEF WorkerStep, RunStep

(* Nobody but the workers touches the runs and the Page, and nobody but    *)
(* they and the disconnection of a Page touches the attempt rows.          *)
LEMMA OthersKeepRecord ==
  ASSUME [Next]_vars, ~\E w \in Workers : WorkerStep(w)
  PROVE  /\ UNCHANGED <<run, onPage>>
         /\ UNCHANGED log \/ \E c \in Channels : Disconnect(c)
  BY DEF Next, vars, RequestStep, RequestReads, RequestWrites, RequestRefused,
       RequestQueues, RequestFindsRedisDown, RequestPlans, RequestLost,
       QueueStep, JobBecomesDue, JobStalls, JobExpires, RedisFlushed,
       SweepStep, SweepReads, SweepEnqueues, SweepReleases, SweepAborts,
       WorldStep, TimeComes, RowAges, ChannelBreaks, ChannelReconnected, Disconnect

(* A run writes the record of its own publication only.                    *)
LEMMA OwnRecord ==
  ASSUME TypeOK, NEW w \in Workers, WorkerStep(w), NEW p \in Pubs,
         run[w].pc = "idle" \/ run[w].p # p
  PROVE  onPage'[p] = onPage[p] /\ log'[p] = log[p]
<1>1. CASE run[w].pc = "idle"
  <2>1. \E id \in JobIds : Start(w, id)
    BY <1>1, RunStepEffect DEF WorkerStep, WorkerDies
  <2>2. QED
    BY <2>1 DEF Start
<1>2. CASE run[w].p # p
  BY <1>2 DEF WorkerStep, RunStep, Start, Claim, ClaimLost, Begin, CallSucceeds,
       CallRefused, CallAnswerLost, NoteOk, NotePublished, Announce, LateError,
       NoteFail, NoteStatus, Settle, RunThrows, WorkerDies, TypeOK
<1>3. QED
  BY <1>1, <1>2

(* Every step keeps the record.                                            *)
LEMMA LogNext ==
  ASSUME TypeOK, TypeOK', LogInv, [Next]_vars
  PROVE  LogInv'
<1>1. ASSUME NEW p \in Pubs, pub'[p].status = "none"
      PROVE  onPage'[p] = 0 /\ log'[p].ok = 0 /\ log'[p].open = 0
  <2>1. pub[p].status = "none"
    BY <1>1, DoubtsStay
  <2>2. onPage[p] = 0 /\ log[p].ok = 0 /\ log[p].open = 0
    BY <2>1 DEF LogInv
  <2>3. ASSUME NEW w \in Workers, WorkerStep(w)
        PROVE  onPage'[p] = onPage[p] /\ log'[p] = log[p]
    <3>1. run[w].pc = "idle" \/ run[w].p # p
      BY <2>1 DEF LogInv
    <3>2. QED
      BY <2>3, <3>1, OwnRecord
  <2>4. ASSUME NEW c \in Channels, Disconnect(c)
        PROVE  log'[p] = log[p] \/ log'[p] = [open |-> 0, ok |-> 0]
    BY <2>4 DEF Disconnect
  <2>5. QED
    BY <2>2, <2>3, <2>4, OthersKeepRecord
<1>2. ASSUME NEW w \in Workers, run'[w].pc # "idle"
      PROVE  pub'[run'[w].p].status # "none"
  <2>1. CASE WentOn(w)
    <3>1. run[w].p \in Pubs /\ pub[run[w].p].status # "none"
      BY <2>1, RunParts DEF WentOn, LogInv
    <3>2. QED
      BY <2>1, <3>1, DoubtsStay DEF WentOn
  <2>2. ASSUME NEW id \in JobIds, Started(w, id) PROVE pub'[run'[w].p].status # "none"
    BY <2>2 DEF Started, HasRow
  <2>3. QED
    BY <1>2, <2>1, <2>2, RunGoesOn
<1>3. ASSUME NEW p \in Pubs, pub'[p].status # "gone", "late" \notin doubt'[p]
      PROVE  onPage'[p] + Cardinality(InFlight(p)') <= log'[p].ok + log'[p].open
  <2>1. pub[p].status # "gone" /\ "late" \notin doubt[p]
    BY <1>3, DoubtsStay
  <2>2. CASE \E w \in Workers : WorkerStep(w)
    BY <1>3, <2>1, <2>2, WorkerKeepsRecord
  <2>3. CASE ~\E w \in Workers : WorkerStep(w)
    <3>1. UNCHANGED <<run, onPage>>
      BY <2>3, OthersKeepRecord
    <3>2. InFlight(p)' = InFlight(p)
      BY <3>1 DEF InFlight
    <3>3. CASE log'[p] = log[p]
      BY <2>1, <3>1, <3>2, <3>3 DEF LogInv
    <3>4. CASE log'[p] # log[p]
      <4>1. PICK c \in Channels : Disconnect(c)
        BY <2>3, <3>4, OthersKeepRecord
      <4>2. ChannelOf(p) = c /\ log'[p] = [open |-> 0, ok |-> 0]
        BY <3>4, <4>1 DEF Disconnect, TypeOK
      <4>3. pub[p].status = "none"
        <5>1. pub[p] \in Row
          BY DEF TypeOK
        <5>2. HasRow(pub[p].status) => pub'[p].status = "gone"
          BY <4>1, <4>2, <5>1 DEF Disconnect, Row
        <5>3. QED
          BY <1>3, <2>1, <5>2 DEF HasRow
      <4>4. onPage[p] = 0 /\ InFlight(p) = {}
        BY <4>3 DEF LogInv, InFlight
      <4>5. Cardinality(InFlight(p)') = 0 /\ onPage'[p] = 0
        BY <3>1, <3>2, <4>4, FS_EmptySet
      <4>6. QED
        BY <4>2, <4>5
    <3>5. QED
      BY <3>3, <3>4
  <2>4. QED
    BY <2>2, <2>3
<1>4. QED
  BY <1>1, <1>2, <1>3 DEF LogInv

(* Whatever crashes and whoever runs beside it, every post of a live row   *)
(* that no late failure has contradicted has an attempt row of its own,    *)
(* finished ok or never finished: the record a crash leaves.               *)
THEOREM EveryPostIsLogged == Spec => []AttemptOnRecord
<1>1. Init => TypeOK /\ LogInv
  BY InitType, LogInit
<1>2. TypeOK /\ LogInv /\ [Next]_vars => (TypeOK /\ LogInv)'
  BY NextType, LogNext
<1>3. TypeOK /\ LogInv => AttemptOnRecord
  <2>1. SUFFICES ASSUME TypeOK, LogInv, NEW p \in Pubs, HasRow(pub[p].status),
                        "late" \notin doubt[p]
                 PROVE  onPage[p] <= log[p].ok + log[p].open
    BY DEF AttemptOnRecord
  <2>2. /\ onPage[p] \in Nat /\ log[p].ok \in Int /\ log[p].open \in Int
        /\ Cardinality(InFlight(p)) \in Nat
        /\ onPage[p] + Cardinality(InFlight(p)) <= log[p].ok + log[p].open
    BY <2>1, InFlightCounts DEF TypeOK, LogInv, HasRow
  <2>3. QED
    BY <2>2
<1>4. QED
  BY <1>1, <1>2, <1>3, PTL DEF Spec

-----------------------------------------------------------------------------
(* Tries.                                                                  *)

(* A run's job and its row count tries separately.  The row never counts   *)
(* fewer than the job has made, and a run that holds the claim has been    *)
(* counted: as long as nothing throws before the row counts (RunThrows, in *)
(* createContext or the claim itself).                                     *)
TriesInv ==
  /\ \A id \in JobIds : jobs[id].made <= pub[id[1]].attempts
  /\ \A w \in Workers : run[w].pc # "idle" =>
       /\ Runs(jobs[JobOf(w)], w) => jobs[JobOf(w)].made + 1 <= run[w].n
       /\ run[w].n <= pub[run[w].p].attempts + 1
       /\ run[w].pc # "claim" => run[w].n <= pub[run[w].p].attempts

(* At first nothing has been tried.                                        *)
LEMMA TriesInit == Init => TriesInv
<1> SUFFICES ASSUME Init PROVE TriesInv
  OBVIOUS
<1>1. \A w \in Workers : run[w].pc = "idle"
  BY DEF Init, Idle
<1>2. \A id \in JobIds : jobs[id].made = 0 /\ pub[id[1]].attempts = 0
  BY DEF Init, NoJob, NewJob, JobIds
<1>3. QED
  BY <1>1, <1>2 DEF TriesInv

(* Tries only add up.                                                      *)
LEMMA AttemptsGrow ==
  ASSUME TypeOK, TypeOK', [Next]_vars, NEW p \in Pubs
  PROVE  /\ pub[p].attempts \in Nat /\ pub'[p].attempts \in Nat
         /\ pub[p].attempts <= pub'[p].attempts
<1>1. /\ pub[p].attempts \in Nat /\ pub'[p].attempts \in Nat
  <2>1. pub[p] \in Row /\ pub'[p] \in Row
    BY DEF TypeOK
  <2>2. QED
    BY <2>1 DEF Row
<1>2. CASE \E r \in Requests : RequestWrites(r) /\ req[r].p = p
  <2>1. pub'[p].attempts = pub[p].attempts
    BY <1>2, RequestWritesRow
  <2>2. QED
    BY <1>1, <2>1
<1>3. CASE ~\E r \in Requests : RequestWrites(r) /\ req[r].p = p
  BY <1>1, <1>3, NextKeepsRows DEF KeepsRow
<1>4. QED
  BY <1>2, <1>3

(* A job that w has, w had, or w has just taken it.                        *)
LEMMA JobKept ==
  ASSUME TypeOK, [Next]_vars, NEW id \in JobIds, NEW w \in Workers,
         Runs(jobs'[id], w)
  PROVE  jobs'[id] = jobs[id] \/ Start(w, id)
<1>0. jobs \in [JobIds -> Job] /\ jobs[id] \in Job
  BY DEF TypeOK
<1>1. SUFFICES ASSUME jobs'[id] # jobs[id] PROVE Start(w, id)
  OBVIOUS
<1>2. jobs'[id].st = "active" /\ jobs'[id].by = w
  BY DEF Runs
<1>3. ~Dropped(id) /\ ~Queued(id) /\ ~Swept(id)
  BY <1>2, FreshJob
<1>4. ~Ended(id)
  <2>1. Delayed(jobs[id]).st = "delayed"
    BY <1>0 DEF Delayed, Job
  <2>2. QED
    BY <1>2, <2>1 DEF Ended, NewJob
<1>5. ~JobBecomesDue(id)
  BY <1>0, <1>2 DEF JobBecomesDue, Job
<1>6. ~JobStalls(id)
  <2>1. Redelivered(jobs[id]).st = "waiting"
    BY <1>0 DEF Redelivered, Job
  <2>2. QED
    BY <1>0, <1>2, <2>1, StalledAt DEF JobStalls, NewJob
<1>7. ASSUME NEW u \in Workers, Start(u, id) PROVE u = w
  BY <1>2, <1>7, StartEffect DEF Runs, NewJob
<1>8. QED
  BY <1>1, <1>3, <1>4, <1>5, <1>6, <1>7, JobMoves DEF Moves

(* A processor that throws at the claim has met an error of the database.  *)
LEMMA ClaimThrowsInError ==
  ASSUME TypeOK, NEW w \in Workers, RunStep(w), run'[w].pc = "idle",
         run[w].pc = "claim", jobs'[JobOf(w)] # jobs[JobOf(w)],
         jobs'[JobOf(w)] # NewJob("completed")
  PROVE  "error" \in Faults
<1>1. jobs \in [JobIds -> Job] /\ JobOf(w) \in JobIds
  BY RunParts DEF TypeOK
<1>2. ~Claim(w)
  BY <1>1 DEF Claim
<1>3. ~ClaimLost(w)
  BY <1>1, CompletedAt DEF ClaimLost, Returns
<1>4. RunThrows(w)
  BY <1>2, <1>3 DEF RunStep, Begin, CallSucceeds, CallRefused, CallAnswerLost,
       NoteOk, NotePublished, Announce, LateError, NoteFail, NoteStatus, Settle
<1>5. QED
  BY <1>4 DEF RunThrows, Fault

(* Every step but an error keeps the counts apart that far and no further. *)
LEMMA TriesNext ==
  ASSUME "error" \notin Faults, TypeOK, TypeOK', TriesInv, [Next]_vars
  PROVE  TriesInv'
<1>1. ASSUME NEW id \in JobIds PROVE jobs'[id].made <= pub'[id[1]].attempts
  <2>0. /\ id[1] \in Pubs /\ jobs[id] \in Job /\ jobs[id].made \in Nat
        /\ pub[id[1]].attempts \in Nat /\ pub'[id[1]].attempts \in Nat
        /\ pub[id[1]].attempts <= pub'[id[1]].attempts
        /\ jobs[id].made <= pub[id[1]].attempts
    <3>1. jobs[id] \in Job /\ id[1] \in Pubs
      BY IdParts DEF TypeOK
    <3>2. jobs[id].made \in Nat
      BY <3>1, QueueAssumption DEF Job
    <3>3. QED
      BY <3>1, <3>2, AttemptsGrow DEF TriesInv
  <2>1. CASE jobs'[id].made = jobs[id].made \/ jobs'[id].made = 0
    BY <2>0, <2>1
  <2>2. CASE Dropped(id) \/ Queued(id) \/ Swept(id)
    <3>1. jobs'[id].made = 0
      BY <2>2, FreshJob
    <3>2. QED
      BY <2>1, <3>1
  <2>3. CASE Ended(id)
    <3>1. PICK w \in Workers :
            /\ RunStep(w) /\ id = JobOf(w) /\ Runs(jobs[id], w)
            /\ run'[w].pc = "idle"
            /\ \/ jobs'[id] = NewJob("completed")
               \/ jobs'[id] = NewJob("failed")
               \/ jobs'[id] = Delayed(jobs[id])
      BY <2>3 DEF Ended
    <3>2. CASE jobs'[id] = NewJob("completed") \/ jobs'[id] = NewJob("failed")
      <4>1. jobs'[id].made = 0
        BY <3>2 DEF NewJob
      <4>2. QED
        BY <2>1, <4>1
    <3>3. CASE jobs'[id] = Delayed(jobs[id])
      <4>1. jobs'[id].made = jobs[id].made + 1 /\ jobs'[id].st = "delayed"
        BY <2>0, <3>3 DEF Delayed, Job
      <4>2. run[w].pc # "claim"
        BY <2>0, <3>1, <4>1, ClaimThrowsInError DEF NewJob, Runs
      <4>3. run[w].pc # "idle" /\ run[w].p = id[1]
        BY <3>1, RunStepEffect DEF JobOf
      <4>4. jobs[id].made + 1 <= run[w].n /\ run[w].n <= pub[id[1]].attempts
        BY <3>1, <4>2, <4>3 DEF TriesInv
      <4>5. run[w].n \in Nat
        BY <4>3 DEF TypeOK, RunState
      <4>6. QED
        BY <2>0, <4>1, <4>4, <4>5
    <3>4. QED
      BY <3>1, <3>2, <3>3
  <2>4. ASSUME NEW w \in Workers, Start(w, id)
        PROVE  jobs'[id].made = jobs[id].made \/ jobs'[id].made = 0
    BY <2>4, StartEffect DEF NewJob
  <2>5. JobBecomesDue(id) => jobs'[id].made = jobs[id].made
    BY <2>0 DEF JobBecomesDue, TypeOK, Job
  <2>6. JobStalls(id) => jobs'[id].made = jobs[id].made \/ jobs'[id].made = 0
    <3>1. Redelivered(jobs[id]).made = jobs[id].made
      BY <2>0 DEF Redelivered, Job
    <3>2. jobs \in [JobIds -> Job]
      BY DEF TypeOK
    <3>3. QED
      BY <3>1, <3>2, StalledAt DEF JobStalls, NewJob
  <2>7. QED
    BY <2>1, <2>2, <2>3, <2>4, <2>5, <2>6, JobMoves DEF Moves
<1>2. ASSUME NEW w \in Workers, run'[w].pc # "idle",
             NEW id \in JobIds, id = <<run'[w].p, run'[w].v>>
      PROVE  /\ Runs(jobs'[id], w) => jobs'[id].made + 1 <= run'[w].n
             /\ run'[w].n <= pub'[id[1]].attempts + 1
             /\ run'[w].pc # "claim" => run'[w].n <= pub'[id[1]].attempts
  <2>0. /\ id[1] \in Pubs /\ jobs[id].made <= pub[id[1]].attempts
        /\ pub[id[1]].attempts \in Nat /\ pub'[id[1]].attempts \in Nat
        /\ pub[id[1]].attempts <= pub'[id[1]].attempts
    BY IdParts, AttemptsGrow DEF TriesInv
  <2>1. CASE WentOn(w)
    <3>1. /\ run[w].pc # "idle" /\ id = JobOf(w) /\ run[w].p = id[1]
          /\ run'[w].n = run[w].n /\ run[w].n \in Nat
      BY <1>2, <2>1 DEF WentOn, JobOf, TypeOK, RunState
    <3>2. Runs(jobs'[id], w) => jobs'[id] = jobs[id]
      BY <3>1, JobKept DEF Start
    <3>3. /\ Runs(jobs[id], w) => jobs[id].made + 1 <= run[w].n
          /\ run[w].n <= pub[id[1]].attempts + 1
          /\ run[w].pc # "claim" => run[w].n <= pub[id[1]].attempts
      BY <3>1 DEF TriesInv
    <3>4. run[w].pc = "claim" /\ run'[w].pc # "claim"
            => pub'[id[1]].attempts = pub[id[1]].attempts + 1
      <4>1. SUFFICES ASSUME run[w].pc = "claim", run'[w].pc # "claim"
                     PROVE  Claim(w)
        BY <3>1, ClaimAt
      <4>2. RunStep(w)
        BY <2>1, <4>1 DEF WentOn
      <4>3. ~Returns(w) /\ ~Throws(w)
        BY <1>2 DEF Returns, Throws, Idle, TypeOK
      <4>4. QED
        BY <4>1, <4>2, <4>3 DEF RunStep, ClaimLost, Begin, CallSucceeds,
             CallRefused, CallAnswerLost, NoteOk, NotePublished, Announce,
             LateError, NoteFail, NoteStatus, Settle, RunThrows
    <3>5. QED
      BY <2>0, <3>1, <3>2, <3>3, <3>4
  <2>2. ASSUME NEW i \in JobIds, Started(w, i)
        PROVE  /\ Runs(jobs'[id], w) => jobs'[id].made + 1 <= run'[w].n
               /\ run'[w].n <= pub'[id[1]].attempts + 1
               /\ run'[w].pc # "claim" => run'[w].n <= pub'[id[1]].attempts
    <3>1. /\ i = id /\ run'[w].pc = "claim"
          /\ run'[w].n = pub[id[1]].attempts + 1 /\ jobs'[id].made = jobs[id].made
      BY <1>2, <2>2, IdParts DEF Started
    <3>2. jobs[id].made \in Nat
      BY QueueAssumption DEF TypeOK, Job
    <3>3. QED
      BY <2>0, <3>1, <3>2
  <2>3. QED
    BY <1>2, <2>1, <2>2, RunGoesOn
<1>3. QED
  <2>1. \A w \in Workers : run'[w].pc # "idle" => <<run'[w].p, run'[w].v>> \in JobIds
    BY DEF TypeOK, RunState, JobIds
  <2>2. QED
    BY <1>1, <1>2, <2>1 DEF TriesInv, JobOf

(* Where no error strikes outside the try block and BullMQ has at least as *)
(* many tries as the row (PUBLISH_JOB_OPTIONS.attempts and runPublication's*)
(* limit are both three), a failure the row waits to see tried again finds *)
(* a try left in the queue.                                                *)
THEOREM RetriesAreTried ==
  ASSUME "error" \notin Faults, MaxAttempts <= MaxTries
  PROVE  Spec => []RetryHasTryLeft
<1>1. Init => TypeOK /\ TriesInv
  BY InitType, TriesInit
<1>2. TypeOK /\ TriesInv /\ [Next]_vars => (TypeOK /\ TriesInv)'
  BY NextType, TriesNext
<1>3. TypeOK /\ TriesInv => RetryHasTryLeft
  <2>1. SUFFICES ASSUME TypeOK, TriesInv, NEW w \in Workers,
                        run[w].pc \in {"note_fail", "note_status", "settle"},
                        run[w].n < MaxAttempts, Runs(jobs[JobOf(w)], w)
                 PROVE  jobs[JobOf(w)].made + 1 < MaxTries
    BY DEF RetryHasTryLeft, WillRetry, HasTryLeft
  <2>2. jobs[JobOf(w)].made + 1 <= run[w].n
    BY <2>1 DEF TriesInv
  <2>3. run[w].n \in Nat /\ JobOf(w) \in JobIds
    BY <2>1, RunParts DEF TypeOK, RunState
  <2>4. jobs[JobOf(w)].made \in Nat
    BY <2>1, <2>3, QueueAssumption DEF TypeOK, Job
  <2>5. QED
    BY <2>1, <2>2, <2>3, <2>4, QueueAssumption, BoundsAssumption
<1>4. QED
  BY <1>1, <1>2, <1>3, PTL DEF Spec

-----------------------------------------------------------------------------
(* Jobs and rows.                                                          *)

(* No process dies, no database and no Redis fails, no live lock runs out. *)
Calm == Faults \cap {"crash", "error", "redis", "flush", "lost_lock"} = {}

(* A slot and the job it is at know of each other.                         *)
Paired ==
  /\ \A w \in Workers : run[w].pc # "idle" => Runs(jobs[JobOf(w)], w)
  /\ \A id \in JobIds : jobs[id].st = "active" =>
       \E w \in Workers : run[w].pc # "idle" /\ JobOf(w) = id

(* A run of the current version that is about to end knows what the row    *)
(* says, for it has written it.                                            *)
EndsAsWritten ==
  \A w \in Workers :
    (/\ run[w].pc # "idle" /\ Undisturbed(run[w].p)
     /\ run[w].v = pub[run[w].p].version)
    => /\ run[w].pc = "settle" =>
            \/ pub[run[w].p].status = "gone"
            \/ pub[run[w].p].status = IF WillRetry(run[w]) THEN "scheduled" ELSE "failed"
       /\ run[w].pc = "announce" => pub[run[w].p].status \in {"published", "gone"}

(* "publishing" is held by a run.                                          *)
PublishingIsHeld ==
  \A p \in Pubs : Undisturbed(p) /\ pub[p].status = "publishing" =>
    \E w \in Workers : HoldsClaim(w, p)

(* A scheduled row has a job that is not over, or a request that is about  *)
(* to add one.                                                             *)
ScheduledIsQueued ==
  \A p \in Pubs : Undisturbed(p) /\ pub[p].status = "scheduled" =>
    /\ <<p, pub[p].version>> \in JobIds
    /\ jobs[<<p, pub[p].version>>].st \notin {"completed", "failed"}
    /\ jobs[<<p, pub[p].version>>].st = "none" =>
         \E r \in Requests : /\ req[r].pc = "queue" /\ req[r].p = p
                             /\ req[r].new = pub[p].version
                             /\ req[r].op # "unschedule"

JobsInv == Paired /\ EndsAsWritten /\ PublishingIsHeld /\ ScheduledIsQueued

(* At first there are no runs, no jobs and no rows.                        *)
LEMMA JobsInit == Init => JobsInv
<1> SUFFICES ASSUME Init PROVE JobsInv
  OBVIOUS
<1>1. /\ \A w \in Workers : run[w].pc = "idle"
      /\ \A id \in JobIds : jobs[id].st = "none"
      /\ \A p \in Pubs : pub[p].status = "none"
  BY DEF Init, Idle, NoJob, NewJob
<1>2. QED
  BY <1>1 DEF JobsInv, Paired, EndsAsWritten, PublishingIsHeld, ScheduledIsQueued

(* A run that ends in a step has returned or thrown.                       *)
LEMMA RunEnds ==
  ASSUME Calm, TypeOK, NEW w \in Workers, [Next]_vars,
         run[w].pc # "idle", run'[w].pc = "idle"
  PROVE  /\ RunStep(w) /\ ~Claim(w)
         /\ Returns(w) \/ Throws(w)
         /\ ClaimLost(w) \/ Announce(w) \/ Settle(w) \/ RunThrows(w)
<1>1. WorkerStep(w)
  BY RunMovesItself
<1>2. ~WorkerDies(w)
  BY DEF WorkerDies, Fault, Calm
<1>3. RunStep(w)
  BY <1>1, <1>2 DEF WorkerStep, Start
<1>4. run[w] \in [pc: Running, p: Pubs, v: Versions, n: Nat, usable: BOOLEAN,
                  noted: BOOLEAN, class: FailureClasses]
  BY DEF TypeOK, RunState
<1>5. ASSUME NEW pc \in Running, Goto(w, pc) PROVE FALSE
  BY <1>4, <1>5 DEF Goto, TypeOK, Running, Holding, Sent, Unsent
<1>6. ASSUME NEW class, GoesWrong(w, class) PROVE FALSE
  BY <1>4, <1>6 DEF GoesWrong, TypeOK
<1>7. ~NoteOk(w)
  BY <1>4 DEF NoteOk, TypeOK
<1>8. ~Claim(w) /\ ~Begin(w) /\ ~CallSucceeds(w) /\ ~NotePublished(w) /\ ~NoteFail(w)
      /\ ~NoteStatus(w)
  BY <1>5, <1>6 DEF Claim, Begin, CallSucceeds, NotePublished, NoteFail, NoteStatus,
       Running, Holding, Sent, Unsent
<1>9. ~CallRefused(w) /\ ~CallAnswerLost(w) /\ ~LateError(w)
  BY <1>6 DEF CallRefused, CallAnswerLost, LateError
<1>10. ClaimLost(w) \/ Announce(w) \/ Settle(w) \/ RunThrows(w)
  BY <1>3, <1>7, <1>8, <1>9 DEF RunStep
<1>11. QED
  BY <1>3, <1>8, <1>10 DEF ClaimLost, Announce, Settle, RunThrows

(* Runs and jobs stay paired: a lock only runs out when its worker is gone.*)
LEMMA PairedNext ==
  ASSUME Calm, TypeOK, TypeOK', Paired, [Next]_vars
  PROVE  Paired'
<1>0. jobs \in [JobIds -> Job]
  BY DEF TypeOK
<1>1. ASSUME NEW w \in Workers, run'[w].pc # "idle",
             NEW id \in JobIds, id = <<run'[w].p, run'[w].v>>
      PROVE  Runs(jobs'[id], w)
  <2>1. CASE WentOn(w)
    <3>1. run[w].pc # "idle" /\ id = JobOf(w) /\ Runs(jobs[id], w)
      BY <1>1, <2>1 DEF WentOn, JobOf, Paired
    <3>2. jobs[id].st = "active" /\ jobs[id].by = w
      BY <3>1 DEF Runs
    <3>3. ~Dropped(id) /\ ~Queued(id) /\ ~Swept(id)
      BY <3>2 DEF Dropped, Queued, Swept, JobExpires, RedisFlushed, Fault, Calm
    <3>4. ~Ended(id)
      BY <1>1, <3>2 DEF Ended, Runs
    <3>5. ~JobStalls(id)
      BY <3>1 DEF JobStalls, Fault, Calm
    <3>6. ~JobBecomesDue(id) /\ ~\E u \in Workers : Start(u, id)
      BY <3>2 DEF JobBecomesDue, Start
    <3>7. QED
      BY <3>1, <3>3, <3>4, <3>5, <3>6, JobMoves DEF Moves
  <2>2. ASSUME NEW i \in JobIds, Started(w, i) PROVE Runs(jobs'[id], w)
    BY <1>1, <2>2, IdParts DEF Started
  <2>3. QED
    BY <1>1, <2>1, <2>2, RunGoesOn
<1>2. ASSUME NEW id \in JobIds, jobs'[id].st = "active"
      PROVE  \E w \in Workers : run'[w].pc # "idle" /\ <<run'[w].p, run'[w].v>> = id
  <2>1. CASE jobs'[id] = jobs[id]
    <3>1. PICK w \in Workers : run[w].pc # "idle" /\ JobOf(w) = id /\ Runs(jobs[id], w)
      BY <1>2, <2>1 DEF Paired
    <3>2. CASE run'[w].pc # "idle"
      <4>1. WentOn(w)
        BY <3>1, <3>2, RunGoesOn DEF Started
      <4>2. QED
        BY <3>1, <3>2, <4>1 DEF WentOn, JobOf
    <3>3. CASE run'[w].pc = "idle"
      <4>1. Returns(w) \/ Throws(w)
        BY <3>1, <3>3, RunEnds
      <4>2. /\ jobs'[id].st \in {"completed", "failed", "delayed"}
        <5>1. Delayed(jobs[id]).st = "delayed"
          BY <1>0 DEF Delayed, Job
        <5>2. jobs'[id] \in {NewJob("completed"), NewJob("failed"), Delayed(jobs[id])}
          BY <1>0, <3>1, <4>1, CompletedAt, ThrownAt DEF Returns, Throws
        <5>3. QED
          BY <5>1, <5>2 DEF NewJob
      <4>3. QED
        BY <1>2, <4>2
    <3>4. QED
      BY <3>2, <3>3
  <2>2. CASE jobs'[id] # jobs[id]
    <3>1. PICK w \in Workers : Runs(jobs'[id], w)
      <4>1. ~Dropped(id) /\ ~Queued(id) /\ ~Swept(id)
        BY <1>2, FreshJob
      <4>2. ~Ended(id) /\ ~JobStalls(id) /\ ~JobBecomesDue(id)
        <5>1. /\ Delayed(jobs[id]).st = "delayed"
              /\ Redelivered(jobs[id]).st = "waiting"
          BY <1>0 DEF Delayed, Redelivered, Job
        <5>2. ~Ended(id)
          BY <1>2, <5>1 DEF Ended, NewJob
        <5>3. ~JobStalls(id)
          BY <1>0, <1>2, <5>1, StalledAt DEF JobStalls, NewJob
        <5>4. ~JobBecomesDue(id)
          BY <1>0, <1>2 DEF JobBecomesDue, Job
        <5>5. QED
          BY <5>2, <5>3, <5>4
      <4>3. PICK w \in Workers : Start(w, id)
        BY <2>2, <4>1, <4>2, JobMoves DEF Moves
      <4>4. jobs'[id] # NewJob("completed")
        BY <1>2 DEF NewJob
      <4>5. QED
        BY <4>3, <4>4, StartEffect
    <3>2. Start(w, id)
      BY <2>2, <3>1, JobKept
    <3>3. jobs'[id] # NewJob("completed")
      BY <1>2 DEF NewJob
    <3>4. run'[w].pc = "claim" /\ run'[w].p = id[1] /\ run'[w].v = id[2]
      BY <3>2, <3>3, StartEffect
    <3>5. QED
      BY <3>4, IdParts
  <2>3. QED
    BY <2>1, <2>2
<1>3. QED
  <2>1. \A w \in Workers : run'[w].pc # "idle" => <<run'[w].p, run'[w].v>> \in JobIds
    BY DEF TypeOK, RunState, JobIds
  <2>2. QED
    BY <1>1, <1>2, <2>1 DEF Paired, JobOf

(* Two runs are never at the same job: it is active for one of them.       *)
LEMMA OneRunPerJob ==
  ASSUME Paired, NEW u \in Workers, NEW w \in Workers,
         run[u].pc # "idle", run[w].pc # "idle", JobOf(u) = JobOf(w)
  PROVE  u = w
  BY DEF Paired, Runs

(* A row's number and doubts, before a step that has not renumbered it.    *)
LEMMA SameVersionBefore ==
  ASSUME TypeOK, [Next]_vars, NEW p \in Pubs, Undisturbed(p)',
         ~\E r \in Requests : RequestWrites(r) /\ req[r].p = p
  PROVE  Undisturbed(p) /\ pub'[p].version = pub[p].version
<1>1. KeepsRow(p)
  BY NextKeepsRows
<1>2. QED
  BY <1>1 DEF KeepsRow

(* A run that holds the claim has the job of the row's version.            *)
LEMMA HolderIsCurrent ==
  ASSUME ClaimInv, NEW w \in Workers, NEW p \in Pubs, HoldsClaim(w, p),
         Undisturbed(p), HasRow(pub[p].status)
  PROVE  /\ pub[p].status = "publishing" /\ pub[p].version = run[w].v
         /\ JobOf(w) = <<p, pub[p].version>> /\ run[w].pc # "idle"
         /\ JobOf(w) \in JobIds
<1>1. pub[p].status = "publishing" /\ pub[p].version = run[w].v
  BY DEF ClaimInv, ClaimIsCurrent, HasRow
<1>2. run[w].pc # "idle" /\ run[w].p = p
  BY DEF HoldsClaim, Holding, Sent, Unsent
<1>3. QED
  BY <1>1, <1>2, RunParts DEF JobOf, ClaimInv

(* What a run wrote last is what the row still says when it ends: of its   *)
(* version there is no other run, and the sweep only touches "publishing". *)
LEMMA EndsNext ==
  ASSUME Calm, ClaimInv, TypeOK', NothingAhead, JobsInv, [Next]_vars
  PROVE  EndsAsWritten'
<1> DEFINE Moved(p) == \E r \in Requests : RequestWrites(r) /\ req[r].p = p
<1>0. TypeOK /\ Paired
  BY DEF ClaimInv, JobsInv
<1> SUFFICES ASSUME NEW w \in Workers, run'[w].pc \in {"settle", "announce"},
                    NEW p \in Pubs, p = run'[w].p, Undisturbed(p)',
                    run'[w].v = pub'[p].version
             PROVE  /\ run'[w].pc = "settle" =>
                         \/ pub'[p].status = "gone"
                         \/ pub'[p].status = IF WillRetry(run'[w]) THEN "scheduled"
                                                                   ELSE "failed"
                    /\ run'[w].pc = "announce" => pub'[p].status \in {"published", "gone"}
  <2>1. \A w \in Workers : run'[w].pc # "idle" => run'[w].p \in Pubs
    BY DEF TypeOK, RunState
  <2>2. QED
    BY <2>1 DEF EndsAsWritten, Undisturbed
<1>1. WentOn(w) /\ run[w].pc # "idle" /\ run[w].p = p /\ run[w].v = pub'[p].version
  BY <1>0, RunGoesOn DEF WentOn, Started
<1>2. ~Moved(p)
  <2>1. SUFFICES ASSUME Moved(p) PROVE FALSE
    OBVIOUS
  <2>2. pub'[p].version = pub[p].version + 1 /\ pub[p].version \in Nat
    BY <1>0, <2>1, RequestWritesRow
  <2>3. run[w].v <= pub[p].version
    BY <1>1 DEF NothingAhead
  <2>4. QED
    BY <1>1, <2>2, <2>3
<1>3. Undisturbed(p) /\ pub'[p].version = pub[p].version
  BY <1>0, <1>2, SameVersionBefore
<1>4. CASE run'[w] = run[w]
  <2>1. /\ run[w].pc = "settle" =>
             \/ pub[p].status = "gone"
             \/ pub[p].status = IF WillRetry(run[w]) THEN "scheduled" ELSE "failed"
        /\ run[w].pc = "announce" => pub[p].status \in {"published", "gone"}
    BY <1>1, <1>3 DEF JobsInv, EndsAsWritten
  <2>2. pub'[p].status = pub[p].status \/ pub'[p].status = "gone"
    <3>1. ASSUME NEW u \in Workers, run[u].p = p, Claim(u) PROVE FALSE
      <4>0. run[u].pc # "idle" /\ run[u].v = pub[p].version
        BY <1>0, <3>1, ClaimAt DEF Claim
      <4>1. run[u].pc # "idle" /\ JobOf(u) = JobOf(w)
        BY <1>1, <1>3, <3>1, <4>0 DEF JobOf
      <4>2. run[w].pc = "claim"
        BY <1>0, <1>1, <3>1, <4>1, OneRunPerJob DEF Claim
      <4>3. QED
        BY <1>4, <4>2
    <3>2. ASSUME NEW u \in Workers, run[u].p = p, NotePublished(u) \/ NoteStatus(u)
          PROVE  FALSE
      <4>1. /\ HoldsClaim(u, p) /\ HasRow(pub[p].status)
            /\ run[u].pc \in {"note_published", "note_status"}
        BY <3>2 DEF HoldsClaim, NotePublished, NoteStatus, Holding, Sent, Unsent
      <4>2. run[u].pc # "idle" /\ JobOf(u) = <<p, pub[p].version>>
        BY <1>3, <4>1, HolderIsCurrent
      <4>3. u = w
        <5>1. JobOf(w) = <<p, pub[p].version>>
          BY <1>1, <1>3 DEF JobOf
        <5>2. QED
          BY <1>0, <1>1, <4>2, <5>1, OneRunPerJob
      <4>4. QED
        BY <1>4, <4>1, <4>3
    <3>3. ~Stuck(p)
      BY <1>4, <2>1 DEF Stuck
    <3>4. QED
      BY <1>0, <1>2, <3>1, <3>2, <3>3, StatusChanges
  <2>3. QED
    BY <1>4, <2>1, <2>2
<1>5. CASE run'[w] # run[w]
  <2>0. run[w] \in [pc: Running, p: Pubs, v: Versions, n: Nat, usable: BOOLEAN,
                    noted: BOOLEAN, class: FailureClasses]
    BY <1>0, <1>1 DEF TypeOK, RunState
  <2>1. RunStep(w)
    BY <1>1, <1>5 DEF WentOn
  <2>2. CASE NotePublished(w)
    <3>1. pub'[p].status = "published"
      BY <1>0, <1>1, <2>2, SetStatusAt DEF NotePublished
    <3>2. run'[w].pc = "announce"
      BY <1>0, <2>0, <2>2 DEF NotePublished, Goto, TypeOK
    <3>3. QED
      BY <3>1, <3>2
  <2>3. CASE NoteStatus(w)
    <3>1. pub'[p].status = IF WillRetry(run[w]) THEN "scheduled" ELSE "failed"
      BY <1>0, <1>1, <2>3, SetStatusAt DEF NoteStatus
    <3>2. /\ run'[w].pc = "settle" /\ run'[w].class = run[w].class
          /\ run'[w].n = run[w].n
      BY <1>0, <2>0, <2>3 DEF NoteStatus, Goto, TypeOK
    <3>3. QED
      BY <3>1, <3>2 DEF WillRetry
  <2>4. CASE ~NotePublished(w) /\ ~NoteStatus(w)
    <3>1. \/ \E pc \in {"begin", "call", "note_ok", "note_status"} : Goto(w, pc)
          \/ \E class : GoesWrong(w, class)
          \/ run' = [run EXCEPT ![w].pc = "note_published", ![w].noted = TRUE]
          \/ run' = [run EXCEPT ![w] = Idle]
      BY <2>1, <2>4 DEF RunStep, Claim, ClaimLost, Begin, CallSucceeds, CallRefused,
           CallAnswerLost, NoteOk, Announce, LateError, NoteFail, Settle, RunThrows,
           Returns, Throws
    <3>2. run'[w].pc \notin {"settle", "announce"}
      BY <1>0, <2>0, <3>1 DEF Goto, GoesWrong, Idle, TypeOK
    <3>3. QED
      BY <3>2
  <2>5. QED
    BY <2>2, <2>3, <2>4
<1>6. QED
  BY <1>4, <1>5

(* A run lets go of a row it holds only by writing what became of it.      *)
LEMMA LetsGo ==
  ASSUME Calm, TypeOK, NEW w \in Workers, NEW p \in Pubs, [Next]_vars,
         HoldsClaim(w, p), ~HoldsClaim(w, p)', HasRow(pub[p].status)
  PROVE  /\ run[w].p = p /\ (NotePublished(w) \/ NoteStatus(w))
         /\ pub'[p].status \in {"published", "scheduled", "failed"}
<1>1. /\ run[w].p = p /\ run[w].pc \in Holding /\ run[w].pc # "idle"
      /\ run'[w] # run[w]
  BY DEF HoldsClaim, Holding, Sent, Unsent
<1>2. run[w] \in [pc: Running, p: Pubs, v: Versions, n: Nat, usable: BOOLEAN,
                  noted: BOOLEAN, class: FailureClasses]
  BY <1>1 DEF TypeOK, RunState
<1>3. RunStep(w)
  <2>1. WorkerStep(w)
    BY <1>1, RunMovesItself
  <2>2. QED
    BY <1>1, <2>1 DEF WorkerStep, WorkerDies, Start, Fault, Calm
<1>4. run'[w].pc \notin Holding
  <2>1. run'[w].pc # "idle" => run'[w].p = p
    BY <1>1, <1>3, RunStepEffect
  <2>2. QED
    BY <2>1 DEF HoldsClaim, Holding, Sent, Unsent
<1>5. ASSUME NEW pc \in Holding, Goto(w, pc) PROVE FALSE
  BY <1>2, <1>4, <1>5 DEF Goto, TypeOK
<1>6. ASSUME NEW class, GoesWrong(w, class) PROVE FALSE
  BY <1>2, <1>4, <1>6 DEF GoesWrong, TypeOK, Holding, Sent, Unsent
<1>7. ~NoteOk(w)
  BY <1>2, <1>4 DEF NoteOk, TypeOK, Holding, Sent, Unsent
<1>8. ~Begin(w) /\ ~CallSucceeds(w) /\ ~NoteFail(w)
  BY <1>5, <1>6 DEF Begin, CallSucceeds, NoteFail, Holding, Sent, Unsent
<1>9. ~CallRefused(w) /\ ~CallAnswerLost(w) /\ ~LateError(w)
  BY <1>6 DEF CallRefused, CallAnswerLost, LateError
<1>10. ~Claim(w) /\ ~ClaimLost(w) /\ ~Announce(w) /\ ~Settle(w)
  BY <1>1 DEF Claim, ClaimLost, Announce, Settle, Holding, Sent, Unsent
<1>11. ~RunThrows(w)
  BY <1>1 DEF RunThrows, Fault, Calm
<1>12. NotePublished(w) \/ NoteStatus(w)
  BY <1>3, <1>7, <1>8, <1>9, <1>10, <1>11 DEF RunStep
<1>13. \E s \in {"published", "scheduled", "failed"} : SetStatus(p, s)
  BY <1>1, <1>12 DEF NotePublished, NoteStatus
<1>14. QED
  BY <1>1, <1>12, <1>13, SetStatusAt

(* Without a crash nobody leaves a row at "publishing".                    *)
LEMMA HeldNext ==
  ASSUME Calm, ClaimInv, TypeOK', JobsInv, [Next]_vars
  PROVE  PublishingIsHeld'
<1>0. TypeOK
  BY DEF ClaimInv
<1> SUFFICES ASSUME NEW p \in Pubs, Undisturbed(p)', pub'[p].status = "publishing"
             PROVE  \E w \in Workers : HoldsClaim(w, p)'
  BY DEF PublishingIsHeld
<1>1. ~\E r \in Requests : RequestWrites(r) /\ req[r].p = p
  BY <1>0, RequestWritesRow
<1>2. Undisturbed(p)
  BY <1>0, <1>1, SameVersionBefore
<1>3. CASE pub[p].status = "publishing"
  <2>1. PICK w \in Workers : HoldsClaim(w, p)
    BY <1>2, <1>3 DEF JobsInv, PublishingIsHeld
  <2>2. QED
    BY <1>0, <1>3, <2>1, LetsGo DEF HasRow
<1>4. CASE pub[p].status # "publishing"
  <2>1. ASSUME NEW w \in Workers, run[w].p = p, NotePublished(w) \/ NoteStatus(w)
        PROVE  FALSE
    <3>1. \E s \in {"published", "scheduled", "failed"} : SetStatus(p, s)
      BY <2>1 DEF NotePublished, NoteStatus
    <3>2. QED
      BY <1>0, <3>1, SetStatusAt
  <2>2. PICK w \in Workers : run[w].p = p /\ Claim(w)
    BY <1>0, <1>1, <1>4, <2>1, StatusChanges
  <2>3. run[w] \in [pc: Running, p: Pubs, v: Versions, n: Nat, usable: BOOLEAN,
                    noted: BOOLEAN, class: FailureClasses]
    BY <1>0, <2>2 DEF Claim, TypeOK, RunState
  <2>4. run'[w].pc = "begin" /\ run'[w].p = p
    BY <1>0, <2>2, <2>3 DEF Claim, Goto, TypeOK
  <2>5. QED
    BY <2>4 DEF HoldsClaim, Holding, Unsent
<1>5. QED
  BY <1>3, <1>4

(* A row that becomes scheduled: a request has a new job for it, or its run*)
(* still has the job that it is to throw back.                             *)
LEMMA BecomesScheduled ==
  ASSUME Calm, ClaimInv, TypeOK', NothingAhead, JobsInv, [Next]_vars, NEW p \in Pubs,
         Undisturbed(p)', pub'[p].status = "scheduled",
         \/ \E r \in Requests : RequestWrites(r) /\ req[r].p = p
         \/ pub[p].status # "scheduled"
  PROVE  LET id == <<p, pub'[p].version>> IN
         /\ id \in JobIds
         /\ jobs'[id].st \notin {"completed", "failed"}
         /\ jobs'[id].st = "none" =>
              \E r \in Requests : /\ req'[r].pc = "queue" /\ req'[r].p = p
                                  /\ req'[r].new = pub'[p].version
                                  /\ req'[r].op # "unschedule"
<1> DEFINE id == <<p, pub'[p].version>>
<1>0. TypeOK /\ Paired
  BY DEF ClaimInv, JobsInv
<1>1. ASSUME NEW r \in Requests, RequestWrites(r), req[r].p = p
      PROVE  /\ id \in JobIds /\ jobs'[id].st = "none"
             /\ req'[r].pc = "queue" /\ req'[r].p = p
             /\ req'[r].new = pub'[p].version /\ req'[r].op # "unschedule"
  <2>1. /\ pub'[p].version = pub[p].version + 1 /\ pub[p].version \in Nat
        /\ pub'[p].status = IF req[r].op = "unschedule" THEN "cancelled" ELSE "scheduled"
        /\ req'[r].pc = "queue" /\ req'[r].p = p /\ req'[r].op = req[r].op
        /\ req'[r].new = pub[p].version + 1 /\ jobs' = jobs
    BY <1>0, <1>1, RequestWritesRow
  <2>2. pub'[p].version \in 0 .. MaxVersion
    BY DEF TypeOK, Row
  <2>3. id \in JobIds
    BY <2>1, <2>2, BoundsAssumption DEF JobIds, Versions
  <2>4. jobs[id] = NoJob
    BY <2>1, <2>3 DEF NothingAhead
  <2>5. QED
    BY <2>1, <2>3, <2>4 DEF NoJob, NewJob
<1>2. CASE ~\E r \in Requests : RequestWrites(r) /\ req[r].p = p
  <2>1. Undisturbed(p) /\ pub'[p].version = pub[p].version
    BY <1>0, <1>2, SameVersionBefore
  <2>2. ASSUME NEW w \in Workers, run[w].p = p, Claim(w) PROVE FALSE
    BY <1>0, <2>2, ClaimAt
  <2>3. ~(SweepReleases /\ Stuck(p))
    <3>1. SUFFICES ASSUME SweepReleases, Stuck(p) PROVE FALSE
      OBVIOUS
    <3>2. \E w \in Workers : HoldsClaim(w, p)
      BY <2>1, <3>1 DEF JobsInv, PublishingIsHeld, Stuck
    <3>3. "unstuck" \in doubt'[p]
      BY <1>0, <3>1, <3>2 DEF SweepReleases, TypeOK
    <3>4. QED
      BY <3>3 DEF Undisturbed
  <2>4. PICK w \in Workers : run[w].p = p /\ (NotePublished(w) \/ NoteStatus(w))
    BY <1>0, <1>2, <2>2, <2>3, StatusChanges
  <2>5. /\ HoldsClaim(w, p) /\ HasRow(pub[p].status) /\ jobs' = jobs
    BY <2>4 DEF HoldsClaim, NotePublished, NoteStatus, Holding, Sent, Unsent
  <2>6. JobOf(w) = id /\ run[w].pc # "idle" /\ id \in JobIds
    BY <2>1, <2>5, HolderIsCurrent
  <2>7. jobs'[id].st = "active"
    BY <1>0, <2>5, <2>6 DEF Paired, Runs
  <2>8. QED
    BY <2>6, <2>7
<1>3. QED
  BY <1>1, <1>2

(* The job of a scheduled row is not thrown away: its run returns only when*)
(* the row says something else, and throws only while a try is left.       *)
LEMMA JobNotLost ==
  ASSUME Calm, MaxAttempts <= MaxTries, ClaimInv, NothingAhead, TriesInv, JobsInv,
         [Next]_vars, NEW p \in Pubs, Undisturbed(p), pub[p].status = "scheduled",
         NEW id \in JobIds, id = <<p, pub[p].version>>, jobs'[id] # jobs[id]
  PROVE  jobs'[id].st \notin {"none", "completed", "failed"}
<1>0. /\ TypeOK /\ Paired /\ jobs \in [JobIds -> Job] /\ jobs[id] \in Job
      /\ jobs[id].st \notin {"completed", "failed"}
  BY DEF ClaimInv, JobsInv, TypeOK, ScheduledIsQueued
<1>1. ~Dropped(id)
  <2>1. ~JobExpires(id) /\ ~RedisFlushed
    BY <1>0 DEF JobExpires, RedisFlushed, Fault, Calm
  <2>2. ASSUME NEW r \in Requests, RequestQueues(r), id = <<req[r].p, req[r].old>>
        PROVE  FALSE
    <3>1. req[r].pc = "queue"
      BY <2>2 DEF RequestQueues
    <3>2. req[r].old < req[r].new /\ req[r].new <= pub[req[r].p].version
      BY <3>1 DEF NothingAhead
    <3>3. req[r].old \in Nat /\ req[r].new \in Nat /\ req[r].p = p
      BY <1>0, <2>2, <3>1, RequestParts, BoundsAssumption
    <3>4. req[r].old = pub[p].version
      BY <2>2
    <3>5. QED
      BY <3>2, <3>3, <3>4
  <2>3. QED
    BY <2>1, <2>2 DEF Dropped
<1>2. Queued(id) => jobs'[id].st \in {"delayed", "waiting"}
  <2>1. Queued(id) => \E st \in {"delayed", "waiting"} : jobs'[id] = NewJob(st)
    BY DEF Queued
  <2>2. QED
    BY <2>1 DEF NewJob
<1>3. Swept(id) => jobs'[id].st = "waiting"
  BY DEF Swept, NewJob
<1>4. ASSUME Ended(id) PROVE jobs'[id].st = "delayed"
  <2>1. PICK w \in Workers :
          /\ RunStep(w) /\ id = JobOf(w) /\ Runs(jobs[id], w) /\ run'[w].pc = "idle"
          /\ \/ jobs'[id] = NewJob("completed") /\ Returns(w)
             \/ jobs'[id] = NewJob("failed") /\ Throws(w) /\ ~HasTryLeft(jobs[id])
             \/ jobs'[id] = Delayed(jobs[id]) /\ Throws(w) /\ HasTryLeft(jobs[id])
    BY <1>4 DEF Ended
  <2>2. run[w].pc # "idle" /\ run[w].p = p /\ run[w].v = pub[p].version
    BY <1>0, <2>1, RunStepEffect DEF JobOf
  <2>3. ClaimLost(w) \/ Announce(w) \/ Settle(w) \/ RunThrows(w)
    BY <1>0, <2>1, <2>2, RunEnds
  <2>4. ~ClaimLost(w)
    BY <2>2 DEF ClaimLost, CanClaim
  <2>5. ~Announce(w)
    BY <2>2 DEF Announce, JobsInv, EndsAsWritten
  <2>6. ~RunThrows(w)
    <3>1. SUFFICES ASSUME RunThrows(w) PROVE FALSE
      OBVIOUS
    <3>2. HasRow(pub[p].status)
      BY DEF HasRow
    <3>3. QED
      BY <2>2, <3>1, <3>2 DEF RunThrows, Fault, Calm
  <2>7. Settle(w)
    BY <2>3, <2>4, <2>5, <2>6
  <2>8. WillRetry(run[w])
    BY <2>2, <2>7 DEF Settle, JobsInv, EndsAsWritten
  <2>9. HasTryLeft(jobs[id])
    <3>1. jobs[id].made + 1 <= run[w].n /\ run[w].n < MaxAttempts
      BY <2>1, <2>2, <2>8 DEF TriesInv, WillRetry
    <3>2. jobs[id].made \in Nat /\ run[w].n \in Nat
      <4>1. jobs[id].made \in Nat
        BY <1>0, QueueAssumption DEF Job
      <4>2. run[w].n \in Nat
        BY <1>0, <2>2 DEF TypeOK, RunState
      <4>3. QED
        BY <4>1, <4>2
    <3>3. QED
      BY <3>1, <3>2, QueueAssumption, BoundsAssumption DEF HasTryLeft
  <2>10. jobs' = Thrown(jobs, id, w)
    BY <2>1, <2>7, <2>8 DEF Settle, Throws
  <2>11. jobs'[id] = Delayed(jobs[id])
    BY <1>0, <2>1, <2>9, <2>10, ThrownAt
  <2>12. QED
    BY <1>0, <2>11 DEF Delayed, Job
<1>5. ASSUME NEW w \in Workers, Start(w, id) PROVE jobs'[id].st = "active"
  BY <1>0, <1>5, StartEffect DEF Runs
<1>6. JobBecomesDue(id) => jobs'[id].st = "waiting"
  BY <1>0 DEF JobBecomesDue, Job
<1>7. ~JobStalls(id)
  BY <1>0 DEF JobStalls, Paired, Fault, Calm
<1>8. QED
  BY <1>0, <1>1, <1>2, <1>3, <1>4, <1>5, <1>6, <1>7, JobMoves DEF Moves

(* What is scheduled keeps a job or a request that is about to add one.    *)
LEMMA QueuedNext ==
  ASSUME Calm, MaxAttempts <= MaxTries, ClaimInv, TypeOK', NothingAhead, TriesInv,
         JobsInv, [Next]_vars
  PROVE  ScheduledIsQueued'
<1> DEFINE Moved(p) == \E r \in Requests : RequestWrites(r) /\ req[r].p = p
<1>0. TypeOK /\ jobs \in [JobIds -> Job]
  BY DEF ClaimInv, TypeOK
<1> SUFFICES ASSUME NEW p \in Pubs, Undisturbed(p)', pub'[p].status = "scheduled"
             PROVE  LET id == <<p, pub'[p].version>> IN
                    /\ id \in JobIds
                    /\ jobs'[id].st \notin {"completed", "failed"}
                    /\ jobs'[id].st = "none" =>
                         \E r \in Requests : /\ req'[r].pc = "queue" /\ req'[r].p = p
                                             /\ req'[r].new = pub'[p].version
                                             /\ req'[r].op # "unschedule"
  BY DEF ScheduledIsQueued
<1> DEFINE id == <<p, pub'[p].version>>
<1>1. CASE Moved(p) \/ pub[p].status # "scheduled"
  BY <1>1, BecomesScheduled
<1>2. CASE ~Moved(p) /\ pub[p].status = "scheduled"
  <2>1. Undisturbed(p) /\ pub'[p].version = pub[p].version
    BY <1>0, <1>2, SameVersionBefore
  <2>2. /\ id \in JobIds
        /\ jobs[id].st \notin {"completed", "failed"}
        /\ jobs[id].st = "none" =>
             \E r \in Requests : /\ req[r].pc = "queue" /\ req[r].p = p
                                 /\ req[r].new = pub[p].version
                                 /\ req[r].op # "unschedule"
    BY <1>2, <2>1 DEF JobsInv, ScheduledIsQueued
  <2>3. CASE jobs'[id] # jobs[id]
    BY <1>2, <2>1, <2>2, <2>3, JobNotLost
  <2>4. CASE jobs'[id] = jobs[id] /\ jobs[id].st = "none"
    <3>1. PICK r \in Requests : /\ req[r].pc = "queue" /\ req[r].p = p
                                /\ req[r].new = pub[p].version
                                /\ req[r].op # "unschedule"
      BY <2>2, <2>4
    <3>2. ~RequestQueues(r)
      <4>1. SUFFICES ASSUME RequestQueues(r) PROVE FALSE
        OBVIOUS
      <4>2. DropOldJob(jobs, r) \in [JobIds -> Job]
        BY <1>0, RemovedType DEF DropOldJob
      <4>3. DropOldJob(jobs, r)[id].st = "none"
        <5>1. DropOldJob(jobs, r)[id] = jobs[id] \/ DropOldJob(jobs, r)[id] = NoJob
          BY <1>0, <2>2, RemovedAt DEF DropOldJob
        <5>2. QED
          BY <2>4, <5>1 DEF NoJob, NewJob
      <4>4. \E st \in {"delayed", "waiting"} : jobs'[id] = NewJob(st)
        BY <2>1, <2>2, <3>1, <4>1, <4>2, <4>3 DEF RequestQueues, Added
      <4>5. QED
        BY <2>4, <4>4 DEF NewJob
    <3>3. ~RequestFindsRedisDown(r) /\ ~RequestLost(r)
      BY DEF RequestFindsRedisDown, RequestLost, Fault, Calm
    <3>4. req'[r] = req[r]
      <4>1. SUFFICES ASSUME RequestStep(r) PROVE FALSE
        BY <1>0, RequestMovesItself
      <4>2. QED
        BY <3>1, <3>2, <3>3, <4>1 DEF RequestStep, RequestReads, RequestWrites,
             RequestRefused, RequestPlans
    <3>5. QED
      BY <2>1, <2>2, <2>4, <3>1, <3>4
  <2>5. QED
    BY <2>2, <2>3, <2>4
<1>3. QED
  BY <1>1, <1>2

(* Everything a scheduled row's job depends on.                            *)
QueueInv == ClaimInv /\ NothingAhead /\ TriesInv /\ JobsInv

(* As long as nothing fails, every scheduled publication that nobody has   *)
(* overtaken has a job that will run it, or a request about to queue one:  *)
(* the sweep of reconcilePublications is only needed after failures.       *)
THEOREM ScheduledIsServed ==
  ASSUME Calm, MaxAttempts <= MaxTries
  PROVE  Spec => []ScheduledHasJob
<1>1. Init => QueueInv
  BY ClaimInit, AheadInit, TriesInit, JobsInit DEF QueueInv
<1>2. ASSUME QueueInv, [Next]_vars PROVE QueueInv'
  <2>1. /\ ClaimInv /\ NothingAhead /\ TriesInv /\ JobsInv /\ TypeOK /\ Paired
    BY <1>2 DEF QueueInv, ClaimInv, JobsInv
  <2>2. ClaimInv' /\ TypeOK'
    BY <1>2, <2>1, ClaimNext, NextType
  <2>3. NothingAhead'
    BY <1>2, <2>1, <2>2, AheadNext
  <2>4. TriesInv'
    <3>1. "error" \notin Faults
      BY DEF Calm
    <3>2. QED
      BY <1>2, <2>1, <2>2, <3>1, TriesNext
  <2>5. JobsInv'
    BY <1>2, <2>1, <2>2, PairedNext, EndsNext, HeldNext, QueuedNext DEF JobsInv
  <2>6. QED
    BY <2>2, <2>3, <2>4, <2>5 DEF QueueInv
<1>3. QueueInv => ScheduledHasJob
  <2>1. SUFFICES ASSUME QueueInv, NEW p \in Pubs, pub[p].status = "scheduled",
                        Undisturbed(p)
                 PROVE  \/ Pending(jobs[<<p, pub[p].version>>])
                        \/ \E r \in Requests : /\ req[r].pc = "queue" /\ req[r].p = p
                                               /\ req[r].new = pub[p].version
    BY DEF ScheduledHasJob
  <2>2. jobs[<<p, pub[p].version>>].st \in JobStates
    BY <2>1 DEF QueueInv, ClaimInv, JobsInv, ScheduledIsQueued, TypeOK, Job
  <2>3. QED
    BY <2>1, <2>2 DEF QueueInv, JobsInv, ScheduledIsQueued, Pending, JobStates
<1>4. QED
  BY <1>1, <1>2, <1>3, PTL DEF Spec
=============================================================================
