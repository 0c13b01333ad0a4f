-------------------------- MODULE PublishingProofs --------------------------
(***************************************************************************)
(* Type correctness and the delivery promise of Publishing, and that it    *)
(* implements Delivery, for every number of posts, Pages, requests, worker *)
(* slots, versions, tries and failures.                                    *)
(***************************************************************************)
EXTENDS Publishing, TLAPS

-----------------------------------------------------------------------------
(* The job table keeps its type under every queue operation.               *)

(* A job that was just added or just finished is well typed.               *)
LEMMA NewJobType ==
  ASSUME NEW st \in JobStates
  PROVE  NewJob(st) \in Job
  BY QueueAssumption DEF NewJob, Job, Unclaimed

(* The same for each state the queue operations use.                       *)
LEMMA NewJobTypes ==
  NoJob \in Job /\ NewJob("completed") \in Job /\ NewJob("failed") \in Job
  BY NewJobType DEF NoJob, JobStates

(* A retried job stays within its tries (PUBLISH_JOB_OPTIONS.attempts).    *)
LEMMA DelayedType ==
  ASSUME NEW job \in Job, HasTryLeft(job)
  PROVE  Delayed(job) \in Job
<1>1. job.made \in Nat /\ job.made + 1 \in 0 .. MaxTries - 1
  BY QueueAssumption DEF HasTryLeft, Job
<1>2. QED
  BY <1>1 DEF Delayed, Job, JobStates

(* A redelivered job stays within maxStalledCount.                         *)
LEMMA RedeliveredType ==
  ASSUME NEW job \in Job, job.stalls < MaxStalls
  PROVE  Redelivered(job) \in Job
<1>1. job.stalls \in Nat /\ job.stalls + 1 \in 0 .. MaxStalls
  BY QueueAssumption DEF Job
<1>2. QED
  BY <1>1 DEF Redelivered, Job, JobStates

(* add() leaves a table of jobs (enqueuePublish).                          *)
LEMMA AddedType ==
  ASSUME NEW S, NEW q \in [S -> Job], NEW id, NEW st \in JobStates
  PROVE  Added(q, id, st) \in [S -> Job]
  BY NewJobType DEF Added

(* remove() leaves a table of jobs (removePublishJob).                     *)
LEMMA RemovedType ==
  ASSUME NEW S, NEW q \in [S -> Job], NEW id
  PROVE  Removed(q, id) \in [S -> Job]
  BY NewJobTypes DEF Removed

(* Handing a job to a worker leaves a table of jobs.                       *)
LEMMA TakenType ==
  ASSUME NEW S, NEW q \in [S -> Job], NEW id, NEW w \in Workers
  PROVE  Taken(q, id, w) \in [S -> Job]
  BY DEF Taken, Job, JobStates

(* Completing a job leaves a table of jobs.                                *)
LEMMA CompletedType ==
  ASSUME NEW S, NEW q \in [S -> Job], NEW id, NEW w
  PROVE  Completed(q, id, w) \in [S -> Job]
  BY NewJobTypes DEF Completed

(* A job that threw leaves a table of jobs.                                *)
LEMMA ThrownType ==
  ASSUME NEW S, NEW q \in [S -> Job], NEW id \in S, NEW w
  PROVE  Thrown(q, id, w) \in [S -> Job]
  BY NewJobTypes, DelayedType DEF Thrown

(* A stalled job leaves a table of jobs.                                   *)
LEMMA StalledType ==
  ASSUME NEW S, NEW q \in [S -> Job], NEW id \in S
  PROVE  Stalled(q, id) \in [S -> Job]
  BY NewJobTypes, RedeliveredType DEF Stalled

-----------------------------------------------------------------------------
(* Type correctness.                                                       *)

(* A publication names a post and a Page.                                  *)
LEMMA PubParts ==
  ASSUME NEW p \in Pubs
  PROVE  PostOf(p) \in Posts /\ ChannelOf(p) \in Channels
  BY DEF Pubs, PostOf, ChannelOf

(* What a slot with a job knows (runPublication's locals).                 *)
LEMMA RunParts ==
  ASSUME NEW w \in Workers, TypeOK, run[w].pc # "idle"
  PROVE  /\ run[w].pc \in Running
         /\ run[w].p \in Pubs
         /\ run[w].v \in Versions
         /\ JobOf(w) \in JobIds
         /\ \A pc \in Running :
              [run EXCEPT ![w].pc = pc] \in [Workers -> RunState]
         /\ \A class \in FailureClasses :
              [run EXCEPT ![w].pc = "note_fail", ![w].class = class]
                \in [Workers -> RunState]
<1>1. run[w] \in RunState /\ run[w].pc # "idle"
  BY DEF TypeOK
<1>2. run[w] \in [pc: Running, p: Pubs, v: Versions, n: Nat, usable: BOOLEAN,
                  noted: BOOLEAN, class: FailureClasses]
  BY <1>1 DEF RunState
<1>3. \A pc \in Running : [run[w] EXCEPT !.pc = pc] \in RunState
  BY <1>2 DEF RunState
<1>4. \A class \in FailureClasses :
        [run[w] EXCEPT !.pc = "note_fail", !.class = class] \in RunState
  BY <1>2 DEF RunState, Running, Holding, Sent, Unsent
<1>5. QED
  BY <1>2, <1>3, <1>4 DEF TypeOK, JobOf, JobIds

(* What a request under way knows.                                         *)
LEMMA RequestParts ==
  ASSUME NEW r \in Requests, TypeOK, req[r].pc \in {"write", "queue", "plan"}
  PROVE  /\ req[r].op \in Operations
         /\ req[r].p \in Pubs
         /\ req[r].old \in 0 .. MaxVersion
         /\ req[r].new \in 0 .. MaxVersion
  BY DEF TypeOK, ReqState

(* Every initial state is well typed.                                      *)
LEMMA InitType == Init => TypeOK
  BY QueueAssumption, BoundsAssumption
     DEF Init, TypeOK, Row, RowStates, ChannelStates, NoJob, NewJob, Job,
         JobStates, Unclaimed, Idle, RunState, ReqState, SweepOver, ReconState

(* A request that has dealt with its job goes on or is over.               *)
LEMMA AfterQueueType ==
  ASSUME NEW r \in Requests, TypeOK, req[r].pc = "queue", AfterQueue(r)
  PROVE  req' \in [Requests -> ReqState]
<1>1. req[r] \in [pc: {"write", "queue", "plan"}, op: Operations, p: Pubs,
                  old: 0 .. MaxVersion, new: 0 .. MaxVersion]
  BY DEF TypeOK, ReqState
<1>2. [req[r] EXCEPT !.pc = "plan"] \in ReqState
  BY <1>1 DEF ReqState
<1>3. QED
  BY <1>2 DEF AfterQueue, TypeOK, ReqState, Idle

(* A request may answer with an error.                                     *)
LEMMA FailsType ==
  ASSUME NEW r \in Requests, TypeOK, Fails(r)
  PROVE  req' \in [Requests -> ReqState]
<1>1. [pc |-> "failed", wrote |-> req[r].new # 0] \in ReqState
  BY DEF ReqState
<1>2. QED
  BY <1>1 DEF Fails, TypeOK

(* The steps of a request keep the types (services/scheduling.ts).         *)
LEMMA RequestType ==
  ASSUME TypeOK, NEW r \in Requests, RequestStep(r)
  PROVE  TypeOK'
<1> USE BoundsAssumption
<1>1. ASSUME NEW op \in Operations, NEW p \in Pubs, RequestReads(r, op, p)
      PROVE  TypeOK'
  BY <1>1 DEF TypeOK, RequestReads, ReqState, Row, NoFault
<1>2. ASSUME RequestWrites(r) PROVE TypeOK'
  <2>1. req[r].op \in Operations /\ req[r].p \in Pubs
    BY <1>2, RequestParts DEF RequestWrites
  <2>2. pub' \in [Pubs -> Row]
    <3> DEFINE row == pub[req[r].p]
    <3>1. row \in Row /\ row.version + 1 \in 0 .. MaxVersion
      BY <1>2, <2>1 DEF RequestWrites, TypeOK, Row
    <3>2. Written(row, req[r].op) \in Row
      BY <3>1 DEF Written, Row, RowStates
    <3>3. QED
      BY <1>2, <2>1, <3>2 DEF RequestWrites, TypeOK
  <2>3. req' \in [Requests -> ReqState]
    <3>1. pub[req[r].p].version + 1 \in 0 .. MaxVersion
      BY <1>2, <2>1 DEF RequestWrites, TypeOK, Row
    <3>2. req[r] \in [pc: {"write", "queue", "plan"}, op: Operations, p: Pubs,
                       old: 0 .. MaxVersion, new: 0 .. MaxVersion]
      BY <1>2 DEF RequestWrites, TypeOK, ReqState
    <3>3. [req[r] EXCEPT !.pc = "queue", !.new = pub[req[r].p].version + 1]
            \in ReqState
      BY <3>1, <3>2 DEF ReqState
    <3>4. QED
      BY <1>2, <3>3 DEF RequestWrites, TypeOK
  <2>4. doubt' \in [Pubs -> SUBSET Doubts]
    BY <1>2, <2>1 DEF RequestWrites, TypeOK, Doubted, Doubts
  <2>5. QED
    BY <1>2, <2>2, <2>3, <2>4 DEF RequestWrites, TypeOK, NoFault
<1>3. ASSUME RequestRefused(r) PROVE TypeOK'
  BY <1>3, FailsType DEF TypeOK, RequestRefused, NoFault
<1>4. ASSUME RequestQueues(r) PROVE TypeOK'
  <2>1. /\ req[r] \in [pc: {"write", "queue", "plan"}, op: Operations, p: Pubs,
                        old: 0 .. MaxVersion, new: 0 .. MaxVersion]
    BY <1>4 DEF RequestQueues, TypeOK, ReqState
  <2>2. req' \in [Requests -> ReqState]
    BY <1>4, <2>1, AfterQueueType DEF RequestQueues
  <2>3. DropOldJob(jobs, r) \in [JobIds -> Job]
    BY RemovedType DEF DropOldJob, TypeOK
  <2>4. jobs' \in [JobIds -> Job]
    BY <1>4, <2>3, AddedType DEF RequestQueues, JobStates
  <2>5. QED
    BY <1>4, <2>2, <2>4 DEF RequestQueues, TypeOK, NoFault
<1>5. ASSUME RequestFindsRedisDown(r) PROVE TypeOK'
  <2>1. req' \in [Requests -> ReqState]
    BY <1>5, AfterQueueType, FailsType DEF RequestFindsRedisDown
  <2>2. QED
    BY <1>5, <2>1 DEF RequestFindsRedisDown, TypeOK, Fault
<1>6. ASSUME RequestPlans(r) PROVE TypeOK'
  BY <1>6, RequestParts, PubParts DEF TypeOK, RequestPlans, ReqState, Idle, NoFault
<1>7. ASSUME RequestLost(r) PROVE TypeOK'
  BY <1>7, FailsType DEF TypeOK, RequestLost, Fault
<1>8. QED
  BY <1>1, <1>2, <1>3, <1>4, <1>5, <1>6, <1>7 DEF RequestStep

(* The end of a run, or its next step, keeps the types of run and jobs.    *)
LEMMA RunMoves ==
  ASSUME NEW w \in Workers, TypeOK, run[w].pc # "idle"
  PROVE  /\ \A pc \in Running : Goto(w, pc) => run' \in [Workers -> RunState]
         /\ \A class \in FailureClasses :
              GoesWrong(w, class) => run' \in [Workers -> RunState]
         /\ Returns(w) \/ Throws(w) => /\ run' \in [Workers -> RunState]
                                       /\ jobs' \in [JobIds -> Job]
<1>1. Idle \in RunState
  BY DEF Idle, RunState
<1>2. Returns(w) \/ Throws(w) => run' \in [Workers -> RunState]
  BY <1>1 DEF Returns, Throws, TypeOK
<1>3. JobOf(w) \in JobIds /\ jobs \in [JobIds -> Job]
  BY RunParts DEF TypeOK
<1>4. Returns(w) => jobs' \in [JobIds -> Job]
  BY <1>3, CompletedType DEF Returns
<1>5. Throws(w) => jobs' \in [JobIds -> Job]
  BY <1>3, ThrownType DEF Throws
<1>6. ASSUME NEW pc \in Running, Goto(w, pc) PROVE run' \in [Workers -> RunState]
  <2>1. [run EXCEPT ![w].pc = pc] \in [Workers -> RunState]
    BY RunParts
  <2>2. QED
    BY <1>6, <2>1 DEF Goto
<1>7. ASSUME NEW class \in FailureClasses, GoesWrong(w, class)
      PROVE  run' \in [Workers -> RunState]
  <2>1. [run EXCEPT ![w].pc = "note_fail", ![w].class = class]
          \in [Workers -> RunState]
    BY RunParts
  <2>2. QED
    BY <1>7, <2>1 DEF GoesWrong
<1>8. QED
  BY <1>2, <1>4, <1>5, <1>6, <1>7

(* The steps of a run keep the types (runPublication).                     *)
LEMMA RunType ==
  ASSUME TypeOK, NEW w \in Workers, RunStep(w)
  PROVE  TypeOK'
<1> DEFINE p == run[w].p
<1>0. run[w].pc # "idle" /\ p \in Pubs
  BY RunParts DEF RunStep, Claim, ClaimLost, Begin, CallSucceeds, CallRefused,
       CallAnswerLost, NoteOk, NotePublished, Announce, LateError, NoteFail,
       NoteStatus, Settle, RunThrows
<1>1. ASSUME Claim(w) PROVE TypeOK'
  <2>1. pub' \in [Pubs -> Row]
    BY <1>0, <1>1 DEF Claim, TypeOK, Row, RowStates
  <2>2. QED
    BY <1>0, <1>1, <2>1, RunMoves DEF Claim, TypeOK, NoFault, Running,
       Holding, Sent, Unsent
<1>2. ASSUME ClaimLost(w) PROVE TypeOK'
  BY <1>0, <1>2, RunMoves DEF ClaimLost, TypeOK, NoFault
<1>3. ASSUME Begin(w) PROVE TypeOK'
  <2>1. log' \in [Pubs -> [open: Int, ok: Int]]
    BY <1>0, <1>3 DEF Begin, TypeOK
  <2>2. run' \in [Workers -> RunState]
    BY <1>0, <1>3, RunMoves DEF Begin, Running, Holding, Sent, Unsent, FailureClasses
  <2>3. QED
    BY <1>3, <2>1, <2>2 DEF Begin, TypeOK, NoFault
<1>4. ASSUME CallSucceeds(w) PROVE TypeOK'
  BY <1>0, <1>4, RunMoves DEF CallSucceeds, TypeOK, NoFault, Running,
       Holding, Sent, Unsent
<1>5. ASSUME CallRefused(w) PROVE TypeOK'
  BY <1>0, <1>5, RunMoves DEF CallRefused, TypeOK, NoFault
<1>6. ASSUME CallAnswerLost(w) PROVE TypeOK'
  <2>1. run' \in [Workers -> RunState]
    BY <1>0, <1>6, RunMoves DEF CallAnswerLost, FailureClasses
  <2>2. doubt' \in [Pubs -> SUBSET Doubts]
    BY <1>6 DEF CallAnswerLost, Doubted, TypeOK, Doubts
  <2>3. onPage' \in [Pubs -> Nat]
    BY <1>0, <1>6 DEF CallAnswerLost, TypeOK
  <2>4. QED
    BY <1>6, <2>1, <2>2, <2>3 DEF CallAnswerLost, TypeOK, Fault
<1>7. ASSUME NoteOk(w) PROVE TypeOK'
  <2>1. log' \in [Pubs -> [open: Int, ok: Int]]
    BY <1>0, <1>7 DEF NoteOk, TypeOK
  <2>2. [run[w] EXCEPT !.pc = "note_published", !.noted = TRUE] \in RunState
    <3>1. run[w] \in RunState
      BY DEF TypeOK
    <3>2. "note_published" \in Running
      BY DEF Running, Holding, Sent
    <3> QED
      BY <1>0, <3>1, <3>2 DEF RunState
  <2>3. QED
    BY <1>7, <2>1, <2>2 DEF NoteOk, TypeOK, NoFault
<1>8. ASSUME NotePublished(w) PROVE TypeOK'
  <2>1. pub' \in [Pubs -> Row]
    BY <1>0, <1>8 DEF NotePublished, SetStatus, TypeOK, Row, RowStates
  <2>2. QED
    BY <1>0, <1>8, <2>1, RunMoves DEF NotePublished, TypeOK, NoFault, Running
<1>9. ASSUME Announce(w) PROVE TypeOK'
  BY <1>0, <1>9, RunMoves DEF Announce, TypeOK, NoFault
<1>10. ASSUME LateError(w) PROVE TypeOK'
  <2>1. run' \in [Workers -> RunState]
    BY <1>0, <1>10, RunMoves DEF LateError, FailureClasses
  <2>2. doubt' \in [Pubs -> SUBSET Doubts]
    BY <1>10 DEF LateError, Doubted, TypeOK, Doubts
  <2>3. faults' \in Nat
    BY <1>10 DEF LateError, TypeOK, NoFault, Fault
  <2>4. QED
    BY <1>10, <2>1, <2>2, <2>3 DEF LateError, TypeOK
<1>11. ASSUME NoteFail(w) PROVE TypeOK'
  <2>1. log' \in [Pubs -> [open: Int, ok: Int]]
    BY <1>0, <1>11 DEF NoteFail, TypeOK
  <2>2. QED
    BY <1>0, <1>11, <2>1, RunMoves DEF NoteFail, TypeOK, NoFault, Running,
       Holding, Sent, Unsent
<1>12. ASSUME NoteStatus(w) PROVE TypeOK'
  <2>1. pub' \in [Pubs -> Row]
    BY <1>0, <1>12 DEF NoteStatus, SetStatus, TypeOK, Row, RowStates
  <2>2. QED
    BY <1>0, <1>12, <2>1, RunMoves DEF NoteStatus, TypeOK, NoFault, Running
<1>13. ASSUME Settle(w) PROVE TypeOK'
  <2>1. chan' \in [Channels -> ChannelStates]
    BY <1>13 DEF Settle, TypeOK, ChannelStates
  <2>2. QED
    BY <1>0, <1>13, <2>1, RunMoves DEF Settle, TypeOK, NoFault
<1>14. ASSUME RunThrows(w) PROVE TypeOK'
  <2>1. faults' \in Nat
    BY <1>14 DEF RunThrows, TypeOK, NoFault, Fault
  <2>2. QED
    BY <1>0, <1>14, <2>1, RunMoves DEF RunThrows, TypeOK
<1>15. QED
  BY <1>1, <1>2, <1>3, <1>4, <1>5, <1>6, <1>7, <1>8, <1>9, <1>10, <1>11,
     <1>12, <1>13, <1>14 DEF RunStep

(* Handing a job to a slot keeps the types (createPublishProcessor).       *)
LEMMA StartType ==
  ASSUME TypeOK, NEW w \in Workers, NEW id \in JobIds, Start(w, id)
  PROVE  TypeOK'
<1>1. /\ id[1] \in Pubs /\ id[2] \in Versions
      /\ pub[id[1]] \in Row
  BY DEF TypeOK, JobIds
<1>2. Taken(jobs, id, w) \in [JobIds -> Job]
  BY TakenType DEF TypeOK
<1>3. Completed(Taken(jobs, id, w), id, w) \in [JobIds -> Job]
  BY <1>2, CompletedType
<1>4. pub[id[1]].attempts + 1 \in Nat
  BY <1>1 DEF Row
<1>5. [pc |-> "claim", p |-> id[1], v |-> id[2],
       n |-> pub[id[1]].attempts + 1,
       usable |-> chan[ChannelOf(id[1])] = "active",
       noted |-> FALSE, class |-> "none"] \in RunState
  BY <1>1, <1>4 DEF RunState, Running, FailureClasses
<1>6. run' \in [Workers -> RunState]
  BY <1>5 DEF Start, TypeOK
<1>7. jobs' \in [JobIds -> Job]
  BY <1>2, <1>3 DEF Start
<1>8. QED
  BY <1>6, <1>7 DEF Start, TypeOK, NoFault

(* So does everything a slot does.                                         *)
LEMMA WorkerType ==
  ASSUME TypeOK, NEW w \in Workers, WorkerStep(w)
  PROVE  TypeOK'
<1>1. ASSUME WorkerDies(w) PROVE TypeOK'
  <2>1. run' \in [Workers -> RunState] /\ faults' \in Nat
    BY <1>1 DEF WorkerDies, TypeOK, Fault, Idle, RunState
  <2>2. QED
    BY <1>1, <2>1 DEF WorkerDies, TypeOK
<1>2. QED
  BY <1>1, StartType, RunType DEF WorkerStep

(* What BullMQ and Redis do on their own keeps the types.                  *)
LEMMA QueueType ==
  ASSUME TypeOK, QueueStep
  PROVE  TypeOK'
<1>1. ASSUME NEW id \in JobIds, JobBecomesDue(id) PROVE TypeOK'
  <2>1. [jobs[id] EXCEPT !.st = "waiting"] \in Job
    BY DEF TypeOK, Job, JobStates
  <2>2. jobs' \in [JobIds -> Job]
    BY <1>1, <2>1 DEF JobBecomesDue, TypeOK
  <2>3. QED
    BY <1>1, <2>2 DEF JobBecomesDue, TypeOK, NoFault
<1>2. ASSUME NEW id \in JobIds, JobStalls(id) PROVE TypeOK'
  BY <1>2, StalledType DEF JobStalls, TypeOK, NoFault, Fault
<1>3. ASSUME NEW id \in JobIds, JobExpires(id) PROVE TypeOK'
  BY <1>3, NewJobTypes DEF JobExpires, TypeOK, NoFault
<1>4. ASSUME RedisFlushed PROVE TypeOK'
  BY <1>4, NewJobTypes DEF RedisFlushed, TypeOK, Fault
<1>5. QED
  BY <1>1, <1>2, <1>3, <1>4 DEF QueueStep

(* The sweep keeps the types (reconcilePublications).                      *)
LEMMA SweepType ==
  ASSUME TypeOK, SweepStep
  PROVE  TypeOK'
<1>0. SweepOver \in ReconState
  BY DEF SweepOver, ReconState
<1>1. ASSUME SweepReads PROVE TypeOK'
  <2>1. ASSUME NEW p \in Overdue
        PROVE  <<p, pub[p].version>> \in Pubs \X (0 .. MaxVersion)
    BY DEF Overdue, TypeOK, Row
  <2>2. {<<p, pub[p].version>> : p \in Overdue} \in SUBSET (Pubs \X (0 .. MaxVersion))
    BY <2>1
  <2>3. recon' \in ReconState
    BY <1>1, <2>2 DEF SweepReads, ReconState
  <2>4. QED
    BY <1>1, <2>3 DEF SweepReads, TypeOK, NoFault
<1>2. ASSUME NEW id \in JobIds, SweepEnqueues(id) PROVE TypeOK'
  <2>1. jobs' \in [JobIds -> Job]
    BY <1>2, AddedType DEF SweepEnqueues, TypeOK, JobStates
  <2>2. recon' \in ReconState
    BY <1>2 DEF SweepEnqueues, TypeOK, ReconState
  <2>3. QED
    BY <1>2, <2>1, <2>2 DEF SweepEnqueues, TypeOK, NoFault
<1>3. ASSUME SweepReleases PROVE TypeOK'
  <2>1. ASSUME NEW p \in Pubs
        PROVE  [pub[p] EXCEPT !.status = "scheduled", !.aged = FALSE] \in Row
    <3>1. pub[p] \in Row
      BY <2>1 DEF TypeOK
    <3>2. QED
      BY <3>1 DEF Row, RowStates
  <2>2. pub' \in [Pubs -> Row]
    BY <1>3, <2>1 DEF SweepReleases, TypeOK
  <2>3. doubt' \in [Pubs -> SUBSET Doubts]
    BY <1>3 DEF SweepReleases, TypeOK, Doubts
  <2>4. QED
    BY <1>0, <1>3, <2>2, <2>3 DEF SweepReleases, TypeOK, NoFault
<1>4. ASSUME SweepAborts PROVE TypeOK'
  BY <1>0, <1>4 DEF SweepAborts, TypeOK, Fault
<1>5. QED
  BY <1>1, <1>2, <1>3, <1>4 DEF SweepStep

(* Time and the channels keep the types.                                   *)
LEMMA WorldType ==
  ASSUME TypeOK, WorldStep
  PROVE  TypeOK'
<1>1. ASSUME NEW p \in Pubs, TimeComes(p) PROVE TypeOK'
  <2>1. pub' \in [Pubs -> Row]
    <3>1. pub \in [Pubs -> Row]
      BY DEF TypeOK
    <3>2. [pub[p] EXCEPT !.due = TRUE] \in Row
      BY <3>1 DEF Row
    <3> QED
      BY <1>1, <3>1, <3>2 DEF TimeComes
  <2>2. QED
    BY <1>1, <2>1 DEF TimeComes, TypeOK, NoFault
<1>2. ASSUME NEW p \in Pubs, RowAges(p) PROVE TypeOK'
  <2>1. pub' \in [Pubs -> Row]
    <3>1. pub \in [Pubs -> Row]
      BY DEF TypeOK
    <3>2. [pub[p] EXCEPT !.aged = TRUE] \in Row
      BY <3>1 DEF Row
    <3> QED
      BY <1>2, <3>1, <3>2 DEF RowAges
  <2>2. QED
    BY <1>2, <2>1 DEF RowAges, TypeOK, NoFault, Fault
<1>3. ASSUME NEW c \in Channels, ChannelBreaks(c) PROVE TypeOK'
  BY <1>3 DEF ChannelBreaks, TypeOK, ChannelStates, Fault
<1>4. ASSUME NEW c \in Channels, ChannelReconnected(c) PROVE TypeOK'
  BY <1>4 DEF ChannelReconnected, TypeOK, ChannelStates, NoFault
<1>5. ASSUME NEW c \in Channels, Disconnect(c) PROVE TypeOK'
  <2>1. ASSUME NEW p \in Pubs PROVE [pub[p] EXCEPT !.status = "gone"] \in Row
    <3>1. pub[p] \in Row
      BY <2>1 DEF TypeOK
    <3>2. QED
      BY <3>1 DEF Row, RowStates
  <2>2. pub' \in [Pubs -> Row]
    BY <1>5, <2>1 DEF Disconnect, TypeOK
  <2>3. log' \in [Pubs -> [open: Int, ok: Int]]
    BY <1>5 DEF Disconnect, TypeOK
  <2>4. chan' \in [Channels -> ChannelStates]
    BY <1>5 DEF Disconnect, TypeOK, ChannelStates
  <2>5. QED
    BY <1>5, <2>2, <2>3, <2>4 DEF Disconnect, TypeOK, Fault
<1>6. QED
  BY <1>1, <1>2, <1>3, <1>4, <1>5 DEF WorldStep

(* Every step keeps the types.                                             *)
LEMMA NextType == TypeOK /\ [Next]_vars => TypeOK'
<1> SUFFICES ASSUME TypeOK, [Next]_vars PROVE TypeOK'
  OBVIOUS
<1>1. CASE Next
  BY <1>1, RequestType, WorkerType, QueueType, SweepType, WorldType DEF Next
<1>2. CASE UNCHANGED vars
  BY <1>2 DEF vars, TypeOK
<1>3. QED
  BY <1>1, <1>2

(* The variables keep their types in every behaviour: versions stay below  *)
(* the bound, jobs within their tries and stalls, requests and runs in the *)
(* states the code can be in, whatever fails.                              *)
THEOREM TypeCorrect == Spec => []TypeOK
  BY InitType, NextType, PTL DEF Spec
-----------------------------------------------------------------------------
(* The claim.                                                              *)

(* The inductive invariant.  A post can go out twice only if two runs hold *)
(* it, or if one is claimed that is already out; that neither happens needs*)
(* to know what the row says while a run holds it (ClaimIsCurrent) and what*)
(* the run's position says about the Page (RunKnowsPage).                  *)
ClaimInv ==
  /\ TypeOK
  /\ OneClaimant
  /\ ClaimIsCurrent
  /\ RunKnowsPage
  /\ PendingIsOffPage
  /\ PublishedIsOnPage
  /\ OnceUnlessDisturbed

(* The initial states satisfy it: nobody holds anything, nothing is out.   *)
LEMMA ClaimInit == Init => ClaimInv
<1> SUFFICES ASSUME Init PROVE ClaimInv
  OBVIOUS
<1>1. /\ TypeOK
      /\ \A w \in Workers : run[w].pc = "idle"
      /\ \A p \in Pubs : onPage[p] = 0 /\ pub[p].status = "none"
  BY InitType DEF Init, Idle
<1>2. QED
  BY <1>1 DEF ClaimInv, OneClaimant, ClaimIsCurrent, RunKnowsPage,
       PendingIsOffPage, PublishedIsOnPage, OnceUnlessDisturbed, HoldsClaim,
       Holding, Sent, Unsent

(* A step that leaves the rows' status and version, the Page and the doubts*)
(* alone, and gives no run a claim or a success it did not have.           *)
Quiet ==
  /\ \A p \in Pubs : /\ pub'[p].status = pub[p].status
                     /\ pub'[p].version = pub[p].version
  /\ onPage' = onPage /\ doubt' = doubt
  /\ \A w \in Workers :
       run'[w].pc \in Holding =>
         /\ run'[w].pc \in Sent <=> run[w].pc \in Sent
         /\ run'[w].pc \in Unsent <=> run[w].pc \in Unsent
         /\ run'[w].p = run[w].p /\ run'[w].v = run[w].v

(* Such a step keeps the invariant.                                        *)
LEMMA QuietStep ==
  ASSUME ClaimInv, TypeOK', Quiet
  PROVE  ClaimInv'
<1>1. ASSUME NEW w \in Workers, NEW p \in Pubs, HoldsClaim(w, p)'
      PROVE  HoldsClaim(w, p) /\ run'[w].v = run[w].v
  BY <1>1 DEF Quiet, HoldsClaim, Holding
<1>2. \A p \in Pubs : Undisturbed(p)' <=> Undisturbed(p)
  BY DEF Quiet, Undisturbed
<1>3. OneClaimant'
  BY <1>1, <1>2 DEF ClaimInv, OneClaimant
<1>4. ClaimIsCurrent'
  BY <1>1, <1>2 DEF ClaimInv, ClaimIsCurrent, Quiet
<1>5. RunKnowsPage'
  BY DEF ClaimInv, RunKnowsPage, Quiet, Holding, Undisturbed
<1>6. PendingIsOffPage' /\ PublishedIsOnPage' /\ OnceUnlessDisturbed'
  BY <1>2 DEF ClaimInv, PendingIsOffPage, PublishedIsOnPage,
       OnceUnlessDisturbed, Quiet
<1>7. QED
  BY <1>3, <1>4, <1>5, <1>6 DEF ClaimInv

(* Requests: what they overwrite is either pending, and then on no Page and*)
(* in no run's hands, or they leave a doubt behind.                        *)
LEMMA RequestKeepsClaims ==
  ASSUME ClaimInv, NEW r \in Requests, RequestStep(r)
  PROVE  ClaimInv'
<1>0. TypeOK /\ TypeOK'
  BY RequestType DEF ClaimInv
<1>1. CASE RequestWrites(r)
  <2>a. req[r].p \in Pubs /\ req[r].op \in Operations
    BY <1>0, <1>1, RequestParts DEF RequestWrites
  <2>b. PICK q \in Pubs : q = req[r].p
    BY <2>a
  <2>0. q \in Pubs /\ q = req[r].p /\ pub[q] \in Row
    BY <1>0, <2>b DEF TypeOK
  <2>1. /\ onPage' = onPage /\ run' = run
        /\ pub'[q].status \in {"scheduled", "cancelled"}
        /\ \A p \in Pubs \ {q} : pub'[p] = pub[p]
    BY <1>0, <1>1, <2>0 DEF RequestWrites, TypeOK, Written
  <2>2. \A p \in Pubs : Undisturbed(p)' => Undisturbed(p)
    BY <1>0, <1>1 DEF RequestWrites, Doubted, Undisturbed, TypeOK
  <2>3. Undisturbed(q)' => pub[q].status \in {"none", "scheduled", "failed",
                                              "cancelled"}
    <3>1. pub[q].status \in RowStates \ {"gone"}
      BY <1>1, <2>0 DEF RequestWrites, Row
    <3>2. CASE pub[q].status \in {"publishing", "published"}
      <4>1. "user" \in doubt'[q]
        BY <1>0, <1>1, <2>0, <3>2 DEF RequestWrites, Doubted, TypeOK
      <4>2. QED
        BY <4>1 DEF Undisturbed
    <3>3. QED
      BY <3>1, <3>2 DEF RowStates
  <2>4. Undisturbed(q)' => /\ onPage[q] = 0
                           /\ \A w \in Workers : ~HoldsClaim(w, q)
    BY <2>0, <2>2, <2>3 DEF ClaimInv, ClaimIsCurrent, PendingIsOffPage
  <2>5. \A w \in Workers, p \in Pubs : HoldsClaim(w, p)' <=> HoldsClaim(w, p)
    BY <2>1 DEF HoldsClaim
  <2>6. OneClaimant'
    BY <2>2, <2>5 DEF ClaimInv, OneClaimant
  <2>7. ClaimIsCurrent'
    BY <2>1, <2>2, <2>4, <2>5 DEF ClaimInv, ClaimIsCurrent
  <2>8. RunKnowsPage'
    <3>1. \A w \in Workers : run[w].pc \in Holding => run[w].p \in Pubs
      BY <1>0, RunParts DEF Holding, Sent, Unsent
    <3>2. QED
      BY <2>1, <2>2, <3>1 DEF ClaimInv, RunKnowsPage, Holding
  <2>9. PendingIsOffPage' /\ PublishedIsOnPage' /\ OnceUnlessDisturbed'
    BY <2>1, <2>2, <2>4 DEF ClaimInv, PendingIsOffPage, PublishedIsOnPage,
         OnceUnlessDisturbed
  <2>10. QED
    BY <1>0, <2>6, <2>7, <2>8, <2>9 DEF ClaimInv
<1>2. CASE ~RequestWrites(r)
  <2>1. UNCHANGED <<pub, run, onPage, doubt>>
    BY <1>2 DEF RequestStep, RequestReads, RequestRefused, RequestQueues,
         RequestFindsRedisDown, RequestPlans, RequestLost
  <2>2. QED
    BY <1>0, <2>1, QuietStep DEF Quiet
<1>3. QED
  BY <1>1, <1>2

(* Queue, channels and time do not touch rows, runs or the Page.           *)
LEMMA QueueKeepsClaims ==
  ASSUME ClaimInv, QueueStep
  PROVE  ClaimInv'
<1>1. TypeOK'
  BY QueueType DEF ClaimInv
<1>2. UNCHANGED <<pub, run, onPage, doubt>>
  BY DEF QueueStep, JobBecomesDue, JobStalls, JobExpires, RedisFlushed
<1>3. QED
  BY <1>1, <1>2, QuietStep DEF Quiet

(* A disconnected Page takes its rows away from the runs that hold them.   *)
LEMMA WorldKeepsClaims ==
  ASSUME ClaimInv, WorldStep
  PROVE  ClaimInv'
<1>0. TypeOK /\ TypeOK'
  BY WorldType DEF ClaimInv
<1>1. CASE \E c \in Channels : Disconnect(c)
  <2>1. /\ UNCHANGED <<run, onPage, doubt>>
        /\ \A p \in Pubs : \/ pub'[p] = pub[p]
                           \/ pub'[p].status = "gone"
    BY <1>0, <1>1 DEF Disconnect, TypeOK, Row
  <2>2. OneClaimant' /\ RunKnowsPage' /\ OnceUnlessDisturbed'
    BY <2>1 DEF ClaimInv, OneClaimant, RunKnowsPage, OnceUnlessDisturbed,
         HoldsClaim, Undisturbed
  <2>3. ClaimIsCurrent'
    BY <2>1 DEF ClaimInv, ClaimIsCurrent, HoldsClaim, Undisturbed
  <2>4. PendingIsOffPage' /\ PublishedIsOnPage'
    BY <2>1 DEF ClaimInv, PendingIsOffPage, PublishedIsOnPage, Undisturbed
  <2>5. QED
    BY <1>0, <2>2, <2>3, <2>4 DEF ClaimInv
<1>2. CASE ~\E c \in Channels : Disconnect(c)
  <2>1. /\ UNCHANGED <<run, onPage, doubt>>
        /\ \A p \in Pubs : /\ pub'[p].status = pub[p].status
                           /\ pub'[p].version = pub[p].version
    <3>1. ASSUME NEW q \in Pubs, TimeComes(q) \/ RowAges(q) PROVE <2>1!:
      BY <1>0, <3>1 DEF TimeComes, RowAges, TypeOK, Row
    <3>2. ASSUME NEW c \in Channels, ChannelBreaks(c) \/ ChannelReconnected(c)
          PROVE  <2>1!:
      BY <3>2 DEF ChannelBreaks, ChannelReconnected
    <3>3. QED
      BY <1>2, <3>1, <3>2 DEF WorldStep
  <2>2. QED
    BY <1>0, <2>1, QuietStep DEF Quiet
<1>3. QED
  BY <1>1, <1>2

(* The sweep releases rows nobody holds and nobody has posted, or it leaves*)
(* a doubt behind.                                                         *)
LEMMA SweepKeepsClaims ==
  ASSUME ClaimInv, SweepStep
  PROVE  ClaimInv'
<1>0. TypeOK /\ TypeOK'
  BY SweepType DEF ClaimInv
<1>1. CASE SweepReleases
  <2>1. /\ UNCHANGED <<run, onPage>>
        /\ \A p \in Pubs : \/ pub'[p] = pub[p]
                           \/ Stuck(p) /\ pub'[p].status = "scheduled"
    <3>1. ASSUME NEW p \in Pubs, Stuck(p) PROVE pub'[p].status = "scheduled"
      <4>1. pub[p] \in Row
        BY <1>0 DEF TypeOK
      <4>2. pub'[p] = [pub[p] EXCEPT !.status = "scheduled", !.aged = FALSE]
        BY <1>1, <3>1 DEF SweepReleases
      <4>3. QED
        BY <4>1, <4>2 DEF Row
    <3>2. ASSUME NEW p \in Pubs, ~Stuck(p) PROVE pub'[p] = pub[p]
      BY <1>1, <3>2 DEF SweepReleases
    <3>3. UNCHANGED <<run, onPage>>
      BY <1>1 DEF SweepReleases
    <3>4. QED
      BY <3>1, <3>2, <3>3
  <2>2. \A p \in Pubs : Undisturbed(p)' => Undisturbed(p)
    BY <1>0, <1>1 DEF SweepReleases, Undisturbed, TypeOK
  <2>3. \A p \in Pubs : Undisturbed(p)' /\ Stuck(p) =>
           onPage[p] = 0 /\ \A w \in Workers : ~HoldsClaim(w, p)
    <3>1. SUFFICES ASSUME NEW p \in Pubs, Undisturbed(p)', Stuck(p)
                   PROVE  ~(onPage[p] > 0 \/ \E w \in Workers : HoldsClaim(w, p))
      BY <1>0 DEF TypeOK
    <3>2. doubt'[p] = {}
      BY <3>1 DEF Undisturbed
    <3>3. QED
      BY <1>1, <3>1, <3>2 DEF SweepReleases
  <2>4. OneClaimant' /\ OnceUnlessDisturbed'
    BY <2>1, <2>2 DEF ClaimInv, OneClaimant, OnceUnlessDisturbed, HoldsClaim
  <2>5. ClaimIsCurrent'
    BY <2>1, <2>2, <2>3 DEF ClaimInv, ClaimIsCurrent, HoldsClaim
  <2>6. RunKnowsPage'
    <3>1. \A w \in Workers : run[w].pc \in Holding => run[w].p \in Pubs
      BY <1>0, RunParts DEF Holding, Sent, Unsent
    <3>2. QED
      BY <2>1, <2>2, <3>1 DEF ClaimInv, RunKnowsPage, Holding
  <2>7. PendingIsOffPage' /\ PublishedIsOnPage'
    BY <2>1, <2>2, <2>3 DEF ClaimInv, PendingIsOffPage, PublishedIsOnPage
  <2>8. QED
    BY <1>0, <2>4, <2>5, <2>6, <2>7 DEF ClaimInv
<1>2. CASE ~SweepReleases
  <2>1. UNCHANGED <<pub, run, onPage, doubt>>
    BY <1>2 DEF SweepStep, SweepReads, SweepEnqueues, SweepAborts
  <2>2. QED
    BY <1>0, <2>1, QuietStep DEF Quiet
<1>3. QED
  BY <1>1, <1>2

(* The invariant, as it concerns one publication.                          *)
SafeAt(p) ==
  /\ Undisturbed(p) =>
       /\ \A u, w \in Workers : HoldsClaim(u, p) /\ HoldsClaim(w, p) => u = w
       /\ \A w \in Workers : HoldsClaim(w, p) =>
            /\ \/ pub[p].status = "gone"
               \/ pub[p].status = "publishing" /\ pub[p].version = run[w].v
            /\ run[w].pc \in Unsent => onPage[p] = 0
       /\ pub[p].status \in {"none", "scheduled", "failed", "cancelled"}
            => onPage[p] = 0
       /\ onPage[p] <= 1
  /\ pub[p].status = "published" => onPage[p] > 0
  /\ \A w \in Workers : run[w].pc \in Sent /\ run[w].p = p => onPage[p] > 0

(* It is the invariant, taken one publication at a time.                   *)
LEMMA SafeEverywhere == TypeOK => (ClaimInv <=> \A p \in Pubs : SafeAt(p))
<1> SUFFICES ASSUME TypeOK PROVE ClaimInv <=> \A p \in Pubs : SafeAt(p)
  OBVIOUS
<1>1. \A w \in Workers : run[w].pc \in Holding => run[w].p \in Pubs
  BY RunParts DEF Holding, Sent, Unsent
<1>2. ClaimInv => \A p \in Pubs : SafeAt(p)
  BY DEF ClaimInv, SafeAt, OneClaimant, ClaimIsCurrent, RunKnowsPage,
         PendingIsOffPage, PublishedIsOnPage, OnceUnlessDisturbed, HoldsClaim,
         Holding
<1>3. ASSUME \A p \in Pubs : SafeAt(p) PROVE ClaimInv
  <2>1. RunKnowsPage
    BY <1>1, <1>3 DEF SafeAt, RunKnowsPage, HoldsClaim, Holding
  <2>2. QED
    BY <1>3, <2>1 DEF ClaimInv, SafeAt, OneClaimant, ClaimIsCurrent,
         PendingIsOffPage, PublishedIsOnPage, OnceUnlessDisturbed
<1>4. QED
  BY <1>2, <1>3

(* A step of one run that keeps its own publication safe keeps them all.   *)
LEMMA LocalStep ==
  ASSUME ClaimInv, TypeOK', NEW w \in Workers, NEW q \in Pubs, SafeAt(q)',
         run[w].p = q,
         run'[w].pc \in Holding => run'[w].p = q,
         \A u \in Workers \ {w} : run'[u] = run[u],
         \A p \in Pubs \ {q} : /\ pub'[p] = pub[p]
                               /\ onPage'[p] = onPage[p]
                               /\ doubt'[p] = doubt[p]
  PROVE  ClaimInv'
<1>1. ASSUME NEW p \in Pubs, p # q PROVE SafeAt(p)'
  <2>1. SafeAt(p)
    BY SafeEverywhere DEF ClaimInv
  <2>2. ASSUME NEW u \in Workers, run'[u].pc \in Holding, run'[u].p = p
        PROVE  run'[u] = run[u]
    BY <1>1, <2>2
  <2>3. QED
    BY <1>1, <2>1, <2>2 DEF SafeAt, HoldsClaim, Undisturbed, Holding
<1>2. \A p \in Pubs : SafeAt(p)'
  BY <1>1
<1>3. (TypeOK => (ClaimInv <=> \A p \in Pubs : SafeAt(p)))'
  BY SafeEverywhere, PTL
<1>4. QED
  BY <1>2, <1>3

(* What a step of a slot does to the others: nothing.                      *)
LEMMA OtherRuns ==
  ASSUME TypeOK, NEW w \in Workers, WorkerStep(w)
  PROVE  \A u \in Workers \ {w} : run'[u] = run[u]
  BY DEF WorkerStep, RunStep, Start, Claim, ClaimLost, Begin, CallSucceeds,
       CallRefused, CallAnswerLost, NoteOk, NotePublished, Announce, LateError,
       NoteFail, NoteStatus, Settle, RunThrows, WorkerDies, Goto, GoesWrong,
       Returns, Throws, TypeOK

(* A worker keeps the invariant: starting, dying and the log change nothing*)
(* it speaks of, and each of the six other steps respects the claim.       *)
LEMMA WorkerKeepsClaims ==
  ASSUME ClaimInv, NEW w \in Workers, WorkerStep(w)
  PROVE  ClaimInv'
<1>0. TypeOK /\ TypeOK'
  BY WorkerType DEF ClaimInv
<1>1. \A u \in Workers \ {w} : run'[u] = run[u]
  BY <1>0, OtherRuns
<1>2. CASE \/ \E id \in JobIds : Start(w, id)
           \/ ClaimLost(w) \/ Announce(w) \/ Settle(w) \/ RunThrows(w)
           \/ WorkerDies(w)
  <2>1. UNCHANGED <<pub, onPage, doubt>> /\ run'[w].pc \notin Holding
    BY <1>0, <1>2 DEF Start, ClaimLost, Announce, Settle, RunThrows, WorkerDies,
         Returns, Throws, TypeOK, Idle, Holding, Sent, Unsent
  <2>2. QED
    BY <1>0, <1>1, <2>1, QuietStep DEF Quiet
<1>3. CASE Begin(w) \/ CallRefused(w) \/ NoteOk(w) \/ NoteFail(w)
  <2>1. run[w] \in [pc: Running, p: Pubs, v: Versions, n: Nat, usable: BOOLEAN,
                    noted: BOOLEAN, class: FailureClasses]
    BY <1>0, <1>3 DEF Begin, CallRefused, NoteOk, NoteFail, TypeOK, RunState
  <2>2. /\ UNCHANGED <<pub, onPage, doubt>>
        /\ run'[w].p = run[w].p /\ run'[w].v = run[w].v
        /\ \/ {run[w].pc, run'[w].pc} \subseteq Sent
           \/ {run[w].pc, run'[w].pc} \subseteq Unsent
    BY <1>0, <1>3, <2>1 DEF Begin, CallRefused, NoteOk, NoteFail, Goto,
         GoesWrong, TypeOK, Sent, Unsent
  <2>3. Sent \cap Unsent = {}
    BY DEF Sent, Unsent
  <2>4. QED
    BY <1>0, <1>1, <2>2, <2>3, QuietStep DEF Quiet
<1>4. CASE \/ Claim(w) \/ CallSucceeds(w) \/ CallAnswerLost(w)
           \/ NotePublished(w) \/ LateError(w) \/ NoteStatus(w)
  <2>1. run[w] \in [pc: Running, p: Pubs, v: Versions, n: Nat, usable: BOOLEAN,
                    noted: BOOLEAN, class: FailureClasses]
    BY <1>0, <1>4 DEF Claim, CallSucceeds, CallAnswerLost, NotePublished,
         LateError, NoteStatus, TypeOK, RunState
  <2>2. PICK q \in Pubs : q = run[w].p
    BY <2>1
  <2>3. /\ SafeAt(q)
        /\ pub[q] \in Row /\ onPage[q] \in Nat
        /\ \A u \in Workers : HoldsClaim(u, q) <=> run[u].pc \in Holding /\ run[u].p = q
    BY <1>0, SafeEverywhere DEF HoldsClaim, ClaimInv, TypeOK
  <2>4. /\ \A p \in Pubs \ {q} : /\ pub'[p] = pub[p]
                               /\ onPage'[p] = onPage[p]
                               /\ doubt'[p] = doubt[p]
        /\ run'[w].p = q /\ run'[w].v = run[w].v
    BY <1>0, <1>4, <2>1, <2>2 DEF Claim, CallSucceeds, CallAnswerLost,
         NotePublished, LateError, NoteStatus, Goto, GoesWrong, SetStatus,
         Doubted, TypeOK
  <2>5. SafeAt(q)'
    <3>1. CASE Claim(w)
      <4>1. /\ run'[w].pc = "begin"
            /\ pub[q].status = "scheduled" /\ pub[q].version = run[w].v
            /\ pub'[q].status = "publishing" /\ pub'[q].version = run[w].v
            /\ UNCHANGED <<onPage, doubt>>
        BY <1>0, <2>1, <2>2, <2>3, <3>1 DEF Claim, CanClaim, Goto, TypeOK, Row
      <4>2. QED
        BY <1>1, <2>3, <2>4, <4>1 DEF SafeAt, HoldsClaim, Undisturbed, Sent
    <3>2. CASE CallSucceeds(w)
      <4>1. /\ run[w].pc = "call" /\ run'[w].pc = "note_ok"
            /\ onPage'[q] = onPage[q] + 1 /\ UNCHANGED <<pub, doubt>>
        BY <1>0, <2>1, <2>2, <3>2 DEF CallSucceeds, Goto, TypeOK
      <4>2. QED
        BY <1>1, <2>2, <2>3, <2>4, <4>1 DEF SafeAt, HoldsClaim, Undisturbed,
             Sent, Unsent, Holding
    <3>3. CASE CallAnswerLost(w) \/ LateError(w)
      <4>1. /\ run'[w].pc = "note_fail" /\ "late" \in doubt'[q]
            /\ onPage'[q] \in {onPage[q], onPage[q] + 1} /\ UNCHANGED pub
        BY <1>0, <2>1, <2>2, <3>3 DEF CallAnswerLost, LateError, GoesWrong,
             Doubted, TypeOK
      <4>2. QED
        BY <1>1, <2>3, <4>1 DEF SafeAt, Undisturbed, Sent
    <3>4. CASE NotePublished(w)
      <4>1. /\ run[w].pc = "note_published" /\ run'[w].pc = "announce"
            /\ pub'[q].status = "published" /\ UNCHANGED <<onPage, doubt>>
        BY <1>0, <2>1, <2>2, <2>3, <3>4 DEF NotePublished, SetStatus, Goto,
             TypeOK, Row
      <4>2. QED
        BY <1>1, <2>2, <2>3, <4>1 DEF SafeAt, HoldsClaim, Undisturbed,
             Sent, Unsent, Holding
    <3>5. CASE NoteStatus(w)
      <4>1. /\ run[w].pc = "note_status" /\ run'[w].pc = "settle"
            /\ pub'[q].status \in {"scheduled", "failed"}
            /\ UNCHANGED <<onPage, doubt>>
        BY <1>0, <2>1, <2>2, <2>3, <3>5 DEF NoteStatus, SetStatus, Goto,
             TypeOK, Row
      <4>2. QED
        BY <1>1, <2>2, <2>3, <4>1 DEF SafeAt, HoldsClaim, Undisturbed,
             Sent, Unsent, Holding
    <3>6. QED
      BY <1>4, <3>1, <3>2, <3>3, <3>4, <3>5
  <2>6. QED
    BY <1>0, <1>1, <2>2, <2>4, <2>5, LocalStep
<1>5. QED
  BY <1>2, <1>3, <1>4 DEF WorkerStep, RunStep

(* Every step keeps the invariant.                                         *)
LEMMA ClaimNext == ClaimInv /\ [Next]_vars => ClaimInv'
<1> SUFFICES ASSUME ClaimInv, [Next]_vars PROVE ClaimInv'
  OBVIOUS
<1>1. CASE Next
  BY <1>1, RequestKeepsClaims, WorkerKeepsClaims, QueueKeepsClaims,
     SweepKeepsClaims, WorldKeepsClaims DEF Next
<1>2. CASE UNCHANGED vars
  <2>1. TypeOK'
    BY NextType DEF ClaimInv
  <2>2. QED
    BY <1>2, <2>1, QuietStep DEF vars, Quiet
<1>3. QED
  BY <1>1, <1>2

(* It holds in every behaviour.                                            *)
THEOREM ClaimCorrect == Spec => []ClaimInv
  BY ClaimInit, ClaimNext, PTL DEF Spec

(* However many workers, requests, versions and failures there are, a      *)
(* publication that nothing has disturbed is on the Page at most once.     *)
THEOREM PostsOnce == Spec => []OnceUnlessDisturbed
<1>1. ClaimInv => OnceUnlessDisturbed
  BY DEF ClaimInv
<1>2. QED
  BY <1>1, ClaimCorrect, PTL

(* The claim of runPublication is won by one run only.                     *)
THEOREM OneWinner == Spec => []OneClaimant
<1>1. ClaimInv => OneClaimant
  BY DEF ClaimInv
<1>2. QED
  BY <1>1, ClaimCorrect, PTL

(* The unconditional writes of a run hit the schedule they were claimed for*)
THEOREM ClaimNotStale == Spec => []ClaimIsCurrent
<1>1. ClaimInv => ClaimIsCurrent
  BY DEF ClaimInv
<1>2. QED
  BY <1>1, ClaimCorrect, PTL

(* What the table says about the Page is true: "published" posts are there,*)
(* and those that may still be sent are not, so that trying one again      *)
(* (retryPublication) is not a second post.                                *)
THEOREM TableTellsTruth == Spec => [](PublishedIsOnPage /\ PendingIsOffPage)
<1>1. ClaimInv => PublishedIsOnPage /\ PendingIsOffPage
  BY DEF ClaimInv
<1>2. QED
  BY <1>1, ClaimCorrect, PTL

(* A run knows whether its post is out: before its call it is not, from    *)
(* the call's success on it is (runPublication's try block).               *)
THEOREM RunsKnowThePage == Spec => []RunKnowsPage
<1>1. ClaimInv => RunKnowsPage
  BY DEF ClaimInv
<1>2. QED
  BY <1>1, ClaimCorrect, PTL

-----------------------------------------------------------------------------
(***************************************************************************)
(* Publishing implements Delivery: every step of a request, a run, the     *)
(* queue or the sweep is a move that Delivery allows.  ClaimInv carries    *)
(* the safety half; what is left is that each write of a row is one of the *)
(* arrows of the life of a publication.                                    *)
(***************************************************************************)

(* A row that was never created has version 0, and a request that must find*)
(* a row has read one.                                                     *)
RowsNumbered ==
  /\ \A p \in Pubs : pub[p].status # "none" => pub[p].version # 0
  /\ \A r \in Requests :
       req[r].pc = "write" /\ req[r].op = "unschedule" => req[r].old # 0

(* Both facts hold in every behaviour.                                     *)
LEMMA RowsNumberedInit == Init => RowsNumbered
  BY DEF Init, RowsNumbered, Idle

(* Requests number the rows they create.                                   *)
LEMMA RequestNumbers ==
  ASSUME TypeOK, RowsNumbered, NEW r \in Requests, RequestStep(r)
  PROVE  RowsNumbered'
<1>1. ASSUME NEW op \in Operations, NEW p \in Pubs, RequestReads(r, op, p)
      PROVE  RowsNumbered'
  <2>1. op = "unschedule" => pub[p].version # 0
    BY <1>1 DEF RequestReads, Accepts, RowsNumbered
  <2>2. req' = [req EXCEPT ![r] = [pc |-> "write", op |-> op, p |-> p,
                                  old |-> pub[p].version, new |-> 0]]
    BY <1>1 DEF RequestReads
  <2>3. QED
    BY <1>1, <2>1, <2>2 DEF RequestReads, RowsNumbered, TypeOK
<1>2. ASSUME RequestWrites(r) PROVE RowsNumbered'
  <2>a. req[r].p \in Pubs
    BY <1>2, RequestParts DEF RequestWrites
  <2>1. PICK q \in Pubs : q = req[r].p
    BY <2>a
  <2>2. pub[q] \in Row
    BY DEF TypeOK
  <2>3. /\ pub'[q].version # 0
        /\ \A p \in Pubs \ {q} : pub'[p] = pub[p]
    BY <1>2, <2>1, <2>2 DEF RequestWrites, Written, Row, TypeOK
  <2>4. req'[r].pc = "queue" /\ \A u \in Requests \ {r} : req'[u] = req[u]
    BY <1>2 DEF RequestWrites, TypeOK, ReqState
  <2>5. QED
    BY <2>3, <2>4 DEF RowsNumbered
<1>3. CASE \/ RequestRefused(r) \/ RequestQueues(r) \/ RequestFindsRedisDown(r)
           \/ RequestPlans(r) \/ RequestLost(r)
  <2>1. pub' = pub /\ req'[r].pc # "write"
    BY <1>3 DEF RequestRefused, RequestQueues, RequestFindsRedisDown,
         RequestPlans, RequestLost, Fails, AfterQueue, TypeOK, Idle, ReqState
  <2>2. \A u \in Requests \ {r} : req'[u] = req[u]
    BY <1>3 DEF RequestRefused, RequestQueues, RequestFindsRedisDown,
         RequestPlans, RequestLost, Fails, AfterQueue, TypeOK
  <2>3. QED
    BY <2>1, <2>2 DEF RowsNumbered
<1>4. QED
  BY <1>1, <1>2, <1>3 DEF RequestStep

(* Nobody else creates a row or changes its number.                        *)
LEMMA OthersNumber ==
  ASSUME TypeOK, RowsNumbered, UNCHANGED req,
         \A p \in Pubs : /\ pub'[p].version = pub[p].version
                         /\ pub[p].status = "none" => pub'[p].status = "none"
  PROVE  RowsNumbered'
  BY DEF RowsNumbered

-----------------------------------------------------------------------------
(* What a step does to one row and its place on the Page.                  *)

Askable == {"none", "scheduled", "failed", "cancelled"}

(* The arrows of the life of a publication, on the concrete variables.     *)
Arrow(p) ==
  \/ /\ onPage'[p] = onPage[p]
     /\ \/ pub'[p].status = pub[p].status
        \/ pub[p].status \in Askable /\ pub'[p].status = "scheduled"
        \/ pub[p].status \in Askable \ {"none"} /\ pub'[p].status = "cancelled"
        \/ pub[p].status = "scheduled" /\ pub'[p].status = "publishing"
        \/ /\ pub[p].status = "publishing" /\ onPage[p] = 1
           /\ pub'[p].status = "published"
        \/ /\ pub[p].status = "publishing" /\ onPage[p] = 0
           /\ pub'[p].status \in {"scheduled", "failed"}
        \/ pub[p].status # "none" /\ pub'[p].status = "gone"
  \/ /\ pub[p].status \in {"publishing", "gone"}
     /\ pub'[p].status = pub[p].status
     /\ onPage[p] = 0 /\ onPage'[p] = 1

(* A step takes an arrow, or its publication is disturbed from then on.    *)
Follows(p) ==
  /\ onPage'[p] >= onPage[p]
  /\ doubt'[p] = {} => doubt[p] = {} /\ Arrow(p)

(* Requests follow the arrows, or leave a doubt.                           *)
LEMMA RequestFollows ==
  ASSUME ClaimInv, RowsNumbered, NEW r \in Requests, RequestStep(r),
         NEW p \in Pubs
  PROVE  Follows(p)
<1>0. TypeOK
  BY DEF ClaimInv
<1>1. CASE RequestWrites(r) /\ p = req[r].p
  <2>1. pub[p] \in Row /\ req[r].op \in Operations /\ onPage' = onPage
    BY <1>0, <1>1, RequestParts DEF RequestWrites, TypeOK
  <2>2. pub'[p].status = IF req[r].op = "unschedule" THEN "cancelled" ELSE "scheduled"
    BY <1>0, <1>1, <2>1 DEF RequestWrites, Written, TypeOK, Row
  <2>3. req[r].op = "unschedule" => pub[p].status # "none"
    BY <1>1 DEF RequestWrites, RowsNumbered
  <2>4. ASSUME doubt'[p] = {}
        PROVE  doubt[p] = {} /\ pub[p].status \in Askable
    <3>1. pub[p].status \in RowStates \ {"gone"}
      BY <1>1, <2>1 DEF RequestWrites, Row
    <3>2. CASE pub[p].status \in {"publishing", "published"}
      <4>1. "user" \in doubt'[p]
        BY <1>0, <1>1, <3>2 DEF RequestWrites, Doubted, TypeOK
      <4>2. QED
        BY <2>4, <4>1
    <3>3. doubt[p] = {}
      BY <1>0, <1>1, <2>4 DEF RequestWrites, Doubted, TypeOK
    <3>4. QED
      BY <3>1, <3>2, <3>3 DEF RowStates, Askable
  <2>5. QED
    BY <1>0, <2>1, <2>2, <2>3, <2>4 DEF Follows, Arrow, TypeOK
<1>2. CASE RequestWrites(r) /\ p # req[r].p
  <2>1. pub'[p] = pub[p] /\ onPage' = onPage /\ doubt'[p] = doubt[p]
    BY <1>0, <1>2 DEF RequestWrites, Doubted, TypeOK
  <2>2. QED
    BY <1>0, <2>1 DEF Follows, Arrow, TypeOK
<1>3. CASE ~RequestWrites(r)
  <2>1. UNCHANGED <<pub, onPage, doubt>>
    BY <1>3 DEF RequestStep, RequestReads, RequestRefused, RequestQueues,
         RequestFindsRedisDown, RequestPlans, RequestLost
  <2>2. QED
    BY <1>0, <2>1 DEF Follows, Arrow, TypeOK
<1>4. QED
  BY <1>1, <1>2, <1>3

(* A run follows the arrows for its own publication and leaves the others. *)
LEMMA WorkerFollows ==
  ASSUME ClaimInv, NEW w \in Workers, WorkerStep(w), NEW p \in Pubs
  PROVE  Follows(p)
<1>0. TypeOK
  BY DEF ClaimInv
<1>1. CASE \/ \E id \in JobIds : Start(w, id)
           \/ ClaimLost(w) \/ Announce(w) \/ Settle(w) \/ RunThrows(w)
           \/ WorkerDies(w)
           \/ Begin(w) \/ CallRefused(w) \/ NoteOk(w) \/ NoteFail(w)
  <2>1. UNCHANGED <<pub, onPage, doubt>>
    BY <1>1 DEF Start, ClaimLost, Announce, Settle, RunThrows, WorkerDies,
         Begin, CallRefused, NoteOk, NoteFail
  <2>2. QED
    BY <1>0, <2>1 DEF Follows, Arrow, TypeOK
<1>2. CASE \/ Claim(w) \/ CallSucceeds(w) \/ CallAnswerLost(w)
           \/ NotePublished(w) \/ LateError(w) \/ NoteStatus(w)
  <2>1. CASE p # run[w].p
    <3>1. pub'[p] = pub[p] /\ onPage'[p] = onPage[p] /\ doubt'[p] = doubt[p]
      BY <1>0, <1>2, <2>1 DEF Claim, CallSucceeds, CallAnswerLost,
           NotePublished, LateError, NoteStatus, SetStatus, Doubted, TypeOK
    <3>2. QED
      BY <1>0, <3>1 DEF Follows, Arrow, TypeOK
  <2>2. CASE p = run[w].p
    <3>0. /\ pub[p] \in Row /\ onPage[p] \in Nat /\ SafeAt(p)
          /\ HoldsClaim(w, p) <=> run[w].pc \in Holding
      BY <1>0, <2>2, SafeEverywhere DEF TypeOK, HoldsClaim
    <3>1. CASE Claim(w)
      <4>1. /\ pub[p].status = "scheduled" /\ pub'[p].status = "publishing"
            /\ UNCHANGED <<onPage, doubt>>
        BY <1>0, <2>2, <3>0, <3>1 DEF Claim, CanClaim, TypeOK, Row
      <4>2. QED
        BY <3>0, <4>1 DEF Follows, Arrow
    <3>2. CASE CallSucceeds(w)
      <4>1. /\ run[w].pc = "call"
            /\ onPage'[p] = onPage[p] + 1 /\ UNCHANGED <<pub, doubt>>
        BY <1>0, <2>2, <3>2 DEF CallSucceeds, TypeOK
      <4>2. doubt[p] = {} => /\ onPage[p] = 0
                             /\ pub[p].status \in {"publishing", "gone"}
        BY <3>0, <4>1 DEF SafeAt, Undisturbed, Holding, Unsent
      <4>3. QED
        BY <3>0, <4>1, <4>2 DEF Follows, Arrow
    <3>3. CASE CallAnswerLost(w) \/ LateError(w)
      <4>1. "late" \in doubt'[p] /\ onPage'[p] >= onPage[p]
        BY <1>0, <2>2, <3>0, <3>3 DEF CallAnswerLost, LateError, Doubted, TypeOK
      <4>2. QED
        BY <4>1 DEF Follows
    <3>4. CASE NotePublished(w)
      <4>1. /\ run[w].pc = "note_published" /\ pub'[p].status = "published"
            /\ pub[p].status # "gone" /\ UNCHANGED <<onPage, doubt>>
        BY <1>0, <2>2, <3>0, <3>4 DEF NotePublished, SetStatus, HasRow, TypeOK, Row
      <4>2. doubt[p] = {} => pub[p].status = "publishing" /\ onPage[p] = 1
        BY <2>2, <3>0, <4>1 DEF SafeAt, Undisturbed, Holding, Sent
      <4>3. QED
        BY <3>0, <4>1, <4>2 DEF Follows, Arrow
    <3>5. CASE NoteStatus(w)
      <4>1. /\ run[w].pc = "note_status"
            /\ pub'[p].status \in {"scheduled", "failed"}
            /\ pub[p].status # "gone" /\ UNCHANGED <<onPage, doubt>>
        BY <1>0, <2>2, <3>0, <3>5 DEF NoteStatus, SetStatus, HasRow, TypeOK, Row
      <4>2. doubt[p] = {} => pub[p].status = "publishing" /\ onPage[p] = 0
        BY <3>0, <4>1 DEF SafeAt, Undisturbed, Holding, Unsent
      <4>3. QED
        BY <3>0, <4>1, <4>2 DEF Follows, Arrow
    <3>6. QED
      BY <1>2, <3>1, <3>2, <3>3, <3>4, <3>5
  <2>3. QED
    BY <2>1, <2>2
<1>3. QED
  BY <1>1, <1>2 DEF WorkerStep, RunStep

(* The sweep puts back what is not out yet, or leaves a doubt.             *)
LEMMA SweepFollows ==
  ASSUME ClaimInv, SweepStep, NEW p \in Pubs
  PROVE  Follows(p)
<1>0. TypeOK /\ pub[p] \in Row /\ onPage[p] \in Nat
  BY DEF ClaimInv, TypeOK
<1>1. CASE SweepReleases /\ Stuck(p)
  <2>1. onPage' = onPage /\ pub[p].status = "publishing"
    BY <1>1 DEF SweepReleases, Stuck
  <2>2. pub'[p] = [pub[p] EXCEPT !.status = "scheduled", !.aged = FALSE]
    BY <1>1 DEF SweepReleases
  <2>3. pub'[p].status = "scheduled"
    BY <1>0, <2>2 DEF Row
  <2>4. doubt'[p] = {} => doubt[p] = {} /\ onPage[p] = 0
    <3>1. doubt'[p] = IF onPage[p] > 0 \/ \E w \in Workers : HoldsClaim(w, p)
                      THEN doubt[p] \cup {"unstuck"} ELSE doubt[p]
      BY <1>1 DEF SweepReleases
    <3>2. CASE onPage[p] > 0 \/ \E w \in Workers : HoldsClaim(w, p)
      BY <3>1, <3>2
    <3>3. CASE ~(onPage[p] > 0 \/ \E w \in Workers : HoldsClaim(w, p))
      BY <1>0, <3>1, <3>3
    <3>4. QED
      BY <3>2, <3>3
  <2>5. QED
    BY <1>0, <2>1, <2>3, <2>4 DEF Follows, Arrow
<1>2. CASE SweepReleases /\ ~Stuck(p)
  <2>1. pub'[p] = pub[p] /\ onPage' = onPage /\ doubt'[p] = doubt[p]
    BY <1>2 DEF SweepReleases
  <2>2. QED
    BY <1>0, <2>1 DEF Follows, Arrow
<1>3. CASE ~SweepReleases
  <2>1. UNCHANGED <<pub, onPage, doubt>>
    BY <1>3 DEF SweepStep, SweepReads, SweepEnqueues, SweepAborts
  <2>2. QED
    BY <1>0, <2>1 DEF Follows, Arrow
<1>4. QED
  BY <1>1, <1>2, <1>3

(* Time and the queue do not touch the life of a row; a channel ends it.   *)
LEMMA RestFollows ==
  ASSUME ClaimInv, QueueStep \/ WorldStep \/ UNCHANGED vars, NEW p \in Pubs
  PROVE  Follows(p)
<1>0. TypeOK /\ pub[p] \in Row /\ onPage[p] \in Nat
  BY DEF ClaimInv, TypeOK
<1>1. CASE \E c \in Channels : Disconnect(c)
  <2>1. /\ onPage' = onPage /\ doubt' = doubt
        /\ \/ pub'[p] = pub[p]
           \/ pub[p].status # "none" /\ pub'[p].status = "gone"
    BY <1>0, <1>1 DEF Disconnect, HasRow, Row
  <2>2. QED
    BY <1>0, <2>1 DEF Follows, Arrow
<1>2. CASE ~\E c \in Channels : Disconnect(c)
  <2>1. pub'[p].status = pub[p].status /\ UNCHANGED <<onPage, doubt>>
    <3>1. CASE QueueStep \/ UNCHANGED vars
      BY <3>1 DEF QueueStep, JobBecomesDue, JobStalls, JobExpires, RedisFlushed,
           vars
    <3>2. CASE \E q \in Pubs : TimeComes(q) \/ RowAges(q)
      <4>1. PICK q \in Pubs : TimeComes(q) \/ RowAges(q)
        BY <3>2
      <4>2. \/ pub' = [pub EXCEPT ![q].due = TRUE]
            \/ pub' = [pub EXCEPT ![q].aged = TRUE]
        BY <4>1 DEF TimeComes, RowAges
      <4>3. pub'[p].status = pub[p].status
        <5>1. \/ pub'[p] = [pub[p] EXCEPT !.due = TRUE]
              \/ pub'[p] = [pub[p] EXCEPT !.aged = TRUE]
              \/ pub'[p] = pub[p]
          BY <1>0, <4>2 DEF TypeOK
        <5>2. QED
          BY <1>0, <5>1 DEF Row
      <4>4. QED
        BY <4>1, <4>3 DEF TimeComes, RowAges
    <3>3. CASE \E c \in Channels : ChannelBreaks(c) \/ ChannelReconnected(c)
      BY <3>3 DEF ChannelBreaks, ChannelReconnected
    <3>4. QED
      BY <1>2, <3>1, <3>2, <3>3 DEF WorldStep
  <2>2. QED
    BY <1>0, <2>1 DEF Follows, Arrow
<1>3. QED
  BY <1>1, <1>2

(* Every step follows the arrows for every publication, and numbers rows.  *)
LEMMA NextFollows ==
  ASSUME ClaimInv, RowsNumbered, [Next]_vars
  PROVE  RowsNumbered' /\ \A p \in Pubs : Follows(p)
<1>0. TypeOK
  BY DEF ClaimInv
<1>1. ASSUME NEW p \in Pubs PROVE Follows(p)
  <2>1. CASE \E r \in Requests : RequestStep(r)
    BY <2>1, RequestFollows
  <2>2. CASE \E w \in Workers : WorkerStep(w)
    BY <2>2, WorkerFollows
  <2>3. CASE SweepStep
    BY <2>3, SweepFollows
  <2>4. CASE QueueStep \/ WorldStep \/ UNCHANGED vars
    BY <2>4, RestFollows
  <2>5. QED
    BY <2>1, <2>2, <2>3, <2>4 DEF Next
<1>2. CASE \E r \in Requests : RequestStep(r)
  BY <1>0, <1>1, <1>2, RequestNumbers
<1>3. CASE \/ \E w \in Workers : WorkerStep(w)
           \/ QueueStep \/ SweepStep \/ WorldStep \/ UNCHANGED vars
  <2>1. UNCHANGED req
    <3>1. CASE \E w \in Workers : WorkerStep(w)
      BY <3>1 DEF WorkerStep, RunStep, Start, Claim, ClaimLost, Begin,
           CallSucceeds, CallRefused, CallAnswerLost, NoteOk, NotePublished,
           Announce, LateError, NoteFail, NoteStatus, Settle, RunThrows,
           WorkerDies
    <3>2. CASE QueueStep \/ SweepStep \/ WorldStep \/ UNCHANGED vars
      BY <3>2 DEF QueueStep, JobBecomesDue, JobStalls, JobExpires, RedisFlushed,
           SweepStep, SweepReads, SweepEnqueues, SweepReleases, SweepAborts,
           WorldStep, TimeComes, RowAges, ChannelBreaks, ChannelReconnected,
           Disconnect, vars
    <3>3. QED
      BY <1>3, <3>1, <3>2
  <2>2. \A p \in Pubs : /\ pub'[p].version = pub[p].version
                        /\ pub[p].status = "none" => pub'[p].status = "none"
    <3>1. CASE \E w \in Workers : WorkerStep(w)
      <4>1. PICK w \in Workers : WorkerStep(w)
        BY <3>1
      <4>2. CASE Claim(w) \/ NotePublished(w) \/ NoteStatus(w)
        BY <1>0, <4>2 DEF Claim, CanClaim, NotePublished, NoteStatus, SetStatus,
             HasRow, TypeOK, Row
      <4>3. CASE ~(Claim(w) \/ NotePublished(w) \/ NoteStatus(w))
        BY <4>1, <4>3 DEF WorkerStep, RunStep, Start, ClaimLost, Begin,
             CallSucceeds, CallRefused, CallAnswerLost, NoteOk, Announce,
             LateError, NoteFail, Settle, RunThrows, WorkerDies
      <4>4. QED
        BY <4>2, <4>3
    <3>2. CASE SweepStep
      <4>1. CASE SweepReleases
        <5>1. ASSUME NEW p \in Pubs
              PROVE  /\ pub'[p].version = pub[p].version
                     /\ pub[p].status = "none" => pub'[p].status = "none"
          <6>1. pub[p] \in Row
            BY <1>0 DEF TypeOK
          <6>2. pub'[p] = IF Stuck(p)
                          THEN [pub[p] EXCEPT !.status = "scheduled", !.aged = FALSE]
                          ELSE pub[p]
            BY <4>1 DEF SweepReleases
          <6>3. QED
            BY <6>1, <6>2 DEF Row, Stuck
        <5>2. QED
          BY <5>1
      <4>2. CASE ~SweepReleases
        BY <3>2, <4>2 DEF SweepStep, SweepReads, SweepEnqueues, SweepAborts
      <4>3. QED
        BY <4>1, <4>2
    <3>3. CASE WorldStep
      <4>1. CASE \E q \in Pubs : TimeComes(q) \/ RowAges(q)
        BY <1>0, <4>1, SMTT(20) DEF TimeComes, RowAges, TypeOK, Row
      <4>2. CASE \E c \in Channels : ChannelBreaks(c) \/ ChannelReconnected(c)
        BY <4>2 DEF ChannelBreaks, ChannelReconnected
      <4>3. CASE \E c \in Channels : Disconnect(c)
        <5>1. ASSUME NEW p \in Pubs
              PROVE  /\ pub'[p].version = pub[p].version
                     /\ pub[p].status = "none" => pub'[p].status = "none"
          BY <1>0, <4>3 DEF Disconnect, HasRow, TypeOK, Row
        <5>2. QED
          BY <5>1
      <4>4. QED
        BY <3>3, <4>1, <4>2, <4>3 DEF WorldStep
    <3>4. CASE QueueStep \/ UNCHANGED vars
      BY <3>4 DEF QueueStep, JobBecomesDue, JobStalls, JobExpires, RedisFlushed,
           vars
    <3>5. QED
      BY <1>3, <3>1, <3>2, <3>3, <3>4
  <2>3. QED
    BY <1>0, <1>1, <2>1, <2>2, OthersNumber
<1>4. QED
  BY <1>1, <1>2, <1>3 DEF Next

-----------------------------------------------------------------------------
(* The refinement mapping of ImplementsDelivery.                           *)

(* Its three variables, before and after a step.                           *)
LEMMA Mapped ==
  ASSUME NEW p \in Pubs, onPage[p] \in Nat, onPage'[p] \in Nat
  PROVE  /\ StatusOf[p] = pub[p].status /\ StatusOf'[p] = pub'[p].status
         /\ OutOf[p] = "no" <=> onPage[p] = 0
         /\ OutOf'[p] = "no" <=> onPage'[p] = 0
         /\ onPage[p] = 1 => OutOf[p] = "once"
         /\ onPage'[p] = 1 => OutOf'[p] = "once"
         /\ onPage'[p] = onPage[p] => OutOf'[p] = OutOf[p]
         /\ p \in DisturbedPubs <=> doubt[p] # {}
         /\ p \in DisturbedPubs' <=> doubt'[p] # {}
  BY DEF StatusOf, OutOf, DisturbedPubs, Undisturbed

(* The initial states map to initial states.                               *)
LEMMA DeliveryInit == Init => Promise!Init
  BY DEF Init, Promise!Init, StatusOf, OutOf, DisturbedPubs, Undisturbed

(* An arrow is a move of Delivery; a disturbed publication that stays true *)
(* to the Page is one too.                                                 *)
LEMMA DeliveryStep ==
  ASSUME ClaimInv, ClaimInv', \A p \in Pubs : Follows(p)
  PROVE  Promise!Next
<1>0. TypeOK /\ TypeOK'
  BY DEF ClaimInv
<1> SUFFICES ASSUME NEW p \in Pubs
             PROVE  Promise!Undisturbed(p) \/ Promise!Disturbed(p)
  BY DEF Promise!Next
<1>1. onPage[p] \in Nat /\ onPage'[p] \in Nat /\ onPage'[p] >= onPage[p]
  BY <1>0 DEF TypeOK, Follows
<1>2. CASE doubt'[p] # {}
  <2>1. pub'[p].status = "published" => onPage'[p] > 0
    BY DEF ClaimInv, PublishedIsOnPage
  <2>2. QED
    BY <1>1, <1>2, <2>1, Mapped DEF Promise!Disturbed
<1>3. CASE doubt'[p] = {}
  <2>1. doubt[p] = {} /\ Arrow(p)
    BY <1>3 DEF Follows
  <2>2. QED
    BY <1>1, <1>3, <2>1, Mapped DEF Promise!Undisturbed, Arrow, Askable,
         Promise!Ask, Promise!Cancel, Promise!Take, Promise!Send,
         Promise!Confirm, Promise!PutBack, Promise!Disconnected,
         Promise!Moves, Promise!Waiting
<1>4. QED
  BY <1>2, <1>3

(* Requests, queue, workers and sweep together keep the promise of Delivery*)
(* in every behaviour, for every number of them and whatever fails.        *)
THEOREM DeliveryKept == Spec => ImplementsDelivery
<1>1. Init => ClaimInv /\ RowsNumbered
  BY ClaimInit, RowsNumberedInit
<1>2. ClaimInv /\ RowsNumbered /\ [Next]_vars => ClaimInv' /\ RowsNumbered'
  BY ClaimNext, NextFollows
<1>3. ClaimInv /\ ClaimInv' /\ RowsNumbered /\ [Next]_vars => Promise!Next
  BY NextFollows, DeliveryStep
<1>4. QED
  BY <1>1, <1>2, <1>3, DeliveryInit, PTL DEF Spec, ImplementsDelivery, Promise!Spec

(* And that promise is worth having: whatever behaves like Delivery sends  *)
(* nothing undisturbed twice, calls published only what is out, and keeps  *)
(* waiting only what is not.                                               *)
PromiseKept == Promise!SentOnce /\ Promise!PublishedIsOut /\ Promise!WaitingIsUnsent

THEOREM DeliveryPromises == ImplementsDelivery => []PromiseKept
<1>1. Promise!Init => PromiseKept
  BY DEF Promise!Init, PromiseKept, Promise!SentOnce, Promise!PublishedIsOut,
         Promise!WaitingIsUnsent
<1>2. PromiseKept /\ [Promise!Next]_Promise!vars => PromiseKept'
  <2> SUFFICES ASSUME PromiseKept, [Promise!Next]_Promise!vars
               PROVE  PromiseKept'
    OBVIOUS
  <2>1. CASE UNCHANGED Promise!vars
    BY <2>1 DEF Promise!vars, PromiseKept, Promise!SentOnce, Promise!PublishedIsOut,
                Promise!WaitingIsUnsent
  <2>2. ASSUME Promise!Next, NEW p \in Pubs
        PROVE  /\ p \in DisturbedPubs' \/ OutOf'[p] # "more"
               /\ StatusOf'[p] = "published" => OutOf'[p] # "no"
               /\ p \in DisturbedPubs' \/ (StatusOf'[p] \in Promise!Waiting => OutOf'[p] = "no")
    <3>1. CASE Promise!Undisturbed(p)
      BY <3>1 DEF PromiseKept, Promise!SentOnce, Promise!PublishedIsOut,
             Promise!WaitingIsUnsent, Promise!Undisturbed, Promise!Ask, Promise!Cancel,
             Promise!Take, Promise!Send, Promise!Confirm, Promise!PutBack,
             Promise!Disconnected, Promise!Moves, Promise!Waiting
    <3>2. CASE Promise!Disturbed(p)
      BY <3>2 DEF Promise!Disturbed
    <3> QED
      BY <2>2, <3>1, <3>2 DEF Promise!Next
  <2> QED
    BY <2>1, <2>2 DEF PromiseKept, Promise!SentOnce, Promise!PublishedIsOut,
                      Promise!WaitingIsUnsent
<1> QED
  BY <1>1, <1>2, PTL DEF ImplementsDelivery, Promise!Spec

-----------------------------------------------------------------------------
(* What a step may never do.                                               *)

(* The three steps of a run that write the row do so while it is open.     *)
LEMMA RunWritesOpenRow ==
  ASSUME ClaimInv, NEW w \in Workers, WorkerStep(w), NEW p \in Pubs,
         doubt'[p] = {}, pub'[p].status # pub[p].status
  PROVE  pub[p].status \in {"scheduled", "publishing", "gone"}
<1>0. TypeOK /\ pub[p] \in Row
  BY DEF ClaimInv, TypeOK
<1>1. CASE Claim(w)
  BY <1>0, <1>1 DEF Claim, CanClaim, TypeOK
<1>2. CASE NotePublished(w) \/ NoteStatus(w)
  <2>1. run[w].p = p /\ HoldsClaim(w, p) /\ doubt[p] = {}
    BY <1>0, <1>2 DEF NotePublished, NoteStatus, SetStatus, HoldsClaim, Holding,
         Sent, Unsent, TypeOK
  <2>2. QED
    BY <2>1 DEF ClaimInv, ClaimIsCurrent, Undisturbed
<1>3. CASE ~(Claim(w) \/ NotePublished(w) \/ NoteStatus(w))
  BY <1>3 DEF WorkerStep, RunStep, Start, ClaimLost, Begin, CallSucceeds,
       CallRefused, CallAnswerLost, NoteOk, Announce, LateError, NoteFail, Settle,
       RunThrows, WorkerDies
<1>4. QED
  BY <1>1, <1>2, <1>3

(* One step and one publication of SettledStays.                           *)
LEMMA SettledStep ==
  ASSUME ClaimInv, [Next]_vars, NEW p \in Pubs,
         pub[p].status \in {"published", "failed", "cancelled"},
         pub'[p].status \notin {pub[p].status, "gone"}, doubt'[p] = {}
  PROVE  pub[p].status # "published" /\ pub'[p].version = pub[p].version + 1
<1>0. TypeOK /\ pub[p] \in Row
  BY DEF ClaimInv, TypeOK
<1>1. CASE \E r \in Requests : RequestStep(r)
  <2>1. PICK r \in Requests : RequestStep(r)
    BY <1>1
  <2>2. CASE RequestWrites(r) /\ req[r].p = p
    <3>1. pub'[p] = Written(pub[p], req[r].op)
      BY <1>0, <2>2 DEF RequestWrites, TypeOK
    <3>2. pub'[p].version = pub[p].version + 1
      BY <1>0, <3>1 DEF Written, Row
    <3>3. pub[p].status # "published"
      <4>1. CASE pub[p].status = "published"
        <5>1. doubt \in [Pubs -> SUBSET Doubts]
          BY <1>0 DEF TypeOK
        <5>2. doubt' = [doubt EXCEPT ![p] = doubt[p] \cup {"user"}]
          BY <2>2, <4>1 DEF RequestWrites, Doubted
        <5>3. "user" \in doubt'[p]
          BY <5>1, <5>2
        <5>4. QED
          BY <5>3
      <4>2. QED
        BY <4>1
    <3>4. QED
      BY <3>2, <3>3
  <2>3. CASE ~(RequestWrites(r) /\ req[r].p = p)
    BY <1>0, <2>1, <2>3 DEF RequestStep, RequestReads, RequestWrites,
       RequestRefused, RequestQueues, RequestFindsRedisDown, RequestPlans,
       RequestLost, TypeOK
  <2>4. QED
    BY <2>2, <2>3
<1>2. CASE \E w \in Workers : WorkerStep(w)
  BY <1>2, RunWritesOpenRow
<1>3. CASE SweepStep
  BY <1>0, <1>3 DEF SweepStep, SweepReads, SweepEnqueues, SweepReleases,
     SweepAborts, Stuck
<1>4. CASE QueueStep \/ WorldStep \/ UNCHANGED vars
  <2>1. CASE \E q \in Pubs : TimeComes(q) \/ RowAges(q)
    <3>1. PICK q \in Pubs : TimeComes(q) \/ RowAges(q)
      BY <2>1
    <3>2. \/ pub'[p] = [pub[p] EXCEPT !.due = TRUE]
          \/ pub'[p] = [pub[p] EXCEPT !.aged = TRUE]
          \/ pub'[p] = pub[p]
      BY <1>0, <3>1 DEF TimeComes, RowAges, TypeOK
    <3>3. QED
      BY <1>0, <3>2 DEF Row
  <2>2. CASE \E c \in Channels : Disconnect(c)
    BY <1>0, <2>2 DEF Disconnect, Row
  <2>3. CASE ~(\/ \E q \in Pubs : TimeComes(q) \/ RowAges(q)
               \/ \E c \in Channels : Disconnect(c))
    BY <1>4, <2>3 DEF QueueStep, JobBecomesDue, JobStalls, JobExpires,
       RedisFlushed, WorldStep, ChannelBreaks, ChannelReconnected, vars
  <2>4. QED
    BY <2>1, <2>2, <2>3
<1>5. QED
  BY <1>1, <1>2, <1>3, <1>4 DEF Next

(* A settled publication reopens only when a user asks again, with a new   *)
(* version: no run, retry, sweep or queue event can do it.                 *)
THEOREM SettledIsFinal == Spec => SettledStays
<1>1. ClaimInv /\ [Next]_vars =>
        \A p \in Pubs :
          (/\ pub[p].status \in {"published", "failed", "cancelled"}
           /\ pub'[p].status \notin {pub[p].status, "gone"}
           /\ doubt'[p] = {})
          => (/\ pub[p].status # "published"
              /\ pub'[p].version = pub[p].version + 1)
  BY SettledStep
<1>2. QED
  BY <1>1, ClaimCorrect, PTL DEF Spec, SettledStays
=============================================================================
