---------------------------- MODULE PublishQueue ----------------------------
(***************************************************************************)
(* The job table of the "publish" BullMQ queue, as operators on its value. *)
(*                                                                         *)
(* packages/core/src/queue/publish-queue.ts decides the job id, the number *)
(* of tries and how long a finished job is kept; BullMQ itself (an         *)
(* external library) does the rest.  A job id is a publication and a job   *)
(* version.  A finished job stays in the table until it is removed, and as *)
(* long as it does its id is taken.                                        *)
(***************************************************************************)
EXTENDS Integers, FiniteSets

CONSTANTS
  MaxTries,    \* the "attempts" option: how often a job may run
  MaxStalls,   \* BullMQ's maxStalledCount
  Workers      \* the slots that run jobs

ASSUME QueueAssumption ==
  /\ MaxTries \in Nat \ {0}
  /\ MaxStalls \in Nat

Unclaimed == "nobody"

ASSUME WorkersAssumption == IsFiniteSet(Workers) /\ Unclaimed \notin Workers

(* "delayed" waits for a time, "waiting" for a worker; the last two are    *)
(* finished jobs that the retention options still keep.                    *)
JobStates == {"none", "delayed", "waiting", "active", "completed", "failed"}

Job == [st: JobStates, made: 0 .. MaxTries - 1, stalls: 0 .. MaxStalls,
        by: Workers \cup {Unclaimed}]

NewJob(st) == [st |-> st, made |-> 0, stalls |-> 0, by |-> Unclaimed]

NoJob == NewJob("none")

(* Back in the queue with its counters: another try, or another delivery.  *)
Delayed(job) ==
  [job EXCEPT !.st = "delayed", !.by = Unclaimed, !.made = @ + 1]
Redelivered(job) ==
  [job EXCEPT !.st = "waiting", !.by = Unclaimed, !.stalls = @ + 1]

(* A job that will still be handed to a worker, or is with one.            *)
Pending(job) == job.st \in {"delayed", "waiting", "active"}

Runs(job, w) == job.st = "active" /\ job.by = w

(* add(): refused while a job with this id exists, whatever its state.     *)
Added(q, id, st) ==
  IF q[id].st = "none" THEN [q EXCEPT ![id] = NewJob(st)] ELSE q

(* remove(): a job that a worker holds is locked and stays; the error that *)
(* says so is swallowed by removePublishJob.                               *)
Removed(q, id) ==
  IF q[id].st = "active" THEN q ELSE [q EXCEPT ![id] = NoJob]

Taken(q, id, w) == [q EXCEPT ![id].st = "active", ![id].by = w]

(* The processor returned.  If the worker lost the job meanwhile, BullMQ   *)
(* refuses to move it.                                                     *)
Completed(q, id, w) ==
  IF Runs(q[id], w) THEN [q EXCEPT ![id] = NewJob("completed")] ELSE q

(* Mutant: one try more than "attempts".                                   *)
HasTryBeyondLast(job) == job.made < MaxTries

HasTryLeft(job) == job.made + 1 < MaxTries

(* The processor threw: wait for the backoff while tries are left.         *)
Thrown(q, id, w) ==
  IF Runs(q[id], w)
  THEN [q EXCEPT ![id] = IF HasTryLeft(q[id]) THEN Delayed(q[id])
                                              ELSE NewJob("failed")]
  ELSE q

(* The lock of an active job ran out: back to waiting, or failed when that *)
(* already happened too often.                                             *)
Stalled(q, id) ==
  [q EXCEPT ![id] = IF q[id].stalls < MaxStalls THEN Redelivered(q[id])
                                                ELSE NewJob("failed")]
=============================================================================
