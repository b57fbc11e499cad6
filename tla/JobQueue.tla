------------------------------ MODULE JobQueue ------------------------------
(***************************************************************************)
(* One BullMQ job as contractix uses it.  Both queues (packages/api/src/   *)
(* queue/ingest.ts and queue/analysis.ts) give a job the id of its         *)
(* document, so a queue holds at most one job per document and the job of  *)
(* a document is one record:                                               *)
(*   state  where the job is,                                              *)
(*   tries  attemptsMade, the attempts that have failed,                   *)
(*   lock   the worker slot whose lock the job carries while active.       *)
(* BullMQ itself is not in the repository: these operators are what the    *)
(* code relies on when it calls add, remove and the Worker constructor.    *)
(***************************************************************************)
EXTENDS Naturals

CONSTANTS
    Attempts,   \* defaultJobOptions.attempts: 3 in both queues
    NoSlot      \* "no worker holds the lock"

JobStates ==
    {"absent", "waiting", "delayed", "active", "completed", "failed"}

Jobs(Slots) ==
    [state: JobStates, tries: 0..Attempts, lock: Slots \cup {NoSlot}]

Absent == [state |-> "absent", tries |-> 0, lock |-> NoSlot]

(* queue.add with a jobId: a job of that id in any state absorbs the call. *)
Add(job) ==
    IF job.state = "absent"
    THEN [state |-> "waiting", tries |-> 0, lock |-> NoSlot]
    ELSE job

(* Mutant: the remove takes a running job away too. *)
RemoveLocked(job) == Absent

(* queue.remove: a locked job survives it (the rejection is swallowed).    *)
Remove(job) == IF job.state = "active" THEN job ELSE Absent

(* A worker fetches the job and takes its lock.                            *)
Take(job, s) == [state |-> "active", tries |-> job.tries, lock |-> s]

(* Only the slot whose lock the job carries can move it on.                *)
Owns(job, s) == job.state = "active" /\ job.lock = s

Complete(job, s) ==
    IF Owns(job, s)
    THEN [state |-> "completed", tries |-> job.tries, lock |-> NoSlot]
    ELSE job

(* Mutant: one attempt more than the job has. *)
LastTryLate(job) == job.tries >= Attempts

(* A throwing attempt counts; the job is retried until none is left.       *)
LastTry(job) == job.tries + 1 >= Attempts

Fail(job, s) ==
    IF Owns(job, s)
    THEN [state |-> IF LastTry(job) THEN "failed" ELSE "delayed",
          tries |-> job.tries + 1, lock |-> NoSlot]
    ELSE job

(* Mutant: the backoff never ends. *)
PromoteNever(job) == job

(* The backoff of a retry has passed.                                      *)
Promote(job) == [state |-> "waiting", tries |-> job.tries, lock |-> job.lock]

(* The stalled check returns a job whose lock was not renewed.             *)
Stall(job) == [state |-> "waiting", tries |-> job.tries, lock |-> NoSlot]
=============================================================================
