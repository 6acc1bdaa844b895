------------------------------- MODULE JobQueue -------------------------------
(***************************************************************************)
(* queue-job.ts: a map from bucket to an array of jobs, and one            *)
(* _asyncQueueExecutor for every bucket in the map.  A job is a call of    *)
(* queueJob; it runs from the moment the executor calls its awaitable to   *)
(* the moment the awaited promise settles and the executor resumes.  What  *)
(* the executor does between two awaits is one turn of the event loop, so  *)
(* one action: it settles the promise of the job, moves to the next job,   *)
(* batch or the clean-up, and calls the next awaitable.                    *)
(*                                                                         *)
(* Operators that vary a neighbour by a plausible slip (QueueJobStartingIt *)
(* beside QueueJob) serve the sensitivity check of the properties only.    *)
(*                                                                         *)
(* No job of this code queues another job and awaits it, so jobs are       *)
(* queued from outside (sections 1 and 4 of the README).                   *)
(***************************************************************************)
EXTENDS Integers, Sequences

CONSTANTS Jobs,       \* calls of queueJob
          Buckets,    \* session addresses and sender key names
          BucketOf,   \* BucketOf[j]: the bucket argument of call j
          GcLimit,    \* _gcLimit (500)
          Responsive  \* buckets whose jobs wait for nothing that never comes

ASSUME BucketAssumption == BucketOf \in [Jobs -> Buckets] /\ Responsive \subseteq Buckets
ASSUME GcLimitAssumption == GcLimit \in Nat \ {0}

Outcomes == {"resolved", "rejected"}

VARIABLES buckets,  \* the keys of _queueAsyncBuckets
          queue,    \* queue[b]: the array of bucket b (empty when there is none)
          index,    \* index[b]: i of the executor's for loop
          limit,    \* limit[b]: limit of the executor's current batch
          status    \* status[j]: what has become of job j

vars == <<buckets, queue, index, limit, status>>

Statuses == {"new", "waiting", "running"} \cup Outcomes

TypeOK ==
  /\ buckets \subseteq Buckets
  /\ queue \in [Buckets -> Seq(Jobs)]
  /\ index \in [Buckets -> 0..(GcLimit - 1)]
  /\ limit \in [Buckets -> 0..GcLimit]
  /\ status \in [Jobs -> Statuses]

BatchLimitUnbounded(length) == length

BatchLimit(length) == IF length < GcLimit THEN length ELSE GcLimit

(* The JavaScript queue[i] of bucket b.                                    *)
Current(b) == queue[b][index[b] + 1]

Init ==
  /\ buckets = {}
  /\ queue = [b \in Buckets |-> <<>>]
  /\ index = [b \in Buckets |-> 0]
  /\ limit = [b \in Buckets |-> 0]
  /\ status = [j \in Jobs |-> "new"]

QueueJobStartingIt(j) ==
  LET b == BucketOf[j] IN
  /\ status[j] = "new"
  /\ b \in buckets
  /\ queue' = [queue EXCEPT ![b] = Append(@, j)]
  /\ status' = [status EXCEPT ![j] = "running"]
  /\ UNCHANGED <<buckets, index, limit>>

(* queueJob on a bucket whose executor runs: the job is only pushed.       *)
QueueJob(j) ==
  LET b == BucketOf[j] IN
  /\ status[j] = "new"
  /\ b \in buckets
  /\ queue' = [queue EXCEPT ![b] = Append(@, j)]
  /\ status' = [status EXCEPT ![j] = "waiting"]
  /\ UNCHANGED <<buckets, index, limit>>

(* queueJob on a new bucket: the executor starts within the call, and runs *)
(* up to the first await, in a batch of one.                               *)
QueueFirstJob(j) ==
  LET b == BucketOf[j] IN
  /\ status[j] = "new"
  /\ b \notin buckets
  /\ buckets' = buckets \cup {b}
  /\ queue' = [queue EXCEPT ![b] = <<j>>]
  /\ index' = [index EXCEPT ![b] = 0]
  /\ limit' = [limit EXCEPT ![b] = 1]
  /\ status' = [status EXCEPT ![j] = "running"]

(* The promise of the running job settles and the loop goes on in its batch. *)
NextInBatch(b, o) ==
  /\ b \in buckets
  /\ index[b] + 1 < limit[b]
  /\ index' = [index EXCEPT ![b] = @ + 1]
  /\ status' = [status EXCEPT ![Current(b)] = o, ![queue[b][index[b] + 2]] = "running"]
  /\ UNCHANGED <<buckets, queue, limit>>

NextBatchUnspliced(b, o) ==
  /\ b \in buckets
  /\ index[b] + 1 = limit[b]
  /\ limit[b] < Len(queue[b])
  /\ limit' = [limit EXCEPT ![b] = BatchLimit(Len(queue[b]))]
  /\ index' = [index EXCEPT ![b] = 0]
  /\ status' = [status EXCEPT ![Current(b)] = o, ![queue[b][1]] = "running"]
  /\ UNCHANGED <<buckets, queue>>

(* The batch is over and jobs came in meanwhile: drop it, start the next.  *)
NextBatch(b, o) ==
  LET rest == SubSeq(queue[b], limit[b] + 1, Len(queue[b])) IN
  /\ b \in buckets
  /\ index[b] + 1 = limit[b]
  /\ limit[b] < Len(queue[b])
  /\ queue' = [queue EXCEPT ![b] = rest]
  /\ limit' = [limit EXCEPT ![b] = BatchLimit(Len(rest))]
  /\ index' = [index EXCEPT ![b] = 0]
  /\ status' = [status EXCEPT ![Current(b)] = o, ![queue[b][limit[b] + 1]] = "running"]
  /\ UNCHANGED buckets

CleanupKeepingBucket(b, o) ==
  /\ b \in buckets
  /\ index[b] + 1 = limit[b]
  /\ limit[b] = Len(queue[b])
  /\ status' = [status EXCEPT ![Current(b)] = o]
  /\ UNCHANGED <<buckets, queue, index, limit>>

CleanupUnconditional(b, o) ==
  /\ b \in buckets
  /\ index[b] + 1 = limit[b]
  /\ buckets' = buckets \ {b}
  /\ queue' = [queue EXCEPT ![b] = <<>>]
  /\ index' = [index EXCEPT ![b] = 0]
  /\ limit' = [limit EXCEPT ![b] = 0]
  /\ status' = [status EXCEPT ![Current(b)] = o]

(* The batch is over and the array holds nothing else: the bucket goes, in  *)
(* the same turn, so no job can be pushed on an array nobody reads.         *)
Cleanup(b, o) ==
  /\ b \in buckets
  /\ index[b] + 1 = limit[b]
  /\ limit[b] = Len(queue[b])
  /\ buckets' = buckets \ {b}
  /\ queue' = [queue EXCEPT ![b] = <<>>]
  /\ index' = [index EXCEPT ![b] = 0]
  /\ limit' = [limit EXCEPT ![b] = 0]
  /\ status' = [status EXCEPT ![Current(b)] = o]

Settle(b) == \E o \in Outcomes : NextInBatch(b, o) \/ NextBatch(b, o) \/ Cleanup(b, o)

Next ==
  \/ \E j \in Jobs : QueueJob(j) \/ QueueFirstJob(j)
  \/ \E b \in Buckets : Settle(b)

(* The only fairness: a running job of a responsive bucket settles some day *)
(* (its storage calls return).  Nothing is assumed of the other buckets.    *)
Spec == Init /\ [][Next]_vars /\ \A b \in Responsive : WF_vars(Settle(b))

------------------------------------------------------------------------------
(* Properties.                                                             *)

JobsOf(b, statuses) == {j \in Jobs : BucketOf[j] = b /\ status[j] \in statuses}

(* Two jobs of one bucket are never in progress together: what queueJob is  *)
(* for, and what makes a load-modify-store of a session record atomic.      *)
MutualExclusion ==
  \A j, k \in Jobs :
    status[j] = "running" /\ status[k] = "running" /\ BucketOf[j] = BucketOf[k] => j = k

(* A bucket is in the map exactly while it has unsettled jobs: an idle one  *)
(* is freed, and a busy one always has a job in progress, so a pushed job   *)
(* never waits on an executor that has left.                                *)
BucketIffBusy ==
  \A b \in Buckets :
    /\ b \in buckets <=> JobsOf(b, {"waiting", "running"}) # {}
    /\ b \in buckets <=> JobsOf(b, {"running"}) # {}

(* The array never keeps more than GcLimit settled jobs alive.              *)
SettledJobsAreDropped ==
  \A b \in Buckets :
    \A n \in DOMAIN queue[b] : status[queue[b][n]] \in Outcomes => n < GcLimit

(* The bucket discipline, as a caller sees it.                              *)
Fifo == INSTANCE FifoBuckets
          WITH line <- [b \in Buckets |-> SubSeq(queue[b], index[b] + 1, Len(queue[b]))],
               outcome <- [j \in Jobs |-> {status[j]} \cap Outcomes]

ImplementsFifo == Fifo!FBSpec

(* Every job of a responsive bucket is settled, whatever the jobs of the    *)
(* other buckets wait for.                                                  *)
EveryJobSettles ==
  \A j \in Jobs : BucketOf[j] \in Responsive =>
                    (status[j] = "waiting" ~> status[j] \in Outcomes)
==============================================================================
