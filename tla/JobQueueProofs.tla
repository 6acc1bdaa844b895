----------------------------- MODULE JobQueueProofs -----------------------------
(***************************************************************************)
(* Theorems about JobQueue, for any jobs, buckets and batch size.          *)
(***************************************************************************)
EXTENDS JobQueue, SequenceTheorems, TLAPS

Unsettled(b) == (index[b] + 1)..Len(queue[b])

(* Where the executor of a bucket stands in its array.                     *)
ExecutorInv ==
  /\ \A b \in buckets : index[b] < limit[b] /\ limit[b] <= Len(queue[b])
  /\ \A b \in Buckets \ buckets : queue[b] = <<>> /\ index[b] = 0 /\ limit[b] = 0

(* What lies before, at and after that place, and that every unsettled job  *)
(* lies in the array of its bucket, once.                                  *)
PlaceInv ==
  /\ \A b \in Buckets : \A n \in 1..Len(queue[b]) :
       /\ BucketOf[queue[b][n]] = b
       /\ n < index[b] + 1 => status[queue[b][n]] \in Outcomes
       /\ n = index[b] + 1 => status[queue[b][n]] = "running"
       /\ n > index[b] + 1 => status[queue[b][n]] = "waiting"
  /\ \A b \in Buckets : \A m, n \in Unsettled(b) : queue[b][m] = queue[b][n] => m = n
  /\ \A j \in Jobs : status[j] \in {"waiting", "running"} =>
       \E n \in Unsettled(BucketOf[j]) : queue[BucketOf[j]][n] = j

IInv == TypeOK /\ ExecutorInv /\ PlaceInv

LEMMA InitIInv == Init => IInv
  BY BucketAssumption, GcLimitAssumption
  DEF Init, IInv, TypeOK, ExecutorInv, PlaceInv, Unsettled, Statuses, Outcomes

(* What is in an array has been queued.                                    *)
LEMMA Placement ==
  ASSUME IInv, NEW b \in Buckets, NEW n \in 1..Len(queue[b])
  PROVE  queue[b][n] \in Jobs /\ status[queue[b][n]] # "new"
<1>1. queue[b] \in Seq(Jobs) /\ n \in Nat /\ index[b] \in Nat
  BY DEF IInv, TypeOK
<1>2. n < index[b] + 1 \/ n = index[b] + 1 \/ n > index[b] + 1
  BY <1>1
<1>3. status[queue[b][n]] \in Outcomes \cup {"waiting", "running"}
  BY <1>2 DEF IInv, PlaceInv
<1>4. QED
  BY <1>1, <1>3 DEF Outcomes

LEMMA NoRepeat ==
  ASSUME IInv, NEW b \in Buckets, NEW m \in Unsettled(b), NEW n \in Unsettled(b), m # n
  PROVE  queue[b][m] # queue[b][n]
BY DEF IInv, PlaceInv

(* A pushed job comes last in its array and waits.                         *)
LEMMA QueueJobIInv ==
  ASSUME IInv, NEW j \in Jobs, QueueJob(j)
  PROVE  IInv'
<1> DEFINE b == BucketOf[j]
<1> b \in Buckets
  BY BucketAssumption
<1>1. /\ status[j] = "new" /\ b \in buckets
      /\ queue' = [queue EXCEPT ![b] = Append(@, j)]
      /\ status' = [status EXCEPT ![j] = "waiting"]
      /\ UNCHANGED <<buckets, index, limit>>
  BY DEF QueueJob
<1>2. TypeOK'
  BY <1>1 DEF IInv, TypeOK, Statuses
<1>3. /\ Len(queue'[b]) = Len(queue[b]) + 1
      /\ queue'[b][Len(queue[b]) + 1] = j
      /\ \A n \in 1..Len(queue[b]) : queue'[b][n] = queue[b][n]
      /\ \A c \in Buckets : c # b => queue'[c] = queue[c]
  BY <1>1 DEF IInv, TypeOK
<1>4. ExecutorInv'
  BY <1>1, <1>3 DEF IInv, TypeOK, ExecutorInv
<1>5. \A c \in Buckets : \A n \in 1..Len(queue[c]) : queue[c][n] # j
  BY <1>1, Placement
<1>6. PlaceInv'
  <2>1. ASSUME NEW c \in Buckets, NEW n \in 1..Len(queue'[c])
        PROVE  /\ BucketOf[queue'[c][n]] = c
               /\ n < index'[c] + 1 => status'[queue'[c][n]] \in Outcomes
               /\ n = index'[c] + 1 => status'[queue'[c][n]] = "running"
               /\ n > index'[c] + 1 => status'[queue'[c][n]] = "waiting"
    <3>1. CASE c = b /\ n = Len(queue[b]) + 1
      BY <1>1, <1>3, <3>1 DEF IInv, TypeOK, ExecutorInv
    <3>2. CASE ~(c = b /\ n = Len(queue[b]) + 1)
      <4>1. n \in 1..Len(queue[c]) /\ queue'[c][n] = queue[c][n]
        BY <1>3, <3>2 DEF IInv, TypeOK
      <4>2. queue[c][n] # j /\ queue[c][n] \in Jobs
        BY <1>5, <4>1 DEF IInv, TypeOK
      <4>3. status'[queue'[c][n]] = status[queue[c][n]]
        BY <1>1, <4>1, <4>2 DEF IInv, TypeOK
      <4>4. QED
        BY <1>1, <4>1, <4>3 DEF IInv, PlaceInv
    <3>3. QED
      BY <3>1, <3>2
  <2>2. ASSUME NEW c \in Buckets, NEW m \in Unsettled(c)', NEW n \in Unsettled(c)',
               queue'[c][m] = queue'[c][n]
        PROVE  m = n
    <3>1. CASE c = b
      <4> DEFINE last == Len(queue[b]) + 1
      <4>1. Len(queue[b]) \in Nat /\ index[b] \in Nat
        BY DEF IInv, TypeOK
      <4>2. m \in Unsettled(b) \cup {last} /\ n \in Unsettled(b) \cup {last}
        BY <1>1, <1>3, <3>1, <4>1 DEF Unsettled
      <4>3. \A i \in Unsettled(b) : queue'[b][i] = queue[b][i] /\ queue'[b][i] # j
        BY <1>3, <1>5, <4>1 DEF Unsettled
      <4>4. queue'[b][last] = j
        BY <1>3
      <4>5. QED
        BY <2>2, <3>1, <4>2, <4>3, <4>4 DEF IInv, PlaceInv
    <3>2. CASE c # b
      BY <1>1, <1>3, <2>2, <3>2 DEF IInv, TypeOK, PlaceInv, Unsettled
    <3>3. QED
      BY <3>1, <3>2
  <2>3. ASSUME NEW k \in Jobs, status'[k] \in {"waiting", "running"}
        PROVE  \E n \in Unsettled(BucketOf[k])' : queue'[BucketOf[k]][n] = k
    <3>1. CASE k = j
      <4>1. Len(queue[b]) + 1 \in Unsettled(b)'
        BY <1>1, <1>3 DEF IInv, TypeOK, ExecutorInv, Unsettled
      <4>2. QED
        BY <1>3, <3>1, <4>1
    <3>2. CASE k # j
      <4>1. PICK n \in Unsettled(BucketOf[k]) : queue[BucketOf[k]][n] = k
        BY <1>1, <2>3, <3>2 DEF IInv, TypeOK, PlaceInv
      <4>2. n \in Unsettled(BucketOf[k])' /\ queue'[BucketOf[k]][n] = k
        <5>1. BucketOf[k] \in Buckets /\ queue[b] \in Seq(Jobs) /\ index[b] \in Nat
          BY BucketAssumption DEF IInv, TypeOK
        <5>2. CASE BucketOf[k] = b
          BY <1>1, <1>3, <4>1, <5>1, <5>2 DEF Unsettled
        <5>3. CASE BucketOf[k] # b
          BY <1>1, <1>3, <4>1, <5>1, <5>3 DEF Unsettled
        <5>4. QED
          BY <5>2, <5>3
      <4>3. QED
        BY <4>2
    <3>3. QED
      BY <3>1, <3>2
  <2>4. QED
    BY <2>1, <2>2, <2>3 DEF PlaceInv
<1>7. QED
  BY <1>2, <1>4, <1>6 DEF IInv

(* The first job of a bucket is alone in a new array, and runs.            *)
LEMMA QueueFirstJobIInv ==
  ASSUME IInv, NEW j \in Jobs, QueueFirstJob(j)
  PROVE  IInv'
<1> DEFINE b == BucketOf[j]
<1> b \in Buckets
  BY BucketAssumption
<1>1. /\ status[j] = "new" /\ b \notin buckets
      /\ buckets' = buckets \cup {b}
      /\ queue' = [queue EXCEPT ![b] = <<j>>]
      /\ index' = [index EXCEPT ![b] = 0]
      /\ limit' = [limit EXCEPT ![b] = 1]
      /\ status' = [status EXCEPT ![j] = "running"]
  BY DEF QueueFirstJob
<1>2. TypeOK'
  BY <1>1, GcLimitAssumption DEF IInv, TypeOK, Statuses
<1>3. /\ queue'[b] = <<j>> /\ index'[b] = 0 /\ limit'[b] = 1
      /\ queue[b] = <<>>
      /\ \A c \in Buckets : c # b => /\ queue'[c] = queue[c]
                                     /\ index'[c] = index[c]
                                     /\ limit'[c] = limit[c]
  BY <1>1 DEF IInv, TypeOK, ExecutorInv
<1>4. ExecutorInv'
  BY <1>1, <1>3 DEF IInv, TypeOK, ExecutorInv
<1>5. \A c \in Buckets : \A n \in 1..Len(queue[c]) : queue[c][n] # j
  BY <1>1, Placement
<1>6. PlaceInv'
  <2>1. ASSUME NEW c \in Buckets, NEW n \in 1..Len(queue'[c])
        PROVE  /\ BucketOf[queue'[c][n]] = c
               /\ n < index'[c] + 1 => status'[queue'[c][n]] \in Outcomes
               /\ n = index'[c] + 1 => status'[queue'[c][n]] = "running"
               /\ n > index'[c] + 1 => status'[queue'[c][n]] = "waiting"
    <3>1. CASE c = b
      BY <1>1, <1>3, <3>1 DEF IInv, TypeOK
    <3>2. CASE c # b
      <4>1. queue[c][n] # j /\ queue[c][n] \in Jobs
        BY <1>3, <1>5, <3>2, Placement
      <4>2. status'[queue'[c][n]] = status[queue[c][n]]
        BY <1>1, <1>3, <3>2, <4>1 DEF IInv, TypeOK
      <4>3. QED
        BY <1>3, <3>2, <4>2 DEF IInv, PlaceInv
    <3>3. QED
      BY <3>1, <3>2
  <2>2. ASSUME NEW c \in Buckets, NEW m \in Unsettled(c)', NEW n \in Unsettled(c)',
               queue'[c][m] = queue'[c][n]
        PROVE  m = n
    <3>1. CASE c = b
      BY <1>3, <2>2, <3>1 DEF Unsettled
    <3>2. CASE c # b
      BY <1>3, <2>2, <3>2 DEF IInv, PlaceInv, Unsettled
    <3>3. QED
      BY <3>1, <3>2
  <2>3. ASSUME NEW k \in Jobs, status'[k] \in {"waiting", "running"}
        PROVE  \E n \in Unsettled(BucketOf[k])' : queue'[BucketOf[k]][n] = k
    <3>1. CASE k = j
      <4>1. 1 \in Unsettled(b)' /\ queue'[b][1] = j
        BY <1>3 DEF Unsettled
      <4>2. QED
        BY <3>1, <4>1
    <3>2. CASE k # j
      <4>1. PICK n \in Unsettled(BucketOf[k]) : queue[BucketOf[k]][n] = k
        BY <1>1, <2>3, <3>2 DEF IInv, TypeOK, PlaceInv
      <4>2. BucketOf[k] \in Buckets
        BY BucketAssumption
      <4>3. BucketOf[k] # b
        BY <1>3, <4>1, <4>2 DEF Unsettled, IInv, TypeOK
      <4>4. n \in Unsettled(BucketOf[k])' /\ queue'[BucketOf[k]][n] = k
        BY <1>3, <4>1, <4>2, <4>3 DEF Unsettled
      <4>5. QED
        BY <4>4
    <3>3. QED
      BY <3>1, <3>2
  <2>4. QED
    BY <2>1, <2>2, <2>3 DEF PlaceInv
<1>7. QED
  BY <1>2, <1>4, <1>6 DEF IInv

(* The running job of a bucket is the one its executor points at.          *)
LEMMA CurrentRuns ==
  ASSUME IInv, NEW b \in buckets
  PROVE  /\ b \in Buckets /\ queue[b] \in Seq(Jobs) /\ index[b] \in Nat /\ limit[b] \in Nat
         /\ index[b] + 1 \in 1..Len(queue[b])
         /\ Current(b) \in Jobs /\ BucketOf[Current(b)] = b
         /\ status[Current(b)] = "running"
<1>1. /\ b \in Buckets /\ queue[b] \in Seq(Jobs) /\ index[b] \in Nat /\ limit[b] \in Nat
  BY DEF IInv, TypeOK
<1>2. index[b] + 1 \in 1..Len(queue[b])
  BY <1>1 DEF IInv, ExecutorInv
<1>3. QED
  BY <1>1, <1>2, Placement DEF IInv, PlaceInv, Current

(* The jobs behind the running one wait.                                   *)
LEMMA WaitingBehind ==
  ASSUME IInv, NEW b \in buckets, NEW n \in 1..Len(queue[b]), n > index[b] + 1
  PROVE  /\ queue[b][n] \in Jobs /\ BucketOf[queue[b][n]] = b
         /\ status[queue[b][n]] = "waiting" /\ queue[b][n] # Current(b)
<1>1. b \in Buckets
  BY CurrentRuns
<1>2. queue[b][n] \in Jobs
  BY <1>1, Placement
<1>3. BucketOf[queue[b][n]] = b /\ status[queue[b][n]] = "waiting"
  BY <1>1 DEF IInv, PlaceInv
<1>4. status[Current(b)] = "running"
  BY CurrentRuns
<1>5. QED
  BY <1>2, <1>3, <1>4

(* A settled job and the start of the one behind it, in the same batch.    *)
LEMMA NextInBatchIInv ==
  ASSUME IInv, NEW b \in Buckets, NEW o \in Outcomes, NextInBatch(b, o)
  PROVE  IInv'
<1> DEFINE cur == Current(b)
           nxt == queue[b][index[b] + 2]
<1>1. /\ b \in buckets /\ index[b] + 1 < limit[b]
      /\ index' = [index EXCEPT ![b] = @ + 1]
      /\ status' = [status EXCEPT ![cur] = o, ![nxt] = "running"]
      /\ buckets' = buckets /\ queue' = queue /\ limit' = limit
  BY DEF NextInBatch
<1>2. /\ queue[b] \in Seq(Jobs) /\ index[b] \in Nat /\ limit[b] \in 0..GcLimit
      /\ limit[b] <= Len(queue[b])
      /\ index[b] + 2 \in 1..Len(queue[b]) /\ index[b] + 1 \in 1..Len(queue[b])
  BY <1>1 DEF IInv, TypeOK, ExecutorInv
<1>3. /\ cur \in Jobs /\ nxt \in Jobs /\ cur # nxt
      /\ BucketOf[cur] = b /\ BucketOf[nxt] = b
      /\ status[cur] = "running" /\ status[nxt] = "waiting"
  <2>1. index[b] + 2 > index[b] + 1
    BY <1>2
  <2>2. QED
    BY <1>1, <1>2, <2>1, CurrentRuns, WaitingBehind
<1>4. TypeOK'
  <2>1. index' \in [Buckets -> 0..(GcLimit - 1)]
    BY <1>1, <1>2, GcLimitAssumption DEF IInv, TypeOK
  <2>2. status' \in [Jobs -> Statuses]
    BY <1>1, <1>3 DEF IInv, TypeOK, Statuses
  <2>3. QED
    BY <1>1, <2>1, <2>2 DEF IInv, TypeOK
<1>5. /\ index'[b] = index[b] + 1
      /\ \A c \in Buckets : c # b => index'[c] = index[c]
      /\ status'[cur] = o /\ status'[nxt] = "running"
      /\ \A k \in Jobs : k # cur /\ k # nxt => status'[k] = status[k]
  BY <1>1, <1>3 DEF IInv, TypeOK
<1>6. ExecutorInv'
  BY <1>1, <1>2, <1>5 DEF IInv, TypeOK, ExecutorInv
<1>7. PlaceInv'
  <2>1. ASSUME NEW c \in Buckets, NEW n \in 1..Len(queue'[c])
        PROVE  /\ BucketOf[queue'[c][n]] = c
               /\ n < index'[c] + 1 => status'[queue'[c][n]] \in Outcomes
               /\ n = index'[c] + 1 => status'[queue'[c][n]] = "running"
               /\ n > index'[c] + 1 => status'[queue'[c][n]] = "waiting"
    <3>1. PICK k \in Jobs : k = queue[c][n] /\ k = queue'[c][n] /\ BucketOf[k] = c
      BY <1>1, Placement DEF IInv, PlaceInv
    <3>2. /\ n \in 1..Len(queue[c])
          /\ n < index[c] + 1 => status[k] \in Outcomes
          /\ n = index[c] + 1 => status[k] = "running"
          /\ n > index[c] + 1 => status[k] = "waiting"
      BY <1>1, <3>1 DEF IInv, PlaceInv
    <3>3. SUFFICES /\ n < index'[c] + 1 => status'[k] \in Outcomes
                   /\ n = index'[c] + 1 => status'[k] = "running"
                   /\ n > index'[c] + 1 => status'[k] = "waiting"
      BY <3>1
    <3>4. CASE c # b
      BY <1>3, <1>5, <3>1, <3>2, <3>4
    <3>5. CASE c = b /\ n < index[b] + 1
      <4>1. k # cur /\ k # nxt
        BY <1>3, <3>2, <3>5 DEF Outcomes
      <4>2. QED
        BY <1>2, <1>5, <3>1, <3>2, <3>5, <4>1
    <3>6. CASE c = b /\ n = index[b] + 1
      <4>1. k = cur
        BY <3>1, <3>6 DEF Current
      <4>2. status'[k] \in Outcomes /\ n < index'[c] + 1
        BY <1>2, <1>5, <3>6, <4>1
      <4>3. QED
        BY <1>2, <1>5, <3>6, <4>2
    <3>7. CASE c = b /\ n = index[b] + 2
      <4>1. k = nxt
        BY <3>1, <3>7
      <4>2. status'[k] = "running" /\ n = index'[c] + 1
        BY <1>2, <1>5, <3>7, <4>1
      <4>3. QED
        BY <4>2
    <3>8. CASE c = b /\ n > index[b] + 2
      <4>1. k # cur
        BY <1>2, <1>3, <3>2, <3>8
      <4>2. k # nxt
        <5>1. n \in Unsettled(b) /\ index[b] + 2 \in Unsettled(b) /\ n # index[b] + 2
          BY <1>2, <3>2, <3>8 DEF Unsettled
        <5>2. queue[b][n] # nxt
          BY <5>1, NoRepeat
        <5>3. QED
          BY <3>1, <3>8, <5>2
      <4>3. QED
        BY <1>2, <1>5, <3>1, <3>2, <3>8, <4>1, <4>2
    <3>9. QED
      BY <1>2, <3>2, <3>4, <3>5, <3>6, <3>7, <3>8
  <2>2. ASSUME NEW c \in Buckets, NEW m \in Unsettled(c)', NEW n \in Unsettled(c)',
               queue'[c][m] = queue'[c][n]
        PROVE  m = n
    <3>1. m \in Unsettled(c) /\ n \in Unsettled(c)
      BY <1>1, <1>2, <1>5 DEF Unsettled, IInv, TypeOK
    <3>2. QED
      BY <1>1, <2>2, <3>1 DEF IInv, PlaceInv
  <2>3. ASSUME NEW k \in Jobs, status'[k] \in {"waiting", "running"}
        PROVE  \E n \in Unsettled(BucketOf[k])' : queue'[BucketOf[k]][n] = k
    <3>1. k # cur
      BY <1>5, <2>3 DEF Outcomes
    <3>2. status[k] \in {"waiting", "running"}
      BY <1>3, <1>5, <2>3, <3>1
    <3>3. PICK n \in Unsettled(BucketOf[k]) : queue[BucketOf[k]][n] = k
      BY <3>2 DEF IInv, PlaceInv
    <3>4. BucketOf[k] \in Buckets
      BY BucketAssumption
    <3>5. n \in Unsettled(BucketOf[k])'
      <4>1. CASE BucketOf[k] = b
        <5>1. n # index[b] + 1
          BY <3>1, <3>3, <4>1 DEF Current
        <5>2. QED
          BY <1>1, <1>2, <1>5, <3>3, <4>1, <5>1 DEF Unsettled
      <4>2. CASE BucketOf[k] # b
        BY <1>1, <1>5, <3>3, <3>4, <4>2 DEF Unsettled
      <4>3. QED
        BY <4>1, <4>2
    <3>6. QED
      BY <1>1, <3>3, <3>5
  <2>4. QED
    BY <2>1, <2>2, <2>3 DEF PlaceInv
<1>8. QED
  BY <1>4, <1>6, <1>7 DEF IInv

LEMMA BatchLimitRange ==
  ASSUME NEW n \in Nat \ {0}
  PROVE  /\ BatchLimit(n) \in 1..GcLimit /\ BatchLimit(n) <= n
BY GcLimitAssumption DEF BatchLimit

(* The next batch: what was at limit + n is now at n.                      *)
LEMMA NextBatchIInv ==
  ASSUME IInv, NEW b \in Buckets, NEW o \in Outcomes, NextBatch(b, o)
  PROVE  IInv'
<1> DEFINE cur == Current(b)
           nxt == queue[b][limit[b] + 1]
           rest == SubSeq(queue[b], limit[b] + 1, Len(queue[b]))
<1>1. /\ b \in buckets /\ index[b] + 1 = limit[b] /\ limit[b] < Len(queue[b])
      /\ queue' = [queue EXCEPT ![b] = rest]
      /\ limit' = [limit EXCEPT ![b] = BatchLimit(Len(rest))]
      /\ index' = [index EXCEPT ![b] = 0]
      /\ status' = [status EXCEPT ![cur] = o, ![nxt] = "running"]
      /\ buckets' = buckets
  BY DEF NextBatch
<1>2. /\ queue[b] \in Seq(Jobs) /\ index[b] \in Nat /\ limit[b] \in 0..GcLimit
      /\ limit[b] + 1 \in 1..Len(queue[b]) /\ index[b] + 1 \in 1..Len(queue[b])
  BY <1>1 DEF IInv, TypeOK
<1>3. /\ rest \in Seq(Jobs) /\ Len(rest) = Len(queue[b]) - limit[b] /\ Len(rest) \in Nat \ {0}
      /\ \A n \in 1..Len(rest) : rest[n] = queue[b][limit[b] + n]
                                 /\ limit[b] + n \in Unsettled(b)
  <2>1. \A i \in (limit[b] + 1)..Len(queue[b]) : queue[b][i] \in Jobs
    BY <1>1, <1>2, ElementOfSeq
  <2>2. /\ rest \in Seq(Jobs)
        /\ Len(rest) = Len(queue[b]) - (limit[b] + 1) + 1
        /\ \A i \in 1..(Len(queue[b]) - (limit[b] + 1) + 1) :
             rest[i] = queue[b][limit[b] + 1 + i - 1]
    <3>1. limit[b] + 1 \in Int /\ Len(queue[b]) \in Int /\ limit[b] + 1 <= Len(queue[b])
      BY <1>2
    <3>2. /\ rest \in Seq(Jobs)
          /\ Len(rest) = IF limit[b] + 1 <= Len(queue[b])
                          THEN Len(queue[b]) - (limit[b] + 1) + 1 ELSE 0
          /\ \A i \in 1..(Len(queue[b]) - (limit[b] + 1) + 1) :
               rest[i] = queue[b][limit[b] + 1 + i - 1]
      BY <2>1, <3>1, SubSeqProperties
    <3>3. QED
      BY <3>1, <3>2
  <2>3. Len(rest) = Len(queue[b]) - limit[b] /\ Len(rest) \in Nat \ {0}
    BY <1>1, <1>2, <2>2
  <2>4. ASSUME NEW n \in 1..Len(rest)
        PROVE  rest[n] = queue[b][limit[b] + n] /\ limit[b] + n \in Unsettled(b)
    <3>1. /\ n \in Nat /\ limit[b] + 1 + n - 1 = limit[b] + n
          /\ n \in 1..(Len(queue[b]) - limit[b])
      BY <1>2, <2>3
    <3>2. rest[n] = queue[b][limit[b] + n]
      BY <1>2, <2>2, <2>3, <3>1
    <3>3. limit[b] + n \in Unsettled(b)
      <4>1. /\ Len(queue[b]) \in Nat /\ limit[b] \in Nat /\ n >= 1
            /\ n <= Len(queue[b]) - limit[b]
        BY <1>2, <3>1
      <4>2. limit[b] + n \in limit[b]..Len(queue[b])
        BY <4>1
      <4>3. QED
        BY <1>1, <4>2 DEF Unsettled
    <3>4. QED
      BY <3>2, <3>3
  <2>5. QED
    BY <2>2, <2>3, <2>4
<1>4. /\ cur \in Jobs /\ nxt \in Jobs /\ cur # nxt
      /\ BucketOf[cur] = b /\ BucketOf[nxt] = b
      /\ status[cur] = "running" /\ status[nxt] = "waiting"
  <2>1. limit[b] + 1 > index[b] + 1
    BY <1>1, <1>2
  <2>2. QED
    BY <1>1, <1>2, <2>1, CurrentRuns, WaitingBehind
<1>5. TypeOK'
  <2>1. limit' \in [Buckets -> 0..GcLimit]
    <3>1. BatchLimit(Len(rest)) \in 0..GcLimit
      BY <1>3, BatchLimitRange, GcLimitAssumption
    <3>2. QED
      BY <1>1, <3>1 DEF IInv, TypeOK
  <2>2. index' \in [Buckets -> 0..(GcLimit - 1)]
    BY <1>1, GcLimitAssumption DEF IInv, TypeOK
  <2>3. status' \in [Jobs -> Statuses]
    BY <1>1, <1>4 DEF IInv, TypeOK, Statuses
  <2>4. queue' \in [Buckets -> Seq(Jobs)]
    BY <1>1, <1>3 DEF IInv, TypeOK
  <2>5. QED
    BY <1>1, <2>1, <2>2, <2>3, <2>4 DEF IInv, TypeOK
<1>6. /\ queue'[b] = rest /\ index'[b] = 0 /\ limit'[b] = BatchLimit(Len(rest))
      /\ \A c \in Buckets : c # b => /\ queue'[c] = queue[c]
                                     /\ index'[c] = index[c]
                                     /\ limit'[c] = limit[c]
      /\ status'[cur] = o /\ status'[nxt] = "running"
      /\ \A k \in Jobs : k # cur /\ k # nxt => status'[k] = status[k]
  BY <1>1, <1>4 DEF IInv, TypeOK
<1> HIDE DEF rest, nxt
<1>7. ExecutorInv'
  <2>1. index'[b] < limit'[b] /\ limit'[b] <= Len(queue'[b])
    BY <1>3, <1>6, BatchLimitRange
  <2>2. QED
    BY <1>1, <1>6, <2>1 DEF IInv, TypeOK, ExecutorInv
<1>8. PlaceInv'
  <2>1. ASSUME NEW c \in Buckets, NEW n \in 1..Len(queue'[c])
        PROVE  /\ BucketOf[queue'[c][n]] = c
               /\ n < index'[c] + 1 => status'[queue'[c][n]] \in Outcomes
               /\ n = index'[c] + 1 => status'[queue'[c][n]] = "running"
               /\ n > index'[c] + 1 => status'[queue'[c][n]] = "waiting"
    <3>1. CASE c # b
      <4>1. PICK k \in Jobs : k = queue[c][n] /\ k = queue'[c][n] /\ BucketOf[k] = c
        BY <1>6, <3>1, Placement DEF IInv, PlaceInv
      <4>2. status'[k] = status[k]
        BY <1>4, <1>6, <3>1, <4>1
      <4>3. QED
        <5>1. /\ n \in 1..Len(queue[c])
              /\ n < index[c] + 1 => status[k] \in Outcomes
              /\ n = index[c] + 1 => status[k] = "running"
              /\ n > index[c] + 1 => status[k] = "waiting"
          BY <1>6, <3>1, <4>1 DEF IInv, PlaceInv
        <5>2. QED
          BY <1>6, <3>1, <4>1, <4>2, <5>1
    <3>2. CASE c = b
      <4>1. /\ n \in 1..Len(rest) /\ queue'[c][n] = queue[b][limit[b] + n]
            /\ limit[b] + n \in 1..Len(queue[b]) /\ limit[b] + n > index[b] + 1
        BY <1>1, <1>2, <1>3, <1>6, <3>2
      <4>2. PICK k \in Jobs : /\ k = queue'[c][n] /\ k = queue[b][limit[b] + n]
                              /\ BucketOf[k] = b /\ status[k] = "waiting"
        BY <4>1, Placement DEF IInv, PlaceInv
      <4>3. CASE n = 1
        <5>1. k = nxt
          BY <4>2, <4>3 DEF nxt
        <5>2. QED
          BY <1>6, <3>2, <4>2, <4>3, <5>1
      <4>4. CASE n # 1
        <5>1. k # nxt
          <6>1. /\ limit[b] + n \in Unsettled(b) /\ limit[b] + 1 \in Unsettled(b)
                /\ limit[b] + n # limit[b] + 1
            BY <1>2, <1>3, <4>1, <4>4
          <6>2. queue[b][limit[b] + n] # nxt
            BY <6>1, NoRepeat DEF nxt
          <6>3. QED
            BY <4>2, <6>2
        <5>2. k # cur
          BY <1>4, <4>2
        <5>3. status'[k] = "waiting" /\ n > index'[c] + 1
          BY <1>6, <3>2, <4>1, <4>2, <4>4, <5>1, <5>2
        <5>4. QED
          BY <1>6, <3>2, <4>1, <4>2, <4>4, <5>3
      <4>5. QED
        BY <4>3, <4>4
    <3>3. QED
      BY <3>1, <3>2
  <2>2. ASSUME NEW c \in Buckets, NEW m \in Unsettled(c)', NEW n \in Unsettled(c)',
               queue'[c][m] = queue'[c][n]
        PROVE  m = n
    <3>1. CASE c # b
      <4>1. m \in Unsettled(c) /\ n \in Unsettled(c) /\ queue[c][m] = queue[c][n]
        BY <1>6, <2>2, <3>1 DEF Unsettled
      <4>2. QED
        BY <4>1, NoRepeat
    <3>2. CASE c = b
      <4>1. m \in 1..Len(rest) /\ n \in 1..Len(rest)
        BY <1>6, <3>2 DEF Unsettled
      <4>2. /\ limit[b] + m \in Unsettled(b) /\ limit[b] + n \in Unsettled(b)
            /\ queue[b][limit[b] + m] = queue[b][limit[b] + n]
        BY <1>3, <1>6, <2>2, <3>2, <4>1
      <4>3. limit[b] + m = limit[b] + n
        BY <4>2, NoRepeat
      <4>4. QED
        BY <1>2, <4>1, <4>3
    <3>3. QED
      BY <3>1, <3>2
  <2>3. ASSUME NEW k \in Jobs, status'[k] \in {"waiting", "running"}
        PROVE  \E n \in Unsettled(BucketOf[k])' : queue'[BucketOf[k]][n] = k
    <3>1. k # cur
      BY <1>6, <2>3 DEF Outcomes
    <3>2. status[k] \in {"waiting", "running"}
      BY <1>4, <1>6, <2>3, <3>1
    <3>3. PICK n \in Unsettled(BucketOf[k]) : queue[BucketOf[k]][n] = k
      BY <3>2 DEF IInv, PlaceInv
    <3>4. BucketOf[k] \in Buckets
      BY BucketAssumption
    <3>5. CASE BucketOf[k] # b
      <4>1. n \in Unsettled(BucketOf[k])' /\ queue'[BucketOf[k]][n] = k
        BY <1>6, <3>3, <3>4, <3>5 DEF Unsettled
      <4>2. QED
        BY <4>1
    <3>6. CASE BucketOf[k] = b
      <4>1. n # index[b] + 1
        BY <3>1, <3>3, <3>6 DEF Current
      <4>2. n \in limit[b]..Len(queue[b]) /\ n > limit[b]
        BY <1>1, <1>2, <3>3, <3>6, <4>1 DEF Unsettled
      <4>3. n - limit[b] \in 1..Len(rest) /\ limit[b] + (n - limit[b]) = n
        BY <1>2, <1>3, <4>2
      <4>4. rest[n - limit[b]] = k
        BY <1>3, <3>3, <3>6, <4>3
      <4>5. n - limit[b] \in Unsettled(b)'
        BY <1>6, <4>3 DEF Unsettled
      <4>6. QED
        BY <1>6, <3>6, <4>4, <4>5
    <3>7. QED
      BY <3>5, <3>6
  <2>4. QED
    BY <2>1, <2>2, <2>3 DEF PlaceInv
<1>9. QED
  BY <1>5, <1>7, <1>8 DEF IInv

(* The clean-up: the settled job was the last of its bucket.               *)
LEMMA CleanupIInv ==
  ASSUME IInv, NEW b \in Buckets, NEW o \in Outcomes, Cleanup(b, o)
  PROVE  IInv'
<1> DEFINE cur == Current(b)
<1>1. /\ b \in buckets /\ index[b] + 1 = limit[b] /\ limit[b] = Len(queue[b])
      /\ buckets' = buckets \ {b}
      /\ queue' = [queue EXCEPT ![b] = <<>>]
      /\ index' = [index EXCEPT ![b] = 0]
      /\ limit' = [limit EXCEPT ![b] = 0]
      /\ status' = [status EXCEPT ![cur] = o]
  BY DEF Cleanup
<1>2. /\ queue[b] \in Seq(Jobs) /\ index[b] \in Nat
      /\ cur \in Jobs /\ BucketOf[cur] = b /\ status[cur] = "running"
  BY <1>1, CurrentRuns
<1>3. TypeOK'
  BY <1>1, <1>2, GcLimitAssumption DEF IInv, TypeOK, Statuses
<1>4. /\ queue'[b] = <<>> /\ index'[b] = 0 /\ limit'[b] = 0
      /\ \A c \in Buckets : c # b => /\ queue'[c] = queue[c]
                                     /\ index'[c] = index[c]
                                     /\ limit'[c] = limit[c]
      /\ status'[cur] = o
      /\ \A k \in Jobs : k # cur => status'[k] = status[k]
  BY <1>1, <1>2 DEF IInv, TypeOK
<1>5. ExecutorInv'
  BY <1>1, <1>4 DEF IInv, TypeOK, ExecutorInv
<1>6. PlaceInv'
  <2>1. ASSUME NEW c \in Buckets, NEW n \in 1..Len(queue'[c])
        PROVE  /\ BucketOf[queue'[c][n]] = c
               /\ n < index'[c] + 1 => status'[queue'[c][n]] \in Outcomes
               /\ n = index'[c] + 1 => status'[queue'[c][n]] = "running"
               /\ n > index'[c] + 1 => status'[queue'[c][n]] = "waiting"
    <3>1. c # b
      BY <1>4
    <3>2. PICK k \in Jobs : k = queue[c][n] /\ k = queue'[c][n] /\ BucketOf[k] = c
      BY <1>4, <3>1, Placement DEF IInv, PlaceInv
    <3>3. status'[k] = status[k]
      BY <1>2, <1>4, <3>1, <3>2
    <3>4. QED
      BY <1>4, <3>1, <3>2, <3>3 DEF IInv, PlaceInv
  <2>2. ASSUME NEW c \in Buckets, NEW m \in Unsettled(c)', NEW n \in Unsettled(c)',
               queue'[c][m] = queue'[c][n]
        PROVE  m = n
    <3>1. c # b
      BY <1>4 DEF Unsettled
    <3>2. m \in Unsettled(c) /\ n \in Unsettled(c) /\ queue[c][m] = queue[c][n]
      BY <1>4, <2>2, <3>1 DEF Unsettled
    <3>3. QED
      BY <3>2, NoRepeat
  <2>3. ASSUME NEW k \in Jobs, status'[k] \in {"waiting", "running"}
        PROVE  \E n \in Unsettled(BucketOf[k])' : queue'[BucketOf[k]][n] = k
    <3>1. k # cur /\ status[k] \in {"waiting", "running"}
      BY <1>4, <2>3 DEF Outcomes
    <3>2. PICK n \in Unsettled(BucketOf[k]) : queue[BucketOf[k]][n] = k
      BY <3>1 DEF IInv, PlaceInv
    <3>3. BucketOf[k] \in Buckets
      BY BucketAssumption
    <3>4. BucketOf[k] # b
      <4>1. SUFFICES ASSUME BucketOf[k] = b PROVE FALSE
        OBVIOUS
      <4>2. n = index[b] + 1
        BY <1>1, <1>2, <3>2, <4>1 DEF Unsettled
      <4>3. QED
        BY <3>1, <3>2, <4>1, <4>2 DEF Current
    <3>5. n \in Unsettled(BucketOf[k])' /\ queue'[BucketOf[k]][n] = k
      BY <1>4, <3>2, <3>3, <3>4 DEF Unsettled
    <3>6. QED
      BY <3>5
  <2>4. QED
    BY <2>1, <2>2, <2>3 DEF PlaceInv
<1>7. QED
  BY <1>3, <1>5, <1>6 DEF IInv

LEMMA NextIInv == IInv /\ [Next]_vars => IInv'
<1> SUFFICES ASSUME IInv, [Next]_vars PROVE IInv'
  OBVIOUS
<1>1. CASE \E j \in Jobs : QueueJob(j)
  BY <1>1, QueueJobIInv
<1>2. CASE \E j \in Jobs : QueueFirstJob(j)
  BY <1>2, QueueFirstJobIInv
<1>3. CASE \E b \in Buckets : \E o \in Outcomes : NextInBatch(b, o)
  BY <1>3, NextInBatchIInv
<1>4. CASE \E b \in Buckets : \E o \in Outcomes : NextBatch(b, o)
  BY <1>4, NextBatchIInv
<1>5. CASE \E b \in Buckets : \E o \in Outcomes : Cleanup(b, o)
  BY <1>5, CleanupIInv
<1>6. CASE UNCHANGED vars
  BY <1>6 DEF vars, IInv, TypeOK, ExecutorInv, PlaceInv, Unsettled
<1>7. QED
  BY <1>1, <1>2, <1>3, <1>4, <1>5, <1>6 DEF Next, Settle

LEMMA IInvHolds == Spec => []IInv
  BY InitIInv, NextIInv, PTL DEF Spec

(* The types, with an index that stays within a batch of at most GcLimit.  *)
THEOREM TypeCorrect == Spec => []TypeOK
<1>1. IInv => TypeOK
  BY DEF IInv
<1>2. QED
  BY <1>1, IInvHolds, PTL

(* Two jobs of one bucket are never in progress together, for any number of *)
(* jobs and any interleaving of their arrivals with the executor's turns.   *)
THEOREM MutualExclusionHolds == Spec => []MutualExclusion
<1>1. IInv => MutualExclusion
  <2> SUFFICES ASSUME IInv, NEW j \in Jobs, NEW k \in Jobs,
                      status[j] = "running", status[k] = "running",
                      BucketOf[j] = BucketOf[k]
               PROVE  j = k
    BY DEF MutualExclusion
  <2> DEFINE b == BucketOf[j]
  <2>1. b \in Buckets /\ queue[b] \in Seq(Jobs) /\ index[b] \in Nat
    BY BucketAssumption DEF IInv, TypeOK
  <2>2. ASSUME NEW i \in Jobs, status[i] = "running", BucketOf[i] = b
        PROVE  i = Current(b)
    <3>1. PICK n \in Unsettled(b) : queue[b][n] = i
      BY <2>2 DEF IInv, PlaceInv
    <3>2. n \in 1..Len(queue[b]) /\ n >= index[b] + 1
      BY <2>1 DEF Unsettled
    <3>3. ~(n > index[b] + 1)
      BY <2>1, <2>2, <3>1, <3>2 DEF IInv, PlaceInv
    <3>4. QED
      BY <2>1, <3>1, <3>2, <3>3 DEF Current
  <2>3. QED
    BY <2>2
<1>2. QED
  BY <1>1, IInvHolds, PTL

(* The map holds exactly the busy buckets, and each of them has a job in    *)
(* progress: no job waits on an executor that has left.                     *)
THEOREM BucketIffBusyHolds == Spec => []BucketIffBusy
<1>1. IInv => BucketIffBusy
  <2> SUFFICES ASSUME IInv, NEW b \in Buckets
               PROVE  /\ b \in buckets <=> JobsOf(b, {"waiting", "running"}) # {}
                      /\ b \in buckets <=> JobsOf(b, {"running"}) # {}
    BY DEF BucketIffBusy
  <2>1. ASSUME b \in buckets
        PROVE  /\ Current(b) \in JobsOf(b, {"running"})
               /\ Current(b) \in JobsOf(b, {"waiting", "running"})
    BY <2>1, CurrentRuns DEF JobsOf
  <2>2. ASSUME NEW j \in JobsOf(b, {"waiting", "running"})
        PROVE  b \in buckets
    <3>1. PICK n \in Unsettled(b) : queue[b][n] = j
      BY DEF IInv, PlaceInv, JobsOf
    <3>2. queue[b] # <<>>
      BY <3>1 DEF Unsettled, IInv, TypeOK
    <3>3. QED
      BY <3>2 DEF IInv, ExecutorInv
  <2>3. JobsOf(b, {"running"}) \subseteq JobsOf(b, {"waiting", "running"})
    BY DEF JobsOf
  <2>4. QED
    BY <2>1, <2>2, <2>3
<1>2. QED
  BY <1>1, IInvHolds, PTL

(* The settled jobs an array keeps alive are fewer than one batch.         *)
THEOREM SettledJobsAreDroppedHolds == Spec => []SettledJobsAreDropped
<1>1. IInv => SettledJobsAreDropped
  <2> SUFFICES ASSUME IInv, NEW b \in Buckets, NEW n \in 1..Len(queue[b]),
                      status[queue[b][n]] \in Outcomes
               PROVE  n < GcLimit
    BY DEF SettledJobsAreDropped, IInv, TypeOK
  <2>1. n \in Nat /\ index[b] \in 0..(GcLimit - 1)
    BY DEF IInv, TypeOK
  <2>2. n < index[b] + 1
    BY <2>1 DEF IInv, PlaceInv, Outcomes
  <2>3. QED
    BY <2>1, <2>2, GcLimitAssumption
<1>2. QED
  BY <1>1, IInvHolds, PTL

------------------------------------------------------------------------------
(* The refinement.  The line of a bucket is what its executor has not       *)
(* settled; each turn of the executor takes the head off.                  *)

LineOf(b) == SubSeq(queue[b], index[b] + 1, Len(queue[b]))

OutcomeOf(j) == {status[j]} \cap Outcomes

LEMMA LineFacts ==
  ASSUME IInv, NEW b \in Buckets
  PROVE  /\ LineOf(b) \in Seq(Jobs)
         /\ Len(LineOf(b)) = Len(queue[b]) - index[b]
         /\ \A i \in 1..Len(LineOf(b)) : LineOf(b)[i] = queue[b][index[b] + i]
<1>1. queue[b] \in Seq(Jobs) /\ index[b] \in Nat /\ index[b] <= Len(queue[b])
  BY DEF IInv, TypeOK, ExecutorInv
<1>2. \A i \in (index[b] + 1)..Len(queue[b]) : queue[b][i] \in Jobs
  BY <1>1, ElementOfSeq
<1>3. /\ LineOf(b) \in Seq(Jobs)
      /\ Len(LineOf(b)) = IF index[b] + 1 <= Len(queue[b])
                          THEN Len(queue[b]) - (index[b] + 1) + 1 ELSE 0
      /\ \A i \in 1..(Len(queue[b]) - (index[b] + 1) + 1) :
           LineOf(b)[i] = queue[b][index[b] + 1 + i - 1]
  BY <1>1, <1>2, SubSeqProperties DEF LineOf
<1>4. Len(LineOf(b)) = Len(queue[b]) - index[b]
  BY <1>1, <1>3
<1>5. ASSUME NEW i \in 1..Len(LineOf(b))
      PROVE  LineOf(b)[i] = queue[b][index[b] + i]
  <2>1. i \in 1..(Len(queue[b]) - (index[b] + 1) + 1) /\ index[b] + 1 + i - 1 = index[b] + i
    BY <1>1, <1>4
  <2>2. QED
    BY <1>3, <2>1
<1>6. QED
  BY <1>3, <1>4, <1>5

LEMMA SuffixOfAppend ==
  ASSUME NEW S, NEW q \in Seq(S), NEW e \in S, NEW i \in 0..Len(q)
  PROVE  SubSeq(Append(q, e), i + 1, Len(Append(q, e))) = Append(SubSeq(q, i + 1, Len(q)), e)
<1> DEFINE left == SubSeq(Append(q, e), i + 1, Len(Append(q, e)))
           right == Append(SubSeq(q, i + 1, Len(q)), e)
<1>1. /\ Append(q, e) \in Seq(S) /\ Len(Append(q, e)) = Len(q) + 1
      /\ Append(q, e)[Len(q) + 1] = e
      /\ \A n \in 1..Len(q) : Append(q, e)[n] = q[n]
  BY AppendProperties
<1>2. /\ left \in Seq(S) /\ Len(left) = Len(q) + 1 - i
      /\ \A n \in 1..(Len(q) + 1 - i) : left[n] = Append(q, e)[i + n]
  <2>1. \A n \in (i + 1)..(Len(q) + 1) : Append(q, e)[n] \in S
    BY <1>1, ElementOfSeq
  <2>2. /\ left \in Seq(S)
        /\ Len(left) = IF i + 1 <= Len(q) + 1 THEN Len(q) + 1 - (i + 1) + 1 ELSE 0
        /\ \A n \in 1..(Len(q) + 1 - (i + 1) + 1) : left[n] = Append(q, e)[i + 1 + n - 1]
    BY <1>1, <2>1, SubSeqProperties
  <2>3. \A n \in Int : i + 1 + n - 1 = i + n
    OBVIOUS
  <2>4. QED
    BY <2>2, <2>3
<1>3. /\ SubSeq(q, i + 1, Len(q)) \in Seq(S) /\ Len(SubSeq(q, i + 1, Len(q))) = Len(q) - i
      /\ \A n \in 1..(Len(q) - i) : SubSeq(q, i + 1, Len(q))[n] = q[i + n]
  <2>1. \A n \in (i + 1)..Len(q) : q[n] \in S
    BY ElementOfSeq
  <2>2. /\ SubSeq(q, i + 1, Len(q)) \in Seq(S)
        /\ Len(SubSeq(q, i + 1, Len(q))) =
             IF i + 1 <= Len(q) THEN Len(q) - (i + 1) + 1 ELSE 0
        /\ \A n \in 1..(Len(q) - (i + 1) + 1) :
             SubSeq(q, i + 1, Len(q))[n] = q[i + 1 + n - 1]
    BY <2>1, SubSeqProperties
  <2>3. \A n \in Int : i + 1 + n - 1 = i + n
    OBVIOUS
  <2>4. QED
    BY <2>2, <2>3
<1>4. /\ right \in Seq(S) /\ Len(right) = Len(q) + 1 - i
      /\ right[Len(q) + 1 - i] = e
      /\ \A n \in 1..(Len(q) - i) : right[n] = q[i + n]
  <2> DEFINE suffix == SubSeq(q, i + 1, Len(q))
  <2>1. suffix \in Seq(S)
    BY <1>3
  <2> HIDE DEF suffix
  <2>2. /\ Append(suffix, e) \in Seq(S)
        /\ Len(Append(suffix, e)) = Len(suffix) + 1
        /\ Append(suffix, e)[Len(suffix) + 1] = e
        /\ \A n \in 1..Len(suffix) : Append(suffix, e)[n] = suffix[n]
    BY <2>1, AppendProperties
  <2>3. Len(suffix) = Len(q) - i /\ \A n \in 1..(Len(q) - i) : suffix[n] = q[i + n]
    BY <1>3 DEF suffix
  <2>4. Len(q) - i + 1 = Len(q) + 1 - i
    OBVIOUS
  <2>5. right = Append(suffix, e)
    BY DEF suffix
  <2> HIDE DEF right
  <2>6. QED
    BY <2>2, <2>3, <2>4, <2>5
<1>5. ASSUME NEW n \in 1..(Len(q) + 1 - i)
      PROVE  left[n] = right[n]
  <2>1. CASE n = Len(q) + 1 - i
    BY <1>1, <1>2, <1>4, <2>1
  <2>2. CASE n # Len(q) + 1 - i
    BY <1>1, <1>2, <1>4, <2>2
  <2>3. QED
    BY <2>1, <2>2
<1>6. QED
  BY <1>2, <1>4, <1>5, SeqEqual

(* The jobs not yet settled, as the abstract specification sees them.       *)
Line == [b \in Buckets |-> LineOf(b)]

Outcome == [j \in Jobs |-> OutcomeOf(j)]

(* A call that only queues: one line grows by the job, no outcome changes.  *)
LEMMA JoinMaps ==
  ASSUME IInv, NEW j \in Jobs, status[j] = "new", status'[j] \notin Outcomes,
         \A k \in Jobs : k # j => status'[k] = status[k],
         \A c \in Buckets : c # BucketOf[j] => LineOf(c)' = LineOf(c),
         LineOf(BucketOf[j])' = Append(LineOf(BucketOf[j]), j)
  PROVE  Fifo!Join(j)
<1> DEFINE b == BucketOf[j]
<1>1. b \in Buckets
  BY BucketAssumption
<1>2. \A n \in DOMAIN LineOf(b) : LineOf(b)[n] # j
  <2>1. LineOf(b) \in Seq(Jobs) /\ DOMAIN LineOf(b) = 1..Len(LineOf(b))
    BY <1>1, LineFacts
  <2>2. ASSUME NEW n \in 1..Len(LineOf(b))
        PROVE  LineOf(b)[n] # j
    <3>1. queue[b] \in Seq(Jobs) /\ index[b] \in Nat
      BY <1>1 DEF IInv, TypeOK
    <3>2. index[b] + n \in 1..Len(queue[b]) /\ LineOf(b)[n] = queue[b][index[b] + n]
      <4>1. /\ Len(LineOf(b)) = Len(queue[b]) - index[b]
            /\ LineOf(b)[n] = queue[b][index[b] + n]
        BY <1>1, LineFacts
      <4>2. n \in 1..(Len(queue[b]) - index[b])
        BY <4>1
      <4>3. Len(queue[b]) \in Nat /\ index[b] \in Nat
        BY <3>1
      <4>4. index[b] + n \in 1..Len(queue[b])
        BY <4>2, <4>3
      <4>5. QED
        BY <4>1, <4>4
    <3>3. QED
      BY <1>1, <3>2, Placement
  <2>3. QED
    BY <2>1, <2>2
<1>3. OutcomeOf(j) = {} /\ OutcomeOf(j)' = {}
  BY DEF OutcomeOf, Outcomes
<1>4. Outcome' = Outcome
  BY <1>3 DEF Outcome, OutcomeOf
<1>5. Line' = [Line EXCEPT ![b] = Append(@, j)]
  BY <1>1 DEF Line
<1>6. Outcome[j] = {} /\ Line[b] = LineOf(b)
  BY <1>1, <1>3 DEF Outcome, Line
<1>7. QED
  BY <1>2, <1>4, <1>5, <1>6 DEF Fifo!Join, Fifo!InLine, Line, LineOf, Outcome, OutcomeOf

(* A turn of an executor: its line loses its head, which gets the outcome.  *)
LEMMA SettleMaps ==
  ASSUME IInv, NEW b \in buckets, NEW o \in Outcomes,
         status'[Current(b)] = o,
         \A k \in Jobs : k # Current(b) => OutcomeOf(k)' = OutcomeOf(k),
         \A c \in Buckets : c # b => LineOf(c)' = LineOf(c),
         LineOf(b)' = SubSeq(queue[b], index[b] + 2, Len(queue[b]))
  PROVE  Fifo!SettleHead(b, o)
<1>1. /\ b \in Buckets /\ queue[b] \in Seq(Jobs) /\ index[b] \in Nat
      /\ index[b] + 1 \in 1..Len(queue[b]) /\ Current(b) \in Jobs
  BY CurrentRuns
<1>2. Head(LineOf(b)) = Current(b) /\ Tail(LineOf(b)) = LineOf(b)'
  <2>1. Len(queue[b]) \in (index[b] + 1)..Len(queue[b])
    BY <1>1
  <2>2. index[b] + 1 + 1 = index[b] + 2
    BY <1>1
  <2>3. /\ Head(LineOf(b)) = queue[b][index[b] + 1]
        /\ Tail(LineOf(b)) = SubSeq(queue[b], index[b] + 1 + 1, Len(queue[b]))
    BY <1>1, <2>1, HeadTailOfSubSeq, Zenon DEF LineOf
  <2>4. QED
    BY <2>2, <2>3, Zenon DEF Current
<1>3. LineOf(b) # <<>>
  <2>1. LineOf(b) \in Seq(Jobs) /\ Len(LineOf(b)) > 0
    BY <1>1, LineFacts
  <2>2. QED
    BY <2>1, EmptySeq
<1>4. Outcome' = [Outcome EXCEPT ![Current(b)] = {o}]
  <2>1. PICK cur \in Jobs : cur = Current(b)
    BY <1>1
  <2>2. OutcomeOf(cur)' = {o}
    BY <2>1 DEF OutcomeOf
  <2>3. Outcome' = [Outcome EXCEPT ![cur] = {o}]
    BY <2>1, <2>2 DEF Outcome
  <2>4. QED
    BY <2>1, <2>3
<1>5. Line' = [Line EXCEPT ![b] = Tail(@)]
  BY <1>1, <1>2 DEF Line
<1>6. Line[b] = LineOf(b)
  BY <1>1 DEF Line
<1>7. QED
  BY <1>2, <1>3, <1>4, <1>5, <1>6 DEF Fifo!SettleHead, Line, LineOf, Outcome, OutcomeOf

LEMMA QueueJobMaps ==
  ASSUME IInv, NEW j \in Jobs, QueueJob(j)
  PROVE  Fifo!Join(j)
<1> DEFINE b == BucketOf[j]
<1>1. /\ b \in Buckets /\ queue[b] \in Seq(Jobs) /\ index[b] \in 0..Len(queue[b])
  <2>1. /\ b \in buckets /\ b \in Buckets
        /\ queue[b] \in Seq(Jobs) /\ index[b] \in Nat
    BY BucketAssumption DEF QueueJob, IInv, TypeOK
  <2>2. QED
    BY <2>1, CurrentRuns
<1>2. /\ status[j] = "new" /\ index' = index
      /\ queue'[b] = Append(queue[b], j)
      /\ status'[j] = "waiting"
      /\ \A c \in Buckets : c # b => queue'[c] = queue[c]
      /\ \A k \in Jobs : k # j => status'[k] = status[k]
  BY <1>1 DEF QueueJob, IInv, TypeOK
<1>3. LineOf(b)' = Append(LineOf(b), j)
  <2>1. SubSeq(Append(queue[b], j), index[b] + 1, Len(Append(queue[b], j)))
          = Append(SubSeq(queue[b], index[b] + 1, Len(queue[b])), j)
    BY <1>1, SuffixOfAppend
  <2>2. LineOf(b)' = SubSeq(queue'[b], index[b] + 1, Len(queue'[b]))
    BY <1>2 DEF LineOf
  <2>3. QED
    BY <1>2, <2>1, <2>2 DEF LineOf
<1>4. \A c \in Buckets : c # b => LineOf(c)' = LineOf(c)
  BY <1>2 DEF LineOf
<1>5. QED
  BY <1>2, <1>3, <1>4, JoinMaps DEF Outcomes

LEMMA QueueFirstJobMaps ==
  ASSUME IInv, NEW j \in Jobs, QueueFirstJob(j)
  PROVE  Fifo!Join(j)
<1> DEFINE b == BucketOf[j]
<1>1. b \in Buckets /\ queue[b] = <<>> /\ index[b] = 0
  BY BucketAssumption DEF QueueFirstJob, IInv, TypeOK, ExecutorInv
<1>2. /\ status[j] = "new"
      /\ queue'[b] = <<j>> /\ index'[b] = 0
      /\ status'[j] = "running"
      /\ \A c \in Buckets : c # b => queue'[c] = queue[c] /\ index'[c] = index[c]
      /\ \A k \in Jobs : k # j => status'[k] = status[k]
  BY <1>1 DEF QueueFirstJob, IInv, TypeOK
<1>3. LineOf(b)' = Append(LineOf(b), j)
  <2>1. LineOf(b) = <<>>
    BY <1>1, SubSeqEmpty DEF LineOf
  <2>2. LineOf(b)' = SubSeq(<<j>>, 1, 1)
    BY <1>2 DEF LineOf
  <2>3. SubSeq(<<j>>, 1, 1) = <<j>>
    <3>1. <<j>> \in Seq(Jobs) /\ Len(<<j>>) = 1
      OBVIOUS
    <3>2. QED
      BY <3>1, SubSeqFull
  <2>4. Append(<<>>, j) = <<j>>
    OBVIOUS
  <2>5. QED
    BY <2>1, <2>2, <2>3, <2>4
<1>4. \A c \in Buckets : c # b => LineOf(c)' = LineOf(c)
  BY <1>2 DEF LineOf
<1>5. QED
  BY <1>2, <1>3, <1>4, JoinMaps DEF Outcomes

LEMMA NextInBatchMaps ==
  ASSUME IInv, NEW b \in Buckets, NEW o \in Outcomes, NextInBatch(b, o)
  PROVE  Fifo!SettleHead(b, o)
<1> DEFINE cur == Current(b)
           nxt == queue[b][index[b] + 2]
<1>1. /\ b \in buckets /\ cur \in Jobs /\ nxt \in Jobs /\ cur # nxt
      /\ status[nxt] = "waiting"
  <2>1. /\ b \in buckets /\ index[b] + 1 < limit[b] /\ limit[b] <= Len(queue[b])
        /\ index[b] \in Nat /\ limit[b] \in Nat /\ queue[b] \in Seq(Jobs)
    BY DEF NextInBatch, IInv, TypeOK, ExecutorInv
  <2>2. index[b] + 2 \in 1..Len(queue[b]) /\ index[b] + 2 > index[b] + 1
    BY <2>1
  <2>3. QED
    BY <2>1, <2>2, CurrentRuns, WaitingBehind
<1>2. /\ queue' = queue /\ index'[b] = index[b] + 1
      /\ \A c \in Buckets : c # b => index'[c] = index[c]
      /\ status'[cur] = o /\ status'[nxt] = "running"
      /\ \A k \in Jobs : k # cur /\ k # nxt => status'[k] = status[k]
  BY <1>1 DEF NextInBatch, IInv, TypeOK
<1>3. \A k \in Jobs : k # cur => OutcomeOf(k)' = OutcomeOf(k)
  BY <1>1, <1>2 DEF OutcomeOf, Outcomes
<1>4. LineOf(b)' = SubSeq(queue[b], index[b] + 2, Len(queue[b]))
  <2>1. index[b] + 1 + 1 = index[b] + 2
    BY DEF IInv, TypeOK
  <2>2. QED
    BY <1>2, <2>1 DEF LineOf
<1>5. \A c \in Buckets : c # b => LineOf(c)' = LineOf(c)
  BY <1>2 DEF LineOf
<1>6. QED
  BY <1>1, <1>2, <1>3, <1>4, <1>5, SettleMaps

LEMMA NextBatchMaps ==
  ASSUME IInv, NEW b \in Buckets, NEW o \in Outcomes, NextBatch(b, o)
  PROVE  Fifo!SettleHead(b, o)
<1> DEFINE cur == Current(b)
           nxt == queue[b][limit[b] + 1]
           rest == SubSeq(queue[b], limit[b] + 1, Len(queue[b]))
<1>1. /\ b \in buckets /\ index[b] + 1 = limit[b] /\ limit[b] < Len(queue[b])
      /\ index[b] \in Nat /\ limit[b] \in Nat /\ queue[b] \in Seq(Jobs)
  BY DEF NextBatch, IInv, TypeOK
<1>2. cur \in Jobs /\ nxt \in Jobs /\ cur # nxt /\ status[nxt] = "waiting"
  <2>1. limit[b] + 1 \in 1..Len(queue[b]) /\ limit[b] + 1 > index[b] + 1
    BY <1>1
  <2>2. QED
    BY <1>1, <2>1, CurrentRuns, WaitingBehind
<1>3. /\ queue'[b] = rest /\ index'[b] = 0
      /\ \A c \in Buckets : c # b => queue'[c] = queue[c] /\ index'[c] = index[c]
      /\ status'[cur] = o /\ status'[nxt] = "running"
      /\ \A k \in Jobs : k # cur /\ k # nxt => status'[k] = status[k]
  BY <1>2 DEF NextBatch, IInv, TypeOK
<1>4. \A k \in Jobs : k # cur => OutcomeOf(k)' = OutcomeOf(k)
  BY <1>2, <1>3 DEF OutcomeOf, Outcomes
<1>5. LineOf(b)' = SubSeq(queue[b], index[b] + 2, Len(queue[b]))
  <2>1. rest \in Seq(Jobs)
    <3>1. \A n \in (limit[b] + 1)..Len(queue[b]) : queue[b][n] \in Jobs
      BY <1>1, ElementOfSeq
    <3>2. QED
      BY <1>1, <3>1, SubSeqProperties
  <2>2. SubSeq(rest, 1, Len(rest)) = rest
    BY <2>1, SubSeqFull
  <2>3. LineOf(b)' = SubSeq(rest, 1, Len(rest))
    BY <1>3 DEF LineOf
  <2>4. limit[b] + 1 = index[b] + 2
    BY <1>1
  <2>5. QED
    BY <2>2, <2>3, <2>4
<1>6. \A c \in Buckets : c # b => LineOf(c)' = LineOf(c)
  BY <1>3 DEF LineOf
<1>7. QED
  BY <1>1, <1>3, <1>4, <1>5, <1>6, SettleMaps

LEMMA CleanupMaps ==
  ASSUME IInv, NEW b \in Buckets, NEW o \in Outcomes, Cleanup(b, o)
  PROVE  Fifo!SettleHead(b, o)
<1> DEFINE cur == Current(b)
<1>1. /\ b \in buckets /\ index[b] + 1 = limit[b] /\ limit[b] = Len(queue[b])
      /\ index[b] \in Nat /\ limit[b] \in Nat /\ cur \in Jobs
  BY CurrentRuns DEF Cleanup
<1>2. /\ queue'[b] = <<>> /\ index'[b] = 0
      /\ \A c \in Buckets : c # b => queue'[c] = queue[c] /\ index'[c] = index[c]
      /\ status'[cur] = o
      /\ \A k \in Jobs : k # cur => status'[k] = status[k]
  BY <1>1 DEF Cleanup, IInv, TypeOK
<1>3. \A k \in Jobs : k # cur => OutcomeOf(k)' = OutcomeOf(k)
  BY <1>2 DEF OutcomeOf
<1>4. LineOf(b)' = SubSeq(queue[b], index[b] + 2, Len(queue[b]))
  <2>1. LineOf(b)' = <<>>
    BY <1>2, SubSeqEmpty DEF LineOf
  <2>2. Len(queue[b]) < index[b] + 2 /\ index[b] + 2 \in Int /\ Len(queue[b]) \in Int
    BY <1>1
  <2>3. QED
    BY <2>1, <2>2, SubSeqEmpty
<1>5. \A c \in Buckets : c # b => LineOf(c)' = LineOf(c)
  BY <1>2 DEF LineOf
<1>6. QED
  BY <1>1, <1>2, <1>3, <1>4, <1>5, SettleMaps

(* The executor implements the discipline of FifoBuckets: first in, first   *)
(* out within a bucket, each job settled once, buckets apart from another.  *)
THEOREM RefinesFifo == Spec => ImplementsFifo
<1>1. Init => Fifo!FBInit
  <2> SUFFICES ASSUME Init PROVE Fifo!FBInit
    OBVIOUS
  <2>1. ASSUME NEW b \in Buckets PROVE SubSeq(queue[b], index[b] + 1, Len(queue[b])) = <<>>
    BY SubSeqEmpty DEF Init
  <2>2. ASSUME NEW j \in Jobs PROVE {status[j]} \cap Outcomes = {}
    BY DEF Init, Outcomes
  <2>3. QED
    BY <2>1, <2>2 DEF Fifo!FBInit
<1>2. IInv /\ [Next]_vars => [Fifo!FBNext]_Fifo!fbVars
  <2> SUFFICES ASSUME IInv, [Next]_vars PROVE [Fifo!FBNext]_Fifo!fbVars
    OBVIOUS
  <2>1. CASE \E j \in Jobs : QueueJob(j)
    BY <2>1, QueueJobMaps DEF Fifo!FBNext
  <2>2. CASE \E j \in Jobs : QueueFirstJob(j)
    BY <2>2, QueueFirstJobMaps DEF Fifo!FBNext
  <2>3. CASE \E b \in Buckets : \E o \in Outcomes : NextInBatch(b, o)
    BY <2>3, NextInBatchMaps DEF Fifo!FBNext
  <2>4. CASE \E b \in Buckets : \E o \in Outcomes : NextBatch(b, o)
    BY <2>4, NextBatchMaps DEF Fifo!FBNext
  <2>5. CASE \E b \in Buckets : \E o \in Outcomes : Cleanup(b, o)
    BY <2>5, CleanupMaps DEF Fifo!FBNext
  <2>6. CASE UNCHANGED vars
    BY <2>6 DEF vars, Fifo!fbVars
  <2>7. QED
    BY <2>1, <2>2, <2>3, <2>4, <2>5, <2>6 DEF Next, Settle
<1>3. QED
  BY <1>1, <1>2, IInvHolds, PTL DEF Spec, ImplementsFifo, Fifo!FBSpec

================================================================================
