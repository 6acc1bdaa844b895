------------------------------ MODULE FifoBuckets ------------------------------
(***************************************************************************)
(* What queueJob promises its callers: the jobs of one bucket run one at a *)
(* time in the order in which they were queued, each of them is settled    *)
(* exactly once, and buckets do not see each other.  The head of a line is *)
(* the job that runs.                                                      *)
(***************************************************************************)
EXTENDS Sequences

CONSTANTS Jobs, Buckets, BucketOf, Outcomes

VARIABLES line,    \* line[b]: the unsettled jobs of bucket b, in order of arrival
          outcome  \* outcome[j]: the empty set, or the outcome of a settled job

fbVars == <<line, outcome>>

InLine(j) == \E n \in DOMAIN line[BucketOf[j]] : line[BucketOf[j]][n] = j

FBInit ==
  /\ line = [b \in Buckets |-> <<>>]
  /\ outcome = [j \in Jobs |-> {}]

Join(j) ==
  /\ outcome[j] = {} /\ ~InLine(j)
  /\ line' = [line EXCEPT ![BucketOf[j]] = Append(@, j)]
  /\ UNCHANGED outcome

SettleHead(b, o) ==
  /\ line[b] # <<>>
  /\ outcome' = [outcome EXCEPT ![Head(line[b])] = {o}]
  /\ line' = [line EXCEPT ![b] = Tail(@)]

FBNext ==
  \/ \E j \in Jobs : Join(j)
  \/ \E b \in Buckets : \E o \in Outcomes : SettleHead(b, o)

FBSpec == FBInit /\ [][FBNext]_fbVars
================================================================================
