SPECIFICATION Spec
CONSTANTS
  j1 = j1
  j2 = j2
  j3 = j3
  j4 = j4
  j5 = j5
  k1 = k1
  alice = alice
  group = group
  Jobs <- MCJobs
  Buckets <- MCBuckets
  BucketOf <- MCBucketOf
  Responsive <- MCResponsive
  GcLimit = 2
INVARIANTS
  TypeOK
  MutualExclusion
  BucketIffBusy
  SettledJobsAreDropped
PROPERTIES
  ImplementsFifo
  EveryJobSettles
CHECK_DEADLOCK FALSE
