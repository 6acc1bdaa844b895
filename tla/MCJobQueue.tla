------------------------------ MODULE MCJobQueue ------------------------------
(* Five jobs on one address, which therefore goes through several batches of *)
(* at most two, and one on another, whose job need never settle.             *)
EXTENDS JobQueue

CONSTANTS j1, j2, j3, j4, j5, k1, alice, group

MCJobs == {j1, j2, j3, j4, j5, k1}
MCBuckets == {alice, group}
MCBucketOf == [j \in MCJobs |-> IF j = k1 THEN group ELSE alice]
MCResponsive == {alice}
===============================================================================
