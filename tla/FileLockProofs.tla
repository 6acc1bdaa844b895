----------------------------- MODULE FileLockProofs -----------------------------
(***************************************************************************)
(* Theorems about FileLock, for any processes, deadlines and updates.      *)
(*                                                                         *)
(* The argument: as long as nobody has removed the lock file of a process   *)
(* that lives, a live process that is past its CreateLock finds its own    *)
(* lock file in place.  There is one lock file, so there is one such        *)
(* process, and what it has read under the lock is still so when it acts   *)
(* on it: each step is then one of SnapshotStore, or changes none of its   *)
(* variables.                                                              *)
(***************************************************************************)
EXTENDS FileLock, TLAPS

Locations == {"idle", "create", "write", "inspect", "steal", "critical",
              "replace", "release", "unlink"}

(* Where a process believes the lock to be its own.                        *)
Holding == {"write", "critical", "replace", "release", "unlink"}

HolderInv ==
  \A p \in Procs : alive[p] /\ pc[p] \in Holding =>
    lock = {[owner |-> p, written |-> pc[p] # "write"]}

RevisionInv ==
  \A p \in Procs : alive[p] /\ pc[p] = "replace" => memory[p].revision = file.revision

(* Nobody is ahead of the file, and who is up to date has all of it.       *)
StoreInv ==
  /\ \A p \in Procs :
       /\ memory[p].revision <= file.revision
       /\ memory[p].revision = file.revision => file.updates \subseteq memory[p].updates
  /\ saved \subseteq file.updates

IInv == TypeOK /\ (~raced => HolderInv /\ RevisionInv /\ StoreInv)

------------------------------------------------------------------------------
(* Types.                                                                  *)

LEMMA MaxTriesType == \A p \in Procs : MaxTries[p] \in Nat
BY FileLockAssumption

LEMMA InitTypeOK == Init => TypeOK
<1> SUFFICES ASSUME Init PROVE TypeOK
  OBVIOUS
<1>1. tries = [p \in Procs |-> 0]
  BY DEF Init
<1>2. tries \in [Procs -> Nat] /\ \A p \in Procs : tries[p] <= MaxTries[p]
  BY <1>1, MaxTriesType
<1>3. file \in Snapshot
  BY DEF Init, Snapshot
<1>4. QED
  BY <1>2, <1>3 DEF Init, TypeOK

(* Whoever goes somewhere, the lock file it makes, changes or removes is    *)
(* one lock file or none.                                                  *)
LEMMA AcquireTypeOK ==
  ASSUME TypeOK, NEW p \in Procs, Acquire(p)
  PROVE  TypeOK'
<1> USE FileLockAssumption DEF TypeOK, Goto
<1>1. CASE CreateLock(p)
  BY <1>1 DEF CreateLock, LockFile
<1>2. CASE WriteMetadata(p)
  <2>1. lock' = {} \/ \E l \in LockFile : lock' = {l}
    <3>1. CASE lock = {}
      BY <1>2, <3>1 DEF WriteMetadata
    <3>2. CASE \E l \in LockFile : lock = {l}
      <4>1. PICK l \in LockFile : lock = {l}
        BY <3>2
      <4>2. lock' = {IF l.owner = p THEN [l EXCEPT !.written = TRUE] ELSE l}
        BY <1>2, <4>1 DEF WriteMetadata
      <4>3. [l EXCEPT !.written = TRUE] \in LockFile
        BY DEF LockFile
      <4>4. QED
        BY <4>2, <4>3
    <3>3. QED
      BY <3>1, <3>2
  <2>2. QED
    BY <1>2, <2>1 DEF WriteMetadata
<1>3. CASE WriteMetadataFails(p)
  BY <1>3 DEF WriteMetadataFails, RemoveLock
<1>4. CASE LockExists(p)
  BY <1>4 DEF LockExists
<1>5. CASE JudgeStale(p)
  BY <1>5 DEF JudgeStale
<1>6. CASE RemoveStaleLock(p)
  BY <1>6 DEF RemoveStaleLock, RemoveLock
<1>7. CASE Retry(p)
  BY <1>7 DEF Retry
<1>8. CASE GiveUp(p)
  BY <1>8 DEF GiveUp
<1>9. QED
  BY <1>1, <1>2, <1>3, <1>4, <1>5, <1>6, <1>7, <1>8 DEF Acquire

LEMMA NextTypeOK ==
  ASSUME TypeOK, [Next]_vars
  PROVE  TypeOK'
<1>1. ASSUME NEW p \in Procs, Open(p) PROVE TypeOK'
  <2>1. \A q \in Procs : tries'[q] <= MaxTries[q]
    BY <1>1, MaxTriesType DEF TypeOK, Open
  <2>2. QED
    BY <1>1, <2>1 DEF TypeOK, Open, Goto
<1>2. ASSUME NEW p \in Procs, Save(p) PROVE TypeOK'
  <2>1. PICK n \in 1..MaxUpdates :
          memory' = [memory EXCEPT ![p].updates = @ \cup {<<p, n>>}]
    BY <1>2 DEF Save
  <2>2. memory' \in [Procs -> Snapshot]
    <3>1. <<p, n>> \in Updates
      BY DEF Updates
    <3>2. memory[p] \in Snapshot /\ memory \in [Procs -> Snapshot]
      BY DEF TypeOK
    <3>3. [memory[p] EXCEPT !.updates = @ \cup {<<p, n>>}] \in Snapshot
      BY <3>1, <3>2 DEF Snapshot
    <3>4. QED
      BY <2>1, <3>2, <3>3
  <2>3. QED
    BY <1>2, <2>2, FileLockAssumption DEF TypeOK, Save, Goto
<1>3. ASSUME NEW p \in Procs, Acquire(p) PROVE TypeOK'
  BY <1>3, AcquireTypeOK
<1>4. ASSUME NEW p \in Procs, LoadSnapshot(p) PROVE TypeOK'
  BY <1>4 DEF TypeOK, LoadSnapshot, Goto
<1>5. ASSUME NEW p \in Procs, AssertRevisionCurrent(p) \/ Conflict(p) PROVE TypeOK'
  BY <1>5 DEF TypeOK, AssertRevisionCurrent, Conflict, Goto
<1>6. ASSUME NEW p \in Procs, Replace(p) PROVE TypeOK'
  <2>1. [memory[p] EXCEPT !.revision = @ + 1] \in Snapshot /\ memory[p].updates \subseteq Updates
    BY DEF TypeOK, Snapshot
  <2>2. file' \in Snapshot /\ memory' \in [Procs -> Snapshot] /\ saved' \subseteq Updates
    BY <1>6, <2>1 DEF TypeOK, Replace
  <2>3. QED
    BY <1>6, <2>2 DEF TypeOK, Replace, Goto
<1>7. ASSUME NEW p \in Procs, ReleaseLock(p) PROVE TypeOK'
  BY <1>7 DEF TypeOK, ReleaseLock, Release, Unlink, LeaveForeignLock, RemoveLock, Goto
<1>8. ASSUME NEW p \in Procs, Crash(p) PROVE TypeOK'
  BY <1>8 DEF TypeOK, Crash
<1>9. CASE UNCHANGED vars
  BY <1>9 DEF TypeOK, vars
<1>10. QED
  BY <1>1, <1>2, <1>3, <1>4, <1>5, <1>6, <1>7, <1>8, <1>9 DEF Next, Proceed, UnderLock

(* Every variable holds what it is meant to hold.                          *)
THEOREM TypeCorrect == Spec => []TypeOK
<1>1. TypeOK /\ [Next]_vars => TypeOK'
  BY NextTypeOK
<1>2. QED
  BY <1>1, InitTypeOK, PTL DEF Spec

------------------------------------------------------------------------------
(* The lock.                                                               *)

LEMMA InitIInv == Init => IInv
<1> SUFFICES ASSUME Init PROVE IInv
  OBVIOUS
<1>1. HolderInv /\ RevisionInv
  BY DEF Init, HolderInv, RevisionInv, Holding
<1>2. StoreInv
  BY DEF Init, StoreInv
<1>3. QED
  BY <1>1, <1>2, InitTypeOK DEF IInv

(* A race, once it has happened, has happened.                             *)
LEMMA RacedStays ==
  ASSUME TypeOK, [Next]_vars, raced
  PROVE  raced'
BY DEF Next, vars, Open, Save, Proceed, Acquire, UnderLock, ReleaseLock, Crash,
       CreateLock, WriteMetadata, WriteMetadataFails, LockExists, JudgeStale,
       RemoveStaleLock, Retry, GiveUp, LoadSnapshot, AssertRevisionCurrent, Conflict,
       Replace, Release, Unlink, LeaveForeignLock, RemoveLock

(* Who goes from one place to another is there, and nobody else has moved.  *)
LEMMA GotoMoves ==
  ASSUME TypeOK, NEW p \in Procs, NEW from \in Locations, NEW to \in Locations,
         Goto(p, from, to)
  PROVE  /\ alive[p] /\ pc[p] = from /\ pc'[p] = to
         /\ \A q \in Procs : q # p => pc'[q] = pc[q]
BY DEF Goto, TypeOK

(* A step that leaves the lock file as it is and takes nobody to where the  *)
(* lock is held keeps it.                                                  *)
LEMMA MovesKeepHolder ==
  ASSUME TypeOK, HolderInv, UNCHANGED <<lock, alive>>, NEW p \in Procs,
         NEW from \in Locations, NEW to \in Locations, Goto(p, from, to),
         to \in Holding => from \in Holding \ {"write"} /\ to # "write"
  PROVE  HolderInv'
<1> SUFFICES ASSUME NEW q \in Procs, alive'[q], pc'[q] \in Holding
             PROVE  lock' = {[owner |-> q, written |-> pc'[q] # "write"]}
  BY DEF HolderInv
<1>1. CASE q # p
  BY <1>1, GotoMoves DEF HolderInv
<1>2. CASE q = p
  BY <1>2, GotoMoves DEF HolderInv
<1>3. QED
  BY <1>1, <1>2

(* Who removes the lock file and does not hold the lock afterwards either   *)
(* races, or was the only one to hold it.                                  *)
LEMMA RemovalKeepsHolder ==
  ASSUME TypeOK, HolderInv, UNCHANGED alive, NEW p \in Procs, RemoveLock(p),
         NEW from \in Locations, NEW to \in Locations \ Holding, Goto(p, from, to), ~raced'
  PROVE  HolderInv'
<1> SUFFICES ASSUME NEW q \in Procs, alive'[q], pc'[q] \in Holding
             PROVE  FALSE
  BY DEF HolderInv
<1>1. q # p /\ pc'[q] = pc[q]
  BY GotoMoves
<1>2. lock = {[owner |-> q, written |-> pc[q] # "write"]}
  BY <1>1 DEF HolderInv
<1>3. QED
  BY <1>1, <1>2 DEF RemoveLock

LEMMA NextHolderInv ==
  ASSUME TypeOK, HolderInv, [Next]_vars, ~raced'
  PROVE  HolderInv'
<1> USE DEF Locations, Holding
<1>1. ASSUME NEW p \in Procs, Open(p) \/ Save(p) PROVE HolderInv'
  BY <1>1, MovesKeepHolder DEF Open, Save
<1>2. ASSUME NEW p \in Procs, CreateLock(p) PROVE HolderInv'
  <2> SUFFICES ASSUME NEW q \in Procs, alive'[q], pc'[q] \in Holding
               PROVE  lock' = {[owner |-> q, written |-> pc'[q] # "write"]}
    BY DEF HolderInv
  <2>1. CASE q = p
    BY <1>2, <2>1, GotoMoves DEF CreateLock
  <2>2. CASE q # p
    BY <1>2, <2>2, GotoMoves DEF CreateLock, HolderInv
  <2>3. QED
    BY <2>1, <2>2
<1>3. ASSUME NEW p \in Procs, WriteMetadata(p) PROVE HolderInv'
  <2>1. alive[p] /\ pc[p] = "write" /\ pc'[p] = "critical" /\ alive' = alive
    BY <1>3, GotoMoves DEF WriteMetadata
  <2>2. lock = {[owner |-> p, written |-> FALSE]}
    BY <2>1 DEF HolderInv
  <2>3. lock' = {[owner |-> p, written |-> TRUE]}
    <3> DEFINE l == [owner |-> p, written |-> FALSE]
    <3>1. lock' = {IF l.owner = p THEN [l EXCEPT !.written = TRUE] ELSE l}
      BY <1>3, <2>2 DEF WriteMetadata
    <3>2. QED
      BY <3>1
  <2>4. ASSUME NEW q \in Procs, alive'[q], pc'[q] \in Holding PROVE q = p
    BY <1>3, <2>1, <2>2, <2>4, GotoMoves DEF HolderInv, WriteMetadata
  <2>5. QED
    BY <2>1, <2>3, <2>4 DEF HolderInv
<1>4. ASSUME NEW p \in Procs, WriteMetadataFails(p) PROVE HolderInv'
  BY <1>4, RemovalKeepsHolder DEF WriteMetadataFails
<1>5. ASSUME NEW p \in Procs, LockExists(p) \/ JudgeStale(p) \/ Retry(p) \/ GiveUp(p)
      PROVE  HolderInv'
  BY <1>5, MovesKeepHolder DEF LockExists, JudgeStale, Retry, GiveUp
<1>6. ASSUME NEW p \in Procs, RemoveStaleLock(p) PROVE HolderInv'
  BY <1>6, RemovalKeepsHolder DEF RemoveStaleLock
<1>7. ASSUME NEW p \in Procs, UnderLock(p) PROVE HolderInv'
  BY <1>7, MovesKeepHolder
  DEF UnderLock, LoadSnapshot, AssertRevisionCurrent, Conflict, Replace
<1>8. ASSUME NEW p \in Procs, Release(p) \/ LeaveForeignLock(p) PROVE HolderInv'
  BY <1>8, MovesKeepHolder DEF Release, LeaveForeignLock
<1>9. ASSUME NEW p \in Procs, Unlink(p) PROVE HolderInv'
  BY <1>9, RemovalKeepsHolder DEF Unlink
<1>10. ASSUME NEW p \in Procs, Crash(p) PROVE HolderInv'
  BY <1>10 DEF Crash, HolderInv, TypeOK
<1>11. CASE UNCHANGED vars
  BY <1>11 DEF vars, HolderInv
<1>12. QED
  BY <1>1, <1>2, <1>3, <1>4, <1>5, <1>6, <1>7, <1>8, <1>9, <1>10, <1>11
  DEF Next, Proceed, Acquire, ReleaseLock

(* So whoever holds the lock is the only one that does.                    *)
LEMMA OneHolder ==
  ASSUME HolderInv, NEW p \in Procs, NEW q \in Procs,
         alive[p], alive[q], pc[p] \in Holding, pc[q] \in Holding
  PROVE  p = q
<1>1. [owner |-> p, written |-> pc[p] # "write"] = [owner |-> q, written |-> pc[q] # "write"]
  BY DEF HolderInv
<1>2. QED
  BY <1>1

------------------------------------------------------------------------------
(* The register.                                                           *)

(* Every step is one of SnapshotStore, or none of its business.            *)
LEMMA StepMaps ==
  ASSUME TypeOK, RevisionInv, [Next]_vars
  PROVE  [Store!SSNext]_<<file, memory, saved>>
<1>1. ASSUME NEW p \in Procs, Save(p) PROVE Store!Change(p)
  <2>1. PICK n \in 1..MaxUpdates :
          /\ <<p, n>> \notin memory[p].updates
          /\ memory' = [memory EXCEPT ![p].updates = @ \cup {<<p, n>>}]
    BY <1>1 DEF Save
  <2>2. <<p, n>> \in Updates \ memory[p].updates
    BY <2>1 DEF Updates
  <2>3. QED
    BY <1>1, <2>1, <2>2 DEF Save, Store!Change
<1>2. ASSUME NEW p \in Procs, LoadSnapshot(p) PROVE Store!Reload(p)
  BY <1>2 DEF LoadSnapshot, Store!Reload
<1>3. ASSUME NEW p \in Procs, Replace(p) PROVE Store!Commit(p)
  <2>1. memory[p].revision = file.revision
    BY <1>3 DEF Replace, Goto, RevisionInv
  <2>2. QED
    BY <1>3, <2>1 DEF Replace, Store!Commit
<1>4. ASSUME NEW p \in Procs,
             Open(p) \/ Acquire(p) \/ AssertRevisionCurrent(p) \/ Conflict(p)
               \/ ReleaseLock(p) \/ Crash(p)
      PROVE  UNCHANGED <<file, memory, saved>>
  BY <1>4 DEF Open, Acquire, CreateLock, WriteMetadata, WriteMetadataFails, LockExists,
              JudgeStale, RemoveStaleLock, Retry, GiveUp, AssertRevisionCurrent, Conflict,
              ReleaseLock, Release, Unlink, LeaveForeignLock, Crash
<1>5. CASE UNCHANGED vars
  BY <1>5 DEF vars
<1>6. QED
  BY <1>1, <1>2, <1>3, <1>4, <1>5 DEF Next, Proceed, UnderLock, Store!SSNext

(* What has been checked under the lock stays so until it is released.     *)
LEMMA NextRevisionInv ==
  ASSUME TypeOK, HolderInv, RevisionInv, [Next]_vars
  PROVE  RevisionInv'
<1> SUFFICES ASSUME NEW q \in Procs, alive'[q], pc'[q] = "replace"
             PROVE  memory'[q].revision = file'.revision
  BY DEF RevisionInv
<1>1. alive[q]
  BY DEF TypeOK, Next, vars, Open, Save, Proceed, Acquire, UnderLock, ReleaseLock, Crash,
         CreateLock, WriteMetadata, WriteMetadataFails, LockExists, JudgeStale,
         RemoveStaleLock, Retry, GiveUp, LoadSnapshot, AssertRevisionCurrent, Conflict,
         Replace, Release, Unlink, LeaveForeignLock
<1>2. ASSUME NEW p \in Procs, Replace(p) PROVE FALSE
  <2>1. /\ alive[p] /\ pc[p] = "replace" /\ pc'[p] = "release"
        /\ \A r \in Procs : r # p => pc'[r] = pc[r]
    BY <1>2, GotoMoves DEF Replace, Locations
  <2>2. QED
    BY <1>1, <2>1, OneHolder DEF Holding
<1>3. ASSUME NEW p \in Procs, AssertRevisionCurrent(p)
      PROVE  memory'[q].revision = file'.revision
  <2>1. \A r \in Procs : r # p => pc'[r] = pc[r]
    BY <1>3, GotoMoves DEF AssertRevisionCurrent, Locations
  <2>2. QED
    BY <1>1, <1>3, <2>1 DEF AssertRevisionCurrent, RevisionInv
<1>4. ASSUME NEW p \in Procs, LoadSnapshot(p)
      PROVE  memory'[q].revision = file'.revision
  <2>1. pc'[p] = "release" /\ \A r \in Procs : r # p => pc'[r] = pc[r]
    BY <1>4, GotoMoves DEF LoadSnapshot, Locations
  <2>2. memory'[q] = memory[q] /\ file' = file /\ pc[q] = "replace"
    BY <1>4, <2>1 DEF LoadSnapshot, TypeOK
  <2>3. QED
    BY <1>1, <2>2 DEF RevisionInv
<1>5. ASSUME NEW p \in Procs, Save(p)
      PROVE  memory'[q].revision = file'.revision
  <2>1. pc[q] = "replace"
    BY <1>5, GotoMoves DEF Save, Locations
  <2>2. memory'[q].revision = memory[q].revision /\ file' = file
    BY <1>5 DEF Save, TypeOK, Snapshot
  <2>3. QED
    BY <1>1, <2>1, <2>2 DEF RevisionInv
<1>6. ASSUME NEW p \in Procs, Open(p) \/ Acquire(p) \/ Conflict(p) \/ ReleaseLock(p)
      PROVE  memory'[q].revision = file'.revision
  <2>1. UNCHANGED <<file, memory>>
    BY <1>6 DEF Open, Acquire, CreateLock, WriteMetadata, WriteMetadataFails, LockExists,
                JudgeStale, RemoveStaleLock, Retry, GiveUp, Conflict,
                ReleaseLock, Release, Unlink, LeaveForeignLock
  <2>2. pc[q] = "replace"
    BY <1>6 DEF Open, Acquire, CreateLock, WriteMetadata, WriteMetadataFails, LockExists,
                JudgeStale, RemoveStaleLock, Retry, GiveUp, Conflict,
                ReleaseLock, Release, Unlink, LeaveForeignLock, Goto, TypeOK
  <2>3. QED
    BY <1>1, <2>1, <2>2 DEF RevisionInv
<1>7. ASSUME NEW p \in Procs, Crash(p)
      PROVE  memory'[q].revision = file'.revision
  BY <1>1, <1>7 DEF Crash, RevisionInv
<1>8. CASE UNCHANGED vars
  BY <1>1, <1>8 DEF vars, RevisionInv
<1>9. QED
  BY <1>2, <1>3, <1>4, <1>5, <1>6, <1>7, <1>8 DEF Next, Proceed, UnderLock

(* The register keeps what has been saved in it, whoever uses it.          *)
LEMMA StoreStepKeepsSaved ==
  ASSUME TypeOK, StoreInv, [Store!SSNext]_<<file, memory, saved>>
  PROVE  StoreInv'
<1> USE DEF TypeOK, Snapshot
<1>1. ASSUME NEW i \in Procs, Store!Change(i) PROVE StoreInv'
  <2>1. PICK u \in Updates : memory' = [memory EXCEPT ![i].updates = @ \cup {u}]
    BY <1>1 DEF Store!Change
  <2>2. \A p \in Procs : /\ memory'[p].revision = memory[p].revision
                         /\ memory[p].updates \subseteq memory'[p].updates
    BY <2>1
  <2>3. QED
    BY <1>1, <2>2 DEF StoreInv, Store!Change
<1>2. ASSUME NEW i \in Procs, Store!Commit(i) PROVE StoreInv'
  <2>1. /\ memory[i].revision = file.revision
        /\ file' = [memory[i] EXCEPT !.revision = @ + 1]
        /\ memory' = [memory EXCEPT ![i].revision = @ + 1]
        /\ saved' = saved \cup memory[i].updates
    BY <1>2 DEF Store!Commit
  <2>2. file'.revision = file.revision + 1 /\ file'.updates = memory[i].updates
    BY <2>1
  <2>3. memory'[i].revision = file.revision + 1 /\ memory'[i].updates = memory[i].updates
    BY <2>1
  <2>4. \A p \in Procs : p # i => memory'[p] = memory[p]
    BY <2>1
  <2>5. file.revision \in Nat /\ \A p \in Procs : memory[p].revision \in Nat
    OBVIOUS
  <2>6. ASSUME NEW p \in Procs
        PROVE  /\ memory'[p].revision <= file'.revision
               /\ memory'[p].revision = file'.revision =>
                    file'.updates \subseteq memory'[p].updates
    <3>1. CASE p = i
      BY <2>2, <2>3, <2>5, <3>1
    <3>2. CASE p # i
      BY <2>2, <2>4, <2>5, <3>2 DEF StoreInv
    <3>3. QED
      BY <3>1, <3>2
  <2>7. saved' \subseteq file'.updates
    BY <2>1, <2>2 DEF StoreInv
  <2>8. QED
    BY <2>6, <2>7 DEF StoreInv
<1>3. ASSUME NEW i \in Procs, Store!Reload(i) PROVE StoreInv'
  <2>1. memory'[i] = file /\ \A p \in Procs : p # i => memory'[p] = memory[p]
    BY <1>3 DEF Store!Reload
  <2>2. QED
    BY <1>3, <2>1 DEF StoreInv, Store!Reload
<1>4. CASE UNCHANGED <<file, memory, saved>>
  BY <1>4 DEF StoreInv
<1>5. QED
  BY <1>1, <1>2, <1>3, <1>4 DEF Store!SSNext

LEMMA NextIInv ==
  ASSUME IInv, [Next]_vars
  PROVE  IInv'
<1>1. TypeOK /\ TypeOK'
  BY NextTypeOK DEF IInv
<1>2. CASE ~raced'
  <2>1. ~raced
    BY <1>1, <1>2, RacedStays
  <2>2. HolderInv /\ RevisionInv /\ StoreInv
    BY <2>1 DEF IInv
  <2>3. QED
    BY <1>1, <1>2, <2>2, NextHolderInv, NextRevisionInv, StepMaps, StoreStepKeepsSaved DEF IInv
<1>3. CASE raced'
  BY <1>1, <1>3 DEF IInv
<1>4. QED
  BY <1>2, <1>3

(* What the theorems below rest on: one holder of the lock, revisions that   *)
(* are not ahead of the file, and nothing lost, until the lock is raced for. *)
THEOREM IInvHolds == Spec => []IInv
<1>1. IInv /\ [Next]_vars => IInv'
  BY NextIInv
<1>2. QED
  BY <1>1, InitIInv, PTL DEF Spec

------------------------------------------------------------------------------
(* What it is for.                                                         *)

(* Under the lock, load and save are atomic on one register, as long as no  *)
(* process removes the lock file of a live one.                            *)
THEOREM RefinesStore == Spec => StoreUntilRaced
<1>1. Init => Store!SSInit
  BY DEF Init, Store!SSInit
<1>2. IInv /\ [Next]_vars => [raced' \/ Store!SSNext]_<<file, memory, saved>>
  <2> SUFFICES ASSUME IInv, [Next]_vars, ~raced'
               PROVE  [Store!SSNext]_<<file, memory, saved>>
    OBVIOUS
  <2>1. TypeOK /\ RevisionInv
    BY RacedStays DEF IInv
  <2>2. QED
    BY <2>1, StepMaps
<1>3. QED
  BY <1>1, <1>2, IInvHolds, PTL DEF Spec, StoreUntilRaced

(* An update whose save has returned is overwritten by nobody, whatever     *)
(* calls fail, give up or die half way, until then.                        *)
THEOREM SavedIsKeptUntilRaced == Spec => [](raced \/ SavedIsKept)
<1>1. IInv => raced \/ SavedIsKept
  BY DEF IInv, StoreInv, SavedIsKept
<1>2. QED
  BY <1>1, IInvHolds, PTL

(* Two live processes are never under the lock together, until then.       *)
THEOREM ExclusiveUntilRaced ==
  Spec => [](raced \/ \A p, q \in Procs :
    alive[p] /\ alive[q] /\ {pc[p], pc[q]} \subseteq {"critical", "replace"} => p = q)
<1>1. IInv => raced \/ \A p, q \in Procs :
        alive[p] /\ alive[q] /\ {pc[p], pc[q]} \subseteq {"critical", "replace"} => p = q
  BY OneHolder DEF IInv, Holding
<1>2. QED
  BY <1>1, IInvHolds, PTL
==============================================================================
