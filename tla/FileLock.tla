------------------------------- MODULE FileLock -------------------------------
(***************************************************************************)
(* The lock file and the revision check of file-storage.ts: acquireFileLock, *)
(* isLockStale, releaseFileLock, withLock, save and create, one action for *)
(* each system call (or read) another process can come between.  Each      *)
(* process holds one open instance of the same file.  What happens to the  *)
(* snapshot itself (temporary file, backup) is the atomic step Replace.    *)
(*                                                                         *)
(* Time is abstract: a retry costs at least LOCK_RETRY_INTERVAL_MS, so     *)
(* lockTimeoutMs allows p at most MaxTries[p] of them, and may end earlier;  *)
(* a process that lives writes its metadata well within staleLockMs, so    *)
(* only a dead owner's unfinished lock file gets that old.                 *)
(*                                                                         *)
(* Operators that vary a neighbour by a plausible slip (RetryForever beside *)
(* Retry) serve the sensitivity check of the properties only.              *)
(***************************************************************************)
EXTENDS Naturals

CONSTANTS Procs,      \* processes that use the file, on one host
          MayCrash,   \* those that may die at any point
          MaxTries,   \* MaxTries[p]: bound on the retries within p's lockTimeoutMs
          MaxUpdates  \* bound on the updates a process makes

ASSUME FileLockAssumption ==
  MayCrash \subseteq Procs /\ MaxTries \in [Procs -> Nat] /\ MaxUpdates \in Nat

VARIABLES lock,    \* the lock file, as a set of at most one
          pc,      \* pc[p]: where process p is in its open or save
          op,      \* op[p]: "open" or "save"
          tries,   \* tries[p]: retries of the current acquireFileLock
          alive,   \* alive[p]: what kill(pid, 0) tells
          file,    \* the snapshot on disk
          memory,  \* memory[p]: the snapshot in memory
          saved,   \* updates whose save returned
          raced    \* history: the lock file of a live process was removed

vars == <<lock, pc, op, tries, alive, file, memory, saved, raced>>

Updates == Procs \X (1..MaxUpdates)
Snapshot == [revision : Nat, updates : SUBSET Updates]
LockFile == [owner : Procs, written : BOOLEAN]

TypeOK ==
  /\ lock = {} \/ \E l \in LockFile : lock = {l}
  /\ pc \in [Procs -> {"idle", "create", "write", "inspect", "steal", "critical",
                       "replace", "release", "unlink"}]
  /\ op \in [Procs -> {"open", "save"}]
  /\ tries \in [Procs -> Nat] /\ \A p \in Procs : tries[p] <= MaxTries[p]
  /\ alive \in [Procs -> BOOLEAN]
  /\ file \in Snapshot
  /\ memory \in [Procs -> Snapshot]
  /\ saved \subseteq Updates /\ raced \in BOOLEAN

Init ==
  /\ lock = {}
  /\ pc = [p \in Procs |-> "idle"]
  /\ op = [p \in Procs |-> "open"]
  /\ tries = [p \in Procs |-> 0]
  /\ alive = [p \in Procs |-> TRUE]
  /\ file = [revision |-> 0, updates |-> {}]
  /\ memory = [p \in Procs |-> file]
  /\ saved = {} /\ raced = FALSE

Goto(p, from, to) == alive[p] /\ pc[p] = from /\ pc' = [pc EXCEPT ![p] = to]

------------------------------------------------------------------------------
(* create() and save(), up to acquireFileLock.                             *)

Open(p) ==
  /\ Goto(p, "idle", "create")
  /\ op' = [op EXCEPT ![p] = "open"]
  /\ tries' = [tries EXCEPT ![p] = 0]
  /\ UNCHANGED <<lock, alive, file, memory, saved, raced>>

(* An operation that persists at once, reservePreKey say, and its save().  *)
Save(p) ==
  /\ Goto(p, "idle", "create")
  /\ op' = [op EXCEPT ![p] = "save"]
  /\ tries' = [tries EXCEPT ![p] = 0]
  /\ \E n \in 1..MaxUpdates :
       /\ <<p, n>> \notin memory[p].updates \cup file.updates
       /\ memory' = [memory EXCEPT ![p].updates = @ \cup {<<p, n>>}]
  /\ UNCHANGED <<lock, alive, file, saved, raced>>

------------------------------------------------------------------------------
(* acquireFileLock: writeFileSync(lockPath, ..., "wx") creates the file and *)
(* then writes it.                                                         *)

CreateLockShared(p) ==
  /\ Goto(p, "create", "write")
  /\ lock' = {[owner |-> p, written |-> FALSE]}
  /\ UNCHANGED <<op, tries, alive, file, memory, saved, raced>>

CreateLock(p) ==
  /\ Goto(p, "create", "write")
  /\ lock = {}
  /\ lock' = {[owner |-> p, written |-> FALSE]}
  /\ UNCHANGED <<op, tries, alive, file, memory, saved, raced>>

(* Metadata written to a lock file that somebody removed is not seen.      *)
WriteMetadata(p) ==
  /\ Goto(p, "write", "critical")
  /\ lock' = {IF l.owner = p THEN [l EXCEPT !.written = TRUE] ELSE l : l \in lock}
  /\ UNCHANGED <<op, tries, alive, file, memory, saved, raced>>

(* Removing the lock file, whoever has put it there meanwhile.             *)
RemoveLock(p) ==
  /\ lock' = {}
  /\ raced' = (raced \/ \E l \in lock : l.owner # p /\ alive[l.owner])

(* ENOSPC and the like: the half-written file is removed, the error thrown. *)
(* An error that is not EEXIST before there is a file (EMFILE) is left out: *)
(* the same line then removes whatever file there is, another way to race. *)
WriteMetadataFails(p) ==
  /\ Goto(p, "write", "idle")
  /\ RemoveLock(p)
  /\ UNCHANGED <<op, tries, alive, file, memory, saved>>

LockExists(p) ==
  /\ Goto(p, "create", "inspect")
  /\ lock # {}
  /\ UNCHANGED <<lock, op, tries, alive, file, memory, saved, raced>>

IsLockStaleUnfinished(p) == \E l \in lock : ~l.written /\ ~alive[l.owner]

(* isLockStale: the owner is dead.  The metadata of an unfinished file     *)
(* cannot be read; its age counts then.  A file that is gone is not stale. *)
IsLockStale(p) == \E l \in lock : ~alive[l.owner]

JudgeStale(p) ==
  /\ IsLockStale(p)
  /\ Goto(p, "inspect", "steal")
  /\ UNCHANGED <<lock, op, tries, alive, file, memory, saved, raced>>

RemoveStaleLock(p) ==
  /\ Goto(p, "steal", "create")
  /\ RemoveLock(p)
  /\ UNCHANGED <<op, tries, alive, file, memory, saved>>

(* An unfinished file of a dead owner is not old enough yet.               *)
MayLookFresh(p) == ~IsLockStale(p) \/ \E l \in lock : ~l.written

RetryForever(p) ==
  /\ MayLookFresh(p)
  /\ Goto(p, "inspect", "create")
  /\ UNCHANGED <<lock, op, tries, alive, file, memory, saved, raced>>

RetryPastDeadline(p) ==
  /\ MayLookFresh(p)
  /\ tries' = [tries EXCEPT ![p] = @ + 1]
  /\ Goto(p, "inspect", "create")
  /\ UNCHANGED <<lock, op, alive, file, memory, saved, raced>>

Retry(p) ==
  /\ MayLookFresh(p)
  /\ tries[p] < MaxTries[p]
  /\ tries' = [tries EXCEPT ![p] = @ + 1]
  /\ Goto(p, "inspect", "create")
  /\ UNCHANGED <<lock, op, alive, file, memory, saved, raced>>

(* The deadline has passed: FileSignalStorageLockError.                    *)
GiveUp(p) ==
  /\ MayLookFresh(p)
  /\ Goto(p, "inspect", "idle")
  /\ UNCHANGED <<lock, op, tries, alive, file, memory, saved, raced>>

------------------------------------------------------------------------------
(* The action under the lock.                                              *)

LoadSnapshot(p) ==
  /\ op[p] = "open"
  /\ Goto(p, "critical", "release")
  /\ memory' = [memory EXCEPT ![p] = file]
  /\ UNCHANGED <<lock, op, tries, alive, file, saved, raced>>

AssertRevisionCurrent(p) ==
  /\ op[p] = "save"
  /\ file.revision = memory[p].revision
  /\ Goto(p, "critical", "replace")
  /\ UNCHANGED <<lock, op, tries, alive, file, memory, saved, raced>>

(* FileSignalStorageConflictError; the update stays in memory, unsaved.    *)
Conflict(p) ==
  /\ op[p] = "save"
  /\ file.revision # memory[p].revision
  /\ Goto(p, "critical", "release")
  /\ UNCHANGED <<lock, op, tries, alive, file, memory, saved, raced>>

Replace(p) ==
  /\ Goto(p, "replace", "release")
  /\ file' = [memory[p] EXCEPT !.revision = @ + 1]
  /\ memory' = [memory EXCEPT ![p].revision = @ + 1]
  /\ saved' = saved \cup memory[p].updates
  /\ UNCHANGED <<lock, op, tries, alive, raced>>

------------------------------------------------------------------------------
(* releaseFileLock: remove the file unless it carries a readable token of   *)
(* somebody else.                                                          *)

OwnsLockFile(p) == \A l \in lock : l.written => l.owner = p

Release(p) ==
  /\ OwnsLockFile(p)
  /\ Goto(p, "release", "unlink")
  /\ UNCHANGED <<lock, op, tries, alive, file, memory, saved, raced>>

Unlink(p) ==
  /\ Goto(p, "unlink", "idle")
  /\ RemoveLock(p)
  /\ UNCHANGED <<op, tries, alive, file, memory, saved>>

LeaveForeignLock(p) ==
  /\ ~OwnsLockFile(p)
  /\ Goto(p, "release", "idle")
  /\ UNCHANGED <<lock, op, tries, alive, file, memory, saved, raced>>

Crash(p) ==
  /\ p \in MayCrash /\ alive[p]
  /\ alive' = [alive EXCEPT ![p] = FALSE]
  /\ UNCHANGED <<lock, pc, op, tries, file, memory, saved, raced>>

------------------------------------------------------------------------------
Acquire(p) ==
  \/ CreateLock(p) \/ WriteMetadata(p) \/ WriteMetadataFails(p) \/ LockExists(p)
  \/ JudgeStale(p) \/ RemoveStaleLock(p) \/ Retry(p) \/ GiveUp(p)

UnderLock(p) ==
  LoadSnapshot(p) \/ AssertRevisionCurrent(p) \/ Conflict(p) \/ Replace(p)

ReleaseLock(p) == Release(p) \/ Unlink(p) \/ LeaveForeignLock(p)

(* What p does on its own once it has started an open or a save.           *)
Proceed(p) == Acquire(p) \/ UnderLock(p) \/ ReleaseLock(p)

Next == \E p \in Procs : Open(p) \/ Save(p) \/ Proceed(p) \/ Crash(p)

(* The calls are synchronous: a process that lives goes on with its own.   *)
Spec == Init /\ [][Next]_vars /\ \A p \in Procs : WF_vars(Proceed(p))

------------------------------------------------------------------------------
(* Properties.                                                             *)

(* README.md:123: of two instances that loaded the same file, the one that  *)
(* saves second gets an error instead of overwriting: what a save has       *)
(* acknowledged stays in the file.                                          *)
SavedIsKept == saved \subseteq file.updates

(* Under the lock, load and save are atomic operations on one register, and *)
(* nobody saves on top of a revision that is not the one on disk, as long  *)
(* as no process removes the lock file of a live one.                      *)
Store == INSTANCE SnapshotStore WITH Instances <- Procs

StoreUntilRaced ==
  Store!SSInit /\ [][raced' \/ Store!SSNext]_<<file, memory, saved>>

(* Every open and every save ends, with a result or an error, whatever the  *)
(* other processes do: the wait for the lock has a deadline.                *)
EveryCallReturns == \A p \in Procs : pc[p] # "idle" ~> pc[p] = "idle" \/ ~alive[p]

(* README.md:123: the lock of a process that no longer exists is detected   *)
(* and removed by whoever wants it next.                                    *)
DeadOwnerIsEvicted ==
  \A p \in Procs \ MayCrash : \A q \in MayCrash :
    LET held == \E l \in lock : l.owner = q /\ l.written /\ ~alive[q]
    IN  pc[p] = "create" /\ held ~> ~held
==============================================================================
