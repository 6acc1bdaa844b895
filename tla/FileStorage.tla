------------------------------ MODULE FileStorage ------------------------------
(***************************************************************************)
(* A FileSignalStorage in memory and on disk: what file-storage.ts does to *)
(* the snapshot and its backup, one file operation at a time, when calls    *)
(* fail, processes die and the snapshot is damaged; and when the changes in *)
(* memory are saved, at once or after the debounce.                        *)
(*                                                                         *)
(* Each process has at most one instance open.  create() and save() are    *)
(* synchronous and run under the lock file, which excludes here as it      *)
(* should (module FileLock has its exceptions); the lock of a dead process *)
(* is removed.  A snapshot is its revision and the changes in it, the first *)
(* of which is the identity.  A temporary file is never read, so it is the *)
(* snapshot about to be renamed.  A damaged file is no JSON any more, and    *)
(* every file is encrypted; plain files and old formats are left out.      *)
(***************************************************************************)
EXTENDS Naturals, FiniteSetsExt

CONSTANTS Procs,           \* the processes that use the file
          BackupEnabled,   \* the option backup
          MaxChanges,      \* bound on the changes made by all of them
          DamageAtRest,    \* whether damage happens only while nobody has it open
          MaxRotations,    \* bound on the rotations of the encryption key
          MaxCorruptions   \* bound on the damages to the snapshot

ASSUME FileStorageAssumption ==
  /\ {BackupEnabled, DamageAtRest} \subseteq BOOLEAN
  /\ {MaxChanges, MaxRotations, MaxCorruptions} \subseteq Nat

VARIABLES main,         \* the file, as a set of at most one
          backup,       \* the file with .bak, likewise
          pc,           \* pc[p]: "absent", "open", or its place in create or save
          op,           \* op[p]: who called the save
          memory,       \* memory[p]: revision and changes in memory
          pending,      \* pending[p]: the reservation being saved
          dirty,        \* dirty[p]
          key,          \* key[p]: encryptionKey
          timer,        \* timer[p]: whether a debounced save is scheduled
          given,        \* the keys the application may give to create()
          rotations,    \* calls of rotateEncryptionKey, each with a new key
          next,         \* the next change
          saved,        \* changes a save has acknowledged, damage apart
          refused,      \* reservations whose call failed
          reported,     \* reported[p]: the last save failed and said so
          corruptions   \* how often the snapshot was damaged

files == <<main, backup>>
instance == <<op, memory, pending, dirty, key, timer>>
history == <<given, rotations, next, saved, refused, reported, corruptions>>
vars == <<files, pc, instance, history>>

Changes == 0..MaxChanges
Keys == 0..MaxRotations
Memory == [revision : Nat, changes : SUBSET Changes]
File == [revision : Nat, changes : SUBSET Changes, key : Keys, whole : BOOLEAN]
AtMostOne(S) == {{}} \cup {{x} : x \in S}

Operations == {"create", "timer", "flush", "close", "persist", "reserve", "rotate"}

TypeOK ==
  /\ \A f \in {main, backup} : f = {} \/ \E x \in f : f = {x} /\ x \in File
  /\ pc \in [Procs -> {"absent", "open", "opening", "restore", "copy",
                       "save", "aside", "swap"}]
  /\ op \in [Procs -> Operations]
  /\ memory \in [Procs -> Memory]
  /\ pending \in [Procs -> AtMostOne(Changes)]
  /\ dirty \in [Procs -> BOOLEAN] /\ timer \in [Procs -> BOOLEAN]
  /\ rotations \in Keys /\ key \in [Procs -> Keys] /\ given \in (SUBSET Keys) \ {{}}
  /\ next \in 0..(MaxChanges + 1)
  /\ saved \subseteq Changes /\ refused \subseteq Changes
  /\ reported \in [Procs -> BOOLEAN]
  /\ corruptions \in 0..MaxCorruptions

Readable(f, k) == \E x \in f : x.whole /\ x.key = k

(* The snapshot that create() loads with a key, as a set of at most one.    *)
Loadable(k) ==
  IF \E x \in main : x.whole THEN {x \in main : x.key = k}
  ELSE {x \in backup : x.whole /\ x.key = k}

Locked == \E p \in Procs : pc[p] \notin {"absent", "open"}

Init ==
  /\ main = {} /\ backup = {}
  /\ pc = [p \in Procs |-> "absent"]
  /\ op = [p \in Procs |-> "create"]
  /\ memory = [p \in Procs |-> [revision |-> 0, changes |-> {}]]
  /\ pending = [p \in Procs |-> {}]
  /\ dirty = [p \in Procs |-> FALSE] /\ timer = [p \in Procs |-> FALSE]
  /\ key = [p \in Procs |-> 0] /\ given = {0} /\ rotations = 0
  /\ next = 0 /\ saved = {} /\ refused = {}
  /\ reported = [p \in Procs |-> FALSE]
  /\ corruptions = 0

------------------------------------------------------------------------------
(* create().                                                               *)

Open(p) ==
  /\ pc[p] = "absent" /\ ~Locked
  /\ pc' = [pc EXCEPT ![p] = "opening"]
  /\ \E k \in given : key' = [key EXCEPT ![p] = k]
  /\ UNCHANGED <<files, op, memory, pending, dirty, timer, history>>

(* A new instance with the snapshot; nothing is left of the one before it,  *)
(* and the application knows its key.                                      *)
ApplySnapshot(p, x) ==
  /\ memory' = [memory EXCEPT ![p] = [revision |-> x.revision, changes |-> x.changes]]
  /\ pc' = [pc EXCEPT ![p] = "open"]
  /\ dirty' = [dirty EXCEPT ![p] = FALSE]
  /\ timer' = [timer EXCEPT ![p] = FALSE]
  /\ reported' = [reported EXCEPT ![p] = FALSE]
  /\ given' = {x.key}
  /\ UNCHANGED <<backup, op, pending, key, rotations, next, saved, refused, corruptions>>

Load(p) ==
  /\ pc[p] = "opening"
  /\ Readable(main, key[p]) /\ \E x \in main : ApplySnapshot(p, x)
  /\ UNCHANGED main

(* The file is damaged, and moved aside, or missing; the backup will do.   *)
StartRestore(p) ==
  /\ pc[p] = "opening"
  /\ ~\E x \in main : x.whole
  /\ BackupEnabled /\ Readable(backup, key[p])
  /\ main' = {}
  /\ pc' = [pc EXCEPT ![p] = "restore"]
  /\ UNCHANGED <<backup, instance, history>>

(* copyFileSync fills the file bit by bit.                                 *)
CopyPart(p) ==
  /\ pc[p] = "restore"
  /\ main' = {[x EXCEPT !.whole = FALSE] : x \in backup}
  /\ pc' = [pc EXCEPT ![p] = "copy"]
  /\ UNCHANGED <<backup, instance, history>>

CopyRest(p) ==
  /\ pc[p] = "copy"
  /\ main' = backup
  /\ \E x \in backup : ApplySnapshot(p, x)

(* create() throws: the file has another key, there is nothing to restore   *)
(* it from, or restoring failed.                                           *)
OpenFails(p) ==
  /\ \/ pc[p] = "opening" /\ \E x \in main : x.whole /\ x.key # key[p]
     \/ pc[p] = "opening" /\ ~\E x \in main : x.whole
                          /\ ~(BackupEnabled /\ Readable(backup, key[p]))
                          /\ (main # {} \/ (BackupEnabled /\ backup # {}))
     \/ pc[p] \in {"restore", "copy"}
  /\ pc' = [pc EXCEPT ![p] = "absent"]
  /\ UNCHANGED <<files, instance, history>>

(* Neither file nor backup: a new identity, saved at once.                 *)
CreateNew(p) ==
  /\ pc[p] = "opening"
  /\ main = {} /\ (BackupEnabled => backup = {})
  /\ next <= MaxChanges
  /\ memory' = [memory EXCEPT ![p] = [revision |-> 0, changes |-> {next}]]
  /\ next' = next + 1
  /\ dirty' = [dirty EXCEPT ![p] = TRUE]
  /\ reported' = [reported EXCEPT ![p] = FALSE]
  /\ op' = [op EXCEPT ![p] = "create"]
  /\ pc' = [pc EXCEPT ![p] = "save"]
  /\ UNCHANGED <<files, pending, key, timer, given, rotations, saved, refused, corruptions>>

------------------------------------------------------------------------------
(* saveUnlocked(), and how it fails.                                       *)

MovesAside == BackupEnabled /\ main # {}

RemoveBackup(p) ==
  /\ pc[p] = "save" /\ MovesAside
  /\ backup' = {}
  /\ pc' = [pc EXCEPT ![p] = "aside"]
  /\ UNCHANGED <<main, instance, history>>

RemoveMain(p) ==
  /\ pc[p] = "aside"
  /\ main' = {}
  /\ pc' = [pc EXCEPT ![p] = "swap"]
  /\ UNCHANGED <<backup, instance, history>>

MoveAside(p) ==
  /\ pc[p] = "aside"
  /\ backup' = main
  /\ main' = {}
  /\ pc' = [pc EXCEPT ![p] = "swap"]
  /\ UNCHANGED <<instance, history>>

(* The key of the file: rotateEncryptionKey sets it, and back if the save   *)
(* fails; here it is the greatest of those given, and takes effect late.   *)
KeyOf(p) == IF op[p] = "rotate" THEN Max(given) ELSE key[p]

(* The rename of the temporary file, and what the callers do on success.   *)
SwapIn(p) ==
  /\ pc[p] = "swap" \/ (pc[p] = "save" /\ ~MovesAside)
  /\ main' = {[revision |-> memory[p].revision + 1, changes |-> memory[p].changes,
               key |-> KeyOf(p), whole |-> TRUE]}
  /\ key' = [key EXCEPT ![p] = KeyOf(p)]
  /\ given' = IF op[p] = "rotate" THEN {KeyOf(p)} ELSE given
  /\ memory' = [memory EXCEPT ![p].revision = @ + 1]
  /\ dirty' = [dirty EXCEPT ![p] = FALSE]
  /\ pending' = [pending EXCEPT ![p] = {}]
  /\ saved' = saved \cup memory[p].changes
  /\ reported' = [reported EXCEPT ![p] = FALSE]
  /\ pc' = [pc EXCEPT ![p] = IF op[p] = "close" THEN "absent" ELSE "open"]
  /\ UNCHANGED <<backup, op, timer, rotations, next, refused, corruptions>>

ForgetNothing(p) ==
  /\ refused' = refused \cup pending[p]
  /\ UNCHANGED memory

TakeBackRevision(p) ==
  /\ memory' = [memory EXCEPT ![p].changes = @ \ pending[p], ![p].revision = @ - 1]
  /\ refused' = refused \cup pending[p]

(* reservePreKey and releasePreKey take back what they could not save.     *)
TakeBack(p) ==
  /\ memory' = [memory EXCEPT ![p].changes = @ \ pending[p]]
  /\ refused' = refused \cup pending[p]

(* What a failed save leaves to its caller; dirty stays.                   *)
Fail(p) ==
  /\ TakeBack(p)
  /\ pending' = [pending EXCEPT ![p] = {}]
  /\ reported' = [reported EXCEPT ![p] = TRUE]
  /\ pc' = [pc EXCEPT ![p] = IF op[p] = "create" THEN "absent" ELSE "open"]
  /\ given' = IF op[p] = "rotate" THEN given \ {KeyOf(p)} ELSE given
  /\ UNCHANGED <<op, key, timer, rotations, next, saved, corruptions>>

FailClean(p) == Fail(p) /\ dirty' = [dirty EXCEPT ![p] = FALSE]

FailDirty(p) == Fail(p) /\ UNCHANGED dirty

(* A file operation throws.  A file already moved aside is put back, unless *)
(* that throws as well.                                                    *)
SaveFails(p) ==
  /\ pc[p] \in {"save", "aside", "swap"}
  /\ \/ UNCHANGED files
     \/ /\ BackupEnabled /\ main = {} /\ backup # {}
        /\ main' = backup /\ backup' = {}
  /\ FailDirty(p)

------------------------------------------------------------------------------
(* save() under the lock, by whoever calls it.                             *)

RevisionReached(p) ==
  main # {} => \E x \in main : x.whole /\ x.key = key[p] /\ x.revision >= memory[p].revision

RevisionCurrent(p) ==
  IF main = {} THEN memory[p].revision = 0
  ELSE \E x \in main : x.whole /\ x.key = key[p] /\ x.revision = memory[p].revision

EnterSave(p, o) ==
  /\ ~Locked /\ RevisionCurrent(p)
  /\ op' = [op EXCEPT ![p] = o]
  /\ pc' = [pc EXCEPT ![p] = "save"]

(* The lock is not to be had in time, or the revision is not the one on    *)
(* disk: FileSignalStorageLockError, FileSignalStorageConflictError.       *)
RefuseSave(p) ==
  /\ Locked \/ ~RevisionCurrent(p)
  /\ reported' = [reported EXCEPT ![p] = TRUE]

(* Every operation that changes something a message needs: a session, a    *)
(* sender key, an identity, a new prekey.  scheduleSave.                   *)
ScheduleSaveOnce(p) == timer' = [timer EXCEPT ![p] = @ \/ ~dirty[p]]

ScheduleSave(p) == timer' = [timer EXCEPT ![p] = TRUE]

Change(p) ==
  /\ pc[p] = "open" /\ next <= MaxChanges
  /\ memory' = [memory EXCEPT ![p].changes = @ \cup {next}]
  /\ next' = next + 1
  /\ dirty' = [dirty EXCEPT ![p] = TRUE]
  /\ ScheduleSave(p)
  /\ reported' = [reported EXCEPT ![p] = FALSE]
  /\ UNCHANGED <<files, pc, op, pending, key, given, rotations, saved, refused, corruptions>>

(* The timer, flush() and close(): save what is dirty; a close that fails   *)
(* leaves the instance open.                                               *)
SaveDirty(p, o) ==
  /\ pc[p] = "open"
  /\ o = "timer" => timer[p]
  /\ timer' = [timer EXCEPT ![p] = FALSE]
  /\ \/ /\ dirty[p] /\ EnterSave(p, o)
        /\ UNCHANGED reported
     \/ /\ dirty[p] /\ RefuseSave(p)
        /\ UNCHANGED <<pc, op>>
     \/ /\ ~dirty[p]
        /\ pc' = [pc EXCEPT ![p] = IF o = "close" THEN "absent" ELSE "open"]
        /\ UNCHANGED <<op, reported>>
  /\ UNCHANGED <<files, memory, pending, dirty, key, given, rotations, next, saved, refused, corruptions>>

(* removePreKey, setNextPreKeyId, storeSignedPreKey: saved at once, and     *)
(* kept in memory when that fails.                                         *)
Persist(p) ==
  /\ pc[p] = "open" /\ next <= MaxChanges
  /\ memory' = [memory EXCEPT ![p].changes = @ \cup {next}]
  /\ next' = next + 1
  /\ dirty' = [dirty EXCEPT ![p] = TRUE]
  /\ \/ EnterSave(p, "persist") /\ UNCHANGED reported
     \/ RefuseSave(p) /\ UNCHANGED <<pc, op>>
  /\ UNCHANGED <<files, pending, key, timer, given, rotations, saved, refused, corruptions>>

(* reservePreKey, releasePreKey: saved at once, or taken back.             *)
ReservePreKey(p) ==
  /\ pc[p] = "open" /\ next <= MaxChanges
  /\ next' = next + 1
  /\ dirty' = [dirty EXCEPT ![p] = TRUE]
  /\ \/ /\ EnterSave(p, "reserve")
        /\ memory' = [memory EXCEPT ![p].changes = @ \cup {next}]
        /\ pending' = [pending EXCEPT ![p] = {next}]
        /\ UNCHANGED <<refused, reported>>
     \/ /\ RefuseSave(p)
        /\ refused' = refused \cup {next}
        /\ UNCHANGED <<pc, op, memory, pending>>
  /\ UNCHANGED <<files, key, timer, given, rotations, saved, corruptions>>

(* rotateEncryptionKey: a save, dirty or not, with a key not used before.   *)
(* Until it returns, the application does not know which key the file has. *)
RotateEncryptionKey(p) ==
  /\ pc[p] = "open" /\ rotations < MaxRotations
  /\ rotations' = rotations + 1
  /\ dirty' = [dirty EXCEPT ![p] = TRUE]
  /\ \/ /\ EnterSave(p, "rotate")
        /\ given' = given \cup {rotations'}
        /\ UNCHANGED reported
     \/ /\ RefuseSave(p)
        /\ UNCHANGED <<pc, op, given>>
  /\ UNCHANGED <<files, memory, pending, key, timer, next, saved, refused, corruptions>>

------------------------------------------------------------------------------
(* The environment.                                                        *)

Crash(p) ==
  /\ pc[p] # "absent"
  /\ pc' = [pc EXCEPT ![p] = "absent"]
  /\ pending' = [pending EXCEPT ![p] = {}]
  /\ dirty' = [dirty EXCEPT ![p] = FALSE]
  /\ timer' = [timer EXCEPT ![p] = FALSE]
  /\ UNCHANGED <<files, op, memory, key, history>>

(* The snapshot is damaged; what no backup of the current key has is        *)
(* excused.                                                                *)
Corrupt ==
  /\ corruptions < MaxCorruptions /\ ~Locked /\ \E x \in main : x.whole
  /\ DamageAtRest => \A p \in Procs : pc[p] = "absent"
  /\ corruptions' = corruptions + 1
  /\ main' = {[x EXCEPT !.whole = FALSE] : x \in main}
  /\ saved' = saved \cap UNION {x.changes : x \in {y \in backup : y.key \in given}}
  /\ UNCHANGED <<backup, pc, instance, given, rotations, next, refused, reported>>

Create(p) ==
  \/ Open(p) \/ Load(p) \/ StartRestore(p) \/ CopyPart(p) \/ CopyRest(p)
  \/ OpenFails(p) \/ CreateNew(p)

SaveUnlocked(p) == RemoveBackup(p) \/ MoveAside(p) \/ SwapIn(p) \/ SaveFails(p)

Next ==
  \/ \E p \in Procs :
       \/ Create(p) \/ SaveUnlocked(p)
       \/ Change(p) \/ Persist(p) \/ ReservePreKey(p) \/ RotateEncryptionKey(p)
       \/ \E o \in {"timer", "flush", "close"} : SaveDirty(p, o)
       \/ Crash(p)
  \/ Corrupt

Spec == Init /\ [][Next]_vars

------------------------------------------------------------------------------
(* Properties.                                                             *)

(* What a save has acknowledged is in the snapshot that the next create()   *)
(* loads, through crashes and failures at any point of a save or a          *)
(* recovery, and whatever other instances save (README.md:123).             *)
SavedIsKept == \E k \in given : saved \subseteq UNION {x.changes : x \in Loadable(k)}

(* A reservation that was reported as failed never comes to light later,    *)
(* with the next save of the same instance or after a restart.              *)
RefusedIsForgotten ==
  /\ \A k \in given : \A x \in Loadable(k) : x.changes \cap refused = {}
  /\ \A p \in Procs : pc[p] = "open" => memory[p].changes \cap refused = {}

(* An instance with a change that was not saved is dirty, or a flush() and  *)
(* a close() would return without saving it; and it has a debounced save   *)
(* ahead, unless a save failed since and the application was told.         *)
UnsavedIsScheduled ==
  \A p \in Procs : pc[p] = "open" =>
    /\ ~dirty[p] => memory[p].changes \subseteq saved
    /\ dirty[p] => timer[p] \/ reported[p]
==============================================================================
