--------------------------- MODULE FileStorageProofs ---------------------------
(***************************************************************************)
(* Theorems about FileStorage, for any processes, changes, rotations and   *)
(* damages, with backups or without.                                       *)
(*                                                                         *)
(* The argument: one process at a time works on the files, and it knows     *)
(* their key.  A change in a file was never refused: what is taken back is  *)
(* new and known to one process only.  If damage happens at rest, the       *)
(* snapshot, or the backup while there is no snapshot that is whole, has    *)
(* all that was saved; an instance is behind it, or has all of it, and only *)
(* one that has all of it can save.                                        *)
(***************************************************************************)
EXTENDS FileStorage, WellFoundedInduction, TLAPS

Busy(p) == pc[p] \notin {"absent", "open"}
Saving(p) == pc[p] \in {"save", "aside", "swap"}
Live(p) == pc[p] = "open" \/ Saving(p)
Creating(p) == Saving(p) /\ op[p] = "create"
Rotating(p) == Saving(p) /\ op[p] = "rotate"

Whole == \E x \in main : x.whole

(* What create() goes by: the snapshot or else the backup.                 *)
Latest == IF Whole THEN main ELSE backup

Alone == \A p, q \in Procs : Busy(p) /\ Busy(q) => p = q

(* The files at each place of a save or a recovery.                        *)
PlaceInv(p) ==
  /\ pc[p] \in {"restore", "copy"} => ~Whole
  /\ pc[p] \in {"save", "aside"} => \A x \in main : x.whole
  /\ pc[p] = "aside" => main # {} /\ backup = {} /\ BackupEnabled
  /\ pc[p] = "swap" => main = {}
  /\ Live(p) /\ ~Creating(p) => memory[p].revision >= 1
  /\ Creating(p) => memory[p].revision = 0 /\ main = {} /\ backup = {} /\ pc[p] = "save"

FileInv ==
  /\ \A x \in main \cup backup : x.revision >= 1
  /\ \A x \in backup : x.whole
  /\ backup # {} => BackupEnabled
  /\ \A p \in Procs : PlaceInv(p)

(* The application has the key of the snapshot, and a new key is a new one. *)
HasKey(p) ==
  /\ key[p] <= rotations
  /\ Busy(p) => key[p] \in given
  /\ pc[p] \in {"restore", "copy"} => \A x \in backup : x.key = key[p]
  /\ Rotating(p) => key[p] < Max(given) /\ \A x \in main \cup backup : x.key < Max(given)

KeyInv ==
  /\ \A k \in given : k <= rotations
  /\ \A x \in main \cup backup : x.key <= rotations
  /\ \A x \in main : x.whole => x.key \in given
  /\ main = {} => \A x \in backup : x.key \in given
  /\ \A p \in Procs : HasKey(p)

Known(changes) == \A c \in changes : c < next

(* A reservation under way is known to its process only, and one that was   *)
(* refused to none.                                                        *)
Fresh(p) ==
  /\ Live(p) => Known(memory[p].changes) /\ memory[p].changes \cap refused = {}
  /\ pending[p] # {} => Saving(p)
  /\ Known(pending[p])
  /\ \A x \in main \cup backup : pending[p] \cap x.changes = {}

Private(p, q) == Live(q) => pending[p] \cap memory[q].changes = {}

FreshInv ==
  /\ Known(refused)
  /\ \A x \in main \cup backup : Known(x.changes) /\ x.changes \cap refused = {}
  /\ \A p \in Procs : Fresh(p)
  /\ \A p \in Procs : \A q \in Procs \ {p} : Private(p, q)

Scheduled(p) ==
  /\ Saving(p) => dirty[p]
  /\ pc[p] = "open" /\ dirty[p] => timer[p] \/ reported[p]

ScheduleInv == \A p \in Procs : Scheduled(p)

Ahead(x, p) ==
  /\ memory[p].revision <= x.revision
  /\ memory[p].revision = x.revision => x.changes \subseteq memory[p].changes

(* What is saved, and who may save.                                        *)
Kept(p) ==
  /\ Live(p) /\ ~Creating(p) => \E x \in Latest : Ahead(x, p)
  /\ Saving(p) => saved \subseteq memory[p].changes
  /\ Saving(p) => \A x \in Latest : x.revision = memory[p].revision
  /\ pc[p] = "open" /\ ~dirty[p] => memory[p].changes \subseteq saved

KeptInv ==
  /\ saved = UNION {x.changes : x \in {y \in Latest : y.key \in given}}
  /\ \A x \in backup : x.key \in given => x.changes \subseteq saved
  /\ \A p \in Procs : Kept(p)

Used == main # {} => Procs # {}

Inv == Used /\ Alone /\ FileInv /\ KeyInv /\ FreshInv /\ ScheduleInv /\ (DamageAtRest => KeptInv)

IInv == TypeOK /\ Inv

Step(p) ==
  \/ Open(p) \/ Load(p) \/ StartRestore(p) \/ CopyPart(p) \/ CopyRest(p)
  \/ OpenFails(p) \/ CreateNew(p)
  \/ RemoveBackup(p) \/ MoveAside(p) \/ SwapIn(p) \/ SaveFails(p)
  \/ Change(p) \/ Persist(p) \/ ReservePreKey(p) \/ RotateEncryptionKey(p)
  \/ \E o \in {"timer", "flush", "close"} : SaveDirty(p, o)
  \/ Crash(p)
  \/ Corrupt

------------------------------------------------------------------------------
(* Keys and types.                                                         *)

LEMMA LeastNat ==
  ASSUME NEW S \in SUBSET Nat, S # {}
  PROVE  \E n \in S : \A m \in S : n <= m
<1> DEFINE R == {ss \in Nat \X Nat : ss[1] < ss[2]}
<1>1. IsWellFoundedOn(R, Nat)
  BY NatLessThanWellFounded DEF OpToRel
<1>2. PICK n \in S : \A m \in S : <<m, n>> \notin R
  <2> HIDE DEF R
  <2>1. QED
    BY <1>1, WFMin
<1>3. ASSUME NEW m \in S PROVE n <= m
  <2>1. m \in Nat /\ n \in Nat
    OBVIOUS
  <2>2. CASE m < n
    <3>1. <<m, n>> \in R
      BY <2>1, <2>2
    <3>2. QED
      BY <3>1, <1>2
  <2>3. CASE ~(m < n)
    BY <2>1, <2>3
  <2>4. QED
    BY <2>2, <2>3
<1>4. QED
  BY <1>3

LEMMA GreatestKey ==
  ASSUME NEW S \in SUBSET Keys, S # {}
  PROVE  Max(S) \in S /\ Max(S) \in Keys /\ \A k \in S : k <= Max(S)
<1>1. MaxRotations \in Nat
  BY FileStorageAssumption
<1> DEFINE D == {n \in Nat : MaxRotations - n \in S}
<1>2. \A k \in S : k \in Nat /\ k <= MaxRotations
  BY <1>1 DEF Keys
<1>3. D \in SUBSET Nat /\ D # {}
  <2>1. PICK k \in S : TRUE
    OBVIOUS
  <2>2. MaxRotations - k \in D
    BY <2>1, <1>1, <1>2
  <2>3. QED
    BY <2>2
<1>4. PICK n \in D : \A m \in D : n <= m
  <2> HIDE DEF D
  <2>1. QED
    BY <1>3, LeastNat
<1>5. ASSUME NEW k \in S PROVE k <= MaxRotations - n
  <2>1. MaxRotations - k \in D
    BY <1>1, <1>2
  <2>2. n <= MaxRotations - k /\ n \in Nat /\ k \in Nat
    BY <2>1, <1>2, <1>4
  <2>3. QED
    BY <2>2, <1>1
<1>6. \E k \in S : \A j \in S : k >= j
  <2>1. MaxRotations - n \in S
    BY <1>4
  <2>2. QED
    BY <2>1, <1>1, <1>2, <1>5
<1>7. Max(S) \in S /\ \A j \in S : Max(S) >= j
  BY <1>6 DEF Max
<1>8. QED
  BY <1>1, <1>2, <1>7 DEF Keys

LEMMA Typing ==
  ASSUME TypeOK
  PROVE  /\ \A x \in main : x \in File /\ main = {x}
         /\ \A x \in backup : x \in File /\ backup = {x}
         /\ \A p \in Procs :
              /\ memory[p] \in Memory /\ memory[p].revision \in Nat
              /\ memory[p].changes \subseteq Changes
              /\ key[p] \in Keys /\ key[p] \in Nat
              /\ dirty[p] \in BOOLEAN /\ timer[p] \in BOOLEAN /\ reported[p] \in BOOLEAN
              /\ pending[p] \subseteq Changes
         /\ \A x \in main \cup backup :
              x.revision \in Nat /\ x.changes \subseteq Changes /\ x.key \in Nat
         /\ rotations \in Nat /\ given \subseteq Keys /\ given # {} /\ next \in Nat
<1>1. \A x \in main : x \in File /\ main = {x}
  BY DEF TypeOK
<1>2. \A x \in backup : x \in File /\ backup = {x}
  BY DEF TypeOK
<1>3. Keys \subseteq Nat /\ MaxChanges \in Nat
  BY FileStorageAssumption DEF Keys
<1>4. rotations \in Nat /\ given \subseteq Keys /\ given # {} /\ next \in Nat
  <2>1. rotations \in Keys /\ given \in (SUBSET Keys) \ {{}} /\ next \in 0..(MaxChanges + 1)
    BY DEF TypeOK
  <2>2. rotations \in Nat
    BY <2>1, <1>3, Zenon
  <2>3. next \in Nat
    BY <2>1, <1>3
  <2>4. QED
    BY <2>1, <2>2, <2>3
<1>5. \A x \in main \cup backup : x.revision \in Nat /\ x.changes \subseteq Changes /\ x.key \in Nat
  BY <1>1, <1>2, <1>3 DEF File
<1>6. ASSUME NEW p \in Procs
      PROVE  /\ memory[p] \in Memory /\ memory[p].revision \in Nat
             /\ memory[p].changes \subseteq Changes
             /\ key[p] \in Keys /\ key[p] \in Nat
             /\ dirty[p] \in BOOLEAN /\ timer[p] \in BOOLEAN /\ reported[p] \in BOOLEAN
  BY <1>3 DEF TypeOK, Memory
<1>7. ASSUME NEW p \in Procs PROVE pending[p] \subseteq Changes
  <2>1. pending[p] \in AtMostOne(Changes)
    BY DEF TypeOK
  <2>2. QED
    BY <2>1 DEF AtMostOne
<1>8. QED
  BY <1>1, <1>2, <1>4, <1>5, <1>6, <1>7

LEMMA NewKey ==
  ASSUME TypeOK, KeyInv, NEW p \in Procs, Rotating(p)
  PROVE  /\ KeyOf(p) = Max(given) /\ Max(given) \in given /\ Max(given) \in Keys
         /\ Max(given) \in Nat /\ Max(given) <= rotations
         /\ \A k \in given : k <= Max(given)
         /\ key[p] \in given /\ key[p] < Max(given) /\ key[p] # Max(given)
         /\ \A x \in main \cup backup : x.key < Max(given) /\ x.key # Max(given)
<1>1. Max(given) \in given /\ Max(given) \in Keys /\ \A k \in given : k <= Max(given)
  BY Typing, GreatestKey
<1>2. Max(given) \in Nat
  BY <1>1, FileStorageAssumption DEF Keys
<1>3. QED
  BY <1>1, <1>2, Typing DEF KeyInv, HasKey, KeyOf, Rotating, Saving, Busy

(* The key of a save.                                                      *)
LEMMA SaveKey ==
  ASSUME TypeOK, KeyInv, NEW p \in Procs, Saving(p)
  PROVE  KeyOf(p) \in given /\ KeyOf(p) \in Keys /\ KeyOf(p) <= rotations
<1>1. CASE op[p] = "rotate"
  BY <1>1, NewKey DEF Rotating
<1>2. CASE op[p] # "rotate"
  BY <1>2, Typing DEF KeyInv, HasKey, KeyOf, Saving, Busy
<1>3. QED
  BY <1>1, <1>2

------------------------------------------------------------------------------
(* What the steps do, a process at a time.                                 *)

Shape ==
  /\ pc \in [Procs -> {pc[p] : p \in Procs}] /\ op \in [Procs -> {op[p] : p \in Procs}]
  /\ memory \in [Procs -> {memory[p] : p \in Procs}]
  /\ pending \in [Procs -> {pending[p] : p \in Procs}]
  /\ dirty \in [Procs -> {dirty[p] : p \in Procs}] /\ key \in [Procs -> {key[p] : p \in Procs}]
  /\ timer \in [Procs -> {timer[p] : p \in Procs}]
  /\ reported \in [Procs -> {reported[p] : p \in Procs}]

Others(p) ==
  \A q \in Procs \ {p} :
    /\ pc'[q] = pc[q] /\ op'[q] = op[q] /\ memory'[q] = memory[q] /\ pending'[q] = pending[q]
    /\ dirty'[q] = dirty[q] /\ key'[q] = key[q] /\ timer'[q] = timer[q]
    /\ reported'[q] = reported[q]

LEMMA TypeShape == ASSUME TypeOK PROVE Shape
BY DEF TypeOK, Shape

LEMMA StepShape ==
  ASSUME Shape, NEW p \in Procs, Step(p)
  PROVE  Shape' /\ Others(p)
<1> USE DEF Shape, Others, files, instance, history
<1>1. CASE Open(p)
  BY <1>1 DEF Open
<1>2. CASE Load(p)
  <2>1. PICK x \in main : ApplySnapshot(p, x)
    BY <1>2 DEF Load
  <2>2. QED
    BY <2>1 DEF ApplySnapshot
<1>3. CASE StartRestore(p)
  BY <1>3 DEF StartRestore
<1>4. CASE CopyPart(p)
  BY <1>4 DEF CopyPart
<1>5. CASE CopyRest(p)
  <2>1. PICK x \in backup : ApplySnapshot(p, x)
    BY <1>5 DEF CopyRest
  <2>2. QED
    BY <2>1 DEF ApplySnapshot
<1>6. CASE OpenFails(p)
  BY <1>6 DEF OpenFails
<1>7. CASE CreateNew(p)
  BY <1>7 DEF CreateNew
<1>8. CASE RemoveBackup(p)
  BY <1>8 DEF RemoveBackup
<1>9. CASE MoveAside(p)
  BY <1>9 DEF MoveAside
<1>10. CASE SwapIn(p)
  BY <1>10 DEF SwapIn
<1>11. CASE SaveFails(p)
  BY <1>11 DEF SaveFails, FailDirty, Fail, TakeBack
<1>12. CASE Change(p)
  BY <1>12 DEF Change, ScheduleSave
<1>13. CASE Persist(p)
  BY <1>13 DEF Persist, EnterSave, RefuseSave
<1>14. CASE ReservePreKey(p)
  BY <1>14 DEF ReservePreKey, EnterSave, RefuseSave
<1>15. CASE RotateEncryptionKey(p)
  BY <1>15 DEF RotateEncryptionKey, EnterSave, RefuseSave
<1>16. CASE \E o \in {"timer", "flush", "close"} : SaveDirty(p, o)
  <2>1. PICK o : SaveDirty(p, o)
    BY <1>16
  <2>2. timer' = [timer EXCEPT ![p] = FALSE] /\ UNCHANGED <<memory, pending, dirty, key>>
    BY <2>1 DEF SaveDirty
  <2>3. CASE UNCHANGED <<pc, op>> /\ reported' = [reported EXCEPT ![p] = TRUE]
    BY <2>2, <2>3
  <2>4. CASE UNCHANGED reported /\ EnterSave(p, o)
    BY <2>2, <2>4 DEF EnterSave
  <2>5. CASE /\ pc' = [pc EXCEPT ![p] = IF o = "close" THEN "absent" ELSE "open"]
             /\ UNCHANGED <<op, reported>>
    BY <2>2, <2>5
  <2>6. QED
    BY <2>1, <2>3, <2>4, <2>5 DEF SaveDirty, RefuseSave
<1>17. CASE Crash(p)
  BY <1>17 DEF Crash
<1>18. CASE Corrupt
  BY <1>18 DEF Corrupt
<1>19. QED
  BY <1>1, <1>2, <1>3, <1>4, <1>5, <1>6, <1>7, <1>8, <1>9, <1>10, <1>11, <1>12, <1>13,
     <1>14, <1>15, <1>16, <1>17, <1>18 DEF Step

(* A call of an open instance changes it, and may start a save.             *)
Adds(p) ==
  /\ next <= MaxChanges /\ next' = next + 1
  /\ memory'[p] = [revision |-> memory[p].revision, changes |-> memory[p].changes \cup {next}]
  /\ refused' = refused

Edits(p) ==
  /\ pc[p] = "open" /\ UNCHANGED <<files, key, saved, corruptions>>
  /\ \/ Adds(p) /\ pending'[p] = pending[p]
     \/ Adds(p) /\ pending'[p] = {next} /\ pc'[p] = "save"
     \/ /\ next <= MaxChanges /\ next' = next + 1 /\ refused' = refused \cup {next}
        /\ UNCHANGED <<memory, pending>>
     \/ UNCHANGED <<memory, pending, next, refused>>
  /\ \/ pc'[p] \in {"open", "absent"} /\ op' = op /\ given' = given
     \/ /\ pc'[p] = "save" /\ ~Locked /\ RevisionCurrent(p)
        /\ dirty'[p] /\ op'[p] \in Operations \ {"create", "rotate"} /\ given' = given
     \/ /\ pc'[p] = "save" /\ ~Locked /\ RevisionCurrent(p)
        /\ dirty'[p] /\ op'[p] = "rotate" /\ rotations' = rotations + 1
        /\ given' = given \cup {rotations'}
  /\ rotations' = rotations \/ (rotations < MaxRotations /\ rotations' = rotations + 1)
  /\ dirty'[p] \in BOOLEAN /\ timer'[p] \in BOOLEAN /\ reported'[p] \in BOOLEAN
  /\ (pc'[p] = "open" /\ dirty'[p]) => (timer'[p] \/ reported'[p])
  /\ ~dirty'[p] => memory'[p] = memory[p] /\ ~dirty[p]

LEMMA CallEdits ==
  ASSUME TypeOK, NEW p \in Procs,
         \/ Change(p) \/ Persist(p) \/ ReservePreKey(p) \/ RotateEncryptionKey(p)
         \/ \E o \in {"timer", "flush", "close"} : SaveDirty(p, o)
  PROVE  Edits(p)
<1> USE DEF files
<1>1. /\ Shape /\ memory[p] = [revision |-> memory[p].revision, changes |-> memory[p].changes]
      /\ dirty[p] \in BOOLEAN /\ timer[p] \in BOOLEAN /\ reported[p] \in BOOLEAN
  <2>1. memory[p] = [revision |-> memory[p].revision, changes |-> memory[p].changes]
    BY Typing DEF Memory
  <2>2. QED
    BY <2>1, TypeShape, Typing
<1>2. ASSUME memory' = [memory EXCEPT ![p].changes = @ \cup {next}]
      PROVE  memory'[p] = [revision |-> memory[p].revision, changes |-> memory[p].changes \cup {next}]
  BY <1>1, <1>2 DEF Shape
<1>3. ASSUME NEW o \in Operations \ {"create"}, EnterSave(p, o)
      PROVE  pc'[p] = "save" /\ op'[p] = o /\ ~Locked /\ RevisionCurrent(p)
  BY <1>1, <1>3 DEF EnterSave, Shape
<1>4. ASSUME RefuseSave(p)
      PROVE  reported'[p] = TRUE
  BY <1>1, <1>4 DEF RefuseSave, Shape
<1>5. ASSUME dirty' = [dirty EXCEPT ![p] = TRUE]
      PROVE  dirty'[p] = TRUE
  BY <1>1, <1>5 DEF Shape
<1>6. CASE Change(p)
  <2>1. Adds(p) /\ dirty'[p] = TRUE
    BY <1>2, <1>5, <1>6 DEF Change, Adds
  <2>2. timer'[p] = TRUE /\ reported'[p] = FALSE
    BY <1>1, <1>6 DEF Change, ScheduleSave, Shape
  <2>3. QED
    BY <2>1, <2>2, <1>6 DEF Change, Edits
<1>7. CASE Persist(p)
  <2>1. Adds(p) /\ dirty'[p] = TRUE
    BY <1>2, <1>5, <1>7 DEF Persist, Adds
  <2>2. CASE EnterSave(p, "persist") /\ UNCHANGED reported
    <3>1. pc'[p] = "save" /\ op'[p] = "persist" /\ ~Locked /\ RevisionCurrent(p)
      BY <1>3, <2>2 DEF Operations
    <3>2. QED
      BY <3>1, <2>1, <2>2, <1>1, <1>7 DEF Persist, Edits, Operations
  <2>3. CASE RefuseSave(p) /\ UNCHANGED <<pc, op>>
    BY <2>1, <2>3, <1>1, <1>4, <1>7 DEF Persist, Edits
  <2>4. QED
    BY <2>2, <2>3, <1>7 DEF Persist
<1>8. CASE ReservePreKey(p)
  <2>1. dirty'[p] = TRUE
    BY <1>5, <1>8 DEF ReservePreKey
  <2>2. CASE /\ EnterSave(p, "reserve")
             /\ memory' = [memory EXCEPT ![p].changes = @ \cup {next}]
             /\ pending' = [pending EXCEPT ![p] = {next}]
             /\ UNCHANGED <<refused, reported>>
    <3>1. pc'[p] = "save" /\ op'[p] = "reserve" /\ ~Locked /\ RevisionCurrent(p)
      BY <1>3, <2>2 DEF Operations
    <3>2. Adds(p) /\ pending'[p] = {next}
      BY <1>1, <1>2, <1>8, <2>2 DEF ReservePreKey, Adds, Shape
    <3>3. QED
      BY <3>1, <3>2, <2>1, <2>2, <1>1, <1>8 DEF ReservePreKey, Edits, Operations
  <2>3. CASE /\ RefuseSave(p)
             /\ refused' = refused \cup {next}
             /\ UNCHANGED <<pc, op, memory, pending>>
    BY <2>1, <2>3, <1>1, <1>4, <1>8 DEF ReservePreKey, Edits
  <2>4. QED
    BY <2>2, <2>3, <1>8 DEF ReservePreKey
<1>9. CASE RotateEncryptionKey(p)
  <2>1. dirty'[p] = TRUE
    BY <1>5, <1>9 DEF RotateEncryptionKey
  <2>2. CASE /\ EnterSave(p, "rotate")
             /\ given' = given \cup {rotations'}
             /\ UNCHANGED reported
    <3>1. pc'[p] = "save" /\ op'[p] = "rotate" /\ ~Locked /\ RevisionCurrent(p)
      BY <1>3, <2>2 DEF Operations
    <3>2. QED
      BY <3>1, <2>1, <2>2, <1>1, <1>9 DEF RotateEncryptionKey, Edits
  <2>3. CASE /\ RefuseSave(p)
             /\ UNCHANGED <<pc, op, given>>
    BY <2>1, <2>3, <1>1, <1>4, <1>9 DEF RotateEncryptionKey, Edits
  <2>4. QED
    BY <2>2, <2>3, <1>9 DEF RotateEncryptionKey
<1>10. CASE \E o \in {"timer", "flush", "close"} : SaveDirty(p, o)
  <2>1. PICK o \in {"timer", "flush", "close"} : SaveDirty(p, o)
    BY <1>10
  <2>2. timer'[p] = FALSE
    BY <1>1, <2>1 DEF SaveDirty, Shape
  <2>3. CASE dirty[p] /\ EnterSave(p, o) /\ UNCHANGED reported
    <3>1. /\ pc'[p] = "save" /\ op'[p] = o /\ ~Locked /\ RevisionCurrent(p)
          /\ o \in Operations \ {"create", "rotate"}
      BY <1>3, <2>3 DEF Operations
    <3>2. QED
      BY <3>1, <2>1, <2>2, <2>3, <1>1 DEF SaveDirty, Edits
  <2>4. CASE dirty[p] /\ RefuseSave(p) /\ UNCHANGED <<pc, op>>
    BY <2>1, <2>2, <2>4, <1>1, <1>4 DEF SaveDirty, Edits
  <2>5. CASE /\ ~dirty[p]
             /\ pc' = [pc EXCEPT ![p] = IF o = "close" THEN "absent" ELSE "open"]
             /\ UNCHANGED <<op, reported>>
    <3>1. pc'[p] \in {"open", "absent"}
      BY <2>5, <1>1 DEF Shape
    <3>2. QED
      BY <3>1, <2>1, <2>2, <2>5, <1>1 DEF SaveDirty, Edits
  <2>6. QED
    BY <2>1, <2>3, <2>4, <2>5 DEF SaveDirty
<1>11. QED
  BY <1>6, <1>7, <1>8, <1>9, <1>10

(* create() with a snapshot.                                               *)
Applied(p, x) ==
  /\ pc[p] \in {"opening", "copy"} /\ x \in Latest /\ x.whole /\ x.key = key[p]
  /\ main' = {x} /\ backup' = backup /\ given' = {x.key}
  /\ memory'[p] = [revision |-> x.revision, changes |-> x.changes]
  /\ pc'[p] = "open" /\ dirty'[p] = FALSE /\ timer'[p] = FALSE /\ reported'[p] = FALSE
  /\ UNCHANGED <<op, pending, key, rotations, next, saved, refused, corruptions>>

LEMMA CreateApplies ==
  ASSUME TypeOK, FileInv, KeyInv, NEW p \in Procs, Load(p) \/ CopyRest(p)
  PROVE  \E x \in main \cup backup : Applied(p, x)
<1>1. Shape /\ \A x \in main : main = {x}
  BY TypeShape, Typing
<1>2. ASSUME NEW x, ApplySnapshot(p, x)
      PROVE  /\ memory'[p] = [revision |-> x.revision, changes |-> x.changes]
             /\ pc'[p] = "open" /\ dirty'[p] = FALSE /\ timer'[p] = FALSE /\ reported'[p] = FALSE
             /\ backup' = backup /\ given' = {x.key}
             /\ UNCHANGED <<op, pending, key, rotations, next, saved, refused, corruptions>>
  BY <1>1, <1>2 DEF ApplySnapshot, Shape
<1>3. CASE Load(p)
  <2>1. PICK x \in main : ApplySnapshot(p, x)
    BY <1>3 DEF Load
  <2>2. x.whole /\ x.key = key[p] /\ main = {x} /\ main' = main /\ pc[p] = "opening"
    BY <1>1, <1>3 DEF Load, Readable
  <2>3. x \in Latest
    BY <2>2 DEF Latest, Whole
  <2>4. QED
    BY <2>1, <2>2, <2>3, <1>2 DEF Applied
<1>4. CASE CopyRest(p)
  <2>1. PICK x \in backup : ApplySnapshot(p, x)
    BY <1>4 DEF CopyRest
  <2>2. backup = {x} /\ main' = {x} /\ pc[p] = "copy"
    BY <1>4, Typing DEF CopyRest
  <2>3. x \in Latest /\ x.whole /\ x.key = key[p]
    BY <2>2 DEF Latest, FileInv, PlaceInv, KeyInv, HasKey
  <2>4. QED
    BY <2>1, <2>2, <2>3, <1>2 DEF Applied
<1>5. QED
  BY <1>3, <1>4

Creates(p) ==
  /\ pc[p] = "opening" /\ main = {} /\ (BackupEnabled => backup = {}) /\ next <= MaxChanges
  /\ memory'[p] = [revision |-> 0, changes |-> {next}] /\ next' = next + 1
  /\ dirty'[p] = TRUE /\ reported'[p] = FALSE /\ op'[p] = "create" /\ pc'[p] = "save"
  /\ UNCHANGED <<files, pending, key, timer, given, rotations, saved, refused, corruptions>>

LEMMA CreateCreates ==
  ASSUME Shape, NEW p \in Procs, CreateNew(p)
  PROVE  Creates(p)
BY DEF CreateNew, Creates, Shape

Snapshot(p) ==
  [revision |-> memory[p].revision + 1, changes |-> memory[p].changes,
   key |-> KeyOf(p), whole |-> TRUE]

Swaps(p) ==
  /\ pc[p] = "swap" \/ (pc[p] = "save" /\ ~MovesAside)
  /\ main' = {Snapshot(p)} /\ key'[p] = KeyOf(p)
  /\ given' = IF op[p] = "rotate" THEN {KeyOf(p)} ELSE given
  /\ memory'[p] = [revision |-> memory[p].revision + 1, changes |-> memory[p].changes]
  /\ dirty'[p] = FALSE /\ pending'[p] = {} /\ reported'[p] = FALSE
  /\ saved' = saved \cup memory[p].changes
  /\ pc'[p] \in {"absent", "open"}
  /\ UNCHANGED <<backup, op, timer, rotations, next, refused, corruptions>>

LEMMA SwapInSwaps ==
  ASSUME TypeOK, NEW p \in Procs, SwapIn(p)
  PROVE  Swaps(p)
<1>1. Shape /\ memory[p] = [revision |-> memory[p].revision, changes |-> memory[p].changes]
  BY TypeShape, Typing DEF Memory
<1>2. memory'[p] = [revision |-> memory[p].revision + 1, changes |-> memory[p].changes]
  BY <1>1 DEF SwapIn, Shape
<1>3. pc'[p] \in {"absent", "open"} /\ dirty'[p] = FALSE /\ pending'[p] = {} /\ reported'[p] = FALSE
      /\ key'[p] = KeyOf(p)
  BY <1>1 DEF SwapIn, Shape
<1>4. QED
  BY <1>2, <1>3 DEF SwapIn, Swaps, Snapshot

(* A save that fails, its file put back or not.                            *)
Fails(p) ==
  /\ Saving(p)
  /\ UNCHANGED files \/ (main = {} /\ backup # {} /\ main' = backup /\ backup' = {})
  /\ memory'[p] = [revision |-> memory[p].revision, changes |-> memory[p].changes \ pending[p]]
  /\ refused' = refused \cup pending[p] /\ pending'[p] = {} /\ reported'[p] = TRUE
  /\ pc'[p] = IF op[p] = "create" THEN "absent" ELSE "open"
  /\ given' = IF op[p] = "rotate" THEN given \ {KeyOf(p)} ELSE given
  /\ UNCHANGED <<op, key, timer, rotations, next, saved, corruptions, dirty>>

LEMMA SaveFailsFails ==
  ASSUME TypeOK, NEW p \in Procs, SaveFails(p)
  PROVE  Fails(p)
<1>1. Shape /\ memory[p] = [revision |-> memory[p].revision, changes |-> memory[p].changes]
  BY TypeShape, Typing DEF Memory
<1>2. Fail(p) /\ UNCHANGED dirty /\ Saving(p)
      /\ (UNCHANGED files \/ (main = {} /\ backup # {} /\ main' = backup /\ backup' = {}))
  BY DEF SaveFails, FailDirty, Saving
<1>3. /\ memory' = [memory EXCEPT ![p].changes = @ \ pending[p]]
      /\ refused' = refused \cup pending[p]
      /\ pending' = [pending EXCEPT ![p] = {}]
      /\ reported' = [reported EXCEPT ![p] = TRUE]
      /\ pc' = [pc EXCEPT ![p] = IF op[p] = "create" THEN "absent" ELSE "open"]
      /\ given' = IF op[p] = "rotate" THEN given \ {KeyOf(p)} ELSE given
      /\ UNCHANGED <<op, key, timer, rotations, next, saved, corruptions>>
  BY <1>2 DEF Fail, TakeBack
<1>4. memory'[p] = [revision |-> memory[p].revision, changes |-> memory[p].changes \ pending[p]]
  BY <1>1, <1>3 DEF Shape
<1>5. pending'[p] = {} /\ reported'[p] = TRUE
      /\ pc'[p] = IF op[p] = "create" THEN "absent" ELSE "open"
  BY <1>1, <1>3 DEF Shape
<1>6. QED
  BY <1>2, <1>3, <1>4, <1>5 DEF Fails

(* All that a step can be.                                                 *)
LEMMA StepCases ==
  ASSUME TypeOK, FileInv, KeyInv, NEW p \in Procs, Step(p)
  PROVE  \/ Open(p) \/ StartRestore(p) \/ CopyPart(p) \/ OpenFails(p) \/ Creates(p)
         \/ (\E x \in main \cup backup : Applied(p, x))
         \/ RemoveBackup(p) \/ MoveAside(p) \/ Swaps(p) \/ Fails(p) \/ Edits(p)
         \/ Crash(p) \/ Corrupt
BY TypeShape, CallEdits, CreateApplies, CreateCreates, SwapInSwaps, SaveFailsFails DEF Step

------------------------------------------------------------------------------
(* Type correctness.                                                       *)

Places == {"absent", "open", "opening", "restore", "copy", "save", "aside", "swap"}

FileTyped(f) == f = {} \/ \E x \in f : f = {x} /\ x \in File

ProcTyped(p) ==
  /\ pc[p] \in Places /\ op[p] \in Operations /\ memory[p] \in Memory
  /\ pending[p] \in AtMostOne(Changes) /\ dirty[p] \in BOOLEAN /\ timer[p] \in BOOLEAN
  /\ key[p] \in Keys /\ reported[p] \in BOOLEAN

RestTyped ==
  /\ FileTyped(main) /\ FileTyped(backup)
  /\ rotations \in Keys /\ given \in (SUBSET Keys) \ {{}} /\ next \in 0..(MaxChanges + 1)
  /\ saved \subseteq Changes /\ refused \subseteq Changes /\ corruptions \in 0..MaxCorruptions

LEMMA TypeParts ==
  ASSUME TypeOK
  PROVE  Shape /\ RestTyped /\ \A p \in Procs : ProcTyped(p)
BY TypeShape DEF TypeOK, RestTyped, ProcTyped, FileTyped, Places

LEMMA TypeWhole ==
  ASSUME Shape', RestTyped', \A p \in Procs : ProcTyped(p)'
  PROVE  TypeOK'
<1>1. /\ pc' \in [Procs -> Places] /\ op' \in [Procs -> Operations]
      /\ memory' \in [Procs -> Memory] /\ pending' \in [Procs -> AtMostOne(Changes)]
      /\ dirty' \in [Procs -> BOOLEAN] /\ timer' \in [Procs -> BOOLEAN]
      /\ key' \in [Procs -> Keys] /\ reported' \in [Procs -> BOOLEAN]
  BY DEF Shape, ProcTyped
<1>2. \A f \in {main', backup'} : f = {} \/ \E x \in f : f = {x} /\ x \in File
  BY DEF RestTyped, FileTyped
<1>3. QED
  BY <1>1, <1>2 DEF TypeOK, RestTyped, Places

(* A file that is damaged or half copied.                                  *)
LEMMA DamagedTyped ==
  ASSUME NEW f, FileTyped(f)
  PROVE  FileTyped({[x EXCEPT !.whole = FALSE] : x \in f})
<1>1. CASE f = {}
  BY <1>1 DEF FileTyped
<1>2. CASE f # {}
  <2>1. PICK x \in f : f = {x} /\ x \in File
    BY <1>2 DEF FileTyped
  <2>2. PICK y : y = [x EXCEPT !.whole = FALSE]
    OBVIOUS
  <2>3. y \in File
    BY <2>1, <2>2 DEF File
  <2>4. {[z EXCEPT !.whole = FALSE] : z \in f} = {y}
    BY <2>1, <2>2
  <2>5. QED
    BY <2>3, <2>4 DEF FileTyped
<1>3. QED
  BY <1>1, <1>2

LEMMA DamagedKeeps ==
  ASSUME NEW f \in SUBSET File, NEW y \in {[x EXCEPT !.whole = FALSE] : x \in f}
  PROVE  \E x \in f : /\ y.revision = x.revision /\ y.changes = x.changes /\ y.key = x.key
                      /\ ~y.whole
BY DEF File

LEMMA RevisionPlus ==
  ASSUME NEW n \in Nat, NEW c \in SUBSET Changes
  PROVE  /\ [revision |-> n, changes |-> c] \in Memory
         /\ [revision |-> n + 1, changes |-> c] \in Memory
         /\ \A k \in Keys : \A w \in BOOLEAN :
              /\ [revision |-> n, changes |-> c, key |-> k, whole |-> w] \in File
              /\ [revision |-> n + 1, changes |-> c, key |-> k, whole |-> w] \in File
<1>1. n + 1 \in Nat
  OBVIOUS
<1>2. QED
  BY <1>1 DEF Memory, File

LEMMA StepTypeOK ==
  ASSUME TypeOK, FileInv, KeyInv, NEW p \in Procs, Step(p)
  PROVE  TypeOK'
<1>1. Shape' /\ Others(p)
  BY TypeShape, StepShape
<1>2. RestTyped /\ Shape /\ \A q \in Procs : ProcTyped(q)
  BY TypeParts
<1>3. {MaxChanges, MaxRotations, MaxCorruptions} \subseteq Nat
  BY FileStorageAssumption
<1>4. SUFFICES RestTyped' /\ ProcTyped(p)'
  <2>1. ASSUME ProcTyped(p)', NEW q \in Procs PROVE ProcTyped(q)'
    BY <2>1, <1>1, <1>2 DEF ProcTyped, Others
  <2>2. ASSUME RestTyped', ProcTyped(p)' PROVE TypeOK'
    <3>1. \A q \in Procs : ProcTyped(q)'
      BY <2>1, <2>2
    <3>2. QED
      BY <3>1, <2>2, <1>1, TypeWhole
  <2>3. QED
    BY <2>2
<1>5. ProcTyped(p) /\ Places = Places
  BY <1>2
<1> USE DEF files, instance, history, Places, Operations
<1>6. CASE Open(p)
  BY <1>2, <1>6 DEF Open, RestTyped, ProcTyped, Shape
<1>7. CASE StartRestore(p)
  BY <1>2, <1>7 DEF StartRestore, RestTyped, ProcTyped, Shape, FileTyped
<1>8. CASE CopyPart(p)
  <2>1. FileTyped(main')
    <3>1. main' = {[x EXCEPT !.whole = FALSE] : x \in backup}
      BY <1>8 DEF CopyPart
    <3>2. QED
      BY <3>1, DamagedTyped, <1>2 DEF RestTyped
  <2>2. QED
    BY <2>1, <1>2, <1>8 DEF CopyPart, RestTyped, ProcTyped, Shape
<1>9. CASE OpenFails(p)
  BY <1>2, <1>9 DEF OpenFails, RestTyped, ProcTyped, Shape
<1>10. CASE Creates(p)
  <2>1. next \in Changes /\ next + 1 \in 0..(MaxChanges + 1) /\ 0 \in Nat
    BY <1>2, <1>3, <1>10 DEF Creates, RestTyped, Changes
  <2>2. memory'[p] \in Memory
    BY <2>1, <1>10 DEF Creates, Memory
  <2>3. QED
    BY <2>1, <2>2, <1>2, <1>10 DEF Creates, RestTyped, ProcTyped
<1>11. CASE \E x \in main \cup backup : Applied(p, x)
  <2>1. PICK x \in main \cup backup : Applied(p, x)
    BY <1>11
  <2>2. x \in File
    BY <2>1, Typing
  <2>3. memory'[p] \in Memory /\ x.key \in Keys
    BY <2>1, <2>2 DEF Applied, File, Memory
  <2>4. FileTyped(main')
    BY <2>1, <2>2 DEF Applied, FileTyped
  <2>5. QED
    BY <2>1, <2>3, <2>4, <1>2 DEF Applied, RestTyped, ProcTyped
<1>12. CASE RemoveBackup(p)
  BY <1>2, <1>12 DEF RemoveBackup, RestTyped, ProcTyped, Shape, FileTyped
<1>13. CASE MoveAside(p)
  BY <1>2, <1>13 DEF MoveAside, RestTyped, ProcTyped, Shape, FileTyped
<1>14. CASE Swaps(p)
  <2>1. Saving(p)
    BY <1>14 DEF Swaps, Saving
  <2>2. KeyOf(p) \in given /\ KeyOf(p) \in Keys
    BY <2>1, SaveKey
  <2>3. memory'[p] \in Memory /\ Snapshot(p) \in File
    <3>1. memory[p].revision \in Nat /\ memory[p].changes \in SUBSET Changes
      BY Typing
    <3>2. QED
      BY <3>1, <2>2, <1>14, RevisionPlus DEF Swaps, Snapshot
  <2>4. FileTyped(main')
    BY <2>3, <1>14 DEF Swaps, FileTyped
  <2>5. saved' \subseteq Changes
    BY <1>2, <1>14, Typing DEF Swaps, RestTyped
  <2>6. given' \in (SUBSET Keys) \ {{}}
    BY <2>2, <1>2, <1>14 DEF Swaps, RestTyped
  <2>7. pending'[p] \in AtMostOne(Changes)
    BY <1>14 DEF Swaps, AtMostOne
  <2>8. QED
    BY <2>2, <2>3, <2>4, <2>5, <2>6, <2>7, <1>2, <1>14 DEF Swaps, RestTyped, ProcTyped
<1>15. CASE Fails(p)
  <2>1. memory'[p] \in Memory
    <3>1. memory[p].revision \in Nat /\ memory[p].changes \ pending[p] \in SUBSET Changes
      BY Typing
    <3>2. QED
      BY <3>1, <1>15, RevisionPlus DEF Fails
  <2>2. FileTyped(main') /\ FileTyped(backup')
    BY <1>2, <1>15 DEF Fails, RestTyped, FileTyped
  <2>3. refused' \subseteq Changes
    BY <1>2, <1>15, Typing DEF Fails, RestTyped
  <2>4. given' \in (SUBSET Keys) \ {{}}
    <3>1. CASE op[p] = "rotate"
      <4>1. Rotating(p)
        BY <3>1, <1>15 DEF Fails, Rotating
      <4>2. key[p] \in given /\ key[p] # KeyOf(p)
        BY <4>1, NewKey
      <4>3. QED
        BY <3>1, <4>2, <1>2, <1>15 DEF Fails, RestTyped
    <3>2. CASE op[p] # "rotate"
      BY <3>2, <1>2, <1>15 DEF Fails, RestTyped
    <3>3. QED
      BY <3>1, <3>2
  <2>5. pending'[p] \in AtMostOne(Changes)
    BY <1>15 DEF Fails, AtMostOne
  <2>6. QED
    BY <2>1, <2>2, <2>3, <2>4, <2>5, <1>2, <1>15 DEF Fails, RestTyped, ProcTyped
<1>16. CASE Edits(p)
  <2>1. next <= MaxChanges => next \in Changes /\ next + 1 \in 0..(MaxChanges + 1)
    BY <1>2, <1>3 DEF RestTyped, Changes
  <2>2. next' \in 0..(MaxChanges + 1) /\ memory'[p] \in Memory
    <3>1. CASE Adds(p)
      <4>1. memory[p].revision \in Nat /\ memory[p].changes \cup {next} \in SUBSET Changes
        BY <2>1, <3>1, Typing DEF Adds
      <4>2. QED
        BY <4>1, <2>1, <3>1, RevisionPlus DEF Adds
    <3>2. CASE ~Adds(p)
      BY <3>2, <2>1, <1>2, <1>16 DEF Edits, ProcTyped, RestTyped
    <3>3. QED
      BY <3>1, <3>2
  <2>3. refused' \subseteq Changes
    BY <2>1, <1>2, <1>16 DEF Edits, Adds, RestTyped
  <2>4. pending'[p] \in AtMostOne(Changes)
    BY <2>1, <1>2, <1>16 DEF Edits, Adds, ProcTyped, AtMostOne
  <2>5. rotations' \in Keys
    BY <1>2, <1>3, <1>16 DEF Edits, RestTyped, Keys
  <2>6. given' \in (SUBSET Keys) \ {{}}
    BY <2>5, <1>2, <1>16 DEF Edits, RestTyped
  <2>7. FileTyped(main') /\ FileTyped(backup') /\ saved' \subseteq Changes
        /\ corruptions' \in 0..MaxCorruptions /\ key'[p] \in Keys
    BY <1>2, <1>16 DEF Edits, RestTyped, ProcTyped
  <2>8. pc'[p] \in Places /\ op'[p] \in Operations
    BY <1>2, <1>16 DEF Edits, ProcTyped
  <2>9. dirty'[p] \in BOOLEAN /\ timer'[p] \in BOOLEAN /\ reported'[p] \in BOOLEAN
    BY <1>16 DEF Edits
  <2>10. QED
    BY <2>2, <2>3, <2>4, <2>5, <2>6, <2>7, <2>8, <2>9 DEF RestTyped, ProcTyped
<1>17. CASE Crash(p)
  BY <1>2, <1>17 DEF Crash, RestTyped, ProcTyped, Shape, AtMostOne
<1>18. CASE Corrupt
  <2>1. FileTyped(main')
    <3>1. main' = {[x EXCEPT !.whole = FALSE] : x \in main}
      BY <1>18 DEF Corrupt
    <3>2. QED
      BY <3>1, DamagedTyped, <1>2 DEF RestTyped
  <2>2. corruptions' \in 0..MaxCorruptions
    BY <1>2, <1>3, <1>18 DEF Corrupt, RestTyped
  <2>3. QED
    BY <2>1, <2>2, <1>2, <1>18 DEF Corrupt, RestTyped, ProcTyped
<1>19. QED
  BY <1>6, <1>7, <1>8, <1>9, <1>10, <1>11, <1>12, <1>13, <1>14, <1>15, <1>16, <1>17, <1>18,
     StepCases

------------------------------------------------------------------------------
(* The lock.                                                               *)

LEMMA StepAlone ==
  ASSUME TypeOK, FileInv, KeyInv, Alone, NEW p \in Procs, Step(p)
  PROVE  Alone'
<1>1. Shape /\ Others(p)
  BY TypeShape, StepShape
<1>2. pc'[p] \in {"absent", "open"} \/ Busy(p) \/ ~Locked
  <2> USE DEF Busy
  <2>1. CASE Open(p)
    BY <2>1 DEF Open
  <2>2. CASE StartRestore(p) \/ CopyPart(p) \/ OpenFails(p)
    BY <2>2 DEF StartRestore, CopyPart, OpenFails
  <2>3. CASE Creates(p)
    BY <2>3 DEF Creates
  <2>4. CASE \E x \in main \cup backup : Applied(p, x)
    BY <2>4 DEF Applied
  <2>5. CASE RemoveBackup(p) \/ MoveAside(p)
    BY <2>5 DEF RemoveBackup, MoveAside
  <2>6. CASE Swaps(p) \/ Fails(p) \/ Edits(p)
    BY <2>6 DEF Swaps, Fails, Edits
  <2>7. CASE Crash(p)
    BY <2>7, <1>1 DEF Crash, Shape
  <2>8. CASE Corrupt
    BY <2>8 DEF Corrupt
  <2>9. QED
    BY <2>1, <2>2, <2>3, <2>4, <2>5, <2>6, <2>7, <2>8, StepCases
<1>3. \A q \in Procs \ {p} : Busy(q)' <=> Busy(q)
  BY <1>1 DEF Busy, Others
<1>4. Busy(p)' => \A q \in Procs \ {p} : ~Busy(q)
  BY <1>2 DEF Busy, Alone, Locked
<1>5. QED
  BY <1>3, <1>4 DEF Alone

(* While another process has the lock, a step changes nothing they share.   *)
LEMMA Quiet ==
  ASSUME TypeOK, FileInv, KeyInv, Alone, NEW p \in Procs, Step(p),
         NEW q \in Procs \ {p}, Busy(q)
  PROVE  /\ main' = main /\ backup' = backup /\ given' = given /\ saved' = saved
         /\ rotations <= rotations'
<1> USE DEF files, instance, history
<1>1. Locked /\ ~Busy(p) /\ rotations \in Nat
  BY Typing DEF Locked, Busy, Alone
<1>2. rotations <= rotations /\ rotations <= rotations + 1
  BY <1>1
<1>3. CASE Edits(p)
  BY <1>1, <1>2, <1>3 DEF Edits
<1>4. CASE Crash(p)
  BY <1>2, <1>4 DEF Crash
<1>5. CASE Open(p) \/ Corrupt
  BY <1>1, <1>5 DEF Open, Corrupt
<1>6. CASE StartRestore(p) \/ CopyPart(p) \/ OpenFails(p)
  BY <1>1, <1>6 DEF StartRestore, CopyPart, OpenFails, Busy
<1>7. CASE Creates(p)
  BY <1>1, <1>7 DEF Creates, Busy
<1>8. CASE \E x \in main \cup backup : Applied(p, x)
  BY <1>1, <1>8 DEF Applied, Busy
<1>9. CASE RemoveBackup(p) \/ MoveAside(p) \/ Swaps(p) \/ Fails(p)
  BY <1>1, <1>9 DEF RemoveBackup, MoveAside, Swaps, Fails, Saving, Busy
<1>10. QED
  BY <1>3, <1>4, <1>5, <1>6, <1>7, <1>8, <1>9, StepCases

------------------------------------------------------------------------------
(* The files.                                                              *)

LEMMA OthersPlace ==
  ASSUME TypeOK, FileInv, KeyInv, Alone, NEW p \in Procs, Step(p), NEW q \in Procs \ {p}
  PROVE  PlaceInv(q)'
<1>1. Others(p) /\ PlaceInv(q)
  BY TypeShape, StepShape DEF FileInv
<1>2. CASE Busy(q)
  BY <1>1, <1>2, Quiet DEF PlaceInv, Others, Whole, Live, Saving, Creating
<1>3. CASE ~Busy(q)
  BY <1>1, <1>3 DEF PlaceInv, Others, Live, Saving, Creating, Busy
<1>4. QED
  BY <1>2, <1>3

LEMMA CurrentMain ==
  ASSUME TypeOK, FileInv, NEW p \in Procs, pc[p] = "open", RevisionCurrent(p)
  PROVE  \E x \in main :
           /\ main = {x} /\ x.whole /\ x.key = key[p] /\ x.revision = memory[p].revision
<1>1. memory[p].revision >= 1 /\ memory[p].revision \in Nat
  BY Typing DEF FileInv, PlaceInv, Live, Creating, Saving
<1>2. memory[p].revision # 0
  BY <1>1
<1>3. QED
  BY <1>2, Typing DEF RevisionCurrent

LEMMA StepFileInv ==
  ASSUME TypeOK, FileInv, KeyInv, Alone, NEW p \in Procs, Step(p)
  PROVE  FileInv'
<1> USE DEF files, instance, history
<1>1. Shape /\ Others(p)
  BY TypeShape, StepShape
<1>2. PlaceInv(p) /\ FileInv
  BY DEF FileInv
<1>3. SUFFICES /\ \A x \in main' \cup backup' : x.revision >= 1
               /\ \A x \in backup' : x.whole
               /\ backup' # {} => BackupEnabled
               /\ PlaceInv(p)'
  BY OthersPlace DEF FileInv
<1> USE DEF FileInv
<1>4. CASE Open(p)
  BY <1>1, <1>2, <1>4 DEF Open, Shape, PlaceInv, Live, Creating, Saving
<1>5. CASE StartRestore(p)
  BY <1>1, <1>2, <1>5 DEF StartRestore, Shape, PlaceInv, Live, Creating, Saving, Whole
<1>6. CASE CopyPart(p)
  <2>1. pc[p] = "restore" /\ pc'[p] = "copy" /\ backup' = backup
    BY <1>1, <1>6 DEF CopyPart, Shape
  <2>2. \A y \in main' : ~y.whole /\ y.revision >= 1
    <3>1. backup \in SUBSET File /\ main' = {[x EXCEPT !.whole = FALSE] : x \in backup}
      BY <1>6, Typing DEF CopyPart
    <3>2. QED
      BY <3>1, DamagedKeeps
  <2>3. QED
    BY <2>1, <2>2, <1>2 DEF PlaceInv, Live, Creating, Saving, Whole
<1>7. CASE OpenFails(p)
  BY <1>1, <1>2, <1>7 DEF OpenFails, Shape, PlaceInv, Live, Creating, Saving
<1>8. CASE Creates(p)
  BY <1>2, <1>8 DEF Creates, PlaceInv, Live, Creating, Saving, Whole
<1>9. CASE \E x \in main \cup backup : Applied(p, x)
  BY <1>2, <1>9 DEF Applied, PlaceInv, Live, Creating, Saving, Whole
<1>10. CASE RemoveBackup(p)
  BY <1>1, <1>2, <1>10 DEF RemoveBackup, MovesAside, Shape, PlaceInv, Live, Creating, Saving, Whole
<1>11. CASE MoveAside(p)
  BY <1>1, <1>2, <1>11 DEF MoveAside, Shape, PlaceInv, Live, Creating, Saving, Whole
<1>12. CASE Swaps(p)
  <2>1. memory[p].revision \in Nat /\ memory[p].revision + 1 >= 1
    BY Typing
  <2>2. QED
    BY <2>1, <1>2, <1>12 DEF Swaps, Snapshot, PlaceInv, Live, Creating, Saving, Whole
<1>13. CASE Fails(p)
  BY <1>2, <1>13 DEF Fails, PlaceInv, Live, Creating, Saving, Whole
<1>14. CASE Edits(p)
  <2>1. memory'[p].revision = memory[p].revision /\ memory[p].revision >= 1
    BY <1>2, <1>14 DEF Edits, Adds, PlaceInv, Live, Creating, Saving
  <2>2. pc'[p] = "save" => op'[p] # "create" /\ \A x \in main : x.whole
    BY <1>14, CurrentMain DEF Edits
  <2>3. QED
    BY <2>1, <2>2, <1>2, <1>14 DEF Edits, PlaceInv, Live, Creating, Saving, Whole
<1>15. CASE Crash(p)
  BY <1>1, <1>2, <1>15 DEF Crash, Shape, PlaceInv, Live, Creating, Saving
<1>16. CASE Corrupt
  <2>1. ~Busy(p)
    BY <1>16 DEF Corrupt, Locked, Busy
  <2>2. \A x \in main' : x.revision >= 1
    BY <1>16, Typing DEF Corrupt, File
  <2>3. QED
    BY <2>1, <2>2, <1>2, <1>16 DEF Corrupt, PlaceInv, Live, Creating, Saving, Busy
<1>17. QED
  BY <1>4, <1>5, <1>6, <1>7, <1>8, <1>9, <1>10, <1>11, <1>12, <1>13, <1>14, <1>15, <1>16,
     StepCases

------------------------------------------------------------------------------
(* The keys.                                                               *)

LEMMA OthersKey ==
  ASSUME TypeOK, FileInv, KeyInv, Alone, NEW p \in Procs, Step(p), NEW q \in Procs \ {p}
  PROVE  HasKey(q)'
<1>1. Others(p) /\ HasKey(q) /\ rotations \in Nat /\ key[q] \in Nat
  BY TypeShape, StepShape, Typing DEF KeyInv
<1>2. CASE Busy(q)
  <2>1. rotations' \in Nat
    BY StepTypeOK, FileStorageAssumption DEF TypeOK, Keys
  <2>2. /\ main' = main /\ backup' = backup /\ given' = given /\ rotations <= rotations'
    BY <1>2, Quiet
  <2>3. key[q] <= rotations'
    BY <2>1, <2>2, <1>1 DEF HasKey
  <2>4. QED
    BY <2>2, <2>3, <1>1 DEF HasKey, Others, Rotating, Saving, Busy
<1>3. CASE ~Busy(q)
  <2>1. rotations' = rotations \/ rotations' = rotations + 1
    <3> USE DEF files, instance, history
    <3>1. CASE Open(p) \/ StartRestore(p) \/ CopyPart(p) \/ OpenFails(p)
      BY <3>1 DEF Open, StartRestore, CopyPart, OpenFails
    <3>2. CASE Creates(p) \/ (\E x \in main \cup backup : Applied(p, x))
      BY <3>2 DEF Creates, Applied
    <3>3. CASE RemoveBackup(p) \/ MoveAside(p) \/ Swaps(p) \/ Fails(p)
      BY <3>3 DEF RemoveBackup, MoveAside, Swaps, Fails
    <3>4. CASE Edits(p) \/ Crash(p) \/ Corrupt
      BY <3>4 DEF Edits, Crash, Corrupt
    <3>5. QED
      BY <3>1, <3>2, <3>3, <3>4, StepCases
  <2>2. key[q] <= rotations'
    BY <2>1, <1>1 DEF HasKey
  <2>3. QED
    BY <2>2, <1>1, <1>3 DEF HasKey, Others, Rotating, Saving, Busy
<1>4. QED
  BY <1>2, <1>3

LEMMA StepKeyInv ==
  ASSUME TypeOK, FileInv, KeyInv, Alone, NEW p \in Procs, Step(p)
  PROVE  KeyInv'
<1> USE DEF files, instance, history
<1>1. Shape /\ Others(p)
  BY TypeShape, StepShape
<1>2. /\ HasKey(p) /\ PlaceInv(p)
      /\ \A k \in given : k <= rotations
      /\ \A x \in main \cup backup : x.key <= rotations
      /\ \A x \in main : x.whole => x.key \in given
      /\ main = {} => \A x \in backup : x.key \in given
      /\ \A x \in backup : x.whole
  BY DEF KeyInv, FileInv
<1>3. SUFFICES /\ \A k \in given' : k <= rotations'
               /\ \A x \in main' \cup backup' : x.key <= rotations'
               /\ \A x \in main' : x.whole => x.key \in given'
               /\ main' = {} => \A x \in backup' : x.key \in given'
               /\ HasKey(p)'
  BY OthersKey DEF KeyInv
<1>4. CASE Open(p)
  <2>1. key'[p] \in given /\ pc'[p] = "opening"
    BY <1>1, <1>4 DEF Open, Shape
  <2>2. QED
    BY <2>1, <1>2, <1>4 DEF Open, HasKey, Rotating, Saving
<1>5. CASE StartRestore(p)
  <2>1. pc'[p] = "restore" /\ main' = {} /\ backup' = backup /\ key[p] \in given
    BY <1>1, <1>2, <1>5 DEF StartRestore, Shape, HasKey, Busy
  <2>2. \A x \in backup : x.key = key[p]
    BY <1>5, Typing DEF StartRestore, Readable
  <2>3. QED
    BY <2>1, <2>2, <1>2, <1>5 DEF StartRestore, HasKey, Rotating, Saving
<1>6. CASE CopyPart(p)
  <2>1. pc[p] = "restore" /\ pc'[p] = "copy" /\ backup' = backup
    BY <1>1, <1>6 DEF CopyPart, Shape
  <2>2. \A y \in main' : ~y.whole /\ \E x \in backup : y.key = x.key
    <3>1. backup \in SUBSET File /\ main' = {[x EXCEPT !.whole = FALSE] : x \in backup}
      BY <1>6, Typing DEF CopyPart
    <3>2. QED
      BY <3>1, DamagedKeeps
  <2>3. \A x \in backup : x.key = key[p] /\ key[p] \in given
    BY <2>1, <1>2 DEF HasKey, Busy
  <2>4. QED
    BY <2>1, <2>2, <2>3, <1>2, <1>6 DEF CopyPart, HasKey, Busy, Rotating, Saving
<1>7. CASE OpenFails(p)
  BY <1>1, <1>2, <1>7 DEF OpenFails, Shape, HasKey, Busy, Rotating, Saving
<1>8. CASE Creates(p)
  BY <1>2, <1>8 DEF Creates, HasKey, Busy, Rotating, Saving
<1>9. CASE \E x \in main \cup backup : Applied(p, x)
  <2>1. PICK x \in main \cup backup : Applied(p, x)
    BY <1>9
  <2>2. x.key \in given /\ x.key <= rotations
    BY <2>1, <1>2 DEF Applied, HasKey, Busy
  <2>3. QED
    BY <2>1, <2>2, <1>2 DEF Applied, HasKey, Busy, Rotating, Saving
<1>10. CASE RemoveBackup(p)
  BY <1>1, <1>2, <1>10 DEF RemoveBackup, MovesAside, Shape, HasKey, Busy, Rotating, Saving
<1>11. CASE MoveAside(p)
  BY <1>1, <1>2, <1>11 DEF MoveAside, Shape, HasKey, Busy, Rotating, Saving, PlaceInv
<1>12. CASE Swaps(p)
  <2>1. KeyOf(p) \in given /\ KeyOf(p) <= rotations
    BY <1>12, SaveKey DEF Swaps, Saving
  <2>2. Snapshot(p).key = KeyOf(p)
    BY DEF Snapshot
  <2>3. QED
    BY <2>1, <2>2, <1>2, <1>12 DEF Swaps, HasKey, Busy, Rotating, Saving
<1>13. CASE Fails(p)
  <2>1. \A x \in main' \cup backup' : x \in main \cup backup
    BY <1>13 DEF Fails
  <2>2. \A x \in main \cup backup : x.key \in given => x.key \in given'
    <3>1. CASE op[p] = "rotate"
      <4>1. Rotating(p)
        BY <3>1, <1>13 DEF Fails, Rotating
      <4>2. \A x \in main \cup backup : x.key # KeyOf(p)
        BY <4>1, NewKey
      <4>3. QED
        BY <3>1, <4>2, <1>13 DEF Fails
    <3>2. CASE op[p] # "rotate"
      BY <3>2, <1>13 DEF Fails
    <3>3. QED
      BY <3>1, <3>2
  <2>3. given' \subseteq given
    BY <1>13 DEF Fails
  <2>4. QED
    BY <2>1, <2>2, <2>3, <1>2, <1>13 DEF Fails, HasKey, Busy, Rotating, Saving
<1>14. CASE Edits(p)
  <2>1. /\ rotations \in Nat /\ key[p] \in Nat /\ \A x \in main \cup backup : x.key \in Nat
        /\ given \subseteq Keys /\ given # {} /\ \A k \in given : k \in Nat
        /\ rotations' = rotations \/ rotations' = rotations + 1
    BY <1>14, Typing, FileStorageAssumption DEF Edits, Keys
  <2>2. /\ \A k \in given : k <= rotations'
        /\ \A x \in main \cup backup : x.key <= rotations'
        /\ key[p] <= rotations' /\ rotations' \in Nat /\ rotations' <= rotations'
    BY <2>1, <1>2 DEF HasKey
  <2>3. pc'[p] = "save" => key[p] \in given
    BY <1>2, <1>14, CurrentMain DEF Edits
  <2>4. given' = given \/ given' = given \cup {rotations'}
    BY <1>14 DEF Edits
  <2>5. pc'[p] \in {"open", "absent", "save"}
    BY <1>14 DEF Edits
  <2>6. (pc'[p] = "save" /\ op'[p] = "rotate") =>
          /\ key[p] < Max(given') /\ \A x \in main \cup backup : x.key < Max(given')
    <3>1. SUFFICES ASSUME pc'[p] = "save", op'[p] = "rotate"
                   PROVE  /\ key[p] < Max(given')
                          /\ \A x \in main \cup backup : x.key < Max(given')
      OBVIOUS
    <3>2. given' = given \cup {rotations'} /\ rotations' = rotations + 1
      BY <3>1, <1>14 DEF Edits
    <3>3. given' \subseteq Keys /\ given' # {}
      <4>1. TypeOK'
        BY StepTypeOK
      <4>2. given' \in (SUBSET Keys) \ {{}}
        BY <4>1 DEF TypeOK
      <4>3. QED
        BY <4>2
    <3>4. Max(given') \in Keys /\ \A k \in given' : k <= Max(given')
      BY <3>3, GreatestKey
    <3>5. rotations + 1 <= Max(given') /\ Max(given') \in Nat
      <4>1. Max(given') \in Nat
        BY <3>4, FileStorageAssumption DEF Keys
      <4>2. rotations' \in given' /\ rotations' = rotations + 1
        BY <3>2
      <4>3. rotations' <= Max(given')
        BY <4>2, <3>4
      <4>4. QED
        BY <4>1, <4>2, <4>3
    <3>6. QED
      BY <3>5, <2>1, <1>2 DEF HasKey
  <2>7. QED
    BY <2>2, <2>3, <2>4, <2>5, <2>6, <1>2, <1>14 DEF Edits, HasKey, Busy, Rotating, Saving
<1>15. CASE Crash(p)
  BY <1>1, <1>2, <1>15 DEF Crash, Shape, HasKey, Busy, Rotating, Saving
<1>16. CASE Corrupt
  <2>1. pc'[p] \in {"absent", "open"} /\ key' = key /\ given' = given /\ rotations' = rotations
        /\ backup' = backup
    BY <1>16 DEF Corrupt, Locked
  <2>2. main # {} /\ \A y \in main' : ~y.whole /\ \E x \in main : y.key = x.key
    <3>1. main \in SUBSET File /\ main' = {[x EXCEPT !.whole = FALSE] : x \in main} /\ main # {}
      BY <1>16, Typing DEF Corrupt
    <3>2. QED
      BY <3>1, DamagedKeeps
  <2>3. main' # {}
    BY <2>2, <1>16 DEF Corrupt
  <2>4. QED
    BY <2>1, <2>2, <2>3, <1>2 DEF HasKey, Busy, Rotating, Saving
<1>17. QED
  BY <1>4, <1>5, <1>6, <1>7, <1>8, <1>9, <1>10, <1>11, <1>12, <1>13, <1>14, <1>15, <1>16,
     StepCases

------------------------------------------------------------------------------
(* Which changes go where.                                                 *)

(* A step that makes no change and takes none back.                        *)
Plain(p) ==
  /\ next' = next /\ refused' = refused
  /\ \A y \in main' \cup backup' : \E x \in main \cup backup : y.changes = x.changes
  /\ Live(p)' => Live(p) /\ memory'[p].changes = memory[p].changes
  /\ pending'[p] = {} \/ (pending'[p] = pending[p] /\ (Saving(p) => Saving(p)'))

LEMMA PlainSteps ==
  ASSUME TypeOK, FileInv, KeyInv, Alone, FreshInv, NEW p \in Procs, Step(p)
  PROVE  \/ Plain(p) \/ Creates(p) \/ (\E x \in main \cup backup : Applied(p, x))
         \/ Swaps(p) \/ Fails(p) \/ Edits(p)
<1> USE DEF files, instance, history, Plain, Live, Saving
<1>1. Shape /\ Fresh(p)
  BY TypeShape DEF FreshInv
<1>2. CASE Open(p)
  BY <1>1, <1>2 DEF Open, Shape
<1>3. CASE StartRestore(p)
  BY <1>1, <1>3 DEF StartRestore, Shape
<1>4. CASE CopyPart(p)
  <2>1. backup \in SUBSET File /\ main' = {[x EXCEPT !.whole = FALSE] : x \in backup}
    BY <1>4, Typing DEF CopyPart
  <2>2. \A y \in main' : \E x \in backup : y.changes = x.changes
    BY <2>1, DamagedKeeps
  <2>3. QED
    BY <2>2, <1>1, <1>4 DEF CopyPart, Shape
<1>5. CASE OpenFails(p)
  BY <1>1, <1>5 DEF OpenFails, Shape, Fresh
<1>6. CASE RemoveBackup(p)
  BY <1>1, <1>6 DEF RemoveBackup, Shape
<1>7. CASE MoveAside(p)
  BY <1>1, <1>7 DEF MoveAside, Shape
<1>8. CASE Crash(p)
  BY <1>1, <1>8 DEF Crash, Shape
<1>9. CASE Corrupt
  <2>1. main \in SUBSET File /\ main' = {[x EXCEPT !.whole = FALSE] : x \in main}
    BY <1>9, Typing DEF Corrupt
  <2>2. \A y \in main' : \E x \in main : y.changes = x.changes
    BY <2>1, DamagedKeeps
  <2>3. next' = next /\ refused' = refused
    BY <1>9 DEF Corrupt
  <2>4. QED
    BY <2>2, <2>3, <1>9 DEF Corrupt
<1>10. QED
  BY <1>2, <1>3, <1>4, <1>5, <1>6, <1>7, <1>8, <1>9, StepCases

(* A change that is refused is one under way, or a new one.                *)
LEMMA RefusedGrows ==
  ASSUME TypeOK, FileInv, KeyInv, Alone, FreshInv, NEW p \in Procs, Step(p)
  PROVE  /\ next' = next \/ next' = next + 1
         /\ \/ refused' = refused \/ refused' = refused \cup pending[p]
            \/ refused' = refused \cup {next} /\ next' = next + 1
<1> USE DEF files
<1>1. CASE Plain(p) \/ Creates(p) \/ (\E x \in main \cup backup : Applied(p, x))
  BY <1>1 DEF Plain, Creates, Applied
<1>2. CASE Swaps(p) \/ Fails(p)
  BY <1>2 DEF Swaps, Fails
<1>3. CASE Edits(p)
  BY <1>3 DEF Edits, Adds
<1>4. QED
  BY <1>1, <1>2, <1>3, PlainSteps

LEMMA KnownGrows ==
  ASSUME TypeOK, FileInv, KeyInv, Alone, FreshInv, NEW p \in Procs, Step(p),
         NEW c \in SUBSET Changes, Known(c)
  PROVE  Known(c)' /\ next \notin c
<1>1. next \in Nat /\ \A x \in c : x \in Nat /\ x < next
  <2>1. MaxChanges \in Nat /\ next \in Nat
    BY Typing, FileStorageAssumption
  <2>2. \A x \in c : x \in Nat
    BY <2>1 DEF Changes
  <2>3. QED
    BY <2>1, <2>2 DEF Known
<1>2. next' \in Nat /\ next <= next'
  BY <1>1, RefusedGrows
<1>3. next \notin c
  BY <1>1
<1>4. \A x \in c : x < next'
  BY <1>1, <1>2
<1>5. QED
  BY <1>3, <1>4 DEF Known

(* What is known and not under way stays unrefused.                        *)
LEMMA StaysUnrefused ==
  ASSUME TypeOK, FileInv, KeyInv, Alone, FreshInv, NEW p \in Procs, Step(p),
         NEW c \in SUBSET Changes, Known(c), c \cap refused = {}, c \cap pending[p] = {}
  PROVE  Known(c)' /\ c \cap refused' = {}
<1>1. next \notin c /\ Known(c)'
  BY KnownGrows
<1>2. QED
  BY <1>1, RefusedGrows

LEMMA StepFreshFiles ==
  ASSUME TypeOK, FileInv, KeyInv, Alone, FreshInv, NEW p \in Procs, Step(p)
  PROVE  /\ Known(refused)'
         /\ \A y \in main' \cup backup' : Known(y.changes)' /\ y.changes \cap refused' = {}
<1> USE DEF files
<1>1. /\ Known(refused) /\ Fresh(p) /\ next \in Nat
      /\ refused \in SUBSET Changes /\ pending[p] \in SUBSET Changes
  BY Typing DEF FreshInv, TypeOK
<1>2. Known(refused)'
  <2>1. Known(refused) /\ Known(pending[p])
    BY <1>1 DEF Fresh
  <2>2. (\A c \in refused : c < next') /\ (\A c \in pending[p] : c < next')
    BY <1>1, <2>1, KnownGrows DEF Known
  <2>3. next < next + 1
    BY <1>1
  <2>4. QED
    BY <2>2, <2>3, RefusedGrows DEF Known
<1>3. ASSUME NEW x \in main \cup backup
      PROVE  Known(x.changes)' /\ x.changes \cap refused' = {}
  <2>1. /\ x.changes \in SUBSET Changes /\ Known(x.changes) /\ x.changes \cap refused = {}
        /\ x.changes \cap pending[p] = {}
    BY <1>1, Typing DEF FreshInv, Fresh
  <2>2. QED
    BY <2>1, StaysUnrefused
<1>4. CASE Plain(p)
  BY <1>2, <1>3, <1>4 DEF Plain, Known
<1>5. CASE Creates(p) \/ (\E x \in main \cup backup : Applied(p, x)) \/ Fails(p) \/ Edits(p)
  <2>1. \A y \in main' \cup backup' : y \in main \cup backup
    BY <1>5 DEF Creates, Applied, Fails, Edits
  <2>2. QED
    BY <2>1, <1>2, <1>3
<1>6. CASE Swaps(p)
  <2>1. Live(p) /\ refused' = refused /\ next' = next
    BY <1>6 DEF Swaps, Live, Saving
  <2>2. Known(memory[p].changes) /\ memory[p].changes \cap refused = {}
    BY <2>1, <1>1 DEF Fresh
  <2>3. \A y \in main' : y.changes = memory[p].changes
    BY <1>6 DEF Swaps, Snapshot
  <2>4. backup' = backup
    BY <1>6 DEF Swaps
  <2>5. QED
    BY <2>1, <2>2, <2>3, <2>4, <1>2, <1>3 DEF Known
<1>7. QED
  BY <1>4, <1>5, <1>6, PlainSteps

(* Of the process that moves.                                              *)
LEMMA StepFreshOwn ==
  ASSUME TypeOK, FileInv, KeyInv, Alone, FreshInv, NEW p \in Procs, Step(p)
  PROVE  Fresh(p)'
<1> USE DEF files
<1>1. /\ Fresh(p) /\ next \in Nat /\ memory[p].changes \in SUBSET Changes
      /\ pending[p] \in SUBSET Changes
      /\ \A x \in main \cup backup : Known(x.changes) /\ x.changes \cap refused = {}
                                     /\ x.changes \in SUBSET Changes
  BY Typing DEF FreshInv
<1>2. Known({})'
  BY DEF Known
<1>3. CASE Plain(p)
  <2>1. Live(p)' => /\ \A c \in memory'[p].changes : c < next'
                    /\ memory'[p].changes \cap refused' = {}
    BY <1>1, <1>3 DEF Plain, Fresh, Known
  <2>2. (\A c \in pending'[p] : c < next') /\ \A y \in main' \cup backup' : pending'[p] \cap y.changes = {}
    BY <1>1, <1>3 DEF Plain, Fresh, Known
  <2>3. pending'[p] # {} => Saving(p)'
    BY <1>1, <1>3 DEF Plain, Fresh
  <2>4. QED
    BY <2>1, <2>2, <2>3 DEF Fresh, Known
<1>4. CASE Creates(p)
  <2>1. pending'[p] = {}
    BY <1>1, <1>4 DEF Creates, Fresh, Saving
  <2>2. \A c \in refused : c < next
    BY DEF FreshInv, Known
  <2>3. next < next' /\ next \notin refused' /\ memory'[p].changes = {next}
    <3>1. refused \in SUBSET Changes
      BY DEF TypeOK
    <3>2. next \notin refused
      BY <2>2, <1>1
    <3>3. QED
      BY <3>2, <1>1, <1>4 DEF Creates
  <2>4. QED
    BY <2>1, <2>3, <1>2 DEF Fresh, Known
<1>5. CASE \E x \in main \cup backup : Applied(p, x)
  <2>1. PICK x \in main \cup backup : Applied(p, x)
    BY <1>5
  <2>2. pending'[p] = {} /\ memory'[p].changes = x.changes /\ refused' = refused /\ next' = next
    BY <2>1, <1>1 DEF Applied, Fresh, Saving
  <2>3. QED
    BY <2>2, <1>1 DEF Fresh, Known
<1>6. CASE Swaps(p)
  BY <1>1, <1>6 DEF Swaps, Fresh, Live, Saving, Known
<1>7. CASE Fails(p)
  BY <1>1, <1>7 DEF Fails, Fresh, Live, Known
<1>8. CASE Edits(p)
  <2>1. /\ Live(p) /\ pending[p] = {} /\ Known(memory[p].changes)
        /\ memory[p].changes \cap refused = {}
    BY <1>1, <1>8 DEF Edits, Fresh, Live, Saving
  <2>2. /\ \A c \in memory[p].changes : c < next' 
        /\ next \notin memory[p].changes /\ memory[p].changes \cap refused' = {}
    BY <2>1, <1>1, KnownGrows, StaysUnrefused DEF Known
  <2>3. next \notin refused
    <3>1. \A c \in refused : c < next
      BY DEF FreshInv, Known
    <3>2. QED
      BY <3>1, <1>1
  <2>4. \A x \in main \cup backup : next \notin x.changes
    BY <1>1, KnownGrows
  <2>5. CASE Adds(p)
    <3>1. next < next' /\ refused' = refused /\ memory'[p].changes = memory[p].changes \cup {next}
      BY <2>5, <1>1 DEF Adds
    <3>2. (\A c \in memory'[p].changes : c < next') /\ memory'[p].changes \cap refused' = {}
      BY <3>1, <2>1, <2>2, <2>3 DEF Known
    <3>3. pending'[p] = {} \/ (pending'[p] = {next} /\ Saving(p)')
      BY <2>1, <2>5, <1>8, <1>1 DEF Edits, Adds, Saving
    <3>4. QED
      BY <3>1, <3>2, <3>3, <2>4, <1>2, <1>8 DEF Fresh, Known, Edits
  <2>6. CASE ~Adds(p)
    <3>1. memory' = memory /\ pending'[p] = {}
      BY <2>1, <2>6, <1>8 DEF Edits
    <3>2. QED
      BY <3>1, <2>2, <1>2 DEF Fresh, Known
  <2>7. QED
    BY <2>5, <2>6
<1>9. QED
  BY <1>3, <1>4, <1>5, <1>6, <1>7, <1>8, PlainSteps

(* Of the others.                                                          *)
LEMMA OthersFresh ==
  ASSUME TypeOK, FileInv, KeyInv, Alone, FreshInv, NEW p \in Procs, Step(p),
         NEW q \in Procs \ {p}
  PROVE  Fresh(q)' /\ Private(p, q)' /\ Private(q, p)'
<1> USE DEF files
<1>1. /\ Fresh(p) /\ Fresh(q) /\ Others(p) /\ Private(p, q) /\ Private(q, p)
      /\ memory[q].changes \in SUBSET Changes /\ pending[q] \in SUBSET Changes
  <2>1. q \in Procs /\ p \in Procs \ {q}
    OBVIOUS
  <2>2. QED
    BY <2>1, TypeShape, StepShape, Typing DEF FreshInv
<1>2. /\ Live(q)' = Live(q) /\ Saving(q)' = Saving(q)
      /\ memory'[q] = memory[q] /\ pending'[q] = pending[q]
  BY <1>1 DEF Others, Live, Saving
<1>3. Live(q) => /\ \A c \in memory[q].changes : c < next'
                 /\ memory[q].changes \cap refused' = {}
  <2>1. ASSUME NEW c \in SUBSET Changes, Known(c), c \cap refused = {}, c \cap pending[p] = {}
        PROVE  (\A x \in c : x < next') /\ c \cap refused' = {}
    BY <2>1, StaysUnrefused DEF Known
  <2>2. QED
    BY <2>1, <1>1 DEF Fresh, Private
<1>4. pending[q] # {} => Busy(q)
  BY <1>1 DEF Fresh, Saving, Busy
<1>5. Fresh(q)'
  <2>1. \A c \in pending[q] : c < next'
    <3>1. ASSUME NEW c \in SUBSET Changes, Known(c) PROVE \A x \in c : x < next'
      BY <3>1, KnownGrows DEF Known
    <3>2. QED
      BY <3>1, <1>1 DEF Fresh
  <2>2. \A y \in main' \cup backup' : pending[q] \cap y.changes = {}
    BY <1>1, <1>4, Quiet DEF Fresh
  <2>3. QED
    BY <2>1, <2>2, <1>1, <1>2, <1>3 DEF Fresh, Known
<1>6. Private(p, q)'
  <2>1. Live(q) => next \notin memory[q].changes
    BY <1>1, KnownGrows DEF Fresh
  <2>2. pending'[p] \subseteq pending[p] \cup {next}
    <3>1. CASE Plain(p) \/ Creates(p) \/ (\E x \in main \cup backup : Applied(p, x))
      BY <3>1 DEF Plain, Creates, Applied
    <3>2. CASE Swaps(p) \/ Fails(p)
      BY <3>2 DEF Swaps, Fails
    <3>3. CASE Edits(p)
      BY <3>3 DEF Edits
    <3>4. QED
      BY <3>1, <3>2, <3>3, PlainSteps
  <2>3. QED
    BY <2>1, <2>2, <1>1, <1>2 DEF Private
<1>7. Private(q, p)'
  <2>1. CASE pending[q] = {}
    BY <2>1, <1>2 DEF Private
  <2>2. CASE pending[q] # {}
    <3>1. Busy(q) /\ ~Busy(p)
      BY <2>2, <1>4 DEF Alone
    <3>2. next \notin pending[q]
      BY <1>1, KnownGrows DEF Fresh
    <3>3. Live(p)' => Live(p) /\ memory'[p].changes \subseteq memory[p].changes \cup {next}
      <4>1. CASE Plain(p)
        BY <4>1 DEF Plain
      <4>2. CASE Creates(p) \/ (\E x \in main \cup backup : Applied(p, x)) \/ Swaps(p) \/ Fails(p)
        BY <4>2, <3>1 DEF Creates, Applied, Swaps, Fails, Busy, Saving
      <4>3. CASE Edits(p)
        <5>1. memory' = memory \/ memory'[p].changes = memory[p].changes \cup {next}
          BY <4>3 DEF Edits, Adds
        <5>2. QED
          BY <5>1, <4>3 DEF Edits, Live
      <4>4. QED
        BY <4>1, <4>2, <4>3, PlainSteps
    <3>4. QED
      BY <3>2, <3>3, <1>1, <1>2 DEF Private
  <2>3. QED
    BY <2>1, <2>2
<1>8. QED
  BY <1>5, <1>6, <1>7

LEMMA StepFreshInv ==
  ASSUME TypeOK, FileInv, KeyInv, Alone, FreshInv, NEW p \in Procs, Step(p)
  PROVE  FreshInv'
<1>1. \A q \in Procs : Fresh(q)'
  BY StepFreshOwn, OthersFresh
<1>2. ASSUME NEW q \in Procs, NEW r \in Procs \ {q}, q # p, r # p PROVE Private(q, r)'
  <2>1. Others(p) /\ Private(q, r)
    BY TypeShape, StepShape DEF FreshInv
  <2>2. QED
    BY <2>1, <1>2 DEF Others, Private, Live, Saving
<1>3. \A q \in Procs : \A r \in Procs \ {q} : Private(q, r)'
  <2>1. SUFFICES ASSUME NEW q \in Procs, NEW r \in Procs \ {q} PROVE Private(q, r)'
    OBVIOUS
  <2>2. CASE q = p
    BY <2>2, OthersFresh
  <2>3. CASE r = p
    BY <2>3, OthersFresh
  <2>4. CASE q # p /\ r # p
    BY <2>4, <1>2
  <2>5. QED
    BY <2>2, <2>3, <2>4
<1>4. QED
  BY <1>1, <1>3, StepFreshFiles DEF FreshInv

------------------------------------------------------------------------------
(* The debounce.                                                           *)

LEMMA StepScheduleInv ==
  ASSUME TypeOK, FileInv, KeyInv, ScheduleInv, NEW p \in Procs, Step(p)
  PROVE  ScheduleInv'
<1>1. Shape /\ Others(p) /\ Scheduled(p)
  BY TypeShape, StepShape DEF ScheduleInv
<1>2. \A q \in Procs \ {p} : Scheduled(q)'
  BY <1>1 DEF ScheduleInv, Scheduled, Others, Saving
<1>3. Scheduled(p)'
  <2> USE DEF files, instance, history, Scheduled, Saving
  <2>1. CASE Open(p) \/ StartRestore(p) \/ CopyPart(p) \/ OpenFails(p)
    BY <2>1, <1>1 DEF Open, StartRestore, CopyPart, OpenFails, Shape
  <2>2. CASE Creates(p) \/ (\E x \in main \cup backup : Applied(p, x))
    BY <2>2 DEF Creates, Applied
  <2>3. CASE RemoveBackup(p) \/ MoveAside(p)
    BY <2>3, <1>1 DEF RemoveBackup, MoveAside, Shape
  <2>4. CASE Swaps(p) \/ Fails(p) \/ Edits(p)
    BY <2>4 DEF Swaps, Fails, Edits
  <2>5. CASE Crash(p) \/ Corrupt
    BY <2>5, <1>1 DEF Crash, Corrupt, Shape
  <2>6. QED
    BY <2>1, <2>2, <2>3, <2>4, <2>5, StepCases
<1>4. QED
  BY <1>2, <1>3 DEF ScheduleInv

------------------------------------------------------------------------------
(* What is saved, if damage happens at rest.                               *)

(* Between two saves create() goes by the same snapshot, wherever it is.    *)
Settled(p) ==
  /\ Latest' = Latest /\ saved' = saved
  /\ \A x \in Latest : x.key \in given' <=> x.key \in given
  /\ \A y \in backup' : y \in backup \cup Latest
  /\ \A y \in backup : y.key \in given' => y.key \in given

LEMMA Settles ==
  ASSUME TypeOK, FileInv, KeyInv, NEW p \in Procs, Step(p)
  PROVE  Settled(p) \/ Swaps(p) \/ Corrupt
<1> USE DEF files, instance, history, Settled
<1>1. Shape /\ PlaceInv(p) /\ \A x \in main : main = {x}
  BY TypeShape, Typing DEF FileInv
<1>2. CASE Open(p) \/ OpenFails(p) \/ Creates(p) \/ Crash(p)
  BY <1>2 DEF Open, OpenFails, Creates, Crash, Latest, Whole
<1>3. CASE StartRestore(p)
  BY <1>3 DEF StartRestore, Latest, Whole
<1>4. CASE CopyPart(p)
  <2>1. backup \in SUBSET File /\ main' = {[x EXCEPT !.whole = FALSE] : x \in backup}
    BY <1>4, Typing DEF CopyPart
  <2>2. \A y \in main' : ~y.whole
    BY <2>1, DamagedKeeps
  <2>3. ~Whole
    BY <1>1, <1>4 DEF CopyPart, PlaceInv
  <2>4. QED
    BY <2>2, <2>3, <1>4 DEF CopyPart, Latest, Whole
<1>5. CASE \E x \in main \cup backup : Applied(p, x)
  <2>1. PICK x \in main \cup backup : Applied(p, x)
    BY <1>5
  <2>2. x \in Latest /\ Latest = {x}
    BY <2>1, Typing DEF Applied, Latest
  <2>3. Latest' = {x}
    BY <2>1 DEF Applied, Latest, Whole
  <2>4. x.key \in given
    BY <2>1 DEF Applied, KeyInv, HasKey, Busy
  <2>5. QED
    BY <2>1, <2>2, <2>3, <2>4 DEF Applied
<1>6. CASE RemoveBackup(p)
  BY <1>1, <1>6 DEF RemoveBackup, MovesAside, PlaceInv, Latest, Whole
<1>7. CASE MoveAside(p)
  BY <1>1, <1>7 DEF MoveAside, PlaceInv, Latest, Whole
<1>8. CASE Fails(p)
  <2>1. Latest' = Latest
    BY <1>8 DEF Fails, Latest, Whole, FileInv
  <2>2. Latest \subseteq main \cup backup
    BY DEF Latest
  <2>3. \A x \in main \cup backup : x.key \in given' <=> x.key \in given
    <3>1. CASE op[p] = "rotate"
      <4>1. Rotating(p)
        BY <3>1, <1>8 DEF Fails, Rotating
      <4>2. \A x \in main \cup backup : x.key # KeyOf(p)
        BY <4>1, NewKey
      <4>3. QED
        BY <3>1, <4>2, <1>8 DEF Fails
    <3>2. CASE op[p] # "rotate"
      BY <3>2, <1>8 DEF Fails
    <3>3. QED
      BY <3>1, <3>2
  <2>4. QED
    BY <2>1, <2>2, <2>3, <1>8 DEF Fails
<1>9. CASE Edits(p)
  <2>1. Latest' = Latest /\ Latest \subseteq main \cup backup
    BY <1>9 DEF Edits, Latest, Whole
  <2>2. \A x \in main \cup backup : x.key \in given' <=> x.key \in given
    <3>1. \A x \in main \cup backup : x.key # rotations + 1
      BY Typing DEF KeyInv
    <3>2. QED
      BY <3>1, <1>9 DEF Edits
  <2>3. QED
    BY <2>1, <2>2, <1>9 DEF Edits
<1>10. QED
  BY <1>2, <1>3, <1>4, <1>5, <1>6, <1>7, <1>8, <1>9, StepCases

LEMMA StepSavedIs ==
  ASSUME TypeOK, FileInv, KeyInv, KeptInv, NEW p \in Procs, Step(p)
  PROVE  /\ saved' = UNION {x.changes : x \in {y \in Latest' : y.key \in given'}}
         /\ \A x \in backup' : x.key \in given' => x.changes \subseteq saved'
<1>1. /\ saved = UNION {x.changes : x \in {y \in Latest : y.key \in given}}
      /\ \A x \in backup : x.key \in given => x.changes \subseteq saved
      /\ Kept(p)
  BY DEF KeptInv
<1>2. CASE Settled(p)
  <2>1. {y \in Latest' : y.key \in given'} = {y \in Latest : y.key \in given}
    BY <1>2 DEF Settled
  <2>2. saved' = UNION {x.changes : x \in {y \in Latest' : y.key \in given'}}
    BY <2>1, <1>1, <1>2 DEF Settled
  <2>3. \A x \in Latest : x.key \in given => x.changes \subseteq saved
    BY <1>1
  <2>4. QED
    BY <2>2, <2>3, <1>1, <1>2 DEF Settled
<1>3. CASE Swaps(p)
  <2>1. saved' = memory[p].changes /\ saved \subseteq saved'
    BY <1>1, <1>3 DEF Swaps, Kept, Saving
  <2>2. KeyOf(p) \in given /\ KeyOf(p) \in given' /\ given' \subseteq given
    BY <1>3, SaveKey DEF Swaps, Saving
  <2>3. Latest' = {Snapshot(p)}
    BY <1>3 DEF Swaps, Latest, Whole, Snapshot
  <2>4. Snapshot(p).key = KeyOf(p) /\ Snapshot(p).changes = memory[p].changes
    BY DEF Snapshot
  <2>5. {y \in Latest' : y.key \in given'} = {Snapshot(p)}
    BY <2>2, <2>3, <2>4
  <2>6. saved' = UNION {x.changes : x \in {y \in Latest' : y.key \in given'}}
    BY <2>1, <2>4, <2>5
  <2>7. backup' = backup
    BY <1>3 DEF Swaps
  <2>8. QED
    BY <2>1, <2>2, <2>6, <2>7, <1>1
<1>4. CASE Corrupt
  <2>1. /\ saved' = saved \cap UNION {x.changes : x \in {y \in backup : y.key \in given}}
        /\ backup' = backup /\ given' = given
    BY <1>4 DEF Corrupt
  <2>2. Latest' = backup
    <3>1. main \in SUBSET File /\ main' = {[x EXCEPT !.whole = FALSE] : x \in main}
      BY <1>4, Typing DEF Corrupt
    <3>2. \A y \in main' : ~y.whole
      BY <3>1, DamagedKeeps
    <3>3. QED
      BY <2>1, <3>2 DEF Latest, Whole
  <2>3. UNION {x.changes : x \in {y \in backup : y.key \in given}} \subseteq saved
    BY <1>1
  <2>4. saved' = UNION {x.changes : x \in {y \in backup : y.key \in given}}
    BY <2>1, <2>3
  <2>5. QED
    BY <2>1, <2>2, <2>4
<1>5. QED
  BY <1>2, <1>3, <1>4, Settles

(* Of the process that moves.                                              *)
LEMMA StepKeptOwn ==
  ASSUME TypeOK, FileInv, KeyInv, FreshInv, ScheduleInv, DamageAtRest, KeptInv,
         NEW p \in Procs, Step(p)
  PROVE  Kept(p)'
<1> USE DEF files, instance, history
<1>1. /\ Shape /\ Kept(p) /\ PlaceInv(p) /\ Fresh(p) /\ Scheduled(p)
      /\ memory[p].revision \in Nat /\ dirty[p] \in BOOLEAN
      /\ saved = UNION {x.changes : x \in {y \in Latest : y.key \in given}}
  BY TypeShape, Typing DEF KeptInv, FileInv, FreshInv, ScheduleInv
<1>2. CASE Open(p) \/ StartRestore(p) \/ CopyPart(p) \/ OpenFails(p) \/ Crash(p)
  <2>1. ~Live(p)'
    BY <1>1, <1>2 DEF Open, StartRestore, CopyPart, OpenFails, Crash, Shape, Live, Saving
  <2>2. QED
    BY <2>1 DEF Kept, Live
<1>3. CASE Corrupt
  <2>1. pc'[p] = "absent"
    BY <1>3 DEF Corrupt
  <2>2. QED
    BY <2>1 DEF Kept, Live, Saving
<1>4. CASE Creates(p)
  <2>1. main = {} /\ backup = {} /\ main' = {} /\ backup' = {}
    BY <1>4 DEF Creates, FileInv
  <2>2. Latest = {} /\ Latest' = {}
    BY <2>1 DEF Latest, Whole
  <2>3. saved = {} /\ saved' = {}
    BY <2>2, <1>1, <1>4 DEF Creates
  <2>4. QED
    BY <2>2, <2>3, <1>4 DEF Creates, Kept, Creating, Saving
<1>5. CASE \E x \in main \cup backup : Applied(p, x)
  <2>1. PICK x \in main \cup backup : Applied(p, x)
    BY <1>5
  <2>2. x \in Latest /\ x.key \in given
    BY <2>1 DEF Applied, KeyInv, HasKey, Busy
  <2>3. x.changes \subseteq saved
    BY <2>2, <1>1
  <2>4. x \in Latest'
    BY <2>1 DEF Applied, Latest, Whole
  <2>5. Ahead(x, p)'
    <3>1. x.revision \in Nat
      BY Typing
    <3>2. QED
      BY <3>1, <2>1 DEF Applied, Ahead
  <2>6. QED
    BY <2>1, <2>3, <2>4, <2>5 DEF Applied, Kept, Saving
<1>6. CASE RemoveBackup(p) \/ MoveAside(p)
  <2>1. Saving(p) /\ Saving(p)' /\ op' = op /\ memory' = memory /\ pc'[p] # "open"
    BY <1>1, <1>6 DEF RemoveBackup, MoveAside, Shape, Saving
  <2>2. Latest' = Latest /\ saved' = saved
    <3>1. ~Swaps(p) \/ (Latest' = Latest /\ saved' = saved)
      BY <2>1 DEF Swaps, Saving
    <3>2. ~Corrupt
      BY <1>1, <1>6 DEF Corrupt, RemoveBackup, MoveAside, Locked
    <3>3. QED
      BY <3>1, <3>2, Settles DEF Settled
  <2>3. QED
    BY <2>1, <2>2, <1>1 DEF Kept, Live, Creating, Ahead
<1>7. CASE Swaps(p)
  <2>1. PICK x : x = Snapshot(p)
    OBVIOUS
  <2>2. x \in Latest'
    BY <2>1, <1>7 DEF Swaps, Latest, Whole, Snapshot
  <2>3. x.revision = memory'[p].revision /\ x.changes = memory'[p].changes
    BY <2>1, <1>7 DEF Swaps, Snapshot
  <2>4. Ahead(x, p)'
    <3>1. memory'[p].revision = memory[p].revision + 1 /\ memory'[p].revision \in Nat
      BY <1>1, <1>7 DEF Swaps
    <3>2. QED
      BY <3>1, <2>3 DEF Ahead
  <2>5. pc'[p] \in {"absent", "open"} /\ memory'[p].changes \subseteq saved'
    BY <1>7 DEF Swaps
  <2>6. QED
    BY <2>2, <2>4, <2>5 DEF Kept, Saving
<1>8. CASE Fails(p)
  <2>1. Latest' = Latest /\ saved' = saved /\ dirty'[p]
    BY <1>1, <1>8 DEF Fails, Latest, Whole, FileInv, Scheduled
  <2>2. ~Saving(p)' /\ (Live(p)' => pc'[p] = "open" /\ op[p] # "create")
    BY <1>8 DEF Fails, Live, Saving
  <2>3. Live(p)' => \E x \in Latest : Ahead(x, p)
    BY <2>2, <1>1, <1>8 DEF Fails, Kept, Live, Creating
  <2>4. \A x \in Latest : pending[p] \cap x.changes = {}
    BY <1>1 DEF Fresh, Latest
  <2>5. \A x \in Latest : Ahead(x, p) => Ahead(x, p)'
    BY <2>4, <1>8 DEF Fails, Ahead
  <2>6. Live(p)' => \E x \in Latest' : Ahead(x, p)'
    BY <2>1, <2>3, <2>5
  <2>7. QED
    BY <2>1, <2>2, <2>6 DEF Kept
<1>9. CASE Edits(p)
  <2>1. /\ Latest' = Latest /\ saved' = saved /\ pc[p] = "open" /\ Live(p) /\ ~Creating(p)
        /\ memory'[p].revision = memory[p].revision
        /\ memory[p].changes \subseteq memory'[p].changes
    BY <1>9 DEF Edits, Adds, Latest, Whole, Live, Creating, Saving
  <2>2. PICK x \in Latest : Ahead(x, p)
    BY <2>1, <1>1 DEF Kept
  <2>3. Ahead(x, p)'
    BY <2>1, <2>2 DEF Ahead
  <2>4. pc'[p] = "open" /\ ~dirty'[p] => memory'[p].changes \subseteq saved'
    BY <2>1, <1>1, <1>9 DEF Edits, Kept
  <2>5. pc'[p] = "save" => /\ saved \subseteq memory'[p].changes
                           /\ \A y \in Latest : y.revision = memory[p].revision
    <3>1. SUFFICES ASSUME RevisionCurrent(p)
                   PROVE  /\ saved \subseteq memory'[p].changes
                          /\ \A y \in Latest : y.revision = memory[p].revision
      BY <1>9 DEF Edits
    <3>2. PICK y \in main : main = {y} /\ y.whole /\ y.revision = memory[p].revision
      BY <2>1, <3>1, CurrentMain
    <3>3. Latest = {x} /\ x = y
      BY <2>2, <3>2 DEF Latest, Whole
    <3>4. x.changes \subseteq memory[p].changes
      BY <2>2, <3>2, <3>3 DEF Ahead
    <3>5. saved \subseteq x.changes
      BY <3>3, <1>1
    <3>6. QED
      BY <2>1, <3>2, <3>3, <3>4, <3>5
  <2>6. pc'[p] \in {"open", "absent", "save"}
    BY <1>9 DEF Edits
  <2>7. QED
    BY <2>1, <2>2, <2>3, <2>4, <2>5, <2>6 DEF Kept, Saving
<1>10. QED
  BY <1>2, <1>3, <1>4, <1>5, <1>6, <1>7, <1>8, <1>9, StepCases

(* Of the others: they are behind the snapshot that a save makes.           *)
LEMMA OthersKept ==
  ASSUME TypeOK, FileInv, KeyInv, Alone, DamageAtRest, KeptInv, NEW p \in Procs, Step(p),
         NEW q \in Procs \ {p}
  PROVE  Kept(q)'
<1>1. Others(p) /\ Kept(p) /\ Kept(q) /\ memory[p].revision \in Nat /\ memory[q].revision \in Nat
  BY TypeShape, StepShape, Typing DEF KeptInv
<1>2. /\ Live(q)' = Live(q) /\ Saving(q)' = Saving(q) /\ Creating(q)' = Creating(q)
      /\ memory'[q] = memory[q] /\ pc'[q] = pc[q] /\ dirty'[q] = dirty[q]
  BY <1>1 DEF Others, Live, Saving, Creating
<1>3. CASE Settled(p)
  BY <1>1, <1>2, <1>3 DEF Settled, Kept, Ahead
<1>4. CASE Swaps(p)
  <2>1. Saving(p) /\ ~Saving(q)
    BY <1>4 DEF Swaps, Saving, Busy, Alone
  <2>2. PICK new : Latest' = {new} /\ new.revision = memory[p].revision + 1
    <3>1. Latest' = {Snapshot(p)} /\ Snapshot(p).revision = memory[p].revision + 1
      BY <1>4 DEF Swaps, Latest, Whole, Snapshot
    <3>2. QED
      BY <3>1
  <2>3. Live(q) => memory[q].revision <= memory[p].revision
    <3>1. Live(q) => \E x \in Latest : Ahead(x, q)
      BY <2>1, <1>1 DEF Kept, Creating
    <3>2. QED
      BY <2>1, <3>1, <1>1 DEF Kept, Ahead
  <2>4. Live(q) => Ahead(new, q)'
    <3>1. Live(q) => memory[q].revision # new.revision /\ memory[q].revision <= new.revision
      BY <2>2, <2>3, <1>1
    <3>2. QED
      BY <3>1, <1>2 DEF Ahead
  <2>5. saved \subseteq saved'
    BY <1>4 DEF Swaps
  <2>6. QED
    BY <2>1, <2>2, <2>4, <2>5, <1>1, <1>2 DEF Kept
<1>5. CASE Corrupt
  <2>1. pc[q] = "absent"
    BY <1>5 DEF Corrupt
  <2>2. QED
    BY <2>1, <1>2 DEF Kept, Live, Saving
<1>6. QED
  BY <1>3, <1>4, <1>5, Settles

LEMMA StepKeptInv ==
  ASSUME TypeOK, FileInv, KeyInv, Alone, FreshInv, ScheduleInv, DamageAtRest, KeptInv,
         NEW p \in Procs, Step(p)
  PROVE  KeptInv'
<1>1. \A q \in Procs : Kept(q)'
  BY StepKeptOwn, OthersKept
<1>2. QED
  BY <1>1, StepSavedIs DEF KeptInv

------------------------------------------------------------------------------
(* The theorems.                                                           *)

LEMMA InitIInv ==
  ASSUME Init
  PROVE  IInv
<1>1. TypeOK
  <2>1. 0 \in Keys /\ 0 \in 0..(MaxChanges + 1) /\ 0 \in 0..MaxCorruptions
    BY FileStorageAssumption DEF Keys
  <2>2. [revision |-> 0, changes |-> {}] \in Memory
    BY DEF Memory
  <2>3. {0} \in (SUBSET Keys) \ {{}}
    BY <2>1
  <2>4. {} \in AtMostOne(Changes)
    BY DEF AtMostOne
  <2>5. QED
    BY <2>1, <2>2, <2>3, <2>4 DEF Init, TypeOK, Operations
<1>2. \A p \in Procs : pc[p] = "absent" /\ pending[p] = {} /\ key[p] = 0
  BY DEF Init
<1>3. Used /\ Alone /\ FileInv
  BY <1>2 DEF Init, Used, Alone, Busy, FileInv, PlaceInv, Live, Creating, Saving
<1>4. KeyInv
  BY <1>2 DEF Init, KeyInv, HasKey, Busy, Rotating, Saving
<1>5. FreshInv
  BY <1>2 DEF Init, FreshInv, Fresh, Private, Known, Live, Saving
<1>6. ScheduleInv
  BY <1>2 DEF ScheduleInv, Scheduled, Saving
<1>7. KeptInv
  BY <1>2 DEF Init, KeptInv, Kept, Latest, Whole, Live, Saving
<1>8. QED
  BY <1>1, <1>3, <1>4, <1>5, <1>6, <1>7 DEF IInv, Inv

LEMMA NextStep ==
  ASSUME Used, Next
  PROVE  \E p \in Procs : Step(p)
<1>1. CASE Corrupt
  <2>1. Procs # {}
    BY <1>1 DEF Corrupt, Used
  <2>2. QED
    BY <2>1, <1>1 DEF Step
<1>2. CASE ~Corrupt
  BY <1>2 DEF Next, Create, SaveUnlocked, Step
<1>3. QED
  BY <1>1, <1>2

LEMMA NextIInv ==
  ASSUME IInv, [Next]_vars
  PROVE  IInv'
<1>1. CASE Next
  <2>1. PICK p \in Procs : Step(p)
    BY <1>1, NextStep DEF IInv, Inv
  <2>2. TypeOK' /\ FileInv' /\ KeyInv' /\ Alone' /\ FreshInv' /\ ScheduleInv'
    BY <2>1, StepTypeOK, StepFileInv, StepKeyInv, StepAlone, StepFreshInv, StepScheduleInv
    DEF IInv, Inv
  <2>3. DamageAtRest => KeptInv'
    BY <2>1, StepKeptInv DEF IInv, Inv
  <2>4. Used'
    BY <2>1 DEF Used
  <2>5. QED
    BY <2>2, <2>3, <2>4 DEF IInv, Inv
<1>2. CASE UNCHANGED vars
  BY <1>2 DEF IInv, Inv, vars, files, instance, history, TypeOK, Used, Alone, Busy, FileInv,
     PlaceInv, KeyInv, HasKey, FreshInv, Fresh, Private, Known, ScheduleInv, Scheduled, KeptInv,
     Kept, Ahead, Latest, Whole, Live, Saving, Creating, Rotating
<1>3. QED
  BY <1>1, <1>2

(* The invariant that holds all that is needed, for any constants.         *)
THEOREM IInvHolds == Spec => []IInv
<1>1. Init => IInv
  BY InitIInv
<1>2. IInv /\ [Next]_vars => IInv'
  BY NextIInv
<1>3. QED
  BY <1>1, <1>2, PTL DEF Spec

(* Files, memories and keys are what they should be; the application always *)
(* has a key to give to create().                                          *)
THEOREM TypeCorrect == Spec => []TypeOK
<1>1. IInv => TypeOK
  BY DEF IInv
<1>2. QED
  BY <1>1, IInvHolds, PTL

(* A reservation that was reported as failed comes to light neither in a    *)
(* file nor in a memory, whenever the snapshot is damaged.                  *)
THEOREM RefusedIsForgottenHolds == Spec => []RefusedIsForgotten
<1>1. IInv => RefusedIsForgotten
  BY DEF IInv, Inv, FreshInv, Fresh, Live, RefusedIsForgotten, Loadable
<1>2. QED
  BY <1>1, IInvHolds, PTL

(* What is saved is what the next create() loads, with a key that the       *)
(* application has, if damage happens at rest.                             *)
THEOREM SavedIsKeptHolds ==
  ASSUME DamageAtRest
  PROVE  Spec => []SavedIsKept
<1>1. IInv => SavedIsKept
  <2>1. SUFFICES ASSUME IInv PROVE SavedIsKept
    OBVIOUS
  <2>2. /\ saved = UNION {x.changes : x \in {y \in Latest : y.key \in given}}
        /\ \A x \in backup : x.whole
        /\ given # {}
    BY <2>1, DamageAtRest, Typing DEF IInv, Inv, KeptInv, FileInv
  <2>3. CASE \E x \in Latest : x.key \in given
    <3>1. PICK x \in Latest : x.key \in given
      BY <2>3
    <3>2. Latest = {x}
      BY <2>1, <3>1, Typing DEF IInv, Latest
    <3>3. x \in Loadable(x.key)
      BY <2>2, <3>1, <3>2 DEF Latest, Whole, Loadable
    <3>4. saved \subseteq x.changes
      BY <2>2, <3>2
    <3>5. QED
      BY <3>1, <3>3, <3>4 DEF SavedIsKept
  <2>4. CASE ~\E x \in Latest : x.key \in given
    <3>1. saved = {}
      BY <2>2, <2>4
    <3>2. QED
      BY <3>1, <2>2 DEF SavedIsKept
  <2>5. QED
    BY <2>3, <2>4
<1>2. QED
  BY <1>1, IInvHolds, PTL

(* An instance with something to save knows it, and has a save ahead or has *)
(* told the application that one failed, if damage happens at rest.         *)
THEOREM UnsavedIsScheduledHolds ==
  ASSUME DamageAtRest
  PROVE  Spec => []UnsavedIsScheduled
<1>1. IInv => UnsavedIsScheduled
  BY DamageAtRest DEF IInv, Inv, KeptInv, Kept, ScheduleInv, Scheduled, UnsavedIsScheduled
<1>2. QED
  BY <1>1, IInvHolds, PTL
==============================================================================
