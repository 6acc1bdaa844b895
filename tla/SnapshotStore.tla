---------------------------- MODULE SnapshotStore ----------------------------
(***************************************************************************)
(* What several FileSignalStorage instances on one file promise together:  *)
(* the file is a register with a revision, and an instance replaces it     *)
(* only on top of the revision it loaded.  So an update that one instance  *)
(* was told is saved is never overwritten by another.                      *)
(***************************************************************************)
EXTENDS Naturals

CONSTANTS Instances, Updates

VARIABLES file,    \* the snapshot: its revision and the updates it holds
          memory,  \* memory[i]: the snapshot as instance i has it
          saved    \* updates whose save returned without an error

ssVars == <<file, memory, saved>>

SSInit ==
  /\ file = [revision |-> 0, updates |-> {}]
  /\ memory = [i \in Instances |-> file]
  /\ saved = {}

Change(i) ==
  /\ \E u \in Updates \ memory[i].updates :
       memory' = [memory EXCEPT ![i].updates = @ \cup {u}]
  /\ UNCHANGED <<file, saved>>

Commit(i) ==
  /\ memory[i].revision = file.revision
  /\ file' = [memory[i] EXCEPT !.revision = @ + 1]
  /\ memory' = [memory EXCEPT ![i].revision = @ + 1]
  /\ saved' = saved \cup memory[i].updates

Reload(i) ==
  /\ memory' = [memory EXCEPT ![i] = file]
  /\ UNCHANGED <<file, saved>>

SSNext == \E i \in Instances : Change(i) \/ Commit(i) \/ Reload(i)

SSSpec == SSInit /\ [][SSNext]_ssVars
==============================================================================
