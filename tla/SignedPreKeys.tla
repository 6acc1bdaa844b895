----------------------------- MODULE SignedPreKeys -----------------------------
(***************************************************************************)
(* The signed prekey of a PreKeyPoolManager (prekey-pool.ts) over a        *)
(* FileSignalStorage: it is rotated when it is old, by one of the calls    *)
(* that find it so, and what it replaces is kept for a grace period.       *)
(* Bundles in circulation name the signed prekey by its id, so a message   *)
(* to an old bundle needs the private key that had this id then.           *)
(*                                                                         *)
(* A call is one action for the code between two awaits.  The storages of  *)
(* this library answer loadLatestSignedPreKey within one microtask, which  *)
(* is less than the owner of a rotation needs to clear it (Prompt).        *)
(***************************************************************************)
EXTENDS Integers, FiniteSets

CONSTANTS Calls,        \* calls of the pool in progress at a time
          MaxKeyId,     \* MAX_KEY_ID
          MaxAge,       \* the option signedPreKeyMaxAgeMs
          GracePeriod,  \* the option signedPreKeyGracePeriodMs
          AnyId,        \* whether the application rotates to ids out of order
          MaxTime,      \* bound on the time
          MaxRotations, \* bound on the signed prekeys
          MaxFailures,  \* bound on the saves that fail
          MaxCrashes    \* bound on the crashes

ASSUME SignedPreKeysAssumption ==
  /\ MaxKeyId \in Nat \ {0} /\ AnyId \in BOOLEAN
  /\ {MaxAge, GracePeriod, MaxTime, MaxRotations, MaxFailures, MaxCrashes} \subseteq Nat

VARIABLES memory,     \* signed prekeys, latest and retired ones in the storage
          disk,       \* the same in the snapshot
          rotation,   \* the rotation the manager holds on to
          call,       \* call[c]: how far a call has come
          now,        \* the clock
          published,  \* history: signed prekeys of the bundles made so far
          replaced,   \* history: when a signed prekey was the latest no more
          made,       \* signed prekeys generated so far
          failures, crashes

vars == <<memory, disk, rotation, call, now, published, replaced, made, failures, crashes>>

KeyIds == 1..MaxKeyId

(* A signed prekey, known by its serial number.                            *)
SignedPreKey == [id : KeyIds, serial : Nat, createdAt : Nat]

Rotation == [phase : {"none", "generating", "done", "failed"}, owner : SUBSET Calls,
             id : KeyIds, key : SUBSET SignedPreKey]

Call == [pc : {"idle", "read", "waiting", "done", "failed", "ready"}, bundle : BOOLEAN,
         latest : SUBSET SignedPreKey]

Nothing == [id \in {} |-> 0]

Idle == [pc |-> "idle", bundle |-> FALSE, latest |-> {}]

NoRotation == [phase |-> "none", owner |-> {}, id |-> 1, key |-> {}]

StorageOK(s) ==
  /\ s = [keys |-> s.keys, latest |-> s.latest, retired |-> s.retired]
  /\ s.keys \subseteq SignedPreKey /\ s.latest \subseteq SignedPreKey
  /\ s.retired \in [DOMAIN s.retired -> 0..now] /\ DOMAIN s.retired \subseteq KeyIds
  /\ \A a, b \in s.keys : a.id = b.id => a = b
  /\ \A a, b \in s.latest : a = b
  /\ \A k \in s.latest : k.id \notin DOMAIN s.retired

TypeOK ==
  /\ StorageOK(memory) /\ StorageOK(disk)
  /\ rotation \in Rotation /\ call \in [Calls -> Call]
  /\ \A c \in Calls : call[c].pc = "waiting" => rotation.phase = "generating"
  /\ published \subseteq SignedPreKey
  /\ replaced \in [DOMAIN replaced -> 0..now] /\ DOMAIN replaced \subseteq 1..made
  /\ now \in 0..MaxTime /\ made \in 0..MaxRotations
  /\ failures \in 0..MaxFailures /\ crashes \in 0..MaxCrashes

Init ==
  /\ memory = [keys |-> {}, latest |-> {}, retired |-> Nothing]
  /\ disk = memory
  /\ rotation = NoRotation
  /\ call = [c \in Calls |-> Idle]
  /\ now = 0
  /\ published = {} /\ replaced = Nothing
  /\ made = 0 /\ failures = 0 /\ crashes = 0

------------------------------------------------------------------------------
(* storeSignedPreKey.                                                      *)

Retire(s, key) ==
  LET ids == {k.id : k \in s.latest} \ {key.id}
  IN  [s EXCEPT !.retired = [id \in ids \cup DOMAIN @ |->
                               IF id \in ids THEN now ELSE @[id]]]

Put(s, key) ==
  [s EXCEPT !.keys = {k \in @ : k.id # key.id} \cup {key}, !.latest = {key}]

(* ... as if there were no grace period.                                   *)
PruneAll(s) ==
  [s EXCEPT !.keys = {k \in @ : k.id \notin DOMAIN s.retired}, !.retired = Nothing]

PruneRetiredSignedPreKeys(s) ==
  LET kept == {id \in DOMAIN s.retired : now - s.retired[id] < GracePeriod}
      gone == DOMAIN s.retired \ kept
  IN  [s EXCEPT !.keys = {k \in @ : k.id \notin gone},
                !.retired = [id \in kept |-> @[id]]]

WithSignedPreKey(s, key) == PruneRetiredSignedPreKeys(Put(Retire(s, key), key))

------------------------------------------------------------------------------
WrapPreKeyId(id) == ((id - 1) % MaxKeyId) + 1

NextId(latest) ==
  IF latest = {} THEN 1 ELSE WrapPreKeyId((CHOOSE k \in latest : TRUE).id + 1)

ShouldRotateSignedPreKey(latest) == \A k \in latest : now - k.createdAt >= MaxAge

(* ensureSignedPreKey of the maintenance timer, or within createBundle.    *)
EnsureSignedPreKey(c) ==
  /\ call[c].pc = "idle"
  /\ \E bundle \in BOOLEAN :
       call' = [call EXCEPT ![c] = [pc |-> "read", bundle |-> bundle,
                                    latest |-> memory.latest]]
  /\ UNCHANGED <<memory, disk, rotation, now, published, replaced, made, failures, crashes>>

(* What a call does with the signed prekey it ends up with.                *)
Ready(r, key) ==
  IF r.bundle THEN [r EXCEPT !.pc = "ready", !.latest = {key}] ELSE Idle

IsFresh(c) ==
  /\ call[c].pc = "read" /\ ~ShouldRotateSignedPreKey(call[c].latest)
  /\ \E key \in call[c].latest : call' = [call EXCEPT ![c] = Ready(@, key)]
  /\ UNCHANGED <<memory, disk, rotation, now, published, replaced, made, failures, crashes>>

(* rotateSignedPreKey: one at a time; who comes while it is in progress, or *)
(* before its owner has cleared it, shares its outcome.                    *)
Begin(c, r, id) ==
  /\ made < MaxRotations
  /\ rotation' = [NoRotation EXCEPT !.phase = "generating", !.owner = {c}, !.id = id]
  /\ call' = [call EXCEPT ![c] = [r EXCEPT !.pc = "waiting", !.latest = {}]]

Join(c, r) ==
  /\ rotation.phase # "none"
  /\ call' = [call EXCEPT ![c] =
       [r EXCEPT !.pc = IF rotation.phase = "generating" THEN "waiting" ELSE rotation.phase,
                 !.latest = rotation.key]]
  /\ UNCHANGED rotation

(* ... as if a settled rotation were not looked at.                        *)
RotateUnlessInProgress(c, r, id) ==
  \/ rotation.phase # "generating" /\ Begin(c, r, id)
  \/ rotation.phase = "generating" /\ Join(c, r)

RotateSignedPreKey(c, r, id) == (rotation.phase = "none" /\ Begin(c, r, id)) \/ Join(c, r)

RotateOld(c) ==
  /\ call[c].pc = "read" /\ ShouldRotateSignedPreKey(call[c].latest)
  /\ RotateSignedPreKey(c, call[c], NextId(call[c].latest))
  /\ UNCHANGED <<memory, disk, now, published, replaced, made, failures, crashes>>

(* The application rotates, to the next id or to one of its own.           *)
RotateNow(c) ==
  /\ call[c].pc = "idle"
  /\ \E id \in IF AnyId THEN KeyIds ELSE {NextId(memory.latest)} :
       RotateSignedPreKey(c, Idle, id)
  /\ UNCHANGED <<memory, disk, now, published, replaced, made, failures, crashes>>

(* ... as if those that share the rotation were not told.                  *)
SettledForOwner(outcome, key) ==
  [c \in Calls |-> IF rotation.owner # {c} THEN call[c]
                   ELSE [call[c] EXCEPT !.pc = outcome, !.latest = key]]

Settled(outcome, key) ==
  [c \in Calls |-> IF call[c].pc # "waiting" THEN call[c]
                   ELSE [call[c] EXCEPT !.pc = outcome, !.latest = key]]

(* The key is generated and stored; a failed save leaves it in memory.     *)
StoreSignedPreKey ==
  /\ rotation.phase = "generating"
  /\ LET key == [id |-> rotation.id, serial |-> made + 1, createdAt |-> now]
     IN  /\ memory' = WithSignedPreKey(memory, key)
         /\ made' = made + 1
         /\ replaced' = [s \in {k.serial : k \in memory.latest} \cup DOMAIN replaced |->
                           IF s \in {k.serial : k \in memory.latest} THEN now ELSE replaced[s]]
         /\ \/ /\ disk' = memory'
               /\ rotation' = [rotation EXCEPT !.phase = "done", !.key = {key}]
               /\ call' = Settled("done", {key})
               /\ UNCHANGED failures
            \/ /\ failures < MaxFailures
               /\ failures' = failures + 1
               /\ rotation' = [rotation EXCEPT !.phase = "failed"]
               /\ call' = Settled("failed", {})
               /\ UNCHANGED disk
  /\ UNCHANGED <<now, published, crashes>>

Prompt == \A c \in Calls : call[c].pc # "read"

Rotated(c) ==
  /\ call[c].pc \in {"done", "failed"}
  /\ \/ rotation.owner = {c} /\ Prompt /\ rotation' = NoRotation
     \/ rotation.owner # {c} /\ UNCHANGED rotation
  /\ call' = [call EXCEPT ![c] =
       IF @.pc = "failed" THEN Idle ELSE Ready(@, CHOOSE k \in @.latest : TRUE)]
  /\ UNCHANGED <<memory, disk, now, published, replaced, made, failures, crashes>>

(* The rest of createBundle, which saves the reservation of a one-time      *)
(* prekey, and all else in memory with it (module PreKeyPool).             *)
PublishBundle(c) ==
  /\ call[c].pc = "ready"
  /\ \/ /\ disk' = memory
        /\ published' = published \cup call[c].latest
        /\ UNCHANGED failures
     \/ /\ failures < MaxFailures
        /\ failures' = failures + 1
        /\ UNCHANGED <<disk, published>>
  /\ call' = [call EXCEPT ![c] = Idle]
  /\ UNCHANGED <<memory, rotation, now, replaced, made, crashes>>

Tick ==
  /\ now < MaxTime
  /\ now' = now + 1
  /\ UNCHANGED <<memory, disk, rotation, call, published, replaced, made, failures, crashes>>

Crash ==
  /\ crashes < MaxCrashes
  /\ crashes' = crashes + 1
  /\ memory' = disk
  /\ rotation' = NoRotation
  /\ call' = [c \in Calls |-> Idle]
  /\ replaced' = [s \in DOMAIN replaced \ {k.serial : k \in disk.latest} |-> replaced[s]]
  /\ UNCHANGED <<disk, now, published, made, failures>>

Next ==
  \/ \E c \in Calls :
       \/ EnsureSignedPreKey(c) \/ IsFresh(c) \/ RotateOld(c) \/ RotateNow(c)
       \/ Rotated(c) \/ PublishBundle(c)
  \/ StoreSignedPreKey
  \/ Tick
  \/ Crash

Spec == Init /\ [][Next]_vars

------------------------------------------------------------------------------
(* Properties.                                                             *)

(* The signed prekey of a bundle can be loaded by the id in the bundle, now *)
(* and after a restart, until it has been replaced for a grace period, with *)
(* whatever calls overlap, saves fail and crashes intervene (README.md:39).  *)
PublishedSignedPreKeysKept ==
  \A key \in published :
    \/ key \in memory.keys /\ key \in disk.keys
    \/ key.serial \in DOMAIN replaced /\ now - replaced[key.serial] >= GracePeriod

(* README.md:39: what is deleted after the grace period is the signed       *)
(* prekey that was replaced; the latest one is there to be used.            *)
LatestIsStored == memory.latest \subseteq memory.keys
==============================================================================
