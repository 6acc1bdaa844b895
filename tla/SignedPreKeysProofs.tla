-------------------------- MODULE SignedPreKeysProofs --------------------------
(***************************************************************************)
(* The signed prekey of a bundle is kept for its grace period, for every    *)
(* number of overlapping calls, failing saves and crashes, when the         *)
(* application leaves the ids to the manager and they do not wrap.         *)
(*                                                                         *)
(* The inductive invariant says of each store that ids and serial numbers   *)
(* grow towards the latest signed prekey, that every other one is retired   *)
(* since the moment it was replaced, and of every signed prekey that a call *)
(* holds that it is stored or has been replaced for a grace period.  Ids    *)
(* grow because a rotation begins from the latest signed prekey there is:   *)
(* a call that read an older one finds a rotation to share.                *)
(***************************************************************************)
EXTENDS SignedPreKeys, TLAPS

(* The keys of a store up to its latest.                                   *)
StoreInv(s) ==
  /\ s.latest \subseteq s.keys
  /\ s.latest = {} => s.keys = {} /\ DOMAIN s.retired = {}
  /\ \A k \in s.keys : k.id <= k.serial /\ k.serial <= made
  /\ \A l \in s.latest :
       /\ \A k \in s.keys : k = l \/ (k.id < l.id /\ k.serial < l.serial)
       /\ \A id \in DOMAIN s.retired : id < l.id
  /\ \A k \in s.keys \ s.latest :
       /\ k.id \in DOMAIN s.retired /\ k.serial \in DOMAIN replaced
       /\ replaced[k.serial] = s.retired[k.id]

Expired(key) ==
  key.serial \in DOMAIN replaced /\ now - replaced[key.serial] >= GracePeriod

Held(key) == key \in memory.keys \/ Expired(key)

RotationInv ==
  /\ rotation.phase = "generating" =>
       /\ rotation.id = NextId(memory.latest) /\ made < MaxRotations
       /\ \A c \in Calls : rotation.owner = {c} => call[c].pc = "waiting"
  /\ rotation.phase = "done" => rotation.key # {}
  /\ \A key \in rotation.key : Held(key)

CallInv ==
  \A c \in Calls :
    /\ call[c].pc \in {"done", "ready"} => call[c].latest # {}
    /\ call[c].pc = "read" /\ rotation.phase = "none" => call[c].latest = memory.latest
    /\ \A key \in call[c].latest : Held(key)

PublishedInv ==
  \A key \in published :
    /\ (key \in memory.keys /\ key \in disk.keys) \/ Expired(key)
    /\ \A l \in disk.latest : key.serial = l.serial => key = l

IInv ==
  /\ TypeOK
  /\ StoreInv(memory) /\ StoreInv(disk)
  /\ \A l \in memory.latest : l.serial \notin DOMAIN replaced
  /\ RotationInv /\ CallInv /\ PublishedInv

(* The ids are left to the manager, and there are enough of them.          *)
InOrder == ~AnyId /\ MaxRotations <= MaxKeyId

------------------------------------------------------------------------------
(* storeSignedPreKey on a store whose ids are all below the new one.       *)

(* Since when an id is retired once the latest is, too.                    *)
Since(s, id) == IF id \in {k.id : k \in s.latest} THEN now ELSE s.retired[id]

Ids(s) == {k.id : k \in s.latest} \cup DOMAIN s.retired

LEMMA StoredFields ==
  ASSUME NEW s, s = [keys |-> s.keys, latest |-> s.latest, retired |-> s.retired],
         NEW key, \A k \in s.keys : k.id # key.id, key.id \notin Ids(s),
         NEW u, u = WithSignedPreKey(s, key)
  PROVE  /\ u = [keys |-> u.keys, latest |-> u.latest, retired |-> u.retired]
         /\ u.latest = {key} /\ key \in u.keys
         /\ \A k \in u.keys : k = key \/ k \in s.keys
         /\ \A k \in s.keys : k \in u.keys <=>
              ~(k.id \in Ids(s) /\ ~(now - Since(s, k.id) < GracePeriod))
         /\ \A id : id \in DOMAIN u.retired <=>
              id \in Ids(s) /\ now - Since(s, id) < GracePeriod
         /\ \A id \in DOMAIN u.retired : u.retired[id] = Since(s, id)
         /\ u.retired = [id \in DOMAIN u.retired |-> u.retired[id]]
<1>1. PICK r : r = [id \in Ids(s) |-> Since(s, id)]
  OBVIOUS
<1>2. PICK a : a = Retire(s, key)
  OBVIOUS
<1>3. a = [keys |-> s.keys, latest |-> s.latest, retired |-> r]
  <2>1. PICK ids : ids = {k.id : k \in s.latest}
    OBVIOUS
  <2>2. ids \ {key.id} = ids
    BY <2>1 DEF Ids
  <2>3. r = [id \in ids \cup DOMAIN s.retired |-> IF id \in ids THEN now ELSE s.retired[id]]
    BY <1>1, <2>1 DEF Ids, Since
  <2>4. a = [s EXCEPT !.retired = r]
    BY <1>2, <2>1, <2>2, <2>3 DEF Retire
  <2>5. QED
    BY <2>4
<1>4. PICK b : b = Put(a, key)
  OBVIOUS
<1>5. b = [keys |-> s.keys \cup {key}, latest |-> {key}, retired |-> r]
  <2>1. {k \in s.keys : k.id # key.id} = s.keys
    OBVIOUS
  <2>2. b = [a EXCEPT !.keys = s.keys \cup {key}, !.latest = {key}]
    BY <1>3, <1>4, <2>1 DEF Put
  <2>3. QED
    BY <1>3, <2>2
<1>6. u = PruneRetiredSignedPreKeys(b)
  BY <1>2, <1>4 DEF WithSignedPreKey
<1>7. DOMAIN r = Ids(s) /\ \A id \in Ids(s) : r[id] = Since(s, id)
  BY <1>1
<1>8. PICK kept : kept = {id \in Ids(s) : now - Since(s, id) < GracePeriod}
  OBVIOUS
<1>9. PICK gone : gone = Ids(s) \ kept
  OBVIOUS
<1>10. PICK keys : keys = {k \in s.keys \cup {key} : k.id \notin gone}
  OBVIOUS
<1>11. PICK retired : retired = [id \in kept |-> r[id]]
  OBVIOUS
<1>12. u = [keys |-> keys, latest |-> {key}, retired |-> retired]
  <2>1. kept = {id \in DOMAIN b.retired : now - b.retired[id] < GracePeriod}
    BY <1>5, <1>7, <1>8
  <2>2. gone = DOMAIN b.retired \ kept
    BY <1>5, <1>7, <1>9
  <2>3. u = [b EXCEPT !.keys = keys, !.retired = retired]
    BY <1>5, <1>6, <1>10, <1>11, <2>1, <2>2 DEF PruneRetiredSignedPreKeys
  <2>4. QED
    BY <1>5, <2>3
<1>13. DOMAIN retired = kept /\ \A id \in kept : retired[id] = Since(s, id)
  BY <1>7, <1>8, <1>11
<1>14. key \in keys /\ \A k \in keys : k = key \/ k \in s.keys
  BY <1>9, <1>10
<1>15. \A k \in s.keys : k \in keys <=>
         ~(k.id \in Ids(s) /\ ~(now - Since(s, k.id) < GracePeriod))
  BY <1>8, <1>9, <1>10
<1>16. u.keys = keys /\ u.latest = {key} /\ u.retired = retired
  BY <1>12
<1>17. u = [keys |-> u.keys, latest |-> u.latest, retired |-> u.retired]
  BY <1>12, <1>16
<1>18. \A id : id \in DOMAIN u.retired <=> id \in Ids(s) /\ now - Since(s, id) < GracePeriod
  BY <1>8, <1>13, <1>16
<1>19. u.retired = [id \in DOMAIN u.retired |-> u.retired[id]]
  BY <1>11, <1>13, <1>16
<1>20. QED
  BY <1>13, <1>14, <1>15, <1>16, <1>17, <1>18, <1>19, Zenon

LEMMA ModSmall ==
  ASSUME NEW n \in Nat \ {0}, NEW i \in Nat, i < n
  PROVE  i % n = i
OBVIOUS

LEMMA NextIdType ==
  ASSUME NEW latest \in SUBSET SignedPreKey
  PROVE  NextId(latest) \in KeyIds
<1>1. MaxKeyId \in Nat \ {0}
  BY SignedPreKeysAssumption
<1>2. CASE latest = {}
  BY <1>1, <1>2 DEF NextId, KeyIds
<1>3. CASE latest # {}
  <2>1. PICK l \in latest : l = CHOOSE k \in latest : TRUE
    BY <1>3
  <2>2. PICK n \in Nat : n = l.id + 1 /\ n - 1 \in Nat
    <3>1. PICK i \in Nat : i = l.id
      <4>1. l \in SignedPreKey
        BY <2>1
      <4>2. l.id \in KeyIds
        BY <4>1 DEF SignedPreKey
      <4>3. QED
        BY <1>1, <4>2 DEF KeyIds
    <3>2. i + 1 \in Nat /\ i + 1 - 1 = i
      OBVIOUS
    <3>3. QED
      BY <3>1, <3>2
  <2>3. WrapPreKeyId(n) = ((n - 1) % MaxKeyId) + 1
    BY DEF WrapPreKeyId
  <2>4. (n - 1) % MaxKeyId \in 0..(MaxKeyId - 1)
    BY <1>1, <2>2
  <2>5. NextId(latest) = WrapPreKeyId(n)
    BY <1>3, <2>1, <2>2 DEF NextId
  <2>6. QED
    BY <1>1, <2>3, <2>4, <2>5 DEF KeyIds
<1>4. QED
  BY <1>2, <1>3

(* The next id is above all there are.                                     *)
LEMMA NextIdIsNew ==
  ASSUME StorageOK(memory), StoreInv(memory), made \in Nat, made < MaxKeyId
  PROVE  LET id == NextId(memory.latest)
         IN  /\ id \in KeyIds /\ id <= made + 1
             /\ \A k \in memory.keys : k.id < id
             /\ \A i \in DOMAIN memory.retired : i < id
<1>1. MaxKeyId \in Nat \ {0}
  BY SignedPreKeysAssumption
<1>2. CASE memory.latest = {}
  <2>1. NextId(memory.latest) = 1
    BY <1>2 DEF NextId
  <2>2. memory.keys = {} /\ DOMAIN memory.retired = {}
    BY <1>2 DEF StoreInv
  <2>3. QED
    BY <1>1, <2>1, <2>2 DEF KeyIds
<1>3. CASE memory.latest # {}
  <2>1. PICK l : l = CHOOSE k \in memory.latest : TRUE
    OBVIOUS
  <2>2. l \in memory.latest /\ l \in memory.keys
    BY <1>3, <2>1 DEF StoreInv
  <2>3. /\ l.id \in KeyIds /\ l.serial \in Nat /\ l.id <= l.serial /\ l.serial <= made
        /\ \A k \in memory.keys : k.id \in KeyIds
    BY <2>2 DEF StoreInv, StorageOK, SignedPreKey
  <2>4. NextId(memory.latest) = WrapPreKeyId(l.id + 1)
    BY <1>3, <2>1 DEF NextId
  <2>5. PICK i \in Nat : i = l.id /\ i >= 1 /\ i < MaxKeyId
    BY <1>1, <2>3 DEF KeyIds
  <2>6. i % MaxKeyId = i
    BY <1>1, <2>5, ModSmall
  <2>7. NextId(memory.latest) = i + 1
    <3>1. PICK n \in Nat : n = i + 1 /\ n - 1 = i
      OBVIOUS
    <3>2. WrapPreKeyId(n) = ((n - 1) % MaxKeyId) + 1
      BY DEF WrapPreKeyId
    <3>3. WrapPreKeyId(n) = (i % MaxKeyId) + 1
      BY <3>1, <3>2
    <3>4. QED
      BY <2>4, <2>5, <2>6, <3>1, <3>3
  <2>8. \A k \in memory.keys : k.id < i + 1
    BY <2>2, <2>3, <2>5 DEF StoreInv, KeyIds
  <2>9. \A j \in DOMAIN memory.retired : j < i + 1
    <3>1. \A j \in DOMAIN memory.retired : j \in Nat /\ j < l.id
      BY <2>2 DEF StoreInv, StorageOK, KeyIds
    <3>2. QED
      BY <2>5, <3>1
  <2>10. i + 1 \in KeyIds /\ i + 1 <= made + 1
    BY <1>1, <2>3, <2>5 DEF KeyIds
  <2>11. QED
    BY <2>7, <2>8, <2>9, <2>10
<1>4. QED
  BY <1>2, <1>3

------------------------------------------------------------------------------
(* The steps of a call, which leave the stores and the clock alone.        *)

LEMMA CallStep ==
  ASSUME IInv, rotation' \in Rotation, call' \in [Calls -> Call],
         UNCHANGED <<memory, disk, now, published, replaced, made, failures, crashes>>,
         \A c \in Calls : call'[c].pc = "waiting" => rotation'.phase = "generating",
         RotationInv', CallInv'
  PROVE  IInv'
<1>1. TypeOK'
  BY DEF IInv, TypeOK, StorageOK
<1>2. StoreInv(memory)' /\ StoreInv(disk)' /\ PublishedInv'
  BY DEF IInv, StoreInv, PublishedInv, Expired
<1>3. QED
  BY <1>1, <1>2 DEF IInv

LEMMA HeldStays ==
  ASSUME NEW key, UNCHANGED <<memory, now, replaced>>
  PROVE  Held(key)' <=> Held(key)
BY DEF Held, Expired

LEMMA NextIdStays ==
  ASSUME UNCHANGED memory
  PROVE  NextId(memory.latest)' = NextId(memory.latest)
BY DEF NextId, WrapPreKeyId

(* One call moves on, and the rotation with it.                            *)
LEMMA OneCallStep ==
  ASSUME IInv, NEW c \in Calls, NEW r \in Call, call' = [call EXCEPT ![c] = r],
         rotation' \in Rotation,
         UNCHANGED <<memory, disk, now, published, replaced, made, failures, crashes>>,
         r.pc = "waiting" => rotation'.phase = "generating",
         r.pc \in {"done", "ready"} => r.latest # {},
         r.pc = "read" /\ rotation'.phase = "none" => r.latest = memory.latest,
         \A key \in r.latest : Held(key),
         \A d \in Calls \ {c} :
           /\ call[d].pc = "waiting" => rotation'.phase = "generating"
           /\ call[d].pc = "read" /\ rotation'.phase = "none" => rotation.phase = "none",
         RotationInv'
  PROVE  IInv'
<1>1. call \in [Calls -> Call]
  BY DEF IInv, TypeOK
<1>2. \A d \in Calls : call'[d] = IF d = c THEN r ELSE call[d]
  BY <1>1
<1>3. call' \in [Calls -> Call]
  BY <1>1
<1>4. \A d \in Calls : call'[d].pc = "waiting" => rotation'.phase = "generating"
  BY <1>2
<1>5. CallInv'
  BY <1>2, HeldStays DEF IInv, CallInv
<1>6. QED
  BY <1>3, <1>4, <1>5, CallStep

LEMMA EnsureStep ==
  ASSUME IInv, NEW c \in Calls, EnsureSignedPreKey(c)
  PROVE  IInv'
<1>1. /\ rotation' = rotation /\ call[c].pc = "idle"
      /\ UNCHANGED <<memory, disk, now, published, replaced, made, failures, crashes>>
  BY DEF EnsureSignedPreKey
<1>2. PICK bundle \in BOOLEAN :
        call' = [call EXCEPT ![c] = [pc |-> "read", bundle |-> bundle, latest |-> memory.latest]]
  BY DEF EnsureSignedPreKey
<1>3. memory.latest \subseteq SignedPreKey /\ call \in [Calls -> Call] /\ rotation \in Rotation
  BY DEF IInv, TypeOK, StorageOK
<1>4. PICK r : r = [pc |-> "read", bundle |-> bundle, latest |-> memory.latest]
  OBVIOUS
<1>5. r \in Call /\ r.pc = "read" /\ r.latest = memory.latest
  BY <1>3, <1>4 DEF Call
<1>6. RotationInv'
  <2>1. \A d \in Calls : rotation.phase = "generating" /\ rotation.owner = {d} =>
          call'[d].pc = "waiting"
    BY <1>1, <1>2, <1>3 DEF IInv, RotationInv
  <2>2. QED
    BY <1>1, <2>1, HeldStays, NextIdStays DEF IInv, RotationInv
<1>7. \A key \in r.latest : Held(key)
  BY <1>5 DEF IInv, StoreInv, Held
<1>8. QED
  BY <1>1, <1>2, <1>3, <1>4, <1>5, <1>6, <1>7, OneCallStep DEF IInv, TypeOK

LEMMA IsFreshStep ==
  ASSUME IInv, NEW c \in Calls, IsFresh(c)
  PROVE  IInv'
<1>1. /\ rotation' = rotation /\ call[c].pc = "read"
      /\ UNCHANGED <<memory, disk, now, published, replaced, made, failures, crashes>>
  BY DEF IsFresh
<1>2. PICK key \in call[c].latest : call' = [call EXCEPT ![c] = Ready(call[c], key)]
  BY DEF IsFresh
<1>3. call[c] \in Call /\ key \in SignedPreKey /\ call \in [Calls -> Call] /\ rotation \in Rotation
  BY DEF IInv, TypeOK, Call
<1>4. PICK r : r = Ready(call[c], key)
  OBVIOUS
<1>5. r \in Call /\ r.pc \in {"idle", "ready"} /\ r.latest \subseteq {key}
      /\ (r.pc = "ready" => r.latest # {})
  BY <1>3, <1>4 DEF Ready, Call, Idle
<1>6. RotationInv'
  <2>1. \A d \in Calls : rotation.phase = "generating" /\ rotation.owner = {d} =>
          call'[d].pc = "waiting"
    BY <1>1, <1>2, <1>3 DEF IInv, RotationInv
  <2>2. QED
    BY <1>1, <2>1, HeldStays, NextIdStays DEF IInv, RotationInv
<1>7. \A k \in r.latest : Held(k)
  BY <1>5 DEF IInv, CallInv
<1>8. QED
  BY <1>1, <1>2, <1>3, <1>4, <1>5, <1>6, <1>7, OneCallStep DEF IInv, TypeOK

LEMMA RotateStep ==
  ASSUME IInv, NEW c \in Calls, NEW r \in Call, call[c].pc \in {"idle", "read"},
         NEW id \in KeyIds, rotation.phase = "none" => id = NextId(memory.latest),
         RotateSignedPreKey(c, r, id),
         UNCHANGED <<memory, disk, now, published, replaced, made, failures, crashes>>
  PROVE  IInv'
<1>1. call \in [Calls -> Call] /\ rotation \in Rotation
  BY DEF IInv, TypeOK
<1>2. CASE rotation.phase = "none" /\ Begin(c, r, id)
  <2>1. PICK q : q = [r EXCEPT !.pc = "waiting", !.latest = {}]
    OBVIOUS
  <2>2. q \in Call /\ q.pc = "waiting" /\ q.latest = {} /\ call' = [call EXCEPT ![c] = q]
    BY <1>2, <2>1 DEF Begin, Call
  <2>3. rotation' = [phase |-> "generating", owner |-> {c}, id |-> id, key |-> {}]
    BY <1>2 DEF Begin, NoRotation
  <2>4. rotation' \in Rotation
    BY <2>3 DEF Rotation
  <2>5. RotationInv'
    <3>1. rotation'.id = NextId(memory.latest)' /\ made' < MaxRotations
      BY <1>2, <2>3, NextIdStays DEF Begin
    <3>2. \A d \in Calls : rotation'.owner = {d} => call'[d].pc = "waiting"
      BY <1>1, <2>2, <2>3
    <3>3. QED
      BY <2>3, <3>1, <3>2 DEF RotationInv
  <2>6. QED
    BY <1>1, <2>2, <2>3, <2>4, <2>5, OneCallStep
<1>3. CASE Join(c, r)
  <2>1. PICK pc : pc = IF rotation.phase = "generating" THEN "waiting" ELSE rotation.phase
    OBVIOUS
  <2>2. PICK q : q = [r EXCEPT !.pc = pc, !.latest = rotation.key]
    OBVIOUS
  <2>3. /\ pc \in {"waiting", "done", "failed"} /\ rotation.phase # "none"
        /\ pc = "waiting" => rotation.phase = "generating"
        /\ pc = "done" => rotation.phase = "done"
    BY <1>1, <1>3, <2>1 DEF Join, Rotation
  <2>4. q \in Call /\ q.pc = pc /\ q.latest = rotation.key
    BY <1>1, <2>2, <2>3 DEF Call, Rotation
  <2>5. call' = [call EXCEPT ![c] = q] /\ rotation' = rotation
    BY <1>3, <2>1, <2>2 DEF Join
  <2>6. RotationInv'
    <3>1. \A d \in Calls : rotation.phase = "generating" /\ rotation.owner = {d} =>
            call'[d].pc = "waiting"
      BY <1>1, <2>1, <2>4, <2>5 DEF IInv, RotationInv
    <3>2. QED
      BY <2>5, <3>1, HeldStays, NextIdStays DEF IInv, RotationInv
  <2>7. /\ q.pc \in {"done", "ready"} => q.latest # {}
        /\ \A key \in q.latest : Held(key)
    BY <2>3, <2>4 DEF IInv, RotationInv
  <2>8. QED
    BY <1>1, <2>3, <2>4, <2>5, <2>6, <2>7, OneCallStep DEF IInv, TypeOK
<1>4. QED
  BY <1>2, <1>3 DEF RotateSignedPreKey

LEMMA RotateOldStep ==
  ASSUME InOrder, IInv, NEW c \in Calls, RotateOld(c)
  PROVE  IInv'
<1>1. /\ call[c].pc = "read" /\ RotateSignedPreKey(c, call[c], NextId(call[c].latest))
      /\ UNCHANGED <<memory, disk, now, published, replaced, made, failures, crashes>>
  BY DEF RotateOld
<1>2. call[c] \in Call
  BY DEF IInv, TypeOK
<1>3. rotation.phase = "none" => NextId(call[c].latest) = NextId(memory.latest)
  BY <1>1 DEF IInv, CallInv
<1>4. NextId(call[c].latest) \in KeyIds
  BY <1>2, NextIdType DEF Call
<1>5. QED
  BY <1>1, <1>2, <1>3, <1>4, RotateStep

LEMMA RotateNowStep ==
  ASSUME InOrder, IInv, NEW c \in Calls, RotateNow(c)
  PROVE  IInv'
<1>1. /\ call[c].pc = "idle" /\ RotateSignedPreKey(c, Idle, NextId(memory.latest))
      /\ UNCHANGED <<memory, disk, now, published, replaced, made, failures, crashes>>
  BY DEF RotateNow, InOrder
<1>2. Idle \in Call
  BY DEF Idle, Call
<1>3. NextId(memory.latest) \in KeyIds
  BY NextIdType DEF IInv, TypeOK, StorageOK
<1>4. QED
  BY <1>1, <1>2, <1>3, RotateStep

LEMMA RotatedStep ==
  ASSUME IInv, NEW c \in Calls, Rotated(c)
  PROVE  IInv'
<1>1. /\ call[c].pc \in {"done", "failed"}
      /\ UNCHANGED <<memory, disk, now, published, replaced, made, failures, crashes>>
      /\ \/ rotation.owner = {c} /\ Prompt /\ rotation' = NoRotation
         \/ rotation.owner # {c} /\ rotation' = rotation
  BY DEF Rotated
<1>2. call[c] \in Call /\ call \in [Calls -> Call] /\ rotation \in Rotation
  BY DEF IInv, TypeOK
<1>3. PICK key : key = CHOOSE k \in call[c].latest : TRUE
  OBVIOUS
<1>4. PICK r : r = IF call[c].pc = "failed" THEN Idle ELSE Ready(call[c], key)
  OBVIOUS
<1>5. call' = [call EXCEPT ![c] = r]
  BY <1>3, <1>4 DEF Rotated
<1>6. call[c].pc = "done" => key \in call[c].latest
  BY <1>3 DEF IInv, CallInv
<1>7. /\ r \in Call /\ r.pc \in {"idle", "ready"} /\ (r.pc = "ready" => r.latest # {})
      /\ \A k \in r.latest : Held(k)
  <2>1. CASE call[c].pc = "failed"
    BY <1>4, <2>1 DEF Idle, Call
  <2>2. CASE call[c].pc = "done"
    <3>1. key \in SignedPreKey /\ Held(key)
      BY <1>2, <1>6, <2>2 DEF Call, IInv, CallInv
    <3>2. r = Ready(call[c], key)
      BY <1>4, <2>2
    <3>3. QED
      BY <1>2, <3>1, <3>2 DEF Ready, Idle, Call
  <2>3. QED
    BY <1>1, <2>1, <2>2
<1>8. CASE rotation.owner = {c} /\ Prompt /\ rotation' = NoRotation
  <2>1. rotation' \in Rotation /\ rotation'.phase = "none" /\ rotation'.key = {}
    BY <1>8, SignedPreKeysAssumption DEF NoRotation, Rotation, KeyIds
  <2>2. rotation.phase # "generating"
    BY <1>1, <1>8 DEF IInv, RotationInv
  <2>3. \A d \in Calls : call[d].pc # "waiting" /\ call[d].pc # "read"
    BY <1>8, <2>2 DEF IInv, TypeOK, Prompt
  <2>4. RotationInv'
    BY <2>1 DEF RotationInv
  <2>5. QED
    BY <1>1, <1>5, <1>7, <2>1, <2>3, <2>4, OneCallStep
<1>9. CASE rotation.owner # {c} /\ rotation' = rotation
  <2>1. \A d \in Calls : rotation.phase = "generating" /\ rotation.owner = {d} =>
          call'[d].pc = "waiting"
    BY <1>1, <1>2, <1>5 DEF IInv, RotationInv
  <2>2. RotationInv'
    BY <1>1, <1>9, <2>1, HeldStays, NextIdStays DEF IInv, RotationInv
  <2>3. QED
    BY <1>1, <1>2, <1>5, <1>7, <1>9, <2>2, OneCallStep DEF IInv, TypeOK
<1>10. QED
  BY <1>1, <1>8, <1>9


------------------------------------------------------------------------------
(* A new signed prekey is generated and stored.                            *)

LEMMA NewKey ==
  ASSUME InOrder, IInv, StoreSignedPreKey,
         NEW key, key = [id |-> rotation.id, serial |-> made + 1, createdAt |-> now]
  PROVE  /\ key \in SignedPreKey /\ key.serial = made + 1 /\ key.id <= made + 1
         /\ made \in Nat /\ made' = made + 1 /\ made' <= MaxRotations
         /\ \A k \in memory.keys : k.id < key.id /\ k.serial <= made
         /\ \A id \in Ids(memory) : id < key.id /\ id # key.id
<1>1. made \in Nat /\ now \in Nat /\ MaxRotations \in Nat /\ MaxKeyId \in Nat \ {0}
  BY SignedPreKeysAssumption DEF IInv, TypeOK
<1>2. rotation.id = NextId(memory.latest) /\ made < MaxRotations /\ made' = made + 1
  BY DEF StoreSignedPreKey, IInv, RotationInv
<1>3. made < MaxKeyId
  BY <1>1, <1>2 DEF InOrder
<1>4. StorageOK(memory) /\ StoreInv(memory)
  BY DEF IInv, TypeOK
<1>5. PICK id : id = NextId(memory.latest)
  OBVIOUS
<1>6. /\ id \in KeyIds /\ id <= made + 1
      /\ \A k \in memory.keys : k.id < id
      /\ \A i \in DOMAIN memory.retired : i < id
  BY <1>1, <1>3, <1>4, <1>5, NextIdIsNew
<1>7. key.id = id /\ key.serial = made + 1 /\ key.createdAt = now
  BY <1>2, <1>5
<1>8. key \in SignedPreKey
  BY <1>1, <1>6, <1>7 DEF SignedPreKey
<1>9. \A i \in Ids(memory) : i < id /\ i \in KeyIds
  BY <1>4, <1>6 DEF Ids, StoreInv, StorageOK, SignedPreKey
<1>10. \A i \in Ids(memory) : i # id
  BY <1>1, <1>6, <1>9 DEF KeyIds
<1>11. \A k \in memory.keys : k.serial <= made
  BY <1>4 DEF StoreInv
<1>12. QED
  BY <1>1, <1>2, <1>6, <1>7, <1>8, <1>9, <1>10, <1>11

(* Since when each signed prekey has been replaced after the step.         *)
LEMMA ReplacedFields ==
  ASSUME IInv, StoreSignedPreKey
  PROVE  /\ \A s : s \in DOMAIN replaced' <=>
              s \in {k.serial : k \in memory.latest} \/ s \in DOMAIN replaced
         /\ \A k \in memory.latest : replaced'[k.serial] = now
         /\ \A s \in DOMAIN replaced : replaced'[s] = replaced[s]
         /\ replaced' \in [DOMAIN replaced' -> 0..now] /\ DOMAIN replaced' \subseteq 1..made
<1>1. PICK serials : serials = {k.serial : k \in memory.latest}
  OBVIOUS
<1>2. replaced' = [s \in serials \cup DOMAIN replaced |-> IF s \in serials THEN now ELSE replaced[s]]
  BY <1>1 DEF StoreSignedPreKey
<1>3. DOMAIN replaced' = serials \cup DOMAIN replaced
  BY <1>2
<1>4. \A s \in serials : s \notin DOMAIN replaced
  BY <1>1 DEF IInv
<1>5. serials \subseteq 1..made
  <2>1. \A k \in memory.latest : k.serial \in Nat /\ k.id \in KeyIds /\ k.id <= k.serial /\ k.serial <= made
    BY DEF IInv, TypeOK, StorageOK, StoreInv, SignedPreKey
  <2>2. made \in Nat
    BY DEF IInv, TypeOK
  <2>3. QED
    BY <1>1, <2>1, <2>2 DEF KeyIds
<1>6. now \in Nat /\ DOMAIN replaced \subseteq 1..made /\ replaced \in [DOMAIN replaced -> 0..now]
  BY DEF IInv, TypeOK
<1>7. \A s \in DOMAIN replaced : replaced'[s] = replaced[s]
  BY <1>2, <1>4
<1>8. \A s \in serials : replaced'[s] = now
  BY <1>2
<1>9. replaced' \in [DOMAIN replaced' -> 0..now]
  <2>1. \A s \in DOMAIN replaced' : replaced'[s] \in 0..now
    BY <1>3, <1>6, <1>7, <1>8
  <2>2. QED
    BY <1>2, <1>3, <2>1
<1>10. \A k \in memory.latest : replaced'[k.serial] = now
  BY <1>1, <1>8
<1>11. QED
  BY <1>1, <1>3, <1>5, <1>6, <1>7, <1>9, <1>10

LEMMA StoredKeys ==
  ASSUME InOrder, IInv, StoreSignedPreKey,
         NEW key, key = [id |-> rotation.id, serial |-> made + 1, createdAt |-> now]
  PROVE  /\ memory' = [keys |-> memory'.keys, latest |-> memory'.latest,
                       retired |-> memory'.retired]
         /\ memory'.latest = {key} /\ key \in memory'.keys
         /\ \A k \in memory'.keys : k = key \/ k \in memory.keys
         /\ \A k \in memory.keys : k \in memory'.keys <=>
              ~(k.id \in Ids(memory) /\ ~(now - Since(memory, k.id) < GracePeriod))
         /\ \A id : id \in DOMAIN memory'.retired <=>
              id \in Ids(memory) /\ now - Since(memory, id) < GracePeriod
         /\ \A id \in DOMAIN memory'.retired : memory'.retired[id] = Since(memory, id)
         /\ memory'.retired = [id \in DOMAIN memory'.retired |-> memory'.retired[id]]
<1>1. \A k \in memory.keys : k.id # key.id
  <2>1. \A k \in memory.keys : k.id < key.id /\ k.id \in KeyIds /\ key.id \in KeyIds
    BY NewKey DEF IInv, TypeOK, StorageOK, SignedPreKey
  <2>2. MaxKeyId \in Nat
    BY SignedPreKeysAssumption
  <2>3. QED
    BY <2>1, <2>2 DEF KeyIds
<1>2. key.id \notin Ids(memory)
  BY NewKey
<1>3. PICK u : u = WithSignedPreKey(memory, key)
  OBVIOUS
<1>4. memory' = u
  BY <1>3 DEF StoreSignedPreKey
<1>5. PICK s : s = memory
  OBVIOUS
<1>6. s = [keys |-> s.keys, latest |-> s.latest, retired |-> s.retired]
  BY <1>5 DEF IInv, TypeOK, StorageOK
<1>7. u = WithSignedPreKey(s, key)
  BY <1>3, <1>5
<1>8. QED
  BY <1>1, <1>2, <1>4, <1>5, <1>6, <1>7, StoredFields

(* A stored signed prekey is retired since it has been replaced.           *)
LEMMA SinceIsReplaced ==
  ASSUME IInv, StoreSignedPreKey, NEW k \in memory.keys
  PROVE  /\ k.id \in Ids(memory) /\ k.serial \in DOMAIN replaced'
         /\ replaced'[k.serial] = Since(memory, k.id)
         /\ Since(memory, k.id) \in 0..now
<1>1. CASE k \in memory.latest
  <2>1. k.id \in {l.id : l \in memory.latest}
    BY <1>1
  <2>2. now \in 0..now
    BY DEF IInv, TypeOK
  <2>3. QED
    BY <1>1, <2>1, <2>2, ReplacedFields DEF Ids, Since
<1>2. CASE k \notin memory.latest
  <2>1. /\ k.id \in DOMAIN memory.retired /\ k.serial \in DOMAIN replaced
        /\ replaced[k.serial] = memory.retired[k.id]
    BY <1>2 DEF IInv, StoreInv
  <2>2. \A l \in memory.latest : k.id # l.id
    BY <2>1 DEF IInv, TypeOK, StorageOK
  <2>3. Since(memory, k.id) = memory.retired[k.id]
    BY <2>2 DEF Since
  <2>4. memory.retired[k.id] \in 0..now
    BY <2>1 DEF IInv, TypeOK, StorageOK
  <2>5. QED
    BY <2>1, <2>3, <2>4, ReplacedFields DEF Ids
<1>3. QED
  BY <1>1, <1>2

LEMMA ExpiredStays ==
  ASSUME IInv, StoreSignedPreKey, NEW k, Expired(k)
  PROVE  Expired(k)'
<1>1. now' = now
  BY DEF StoreSignedPreKey
<1>2. k.serial \in DOMAIN replaced' /\ replaced'[k.serial] = replaced[k.serial]
  BY ReplacedFields DEF Expired
<1>3. QED
  BY <1>1, <1>2 DEF Expired

(* What is pruned has been replaced for a grace period.                    *)
LEMMA HeldStaysHeld ==
  ASSUME InOrder, IInv, StoreSignedPreKey, NEW k, Held(k)
  PROVE  Held(k)'
<1>1. CASE Expired(k)
  BY <1>1, ExpiredStays DEF Held
<1>2. CASE k \in memory.keys
  <2>1. PICK key : key = [id |-> rotation.id, serial |-> made + 1, createdAt |-> now]
    OBVIOUS
  <2>2. CASE k \in memory'.keys
    BY <2>2 DEF Held
  <2>3. CASE k \notin memory'.keys
    <3>1. ~(now - Since(memory, k.id) < GracePeriod)
      BY <1>2, <2>1, <2>3, StoredKeys
    <3>2. k.serial \in DOMAIN replaced' /\ replaced'[k.serial] = Since(memory, k.id)
          /\ Since(memory, k.id) \in 0..now
      BY <1>2, SinceIsReplaced
    <3>3. now \in Nat /\ GracePeriod \in Nat /\ now' = now
      BY SignedPreKeysAssumption DEF IInv, TypeOK, StoreSignedPreKey
    <3>4. now - replaced'[k.serial] >= GracePeriod
      BY <3>1, <3>2, <3>3
    <3>5. QED
      BY <3>2, <3>3, <3>4 DEF Held, Expired
  <2>4. QED
    BY <2>2, <2>3
<1>3. QED
  BY <1>1, <1>2 DEF Held

LEMMA StoredStorageOK ==
  ASSUME InOrder, IInv, StoreSignedPreKey
  PROVE  StorageOK(memory)'
<1>1. PICK key : key = [id |-> rotation.id, serial |-> made + 1, createdAt |-> now]
  OBVIOUS
<1>2. /\ memory' = [keys |-> memory'.keys, latest |-> memory'.latest, retired |-> memory'.retired]
      /\ memory'.latest = {key} /\ key \in memory'.keys
      /\ \A k \in memory'.keys : k = key \/ k \in memory.keys
      /\ \A id \in DOMAIN memory'.retired : id \in Ids(memory) /\ memory'.retired[id] = Since(memory, id)
      /\ memory'.retired = [id \in DOMAIN memory'.retired |-> memory'.retired[id]]
  BY <1>1, StoredKeys
<1>3. /\ key \in SignedPreKey
      /\ \A k \in memory.keys : k.id < key.id
      /\ \A id \in Ids(memory) : id # key.id
  BY <1>1, NewKey
<1>4. memory.keys \subseteq SignedPreKey /\ \A a, b \in memory.keys : a.id = b.id => a = b
  BY DEF IInv, TypeOK, StorageOK
<1>5. now' = now /\ now \in Nat
  BY DEF StoreSignedPreKey, IInv, TypeOK
<1>6. \A id \in Ids(memory) : id \in KeyIds /\ Since(memory, id) \in 0..now
  BY <1>5 DEF IInv, TypeOK, StorageOK, Ids, Since, SignedPreKey
<1>7. \A k \in memory.keys : k.id # key.id
  <2>1. \A k \in SignedPreKey : k.id \in KeyIds
    BY DEF SignedPreKey
  <2>2. MaxKeyId \in Nat
    BY SignedPreKeysAssumption
  <2>3. \A i, j \in KeyIds : i < j => i # j
    BY <2>2 DEF KeyIds
  <2>4. QED
    BY <1>3, <1>4, <2>1, <2>3
<1>8. memory'.retired \in [DOMAIN memory'.retired -> 0..now] /\ DOMAIN memory'.retired \subseteq KeyIds
  BY <1>2, <1>6
<1>9. memory'.keys \subseteq SignedPreKey /\ memory'.latest \subseteq SignedPreKey
  BY <1>2, <1>3, <1>4
<1>10. \A a, b \in memory'.keys : a.id = b.id => a = b
  BY <1>2, <1>4, <1>7
<1>11. \A k \in memory'.latest : k.id \notin DOMAIN memory'.retired
  BY <1>2, <1>3
<1>12. \A a, b \in memory'.latest : a = b
  BY <1>2
<1>13. QED
  BY <1>2, <1>5, <1>8, <1>9, <1>10, <1>11, <1>12 DEF StorageOK

LEMMA StoredStoreInv ==
  ASSUME InOrder, IInv, StoreSignedPreKey
  PROVE  StoreInv(memory)'
<1>1. PICK key : key = [id |-> rotation.id, serial |-> made + 1, createdAt |-> now]
  OBVIOUS
<1>2. /\ memory'.latest = {key} /\ key \in memory'.keys
      /\ \A k \in memory'.keys : k = key \/ k \in memory.keys
      /\ \A id \in DOMAIN memory'.retired : id \in Ids(memory)
      /\ \A id \in DOMAIN memory'.retired : memory'.retired[id] = Since(memory, id)
  BY <1>1, StoredKeys
<1>3. /\ key.serial = made + 1 /\ key.id <= made + 1 /\ made \in Nat /\ made' = made + 1
      /\ \A k \in memory.keys : k.id < key.id /\ k.serial <= made
      /\ \A id \in Ids(memory) : id < key.id
  BY <1>1, NewKey
<1>4. \A k \in memory.keys : k.serial \in Nat /\ k.id <= k.serial
  BY DEF IInv, TypeOK, StorageOK, StoreInv, SignedPreKey
<1>5. \A k \in memory'.keys : k.id <= k.serial /\ k.serial <= made'
  BY <1>2, <1>3, <1>4
<1>6. \A k \in memory'.keys : k = key \/ (k.id < key.id /\ k.serial < key.serial)
  BY <1>2, <1>3, <1>4
<1>7. \A k \in memory'.keys \ memory'.latest :
        /\ k.id \in DOMAIN memory'.retired /\ k.serial \in DOMAIN replaced'
        /\ replaced'[k.serial] = memory'.retired[k.id]
  <2> SUFFICES ASSUME NEW k \in memory'.keys, k # key
               PROVE  /\ k.id \in DOMAIN memory'.retired /\ k.serial \in DOMAIN replaced'
                      /\ replaced'[k.serial] = memory'.retired[k.id]
    BY <1>2
  <2>1. k \in memory.keys
    BY <1>2
  <2>2. k.id \in Ids(memory) /\ k.serial \in DOMAIN replaced'
        /\ replaced'[k.serial] = Since(memory, k.id)
    BY <2>1, SinceIsReplaced
  <2>3. now - Since(memory, k.id) < GracePeriod
    BY <1>1, <2>1, <2>2, StoredKeys
  <2>4. k.id \in DOMAIN memory'.retired
    BY <1>1, <2>2, <2>3, StoredKeys
  <2>5. QED
    BY <1>2, <2>2, <2>4
<1>8. QED
  BY <1>2, <1>3, <1>5, <1>6, <1>7 DEF StoreInv

(* The snapshot, when it could not be saved.                               *)
LEMMA OldStoreInv ==
  ASSUME IInv, StoreSignedPreKey, NEW s, s = disk
  PROVE  /\ \A k \in s.keys : k.serial <= made'
         /\ \A k \in s.keys \ s.latest : k.serial \in DOMAIN replaced' /\ replaced'[k.serial] = s.retired[k.id]
<1>1. made \in Nat /\ made' = made + 1 /\ \A k \in s.keys : k.serial \in Nat /\ k.serial <= made
  BY DEF IInv, TypeOK, StorageOK, StoreInv, SignedPreKey, StoreSignedPreKey
<1>2. \A k \in s.keys : k.serial <= made'
  BY <1>1
<1>3. \A k \in s.keys \ s.latest : k.serial \in DOMAIN replaced /\ replaced[k.serial] = s.retired[k.id]
  BY DEF IInv, StoreInv
<1>4. QED
  BY <1>2, <1>3, ReplacedFields

LEMMA StoreStep ==
  ASSUME InOrder, IInv, StoreSignedPreKey
  PROVE  IInv'
<1>1. PICK key : key = [id |-> rotation.id, serial |-> made + 1, createdAt |-> now]
  OBVIOUS
<1>2. /\ key \in SignedPreKey /\ key.serial = made + 1
      /\ made \in Nat /\ made' = made + 1 /\ made' <= MaxRotations
  BY <1>1, NewKey
<1>3. memory'.latest = {key} /\ key \in memory'.keys
  BY <1>1, StoredKeys
<1>4. /\ rotation \in Rotation /\ rotation.phase = "generating" /\ call \in [Calls -> Call]
      /\ published \subseteq SignedPreKey /\ now \in 0..MaxTime
      /\ failures \in 0..MaxFailures /\ crashes \in 0..MaxCrashes
      /\ DOMAIN replaced \subseteq 1..made
  BY DEF IInv, TypeOK, StoreSignedPreKey
<1>5. now' = now /\ published' = published /\ crashes' = crashes
  BY DEF StoreSignedPreKey
<1>6. \A l \in memory'.latest : l.serial \notin DOMAIN replaced'
  <2>1. DOMAIN replaced' \subseteq 1..made
    BY ReplacedFields
  <2>2. made + 1 \notin 1..made
    BY <1>2
  <2>3. QED
    BY <1>2, <1>3, <2>1, <2>2
<1>7. replaced' \in [DOMAIN replaced' -> 0..now'] /\ DOMAIN replaced' \subseteq 1..made' /\ made' \in 0..MaxRotations
  <2>1. replaced' \in [DOMAIN replaced' -> 0..now'] /\ DOMAIN replaced' \subseteq 1..made
    BY <1>5, ReplacedFields
  <2>2. 1..made \subseteq 1..made' /\ made' \in 0..MaxRotations
    BY <1>2
  <2>3. QED
    BY <2>1, <2>2
<1>8. \A k : Held(k) => Held(k)'
  BY HeldStaysHeld
<1>9. CASE /\ disk' = memory' /\ failures' = failures
           /\ rotation' = [rotation EXCEPT !.phase = "done", !.key = {key}]
           /\ call' = Settled("done", {key})
  <2>1. rotation' \in Rotation /\ rotation'.phase = "done" /\ rotation'.key = {key}
    BY <1>2, <1>4, <1>9 DEF Rotation
  <2>2. \A c \in Calls : call'[c] = IF call[c].pc # "waiting" THEN call[c]
                                    ELSE [call[c] EXCEPT !.pc = "done", !.latest = {key}]
    BY <1>9 DEF Settled
  <2>3. \A c \in Calls : call'[c] \in Call /\ call'[c].pc # "waiting"
    <3> SUFFICES ASSUME NEW c \in Calls
                 PROVE  call'[c] \in Call /\ call'[c].pc # "waiting"
      OBVIOUS
    <3>1. PICK q : q = call[c]
      OBVIOUS
    <3>2. q \in Call
      BY <1>4, <3>1
    <3>3. PICK keys : keys = {key}
      OBVIOUS
    <3>4. keys \subseteq SignedPreKey
      BY <1>2, <3>3
    <3>5. PICK t : t = [q EXCEPT !.pc = "done", !.latest = keys]
      OBVIOUS
    <3>6. t \in Call /\ t.pc = "done"
      BY <3>2, <3>4, <3>5 DEF Call
    <3>7. call'[c] = IF q.pc # "waiting" THEN q ELSE t
      BY <2>2, <3>1, <3>3, <3>5
    <3>8. QED
      BY <3>2, <3>6, <3>7
  <2>4. call' \in [Calls -> Call]
    BY <1>9, <2>3 DEF Settled
  <2>5. StorageOK(disk)' /\ StoreInv(disk)'
    BY <1>9, StoredStorageOK, StoredStoreInv DEF StorageOK, StoreInv
  <2>6. TypeOK'
    BY <1>4, <1>5, <1>7, <1>9, <2>1, <2>3, <2>4, <2>5, StoredStorageOK DEF TypeOK
  <2>7. Held(key)'
    BY <1>3 DEF Held
  <2>8. RotationInv'
    BY <2>1, <2>7 DEF RotationInv
  <2>9. CallInv'
    <3> SUFFICES ASSUME NEW c \in Calls
                 PROVE  /\ call'[c].pc \in {"done", "ready"} => call'[c].latest # {}
                        /\ \A k \in call'[c].latest : Held(k)'
      BY <2>1 DEF CallInv
    <3>1. CASE call[c].pc # "waiting"
      BY <1>8, <2>2, <3>1 DEF IInv, CallInv
    <3>2. CASE call[c].pc = "waiting"
      <4>1. call'[c].latest = {key}
        BY <1>4, <2>2, <3>2 DEF Call
      <4>2. QED
        BY <2>7, <4>1
    <3>3. QED
      BY <3>1, <3>2
  <2>10. PublishedInv'
    <3> SUFFICES ASSUME NEW p \in published
                 PROVE  /\ (p \in memory'.keys /\ p \in disk'.keys) \/ Expired(p)'
                        /\ \A l \in disk'.latest : p.serial = l.serial => p = l
      BY <1>5 DEF PublishedInv
    <3>1. Held(p)
      BY DEF IInv, PublishedInv, Held
    <3>2. Held(p)'
      BY <1>8, <3>1
    <3>3. p.serial \in 1..made
      <4>1. p \in memory.keys => p.serial \in 1..made
        <5>1. \A k \in memory.keys : k.serial \in Nat /\ k.id \in KeyIds /\ k.id <= k.serial /\ k.serial <= made
          BY DEF IInv, TypeOK, StorageOK, StoreInv, SignedPreKey
        <5>2. QED
          BY <1>2, <5>1 DEF KeyIds
      <4>2. Expired(p) => p.serial \in 1..made
        BY <1>4 DEF Expired
      <4>3. QED
        BY <3>1, <4>1, <4>2 DEF Held
    <3>4. \A l \in disk'.latest : p.serial # l.serial
      BY <1>2, <1>3, <1>9, <3>3
    <3>5. QED
      BY <1>9, <3>2, <3>4 DEF Held
  <2>11. QED
    BY <1>6, <2>5, <2>6, <2>8, <2>9, <2>10, StoredStoreInv DEF IInv
<1>10. CASE /\ failures < MaxFailures /\ failures' = failures + 1 /\ disk' = disk
            /\ rotation' = [rotation EXCEPT !.phase = "failed"]
            /\ call' = Settled("failed", {})
  <2>1. rotation' \in Rotation /\ rotation'.phase = "failed" /\ rotation'.key = rotation.key
    BY <1>4, <1>10 DEF Rotation
  <2>2. \A c \in Calls : call'[c] = IF call[c].pc # "waiting" THEN call[c]
                                    ELSE [call[c] EXCEPT !.pc = "failed", !.latest = {}]
    BY <1>10 DEF Settled
  <2>3. \A c \in Calls : call'[c] \in Call /\ call'[c].pc # "waiting"
    BY <1>4, <2>2 DEF Call
  <2>4. call' \in [Calls -> Call]
    BY <1>10, <2>3 DEF Settled
  <2>5. PICK s : s = disk
    OBVIOUS
  <2>6. StorageOK(disk)'
    BY <1>5, <1>10 DEF IInv, TypeOK, StorageOK
  <2>7. StoreInv(disk)'
    <3>1. \A k \in s.keys : k.serial <= made'
      BY <2>5, OldStoreInv
    <3>2. \A k \in s.keys \ s.latest : k.serial \in DOMAIN replaced' /\ replaced'[k.serial] = s.retired[k.id]
      BY <2>5, OldStoreInv
    <3>3. disk' = s
      BY <1>10, <2>5
    <3>4. StoreInv(s)
      BY <2>5 DEF IInv
    <3>5. QED
      BY <3>1, <3>2, <3>3, <3>4 DEF StoreInv
  <2>8. failures' \in 0..MaxFailures
    BY <1>4, <1>10, SignedPreKeysAssumption
  <2>9. TypeOK'
    BY <1>4, <1>5, <1>7, <2>1, <2>3, <2>4, <2>6, <2>8, StoredStorageOK DEF TypeOK
  <2>10. RotationInv'
    BY <1>8, <2>1 DEF IInv, RotationInv
  <2>11. CallInv'
    <3> SUFFICES ASSUME NEW c \in Calls
                 PROVE  /\ call'[c].pc \in {"done", "ready"} => call'[c].latest # {}
                        /\ \A k \in call'[c].latest : Held(k)'
      BY <2>1 DEF CallInv
    <3>1. CASE call[c].pc # "waiting"
      BY <1>8, <2>2, <3>1 DEF IInv, CallInv
    <3>2. CASE call[c].pc = "waiting"
      BY <1>4, <2>2, <3>2 DEF Call
    <3>3. QED
      BY <3>1, <3>2
  <2>12. PublishedInv'
    <3> SUFFICES ASSUME NEW p \in published
                 PROVE  /\ (p \in memory'.keys /\ p \in disk.keys) \/ Expired(p)'
                        /\ \A l \in disk.latest : p.serial = l.serial => p = l
      BY <1>5, <1>10 DEF PublishedInv
    <3>1. (p \in memory.keys /\ p \in disk.keys) \/ Expired(p)
      BY DEF IInv, PublishedInv
    <3>2. CASE Expired(p)
      BY <3>2, ExpiredStays DEF IInv, PublishedInv
    <3>3. CASE p \in memory.keys /\ p \in disk.keys
      <4>1. Held(p)'
        BY <1>8, <3>3 DEF Held
      <4>2. p \in memory'.keys \/ Expired(p)'
        BY <4>1 DEF Held
      <4>3. QED
        BY <3>3, <4>2 DEF IInv, PublishedInv
    <3>4. QED
      BY <3>1, <3>2, <3>3
  <2>13. QED
    BY <1>6, <2>7, <2>9, <2>10, <2>11, <2>12, StoredStoreInv DEF IInv
<1>11. QED
  BY <1>1, <1>9, <1>10 DEF StoreSignedPreKey

------------------------------------------------------------------------------
(* The other steps.                                                        *)

LEMMA PublishStep ==
  ASSUME IInv, NEW c \in Calls, PublishBundle(c)
  PROVE  IInv'
<1>1. /\ call[c].pc = "ready" /\ call' = [call EXCEPT ![c] = Idle]
      /\ UNCHANGED <<memory, rotation, now, replaced, made, crashes>>
  BY DEF PublishBundle
<1>2. /\ call \in [Calls -> Call] /\ rotation \in Rotation /\ published \subseteq SignedPreKey
      /\ failures \in 0..MaxFailures
  BY DEF IInv, TypeOK
<1>3. \A d \in Calls : call'[d] = IF d = c THEN Idle ELSE call[d]
  BY <1>1, <1>2
<1>4. call' \in [Calls -> Call]
  BY <1>1, <1>2 DEF Idle, Call
<1>5. \A d \in Calls : call'[d].pc = "waiting" => rotation'.phase = "generating"
  BY <1>1, <1>3 DEF IInv, TypeOK, Idle
<1>6. RotationInv'
  <2>1. \A d \in Calls : rotation.phase = "generating" /\ rotation.owner = {d} =>
          call'[d].pc = "waiting"
    BY <1>1, <1>3 DEF IInv, RotationInv
  <2>2. QED
    BY <1>1, <2>1, HeldStays, NextIdStays DEF IInv, RotationInv
<1>7. CallInv'
  BY <1>1, <1>3, HeldStays DEF IInv, CallInv, Idle
<1>8. StoreInv(memory)' /\ StorageOK(memory)' /\ \A l \in memory'.latest : l.serial \notin DOMAIN replaced'
  BY <1>1 DEF IInv, TypeOK, StorageOK, StoreInv
<1>9. CASE disk' = memory /\ published' = published \cup call[c].latest /\ failures' = failures
  <2>1. StoreInv(disk)' /\ StorageOK(disk)'
    BY <1>1, <1>9 DEF IInv, TypeOK, StorageOK, StoreInv
  <2>2. published' \subseteq SignedPreKey
    BY <1>2, <1>9 DEF Call
  <2>3. TypeOK'
    BY <1>1, <1>2, <1>4, <1>5, <1>8, <1>9, <2>1, <2>2 DEF IInv, TypeOK
  <2>4. PublishedInv'
    <3> SUFFICES ASSUME NEW p \in published'
                 PROVE  /\ (p \in memory.keys /\ p \in memory.keys) \/ Expired(p)
                        /\ \A l \in memory.latest : p.serial = l.serial => p = l
      BY <1>1, <1>9 DEF PublishedInv, Expired
    <3>1. Held(p)
      BY <1>9 DEF IInv, CallInv, PublishedInv, Held
    <3>2. CASE p \in memory.keys
      <4>1. \A l \in memory.latest : p.serial \in Nat /\ l.serial \in Nat
              /\ (p = l \/ p.serial < l.serial)
        BY <3>2 DEF IInv, TypeOK, StorageOK, StoreInv, SignedPreKey
      <4>2. QED
        BY <3>2, <4>1
    <3>3. CASE Expired(p)
      BY <3>3 DEF Expired, IInv
    <3>4. QED
      BY <3>1, <3>2, <3>3 DEF Held
  <2>5. QED
    BY <1>6, <1>7, <1>8, <2>1, <2>3, <2>4 DEF IInv
<1>10. CASE failures < MaxFailures /\ failures' = failures + 1 /\ disk' = disk /\ published' = published
  <2>1. StoreInv(disk)' /\ StorageOK(disk)' /\ PublishedInv'
    BY <1>1, <1>10 DEF IInv, TypeOK, StorageOK, StoreInv, PublishedInv, Expired
  <2>2. failures' \in 0..MaxFailures
    BY <1>2, <1>10, SignedPreKeysAssumption
  <2>3. TypeOK'
    BY <1>1, <1>2, <1>4, <1>5, <1>8, <1>10, <2>1, <2>2 DEF IInv, TypeOK
  <2>4. QED
    BY <1>6, <1>7, <1>8, <2>1, <2>3 DEF IInv
<1>11. QED
  BY <1>9, <1>10 DEF PublishBundle

LEMMA TickStep ==
  ASSUME IInv, Tick
  PROVE  IInv'
<1>1. /\ now < MaxTime /\ now' = now + 1
      /\ UNCHANGED <<memory, disk, rotation, call, published, replaced, made, failures, crashes>>
  BY DEF Tick
<1>2. now \in Nat /\ MaxTime \in Nat /\ GracePeriod \in Nat
  BY SignedPreKeysAssumption DEF IInv, TypeOK
<1>3. 0..now \subseteq 0..now' /\ now' \in 0..MaxTime
  BY <1>1, <1>2
<1>4. \A k : Expired(k) => Expired(k)'
  <2> SUFFICES ASSUME NEW k, Expired(k)
               PROVE  Expired(k)'
    OBVIOUS
  <2>1. k.serial \in DOMAIN replaced /\ replaced[k.serial] \in 0..now
        /\ now - replaced[k.serial] >= GracePeriod
    BY DEF Expired, IInv, TypeOK
  <2>2. now' - replaced[k.serial] >= GracePeriod
    <3>1. PICK t \in Nat : t = replaced[k.serial]
      BY <1>2, <2>1
    <3>2. now' - t >= GracePeriod
      BY <1>1, <1>2, <2>1, <3>1
    <3>3. QED
      BY <3>1, <3>2
  <2>3. k.serial \in DOMAIN replaced' /\ replaced'[k.serial] = replaced[k.serial]
    BY <1>1, <2>1
  <2>4. QED
    BY <2>2, <2>3 DEF Expired
<1>5. \A k : Held(k) => Held(k)'
  BY <1>1, <1>4 DEF Held
<1>6. StorageOK(memory)' /\ StorageOK(disk)'
  BY <1>1, <1>3 DEF IInv, TypeOK, StorageOK
<1>7. replaced' \in [DOMAIN replaced' -> 0..now']
  BY <1>1, <1>3 DEF IInv, TypeOK
<1>8. TypeOK'
  BY <1>1, <1>3, <1>6, <1>7 DEF IInv, TypeOK
<1>9. StoreInv(memory)' /\ StoreInv(disk)' /\ \A l \in memory'.latest : l.serial \notin DOMAIN replaced'
  BY <1>1 DEF IInv, StoreInv
<1>10. RotationInv'
  BY <1>1, <1>5, NextIdStays DEF IInv, RotationInv
<1>11. CallInv'
  BY <1>1, <1>5 DEF IInv, CallInv
<1>12. PublishedInv'
  BY <1>1, <1>4 DEF IInv, PublishedInv
<1>13. QED
  BY <1>8, <1>9, <1>10, <1>11, <1>12 DEF IInv

LEMMA CrashStep ==
  ASSUME IInv, Crash
  PROVE  IInv'
<1>1. /\ crashes < MaxCrashes /\ crashes' = crashes + 1 /\ memory' = disk /\ disk' = disk
      /\ rotation' = NoRotation /\ call' = [c \in Calls |-> Idle]
      /\ UNCHANGED <<now, published, made, failures>>
  BY DEF Crash
<1>2. PICK serials : serials = {k.serial : k \in disk.latest}
  OBVIOUS
<1>3. replaced' = [s \in DOMAIN replaced \ serials |-> replaced[s]]
  BY <1>2 DEF Crash
<1>4. DOMAIN replaced' = DOMAIN replaced \ serials
      /\ \A s \in DOMAIN replaced' : replaced'[s] = replaced[s]
  BY <1>3
<1>5. replaced' \in [DOMAIN replaced' -> 0..now]
  BY <1>3, <1>4 DEF IInv, TypeOK
<1>6. rotation' \in Rotation /\ rotation'.phase = "none" /\ rotation'.key = {}
  BY <1>1, SignedPreKeysAssumption DEF NoRotation, Rotation, KeyIds
<1>7. call' \in [Calls -> Call] /\ \A c \in Calls : call'[c] = Idle
  BY <1>1 DEF Idle, Call
<1>8. StorageOK(memory)' /\ StorageOK(disk)'
  BY <1>1 DEF IInv, TypeOK, StorageOK
<1>9. crashes' \in 0..MaxCrashes
  BY <1>1, SignedPreKeysAssumption DEF IInv, TypeOK
<1>10. \A c \in Calls : call'[c].pc = "idle" /\ call'[c].latest = {}
  BY <1>7 DEF Idle
<1>11. TypeOK'
  BY <1>1, <1>4, <1>5, <1>6, <1>7, <1>8, <1>9, <1>10 DEF IInv, TypeOK
<1>12. StoreInv(disk)'
  <2>1. StoreInv(disk) /\ StorageOK(disk)
    BY DEF IInv, TypeOK
  <2>2. \A k \in disk.keys \ disk.latest : k.serial \notin serials
    <3>1. \A k \in disk.keys \ disk.latest, l \in disk.latest :
            k.serial \in Nat /\ l.serial \in Nat /\ k.serial < l.serial
      BY <2>1 DEF StoreInv, StorageOK, SignedPreKey
    <3>2. \A k \in disk.keys \ disk.latest, l \in disk.latest : k.serial # l.serial
      BY <3>1
    <3>3. QED
      BY <1>2, <3>2
  <2>3. \A k \in disk.keys \ disk.latest :
          k.serial \in DOMAIN replaced' /\ replaced'[k.serial] = disk.retired[k.id]
    BY <1>4, <2>1, <2>2 DEF StoreInv
  <2>4. QED
    BY <1>1, <2>1, <2>3 DEF StoreInv
<1>13. StoreInv(memory)'
  BY <1>1, <1>12 DEF StoreInv
<1>14. \A l \in memory'.latest : l.serial \notin DOMAIN replaced'
  BY <1>1, <1>2, <1>4
<1>15. RotationInv' /\ CallInv'
  BY <1>6, <1>10 DEF RotationInv, CallInv
<1>16. PublishedInv'
  <2> SUFFICES ASSUME NEW p \in published
               PROVE  /\ p \in disk.keys \/ Expired(p)'
                      /\ \A l \in disk.latest : p.serial = l.serial => p = l
    BY <1>1 DEF PublishedInv
  <2>1. \A l \in disk.latest : l \in disk.keys /\ (p.serial = l.serial => p = l)
    BY DEF IInv, PublishedInv, StoreInv
  <2>2. p \in disk.keys \/ Expired(p)
    BY DEF IInv, PublishedInv
  <2>3. CASE Expired(p) /\ p.serial \in serials
    BY <1>2, <2>1, <2>3
  <2>4. CASE Expired(p) /\ p.serial \notin serials
    <3>1. Expired(p)'
      BY <1>1, <1>4, <2>4 DEF Expired
    <3>2. QED
      BY <2>1, <3>1
  <2>5. QED
    BY <2>1, <2>2, <2>3, <2>4
<1>17. QED
  BY <1>11, <1>12, <1>13, <1>14, <1>15, <1>16 DEF IInv

------------------------------------------------------------------------------
LEMMA IInvInit ==
  ASSUME Init
  PROVE  IInv
<1>1. memory = [keys |-> {}, latest |-> {}, retired |-> Nothing] /\ disk = memory
  BY DEF Init
<1>2. DOMAIN Nothing = {} /\ Nothing \in [DOMAIN Nothing -> 0..now]
  BY DEF Nothing
<1>3. StorageOK(memory) /\ StorageOK(disk)
  BY <1>1, <1>2 DEF StorageOK
<1>4. rotation \in Rotation /\ rotation.phase = "none" /\ rotation.key = {}
  BY SignedPreKeysAssumption DEF Init, NoRotation, Rotation, KeyIds
<1>5. call \in [Calls -> Call] /\ \A c \in Calls : call[c].pc = "idle" /\ call[c].latest = {}
  BY DEF Init, Idle, Call
<1>6. /\ now \in 0..MaxTime /\ made \in 0..MaxRotations
      /\ failures \in 0..MaxFailures /\ crashes \in 0..MaxCrashes
  BY SignedPreKeysAssumption DEF Init
<1>7. published = {} /\ replaced = Nothing
  BY DEF Init
<1>8. TypeOK
  BY <1>2, <1>3, <1>4, <1>5, <1>6, <1>7 DEF TypeOK
<1>9. StoreInv(memory) /\ StoreInv(disk)
  BY <1>1, <1>2 DEF StoreInv
<1>10. RotationInv /\ CallInv /\ PublishedInv
  BY <1>4, <1>5, <1>7 DEF RotationInv, CallInv, PublishedInv
<1>11. QED
  BY <1>1, <1>8, <1>9, <1>10 DEF IInv

LEMMA IInvStep ==
  ASSUME InOrder, IInv, [Next]_vars
  PROVE  IInv'
<1>1. CASE UNCHANGED vars
  <2>1. UNCHANGED <<memory, disk, rotation, call, now, published, replaced, made, failures, crashes>>
    BY <1>1 DEF vars
  <2>2. RotationInv' /\ CallInv'
    BY <2>1, HeldStays, NextIdStays DEF IInv, RotationInv, CallInv
  <2>3. rotation' \in Rotation /\ call' \in [Calls -> Call]
        /\ \A c \in Calls : call'[c].pc = "waiting" => rotation'.phase = "generating"
    BY <2>1 DEF IInv, TypeOK
  <2>4. QED
    BY <2>1, <2>2, <2>3, CallStep
<1>2. CASE \E c \in Calls :
             \/ EnsureSignedPreKey(c) \/ IsFresh(c) \/ RotateOld(c) \/ RotateNow(c)
             \/ Rotated(c) \/ PublishBundle(c)
  BY <1>2, EnsureStep, IsFreshStep, RotateOldStep, RotateNowStep, RotatedStep, PublishStep
<1>3. CASE StoreSignedPreKey
  BY <1>3, StoreStep
<1>4. CASE Tick
  BY <1>4, TickStep
<1>5. CASE Crash
  BY <1>5, CrashStep
<1>6. QED
  BY <1>1, <1>2, <1>3, <1>4, <1>5 DEF Next

(* The inductive invariant, when the ids are left to the manager and do not *)
(* wrap: the stores grow in order, and what a call holds is stored.        *)
THEOREM IInvHolds ==
  ASSUME InOrder
  PROVE  Spec => []IInv
<1>1. Init => IInv
  BY IInvInit
<1>2. IInv /\ [Next]_vars => IInv'
  BY IInvStep
<1>3. QED
  BY <1>1, <1>2, PTL DEF Spec

(* Every variable keeps its type; the retired signed prekeys of memory and  *)
(* snapshot stay apart from the latest.                                    *)
THEOREM TypeCorrect ==
  ASSUME InOrder
  PROVE  Spec => []TypeOK
<1>1. IInv => TypeOK
  BY DEF IInv
<1>2. QED
  BY <1>1, IInvHolds, PTL

(* The signed prekey of a bundle is in memory and in the snapshot until it  *)
(* has been replaced for a grace period (storeSignedPreKey with             *)
(* pruneRetiredSignedPreKeys), whatever calls overlap, saves fail and       *)
(* crashes intervene.                                                      *)
THEOREM PublishedSignedPreKeysKeptHolds ==
  ASSUME InOrder
  PROVE  Spec => []PublishedSignedPreKeysKept
<1>1. IInv => PublishedSignedPreKeysKept
  BY DEF IInv, PublishedInv, PublishedSignedPreKeysKept, Expired
<1>2. QED
  BY <1>1, IInvHolds, PTL

(* The latest signed prekey, which a call may pick for a bundle, is stored. *)
THEOREM LatestIsStoredHolds ==
  ASSUME InOrder
  PROVE  Spec => []LatestIsStored
<1>1. IInv => LatestIsStored
  BY DEF IInv, StoreInv, LatestIsStored
<1>2. QED
  BY <1>1, IInvHolds, PTL
================================================================================
