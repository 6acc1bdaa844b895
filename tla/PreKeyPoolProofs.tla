---------------------------- MODULE PreKeyPoolProofs ----------------------------
(***************************************************************************)
(* Theorems about PreKeyPool, for any calls, ids, batch sizes and faults.  *)
(*                                                                         *)
(* The argument: the id of a prekey is its position, wrapped.  Positions    *)
(* are claimed, and the claim is on disk, before a prekey is made at one,   *)
(* and none is claimed twice; so a prekey can only be overwritten by one    *)
(* that is MAX_KEY_ID positions further, and the claim of that is on disk.  *)
(* The id of a bundle stays marked, in memory and on disk, for as long as   *)
(* the bundle may be in use, so no other bundle can get it.                *)
(***************************************************************************)
EXTENDS PreKeyPool, WellFoundedInduction, FiniteSetTheorems, TLAPS

Stored(s, id, key) == id \in DOMAIN s.preKeys /\ s.preKeys[id] = key

(* The position at which the next prekey will be made, or after it.        *)
Frontier ==
  IF flight.phase = "claimed" THEN flight.position + flight.stored ELSE disk.position

Placed(id, key) == id = WrapPreKeyId(key.position) /\ key.position < Frontier

(* Another prekey may have taken the id.                                   *)
ComeRound(key) == disk.position >= key.position + MaxKeyId + 1

PlaceInv(s) ==
  /\ s.next = WrapPreKeyId(s.position)
  /\ \A id \in DOMAIN s.preKeys : Placed(id, s.preKeys[id])

FlightInv ==
  /\ disk.position <= memory.position
  /\ flight.phase \in {"started", "claimed"} =>
       /\ flight.start = WrapPreKeyId(flight.position)
       /\ \E c \in Calls : flight.owner = {c} /\ call[c].pc = "waiting"
  /\ flight.phase = "started" => flight.position = memory.position /\ flight.stored = 0
  /\ flight.phase = "claimed" =>
       /\ memory.position = flight.position + ReplenishCount
       /\ disk.position = flight.position + ReplenishCount
       /\ flight.stored < ReplenishCount

LoadedInv ==
  \A c \in Calls : \A key \in call[c].loaded :
    /\ Placed(call[c].id, key)
    /\ call[c].id \in DOMAIN memory.preKeys =>
         memory.preKeys[call[c].id] = key \/ ComeRound(key)

BundleInv ==
  /\ \A b \in bundles : Placed(b.id, b.key)
  /\ \A b \in bundles : b.id \in memory.published /\ b.id \in disk.published
  /\ \A a, b \in bundles : a.id = b.id => a = b
  /\ \A b \in bundles :
       \/ Stored(memory, b.id, b.key) /\ Stored(disk, b.id, b.key)
       \/ ComeRound(b.key)

Inv == PlaceInv(memory) /\ PlaceInv(disk) /\ FlightInv /\ LoadedInv /\ BundleInv

IInv == TypeOK /\ Inv

------------------------------------------------------------------------------
(* Numbers.                                                                *)

LEMMA LeastNat ==
  ASSUME NEW S \in SUBSET Nat, S # {}
  PROVE  \E n \in S : \A m \in S : n <= m
<1> DEFINE R == {ss \in Nat \X Nat : ss[1] < ss[2]}
<1>1. IsWellFoundedOn(R, Nat)
  BY NatLessThanWellFounded DEF OpToRel
<1>2. PICK n \in S : \A m \in S : <<m, n>> \notin R
  <2> HIDE DEF R
  <2>1. QED
    BY <1>1, WFMin
<1>3. ASSUME NEW m \in S PROVE n <= m
  <2>1. m \in Nat /\ n \in Nat
    OBVIOUS
  <2>2. CASE m < n
    <3>1. <<m, n>> \in R
      BY <2>1, <2>2
    <3>2. QED
      BY <1>2, <3>1
  <2>3. QED
    BY <2>1, <2>2
<1>4. QED
  BY <1>3

LEMMA LowestIsOne ==
  ASSUME NEW ids \in SUBSET KeyIds, ids # {}
  PROVE  Lowest(ids) \in ids
<1>1. ids \in SUBSET Nat
  BY DEF KeyIds
<1>2. QED
  BY <1>1, LeastNat DEF Lowest

(* Division with remainder, by a positive number.                          *)
LEMMA Division ==
  ASSUME NEW n \in Nat \ {0}, NEW a \in Int
  PROVE  /\ a \div n \in Int /\ a % n \in 0..(n - 1)
         /\ a = n * (a \div n) + (a % n)
OBVIOUS

LEMMA OneQuotient ==
  ASSUME NEW n \in Nat \ {0}, NEW q \in Int, NEW r \in 0..(n - 1),
         NEW p \in Int, NEW t \in 0..(n - 1), n * q + r = n * p + t
  PROVE  q = p /\ r = t
<1>1. n * (q - p) = t - r
  OBVIOUS
<1>2. ASSUME q - p >= 1 PROVE FALSE
  <2>1. n * (q - p) >= n
    BY <1>2
  <2>2. QED
    BY <1>1, <2>1
<1>3. ASSUME p - q >= 1 PROVE FALSE
  <2>1. n * (p - q) >= n
    BY <1>3
  <2>2. n * (p - q) = r - t
    OBVIOUS
  <2>3. QED
    BY <2>1, <2>2
<1>4. QED
  BY <1>2, <1>3

LEMMA WrapPreKeyIdType ==
  ASSUME NEW i \in Int
  PROVE  WrapPreKeyId(i) \in KeyIds
BY Division, PreKeyPoolAssumption DEF WrapPreKeyId, KeyIds

(* Wrapping the start of a range first makes no difference.                *)
LEMMA WrapShifts ==
  ASSUME NEW p \in Int, NEW i \in Int
  PROVE  WrapPreKeyId(WrapPreKeyId(p) + i) = WrapPreKeyId(p + i)
<1> DEFINE N == MaxKeyId
           w == WrapPreKeyId(p)
           q == (p - 1) \div N
           a == (w + i) - 1
           b == (p + i) - 1
<1>1. N \in Nat \ {0}
  BY PreKeyPoolAssumption
<1>2. w \in Int /\ q \in Int /\ p = N * q + w
  BY <1>1, Division DEF WrapPreKeyId
<1> HIDE DEF N, w, q
<1>3. a \in Int /\ b \in Int /\ b = N * q + a
  BY <1>1, <1>2
<1>4. /\ a \div N \in Int /\ a % N \in 0..(N - 1) /\ a = N * (a \div N) + (a % N)
      /\ b \div N \in Int /\ b % N \in 0..(N - 1) /\ b = N * (b \div N) + (b % N)
  BY <1>1, <1>3, Division
<1>5. N * (b \div N) + (b % N) = N * (q + (a \div N)) + (a % N)
  <2>1. N * (q + (a \div N)) = N * q + N * (a \div N)
    BY <1>1, <1>2, <1>4
  <2>2. QED
    BY <1>1, <1>2, <1>3, <1>4, <2>1
<1>6. b % N = a % N
  <2> DEFINE e == q + (a \div N)
             f == b \div N
             s == a % N
             t == b % N
  <2>1. /\ e \in Int /\ f \in Int /\ s \in 0..(N - 1) /\ t \in 0..(N - 1)
        /\ N * f + t = N * e + s
    BY <1>2, <1>4, <1>5
  <2> HIDE DEF e, f, s, t
  <2>2. t = s
    BY <1>1, <2>1, OneQuotient
  <2>3. QED
    BY <2>2 DEF s, t
<1>7. WrapPreKeyId(w + i) = (a % N) + 1 /\ WrapPreKeyId(p + i) = (b % N) + 1
  BY DEF WrapPreKeyId, N
<1>8. QED
  BY <1>6, <1>7 DEF w

(* Two positions with the same id are MAX_KEY_ID apart.                    *)
LEMMA WrapsApart ==
  ASSUME NEW p \in Int, NEW q \in Int, p < q, WrapPreKeyId(p) = WrapPreKeyId(q)
  PROVE  q >= p + MaxKeyId
<1> DEFINE N == MaxKeyId
           a == (p - 1) \div N
           b == (q - 1) \div N
           r == (p - 1) % N
<1>1. N \in Nat \ {0}
  BY PreKeyPoolAssumption
<1>2. (q - 1) % N = r
  BY <1>1, Division DEF WrapPreKeyId
<1>3. /\ a \in Int /\ b \in Int /\ r \in Int
      /\ p - 1 = N * a + r /\ q - 1 = N * b + r
  BY <1>1, <1>2, Division
<1> HIDE DEF a, b, r, N
<1>4. q - p = N * (b - a)
  <2>1. N * (b - a) = N * b - N * a
    BY <1>1, <1>3
  <2>2. QED
    BY <1>1, <1>3, <2>1
<1>5. b - a >= 1
  <2>1. CASE b - a <= 0
    <3>1. N * (b - a) <= 0
      BY <1>1, <1>3, <2>1
    <3>2. QED
      BY <1>4, <3>1
  <2>2. QED
    BY <1>3, <2>1
<1>6. N * (b - a) >= N
  BY <1>1, <1>3, <1>5
<1>7. q - p >= N
  BY <1>4, <1>6
<1>8. QED
  BY <1>1, <1>7 DEF N

------------------------------------------------------------------------------
(* The operations of the storage.                                          *)

LEMMA ClaimRangeFields ==
  ASSUME NEW s, StorageOK(s), flight \in Flight
  PROVE  /\ StorageOK(ClaimRange(s))
         /\ ClaimRange(s).preKeys = s.preKeys
         /\ ClaimRange(s).published = s.published
         /\ ClaimRange(s).next = WrapPreKeyId(flight.start + ReplenishCount)
         /\ ClaimRange(s).position = flight.position + ReplenishCount
<1> DEFINE n == WrapPreKeyId(flight.start + ReplenishCount)
           q == flight.position + ReplenishCount
<1>1. n \in KeyIds /\ q \in Nat
  BY WrapPreKeyIdType, PreKeyPoolAssumption DEF Flight, KeyIds
<1> HIDE DEF n, q
<1>2. QED
  BY <1>1 DEF ClaimRange, StorageOK, n, q

LEMMA AddPreKeyFields ==
  ASSUME NEW s, StorageOK(s), NEW id \in KeyIds, NEW key \in PreKey
  PROVE  /\ StorageOK(AddPreKey(s, id, key))
         /\ DOMAIN AddPreKey(s, id, key).preKeys = DOMAIN s.preKeys \cup {id}
         /\ AddPreKey(s, id, key).preKeys[id] = key
         /\ \A i \in DOMAIN s.preKeys : i # id =>
              AddPreKey(s, id, key).preKeys[i] = s.preKeys[i]
         /\ AddPreKey(s, id, key).published = s.published
         /\ AddPreKey(s, id, key).next = s.next
         /\ AddPreKey(s, id, key).position = s.position
<1> DEFINE f == [i \in DOMAIN s.preKeys \cup {id} |-> IF i = id THEN key ELSE s.preKeys[i]]
<1>1. AddPreKey(s, id, key) = [s EXCEPT !.preKeys = f]
  BY DEF AddPreKey
<1>2. f \in [DOMAIN s.preKeys \cup {id} -> PreKey]
  BY DEF StorageOK
<1>3. /\ DOMAIN f = DOMAIN s.preKeys \cup {id} /\ f[id] = key
      /\ \A i \in DOMAIN s.preKeys : i # id => f[i] = s.preKeys[i]
  OBVIOUS
<1> HIDE DEF f
<1>4. QED
  BY <1>1, <1>2, <1>3 DEF StorageOK

LEMMA RemovePreKeyFields ==
  ASSUME NEW s, StorageOK(s), NEW id
  PROVE  /\ StorageOK(RemovePreKey(s, id))
         /\ DOMAIN RemovePreKey(s, id).preKeys = DOMAIN s.preKeys \ {id}
         /\ \A i \in DOMAIN s.preKeys : i # id =>
              RemovePreKey(s, id).preKeys[i] = s.preKeys[i]
         /\ RemovePreKey(s, id).published = s.published \ {id}
         /\ RemovePreKey(s, id).next = s.next
         /\ RemovePreKey(s, id).position = s.position
<1> DEFINE f == [i \in DOMAIN s.preKeys \ {id} |-> s.preKeys[i]]
<1>1. RemovePreKey(s, id) = [s EXCEPT !.preKeys = f, !.published = @ \ {id}]
  BY DEF RemovePreKey
<1>2. f \in [DOMAIN s.preKeys \ {id} -> PreKey]
  BY DEF StorageOK
<1>3. /\ DOMAIN f = DOMAIN s.preKeys \ {id}
      /\ \A i \in DOMAIN s.preKeys : i # id => f[i] = s.preKeys[i]
  OBVIOUS
<1> HIDE DEF f
<1>4. QED
  BY <1>1, <1>2, <1>3 DEF StorageOK

LEMMA PublishedFields ==
  ASSUME NEW s, StorageOK(s), NEW ids \in SUBSET DOMAIN s.preKeys
  PROVE  /\ StorageOK([s EXCEPT !.published = ids])
         /\ [s EXCEPT !.published = ids].preKeys = s.preKeys
         /\ [s EXCEPT !.published = ids].published = ids
         /\ [s EXCEPT !.published = ids].next = s.next
         /\ [s EXCEPT !.published = ids].position = s.position
BY DEF StorageOK

(* The prekey that is made next, and the id it gets.                       *)
NextId == WrapPreKeyId(flight.start + flight.stored)
NextPreKey == [serial |-> made, position |-> flight.position + flight.stored]

LEMMA NextPreKeyType ==
  ASSUME TypeOK
  PROVE  NextId \in KeyIds /\ NextPreKey \in PreKey
<1>1. flight.start + flight.stored \in Int /\ flight.position + flight.stored \in Nat
  BY PreKeyPoolAssumption DEF TypeOK, Flight, KeyIds
<1>2. QED
  BY <1>1, WrapPreKeyIdType DEF NextId, NextPreKey, PreKey, TypeOK

------------------------------------------------------------------------------
(* Types.                                                                  *)

LEMMA InitTypeOK == Init => TypeOK
<1> SUFFICES ASSUME Init PROVE TypeOK
  OBVIOUS
<1>1. StorageOK(memory)
  BY PreKeyPoolAssumption DEF Init, StorageOK, KeyIds
<1>2. NoFlight \in Flight /\ Idle \in Call
  BY PreKeyPoolAssumption DEF NoFlight, Flight, Idle, Call, KeyIds, None
<1>3. QED
  BY <1>1, <1>2, PreKeyPoolAssumption DEF Init, TypeOK, Idle, NoFlight

(* What the steps of a call make of it is a call again.                    *)
LEMMA IdleType == Idle \in Call /\ Idle.pc = "idle" /\ Idle.loaded = {}
BY DEF Idle, Call, None

LEMMA CountingType ==
  ASSUME NEW kind \in {"ensure", "bundle"}, NEW n \in Nat, NEW w \in ChosenIds \cup {None},
         NEW s
  PROVE  Counting(kind, n, w, s) \in Call /\ Counting(kind, n, w, s).pc = "counted"
         /\ Counting(kind, n, w, s).loaded = {}
<1> DEFINE low == IsLow(s)
<1>1. low \in BOOLEAN
  BY DEF IsLow
<1> HIDE DEF low
<1>2. Counting(kind, n, w, s) =
        [Idle EXCEPT !.kind = kind, !.number = n, !.wanted = w,
                     !.pc = "counted", !.low = low]
  BY DEF Counting, low
<1>3. QED
  BY <1>1, <1>2, IdleType DEF Call

LEMMA EnsuredType ==
  ASSUME NEW r \in Call
  PROVE  Ensured(r) \in Call /\ Ensured(r).pc \in {"idle", "list"}
         /\ Ensured(r).loaded \subseteq r.loaded
         /\ (Ensured(r).loaded # {} => Ensured(r).id = r.id)
<1>1. CASE r.kind = "ensure"
  BY <1>1, IdleType DEF Ensured
<1>2. CASE r.kind # "ensure"
  <2>1. Ensured(r) = [r EXCEPT !.pc = "list", !.low = FALSE]
    BY <1>2 DEF Ensured
  <2>2. QED
    BY <2>1 DEF Call
<1>3. QED
  BY <1>1, <1>2

LEMMA SettledType ==
  ASSUME call \in [Calls -> Call], NEW outcome \in {"done", "failed"}
  PROVE  /\ Settled(outcome) \in [Calls -> Call]
         /\ \A c \in Calls :
              /\ Settled(outcome)[c].pc # "waiting"
              /\ Settled(outcome)[c].loaded = call[c].loaded
              /\ Settled(outcome)[c].id = call[c].id
BY DEF Settled, Call

(* A step of one call that leaves the storage alone.                       *)
LEMMA CallStepType ==
  ASSUME TypeOK, NEW c \in Calls, NEW r \in Call, call' = [call EXCEPT ![c] = r],
         r.pc = "waiting" => flight.phase \in {"started", "claimed"},
         UNCHANGED <<memory, disk, flight, bundles, failures, made, crashes>>,
         created' \in 0..MaxBundles
  PROVE  TypeOK'
BY DEF TypeOK

LEMMA EnsureStepsType ==
  ASSUME TypeOK, NEW c \in Calls, EnsurePreKeys(c) \/ CreateBundle(c) \/ HasEnough(c)
  PROVE  TypeOK'
<1>1. CASE EnsurePreKeys(c)
  <2>1. Counting("ensure", 0, None, memory) \in Call
        /\ Counting("ensure", 0, None, memory).pc = "counted"
    BY CountingType
  <2>2. QED
    BY <1>1, <2>1, CallStepType DEF EnsurePreKeys, TypeOK
<1>2. CASE CreateBundle(c)
  <2>1. created + 1 \in Nat /\ created + 1 \in 0..MaxBundles /\ created' = created + 1
    BY <1>2, PreKeyPoolAssumption DEF CreateBundle, TypeOK
  <2>2. PICK id \in ChosenIds \cup {None} :
          call' = [call EXCEPT ![c] = Counting("bundle", created', id, memory)]
    BY <1>2 DEF CreateBundle
  <2>3. Counting("bundle", created', id, memory) \in Call
        /\ Counting("bundle", created', id, memory).pc = "counted"
    BY <2>1, CountingType
  <2>4. QED
    BY <1>2, <2>1, <2>2, <2>3, CallStepType DEF CreateBundle
<1>3. CASE HasEnough(c)
  <2>1. Ensured(call[c]) \in Call /\ Ensured(call[c]).pc \in {"idle", "list"}
    BY EnsuredType DEF TypeOK
  <2>2. QED
    BY <1>3, <2>1, CallStepType DEF HasEnough, TypeOK
<1>4. QED
  BY <1>1, <1>2, <1>3

LEMMA ReplenishPreKeysType ==
  ASSUME TypeOK, NEW c \in Calls, NEW r \in Call, ReplenishPreKeys(c, r),
         UNCHANGED <<memory, disk, bundles, created, made, failures, crashes>>
  PROVE  TypeOK'
<1>1. \A x \in {"waiting", "done", "failed"} : [r EXCEPT !.pc = x] \in Call
  BY DEF Call
<1>2. \A x \in {"waiting", "done", "failed"} : [r EXCEPT !.pc = x].pc = x
  BY DEF Call
<1>3. CASE flight.phase = "none" /\ UNCHANGED <<memory, disk>>
           /\ flight' = [NoFlight EXCEPT !.phase = "started", !.owner = {c},
                                   !.start = memory.next, !.position = memory.position]
           /\ call' = [call EXCEPT ![c] = [r EXCEPT !.pc = "waiting"]]
  <2>1. flight' \in Flight /\ flight'.phase = "started" /\ flight'.owner = {c}
    <3>1. memory.next \in KeyIds /\ memory.position \in Nat
      BY DEF TypeOK, StorageOK
    <3>2. NoFlight \in Flight
      BY PreKeyPoolAssumption DEF NoFlight, Flight, KeyIds
    <3>3. QED
      BY <1>3, <3>1, <3>2 DEF Flight
  <2>2. call' \in [Calls -> Call]
    BY <1>1, <1>3 DEF TypeOK
  <2>3. QED
    BY <1>3, <2>1, <2>2 DEF TypeOK
<1>4. CASE flight.phase \in {"started", "claimed"}
           /\ call' = [call EXCEPT ![c] = [r EXCEPT !.pc = "waiting"]]
           /\ UNCHANGED flight
  BY <1>1, <1>4, CallStepType DEF TypeOK
<1>5. CASE flight.phase \in {"done", "failed"}
           /\ call' = [call EXCEPT ![c] = [r EXCEPT !.pc = flight.phase]]
           /\ UNCHANGED flight
  BY <1>1, <1>2, <1>5, CallStepType DEF TypeOK
<1>6. QED
  BY <1>3, <1>4, <1>5 DEF ReplenishPreKeys

LEMMA ReplenishCallsType ==
  ASSUME TypeOK, NEW c \in Calls, HasTooFew(c) \/ ReplenishAgain(c)
  PROVE  TypeOK'
<1>1. CASE HasTooFew(c)
  BY <1>1, ReplenishPreKeysType DEF HasTooFew, TypeOK
<1>2. CASE ReplenishAgain(c)
  <2>1. [call[c] EXCEPT !.round = 1, !.ids = {}] \in Call
    <3>1. call[c] \in Call /\ 1 \in 0..1 /\ {} \in SUBSET KeyIds
      BY DEF TypeOK
    <3>2. QED
      BY <3>1 DEF Call
  <2>2. QED
    BY <1>2, <2>1, ReplenishPreKeysType DEF ReplenishAgain
<1>3. QED
  BY <1>1, <1>2

(* Nobody waits for a replenishment that has been settled.                 *)
LEMMA ReplenishedType ==
  ASSUME TypeOK, FlightInv, NEW c \in Calls, Replenished(c)
  PROVE  TypeOK'
<1>1. /\ Ensured(call[c]) \in Call /\ Ensured(call[c]).pc \in {"idle", "list"}
      /\ Idle \in Call /\ Idle.pc = "idle"
  BY EnsuredType, IdleType DEF TypeOK
<1>2. call' \in [Calls -> Call] /\ \A d \in Calls : call'[d].pc = "waiting" => call[d].pc = "waiting"
  BY <1>1 DEF Replenished, TypeOK
<1>3. CASE flight.owner = {c}
  <2>1. flight' = NoFlight /\ NoFlight \in Flight /\ NoFlight.phase = "none"
    BY <1>3, PreKeyPoolAssumption
    DEF Replenished, ClearFlight, NoFlight, Flight, KeyIds
  <2>2. flight.phase \notin {"started", "claimed"}
    BY <1>3 DEF Replenished, FlightInv
  <2>3. \A d \in Calls : call'[d].pc # "waiting"
    BY <1>2, <2>2 DEF TypeOK
  <2>4. QED
    BY <1>2, <2>1, <2>3 DEF Replenished, TypeOK
<1>4. CASE flight.owner # {c}
  BY <1>2, <1>4 DEF Replenished, ClearFlight, TypeOK
<1>5. QED
  BY <1>3, <1>4

LEMMA SaveSucceedsType ==
  ASSUME TypeOK, NEW s, StorageOK(s), SaveSucceeds(s)
  PROVE  StorageOK(memory') /\ StorageOK(disk') /\ failures' \in 0..MaxFailures
BY DEF SaveSucceeds, TypeOK

LEMMA SaveFailsType ==
  ASSUME TypeOK, NEW s, StorageOK(s), SaveFails(s)
  PROVE  StorageOK(memory') /\ StorageOK(disk') /\ failures' \in 0..MaxFailures
BY PreKeyPoolAssumption DEF SaveFails, TypeOK

LEMMA ReplenishType ==
  ASSUME TypeOK, FlightInv, Replenish
  PROVE  TypeOK'
<1>1. CASE SetNextPreKeyId
  <2>1. StorageOK(ClaimRange(memory))
    BY ClaimRangeFields DEF TypeOK
  <2>2. /\ StorageOK(memory') /\ StorageOK(disk') /\ failures' \in 0..MaxFailures
    BY <1>1, <2>1, SaveSucceedsType, SaveFailsType DEF SetNextPreKeyId
  <2>3. flight' \in Flight /\ flight'.owner = flight.owner
    BY <1>1 DEF SetNextPreKeyId, TypeOK, Flight
  <2>4. \/ flight'.phase = "claimed" /\ UNCHANGED call
        \/ flight'.phase = "failed" /\ call' = Settled("failed")
    BY <1>1 DEF SetNextPreKeyId, TypeOK, Flight
  <2>5. call' \in [Calls -> Call]
        /\ \A c \in Calls : call'[c].pc = "waiting" => flight'.phase = "claimed"
    BY <2>4, SettledType DEF TypeOK
  <2>6. \E c \in Calls : flight'.owner = {c}
    BY <1>1, <2>3 DEF SetNextPreKeyId, TypeOK
  <2>7. QED
    BY <1>1, <2>2, <2>3, <2>5, <2>6 DEF SetNextPreKeyId, TypeOK
<1>2. CASE StorePreKey
  <2>1. /\ flight.phase = "claimed"
        /\ memory' = AddPreKey(memory, NextId, NextPreKey)
        /\ UNCHANGED <<disk, bundles, created, failures, crashes>>
    BY <1>2 DEF StorePreKey, NextId, NextPreKey
  <2>2. StorageOK(memory')
    BY <2>1, NextPreKeyType, AddPreKeyFields DEF TypeOK
  <2>3. flight.stored + 1 \in 0..ReplenishCount /\ made' \in Nat
    BY <1>2, PreKeyPoolAssumption DEF StorePreKey, TypeOK, Flight, FlightInv
  <2>4. flight' \in Flight /\ flight'.owner = flight.owner
    BY <1>2, <2>3 DEF StorePreKey, TypeOK, Flight
  <2>5. \/ flight'.phase = "claimed" /\ UNCHANGED call
        \/ flight'.phase = "done" /\ call' = Settled("done")
    BY <1>2 DEF StorePreKey, TypeOK, Flight
  <2>6. call' \in [Calls -> Call]
        /\ \A c \in Calls : call'[c].pc = "waiting" => flight'.phase = "claimed"
    BY <2>5, SettledType DEF TypeOK
  <2>7. \E c \in Calls : flight'.owner = {c}
    BY <2>1, <2>4 DEF TypeOK
  <2>8. QED
    BY <2>1, <2>2, <2>3, <2>4, <2>6, <2>7 DEF TypeOK
<1>3. QED
  BY <1>1, <1>2 DEF Replenish

LEMMA CandidatesType ==
  ASSUME TypeOK, NEW c \in Calls,
         ListCandidates(c) \/ LoadPreKey(c) \/ GiveUp(c) \/ TryNext(c)
  PROVE  TypeOK'
<1>1. call[c] \in Call /\ call[c].wanted \in ChosenIds \cup {None}
  BY DEF TypeOK, Call
<1>2. CASE ListCandidates(c)
  <2> DEFINE ids == IF call[c].wanted = None THEN AvailablePreKeyIds(memory)
                    ELSE {call[c].wanted}
             round == IF call[c].wanted = None THEN call[c].round ELSE 1
             r == [call[c] EXCEPT !.pc = "listed", !.ids = ids, !.round = round]
  <2>1. ids \in SUBSET KeyIds /\ round \in 0..1
    BY <1>1, PreKeyPoolAssumption
    DEF TypeOK, Call, StorageOK, AvailablePreKeyIds, KeyIds
  <2>2. call' = [call EXCEPT ![c] = r]
    BY <1>2 DEF ListCandidates, TypeOK
  <2> HIDE DEF ids, round
  <2>3. r \in Call /\ r.pc = "listed"
    BY <1>1, <2>1 DEF Call
  <2>4. QED
    BY <1>2, <2>2, <2>3, CallStepType DEF ListCandidates, TypeOK
<1>3. CASE LoadPreKey(c)
  <2> DEFINE id == Lowest(Untried(call[c]))
             keys == {memory.preKeys[i] : i \in {id} \cap DOMAIN memory.preKeys}
             r == [call[c] EXCEPT !.pc = "loaded", !.id = id,
                                  !.attempted = @ \cup {id}, !.loaded = keys]
  <2>1. id \in KeyIds
    BY <1>1, <1>3, LowestIsOne DEF LoadPreKey, Untried, Call
  <2>2. keys \in SUBSET PreKey
    BY DEF TypeOK, StorageOK
  <2>3. call' = [call EXCEPT ![c] = r]
    BY <1>3 DEF LoadPreKey, TypeOK
  <2> HIDE DEF id, keys
  <2>4. r \in Call /\ r.pc = "loaded"
    BY <1>1, <2>1, <2>2 DEF Call
  <2>5. QED
    BY <1>3, <2>3, <2>4, CallStepType DEF LoadPreKey, TypeOK
<1>4. CASE GiveUp(c)
  BY <1>4, IdleType, CallStepType DEF GiveUp, TypeOK
<1>5. CASE TryNext(c)
  <2> DEFINE r == [call[c] EXCEPT !.pc = "listed", !.id = None, !.loaded = {}]
  <2>1. call' = [call EXCEPT ![c] = r]
    BY <1>5 DEF TryNext, TypeOK
  <2>2. r \in Call /\ r.pc = "listed"
    BY <1>1 DEF Call
  <2>3. QED
    BY <1>5, <2>1, <2>2, CallStepType DEF TryNext, TypeOK
<1>6. QED
  BY <1>2, <1>3, <1>4, <1>5

LEMMA ReservePreKeyType ==
  ASSUME TypeOK, NEW c \in Calls, ReservePreKey(c)
  PROVE  TypeOK'
<1>1. PICK key \in call[c].loaded :
        \/ /\ SaveReservation(call[c].id)
           /\ bundles' = bundles \cup
                {[number |-> call[c].number, id |-> call[c].id, key |-> key]}
        \/ /\ SaveFails(memory)
           /\ UNCHANGED bundles
  BY DEF ReservePreKey
<1>2. call[c].id \in DOMAIN memory.preKeys /\ call[c].id \in KeyIds
  BY DEF ReservePreKey, IsReservable, AvailablePreKeyIds, TypeOK, StorageOK
<1>3. StorageOK(Publish(memory, call[c].id))
  BY <1>2 DEF Publish, TypeOK, StorageOK
<1>4. StorageOK(memory') /\ StorageOK(disk') /\ failures' \in 0..MaxFailures
  <2>1. CASE SaveReservation(call[c].id)
    BY <1>3, <2>1, SaveSucceedsType DEF SaveReservation
  <2>2. CASE SaveFails(memory)
    BY <2>2, SaveFailsType DEF TypeOK
  <2>3. QED
    BY <1>1, <2>1, <2>2
<1>5. [number |-> call[c].number, id |-> call[c].id, key |-> key] \in Bundle
  BY <1>2 DEF TypeOK, Call, Bundle
<1>6. bundles' \subseteq Bundle
  BY <1>1, <1>5 DEF TypeOK
<1>7. call' \in [Calls -> Call] /\ \A d \in Calls : call'[d].pc = "waiting" => call[d].pc = "waiting"
  BY IdleType DEF ReservePreKey, TypeOK
<1>8. QED
  BY <1>4, <1>6, <1>7 DEF ReservePreKey, TypeOK

LEMMA ContinueType ==
  ASSUME TypeOK, FlightInv, NEW c \in Calls, Continue(c)
  PROVE  TypeOK'
BY EnsureStepsType, ReplenishCallsType, ReplenishedType, CandidatesType, ReservePreKeyType
DEF Continue

LEMMA BundleStepsType ==
  ASSUME TypeOK, NEW b \in bundles, ConsumePreKey(b) \/ ReleasePreKey(b)
  PROVE  TypeOK'
<1>1. CASE ConsumePreKey(b)
  <2>1. StorageOK(RemovePreKey(memory, b.id))
    BY RemovePreKeyFields DEF TypeOK
  <2>2. StorageOK(memory') /\ StorageOK(disk') /\ failures' \in 0..MaxFailures
    BY <1>1, <2>1, SaveSucceedsType, SaveFailsType DEF ConsumePreKey
  <2>3. Counting("ensure", 0, None, memory') \in Call
        /\ Counting("ensure", 0, None, memory').pc = "counted"
    BY CountingType
  <2>4. call' \in [Calls -> Call]
        /\ \A d \in Calls : call'[d].pc = "waiting" => call[d].pc = "waiting"
    BY <1>1, <2>3 DEF ConsumePreKey, TypeOK
  <2>5. QED
    BY <1>1, <2>2, <2>4 DEF ConsumePreKey, TypeOK
<1>2. CASE ReleasePreKey(b)
  <2>1. memory.published \ {b.id} \in SUBSET DOMAIN memory.preKeys
    BY DEF TypeOK, StorageOK
  <2>2. StorageOK([memory EXCEPT !.published = @ \ {b.id}])
    BY <2>1, PublishedFields DEF TypeOK
  <2>3. StorageOK(memory') /\ StorageOK(disk') /\ failures' \in 0..MaxFailures
    <3>1. CASE SaveSucceeds([memory EXCEPT !.published = @ \ {b.id}])
      BY <2>2, <3>1, SaveSucceedsType
    <3>2. CASE SaveFails(memory)
      BY <3>2, SaveFailsType DEF TypeOK
    <3>3. QED
      BY <1>2, <3>1, <3>2 DEF ReleasePreKey
  <2>4. QED
    BY <1>2, <2>3 DEF ReleasePreKey, TypeOK
<1>3. QED
  BY <1>1, <1>2

LEMMA NextTypeOK ==
  ASSUME IInv, [Next]_vars
  PROVE  TypeOK'
<1>1. CASE \E c \in Calls : EnsurePreKeys(c) \/ CreateBundle(c) \/ Continue(c)
  BY <1>1, EnsureStepsType, ContinueType DEF IInv, Inv
<1>2. CASE Replenish
  BY <1>2, ReplenishType DEF IInv, Inv
<1>3. CASE \E b \in bundles : ConsumePreKey(b) \/ ReleasePreKey(b)
  BY <1>3, BundleStepsType DEF IInv
<1>4. CASE Save
  BY <1>4 DEF Save, IInv, TypeOK
<1>5. CASE Crash
  <2>1. NoFlight \in Flight /\ NoFlight.phase = "none"
    BY PreKeyPoolAssumption DEF NoFlight, Flight, KeyIds
  <2>2. crashes' \in 0..MaxCrashes
    BY <1>5, PreKeyPoolAssumption DEF Crash, IInv, TypeOK
  <2>3. call' \in [Calls -> Call] /\ \A d \in Calls : call'[d].pc # "waiting"
    BY <1>5, IdleType DEF Crash
  <2>4. QED
    BY <1>5, <2>1, <2>2, <2>3 DEF Crash, IInv, TypeOK
<1>6. CASE UNCHANGED vars
  BY <1>6 DEF vars, IInv, TypeOK
<1>7. QED
  BY <1>1, <1>2, <1>3, <1>4, <1>5, <1>6 DEF Next

------------------------------------------------------------------------------
(* What a step does to the storage.                                        *)

(* A step of a call that reserves nothing leaves the storage alone.        *)
CallStep(c) ==
  EnsurePreKeys(c) \/ CreateBundle(c) \/ HasEnough(c) \/ HasTooFew(c) \/ Replenished(c)
  \/ ListCandidates(c) \/ LoadPreKey(c) \/ ReplenishAgain(c) \/ GiveUp(c) \/ TryNext(c)

LEMMA StepCases ==
  ASSUME [Next]_vars
  PROVE  \/ \E c \in Calls : CallStep(c)
         \/ SetNextPreKeyId
         \/ StorePreKey
         \/ \E c \in Calls : ReservePreKey(c)
         \/ \E b \in bundles : ConsumePreKey(b)
         \/ \E b \in bundles : ReleasePreKey(b)
         \/ Save
         \/ Crash
         \/ UNCHANGED vars
BY DEF Next, Continue, CallStep, Replenish

LEMMA CallStepKeeps ==
  ASSUME NEW c \in Calls, CallStep(c)
  PROVE  UNCHANGED <<memory, disk, bundles>>
BY DEF CallStep, EnsurePreKeys, CreateBundle, HasEnough, HasTooFew, Replenished,
       ListCandidates, LoadPreKey, ReplenishAgain, GiveUp, TryNext

LEMMA CallStepFlight ==
  ASSUME TypeOK, NEW c \in Calls, CallStep(c)
  PROVE  \/ UNCHANGED flight
         \/ /\ flight.phase = "none"
            /\ flight' = [NoFlight EXCEPT !.phase = "started", !.owner = {c},
                                  !.start = memory.next, !.position = memory.position]
            /\ \E r : r.pc = "waiting" /\ call' = [call EXCEPT ![c] = r]
         \/ Replenished(c) /\ flight.owner = {c} /\ flight' = NoFlight
<1>1. CASE EnsurePreKeys(c) \/ CreateBundle(c) \/ HasEnough(c) \/ ListCandidates(c)
           \/ LoadPreKey(c) \/ GiveUp(c) \/ TryNext(c)
  BY <1>1 DEF EnsurePreKeys, CreateBundle, HasEnough, ListCandidates, LoadPreKey, GiveUp,
              TryNext
<1>2. ASSUME NEW r \in Call, ReplenishPreKeys(c, r)
      PROVE  \/ UNCHANGED flight
             \/ /\ flight.phase = "none"
                /\ flight' = [NoFlight EXCEPT !.phase = "started", !.owner = {c},
                                  !.start = memory.next, !.position = memory.position]
                /\ \E q : q.pc = "waiting" /\ call' = [call EXCEPT ![c] = q]
  <2>1. [r EXCEPT !.pc = "waiting"].pc = "waiting"
    BY DEF Call
  <2>2. QED
    BY <1>2, <2>1 DEF ReplenishPreKeys
<1>3. CASE HasTooFew(c) \/ ReplenishAgain(c)
  <2>1. call[c] \in Call
    BY DEF TypeOK
  <2>2. [call[c] EXCEPT !.round = 1, !.ids = {}] \in Call
    <3>1. 1 \in 0..1 /\ {} \in SUBSET KeyIds
      OBVIOUS
    <3>2. QED
      BY <2>1, <3>1 DEF Call
  <2>3. QED
    BY <1>2, <1>3, <2>1, <2>2 DEF HasTooFew, ReplenishAgain
<1>4. CASE Replenished(c)
  BY <1>4 DEF Replenished, ClearFlight
<1>5. QED
  BY <1>1, <1>3, <1>4 DEF CallStep

(* A call does not go on by itself while it waits.                         *)
LEMMA CallStepWaits ==
  ASSUME TypeOK, NEW c \in Calls, CallStep(c)
  PROVE  call[c].pc # "waiting" /\ \E r : call' = [call EXCEPT ![c] = r]
<1>1. call[c].pc # "waiting"
  BY DEF CallStep, EnsurePreKeys, CreateBundle, HasEnough, HasTooFew, Replenished,
         ListCandidates, LoadPreKey, ReplenishAgain, GiveUp, TryNext
<1>2. CASE EnsurePreKeys(c) \/ CreateBundle(c) \/ HasEnough(c)
  BY <1>1, <1>2 DEF EnsurePreKeys, CreateBundle, HasEnough
<1>3. CASE HasTooFew(c) \/ ReplenishAgain(c)
  BY <1>1, <1>3 DEF HasTooFew, ReplenishAgain, ReplenishPreKeys
<1>4. CASE Replenished(c) \/ GiveUp(c)
  BY <1>1, <1>4 DEF Replenished, GiveUp
<1>5. CASE ListCandidates(c) \/ LoadPreKey(c) \/ TryNext(c)
  BY <1>1, <1>5 DEF ListCandidates, LoadPreKey, TryNext, TypeOK
<1>6. QED
  BY <1>2, <1>3, <1>4, <1>5 DEF CallStep

LEMMA ReservePreKeyFields ==
  ASSUME TypeOK, NEW c \in Calls, ReservePreKey(c)
  PROVE  /\ memory'.preKeys = memory.preKeys /\ memory'.next = memory.next
         /\ memory'.position = memory.position
         /\ memory.published \subseteq memory'.published
         /\ disk' = memory' \/ UNCHANGED <<memory, disk>>
<1>1. call[c].id \in DOMAIN memory.preKeys
  BY DEF ReservePreKey, IsReservable, AvailablePreKeyIds
<1>2. memory.published \cup {call[c].id} \in SUBSET DOMAIN memory.preKeys
  BY <1>1 DEF TypeOK, StorageOK
<1>3. Publish(memory, call[c].id) =
        [memory EXCEPT !.published = memory.published \cup {call[c].id}]
  BY DEF Publish
<1>4. \/ memory' = Publish(memory, call[c].id) /\ disk' = memory'
      \/ UNCHANGED <<memory, disk>>
  BY DEF ReservePreKey, SaveReservation, SaveSucceeds, SaveFails
<1> DEFINE ids == memory.published \cup {call[c].id}
<1> HIDE DEF ids
<1>5. /\ [memory EXCEPT !.published = ids].preKeys = memory.preKeys
      /\ [memory EXCEPT !.published = ids].published = ids
      /\ [memory EXCEPT !.published = ids].next = memory.next
      /\ [memory EXCEPT !.published = ids].position = memory.position
  BY <1>2, PublishedFields DEF TypeOK, ids
<1>6. QED
  BY <1>3, <1>4, <1>5 DEF ids

LEMMA ReleasePreKeyFields ==
  ASSUME TypeOK, NEW b \in bundles, ReleasePreKey(b)
  PROVE  /\ memory'.preKeys = memory.preKeys /\ memory'.next = memory.next
         /\ memory'.position = memory.position
         /\ \/ /\ disk' = memory' /\ memory'.published = memory.published \ {b.id}
               /\ bundles' = bundles \ {b}
            \/ UNCHANGED <<memory, disk, bundles>>
<1>1. memory.published \ {b.id} \in SUBSET DOMAIN memory.preKeys
  BY DEF TypeOK, StorageOK
<1> DEFINE ids == memory.published \ {b.id}
<1>2. \/ /\ memory' = [memory EXCEPT !.published = ids] /\ disk' = memory'
         /\ bundles' = bundles \ {b}
      \/ UNCHANGED <<memory, disk, bundles>>
  BY DEF ReleasePreKey, SaveSucceeds, SaveFails
<1> HIDE DEF ids
<1>3. /\ [memory EXCEPT !.published = ids].preKeys = memory.preKeys
      /\ [memory EXCEPT !.published = ids].published = ids
      /\ [memory EXCEPT !.published = ids].next = memory.next
      /\ [memory EXCEPT !.published = ids].position = memory.position
  BY <1>1, PublishedFields DEF TypeOK, ids
<1>4. QED
  BY <1>2, <1>3 DEF ids

LEMMA ConsumePreKeyFields ==
  ASSUME TypeOK, NEW b \in bundles, ConsumePreKey(b)
  PROVE  /\ DOMAIN memory'.preKeys = DOMAIN memory.preKeys \ {b.id}
         /\ \A i \in DOMAIN memory.preKeys : i # b.id =>
              memory'.preKeys[i] = memory.preKeys[i]
         /\ memory'.published = memory.published \ {b.id}
         /\ memory'.next = memory.next /\ memory'.position = memory.position
         /\ disk' = memory' \/ UNCHANGED disk
         /\ UNCHANGED flight
         /\ bundles' = bundles \ {b}
BY RemovePreKeyFields DEF TypeOK, ConsumePreKey, SaveSucceeds, SaveFails

LEMMA StorePreKeyFields ==
  ASSUME TypeOK, StorePreKey
  PROVE  /\ DOMAIN memory'.preKeys = DOMAIN memory.preKeys \cup {NextId}
         /\ memory'.preKeys[NextId] = NextPreKey
         /\ \A i \in DOMAIN memory.preKeys : i # NextId =>
              memory'.preKeys[i] = memory.preKeys[i]
         /\ memory'.published = memory.published
         /\ memory'.next = memory.next /\ memory'.position = memory.position
         /\ UNCHANGED <<disk, bundles>>
<1>1. memory' = AddPreKey(memory, NextId, NextPreKey) /\ UNCHANGED <<disk, bundles>>
  BY DEF StorePreKey, NextId, NextPreKey
<1>2. QED
  BY <1>1, NextPreKeyType, AddPreKeyFields DEF TypeOK

LEMMA SetNextPreKeyIdFields ==
  ASSUME TypeOK, FlightInv, SetNextPreKeyId
  PROVE  /\ memory'.preKeys = memory.preKeys /\ memory'.published = memory.published
         /\ memory'.next = WrapPreKeyId(memory'.position)
         /\ memory'.position = memory.position + ReplenishCount
         /\ UNCHANGED bundles
         /\ \/ disk' = memory' /\ flight' = [flight EXCEPT !.phase = "claimed"]
               /\ UNCHANGED call
            \/ UNCHANGED disk /\ flight' = [flight EXCEPT !.phase = "failed"]
<1>1. memory' = ClaimRange(memory)
  BY DEF SetNextPreKeyId, SaveSucceeds, SaveFails
<1>2. /\ flight.phase = "started" /\ flight.start = WrapPreKeyId(flight.position)
      /\ flight.position = memory.position /\ flight \in Flight /\ StorageOK(memory)
  BY DEF SetNextPreKeyId, FlightInv, TypeOK
<1>3. WrapPreKeyId(flight.start + ReplenishCount) =
        WrapPreKeyId(flight.position + ReplenishCount)
  <2>1. flight.position \in Int /\ ReplenishCount \in Int
    BY <1>2, PreKeyPoolAssumption DEF Flight
  <2>2. QED
    BY <1>2, <2>1, WrapShifts
<1>4. QED
  BY <1>1, <1>2, <1>3, ClaimRangeFields DEF SetNextPreKeyId, SaveSucceeds, SaveFails

LEMMA Positions ==
  ASSUME TypeOK
  PROVE  /\ memory.position \in Nat /\ disk.position \in Nat
         /\ flight.position \in Nat /\ flight.stored \in Nat /\ Frontier \in Nat
         /\ MaxKeyId \in Nat \ {0} /\ ReplenishCount \in Nat \ {0}
         /\ ReplenishCount <= MaxKeyId
BY PreKeyPoolAssumption DEF TypeOK, StorageOK, Flight, Frontier

------------------------------------------------------------------------------
(* The flight of the replenishment, and the positions it claims.           *)

LEMMA PositionsRise ==
  ASSUME IInv, TypeOK', [Next]_vars
  PROVE  /\ disk.position <= disk'.position /\ disk'.position <= memory'.position
         /\ Frontier <= Frontier'
<1> USE Positions
<1>1. /\ memory'.position \in Nat /\ disk'.position \in Nat
      /\ flight'.position \in Nat /\ flight'.stored \in Nat
  BY DEF TypeOK, StorageOK, Flight
<1>2. TypeOK /\ FlightInv
  BY DEF IInv, Inv
<1>3. CASE disk'.position = disk.position /\ memory'.position = memory.position
           /\ UNCHANGED flight
  BY <1>2, <1>3 DEF FlightInv, Frontier
<1>4. CASE \E c \in Calls : CallStep(c)
  <2>1. PICK c \in Calls : CallStep(c)
    BY <1>4
  <2>2. flight'.phase = "claimed" => UNCHANGED flight
    <3>1. /\ NoFlight.phase = "none"
          /\ [NoFlight EXCEPT !.phase = "started", !.owner = {c}, !.start = memory.next,
                              !.position = memory.position].phase = "started"
      BY DEF NoFlight
    <3>2. QED
      BY <1>2, <2>1, <3>1, CallStepFlight
  <2>3. flight.phase = "claimed" => UNCHANGED flight
    BY <1>2, <2>1, CallStepFlight DEF Replenished, FlightInv, TypeOK
  <2>4. QED
    BY <1>2, <2>1, <2>2, <2>3, CallStepKeeps DEF FlightInv, Frontier
<1>5. CASE SetNextPreKeyId
  <2>1. flight.phase = "started"
    BY <1>5 DEF SetNextPreKeyId
  <2>2. CASE disk' = memory' /\ flight' = [flight EXCEPT !.phase = "claimed"]
    <3>1. flight'.phase = "claimed" /\ flight'.position = flight.position
          /\ flight'.stored = flight.stored
      BY <1>2, <2>2 DEF TypeOK, Flight
    <3>2. QED
      BY <1>1, <1>2, <1>5, <2>1, <2>2, <3>1, SetNextPreKeyIdFields DEF FlightInv, Frontier
  <2>3. CASE UNCHANGED disk /\ flight' = [flight EXCEPT !.phase = "failed"]
    <3>1. flight'.phase = "failed"
      BY <1>2, <2>3 DEF TypeOK, Flight
    <3>2. QED
      BY <1>1, <1>2, <1>5, <2>1, <2>3, <3>1, SetNextPreKeyIdFields DEF FlightInv, Frontier
  <2>4. QED
    BY <1>2, <1>5, <2>2, <2>3, SetNextPreKeyIdFields
<1>6. CASE StorePreKey
  <2>1. flight.phase = "claimed" /\ flight.stored < ReplenishCount
    BY <1>2, <1>6 DEF StorePreKey, FlightInv
  <2>2. /\ flight'.position = flight.position /\ flight'.stored = flight.stored + 1
        /\ \/ flight'.phase = "claimed" /\ flight.stored + 1 < ReplenishCount
           \/ flight'.phase = "done" /\ flight.stored + 1 = ReplenishCount
    BY <1>2, <1>6 DEF StorePreKey, TypeOK, Flight
  <2>3. QED
    BY <1>1, <1>2, <1>6, <2>1, <2>2, StorePreKeyFields DEF FlightInv, Frontier
<1>7. CASE \E c \in Calls : ReservePreKey(c)
  <2>1. UNCHANGED flight /\ memory'.position = memory.position
        /\ (disk' = memory' \/ UNCHANGED disk)
    BY <1>2, <1>7, ReservePreKeyFields DEF ReservePreKey
  <2>2. QED
    BY <1>1, <1>2, <2>1 DEF FlightInv, Frontier
<1>8. CASE \E b \in bundles : ConsumePreKey(b) \/ ReleasePreKey(b)
  <2>1. UNCHANGED flight /\ memory'.position = memory.position
        /\ (disk' = memory' \/ UNCHANGED disk)
    BY <1>2, <1>8, ConsumePreKeyFields, ReleasePreKeyFields DEF ReleasePreKey
  <2>2. QED
    BY <1>1, <1>2, <2>1 DEF FlightInv, Frontier
<1>9. CASE Save
  BY <1>1, <1>2, <1>9 DEF Save, FlightInv, Frontier
<1>10. CASE Crash
  BY <1>1, <1>2, <1>10 DEF Crash, NoFlight, FlightInv, Frontier, TypeOK
<1>11. CASE UNCHANGED vars
  BY <1>3, <1>11 DEF vars
<1>12. QED
  BY <1>4, <1>5, <1>6, <1>7, <1>8, <1>9, <1>10, <1>11, StepCases

LEMMA NextFlightInv ==
  ASSUME IInv, TypeOK', [Next]_vars
  PROVE  FlightInv'
<1>1. TypeOK /\ FlightInv /\ memory.next = WrapPreKeyId(memory.position)
  BY DEF IInv, Inv, PlaceInv
<1>2. disk'.position <= memory'.position
  BY PositionsRise
<1>3. ASSUME UNCHANGED flight, memory'.position = memory.position,
             flight.phase = "claimed" => disk'.position = disk.position,
             \A c \in Calls : call[c].pc = "waiting" => call'[c].pc = "waiting"
      PROVE  FlightInv'
  BY <1>1, <1>2, <1>3 DEF FlightInv
<1>4. CASE \E c \in Calls : CallStep(c)
  <2>1. PICK c \in Calls : CallStep(c)
    BY <1>4
  <2>2. /\ call[c].pc # "waiting" /\ \E r : call' = [call EXCEPT ![c] = r]
        /\ UNCHANGED <<memory, disk, bundles>>
    BY <1>1, <2>1, CallStepKeeps, CallStepWaits
  <2>3. \A d \in Calls : call[d].pc = "waiting" => call'[d].pc = "waiting"
    BY <1>1, <2>2 DEF TypeOK
  <2>4. CASE UNCHANGED flight
    BY <1>3, <2>2, <2>3, <2>4
  <2>5. CASE /\ flight' = [NoFlight EXCEPT !.phase = "started", !.owner = {c},
                                  !.start = memory.next, !.position = memory.position]
             /\ \E r : r.pc = "waiting" /\ call' = [call EXCEPT ![c] = r]
    <3>1. /\ flight'.phase = "started" /\ flight'.owner = {c}
          /\ flight'.start = memory.next /\ flight'.position = memory.position
          /\ flight'.stored = 0
      BY <2>5 DEF NoFlight
    <3>2. call'[c].pc = "waiting"
      BY <1>1, <2>5 DEF TypeOK
    <3>3. QED
      BY <1>1, <1>2, <2>2, <3>1, <3>2 DEF FlightInv
  <2>6. CASE flight' = NoFlight
    BY <1>2, <2>6 DEF NoFlight, FlightInv
  <2>7. QED
    BY <1>1, <2>1, <2>4, <2>5, <2>6, CallStepFlight
<1>5. CASE SetNextPreKeyId
  <2>1. /\ flight.phase = "started" /\ flight.position = memory.position
        /\ flight.stored = 0 /\ flight.start = WrapPreKeyId(flight.position)
        /\ \E c \in Calls : flight.owner = {c} /\ call[c].pc = "waiting"
    BY <1>1, <1>5 DEF SetNextPreKeyId, FlightInv
  <2>2. CASE disk' = memory' /\ flight' = [flight EXCEPT !.phase = "claimed"]
             /\ UNCHANGED call
    <3>1. /\ flight'.phase = "claimed" /\ flight'.position = flight.position
          /\ flight'.stored = flight.stored /\ flight'.start = flight.start
          /\ flight'.owner = flight.owner
      BY <1>1, <2>2 DEF TypeOK, Flight
    <3>2. memory'.position = memory.position + ReplenishCount
      BY <1>1, <1>5, SetNextPreKeyIdFields
    <3>3. QED
      BY <1>1, <1>2, <2>1, <2>2, <3>1, <3>2, Positions DEF FlightInv
  <2>3. CASE flight' = [flight EXCEPT !.phase = "failed"]
    <3>1. flight'.phase = "failed"
      BY <1>1, <2>3 DEF TypeOK, Flight
    <3>2. QED
      BY <1>2, <3>1 DEF FlightInv
  <2>4. QED
    BY <1>1, <1>5, <2>2, <2>3, SetNextPreKeyIdFields
<1>6. CASE StorePreKey
  <2>1. /\ flight'.position = flight.position /\ flight'.start = flight.start
        /\ flight'.owner = flight.owner /\ flight'.stored = flight.stored + 1
        /\ \/ /\ flight'.phase = "claimed" /\ flight.stored + 1 < ReplenishCount
              /\ UNCHANGED call
           \/ flight'.phase = "done"
    BY <1>1, <1>6 DEF StorePreKey, TypeOK, Flight
  <2>2. flight.phase = "claimed" /\ UNCHANGED disk /\ memory'.position = memory.position
    BY <1>1, <1>6, StorePreKeyFields DEF StorePreKey
  <2>3. QED
    BY <1>1, <1>2, <2>1, <2>2 DEF FlightInv
<1>7. CASE \E c \in Calls : ReservePreKey(c)
  <2>1. PICK c \in Calls : ReservePreKey(c)
    BY <1>7
  <2>2. /\ UNCHANGED flight /\ memory'.position = memory.position
        /\ disk' = memory' \/ UNCHANGED disk
        /\ call[c].pc # "waiting" /\ call' = [call EXCEPT ![c] = Idle]
    BY <1>1, <2>1, ReservePreKeyFields DEF ReservePreKey
  <2>3. \A d \in Calls : call[d].pc = "waiting" => call'[d].pc = "waiting"
    BY <1>1, <2>2 DEF TypeOK
  <2>4. QED
    BY <1>1, <1>3, <2>2, <2>3, Positions DEF FlightInv
<1>8. CASE \E b \in bundles : ConsumePreKey(b)
  <2>1. PICK b \in bundles : ConsumePreKey(b)
    BY <1>8
  <2>2. /\ UNCHANGED flight /\ memory'.position = memory.position
        /\ disk' = memory' \/ UNCHANGED disk
    BY <1>1, <2>1, ConsumePreKeyFields
  <2>3. \/ UNCHANGED call
        \/ \E c \in Calls : call[c].pc = "idle" /\ \E r : call' = [call EXCEPT ![c] = r]
    BY <2>1 DEF ConsumePreKey
  <2>4. \A d \in Calls : call[d].pc = "waiting" => call'[d].pc = "waiting"
    BY <1>1, <2>3 DEF TypeOK
  <2>5. QED
    BY <1>1, <1>3, <2>2, <2>4, Positions DEF FlightInv
<1>9. CASE \E b \in bundles : ReleasePreKey(b)
  <2>1. PICK b \in bundles : ReleasePreKey(b)
    BY <1>9
  <2>2. /\ UNCHANGED <<flight, call>> /\ memory'.position = memory.position
        /\ disk' = memory' \/ UNCHANGED disk
    BY <1>1, <2>1, ReleasePreKeyFields DEF ReleasePreKey
  <2>3. QED
    BY <1>1, <1>3, <2>2, Positions DEF FlightInv
<1>10. CASE Save
  BY <1>1, <1>3, <1>10, Positions DEF Save, FlightInv
<1>11. CASE Crash
  BY <1>2, <1>11 DEF Crash, NoFlight, FlightInv
<1>12. CASE UNCHANGED vars
  BY <1>1, <1>3, <1>12 DEF vars
<1>13. QED
  BY <1>4, <1>5, <1>6, <1>7, <1>8, <1>9, <1>10, <1>11, <1>12, StepCases

------------------------------------------------------------------------------
(* Every prekey is under the id of its position.                           *)

LEMMA PreKeyTypes ==
  ASSUME TypeOK
  PROVE  /\ \A id \in DOMAIN memory.preKeys : memory.preKeys[id].position \in Nat
         /\ \A id \in DOMAIN disk.preKeys : disk.preKeys[id].position \in Nat
         /\ \A b \in bundles : b.key.position \in Nat
         /\ \A c \in Calls : \A key \in call[c].loaded : key.position \in Nat
BY DEF TypeOK, StorageOK, Call, Bundle, PreKey

LEMMA NextPlaceInv ==
  ASSUME IInv, TypeOK', [Next]_vars
  PROVE  PlaceInv(memory)' /\ PlaceInv(disk)'
<1> USE Positions, PreKeyTypes
<1>1. TypeOK /\ FlightInv /\ PlaceInv(memory) /\ PlaceInv(disk)
  BY DEF IInv, Inv
<1>2. Frontier <= Frontier' /\ Frontier' \in Nat
  <2>1. Frontier' \in Nat
    BY DEF TypeOK, StorageOK, Flight, Frontier
  <2>2. QED
    BY <2>1, PositionsRise
<1>3. ASSUME memory'.next = memory.next, memory'.position = memory.position,
             \A id \in DOMAIN memory'.preKeys :
               id \in DOMAIN memory.preKeys /\ memory'.preKeys[id] = memory.preKeys[id]
      PROVE  PlaceInv(memory)'
  BY <1>1, <1>2, <1>3 DEF PlaceInv, Placed
<1>4. ASSUME PlaceInv(memory)', disk' = memory' \/ UNCHANGED disk
      PROVE  PlaceInv(disk)'
  BY <1>1, <1>2, <1>4 DEF PlaceInv, Placed
<1>5. CASE \E c \in Calls : CallStep(c)
  BY <1>3, <1>4, <1>5, CallStepKeeps
<1>6. CASE SetNextPreKeyId
  <2>1. PlaceInv(memory)'
    BY <1>1, <1>2, <1>6, SetNextPreKeyIdFields DEF PlaceInv, Placed
  <2>2. QED
    BY <1>1, <1>4, <1>6, <2>1, SetNextPreKeyIdFields
<1>7. CASE StorePreKey
  <2>1. NextId = WrapPreKeyId(NextPreKey.position) /\ NextPreKey.position < Frontier'
    <3>1. flight.phase = "claimed" /\ flight.start = WrapPreKeyId(flight.position)
          /\ flight.stored < ReplenishCount
          /\ disk.position = flight.position + ReplenishCount
      BY <1>1, <1>7 DEF StorePreKey, FlightInv
    <3>2. NextId = WrapPreKeyId(flight.position + flight.stored)
      <4>1. flight.position \in Int /\ flight.stored \in Int
        BY <1>1
      <4>2. QED
        BY <3>1, <4>1, WrapShifts DEF NextId
    <3>3. flight.position + flight.stored < Frontier'
      <4>1. /\ flight'.position = flight.position /\ flight'.stored = flight.stored + 1
            /\ disk'.position = disk.position
        BY <1>1, <1>7 DEF StorePreKey, TypeOK, Flight
      <4>2. QED
        BY <1>1, <3>1, <4>1 DEF Frontier
    <3>4. NextPreKey.position = flight.position + flight.stored
      BY DEF NextPreKey
    <3>5. QED
      BY <3>2, <3>3, <3>4
  <2>2. PlaceInv(memory)'
    BY <1>1, <1>2, <1>7, <2>1, StorePreKeyFields DEF PlaceInv, Placed
  <2>3. QED
    BY <1>1, <1>4, <1>7, <2>2, StorePreKeyFields
<1>8. CASE \E c \in Calls : ReservePreKey(c)
  BY <1>1, <1>3, <1>4, <1>8, ReservePreKeyFields
<1>9. CASE \E b \in bundles : ConsumePreKey(b)
  BY <1>1, <1>3, <1>4, <1>9, ConsumePreKeyFields
<1>10. CASE \E b \in bundles : ReleasePreKey(b)
  BY <1>1, <1>3, <1>4, <1>10, ReleasePreKeyFields
<1>11. CASE Save
  BY <1>3, <1>4, <1>11 DEF Save
<1>12. CASE Crash
  BY <1>1, <1>2, <1>12 DEF Crash, PlaceInv, Placed
<1>13. CASE UNCHANGED vars
  BY <1>3, <1>4, <1>13 DEF vars
<1>14. QED
  BY <1>5, <1>6, <1>7, <1>8, <1>9, <1>10, <1>11, <1>12, <1>13, StepCases

------------------------------------------------------------------------------
(* A prekey that was loaded stays the one under its id, until it comes      *)
(* round.                                                                  *)

LEMMA Overwritten ==
  ASSUME TypeOK, FlightInv, flight.phase = "claimed", NEW p \in Nat, p < Frontier,
         NextId = WrapPreKeyId(p)
  PROVE  disk.position >= p + MaxKeyId + 1
<1> DEFINE q == flight.position + flight.stored
<1>1. flight.position \in Int /\ flight.stored \in Int /\ q \in Int /\ p < q
  BY Positions DEF Frontier
<1>2. WrapPreKeyId(q) = WrapPreKeyId(p)
  BY <1>1, WrapShifts DEF NextId, FlightInv
<1>3. q >= p + MaxKeyId
  BY <1>1, <1>2, WrapsApart
<1>4. disk.position >= q + 1
  BY Positions DEF FlightInv
<1>5. QED
  BY <1>1, <1>3, <1>4, Positions

(* What a call has loaded it had before, or has just read.                 *)
LEMMA LoadedFrom ==
  ASSUME TypeOK, [Next]_vars, NEW d \in Calls, NEW key \in call'[d].loaded
  PROVE  \/ key \in call[d].loaded /\ call'[d].id = call[d].id
         \/ /\ call'[d].id \in DOMAIN memory.preKeys
            /\ key = memory.preKeys[call'[d].id]
            /\ UNCHANGED memory
<1>1. call \in [Calls -> Call] /\ call[d] \in Call
  BY DEF TypeOK
<1>2. ASSUME NEW c \in Calls, NEW r \in Call, call' = [call EXCEPT ![c] = r],
             r.loaded = {} \/ (r.loaded \subseteq call[c].loaded /\ r.id = call[c].id)
      PROVE  key \in call[d].loaded /\ call'[d].id = call[d].id
  BY <1>1, <1>2
<1>3. ASSUME NEW c \in Calls, CallStep(c)
      PROVE  \/ key \in call[d].loaded /\ call'[d].id = call[d].id
             \/ /\ call'[d].id \in DOMAIN memory.preKeys
                /\ key = memory.preKeys[call'[d].id]
                /\ UNCHANGED memory
  <2> DEFINE Same == key \in call[d].loaded /\ call'[d].id = call[d].id
  <2>1. call[c] \in Call /\ Idle \in Call /\ Idle.loaded = {}
    BY <1>1, IdleType
  <2>2. ASSUME EnsurePreKeys(c) \/ CreateBundle(c) PROVE Same
    <3>1. \E kind \in {"ensure", "bundle"}, n \in Nat, w \in ChosenIds \cup {None} :
            call' = [call EXCEPT ![c] = Counting(kind, n, w, memory)]
      <4>1. CASE EnsurePreKeys(c)
        BY <4>1 DEF EnsurePreKeys
      <4>2. CASE CreateBundle(c)
        <5>1. created' \in Nat
          BY <4>2, PreKeyPoolAssumption DEF CreateBundle, TypeOK
        <5>2. QED
          BY <4>2, <5>1 DEF CreateBundle
      <4>3. QED
        BY <2>2, <4>1, <4>2
    <3>2. QED
      BY <1>2, <3>1, CountingType
  <2>3. ASSUME HasEnough(c) \/ Replenished(c) \/ GiveUp(c) PROVE Same
    <3>1. /\ Ensured(call[c]) \in Call /\ Ensured(call[c]).loaded \subseteq call[c].loaded
          /\ Ensured(call[c]).loaded = {} \/ Ensured(call[c]).id = call[c].id
      BY <2>1, EnsuredType
    <3>2. \/ call' = [call EXCEPT ![c] = Ensured(call[c])]
          \/ call' = [call EXCEPT ![c] = Idle]
      BY <1>1, <2>3 DEF HasEnough, Replenished, GiveUp
    <3>3. CASE call' = [call EXCEPT ![c] = Ensured(call[c])]
      <4> DEFINE r == Ensured(call[c])
      <4>1. /\ r \in Call /\ call' = [call EXCEPT ![c] = r]
            /\ r.loaded = {} \/ (r.loaded \subseteq call[c].loaded /\ r.id = call[c].id)
        BY <3>1, <3>3
      <4> HIDE DEF r
      <4>2. QED
        BY <1>2, <4>1
    <3>4. CASE call' = [call EXCEPT ![c] = Idle]
      BY <1>2, <2>1, <3>4
    <3>5. QED
      BY <3>2, <3>3, <3>4
  <2>4. ASSUME HasTooFew(c) \/ ReplenishAgain(c) PROVE Same
    <3>1. ASSUME NEW r \in Call, ReplenishPreKeys(c, r), r.loaded = call[c].loaded,
                 r.id = call[c].id
          PROVE  Same
      <4>1. \E x \in {"waiting", "done", "failed"} :
              call' = [call EXCEPT ![c] = [r EXCEPT !.pc = x]]
        BY <3>1 DEF ReplenishPreKeys
      <4>2. \A x \in {"waiting", "done", "failed"} :
              /\ [r EXCEPT !.pc = x] \in Call /\ [r EXCEPT !.pc = x].loaded = r.loaded
              /\ [r EXCEPT !.pc = x].id = r.id
        BY DEF Call
      <4>3. QED
        BY <1>2, <3>1, <4>1, <4>2
    <3>2. LET r == [call[c] EXCEPT !.round = 1, !.ids = {}]
          IN  r \in Call /\ r.loaded = call[c].loaded /\ r.id = call[c].id
      <4>1. 1 \in 0..1 /\ {} \in SUBSET KeyIds
        OBVIOUS
      <4>2. QED
        BY <2>1, <4>1 DEF Call
    <3>3. QED
      BY <2>1, <2>4, <3>1, <3>2 DEF HasTooFew, ReplenishAgain
  <2>5. ASSUME ListCandidates(c) PROVE Same
    BY <1>1, <2>5 DEF ListCandidates, Call
  <2>6. ASSUME TryNext(c) PROVE Same
    BY <1>1, <2>6 DEF TryNext, Call
  <2>7. CASE LoadPreKey(c)
    <3>1. CASE c = d
      <4> DEFINE id == Lowest(Untried(call[c]))
      <4>1. /\ call'[d].id = id /\ UNCHANGED memory
            /\ call'[d].loaded = {memory.preKeys[i] : i \in {id} \cap DOMAIN memory.preKeys}
        BY <1>1, <2>1, <2>7, <3>1 DEF LoadPreKey, Call
      <4> HIDE DEF id
      <4>2. QED
        BY <4>1
    <3>2. CASE c # d
      BY <1>1, <2>7, <3>2 DEF LoadPreKey
    <3>3. QED
      BY <3>1, <3>2
  <2>8. QED
    BY <1>3, <2>2, <2>3, <2>4, <2>5, <2>6, <2>7 DEF CallStep
<1>4. CASE SetNextPreKeyId \/ StorePreKey
  BY <1>1, <1>4, SettledType DEF SetNextPreKeyId, StorePreKey
<1>5. CASE \E c \in Calls : ReservePreKey(c)
  BY <1>2, <1>5, IdleType DEF ReservePreKey
<1>6. CASE \E b \in bundles : ConsumePreKey(b)
  <2>1. \/ UNCHANGED call
        \/ \E c \in Calls : call' = [call EXCEPT ![c] = Counting("ensure", 0, None, memory')]
    BY <1>6 DEF ConsumePreKey
  <2>2. /\ Counting("ensure", 0, None, memory') \in Call
        /\ Counting("ensure", 0, None, memory').loaded = {}
    BY CountingType
  <2>3. CASE UNCHANGED call
    BY <2>3
  <2>4. ASSUME NEW c \in Calls,
               call' = [call EXCEPT ![c] = Counting("ensure", 0, None, memory')]
        PROVE  key \in call[d].loaded /\ call'[d].id = call[d].id
    <3>1. c # d
      BY <1>1, <2>2, <2>4
    <3>2. QED
      BY <1>1, <2>4, <3>1
  <2>5. QED
    BY <2>1, <2>3, <2>4
<1>7. CASE (\E b \in bundles : ReleasePreKey(b)) \/ Save \/ UNCHANGED vars
  BY <1>7 DEF ReleasePreKey, Save, vars
<1>8. CASE Crash
  BY <1>8, IdleType DEF Crash
<1>9. QED
  BY <1>3, <1>4, <1>5, <1>6, <1>7, <1>8, StepCases

LEMMA NextLoadedInv ==
  ASSUME IInv, TypeOK', [Next]_vars
  PROVE  LoadedInv'
<1> USE Positions, PreKeyTypes
<1>1. TypeOK /\ FlightInv /\ PlaceInv(memory) /\ LoadedInv
  BY DEF IInv, Inv
<1>2. /\ Frontier <= Frontier' /\ disk.position <= disk'.position
      /\ Frontier' \in Nat /\ disk'.position \in Nat
  <2>1. Frontier' \in Nat /\ disk'.position \in Nat
    BY DEF TypeOK, StorageOK, Flight, Frontier
  <2>2. QED
    BY <2>1, PositionsRise
<1>3. SUFFICES ASSUME NEW d \in Calls, NEW key \in call'[d].loaded
               PROVE  /\ call'[d].id = WrapPreKeyId(key.position)
                      /\ key.position < Frontier'
                      /\ call'[d].id \in DOMAIN memory'.preKeys =>
                           \/ memory'.preKeys[call'[d].id] = key
                           \/ disk'.position >= key.position + MaxKeyId + 1
  BY DEF LoadedInv, Placed, ComeRound
<1> DEFINE id == call'[d].id
<1>4. CASE /\ id \in DOMAIN memory.preKeys /\ key = memory.preKeys[id]
           /\ UNCHANGED memory
  BY <1>1, <1>2, <1>4 DEF PlaceInv, Placed
<1>5. CASE key \in call[d].loaded /\ id = call[d].id
  <2>1. /\ key.position \in Nat
        /\ id = WrapPreKeyId(key.position) /\ key.position < Frontier
        /\ id \in DOMAIN memory.preKeys =>
             \/ memory.preKeys[id] = key
             \/ disk.position >= key.position + MaxKeyId + 1
    BY <1>1, <1>5 DEF LoadedInv, Placed, ComeRound
  <2> HIDE DEF id
  <2>2. ASSUME id \in DOMAIN memory'.preKeys
        PROVE  \/ memory'.preKeys[id] = key
               \/ disk'.position >= key.position + MaxKeyId + 1
    <3>1. CASE id \in DOMAIN memory.preKeys /\ memory'.preKeys[id] = memory.preKeys[id]
      BY <1>1, <1>2, <2>1, <3>1
    <3>2. CASE StorePreKey
      <4>1. CASE id = NextId
        <5>1. disk.position >= key.position + MaxKeyId + 1
          BY <1>1, <2>1, <3>2, <4>1, Overwritten DEF StorePreKey
        <5>2. QED
          BY <1>1, <1>2, <2>1, <5>1
      <4>2. CASE id # NextId
        BY <1>1, <2>2, <3>1, <3>2, <4>2, StorePreKeyFields
      <4>3. QED
        BY <4>1, <4>2
    <3>3. CASE Crash
      BY <1>3, <3>3, IdleType DEF Crash
    <3>4. CASE \E c \in Calls : CallStep(c)
      BY <2>2, <3>1, <3>4, CallStepKeeps
    <3>5. CASE SetNextPreKeyId
      BY <1>1, <2>2, <3>1, <3>5, SetNextPreKeyIdFields
    <3>6. CASE \E c \in Calls : ReservePreKey(c)
      BY <1>1, <2>2, <3>1, <3>6, ReservePreKeyFields
    <3>7. CASE \E b \in bundles : ConsumePreKey(b)
      BY <1>1, <2>2, <3>1, <3>7, ConsumePreKeyFields
    <3>8. CASE \E b \in bundles : ReleasePreKey(b)
      BY <1>1, <2>2, <3>1, <3>8, ReleasePreKeyFields
    <3>9. CASE Save \/ UNCHANGED vars
      BY <2>2, <3>1, <3>9 DEF Save, vars
    <3>10. QED
      BY <3>2, <3>3, <3>4, <3>5, <3>6, <3>7, <3>8, <3>9, StepCases
  <2>3. QED
    BY <1>1, <1>2, <2>1, <2>2 DEF id
<1>6. QED
  BY <1>1, <1>4, <1>5, LoadedFrom

------------------------------------------------------------------------------
(* The id of a bundle is its own, and marked, as long as it may be in use.  *)

(* What a step has to leave of a bundle.                                   *)
BundleOK(b) ==
  /\ Placed(b.id, b.key)
  /\ b.id \in memory.published /\ b.id \in disk.published
  /\ \/ Stored(memory, b.id, b.key) /\ Stored(disk, b.id, b.key)
     \/ ComeRound(b.key)

LEMMA BundleStays ==
  ASSUME IInv, TypeOK', [Next]_vars, NEW b \in bundles, b \in bundles'
  PROVE  BundleOK(b)'
<1> USE Positions, PreKeyTypes
<1>1. TypeOK /\ FlightInv /\ PlaceInv(memory) /\ BundleInv
  BY DEF IInv, Inv
<1>2. /\ Frontier <= Frontier' /\ disk.position <= disk'.position
      /\ Frontier' \in Nat /\ disk'.position \in Nat
  <2>1. Frontier' \in Nat /\ disk'.position \in Nat
    BY DEF TypeOK, StorageOK, Flight, Frontier
  <2>2. QED
    BY <2>1, PositionsRise
<1>3. /\ b.key.position \in Nat /\ Placed(b.id, b.key)
      /\ b.id \in memory.published /\ b.id \in disk.published
      /\ \/ Stored(memory, b.id, b.key) /\ Stored(disk, b.id, b.key)
         \/ ComeRound(b.key)
  BY <1>1 DEF BundleInv
<1>4. ASSUME b.id \in memory'.published, disk' = memory' \/ UNCHANGED disk,
             Stored(memory, b.id, b.key) =>
               b.id \in DOMAIN memory'.preKeys /\ memory'.preKeys[b.id] = memory.preKeys[b.id]
      PROVE  BundleOK(b)'
  BY <1>1, <1>2, <1>3, <1>4 DEF BundleOK, Placed, Stored, ComeRound
<1>5. CASE \E c \in Calls : CallStep(c)
  BY <1>3, <1>4, <1>5, CallStepKeeps DEF Stored
<1>6. CASE SetNextPreKeyId
  BY <1>1, <1>3, <1>4, <1>6, SetNextPreKeyIdFields DEF Stored
<1>7. CASE StorePreKey
  <2>1. CASE b.id = NextId
    <3>1. disk.position >= b.key.position + MaxKeyId + 1
      BY <1>1, <1>3, <1>7, <2>1, Overwritten DEF StorePreKey, Placed
    <3>2. QED
      BY <1>1, <1>2, <1>3, <1>7, <3>1, StorePreKeyFields DEF BundleOK, Placed, ComeRound
  <2>2. CASE b.id # NextId
    BY <1>1, <1>3, <1>4, <1>7, <2>2, StorePreKeyFields DEF Stored
  <2>3. QED
    BY <2>1, <2>2
<1>8. CASE \E c \in Calls : ReservePreKey(c)
  BY <1>1, <1>3, <1>4, <1>8, ReservePreKeyFields DEF Stored
<1>9. ASSUME NEW x \in bundles, ConsumePreKey(x) PROVE BundleOK(b)'
  <2>1. b.id # x.id
    BY <1>1, <1>9, ConsumePreKeyFields DEF BundleInv
  <2>2. QED
    BY <1>1, <1>3, <1>4, <1>9, <2>1, ConsumePreKeyFields DEF Stored
<1>10. ASSUME NEW x \in bundles, ReleasePreKey(x) PROVE BundleOK(b)'
  <2>1. CASE UNCHANGED <<memory, disk>>
    BY <1>3, <1>4, <2>1 DEF Stored
  <2>2. CASE disk' = memory' /\ memory'.published = memory.published \ {x.id}
             /\ bundles' = bundles \ {x}
    <3>1. b.id # x.id
      BY <1>1, <2>2 DEF BundleInv
    <3>2. QED
      BY <1>1, <1>3, <1>4, <1>10, <2>2, <3>1, ReleasePreKeyFields DEF Stored
  <2>3. QED
    BY <1>1, <1>10, <2>1, <2>2, ReleasePreKeyFields
<1>11. CASE Save
  BY <1>3, <1>4, <1>11 DEF Save, Stored
<1>12. CASE Crash
  BY <1>1, <1>2, <1>3, <1>12 DEF Crash, BundleOK, Placed, Stored, ComeRound
<1>13. CASE UNCHANGED vars
  BY <1>3, <1>4, <1>13 DEF vars, Stored
<1>14. QED
  BY <1>5, <1>6, <1>7, <1>8, <1>9, <1>10, <1>11, <1>12, <1>13, StepCases

(* A new bundle has an id that no bundle had.                              *)
LEMMA NewBundle ==
  ASSUME IInv, TypeOK', [Next]_vars, NEW b \in bundles', b \notin bundles
  PROVE  BundleOK(b)' /\ b.id \notin memory.published /\ bundles' = bundles \cup {b}
<1> USE Positions, PreKeyTypes
<1>1. TypeOK /\ FlightInv /\ LoadedInv
  BY DEF IInv, Inv
<1>2. PICK c \in Calls : ReservePreKey(c)
  <2>1. CASE \E c \in Calls : CallStep(c)
    BY <2>1, CallStepKeeps
  <2>2. CASE SetNextPreKeyId \/ StorePreKey
    BY <1>1, <2>2, SetNextPreKeyIdFields, StorePreKeyFields
  <2>3. CASE \E x \in bundles : ConsumePreKey(x) \/ ReleasePreKey(x)
    BY <2>3 DEF ConsumePreKey, ReleasePreKey
  <2>4. CASE Save \/ Crash \/ UNCHANGED vars
    BY <2>4 DEF Save, Crash, vars
  <2>5. QED
    BY <2>1, <2>2, <2>3, <2>4, StepCases
<1>3. PICK key \in call[c].loaded :
        /\ SaveReservation(call[c].id)
        /\ bundles' = bundles \cup
             {[number |-> call[c].number, id |-> call[c].id, key |-> key]}
  BY <1>2 DEF ReservePreKey
<1>4. b = [number |-> call[c].number, id |-> call[c].id, key |-> key]
  BY <1>3
<1>5. b.id = call[c].id /\ b.key = key
  BY <1>4
<1>6. b.id \in DOMAIN memory.preKeys /\ b.id \notin memory.published
  BY <1>2, <1>5 DEF ReservePreKey, IsReservable, AvailablePreKeyIds
<1>7. /\ memory'.preKeys = memory.preKeys /\ disk' = memory'
      /\ b.id \in memory'.published
  <2>1. memory.published \cup {b.id} \in SUBSET DOMAIN memory.preKeys
    BY <1>1, <1>6 DEF TypeOK, StorageOK
  <2>2. /\ memory' = [memory EXCEPT !.published = memory.published \cup {b.id}]
        /\ disk' = memory'
    BY <1>3, <1>5 DEF SaveReservation, SaveSucceeds, Publish
  <2> DEFINE ids == memory.published \cup {b.id}
  <2> HIDE DEF ids
  <2>3. [memory EXCEPT !.published = ids].published = ids
        /\ [memory EXCEPT !.published = ids].preKeys = memory.preKeys
    BY <1>1, <2>1, PublishedFields DEF TypeOK, ids
  <2>4. QED
    BY <2>2, <2>3 DEF ids
<1>8. /\ Placed(b.id, b.key)
      /\ memory.preKeys[b.id] = b.key \/ ComeRound(b.key)
      /\ b.key.position \in Nat
  BY <1>1, <1>5, <1>6 DEF LoadedInv
<1>9. /\ Frontier <= Frontier' /\ disk.position <= disk'.position
      /\ Frontier' \in Nat /\ disk'.position \in Nat
  <2>1. Frontier' \in Nat /\ disk'.position \in Nat
    BY DEF TypeOK, StorageOK, Flight, Frontier
  <2>2. QED
    BY <2>1, PositionsRise
<1>10. BundleOK(b)'
  BY <1>1, <1>6, <1>7, <1>8, <1>9 DEF BundleOK, Placed, Stored, ComeRound
<1>11. QED
  BY <1>3, <1>4, <1>6, <1>10

LEMMA NextBundleInv ==
  ASSUME IInv, TypeOK', [Next]_vars
  PROVE  BundleInv'
<1>1. \A b \in bundles' : BundleOK(b)'
  BY BundleStays, NewBundle
<1>2. ASSUME NEW a \in bundles', NEW b \in bundles', a.id = b.id
      PROVE  a = b
  <2>1. BundleInv
    BY DEF IInv, Inv
  <2>2. CASE a \in bundles /\ b \in bundles
    BY <1>2, <2>1, <2>2 DEF BundleInv
  <2>3. CASE a \in bundles /\ b \notin bundles
    BY <1>2, <2>1, <2>3, NewBundle DEF BundleInv
  <2>4. CASE a \notin bundles /\ b \in bundles
    BY <1>2, <2>1, <2>4, NewBundle DEF BundleInv
  <2>5. CASE a \notin bundles /\ b \notin bundles
    BY <2>5, NewBundle
  <2>6. QED
    BY <2>2, <2>3, <2>4, <2>5
<1>3. QED
  BY <1>1, <1>2 DEF BundleInv, BundleOK

------------------------------------------------------------------------------
(* The invariant, and what follows from it.                                *)

LEMMA InitIInv == Init => IInv
<1> SUFFICES ASSUME Init PROVE IInv
  OBVIOUS
<1>1. TypeOK
  BY InitTypeOK
<1>2. WrapPreKeyId(1) = 1
  BY PreKeyPoolAssumption DEF WrapPreKeyId
<1>3. PlaceInv(memory) /\ PlaceInv(disk)
  BY <1>2 DEF Init, PlaceInv
<1>4. FlightInv
  BY DEF Init, FlightInv, NoFlight
<1>5. LoadedInv /\ BundleInv
  BY IdleType DEF Init, LoadedInv, BundleInv
<1>6. QED
  BY <1>1, <1>3, <1>4, <1>5 DEF IInv, Inv

LEMMA NextIInv ==
  ASSUME IInv, [Next]_vars
  PROVE  IInv'
<1>1. TypeOK'
  BY NextTypeOK
<1>2. QED
  BY <1>1, NextPlaceInv, NextFlightInv, NextLoadedInv, NextBundleInv DEF IInv, Inv

(* The inductive invariant holds, for any constants: where prekeys lie,     *)
(* what a replenishment has claimed, and what calls and bundles hold.      *)
THEOREM IInvHolds == Spec => []IInv
<1>1. Init => IInv
  BY InitIInv
<1>2. IInv /\ [Next]_vars => IInv'
  BY NextIInv
<1>3. QED
  BY <1>1, <1>2, PTL DEF Spec

(* Every variable keeps its type, with any calls side by side and any       *)
(* faults.                                                                 *)
THEOREM TypeCorrect == Spec => []TypeOK
<1>1. IInv => TypeOK
  BY DEF IInv
<1>2. QED
  BY <1>1, IInvHolds, PTL

(* Two bundles in use never have the same one-time prekey.                 *)
THEOREM BundlesShareNothing == Spec => []BundlesShareNoPreKey
<1>1. IInv => BundlesShareNoPreKey
  <2> SUFFICES ASSUME IInv, NEW a \in bundles, NEW b \in bundles, a.key = b.key
               PROVE  a = b
    BY DEF BundlesShareNoPreKey
  <2>1. a.id = b.id
    BY DEF IInv, Inv, BundleInv, Placed
  <2>2. QED
    BY <2>1 DEF IInv, Inv, BundleInv
<1>2. QED
  BY <1>1, IInvHolds, PTL

(* The prekey of a bundle is kept until a message consumes it, or its id    *)
(* comes round again.                                                      *)
THEOREM PublishedKept == Spec => []PublishedPreKeysKept
<1>1. IInv => PublishedPreKeysKept
  <2> SUFFICES ASSUME IInv, NEW b \in bundles, NEW s \in {memory, disk}
               PROVE  \/ b.id \in DOMAIN s.preKeys /\ s.preKeys[b.id] = b.key
                      \/ memory.position >= b.key.position + MaxKeyId + 1
    BY DEF PublishedPreKeysKept
  <2>1. disk.position <= memory.position /\ b.key.position \in Nat
    BY PreKeyTypes DEF IInv, Inv, FlightInv
  <2>2. CASE ComeRound(b.key)
    BY <2>1, <2>2, Positions DEF ComeRound, IInv
  <2>3. CASE Stored(memory, b.id, b.key) /\ Stored(disk, b.id, b.key)
    BY <2>3 DEF Stored
  <2>4. QED
    BY <2>2, <2>3 DEF IInv, Inv, BundleInv
<1>2. QED
  BY <1>1, IInvHolds, PTL
==============================================================================
