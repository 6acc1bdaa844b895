------------------------------- MODULE PreKeyPool -------------------------------
(***************************************************************************)
(* The one-time prekeys of a PreKeyPoolManager (prekey-pool.ts) over a     *)
(* FileSignalStorage: calls of createBundle and ensurePreKeys run side by  *)
(* side, each one action for the code between two awaits.  A storage call  *)
(* takes effect when it is made, and what it returned is used one action   *)
(* later.  A MemorySignalStorage is the case without failures and crashes. *)
(*                                                                         *)
(* A prekey is known by its serial number.  Ids wrap around, so its        *)
(* position, the id it would have if they did not, is kept beside it.      *)
(***************************************************************************)
EXTENDS Integers, FiniteSets

CONSTANTS Calls,           \* calls of the pool in progress at a time
          MaxKeyId,        \* MAX_KEY_ID
          MinCount,        \* the option minCount
          ReplenishCount,  \* the option replenishCount
          ChosenIds,       \* ids the application may pass as preKeyId
          MaxBundles,      \* bound on the calls of createBundle
          MaxFailures,     \* bound on the saves that fail
          MaxCrashes       \* bound on the crashes

ASSUME PreKeyPoolAssumption ==
  /\ MaxKeyId \in Nat \ {0} /\ ReplenishCount \in 1..MaxKeyId
  /\ ChosenIds \subseteq 1..MaxKeyId
  /\ {MinCount, MaxBundles, MaxFailures, MaxCrashes} \subseteq Nat

VARIABLES memory,    \* prekeys, published ids and next id in the storage
          disk,      \* the same in the snapshot
          flight,    \* the replenishment the manager holds on to
          call,      \* call[c]: how far a call has come
          bundles,   \* history: bundles neither used nor released
          created,   \* calls of createBundle so far
          made,      \* prekeys generated so far
          failures, crashes

vars == <<memory, disk, flight, call, bundles, created, made, failures, crashes>>

KeyIds == 1..MaxKeyId
PreKey == [serial : Nat, position : Nat]
None == 0

Idle == [kind |-> "ensure", pc |-> "idle", number |-> 0, wanted |-> None,
         low |-> FALSE, ids |-> {}, attempted |-> {}, round |-> 0,
         id |-> None, loaded |-> {}]

NoFlight == [phase |-> "none", owner |-> {}, start |-> 1, position |-> 1, stored |-> 0]

StorageOK(s) ==
  /\ s \in [preKeys : {s.preKeys}, published : SUBSET DOMAIN s.preKeys,
           next : KeyIds, position : Nat]
  /\ DOMAIN s.preKeys \subseteq KeyIds
  /\ s.preKeys \in [DOMAIN s.preKeys -> PreKey]

Flight == [phase : {"none", "started", "claimed", "done", "failed"},
           owner : SUBSET Calls, start : KeyIds, position : Nat,
           stored : 0..ReplenishCount]

Call == [kind : {"ensure", "bundle"}, number : Nat, wanted : ChosenIds \cup {None},
         pc : {"idle", "counted", "waiting", "done", "failed",
               "list", "listed", "loaded"},
         low : BOOLEAN, ids : SUBSET KeyIds, attempted : SUBSET KeyIds,
         round : 0..1, id : KeyIds \cup {None}, loaded : SUBSET PreKey]

Bundle == [number : Nat, id : KeyIds, key : PreKey]

TypeOK ==
  /\ StorageOK(memory) /\ StorageOK(disk)
  /\ flight \in Flight
  /\ flight.phase = "none" \/ \E c \in Calls : flight.owner = {c}
  /\ call \in [Calls -> Call]
  /\ \A c \in Calls : call[c].pc = "waiting" => flight.phase \in {"started", "claimed"}
  /\ bundles \subseteq Bundle
  /\ created \in 0..MaxBundles /\ made \in Nat
  /\ failures \in 0..MaxFailures /\ crashes \in 0..MaxCrashes

------------------------------------------------------------------------------
(* The storage.                                                            *)

WrapPreKeyIdShifted(id) == (id % MaxKeyId) + 1

WrapPreKeyId(id) == ((id - 1) % MaxKeyId) + 1

AvailablePreKeyIds(s) == DOMAIN s.preKeys \ s.published

IsReservable(s, id) == id \in AvailablePreKeyIds(s)

AddPreKey(s, id, key) ==
  [s EXCEPT !.preKeys = [i \in DOMAIN @ \cup {id} |-> IF i = id THEN key ELSE @[i]]]

RemovePreKeyLeavingMark(s, id) ==
  [s EXCEPT !.preKeys = [i \in DOMAIN @ \ {id} |-> @[i]]]

RemovePreKey(s, id) ==
  [s EXCEPT !.preKeys = [i \in DOMAIN @ \ {id} |-> @[i]], !.published = @ \ {id}]

Lowest(ids) == CHOOSE i \in ids : \A j \in ids : i <= j

(* An operation that saves at once: on disk if the save succeeds.  Most    *)
(* leave their change in memory if it does not.                            *)
SaveSucceeds(s) == memory' = s /\ disk' = s /\ UNCHANGED failures

SaveFails(s) ==
  /\ failures < MaxFailures
  /\ failures' = failures + 1
  /\ memory' = s
  /\ UNCHANGED disk

Init ==
  /\ memory = [preKeys |-> [id \in {} |-> None], published |-> {}, next |-> 1, position |-> 1]
  /\ disk = memory
  /\ flight = NoFlight
  /\ call = [c \in Calls |-> Idle]
  /\ bundles = {}
  /\ created = 0 /\ made = 0 /\ failures = 0 /\ crashes = 0

------------------------------------------------------------------------------
(* ensurePreKeys, on its own (the maintenance timer, a consumed prekey) or  *)
(* at the start of createBundle.                                           *)

IsLow(s) == Cardinality(AvailablePreKeyIds(s)) < MinCount

Counting(kind, number, wanted, s) ==
  [Idle EXCEPT !.kind = kind, !.number = number, !.wanted = wanted,
               !.pc = "counted", !.low = IsLow(s)]

EnsurePreKeys(c) ==
  /\ call[c].pc = "idle"
  /\ call' = [call EXCEPT ![c] = Counting("ensure", 0, None, memory)]
  /\ UNCHANGED <<memory, disk, flight, bundles, created, made, failures, crashes>>

CreateBundle(c) ==
  /\ call[c].pc = "idle" /\ created < MaxBundles
  /\ created' = created + 1
  /\ \E id \in ChosenIds \cup {None} :
       call' = [call EXCEPT ![c] = Counting("bundle", created', id, memory)]
  /\ UNCHANGED <<memory, disk, flight, bundles, made, failures, crashes>>

Ensured(r) == IF r.kind = "ensure" THEN Idle ELSE [r EXCEPT !.pc = "list", !.low = FALSE]

HasEnough(c) ==
  /\ call[c].pc = "counted" /\ ~call[c].low
  /\ call' = [call EXCEPT ![c] = Ensured(@)]
  /\ UNCHANGED <<memory, disk, flight, bundles, created, made, failures, crashes>>

------------------------------------------------------------------------------
(* replenishPreKeys: one at a time, and whoever calls meanwhile waits for   *)
(* the one in progress, or takes its outcome while its owner has not yet   *)
(* cleared it.                                                             *)

ReplenishPreKeys(c, r) ==
  \/ /\ flight.phase = "none"
     /\ flight' = [NoFlight EXCEPT !.phase = "started", !.owner = {c},
                                   !.start = memory.next, !.position = memory.position]
     /\ call' = [call EXCEPT ![c] = [r EXCEPT !.pc = "waiting"]]
  \/ /\ flight.phase \in {"started", "claimed"}
     /\ call' = [call EXCEPT ![c] = [r EXCEPT !.pc = "waiting"]]
     /\ UNCHANGED flight
  \/ /\ flight.phase \in {"done", "failed"}
     /\ call' = [call EXCEPT ![c] = [r EXCEPT !.pc = flight.phase]]
     /\ UNCHANGED flight

HasTooFew(c) ==
  /\ call[c].pc = "counted" /\ call[c].low
  /\ ReplenishPreKeys(c, call[c])
  /\ UNCHANGED <<memory, disk, bundles, created, made, failures, crashes>>

Settled(outcome) ==
  [c \in Calls |-> IF call[c].pc = "waiting" THEN [call[c] EXCEPT !.pc = outcome]
                   ELSE call[c]]

ClaimRange(s) ==
  [s EXCEPT !.next = WrapPreKeyId(flight.start + ReplenishCount),
            !.position = flight.position + ReplenishCount]

SetNextPreKeyId ==
  /\ flight.phase = "started"
  /\ \/ /\ SaveSucceeds(ClaimRange(memory))
        /\ flight' = [flight EXCEPT !.phase = "claimed"]
        /\ UNCHANGED call
     \/ /\ SaveFails(ClaimRange(memory))
        /\ flight' = [flight EXCEPT !.phase = "failed"]
        /\ call' = Settled("failed")
  /\ UNCHANGED <<bundles, created, made, crashes>>

(* storePreKey is saved after the debounce, or with any other save.        *)
StorePreKey ==
  /\ flight.phase = "claimed"
  /\ LET i == flight.stored
     IN  /\ memory' = AddPreKey(memory, WrapPreKeyId(flight.start + i),
                                [serial |-> made, position |-> flight.position + i])
         /\ \/ /\ i + 1 < ReplenishCount
               /\ flight' = [flight EXCEPT !.stored = i + 1]
               /\ UNCHANGED call
            \/ /\ i + 1 = ReplenishCount
               /\ flight' = [flight EXCEPT !.stored = i + 1, !.phase = "done"]
               /\ call' = Settled("done")
  /\ made' = made + 1
  /\ UNCHANGED <<disk, bundles, created, failures, crashes>>

ClearOnSuccess(c) ==
  IF flight.owner = {c} /\ call[c].pc = "done" THEN NoFlight ELSE flight

ClearFlight(c) == IF flight.owner = {c} THEN NoFlight ELSE flight

Replenished(c) ==
  /\ call[c].pc \in {"done", "failed"}
  /\ flight' = ClearFlight(c)
  /\ call' = [call EXCEPT ![c] = IF @.pc = "done" THEN Ensured(@) ELSE Idle]
  /\ UNCHANGED <<memory, disk, bundles, created, made, failures, crashes>>

------------------------------------------------------------------------------
(* createBundle, the rest.                                                 *)

(* With the option preKeyId there is one candidate and no second round.    *)
ListCandidates(c) ==
  /\ call[c].pc = "list"
  /\ call' = [call EXCEPT ![c].pc = "listed",
                          ![c].ids = IF call[c].wanted = None
                                     THEN AvailablePreKeyIds(memory)
                                     ELSE {call[c].wanted},
                          ![c].round = IF call[c].wanted = None THEN @ ELSE 1]
  /\ UNCHANGED <<memory, disk, flight, bundles, created, made, failures, crashes>>

Untried(r) == r.ids \ r.attempted

LoadPreKey(c) ==
  /\ call[c].pc = "listed" /\ Untried(call[c]) # {}
  /\ LET id == Lowest(Untried(call[c]))
     IN  call' = [call EXCEPT ![c].pc = "loaded", ![c].id = id,
                              ![c].attempted = @ \cup {id},
                              ![c].loaded = {memory.preKeys[i] :
                                               i \in {id} \cap DOMAIN memory.preKeys}]
  /\ UNCHANGED <<memory, disk, flight, bundles, created, made, failures, crashes>>

ReplenishAgain(c) ==
  /\ call[c].pc = "listed" /\ Untried(call[c]) = {} /\ call[c].round = 0
  /\ ReplenishPreKeys(c, [call[c] EXCEPT !.round = 1, !.ids = {}])
  /\ UNCHANGED <<memory, disk, bundles, created, made, failures, crashes>>

(* No candidate is left, or the one chosen has been consumed meanwhile.    *)
GiveUp(c) ==
  /\ \/ call[c].pc = "listed" /\ Untried(call[c]) = {} /\ call[c].round = 1
     \/ call[c].pc = "loaded" /\ call[c].loaded = {}
  /\ call' = [call EXCEPT ![c] = Idle]
  /\ UNCHANGED <<memory, disk, flight, bundles, created, made, failures, crashes>>

Publish(s, id) == [s EXCEPT !.published = @ \cup {id}]

(* ... as if the reservation were left to the debounced save.              *)
ReserveLater(id) ==
  /\ memory' = Publish(memory, id)
  /\ UNCHANGED <<disk, failures>>

SaveReservation(id) == SaveSucceeds(Publish(memory, id))

(* A reservation that cannot be saved is taken back.                       *)
ReservePreKey(c) ==
  /\ call[c].pc = "loaded" /\ IsReservable(memory, call[c].id)
  /\ \E key \in call[c].loaded :
       \/ /\ SaveReservation(call[c].id)
          /\ bundles' = bundles \cup
               {[number |-> call[c].number, id |-> call[c].id, key |-> key]}
       \/ /\ SaveFails(memory)
          /\ UNCHANGED bundles
  /\ call' = [call EXCEPT ![c] = Idle]
  /\ UNCHANGED <<flight, created, made, crashes>>

(* Reserved by another call, or consumed, since it was loaded.             *)
TryNext(c) ==
  /\ call[c].pc = "loaded" /\ call[c].loaded # {}
  /\ ~IsReservable(memory, call[c].id)
  /\ call' = [call EXCEPT ![c].pc = "listed", ![c].id = None, ![c].loaded = {}]
  /\ UNCHANGED <<memory, disk, flight, bundles, created, made, failures, crashes>>

------------------------------------------------------------------------------
(* The storage, used by others.                                            *)

InMemory(b) == b.id \in DOMAIN memory.preKeys /\ memory.preKeys[b.id] = b.key

(* A message that was sent with a bundle has been decrypted: removePreKey,  *)
(* and once that is saved, the listener of the maintenance.                *)
ConsumePreKey(b) ==
  /\ InMemory(b)
  /\ bundles' = bundles \ {b}
  /\ \/ /\ SaveSucceeds(RemovePreKey(memory, b.id))
        /\ \/ UNCHANGED call
           \/ \E c \in Calls :
                /\ call[c].pc = "idle"
                /\ call' = [call EXCEPT ![c] = Counting("ensure", 0, None, memory')]
     \/ /\ SaveFails(RemovePreKey(memory, b.id))
        /\ UNCHANGED call
  /\ UNCHANGED <<flight, created, made, crashes>>

(* releasePreKey of a bundle that was never given to anybody.              *)
ReleasePreKey(b) ==
  /\ b.id \in memory.published
  /\ \/ /\ SaveSucceeds([memory EXCEPT !.published = @ \ {b.id}])
        /\ bundles' = bundles \ {b}
     \/ /\ SaveFails(memory)
        /\ UNCHANGED bundles
  /\ UNCHANGED <<flight, call, created, made, crashes>>

Save ==
  /\ memory # disk
  /\ disk' = memory
  /\ UNCHANGED <<memory, flight, call, bundles, created, made, failures, crashes>>

Crash ==
  /\ crashes < MaxCrashes
  /\ crashes' = crashes + 1
  /\ memory' = disk
  /\ flight' = NoFlight
  /\ call' = [c \in Calls |-> Idle]
  /\ UNCHANGED <<disk, bundles, created, made, failures>>

------------------------------------------------------------------------------
Replenish == SetNextPreKeyId \/ StorePreKey

Continue(c) ==
  \/ HasEnough(c) \/ HasTooFew(c) \/ Replenished(c) \/ ListCandidates(c)
  \/ LoadPreKey(c) \/ ReplenishAgain(c) \/ GiveUp(c) \/ ReservePreKey(c) \/ TryNext(c)

Next ==
  \/ \E c \in Calls : EnsurePreKeys(c) \/ CreateBundle(c) \/ Continue(c)
  \/ Replenish
  \/ \E b \in bundles : ConsumePreKey(b) \/ ReleasePreKey(b)
  \/ Save
  \/ Crash

(* Storage calls return, so calls go on; the maintenance timer comes again. *)
Fairness ==
  /\ \A c \in Calls : WF_vars(Continue(c)) /\ WF_vars(EnsurePreKeys(c))
  /\ WF_vars(Replenish)

Spec == Init /\ [][Next]_vars /\ Fairness

------------------------------------------------------------------------------
(* Properties.                                                             *)

(* Two bundles that may both be in use never have the same one-time prekey, *)
(* whatever calls overlap, fail or are cut off by a crash (README.md:238).  *)
BundlesShareNoPreKey ==
  \A a, b \in bundles : a.key = b.key => a = b

(* The private key of a bundle stays in memory and on disk until a message  *)
(* consumes it, under the id of the bundle.  The one exception is that      *)
(* MAX_KEY_ID more ids have been claimed, and its own has come round again. *)
PublishedPreKeysKept ==
  \A b \in bundles : \A s \in {memory, disk} :
    \/ b.id \in DOMAIN s.preKeys /\ s.preKeys[b.id] = b.key
    \/ memory.position >= b.key.position + MaxKeyId + 1

(* A pool that runs low is filled again, however many replenishments fail   *)
(* or are cut off, as long as they do not always.                          *)
PoolRefills == IsLow(memory) ~> ~IsLow(memory)
==============================================================================
