# Verification of libsignal-node

TLA+ models of the stateful parts of this library, the TLC runs that check
them on small instances, and the proofs, checked by TLAPS, of what matters most
for every value of the constants. `PROJECT.json` lists the components, the
runs, the lines of the source behind every definition, the hazards of the code
and the properties that would catch them.

Contents: 1 the system, 2 modules, 3 runs and bounds, 4 assumptions and
fairness, 5 proofs, 6 what the checks showed, 7 what is not modelled, 8 plan.

## 1. The system

The library is one Node process's half of the Signal protocol: sessions between
two devices, sender keys for groups, a storage for both, and a pool of one-time
prekeys. It is single threaded. Concurrency comes from `await` (every storage
call), from the network (messages lost, repeated and reordered) and from other
processes that open the same storage file. The application calls everything;
no part calls back into the application but for listeners of the storage.

| component (files under `src/src/`) | state | operations |
| --- | --- | --- |
| Double ratchet (`session-cipher.ts`, `session-record.ts`) | a `SessionEntry`: root key, own ratchet key pair, last remote key, chains with skipped message keys | `encrypt`, `decryptWhisperMessage`, `decryptPreKeyWhisperMessage` |
| Session builder (`session-builder.ts`) | none of its own; the record and the one-time prekeys | `initOutgoing`, `initIncoming` |
| Session record (`session-record.ts`) | sessions by base key, open or closed | `getOpenSession`, `setSession`, `closeSession`, `openSession`, `removeOldSessions`, `removeStaleSessions` |
| Job queue (`queue-job.ts`) | an array of jobs and an executor for each bucket | `queueJob` |
| Group sender keys (`group-cipher.ts`, `group-session-builder.ts`, `sender-key-*.ts`) | a `SenderKeyRecord`: up to five states, each a chain key with skipped message keys | `create`, `rotate`, `process`, `encrypt`, `decrypt` |
| File storage (`file-storage.ts`) | all of the above in memory; a snapshot, a backup, a lock file and a revision on disk | `create`, debounced and immediate saves, `flush`, `close`, `rotateEncryptionKey` |
| Memory storage (`memory-storage.ts`) | the same in memory | the same without a file |
| Prekey pool (`prekey-pool.ts`, `keyhelper.ts`) | one replenishment and one rotation in flight | `ensurePreKeys`, `replenishPreKeys`, `createBundle`, `ensureSignedPreKey`, automatic maintenance |
| Bundle validation, addresses, wire formats, cryptography, fingerprints, errors, logger | none | pure functions |

How they interact. Every operation on a session is a job of the queue, in the
bucket of the remote address; every operation on a sender key is a job in the
bucket of the sender key name. A job loads a *copy* of its record from the
storage, works on it, and stores it as its last step; what throws in between
leaves the stored record as it was. A decrypt job that opened a session with a
one-time prekey removes that prekey from the storage after it stored the
record. The storage operations that drop sessions (`saveIdentity` on a change,
`removeIdentity`, `removeSenderKey`, `removeGroupSessions`) are not jobs. The
file storage saves sessions after a debounce and reservations at once, each
time under the lock file and only if the revision on disk is the one it knows.
The pool reads and writes prekeys through the storage, with an `await` between
any two of its steps.

What is hard, and what makes each component correct:

* **Double ratchet.** Order of arrival, repetition and loss over several ratchet
  generations; the limits on chains and skipped keys; failures after half the
  work. Correct when a message decrypts at most once, used keys are gone, no
  key seals twice, what arrives decrypts unless a limit excludes it, and a
  stored ratchet never moves back.
* **Job queue.** A job pushed in the turn in which the executor leaves; batches
  and splices. Correct when jobs of a bucket run alone, in order, once, all of
  them, and buckets do not hold each other up.
* **Sender keys.** Distributions processed late, twice, or by their own sender;
  jumps and skipped keys; rotations. Correct when no key seals or opens twice
  and members read nothing sent before they were invited or after a rotation
  that left them out.
* **File storage.** Crashes between any two system calls, stale locks, several
  processes. Correct when the lock excludes, an acknowledged save stays, and
  whoever waits gets an answer.
* **Session record, builder, identities.** Several sessions in one record,
  simultaneous initiation, removals outside the queue, saves after a delay.
  Correct when one session at most is open, a message decrypts once whatever
  becomes of its session, and losses have one of the causes the code accepts.
* **Prekey pool.** Decisions on counts, ids and ages read before an `await`.
  Correct when no two bundles publish one prekey, the private keys of published
  bundles are kept as long as promised, and a low pool is filled again.

The complete list of hazards, each at its line, is in `PROJECT.json`.

## 2. Modules

| module | models | implements |
| --- | --- | --- |
| `DoubleRatchet` | one session between two devices, from `initOutgoing` on | `SecureChannel` |
| `SecureChannel` | what a session promises: each message accepted once, only from the peer | |
| `DoubleRatchetProofs` | theorems on `DoubleRatchet` | |
| `JobQueue` (`MCJobQueue`) | `queueJob` and its executor, one action per turn of the event loop | `FifoBuckets` |
| `FifoBuckets` | what the queue promises: one line per bucket | |
| `JobQueueProofs` | theorems on `JobQueue` | |
| `SenderKeys` | the record of one sender, at the sender and at a receiver | |
| `SenderKeysProofs` | theorems on `SenderKeys` | |
| `FileLock` (`MCFileLock`) | lock file and revision check, one action per system call | `SnapshotStore` |
| `FileLockProofs` | theorems on `FileLock` | |
| `FileStorage` | memory, snapshot, backup, debounce and encryption key of a `FileSignalStorage`, one action per file operation | |
| `FileStorageProofs` | theorems on `FileStorage` | |
| `PreKeyPool` | the one-time prekeys of a `PreKeyPoolManager` and its storage, one action per `await` | |
| `PreKeyPoolProofs` | theorems on `PreKeyPool` | |
| `SignedPreKeys` | the signed prekeys of the same, with a clock | |
| `SignedPreKeysProofs` | theorems on `SignedPreKeys` | |
| `Sessions` (`MCSessions`) | the session records of two devices and the jobs on them, over `SecureChannel`, `JobQueue` and `PreKeyPool` as assumptions | |
| `SessionsProofs` | theorems on `Sessions` | |
| `SnapshotStore` | what instances of one file promise each other: a register with a revision | |

The abstractions of each:

**DoubleRatchet.** Keys are terms. A ratchet key pair is `<<owner,
generation>>`, a root key the sequence of the agreements mixed into it, a chain
key is named after the root key it was derived next to (`seed`) with its
`counter`, and a message key is the pair of seed and counter. A message carries
the seed it was sealed under; `verifyMAC` and `decrypt` succeed exactly if the
receiver derived the same. `session[p]` is the stored record (one session:
`Sessions` has several), `chains` the chains of a `SessionEntry`,
`messageKeys` the skipped keys, `open` whether the chain still has a chain key.
`StepRatchet` is `maybeStepRatchet` with both `calculateRatchet` calls and
`removeOldReceiverChains`; `DoDecryptSucceeds` collects every early return and
error of `doDecryptWhisperMessage`, `DoDecrypt` what it leaves behind. A job is
one action, which is what `JobQueue` shows: jobs of an address run alone, and
nobody else writes the record in this model.

**SenderKeys.** A state is the key id, the iteration of its chain key, its
skipped keys and whether it holds the signing key. `record[p]` is the sequence
of states in `SenderKeyRecord`; its order matters (the last one encrypts, the
first one is evicted). `from`, `sent` and `rotation` are history: the
distribution a state came from, how many messages and rotations preceded a
message or a distribution, and whether its sender could sign when it was made.
Every member may process every distribution, the sender its own as well.

**JobQueue.** `queue[b]`, `index[b]` and `limit[b]` are the executor's
`queue`, `i` and `limit`; a turn of the event loop settles one job and starts
the next in `NextInBatch`, `NextBatch` (the splice) or `Cleanup`.

**FileLock.** `pc` names the next system call of a process. The lock file is a
set of at most one, with its owner and whether its metadata has been written:
`writeFileSync` with `wx` creates and then writes. A snapshot is its revision
and the set of updates in it. `raced` is history: some process has removed the
lock file of a live one, which `RemoveLock` notes wherever the code removes it.

**FileStorage.** What `FileLock` takes for one step, the other way round: the
lock excludes, and `create` and `saveUnlocked` go file operation by file
operation. `main` and `backup` are the file and its `.bak`, each a set of at
most one snapshot; `whole` is false for one that is damaged or half copied, and `key`
is the encryption key it was written with. `given` are the keys the application
may hold: two while it does not know whether `rotateEncryptionKey` has renamed
the new file into place, one again when it returns or when `create` succeeds.
`memory[p]` is the content of the open instance of process `p`, with `dirty`,
the debounce `timer` and `pending`, the reservation that is to be taken back if
its save fails. All operations on the content are three: `Change` (saved after
the debounce), `Persist` (saved at once, kept in memory otherwise) and
`ReservePreKey` (saved at once, taken back otherwise). The temporary file is
left out: nobody reads it, `create` removes it, and it is in place of the file
by one rename. Any file operation of a save or a recovery may fail; `fsync` and
`chmod` may not, for the code ignores their errors.

**PreKeyPool.** `memory` and `disk` are the one-time prekeys, the published ids
and the next id in the storage and in its snapshot. `call[c]` is a call of
`createBundle` or `ensurePreKeys` and what it has read so far: `IsLow` before
its `await`, the candidate ids, the key it loaded, the round. `flight` is
`replenishing` with the work it stands for, `owner` the call whose `finally`
clears it; calls that find it settled but not cleared take its outcome, as they
do in the code. A prekey is a serial number, so that a new key under an old id
is another key; its `position` counts ids without the wrap. `bundles` is
history: what was returned and neither used nor released. Operations that save
at once succeed on disk, or fail and leave memory as the code does.

**SignedPreKeys.** The same for `ensureSignedPreKey` and `rotateSignedPreKey`,
with a clock: `rotation` is `rotatingSignedPreKey`, `retired` maps an id to the
time it was retired, and a store prunes what has been retired for
`GracePeriod`. Two modules because the two kinds of keys share nothing but the
storage's save: `PublishBundle` is the save of `reservePreKey`, which takes the
signed prekeys with it.

**Sessions.** A record maps sessions to entries. A session is named by its base
key, an entry says when it was closed (0: open), which messages it has
decrypted and how many it has sent. The ratchet inside is replaced by what
`DoubleRatchet` implements, a `SecureChannel`: a session decrypts each message
of the peer once, in any order. A job is one action that loads the record and
ends with `StoreRecord`; `job[p]` matters when `RemoveSessions`, which is no
job, comes between the two. The exception is a decrypt that opens a session:
`Establish` goes as far as `storeRecord` (session-cipher.ts:350) and
`RemovePreKey` is the rest (353), with `removing[p]` between them. Jobs of
other addresses, `reservePreKey` and the debounce timer may save there
(`Save`), the identity may be removed, the process may die. `StoreRecord` is
`removeOldSessions` followed by `removeStaleSessions`, which is on by default
at 90 days: without a clock, any set of closed sessions may be the stale ones,
but for one whose `used` the job has just set. `initOutgoing` does not remove
stale sessions. `evicted`, `stale`, `removed`, `torn` and `swallowed` are
history: why a message may be lost. A crash sets a session back (`torn`) if the
device has sent in it what the snapshot does not know of; that includes a
session evicted or removed since the snapshot, and one whose prekey is unused
again in the snapshot. `stranded` are the sessions that a crash has left
together with their prekeys. A one-time prekey belongs to one bundle and
has the name of the session that bundle begins.

Some operators stand beside a variant with a plausible slip
(`TakeMessageKey` and `LeaveMessageKey`). The variants are used by nothing in
the modules. They are listed in `PROJECT.json` under `mutants`: exchanged for
the operator, each makes the property it is listed with fail, which shows that
the property depends on that piece of the code.

## 3. Runs and bounds

| run | configuration | checks | result |
| --- | --- | --- | --- |
| `ratchet_roomy` | limits of 5, 5 messages each way | nothing in flight is lost; the previous counter is exact | holds |
| `ratchet_tight` | 2 receiving chains, 2 keys, fills of 2 | types, used keys gone, keys seal once, skipped keys await messages, session shape, loss only by limits, ratchets only advance; the session is a `SecureChannel` | holds |
| `job_queue` | 5 jobs of one bucket, batches of 2, beside a bucket that may hang | types, mutual exclusion, buckets freed, arrays bounded, `FifoBuckets`, every job settles | holds |
| `sender_keys` | 3 key ids, 2 states, 4 messages, 2 distributions handed out by `create`, sender and receiver process | types, no replay, keys seal once, readers were invited, skipped keys await messages, loss only by limits | holds |
| `lock` | 3 processes, one may die | types, `SnapshotStore` until the lock of a live process is removed, every call returns, dead owners are evicted | holds |
| `lock_stale_race` | the same | saved updates stay | violated, see 6 |
| `file_storage` | 2 processes, 3 changes, crashes, failing calls, one rotation of the key, one damage while nobody has the file open | types, saved changes are found, refused reservations are gone, the unsaved is scheduled or reported | holds |
| `file_storage_recovery` | 2 processes, one damage at any time | saved changes are found | violated, see 6 |
| `prekey_pool` | 2 calls at a time, ids 1 to 3, 2 bundles, one failing save, one crash | types, bundles share no prekey, published keys are kept, a low pool is filled | holds |
| `signed_pre_keys` | 2 calls at a time, 3 rotations, 5 ticks, one failing save, one crash | types, published keys are kept for the grace period | holds |
| `signed_pre_keys_any_id` | the same, with ids chosen by the application | the latest signed prekey is stored | violated, see 6 |
| `sessions` | 2 devices, records of 2 sessions, 3 initiations, 2 messages, one fault | types, one open session, plaintexts once, loss only by limits | holds |

Why these bounds are enough.

* *Ratchet.* It has no shared state but the network: two parties are all it has.
  Five messages each way make four or more ratchet generations, which is more
  than the two chains that `ratchet_tight` keeps, so chains are evicted and
  their messages arrive after; with two message keys and fills of two, keys are
  pruned and fills refused on chains and on the chain before. In
  `ratchet_roomy` no limit can be met, so every loss would be a fault of the
  order of arrival. `MaxSends` is the only bound that the code does not have.
* *Queue.* Batches of two stand for 500: one bucket goes through first batches,
  full batches, splices and a clean-up with jobs arriving at each turn.
* *Sender keys.* Receivers share nothing, so one stands for all; three key ids
  compete for two states, and jumps of one with one skipped key reach pruning
  and refusal. `MaxHandedOut` bounds the distributions that
  `create` hands out.
* *Lock.* What can go wrong with a dead owner needs one survivor, what can go
  wrong between survivors needs two; the third is the dead one. `MaxTries`
  bounds retries, of which the code's deadline allows some fixed number: one
  survivor waits, the other gives up at once. `MaxUpdates` bounds the saves.
* *File storage.* Two instances are enough for one to hold a stale revision
  while the other saves, fails, rotates or recovers; three changes (the first
  of which is the new identity) allow a snapshot to go from temporary file to
  file to backup to removed. With `MaxChanges` 3, and with two rotations and one
  change, the properties hold as well (19.5 million states for the first). One
  damage: after a recovery and a save the files are as they were before it.
* *Prekey pool.* Two calls are enough to choose the same id, to share a
  replenishment, or to come between its end and its clearing. With three ids
  and replenishments of two the ids wrap around in the second one, while keys
  of the first are published.
* *Signed prekeys.* A rotation, one after it by age, and one on request, at
  times around age and grace period of two ticks; two calls as above.
* *Sessions.* Three initiations in records of two sessions evict one; they are
  of one device, or cross. A fault is a crash, a failed save or a removed
  identity. `MaxMessages` bounds the network, from which nothing is removed:
  two messages are enough for two prekey messages of different sessions, two
  of one session, or one in each direction. With two faults and two initiations
  the properties hold as well. Each exception of `PlaintextOnce` and each cause
  in `LossOnlyByLimits` is reached: without it the property fails (a session
  removed after a crash has stranded it takes two faults).
  The devices are alike (`SYMMETRY`).

`CHECK_DEADLOCK FALSE` is set where the bounded system comes to rest: all
messages sent and no session left to receive them, all jobs settled, all
processes idle with their updates spent, time at its end. The runs of
`SenderKeys`, `FileStorage` and `PreKeyPool` never rest.

## 4. Assumptions and fairness

* Cryptography is perfect and symbolic; fresh keys and key ids are unique. Messages
  reach a party as some device sealed them: altered ones fail `verifyMAC` or the
  signature, which `RejectMessage` and `Reject` already model as a job that
  changes nothing.
* A job of the queue never queues and awaits a job of its own bucket: none in
  `src/` does (sessions and sender keys use different buckets and do not call
  each other). Otherwise that bucket would wait on itself.
* `JobQueue` assumes weak fairness of `Settle(b)` for the buckets in
  `Responsive` only: their jobs' storage calls return some day, and then the
  event loop runs the executor. Nothing is assumed of other buckets, which is
  the point of `EveryJobSettles`.
* `FileLock` assumes weak fairness of `Proceed(p)`: `create` and `save` are
  synchronous, so a process that lives goes on with its own next system call.
  No fairness is assumed between processes that want the lock; the deadline of
  `acquireFileLock` is what ends a wait.
* All processes of `FileLock` run on one host, and a live process writes its
  lock metadata within `staleLockMs`; then `isLockStale` tells a dead owner
  from a live one exactly. `writeFileSync` fails with `EEXIST`, or after it has
  created the file; for another error see section 6.
* `PreKeyPool` assumes weak fairness of `Continue(c)` and `Replenish` (storage
  calls return, then the event loop goes on) and of `EnsurePreKeys(c)`: the
  maintenance timer fires again. With that `PoolRefills` holds although
  replenishments fail; the bound on failures says that they do not always.
* `SignedPreKeys` assumes that `loadLatestSignedPreKey` answers before the owner
  of a rotation that has settled clears it (`Prompt`): both storages of the
  library return at once, one microtask, and the owner needs more.
* `Sessions` assumes what other modules show: a session is a `SecureChannel`,
  jobs of a record run alone, a one-time prekey is in one bundle. Closing times
  are distinct (`closeSession` takes milliseconds). After a crash the peer of a
  session that was set back (`torn`) may lose messages, of that session only.
  A decrypt of an established session returns in the turns right after its
  store; a crash in between is taken for one right after the return, which the
  application cannot tell apart.
* `SenderKeys` has no crash. `storeSenderKey` saves after the debounce
  (file-storage.ts:980-983), so a crash can set a record back to iterations that
  were used: `NoReplay` and `MessageKeysSealOnce` hold between crashes only.
  Likewise the properties of `DoubleRatchet` are those of one session between
  crashes; `Sessions` says what a crash does to it (`torn`).
* `FileStorage` lets a process die anywhere, `create` again by itself or not at
  all, and the timer fire at any time. Disk and directory keep what a completed
  file operation wrote. What only the damaged snapshot held is excused in
  `Corrupt`: the backup is one save older by design.
* Where no fairness is stated the properties are safety only.

## 5. Proofs

Every invariant, every action property and every refinement that a passing run
checks is proved, for every value of the constants that the theorem's
hypotheses admit. The runs show the same on small instances, and liveness
besides. The last column names the conditions beyond the constants' types.

| module | theorems | condition |
| --- | --- | --- |
| `DoubleRatchetProofs` | `TypeCorrect`, `NoReplayHolds`, `UsedKeysAreGoneHolds`, `RefinesChannel`, `MessageKeysSealOnceHolds`, `RatchetOnlyAdvancesHolds`, `SessionShapeHolds`, `PreviousCounterIsLastHolds`, `SkippedKeysAwaitMessagesHolds`, `LossOnlyByLimitsHolds` | none: any limits, any number of messages |
| | `NothingIsLostHolds` | `MaxSends` at most each of the three limits |
| `JobQueueProofs` | `TypeCorrect`, `MutualExclusionHolds`, `BucketIffBusyHolds`, `SettledJobsAreDroppedHolds`, `RefinesFifo` | none |
| `SenderKeysProofs` | `TypeCorrect`, `NoReplayHolds`, `MessageKeysSealOnceHolds`, `SkippedKeysAwaitMessagesHolds`, `LossOnlyByLimitsHolds`, `ReadersWereInvitedHolds` | none |
| `FileLockProofs` | `TypeCorrect`, `RefinesStore`, `SavedIsKeptUntilRaced`, `ExclusiveUntilRaced` | the last three speak of the time until `raced` |
| `FileStorageProofs` | `TypeCorrect`, `RefusedIsForgottenHolds` | none: the snapshot may be damaged at any time |
| | `SavedIsKeptHolds`, `UnsavedIsScheduledHolds` | `DamageAtRest` |
| `PreKeyPoolProofs` | `TypeCorrect`, `BundlesShareNothing`, `PublishedKept` | none |
| `SignedPreKeysProofs` | `TypeCorrect`, `PublishedSignedPreKeysKeptHolds`, `LatestIsStoredHolds` | `InOrder` |
| `SessionsProofs` | `TypeCorrect`, `OneOpenSessionHolds`, `PlaintextOnceHolds`, `LossOnlyByLimitsHolds` | none |

The proofs rest on the named assumptions on the constants only
(`PartiesAssumption`, `LimitsAssumption`, `BucketAssumption`,
`GcLimitAssumption`, `MembersAssumption`, `FileLockAssumption`,
`FileStorageAssumption`, `PreKeyPoolAssumption`, `SignedPreKeysAssumption`,
`SessionsAssumption`), which TLC evaluates in the runs: kinds of constants, not
their sizes. The conditions of the table are where a theorem would be false
without them, as a run shows:

* `NothingIsLost` fails if a limit can be met: `LossOnlyByLimits` says how. The
  limits of the code are 5 chains and 2000 keys, so the theorem is of
  conversations in which no end sends more than 5 messages, the run's instance
  among them; for longer ones `LossOnlyByLimitsHolds` is the theorem.
* Until `raced`, that is, until a process has removed the lock file of a live
  one: run `lock_stale_race` shows a saved update lost after that.
* `DamageAtRest`: run `file_storage_recovery` shows a change lost to a damage
  while the file is open.
* `InOrder`: the ids are left to `ensureSignedPreKey` and do not wrap
  (`MaxRotations <= MaxKeyId`, that is, 16 million rotations). Run
  `signed_pre_keys_any_id` shows what ids of the application do.

None of the properties is inductive. What each proof adds:

**DoubleRatchetProofs.** That a decrypted message does not decrypt again says
nothing of the chains that a later ratchet step will make. Six invariants, each
of which contains the one before:

* `Inv` (for replay and used keys) says of every stored session and every
  message its owner has used: a chain is known by its seed, no seed is longer
  than the root key, no used message has a seed longer than the root key, and
  the chain with the seed of a used message has moved past its counter and does
  not hold its key. A ratchet step makes chains whose seeds are longer than any
  before, so used messages cannot fit them; anything else moves chains forward
  (`Advances`, which is also `RatchetOnlyAdvances`) or removes them. The
  refinement of `SecureChannel` needs only that a decrypted message was not used
  before, and that an encrypted one is new.
* `LineInv` (keys seal once) says that the ends take turns: their generations
  differ by at most one, so the root key of a session is determined by its
  place in that line, and with it the seed of each chain and message.
* `LimitsInv` (shape of a session) has the receiving chains in the order of
  their generations, without gaps: `removeOldReceiverChains` drops the oldest.
* `CountsInv` (previous counters and skipped keys) says that every counter a
  chain has reached is that of a message sent, of every message up to it that
  the receiver has decrypted it, holds its key, or has pruned it, and that the
  previous counter of a message is the last of the chain before.
* `FlightInv` (losses) adds which end has a session already: a message in
  flight always has one it can be tried on. Then only the three limits are
  left to refuse it.
* `RoomInv` (no losses) counts: counters, generations and skipped keys are each
  fewer than the messages sent, by an injection into them.

**JobQueueProofs.** The invariant ties `status` to positions in the array: what
is before the index is settled, what is at the index runs, what is behind waits,
no job is in two places, and the limit is within the array and the batch size.

**SenderKeysProofs.** Only the sender's state of the latest rotation signs, and
it is ahead of every message of its key id, so it seals the next iteration.
Every iteration before one that some state or distribution has reached has its
message (`SentBefore`): what a receiver skips are keys of messages, and of
messages it has not used.

**FileLockProofs.** As long as nobody removed the lock file of a live process, a
live process past `CreateLock` finds its own lock file in place (`HolderInv`);
the file is one, so the process is one, and what it read is still so when it
renames. Each step is then a step of `SnapshotStore` or a stutter.

**FileStorageProofs.** One process works on the files at a time, and there is a
key for them among those the application holds (`KeyInv`). A change in a file
was never refused: what is taken back is known to one process only
(`FreshInv`). If damage happens at rest, `Latest` (the snapshot, or the backup
while no snapshot is whole) has all that was saved, an instance is behind it or
has all of it, and only one that has all of it can save (`KeptInv`).

**PreKeyPoolProofs.** An id is a position, wrapped. Positions are claimed on disk
before a prekey is made at one, and none twice (`FlightInv`), so a prekey is
overwritten only by one `MAX_KEY_ID` positions further (`PlaceInv`). The id of a
bundle stays marked in memory and on disk while the bundle may be in use.

**SignedPreKeysProofs.** In memory and snapshot alike, ids and serial numbers
grow towards the latest signed prekey, and every other one is retired since the
moment it was replaced (`StoreInv`). A call that holds a signed prekey across an
`await` holds one that is stored or expired (`Held`). A rotation begins from the
latest one there is, although the call read it before an `await`: a call that
read an older one finds the rotation to share, as long as `Prompt` holds.

**SessionsProofs.** The closing times in a record differ, 0 for the open session
among them. When a decrypt has ended, the session it has established has used up
its prekey, in memory and in the snapshot alike; so what a record has decrypted
it either still knows, or cannot establish again. Between the two steps of such
a decrypt, record and prekeys overlap in the one session of `removing[p]`, and a
snapshot taken then keeps the overlap (`SparedOnDisk`). A crash that goes back
to it makes the overlap lasting: those are the sessions of `stranded`, and only
once they are dropped may they decrypt again (`Again`). The numbers of a record
are those of messages returned, of the one about to be (`Taken`), or swallowed
(`Doubtful` in the snapshot), and a message without a prekey is of a session its
receiver has sent in.

Least elements (the session to evict, the oldest chain) come from `WFMin` over
the natural numbers; nothing is proved by induction.

Only model-checked: liveness (`EveryJobSettles`, `EveryCallReturns`,
`DeadOwnerIsEvicted`, `PoolRefills`), which needs fairness and is out of the
prover's reach; and the three runs that expect a violation.

## 6. What the checks showed

Against what the repository says:

* *A saved update can be lost when two processes remove the same stale lock*
  (run `lock_stale_race`). `acquireFileLock` judges the lock file stale and
  removes whatever lies at the path in a later system call. Two processes that
  both judged the lock of a dead third remove it one after the other, and the
  second removes the lock the first one has taken meanwhile. Both are inside,
  both compare the same revision, and the second rename overwrites the first
  one's save, against README.md:123. Until that happens (`raced`) the lock
  keeps the promise: `StoreUntilRaced` in run `lock`. There is a second way to
  `raced` that the model leaves out: if `writeFileSync` fails with another error
  than `EEXIST` before it has created a file (`EMFILE`), `acquireFileLock` takes
  the file for its own and removes the lock of whoever holds it
  (file-storage.ts:402-410). The theorems of `FileLock` speak of the time until
  either.
* *Recovery from the backup repeats a revision number* (run
  `file_storage_recovery`). The backup's revision is one less than the damaged
  snapshot's, and `create` takes it as it is. The next save writes the lost
  number again, with other content. An instance that was open all the while
  compares its own revision, finds it equal, and overwrites acknowledged
  changes where README.md:123 promises a `FileSignalStorageConflictError`. If
  nobody has the file open when it is damaged (`file_storage`), what was saved
  stays.
* *A signed prekey stored under the id of a retired one is deleted with it* (run
  `signed_pre_keys_any_id`). `storeSignedPreKey` leaves the entry of the id in
  `retiredSignedPreKeys`, and prunes by it, although the key is now the latest:
  README.md:39 has the replaced key deleted. It takes an application that calls
  `rotateSignedPreKey` with an id used before; `ensureSignedPreKey` never does,
  short of a wrap around all ids within the grace period (`signed_pre_keys`).

Against no promise, but worth knowing:

* *Processing one's own distribution starts one's own sending state over at an
  old iteration, without its signing key.* No key is used twice for it
  (`MessageKeysSealOnce`): encryption fails until `rotate`. But `create` then
  hands out the old chain key, and whoever gets it can read messages sent
  before. `ReadersWereInvited` excepts what is handed out by a state that
  cannot sign.
* *A later distribution of the same key id loses what is still in flight*: the
  state starts over at its iteration. `LossOnlyByLimits` of `SenderKeys` lists
  this case beside the limits.
* *2000 messages lost at the end of a chain block that direction for good*: every
  later chain begins by filling the one before, which throws. `LossOnlyByLimits`
  of `DoubleRatchet` lists it (second part of `TooFarAhead`).
* *A removed session comes back* if a job had loaded its record before
  `saveIdentity` or `removeIdentity` and stores it after
  (`test/storage.test.mjs:70` has the removal without a job under way). Nothing
  decrypts twice for it (`PlaintextOnce`).
* *A crash between storing a session and removing its prekey keeps the prekey for
  good*, if a save came in between. `initIncoming` finds the session from then
  on and names no prekey to remove. When the session is dropped, as the oldest,
  as stale or with its identity, a repeated prekey message establishes it again
  and its plaintext is returned a second time; `test/session.test.mjs:98` has
  repeated messages rejected, without a crash. `PlaintextOnce` excepts exactly
  these sessions (`stranded`, then dropped).
* *Encrypting does not count as a use of a session*, nor does a prekey message
  for one that is there: `used` is set by `decryptWhisperMessage` only. A
  session in which nothing else was decrypted for 90 days is stale as soon as it
  is closed, however busy it was with sending, and goes in the job that closes
  it or, after `initOutgoing`, in the next one, with what the peer has sent in
  it and was not decrypted yet.
* *A decrypt whose `removePreKey` cannot be saved fails after the fact*: session
  and used-up key are stored, and the plaintext is lost (`swallowed`), as it is
  in the crash above.
* *After `rotateEncryptionKey` the backup is under the old key until the next
  save*, so that a snapshot damaged meanwhile cannot be restored with the new
  one: `Corrupt` excuses it. Nor is the backup tried when a damaged encrypted
  file is still JSON: that is reported as a wrong key.
* *A message to a bundle without a one-time prekey establishes its session anew*
  once that session has been evicted or removed, for nothing else remembers
  its base key; and the second session begun with one bundle that has one fails
  at the receiver. `Sessions` leaves both out.

## 7. What is not modelled

Cryptographic primitives and the curve (third party, assumed perfect), wire
formats and serialization (stateless encoders), validation of bundles and
addresses and of loaded files (pure checks; models take inputs that pass, or a
file that fails as a whole), fingerprints (a pure hash), errors, logger and
types. Sessions are serialized and deserialized on every load, which the models
take for the copy it is meant to be.

Of what is modelled in part:

* sessions: bundles without a one-time prekey or used twice,
  `deleteAllSessions` and `openSession`, which nothing under `src/src/` calls,
  and how old a session is (any closed one may be stale);
* identities: the trust store itself (a job is refused or not) and its listener;
* sender keys: `removeSenderKey` and `removeGroupSessions`, which race with jobs
  as `removeIdentity` does in `Sessions`, and crashes, which set a record back
  to the last save (section 4);
* file lock: an error other than `EEXIST` before the lock file is there
  (section 6);
* file storage: files that are not encrypted, migration of old formats, several
  hosts on one file;
* prekey pool: `reserve: false`, storages without the optional methods,
  `removeSignedPreKey` and `storeSignedPreKey(id, keyPair)`, which nothing in the
  library calls, custom storages so slow that a rotation is missed (`Prompt`),
  `getStatus`.

## 8. Plan

Modelled, checked and, but for liveness, proved: the modules of section 2. Next,
in this order:

1. `removeSenderKey`, `removeGroupSessions` and crashes in `SenderKeys`, identities and
   bundles without a one-time prekey in `Sessions`, old formats in
   `FileStorage`, with the proofs extended to them.
2. Composition: that `Sessions` may take `SecureChannel`, the job queue and the
   prekey pool for granted is argued in section 4 and not yet a theorem.
