-------------------------------- MODULE Sessions --------------------------------
(***************************************************************************)
(* Two devices and the sessions between them: the session records          *)
(* (session-record.ts) that SessionBuilder and SessionCipher load, change  *)
(* and store (session-builder.ts, session-cipher.ts), over a storage that  *)
(* saves sessions after a delay (file-storage.ts).  Either device may      *)
(* initiate, both at once and again and again; messages are lost,          *)
(* duplicated and reordered; a device crashes, loses a save, or removes    *)
(* the identity of the other one while a job is under way.                 *)
(*                                                                         *)
(* The ratchet of one session is what DoubleRatchet implements, a          *)
(* SecureChannel: what was sent can be decrypted once, in any order.  Jobs *)
(* of a record run one at a time (module JobQueue).  Every bundle has a    *)
(* one-time prekey and is the only one that has it (module PreKeyPool).    *)
(***************************************************************************)
EXTENDS Integers, FiniteSets, FiniteSetsExt

CONSTANTS Devices,
          MaxSessions,  \* CLOSED_SESSIONS_MAX, a bound on all the sessions of a record
          MaxInits,     \* bound on the sessions initiated
          MaxSent,      \* bound on the messages of a device in a session
          MaxMessages,  \* bound on the messages
          MaxFaults     \* bound on the crashes, failed saves and removals

ASSUME SessionsAssumption ==
  /\ IsFiniteSet(Devices) /\ Cardinality(Devices) = 2
  /\ MaxSessions \in Nat \ {0}
  /\ {MaxInits, MaxSent, MaxMessages, MaxFaults} \subseteq Nat

VARIABLES memory,     \* memory[p]: the session record and prekeys of p's storage
          disk,       \* the same in the snapshot
          job,        \* job[p]: the record a running job loaded before it was removed
          removing,   \* removing[p]: the message whose prekey a running job removes next
          network,    \* messages sent so far; any may arrive, any number of times
          inits,      \* inits[p]: sessions p has initiated
          returned,   \* history: messages a decrypt has returned at p
          durable,    \* history: returned at the last save
          swallowed,  \* history: messages whose decrypt failed after it stored them
          evicted,    \* history: sessions dropped at p as the oldest of too many
          stale,      \* history: sessions dropped at p as unused for too long
          removed,    \* history: sessions removed at p with the identity
          torn,       \* history: sessions a crash has set back
          stranded,   \* history: sessions a crash has left beside their prekeys
          faults

vars == <<memory, disk, job, removing, network, inits, returned, durable, swallowed,
          evicted, stale, removed, torn, stranded, faults>>
history == <<swallowed, evicted, stale, removed, torn, stranded>>

Other(p) == CHOOSE q \in Devices : q # p

(* A session, named by its base key: the nth one that a device initiates    *)
(* with a bundle of the other, whose one-time prekey has the same name.    *)
Session == Devices \X (1..MaxInits)

(* What a record has of a session: when it was closed (0: it is open), the  *)
(* numbers it has decrypted and how many messages it has sent.             *)
Entry == [closed : Nat, got : SUBSET (0..MaxSent - 1), sent : 0..MaxSent]

Message == [session : Session, from : Devices, number : 0..MaxSent - 1, prekey : BOOLEAN]

NewEntry == [closed |-> 0, got |-> {}, sent |-> 0]

NoSessions == [s \in {} |-> NewEntry]

IsRecord(record) ==
  /\ record \in [DOMAIN record -> Entry] /\ DOMAIN record \subseteq Session
  /\ Cardinality(DOMAIN record) <= MaxSessions

StorageOK(s) ==
  s \in [record : {s.record}, preKeys : SUBSET Session] /\ IsRecord(s.record)

TypeOK ==
  /\ memory \in [Devices -> {memory[p] : p \in Devices}]
  /\ disk \in [Devices -> {disk[p] : p \in Devices}]
  /\ job \in [Devices -> {job[p] : p \in Devices}]
  /\ \A p \in Devices :
       /\ StorageOK(memory[p]) /\ StorageOK(disk[p])
       /\ job[p] = {} \/ \E record \in job[p] : job[p] = {record} /\ IsRecord(record)
       /\ memory[p].preKeys \subseteq disk[p].preKeys
       /\ removing[p] = {} \/ (job[p] = {} /\ \E m \in network : removing[p] = {m})
  /\ removing \in [Devices -> {removing[p] : p \in Devices}] /\ network \subseteq Message
  /\ {returned, durable} \subseteq [Devices -> SUBSET network] /\ swallowed \subseteq network
  /\ {evicted, stale, removed} \subseteq [Devices -> SUBSET Session]
  /\ torn \subseteq Session /\ stranded \subseteq Session
  /\ inits \in [Devices -> 0..MaxInits] /\ faults \in 0..MaxFaults

Init ==
  /\ memory = [p \in Devices |-> [record |-> NoSessions, preKeys |-> {Other(p)} \X (1..MaxInits)]]
  /\ disk = memory
  /\ job = [p \in Devices |-> {}] /\ removing = job
  /\ network = {}
  /\ inits = [p \in Devices |-> 0]
  /\ returned = [p \in Devices |-> {}] /\ durable = returned
  /\ swallowed = {} /\ torn = {} /\ stranded = {}
  /\ evicted = [p \in Devices |-> {}] /\ stale = evicted /\ removed = evicted
  /\ faults = 0

------------------------------------------------------------------------------
(* The session record.                                                     *)

IsClosed(entry) == entry.closed # 0

OpenSessions(record) == {s \in DOMAIN record : ~IsClosed(record[s])}

(* The time of a closing counts the closings before it.                    *)
CloseSessions(record) ==
  LET now == 1 + Max({record[s].closed : s \in DOMAIN record} \cup {0})
  IN  [s \in DOMAIN record |->
         IF IsClosed(record[s]) THEN record[s] ELSE [record[s] EXCEPT !.closed = now]]

(* The new session, as if the one that was open stayed so.                 *)
SetSessionOnly(record, s) ==
  [t \in DOMAIN record \cup {s} |-> IF t = s THEN NewEntry ELSE record[t]]

(* initOutgoing and initIncoming make the new session the open one.         *)
SetSession(record, s) == SetSessionOnly(CloseSessions(record), s)

(* The closed session that goes, as if the newest went first.              *)
ExcessNewest(record) ==
  LET closed == DOMAIN record \ OpenSessions(record)
  IN  IF Cardinality(DOMAIN record) <= MaxSessions THEN {}
      ELSE {CHOOSE s \in closed : \A t \in closed : record[s].closed >= record[t].closed}

(* The closed session that goes first, if the record has too many.         *)
Excess(record) ==
  LET closed == DOMAIN record \ OpenSessions(record)
  IN  IF Cardinality(DOMAIN record) <= MaxSessions THEN {}
      ELSE {CHOOSE s \in closed : \A t \in closed : record[s].closed <= record[t].closed}

(* ... as if the limit were one more.                                      *)
RemoveOldSessionsLate(record) ==
  IF Cardinality(DOMAIN record) <= MaxSessions + 1 THEN record
  ELSE [s \in DOMAIN record \ Excess(record) |-> record[s]]

RemoveOldSessions(record) ==
  [s \in DOMAIN record \ Excess(record) |-> record[s]]

(* What the limit may take: of a record with MaxSessions others, each open  *)
(* or closed later.                                                        *)
Outlived(record) ==
  {s \in DOMAIN record :
     /\ IsClosed(record[s])
     /\ Cardinality({t \in DOMAIN record : ~IsClosed(record[t])
                       \/ record[t].closed > record[s].closed}) >= MaxSessions}

------------------------------------------------------------------------------
(* Jobs of the sessions.  Each loads the record and stores what it has made *)
(* of it, which ends all but one kind.  As jobs of a record do not overlap *)
(* and storeSession is called in jobs only, the record in the storage is   *)
(* the one a job has loaded, unless RemoveSessions comes in between.       *)

(* None while a job that has stored the record is not at its end yet.      *)
LoadedRecord(p) ==
  IF removing[p] # {} THEN {}
  ELSE IF job[p] = {} THEN {memory[p].record} ELSE job[p]

StoreSession(p, record) ==
  /\ memory' = [memory EXCEPT ![p].record = record]
  /\ job' = [job EXCEPT ![p] = {}]

(* storeRecord: the limit on the sessions takes the oldest, then            *)
(* removeStaleSessions takes those closed sessions that have decrypted     *)
(* nothing for staleSessionMaxAgeMs.  Which these are is left open, but    *)
(* that one used just now is not; none, for example if the option is 0.    *)
StoreRecord(p, record, justUsed) ==
  LET kept == RemoveOldSessions(record)
  IN  \E unused \in SUBSET ((DOMAIN kept \ OpenSessions(kept)) \ justUsed) :
        /\ StoreSession(p, [s \in DOMAIN kept \ unused |-> kept[s]])
        /\ evicted' = [evicted EXCEPT ![p] = @ \cup Outlived(record)]
        /\ stale' = [stale EXCEPT ![p] = @ \cup unused]

(* The job fails before it stores: a bad bundle or signature, an identity   *)
(* that is not trusted, a message that cannot be decrypted.                *)
JobFails(p) ==
  /\ job[p] # {}
  /\ job' = [job EXCEPT ![p] = {}]
  /\ UNCHANGED <<memory, disk, removing, network, inits, returned, durable, history, faults>>

(* initOutgoing stores the record itself, and no session is too old for it. *)
InitOutgoing(p) ==
  /\ inits[p] + inits[Other(p)] < MaxInits
  /\ inits' = [inits EXCEPT ![p] = @ + 1]
  /\ \E record \in LoadedRecord(p) :
       LET new == SetSession(record, <<p, inits'[p]>>)
       IN  /\ StoreSession(p, RemoveOldSessions(new))
           /\ evicted' = [evicted EXCEPT ![p] = @ \cup Outlived(new)]
  /\ UNCHANGED <<disk, removing, network, returned, durable, swallowed, stale, removed,
                 torn, stranded, faults>>

(* A session that was initiated here and has decrypted nothing yet has its  *)
(* pendingPreKey: each of its messages can establish it.                   *)
Encrypt(p) ==
  /\ Cardinality(network) < MaxMessages
  /\ \E record \in LoadedRecord(p) : \E s \in OpenSessions(record) :
       /\ record[s].sent < MaxSent
       /\ network' = network \cup
            {[session |-> s, from |-> p, number |-> record[s].sent,
              prekey |-> s[1] = p /\ record[s].got = {}]}
       /\ StoreRecord(p, [record EXCEPT ![s].sent = @ + 1], {})
  /\ UNCHANGED <<disk, removing, inits, returned, durable, swallowed, removed, torn,
                 stranded, faults>>

Decrypts(record, m) == m.session \in DOMAIN record /\ m.number \notin record[m.session].got

Decrypted(record, m) == [record EXCEPT ![m.session].got = @ \cup {m.number}]

(* decryptWhisperMessage, and decryptPreKeyWhisperMessage of a session that *)
(* is established, which does not count as a use: open or closed, it stays *)
(* so.  A prekey that such a session may still have is left where it is.   *)
Decrypt(p) ==
  /\ \E record \in LoadedRecord(p), m \in network :
       /\ m.from # p /\ Decrypts(record, m)
       /\ StoreRecord(p, Decrypted(record, m), IF m.prekey THEN {} ELSE {m.session})
       /\ returned' = [returned EXCEPT ![p] = @ \cup {m}]
  /\ UNCHANGED <<disk, removing, network, inits, durable, swallowed, removed, torn,
                 stranded, faults>>

(* decryptPreKeyWhisperMessage of a new session, up to storeRecord:         *)
(* initIncoming needs the prekey, closes the open session and opens this   *)
(* one.  One that was here before and has sent is set back by that.        *)
Establish(p) ==
  /\ \E record \in LoadedRecord(p), m \in network :
       /\ m.from # p /\ m.prekey
       /\ m.session \notin DOMAIN record /\ m.session \in memory[p].preKeys
       /\ StoreRecord(p, Decrypted(SetSession(record, m.session), m), {})
       /\ removing' = [removing EXCEPT ![p] = {m}]
       /\ torn' = torn \cup {n.session : n \in {n \in network : n.from = p /\ n.session = m.session}}
  /\ UNCHANGED <<disk, network, inits, returned, durable, swallowed, removed, stranded, faults>>

(* removePreKey as if the prekey stayed in memory and in the snapshot.      *)
RemovePreKeyNot(p) ==
  /\ \E m \in removing[p] : returned' = [returned EXCEPT ![p] = @ \cup {m}]
  /\ disk' = [disk EXCEPT ![p] = memory[p]]
  /\ durable' = [durable EXCEPT ![p] = returned'[p]]
  /\ removing' = [removing EXCEPT ![p] = {}]
  /\ UNCHANGED <<memory, job, network, inits, history, faults>>

(* ... and its end: removePreKey saves at once, and the decrypt returns.  If *)
(* the save fails, the prekey is gone from memory all the same, and the    *)
(* decrypt fails.  Other addresses' jobs may save in between (Save).       *)
RemovePreKey(p) ==
  /\ \E m \in removing[p] :
       /\ memory' = [memory EXCEPT ![p].preKeys = @ \ {m.session}]
       /\ \/ /\ disk' = [disk EXCEPT ![p] = memory'[p]]
             /\ returned' = [returned EXCEPT ![p] = @ \cup {m}]
             /\ durable' = [durable EXCEPT ![p] = returned'[p]]
             /\ UNCHANGED <<swallowed, faults>>
          \/ /\ faults < MaxFaults
             /\ faults' = faults + 1
             /\ swallowed' = swallowed \cup {m}
             /\ UNCHANGED <<disk, returned, durable>>
  /\ removing' = [removing EXCEPT ![p] = {}]
  /\ UNCHANGED <<job, network, inits, evicted, stale, removed, torn, stranded>>

CloseOpenSession(p) ==
  /\ \E record \in LoadedRecord(p) :
       /\ OpenSessions(record) # {}
       /\ StoreRecord(p, CloseSessions(record), {})
  /\ UNCHANGED <<disk, removing, network, inits, returned, durable, swallowed, removed, torn,
                 stranded, faults>>

------------------------------------------------------------------------------
(* The storage.                                                            *)

(* The save that a stored session, or a removed one, has scheduled, or that *)
(* of another address's removePreKey or of reservePreKey.                  *)
Save(p) ==
  /\ disk[p] # memory[p]
  /\ disk' = [disk EXCEPT ![p] = memory[p]]
  /\ durable' = [durable EXCEPT ![p] = returned[p]]
  /\ UNCHANGED <<memory, job, removing, network, inits, returned, history, faults>>

(* removeIdentity, or saveIdentity of another key: outside of the jobs, one *)
(* of which may be under way and put back the record that it has loaded,   *)
(* unless it has stored it already.                                        *)
RemoveSessions(p) ==
  /\ faults < MaxFaults /\ memory[p].record # NoSessions
  /\ faults' = faults + 1
  /\ removed' = [removed EXCEPT ![p] = @ \cup DOMAIN memory[p].record]
  /\ memory' = [memory EXCEPT ![p].record = NoSessions]
  /\ job' \in {job, [job EXCEPT ![p] = LoadedRecord(p)]}
  /\ UNCHANGED <<disk, removing, network, inits, returned, durable, swallowed, evicted, stale,
                 torn, stranded>>

(* The device restarts from the snapshot.  A session it had or has is set   *)
(* back if it has sent a message in it that the snapshot does not know of. *)
(* The message being decrypted is lost if a save came before the prekey's  *)
(* removal, and a snapshot from then has the prekey beside the session.    *)
Crash(p) ==
  /\ faults < MaxFaults
  /\ faults' = faults + 1
  /\ LET now == memory[p].record  then == disk[p].record
         Unknown(m) == IF m.session \in DOMAIN then THEN m.number >= then[m.session].sent
                       ELSE m.session \in DOMAIN now
         UsedUp(m) == m.session \in DOMAIN then /\ m.number \in then[m.session].got
     IN  /\ torn' = torn \cup {m.session : m \in {n \in network : n.from = p /\ Unknown(n)}}
         /\ swallowed' = swallowed \cup {m \in removing[p] : UsedUp(m)}
         /\ stranded' = stranded \cup (DOMAIN then \cap disk[p].preKeys)
  /\ memory' = [memory EXCEPT ![p] = disk[p]]
  /\ returned' = [returned EXCEPT ![p] = durable[p]]
  /\ job' = [job EXCEPT ![p] = {}] /\ removing' = [removing EXCEPT ![p] = {}]
  /\ UNCHANGED <<disk, network, inits, durable, evicted, stale, removed>>

Next ==
  \E p \in Devices :
    \/ JobFails(p)
    \/ InitOutgoing(p) \/ Encrypt(p) \/ Decrypt(p) \/ Establish(p) \/ RemovePreKey(p)
    \/ CloseOpenSession(p)
    \/ Save(p) \/ RemoveSessions(p) \/ Crash(p)

Spec == Init /\ [][Next]_vars

------------------------------------------------------------------------------
(* Properties.                                                             *)

(* A device has at most one open session, in memory and in its snapshot,    *)
(* whoever initiates when, so that it is clear which one encrypt uses      *)
(* (getOpenSession, session-record.ts:401, takes the first).               *)
OneOpenSession ==
  \A p \in Devices :
    /\ Cardinality(OpenSessions(memory[p].record)) <= 1
    /\ Cardinality(OpenSessions(disk[p].record)) <= 1

CanDecrypt(p, m) ==
  LET s == memory[p]
  IN  \/ Decrypts(s.record, m)
      \/ m.prekey /\ m.session \notin DOMAIN s.record /\ m.session \in s.preKeys

Dropped(p) == evicted[p] \cup stale[p] \cup removed[p]

(* A message that has been decrypted is not decrypted again, not even when  *)
(* its session is gone and it could establish it anew: its prekey is gone  *)
(* then too (session-cipher.ts:353).  After a crash this holds of what was *)
(* saved.  The exception is a session that a crash has left beside its     *)
(* prekey, between the store and the removal (350 and 353), once it has    *)
(* been dropped: as it exists, initIncoming names no prekey to remove.     *)
PlaintextOnce ==
  \A p \in Devices : \A m \in returned[p] :
    CanDecrypt(p, m) => m.session \in stranded \cap Dropped(p)

(* A message can be decrypted, late, reordered, after the session was       *)
(* closed or the device restarted, until it has been, unless the session    *)
(* was dropped as the oldest of too many (session-record.ts:440), as unused *)
(* for too long (463) or with the identity, or set back by a crash         *)
(* (file-storage.ts:887), or the message's decrypt failed, or died in a    *)
(* crash, after the fact (session-cipher.ts:353).                          *)
LossOnlyByLimits ==
  \A p \in Devices : \A m \in network \ (returned[p] \cup removing[p] \cup swallowed) :
    \/ m.from = p \/ CanDecrypt(p, m)
    \/ m.session \in Dropped(p) \cup torn
==============================================================================
