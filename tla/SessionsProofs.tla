------------------------------ MODULE SessionsProofs ------------------------------
(***************************************************************************)
(* Theorems about Sessions, for any limits, numbers of sessions, messages   *)
(* and faults.                                                             *)
(*                                                                         *)
(* The argument: the times of closing in a record differ, 0 for the open    *)
(* session among them; so one session is open, and the one that goes first  *)
(* has been outlived by all others.  A session that was established has     *)
(* used its prekey up, once its job has ended, in memory and in the         *)
(* snapshot alike, so what a record has decrypted it either still knows, or *)
(* cannot establish again.  A snapshot taken before the job's end has both  *)
(* session and prekey; a crash that goes back to it leaves the only         *)
(* sessions for which this is not so, and they have to be dropped first.    *)
(* The numbers a record has decrypted are those of messages returned or     *)
(* swallowed, and a session of which a message has arrived without a prekey *)
(* is one that its receiver has sent in.                                   *)
(***************************************************************************)
EXTENDS Sessions, WellFoundedInduction, FiniteSetTheorems, TLAPS

(* The records that a job of p may find.                                   *)
RecordsOf(p) == {memory[p].record} \cup job[p]

Lost(p) == Dropped(p) \cup torn

(* The sessions that may be established anew after they have decrypted.     *)
Again(p) == stranded \cap Dropped(p)

(* The messages whose decrypt has stored them, and returns them or will;    *)
(* and, of those in the snapshot, the ones it never may.                   *)
Taken(p) == returned[p] \cup removing[p]
Doubtful(p) == swallowed \cup removing[p]

SessionsOf(messages) == {m.session : m \in messages}

Distinct(r) == \A s, t \in DOMAIN r : r[s].closed = r[t].closed => s = t

(* A record r of p has decrypted the messages of set, of the sessions that  *)
(* it has and had ever since, and nothing else than these and those of bad. *)
HasDecrypted(p, r, set, bad, again) ==
  /\ \A m \in set : m.session \in DOMAIN r \ again => m.number \in r[m.session].got
  /\ \A s \in DOMAIN r : \A k \in r[s].got :
       \E m \in set \cup bad : m.session = s /\ m.from # p /\ m.number = k

(* ... when n sessions have been initiated.                                *)
RecordInv(p, r, set, n, bad, again) ==
  /\ Distinct(r)
  /\ \A s \in DOMAIN r : s[2] <= n[s[1]] /\ (s[1] # p => r[s].got # {})
  /\ HasDecrypted(p, r, set, bad, again)

(* A session that was initiated here and not set back is ahead of what it   *)
(* has sent.                                                               *)
SentInv(p, r, messages, back) ==
  \A s \in DOMAIN r \ back : \A m \in messages :
    s[1] = p /\ m.session = s /\ m.from = p => m.number < r[s].sent

(* The prekeys of a storage: one of a session whose messages were decrypted *)
(* is among those left, and each that is gone was used for a session.      *)
PreKeyInv(p, r, keys, set, left, lost) ==
  /\ keys \subseteq {Other(p)} \X (1..MaxInits)
  /\ \A m \in set : m.session \in keys => m.session \in left
  /\ {Other(p)} \X (1..MaxInits) \subseteq keys \cup DOMAIN r \cup lost

(* The sessions of decrypted messages whose prekeys may be there, when the  *)
(* record is r: a crash has left both, whether the session is there or not *)
(* any more; and in the snapshot, a crash may be about to do so.           *)
Spared(p, r) == stranded \cap (DOMAIN r \cup Dropped(p))
SparedOnDisk(p, r) == DOMAIN r \cup Again(p)

MemoryInv(p) ==
  /\ \A r \in RecordsOf(p) :
       /\ RecordInv(p, r, Taken(p), inits, swallowed, Again(p))
       /\ SentInv(p, r, network, torn)
       /\ DOMAIN r \cap memory[p].preKeys \subseteq stranded \cup SessionsOf(removing[p])
  /\ PreKeyInv(p, memory[p].record, memory[p].preKeys, returned[p],
               Spared(p, memory[p].record), Lost(p))
  /\ SessionsOf(removing[p]) \subseteq DOMAIN memory[p].record \cup Lost(p)
  /\ job[p] # {} => memory[p].record = NoSessions

DiskInv(p) ==
  /\ RecordInv(p, disk[p].record, durable[p], inits, Doubtful(p), Again(p))
  /\ PreKeyInv(p, disk[p].record, disk[p].preKeys, durable[p],
               SparedOnDisk(p, disk[p].record), Lost(p))

(* A device that has sent in a session has it, or has lost it.              *)
SenderHas(p) ==
  \A m \in network : m.from = p => m.session \in DOMAIN memory[p].record \cup Lost(p)

MessageInv ==
  /\ \A m \in network :
       /\ m.session[2] <= inits[m.session[1]]
       /\ m.prekey => m.session[1] = m.from
       /\ ~m.prekey => \E n \in network : n.session = m.session /\ n.from # m.from
  /\ \A m, n \in network :
       m.session = n.session /\ m.from = n.from /\ m.number = n.number
         /\ m.session \notin torn => m = n

DeviceInv(p) == MemoryInv(p) /\ DiskInv(p)

Inv == (\A p \in Devices : DeviceInv(p) /\ SenderHas(p)) /\ MessageInv

IInv == TypeOK /\ Inv

------------------------------------------------------------------------------
(* The two devices, and finite sets.                                       *)

LEMMA TwoDevices ==
  /\ \A p \in Devices : Other(p) \in Devices /\ Other(p) # p
  /\ \A p, q, r \in Devices : q # p /\ r # p => q = r
<1>1. ASSUME NEW p \in Devices
      PROVE  /\ \E q \in Devices : q # p
             /\ \A q, r \in Devices : q # p /\ r # p => q = r
  <2>1. IsFiniteSet(Devices \ {p}) /\ Cardinality(Devices \ {p}) = 1
    <3>1. IsFiniteSet(Devices) /\ Cardinality(Devices) = 2
      BY SessionsAssumption
    <3>2. QED
      BY <3>1, FS_RemoveElement
  <2>2. PICK q : Devices \ {p} = {q}
    BY <2>1, FS_Singleton
  <2>3. QED
    BY <2>2
<1>2. ASSUME NEW p \in Devices PROVE Other(p) \in Devices /\ Other(p) # p
  BY <1>1 DEF Other
<1>3. QED
  BY <1>1, <1>2

LEMMA LeastNat ==
  ASSUME NEW S \in SUBSET Nat, S # {}
  PROVE  \E n \in S : \A m \in S : n <= m
<1> DEFINE R == {ss \in Nat \X Nat : ss[1] < ss[2]}
<1>1. IsWellFoundedOn(R, Nat)
  BY NatLessThanWellFounded DEF OpToRel
<1>2. PICK n \in S : \A m \in S : <<m, n>> \notin R
  <2> HIDE DEF R
  <2>1. QED
    BY <1>1, WFMin
<1>3. ASSUME NEW m \in S PROVE n <= m
  <2>1. m \in Nat /\ n \in Nat
    OBVIOUS
  <2>2. CASE m < n
    <3>1. <<m, n>> \in R
      BY <2>1, <2>2
    <3>2. QED
      BY <3>1, <1>2
  <2>3. CASE ~(m < n)
    BY <2>1, <2>3
  <2>4. QED
    BY <2>2, <2>3
<1>4. QED
  BY <1>3

(* A finite set of numbers has a greatest: a smallest one without would     *)
(* still have none when an element is taken from it.                       *)
LEMMA GreatestNat ==
  ASSUME NEW S \in SUBSET Nat, IsFiniteSet(S), S # {}
  PROVE  \E n \in S : \A m \in S : n >= m
<1> DEFINE Has(T) == \E n \in T : \A m \in T : n >= m
           Bad == {T \in SUBSET Nat : IsFiniteSet(T) /\ T # {} /\ ~Has(T)}
           Sizes == {k \in Nat : \E T \in Bad : Cardinality(T) = k}
<1>1. SUFFICES ASSUME S \in Bad PROVE FALSE
  OBVIOUS
<1>2. \A T \in Bad : Cardinality(T) \in Sizes
  BY FS_CardinalityType
<1>3. Sizes # {} /\ Sizes \in SUBSET Nat
  BY <1>1, <1>2
<1>4. PICK k \in Sizes : \A j \in Sizes : k <= j
  <2> HIDE DEF Sizes
  <2>1. QED
    BY <1>3, LeastNat
<1>5. PICK T \in Bad : Cardinality(T) = k
  BY <1>4
<1>6. PICK x \in T : TRUE
  BY <1>5
<1> DEFINE U == T \ {x}
<1>7. IsFiniteSet(U) /\ Cardinality(U) = k - 1 /\ U \in SUBSET Nat
  <2>1. IsFiniteSet(T) /\ T \in SUBSET Nat
    BY <1>5
  <2>2. QED
    BY <2>1, <1>5, <1>6, FS_RemoveElement
<1>8. CASE U = {}
  <2>1. T = {x} /\ x \in Nat
    BY <1>8, <1>5, <1>6
  <2>2. Has(T)
    BY <2>1
  <2>3. QED
    BY <2>2, <1>5
<1>9. CASE U \in Bad
  <2>1. k - 1 \in Sizes
    BY <1>9, <1>7, <1>2
  <2>2. k \in Nat
    BY <1>4
  <2>3. k <= k - 1
    BY <2>1, <1>4
  <2>4. QED
    BY <2>2, <2>3
<1>10. CASE Has(U)
  <2>1. PICK y \in U : \A m \in U : y >= m
    BY <1>10
  <2>2. y \in Nat /\ x \in Nat /\ \A m \in T : m \in Nat /\ (m = x \/ m \in U)
    BY <1>5, <1>6, <1>7
  <2>3. CASE y >= x
    <3>1. \A m \in T : y >= m
      BY <2>1, <2>2, <2>3
    <3>2. QED
      BY <3>1, <1>5
  <2>4. CASE x >= y
    <3>1. \A m \in T : x >= m
      BY <2>1, <2>2, <2>4
    <3>2. QED
      BY <3>1, <1>5, <1>6
  <2>5. QED
    BY <2>2, <2>3, <2>4
<1>11. QED
  BY <1>7, <1>8, <1>9, <1>10

LEMMA SessionsFinite ==
  /\ IsFiniteSet(Session)
  /\ \A S \in SUBSET Session : IsFiniteSet(S) /\ Cardinality(S) \in Nat
<1>1. IsFiniteSet(Devices) /\ MaxInits \in Nat
  BY SessionsAssumption
<1>2. IsFiniteSet(1..MaxInits)
  BY <1>1, FS_Interval
<1>3. IsFiniteSet(Session)
  BY <1>1, <1>2, FS_Product DEF Session
<1>4. QED
  BY <1>3, FS_Subset, FS_CardinalityType

------------------------------------------------------------------------------
(* The operations of a record.                                             *)

Entries(r) ==
  r \in [DOMAIN r -> Entry] /\ DOMAIN r \subseteq Session /\ Distinct(r)

LEMMA EntryFields ==
  ASSUME NEW r, Entries(r), NEW s \in DOMAIN r
  PROVE  /\ r[s] \in Entry /\ r[s].closed \in Nat
         /\ r[s].got \subseteq 0..MaxSent - 1 /\ r[s].sent \in 0..MaxSent
BY DEF Entries, Entry

(* Closing closes the open session, later than the others, and no more.     *)
LEMMA Closing ==
  ASSUME NEW r, Entries(r)
  PROVE  /\ Entries(CloseSessions(r)) /\ DOMAIN CloseSessions(r) = DOMAIN r
         /\ \A s \in DOMAIN r :
              /\ CloseSessions(r)[s].closed # 0
              /\ CloseSessions(r)[s].got = r[s].got
              /\ CloseSessions(r)[s].sent = r[s].sent
<1> DEFINE T == {r[s].closed : s \in DOMAIN r} \cup {0}
           now == 1 + Max(T)
           c == CloseSessions(r)
<1>1. T \in SUBSET Nat /\ T # {}
  BY EntryFields
<1>2. IsFiniteSet(T)
  <2>1. IsFiniteSet(DOMAIN r)
    BY SessionsFinite DEF Entries
  <2>2. IsFiniteSet({r[s].closed : s \in DOMAIN r})
    <3> DEFINE N == {r[s].closed : s \in DOMAIN r}
               f == [s \in DOMAIN r |-> r[s].closed]
    <3>1. f \in Surjection(DOMAIN r, N)
      BY DEF Surjection
    <3>2. QED
      BY <2>1, <3>1, FS_Surjection
  <2>3. QED
    BY <2>2, FS_AddElement
<1>3. Max(T) \in T /\ \A m \in T : Max(T) >= m
  <2>1. \E n \in T : \A m \in T : n >= m
    <3> HIDE DEF T
    <3>1. QED
      BY <1>1, <1>2, GreatestNat
  <2>2. QED
    BY <2>1 DEF Max
<1>4. now \in Nat /\ now # 0 /\ \A s \in DOMAIN r : r[s].closed # now
  <2>1. Max(T) \in Nat
    BY <1>1, <1>3
  <2>2. \A s \in DOMAIN r : r[s].closed \in Nat /\ Max(T) >= r[s].closed
    BY <1>3, EntryFields
  <2> HIDE DEF T
  <2>3. QED
    BY <2>1, <2>2
<1>5. c = [s \in DOMAIN r |->
             IF IsClosed(r[s]) THEN r[s] ELSE [r[s] EXCEPT !.closed = now]]
  BY DEF CloseSessions
<1> HIDE DEF now, c
<1>6. DOMAIN c = DOMAIN r
  BY <1>5
<1>7. ASSUME NEW s \in DOMAIN r
      PROVE  /\ c[s] \in Entry /\ c[s].closed # 0
             /\ c[s].got = r[s].got /\ c[s].sent = r[s].sent
             /\ c[s].closed = IF r[s].closed = 0 THEN now ELSE r[s].closed
  BY <1>4, <1>5, EntryFields DEF Entry, IsClosed
<1>8. Distinct(c)
  BY <1>4, <1>6, <1>7 DEF Distinct, Entries
<1>9. c \in [DOMAIN c -> Entry]
  BY <1>5, <1>6, <1>7
<1>10. QED
  BY <1>6, <1>7, <1>8, <1>9 DEF Entries, c

LEMMA Opening ==
  ASSUME NEW r, Entries(r), NEW s \in Session
  PROVE  /\ Entries(SetSession(r, s)) /\ DOMAIN SetSession(r, s) = DOMAIN r \cup {s}
         /\ SetSession(r, s)[s] = NewEntry
         /\ \A t \in DOMAIN r \ {s} :
              /\ SetSession(r, s)[t].got = r[t].got
              /\ SetSession(r, s)[t].sent = r[t].sent
<1> DEFINE c == CloseSessions(r)
           o == SetSession(r, s)
<1>1. /\ Entries(c) /\ DOMAIN c = DOMAIN r
      /\ \A t \in DOMAIN r : c[t].closed # 0 /\ c[t].got = r[t].got /\ c[t].sent = r[t].sent
  BY Closing
<1>2. o = [t \in DOMAIN c \cup {s} |-> IF t = s THEN NewEntry ELSE c[t]]
  BY DEF SetSession, SetSessionOnly
<1> HIDE DEF c, o
<1>3. DOMAIN o = DOMAIN r \cup {s} /\ o[s] = NewEntry /\ \A t \in DOMAIN r \ {s} : o[t] = c[t]
  BY <1>1, <1>2
<1>4. NewEntry \in Entry /\ NewEntry.closed = 0
  BY SessionsAssumption DEF NewEntry, Entry
<1>5. \A t \in DOMAIN r : c[t] \in Entry
  BY <1>1, EntryFields
<1>6. o \in [DOMAIN o -> Entry]
  BY <1>1, <1>2, <1>3, <1>4, <1>5
<1>7. Distinct(o)
  BY <1>1, <1>3, <1>4 DEF Distinct, Entries
<1>8. DOMAIN o \subseteq Session
  BY <1>3 DEF Entries
<1>9. QED
  BY <1>1, <1>3, <1>6, <1>7, <1>8 DEF Entries, o

(* The limit: of one session too many the oldest goes, if that is closed,   *)
(* and all the others have outlived it.                                    *)
LEMMA Removing ==
  ASSUME NEW r, Entries(r), Cardinality(DOMAIN r) <= MaxSessions + 1
  PROVE  /\ Entries(RemoveOldSessions(r)) /\ IsRecord(RemoveOldSessions(r))
         /\ DOMAIN RemoveOldSessions(r) \subseteq DOMAIN r
         /\ \A s \in DOMAIN RemoveOldSessions(r) : RemoveOldSessions(r)[s] = r[s]
         /\ DOMAIN r \subseteq DOMAIN RemoveOldSessions(r) \cup Outlived(r)
<1> DEFINE S == DOMAIN r
           closed == S \ OpenSessions(r)
           o == RemoveOldSessions(r)
<1>1. IsFiniteSet(S) /\ Cardinality(S) \in Nat /\ MaxSessions \in Nat \ {0}
  BY SessionsFinite, SessionsAssumption DEF Entries
<1>2. DOMAIN o = S \ Excess(r) /\ \A s \in DOMAIN o : o[s] = r[s]
  BY DEF RemoveOldSessions
<1>3. o \in [DOMAIN o -> Entry] /\ Distinct(o) /\ DOMAIN o \subseteq Session
  BY <1>2 DEF RemoveOldSessions, Entries, Distinct
<1>4. CASE Cardinality(S) <= MaxSessions
  <2>1. Excess(r) = {}
    BY <1>4 DEF Excess
  <2>2. QED
    BY <1>2, <1>3, <1>4, <2>1 DEF Entries, IsRecord
<1>5. CASE ~(Cardinality(S) <= MaxSessions)
  <2>1. Cardinality(S) = MaxSessions + 1
    BY <1>1, <1>5
  <2>2. \A s \in S : r[s].closed \in Nat /\ (s \in closed <=> r[s].closed # 0)
    BY EntryFields DEF OpenSessions, IsClosed
  <2>3. closed # {}
    <3>1. SUFFICES ASSUME closed = {} PROVE FALSE
      OBVIOUS
    <3>2. \A s, t \in S : s = t
      BY <2>2, <3>1 DEF Entries, Distinct
    <3>3. PICK x \in S : TRUE
      BY <2>1, <1>1, FS_EmptySet
    <3>4. Cardinality(S) = 1
      <4>1. S = {x}
        BY <3>2, <3>3
      <4>2. QED
        BY <4>1, FS_Singleton
    <3>5. QED
      BY <3>4, <2>1, <1>1
  <2>4. \E s \in closed : \A t \in closed : r[s].closed <= r[t].closed
    <3> DEFINE N == {r[s].closed : s \in closed}
    <3>1. N \in SUBSET Nat /\ N # {}
      BY <2>2, <2>3
    <3>2. \E n \in N : \A m \in N : n <= m
      <4> HIDE DEF N
      <4>1. QED
        BY <3>1, LeastNat
    <3>3. QED
      BY <3>2
  <2>5. PICK x \in closed : Excess(r) = {x} /\ \A t \in closed : r[x].closed <= r[t].closed
    BY <2>4, <1>5 DEF Excess
  <2>6. Cardinality(S \ {x}) = MaxSessions
    <3>1. x \in S /\ Cardinality(S \ {x}) = Cardinality(S) - 1
      BY <2>5, <1>1, FS_RemoveElement
    <3>2. QED
      BY <2>1, <3>1, <1>1
  <2>7. x \in Outlived(r)
    <3>1. \A t \in S \ {x} : ~IsClosed(r[t]) \/ r[t].closed > r[x].closed
      BY <2>2, <2>5 DEF Entries, Distinct, IsClosed
    <3>2. ~(r[x].closed > r[x].closed) /\ IsClosed(r[x])
      BY <2>2, <2>5 DEF IsClosed
    <3>3. {t \in S : ~IsClosed(r[t]) \/ r[t].closed > r[x].closed} = S \ {x}
      BY <3>1, <3>2
    <3>4. MaxSessions >= MaxSessions
      BY <1>1
    <3>5. QED
      BY <2>5, <2>6, <3>2, <3>3, <3>4 DEF Outlived
  <2>8. IsRecord(o)
    <3>1. Cardinality(DOMAIN o) <= MaxSessions
      BY <2>5, <2>6, <1>1, <1>2
    <3>2. QED
      BY <3>1, <1>3 DEF IsRecord
  <2>9. QED
    BY <2>5, <2>7, <2>8, <1>2, <1>3 DEF Entries
<1>6. QED
  BY <1>4, <1>5

LEMMA OneMore ==
  ASSUME NEW r, IsRecord(r), NEW s
  PROVE  Cardinality(DOMAIN r \cup {s}) <= MaxSessions + 1
<1>1. IsFiniteSet(DOMAIN r) /\ Cardinality(DOMAIN r) \in Nat /\ Cardinality(DOMAIN r) <= MaxSessions
  BY SessionsFinite DEF IsRecord
<1>2. MaxSessions \in Nat
  BY SessionsAssumption
<1>3. Cardinality(DOMAIN r \cup {s}) \in {Cardinality(DOMAIN r), Cardinality(DOMAIN r) + 1}
  BY <1>1, FS_AddElement
<1>4. QED
  BY <1>1, <1>2, <1>3

(* A job may store a record of one session too many.                       *)
Storable(r) == Entries(r) /\ Cardinality(DOMAIN r) <= MaxSessions + 1

(* What is left when closed sessions go that were not used for too long.    *)
LEMMA Dropping ==
  ASSUME NEW r, Storable(r),
         NEW unused \in SUBSET DOMAIN RemoveOldSessions(r),
         NEW S, S = [s \in DOMAIN RemoveOldSessions(r) \ unused |-> RemoveOldSessions(r)[s]]
  PROVE  /\ IsRecord(S) /\ Distinct(S) /\ DOMAIN S \subseteq DOMAIN r
         /\ \A s \in DOMAIN S : S[s] = r[s]
         /\ DOMAIN r \subseteq DOMAIN S \cup Outlived(r) \cup unused
         /\ unused \subseteq Session /\ Outlived(r) \subseteq Session
<1>1. PICK kept : kept = RemoveOldSessions(r)
  OBVIOUS
<1>2. /\ Entries(kept) /\ IsRecord(kept) /\ DOMAIN kept \subseteq DOMAIN r
      /\ \A s \in DOMAIN kept : kept[s] = r[s]
      /\ DOMAIN r \subseteq DOMAIN kept \cup Outlived(r)
  BY <1>1, Removing DEF Storable
<1>3. /\ unused \subseteq DOMAIN kept /\ DOMAIN S = DOMAIN kept \ unused
      /\ S = [s \in DOMAIN kept \ unused |-> kept[s]]
      /\ \A s \in DOMAIN S : S[s] = kept[s]
  BY <1>1
<1>4. Cardinality(DOMAIN S) <= MaxSessions
  <2>1. /\ DOMAIN S \in SUBSET Session /\ DOMAIN kept \in SUBSET Session
        /\ DOMAIN S \in SUBSET (DOMAIN kept)
    BY <1>2, <1>3 DEF Entries
  <2>2. /\ IsFiniteSet(DOMAIN kept) /\ Cardinality(DOMAIN kept) \in Nat
        /\ Cardinality(DOMAIN S) \in Nat
    BY <2>1, SessionsFinite
  <2>3. Cardinality(DOMAIN S) <= Cardinality(DOMAIN kept)
    BY <2>1, <2>2, FS_Subset
  <2>4. Cardinality(DOMAIN kept) <= MaxSessions /\ MaxSessions \in Nat
    BY <1>2, SessionsAssumption DEF IsRecord
  <2>5. QED
    BY <2>2, <2>3, <2>4
<1>5. IsRecord(S) /\ Distinct(S)
  <2>1. S \in [DOMAIN S -> Entry]
    BY <1>2, <1>3 DEF Entries
  <2>2. DOMAIN S \subseteq Session /\ Distinct(S)
    BY <1>2, <1>3 DEF Entries, Distinct
  <2>3. QED
    BY <1>4, <2>1, <2>2 DEF IsRecord
<1>6. unused \subseteq Session /\ Outlived(r) \subseteq Session
  BY <1>2, <1>3 DEF Entries, Outlived, Storable
<1>7. QED
  BY <1>2, <1>3, <1>5, <1>6

------------------------------------------------------------------------------
(* What a step leaves alone.                                               *)

(* A step of p changes nothing of another device, forgets no message and no *)
(* loss, and sends messages of p only.                                     *)
Frame(p) ==
  /\ \A q \in Devices \ {p} :
       /\ memory'[q] = memory[q] /\ disk'[q] = disk[q] /\ job'[q] = job[q]
       /\ removing'[q] = removing[q]
       /\ returned'[q] = returned[q] /\ durable'[q] = durable[q]
       /\ evicted'[q] = evicted[q] /\ stale'[q] = stale[q] /\ removed'[q] = removed[q]
  /\ \A q \in Devices : inits[q] <= inits'[q]
  /\ \A m \in network' : m \in network \/ m.from = p
  /\ network \subseteq network' /\ swallowed \subseteq swallowed'
  /\ torn \subseteq torn' /\ stranded \subseteq stranded'

Step(p) ==
  \/ JobFails(p)
  \/ InitOutgoing(p) \/ Encrypt(p) \/ Decrypt(p) \/ Establish(p) \/ RemovePreKey(p)
  \/ CloseOpenSession(p)
  \/ Save(p) \/ RemoveSessions(p) \/ Crash(p)

LEMMA Typing ==
  ASSUME TypeOK, NEW p \in Devices
  PROVE  /\ StorageOK(memory[p]) /\ StorageOK(disk[p])
         /\ memory[p] = [record |-> memory[p].record, preKeys |-> memory[p].preKeys]
         /\ memory[p].preKeys \subseteq disk[p].preKeys
         /\ \A r \in RecordsOf(p) : IsRecord(r)
         /\ IsRecord(disk[p].record)
         /\ inits[p] \in Nat /\ returned[p] \subseteq network /\ durable[p] \subseteq network
         /\ removing[p] \subseteq network /\ (removing[p] # {} => job[p] = {})
         /\ swallowed \subseteq network /\ network \subseteq Message
<1>1. StorageOK(memory[p]) /\ StorageOK(disk[p]) /\ memory[p].preKeys \subseteq disk[p].preKeys
  BY DEF TypeOK
<1>2. memory[p] = [record |-> memory[p].record, preKeys |-> memory[p].preKeys]
  BY <1>1 DEF StorageOK
<1>3. \A r \in RecordsOf(p) : IsRecord(r)
  BY <1>1 DEF TypeOK, StorageOK, RecordsOf
<1>4. inits[p] \in Nat
  <2>1. inits[p] \in 0..MaxInits
    BY DEF TypeOK
  <2>2. QED
    BY <2>1
<1>5. returned[p] \subseteq network /\ durable[p] \subseteq network
  BY DEF TypeOK
<1>6. removing[p] \subseteq network /\ (removing[p] # {} => job[p] = {})
  BY DEF TypeOK
<1>7. swallowed \subseteq network /\ network \subseteq Message
  BY DEF TypeOK
<1>8. QED
  BY <1>1, <1>2, <1>3, <1>4, <1>5, <1>6, <1>7 DEF StorageOK

LEMMA StepFrame ==
  ASSUME TypeOK, NEW p \in Devices, Step(p)
  PROVE  Frame(p)
<1> USE DEF Frame, history, StoreRecord, StoreSession
<1>1. /\ memory \in [Devices -> {memory[q] : q \in Devices}]
      /\ disk \in [Devices -> {disk[q] : q \in Devices}]
      /\ job \in [Devices -> {job[q] : q \in Devices}]
      /\ removing \in [Devices -> {removing[q] : q \in Devices}]
      /\ returned \in [Devices -> SUBSET network] /\ durable \in [Devices -> SUBSET network]
      /\ evicted \in [Devices -> SUBSET Session] /\ stale \in [Devices -> SUBSET Session]
      /\ removed \in [Devices -> SUBSET Session]
      /\ inits \in [Devices -> 0..MaxInits] /\ \A q \in Devices : inits[q] <= inits[q]
  <2>1. \A q \in Devices : inits[q] \in Nat
    BY Typing
  <2>2. \A q \in Devices : inits[q] <= inits[q]
    BY <2>1
  <2>3. {returned, durable} \subseteq [Devices -> SUBSET network]
    BY DEF TypeOK
  <2>4. {evicted, stale, removed} \subseteq [Devices -> SUBSET Session]
    BY DEF TypeOK
  <2>5. QED
    BY <2>2, <2>3, <2>4 DEF TypeOK
<1>2. CASE JobFails(p)
  BY <1>1, <1>2 DEF JobFails
<1>3. CASE InitOutgoing(p)
  BY <1>1, <1>3 DEF InitOutgoing
<1>4. CASE Encrypt(p)
  BY <1>1, <1>4 DEF Encrypt
<1>5. CASE Decrypt(p)
  BY <1>1, <1>5 DEF Decrypt
<1>6. CASE Establish(p)
  BY <1>1, <1>6 DEF Establish
<1>7. CASE RemovePreKey(p)
  BY <1>1, <1>7 DEF RemovePreKey
<1>8. CASE CloseOpenSession(p)
  BY <1>1, <1>8 DEF CloseOpenSession
<1>9. CASE Save(p)
  BY <1>1, <1>9 DEF Save
<1>10. CASE RemoveSessions(p)
  BY <1>1, <1>10 DEF RemoveSessions
<1>11. CASE Crash(p)
  BY <1>1, <1>11 DEF Crash
<1>12. QED
  BY <1>2, <1>3, <1>4, <1>5, <1>6, <1>7, <1>8, <1>9, <1>10, <1>11 DEF Step

(* More sessions initiated, swallowed messages and dropped sessions.        *)
LEMMA RecordKept ==
  ASSUME TypeOK, TypeOK', NEW p \in Devices, Frame(p),
         NEW q \in Devices, NEW r, DOMAIN r \subseteq Session, NEW set,
         NEW bad, NEW worse, bad \subseteq worse, NEW again, NEW later, again \subseteq later,
         RecordInv(q, r, set, inits, bad, again)
  PROVE  RecordInv(q, r, set, inits', worse, later)
<1>1. ASSUME NEW s \in DOMAIN r PROVE s[2] <= inits'[s[1]]
  <2>1. s[1] \in Devices /\ s[2] \in 1..MaxInits
    BY DEF Session
  <2>2. inits[s[1]] \in 0..MaxInits /\ inits'[s[1]] \in 0..MaxInits
    BY <2>1 DEF TypeOK
  <2>3. s[2] <= inits[s[1]] /\ inits[s[1]] <= inits'[s[1]]
    BY <2>1 DEF RecordInv, Frame
  <2>4. MaxInits \in Nat
    BY SessionsAssumption
  <2>5. QED
    BY <2>1, <2>2, <2>3, <2>4
<1>2. HasDecrypted(q, r, set, worse, later)
  <2>1. HasDecrypted(q, r, set, bad, again)
    BY DEF RecordInv
  <2>2. QED
    BY <2>1 DEF HasDecrypted
<1>3. QED
  BY <1>1, <1>2 DEF RecordInv

(* More sessions whose prekeys may be there, and more that are lost.        *)
LEMMA PreKeysKept ==
  ASSUME NEW p, NEW r, NEW keys, NEW set, NEW left, NEW more, left \subseteq more,
         NEW lost, NEW later, lost \subseteq later, PreKeyInv(p, r, keys, set, left, lost)
  PROVE  PreKeyInv(p, r, keys, set, more, later)
BY DEF PreKeyInv

LEMMA LostGrows ==
  ASSUME NEW p \in Devices, Frame(p), NEW q \in Devices \ {p}
  PROVE  Lost(q) \subseteq Lost(q)' /\ Dropped(q) \subseteq Dropped(q)'
         /\ Again(q) \subseteq Again(q)' /\ Doubtful(q) \subseteq Doubtful(q)'
         /\ Taken(q)' = Taken(q)
BY DEF Frame, Lost, Dropped, Again, Doubtful, Taken

LEMMA OthersKept ==
  ASSUME TypeOK, TypeOK', Inv, NEW p \in Devices, Frame(p), NEW q \in Devices \ {p}
  PROVE  DeviceInv(q)' /\ SenderHas(q)'
<1>1. MemoryInv(q) /\ DiskInv(q) /\ SenderHas(q)
  BY DEF Inv, DeviceInv
<1>2. /\ memory'[q] = memory[q] /\ disk'[q] = disk[q] /\ job'[q] = job[q]
      /\ removing'[q] = removing[q]
      /\ returned'[q] = returned[q] /\ durable'[q] = durable[q]
      /\ swallowed \subseteq swallowed' /\ stranded \subseteq stranded'
  BY DEF Frame
<1>3. /\ Lost(q) \subseteq Lost(q)' /\ Dropped(q) \subseteq Dropped(q)'
      /\ Again(q) \subseteq Again(q)' /\ Doubtful(q) \subseteq Doubtful(q)'
      /\ Taken(q)' = Taken(q)
  BY LostGrows
<1>4. RecordsOf(q)' = RecordsOf(q)
  BY <1>2 DEF RecordsOf
<1>5. ASSUME NEW r \in RecordsOf(q)
      PROVE  /\ RecordInv(q, r, Taken(q)', inits', swallowed', Again(q)')
             /\ SentInv(q, r, network', torn')
             /\ DOMAIN r \cap memory[q].preKeys \subseteq stranded' \cup SessionsOf(removing[q])
  <2>1. DOMAIN r \subseteq Session
    BY Typing DEF IsRecord
  <2>2. /\ RecordInv(q, r, Taken(q), inits, swallowed, Again(q))
        /\ SentInv(q, r, network, torn)
        /\ DOMAIN r \cap memory[q].preKeys \subseteq stranded \cup SessionsOf(removing[q])
    BY <1>1 DEF MemoryInv
  <2>3. torn \subseteq torn' /\ \A m \in network' : m.from = q => m \in network
    BY DEF Frame
  <2>4. SentInv(q, r, network', torn')
    BY <2>2, <2>3 DEF SentInv
  <2>5. RecordInv(q, r, Taken(q)', inits', swallowed', Again(q)')
    BY <1>2, <1>3, <2>1, <2>2, RecordKept
  <2>6. QED
    BY <2>2, <2>4, <2>5, <1>2
<1>6. PICK r : r = memory[q].record
  OBVIOUS
<1>7. /\ Spared(q, r) \subseteq Spared(q, r)' /\ Spared(q, memory[q].record)' = Spared(q, r)'
      /\ Spared(q, memory[q].record) = Spared(q, r)
  BY <1>2, <1>3, <1>6 DEF Spared
<1>8. MemoryInv(q)'
  <2>1. PreKeyInv(q, r, memory[q].preKeys, returned[q], Spared(q, r)', Lost(q)')
    BY <1>1, <1>3, <1>6, <1>7, PreKeysKept DEF MemoryInv
  <2>2. PreKeyInv(q, memory[q].record, memory[q].preKeys, returned[q],
                  Spared(q, memory[q].record), Lost(q))'
    BY <2>1, <1>2, <1>6, <1>7
  <2>3. /\ SessionsOf(removing[q]) \subseteq DOMAIN memory[q].record \cup Lost(q)
        /\ job[q] # {} => memory[q].record = NoSessions
    BY <1>1 DEF MemoryInv
  <2>4. SessionsOf(removing[q])' = SessionsOf(removing[q])
    BY <1>2
  <2>5. QED
    BY <2>2, <2>3, <2>4, <1>2, <1>3, <1>4, <1>5 DEF MemoryInv
<1>9. DiskInv(q)'
  <2>1. PICK d : d = disk[q].record
    OBVIOUS
  <2>2. DOMAIN d \subseteq Session
    BY <2>1, Typing DEF IsRecord
  <2>3. RecordInv(q, d, durable[q], inits', Doubtful(q)', Again(q)')
    BY <2>1, <2>2, <1>1, <1>3, RecordKept DEF DiskInv
  <2>4. /\ SparedOnDisk(q, d) \subseteq SparedOnDisk(q, d)'
        /\ SparedOnDisk(q, disk[q].record)' = SparedOnDisk(q, d)'
        /\ SparedOnDisk(q, disk[q].record) = SparedOnDisk(q, d)
    BY <1>2, <1>3, <2>1 DEF SparedOnDisk
  <2>5. PreKeyInv(q, d, disk[q].preKeys, durable[q], SparedOnDisk(q, d)', Lost(q)')
    BY <2>1, <2>4, <1>1, <1>3, PreKeysKept DEF DiskInv
  <2>6. QED
    BY <2>1, <2>3, <2>4, <2>5, <1>2 DEF DiskInv
<1>10. SenderHas(q)'
  <2>1. \A m \in network' : m.from = q => m \in network
    BY DEF Frame
  <2>2. QED
    BY <2>1, <1>1, <1>2, <1>3 DEF SenderHas
<1>11. QED
  BY <1>8, <1>9, <1>10 DEF DeviceInv

------------------------------------------------------------------------------
(* The jobs.                                                               *)

LEMMA Loaded ==
  ASSUME TypeOK, Inv, NEW p \in Devices, NEW L \in LoadedRecord(p)
  PROVE  /\ IsRecord(L) /\ Entries(L) /\ removing[p] = {}
         /\ RecordInv(p, L, returned[p], inits, swallowed, Again(p))
         /\ SentInv(p, L, network, torn)
         /\ PreKeyInv(p, L, memory[p].preKeys, returned[p], Spared(p, L), Lost(p))
         /\ DOMAIN L \cap memory[p].preKeys \subseteq stranded
         /\ \A m \in returned[p] : m.session \in memory[p].preKeys \ DOMAIN L => m.session \in Again(p)
         /\ \A m \in network : m.from = p => m.session \in DOMAIN L \cup Lost(p)
<1>1. /\ removing[p] = {} /\ L \in RecordsOf(p)
      /\ L = memory[p].record \/ memory[p].record = NoSessions
  BY DEF LoadedRecord, RecordsOf, Inv, DeviceInv, MemoryInv
<1>2. IsRecord(L)
  BY <1>1, Typing
<1>3. MemoryInv(p) /\ SenderHas(p)
  BY DEF Inv, DeviceInv
<1>4. Taken(p) = returned[p] /\ SessionsOf(removing[p]) = {}
  BY <1>1 DEF Taken, SessionsOf
<1>5. /\ RecordInv(p, L, returned[p], inits, swallowed, Again(p))
      /\ SentInv(p, L, network, torn)
      /\ DOMAIN L \cap memory[p].preKeys \subseteq stranded
  BY <1>1, <1>3, <1>4 DEF MemoryInv
<1>6. Entries(L)
  BY <1>2, <1>5 DEF Entries, IsRecord, RecordInv
<1>7. DOMAIN memory[p].record \subseteq DOMAIN L
  BY <1>1 DEF NoSessions
<1>8. PreKeyInv(p, memory[p].record, memory[p].preKeys, returned[p],
                Spared(p, memory[p].record), Lost(p))
  BY <1>3 DEF MemoryInv
<1>9. /\ PreKeyInv(p, L, memory[p].preKeys, returned[p], Spared(p, L), Lost(p))
      /\ \A m \in returned[p] : m.session \in memory[p].preKeys \ DOMAIN L => m.session \in Again(p)
  BY <1>7, <1>8 DEF PreKeyInv, Spared, Again
<1>10. QED
  BY <1>1, <1>2, <1>3, <1>5, <1>6, <1>7, <1>9 DEF SenderHas

(* A job stores S, what the limit and the sessions unused for too long have *)
(* left of r.                                                              *)
StoreStep(p, r, S, unused) ==
  /\ Storable(r) /\ unused \in SUBSET DOMAIN RemoveOldSessions(r)
  /\ S = [s \in DOMAIN RemoveOldSessions(r) \ unused |-> RemoveOldSessions(r)[s]]
  /\ StoreSession(p, S)
  /\ evicted' = [evicted EXCEPT ![p] = @ \cup Outlived(r)]
  /\ stale' = [stale EXCEPT ![p] = @ \cup unused]

LEMMA StoreRecordStores ==
  ASSUME NEW p, NEW r, Storable(r), NEW justUsed, StoreRecord(p, r, justUsed)
  PROVE  \E S, unused : StoreStep(p, r, S, unused)
<1>1. PICK kept : kept = RemoveOldSessions(r)
  OBVIOUS
<1>2. PICK unused \in SUBSET ((DOMAIN kept \ OpenSessions(kept)) \ justUsed) :
        /\ StoreSession(p, [s \in DOMAIN kept \ unused |-> kept[s]])
        /\ evicted' = [evicted EXCEPT ![p] = @ \cup Outlived(r)]
        /\ stale' = [stale EXCEPT ![p] = @ \cup unused]
  BY <1>1 DEF StoreRecord
<1>3. PICK S : S = [s \in DOMAIN kept \ unused |-> kept[s]]
  OBVIOUS
<1>4. StoreSession(p, S)
  BY <1>2, <1>3
<1>5. StoreStep(p, r, S, unused)
  BY <1>1, <1>2, <1>3, <1>4 DEF StoreStep
<1>6. QED
  BY <1>5

LEMMA StoreTypes ==
  ASSUME TypeOK, NEW p \in Devices, NEW r, NEW S, NEW unused, StoreStep(p, r, S, unused)
  PROVE  /\ memory'[p].record = S /\ memory'[p].preKeys = memory[p].preKeys
         /\ memory' \in [Devices -> {memory'[q] : q \in Devices}]
         /\ job' \in [Devices -> {job'[q] : q \in Devices}]
         /\ job'[p] = {} /\ \A q \in Devices \ {p} : job'[q] = job[q] /\ memory'[q] = memory[q]
         /\ \A q \in Devices : StorageOK(memory'[q])
         /\ \A q \in Devices : memory'[q].preKeys \subseteq memory[q].preKeys
         /\ \A q \in Devices : job'[q] = {} \/
              \E record \in job'[q] : job'[q] = {record} /\ IsRecord(record)
         /\ evicted' \in [Devices -> SUBSET Session] /\ stale' \in [Devices -> SUBSET Session]
         /\ evicted'[p] = evicted[p] \cup Outlived(r) /\ stale'[p] = stale[p] \cup unused
<1>1. IsRecord(S) /\ Outlived(r) \subseteq Session /\ unused \subseteq Session
  BY Dropping DEF StoreStep
<1>2. /\ memory \in [Devices -> {memory[q] : q \in Devices}]
      /\ job \in [Devices -> {job[q] : q \in Devices}]
      /\ \A q \in Devices : StorageOK(memory[q])
      /\ \A q \in Devices : job[q] = {} \/ \E record \in job[q] : job[q] = {record} /\ IsRecord(record)
  BY DEF TypeOK
<1>3. evicted \in [Devices -> SUBSET Session] /\ stale \in [Devices -> SUBSET Session]
  <2>1. {evicted, stale, removed} \subseteq [Devices -> SUBSET Session]
    BY DEF TypeOK
  <2>2. QED
    BY <2>1
<1>4. /\ memory' = [memory EXCEPT ![p].record = S] /\ job' = [job EXCEPT ![p] = {}]
      /\ evicted' = [evicted EXCEPT ![p] = @ \cup Outlived(r)]
      /\ stale' = [stale EXCEPT ![p] = @ \cup unused]
  BY DEF StoreStep, StoreSession
<1>5. memory[p] = [record |-> memory[p].record, preKeys |-> memory[p].preKeys]
  BY Typing
<1>6. /\ memory'[p] = [record |-> S, preKeys |-> memory[p].preKeys]
      /\ \A q \in Devices \ {p} : memory'[q] = memory[q]
      /\ memory' \in [Devices -> {memory'[q] : q \in Devices}]
  <2>1. [memory[p] EXCEPT !.record = S] = [record |-> S, preKeys |-> memory[p].preKeys]
    BY <1>5
  <2>2. memory' = [memory EXCEPT ![p] = [memory[p] EXCEPT !.record = S]]
    BY <1>4
  <2>3. QED
    BY <2>1, <2>2, <1>2
<1>7. memory'[p].record = S /\ memory'[p].preKeys = memory[p].preKeys
  BY <1>6
<1>8. StorageOK(memory'[p])
  <2>1. PICK t : t = [record |-> S, preKeys |-> memory[p].preKeys]
    OBVIOUS
  <2>2. memory[p].preKeys \in SUBSET Session
    BY <1>2 DEF StorageOK
  <2>3. StorageOK(t)
    BY <2>1, <2>2, <1>1 DEF StorageOK
  <2>4. QED
    BY <2>1, <2>3, <1>6
<1>9. \A q \in Devices :
        StorageOK(memory'[q]) /\ memory'[q].preKeys \subseteq memory[q].preKeys
  BY <1>2, <1>6, <1>7, <1>8
<1>10. /\ job'[p] = {} /\ \A q \in Devices \ {p} : job'[q] = job[q]
       /\ job' \in [Devices -> {job'[q] : q \in Devices}]
  BY <1>2, <1>4
<1>11. /\ evicted' \in [Devices -> SUBSET Session] /\ stale' \in [Devices -> SUBSET Session]
       /\ evicted'[p] = evicted[p] \cup Outlived(r) /\ stale'[p] = stale[p] \cup unused
  BY <1>1, <1>3, <1>4
<1>12. QED
  BY <1>2, <1>6, <1>7, <1>9, <1>10, <1>11

LEMMA JobTypes ==
  ASSUME TypeOK, NEW p \in Devices, NEW r, NEW S, NEW unused, StoreStep(p, r, S, unused),
         network \subseteq network', network' \subseteq Message,
         UNCHANGED <<disk, durable, swallowed, removed, stranded, faults>>,
         returned' \in [Devices -> SUBSET network'], torn' \subseteq Session,
         removing' = removing \/ \E m \in network : removing' = [removing EXCEPT ![p] = {m}],
         inits' \in [Devices -> 0..MaxInits]
  PROVE  TypeOK'
<1>1. /\ memory' \in [Devices -> {memory'[q] : q \in Devices}]
      /\ job' \in [Devices -> {job'[q] : q \in Devices}]
      /\ job'[p] = {} /\ \A q \in Devices \ {p} : job'[q] = job[q]
      /\ \A q \in Devices : StorageOK(memory'[q])
      /\ \A q \in Devices : memory'[q].preKeys \subseteq memory[q].preKeys
      /\ \A q \in Devices : job'[q] = {} \/
           \E record \in job'[q] : job'[q] = {record} /\ IsRecord(record)
      /\ evicted' \in [Devices -> SUBSET Session] /\ stale' \in [Devices -> SUBSET Session]
  BY StoreTypes
<1>2. ASSUME NEW q \in Devices
      PROVE  StorageOK(disk'[q]) /\ memory'[q].preKeys \subseteq disk'[q].preKeys
  <2>1. StorageOK(disk[q]) /\ memory[q].preKeys \subseteq disk[q].preKeys
    BY DEF TypeOK
  <2>2. QED
    BY <2>1, <1>1
<1>3. /\ removed' \in [Devices -> SUBSET Session] /\ durable' \in [Devices -> SUBSET network']
      /\ stranded' \subseteq Session /\ swallowed' \subseteq network' /\ faults' \in 0..MaxFaults
      /\ disk' \in [Devices -> {disk'[q] : q \in Devices}]
  <2>1. /\ {evicted, stale, removed} \subseteq [Devices -> SUBSET Session]
        /\ {returned, durable} \subseteq [Devices -> SUBSET network]
    BY DEF TypeOK
  <2>2. removed' \in [Devices -> SUBSET Session] /\ durable' \in [Devices -> SUBSET network']
    BY <2>1
  <2>3. UNCHANGED disk /\ UNCHANGED swallowed /\ UNCHANGED stranded /\ UNCHANGED faults
    OBVIOUS
  <2>4. /\ stranded \subseteq Session /\ swallowed \subseteq network /\ faults \in 0..MaxFaults
        /\ disk \in [Devices -> {disk[q] : q \in Devices}]
    BY DEF TypeOK
  <2>5. disk' \in [Devices -> {disk'[q] : q \in Devices}]
    BY <2>3, <2>4
  <2>6. swallowed' \subseteq network'
    BY <2>3, <2>4
  <2>7. QED
    BY <2>2, <2>3, <2>4, <2>5, <2>6
<1>4. /\ removing' \in [Devices -> {removing'[q] : q \in Devices}]
      /\ \A q \in Devices :
           removing'[q] = {} \/ (job'[q] = {} /\ \E m \in network' : removing'[q] = {m})
  <2>1. /\ removing \in [Devices -> {removing[q] : q \in Devices}]
        /\ \A q \in Devices :
             removing[q] = {} \/ (job[q] = {} /\ \E m \in network : removing[q] = {m})
    BY DEF TypeOK
  <2>2. CASE removing' = removing
    <3>1. ASSUME NEW q \in Devices
          PROVE  removing'[q] = {} \/ (job'[q] = {} /\ \E m \in network' : removing'[q] = {m})
      BY <2>1, <2>2, <1>1
    <3>2. removing' \in [Devices -> {removing'[q] : q \in Devices}]
      BY <2>1, <2>2
    <3>3. QED
      BY <3>1, <3>2
  <2>3. CASE \E m \in network : removing' = [removing EXCEPT ![p] = {m}]
    <3>1. PICK m \in network : removing' = [removing EXCEPT ![p] = {m}]
      BY <2>3
    <3>2. /\ removing'[p] = {m} /\ \A q \in Devices \ {p} : removing'[q] = removing[q]
          /\ removing' \in [Devices -> {removing'[q] : q \in Devices}]
      BY <3>1, <2>1
    <3>3. ASSUME NEW q \in Devices \ {p}
          PROVE  removing'[q] = {} \/ (job'[q] = {} /\ \E n \in network' : removing'[q] = {n})
      <4>1. removing'[q] = removing[q] /\ job'[q] = job[q]
        BY <3>2, <1>1
      <4>2. removing[q] = {} \/ (job[q] = {} /\ \E n \in network : removing[q] = {n})
        BY <2>1
      <4>3. QED
        BY <4>1, <4>2
    <3>4. removing'[p] = {m} /\ job'[p] = {} /\ m \in network'
      BY <3>2, <1>1
    <3>5. QED
      BY <3>2, <3>3, <3>4
  <2>4. QED
    BY <2>2, <2>3
<1>5. QED
  BY <1>1, <1>2, <1>3, <1>4 DEF TypeOK

(* What a job has to see to in the record that it stores.                  *)
JobDone(p, r) ==
  /\ removed' = removed /\ stranded' = stranded
  /\ disk'[p] = disk[p] /\ durable'[p] = durable[p]
  /\ removing[p] = {}
  /\ RecordInv(p, r, Taken(p)', inits', swallowed', Again(p))
  /\ SentInv(p, r, network', torn')
  /\ PreKeyInv(p, r, memory[p].preKeys, returned'[p], Spared(p, r), Lost(p))
  /\ DOMAIN r \cap memory[p].preKeys \subseteq stranded \cup SessionsOf(removing'[p])
  /\ SessionsOf(removing'[p]) \subseteq DOMAIN r
  /\ \A m \in network' : m.from = p => m.session \in DOMAIN r \cup Lost(p)

LEMMA Stored ==
  ASSUME TypeOK, TypeOK', Inv, NEW p \in Devices, Frame(p),
         NEW r, NEW S, NEW unused, StoreStep(p, r, S, unused), JobDone(p, r)
  PROVE  DeviceInv(p)' /\ SenderHas(p)'
<1>1. /\ memory'[p].record = S /\ memory'[p].preKeys = memory[p].preKeys /\ job'[p] = {}
      /\ evicted'[p] = evicted[p] \cup Outlived(r) /\ stale'[p] = stale[p] \cup unused
  BY StoreTypes
<1>2. /\ DOMAIN S \subseteq DOMAIN r /\ \A s \in DOMAIN S : S[s] = r[s]
      /\ DOMAIN r \subseteq DOMAIN S \cup Outlived(r) \cup unused /\ Distinct(S)
  BY Dropping DEF StoreStep
<1>3. /\ RecordInv(p, r, Taken(p)', inits', swallowed', Again(p))
      /\ SentInv(p, r, network', torn')
      /\ PreKeyInv(p, r, memory[p].preKeys, returned'[p], Spared(p, r), Lost(p))
      /\ DOMAIN r \cap memory[p].preKeys \subseteq stranded' \cup SessionsOf(removing'[p])
      /\ SessionsOf(removing'[p]) \subseteq DOMAIN r
      /\ \A m \in network' : m.from = p => m.session \in DOMAIN r \cup Lost(p)
      /\ disk'[p] = disk[p] /\ durable'[p] = durable[p] /\ stranded' = stranded
  BY DEF JobDone
<1>4. /\ Dropped(p)' = Dropped(p) \cup Outlived(r) \cup unused
      /\ Dropped(p)' \subseteq Lost(p)' /\ Lost(p) \subseteq Lost(p)' /\ Again(p) \subseteq Again(p)'
      /\ Doubtful(p) \subseteq Doubtful(p)'
  BY <1>1 DEF Dropped, Lost, Again, Doubtful, JobDone, Frame
<1>5. DOMAIN r \subseteq DOMAIN S \cup Dropped(p)'
  BY <1>2, <1>4
<1>6. RecordInv(p, S, Taken(p)', inits', swallowed', Again(p)')
  <2>1. HasDecrypted(p, r, Taken(p)', swallowed', Again(p))
    BY <1>3 DEF RecordInv
  <2>2. HasDecrypted(p, S, Taken(p)', swallowed', Again(p)')
    BY <2>1, <1>2, <1>4 DEF HasDecrypted
  <2>3. QED
    BY <1>2, <1>3, <2>2 DEF RecordInv
<1>7. SentInv(p, S, network', torn')
  BY <1>2, <1>3 DEF SentInv
<1>8. Spared(p, r) \subseteq Spared(p, S)' /\ Spared(p, memory[p].record)' = Spared(p, S)'
  BY <1>1, <1>3, <1>4, <1>5 DEF Spared
<1>9. PreKeyInv(p, S, memory[p].preKeys, returned'[p], Spared(p, S)', Lost(p)')
  BY <1>3, <1>4, <1>5, <1>8 DEF PreKeyInv
<1>10. \A m \in network' : m.from = p => m.session \in DOMAIN S \cup Lost(p)'
  BY <1>3, <1>4, <1>5
<1>11. RecordsOf(p)' = {S}
  BY <1>1 DEF RecordsOf
<1>12. MemoryInv(p)'
  <2>1. PreKeyInv(p, memory[p].record, memory[p].preKeys, returned[p],
                  Spared(p, memory[p].record), Lost(p))'
    BY <1>1, <1>8, <1>9
  <2>2. SessionsOf(removing'[p]) \subseteq DOMAIN S \cup Lost(p)'
    BY <1>3, <1>4, <1>5
  <2>3. DOMAIN S \cap memory[p].preKeys \subseteq stranded' \cup SessionsOf(removing'[p])
    BY <1>2, <1>3
  <2>4. QED
    BY <2>1, <2>2, <2>3, <1>1, <1>6, <1>7, <1>11 DEF MemoryInv
<1>13. DiskInv(p)'
  <2>1. PICK d : d = disk[p].record
    OBVIOUS
  <2>2. DiskInv(p) /\ DOMAIN d \subseteq Session
    BY <2>1, Typing DEF Inv, DeviceInv, IsRecord
  <2>3. RecordInv(p, d, durable[p], inits', Doubtful(p)', Again(p)')
    BY <2>1, <2>2, <1>4, RecordKept DEF DiskInv
  <2>4. /\ SparedOnDisk(p, d) \subseteq SparedOnDisk(p, d)'
        /\ SparedOnDisk(p, disk[p].record)' = SparedOnDisk(p, d)'
        /\ SparedOnDisk(p, disk[p].record) = SparedOnDisk(p, d)
    BY <1>3, <1>4, <2>1 DEF SparedOnDisk
  <2>5. PreKeyInv(p, d, disk[p].preKeys, durable[p], SparedOnDisk(p, d)', Lost(p)')
    BY <2>1, <2>2, <2>4, <1>4, PreKeysKept DEF DiskInv
  <2>6. QED
    BY <2>1, <2>3, <2>4, <2>5, <1>3 DEF DiskInv
<1>14. QED
  BY <1>1, <1>10, <1>12, <1>13 DEF DeviceInv, SenderHas

LEMMA MessagesKept ==
  ASSUME TypeOK, TypeOK', Inv, NEW p \in Devices, Frame(p), network' = network
  PROVE  MessageInv'
<1>1. MessageInv /\ torn \subseteq torn'
  BY DEF Inv, Frame
<1>2. ASSUME NEW m \in network PROVE m.session[2] <= inits'[m.session[1]]
  <2>1. m \in Message
    BY Typing
  <2>2. m.session[1] \in Devices /\ m.session[2] \in 1..MaxInits
    BY <2>1 DEF Message, Session
  <2>3. inits[m.session[1]] \in 0..MaxInits /\ inits'[m.session[1]] \in 0..MaxInits
    BY <2>2 DEF TypeOK
  <2>4. m.session[2] <= inits[m.session[1]] /\ inits[m.session[1]] <= inits'[m.session[1]]
    BY <2>2, <1>1 DEF MessageInv, Frame
  <2>5. MaxInits \in Nat
    BY SessionsAssumption
  <2>6. QED
    BY <2>2, <2>3, <2>4, <2>5
<1>3. QED
  BY <1>1, <1>2 DEF MessageInv

LEMMA InitOutgoingStep ==
  ASSUME TypeOK, Inv, NEW p \in Devices, InitOutgoing(p)
  PROVE  TypeOK' /\ DeviceInv(p)' /\ SenderHas(p)' /\ MessageInv'
<1>1. /\ inits[p] + inits[Other(p)] < MaxInits /\ inits' = [inits EXCEPT ![p] = @ + 1]
      /\ UNCHANGED <<disk, removing, network, returned, durable, swallowed, stale, removed,
                     torn, stranded, faults>>
  BY DEF InitOutgoing
<1>2. PICK L \in LoadedRecord(p) :
        /\ StoreSession(p, RemoveOldSessions(SetSession(L, <<p, inits'[p]>>)))
        /\ evicted' = [evicted EXCEPT ![p] = @ \cup Outlived(SetSession(L, <<p, inits'[p]>>))]
  BY DEF InitOutgoing
<1>3. /\ inits[p] \in Nat /\ inits'[p] = inits[p] + 1 /\ inits'[p] \in 1..MaxInits
      /\ inits' \in [Devices -> 0..MaxInits]
  <2>1. inits[p] \in 0..MaxInits /\ inits[Other(p)] \in 0..MaxInits /\ MaxInits \in Nat
        /\ inits \in [Devices -> 0..MaxInits]
    BY TwoDevices, SessionsAssumption DEF TypeOK
  <2>2. inits'[p] = inits[p] + 1
    BY <1>1, <2>1
  <2>3. inits[p] + 1 \in 1..MaxInits
    BY <1>1, <2>1
  <2>4. QED
    BY <1>1, <2>1, <2>2, <2>3
<1>4. PICK s \in Session : s = <<p, inits'[p]>>
  BY <1>3 DEF Session
<1>5. PICK r : r = SetSession(L, s)
  OBVIOUS
<1>6. /\ IsRecord(L) /\ Entries(L)
      /\ RecordInv(p, L, returned[p], inits, swallowed, Again(p)) /\ removing[p] = {}
      /\ SentInv(p, L, network, torn)
      /\ PreKeyInv(p, L, memory[p].preKeys, returned[p], Spared(p, L), Lost(p))
      /\ DOMAIN L \cap memory[p].preKeys \subseteq stranded
      /\ \A m \in network : m.from = p => m.session \in DOMAIN L \cup Lost(p)
  BY Loaded
<1>7. /\ Entries(r) /\ DOMAIN r = DOMAIN L \cup {s} /\ r[s] = NewEntry
      /\ \A t \in DOMAIN L \ {s} : r[t].got = L[t].got /\ r[t].sent = L[t].sent
  BY <1>5, <1>6, Opening
<1>8. Storable(r)
  BY <1>6, <1>7, OneMore DEF Storable
<1>9. \E S, unused : StoreStep(p, r, S, unused)
  <2>1. PICK S : S = RemoveOldSessions(r)
    OBVIOUS
  <2>2. StoreSession(p, S) /\ evicted' = [evicted EXCEPT ![p] = @ \cup Outlived(r)]
    BY <2>1, <1>2, <1>4, <1>5
  <2>3. S = [t \in DOMAIN S \ {} |-> S[t]]
    <3>1. S \in [DOMAIN S -> Entry]
      BY <2>1, <1>8, Removing DEF Storable, Entries
    <3>2. QED
      BY <3>1
  <2>4. stale' = [stale EXCEPT ![p] = @ \cup {}]
    <3>1. {evicted, stale, removed} \subseteq [Devices -> SUBSET Session]
      BY DEF TypeOK
    <3>2. QED
      BY <3>1, <1>1
  <2>5. PICK none : none = {}
    OBVIOUS
  <2>6. none \in SUBSET DOMAIN RemoveOldSessions(r)
    BY <2>5
  <2>7. StoreStep(p, r, S, none)
    BY <2>1, <2>2, <2>3, <2>4, <2>5, <2>6, <1>8 DEF StoreStep
  <2>8. QED
    BY <2>7
<1>10. s[1] = p /\ s[2] = inits[p] + 1 /\ ~(s[2] <= inits[s[1]])
  BY <1>3, <1>4
<1>11. s \notin DOMAIN L /\ \A m \in network : m.session # s
  BY <1>6, <1>10 DEF RecordInv, Inv, MessageInv
<1>12. TypeOK'
  <2>1. {returned, durable} \subseteq [Devices -> SUBSET network]
    BY DEF TypeOK
  <2>2. returned' \in [Devices -> SUBSET network']
    BY <2>1, <1>1
  <2>3. network' \subseteq Message /\ torn' \subseteq Session
    BY <1>1 DEF TypeOK
  <2>4. QED
    BY <2>2, <2>3, <1>1, <1>3, <1>9, JobTypes
<1>13. DeviceInv(p)' /\ SenderHas(p)' /\ MessageInv'
  <2>1. Frame(p)
    BY StepFrame DEF Step
  <2>2. RecordInv(p, L, returned[p], inits', swallowed, Again(p))
    BY <1>6, <1>12, <2>1, RecordKept DEF Entries
  <2>3. RecordInv(p, r, returned[p], inits', swallowed, Again(p))
    <3>1. Distinct(r)
      BY <1>7 DEF Entries
    <3>2. \A t \in DOMAIN L : r[t].got = L[t].got
      BY <1>7, <1>11
    <3>3. r[s].got = {}
      BY <1>7 DEF NewEntry
    <3>4. s[2] <= inits'[s[1]]
      BY <1>3, <1>10
    <3>5. \A m \in returned[p] : m.session # s
      BY <1>11, Typing
    <3>6. HasDecrypted(p, r, returned[p], swallowed, Again(p))
      BY <2>2, <1>7, <3>2, <3>3, <3>5 DEF RecordInv, HasDecrypted
    <3>7. QED
      BY <2>2, <1>7, <1>10, <3>1, <3>2, <3>4, <3>6 DEF RecordInv
  <2>4. SentInv(p, r, network, torn)
    BY <1>6, <1>7, <1>11 DEF SentInv
  <2>5. PreKeyInv(p, r, memory[p].preKeys, returned[p], Spared(p, r), Lost(p))
    BY <1>6, <1>7 DEF PreKeyInv, Spared
  <2>6. s \notin memory[p].preKeys
    BY <1>6, <1>10, TwoDevices DEF PreKeyInv
  <2>7. Taken(p)' = returned[p] /\ SessionsOf(removing'[p]) = {}
    BY <1>1, <1>6 DEF Taken, SessionsOf
  <2>8. JobDone(p, r)
    BY <1>1, <1>6, <1>7, <2>3, <2>4, <2>5, <2>6, <2>7 DEF JobDone
  <2>9. QED
    BY <1>1, <1>9, <1>12, <2>1, <2>8, Stored, MessagesKept
<1>14. QED
  BY <1>12, <1>13

LEMMA CloseOpenSessionStep ==
  ASSUME TypeOK, Inv, NEW p \in Devices, CloseOpenSession(p)
  PROVE  TypeOK' /\ DeviceInv(p)' /\ SenderHas(p)' /\ MessageInv'
<1>1. UNCHANGED <<disk, removing, network, inits, returned, durable, swallowed, removed, torn,
                stranded, faults>>
  BY DEF CloseOpenSession
<1>2. PICK L \in LoadedRecord(p) : StoreRecord(p, CloseSessions(L), {})
  BY DEF CloseOpenSession
<1>3. PICK r : r = CloseSessions(L)
  OBVIOUS
<1>4. /\ IsRecord(L) /\ Entries(L)
      /\ RecordInv(p, L, returned[p], inits, swallowed, Again(p)) /\ removing[p] = {}
      /\ SentInv(p, L, network, torn)
      /\ PreKeyInv(p, L, memory[p].preKeys, returned[p], Spared(p, L), Lost(p))
      /\ DOMAIN L \cap memory[p].preKeys \subseteq stranded
      /\ \A m \in network : m.from = p => m.session \in DOMAIN L \cup Lost(p)
  BY Loaded
<1>5. /\ Entries(r) /\ DOMAIN r = DOMAIN L
      /\ \A s \in DOMAIN L : r[s].got = L[s].got /\ r[s].sent = L[s].sent
  BY <1>3, <1>4, Closing
<1>6. Storable(r)
  <2>1. Cardinality(DOMAIN L) <= MaxSessions /\ Cardinality(DOMAIN L) \in Nat
    BY <1>4, SessionsFinite DEF IsRecord
  <2>2. MaxSessions \in Nat
    BY SessionsAssumption
  <2>3. QED
    BY <2>1, <2>2, <1>5 DEF Storable
<1>7. \E S, unused : StoreStep(p, r, S, unused)
  BY <1>2, <1>3, <1>6, StoreRecordStores
<1>8. TypeOK'
  <2>1. {returned, durable} \subseteq [Devices -> SUBSET network]
    BY DEF TypeOK
  <2>2. returned' \in [Devices -> SUBSET network']
    BY <2>1, <1>1
  <2>3. network' \subseteq Message /\ torn' \subseteq Session /\ inits' \in [Devices -> 0..MaxInits]
    BY <1>1 DEF TypeOK
  <2>4. QED
    BY <2>2, <2>3, <1>1, <1>7, JobTypes
<1>9. Frame(p)
  BY StepFrame DEF Step
<1>10. RecordInv(p, r, returned[p], inits, swallowed, Again(p))
  <2>1. HasDecrypted(p, r, returned[p], swallowed, Again(p))
    BY <1>4, <1>5 DEF RecordInv, HasDecrypted
  <2>2. QED
    BY <2>1, <1>4, <1>5 DEF RecordInv, Entries
<1>11. /\ SentInv(p, r, network, torn)
       /\ PreKeyInv(p, r, memory[p].preKeys, returned[p], Spared(p, r), Lost(p))
  BY <1>4, <1>5 DEF SentInv, PreKeyInv, Spared
<1>12. Taken(p)' = returned[p] /\ SessionsOf(removing'[p]) = {}
  BY <1>1, <1>4 DEF Taken, SessionsOf
<1>13. JobDone(p, r)
  BY <1>1, <1>4, <1>5, <1>10, <1>11, <1>12 DEF JobDone
<1>14. QED
  BY <1>1, <1>7, <1>8, <1>9, <1>13, Stored, MessagesKept

(* What a record says of the messages a device sends next in a session.     *)
LEMMA Sending ==
  ASSUME TypeOK, Inv, NEW p \in Devices, NEW L \in LoadedRecord(p), NEW s \in DOMAIN L,
         L[s].sent < MaxSent,
         NEW m, m = [session |-> s, from |-> p, number |-> L[s].sent,
                     prekey |-> s[1] = p /\ L[s].got = {}]
  PROVE  /\ m \in Message /\ m.session[2] <= inits[m.session[1]]
         /\ m.prekey => m.session[1] = m.from
         /\ ~m.prekey => \E n \in network : n.session = m.session /\ n.from # m.from
         /\ \A n \in network :
              n.session = s /\ n.from = p /\ n.number = m.number /\ s \notin torn => n = m
<1>1. /\ Entries(L) /\ SentInv(p, L, network, torn)
      /\ RecordInv(p, L, returned[p], inits, swallowed, Again(p))
  BY Loaded
<1>2. s \in Session /\ L[s].sent \in 0..MaxSent /\ MaxSent \in Nat
  BY <1>1, EntryFields, SessionsAssumption DEF Entries
<1>3. /\ m.session = s /\ m.from = p /\ m.number = L[s].sent
      /\ m.prekey = (s[1] = p /\ L[s].got = {})
  OBVIOUS
<1>4. L[s].sent \in 0..MaxSent - 1
  BY <1>2
<1>5. m \in Message
  BY <1>2, <1>4 DEF Message
<1>6. m.session[2] <= inits[m.session[1]]
  BY <1>1, <1>3 DEF RecordInv
<1>7. ASSUME ~m.prekey PROVE \E n \in network : n.session = s /\ n.from # p
  <2>1. L[s].got # {}
    BY <1>1, <1>3, <1>7 DEF RecordInv
  <2>2. PICK k \in L[s].got : TRUE
    BY <2>1
  <2>3. PICK n \in returned[p] \cup swallowed : n.session = s /\ n.from # p
    BY <2>2, <1>1 DEF RecordInv, HasDecrypted
  <2>4. n \in network
    BY Typing
  <2>5. QED
    BY <2>3, <2>4
<1>8. ASSUME NEW n \in network, n.session = s, n.from = p, n.number = L[s].sent, s \notin torn
      PROVE  n = m
  <2>1. s[1] # p
    <3>1. SUFFICES ASSUME s[1] = p PROVE FALSE
      OBVIOUS
    <3>2. n.number < L[s].sent
      BY <1>1, <1>8, <3>1 DEF SentInv
    <3>3. QED
      BY <3>2, <1>8, <1>2
  <2>2. n \in Message
    BY Typing
  <2>3. n.prekey = FALSE
    <3>1. n.prekey \in BOOLEAN
      BY <2>2 DEF Message
    <3>2. n.prekey => n.session[1] = n.from
      BY DEF Inv, MessageInv
    <3>3. QED
      BY <3>1, <3>2, <2>1, <1>8
  <2>4. m.prekey = FALSE
    BY <2>1, <1>3
  <2>5. QED
    BY <2>2, <2>3, <2>4, <1>3, <1>5, <1>8 DEF Message
<1>9. QED
  BY <1>3, <1>5, <1>6, <1>7, <1>8

LEMMA EncryptStep ==
  ASSUME TypeOK, Inv, NEW p \in Devices, Encrypt(p)
  PROVE  TypeOK' /\ DeviceInv(p)' /\ SenderHas(p)' /\ MessageInv'
<1>1. UNCHANGED <<disk, removing, inits, returned, durable, swallowed, removed, torn,
                stranded, faults>>
  BY DEF Encrypt
<1>2. PICK L \in LoadedRecord(p) : \E s \in OpenSessions(L) :
        /\ L[s].sent < MaxSent
        /\ network' = network \cup
             {[session |-> s, from |-> p, number |-> L[s].sent,
               prekey |-> s[1] = p /\ L[s].got = {}]}
        /\ StoreRecord(p, [L EXCEPT ![s].sent = @ + 1], {})
  BY DEF Encrypt
<1>3. PICK s \in OpenSessions(L) :
        /\ L[s].sent < MaxSent
        /\ network' = network \cup
             {[session |-> s, from |-> p, number |-> L[s].sent,
               prekey |-> s[1] = p /\ L[s].got = {}]}
        /\ StoreRecord(p, [L EXCEPT ![s].sent = @ + 1], {})
  BY <1>2
<1>4. PICK m : m = [session |-> s, from |-> p, number |-> L[s].sent,
                    prekey |-> s[1] = p /\ L[s].got = {}]
  OBVIOUS
<1>5. PICK r : r = [L EXCEPT ![s].sent = @ + 1]
  OBVIOUS
<1>6. /\ IsRecord(L) /\ Entries(L)
      /\ RecordInv(p, L, returned[p], inits, swallowed, Again(p)) /\ removing[p] = {}
      /\ SentInv(p, L, network, torn)
      /\ PreKeyInv(p, L, memory[p].preKeys, returned[p], Spared(p, L), Lost(p))
      /\ DOMAIN L \cap memory[p].preKeys \subseteq stranded
      /\ \A n \in network : n.from = p => n.session \in DOMAIN L \cup Lost(p)
  BY Loaded
<1>7. s \in DOMAIN L
  BY DEF OpenSessions
<1>8. /\ m \in Message /\ m.session[2] <= inits[m.session[1]]
      /\ m.prekey => m.session[1] = m.from
      /\ ~m.prekey => \E n \in network : n.session = m.session /\ n.from # m.from
      /\ \A n \in network :
           n.session = s /\ n.from = p /\ n.number = m.number /\ s \notin torn => n = m
      /\ m.session = s /\ m.from = p /\ m.number = L[s].sent
  BY <1>3, <1>4, <1>7, Sending
<1>9. network' = network \cup {m}
  BY <1>3, <1>4
<1>10. /\ Entries(r) /\ DOMAIN r = DOMAIN L
       /\ \A t \in DOMAIN L : r[t].got = L[t].got
       /\ \A t \in DOMAIN L : r[t].sent = IF t = s THEN L[t].sent + 1 ELSE L[t].sent
  <2>1. L[s] \in Entry /\ L[s].sent \in 0..MaxSent /\ MaxSent \in Nat
    BY <1>6, <1>7, EntryFields, SessionsAssumption
  <2>2. L[s].sent + 1 \in 0..MaxSent
    BY <2>1, <1>3
  <2>3. [L[s] EXCEPT !.sent = @ + 1] \in Entry
    BY <2>1, <2>2 DEF Entry
  <2>4. L \in [DOMAIN L -> Entry] /\ r = [L EXCEPT ![s] = [L[s] EXCEPT !.sent = @ + 1]]
    BY <1>5, <1>6 DEF Entries
  <2>5. DOMAIN r = DOMAIN L /\ r \in [DOMAIN L -> Entry]
    BY <2>3, <2>4, <1>7
  <2>6. \A t \in DOMAIN L : r[t] = IF t = s THEN [L[s] EXCEPT !.sent = @ + 1] ELSE L[t]
    BY <2>4, <1>7
  <2>7. \A t \in DOMAIN L : r[t].got = L[t].got /\ r[t].closed = L[t].closed
    BY <2>6, <2>1 DEF Entry
  <2>8. r[s].sent = L[s].sent + 1
    BY <2>6, <2>1, <1>7 DEF Entry
  <2>9. QED
    BY <2>5, <2>6, <2>7, <2>8, <1>6, <1>7 DEF Entries, Distinct
<1>11. Storable(r)
  <2>1. Cardinality(DOMAIN L) <= MaxSessions /\ Cardinality(DOMAIN L) \in Nat
    BY <1>6, SessionsFinite DEF IsRecord
  <2>2. MaxSessions \in Nat
    BY SessionsAssumption
  <2>3. QED
    BY <2>1, <2>2, <1>10 DEF Storable
<1>12. \E S, unused : StoreStep(p, r, S, unused)
  BY <1>3, <1>5, <1>11, StoreRecordStores
<1>13. TypeOK'
  <2>1. network' \subseteq Message
    BY <1>8, <1>9, Typing
  <2>2. {returned, durable} \subseteq [Devices -> SUBSET network]
    BY DEF TypeOK
  <2>3. returned' \in [Devices -> SUBSET network']
    BY <2>2, <1>1, <1>9
  <2>4. torn' \subseteq Session /\ inits' \in [Devices -> 0..MaxInits] /\ network \subseteq network'
    BY <1>1, <1>9 DEF TypeOK
  <2>5. QED
    BY <2>1, <2>3, <2>4, <1>1, <1>12, JobTypes
<1>14. Frame(p)
  BY StepFrame DEF Step
<1>15. RecordInv(p, r, returned[p], inits, swallowed, Again(p))
  <2>1. HasDecrypted(p, r, returned[p], swallowed, Again(p))
    BY <1>6, <1>10 DEF RecordInv, HasDecrypted
  <2>2. QED
    BY <2>1, <1>6, <1>10 DEF RecordInv, Entries
<1>16. SentInv(p, r, network', torn)
  <2>1. ASSUME NEW t \in DOMAIN r \ torn, NEW n \in network',
               t[1] = p, n.session = t, n.from = p
        PROVE  n.number < r[t].sent
    <3>1. t \in DOMAIN L /\ L[t].sent \in 0..MaxSent /\ r[t].sent >= L[t].sent
      BY <2>1, <1>6, <1>10, EntryFields
    <3>2. CASE n = m
      BY <3>1, <3>2, <2>1, <1>8, <1>10
    <3>3. CASE n \in network
      <4>1. n.number < L[t].sent
        BY <3>1, <3>3, <2>1, <1>6 DEF SentInv
      <4>2. n.number \in 0..MaxSent - 1
        BY <3>3, Typing DEF Message
      <4>3. r[t].sent \in 0..MaxSent
        BY <2>1, <1>10, EntryFields
      <4>4. QED
        BY <3>1, <4>1, <4>2, <4>3
    <3>4. QED
      BY <3>2, <3>3, <1>9
  <2>2. QED
    BY <2>1 DEF SentInv
<1>17. /\ PreKeyInv(p, r, memory[p].preKeys, returned[p], Spared(p, r), Lost(p))
       /\ Taken(p)' = returned[p] /\ SessionsOf(removing'[p]) = {}
  BY <1>1, <1>6, <1>10 DEF PreKeyInv, Spared, Taken, SessionsOf
<1>18. \A n \in network' : n.from = p => n.session \in DOMAIN r \cup Lost(p)
  BY <1>6, <1>7, <1>8, <1>9, <1>10
<1>19. JobDone(p, r)
  BY <1>1, <1>6, <1>10, <1>15, <1>16, <1>17, <1>18 DEF JobDone
<1>20. DeviceInv(p)' /\ SenderHas(p)'
  BY <1>12, <1>13, <1>14, <1>19, Stored
<1>21. MessageInv'
  <2>1. MessageInv
    BY DEF Inv
  <2>2. QED
    BY <2>1, <1>1, <1>8, <1>9 DEF MessageInv
<1>22. QED
  BY <1>13, <1>20, <1>21

LEMMA Decrypting ==
  ASSUME NEW r, Entries(r), NEW m \in Message, m.session \in DOMAIN r
  PROVE  /\ Entries(Decrypted(r, m)) /\ DOMAIN Decrypted(r, m) = DOMAIN r
         /\ \A s \in DOMAIN r :
              /\ Decrypted(r, m)[s].sent = r[s].sent
              /\ Decrypted(r, m)[s].got =
                   IF s = m.session THEN r[s].got \cup {m.number} ELSE r[s].got
<1>1. PICK d : d = Decrypted(r, m)
  OBVIOUS
<1>2. PICK x : x = m.session
  OBVIOUS
<1>3. PICK e : e = [r[x] EXCEPT !.got = @ \cup {m.number}]
  OBVIOUS
<1>4. x \in DOMAIN r /\ r[x] \in Entry /\ r \in [DOMAIN r -> Entry]
  BY <1>2, EntryFields DEF Entries
<1>5. m.number \in 0..MaxSent - 1
  BY DEF Message
<1>6. /\ e \in Entry /\ e.closed = r[x].closed /\ e.sent = r[x].sent
      /\ e.got = r[x].got \cup {m.number}
  BY <1>3, <1>4, <1>5 DEF Entry
<1>7. d = [r EXCEPT ![x] = e]
  BY <1>1, <1>2, <1>3 DEF Decrypted
<1>8. /\ DOMAIN d = DOMAIN r /\ d \in [DOMAIN r -> Entry]
      /\ \A s \in DOMAIN r : d[s] = IF s = x THEN e ELSE r[s]
  BY <1>4, <1>6, <1>7
<1>9. \A s \in DOMAIN r : d[s].closed = r[s].closed /\ d[s].sent = r[s].sent
  BY <1>6, <1>8
<1>10. Entries(d)
  BY <1>8, <1>9 DEF Entries, Distinct
<1>11. QED
  BY <1>1, <1>2, <1>6, <1>8, <1>9, <1>10

LEMMA DecryptStep ==
  ASSUME TypeOK, Inv, NEW p \in Devices, Decrypt(p)
  PROVE  TypeOK' /\ DeviceInv(p)' /\ SenderHas(p)' /\ MessageInv'
<1>1. UNCHANGED <<disk, removing, network, inits, durable, swallowed, removed, torn,
                stranded, faults>>
  BY DEF Decrypt
<1>2. PICK L \in LoadedRecord(p) : \E m \in network :
        /\ m.from # p /\ Decrypts(L, m)
        /\ StoreRecord(p, Decrypted(L, m), IF m.prekey THEN {} ELSE {m.session})
        /\ returned' = [returned EXCEPT ![p] = @ \cup {m}]
  BY DEF Decrypt
<1>3. PICK m \in network :
        /\ m.from # p /\ Decrypts(L, m)
        /\ StoreRecord(p, Decrypted(L, m), IF m.prekey THEN {} ELSE {m.session})
        /\ returned' = [returned EXCEPT ![p] = @ \cup {m}]
  BY <1>2
<1>4. PICK r : r = Decrypted(L, m)
  OBVIOUS
<1>5. /\ IsRecord(L) /\ Entries(L)
      /\ RecordInv(p, L, returned[p], inits, swallowed, Again(p)) /\ removing[p] = {}
      /\ SentInv(p, L, network, torn)
      /\ PreKeyInv(p, L, memory[p].preKeys, returned[p], Spared(p, L), Lost(p))
      /\ DOMAIN L \cap memory[p].preKeys \subseteq stranded
      /\ \A n \in network : n.from = p => n.session \in DOMAIN L \cup Lost(p)
  BY Loaded
<1>6. m \in Message /\ m.session \in DOMAIN L
  BY <1>3, Typing DEF Decrypts
<1>7. /\ Entries(r) /\ DOMAIN r = DOMAIN L
      /\ \A s \in DOMAIN L :
           /\ r[s].sent = L[s].sent
           /\ r[s].got = IF s = m.session THEN L[s].got \cup {m.number} ELSE L[s].got
  BY <1>4, <1>5, <1>6, Decrypting
<1>8. Storable(r)
  <2>1. Cardinality(DOMAIN L) <= MaxSessions /\ Cardinality(DOMAIN L) \in Nat
    BY <1>5, SessionsFinite DEF IsRecord
  <2>2. MaxSessions \in Nat
    BY SessionsAssumption
  <2>3. QED
    BY <2>1, <2>2, <1>7 DEF Storable
<1>9. \E S, unused : StoreStep(p, r, S, unused)
  BY <1>3, <1>4, <1>8, StoreRecordStores
<1>10. returned' \in [Devices -> SUBSET network] /\ returned'[p] = returned[p] \cup {m}
  <2>1. {returned, durable} \subseteq [Devices -> SUBSET network]
    BY DEF TypeOK
  <2>2. QED
    BY <2>1, <1>3
<1>11. TypeOK'
  <2>1. returned' \in [Devices -> SUBSET network'] /\ network \subseteq network'
    BY <1>1, <1>10
  <2>2. network' \subseteq Message /\ torn' \subseteq Session /\ inits' \in [Devices -> 0..MaxInits]
    BY <1>1 DEF TypeOK
  <2>3. QED
    BY <2>1, <2>2, <1>1, <1>9, JobTypes
<1>12. Frame(p)
  BY StepFrame DEF Step
<1>13. RecordInv(p, r, returned'[p], inits, swallowed, Again(p))
  <2>1. HasDecrypted(p, r, returned'[p], swallowed, Again(p))
    <3>1. HasDecrypted(p, L, returned[p], swallowed, Again(p))
      BY <1>5 DEF RecordInv
    <3>2. ASSUME NEW n \in returned'[p], n.session \in DOMAIN r \ Again(p)
          PROVE  n.number \in r[n.session].got
      BY <3>1, <3>2, <1>7, <1>10 DEF HasDecrypted
    <3>3. ASSUME NEW s \in DOMAIN r, NEW k \in r[s].got
          PROVE  \E n \in returned'[p] \cup swallowed :
                   n.session = s /\ n.from # p /\ n.number = k
      <4>1. CASE k \in L[s].got
        BY <4>1, <3>1, <1>7, <1>10 DEF HasDecrypted
      <4>2. CASE k \notin L[s].got
        <5>1. s = m.session /\ k = m.number
          BY <4>2, <3>3, <1>7
        <5>2. QED
          BY <5>1, <1>3, <1>10
      <4>3. QED
        BY <4>1, <4>2
    <3>4. QED
      BY <3>2, <3>3 DEF HasDecrypted
  <2>2. \A s \in DOMAIN r : s[1] # p => r[s].got # {}
    BY <1>5, <1>7 DEF RecordInv
  <2>3. QED
    BY <2>1, <2>2, <1>5, <1>7 DEF RecordInv, Entries
<1>14. SentInv(p, r, network, torn)
  BY <1>5, <1>7 DEF SentInv
<1>15. PreKeyInv(p, r, memory[p].preKeys, returned'[p], Spared(p, r), Lost(p))
  <2>1. m.session \in memory[p].preKeys => m.session \in Spared(p, r)
    BY <1>5, <1>6, <1>7 DEF Spared
  <2>2. Spared(p, L) = Spared(p, r)
    BY <1>7 DEF Spared
  <2>3. QED
    BY <2>1, <2>2, <1>5, <1>7, <1>10 DEF PreKeyInv
<1>16. Taken(p)' = returned'[p] /\ SessionsOf(removing'[p]) = {}
  BY <1>1, <1>5 DEF Taken, SessionsOf
<1>17. JobDone(p, r)
  BY <1>1, <1>5, <1>7, <1>13, <1>14, <1>15, <1>16 DEF JobDone
<1>18. QED
  BY <1>1, <1>9, <1>11, <1>12, <1>17, Stored, MessagesKept

LEMMA EstablishStep ==
  ASSUME TypeOK, Inv, NEW p \in Devices, Establish(p)
  PROVE  TypeOK' /\ DeviceInv(p)' /\ SenderHas(p)' /\ MessageInv'
<1>1. UNCHANGED <<disk, network, inits, returned, durable, swallowed, removed, stranded, faults>>
  BY DEF Establish
<1>2. PICK L \in LoadedRecord(p) : \E m \in network :
        /\ m.from # p /\ m.prekey
        /\ m.session \notin DOMAIN L /\ m.session \in memory[p].preKeys
        /\ StoreRecord(p, Decrypted(SetSession(L, m.session), m), {})
        /\ removing' = [removing EXCEPT ![p] = {m}]
        /\ torn' = torn \cup {n.session : n \in {n \in network : n.from = p /\ n.session = m.session}}
  BY DEF Establish
<1>3. PICK m \in network :
        /\ m.from # p /\ m.prekey
        /\ m.session \notin DOMAIN L /\ m.session \in memory[p].preKeys
        /\ StoreRecord(p, Decrypted(SetSession(L, m.session), m), {})
        /\ removing' = [removing EXCEPT ![p] = {m}]
        /\ torn' = torn \cup {n.session : n \in {n \in network : n.from = p /\ n.session = m.session}}
  BY <1>2
<1>4. PICK s : s = m.session
  OBVIOUS
<1>5. PICK o : o = SetSession(L, s)
  OBVIOUS
<1>6. PICK r : r = Decrypted(o, m)
  OBVIOUS
<1>7. removing' \in [Devices -> {removing'[q] : q \in Devices}] /\ removing'[p] = {m}
  BY <1>3 DEF TypeOK
<1>8. /\ IsRecord(L) /\ Entries(L)
      /\ RecordInv(p, L, returned[p], inits, swallowed, Again(p)) /\ removing[p] = {}
      /\ SentInv(p, L, network, torn)
      /\ PreKeyInv(p, L, memory[p].preKeys, returned[p], Spared(p, L), Lost(p))
      /\ DOMAIN L \cap memory[p].preKeys \subseteq stranded
      /\ \A n \in returned[p] : n.session \in memory[p].preKeys \ DOMAIN L => n.session \in Again(p)
      /\ \A n \in network : n.from = p => n.session \in DOMAIN L \cup Lost(p)
  BY Loaded
<1>9. m \in Message /\ s \in Session
  BY <1>4, Typing DEF Message
<1>10. /\ Entries(o) /\ DOMAIN o = DOMAIN L \cup {s} /\ o[s] = NewEntry
       /\ \A t \in DOMAIN L \ {s} : o[t].got = L[t].got /\ o[t].sent = L[t].sent
  BY <1>5, <1>8, <1>9, Opening
<1>11. /\ Entries(r) /\ DOMAIN r = DOMAIN L \cup {s} /\ r[s].got = {m.number}
       /\ \A t \in DOMAIN L : r[t].got = L[t].got /\ r[t].sent = L[t].sent
  <2>1. /\ Entries(r) /\ DOMAIN r = DOMAIN o
        /\ \A t \in DOMAIN o :
             /\ r[t].sent = o[t].sent
             /\ r[t].got = IF t = s THEN o[t].got \cup {m.number} ELSE o[t].got
    <3>1. m.session \in DOMAIN o
      BY <1>4, <1>10
    <3>2. /\ Entries(Decrypted(o, m)) /\ DOMAIN Decrypted(o, m) = DOMAIN o
          /\ \A t \in DOMAIN o :
               /\ Decrypted(o, m)[t].sent = o[t].sent
               /\ Decrypted(o, m)[t].got =
                    IF t = m.session THEN o[t].got \cup {m.number} ELSE o[t].got
      <4>1. m \in Message /\ Entries(o)
        BY <1>9, <1>10
      <4>2. QED
        BY <3>1, <4>1, Decrypting
    <3>3. QED
      BY <3>2, <1>4, <1>6
  <2>2. o[s].got = {} /\ s \notin DOMAIN L
    BY <1>3, <1>4, <1>10 DEF NewEntry
  <2>3. r[s].got = {m.number}
    BY <2>1, <2>2, <1>10
  <2>4. \A t \in DOMAIN L : r[t].got = L[t].got /\ r[t].sent = L[t].sent
    BY <2>1, <2>2, <1>10
  <2>5. QED
    BY <2>1, <2>3, <2>4, <1>10
<1>12. Storable(r)
  BY <1>8, <1>11, OneMore DEF Storable
<1>13. \E S, unused : StoreStep(p, r, S, unused)
  <2>1. StoreRecord(p, r, {})
    BY <1>3, <1>4, <1>5, <1>6
  <2>2. QED
    BY <2>1, <1>12, StoreRecordStores
<1>14. TypeOK'
  <2>1. torn' \subseteq Session
    <3>1. \A n \in network : n.session \in Session
      BY Typing DEF Message
    <3>2. torn \subseteq Session
      BY DEF TypeOK
    <3>3. QED
      BY <3>1, <3>2, <1>3
  <2>2. network' \subseteq Message /\ inits' \in [Devices -> 0..MaxInits]
    BY <1>1 DEF TypeOK
  <2>3. returned' \in [Devices -> SUBSET network']
    <3>1. {returned, durable} \subseteq [Devices -> SUBSET network]
      BY DEF TypeOK
    <3>2. QED
      BY <3>1, <1>1
  <2>4. \E n \in network : removing' = [removing EXCEPT ![p] = {n}]
    BY <1>3
  <2>5. QED
    BY <2>1, <2>2, <2>3, <2>4, <1>1, <1>13, JobTypes
<1>15. Frame(p) /\ torn \subseteq torn'
  BY StepFrame DEF Step, Frame
<1>16. s \in memory[p].preKeys /\ s[1] # p /\ s \notin DOMAIN L
       /\ \A n \in returned[p] : n.session = s => s \in Again(p)
  <2>1. s \in {Other(p)} \X (1..MaxInits)
    BY <1>3, <1>4, <1>8 DEF PreKeyInv
  <2>2. QED
    BY <2>1, <1>3, <1>4, <1>8, TwoDevices
<1>17. Taken(p)' = returned[p] \cup {m} /\ SessionsOf(removing'[p]) = {s}
  BY <1>1, <1>4, <1>7 DEF Taken, SessionsOf
<1>18. RecordInv(p, r, Taken(p)', inits, swallowed, Again(p))
  <2>1. HasDecrypted(p, L, returned[p], swallowed, Again(p))
    BY <1>8 DEF RecordInv
  <2>2. ASSUME NEW n \in Taken(p)', n.session \in DOMAIN r \ Again(p)
        PROVE  n.number \in r[n.session].got
    <3>1. CASE n = m
      BY <3>1, <1>4, <1>11
    <3>2. CASE n \in returned[p]
      <4>1. n.session \in DOMAIN L
        BY <3>2, <2>2, <1>11, <1>16
      <4>2. QED
        BY <3>2, <4>1, <2>1, <2>2, <1>11 DEF HasDecrypted
    <3>3. QED
      BY <3>1, <3>2, <1>17
  <2>3. ASSUME NEW t \in DOMAIN r, NEW k \in r[t].got
        PROVE  \E n \in Taken(p)' \cup swallowed :
                 n.session = t /\ n.from # p /\ n.number = k
    <3>1. CASE t = s
      BY <3>1, <2>3, <1>3, <1>4, <1>11, <1>17
    <3>2. CASE t \in DOMAIN L
      BY <3>2, <2>1, <2>3, <1>11, <1>17 DEF HasDecrypted
    <3>3. QED
      BY <3>1, <3>2, <1>11
  <2>4. HasDecrypted(p, r, Taken(p)', swallowed, Again(p))
    BY <2>2, <2>3 DEF HasDecrypted
  <2>5. s[2] <= inits[s[1]]
    BY <1>4 DEF Inv, MessageInv
  <2>6. ASSUME NEW t \in DOMAIN r
        PROVE  t[2] <= inits[t[1]] /\ (t[1] # p => r[t].got # {})
    BY <2>5, <1>8, <1>11 DEF RecordInv
  <2>7. QED
    BY <2>4, <2>6, <1>11 DEF RecordInv, Entries
<1>19. SentInv(p, r, network, torn')
  BY <1>8, <1>11, <1>15, <1>16 DEF SentInv
<1>20. PreKeyInv(p, r, memory[p].preKeys, returned[p], Spared(p, r), Lost(p))
  BY <1>8, <1>11 DEF PreKeyInv, Spared
<1>21. JobDone(p, r)
  BY <1>1, <1>8, <1>11, <1>17, <1>18, <1>19, <1>20 DEF JobDone
<1>22. QED
  BY <1>1, <1>13, <1>14, <1>15, <1>21, Stored, MessagesKept

(* The end of a decrypt: its message is returned or swallowed, and has no   *)
(* prekey any more.                                                        *)
LEMMA RemovePreKeyStep ==
  ASSUME TypeOK, Inv, NEW p \in Devices, RemovePreKey(p)
  PROVE  TypeOK' /\ DeviceInv(p)' /\ SenderHas(p)' /\ MessageInv'
<1>1. /\ removing' = [removing EXCEPT ![p] = {}]
      /\ UNCHANGED <<job, network, inits, evicted, stale, removed, torn, stranded>>
  BY DEF RemovePreKey
<1>2. PICK m \in removing[p] :
       /\ memory' = [memory EXCEPT ![p].preKeys = @ \ {m.session}]
       /\ \/ /\ disk' = [disk EXCEPT ![p] = memory'[p]]
             /\ returned' = [returned EXCEPT ![p] = @ \cup {m}]
             /\ durable' = [durable EXCEPT ![p] = returned'[p]]
             /\ UNCHANGED <<swallowed, faults>>
          \/ /\ faults < MaxFaults
             /\ faults' = faults + 1
             /\ swallowed' = swallowed \cup {m}
             /\ UNCHANGED <<disk, returned, durable>>
  BY DEF RemovePreKey
<1>3. PICK r : r = memory[p].record
  OBVIOUS
<1>4. PICK keys : keys = memory[p].preKeys \ {m.session}
  OBVIOUS
<1>5. /\ memory \in [Devices -> {memory[q] : q \in Devices}]
      /\ disk \in [Devices -> {disk[q] : q \in Devices}]
      /\ removing \in [Devices -> {removing[q] : q \in Devices}]
      /\ {returned, durable} \subseteq [Devices -> SUBSET network]
  BY DEF TypeOK
<1>6. /\ removing[p] = {m} /\ m \in network /\ job[p] = {} /\ RecordsOf(p) = {r}
      /\ IsRecord(r) /\ swallowed \subseteq network
  <2>1. \E n \in network : removing[p] = {n}
    BY <1>2 DEF TypeOK
  <2>2. QED
    BY <2>1, <1>2, <1>3, Typing DEF RecordsOf
<1>7. /\ memory'[p] = [record |-> r, preKeys |-> keys]
      /\ \A q \in Devices \ {p} : memory'[q] = memory[q]
      /\ memory' \in [Devices -> {memory'[q] : q \in Devices}]
  <2>1. memory' = [memory EXCEPT ![p] = [memory[p] EXCEPT !.preKeys = keys]]
    BY <1>2, <1>4
  <2>2. [memory[p] EXCEPT !.preKeys = keys] = [record |-> r, preKeys |-> keys]
    <3>1. memory[p] = [record |-> memory[p].record, preKeys |-> memory[p].preKeys]
      BY Typing
    <3>2. QED
      BY <3>1, <1>3
  <2>3. QED
    BY <2>1, <2>2, <1>5
<1>8. memory'[p].record = r /\ memory'[p].preKeys = keys
  BY <1>7
<1>9. /\ removing'[p] = {} /\ \A q \in Devices \ {p} : removing'[q] = removing[q]
      /\ removing' \in [Devices -> {removing'[q] : q \in Devices}]
  BY <1>1, <1>5
<1>10. \/ /\ disk'[p] = memory'[p] /\ durable'[p] = returned'[p]
          /\ returned'[p] = returned[p] \cup {m} /\ swallowed' = swallowed
       \/ /\ disk'[p] = disk[p] /\ durable'[p] = durable[p]
          /\ returned'[p] = returned[p] /\ swallowed' = swallowed \cup {m}
  BY <1>2, <1>5
<1>11. /\ disk' \in [Devices -> {disk'[q] : q \in Devices}]
       /\ \A q \in Devices \ {p} : disk'[q] = disk[q]
       /\ returned' \in [Devices -> SUBSET network] /\ durable' \in [Devices -> SUBSET network]
  <2>1. disk' = disk \/ disk' = [disk EXCEPT ![p] = memory'[p]]
    BY <1>2
  <2>2. /\ disk' \in [Devices -> {disk'[q] : q \in Devices}]
        /\ \A q \in Devices \ {p} : disk'[q] = disk[q]
    BY <2>1, <1>5
  <2>3. returned \in [Devices -> SUBSET network] /\ durable \in [Devices -> SUBSET network]
    BY <1>5
  <2>4. returned' = returned \/ returned' = [returned EXCEPT ![p] = @ \cup {m}]
    BY <1>2
  <2>5. returned' \in [Devices -> SUBSET network]
    BY <2>3, <2>4, <1>6
  <2>6. durable' = durable \/ durable' = [durable EXCEPT ![p] = returned'[p]]
    BY <1>2
  <2>7. durable' \in [Devices -> SUBSET network]
    BY <2>3, <2>5, <2>6
  <2>8. QED
    BY <2>2, <2>5, <2>7
<1>12. TypeOK'
  <2>1. faults' \in 0..MaxFaults
    <3>1. faults \in 0..MaxFaults /\ MaxFaults \in Nat
      BY SessionsAssumption DEF TypeOK
    <3>2. QED
      BY <3>1, <1>2
  <2>2. StorageOK(memory'[p])
    <3>1. PICK t : t = [record |-> r, preKeys |-> keys]
      OBVIOUS
    <3>2. keys \in SUBSET Session
      <4>1. StorageOK(memory[p])
        BY Typing
      <4>2. memory[p].preKeys \in SUBSET Session
        BY <4>1 DEF StorageOK
      <4>3. QED
        BY <4>2, <1>4
    <3>3. StorageOK(t)
      BY <3>1, <3>2, <1>6 DEF StorageOK
    <3>4. QED
      BY <3>1, <3>3, <1>7
  <2>3. ASSUME NEW q \in Devices
        PROVE  StorageOK(memory'[q]) /\ StorageOK(disk'[q]) /\ memory'[q].preKeys \subseteq disk'[q].preKeys
    <3>1. StorageOK(memory[q]) /\ StorageOK(disk[q]) /\ memory[q].preKeys \subseteq disk[q].preKeys
      BY DEF TypeOK
    <3>2. CASE q = p
      BY <3>1, <3>2, <2>2, <1>4, <1>8, <1>10
    <3>3. CASE q # p
      BY <3>1, <3>3, <1>7, <1>11
    <3>4. QED
      BY <3>2, <3>3
  <2>4. \A q \in Devices :
          /\ job'[q] = {} \/ \E record \in job'[q] : job'[q] = {record} /\ IsRecord(record)
          /\ removing'[q] = {} \/ (job'[q] = {} /\ \E n \in network' : removing'[q] = {n})
    BY <1>1, <1>9 DEF TypeOK
  <2>5. {returned', durable'} \subseteq [Devices -> SUBSET network'] /\ swallowed' \subseteq network'
    BY <1>1, <1>2, <1>6, <1>11
  <2>6. /\ {evicted', stale', removed'} \subseteq [Devices -> SUBSET Session]
        /\ torn' \subseteq Session /\ stranded' \subseteq Session
        /\ job' \in [Devices -> {job'[q] : q \in Devices}]
        /\ network' \subseteq Message /\ inits' \in [Devices -> 0..MaxInits]
    BY <1>1 DEF TypeOK
  <2>7. QED
    BY <2>1, <2>3, <2>4, <2>5, <2>6, <1>7, <1>9, <1>11 DEF TypeOK
<1>13. MemoryInv(p) /\ DiskInv(p) /\ SenderHas(p) /\ Frame(p)
  BY StepFrame DEF Inv, DeviceInv, Step
<1>14. /\ Dropped(p)' = Dropped(p) /\ Lost(p)' = Lost(p) /\ Again(p)' = Again(p)
       /\ RecordsOf(p)' = {r}
  BY <1>1, <1>6, <1>8 DEF Dropped, Lost, Again, RecordsOf
<1>15. RecordInv(p, r, Taken(p)', inits', swallowed', Again(p)')
  <2>1. RecordInv(p, r, Taken(p), inits, swallowed, Again(p))
    BY <1>3, <1>6, <1>13 DEF MemoryInv
  <2>2. HasDecrypted(p, r, Taken(p)', swallowed', Again(p)')
    <3>1. HasDecrypted(p, r, Taken(p), swallowed, Again(p))
      BY <2>1 DEF RecordInv
    <3>2. Taken(p)' \subseteq Taken(p) /\ Taken(p) \cup swallowed \subseteq Taken(p)' \cup swallowed'
      BY <1>6, <1>9, <1>10 DEF Taken
    <3>3. QED
      BY <3>1, <3>2, <1>14 DEF HasDecrypted
  <2>3. QED
    BY <2>1, <2>2, <1>1 DEF RecordInv
<1>16. PreKeyInv(p, r, keys, returned'[p], Spared(p, r)', Lost(p)')
  <2>1. PreKeyInv(p, r, memory[p].preKeys, returned[p], Spared(p, r), Lost(p))
    BY <1>3, <1>13 DEF MemoryInv
  <2>2. m.session \in DOMAIN r \cup Lost(p)
    BY <1>3, <1>6, <1>13 DEF MemoryInv, SessionsOf
  <2>3. Spared(p, r)' = Spared(p, r)
    BY <1>1, <1>14 DEF Spared
  <2>4. QED
    BY <2>1, <2>2, <2>3, <1>4, <1>10, <1>14 DEF PreKeyInv
<1>17. SessionsOf(removing[p]) = {m.session} /\ SessionsOf(removing'[p]) = {}
  BY <1>6, <1>9 DEF SessionsOf
<1>18. MemoryInv(p)'
  <2>1. PreKeyInv(p, memory[p].record, memory[p].preKeys, returned[p],
                  Spared(p, memory[p].record), Lost(p))'
    <3>1. Spared(p, memory[p].record)' = Spared(p, r)'
      BY <1>8 DEF Spared
    <3>2. QED
      BY <3>1, <1>8, <1>16
  <2>2. SentInv(p, r, network', torn')
    BY <1>1, <1>3, <1>6, <1>13 DEF MemoryInv
  <2>3. DOMAIN r \cap keys \subseteq stranded'
    BY <1>1, <1>3, <1>4, <1>6, <1>13, <1>17 DEF MemoryInv
  <2>4. QED
    BY <2>1, <2>2, <2>3, <1>1, <1>6, <1>8, <1>14, <1>15, <1>17 DEF MemoryInv
<1>19. DiskInv(p)'
  <2>1. CASE disk'[p] = memory'[p] /\ durable'[p] = returned'[p] /\ swallowed' = swallowed
             /\ returned'[p] = returned[p] \cup {m}
    <3>1. Taken(p)' = returned'[p] /\ Doubtful(p)' = swallowed'
      BY <1>9 DEF Taken, Doubtful
    <3>2. RecordInv(p, r, durable'[p], inits', Doubtful(p)', Again(p)')
      BY <2>1, <3>1, <1>15
    <3>3. Spared(p, r)' \subseteq SparedOnDisk(p, r)' /\ Lost(p)' \subseteq Lost(p)'
      BY DEF Spared, SparedOnDisk, Again
    <3>4. PreKeyInv(p, r, keys, returned'[p], SparedOnDisk(p, r)', Lost(p)')
      BY <3>3, <1>16, PreKeysKept
    <3>5. SparedOnDisk(p, disk[p].record)' = SparedOnDisk(p, r)'
      BY <2>1, <1>8 DEF SparedOnDisk
    <3>6. QED
      BY <2>1, <3>2, <3>4, <3>5, <1>8 DEF DiskInv
  <2>2. CASE disk'[p] = disk[p] /\ durable'[p] = durable[p] /\ swallowed' = swallowed \cup {m}
    <3>1. Doubtful(p)' = Doubtful(p)
      BY <2>2, <1>6, <1>9 DEF Doubtful
    <3>2. SparedOnDisk(p, disk[p].record)' = SparedOnDisk(p, disk[p].record)
      BY <2>2, <1>14 DEF SparedOnDisk
    <3>3. QED
      BY <2>2, <3>1, <3>2, <1>1, <1>13, <1>14 DEF DiskInv
  <2>3. QED
    BY <2>1, <2>2, <1>10
<1>20. SenderHas(p)'
  BY <1>1, <1>3, <1>8, <1>13, <1>14 DEF SenderHas
<1>21. QED
  BY <1>1, <1>12, <1>13, <1>18, <1>19, <1>20, MessagesKept DEF DeviceInv

------------------------------------------------------------------------------
(* The storage.                                                            *)

LEMMA JobFailsStep ==
  ASSUME TypeOK, Inv, NEW p \in Devices, JobFails(p)
  PROVE  TypeOK' /\ DeviceInv(p)' /\ SenderHas(p)' /\ MessageInv'
<1>1. /\ job' = [job EXCEPT ![p] = {}]
      /\ UNCHANGED <<memory, disk, removing, network, inits, returned, durable, swallowed,
                     evicted, stale, removed, torn, stranded, faults>>
  BY DEF JobFails, history
<1>2. job' \in [Devices -> {job'[q] : q \in Devices}] /\ job'[p] = {}
      /\ \A q \in Devices \ {p} : job'[q] = job[q]
  BY <1>1 DEF TypeOK
<1>3. TypeOK'
  <2>1. ASSUME NEW q \in Devices
        PROVE  /\ job'[q] = {} \/ \E record \in job'[q] : job'[q] = {record} /\ IsRecord(record)
               /\ removing'[q] = {} \/ (job'[q] = {} /\ \E m \in network' : removing'[q] = {m})
    <3>1. /\ job[q] = {} \/ \E record \in job[q] : job[q] = {record} /\ IsRecord(record)
          /\ removing[q] = {} \/ (job[q] = {} /\ \E m \in network : removing[q] = {m})
      BY DEF TypeOK
    <3>2. job'[q] = job[q] \/ job'[q] = {}
      BY <1>2
    <3>3. QED
      BY <3>1, <3>2, <1>1
  <2>2. /\ {evicted', stale', removed'} \subseteq [Devices -> SUBSET Session]
        /\ {returned', durable'} \subseteq [Devices -> SUBSET network']
        /\ torn' \subseteq Session /\ stranded' \subseteq Session /\ faults' \in 0..MaxFaults
        /\ network' \subseteq Message /\ swallowed' \subseteq network'
        /\ inits' \in [Devices -> 0..MaxInits]
    BY <1>1 DEF TypeOK
  <2>3. /\ memory' \in [Devices -> {memory'[q] : q \in Devices}]
        /\ disk' \in [Devices -> {disk'[q] : q \in Devices}]
        /\ removing' \in [Devices -> {removing'[q] : q \in Devices}]
    BY <1>1 DEF TypeOK
  <2>4. \A q \in Devices :
          /\ StorageOK(memory'[q]) /\ StorageOK(disk'[q])
          /\ memory'[q].preKeys \subseteq disk'[q].preKeys
    BY <1>1 DEF TypeOK
  <2>5. QED
    BY <2>1, <2>2, <2>3, <2>4, <1>2 DEF TypeOK
<1>4. MemoryInv(p) /\ DiskInv(p) /\ SenderHas(p) /\ MessageInv
  BY DEF Inv, DeviceInv
<1>5. RecordsOf(p)' \subseteq RecordsOf(p)
  BY <1>1, <1>2 DEF RecordsOf
<1>6. /\ Lost(p)' = Lost(p) /\ Again(p)' = Again(p)
      /\ Taken(p)' = Taken(p) /\ Doubtful(p)' = Doubtful(p)
      /\ Spared(p, memory[p].record)' = Spared(p, memory[p].record)
      /\ SparedOnDisk(p, disk[p].record)' = SparedOnDisk(p, disk[p].record)
  BY <1>1 DEF Lost, Dropped, Again, Taken, Doubtful, Spared, SparedOnDisk
<1>7. MemoryInv(p)' /\ DiskInv(p)' /\ SenderHas(p)'
  BY <1>1, <1>2, <1>4, <1>5, <1>6 DEF MemoryInv, DiskInv, SenderHas
<1>8. MessageInv'
  BY <1>1, <1>4 DEF MessageInv
<1>9. QED
  BY <1>3, <1>7, <1>8 DEF DeviceInv

(* A snapshot may be taken in the middle of a decrypt: it then has the      *)
(* prekey still, and its message among those that may never be returned.   *)
LEMMA SaveStep ==
  ASSUME TypeOK, Inv, NEW p \in Devices, Save(p)
  PROVE  TypeOK' /\ DeviceInv(p)' /\ SenderHas(p)' /\ MessageInv'
<1>1. /\ disk' = [disk EXCEPT ![p] = memory[p]]
      /\ durable' = [durable EXCEPT ![p] = returned[p]]
      /\ UNCHANGED <<memory, job, removing, network, inits, returned, swallowed,
                     evicted, stale, removed, torn, stranded, faults>>
  BY DEF Save, history
<1>2. /\ disk \in [Devices -> {disk[q] : q \in Devices}]
      /\ {returned, durable} \subseteq [Devices -> SUBSET network]
  BY DEF TypeOK
<1>3. /\ disk' \in [Devices -> {disk'[q] : q \in Devices}] /\ disk'[p] = memory[p]
      /\ \A q \in Devices \ {p} : disk'[q] = disk[q]
      /\ durable' \in [Devices -> SUBSET network] /\ durable'[p] = returned[p]
  BY <1>1, <1>2
<1>4. TypeOK'
  <2>1. ASSUME NEW q \in Devices
        PROVE  StorageOK(disk'[q]) /\ memory'[q].preKeys \subseteq disk'[q].preKeys
    <3>1. StorageOK(memory[q]) /\ StorageOK(disk[q]) /\ memory[q].preKeys \subseteq disk[q].preKeys
      BY DEF TypeOK
    <3>2. (disk'[q] = disk[q] \/ disk'[q] = memory[q]) /\ memory'[q] = memory[q]
      BY <1>1, <1>3
    <3>3. QED
      BY <3>1, <3>2
  <2>2. {returned', durable'} \subseteq [Devices -> SUBSET network']
    BY <1>1, <1>2, <1>3
  <2>3. \A q \in Devices :
          /\ StorageOK(memory'[q])
          /\ job'[q] = {} \/ \E record \in job'[q] : job'[q] = {record} /\ IsRecord(record)
          /\ removing'[q] = {} \/ (job'[q] = {} /\ \E m \in network' : removing'[q] = {m})
    BY <1>1 DEF TypeOK
  <2>4. /\ {evicted', stale', removed'} \subseteq [Devices -> SUBSET Session]
        /\ torn' \subseteq Session /\ stranded' \subseteq Session /\ faults' \in 0..MaxFaults
        /\ network' \subseteq Message /\ swallowed' \subseteq network'
        /\ inits' \in [Devices -> 0..MaxInits]
    BY <1>1 DEF TypeOK
  <2>5. /\ memory' \in [Devices -> {memory'[q] : q \in Devices}]
        /\ job' \in [Devices -> {job'[q] : q \in Devices}]
        /\ removing' \in [Devices -> {removing'[q] : q \in Devices}]
    BY <1>1 DEF TypeOK
  <2>6. QED
    BY <2>1, <2>2, <2>3, <2>4, <2>5, <1>3 DEF TypeOK
<1>5. MemoryInv(p) /\ DiskInv(p) /\ SenderHas(p) /\ MessageInv
  BY DEF Inv, DeviceInv
<1>6. /\ Lost(p)' = Lost(p) /\ Again(p)' = Again(p) /\ RecordsOf(p)' = RecordsOf(p)
      /\ Taken(p)' = Taken(p) /\ Doubtful(p)' = Doubtful(p)
      /\ Spared(p, memory[p].record)' = Spared(p, memory[p].record)
  BY <1>1 DEF Lost, Dropped, Again, Taken, Doubtful, Spared, RecordsOf
<1>7. MemoryInv(p)' /\ SenderHas(p)'
  BY <1>1, <1>5, <1>6 DEF MemoryInv, SenderHas
<1>8. DiskInv(p)'
  <2>1. PICK r : r = memory[p].record
    OBVIOUS
  <2>2. r \in RecordsOf(p)
    BY <2>1 DEF RecordsOf
  <2>3. RecordInv(p, r, Taken(p), inits, swallowed, Again(p))
    BY <2>2, <1>5 DEF MemoryInv
  <2>4. RecordInv(p, r, returned[p], inits, Doubtful(p), Again(p))
    BY <2>3 DEF RecordInv, HasDecrypted, Taken, Doubtful
  <2>5. Spared(p, r) \subseteq SparedOnDisk(p, r) /\ Lost(p) \subseteq Lost(p)
    BY DEF Spared, SparedOnDisk, Again
  <2>6. PreKeyInv(p, r, memory[p].preKeys, returned[p], Spared(p, r), Lost(p))
    BY <2>1, <1>5 DEF MemoryInv
  <2>7. PreKeyInv(p, r, memory[p].preKeys, returned[p], SparedOnDisk(p, r), Lost(p))
    BY <2>5, <2>6, PreKeysKept
  <2>8. SparedOnDisk(p, disk[p].record)' = SparedOnDisk(p, r)
    BY <2>1, <1>3, <1>6 DEF SparedOnDisk
  <2>9. QED
    BY <2>1, <2>4, <2>7, <2>8, <1>1, <1>3, <1>6 DEF DiskInv
<1>9. MessageInv'
  BY <1>1, <1>5 DEF MessageInv
<1>10. QED
  BY <1>4, <1>7, <1>8, <1>9 DEF DeviceInv

LEMMA EmptyRecord ==
  /\ IsRecord(NoSessions) /\ DOMAIN NoSessions = {}
  /\ \A p, set, n, bad, again : RecordInv(p, NoSessions, set, n, bad, again)
  /\ \A p, messages, back : SentInv(p, NoSessions, messages, back)
<1>1. DOMAIN NoSessions = {}
  BY DEF NoSessions
<1>2. Cardinality(DOMAIN NoSessions) <= MaxSessions
  BY <1>1, SessionsAssumption, FS_EmptySet
<1>3. IsRecord(NoSessions)
  BY <1>1, <1>2 DEF IsRecord, NoSessions
<1>4. QED
  BY <1>1, <1>3 DEF RecordInv, Distinct, HasDecrypted, SentInv

LEMMA RemoveSessionsStep ==
  ASSUME TypeOK, Inv, NEW p \in Devices, RemoveSessions(p)
  PROVE  TypeOK' /\ DeviceInv(p)' /\ SenderHas(p)' /\ MessageInv'
<1>1. /\ faults < MaxFaults /\ faults' = faults + 1
      /\ removed' = [removed EXCEPT ![p] = @ \cup DOMAIN memory[p].record]
      /\ memory' = [memory EXCEPT ![p].record = NoSessions]
      /\ job' \in {job, [job EXCEPT ![p] = LoadedRecord(p)]}
      /\ UNCHANGED <<disk, removing, network, inits, returned, durable, swallowed, evicted, stale,
                     torn, stranded>>
  BY DEF RemoveSessions
<1>2. /\ memory \in [Devices -> {memory[q] : q \in Devices}]
      /\ job \in [Devices -> {job[q] : q \in Devices}]
      /\ job[p] = {} \/ \E record \in job[p] : job[p] = {record} /\ IsRecord(record)
  BY DEF TypeOK
<1>3. removed \in [Devices -> SUBSET Session]
  <2>1. {evicted, stale, removed} \subseteq [Devices -> SUBSET Session]
    BY DEF TypeOK
  <2>2. QED
    BY <2>1
<1>4. /\ memory[p] = [record |-> memory[p].record, preKeys |-> memory[p].preKeys]
      /\ StorageOK(memory[p]) /\ IsRecord(memory[p].record)
  BY Typing DEF StorageOK
<1>5. /\ memory'[p] = [record |-> NoSessions, preKeys |-> memory[p].preKeys]
      /\ \A q \in Devices \ {p} : memory'[q] = memory[q]
      /\ memory' \in [Devices -> {memory'[q] : q \in Devices}]
  <2>1. memory' = [memory EXCEPT ![p] = [memory[p] EXCEPT !.record = NoSessions]]
    BY <1>1
  <2>2. [memory[p] EXCEPT !.record = NoSessions] =
          [record |-> NoSessions, preKeys |-> memory[p].preKeys]
    BY <1>4
  <2>3. QED
    BY <2>1, <2>2, <1>2
<1>6. /\ job' \in [Devices -> {job'[q] : q \in Devices}]
      /\ job'[p] = job[p] \/ job'[p] = LoadedRecord(p)
      /\ \A q \in Devices \ {p} : job'[q] = job[q]
  BY <1>1, <1>2
<1>7. /\ job'[p] = {} \/ \E record \in job'[p] : job'[p] = {record} /\ IsRecord(record)
      /\ removing[p] # {} => job'[p] = {}
  <2>1. removing[p] # {} => job[p] = {}
    BY Typing
  <2>2. QED
    BY <2>1, <1>2, <1>4, <1>6 DEF LoadedRecord
<1>8. removed' \in [Devices -> SUBSET Session] /\ removed'[p] = removed[p] \cup DOMAIN memory[p].record
  BY <1>1, <1>3, <1>4 DEF IsRecord
<1>9. TypeOK'
  <2>1. StorageOK(memory'[p])
    BY <1>4, <1>5, EmptyRecord DEF StorageOK
  <2>2. faults' \in 0..MaxFaults
    <3>1. faults \in 0..MaxFaults /\ MaxFaults \in Nat
      BY SessionsAssumption DEF TypeOK
    <3>2. QED
      BY <3>1, <1>1
  <2>3. ASSUME NEW q \in Devices
        PROVE  /\ StorageOK(memory'[q]) /\ StorageOK(disk'[q])
               /\ job'[q] = {} \/ \E record \in job'[q] : job'[q] = {record} /\ IsRecord(record)
               /\ memory'[q].preKeys \subseteq disk'[q].preKeys
               /\ removing'[q] = {} \/ (job'[q] = {} /\ \E m \in network' : removing'[q] = {m})
    <3>1. /\ StorageOK(memory[q]) /\ StorageOK(disk[q]) /\ memory[q].preKeys \subseteq disk[q].preKeys
          /\ job[q] = {} \/ \E record \in job[q] : job[q] = {record} /\ IsRecord(record)
          /\ removing[q] = {} \/ (job[q] = {} /\ \E m \in network : removing[q] = {m})
      BY DEF TypeOK
    <3>2. removing' = removing /\ network' = network /\ disk' = disk
      BY <1>1
    <3>3. CASE q = p
      <4>1. memory'[q].preKeys = memory[q].preKeys
        BY <3>3, <1>5
      <4>2. QED
        BY <3>1, <3>2, <3>3, <4>1, <2>1, <1>7
    <3>4. CASE q # p
      BY <3>1, <3>2, <3>4, <1>5, <1>6
    <3>5. QED
      BY <3>3, <3>4
  <2>4. /\ {evicted', stale', removed'} \subseteq [Devices -> SUBSET Session]
        /\ {returned', durable'} \subseteq [Devices -> SUBSET network']
        /\ disk' \in [Devices -> {disk'[q] : q \in Devices}]
        /\ removing' \in [Devices -> {removing'[q] : q \in Devices}]
        /\ network' \subseteq Message /\ swallowed' \subseteq network'
    <3>1. /\ {evicted, stale, removed} \subseteq [Devices -> SUBSET Session]
          /\ {returned, durable} \subseteq [Devices -> SUBSET network]
          /\ disk \in [Devices -> {disk[q] : q \in Devices}]
          /\ removing \in [Devices -> {removing[q] : q \in Devices}]
          /\ network \subseteq Message /\ swallowed \subseteq network
      BY DEF TypeOK
    <3>2. {evicted', stale', removed'} \subseteq [Devices -> SUBSET Session]
      BY <3>1, <1>1, <1>8
    <3>3. QED
      BY <3>1, <3>2, <1>1
  <2>5. torn' \subseteq Session /\ stranded' \subseteq Session /\ inits' \in [Devices -> 0..MaxInits]
    BY <1>1 DEF TypeOK
  <2>6. QED
    BY <2>2, <2>3, <2>4, <2>5, <1>5, <1>6 DEF TypeOK
<1>10. MemoryInv(p) /\ DiskInv(p) /\ SenderHas(p) /\ MessageInv
  BY DEF Inv, DeviceInv
<1>11. /\ Dropped(p)' = Dropped(p) \cup DOMAIN memory[p].record
       /\ Lost(p)' = Lost(p) \cup DOMAIN memory[p].record
       /\ Again(p) \subseteq Again(p)' /\ Taken(p)' = Taken(p) /\ Doubtful(p)' = Doubtful(p)
  BY <1>1, <1>8 DEF Lost, Dropped, Again, Taken, Doubtful
<1>12. \A r \in RecordsOf(p)' : r = NoSessions \/ r \in RecordsOf(p)
  BY <1>5, <1>6 DEF RecordsOf, LoadedRecord
<1>13. Frame(p)
  BY StepFrame DEF Step
<1>14. ASSUME NEW r \in RecordsOf(p)'
       PROVE  /\ RecordInv(p, r, Taken(p)', inits', swallowed', Again(p)')
              /\ SentInv(p, r, network, torn)
              /\ DOMAIN r \cap memory[p].preKeys \subseteq stranded \cup SessionsOf(removing[p])
  <2>1. CASE r = NoSessions
    BY <2>1, EmptyRecord
  <2>2. CASE r \in RecordsOf(p)
    <3>1. DOMAIN r \subseteq Session
      BY <2>2, Typing DEF IsRecord
    <3>2. /\ RecordInv(p, r, Taken(p), inits, swallowed, Again(p))
          /\ SentInv(p, r, network, torn)
          /\ DOMAIN r \cap memory[p].preKeys \subseteq stranded \cup SessionsOf(removing[p])
      BY <2>2, <1>10 DEF MemoryInv
    <3>3. RecordInv(p, r, Taken(p)', inits', swallowed', Again(p)')
      BY <3>1, <3>2, <1>1, <1>9, <1>11, <1>13, RecordKept
    <3>4. QED
      BY <3>2, <3>3
  <2>3. QED
    BY <2>1, <2>2, <1>12
<1>15. MemoryInv(p)'
  <2>1. memory'[p].record = NoSessions /\ memory'[p].preKeys = memory[p].preKeys
    BY <1>5
  <2>2. PreKeyInv(p, memory[p].record, memory[p].preKeys, returned[p],
                  Spared(p, memory[p].record), Lost(p))
    BY <1>10 DEF MemoryInv
  <2>3. Spared(p, memory[p].record) \subseteq Spared(p, memory[p].record)'
    BY <2>1, <1>1, <1>11 DEF Spared
  <2>4. PreKeyInv(p, NoSessions, memory[p].preKeys, returned[p],
                  Spared(p, memory[p].record)', Lost(p)')
    BY <2>2, <2>3, <1>11 DEF PreKeyInv
  <2>5. SessionsOf(removing[p]) \subseteq Lost(p)'
    BY <1>10, <1>11 DEF MemoryInv
  <2>6. SessionsOf(removing[p])' = SessionsOf(removing[p]) /\ removing' = removing
        /\ UNCHANGED <<returned, network, torn, stranded>>
    BY <1>1
  <2>7. PreKeyInv(p, memory[p].record, memory[p].preKeys, returned[p],
                  Spared(p, memory[p].record), Lost(p))'
    BY <2>1, <2>4, <2>6
  <2>8. \A r \in RecordsOf(p)' :
          /\ RecordInv(p, r, Taken(p), inits, swallowed, Again(p))'
          /\ SentInv(p, r, network, torn)'
          /\ DOMAIN r \cap memory'[p].preKeys \subseteq stranded' \cup SessionsOf(removing'[p])
    BY <2>1, <2>6, <1>14
  <2>9. QED
    BY <2>1, <2>5, <2>6, <2>7, <2>8 DEF MemoryInv
<1>16. DiskInv(p)'
  <2>1. PICK d : d = disk[p].record
    OBVIOUS
  <2>2. DOMAIN d \subseteq Session
    BY <2>1, Typing DEF IsRecord
  <2>3. RecordInv(p, d, durable[p], inits', Doubtful(p)', Again(p)')
    BY <2>1, <2>2, <1>9, <1>10, <1>11, <1>13, RecordKept DEF DiskInv
  <2>4. /\ SparedOnDisk(p, d) \subseteq SparedOnDisk(p, d)'
        /\ SparedOnDisk(p, disk[p].record)' = SparedOnDisk(p, d)'
        /\ SparedOnDisk(p, disk[p].record) = SparedOnDisk(p, d)
        /\ Lost(p) \subseteq Lost(p)'
    BY <1>1, <1>11, <2>1 DEF SparedOnDisk
  <2>5. PreKeyInv(p, d, disk[p].preKeys, durable[p], SparedOnDisk(p, d)', Lost(p)')
    BY <2>1, <2>4, <1>10, PreKeysKept DEF DiskInv
  <2>6. QED
    BY <2>1, <2>3, <2>4, <2>5, <1>1 DEF DiskInv
<1>17. SenderHas(p)'
  BY <1>1, <1>10, <1>11 DEF SenderHas
<1>18. MessageInv'
  BY <1>1, <1>10 DEF MessageInv
<1>19. QED
  BY <1>9, <1>15, <1>16, <1>17, <1>18 DEF DeviceInv

(* A crash goes back to the snapshot: what that has of a message being      *)
(* decrypted was swallowed, and the prekeys that it has beside sessions are *)
(* there to stay.                                                          *)
LEMMA CrashStep ==
  ASSUME TypeOK, Inv, NEW p \in Devices, Crash(p)
  PROVE  TypeOK' /\ DeviceInv(p)' /\ SenderHas(p)' /\ MessageInv'
<1> DEFINE now == memory[p].record
           then == disk[p].record
           Unknown(m) == IF m.session \in DOMAIN then THEN m.number >= then[m.session].sent
                         ELSE m.session \in DOMAIN now
           UsedUp(m) == m.session \in DOMAIN then /\ m.number \in then[m.session].got
<1>1. /\ faults < MaxFaults /\ faults' = faults + 1
      /\ torn' = torn \cup {m.session : m \in {n \in network : n.from = p /\ Unknown(n)}}
      /\ swallowed' = swallowed \cup {m \in removing[p] : UsedUp(m)}
      /\ stranded' = stranded \cup (DOMAIN then \cap disk[p].preKeys)
      /\ memory' = [memory EXCEPT ![p] = disk[p]]
      /\ returned' = [returned EXCEPT ![p] = durable[p]]
      /\ job' = [job EXCEPT ![p] = {}] /\ removing' = [removing EXCEPT ![p] = {}]
      /\ UNCHANGED <<disk, network, inits, durable, evicted, stale, removed>>
  BY DEF Crash
<1>2. /\ memory \in [Devices -> {memory[q] : q \in Devices}]
      /\ job \in [Devices -> {job[q] : q \in Devices}]
      /\ removing \in [Devices -> {removing[q] : q \in Devices}]
      /\ {returned, durable} \subseteq [Devices -> SUBSET network]
  BY DEF TypeOK
<1>3. /\ memory'[p] = disk[p] /\ \A q \in Devices \ {p} : memory'[q] = memory[q]
      /\ memory' \in [Devices -> {memory'[q] : q \in Devices}]
      /\ job'[p] = {} /\ \A q \in Devices \ {p} : job'[q] = job[q]
      /\ job' \in [Devices -> {job'[q] : q \in Devices}]
      /\ removing'[p] = {} /\ \A q \in Devices \ {p} : removing'[q] = removing[q]
      /\ removing' \in [Devices -> {removing'[q] : q \in Devices}]
      /\ returned'[p] = durable[p] /\ returned' \in [Devices -> SUBSET network]
  BY <1>1, <1>2
<1>4. torn \subseteq torn'
      /\ \A m \in network : m.from = p /\ Unknown(m) => m.session \in torn'
  BY <1>1
<1>5. TypeOK'
  <2>1. torn' \subseteq Session /\ stranded' \subseteq Session /\ swallowed' \subseteq network'
    <3>1. \A m \in network : m.session \in Session
      BY Typing DEF Message
    <3>2. torn \subseteq Session /\ stranded \subseteq Session
      BY DEF TypeOK
    <3>3. DOMAIN then \subseteq Session /\ removing[p] \subseteq network /\ swallowed \subseteq network
      BY Typing DEF IsRecord
    <3>4. torn' \subseteq Session
      BY <3>1, <3>2, <1>1
    <3>5. stranded' \subseteq Session
      BY <3>2, <3>3, <1>1
    <3>6. swallowed' \subseteq network'
      BY <3>3, <1>1
    <3>7. QED
      BY <3>4, <3>5, <3>6
  <2>2. faults' \in 0..MaxFaults
    <3>1. faults \in 0..MaxFaults /\ MaxFaults \in Nat
      BY SessionsAssumption DEF TypeOK
    <3>2. QED
      BY <3>1, <1>1
  <2>3. ASSUME NEW q \in Devices
        PROVE  /\ StorageOK(memory'[q]) /\ StorageOK(disk'[q])
               /\ job'[q] = {} \/ \E record \in job'[q] : job'[q] = {record} /\ IsRecord(record)
               /\ memory'[q].preKeys \subseteq disk'[q].preKeys
               /\ removing'[q] = {} \/ (job'[q] = {} /\ \E m \in network' : removing'[q] = {m})
    <3>1. /\ StorageOK(memory[q]) /\ StorageOK(disk[q]) /\ memory[q].preKeys \subseteq disk[q].preKeys
          /\ job[q] = {} \/ \E record \in job[q] : job[q] = {record} /\ IsRecord(record)
          /\ removing[q] = {} \/ (job[q] = {} /\ \E m \in network : removing[q] = {m})
      BY DEF TypeOK
    <3>2. disk' = disk /\ network' = network
      BY <1>1
    <3>3. CASE q = p
      BY <3>1, <3>2, <3>3, <1>3
    <3>4. CASE q # p
      BY <3>1, <3>2, <3>4, <1>3
    <3>5. QED
      BY <3>3, <3>4
  <2>4. /\ {evicted', stale', removed'} \subseteq [Devices -> SUBSET Session]
        /\ durable' \in [Devices -> SUBSET network']
        /\ disk' \in [Devices -> {disk'[q] : q \in Devices}]
        /\ network' \subseteq Message /\ inits' \in [Devices -> 0..MaxInits]
    <3>1. durable \in [Devices -> SUBSET network]
      BY <1>2
    <3>2. QED
      BY <3>1, <1>1 DEF TypeOK
  <2>5. returned' \in [Devices -> SUBSET network']
    BY <1>1, <1>3
  <2>6. QED
    BY <2>1, <2>2, <2>3, <2>4, <2>5, <1>3 DEF TypeOK
<1>6. MemoryInv(p) /\ DiskInv(p) /\ SenderHas(p) /\ MessageInv
  BY DEF Inv, DeviceInv
<1>7. /\ Lost(p) \subseteq Lost(p)' /\ torn' \subseteq Lost(p)' /\ RecordsOf(p)' = {then}
      /\ Dropped(p)' = Dropped(p) /\ Again(p) \subseteq Again(p)'
      /\ stranded \subseteq stranded' /\ DOMAIN then \cap disk[p].preKeys \subseteq stranded'
  BY <1>1, <1>3, <1>4 DEF Lost, Dropped, Again, RecordsOf
<1>8. SentInv(p, then, network, torn')
  <2>1. ASSUME NEW s \in DOMAIN then \ torn', NEW m \in network, m.session = s, m.from = p
        PROVE  m.number < then[s].sent
    <3>1. ~(m.number >= then[s].sent)
      BY <2>1, <1>4
    <3>2. IsRecord(then) /\ m \in Message /\ MaxSent \in Nat
      BY Typing, SessionsAssumption
    <3>3. m.number \in 0..MaxSent - 1 /\ then[s].sent \in 0..MaxSent
      BY <3>2 DEF IsRecord, Entry, Message
    <3>4. QED
      BY <3>1, <3>2, <3>3
  <2>2. QED
    BY <2>1 DEF SentInv
<1>9. RecordInv(p, then, durable[p], inits, swallowed', Again(p)')
  <2>1. RecordInv(p, then, durable[p], inits, Doubtful(p), Again(p))
    BY <1>6 DEF DiskInv
  <2>2. HasDecrypted(p, then, durable[p], Doubtful(p), Again(p))
    BY <2>1 DEF RecordInv
  <2>3. ASSUME NEW s \in DOMAIN then, NEW k \in then[s].got
        PROVE  \E m \in durable[p] \cup swallowed' : m.session = s /\ m.from # p /\ m.number = k
    <3>1. PICK m \in durable[p] \cup Doubtful(p) : m.session = s /\ m.from # p /\ m.number = k
      BY <2>2 DEF HasDecrypted
    <3>2. m \in durable[p] \cup swallowed'
      BY <3>1, <2>3, <1>1 DEF Doubtful
    <3>3. QED
      BY <3>1, <3>2
  <2>4. HasDecrypted(p, then, durable[p], swallowed', Again(p)')
    BY <2>2, <2>3, <1>7 DEF HasDecrypted
  <2>5. QED
    BY <2>1, <2>4 DEF RecordInv
<1>10. PreKeyInv(p, then, disk[p].preKeys, durable[p], SparedOnDisk(p, then), Lost(p))
  BY <1>6 DEF DiskInv
<1>11. ASSUME NEW m \in network, m.from = p
       PROVE  m.session \in DOMAIN then \cup Lost(p)'
  <2>1. m.session \in DOMAIN now \cup Lost(p)
    BY <1>6, <1>11 DEF SenderHas
  <2>2. m.session \in DOMAIN now /\ m.session \notin DOMAIN then => m.session \in torn'
    BY <1>4, <1>11
  <2>3. QED
    BY <2>1, <2>2, <1>7
<1>12. PICK d : d = then
  OBVIOUS
<1> HIDE DEF Unknown, UsedUp
<1>13. MemoryInv(p)'
  <2>1. Taken(p)' = durable[p] /\ SessionsOf(removing'[p]) = {}
    BY <1>3 DEF Taken, SessionsOf
  <2>2. Spared(p, d)' = stranded' \cap (DOMAIN d \cup Dropped(p))
    BY <1>7 DEF Spared
  <2>3. PreKeyInv(p, d, disk[p].preKeys, durable[p], Spared(p, d)', Lost(p)')
    BY <2>2, <1>7, <1>10, <1>12 DEF PreKeyInv, SparedOnDisk, Again
  <2>4. Spared(p, memory[p].record)' = Spared(p, d)'
    BY <1>3, <1>12 DEF Spared
  <2>5. PreKeyInv(p, memory[p].record, memory[p].preKeys, returned[p],
                  Spared(p, memory[p].record), Lost(p))'
    BY <2>3, <2>4, <1>3, <1>12
  <2>6. DOMAIN d \cap disk[p].preKeys \subseteq stranded'
    BY <1>7, <1>12
  <2>7. /\ RecordInv(p, d, durable[p], inits', swallowed', Again(p)')
        /\ SentInv(p, d, network', torn')
    BY <1>1, <1>8, <1>9, <1>12
  <2>8. RecordsOf(p)' = {d} /\ memory'[p].preKeys = disk[p].preKeys /\ job'[p] = {}
    BY <1>3, <1>7, <1>12
  <2>9. QED
    BY <2>1, <2>5, <2>6, <2>7, <2>8 DEF MemoryInv
<1>14. DiskInv(p)'
  <2>1. Doubtful(p)' = swallowed'
    BY <1>3 DEF Doubtful
  <2>2. RecordInv(p, d, durable[p], inits', Doubtful(p)', Again(p)')
    BY <2>1, <1>1, <1>9, <1>12
  <2>3. /\ SparedOnDisk(p, d) \subseteq SparedOnDisk(p, d)'
        /\ SparedOnDisk(p, disk[p].record)' = SparedOnDisk(p, d)'
    BY <1>1, <1>7, <1>12 DEF SparedOnDisk
  <2>4. PreKeyInv(p, d, disk[p].preKeys, durable[p], SparedOnDisk(p, d)', Lost(p)')
    BY <2>3, <1>7, <1>10, <1>12, PreKeysKept
  <2>5. QED
    BY <2>2, <2>3, <2>4, <1>1, <1>12 DEF DiskInv
<1>15. SenderHas(p)'
  BY <1>1, <1>3, <1>11 DEF SenderHas
<1>16. MessageInv'
  BY <1>1, <1>4, <1>6 DEF MessageInv
<1>17. QED
  BY <1>5, <1>13, <1>14, <1>15, <1>16 DEF DeviceInv

------------------------------------------------------------------------------
(* The theorems.                                                           *)

LEMMA InitIInv == Init => IInv
<1> SUFFICES ASSUME Init PROVE IInv
  OBVIOUS
<1>1. \A p \in Devices :
        /\ memory[p] = [record |-> NoSessions, preKeys |-> {Other(p)} \X (1..MaxInits)]
        /\ disk[p] = memory[p] /\ job[p] = {} /\ removing[p] = {} /\ inits[p] = 0
        /\ returned[p] = {} /\ durable[p] = {}
  BY DEF Init
<1>2. ASSUME NEW p \in Devices
      PROVE  /\ memory[p].record = NoSessions /\ disk[p].record = NoSessions
             /\ memory[p].preKeys = {Other(p)} \X (1..MaxInits)
             /\ disk[p].preKeys = {Other(p)} \X (1..MaxInits)
             /\ memory[p] = [record |-> memory[p].record, preKeys |-> memory[p].preKeys]
  <2>1. PICK keys : keys = {Other(p)} \X (1..MaxInits)
    OBVIOUS
  <2>2. memory[p] = [record |-> NoSessions, preKeys |-> keys] /\ disk[p] = memory[p]
    BY <1>1, <2>1, Zenon
  <2>3. memory[p].record = NoSessions /\ memory[p].preKeys = keys
    BY <2>2
  <2>4. QED
    BY <2>1, <2>2, <2>3, Zenon
<1>3. ASSUME NEW p \in Devices PROVE StorageOK(memory[p])
  <2>1. {Other(p)} \X (1..MaxInits) \subseteq Session
    BY TwoDevices DEF Session
  <2>2. IsRecord(NoSessions)
    BY EmptyRecord
  <2>3. memory[p] \in [record : {memory[p].record}, preKeys : SUBSET Session]
    <3>1. memory[p].preKeys \in SUBSET Session
      BY <2>1, <1>2, Zenon
    <3>2. memory[p] = [record |-> memory[p].record, preKeys |-> memory[p].preKeys]
      BY <1>2
    <3>3. QED
      BY <3>1, <3>2
  <2>4. QED
    BY <2>2, <2>3, <1>2 DEF StorageOK
<1>4. TypeOK
  <2>1. {MaxInits, MaxFaults} \subseteq Nat
    BY SessionsAssumption
  <2>2. /\ inits \in [Devices -> 0..MaxInits] /\ faults \in 0..MaxFaults
        /\ {returned, durable} \subseteq [Devices -> SUBSET network]
        /\ {evicted, stale, removed} \subseteq [Devices -> SUBSET Session]
    BY <2>1 DEF Init
  <2>3. /\ memory \in [Devices -> {memory[p] : p \in Devices}]
        /\ disk \in [Devices -> {disk[p] : p \in Devices}]
        /\ job \in [Devices -> {job[p] : p \in Devices}]
        /\ removing \in [Devices -> {removing[p] : p \in Devices}]
    BY DEF Init
  <2>4. network = {} /\ swallowed = {} /\ torn = {} /\ stranded = {}
    BY DEF Init
  <2>5. QED
    BY <2>2, <2>3, <2>4, <1>1, <1>3 DEF TypeOK
<1>5. ASSUME NEW p \in Devices PROVE DeviceInv(p) /\ SenderHas(p)
  <2>1. RecordsOf(p) = {NoSessions} /\ network = {} /\ DOMAIN NoSessions = {}
    BY <1>1, <1>2, EmptyRecord DEF RecordsOf, Init
  <2>2. PICK keys : keys = {Other(p)} \X (1..MaxInits)
    OBVIOUS
  <2>3. memory[p].preKeys = keys /\ disk[p].preKeys = keys
    BY <1>2, <2>2, Zenon
  <2>4. returned[p] = {} /\ durable[p] = {} /\ job[p] = {} /\ SessionsOf(removing[p]) = {}
    BY <1>1 DEF SessionsOf
  <2>5. \A left, lost : PreKeyInv(p, NoSessions, keys, {}, left, lost)
    BY <2>2, Zenon DEF PreKeyInv
  <2>6. /\ PreKeyInv(p, memory[p].record, memory[p].preKeys, returned[p],
                     Spared(p, memory[p].record), Lost(p))
        /\ PreKeyInv(p, disk[p].record, disk[p].preKeys, durable[p],
                     SparedOnDisk(p, disk[p].record), Lost(p))
    <3>1. memory[p].record = NoSessions /\ disk[p].record = NoSessions
      BY <1>2, Zenon
    <3>2. PICK left, lost, leftOnDisk :
            /\ left = Spared(p, memory[p].record) /\ lost = Lost(p)
            /\ leftOnDisk = SparedOnDisk(p, disk[p].record)
      OBVIOUS
    <3>3. /\ PreKeyInv(p, memory[p].record, memory[p].preKeys, returned[p], left, lost)
          /\ PreKeyInv(p, disk[p].record, disk[p].preKeys, durable[p], leftOnDisk, lost)
      BY <3>1, <2>3, <2>4, <2>5
    <3>4. QED
      BY <3>2, <3>3
  <2>7. /\ RecordInv(p, NoSessions, Taken(p), inits, swallowed, Again(p))
        /\ RecordInv(p, NoSessions, durable[p], inits, Doubtful(p), Again(p))
        /\ SentInv(p, NoSessions, network, torn)
    BY EmptyRecord
  <2>8. RecordInv(p, disk[p].record, durable[p], inits, Doubtful(p), Again(p))
    BY <2>7, <1>2, Zenon
  <2>9. MemoryInv(p)
    <3>1. ASSUME NEW r \in RecordsOf(p)
          PROVE  /\ RecordInv(p, r, Taken(p), inits, swallowed, Again(p))
                 /\ SentInv(p, r, network, torn)
                 /\ DOMAIN r \cap memory[p].preKeys \subseteq stranded \cup SessionsOf(removing[p])
      BY <2>1, <2>7
    <3>2. SessionsOf(removing[p]) \subseteq DOMAIN memory[p].record \cup Lost(p)
      BY <2>4
    <3>3. QED
      BY <3>1, <3>2, <2>4, <2>6 DEF MemoryInv
  <2>10. DiskInv(p)
    BY <2>6, <2>8, Zenon DEF DiskInv
  <2>11. QED
    BY <2>1, <2>9, <2>10 DEF DeviceInv, SenderHas
<1>6. MessageInv
  BY DEF Init, MessageInv
<1>7. QED
  BY <1>4, <1>5, <1>6 DEF IInv, Inv

LEMMA StepIInv ==
  ASSUME IInv, NEW p \in Devices, Step(p)
  PROVE  IInv'
<1>1. TypeOK /\ Inv
  BY DEF IInv
<1>2. TypeOK' /\ DeviceInv(p)' /\ SenderHas(p)' /\ MessageInv'
  BY <1>1, JobFailsStep, InitOutgoingStep, EncryptStep, DecryptStep, EstablishStep,
     RemovePreKeyStep, CloseOpenSessionStep, SaveStep, RemoveSessionsStep, CrashStep DEF Step
<1>3. \A q \in Devices \ {p} : DeviceInv(q)' /\ SenderHas(q)'
  BY <1>1, <1>2, StepFrame, OthersKept
<1>4. \A q \in Devices : DeviceInv(q)' /\ SenderHas(q)'
  BY <1>2, <1>3
<1>5. QED
  BY <1>2, <1>4 DEF IInv, Inv

(* Whatever devices do, lose and remove, the invariant holds.               *)
THEOREM IInvHolds == Spec => []IInv
<1>1. Init => IInv
  BY InitIInv
<1>2. IInv /\ [Next]_vars => IInv'
  <2>1. SUFFICES ASSUME IInv, [Next]_vars PROVE IInv'
    OBVIOUS
  <2>2. CASE Next
    <3>1. PICK p \in Devices : Step(p)
      BY <2>2 DEF Next, Step
    <3>2. QED
      BY <2>1, <3>1, StepIInv
  <2>3. CASE UNCHANGED vars
    <3>1. TypeOK'
      BY <2>1, <2>3 DEF vars, IInv, TypeOK
    <3>2. \A p \in Devices : MemoryInv(p)'
      BY <2>1, <2>3 DEF vars, IInv, Inv, DeviceInv, MemoryInv, RecordsOf, Taken, Spared, Again,
           Lost, Dropped
    <3>3. \A p \in Devices : DiskInv(p)'
      BY <2>1, <2>3 DEF vars, IInv, Inv, DeviceInv, DiskInv, Doubtful, SparedOnDisk, Again, Lost,
           Dropped
    <3>4. (\A p \in Devices : SenderHas(p)') /\ MessageInv'
      BY <2>1, <2>3 DEF vars, IInv, Inv, SenderHas, Lost, Dropped, MessageInv
    <3>5. QED
      BY <3>1, <3>2, <3>3, <3>4 DEF IInv, Inv, DeviceInv
  <2>4. QED
    BY <2>1, <2>2, <2>3
<1>3. QED
  BY <1>1, <1>2, PTL DEF Spec

(* The records stay within their limits, and the prekeys in memory are      *)
(* among those of the snapshot (session-record.ts:440, file-storage.ts).   *)
THEOREM TypeCorrect == Spec => []TypeOK
<1>1. IInv => TypeOK
  BY DEF IInv
<1>2. QED
  BY <1>1, IInvHolds, PTL

(* At most one session of a record is open, in memory and in the snapshot,  *)
(* so that getOpenSession (session-record.ts:401) has no choice.           *)
THEOREM OneOpenSessionHolds == Spec => []OneOpenSession
<1>1. ASSUME NEW r, IsRecord(r), Distinct(r)
      PROVE  Cardinality(OpenSessions(r)) <= 1
  <2>1. \A s, t \in OpenSessions(r) : s = t
    BY <1>1 DEF OpenSessions, IsClosed, Distinct
  <2>2. CASE OpenSessions(r) = {}
    BY <2>2, FS_EmptySet
  <2>3. CASE OpenSessions(r) # {}
    <3>1. PICK s : OpenSessions(r) = {s}
      BY <2>1, <2>3
    <3>2. Cardinality(OpenSessions(r)) = 1
      BY <3>1, FS_Singleton
    <3>3. QED
      BY <3>2
  <2>4. QED
    BY <2>2, <2>3
<1>2. IInv => OneOpenSession
  <2>1. SUFFICES ASSUME IInv, NEW p \in Devices
                 PROVE  /\ Cardinality(OpenSessions(memory[p].record)) <= 1
                        /\ Cardinality(OpenSessions(disk[p].record)) <= 1
    BY DEF OneOpenSession
  <2>2. memory[p].record \in RecordsOf(p) /\ TypeOK /\ Inv
    BY <2>1 DEF RecordsOf, IInv
  <2>3. /\ IsRecord(memory[p].record) /\ Distinct(memory[p].record)
        /\ IsRecord(disk[p].record) /\ Distinct(disk[p].record)
    BY <2>2, Typing DEF Inv, DeviceInv, MemoryInv, DiskInv, RecordInv
  <2>4. QED
    BY <2>3, <1>1
<1>3. QED
  BY <1>2, IInvHolds, PTL

(* What a decrypt has returned no decrypt returns again, not even when its  *)
(* session is gone: the prekey that could bring it back is gone too        *)
(* (session-cipher.ts:353), unless a crash between the two steps of a       *)
(* decrypt (350 and 353) has brought it back beside its session.           *)
THEOREM PlaintextOnceHolds == Spec => []PlaintextOnce
<1>1. IInv => PlaintextOnce
  <2>1. SUFFICES ASSUME IInv, NEW p \in Devices, NEW m \in returned[p],
                        CanDecrypt(p, m), m.session \notin Again(p)
                 PROVE  FALSE
    BY DEF PlaintextOnce, Again
  <2>2. /\ RecordInv(p, memory[p].record, Taken(p), inits, swallowed, Again(p))
        /\ PreKeyInv(p, memory[p].record, memory[p].preKeys, returned[p],
                     Spared(p, memory[p].record), Lost(p))
    BY <2>1 DEF IInv, Inv, DeviceInv, MemoryInv, RecordsOf
  <2>3. ~Decrypts(memory[p].record, m)
    BY <2>1, <2>2 DEF RecordInv, HasDecrypted, Decrypts, Taken
  <2>4. m.session \in memory[p].preKeys /\ m.session \notin DOMAIN memory[p].record
    BY <2>1, <2>3 DEF CanDecrypt
  <2>5. m.session \in Again(p)
    BY <2>2, <2>4 DEF PreKeyInv, Spared, Again
  <2>6. QED
    BY <2>1, <2>5
<1>2. QED
  BY <1>1, IInvHolds, PTL

(* A message that has not been decrypted yet can be, unless the limit of    *)
(* sessions (session-record.ts:440) or of their age (463), a removal of    *)
(* the identity, a crash before the save (file-storage.ts:887), or a crash *)
(* or a save that failed in the middle of its own decrypt                  *)
(* (session-cipher.ts:353) has taken it.                                   *)
THEOREM LossOnlyByLimitsHolds == Spec => []LossOnlyByLimits
<1>1. IInv => LossOnlyByLimits
  <2>1. SUFFICES ASSUME IInv, NEW p \in Devices,
                        NEW m \in network \ (returned[p] \cup removing[p] \cup swallowed),
                        m.from # p, m.session \notin Lost(p)
                 PROVE  CanDecrypt(p, m)
    BY DEF LossOnlyByLimits, Lost
  <2>2. /\ RecordInv(p, memory[p].record, Taken(p), inits, swallowed, Again(p))
        /\ PreKeyInv(p, memory[p].record, memory[p].preKeys, returned[p],
                     Spared(p, memory[p].record), Lost(p))
        /\ SenderHas(p) /\ MessageInv /\ TypeOK
    BY <2>1 DEF IInv, Inv, DeviceInv, MemoryInv, RecordsOf
  <2>3. /\ m \in Message /\ m.from \in Devices /\ m.session \in Session
        /\ \A n \in network : n.from \in Devices
    BY <2>2, Typing DEF Message
  <2>4. CASE m.session \in DOMAIN memory[p].record
    <3>1. m.number \notin memory[p].record[m.session].got
      <4>1. SUFFICES ASSUME m.number \in memory[p].record[m.session].got PROVE FALSE
        OBVIOUS
      <4>2. PICK n \in Taken(p) \cup swallowed :
              n.session = m.session /\ n.from # p /\ n.number = m.number
        BY <4>1, <2>2, <2>4 DEF RecordInv, HasDecrypted
      <4>3. n \in network
        BY <2>2, Typing DEF Taken
      <4>4. n.from = m.from
        BY <4>2, <4>3, <2>1, <2>3, TwoDevices
      <4>5. n = m
        BY <4>2, <4>3, <4>4, <2>1, <2>2 DEF MessageInv, Lost
      <4>6. QED
        BY <4>2, <4>5, <2>1 DEF Taken
    <3>2. QED
      BY <3>1, <2>4 DEF CanDecrypt, Decrypts
  <2>5. CASE m.session \notin DOMAIN memory[p].record
    <3>1. m.prekey
      <4>1. SUFFICES ASSUME ~m.prekey PROVE FALSE
        OBVIOUS
      <4>2. PICK n \in network : n.session = m.session /\ n.from # m.from
        BY <4>1, <2>2 DEF MessageInv
      <4>3. n.from = p
        BY <4>2, <2>1, <2>3, TwoDevices
      <4>4. QED
        BY <4>2, <4>3, <2>1, <2>2, <2>5 DEF SenderHas
    <3>2. m.session[1] = Other(p)
      <4>1. m.session[1] = m.from
        BY <3>1, <2>2 DEF MessageInv
      <4>2. QED
        BY <4>1, <2>1, <2>3, TwoDevices
    <3>3. m.session \in {Other(p)} \X (1..MaxInits)
      BY <3>2, <2>3 DEF Session
    <3>4. m.session \in memory[p].preKeys
      BY <3>3, <2>1, <2>2, <2>5 DEF PreKeyInv
    <3>5. QED
      BY <3>1, <3>4, <2>5 DEF CanDecrypt
  <2>6. QED
    BY <2>4, <2>5
<1>2. QED
  BY <1>1, IInvHolds, PTL
==============================================================================
