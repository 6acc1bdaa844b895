---------------------------- MODULE SenderKeysProofs ----------------------------
(***************************************************************************)
(* Theorems about SenderKeys, for any members, limits and numbers of        *)
(* rotations, distributions and messages.                                  *)
(*                                                                         *)
(* The argument: only the sender's state of the latest rotation signs, and  *)
(* it is ahead of every message of its key id, so it seals the next         *)
(* iteration, which nobody has sealed yet.  Every iteration before one that *)
(* some state or distribution has reached has its message; so what a        *)
(* receiver skips are keys of messages, and of messages it has not used,    *)
(* since those it has used are all behind its state.                       *)
(***************************************************************************)
EXTENDS SenderKeys, FiniteSetTheorems, TLAPS

Unique(rec) == \A i, j \in DOMAIN rec : rec[i].id = rec[j].id => i = j

(* There is a message with the key of an iteration.                        *)
Sent(id, k) == \E m \in network : m.id = id /\ m.iteration = k

SentBefore(id, iteration) == \A k \in 0..(iteration - 1) : Sent(id, k)

MessageInv ==
  /\ IsFiniteSet(network)
  /\ \A m \in network : m.id <= rotations /\ m.rotation = m.id
  /\ \A m \in network : SentBefore(m.id, m.iteration)
  /\ MessageKeysSealOnce

DistributionOK(d) ==
  /\ d.id <= rotations /\ d.sent <= Cardinality(network)
  /\ SentBefore(d.id, d.iteration)
  /\ d.signing => d.rotation = d.id
  /\ d.signing => \A m \in network :
       m.id = d.id /\ m.iteration >= d.iteration => d.sent <= m.sent

DistributionInv == \A d \in handedOut : DistributionOK(d)

(* What is true of a state by itself ...                                   *)
StateOK(p, s) ==
  /\ s.id <= rotations /\ s.from.id = s.id
  /\ s.from.iteration <= s.iteration
  /\ \A k \in s.messageKeys : s.from.iteration <= k /\ k < s.iteration
  /\ SentBefore(s.id, s.iteration)
  /\ p \in Receivers => s.from \in handedOut
  /\ s.signing =>
       /\ p = Sender /\ s.id = rotations /\ s.messageKeys = {}
       /\ \A m \in network : m.id = s.id => m.iteration < s.iteration

(* ... and of the messages that its owner used, or still may.              *)
UseOK(p, s) ==
  /\ \A m \in used[p] : m.id = s.id =>
       m.iteration < s.iteration /\ m.iteration \notin s.messageKeys
  /\ \A k \in s.messageKeys :
       \E m \in network \ used[p] : m.id = s.id /\ m.iteration = k
  /\ \A m \in network \ used[p] :
       m.id = s.id /\ s.from.iteration <= m.iteration /\ m.iteration < s.iteration =>
         m.iteration \in s.messageKeys \/ m.iteration + MaxMessageKeys + 1 < s.iteration

States(p) == {record[p][i] : i \in DOMAIN record[p]}

RecordInv ==
  \A p \in Members :
    Unique(record[p]) /\ \A s \in States(p) : StateOK(p, s) /\ UseOK(p, s)

EmptyInv == record[Sender] = <<>> => handedOut = {} /\ network = {} /\ rotations = 0

IInv == TypeOK /\ MessageInv /\ DistributionInv /\ RecordInv /\ EmptyInv

------------------------------------------------------------------------------
(* A record is a list of states of different key ids.                      *)

Record == {rec \in Seq(SenderKeyState) : Len(rec) <= MaxStates /\ Unique(rec)}

LEMMA StatesOfRecord ==
  ASSUME NEW rec \in Seq(SenderKeyState), NEW id, NEW s \in StatesOf(rec, id)
  PROVE  s.id = id /\ s \in SenderKeyState /\ \E i \in DOMAIN rec : s = rec[i]
BY DEF StatesOf

LEMMA WithoutIdIsRecord ==
  ASSUME NEW rec \in Record, NEW id
  PROVE  /\ WithoutId(rec, id) \in Record
         /\ \A i \in DOMAIN WithoutId(rec, id) :
              WithoutId(rec, id)[i].id # id
              /\ \E j \in DOMAIN rec : WithoutId(rec, id)[i] = rec[j]
<1>1. rec \in Seq(SenderKeyState) /\ Len(rec) <= MaxStates /\ Unique(rec)
  BY DEF Record
<1>2. CASE StatesOf(rec, id) = {}
  BY <1>2 DEF WithoutId, StatesOf
<1>3. CASE StatesOf(rec, id) # {}
  <2> DEFINE at == CHOOSE i \in DOMAIN rec : rec[i].id = id
             rest == [i \in 1..(Len(rec) - 1) |-> IF i < at THEN rec[i] ELSE rec[i + 1]]
  <2>1. at \in DOMAIN rec /\ rec[at].id = id
    BY <1>3 DEF StatesOf
  <2>2. WithoutId(rec, id) = rest
    BY <1>3 DEF WithoutId
  <2> HIDE DEF at
  <2>3. rest \in Seq(SenderKeyState) /\ Len(rest) = Len(rec) - 1
        /\ DOMAIN rest = 1..(Len(rec) - 1)
    BY <1>1, <2>1
  <2>4. \A i \in DOMAIN rest : \E j \in DOMAIN rec :
          j # at /\ rest[i] = rec[j] /\ j = IF i < at THEN i ELSE i + 1
    BY <1>1, <2>1, <2>3
  <2> HIDE DEF rest
  <2>5. \A i \in DOMAIN rest : rest[i].id # id
    BY <1>1, <2>1, <2>4 DEF Unique
  <2>6. Unique(rest)
    BY <1>1, <2>1, <2>3, <2>4 DEF Unique
  <2>7. Len(rest) <= MaxStates
    BY <1>1, <2>3, LimitsAssumption
  <2>8. \A i \in DOMAIN rest : \E j \in DOMAIN rec : rest[i] = rec[j]
    BY <2>4
  <2>9. rest \in Record
    BY <2>3, <2>6, <2>7 DEF Record
  <2>10. QED
    BY <2>2, <2>5, <2>8, <2>9
<1>4. QED
  BY <1>2, <1>3

(* The new state comes last, and what else is left is of other key ids.     *)
LEMMA AddSenderKeyStateIsRecord ==
  ASSUME NEW rec \in Record, NEW s \in SenderKeyState
  PROVE  /\ AddSenderKeyState(rec, s) \in Record
         /\ AddSenderKeyState(rec, s) # <<>>
         /\ \A i \in DOMAIN AddSenderKeyState(rec, s) :
              \/ AddSenderKeyState(rec, s)[i] = s
              \/ \E j \in DOMAIN rec :
                   AddSenderKeyState(rec, s)[i] = rec[j] /\ rec[j].id # s.id
<1> DEFINE rest == WithoutId(rec, s.id)
           added == Append(rest, s)
<1>1. /\ rest \in Seq(SenderKeyState) /\ Len(rest) <= MaxStates /\ Unique(rest)
      /\ \A i \in DOMAIN rest : rest[i].id # s.id /\ \E j \in DOMAIN rec : rest[i] = rec[j]
  BY WithoutIdIsRecord DEF Record
<1>2. MaxStates \in Nat \ {0}
  BY LimitsAssumption
<1> HIDE DEF rest
<1>3. /\ added \in Seq(SenderKeyState) /\ Len(added) = Len(rest) + 1
      /\ \A i \in 1..Len(rest) : added[i] = rest[i]
      /\ added[Len(rest) + 1] = s
  BY <1>1
<1> HIDE DEF added
<1>4. Unique(added)
  BY <1>1, <1>3 DEF Unique
<1>5. \A i \in DOMAIN added :
        added[i] = s \/ \E j \in DOMAIN rec : added[i] = rec[j] /\ rec[j].id # s.id
  BY <1>1, <1>3
<1>6. CASE Len(added) <= MaxStates
  <2>1. AddSenderKeyState(rec, s) = added
    BY <1>2, <1>3, <1>6 DEF AddSenderKeyState, added, rest
  <2>2. QED
    BY <1>3, <1>4, <1>5, <1>6, <2>1 DEF Record
<1>7. CASE Len(added) > MaxStates
  <2> DEFINE tail == Tail(added)
  <2>1. AddSenderKeyState(rec, s) = tail
    BY <1>2, <1>3, <1>7 DEF AddSenderKeyState, added, rest
  <2>2. /\ tail \in Seq(SenderKeyState) /\ Len(tail) = Len(added) - 1
        /\ \A i \in 1..(Len(added) - 1) : tail[i] = added[i + 1]
        /\ Len(tail) > 0
    BY <1>1, <1>2, <1>3, <1>7
  <2> HIDE DEF tail
  <2>3. Unique(tail)
    <3>1. \A i \in DOMAIN tail : i \in Nat /\ i + 1 \in DOMAIN added /\ tail[i] = added[i + 1]
      BY <1>3, <2>2
    <3>2. ASSUME NEW i \in DOMAIN tail, NEW j \in DOMAIN tail, tail[i].id = tail[j].id
          PROVE  i = j
      <4>1. i + 1 = j + 1
        BY <1>4, <3>1, <3>2 DEF Unique
      <4>2. QED
        BY <3>1, <4>1
    <3>3. QED
      BY <3>2 DEF Unique
  <2>4. \A i \in DOMAIN tail :
          tail[i] = s \/ \E j \in DOMAIN rec : tail[i] = rec[j] /\ rec[j].id # s.id
    BY <1>3, <1>5, <2>2
  <2>5. Len(tail) <= MaxStates
    BY <1>1, <1>2, <1>3, <2>2
  <2>6. QED
    BY <2>1, <2>2, <2>3, <2>4, <2>5 DEF Record
<1>8. QED
  BY <1>1, <1>2, <1>3, <1>6, <1>7

LEMMA ReplaceIsRecord ==
  ASSUME NEW rec \in Record, NEW at \in DOMAIN rec, NEW s \in SenderKeyState,
         s.id = rec[at].id
  PROVE  /\ Replace(rec, rec[at], s) \in Record
         /\ Replace(rec, rec[at], s) # <<>>
         /\ DOMAIN Replace(rec, rec[at], s) = DOMAIN rec
         /\ Replace(rec, rec[at], s)[at] = s
         /\ \A i \in DOMAIN rec : i # at =>
              Replace(rec, rec[at], s)[i] = rec[i] /\ rec[i].id # s.id
<1> DEFINE new == Replace(rec, rec[at], s)
<1>1. rec \in Seq(SenderKeyState) /\ Len(rec) <= MaxStates /\ Unique(rec)
  BY DEF Record
<1>2. new = [i \in 1..Len(rec) |-> IF rec[i] = rec[at] THEN s ELSE rec[i]]
  BY <1>1 DEF Replace
<1> HIDE DEF new
<1>3. new \in Seq(SenderKeyState) /\ Len(new) = Len(rec) /\ DOMAIN new = DOMAIN rec
  BY <1>1, <1>2
<1>4. /\ new[at] = s
      /\ \A i \in DOMAIN rec : i # at => new[i] = rec[i] /\ rec[i].id # s.id
  BY <1>1, <1>2 DEF Unique
<1>5. Unique(new)
  BY <1>1, <1>3, <1>4 DEF Unique
<1>6. new # <<>>
  BY <1>3
<1>7. QED
  BY <1>1, <1>3, <1>4, <1>5, <1>6 DEF Record, new

------------------------------------------------------------------------------
(* What getSenderKey leaves of a state.                                    *)

LEMMA AddSenderMessageKeysBounds ==
  ASSUME NEW s \in SenderKeyState, NEW n \in Nat, s.iteration <= n,
         \A k \in s.messageKeys : k < s.iteration
  PROVE  LET keys == AddSenderMessageKeys(s, s.iteration..(n - 1))
         IN  /\ keys \subseteq s.messageKeys \cup s.iteration..(n - 1)
             /\ \A k \in s.messageKeys \cup s.iteration..(n - 1) :
                  k \in keys \/ k + MaxMessageKeys + 1 < n + 1
<1> DEFINE all == s.messageKeys \cup s.iteration..(n - 1)
           above(k) == {j \in all : j > k}
<1>1. MaxMessageKeys \in Nat /\ s.iteration \in Nat /\ s.messageKeys \in SUBSET Nat
  BY LimitsAssumption DEF SenderKeyState
<1>2. \A k \in all : k \in Nat /\ k <= n - 1
  BY <1>1
<1> HIDE DEF all
<1>3. ASSUME NEW k \in all, Cardinality(above(k)) >= MaxMessageKeys
      PROVE  k + MaxMessageKeys + 1 < n + 1
  <2>1. above(k) \subseteq (k + 1)..(n - 1)
    BY <1>2
  <2>2. /\ IsFiniteSet((k + 1)..(n - 1))
        /\ Cardinality((k + 1)..(n - 1)) = n - 1 - k
    <3>1. k \in Nat /\ k + 1 <= n /\ n - 1 \in Int /\ k + 1 \in Int
      BY <1>2
    <3>2. Cardinality((k + 1)..(n - 1)) =
            IF k + 1 > n - 1 THEN 0 ELSE (n - 1) - (k + 1) + 1
      BY <3>1, FS_Interval
    <3>3. QED
      BY <3>1, <3>2, FS_Interval
  <2>3. Cardinality(above(k)) <= n - 1 - k /\ Cardinality(above(k)) \in Nat
    BY <2>1, <2>2, FS_Subset, FS_CardinalityType
  <2>4. QED
    BY <1>1, <1>2, <1>3, <2>3
<1>4. ASSUME NEW k \in all
      PROVE  Cardinality(above(k)) < MaxMessageKeys \/ Cardinality(above(k)) >= MaxMessageKeys
  <2>1. above(k) \subseteq 0..(n - 1)
    BY <1>2
  <2>2. Cardinality(above(k)) \in Nat
    <3>1. 0 \in Int /\ n - 1 \in Int
      OBVIOUS
    <3>2. IsFiniteSet(0..(n - 1))
      BY <3>1, FS_Interval
    <3>3. QED
      BY <2>1, <3>2, FS_Subset, FS_CardinalityType
  <2>3. QED
    BY <1>1, <2>2
<1>5. AddSenderMessageKeys(s, s.iteration..(n - 1)) =
        {k \in all : Cardinality(above(k)) < MaxMessageKeys}
  BY DEF AddSenderMessageKeys, all
<1> HIDE DEF above
<1>6. QED
  BY <1>3, <1>4, <1>5 DEF all

LEMMA GetSenderKeyFields ==
  ASSUME NEW s \in SenderKeyState, NEW n \in Nat, HasSenderKey(s, n),
         \A k \in s.messageKeys : k < s.iteration
  PROVE  LET t == GetSenderKey(s, n)
         IN  /\ t \in SenderKeyState /\ t.id = s.id /\ t.from = s.from
             /\ t.signing = s.signing
             /\ \/ /\ n < s.iteration /\ n \in s.messageKeys
                   /\ t.iteration = s.iteration /\ t.messageKeys = s.messageKeys \ {n}
                \/ /\ s.iteration <= n /\ t.iteration = n + 1
                   /\ t.messageKeys \subseteq s.messageKeys \cup s.iteration..(n - 1)
                   /\ \A k \in s.messageKeys \cup s.iteration..(n - 1) :
                        k \in t.messageKeys \/ k + MaxMessageKeys + 1 < t.iteration
<1> DEFINE t == GetSenderKey(s, n)
<1>1. s.iteration \in Nat /\ s.messageKeys \in SUBSET Nat
  BY DEF SenderKeyState
<1>2. CASE n < s.iteration
  <2>1. t = [s EXCEPT !.messageKeys = @ \ {n}] /\ n \in s.messageKeys
    BY <1>2 DEF GetSenderKey, RemoveSenderMessageKey, HasSenderKey
  <2>2. s.messageKeys \ {n} \in SUBSET Nat
    BY <1>1
  <2> HIDE DEF t
  <2>3. QED
    BY <1>2, <2>1, <2>2 DEF SenderKeyState, t
<1>3. CASE s.iteration <= n
  <2> DEFINE keys == AddSenderMessageKeys(s, s.iteration..(n - 1))
  <2>1. t = [s EXCEPT !.iteration = n + 1, !.messageKeys = keys]
    BY <1>1, <1>3 DEF GetSenderKey, StepToSenderKey
  <2>2. /\ keys \subseteq s.messageKeys \cup s.iteration..(n - 1)
        /\ \A k \in s.messageKeys \cup s.iteration..(n - 1) :
             k \in keys \/ k + MaxMessageKeys + 1 < n + 1
    BY <1>3, AddSenderMessageKeysBounds
  <2> HIDE DEF keys, t
  <2>3. keys \in SUBSET Nat
    BY <1>1, <2>2
  <2>4. /\ t \in SenderKeyState /\ t.id = s.id /\ t.from = s.from
        /\ t.signing = s.signing /\ t.iteration = n + 1 /\ t.messageKeys = keys
    <3>1. n + 1 \in Nat
      OBVIOUS
    <3>2. QED
      BY <2>1, <2>3, <3>1 DEF SenderKeyState
  <2>5. QED
    BY <1>3, <2>2, <2>4 DEF t
<1>4. QED
  BY <1>1, <1>2, <1>3

------------------------------------------------------------------------------
(* What the steps do to the records.                                       *)

LEMMA Records ==
  ASSUME TypeOK, RecordInv
  PROVE  /\ record \in [Members -> Record]
         /\ \A p \in Members : States(p) \subseteq SenderKeyState
         /\ \A p \in Members : \A s, t \in States(p) : s.id = t.id => s = t
BY DEF TypeOK, RecordInv, Record, Unique, States

(* A record becomes one in which at most one state is new, and whatever     *)
(* else is left is of other key ids.                                       *)
Becomes(p, s) ==
  /\ record' \in [Members -> Record] /\ record'[p] # <<>>
  /\ \A q \in Members : q # p => record'[q] = record[q]
  /\ \A t \in States(p)' : t = s \/ (t \in States(p) /\ t.id # s.id)

LEMMA BecomesUnique ==
  ASSUME NEW p \in Members, NEW s, Becomes(p, s)
  PROVE  /\ \A q \in Members : Unique(record'[q])
         /\ \A q \in Members : q # p => States(q)' = States(q)
BY DEF Becomes, Record, States

LEMMA SetBecomes ==
  ASSUME TypeOK, RecordInv, NEW p \in Members, NEW s \in SenderKeyState,
         record' = [record EXCEPT ![p] = <<s>>]
  PROVE  Becomes(p, s)
<1>1. <<s>> \in Record
  <2>1. Len(<<s>>) <= MaxStates
    BY LimitsAssumption
  <2>2. <<s>> \in Seq(SenderKeyState) /\ Unique(<<s>>)
    BY DEF Unique
  <2>3. QED
    BY <2>1, <2>2 DEF Record
<1>2. record'[p] = <<s>> /\ \A q \in Members : q # p => record'[q] = record[q]
  BY Records
<1>3. record' \in [Members -> Record]
  BY <1>1, Records
<1>4. States(p)' = {s}
  BY <1>2 DEF States
<1>5. QED
  BY <1>2, <1>3, <1>4 DEF Becomes

LEMMA AddBecomes ==
  ASSUME TypeOK, RecordInv, NEW p \in Members, NEW s \in SenderKeyState,
         record' = [record EXCEPT ![p] = AddSenderKeyState(@, s)]
  PROVE  Becomes(p, s)
<1> DEFINE new == AddSenderKeyState(record[p], s)
<1>1. /\ new \in Record /\ new # <<>>
      /\ \A i \in DOMAIN new :
           new[i] = s \/ \E j \in DOMAIN record[p] : new[i] = record[p][j] /\ record[p][j].id # s.id
  BY Records, AddSenderKeyStateIsRecord
<1> HIDE DEF new
<1>2. record' = [record EXCEPT ![p] = new]
  BY DEF new
<1>3. record'[p] = new /\ \A q \in Members : q # p => record'[q] = record[q]
  BY <1>2, Records
<1>4. record' \in [Members -> Record]
  BY <1>1, <1>2, Records
<1>5. \A t \in States(p)' : t = s \/ (t \in States(p) /\ t.id # s.id)
  BY <1>1, <1>3 DEF States
<1>6. QED
  BY <1>1, <1>3, <1>4, <1>5 DEF Becomes

LEMMA ReplaceBecomes ==
  ASSUME TypeOK, RecordInv, NEW p \in Members, NEW old \in States(p),
         NEW s \in SenderKeyState, s.id = old.id,
         record' = [record EXCEPT ![p] = Replace(@, old, s)]
  PROVE  Becomes(p, s)
<1>1. PICK at \in DOMAIN record[p] : old = record[p][at]
  BY DEF States
<1> DEFINE new == Replace(record[p], old, s)
<1>2. /\ new \in Record /\ new # <<>> /\ DOMAIN new = DOMAIN record[p]
      /\ new[at] = s
      /\ \A i \in DOMAIN record[p] : i # at => new[i] = record[p][i] /\ record[p][i].id # s.id
  <2>1. record[p] \in Record /\ s.id = record[p][at].id
    BY <1>1, Records
  <2>2. QED
    BY <1>1, <2>1, ReplaceIsRecord
<1> HIDE DEF new
<1>3. record' = [record EXCEPT ![p] = new]
  BY DEF new
<1>4. record'[p] = new /\ \A q \in Members : q # p => record'[q] = record[q]
  BY <1>3, Records
<1>5. record' \in [Members -> Record]
  BY <1>2, <1>3, Records
<1>6. \A t \in States(p)' : t = s \/ (t \in States(p) /\ t.id # s.id)
  BY <1>2, <1>4 DEF States
<1>7. QED
  BY <1>2, <1>4, <1>5, <1>6 DEF Becomes

LEMMA RecordType ==
  ASSUME record' \in [Members -> Record]
  PROVE  /\ record' \in [Members -> Seq(SenderKeyState)]
         /\ \A p \in Members : Len(record'[p]) <= MaxStates
BY DEF Record

------------------------------------------------------------------------------
(* What stays true while distributions and messages come along.            *)

LEMMA SentGrows ==
  ASSUME network \subseteq network'
  PROVE  \A id, i : SentBefore(id, i) => SentBefore(id, i)'
BY DEF SentBefore, Sent

LEMMA StateStays ==
  ASSUME TypeOK, TypeOK', network \subseteq network', handedOut \subseteq handedOut',
         rotations <= rotations'
  PROVE  \A p \in Members, s \in SenderKeyState :
           StateOK(p, s) /\ (s.signing => UNCHANGED <<network, rotations>>) => StateOK(p, s)'
BY SentGrows DEF StateOK, TypeOK, SenderKeyState

LEMMA UseStays ==
  ASSUME NEW p \in Members, NEW s, UseOK(p, s),
         \A m : m.id = s.id => (m \in network' <=> m \in network)
         /\ (m \in used'[p] <=> m \in used[p])
  PROVE  UseOK(p, s)'
BY DEF UseOK

LEMMA DistributionStays ==
  ASSUME TypeOK, TypeOK', UNCHANGED network, rotations <= rotations'
  PROVE  \A d \in Distribution : DistributionOK(d) => DistributionOK(d)'
BY SentGrows DEF DistributionOK, TypeOK, Distribution

------------------------------------------------------------------------------
(* create, rotate and process.                                             *)

LEMMA NewKeyFields ==
  ASSUME NEW id \in Nat, IsFiniteSet(network)
  PROVE  /\ NewKey(id) \in Distribution /\ NewKey(id).id = id /\ NewKey(id).iteration = 0
         /\ NewKey(id).sent = Cardinality(network) /\ NewKey(id).rotation = id
<1> DEFINE sent == Cardinality(network)
<1>1. sent \in Nat
  BY FS_CardinalityType
<1> HIDE DEF sent
<1>2. NewKey(id) = [id |-> id, iteration |-> 0, sent |-> sent, rotation |-> id,
                    signing |-> TRUE]
  BY DEF NewKey, sent
<1>3. QED
  BY <1>1, <1>2 DEF Distribution, sent

LEMMA NewStateFields ==
  ASSUME NEW d \in Distribution, NEW signing \in BOOLEAN
  PROVE  /\ NewState(d, signing) \in SenderKeyState
         /\ NewState(d, signing).id = d.id /\ NewState(d, signing).from = d
         /\ NewState(d, signing).iteration = d.iteration
         /\ NewState(d, signing).messageKeys = {}
         /\ NewState(d, signing).signing = signing
BY DEF NewState, SenderKeyState, Distribution

LEMMA DistributionOfFields ==
  ASSUME TypeOK, MessageInv, NEW s \in SenderKeyState, StateOK(Sender, s)
  PROVE  DistributionOf(s) \in Distribution /\ DistributionOK(DistributionOf(s))
<1> DEFINE d == DistributionOf(s)
           sent == Cardinality(network)
<1>1. sent \in Nat
  BY FS_CardinalityType DEF MessageInv
<1>2. d = [id |-> s.id, iteration |-> s.iteration, sent |-> sent, rotation |-> rotations,
           signing |-> s.signing]
  BY DEF DistributionOf
<1> HIDE DEF d
<1>3. d \in Distribution
  BY <1>1, <1>2 DEF SenderKeyState, Distribution, TypeOK
<1>4. d.id = s.id /\ d.iteration = s.iteration /\ d.sent = sent /\ d.rotation = rotations
      /\ d.signing = s.signing
  BY <1>2
<1>5. /\ d.id <= rotations /\ SentBefore(d.id, d.iteration)
      /\ d.signing => d.id = rotations /\ \A m \in network : m.id = d.id => m.iteration < d.iteration
  BY <1>4 DEF StateOK
<1>6. \A m \in network : m.iteration \in Nat
  BY DEF TypeOK, SenderKeyMessage
<1>7. DistributionOK(d)
  BY <1>1, <1>3, <1>4, <1>5, <1>6 DEF DistributionOK, Distribution
<1>8. QED
  BY <1>3, <1>7 DEF d

(* A key of which nothing has been sent.                                   *)
LEMMA NewKeyStateOK ==
  ASSUME TypeOK, MessageInv, NEW id \in Nat,
         \A m \in network : m.id # id
  PROVE  LET s == NewState(NewKey(id), TRUE)
         IN  /\ s \in SenderKeyState /\ s.id = id /\ s.signing /\ s.from.id = id
             /\ s.iteration = 0 /\ s.from.iteration = 0 /\ s.messageKeys = {}
             /\ SentBefore(s.id, s.iteration)
             /\ UseOK(Sender, s)
<1> DEFINE s == NewState(NewKey(id), TRUE)
<1>1. /\ s \in SenderKeyState /\ s.id = id /\ s.signing /\ s.from = NewKey(id)
      /\ s.iteration = 0 /\ s.messageKeys = {} /\ s.from.id = id /\ s.from.iteration = 0
  <2>1. NewKey(id) \in Distribution /\ NewKey(id).id = id /\ NewKey(id).iteration = 0
    BY NewKeyFields DEF MessageInv
  <2>2. QED
    BY <2>1, NewStateFields, Zenon
<1> HIDE DEF s
<1>2. SentBefore(s.id, s.iteration)
  BY <1>1 DEF SentBefore
<1>3. used[Sender] \subseteq network
  BY DEF TypeOK, Members
<1>4. UseOK(Sender, s)
  BY <1>1, <1>3 DEF UseOK
<1>5. QED
  BY <1>1, <1>2, <1>4 DEF s

LEMMA CreateIInv ==
  ASSUME IInv, Create
  PROVE  IInv'
<1>1. TypeOK /\ MessageInv /\ DistributionInv /\ RecordInv /\ EmptyInv
  BY DEF IInv
<1>2. UNCHANGED <<network, rotations, used>> /\ Sender \in Members
  BY DEF Create, Members
<1>3. /\ record' \in [Members -> Record] /\ record'[Sender] # <<>>
      /\ \A q \in Members : Unique(record'[q])
      /\ \A q \in Members : \A s \in States(q)' :
           s \in SenderKeyState /\ StateOK(q, s) /\ UseOK(q, s)
  <2>1. CASE record[Sender] = <<>>
    <3> DEFINE s == NewState(NewKey(0), TRUE)
    <3>1. network = {} /\ rotations = 0 /\ record' = [record EXCEPT ![Sender] = <<s>>]
      BY <1>1, <2>1 DEF Create, EmptyInv
    <3>2. /\ s \in SenderKeyState /\ s.id = 0 /\ s.signing /\ s.from.id = 0
          /\ s.iteration = 0 /\ s.from.iteration = 0 /\ s.messageKeys = {}
          /\ SentBefore(s.id, s.iteration)
          /\ UseOK(Sender, s)
      BY <1>1, <3>1, NewKeyStateOK
    <3> HIDE DEF s
    <3>3. StateOK(Sender, s)
      BY <3>1, <3>2, MembersAssumption DEF StateOK
    <3>4. Becomes(Sender, s)
      BY <1>1, <1>2, <3>1, <3>2, SetBecomes
    <3>5. \A q \in Members : \A t \in States(q)' : t \in States(q) \/ (q = Sender /\ t = s)
      BY <1>2, <3>4, BecomesUnique DEF Becomes
    <3>6. QED
      BY <1>1, <1>2, <3>2, <3>3, <3>4, <3>5, Records, BecomesUnique DEF Becomes, RecordInv
  <2>2. CASE record[Sender] # <<>>
    <3>1. UNCHANGED record
      BY <2>2 DEF Create
    <3>2. \A q \in Members : States(q)' = States(q)
      BY <3>1 DEF States
    <3>3. QED
      BY <1>1, <2>2, <3>1, <3>2, Records DEF RecordInv
  <2>3. QED
    BY <2>1, <2>2
<1>4. PICK s \in States(Sender)' : handedOut' = handedOut \cup {DistributionOf(s)}
  <2>1. record'[Sender] \in Seq(SenderKeyState) /\ record'[Sender] # <<>>
    BY <1>2, <1>3 DEF Record
  <2>2. Len(record'[Sender]) \in DOMAIN record'[Sender]
    BY <2>1
  <2>3. QED
    BY <2>2 DEF Create, Last, States
<1>5. DistributionOf(s) \in Distribution /\ DistributionOK(DistributionOf(s))
  BY <1>1, <1>2, <1>3, DistributionOfFields
<1>6. TypeOK'
  BY <1>1, <1>2, <1>3, <1>4, <1>5, RecordType DEF TypeOK
<1>7. RecordInv'
  <2>1. \A q \in Members : \A t \in States(q)' : StateOK(q, t)'
    BY <1>1, <1>2, <1>3, <1>4, <1>6, StateStays DEF TypeOK
  <2>2. \A q \in Members : \A t \in States(q)' : UseOK(q, t)'
    BY <1>2, <1>3 DEF UseOK
  <2>3. QED
    BY <1>3, <2>1, <2>2 DEF RecordInv
<1>8. MessageInv'
  BY <1>1, <1>2 DEF MessageInv, SentBefore, Sent, MessageKeysSealOnce
<1>9. \A d \in handedOut' : DistributionOK(d)
  BY <1>1, <1>4, <1>5 DEF DistributionInv
<1>10. DistributionInv'
  BY <1>2, <1>9 DEF DistributionInv, DistributionOK, SentBefore, Sent
<1>11. EmptyInv'
  BY <1>3 DEF EmptyInv
<1>12. QED
  BY <1>6, <1>7, <1>8, <1>10, <1>11 DEF IInv

LEMMA RotateIInv ==
  ASSUME IInv, Rotate
  PROVE  IInv'
<1>1. TypeOK /\ MessageInv /\ DistributionInv /\ RecordInv
  BY DEF IInv
<1>2. PICK id : id = rotations + 1
  OBVIOUS
<1>3. PICK d : d = NewKey(id)
  OBVIOUS
<1>4. PICK s : s = NewState(d, TRUE)
  OBVIOUS
<1>5. /\ UNCHANGED <<network, used>> /\ Sender \in Members
      /\ rotations' = id /\ rotations \in Nat /\ id \in Nat
      /\ record' = [record EXCEPT ![Sender] = <<s>>]
      /\ handedOut' = handedOut \cup {d}
  BY <1>1, <1>2, <1>3, <1>4 DEF Rotate, Members, TypeOK
<1>6. \A m \in network : m.id # id
  BY <1>1, <1>5, <1>2 DEF MessageInv, TypeOK, SenderKeyMessage
<1>7. /\ d \in Distribution /\ d.id = id /\ d.iteration = 0 /\ d.rotation = id
      /\ d.sent = Cardinality(network)
  BY <1>1, <1>5, <1>3, NewKeyFields DEF MessageInv
<1>8. /\ s \in SenderKeyState /\ s.id = id /\ s.signing /\ s.from.id = id
      /\ s.iteration = 0 /\ s.from.iteration = 0 /\ s.messageKeys = {}
      /\ SentBefore(s.id, s.iteration)
      /\ UseOK(Sender, s)
  BY <1>1, <1>5, <1>6, <1>3, <1>4, NewKeyStateOK
<1>9. Becomes(Sender, s)
  BY <1>1, <1>5, <1>8, SetBecomes
<1>10. States(Sender)' = {s}
  <2>1. record'[Sender] = <<s>>
    BY <1>1, <1>5, Records
  <2>2. QED
    BY <2>1 DEF States
<1>11. TypeOK'
  BY <1>1, <1>5, <1>7, <1>9, RecordType DEF TypeOK, Becomes
<1>12. MessageInv'
  <2>1. \A m \in network : m.id \in Nat /\ m.id <= id
    BY <1>1, <1>5, <1>2 DEF MessageInv, TypeOK, SenderKeyMessage
  <2>2. QED
    BY <1>1, <1>5, <2>1 DEF MessageInv, SentBefore, Sent, MessageKeysSealOnce
<1>13. DistributionOK(d)'
  <2>1. SentBefore(d.id, d.iteration)'
    BY <1>7 DEF SentBefore
  <2>2. Cardinality(network) \in Nat
    BY <1>1, FS_CardinalityType DEF MessageInv
  <2>3. QED
    BY <1>5, <1>6, <1>7, <2>1, <2>2 DEF DistributionOK
<1>14. DistributionInv'
  <2>1. \A e \in handedOut : DistributionOK(e)'
    BY <1>1, <1>5, <1>11, <1>2, DistributionStays DEF DistributionInv, TypeOK
  <2>2. QED
    BY <1>5, <1>13, <2>1 DEF DistributionInv
<1>15. RecordInv'
  <2>1. ASSUME NEW q \in Members, NEW t \in States(q)' PROVE StateOK(q, t)' /\ UseOK(q, t)'
    <3>1. CASE q = Sender
      <4>1. t = s
        BY <1>10, <2>1, <3>1
      <4>2. StateOK(Sender, s)'
        BY <1>5, <1>6, <1>8, SentGrows, MembersAssumption DEF StateOK
      <4>3. UseOK(Sender, s)'
        BY <1>5, <1>8 DEF UseOK
      <4>4. QED
        BY <3>1, <4>1, <4>2, <4>3
    <3>2. CASE q # Sender
      <4>1. t \in States(q) /\ t \in SenderKeyState /\ StateOK(q, t) /\ UseOK(q, t)
        BY <1>1, <1>5, <1>9, <2>1, <3>2, BecomesUnique, Records DEF RecordInv
      <4>2. ~t.signing
        BY <3>2, <4>1 DEF StateOK
      <4>3. rotations <= rotations'
        BY <1>5, <1>2
      <4>4. StateOK(q, t)'
        BY <1>1, <1>5, <1>11, <4>1, <4>2, <4>3, StateStays
      <4>5. UseOK(q, t)'
        BY <1>5, <4>1 DEF UseOK
      <4>6. QED
        BY <4>4, <4>5
    <3>3. QED
      BY <3>1, <3>2
  <2>2. QED
    BY <1>5, <1>9, <2>1, BecomesUnique DEF RecordInv
<1>16. EmptyInv'
  BY <1>9 DEF EmptyInv, Becomes
<1>17. QED
  BY <1>11, <1>12, <1>14, <1>15, <1>16 DEF IInv

LEMMA ProcessIInv ==
  ASSUME IInv, NEW p \in Members, NEW d \in handedOut, Process(p, d)
  PROVE  IInv'
<1> DEFINE s == NewState(d, FALSE)
<1>1. TypeOK /\ MessageInv /\ DistributionInv /\ RecordInv /\ EmptyInv
  BY DEF IInv
<1>2. /\ UNCHANGED <<handedOut, network, rotations>>
      /\ record' = [record EXCEPT ![p] = AddSenderKeyState(@, s)]
      /\ used' = [used EXCEPT ![p] = {m \in @ : m.id # d.id}]
  BY DEF Process
<1>3. /\ d \in Distribution /\ DistributionOK(d)
      /\ s \in SenderKeyState /\ s.id = d.id /\ s.from = d /\ s.iteration = d.iteration
      /\ s.messageKeys = {} /\ s.signing = FALSE
  BY <1>1, NewStateFields DEF TypeOK, DistributionInv
<1> HIDE DEF s
<1>4. Becomes(p, s)
  BY <1>1, <1>2, <1>3, AddBecomes
<1>5. /\ used'[p] = {m \in used[p] : m.id # d.id}
      /\ \A q \in Members : q # p => used'[q] = used[q]
      /\ used' \in [Members -> SUBSET network']
  BY <1>1, <1>2 DEF TypeOK
<1>6. TypeOK'
  BY <1>1, <1>2, <1>4, <1>5, RecordType DEF TypeOK, Becomes
<1>7. MessageInv' /\ DistributionInv'
  BY <1>1, <1>2
  DEF MessageInv, SentBefore, Sent, MessageKeysSealOnce, DistributionInv, DistributionOK
<1>8. StateOK(p, s)
  <2>1. d.iteration \in Nat
    BY <1>3 DEF Distribution
  <2>2. QED
    BY <1>3, <2>1 DEF StateOK, DistributionOK
<1>9. UseOK(p, s)'
  <2>1. s.iteration \in Nat
    BY <1>3 DEF SenderKeyState
  <2>2. \A m \in network' : m.iteration \in Nat
    BY <1>6 DEF TypeOK, SenderKeyMessage
  <2>3. QED
    BY <1>3, <1>5, <2>1, <2>2 DEF UseOK
<1>10. ASSUME NEW q \in Members, NEW t \in States(q)' PROVE StateOK(q, t)' /\ UseOK(q, t)'
  <2>1. \/ q = p /\ t = s
        \/ t \in States(q) /\ (q = p => t.id # s.id)
    BY <1>4, <1>10, BecomesUnique DEF Becomes
  <2>2. CASE q = p /\ t = s
    BY <1>1, <1>2, <1>3, <1>6, <1>8, <1>9, <2>2, StateStays DEF TypeOK
  <2>3. CASE t \in States(q) /\ (q = p => t.id # s.id)
    <3>1. t \in SenderKeyState /\ StateOK(q, t) /\ UseOK(q, t)
      BY <1>1, <2>3, Records DEF RecordInv
    <3>2. StateOK(q, t)'
      BY <1>1, <1>2, <1>6, <3>1, StateStays DEF TypeOK
    <3>3. \A m : m.id = t.id => (m \in used'[q] <=> m \in used[q])
      BY <1>3, <1>5, <2>3
    <3>4. UseOK(q, t)'
      BY <1>2, <3>1, <3>3, UseStays
    <3>5. QED
      BY <3>2, <3>4
  <2>4. QED
    BY <2>1, <2>2, <2>3
<1>11. RecordInv'
  BY <1>4, <1>10, BecomesUnique DEF RecordInv
<1>12. EmptyInv'
  BY <1>1, <1>2, <1>4 DEF EmptyInv, Becomes, Members
<1>13. QED
  BY <1>6, <1>7, <1>11, <1>12 DEF IInv

------------------------------------------------------------------------------
(* encrypt and decrypt.                                                    *)

LEMMA EncryptIInv ==
  ASSUME IInv, Encrypt
  PROVE  IInv'
<1>1. TypeOK /\ MessageInv /\ DistributionInv /\ RecordInv
  BY DEF IInv
<1>2. PICK s : s = Last(record[Sender])
  OBVIOUS
<1>3. PICK m : m = [id |-> s.id, iteration |-> s.iteration,
                    sent |-> Cardinality(network), rotation |-> rotations]
  OBVIOUS
<1>4. PICK t : t = AfterEncrypt(s)
  OBVIOUS
<1>5. /\ s \in States(Sender) /\ s \in SenderKeyState /\ s.signing
      /\ StateOK(Sender, s) /\ UseOK(Sender, s) /\ Sender \in Members
  <2>1. record[Sender] \in Seq(SenderKeyState) /\ record[Sender] # <<>> /\ Sender \in Members
    BY <1>1 DEF TypeOK, Encrypt, Members
  <2>2. Len(record[Sender]) \in DOMAIN record[Sender]
    BY <2>1
  <2>3. s \in States(Sender)
    BY <1>2, <2>2 DEF Last, States
  <2>4. QED
    BY <1>1, <1>2, <2>1, <2>3, Records DEF Encrypt, RecordInv
<1>6. /\ record' = [record EXCEPT ![Sender] = Replace(@, s, t)]
      /\ network' = network \cup {m}
      /\ used' = [used EXCEPT ![Sender] = @ \cup {m}]
      /\ UNCHANGED <<handedOut, rotations>>
  BY <1>2, <1>3, <1>4 DEF Encrypt
<1>7. /\ s.id = rotations /\ s.messageKeys = {} /\ s.iteration \in Nat /\ s.id \in Nat
      /\ s.from.iteration <= s.iteration /\ s.from.iteration \in Nat
      /\ \A n \in network : n.id = s.id => n.iteration < s.iteration
  BY <1>5 DEF StateOK, SenderKeyState, Distribution
<1>8. /\ t \in SenderKeyState /\ t.id = s.id /\ t.from = s.from /\ t.signing
      /\ t.iteration = s.iteration + 1 /\ t.messageKeys = {}
  <2>1. HasSenderKey(s, s.iteration)
    BY <1>7, LimitsAssumption DEF HasSenderKey
  <2>2. s.iteration..(s.iteration - 1) = {}
    BY <1>7
  <2>3. QED
    BY <1>4, <1>5, <1>7, <2>1, <2>2, GetSenderKeyFields DEF AfterEncrypt
<1>9. /\ m.id = s.id /\ m.iteration = s.iteration /\ m.rotation = rotations
      /\ m.sent = Cardinality(network) /\ m \in SenderKeyMessage /\ m.sent \in Nat
  <2>1. PICK sent : sent = Cardinality(network)
    OBVIOUS
  <2>2. sent \in Nat
    BY <1>1, <2>1, FS_CardinalityType DEF MessageInv
  <2>3. QED
    BY <1>1, <1>3, <1>7, <2>1, <2>2 DEF SenderKeyMessage, TypeOK
<1>10. Becomes(Sender, t)
  BY <1>1, <1>5, <1>6, <1>8, ReplaceBecomes
<1>11. /\ used'[Sender] = used[Sender] \cup {m}
       /\ \A q \in Members : q # Sender => used'[q] = used[q]
       /\ used' \in [Members -> SUBSET network']
  BY <1>1, <1>5, <1>6 DEF TypeOK
<1>12. TypeOK'
  BY <1>1, <1>6, <1>9, <1>10, <1>11, RecordType DEF TypeOK, Becomes
<1>13. /\ m \notin network /\ IsFiniteSet(network')
       /\ Cardinality(network') = Cardinality(network) + 1
  BY <1>1, <1>6, <1>7, <1>9, FS_AddElement DEF MessageInv
<1>14. SentBefore(t.id, t.iteration)' /\ SentBefore(m.id, m.iteration)'
  <2>1. SentBefore(s.id, s.iteration)'
    BY <1>5, <1>6, SentGrows DEF StateOK
  <2>2. Sent(s.id, s.iteration)'
    BY <1>6, <1>9 DEF Sent
  <2>3. \A k \in 0..((s.iteration + 1) - 1) : k \in 0..(s.iteration - 1) \/ k = s.iteration
    BY <1>7
  <2>4. QED
    BY <1>8, <1>9, <2>1, <2>2, <2>3 DEF SentBefore
<1>15. MessageInv'
  <2>1. \A n \in network' : SentBefore(n.id, n.iteration)'
    BY <1>1, <1>6, <1>14, SentGrows DEF MessageInv
  <2>2. \A n \in network' : n.id <= rotations /\ n.rotation = n.id
    BY <1>1, <1>6, <1>7, <1>9 DEF MessageInv
  <2>3. MessageKeysSealOnce'
    BY <1>1, <1>6, <1>7, <1>9 DEF MessageInv, MessageKeysSealOnce
  <2>4. QED
    BY <1>6, <1>13, <2>1, <2>2, <2>3 DEF MessageInv
<1>16. DistributionInv'
  <2>1. ASSUME NEW d \in handedOut PROVE DistributionOK(d)'
    <3>1. d \in Distribution /\ DistributionOK(d)
      BY <1>1, <2>1 DEF DistributionInv, TypeOK
    <3>2. SentBefore(d.id, d.iteration)'
      BY <1>6, <3>1, SentGrows DEF DistributionOK
    <3>3. Cardinality(network) \in Nat /\ d.sent \in Nat
      BY <1>9, <3>1 DEF Distribution
    <3>4. d.sent <= Cardinality(network')
      BY <1>13, <3>1, <3>3 DEF DistributionOK
    <3>5. d.signing => \A n \in network' :
            n.id = d.id /\ n.iteration >= d.iteration => d.sent <= n.sent
      BY <1>6, <1>9, <3>1 DEF DistributionOK
    <3>6. QED
      BY <1>6, <3>1, <3>2, <3>4, <3>5 DEF DistributionOK
  <2>2. QED
    BY <1>6, <2>1 DEF DistributionInv
<1>17. StateOK(Sender, t)' /\ UseOK(Sender, t)'
  <2>1. \A n \in network' : n.id = t.id => n.iteration < t.iteration
    BY <1>6, <1>7, <1>8, <1>9, <1>12 DEF TypeOK, SenderKeyMessage
  <2>2. StateOK(Sender, t)'
    BY <1>5, <1>6, <1>7, <1>8, <1>14, <2>1, MembersAssumption DEF StateOK
  <2>3. ASSUME NEW n \in network' \ used'[Sender], n.id = t.id, t.from.iteration <= n.iteration
        PROVE  n.iteration + MaxMessageKeys + 1 < t.iteration
    <3>1. n \in network \ used[Sender] /\ n.iteration \in Nat
      BY <1>6, <1>11, <1>12, <2>3 DEF TypeOK, SenderKeyMessage
    <3>2. n.iteration + MaxMessageKeys + 1 < s.iteration
      BY <1>5, <1>7, <1>8, <2>3, <3>1 DEF UseOK
    <3>3. QED
      BY <1>7, <1>8, <3>1, <3>2, LimitsAssumption
  <2>4. UseOK(Sender, t)'
    <3>1. used'[Sender] \subseteq network'
      BY <1>5, <1>11
    <3>2. \A n \in used'[Sender] : n.id = t.id =>
            n.iteration < t.iteration /\ n.iteration \notin t.messageKeys
      BY <1>8, <2>1, <3>1
    <3>3. QED
      BY <1>8, <2>3, <3>2 DEF UseOK
  <2>5. QED
    BY <2>2, <2>4
<1>18. ASSUME NEW q \in Members, NEW u \in States(q)', ~(q = Sender /\ u = t)
       PROVE  StateOK(q, u)' /\ UseOK(q, u)'
  <2>1. /\ u \in States(q) /\ (q = Sender => u.id # s.id)
        /\ u \in SenderKeyState /\ StateOK(q, u) /\ UseOK(q, u)
    BY <1>1, <1>5, <1>8, <1>10, <1>18, BecomesUnique, Records DEF Becomes, RecordInv
  <2>2. ~u.signing
    BY <1>7, <2>1 DEF StateOK
  <2>3. StateOK(q, u)'
    BY <1>1, <1>6, <1>12, <2>1, <2>2, StateStays DEF TypeOK
  <2>4. CASE q = Sender
    <3>1. \A n : n.id = u.id => (n \in network' <=> n \in network)
            /\ (n \in used'[q] <=> n \in used[q])
      BY <1>6, <1>9, <1>11, <2>1, <2>4
    <3>2. QED
      BY <2>1, <2>3, <3>1, UseStays
  <2>5. CASE q # Sender
    <3>1. ~(m.id = u.id /\ m.iteration < u.iteration)
      <4>1. SUFFICES ASSUME m.id = u.id, m.iteration < u.iteration PROVE FALSE
        OBVIOUS
      <4>2. m.iteration \in 0..(u.iteration - 1)
        BY <1>7, <1>9, <2>1, <4>1 DEF SenderKeyState
      <4>3. Sent(m.id, m.iteration)
        BY <2>1, <4>1, <4>2 DEF StateOK, SentBefore
      <4>4. QED
        BY <1>7, <1>9, <4>3 DEF Sent
    <3>2. UseOK(q, u)'
      BY <1>6, <1>11, <2>1, <2>5, <3>1 DEF UseOK
    <3>3. QED
      BY <2>3, <3>2
  <2>6. QED
    BY <2>4, <2>5
<1>19. RecordInv'
  <2>1. \A q \in Members : \A u \in States(q)' : StateOK(q, u)' /\ UseOK(q, u)'
    BY <1>17, <1>18
  <2>2. QED
    BY <1>5, <1>10, <2>1, BecomesUnique DEF RecordInv
<1>20. EmptyInv'
  BY <1>10 DEF EmptyInv, Becomes
<1>21. QED
  BY <1>12, <1>15, <1>16, <1>19, <1>20 DEF IInv

LEMMA DecryptIInv ==
  ASSUME IInv, NEW p \in Members, NEW m \in network, Decrypt(p, m)
  PROVE  IInv'
<1>1. TypeOK /\ MessageInv /\ DistributionInv /\ RecordInv /\ EmptyInv
  BY DEF IInv
<1>2. PICK s \in StatesOf(record[p], m.id) :
        /\ HasSenderKey(s, m.iteration)
        /\ record' = [record EXCEPT ![p] = Replace(@, s, GetSenderKey(s, m.iteration))]
  BY DEF Decrypt
<1>3. PICK t : t = GetSenderKey(s, m.iteration)
  OBVIOUS
<1>4. /\ record' = [record EXCEPT ![p] = Replace(@, s, t)]
      /\ used' = [used EXCEPT ![p] = @ \cup {m}]
      /\ UNCHANGED <<handedOut, network, rotations>>
  BY <1>2, <1>3 DEF Decrypt
<1>5. /\ s \in States(p) /\ s.id = m.id /\ s \in SenderKeyState
      /\ StateOK(p, s) /\ UseOK(p, s)
  BY <1>1, <1>2, Records DEF StatesOf, States, RecordInv
<1>6. /\ m.iteration \in Nat /\ s.iteration \in Nat /\ s.from.iteration \in Nat
      /\ s.messageKeys \in SUBSET Nat /\ MaxMessageKeys \in Nat
      /\ \A k \in s.messageKeys : s.from.iteration <= k /\ k < s.iteration
  BY <1>1, <1>5, LimitsAssumption
  DEF TypeOK, SenderKeyMessage, SenderKeyState, Distribution, StateOK
<1>7. /\ t \in SenderKeyState /\ t.id = s.id /\ t.from = s.from
      /\ t.signing = s.signing
      /\ \/ /\ m.iteration < s.iteration /\ m.iteration \in s.messageKeys
            /\ t.iteration = s.iteration /\ t.messageKeys = s.messageKeys \ {m.iteration}
         \/ /\ s.iteration <= m.iteration /\ t.iteration = m.iteration + 1
            /\ t.messageKeys \subseteq s.messageKeys \cup s.iteration..(m.iteration - 1)
            /\ \A k \in s.messageKeys \cup s.iteration..(m.iteration - 1) :
                 k \in t.messageKeys \/ k + MaxMessageKeys + 1 < t.iteration
  BY <1>2, <1>3, <1>5, <1>6, GetSenderKeyFields
(* A state that signs is ahead of all messages and has skipped none.        *)
<1>8. ~s.signing
  BY <1>5, <1>6, <1>7 DEF StateOK
<1>9. Becomes(p, t)
  BY <1>1, <1>4, <1>5, <1>7, ReplaceBecomes
<1>10. /\ used'[p] = used[p] \cup {m}
       /\ \A q \in Members : q # p => used'[q] = used[q]
       /\ used' \in [Members -> SUBSET network']
  BY <1>1, <1>4 DEF TypeOK
<1>11. TypeOK'
  BY <1>1, <1>4, <1>9, <1>10, RecordType DEF TypeOK, Becomes
<1>12. MessageInv' /\ DistributionInv'
  BY <1>1, <1>4
  DEF MessageInv, SentBefore, Sent, MessageKeysSealOnce, DistributionInv, DistributionOK
<1>13. StateOK(p, t)
  <2>1. SentBefore(t.id, t.iteration)
    <3>1. SentBefore(s.id, s.iteration) /\ SentBefore(m.id, m.iteration) /\ Sent(m.id, m.iteration)
      BY <1>1, <1>5 DEF StateOK, MessageInv, Sent
    <3>2. \A k \in 0..(t.iteration - 1) :
            \/ k \in 0..(s.iteration - 1) \/ k \in 0..(m.iteration - 1) \/ k = m.iteration
      BY <1>6, <1>7
    <3>3. QED
      BY <1>5, <1>7, <3>1, <3>2 DEF SentBefore
  <2>2. s.from.iteration <= s.iteration /\ s.from.iteration <= t.iteration
    BY <1>5, <1>6, <1>7 DEF StateOK
  <2>3. \A k \in t.messageKeys : s.from.iteration <= k /\ k < t.iteration
    BY <1>6, <1>7, <2>2
  <2>4. QED
    BY <1>5, <1>7, <1>8, <2>1, <2>2, <2>3 DEF StateOK
<1>14. \A n \in used[p] : n.id = s.id => n.iteration < s.iteration /\ n.iteration \notin s.messageKeys
  BY <1>5 DEF UseOK
<1>15. \A n \in network : n.iteration \in Nat
  BY <1>1 DEF TypeOK, SenderKeyMessage
<1>16. \A n \in network : n.id = s.id /\ n.iteration = m.iteration => n = m
  BY <1>1, <1>5 DEF MessageInv, MessageKeysSealOnce
<1>17. UseOK(p, t)'
  <2>1. ASSUME NEW n \in used'[p], n.id = t.id
        PROVE  n.iteration < t.iteration /\ n.iteration \notin t.messageKeys
    <3>1. CASE n = m
      BY <1>6, <1>7, <3>1
    <3>2. CASE n \in used[p]
      <4>1. n \in network
        BY <1>1, <3>2 DEF TypeOK
      <4>2. n.iteration < s.iteration /\ n.iteration \notin s.messageKeys /\ n.iteration \in Nat
        BY <1>7, <1>14, <1>15, <2>1, <3>2, <4>1
      <4>3. QED
        BY <1>6, <1>7, <4>2
    <3>3. QED
      BY <1>10, <2>1, <3>1, <3>2
  <2>2. ASSUME NEW k \in t.messageKeys
        PROVE  \E n \in network' \ used'[p] : n.id = t.id /\ n.iteration = k
    <3>1. k # m.iteration /\ (k \in s.messageKeys \/ k \in s.iteration..(m.iteration - 1))
      BY <1>6, <1>7, <2>2
    <3>2. CASE k \in s.messageKeys
      BY <1>4, <1>5, <1>7, <1>10, <3>1, <3>2 DEF UseOK
    <3>3. CASE k \in s.iteration..(m.iteration - 1)
      <4>1. k \in 0..(m.iteration - 1) /\ k >= s.iteration /\ k \in Nat
        BY <1>6, <3>3
      <4>2. PICK n \in network : n.id = m.id /\ n.iteration = k
        BY <1>1, <4>1 DEF MessageInv, SentBefore, Sent
      <4>3. n \notin used[p]
        BY <1>5, <1>6, <1>14, <4>1, <4>2
      <4>4. QED
        BY <1>4, <1>5, <1>7, <1>10, <3>1, <4>2, <4>3
    <3>4. QED
      BY <3>1, <3>2, <3>3
  <2>3. ASSUME NEW n \in network' \ used'[p], n.id = t.id, t.from.iteration <= n.iteration,
               n.iteration < t.iteration
        PROVE  n.iteration \in t.messageKeys \/ n.iteration + MaxMessageKeys + 1 < t.iteration
    <3>1. /\ n \in network \ used[p] /\ n # m /\ n.id = s.id /\ n.iteration \in Nat
          /\ n.iteration # m.iteration
      BY <1>4, <1>7, <1>10, <1>15, <1>16, <2>3
    <3>2. n.iteration < s.iteration =>
            n.iteration \in s.messageKeys \/ n.iteration + MaxMessageKeys + 1 < s.iteration
      BY <1>5, <1>7, <2>3, <3>1 DEF UseOK
    <3>3. QED
      BY <1>6, <1>7, <2>3, <3>1, <3>2
  <2>4. QED
    BY <2>1, <2>2, <2>3 DEF UseOK
<1>18. ASSUME NEW q \in Members, NEW u \in States(q)' PROVE StateOK(q, u)' /\ UseOK(q, u)'
  <2>1. \/ q = p /\ u = t
        \/ u \in States(q) /\ (q = p => u.id # t.id)
    BY <1>9, <1>18, BecomesUnique DEF Becomes
  <2>2. CASE q = p /\ u = t
    BY <1>1, <1>4, <1>7, <1>8, <1>11, <1>13, <1>17, <2>2, StateStays DEF TypeOK
  <2>3. CASE u \in States(q) /\ (q = p => u.id # t.id)
    <3>1. u \in SenderKeyState /\ StateOK(q, u) /\ UseOK(q, u)
      BY <1>1, <2>3, Records DEF RecordInv
    <3>2. StateOK(q, u)'
      BY <1>1, <1>4, <1>11, <3>1, StateStays DEF TypeOK
    <3>3. \A n : n.id = u.id => (n \in used'[q] <=> n \in used[q])
      BY <1>5, <1>7, <1>10, <2>3
    <3>4. UseOK(q, u)'
      BY <1>4, <3>1, <3>3, UseStays
    <3>5. QED
      BY <3>2, <3>4
  <2>4. QED
    BY <2>1, <2>2, <2>3
<1>19. RecordInv'
  BY <1>9, <1>18, BecomesUnique DEF RecordInv
<1>20. EmptyInv'
  BY <1>1, <1>4, <1>9 DEF EmptyInv, Becomes, Members
<1>21. QED
  BY <1>11, <1>12, <1>19, <1>20 DEF IInv

------------------------------------------------------------------------------
(* The invariant, and what follows from it.                                *)

LEMMA InitIInv == Init => IInv
<1> SUFFICES ASSUME Init PROVE IInv
  OBVIOUS
<1>1. TypeOK
  BY LimitsAssumption DEF Init, TypeOK
<1>2. MessageInv
  BY FS_EmptySet DEF Init, MessageInv, MessageKeysSealOnce
<1>3. DistributionInv /\ EmptyInv
  BY DEF Init, DistributionInv, EmptyInv
<1>4. RecordInv
  <2>1. ASSUME NEW p \in Members PROVE record[p] = <<>>
    BY DEF Init
  <2>2. \A p \in Members : Unique(record[p]) /\ States(p) = {}
    BY <2>1 DEF Unique, States
  <2>3. QED
    BY <2>2 DEF RecordInv
<1>5. QED
  BY <1>1, <1>2, <1>3, <1>4 DEF IInv

LEMMA NextIInv ==
  ASSUME IInv, [Next]_vars
  PROVE  IInv'
<1>1. CASE UNCHANGED vars
  <2>1. UNCHANGED <<record, handedOut, network, rotations, used>>
    BY <1>1 DEF vars
  <2>2. TypeOK'
    BY <2>1 DEF IInv, TypeOK
  <2>3. MessageInv' /\ DistributionInv' /\ EmptyInv'
    BY <2>1 DEF IInv, MessageInv, DistributionInv, EmptyInv, SentBefore, Sent,
               MessageKeysSealOnce, DistributionOK
  <2>4. RecordInv'
    BY <2>1 DEF IInv, RecordInv, States, StateOK, UseOK, SentBefore, Sent
  <2>5. QED
    BY <2>2, <2>3, <2>4 DEF IInv
<1>2. CASE \E p \in Members : \E m \in network : Reject(p, m)
  BY <1>1, <1>2 DEF Reject
<1>3. QED
  BY <1>1, <1>2, CreateIInv, RotateIInv, ProcessIInv, EncryptIInv, DecryptIInv DEF Next

(* The inductive invariant holds, for any constants: what messages,        *)
(* distributions and the states of every record know of each other.        *)
THEOREM IInvHolds == Spec => []IInv
<1>1. Init => IInv
  BY InitIInv
<1>2. IInv /\ [Next]_vars => IInv'
  BY NextIInv
<1>3. QED
  BY <1>1, <1>2, PTL DEF Spec

(* What IInv says of the state that a message belongs to.                  *)
LEMMA StateOfMessage ==
  ASSUME IInv, NEW p \in Members, NEW m \in network, NEW s \in StatesOf(record[p], m.id)
  PROVE  /\ s \in States(p) /\ s \in SenderKeyState /\ s.id = m.id
         /\ StateOK(p, s) /\ UseOK(p, s)
         /\ \A t \in StatesOf(record[p], m.id) : t = s
         /\ m.iteration \in Nat /\ s.iteration \in Nat /\ s.messageKeys \in SUBSET Nat
         /\ s.from \in Distribution /\ s.from.iteration \in Nat
<1>1. TypeOK /\ RecordInv
  BY DEF IInv
<1>2. /\ s \in States(p) /\ s.id = m.id
      /\ \A t \in StatesOf(record[p], m.id) : t \in States(p) /\ t.id = m.id
  BY DEF StatesOf, States
<1>3. s \in SenderKeyState /\ StateOK(p, s) /\ UseOK(p, s)
      /\ \A t \in StatesOf(record[p], m.id) : t = s
  BY <1>1, <1>2, Records DEF RecordInv
<1>4. QED
  BY <1>1, <1>2, <1>3 DEF TypeOK, SenderKeyMessage, SenderKeyState, Distribution

(* Records keep their bound, and everything its type.                      *)
THEOREM TypeCorrect == Spec => []TypeOK
<1>1. IInv => TypeOK
  BY DEF IInv
<1>2. QED
  BY <1>1, IInvHolds, PTL

(* A message that was opened, or sealed, does not open again on that state. *)
THEOREM NoReplayHolds == Spec => []NoReplay
<1>1. IInv => NoReplay
  <2> SUFFICES ASSUME IInv, NEW p \in Members, NEW m \in used[p],
                      NEW s \in StatesOf(record[p], m.id), HasSenderKey(s, m.iteration)
               PROVE  FALSE
    BY DEF NoReplay, Decryptable
  <2>1. m \in network
    BY DEF IInv, TypeOK
  <2>2. m.iteration < s.iteration /\ m.iteration \notin s.messageKeys
    BY <2>1, StateOfMessage DEF UseOK
  <2>3. QED
    BY <2>2 DEF HasSenderKey
<1>2. QED
  BY <1>1, IInvHolds, PTL

(* No two messages share a message key.                                    *)
THEOREM MessageKeysSealOnceHolds == Spec => []MessageKeysSealOnce
<1>1. IInv => MessageKeysSealOnce
  BY DEF IInv, MessageInv
<1>2. QED
  BY <1>1, IInvHolds, PTL

(* A skipped key in a record is the key of a message its owner still may    *)
(* open.                                                                   *)
THEOREM SkippedKeysAwaitMessagesHolds == Spec => []SkippedKeysAwaitMessages
<1>1. IInv => SkippedKeysAwaitMessages
  <2> SUFFICES ASSUME IInv, NEW p \in Members, NEW i \in DOMAIN record[p],
                      NEW k \in record[p][i].messageKeys
               PROVE  /\ k < record[p][i].iteration
                      /\ \E m \in network \ used[p] :
                           m.id = record[p][i].id /\ m.iteration = k
    BY DEF SkippedKeysAwaitMessages
  <2>1. record[p][i] \in States(p)
    BY DEF States
  <2>2. StateOK(p, record[p][i]) /\ UseOK(p, record[p][i])
    BY <2>1 DEF IInv, RecordInv
  <2>3. QED
    BY <2>2 DEF StateOK, UseOK
<1>2. QED
  BY <1>1, IInvHolds, PTL

(* Only the limits, and later distributions, cost messages.                *)
THEOREM LossOnlyByLimitsHolds == Spec => []LossOnlyByLimits
<1>1. IInv => LossOnlyByLimits
  <2> SUFFICES ASSUME IInv, NEW p \in Members, NEW m \in network \ used[p],
                      NEW s \in StatesOf(record[p], m.id)
               PROVE  \/ Decryptable(p, m)
                      \/ m.iteration < s.from.iteration
                      \/ m.iteration + MaxMessageKeys + 1 < s.iteration
                      \/ m.iteration > s.iteration + MaxJump
    BY DEF LossOnlyByLimits
  <2>1. /\ UseOK(p, s) /\ s.id = m.id /\ m.iteration \in Nat /\ s.iteration \in Nat
        /\ s.from.iteration \in Nat
    BY StateOfMessage
  <2>2. CASE m.iteration < s.iteration
    <3>1. CASE m.iteration \in s.messageKeys
      BY <2>2, <3>1 DEF Decryptable, HasSenderKey
    <3>2. CASE m.iteration \notin s.messageKeys
      BY <2>1, <2>2, <3>2 DEF UseOK
    <3>3. QED
      BY <3>1, <3>2
  <2>3. CASE m.iteration >= s.iteration
    <3>1. CASE m.iteration - s.iteration <= MaxJump
      <4>1. HasSenderKey(s, m.iteration)
        BY <2>1, <2>3, <3>1 DEF HasSenderKey
      <4>2. QED
        BY <4>1 DEF Decryptable
    <3>2. CASE m.iteration - s.iteration > MaxJump
      BY <2>1, <2>3, <3>2, LimitsAssumption
    <3>3. QED
      BY <2>1, <3>1, <3>2, LimitsAssumption
  <2>4. QED
    BY <2>1, <2>2, <2>3
<1>2. QED
  BY <1>1, IInvHolds, PTL

(* A receiver opens nothing that was sealed before it was invited, or after *)
(* a rotation that it was not told of.                                     *)
THEOREM ReadersWereInvitedHolds == Spec => []ReadersWereInvited
<1>1. IInv => ReadersWereInvited
  <2> SUFFICES ASSUME IInv, NEW p \in Receivers, NEW m \in network,
                      NEW s \in StatesOf(record[p], m.id), s.from.signing,
                      HasSenderKey(s, m.iteration)
               PROVE  s.from.sent <= m.sent /\ s.from.rotation = m.rotation
    BY DEF ReadersWereInvited
  <2>1. p \in Members
    BY DEF Members
  <2>2. /\ StateOK(p, s) /\ s.id = m.id /\ m.iteration \in Nat /\ s.iteration \in Nat
        /\ s.messageKeys \in SUBSET Nat /\ s.from.iteration \in Nat
    BY <2>1, StateOfMessage
  <2>3. s.from \in handedOut /\ s.from.id = m.id
    BY <2>2 DEF StateOK
  <2>4. m.iteration >= s.from.iteration
    BY <2>2 DEF StateOK, HasSenderKey
  <2>5. QED
    BY <2>3, <2>4 DEF IInv, DistributionInv, DistributionOK, MessageInv
<1>2. QED
  BY <1>1, IInvHolds, PTL
==============================================================================
