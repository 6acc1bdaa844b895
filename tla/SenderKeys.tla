------------------------------ MODULE SenderKeys ------------------------------
(***************************************************************************)
(* The sender key of one member of a group: group-session-builder.ts makes, *)
(* rotates and processes it, group-cipher.ts seals and opens messages with *)
(* it, over the SenderKeyRecord that every member stores for this sender.  *)
(*                                                                         *)
(* A sender key is known by its key id; ids are random in the code and are *)
(* taken to be fresh here.  The chain key of iteration i leads to the chain *)
(* keys and message keys of i and after, never to those before, so a state *)
(* is its key id and the iteration of its chain key.  A message verifies   *)
(* and decrypts under the state of its key id and no other.                *)
(*                                                                         *)
(* All work on a record runs in jobs of one name, one at a time (module    *)
(* JobQueue), on a copy that is stored as the last step; so each job is one *)
(* action.  Distributions and messages stay in flight for ever: they may be *)
(* processed late, again, or never.  Receivers share nothing, so one of    *)
(* them stands for all.                                                    *)
(***************************************************************************)
EXTENDS Integers, Sequences, FiniteSets

CONSTANTS Sender,          \* the member whose sender key this is
          Receivers,       \* the other members, now and later
          MaxStates,       \* MAX_STATES (5)
          MaxMessageKeys,  \* MAX_MESSAGE_KEYS (2000)
          MaxJump,         \* MAX_JUMP (2000)
          MaxRotations,    \* bound on the rotations
          MaxHandedOut,    \* bound on the distributions create hands out
          MaxSends         \* bound on the messages

Members == {Sender} \cup Receivers

ASSUME MembersAssumption == Sender \notin Receivers
ASSUME LimitsAssumption ==
  /\ MaxStates \in Nat \ {0}
  /\ MaxMessageKeys \in Nat \ {0}
  /\ MaxJump \in Nat
  /\ MaxRotations \in Nat
  /\ MaxHandedOut \in Nat
  /\ MaxSends \in Nat

VARIABLES record,     \* record[p]: the SenderKeyRecord p stores for the sender
          handedOut,  \* the distribution messages made so far
          network,    \* the group messages sent so far
          rotations,  \* how often the sender has rotated
          used        \* used[p]: messages whose keys p used since it last
                      \*   processed a distribution of their key id

vars == <<record, handedOut, network, rotations, used>>

(* sent and rotation say when a distribution or a message was made: after   *)
(* how many messages and rotations; signing, whether the state it was made *)
(* from could sign.  Of these, and of the distribution that a state came   *)
(* from, the code stores nothing; properties speak of them.                *)
Distribution == [id : Nat, iteration : Nat, sent : Nat, rotation : Nat, signing : BOOLEAN]
SenderKeyMessage == [id : Nat, iteration : Nat, sent : Nat, rotation : Nat]

SenderKeyState == [id : Nat, iteration : Nat, messageKeys : SUBSET Nat,
                   signing : BOOLEAN, from : Distribution]

TypeOK ==
  /\ record \in [Members -> Seq(SenderKeyState)]
  /\ \A p \in Members : Len(record[p]) <= MaxStates
  /\ handedOut \subseteq Distribution
  /\ network \subseteq SenderKeyMessage
  /\ rotations \in Nat
  /\ used \in [Members -> SUBSET network]

------------------------------------------------------------------------------
(* SenderKeyRecord and SenderKeyState.                                     *)

Last(rec) == rec[Len(rec)]

StatesOf(rec, id) == {rec[i] : i \in {j \in DOMAIN rec : rec[j].id = id}}

NewState(d, signing) ==
  [id |-> d.id, iteration |-> d.iteration, messageKeys |-> {},
   signing |-> signing, from |-> d]

WithoutId(rec, id) ==
  LET at == CHOOSE i \in DOMAIN rec : rec[i].id = id
  IN  IF StatesOf(rec, id) = {} THEN rec
      ELSE [i \in 1..(Len(rec) - 1) |-> IF i < at THEN rec[i] ELSE rec[i + 1]]

AddSenderKeyStateUnbounded(rec, state) == Append(WithoutId(rec, state.id), state)

(* ... keeping the signing key of the state it replaces.                   *)
AddSenderKeyStateStillSigning(rec, state) ==
  LET signing == state.signing \/ \E old \in StatesOf(rec, state.id) : old.signing
  IN  Append(WithoutId(rec, state.id), [state EXCEPT !.signing = signing])

AddSenderKeyState(rec, state) ==
  LET added == Append(WithoutId(rec, state.id), state)
  IN  IF Len(added) > MaxStates THEN Tail(added) ELSE added

Replace(rec, old, new) == [i \in DOMAIN rec |-> IF rec[i] = old THEN new ELSE rec[i]]

AddSenderMessageKeys(state, keys) ==
  LET all == state.messageKeys \cup keys
  IN  {k \in all : Cardinality({j \in all : j > k}) < MaxMessageKeys}

RemoveSenderMessageKeyLeavingIt(state, iteration) == state

RemoveSenderMessageKey(state, iteration) ==
  [state EXCEPT !.messageKeys = @ \ {iteration}]

------------------------------------------------------------------------------
(* getSenderKey: whether it returns the key of an iteration, and the state  *)
(* it leaves behind.                                                       *)

HasSenderKey(state, iteration) ==
  IF iteration < state.iteration THEN iteration \in state.messageKeys
  ELSE iteration - state.iteration <= MaxJump

(* ... as if the keys in between were not kept.                            *)
StepToSenderKeyDroppingSkipped(state, iteration) ==
  [state EXCEPT !.iteration = iteration + 1]

StepToSenderKey(state, iteration) ==
  [state EXCEPT !.iteration = iteration + 1,
                !.messageKeys =
                   AddSenderMessageKeys(state, state.iteration..(iteration - 1))]

GetSenderKey(state, iteration) ==
  IF iteration < state.iteration THEN RemoveSenderMessageKey(state, iteration)
  ELSE StepToSenderKey(state, iteration)

Decryptable(p, m) == \E state \in StatesOf(record[p], m.id) : HasSenderKey(state, m.iteration)

------------------------------------------------------------------------------
Init ==
  /\ record = [p \in Members |-> <<>>]
  /\ handedOut = {}
  /\ network = {}
  /\ rotations = 0
  /\ used = [p \in Members |-> {}]

DistributionOfBirth(state) ==
  [id |-> state.id, iteration |-> state.from.iteration,
   sent |-> Cardinality(network), rotation |-> rotations, signing |-> state.signing]

DistributionOf(state) ==
  [id |-> state.id, iteration |-> state.iteration,
   sent |-> Cardinality(network), rotation |-> rotations, signing |-> state.signing]

NewKey(id) ==
  [id |-> id, iteration |-> 0, sent |-> Cardinality(network), rotation |-> id, signing |-> TRUE]

Create ==
  /\ Cardinality(handedOut) < MaxHandedOut
  /\ record' = IF record[Sender] = <<>>
               THEN [record EXCEPT ![Sender] = <<NewState(NewKey(rotations), TRUE)>>]
               ELSE record
  /\ handedOut' = handedOut \cup {DistributionOf(Last(record'[Sender]))}
  /\ UNCHANGED <<network, rotations, used>>

Rotate ==
  /\ rotations < MaxRotations
  /\ rotations' = rotations + 1
  /\ LET d == NewKey(rotations + 1)
     IN  /\ record' = [record EXCEPT ![Sender] = <<NewState(d, TRUE)>>]
         /\ handedOut' = handedOut \cup {d}
  /\ UNCHANGED <<network, used>>

Process(p, d) ==
  /\ record' = [record EXCEPT ![p] =
                  AddSenderKeyState(@, NewState(d, FALSE))]
  /\ used' = [used EXCEPT ![p] = {m \in @ : m.id # d.id}]
  /\ UNCHANGED <<handedOut, network, rotations>>

EncryptTwiceAdvanced(state) == GetSenderKey(state, state.iteration + 1)

AfterEncrypt(state) == GetSenderKey(state, state.iteration)

Encrypt ==
  /\ Cardinality(network) < MaxSends
  /\ record[Sender] # <<>>
  /\ LET state == Last(record[Sender])
         m     == [id |-> state.id, iteration |-> state.iteration,
                   sent |-> Cardinality(network), rotation |-> rotations]
     IN  /\ state.signing
         /\ record' = [record EXCEPT ![Sender] = Replace(@, state, AfterEncrypt(state))]
         /\ network' = network \cup {m}
         /\ used' = [used EXCEPT ![Sender] = @ \cup {m}]
  /\ UNCHANGED <<handedOut, rotations>>

Decrypt(p, m) ==
  /\ \E state \in StatesOf(record[p], m.id) :
       /\ HasSenderKey(state, m.iteration)
       /\ record' = [record EXCEPT ![p] =
                       Replace(@, state, GetSenderKey(state, m.iteration))]
  /\ used' = [used EXCEPT ![p] = @ \cup {m}]
  /\ UNCHANGED <<handedOut, network, rotations>>

Reject(p, m) ==
  /\ ~Decryptable(p, m)
  /\ UNCHANGED vars

Next ==
  \/ Create
  \/ Rotate
  \/ \E p \in Members : \E d \in handedOut : Process(p, d)
  \/ Encrypt
  \/ \E p \in Members : \E m \in network : Decrypt(p, m) \/ Reject(p, m)

Spec == Init /\ [][Next]_vars

------------------------------------------------------------------------------
(* Properties.                                                             *)

(* A message key opens or seals one message: once used it is gone, until a  *)
(* distribution of the same key id is processed and starts that state over. *)
NoReplay ==
  \A p \in Members : \A m \in used[p] : ~Decryptable(p, m)

(* No two messages share a message key, whatever the sender processes: a    *)
(* state that starts over at an iteration already used cannot sign.        *)
MessageKeysSealOnce ==
  \A m, n \in network : m.id = n.id /\ m.iteration = n.iteration => m = n

(* Each message consumes exactly one iteration (group-cipher.ts:43-45): a   *)
(* skipped key in a record is the key of a message that is still to come.  *)
SkippedKeysAwaitMessages ==
  \A p \in Members : \A i \in DOMAIN record[p] : \A k \in record[p][i].messageKeys :
    /\ k < record[p][i].iteration
    /\ \E m \in network \ used[p] : m.id = record[p][i].id /\ m.iteration = k

(* A message in flight opens when it arrives if the record still has the    *)
(* state of its key id, the state did not start after it, its skipped key   *)
(* was not pruned and it is not too far ahead.                             *)
LossOnlyByLimits ==
  \A p \in Members : \A m \in network \ used[p] :
    \A state \in StatesOf(record[p], m.id) :
      \/ Decryptable(p, m)
      \/ m.iteration < state.from.iteration
      \/ m.iteration + MaxMessageKeys + 1 < state.iteration
      \/ m.iteration > state.iteration + MaxJump

(* What a receiver can open was sent after the distribution it started from *)
(* was made, with no rotation in between: neither does a late joiner read  *)
(* what went before, nor a member that left what follows a rotation.  (A   *)
(* sender that has processed a distribution of its own hands out the       *)
(* iteration it has gone back to; from that state it cannot sign.)         *)
ReadersWereInvited ==
  \A p \in Receivers : \A m \in network : \A state \in StatesOf(record[p], m.id) :
    state.from.signing /\ HasSenderKey(state, m.iteration) =>
      state.from.sent <= m.sent /\ state.from.rotation = m.rotation
==============================================================================
