---------------------------- MODULE DoubleRatchet ----------------------------
(***************************************************************************)
(* One session between two devices: session-cipher.ts over the SessionEntry *)
(* of session-record.ts, opened by session-builder.ts.                     *)
(*                                                                         *)
(* Cryptography is symbolic.  A ratchet key pair is <<owner, generation>>; *)
(* an agreement is the set of the two public keys; a root key is the       *)
(* sequence of the agreements mixed into it since the X3DH secret, and the *)
(* chain key that HKDF derives next to a root key is named after that root *)
(* key, its seed.  The message key of a chain is <<seed, counter>>.  A     *)
(* message carries the seed it was sealed under, so that verifyMAC and     *)
(* decrypt succeed exactly when the receiver derived the same seed.        *)
(*                                                                         *)
(* Some operators stand beside a variant with a slip of the kind this code *)
(* invites (LeaveMessageKey beside TakeMessageKey); nothing uses these but *)
(* the sensitivity check of the properties, which swaps one in.            *)
(*                                                                         *)
(* Jobs of one address run one at a time (queue-job.ts, module JobQueue),  *)
(* so every job is one action here.  The network keeps every message for   *)
(* ever: loss, reordering and duplication are choices of what to receive.  *)
(***************************************************************************)
EXTENDS Integers, Sequences, FiniteSets

CONSTANTS Initiator,         \* the device that calls initOutgoing
          Responder,         \* the device whose bundle it fetched
          MaxReceiverChains, \* MAX_RECEIVER_CHAINS (5)
          MaxMessageKeys,    \* MAX_MESSAGE_KEYS (2000)
          MaxFuture,         \* how far ahead fillMessageKeys goes (2000)
          MaxSends           \* bound on the messages each device sends

ASSUME PartiesAssumption == Initiator # Responder
ASSUME LimitsAssumption ==
  /\ MaxReceiverChains \in Nat \ {0}
  /\ MaxMessageKeys \in Nat \ {0}
  /\ MaxFuture \in Nat
  /\ MaxSends \in Nat

VARIABLES session,    \* session[p]: at most one stored SessionEntry, as a set
          preKeys,    \* one-time prekeys the responder still stores
          network,    \* every message ever sent
          delivered,  \* delivered[p]: messages whose plaintext p returned
          plaintexts  \* plaintexts[p]: how many plaintexts p returned

vars == <<session, preKeys, network, delivered, plaintexts>>

Parties == {Initiator, Responder}
PublicKey == Parties \X Nat
RootKey == Seq(SUBSET PublicKey)

Chain == [key : PublicKey, type : {"SENDING", "RECEIVING"}, seed : RootKey,
          counter : Nat \cup {-1}, open : BOOLEAN, messageKeys : SUBSET Nat]

Session == [root : RootKey, ephemeral : PublicKey, lastRemote : PublicKey,
            previousCounter : Nat \cup {-1}, chains : SUBSET Chain,
            pendingPreKey : BOOLEAN]

Message == [from : Parties, id : Nat, ephemeral : PublicKey, counter : Nat,
            previousCounter : Nat \cup {-1}, seed : RootKey, preKey : BOOLEAN]

TypeOK ==
  /\ session \in [Parties -> SUBSET Session]
  /\ preKeys \subseteq {Responder}
  /\ network \subseteq Message
  /\ delivered \in [Parties -> SUBSET network]
  /\ plaintexts \in [Parties -> Nat]

------------------------------------------------------------------------------
(* SessionEntry and fillMessageKeys.                                       *)

ChainsFor(s, key) == {c \in s.chains : c.key = key}

HasChain(s, key) == ChainsFor(s, key) # {}

GetChain(s, key) == CHOOSE c \in ChainsFor(s, key) : TRUE

NewChainBehind(key, type, seed) ==
  [key |-> key, type |-> type, seed |-> seed,
   counter |-> -2, open |-> TRUE, messageKeys |-> {}]

NewChain(key, type, seed) ==
  [key |-> key, type |-> type, seed |-> seed,
   counter |-> -1, open |-> TRUE, messageKeys |-> {}]

(* Each addChain follows one more agreement mixed into the root key, so the *)
(* length of the seed is the insertion order of the chain.                 *)
NewerReceivers(chains, c) ==
  {d \in chains : d.type = "RECEIVING" /\ Len(d.seed) > Len(c.seed)}

RemoveOldReceiverChainsLate(chains) ==
  {c \in chains : c.type = "RECEIVING" =>
                    Cardinality(NewerReceivers(chains, c)) <= MaxReceiverChains}

RemoveOldReceiverChains(chains) ==
  {c \in chains : c.type = "RECEIVING" =>
                    Cardinality(NewerReceivers(chains, c)) < MaxReceiverChains}

PruneMessageKeys(keys) ==
  {k \in keys : Cardinality({j \in keys : j > k}) < MaxMessageKeys}

CanFill(c, counter) ==
  counter > c.counter => c.open /\ counter - c.counter <= MaxFuture

FillMessageKeysInPlace(c, counter) ==
  [c EXCEPT !.messageKeys = PruneMessageKeys(@ \cup (c.counter + 1)..counter)]

FillMessageKeysRewinding(c, counter) ==
  [c EXCEPT !.counter = counter,
            !.messageKeys = PruneMessageKeys(@ \cup (c.counter + 1)..counter)]

FillMessageKeys(c, counter) ==
  IF counter > c.counter
  THEN [c EXCEPT !.counter = counter,
                 !.messageKeys = PruneMessageKeys(@ \cup (c.counter + 1)..counter)]
  ELSE c

LeaveMessageKey(c, counter) == c

TakeMessageKey(c, counter) == [c EXCEPT !.messageKeys = @ \ {counter}]

------------------------------------------------------------------------------
(* maybeStepRatchet, on a candidate copy of the session.                   *)

Agreement(remote, own) == {remote, own}

NextKeyPair(own) == <<own[1], own[2] + 1>>

CanStep(s, previousCounter) ==
  \A c \in ChainsFor(s, s.lastRemote) : CanFill(c, previousCounter)

CloseChainUnfilled(c, previousCounter) == [c EXCEPT !.open = FALSE]

CloseChainOneMore(c, previousCounter) ==
  [FillMessageKeys(c, previousCounter + 1) EXCEPT !.open = FALSE]

CloseChain(c, previousCounter) ==
  [FillMessageKeys(c, previousCounter) EXCEPT !.open = FALSE]

LastSentCount(s) ==
  IF HasChain(s, s.ephemeral) THEN GetChain(s, s.ephemeral).counter + 1
  ELSE s.previousCounter

LastSentCounter(s) ==
  IF HasChain(s, s.ephemeral) THEN GetChain(s, s.ephemeral).counter
  ELSE s.previousCounter

StepRatchet(s, remote, previousCounter) ==
  LET fresh    == NextKeyPair(s.ephemeral)
      recvRoot == Append(s.root, Agreement(remote, s.ephemeral))
      sendRoot == Append(recvRoot, Agreement(remote, fresh))
      kept     == {IF c.key = s.lastRemote THEN CloseChain(c, previousCounter) ELSE c
                     : c \in {d \in s.chains : d.key # s.ephemeral}}
  IN  [s EXCEPT
         !.root = sendRoot,
         !.ephemeral = fresh,
         !.lastRemote = remote,
         !.previousCounter = LastSentCounter(s),
         !.chains = RemoveOldReceiverChains(
                      kept \cup {NewChain(remote, "RECEIVING", recvRoot),
                                 NewChain(fresh, "SENDING", sendRoot)})]

MaybeStepRatchet(s, m) ==
  IF HasChain(s, m.ephemeral) THEN s
  ELSE StepRatchet(s, m.ephemeral, m.previousCounter)

------------------------------------------------------------------------------
(* doDecryptWhisperMessage: whether it returns a plaintext, and the         *)
(* candidate session it leaves behind when it does.                        *)

ReceivingChain(s, m) == GetChain(MaybeStepRatchet(s, m), m.ephemeral)

FilledChain(s, m) == FillMessageKeys(ReceivingChain(s, m), m.counter)

DoDecryptSucceeds(s, m) ==
  /\ HasChain(s, m.ephemeral) \/ CanStep(s, m.previousCounter)
  /\ ReceivingChain(s, m).type = "RECEIVING"
  /\ CanFill(ReceivingChain(s, m), m.counter)
  /\ m.counter \in FilledChain(s, m).messageKeys
  /\ FilledChain(s, m).seed = m.seed

DoDecrypt(s, m) ==
  [MaybeStepRatchet(s, m) EXCEPT
     !.chains = (@ \ {ReceivingChain(s, m)})
                \cup {TakeMessageKey(FilledChain(s, m), m.counter)},
     !.pendingPreKey = FALSE]

------------------------------------------------------------------------------
(* Opening the session.                                                    *)

SignedPreKey == <<Responder, 0>>
BaseKey == <<Initiator, 0>>

OutgoingSession ==
  LET own  == NextKeyPair(BaseKey)
      root == <<Agreement(SignedPreKey, own)>>
  IN  [root |-> root, ephemeral |-> own, lastRemote |-> SignedPreKey,
       previousCounter |-> 0, chains |-> {NewChain(own, "SENDING", root)},
       pendingPreKey |-> TRUE]

IncomingSession ==
  [root |-> <<>>, ephemeral |-> SignedPreKey, lastRemote |-> BaseKey,
   previousCounter |-> 0, chains |-> {}, pendingPreKey |-> FALSE]

(* The session a prekey message is tried on: the stored one, or the one    *)
(* initIncoming builds from the one-time prekey the message names.  The    *)
(* initiator's record refuses its own base key.                            *)
SessionsForPreKeyMessage(p) ==
  CASE p = Initiator                     -> {}
    [] p = Responder /\ session[p] # {}  -> session[p]
    [] p = Responder /\ session[p] = {}  -> {IncomingSession : k \in preKeys}

Candidates(p, m) ==
  IF m.preKey THEN SessionsForPreKeyMessage(p) ELSE session[p]

Decryptable(p, m) == \E s \in Candidates(p, m) : DoDecryptSucceeds(s, m)

------------------------------------------------------------------------------
Init ==
  /\ session = [p \in Parties |-> {}]
  /\ preKeys = {Responder}
  /\ network = {}
  /\ delivered = [p \in Parties |-> {}]
  /\ plaintexts = [p \in Parties |-> 0]

InitOutgoing ==
  /\ session[Initiator] = {}
  /\ session' = [session EXCEPT ![Initiator] = {OutgoingSession}]
  /\ UNCHANGED <<preKeys, network, delivered, plaintexts>>

Sent(p) == {m \in network : m.from = p}

(* The next message of a sending chain, and the session once its key is used. *)
Sealed(p, s, chain) ==
  [from |-> p, id |-> Cardinality(Sent(p)), ephemeral |-> s.ephemeral,
   counter |-> chain.counter + 1, previousCounter |-> s.previousCounter,
   seed |-> chain.seed, preKey |-> s.pendingPreKey]

SessionAfterSealing(s, chain) ==
  LET next == chain.counter + 1
  IN  [s EXCEPT !.chains = (@ \ {chain})
                           \cup {TakeMessageKey(FillMessageKeys(chain, next), next)}]

Encrypt(p) ==
  /\ Cardinality(Sent(p)) < MaxSends
  /\ \E s \in session[p] :
     \E chain \in ChainsFor(s, s.ephemeral) :
       /\ chain.type = "SENDING"
       /\ CanFill(chain, chain.counter + 1)
       /\ network' = network \cup {Sealed(p, s, chain)}
       /\ session' = [session EXCEPT ![p] = {SessionAfterSealing(s, chain)}]
  /\ UNCHANGED <<preKeys, delivered, plaintexts>>

DecryptWhisperMessage(p, m) ==
  /\ ~m.preKey
  /\ \E s \in session[p] :
       /\ DoDecryptSucceeds(s, m)
       /\ session' = [session EXCEPT ![p] = {DoDecrypt(s, m)}]
  /\ delivered' = [delivered EXCEPT ![p] = @ \cup {m}]
  /\ plaintexts' = [plaintexts EXCEPT ![p] = @ + 1]
  /\ UNCHANGED <<preKeys, network>>

DecryptPreKeyWhisperMessage(p, m) ==
  /\ m.preKey
  /\ \E s \in SessionsForPreKeyMessage(p) :
       /\ DoDecryptSucceeds(s, m)
       /\ session' = [session EXCEPT ![p] = {DoDecrypt(s, m)}]
  /\ preKeys' = IF session[p] = {} THEN preKeys \ {p} ELSE preKeys
  /\ delivered' = [delivered EXCEPT ![p] = @ \cup {m}]
  /\ plaintexts' = [plaintexts EXCEPT ![p] = @ + 1]
  /\ UNCHANGED network

RejectMessageStoringStep(p, m) ==
  /\ ~Decryptable(p, m)
  /\ ~m.preKey
  /\ \E s \in session[p] :
       /\ CanStep(s, m.previousCounter)
       /\ session' = [session EXCEPT ![p] = {MaybeStepRatchet(s, m)}]
  /\ UNCHANGED <<preKeys, network, delivered, plaintexts>>

(* A job that throws leaves storage as it was: the work was done on a copy. *)
RejectMessage(p, m) ==
  /\ ~Decryptable(p, m)
  /\ UNCHANGED vars

Receive(p, m) ==
  \/ DecryptWhisperMessage(p, m)
  \/ DecryptPreKeyWhisperMessage(p, m)
  \/ RejectMessage(p, m)

Next ==
  \/ InitOutgoing
  \/ \E p \in Parties : Encrypt(p)
  \/ \E p \in Parties : \E m \in network : Receive(p, m)

Spec == Init /\ [][Next]_vars

------------------------------------------------------------------------------
(* Properties.                                                             *)

(* A message whose plaintext was returned never decrypts again, however     *)
(* often the network repeats it and whatever chains were evicted meanwhile  *)
(* ("Key used already or never filled", session-cipher.ts:392-394).         *)
NoReplay ==
  \A p \in Parties : \A m \in delivered[p] : ~Decryptable(p, m)

(* Forward secrecy of the stored record: neither end keeps a message key,   *)
(* or a chain key from which to derive it, of a message it has sent or      *)
(* decrypted.                                                               *)
UsedKeysAreGone ==
  \A p \in Parties : \A s \in session[p] : \A c \in s.chains :
    \A m \in Sent(p) \cup delivered[p] :
      c.seed = m.seed => m.counter \notin c.messageKeys /\ m.counter <= c.counter

(* No message key seals two messages, over all chains of both ends.         *)
MessageKeysSealOnce ==
  \A m, n \in network : m.seed = n.seed /\ m.counter = n.counter => m = n

(* Every skipped message key in a record is the key of a message that was   *)
(* sent and has not arrived: the receiver never runs ahead of the sender.   *)
SkippedKeysAwaitMessages ==
  \A p \in Parties : \A s \in session[p] :
    \A c \in {d \in s.chains : d.type = "RECEIVING"} : \A k \in c.messageKeys :
      \E m \in network \ delivered[p] : m.seed = c.seed /\ m.counter = k

(* previousCounter is the last counter its sender used on the chain before  *)
(* (0 when there was none), never -1: the receiver closes the old chain at  *)
(* exactly the right place, so no key of it is missing.                     *)
PreviousCounterIsLast ==
  \A m \in network :
    LET before == {n \in network : n.from = m.from
                                   /\ n.ephemeral[2] = m.ephemeral[2] - 1}
    IN  IF before = {} THEN m.previousCounter = 0
        ELSE /\ \E n \in before : n.counter = m.previousCounter
             /\ \A n \in before : n.counter <= m.previousCounter

(* The shape of a stored session: one sending chain, for the current key    *)
(* pair, so a reply never fails with "No chain found for current ratchet";  *)
(* of the receiving chains only that of the last remote key still has a     *)
(* chain key; and no more chains and skipped keys than the limits allow.    *)
SessionShape ==
  \A p \in Parties : \A s \in session[p] :
    LET sending   == {c \in s.chains : c.type = "SENDING"}
        receiving == {c \in s.chains : c.type = "RECEIVING"}
    IN  /\ {c.key : c \in sending} = {s.ephemeral} /\ Cardinality(sending) = 1
        /\ \A c \in receiving : c.open => c.key = s.lastRemote
        /\ Cardinality(receiving) <= MaxReceiverChains
        /\ \A c \in s.chains : Cardinality(c.messageKeys) <= MaxMessageKeys

(* The three ways the limits make a message undecryptable: its receiving    *)
(* chain was evicted, its skipped key was pruned, or reaching it would fill *)
(* more than MaxFuture keys of its own chain or of the one before.          *)
Evicted(s, m) ==
  ~HasChain(s, m.ephemeral) /\ m.ephemeral[2] + MaxReceiverChains <= s.lastRemote[2]

Pruned(s, m) ==
  \E c \in ChainsFor(s, m.ephemeral) : m.counter + MaxMessageKeys <= c.counter

TooFarAhead(s, m) ==
  IF HasChain(s, m.ephemeral)
  THEN m.counter - GetChain(s, m.ephemeral).counter > MaxFuture
  ELSE \/ m.counter + 1 > MaxFuture
       \/ \E c \in ChainsFor(s, s.lastRemote) : m.previousCounter - c.counter > MaxFuture

(* Whatever the order of arrival, a message in flight decrypts when it      *)
(* arrives unless a limit of the storage excludes it.                       *)
LossOnlyByLimits ==
  \A p \in Parties : \A m \in network \ (Sent(p) \cup delivered[p]) :
    \/ Decryptable(p, m)
    \/ \E s \in Candidates(p, m) : Evicted(s, m) \/ Pruned(s, m) \/ TooFarAhead(s, m)

(* The same where no limit can be reached: nothing in flight is ever lost.  *)
NothingIsLost ==
  \A p \in Parties : \A m \in network \ (Sent(p) \cup delivered[p]) : Decryptable(p, m)

(* No job rolls a stored ratchet back: the root key only takes in more      *)
(* agreements, and within one root key chains only move forward.            *)
RatchetOnlyAdvances ==
  [][\A p \in Parties : \A s \in session[p] : \E t \in session'[p] :
       /\ Len(s.root) <= Len(t.root)
       /\ SubSeq(t.root, 1, Len(s.root)) = s.root
       /\ \A c \in s.chains : \A d \in t.chains :
            c.seed = d.seed => c.counter <= d.counter /\ (d.open => c.open)]_vars

(* The session keeps the promise of SecureChannel.                          *)
Channel == INSTANCE SecureChannel
             WITH Envelopes <- Message,
                  sentBy <- [p \in Parties |-> Sent(p)],
                  acceptedBy <- delivered, returned <- plaintexts

ImplementsChannel == Channel!ChSpec
==============================================================================
