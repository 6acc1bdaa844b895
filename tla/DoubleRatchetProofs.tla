-------------------------- MODULE DoubleRatchetProofs --------------------------
(***************************************************************************)
(* Theorems about DoubleRatchet, for any limits and any number of messages. *)
(*                                                                         *)
(* The argument: a chain is known by its seed, and the seeds of chains made *)
(* by a ratchet step are longer than the root key was.  So a message that a *)
(* party has dealt with can only meet the chain it was dealt with on, whose *)
(* counter has passed it and whose key for it is gone, or a chain with a    *)
(* seed of another length.                                                 *)
(*                                                                         *)
(* The invariants build on each other:                                     *)
(*   Inv        seeds grow, and used messages are behind their chains      *)
(*   LineInv    the parties take turns: where each is in the conversation, *)
(*              and the seed that this gives each of its chains            *)
(*   LimitsInv  receiving chains in order, within their limits             *)
(*   CountsInv  the counters of chains are those of messages sent, every   *)
(*              one of which the receiver has dealt with, skipped or lost  *)
(*   FlightInv  which end may have a session to open a message with        *)
(*   RoomInv    no counter or generation is beyond the messages sent       *)
(***************************************************************************)
EXTENDS DoubleRatchet, FiniteSetTheorems, SequenceTheorems, WellFoundedInduction,
        TLAPS

Counters == Nat \cup {-1}

(* The messages whose key p has used: those it sent and those it decrypted. *)
Used(p) == Sent(p) \cup delivered[p]

(* A session after the messages of a set have been sealed or opened on it.  *)
SessionInv(s, used) ==
  /\ s \in Session
  /\ \A c \in s.chains : Len(c.seed) <= Len(s.root)
  /\ \A c \in s.chains : \A k \in c.messageKeys : k <= c.counter
  /\ \A c, d \in s.chains : c.seed = d.seed => c = d
  /\ \A m \in used : Len(m.seed) <= Len(s.root)
  /\ \A c \in s.chains : \A m \in used :
       c.seed = m.seed => m.counter <= c.counter /\ m.counter \notin c.messageKeys

Inv ==
  /\ TypeOK
  /\ IsFiniteSet(network)
  /\ \A p \in Parties : session[p] = {} => Used(p) = {}
  /\ \A p \in Parties : \A s \in session[p] : SessionInv(s, Used(p))

------------------------------------------------------------------------------
(* One chain.  d is c later: whatever was used on c is used on d.          *)

Advances(c, d) ==
  /\ d \in Chain
  /\ d.key = c.key /\ d.type = c.type /\ d.seed = c.seed
  /\ c.counter <= d.counter
  /\ \A k \in d.messageKeys : k <= d.counter /\ (k \in c.messageKeys \/ k > c.counter)

(* fillMessageKeys and pruneMessageKeys only move a chain forward.         *)
LEMMA FillAdvances ==
  ASSUME NEW c \in Chain, NEW n \in Counters, \A k \in c.messageKeys : k <= c.counter
  PROVE  Advances(c, FillMessageKeys(c, n))
<1>1. c.counter \in Counters /\ c.messageKeys \subseteq Nat
  BY DEF Chain, Counters
<1>2. CASE n > c.counter
  <2> DEFINE more == c.messageKeys \cup (c.counter + 1)..n
             keys == PruneMessageKeys(more)
             d == [c EXCEPT !.counter = n, !.messageKeys = keys]
  <2>1. keys \subseteq more
    BY DEF PruneMessageKeys
  <2>2. \A k \in more : k \in Nat /\ k <= n /\ (k \in c.messageKeys \/ k > c.counter)
    BY <1>1, <1>2 DEF Counters
  <2> HIDE DEF keys
  <2>3. /\ d.key = c.key /\ d.type = c.type /\ d.seed = c.seed
        /\ d.counter = n /\ d.messageKeys = keys
    BY DEF Chain
  <2>4. d \in Chain
    BY <1>2, <2>1, <2>2 DEF Chain, Counters
  <2>5. FillMessageKeys(c, n) = d
    BY <1>2 DEF FillMessageKeys, keys
  <2> HIDE DEF d, more
  <2>6. QED
    BY <1>2, <1>1, <2>1, <2>2, <2>3, <2>4, <2>5 DEF Advances, Counters
<1>3. CASE ~(n > c.counter)
  BY <1>1, <1>3 DEF FillMessageKeys, Advances, Counters
<1>4. QED
  BY <1>2, <1>3

LEMMA CloseAdvances ==
  ASSUME NEW c \in Chain, NEW n \in Counters, \A k \in c.messageKeys : k <= c.counter
  PROVE  Advances(c, CloseChain(c, n))
<1> DEFINE f == FillMessageKeys(c, n)
<1>1. Advances(c, f)
  BY FillAdvances
<1> HIDE DEF f
<1>2. [f EXCEPT !.open = FALSE] \in Chain
  BY <1>1 DEF Advances, Chain
<1>3. Advances(c, [f EXCEPT !.open = FALSE])
  BY <1>1, <1>2 DEF Advances, Chain
<1>4. QED
  BY <1>3 DEF CloseChain, f

(* Filling up to n and taking the key of n.                                *)
LEMMA TakeAdvances ==
  ASSUME NEW c \in Chain, NEW n \in Counters, \A k \in c.messageKeys : k <= c.counter
  PROVE  /\ Advances(c, TakeMessageKey(FillMessageKeys(c, n), n))
         /\ n \notin TakeMessageKey(FillMessageKeys(c, n), n).messageKeys
         /\ n <= TakeMessageKey(FillMessageKeys(c, n), n).counter
<1> DEFINE f == FillMessageKeys(c, n)
           t == [f EXCEPT !.messageKeys = @ \ {n}]
<1>1. Advances(c, f)
  BY FillAdvances
<1>2. n <= f.counter
  BY DEF FillMessageKeys, Chain, Counters
<1> HIDE DEF f
<1>3. t \in Chain
  BY <1>1 DEF Advances, Chain
<1>4. /\ t.key = f.key /\ t.type = f.type /\ t.seed = f.seed /\ t.counter = f.counter
      /\ t.messageKeys = f.messageKeys \ {n}
  BY <1>1 DEF Advances, Chain
<1>5. TakeMessageKey(f, n) = t
  BY DEF TakeMessageKey
<1> HIDE DEF t
<1>6. QED
  BY <1>1, <1>2, <1>3, <1>4, <1>5 DEF Advances, f

(* What has been used on c stays used on d.                                *)
LEMMA AdvancesKeepsUsed ==
  ASSUME NEW c \in Chain, NEW d, Advances(c, d), NEW m \in Message,
         c.seed = m.seed => m.counter <= c.counter /\ m.counter \notin c.messageKeys
  PROVE  d.seed = m.seed => m.counter <= d.counter /\ m.counter \notin d.messageKeys
<1>1. c.counter \in Counters /\ d.counter \in Counters /\ m.counter \in Nat
  BY DEF Chain, Message, Advances, Counters
<1>2. QED
  BY <1>1 DEF Advances, Counters

------------------------------------------------------------------------------
(* Sequences of agreements.                                                *)

LEMMA RootGrows ==
  ASSUME NEW r \in RootKey, NEW a \in SUBSET PublicKey
  PROVE  Append(r, a) \in RootKey /\ Len(Append(r, a)) = Len(r) + 1 /\ Len(r) \in Nat
BY AppendProperties, LenProperties DEF RootKey

LEMMA NewChainType ==
  ASSUME NEW key \in PublicKey, NEW type \in {"SENDING", "RECEIVING"}, NEW seed \in RootKey
  PROVE  /\ NewChain(key, type, seed) \in Chain
         /\ NewChain(key, type, seed).key = key
         /\ NewChain(key, type, seed).type = type
         /\ NewChain(key, type, seed).seed = seed
         /\ NewChain(key, type, seed).messageKeys = {}
BY DEF NewChain, Chain

LEMMA LastSentCounterType ==
  ASSUME NEW s \in Session
  PROVE  LastSentCounter(s) \in Counters
<1>1. s.chains \subseteq Chain /\ s.previousCounter \in Counters
  BY DEF Session, Counters
<1>2. CASE HasChain(s, s.ephemeral)
  <2>1. GetChain(s, s.ephemeral) \in ChainsFor(s, s.ephemeral)
    BY <1>2 DEF HasChain, GetChain
  <2>2. GetChain(s, s.ephemeral).counter \in Counters
    BY <1>1, <2>1 DEF ChainsFor, Chain, Counters
  <2>3. QED
    BY <1>2, <2>2 DEF LastSentCounter
<1>3. CASE ~HasChain(s, s.ephemeral)
  BY <1>1, <1>3 DEF LastSentCounter
<1>4. QED
  BY <1>2, <1>3

(* A ratchet step: every chain is a chain of before moved forward, or has a *)
(* seed longer than the root key was; and there is a chain for the key.    *)
LEMMA StepRatchetKeeps ==
  ASSUME NEW s, NEW used \in SUBSET Message, SessionInv(s, used),
         NEW remote \in PublicKey, NEW n \in Counters
  PROVE  /\ SessionInv(StepRatchet(s, remote, n), used)
         /\ HasChain(StepRatchet(s, remote, n), remote)
<1> DEFINE fresh    == NextKeyPair(s.ephemeral)
           recvRoot == Append(s.root, Agreement(remote, s.ephemeral))
           sendRoot == Append(recvRoot, Agreement(remote, fresh))
           closed(c) == IF c.key = s.lastRemote THEN CloseChain(c, n) ELSE c
           kept     == {closed(c) : c \in {d \in s.chains : d.key # s.ephemeral}}
           rc       == NewChain(remote, "RECEIVING", recvRoot)
           sc       == NewChain(fresh, "SENDING", sendRoot)
           all      == kept \cup {rc, sc}
           chains   == RemoveOldReceiverChains(all)
           t        == StepRatchet(s, remote, n)
<1>1. /\ s.root \in RootKey /\ s.ephemeral \in PublicKey /\ s.chains \subseteq Chain
      /\ s.previousCounter \in Counters /\ s.pendingPreKey \in BOOLEAN
  BY DEF SessionInv, Session, Counters
<1>2. /\ fresh \in PublicKey
      /\ Agreement(remote, s.ephemeral) \in SUBSET PublicKey
      /\ Agreement(remote, fresh) \in SUBSET PublicKey
  BY <1>1 DEF NextKeyPair, Agreement, PublicKey
<1>3. /\ recvRoot \in RootKey /\ Len(recvRoot) = Len(s.root) + 1 /\ Len(s.root) \in Nat
      /\ sendRoot \in RootKey /\ Len(sendRoot) = Len(s.root) + 2
  <2>1. recvRoot \in RootKey /\ Len(recvRoot) = Len(s.root) + 1 /\ Len(s.root) \in Nat
    BY <1>1, <1>2, RootGrows
  <2>2. sendRoot \in RootKey /\ Len(sendRoot) = Len(recvRoot) + 1
    BY <1>2, <2>1, RootGrows
  <2>3. QED
    BY <2>1, <2>2
<1>4. /\ t.root = sendRoot /\ t.chains = chains
      /\ t \in [root : {sendRoot}, ephemeral : {fresh}, lastRemote : {remote},
                previousCounter : {LastSentCounter(s)}, chains : {chains},
                pendingPreKey : BOOLEAN]
  <2>1. s \in Session
    BY DEF SessionInv
  <2>2. QED
    BY <2>1 DEF Session, StepRatchet
<1> HIDE DEF fresh, recvRoot, sendRoot, t
<1>5. /\ rc \in Chain /\ rc.key = remote /\ rc.type = "RECEIVING"
      /\ rc.seed = recvRoot /\ rc.messageKeys = {}
      /\ sc \in Chain /\ sc.type = "SENDING" /\ sc.seed = sendRoot /\ sc.messageKeys = {}
  BY <1>2, <1>3, NewChainType
<1>6. ASSUME NEW c \in s.chains
      PROVE  Advances(c, closed(c))
  <2>1. c \in Chain /\ \A k \in c.messageKeys : k <= c.counter
    BY <1>1 DEF SessionInv
  <2>2. Advances(c, c)
    BY <2>1 DEF Advances, Chain
  <2>3. QED
    BY <2>1, <2>2, CloseAdvances
<1> HIDE DEF closed, rc, sc
<1>7. ASSUME NEW d \in kept
      PROVE  \E c \in s.chains : Advances(c, d) /\ d = closed(c)
  BY <1>6
<1>8. /\ all \subseteq Chain
      /\ \A d \in kept : Len(d.seed) <= Len(s.root)
  BY <1>5, <1>7 DEF Advances, SessionInv
<1>9. chains \subseteq all
  BY DEF RemoveOldReceiverChains
<1>10. rc \in chains
  <2>1. NewerReceivers(all, rc) = {}
    <3>1. ASSUME NEW d \in all, d.type = "RECEIVING", Len(d.seed) > Len(rc.seed)
          PROVE  FALSE
      <4>1. CASE d \in kept
        <5>1. Len(d.seed) <= Len(s.root) /\ Len(d.seed) \in Nat
          BY <1>8, <4>1, LenProperties DEF Chain, RootKey
        <5>2. QED
          BY <1>3, <1>5, <3>1, <5>1
      <4>2. CASE d = rc
        BY <1>3, <1>5, <3>1, <4>2
      <4>3. CASE d = sc
        BY <1>5, <3>1, <4>3
      <4>4. QED
        BY <4>1, <4>2, <4>3
    <3>2. QED
      BY <3>1 DEF NewerReceivers
  <2>2. Cardinality(NewerReceivers(all, rc)) < MaxReceiverChains
    BY <2>1, FS_EmptySet, LimitsAssumption
  <2>3. QED
    BY <2>2 DEF RemoveOldReceiverChains
<1> HIDE DEF kept, chains
<1>11. HasChain(t, remote)
  BY <1>4, <1>5, <1>10 DEF HasChain, ChainsFor
<1>12. t \in Session
  <2>1. chains \subseteq Chain
    BY <1>8, <1>9
  <2>2. LastSentCounter(s) \in Counters
    BY LastSentCounterType DEF SessionInv
  <2>3. QED
    BY <1>2, <1>3, <1>4, <2>1, <2>2 DEF Session, Counters
<1>13. \A d \in chains : Len(d.seed) <= Len(t.root)
  <2>1. ASSUME NEW d \in chains
        PROVE  Len(d.seed) <= Len(s.root) + 2
    <3>1. CASE d \in kept
      <4>1. Len(d.seed) <= Len(s.root) /\ Len(d.seed) \in Nat
        BY <1>8, <3>1, LenProperties DEF Chain, RootKey
      <4>2. QED
        BY <1>3, <4>1
    <3>2. CASE d = rc \/ d = sc
      BY <1>3, <1>5, <3>2
    <3>3. QED
      BY <1>9, <3>1, <3>2
  <2>2. QED
    BY <1>3, <1>4, <2>1
<1>14. \A d \in chains : \A k \in d.messageKeys : k <= d.counter
  BY <1>5, <1>7, <1>9 DEF Advances
<1>15. \A d, e \in chains : d.seed = e.seed => d = e
  <2>1. ASSUME NEW d \in all, NEW e \in all, d.seed = e.seed
        PROVE  d = e
    <3>1. CASE d \in kept /\ e \in kept
      <4>1. PICK c \in s.chains : Advances(c, d) /\ d = closed(c)
        BY <1>7, <3>1
      <4>2. PICK b \in s.chains : Advances(b, e) /\ e = closed(b)
        BY <1>7, <3>1
      <4>3. b.seed = c.seed
        BY <2>1, <4>1, <4>2 DEF Advances
      <4>4. QED
        BY <4>1, <4>2, <4>3 DEF SessionInv
    <3>2. CASE d \in {rc, sc} /\ e \in {rc, sc}
      <4>1. Len(recvRoot) # Len(sendRoot)
        BY <1>3
      <4>2. QED
        BY <1>5, <2>1, <3>2, <4>1
    <3>3. \A x \in kept : Len(x.seed) # Len(s.root) + 1 /\ Len(x.seed) # Len(s.root) + 2
      <4>1. ASSUME NEW x \in kept
            PROVE  Len(x.seed) \in Nat /\ Len(x.seed) <= Len(s.root)
        BY <1>8, LenProperties DEF Chain, RootKey
      <4>2. QED
        BY <1>3, <4>1
    <3>4. CASE d \in kept /\ e \in {rc, sc}
      BY <1>3, <1>5, <2>1, <3>3, <3>4
    <3>5. CASE d \in {rc, sc} /\ e \in kept
      BY <1>3, <1>5, <2>1, <3>3, <3>5
    <3>6. QED
      BY <3>1, <3>2, <3>4, <3>5
  <2>2. QED
    BY <1>9, <2>1
<1>16. \A m \in used : Len(m.seed) <= Len(t.root)
  <2>1. ASSUME NEW m \in used
        PROVE  Len(m.seed) <= Len(s.root) + 2
    <3>1. Len(m.seed) \in Nat /\ Len(m.seed) <= Len(s.root)
      BY LenProperties DEF SessionInv, Message, RootKey
    <3>2. QED
      BY <1>3, <3>1
  <2>2. QED
    BY <1>3, <1>4, <2>1
<1>17. ASSUME NEW d \in chains, NEW m \in used, d.seed = m.seed
       PROVE  m.counter <= d.counter /\ m.counter \notin d.messageKeys
  <2>1. Len(m.seed) \in Nat /\ Len(m.seed) <= Len(s.root)
    BY LenProperties DEF SessionInv, Message, RootKey
  <2>2. d # rc /\ d # sc
    BY <1>3, <1>5, <1>17, <2>1
  <2>3. PICK c \in s.chains : Advances(c, d)
    BY <1>7, <1>9, <2>2
  <2>4. QED
    BY <1>1, <1>17, <2>3, AdvancesKeepsUsed DEF SessionInv
<1>18. QED
  BY <1>4, <1>11, <1>12, <1>13, <1>14, <1>15, <1>16, <1>17 DEF SessionInv, t

LEMMA MaybeStepRatchetKeeps ==
  ASSUME NEW s, NEW used \in SUBSET Message, SessionInv(s, used), NEW m \in Message
  PROVE  /\ SessionInv(MaybeStepRatchet(s, m), used)
         /\ HasChain(MaybeStepRatchet(s, m), m.ephemeral)
<1>1. m.ephemeral \in PublicKey /\ m.previousCounter \in Counters
  BY DEF Message, Counters
<1>2. CASE HasChain(s, m.ephemeral)
  BY <1>2 DEF MaybeStepRatchet
<1>3. CASE ~HasChain(s, m.ephemeral)
  BY <1>1, <1>3, StepRatchetKeeps DEF MaybeStepRatchet
<1>4. QED
  BY <1>2, <1>3

------------------------------------------------------------------------------
(* Using one message key of a session.                                     *)

LEMMA ReplaceChain ==
  ASSUME NEW s, NEW used \in SUBSET Message, SessionInv(s, used),
         NEW c \in s.chains, NEW d, Advances(c, d),
         NEW m \in Message, m.seed = d.seed,
         m.counter <= d.counter, m.counter \notin d.messageKeys,
         NEW t \in Session, t.root = s.root, t.chains = (s.chains \ {c}) \cup {d}
  PROVE  SessionInv(t, used \cup {m})
<1>1. /\ s \in Session /\ c \in Chain /\ d.seed = c.seed
      /\ \A k \in d.messageKeys : k <= d.counter
  BY DEF SessionInv, Session, Advances
<1>2. \A e \in s.chains \ {c} : e.seed # d.seed
  BY <1>1 DEF SessionInv
<1>3. Len(d.seed) <= Len(s.root)
  BY <1>1 DEF SessionInv
<1>4. \A e \in t.chains : Len(e.seed) <= Len(t.root)
  BY <1>3 DEF SessionInv
<1>5. \A e \in t.chains : \A k \in e.messageKeys : k <= e.counter
  BY <1>1 DEF SessionInv
<1>6. \A e, f \in t.chains : e.seed = f.seed => e = f
  BY <1>2 DEF SessionInv
<1>7. \A x \in used \cup {m} : Len(x.seed) <= Len(t.root)
  BY <1>3 DEF SessionInv
<1>8. ASSUME NEW e \in t.chains, NEW x \in used \cup {m}, e.seed = x.seed
      PROVE  x.counter <= e.counter /\ x.counter \notin e.messageKeys
  <2>1. CASE e # d
    BY <1>2, <1>8, <2>1 DEF SessionInv
  <2>2. CASE e = d /\ x = m
    BY <2>2
  <2>3. CASE e = d /\ x \in used
    BY <1>1, <1>8, <2>3, AdvancesKeepsUsed DEF SessionInv
  <2>4. QED
    BY <2>1, <2>2, <2>3
<1>9. QED
  BY <1>4, <1>5, <1>6, <1>7, <1>8 DEF SessionInv

LEMMA EncryptSession ==
  ASSUME NEW s, NEW used \in SUBSET Message, SessionInv(s, used),
         NEW c \in s.chains, NEW m \in Message,
         m.seed = c.seed, m.counter = c.counter + 1
  PROVE  /\ SessionInv(SessionAfterSealing(s, c), used \cup {m})
         /\ m \notin used
<1> DEFINE d == TakeMessageKey(FillMessageKeys(c, m.counter), m.counter)
           t == [s EXCEPT !.chains = (@ \ {c}) \cup {d}]
<1>1. /\ s \in Session /\ c \in Chain /\ m.counter \in Counters /\ c.counter \in Counters
      /\ \A k \in c.messageKeys : k <= c.counter
  BY DEF SessionInv, Session, Chain, Message, Counters
<1>2. Advances(c, d) /\ m.counter \notin d.messageKeys /\ m.counter <= d.counter
  BY <1>1, TakeAdvances
<1> HIDE DEF d
<1>3. t \in Session /\ t.root = s.root /\ t.chains = (s.chains \ {c}) \cup {d}
  BY <1>1, <1>2 DEF Session, Advances
<1> HIDE DEF t
<1>4. SessionInv(t, used \cup {m})
  BY <1>2, <1>3, ReplaceChain DEF Advances
<1>5. m \notin used
  BY <1>1 DEF SessionInv, Counters
<1>6. t = SessionAfterSealing(s, c)
  BY DEF t, d, SessionAfterSealing
<1>7. QED
  BY <1>4, <1>5, <1>6

LEMMA ReceivingChainFacts ==
  ASSUME NEW s, NEW used \in SUBSET Message, SessionInv(s, used), NEW m \in Message
  PROVE  /\ SessionInv(MaybeStepRatchet(s, m), used)
         /\ ReceivingChain(s, m) \in MaybeStepRatchet(s, m).chains
         /\ ReceivingChain(s, m) \in Chain
         /\ \A k \in ReceivingChain(s, m).messageKeys : k <= ReceivingChain(s, m).counter
         /\ Advances(ReceivingChain(s, m), FilledChain(s, m))
<1> DEFINE t == MaybeStepRatchet(s, m)
           c == ReceivingChain(s, m)
<1>1. SessionInv(t, used) /\ HasChain(t, m.ephemeral)
  BY MaybeStepRatchetKeeps
<1> HIDE DEF t
<1>2. c \in t.chains
  BY <1>1 DEF ReceivingChain, HasChain, GetChain, ChainsFor, t
<1>3. c \in Chain /\ \A k \in c.messageKeys : k <= c.counter
  BY <1>1, <1>2 DEF SessionInv, Session
<1>4. Advances(c, FillMessageKeys(c, m.counter))
  <2>1. m.counter \in Counters
    BY DEF Message, Counters
  <2> HIDE DEF c
  <2>2. QED
    BY <1>3, <2>1, FillAdvances
<1>5. QED
  BY <1>1, <1>2, <1>3, <1>4 DEF FilledChain, t

(* A message dealt with never decrypts again.                              *)
LEMMA NotAgain ==
  ASSUME NEW s, NEW used \in SUBSET Message, SessionInv(s, used), NEW m \in used
  PROVE  ~DoDecryptSucceeds(s, m)
<1> DEFINE t == MaybeStepRatchet(s, m)
           c == ReceivingChain(s, m)
           f == FilledChain(s, m)
<1>1. SessionInv(t, used) /\ c \in t.chains /\ c \in Chain /\ Advances(c, f)
  BY ReceivingChainFacts
<1> HIDE DEF t, c, f
<1>2. c.seed = m.seed => m.counter <= c.counter /\ m.counter \notin c.messageKeys
  BY <1>1 DEF SessionInv
<1>3. f.seed = m.seed => m.counter \notin f.messageKeys
  BY <1>1, <1>2, AdvancesKeepsUsed
<1>4. QED
  BY <1>3 DEF DoDecryptSucceeds, f

LEMMA DecryptSession ==
  ASSUME NEW s, NEW used \in SUBSET Message, SessionInv(s, used),
         NEW m \in Message, DoDecryptSucceeds(s, m)
  PROVE  SessionInv(DoDecrypt(s, m), used \cup {m})
<1> DEFINE t == MaybeStepRatchet(s, m)
           c == ReceivingChain(s, m)
           f == FilledChain(s, m)
           d == TakeMessageKey(f, m.counter)
           u == [t EXCEPT !.chains = (@ \ {c}) \cup {d}, !.pendingPreKey = FALSE]
<1>1. /\ SessionInv(t, used) /\ c \in t.chains /\ c \in Chain
      /\ \A k \in c.messageKeys : k <= c.counter
  BY ReceivingChainFacts
<1>2. f = FillMessageKeys(c, m.counter) /\ f.seed = m.seed
  BY DEF FilledChain, DoDecryptSucceeds
<1>3. u = DoDecrypt(s, m)
  BY DEF DoDecrypt
<1> HIDE DEF t, c, f
<1>4. m.counter \in Counters
  BY DEF Message, Counters
<1>5. Advances(c, d) /\ m.counter \notin d.messageKeys /\ m.counter <= d.counter
  BY <1>1, <1>2, <1>4, TakeAdvances
<1>6. d.seed = m.seed
  <2>1. Advances(c, f)
    BY <1>1, <1>2, <1>4, FillAdvances
  <2>2. QED
    BY <1>2, <1>5, <2>1 DEF Advances
<1> HIDE DEF d
<1>7. u \in Session /\ u.root = t.root /\ u.chains = (t.chains \ {c}) \cup {d}
  BY <1>1, <1>5 DEF SessionInv, Session, Advances
<1> HIDE DEF u
<1>8. SessionInv(u, used \cup {m})
  BY <1>1, <1>5, <1>6, <1>7, ReplaceChain
<1>9. QED
  BY <1>3, <1>8

------------------------------------------------------------------------------
(* The invariant and its steps.                                            *)

LEMMA SentIsFinite ==
  ASSUME IsFiniteSet(network), NEW p
  PROVE  IsFiniteSet(Sent(p)) /\ Cardinality(Sent(p)) \in Nat
<1>1. Sent(p) \subseteq network
  BY DEF Sent
<1>2. QED
  BY <1>1, FS_Subset, FS_CardinalityType

LEMMA UsedType ==
  ASSUME TypeOK, NEW p \in Parties
  PROVE  Used(p) \in SUBSET Message
BY DEF TypeOK, Used, Sent

LEMMA OutgoingSessionInv == SessionInv(OutgoingSession, {})
<1> DEFINE own  == NextKeyPair(BaseKey)
           root == <<Agreement(SignedPreKey, own)>>
           c    == NewChain(own, "SENDING", root)
<1>1. own \in PublicKey /\ SignedPreKey \in PublicKey
  BY DEF NextKeyPair, BaseKey, SignedPreKey, PublicKey, Parties
<1>2. root \in RootKey
  BY <1>1 DEF Agreement, RootKey
<1> HIDE DEF own, root
<1>3. c \in Chain /\ c.seed = root /\ c.messageKeys = {}
  BY <1>1, <1>2, NewChainType
<1> HIDE DEF c
<1>4. OutgoingSession = [root |-> root, ephemeral |-> own, lastRemote |-> SignedPreKey,
                         previousCounter |-> 0, chains |-> {c}, pendingPreKey |-> TRUE]
  BY DEF OutgoingSession, own, root, c
<1>5. Len(root) <= Len(root)
  BY <1>2, LenProperties DEF RootKey
<1>6. QED
  BY <1>1, <1>2, <1>3, <1>4, <1>5 DEF SessionInv, Session

LEMMA IncomingSessionInv == SessionInv(IncomingSession, {})
<1>1. SignedPreKey \in PublicKey /\ BaseKey \in PublicKey
  BY DEF BaseKey, SignedPreKey, PublicKey, Parties
<1>2. <<>> \in RootKey
  BY DEF RootKey
<1>3. QED
  BY <1>1, <1>2 DEF IncomingSession, SessionInv, Session

LEMMA InvInit == Init => Inv
<1> SUFFICES ASSUME Init
             PROVE  Inv
  OBVIOUS
<1>1. TypeOK
  BY DEF Init, TypeOK
<1>2. IsFiniteSet(network)
  BY FS_EmptySet DEF Init
<1>3. \A p \in Parties : Used(p) = {} /\ session[p] = {}
  BY DEF Init, Used, Sent
<1>4. QED
  BY <1>1, <1>2, <1>3 DEF Inv

LEMMA InvInitOutgoing ==
  ASSUME Inv, InitOutgoing
  PROVE  Inv'
<1>1. Initiator \in Parties /\ session \in [Parties -> SUBSET Session]
  BY DEF Inv, TypeOK, Parties
<1>2. SessionInv(OutgoingSession, {}) /\ OutgoingSession \in Session
  BY OutgoingSessionInv DEF SessionInv
<1>3. TypeOK'
  BY <1>1, <1>2 DEF Inv, TypeOK, InitOutgoing
<1>4. \A p \in Parties : Used(p)' = Used(p)
  BY DEF InitOutgoing, Used, Sent
<1>5. Used(Initiator) = {}
  BY <1>1 DEF Inv, InitOutgoing
<1>6. \A p \in Parties : session'[p] =
                           IF p = Initiator THEN {OutgoingSession} ELSE session[p]
  BY <1>1 DEF InitOutgoing
<1>7. IsFiniteSet(network)'
  BY DEF Inv, InitOutgoing
<1>8. \A p \in Parties : session'[p] = {} => Used(p)' = {}
  BY <1>4, <1>6 DEF Inv
<1>9. \A p \in Parties : \A s \in session'[p] : SessionInv(s, Used(p)')
  BY <1>2, <1>4, <1>5, <1>6 DEF Inv
<1>10. QED
  BY <1>3, <1>7, <1>8, <1>9 DEF Inv

(* One job of p seals or opens m: the common part of the three actions.    *)
LEMMA OneMoreUsed ==
  ASSUME Inv, NEW p \in Parties, NEW m \in Message, NEW t,
         SessionInv(t, Used(p) \cup {m}),
         session' = [session EXCEPT ![p] = {t}],
         TypeOK', IsFiniteSet(network)',
         \A q \in Parties : Used(q)' = IF q = p THEN Used(q) \cup {m} ELSE Used(q)
  PROVE  Inv'
<1>1. \A q \in Parties : session'[q] = IF q = p THEN {t} ELSE session[q]
  BY DEF Inv, TypeOK
<1>2. \A q \in Parties : session'[q] = {} => Used(q)' = {}
  BY <1>1 DEF Inv
<1>3. \A q \in Parties : \A s \in session'[q] : SessionInv(s, Used(q)')
  BY <1>1 DEF Inv
<1>4. QED
  BY <1>2, <1>3 DEF Inv

(* What an encrypt job does: it sends a message no one has seen.           *)
LEMMA EncryptStep ==
  ASSUME Inv, NEW p \in Parties, Encrypt(p)
  PROVE  /\ Inv'
         /\ \E m \in Message : m.from = p /\ m \notin network /\ network' = network \cup {m}
<1>0. PICK s \in session[p] : \E c \in ChainsFor(s, s.ephemeral) :
        /\ network' = network \cup {Sealed(p, s, c)}
        /\ session' = [session EXCEPT ![p] = {SessionAfterSealing(s, c)}]
  BY DEF Encrypt
<1>1. PICK c \in ChainsFor(s, s.ephemeral) :
        /\ network' = network \cup {Sealed(p, s, c)}
        /\ session' = [session EXCEPT ![p] = {SessionAfterSealing(s, c)}]
  BY <1>0
<1> DEFINE m == Sealed(p, s, c)
           t == SessionAfterSealing(s, c)
<1>2. SessionInv(s, Used(p)) /\ Used(p) \in SUBSET Message
  BY UsedType DEF Inv
<1>3. s \in Session /\ c \in s.chains /\ c \in Chain
  BY <1>2 DEF SessionInv, Session, ChainsFor
<1>4. Cardinality(Sent(p)) \in Nat
  BY SentIsFinite DEF Inv
<1>5. m \in Message
  BY <1>3, <1>4 DEF Session, Chain, Message, Sealed
<1>6. network' = network \cup {m} /\ session' = [session EXCEPT ![p] = {t}]
  BY <1>1
<1>7. m.from = p /\ m.seed = c.seed /\ m.counter = c.counter + 1
  BY DEF Sealed
<1> HIDE DEF m
<1>8. SessionInv(t, Used(p) \cup {m}) /\ m \notin Used(p)
  BY <1>2, <1>3, <1>5, <1>7, EncryptSession
<1> HIDE DEF t
<1>9. m \notin network
  BY <1>7, <1>8 DEF Used, Sent
<1>10. UNCHANGED <<preKeys, delivered, plaintexts>>
  BY DEF Encrypt
<1>11. \A q \in Parties : Used(q)' = IF q = p THEN Used(q) \cup {m} ELSE Used(q)
  BY <1>6, <1>7, <1>10 DEF Used, Sent
<1>12. TypeOK'
  BY <1>5, <1>6, <1>8, <1>10 DEF Inv, TypeOK, SessionInv
<1>13. IsFiniteSet(network)'
  BY <1>6, FS_AddElement DEF Inv
<1>14. Inv'
  BY <1>5, <1>6, <1>8, <1>11, <1>12, <1>13, OneMoreUsed
<1>15. QED
  BY <1>5, <1>6, <1>7, <1>9, <1>14

(* What a decrypt job does that returns a plaintext: the message is one of  *)
(* the peer's, and one not decrypted before.                               *)
LEMMA DecryptStep ==
  ASSUME Inv, NEW p \in Parties, NEW m \in network,
         NEW s, SessionInv(s, Used(p)), DoDecryptSucceeds(s, m),
         session' = [session EXCEPT ![p] = {DoDecrypt(s, m)}],
         preKeys' \subseteq preKeys,
         delivered' = [delivered EXCEPT ![p] = @ \cup {m}],
         plaintexts' = [plaintexts EXCEPT ![p] = @ + 1],
         network' = network
  PROVE  Inv' /\ m \notin Used(p) /\ m.from # p
<1>1. m \in Message /\ Used(p) \in SUBSET Message
  BY UsedType DEF Inv, TypeOK
<1>2. m \notin Used(p)
  BY <1>1, NotAgain
<1>3. SessionInv(DoDecrypt(s, m), Used(p) \cup {m})
  BY <1>1, DecryptSession
<1>4. \A q \in Parties : Used(q)' = IF q = p THEN Used(q) \cup {m} ELSE Used(q)
  BY DEF Inv, TypeOK, Used, Sent
<1>5. TypeOK'
  BY <1>3 DEF Inv, TypeOK, SessionInv
<1>6. IsFiniteSet(network)'
  BY DEF Inv
<1>7. Inv'
  BY <1>1, <1>3, <1>4, <1>5, <1>6, OneMoreUsed
<1>8. QED
  BY <1>2, <1>7 DEF Used, Sent

LEMMA DecryptWhisperStep ==
  ASSUME Inv, NEW p \in Parties, NEW m \in network, DecryptWhisperMessage(p, m)
  PROVE  Inv' /\ m \notin Used(p) /\ m.from # p
<1>1. PICK s \in session[p] : /\ DoDecryptSucceeds(s, m)
                              /\ session' = [session EXCEPT ![p] = {DoDecrypt(s, m)}]
  BY DEF DecryptWhisperMessage
<1>2. SessionInv(s, Used(p))
  BY DEF Inv
<1>3. QED
  BY <1>1, <1>2, DecryptStep DEF DecryptWhisperMessage

(* The session a prekey message opens has used no message key.             *)
LEMMA DecryptPreKeyStep ==
  ASSUME Inv, NEW p \in Parties, NEW m \in network, DecryptPreKeyWhisperMessage(p, m)
  PROVE  Inv' /\ m \notin Used(p) /\ m.from # p
<1>1. PICK s \in SessionsForPreKeyMessage(p) :
                /\ DoDecryptSucceeds(s, m)
                /\ session' = [session EXCEPT ![p] = {DoDecrypt(s, m)}]
  BY DEF DecryptPreKeyWhisperMessage
<1>2. SessionInv(s, Used(p))
  <2>1. CASE session[p] # {}
    <3>1. s \in session[p]
      BY <1>1, <2>1, PartiesAssumption DEF SessionsForPreKeyMessage, Parties
    <3>2. QED
      BY <3>1 DEF Inv
  <2>2. CASE session[p] = {}
    <3>1. s = IncomingSession
      BY <1>1, <2>2, PartiesAssumption DEF SessionsForPreKeyMessage, Parties
    <3>2. Used(p) = {}
      BY <2>2 DEF Inv
    <3>3. QED
      BY <3>1, <3>2, IncomingSessionInv
  <2>3. QED
    BY <2>1, <2>2
<1>3. preKeys' \subseteq preKeys
  BY DEF DecryptPreKeyWhisperMessage
<1>4. QED
  BY <1>1, <1>2, <1>3, DecryptStep DEF DecryptPreKeyWhisperMessage

LEMMA InvUnchanged ==
  ASSUME Inv, UNCHANGED vars
  PROVE  Inv'
BY DEF Inv, TypeOK, Used, Sent, vars

LEMMA InvStep == Inv /\ [Next]_vars => Inv'
<1> SUFFICES ASSUME Inv, [Next]_vars
             PROVE  Inv'
  OBVIOUS
<1>1. CASE InitOutgoing
  BY <1>1, InvInitOutgoing
<1>2. CASE \E p \in Parties : Encrypt(p)
  BY <1>2, EncryptStep
<1>3. CASE \E p \in Parties : \E m \in network : Receive(p, m)
  <2>1. PICK p \in Parties, m \in network : Receive(p, m)
    BY <1>3
  <2>2. CASE DecryptWhisperMessage(p, m)
    BY <2>2, DecryptWhisperStep
  <2>3. CASE DecryptPreKeyWhisperMessage(p, m)
    BY <2>3, DecryptPreKeyStep
  <2>4. CASE RejectMessage(p, m)
    BY <2>4, InvUnchanged DEF RejectMessage
  <2>5. QED
    BY <2>1, <2>2, <2>3, <2>4 DEF Receive
<1>4. CASE UNCHANGED vars
  BY <1>4, InvUnchanged
<1>5. QED
  BY <1>1, <1>2, <1>3, <1>4 DEF Next

LEMMA InvAlways == Spec => []Inv
BY InvInit, InvStep, PTL DEF Spec

------------------------------------------------------------------------------
(* Theorems.                                                               *)

(* Sessions, chains and messages keep their types: no counter passes below  *)
(* -1 and every seed is a sequence of agreements.                          *)
THEOREM TypeCorrect == Spec => []TypeOK
BY InvAlways, PTL DEF Inv

(* For any limits, any number of messages and any order of arrival, a       *)
(* message that session-cipher.ts has decrypted is refused ever after.     *)
THEOREM NoReplayHolds == Spec => []NoReplay
<1>1. Inv => NoReplay
  <2>1. ASSUME Inv, NEW p \in Parties, NEW m \in delivered[p], NEW s \in Candidates(p, m)
        PROVE  ~DoDecryptSucceeds(s, m)
    <3>1. m \in Used(p) /\ Used(p) \in SUBSET Message
      BY <2>1, UsedType DEF Inv, Used
    <3>2. session[p] # {}
      BY <2>1, <3>1 DEF Inv
    <3>3. s \in session[p]
      BY <2>1, <3>2, PartiesAssumption DEF Candidates, SessionsForPreKeyMessage, Parties
    <3>4. SessionInv(s, Used(p))
      BY <2>1, <3>3 DEF Inv
    <3>5. QED
      BY <3>1, <3>4, NotAgain
  <2>2. QED
    BY <2>1 DEF NoReplay, Decryptable
<1>2. QED
  BY <1>1, InvAlways, PTL

(* Neither end's record keeps, or can derive again, the key of a message    *)
(* that end has sent or decrypted.                                         *)
THEOREM UsedKeysAreGoneHolds == Spec => []UsedKeysAreGone
<1>1. Inv => UsedKeysAreGone
  BY DEF Inv, SessionInv, UsedKeysAreGone, Used
<1>2. QED
  BY <1>1, InvAlways, PTL

(* The session implements SecureChannel: every accepted message was sent by *)
(* the peer, and none is accepted twice.                                   *)
THEOREM RefinesChannel == Spec => ImplementsChannel
<1>1. Init => Channel!ChInit
  BY DEF Init, Channel!ChInit, Sent
<1>2. Inv /\ [Next]_vars => [Channel!ChNext]_(Channel!chVars)
  <2> SUFFICES ASSUME Inv, [Next]_vars
               PROVE  Channel!ChNext \/ UNCHANGED Channel!chVars
    OBVIOUS
  <2>1. CASE InitOutgoing \/ UNCHANGED vars
    BY <2>1 DEF InitOutgoing, vars, Channel!chVars, Sent
  <2>2. CASE \E p \in Parties : Encrypt(p)
    <3>1. PICK p \in Parties : Encrypt(p)
      BY <2>2
    <3>2. PICK m \in Message : m.from = p /\ m \notin network /\ network' = network \cup {m}
      BY <3>1, EncryptStep
    <3>3. UNCHANGED <<delivered, plaintexts>>
      BY <3>1 DEF Encrypt
    <3>4. \A q \in Parties : /\ Sent(q)' = IF q = p THEN Sent(q) \cup {m} ELSE Sent(q)
                             /\ m \notin Sent(q)
      BY <3>2 DEF Sent
    <3>5. Channel!Send(p)
      BY <3>2, <3>3, <3>4 DEF Channel!Send
    <3>6. QED
      BY <3>5 DEF Channel!ChNext
  <2>3. ASSUME NEW p \in Parties, NEW m \in network, m \notin Used(p), m.from # p,
               m.from \in Parties, network' = network,
               delivered' = [delivered EXCEPT ![p] = @ \cup {m}],
               plaintexts' = [plaintexts EXCEPT ![p] = @ + 1]
        PROVE  Channel!ChNext
    <3>1. m \in Sent(m.from) \ delivered[p]
      BY <2>3 DEF Sent, Used
    <3>2. \A q \in Parties : Sent(q)' = Sent(q)
      BY <2>3 DEF Sent
    <3>3. Channel!Accept(p, m.from)
      BY <2>3, <3>1, <3>2 DEF Channel!Accept
    <3>4. QED
      BY <2>3, <3>3 DEF Channel!ChNext
  <2>4. CASE \E p \in Parties : \E m \in network : Receive(p, m)
    <3>1. PICK p \in Parties, m \in network : Receive(p, m)
      BY <2>4
    <3>2. m.from \in Parties
      BY DEF Inv, TypeOK, Message
    <3>3. CASE DecryptWhisperMessage(p, m)
      BY <2>3, <3>2, <3>3, DecryptWhisperStep DEF DecryptWhisperMessage
    <3>4. CASE DecryptPreKeyWhisperMessage(p, m)
      BY <2>3, <3>2, <3>4, DecryptPreKeyStep DEF DecryptPreKeyWhisperMessage
    <3>5. CASE RejectMessage(p, m)
      BY <2>1, <3>5 DEF RejectMessage
    <3>6. QED
      BY <3>1, <3>3, <3>4, <3>5 DEF Receive
  <2>5. QED
    BY <2>1, <2>2, <2>4 DEF Next
<1>3. QED
  BY <1>1, <1>2, InvAlways, PTL DEF Spec, ImplementsChannel, Channel!ChSpec

------------------------------------------------------------------------------
(* Both parties.  They take turns, so one sequence of agreements is the     *)
(* root key of both, as far as each has come, and the key pair of a chain   *)
(* and its seed determine each other.                                      *)

Peer(p) == IF p = Initiator THEN Responder ELSE Initiator

Turn(i) == {<<Initiator, (i + 1) \div 2>>, <<Responder, i \div 2>>}

Root(n) == [i \in 1..n |-> Turn(i)]

(* How many agreements the seed of the chain of a key has.                 *)
SeedLen(key) == IF key[1] = Initiator THEN 2 * key[2] - 1 ELSE 2 * key[2]

(* The key pair of p when the peer is at its key pair h.                   *)
Place(p, h) == <<p, IF p = Initiator THEN h + 1 ELSE h>>

IsSending(s, c) ==
  c.type = "SENDING" /\ c.key = s.ephemeral /\ c.open /\ c.messageKeys = {}

IsReceiving(p, s, c) ==
  /\ c.type = "RECEIVING" /\ c.key[1] = Peer(p)
  /\ c.key[2] <= s.lastRemote[2] /\ (c.open <=> c.key = s.lastRemote)

ChainInv(p, s, c) ==
  /\ c.key[2] >= 1 /\ c.seed = Root(SeedLen(c.key))
  /\ IsSending(s, c) \/ IsReceiving(p, s, c)

(* The session of p, where the two have come to in their turns.            *)
PlaceInv(p, s) ==
  /\ s.lastRemote[1] = Peer(p)
  /\ s.ephemeral = Place(p, s.lastRemote[2])
  /\ s.root = Root(SeedLen(s.ephemeral))
  /\ \A c \in s.chains : ChainInv(p, s, c)
  /\ s.ephemeral[2] >= 1 => HasChain(s, s.ephemeral)

(* No message on the chain of a key is beyond a counter.                   *)
AllTo(net, key, k) == \A m \in net : m.ephemeral = key => m.counter <= k

(* The session of p against what p has sent.                               *)
NoneAhead(p, s, net) ==
  /\ \A m \in net : m.from = p => m.ephemeral[2] <= s.ephemeral[2]
  /\ \A c \in s.chains : c.type = "SENDING" => AllTo(net, c.key, c.counter)

MessageInv(m) ==
  m.ephemeral[1] = m.from /\ m.ephemeral[2] >= 1 /\ m.seed = Root(SeedLen(m.ephemeral))

LineInv ==
  /\ Inv
  /\ \A m \in network : MessageInv(m)
  /\ \A m, n \in network : m.ephemeral = n.ephemeral /\ m.counter = n.counter => m = n
  /\ \A p \in Parties : \A s, t \in session[p] : s = t
  /\ \A p \in Parties : \A s \in session[p] :
       PlaceInv(p, s) /\ s.ephemeral[2] >= 1 /\ NoneAhead(p, s, network)

LEMMA RootType ==
  ASSUME NEW n \in Nat
  PROVE  Root(n) \in RootKey /\ Len(Root(n)) = n
<1>1. \A i \in 1..n : Turn(i) \in SUBSET PublicKey
  BY DEF Turn, PublicKey, Parties
<1>2. Root(n) \in [1..n -> SUBSET PublicKey]
  BY <1>1 DEF Root
<1>3. Root(n) \in RootKey
  BY <1>2, SeqDef DEF RootKey
<1>4. DOMAIN Root(n) = 1..n /\ DOMAIN Root(n) = 1..Len(Root(n)) /\ Len(Root(n)) \in Nat
  BY <1>2, <1>3, LenProperties DEF RootKey
<1>5. QED
  BY <1>3, <1>4

LEMMA RootNext ==
  ASSUME NEW n \in Nat
  PROVE  Append(Root(n), Turn(n + 1)) = Root(n + 1)
<1> DEFINE a == Append(Root(n), Turn(n + 1))
<1>1. Root(n) \in RootKey /\ Len(Root(n)) = n /\ Root(n + 1) \in RootKey /\ Len(Root(n + 1)) = n + 1
  BY RootType
<1>2. Turn(n + 1) \in SUBSET PublicKey
  BY DEF Turn, PublicKey, Parties
<1>3. /\ a \in RootKey /\ Len(a) = n + 1 /\ a[n + 1] = Turn(n + 1)
      /\ \A i \in 1..n : a[i] = Root(n)[i]
  BY <1>1, <1>2, AppendProperties DEF RootKey
<1> HIDE DEF a
<1>4. \A i \in 1..(n + 1) : a[i] = Root(n + 1)[i]
  <2>1. ASSUME NEW i \in 1..n
        PROVE  Root(n)[i] = Turn(i) /\ Root(n + 1)[i] = Turn(i)
    BY DEF Root
  <2>2. Root(n + 1)[n + 1] = Turn(n + 1)
    BY DEF Root
  <2>3. QED
    BY <1>3, <2>1, <2>2
<1>5. a = Root(n + 1)
  BY <1>1, <1>3, <1>4, SeqEqual DEF RootKey
<1>6. QED
  BY <1>5 DEF a

(* The two agreements of one ratchet step of p.                            *)
LEMMA TurnsOfAStep ==
  ASSUME NEW p \in Parties, NEW h \in Nat
  PROVE  LET own == Place(p, h)  remote == <<Peer(p), h + 1>>
         IN  /\ own \in PublicKey /\ own[1] = p /\ remote \in PublicKey
             /\ SeedLen(own) \in Nat
             /\ NextKeyPair(own) = Place(p, h + 1)
             /\ SeedLen(remote) = SeedLen(own) + 1
             /\ SeedLen(NextKeyPair(own)) = SeedLen(own) + 2
             /\ Agreement(remote, own) = Turn(SeedLen(own) + 1)
             /\ Agreement(remote, NextKeyPair(own)) = Turn(SeedLen(own) + 2)
<1>1. CASE p = Initiator
  <2>1. /\ Peer(p) = Responder /\ Place(p, h) = <<p, h + 1>>
        /\ NextKeyPair(Place(p, h)) = <<p, h + 2>> /\ Place(p, h + 1) = <<p, h + 2>>
    BY <1>1 DEF Peer, Place, NextKeyPair
  <2>2. /\ SeedLen(<<p, h + 1>>) = 2 * h + 1 /\ SeedLen(<<p, h + 2>>) = 2 * h + 3
        /\ SeedLen(<<Responder, h + 1>>) = 2 * h + 2
    BY <1>1, PartiesAssumption DEF SeedLen
  <2>3. /\ Turn(2 * h + 2) = {<<Initiator, h + 1>>, <<Responder, h + 1>>}
        /\ Turn(2 * h + 3) = {<<Initiator, h + 2>>, <<Responder, h + 1>>}
    BY DEF Turn
  <2>4. QED
    BY <1>1, <2>1, <2>2, <2>3 DEF Agreement, PublicKey, Parties
<1>2. CASE p = Responder
  <2>1. /\ Peer(p) = Initiator /\ Place(p, h) = <<p, h>>
        /\ NextKeyPair(Place(p, h)) = <<p, h + 1>> /\ Place(p, h + 1) = <<p, h + 1>>
    BY <1>2, PartiesAssumption DEF Peer, Place, NextKeyPair
  <2>2. /\ SeedLen(<<p, h>>) = 2 * h /\ SeedLen(<<p, h + 1>>) = 2 * h + 2
        /\ SeedLen(<<Initiator, h + 1>>) = 2 * h + 1
    BY <1>2, PartiesAssumption DEF SeedLen
  <2>3. /\ Turn(2 * h + 1) = {<<Initiator, h + 1>>, <<Responder, h>>}
        /\ Turn(2 * h + 2) = {<<Initiator, h + 1>>, <<Responder, h + 1>>}
    BY DEF Turn
  <2>4. QED
    BY <1>2, <2>1, <2>2, <2>3 DEF Agreement, PublicKey, Parties
<1>3. QED
  BY <1>1, <1>2 DEF Parties

(* A seed tells whose chain it seeds, and which.                           *)
LEMMA SeedOfOneKey ==
  ASSUME NEW a \in PublicKey, NEW b \in PublicKey, a[2] >= 1, b[2] >= 1,
         Root(SeedLen(a)) = Root(SeedLen(b))
  PROVE  a = b
<1>1. /\ a = <<a[1], a[2]>> /\ b = <<b[1], b[2]>> /\ a[2] \in Nat /\ b[2] \in Nat
      /\ a[1] \in Parties /\ b[1] \in Parties
  BY DEF PublicKey
<1>2. SeedLen(a) \in Nat /\ SeedLen(b) \in Nat
  BY <1>1 DEF SeedLen
<1>3. SeedLen(a) = SeedLen(b)
  BY <1>2, RootType
<1>4. a[1] = b[1] /\ a[2] = b[2]
  BY <1>1, <1>3, PartiesAssumption DEF SeedLen, Parties
<1>5. QED
  BY <1>1, <1>4

------------------------------------------------------------------------------
(* What one ratchet step and one decryption make of a session.             *)

RecvRoot(s, remote) == Append(s.root, Agreement(remote, s.ephemeral))

SendRoot(s, remote) ==
  Append(RecvRoot(s, remote), Agreement(remote, NextKeyPair(s.ephemeral)))

NewReceiver(s, remote) == NewChain(remote, "RECEIVING", RecvRoot(s, remote))

NewSender(s, remote) == NewChain(NextKeyPair(s.ephemeral), "SENDING", SendRoot(s, remote))

Closed(s, c, n) == IF c.key = s.lastRemote THEN CloseChain(c, n) ELSE c

KeptChains(s, n) == {Closed(s, c, n) : c \in {d \in s.chains : d.key # s.ephemeral}}

AllChains(s, remote, n) ==
  KeptChains(s, n) \cup {NewReceiver(s, remote), NewSender(s, remote)}

LEMMA StepResult ==
  ASSUME NEW s \in Session, NEW remote, NEW n
  PROVE  LET t == StepRatchet(s, remote, n)
         IN  /\ t.root = SendRoot(s, remote) /\ t.ephemeral = NextKeyPair(s.ephemeral)
             /\ t.lastRemote = remote /\ t.previousCounter = LastSentCounter(s)
             /\ t.pendingPreKey = s.pendingPreKey
             /\ t.chains = RemoveOldReceiverChains(AllChains(s, remote, n))
<1>1. PICK t : t = StepRatchet(s, remote, n)
  OBVIOUS
<1>2. /\ t.root = SendRoot(s, remote) /\ t.ephemeral = NextKeyPair(s.ephemeral)
      /\ t.lastRemote = remote /\ t.previousCounter = LastSentCounter(s)
      /\ t.pendingPreKey = s.pendingPreKey
      /\ t.chains = RemoveOldReceiverChains(AllChains(s, remote, n))
  BY <1>1 DEF Session, StepRatchet, SendRoot, RecvRoot, NewReceiver, NewSender, Closed,
              KeptChains, AllChains
<1>3. QED
  BY <1>1, <1>2

LEMMA NewChainFields ==
  ASSUME NEW key, NEW type, NEW seed
  PROVE  LET c == NewChain(key, type, seed)
         IN  /\ c.key = key /\ c.type = type /\ c.seed = seed
             /\ c.counter = -1 /\ c.open = TRUE /\ c.messageKeys = {}
BY DEF NewChain

(* A chain of the session after a step is new or was kept.                 *)
LEMMA StepChains ==
  ASSUME NEW s \in Session, NEW remote, NEW n, NEW d \in StepRatchet(s, remote, n).chains
  PROVE  \/ d = NewReceiver(s, remote)
         \/ d = NewSender(s, remote)
         \/ \E c \in s.chains : c.key # s.ephemeral /\ d = Closed(s, c, n)
<1>1. PICK t : t = StepRatchet(s, remote, n)
  OBVIOUS
<1>2. t.chains = RemoveOldReceiverChains(AllChains(s, remote, n))
  BY <1>1, StepResult
<1>3. d \in AllChains(s, remote, n)
  BY <1>1, <1>2 DEF RemoveOldReceiverChains
<1>4. QED
  BY <1>3 DEF KeptChains, AllChains

LEMMA StepHasSender ==
  ASSUME NEW s \in Session, NEW remote, NEW n
  PROVE  NewSender(s, remote) \in StepRatchet(s, remote, n).chains
<1>1. PICK t : t = StepRatchet(s, remote, n)
  OBVIOUS
<1>2. t.chains = RemoveOldReceiverChains(AllChains(s, remote, n))
  BY <1>1, StepResult
<1>3. NewSender(s, remote).type = "SENDING"
  BY DEF NewSender, NewChain
<1>4. NewSender(s, remote) \in RemoveOldReceiverChains(AllChains(s, remote, n))
  BY <1>3 DEF RemoveOldReceiverChains, AllChains
<1>5. QED
  BY <1>1, <1>2, <1>4

(* Closing a chain changes its counter, its message keys and its openness. *)
LEMMA FillFields ==
  ASSUME NEW c \in Chain, NEW n \in Counters, NEW d, d = FillMessageKeys(c, n)
  PROVE  /\ d.key = c.key /\ d.type = c.type /\ d.seed = c.seed /\ d.open = c.open
         /\ d.counter = IF n > c.counter THEN n ELSE c.counter
         /\ d.messageKeys = IF n > c.counter
                            THEN PruneMessageKeys(c.messageKeys \cup (c.counter + 1)..n)
                            ELSE c.messageKeys
BY DEF FillMessageKeys, Chain, Counters

LEMMA FillType ==
  ASSUME NEW c \in Chain, NEW n \in Counters
  PROVE  FillMessageKeys(c, n) \in Chain
<1>1. CASE n > c.counter
  <2>1. PICK keys : keys = PruneMessageKeys(c.messageKeys \cup (c.counter + 1)..n)
    OBVIOUS
  <2>2. c.messageKeys \cup (c.counter + 1)..n \subseteq Nat
    BY <1>1 DEF Chain, Counters
  <2>3. keys \subseteq Nat
    BY <2>1, <2>2 DEF PruneMessageKeys
  <2>4. FillMessageKeys(c, n) = [c EXCEPT !.counter = n, !.messageKeys = keys]
    BY <1>1, <2>1 DEF FillMessageKeys
  <2>5. QED
    BY <1>1, <2>3, <2>4 DEF Chain, Counters
<1>2. CASE ~(n > c.counter)
  BY <1>2 DEF FillMessageKeys
<1>3. QED
  BY <1>1, <1>2

LEMMA CloseFields ==
  ASSUME NEW c \in Chain, NEW n \in Counters, NEW d, d = CloseChain(c, n)
  PROVE  /\ d.key = c.key /\ d.type = c.type /\ d.seed = c.seed /\ d.open = FALSE
         /\ d.counter = FillMessageKeys(c, n).counter
         /\ d.messageKeys = FillMessageKeys(c, n).messageKeys
<1>1. PICK f : f = FillMessageKeys(c, n)
  OBVIOUS
<1>2. f.key = c.key /\ f.type = c.type /\ f.seed = c.seed
  BY <1>1, FillFields
<1>3. f \in Chain
  BY <1>1, FillType
<1>4. d = [f EXCEPT !.open = FALSE]
  BY <1>1 DEF CloseChain
<1>5. QED
  BY <1>1, <1>2, <1>3, <1>4 DEF Chain

LEMMA TakeFields ==
  ASSUME NEW c \in Chain, NEW n \in Counters, NEW d,
         d = TakeMessageKey(FillMessageKeys(c, n), n)
  PROVE  /\ d.key = c.key /\ d.type = c.type /\ d.seed = c.seed /\ d.open = c.open
         /\ d.counter = FillMessageKeys(c, n).counter
         /\ d.messageKeys = FillMessageKeys(c, n).messageKeys \ {n}
<1>1. PICK f : f = FillMessageKeys(c, n)
  OBVIOUS
<1>2. f.key = c.key /\ f.type = c.type /\ f.seed = c.seed /\ f.open = c.open
  BY <1>1, FillFields
<1>3. f \in Chain
  BY <1>1, FillType
<1>4. d = [f EXCEPT !.messageKeys = @ \ {n}]
  BY <1>1 DEF TakeMessageKey
<1>5. QED
  BY <1>1, <1>2, <1>3, <1>4 DEF Chain

(* A chain that was kept is an earlier one moved on, closed if it was the   *)
(* chain of the last remote key.                                           *)
LEMMA ClosedFields ==
  ASSUME NEW s \in Session, NEW c \in s.chains, NEW n \in Counters,
         NEW d, d = Closed(s, c, n)
  PROVE  /\ d.key = c.key /\ d.type = c.type /\ d.seed = c.seed
         /\ d.open = (c.open /\ c.key # s.lastRemote)
         /\ c.key # s.lastRemote => d = c
         /\ c.key = s.lastRemote => /\ d.counter = FillMessageKeys(c, n).counter
                                    /\ d.messageKeys = FillMessageKeys(c, n).messageKeys
<1>1. c \in Chain
  BY DEF Session
<1>2. CASE c.key = s.lastRemote
  BY <1>1, <1>2, CloseFields DEF Closed
<1>3. CASE c.key # s.lastRemote
  BY <1>1, <1>3 DEF Closed, Chain
<1>4. QED
  BY <1>2, <1>3

(* The chain a message decrypts on has its key and its seed.               *)
LEMMA DecryptChain ==
  ASSUME NEW s, NEW used \in SUBSET Message, SessionInv(s, used), NEW m \in Message,
         DoDecryptSucceeds(s, m)
  PROVE  LET c == ReceivingChain(s, m)
         IN  /\ c \in MaybeStepRatchet(s, m).chains /\ c \in Chain
             /\ c.key = m.ephemeral /\ c.type = "RECEIVING" /\ c.seed = m.seed
<1>1. PICK c : c = ReceivingChain(s, m)
  OBVIOUS
<1>2. c \in MaybeStepRatchet(s, m).chains /\ c \in Chain
  BY <1>1, ReceivingChainFacts
<1>3. HasChain(MaybeStepRatchet(s, m), m.ephemeral)
  BY MaybeStepRatchetKeeps
<1>4. c.key = m.ephemeral
  BY <1>1, <1>3 DEF ReceivingChain, HasChain, GetChain, ChainsFor
<1>5. c.type = "RECEIVING"
  BY <1>1 DEF DoDecryptSucceeds
<1>6. c.seed = m.seed
  <2>1. m.counter \in Counters
    BY DEF Message, Counters
  <2>2. PICK f : f = FillMessageKeys(c, m.counter)
    OBVIOUS
  <2>3. f.seed = c.seed
    BY <1>2, <2>1, <2>2, FillFields
  <2>4. f.seed = m.seed
    BY <1>1, <2>2 DEF DoDecryptSucceeds, FilledChain
  <2>5. QED
    BY <2>3, <2>4
<1>7. QED
  BY <1>1, <1>2, <1>4, <1>5, <1>6

(* A successful decryption is a step or not, and one chain replaced.       *)
LEMMA DecryptResult ==
  ASSUME NEW s, NEW used \in SUBSET Message, SessionInv(s, used), NEW m \in Message,
         DoDecryptSucceeds(s, m)
  PROVE  LET t == MaybeStepRatchet(s, m)
             c == ReceivingChain(s, m)
             u == DoDecrypt(s, m)
         IN  /\ t \in Session
             /\ u.root = t.root /\ u.ephemeral = t.ephemeral /\ u.lastRemote = t.lastRemote
             /\ u.previousCounter = t.previousCounter /\ u.pendingPreKey = FALSE
             /\ u.chains = (t.chains \ {c}) \cup
                              {TakeMessageKey(FillMessageKeys(c, m.counter), m.counter)}
<1>1. PICK t : t = MaybeStepRatchet(s, m)
  OBVIOUS
<1>2. PICK chains : chains = (t.chains \ {ReceivingChain(s, m)}) \cup
                       {TakeMessageKey(FillMessageKeys(ReceivingChain(s, m), m.counter), m.counter)}
  OBVIOUS
<1>3. t \in Session
  BY <1>1, ReceivingChainFacts DEF SessionInv
<1>4. DoDecrypt(s, m) = [t EXCEPT !.chains = chains, !.pendingPreKey = FALSE]
  BY <1>1, <1>2 DEF DoDecrypt, FilledChain
<1>5. QED
  BY <1>1, <1>2, <1>3, <1>4 DEF Session

LEMMA PlaceFacts ==
  ASSUME NEW p \in Parties, NEW s \in Session, PlaceInv(p, s)
  PROVE  /\ s.lastRemote[2] \in Nat /\ s.lastRemote = <<Peer(p), s.lastRemote[2]>>
         /\ s.ephemeral \in PublicKey /\ s.ephemeral[1] = p /\ s.ephemeral[2] \in Nat
         /\ s.ephemeral[2] >= s.lastRemote[2] /\ Peer(p) # p /\ Peer(p) \in Parties
         /\ SeedLen(s.ephemeral) \in Nat
<1>1. s.lastRemote \in PublicKey
  BY DEF Session
<1>2. s.lastRemote[2] \in Nat /\ s.lastRemote = <<s.lastRemote[1], s.lastRemote[2]>>
  BY <1>1 DEF PublicKey
<1>3. s.lastRemote[1] = Peer(p) /\ s.ephemeral = Place(p, s.lastRemote[2])
  BY DEF PlaceInv
<1>4. s.ephemeral \in PublicKey /\ s.ephemeral[1] = p /\ SeedLen(s.ephemeral) \in Nat
  <2>1. PICK h \in Nat : h = s.lastRemote[2]
    BY <1>2
  <2>2. Place(p, h) \in PublicKey /\ Place(p, h)[1] = p /\ SeedLen(Place(p, h)) \in Nat
    BY <2>1, TurnsOfAStep
  <2>3. QED
    BY <1>3, <2>1, <2>2
<1>5. s.ephemeral[2] \in Nat /\ s.ephemeral[2] >= s.lastRemote[2]
  BY <1>2, <1>3 DEF Place
<1>6. Peer(p) # p /\ Peer(p) \in Parties
  BY PartiesAssumption DEF Peer, Parties
<1>7. QED
  BY <1>2, <1>3, <1>4, <1>5, <1>6

(* The key that the peer is at when it has taken its next turn.            *)
IsNextKey(p, s, key) == key[1] = Peer(p) /\ key[2] = s.lastRemote[2] + 1

(* The seeds of the two chains a step to the peer's next key makes.        *)
LEMMA StepRoots ==
  ASSUME NEW p \in Parties, NEW s \in Session, PlaceInv(p, s),
         NEW remote \in PublicKey, IsNextKey(p, s, remote)
  PROVE  /\ RecvRoot(s, remote) = Root(SeedLen(remote))
         /\ SendRoot(s, remote) = Root(SeedLen(NextKeyPair(s.ephemeral)))
         /\ NextKeyPair(s.ephemeral) = Place(p, s.lastRemote[2] + 1)
<1> DEFINE h == s.lastRemote[2]
           n == SeedLen(s.ephemeral)
<1>1. h \in Nat /\ n \in Nat
  BY PlaceFacts
<1>2. s.ephemeral = Place(p, h) /\ s.root = Root(n)
  BY DEF PlaceInv
<1> HIDE DEF h
<1>3. /\ NextKeyPair(s.ephemeral) = Place(p, h + 1)
      /\ SeedLen(remote) = n + 1 /\ SeedLen(NextKeyPair(s.ephemeral)) = n + 2
      /\ Agreement(remote, s.ephemeral) = Turn(n + 1)
      /\ Agreement(remote, NextKeyPair(s.ephemeral)) = Turn(n + 2)
  <2>1. remote = <<Peer(p), h + 1>>
    BY DEF IsNextKey, PublicKey, h
  <2>2. QED
    BY <1>1, <1>2, <2>1, TurnsOfAStep
<1> HIDE DEF n
<1>4. RecvRoot(s, remote) = Root(n + 1)
  BY <1>1, <1>2, <1>3, RootNext DEF RecvRoot
<1>5. SendRoot(s, remote) = Root(n + 2)
  <2>1. Append(Root(n + 1), Turn(n + 1 + 1)) = Root(n + 1 + 1)
    <3>1. PICK k \in Nat : k = n + 1
      BY <1>1
    <3>2. QED
      BY <3>1, RootNext
  <2>2. n + 1 + 1 = n + 2
    BY <1>1
  <2>3. QED
    BY <1>3, <1>4, <2>1, <2>2 DEF SendRoot
<1>6. QED
  BY <1>3, <1>4, <1>5 DEF h

(* A message decrypts on a chain there is, or on the one that the peer's    *)
(* next key makes: no other agreement gives the seed it was sealed under.  *)
LEMMA DecryptKinds ==
  ASSUME NEW p \in Parties, NEW s, NEW used \in SUBSET Message, SessionInv(s, used),
         PlaceInv(p, s), NEW m \in Message, MessageInv(m), DoDecryptSucceeds(s, m)
  PROVE  /\ m.ephemeral[1] = Peer(p)
         /\ \/ HasChain(s, m.ephemeral) /\ m.ephemeral[2] <= s.lastRemote[2]
            \/ ~HasChain(s, m.ephemeral) /\ IsNextKey(p, s, m.ephemeral)
<1>1. PICK c : c = ReceivingChain(s, m)
  OBVIOUS
<1>2. PICK t : t = MaybeStepRatchet(s, m)
  OBVIOUS
<1>3. /\ c \in t.chains /\ c.key = m.ephemeral /\ c.type = "RECEIVING" /\ c.seed = m.seed
  BY <1>1, <1>2, DecryptChain
<1>4. s \in Session
  BY DEF SessionInv
<1>5. CASE HasChain(s, m.ephemeral)
  <2>1. t = s
    BY <1>2, <1>5 DEF MaybeStepRatchet
  <2>2. IsReceiving(p, s, c)
    BY <1>3, <2>1 DEF PlaceInv, ChainInv, IsSending
  <2>3. QED
    BY <1>3, <1>5, <2>2 DEF IsReceiving
<1>6. CASE ~HasChain(s, m.ephemeral)
  <2>1. t = StepRatchet(s, m.ephemeral, m.previousCounter)
    BY <1>2, <1>6 DEF MaybeStepRatchet
  <2>2. m.ephemeral \in PublicKey /\ m.previousCounter \in Counters
    BY DEF Message, Counters
  <2>3. c = NewReceiver(s, m.ephemeral)
    <3>1. c # NewSender(s, m.ephemeral)
      BY <1>3 DEF NewSender, NewChain
    <3>2. ASSUME NEW b \in s.chains, c = Closed(s, b, m.previousCounter)
          PROVE  FALSE
      <4>1. c.key = b.key
        BY <1>4, <2>2, <3>2, ClosedFields
      <4>2. QED
        BY <1>3, <1>6, <4>1 DEF HasChain, ChainsFor
    <3>3. QED
      BY <1>3, <1>4, <2>1, <3>1, <3>2, StepChains
  <2>4. c.seed = RecvRoot(s, m.ephemeral)
    BY <2>3 DEF NewReceiver, NewChain
  <2>5. Root(SeedLen(m.ephemeral)) = Append(s.root, Agreement(m.ephemeral, s.ephemeral))
    BY <1>3, <2>4 DEF RecvRoot, MessageInv
  <2>6. /\ s.ephemeral \in PublicKey /\ s.lastRemote[2] \in Nat
        /\ SeedLen(s.ephemeral) \in Nat /\ s.ephemeral = Place(p, s.lastRemote[2])
        /\ s.root = Root(SeedLen(s.ephemeral))
    BY <1>4, PlaceFacts DEF PlaceInv
  <2>7. /\ m.ephemeral = <<m.ephemeral[1], m.ephemeral[2]>> /\ m.ephemeral[1] \in Parties
        /\ m.ephemeral[2] \in Nat /\ m.ephemeral[2] >= 1
    BY <2>2 DEF PublicKey, MessageInv
  <2>8. SeedLen(m.ephemeral) \in Nat
    BY <2>7 DEF SeedLen
  <2>9. SeedLen(m.ephemeral) = SeedLen(s.ephemeral) + 1
    <3>1. Agreement(m.ephemeral, s.ephemeral) \in SUBSET PublicKey
      BY <2>2, <2>6 DEF Agreement
    <3>2. s.root \in RootKey /\ Len(s.root) = SeedLen(s.ephemeral)
      BY <2>6, RootType
    <3>3. Len(Append(s.root, Agreement(m.ephemeral, s.ephemeral))) = Len(s.root) + 1
      BY <3>1, <3>2, RootGrows
    <3>4. Len(Root(SeedLen(m.ephemeral))) = SeedLen(m.ephemeral)
      BY <2>8, RootType
    <3>5. QED
      BY <2>5, <3>2, <3>3, <3>4
  <2>10. m.ephemeral[1] = Peer(p) /\ m.ephemeral[2] = s.lastRemote[2] + 1
    <3>1. CASE p = Initiator
      <4>1. SeedLen(s.ephemeral) = 2 * s.lastRemote[2] + 1
        BY <2>6, <3>1 DEF Place, SeedLen
      <4>2. m.ephemeral[1] # Initiator
        BY <2>6, <2>7, <2>9, <4>1 DEF SeedLen
      <4>3. SeedLen(m.ephemeral) = 2 * m.ephemeral[2]
        BY <4>2 DEF SeedLen
      <4>4. QED
        BY <2>6, <2>7, <2>9, <3>1, <4>1, <4>2, <4>3 DEF Peer, Parties
    <3>2. CASE p = Responder
      <4>1. SeedLen(s.ephemeral) = 2 * s.lastRemote[2]
        BY <2>6, <3>2, PartiesAssumption DEF Place, SeedLen
      <4>2. m.ephemeral[1] = Initiator
        BY <2>6, <2>7, <2>9, <4>1 DEF SeedLen
      <4>3. SeedLen(m.ephemeral) = 2 * m.ephemeral[2] - 1
        BY <4>2 DEF SeedLen
      <4>4. QED
        BY <2>6, <2>7, <2>9, <3>2, <4>1, <4>2, <4>3, PartiesAssumption DEF Peer
    <3>3. QED
      BY <3>1, <3>2 DEF Parties
  <2>11. QED
    BY <1>6, <2>10 DEF IsNextKey
<1>7. QED
  BY <1>5, <1>6

(* A ratchet step to the peer's next key keeps the turns.                  *)
LEMMA StepKeepsPlace ==
  ASSUME NEW p \in Parties, NEW s \in Session, PlaceInv(p, s), NEW n \in Counters,
         NEW remote \in PublicKey, IsNextKey(p, s, remote)
  PROVE  PlaceInv(p, StepRatchet(s, remote, n))
<1>0. PICK t : t = StepRatchet(s, remote, n)
  OBVIOUS
<1>1. /\ t.root = SendRoot(s, remote) /\ t.ephemeral = NextKeyPair(s.ephemeral)
      /\ t.lastRemote = remote
  BY <1>0, StepResult
<1>2. /\ RecvRoot(s, remote) = Root(SeedLen(remote))
      /\ SendRoot(s, remote) = Root(SeedLen(NextKeyPair(s.ephemeral)))
      /\ NextKeyPair(s.ephemeral) = Place(p, s.lastRemote[2] + 1)
  BY StepRoots
<1>3. s.lastRemote[2] \in Nat
  BY PlaceFacts
<1>4. remote[1] = Peer(p) /\ remote[2] = s.lastRemote[2] + 1
  BY DEF IsNextKey
<1>5. ASSUME NEW d \in t.chains
      PROVE  ChainInv(p, t, d)
  <2>1. CASE d = NewReceiver(s, remote)
    <3>1. /\ d.key = remote /\ d.type = "RECEIVING" /\ d.open = TRUE
          /\ d.seed = Root(SeedLen(remote))
      BY <1>2, <2>1 DEF NewReceiver, NewChain
    <3>2. QED
      BY <1>1, <1>3, <1>4, <3>1 DEF ChainInv, IsReceiving
  <2>2. CASE d = NewSender(s, remote)
    <3>1. /\ d.key = t.ephemeral /\ d.type = "SENDING" /\ d.open = TRUE /\ d.messageKeys = {}
          /\ d.seed = Root(SeedLen(t.ephemeral))
      BY <1>1, <1>2, <2>2 DEF NewSender, NewChain
    <3>2. t.ephemeral[2] >= 1
      BY <1>1, <1>2, <1>3 DEF Place
    <3>3. QED
      BY <3>1, <3>2 DEF ChainInv, IsSending
  <2>3. CASE \E c \in s.chains : c.key # s.ephemeral /\ d = Closed(s, c, n)
    <3>1. PICK c \in s.chains : c.key # s.ephemeral /\ d = Closed(s, c, n)
      BY <2>3
    <3>2. ChainInv(p, s, c) /\ IsReceiving(p, s, c)
      BY <3>1 DEF PlaceInv, ChainInv, IsSending
    <3>3. /\ d.key = c.key /\ d.type = c.type /\ d.seed = c.seed
          /\ d.open = (c.open /\ c.key # s.lastRemote)
      BY <3>1, ClosedFields
    <3>4. d.key[2] \in Nat
      <4>1. c \in Chain
        BY DEF Session
      <4>2. QED
        BY <3>3, <4>1 DEF Chain, PublicKey
    <3>5. d.key[2] <= s.lastRemote[2]
      BY <3>2, <3>3 DEF IsReceiving
    <3>6. d.key # t.lastRemote /\ d.key[2] <= t.lastRemote[2]
      BY <1>1, <1>3, <1>4, <3>4, <3>5
    <3>7. d.open = FALSE
      BY <3>2, <3>3 DEF IsReceiving
    <3>8. QED
      BY <3>2, <3>3, <3>6, <3>7 DEF ChainInv, IsReceiving
  <2>4. QED
    BY <1>0, <1>1, <2>1, <2>2, <2>3, StepChains
<1>6. HasChain(t, t.ephemeral)
  <2>1. NewSender(s, remote) \in t.chains
    BY <1>0, StepHasSender
  <2>2. NewSender(s, remote).key = t.ephemeral
    BY <1>1 DEF NewSender, NewChain
  <2>3. QED
    BY <2>1, <2>2 DEF HasChain, ChainsFor
<1>7. QED
  BY <1>0, <1>1, <1>2, <1>4, <1>5, <1>6 DEF PlaceInv

LEMMA DecryptKeepsPlace ==
  ASSUME NEW p \in Parties, NEW s, NEW used \in SUBSET Message, SessionInv(s, used),
         PlaceInv(p, s), NEW m \in Message, MessageInv(m), DoDecryptSucceeds(s, m)
  PROVE  PlaceInv(p, DoDecrypt(s, m)) /\ DoDecrypt(s, m).ephemeral[2] >= 1
<1>1. PICK t : t = MaybeStepRatchet(s, m)
  OBVIOUS
<1>2. PICK u : u = DoDecrypt(s, m)
  OBVIOUS
<1>3. PICK c : c = ReceivingChain(s, m)
  OBVIOUS
<1>4. PICK d : d = TakeMessageKey(FillMessageKeys(c, m.counter), m.counter)
  OBVIOUS
<1>5. /\ t \in Session /\ u.root = t.root /\ u.ephemeral = t.ephemeral
      /\ u.lastRemote = t.lastRemote /\ u.chains = (t.chains \ {c}) \cup {d}
  BY <1>1, <1>2, <1>3, <1>4, DecryptResult
<1>6. c \in t.chains /\ c \in Chain /\ c.type = "RECEIVING"
  BY <1>1, <1>3, DecryptChain
<1>7. d.key = c.key /\ d.type = c.type /\ d.seed = c.seed /\ d.open = c.open
  <2>1. m.counter \in Counters
    BY DEF Message, Counters
  <2>2. QED
    BY <1>4, <1>6, <2>1, TakeFields
<1>8. s \in Session /\ m.ephemeral \in PublicKey /\ m.previousCounter \in Counters
  BY DEF SessionInv, Message, Counters
<1>9. PlaceInv(p, t)
  <2>1. CASE HasChain(s, m.ephemeral)
    BY <1>1, <2>1 DEF MaybeStepRatchet
  <2>2. CASE ~HasChain(s, m.ephemeral)
    <3>1. IsNextKey(p, s, m.ephemeral)
      BY <2>2, DecryptKinds
    <3>2. t = StepRatchet(s, m.ephemeral, m.previousCounter)
      BY <1>1, <2>2 DEF MaybeStepRatchet
    <3>3. QED
      BY <1>8, <3>1, <3>2, StepKeepsPlace
  <2>3. QED
    BY <2>1, <2>2
<1>10. \A e \in u.chains : ChainInv(p, u, e)
  <2>1. ASSUME NEW e \in t.chains
        PROVE  ChainInv(p, u, e)
    BY <1>5, <1>9 DEF PlaceInv, ChainInv, IsSending, IsReceiving
  <2>2. ChainInv(p, u, d)
    <3>1. ChainInv(p, u, c) /\ IsReceiving(p, u, c)
      BY <1>6, <2>1 DEF ChainInv, IsSending
    <3>2. QED
      BY <1>7, <3>1 DEF ChainInv, IsReceiving
  <2>3. QED
    BY <1>5, <2>1, <2>2
<1>11. u.ephemeral[2] >= 1 /\ HasChain(u, u.ephemeral)
  <2>1. c.key[2] >= 1 /\ c.key[2] <= t.lastRemote[2]
    BY <1>6, <1>9 DEF PlaceInv, ChainInv, IsReceiving, IsSending
  <2>2. c.key[2] \in Nat
    BY <1>6 DEF Chain, PublicKey
  <2>3. t.ephemeral[2] \in Nat /\ t.lastRemote[2] \in Nat /\ t.ephemeral[2] >= t.lastRemote[2]
    BY <1>5, <1>9, PlaceFacts
  <2>4. u.ephemeral[2] >= 1
    BY <1>5, <2>1, <2>2, <2>3
  <2>5. PICK b \in t.chains : b.key = t.ephemeral
    BY <1>5, <1>9, <2>4 DEF PlaceInv, HasChain, ChainsFor
  <2>6. QED
    BY <1>5, <1>7, <2>4, <2>5 DEF HasChain, ChainsFor
<1>12. QED
  BY <1>2, <1>5, <1>9, <1>10, <1>11 DEF PlaceInv

(* The chain p sends on after a decryption is the one of before, or new.   *)
LEMMA DecryptKeepsSender ==
  ASSUME NEW p \in Parties, NEW s, NEW used \in SUBSET Message, SessionInv(s, used),
         PlaceInv(p, s), NEW m \in Message, MessageInv(m), DoDecryptSucceeds(s, m),
         NEW u, u = DoDecrypt(s, m), NEW c \in u.chains, c.type = "SENDING"
  PROVE  \/ c \in s.chains /\ HasChain(s, m.ephemeral)
         \/ /\ c.key = NextKeyPair(s.ephemeral) /\ c.counter = -1
            /\ ~HasChain(s, m.ephemeral)
<1>1. PICK t : t = MaybeStepRatchet(s, m)
  OBVIOUS
<1>2. PICK r : r = ReceivingChain(s, m)
  OBVIOUS
<1>3. PICK d : d = TakeMessageKey(FillMessageKeys(r, m.counter), m.counter)
  OBVIOUS
<1>4. u.chains = (t.chains \ {r}) \cup {d}
  BY <1>1, <1>2, <1>3, DecryptResult
<1>5. r \in Chain /\ r.type = "RECEIVING"
  BY <1>1, <1>2, DecryptChain
<1>6. d.type = r.type
  <2>1. m.counter \in Counters
    BY DEF Message, Counters
  <2>2. QED
    BY <1>3, <1>5, <2>1, TakeFields
<1>7. c \in t.chains
  BY <1>4, <1>5, <1>6
<1>8. s \in Session /\ m.previousCounter \in Counters
  BY DEF SessionInv, Message, Counters
<1>9. CASE HasChain(s, m.ephemeral)
  BY <1>1, <1>7, <1>9 DEF MaybeStepRatchet
<1>10. CASE ~HasChain(s, m.ephemeral)
  <2>1. t = StepRatchet(s, m.ephemeral, m.previousCounter)
    BY <1>1, <1>10 DEF MaybeStepRatchet
  <2>2. c # NewReceiver(s, m.ephemeral)
    BY DEF NewReceiver, NewChain
  <2>3. ASSUME NEW b \in s.chains, b.key # s.ephemeral, c = Closed(s, b, m.previousCounter)
        PROVE  FALSE
    <3>1. c.type = b.type
      BY <1>8, <2>3, ClosedFields
    <3>2. b.type = "RECEIVING"
      BY <2>3 DEF PlaceInv, ChainInv, IsSending, IsReceiving
    <3>3. QED
      BY <3>1, <3>2
  <2>4. c = NewSender(s, m.ephemeral)
    BY <1>7, <1>8, <2>1, <2>2, <2>3, StepChains
  <2>5. QED
    BY <1>10, <2>4 DEF NewSender, NewChain
<1>11. QED
  BY <1>9, <1>10

(* The generations of a key pair only grow.                                *)
LEMMA DecryptTurns ==
  ASSUME NEW p \in Parties, NEW s, NEW used \in SUBSET Message, SessionInv(s, used),
         PlaceInv(p, s), NEW m \in Message, MessageInv(m), DoDecryptSucceeds(s, m)
  PROVE  LET u == DoDecrypt(s, m)
             h == s.lastRemote[2]
         IN  /\ HasChain(s, m.ephemeral) => /\ u.ephemeral = s.ephemeral
                                            /\ u.lastRemote = s.lastRemote
                                            /\ u.root = s.root
                                            /\ u.previousCounter = s.previousCounter
             /\ ~HasChain(s, m.ephemeral) => /\ u.ephemeral = NextKeyPair(s.ephemeral)
                                             /\ u.lastRemote = m.ephemeral
                                             /\ u.root = SendRoot(s, m.ephemeral)
                                             /\ u.previousCounter = LastSentCounter(s)
<1>1. PICK t : t = MaybeStepRatchet(s, m)
  OBVIOUS
<1>2. PICK u : u = DoDecrypt(s, m)
  OBVIOUS
<1>3. /\ u.ephemeral = t.ephemeral /\ u.lastRemote = t.lastRemote
      /\ u.root = t.root /\ u.previousCounter = t.previousCounter
  BY <1>1, <1>2, DecryptResult
<1>4. s \in Session
  BY DEF SessionInv
<1>5. HasChain(s, m.ephemeral) => t = s
  BY <1>1 DEF MaybeStepRatchet
<1>6. ASSUME ~HasChain(s, m.ephemeral)
      PROVE  /\ t.ephemeral = NextKeyPair(s.ephemeral) /\ t.lastRemote = m.ephemeral
             /\ t.root = SendRoot(s, m.ephemeral) /\ t.previousCounter = LastSentCounter(s)
  <2>1. t = StepRatchet(s, m.ephemeral, m.previousCounter)
    BY <1>1, <1>6 DEF MaybeStepRatchet
  <2>2. QED
    BY <1>4, <2>1, StepResult
<1>7. QED
  BY <1>2, <1>3, <1>5, <1>6

LEMMA DecryptKeepsNoneAhead ==
  ASSUME NEW p \in Parties, NEW s, NEW used \in SUBSET Message, SessionInv(s, used),
         PlaceInv(p, s), NEW m \in Message, MessageInv(m), DoDecryptSucceeds(s, m),
         NEW net \in SUBSET Message, \A n \in net : MessageInv(n), NoneAhead(p, s, net)
  PROVE  NoneAhead(p, DoDecrypt(s, m), net)
<1>1. PICK u : u = DoDecrypt(s, m)
  OBVIOUS
<1>2. /\ s.ephemeral[1] = p /\ s.ephemeral[2] \in Nat
  BY PlaceFacts DEF SessionInv
<1>3. NextKeyPair(s.ephemeral)[1] = p /\ NextKeyPair(s.ephemeral)[2] = s.ephemeral[2] + 1
  BY <1>2 DEF NextKeyPair
<1>4. u.ephemeral = s.ephemeral \/ u.ephemeral = NextKeyPair(s.ephemeral)
  BY <1>1, DecryptTurns
<1>5. ASSUME NEW n \in net, n.from = p
      PROVE  n.ephemeral[2] <= u.ephemeral[2]
  <2>1. n.ephemeral[2] <= s.ephemeral[2] /\ n.ephemeral[2] \in Nat
    BY <1>5 DEF NoneAhead, Message, PublicKey
  <2>2. QED
    BY <1>2, <1>3, <1>4, <2>1
<1>6. ASSUME NEW c \in u.chains, c.type = "SENDING"
      PROVE  AllTo(net, c.key, c.counter)
  <2>1. CASE c \in s.chains
    BY <1>6, <2>1 DEF NoneAhead
  <2>2. CASE c.key = NextKeyPair(s.ephemeral)
    <3>1. ASSUME NEW n \in net, n.ephemeral = c.key
          PROVE  FALSE
      <4>1. n.from = p /\ n.ephemeral[2] = s.ephemeral[2] + 1
        BY <1>3, <2>2, <3>1 DEF MessageInv
      <4>2. n.ephemeral[2] <= s.ephemeral[2]
        BY <4>1 DEF NoneAhead
      <4>3. QED
        BY <1>2, <4>1, <4>2
    <3>2. QED
      BY <3>1 DEF AllTo
  <2>3. QED
    BY <1>1, <1>6, <2>1, <2>2, DecryptKeepsSender
<1>7. QED
  BY <1>1, <1>5, <1>6 DEF NoneAhead

(* Sealing a message moves the sending chain one on and leaves it no key.  *)
Moved(c) == TakeMessageKey(FillMessageKeys(c, c.counter + 1), c.counter + 1)

LEMMA PruneOne ==
  ASSUME NEW n
  PROVE  PruneMessageKeys({n}) \subseteq {n}
BY DEF PruneMessageKeys

LEMMA MovedFields ==
  ASSUME NEW c \in Chain, c.messageKeys = {}
  PROVE  LET d == Moved(c)
         IN  /\ d.key = c.key /\ d.type = c.type /\ d.seed = c.seed /\ d.open = c.open
             /\ d.counter = c.counter + 1 /\ d.messageKeys = {}
<1>1. PICK n \in Counters : n = c.counter + 1
  BY DEF Chain, Counters
<1>2. n > c.counter
  BY <1>1 DEF Chain
<1>3. PICK d : d = TakeMessageKey(FillMessageKeys(c, n), n)
  OBVIOUS
<1>4. PICK f : f = FillMessageKeys(c, n)
  OBVIOUS
<1>5. f.counter = n /\ f.messageKeys = PruneMessageKeys(c.messageKeys \cup (c.counter + 1)..n)
  BY <1>2, <1>4, FillFields
<1>6. /\ d.key = c.key /\ d.type = c.type /\ d.seed = c.seed /\ d.open = c.open
      /\ d.counter = f.counter /\ d.messageKeys = f.messageKeys \ {n}
  BY <1>3, <1>4, TakeFields
<1>7. PICK keys : keys = c.messageKeys \cup (c.counter + 1)..n
  OBVIOUS
<1>8. d.messageKeys = {}
  <2>1. keys = {n}
    BY <1>1, <1>7 DEF Chain
  <2>2. PruneMessageKeys(keys) \subseteq {n}
    BY <2>1, PruneOne
  <2>3. QED
    BY <1>5, <1>6, <1>7, <2>2
<1>9. QED
  BY <1>1, <1>3, <1>5, <1>6, <1>8 DEF Moved

LEMMA SealResult ==
  ASSUME NEW s \in Session, NEW c
  PROVE  LET u == SessionAfterSealing(s, c)
         IN  /\ u.root = s.root /\ u.ephemeral = s.ephemeral /\ u.lastRemote = s.lastRemote
             /\ u.previousCounter = s.previousCounter /\ u.pendingPreKey = s.pendingPreKey
             /\ u.chains = (s.chains \ {c}) \cup {Moved(c)}
<1>1. PICK chains : chains = (s.chains \ {c}) \cup {Moved(c)}
  OBVIOUS
<1>2. SessionAfterSealing(s, c) = [s EXCEPT !.chains = chains]
  BY <1>1 DEF SessionAfterSealing, Moved
<1>3. QED
  BY <1>1, <1>2 DEF Session

LEMMA SealKeepsPlace ==
  ASSUME NEW p \in Parties, NEW s \in Session, PlaceInv(p, s),
         NEW c \in s.chains, c.type = "SENDING"
  PROVE  PlaceInv(p, SessionAfterSealing(s, c))
<1>1. PICK u : u = SessionAfterSealing(s, c)
  OBVIOUS
<1>2. PICK d : d = Moved(c)
  OBVIOUS
<1>3. /\ u.root = s.root /\ u.ephemeral = s.ephemeral /\ u.lastRemote = s.lastRemote
      /\ u.chains = (s.chains \ {c}) \cup {d}
  BY <1>1, <1>2, SealResult
<1>4. ChainInv(p, s, c) /\ IsSending(s, c) /\ c \in Chain
  BY DEF PlaceInv, ChainInv, IsReceiving, Session
<1>5. /\ d.key = c.key /\ d.type = c.type /\ d.seed = c.seed /\ d.open = c.open
      /\ d.messageKeys = {}
  BY <1>2, <1>4, MovedFields DEF IsSending
<1>6. \A e \in u.chains : ChainInv(p, u, e)
  <2>1. ASSUME NEW e \in s.chains
        PROVE  ChainInv(p, u, e)
    BY <1>3 DEF PlaceInv, ChainInv, IsSending, IsReceiving
  <2>2. ChainInv(p, u, d)
    BY <1>3, <1>4, <1>5 DEF ChainInv, IsSending
  <2>3. QED
    BY <1>3, <2>1, <2>2
<1>7. HasChain(u, u.ephemeral)
  BY <1>3, <1>4, <1>5 DEF HasChain, ChainsFor, IsSending
<1>8. QED
  BY <1>1, <1>3, <1>6, <1>7 DEF PlaceInv

(* There is one sending chain.                                             *)
LEMMA OneSender ==
  ASSUME NEW p, NEW s, NEW used, SessionInv(s, used), PlaceInv(p, s),
         NEW c \in s.chains, NEW d \in s.chains, c.key = d.key
  PROVE  c = d
<1>1. c.seed = d.seed
  BY DEF PlaceInv, ChainInv
<1>2. QED
  BY <1>1 DEF SessionInv

LEMMA SealKeepsNoneAhead ==
  ASSUME NEW p \in Parties, NEW s, NEW used \in SUBSET Message, SessionInv(s, used),
         PlaceInv(p, s), NEW c \in s.chains, c.type = "SENDING",
         NEW net \in SUBSET Message, NoneAhead(p, s, net),
         NEW m \in Message, m.from = p, m.ephemeral = s.ephemeral, m.counter = c.counter + 1
  PROVE  NoneAhead(p, SessionAfterSealing(s, c), net \cup {m})
<1>1. PICK u : u = SessionAfterSealing(s, c)
  OBVIOUS
<1>2. PICK d : d = Moved(c)
  OBVIOUS
<1>3. s \in Session /\ c \in Chain
  BY DEF SessionInv, Session
<1>4. u.ephemeral = s.ephemeral /\ u.chains = (s.chains \ {c}) \cup {d}
  BY <1>1, <1>2, <1>3, SealResult
<1>5. IsSending(s, c)
  BY DEF PlaceInv, ChainInv, IsReceiving
<1>6. d.key = c.key /\ d.counter = c.counter + 1
  BY <1>2, <1>3, <1>5, MovedFields DEF IsSending
<1>7. ASSUME NEW n \in net \cup {m}, n.from = p
      PROVE  n.ephemeral[2] <= u.ephemeral[2]
  <2>1. s.ephemeral[2] \in Nat
    BY <1>3, PlaceFacts
  <2>2. QED
    BY <1>4, <1>7, <2>1 DEF NoneAhead
<1>8. ASSUME NEW e \in u.chains, e.type = "SENDING"
      PROVE  AllTo(net \cup {m}, e.key, e.counter)
  <2>1. e = d
    <3>1. CASE e \in s.chains /\ e # c
      <4>1. IsSending(s, e)
        BY <1>8, <3>1 DEF PlaceInv, ChainInv, IsReceiving
      <4>2. QED
        BY <1>5, <3>1, <4>1, OneSender DEF IsSending
    <3>2. QED
      BY <1>4, <3>1
  <2>2. \A n \in net : n.ephemeral = c.key => n.counter <= c.counter
    BY DEF NoneAhead, AllTo
  <2>3. ASSUME NEW n \in net \cup {m}, n.ephemeral = e.key
        PROVE  n.counter <= e.counter
    <3>1. c.counter \in Counters /\ n.counter \in Nat
      BY <1>3 DEF Chain, Message, Counters
    <3>2. CASE n \in net
      BY <1>6, <2>1, <2>2, <2>3, <3>1, <3>2 DEF Counters
    <3>3. CASE n = m
      BY <1>6, <2>1, <3>1, <3>3
    <3>4. QED
      BY <3>2, <3>3
  <2>4. QED
    BY <2>3 DEF AllTo
<1>9. QED
  BY <1>1, <1>7, <1>8 DEF NoneAhead

LEMMA OutgoingPlace == PlaceInv(Initiator, OutgoingSession) /\ OutgoingSession.ephemeral[2] >= 1
<1> DEFINE own  == <<Initiator, 1>>
           root == <<Agreement(SignedPreKey, own)>>
           c    == NewChain(own, "SENDING", root)
<1>1. NextKeyPair(BaseKey) = own
  BY DEF NextKeyPair, BaseKey
<1>2. /\ own = Place(Initiator, 0) /\ SeedLen(own) = 1
      /\ SignedPreKey = <<Peer(Initiator), 0>>
  BY DEF Place, SeedLen, SignedPreKey, Peer
<1>3. root = Root(1)
  <2>1. Agreement(SignedPreKey, own) = Turn(1)
    BY DEF Agreement, SignedPreKey, Turn
  <2>2. Root(0) = <<>>
    BY EmptySeq, RootType, SeqEqual DEF RootKey
  <2>3. Append(Root(0), Turn(0 + 1)) = Root(0 + 1)
    BY RootNext
  <2>4. QED
    BY <2>1, <2>2, <2>3
<1> HIDE DEF root
<1>4. c.key = own /\ c.type = "SENDING" /\ c.seed = root /\ c.open = TRUE /\ c.messageKeys = {}
  BY DEF NewChain
<1> HIDE DEF c
<1>5. PICK s : s = OutgoingSession
  OBVIOUS
<1>6. s = [root |-> root, ephemeral |-> own, lastRemote |-> SignedPreKey,
           previousCounter |-> 0, chains |-> {c}, pendingPreKey |-> TRUE]
  BY <1>1, <1>5 DEF OutgoingSession, root, c
<1>7. IsSending(s, c) /\ ChainInv(Initiator, s, c)
  BY <1>2, <1>3, <1>4, <1>6 DEF IsSending, ChainInv
<1>8. HasChain(s, s.ephemeral)
  BY <1>4, <1>6 DEF HasChain, ChainsFor
<1>9. PlaceInv(Initiator, s)
  BY <1>2, <1>3, <1>6, <1>7, <1>8 DEF PlaceInv
<1>10. QED
  BY <1>5, <1>6, <1>9

LEMMA IncomingPlace == PlaceInv(Responder, IncomingSession)
<1>1. /\ SignedPreKey = Place(Responder, 0) /\ SeedLen(SignedPreKey) = 0
      /\ SignedPreKey[2] = 0 /\ BaseKey[1] = Peer(Responder) /\ BaseKey[2] = 0
  BY PartiesAssumption DEF Place, SeedLen, SignedPreKey, BaseKey, Peer
<1>2. Root(0) = <<>>
  BY EmptySeq, RootType, SeqEqual DEF RootKey
<1>3. PICK s : s = IncomingSession
  OBVIOUS
<1>4. /\ s.root = <<>> /\ s.ephemeral = SignedPreKey /\ s.lastRemote = BaseKey /\ s.chains = {}
  BY <1>3 DEF IncomingSession
<1>5. QED
  BY <1>1, <1>2, <1>3, <1>4 DEF PlaceInv

------------------------------------------------------------------------------
(* The invariant of the turns and its steps.                               *)

LEMMA LineInitOutgoing ==
  ASSUME LineInv, InitOutgoing
  PROVE  LineInv'
<1>1. Inv' /\ network' = network
  BY InvInitOutgoing DEF LineInv, InitOutgoing
<1>2. \A q \in Parties : session'[q] =
                           IF q = Initiator THEN {OutgoingSession} ELSE session[q]
  BY DEF LineInv, Inv, TypeOK, InitOutgoing, Parties
<1>3. ASSUME NEW m \in network
      PROVE  m.from # Initiator
  <2>1. Used(Initiator) = {}
    BY DEF LineInv, Inv, InitOutgoing, Parties
  <2>2. QED
    BY <2>1 DEF Used, Sent
<1>4. PICK s : s = OutgoingSession
  OBVIOUS
<1>5. PlaceInv(Initiator, s) /\ s.ephemeral[2] >= 1
  BY <1>4, OutgoingPlace
<1>6. NoneAhead(Initiator, s, network)
  <2>1. ASSUME NEW c \in s.chains, NEW m \in network, m.ephemeral = c.key, c.type = "SENDING"
        PROVE  FALSE
    <3>1. c.key[1] = Initiator
      BY <1>4, <2>1 DEF OutgoingSession, NewChain, NextKeyPair, BaseKey
    <3>2. QED
      BY <1>3, <2>1, <3>1 DEF LineInv, MessageInv
  <2>2. QED
    BY <1>3, <2>1 DEF NoneAhead, AllTo
<1>7. ASSUME NEW q \in Parties, NEW t \in session'[q]
      PROVE  PlaceInv(q, t) /\ t.ephemeral[2] >= 1 /\ NoneAhead(q, t, network)
  BY <1>2, <1>4, <1>5, <1>6 DEF LineInv
<1>8. \A q \in Parties : \A t, u \in session'[q] : t = u
  BY <1>2 DEF LineInv
<1>9. QED
  BY <1>1, <1>7, <1>8 DEF LineInv

(* The message an encrypt job of p sends, and what it makes of the session. *)
Sends(p, s, c, m) ==
  /\ s \in session[p] /\ c \in s.chains /\ c.key = s.ephemeral /\ c.type = "SENDING"
  /\ m = Sealed(p, s, c) /\ network' = network \cup {m}
  /\ session' = [session EXCEPT ![p] = {SessionAfterSealing(s, c)}]
  /\ UNCHANGED <<preKeys, delivered, plaintexts>>

LEMMA EncryptSends ==
  ASSUME NEW p \in Parties, Encrypt(p)
  PROVE  \E s, c, m : Sends(p, s, c, m)
<1>1. PICK s \in session[p] : \E c \in ChainsFor(s, s.ephemeral) :
        /\ c.type = "SENDING"
        /\ network' = network \cup {Sealed(p, s, c)}
        /\ session' = [session EXCEPT ![p] = {SessionAfterSealing(s, c)}]
  BY DEF Encrypt
<1>2. PICK c \in ChainsFor(s, s.ephemeral) :
        /\ c.type = "SENDING"
        /\ network' = network \cup {Sealed(p, s, c)}
        /\ session' = [session EXCEPT ![p] = {SessionAfterSealing(s, c)}]
  BY <1>1
<1>3. UNCHANGED <<preKeys, delivered, plaintexts>>
  BY DEF Encrypt
<1>4. PICK m : m = Sealed(p, s, c)
  OBVIOUS
<1>5. Sends(p, s, c, m)
  BY <1>2, <1>3, <1>4 DEF Sends, ChainsFor
<1>6. QED
  BY <1>5

LEMMA SealedFields ==
  ASSUME NEW p, NEW s, NEW c
  PROVE  LET m == Sealed(p, s, c)
         IN  /\ m.from = p /\ m.ephemeral = s.ephemeral /\ m.counter = c.counter + 1
             /\ m.previousCounter = s.previousCounter /\ m.seed = c.seed
             /\ m.preKey = s.pendingPreKey
BY DEF Sealed

LEMMA SendsFacts ==
  ASSUME Inv, NEW p \in Parties, NEW s, NEW c, NEW m, Sends(p, s, c, m)
  PROVE  /\ s \in Session /\ c \in Chain /\ m \in Message /\ SessionInv(s, Used(p))
         /\ Used(p) \in SUBSET Message
         /\ m.from = p /\ m.ephemeral = s.ephemeral /\ m.counter = c.counter + 1
         /\ m.previousCounter = s.previousCounter /\ m.seed = c.seed
         /\ m.preKey = s.pendingPreKey
<1>1. s \in session[p] /\ c \in s.chains /\ m = Sealed(p, s, c)
  BY DEF Sends
<1>2. SessionInv(s, Used(p)) /\ Used(p) \in SUBSET Message
  BY <1>1, UsedType DEF Inv
<1>3. s \in Session /\ c \in Chain
  BY <1>1, <1>2 DEF SessionInv, Session
<1>4. Cardinality(Sent(p)) \in Nat
  BY SentIsFinite DEF Inv
<1>5. m \in Message
  BY <1>1, <1>3, <1>4 DEF Session, Chain, Message, Sealed
<1>6. /\ m.from = p /\ m.ephemeral = s.ephemeral /\ m.counter = c.counter + 1
      /\ m.previousCounter = s.previousCounter /\ m.seed = c.seed
      /\ m.preKey = s.pendingPreKey
  BY <1>1, SealedFields
<1>7. QED
  BY <1>2, <1>3, <1>5, <1>6

LEMMA SendsSession ==
  ASSUME Inv, NEW p \in Parties, NEW s, NEW c, NEW m, Sends(p, s, c, m),
         NEW q \in Parties
  PROVE  session'[q] = IF q = p THEN {SessionAfterSealing(s, c)} ELSE session[q]
BY DEF Inv, TypeOK, Sends

LEMMA LineEncrypt ==
  ASSUME LineInv, NEW p \in Parties, Encrypt(p)
  PROVE  LineInv'
<1>1. PICK s, c, m : Sends(p, s, c, m)
  BY EncryptSends
<1>2. Inv /\ Inv'
  BY EncryptStep DEF LineInv
<1>3. /\ s \in Session /\ c \in Chain /\ m \in Message /\ SessionInv(s, Used(p))
      /\ Used(p) \in SUBSET Message
      /\ m.from = p /\ m.ephemeral = s.ephemeral /\ m.counter = c.counter + 1
      /\ m.seed = c.seed
  BY <1>1, <1>2, SendsFacts
<1>4. /\ s \in session[p] /\ c \in s.chains /\ c.key = s.ephemeral /\ c.type = "SENDING"
      /\ network' = network \cup {m}
  BY <1>1 DEF Sends
<1>5. PlaceInv(p, s) /\ s.ephemeral[2] >= 1 /\ NoneAhead(p, s, network)
  BY <1>4 DEF LineInv
<1>6. s.ephemeral[1] = p
  BY <1>3, <1>5, PlaceFacts
<1>7. MessageInv(m)
  BY <1>3, <1>4, <1>5, <1>6 DEF MessageInv, PlaceInv, ChainInv
<1>8. network \in SUBSET Message
  BY <1>2 DEF Inv, TypeOK
<1>9. ASSUME NEW n \in network, n.ephemeral = m.ephemeral
      PROVE  n.counter # m.counter
  <2>1. n.counter <= c.counter
    BY <1>3, <1>4, <1>5, <1>9 DEF NoneAhead, AllTo
  <2>2. n.counter \in Nat /\ c.counter \in Counters
    BY <1>3, <1>8 DEF Message, Chain, Counters
  <2>3. QED
    BY <1>3, <2>1, <2>2 DEF Counters
<1>10. ASSUME NEW q \in Parties, NEW t \in session'[q]
       PROVE  PlaceInv(q, t) /\ t.ephemeral[2] >= 1 /\ NoneAhead(q, t, network')
  <2>1. CASE q = p
    <3>1. PICK u : u = SessionAfterSealing(s, c)
      OBVIOUS
    <3>2. t = u
      <4>1. session'[q] = {SessionAfterSealing(s, c)}
        BY <1>1, <1>2, <2>1, SendsSession
      <4>2. QED
        BY <1>10, <3>1, <4>1
    <3>3. PlaceInv(p, u)
      BY <1>3, <1>4, <1>5, <3>1, SealKeepsPlace
    <3>4. NoneAhead(p, u, network \cup {m})
      BY <1>3, <1>4, <1>5, <1>8, <3>1, SealKeepsNoneAhead
    <3>5. u.ephemeral = s.ephemeral
      BY <1>3, <3>1, SealResult
    <3>6. QED
      BY <1>4, <1>5, <2>1, <3>2, <3>3, <3>4, <3>5
  <2>2. CASE q # p
    <3>1. t \in session[q]
      BY <1>1, <1>2, <1>10, <2>2, SendsSession
    <3>2. PlaceInv(q, t) /\ t.ephemeral[2] >= 1 /\ NoneAhead(q, t, network)
      BY <3>1 DEF LineInv
    <3>3. t \in Session
      BY <1>2, <3>1 DEF Inv, TypeOK
    <3>4. ASSUME NEW d \in t.chains, d.type = "SENDING"
          PROVE  d.key # m.ephemeral
      <4>1. t.ephemeral[1] = q /\ d.key = t.ephemeral
        BY <3>2, <3>3, <3>4, PlaceFacts DEF PlaceInv, ChainInv, IsSending, IsReceiving
      <4>2. QED
        BY <1>3, <1>6, <2>2, <4>1
    <3>5. NoneAhead(q, t, network \cup {m})
      BY <1>3, <2>2, <3>2, <3>4 DEF NoneAhead, AllTo
    <3>6. QED
      BY <1>4, <3>2, <3>5
  <2>3. QED
    BY <2>1, <2>2
<1>11. \A q \in Parties : \A t, u \in session'[q] : t = u
  <2>1. ASSUME NEW q \in Parties
        PROVE  \A t, u \in session'[q] : t = u
    <3>1. session'[q] = {SessionAfterSealing(s, c)} \/ session'[q] = session[q]
      BY <1>1, <1>2, SendsSession
    <3>2. QED
      BY <3>1 DEF LineInv
  <2>2. QED
    BY <2>1
<1>12. QED
  BY <1>2, <1>4, <1>7, <1>9, <1>10, <1>11 DEF LineInv

(* What a decrypt job does that returns a plaintext.                       *)
Opens(p, s, m) ==
  /\ s \in Candidates(p, m) /\ m \in network
  /\ DoDecryptSucceeds(s, m)
  /\ session' = [session EXCEPT ![p] = {DoDecrypt(s, m)}]
  /\ delivered' = [delivered EXCEPT ![p] = @ \cup {m}]
  /\ network' = network

LEMMA DecryptOpens ==
  ASSUME NEW p \in Parties, NEW m \in network,
         DecryptWhisperMessage(p, m) \/ DecryptPreKeyWhisperMessage(p, m)
  PROVE  \E s : Opens(p, s, m)
<1>1. CASE DecryptWhisperMessage(p, m)
  <2>1. PICK s \in session[p] : /\ DoDecryptSucceeds(s, m)
                                /\ session' = [session EXCEPT ![p] = {DoDecrypt(s, m)}]
    BY <1>1 DEF DecryptWhisperMessage
  <2>2. Opens(p, s, m)
    BY <1>1, <2>1 DEF DecryptWhisperMessage, Opens, Candidates
  <2>3. QED
    BY <2>2
<1>2. CASE DecryptPreKeyWhisperMessage(p, m)
  <2>1. PICK s \in SessionsForPreKeyMessage(p) :
                /\ DoDecryptSucceeds(s, m)
                /\ session' = [session EXCEPT ![p] = {DoDecrypt(s, m)}]
    BY <1>2 DEF DecryptPreKeyWhisperMessage
  <2>2. Opens(p, s, m)
    BY <1>2, <2>1 DEF DecryptPreKeyWhisperMessage, Opens, Candidates
  <2>3. QED
    BY <2>2
<1>3. QED
  BY <1>1, <1>2

(* A session that a message is tried on: the stored one, or the one made of *)
(* the message, by a responder that has sent and received nothing.         *)
LEMMA CandidateKinds ==
  ASSUME NEW p \in Parties, NEW m, NEW s \in Candidates(p, m)
  PROVE  \/ s \in session[p]
         \/ s = IncomingSession /\ session[p] = {} /\ p = Responder /\ preKeys # {} /\ m.preKey
BY PartiesAssumption DEF Candidates, SessionsForPreKeyMessage, Parties

LEMMA CandidateLine ==
  ASSUME LineInv, NEW p \in Parties, NEW m, NEW s \in Candidates(p, m)
  PROVE  SessionInv(s, Used(p)) /\ PlaceInv(p, s) /\ NoneAhead(p, s, network)
<1>1. CASE s \in session[p]
  BY <1>1 DEF LineInv, Inv
<1>2. CASE s = IncomingSession /\ session[p] = {} /\ p = Responder
  <2>1. Used(p) = {}
    BY <1>2 DEF LineInv, Inv
  <2>2. s.chains = {}
    BY <1>2 DEF IncomingSession
  <2>3. NoneAhead(p, s, network)
    BY <2>1, <2>2 DEF NoneAhead, Used, Sent
  <2>4. QED
    BY <1>2, <2>1, <2>3, IncomingSessionInv, IncomingPlace
<1>3. QED
  BY <1>1, <1>2, CandidateKinds

LEMMA LineDecrypt ==
  ASSUME LineInv, Inv', NEW p \in Parties, NEW s, NEW m, Opens(p, s, m)
  PROVE  LineInv'
<1>1. /\ s \in Candidates(p, m) /\ m \in network /\ DoDecryptSucceeds(s, m)
      /\ session' = [session EXCEPT ![p] = {DoDecrypt(s, m)}] /\ network' = network
  BY DEF Opens
<1>2. SessionInv(s, Used(p)) /\ PlaceInv(p, s) /\ NoneAhead(p, s, network)
  BY <1>1, CandidateLine
<1>3. Used(p) \in SUBSET Message /\ network \in SUBSET Message
  BY UsedType DEF LineInv, Inv, TypeOK
<1>4. MessageInv(m) /\ \A n \in network : MessageInv(n)
  BY <1>1 DEF LineInv
<1>5. PICK u : u = DoDecrypt(s, m)
  OBVIOUS
<1>6. PlaceInv(p, u) /\ u.ephemeral[2] >= 1
  BY <1>1, <1>2, <1>3, <1>4, <1>5, DecryptKeepsPlace
<1>7. NoneAhead(p, u, network)
  BY <1>1, <1>2, <1>3, <1>4, <1>5, DecryptKeepsNoneAhead
<1>8. \A q \in Parties : session'[q] = IF q = p THEN {u} ELSE session[q]
  BY <1>1, <1>5 DEF LineInv, Inv, TypeOK
<1>9. \A q \in Parties : \A t \in session'[q] :
        PlaceInv(q, t) /\ t.ephemeral[2] >= 1 /\ NoneAhead(q, t, network)
  BY <1>6, <1>7, <1>8 DEF LineInv
<1>10. \A q \in Parties : \A t, w \in session'[q] : t = w
  BY <1>8 DEF LineInv
<1>11. QED
  BY <1>1, <1>9, <1>10 DEF LineInv

LEMMA LineInit == Init => LineInv
BY InvInit DEF Init, LineInv

LEMMA LineStep == LineInv /\ [Next]_vars => LineInv'
<1> SUFFICES ASSUME LineInv, [Next]_vars
             PROVE  LineInv'
  OBVIOUS
<1>1. Inv /\ Inv'
  BY InvStep DEF LineInv
<1>2. CASE InitOutgoing
  BY <1>2, LineInitOutgoing
<1>3. CASE \E p \in Parties : Encrypt(p)
  BY <1>3, LineEncrypt
<1>4. CASE UNCHANGED vars
  BY <1>1, <1>4 DEF vars, LineInv
<1>5. CASE \E p \in Parties : \E m \in network : Receive(p, m)
  <2>1. PICK p \in Parties, m \in network : Receive(p, m)
    BY <1>5
  <2>2. CASE DecryptWhisperMessage(p, m) \/ DecryptPreKeyWhisperMessage(p, m)
    <3>1. PICK s : Opens(p, s, m)
      BY <2>2, DecryptOpens
    <3>2. QED
      BY <1>1, <3>1, LineDecrypt
  <2>3. CASE RejectMessage(p, m)
    BY <1>4, <2>3 DEF RejectMessage
  <2>4. QED
    BY <2>1, <2>2, <2>3 DEF Receive
<1>6. QED
  BY <1>2, <1>3, <1>4, <1>5 DEF Next

(* Both ends' root keys, and the seed of every chain and every message, are *)
(* prefixes of one line of agreements that the two mix in by turns, and no  *)
(* end has sent on a key pair beyond its own or beyond its chain's counter. *)
THEOREM LineInvHolds == Spec => []LineInv
BY LineInit, LineStep, PTL DEF Spec

(* No message key ever seals two messages of the session, whichever end and *)
(* whichever chain they are sealed on (session-cipher.ts, encrypt).        *)
THEOREM MessageKeysSealOnceHolds == Spec => []MessageKeysSealOnce
<1>1. LineInv => MessageKeysSealOnce
  <2>1. ASSUME LineInv, NEW m \in network, NEW n \in network,
               m.seed = n.seed, m.counter = n.counter
        PROVE  m = n
    <3>1. m \in Message /\ n \in Message /\ MessageInv(m) /\ MessageInv(n)
      BY <2>1 DEF LineInv, Inv, TypeOK
    <3>2. m.ephemeral = n.ephemeral
      BY <2>1, <3>1, SeedOfOneKey DEF MessageInv, Message
    <3>3. QED
      BY <2>1, <3>2 DEF LineInv
  <2>2. QED
    BY <2>1 DEF MessageKeysSealOnce
<1>2. QED
  BY <1>1, LineInvHolds, PTL

------------------------------------------------------------------------------
(* No step rolls a ratchet back.                                           *)

(* t is the session s later, one job or none.                              *)
MovedOn(s, t) ==
  /\ Len(s.root) <= Len(t.root)
  /\ SubSeq(t.root, 1, Len(s.root)) = s.root
  /\ \A c \in s.chains : \A d \in t.chains :
       c.seed = d.seed => c.counter <= d.counter /\ (d.open => c.open)

LEMMA PrefixOfAppend ==
  ASSUME NEW r \in RootKey, NEW a \in SUBSET PublicKey, NEW b \in SUBSET PublicKey
  PROVE  /\ Len(r) <= Len(Append(Append(r, a), b))
         /\ SubSeq(Append(Append(r, a), b), 1, Len(r)) = r
<1>1. PICK v : v = Append(r, a)
  OBVIOUS
<1>2. PICK w : w = Append(v, b)
  OBVIOUS
<1>3. /\ v \in RootKey /\ Len(v) = Len(r) + 1 /\ Len(r) \in Nat
      /\ \A i \in 1..Len(r) : v[i] = r[i]
  BY <1>1, AppendProperties, LenProperties DEF RootKey
<1>4. /\ w \in RootKey /\ Len(w) = Len(v) + 1 /\ \A i \in 1..Len(v) : w[i] = v[i]
  BY <1>2, <1>3, AppendProperties DEF RootKey
<1>5. \A i \in 1..Len(r) : w[i] = r[i]
  BY <1>3, <1>4
<1>6. PICK x : x = SubSeq(w, 1, Len(r))
  OBVIOUS
<1>7. \A i \in 1..Len(r) : w[i] \in SUBSET PublicKey
  BY <1>3, <1>4, ElementOfSeq DEF RootKey
<1>8. /\ x \in Seq(SUBSET PublicKey)
      /\ Len(x) = Len(r) /\ \A i \in 1..Len(r) : x[i] = w[i]
  BY <1>3, <1>6, <1>7, SubSeqProperties
<1>9. x = r
  BY <1>5, <1>8, SeqEqual DEF RootKey
<1>10. QED
  BY <1>1, <1>2, <1>3, <1>4, <1>6, <1>9

LEMMA StaysOn ==
  ASSUME NEW s, NEW used, SessionInv(s, used)
  PROVE  MovedOn(s, s)
<1>1. s.root \in RootKey /\ s.chains \subseteq Chain
  BY DEF SessionInv, Session
<1>2. PICK r \in RootKey : r = s.root
  BY <1>1
<1>3. Len(r) \in Nat /\ \A i \in 1..Len(r) : r[i] \in SUBSET PublicKey
  BY <1>2, LenProperties, ElementOfSeq DEF RootKey
<1>4. PICK x : x = SubSeq(r, 1, Len(r))
  OBVIOUS
<1>5. /\ x \in Seq(SUBSET PublicKey)
      /\ Len(x) = Len(r) /\ \A i \in 1..Len(r) : x[i] = r[i]
  BY <1>3, <1>4, SubSeqProperties
<1>6. x = r
  BY <1>3, <1>5, SeqEqual DEF RootKey
<1>7. \A c, d \in s.chains : c.seed = d.seed => c.counter <= d.counter /\ (d.open => c.open)
  BY <1>1 DEF SessionInv, Chain
<1>8. QED
  BY <1>2, <1>3, <1>4, <1>6, <1>7 DEF MovedOn

LEMMA StepMovesOn ==
  ASSUME NEW s, NEW used, SessionInv(s, used), NEW remote \in PublicKey, NEW n \in Counters
  PROVE  MovedOn(s, StepRatchet(s, remote, n))
<1>1. PICK t : t = StepRatchet(s, remote, n)
  OBVIOUS
<1>2. s \in Session /\ s.root \in RootKey /\ s.ephemeral \in PublicKey
  BY DEF SessionInv, Session
<1>3. t.root = SendRoot(s, remote)
  BY <1>1, <1>2, StepResult
<1>4. PICK r \in RootKey, a \in SUBSET PublicKey, b \in SUBSET PublicKey :
        /\ r = s.root /\ a = Agreement(remote, s.ephemeral)
        /\ b = Agreement(remote, NextKeyPair(s.ephemeral))
  <2>1. NextKeyPair(s.ephemeral) \in PublicKey
    BY <1>2 DEF NextKeyPair, PublicKey
  <2>2. /\ Agreement(remote, s.ephemeral) \in SUBSET PublicKey
        /\ Agreement(remote, NextKeyPair(s.ephemeral)) \in SUBSET PublicKey
    BY <1>2, <2>1 DEF Agreement
  <2>3. QED
    BY <1>2, <2>2
<1>5. t.root = Append(Append(r, a), b) /\ RecvRoot(s, remote) = Append(r, a)
  BY <1>3, <1>4 DEF SendRoot, RecvRoot
<1>6. Len(Append(r, a)) = Len(r) + 1 /\ Len(Append(Append(r, a), b)) = Len(r) + 2 /\ Len(r) \in Nat
  <2>1. PICK v \in RootKey : v = Append(r, a) /\ Len(v) = Len(r) + 1 /\ Len(r) \in Nat
    BY RootGrows
  <2>2. Len(Append(v, b)) = Len(v) + 1
    BY RootGrows
  <2>3. QED
    BY <2>1, <2>2
<1>7. ASSUME NEW c \in s.chains, NEW d \in t.chains, c.seed = d.seed
      PROVE  c.counter <= d.counter /\ (d.open => c.open)
  <2>1. c \in Chain /\ Len(c.seed) \in Nat /\ Len(c.seed) <= Len(r)
    BY <1>2, <1>4, LenProperties DEF SessionInv, Session, Chain, RootKey
  <2>2. d # NewReceiver(s, remote)
    BY <1>5, <1>6, <1>7, <2>1 DEF NewReceiver, NewChain
  <2>3. d # NewSender(s, remote)
    BY <1>3, <1>5, <1>6, <1>7, <2>1 DEF NewSender, NewChain
  <2>4. PICK b2 \in s.chains : d = Closed(s, b2, n)
    BY <1>1, <1>2, <2>2, <2>3, StepChains
  <2>5. /\ d.seed = b2.seed /\ d.open = (b2.open /\ b2.key # s.lastRemote)
        /\ b2.key # s.lastRemote => d = b2
        /\ b2.key = s.lastRemote => d.counter = FillMessageKeys(b2, n).counter
    BY <1>2, <2>4, ClosedFields
  <2>6. b2 = c
    BY <1>7, <2>5 DEF SessionInv
  <2>7. FillMessageKeys(c, n).counter >= c.counter
    <3>1. PICK f : f = FillMessageKeys(c, n)
      OBVIOUS
    <3>2. f.counter = IF n > c.counter THEN n ELSE c.counter
      BY <2>1, <3>1, FillFields
    <3>3. QED
      BY <2>1, <3>1, <3>2 DEF Chain, Counters
  <2>8. c.counter <= d.counter
    <3>1. c.counter \in Int
      BY <2>1 DEF Chain
    <3>2. CASE c.key = s.lastRemote
      BY <2>5, <2>6, <2>7, <3>1, <3>2
    <3>3. CASE c.key # s.lastRemote
      BY <2>5, <2>6, <3>1, <3>3
    <3>4. QED
      BY <3>2, <3>3
  <2>9. d.open => c.open
    BY <2>5, <2>6, Zenon
  <2>10. QED
    BY <2>8, <2>9
<1>8. Len(s.root) <= Len(t.root) /\ SubSeq(t.root, 1, Len(s.root)) = s.root
  <2>1. /\ Len(r) <= Len(Append(Append(r, a), b))
        /\ SubSeq(Append(Append(r, a), b), 1, Len(r)) = r
    BY PrefixOfAppend
  <2>2. t.root = Append(Append(r, a), b) /\ s.root = r
    BY <1>4, <1>5
  <2>3. QED
    BY <2>1, <2>2, Zenon
<1>9. QED
  BY <1>1, <1>7, <1>8 DEF MovedOn

(* One chain of a session replaced by itself moved on.                     *)
LEMMA ReplaceMovesOn ==
  ASSUME NEW s, NEW t, MovedOn(s, t), NEW used, SessionInv(s, used), SessionInv(t, used),
         NEW c \in t.chains, NEW d, d.seed = c.seed, d.open = c.open, d.counter \in Int,
         c.counter <= d.counter, NEW u, u.root = t.root,
         u.chains = (t.chains \ {c}) \cup {d}
  PROVE  MovedOn(s, u)
<1>1. ASSUME NEW a \in s.chains, NEW e \in u.chains, a.seed = e.seed
      PROVE  a.counter <= e.counter /\ (e.open => a.open)
  <2>1. CASE e \in t.chains
    BY <1>1, <2>1 DEF MovedOn
  <2>2. CASE e = d
    <3>1. a.counter <= c.counter /\ (c.open => a.open)
      BY <1>1, <2>2 DEF MovedOn
    <3>2. a.counter \in Int /\ c.counter \in Int
      BY DEF SessionInv, Session, Chain
    <3>3. QED
      BY <2>2, <3>1, <3>2
  <2>3. QED
    BY <2>1, <2>2
<1>2. QED
  BY <1>1 DEF MovedOn

LEMMA DecryptMovesOn ==
  ASSUME NEW s, NEW used \in SUBSET Message, SessionInv(s, used), NEW m \in Message,
         DoDecryptSucceeds(s, m)
  PROVE  MovedOn(s, DoDecrypt(s, m))
<1>1. PICK t : t = MaybeStepRatchet(s, m)
  OBVIOUS
<1>2. PICK u : u = DoDecrypt(s, m)
  OBVIOUS
<1>3. PICK c : c = ReceivingChain(s, m)
  OBVIOUS
<1>4. PICK d : d = TakeMessageKey(FillMessageKeys(c, m.counter), m.counter)
  OBVIOUS
<1>5. u.root = t.root /\ u.chains = (t.chains \ {c}) \cup {d}
  BY <1>1, <1>2, <1>3, <1>4, DecryptResult
<1>6. /\ c \in t.chains /\ c \in Chain
  BY <1>1, <1>3, DecryptChain
<1>7. SessionInv(t, used)
  BY <1>1, MaybeStepRatchetKeeps
<1>8. m.counter \in Counters /\ m.ephemeral \in PublicKey /\ m.previousCounter \in Counters
  BY DEF Message, Counters
<1>9. d.seed = c.seed /\ d.open = c.open /\ d.counter \in Int /\ c.counter <= d.counter
  <2>1. PICK f : f = FillMessageKeys(c, m.counter)
    OBVIOUS
  <2>2. f.counter = IF m.counter > c.counter THEN m.counter ELSE c.counter
    BY <1>6, <1>8, <2>1, FillFields
  <2>3. d.seed = c.seed /\ d.open = c.open /\ d.counter = f.counter
    BY <1>4, <1>6, <1>8, <2>1, TakeFields
  <2>4. c.counter \in Int /\ m.counter \in Int
    BY <1>6 DEF Chain, Message
  <2>5. QED
    BY <2>2, <2>3, <2>4
<1>10. MovedOn(s, t)
  BY <1>1, <1>8, StaysOn, StepMovesOn DEF MaybeStepRatchet
<1>11. MovedOn(s, u)
  BY <1>5, <1>6, <1>7, <1>9, <1>10, ReplaceMovesOn
<1>12. QED
  BY <1>2, <1>11

LEMMA SealMovesOn ==
  ASSUME NEW p, NEW s, NEW used, SessionInv(s, used), PlaceInv(p, s),
         NEW c \in s.chains, c.type = "SENDING"
  PROVE  MovedOn(s, SessionAfterSealing(s, c))
<1>1. PICK u : u = SessionAfterSealing(s, c)
  OBVIOUS
<1>2. PICK d : d = Moved(c)
  OBVIOUS
<1>3. s \in Session /\ c \in Chain
  BY DEF SessionInv, Session
<1>4. u.root = s.root /\ u.chains = (s.chains \ {c}) \cup {d}
  BY <1>1, <1>2, <1>3, SealResult
<1>5. IsSending(s, c)
  BY DEF PlaceInv, ChainInv, IsReceiving
<1>6. d.seed = c.seed /\ d.open = c.open /\ d.counter = c.counter + 1
  BY <1>2, <1>3, <1>5, MovedFields DEF IsSending
<1>7. c.counter \in Int
  BY <1>3 DEF Chain
<1>8. MovedOn(s, s)
  BY StaysOn
<1>9. MovedOn(s, u)
  BY <1>4, <1>6, <1>7, <1>8, ReplaceMovesOn
<1>10. QED
  BY <1>1, <1>9

(* A job of session-cipher.ts only moves a stored ratchet forward: its root *)
(* key takes in more agreements, and no chain of it goes back or reopens.  *)
THEOREM RatchetOnlyAdvancesHolds == Spec => RatchetOnlyAdvances
<1> DEFINE Forward == \A p \in Parties : \A s \in session[p] : \E t \in session'[p] :
                        /\ Len(s.root) <= Len(t.root)
                        /\ SubSeq(t.root, 1, Len(s.root)) = s.root
                        /\ \A c \in s.chains : \A d \in t.chains :
                             c.seed = d.seed => c.counter <= d.counter /\ (d.open => c.open)
<1>1. LineInv /\ [Next]_vars => [Forward]_vars
  <2> SUFFICES ASSUME LineInv, Next, NEW q \in Parties, NEW a \in session[q]
               PROVE  \E t \in session'[q] : MovedOn(a, t)
    BY DEF MovedOn
  <2>1. /\ Inv /\ SessionInv(a, Used(q)) /\ PlaceInv(q, a) /\ MovedOn(a, a)
        /\ Used(q) \in SUBSET Message
    BY StaysOn, UsedType DEF LineInv, Inv
  <2>2. CASE InitOutgoing
    <3>1. session'[q] = session[q]
      BY <2>1, <2>2 DEF InitOutgoing, Inv, TypeOK
    <3>2. QED
      BY <2>1, <3>1
  <2>3. CASE \E p \in Parties : Encrypt(p)
    <3>1. PICK p \in Parties : Encrypt(p)
      BY <2>3
    <3>2. PICK s, c, m : Sends(p, s, c, m)
      BY <3>1, EncryptSends
    <3>3. CASE p = q
      <4>1. session'[q] = {SessionAfterSealing(s, c)} /\ session[q] = {s}
        <5>1. session'[q] = {SessionAfterSealing(s, c)}
          BY <2>1, <3>2, <3>3, SendsSession
        <5>2. s \in session[q]
          BY <3>2, <3>3 DEF Sends
        <5>3. QED
          BY <5>1, <5>2 DEF LineInv
      <4>2. s = a /\ c \in s.chains /\ c.type = "SENDING"
        BY <3>2, <4>1 DEF Sends
      <4>3. MovedOn(s, SessionAfterSealing(s, c))
        BY <2>1, <4>2, SealMovesOn
      <4>4. QED
        BY <4>1, <4>2, <4>3
    <3>4. CASE p # q
      BY <2>1, <3>2, <3>4, SendsSession
    <3>5. QED
      BY <3>3, <3>4
  <2>4. CASE \E p \in Parties : \E m \in network : Receive(p, m)
    <3>1. PICK p \in Parties, m \in network : Receive(p, m)
      BY <2>4
    <3>2. CASE DecryptWhisperMessage(p, m) \/ DecryptPreKeyWhisperMessage(p, m)
      <4>1. PICK s : Opens(p, s, m)
        BY <3>2, DecryptOpens
      <4>2. session' = [session EXCEPT ![p] = {DoDecrypt(s, m)}]
        BY <4>1 DEF Opens
      <4>3. CASE p = q
        <5>1. session'[q] = {DoDecrypt(s, m)}
          BY <2>1, <4>2, <4>3 DEF Inv, TypeOK
        <5>2. s = a /\ m \in Message /\ DoDecryptSucceeds(s, m)
          <6>1. s \in session[q]
            BY <4>1, <4>3, CandidateKinds DEF Opens
          <6>2. QED
            BY <2>1, <4>1, <6>1 DEF Opens, LineInv, Inv, TypeOK
        <5>3. MovedOn(s, DoDecrypt(s, m))
          BY <2>1, <5>2, DecryptMovesOn
        <5>4. QED
          BY <5>1, <5>2, <5>3
      <4>4. CASE p # q
        <5>1. session'[q] = session[q]
          BY <2>1, <4>2, <4>4 DEF Inv, TypeOK
        <5>2. QED
          BY <2>1, <5>1
      <4>5. QED
        BY <4>3, <4>4
    <3>3. CASE RejectMessage(p, m)
      BY <2>1, <3>3 DEF RejectMessage, vars
    <3>4. QED
      BY <3>1, <3>2, <3>3 DEF Receive
  <2>5. QED
    BY <2>2, <2>3, <2>4 DEF Next
<1>2. QED
  BY <1>1, LineInvHolds, PTL DEF Spec, RatchetOnlyAdvances

------------------------------------------------------------------------------
(* The limits.  Chains and keys are evicted oldest first, so the oldest one *)
(* that is kept has fewer than the limit above it.                         *)

LEMMA LeastNat ==
  ASSUME NEW S \in SUBSET Nat, S # {}
  PROVE  \E n \in S : \A m \in S : n <= m
<1> DEFINE R == {ss \in Nat \X Nat : ss[1] < ss[2]}
<1>1. IsWellFoundedOn(R, Nat)
  BY NatLessThanWellFounded DEF OpToRel
<1>2. PICK n \in S : \A m \in S : <<m, n>> \notin R
  <2> HIDE DEF R
  <2>1. QED
    BY <1>1, WFMin
<1>3. ASSUME NEW m \in S PROVE n <= m
  <2>1. m \in Nat /\ n \in Nat
    OBVIOUS
  <2>2. CASE m < n
    <3>1. <<m, n>> \in R
      BY <2>1, <2>2
    <3>2. QED
      BY <1>2, <3>1
  <2>3. CASE ~(m < n)
    BY <2>1, <2>3
  <2>4. QED
    BY <2>2, <2>3
<1>4. QED
  BY <1>3

(* pruneMessageKeys leaves at most MaxMessageKeys keys, and what it drops   *)
(* is that many below the greatest.                                        *)
LEMMA PruneLimits ==
  ASSUME NEW keys \in SUBSET Nat, NEW n \in Counters, \A k \in keys : k <= n
  PROVE  /\ Cardinality(PruneMessageKeys(keys)) <= MaxMessageKeys
         /\ \A k \in keys : k \in PruneMessageKeys(keys) \/ k + MaxMessageKeys <= n
<1> DEFINE above(k) == {j \in keys : j > k}
           kept == PruneMessageKeys(keys)
<1>1. MaxMessageKeys \in Nat /\ MaxMessageKeys >= 1
  BY LimitsAssumption
<1>2. IsFiniteSet(keys)
  <2>1. CASE n = -1
    <3>1. keys = {}
      BY <2>1
    <3>2. QED
      BY <3>1, FS_EmptySet
  <2>2. CASE n \in Nat
    BY <2>2, FS_BoundedSetOfNaturals
  <2>3. QED
    BY <2>1, <2>2 DEF Counters
<1>3. ASSUME NEW k \in keys
      PROVE  IsFiniteSet(above(k)) /\ Cardinality(above(k)) \in Nat
  BY <1>2, FS_Subset, FS_CardinalityType
<1>4. kept = {k \in keys : Cardinality(above(k)) < MaxMessageKeys}
  BY DEF PruneMessageKeys
<1> HIDE DEF kept
<1>5. Cardinality(kept) <= MaxMessageKeys
  <2>1. CASE kept = {}
    BY <1>1, <2>1, FS_EmptySet
  <2>2. CASE kept # {}
    <3>1. PICK k \in kept : \A j \in kept : k <= j
      BY <1>4, <2>2, LeastNat
    <3>2. kept \ {k} \subseteq above(k) /\ k \in keys
      <4>1. kept \subseteq keys
        BY <1>4
      <4>2. ASSUME NEW j \in kept, j # k
            PROVE  j \in keys /\ j > k
        <5>1. j \in Nat /\ k \in Nat /\ k <= j
          BY <3>1, <4>1
        <5>2. QED
          BY <4>1, <4>2, <5>1
      <4>3. QED
        BY <3>1, <4>1, <4>2
    <3>3. Cardinality(above(k)) < MaxMessageKeys
      BY <1>4, <3>1
    <3> HIDE DEF above
    <3>4. Cardinality(kept \ {k}) <= Cardinality(above(k))
      BY <1>3, <3>2, FS_Subset
    <3>5. /\ IsFiniteSet(kept) /\ Cardinality(kept) \in Nat
          /\ Cardinality(kept \ {k}) = Cardinality(kept) - 1
      BY <1>2, <1>4, <3>1, FS_Subset, FS_CardinalityType, FS_RemoveElement
    <3>6. Cardinality(above(k)) \in Nat
      BY <1>3, <3>2
    <3>7. QED
      BY <1>1, <3>3, <3>4, <3>5, <3>6
  <2>3. QED
    BY <2>1, <2>2
<1>6. ASSUME NEW k \in keys, k \notin kept
      PROVE  k + MaxMessageKeys <= n
  <2>1. n \in Nat /\ k \in Nat /\ k <= n
    BY DEF Counters
  <2>2. above(k) \subseteq (k + 1)..n
    <3>1. ASSUME NEW j \in keys, j > k
          PROVE  j \in (k + 1)..n
      <4>1. j \in Nat /\ j <= n
        OBVIOUS
      <4>2. QED
        BY <2>1, <3>1, <4>1
    <3>2. QED
      BY <3>1
  <2>3. IsFiniteSet((k + 1)..n) /\ Cardinality((k + 1)..n) = n - k
    <3>1. /\ IsFiniteSet((k + 1)..n)
          /\ Cardinality((k + 1)..n) = IF k + 1 > n THEN 0 ELSE n - (k + 1) + 1
      BY <2>1, FS_Interval
    <3>2. QED
      BY <2>1, <3>1
  <2>4. ~(Cardinality(above(k)) < MaxMessageKeys)
    BY <1>4, <1>6
  <2>5. Cardinality(above(k)) \in Nat
    BY <1>3
  <2> HIDE DEF above
  <2>6. Cardinality(above(k)) <= n - k
    BY <2>2, <2>3, FS_Subset
  <2>7. QED
    BY <1>1, <2>1, <2>4, <2>5, <2>6
<1>7. QED
  BY <1>5, <1>6 DEF kept

LEMMA FillLimits ==
  ASSUME NEW c \in Chain, NEW n \in Counters, \A k \in c.messageKeys : k <= c.counter,
         Cardinality(c.messageKeys) <= MaxMessageKeys
  PROVE  LET d == FillMessageKeys(c, n)
         IN  /\ Cardinality(d.messageKeys) <= MaxMessageKeys
             /\ d.messageKeys \subseteq c.messageKeys \cup (c.counter + 1)..n
             /\ \A k \in c.messageKeys \cup (c.counter + 1)..n :
                  k \in d.messageKeys \/ k + MaxMessageKeys <= d.counter
<1>1. PICK d : d = FillMessageKeys(c, n)
  OBVIOUS
<1>2. PICK keys : keys = c.messageKeys \cup (c.counter + 1)..n
  OBVIOUS
<1>3. c.counter \in Counters /\ c.messageKeys \subseteq Nat
  BY DEF Chain, Counters
<1>4. CASE n > c.counter
  <2>1. d.counter = n /\ d.messageKeys = PruneMessageKeys(keys)
    BY <1>1, <1>2, <1>4, FillFields
  <2>2. keys \in SUBSET Nat /\ \A k \in keys : k <= n
    BY <1>2, <1>3, <1>4 DEF Counters
  <2>3. PruneMessageKeys(keys) \subseteq keys
    BY DEF PruneMessageKeys
  <2>4. QED
    BY <1>1, <1>2, <2>1, <2>2, <2>3, PruneLimits
<1>5. CASE ~(n > c.counter)
  <2>1. d = c
    BY <1>1, <1>5 DEF FillMessageKeys
  <2>2. (c.counter + 1)..n = {}
    BY <1>3, <1>5 DEF Counters
  <2>3. QED
    BY <1>1, <2>1, <2>2
<1>6. QED
  BY <1>4, <1>5

Receiving(chains) == {c \in chains : c.type = "RECEIVING"}

(* Chains of the keys a+1..b of one party, one chain to a key.             *)
OfKeys(q, chains, a, b) ==
  /\ \A c \in chains : c.key \in PublicKey /\ c.key[1] = q /\ c.key[2] > a /\ c.key[2] <= b
  /\ \A c, d \in chains : c.key = d.key => c = d

LEMMA ChainCount ==
  ASSUME NEW q, NEW chains, NEW a \in Nat, NEW b \in Nat, a <= b, OfKeys(q, chains, a, b)
  PROVE  IsFiniteSet(chains) /\ Cardinality(chains) \in Nat /\ Cardinality(chains) <= b - a
<1> DEFINE f == [c \in chains |-> c.key[2]]
           T == (a + 1)..b
<1>1. \A c \in chains : c.key = <<q, c.key[2]>> /\ c.key[2] \in T
  BY DEF OfKeys, PublicKey
<1>2. ASSUME NEW c \in chains, NEW d \in chains, c.key[2] = d.key[2]
      PROVE  c = d
  <2>1. c.key = d.key
    BY <1>1, <1>2
  <2>2. QED
    BY <2>1 DEF OfKeys
<1>3. f \in Injection(chains, T)
  <2>1. f \in [chains -> T]
    BY <1>1
  <2>2. \A c, d \in chains : f[c] = f[d] => c = d
    BY <1>2
  <2> HIDE DEF f
  <2>3. QED
    BY <2>1, <2>2 DEF Injection, IsInjective
<1>4. IsFiniteSet(T) /\ Cardinality(T) = b - a
  <2>1. /\ IsFiniteSet((a + 1)..b)
        /\ Cardinality((a + 1)..b) = IF a + 1 > b THEN 0 ELSE b - (a + 1) + 1
    BY FS_Interval
  <2>2. QED
    BY <2>1
<1> HIDE DEF f, T
<1>5. QED
  BY <1>3, <1>4, FS_Injection, FS_CardinalityType

LimitInv(p, s) ==
  /\ Cardinality(Receiving(s.chains)) <= MaxReceiverChains
  /\ \A j \in 1..s.lastRemote[2] :
       j + MaxReceiverChains > s.lastRemote[2] => HasChain(s, <<Peer(p), j>>)
  /\ \A c \in s.chains : Cardinality(c.messageKeys) <= MaxMessageKeys

LEMMA SeedLenGrows ==
  ASSUME NEW a \in PublicKey, NEW b \in PublicKey, a[1] = b[1], a[2] >= 1, b[2] >= 1
  PROVE  /\ SeedLen(a) \in Nat /\ SeedLen(b) \in Nat
         /\ a[2] < b[2] <=> SeedLen(a) < SeedLen(b)
<1>1. a[2] \in Nat /\ b[2] \in Nat
  BY DEF PublicKey
<1>2. QED
  BY <1>1 DEF SeedLen

(* The receiving chains before the oldest are dropped.                     *)
LEMMA AllReceivers ==
  ASSUME NEW p \in Parties, NEW s, NEW used, SessionInv(s, used), PlaceInv(p, s),
         NEW remote \in PublicKey, IsNextKey(p, s, remote), NEW n \in Counters
  PROVE  LET all == Receiving(AllChains(s, remote, n))
             h   == s.lastRemote[2]
         IN  /\ OfKeys(Peer(p), all, 0, h + 1)
             /\ \A c \in all : Len(c.seed) = SeedLen(c.key)
             /\ \A c \in Receiving(s.chains) : Closed(s, c, n) \in all /\ Closed(s, c, n).key = c.key
<1> DEFINE all == Receiving(AllChains(s, remote, n))
           h   == s.lastRemote[2]
           rc  == NewReceiver(s, remote)
           closed(c) == Closed(s, c, n)
<1>1. s \in Session /\ h \in Nat
  BY PlaceFacts DEF SessionInv
<1>2. remote[1] = Peer(p) /\ remote[2] = h + 1
  BY DEF IsNextKey
<1>3. RecvRoot(s, remote) = Root(SeedLen(remote))
  BY <1>1, StepRoots
<1>4. rc.key = remote /\ rc.seed = Root(SeedLen(remote)) /\ rc.type = "RECEIVING"
  BY <1>3 DEF NewReceiver, NewChain
<1>5. ASSUME NEW c \in s.chains
      PROVE  closed(c).key = c.key /\ closed(c).type = c.type /\ closed(c).seed = c.seed
  BY <1>1, ClosedFields
<1>6. NewSender(s, remote).type = "SENDING"
  BY DEF NewSender, NewChain
<1> HIDE DEF h, rc, closed
<1>7. ASSUME NEW d \in all
      PROVE  d = rc \/ \E c \in Receiving(s.chains) : d = closed(c)
  <2>1. d.type = "RECEIVING" /\ (d = rc \/ d \in KeptChains(s, n))
    BY <1>6, <1>7 DEF Receiving, AllChains, rc
  <2>2. CASE d \in KeptChains(s, n)
    <3>1. PICK c \in s.chains : d = closed(c)
      BY <2>2 DEF KeptChains, closed
    <3>2. c.type = "RECEIVING"
      BY <1>5, <2>1, <3>1
    <3>3. QED
      BY <3>1, <3>2 DEF Receiving
  <2>3. QED
    BY <2>1, <2>2
<1>8. ASSUME NEW c \in Receiving(s.chains)
      PROVE  /\ closed(c).key = c.key /\ c \in s.chains
             /\ c.key \in PublicKey /\ c.key[1] = Peer(p) /\ c.key[2] >= 1 /\ c.key[2] <= h
             /\ closed(c).seed = Root(SeedLen(c.key))
             /\ closed(c) \in all
  <2>1. c \in s.chains /\ c.type = "RECEIVING" /\ c.key \in PublicKey
    BY <1>1 DEF Receiving, Session, Chain
  <2>2. ChainInv(p, s, c) /\ IsReceiving(p, s, c)
    BY <2>1 DEF PlaceInv, ChainInv, IsSending
  <2>3. c.key # s.ephemeral
    BY <1>1, <2>2, PlaceFacts DEF IsReceiving
  <2>4. closed(c) \in all
    BY <1>5, <2>1, <2>3 DEF Receiving, AllChains, KeptChains, closed
  <2>5. QED
    BY <1>5, <2>1, <2>2, <2>4 DEF ChainInv, IsReceiving, h
<1>9. ASSUME NEW d \in all
      PROVE  /\ d.key \in PublicKey /\ d.key[1] = Peer(p) /\ d.key[2] >= 1 /\ d.key[2] <= h + 1
             /\ d.seed = Root(SeedLen(d.key))
             /\ d # rc => d.key[2] <= h
  <2>1. CASE d = rc
    BY <1>1, <1>2, <1>4, <2>1 DEF h
  <2>2. CASE d # rc
    <3>1. PICK c \in Receiving(s.chains) : d = closed(c)
      BY <1>7, <2>2
    <3>2. /\ d.key = c.key /\ c.key \in PublicKey /\ c.key[1] = Peer(p) /\ c.key[2] >= 1
          /\ c.key[2] <= h /\ d.seed = Root(SeedLen(c.key))
      BY <1>8, <3>1
    <3>3. c.key[2] \in Nat
      BY <3>2 DEF PublicKey
    <3>4. QED
      BY <1>1, <3>2, <3>3 DEF h
  <2>3. QED
    BY <2>1, <2>2
<1>10. ASSUME NEW d \in all, NEW e \in all, d.key = e.key
       PROVE  d = e
  <2>1. CASE d = rc \/ e = rc
    BY <1>1, <1>2, <1>4, <1>9, <1>10, <2>1 DEF h
  <2>2. CASE d # rc /\ e # rc
    <3>1. PICK b \in Receiving(s.chains) : d = closed(b)
      BY <1>7, <2>2
    <3>2. PICK c \in Receiving(s.chains) : e = closed(c)
      BY <1>7, <2>2
    <3>3. b.key = c.key /\ b \in s.chains /\ c \in s.chains
      BY <1>8, <1>10, <3>1, <3>2
    <3>4. b = c
      BY <3>3, OneSender
    <3>5. QED
      BY <3>1, <3>2, <3>4
  <2>3. QED
    BY <2>1, <2>2
<1>11. OfKeys(Peer(p), all, 0, h + 1)
  <2>1. \A d \in all : d.key[2] > 0
    BY <1>9 DEF PublicKey
  <2>2. QED
    BY <1>9, <1>10, <2>1 DEF OfKeys
<1>12. \A d \in all : Len(d.seed) = SeedLen(d.key)
  <2>1. ASSUME NEW d \in all
        PROVE  Len(d.seed) = SeedLen(d.key)
    <3>1. d.key \in PublicKey /\ d.key[2] >= 1 /\ d.seed = Root(SeedLen(d.key))
      BY <1>9
    <3>2. SeedLen(d.key) \in Nat
      BY <3>1 DEF SeedLen, PublicKey
    <3>3. QED
      BY <3>1, <3>2, RootType
  <2>2. QED
    BY <2>1
<1>13. \A c \in Receiving(s.chains) : closed(c) \in all /\ closed(c).key = c.key
  BY <1>8
<1>14. QED
  BY <1>11, <1>12, <1>13 DEF h, closed

(* Of chains of one party's keys, those newer than c are those of its later *)
(* keys.                                                                   *)
LEMMA NewerCount ==
  ASSUME NEW q, NEW chains, NEW h \in Nat, OfKeys(q, Receiving(chains), 0, h),
         \A d \in Receiving(chains) : Len(d.seed) = SeedLen(d.key),
         NEW c \in Receiving(chains)
  PROVE  /\ NewerReceivers(chains, c) = {d \in Receiving(chains) : d.key[2] > c.key[2]}
         /\ IsFiniteSet(NewerReceivers(chains, c))
         /\ Cardinality(NewerReceivers(chains, c)) \in Nat
         /\ Cardinality(NewerReceivers(chains, c)) <= h - c.key[2]
<1> DEFINE newer == {d \in Receiving(chains) : d.key[2] > c.key[2]}
<1>1. ASSUME NEW d \in Receiving(chains)
      PROVE  Len(d.seed) > Len(c.seed) <=> d.key[2] > c.key[2]
  <2>1. /\ d.key \in PublicKey /\ c.key \in PublicKey /\ d.key[1] = c.key[1]
        /\ d.key[2] > 0 /\ c.key[2] > 0 /\ d.key[2] \in Nat /\ c.key[2] \in Nat
    BY DEF OfKeys, PublicKey
  <2>2. d.key[2] >= 1 /\ c.key[2] >= 1
    BY <2>1
  <2>3. /\ c.key[2] < d.key[2] <=> SeedLen(c.key) < SeedLen(d.key)
        /\ SeedLen(c.key) \in Nat /\ SeedLen(d.key) \in Nat
    BY <2>1, <2>2, SeedLenGrows
  <2>4. QED
    BY <2>1, <2>3
<1>2. NewerReceivers(chains, c) = newer
  BY <1>1 DEF NewerReceivers, Receiving
<1>3. c.key[2] \in Nat /\ c.key[2] <= h
  BY DEF OfKeys, PublicKey
<1>4. OfKeys(q, newer, c.key[2], h)
  BY DEF OfKeys
<1> HIDE DEF newer
<1>5. IsFiniteSet(newer) /\ Cardinality(newer) \in Nat /\ Cardinality(newer) <= h - c.key[2]
  <2>1. PICK a \in Nat : a = c.key[2]
    BY <1>3
  <2>2. QED
    BY <1>3, <1>4, <2>1, ChainCount
<1>6. QED
  BY <1>2, <1>5 DEF newer

(* removeOldReceiverChains keeps the newest MaxReceiverChains.             *)
LEMMA RemoveOldLimits ==
  ASSUME NEW q, NEW chains, NEW h \in Nat, OfKeys(q, Receiving(chains), 0, h),
         \A d \in Receiving(chains) : Len(d.seed) = SeedLen(d.key)
  PROVE  /\ Cardinality(Receiving(RemoveOldReceiverChains(chains))) <= MaxReceiverChains
         /\ \A c \in Receiving(chains) :
              c.key[2] + MaxReceiverChains > h => c \in RemoveOldReceiverChains(chains)
<1> DEFINE kept == Receiving(RemoveOldReceiverChains(chains))
           newer(c) == NewerReceivers(chains, c)
<1>1. MaxReceiverChains \in Nat /\ MaxReceiverChains >= 1
  BY LimitsAssumption
<1>2. /\ \A c \in kept : Cardinality(newer(c)) < MaxReceiverChains
      /\ kept \subseteq Receiving(chains)
  BY DEF RemoveOldReceiverChains, Receiving
<1>3. ASSUME NEW c \in Receiving(chains)
      PROVE  /\ newer(c) = {d \in Receiving(chains) : d.key[2] > c.key[2]}
             /\ IsFiniteSet(newer(c)) /\ Cardinality(newer(c)) \in Nat
             /\ Cardinality(newer(c)) <= h - c.key[2]
  BY NewerCount
<1>4. ASSUME NEW c \in Receiving(chains), c.key[2] + MaxReceiverChains > h
      PROVE  c \in RemoveOldReceiverChains(chains)
  <2>1. c.key[2] \in Nat
    BY DEF OfKeys, PublicKey
  <2>2. Cardinality(newer(c)) < MaxReceiverChains
    <3>1. Cardinality(newer(c)) \in Nat /\ Cardinality(newer(c)) <= h - c.key[2]
      BY <1>3
    <3> HIDE DEF newer
    <3>2. QED
      BY <1>1, <1>4, <2>1, <3>1
  <2>3. QED
    BY <2>2 DEF RemoveOldReceiverChains, Receiving
<1> HIDE DEF kept, newer
<1>5. Cardinality(kept) <= MaxReceiverChains
  <2>1. CASE kept = {}
    BY <1>1, <2>1, FS_EmptySet
  <2>2. CASE kept # {}
    <3> DEFINE gens == {c.key[2] : c \in kept}
    <3>1. gens \in SUBSET Nat /\ gens # {}
      BY <1>2, <2>2 DEF OfKeys, PublicKey
    <3>2. PICK g \in gens : \A j \in gens : g <= j
      BY <3>1, LeastNat
    <3>3. PICK c \in kept : c.key[2] = g
      BY <3>2
    <3>4. kept \ {c} \subseteq newer(c)
      <4>1. ASSUME NEW d \in kept, d # c
            PROVE  d \in Receiving(chains) /\ d.key[2] > c.key[2]
        <5>1. c.key[2] <= d.key[2]
          BY <3>2, <3>3
        <5>2. c.key = <<q, c.key[2]>> /\ d.key = <<q, d.key[2]>> /\ c.key # d.key
          BY <1>2, <4>1 DEF OfKeys, PublicKey
        <5>3. c.key[2] \in Nat /\ d.key[2] \in Nat
          BY <3>1
        <5>4. c.key[2] # d.key[2]
          BY <5>2
        <5>5. QED
          BY <1>2, <5>1, <5>3, <5>4
      <4>2. QED
        BY <1>2, <1>3, <4>1
    <3>5. /\ IsFiniteSet(newer(c)) /\ Cardinality(newer(c)) \in Nat
          /\ Cardinality(newer(c)) < MaxReceiverChains
      BY <1>2, <1>3
    <3>6. IsFiniteSet(kept \ {c}) /\ Cardinality(kept \ {c}) <= Cardinality(newer(c))
      BY <3>4, <3>5, FS_Subset
    <3>7. IsFiniteSet(kept) /\ Cardinality(kept) \in Nat /\ Cardinality(kept \ {c}) \in Nat
      <4>1. OfKeys(q, kept, 0, h)
        BY <1>2 DEF OfKeys
      <4>2. QED
        BY <3>6, <4>1, ChainCount, FS_CardinalityType
    <3>8. Cardinality(kept \ {c}) = Cardinality(kept) - 1
      BY <3>7, FS_RemoveElement
    <3>9. QED
      BY <1>1, <3>5, <3>6, <3>7, <3>8
  <2>3. QED
    BY <2>1, <2>2
<1>6. QED
  BY <1>4, <1>5 DEF kept

LEMMA StepKeepsLimits ==
  ASSUME NEW p \in Parties, NEW s, NEW used \in SUBSET Message, SessionInv(s, used),
         PlaceInv(p, s), LimitInv(p, s),
         NEW remote \in PublicKey, IsNextKey(p, s, remote), NEW n \in Counters
  PROVE  LimitInv(p, StepRatchet(s, remote, n))
<1>1. PICK t : t = StepRatchet(s, remote, n)
  OBVIOUS
<1>2. PICK all : all = AllChains(s, remote, n)
  OBVIOUS
<1>3. PICK h \in Nat : h = s.lastRemote[2]
  BY PlaceFacts DEF SessionInv
<1>4. s \in Session
  BY DEF SessionInv
<1>5. t.chains = RemoveOldReceiverChains(all) /\ t.lastRemote = remote
  BY <1>1, <1>2, <1>4, StepResult
<1>6. remote[1] = Peer(p) /\ remote[2] = h + 1 /\ remote = <<Peer(p), h + 1>>
  BY <1>3 DEF IsNextKey, PublicKey
<1>7. /\ OfKeys(Peer(p), Receiving(all), 0, h + 1)
      /\ \A c \in Receiving(all) : Len(c.seed) = SeedLen(c.key)
      /\ \A c \in Receiving(s.chains) :
           Closed(s, c, n) \in Receiving(all) /\ Closed(s, c, n).key = c.key
  BY <1>2, <1>3, AllReceivers
<1>8. /\ Cardinality(Receiving(t.chains)) <= MaxReceiverChains
      /\ \A c \in Receiving(all) : c.key[2] + MaxReceiverChains > h + 1 => c \in t.chains
  <2>1. PICK k \in Nat : k = h + 1
    BY <1>3
  <2>2. QED
    BY <1>5, <1>7, <2>1, RemoveOldLimits
<1>9. MaxReceiverChains \in Nat /\ MaxReceiverChains >= 1 /\ MaxMessageKeys \in Nat
  BY LimitsAssumption
<1>10. ASSUME NEW j \in 1..(h + 1), j + MaxReceiverChains > h + 1
       PROVE  HasChain(t, <<Peer(p), j>>)
  <2>1. CASE j = h + 1
    BY <1>1, <1>6, <2>1, StepRatchetKeeps
  <2>2. CASE j # h + 1
    <3>1. j \in 1..h /\ j + MaxReceiverChains > h
      BY <1>3, <1>9, <1>10, <2>2
    <3>2. PICK c \in s.chains : c.key = <<Peer(p), j>>
      BY <1>3, <3>1 DEF LimitInv, HasChain, ChainsFor
    <3>3. c \in Receiving(s.chains)
      <4>1. ChainInv(p, s, c) /\ c.key[1] # p
        BY <1>4, <3>2, PlaceFacts DEF PlaceInv
      <4>2. s.ephemeral[1] = p
        BY <1>4, PlaceFacts
      <4>3. QED
        BY <4>1, <4>2 DEF ChainInv, IsSending, IsReceiving, Receiving
    <3>4. PICK d : d = Closed(s, c, n)
      OBVIOUS
    <3>5. d \in Receiving(all) /\ d.key = <<Peer(p), j>>
      BY <1>7, <3>2, <3>3, <3>4
    <3>6. d \in t.chains
      BY <1>8, <1>10, <3>5
    <3>7. QED
      BY <3>5, <3>6 DEF HasChain, ChainsFor
  <2>3. QED
    BY <2>1, <2>2
<1>11. ASSUME NEW d \in t.chains
       PROVE  Cardinality(d.messageKeys) <= MaxMessageKeys
  <2>1. CASE d = NewReceiver(s, remote) \/ d = NewSender(s, remote)
    <3>1. d.messageKeys = {}
      BY <2>1 DEF NewReceiver, NewSender, NewChain
    <3>2. QED
      BY <1>9, <3>1, FS_EmptySet
  <2>2. CASE \E c \in s.chains : d = Closed(s, c, n)
    <3>1. PICK c \in s.chains : d = Closed(s, c, n)
      BY <2>2
    <3>2. /\ Cardinality(c.messageKeys) <= MaxMessageKeys /\ c \in Chain
          /\ \A k \in c.messageKeys : k <= c.counter
      BY <1>4 DEF LimitInv, SessionInv, Session
    <3>3. Cardinality(FillMessageKeys(c, n).messageKeys) <= MaxMessageKeys
      BY <3>2, FillLimits
    <3>4. d = c \/ d.messageKeys = FillMessageKeys(c, n).messageKeys
      BY <1>4, <3>1, ClosedFields
    <3>5. QED
      BY <3>2, <3>3, <3>4
  <2>3. QED
    BY <1>1, <1>4, <2>1, <2>2, StepChains
<1>12. QED
  BY <1>1, <1>5, <1>6, <1>8, <1>10, <1>11 DEF LimitInv

(* One chain replaced by itself moved on, with no more keys than the limit. *)
LEMMA ReplaceKeepsLimits ==
  ASSUME NEW p \in Parties, NEW t \in Session, PlaceInv(p, t), LimitInv(p, t),
         \A a, b \in t.chains : a.key = b.key => a = b,
         NEW c \in t.chains, NEW d, d.key = c.key, d.type = c.type,
         Cardinality(d.messageKeys) <= MaxMessageKeys,
         NEW u, u.lastRemote = t.lastRemote, u.chains = (t.chains \ {c}) \cup {d}
  PROVE  LimitInv(p, u)
<1>1. Cardinality(Receiving(u.chains)) <= MaxReceiverChains
  <2>1. PICK R : R = Receiving(t.chains)
    OBVIOUS
  <2>2. CASE c.type = "RECEIVING"
    <3>1. Receiving(u.chains) = (R \ {c}) \cup {d} /\ c \in R
      BY <2>1, <2>2 DEF Receiving
    <3>2. IsFiniteSet(R) /\ Cardinality(R) \in Nat
      <4>1. PICK h \in Nat : h = t.lastRemote[2]
        BY PlaceFacts
      <4>2. OfKeys(Peer(p), R, 0, h)
        <5>1. ASSUME NEW e \in R
              PROVE  /\ e.key \in PublicKey /\ e.key[1] = Peer(p) /\ e.key[2] > 0
                     /\ e.key[2] <= h
          <6>1. ChainInv(p, t, e) /\ IsReceiving(p, t, e) /\ e \in Chain
            BY <2>1 DEF Receiving, PlaceInv, ChainInv, IsSending, Session
          <6>2. QED
            BY <4>1, <6>1 DEF ChainInv, IsReceiving, Chain, PublicKey
        <5>2. QED
          BY <2>1, <5>1 DEF OfKeys, Receiving
      <4>3. QED
        BY <4>2, ChainCount
    <3>3. /\ IsFiniteSet(R \ {c}) /\ Cardinality(R \ {c}) = Cardinality(R) - 1
      BY <3>1, <3>2, FS_RemoveElement
    <3>4. PICK v : v = (R \ {c}) \cup {d}
      OBVIOUS
    <3>5. /\ IsFiniteSet(v)
          /\ Cardinality(v) = IF d \in R \ {c} THEN Cardinality(R \ {c})
                              ELSE Cardinality(R \ {c}) + 1
      BY <3>3, <3>4, FS_AddElement
    <3>6. Cardinality(v) <= Cardinality(R) /\ Cardinality(v) \in Nat
      BY <3>2, <3>3, <3>5, FS_CardinalityType
    <3>7. MaxReceiverChains \in Nat /\ Cardinality(R) <= MaxReceiverChains
      BY <2>1, LimitsAssumption DEF LimitInv
    <3>8. Receiving(u.chains) = v
      BY <3>1, <3>4
    <3>9. QED
      BY <3>2, <3>6, <3>7, <3>8
  <2>3. CASE c.type # "RECEIVING"
    <3>1. Receiving(u.chains) = R
      BY <2>1, <2>3 DEF Receiving
    <3>2. QED
      BY <2>1, <3>1 DEF LimitInv
  <2>4. QED
    BY <2>2, <2>3
<1>2. \A key : HasChain(t, key) => HasChain(u, key)
  BY DEF HasChain, ChainsFor
<1>3. \A e \in u.chains : Cardinality(e.messageKeys) <= MaxMessageKeys
  BY DEF LimitInv
<1>4. QED
  BY <1>1, <1>2, <1>3 DEF LimitInv

LEMMA DecryptKeepsLimits ==
  ASSUME NEW p \in Parties, NEW s, NEW used \in SUBSET Message, SessionInv(s, used),
         PlaceInv(p, s), LimitInv(p, s),
         NEW m \in Message, MessageInv(m), DoDecryptSucceeds(s, m)
  PROVE  LimitInv(p, DoDecrypt(s, m))
<1>1. PICK t : t = MaybeStepRatchet(s, m)
  OBVIOUS
<1>2. PICK u : u = DoDecrypt(s, m)
  OBVIOUS
<1>3. PICK c : c = ReceivingChain(s, m)
  OBVIOUS
<1>4. PICK d : d = TakeMessageKey(FillMessageKeys(c, m.counter), m.counter)
  OBVIOUS
<1>5. /\ t \in Session /\ u.lastRemote = t.lastRemote /\ u.chains = (t.chains \ {c}) \cup {d}
  BY <1>1, <1>2, <1>3, <1>4, DecryptResult
<1>6. c \in t.chains /\ c \in Chain
  BY <1>1, <1>3, DecryptChain
<1>7. s \in Session /\ m.ephemeral \in PublicKey /\ m.previousCounter \in Counters
      /\ m.counter \in Counters
  BY DEF SessionInv, Message, Counters
<1>8. SessionInv(t, used)
  BY <1>1, MaybeStepRatchetKeeps
<1>9. PlaceInv(p, t) /\ LimitInv(p, t)
  <2>1. CASE HasChain(s, m.ephemeral)
    BY <1>1, <2>1 DEF MaybeStepRatchet
  <2>2. CASE ~HasChain(s, m.ephemeral)
    <3>1. IsNextKey(p, s, m.ephemeral)
      BY <2>2, DecryptKinds
    <3>2. t = StepRatchet(s, m.ephemeral, m.previousCounter)
      BY <1>1, <2>2 DEF MaybeStepRatchet
    <3>3. QED
      BY <1>7, <3>1, <3>2, StepKeepsPlace, StepKeepsLimits
  <2>3. QED
    BY <2>1, <2>2
<1>10. \A a, b \in t.chains : a.key = b.key => a = b
  BY <1>8, <1>9, OneSender
<1>11. d.key = c.key /\ d.type = c.type
  BY <1>4, <1>6, <1>7, TakeFields
<1>12. Cardinality(d.messageKeys) <= MaxMessageKeys
  <2>1. PICK f : f = FillMessageKeys(c, m.counter)
    OBVIOUS
  <2>2. \A k \in c.messageKeys : k <= c.counter
    BY <1>6, <1>8 DEF SessionInv
  <2>3. Cardinality(f.messageKeys) <= MaxMessageKeys
    BY <1>6, <1>7, <1>9, <2>1, <2>2, FillLimits DEF LimitInv
  <2>4. f \in Chain /\ f.messageKeys \subseteq Nat
    BY <1>6, <1>7, <2>1, FillType DEF Chain
  <2>5. \A k \in f.messageKeys : k <= f.counter
    BY <1>6, <1>7, <2>1, <2>2, FillAdvances DEF Advances
  <2>6. IsFiniteSet(f.messageKeys)
    <3>1. CASE f.counter = -1
      <4>1. f.messageKeys = {}
        BY <2>4, <2>5, <3>1
      <4>2. QED
        BY <4>1, FS_EmptySet
    <3>2. CASE f.counter \in Nat
      BY <2>4, <2>5, <3>2, FS_BoundedSetOfNaturals
    <3>3. QED
      BY <2>4, <3>1, <3>2 DEF Chain
  <2>7. d.messageKeys = f.messageKeys \ {m.counter}
    BY <1>4, <1>6, <1>7, <2>1, TakeFields
  <2>8. PICK K : K = f.messageKeys \ {m.counter}
    OBVIOUS
  <2>9. Cardinality(K) <= Cardinality(f.messageKeys) /\ Cardinality(K) \in Nat
        /\ Cardinality(f.messageKeys) \in Nat
    BY <2>6, <2>8, FS_Subset, FS_CardinalityType
  <2>10. MaxMessageKeys \in Nat
    BY LimitsAssumption
  <2>11. QED
    BY <2>3, <2>7, <2>8, <2>9, <2>10
<1>13. LimitInv(p, u)
  BY <1>5, <1>6, <1>9, <1>10, <1>11, <1>12, ReplaceKeepsLimits
<1>14. QED
  BY <1>2, <1>13

LEMMA SealKeepsLimits ==
  ASSUME NEW p \in Parties, NEW s, NEW used, SessionInv(s, used), PlaceInv(p, s),
         LimitInv(p, s), NEW c \in s.chains, c.type = "SENDING"
  PROVE  LimitInv(p, SessionAfterSealing(s, c))
<1>1. PICK u : u = SessionAfterSealing(s, c)
  OBVIOUS
<1>2. PICK d : d = Moved(c)
  OBVIOUS
<1>3. s \in Session /\ c \in Chain
  BY DEF SessionInv, Session
<1>4. u.lastRemote = s.lastRemote /\ u.chains = (s.chains \ {c}) \cup {d}
  BY <1>1, <1>2, <1>3, SealResult
<1>5. IsSending(s, c)
  BY DEF PlaceInv, ChainInv, IsReceiving
<1>6. d.key = c.key /\ d.type = c.type /\ d.messageKeys = {}
  BY <1>2, <1>3, <1>5, MovedFields DEF IsSending
<1>7. Cardinality(d.messageKeys) <= MaxMessageKeys
  BY <1>6, FS_EmptySet, LimitsAssumption
<1>8. \A a, b \in s.chains : a.key = b.key => a = b
  BY OneSender
<1>9. LimitInv(p, u)
  BY <1>3, <1>4, <1>6, <1>7, <1>8, ReplaceKeepsLimits
<1>10. QED
  BY <1>1, <1>9

(* A session before its first ratchet step.                                *)
LEMMA FreshLimits ==
  ASSUME NEW p, NEW s, s.lastRemote[2] = 0, Receiving(s.chains) = {},
         \A c \in s.chains : c.messageKeys = {}
  PROVE  LimitInv(p, s)
<1>1. Cardinality({}) = 0 /\ MaxReceiverChains \in Nat /\ MaxMessageKeys \in Nat
  BY FS_EmptySet, LimitsAssumption
<1>2. 1..s.lastRemote[2] = {}
  OBVIOUS
<1>3. Cardinality(Receiving(s.chains)) <= MaxReceiverChains
  BY <1>1
<1>4. \A c \in s.chains : Cardinality(c.messageKeys) <= MaxMessageKeys
  BY <1>1
<1>5. QED
  BY <1>2, <1>3, <1>4 DEF LimitInv

LEMMA OutgoingLimits == LimitInv(Initiator, OutgoingSession)
<1>1. PICK s : s = OutgoingSession
  OBVIOUS
<1>2. /\ s.lastRemote[2] = 0
      /\ \A c \in s.chains : c.type = "SENDING" /\ c.messageKeys = {}
  BY <1>1 DEF OutgoingSession, SignedPreKey, NewChain
<1>3. Receiving(s.chains) = {}
  BY <1>2 DEF Receiving
<1>4. QED
  BY <1>1, <1>2, <1>3, FreshLimits

LEMMA IncomingLimits == LimitInv(Responder, IncomingSession)
<1>1. PICK s : s = IncomingSession
  OBVIOUS
<1>2. s.lastRemote[2] = 0 /\ s.chains = {}
  BY <1>1 DEF IncomingSession, BaseKey
<1>3. Receiving(s.chains) = {}
  BY <1>2 DEF Receiving
<1>4. QED
  BY <1>1, <1>2, <1>3, FreshLimits

LimitsInv == LineInv /\ \A p \in Parties : \A s \in session[p] : LimitInv(p, s)

LEMMA CandidateLimits ==
  ASSUME LimitsInv, NEW p \in Parties, NEW m, NEW s \in Candidates(p, m)
  PROVE  LimitInv(p, s)
<1>1. CASE s \in session[p]
  BY <1>1 DEF LimitsInv
<1>2. CASE s = IncomingSession /\ p = Responder
  BY <1>2, IncomingLimits
<1>3. QED
  BY <1>1, <1>2, CandidateKinds

LEMMA LimitsStep == LimitsInv /\ [Next]_vars => LimitsInv'
<1> SUFFICES ASSUME LimitsInv, [Next]_vars
             PROVE  LimitsInv'
  OBVIOUS
<1>1. LineInv /\ LineInv' /\ Inv
  BY LineStep DEF LimitsInv, LineInv
<1>2. SUFFICES ASSUME NEW q \in Parties, NEW t \in session'[q]
               PROVE  LimitInv(q, t)
  BY <1>1 DEF LimitsInv
<1>3. t \in session[q] => LimitInv(q, t)
  BY DEF LimitsInv
<1>4. CASE InitOutgoing
  <2>1. session'[q] = IF q = Initiator THEN {OutgoingSession} ELSE session[q]
    BY <1>1, <1>4 DEF Inv, TypeOK, InitOutgoing, Parties
  <2>2. QED
    BY <1>2, <1>3, <2>1, OutgoingLimits
<1>5. CASE \E p \in Parties : Encrypt(p)
  <2>1. PICK p \in Parties : Encrypt(p)
    BY <1>5
  <2>2. PICK s, c, m : Sends(p, s, c, m)
    BY <2>1, EncryptSends
  <2>3. CASE p = q
    <3>1. session'[q] = {SessionAfterSealing(s, c)}
      BY <1>1, <2>2, <2>3, SendsSession
    <3>2. s \in session[q] /\ c \in s.chains /\ c.type = "SENDING"
      BY <2>2, <2>3 DEF Sends
    <3>3. SessionInv(s, Used(q)) /\ PlaceInv(q, s) /\ LimitInv(q, s)
      BY <1>1, <3>2 DEF Inv, LineInv, LimitsInv
    <3>4. LimitInv(q, SessionAfterSealing(s, c))
      BY <3>2, <3>3, SealKeepsLimits
    <3>5. QED
      BY <1>2, <3>1, <3>4
  <2>4. CASE p # q
    <3>1. session'[q] = session[q]
      BY <1>1, <2>2, <2>4, SendsSession
    <3>2. QED
      BY <1>2, <1>3, <3>1
  <2>5. QED
    BY <2>3, <2>4
<1>6. CASE \E p \in Parties : \E m \in network : Receive(p, m)
  <2>1. PICK p \in Parties, m \in network : Receive(p, m)
    BY <1>6
  <2>2. CASE DecryptWhisperMessage(p, m) \/ DecryptPreKeyWhisperMessage(p, m)
    <3>1. PICK s : Opens(p, s, m)
      BY <2>2, DecryptOpens
    <3>2. session' = [session EXCEPT ![p] = {DoDecrypt(s, m)}]
      BY <3>1 DEF Opens
    <3>3. CASE p = q
      <4>1. session'[q] = {DoDecrypt(s, m)}
        BY <1>1, <3>2, <3>3 DEF Inv, TypeOK
      <4>2. /\ SessionInv(s, Used(q)) /\ PlaceInv(q, s) /\ LimitInv(q, s)
            /\ DoDecryptSucceeds(s, m) /\ Used(q) \in SUBSET Message
            /\ m \in Message /\ MessageInv(m)
        BY <1>1, <3>1, <3>3, CandidateLine, CandidateLimits, UsedType
        DEF Opens, LineInv, Inv, TypeOK
      <4>3. LimitInv(q, DoDecrypt(s, m))
        BY <4>2, DecryptKeepsLimits
      <4>4. QED
        BY <1>2, <4>1, <4>3
    <3>4. CASE p # q
      <4>1. session'[q] = session[q]
        BY <1>1, <3>2, <3>4 DEF Inv, TypeOK
      <4>2. QED
        BY <1>2, <1>3, <4>1
    <3>5. QED
      BY <3>3, <3>4
  <2>3. CASE RejectMessage(p, m)
    BY <1>2, <1>3, <2>3 DEF RejectMessage, vars
  <2>4. QED
    BY <2>1, <2>2, <2>3 DEF Receive
<1>7. CASE UNCHANGED vars
  BY <1>2, <1>3, <1>7 DEF vars
<1>8. QED
  BY <1>4, <1>5, <1>6, <1>7 DEF Next

(* removeOldReceiverChains and pruneMessageKeys hold each session to its    *)
(* limits, and evict nothing within them.                                  *)
THEOREM LimitsInvHolds == Spec => []LimitsInv
<1>1. Init => LimitsInv
  BY LineInit DEF Init, LimitsInv
<1>2. QED
  BY <1>1, LimitsStep, PTL DEF Spec

(* The shape of a stored session: one sending chain, for the current key    *)
(* pair; no receiving chain open but the last remote key's; and no more     *)
(* receiving chains and skipped keys than session-record.ts allows.        *)
THEOREM SessionShapeHolds == Spec => []SessionShape
<1>1. LimitsInv => SessionShape
  <2> SUFFICES ASSUME LimitsInv, NEW p \in Parties, NEW s \in session[p]
               PROVE  LET sending   == {c \in s.chains : c.type = "SENDING"}
                          receiving == {c \in s.chains : c.type = "RECEIVING"}
                      IN  /\ {c.key : c \in sending} = {s.ephemeral} /\ Cardinality(sending) = 1
                          /\ \A c \in receiving : c.open => c.key = s.lastRemote
                          /\ Cardinality(receiving) <= MaxReceiverChains
                          /\ \A c \in s.chains : Cardinality(c.messageKeys) <= MaxMessageKeys
    BY DEF SessionShape
  <2>1. /\ SessionInv(s, Used(p)) /\ PlaceInv(p, s) /\ s.ephemeral[2] >= 1 /\ LimitInv(p, s)
        /\ s \in Session
    BY DEF LimitsInv, LineInv, Inv, SessionInv
  <2>2. PICK a \in s.chains : a.key = s.ephemeral
    BY <2>1 DEF PlaceInv, HasChain, ChainsFor
  <2>3. PICK sending : sending = {c \in s.chains : c.type = "SENDING"}
    OBVIOUS
  <2>4. sending = {a}
    <3>1. a.type = "SENDING"
      <4>1. s.ephemeral[1] = p /\ Peer(p) # p
        BY <2>1, PlaceFacts
      <4>2. QED
        BY <2>1, <2>2, <4>1 DEF PlaceInv, ChainInv, IsSending, IsReceiving
    <3>2. ASSUME NEW c \in sending
          PROVE  c = a
      <4>1. c \in s.chains /\ c.key = a.key
        BY <2>1, <2>2, <2>3 DEF PlaceInv, ChainInv, IsSending, IsReceiving
      <4>2. QED
        BY <2>1, <4>1, OneSender
    <3>3. QED
      BY <2>3, <3>1, <3>2
  <2>5. Cardinality(sending) = 1 /\ {c.key : c \in sending} = {s.ephemeral}
    BY <2>2, <2>4, FS_Singleton
  <2>6. \A c \in {d \in s.chains : d.type = "RECEIVING"} : c.open => c.key = s.lastRemote
    BY <2>1 DEF PlaceInv, ChainInv, IsSending, IsReceiving
  <2>7. Cardinality({c \in s.chains : c.type = "RECEIVING"}) <= MaxReceiverChains
    BY <2>1 DEF LimitInv, Receiving
  <2>8. \A c \in s.chains : Cardinality(c.messageKeys) <= MaxMessageKeys
    BY <2>1 DEF LimitInv
  <2>9. QED
    BY <2>3, <2>5, <2>6, <2>7, <2>8, Zenon
<1>2. QED
  BY <1>1, LimitsInvHolds, PTL

------------------------------------------------------------------------------
(* Counters: what a chain says of the messages that were sent on it.       *)

SentTo(net, key, k) == \E m \in net : m.ephemeral = key /\ m.counter = k

(* k is the last counter used on the chain of a key, or 0 if none was.     *)
IsLast(net, key, k) ==
  IF \E m \in net : m.ephemeral = key THEN SentTo(net, key, k) /\ AllTo(net, key, k)
  ELSE k = 0

(* The messages on a receiving chain that its counter has passed.          *)
AreSettled(net, got, c) ==
  \A m \in net : m.ephemeral = c.key /\ m.counter <= c.counter =>
    \/ m \in got
    \/ m.counter \in c.messageKeys
    \/ m.counter + MaxMessageKeys <= c.counter

ChainCounts(net, got, c) ==
  /\ c.counter >= 0 => SentTo(net, c.key, c.counter)
  /\ ~c.open => AllTo(net, c.key, c.counter)
  /\ c.type = "RECEIVING" => AreSettled(net, got, c)

SessionCounts(p, s, net, got) ==
  /\ IsLast(net, <<p, s.ephemeral[2] - 1>>, s.previousCounter)
  /\ s.lastRemote[2] >= 1 => \E m \in net : m.ephemeral = s.lastRemote
  /\ \A c \in s.chains : ChainCounts(net, got, c)

MessageCounts(net, m) ==
  /\ \A k \in 0..m.counter : SentTo(net, m.ephemeral, k)
  /\ IsLast(net, <<m.from, m.ephemeral[2] - 1>>, m.previousCounter)

CountsInv ==
  /\ LimitsInv
  /\ \A m \in network : MessageCounts(network, m)
  /\ \A p \in Parties : \A s \in session[p] : SessionCounts(p, s, network, delivered[p])

(* Filling a chain up to a message that was sent keeps every key it passes, *)
(* but for those pruned.                                                   *)
LEMMA FillCounts ==
  ASSUME NEW net \in SUBSET Message, NEW got, NEW c \in Chain, ChainCounts(net, got, c),
         \A k \in c.messageKeys : k <= c.counter,
         Cardinality(c.messageKeys) <= MaxMessageKeys,
         NEW n \in Counters, n > c.counter => SentTo(net, c.key, n),
         NEW f, f = FillMessageKeys(c, n)
  PROVE  /\ ChainCounts(net, got, f)
         /\ \A m \in net : m.ephemeral = c.key /\ m.counter <= n /\ m.counter > c.counter =>
              m.counter \in f.messageKeys \/ m.counter + MaxMessageKeys <= f.counter
<1>1. /\ f.key = c.key /\ f.type = c.type /\ f.open = c.open
      /\ f.counter = IF n > c.counter THEN n ELSE c.counter
  BY FillFields
<1>2. \A k \in c.messageKeys \cup (c.counter + 1)..n :
        k \in f.messageKeys \/ k + MaxMessageKeys <= f.counter
  BY FillLimits
<1>3. c.counter \in Counters /\ c.messageKeys \subseteq Nat /\ MaxMessageKeys \in Nat
  BY LimitsAssumption DEF Chain, Counters
<1>4. \A m \in net : m.counter \in Nat
  BY DEF Message
<1>5. f.counter >= 0 => SentTo(net, f.key, f.counter)
  BY <1>1 DEF ChainCounts
<1>6. ~f.open => AllTo(net, f.key, f.counter)
  <2>1. ASSUME ~f.open, NEW m \in net, m.ephemeral = f.key
        PROVE  m.counter <= f.counter
    <3>1. m.counter <= c.counter
      BY <1>1, <2>1 DEF ChainCounts, AllTo
    <3>2. QED
      BY <1>1, <1>3, <1>4, <3>1 DEF Counters
  <2>2. QED
    BY <2>1 DEF AllTo
<1>7. ASSUME NEW m \in net, m.counter <= n, m.counter > c.counter
      PROVE  m.counter \in f.messageKeys \/ m.counter + MaxMessageKeys <= f.counter
  <2>1. m.counter \in (c.counter + 1)..n
    BY <1>3, <1>4, <1>7 DEF Counters
  <2>2. QED
    BY <1>2, <2>1
<1>8. f.type = "RECEIVING" => AreSettled(net, got, f)
  <2>1. ASSUME f.type = "RECEIVING", NEW m \in net, m.ephemeral = f.key, m.counter <= f.counter,
               m \notin got
        PROVE  m.counter \in f.messageKeys \/ m.counter + MaxMessageKeys <= f.counter
    <3>1. CASE m.counter > c.counter
      <4>1. m.counter <= n
        BY <1>1, <1>3, <1>4, <2>1, <3>1 DEF Counters
      <4>2. QED
        BY <1>7, <3>1, <4>1
    <3>2. CASE ~(m.counter > c.counter)
      <4>1. m.counter <= c.counter
        BY <1>3, <1>4, <3>2 DEF Counters
      <4>2. m.counter \in c.messageKeys \/ m.counter + MaxMessageKeys <= c.counter
        BY <1>1, <2>1, <4>1 DEF ChainCounts, AreSettled
      <4>3. CASE m.counter \in c.messageKeys
        BY <1>2, <4>3
      <4>4. CASE m.counter + MaxMessageKeys <= c.counter
        <5>1. c.counter <= f.counter /\ f.counter \in Int
          BY <1>1, <1>3 DEF Counters
        <5>2. QED
          BY <1>3, <1>4, <4>4, <5>1 DEF Counters
      <4>5. QED
        BY <4>2, <4>3, <4>4
    <3>3. QED
      BY <3>1, <3>2
  <2>2. QED
    BY <2>1 DEF AreSettled
<1>9. QED
  BY <1>5, <1>6, <1>7, <1>8 DEF ChainCounts

LEMMA CloseCounts ==
  ASSUME NEW net \in SUBSET Message, NEW got, NEW c \in Chain, ChainCounts(net, got, c),
         \A k \in c.messageKeys : k <= c.counter,
         Cardinality(c.messageKeys) <= MaxMessageKeys,
         NEW n \in Counters, SentTo(net, c.key, n), AllTo(net, c.key, n)
  PROVE  ChainCounts(net, got, CloseChain(c, n))
<1>1. PICK f : f = FillMessageKeys(c, n)
  OBVIOUS
<1>2. PICK d : d = CloseChain(c, n)
  OBVIOUS
<1>3. ChainCounts(net, got, f)
  BY <1>1, FillCounts
<1>4. /\ f.key = c.key /\ f.type = c.type
      /\ f.counter = IF n > c.counter THEN n ELSE c.counter
  BY <1>1, FillFields
<1>5. /\ d.key = c.key /\ d.type = c.type /\ d.open = FALSE /\ d.counter = f.counter
      /\ d.messageKeys = f.messageKeys
  BY <1>1, <1>2, CloseFields
<1>6. AllTo(net, d.key, d.counter)
  <2>1. ASSUME NEW m \in net, m.ephemeral = d.key
        PROVE  m.counter <= d.counter
    <3>1. m.counter <= n /\ m.counter \in Nat /\ c.counter \in Counters
      BY <1>5, <2>1 DEF AllTo, Message, Chain, Counters
    <3>2. QED
      BY <1>4, <1>5, <3>1 DEF Counters
  <2>2. QED
    BY <2>1 DEF AllTo
<1>7. ChainCounts(net, got, d)
  BY <1>3, <1>4, <1>5, <1>6 DEF ChainCounts, AreSettled
<1>8. QED
  BY <1>2, <1>7

(* Decrypting a message fills its chain up to it and settles it.           *)
LEMMA TakeCounts ==
  ASSUME NEW net \in SUBSET Message, NEW got, NEW c \in Chain, ChainCounts(net, got, c),
         \A k \in c.messageKeys : k <= c.counter,
         Cardinality(c.messageKeys) <= MaxMessageKeys,
         NEW m \in net, m.ephemeral = c.key,
         \A x \in net : x.ephemeral = m.ephemeral /\ x.counter = m.counter => x = m,
         NEW all, got \subseteq all, m \in all
  PROVE  ChainCounts(net, all, TakeMessageKey(FillMessageKeys(c, m.counter), m.counter))
<1>1. PICK f : f = FillMessageKeys(c, m.counter)
  OBVIOUS
<1>2. PICK d : d = TakeMessageKey(FillMessageKeys(c, m.counter), m.counter)
  OBVIOUS
<1>3. m.counter \in Counters
  BY DEF Message, Counters
<1>4. ChainCounts(net, got, f)
  <2>1. SentTo(net, c.key, m.counter)
    BY DEF SentTo
  <2>2. QED
    BY <1>1, <1>3, <2>1, FillCounts
<1>5. f.key = c.key /\ f.type = c.type /\ f.open = c.open
  BY <1>1, <1>3, FillFields
<1>6. /\ d.key = c.key /\ d.type = c.type /\ d.open = c.open /\ d.counter = f.counter
      /\ d.messageKeys = f.messageKeys \ {m.counter}
  BY <1>1, <1>2, <1>3, TakeFields
<1>7. d.type = "RECEIVING" => AreSettled(net, all, d)
  <2>1. ASSUME d.type = "RECEIVING", NEW x \in net, x.ephemeral = d.key, x.counter <= d.counter,
               x # m
        PROVE  x \in all \/ x.counter \in d.messageKeys \/ x.counter + MaxMessageKeys <= d.counter
    <3>1. x \in got \/ x.counter \in f.messageKeys \/ x.counter + MaxMessageKeys <= f.counter
      BY <1>4, <1>5, <1>6, <2>1 DEF ChainCounts, AreSettled
    <3>2. x.counter # m.counter
      BY <1>6, <2>1
    <3>3. QED
      BY <1>6, <3>1, <3>2
  <2>2. QED
    BY <2>1 DEF AreSettled
<1>8. ChainCounts(net, all, d)
  BY <1>4, <1>5, <1>6, <1>7 DEF ChainCounts
<1>9. QED
  BY <1>2, <1>8

(* A ratchet step closes the peer's chain before at its last message.      *)
LEMMA StepCounts ==
  ASSUME NEW p \in Parties, NEW s, NEW used \in SUBSET Message, SessionInv(s, used),
         PlaceInv(p, s), LimitInv(p, s),
         NEW net \in SUBSET Message, NEW got, SessionCounts(p, s, net, got),
         IsLast(net, s.ephemeral, LastSentCounter(s)),
         NEW m \in net, MessageInv(m), MessageCounts(net, m), IsNextKey(p, s, m.ephemeral)
  PROVE  SessionCounts(p, StepRatchet(s, m.ephemeral, m.previousCounter), net, got)
<1>1. PICK t : t = StepRatchet(s, m.ephemeral, m.previousCounter)
  OBVIOUS
<1>2. /\ s \in Session /\ m.ephemeral \in PublicKey /\ m.previousCounter \in Counters
      /\ \A n \in net : n.counter \in Nat
  BY DEF SessionInv, Message, Counters
<1>3. /\ t.ephemeral = NextKeyPair(s.ephemeral) /\ t.lastRemote = m.ephemeral
      /\ t.previousCounter = LastSentCounter(s)
  BY <1>1, <1>2, StepResult
<1>4. /\ s.ephemeral \in PublicKey /\ s.ephemeral[1] = p /\ s.lastRemote[2] \in Nat
      /\ s.lastRemote = <<Peer(p), s.lastRemote[2]>>
  BY <1>2, PlaceFacts
<1>5. IsLast(net, <<p, t.ephemeral[2] - 1>>, t.previousCounter)
  <2>1. <<p, t.ephemeral[2] - 1>> = s.ephemeral
    BY <1>3, <1>4 DEF NextKeyPair, PublicKey
  <2>2. QED
    BY <1>3, <2>1
<1>6. ASSUME NEW d \in t.chains
      PROVE  ChainCounts(net, got, d)
  <2>1. CASE d = NewReceiver(s, m.ephemeral) \/ d = NewSender(s, m.ephemeral)
    <3>1. d.counter = -1 /\ d.open = TRUE
      BY <2>1 DEF NewReceiver, NewSender, NewChain
    <3>2. \A n \in net : ~(n.counter <= d.counter)
      BY <1>2, <3>1
    <3>3. QED
      BY <3>1, <3>2 DEF ChainCounts, AreSettled
  <2>2. CASE \E c \in s.chains : d = Closed(s, c, m.previousCounter)
    <3>1. PICK c \in s.chains : d = Closed(s, c, m.previousCounter)
      BY <2>2
    <3>2. /\ c \in Chain /\ ChainCounts(net, got, c) /\ c.key[2] >= 1
          /\ \A k \in c.messageKeys : k <= c.counter
          /\ Cardinality(c.messageKeys) <= MaxMessageKeys
      BY <1>2 DEF SessionInv, Session, SessionCounts, PlaceInv, ChainInv, LimitInv
    <3>3. CASE c.key # s.lastRemote
      BY <3>1, <3>2, <3>3 DEF Closed
    <3>4. CASE c.key = s.lastRemote
      <4>1. \E n \in net : n.ephemeral = c.key
        BY <3>2, <3>4 DEF SessionCounts
      <4>2. <<m.from, m.ephemeral[2] - 1>> = c.key
        BY <1>4, <3>4 DEF MessageInv, IsNextKey
      <4>3. SentTo(net, c.key, m.previousCounter) /\ AllTo(net, c.key, m.previousCounter)
        BY <4>1, <4>2 DEF MessageCounts, IsLast
      <4>4. d = CloseChain(c, m.previousCounter)
        BY <3>1, <3>4 DEF Closed
      <4>5. QED
        BY <1>2, <3>2, <4>3, <4>4, CloseCounts
    <3>5. QED
      BY <3>3, <3>4
  <2>3. QED
    BY <1>1, <1>2, <2>1, <2>2, StepChains
<1>7. QED
  BY <1>1, <1>3, <1>5, <1>6 DEF SessionCounts

LEMMA DecryptCounts ==
  ASSUME NEW p \in Parties, NEW s, NEW used \in SUBSET Message, SessionInv(s, used),
         PlaceInv(p, s), LimitInv(p, s),
         NEW net \in SUBSET Message, NEW got, SessionCounts(p, s, net, got),
         NEW m \in net, MessageInv(m), MessageCounts(net, m), DoDecryptSucceeds(s, m),
         IsNextKey(p, s, m.ephemeral) => IsLast(net, s.ephemeral, LastSentCounter(s)),
         \A x \in net : x.ephemeral = m.ephemeral /\ x.counter = m.counter => x = m,
         NEW all, got \subseteq all, m \in all
  PROVE  SessionCounts(p, DoDecrypt(s, m), net, all)
<1>1. PICK t : t = MaybeStepRatchet(s, m)
  OBVIOUS
<1>2. PICK u : u = DoDecrypt(s, m)
  OBVIOUS
<1>3. PICK c : c = ReceivingChain(s, m)
  OBVIOUS
<1>4. PICK d : d = TakeMessageKey(FillMessageKeys(c, m.counter), m.counter)
  OBVIOUS
<1>5. /\ t \in Session /\ u.lastRemote = t.lastRemote /\ u.ephemeral = t.ephemeral
      /\ u.previousCounter = t.previousCounter /\ u.chains = (t.chains \ {c}) \cup {d}
  BY <1>1, <1>2, <1>3, <1>4, DecryptResult
<1>6. c \in t.chains /\ c \in Chain /\ c.key = m.ephemeral
  BY <1>1, <1>3, DecryptChain
<1>7. /\ s \in Session /\ m.ephemeral \in PublicKey /\ m.previousCounter \in Counters
  BY DEF SessionInv, Message, Counters
<1>8. SessionInv(t, used)
  BY <1>1, MaybeStepRatchetKeeps
<1>9. LimitInv(p, t) /\ SessionCounts(p, t, net, got)
  <2>1. CASE HasChain(s, m.ephemeral)
    BY <1>1, <2>1 DEF MaybeStepRatchet
  <2>2. CASE ~HasChain(s, m.ephemeral)
    <3>1. IsNextKey(p, s, m.ephemeral)
      BY <2>2, DecryptKinds
    <3>2. t = StepRatchet(s, m.ephemeral, m.previousCounter)
      BY <1>1, <2>2 DEF MaybeStepRatchet
    <3>3. LimitInv(p, t)
      BY <1>7, <3>1, <3>2, StepKeepsLimits
    <3>4. SessionCounts(p, t, net, got)
      BY <3>1, <3>2, StepCounts
    <3>5. QED
      BY <3>3, <3>4
  <2>3. QED
    BY <2>1, <2>2
<1>10. ChainCounts(net, all, d)
  <2>1. /\ ChainCounts(net, got, c)
        /\ \A k \in c.messageKeys : k <= c.counter
        /\ Cardinality(c.messageKeys) <= MaxMessageKeys
    BY <1>6, <1>8, <1>9 DEF SessionInv, SessionCounts, LimitInv
  <2>2. QED
    BY <1>4, <1>6, <2>1, TakeCounts
<1>11. ASSUME NEW e \in t.chains
       PROVE  ChainCounts(net, all, e)
  BY <1>9 DEF SessionCounts, ChainCounts, AreSettled
<1>12. SessionCounts(p, u, net, all)
  BY <1>5, <1>9, <1>10, <1>11 DEF SessionCounts
<1>13. QED
  BY <1>2, <1>12

(* When the peer has taken its next turn, the last counter p used on its    *)
(* current key pair is the one its next message will name: the peer could   *)
(* step only on a message of that key pair.                                *)
LEMMA LastSentIsLast ==
  ASSUME CountsInv, NEW p \in Parties, NEW s, SessionInv(s, Used(p)), PlaceInv(p, s),
         NoneAhead(p, s, network), SessionCounts(p, s, network, delivered[p]),
         NEW m \in network, IsNextKey(p, s, m.ephemeral)
  PROVE  IsLast(network, s.ephemeral, LastSentCounter(s))
<1>1. /\ LineInv /\ Inv /\ network \in SUBSET Message
  BY DEF CountsInv, LimitsInv, LineInv, Inv, TypeOK
<1>2. s \in Session
  BY DEF SessionInv
<1>3. PICK h \in Nat : h = s.lastRemote[2]
  BY <1>2, PlaceFacts
<1>4. /\ s.ephemeral \in PublicKey /\ s.ephemeral[1] = p /\ s.ephemeral = Place(p, h)
      /\ Peer(p) # p /\ Peer(p) \in Parties
  BY <1>2, <1>3, PlaceFacts DEF PlaceInv
<1>5. PICK q \in Parties : q = Peer(p)
  BY <1>4
<1>6. m.from = q /\ m.ephemeral[2] = h + 1
  BY <1>1, <1>3, <1>5 DEF LineInv, MessageInv, IsNextKey
<1>7. PICK t \in session[q] : TRUE
  <2>1. m \in Used(q)
    BY <1>6 DEF Used, Sent
  <2>2. QED
    BY <1>1, <2>1 DEF Inv
<1>8. /\ PlaceInv(q, t) /\ NoneAhead(q, t, network) /\ t \in Session
      /\ SessionCounts(q, t, network, delivered[q])
  BY <1>1, <1>7 DEF LineInv, Inv, SessionInv, CountsInv
<1>9. PICK y \in Nat : y = t.lastRemote[2]
  BY <1>8, PlaceFacts
<1>10. /\ t.ephemeral = Place(q, y) /\ t.lastRemote = <<Peer(q), y>> /\ Peer(q) = p
       /\ h + 1 <= t.ephemeral[2]
  <2>1. Peer(q) = p
    BY <1>5, PartiesAssumption DEF Peer, Parties
  <2>2. QED
    BY <1>6, <1>8, <1>9, <2>1, PlaceFacts DEF PlaceInv, NoneAhead
<1>11. s.ephemeral[2] = 0 \/ y >= s.ephemeral[2]
  BY <1>4, <1>5, <1>10, PartiesAssumption DEF Place, Peer, Parties
<1>12. CASE s.ephemeral[2] = 0
  <2>1. ~HasChain(s, s.ephemeral)
    BY <1>12 DEF HasChain, ChainsFor, PlaceInv, ChainInv
  <2>2. LastSentCounter(s) = s.previousCounter
    BY <2>1 DEF LastSentCounter
  <2>3. ASSUME NEW n \in network
        PROVE  n.ephemeral # s.ephemeral /\ n.ephemeral # <<p, s.ephemeral[2] - 1>>
    <3>1. n.ephemeral[2] \in Nat /\ n.ephemeral[2] >= 1
      BY <1>1 DEF LineInv, MessageInv, Message, PublicKey
    <3>2. QED
      BY <1>12, <3>1
  <2>4. s.previousCounter = 0
    BY <2>3 DEF SessionCounts, IsLast
  <2>5. QED
    BY <2>2, <2>3, <2>4 DEF IsLast
<1>13. CASE s.ephemeral[2] # 0
  <2>1. s.ephemeral[2] \in Nat /\ s.ephemeral[2] >= 1 /\ y >= s.ephemeral[2] /\ y >= 1
    BY <1>4, <1>11, <1>13 DEF PublicKey
  <2>2. PICK n \in network : n.ephemeral = <<p, y>>
    BY <1>8, <1>9, <1>10, <2>1 DEF SessionCounts
  <2>3. n.ephemeral = s.ephemeral
    <3>1. n.from = p /\ n.ephemeral[2] = y
      BY <1>1, <2>2 DEF LineInv, MessageInv
    <3>2. y <= s.ephemeral[2]
      BY <3>1 DEF NoneAhead
    <3>3. s.ephemeral = <<p, y>>
      BY <1>4, <2>1, <3>2 DEF PublicKey
    <3>4. QED
      BY <2>2, <3>3
  <2>4. PICK c : c = GetChain(s, s.ephemeral)
    OBVIOUS
  <2>5. HasChain(s, s.ephemeral)
    BY <2>1 DEF PlaceInv
  <2>6. c \in s.chains /\ c.key = s.ephemeral
    BY <2>4, <2>5 DEF GetChain, HasChain, ChainsFor
  <2>7. c.type = "SENDING" /\ c \in Chain
    BY <1>2, <1>4, <2>6 DEF PlaceInv, ChainInv, IsSending, IsReceiving, Session
  <2>8. AllTo(network, c.key, c.counter)
    BY <2>6, <2>7 DEF NoneAhead
  <2>9. c.counter >= 0
    <3>1. n.counter <= c.counter /\ n.counter \in Nat
      BY <1>1, <2>3, <2>6, <2>8 DEF AllTo, Message
    <3>2. QED
      BY <2>7, <3>1 DEF Chain
  <2>10. SentTo(network, c.key, c.counter)
    BY <2>6, <2>9 DEF SessionCounts, ChainCounts
  <2>11. LastSentCounter(s) = c.counter
    BY <2>4, <2>5 DEF LastSentCounter
  <2>12. QED
    BY <2>3, <2>6, <2>8, <2>10, <2>11 DEF IsLast
<1>14. QED
  BY <1>12, <1>13

LEMMA CandidateCounts ==
  ASSUME CountsInv, NEW p \in Parties, NEW m, NEW s \in Candidates(p, m)
  PROVE  SessionCounts(p, s, network, delivered[p])
<1>1. CASE s \in session[p]
  BY <1>1 DEF CountsInv
<1>2. CASE s = IncomingSession
  <2>1. /\ s.ephemeral[2] = 0 /\ s.lastRemote[2] = 0 /\ s.previousCounter = 0 /\ s.chains = {}
    BY <1>2 DEF IncomingSession, SignedPreKey, BaseKey
  <2>2. \A n \in network : n.ephemeral # <<p, s.ephemeral[2] - 1>>
    BY <2>1 DEF CountsInv, LimitsInv, LineInv, MessageInv
  <2>3. QED
    BY <2>1, <2>2 DEF SessionCounts, IsLast
<1>3. QED
  BY <1>1, <1>2, CandidateKinds

(* One more message m in the network, beyond all of its chain.             *)
LEMMA MoreSent ==
  ASSUME NEW net, NEW m, NEW key, NEW k
  PROVE  LET more == net \cup {m}
         IN  /\ SentTo(net, key, k) => SentTo(more, key, k)
             /\ key # m.ephemeral /\ AllTo(net, key, k) => AllTo(more, key, k)
             /\ key # m.ephemeral /\ IsLast(net, key, k) => IsLast(more, key, k)
<1>1. PICK more : more = net \cup {m}
  OBVIOUS
<1>2. SentTo(net, key, k) => SentTo(more, key, k)
  BY <1>1 DEF SentTo
<1>3. key # m.ephemeral /\ AllTo(net, key, k) => AllTo(more, key, k)
  BY <1>1 DEF AllTo
<1>4. key # m.ephemeral /\ IsLast(net, key, k) => IsLast(more, key, k)
  BY <1>1, <1>2, <1>3 DEF IsLast
<1>5. QED
  BY <1>1, <1>2, <1>3, <1>4

LEMMA MoreCounts ==
  ASSUME NEW net \in SUBSET Message, NEW got, NEW c \in Chain, ChainCounts(net, got, c),
         NEW m \in Message, NEW more, more = net \cup {m},
         c.key = m.ephemeral => c.open /\ c.counter < m.counter
  PROVE  ChainCounts(more, got, c)
<1>1. c.counter >= 0 => SentTo(more, c.key, c.counter)
  BY MoreSent DEF ChainCounts
<1>2. ~c.open => AllTo(more, c.key, c.counter)
  BY MoreSent DEF ChainCounts
<1>3. c.type = "RECEIVING" => AreSettled(more, got, c)
  <2>1. m.ephemeral = c.key => ~(m.counter <= c.counter)
    BY DEF Message, Chain
  <2>2. QED
    BY <2>1 DEF ChainCounts, AreSettled
<1>4. QED
  BY <1>1, <1>2, <1>3 DEF ChainCounts

LEMMA CountsEncrypt ==
  ASSUME CountsInv, LimitsInv', NEW p \in Parties, Encrypt(p)
  PROVE  CountsInv'
<1>1. PICK s, c, m : Sends(p, s, c, m)
  BY EncryptSends
<1>2. LineInv /\ Inv /\ network \in SUBSET Message
  BY DEF CountsInv, LimitsInv, LineInv, Inv, TypeOK
<1>3. /\ s \in Session /\ c \in Chain /\ m \in Message /\ SessionInv(s, Used(p))
      /\ m.from = p /\ m.ephemeral = s.ephemeral /\ m.counter = c.counter + 1
      /\ m.previousCounter = s.previousCounter
  BY <1>1, <1>2, SendsFacts
<1>4. /\ s \in session[p] /\ c \in s.chains /\ c.key = s.ephemeral /\ c.type = "SENDING"
      /\ network' = network \cup {m} /\ delivered' = delivered
  BY <1>1 DEF Sends
<1>5. /\ PlaceInv(p, s) /\ NoneAhead(p, s, network)
      /\ SessionCounts(p, s, network, delivered[p])
  BY <1>2, <1>4 DEF LineInv, CountsInv
<1>6. s.ephemeral \in PublicKey /\ s.ephemeral[1] = p /\ s.ephemeral[2] \in Nat
  BY <1>3, <1>5, PlaceFacts
<1>7. PICK more : more = network \cup {m}
  OBVIOUS
<1>8. c.counter < m.counter /\ c.counter \in Counters
  BY <1>3 DEF Chain, Counters
<1>9. AllTo(network, m.ephemeral, c.counter)
  BY <1>3, <1>4, <1>5 DEF NoneAhead
<1>10. ASSUME NEW n \in more
       PROVE  MessageCounts(more, n)
  <2>1. CASE n \in network
    <3>1. MessageCounts(network, n) /\ n \in Message /\ MessageInv(n)
      BY <1>2, <2>1 DEF CountsInv, LineInv
    <3>2. \A k \in 0..n.counter : SentTo(more, n.ephemeral, k)
      BY <1>7, <3>1, MoreSent DEF MessageCounts
    <3>3. <<n.from, n.ephemeral[2] - 1>> # m.ephemeral
      <4>1. n.from = p => n.ephemeral[2] <= s.ephemeral[2]
        BY <1>5, <2>1 DEF NoneAhead
      <4>2. n.ephemeral[2] \in Nat
        BY <3>1 DEF Message, PublicKey
      <4>3. QED
        BY <1>3, <1>6, <4>1, <4>2
    <3>4. IsLast(more, <<n.from, n.ephemeral[2] - 1>>, n.previousCounter)
      BY <1>7, <3>1, <3>3, MoreSent DEF MessageCounts
    <3>5. QED
      BY <3>2, <3>4 DEF MessageCounts
  <2>2. CASE n = m
    <3>1. ASSUME NEW k \in 0..m.counter
          PROVE  SentTo(more, m.ephemeral, k)
      <4>1. CASE k = m.counter
        BY <1>7, <4>1 DEF SentTo
      <4>2. CASE k # m.counter
        <5>1. k \in 0..c.counter /\ c.counter >= 0
          BY <1>3, <1>8, <4>2 DEF Counters
        <5>2. PICK x \in network : x.ephemeral = m.ephemeral /\ x.counter = c.counter
          BY <1>3, <1>4, <1>5, <5>1 DEF SessionCounts, ChainCounts, SentTo
        <5>3. SentTo(network, m.ephemeral, k)
          BY <5>1, <5>2 DEF CountsInv, MessageCounts
        <5>4. QED
          BY <1>7, <5>3, MoreSent
      <4>3. QED
        BY <4>1, <4>2
    <3>2. <<m.from, m.ephemeral[2] - 1>> # m.ephemeral
      BY <1>3, <1>6
    <3>3. IsLast(network, <<m.from, m.ephemeral[2] - 1>>, m.previousCounter)
      BY <1>3, <1>5 DEF SessionCounts
    <3>4. IsLast(more, <<m.from, m.ephemeral[2] - 1>>, m.previousCounter)
      BY <1>7, <3>2, <3>3, MoreSent
    <3>5. QED
      BY <2>2, <3>1, <3>4 DEF MessageCounts
  <2>3. QED
    BY <1>7, <2>1, <2>2
<1>11. ASSUME NEW q \in Parties, NEW t \in session'[q]
       PROVE  SessionCounts(q, t, more, delivered[q])
  <2>1. CASE q = p
    <3>1. PICK u : u = SessionAfterSealing(s, c)
      OBVIOUS
    <3>2. PICK d : d = Moved(c)
      OBVIOUS
    <3>3. t = u
      <4>1. session'[q] = {SessionAfterSealing(s, c)}
        BY <1>1, <1>2, <2>1, SendsSession
      <4>2. QED
        BY <1>11, <3>1, <4>1
    <3>4. /\ u.ephemeral = s.ephemeral /\ u.lastRemote = s.lastRemote
          /\ u.previousCounter = s.previousCounter /\ u.chains = (s.chains \ {c}) \cup {d}
      BY <1>3, <3>1, <3>2, SealResult
    <3>5. IsSending(s, c)
      BY <1>4, <1>5 DEF PlaceInv, ChainInv, IsReceiving
    <3>6. /\ d.key = m.ephemeral /\ d.type = "SENDING" /\ d.open /\ d.counter = m.counter
      BY <1>3, <1>4, <3>2, <3>5, MovedFields DEF IsSending
    <3>7. ChainCounts(more, delivered[p], d)
      BY <1>7, <3>6 DEF ChainCounts, SentTo
    <3>8. ASSUME NEW e \in s.chains, e # c
          PROVE  ChainCounts(more, delivered[p], e)
      <4>1. e.key # m.ephemeral
        BY <1>3, <1>4, <1>5, <3>8, OneSender
      <4>2. e \in Chain /\ ChainCounts(network, delivered[p], e)
        BY <1>3, <1>5 DEF Session, SessionCounts
      <4>3. QED
        BY <1>2, <1>3, <1>7, <4>1, <4>2, MoreCounts
    <3>9. <<p, s.ephemeral[2] - 1>> # m.ephemeral
      BY <1>3, <1>6
    <3>10. IsLast(more, <<p, s.ephemeral[2] - 1>>, s.previousCounter)
      BY <1>5, <1>7, <3>9, MoreSent DEF SessionCounts
    <3>11. SessionCounts(p, u, more, delivered[p])
      BY <1>5, <1>7, <3>4, <3>7, <3>8, <3>10 DEF SessionCounts
    <3>12. QED
      BY <2>1, <3>3, <3>11
  <2>2. CASE q # p
    <3>1. t \in session[q]
      BY <1>1, <1>2, <1>11, <2>2, SendsSession
    <3>2. /\ PlaceInv(q, t) /\ t \in Session /\ SessionCounts(q, t, network, delivered[q])
      BY <1>2, <3>1 DEF LineInv, Inv, SessionInv, CountsInv
    <3>3. t.ephemeral[1] = q /\ t.lastRemote[2] \in Nat
      BY <3>2, PlaceFacts
    <3>4. ASSUME NEW e \in t.chains
          PROVE  ChainCounts(more, delivered[q], e)
      <4>1. e \in Chain /\ ChainCounts(network, delivered[q], e) /\ ChainInv(q, t, e)
        BY <3>2 DEF Session, SessionCounts, PlaceInv
      <4>2. ASSUME e.key = m.ephemeral
            PROVE  e.open /\ e.counter < m.counter
        <5>1. IsReceiving(q, t, e)
          BY <1>3, <1>6, <2>2, <3>3, <4>1, <4>2 DEF ChainInv, IsSending
        <5>2. e.key = t.lastRemote
          <6>1. /\ e.key[2] <= t.lastRemote[2] /\ e.key[2] >= 1 /\ e.key[2] \in Nat
                /\ e.key = <<Peer(q), e.key[2]>>
            BY <4>1, <5>1 DEF ChainInv, IsReceiving, Chain, PublicKey
          <6>2. PICK n \in network : n.ephemeral = t.lastRemote
            BY <3>2, <3>3, <6>1 DEF SessionCounts
          <6>3. n.from = p
            <7>1. t.lastRemote[1] = e.key[1]
              BY <3>2, <5>1 DEF PlaceInv, IsReceiving
            <7>2. QED
              BY <1>2, <1>3, <1>6, <4>2, <6>2, <7>1 DEF LineInv, MessageInv
          <6>4. t.lastRemote[2] <= e.key[2]
            BY <1>3, <1>5, <4>2, <6>2, <6>3 DEF NoneAhead
          <6>5. t.lastRemote = <<Peer(q), t.lastRemote[2]>>
            BY <3>2, PlaceFacts
          <6>6. e.key[2] = t.lastRemote[2]
            BY <3>3, <6>1, <6>4
          <6>7. QED
            BY <6>1, <6>5, <6>6
        <5>3. e.open
          BY <5>1, <5>2 DEF IsReceiving
        <5>4. e.counter < m.counter
          <6>1. e.counter \in Counters /\ m.counter \in Nat
            BY <1>3, <4>1 DEF Chain, Message, Counters
          <6>2. CASE e.counter >= 0
            <7>1. SentTo(network, m.ephemeral, e.counter)
              BY <4>1, <4>2, <6>2 DEF ChainCounts
            <7>2. e.counter <= c.counter
              BY <1>9, <7>1 DEF SentTo, AllTo
            <7>3. QED
              BY <1>8, <6>1, <7>2 DEF Counters
          <6>3. QED
            BY <6>1, <6>2 DEF Counters
        <5>5. QED
          BY <5>3, <5>4
      <4>3. QED
        BY <1>2, <1>3, <1>7, <4>1, <4>2, MoreCounts
    <3>5. <<q, t.ephemeral[2] - 1>> # m.ephemeral
      BY <1>3, <1>6, <2>2
    <3>6. IsLast(more, <<q, t.ephemeral[2] - 1>>, t.previousCounter)
      BY <1>7, <3>2, <3>5, MoreSent DEF SessionCounts
    <3>7. QED
      BY <1>7, <3>2, <3>4, <3>6 DEF SessionCounts
  <2>3. QED
    BY <2>1, <2>2
<1>12. QED
  BY <1>4, <1>7, <1>10, <1>11 DEF CountsInv

LEMMA CountsDecrypt ==
  ASSUME CountsInv, LimitsInv', NEW p \in Parties, NEW s, NEW m, Opens(p, s, m)
  PROVE  CountsInv'
<1>1. /\ s \in Candidates(p, m) /\ m \in network /\ DoDecryptSucceeds(s, m)
      /\ session' = [session EXCEPT ![p] = {DoDecrypt(s, m)}]
      /\ delivered' = [delivered EXCEPT ![p] = @ \cup {m}] /\ network' = network
  BY DEF Opens
<1>2. LimitsInv /\ LineInv /\ Inv /\ network \in SUBSET Message
  BY DEF CountsInv, LimitsInv, LineInv, Inv, TypeOK
<1>3. /\ SessionInv(s, Used(p)) /\ PlaceInv(p, s) /\ NoneAhead(p, s, network)
      /\ LimitInv(p, s) /\ SessionCounts(p, s, network, delivered[p])
  BY <1>1, <1>2, CandidateLine, CandidateLimits, CandidateCounts
<1>4. Used(p) \in SUBSET Message /\ MessageInv(m) /\ MessageCounts(network, m)
  BY <1>1, <1>2, UsedType DEF LineInv, Inv, CountsInv
<1>5. IsNextKey(p, s, m.ephemeral) => IsLast(network, s.ephemeral, LastSentCounter(s))
  BY <1>1, <1>3, LastSentIsLast
<1>6. \A x \in network : x.ephemeral = m.ephemeral /\ x.counter = m.counter => x = m
  BY <1>1, <1>2 DEF LineInv
<1>7. PICK all : all = delivered[p] \cup {m}
  OBVIOUS
<1>8. SessionCounts(p, DoDecrypt(s, m), network, all)
  <2>1. delivered[p] \subseteq all /\ m \in all
    BY <1>7
  <2>2. PICK got : got = delivered[p]
    OBVIOUS
  <2>3. got \subseteq all /\ SessionCounts(p, s, network, got)
    BY <1>3, <2>1, <2>2
  <2>4. QED
    BY <1>1, <1>2, <1>3, <1>4, <1>5, <1>6, <2>1, <2>3, DecryptCounts
<1>9. \A q \in Parties : /\ session'[q] = IF q = p THEN {DoDecrypt(s, m)} ELSE session[q]
                         /\ delivered'[q] = IF q = p THEN all ELSE delivered[q]
  BY <1>1, <1>2, <1>7 DEF Inv, TypeOK
<1>10. \A q \in Parties : \A t \in session'[q] : SessionCounts(q, t, network, delivered'[q])
  BY <1>8, <1>9 DEF CountsInv
<1>11. QED
  BY <1>1, <1>10 DEF CountsInv

LEMMA CountsInitOutgoing ==
  ASSUME CountsInv, LimitsInv', InitOutgoing
  PROVE  CountsInv'
<1>1. Inv /\ LineInv /\ network' = network /\ delivered' = delivered
  BY DEF CountsInv, LimitsInv, LineInv, InitOutgoing
<1>2. \A q \in Parties : session'[q] =
                           IF q = Initiator THEN {OutgoingSession} ELSE session[q]
  BY <1>1 DEF Inv, TypeOK, InitOutgoing, Parties
<1>3. PICK s : s = OutgoingSession
  OBVIOUS
<1>4. /\ s.ephemeral[2] = 1 /\ s.lastRemote[2] = 0 /\ s.previousCounter = 0
      /\ \A c \in s.chains : c.type = "SENDING" /\ c.counter = -1 /\ c.open = TRUE
  BY <1>3 DEF OutgoingSession, NextKeyPair, BaseKey, SignedPreKey, NewChain
<1>5. \A n \in network : n.ephemeral # <<Initiator, s.ephemeral[2] - 1>>
  BY <1>1, <1>4 DEF LineInv, MessageInv
<1>6. SessionCounts(Initiator, s, network, delivered[Initiator])
  BY <1>4, <1>5 DEF SessionCounts, IsLast, ChainCounts
<1>7. \A q \in Parties : \A t \in session'[q] : SessionCounts(q, t, network, delivered[q])
  BY <1>2, <1>3, <1>6 DEF CountsInv
<1>8. QED
  BY <1>1, <1>7 DEF CountsInv

LEMMA CountsStep == CountsInv /\ [Next]_vars => CountsInv'
<1> SUFFICES ASSUME CountsInv, [Next]_vars
             PROVE  CountsInv'
  OBVIOUS
<1>1. LimitsInv'
  BY LimitsStep DEF CountsInv
<1>2. CASE InitOutgoing
  BY <1>1, <1>2, CountsInitOutgoing
<1>3. CASE \E p \in Parties : Encrypt(p)
  BY <1>1, <1>3, CountsEncrypt
<1>4. CASE UNCHANGED vars
  BY <1>1, <1>4 DEF vars, CountsInv
<1>5. CASE \E p \in Parties : \E m \in network : Receive(p, m)
  <2>1. PICK p \in Parties, m \in network : Receive(p, m)
    BY <1>5
  <2>2. CASE DecryptWhisperMessage(p, m) \/ DecryptPreKeyWhisperMessage(p, m)
    <3>1. PICK s : Opens(p, s, m)
      BY <2>2, DecryptOpens
    <3>2. QED
      BY <1>1, <3>1, CountsDecrypt
  <2>3. CASE RejectMessage(p, m)
    BY <1>4, <2>3 DEF RejectMessage
  <2>4. QED
    BY <2>1, <2>2, <2>3 DEF Receive
<1>6. QED
  BY <1>2, <1>3, <1>4, <1>5 DEF Next

(* Each receiving chain stands at a message that was sent on it, and every  *)
(* message it has passed was returned, or its key is kept or was pruned;    *)
(* a chain is closed only at the last message of its key pair.             *)
THEOREM CountsInvHolds == Spec => []CountsInv
<1>1. Init => LimitsInv
  BY LineInit DEF Init, LimitsInv
<1>2. Init => CountsInv
  BY <1>1 DEF Init, CountsInv
<1>3. QED
  BY <1>2, CountsStep, PTL DEF Spec

(* The previousCounter of a message is the last counter its sender used on  *)
(* the chain before, or 0 when it sent nothing there, so a receiver fills   *)
(* the chain it closes exactly to its end (calculateRatchet, maybeStepRatchet). *)
THEOREM PreviousCounterIsLastHolds == Spec => []PreviousCounterIsLast
<1>1. CountsInv => PreviousCounterIsLast
  <2> SUFFICES ASSUME CountsInv, NEW m \in network
               PROVE  LET before == {n \in network : n.from = m.from
                                       /\ n.ephemeral[2] = m.ephemeral[2] - 1}
                      IN  IF before = {} THEN m.previousCounter = 0
                          ELSE /\ \E n \in before : n.counter = m.previousCounter
                               /\ \A n \in before : n.counter <= m.previousCounter
    BY DEF PreviousCounterIsLast
  <2>1. PICK before : before = {n \in network : n.from = m.from
                                  /\ n.ephemeral[2] = m.ephemeral[2] - 1}
    OBVIOUS
  <2>2. PICK key : key = <<m.from, m.ephemeral[2] - 1>>
    OBVIOUS
  <2>3. \A n \in network : n \in before <=> n.ephemeral = key
    <3>1. \A n \in network : n.ephemeral[1] = n.from /\ n.ephemeral = <<n.ephemeral[1], n.ephemeral[2]>>
      BY DEF CountsInv, LimitsInv, LineInv, Inv, TypeOK, MessageInv, Message, PublicKey
    <3>2. QED
      BY <2>1, <2>2, <3>1
  <2>4. before \subseteq network
    BY <2>1
  <2>5. IsLast(network, key, m.previousCounter)
    BY <2>2 DEF CountsInv, MessageCounts
  <2>6. IF before = {} THEN m.previousCounter = 0
        ELSE /\ \E n \in before : n.counter = m.previousCounter
             /\ \A n \in before : n.counter <= m.previousCounter
    BY <2>3, <2>4, <2>5 DEF IsLast, SentTo, AllTo
  <2>7. QED
    BY <2>1, <2>6
<1>2. QED
  BY <1>1, CountsInvHolds, PTL

(* A skipped message key in a record is the key of a message that was sent  *)
(* and has not arrived: the receiver never runs ahead of the sender.       *)
THEOREM SkippedKeysAwaitMessagesHolds == Spec => []SkippedKeysAwaitMessages
<1>1. CountsInv => SkippedKeysAwaitMessages
  <2> SUFFICES ASSUME CountsInv, NEW p \in Parties, NEW s \in session[p],
                      NEW c \in s.chains, NEW k \in c.messageKeys
               PROVE  \E m \in network \ delivered[p] : m.seed = c.seed /\ m.counter = k
    BY DEF SkippedKeysAwaitMessages
  <2>1. /\ SessionInv(s, Used(p)) /\ PlaceInv(p, s)
        /\ SessionCounts(p, s, network, delivered[p])
        /\ \A m \in network : m \in Message /\ MessageInv(m)
    BY DEF CountsInv, LimitsInv, LineInv, Inv, TypeOK
  <2>2. c \in Chain /\ k \in Nat /\ k <= c.counter
    BY <2>1 DEF SessionInv, Session, Chain
  <2>3. PICK x \in network : x.ephemeral = c.key /\ x.counter = c.counter
    BY <2>1, <2>2 DEF SessionCounts, ChainCounts, SentTo, Chain
  <2>4. k \in 0..x.counter
    BY <2>1, <2>2, <2>3 DEF Chain
  <2>5. PICK m \in network : m.ephemeral = c.key /\ m.counter = k
    BY <2>3, <2>4 DEF CountsInv, MessageCounts, SentTo
  <2>6. m.seed = c.seed
    BY <2>1, <2>5 DEF MessageInv, PlaceInv, ChainInv
  <2>7. m \notin delivered[p]
    BY <2>1, <2>5, <2>6 DEF SessionInv, Used
  <2>8. QED
    BY <2>5, <2>6, <2>7
<1>2. QED
  BY <1>1, CountsInvHolds, PTL

------------------------------------------------------------------------------
(* Opening: a message finds a session to be tried on.                      *)

OpeningInv ==
  /\ session[Responder] = {} => preKeys = {Responder}
  /\ session[Responder] # {} => session[Initiator] # {}
  /\ \A s \in session[Responder] : ~s.pendingPreKey
  /\ \A s \in session[Initiator] : ~s.pendingPreKey => session[Responder] # {}
  /\ \A m \in network : /\ m.preKey => m.from = Initiator
                        /\ ~m.preKey => session[Responder] # {}

FlightInv == CountsInv /\ OpeningInv

(* A session of p opens only what the peer sent.                           *)
LEMMA OpensOfThePeer ==
  ASSUME LineInv, NEW p \in Parties, NEW s, NEW m, Opens(p, s, m)
  PROVE  /\ m.from = Peer(p) /\ session[Peer(p)] # {} /\ Peer(p) \in Parties
         /\ DoDecrypt(s, m).pendingPreKey = FALSE /\ network' = network
<1>1. /\ s \in Candidates(p, m) /\ m \in network /\ DoDecryptSucceeds(s, m)
      /\ session' = [session EXCEPT ![p] = {DoDecrypt(s, m)}] /\ network' = network
  BY DEF Opens
<1>2. Inv /\ SessionInv(s, Used(p)) /\ PlaceInv(p, s)
  BY <1>1, CandidateLine DEF LineInv
<1>3. Used(p) \in SUBSET Message /\ m \in Message /\ MessageInv(m)
  BY <1>1, <1>2, UsedType DEF LineInv, Inv, TypeOK
<1>4. m.from = Peer(p)
  BY <1>1, <1>2, <1>3, DecryptKinds DEF MessageInv
<1>5. DoDecrypt(s, m).pendingPreKey = FALSE
  BY <1>1, <1>2, <1>3, DecryptResult
<1>6. Peer(p) \in Parties
  BY DEF Peer, Parties
<1>7. session[Peer(p)] # {}
  <2>1. m \in Used(Peer(p))
    BY <1>1, <1>4 DEF Used, Sent
  <2>2. QED
    BY <1>2, <1>6, <2>1 DEF Inv
<1>8. QED
  BY <1>1, <1>4, <1>5, <1>6, <1>7

LEMMA OpeningStep == LineInv /\ OpeningInv /\ [Next]_vars => OpeningInv'
<1> SUFFICES ASSUME LineInv, OpeningInv, [Next]_vars
             PROVE  OpeningInv'
  OBVIOUS
<1>1. /\ Inv /\ Initiator # Responder /\ Initiator \in Parties /\ Responder \in Parties
      /\ session \in [Parties -> SUBSET Session]
  BY PartiesAssumption DEF LineInv, Inv, TypeOK, Parties
<1>2. CASE InitOutgoing
  <2>1. /\ session'[Responder] = session[Responder]
        /\ session'[Initiator] = {OutgoingSession}
        /\ preKeys' = preKeys /\ network' = network
    BY <1>1, <1>2 DEF InitOutgoing
  <2>2. OutgoingSession.pendingPreKey = TRUE
    BY DEF OutgoingSession
  <2>3. QED
    BY <2>1, <2>2 DEF OpeningInv
<1>3. CASE \E p \in Parties : Encrypt(p)
  <2>1. PICK p \in Parties : Encrypt(p)
    BY <1>3
  <2>2. PICK s, c, m : Sends(p, s, c, m)
    BY <2>1, EncryptSends
  <2>3. PICK u : u = SessionAfterSealing(s, c)
    OBVIOUS
  <2>4. /\ s \in session[p] /\ network' = network \cup {m} /\ preKeys' = preKeys
        /\ s \in Session /\ m.from = p /\ m.preKey = s.pendingPreKey
    <3>1. s \in session[p] /\ network' = network \cup {m} /\ preKeys' = preKeys
      BY <2>2 DEF Sends
    <3>2. s \in Session /\ m.from = p /\ m.preKey = s.pendingPreKey
      BY <1>1, <2>2, SendsFacts
    <3>3. QED
      BY <3>1, <3>2, Zenon
  <2>5. u.pendingPreKey = s.pendingPreKey
    BY <2>3, <2>4, SealResult
  <2>6. \A q \in Parties : session'[q] = IF q = p THEN {u} ELSE session[q]
    BY <1>1, <2>2, <2>3, SendsSession
  <2>7. CASE p = Initiator
    <3>1. session'[Responder] = session[Responder] /\ session'[Initiator] = {u}
      BY <1>1, <2>6, <2>7
    <3>2. ~s.pendingPreKey => session[Responder] # {}
      BY <2>4, <2>7 DEF OpeningInv
    <3>3. QED
      BY <2>4, <2>5, <2>7, <3>1, <3>2 DEF OpeningInv
  <2>8. CASE p = Responder
    <3>1. session'[Responder] = {u} /\ session'[Initiator] = session[Initiator]
      BY <1>1, <2>6, <2>8
    <3>2. ~s.pendingPreKey /\ session[Initiator] # {}
      BY <2>4, <2>8 DEF OpeningInv
    <3>3. QED
      BY <2>4, <2>5, <2>8, <3>1, <3>2 DEF OpeningInv
  <2>9. QED
    BY <2>7, <2>8 DEF Parties
<1>4. CASE UNCHANGED vars
  BY <1>4 DEF vars, OpeningInv
<1>5. CASE \E p \in Parties : \E m \in network : Receive(p, m)
  <2>1. PICK p \in Parties, m \in network : Receive(p, m)
    BY <1>5
  <2>2. CASE DecryptWhisperMessage(p, m) \/ DecryptPreKeyWhisperMessage(p, m)
    <3>1. PICK s : Opens(p, s, m)
      BY <2>2, DecryptOpens
    <3>2. PICK u : u = DoDecrypt(s, m)
      OBVIOUS
    <3>3. /\ session[Peer(p)] # {} /\ network' = network /\ ~u.pendingPreKey
          /\ \A q \in Parties : session'[q] = IF q = p THEN {u} ELSE session[q]
      <4>1. /\ session[Peer(p)] # {} /\ network' = network /\ u.pendingPreKey = FALSE
            /\ session' = [session EXCEPT ![p] = {u}]
        <5>1. LineInv /\ p \in Parties /\ Opens(p, s, m)
          BY <3>1
        <5>2. session[Peer(p)] # {} /\ network' = network /\ DoDecrypt(s, m).pendingPreKey = FALSE
          BY <5>1, OpensOfThePeer
        <5>3. session' = [session EXCEPT ![p] = {u}]
          BY <3>1, <3>2 DEF Opens
        <5>4. QED
          BY <3>2, <5>2, <5>3, Zenon
      <4>2. \A q \in Parties : session'[q] = IF q = p THEN {u} ELSE session[q]
        BY <1>1, <4>1
      <4>3. QED
        BY <4>1, <4>2, Zenon
    <3>4. session'[Responder] # {} /\ session'[Initiator] # {}
      BY <1>1, <3>3 DEF Peer, Parties
    <3>5. \A t \in session'[Responder] : ~t.pendingPreKey
      BY <1>1, <3>3 DEF OpeningInv
    <3>6. QED
      BY <3>3, <3>4, <3>5 DEF OpeningInv
  <2>3. CASE RejectMessage(p, m)
    BY <1>4, <2>3 DEF RejectMessage
  <2>4. QED
    BY <2>1, <2>2, <2>3 DEF Receive
<1>6. QED
  BY <1>2, <1>3, <1>4, <1>5 DEF Next

(* A message of the peer that has not been decrypted finds a session.      *)
LEMMA HasCandidate ==
  ASSUME Inv, OpeningInv, NEW p \in Parties, NEW m \in network, m.from = Peer(p)
  PROVE  Candidates(p, m) # {}
<1>1. CASE p = Initiator
  <2>1. m.from = Responder /\ m \in Used(Responder)
    BY <1>1 DEF Peer, Used, Sent
  <2>2. session[Responder] # {} /\ ~m.preKey
    BY <2>1, PartiesAssumption DEF Inv, OpeningInv, Parties
  <2>3. QED
    BY <1>1, <2>2 DEF OpeningInv, Candidates
<1>2. CASE p = Responder
  <2>1. CASE session[Responder] # {}
    BY <1>2, <2>1, PartiesAssumption DEF Candidates, SessionsForPreKeyMessage
  <2>2. CASE session[Responder] = {}
    BY <1>2, <2>2, PartiesAssumption DEF OpeningInv, Candidates, SessionsForPreKeyMessage
  <2>3. QED
    BY <2>1, <2>2
<1>3. QED
  BY <1>1, <1>2 DEF Parties

(* The key of a message in flight is on its chain or can be filled.        *)
LEMMA KeyOnChain ==
  ASSUME NEW net \in SUBSET Message, NEW got, NEW c \in Chain, ChainCounts(net, got, c),
         \A k \in c.messageKeys : k <= c.counter,
         Cardinality(c.messageKeys) <= MaxMessageKeys, c.type = "RECEIVING",
         NEW m \in net, m.ephemeral = c.key, m \notin got,
         ~(m.counter + MaxMessageKeys <= c.counter), ~(m.counter - c.counter > MaxFuture)
  PROVE  CanFill(c, m.counter) /\ m.counter \in FillMessageKeys(c, m.counter).messageKeys
<1>1. PICK f : f = FillMessageKeys(c, m.counter)
  OBVIOUS
<1>2. /\ m.counter \in Nat /\ m.counter \in Counters /\ c.counter \in Counters
      /\ MaxMessageKeys \in Nat /\ MaxMessageKeys >= 1 /\ MaxFuture \in Nat
  BY LimitsAssumption DEF Message, Chain, Counters
<1>3. CASE m.counter > c.counter
  <2>1. c.open
    BY <1>2, <1>3 DEF ChainCounts, AllTo, Chain, Counters
  <2>2. CanFill(c, m.counter)
    BY <1>2, <2>1 DEF CanFill, Counters
  <2>3. SentTo(net, c.key, m.counter)
    BY DEF SentTo
  <2>4. m.counter \in f.messageKeys \/ m.counter + MaxMessageKeys <= f.counter
    <3>1. PICK n \in Counters : n = m.counter
      BY <1>2
    <3>2. \A x \in net : x.ephemeral = c.key /\ x.counter <= n /\ x.counter > c.counter =>
            x.counter \in f.messageKeys \/ x.counter + MaxMessageKeys <= f.counter
      BY <1>1, <2>3, <3>1, FillCounts
    <3>3. QED
      BY <1>2, <1>3, <3>1, <3>2
  <2>5. f.counter = m.counter
    BY <1>1, <1>2, <1>3, FillFields
  <2>6. QED
    BY <1>1, <1>2, <2>2, <2>4, <2>5
<1>4. CASE ~(m.counter > c.counter)
  <2>1. CanFill(c, m.counter) /\ f = c
    BY <1>1, <1>4 DEF CanFill, FillMessageKeys
  <2>2. m.counter <= c.counter
    BY <1>2, <1>4 DEF Counters
  <2>3. m.counter \in c.messageKeys
    BY <2>2 DEF ChainCounts, AreSettled
  <2>4. QED
    BY <1>1, <2>1, <2>3
<1>5. QED
  BY <1>3, <1>4

(* The peer is at most one turn ahead: it could take its turn only on a     *)
(* message of p.                                                           *)
LEMMA AtMostOneTurnAhead ==
  ASSUME CountsInv, NEW p \in Parties, NEW s \in Session, PlaceInv(p, s),
         NoneAhead(p, s, network), NEW m \in network, m.from = Peer(p)
  PROVE  m.ephemeral[2] <= s.lastRemote[2] + 1
<1>1. /\ LineInv /\ Inv /\ network \in SUBSET Message
  BY DEF CountsInv, LimitsInv, LineInv, Inv, TypeOK
<1>2. PICK h \in Nat : h = s.lastRemote[2] /\ s.ephemeral = Place(p, h)
  BY PlaceFacts DEF PlaceInv
<1>3. PICK q \in Parties : q = Peer(p) /\ q # p /\ Peer(q) = p
  BY PartiesAssumption DEF Peer, Parties
<1>4. PICK g \in Nat : g = m.ephemeral[2]
  BY <1>1 DEF Message, PublicKey
<1>5. PICK t \in session[q] : TRUE
  <2>1. m \in Used(q)
    BY <1>3 DEF Used, Sent
  <2>2. QED
    BY <1>1, <2>1 DEF Inv
<1>6. /\ PlaceInv(q, t) /\ NoneAhead(q, t, network) /\ t \in Session
      /\ SessionCounts(q, t, network, delivered[q])
  BY <1>1, <1>5 DEF LineInv, Inv, SessionInv, CountsInv
<1>7. PICK y \in Nat : y = t.lastRemote[2]
  BY <1>6, PlaceFacts
<1>8. t.ephemeral = Place(q, y) /\ t.lastRemote = <<p, y>> /\ g <= t.ephemeral[2]
  BY <1>3, <1>4, <1>6, <1>7, PlaceFacts DEF PlaceInv, NoneAhead
<1>9. y = 0 \/ y <= s.ephemeral[2]
  <2>1. ASSUME y >= 1
        PROVE  y <= s.ephemeral[2]
    <3>1. PICK n \in network : n.ephemeral = <<p, y>>
      BY <1>6, <1>7, <1>8, <2>1 DEF SessionCounts
    <3>2. n.from = p /\ n.ephemeral[2] = y
      BY <1>1, <3>1 DEF LineInv, MessageInv
    <3>3. QED
      BY <3>2 DEF NoneAhead
  <2>2. QED
    BY <2>1
<1>10. g <= h + 1
  BY <1>2, <1>3, <1>8, <1>9, PartiesAssumption DEF Place, Peer, Parties
<1>11. QED
  BY <1>2, <1>4, <1>10

(* What may be said of a session that a message in flight is tried on.     *)
TriedOn(p, s, m) ==
  /\ s \in Candidates(p, m) /\ m.from = Peer(p) /\ m \notin delivered[p]
  /\ ~Evicted(s, m) /\ ~Pruned(s, m) /\ ~TooFarAhead(s, m)

LEMMA TriedOnFacts ==
  ASSUME CountsInv, NEW p \in Parties, NEW m \in network, NEW s, TriedOn(p, s, m)
  PROVE  /\ SessionInv(s, Used(p)) /\ PlaceInv(p, s) /\ NoneAhead(p, s, network)
         /\ LimitInv(p, s) /\ SessionCounts(p, s, network, delivered[p])
         /\ s \in Session /\ m \in Message /\ MessageInv(m) /\ MessageCounts(network, m)
         /\ network \in SUBSET Message /\ Used(p) \in SUBSET Message
<1>1. LimitsInv /\ LineInv /\ Inv /\ TypeOK
  BY DEF CountsInv, LimitsInv, LineInv, Inv
<1>2. s \in Candidates(p, m)
  BY DEF TriedOn
<1>3. SessionInv(s, Used(p)) /\ PlaceInv(p, s) /\ NoneAhead(p, s, network) /\ LimitInv(p, s)
  BY <1>1, <1>2, CandidateLine, CandidateLimits
<1>4. SessionCounts(p, s, network, delivered[p])
  BY <1>2, CandidateCounts
<1>5. network \in SUBSET Message /\ Used(p) \in SUBSET Message /\ m \in Message
  BY <1>1, UsedType DEF TypeOK
<1>6. MessageInv(m) /\ MessageCounts(network, m)
  BY <1>1 DEF LineInv, CountsInv
<1>7. s \in Session
  BY <1>3 DEF SessionInv
<1>8. QED
  BY <1>3, <1>4, <1>5, <1>6, <1>7

(* Where the session has a chain of the message.                           *)
LEMMA FlightOnAChain ==
  ASSUME CountsInv, NEW p \in Parties, NEW m \in network, NEW s, TriedOn(p, s, m),
         HasChain(s, m.ephemeral)
  PROVE  DoDecryptSucceeds(s, m)
<1>1. /\ SessionInv(s, Used(p)) /\ PlaceInv(p, s) /\ LimitInv(p, s)
      /\ SessionCounts(p, s, network, delivered[p])
      /\ s \in Session /\ m \in Message /\ MessageInv(m) /\ network \in SUBSET Message
  BY TriedOnFacts
<1>2. PICK c : c = ReceivingChain(s, m)
  OBVIOUS
<1>3. c = GetChain(s, m.ephemeral)
  BY <1>2 DEF ReceivingChain, MaybeStepRatchet
<1>4. c \in s.chains /\ c.key = m.ephemeral /\ c \in Chain
  BY <1>1, <1>3 DEF HasChain, GetChain, ChainsFor, Session
<1>5. c.type = "RECEIVING" /\ c.seed = m.seed
  <2>1. c.key[1] # s.ephemeral[1]
    BY <1>1, <1>4, PlaceFacts DEF TriedOn, MessageInv
  <2>2. QED
    BY <1>1, <1>4, <2>1 DEF PlaceInv, ChainInv, IsSending, IsReceiving, MessageInv
<1>6. ~(m.counter + MaxMessageKeys <= c.counter) /\ ~(m.counter - c.counter > MaxFuture)
  BY <1>3, <1>4 DEF TriedOn, Pruned, TooFarAhead, ChainsFor
<1>7. /\ \A k \in c.messageKeys : k <= c.counter
      /\ Cardinality(c.messageKeys) <= MaxMessageKeys /\ m \notin delivered[p]
  BY <1>1, <1>4 DEF SessionInv, LimitInv, TriedOn
<1>8. ChainCounts(network, delivered[p], c)
  BY <1>1, <1>4 DEF SessionCounts
<1>9. CanFill(c, m.counter) /\ m.counter \in FillMessageKeys(c, m.counter).messageKeys
  BY <1>1, <1>4, <1>5, <1>6, <1>7, <1>8, KeyOnChain
<1>10. FillMessageKeys(c, m.counter).seed = m.seed
  <2>1. m.counter \in Counters
    BY <1>1 DEF Message, Counters
  <2>2. QED
    BY <1>4, <1>5, <2>1, FillFields
<1>11. QED
  BY <1>2, <1>5, <1>9, <1>10 DEF DoDecryptSucceeds, FilledChain

(* Where it has none: the chain is that of the peer's next key.            *)
LEMMA FlightOnANewChain ==
  ASSUME CountsInv, NEW p \in Parties, NEW m \in network, NEW s, TriedOn(p, s, m),
         ~HasChain(s, m.ephemeral)
  PROVE  DoDecryptSucceeds(s, m)
<1>1. /\ SessionInv(s, Used(p)) /\ PlaceInv(p, s) /\ NoneAhead(p, s, network)
      /\ LimitInv(p, s) /\ s \in Session /\ m \in Message /\ MessageInv(m)
      /\ network \in SUBSET Message /\ Used(p) \in SUBSET Message
  BY TriedOnFacts
<1>2. /\ m.ephemeral \in PublicKey /\ m.previousCounter \in Counters /\ m.counter \in Counters
      /\ m.counter \in Nat
  BY <1>1 DEF Message, Counters
<1>3. IsNextKey(p, s, m.ephemeral)
  <2>1. PICK h \in Nat : h = s.lastRemote[2]
    BY <1>1, PlaceFacts
  <2>2. PICK g \in Nat : g = m.ephemeral[2]
    BY <1>2 DEF PublicKey
  <2>3. g >= 1 /\ g <= h + 1 /\ m.ephemeral = <<Peer(p), g>>
    BY <1>1, <1>2, <2>1, <2>2, AtMostOneTurnAhead DEF TriedOn, MessageInv, PublicKey
  <2>4. ~(g <= h)
    <3>1. ASSUME g <= h
          PROVE  g + MaxReceiverChains > h
      BY <2>1, <2>2, LimitsAssumption DEF TriedOn, Evicted
    <3>2. QED
      BY <1>1, <2>1, <2>3, <3>1 DEF LimitInv
  <2>5. QED
    BY <2>1, <2>2, <2>3, <2>4 DEF IsNextKey
<1>4. PICK t : t = MaybeStepRatchet(s, m)
  OBVIOUS
<1>5. t = StepRatchet(s, m.ephemeral, m.previousCounter)
  BY <1>4 DEF MaybeStepRatchet
<1>6. PICK c : c = ReceivingChain(s, m)
  OBVIOUS
<1>7. c \in t.chains /\ c.key = m.ephemeral /\ c \in Chain
  <2>1. HasChain(t, m.ephemeral) /\ c \in Chain
    BY <1>1, <1>4, <1>6, MaybeStepRatchetKeeps, ReceivingChainFacts
  <2>2. c \in t.chains /\ c.key = m.ephemeral
    BY <1>4, <1>6, <2>1 DEF ReceivingChain, HasChain, GetChain, ChainsFor
  <2>3. QED
    BY <2>1, <2>2
<1>8. m.ephemeral[1] # p
  BY <1>1, PlaceFacts DEF TriedOn, MessageInv
<1>9. c = NewReceiver(s, m.ephemeral)
  <2>1. c # NewSender(s, m.ephemeral)
    <3>1. NewSender(s, m.ephemeral).key[1] = p
      BY <1>1, PlaceFacts DEF NewSender, NewChain, NextKeyPair
    <3>2. QED
      BY <1>7, <1>8, <3>1
  <2>2. ASSUME NEW b \in s.chains, c = Closed(s, b, m.previousCounter)
        PROVE  FALSE
    <3>1. c.key = b.key
      BY <1>1, <1>2, <2>2, ClosedFields
    <3>2. QED
      BY <1>7, <3>1 DEF HasChain, ChainsFor
  <2>3. QED
    BY <1>1, <1>5, <1>7, <2>1, <2>2, StepChains
<1>10. /\ c.type = "RECEIVING" /\ c.counter = -1 /\ c.open = TRUE /\ c.messageKeys = {}
       /\ c.seed = RecvRoot(s, m.ephemeral)
  BY <1>9 DEF NewReceiver, NewChain
<1>11. c.seed = m.seed
  BY <1>1, <1>2, <1>3, <1>10, StepRoots DEF MessageInv
<1>12. CanStep(s, m.previousCounter)
  <2>1. ASSUME NEW b \in s.chains, b.key = s.lastRemote
        PROVE  CanFill(b, m.previousCounter)
    <3>1. b.open
      <4>1. s.lastRemote[1] # s.ephemeral[1]
        BY <1>1, PlaceFacts
      <4>2. QED
        BY <1>1, <2>1, <4>1 DEF PlaceInv, ChainInv, IsSending, IsReceiving
    <3>2. b \in Chain
      BY <1>1 DEF Session
    <3>3. ~(m.previousCounter - b.counter > MaxFuture)
      BY <2>1 DEF TriedOn, TooFarAhead, ChainsFor
    <3>4. m.previousCounter - b.counter <= MaxFuture
      BY <1>2, <3>2, <3>3, LimitsAssumption DEF Chain, Counters
    <3>5. QED
      BY <3>1, <3>4 DEF CanFill
  <2>2. QED
    BY <2>1 DEF CanStep, ChainsFor
<1>13. CanFill(c, m.counter) /\ m.counter \in FillMessageKeys(c, m.counter).messageKeys
  <2>1. ChainCounts(network, delivered[p], c)
    <3>1. \A n \in network : ~(n.counter <= c.counter)
      BY <1>1, <1>10 DEF Message
    <3>2. QED
      BY <1>10, <3>1 DEF ChainCounts, AreSettled
  <2>2. /\ \A k \in c.messageKeys : k <= c.counter
        /\ Cardinality(c.messageKeys) <= MaxMessageKeys
    BY <1>10, FS_EmptySet, LimitsAssumption
  <2>3. ~(m.counter + MaxMessageKeys <= c.counter)
    BY <1>2, <1>10, LimitsAssumption
  <2>4. ~(m.counter - c.counter > MaxFuture)
    <3>1. ~(m.counter + 1 > MaxFuture)
      BY DEF TriedOn, TooFarAhead
    <3>2. QED
      BY <1>2, <1>10, <3>1
  <2>5. m \notin delivered[p]
    BY DEF TriedOn
  <2>6. QED
    BY <1>1, <1>7, <1>10, <2>1, <2>2, <2>3, <2>4, <2>5, KeyOnChain
<1>14. FillMessageKeys(c, m.counter).seed = m.seed
  BY <1>2, <1>7, <1>11, FillFields
<1>15. QED
  BY <1>6, <1>10, <1>12, <1>13, <1>14 DEF DoDecryptSucceeds, FilledChain

LEMMA FlightInit == Init => FlightInv
<1>1. Init => CountsInv
  BY LineInit DEF Init, CountsInv, LimitsInv
<1>2. Init => OpeningInv
  BY DEF Init, OpeningInv, Parties
<1>3. QED
  BY <1>1, <1>2 DEF FlightInv

LEMMA FlightStep == FlightInv /\ [Next]_vars => FlightInv'
<1>1. FlightInv => LineInv
  BY DEF FlightInv, CountsInv, LimitsInv
<1>2. QED
  BY <1>1, CountsStep, OpeningStep DEF FlightInv

LEMMA FlightLoses == FlightInv => LossOnlyByLimits
<1> SUFFICES ASSUME FlightInv, NEW p \in Parties, NEW m \in network,
                    m \notin Sent(p), m \notin delivered[p], ~Decryptable(p, m)
             PROVE  \E s \in Candidates(p, m) :
                      Evicted(s, m) \/ Pruned(s, m) \/ TooFarAhead(s, m)
  BY DEF LossOnlyByLimits
<1>1. CountsInv /\ OpeningInv /\ Inv
  BY DEF FlightInv, CountsInv, LimitsInv, LineInv
<1>2. m.from = Peer(p)
  BY <1>1 DEF Sent, Inv, TypeOK, Message, Peer, Parties
<1>3. PICK s \in Candidates(p, m) : TRUE
  BY <1>1, <1>2, HasCandidate
<1>4. ~DoDecryptSucceeds(s, m)
  BY DEF Decryptable
<1>5. ~TriedOn(p, s, m)
  BY <1>1, <1>4, FlightOnAChain, FlightOnANewChain
<1>6. QED
  BY <1>2, <1>5 DEF TriedOn

(* Whatever the order of arrival, a message that was sent and has not been  *)
(* decrypted decrypts when it arrives, unless its chain was evicted, its    *)
(* key was pruned, or it would fill more keys than fillMessageKeys does.    *)
THEOREM LossOnlyByLimitsHolds == Spec => []LossOnlyByLimits
BY FlightInit, FlightStep, FlightLoses, PTL DEF Spec

------------------------------------------------------------------------------
(* Room: with limits no lower than the number of messages nothing is lost. *)

RoomInv ==
  /\ FlightInv
  /\ \A p \in Parties : Cardinality(Sent(p)) <= MaxSends
  /\ \A p \in Parties : \A s \in session[p] : \A j \in 1..s.lastRemote[2] :
       \E m \in network : m.ephemeral = <<Peer(p), j>>

LEMMA RoomStep == RoomInv /\ FlightInv' /\ [Next]_vars => RoomInv'
<1> SUFFICES ASSUME RoomInv, FlightInv', [Next]_vars
             PROVE  RoomInv'
  OBVIOUS
<1>1. /\ CountsInv /\ LineInv /\ Inv /\ IsFiniteSet(network)
      /\ session \in [Parties -> SUBSET Session]
  BY DEF RoomInv, FlightInv, CountsInv, LimitsInv, LineInv, Inv, TypeOK
<1>2. CASE InitOutgoing
  <2>1. \A q \in Parties : session'[q] =
                             IF q = Initiator THEN {OutgoingSession} ELSE session[q]
    BY <1>1, <1>2 DEF InitOutgoing
  <2>2. OutgoingSession.lastRemote[2] = 0
    BY DEF OutgoingSession, SignedPreKey
  <2>3. network' = network /\ \A q \in Parties : Sent(q)' = Sent(q)
    BY <1>2 DEF InitOutgoing, Sent
  <2>4. QED
    BY <2>1, <2>2, <2>3 DEF RoomInv
<1>3. CASE \E p \in Parties : Encrypt(p)
  <2>1. PICK p \in Parties : Encrypt(p)
    BY <1>3
  <2>2. PICK s, c, m : Sends(p, s, c, m)
    BY <2>1, EncryptSends
  <2>3. s \in session[p] /\ s \in Session /\ m.from = p /\ network' = network \cup {m}
    <3>1. s \in session[p] /\ network' = network \cup {m}
      BY <2>2 DEF Sends
    <3>2. s \in Session /\ m.from = p
      BY <1>1, <2>2, SendsFacts
    <3>3. QED
      BY <3>1, <3>2
  <2>4. ASSUME NEW q \in Parties
        PROVE  Cardinality(Sent(q)') <= MaxSends
    <3>1. IsFiniteSet(Sent(q)) /\ Cardinality(Sent(q)) \in Nat
      BY <1>1, SentIsFinite
    <3>2. CASE q = p
      <4>1. PICK S : S = Sent(p) \cup {m}
        OBVIOUS
      <4>2. Sent(q)' = S
        BY <2>3, <3>2, <4>1 DEF Sent
      <4>3. Cardinality(S) <= Cardinality(Sent(p)) + 1 /\ Cardinality(S) \in Nat
        <5>1. PICK R : R = Sent(p)
          OBVIOUS
        <5>2. IsFiniteSet(R) /\ Cardinality(R) \in Nat
          BY <3>1, <3>2, <5>1
        <5>3. S = R \cup {m}
          BY <4>1, <5>1
        <5>4. Cardinality(S) = IF m \in R THEN Cardinality(R) ELSE Cardinality(R) + 1
          BY <5>2, <5>3, FS_AddElement
        <5>5. QED
          BY <5>1, <5>2, <5>4
      <4>4. Cardinality(Sent(p)) < MaxSends
        BY <2>1 DEF Encrypt
      <4>5. QED
        BY <3>1, <3>2, <4>2, <4>3, <4>4, LimitsAssumption
    <3>3. CASE q # p
      <4>1. Sent(q)' = Sent(q)
        BY <2>3, <3>3 DEF Sent
      <4>2. QED
        BY <4>1 DEF RoomInv
    <3>4. QED
      BY <3>2, <3>3
  <2>5. ASSUME NEW q \in Parties, NEW t \in session'[q], NEW j \in 1..t.lastRemote[2]
        PROVE  \E n \in network : n.ephemeral = <<Peer(q), j>>
    <3>1. PICK r \in session[q] : r.lastRemote = t.lastRemote
      <4>1. session'[q] = IF q = p THEN {SessionAfterSealing(s, c)} ELSE session[q]
        BY <1>1, <2>2, SendsSession
      <4>2. SessionAfterSealing(s, c).lastRemote = s.lastRemote
        BY <2>3, SealResult
      <4>3. CASE q = p
        BY <2>3, <2>5, <4>1, <4>2, <4>3
      <4>4. CASE q # p
        BY <2>5, <4>1, <4>4
      <4>5. QED
        BY <4>3, <4>4
    <3>2. j \in 1..r.lastRemote[2]
      BY <3>1
    <3>3. QED
      BY <3>2 DEF RoomInv
  <2>6. QED
    BY <2>3, <2>4, <2>5 DEF RoomInv
<1>4. CASE UNCHANGED vars
  BY <1>4 DEF vars, RoomInv, Sent
<1>5. CASE \E p \in Parties : \E m \in network : Receive(p, m)
  <2>1. PICK p \in Parties, m \in network : Receive(p, m)
    BY <1>5
  <2>2. CASE DecryptWhisperMessage(p, m) \/ DecryptPreKeyWhisperMessage(p, m)
    <3>1. PICK s : Opens(p, s, m)
      BY <2>2, DecryptOpens
    <3>2. PICK u : u = DoDecrypt(s, m)
      OBVIOUS
    <3>3. /\ s \in Candidates(p, m) /\ DoDecryptSucceeds(s, m)
          /\ session' = [session EXCEPT ![p] = {u}] /\ network' = network
      BY <3>1, <3>2 DEF Opens
    <3>4. \A q \in Parties : Sent(q)' = Sent(q)
      BY <3>3 DEF Sent
    <3>5. /\ SessionInv(s, Used(p)) /\ PlaceInv(p, s) /\ Used(p) \in SUBSET Message
          /\ m \in Message /\ MessageInv(m) /\ s \in Session
      BY <1>1, <3>3, CandidateLine, UsedType DEF Inv, TypeOK, LineInv, SessionInv
    <3>6. \A j \in 1..s.lastRemote[2] : \E n \in network : n.ephemeral = <<Peer(p), j>>
      <4>1. CASE s \in session[p]
        BY <4>1 DEF RoomInv
      <4>2. CASE s = IncomingSession
        BY <4>2 DEF IncomingSession, BaseKey
      <4>3. QED
        BY <3>3, <4>1, <4>2, CandidateKinds
    <3>7. ASSUME NEW j \in 1..u.lastRemote[2]
          PROVE  \E n \in network : n.ephemeral = <<Peer(p), j>>
      <4>1. \/ u.lastRemote = s.lastRemote
            \/ u.lastRemote = m.ephemeral /\ IsNextKey(p, s, m.ephemeral)
        <5>1. HasChain(s, m.ephemeral) \/ IsNextKey(p, s, m.ephemeral)
          BY <3>3, <3>5, DecryptKinds
        <5>2. /\ HasChain(s, m.ephemeral) => u.lastRemote = s.lastRemote
              /\ ~HasChain(s, m.ephemeral) => u.lastRemote = m.ephemeral
          BY <3>2, <3>3, <3>5, DecryptTurns
        <5>3. QED
          BY <5>1, <5>2
      <4>2. CASE u.lastRemote = s.lastRemote
        BY <3>6, <3>7, <4>2
      <4>3. CASE u.lastRemote = m.ephemeral /\ IsNextKey(p, s, m.ephemeral)
        <5>1. PICK h \in Nat : h = s.lastRemote[2]
          BY <3>5, PlaceFacts
        <5>2. u.lastRemote[2] = h + 1 /\ m.ephemeral = <<Peer(p), h + 1>>
          BY <3>5, <4>3, <5>1 DEF IsNextKey, Message, PublicKey
        <5>3. j \in 1..h \/ j = h + 1
          BY <3>7, <5>1, <5>2
        <5>4. QED
          BY <3>6, <5>1, <5>2, <5>3
      <4>4. QED
        BY <4>1, <4>2, <4>3
    <3>8. ASSUME NEW q \in Parties, NEW t \in session'[q], NEW j \in 1..t.lastRemote[2]
          PROVE  \E n \in network : n.ephemeral = <<Peer(q), j>>
      <4>1. CASE q = p
        BY <1>1, <3>3, <3>7, <3>8, <4>1
      <4>2. CASE q # p
        BY <1>1, <3>3, <3>8, <4>2 DEF RoomInv
      <4>3. QED
        BY <4>1, <4>2
    <3>9. QED
      BY <3>3, <3>4, <3>8 DEF RoomInv
  <2>3. CASE RejectMessage(p, m)
    BY <1>4, <2>3 DEF RejectMessage
  <2>4. QED
    BY <2>1, <2>2, <2>3 DEF Receive
<1>6. QED
  BY <1>2, <1>3, <1>4, <1>5 DEF Next

(* As many messages as there are numbers that each of one of them has.     *)
LEMMA AtLeastAsMany ==
  ASSUME NEW S, IsFiniteSet(S), NEW n \in Nat, NEW e,
         \A k \in 1..n : \E m \in S : e[m] = k
  PROVE  n <= Cardinality(S)
<1> DEFINE f == [k \in 1..n |-> CHOOSE m \in S : e[m] = k]
<1>1. \A k \in 1..n : f[k] \in S /\ e[f[k]] = k
  OBVIOUS
<1>2. f \in [1..n -> S]
  BY <1>1
<1> HIDE DEF f
<1>3. f \in Injection(1..n, S)
  BY <1>1, <1>2 DEF Injection, IsInjective
<1>4. IsFiniteSet(1..n) /\ Cardinality(1..n) = n
  BY FS_Interval
<1>5. QED
  BY <1>3, <1>4, FS_Injection, FS_CardinalityType

(* No counter and no generation is beyond the number of the messages sent. *)
LEMMA CountersInRoom ==
  ASSUME RoomInv, NEW m \in network
  PROVE  m.counter < MaxSends
<1>1. /\ Inv /\ network \in SUBSET Message /\ IsFiniteSet(network)
      /\ \A n \in network : MessageInv(n)
  BY DEF RoomInv, FlightInv, CountsInv, LimitsInv, LineInv, Inv, TypeOK
<1>2. PICK p \in Parties : p = m.from
  BY <1>1 DEF Message
<1>3. PICK k \in Nat : k = m.counter + 1
  BY <1>1 DEF Message
<1>4. PICK e : e = [n \in network |-> n.counter + 1]
  OBVIOUS
<1>5. ASSUME NEW j \in 1..k
      PROVE  \E n \in Sent(p) : e[n] = j
  <2>1. m.counter \in Nat /\ j - 1 \in 0..m.counter
    BY <1>1, <1>3 DEF Message
  <2>2. PICK n \in network : n.ephemeral = m.ephemeral /\ n.counter = j - 1
    BY <2>1 DEF RoomInv, FlightInv, CountsInv, MessageCounts, SentTo
  <2>3. n \in Sent(p)
    BY <1>1, <1>2, <2>2 DEF MessageInv, Sent
  <2>4. e[n] = j
    BY <1>3, <1>4, <2>2
  <2>5. QED
    BY <2>3, <2>4
<1>6. IsFiniteSet(Sent(p)) /\ Cardinality(Sent(p)) \in Nat
  BY <1>1, SentIsFinite
<1>7. k <= Cardinality(Sent(p)) /\ Cardinality(Sent(p)) <= MaxSends
  BY <1>5, <1>6, AtLeastAsMany DEF RoomInv
<1>8. QED
  BY <1>1, <1>3, <1>6, <1>7, LimitsAssumption DEF Message

LEMMA TurnsInRoom ==
  ASSUME RoomInv, NEW p \in Parties, NEW s \in session[p]
  PROVE  s.lastRemote[2] \in Nat /\ s.lastRemote[2] <= MaxSends
<1>1. /\ Inv /\ network \in SUBSET Message /\ IsFiniteSet(network)
      /\ \A n \in network : MessageInv(n)
      /\ s \in Session /\ PlaceInv(p, s)
  BY DEF RoomInv, FlightInv, CountsInv, LimitsInv, LineInv, Inv, TypeOK
<1>2. PICK h \in Nat : h = s.lastRemote[2]
  BY <1>1, PlaceFacts
<1>3. PICK q \in Parties : q = Peer(p)
  BY DEF Peer, Parties
<1>4. PICK e : e = [n \in network |-> n.ephemeral[2]]
  OBVIOUS
<1>5. ASSUME NEW j \in 1..h
      PROVE  \E n \in Sent(q) : e[n] = j
  <2>1. PICK n \in network : n.ephemeral = <<q, j>>
    BY <1>2, <1>3 DEF RoomInv
  <2>2. n \in Sent(q) /\ e[n] = j
    BY <1>1, <1>4, <2>1 DEF MessageInv, Sent
  <2>3. QED
    BY <2>2
<1>6. IsFiniteSet(Sent(q)) /\ Cardinality(Sent(q)) \in Nat
  BY <1>1, SentIsFinite
<1>7. h <= Cardinality(Sent(q)) /\ Cardinality(Sent(q)) <= MaxSends
  BY <1>5, <1>6, AtLeastAsMany DEF RoomInv
<1>8. QED
  BY <1>2, <1>6, <1>7, LimitsAssumption

(* With limits no lower than the number of messages each end sends, every   *)
(* message in flight decrypts whenever it arrives (the limits 5 and 2000 of *)
(* session-record.ts and session-cipher.ts are the only cause of a loss).  *)
THEOREM NothingIsLostHolds ==
  ASSUME MaxSends <= MaxReceiverChains, MaxSends <= MaxMessageKeys, MaxSends <= MaxFuture
  PROVE  Spec => []NothingIsLost
<1>1. Init => RoomInv
  <2>1. Init => FlightInv
    BY FlightInit
  <2>2. ASSUME Init, NEW p \in Parties
        PROVE  Cardinality(Sent(p)) <= MaxSends
    <3>1. Sent(p) = {}
      BY <2>2 DEF Init, Sent
    <3>2. QED
      BY <3>1, FS_EmptySet, LimitsAssumption
  <2>3. Init => \A p \in Parties : session[p] = {}
    BY DEF Init
  <2>4. QED
    BY <2>1, <2>2, <2>3 DEF RoomInv
<1>2. RoomInv /\ [Next]_vars => RoomInv'
  <2>1. RoomInv => FlightInv
    BY DEF RoomInv
  <2>2. QED
    BY <2>1, FlightStep, RoomStep
<1>3. RoomInv => NothingIsLost
  <2> SUFFICES ASSUME RoomInv, NEW p \in Parties, NEW m \in network,
                      m \notin Sent(p), m \notin delivered[p], ~Decryptable(p, m)
               PROVE  FALSE
    BY DEF NothingIsLost
  <2>1. CountsInv /\ LineInv /\ Inv /\ network \in SUBSET Message
    BY DEF RoomInv, FlightInv, CountsInv, LimitsInv, LineInv, Inv, TypeOK
  <2>2. PICK s \in Candidates(p, m) : Evicted(s, m) \/ Pruned(s, m) \/ TooFarAhead(s, m)
    BY FlightLoses DEF RoomInv, LossOnlyByLimits
  <2>3. /\ SessionInv(s, Used(p)) /\ SessionCounts(p, s, network, delivered[p])
        /\ s \in Session
    BY <2>1, CandidateLine, CandidateCounts DEF SessionInv
  <2>4. /\ MaxSends \in Nat /\ MaxFuture \in Nat /\ MaxMessageKeys \in Nat
        /\ MaxReceiverChains \in Nat
    BY LimitsAssumption
  <2>5. /\ m.counter \in Nat /\ m.counter < MaxSends /\ m.ephemeral[2] \in Nat
        /\ m.ephemeral[2] >= 1
    BY <2>1, CountersInRoom DEF LineInv, MessageInv, Message, PublicKey
  <2>6. \A c \in s.chains : c.counter \in Counters /\ c.counter < MaxSends
    <3>1. ASSUME NEW c \in s.chains
          PROVE  c.counter \in Counters /\ c.counter < MaxSends
      <4>1. c.counter \in Counters
        BY <2>3 DEF Session, Chain, Counters
      <4>2. CASE c.counter >= 0
        <5>1. PICK n \in network : n.counter = c.counter
          BY <2>3, <4>2 DEF SessionCounts, ChainCounts, SentTo
        <5>2. QED
          BY <4>1, <5>1, CountersInRoom
      <4>3. QED
        BY <2>4, <4>1, <4>2 DEF Counters
    <3>2. QED
      BY <3>1
  <2>7. ~Evicted(s, m)
    <3>1. s.lastRemote[2] \in Nat /\ s.lastRemote[2] <= MaxSends
      <4>1. CASE s \in session[p]
        BY <4>1, TurnsInRoom
      <4>2. CASE s = IncomingSession
        <5>1. s.lastRemote[2] = 0
          BY <4>2 DEF IncomingSession, BaseKey
        <5>2. QED
          BY <2>4, <5>1
      <4>3. QED
        BY <4>1, <4>2, CandidateKinds
    <3>2. QED
      BY <2>4, <2>5, <3>1 DEF Evicted
  <2>8. ~Pruned(s, m)
    <3>1. ASSUME NEW c \in s.chains
          PROVE  ~(m.counter + MaxMessageKeys <= c.counter)
      <4>1. c.counter \in Counters /\ c.counter < MaxSends
        BY <2>6
      <4>2. QED
        BY <2>4, <2>5, <4>1 DEF Counters
    <3>2. QED
      BY <3>1 DEF Pruned, ChainsFor
  <2>9. ~TooFarAhead(s, m)
    <3>1. m.counter + 1 <= MaxFuture
      BY <2>4, <2>5
    <3>2. ASSUME NEW n \in Nat, n < MaxSends, NEW c \in s.chains
          PROVE  ~(n - c.counter > MaxFuture)
      <4>1. c.counter \in Counters
        BY <2>6
      <4>2. QED
        BY <2>4, <3>2, <4>1 DEF Counters
    <3>3. HasChain(s, m.ephemeral) => ~TooFarAhead(s, m)
      BY <2>5, <3>2 DEF TooFarAhead, HasChain, GetChain, ChainsFor
    <3>4. m.previousCounter \in Nat /\ m.previousCounter < MaxSends
      <4>1. PICK key : key = <<m.from, m.ephemeral[2] - 1>>
        OBVIOUS
      <4>2. IsLast(network, key, m.previousCounter)
        BY <2>1, <4>1 DEF CountsInv, MessageCounts
      <4>3. CASE \E n \in network : n.ephemeral = key
        <5>1. PICK n \in network : n.counter = m.previousCounter
          BY <4>2, <4>3 DEF IsLast, SentTo
        <5>2. QED
          BY <2>1, <5>1, CountersInRoom DEF Message
      <4>4. CASE ~\E n \in network : n.ephemeral = key
        BY <2>4, <2>5, <4>2, <4>4 DEF IsLast
      <4>5. QED
        BY <4>3, <4>4
    <3>5. ~HasChain(s, m.ephemeral) => ~TooFarAhead(s, m)
      <4>1. ~(m.counter + 1 > MaxFuture)
        BY <2>4, <2>5, <3>1
      <4>2. \A c \in ChainsFor(s, s.lastRemote) : ~(m.previousCounter - c.counter > MaxFuture)
        BY <3>2, <3>4 DEF ChainsFor
      <4>3. QED
        BY <4>1, <4>2 DEF TooFarAhead
    <3>6. QED
      BY <3>3, <3>5
  <2>10. QED
    BY <2>2, <2>7, <2>8, <2>9
<1>4. QED
  BY <1>1, <1>2, <1>3, PTL DEF Spec
================================================================================
