---------------------------- MODULE SecureChannel ----------------------------
(***************************************************************************)
(* What a session promises to the application, without a word about keys:  *)
(* a party hands a message over once, and its peer accepts each message at *)
(* most once, in any order, and only messages that were really sent.  The  *)
(* network may hold back, reorder and repeat as it likes; a repetition is  *)
(* never accepted.  DoubleRatchet implements this specification.           *)
(***************************************************************************)
EXTENDS Naturals

CONSTANTS Parties,    \* the two ends of the session
          Envelopes   \* everything that can travel between them

VARIABLES sentBy,     \* sentBy[p]: the messages p handed to the network
          acceptedBy, \* acceptedBy[p]: the messages p decrypted
          returned    \* returned[p]: how often p was given a plaintext

chVars == <<sentBy, acceptedBy, returned>>

ChInit ==
  /\ sentBy = [p \in Parties |-> {}]
  /\ acceptedBy = [p \in Parties |-> {}]
  /\ returned = [p \in Parties |-> 0]

Send(p) ==
  \E m \in sentBy'[p] :    \* the application's choice of a message
    /\ m \in Envelopes
    /\ \A r \in Parties : m \notin sentBy[r]
    /\ sentBy' = [sentBy EXCEPT ![p] = @ \cup {m}]
    /\ UNCHANGED <<acceptedBy, returned>>

Accept(p, r) ==
  /\ p # r
  /\ \E m \in sentBy[r] \ acceptedBy[p] :
       acceptedBy' = [acceptedBy EXCEPT ![p] = @ \cup {m}]
  /\ returned' = [returned EXCEPT ![p] = @ + 1]
  /\ UNCHANGED sentBy

ChNext ==
  \/ \E p \in Parties : Send(p)
  \/ \E p, r \in Parties : Accept(p, r)

ChSpec == ChInit /\ [][ChNext]_chVars
==============================================================================
