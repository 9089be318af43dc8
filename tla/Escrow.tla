-------------------------------- MODULE Escrow --------------------------------
(***************************************************************************)
(* What a bridge promises about the tokens it is given, without saying how *)
(* it keeps its books: a claim is opened with its value, it is paid only   *)
(* while it is approved, at most once and never more than its value, and   *)
(* it is approved only by an endorsement that makes a quorum.              *)
(***************************************************************************)
EXTENDS Integers, FiniteSets

CONSTANTS
    Claims,     \* names of claims
    Value,      \* Claims -> Nat
    Endorsers,  \* who may endorse a claim
    Quorums     \* numbers of endorsers that may be asked for

VARIABLES
    vault,      \* the tokens held
    open,       \* the claims that wait for their payment
    approved,   \* the open claims that may be paid
    paid,       \* the claims that were paid
    endorsers,  \* Claims -> those who endorsed it
    quorum      \* the number of endorsers asked for

escrowVars == <<vault, open, approved, paid, endorsers, quorum>>

EscrowInit ==
    /\ vault = 0
    /\ open = {} /\ approved = {} /\ paid = {}
    /\ endorsers = [c \in Claims |-> {}]
    /\ quorum \in Quorums

\* Opening a claim again adds its value again and takes back its approval.
Open(c) ==
    /\ c \notin paid
    /\ vault' = vault + Value[c]
    /\ open' = open \cup {c}
    /\ approved' = approved \ {c}
    /\ UNCHANGED <<paid, endorsers, quorum>>

\* An endorsement approves an open claim if it makes a quorum, and takes an
\* approval back if more endorsers are asked for now.
Endorse(e, c) ==
    /\ c \in open \cup paid
    /\ endorsers' = [endorsers EXCEPT ![c] = @ \cup {e}]
    /\ \/ /\ c \in open
          /\ Cardinality(endorsers'[c]) >= quorum
          /\ approved' = approved \cup {c}
       \/ approved' = approved \ {c}
    /\ UNCHANGED <<vault, open, paid, quorum>>

\* The claim is paid from the vault, or with tokens made elsewhere.
Pay(c) ==
    /\ c \in approved
    /\ vault' \in {vault, vault - Value[c]}
    /\ open' = open \ {c}
    /\ approved' = approved \ {c}
    /\ paid' = paid \cup {c}
    /\ UNCHANGED <<endorsers, quorum>>

ChangeQuorum(n) ==
    /\ quorum' = n
    /\ UNCHANGED <<vault, open, approved, paid, endorsers>>

EscrowNext ==
    \/ \E c \in Claims : Open(c) \/ Pay(c) \/ \E e \in Endorsers : Endorse(e, c)
    \/ \E n \in Quorums : ChangeQuorum(n)

EscrowSpec == EscrowInit /\ [][EscrowNext]_escrowVars
=============================================================================
