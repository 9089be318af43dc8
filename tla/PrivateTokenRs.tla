---------------------------- MODULE PrivateTokenRs ----------------------------
(***************************************************************************)
(* The private token contract (src/contracts/private_token.rs): a supply   *)
(* with public balances, and a tree of commitments that private transfers  *)
(* extend.  A call is atomic, and one that panics has no effect.           *)
(*                                                                         *)
(* A root is the sequence of the commitments under it, as if the hash were *)
(* injective.  A wallet proves a transfer against the root it sees and     *)
(* submits the proof later, when other transfers may have come in between. *)
(* Nullifier and commitment are independent arguments of the call, and two *)
(* transfers may add the same commitment.                                  *)
(***************************************************************************)
EXTENDS Integers, Sequences, FiniteSets, Functions

CONSTANTS
    TokenHolders,    \* addresses with public balances
    MintAmounts,     \* amounts minted
    Notes,           \* private notes: a transfer spends one, named by its nullifier
    NoteCommitments, \* commitments to the notes transfers create
    TokenWord,       \* 2^128: amounts wrap around
    MaxProofs        \* bound: proofs made

ASSUME TokenHoldersAssumption == IsFiniteSet(TokenHolders)
ASSUME TokenWordAssumption == TokenWord \in Nat \ {0}
ASSUME MintAmountsAssumption == MintAmounts \subseteq 0..(TokenWord - 1)

VARIABLES
    supply,        \* total_supply
    balances,      \* public balances
    merkle_root,
    spent,         \* nullifiers
    proofs,        \* proofs the wallets have made: nullifier, commitment and root
    accepted       \* history: the proofs accepted, one after the other

tokenVars == <<supply, balances, merkle_root, spent, proofs, accepted>>

TokenInit ==
    /\ supply = 0
    /\ balances = [a \in TokenHolders |-> 0]
    /\ merkle_root = <<>>
    /\ spent = {}
    /\ proofs = {}
    /\ accepted = <<>>

\* Fault: the balance is set to the amount.
MintReplaces(to, amount) ==
    /\ supply' = (supply + amount) % TokenWord
    /\ balances' = [balances EXCEPT ![to] = amount]
    /\ UNCHANGED <<merkle_root, spent, proofs, accepted>>

MintToken(to, amount) ==
    /\ supply' = (supply + amount) % TokenWord
    /\ balances' = [balances EXCEPT ![to] = (@ + amount) % TokenWord]
    /\ UNCHANGED <<merkle_root, spent, proofs, accepted>>

\* A wallet's step: the proof holds for these arguments only.
Prove(note, commitment) ==
    /\ Cardinality(proofs) < MaxProofs
    /\ proofs' = proofs \cup {[nullifier |-> note, commitment |-> commitment, root |-> merkle_root]}
    /\ UNCHANGED <<supply, balances, merkle_root, spent, accepted>>

\* Fault: the proof's root is not compared with the current one.
SubmitStale(proof) ==
    /\ proof \in proofs
    /\ proof.nullifier \notin spent
    /\ spent' = spent \cup {proof.nullifier}
    /\ merkle_root' = Append(merkle_root, proof.commitment)
    /\ accepted' = Append(accepted, proof)
    /\ UNCHANGED <<supply, balances, proofs>>

SubmitTransfer(proof) ==
    /\ proof \in proofs
    /\ proof.nullifier \notin spent
    /\ proof.root = merkle_root
    /\ spent' = spent \cup {proof.nullifier}
    /\ merkle_root' = Append(merkle_root, proof.commitment)
    /\ accepted' = Append(accepted, proof)
    /\ UNCHANGED <<supply, balances, proofs>>

TokenNext ==
    \/ \E to \in TokenHolders, amount \in MintAmounts : MintToken(to, amount)
    \/ \E note \in Notes, commitment \in NoteCommitments : Prove(note, commitment)
    \/ \E proof \in proofs : SubmitTransfer(proof)

TokenSpec == TokenInit /\ [][TokenNext]_tokenVars

-----------------------------------------------------------------------------
(* Properties                                                              *)

\* The supply is what the holders have, also after mint has wrapped either
\* around.
SupplyIsHeld == supply = SumFunctionOnSet(balances, TokenHolders) % TokenWord

\* Of the proofs that wallets make at the same time, for one note or against
\* one root, private_transfer accepts at most one, and never one a second
\* time.
AcceptedOnce ==
    \A i, j \in DOMAIN accepted : i # j =>
        /\ accepted[i].nullifier # accepted[j].nullifier
        /\ accepted[i].root # accepted[j].root
=============================================================================
