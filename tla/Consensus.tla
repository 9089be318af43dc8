------------------------------ MODULE Consensus ------------------------------
(***************************************************************************)
(* One node's consensus engine and its validator set                       *)
(* (src/src/consensus/mod.rs, HotStuffConsensus, ValidatorSet,             *)
(* QuorumCertificate).                                                     *)
(*                                                                         *)
(* The driver of the engine is outside the code modelled here.  It does    *)
(* what the integration test does: submit transactions, propose, validate, *)
(* finalize.  finalize_block itself checks nothing: that only validated    *)
(* blocks reach it is the driver's discipline.  The driver may sign the    *)
(* node's proposals ("Will be signed") and also passes on blocks of other  *)
(* nodes.  Between the validation and the finalization of a block, and     *)
(* between the two locks finalize_block takes one after the other,         *)
(* anything else may happen.                                               *)
(*                                                                         *)
(* A block is its header's fields and its transactions.  root is the set   *)
(* of transactions its Merkle root was computed from.  A signature is the  *)
(* header it was made over and the validator whose key made it; the hash   *)
(* of a header is the header itself, its signature field included, as      *)
(* BlockHeader::hash serializes the whole header.                          *)
(***************************************************************************)
EXTENDS Integers, Sequences, FiniteSets, SequencesExt

CONSTANTS
    Txs,        \* transactions
    Cheap,      \* those whose gas price is below min_gas_price
    Addresses,  \* validator addresses: integers, in the order of addresses
    Me,         \* my_address
    Stakes,     \* stakes a validator may register with
    Received,   \* blocks of other nodes, valid and invalid ones
    BlockLimit, \* transactions propose_block asks the mempool for
    MaxHeight,  \* bound: highest block passed on to the node
    MaxAdds,    \* bound: calls of add_validator
    MaxOpen,    \* bound: blocks validated and not yet finalized entirely
    MaxSigs,    \* bound: signatures of a certificate
    None

ASSUME AddressesAssumption == Addresses \subseteq Nat /\ IsFiniteSet(Addresses)
ASSUME MeAssumption == Me \in Addresses
ASSUME StakesAssumption == Stakes \subseteq Nat
ASSUME BoundsAssumption == MaxHeight \in Nat \ {0} /\ MaxAdds \in Nat /\ MaxSigs \in Nat /\ BlockLimit \in Nat

Heights == 0..MaxHeight
Signature == [by : Addresses,
              over : [height : Heights, root : SUBSET Txs, validator : Addresses, signature : {None}]]
Block == [height : Heights, root : SUBSET Txs, validator : Addresses,
          signature : Signature \cup {None}, txs : SUBSET Txs]

\* What is hashed: every field of the header.
Header(b) == [height |-> b.height, root |-> b.root, validator |-> b.validator, signature |-> b.signature]

Sign(b, a) == [b EXCEPT !.signature = [by |-> a, over |-> Header(b)]]

ASSUME CheapAssumption == Cheap \subseteq Txs
ASSUME ReceivedAssumption == Received \subseteq Block
ASSUME NoneAssumption == None \notin Addresses \cup Stakes /\ None \notin Block

VARIABLES
    validators,     \* Addresses -> stake, or None when not registered
    total_stake,    \* the cached sum
    adds,           \* number of add_validator calls so far
    pool,           \* transactions in the mempool
    current_height, \* read by propose_block and get_latest_height
    blocks,         \* heights -> finalized block or None
    validated,      \* blocks validate_block accepted, not yet finalized
    clearing,       \* blocks stored, their transactions still to be removed
    submitted,      \* history: transactions add_transaction took
    replaced        \* history: transactions of blocks that were stored over

set == <<validators, total_stake, adds>>
chain == <<current_height, blocks, validated, clearing, replaced>>
vars == <<set, pool, submitted, chain>>

Init ==
    /\ validators = [a \in Addresses |-> None]
    /\ total_stake = 0
    /\ adds = 0
    /\ pool = {}
    /\ current_height = 0
    /\ blocks = [h \in Heights |-> None]
    /\ validated = {} /\ clearing = {}
    /\ submitted = {} /\ replaced = {}

-----------------------------------------------------------------------------
(* ValidatorSet                                                            *)

Registered == {a \in Addresses : validators[a] # None}

\* What a signature of an address weighs: an unknown one is skipped.
WeightOf(a) == IF a \in Registered THEN validators[a] ELSE 0

StakeOf(S) == SumFunctionOnSet([a \in Addresses |-> WeightOf(a)], S)

\* Fault: the stake of a validator that registers again is not counted.
AddValidatorForgetsSum(a, stake) ==
    /\ adds < MaxAdds
    /\ validators' = [validators EXCEPT ![a] = stake]
    /\ total_stake' = IF a \in Registered THEN total_stake ELSE total_stake + stake
    /\ adds' = adds + 1
    /\ UNCHANGED <<pool, submitted, chain>>

\* The sum grows by the new stake even if the address was registered.
AddValidator(a, stake) ==
    /\ adds < MaxAdds
    /\ validators' = [validators EXCEPT ![a] = stake]
    /\ total_stake' = total_stake + stake
    /\ adds' = adds + 1
    /\ UNCHANGED <<pool, submitted, chain>>

\* get_leader: round-robin over the registered addresses in their order; the
\* position of an address is the number of smaller ones.
GetLeader(round) ==
    IF Registered = {} THEN None
    ELSE CHOOSE a \in Registered :
             Cardinality({v \in Registered : v < a}) = round % Cardinality(Registered)

Threshold == (total_stake * 2) \div 3

\* A certificate is a list of addresses and signatures; a signature is
\* genuine if it was made over the block hash with the key of its address.
Certificate == UNION {[1..n -> [by : Addresses, genuine : BOOLEAN]] : n \in 0..MaxSigs}

\* The stake verify adds up: every genuine entry counts, a repeated one too.
SignedStake(signatures) ==
    SumFunctionOnSet([i \in DOMAIN signatures |->
                         IF signatures[i].genuine THEN WeightOf(signatures[i].by) ELSE 0],
                     DOMAIN signatures)

\* QuorumCertificate::verify
VerifyCertificate(signatures) == SignedStake(signatures) >= Threshold

-----------------------------------------------------------------------------
(* HotStuffConsensus                                                       *)

\* Validator::verify_signature, for the header's hash.
VerifySignature(b) == b.signature # None /\ b.signature.by = b.validator /\ b.signature.over = Header(b)

\* Fault: the presence of the parent is not checked.
ValidateSkipsParent(b) ==
    /\ b.root = b.txs
    /\ GetLeader(b.height) \in {None, b.validator}
    /\ b.validator \in Registered => VerifySignature(b)

ValidateBlock(b) ==
    /\ b.height > 0 => blocks[b.height - 1] # None
    /\ b.root = b.txs
    /\ GetLeader(b.height) \in {None, b.validator}
    /\ b.validator \in Registered => VerifySignature(b)

\* Mempool::add_transaction (module Mempool); adding one that is pooled
\* changes nothing here.
AddTransaction(tx) ==
    /\ tx \notin pool
    /\ pool' = pool \cup {tx}
    /\ submitted' = submitted \cup {tx}
    /\ UNCHANGED <<set, chain>>

\* validate_block returns true and the driver keeps the block.
Accept(b) ==
    /\ ValidateBlock(b)
    /\ b \notin validated /\ Cardinality(validated \cup clearing) < MaxOpen
    /\ validated' = validated \cup {b}
    /\ UNCHANGED <<set, submitted, current_height, blocks, clearing, replaced>>

\* What get_transactions may return to propose_block: as many of the
\* transactions that pay the minimum price as the limit allows (which ones
\* is the matter of module Mempool).
Batches ==
    LET paying == pool \ Cheap
    IN  {txs \in SUBSET paying : Cardinality(txs) <= BlockLimit
                                 /\ (txs # paying => Cardinality(txs) = BlockLimit)}

\* propose_block: a block of these at the height after current_height.
Proposal(txs) ==
    [height |-> current_height + 1, root |-> txs, validator |-> Me, signature |-> None, txs |-> txs]

\* Fault: the proposed transactions are taken out of the pool.
ProposeTakes ==
    \E txs \in Batches \ {{}} :
        /\ \E b \in {Proposal(txs), Sign(Proposal(txs), Me)} : Accept(b)
        /\ pool' = pool \ txs

\* The driver validates what is proposed, signed or as it is.
ProposeBlock ==
    \E txs \in Batches \ {{}} :
        /\ \E b \in {Proposal(txs), Sign(Proposal(txs), Me)} : Accept(b)
        /\ UNCHANGED pool

\* A block of another node.
ReceiveBlock(b) == Accept(b) /\ UNCHANGED pool

\* The transactions of the block stored at a height.
TxsAt(h) == IF blocks[h] = None THEN {} ELSE blocks[h].txs

\* Fault: the block is stored under the node's height, not its own.
StoreAtOwnHeight(b) ==
    /\ blocks' = [blocks EXCEPT ![current_height] = b]
    /\ replaced' = replaced \cup TxsAt(current_height)
    /\ validated' = validated \ {b}
    /\ clearing' = clearing \cup {b}
    /\ UNCHANGED <<set, pool, submitted, current_height>>

\* finalize_block, its first lock: the block goes under its height, whatever
\* is there.
StoreBlock(b) ==
    /\ blocks' = [blocks EXCEPT ![b.height] = b]
    /\ replaced' = replaced \cup TxsAt(b.height)
    /\ validated' = validated \ {b}
    /\ clearing' = clearing \cup {b}
    /\ UNCHANGED <<set, pool, submitted, current_height>>

\* Its second lock: remove_transactions.
ClearMempool(b) ==
    /\ pool' = pool \ b.txs
    /\ clearing' = clearing \ {b}
    /\ UNCHANGED <<set, submitted, current_height, blocks, validated, replaced>>

-----------------------------------------------------------------------------
Next ==
    \/ \E a \in Addresses, stake \in Stakes : AddValidator(a, stake)
    \/ \E tx \in Txs : AddTransaction(tx)
    \/ ProposeBlock
    \/ \E b \in Received : ReceiveBlock(b)
    \/ \E b \in validated : StoreBlock(b)
    \/ \E b \in clearing : ClearMempool(b)

Spec == Init /\ [][Next]_vars

-----------------------------------------------------------------------------
(* Properties                                                              *)

\* Type invariant; a stored block is under its own height.
TypeOK ==
    /\ validators \in [Addresses -> Stakes \cup {None}]
    /\ total_stake \in Nat
    /\ adds \in 0..MaxAdds
    /\ pool \subseteq Txs /\ submitted \subseteq Txs /\ replaced \subseteq Txs
    /\ current_height \in Nat
    /\ \A h \in Heights : blocks[h] # None => blocks[h] \in Block /\ blocks[h].height = h
    /\ validated \subseteq Block /\ clearing \subseteq Block

\* The finalized blocks form a chain without gaps from height 0, although a
\* block is finalized some time after its parent was looked for.
ChainHasNoGaps == \A h \in Heights : h > 0 /\ blocks[h] # None => blocks[h - 1] # None

StoredTxs == UNION {TxsAt(h) : h \in Heights}

\* A transaction add_transaction took is never dropped: it stays in the pool
\* until a block that holds it is stored, whatever is proposed, refused or
\* finalized meanwhile, and is lost only with a block that is stored over.
NothingDropped == submitted \subseteq pool \cup StoredTxs \cup replaced

\* The total add_validator keeps never understates the stake of the
\* validators, so the signatures of an accepted certificate weigh two thirds
\* of it, rounded down, each signature as often as it is listed.  (What the
\* README promises of a certificate is SupermajoritySigned.)
CertificateNeedsStake ==
    Registered # {} => \A c \in Certificate :
        VerifyCertificate(c) => SignedStake(c) >= (StakeOf(Addresses) * 2) \div 3

\* The validators a certificate has a genuine signature of.
Signers(c) == {c[i].by : i \in {j \in DOMAIN c : c[j].genuine}}

\* "BFT with 2/3+1 validator stake": the validators that signed an accepted
\* certificate hold more than two thirds of the stake.
SupermajoritySigned ==
    Registered # {} => \A c \in Certificate :
        VerifyCertificate(c) => 3 * StakeOf(Signers(c)) > 2 * StakeOf(Addresses)

\* "assert!(consensus.validate_block(&block))": what the leader proposes on
\* top of a block that is stored is accepted, as proposed or signed.
LeaderBlockAccepted ==
    (GetLeader(current_height + 1) = Me /\ blocks[current_height] # None) =>
        \A txs \in Batches \ {{}} : ValidateBlock(Proposal(txs)) \/ ValidateBlock(Sign(Proposal(txs), Me))

\* "Single-block finality": a finalized block is never replaced.
FinalizedStays ==
    [][\A h \in Heights : blocks[h] # None => blocks'[h] = blocks[h]]_vars
=============================================================================
