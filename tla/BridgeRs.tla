------------------------------- MODULE BridgeRs -------------------------------
(***************************************************************************)
(* The bridge contract in Rust (src/contracts/bridge.rs) on the chain      *)
(* BridgeHere, for one asset.  A call is atomic, and one that panics has   *)
(* no effect.                                                              *)
(*                                                                         *)
(* Three pairs of its collections have keys of the same type and share     *)
(* their entries (see SdkStorage): supported_chains and merkle_roots,      *)
(* wrapped_assets and locked_assets, pending_transfers and                 *)
(* completed_transfers.                                                    *)
(***************************************************************************)
EXTENDS Integers, Sequences, FiniteSets, Functions, SdkStorage

CONSTANTS
    BridgeChains,      \* chain ids
    BridgeHere,        \* CHAIN_ID
    BridgeValidators,  \* addresses that may become validators
    Threshold,         \* validator_threshold
    LockAmounts,       \* amounts of transfers
    BridgeSupply,      \* tokens of all users
    MaxTransfers,      \* bound: calls of initiate_transfer
    MaxPrivate,        \* bound: calls of initiate_private_transfer
    MaxTimestamp       \* bound: current_timestamp

ASSUME BridgeChainsAssumption == BridgeHere \in BridgeChains /\ IsFiniteSet(BridgeChains)
ASSUME LockAmountsAssumption == LockAmounts \subseteq Nat

VARIABLES
    bridge,      \* the table of the contract
    locked,      \* its token balance
    hidden,      \* calls of lock_private_assets
    transfers,   \* calls of initiate_transfer
    timestamp,
    refused      \* history: ids whose execution ended with "Already completed"

bridgeVars == <<bridge, locked, hidden, transfers, timestamp, refused>>

ChainKey(c) == <<"u64", c>>
AssetKey(c) == <<"(u64, Address)", c>>
ValidatorKey(v) == <<"Address", v>>
TransferKey(id) == <<"Hash", id>>

BridgeInit ==
    /\ bridge = EmptyTable
    /\ locked = 0 /\ hidden = 0 /\ transfers = 0 /\ timestamp = 0
    /\ refused = {}

-----------------------------------------------------------------------------
(* Governance and the light client                                         *)

AddChain(c) ==
    /\ ~Has(bridge, "ChainConfig", ChainKey(c))
    /\ bridge' = Put(bridge, "ChainConfig", ChainKey(c), "active")
    /\ UNCHANGED <<locked, hidden, transfers, timestamp, refused>>

\* The root takes the place of the chain's configuration.
UpdateMerkleRoot(c) ==
    /\ bridge' = Put(bridge, "Hash", ChainKey(c), "root")
    /\ UNCHANGED <<locked, hidden, transfers, timestamp, refused>>

\* The address takes the place of the amount locked for the chain.
RegisterWrappedAsset(c) ==
    /\ bridge' = Put(bridge, "Address", AssetKey(c), "wrapped")
    /\ UNCHANGED <<locked, hidden, transfers, timestamp, refused>>

AddValidator(v) ==
    /\ bridge' = Put(bridge, "ValidatorInfo", ValidatorKey(v), "active")
    /\ UNCHANGED <<locked, hidden, transfers, timestamp, refused>>

-----------------------------------------------------------------------------
(* Transfers                                                               *)

NewTransfer(c, amount) ==
    [target |-> c, amount |-> amount, signatures |-> <<>>, status |-> "Pending"]

\* generate_transfer_id hashes 32 random bytes: no id comes twice.
PublicId(number) == <<"public", number>>

Locked(c) == Get(bridge, "u128", AssetKey(c), 0)

\* Fault: the transfer is recorded although the tokens did not come.
InitiateUnpaid(c, amount) ==
    LET id == TransferKey(PublicId(transfers + 1)) IN
    /\ transfers < MaxTransfers
    /\ Has(bridge, "ChainConfig", ChainKey(c))
    /\ ~Marked(bridge, id)
    /\ locked' = IF locked + amount <= BridgeSupply THEN locked + amount ELSE locked
    /\ bridge' = Put(Put(bridge, "u128", AssetKey(c), Locked(c) + amount),
                     "PendingTransfer", id, NewTransfer(c, amount))
    /\ transfers' = transfers + 1
    /\ UNCHANGED <<hidden, timestamp, refused>>

InitiateTransfer(c, amount) ==
    LET id == TransferKey(PublicId(transfers + 1)) IN
    /\ transfers < MaxTransfers
    /\ Has(bridge, "ChainConfig", ChainKey(c))
    /\ ~Marked(bridge, id)
    /\ locked + amount <= BridgeSupply
    /\ locked' = locked + amount
    /\ bridge' = Put(Put(bridge, "u128", AssetKey(c), Locked(c) + amount),
                     "PendingTransfer", id, NewTransfer(c, amount))
    /\ transfers' = transfers + 1
    /\ UNCHANGED <<hidden, timestamp, refused>>

\* The id depends on the request and the timestamp only; a second call of one
\* timestamp starts the same transfer again.  The chain is not looked up.
PrivateId(c, time) == <<"private", c, time>>

InitiatePrivateTransfer(c) ==
    /\ hidden < MaxPrivate
    /\ bridge' = Put(bridge, "PendingTransfer", TransferKey(PrivateId(c, timestamp)), NewTransfer(c, 0))
    /\ hidden' = hidden + 1
    /\ UNCHANGED <<locked, transfers, timestamp, refused>>

TransferIds == {PublicId(n) : n \in 1..MaxTransfers}
               \cup {PrivateId(c, time) : c \in BridgeChains, time \in 0..MaxTimestamp}

IsPending(id) == Has(bridge, "PendingTransfer", TransferKey(id))
Pending(id) == bridge[TransferKey(id)].value

\* A call whose signature and Merkle proof verify.  Every call adds a
\* signature, the validator's second one too.
SignTransfer(v, id) ==
    /\ Has(bridge, "ValidatorInfo", ValidatorKey(v))
    /\ IsPending(id)
    /\ Pending(id).status \in {"Pending", "SourceConfirmed"}
    /\ LET signatures == Append(Pending(id).signatures, v)
           status == IF Len(signatures) >= Threshold THEN "SignaturesComplete" ELSE "SourceConfirmed"
       IN  bridge' = Put(bridge, "PendingTransfer", TransferKey(id),
                         [Pending(id) EXCEPT !.signatures = signatures, !.status = status])
    /\ UNCHANGED <<locked, hidden, transfers, timestamp, refused>>

\* Wrapped tokens are minted, or locked ones released.  Removing the pending
\* entry removes the mark that was just written under the same key.
PayOut(id) ==
    LET amount == Pending(id).amount
        wrapped == Has(bridge, "Address", AssetKey(BridgeHere))
        table == IF wrapped THEN bridge
                 ELSE Put(bridge, "u128", AssetKey(BridgeHere), Locked(BridgeHere) - amount)
    IN  /\ wrapped \/ (Locked(BridgeHere) >= amount /\ locked >= amount)
        /\ locked' = IF wrapped THEN locked ELSE locked - amount
        /\ bridge' = Erase(Mark(table, TransferKey(id)), TransferKey(id))

\* execute_transfer: completed_transfers finds the entry of the pending one.
ExecuteBridgeTransfer(id) ==
    /\ IsPending(id)
    /\ Pending(id).status = "SignaturesComplete"
    /\ Pending(id).target = BridgeHere
    /\ IF Marked(bridge, TransferKey(id))
       THEN refused' = refused \cup {id} /\ UNCHANGED <<bridge, locked>>
       ELSE PayOut(id) /\ UNCHANGED refused
    /\ UNCHANGED <<hidden, transfers, timestamp>>

BridgeTick ==
    /\ timestamp < MaxTimestamp
    /\ timestamp' = timestamp + 1
    /\ UNCHANGED <<bridge, locked, hidden, transfers, refused>>

BridgeNext ==
    \/ \E c \in BridgeChains : \/ AddChain(c) \/ UpdateMerkleRoot(c) \/ RegisterWrappedAsset(c)
                               \/ InitiatePrivateTransfer(c)
                               \/ \E amount \in LockAmounts : InitiateTransfer(c, amount)
    \/ \E v \in BridgeValidators : AddValidator(v) \/ \E id \in TransferIds : SignTransfer(v, id)
    \/ \E id \in TransferIds : ExecuteBridgeTransfer(id)
    \/ BridgeTick

BridgeSpec == BridgeInit /\ [][BridgeNext]_bridgeVars

-----------------------------------------------------------------------------
(* Properties                                                              *)

AmountOf(n) == Pending(PublicId(n)).amount

OpenTransfers == {n \in 1..transfers : IsPending(PublicId(n))}

\* The tokens the bridge holds cover every public transfer that is pending,
\* and cover what locked_assets reports for all chains, although registering
\* a wrapped asset overwrites an amount and private transfers come in between.
LockedCovers ==
    /\ SumFunctionOnSet([n \in OpenTransfers |-> AmountOf(n)], OpenTransfers) <= locked
    /\ SumFunctionOnSet([c \in BridgeChains |-> Locked(c)], BridgeChains) <= locked

\* execute_transfer never turns down a pending transfer with all its
\* signatures as already completed.  Violated: completed_transfers looks in
\* the entry of pending_transfers and always finds it.
PendingIsNotCompleted == refused = {}
=============================================================================
