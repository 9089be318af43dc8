-------------------------------- MODULE Bridge --------------------------------
(***************************************************************************)
(* The bridge contract (src/contracts/ProtonBridge.sol) deployed on the    *)
(* chain Here, for one token.  Every external function is an atomic        *)
(* action; a call that reverts is no step.                                 *)
(*                                                                         *)
(* The keccak id of a transfer is what it is computed from: the request    *)
(* (target chain, amount or encrypted amount, sender and receiver) and the *)
(* block it is made in.  Repeating a request in the same block therefore   *)
(* reaches the same id.  sourceChain is always Here, so the key under      *)
(* which tokens are released or minted is Here's.                          *)
(***************************************************************************)
EXTENDS Integers, FiniteSets, Functions

CONSTANTS
    Chains,      \* chain ids
    Here,        \* block.chainid
    Requests,    \* [private : BOOLEAN, target : Chains, amount : Nat, who : ...]
    BridgeValidators,  \* addresses that may become validators
    Thresholds,  \* values of validatorThreshold
    Supply,      \* tokens of all users
    MaxBlock,    \* bound: number of the last block
    MaxPrivate   \* bound: initiatePrivateTransfer calls

ASSUME HereAssumption == Here \in Chains
ASSUME RequestsAssumption ==
    \A r \in Requests : /\ r.private \in BOOLEAN /\ r.target \in Chains /\ r.amount \in Nat
                        /\ r.private => r.amount = 0
ASSUME ThresholdsAssumption == Thresholds \subseteq Nat
ASSUME BridgeBoundsAssumption == Supply \in Nat /\ MaxBlock \in Nat /\ MaxPrivate \in Nat
ASSUME BridgeValidatorsAssumption == IsFiniteSet(BridgeValidators)

Ids == [request : Requests, block : 0..MaxBlock]

\* "None" is a transfer whose transferId is still zero.
Statuses == {"None", "Pending", "SourceConfirmed", "SignaturesComplete", "Executed"}

Transfer == [signatures : SUBSET BridgeValidators, signatureCount : Nat, status : Statuses]

VARIABLES
    supportedChains,    \* the active chains
    bridge_validators,         \* Validators -> "none", "active" or "inactive"
    validatorThreshold,
    wrapped,            \* whether the token has a wrapped asset under Here's key
    lockedAssets,       \* Chains -> the amount booked for the token
    pendingTransfers,   \* Ids -> Transfer
    completedTransfers, \* ids
    block,              \* block.number and block.timestamp
    bridge_held,               \* the token balance of the bridge
    privates,           \* number of initiatePrivateTransfer calls
    payments            \* history: Ids -> times released or minted

admin == <<supportedChains, bridge_validators, validatorThreshold, wrapped>>
transferVars == <<pendingTransfers, completedTransfers, payments>>
funds == <<lockedAssets, bridge_held, privates>>
bridgeVars == <<admin, transferVars, funds, block>>

BridgeInit ==
    /\ supportedChains = {}
    /\ bridge_validators = [v \in BridgeValidators |-> "none"]
    /\ validatorThreshold \in Thresholds
    /\ wrapped = FALSE
    /\ lockedAssets = [c \in Chains |-> 0]
    /\ pendingTransfers = [id \in Ids |-> [signatures |-> {}, signatureCount |-> 0, status |-> "None"]]
    /\ completedTransfers = {}
    /\ block = 0
    /\ bridge_held = 0
    /\ privates = 0
    /\ payments = [id \in Ids |-> 0]

-----------------------------------------------------------------------------
(* The owner's functions                                                   *)

AddChain(c) ==
    /\ c \notin supportedChains
    /\ supportedChains' = supportedChains \cup {c}
    /\ UNCHANGED <<bridge_validators, validatorThreshold, wrapped, transferVars, funds, block>>

DeactivateChain(c) ==
    /\ supportedChains' = supportedChains \ {c}
    /\ UNCHANGED <<bridge_validators, validatorThreshold, wrapped, transferVars, funds, block>>

AddValidator(v) ==
    /\ bridge_validators[v] = "none"
    /\ bridge_validators' = [bridge_validators EXCEPT ![v] = "active"]
    /\ UNCHANGED <<supportedChains, validatorThreshold, wrapped, transferVars, funds, block>>

DeactivateValidator(v) ==
    /\ bridge_validators[v] = "active"
    /\ bridge_validators' = [bridge_validators EXCEPT ![v] = "inactive"]
    /\ UNCHANGED <<supportedChains, validatorThreshold, wrapped, transferVars, funds, block>>

SetValidatorThreshold(n) ==
    /\ validatorThreshold' = n
    /\ UNCHANGED <<supportedChains, bridge_validators, wrapped, transferVars, funds, block>>

\* The wrapped asset may be the zero address, which removes it.  No other
\* chain's key is ever read.
RegisterWrappedAsset(exists) ==
    /\ wrapped' = exists
    /\ UNCHANGED <<supportedChains, bridge_validators, validatorThreshold, transferVars, funds, block>>

-----------------------------------------------------------------------------
(* Transfers                                                               *)

IdOf(r) == [request |-> r, block |-> block]

\* The record is written in place: the signatures map is never cleared.
Reset(id) ==
    [pendingTransfers EXCEPT ![id] =
        [signatures |-> @.signatures, signatureCount |-> 0, status |-> "Pending"]]

\* Fault: the result of transferFrom is ignored.
InitiateWithoutFunds(r) ==
    LET id == IdOf(r) IN
    /\ ~r.private
    /\ r.target \in supportedChains
    /\ id \notin completedTransfers
    /\ bridge_held' = IF bridge_held + r.amount <= Supply THEN bridge_held + r.amount ELSE bridge_held
    /\ lockedAssets' = [lockedAssets EXCEPT ![r.target] = @ + r.amount]
    /\ pendingTransfers' = Reset(id)
    /\ UNCHANGED <<admin, completedTransfers, payments, privates, block>>

InitiateTransfer(r) ==
    LET id == IdOf(r) IN
    /\ ~r.private
    /\ r.target \in supportedChains
    /\ id \notin completedTransfers
    /\ bridge_held + r.amount <= Supply
    /\ bridge_held' = bridge_held + r.amount
    /\ lockedAssets' = [lockedAssets EXCEPT ![r.target] = @ + r.amount]
    /\ pendingTransfers' = Reset(id)
    /\ UNCHANGED <<admin, completedTransfers, payments, privates, block>>

\* No token moves, the booked amount grows by one, and a completed id is
\* not refused.
InitiatePrivateTransfer(r) ==
    /\ r.private
    /\ privates < MaxPrivate
    /\ r.target \in supportedChains
    /\ lockedAssets' = [lockedAssets EXCEPT ![r.target] = @ + 1]
    /\ privates' = privates + 1
    /\ pendingTransfers' = Reset(IdOf(r))
    /\ UNCHANGED <<admin, completedTransfers, payments, bridge_held, block>>

\* Fault: every signature counts, the validator's second one too.
CountsAgain(t, v) == [t EXCEPT !.signatures = @ \cup {v}, !.signatureCount = @ + 1]

RecordSignature(t, v) ==
    IF v \in t.signatures THEN t
    ELSE [t EXCEPT !.signatures = @ \cup {v}, !.signatureCount = @ + 1]

\* A call whose signature and Merkle proof verify.
SignTransfer(v, id) ==
    /\ bridge_validators[v] = "active"
    /\ pendingTransfers[id].status \notin {"None", "Executed"}
    /\ LET t == RecordSignature(pendingTransfers[id], v)
       IN  pendingTransfers' = [pendingTransfers EXCEPT ![id] =
               [t EXCEPT !.status = IF t.signatureCount >= validatorThreshold
                                    THEN "SignaturesComplete" ELSE "SourceConfirmed"]]
    /\ UNCHANGED <<admin, completedTransfers, payments, funds, block>>

\* Tokens leave the bridge only when no wrapped asset is registered.
Release(id) ==
    IF wrapped
    THEN UNCHANGED funds
    ELSE /\ lockedAssets[Here] >= id.request.amount
         /\ lockedAssets' = [lockedAssets EXCEPT ![Here] = @ - id.request.amount]
         /\ bridge_held >= id.request.amount
         /\ bridge_held' = bridge_held - id.request.amount
         /\ UNCHANGED privates

\* Fault: completedTransfers is not updated.
ExecuteForgetsCompleted(id) ==
    /\ pendingTransfers[id].status = "SignaturesComplete"
    /\ id.request.target = Here
    /\ id \notin completedTransfers
    /\ Release(id)
    /\ pendingTransfers' = [pendingTransfers EXCEPT ![id] = [@ EXCEPT !.status = "Executed"]]
    /\ payments' = [payments EXCEPT ![id] = @ + 1]
    /\ UNCHANGED <<admin, completedTransfers, block>>

ExecuteTransfer(id) ==
    /\ pendingTransfers[id].status = "SignaturesComplete"
    /\ id.request.target = Here
    /\ id \notin completedTransfers
    /\ Release(id)
    /\ pendingTransfers' = [pendingTransfers EXCEPT ![id] = [@ EXCEPT !.status = "Executed"]]
    /\ completedTransfers' = completedTransfers \cup {id}
    /\ payments' = [payments EXCEPT ![id] = @ + 1]
    /\ UNCHANGED <<admin, block>>

NextBlock ==
    /\ block < MaxBlock
    /\ block' = block + 1
    /\ UNCHANGED <<admin, transferVars, funds>>

-----------------------------------------------------------------------------
BridgeNext ==
    \/ \E c \in Chains : AddChain(c) \/ DeactivateChain(c)
    \/ \E v \in BridgeValidators : AddValidator(v) \/ DeactivateValidator(v)
    \/ \E n \in Thresholds : SetValidatorThreshold(n)
    \/ \E exists \in BOOLEAN : RegisterWrappedAsset(exists)
    \/ \E r \in Requests : InitiateTransfer(r) \/ InitiatePrivateTransfer(r)
    \/ \E v \in BridgeValidators, id \in Ids : SignTransfer(v, id)
    \/ \E id \in Ids : ExecuteTransfer(id)
    \/ NextBlock

BridgeSpec == BridgeInit /\ [][BridgeNext]_bridgeVars

-----------------------------------------------------------------------------
(* Properties                                                              *)

Status(id) == pendingTransfers[id].status

\* Type invariant.
BridgeTypeOK ==
    /\ supportedChains \subseteq Chains
    /\ bridge_validators \in [BridgeValidators -> {"none", "active", "inactive"}]
    /\ validatorThreshold \in Thresholds
    /\ wrapped \in BOOLEAN
    /\ lockedAssets \in [Chains -> Nat]
    /\ pendingTransfers \in [Ids -> Transfer]
    /\ completedTransfers \subseteq Ids
    /\ block \in 0..MaxBlock
    /\ bridge_held \in 0..Supply
    /\ privates \in 0..MaxPrivate
    /\ payments \in [Ids -> Nat]

\* A transfer is paid at most once, although its id may be initiated again
\* in the same block, after it was signed or executed.
PaidOnce == \A id \in Ids : payments[id] <= 1

\* A transfer becomes executable only by the signatures of at least
\* validatorThreshold different validators, although a validator may sign
\* again and the count restarts when the id is initiated again.
CompletedByQuorum ==
    [][\A id \in Ids :
        Status(id) # "SignaturesComplete" /\ Status(id)' = "SignaturesComplete" =>
            Cardinality(pendingTransfers'[id].signatures) >= validatorThreshold]_bridgeVars

Unpaid == {id \in Ids : Status(id) # "None" /\ id \notin completedTransfers}

WorthOf(S) == SumFunctionOnSet([id \in Ids |-> id.request.amount], S)

\* The bridge holds the tokens of every transfer that is not executed yet,
\* whatever was released, minted or booked by private transfers; and what is
\* booked for a chain covers its transfers, so that executeTransfer never
\* fails with InsufficientLockedAssets.
Backed ==
    /\ bridge_held >= WorthOf(Unpaid)
    /\ \A c \in Chains : lockedAssets[c] >= WorthOf({id \in Unpaid : id.request.target = c})

Approved == {id \in Unpaid : Status(id) = "SignaturesComplete"}

\* The contract keeps the promise of an escrow although ids are initiated
\* again, signatures are never cleared and the threshold changes: a transfer
\* is open once initiated and until it is completed, it is approved while it
\* is open with SignaturesComplete, and it takes tokens from the bridge only
\* by the one step that completes it.
Promise == INSTANCE Escrow WITH
    Claims <- Ids,
    Value <- [id \in Ids |-> id.request.amount],
    Endorsers <- BridgeValidators,
    Quorums <- Thresholds,
    vault <- bridge_held,
    open <- Unpaid,
    approved <- Approved,
    paid <- completedTransfers,
    endorsers <- [id \in Ids |-> pendingTransfers[id].signatures],
    quorum <- validatorThreshold

KeepsEscrow == Promise!EscrowSpec
=============================================================================
