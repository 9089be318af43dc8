----------------------------- MODULE BridgeProofs -----------------------------
(***************************************************************************)
(* Proofs about the bridge, for any chains, requests, validators and       *)
(* thresholds.                                                             *)
(***************************************************************************)
EXTENDS Bridge, DataTheorems, FiniteSetTheorems, TLAPS

\* A completed transfer was paid exactly once and any other never; a
\* signature that is counted is in the signatures map, which is never cleared.
Inv ==
    /\ BridgeTypeOK
    /\ \A id \in Ids : payments[id] = IF id \in completedTransfers THEN 1 ELSE 0
    /\ \A id \in Ids : pendingTransfers[id].signatureCount <= Cardinality(pendingTransfers[id].signatures)

\* The sets of signers are finite.
LEMMA SignersCount ==
    ASSUME NEW S \in SUBSET BridgeValidators
    PROVE  /\ IsFiniteSet(S) /\ Cardinality(S) \in Nat
           /\ \A v \in BridgeValidators : v \notin S => Cardinality(S \cup {v}) = Cardinality(S) + 1
PROOF
<1>1. IsFiniteSet(S)
    BY BridgeValidatorsAssumption, FS_Subset
<1>2. Cardinality(S) \in Nat
    BY <1>1, FS_CardinalityType
<1>3. \A v \in BridgeValidators : v \notin S => Cardinality(S \cup {v}) = Cardinality(S) + 1
    BY <1>1, FS_AddElement
<1> QED
    BY <1>1, <1>2, <1>3

LEMMA InitInv == BridgeInit => Inv
PROOF
<1> SUFFICES ASSUME BridgeInit PROVE Inv
    OBVIOUS
<1>1. Cardinality({}) = 0
    BY FS_EmptySet
<1>2. pendingTransfers \in [Ids -> Transfer]
    BY DEF BridgeInit, Transfer, Statuses
<1>3. bridge_validators \in [BridgeValidators -> {"none", "active", "inactive"}] /\ lockedAssets \in [Chains -> Nat]
      /\ payments \in [Ids -> Nat]
    BY DEF BridgeInit
<1>4. wrapped \in BOOLEAN
    BY Zenon DEF BridgeInit
<1>5. block \in 0..MaxBlock /\ bridge_held \in 0..Supply /\ privates \in 0..MaxPrivate
    BY BridgeBoundsAssumption DEF BridgeInit
<1>6. BridgeTypeOK
    BY <1>2, <1>3, <1>4, <1>5, Zenon DEF BridgeInit, BridgeTypeOK
<1>7. \A id \in Ids : payments[id] = 0 /\ id \notin completedTransfers
    BY DEF BridgeInit
<1>8. \A id \in Ids : pendingTransfers[id].signatureCount = 0 /\ pendingTransfers[id].signatures = {}
    BY DEF BridgeInit
<1>9. \A id \in Ids : pendingTransfers[id].signatureCount <= Cardinality(pendingTransfers[id].signatures)
    <2>1. \A id \in Ids : Cardinality(pendingTransfers[id].signatures) = 0
        BY <1>1, <1>8, Zenon
    <2> QED
        BY <1>8, <2>1
<1>10. \A id \in Ids : payments[id] = IF id \in completedTransfers THEN 1 ELSE 0
    BY <1>7
<1> QED
    BY <1>6, <1>9, <1>10, Zenon DEF Inv

\* The ids of the requests of this block.
LEMMA IdOfType ==
    ASSUME BridgeTypeOK, NEW r \in Requests
    PROVE  IdOf(r) \in Ids
PROOF
    BY DEF BridgeTypeOK, IdOf, Ids

\* Writing a record again keeps its signatures and clears its count.
LEMMA ResetInv ==
    ASSUME Inv, NEW id \in Ids, pendingTransfers' = Reset(id)
    PROVE  /\ pendingTransfers' \in [Ids -> Transfer]
           /\ \A i \in Ids : pendingTransfers'[i].signatureCount
                                 <= Cardinality(pendingTransfers'[i].signatures)
PROOF
<1>1. pendingTransfers \in [Ids -> Transfer]
    BY DEF Inv, BridgeTypeOK
<1>2. pendingTransfers' = [pendingTransfers EXCEPT ![id] =
          [signatures |-> pendingTransfers[id].signatures, signatureCount |-> 0, status |-> "Pending"]]
    BY <1>1 DEF Reset
<1>3. pendingTransfers' \in [Ids -> Transfer]
    BY <1>1, <1>2 DEF Transfer, Statuses
<1>4. pendingTransfers[id].signatures \in SUBSET BridgeValidators
    BY <1>1 DEF Transfer
<1>5. 0 <= Cardinality(pendingTransfers[id].signatures)
    BY <1>4, SignersCount
<1> QED
    BY <1>1, <1>2, <1>3, <1>5 DEF Inv

LEMMA InitiateInv ==
    ASSUME Inv, NEW r \in Requests, InitiateTransfer(r) \/ InitiatePrivateTransfer(r)
    PROVE  Inv'
PROOF
<1>1. IdOf(r) \in Ids /\ pendingTransfers' = Reset(IdOf(r))
    BY IdOfType DEF Inv, InitiateTransfer, InitiatePrivateTransfer
<1>2. r.target \in Chains /\ r.amount \in Nat
    BY RequestsAssumption
<1>3. lockedAssets' \in [Chains -> Nat]
    BY <1>2 DEF Inv, BridgeTypeOK, InitiateTransfer, InitiatePrivateTransfer
<1>4. bridge_held' \in 0..Supply /\ privates' \in 0..MaxPrivate
    BY <1>2, BridgeBoundsAssumption DEF Inv, BridgeTypeOK, InitiateTransfer, InitiatePrivateTransfer
<1>5. UNCHANGED <<admin, completedTransfers, payments, block>>
    BY DEF InitiateTransfer, InitiatePrivateTransfer
<1>6. BridgeTypeOK'
    BY <1>1, <1>3, <1>4, <1>5, ResetInv DEF Inv, BridgeTypeOK, admin
<1> QED
    BY <1>1, <1>5, <1>6, ResetInv DEF Inv

\* A signature is counted when it enters the map.
LEMMA SignInv ==
    ASSUME Inv, NEW v \in BridgeValidators, NEW id \in Ids, SignTransfer(v, id)
    PROVE  /\ Inv'
           /\ \A i \in Ids :
                  Status(i) # "SignaturesComplete" /\ Status(i)' = "SignaturesComplete" =>
                      Cardinality(pendingTransfers'[i].signatures) >= validatorThreshold
           /\ \A i \in Ids : Status(i)' = "None" <=> Status(i) = "None"
PROOF
<1> DEFINE old == pendingTransfers[id]
           t == RecordSignature(old, v)
           new == [t EXCEPT !.status = IF t.signatureCount >= validatorThreshold
                                       THEN "SignaturesComplete" ELSE "SourceConfirmed"]
<1>1. old \in Transfer /\ old.signatures \in SUBSET BridgeValidators
      /\ old.signatureCount \in Nat /\ old.signatureCount <= Cardinality(old.signatures)
    BY DEF Inv, BridgeTypeOK, Transfer
<1>2. Cardinality(old.signatures) \in Nat
      /\ (v \notin old.signatures => Cardinality(old.signatures \cup {v}) = Cardinality(old.signatures) + 1)
    BY <1>1, SignersCount
<1> HIDE DEF old
<1>3. t \in Transfer /\ t.signatureCount <= Cardinality(t.signatures) /\ Cardinality(t.signatures) \in Nat
    <2>1. CASE v \in old.signatures
        BY <1>1, <1>2, <2>1 DEF RecordSignature
    <2>2. CASE v \notin old.signatures
        <3>1. t = [signatures |-> old.signatures \cup {v}, signatureCount |-> old.signatureCount + 1,
                   status |-> old.status]
            BY <1>1, <2>2 DEF RecordSignature, Transfer
        <3> QED
            BY <1>1, <1>2, <2>2, <3>1 DEF Transfer
    <2> QED
        BY <2>1, <2>2
<1> HIDE DEF t
<1>4. /\ new \in Transfer
      /\ new.signatureCount <= Cardinality(new.signatures)
      /\ new.status = "SignaturesComplete" => Cardinality(new.signatures) >= validatorThreshold
      /\ new.status # "None"
    <2>1. new = [signatures |-> t.signatures, signatureCount |-> t.signatureCount,
                 status |-> IF t.signatureCount >= validatorThreshold
                            THEN "SignaturesComplete" ELSE "SourceConfirmed"]
        BY <1>3 DEF Transfer
    <2>2. validatorThreshold \in Nat /\ t.signatureCount \in Nat
        BY <1>3, ThresholdsAssumption DEF Inv, BridgeTypeOK, Transfer
    <2> QED
        BY <1>3, <2>1, <2>2 DEF Transfer, Statuses
<1>5. pendingTransfers' = [pendingTransfers EXCEPT ![id] = new]
    BY DEF SignTransfer, t, old
<1> HIDE DEF new
<1>6. pendingTransfers' \in [Ids -> Transfer] /\ pendingTransfers'[id] = new
      /\ \A i \in Ids \ {id} : pendingTransfers'[i] = pendingTransfers[i]
    BY <1>4, <1>5 DEF Inv, BridgeTypeOK
<1>7. BridgeTypeOK'
    BY <1>6 DEF Inv, BridgeTypeOK, SignTransfer, admin, funds
<1> QED
    BY <1>4, <1>6, <1>7 DEF Inv, SignTransfer, Status

\* Paying completes the id, and a completed id is not paid again.
LEMMA ExecuteInv ==
    ASSUME Inv, NEW id \in Ids, ExecuteTransfer(id)
    PROVE  Inv' /\ pendingTransfers' = [pendingTransfers EXCEPT ![id] = [@ EXCEPT !.status = "Executed"]]
PROOF
<1>1. id.request.amount \in Nat
    BY RequestsAssumption DEF Ids
<1>2. pendingTransfers' = [pendingTransfers EXCEPT ![id] = [@ EXCEPT !.status = "Executed"]]
    BY DEF ExecuteTransfer
<1>3. pendingTransfers' = [pendingTransfers EXCEPT ![id] =
          [signatures |-> pendingTransfers[id].signatures,
           signatureCount |-> pendingTransfers[id].signatureCount, status |-> "Executed"]]
    <2>1. \A t \in Transfer : [t EXCEPT !.status = "Executed"] =
              [signatures |-> t.signatures, signatureCount |-> t.signatureCount, status |-> "Executed"]
        BY DEF Transfer
    <2> QED
        BY <1>2, <2>1 DEF Inv, BridgeTypeOK
<1>4. pendingTransfers' \in [Ids -> Transfer]
    BY <1>3 DEF Inv, BridgeTypeOK, Transfer, Statuses
<1>5. lockedAssets' \in [Chains -> Nat] /\ bridge_held' \in 0..Supply /\ privates' \in 0..MaxPrivate
    <2>1. CASE wrapped
        BY <2>1 DEF ExecuteTransfer, Release, Inv, BridgeTypeOK, funds
    <2>2. CASE ~wrapped
        BY <1>1, <2>2, HereAssumption, BridgeBoundsAssumption DEF ExecuteTransfer, Release, Inv, BridgeTypeOK
    <2> QED
        BY <2>1, <2>2
<1>6. /\ payments' \in [Ids -> Nat]
      /\ \A i \in Ids : payments'[i] = IF i \in completedTransfers' THEN 1 ELSE 0
    BY DEF ExecuteTransfer, Inv, BridgeTypeOK
<1>7. BridgeTypeOK'
    BY <1>4, <1>5, <1>6 DEF ExecuteTransfer, Inv, BridgeTypeOK, admin
<1>8. \A i \in Ids : pendingTransfers'[i].signatureCount <= Cardinality(pendingTransfers'[i].signatures)
    BY <1>3, <1>4 DEF Inv, BridgeTypeOK
<1> QED
    BY <1>2, <1>6, <1>7, <1>8 DEF Inv

\* What the owner does, and a new block, leave the transfers alone.
LEMMA OwnerInv ==
    ASSUME Inv,
           \/ \E c \in Chains : AddChain(c) \/ DeactivateChain(c)
           \/ \E v \in BridgeValidators : AddValidator(v) \/ DeactivateValidator(v)
           \/ \E n \in Thresholds : SetValidatorThreshold(n)
           \/ \E exists \in BOOLEAN : RegisterWrappedAsset(exists)
           \/ NextBlock
           \/ UNCHANGED bridgeVars
    PROVE  Inv' /\ UNCHANGED pendingTransfers
PROOF
<1>1. UNCHANGED <<transferVars, funds>>
    BY DEF AddChain, DeactivateChain, AddValidator, DeactivateValidator, SetValidatorThreshold,
           RegisterWrappedAsset, NextBlock, bridgeVars
<1>2. supportedChains' \subseteq Chains /\ bridge_validators' \in [BridgeValidators -> {"none", "active", "inactive"}]
      /\ validatorThreshold' \in Thresholds
    BY DEF Inv, BridgeTypeOK, AddChain, DeactivateChain, AddValidator, DeactivateValidator,
           SetValidatorThreshold, RegisterWrappedAsset, NextBlock, bridgeVars, admin
<1>3. wrapped' \in BOOLEAN
    BY DEF Inv, BridgeTypeOK, AddChain, DeactivateChain, AddValidator, DeactivateValidator,
           SetValidatorThreshold, RegisterWrappedAsset, NextBlock, bridgeVars, admin
<1>4. block' \in 0..MaxBlock
    BY BridgeBoundsAssumption DEF Inv, BridgeTypeOK, AddChain, DeactivateChain, AddValidator, DeactivateValidator,
           SetValidatorThreshold, RegisterWrappedAsset, NextBlock, bridgeVars
<1>5. BridgeTypeOK'
    BY <1>1, <1>2, <1>3, <1>4 DEF Inv, BridgeTypeOK, transferVars, funds
<1> QED
    BY <1>1, <1>5 DEF Inv, transferVars

LEMMA NextInv ==
    ASSUME Inv, [BridgeNext]_bridgeVars
    PROVE  Inv'
PROOF
    BY InitiateInv, SignInv, ExecuteInv, OwnerInv DEF BridgeNext

LEMMA InvHolds == BridgeSpec => []Inv
PROOF
<1>1. Inv /\ [BridgeNext]_bridgeVars => Inv'
    BY NextInv
<1> QED
    BY <1>1, InitInv, PTL DEF BridgeSpec

\* The contract's state keeps its type: no amount it subtracts is larger
\* than what it is subtracted from, and the bridge never holds more than
\* the supply.
THEOREM TypeCorrect == BridgeSpec => []BridgeTypeOK
PROOF
<1>1. Inv => BridgeTypeOK
    BY DEF Inv
<1> QED
    BY <1>1, InvHolds, PTL

\* executeTransfer pays no transfer twice, even if its id is initiated and
\* signed again.
THEOREM NeverPaidTwice == BridgeSpec => []PaidOnce
PROOF
<1>1. Inv => PaidOnce
    BY DEF Inv, PaidOnce
<1> QED
    BY <1>1, InvHolds, PTL

\* signTransfer makes a transfer executable only with the signatures of
\* validatorThreshold different validators.
THEOREM QuorumCompletes == BridgeSpec => CompletedByQuorum
PROOF
<1> DEFINE Step == \A id \in Ids :
        Status(id) # "SignaturesComplete" /\ Status(id)' = "SignaturesComplete" =>
            Cardinality(pendingTransfers'[id].signatures) >= validatorThreshold
<1>1. ASSUME Inv, [BridgeNext]_bridgeVars
      PROVE  [Step]_bridgeVars
    <2>1. ASSUME NEW r \in Requests, InitiateTransfer(r) \/ InitiatePrivateTransfer(r)
          PROVE  Step
        <3>1. IdOf(r) \in Ids /\ pendingTransfers' = Reset(IdOf(r))
            BY <1>1, <2>1, IdOfType DEF Inv, InitiateTransfer, InitiatePrivateTransfer
        <3>2. \A i \in Ids : Status(i)' = IF i = IdOf(r) THEN "Pending" ELSE Status(i)
            BY <1>1, <3>1 DEF Inv, BridgeTypeOK, Transfer, Reset, Status
        <3> QED
            BY <3>2
    <2>2. ASSUME NEW v \in BridgeValidators, NEW id \in Ids, SignTransfer(v, id)
          PROVE  Step
        BY <1>1, <2>2, SignInv
    <2>3. ASSUME NEW id \in Ids, ExecuteTransfer(id)
          PROVE  Step
        <3>1. pendingTransfers' = [pendingTransfers EXCEPT ![id] = [@ EXCEPT !.status = "Executed"]]
            BY <1>1, <2>3, ExecuteInv
        <3>2. \A i \in Ids : Status(i)' = IF i = id THEN "Executed" ELSE Status(i)
            BY <1>1, <3>1 DEF Inv, BridgeTypeOK, Transfer, Status
        <3> QED
            BY <3>2
    <2>4. ASSUME UNCHANGED pendingTransfers
          PROVE  Step
        BY <2>4 DEF Status
    <2> QED
        BY <1>1, <2>1, <2>2, <2>3, <2>4, OwnerInv DEF BridgeNext
<1> QED
    BY <1>1, InvHolds, PTL DEF BridgeSpec, CompletedByQuorum

-----------------------------------------------------------------------------
(* The bridge is backed                                                    *)

\* What a finite set of transfers is worth, with one transfer more or less.
LEMMA WorthOfSet ==
    ASSUME NEW S \in SUBSET Ids, IsFiniteSet(S), NEW id \in Ids
    PROVE  /\ WorthOf(S) \in Nat
           /\ id \notin S => WorthOf(S \cup {id}) = WorthOf(S) + id.request.amount
           /\ id \in S => WorthOf(S) = WorthOf(S \ {id}) + id.request.amount /\ WorthOf(S \ {id}) \in Nat
PROOF
<1> DEFINE f == [i \in Ids |-> i.request.amount]
<1>1. \A i \in Ids : f[i] \in Nat /\ f[i] \in Int
    BY RequestsAssumption DEF Ids
<1>2. f[id] = id.request.amount
    OBVIOUS
<1>3. WorthOf(S) = SumFunctionOnSet(f, S) /\ WorthOf(S \ {id}) = SumFunctionOnSet(f, S \ {id})
      /\ WorthOf(S \cup {id}) = SumFunctionOnSet(f, S \cup {id})
    BY DEF WorthOf
<1> HIDE DEF f
<1>4. WorthOf(S) \in Nat
    BY <1>1, <1>3, SumNat
<1>5. ASSUME id \notin S PROVE WorthOf(S \cup {id}) = WorthOf(S) + id.request.amount
    <2>1. WorthOf(S \cup {id}) = f[id] + WorthOf(S)
        BY <1>1, <1>3, <1>5, SumAdd
    <2> QED
        BY <1>1, <1>2, <1>4, <2>1
<1>6. ASSUME id \in S
      PROVE  WorthOf(S) = WorthOf(S \ {id}) + id.request.amount /\ WorthOf(S \ {id}) \in Nat
    <2>1. WorthOf(S) = f[id] + WorthOf(S \ {id})
        BY <1>1, <1>3, <1>6, SumRemove
    <2>2. IsFiniteSet(S \ {id})
        BY FS_Subset
    <2>3. WorthOf(S \ {id}) \in Nat
        BY <1>1, <1>3, <2>2, SumNat
    <2> QED
        BY <1>1, <1>2, <2>1, <2>3
<1> QED
    BY <1>4, <1>5, <1>6

\* The transfers that are not paid are finitely many.
BackedInv == IsFiniteSet(Unpaid) /\ Backed

LEMMA InitBacked == BridgeInit => BackedInv
PROOF
<1> SUFFICES ASSUME BridgeInit PROVE BackedInv
    OBVIOUS
<1>1. Unpaid = {}
    BY DEF BridgeInit, Unpaid, Status
<1>2. WorthOf({}) = 0
    BY SumEmpty DEF WorthOf
<1>3. \A c \in Chains : {id \in Unpaid : id.request.target = c} = {}
    BY <1>1
<1>4. bridge_held = 0 /\ \A c \in Chains : lockedAssets[c] = 0
    BY DEF BridgeInit
<1>5. \A c \in Chains : lockedAssets[c] >= WorthOf({id \in Unpaid : id.request.target = c})
    BY <1>2, <1>3, <1>4
<1> QED
    BY <1>1, <1>2, <1>4, <1>5, FS_EmptySet DEF BackedInv, Backed

\* Both amounts grow by what a new transfer is worth, and also when its id
\* was initiated before.
LEMMA InitiateBacked ==
    ASSUME Inv, BackedInv, NEW r \in Requests, InitiateTransfer(r) \/ InitiatePrivateTransfer(r)
    PROVE  BackedInv'
PROOF
<1> DEFINE id == IdOf(r)
<1>1. id \in Ids /\ id.request = r /\ pendingTransfers' = Reset(id) /\ UNCHANGED completedTransfers
    BY IdOfType DEF Inv, InitiateTransfer, InitiatePrivateTransfer, IdOf
<1>2. \A i \in Ids : Status(i)' = IF i = id THEN "Pending" ELSE Status(i)
    BY <1>1 DEF Inv, BridgeTypeOK, Transfer, Reset, Status
<1>3. r.amount \in Nat /\ r.target \in Chains
    BY RequestsAssumption
<1>4. bridge_held \in Nat /\ bridge_held' = bridge_held + r.amount
    <2>1. CASE InitiateTransfer(r)
        BY <2>1, BridgeBoundsAssumption DEF InitiateTransfer, Inv, BridgeTypeOK
    <2>2. CASE InitiatePrivateTransfer(r)
        BY <2>2, RequestsAssumption, BridgeBoundsAssumption DEF InitiatePrivateTransfer, Inv, BridgeTypeOK
    <2> QED
        BY <2>1, <2>2
<1>5. \A c \in Chains : lockedAssets[c] \in Nat /\ lockedAssets'[c] \in Nat
          /\ lockedAssets'[c] >= IF c = r.target THEN lockedAssets[c] + r.amount ELSE lockedAssets[c]
    <2>1. CASE InitiateTransfer(r)
        BY <1>3, <2>1 DEF InitiateTransfer, Inv, BridgeTypeOK
    <2>2. CASE InitiatePrivateTransfer(r)
        BY <1>3, <2>2, RequestsAssumption DEF InitiatePrivateTransfer, Inv, BridgeTypeOK
    <2> QED
        BY <2>1, <2>2
<1> HIDE DEF id
<1>6. Unpaid \in SUBSET Ids /\ IsFiniteSet(Unpaid)
    BY DEF Unpaid, BackedInv
<1>7. CASE Unpaid' = Unpaid
    <2>1. bridge_held' >= WorthOf(Unpaid')
        <3>1. WorthOf(Unpaid) \in Nat
            BY <1>1, <1>6, WorthOfSet
        <3> QED
            BY <1>3, <1>4, <1>7, <3>1 DEF BackedInv, Backed
    <2>2. ASSUME NEW c \in Chains
          PROVE  lockedAssets'[c] >= WorthOf({i \in Unpaid' : i.request.target = c})
        <3> DEFINE S == {i \in Unpaid : i.request.target = c}
        <3>1. S \in SUBSET Ids /\ IsFiniteSet(S)
            BY <1>6, FS_Subset
        <3>2. WorthOf(S) \in Nat
            BY <1>1, <3>1, WorthOfSet
        <3>3. lockedAssets[c] >= WorthOf(S)
            BY DEF BackedInv, Backed
        <3>4. WorthOf({i \in Unpaid' : i.request.target = c}) = WorthOf(S)
            BY <1>7
        <3>5. lockedAssets[c] \in Nat /\ lockedAssets'[c] \in Nat /\ lockedAssets'[c] >= lockedAssets[c]
            BY <1>3, <1>5
        <3> HIDE DEF S
        <3> QED
            BY <3>2, <3>3, <3>4, <3>5
    <2> QED
        BY <1>6, <1>7, <2>1, <2>2 DEF BackedInv, Backed
<1>8. CASE Unpaid' # Unpaid
    <2>1. id \notin Unpaid /\ Unpaid' = Unpaid \cup {id}
        BY <1>1, <1>2, <1>8 DEF Unpaid
    <2>2. IsFiniteSet(Unpaid')
        BY <1>6, <2>1, FS_AddElement
    <2>3. bridge_held' >= WorthOf(Unpaid')
        <3>1. WorthOf(Unpaid) \in Nat /\ WorthOf(Unpaid \cup {id}) = WorthOf(Unpaid) + r.amount
            BY <1>1, <1>6, <2>1, WorthOfSet
        <3>2. bridge_held >= WorthOf(Unpaid)
            BY DEF BackedInv, Backed
        <3> QED
            BY <1>3, <1>4, <2>1, <3>1, <3>2
    <2>4. ASSUME NEW c \in Chains
          PROVE  lockedAssets'[c] >= WorthOf({i \in Unpaid' : i.request.target = c})
        <3> DEFINE S == {i \in Unpaid : i.request.target = c}
        <3>1. S \in SUBSET Ids /\ IsFiniteSet(S) /\ id \notin S
            BY <1>6, <2>1, FS_Subset
        <3>2. WorthOf(S) \in Nat /\ WorthOf(S \cup {id}) = WorthOf(S) + r.amount
            BY <1>1, <3>1, WorthOfSet
        <3>3. lockedAssets[c] >= WorthOf(S)
            BY DEF BackedInv, Backed
        <3>4. {i \in Unpaid' : i.request.target = c} = IF c = r.target THEN S \cup {id} ELSE S
            BY <1>1, <2>1
        <3> HIDE DEF S
        <3> DEFINE w == WorthOf({i \in Unpaid' : i.request.target = c})
        <3>5. CASE c = r.target
            <4>1. w = WorthOf(S) + r.amount
                BY <3>2, <3>4, <3>5
            <4>2. lockedAssets[c] \in Nat /\ lockedAssets'[c] \in Nat /\ lockedAssets'[c] >= lockedAssets[c] + r.amount
                BY <1>5, <3>5
            <4> HIDE DEF w
            <4>3. lockedAssets'[c] >= w
                BY <1>3, <3>2, <3>3, <4>1, <4>2
            <4> QED
                BY <4>3 DEF w
        <3>6. CASE c # r.target
            <4>1. w = WorthOf(S)
                BY <3>4, <3>6
            <4>2. lockedAssets[c] \in Nat /\ lockedAssets'[c] \in Nat /\ lockedAssets'[c] >= lockedAssets[c]
                BY <1>5, <3>6
            <4> HIDE DEF w
            <4>3. lockedAssets'[c] >= w
                BY <3>2, <3>3, <4>1, <4>2
            <4> QED
                BY <4>3 DEF w
        <3> QED
            BY <3>5, <3>6
    <2> QED
        BY <2>2, <2>3, <2>4 DEF BackedInv, Backed
<1> QED
    BY <1>7, <1>8

\* Both amounts shrink by at most what the paid transfer is worth.
LEMMA ExecuteBacked ==
    ASSUME Inv, BackedInv, NEW id \in Ids, ExecuteTransfer(id)
    PROVE  BackedInv'
PROOF
<1>1. id.request.amount \in Nat
    BY RequestsAssumption DEF Ids
<1>2. pendingTransfers' = [pendingTransfers EXCEPT ![id] = [@ EXCEPT !.status = "Executed"]]
      /\ completedTransfers' = completedTransfers \cup {id}
      /\ Status(id) = "SignaturesComplete" /\ id \notin completedTransfers /\ id.request.target = Here
    BY DEF ExecuteTransfer, Status
<1>3. \A i \in Ids : Status(i)' = IF i = id THEN "Executed" ELSE Status(i)
    BY <1>2 DEF Inv, BridgeTypeOK, Transfer, Status
<1>4. id \in Unpaid /\ Unpaid' = Unpaid \ {id}
    BY <1>2, <1>3 DEF Unpaid
<1>5. Unpaid \in SUBSET Ids /\ IsFiniteSet(Unpaid)
    BY DEF Unpaid, BackedInv
<1>6. IsFiniteSet(Unpaid')
    BY <1>4, <1>5, FS_Subset
<1>7. /\ bridge_held \in Nat /\ bridge_held' \in Nat /\ bridge_held' >= bridge_held - id.request.amount
      /\ \A c \in Chains : /\ lockedAssets[c] \in Nat /\ lockedAssets'[c] \in Nat
                           /\ lockedAssets'[c] >= IF c = Here THEN lockedAssets[c] - id.request.amount
                                                  ELSE lockedAssets[c]
    <2>1. CASE wrapped
        BY <1>1, <2>1, BridgeBoundsAssumption DEF ExecuteTransfer, Release, Inv, BridgeTypeOK, funds
    <2>2. CASE ~wrapped
        BY <1>1, <2>2, HereAssumption, BridgeBoundsAssumption DEF ExecuteTransfer, Release, Inv, BridgeTypeOK
    <2> QED
        BY <2>1, <2>2
<1>8. bridge_held' >= WorthOf(Unpaid')
    <2>1. WorthOf(Unpaid) = WorthOf(Unpaid \ {id}) + id.request.amount /\ WorthOf(Unpaid \ {id}) \in Nat
        BY <1>4, <1>5, WorthOfSet
    <2>2. bridge_held >= WorthOf(Unpaid)
        BY DEF BackedInv, Backed
    <2> QED
        BY <1>1, <1>4, <1>7, <2>1, <2>2
<1>9. ASSUME NEW c \in Chains
      PROVE  lockedAssets'[c] >= WorthOf({i \in Unpaid' : i.request.target = c})
    <2> DEFINE S == {i \in Unpaid : i.request.target = c}
    <2>1. S \in SUBSET Ids /\ IsFiniteSet(S) /\ (c = Here <=> id \in S)
        BY <1>2, <1>4, <1>5, FS_Subset
    <2>2. lockedAssets[c] >= WorthOf(S)
        BY DEF BackedInv, Backed
    <2>3. WorthOf({i \in Unpaid' : i.request.target = c}) = WorthOf(S \ {id})
        <3>1. {i \in Unpaid' : i.request.target = c} = S \ {id}
            BY <1>4
        <3> QED
            BY <3>1
    <2> HIDE DEF S
    <2>4. CASE c = Here
        <3>1. WorthOf(S) = WorthOf(S \ {id}) + id.request.amount /\ WorthOf(S \ {id}) \in Nat
            BY <2>1, <2>4, WorthOfSet
        <3>2. lockedAssets[c] \in Nat /\ lockedAssets'[c] \in Nat
              /\ lockedAssets'[c] >= lockedAssets[c] - id.request.amount
            BY <1>7, <2>4
        <3> QED
            BY <1>1, <2>2, <2>3, <3>1, <3>2
    <2>5. CASE c # Here
        <3>1. WorthOf(S \ {id}) = WorthOf(S)
            <4>1. S \ {id} = S
                BY <2>1, <2>5
            <4> QED
                BY <4>1
        <3>2. WorthOf(S) \in Nat
            BY <2>1, WorthOfSet
        <3>3. lockedAssets[c] \in Nat /\ lockedAssets'[c] \in Nat /\ lockedAssets'[c] >= lockedAssets[c]
            BY <1>7, <2>5
        <3> QED
            BY <2>2, <2>3, <3>1, <3>2, <3>3
    <2> QED
        BY <2>4, <2>5
<1> QED
    BY <1>6, <1>8, <1>9 DEF BackedInv, Backed

\* The other steps change neither the amounts nor what is unpaid.
LEMMA OtherBacked ==
    ASSUME Inv, BackedInv, UNCHANGED <<funds, completedTransfers>>,
           \A id \in Ids : Status(id)' = "None" <=> Status(id) = "None"
    PROVE  BackedInv'
PROOF
<1>1. Unpaid' = Unpaid
    BY DEF Unpaid
<1> QED
    BY <1>1 DEF BackedInv, Backed, funds

\* The bridge always holds what its open transfers are worth, and has booked
\* at least as much for each chain: a transfer that collected its signatures
\* is never refused for want of locked assets.
THEOREM AlwaysBacked == BridgeSpec => []Backed
PROOF
<1>1. ASSUME Inv, BackedInv, [BridgeNext]_bridgeVars
      PROVE  BackedInv'
    <2>1. ASSUME NEW r \in Requests, InitiateTransfer(r) \/ InitiatePrivateTransfer(r)
          PROVE  BackedInv'
        BY <1>1, <2>1, InitiateBacked
    <2>2. ASSUME NEW v \in BridgeValidators, NEW id \in Ids, SignTransfer(v, id)
          PROVE  BackedInv'
        <3>1. UNCHANGED <<funds, completedTransfers>>
            BY <2>2 DEF SignTransfer
        <3>2. \A i \in Ids : Status(i)' = "None" <=> Status(i) = "None"
            BY <1>1, <2>2, SignInv
        <3> QED
            BY <1>1, <3>1, <3>2, OtherBacked
    <2>3. ASSUME NEW id \in Ids, ExecuteTransfer(id)
          PROVE  BackedInv'
        BY <1>1, <2>3, ExecuteBacked
    <2>4. ASSUME UNCHANGED <<transferVars, funds>>
          PROVE  BackedInv'
        BY <1>1, <2>4, OtherBacked DEF Status, transferVars
    <2> QED
        BY <1>1, <2>1, <2>2, <2>3, <2>4
        DEF BridgeNext, AddChain, DeactivateChain, AddValidator, DeactivateValidator,
            SetValidatorThreshold, RegisterWrappedAsset, NextBlock, bridgeVars
<1>2. BackedInv => Backed
    BY DEF BackedInv
<1> QED
    BY <1>1, <1>2, InitBacked, InvHolds, PTL DEF BridgeSpec

-----------------------------------------------------------------------------
(* The bridge is an escrow                                                 *)

\* What the escrow sees of a step that writes the record of one transfer:
\* nothing else is opened, approved or endorsed.
LEMMA RecordWritten ==
    ASSUME Inv, NEW id \in Ids, NEW t \in Transfer,
           pendingTransfers' = [pendingTransfers EXCEPT ![id] = t],
           completedTransfers' = completedTransfers
    PROVE  /\ Unpaid' = IF t.status # "None" /\ id \notin completedTransfers
                        THEN Unpaid \cup {id} ELSE Unpaid \ {id}
           /\ Approved' = IF t.status = "SignaturesComplete" /\ id \notin completedTransfers
                          THEN Approved \cup {id} ELSE Approved \ {id}
           /\ [i \in Ids |-> pendingTransfers'[i].signatures] =
                  [[i \in Ids |-> pendingTransfers[i].signatures] EXCEPT ![id] = t.signatures]
PROOF
<1>1. pendingTransfers \in [Ids -> Transfer]
    BY DEF Inv, BridgeTypeOK
<1>2. pendingTransfers'[id] = t /\ \A i \in Ids \ {id} : pendingTransfers'[i] = pendingTransfers[i]
    BY <1>1
<1>3. \A i \in Ids : Status(i)' = IF i = id THEN t.status ELSE Status(i)
    BY <1>2 DEF Status
<1>4. Unpaid' = {i \in Ids : Status(i)' # "None" /\ i \notin completedTransfers}
    BY DEF Unpaid
<1>5. Unpaid' = IF t.status # "None" /\ id \notin completedTransfers THEN Unpaid \cup {id} ELSE Unpaid \ {id}
    BY <1>3, <1>4 DEF Unpaid
<1>6. Approved' = {i \in Unpaid' : Status(i)' = "SignaturesComplete"}
    BY DEF Approved
<1>7. Approved' = IF t.status = "SignaturesComplete" /\ id \notin completedTransfers
                  THEN Approved \cup {id} ELSE Approved \ {id}
    BY <1>3, <1>4, <1>6 DEF Approved, Unpaid
<1>8. [i \in Ids |-> pendingTransfers'[i].signatures] =
          [[i \in Ids |-> pendingTransfers[i].signatures] EXCEPT ![id] = t.signatures]
    <2> DEFINE f == [i \in Ids |-> pendingTransfers[i].signatures]
               g == [i \in Ids |-> pendingTransfers'[i].signatures]
    <2>1. \A i \in Ids : g[i] = IF i = id THEN t.signatures ELSE f[i]
        BY <1>2
    <2>2. g = [i \in Ids |-> g[i]] /\ DOMAIN f = Ids
        OBVIOUS
    <2> HIDE DEF f, g
    <2>3. g = [f EXCEPT ![id] = t.signatures]
        BY <2>1, <2>2
    <2> QED
        BY <2>3 DEF f, g
<1> QED
    BY <1>5, <1>7, <1>8

\* initiateTransfer opens a claim or opens it again.
LEMMA InitiateRefines ==
    ASSUME Inv, NEW r \in Requests, InitiateTransfer(r)
    PROVE  Promise!EscrowNext
PROOF
<1> DEFINE id == IdOf(r)
           t == [signatures |-> pendingTransfers[id].signatures, signatureCount |-> 0, status |-> "Pending"]
<1>1. id \in Ids /\ id.request = r
    BY IdOfType DEF Inv, IdOf
<1>2. pendingTransfers[id] \in Transfer
    BY <1>1 DEF Inv, BridgeTypeOK
<1>3. t \in Transfer /\ t.status = "Pending" /\ t.signatures = pendingTransfers[id].signatures
    BY <1>2 DEF Transfer, Statuses
<1>4. /\ pendingTransfers' = [pendingTransfers EXCEPT ![id] = t]
      /\ completedTransfers' = completedTransfers /\ id \notin completedTransfers
      /\ bridge_held' = bridge_held + r.amount /\ validatorThreshold' = validatorThreshold
    BY DEF InitiateTransfer, Reset, admin
<1> HIDE DEF id, t
<1>5. /\ Unpaid' = Unpaid \cup {id} /\ Approved' = Approved \ {id}
      /\ [i \in Ids |-> pendingTransfers'[i].signatures] =
             [[i \in Ids |-> pendingTransfers[i].signatures] EXCEPT ![id] = t.signatures]
    BY <1>1, <1>3, <1>4, RecordWritten
<1>6. [i \in Ids |-> pendingTransfers'[i].signatures] = [i \in Ids |-> pendingTransfers[i].signatures]
    BY <1>1, <1>3, <1>5
<1>7. [i \in Ids |-> i.request.amount][id] = r.amount
    BY <1>1
<1>8. Promise!Open(id)
    BY <1>4, <1>5, <1>6, <1>7 DEF Promise!Open
<1> QED
    BY <1>1, <1>8 DEF Promise!EscrowNext

\* initiatePrivateTransfer opens a claim of no value; of a completed one the
\* escrow sees nothing.
LEMMA InitiatePrivateRefines ==
    ASSUME Inv, NEW r \in Requests, InitiatePrivateTransfer(r)
    PROVE  Promise!EscrowNext \/ UNCHANGED Promise!escrowVars
PROOF
<1> DEFINE id == IdOf(r)
           t == [signatures |-> pendingTransfers[id].signatures, signatureCount |-> 0, status |-> "Pending"]
<1>1. id \in Ids /\ id.request = r /\ r.amount = 0
    BY IdOfType, RequestsAssumption DEF Inv, IdOf, InitiatePrivateTransfer
<1>2. pendingTransfers[id] \in Transfer
    BY <1>1 DEF Inv, BridgeTypeOK
<1>3. t \in Transfer /\ t.status = "Pending" /\ t.signatures = pendingTransfers[id].signatures
    BY <1>2 DEF Transfer, Statuses
<1>4. /\ pendingTransfers' = [pendingTransfers EXCEPT ![id] = t]
      /\ completedTransfers' = completedTransfers
      /\ bridge_held' = bridge_held /\ bridge_held \in Int /\ validatorThreshold' = validatorThreshold
    BY BridgeBoundsAssumption DEF InitiatePrivateTransfer, Reset, admin, Inv, BridgeTypeOK
<1> HIDE DEF id, t
<1>5. /\ Unpaid' = IF id \notin completedTransfers THEN Unpaid \cup {id} ELSE Unpaid \ {id}
      /\ Approved' = Approved \ {id}
      /\ [i \in Ids |-> pendingTransfers'[i].signatures] =
             [[i \in Ids |-> pendingTransfers[i].signatures] EXCEPT ![id] = t.signatures]
    BY <1>1, <1>3, <1>4, RecordWritten
<1>6. [i \in Ids |-> pendingTransfers'[i].signatures] = [i \in Ids |-> pendingTransfers[i].signatures]
    BY <1>1, <1>3, <1>5
<1>7. CASE id \notin completedTransfers
    <2>1. [i \in Ids |-> i.request.amount][id] = 0
        BY <1>1
    <2>2. bridge_held' = bridge_held + 0
        BY <1>4
    <2>3. Promise!Open(id)
        BY <1>4, <1>5, <1>6, <1>7, <2>1, <2>2 DEF Promise!Open
    <2> QED
        BY <1>1, <2>3 DEF Promise!EscrowNext
<1>8. CASE id \in completedTransfers
    <2>1. Unpaid' = Unpaid /\ Approved' = Approved
        BY <1>5, <1>8 DEF Unpaid, Approved
    <2> QED
        BY <1>4, <1>6, <2>1 DEF Promise!escrowVars
<1> QED
    BY <1>7, <1>8

\* signTransfer endorses a claim, and approves it only with a quorum.
LEMMA SignRefines ==
    ASSUME Inv, NEW v \in BridgeValidators, NEW id \in Ids, SignTransfer(v, id)
    PROVE  Promise!EscrowNext
PROOF
<1> DEFINE old == pendingTransfers[id]
           t == pendingTransfers'[id]
           signers == [i \in Ids |-> pendingTransfers[i].signatures]
<1>1. Inv' /\ old \in Transfer /\ t \in Transfer
    BY SignInv DEF Inv, BridgeTypeOK
<1>2. /\ old.status # "None" /\ old.status # "Executed"
      /\ completedTransfers' = completedTransfers
      /\ bridge_held' = bridge_held /\ validatorThreshold' = validatorThreshold
    BY DEF SignTransfer, admin, funds
<1>3. /\ pendingTransfers' = [pendingTransfers EXCEPT ![id] = t]
      /\ t.signatures = old.signatures \cup {v}
      /\ t.status # "None"
      /\ t.status = "SignaturesComplete" => t.signatureCount >= validatorThreshold
    <2> DEFINE recorded == RecordSignature(old, v)
               status == IF recorded.signatureCount >= validatorThreshold
                         THEN "SignaturesComplete" ELSE "SourceConfirmed"
    <2>1. pendingTransfers' = [pendingTransfers EXCEPT ![id] = [recorded EXCEPT !.status = status]]
        BY DEF SignTransfer
    <2>2. recorded.signatures = old.signatures \cup {v} /\ recorded \in Transfer
        <3> HIDE DEF old
        <3>1. CASE v \in old.signatures
            BY <1>1, <3>1 DEF RecordSignature
        <3>2. CASE v \notin old.signatures
            <4>1. recorded = [signatures |-> old.signatures \cup {v}, signatureCount |-> old.signatureCount + 1,
                              status |-> old.status]
                BY <1>1, <3>2 DEF RecordSignature, Transfer
            <4> QED
                BY <1>1, <4>1 DEF Transfer
        <3> QED
            BY <3>1, <3>2
    <2> HIDE DEF recorded
    <2>3. pendingTransfers \in [Ids -> Transfer]
        BY DEF Inv, BridgeTypeOK
    <2>4. t = [recorded EXCEPT !.status = status]
        BY <2>1, <2>3
    <2>5. t.signatures = recorded.signatures /\ t.status = status /\ t.signatureCount = recorded.signatureCount
        BY <2>2, <2>4 DEF Transfer
    <2>6. pendingTransfers' = [pendingTransfers EXCEPT ![id] = t]
        BY <2>1, <2>4
    <2> HIDE DEF t, old
    <2> QED
        BY <2>2, <2>5, <2>6
<1>4. t.signatureCount <= Cardinality(t.signatures)
    BY <1>1 DEF Inv
<1>5. t.status = "SignaturesComplete" => Cardinality(t.signatures) >= validatorThreshold
    <2>1. validatorThreshold \in Nat /\ t.signatureCount \in Nat /\ t.signatures \in SUBSET BridgeValidators
        BY <1>1, ThresholdsAssumption DEF Inv, BridgeTypeOK, Transfer
    <2>2. Cardinality(t.signatures) \in Nat
        BY <2>1, SignersCount
    <2> QED
        BY <1>3, <1>4, <2>1, <2>2
<1>6. /\ Unpaid' = IF id \notin completedTransfers THEN Unpaid \cup {id} ELSE Unpaid \ {id}
      /\ Approved' = IF t.status = "SignaturesComplete" /\ id \notin completedTransfers
                     THEN Approved \cup {id} ELSE Approved \ {id}
      /\ [i \in Ids |-> pendingTransfers'[i].signatures] = [signers EXCEPT ![id] = t.signatures]
    <2> HIDE DEF t
    <2> QED
        BY <1>1, <1>2, <1>3, RecordWritten
<1>7. id \in Unpaid \/ id \in completedTransfers
    BY <1>2 DEF Unpaid, Status
<1>8. Unpaid' = Unpaid
    BY <1>6, <1>7 DEF Unpaid
<1>9. /\ signers[id] \cup {v} = t.signatures
      /\ [i \in Ids |-> pendingTransfers'[i].signatures][id] = t.signatures
      /\ [i \in Ids |-> pendingTransfers'[i].signatures] = [signers EXCEPT ![id] = @ \cup {v}]
    BY <1>3, <1>6
<1> HIDE DEF t, old, signers
<1>10. \/ /\ id \in Unpaid
          /\ Cardinality([i \in Ids |-> pendingTransfers'[i].signatures][id]) >= validatorThreshold
          /\ Approved' = Approved \cup {id}
       \/ Approved' = Approved \ {id}
    BY <1>5, <1>6, <1>7, <1>9
<1>11. Promise!Endorse(v, id)
    BY <1>2, <1>7, <1>8, <1>9, <1>10 DEF Promise!Endorse, signers, Promise!Cardinality, Cardinality
<1> QED
    BY <1>11 DEF Promise!EscrowNext

\* executeTransfer pays a claim that is approved.
LEMMA ExecuteRefines ==
    ASSUME Inv, NEW id \in Ids, ExecuteTransfer(id)
    PROVE  Promise!EscrowNext
PROOF
<1>1. /\ pendingTransfers[id].status = "SignaturesComplete" /\ id \notin completedTransfers
      /\ completedTransfers' = completedTransfers \cup {id}
      /\ validatorThreshold' = validatorThreshold
    BY DEF ExecuteTransfer, admin
<1>2. /\ pendingTransfers'[id].signatures = pendingTransfers[id].signatures
      /\ \A i \in Ids \ {id} : pendingTransfers'[i] = pendingTransfers[i]
    <2>1. /\ pendingTransfers \in [Ids -> Transfer]
          /\ pendingTransfers' = [pendingTransfers EXCEPT ![id] = [@ EXCEPT !.status = "Executed"]]
        BY ExecuteInv DEF Inv, BridgeTypeOK
    <2> QED
        BY <2>1 DEF Transfer
<1>3. id \in Approved
    BY <1>1 DEF Approved, Unpaid, Status
<1>4. Unpaid' = Unpaid \ {id}
    BY <1>1, <1>2 DEF Unpaid, Status
<1>5. Approved' = Approved \ {id}
    BY <1>2, <1>4 DEF Approved, Unpaid, Status
<1>6. [i \in Ids |-> pendingTransfers'[i].signatures] = [i \in Ids |-> pendingTransfers[i].signatures]
    BY <1>2
<1>7. bridge_held' \in {bridge_held, bridge_held - [i \in Ids |-> i.request.amount][id]}
    BY DEF ExecuteTransfer, Release, funds
<1>8. Promise!Pay(id)
    BY <1>1, <1>3, <1>4, <1>5, <1>6, <1>7 DEF Promise!Pay
<1> QED
    BY <1>8 DEF Promise!EscrowNext

\* The contract implements Escrow, for any chains, requests, validators and
\* thresholds: initiating is opening a claim, signing is endorsing it,
\* executing is paying it, and of everything else an escrow sees at most a
\* change of the threshold.
THEOREM BridgeIsEscrow == BridgeSpec => KeepsEscrow
PROOF
<1>1. BridgeInit => Promise!EscrowInit
    <2> SUFFICES ASSUME BridgeInit PROVE Promise!EscrowInit
        OBVIOUS
    <2>1. \A i \in Ids : Status(i) = "None" /\ pendingTransfers[i].signatures = {}
        BY DEF BridgeInit, Status
    <2>2. Unpaid = {} /\ Approved = {}
        BY <2>1 DEF Unpaid, Approved
    <2>3. [i \in Ids |-> pendingTransfers[i].signatures] = [i \in Ids |-> {}]
        BY <2>1
    <2> QED
        BY <2>2, <2>3 DEF BridgeInit, Promise!EscrowInit
<1>2. ASSUME Inv, [BridgeNext]_bridgeVars
      PROVE  [Promise!EscrowNext]_(Promise!escrowVars)
    <2>1. ASSUME NEW n \in Thresholds, SetValidatorThreshold(n)
          PROVE  Promise!EscrowNext
        <3>1. Promise!ChangeQuorum(n)
            BY <2>1 DEF SetValidatorThreshold, transferVars, funds, Promise!ChangeQuorum, Unpaid, Approved, Status
        <3> QED
            BY <3>1 DEF Promise!EscrowNext
    <2>2. ASSUME \/ \E c \in Chains : AddChain(c) \/ DeactivateChain(c)
                 \/ \E v \in BridgeValidators : AddValidator(v) \/ DeactivateValidator(v)
                 \/ \E exists \in BOOLEAN : RegisterWrappedAsset(exists)
                 \/ NextBlock
                 \/ UNCHANGED bridgeVars
          PROVE  UNCHANGED Promise!escrowVars
        <3>1. UNCHANGED <<pendingTransfers, completedTransfers, bridge_held, validatorThreshold>>
            BY <2>2 DEF AddChain, DeactivateChain, AddValidator, DeactivateValidator, RegisterWrappedAsset,
                        NextBlock, bridgeVars, admin, transferVars, funds
        <3> QED
            BY <3>1 DEF Promise!escrowVars, Unpaid, Approved, Status
    <2> QED
        BY <1>2, <2>1, <2>2, InitiateRefines, InitiatePrivateRefines, SignRefines, ExecuteRefines DEF BridgeNext
<1> QED
    BY <1>1, <1>2, InvHolds, PTL DEF BridgeSpec, KeepsEscrow, Promise!EscrowSpec
=============================================================================
