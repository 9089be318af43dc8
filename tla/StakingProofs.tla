---------------------------- MODULE StakingProofs ----------------------------
(***************************************************************************)
(* Proofs about the staking contract, for any finite sets of validators,   *)
(* delegators and nullifiers, any amounts, rates and bounds.               *)
(***************************************************************************)
EXTENDS Staking, DataTheorems, FiniteSetTheorems, TLAPS

\* Nothing is delegated to an address that did not register, and the public
\* delegations of a validator are part of all of its delegations.
RegistryInv ==
    \A v \in Validators :
        /\ totalDelegatedTo[v] <= validators[v].totalDelegated
        /\ v \notin isValidator => totalDelegatedTo[v] = 0 /\ validators[v].totalDelegated = 0

Inv == TypeOK /\ RegistryInv /\ LedgersAgree /\ ExitUnlessSlashed

-----------------------------------------------------------------------------
(* Sums of delegations                                                     *)

\* Both ways of adding up the delegations follow a change of one of them.
LEMMA DelegationUpdate ==
    ASSUME TypeOK, NEW d \in Delegators, NEW v \in Validators, NEW n \in Nat,
           delegations' = [delegations EXCEPT ![d][v] = n]
    PROVE  /\ delegations' \in [Delegators -> [Validators -> Nat]]
           /\ \A w \in Validators : DelegatedTo(w)' = IF w = v THEN DelegatedTo(v) - delegations[d][v] + n
                                                               ELSE DelegatedTo(w)
           /\ \A e \in Delegators : DelegatedBy(e)' = IF e = d THEN DelegatedBy(d) - delegations[d][v] + n
                                                               ELSE DelegatedBy(e)
PROOF
<1>1. /\ delegations \in [Delegators -> [Validators -> Nat]]
      /\ delegations' \in [Delegators -> [Validators -> Nat]]
      /\ delegations'[d][v] = n
      /\ \A e \in Delegators : \A w \in Validators : e # d \/ w # v => delegations'[e][w] = delegations[e][w]
      /\ \A e \in Delegators : e # d => delegations'[e] = delegations[e]
    BY DEF TypeOK
<1>2. ASSUME NEW w \in Validators
      PROVE  DelegatedTo(w)' = IF w = v THEN DelegatedTo(v) - delegations[d][v] + n ELSE DelegatedTo(w)
    <2> DEFINE f == [e \in Delegators |-> delegations[e][w]]
               g == [e \in Delegators |-> delegations'[e][w]]
    <2>1. DelegatedTo(w) = SumFunctionOnSet(f, Delegators) /\ DelegatedTo(w)' = SumFunctionOnSet(g, Delegators)
        BY DEF DelegatedTo
    <2>2. \A e \in Delegators : f[e] = delegations[e][w] /\ g[e] = delegations'[e][w]
                                /\ f[e] \in Int /\ g[e] \in Int
        BY <1>1
    <2> HIDE DEF f, g
    <2>3. CASE w = v
        <3>1. \A e \in Delegators \ {d} : f[e] = g[e]
            BY <1>1, <2>2
        <3>2. SumFunctionOnSet(g, Delegators) = SumFunctionOnSet(f, Delegators) - f[d] + g[d]
            BY <2>2, <3>1, FiniteAssumption, SumUpdate
        <3> QED
            BY <1>1, <2>1, <2>2, <2>3, <3>2
    <2>4. CASE w # v
        <3>1. \A e \in Delegators : f[e] = g[e]
            BY <1>1, <2>2, <2>4
        <3> QED
            BY <2>1, <2>4, <3>1, FiniteAssumption, SumSame
    <2> QED
        BY <2>3, <2>4
<1>3. ASSUME NEW e \in Delegators
      PROVE  DelegatedBy(e)' = IF e = d THEN DelegatedBy(d) - delegations[d][v] + n ELSE DelegatedBy(e)
    <2>1. CASE e = d
        <3>1. \A w \in Validators : delegations[d][w] \in Int /\ delegations'[d][w] \in Int
            BY <1>1
        <3>2. \A w \in Validators \ {v} : delegations[d][w] = delegations'[d][w]
            BY <1>1
        <3>3. SumFunctionOnSet(delegations'[d], Validators)
                  = SumFunctionOnSet(delegations[d], Validators) - delegations[d][v] + delegations'[d][v]
            <4> DEFINE f == delegations[d]
                       g == delegations'[d]
            <4>1. IsFiniteSet(Validators) /\ (\A w \in Validators : f[w] \in Int /\ g[w] \in Int)
                  /\ \A w \in Validators \ {v} : f[w] = g[w]
                BY <3>1, <3>2, FiniteAssumption
            <4> HIDE DEF f, g
            <4>2. SumFunctionOnSet(g, Validators) = SumFunctionOnSet(f, Validators) - f[v] + g[v]
                BY <4>1, SumUpdate
            <4> QED
                BY <4>2 DEF f, g
        <3> QED
            BY <1>1, <2>1, <3>3 DEF DelegatedBy
    <2>2. CASE e # d
        BY <1>1, <2>2 DEF DelegatedBy
    <2> QED
        BY <2>1, <2>2
<1> QED
    BY <1>1, <1>2, <1>3

LEMMA DelegatedNat ==
    ASSUME TypeOK
    PROVE  /\ \A v \in Validators : DelegatedTo(v) \in Nat
           /\ \A d \in Delegators : DelegatedBy(d) \in Nat
           /\ SumFunctionOnSet(totalDelegatedTo, Validators) \in Nat
PROOF
<1>1. ASSUME NEW v \in Validators PROVE DelegatedTo(v) \in Nat
    <2> DEFINE f == [e \in Delegators |-> delegations[e][v]]
    <2>1. \A e \in Delegators : f[e] \in Nat
        BY DEF TypeOK
    <2> HIDE DEF f
    <2>2. SumFunctionOnSet(f, Delegators) \in Nat
        BY <2>1, FiniteAssumption, SumNat
    <2> QED
        BY <2>2 DEF DelegatedTo, f
<1>2. ASSUME NEW d \in Delegators PROVE DelegatedBy(d) \in Nat
    <2>1. \A w \in Validators : delegations[d][w] \in Nat
        BY DEF TypeOK
    <2> QED
        BY <2>1, FiniteAssumption, SumNat DEF DelegatedBy
<1>3. SumFunctionOnSet(totalDelegatedTo, Validators) \in Nat
    <2>1. \A w \in Validators : totalDelegatedTo[w] \in Nat
        BY DEF TypeOK
    <2> QED
        BY <2>1, FiniteAssumption, SumNat
<1> QED
    BY <1>1, <1>2, <1>3

\* The total of the public delegations follows a change of one of them.
LEMMA TotalUpdate ==
    ASSUME TypeOK, NEW v \in Validators, NEW n \in Nat,
           totalDelegatedTo' = [totalDelegatedTo EXCEPT ![v] = n]
    PROVE  SumFunctionOnSet(totalDelegatedTo', Validators)
               = SumFunctionOnSet(totalDelegatedTo, Validators) - totalDelegatedTo[v] + n
PROOF
<1>1. \A w \in Validators : totalDelegatedTo[w] \in Int /\ totalDelegatedTo'[w] \in Int
    BY DEF TypeOK
<1>2. (\A w \in Validators \ {v} : totalDelegatedTo[w] = totalDelegatedTo'[w]) /\ totalDelegatedTo'[v] = n
    BY DEF TypeOK
<1>3. SumFunctionOnSet(totalDelegatedTo', Validators)
          = SumFunctionOnSet(totalDelegatedTo, Validators) - totalDelegatedTo[v] + totalDelegatedTo'[v]
    <2> DEFINE f == totalDelegatedTo
               g == totalDelegatedTo'
    <2>1. IsFiniteSet(Validators) /\ (\A w \in Validators : f[w] \in Int /\ g[w] \in Int)
          /\ \A w \in Validators \ {v} : f[w] = g[w]
        BY <1>1, <1>2, FiniteAssumption
    <2> HIDE DEF f, g
    <2>2. SumFunctionOnSet(g, Validators) = SumFunctionOnSet(f, Validators) - f[v] + g[v]
        BY <2>1, SumUpdate
    <2> QED
        BY <2>2 DEF f, g
<1> QED
    BY <1>2, <1>3

Private == SumFunctionOnSet([v \in Validators |-> validators[v].totalDelegated - totalDelegatedTo[v]], Validators)

\* The private delegations stay when both totals of a validator change alike.
LEMMA PrivateSame ==
    ASSUME TypeOK,
           \A v \in Validators : validators'[v].totalDelegated - totalDelegatedTo'[v]
                                     = validators[v].totalDelegated - totalDelegatedTo[v]
    PROVE  Private' = Private
PROOF
<1> DEFINE f == [v \in Validators |-> validators[v].totalDelegated - totalDelegatedTo[v]]
           g == [v \in Validators |-> validators'[v].totalDelegated - totalDelegatedTo'[v]]
<1>1. Private = SumFunctionOnSet(f, Validators) /\ Private' = SumFunctionOnSet(g, Validators)
    BY DEF Private
<1>2. \A v \in Validators : f[v] = g[v]
    OBVIOUS
<1> HIDE DEF f, g
<1> QED
    BY <1>1, <1>2, FiniteAssumption, SumSame

-----------------------------------------------------------------------------
(* The queue                                                               *)

LEMMA WorthNat ==
    ASSUME TypeOK, NEW S \in SUBSET (DOMAIN unbondingQueue)
    PROVE  /\ IsFiniteSet(S) /\ Worth(S) \in Nat
           /\ \A i \in DOMAIN unbondingQueue : unbondingQueue[i] \in UnbondingEntry
PROOF
<1> DEFINE f == [i \in DOMAIN unbondingQueue |-> unbondingQueue[i].amount]
<1>1. DOMAIN unbondingQueue = 1..Len(unbondingQueue) /\ Len(unbondingQueue) \in Nat
      /\ \A i \in DOMAIN unbondingQueue : unbondingQueue[i] \in UnbondingEntry
    BY DEF TypeOK
<1>2. IsFiniteSet(1..Len(unbondingQueue))
    <2>1. 1 \in Int /\ Len(unbondingQueue) \in Int
        BY <1>1
    <2> QED
        BY <2>1, FS_Interval
<1>3. IsFiniteSet(S)
    BY <1>1, <1>2, FS_Subset
<1>4. \A i \in S : f[i] \in Nat
    BY <1>1 DEF UnbondingEntry
<1> HIDE DEF f
<1>5. SumFunctionOnSet(f, S) \in Nat
    BY <1>3, <1>4, SumNat
<1> QED
    BY <1>1, <1>3, <1>5 DEF Worth, f

\* A set of entries is worth a part of it and the rest.
LEMMA WorthSplit ==
    ASSUME TypeOK, NEW S \in SUBSET (DOMAIN unbondingQueue), NEW T \in SUBSET S
    PROVE  Worth(S) = Worth(T) + Worth(S \ T)
PROOF
<1> DEFINE f == [i \in DOMAIN unbondingQueue |-> unbondingQueue[i].amount]
<1>1. \A i \in S : f[i] \in Int
    BY WorthNat DEF UnbondingEntry
<1>2. IsFiniteSet(S)
    BY WorthNat
<1> HIDE DEF f
<1>3. SumFunctionOnSet(f, S) = SumFunctionOnSet(f, T) + SumFunctionOnSet(f, S \ T)
    BY <1>1, <1>2, SumSplit
<1> QED
    BY <1>3 DEF Worth, f

\* What a set of entries is worth depends on their amounts only.
LEMMA WorthKept ==
    ASSUME TypeOK, NEW S \in SUBSET (DOMAIN unbondingQueue), S \subseteq DOMAIN unbondingQueue',
           \A i \in S : unbondingQueue'[i].amount = unbondingQueue[i].amount
    PROVE  SumFunctionOnSet([i \in DOMAIN unbondingQueue' |-> unbondingQueue'[i].amount], S) = Worth(S)
PROOF
<1> DEFINE f == [i \in DOMAIN unbondingQueue |-> unbondingQueue[i].amount]
           g == [i \in DOMAIN unbondingQueue' |-> unbondingQueue'[i].amount]
<1>1. \A i \in S : f[i] = g[i]
    OBVIOUS
<1>2. IsFiniteSet(S)
    BY WorthNat
<1> HIDE DEF f, g
<1>3. SumFunctionOnSet(f, S) = SumFunctionOnSet(g, S)
    BY <1>1, <1>2, SumSame
<1> QED
    BY <1>3 DEF Worth, f, g

-----------------------------------------------------------------------------
(* Records of validators                                                   *)

Record(stake, commission, active, delegated, rewards) ==
    [stake |-> stake, commission |-> commission, isActive |-> active,
     totalDelegated |-> delegated, rewardsAccumulated |-> rewards]

LEMMA RecordType ==
    ASSUME NEW s \in Nat, NEW c \in 0..FeeDenominator, NEW a \in BOOLEAN, NEW t \in Nat, NEW r \in Nat
    PROVE  Record(s, c, a, t, r) \in Validator
PROOF
    BY DEF Record, Validator

FieldNames == {"stake", "commission", "isActive", "totalDelegated", "rewardsAccumulated"}

\* A record is the tuple of its fields.
LEMMA RecordFields ==
    ASSUME NEW x, x = [i \in DOMAIN x |-> x[i]], DOMAIN x = FieldNames
    PROVE  x = Record(x.stake, x.commission, x.isActive, x.totalDelegated, x.rewardsAccumulated)
PROOF
    BY DEF Record, FieldNames

\* The updates the contract makes to a validator's record.
LEMMA StakeUpdate ==
    ASSUME NEW x \in Validator, NEW s, NEW t, NEW a
    PROVE  [x EXCEPT !.stake = s, !.totalDelegated = t, !.isActive = a]
               = Record(s, x.commission, a, t, x.rewardsAccumulated)
PROOF
<1> DEFINE y == [x EXCEPT !.stake = s, !.totalDelegated = t, !.isActive = a]
<1>1. DOMAIN x = FieldNames
    BY DEF Validator, FieldNames
<1>2. y = [i \in DOMAIN y |-> y[i]] /\ DOMAIN y = FieldNames
    BY <1>1
<1>3. y.stake = s /\ y.commission = x.commission /\ y.isActive = a
      /\ y.totalDelegated = t /\ y.rewardsAccumulated = x.rewardsAccumulated
    BY DEF Validator
<1> HIDE DEF y
<1>4. y = Record(y.stake, y.commission, y.isActive, y.totalDelegated, y.rewardsAccumulated)
    BY <1>2, RecordFields
<1> QED
    BY <1>3, <1>4 DEF y

LEMMA PrivateUpdate ==
    ASSUME NEW x \in Validator, NEW a, NEW t
    PROVE  [x EXCEPT !.isActive = a, !.totalDelegated = t]
               = Record(x.stake, x.commission, a, t, x.rewardsAccumulated)
PROOF
<1> DEFINE y == [x EXCEPT !.isActive = a, !.totalDelegated = t]
<1>1. DOMAIN x = FieldNames
    BY DEF Validator, FieldNames
<1>2. y = [i \in DOMAIN y |-> y[i]] /\ DOMAIN y = FieldNames
    BY <1>1
<1>3. y.stake = x.stake /\ y.commission = x.commission /\ y.isActive = a
      /\ y.totalDelegated = t /\ y.rewardsAccumulated = x.rewardsAccumulated
    BY DEF Validator
<1> HIDE DEF y
<1>4. y = Record(y.stake, y.commission, y.isActive, y.totalDelegated, y.rewardsAccumulated)
    BY <1>2, RecordFields
<1> QED
    BY <1>3, <1>4 DEF y

LEMMA SlashUpdate ==
    ASSUME NEW x \in Validator, NEW s, NEW a
    PROVE  [x EXCEPT !.stake = s, !.isActive = a]
               = Record(s, x.commission, a, x.totalDelegated, x.rewardsAccumulated)
PROOF
<1> DEFINE y == [x EXCEPT !.stake = s, !.isActive = a]
<1>1. DOMAIN x = FieldNames
    BY DEF Validator, FieldNames
<1>2. y = [i \in DOMAIN y |-> y[i]] /\ DOMAIN y = FieldNames
    BY <1>1
<1>3. y.stake = s /\ y.commission = x.commission /\ y.isActive = a
      /\ y.totalDelegated = x.totalDelegated /\ y.rewardsAccumulated = x.rewardsAccumulated
    BY DEF Validator
<1> HIDE DEF y
<1>4. y = Record(y.stake, y.commission, y.isActive, y.totalDelegated, y.rewardsAccumulated)
    BY <1>2, RecordFields
<1> QED
    BY <1>3, <1>4 DEF y

LEMMA RewardUpdate ==
    ASSUME NEW x \in Validator, NEW s, NEW r
    PROVE  [x EXCEPT !.stake = s, !.rewardsAccumulated = r]
               = Record(s, x.commission, x.isActive, x.totalDelegated, r)
PROOF
<1> DEFINE y == [x EXCEPT !.stake = s, !.rewardsAccumulated = r]
<1>1. DOMAIN x = FieldNames
    BY DEF Validator, FieldNames
<1>2. y = [i \in DOMAIN y |-> y[i]] /\ DOMAIN y = FieldNames
    BY <1>1
<1>3. y.stake = s /\ y.commission = x.commission /\ y.isActive = x.isActive
      /\ y.totalDelegated = x.totalDelegated /\ y.rewardsAccumulated = r
    BY DEF Validator
<1> HIDE DEF y
<1>4. y = Record(y.stake, y.commission, y.isActive, y.totalDelegated, y.rewardsAccumulated)
    BY <1>2, RecordFields
<1> QED
    BY <1>3, <1>4 DEF y

\* The fields of a validator's record.
LEMMA Fields ==
    ASSUME TypeOK, NEW v \in Validators
    PROVE  /\ validators[v] \in Validator
           /\ validators[v].stake \in Nat /\ validators[v].totalDelegated \in Nat
           /\ validators[v].rewardsAccumulated \in Nat
           /\ validators[v].commission \in 0..FeeDenominator
           /\ validators[v].isActive \in BOOLEAN
PROOF
<1>1. validators[v] \in Validator
    BY DEF TypeOK
<1> QED
    BY <1>1 DEF Validator

\* A call that writes one validator's record.
LEMMA ValidatorWritten ==
    ASSUME TypeOK, NEW v \in Validators, NEW r \in Validator, validators' = [validators EXCEPT ![v] = r]
    PROVE  /\ validators' \in [Validators -> Validator] /\ validators'[v] = r
           /\ \A w \in Validators \ {v} : validators'[w] = validators[w]
PROOF
    BY DEF TypeOK

-----------------------------------------------------------------------------
(* The steps                                                               *)

LEMMA InitInv == Init => Inv
PROOF
<1> SUFFICES ASSUME Init PROVE Inv
    OBVIOUS
<1>1. TypeOK
    <2>1. Unregistered \in Validator
        BY DEF Unregistered, Validator, FeeDenominator
    <2>2. unbondingQueue \in Seq(UnbondingEntry)
        BY DEF Init
    <2> QED
        BY <2>1, <2>2, BoundsAssumption DEF Init, TypeOK
<1>2. (\A v \in Validators : totalDelegatedTo[v] = 0 /\ validators[v].totalDelegated = 0 /\ validators[v].stake = 0)
      /\ RegistryInv /\ ExitUnlessSlashed
    BY DEF Init, Unregistered, RegistryInv, ExitUnlessSlashed
<1>3. \A S \in SUBSET (DOMAIN unbondingQueue) : Worth(S) = 0
    <2> TAKE S \in SUBSET (DOMAIN unbondingQueue)
    <2>1. S = {}
        BY DEF Init
    <2> QED
        BY <2>1, SumEmpty DEF Worth
<1>4. DelegationsAgree
    <2>1. ASSUME NEW v \in Validators PROVE DelegatedTo(v) = 0
        <3> DEFINE f == [e \in Delegators |-> delegations[e][v]]
        <3>1. \A e \in Delegators : f[e] = 0
            BY DEF Init
        <3> HIDE DEF f
        <3>2. SumFunctionOnSet(f, Delegators) = 0
            BY <3>1, FiniteAssumption, SumZero
        <3> QED
            BY <3>2 DEF DelegatedTo, f
    <2>2. Private = 0
        <3> DEFINE f == [v \in Validators |-> validators[v].totalDelegated - totalDelegatedTo[v]]
        <3>1. \A v \in Validators : f[v] = 0
            BY <1>2
        <3> HIDE DEF f
        <3>2. SumFunctionOnSet(f, Validators) = 0
            BY <3>1, FiniteAssumption, SumZero
        <3> QED
            BY <3>2 DEF Private, f
    <2>3. Cardinality(nullifiers) = 0
        BY FS_EmptySet DEF Init
    <2> QED
        BY <1>2, <2>1, <2>2, <2>3 DEF DelegationsAgree, Private
<1>5. DepositsAgree
    <2> SUFFICES ASSUME NEW d \in Delegators
                 PROVE  deposited[d] = DelegatedBy(d) + Worth(OwedTo(d, Open)) + withdrawn[d]
        BY DEF DepositsAgree
    <2>1. \A v \in Validators : delegations[d][v] = 0
        BY DEF Init
    <2>2. DelegatedBy(d) = 0
        BY <2>1, FiniteAssumption, SumZero DEF DelegatedBy
    <2>3. Worth(OwedTo(d, Open)) = 0
        BY <1>3 DEF OwedTo, Open
    <2> QED
        BY <2>2, <2>3 DEF Init
<1>6. TokensAgree
    <2>1. SumFunctionOnSet(totalDelegatedTo, Validators) = 0
        BY <1>2, FiniteAssumption, SumZero
    <2>2. Worth(Open) = 0
        BY <1>3 DEF Open
    <2> QED
        BY <2>1, <2>2 DEF Init, TokensAgree
<1> QED
    BY <1>1, <1>2, <1>4, <1>5, <1>6 DEF Inv, LedgersAgree

\* A call that changes no delegation, no entry of the queue and no balance.
LEMMA LedgersSame ==
    ASSUME TypeOK, LedgersAgree,
           UNCHANGED <<delegations, totalDelegatedTo, nullifiers, unbondingQueue, held, deposited, withdrawn, claimed>>,
           \A v \in Validators : validators'[v].totalDelegated = validators[v].totalDelegated
    PROVE  LedgersAgree'
PROOF
<1>1. Private' = Private
    BY PrivateSame
<1>2. DelegationsAgree'
    BY <1>1 DEF LedgersAgree, DelegationsAgree, DelegatedTo, Private
<1>3. DepositsAgree'
    BY DEF LedgersAgree, DepositsAgree, DelegatedBy, Worth, OwedTo, Open
<1>4. TokensAgree'
    BY DEF LedgersAgree, TokensAgree, Worth, Open
<1> QED
    BY <1>2, <1>3, <1>4 DEF LedgersAgree

LEMMA RegisterInv ==
    ASSUME Inv, NEW v \in Validators, NEW commission \in Commissions, RegisterValidator(v, commission)
    PROVE  Inv'
PROOF
<1> DEFINE c == IF commission > CommissionBase THEN commission ELSE CommissionBase
           r == [Unregistered EXCEPT !.commission = c]
<1>1. TypeOK /\ RegistryInv /\ LedgersAgree /\ ExitUnlessSlashed
    BY DEF Inv
<1>2. /\ v \notin isValidator /\ validators' = [validators EXCEPT ![v] = r]
      /\ isValidator' = isValidator \cup {v}
      /\ UNCHANGED <<delegations, totalDelegatedTo, nullifiers, unbondingQueue, epoch, held, params, history>>
    BY DEF RegisterValidator
<1>3. c \in 0..FeeDenominator
    <2>1. commission \in Nat /\ commission <= 10000
        BY RatesAssumption DEF RegisterValidator, FeeDenominator
    <2> QED
        BY <2>1 DEF FeeDenominator, CommissionBase
<1> HIDE DEF c
<1>4. r \in Validator /\ r.totalDelegated = 0 /\ r.stake = 0
    BY <1>3 DEF Unregistered, Validator
<1> HIDE DEF r
<1>5. validators' \in [Validators -> Validator] /\ validators'[v] = r
      /\ \A w \in Validators \ {v} : validators'[w] = validators[w]
    BY <1>1, <1>2, <1>4 DEF TypeOK
<1>6. TypeOK'
    BY <1>1, <1>2, <1>5 DEF TypeOK, params, history
<1>7. totalDelegatedTo[v] = 0 /\ validators[v].totalDelegated = 0
    BY <1>1, <1>2 DEF RegistryInv
<1>8. RegistryInv'
    BY <1>1, <1>2, <1>4, <1>5, <1>7 DEF RegistryInv
<1>9. ExitUnlessSlashed'
    BY <1>1, <1>2, <1>4, <1>5, <1>7 DEF ExitUnlessSlashed, history
<1>10. LedgersAgree'
    BY <1>1, <1>2, <1>4, <1>5, <1>7, LedgersSame DEF history
<1> QED
    BY <1>6, <1>8, <1>9, <1>10 DEF Inv

\* The commission of a reward only adds to a validator's stake.
LEMMA DistributeInv ==
    ASSUME Inv, NEW v \in Validators, NEW reward \in Rewards, DistributeRewards(v, reward)
    PROVE  Inv'
PROOF
<1>1. TypeOK /\ RegistryInv /\ LedgersAgree /\ ExitUnlessSlashed
    BY DEF Inv
<1>2. /\ epoch < MaxEpoch /\ epoch' = epoch + 1
      /\ UNCHANGED <<isValidator, delegations, totalDelegatedTo, nullifiers, unbondingQueue, held, params, history>>
    BY DEF DistributeRewards
<1>3. Commission(v, reward) \in Nat
    <2>1. reward \in Nat /\ validators[v].commission \in Nat
        <3>1. \A c \in 0..FeeDenominator : c \in Nat
            BY DEF FeeDenominator
        <3>2. validators[v].commission \in 0..FeeDenominator
            BY <1>1, Fields
        <3>3. reward \in Nat
            BY AmountsAssumption
        <3> QED
            BY <3>1, <3>2, <3>3
    <2>2. \A m, n \in Nat : (m * n) \div FeeDenominator \in Nat
        <3>1. \A m, n \in Nat : m * n \in Nat
            OBVIOUS
        <3>2. \A m \in Nat : m \div FeeDenominator \in Nat
            BY DEF FeeDenominator
        <3> QED
            BY <3>1, <3>2
    <2> QED
        BY <2>1, <2>2 DEF Commission
<1>4. /\ validators' \in [Validators -> Validator]
      /\ \A w \in Validators : validators'[w].totalDelegated = validators[w].totalDelegated
                               /\ validators'[w].stake >= validators[w].stake
    <2>1. CASE ~validators[v].isActive
        <3>1. validators' = validators
            BY <2>1 DEF DistributeRewards
        <3> QED
            BY <1>1, <3>1 DEF TypeOK, Validator
    <2>2. CASE validators[v].isActive
        <3> DEFINE x == validators[v]
                   m == x.stake + Commission(v, reward)
                   k == x.rewardsAccumulated + Commission(v, reward)
                   r == Record(m, x.commission, x.isActive, x.totalDelegated, k)
        <3>1. validators' = [validators EXCEPT ![v] = [x EXCEPT !.stake = m, !.rewardsAccumulated = k]]
            BY <2>2 DEF DistributeRewards
        <3>2. x \in Validator /\ m \in Nat /\ k \in Nat /\ m >= x.stake
            BY <1>1, <1>3, Fields
        <3> HIDE DEF m, k
        <3>3. [x EXCEPT !.stake = m, !.rewardsAccumulated = k] = r
            <4> HIDE DEF x
            <4>1. x \in Validator
                BY <3>2
            <4> HIDE DEF r
            <4>2. [x EXCEPT !.stake = m, !.rewardsAccumulated = k]
                      = Record(m, x.commission, x.isActive, x.totalDelegated, k)
                BY <4>1, RewardUpdate
            <4> QED
                BY <4>2 DEF r
        <3>4. r \in Validator /\ r.totalDelegated = x.totalDelegated /\ r.stake = m
            <4>1. r \in Validator
                BY <1>1, <3>2, Fields, RecordType
            <4> QED
                BY <4>1 DEF Record
        <3> HIDE DEF r
        <3>5. validators' \in [Validators -> Validator] /\ validators'[v] = r
              /\ \A w \in Validators \ {v} : validators'[w] = validators[w]
            BY <1>1, <3>1, <3>3, <3>4, ValidatorWritten
        <3>6. \A w \in Validators : validators[w].stake \in Nat
            BY <1>1 DEF TypeOK, Validator
        <3> QED
            BY <3>2, <3>4, <3>5, <3>6
    <2> QED
        BY <2>1, <2>2
<1>5. TypeOK'
    BY <1>1, <1>2, <1>4, BoundsAssumption DEF TypeOK, params, history
<1>6. RegistryInv'
    BY <1>1, <1>2, <1>4 DEF RegistryInv
<1>7. ExitUnlessSlashed'
    <2>1. \A w \in Validators : validators[w].stake \in Nat /\ validators'[w].stake \in Nat /\ totalDelegatedTo[w] \in Nat
        BY <1>1, <1>4 DEF TypeOK, Validator
    <2> QED
        BY <1>1, <1>2, <1>4, <2>1 DEF ExitUnlessSlashed, history
<1>8. LedgersAgree'
    BY <1>1, <1>2, <1>4, LedgersSame DEF history
<1> QED
    BY <1>5, <1>6, <1>7, <1>8 DEF Inv

\* Slashing takes no more than the stake.
LEMMA SlashInv ==
    ASSUME Inv, NEW v \in Validators, NEW percentage \in Percentages, SlashValidator(v, percentage)
    PROVE  Inv'
PROOF
<1> DEFINE x == validators[v]
           n == (x.stake * percentage) \div FeeDenominator
           m == x.stake - n
           r == Record(m, x.commission, FALSE, x.totalDelegated, x.rewardsAccumulated)
<1>1. TypeOK /\ RegistryInv /\ LedgersAgree /\ ExitUnlessSlashed
    BY DEF Inv
<1>2. /\ v \in isValidator
      /\ slashed' = IF n > 0 THEN slashed \cup {v} ELSE slashed
      /\ UNCHANGED <<isValidator, delegations, totalDelegatedTo, nullifiers, unbondingQueue,
                     epoch, held, params, deposited, withdrawn, claimed>>
    BY DEF SlashValidator
<1>3. x \in Validator /\ x.stake \in Nat
    BY <1>1, Fields
<1>4. n \in 0..x.stake
    <2>1. percentage \in Nat /\ percentage <= 10000
        BY RatesAssumption DEF SlashValidator, FeeDenominator
    <2>2. \A k \in Nat : k * percentage \in Nat /\ k * percentage <= k * 10000
        BY <2>1
    <2>3. \A k, l \in Nat : l <= k * 10000 => l \div 10000 \in 0..k
        OBVIOUS
    <2> QED
        BY <1>3, <2>2, <2>3 DEF FeeDenominator
<1>5. r \in Validator /\ r.totalDelegated = x.totalDelegated /\ r.stake = x.stake - n
    <2>1. m \in Nat
        BY <1>3, <1>4
    <2> HIDE DEF m
    <2>2. r \in Validator
        BY <1>1, <2>1, Fields, RecordType
    <2>3. r.totalDelegated = x.totalDelegated /\ r.stake = m
        BY DEF Record
    <2> QED
        BY <2>2, <2>3 DEF m
<1>6. validators' \in [Validators -> Validator] /\ validators'[v] = r
      /\ \A w \in Validators \ {v} : validators'[w] = validators[w]
    <2>1. validators' = [validators EXCEPT ![v] = [x EXCEPT !.stake = m, !.isActive = FALSE]]
        BY DEF SlashValidator
    <2> HIDE DEF m, n
    <2>2. [x EXCEPT !.stake = m, !.isActive = FALSE] = r
        BY <1>3, SlashUpdate
    <2> HIDE DEF r
    <2> QED
        BY <1>1, <1>5, <2>1, <2>2, ValidatorWritten
<1> HIDE DEF n, r
<1>7. TypeOK'
    BY <1>1, <1>2, <1>6 DEF TypeOK, params
<1>8. RegistryInv'
    BY <1>1, <1>2, <1>5, <1>6 DEF RegistryInv
<1>9. ExitUnlessSlashed'
    <2> SUFFICES ASSUME NEW w \in Validators \ slashed'
                 PROVE  validators'[w].stake >= totalDelegatedTo'[w]
        BY DEF ExitUnlessSlashed
    <2>1. w \notin slashed
        BY <1>2
    <2>2. validators[w].stake >= totalDelegatedTo[w]
        BY <1>1, <2>1 DEF ExitUnlessSlashed
    <2>3. CASE w = v
        <3>1. n = 0
            BY <1>2, <1>3, <1>4, <2>3
        <3> QED
            BY <1>2, <1>3, <1>5, <1>6, <2>2, <2>3, <3>1
    <2>4. CASE w # v
        BY <1>2, <1>6, <2>2, <2>4
    <2> QED
        BY <2>3, <2>4
<1>10. LedgersAgree'
    BY <1>1, <1>2, <1>5, <1>6, LedgersSame
<1> QED
    BY <1>7, <1>8, <1>9, <1>10 DEF Inv

\* A private delegation adds one to the delegations, publicly to nobody.
LEMMA PrivateStakeInv ==
    ASSUME Inv, NEW v \in Validators, NEW nullifier \in Nullifiers, PrivateStake(v, nullifier)
    PROVE  Inv'
PROOF
<1> DEFINE x == validators[v]
           k == x.totalDelegated + 1
           r == Record(x.stake, x.commission, TRUE, k, x.rewardsAccumulated)
<1>1. TypeOK /\ RegistryInv /\ LedgersAgree /\ ExitUnlessSlashed
    BY DEF Inv
<1>2. /\ v \in isValidator /\ nullifier \notin nullifiers /\ nullifiers' = nullifiers \cup {nullifier}
      /\ UNCHANGED <<isValidator, delegations, totalDelegatedTo, unbondingQueue, epoch, held, params, history>>
    BY DEF PrivateStake
<1>3. x \in Validator /\ x.stake \in Nat /\ x.totalDelegated \in Nat /\ k \in Nat
    BY <1>1, Fields
<1>4. r \in Validator /\ r.totalDelegated = k /\ r.stake = x.stake
    <2> HIDE DEF k
    <2>1. r \in Validator
        BY <1>1, <1>3, Fields, RecordType
    <2> QED
        BY <2>1 DEF Record
<1>5. validators' \in [Validators -> Validator] /\ validators'[v] = r
      /\ \A w \in Validators \ {v} : validators'[w] = validators[w]
    <2>1. validators' = [validators EXCEPT ![v] = [x EXCEPT !.isActive = TRUE, !.totalDelegated = k]]
        BY DEF PrivateStake
    <2> HIDE DEF k
    <2>2. [x EXCEPT !.isActive = TRUE, !.totalDelegated = k] = r
        BY <1>3, PrivateUpdate
    <2> HIDE DEF r
    <2> QED
        BY <1>1, <1>4, <2>1, <2>2, ValidatorWritten
<1> HIDE DEF r
<1>6. TypeOK'
    BY <1>1, <1>2, <1>5 DEF TypeOK, params, history
<1>7. RegistryInv'
    <2>1. totalDelegatedTo[v] \in Nat
        BY <1>1 DEF TypeOK
    <2> QED
        BY <1>1, <1>2, <1>3, <1>4, <1>5, <2>1 DEF RegistryInv
<1>8. ExitUnlessSlashed'
    BY <1>1, <1>2, <1>4, <1>5 DEF ExitUnlessSlashed, history
<1>9. Private' = Private + 1
    <2> DEFINE f == [w \in Validators |-> validators[w].totalDelegated - totalDelegatedTo[w]]
               g == [w \in Validators |-> validators'[w].totalDelegated - totalDelegatedTo'[w]]
    <2>1. Private = SumFunctionOnSet(f, Validators) /\ Private' = SumFunctionOnSet(g, Validators)
        BY DEF Private
    <2>2. \A w \in Validators : validators[w].totalDelegated \in Int /\ totalDelegatedTo[w] \in Int
        BY <1>1, Fields DEF TypeOK
    <2>3. \A w \in Validators \ {v} : f[w] = g[w]
        BY <1>2, <1>5
    <2>4. f[v] \in Int /\ g[v] = f[v] + 1
        BY <1>2, <1>4, <1>5, <2>2
    <2>5. \A w \in Validators : f[w] \in Int
        BY <2>2
    <2> HIDE DEF f, g
    <2>6. \A w \in Validators : f[w] \in Int /\ g[w] \in Int
        BY <2>3, <2>4, <2>5
    <2>7. SumFunctionOnSet(g, Validators) = SumFunctionOnSet(f, Validators) - f[v] + g[v]
        BY <2>3, <2>6, FiniteAssumption, SumUpdate
    <2>8. SumFunctionOnSet(f, Validators) \in Int
        BY <2>6, FiniteAssumption, SumInt
    <2> QED
        BY <2>1, <2>4, <2>7, <2>8
<1>10. Cardinality(nullifiers') = Cardinality(nullifiers) + 1
    <2>1. IsFiniteSet(nullifiers)
        BY <1>1, FiniteAssumption, FS_Subset DEF TypeOK
    <2> QED
        BY <1>2, <2>1, FS_AddElement
<1>11. DelegationsAgree'
    <2>1. (\A w \in Validators : totalDelegatedTo[w] = DelegatedTo(w)) /\ Private = Cardinality(nullifiers)
        BY <1>1 DEF LedgersAgree, DelegationsAgree, Private
    <2>2. \A w \in Validators : totalDelegatedTo'[w] = DelegatedTo(w)'
        BY <1>2, <2>1 DEF DelegatedTo
    <2>3. Private' = Cardinality(nullifiers')
        BY <1>9, <1>10, <2>1
    <2> QED
        BY <2>2, <2>3 DEF DelegationsAgree, Private
<1>12. DepositsAgree'
    BY <1>1, <1>2 DEF LedgersAgree, DepositsAgree, DelegatedBy, Worth, OwedTo, Open, history
<1>13. TokensAgree'
    BY <1>1, <1>2 DEF LedgersAgree, TokensAgree, Worth, Open, history
<1> QED
    BY <1>6, <1>7, <1>8, <1>11, <1>12, <1>13 DEF Inv, LedgersAgree

\* A stake enters every ledger with the same amount.
LEMMA StakeInv ==
    ASSUME Inv, NEW d \in Delegators, NEW v \in Validators, NEW amount \in Amounts, Stake(d, v, amount)
    PROVE  Inv'
PROOF
<1> DEFINE x == validators[v]
           m == x.stake + amount
           k == x.totalDelegated + amount
           a == x.isActive \/ x.stake + amount >= minStake
           r == Record(m, x.commission, a, k, x.rewardsAccumulated)
           n == delegations[d][v] + amount
           t == totalDelegatedTo[v] + amount
<1>1. TypeOK /\ RegistryInv /\ LedgersAgree /\ ExitUnlessSlashed
    BY DEF Inv
<1>2. /\ v \in isValidator
      /\ held' = held + amount
      /\ delegations' = [delegations EXCEPT ![d][v] = n]
      /\ totalDelegatedTo' = [totalDelegatedTo EXCEPT ![v] = t]
      /\ deposited' = [deposited EXCEPT ![d] = @ + amount]
      /\ UNCHANGED <<isValidator, nullifiers, unbondingQueue, epoch, params, withdrawn, claimed, slashed>>
    BY DEF Stake
<1>3. amount \in Nat /\ delegations[d][v] \in Nat /\ n \in Nat /\ totalDelegatedTo[v] \in Nat /\ t \in Nat
      /\ held \in Nat /\ claimed \in Nat /\ \A e \in Delegators : deposited[e] \in Nat /\ withdrawn[e] \in Nat
    BY <1>1, AmountsAssumption DEF TypeOK
<1>4. x \in Validator /\ x.stake \in Nat /\ x.totalDelegated \in Nat /\ m \in Nat /\ k \in Nat
    BY <1>1, <1>3, Fields
<1>5. r \in Validator /\ r.totalDelegated = k /\ r.stake = m
    <2>1. a \in BOOLEAN
        OBVIOUS
    <2> HIDE DEF m, k, a
    <2>2. r \in Validator
        BY <1>1, <1>4, <2>1, Fields, RecordType
    <2> QED
        BY <2>2 DEF Record
<1>6. validators' \in [Validators -> Validator] /\ validators'[v] = r
      /\ \A w \in Validators \ {v} : validators'[w] = validators[w]
    <2>1. validators' = [validators EXCEPT ![v] = [x EXCEPT !.stake = m, !.totalDelegated = k, !.isActive = a]]
        BY DEF Stake
    <2> HIDE DEF m, k, a
    <2>2. [x EXCEPT !.stake = m, !.totalDelegated = k, !.isActive = a] = r
        BY <1>4, StakeUpdate
    <2> HIDE DEF r
    <2> QED
        BY <1>1, <1>5, <2>1, <2>2, ValidatorWritten
<1> HIDE DEF r, a
<1>7. /\ totalDelegatedTo' \in [Validators -> Nat] /\ totalDelegatedTo'[v] = t
      /\ \A w \in Validators \ {v} : totalDelegatedTo'[w] = totalDelegatedTo[w]
      /\ deposited' \in [Delegators -> Nat] /\ deposited'[d] = deposited[d] + amount
      /\ \A e \in Delegators \ {d} : deposited'[e] = deposited[e]
    BY <1>1, <1>2, <1>3 DEF TypeOK
<1>8. /\ delegations' \in [Delegators -> [Validators -> Nat]]
      /\ \A w \in Validators : DelegatedTo(w)' = IF w = v THEN DelegatedTo(v) - delegations[d][v] + n
                                                          ELSE DelegatedTo(w)
      /\ \A e \in Delegators : DelegatedBy(e)' = IF e = d THEN DelegatedBy(d) - delegations[d][v] + n
                                                          ELSE DelegatedBy(e)
    <2> HIDE DEF n
    <2> QED
        BY <1>1, <1>2, <1>3, DelegationUpdate
<1>9. /\ \A w \in Validators : DelegatedTo(w) \in Nat
      /\ \A e \in Delegators : DelegatedBy(e) \in Nat
      /\ SumFunctionOnSet(totalDelegatedTo, Validators) \in Nat
    BY <1>1, DelegatedNat
<1>10. TypeOK'
    <2>1. held' \in Nat
        BY <1>2, <1>3
    <2> QED
        BY <1>1, <1>2, <1>6, <1>7, <1>8, <2>1 DEF TypeOK, params
<1>11. RegistryInv'
    BY <1>1, <1>2, <1>3, <1>4, <1>5, <1>6, <1>7 DEF RegistryInv
<1>12. ExitUnlessSlashed'
    <2> SUFFICES ASSUME NEW w \in Validators \ slashed'
                 PROVE  validators'[w].stake >= totalDelegatedTo'[w]
        BY DEF ExitUnlessSlashed
    <2>1. validators[w].stake >= totalDelegatedTo[w]
        BY <1>1, <1>2 DEF ExitUnlessSlashed
    <2>2. CASE w = v
        BY <1>3, <1>4, <1>5, <1>6, <1>7, <2>1, <2>2
    <2>3. CASE w # v
        BY <1>6, <1>7, <2>1, <2>3
    <2> QED
        BY <2>2, <2>3
<1>13. DelegationsAgree'
    <2>1. (\A w \in Validators : totalDelegatedTo[w] = DelegatedTo(w)) /\ Private = Cardinality(nullifiers)
        BY <1>1 DEF LedgersAgree, DelegationsAgree, Private
    <2>2. ASSUME NEW w \in Validators PROVE totalDelegatedTo'[w] = DelegatedTo(w)'
        <3>1. CASE w = v
            BY <1>3, <1>7, <1>8, <1>9, <2>1, <3>1
        <3>2. CASE w # v
            BY <1>7, <1>8, <2>1, <3>2
        <3> QED
            BY <3>1, <3>2
    <2>3. \A w \in Validators : validators'[w].totalDelegated - totalDelegatedTo'[w]
                                    = validators[w].totalDelegated - totalDelegatedTo[w]
        <3>1. k - t = x.totalDelegated - totalDelegatedTo[v]
            BY <1>3, <1>4
        <3> HIDE DEF k, t
        <3> QED
            BY <1>5, <1>6, <1>7, <3>1
    <2>4. Private' = Private
        BY <1>1, <2>3, PrivateSame
    <2> QED
        BY <1>2, <2>1, <2>2, <2>4 DEF DelegationsAgree, Private
<1>14. DepositsAgree'
    <2> SUFFICES ASSUME NEW e \in Delegators
                 PROVE  deposited'[e] = DelegatedBy(e)' + Worth(OwedTo(e, Open))' + withdrawn'[e]
        BY DEF DepositsAgree
    <2>1. Worth(OwedTo(e, Open))' = Worth(OwedTo(e, Open)) /\ withdrawn'[e] = withdrawn[e]
        BY <1>2 DEF Worth, OwedTo, Open
    <2>2. Worth(OwedTo(e, Open)) \in Nat
        BY <1>1, WorthNat DEF OwedTo, Open
    <2>3. deposited[e] = DelegatedBy(e) + Worth(OwedTo(e, Open)) + withdrawn[e]
        BY <1>1 DEF LedgersAgree, DepositsAgree
    <2>4. CASE e = d
        BY <1>3, <1>7, <1>8, <1>9, <2>1, <2>2, <2>3, <2>4
    <2>5. CASE e # d
        BY <1>7, <1>8, <2>1, <2>3, <2>5
    <2> QED
        BY <2>4, <2>5
<1>15. TokensAgree'
    <2>1. SumFunctionOnSet(totalDelegatedTo', Validators)
              = SumFunctionOnSet(totalDelegatedTo, Validators) - totalDelegatedTo[v] + t
        <3> HIDE DEF t
        <3> QED
            BY <1>1, <1>2, <1>3, TotalUpdate
    <2>2. Worth(Open)' = Worth(Open) /\ Worth(Open) \in Nat
        BY <1>1, <1>2, WorthNat DEF Worth, Open
    <2>3. held + claimed = SumFunctionOnSet(totalDelegatedTo, Validators) + Worth(Open)
        BY <1>1 DEF LedgersAgree, TokensAgree
    <2>4. held' + claimed' = SumFunctionOnSet(totalDelegatedTo', Validators) + Worth(Open)'
        BY <1>2, <1>3, <1>9, <2>1, <2>2, <2>3
    <2> QED
        BY <2>4 DEF TokensAgree
<1> QED
    BY <1>10, <1>11, <1>12, <1>13, <1>14, <1>15 DEF Inv, LedgersAgree
-----------------------------------------------------------------------------
(* Changes of the queue                                                    *)

\* A new entry is open, and owed to its delegator.
LEMMA QueueAppend ==
    ASSUME TypeOK, NEW entry \in UnbondingEntry, ~entry.processed,
           unbondingQueue' = Append(unbondingQueue, entry)
    PROVE  /\ unbondingQueue' \in Seq(UnbondingEntry)
           /\ Worth(Open)' = Worth(Open) + entry.amount
           /\ \A e \in Delegators : Worth(OwedTo(e, Open))' =
                  IF e = entry.delegator THEN Worth(OwedTo(e, Open)) + entry.amount
                                         ELSE Worth(OwedTo(e, Open))
PROOF
<1> DEFINE n == Len(unbondingQueue) + 1
           D == DOMAIN unbondingQueue
           g == [i \in DOMAIN unbondingQueue' |-> unbondingQueue'[i].amount]
           WorthNew(S) == SumFunctionOnSet(g, S)
<1>1. unbondingQueue \in Seq(UnbondingEntry)
    BY DEF TypeOK
<1>2. /\ unbondingQueue' \in Seq(UnbondingEntry) /\ n \notin D /\ DOMAIN unbondingQueue' = D \cup {n}
      /\ unbondingQueue'[n] = entry /\ \A i \in D : unbondingQueue'[i] = unbondingQueue[i]
    BY <1>1
<1>3. entry.amount \in Nat
    BY DEF UnbondingEntry
<1> HIDE DEF n, D
<1>4. ASSUME NEW S \in SUBSET D
      PROVE  WorthNew(S) = Worth(S) /\ WorthNew(S \cup {n}) = Worth(S) + entry.amount
    <2>1. S \in SUBSET (DOMAIN unbondingQueue) /\ S \subseteq DOMAIN unbondingQueue'
          /\ \A i \in S : unbondingQueue'[i].amount = unbondingQueue[i].amount
        BY <1>2 DEF D
    <2>2. WorthNew(S) = Worth(S)
        BY <2>1, WorthKept
    <2>3. IsFiniteSet(S) /\ Worth(S) \in Nat /\ \A i \in S : unbondingQueue[i].amount \in Nat
        BY <2>1, WorthNat DEF UnbondingEntry
    <2>4. n \notin S /\ g[n] = entry.amount /\ \A i \in S : g[i] = unbondingQueue[i].amount
        BY <1>2, <2>1
    <2> HIDE DEF g
    <2>5. \A i \in S \cup {n} : g[i] \in Int
        BY <1>3, <2>3, <2>4
    <2>6. SumFunctionOnSet(g, S \cup {n}) = g[n] + SumFunctionOnSet(g, S)
        BY <2>3, <2>4, <2>5, SumAdd
    <2> QED
        BY <1>3, <2>2, <2>3, <2>4, <2>6
<1>5. Open \in SUBSET D /\ Open' = Open \cup {n}
    BY <1>2 DEF Open, D
<1>6. Worth(Open)' = Worth(Open) + entry.amount
    <2>1. Worth(Open)' = WorthNew(Open')
        BY DEF Worth
    <2> QED
        BY <1>4, <1>5, <2>1
<1>7. ASSUME NEW e \in Delegators
      PROVE  Worth(OwedTo(e, Open))' =
                 IF e = entry.delegator THEN Worth(OwedTo(e, Open)) + entry.amount ELSE Worth(OwedTo(e, Open))
    <2> DEFINE S == OwedTo(e, Open)
    <2>1. S \in SUBSET D
        BY <1>5 DEF OwedTo
    <2>2. OwedTo(e, Open)' = IF e = entry.delegator THEN S \cup {n} ELSE S
        BY <1>2, <1>5 DEF OwedTo
    <2>3. Worth(OwedTo(e, Open))' = WorthNew(OwedTo(e, Open)')
        BY DEF Worth
    <2> HIDE DEF S
    <2>4. Worth(OwedTo(e, Open))' = IF e = entry.delegator THEN Worth(S) + entry.amount ELSE Worth(S)
        BY <1>4, <2>1, <2>2, <2>3
    <2> QED
        BY <2>4 DEF S
<1> QED
    BY <1>2, <1>6, <1>7

\* What unstake takes out of the delegations enters the queue.
LEMMA UnstakeInv ==
    ASSUME Inv, NEW d \in Delegators, NEW v \in Validators, NEW amount \in Amounts, Unstake(d, v, amount)
    PROVE  Inv'
PROOF
<1> DEFINE x == validators[v]
           m == x.stake - amount
           k == x.totalDelegated - amount
           a == x.isActive /\ x.stake - amount >= minStake
           r == Record(m, x.commission, a, k, x.rewardsAccumulated)
           n == delegations[d][v] - amount
           t == totalDelegatedTo[v] - amount
           entry == [delegator |-> d, amount |-> amount, unlockHeight |-> time + unbondingPeriod,
                     processed |-> FALSE]
<1>1. TypeOK /\ RegistryInv /\ LedgersAgree /\ ExitUnlessSlashed
    BY DEF Inv
<1>2. /\ v \in isValidator
      /\ delegations[d][v] >= amount /\ totalDelegatedTo[v] >= amount
      /\ x.stake >= amount /\ x.totalDelegated >= amount
      /\ delegations' = [delegations EXCEPT ![d][v] = n]
      /\ totalDelegatedTo' = [totalDelegatedTo EXCEPT ![v] = t]
      /\ unbondingQueue' = Append(unbondingQueue, entry)
      /\ UNCHANGED <<isValidator, nullifiers, epoch, held, params, history>>
    BY DEF Unstake
<1>3. amount \in Nat /\ delegations[d][v] \in Nat /\ n \in Nat /\ totalDelegatedTo[v] \in Nat /\ t \in Nat
      /\ held \in Nat /\ claimed \in Nat /\ \A e \in Delegators : deposited[e] \in Nat /\ withdrawn[e] \in Nat
    BY <1>1, <1>2, AmountsAssumption DEF TypeOK
<1>4. x \in Validator /\ x.stake \in Nat /\ x.totalDelegated \in Nat /\ m \in Nat /\ k \in Nat
    BY <1>1, <1>2, <1>3, Fields
<1>5. r \in Validator /\ r.totalDelegated = k /\ r.stake = m
    <2>1. a \in BOOLEAN
        OBVIOUS
    <2> HIDE DEF m, k, a
    <2>2. r \in Validator
        BY <1>1, <1>4, <2>1, Fields, RecordType
    <2> QED
        BY <2>2 DEF Record
<1>6. validators' \in [Validators -> Validator] /\ validators'[v] = r
      /\ \A w \in Validators \ {v} : validators'[w] = validators[w]
    <2>1. validators' = [validators EXCEPT ![v] = [x EXCEPT !.stake = m, !.totalDelegated = k, !.isActive = a]]
        BY DEF Unstake
    <2> HIDE DEF m, k, a
    <2>2. [x EXCEPT !.stake = m, !.totalDelegated = k, !.isActive = a] = r
        BY <1>4, StakeUpdate
    <2> HIDE DEF r
    <2> QED
        BY <1>1, <1>5, <2>1, <2>2, ValidatorWritten
<1> HIDE DEF r, a
<1>7. /\ totalDelegatedTo' \in [Validators -> Nat] /\ totalDelegatedTo'[v] = t
      /\ \A w \in Validators \ {v} : totalDelegatedTo'[w] = totalDelegatedTo[w]
    BY <1>1, <1>2, <1>3 DEF TypeOK
<1>8. /\ delegations' \in [Delegators -> [Validators -> Nat]]
      /\ \A w \in Validators : DelegatedTo(w)' = IF w = v THEN DelegatedTo(v) - delegations[d][v] + n
                                                          ELSE DelegatedTo(w)
      /\ \A e \in Delegators : DelegatedBy(e)' = IF e = d THEN DelegatedBy(d) - delegations[d][v] + n
                                                          ELSE DelegatedBy(e)
    <2> HIDE DEF n
    <2> QED
        BY <1>1, <1>2, <1>3, DelegationUpdate
<1>9. /\ \A w \in Validators : DelegatedTo(w) \in Nat
      /\ \A e \in Delegators : DelegatedBy(e) \in Nat
      /\ SumFunctionOnSet(totalDelegatedTo, Validators) \in Nat
    BY <1>1, DelegatedNat
<1>10. /\ unbondingQueue' \in Seq(UnbondingEntry)
       /\ Worth(Open)' = Worth(Open) + amount
       /\ \A e \in Delegators : Worth(OwedTo(e, Open))' =
              IF e = d THEN Worth(OwedTo(e, Open)) + amount ELSE Worth(OwedTo(e, Open))
    <2>1. entry \in UnbondingEntry
        <3>1. time \in Nat /\ unbondingPeriod \in Nat
            BY <1>1, ParametersAssumption, BoundsAssumption DEF TypeOK
        <3>2. time + unbondingPeriod \in Nat
            BY <3>1
        <3> QED
            BY <1>3, <3>2 DEF UnbondingEntry
    <2>2. entry.delegator = d /\ entry.amount = amount /\ ~entry.processed
        OBVIOUS
    <2> HIDE DEF entry
    <2> QED
        BY <1>1, <1>2, <2>1, <2>2, QueueAppend
<1>11. TypeOK'
    BY <1>1, <1>2, <1>6, <1>7, <1>8, <1>10 DEF TypeOK, params, history
<1>12. RegistryInv'
    BY <1>1, <1>2, <1>3, <1>4, <1>5, <1>6, <1>7 DEF RegistryInv
<1>13. ExitUnlessSlashed'
    <2> SUFFICES ASSUME NEW w \in Validators \ slashed'
                 PROVE  validators'[w].stake >= totalDelegatedTo'[w]
        BY DEF ExitUnlessSlashed
    <2>1. validators[w].stake >= totalDelegatedTo[w]
        BY <1>1, <1>2 DEF ExitUnlessSlashed, history
    <2>2. CASE w = v
        BY <1>3, <1>4, <1>5, <1>6, <1>7, <2>1, <2>2
    <2>3. CASE w # v
        BY <1>6, <1>7, <2>1, <2>3
    <2> QED
        BY <2>2, <2>3
<1>14. DelegationsAgree'
    <2>1. (\A w \in Validators : totalDelegatedTo[w] = DelegatedTo(w)) /\ Private = Cardinality(nullifiers)
        BY <1>1 DEF LedgersAgree, DelegationsAgree, Private
    <2>2. ASSUME NEW w \in Validators PROVE totalDelegatedTo'[w] = DelegatedTo(w)'
        <3>1. CASE w = v
            BY <1>3, <1>7, <1>8, <1>9, <2>1, <3>1
        <3>2. CASE w # v
            BY <1>7, <1>8, <2>1, <3>2
        <3> QED
            BY <3>1, <3>2
    <2>3. \A w \in Validators : validators'[w].totalDelegated - totalDelegatedTo'[w]
                                    = validators[w].totalDelegated - totalDelegatedTo[w]
        <3>1. k - t = x.totalDelegated - totalDelegatedTo[v]
            BY <1>3, <1>4
        <3> HIDE DEF k, t
        <3> QED
            BY <1>5, <1>6, <1>7, <3>1
    <2>4. Private' = Private
        BY <1>1, <2>3, PrivateSame
    <2> QED
        BY <1>2, <2>1, <2>2, <2>4 DEF DelegationsAgree, Private
<1>15. DepositsAgree'
    <2> SUFFICES ASSUME NEW e \in Delegators
                 PROVE  deposited'[e] = DelegatedBy(e)' + Worth(OwedTo(e, Open))' + withdrawn'[e]
        BY DEF DepositsAgree
    <2>1. deposited'[e] = deposited[e] /\ withdrawn'[e] = withdrawn[e]
        BY <1>2 DEF history
    <2>2. Worth(OwedTo(e, Open)) \in Nat
        BY <1>1, WorthNat DEF OwedTo, Open
    <2>3. deposited[e] = DelegatedBy(e) + Worth(OwedTo(e, Open)) + withdrawn[e]
        BY <1>1 DEF LedgersAgree, DepositsAgree
    <2>4. CASE e = d
        <3>1. DelegatedBy(e)' = DelegatedBy(e) - amount /\ DelegatedBy(e) \in Nat
            BY <1>3, <1>8, <1>9, <2>4
        <3>2. Worth(OwedTo(e, Open))' = Worth(OwedTo(e, Open)) + amount
            BY <1>10, <2>4
        <3> QED
            BY <1>3, <2>1, <2>2, <2>3, <3>1, <3>2
    <2>5. CASE e # d
        BY <1>8, <1>10, <2>1, <2>3, <2>5
    <2> QED
        BY <2>4, <2>5
<1>16. TokensAgree'
    <2>1. SumFunctionOnSet(totalDelegatedTo', Validators)
              = SumFunctionOnSet(totalDelegatedTo, Validators) - totalDelegatedTo[v] + t
        <3> HIDE DEF t
        <3> QED
            BY <1>1, <1>2, <1>3, TotalUpdate
    <2>2. Worth(Open) \in Nat
        BY <1>1, WorthNat DEF Open
    <2>3. held + claimed = SumFunctionOnSet(totalDelegatedTo, Validators) + Worth(Open)
        BY <1>1 DEF LedgersAgree, TokensAgree
    <2>4. held' = held /\ claimed' = claimed
        BY <1>2 DEF history
    <2>5. held' + claimed' = SumFunctionOnSet(totalDelegatedTo', Validators) + Worth(Open)'
        BY <1>3, <1>9, <1>10, <2>1, <2>2, <2>3, <2>4
    <2> QED
        BY <2>5 DEF TokensAgree
<1> QED
    BY <1>11, <1>12, <1>13, <1>14, <1>15, <1>16 DEF Inv, LedgersAgree

\* The entries that are due are paid: each delegator's part of them leaves
\* the queue for that delegator.
LEMMA ProcessInv ==
    ASSUME Inv, ProcessUnbonding
    PROVE  Inv'
PROOF
<1> DEFINE D == DOMAIN unbondingQueue
<1>1. TypeOK /\ RegistryInv /\ LedgersAgree /\ ExitUnlessSlashed
    BY DEF Inv
<1>2. /\ held >= Worth(Due) /\ held' = held - Worth(Due)
      /\ unbondingQueue' = [i \in D |-> [unbondingQueue[i] EXCEPT !.processed = @ \/ i \in Due]]
      /\ withdrawn' = [d \in Delegators |-> withdrawn[d] + Worth(OwedTo(d, Due))]
      /\ UNCHANGED <<validators, isValidator, delegations, totalDelegatedTo, nullifiers,
                     epoch, params, deposited, claimed, slashed>>
    BY DEF ProcessUnbonding
<1>3. Due \in SUBSET D /\ Open \in SUBSET D /\ Due \subseteq Open
    BY DEF Due, Open
<1>4. DOMAIN unbondingQueue' = D
      /\ \A i \in D : /\ unbondingQueue'[i] \in UnbondingEntry
                      /\ unbondingQueue'[i].amount = unbondingQueue[i].amount
                      /\ unbondingQueue'[i].delegator = unbondingQueue[i].delegator
                      /\ unbondingQueue'[i].processed <=> (unbondingQueue[i].processed \/ i \in Due)
    <2>1. ASSUME NEW i \in D
          PROVE  /\ unbondingQueue'[i] \in UnbondingEntry
                 /\ unbondingQueue'[i].amount = unbondingQueue[i].amount
                 /\ unbondingQueue'[i].delegator = unbondingQueue[i].delegator
                 /\ unbondingQueue'[i].processed <=> (unbondingQueue[i].processed \/ i \in Due)
        <3> DEFINE x == unbondingQueue[i]
                   b == x.processed \/ i \in Due
        <3>1. unbondingQueue'[i] = [x EXCEPT !.processed = b]
            BY <1>2
        <3>2. x \in UnbondingEntry
            BY <1>1, WorthNat
        <3>3. b \in BOOLEAN
            OBVIOUS
        <3> HIDE DEF x, b
        <3>4. [x EXCEPT !.processed = b]
                  = [delegator |-> x.delegator, amount |-> x.amount, unlockHeight |-> x.unlockHeight, processed |-> b]
            BY <3>2 DEF UnbondingEntry
        <3>5. x.delegator \in Delegators /\ x.amount \in Nat /\ x.unlockHeight \in Nat
            BY <3>2 DEF UnbondingEntry
        <3>6. [delegator |-> x.delegator, amount |-> x.amount, unlockHeight |-> x.unlockHeight, processed |-> b]
                  \in UnbondingEntry
            BY <3>3, <3>5 DEF UnbondingEntry
        <3>7. unbondingQueue'[i].processed = b /\ unbondingQueue'[i].amount = x.amount
              /\ unbondingQueue'[i].delegator = x.delegator /\ unbondingQueue'[i] \in UnbondingEntry
            BY <3>1, <3>4, <3>6
        <3> QED
            BY <3>7 DEF x, b
    <2> QED
        BY <1>2, <2>1
<1>5. unbondingQueue' \in Seq(UnbondingEntry)
    <2>1. D = 1..Len(unbondingQueue) /\ Len(unbondingQueue) \in Nat
        BY <1>1 DEF TypeOK
    <2>2. unbondingQueue' \in [1..Len(unbondingQueue) -> UnbondingEntry]
        BY <1>2, <1>4, <2>1
    <2> QED
        BY <2>1, <2>2
<1>6. Open' = Open \ Due
    BY <1>4 DEF Open
<1>7. \A d \in Delegators : OwedTo(d, Open)' = OwedTo(d, Open) \ OwedTo(d, Due)
                            /\ OwedTo(d, Due) \in SUBSET OwedTo(d, Open) /\ OwedTo(d, Open) \in SUBSET D
    BY <1>3, <1>4, <1>6 DEF OwedTo
<1> HIDE DEF D
<1>8. ASSUME NEW S \in SUBSET D
      PROVE  SumFunctionOnSet([i \in DOMAIN unbondingQueue' |-> unbondingQueue'[i].amount], S) = Worth(S)
             /\ Worth(S) \in Nat
    BY <1>1, <1>4, WorthKept, WorthNat DEF D
<1>9. Worth(Open)' = Worth(Open) - Worth(Due) /\ Worth(Due) \in Nat /\ Worth(Open) \in Nat
    <2>1. Worth(Open)' = Worth(Open \ Due)
        <3>1. Open \ Due \in SUBSET D
            BY <1>3
        <3>2. Worth(Open)' = SumFunctionOnSet([i \in DOMAIN unbondingQueue' |-> unbondingQueue'[i].amount], Open')
            BY DEF Worth
        <3> QED
            BY <1>6, <1>8, <3>1, <3>2
    <2>2. Worth(Open) = Worth(Due) + Worth(Open \ Due)
        BY <1>1, <1>3, WorthSplit DEF D
    <2>3. Worth(Open) \in Nat /\ Worth(Due) \in Nat /\ Worth(Open \ Due) \in Nat
        BY <1>3, <1>8
    <2> QED
        BY <2>1, <2>2, <2>3
<1>10. ASSUME NEW d \in Delegators
       PROVE  /\ Worth(OwedTo(d, Open))' = Worth(OwedTo(d, Open)) - Worth(OwedTo(d, Due))
              /\ Worth(OwedTo(d, Due)) \in Nat /\ Worth(OwedTo(d, Open)) \in Nat
    <2> DEFINE S == OwedTo(d, Open)
               T == OwedTo(d, Due)
    <2>1. S \in SUBSET D /\ T \in SUBSET S /\ T \in SUBSET D /\ S \ T \in SUBSET D
        BY <1>7
    <2>2. Worth(OwedTo(d, Open))' = Worth(S \ T)
        <3>1. Worth(OwedTo(d, Open))'
                  = SumFunctionOnSet([i \in DOMAIN unbondingQueue' |-> unbondingQueue'[i].amount], OwedTo(d, Open)')
            BY DEF Worth
        <3>2. OwedTo(d, Open)' = S \ T
            BY <1>7
        <3> QED
            BY <1>8, <2>1, <3>1, <3>2
    <2>3. Worth(S) = Worth(T) + Worth(S \ T)
        BY <1>1, <2>1, WorthSplit DEF D
    <2>4. Worth(S) \in Nat /\ Worth(T) \in Nat /\ Worth(S \ T) \in Nat
        BY <1>8, <2>1
    <2> HIDE DEF S, T
    <2>5. Worth(OwedTo(d, Open))' = Worth(S) - Worth(T) /\ Worth(T) \in Nat /\ Worth(S) \in Nat
        BY <2>2, <2>3, <2>4
    <2> QED
        BY <2>5 DEF S, T
<1>11. held' \in Nat /\ held \in Nat /\ claimed \in Nat
    BY <1>1, <1>2, <1>9 DEF TypeOK
<1>12. \A d \in Delegators : withdrawn[d] \in Nat /\ withdrawn'[d] = withdrawn[d] + Worth(OwedTo(d, Due))
    BY <1>1, <1>2 DEF TypeOK
<1>13. withdrawn' \in [Delegators -> Nat]
    BY <1>2, <1>10, <1>12
<1>14. TypeOK'
    BY <1>1, <1>2, <1>5, <1>11, <1>13 DEF TypeOK, params
<1>15. RegistryInv' /\ ExitUnlessSlashed'
    BY <1>1, <1>2 DEF RegistryInv, ExitUnlessSlashed
<1>16. DelegationsAgree'
    BY <1>1, <1>2 DEF LedgersAgree, DelegationsAgree, DelegatedTo
<1>17. DepositsAgree'
    <2> SUFFICES ASSUME NEW d \in Delegators
                 PROVE  deposited'[d] = DelegatedBy(d)' + Worth(OwedTo(d, Open))' + withdrawn'[d]
        BY DEF DepositsAgree
    <2>1. deposited'[d] = deposited[d] /\ DelegatedBy(d)' = DelegatedBy(d)
        BY <1>2 DEF DelegatedBy
    <2>2. deposited[d] = DelegatedBy(d) + Worth(OwedTo(d, Open)) + withdrawn[d]
        BY <1>1 DEF LedgersAgree, DepositsAgree
    <2>3. DelegatedBy(d) \in Nat
        BY <1>1, DelegatedNat
    <2> QED
        BY <1>10, <1>12, <2>1, <2>2, <2>3
<1>18. TokensAgree'
    <2>1. held + claimed = SumFunctionOnSet(totalDelegatedTo, Validators) + Worth(Open)
        BY <1>1 DEF LedgersAgree, TokensAgree
    <2>2. SumFunctionOnSet(totalDelegatedTo, Validators) \in Nat
        BY <1>1, DelegatedNat
    <2>3. held' + claimed' = SumFunctionOnSet(totalDelegatedTo', Validators) + Worth(Open)'
        BY <1>2, <1>9, <1>11, <2>1, <2>2
    <2> QED
        BY <2>3 DEF TokensAgree
<1> QED
    BY <1>14, <1>15, <1>16, <1>17, <1>18 DEF Inv, LedgersAgree

\* A delegation is part of a validator's delegations: the division in
\* calculateRewards is never by zero.
LEMMA RewardNat ==
    ASSUME Inv, NEW d \in Delegators, NEW v \in Validators
    PROVE  CalculateRewards(d, v) \in Nat
PROOF
<1> DEFINE total == validators[v].totalDelegated
           acc == validators[v].rewardsAccumulated
           n == delegations[d][v]
<1>1. total \in Nat /\ acc \in Nat /\ Scale \in Nat \ {0}
    BY Fields, BoundsAssumption DEF Inv
<1>2. n \in Nat
    BY DEF Inv, TypeOK
<1>3. n <= total
    <2> DEFINE f == [e \in Delegators |-> delegations[e][v]]
    <2>1. \A e \in Delegators : f[e] \in Nat
        BY DEF Inv, TypeOK
    <2>2. f[d] = n
        OBVIOUS
    <2>3. totalDelegatedTo[v] = SumFunctionOnSet(f, Delegators) /\ totalDelegatedTo[v] <= total
        BY DEF Inv, LedgersAgree, DelegationsAgree, DelegatedTo, RegistryInv
    <2> HIDE DEF f, n, total
    <2>4. f[d] <= SumFunctionOnSet(f, Delegators) /\ SumFunctionOnSet(f, Delegators) \in Nat
        BY <2>1, FiniteAssumption, SumNat
    <2> QED
        BY <1>1, <1>2, <2>2, <2>3, <2>4
<1>4. CalculateRewards(d, v) = IF n = 0 THEN 0 ELSE (((n * Scale) \div total) * acc) \div Scale
    BY DEF CalculateRewards
<1> HIDE DEF n, total, acc
<1>5. CASE n = 0
    BY <1>4, <1>5
<1>6. CASE n # 0
    <2>1. total \in Nat \ {0}
        BY <1>1, <1>2, <1>3, <1>6
    <2>2. \A a, b \in Nat : a * b \in Nat
        OBVIOUS
    <2>3. \A a \in Nat : \A b \in Nat \ {0} : a \div b \in Nat
        OBVIOUS
    <2>4. (n * Scale) \div total \in Nat
        BY <1>1, <1>2, <2>1, <2>2, <2>3
    <2>5. (((n * Scale) \div total) * acc) \div Scale \in Nat
        BY <1>1, <2>2, <2>3, <2>4
    <2> QED
        BY <1>4, <1>6, <2>5
<1> QED
    BY <1>5, <1>6

\* A reward is paid out of the tokens held, and counted as claimed.
LEMMA ClaimInv ==
    ASSUME Inv, NEW d \in Delegators, NEW v \in Validators, ClaimRewards(d, v)
    PROVE  Inv'
PROOF
<1> DEFINE reward == CalculateRewards(d, v)
<1>1. TypeOK /\ RegistryInv /\ LedgersAgree /\ ExitUnlessSlashed
    BY DEF Inv
<1>2. /\ reward > 0 /\ held >= reward /\ held' = held - reward /\ claimed' = claimed + reward
      /\ UNCHANGED <<validators, isValidator, delegations, totalDelegatedTo, nullifiers, unbondingQueue,
                     epoch, params, deposited, withdrawn, slashed>>
    BY DEF ClaimRewards
<1>3. reward \in Nat
    BY RewardNat
<1> HIDE DEF reward
<1>4. held \in Nat /\ claimed \in Nat /\ held' \in Nat /\ claimed' \in Nat
    BY <1>1, <1>2, <1>3 DEF TypeOK
<1>5. TypeOK'
    BY <1>1, <1>2, <1>4 DEF TypeOK, params
<1>6. RegistryInv' /\ ExitUnlessSlashed'
    BY <1>1, <1>2 DEF RegistryInv, ExitUnlessSlashed
<1>7. DelegationsAgree'
    BY <1>1, <1>2 DEF LedgersAgree, DelegationsAgree, DelegatedTo
<1>8. DepositsAgree'
    BY <1>1, <1>2 DEF LedgersAgree, DepositsAgree, DelegatedBy, Worth, OwedTo, Open
<1>9. TokensAgree'
    <2>1. held' + claimed' = held + claimed
        BY <1>2, <1>3, <1>4
    <2>2. Worth(Open)' = Worth(Open)
        BY <1>2 DEF Worth, Open
    <2> QED
        BY <1>1, <1>2, <2>1, <2>2 DEF LedgersAgree, TokensAgree
<1> QED
    BY <1>5, <1>6, <1>7, <1>8, <1>9 DEF Inv, LedgersAgree

\* Calls and ticks that change parameters or the time only.
LEMMA ParametersInv ==
    ASSUME Inv, minStake' \in MinStakes, unbondingPeriod' \in Periods, time' \in 0..MaxTime,
           UNCHANGED <<validators, isValidator, delegations, totalDelegatedTo, nullifiers, unbondingQueue,
                       epoch, held, history>>
    PROVE  Inv'
PROOF
<1>1. TypeOK /\ RegistryInv /\ LedgersAgree /\ ExitUnlessSlashed
    BY DEF Inv
<1>2. TypeOK'
    BY <1>1 DEF TypeOK, history
<1>3. RegistryInv' /\ ExitUnlessSlashed'
    BY <1>1 DEF RegistryInv, ExitUnlessSlashed, history
<1>4. LedgersAgree'
    BY <1>1, LedgersSame DEF history
<1> QED
    BY <1>2, <1>3, <1>4 DEF Inv

LEMMA NextInv == Inv /\ [Next]_vars => Inv'
PROOF
<1> SUFFICES ASSUME Inv, [Next]_vars PROVE Inv'
    OBVIOUS
<1>1. minStake \in MinStakes /\ unbondingPeriod \in Periods /\ time \in 0..MaxTime /\ MaxTime \in Nat
    BY BoundsAssumption DEF Inv, TypeOK
<1>2. ASSUME NEW v \in Validators, NEW commission \in Commissions, RegisterValidator(v, commission) PROVE Inv'
    BY <1>2, RegisterInv
<1>3. ASSUME NEW d \in Delegators, NEW v \in Validators, NEW amount \in Amounts, Stake(d, v, amount) PROVE Inv'
    BY <1>3, StakeInv
<1>4. ASSUME NEW d \in Delegators, NEW v \in Validators, NEW amount \in Amounts, Unstake(d, v, amount) PROVE Inv'
    BY <1>4, UnstakeInv
<1>5. ASSUME NEW v \in Validators, NEW nullifier \in Nullifiers, PrivateStake(v, nullifier) PROVE Inv'
    BY <1>5, PrivateStakeInv
<1>6. CASE ProcessUnbonding
    BY <1>6, ProcessInv
<1>7. ASSUME NEW v \in Validators, NEW reward \in Rewards, DistributeRewards(v, reward) PROVE Inv'
    BY <1>7, DistributeInv
<1>8. ASSUME NEW d \in Delegators, NEW v \in Validators, ClaimRewards(d, v) PROVE Inv'
    BY <1>8, ClaimInv
<1>9. ASSUME NEW v \in Validators, NEW percentage \in Percentages, SlashValidator(v, percentage) PROVE Inv'
    BY <1>9, SlashInv
<1>10. ASSUME NEW n \in MinStakes, SetMinStake(n) PROVE Inv'
    BY <1>1, <1>10, ParametersInv DEF SetMinStake
<1>11. ASSUME NEW n \in Periods, SetUnbondingPeriod(n) PROVE Inv'
    BY <1>1, <1>11, ParametersInv DEF SetUnbondingPeriod
<1>12. CASE Tick
    <2>1. time' \in 0..MaxTime
        BY <1>1, <1>12 DEF Tick
    <2> QED
        BY <1>1, <1>12, <2>1, ParametersInv DEF Tick
<1>13. CASE UNCHANGED vars
    BY <1>1, <1>13, ParametersInv DEF vars, params
<1> QED
    BY <1>2, <1>3, <1>4, <1>5, <1>6, <1>7, <1>8, <1>9, <1>10, <1>11, <1>12, <1>13 DEF Next

LEMMA InvHolds == Spec => []Inv
PROOF
    BY InitInv, NextInv, PTL DEF Spec

-----------------------------------------------------------------------------
(* The theorems                                                            *)

\* No sequence of calls makes a balance, a stake or a total of
\* ProtonStaking.sol negative.
THEOREM TypeCorrect == Spec => []TypeOK
PROOF
<1>1. Inv => TypeOK
    BY DEF Inv
<1> QED
    BY <1>1, InvHolds, PTL

\* The delegations, the totals, the queue, the deposits and the tokens held
\* agree after any sequence of calls.
THEOREM LedgersAlwaysAgree == Spec => []LedgersAgree
PROOF
<1>1. Inv => LedgersAgree
    BY DEF Inv
<1> QED
    BY <1>1, InvHolds, PTL

\* unstake can underflow a validator's stake only after slashValidator.
THEOREM OnlySlashingBlocksExit == Spec => []ExitUnlessSlashed
PROOF
<1>1. Inv => ExitUnlessSlashed
    BY DEF Inv
<1> QED
    BY <1>1, InvHolds, PTL

\* calculateRewards gives the delegators of a validator together no more than
\* its accumulated rewards, whatever is rounded.
THEOREM RewardsStayBounded == Spec => []RewardsBounded
PROOF
<1>1. Inv => RewardsBounded
    <2> SUFFICES ASSUME Inv, NEW v \in Validators
                 PROVE  SumFunctionOnSet([d \in Delegators |-> CalculateRewards(d, v)], Delegators)
                            <= validators[v].rewardsAccumulated
        BY DEF RewardsBounded
    <2> DEFINE total == validators[v].totalDelegated
               acc == validators[v].rewardsAccumulated
               amounts == [d \in Delegators |-> delegations[d][v]]
               shares == [d \in Delegators |-> (amounts[d] * Scale) \div total]
               rewards == [d \in Delegators |-> CalculateRewards(d, v)]
    <2>1. total \in Nat /\ acc \in Nat /\ Scale \in Nat \ {0}
        BY Fields, BoundsAssumption DEF Inv
    <2>2. \A d \in Delegators : amounts[d] = delegations[d][v] /\ amounts[d] \in Nat
        BY DEF Inv, TypeOK
    <2>3. SumFunctionOnSet(amounts, Delegators) <= total
        BY DEF Inv, LedgersAgree, DelegationsAgree, DelegatedTo, RegistryInv
    <2>4. CASE total = 0
        <3>1. \A d \in Delegators : rewards[d] = 0
            <4> HIDE DEF amounts, total
            <4>1. \A d \in Delegators : amounts[d] = 0
                <5>1. \A d \in Delegators : amounts[d] <= SumFunctionOnSet(amounts, Delegators)
                      /\ SumFunctionOnSet(amounts, Delegators) \in Nat
                    BY <2>2, FiniteAssumption, SumNat
                <5> QED
                    BY <2>2, <2>3, <2>4, <5>1
            <4> QED
                BY <2>2, <4>1 DEF CalculateRewards
        <3> HIDE DEF rewards
        <3>2. SumFunctionOnSet(rewards, Delegators) = 0
            BY <3>1, FiniteAssumption, SumZero
        <3>3. SumFunctionOnSet(rewards, Delegators) <= acc
            BY <2>1, <3>2
        <3> QED
            BY <3>3 DEF rewards
    <2>5. CASE total # 0
        <3>1. total \in Nat \ {0}
            BY <2>1, <2>5
        <3>2. \A d \in Delegators : shares[d] = (amounts[d] * Scale) \div total
            OBVIOUS
        <3>3. \A d \in Delegators : rewards[d] = IF amounts[d] = 0 THEN 0 ELSE (shares[d] * acc) \div Scale
            BY <2>2 DEF CalculateRewards
        <3> HIDE DEF amounts, shares, rewards, total, acc
        <3>4. (\A d \in Delegators : shares[d] \in Nat) /\ SumFunctionOnSet(shares, Delegators) <= Scale
            BY <2>1, <2>2, <2>3, <3>1, <3>2, FiniteAssumption, SumShares
        <3>5. \A d \in Delegators : rewards[d] = (shares[d] * acc) \div Scale
            <4> TAKE d \in Delegators
            <4>1. CASE amounts[d] = 0
                <5>1. shares[d] = 0
                    BY <2>1, <3>1, <3>2, <4>1
                <5>2. (0 * acc) \div Scale = 0
                    BY <2>1
                <5> QED
                    BY <3>3, <4>1, <5>1, <5>2
            <4>2. CASE amounts[d] # 0
                BY <3>3, <4>2
            <4> QED
                BY <4>1, <4>2
        <3>6. SumFunctionOnSet(rewards, Delegators) <= acc
            BY <2>1, <3>4, <3>5, FiniteAssumption, SumShares
        <3> QED
            BY <3>6 DEF rewards, acc
    <2> QED
        BY <2>4, <2>5
<1> QED
    BY <1>1, InvHolds, PTL
=============================================================================
