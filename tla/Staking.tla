------------------------------- MODULE Staking -------------------------------
(***************************************************************************)
(* The staking contract (src/contracts/ProtonStaking.sol).  Every external *)
(* function is an atomic action; a call that reverts, by a check, by an    *)
(* arithmetic underflow or by a token transfer the contract cannot pay,    *)
(* is no step.                                                             *)
(***************************************************************************)
EXTENDS Integers, Sequences, FiniteSets, Functions

CONSTANTS
    Validators,   \* addresses that may register
    Delegators,   \* addresses that stake
    Nullifiers,   \* nullifiers of private delegations
    Amounts,      \* amounts staked and unstaked
    Rewards,      \* rewards of one validator in one distribution
    Commissions,  \* commissions asked for, in basis points
    Percentages,  \* slashing percentages, in basis points
    MinStakes,    \* values of minStake
    Periods,      \* values of unbondingPeriod
    Scale,        \* fixed-point scale of a delegator's share (1e18)
    MaxStaked,    \* bound: tokens staked in all
    MaxTime,      \* bound: block.timestamp
    MaxQueue,     \* bound: length of unbondingQueue
    MaxEpoch      \* bound: distributions

FeeDenominator == 10000
CommissionBase == 500

ASSUME AmountsAssumption == Amounts \subseteq Nat /\ Rewards \subseteq Nat
ASSUME RatesAssumption == Commissions \subseteq Nat /\ Percentages \subseteq Nat
ASSUME ParametersAssumption == MinStakes \subseteq Nat /\ Periods \subseteq Nat
ASSUME FiniteAssumption == IsFiniteSet(Validators) /\ IsFiniteSet(Delegators) /\ IsFiniteSet(Nullifiers)
ASSUME BoundsAssumption == {MaxStaked, MaxTime, MaxQueue, MaxEpoch} \subseteq Nat /\ Scale \in Nat \ {0}

Validator == [stake : Nat, commission : 0..FeeDenominator, isActive : BOOLEAN,
              totalDelegated : Nat, rewardsAccumulated : Nat]
UnbondingEntry == [delegator : Delegators, amount : Nat, unlockHeight : Nat, processed : BOOLEAN]

VARIABLES
    validators,       \* Validators -> Validator
    isValidator,      \* the registered ones
    delegations,      \* Delegators -> Validators -> amount
    totalDelegatedTo, \* Validators -> amount
    nullifiers,       \* used ones
    unbondingQueue,   \* sequence of entries
    minStake,
    unbondingPeriod,
    epoch,
    time,             \* block.timestamp
    held,             \* the token balance of the contract
    deposited,        \* history: Delegators -> tokens staked so far
    withdrawn,        \* history: Delegators -> tokens returned by processUnbonding
    claimed,          \* history: tokens paid by claimRewards
    slashed           \* history: validators that lost stake

params == <<minStake, unbondingPeriod, time>>
history == <<deposited, withdrawn, claimed, slashed>>
vars == <<validators, isValidator, delegations, totalDelegatedTo, nullifiers, unbondingQueue,
          epoch, held, params, history>>

Unregistered == [stake |-> 0, commission |-> 0, isActive |-> FALSE,
                 totalDelegated |-> 0, rewardsAccumulated |-> 0]

Init ==
    /\ validators = [v \in Validators |-> Unregistered]
    /\ isValidator = {}
    /\ delegations = [d \in Delegators |-> [v \in Validators |-> 0]]
    /\ totalDelegatedTo = [v \in Validators |-> 0]
    /\ nullifiers = {}
    /\ unbondingQueue = <<>>
    /\ minStake \in MinStakes
    /\ unbondingPeriod \in Periods
    /\ epoch = 0
    /\ time = 0
    /\ held = 0
    /\ deposited = [d \in Delegators |-> 0]
    /\ withdrawn = [d \in Delegators |-> 0]
    /\ claimed = 0
    /\ slashed = {}

-----------------------------------------------------------------------------
(* Validators and delegations                                              *)

\* Fault: a validator may register again.
RegisterAgain(v, commission) ==
    /\ commission <= FeeDenominator
    /\ validators' = [validators EXCEPT ![v] =
           [Unregistered EXCEPT !.commission = IF commission > CommissionBase
                                               THEN commission ELSE CommissionBase]]
    /\ isValidator' = isValidator \cup {v}
    /\ UNCHANGED <<delegations, totalDelegatedTo, nullifiers, unbondingQueue, epoch, held, params, history>>

RegisterValidator(v, commission) ==
    /\ commission <= FeeDenominator
    /\ v \notin isValidator
    /\ validators' = [validators EXCEPT ![v] =
           [Unregistered EXCEPT !.commission = IF commission > CommissionBase
                                               THEN commission ELSE CommissionBase]]
    /\ isValidator' = isValidator \cup {v}
    /\ UNCHANGED <<delegations, totalDelegatedTo, nullifiers, unbondingQueue, epoch, held, params, history>>

Stake(d, v, amount) ==
    /\ v \in isValidator
    /\ amount >= minStake \/ validators[v].stake # 0
    /\ SumFunctionOnSet(deposited, Delegators) + amount <= MaxStaked
    /\ held' = held + amount
    /\ delegations' = [delegations EXCEPT ![d][v] = @ + amount]
    /\ totalDelegatedTo' = [totalDelegatedTo EXCEPT ![v] = @ + amount]
    /\ validators' = [validators EXCEPT ![v] =
           [validators[v] EXCEPT !.stake = @ + amount, !.totalDelegated = @ + amount,
                                 !.isActive = @ \/ validators[v].stake + amount >= minStake]]
    /\ deposited' = [deposited EXCEPT ![d] = @ + amount]
    /\ UNCHANGED <<isValidator, nullifiers, unbondingQueue, epoch, params, withdrawn, claimed, slashed>>

\* The amount stays hidden: the delegation is counted as one unit, and the
\* validator becomes active whatever its stake.
PrivateStake(v, nullifier) ==
    /\ v \in isValidator
    /\ nullifier \notin nullifiers
    /\ nullifiers' = nullifiers \cup {nullifier}
    /\ validators' = [validators EXCEPT ![v] =
           [validators[v] EXCEPT !.isActive = TRUE, !.totalDelegated = @ + 1]]
    /\ UNCHANGED <<isValidator, delegations, totalDelegatedTo, unbondingQueue, epoch, held, params, history>>

\* Fault: the validator's total of delegations is left as it is.
UnstakeForgetsTotal(d, v, amount) ==
    /\ v \in isValidator
    /\ delegations[d][v] >= amount /\ validators[v].stake >= amount
    /\ Len(unbondingQueue) < MaxQueue
    /\ delegations' = [delegations EXCEPT ![d][v] = @ - amount]
    /\ UNCHANGED totalDelegatedTo
    /\ validators' = [validators EXCEPT ![v] =
           [validators[v] EXCEPT !.stake = @ - amount, !.totalDelegated = @ - amount,
                                 !.isActive = @ /\ validators[v].stake - amount >= minStake]]
    /\ unbondingQueue' = Append(unbondingQueue,
           [delegator |-> d, amount |-> amount, unlockHeight |-> time + unbondingPeriod, processed |-> FALSE])
    /\ UNCHANGED <<isValidator, nullifiers, epoch, held, params, history>>

\* Fault: the subtraction is not checked.
UnstakeUnchecked(d, v, amount) ==
    /\ v \in isValidator
    /\ delegations[d][v] >= amount
    /\ Len(unbondingQueue) < MaxQueue
    /\ delegations' = [delegations EXCEPT ![d][v] = @ - amount]
    /\ totalDelegatedTo' = [totalDelegatedTo EXCEPT ![v] = @ - amount]
    /\ validators' = [validators EXCEPT ![v] =
           [validators[v] EXCEPT !.stake = @ - amount, !.totalDelegated = @ - amount,
                                 !.isActive = @ /\ validators[v].stake - amount >= minStake]]
    /\ unbondingQueue' = Append(unbondingQueue,
           [delegator |-> d, amount |-> amount, unlockHeight |-> time + unbondingPeriod, processed |-> FALSE])
    /\ UNCHANGED <<isValidator, nullifiers, epoch, held, params, history>>

\* Subtracting more than the validator's stake reverts.
Unstake(d, v, amount) ==
    /\ v \in isValidator
    /\ delegations[d][v] >= amount
    /\ totalDelegatedTo[v] >= amount /\ validators[v].stake >= amount /\ validators[v].totalDelegated >= amount
    /\ Len(unbondingQueue) < MaxQueue
    /\ delegations' = [delegations EXCEPT ![d][v] = @ - amount]
    /\ totalDelegatedTo' = [totalDelegatedTo EXCEPT ![v] = @ - amount]
    /\ validators' = [validators EXCEPT ![v] =
           [validators[v] EXCEPT !.stake = @ - amount, !.totalDelegated = @ - amount,
                                 !.isActive = @ /\ validators[v].stake - amount >= minStake]]
    /\ unbondingQueue' = Append(unbondingQueue,
           [delegator |-> d, amount |-> amount, unlockHeight |-> time + unbondingPeriod, processed |-> FALSE])
    /\ UNCHANGED <<isValidator, nullifiers, epoch, held, params, history>>

\* Positions of the entries that are due, and what a set of entries is worth.
Due == {i \in DOMAIN unbondingQueue : ~unbondingQueue[i].processed /\ time >= unbondingQueue[i].unlockHeight}

Worth(S) == SumFunctionOnSet([i \in DOMAIN unbondingQueue |-> unbondingQueue[i].amount], S)

OwedTo(d, S) == {i \in S : unbondingQueue[i].delegator = d}

\* All entries that are due are paid by one call, or none is.
ProcessUnbonding ==
    /\ Due # {}
    /\ held >= Worth(Due)
    /\ held' = held - Worth(Due)
    /\ unbondingQueue' = [i \in DOMAIN unbondingQueue |->
           [unbondingQueue[i] EXCEPT !.processed = @ \/ i \in Due]]
    /\ withdrawn' = [d \in Delegators |-> withdrawn[d] + Worth(OwedTo(d, Due))]
    /\ UNCHANGED <<validators, isValidator, delegations, totalDelegatedTo, nullifiers,
                   epoch, params, deposited, claimed, slashed>>

-----------------------------------------------------------------------------
(* Rewards and slashing                                                    *)

Commission(v, reward) == (reward * validators[v].commission) \div FeeDenominator

\* One entry of _validators; an inactive one is skipped.  No token comes in.
DistributeRewards(v, reward) ==
    /\ epoch < MaxEpoch
    /\ validators' = IF ~validators[v].isActive THEN validators
                     ELSE [validators EXCEPT ![v] =
                              [validators[v] EXCEPT !.stake = @ + Commission(v, reward),
                                                    !.rewardsAccumulated = @ + Commission(v, reward)]]
    /\ epoch' = epoch + 1
    /\ UNCHANGED <<isValidator, delegations, totalDelegatedTo, nullifiers, unbondingQueue, held, params, history>>

\* Fault: shares are taken of the validator's stake.
RewardsOfStake(d, v) ==
    IF delegations[d][v] = 0 \/ validators[v].stake = 0 THEN 0
    ELSE (((delegations[d][v] * Scale) \div validators[v].stake) * validators[v].rewardsAccumulated) \div Scale

CalculateRewards(d, v) ==
    IF delegations[d][v] = 0 THEN 0
    ELSE (((delegations[d][v] * Scale) \div validators[v].totalDelegated)
             * validators[v].rewardsAccumulated) \div Scale

\* The reward is paid out of the contract's balance; nothing records that
\* it was claimed.
ClaimRewards(d, v) ==
    LET reward == CalculateRewards(d, v) IN
    /\ reward > 0
    /\ held >= reward
    /\ held' = held - reward
    /\ claimed' = claimed + reward
    /\ UNCHANGED <<validators, isValidator, delegations, totalDelegatedTo, nullifiers, unbondingQueue,
                   epoch, params, deposited, withdrawn, slashed>>

\* Neither the delegations nor the tokens held are touched.
SlashValidator(v, percentage) ==
    /\ v \in isValidator
    /\ percentage <= FeeDenominator
    /\ LET slashAmount == (validators[v].stake * percentage) \div FeeDenominator IN
       /\ validators' = [validators EXCEPT ![v] =
              [validators[v] EXCEPT !.stake = @ - slashAmount, !.isActive = FALSE]]
       /\ slashed' = IF slashAmount > 0 THEN slashed \cup {v} ELSE slashed
    /\ UNCHANGED <<isValidator, delegations, totalDelegatedTo, nullifiers, unbondingQueue,
                   epoch, held, params, deposited, withdrawn, claimed>>

-----------------------------------------------------------------------------
(* Parameters and time                                                     *)

SetMinStake(n) ==
    /\ minStake' = n
    /\ UNCHANGED <<validators, isValidator, delegations, totalDelegatedTo, nullifiers, unbondingQueue,
                   epoch, held, unbondingPeriod, time, history>>

SetUnbondingPeriod(n) ==
    /\ unbondingPeriod' = n
    /\ UNCHANGED <<validators, isValidator, delegations, totalDelegatedTo, nullifiers, unbondingQueue,
                   epoch, held, minStake, time, history>>

Tick ==
    /\ time < MaxTime
    /\ time' = time + 1
    /\ UNCHANGED <<validators, isValidator, delegations, totalDelegatedTo, nullifiers, unbondingQueue,
                   epoch, held, minStake, unbondingPeriod, history>>

Next ==
    \/ \E v \in Validators, commission \in Commissions : RegisterValidator(v, commission)
    \/ \E d \in Delegators, v \in Validators, amount \in Amounts : Stake(d, v, amount) \/ Unstake(d, v, amount)
    \/ \E v \in Validators, nullifier \in Nullifiers : PrivateStake(v, nullifier)
    \/ ProcessUnbonding
    \/ \E v \in Validators, reward \in Rewards : DistributeRewards(v, reward)
    \/ \E d \in Delegators, v \in Validators : ClaimRewards(d, v)
    \/ \E v \in Validators, percentage \in Percentages : SlashValidator(v, percentage)
    \/ \E n \in MinStakes : SetMinStake(n)
    \/ \E n \in Periods : SetUnbondingPeriod(n)
    \/ Tick

Spec == Init /\ [][Next]_vars

-----------------------------------------------------------------------------
(* Properties                                                              *)

\* Type invariant: no subtraction goes below zero.
TypeOK ==
    /\ validators \in [Validators -> Validator]
    /\ isValidator \subseteq Validators
    /\ delegations \in [Delegators -> [Validators -> Nat]]
    /\ totalDelegatedTo \in [Validators -> Nat]
    /\ nullifiers \subseteq Nullifiers
    /\ unbondingQueue \in Seq(UnbondingEntry)
    /\ minStake \in MinStakes /\ unbondingPeriod \in Periods
    /\ epoch \in 0..MaxEpoch /\ time \in 0..MaxTime
    /\ held \in Nat /\ claimed \in Nat
    /\ deposited \in [Delegators -> Nat] /\ withdrawn \in [Delegators -> Nat]
    /\ slashed \subseteq isValidator

DelegatedTo(v) == SumFunctionOnSet([d \in Delegators |-> delegations[d][v]], Delegators)
DelegatedBy(d) == SumFunctionOnSet(delegations[d], Validators)
Open == {i \in DOMAIN unbondingQueue : ~unbondingQueue[i].processed}

\* The delegators' entries add up to totalDelegatedTo, and totalDelegated is
\* larger by one for each private delegation.
DelegationsAgree ==
    /\ \A v \in Validators : totalDelegatedTo[v] = DelegatedTo(v)
    /\ SumFunctionOnSet([v \in Validators |-> validators[v].totalDelegated - totalDelegatedTo[v]], Validators)
           = Cardinality(nullifiers)

\* Every delegator's deposits are delegated, waiting in the queue or paid
\* back to that delegator.
DepositsAgree ==
    \A d \in Delegators : deposited[d] = DelegatedBy(d) + Worth(OwedTo(d, Open)) + withdrawn[d]

\* The contract's tokens are the delegations and the open entries of the
\* queue minus what was claimed.
TokensAgree == held + claimed = SumFunctionOnSet(totalDelegatedTo, Validators) + Worth(Open)

\* The contract's records agree whatever was slashed or claimed: rewards are
\* the only way in which a delegator's tokens can be missing.
LedgersAgree == DelegationsAgree /\ DepositsAgree /\ TokensAgree

\* unstake of what a delegator has delegated fails only if the validator
\* was slashed.
ExitUnlessSlashed ==
    \A v \in Validators \ slashed : validators[v].stake >= totalDelegatedTo[v]

\* One round of claims by all delegators takes no more than the validator
\* has accumulated, although every share is rounded on its own.
RewardsBounded ==
    \A v \in Validators :
        SumFunctionOnSet([d \in Delegators |-> CalculateRewards(d, v)], Delegators) <= validators[v].rewardsAccumulated
=============================================================================
