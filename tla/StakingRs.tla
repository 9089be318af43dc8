------------------------------ MODULE StakingRs ------------------------------
(***************************************************************************)
(* The staking contract in Rust (src/contracts/staking.rs).  A call is     *)
(* atomic, and one that panics has no effect.  Its maps have keys of       *)
(* different types and do not meet in the storage.                         *)
(***************************************************************************)
EXTENDS Integers, Sequences, FiniteSets, Functions, Lists

CONSTANTS
    StakeValidators,  \* addresses that may register
    StakeDelegators,  \* addresses that stake
    Commitments,      \* commitments of private stakes
    StakeAmounts,     \* amounts staked and unstaked
    MinStake,         \* min_stake
    UnbondingPeriod,  \* unbonding_period, in blocks
    StakeSupply,      \* tokens of all delegators
    MaxHeight,        \* bound: block height
    MaxUnbonding,     \* bound: length of the queue
    MaxEpochs         \* bound: distributions

ASSUME StakersAssumption == IsFiniteSet(StakeValidators) /\ IsFiniteSet(StakeDelegators)
ASSUME StakeAmountsAssumption == StakeAmounts \subseteq Nat /\ MinStake \in Nat
ASSUME UnbondingAssumption == UnbondingPeriod \in Nat /\ MaxHeight \in Nat

VARIABLES
    validator_info,   \* StakeValidators -> ValidatorInfo; registered is FALSE for no entry
    delegations,      \* StakeDelegators -> StakeValidators -> amount
    total_staked,
    unbonding_queue,
    encrypted,        \* keys of encrypted_delegations
    epoch,
    height,
    staked_held,      \* the token balance of the contract
    privately         \* history: validators that were staked on privately

stakingVars == <<validator_info, delegations, total_staked, unbonding_queue, encrypted, epoch, height,
                 staked_held, privately>>

Info(stake, total_delegated, is_active) ==
    [registered |-> TRUE, stake |-> stake, total_delegated |-> total_delegated, is_active |-> is_active]

Unregistered == [registered |-> FALSE, stake |-> 0, total_delegated |-> 0, is_active |-> FALSE]

StakingInit ==
    /\ validator_info = [v \in StakeValidators |-> Unregistered]
    /\ delegations = [d \in StakeDelegators |-> [v \in StakeValidators |-> 0]]
    /\ total_staked = 0
    /\ unbonding_queue = <<>>
    /\ encrypted = {}
    /\ epoch = 0 /\ height = 0
    /\ staked_held = 0
    /\ privately = {}

-----------------------------------------------------------------------------
RegisterValidator(v) ==
    /\ ~validator_info[v].registered
    /\ validator_info' = [validator_info EXCEPT ![v] = Info(0, 0, FALSE)]
    /\ UNCHANGED <<delegations, total_staked, unbonding_queue, encrypted, epoch, height, staked_held, privately>>

Stake(d, v, amount) ==
    LET info == validator_info[v] IN
    /\ amount >= MinStake
    /\ validator_info[v].registered
    /\ staked_held + amount <= StakeSupply
    /\ staked_held' = staked_held + amount
    /\ delegations' = [delegations EXCEPT ![d][v] = @ + amount]
    /\ validator_info' = [validator_info EXCEPT ![v] =
           Info(info.stake + amount, info.total_delegated + amount,
                info.is_active \/ info.stake + amount >= MinStake)]
    /\ total_staked' = total_staked + amount
    /\ UNCHANGED <<unbonding_queue, encrypted, epoch, height, privately>>

\* The validator becomes active whatever its stake; the nullifier is not kept.
PrivateStake(v, commitment) ==
    /\ validator_info[v].registered
    /\ encrypted' = encrypted \cup {commitment}
    /\ validator_info' = [validator_info EXCEPT ![v] =
           Info(validator_info[v].stake, validator_info[v].total_delegated, TRUE)]
    /\ privately' = privately \cup {v}
    /\ UNCHANGED <<delegations, total_staked, unbonding_queue, epoch, height, staked_held>>

Unstake(d, v, amount) ==
    LET info == validator_info[v] IN
    /\ validator_info[v].registered
    /\ delegations[d][v] >= amount
    /\ Len(unbonding_queue) < MaxUnbonding
    /\ delegations' = [delegations EXCEPT ![d][v] = @ - amount]
    /\ validator_info' = [validator_info EXCEPT ![v] =
           Info(info.stake - amount, info.total_delegated - amount,
                info.is_active /\ info.stake - amount >= MinStake)]
    /\ total_staked' = total_staked - amount
    /\ unbonding_queue' = Append(unbonding_queue,
           [delegator |-> d, amount |-> amount, unlock_height |-> height + UnbondingPeriod])
    /\ UNCHANGED <<encrypted, epoch, height, staked_held, privately>>

IsDue(entry) == entry.unlock_height <= height

Due == {i \in 1..Len(unbonding_queue) : IsDue(unbonding_queue[i])}

Amounts(queue) == [i \in 1..Len(queue) |-> queue[i].amount]
Owed(queue) == SumFunctionOnSet(Amounts(queue), 1..Len(queue))
DueSum == SumFunctionOnSet(Amounts(unbonding_queue), Due)

\* Fault: the entries are paid and not removed.
ProcessUnbondingKeeps ==
    /\ Due # {}
    /\ staked_held' = staked_held - DueSum
    /\ UNCHANGED <<validator_info, delegations, total_staked, unbonding_queue, encrypted, epoch, height,
                   privately>>

\* Every entry that is due is paid, and then the entries are removed from the
\* last to the first.
ProcessUnbonding ==
    /\ Due # {}
    /\ unbonding_queue' = KeepAt(unbonding_queue, 1..Len(unbonding_queue) \ Due)
    /\ staked_held' = staked_held - DueSum
    /\ UNCHANGED <<validator_info, delegations, total_staked, encrypted, epoch, height, privately>>

\* Map::iter of the SDK yields nothing: no reward is ever booked.
DistributeRewards ==
    /\ epoch < MaxEpochs
    /\ epoch' = epoch + 1
    /\ UNCHANGED <<validator_info, delegations, total_staked, unbonding_queue, encrypted, height, staked_held,
                   privately>>

NextHeight ==
    /\ height < MaxHeight
    /\ height' = height + 1
    /\ UNCHANGED <<validator_info, delegations, total_staked, unbonding_queue, encrypted, epoch, staked_held,
                   privately>>

StakingNext ==
    \/ \E v \in StakeValidators :
           \/ RegisterValidator(v)
           \/ \E commitment \in Commitments : PrivateStake(v, commitment)
           \/ \E d \in StakeDelegators, amount \in StakeAmounts : Stake(d, v, amount) \/ Unstake(d, v, amount)
    \/ ProcessUnbonding \/ DistributeRewards \/ NextHeight

StakingSpec == StakingInit /\ [][StakingNext]_stakingVars

-----------------------------------------------------------------------------
(* Properties                                                              *)

Delegated(v) == SumFunctionOnSet([d \in StakeDelegators |-> delegations[d][v]], StakeDelegators)
Stakes == [v \in StakeValidators |-> validator_info[v].stake]

\* The records of what is staked agree in any order of calls: a validator's
\* stake and total_delegated are the sum of its delegations, so that unstake
\* never underflows; the stakes add up to total_staked; the contract holds
\* total_staked and all that is queued, so that process_unbonding can always
\* pay; and a validator is active if it has the minimum stake, and below it
\* only if it was staked on privately.
StakeBooks ==
    /\ \A v \in StakeValidators :
           LET info == validator_info[v]
           IN  /\ info.stake = Delegated(v) /\ info.total_delegated = Delegated(v)
               /\ info.stake >= MinStake /\ info.stake > 0 => info.is_active
               /\ info.is_active => info.stake >= MinStake \/ v \in privately
    /\ total_staked = SumFunctionOnSet(Stakes, StakeValidators)
    /\ staked_held = total_staked + Owed(unbonding_queue)
=============================================================================
