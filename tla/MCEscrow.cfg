SPECIFICATION MCSpec
CONSTANTS
    Chains = {1, 2}
    Here = 1
    Requests <- MCRequests
    BridgeValidators = {v1, v2}
    Thresholds = {1, 2}
    Supply = 2
    MaxBlock = 1
    MaxPrivate = 1
    StakeValidators = {v1, v2}
    StakeDelegators = {d1, d2}
    Commitments = {c1}
    StakeAmounts = {0, 1, 2}
    MinStake = 2
    UnbondingPeriod = 1
    StakeSupply = 5
    MaxHeight = 2
    MaxUnbonding = 2
    MaxEpochs = 1
SYMMETRY MCSymmetry
CHECK_DEADLOCK FALSE
INVARIANTS
    PaidOnce Backed StakeBooks
PROPERTY
    CompletedByQuorum
