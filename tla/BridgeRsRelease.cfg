SPECIFICATION BridgeSpec
CONSTANTS
    BridgeChains = {1, 2}
    BridgeHere = 1
    BridgeValidators = {x1, x2}
    Threshold = 2
    LockAmounts = {2}
    BridgeSupply = 3
    MaxTransfers = 2
    MaxPrivate = 1
    MaxTimestamp = 1
INVARIANT
    PendingIsNotCompleted
