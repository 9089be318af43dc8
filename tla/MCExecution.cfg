SPECIFICATION MCSpec
CONSTANTS
    a = a b = b c = c
    NoReceiver = NoReceiver
    VMAddresses = {a, b, c}
    VMTxs <- MCVMTxs
    Blocks <- MCBlocks
    Balance0 <- MCBalance0
    Word = 16
    MaxBlocks = 2
    x1 = x1 x2 = x2 y1 = y1 y2 = y2 z1 = z1 z2 = z2
    NoValue = NoValue
    Threads = {x1, x2}
    Accounts = {y1, y2}
    Records = {blk}
    Values = {z1, z2}
    BatchMayFail = TRUE
    CacheSize = 1
    PendingBound = 3
    BridgeChains = {1, 2}
    BridgeHere = 1
    BridgeValidators = {x1, x2}
    Threshold = 2
    LockAmounts = {2}
    BridgeSupply = 3
    MaxTransfers = 2
    MaxPrivate = 1
    MaxTimestamp = 1
    TokenHolders = {h1, h2}
    MintAmounts = {1, 5}
    Notes = {n1, n2}
    NoteCommitments = {m1, m2}
    TokenWord = 8
    MaxProofs = 4
    DexTokens = {1, 2}
    DexAmounts = {0, 400, 1200}
    QuoteAmounts = {1, 5, 100, 300}
    HiddenAmounts = {0, 400}
    Fees = 30
    DexSupply = 2000
    DexWord = 1048576
    Orders = {o1}
    OrderOwners = {s1, s2}
    MaxSwaps = 1
    DexMaxTime = 1
    Validators = {a, b}
    Delegators = {y1, y2}
    Nullifiers = {n}
    Amounts = {1, 2}
    Rewards = {4}
    Commissions = {5000}
    Percentages = {5000}
    MinStakes = {1, 2}
    Periods = {0, 1}
    MaxStaked = 3
    Scale = 100
    MaxTime = 1
    MaxQueue = 2
    MaxEpoch = 1
SYMMETRY MCSymmetry
CHECK_DEADLOCK FALSE
INVARIANTS
    BalancesConserved FundedBlocksAreSerial CacheFresh
    LockedCovers SupplyIsHeld AcceptedOnce SharesCovered FirstQuotesFollow
    TypeOK LedgersAgree ExitUnlessSlashed RewardsBounded
