SPECIFICATION MCSpec
CONSTANTS
    tx1 = tx1 tx2 = tx2 tx3 = tx3 k1 = k1 k2 = k2
    None = None
    Threads = {t1, t2}
    Txs <- MCTxs
    Keys = {k1, k2}
    KeyOf <- MCKeyOf
    PriceOf <- MCPriceOf
    MaxSize = 2
    Limits = {0, 1, 2}
    GasListBound = 2
    NoTask = NoTask
    Callers = {t1, t2}
    Timer = timer
    EventLoop = loop
    NetTxs <- MCTxs
    Heights = {1}
    BatchSize = 3
    MaxReceived = 1
    alice = alice bob = bob there = there again = again back = back nowhere = nowhere
    NoTransfer = NoTransfer
    Shards = {0, 1}
    Users = {alice, bob}
    Transfers <- MCTransfers
    Balance0 <- MCBalance0
    ChannelSize = 1
    MaxRedeliveries = 2
CHECK_DEADLOCK FALSE
INVARIANTS
    IndexesAgree WithinCapacity StuckOnlyByInversion GetReturnsTop
    NothingLost RequestedOnce
    Conservation PendingIsQueued
PROPERTIES
    CallsReturn SendersReturn QueuedSettles
