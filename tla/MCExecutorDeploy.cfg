SPECIFICATION VMSpec
CONSTANTS
    a = a
    b = b
    c = c
    NoReceiver = NoReceiver
    VMAddresses = {a, b, c}
    VMTxs <- MCVMTxs
    Blocks <- MCBlocks
    Balance0 <- MCBalance0
    Word = 16
    MaxBlocks = 1
CHECK_DEADLOCK FALSE
PROPERTY
    DeploymentsDebit
