SPECIFICATION Spec
CONSTANTS
    tx1 = tx1 tx2 = tx2 tx3 = tx3
    None = None
    Txs = {tx1, tx2}
    Cheap = {}
    Addresses = {1, 2}
    Me = 1
    Received <- MCGenesis
    Stakes = {3}
    BlockLimit = 2
    MaxHeight = 1
    MaxAdds = 2
    MaxOpen = 1
    MaxSigs = 2
CHECK_DEADLOCK FALSE
INVARIANT SupermajoritySigned
