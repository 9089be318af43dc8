SPECIFICATION Spec
CONSTANTS
    tx1 = tx1 tx2 = tx2 tx3 = tx3
    None = None
    Txs = {tx1, tx2}
    Cheap = {}
    Addresses = {1}
    Me = 1
    Received <- MCGenesis
    Stakes = {3}
    BlockLimit = 2
    MaxHeight = 1
    MaxAdds = 1
    MaxOpen = 1
    MaxSigs = 0
CHECK_DEADLOCK FALSE
INVARIANT LeaderBlockAccepted
