SPECIFICATION MCSpec
CONSTANTS
    tx1 = tx1 tx2 = tx2 tx3 = tx3
    None = None
    Txs = {tx1, tx2, tx3}
    Cheap = {tx3}
    Addresses = {1, 2}
    Me = 1
    Received <- MCReceived
    Stakes = {1, 3}
    BlockLimit = 1
    MaxHeight = 2
    MaxAdds = 2
    MaxOpen = 2
    MaxSigs = 2
    a = a b = b c = c
    NoEntry = NoEntry
    Inserters = {t1, t2}
    Hashes = {a, b, c}
    ParentLists <- MCParentLists
    MaxInserts = 4
SYMMETRY MCSymmetry
CHECK_DEADLOCK FALSE
INVARIANTS
    TypeOK ChainHasNoGaps CertificateNeedsStake NothingDropped
    DagTypeOK AncestorsComplete MapsAgree
PROPERTY
    SortImplements
