CONSTANTS
    NftUsers = {u1, u2}
    Stealths = {s1, s2}
    Nullifiers = {x1, x2}
    LongMetadata = LongMetadata
    MaxSupply = 2
    NoOwner = NoOwner
SPECIFICATION NftSpec
INVARIANT OwnerIsRecipient
CHECK_DEADLOCK FALSE
