SPECIFICATION DexSpec
CONSTANTS
    DexTokens = {1, 2}
    DexAmounts = {400, 1200}
    QuoteAmounts = {1, 5, 100, 300}
    HiddenAmounts = {400}
    Fees = 30
    DexSupply = 2000
    DexWord = 1048576
    Orders = {o1}
    OrderOwners = {s1, s2}
    MaxSwaps = 1
    DexMaxTime = 1
INVARIANT
    QuotesFollowFormula
