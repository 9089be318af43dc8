-------------------------------- MODULE DexRs --------------------------------
(***************************************************************************)
(* The exchange contract in Rust (src/contracts/dex.rs).  A call is        *)
(* atomic, and one that panics has no effect.  Its maps have keys of       *)
(* different types and do not meet in the storage.  Tokens are numbers in  *)
(* the order of their addresses; products wrap around at DexWord.          *)
(***************************************************************************)
EXTENDS Integers, Sequences, FiniteSets, Functions

CONSTANTS
    DexTokens,    \* addresses of tokens, as numbers
    DexAmounts,   \* amounts added to a pair
    QuoteAmounts, \* amounts a swap is calculated for
    HiddenAmounts,\* amounts of private swaps
    Fees,         \* basis points
    DexSupply,    \* tokens of each kind that there are
    DexWord,      \* 2^128
    Orders,       \* contents of encrypted orders
    OrderOwners,  \* stealth addresses
    MaxSwaps,     \* bound: calls of private_swap
    DexMaxTime    \* bound: current_timestamp

ASSUME DexTokensAssumption == IsFiniteSet(DexTokens) /\ DexTokens \subseteq Nat
ASSUME DexAmountsAssumption ==
    DexAmounts \subseteq Nat /\ QuoteAmounts \subseteq Nat /\ HiddenAmounts \subseteq Nat
\* The word has room for the supplies of two tokens, for what private swaps
\* may take out, to be added once more, and for the largest input of a quote.
ASSUME DexWordAssumption ==
    /\ DexWord \in Nat \ {0} /\ DexSupply \in Nat /\ MaxSwaps \in Nat
    /\ 2 * DexSupply + MaxSwaps * DexSupply + DexWord \div 10000 < DexWord
ASSUME FeesAssumption == Fees \in 0..10000

VARIABLES
    pairs,    \* pairs of tokens in order -> TradingPair, where there is one
    dex_held, \* DexTokens -> balance of the contract
    lp_minted,\* LP tokens, the same for all pairs
    orders,   \* order hashes (content and time) -> owner
    swaps,    \* calls of private_swap
    hidden_in, hidden_out, \* history: what private swaps have brought and taken
    dex_time

hiddenVars == <<swaps, hidden_in, hidden_out>>
dexVars == <<pairs, dex_held, lp_minted, orders, hiddenVars, dex_time>>

DexInit ==
    /\ pairs = [key \in {} |-> {}]
    /\ dex_held = [t \in DexTokens |-> 0]
    /\ lp_minted = 0
    /\ orders = [key \in {} |-> {}]
    /\ swaps = 0 /\ hidden_in = 0 /\ hidden_out = 0
    /\ dex_time = 0

-----------------------------------------------------------------------------
(* Arithmetic                                                              *)

Times(x, y) == (x * y) % DexWord

\* Newton's iteration: while the next estimate is smaller, it is taken.
Estimate(x, z) == (z + x \div z) \div 2

Descend(x) ==
    LET descend[z \in 1..x] == IF Estimate(x, z) < z THEN descend[Estimate(x, z)] ELSE z
    IN  descend[x]

Sqrt(x) == IF x = 0 THEN 0 ELSE Descend(x)

\* Fault: the larger of the two prices.
Larger(x, y) == IF x < y THEN y ELSE x

Smaller(x, y) == IF x < y THEN x ELSE y

SortPair(s, t) == IF s < t THEN <<s, t>> ELSE <<t, s>>

-----------------------------------------------------------------------------
(* Pairs and liquidity                                                     *)

CreatePair(s, t) ==
    /\ s # t
    /\ SortPair(s, t) \notin DOMAIN pairs
    /\ pairs' = [key \in DOMAIN pairs \cup {SortPair(s, t)} |->
           IF key \in DOMAIN pairs THEN pairs[key]
           ELSE [reserve_a |-> 0, reserve_b |-> 0, total_liquidity |-> 0]]
    /\ UNCHANGED <<dex_held, lp_minted, orders, hiddenVars, dex_time>>

\* The amounts are those of the caller's first and second token, the
\* reserves those of the sorted pair.  Dividing by an empty reserve panics.
CanPrice(pair) == pair.total_liquidity # 0 => pair.reserve_a # 0 /\ pair.reserve_b # 0

\* sqrt of the largest number would wrap around its first estimate to zero
\* and panics, too.
CanStart(pair, x, y) == pair.total_liquidity = 0 => Times(x, y) # DexWord - 1

Liquidity(pair, x, y) ==
    IF pair.total_liquidity = 0 THEN Sqrt(Times(x, y))
    ELSE Smaller(Times(x, pair.total_liquidity) \div pair.reserve_a,
                 Times(y, pair.total_liquidity) \div pair.reserve_b)

AddLiquidity(s, t, x, y) ==
    LET key == SortPair(s, t)
        pair == pairs[key]
        liquidity == Liquidity(pair, x, y)
    IN
    /\ key \in DOMAIN pairs
    /\ dex_held[s] + x <= DexSupply /\ dex_held[t] + y <= DexSupply
    /\ CanPrice(pair) /\ CanStart(pair, x, y)
    /\ dex_held' = [dex_held EXCEPT ![s] = @ + x, ![t] = @ + y]
    /\ pairs' = [pairs EXCEPT ![key] =
           [reserve_a |-> (pair.reserve_a + x) % DexWord, reserve_b |-> (pair.reserve_b + y) % DexWord,
            total_liquidity |-> (pair.total_liquidity + liquidity) % DexWord]]
    /\ lp_minted' = lp_minted + liquidity
    /\ UNCHANGED <<orders, hiddenVars, dex_time>>

-----------------------------------------------------------------------------
(* Quotes                                                                  *)

Input(amount) == Times(amount, 10000 - Fees) \div 10000

\* The sum wraps around, and dividing by zero panics.
Denominator(pair, amount) == (pair.reserve_a + Input(amount)) % DexWord

\* Fault: the price before the swap.
SpotAmount(pair, amount) ==
    IF pair.reserve_a = 0 THEN 0 ELSE Times(Input(amount), pair.reserve_b) \div pair.reserve_a

\* calculate_swap_amount: whichever token comes in, it counts as the first
\* of the sorted pair.
SwapAmount(pair, amount) == Times(Input(amount), pair.reserve_b) \div Denominator(pair, amount)

-----------------------------------------------------------------------------
(* Private swaps and orders                                                *)

\* A swap whose proofs verify moves hidden amounts, of which the proofs see
\* the first one only.  The reserves stay as they are, and the nullifier is
\* neither compared nor recorded.
PrivateSwap(s, t, x, y) ==
    /\ SortPair(s, t) \in DOMAIN pairs
    /\ swaps < MaxSwaps
    /\ dex_held[s] + x <= DexSupply /\ dex_held[t] >= y
    /\ dex_held' = [dex_held EXCEPT ![s] = @ + x, ![t] = @ - y]
    /\ swaps' = swaps + 1
    /\ hidden_in' = hidden_in + x /\ hidden_out' = hidden_out + y
    /\ UNCHANGED <<pairs, lp_minted, orders, dex_time>>

\* The hash leaves the owner out: the same order of another owner in the same
\* millisecond replaces the first one.
PlaceEncryptedOrder(content, owner) ==
    /\ orders' = [key \in DOMAIN orders \cup {<<content, dex_time>>} |->
           IF key = <<content, dex_time>> THEN owner ELSE orders[key]]
    /\ UNCHANGED <<pairs, dex_held, lp_minted, hiddenVars, dex_time>>

DexTick ==
    /\ dex_time < DexMaxTime
    /\ dex_time' = dex_time + 1
    /\ UNCHANGED <<pairs, dex_held, lp_minted, orders, hiddenVars>>

DexNext ==
    \/ \E s, t \in DexTokens :
           \/ CreatePair(s, t)
           \/ \E x, y \in DexAmounts : AddLiquidity(s, t, x, y)
           \/ \E x, y \in HiddenAmounts : PrivateSwap(s, t, x, y)
    \/ \E content \in Orders, owner \in OrderOwners : PlaceEncryptedOrder(content, owner)
    \/ DexTick

DexSpec == DexInit /\ [][DexNext]_dexVars

-----------------------------------------------------------------------------
(* Properties                                                              *)

Reserves == [key \in DOMAIN pairs |-> pairs[key].reserve_a + pairs[key].reserve_b]

\* The reserves are what liquidity providers gave, apart from what private
\* swaps brought and took behind them; and whatever is rounded, whichever
\* order the tokens are given in (the split of the reserves is then wrong)
\* and whether a product wraps around, the shares of a pair never outgrow the
\* geometric mean of its reserves, and no share is priced by an empty one.
SharesCovered ==
    /\ SumFunctionOnSet(Reserves, DOMAIN pairs) + hidden_in = SumFunctionOnSet(dex_held, DexTokens) + hidden_out
    /\ \A key \in DOMAIN pairs :
           LET pair == pairs[key]
           IN  /\ pair.total_liquidity * pair.total_liquidity <= pair.reserve_a * pair.reserve_b
               /\ CanPrice(pair)

ReserveOf(s, t) == LET pair == pairs[SortPair(s, t)] IN IF s < t THEN pair.reserve_a ELSE pair.reserve_b

\* calculate_swap_amount returns at most what the constant product formula
\* gives: amount_in * reserve_out / (reserve_in + amount_in).
QuoteFollows(s, t, amount) ==
    Denominator(pairs[SortPair(s, t)], amount) # 0 =>
        SwapAmount(pairs[SortPair(s, t)], amount) * (ReserveOf(s, t) + amount) <= amount * ReserveOf(t, s)

\* A quote for the pair's first token never gives away value, although its
\* products may wrap around: the product of the reserves after the swap would
\* be no smaller than before.
FirstQuotesFollow ==
    \A s, t \in DexTokens, amount \in QuoteAmounts :
        s < t /\ SortPair(s, t) \in DOMAIN pairs => QuoteFollows(s, t, amount)

\* The constant product formula holds for every quote, whichever of the two
\* tokens comes in.  Violated: calculate_swap_amount takes the reserves in
\* the sorted order also when the second token comes in.
QuotesFollowFormula ==
    \A s, t \in DexTokens, amount \in QuoteAmounts :
        s # t /\ SortPair(s, t) \in DOMAIN pairs => QuoteFollows(s, t, amount)
=============================================================================
