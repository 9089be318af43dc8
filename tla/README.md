# Proton Chain: TLA+ verification project

This directory holds TLA+ models of Proton Chain (the Rust node under `src/src/`
and the contracts under `src/contracts/`), the TLC configurations that check
them on small instances, and TLAPS proofs of the results that matter most. All
paths below are relative to the repository root, which the map in
`PROJECT.json` calls `src/`.

## 1. Inventory

| Component | Code | State | Operations | What is hard |
|---|---|---|---|---|
| Mempool | `src/consensus/mod.rs:163-246` | `transactions`, `by_nonce`, `by_gas_price`, each under its own `RwLock` | `add_transaction`, `get_transactions`, `remove_transactions` | three locks taken in two different orders; three indexes that must agree; the size limit |
| Consensus engine | `src/consensus/mod.rs:134-423` | height, round, phase, finalized `blocks`, mempool | `propose_block`, `validate_block`, `finalize_block` | height bookkeeping; parent and leader checks |
| Validator set, certificates | `src/consensus/mod.rs:21-132` | validators, cached `total_stake` | `add_validator`, `get_leader`, `verify` | integer division in the quorum threshold; cached total vs. map |
| DAG ordering | `src/consensus/mod.rs:425-519` | vertices, edges | `add_vertex`, `get_ancestors`, `topological_sort` | unknown or repeated parents, cycles |
| State storage | `src/storage/mod.rs` | database, LRU account cache, `pending_changes` | get/put of accounts, blocks, transactions, code, slots; `commit`, `rollback`; snapshots; pruner | three pieces of state under three locks; failed batch; crash; eviction |
| Shards and cross-chain router | `src/multichain/mod.rs` | per-shard balances, `pending_txs`, `completed_txs`, shard channels | `process_cross_chain_tx`, `receive_cross_chain_tx`, `submit_cross_tx`, `confirm_tx`, `register_shard`, `route_transaction` | debit before submit, credit before confirm; lost and duplicated deliveries; full channels |
| VM and executor | `src/vm/mod.rs` | accounts, contracts | `execute_transaction` and its four handlers; `execute_block_parallel` | order of parallel execution; `u128`/`i128` arithmetic |
| Network | `src/network/mod.rs` | swarm, peers, `pending_txs`, `known_blocks`, `pending_requests` | event loop, `broadcast`, `queue_transaction`, `flush`, `request_block`, `receive_block` | nested locks; timer racing callers; lost requests |
| Privacy | `src/privacy/mod.rs` | keys, counters, encrypted pool | `setup`, `prove`, `verify`, stealth addresses, `decrypt_batch` | nonce window; threshold |
| Bridge contracts | `contracts/ProtonBridge.sol`, `contracts/bridge.rs` | chains, validators, locked assets, pending and completed transfers | initiate, sign, execute, admin operations | re-initiation, repeated signatures, threshold changes, locked-asset accounting |
| Staking contracts | `contracts/ProtonStaking.sol`, `contracts/staking.rs` | validators, delegations, unbonding queue | register, stake, unstake, process unbonding, rewards, slash | two ledgers of the same stake that drift apart; solvency |
| DEX contracts | `contracts/ProtonDEX.sol`, `contracts/dex.rs` | pairs, LP balances, orders | create, add, remove, swap, orders | integer rounding; fee vs. reserves |
| Private token | `contracts/PrivateToken.sol`, `contracts/private_token.rs` | nullifiers, merkle root, balances | private and batch transfer | stale root; double spend |
| Private NFT | `contracts/ProtonPrivateNFT.sol`, `contracts/nft.rs` | owners, approvals, nullifiers | mint, transfer, approve | two records of ownership |
| Contract SDK | `src/sdk.rs` | the host storage of a contract | `Map`, `Set`, `storage_get`, `storage_set` | all collections of a contract share one key space |
| ZK verifier, CLI, node assembly | `contracts/ProtonZKVerifier.sol`, `src/bin/cli.rs`, `src/lib.rs` | - | - | cryptography, I/O |

### How the parts interact

- `src/lib.rs` builds a node from storage, VM, consensus, shard manager and
  network, each behind an `Arc`; they share no state but what is named below.
- The consensus engine owns the mempool. `propose_block` reads it with
  `get_transactions`; `finalize_block` empties it with `remove_transactions`;
  clients fill it with `add_transaction` from any task. `Mempool` models these
  three calls lock by lock; `Consensus` uses the pool as the set of its
  transactions, which is justified by what `Mempool` shows (`IndexesAgree`).
- The shard manager changes balances and calls the router, which keeps the
  pending transfers and puts them into the bounded channel of the target shard.
  Whoever reads that channel calls `receive_cross_chain_tx`. `CrossShard`
  models manager, router and channels together, because the interesting faults
  are between them.
- Storage is called from any task; its database, cache and list of pending
  changes are three separately locked things. `StateStorage` has one action per
  critical section.
- The contracts do not call each other. Each is driven by transactions, which
  the EVM runs one at a time: one action per external function. The ERC20 token
  they hold is external and is modelled by the balance it keeps for them.
- The Rust contracts keep their collections in `Map` and `Set` of the SDK. These
  hold no data and no name, so within one contract they meet in one storage; see
  `SdkStorage` below.
- The DAG and the privacy library are called by tests and the command line only.

### Which behaviours are hard

Concurrency is in the mempool (lock order, three indexes), the storage (cache
against pending list), the shard router (debit and submit, credit and confirm),
the network batcher and the parallel executor. Failures are the failed database
batch, the restart of the node, the refused or dropped shard message and the
message delivered twice. Ordering matters between validation and finalization
of a block, between registration of validators and verification of what they
sign, and between initiation, signing and execution of a bridge transfer while
the owner changes the parameters. Rounding matters in the quorum threshold, in
reward shares and slashing, and in the shares and prices of the exchange. The list
with lines is in `PROJECT.json`, "hazards".

## 2. Plan

Done, in this order, each with its proofs:

1. `Mempool`;
2. `StateStorage`;
3. `CrossShard`;
4. `Consensus` (engine, validator set, certificates);
5. `Bridge` (the Solidity contract);
6. `Staking` (the Solidity contract);
7. `Executor`: the VM's transactions, in block order and in any order, with the
   serial execution of a block as the reference;
8. `Network`: the batcher's nested locks, the event loop that keeps the swarm,
   and the request bookkeeping of the block sync;
9. `DagOrdering`, shown to implement the abstract `TopologicalOrder`;
10. the Rust contracts (`BridgeRs`, `NftRs`, `PrivateTokenRs`, `DexRs`,
    `StakingRs`) over the storage of the SDK (`SdkStorage`);
11. the abstract `Escrow`, which the Solidity bridge is shown to implement.

To come:

12. an abstract ledger that `CrossShard` implements while no delivery is repeated
    and none refused;
13. storage snapshots, the Merkle root against a reference definition, and the
    routing of transactions to the mempools of the shards;
14. the Solidity exchange, whose fees leave the contract while the reserves
    count them (`contracts/ProtonDEX.sol:272`).

## 3. The modules and the code

`PROJECT.json`, "map", gives the lines of every definition. Variables and
actions carry the names of the code; where a name is different, the comment at
the definition says what it stands for.

**Mempool** (`src/consensus/mod.rs`). `transactions`, `by_nonce` and
`by_gas_price` are the three maps; `writer` and `readers` are their locks; `pc`
and `arg` are where each calling thread is and with what arguments. Guards in
the code live to the end of the function, so a call is one action per lock it
acquires and the last one releases all. The one early return, a full pool, is an
action that releases what it holds; a transaction that is pooled already goes
through all three maps again. A transaction and its hash are one model value.
`Retain`, the code's `retain`, is written through the positions it keeps (`Rank`
and `KeepAt` of `Lists`, which `StakingRs` uses too) so that it can be proved
about; `MCNodeThreads` has TLC compare it with `SelectSeq` on all lists of up to
four entries. For the same reason `Selected`, what `get_transactions` returns, is
written through the number of entries the scan has found (`Count`), and compared
by TLC with the scan itself (`Scan`) on all price lists of up to two entries.

**StateStorage** (`src/storage/mod.rs`). `db` is RocksDB (external, with a batch
that is atomic and may fail), `cache` the LRU cache, `pending` the list of
changes. `get_account` and `put_account` are split at their locks; the eviction
order is left open (any cached account may go), as the model does not tell the
age of entries. `suspect` is a history variable: the accounts for which one of
the three hazards `CacheFresh` excepts has happened since the last undisturbed
put.

**CrossShard** (`src/multichain/mod.rs`). `accounts`, `pending_transfers` (the
code's `pending_txs`), `completed_txs` and the registered `channel`s.
`completed_txs` is keyed by timestamp as in the code. `burned` and `minted` count
what the two error paths leak: a debit kept when the router says the transfer is
already pending, a credit kept when it cannot be confirmed. The caller supplies
`tx_id` and nothing compares it with the content, so that two transfers have two
ids (`IdsAreUnique`) is an assumption on the caller. A shard is registered once;
the code would replace the sender of one that is registered again.

**Consensus** (`src/consensus/mod.rs`, `src/types/mod.rs`). `validators` and the
cached `total_stake`, `blocks`, `pool`, `current_height`, and `validated`, the
blocks that passed `validate_block` and are not finalized yet: the code has no
step that ties the two, so anything may happen between them. `finalize_block`
checks nothing itself; that only validated blocks are finalized is what the
driver does, as the integration test. It takes two locks one after the other and
is two actions, `StoreBlock` and `ClearMempool`; `clearing` holds the blocks
between them. A proposal takes up to `BlockLimit` transactions (1000 in the
code), any that pay enough: which ones is the matter of `Mempool`. A header's hash
is the header, its signature field included, and a signature is what was signed
and by whom. A Merkle root is the set of transactions below it, so it does not
tell their order. The entries of a certificate are genuine or not, which is what
the check of each signature finds out, and the same one may be listed again.
`submitted` and `replaced` are history.

**Bridge** (`contracts/ProtonBridge.sol`), one bridged token. A transfer's id
is its request and the block it was initiated in, which is what the contract
hashes: the same request in the same block has the same id. `lockedAssets`,
`pendingTransfers`, `completedTransfers`, the validators and the threshold are
the contract's; `bridge_held` is its balance with the token, `payments` counts what was
paid or minted per id. A call that reverts is no step. `Escrow` says what such a
contract promises about the tokens it is given: a claim is opened with its
value, it is paid only while it is approved, at most once and from the vault by
no more than its value, opening it again takes its approval back, and only an
endorsement that makes a quorum approves it. The refinement maps a transfer that
was initiated and is not completed to an open claim, one with
`SignaturesComplete` to an approved claim, and `bridge_held` to the vault.

**Staking** (`contracts/ProtonStaking.sol`). `validators`, `delegations`,
`totalDelegatedTo`, `unbondingQueue` and the parameters are the contract's;
`held` is its token balance; `deposited`, `withdrawn`, `claimed` and `slashed`
are history. `distributeRewards` is taken one array entry at a time: its loop
does the same thing for each entry independently.

**Executor** (`src/vm/mod.rs`). `state` is the VM's state: balance and nonce per
address and the addresses that hold code. Every handler keeps the state's write
lock to its end, so each is an operator from a state to a state and a result;
`execute_block_parallel` applies them in any order, `execute_block_sequential`
in that of the block. Amounts are taken modulo `Word`, which stands for 2^128:
the release profile does not check for overflow (a debug build would panic).
`base`, the state before the block, and `created`, what appeared on the paths
that create or destroy value, are history. The reference `Serial` is the loop of
`execute_block_sequential` as a recursive function over the block.

**Network** (`src/network/mod.rs`). `pending_txs` and `pending_lock` are the list
and the lock of a broadcaster, once for the one the callers use and once for the
clone `start_batch_timer` makes; `swarm` is the lock of the libp2p swarm, which
`run_event_loop` keeps; `known_blocks` and `pending_requests` belong to
`BlockSync`. `publish` may fail at any time. The other variables are history.

**DagOrdering** (`src/consensus/mod.rs:425-518`). `vertices` and `edges` are the
two maps. `add_vertex` takes their locks one after the other and is two actions
(`InsertVertex`, `InsertEdges`); `topological_sort` holds both read locks, so
that it begins, visits one vertex of its queue per step and ends while no
insertion can take place; `get_ancestors` holds the lock of the edges only, and
new vertices may come in meanwhile. The counters (`in_degree`), the queue and
the stack are the functions' locals. The neighbours a visit makes ready are
queued in any order, because a `HashMap` fixes none. `TopologicalOrder` says
what a sort promises: vertices are placed one at a time, each after all its
parents, the graph does not change meanwhile, and the sort ends only when no
vertex can be placed. The refinement maps the present vertices, the set of each
one's parents and the result so far.

**SdkStorage** (`src/sdk.rs`). A table from keys to entries with the type of
their value. A `Map` or `Set` of the SDK consists of a `PhantomData` and stores
an entry under the JSON text of its key alone; so two collections of one
contract whose keys have the same type overwrite each other's entries, a `Map`
does not find an entry of another type (it does not parse), and a `Set` finds
any entry. `Map::iter` yields nothing and `Map::len` is 0.

**BridgeRs** (`contracts/bridge.rs`), one asset. `bridge` is the contract's
table, `locked` its balance, `refused` the completely signed transfers whose
execution ended with "Already completed". In this contract three pairs of
collections share their entries: a Merkle root replaces a chain's configuration,
a wrapped asset replaces the amount locked for the chain, and the pending
transfer is found among the completed ones. `ExecuteBridgeTransfer` therefore never
gets to `PayOut`, which is modelled all the same. The id of a public transfer
is random and names the call that made it; that of a private one is its request
and time, so that a second call at that time starts the same transfer again.

**NftRs** (`contracts/nft.rs`). `nft` is the table. Token data, owner, stealth
owner, metadata and approval of a token are one entry, the one written last:
minting leaves the owner (or the metadata of a private token), `approve` replaces
the owner, and both transfers stop at "Token not found". Nothing limits the
length of metadata, and metadata of 20 bytes reads as an owner (`MetadataType`).
`recipient`, whom `mint` or `transfer` last gave a token to, is history.

**PrivateTokenRs** (`contracts/private_token.rs`). A root is the sequence of the
commitments under it. `Prove` is the wallet's step before the call: it fixes the
nullifier, the commitment, which is independent of it, and the root the proof is
for; `SubmitTransfer` may come any number of transfers later. Amounts wrap around
at `TokenWord`, as in the release build. `accepted`, the proofs that were
accepted, is history.

**DexRs** (`contracts/dex.rs`). `pairs` with reserves and shares, `dex_held` the
tokens of the contract, the encrypted orders by their hash (content and time; the
owner is not hashed). Products and the denominator of a quote wrap around at
`DexWord`; the square root is the code's iteration (`Estimate` is one round of
it, `Descend` the rounds while the estimate falls), and `CanStart` excludes the
largest product, at which the first estimate wraps to zero and the division
panics. `add_liquidity` takes its amounts in the caller's order of the tokens and
the reserves in the sorted one; a quote takes the reserves in the sorted order
whichever token comes in. A private swap moves hidden amounts to and from the
contract (`hidden_in` and `hidden_out` are their history) and changes no reserve.

**StakingRs** (`contracts/staking.rs`). The validators' records, the delegations,
the total, the queue and the height; `staked_held` is the balance with the token.
Rewards are passed as an SDK `Map`, which cannot be iterated, so
`DistributeRewards` only counts the epoch, and the two views that list validators
are always empty.

For the Rust contracts a call is one step and a call that panics is none (or is
recorded in a history variable, where the property is about being refused). They
do not compile as they are: the attribute macro that turns them into contracts is
not in the repository, and some expressions do not fit the SDK's `Map`, which
returns values and not references (`contracts/nft.rs:235` and `272`,
`contracts/staking.rs:267-277`). The models assume that the macro adds the
serialization the collections need and changes no statement, and read those
expressions as the same lookup by value.

## 4. The runs

Four runs pass. The parts in one run share no state and do not call each other,
so each behaviour is one of a single part, chosen at the start (`part` or
`contract`); the state space is the union of those of the parts and not their
product.

| Run | Parts | What it shows |
|---|---|---|
| `node_threads` | `Mempool`, `Network`, `CrossShard` | *Mempool:* whoever can lock the pool finds three indexes that agree; the size limit holds; `get_transactions` returns the best paying; calls block each other only by the inversion of `by_gas_price` and `transactions` between `get_transactions` and the two writers, and every call returns unless that happens. *Network:* a queued transaction is in exactly one place; concurrent requests for a height are sent once; every call returns unless a batch was filled (the call then waits for its own lock) or the event loop holds the swarm. *Shards:* value is conserved up to the two error paths; a pending transfer is in its channel exactly once or was dropped; what reached a channel of an existing shard is settled |
| `ordering` | `Consensus`, `DagOrdering` | *Consensus:* the finalized blocks have no gap; a transaction leaves the pool only when a block with it is stored, and is lost only with a block that is stored over; the cached total never understates the stake a certificate is measured by. *DAG:* the sort implements `TopologicalOrder` while threads add vertices with repeated, missing, late and circular parents, and its counters never go below zero; the search for ancestors returns each of them once; the two maps agree unless two insertions of one hash overlap, after which they may differ for good |
| `escrow_contracts` | `Bridge`, `StakingRs` | *Bridge:* no transfer is paid twice; open transfers are backed by tokens and booked for their chain; only a quorum of different validators makes a transfer executable. *Rust staking:* five records of the stake agree and cover the queue |
| `execution` | `Executor`, `StateStorage`, `Staking`, `BridgeRs`, `PrivateTokenRs`, `DexRs` | *Executor:* value changes only on the paths `BalancesConserved` names; a block whose senders can pay beforehand, and in which nobody uses a contract it deploys, has its serial outcome in every parallel order. *Storage:* a cached account is the last one put or the committed one, up to the hazards `CacheFresh` names. *Staking:* the records of a delegation agree, every token is accounted for up to claimed rewards, unstaking fails only after a slash, and one round of claims takes no more than was accumulated. *Rust contracts:* the bridge covers what is pending and what it reports as locked; supply and balances of the token agree modulo the word, and of the proofs for one note or one root one is accepted; shares of the exchange stay covered by its reserves, and quotes for a pair's first token follow the formula |

Eight runs end with a violation. Each states what a document, a comment or a test
of the repository says, and is a finding of `PROJECT.json`, which quotes the line:

| Run | What is said | What the code does |
|---|---|---|
| `storage_rollback` | "Rollback pending changes" | the cache still answers with the rolled back account |
| `consensus_finality` | single-block finality | the next proposal has the same height and replaces the finalized block |
| `consensus_certificate` | "2/3+1 validator stake" | a certificate with two signatures of one of two equal validators verifies |
| `consensus_leader` | the test has the leader's block accepted | the signature is part of the hash it signs: once a validator is registered its proposals are refused |
| `executor_deploy` | "Deduct from sender" | the debit of a deployment is computed and never applied |
| `bridge_rs_release` | execution releases or mints | a completely signed transfer is refused as already completed, because pending and completed transfers share their entries |
| `nft_approve` | `approve` names an operator | the approved address replaces the owner |
| `dex_quote` | the constant product formula | a quote for the pair's second token exchanges the reserves and promises too much |

What the passing properties do not say:

- `Conservation` counts `burned` and `minted` (shards), `BalancesConserved`
  counts `created` (VM: a transfer to oneself is credited and not debited, a
  deployment is never charged), and `LedgersAgree` counts `claimed` (rewards are
  paid from the contract's one balance and nothing ever funds them, so a
  delegator's tokens can be missing after claims). Those are history variables
  that only the named paths change: the invariants say that these paths are the
  only ones, not that they are harmless.
- `CacheFresh` excepts the accounts the storage hazards have touched (`suspect`),
  so it says that nothing else makes the cache stale; `storage_rollback` shows
  one of the hazards happening.
- `NothingLost`: a batch that `publish` refuses is dropped by the code. It counts
  as a place (`failed`), so the property says that a transaction is not queued
  and sent twice and disappears nowhere else.
- `FundedBlocksAreSerial` leaves out blocks in which two transfers compete for
  one balance; there the order decides.
- `RewardsBounded` is about one round of claims. A claim records nothing, and the
  same delegator may claim again.
- `MapsAgree` leaves out a hash two insertions of which overlapped.
- `StakeBooks` rests on `Map::iter` yielding nothing: with a working iterator
  `distribute_rewards` would add commissions to stakes. It does not relate stakes
  to a validator's being active.
- `LockedCovers` rests on execution being refused (`bridge_rs_release`); what a
  working execution would do to it is not shown.

### Bounds

- Mempool: two threads, which is what the inversion needs (the proofs cover any
  number), three transactions, two of which replace each other and two of which
  share a price, `max_size` 2 so that the pool gets full. `GasListBound` 2 caps
  the price lists, in which a replacing transaction can appear again.
- Storage: two threads, two accounts over a cache of one, so that evictions
  happen, one other record, two values, three pending changes.
- CrossShard: two shards, channels of one message, so that the second transfer
  meets a full channel; one transfer shares its timestamp with another, one goes
  to a shard that does not exist. Two repeated deliveries.
- Consensus: two validators with stakes 1 or 3 (2/3 rounds differently), each of
  which may register again; three transactions, one below the minimum price, and
  `BlockLimit` 1, so that proposals leave some behind; heights 0 to 2; another
  node's blocks are good ones at every height and one that fails the checks;
  certificates of up to two entries, so that one can be repeated.
- Bridge: two chains, a request to each and a private one, two validators under
  thresholds 1 and 2, two blocks, so that the same request has one id in a block
  and another in the next.
- Staking: two validators, two delegators, three tokens, half-way slashing and
  commissions, one distribution. `Scale` is 100 instead of 1e18: shares are
  rounded far more coarsely than in the contract, and `RewardsBounded` needs
  only that every share is rounded down.
- Executor: two users and a contract address, ten transactions (every kind, one
  whose cost wraps), blocks of up to two of them with repetitions and of three
  of the four that depend on each other, two blocks in a row. `Word` is 16.
- DAG: two inserting threads, three hashes, the parent lists of `MCOrdering`
  (none, one, the same one twice, two), four insertions, so that a hash is
  inserted again and cycles close.
- Rust contracts: two validators, transfers, delegators, notes; every bound is
  small enough to be reached. The bridge has three tokens for transfers of two,
  so that the second transfer meets a sender who cannot pay. Exchange amounts are
  multiples of 400 under a word of 2^20: 1200 * 1200 and the fee computation of
  300 wrap around, the others do not; one private swap.
- Network: two callers and the timer, three transactions, batches of three, so
  that batches of one and two are sent and a full one is met; one height,
  received once.
- The violation runs are the smallest instances that show the disagreement.

`CHECK_DEADLOCK FALSE` is set where the model stops at a bound or where the code
can really stop (the mempool's inversion). Symmetry is over threads, storage
values and accounts, transactions, validators and delegators, none of which the
code orders in what is modelled; in `MCExecution` a model value plays one role in
one part and another in another, and is interchangeable in each. `node_threads`
has liveness and no symmetry.

### Fairness

Each module states its own (`Fairness`, `NetFairness`, `ShardFairness`);
`MCNodeThreads` joins the first two into one formula per task, because a task is a
thread of the mempool in one part and a caller of the network in another.

- Mempool: strong fairness of every thread's next acquisition. The locks are
  parking_lot's, which hand a lock to a parked thread after a bounded time, so a
  thread whose lock is free again and again gets it. Nothing is assumed about
  starting calls.
- Network: the same for the callers and the timer's task. Nothing is assumed
  about the event loop.
- CrossShard: weak fairness of taking a message from a registered channel. The
  repository holds the sending side only; who registers a channel keeps its
  receiver, and `QueuedSettles` is a promise to a reader that keeps reading.
  Nothing is assumed about submissions, registrations or repeated deliveries.

## 5. Proofs

All theorems hold for every value of the constants that satisfies the named
assumptions of the module: the sets a sum or a count ranges over are finite
(`FiniteAssumption`, `HashesAssumption`, `ValidatorsAssumption` and the like),
`None` is outside of the sets it is added to, amounts and bounds are natural
numbers, transfers between shards have different ids. The exchange has three that
say more: the word has room for the supplies of two tokens, for what private swaps
can take, and for a ten-thousandth of itself, the largest input of a quote
(`DexWordAssumption`; the code's word is 2^128), fees are at most 10000 basis
points (`FeesAssumption`), and tokens are compared like numbers. TLC evaluates
them on the instances of the runs.

**DataTheorems.** The facts about data that the proofs share. The library's
induction theorems cannot be instantiated by the provers at hand, so each is
proved by descent: a set of counterexamples that is not empty has a minimal
member (`MinimalSubset`, `LeastExists`), and that member turns out to be none;
`InductionUpTo` packs this for a set of numbers. Ledgers are sums over finite
sets (`SumFunctionOnSet` of the community modules, a recursive function over
subsets): the recursive definition has a solution and only one (`TableExists`,
`TablesAgree`); a sum does not depend on the order of its terms (`SumRemove`);
then how it follows a change of one value (`SumUpdate`), splits (`SumSplit`), is
renumbered (`SumReindex`) and compares with another (`SumMonotone`). `SumShares`
says that shares of an amount that are each rounded down, twice over, add up to
no more than the amount. `TimesMonotone`, `TimesCancel` and `SharesGrow` are
about products, `ModAdd`, `ModUnique` and `DivFacts` about division with
remainder; `RankBijective`, `KeepAtBijection` and `KeepAtSum` say what is kept of
a list. The last ones rest on `SegmentsNumber`: where initial segments form a
chain, their sizes number the elements.

**MempoolProofs.** `IndexesAgree` is not inductive: while a writer is between
its locks the maps disagree. `Inv` says what holds then: whoever is past
`transactions` holds it (`LockDiscipline`); the transaction of an
`add_transaction` that is under way is pooled already (`AddingArePooled`);
everything pooled is listed unless it is the one being added; everything listed
is pooled. Hence `IndexesAlwaysAgree`, `CapacityRespected` and, from the lock
discipline alone, `OnlyInversionBlocks`: by cases on which lock the writer of
`transactions` waits for. `RetainProperties` says what `retain` keeps;
`CountBijective` says that the scan of `get_transactions` counts every entry once
and in falling order of price, so that `AlwaysReturnsTop` follows from the
invariant.

**StateProofs.** *Storage.* `CacheFresh` says nothing of the calls between their
locks, so it is not inductive. `StorageInv` adds, for an account nothing has
disturbed, that the cache holds what a `put_account` is about to push
(`PutsAreCached`), that a `get_account` that missed the cache reads the committed
value while nothing is pending (`ReadsAreCurrent`), and that an account with a
pending change is cached (`ChangesAreCached`): a reader could otherwise fill the
cache from the database past a newer change. Hence `CacheStaysFresh`.
*Executor.* `ExecutionConserves`: each handler changes the sum of the balances by
what it adds to `created`, modulo `Word` (`TransferTotal`, `DeployTotal`).
`ParallelIsSerial` gives the state after any set of a block's transactions in
closed form (`After`: what each account paid, received and sent, and who was
deployed), which mentions no order. `OrderlyStep` shows that executing one more
transaction of a funded block leads from the form of a set to that of the larger
one, without the wrapping that `Word` could cause (`ChargesCovered`,
`BalanceAfterFits`); `SerialOutcome` that the serial reference ends in the form
of the whole block; and `SerialInv` that the executor, in whatever order, is
always in the form of what it has executed.

**ConsensusProofs.** `Inv` adds to the types that `current_height` is 0 and that
the parent of every validated block is stored: blocks are replaced and never
removed, so a parent found at validation is still there at finalization
(`NoGaps`). `NothingDropped` is not inductive either: `ClearMempool` removes
transactions some time after their block was stored, when another block may be in
its place. `Inv` adds that the transactions of a block in `clearing` are stored or
were in a block that was stored over; hence `TransactionsKept`.
`NothingAcceptedWithValidators` is the reason behind the `consensus_leader`
finding, for any blocks: the leader is always a registered validator
(`LeaderIsRegistered`, over the positions of the sorted addresses), and a
signature never verifies over a header that contains it (`NothingVerifies`).
`CertificatesNeedStake` rests on `StakeCovered`: the cached `total_stake` is at
least the sum of the registered stakes, and may exceed it, because registering
again adds the new stake and keeps the old one in the total.

The DAG is in the same module. While a sort is under way, `in_degree` of a vertex is the
number of its parents that are not placed yet, a repeated one counted again, and
the placed and queued vertices, all different, are those whose counter is 0
(`SortInv`). That gives `DagTypeCorrect` (no counter goes below zero) and, step by
step, `SortRefines`: a visited vertex has all its parents placed, the end of the
sort leaves none that could be placed, and all other steps insert a vertex or
change nothing `TopologicalOrder` can see. `WalkInv` is the invariant of the
search for ancestors, `MapsInv` that of the two statements of `add_vertex`.

**BridgeProofs.** `Inv` says that the payments of an id are 1 if it is completed
and 0 if not, and that `signatureCount` never exceeds the number of signers:
re-initiation resets the count and keeps the signers, so they are not equal.
`NeverPaidTwice` and `QuorumCompletes` follow; `TypeCorrect` includes that
`lockedAssets` and the balance never go below zero. `AlwaysBacked` adds that the
unpaid transfers are finitely many, so that what they are worth changes by one
transfer at a time (`WorthOfSet`): initiating a transfer again brings in tokens
and opens nothing new, executing one takes out what it was worth.

The bridge implements `Escrow` (`BridgeIsEscrow`), with one lemma per operation:
initiating opens, signing endorses, executing pays, and of everything else an
escrow sees at most a new threshold. Re-initiation is where it could fail:
`signatureCount` starts again while the signers stay, and the claim is approved
again only because the count never exceeds the signers, which `Inv` says. A
private transfer that meets an id already completed changes nothing the escrow
sees. `KeepsEscrow` has no run of its own: checking it takes TLC longer than all
the rest of `escrow_contracts`, and the theorem covers every instance.

**NetworkProofs.** For the broadcaster, `NeverLost` needs to know which lists
exist (`ListsOK`), that a transaction that was not given to `queue_transaction` is
nowhere and that the timer's clone is empty; each step then leaves a transaction
in its place or moves it from its only place to another. For the synchronizer,
`RequestsAnswered` counts the requests sent or about to be sent, and the calls of
`receive_block` that have not cleared the height, against the blocks received and
the one pending request; without the latter two terms it is not inductive. Hence
`OneRequest`.

**LedgerProofs.** *Shards.* `ShardValue` is `Conservation` without its second
part, and `ShardQueues` says what holds before the first repeated delivery:
nothing is minted, what was dropped is still pending, and `PendingIsQueued`. The
two need each other: a delivery credits without minting only because what is in
a channel is pending. Hence `ValueConserved` and `PendingAlwaysQueued`.

*Rust token.* Supply and balances agree only modulo the word, so
`SupplyAlwaysHeld` is about remainders (`MintInv`). `TransferInv` adds to
`AcceptedOnce` that what was accepted is spent and that the n-th proof was made
against a root of n - 1 commitments: a root that has been extended never comes
back, also when commitments repeat. Hence `TransfersAcceptedOnce`.

*Rust staking.* `StakeInv` adds that a validator that is not registered has no
stake, without which registering would reset a record that counts. The five
records change together through `StakeChange`; `OwedKept` says what the queue
still owes when `process_unbonding` removes a due entry.

*Rust bridge.* `BridgeInv` says that whatever is stored under a transfer's id is
a pending transfer, so that `completed_transfers` always finds it and execution
is always refused (the `bridge_rs_release` finding, for every instance); and that
no public id is used before its call, so that locking never overwrites. Hence
`LockedAlwaysCovers`: the pending transfers are worth at most the balance, and so
are the amounts booked for the chains: an address that overwrites one books nothing.

*Rust exchange.* `DexInv` bounds the reserves by what the contract holds and what
private swaps took, which keeps the sums below the word, and says that the square
of the shares never exceeds the product of the reserves. The square root is a loop
of Newton steps in integers: `EstimateFacts` says that an estimate above the root
falls, `DescentExists` that the loop's function is defined, and `DescentSquare`,
by the least counterexample, that where it ends the square is at most the
argument. Wrapped products only make it smaller, and `LiquiditySquare` carries the
bound over proportional deposits that are rounded down: `SharesAlwaysCovered`. For
the quotes, `InputFacts` bounds the input after the fee by the amount and by a
ten-thousandth of the word, `RoomForInput` concludes that the denominator does not
wrap around, and `QuoteBound` that a quote, its numerator wrapped around or not, is
at most what the formula gives: `FirstQuotesAlwaysFollow`.

**StakingProofs.** `Inv` is `LedgersAgree` with `RegistryInv`: the public
delegations of a validator are part of its `totalDelegated` and nothing is
delegated to an unregistered address, without which `registerValidator` would
reset a record that counts. The three ledgers are kept apart
(`DelegationsAgree`, `DepositsAgree`, `TokensAgree`), and each action has a
lemma. `TypeCorrect` includes that no subtraction goes below zero.
`RewardsStayBounded` is arithmetic on top of it: the delegations add up to
`totalDelegatedTo`, which is at most `totalDelegated`, so the rounded shares add
up to at most one (`SumShares`).

Every invariant and every action property of a passing run is stated by a
theorem. Only model-checked are:

- liveness (`CallsReturn`, `QueuedSettles`, `SendersReturn`): the prover has no
  rules for fairness;
- that `Retain` and `Selected` are the loops of the code, which TLC evaluates
  over small lists (`RetainIsSelectSeq`, `SelectedIsScan` of `MCNodeThreads`).

## 6. What is not modelled

- Cryptography: proofs, commitments, signatures and hashes are what the rest of
  the code uses of them. `ProtonZKVerifier.sol` and most of `src/privacy` are
  nothing else.
- libp2p, RocksDB, the ERC20 token and the EVM are external; only the database
  and the token have a state here.
- The command line and the assembly of the node have no state of their own; of
  the SDK, what is not storage is host calls and pure values.
- The proof system of `src/privacy`: `verify_proof` cannot succeed, because
  `deserialize_proof` always returns an error.
- The Solidity exchange, private token and NFT. The NFT rests on OpenZeppelin's
  ERC721, which is not in the repository.
- What the event loop does with events (a count of peers, and a message handler
  that only logs), gas used and gas estimates of the VM, `state_root`.
- `round`, `phase`, `certificates` and `start` of the consensus engine: nothing
  writes the first three after construction and the timer's body is empty.
- `get_random_committee`, statistics and load balancing: `initialize_shards`
  (`src/multichain/mod.rs:163`) stores the committee, and no other part reads it
  or what the other two compute.
- The stealth addresses and the encrypted mempool of `src/privacy`. Nothing in the
  node calls them; each is a lookup over a list or a range of nonces (`0..10000`)
  with no other state it could disagree with, so that a property would only
  repeat the code.
- The components of the plan that are still to come; see section 2.
