----------------------------- MODULE CrossShard -----------------------------
(***************************************************************************)
(* Cross-shard transfers (src/src/multichain/mod.rs): the shard manager    *)
(* debits the source shard and submits to the router, the router queues    *)
(* the transfer on the target shard's channel, and whoever reads that      *)
(* channel has the manager credit the receiver and confirm.                *)
(*                                                                         *)
(* process_cross_chain_tx and receive_cross_chain_tx hold the shard's      *)
(* state lock to their end and take the router's locks inside, always in   *)
(* that order, so each call is one action.  The reader of the channels is  *)
(* outside the repository: it passes on every transfer once and may pass   *)
(* one on again (a retry).                                                 *)
(***************************************************************************)
EXTENDS Integers, Sequences, FiniteSets, Functions

CONSTANTS
    Shards,          \* the shards initialize_shards created
    Users,           \* account addresses
    Transfers,       \* [id, source, target, sender, receiver, amount, timestamp]
    Balance0,        \* Shards -> Users -> initial balance
    ChannelSize,     \* capacity of a shard's mpsc channel
    MaxRedeliveries, \* bound: retries by the channel readers
    NoTransfer

ShardIds == Shards \cup {tx.source : tx \in Transfers} \cup {tx.target : tx \in Transfers}
Ids == {tx.id : tx \in Transfers}
Timestamps == {tx.timestamp : tx \in Transfers}

\* The caller of process_cross_chain_tx makes up tx_id and nothing compares it
\* with the content: that two transfers have two ids is left to the caller.
ASSUME IdsAreUnique == \A tx, ux \in Transfers : tx.id = ux.id => tx = ux
ASSUME TransfersAssumption ==
    \A tx \in Transfers : tx.amount \in Nat /\ tx.sender \in Users /\ tx.receiver \in Users
ASSUME ShardsFinite == IsFiniteSet(Shards) /\ IsFiniteSet(Users) /\ IsFiniteSet(Transfers)
ASSUME NoTransferAssumption == NoTransfer \notin Transfers
ASSUME Balance0Assumption == Balance0 \in [Shards -> [Users -> Nat]] /\ MaxRedeliveries \in Nat

VARIABLES
    accounts,     \* ShardState.accounts: Shards -> Users -> balance
    pending_transfers, \* pending_txs: Ids -> transfer or NoTransfer
    completed_txs,\* Timestamps -> id or NoTransfer
    registered,   \* shards with an entry in shard_channels
    channel,      \* ShardIds -> transfers sent and not yet read
    delivered,    \* history: transfers read from a channel
    dropped,      \* history: ids of pending transfers no reader will ever see
    burned,       \* history: value debited by calls that then failed
    minted,       \* history: value credited by calls that then failed
    redeliveries  \* number of retries so far

shardVars == <<accounts, pending_transfers, completed_txs, registered, channel,
               delivered, dropped, burned, minted, redeliveries>>

shardHistory == <<delivered, dropped, burned, minted, redeliveries>>

ShardInit ==
    /\ accounts = Balance0
    /\ pending_transfers = [i \in Ids |-> NoTransfer]
    /\ completed_txs = [ts \in Timestamps |-> NoTransfer]
    /\ registered = {}
    /\ channel = [s \in ShardIds |-> <<>>]
    /\ delivered = {} /\ dropped = {}
    /\ burned = 0 /\ minted = 0 /\ redeliveries = 0

-----------------------------------------------------------------------------
(* A shard's channel is registered once.  The code would replace the       *)
(* sender of a shard that is registered again.                             *)

RegisterShard(s) ==
    /\ s \notin registered
    /\ registered' = registered \cup {s}
    /\ UNCHANGED <<accounts, pending_transfers, completed_txs, channel, shardHistory>>

-----------------------------------------------------------------------------
(* process_cross_chain_tx and submit_cross_tx                              *)

\* The guard of process_cross_chain_tx: an unknown source shard returns Ok
\* and a short balance Err, both without effect.
CanDebit(tx) == tx.source \in Shards /\ accounts[tx.source][tx.sender] >= tx.amount

Debit(tx) == accounts' = [accounts EXCEPT ![tx.source][tx.sender] = @ - tx.amount]

\* "Transaction already pending": the debit is not undone.
ProcessDuplicate(tx) ==
    /\ CanDebit(tx)
    /\ Debit(tx)
    /\ pending_transfers[tx.id] # NoTransfer
    /\ burned' = burned + tx.amount
    /\ UNCHANGED <<pending_transfers, completed_txs, registered, channel,
                   delivered, dropped, minted, redeliveries>>

HasRoom(s) == s \in registered /\ Len(channel[s]) < ChannelSize

\* Fault: the transfer is sent on the source shard's channel.
SubmitToSource(tx) ==
    /\ CanDebit(tx)
    /\ Debit(tx)
    /\ pending_transfers[tx.id] = NoTransfer
    /\ pending_transfers' = [pending_transfers EXCEPT ![tx.id] = tx]
    /\ IF HasRoom(tx.source)
       THEN /\ channel' = [channel EXCEPT ![tx.source] = Append(@, tx)]
            /\ dropped' = dropped
       ELSE /\ channel' = channel
            /\ dropped' = dropped \cup {tx.id}
    /\ UNCHANGED <<completed_txs, registered, delivered, burned, minted, redeliveries>>

\* The send's result is ignored: without a channel, or with a full one, the
\* transfer stays pending and nobody is told of it.
ProcessSubmit(tx) ==
    /\ CanDebit(tx)
    /\ Debit(tx)
    /\ pending_transfers[tx.id] = NoTransfer
    /\ pending_transfers' = [pending_transfers EXCEPT ![tx.id] = tx]
    /\ IF HasRoom(tx.target)
       THEN /\ channel' = [channel EXCEPT ![tx.target] = Append(@, tx)]
            /\ dropped' = dropped
       ELSE /\ channel' = channel
            /\ dropped' = dropped \cup {tx.id}
    /\ UNCHANGED <<completed_txs, registered, delivered, burned, minted, redeliveries>>

-----------------------------------------------------------------------------
(* receive_cross_chain_tx and confirm_tx                                   *)

Credit(tx) == accounts' = [accounts EXCEPT ![tx.target][tx.receiver] = @ + tx.amount]

\* Fault: the confirmed transfer stays pending.
ConfirmKeepsPending(tx) ==
    /\ completed_txs' = [completed_txs EXCEPT ![tx.timestamp] = tx.id]
    /\ UNCHANGED pending_transfers

\* Fault: what is pending is looked up by timestamp, like what is completed.
ConfirmByTimestamp(tx) ==
    /\ completed_txs' = [completed_txs EXCEPT ![tx.timestamp] = tx.id]
    /\ pending_transfers' = [i \in Ids |->
           IF pending_transfers[i] # NoTransfer /\ pending_transfers[i].timestamp = tx.timestamp
           THEN NoTransfer ELSE pending_transfers[i]]

Confirm(tx) ==
    /\ completed_txs' = [completed_txs EXCEPT ![pending_transfers[tx.id].timestamp] = tx.id]
    /\ pending_transfers' = [pending_transfers EXCEPT ![tx.id] = NoTransfer]

\* The credit comes first and stays when the confirmation fails with
\* "Transaction not found".  An unknown target shard returns Ok and does
\* nothing: the transfer is pending for ever.
Receive(tx) ==
    IF tx.target \notin Shards
    THEN /\ dropped' = dropped \cup {tx.id}
         /\ UNCHANGED <<accounts, pending_transfers, completed_txs, minted>>
    ELSE IF pending_transfers[tx.id] # NoTransfer
    THEN /\ Credit(tx)
         /\ Confirm(tx)
         /\ dropped' = dropped \ {tx.id}
         /\ UNCHANGED minted
    ELSE /\ Credit(tx)
         /\ minted' = minted + tx.amount
         /\ UNCHANGED <<pending_transfers, completed_txs, dropped>>

Deliver(s) ==
    /\ channel[s] # <<>>
    /\ Receive(Head(channel[s]))
    /\ channel' = [channel EXCEPT ![s] = Tail(@)]
    /\ delivered' = delivered \cup {Head(channel[s])}
    /\ UNCHANGED <<registered, burned, redeliveries>>

Redeliver(tx) ==
    /\ redeliveries < MaxRedeliveries
    /\ tx \in delivered
    /\ Receive(tx)
    /\ redeliveries' = redeliveries + 1
    /\ UNCHANGED <<registered, channel, delivered, burned>>

-----------------------------------------------------------------------------
ShardNext ==
    \/ \E s \in ShardIds : RegisterShard(s) \/ Deliver(s)
    \/ \E tx \in Transfers : ProcessDuplicate(tx) \/ ProcessSubmit(tx) \/ Redeliver(tx)

ShardSpec == ShardInit /\ [][ShardNext]_shardVars

\* The readers keep reading their channels.
ShardFairness == \A s \in ShardIds : WF_shardVars(Deliver(s))

ShardFairSpec == ShardSpec /\ ShardFairness

-----------------------------------------------------------------------------
(* Properties                                                              *)

Total(balances) == SumFunctionOnSet([s \in Shards |-> SumFunctionOnSet(balances[s], Users)], Shards)
InFlight == SumFunctionOnSet([i \in Ids |-> IF pending_transfers[i] = NoTransfer THEN 0 ELSE pending_transfers[i].amount], Ids)

\* No value appears or disappears over any run of transfers, except what the
\* code's two error paths leak: a debit kept when the router refuses a
\* transfer as already pending, a credit kept when it cannot confirm one.
\* The second needs a repeated delivery: the channels alone, and transfers of
\* one timestamp, never cause a credit for a transfer that is not pending.
Conservation ==
    /\ Total(accounts) + InFlight + burned = Total(Balance0) + minted
    /\ minted > 0 => redeliveries > 0

\* How often a transfer waits in the channel of its target.
Queued(tx) == Cardinality({n \in 1..Len(channel[tx.target]) : channel[tx.target][n] = tx})

\* As long as nothing is delivered twice, a pending transfer waits exactly
\* once in the channel of its target, or was dropped there (no channel, no
\* room, no such shard) and holds the sender's funds for ever.
PendingIsQueued ==
    redeliveries = 0 =>
        \A tx \in Transfers :
            Queued(tx) = IF pending_transfers[tx.id] # NoTransfer /\ tx.id \notin dropped THEN 1 ELSE 0

\* A transfer that reaches its channel is eventually settled: its id leaves
\* the pending map, unless its target shard does not exist.
QueuedSettles ==
    \A tx \in Transfers : (Queued(tx) > 0 /\ tx.target \in Shards)
        ~> (pending_transfers[tx.id] = NoTransfer)
=============================================================================
