--------------------------- MODULE MCNodeThreads ---------------------------
(***************************************************************************)
(* The parts of a node whose threads wait for each other, for TLC: the     *)
(* mempool, the network layer and the cross-shard coordinator.  They share *)
(* no state and do not call each other, so each behaviour is one of a      *)
(* single part, chosen at the start, while the others stay in their        *)
(* initial state; fairness asks nothing of a part that does not move.      *)
(*                                                                         *)
(* Mempool: three transactions, two of them replacing each other (same     *)
(* sender and nonce) at different prices, two at one price.  Shards: two,  *)
(* and four transfers: two to shard 1, whose channel holds one, one back   *)
(* with the timestamp of the first, and one to a shard that does not exist.*)
(***************************************************************************)
EXTENDS Mempool, Network, CrossShard, TLC

CONSTANTS tx1, tx2, tx3, k1, k2, alice, bob, there, again, back, nowhere

VARIABLE part   \* the part whose operations this behaviour performs

MCTxs == {tx1, tx2, tx3}
MCKeyOf == tx1 :> k1 @@ tx2 :> k1 @@ tx3 :> k2
MCPriceOf == tx1 :> 1 @@ tx2 :> 2 @@ tx3 :> 2

\* Retain is SelectSeq on every list of up to four entries.
ASSUME RetainIsSelectSeq ==
    \A n \in 0..4 : \A list \in [1..n -> 1..3], gone \in SUBSET (1..3) :
        Retain(list, gone) = SelectSeq(list, LAMBDA h : h \notin gone)

\* The scan of get_transactions as the code makes it: the lists one after
\* the other, highest price first, up to the limit.
Scan(lists, pool, limit, min) ==
    LET prices == SetToSortSeq({p \in Prices : p >= min}, LAMBDA a, b : a > b)
        found  == SelectSeq(FlattenSeq([i \in DOMAIN prices |-> lists[prices[i]]]), LAMBDA h : h \in pool)
        most   == IF limit = 0 THEN 1 ELSE limit
    IN  IF Len(found) <= most THEN found ELSE SubSeq(found, 1, most)

\* Selected is this scan on all lists of up to two entries.
ASSUME SelectedIsScan ==
    \A lists \in [Prices -> UNION {[1..n -> Txs] : n \in 0..2}], pool \in SUBSET Txs :
        \A limit \in Limits, min \in Prices :
            Selected(lists, pool, limit, min) = Scan(lists, pool, limit, min)

Transfer(i, from, to, u, v, n, ts) ==
    [id |-> i, source |-> from, target |-> to, sender |-> u, receiver |-> v,
     amount |-> n, timestamp |-> ts]

MCTransfers == {Transfer(there, 0, 1, alice, bob, 1, 10),
                Transfer(again, 0, 1, bob, bob, 1, 12),
                Transfer(back, 1, 0, bob, alice, 2, 10),
                Transfer(nowhere, 0, 9, alice, bob, 1, 11)}
MCBalance0 == [s \in Shards |-> [u \in Users |-> IF s = 1 THEN 0 ELSE IF u = alice THEN 3 ELSE 1]]

-----------------------------------------------------------------------------

mcVars == <<vars, netVars, shardVars, part>>

MCInit == Init /\ NetInit /\ ShardInit /\ part \in {"mempool", "network", "shards"}

MCNext ==
    /\ UNCHANGED part
    /\ \/ part = "mempool" /\ Next /\ UNCHANGED <<netVars, shardVars>>
       \/ part = "network" /\ NetNext /\ UNCHANGED <<vars, shardVars>>
       \/ part = "shards" /\ ShardNext /\ UNCHANGED <<vars, netVars>>

\* The fairness of the parts, Fairness, NetFairness and ShardFairness, in one
\* formula: a behaviour takes the steps of one of them only.
MCStep(t) ==
    \/ part = "mempool" /\ t \in Threads /\ Step(t) /\ UNCHANGED <<netVars, shardVars, part>>
    \/ part = "network" /\ NetStep(t) /\ UNCHANGED <<vars, shardVars, part>>

MCFairness ==
    /\ \A t \in Tasks : SF_mcVars(MCStep(t))
    /\ ShardFairness

MCSpec == MCInit /\ [][MCNext]_mcVars /\ MCFairness
=============================================================================
