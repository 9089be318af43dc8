---------------------------- MODULE MCConsensus ----------------------------
(***************************************************************************)
(* The consensus engine of node 1 for TLC.  Node 2 sends blocks it signed, *)
(* empty ones at heights 0 and 1 and one with a transaction at height 2,   *)
(* and one without a signature and with the Merkle root of an empty block. *)
(***************************************************************************)
EXTENDS Consensus, TLC

CONSTANTS tx1, tx2, tx3

Of2(h, txs, root) ==
    [height |-> h, root |-> root, validator |-> 2, signature |-> None, txs |-> txs]

MCReceived ==
    {Sign(Of2(0, {}, {}), 2), Sign(Of2(1, {}, {}), 2), Sign(Of2(2, {tx3}, {tx3}), 2), Of2(1, Txs, {})}

MCTxSymmetry == Permutations({tx1, tx2})

\* The only block this node does not propose itself is the one at height 0.
MCGenesis == {[height |-> 0, root |-> {}, validator |-> 1, signature |-> None, txs |-> {}]}
=============================================================================
