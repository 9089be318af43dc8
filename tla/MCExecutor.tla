----------------------------- MODULE MCExecutor -----------------------------
(***************************************************************************)
(* Two users and a contract address for TLC.  Blocks hold up to two of the *)
(* transactions, the same one twice included, or three of four that        *)
(* depend on each other.                                                   *)
(***************************************************************************)
EXTENDS Executor, SequencesExt

CONSTANTS a, b, c

Tx(kind, from, to, value, gas) ==
    [kind |-> kind, from |-> from, to |-> to, contract |-> c, value |-> value, gas |-> gas]

MCCore == {Tx("Transfer", a, b, 2, 1), Tx("Transfer", b, a, 3, 0),
           Tx("ContractDeploy", a, NoReceiver, 1, 1), Tx("Transfer", b, c, 1, 1)}
\* The cost of the last one wraps.
MCVMTxs == MCCore \cup {Tx("PrivateTransfer", a, b, 1, 1), Tx("Transfer", a, NoReceiver, 1, 1),
                      Tx("ContractCall", b, c, 0, 1), Tx("ContractCall", b, NoReceiver, 0, 1),
                      Tx("Stake", b, a, 1, 1), Tx("Transfer", a, b, 15, 2)}
MCBlocks == BoundedSeq(MCVMTxs, 2) \cup SeqOf(MCCore, 3)
MCBalance0 == [x \in VMAddresses |-> IF x = a THEN 5 ELSE IF x = b THEN 2 ELSE 0]
=============================================================================
