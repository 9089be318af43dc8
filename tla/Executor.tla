------------------------------ MODULE Executor ------------------------------
(***************************************************************************)
(* The VM and the two ways to execute a block (src/src/vm/mod.rs).         *)
(*                                                                         *)
(* Every kind of transaction takes the write lock of the VM's state for    *)
(* all it reads and writes, so executing one is a function from states to  *)
(* states, and execute_block_parallel applies these functions in any       *)
(* order.  Amounts are u128 and wrap as in the release build: Word stands  *)
(* for 2^128.  Gas is the product gas_price * gas_limit a transaction is   *)
(* charged; the gas_used of a result is left out.                          *)
(***************************************************************************)
EXTENDS Integers, Sequences, FiniteSets, FiniteSetsExt, Functions

CONSTANTS
    VMAddresses,  \* account and contract addresses
    VMTxs,        \* transactions: records, see TxsAssumption
    Blocks,     \* sequences of transactions given to the executor
    Balance0,   \* Addresses -> initial balance
    Word,       \* 2^128
    MaxBlocks,  \* bound: blocks executed
    NoReceiver        \* tx.to is None

Kinds == {"Transfer", "PrivateTransfer", "ContractDeploy", "ContractCall", "Stake"}
Amount == 0..(Word - 1)

\* contract is the address derived from from and nonce.  It is a hash of
\* them, so nobody sends from it.
ASSUME TxsAssumption ==
    /\ VMTxs \subseteq [kind : Kinds, from : VMAddresses, to : VMAddresses \cup {NoReceiver},
                      contract : VMAddresses, value : Amount, gas : Amount]
    /\ \A tx, ux \in VMTxs : tx.contract # ux.from
ASSUME BlocksAssumption == Blocks \subseteq Seq(VMTxs)
ASSUME VMAddressesAssumption == IsFiniteSet(VMAddresses)
ASSUME NoReceiverAssumption == NoReceiver \notin VMAddresses
ASSUME WordAssumption == Word \in Nat \ {0}
ASSUME Balance0Assumption == Balance0 \in [VMAddresses -> Amount]
ASSUME MaxBlocksAssumption == MaxBlocks \in Nat

VARIABLES
    state,    \* VMState: accounts and the addresses with contract code
    block,    \* the block being executed
    parallel, \* by execute_block_parallel, not execute_block_sequential
    todo,     \* the positions of its transactions still to execute
    results,  \* position -> success
    base,     \* history: the state before the block
    created,  \* history: value that appeared, modulo Word
    executed_blocks    \* number of blocks so far

vmVars == <<state, block, parallel, todo, results, base, created, executed_blocks>>

Account == [balance : Amount, nonce : Nat]
VMState == [accounts : [VMAddresses -> Account], contracts : SUBSET VMAddresses]

VMInit ==
    /\ state = [accounts |-> [a \in VMAddresses |-> [balance |-> Balance0[a], nonce |-> 0]],
                contracts |-> {}]
    /\ block = <<>> /\ parallel = FALSE /\ todo = {} /\ results = <<>>
    /\ base = state
    /\ created = 0 /\ executed_blocks = 0

-----------------------------------------------------------------------------
(* execute_transaction: what each kind does to a state.  An outcome is the *)
(* new state and whether the result says success.                          *)

Outcome(s, success) == [state |-> s, success |-> success]

\* to.unwrap_or(from)
Receiver(tx) == IF tx.to = NoReceiver THEN tx.from ELSE tx.to

TotalCost(tx) == (tx.value + tx.gas) % Word

MutTransferChanges(tx) == \* the sender pays no gas
    [a \in {tx.from, Receiver(tx)} |->
        IF a = Receiver(tx) THEN [balance_delta |-> tx.value, nonce_delta |-> 0]
        ELSE [balance_delta |-> -tx.value, nonce_delta |-> 1]]

\* changes is a map: the receiver's entry replaces the sender's when they
\* are the same account.
TransferChanges(tx) ==
    [a \in {tx.from, Receiver(tx)} |->
        IF a = Receiver(tx) THEN [balance_delta |-> tx.value, nonce_delta |-> 0]
        ELSE [balance_delta |-> -TotalCost(tx), nonce_delta |-> 1]]

Apply(account, change) ==
    [balance |-> (account.balance + change.balance_delta) % Word,
     nonce |-> account.nonce + change.nonce_delta]

MutExecuteTransfer(tx, s) == \* the accounts are read before the lock is taken
    LET changes == TransferChanges(tx)
    IN  IF base.accounts[tx.from].balance < TotalCost(tx) THEN Outcome(s, FALSE)
        ELSE Outcome([s EXCEPT !.accounts =
                         [a \in VMAddresses |-> IF a \in DOMAIN changes THEN Apply(base.accounts[a], changes[a])
                                               ELSE s.accounts[a]]],
                     TRUE)

ExecuteTransfer(tx, s) ==
    LET changes == TransferChanges(tx)
    IN  IF s.accounts[tx.from].balance < TotalCost(tx) THEN Outcome(s, FALSE)
        ELSE Outcome([s EXCEPT !.accounts =
                         [a \in VMAddresses |-> IF a \in DOMAIN changes THEN Apply(s.accounts[a], changes[a])
                                               ELSE s.accounts[a]]],
                     TRUE)

\* The contract's account is a new one that holds the value; the change
\* computed for the sender is returned and not applied.
ExecuteContractDeploy(tx, s) ==
    Outcome([accounts |-> [s.accounts EXCEPT ![tx.contract] = [balance |-> tx.value, nonce |-> 0]],
             contracts |-> s.contracts \cup {tx.contract}],
            TRUE)

\* Contract execution is a placeholder: it changes nothing.
ExecuteContractCall(tx, s) == Outcome(s, Receiver(tx) \in s.contracts)

\* The proof, if there is one, only costs gas.
ExecutePrivateTransfer(tx, s) == ExecuteTransfer(tx, s)

ExecuteTransaction(tx, s) ==
    CASE tx.kind = "Transfer" -> ExecuteTransfer(tx, s)
      [] tx.kind = "ContractDeploy" -> ExecuteContractDeploy(tx, s)
      [] tx.kind = "ContractCall" -> ExecuteContractCall(tx, s)
      [] tx.kind = "PrivateTransfer" -> ExecutePrivateTransfer(tx, s)
      [] OTHER -> Outcome(s, FALSE)

-----------------------------------------------------------------------------
(* The executor                                                            *)

\* What a transaction adds to the sum of all balances: a transfer to oneself
\* is credited and not debited, a deployment puts its value in the place of
\* what the address held, any other transfer pays its gas to nobody.
Created(tx, s) ==
    CASE tx.kind = "ContractDeploy" -> tx.value - s.accounts[tx.contract].balance
      [] tx.kind \in {"Transfer", "PrivateTransfer"} /\ ExecuteTransaction(tx, s).success ->
             IF Receiver(tx) = tx.from THEN tx.value ELSE -tx.gas
      [] OTHER -> 0

StartBlock(b, inParallel) ==
    /\ todo = {} /\ executed_blocks < MaxBlocks
    /\ block' = b /\ parallel' = inParallel
    /\ todo' = DOMAIN b
    /\ results' = [i \in DOMAIN b |-> FALSE]
    /\ base' = state
    /\ executed_blocks' = executed_blocks + 1
    /\ UNCHANGED <<state, created>>

Execute(i) ==
    LET outcome == ExecuteTransaction(block[i], state)
    IN  /\ state' = outcome.state
        /\ results' = [results EXCEPT ![i] = outcome.success]
        /\ todo' = todo \ {i}
        /\ created' = (created + Created(block[i], state)) % Word
        /\ UNCHANGED <<block, parallel, base, executed_blocks>>

\* par_iter: the threads of the pool take the transactions in any order.
ExecuteBlockParallel == parallel /\ \E i \in todo : Execute(i)

ExecuteBlockSequential == ~parallel /\ todo # {} /\ Execute(Min(todo))

VMNext ==
    \/ \E b \in Blocks, inParallel \in BOOLEAN : StartBlock(b, inParallel)
    \/ ExecuteBlockParallel
    \/ ExecuteBlockSequential

VMSpec == VMInit /\ [][VMNext]_vmVars

-----------------------------------------------------------------------------
(* Properties                                                              *)

Balances(s) == [a \in VMAddresses |-> s.accounts[a].balance]
Total(s) == SumFunctionOnSet(Balances(s), VMAddresses)

\* Over any run of blocks, modulo 2^128, no value appears or disappears
\* except by transfers to oneself, deployments and the gas of transfers.
\* (What the code says of deployments is DeploymentsDebit.)
BalancesConserved ==
    Total(state) % Word = (SumFunctionOnSet(Balance0, VMAddresses) + created) % Word

\* "Deduct from sender": whoever deploys a contract pays its value and the
\* gas.
DeploymentsDebit ==
    [][\A i \in todo \ todo' :
        LET tx == block[i]
        IN  tx.kind = "ContractDeploy" /\ results'[i] =>
                state'.accounts[tx.from].balance = (state.accounts[tx.from].balance - TotalCost(tx)) % Word]_vmVars

TransfersOf(b, a) == {i \in DOMAIN b : b[i].kind \in {"Transfer", "PrivateTransfer"} /\ b[i].from = a}

\* Every sender can pay all its transfers of the block from what it had.
Funded(b, s) ==
    \A a \in VMAddresses :
        s.accounts[a].balance >= SumFunctionOnSet([i \in DOMAIN b |-> b[i].value + b[i].gas], TransfersOf(b, a))

\* No transaction uses the address another one deploys to.
Independent(b) ==
    \A i, j \in DOMAIN b : i # j /\ b[i].kind = "ContractDeploy" =>
        b[i].contract # IF b[j].kind = "ContractDeploy" THEN b[j].contract ELSE Receiver(b[j])

\* No balance can reach 2^128.
FitsWord(b, s) == Total(s) + SumFunctionOnSet([i \in DOMAIN b |-> b[i].value], DOMAIN b) < Word

\* The transactions of b one after the other, in the order of the block.
Serial(b, s) ==
    LET run[n \in 0..Len(b)] ==
            IF n = 0 THEN [state |-> s, results |-> <<>>]
            ELSE LET outcome == ExecuteTransaction(b[n], run[n - 1].state)
                 IN  [state |-> outcome.state, results |-> Append(run[n - 1].results, outcome.success)]
    IN  run[Len(b)]

\* "Parallel transaction executor using block-STM": the parallel execution
\* of a block has the outcome of its serial execution, results included,
\* whatever order the threads take, if the senders are funded beforehand
\* and nobody uses a contract deployed by the same block.  (For other
\* blocks the order decides which transactions succeed.)
FundedBlocksAreSerial ==
    (todo = {} /\ Funded(block, base) /\ Independent(block) /\ FitsWord(block, base))
        => [state |-> state, results |-> results] = Serial(block, base)
=============================================================================
