------------------------------ MODULE Mempool ------------------------------
(***************************************************************************)
(* The pool of pending transactions (src/src/consensus/mod.rs, Mempool).   *)
(*                                                                         *)
(* The pool is three maps, each behind its own reader-writer lock, shared  *)
(* by the threads that submit, propose and finalize.  A thread's call is   *)
(* one action per lock it acquires; what the code does between two         *)
(* acquisitions happens in the action of the first.  All guards live to    *)
(* the end of the function, so the last action of a call releases them     *)
(* all.                                                                    *)
(*                                                                         *)
(* A transaction and its hash are the same model value.  A missing entry   *)
(* of by_gas_price is the empty sequence: the code never stores an empty   *)
(* list.                                                                   *)
(***************************************************************************)
EXTENDS Integers, Sequences, FiniteSets, SequencesExt, Lists

CONSTANTS
    Threads,      \* callers of the pool
    Txs,          \* transactions
    Keys,         \* (sender, nonce) pairs
    KeyOf,        \* the pair of each transaction
    PriceOf,      \* the gas price of each transaction
    MaxSize,      \* max_size
    Limits,       \* limits passed to get_transactions
    GasListBound, \* bound: no submission while its price list is this long
    None          \* an absent map entry; no lock holder

ASSUME ThreadsAssumption == None \notin Threads
ASSUME TxsAssumption == IsFiniteSet(Txs) /\ None \notin Txs
ASSUME KeyOfAssumption == KeyOf \in [Txs -> Keys]
ASSUME PriceOfAssumption == PriceOf \in [Txs -> Nat]
ASSUME MaxSizeAssumption == MaxSize \in Nat
ASSUME LimitsAssumption == Limits \subseteq Nat

Prices == {PriceOf[tx] : tx \in Txs}

VARIABLES
    transactions, \* the hashes in the transactions map
    by_nonce,     \* Keys -> hash or None
    by_gas_price, \* Prices -> sequence of hashes
    writer,       \* Locks -> the thread holding the write guard, or None
    readers,      \* Locks -> the threads holding a read guard
    pc,           \* Threads -> the lock the call waits for next, or "idle"
    arg           \* Threads -> the arguments of the call under way, or None

vars == <<transactions, by_nonce, by_gas_price, writer, readers, pc, arg>>

Locks == {"transactions", "by_nonce", "by_gas_price"}

AddLocations == {"add_transactions", "add_by_nonce", "add_by_gas"}
GetLocations == {"get_by_gas", "get_transactions"}
RemoveLocations == {"rm_transactions", "rm_by_nonce", "rm_by_gas"}
Locations == {"idle"} \cup AddLocations \cup GetLocations \cup RemoveLocations

Init ==
    /\ transactions = {}
    /\ by_nonce = [k \in Keys |-> None]
    /\ by_gas_price = [p \in Prices |-> <<>>]
    /\ writer = [l \in Locks |-> None]
    /\ readers = [l \in Locks |-> {}]
    /\ pc = [t \in Threads |-> "idle"]
    /\ arg = [t \in Threads |-> None]

-----------------------------------------------------------------------------
(* Reader-writer locks (parking_lot::RwLock).                              *)

CanWrite(l) == writer[l] = None /\ readers[l] = {}
CanRead(l) == writer[l] = None

Goto(t, location) == pc' = [pc EXCEPT ![t] = location]

\* The function returns: its guards and its arguments go out of scope.
Return(t) ==
    /\ writer' = [l \in Locks |-> IF writer[l] = t THEN None ELSE writer[l]]
    /\ readers' = [l \in Locks |-> readers[l] \ {t}]
    /\ Goto(t, "idle")
    /\ arg' = [arg EXCEPT ![t] = None]

-----------------------------------------------------------------------------
(* add_transaction                                                         *)

AddCall(t, tx) ==
    /\ pc[t] = "idle"
    /\ Len(by_gas_price[PriceOf[tx]]) < GasListBound
    /\ Goto(t, "add_transactions")
    /\ arg' = [arg EXCEPT ![t] = [tx |-> tx]]
    /\ UNCHANGED <<transactions, by_nonce, by_gas_price, writer, readers>>

\* Fault: one transaction too many is admitted.
PoolFullOffByOne == Cardinality(transactions) > MaxSize

PoolFull == Cardinality(transactions) >= MaxSize

\* "Mempool full": the early return drops the only guard held.
AddFull(t) ==
    /\ pc[t] = "add_transactions"
    /\ CanWrite("transactions")
    /\ PoolFull
    /\ Return(t)
    /\ UNCHANGED <<transactions, by_nonce, by_gas_price>>

AddInsert(t) ==
    /\ pc[t] = "add_transactions"
    /\ CanWrite("transactions")
    /\ ~PoolFull
    /\ transactions' = transactions \cup {arg[t].tx}
    /\ writer' = [writer EXCEPT !["transactions"] = t]
    /\ Goto(t, "add_by_nonce")
    /\ UNCHANGED <<by_nonce, by_gas_price, readers, arg>>

AddByNonce(t) ==
    /\ pc[t] = "add_by_nonce"
    /\ CanWrite("by_nonce")
    /\ by_nonce' = [by_nonce EXCEPT ![KeyOf[arg[t].tx]] = arg[t].tx]
    /\ writer' = [writer EXCEPT !["by_nonce"] = t]
    /\ Goto(t, "add_by_gas")
    /\ UNCHANGED <<transactions, by_gas_price, readers, arg>>

\* The hash is pushed even when the list already holds it.
AddByGas(t) ==
    /\ pc[t] = "add_by_gas"
    /\ CanWrite("by_gas_price")
    /\ by_gas_price' = [by_gas_price EXCEPT ![PriceOf[arg[t].tx]] = Append(@, arg[t].tx)]
    /\ Return(t)
    /\ UNCHANGED <<transactions, by_nonce>>

-----------------------------------------------------------------------------
(* get_transactions                                                        *)

GetCall(t, limit, min) ==
    /\ pc[t] = "idle"
    /\ Goto(t, "get_by_gas")
    /\ arg' = [arg EXCEPT ![t] = [limit |-> limit, min |-> min]]
    /\ UNCHANGED <<transactions, by_nonce, by_gas_price, writer, readers>>

GetByGas(t) ==
    /\ pc[t] = "get_by_gas"
    /\ CanRead("by_gas_price")
    /\ readers' = [readers EXCEPT !["by_gas_price"] = @ \cup {t}]
    /\ Goto(t, "get_transactions")
    /\ UNCHANGED <<transactions, by_nonce, by_gas_price, writer, arg>>

\* The entries get_transactions comes across that are in the pool: a price
\* of at least min, and a position in the list of that price.
Found(lists, pool, min) ==
    {e \in UNION {{<<p, i>> : i \in 1..Len(lists[p])} : p \in {q \in Prices : q >= min}} :
        lists[e[1]][e[2]] \in pool}

\* The highest price comes first, and each list is read in its order.
NotAfter(e, f) == e[1] > f[1] \/ (e[1] = f[1] /\ e[2] <= f[2])

\* How many entries have been found when the scan has come to e.
Count(found, e) == Cardinality({f \in found : NotAfter(f, e)})

\* The transactions of the first entries found.  The scan stops after the
\* push that reaches the limit, so a limit of 0 still yields one.
Selected(lists, pool, limit, min) ==
    LET found == Found(lists, pool, min)
        all   == Cardinality(found)
        most  == IF limit = 0 THEN 1 ELSE limit
        Nth(n) == CHOOSE e \in found : Count(found, e) = n
    IN  [n \in 1..(IF all <= most THEN all ELSE most) |-> lists[Nth(n)[1]][Nth(n)[2]]]

\* Fault: the scan does not break below min_gas_price.
ResultIgnoresMin(t) == Selected(by_gas_price, transactions, arg[t].limit, 0)

\* What this step returns.
Result(t) == Selected(by_gas_price, transactions, arg[t].limit, arg[t].min)

GetSelect(t) ==
    /\ pc[t] = "get_transactions"
    /\ CanRead("transactions")
    /\ Return(t)
    /\ UNCHANGED <<transactions, by_nonce, by_gas_price>>

-----------------------------------------------------------------------------
(* remove_transactions                                                     *)

RemoveCall(t, hashes) ==
    /\ pc[t] = "idle"
    /\ Goto(t, "rm_transactions")
    /\ arg' = [arg EXCEPT ![t] = [hashes |-> hashes]]
    /\ UNCHANGED <<transactions, by_nonce, by_gas_price, writer, readers>>

\* Fault: the first line locks by_nonce, which the second line locks again.
RemoveLocksByNonceTwice(t) ==
    /\ pc[t] = "rm_transactions"
    /\ CanWrite("by_nonce")
    /\ writer' = [writer EXCEPT !["by_nonce"] = t]
    /\ Goto(t, "rm_by_nonce")
    /\ UNCHANGED <<transactions, by_nonce, by_gas_price, readers, arg>>

RemoveLockTransactions(t) ==
    /\ pc[t] = "rm_transactions"
    /\ CanWrite("transactions")
    /\ writer' = [writer EXCEPT !["transactions"] = t]
    /\ Goto(t, "rm_by_nonce")
    /\ UNCHANGED <<transactions, by_nonce, by_gas_price, readers, arg>>

RemoveLockByNonce(t) ==
    /\ pc[t] = "rm_by_nonce"
    /\ CanWrite("by_nonce")
    /\ writer' = [writer EXCEPT !["by_nonce"] = t]
    /\ Goto(t, "rm_by_gas")
    /\ UNCHANGED <<transactions, by_nonce, by_gas_price, readers, arg>>

\* The hashes of remove_transactions that are pooled.
Gone(t) == arg[t].hashes \cap transactions

\* entry.retain(|h| h is not gone): the other entries, in their order.
Kept(list, gone) == {i \in 1..Len(list) : list[i] \notin gone}
Retain(list, gone) == KeepAt(list, Kept(list, gone))

\* Fault: the removed hashes stay in the price lists.
RemoveAllKeepsGas(t) ==
    /\ pc[t] = "rm_by_gas"
    /\ CanWrite("by_gas_price")
    /\ transactions' = transactions \ Gone(t)
    /\ by_nonce' = [k \in Keys |-> IF \E h \in Gone(t) : KeyOf[h] = k THEN None ELSE by_nonce[k]]
    /\ Return(t)
    /\ UNCHANGED by_gas_price

\* The loop over the hashes: only the ones that are pooled have any effect,
\* and the nonce entry goes whichever transaction it names.
RemoveAll(t) ==
    /\ pc[t] = "rm_by_gas"
    /\ CanWrite("by_gas_price")
    /\ transactions' = transactions \ Gone(t)
    /\ by_nonce' = [k \in Keys |-> IF \E h \in Gone(t) : KeyOf[h] = k THEN None ELSE by_nonce[k]]
    /\ by_gas_price' = [p \in Prices |-> Retain(by_gas_price[p], Gone(t))]
    /\ Return(t)

-----------------------------------------------------------------------------
Call(t) ==
    \/ \E tx \in Txs : AddCall(t, tx)
    \/ \E limit \in Limits, min \in Prices : GetCall(t, limit, min)
    \/ \E hashes \in SUBSET Txs : RemoveCall(t, hashes)

\* One step of the call thread t is in.
Step(t) ==
    \/ AddFull(t) \/ AddInsert(t) \/ AddByNonce(t) \/ AddByGas(t)
    \/ GetByGas(t) \/ GetSelect(t)
    \/ RemoveLockTransactions(t) \/ RemoveLockByNonce(t) \/ RemoveAll(t)

Next == \E t \in Threads : Call(t) \/ Step(t)

Spec == Init /\ [][Next]_vars

\* parking_lot hands a lock to a parked thread after a bounded time, so a
\* thread that could acquire its lock again and again does acquire it.
Fairness == \A t \in Threads : SF_vars(Step(t))

FairSpec == Spec /\ Fairness

-----------------------------------------------------------------------------
(* Properties                                                              *)

\* The arguments a thread holds are those of the call it is in.
ArgOK(t) ==
    /\ pc[t] \in AddLocations => arg[t] \in [tx : Txs]
    /\ pc[t] \in GetLocations => arg[t] \in [limit : Limits, min : Prices]
    /\ pc[t] \in RemoveLocations => arg[t] \in [hashes : SUBSET Txs]

\* Type invariant of the pool: the three maps, the locks, and the arguments
\* of the calls under way.
TypeOK ==
    /\ transactions \in SUBSET Txs
    /\ by_nonce \in [Keys -> Txs \cup {None}]
    /\ by_gas_price \in [Prices -> Seq(Txs)]
    /\ writer \in [Locks -> Threads \cup {None}]
    /\ readers \in [Locks -> SUBSET Threads]
    /\ pc \in [Threads -> Locations]
    /\ DOMAIN arg = Threads
    /\ \A t \in Threads : ArgOK(t)

\* Everything the price lists hold is pooled and listed under its own price,
\* and everything pooled is listed.
GasIndexAgrees ==
    /\ \A tx \in transactions : \E i \in 1..Len(by_gas_price[PriceOf[tx]]) :
           by_gas_price[PriceOf[tx]][i] = tx
    /\ \A p \in Prices : \A i \in 1..Len(by_gas_price[p]) :
           by_gas_price[p][i] \in transactions /\ PriceOf[by_gas_price[p][i]] = p

\* The nonce index names pooled transactions with that sender and nonce.
NonceIndexAgrees ==
    \A k \in Keys : by_nonce[k] # None =>
        by_nonce[k] \in transactions /\ KeyOf[by_nonce[k]] = k

\* Whoever takes a guard on the transactions map finds the three maps in
\* agreement, whatever calls were interleaved before: add_transaction and
\* remove_transactions update them one lock at a time.
IndexesAgree == writer["transactions"] = None => GasIndexAgrees /\ NonceIndexAgrees

\* The pool never holds more than max_size transactions, although the check
\* and the insertion of add_transaction run in several threads.
WithinCapacity == Cardinality(transactions) <= MaxSize

\* Whenever get_transactions has its two guards, what it returns are pooled
\* transactions of its minimum price or more, and it leaves one out only for
\* lack of room and only if everything it returns pays at least as much.
GetReturnsTop ==
    \A t \in Threads : pc[t] = "get_transactions" /\ CanRead("transactions") =>
        LET got == ToSet(Result(t))
        IN  /\ \A tx \in got : tx \in transactions /\ PriceOf[tx] >= arg[t].min
            /\ \A tx \in transactions \ got : PriceOf[tx] >= arg[t].min =>
                   /\ Len(Result(t)) >= arg[t].limit
                   /\ \A best \in got : PriceOf[best] >= PriceOf[tx]

\* The lock thread t waits for is free for it.
CanStep(t) ==
    CASE pc[t] \in {"add_transactions", "rm_transactions"} -> CanWrite("transactions")
      [] pc[t] \in {"add_by_nonce", "rm_by_nonce"} -> CanWrite("by_nonce")
      [] pc[t] \in {"add_by_gas", "rm_by_gas"} -> CanWrite("by_gas_price")
      [] pc[t] = "get_by_gas" -> CanRead("by_gas_price")
      [] pc[t] = "get_transactions" -> CanRead("transactions")
      [] OTHER -> FALSE

\* get_transactions locks by_gas_price and then transactions; the other two
\* lock transactions and end with by_gas_price.  In this state a reader and
\* a writer each hold what the other waits for.
LockInversion ==
    \E t, u \in Threads :
        /\ pc[t] = "get_transactions" /\ t \in readers["by_gas_price"]
        /\ pc[u] \in {"add_by_gas", "rm_by_gas"} /\ writer["transactions"] = u

\* The inversion is the only way the pool can stop: if calls are under way
\* and none of them can take its next lock, a get_transactions waits for
\* the writer of transactions, which waits for by_gas_price.
StuckOnlyByInversion ==
    (\E t \in Threads : pc[t] # "idle") /\ (\A t \in Threads : ~CanStep(t))
        => LockInversion

\* Every call of the pool returns, unless the lock inversion happens.
CallsReturn ==
    \A t \in Threads : pc[t] # "idle" ~> (pc[t] = "idle" \/ LockInversion)
=============================================================================
