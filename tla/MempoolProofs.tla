--------------------------- MODULE MempoolProofs ---------------------------
(***************************************************************************)
(* Proofs about the mempool, for any number of threads and transactions    *)
(* and any max_size.                                                       *)
(***************************************************************************)
EXTENDS Mempool, DataTheorems, FiniteSetTheorems, TLAPS

-----------------------------------------------------------------------------
(* What retain does to a list.                                             *)

\* Retain returns a list of the same elements without the ones that are
\* gone: nothing else is lost and nothing is added.
LEMMA RetainProperties ==
    ASSUME NEW S, NEW list \in Seq(S), NEW gone
    PROVE  /\ Retain(list, gone) \in Seq(S)
           /\ \A j \in 1..Len(Retain(list, gone)) :
                  /\ Retain(list, gone)[j] \notin gone
                  /\ \E i \in 1..Len(list) : list[i] = Retain(list, gone)[j]
           /\ \A i \in 1..Len(list) : list[i] \notin gone =>
                  \E j \in 1..Len(Retain(list, gone)) : Retain(list, gone)[j] = list[i]
PROOF
<1> DEFINE kept == Kept(list, gone)
           n == Cardinality(kept)
           at(j) == CHOOSE i \in kept : Rank(kept, i) = j
<1>1. Len(list) \in Nat /\ kept \in SUBSET (1..Len(list))
    BY DEF Kept
<1>2. /\ n \in Nat
      /\ \A i \in kept : Rank(kept, i) \in 1..n
      /\ \A i, k \in kept : Rank(kept, i) = Rank(kept, k) => i = k
      /\ \A j \in 1..n : \E i \in kept : Rank(kept, i) = j
    BY <1>1, RankBijective
<1>3. \A j \in 1..n : at(j) \in kept /\ Rank(kept, at(j)) = j
    BY <1>2
<1>4. \A i \in kept : at(Rank(kept, i)) = i
    BY <1>2, <1>3
<1>5. Retain(list, gone) = [j \in 1..n |-> list[at(j)]]
    BY DEF Retain, KeepAt
<1> HIDE DEF at
<1>6. \A j \in 1..n : list[at(j)] \in S /\ list[at(j)] \notin gone /\ at(j) \in 1..Len(list)
    BY <1>1, <1>3 DEF Kept
<1>7. Retain(list, gone) \in Seq(S) /\ Len(Retain(list, gone)) = n
    BY <1>2, <1>5, <1>6
<1>8. \A i \in 1..Len(list) : list[i] \notin gone => i \in kept
    BY DEF Kept
<1> QED
    BY <1>2, <1>4, <1>5, <1>6, <1>7, <1>8
-----------------------------------------------------------------------------
(* What get_transactions returns.                                          *)

\* An entry is a price from min on and a position in its list.
LEMMA FoundEntries ==
    ASSUME NEW lists \in [Prices -> Seq(Txs)], NEW pool, NEW min, NEW e
    PROVE  e \in Found(lists, pool, min) <=>
               \E p \in Prices : \E i \in 1..Len(lists[p]) :
                   e = <<p, i>> /\ p >= min /\ lists[p][i] \in pool
PROOF
    BY DEF Found

LEMMA FoundFinite ==
    ASSUME NEW lists \in [Prices -> Seq(Txs)], NEW pool, NEW min
    PROVE  IsFiniteSet(Found(lists, pool, min))
PROOF
<1> DEFINE from == {q \in Prices : q >= min}
           row(p) == {<<p, i>> : i \in 1..Len(lists[p])}
           rows == {row(p) : p \in from}
<1>1. IsFiniteSet(Prices)
    <2>1. PriceOf \in Surjection(Txs, Prices)
        BY PriceOfAssumption DEF Prices, Surjection
    <2> QED
        BY <2>1, TxsAssumption, FS_Surjection
<1>2. IsFiniteSet(from)
    BY <1>1, FS_Subset
<1>3. ASSUME NEW p \in from PROVE IsFiniteSet(row(p))
    <2>1. IsFiniteSet(1..Len(lists[p]))
        BY FS_Interval
    <2>2. [i \in 1..Len(lists[p]) |-> <<p, i>>] \in Surjection(1..Len(lists[p]), row(p))
        BY DEF Surjection
    <2> QED
        BY <2>1, <2>2, FS_Surjection
<1>4. IsFiniteSet(rows)
    <2> HIDE DEF row, from
    <2>1. [p \in from |-> row(p)] \in Surjection(from, rows)
        BY DEF Surjection
    <2> QED
        BY <1>2, <2>1, FS_Surjection
<1>5. IsFiniteSet(UNION rows)
    <2>1. \A r \in rows : IsFiniteSet(r)
        BY <1>3
    <2> HIDE DEF rows
    <2> QED
        BY <1>4, <2>1, FS_UNION
<1>6. Found(lists, pool, min) \subseteq UNION rows
    BY DEF Found
<1> HIDE DEF rows
<1> QED
    BY <1>5, <1>6, FS_Subset

\* The scan counts the entries it finds one by one, each once.
LEMMA CountBijective ==
    ASSUME NEW lists \in [Prices -> Seq(Txs)], NEW pool, NEW min, NEW found, found = Found(lists, pool, min)
    PROVE  /\ Cardinality(found) \in Nat
           /\ \A e \in found : Count(found, e) \in 1..Cardinality(found)
           /\ \A e, f \in found : Count(found, e) = Count(found, f) => e = f
           /\ \A j \in 1..Cardinality(found) : \E e \in found : Count(found, e) = j
           /\ \A e, f \in found : Count(found, e) <= Count(found, f) => e[1] >= f[1]
PROOF
<1> DEFINE upto == [e \in found |-> {f \in found : NotAfter(f, e)}]
<1>1. IsFiniteSet(found)
    BY FoundFinite
<1>2. ASSUME NEW e \in found PROVE e[1] \in Nat /\ e[2] \in Nat /\ e = <<e[1], e[2]>>
    BY FoundEntries, PriceOfAssumption DEF Prices
<1>3. \A e \in found : NotAfter(e, e)
    BY <1>2 DEF NotAfter
<1>4. \A e, f \in found : NotAfter(e, f) \/ NotAfter(f, e)
    BY <1>2 DEF NotAfter
<1>5. \A e, f \in found : NotAfter(e, f) /\ NotAfter(f, e) => e = f
    <2> SUFFICES ASSUME NEW e \in found, NEW f \in found, NotAfter(e, f), NotAfter(f, e)
                 PROVE  e = f
        OBVIOUS
    <2>1. e[1] = f[1] /\ e[2] = f[2]
        BY <1>2 DEF NotAfter
    <2> QED
        BY <1>2, <2>1
<1>6. \A e, f, g \in found : NotAfter(e, f) /\ NotAfter(f, g) => NotAfter(e, g)
    BY <1>2 DEF NotAfter
<1>7. upto \in [found -> SUBSET found] /\ \A e \in found : e \in upto[e]
    BY <1>3
<1>8. \A e, f \in found : NotAfter(e, f) => upto[e] \subseteq upto[f]
    BY <1>6
<1>9. \A e, f \in found : upto[e] = upto[f] => e = f
    <2> SUFFICES ASSUME NEW e \in found, NEW f \in found, upto[e] = upto[f] PROVE e = f
        OBVIOUS
    <2>1. e \in upto[f] /\ f \in upto[e]
        BY <1>7
    <2> QED
        BY <1>5, <2>1
<1>10. \A e \in found : Count(found, e) = Cardinality(upto[e])
    BY DEF Count
<1> HIDE DEF upto
<1>11. Numbers(upto, found)
    BY <1>1, <1>4, <1>7, <1>8, <1>9, SegmentsNumber
<1>12. ASSUME NEW e \in found, NEW f \in found, Count(found, e) <= Count(found, f) PROVE e[1] >= f[1]
    <2>1. CASE NotAfter(e, f)
        BY <1>2, <2>1 DEF NotAfter
    <2>2. CASE NotAfter(f, e)
        <3>1. Cardinality(upto[f]) <= Cardinality(upto[e])
            BY <1>1, <1>7, <1>8, <2>2, FS_Subset
        <3>2. Cardinality(upto[f]) = Cardinality(upto[e])
            BY <1>10, <1>11, <1>12, <3>1 DEF Numbers
        <3>3. e = f
            BY <1>11, <3>2 DEF Numbers
        <3> QED
            BY <1>2, <3>3
    <2> QED
        BY <1>4, <2>1, <2>2
<1> QED
    BY <1>10, <1>11, <1>12 DEF Numbers

\* What is selected are the first entries found: all of them, or at least
\* as many as the limit.
FirstOf(found, lists, limit, selected) ==
    /\ Len(selected) \in Nat /\ DOMAIN selected = 1..Len(selected)
    /\ Len(selected) = Cardinality(found) \/ Len(selected) >= limit
    /\ \A n \in DOMAIN selected : \E e \in found :
           Count(found, e) = n /\ selected[n] = lists[e[1]][e[2]]
    /\ \A e \in found : Count(found, e) \in DOMAIN selected =>
           selected[Count(found, e)] = lists[e[1]][e[2]]

LEMMA SelectedEntries ==
    ASSUME NEW lists \in [Prices -> Seq(Txs)], NEW pool, NEW limit \in Nat, NEW min,
           NEW found, found = Found(lists, pool, min),
           NEW selected, selected = Selected(lists, pool, limit, min)
    PROVE  FirstOf(found, lists, limit, selected)
PROOF
<1> DEFINE all == Cardinality(found)
           most == IF limit = 0 THEN 1 ELSE limit
           size == IF all <= most THEN all ELSE most
           nth(n) == CHOOSE e \in found : Count(found, e) = n
<1>1. /\ all \in Nat
      /\ \A e \in found : Count(found, e) \in 1..all
      /\ \A e, f \in found : Count(found, e) = Count(found, f) => e = f
      /\ \A j \in 1..all : \E e \in found : Count(found, e) = j
    BY CountBijective
<1>2. size \in Nat /\ size <= all /\ (size = all \/ size >= limit)
    BY <1>1
<1>3. selected = [n \in 1..size |-> lists[nth(n)[1]][nth(n)[2]]]
    BY DEF Selected
<1> HIDE DEF size
<1>4. \A n \in 1..size : nth(n) \in found /\ Count(found, nth(n)) = n
    BY <1>1, <1>2
<1>5. \A e \in found : nth(Count(found, e)) = e
    BY <1>1
<1> HIDE DEF nth
<1>6. Len(selected) = size /\ DOMAIN selected = 1..size
    BY <1>2, <1>3
<1> QED
    BY <1>1, <1>2, <1>3, <1>4, <1>5, <1>6 DEF FirstOf

-----------------------------------------------------------------------------
(* The inductive invariant.                                                *)

\* Who holds which lock follows from where each thread is.
LockDiscipline ==
    /\ \A t \in Threads : writer["transactions"] = t <=>
           pc[t] \in {"add_by_nonce", "add_by_gas", "rm_by_nonce", "rm_by_gas"}
    /\ \A t \in Threads : writer["by_nonce"] = t <=> pc[t] \in {"add_by_gas", "rm_by_gas"}
    /\ writer["by_gas_price"] = None
    /\ readers["transactions"] = {}
    /\ readers["by_nonce"] = {}
    /\ readers["by_gas_price"] = {t \in Threads : pc[t] = "get_transactions"}

Listed(tx) == \E i \in 1..Len(by_gas_price[PriceOf[tx]]) : by_gas_price[PriceOf[tx]][i] = tx

\* Some thread has pooled tx and not yet reached the price lists.
AddingLocations == {"add_by_nonce", "add_by_gas"}
Adding(tx) == \E t \in Threads : pc[t] \in AddingLocations /\ arg[t].tx = tx

AddingArePooled == \A tx \in Txs : Adding(tx) => tx \in transactions

PooledAreListed == \A tx \in transactions : Listed(tx) \/ Adding(tx)

ListedArePooled ==
    \A p \in Prices : \A i \in 1..Len(by_gas_price[p]) :
        by_gas_price[p][i] \in transactions /\ PriceOf[by_gas_price[p][i]] = p

\* IndexesAgree speaks only of the states in which nobody writes; here is
\* what holds in between, with the lock discipline that tells the two apart.
Inv ==
    /\ TypeOK
    /\ LockDiscipline
    /\ AddingArePooled
    /\ PooledAreListed
    /\ ListedArePooled
    /\ NonceIndexAgrees
    /\ WithinCapacity

LEMMA InitInv == Init => Inv
PROOF
<1> SUFFICES ASSUME Init PROVE Inv
    OBVIOUS
<1>1. TypeOK
    BY DEF Init, TypeOK, ArgOK, Locations, AddLocations, GetLocations, RemoveLocations, Locks
<1>2. LockDiscipline
    BY ThreadsAssumption DEF Init, LockDiscipline, Locks
<1>3. AddingArePooled /\ PooledAreListed /\ ListedArePooled /\ NonceIndexAgrees
    BY DEF Init, AddingArePooled, Adding, AddingLocations, PooledAreListed, ListedArePooled, NonceIndexAgrees
<1>4. WithinCapacity
    BY FS_EmptySet, MaxSizeAssumption DEF Init, WithinCapacity
<1> QED
    BY <1>1, <1>2, <1>3, <1>4 DEF Inv

\* A step of a thread that is not adding leaves Adding alone.
LEMMA AddingUnchanged ==
    ASSUME NEW t \in Threads, pc[t] \notin AddingLocations, pc'[t] \notin AddingLocations,
           \A u \in Threads \ {t} : pc'[u] = pc[u] /\ arg'[u] = arg[u],
           NEW tx
    PROVE  Adding(tx)' <=> Adding(tx)
PROOF
<1>1. ASSUME Adding(tx) PROVE Adding(tx)'
    <2>1. PICK u \in Threads : pc[u] \in AddingLocations /\ arg[u].tx = tx
        BY <1>1 DEF Adding
    <2> QED
        BY <2>1 DEF Adding
<1>2. ASSUME Adding(tx)' PROVE Adding(tx)
    <2>1. PICK u \in Threads : pc'[u] \in AddingLocations /\ arg'[u].tx = tx
        BY <1>2 DEF Adding
    <2> QED
        BY <2>1 DEF Adding
<1> QED
    BY <1>1, <1>2

\* A step of a thread that is not adding, and that leaves the maps alone.
LEMMA MapsUnchanged ==
    ASSUME Inv, NEW t \in Threads, pc[t] \notin AddingLocations, pc'[t] \notin AddingLocations,
           \A u \in Threads \ {t} : pc'[u] = pc[u] /\ arg'[u] = arg[u],
           UNCHANGED <<transactions, by_nonce, by_gas_price>>,
           TypeOK', LockDiscipline'
    PROVE  Inv'
PROOF
<1>1. \A tx \in Txs : Adding(tx)' <=> Adding(tx)
    BY AddingUnchanged
<1>2. AddingArePooled' /\ PooledAreListed'
    BY <1>1 DEF Inv, TypeOK, AddingArePooled, PooledAreListed, Listed
<1>3. ListedArePooled' /\ NonceIndexAgrees' /\ WithinCapacity'
    BY DEF Inv, ListedArePooled, NonceIndexAgrees, WithinCapacity
<1> QED
    BY <1>2, <1>3 DEF Inv

\* A new call takes no lock and touches no map.
LEMMA CallInv ==
    ASSUME Inv, NEW t \in Threads, Call(t)
    PROVE  Inv'
PROOF
<1> DEFINE CallTo(location, args) ==
          /\ pc[t] = "idle"
          /\ pc' = [pc EXCEPT ![t] = location]
          /\ arg' = [arg EXCEPT ![t] = args]
          /\ location = "add_transactions" => args \in [tx : Txs]
          /\ location = "get_by_gas" => args \in [limit : Limits, min : Prices]
          /\ location = "rm_transactions" => args \in [hashes : SUBSET Txs]
          /\ UNCHANGED <<transactions, by_nonce, by_gas_price, writer, readers>>
<1>a. \E location \in {"add_transactions", "get_by_gas", "rm_transactions"} : \E args : CallTo(location, args)
    BY DEF Call, AddCall, GetCall, RemoveCall, Goto
<1>b. PICK location \in {"add_transactions", "get_by_gas", "rm_transactions"} : \E args : CallTo(location, args)
    BY <1>a
<1>c. PICK args : CallTo(location, args)
    BY <1>b
<1>1. /\ location \in {"add_transactions", "get_by_gas", "rm_transactions"}
      /\ CallTo(location, args)
    BY <1>b, <1>c
<1>2. TypeOK'
    BY <1>1 DEF Inv, TypeOK, ArgOK, Locations, AddLocations, GetLocations, RemoveLocations, Locks
<1>3. LockDiscipline'
    BY <1>1 DEF Inv, TypeOK, LockDiscipline
<1>4. /\ pc[t] \notin AddingLocations /\ pc'[t] \notin AddingLocations
      /\ \A u \in Threads \ {t} : pc'[u] = pc[u] /\ arg'[u] = arg[u]
    BY <1>1 DEF Inv, TypeOK, AddingLocations
<1> QED
    BY <1>1, <1>2, <1>3, <1>4, MapsUnchanged

\* Returning frees what the thread held and nothing else, so the lock
\* discipline is kept whatever the function did to the maps.
LEMMA ReturnLocks ==
    ASSUME TypeOK, LockDiscipline, NEW t \in Threads, Return(t)
    PROVE  /\ LockDiscipline'
           /\ writer' \in [Locks -> Threads \cup {None}]
           /\ readers' \in [Locks -> SUBSET Threads]
           /\ pc' \in [Threads -> Locations]
           /\ DOMAIN arg' = Threads
           /\ \A u \in Threads : ArgOK(u)'
           /\ \A u \in Threads \ {t} : pc'[u] = pc[u] /\ arg'[u] = arg[u]
PROOF
<1>1. pc'[t] = "idle" /\ \A u \in Threads \ {t} : pc'[u] = pc[u] /\ arg'[u] = arg[u]
    BY DEF TypeOK, Return, Goto
<1>2. /\ writer' \in [Locks -> Threads \cup {None}]
      /\ readers' \in [Locks -> SUBSET Threads]
      /\ pc' \in [Threads -> Locations]
      /\ DOMAIN arg' = Threads
    BY DEF TypeOK, Return, Goto, Locations
<1>3. \A u \in Threads : ArgOK(u)'
    BY <1>1 DEF TypeOK, ArgOK, AddLocations, GetLocations, RemoveLocations
<1>4. LockDiscipline'
    BY <1>1, ThreadsAssumption DEF TypeOK, LockDiscipline, Return, Goto, Locks
<1> QED
    BY <1>1, <1>2, <1>3, <1>4

LEMMA AddInv ==
    ASSUME Inv, NEW t \in Threads,
           AddFull(t) \/ AddInsert(t) \/ AddByNonce(t) \/ AddByGas(t)
    PROVE  Inv'
PROOF
<1> USE DEF Inv
<1>0. ASSUME pc[t] \in AddLocations
      PROVE  arg[t].tx \in Txs /\ KeyOf[arg[t].tx] \in Keys
                 /\ PriceOf[arg[t].tx] \in Prices
    BY <1>0, KeyOfAssumption DEF TypeOK, ArgOK, Prices
<1>1. CASE AddFull(t)
    <2>1. TypeOK' /\ LockDiscipline'
        BY <1>1, ReturnLocks DEF AddFull, TypeOK
    <2>2. /\ pc[t] \notin AddingLocations /\ pc'[t] \notin AddingLocations
          /\ \A u \in Threads \ {t} : pc'[u] = pc[u] /\ arg'[u] = arg[u]
        BY <1>1, ReturnLocks DEF AddFull, Return, Goto, TypeOK, AddingLocations
    <2> QED
        BY <1>1, <2>1, <2>2, MapsUnchanged DEF AddFull
<1>2. CASE AddInsert(t)
    <2>0. /\ arg[t].tx \in Txs
          /\ pc[t] = "add_transactions" /\ pc'[t] = "add_by_nonce" /\ arg' = arg
          /\ \A u \in Threads \ {t} : pc'[u] = pc[u]
          /\ transactions' = transactions \cup {arg[t].tx}
          /\ UNCHANGED <<by_nonce, by_gas_price>>
        BY <1>0, <1>2 DEF AddInsert, Goto, TypeOK, AddLocations
    <2>1. TypeOK'
        BY <1>0, <1>2 DEF AddInsert, Goto, TypeOK, ArgOK, Locations, AddLocations, GetLocations, RemoveLocations, Locks
    <2>2. LockDiscipline'
        BY <1>2, ThreadsAssumption DEF AddInsert, CanWrite, Goto, TypeOK, Locks, LockDiscipline
    <2>3. AddingArePooled'
        BY <2>0 DEF AddingArePooled, Adding, AddingLocations
    <2>4. PooledAreListed'
        <3> SUFFICES ASSUME NEW tx \in transactions' PROVE (Listed(tx) \/ Adding(tx))'
            BY DEF PooledAreListed
        <3>1. CASE tx \in transactions /\ Listed(tx)
            BY <2>0, <3>1 DEF Listed
        <3>2. CASE tx \in transactions /\ Adding(tx)
            BY <2>0, <3>2 DEF Adding, AddingLocations
        <3>3. CASE tx = arg[t].tx
            BY <2>0, <3>3 DEF Adding, AddingLocations
        <3> QED
            BY <2>0, <3>1, <3>2, <3>3 DEF PooledAreListed
    <2>5. ListedArePooled' /\ NonceIndexAgrees'
        BY <2>0 DEF ListedArePooled, NonceIndexAgrees
    <2>6. WithinCapacity'
        <3>1. IsFiniteSet(transactions)
            BY TxsAssumption, FS_Subset DEF TypeOK
        <3>2. Cardinality(transactions) \in Nat /\ Cardinality(transactions) < MaxSize
            BY <1>2, <3>1, FS_CardinalityType, MaxSizeAssumption DEF AddInsert, PoolFull
        <3>3. Cardinality(transactions') <= Cardinality(transactions) + 1
            <4>1. Cardinality(transactions \cup {arg[t].tx}) =
                      IF arg[t].tx \in transactions THEN Cardinality(transactions)
                                                    ELSE Cardinality(transactions) + 1
                BY <3>1, FS_AddElement
            <4> QED
                BY <2>0, <3>2, <4>1
        <3>4. IsFiniteSet(transactions') /\ Cardinality(transactions') \in Nat
            BY <2>0, <3>1, FS_AddElement, FS_CardinalityType
        <3> QED
            BY <3>2, <3>3, <3>4, MaxSizeAssumption DEF WithinCapacity
    <2> QED
        BY <2>1, <2>2, <2>3, <2>4, <2>5, <2>6
<1>3. CASE AddByNonce(t)
    <2>0. /\ arg[t].tx \in Txs /\ KeyOf[arg[t].tx] \in Keys
          /\ pc[t] = "add_by_nonce" /\ pc'[t] = "add_by_gas" /\ arg' = arg
          /\ \A u \in Threads \ {t} : pc'[u] = pc[u]
          /\ UNCHANGED <<transactions, by_gas_price>>
        BY <1>0, <1>3 DEF AddByNonce, Goto, TypeOK, AddLocations
    <2>1. TypeOK'
        BY <1>3, <2>0 DEF AddByNonce, Goto, TypeOK, ArgOK, Locations, AddLocations, GetLocations, RemoveLocations, Locks
    <2>2. LockDiscipline'
        BY <1>3, ThreadsAssumption DEF AddByNonce, CanWrite, Goto, TypeOK, Locks, LockDiscipline
    <2>3. \A tx \in Txs : Adding(tx)' <=> Adding(tx)
        BY <2>0 DEF Adding, AddingLocations
    <2>4. AddingArePooled' /\ PooledAreListed' /\ ListedArePooled' /\ WithinCapacity'
        BY <2>0, <2>3 DEF TypeOK, AddingArePooled, PooledAreListed, Listed, ListedArePooled,
                          WithinCapacity
    <2>5. arg[t].tx \in transactions
        BY <2>0 DEF AddingArePooled, Adding, AddingLocations
    <2>6. NonceIndexAgrees'
        BY <1>3, <2>0, <2>5 DEF AddByNonce, TypeOK, NonceIndexAgrees
    <2> QED
        BY <2>1, <2>2, <2>4, <2>6
<1>4. CASE AddByGas(t)
    <2> DEFINE tx0 == arg[t].tx
               price == PriceOf[tx0]
    <2>0. /\ tx0 \in Txs /\ price \in Prices /\ pc[t] = "add_by_gas"
          /\ pc'[t] = "idle" /\ \A u \in Threads \ {t} : pc'[u] = pc[u] /\ arg'[u] = arg[u]
          /\ by_gas_price' = [by_gas_price EXCEPT ![price] = Append(@, tx0)]
          /\ UNCHANGED <<transactions, by_nonce>>
        BY <1>0, <1>4, ReturnLocks DEF AddByGas, Return, Goto, TypeOK, AddLocations
    <2> HIDE DEF tx0, price
    <2>1. TypeOK' /\ LockDiscipline'
        BY <1>4, <2>0, ReturnLocks DEF AddByGas, TypeOK
    <2>2. tx0 \in transactions
        BY <2>0 DEF AddingArePooled, Adding, AddingLocations, tx0
    <2>3. AddingArePooled'
        BY <2>0 DEF AddingArePooled, Adding, AddingLocations
    <2>4. \A p \in Prices : by_gas_price[p] \in Seq(Txs)
        BY DEF TypeOK
    <2>5. PooledAreListed'
        <3> SUFFICES ASSUME NEW tx \in transactions PROVE (Listed(tx) \/ Adding(tx))'
            BY <2>0 DEF PooledAreListed
        <3>0. tx \in Txs /\ PriceOf[tx] \in Prices
            BY DEF TypeOK, Prices
        <3>1. CASE tx = tx0
            <4> DEFINE n == Len(by_gas_price[price]) + 1
            <4>1. PriceOf[tx] = price
                BY <3>1 DEF price
            <4>2. n \in 1..Len(by_gas_price'[price]) /\ by_gas_price'[price][n] = tx0
                BY <2>0, <2>4 DEF TypeOK
            <4> QED
                BY <3>1, <4>1, <4>2 DEF Listed
        <3>2. CASE Listed(tx)
            <4>1. PICK i \in 1..Len(by_gas_price[PriceOf[tx]]) : by_gas_price[PriceOf[tx]][i] = tx
                BY <3>2 DEF Listed
            <4>2. i \in 1..Len(by_gas_price'[PriceOf[tx]]) /\ by_gas_price'[PriceOf[tx]][i] = tx
                BY <2>0, <2>4, <3>0, <4>1 DEF TypeOK
            <4> QED
                BY <4>2 DEF Listed
        <3>3. CASE tx # tx0 /\ Adding(tx)
            <4>1. PICK u \in Threads : pc[u] \in AddingLocations /\ arg[u].tx = tx
                BY <3>3 DEF Adding
            <4>2. u # t
                BY <3>3, <4>1 DEF tx0
            <4> QED
                BY <2>0, <4>1, <4>2 DEF Adding
        <3> QED
            BY <3>1, <3>2, <3>3 DEF PooledAreListed
    <2>6. ListedArePooled'
        BY <2>0, <2>2, <2>4 DEF ListedArePooled, price, TypeOK
    <2>7. NonceIndexAgrees' /\ WithinCapacity'
        BY <2>0 DEF NonceIndexAgrees, WithinCapacity
    <2> QED
        BY <2>1, <2>3, <2>5, <2>6, <2>7
<1> QED
    BY <1>1, <1>2, <1>3, <1>4

LEMMA GetInv ==
    ASSUME Inv, NEW t \in Threads, GetByGas(t) \/ GetSelect(t)
    PROVE  Inv'
PROOF
<1>1. CASE GetByGas(t)
    <2>1. TypeOK'
        BY <1>1 DEF GetByGas, Goto, Inv, TypeOK, ArgOK, Locations, AddLocations, GetLocations, RemoveLocations, Locks
    <2>2. LockDiscipline'
        BY <1>1 DEF GetByGas, Goto, Inv, TypeOK, Locks, LockDiscipline
    <2>3. /\ pc[t] \notin AddingLocations /\ pc'[t] \notin AddingLocations
          /\ \A u \in Threads \ {t} : pc'[u] = pc[u] /\ arg'[u] = arg[u]
        BY <1>1 DEF GetByGas, Goto, Inv, TypeOK, AddingLocations
    <2> QED
        BY <1>1, <2>1, <2>2, <2>3, MapsUnchanged DEF GetByGas
<1>2. CASE GetSelect(t)
    <2>1. TypeOK' /\ LockDiscipline'
        BY <1>2, ReturnLocks DEF GetSelect, Inv, TypeOK
    <2>2. /\ pc[t] \notin AddingLocations /\ pc'[t] \notin AddingLocations
          /\ \A u \in Threads \ {t} : pc'[u] = pc[u] /\ arg'[u] = arg[u]
        BY <1>2, ReturnLocks DEF GetSelect, Return, Goto, Inv, TypeOK, AddingLocations
    <2> QED
        BY <1>2, <2>1, <2>2, MapsUnchanged DEF GetSelect
<1> QED
    BY <1>1, <1>2

LEMMA RemoveLockInv ==
    ASSUME Inv, NEW t \in Threads, RemoveLockTransactions(t) \/ RemoveLockByNonce(t)
    PROVE  Inv'
PROOF
<1> USE DEF RemoveLockTransactions, RemoveLockByNonce, Goto
<1>1. TypeOK'
    <2>1. CASE RemoveLockTransactions(t)
        BY <2>1 DEF Inv, TypeOK, ArgOK, Locations, AddLocations, GetLocations, RemoveLocations, Locks
    <2>2. CASE RemoveLockByNonce(t)
        BY <2>2 DEF Inv, TypeOK, ArgOK, Locations, AddLocations, GetLocations, RemoveLocations, Locks
    <2> QED
        BY <2>1, <2>2
<1>2. LockDiscipline'
    BY ThreadsAssumption DEF CanWrite, Inv, TypeOK, Locks, LockDiscipline
<1>3. /\ pc[t] \notin AddingLocations /\ pc'[t] \notin AddingLocations
      /\ \A u \in Threads \ {t} : pc'[u] = pc[u] /\ arg'[u] = arg[u]
    BY DEF Inv, TypeOK, AddingLocations
<1> QED
    BY <1>1, <1>2, <1>3, MapsUnchanged

\* Only the thread that holds the write lock on transactions removes, so no
\* addition is under way and every pooled transaction is listed.
LEMMA RemoveAllInv ==
    ASSUME Inv, NEW t \in Threads, RemoveAll(t)
    PROVE  Inv'
PROOF
<1> USE DEF Inv
<1>0. /\ pc[t] = "rm_by_gas" /\ pc'[t] = "idle"
      /\ \A u \in Threads \ {t} : pc'[u] = pc[u] /\ arg'[u] = arg[u]
      /\ transactions' = transactions \ Gone(t)
      /\ by_gas_price' = [p \in Prices |-> Retain(by_gas_price[p], Gone(t))]
    BY ReturnLocks DEF RemoveAll, Return, Goto, TypeOK
<1>1. \A u \in Threads : pc[u] \notin AddingLocations
    BY <1>0, ThreadsAssumption DEF LockDiscipline, AddingLocations
<1>2. \A tx : ~Adding(tx) /\ ~Adding(tx)'
    BY <1>0, <1>1 DEF Adding, AddingLocations
<1>3. AddingArePooled'
    BY <1>2 DEF AddingArePooled
<1>4. \A p \in Prices :
          /\ by_gas_price[p] \in Seq(Txs)
          /\ by_gas_price'[p] = Retain(by_gas_price[p], Gone(t))
          /\ by_gas_price'[p] \in Seq(Txs)
          /\ \A j \in 1..Len(by_gas_price'[p]) :
                 /\ by_gas_price'[p][j] \notin Gone(t)
                 /\ \E i \in 1..Len(by_gas_price[p]) : by_gas_price[p][i] = by_gas_price'[p][j]
          /\ \A i \in 1..Len(by_gas_price[p]) : by_gas_price[p][i] \notin Gone(t) =>
                 \E j \in 1..Len(by_gas_price'[p]) : by_gas_price'[p][j] = by_gas_price[p][i]
    <2> TAKE p \in Prices
    <2>1. by_gas_price[p] \in Seq(Txs)
        BY DEF TypeOK
    <2>2. by_gas_price'[p] = Retain(by_gas_price[p], Gone(t))
        BY <1>0
    <2> DEFINE old == by_gas_price[p]
               new == Retain(old, Gone(t))
    <2> HIDE DEF old
    <2>3. old \in Seq(Txs)
        BY <2>1 DEF old
    <2>4. /\ new \in Seq(Txs)
          /\ \A j \in 1..Len(new) :
                 new[j] \notin Gone(t) /\ \E i \in 1..Len(old) : old[i] = new[j]
          /\ \A i \in 1..Len(old) : old[i] \notin Gone(t) => \E j \in 1..Len(new) : new[j] = old[i]
        BY <2>3, RetainProperties
    <2> QED
        BY <2>2, <2>3, <2>4 DEF old
<1>5. TypeOK'
    <2>1. transactions' \in SUBSET Txs /\ by_nonce' \in [Keys -> Txs \cup {None}]
        BY DEF RemoveAll, TypeOK
    <2>2. by_gas_price' \in [Prices -> Seq(Txs)]
        BY <1>0, <1>4
    <2> QED
        BY <2>1, <2>2, ReturnLocks DEF RemoveAll, TypeOK
<1>6. LockDiscipline'
    BY ReturnLocks DEF RemoveAll
<1>7. PooledAreListed'
    <2> SUFFICES ASSUME NEW tx \in transactions' PROVE Listed(tx)'
        BY DEF PooledAreListed
    <2>1. tx \in transactions /\ tx \notin Gone(t) /\ PriceOf[tx] \in Prices
        BY <1>0 DEF TypeOK, Prices
    <2>2. PICK i \in 1..Len(by_gas_price[PriceOf[tx]]) : by_gas_price[PriceOf[tx]][i] = tx
        BY <1>2, <2>1 DEF PooledAreListed, Listed
    <2> QED
        BY <1>4, <2>1, <2>2 DEF Listed
<1>8. ListedArePooled'
    <2> SUFFICES ASSUME NEW p \in Prices, NEW j \in 1..Len(by_gas_price'[p])
                 PROVE  by_gas_price'[p][j] \in transactions' /\ PriceOf[by_gas_price'[p][j]] = p
        BY DEF ListedArePooled
    <2>1. PICK i \in 1..Len(by_gas_price[p]) : by_gas_price[p][i] = by_gas_price'[p][j]
        BY <1>4
    <2>2. by_gas_price'[p][j] \notin Gone(t)
        BY <1>4
    <2>3. by_gas_price[p][i] \in transactions /\ PriceOf[by_gas_price[p][i]] = p
        BY DEF ListedArePooled
    <2> QED
        BY <1>0, <2>1, <2>2, <2>3
<1>9. NonceIndexAgrees'
    BY <1>0 DEF RemoveAll, TypeOK, NonceIndexAgrees
<1>10. WithinCapacity'
    <2>1. IsFiniteSet(transactions) /\ Cardinality(transactions) \in Nat
        BY TxsAssumption, FS_Subset, FS_CardinalityType DEF TypeOK
    <2>2. transactions' \in SUBSET transactions
        BY <1>0
    <2>3. Cardinality(transactions') \in Nat /\ Cardinality(transactions') <= Cardinality(transactions)
        BY <2>1, <2>2, FS_Subset, FS_CardinalityType
    <2> QED
        BY <2>1, <2>3, MaxSizeAssumption DEF WithinCapacity
<1> QED
    BY <1>3, <1>5, <1>6, <1>7, <1>8, <1>9, <1>10

LEMMA NextInv == Inv /\ [Next]_vars => Inv'
PROOF
<1> SUFFICES ASSUME Inv, [Next]_vars PROVE Inv'
    OBVIOUS
<1>1. CASE UNCHANGED vars
    BY <1>1 DEF vars, Inv, TypeOK, ArgOK, LockDiscipline, AddingArePooled, PooledAreListed,
                Listed, Adding, ListedArePooled, NonceIndexAgrees, WithinCapacity
<1>2. ASSUME NEW t \in Threads, Call(t) PROVE Inv'
    BY <1>2, CallInv
<1>3. ASSUME NEW t \in Threads, Step(t) PROVE Inv'
    BY <1>3, AddInv, GetInv, RemoveLockInv, RemoveAllInv DEF Step
<1> QED
    BY <1>1, <1>2, <1>3 DEF Next

THEOREM InvHolds == Spec => []Inv
PROOF
    BY InitInv, NextInv, PTL DEF Spec

-----------------------------------------------------------------------------
(* The theorems.                                                           *)

\* Type correctness of the pool, whatever calls its threads interleave.
THEOREM TypeCorrect == Spec => []TypeOK
PROOF
    BY InvHolds, PTL DEF Inv

\* The three maps agree whenever no thread is between two of its locks, for
\* any interleaving of add_transaction, get_transactions and
\* remove_transactions by any number of threads.
THEOREM IndexesAlwaysAgree == Spec => []IndexesAgree
PROOF
<1>1. Inv => IndexesAgree
    <2> SUFFICES ASSUME Inv, writer["transactions"] = None
                 PROVE  GasIndexAgrees /\ NonceIndexAgrees
        BY DEF IndexesAgree
    <2>1. \A t \in Threads : pc[t] \notin AddingLocations
        BY ThreadsAssumption DEF Inv, LockDiscipline, AddingLocations
    <2>2. \A tx \in transactions : Listed(tx)
        BY <2>1 DEF Inv, PooledAreListed, Adding
    <2> QED
        BY <2>2 DEF Inv, ListedArePooled, Listed, GasIndexAgrees
<1> QED
    BY <1>1, InvHolds, PTL

\* The pool never exceeds max_size: the check and the insertion of
\* add_transaction happen under one write guard.
THEOREM CapacityRespected == Spec => []WithinCapacity
PROOF
    BY InvHolds, PTL DEF Inv

\* The two orders in which the code takes its locks are the only way its
\* calls can block each other for good.
THEOREM OnlyInversionBlocks == Spec => []StuckOnlyByInversion
PROOF
<1>1. Inv => StuckOnlyByInversion
    <2> SUFFICES ASSUME Inv, NEW t \in Threads, pc[t] # "idle", \A u \in Threads : ~CanStep(u)
                 PROVE  LockInversion
        BY DEF StuckOnlyByInversion
    <2> USE DEF Inv
    <2>1. PICK u \in Threads : writer["transactions"] = u
        <3> SUFFICES ASSUME writer["transactions"] = None PROVE FALSE
            BY DEF TypeOK, Locks
        <3>1. CanWrite("transactions") /\ CanRead("transactions") /\ CanRead("by_gas_price")
            BY DEF LockDiscipline, CanWrite, CanRead
        <3>2. pc[t] \in {"add_transactions", "rm_transactions", "get_by_gas", "get_transactions"}
            BY ThreadsAssumption DEF TypeOK, LockDiscipline, Locations, AddLocations,
                   GetLocations, RemoveLocations
        <3> QED
            BY <3>1, <3>2 DEF CanStep
    <2>2. pc[u] \notin {"add_by_nonce", "rm_by_nonce"}
        <3> SUFFICES ASSUME pc[u] \in {"add_by_nonce", "rm_by_nonce"} PROVE FALSE
            OBVIOUS
        <3>1. \A v \in Threads : writer["by_nonce"] = v => v = u
            BY <2>1 DEF LockDiscipline
        <3>2. writer["by_nonce"] = None
            BY <3>1 DEF TypeOK, LockDiscipline, Locks
        <3>3. CanStep(u)
            BY <3>2 DEF LockDiscipline, CanWrite, CanStep
        <3> QED
            BY <3>3
    <2>3. pc[u] \in {"add_by_gas", "rm_by_gas"}
        BY <2>1, <2>2 DEF LockDiscipline
    <2>4. ~CanWrite("by_gas_price")
        BY <2>3 DEF CanStep
    <2>5. PICK v \in Threads : v \in readers["by_gas_price"] /\ pc[v] = "get_transactions"
        BY <2>4 DEF CanWrite, LockDiscipline
    <2> QED
        BY <2>1, <2>3, <2>5 DEF LockInversion
<1> QED
    BY <1>1, InvHolds, PTL

\* get_transactions returns pooled transactions of its minimum price or more,
\* and leaves one out only for lack of room and only if everything it
\* returns pays at least as much, whatever the other threads do.
THEOREM AlwaysReturnsTop == Spec => []GetReturnsTop
PROOF
<1>1. Inv => GetReturnsTop
    <2> SUFFICES ASSUME Inv, NEW t \in Threads, pc[t] = "get_transactions", CanRead("transactions"),
                        NEW got, got = ToSet(Result(t))
                 PROVE  /\ \A tx \in got : tx \in transactions /\ PriceOf[tx] >= arg[t].min
                        /\ \A tx \in transactions \ got : PriceOf[tx] >= arg[t].min =>
                               /\ Len(Result(t)) >= arg[t].limit
                               /\ \A best \in got : PriceOf[best] >= PriceOf[tx]
        BY DEF GetReturnsTop
    <2> DEFINE lists == by_gas_price
               min == arg[t].min
               found == Found(lists, transactions, min)
               selected == Result(t)
    <2>1. lists \in [Prices -> Seq(Txs)] /\ arg[t].limit \in Nat /\ min \in Prices
        BY LimitsAssumption DEF Inv, TypeOK, ArgOK, GetLocations
    <2>2. \A tx \in transactions : Listed(tx) /\ PriceOf[tx] \in Prices
        BY ThreadsAssumption DEF Inv, CanRead, TypeOK, PooledAreListed, Adding, AddingLocations, LockDiscipline, Prices
    <2>3. \A e : e \in found <=> \E p \in Prices : \E i \in 1..Len(lists[p]) :
              e = <<p, i>> /\ p >= min /\ lists[p][i] \in transactions
        BY <2>1, FoundEntries
    <2>4. \A e \in found : /\ lists[e[1]][e[2]] \in transactions
                           /\ PriceOf[lists[e[1]][e[2]]] = e[1] /\ e[1] >= min
        BY <2>3 DEF Inv, ListedArePooled
    <2>5. FirstOf(found, lists, arg[t].limit, selected)
        BY <2>1, SelectedEntries DEF Result
    <2>6. /\ Cardinality(found) \in Nat
          /\ \A e \in found : Count(found, e) \in 1..Cardinality(found)
          /\ \A e, f \in found : Count(found, e) <= Count(found, f) => e[1] >= f[1]
        BY <2>1, CountBijective
    <2>7. \A tx : tx \in got <=> \E n \in DOMAIN selected : selected[n] = tx
        BY DEF ToSet
    <2> HIDE DEF found, selected
    <2>8. \A tx \in got : \E e \in found :
              /\ Count(found, e) \in DOMAIN selected
              /\ tx = lists[e[1]][e[2]]
        BY <2>5, <2>7 DEF FirstOf
    <2>9. \A tx \in got : tx \in transactions /\ PriceOf[tx] >= min
        BY <2>4, <2>8
    <2>10. ASSUME NEW tx \in transactions \ got, PriceOf[tx] >= min
           PROVE  /\ Len(selected) >= arg[t].limit
                  /\ \A best \in got : PriceOf[best] >= PriceOf[tx]
        <3>1. PICK i \in 1..Len(lists[PriceOf[tx]]) : lists[PriceOf[tx]][i] = tx
            BY <2>2 DEF Listed
        <3> DEFINE e == <<PriceOf[tx], i>>
        <3>2. e \in found /\ lists[e[1]][e[2]] = tx /\ e[1] = PriceOf[tx]
            BY <2>2, <2>3, <2>10, <3>1
        <3> HIDE DEF e
        <3>3. Count(found, e) \notin DOMAIN selected
            BY <2>5, <2>7, <3>2 DEF FirstOf
        <3>4. Count(found, e) > Len(selected) /\ Len(selected) < Cardinality(found)
            BY <2>5, <2>6, <3>2, <3>3 DEF FirstOf
        <3>5. ASSUME NEW best \in got PROVE PriceOf[best] >= PriceOf[tx]
            <4>1. PICK f \in found : Count(found, f) \in DOMAIN selected /\ best = lists[f[1]][f[2]]
                BY <2>8
            <4>2. Count(found, f) <= Count(found, e)
                BY <2>5, <2>6, <3>2, <3>4, <4>1 DEF FirstOf
            <4>3. f[1] >= e[1]
                BY <2>6, <3>2, <4>2
            <4> QED
                BY <2>4, <3>2, <4>1, <4>3
        <3> QED
            BY <2>5, <2>6, <3>4, <3>5 DEF FirstOf
    <2> QED
        BY <2>9, <2>10 DEF selected
<1> QED
    BY <1>1, InvHolds, PTL
=============================================================================
