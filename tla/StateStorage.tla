---------------------------- MODULE StateStorage ----------------------------
(***************************************************************************)
(* The state storage manager (src/src/storage/mod.rs, StateStorage): a     *)
(* database, an LRU cache of accounts and a list of pending changes, each  *)
(* behind a lock of its own that is held for one statement only.           *)
(*                                                                         *)
(* get_account and put_account take several such statements; each is an    *)
(* action, so that other threads run in between.  commit holds the lock of *)
(* the pending changes to its end and is one action.  Blocks,              *)
(* transactions, code and slots share one shape (push on write, database   *)
(* on read) and are the keys of Records.                                   *)
(***************************************************************************)
EXTENDS Integers, Sequences, FiniteSets

CONSTANTS
    Threads,      \* callers
    Accounts,     \* account keys
    Records,      \* block, transaction, code and slot keys
    Values,       \* stored values
    CacheSize,    \* cache_size
    BatchMayFail, \* batch_write can fail: RocksDB can, MemoryDB cannot
    PendingBound, \* bound: no put while this many changes are pending
    NoValue       \* None

ASSUME DistinctKeys == Accounts \cap Records = {}
ASSUME NoValueAssumption == NoValue \notin Values \cup Accounts
ASSUME BatchMayFailAssumption == BatchMayFail \in BOOLEAN
ASSUME CacheSizeAssumption == CacheSize \in Nat \ {0}

Keys == Accounts \cup Records

VARIABLES
    db,      \* Keys -> value or NoValue: what survives a crash
    cache,   \* Accounts -> value or NoValue
    pending, \* sequence of [key, value]
    pc,      \* Threads -> next statement of the call under way, or "idle"
    arg,     \* Threads -> its account and value
    suspect  \* history: accounts touched by one of the hazards named below

storageVars == <<db, cache, pending, pc, arg, suspect>>

NoArg == [key |-> NoValue, value |-> NoValue]

StorageInit ==
    /\ db = [k \in Keys |-> NoValue]
    /\ cache = [a \in Accounts |-> NoValue]
    /\ pending = <<>>
    /\ pc = [t \in Threads |-> "idle"]
    /\ arg = [t \in Threads |-> NoArg]
    /\ suspect = {}

-----------------------------------------------------------------------------
Begin(t, location, key, value) ==
    /\ pc' = [pc EXCEPT ![t] = location]
    /\ arg' = [arg EXCEPT ![t] = [key |-> key, value |-> value]]

End(t) == Begin(t, "idle", NoValue, NoValue)

\* Another call is between two statements on account a.
Overlaps(t, a) == \E u \in Threads \ {t} : pc[u] # "idle" /\ arg[u].key = a

\* The pending changes of a key, and the last of them.
Changed(k) == {i \in 1..Len(pending) : pending[i].key = k}
Newest(k) == {i \in Changed(k) : \A j \in Changed(k) : j <= i}

\* What the batch writes: later changes of a key override earlier ones.
Latest(k) == IF Changed(k) = {} THEN db[k] ELSE pending[CHOOSE i \in Newest(k) : TRUE].value

Cached == {a \in Accounts : cache[a] # NoValue}

\* LruCache::put: a new key in a full cache evicts one entry.  The model
\* lets it be any of them.  gone is the set of evicted accounts.
CachePut(a, v, gone) ==
    /\ gone \subseteq Cached \ {a}
    /\ Cardinality(gone) = IF a \notin Cached /\ Cardinality(Cached) = CacheSize THEN 1 ELSE 0
    /\ cache' = [b \in Accounts |-> CASE b = a -> v [] b \in gone -> NoValue [] OTHER -> cache[b]]

-----------------------------------------------------------------------------
(* put_account: the cache first, then the pending changes.                 *)

\* Fault: put_account leaves the cache alone.
PutSkipsCache(t, a, v) ==
    /\ pc[t] = "idle"
    /\ Len(pending) < PendingBound
    /\ Begin(t, "push", a, v)
    /\ UNCHANGED <<db, cache, pending, suspect>>

PutCache(t, a, v) ==
    /\ pc[t] = "idle"
    /\ Len(pending) < PendingBound
    /\ \E gone \in SUBSET Accounts :
           /\ CachePut(a, v, gone)
           /\ suspect' = suspect \cup {b \in gone : Changed(b) # {} \/ Overlaps(t, b)}
                                 \cup (IF Overlaps(t, a) THEN {a} ELSE {})
    /\ Begin(t, "push", a, v)
    /\ UNCHANGED <<db, pending>>

\* An undisturbed put makes its account trustworthy again.
PutPush(t) ==
    /\ pc[t] = "push"
    /\ pending' = Append(pending, [key |-> arg[t].key, value |-> arg[t].value])
    /\ suspect' = IF Overlaps(t, arg[t].key) \/ cache[arg[t].key] # arg[t].value
                  THEN suspect ELSE suspect \ {arg[t].key}
    /\ End(t)
    /\ UNCHANGED <<db, cache>>

\* put_block, put_transaction, put_contract_code, put_storage.
PutRecord(t, r, v) ==
    /\ pc[t] = "idle"
    /\ Len(pending) < PendingBound
    /\ pending' = Append(pending, [key |-> r, value |-> v])
    /\ UNCHANGED <<db, cache, pc, arg, suspect>>

-----------------------------------------------------------------------------
(* get_account: cache, database, cache.  A hit returns at once and changes *)
(* nothing the model keeps.                                                *)

GetMiss(t, a) ==
    /\ pc[t] = "idle"
    /\ cache[a] = NoValue
    /\ Begin(t, "load", a, NoValue)
    /\ UNCHANGED <<db, cache, pending, suspect>>

GetLoadNothing(t) ==
    /\ pc[t] = "load"
    /\ db[arg[t].key] = NoValue
    /\ End(t)
    /\ UNCHANGED <<db, cache, pending, suspect>>

GetLoad(t) ==
    /\ pc[t] = "load"
    /\ db[arg[t].key] # NoValue
    /\ Begin(t, "fill", arg[t].key, db[arg[t].key])
    /\ UNCHANGED <<db, cache, pending, suspect>>

\* The value read earlier goes into the cache whatever happened since.
GetFill(t) ==
    /\ pc[t] = "fill"
    /\ \E gone \in SUBSET Accounts :
           /\ CachePut(arg[t].key, arg[t].value, gone)
           /\ suspect' = suspect \cup {b \in gone : Changed(b) # {} \/ Overlaps(t, b)}
    /\ End(t)
    /\ UNCHANGED <<db, pending>>

-----------------------------------------------------------------------------
Dropped == {a \in Accounts : Changed(a) # {}}

\* commit: mem::take and batch_write under the lock of the pending changes.
Commit ==
    /\ pending # <<>>
    /\ db' = [k \in Keys |-> Latest(k)]
    /\ pending' = <<>>
    /\ UNCHANGED <<cache, pc, arg, suspect>>

\* batch_write fails: the batch was taken out of the pending changes already.
CommitFails ==
    /\ BatchMayFail
    /\ pending # <<>>
    /\ pending' = <<>>
    /\ suspect' = suspect \cup Dropped
    /\ UNCHANGED <<db, cache, pc, arg>>

\* rollback clears the pending changes; the cache is left as it is.
Rollback ==
    /\ pending' = <<>>
    /\ suspect' = suspect \cup Dropped
    /\ UNCHANGED <<db, cache, pc, arg>>

\* The process stops and starts again on the same database.
Restart ==
    /\ cache' = [a \in Accounts |-> NoValue]
    /\ pending' = <<>>
    /\ pc' = [t \in Threads |-> "idle"]
    /\ arg' = [t \in Threads |-> NoArg]
    /\ suspect' = {}
    /\ UNCHANGED db

-----------------------------------------------------------------------------
ThreadStep(t) ==
    \/ \E a \in Accounts, v \in Values : PutCache(t, a, v)
    \/ PutPush(t)
    \/ \E r \in Records, v \in Values : PutRecord(t, r, v)
    \/ \E a \in Accounts : GetMiss(t, a)
    \/ GetLoadNothing(t) \/ GetLoad(t) \/ GetFill(t)

StorageNext ==
    \/ \E t \in Threads : ThreadStep(t)
    \/ Commit \/ CommitFails \/ Rollback \/ Restart

StorageSpec == StorageInit /\ [][StorageNext]_storageVars

-----------------------------------------------------------------------------
(* Properties                                                              *)

Changes == [key : Keys, value : Values]

\* get_account never serves an outdated account from the cache: a cached
\* value is the last one put, or the committed one if none is pending.  The
\* exceptions are the accounts in suspect, where since the last undisturbed
\* put_account
\*   - rollback or a failed commit dropped a pending value,
\*   - two calls on the account overlapped, one of them a put_account, or
\*   - the cache evicted the account before its change was committed;
\* and accounts whose put_account is between its two statements.
CacheFresh ==
    \A a \in Accounts \ suspect :
        (\A t \in Threads : ~(pc[t] = "push" /\ arg[t].key = a))
            => cache[a] \in {NoValue, Latest(a)}

\* "Rollback pending changes": once rollback has returned, get_account
\* answers from the committed state again.
RollbackRestoresReads ==
    [][Rollback => \A a \in Accounts : cache'[a] \in {NoValue, db[a]}]_storageVars
=============================================================================
