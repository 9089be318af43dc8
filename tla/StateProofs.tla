----------------------------- MODULE StateProofs -----------------------------
(***************************************************************************)
(* Proofs about the storage manager (StateStorage) and the VM's state      *)
(* (Executor), for any number of threads, accounts, transactions and       *)
(* blocks.                                                                 *)
(***************************************************************************)
EXTENDS StateStorage, Executor, DataTheorems, FiniteSetTheorems, TLAPS

-----------------------------------------------------------------------------
(* The storage manager                                                     *)

\* The accounts nothing has disturbed, and the calls under way on an account.
Settled == Accounts \ suspect
Pushing(t, a) == pc[t] = "push" /\ arg[t].key = a
Reading(t, a) == pc[t] \in {"load", "fill"} /\ arg[t].key = a

\* The calls under way, the account and the value of each, and the pending
\* changes are of their types.
StorageTypes ==
    /\ pc \in [Threads -> {"idle", "push", "load", "fill"}]
    /\ arg = [t \in Threads |-> arg[t]]
    /\ \A t \in Threads : pc[t] # "idle" => arg[t].key \in Accounts
    /\ \A t \in Threads : pc[t] = "push" => arg[t].value \in Values
    /\ pending \in Seq(Changes)

\* The inductive invariant.  Of an account nothing has disturbed, the cache
\* holds what a put_account is about to push,
PutsAreCached ==
    \A a \in Settled, t \in Threads : Pushing(t, a) => cache[a] = arg[t].value

\* a get_account that missed the cache reads the committed value while no
\* change is pending,
ReadsAreCurrent ==
    \A a \in Settled, t \in Threads : Reading(t, a) =>
        /\ Changed(a) = {}
        /\ \A u \in Threads : ~Pushing(u, a)
        /\ pc[t] = "fill" => arg[t].value = db[a]

\* and an account with a pending change is in the cache.
ChangesAreCached ==
    \A a \in Settled : Changed(a) # {} => cache[a] # NoValue

StorageInv ==
    StorageTypes /\ PutsAreCached /\ ReadsAreCurrent /\ ChangesAreCached /\ CacheFresh

-----------------------------------------------------------------------------
\* A push is the newest change of its key and leaves the changes of the
\* other keys, and what the batch writes for them, as they were.
LEMMA PushChanges ==
    ASSUME pending \in Seq(Changes), NEW key, NEW value,
           pending' = Append(pending, [key |-> key, value |-> value]), db' = db
    PROVE  /\ Changed(key)' # {} /\ Latest(key)' = value
           /\ \A k : k # key => Changed(k)' = Changed(k) /\ Latest(k)' = Latest(k)
PROOF
<1> DEFINE n == Len(pending)
           p == [key |-> key, value |-> value]
<1>1. n \in Nat /\ Len(pending') = n + 1 /\ pending'[n + 1] = p
    OBVIOUS
<1>2. \A i \in 1..n : pending'[i] = pending[i]
    OBVIOUS
<1>3. Changed(key)' # {} /\ Latest(key)' = value
    <2>1. n + 1 \in Changed(key)'
        BY <1>1 DEF Changed
    <2>2. Changed(key)' \subseteq 1..(n + 1)
        BY <1>1 DEF Changed
    <2>3. Newest(key)' = {n + 1}
        BY <1>1, <2>1, <2>2 DEF Newest
    <2>4. (CHOOSE i \in Newest(key)' : TRUE) = n + 1
        BY <2>3
    <2>5. Changed(key)' # {} /\ Latest(key)' = pending'[n + 1].value
        BY <2>1, <2>4 DEF Latest
    <2> QED
        BY <1>1, <2>5
<1>4. ASSUME NEW k, k # key
      PROVE  Changed(k)' = Changed(k) /\ Latest(k)' = Latest(k)
    <2>1. p.key # k
        BY <1>4
    <2>2. Changed(k)' = Changed(k)
        BY <1>1, <1>2, <2>1 DEF Changed
    <2>3. Newest(k)' = Newest(k)
        BY <2>2 DEF Newest
    <2>4. CASE Changed(k) = {}
        BY <2>2, <2>4 DEF Latest
    <2>5. CASE Changed(k) # {} /\ Newest(k) # {}
        <3>1. (CHOOSE i \in Newest(k) : TRUE) \in 1..n
            BY <2>5 DEF Newest, Changed
        <3> QED
            BY <1>2, <2>2, <2>3, <2>5, <3>1 DEF Latest
    <2>6. ASSUME Changed(k) # {} PROVE Newest(k) # {}
        <3>1. IsFiniteSet(1..n)
            BY <1>1, FS_Interval
        <3>2. Changed(k) \subseteq 1..n
            BY DEF Changed
        <3>3. IsFiniteSet(Changed(k))
            BY <3>1, <3>2, FS_Subset
        <3>4. Changed(k) \subseteq Nat
            BY <1>1, <3>2
        <3> QED
            BY <2>6, <3>3, <3>4, GreatestExists DEF Newest
    <2> QED
        BY <2>2, <2>4, <2>5, <2>6
<1> QED
    BY <1>3, <1>4

\* Changes and the values written for them depend on the database and the
\* pending changes only.
LEMMA ChangesKept ==
    ASSUME UNCHANGED <<db, pending>>
    PROVE  \A k : Changed(k)' = Changed(k) /\ Latest(k)' = Latest(k)
PROOF
    BY DEF Changed, Latest, Newest

\* With nothing pending the database holds what was written.
LEMMA NothingPending ==
    ASSUME pending' = <<>>
    PROVE  \A k : Changed(k)' = {} /\ Latest(k)' = db'[k]
PROOF
    BY DEF Changed, Latest

\* It holds in the empty storage.
LEMMA StorageInitInv == StorageInit => StorageInv
PROOF
    BY DEF StorageInit, StorageInv, StorageTypes, PutsAreCached, ReadsAreCurrent,
           ChangesAreCached, CacheFresh, Pushing, Reading, Changed, NoArg, Settled, Changes

\* A step that starts or ends a call of thread t.
LEMMA CallTypes ==
    ASSUME StorageTypes, NEW t \in Threads, NEW location \in {"idle", "push", "load", "fill"},
           NEW key, NEW value, Begin(t, location, key, value),
           location # "idle" => key \in Accounts, location = "push" => value \in Values
    PROVE  /\ pc' \in [Threads -> {"idle", "push", "load", "fill"}]
           /\ arg' = [u \in Threads |-> arg'[u]]
           /\ \A u \in Threads : pc'[u] # "idle" => arg'[u].key \in Accounts
           /\ \A u \in Threads : pc'[u] = "push" => arg'[u].value \in Values
           /\ pc'[t] = location /\ arg'[t].key = key /\ arg'[t].value = value
           /\ \A u \in Threads \ {t} : pc'[u] = pc[u] /\ arg'[u] = arg[u]
PROOF
    BY DEF StorageTypes, Begin

\* Putting a value into the cache.
LEMMA CachePutFacts ==
    ASSUME NEW a \in Accounts, NEW v, NEW gone, CachePut(a, v, gone)
    PROVE  /\ gone \subseteq Accounts \ {a}
           /\ cache'[a] = v
           /\ \A b \in gone : cache'[b] = NoValue
           /\ \A b \in Accounts \ {a} : b \notin gone => cache'[b] = cache[b]
PROOF
    BY DEF CachePut, Cached

\* put_account writes the cache: the account is pushed next, an evicted one
\* has nothing pending or becomes suspect.
LEMMA PutCacheInv ==
    ASSUME StorageInv, NEW t \in Threads, NEW a \in Accounts, NEW v \in Values, PutCache(t, a, v)
    PROVE  StorageInv'
PROOF
<1>1. PICK gone \in SUBSET Accounts :
          /\ CachePut(a, v, gone)
          /\ suspect' = suspect \cup {b \in gone : Changed(b) # {} \/ Overlaps(t, b)}
                                \cup (IF Overlaps(t, a) THEN {a} ELSE {})
    BY DEF PutCache
<1>2. Begin(t, "push", a, v) /\ pc[t] = "idle" /\ UNCHANGED <<db, pending>>
    BY DEF PutCache
<1>3. \A k : Changed(k)' = Changed(k) /\ Latest(k)' = Latest(k)
    BY <1>2, ChangesKept
<1>4. /\ gone \subseteq Accounts \ {a} /\ cache'[a] = v
      /\ \A b \in gone : cache'[b] = NoValue
      /\ \A b \in Accounts \ {a} : b \notin gone => cache'[b] = cache[b]
    BY <1>1, CachePutFacts
<1>5. /\ pc' \in [Threads -> {"idle", "push", "load", "fill"}]
      /\ arg' = [u \in Threads |-> arg'[u]]
      /\ \A u \in Threads : pc'[u] # "idle" => arg'[u].key \in Accounts
      /\ \A u \in Threads : pc'[u] = "push" => arg'[u].value \in Values
      /\ pc'[t] = "push" /\ arg'[t].key = a /\ arg'[t].value = v
      /\ \A u \in Threads \ {t} : pc'[u] = pc[u] /\ arg'[u] = arg[u]
    BY <1>2, CallTypes DEF StorageInv
<1>6. StorageTypes'
    BY <1>2, <1>5 DEF StorageInv, StorageTypes
\* Of an account that is still settled no other call is under way if it is
\* a or was evicted, and no change is pending if it was evicted.
<1>7. /\ Settled' \subseteq Settled
      /\ \A b \in Settled' : b \in gone =>
            Changed(b) = {} /\ \A u \in Threads \ {t} : pc[u] = "idle" \/ arg[u].key # b
      /\ a \in Settled' => \A u \in Threads \ {t} : pc[u] = "idle" \/ arg[u].key # a
    BY <1>1 DEF Settled, Overlaps
<1>8. PutsAreCached'
    BY <1>4, <1>5, <1>7 DEF StorageInv, PutsAreCached, Pushing, Settled
<1>9. ReadsAreCurrent'
    BY <1>2, <1>3, <1>5, <1>7 DEF StorageInv, ReadsAreCurrent, Reading, Pushing
<1>10. ChangesAreCached'
    BY <1>3, <1>4, <1>7, NoValueAssumption DEF StorageInv, ChangesAreCached, Settled
<1>11. CacheFresh'
    <2>1. \A b \in Accounts : (\A u \in Threads : ~(pc'[u] = "push" /\ arg'[u].key = b))
              => b # a /\ \A u \in Threads : ~(pc[u] = "push" /\ arg[u].key = b)
        BY <1>2, <1>5
    <2> QED
        BY <1>3, <1>4, <1>7, <2>1 DEF StorageInv, CacheFresh, Settled
<1> QED
    BY <1>6, <1>8, <1>9, <1>10, <1>11 DEF StorageInv

\* put_account pushes what it cached; without a call in between the account is
\* settled again.
LEMMA PutPushInv ==
    ASSUME StorageInv, NEW t \in Threads, PutPush(t)
    PROVE  StorageInv'
PROOF
<1>1. PICK a \in Accounts, v \in Values :
          pc[t] = "push" /\ arg[t].key = a /\ arg[t].value = v
    BY DEF StorageInv, StorageTypes, PutPush
<1>2. /\ pending' = Append(pending, [key |-> a, value |-> v])
      /\ suspect' = IF Overlaps(t, a) \/ cache[a] # v THEN suspect ELSE suspect \ {a}
      /\ Begin(t, "idle", NoValue, NoValue) /\ UNCHANGED <<db, cache>>
    BY <1>1 DEF PutPush, End
<1>3. /\ Changed(a)' # {} /\ Latest(a)' = v
      /\ \A k : k # a => Changed(k)' = Changed(k) /\ Latest(k)' = Latest(k)
    BY <1>2, PushChanges DEF StorageInv, StorageTypes
<1>4. /\ pc' \in [Threads -> {"idle", "push", "load", "fill"}]
      /\ arg' = [u \in Threads |-> arg'[u]]
      /\ \A u \in Threads : pc'[u] # "idle" => arg'[u].key \in Accounts
      /\ \A u \in Threads : pc'[u] = "push" => arg'[u].value \in Values
      /\ pc'[t] = "idle"
      /\ \A u \in Threads \ {t} : pc'[u] = pc[u] /\ arg'[u] = arg[u]
    BY <1>2, CallTypes DEF StorageInv
<1>5. StorageTypes'
    <2>1. [key |-> a, value |-> v] \in Changes
        BY DEF Changes, Keys
    <2> QED
        BY <1>2, <1>4, <2>1 DEF StorageInv, StorageTypes
<1>6. \A b \in Settled' : b # a => b \in Settled
    BY <1>2 DEF Settled
\* If the account is settled after the push, the cache holds its value, and
\* no get_account is under way on it.
<1>7. ASSUME a \in Settled'
      PROVE  /\ cache[a] = v
             /\ \A u \in Threads \ {t} : ~Reading(u, a)
             /\ \A u \in Threads \ {t} : Pushing(u, a) => arg[u].value = v
    <2>1. CASE a \in Settled
        BY <1>1, <2>1 DEF StorageInv, PutsAreCached, ReadsAreCurrent, Pushing
    <2>2. CASE a \notin Settled
        BY <1>2, <1>7, <2>2 DEF Settled, Overlaps, Reading, Pushing
    <2> QED
        BY <2>1, <2>2
<1>8. PutsAreCached'
    BY <1>2, <1>4, <1>6, <1>7 DEF StorageInv, PutsAreCached, Pushing
<1>9. ReadsAreCurrent'
    BY <1>2, <1>3, <1>4, <1>6, <1>7 DEF StorageInv, ReadsAreCurrent, Reading, Pushing
<1>10. ChangesAreCached'
    BY <1>2, <1>3, <1>6, <1>7, NoValueAssumption DEF StorageInv, ChangesAreCached
<1>11. CacheFresh'
    <2>1. \A b \in Accounts : b # a =>
              ((\A u \in Threads : ~(pc'[u] = "push" /\ arg'[u].key = b))
                  => \A u \in Threads : ~(pc[u] = "push" /\ arg[u].key = b))
        BY <1>1, <1>4
    <2> QED
        BY <1>2, <1>3, <1>6, <1>7, <2>1 DEF StorageInv, CacheFresh, Settled
<1> QED
    BY <1>5, <1>8, <1>9, <1>10, <1>11 DEF StorageInv

\* Other records do not concern the accounts.
LEMMA PutRecordInv ==
    ASSUME StorageInv, NEW t \in Threads, NEW r \in Records, NEW v \in Values, PutRecord(t, r, v)
    PROVE  StorageInv'
PROOF
<1>1. pending' = Append(pending, [key |-> r, value |-> v]) /\ UNCHANGED <<db, cache, pc, arg, suspect>>
    BY DEF PutRecord
<1>2. \A k \in Accounts : Changed(k)' = Changed(k) /\ Latest(k)' = Latest(k)
    BY <1>1, DistinctKeys, PushChanges DEF StorageInv, StorageTypes
<1>3. StorageTypes'
    <2>1. [key |-> r, value |-> v] \in Changes
        BY DEF Changes, Keys
    <2> QED
        BY <1>1, <2>1 DEF StorageInv, StorageTypes
<1>4. PutsAreCached' /\ ReadsAreCurrent' /\ ChangesAreCached' /\ CacheFresh'
    BY <1>1, <1>2 DEF StorageInv, PutsAreCached, ReadsAreCurrent, ChangesAreCached, CacheFresh,
                      Pushing, Reading, Settled
<1> QED
    BY <1>3, <1>4 DEF StorageInv

\* get_account up to its last statement leaves database, cache and changes
\* alone: it reads nothing pending and the committed value.
LEMMA ReadInv ==
    ASSUME StorageInv, NEW t \in Threads, NEW location \in {"idle", "load", "fill"},
           NEW key, NEW value, Begin(t, location, key, value), pc[t] # "push",
           UNCHANGED <<db, cache, pending, suspect>>,
           location # "idle" => key \in Accounts,
           location # "idle" /\ key \in Settled =>
               /\ Changed(key) = {}
               /\ \A u \in Threads : ~Pushing(u, key)
               /\ location = "fill" => value = db[key]
    PROVE  StorageInv'
PROOF
<1>1. \A k : Changed(k)' = Changed(k) /\ Latest(k)' = Latest(k)
    BY ChangesKept
<1>2. /\ pc' \in [Threads -> {"idle", "push", "load", "fill"}]
      /\ arg' = [u \in Threads |-> arg'[u]]
      /\ \A u \in Threads : pc'[u] # "idle" => arg'[u].key \in Accounts
      /\ \A u \in Threads : pc'[u] = "push" => arg'[u].value \in Values
      /\ pc'[t] = location /\ arg'[t].key = key /\ arg'[t].value = value
      /\ \A u \in Threads \ {t} : pc'[u] = pc[u] /\ arg'[u] = arg[u]
    BY CallTypes DEF StorageInv
<1>3. StorageTypes'
    BY <1>2 DEF StorageInv, StorageTypes
<1>4. \A u \in Threads, a \in Accounts : Pushing(u, a)' <=> Pushing(u, a)
    BY <1>2 DEF Pushing
<1>5. PutsAreCached'
    BY <1>2, <1>4 DEF StorageInv, PutsAreCached, Pushing, Settled
<1>6. ReadsAreCurrent'
    BY <1>1, <1>2, <1>4 DEF StorageInv, ReadsAreCurrent, Reading, Settled
<1>7. ChangesAreCached'
    BY <1>1 DEF StorageInv, ChangesAreCached, Settled
<1>8. CacheFresh'
    BY <1>1, <1>4 DEF StorageInv, CacheFresh, Pushing
<1> QED
    BY <1>3, <1>5, <1>6, <1>7, <1>8 DEF StorageInv

\* get_account misses the cache and reads the database.
LEMMA GetInv ==
    ASSUME StorageInv, NEW t \in Threads,
           (\E a \in Accounts : GetMiss(t, a)) \/ GetLoadNothing(t) \/ GetLoad(t)
    PROVE  StorageInv'
PROOF
<1>1. ASSUME NEW a \in Accounts, GetMiss(t, a) PROVE StorageInv'
    <2>1. /\ pc[t] = "idle" /\ cache[a] = NoValue /\ Begin(t, "load", a, NoValue)
          /\ UNCHANGED <<db, cache, pending, suspect>>
        BY <1>1 DEF GetMiss
    <2>2. a \in Settled => Changed(a) = {}
        BY <2>1 DEF StorageInv, ChangesAreCached
    <2>3. a \in Settled => \A u \in Threads : ~Pushing(u, a)
        BY <2>1, NoValueAssumption DEF StorageInv, StorageTypes, PutsAreCached, Pushing
    <2> QED
        BY <2>1, <2>2, <2>3, ReadInv
<1>2. CASE GetLoadNothing(t)
    BY <1>2, ReadInv DEF GetLoadNothing, End
<1>3. CASE GetLoad(t)
    <2>1. PICK a \in Accounts : arg[t].key = a
        BY <1>3 DEF GetLoad, StorageInv, StorageTypes
    <2>2. PICK v : arg[t].key = a /\ v = db[a]
        BY <2>1
    <2>3. pc[t] = "load" /\ Begin(t, "fill", a, v) /\ UNCHANGED <<db, cache, pending, suspect>>
        BY <1>3, <2>2 DEF GetLoad
    <2>4. a \in Settled => Changed(a) = {} /\ \A u \in Threads : ~Pushing(u, a)
        BY <2>2, <2>3 DEF StorageInv, ReadsAreCurrent, Reading
    <2> QED
        BY <2>2, <2>3, <2>4, ReadInv
<1> QED
    BY <1>1, <1>2, <1>3

\* get_account fills the cache with what it read.
LEMMA GetFillInv ==
    ASSUME StorageInv, NEW t \in Threads, GetFill(t)
    PROVE  StorageInv'
PROOF
<1>1. PICK a \in Accounts : pc[t] = "fill" /\ arg[t].key = a
    BY DEF StorageInv, StorageTypes, GetFill
<1>2. PICK v : pc[t] = "fill" /\ arg[t].key = a /\ arg[t].value = v
    BY <1>1
<1>3. PICK gone \in SUBSET Accounts :
          /\ CachePut(a, v, gone)
          /\ suspect' = suspect \cup {b \in gone : Changed(b) # {} \/ Overlaps(t, b)}
    BY <1>2 DEF GetFill
<1>4. Begin(t, "idle", NoValue, NoValue) /\ UNCHANGED <<db, pending>>
    BY DEF GetFill, End
<1>5. \A k : Changed(k)' = Changed(k) /\ Latest(k)' = Latest(k)
    BY <1>4, ChangesKept
<1>6. /\ gone \subseteq Accounts \ {a} /\ cache'[a] = v
      /\ \A b \in gone : cache'[b] = NoValue
      /\ \A b \in Accounts \ {a} : b \notin gone => cache'[b] = cache[b]
    BY <1>3, CachePutFacts
<1>7. /\ pc' \in [Threads -> {"idle", "push", "load", "fill"}]
      /\ arg' = [u \in Threads |-> arg'[u]]
      /\ \A u \in Threads : pc'[u] # "idle" => arg'[u].key \in Accounts
      /\ \A u \in Threads : pc'[u] = "push" => arg'[u].value \in Values
      /\ pc'[t] = "idle"
      /\ \A u \in Threads \ {t} : pc'[u] = pc[u] /\ arg'[u] = arg[u]
    BY <1>4, CallTypes DEF StorageInv
<1>8. StorageTypes'
    BY <1>4, <1>7 DEF StorageInv, StorageTypes
<1>9. /\ Settled' \subseteq Settled
      /\ \A b \in Settled' : b \in gone =>
            Changed(b) = {} /\ \A u \in Threads \ {t} : pc[u] = "idle" \/ arg[u].key # b
    BY <1>3 DEF Settled, Overlaps
\* A settled account has no change pending: the value read is the latest.
<1>10. a \in Settled => Changed(a) = {} /\ v = Latest(a) /\ \A u \in Threads : ~Pushing(u, a)
    BY <1>2 DEF StorageInv, ReadsAreCurrent, Reading, Latest
<1>11. \A u \in Threads, b \in Accounts : Pushing(u, b)' <=> Pushing(u, b)
    BY <1>2, <1>7 DEF Pushing
<1>12. PutsAreCached'
    BY <1>6, <1>7, <1>9, <1>10, <1>11 DEF StorageInv, PutsAreCached, Pushing, Settled
<1>13. ReadsAreCurrent'
    BY <1>4, <1>5, <1>7, <1>9, <1>11 DEF StorageInv, ReadsAreCurrent, Reading, Settled
<1>14. ChangesAreCached'
    BY <1>5, <1>6, <1>9, <1>10 DEF StorageInv, ChangesAreCached, Settled
<1>15. CacheFresh'
    BY <1>5, <1>6, <1>9, <1>10, <1>11 DEF StorageInv, CacheFresh, Pushing, Settled
<1> QED
    BY <1>8, <1>12, <1>13, <1>14, <1>15 DEF StorageInv

\* commit writes the changes that the cached values are of.
LEMMA CommitInv ==
    ASSUME StorageInv, Commit
    PROVE  StorageInv'
PROOF
<1>1. /\ db' = [k \in Keys |-> Latest(k)] /\ pending' = <<>>
      /\ UNCHANGED <<cache, pc, arg, suspect>>
    BY DEF Commit
<1>2. \A k \in Accounts : Changed(k)' = {} /\ Latest(k)' = Latest(k) /\ db'[k] = Latest(k)
    BY <1>1, NothingPending DEF Keys
<1>3. StorageTypes' /\ PutsAreCached' /\ ChangesAreCached' /\ CacheFresh'
    BY <1>1, <1>2 DEF StorageInv, StorageTypes, PutsAreCached, ChangesAreCached, CacheFresh,
                      Pushing, Settled
<1>4. ReadsAreCurrent'
    BY <1>1, <1>2 DEF StorageInv, ReadsAreCurrent, Pushing, Reading, Settled, Latest
<1> QED
    BY <1>3, <1>4 DEF StorageInv

\* A failed commit and rollback drop changes of suspect accounts only.
LEMMA DropInv ==
    ASSUME StorageInv, CommitFails \/ Rollback
    PROVE  StorageInv'
PROOF
<1>1. pending' = <<>> /\ suspect' = suspect \cup Dropped /\ UNCHANGED <<db, cache, pc, arg>>
    BY DEF CommitFails, Rollback
<1>2. \A k : Changed(k)' = {} /\ Latest(k)' = db[k]
    BY <1>1, NothingPending
<1>3. Settled' \subseteq Settled /\ \A a \in Settled' : Changed(a) = {} /\ Latest(a) = db[a]
    BY <1>1 DEF Settled, Dropped, Latest
<1>4. StorageTypes' /\ PutsAreCached' /\ ChangesAreCached'
    BY <1>1, <1>2, <1>3 DEF StorageInv, StorageTypes, PutsAreCached, ChangesAreCached, Pushing
<1>5. ReadsAreCurrent'
    BY <1>1, <1>2, <1>3 DEF StorageInv, ReadsAreCurrent, Pushing, Reading
<1>6. CacheFresh'
    BY <1>1, <1>2, <1>3 DEF StorageInv, CacheFresh, Settled
<1> QED
    BY <1>4, <1>5, <1>6 DEF StorageInv

\* A restart starts over from the database.
LEMMA RestartInv ==
    ASSUME Restart
    PROVE  StorageInv'
PROOF
    BY NothingPending DEF Restart, StorageInv, StorageTypes, PutsAreCached, ReadsAreCurrent,
           ChangesAreCached, CacheFresh, Pushing, Reading, NoArg, Settled

\* Every step keeps the invariant.
LEMMA StorageNextInv == StorageInv /\ [StorageNext]_storageVars => StorageInv'
PROOF
<1> SUFFICES ASSUME StorageInv, [StorageNext]_storageVars PROVE StorageInv'
    OBVIOUS
<1>1. ASSUME NEW t \in Threads, ThreadStep(t) PROVE StorageInv'
    BY <1>1, PutCacheInv, PutPushInv, PutRecordInv, GetInv, GetFillInv DEF ThreadStep
<1>2. CASE UNCHANGED storageVars
    BY <1>2, ChangesKept DEF storageVars, StorageInv, StorageTypes, PutsAreCached, ReadsAreCurrent,
           ChangesAreCached, CacheFresh, Pushing, Reading, Settled
<1> QED
    BY <1>1, <1>2, CommitInv, DropInv, RestartInv DEF StorageNext

\* get_account never serves an outdated account from the cache, for any number
\* of threads, any cache size and any number of pending changes: a cached value
\* is the last one put, or the committed one, unless one of the hazards that
\* suspect records has happened to the account.
THEOREM CacheStaysFresh == StorageSpec => []CacheFresh
PROOF
<1>1. StorageInv => CacheFresh
    BY DEF StorageInv
<1> QED
    BY <1>1, StorageInitInv, StorageNextInv, PTL DEF StorageSpec

-----------------------------------------------------------------------------
(* The executor                                                            *)

\* The inductive invariant of Conservation: only types have to be added.
ExecutorTypes ==
    /\ state \in VMState
    /\ block \in Seq(VMTxs)
    /\ todo \subseteq DOMAIN block
    /\ created \in Int

ExecutorInv == ExecutorTypes /\ BalancesConserved

\* Balances and their sum are integers.
LEMMA BalancesInt ==
    ASSUME NEW s \in VMState
    PROVE  /\ \A a \in VMAddresses : s.accounts[a].balance \in Int /\ Balances(s)[a] = s.accounts[a].balance
           /\ Total(s) \in Int
PROOF
<1>1. \A a \in VMAddresses : s.accounts[a].balance \in Int /\ Balances(s)[a] = s.accounts[a].balance
    BY DEF VMState, Account, Amount, Balances
<1>2. \A a \in VMAddresses : Balances(s)[a] \in Int
    BY <1>1
<1> QED
    BY <1>1, <1>2, SumInt, VMAddressesAssumption DEF Total

\* One balance changes: the total changes by as much.
LEMMA OneBalance ==
    ASSUME NEW s \in VMState, NEW r \in VMState, NEW x \in VMAddresses,
           \A a \in VMAddresses \ {x} : r.accounts[a].balance = s.accounts[a].balance
    PROVE  Total(r) = Total(s) + r.accounts[x].balance - s.accounts[x].balance
PROOF
<1>1. \A a \in VMAddresses : Balances(s)[a] \in Int /\ Balances(r)[a] \in Int
    BY BalancesInt
<1>2. \A a \in VMAddresses \ {x} : Balances(r)[a] = Balances(s)[a]
    BY BalancesInt
<1>3. Total(r) = Total(s) - Balances(s)[x] + Balances(r)[x]
    BY <1>1, <1>2, SumUpdate, VMAddressesAssumption DEF Total
<1>4. /\ Total(s) \in Int
      /\ s.accounts[x].balance \in Int /\ Balances(s)[x] = s.accounts[x].balance
      /\ r.accounts[x].balance \in Int /\ Balances(r)[x] = r.accounts[x].balance
    BY BalancesInt
<1> QED
    BY <1>3, <1>4

\* A transfer changes the total by what is created, modulo 2^128.
LEMMA TransferTotal ==
    ASSUME NEW tx \in VMTxs, NEW s \in VMState, ~(s.accounts[tx.from].balance < TotalCost(tx))
    PROVE  /\ ExecuteTransfer(tx, s).success
           /\ ExecuteTransfer(tx, s).state \in VMState
           /\ Total(ExecuteTransfer(tx, s).state) % Word =
                  (Total(s) + IF Receiver(tx) = tx.from THEN tx.value ELSE -tx.gas) % Word
PROOF
<1> DEFINE from == tx.from
           to == Receiver(tx)
           v == tx.value
           g == tx.gas
           cost == TotalCost(tx)
           r == ExecuteTransfer(tx, s).state
           old(a) == s.accounts[a].balance
           new(a) == r.accounts[a].balance
<1>1. /\ from \in VMAddresses /\ to \in VMAddresses
      /\ v \in Int /\ g \in Int /\ v + g \in Int /\ Word \in Nat \ {0}
    BY TxsAssumption, WordAssumption DEF Receiver, Amount
<1>2. \A a \in VMAddresses : s.accounts[a].balance \in Int /\ s.accounts[a].nonce \in Nat
    BY DEF VMState, Account, Amount
<1>3. cost \in Int /\ \E q \in Int : v + g = q * Word + cost
    <2>1. cost = (v + g) % Word
        BY DEF TotalCost
    <2> HIDE DEF v, g, cost
    <2> QED
        BY <1>1, <2>1, ModDef, ModInt
<1>4. /\ ExecuteTransfer(tx, s).success
      /\ r = [accounts |-> [a \in VMAddresses |->
                  IF a \in {from, to} THEN Apply(s.accounts[a], TransferChanges(tx)[a]) ELSE s.accounts[a]],
              contracts |-> s.contracts]
    BY DEF ExecuteTransfer, Outcome, TransferChanges, VMState
<1>5. /\ to # from => new(from) = (old(from) - cost) % Word
      /\ new(to) = (old(to) + v) % Word
      /\ \A a \in VMAddresses \ {from, to} : new(a) = old(a)
    BY <1>1, <1>2, <1>3, <1>4 DEF Apply, TransferChanges
<1>6. r \in VMState
    <2>1. \A x \in Int : x % Word \in Amount
        BY <1>1, ModDef DEF Amount
    <2>2. ASSUME NEW a \in VMAddresses, NEW c, c = TransferChanges(tx)[a], a \in {from, to}
          PROVE  Apply(s.accounts[a], c) \in Account
        <3>1. c.balance_delta \in Int /\ c.nonce_delta \in Nat
            BY <1>1, <1>3, <2>2 DEF TransferChanges
        <3> QED
            BY <1>2, <2>1, <3>1 DEF Apply, Account
    <2>3. \A a \in VMAddresses : s.accounts[a] \in Account
        BY DEF VMState
    <2> QED
        BY <1>4, <2>2, <2>3 DEF VMState
<1> HIDE DEF r
\* What a balance becomes, modulo 2^128.
<1>7. ASSUME NEW a \in VMAddresses, NEW d \in Int, new(a) = (old(a) + d) % Word
      PROVE  \E q \in Int : new(a) = old(a) + d + q * Word
    <2>1. old(a) + d \in Int
        BY <1>2
    <2>2. PICK q \in Int : old(a) + d = q * Word + new(a)
        BY <1>1, <1>7, <2>1, ModDef
    <2>3. new(a) \in Int
        BY <1>6, BalancesInt
    <2>4. -q \in Int /\ new(a) = old(a) + d + (-q) * Word
        BY <1>1, <1>2, <2>2, <2>3
    <2> QED
        BY <2>4
<1>8. Total(s) \in Int /\ Total(r) \in Int
    BY <1>6, BalancesInt
<1>9. CASE to = from
    <2>1. Total(r) = Total(s) + new(from) - old(from)
        BY <1>1, <1>5, <1>6, <1>9, OneBalance
    <2>2. PICK q \in Int : new(from) = old(from) + v + q * Word
        BY <1>1, <1>5, <1>7, <1>9
    <2>3. Total(r) = (Total(s) + v) + q * Word
        BY <1>1, <1>2, <1>8, <2>1, <2>2
    <2>4. Total(s) + v \in Int
        BY <1>1, <1>8
    <2>5. Total(r) % Word = (Total(s) + v) % Word
        <3> HIDE DEF v
        <3> QED
            BY <1>1, <1>8, <2>3, <2>4, ModShift
    <2> QED
        BY <1>4, <1>6, <1>9, <2>5 DEF r
<1>10. CASE to # from
    \* The state between the two changes.
    <2> DEFINE m == [s EXCEPT !.accounts = [@ EXCEPT ![from] = r.accounts[from]]]
    <2>1. m \in VMState
        BY <1>1, <1>6 DEF VMState
    <2>2. /\ m.accounts[from].balance = new(from)
          /\ \A a \in VMAddresses \ {from} : m.accounts[a].balance = old(a)
        BY <1>1 DEF VMState
    <2>3. \A a \in VMAddresses \ {to} : new(a) = m.accounts[a].balance
        BY <1>1, <1>5, <2>2
    <2>4. m.accounts[to].balance = old(to)
        BY <1>1, <1>10, <2>2
    <2> HIDE DEF m
    <2>5. Total(m) = Total(s) + new(from) - old(from)
        BY <1>1, <2>1, <2>2, OneBalance
    <2>6. Total(r) = Total(m) + new(to) - old(to)
        BY <1>1, <1>6, <2>1, <2>3, <2>4, OneBalance
    <2>7. PICK p \in Int : new(from) = old(from) + (-cost) + p * Word
        <3>1. -cost \in Int /\ new(from) = (old(from) + (-cost)) % Word
            BY <1>1, <1>2, <1>3, <1>5, <1>10
        <3> QED
            BY <1>1, <1>7, <3>1
    <2>8. PICK q \in Int : new(to) = old(to) + v + q * Word
        BY <1>1, <1>5, <1>7
    <2>9. PICK k \in Int : v + g = k * Word + cost
        BY <1>3
    <2>10. /\ p * Word \in Int /\ q * Word \in Int /\ k * Word \in Int
           /\ (k + p + q) * Word = k * Word + p * Word + q * Word
        BY <1>1
    <2>11. Total(r) = (Total(s) + (-g)) + (k + p + q) * Word
        <3>1. old(from) \in Int /\ old(to) \in Int
            BY <1>1, <1>2
        <3> DEFINE kw == k * Word
                   pw == p * Word
                   qw == q * Word
        <3> HIDE DEF old, new, v, g, cost, kw, pw, qw
        <3>2. /\ kw \in Int /\ pw \in Int /\ qw \in Int
              /\ (k + p + q) * Word = kw + pw + qw
              /\ v + g = kw + cost
              /\ new(from) = old(from) + (-cost) + pw
              /\ new(to) = old(to) + v + qw
            BY <2>7, <2>8, <2>9, <2>10 DEF kw, pw, qw
        <3>3. /\ v \in Int /\ g \in Int /\ cost \in Int
            BY <1>1, <1>3
        <3>4. Total(r) = Total(s) + (-cost) + pw + v + qw
            BY <1>8, <2>5, <2>6, <3>1, <3>2, <3>3
        <3> QED
            BY <1>8, <3>2, <3>3, <3>4
    <2>12. Total(s) + (-g) \in Int /\ k + p + q \in Int
        BY <1>1, <1>8
    <2>13. Total(r) % Word = (Total(s) + (-g)) % Word
        <3> HIDE DEF g
        <3> QED
            BY <1>1, <1>8, <2>11, <2>12, ModShift
    <2> QED
        BY <1>4, <1>6, <1>10, <2>13 DEF r
<1> QED
    BY <1>9, <1>10

\* A deployment puts its value in the place of what the address held.
LEMMA DeployTotal ==
    ASSUME NEW tx \in VMTxs, NEW s \in VMState
    PROVE  /\ ExecuteContractDeploy(tx, s).state \in VMState
           /\ Total(ExecuteContractDeploy(tx, s).state) =
                  Total(s) + (tx.value - s.accounts[tx.contract].balance)
PROOF
<1> DEFINE r == ExecuteContractDeploy(tx, s).state
           c == tx.contract
<1>1. c \in VMAddresses /\ tx.value \in Amount /\ tx.value \in Int
    BY TxsAssumption, WordAssumption DEF Amount
<1>2. r = [accounts |-> [s.accounts EXCEPT ![c] = [balance |-> tx.value, nonce |-> 0]],
           contracts |-> s.contracts \cup {c}]
    BY DEF ExecuteContractDeploy, Outcome
<1>3. r \in VMState
    BY <1>1, <1>2 DEF VMState, Account
<1>4. /\ r.accounts[c].balance = tx.value
      /\ \A a \in VMAddresses \ {c} : r.accounts[a].balance = s.accounts[a].balance
    BY <1>1, <1>2 DEF VMState
<1> HIDE DEF r
<1>5. Total(r) = Total(s) + r.accounts[c].balance - s.accounts[c].balance
    BY <1>1, <1>3, <1>4, OneBalance
<1>6. Total(s) \in Int /\ s.accounts[c].balance \in Int
    BY <1>1, BalancesInt
<1> QED
    BY <1>1, <1>3, <1>4, <1>5, <1>6 DEF r

\* What a transaction adds to the sum of all balances is what Created says.
LEMMA ExecuteTotal ==
    ASSUME NEW tx \in VMTxs, NEW s \in VMState
    PROVE  /\ ExecuteTransaction(tx, s).state \in VMState
           /\ Created(tx, s) \in Int
           /\ Total(ExecuteTransaction(tx, s).state) % Word = (Total(s) + Created(tx, s)) % Word
PROOF
<1>1. /\ tx.kind \in Kinds /\ tx.value \in Int /\ tx.gas \in Int /\ -tx.gas \in Int
      /\ tx.from \in VMAddresses /\ tx.contract \in VMAddresses
    BY TxsAssumption, WordAssumption DEF Amount
<1>2. Total(s) \in Int /\ s.accounts[tx.contract].balance \in Int /\ Total(s) + 0 = Total(s)
    BY <1>1, BalancesInt
<1>3. CASE tx.kind \in {"Transfer", "PrivateTransfer"}
    <2>1. ExecuteTransaction(tx, s) = ExecuteTransfer(tx, s)
        BY <1>3 DEF ExecuteTransaction, ExecutePrivateTransfer
    <2>2. CASE s.accounts[tx.from].balance < TotalCost(tx)
        <3>1. ExecuteTransfer(tx, s).state = s /\ ~ExecuteTransfer(tx, s).success
            BY <2>2 DEF ExecuteTransfer, Outcome
        <3>2. Created(tx, s) = 0
            BY <1>3, <2>1, <3>1 DEF Created
        <3> QED
            BY <1>2, <2>1, <3>1, <3>2
    <2>3. CASE ~(s.accounts[tx.from].balance < TotalCost(tx))
        <3>1. /\ ExecuteTransfer(tx, s).success
              /\ ExecuteTransfer(tx, s).state \in VMState
              /\ Total(ExecuteTransfer(tx, s).state) % Word =
                     (Total(s) + IF Receiver(tx) = tx.from THEN tx.value ELSE -tx.gas) % Word
            BY <2>3, TransferTotal
        <3>2. Created(tx, s) = IF Receiver(tx) = tx.from THEN tx.value ELSE -tx.gas
            BY <1>3, <2>1, <3>1 DEF Created
        <3> QED
            BY <1>1, <2>1, <3>1, <3>2
    <2> QED
        BY <2>2, <2>3
<1>4. CASE tx.kind = "ContractDeploy"
    <2>1. ExecuteTransaction(tx, s) = ExecuteContractDeploy(tx, s)
        BY <1>4 DEF ExecuteTransaction
    <2>2. Created(tx, s) = tx.value - s.accounts[tx.contract].balance
        BY <1>4 DEF Created
    <2> QED
        BY <1>1, <1>2, <2>1, <2>2, DeployTotal
<1>5. CASE tx.kind \in {"ContractCall", "Stake"}
    <2>1. ExecuteTransaction(tx, s).state = s
        BY <1>5 DEF ExecuteTransaction, ExecuteContractCall, Outcome
    <2>2. Created(tx, s) = 0
        BY <1>5 DEF Created
    <2> QED
        BY <1>2, <2>1, <2>2
<1> QED
    BY <1>1, <1>3, <1>4, <1>5 DEF Kinds

\* Initially nothing is created.
LEMMA ExecutorInitInv == VMInit => ExecutorInv
PROOF
<1> SUFFICES ASSUME VMInit PROVE ExecutorInv
    OBVIOUS
<1>1. state \in VMState
    BY Balance0Assumption DEF VMInit, VMState, Account
<1>2. ExecutorTypes
    BY <1>1 DEF VMInit, ExecutorTypes
<1>3. \A a \in VMAddresses : Balances(state)[a] = Balance0[a]
    BY DEF VMInit, Balances
<1>4. Total(state) = SumFunctionOnSet(Balance0, VMAddresses)
    BY <1>3, SumSame, VMAddressesAssumption DEF Total
<1>5. Total(state) \in Int
    BY <1>1, BalancesInt
<1>6. SumFunctionOnSet(Balance0, VMAddresses) + created = Total(state)
    BY <1>4, <1>5 DEF VMInit
<1> QED
    BY <1>2, <1>6 DEF ExecutorInv, BalancesConserved

\* Executing a transaction changes the sum by what it creates.
LEMMA ExecuteInv ==
    ASSUME ExecutorInv, NEW i \in todo, Execute(i)
    PROVE  ExecutorInv'
PROOF
<1> DEFINE T0 == SumFunctionOnSet(Balance0, VMAddresses)
<1>1. PICK tx \in VMTxs : tx = block[i]
    BY DEF ExecutorInv, ExecutorTypes
<1>2. PICK s \in VMState : s = state
    BY DEF ExecutorInv, ExecutorTypes
<1>3. PICK c \in Int : c = Created(tx, s)
    BY ExecuteTotal
<1>4. /\ state' = ExecuteTransaction(tx, s).state
      /\ created' = (created + c) % Word
      /\ block' = block /\ todo' \subseteq todo
    BY <1>1, <1>2, <1>3 DEF Execute
<1>5. state' \in VMState /\ Total(state') % Word = (Total(s) + c) % Word
    BY <1>3, <1>4, ExecuteTotal
<1>6. /\ Total(s) \in Int /\ created \in Int /\ created + c \in Int
      /\ Word \in Nat \ {0}
    BY BalancesInt, WordAssumption DEF ExecutorInv, ExecutorTypes
<1>7. T0 \in Int
    <2>1. \A a \in VMAddresses : Balance0[a] \in Int
        BY Balance0Assumption, WordAssumption DEF Amount
    <2> QED
        BY <2>1, SumInt, VMAddressesAssumption
<1> HIDE DEF T0
<1>8. ExecutorTypes'
    BY <1>4, <1>5, <1>6, ModInt DEF ExecutorInv, ExecutorTypes
<1>9. Total(s) % Word = (T0 + created) % Word
    BY <1>2 DEF ExecutorInv, BalancesConserved, T0
<1>10. (Total(s) + c) % Word = (T0 + created + c) % Word
    <2>1. ((Total(s) % Word) + c) % Word = (Total(s) + c) % Word
        BY <1>6, ModAdd
    <2>2. T0 + created \in Int
        BY <1>6, <1>7
    <2>3. (((T0 + created) % Word) + c) % Word = (T0 + created + c) % Word
        BY <1>6, <2>2, ModAdd
    <2> QED
        BY <1>9, <2>1, <2>3
<1>11. (T0 + ((created + c) % Word)) % Word = (T0 + created + c) % Word
    <2>1. (((created + c) % Word) + T0) % Word = ((created + c) + T0) % Word
        BY <1>6, <1>7, ModAdd
    <2>2. (created + c) % Word \in Int
        BY <1>6, ModInt
    <2>3. /\ ((created + c) % Word) + T0 = T0 + ((created + c) % Word)
          /\ (created + c) + T0 = T0 + created + c
        BY <1>6, <1>7, <2>2
    <2> QED
        BY <2>1, <2>3
<1>12. Total(state') % Word = (T0 + created') % Word
    BY <1>4, <1>5, <1>10, <1>11
<1>13. BalancesConserved'
    BY <1>12 DEF BalancesConserved, T0
<1> QED
    BY <1>8, <1>13 DEF ExecutorInv

\* The sequential executor always has a first transaction to take.
LEMMA FirstTodo ==
    ASSUME ExecutorInv, todo # {}
    PROVE  Min(todo) \in todo
PROOF
<1>1. todo \subseteq 1..Len(block) /\ Len(block) \in Nat
    BY DEF ExecutorInv, ExecutorTypes
<1>2. IsFiniteSet(1..Len(block))
    BY <1>1, FS_Interval
<1>3. IsFiniteSet(todo)
    BY <1>1, <1>2, FS_Subset
<1>4. todo \subseteq Nat
    BY <1>1
<1>5. \E i \in todo : \A j \in todo : i <= j
    BY <1>3, <1>4, LeastExists
<1> QED
    BY <1>5 DEF Min

\* Every step keeps the invariant.
LEMMA ExecutorNextInv == ExecutorInv /\ [VMNext]_vmVars => ExecutorInv'
PROOF
<1> SUFFICES ASSUME ExecutorInv, [VMNext]_vmVars PROVE ExecutorInv'
    OBVIOUS
<1>1. ASSUME NEW b \in Blocks, NEW inParallel \in BOOLEAN, StartBlock(b, inParallel)
      PROVE  ExecutorInv'
    <2>1. state' = state /\ created' = created /\ block' = b /\ todo' = DOMAIN b
        BY <1>1 DEF StartBlock
    <2>2. ExecutorTypes'
        BY <2>1, BlocksAssumption DEF ExecutorInv, ExecutorTypes
    <2>3. BalancesConserved'
        BY <2>1 DEF ExecutorInv, BalancesConserved
    <2> QED
        BY <2>2, <2>3 DEF ExecutorInv
<1>2. CASE ExecuteBlockParallel
    BY <1>2, ExecuteInv DEF ExecuteBlockParallel
<1>3. CASE ExecuteBlockSequential
    BY <1>3, FirstTodo, ExecuteInv DEF ExecuteBlockSequential
<1>4. CASE UNCHANGED vmVars
    BY <1>4 DEF vmVars, ExecutorInv, ExecutorTypes, BalancesConserved
<1> QED
    BY <1>1, <1>2, <1>3, <1>4 DEF VMNext

\* Whatever blocks are executed, one after the other or in parallel and in any
\* order, the sum of all balances modulo 2^128 changes only by transfers to
\* oneself, by deployments and by the gas of transfers.
THEOREM ExecutionConserves == VMSpec => []BalancesConserved
PROOF
<1>1. ExecutorInv => BalancesConserved
    BY DEF ExecutorInv
<1> QED
    BY <1>1, ExecutorInitInv, ExecutorNextInv, PTL DEF VMSpec

-----------------------------------------------------------------------------
(* Orderly blocks: funded senders, no use of a contract of the same block  *)

IsTransfer(tx) == tx.kind \in {"Transfer", "PrivateTransfer"}

\* What a transaction of b may cost account a, takes from it, gives to it and
\* adds to its nonce.
Charge(b, a) == [i \in DOMAIN b |-> IF IsTransfer(b[i]) /\ b[i].from = a THEN b[i].value + b[i].gas ELSE 0]
Pays(tx, a) == IsTransfer(tx) /\ tx.from = a /\ Receiver(tx) # a
Debit(b, a) == [i \in DOMAIN b |-> IF Pays(b[i], a) THEN b[i].value + b[i].gas ELSE 0]
Credit(b, a) == [i \in DOMAIN b |-> IF IsTransfer(b[i]) /\ Receiver(b[i]) = a THEN b[i].value ELSE 0]
Sent(b, a) == [i \in DOMAIN b |-> IF Pays(b[i], a) THEN 1 ELSE 0]

\* Account a after the transactions of b at the positions D.
BalanceAfter(b, s, D, a) ==
    s.accounts[a].balance - SumFunctionOnSet(Debit(b, a), D) + SumFunctionOnSet(Credit(b, a), D)

NonceAfter(b, s, D, a) == s.accounts[a].nonce + SumFunctionOnSet(Sent(b, a), D)

Deployers(b, D, a) == {i \in D : b[i].kind = "ContractDeploy" /\ b[i].contract = a}

AccountAfter(b, s, D, a) ==
    IF Deployers(b, D, a) = {}
    THEN [balance |-> BalanceAfter(b, s, D, a), nonce |-> NonceAfter(b, s, D, a)]
    ELSE [balance |-> b[CHOOSE i \in Deployers(b, D, a) : TRUE].value, nonce |-> 0]

\* The state after the transactions of b at the positions D, whatever their
\* order.
After(b, s, D) ==
    [accounts |-> [a \in VMAddresses |-> AccountAfter(b, s, D, a)],
     contracts |-> s.contracts \cup {a \in VMAddresses : Deployers(b, D, a) # {}}]

\* What the result of a transaction says, from the state before the block.
Succeeds(tx, s) ==
    IF tx.kind = "ContractCall" THEN Receiver(tx) \in s.contracts ELSE tx.kind # "Stake"

\* The blocks FundedBlocksAreSerial is about.
Orderly(b, s) == Funded(b, s) /\ Independent(b) /\ FitsWord(b, s)

-----------------------------------------------------------------------------
\* The parts of a transaction.
LEMMA TxTypes ==
    ASSUME NEW b \in Seq(VMTxs), NEW i \in DOMAIN b
    PROVE  /\ b[i] \in VMTxs /\ b[i].kind \in Kinds
           /\ b[i].from \in VMAddresses /\ b[i].contract \in VMAddresses /\ Receiver(b[i]) \in VMAddresses
           /\ b[i].value \in Nat /\ b[i].gas \in Nat
           /\ \A j \in DOMAIN b : b[i].contract # b[j].from
PROOF
<1>1. b[i] \in VMTxs /\ \A j \in DOMAIN b : b[j] \in VMTxs
    OBVIOUS
<1> QED
    BY <1>1, TxsAssumption, WordAssumption DEF Amount, Receiver

\* The positions of a block are finitely many.
LEMMA DomainFinite ==
    ASSUME NEW b \in Seq(VMTxs)
    PROVE  IsFiniteSet(DOMAIN b) /\ \A D \in SUBSET (DOMAIN b) : IsFiniteSet(D)
PROOF
<1>1. DOMAIN b = 1..Len(b) /\ Len(b) \in Nat
    OBVIOUS
<1>2. IsFiniteSet(DOMAIN b)
    BY <1>1, FS_Interval
<1> QED
    BY <1>2, FS_Subset

\* The charges and credits of a block are natural numbers.
LEMMA MovesNat ==
    ASSUME NEW b \in Seq(VMTxs), NEW a
    PROVE  \A i \in DOMAIN b :
               /\ Charge(b, a)[i] \in Nat /\ Debit(b, a)[i] \in Nat /\ Credit(b, a)[i] \in Nat
               /\ Sent(b, a)[i] \in Nat /\ Debit(b, a)[i] <= Charge(b, a)[i]
               /\ Credit(b, a)[i] <= b[i].value
PROOF
<1> SUFFICES ASSUME NEW i \in DOMAIN b
             PROVE  /\ Charge(b, a)[i] \in Nat /\ Debit(b, a)[i] \in Nat /\ Credit(b, a)[i] \in Nat
                    /\ Sent(b, a)[i] \in Nat /\ Debit(b, a)[i] <= Charge(b, a)[i]
                    /\ Credit(b, a)[i] <= b[i].value
    OBVIOUS
<1>1. b[i].value \in Nat /\ b[i].gas \in Nat
    BY TxTypes
<1> QED
    BY <1>1 DEF Charge, Debit, Credit, Sent, Pays

\* An account can pay all the block charges it.
LEMMA ChargesCovered ==
    ASSUME NEW b \in Seq(VMTxs), NEW s \in VMState, Funded(b, s), NEW a \in VMAddresses
    PROVE  SumFunctionOnSet(Charge(b, a), DOMAIN b) <= s.accounts[a].balance
PROOF
<1> DEFINE T == TransfersOf(b, a)
           f == Charge(b, a)
           g == [i \in DOMAIN b |-> b[i].value + b[i].gas]
<1>1. IsFiniteSet(DOMAIN b)
    BY DomainFinite
<1>2. T \in SUBSET (DOMAIN b)
    BY DEF TransfersOf
<1>3. IsFiniteSet(T)
    BY <1>1, <1>2, FS_Subset
<1>4. IsFiniteSet(DOMAIN b \ T)
    BY <1>1, FS_Subset
<1>5. \A i \in DOMAIN b : f[i] \in Int
    BY MovesNat
<1>6. \A i \in DOMAIN b \ T : f[i] = 0
    BY DEF Charge, TransfersOf, IsTransfer
<1>7. \A i \in T : f[i] = g[i]
    BY DEF Charge, TransfersOf, IsTransfer
<1>8. s.accounts[a].balance >= SumFunctionOnSet(g, T)
    BY DEF Funded
<1> HIDE DEF T, f, g
<1>9. SumFunctionOnSet(f, DOMAIN b) = SumFunctionOnSet(f, T) + SumFunctionOnSet(f, DOMAIN b \ T)
    BY <1>1, <1>2, <1>5, SumSplit
<1>10. SumFunctionOnSet(f, DOMAIN b \ T) = 0
    BY <1>4, <1>6, SumZero
<1>11. SumFunctionOnSet(f, T) = SumFunctionOnSet(g, T)
    BY <1>3, <1>7, SumSame
<1>12. SumFunctionOnSet(f, T) \in Int
    <2>1. \A i \in T : f[i] \in Int
        BY <1>2, <1>5
    <2> QED
        BY <1>3, <2>1, SumInt
<1>13. s.accounts[a].balance \in Int
    BY BalancesInt
<1> QED
    BY <1>8, <1>9, <1>10, <1>11, <1>12, <1>13 DEF f

\* Part of the block never takes a balance out of its range.
LEMMA BalanceAfterFits ==
    ASSUME NEW b \in Seq(VMTxs), NEW s \in VMState, Funded(b, s), FitsWord(b, s), NEW a \in VMAddresses,
           NEW D \in SUBSET (DOMAIN b)
    PROVE  /\ BalanceAfter(b, s, D, a) \in 0..(Word - 1)
           /\ NonceAfter(b, s, D, a) \in Nat
           /\ \A i \in DOMAIN b \ D : IsTransfer(b[i]) /\ b[i].from = a =>
                  b[i].value + b[i].gas <= BalanceAfter(b, s, D, a)
PROOF
<1> DEFINE S == DOMAIN b
           f == Debit(b, a)
           g == Credit(b, a)
           h == Charge(b, a)
           v == [i \in S |-> b[i].value]
           x == s.accounts[a].balance
<1>1. IsFiniteSet(S)
    BY DomainFinite
<1>2. IsFiniteSet(D)
    BY DomainFinite
<1>3. \A i \in S : /\ f[i] \in Nat /\ g[i] \in Nat /\ h[i] \in Nat /\ v[i] \in Nat
                   /\ f[i] <= h[i] /\ g[i] <= v[i] /\ Sent(b, a)[i] \in Nat
    BY MovesNat, TxTypes
<1>4. SumFunctionOnSet(h, S) <= x
    BY ChargesCovered
<1>5. x \in Nat /\ x <= Total(s) /\ Total(s) \in Nat /\ s.accounts[a].nonce \in Nat
    <2>1. \A c \in VMAddresses : Balances(s)[c] \in Nat
        BY WordAssumption DEF VMState, Account, Amount, Balances
    <2>2. Total(s) \in Nat /\ \A c \in VMAddresses : Balances(s)[c] <= Total(s)
        BY <2>1, SumNat, VMAddressesAssumption DEF Total
    <2>3. Balances(s)[a] = x
        BY DEF Balances
    <2>4. s.accounts[a].nonce \in Nat
        BY DEF VMState, Account
    <2> QED
        BY <2>1, <2>2, <2>3, <2>4
<1>6. Total(s) + SumFunctionOnSet(v, S) < Word
    BY DEF FitsWord
<1>7. BalanceAfter(b, s, D, a) = x - SumFunctionOnSet(f, D) + SumFunctionOnSet(g, D)
    BY DEF BalanceAfter
<1>8. NonceAfter(b, s, D, a) \in Nat
    <2>1. \A i \in D : Sent(b, a)[i] \in Nat
        BY <1>3
    <2>2. SumFunctionOnSet(Sent(b, a), D) \in Nat
        BY <1>2, <2>1, SumNat
    <2> QED
        BY <1>5, <2>2 DEF NonceAfter
<1>9. \A i \in S : IsTransfer(b[i]) /\ b[i].from = a => h[i] = b[i].value + b[i].gas
    BY DEF Charge
<1> HIDE DEF S, f, g, h, v, x
<1>10. /\ \A i \in D : f[i] \in Nat
       /\ \A i \in D : g[i] \in Nat
       /\ \A i \in D : h[i] \in Nat
       /\ D \in SUBSET S
    BY <1>3 DEF S
<1>11. SumFunctionOnSet(f, D) \in Nat /\ SumFunctionOnSet(g, D) \in Nat /\ SumFunctionOnSet(h, D) \in Nat
    BY <1>2, <1>10, SumNat
<1>12. SumFunctionOnSet(f, D) <= SumFunctionOnSet(h, D)
    <2>1. \A i \in D : f[i] \in Int /\ h[i] \in Int /\ f[i] <= h[i]
        BY <1>3, <1>10
    <2> QED
        BY <1>2, <2>1, SumMonotone
<1>13. SumFunctionOnSet(h, D) <= SumFunctionOnSet(h, S)
    <2>1. \A i \in S : h[i] \in Nat
        BY <1>3
    <2> QED
        BY <1>1, <1>10, <2>1, SumSubset
<1>14. SumFunctionOnSet(g, D) <= SumFunctionOnSet(g, S)
    <2>1. \A i \in S : g[i] \in Nat
        BY <1>3
    <2> QED
        BY <1>1, <1>10, <2>1, SumSubset
<1>15. SumFunctionOnSet(g, S) <= SumFunctionOnSet(v, S)
    <2>1. \A i \in S : g[i] \in Int /\ v[i] \in Int /\ g[i] <= v[i]
        BY <1>3
    <2> QED
        BY <1>1, <2>1, SumMonotone
<1>16. SumFunctionOnSet(h, S) \in Nat /\ SumFunctionOnSet(g, S) \in Nat /\ SumFunctionOnSet(v, S) \in Nat
    <2>1. /\ \A i \in S : h[i] \in Nat
          /\ \A i \in S : g[i] \in Nat
          /\ \A i \in S : v[i] \in Nat
        BY <1>3
    <2> QED
        BY <1>1, <2>1, SumNat
<1>17. BalanceAfter(b, s, D, a) \in 0..(Word - 1)
    BY <1>4, <1>5, <1>6, <1>7, <1>11, <1>12, <1>13, <1>14, <1>15, <1>16, WordAssumption
<1>18. ASSUME NEW i \in S \ D, IsTransfer(b[i]), b[i].from = a
       PROVE  b[i].value + b[i].gas <= BalanceAfter(b, s, D, a)
    <2>1. h[i] = b[i].value + b[i].gas /\ h[i] \in Nat
        BY <1>3, <1>9, <1>18
    <2>2. SumFunctionOnSet(h, D \cup {i}) = h[i] + SumFunctionOnSet(h, D)
        <3>1. \A y \in D \cup {i} : h[y] \in Int
            BY <1>3, <1>10
        <3>2. i \notin D
            OBVIOUS
        <3> QED
            BY <1>2, <3>1, <3>2, SumAdd
    <2>3. SumFunctionOnSet(h, D \cup {i}) <= SumFunctionOnSet(h, S)
        <3>1. D \cup {i} \in SUBSET S
            BY <1>10
        <3>2. \A y \in S : h[y] \in Nat
            BY <1>3
        <3> QED
            BY <1>1, <3>1, <3>2, SumSubset
    <2>4. h[i] + SumFunctionOnSet(f, D) <= x
        BY <1>4, <1>5, <1>11, <1>12, <1>16, <2>1, <2>2, <2>3
    <2>5. h[i] <= BalanceAfter(b, s, D, a)
        BY <1>5, <1>7, <1>11, <2>1, <2>4
    <2> QED
        BY <2>1, <2>5
<1> QED
    BY <1>8, <1>17, <1>18 DEF S

\* One more transaction: what it moves is added.
LEMMA AfterMoves ==
    ASSUME NEW b \in Seq(VMTxs), NEW s \in VMState, NEW a \in VMAddresses,
           NEW D \in SUBSET (DOMAIN b), NEW i \in DOMAIN b \ D
    PROVE  /\ BalanceAfter(b, s, D \cup {i}, a) =
                  BalanceAfter(b, s, D, a) - Debit(b, a)[i] + Credit(b, a)[i]
           /\ NonceAfter(b, s, D \cup {i}, a) = NonceAfter(b, s, D, a) + Sent(b, a)[i]
PROOF
<1> DEFINE f == Debit(b, a)
           g == Credit(b, a)
           h == Sent(b, a)
<1>1. IsFiniteSet(D) /\ i \notin D
    BY DomainFinite
<1>2. \A j \in D \cup {i} : f[j] \in Nat /\ g[j] \in Nat /\ h[j] \in Nat
    BY MovesNat
<1>3. s.accounts[a].balance \in Int /\ s.accounts[a].nonce \in Int
    BY BalancesInt DEF VMState, Account
<1> HIDE DEF f, g, h
<1>4. /\ \A j \in D \cup {i} : f[j] \in Int
      /\ \A j \in D \cup {i} : g[j] \in Int
      /\ \A j \in D \cup {i} : h[j] \in Int
    BY <1>2
<1>5. /\ SumFunctionOnSet(f, D \cup {i}) = f[i] + SumFunctionOnSet(f, D)
      /\ SumFunctionOnSet(g, D \cup {i}) = g[i] + SumFunctionOnSet(g, D)
      /\ SumFunctionOnSet(h, D \cup {i}) = h[i] + SumFunctionOnSet(h, D)
    BY <1>1, <1>4, SumAdd
<1>6. /\ \A j \in D : f[j] \in Int
      /\ \A j \in D : g[j] \in Int
      /\ \A j \in D : h[j] \in Int
    BY <1>4
<1>7. /\ SumFunctionOnSet(f, D) \in Int
      /\ SumFunctionOnSet(g, D) \in Int
      /\ SumFunctionOnSet(h, D) \in Int
    BY <1>1, <1>6, SumInt
<1>8. f[i] \in Int /\ g[i] \in Int /\ h[i] \in Int
    BY <1>4
<1> DEFINE x == s.accounts[a].balance
           n == s.accounts[a].nonce
           E == D \cup {i}
<1>9. /\ BalanceAfter(b, s, D, a) = x - SumFunctionOnSet(f, D) + SumFunctionOnSet(g, D)
      /\ BalanceAfter(b, s, E, a) = x - SumFunctionOnSet(f, E) + SumFunctionOnSet(g, E)
      /\ NonceAfter(b, s, D, a) = n + SumFunctionOnSet(h, D)
      /\ NonceAfter(b, s, E, a) = n + SumFunctionOnSet(h, E)
    BY DEF f, g, h, BalanceAfter, NonceAfter
<1> HIDE DEF x, n, E
<1>10. x \in Int /\ n \in Int
    BY <1>3 DEF x, n
<1>11. /\ SumFunctionOnSet(f, E) = f[i] + SumFunctionOnSet(f, D)
       /\ SumFunctionOnSet(g, E) = g[i] + SumFunctionOnSet(g, D)
       /\ SumFunctionOnSet(h, E) = h[i] + SumFunctionOnSet(h, D)
    BY <1>5 DEF E
<1>12. /\ BalanceAfter(b, s, E, a) = BalanceAfter(b, s, D, a) - f[i] + g[i]
       /\ NonceAfter(b, s, E, a) = NonceAfter(b, s, D, a) + h[i]
    <2> DEFINE sf == SumFunctionOnSet(f, D)
               sg == SumFunctionOnSet(g, D)
               sh == SumFunctionOnSet(h, D)
    <2>1. BalanceAfter(b, s, E, a) = x - (f[i] + sf) + (g[i] + sg)
        BY <1>9, <1>11
    <2>2. BalanceAfter(b, s, D, a) = x - sf + sg
        BY <1>9
    <2>3. NonceAfter(b, s, E, a) = n + (h[i] + sh) /\ NonceAfter(b, s, D, a) = n + sh
        BY <1>9, <1>11
    <2>4. sf \in Int /\ sg \in Int /\ sh \in Int
        BY <1>7
    <2> HIDE DEF sf, sg, sh
    <2>5. x - (f[i] + sf) + (g[i] + sg) = (x - sf + sg) - f[i] + g[i]
        BY <1>8, <1>10, <2>4
    <2>6. n + (h[i] + sh) = (n + sh) + h[i]
        BY <1>8, <1>10, <2>4
    <2> QED
        BY <2>1, <2>2, <2>3, <2>5, <2>6
<1> QED
    BY <1>12 DEF f, g, h, E

\* A transaction that moves nothing of an account and does not deploy to it
\* leaves it as it is.
LEMMA AfterKeeps ==
    ASSUME NEW b \in Seq(VMTxs), NEW s \in VMState, NEW a \in VMAddresses, Funded(b, s), FitsWord(b, s),
           NEW D \in SUBSET (DOMAIN b), NEW i \in DOMAIN b \ D,
           ~(b[i].kind = "ContractDeploy" /\ b[i].contract = a),
           IsTransfer(b[i]) => a \notin {b[i].from, Receiver(b[i])}
    PROVE  /\ Deployers(b, D \cup {i}, a) = Deployers(b, D, a)
           /\ AccountAfter(b, s, D \cup {i}, a) = AccountAfter(b, s, D, a)
PROOF
<1>1. Deployers(b, D \cup {i}, a) = Deployers(b, D, a)
    BY DEF Deployers
<1>2. Debit(b, a)[i] = 0 /\ Credit(b, a)[i] = 0 /\ Sent(b, a)[i] = 0
    BY DEF Debit, Credit, Sent, Pays
<1>3. BalanceAfter(b, s, D, a) \in Int /\ NonceAfter(b, s, D, a) \in Int
    <2>1. BalanceAfter(b, s, D, a) \in 0..(Word - 1) /\ NonceAfter(b, s, D, a) \in Nat
        BY BalanceAfterFits
    <2> QED
        BY <2>1, WordAssumption
<1>4. /\ BalanceAfter(b, s, D \cup {i}, a) = BalanceAfter(b, s, D, a)
      /\ NonceAfter(b, s, D \cup {i}, a) = NonceAfter(b, s, D, a)
    BY <1>2, <1>3, AfterMoves
<1> QED
    BY <1>1, <1>4 DEF AccountAfter

\* Nothing executed: the state is the one before.
LEMMA AfterNothing ==
    ASSUME NEW b, NEW s \in VMState
    PROVE  After(b, s, {}) = s
PROOF
<1>1. \A a \in VMAddresses : Deployers(b, {}, a) = {}
    BY DEF Deployers
<1>2. \A a \in VMAddresses : AccountAfter(b, s, {}, a) = s.accounts[a]
    <2> TAKE a \in VMAddresses
    <2>1. /\ SumFunctionOnSet(Debit(b, a), {}) = 0
          /\ SumFunctionOnSet(Credit(b, a), {}) = 0
          /\ SumFunctionOnSet(Sent(b, a), {}) = 0
        BY SumEmpty
    <2>2. s.accounts[a] \in [balance : Int, nonce : Int]
        BY WordAssumption DEF VMState, Account, Amount
    <2>3. BalanceAfter(b, s, {}, a) = s.accounts[a].balance /\ NonceAfter(b, s, {}, a) = s.accounts[a].nonce
        BY <2>1, <2>2 DEF BalanceAfter, NonceAfter
    <2> QED
        BY <1>1, <2>2, <2>3 DEF AccountAfter
<1>3. s.accounts = [a \in VMAddresses |-> s.accounts[a]] /\ s = [accounts |-> s.accounts, contracts |-> s.contracts]
    BY DEF VMState
<1> QED
    BY <1>1, <1>2, <1>3 DEF After

\* A transfer of the block.
LEMMA TransferStep ==
    ASSUME NEW b \in Seq(VMTxs), NEW s \in VMState, Orderly(b, s),
           NEW D \in SUBSET (DOMAIN b), NEW i \in DOMAIN b \ D, IsTransfer(b[i])
    PROVE  ExecuteTransfer(b[i], After(b, s, D)) = Outcome(After(b, s, D \cup {i}), TRUE)
PROOF
<1> DEFINE tx == b[i]
           from == tx.from
           to == Receiver(tx)
           r == After(b, s, D)
           E == D \cup {i}
<1>1. /\ from \in VMAddresses /\ to \in VMAddresses /\ tx.value \in Nat /\ tx.gas \in Nat
      /\ \A j \in DOMAIN b : b[j].contract # from
    BY TxTypes
<1>2. Funded(b, s) /\ Independent(b) /\ FitsWord(b, s) /\ Word \in Nat \ {0}
    BY WordAssumption DEF Orderly
<1>3. tx.kind # "ContractDeploy"
    BY DEF IsTransfer
\* Nobody deploys to the two accounts.
<1>4. \A a \in {from, to} : Deployers(b, D, a) = {} /\ Deployers(b, E, a) = {}
    BY <1>1, <1>2, <1>3 DEF Deployers, Independent
<1>5. \A a \in VMAddresses : /\ BalanceAfter(b, s, D, a) \in 0..(Word - 1) /\ NonceAfter(b, s, D, a) \in Nat
                             /\ BalanceAfter(b, s, E, a) \in 0..(Word - 1)
    <2>1. E \in SUBSET (DOMAIN b)
        OBVIOUS
    <2> QED
        BY <1>2, <2>1, BalanceAfterFits
<1>6. tx.value + tx.gas <= BalanceAfter(b, s, D, from)
    BY <1>1, <1>2, BalanceAfterFits
<1>7. TotalCost(tx) = tx.value + tx.gas
    <2>1. tx.value + tx.gas \in 0..(Word - 1)
        BY <1>1, <1>2, <1>5, <1>6
    <2> QED
        BY <1>2, <2>1, ModSmall DEF TotalCost
<1>8. \A a \in {from, to} : r.accounts[a] = [balance |-> BalanceAfter(b, s, D, a), nonce |-> NonceAfter(b, s, D, a)]
    BY <1>1, <1>4 DEF After, AccountAfter
<1>9. ~(r.accounts[from].balance < TotalCost(tx))
    BY <1>1, <1>2, <1>5, <1>6, <1>7, <1>8
<1> DEFINE A == [a \in VMAddresses |-> IF a \in {from, to} THEN Apply(r.accounts[a], TransferChanges(tx)[a])
                                     ELSE r.accounts[a]]
<1>10. ExecuteTransfer(tx, r) = Outcome([accounts |-> A, contracts |-> r.contracts], TRUE)
    <2>1. DOMAIN TransferChanges(tx) = {from, to}
        BY DEF TransferChanges
    <2>2. [r EXCEPT !.accounts = A] = [accounts |-> A, contracts |-> r.contracts]
        <3>1. r = [accounts |-> r.accounts, contracts |-> r.contracts]
            BY DEF After
        <3> HIDE DEF A, r
        <3> QED
            BY <3>1
    <2> QED
        BY <1>9, <2>1, <2>2 DEF ExecuteTransfer
<1>11. \A a \in VMAddresses : r.accounts[a] = AccountAfter(b, s, D, a)
    BY DEF After
<1>12. ASSUME NEW a \in VMAddresses
       PROVE  Deployers(b, E, a) = Deployers(b, D, a)
    BY <1>3 DEF Deployers
<1>13. ASSUME NEW a \in VMAddresses, a \notin {from, to}
       PROVE  A[a] = AccountAfter(b, s, E, a)
    BY <1>2, <1>3, <1>11, <1>13, AfterKeeps
<1>14. \A a \in {from, to} : AccountAfter(b, s, E, a) =
               [balance |-> BalanceAfter(b, s, E, a), nonce |-> NonceAfter(b, s, E, a)]
    BY <1>4 DEF AccountAfter
<1>15. A[to] = AccountAfter(b, s, E, to)
    <2>1. Debit(b, to)[i] = 0 /\ Credit(b, to)[i] = tx.value /\ Sent(b, to)[i] = 0
        BY DEF Debit, Credit, Sent, Pays
    <2>2. /\ BalanceAfter(b, s, E, to) = BalanceAfter(b, s, D, to) + tx.value
          /\ NonceAfter(b, s, E, to) = NonceAfter(b, s, D, to) + 0
        <3>1. /\ BalanceAfter(b, s, E, to) =
                     BalanceAfter(b, s, D, to) - Debit(b, to)[i] + Credit(b, to)[i]
              /\ NonceAfter(b, s, E, to) = NonceAfter(b, s, D, to) + Sent(b, to)[i]
            BY <1>1, AfterMoves
        <3>2. BalanceAfter(b, s, D, to) \in Int
            BY <1>1, <1>2, <1>5
        <3> HIDE DEF to, tx, E
        <3> QED
            BY <1>1, <2>1, <3>1, <3>2
    <2>3. TransferChanges(tx)[to] = [balance_delta |-> tx.value, nonce_delta |-> 0]
        BY DEF TransferChanges
    <2>4. A[to] = Apply(r.accounts[to], TransferChanges(tx)[to])
        BY <1>1
    <2>5. (BalanceAfter(b, s, D, to) + tx.value) % Word = BalanceAfter(b, s, E, to)
        BY <1>1, <1>2, <1>5, <2>2, ModSmall
    <2> QED
        <3> HIDE DEF A, r, E, from, to, tx
        <3> QED
            BY <1>8, <1>14, <2>2, <2>3, <2>5, <2>4 DEF Apply
<1>16. ASSUME from # to
       PROVE  A[from] = AccountAfter(b, s, E, from)
    <2>1. /\ Debit(b, from)[i] = tx.value + tx.gas
          /\ Credit(b, from)[i] = 0 /\ Sent(b, from)[i] = 1
        BY <1>16 DEF Debit, Credit, Sent, Pays
    <2>2. /\ BalanceAfter(b, s, E, from) = BalanceAfter(b, s, D, from) + (-TotalCost(tx))
          /\ NonceAfter(b, s, E, from) = NonceAfter(b, s, D, from) + 1
        <3>1. /\ BalanceAfter(b, s, E, from) =
                     BalanceAfter(b, s, D, from) - Debit(b, from)[i] + Credit(b, from)[i]
              /\ NonceAfter(b, s, E, from) = NonceAfter(b, s, D, from) + Sent(b, from)[i]
            BY <1>1, AfterMoves
        <3>2. BalanceAfter(b, s, D, from) \in Int
            BY <1>1, <1>2, <1>5
        <3> HIDE DEF from, tx, E
        <3> QED
            BY <1>1, <1>7, <2>1, <3>1, <3>2
    <2>3. TransferChanges(tx)[from] = [balance_delta |-> -TotalCost(tx), nonce_delta |-> 1]
        BY <1>16 DEF TransferChanges
    <2>4. A[from] = Apply(r.accounts[from], TransferChanges(tx)[from])
        BY <1>1
    <2>5. (BalanceAfter(b, s, D, from) + (-TotalCost(tx))) % Word = BalanceAfter(b, s, E, from)
        BY <1>1, <1>2, <1>5, <2>2, ModSmall
    <2> QED
        <3> HIDE DEF A, r, E, from, to, tx
        <3> QED
            BY <1>8, <1>14, <2>2, <2>3, <2>5, <2>4 DEF Apply
<1>17. \A a \in VMAddresses : A[a] = AccountAfter(b, s, E, a)
    BY <1>13, <1>15, <1>16
<1>18. After(b, s, E) = [accounts |-> A, contracts |-> r.contracts]
    <2>1. A = [a \in VMAddresses |-> AccountAfter(b, s, E, a)]
        BY <1>17
    <2>2. r.contracts = s.contracts \cup {a \in VMAddresses : Deployers(b, E, a) # {}}
        BY <1>12 DEF After
    <2> QED
        BY <2>1, <2>2 DEF After
<1> QED
    BY <1>10, <1>18

\* A deployment of the block.
LEMMA DeployStep ==
    ASSUME NEW b \in Seq(VMTxs), NEW s \in VMState, Orderly(b, s),
           NEW D \in SUBSET (DOMAIN b), NEW i \in DOMAIN b \ D, b[i].kind = "ContractDeploy"
    PROVE  ExecuteContractDeploy(b[i], After(b, s, D)) = Outcome(After(b, s, D \cup {i}), TRUE)
PROOF
<1> DEFINE tx == b[i]
           c == tx.contract
           r == After(b, s, D)
           E == D \cup {i}
           A == [r.accounts EXCEPT ![c] = [balance |-> tx.value, nonce |-> 0]]
<1>1. c \in VMAddresses
    BY TxTypes
<1>2. Funded(b, s) /\ Independent(b) /\ FitsWord(b, s)
    BY DEF Orderly
<1>3. Deployers(b, E, c) = {i}
    BY <1>2 DEF Deployers, Independent
<1>4. ~IsTransfer(tx)
    BY DEF IsTransfer
<1>5. \A a \in VMAddresses \ {c} : /\ Deployers(b, E, a) = Deployers(b, D, a)
                                   /\ AccountAfter(b, s, E, a) = AccountAfter(b, s, D, a)
    BY <1>2, <1>4, AfterKeeps
<1>6. AccountAfter(b, s, E, c) = [balance |-> tx.value, nonce |-> 0]
    <2>1. (CHOOSE j \in Deployers(b, E, c) : TRUE) = i
        BY <1>3
    <2> QED
        BY <1>3, <2>1 DEF AccountAfter
<1>7. A = [a \in VMAddresses |-> AccountAfter(b, s, E, a)]
    <2>1. r.accounts = [a \in VMAddresses |-> AccountAfter(b, s, D, a)]
        BY DEF After
    <2> HIDE DEF r, E, c, tx
    <2> QED
        BY <1>1, <1>5, <1>6, <2>1
<1>8. r.contracts \cup {c} = s.contracts \cup {a \in VMAddresses : Deployers(b, E, a) # {}}
    <2>1. r.contracts = s.contracts \cup {a \in VMAddresses : Deployers(b, D, a) # {}}
        BY DEF After
    <2> HIDE DEF r, E, c, tx
    <2> QED
        BY <1>1, <1>3, <1>5, <2>1
<1>9. After(b, s, E) = [accounts |-> A, contracts |-> r.contracts \cup {c}]
    BY <1>7, <1>8 DEF After
<1> QED
    BY <1>9 DEF ExecuteContractDeploy

\* Any transaction of the block: whatever was executed before, it has the
\* outcome it has alone.
LEMMA OrderlyStep ==
    ASSUME NEW b \in Seq(VMTxs), NEW s \in VMState, Orderly(b, s),
           NEW D \in SUBSET (DOMAIN b), NEW i \in DOMAIN b \ D
    PROVE  /\ ExecuteTransaction(b[i], After(b, s, D)).state = After(b, s, D \cup {i})
           /\ ExecuteTransaction(b[i], After(b, s, D)).success = Succeeds(b[i], s)
PROOF
<1> DEFINE tx == b[i]
           r == After(b, s, D)
           E == D \cup {i}
<1>1. tx.kind \in Kinds /\ Receiver(tx) \in VMAddresses
    BY TxTypes
<1>2. Funded(b, s) /\ Independent(b) /\ FitsWord(b, s)
    BY DEF Orderly
<1>3. CASE IsTransfer(tx)
    <2>1. ExecuteTransaction(tx, r) = ExecuteTransfer(tx, r)
        BY <1>3 DEF ExecuteTransaction, ExecutePrivateTransfer, IsTransfer
    <2>2. ExecuteTransaction(tx, r) = Outcome(After(b, s, E), TRUE)
        BY <1>3, <2>1, TransferStep
    <2>3. Succeeds(tx, s) = TRUE
        BY <1>3 DEF Succeeds, IsTransfer
    <2> QED
        BY <2>2, <2>3 DEF Outcome
<1>4. CASE tx.kind = "ContractDeploy"
    <2>1. ExecuteTransaction(tx, r) = ExecuteContractDeploy(tx, r)
        BY <1>4 DEF ExecuteTransaction
    <2>2. ExecuteTransaction(tx, r) = Outcome(After(b, s, E), TRUE)
        BY <1>4, <2>1, DeployStep
    <2>3. Succeeds(tx, s) = TRUE
        BY <1>4 DEF Succeeds
    <2> QED
        BY <2>2, <2>3 DEF Outcome
<1>5. CASE tx.kind \in {"ContractCall", "Stake"}
    <2>1. ~IsTransfer(tx) /\ tx.kind # "ContractDeploy"
        BY <1>5 DEF IsTransfer
    <2>2. \A a \in VMAddresses : /\ Deployers(b, E, a) = Deployers(b, D, a)
                                 /\ AccountAfter(b, s, E, a) = AccountAfter(b, s, D, a)
        BY <1>2, <2>1, AfterKeeps
    <2>3. After(b, s, E) = r
        <3> HIDE DEF E
        <3> QED
            BY <2>2 DEF After
    <2>4. ExecuteTransaction(tx, r).state = r
        BY <1>5 DEF ExecuteTransaction, ExecuteContractCall, Outcome
    <2>5. Deployers(b, D, Receiver(tx)) = {}
        BY <1>2, <2>1 DEF Independent, Deployers
    <2>6. Receiver(tx) \in r.contracts <=> Receiver(tx) \in s.contracts
        BY <1>1, <2>5 DEF After
    <2>7. ExecuteTransaction(tx, r).success = Succeeds(tx, s)
        <3>1. CASE tx.kind = "ContractCall"
            <4>1. ExecuteTransaction(tx, r).success = (Receiver(tx) \in r.contracts)
                BY <3>1 DEF ExecuteTransaction, ExecuteContractCall, Outcome
            <4>2. Succeeds(tx, s) = (Receiver(tx) \in s.contracts)
                BY <2>1, <3>1 DEF Succeeds
            <4> QED
                BY <2>6, <4>1, <4>2
        <3>2. CASE tx.kind = "Stake"
            <4>1. ExecuteTransaction(tx, r).success = FALSE
                BY <3>2 DEF ExecuteTransaction, Outcome
            <4>2. Succeeds(tx, s) = FALSE
                BY <2>1, <3>2 DEF Succeeds
            <4> QED
                BY <4>1, <4>2
        <3> QED
            BY <1>5, <3>1, <3>2
    <2> QED
        BY <2>3, <2>4, <2>7
<1> QED
    BY <1>1, <1>3, <1>4, <1>5 DEF Kinds, IsTransfer

-----------------------------------------------------------------------------
\* What Serial unfolds to: run[n] is the outcome of the first n transactions.
IsRun(run, b, s) ==
    run = [n \in 0..Len(b) |->
              IF n = 0 THEN [state |-> s, results |-> <<>>]
              ELSE LET outcome == ExecuteTransaction(b[n], run[n - 1].state)
                   IN  [state |-> outcome.state, results |-> Append(run[n - 1].results, outcome.success)]]

\* The outcome of the first n transactions of an orderly block.
Prefix(b, s, n) == [state |-> After(b, s, 1..n), results |-> [i \in 1..n |-> Succeeds(b[i], s)]]

\* The serial execution of one more transaction.
LEMMA PrefixStep ==
    ASSUME NEW b \in Seq(VMTxs), NEW s \in VMState, Orderly(b, s), NEW n \in 1..Len(b)
    PROVE  /\ ExecuteTransaction(b[n], Prefix(b, s, n - 1).state).state = Prefix(b, s, n).state
           /\ Append(Prefix(b, s, n - 1).results, ExecuteTransaction(b[n], Prefix(b, s, n - 1).state).success) =
                  Prefix(b, s, n).results
PROOF
<1> DEFINE D == 1..(n - 1)
           g(i) == Succeeds(b[i], s)
<1>1. D \in SUBSET (DOMAIN b) /\ n \in DOMAIN b \ D /\ D \cup {n} = 1..n
    OBVIOUS
<1>2. /\ ExecuteTransaction(b[n], After(b, s, D)).state = After(b, s, D \cup {n})
      /\ ExecuteTransaction(b[n], After(b, s, D)).success = g(n)
    BY <1>1, OrderlyStep
<1>3. Prefix(b, s, n - 1).state = After(b, s, D) /\ Prefix(b, s, n).state = After(b, s, D \cup {n})
    BY <1>1 DEF Prefix
<1>4. Append([i \in 1..(n - 1) |-> g(i)], g(n)) = [i \in 1..n |-> g(i)]
    <2> HIDE DEF g
    <2>1. n - 1 \in Nat
        OBVIOUS
    <2> DEFINE T == {g(i) : i \in 1..n}
               t == [i \in 1..(n - 1) |-> g(i)]
    <2>2. t \in Seq(T) /\ Len(t) = n - 1 /\ g(n) \in T
        OBVIOUS
    <2>3. DOMAIN Append(t, g(n)) = 1..n /\ Append(t, g(n)) \in Seq(T)
        BY <2>2
    <2>4. \A i \in 1..n : Append(t, g(n))[i] = g(i)
        BY <2>2
    <2> QED
        BY <2>3, <2>4
<1> QED
    BY <1>2, <1>3, <1>4 DEF Prefix

\* The serial execution ends in the state after all of the block.
LEMMA SerialOutcome ==
    ASSUME NEW b \in Seq(VMTxs), NEW s \in VMState, Orderly(b, s)
    PROVE  Serial(b, s) = Prefix(b, s, Len(b))
PROOF
<1> DEFINE N == Len(b)
           f == [n \in 0..N |-> Prefix(b, s, n)]
           run == CHOOSE r : IsRun(r, b, s)
<1>1. N \in Nat
    OBVIOUS
<1>2. Prefix(b, s, 0) = [state |-> s, results |-> <<>>]
    <2>1. 1..0 = {}
        OBVIOUS
    <2>2. After(b, s, 1..0) = s
        BY <2>1, AfterNothing
    <2>3. [i \in 1..0 |-> Succeeds(b[i], s)] = <<>>
        OBVIOUS
    <2> QED
        BY <2>2, <2>3 DEF Prefix
\* Step n from a prefix, as the definition of run takes it.
<1> DEFINE Step(p, n) == LET outcome == ExecuteTransaction(b[n], p.state)
                         IN  [state |-> outcome.state, results |-> Append(p.results, outcome.success)]
<1>3. \A n \in 1..N : Step(Prefix(b, s, n - 1), n) = Prefix(b, s, n)
    <2> TAKE n \in 1..N
    <2>1. Prefix(b, s, n) = [state |-> Prefix(b, s, n).state, results |-> Prefix(b, s, n).results]
        BY DEF Prefix
    <2> QED
        BY <2>1, PrefixStep
<1>4. IsRun(f, b, s)
    <2>1. \A n \in 0..N : f[n] = IF n = 0 THEN [state |-> s, results |-> <<>>] ELSE Step(f[n - 1], n)
        <3> TAKE n \in 0..N
        <3>1. CASE n = 0
            BY <1>1, <1>2, <3>1
        <3>2. CASE n # 0
            <4>1. n \in 1..N /\ n - 1 \in 0..N /\ f[n] = Prefix(b, s, n) /\ f[n - 1] = Prefix(b, s, n - 1)
                BY <1>1, <3>2
            <4> HIDE DEF f, Step
            <4> QED
                BY <1>3, <3>2, <4>1
        <3> QED
            BY <3>1, <3>2
    <2>2. f = [n \in 0..N |-> f[n]]
        OBVIOUS
    <2>3. f = [n \in 0..N |-> IF n = 0 THEN [state |-> s, results |-> <<>>] ELSE Step(f[n - 1], n)]
        <3> HIDE DEF f, Step
        <3> QED
            BY <2>1, <2>2
    <2> HIDE DEF f
    <2> QED
        BY <2>3 DEF IsRun
<1>5. IsRun(run, b, s)
    BY <1>4
<1> HIDE DEF run, f
<1>6. \A n \in 0..N : run[n] = IF n = 0 THEN [state |-> s, results |-> <<>>] ELSE Step(run[n - 1], n)
    BY <1>5 DEF IsRun
<1> HIDE DEF Step
<1>7. \A n \in 0..N : run[n] = Prefix(b, s, n)
    <2> DEFINE P == {n \in 0..N : run[n] = Prefix(b, s, n)}
    <2>1. 0 \in P
        BY <1>1, <1>2, <1>6
    <2>2. \A n \in 0..(N - 1) : n \in P => n + 1 \in P
        <3> TAKE n \in 0..(N - 1)
        <3> HAVE n \in P
        <3>1. n + 1 \in 1..N /\ n + 1 \in 0..N /\ n + 1 # 0 /\ (n + 1) - 1 = n
            BY <1>1
        <3>2. run[n + 1] = Step(run[n], n + 1)
            BY <1>6, <3>1
        <3>3. run[n + 1] = Prefix(b, s, n + 1)
            BY <1>3, <3>1, <3>2
        <3> QED
            BY <3>1, <3>3
    <2> HIDE DEF P
    <2>3. \A n \in 0..N : n \in P
        BY <1>1, <2>1, <2>2, InductionUpTo
    <2> QED
        BY <2>3 DEF P
<1>8. Serial(b, s) = run[N]
    BY DEF Serial, run, IsRun
<1> QED
    BY <1>1, <1>7, <1>8

-----------------------------------------------------------------------------
\* The executor is between two transactions of a block: if the block is
\* orderly, the state is the one after those executed.
Underway ==
    /\ base \in VMState
    /\ results = [i \in DOMAIN block |-> results[i]]
    /\ Orderly(block, base) =>
           /\ state = After(block, base, DOMAIN block \ todo)
           /\ \A i \in DOMAIN block \ todo : results[i] = Succeeds(block[i], base)

SerialInv == ExecutorInv /\ Underway

\* Initially the block is empty.
LEMMA SerialInitInv == VMInit => SerialInv
PROOF
<1> SUFFICES ASSUME VMInit PROVE SerialInv
    OBVIOUS
<1>1. ExecutorInv
    BY ExecutorInitInv
<1>2. base \in VMState /\ state = base /\ block = <<>> /\ todo = {} /\ results = <<>>
    BY <1>1 DEF VMInit, ExecutorInv, ExecutorTypes
<1>3. DOMAIN block = {}
    BY <1>2
<1>4. DOMAIN block \ todo = {}
    BY <1>3
<1>5. After(block, base, {}) = base
    BY <1>2, AfterNothing
<1>6. results = [i \in DOMAIN block |-> results[i]]
    BY <1>2, <1>3
<1> QED
    BY <1>1, <1>2, <1>4, <1>5, <1>6 DEF SerialInv, Underway

\* Executing any of the transactions left, in any order.
LEMMA SerialExecuteInv ==
    ASSUME SerialInv, NEW i \in todo, Execute(i)
    PROVE  Underway'
PROOF
<1>1. PICK b \in Seq(VMTxs) : b = block
    BY DEF SerialInv, ExecutorInv, ExecutorTypes
<1>2. PICK s \in VMState : s = base
    BY DEF SerialInv, Underway
<1>3. PICK D : D = DOMAIN b \ todo
    OBVIOUS
<1>4. /\ state' = ExecuteTransaction(b[i], state).state
      /\ results' = [results EXCEPT ![i] = ExecuteTransaction(b[i], state).success]
      /\ todo' = todo \ {i} /\ block' = b /\ base' = s
    BY <1>1, <1>2 DEF Execute
<1>5. i \in DOMAIN b \ D /\ D \in SUBSET (DOMAIN b) /\ DOMAIN block' \ todo' = D \cup {i}
    BY <1>1, <1>3, <1>4 DEF SerialInv, ExecutorInv, ExecutorTypes
<1>6. results = [j \in DOMAIN b |-> results[j]]
    BY <1>1 DEF SerialInv, Underway
<1>7. results' = [j \in DOMAIN b |-> results'[j]]
    BY <1>4, <1>6
<1>8. ASSUME Orderly(b, s)
      PROVE  /\ state' = After(b, s, D \cup {i})
             /\ \A j \in D \cup {i} : results'[j] = Succeeds(b[j], s)
    <2>1. state = After(b, s, D) /\ \A j \in D : results[j] = Succeeds(b[j], s)
        BY <1>1, <1>2, <1>3, <1>8 DEF SerialInv, Underway
    <2>2. /\ ExecuteTransaction(b[i], state).state = After(b, s, D \cup {i})
          /\ ExecuteTransaction(b[i], state).success = Succeeds(b[i], s)
        BY <1>5, <1>8, <2>1, OrderlyStep
    <2>3. results'[i] = Succeeds(b[i], s)
        BY <1>4, <1>5, <1>6, <2>2
    <2>4. \A j \in D : results'[j] = results[j]
        BY <1>4, <1>5, <1>6
    <2> QED
        BY <1>4, <2>1, <2>2, <2>3, <2>4
<1> QED
    BY <1>4, <1>5, <1>7, <1>8 DEF Underway

\* Every step keeps the invariant.
LEMMA SerialNextInv == SerialInv /\ [VMNext]_vmVars => SerialInv'
PROOF
<1> SUFFICES ASSUME SerialInv, [VMNext]_vmVars PROVE Underway'
    BY ExecutorNextInv DEF SerialInv
<1>1. ASSUME NEW b \in Blocks, NEW inParallel \in BOOLEAN, StartBlock(b, inParallel)
      PROVE  Underway'
    <2>1. /\ state' = state /\ block' = b /\ todo' = DOMAIN b /\ base' = state
          /\ results' = [i \in DOMAIN b |-> FALSE]
        BY <1>1 DEF StartBlock
    <2>2. state \in VMState
        BY DEF SerialInv, ExecutorInv, ExecutorTypes
    <2>3. DOMAIN block' \ todo' = {}
        BY <2>1
    <2>4. After(b, state, {}) = state
        BY <2>2, AfterNothing
    <2>5. results' = [i \in DOMAIN block' |-> results'[i]]
        BY <2>1
    <2> QED
        BY <2>1, <2>2, <2>3, <2>4, <2>5 DEF Underway
<1>2. CASE ExecuteBlockParallel
    BY <1>2, SerialExecuteInv DEF ExecuteBlockParallel
<1>3. CASE ExecuteBlockSequential
    BY <1>3, SerialExecuteInv, FirstTodo DEF ExecuteBlockSequential, SerialInv
<1>4. CASE UNCHANGED vmVars
    BY <1>4 DEF vmVars, SerialInv, Underway
<1> QED
    BY <1>1, <1>2, <1>3, <1>4 DEF VMNext

\* execute_block_parallel has the outcome of the serial execution, state and
\* results, in whatever order the pool takes the transactions, for every block
\* whose senders are funded beforehand and which uses no contract it deploys.
THEOREM ParallelIsSerial == VMSpec => []FundedBlocksAreSerial
PROOF
<1>1. SerialInv => FundedBlocksAreSerial
    <2> SUFFICES ASSUME SerialInv, todo = {}, Orderly(block, base)
                 PROVE  [state |-> state, results |-> results] = Serial(block, base)
        BY DEF FundedBlocksAreSerial, Orderly
    <2>1. block \in Seq(VMTxs) /\ base \in VMState
        BY DEF SerialInv, ExecutorInv, ExecutorTypes, Underway
    <2>2. DOMAIN block \ todo = 1..Len(block) /\ DOMAIN block = 1..Len(block)
        BY <2>1
    <2>3. /\ state = After(block, base, 1..Len(block))
          /\ results = [i \in 1..Len(block) |-> results[i]]
          /\ \A i \in 1..Len(block) : results[i] = Succeeds(block[i], base)
        BY <2>2 DEF SerialInv, Underway
    <2>4. results = [i \in 1..Len(block) |-> Succeeds(block[i], base)]
        BY <2>3
    <2>5. Serial(block, base) = Prefix(block, base, Len(block))
        BY <2>1, SerialOutcome
    <2> QED
        BY <2>3, <2>4, <2>5 DEF Prefix
<1> QED
    BY <1>1, SerialInitInv, SerialNextInv, PTL DEF VMSpec
=============================================================================
