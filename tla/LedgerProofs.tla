----------------------------- MODULE LedgerProofs -----------------------------
(***************************************************************************)
(* Proofs about what keeps value for its users, for every value of the     *)
(* constants: cross-shard transfers and the Rust contracts, each with an   *)
(* inductive invariant of its own.                                         *)
(***************************************************************************)
EXTENDS CrossShard, BridgeRs, PrivateTokenRs, DexRs, StakingRs,
        DataTheorems, FiniteSetTheorems, TLAPS

-----------------------------------------------------------------------------
(* Cross-shard transfers                                                   *)

ShardTypes ==
    /\ accounts \in [Shards -> [Users -> Nat]]
    /\ pending_transfers \in [Ids -> Transfers \cup {NoTransfer}]
    /\ \A i \in Ids : pending_transfers[i] # NoTransfer => pending_transfers[i].id = i
    /\ channel \in [ShardIds -> Seq(Transfers)]
    /\ \A s \in ShardIds : \A n \in 1..Len(channel[s]) : channel[s][n].target = s
    /\ delivered \subseteq Transfers
    /\ burned \in Nat /\ minted \in Nat /\ redeliveries \in Nat

ShardValue == Total(accounts) + InFlight + burned = Total(Balance0) + minted

\* Before the first retry nothing is minted, and what is dropped is pending.
ShardQueues ==
    redeliveries = 0 =>
        /\ minted = 0
        /\ \A i \in dropped : i \in Ids => pending_transfers[i] # NoTransfer
        /\ PendingIsQueued

ShardInv == ShardTypes /\ ShardValue /\ ShardQueues

-----------------------------------------------------------------------------
(* Sums                                                                    *)

LEMMA IdsFinite == IsFiniteSet(Ids) /\ \A tx \in Transfers : tx.id \in Ids
PROOF
<1> DEFINE f == [tx \in Transfers |-> tx.id]
<1>1. f \in Surjection(Transfers, Ids)
    BY DEF Surjection, Ids
<1>2. IsFiniteSet(Ids)
    BY <1>1, ShardsFinite, FS_Surjection
<1> QED
    BY <1>2 DEF Ids

\* Balances have an integer total.
LEMMA TotalInt ==
    ASSUME NEW b \in [Shards -> [Users -> Nat]]
    PROVE  Total(b) \in Int
PROOF
<1> DEFINE f == [x \in Shards |-> SumFunctionOnSet(b[x], Users)]
<1>1. ASSUME NEW x \in Shards
      PROVE  f[x] \in Int
    <2>1. \A y \in Users : b[x][y] \in Int
        OBVIOUS
    <2> QED
        BY <2>1, ShardsFinite, SumInt
<1>2. Total(b) = SumFunctionOnSet(f, Shards)
    BY DEF Total
<1> HIDE DEF f
<1> QED
    BY <1>1, <1>2, ShardsFinite, SumInt

\* The total follows a change of one balance.
LEMMA TotalUpdate ==
    ASSUME NEW b \in [Shards -> [Users -> Nat]], NEW s \in Shards, NEW u \in Users, NEW v \in Nat
    PROVE  /\ Total(b) \in Int
           /\ Total([b EXCEPT ![s][u] = v]) = Total(b) - b[s][u] + v
PROOF
<1> DEFINE c == [b EXCEPT ![s][u] = v]
           f == [x \in Shards |-> SumFunctionOnSet(b[x], Users)]
           g == [x \in Shards |-> SumFunctionOnSet(c[x], Users)]
<1>1. c \in [Shards -> [Users -> Nat]] /\ c[s][u] = v
      /\ (\A x \in Shards \ {s} : c[x] = b[x]) /\ (\A y \in Users \ {u} : c[s][y] = b[s][y])
    OBVIOUS
<1>2. Total(b) = SumFunctionOnSet(f, Shards) /\ Total(c) = SumFunctionOnSet(g, Shards)
    BY DEF Total
<1>3. \A x \in Shards : f[x] = SumFunctionOnSet(b[x], Users) /\ g[x] = SumFunctionOnSet(c[x], Users)
    OBVIOUS
<1> HIDE DEF c, f, g
<1>4. ASSUME NEW x \in Shards
      PROVE  f[x] \in Int /\ g[x] \in Int
    <2>1. \A y \in Users : b[x][y] \in Int /\ c[x][y] \in Int
        BY <1>1
    <2>2. SumFunctionOnSet(b[x], Users) \in Int /\ SumFunctionOnSet(c[x], Users) \in Int
        BY <2>1, ShardsFinite, SumInt
    <2> QED
        BY <1>3, <2>2
<1>5. g[s] = f[s] - b[s][u] + v
    <2>1. \A y \in Users : b[s][y] \in Int /\ c[s][y] \in Int
        BY <1>1
    <2>2. SumFunctionOnSet(c[s], Users) = SumFunctionOnSet(b[s], Users) - b[s][u] + c[s][u]
        BY <1>1, <2>1, ShardsFinite, SumUpdate
    <2> QED
        BY <1>1, <1>3, <2>2
<1>6. \A x \in Shards \ {s} : f[x] = g[x]
    BY <1>1, <1>3
<1>7. SumFunctionOnSet(g, Shards) = SumFunctionOnSet(f, Shards) - f[s] + g[s]
    BY <1>4, <1>6, ShardsFinite, SumUpdate
<1>8. SumFunctionOnSet(f, Shards) \in Int
    BY <1>4, ShardsFinite, SumInt
<1>9. b[s][u] \in Int
    OBVIOUS
<1>10. Total(c) = Total(b) - b[s][u] + v
    BY <1>2, <1>4, <1>5, <1>7, <1>8, <1>9
<1> QED
    BY <1>2, <1>8, <1>10 DEF c

Weight(x) == IF x = NoTransfer THEN 0 ELSE x.amount

\* The value in flight follows a change of one entry of the pending map.
LEMMA InFlightUpdate ==
    ASSUME ShardTypes, NEW i \in Ids, NEW x \in Transfers \cup {NoTransfer},
           pending_transfers' = [pending_transfers EXCEPT ![i] = x]
    PROVE  /\ InFlight \in Int
           /\ Weight(x) \in Nat /\ Weight(pending_transfers[i]) \in Nat
           /\ InFlight' = InFlight - Weight(pending_transfers[i]) + Weight(x)
PROOF
<1> DEFINE f == [k \in Ids |-> Weight(pending_transfers[k])]
           g == [k \in Ids |-> Weight(pending_transfers'[k])]
<1>1. InFlight = SumFunctionOnSet(f, Ids) /\ InFlight' = SumFunctionOnSet(g, Ids)
    BY DEF InFlight, Weight
<1>2. \A y \in Transfers \cup {NoTransfer} : Weight(y) \in Nat
    BY TransfersAssumption DEF Weight
<1>3. \A k \in Ids : f[k] \in Int /\ g[k] \in Int
    BY <1>2 DEF ShardTypes
<1>4. (\A k \in Ids \ {i} : f[k] = g[k]) /\ f[i] = Weight(pending_transfers[i]) /\ g[i] = Weight(x)
    BY DEF ShardTypes
<1> HIDE DEF f, g
<1>5. SumFunctionOnSet(g, Ids) = SumFunctionOnSet(f, Ids) - f[i] + g[i]
    BY <1>3, <1>4, IdsFinite, SumUpdate
<1>6. SumFunctionOnSet(f, Ids) \in Int
    BY <1>3, IdsFinite, SumInt
<1>7. Weight(pending_transfers[i]) \in Nat
    BY <1>2 DEF ShardTypes
<1> QED
    BY <1>1, <1>2, <1>4, <1>5, <1>6, <1>7

-----------------------------------------------------------------------------
(* Occurrences in a channel                                                *)

Count(s, tx) == Cardinality({n \in 1..Len(s) : s[n] = tx})

LEMMA CountType ==
    ASSUME NEW s \in Seq(Transfers), NEW tx
    PROVE  /\ IsFiniteSet({n \in 1..Len(s) : s[n] = tx})
           /\ Count(s, tx) \in Nat
           /\ Count(s, tx) = 0 <=> \A n \in 1..Len(s) : s[n] # tx
PROOF
<1> DEFINE P == {n \in 1..Len(s) : s[n] = tx}
<1>1. IsFiniteSet(1..Len(s))
    <2>1. 1 \in Int /\ Len(s) \in Int
        OBVIOUS
    <2> QED
        BY <2>1, FS_Interval
<1>2. IsFiniteSet(P)
    BY <1>1, FS_Subset
<1>3. Cardinality(P) \in Nat /\ (Cardinality(P) = 0 <=> P = {})
    BY <1>2, FS_CardinalityType, FS_EmptySet
<1> QED
    BY <1>2, <1>3 DEF Count

LEMMA CountAppend ==
    ASSUME NEW s \in Seq(Transfers), NEW x \in Transfers, NEW tx \in Transfers
    PROVE  Count(Append(s, x), tx) = IF tx = x THEN Count(s, tx) + 1 ELSE Count(s, tx)
PROOF
<1> DEFINE P == {n \in 1..Len(s) : s[n] = tx}
           Q == {n \in 1..Len(Append(s, x)) : Append(s, x)[n] = tx}
<1>1. IsFiniteSet(P)
    BY CountType
<1>2. Len(s) \in Nat /\ Len(s) + 1 \notin P
    OBVIOUS
<1>3. Q = IF tx = x THEN P \cup {Len(s) + 1} ELSE P
    <2>1. Len(Append(s, x)) = Len(s) + 1 /\ Append(s, x)[Len(s) + 1] = x
          /\ \A n \in 1..Len(s) : Append(s, x)[n] = s[n]
        OBVIOUS
    <2>2. 1..(Len(s) + 1) = (1..Len(s)) \cup {Len(s) + 1}
        BY <1>2
    <2> QED
        BY <2>1, <2>2
<1> HIDE DEF P, Q
<1>4. Cardinality(P \cup {Len(s) + 1}) = Cardinality(P) + 1
    BY <1>1, <1>2, FS_AddElement
<1>5. Cardinality(Q) = IF tx = x THEN Cardinality(P) + 1 ELSE Cardinality(P)
    BY <1>3, <1>4
<1> QED
    BY <1>5 DEF Count, P, Q

LEMMA CountTail ==
    ASSUME NEW s \in Seq(Transfers), s # <<>>, NEW tx \in Transfers
    PROVE  Count(Tail(s), tx) = IF tx = Head(s) THEN Count(s, tx) - 1 ELSE Count(s, tx)
PROOF
<1> DEFINE P == {n \in 1..Len(s) : s[n] = tx}
           Q == {n \in 1..Len(Tail(s)) : Tail(s)[n] = tx}
           R == P \ {1}
<1>1. Len(s) \in Nat \ {0} /\ Head(s) = s[1] /\ Len(Tail(s)) = Len(s) - 1
      /\ \A n \in 1..(Len(s) - 1) : Tail(s)[n] = s[n + 1]
    OBVIOUS
<1>2. IsFiniteSet(P) /\ IsFiniteSet(Q)
    <2>1. Tail(s) \in Seq(Transfers)
        OBVIOUS
    <2> QED
        BY <2>1, CountType
<1>3. Cardinality(R) = IF 1 \in P THEN Cardinality(P) - 1 ELSE Cardinality(P)
    BY <1>2, FS_RemoveElement
<1>4. 1 \in P <=> tx = Head(s)
    BY <1>1
<1>5. ExistsBijection(Q, R)
    <2> DEFINE f == [n \in Q |-> n + 1]
    <2>1. \A n \in Q : n \in Nat /\ n + 1 \in R
        BY <1>1
    <2>2. ASSUME NEW m \in R PROVE m - 1 \in Q /\ (m - 1) + 1 = m
        <3>1. m \in 1..Len(s) /\ m # 1 /\ s[m] = tx
            OBVIOUS
        <3>2. m - 1 \in 1..(Len(s) - 1) /\ (m - 1) + 1 = m
            BY <1>1, <3>1
        <3> QED
            BY <1>1, <3>1, <3>2
    <2> HIDE DEF Q, R
    <2>3. f \in [Q -> R] /\ \A n \in Q : f[n] = n + 1
        BY <2>1
    <2> HIDE DEF f
    <2>4. \A m, n \in Q : f[m] = f[n] => m = n
        BY <2>1, <2>3
    <2>5. \A m \in R : \E n \in Q : f[n] = m
        BY <2>2, <2>3
    <2>6. f \in Bijection(Q, R)
        BY <2>3, <2>4, <2>5 DEF Bijection, Injection, Surjection, IsInjective
    <2> QED
        BY <2>6 DEF ExistsBijection
<1>6. Cardinality(R) = Cardinality(Q)
    BY <1>2, <1>5, FS_Bijection
<1> QED
    BY <1>3, <1>4, <1>6 DEF Count

LEMMA QueuedIsCount ==
    ASSUME ShardTypes, NEW tx \in Transfers
    PROVE  tx.target \in ShardIds /\ Queued(tx) = Count(channel[tx.target], tx)
PROOF
    BY DEF Queued, Count, ShardIds

-----------------------------------------------------------------------------
(* The steps                                                               *)

LEMMA ShardInitInv == ShardInit => ShardInv
PROOF
<1> SUFFICES ASSUME ShardInit PROVE ShardInv
    OBVIOUS
<1>1. ShardTypes
    <2>1. pending_transfers \in [Ids -> Transfers \cup {NoTransfer}] /\ \A i \in Ids : pending_transfers[i] = NoTransfer
        BY DEF ShardInit
    <2>2. channel \in [ShardIds -> Seq(Transfers)] /\ \A s \in ShardIds : channel[s] = <<>>
        BY DEF ShardInit
    <2>3. \A s \in ShardIds : \A n \in 1..Len(channel[s]) : FALSE
        BY <2>2
    <2>4. accounts \in [Shards -> [Users -> Nat]]
        BY Balance0Assumption DEF ShardInit
    <2>5. delivered \subseteq Transfers /\ burned \in Nat /\ minted \in Nat /\ redeliveries \in Nat
        BY DEF ShardInit
    <2> QED
        BY <2>1, <2>2, <2>3, <2>4, <2>5 DEF ShardTypes
<1>2. ShardValue
    <2> DEFINE f == [i \in Ids |-> IF pending_transfers[i] = NoTransfer THEN 0 ELSE pending_transfers[i].amount]
    <2>1. \A i \in Ids : f[i] = 0
        BY DEF ShardInit
    <2>2. InFlight = SumFunctionOnSet(f, Ids)
        BY DEF InFlight
    <2> HIDE DEF f
    <2>3. InFlight = 0
        BY <2>1, <2>2, IdsFinite, SumZero
    <2>4. accounts = Balance0 /\ burned = 0 /\ minted = 0
        BY DEF ShardInit
    <2>5. Total(Balance0) \in Int
        BY Balance0Assumption, TotalInt
    <2> QED
        BY <2>3, <2>4, <2>5 DEF ShardValue
<1>3. ShardQueues
    <2>1. ASSUME NEW tx \in Transfers
          PROVE  Queued(tx) = 0 /\ pending_transfers[tx.id] = NoTransfer
        <3>1. channel[tx.target] = <<>> /\ channel[tx.target] \in Seq(Transfers)
            BY <1>1, QueuedIsCount DEF ShardInit
        <3>2. \A n \in 1..Len(channel[tx.target]) : FALSE
            BY <3>1
        <3>3. Count(channel[tx.target], tx) = 0
            BY <3>1, <3>2, CountType
        <3> QED
            BY <1>1, <3>3, QueuedIsCount, IdsFinite DEF ShardInit
    <2>2. minted = 0 /\ dropped = {}
        BY DEF ShardInit
    <2> QED
        BY <2>1, <2>2 DEF ShardQueues, PendingIsQueued
<1> QED
    BY <1>1, <1>2, <1>3 DEF ShardInv

\* A debit takes the amount out of the total.
LEMMA DebitTotal ==
    ASSUME ShardTypes, NEW tx \in Transfers, CanDebit(tx), Debit(tx)
    PROVE  /\ accounts' \in [Shards -> [Users -> Nat]]
           /\ Total(accounts) \in Int /\ Total(accounts') = Total(accounts) - tx.amount
PROOF
<1> DEFINE v == accounts[tx.source][tx.sender] - tx.amount
<1>1. tx.source \in Shards /\ tx.sender \in Users /\ tx.amount \in Nat
    BY TransfersAssumption DEF CanDebit
<1>2. accounts[tx.source][tx.sender] \in Nat /\ v \in Nat
    BY <1>1 DEF CanDebit, ShardTypes
<1>3. accounts' = [accounts EXCEPT ![tx.source][tx.sender] = v]
    BY DEF Debit
<1> HIDE DEF v
<1>4. Total(accounts) \in Int /\ Total(accounts') = Total(accounts) - accounts[tx.source][tx.sender] + v
    BY <1>1, <1>2, <1>3, TotalUpdate DEF ShardTypes
<1>5. accounts' \in [Shards -> [Users -> Nat]]
    BY <1>1, <1>2, <1>3 DEF ShardTypes
<1> QED
    BY <1>1, <1>2, <1>4, <1>5 DEF v

LEMMA CreditTotal ==
    ASSUME ShardTypes, NEW tx \in Transfers, tx.target \in Shards, Credit(tx)
    PROVE  /\ accounts' \in [Shards -> [Users -> Nat]]
           /\ Total(accounts) \in Int /\ Total(accounts') = Total(accounts) + tx.amount
PROOF
<1> DEFINE v == accounts[tx.target][tx.receiver] + tx.amount
<1>1. tx.receiver \in Users /\ tx.amount \in Nat
    BY TransfersAssumption
<1>2. accounts[tx.target][tx.receiver] \in Nat /\ v \in Nat
    BY <1>1 DEF ShardTypes
<1>3. accounts' = [accounts EXCEPT ![tx.target][tx.receiver] = v]
    BY DEF Credit
<1> HIDE DEF v
<1>4. Total(accounts) \in Int /\ Total(accounts') = Total(accounts) - accounts[tx.target][tx.receiver] + v
    BY <1>1, <1>2, <1>3, TotalUpdate DEF ShardTypes
<1>5. accounts' \in [Shards -> [Users -> Nat]]
    BY <1>1, <1>2, <1>3 DEF ShardTypes
<1> QED
    BY <1>1, <1>2, <1>4, <1>5 DEF v

\* A transfer that is submitted is pending, and queued unless it is dropped.
LEMMA SubmitInv ==
    ASSUME ShardInv, NEW tx \in Transfers, ProcessSubmit(tx)
    PROVE  ShardInv'
PROOF
<1>1. /\ CanDebit(tx) /\ Debit(tx) /\ pending_transfers[tx.id] = NoTransfer
      /\ pending_transfers' = [pending_transfers EXCEPT ![tx.id] = tx]
      /\ UNCHANGED <<delivered, burned, minted, redeliveries>>
    BY DEF ProcessSubmit
<1>2. tx.id \in Ids /\ tx.amount \in Nat /\ tx # NoTransfer /\ tx.target \in ShardIds /\ ShardTypes
    BY IdsFinite, TransfersAssumption, NoTransferAssumption DEF ShardInv, ShardIds
<1>3. accounts' \in [Shards -> [Users -> Nat]]
      /\ Total(accounts) \in Int /\ Total(accounts') = Total(accounts) - tx.amount
    BY <1>1, <1>2, DebitTotal
<1>4. InFlight \in Int /\ InFlight' = InFlight + tx.amount
    <2>1. InFlight \in Int /\ InFlight' = InFlight - Weight(pending_transfers[tx.id]) + Weight(tx)
        BY <1>1, <1>2, InFlightUpdate
    <2> QED
        BY <1>1, <1>2, <2>1 DEF Weight
<1>5. ShardValue'
    <2>1. Total(Balance0) + minted = Total(accounts) + InFlight + burned /\ burned \in Int
        BY <1>2 DEF ShardInv, ShardValue, ShardTypes
    <2>2. Total(accounts') + InFlight' + burned' = Total(Balance0) + minted'
        BY <1>1, <1>2, <1>3, <1>4, <2>1
    <2> QED
        BY <2>2 DEF ShardValue
<1>6. pending_transfers' \in [Ids -> Transfers \cup {NoTransfer}]
      /\ pending_transfers'[tx.id] = tx /\ \A i \in Ids \ {tx.id} : pending_transfers'[i] = pending_transfers[i]
    BY <1>1, <1>2 DEF ShardTypes
<1>7. CASE HasRoom(tx.target)
    <2>1. channel' = [channel EXCEPT ![tx.target] = Append(@, tx)] /\ dropped' = dropped
        BY <1>7 DEF ProcessSubmit
    <2>2. channel[tx.target] \in Seq(Transfers)
        BY <1>2 DEF ShardTypes
    <2>3. channel' \in [ShardIds -> Seq(Transfers)] /\ channel'[tx.target] = Append(channel[tx.target], tx)
          /\ \A s \in ShardIds \ {tx.target} : channel'[s] = channel[s]
        BY <1>2, <2>1, <2>2 DEF ShardTypes
    <2>4. \A s \in ShardIds : \A n \in 1..Len(channel'[s]) : channel'[s][n].target = s
        <3> TAKE s \in ShardIds
        <3>1. CASE s = tx.target
            <4>1. \A n \in 1..Len(channel'[s]) : channel'[s][n] = tx
                      \/ (n \in 1..Len(channel[s]) /\ channel'[s][n] = channel[s][n])
                BY <2>2, <2>3, <3>1
            <4> QED
                BY <1>2, <3>1, <4>1 DEF ShardTypes
        <3>2. CASE s # tx.target
            BY <1>2, <2>3, <3>2 DEF ShardTypes
        <3> QED
            BY <3>1, <3>2
    <2>5. ShardTypes'
        BY <1>1, <1>2, <1>3, <1>6, <2>3, <2>4 DEF ShardTypes
    <2>6. ShardQueues'
        <3> SUFFICES ASSUME redeliveries' = 0
                     PROVE  /\ minted' = 0
                            /\ \A i \in dropped' : i \in Ids => pending_transfers'[i] # NoTransfer
                            /\ \A ux \in Transfers : Queued(ux)' =
                                   IF pending_transfers'[ux.id] # NoTransfer /\ ux.id \notin dropped' THEN 1 ELSE 0
            BY DEF ShardQueues, PendingIsQueued
        <3>1. /\ minted = 0
              /\ \A i \in dropped : i \in Ids => pending_transfers[i] # NoTransfer
              /\ \A ux \in Transfers : Queued(ux) =
                     IF pending_transfers[ux.id] # NoTransfer /\ ux.id \notin dropped THEN 1 ELSE 0
            BY <1>1 DEF ShardInv, ShardQueues, PendingIsQueued
        <3>2. ASSUME NEW ux \in Transfers
              PROVE  Queued(ux)' = IF pending_transfers'[ux.id] # NoTransfer /\ ux.id \notin dropped' THEN 1 ELSE 0
            <4>1. Queued(ux) = Count(channel[ux.target], ux) /\ ux.target \in ShardIds
                BY <1>2, QueuedIsCount
            <4>2. Queued(ux)' = Count(channel'[ux.target], ux)
                BY DEF Queued, Count
            <4>3. Count(Append(channel[tx.target], tx), ux) =
                      IF ux = tx THEN Count(channel[tx.target], ux) + 1 ELSE Count(channel[tx.target], ux)
                BY <2>2, CountAppend
            <4>4. CASE ux = tx
                <5>1. Queued(ux) = 0 /\ tx.id \notin dropped
                    BY <1>1, <1>2, <3>1, <4>4
                <5>2. Count(channel[tx.target], tx) = 0
                    BY <4>1, <4>4, <5>1
                <5>3. Count(Append(channel[tx.target], tx), tx) = 1
                    BY <4>3, <4>4, <5>2
                <5>4. Queued(ux)' = 1
                    BY <2>3, <4>2, <4>4, <5>3
                <5> QED
                    BY <1>2, <1>6, <2>1, <4>4, <5>1, <5>4
            <4>5. CASE ux # tx
                <5>1. ux.id # tx.id /\ ux.id \in Ids
                    BY <4>5, IdsAreUnique, IdsFinite
                <5>2. Queued(ux)' = Queued(ux)
                    <6>1. CASE ux.target = tx.target
                        BY <2>3, <4>3, <4>1, <4>2, <4>5, <6>1
                    <6>2. CASE ux.target # tx.target
                        BY <2>3, <4>1, <4>2, <6>2
                    <6> QED
                        BY <6>1, <6>2
                <5> QED
                    BY <1>6, <2>1, <3>1, <5>1, <5>2
            <4> QED
                BY <4>4, <4>5
        <3> QED
            BY <1>1, <1>2, <1>6, <2>1, <3>1, <3>2
    <2> QED
        BY <1>5, <2>5, <2>6 DEF ShardInv
<1>8. CASE ~HasRoom(tx.target)
    <2>1. channel' = channel /\ dropped' = dropped \cup {tx.id}
        BY <1>8 DEF ProcessSubmit
    <2>2. ShardTypes'
        BY <1>1, <1>2, <1>3, <1>6, <2>1 DEF ShardTypes
    <2>3. ShardQueues'
        <3> SUFFICES ASSUME redeliveries' = 0
                     PROVE  /\ minted' = 0
                            /\ \A i \in dropped' : i \in Ids => pending_transfers'[i] # NoTransfer
                            /\ \A ux \in Transfers : Queued(ux)' =
                                   IF pending_transfers'[ux.id] # NoTransfer /\ ux.id \notin dropped' THEN 1 ELSE 0
            BY DEF ShardQueues, PendingIsQueued
        <3>1. /\ minted = 0
              /\ \A i \in dropped : i \in Ids => pending_transfers[i] # NoTransfer
              /\ \A ux \in Transfers : Queued(ux) =
                     IF pending_transfers[ux.id] # NoTransfer /\ ux.id \notin dropped THEN 1 ELSE 0
            BY <1>1 DEF ShardInv, ShardQueues, PendingIsQueued
        <3>2. \A ux \in Transfers : Queued(ux)' = Queued(ux)
            BY <2>1 DEF Queued
        <3>3. \A ux \in Transfers : ux.id \in Ids /\ (ux # tx => ux.id # tx.id)
            BY IdsAreUnique, IdsFinite
        <3>4. \A ux \in Transfers : Queued(ux)' =
                  IF pending_transfers'[ux.id] # NoTransfer /\ ux.id \notin dropped' THEN 1 ELSE 0
            BY <1>1, <1>6, <2>1, <3>1, <3>2, <3>3
        <3> QED
            BY <1>1, <1>2, <1>6, <2>1, <3>1, <3>4
    <2> QED
        BY <1>5, <2>2, <2>3 DEF ShardInv
<1> QED
    BY <1>7, <1>8

\* A transfer that is refused as pending loses its debit.
LEMMA DuplicateInv ==
    ASSUME ShardInv, NEW tx \in Transfers, ProcessDuplicate(tx)
    PROVE  ShardInv'
PROOF
<1>1. /\ CanDebit(tx) /\ Debit(tx) /\ burned' = burned + tx.amount
      /\ UNCHANGED <<pending_transfers, channel, delivered, dropped, minted, redeliveries>>
    BY DEF ProcessDuplicate
<1>2. tx.amount \in Nat /\ ShardTypes
    BY TransfersAssumption DEF ShardInv
<1>3. accounts' \in [Shards -> [Users -> Nat]]
      /\ Total(accounts) \in Int /\ Total(accounts') = Total(accounts) - tx.amount
    BY <1>1, <1>2, DebitTotal
<1>4. ShardTypes'
    BY <1>1, <1>2, <1>3 DEF ShardTypes
<1>5. InFlight \in Int /\ InFlight' = InFlight
    <2>1. InFlight' = InFlight
        BY <1>1 DEF InFlight
    <2>2. tx.id \in Ids /\ pending_transfers' = [pending_transfers EXCEPT ![tx.id] = pending_transfers[tx.id]]
          /\ pending_transfers[tx.id] \in Transfers \cup {NoTransfer}
        BY <1>1, <1>2, IdsFinite DEF ShardTypes
    <2>3. InFlight \in Int
        BY <1>2, <2>2, InFlightUpdate
    <2> QED
        BY <2>1, <2>3
<1>6. ShardValue'
    <2>1. Total(Balance0) + minted = Total(accounts) + InFlight + burned /\ burned \in Int
        BY <1>2 DEF ShardInv, ShardValue, ShardTypes
    <2>2. Total(accounts') + InFlight' + burned' = Total(Balance0) + minted'
        BY <1>1, <1>2, <1>3, <1>5, <2>1
    <2> QED
        BY <2>2 DEF ShardValue
<1>7. ShardQueues'
    BY <1>1 DEF ShardInv, ShardQueues, PendingIsQueued, Queued
<1> QED
    BY <1>4, <1>6, <1>7 DEF ShardInv

\* What receive_cross_chain_tx does to the balances and the pending map.
LEMMA ReceiveValue ==
    ASSUME ShardTypes, ShardValue, NEW tx \in Transfers, Receive(tx), UNCHANGED burned
    PROVE  /\ ShardValue' /\ minted' \in Nat
           /\ accounts' \in [Shards -> [Users -> Nat]]
           /\ pending_transfers' \in [Ids -> Transfers \cup {NoTransfer}]
           /\ pending_transfers[tx.id] # NoTransfer => minted' = minted
           /\ \A i \in Ids \ {tx.id} : pending_transfers'[i] = pending_transfers[i] /\ (i \in dropped' <=> i \in dropped)
           /\ pending_transfers'[tx.id] # NoTransfer => pending_transfers'[tx.id] = pending_transfers[tx.id] /\ tx.target \notin Shards
           /\ tx.target \notin Shards => pending_transfers' = pending_transfers /\ tx.id \in dropped'
           /\ tx.target \in Shards /\ pending_transfers[tx.id] # NoTransfer => tx.id \notin dropped'
PROOF
<1>1. tx.id \in Ids /\ tx.amount \in Nat
    BY IdsFinite, TransfersAssumption
<1>2. Total(Balance0) + minted = Total(accounts) + InFlight + burned /\ burned \in Nat /\ minted \in Nat
      /\ Total(Balance0) \in Int
    BY Balance0Assumption, TotalInt DEF ShardValue, ShardTypes
<1>3. ASSUME UNCHANGED pending_transfers
      PROVE  InFlight \in Int /\ InFlight' = InFlight
    <2>1. InFlight' = InFlight
        BY <1>3 DEF InFlight
    <2>2. pending_transfers' = [pending_transfers EXCEPT ![tx.id] = pending_transfers[tx.id]]
          /\ pending_transfers[tx.id] \in Transfers \cup {NoTransfer}
        BY <1>1, <1>3 DEF ShardTypes
    <2>3. InFlight \in Int
        BY <1>1, <2>2, InFlightUpdate
    <2> QED
        BY <2>1, <2>3
<1>4. CASE tx.target \notin Shards
    <2>1. dropped' = dropped \cup {tx.id} /\ UNCHANGED <<accounts, pending_transfers, minted>>
        BY <1>4 DEF Receive
    <2>2. ShardValue'
        BY <1>2, <1>3, <2>1 DEF ShardValue
    <2> QED
        BY <1>1, <1>4, <2>1, <2>2 DEF ShardTypes
<1>5. CASE tx.target \in Shards /\ pending_transfers[tx.id] # NoTransfer
    <2>1. Credit(tx) /\ pending_transfers' = [pending_transfers EXCEPT ![tx.id] = NoTransfer]
          /\ dropped' = dropped \ {tx.id} /\ UNCHANGED minted
        BY <1>5 DEF Receive, Confirm
    <2>2. accounts' \in [Shards -> [Users -> Nat]]
          /\ Total(accounts) \in Int /\ Total(accounts') = Total(accounts) + tx.amount
        BY <1>5, <2>1, CreditTotal
    <2>3. pending_transfers[tx.id] = tx
        BY <1>1, <1>5, IdsAreUnique DEF ShardTypes
    <2>4. InFlight \in Int /\ InFlight' = InFlight - tx.amount
        <3>1. InFlight \in Int /\ InFlight' = InFlight - Weight(pending_transfers[tx.id]) + Weight(NoTransfer)
            BY <1>1, <2>1, InFlightUpdate
        <3> QED
            BY <1>1, <1>5, <2>3, <3>1 DEF Weight
    <2>5. Total(accounts') + InFlight' + burned' = Total(Balance0) + minted'
        BY <1>1, <1>2, <2>1, <2>2, <2>4
    <2>6. ShardValue'
        BY <2>5 DEF ShardValue
    <2> QED
        BY <1>1, <1>2, <1>5, <2>1, <2>2, <2>6 DEF ShardTypes
<1>6. CASE tx.target \in Shards /\ pending_transfers[tx.id] = NoTransfer
    <2>1. Credit(tx) /\ minted' = minted + tx.amount /\ UNCHANGED <<pending_transfers, dropped>>
        BY <1>6 DEF Receive
    <2>2. accounts' \in [Shards -> [Users -> Nat]]
          /\ Total(accounts) \in Int /\ Total(accounts') = Total(accounts) + tx.amount
        BY <1>6, <2>1, CreditTotal
    <2>3. InFlight \in Int /\ InFlight' = InFlight
        BY <1>3, <2>1
    <2>4. Total(accounts') + InFlight' + burned' = Total(Balance0) + minted'
        BY <1>1, <1>2, <2>1, <2>2, <2>3
    <2>5. ShardValue'
        BY <2>4 DEF ShardValue
    <2> QED
        BY <1>1, <1>2, <1>6, <2>1, <2>2, <2>5 DEF ShardTypes
<1> QED
    BY <1>4, <1>5, <1>6

\* A delivery settles the transfer it takes off the channel, or drops it.
LEMMA DeliverInv ==
    ASSUME ShardInv, NEW s \in ShardIds, Deliver(s)
    PROVE  ShardInv'
PROOF
<1> DEFINE tx == Head(channel[s])
<1>1. ShardTypes /\ ShardValue /\ ShardQueues
    BY DEF ShardInv
<1>2. channel[s] \in Seq(Transfers) /\ channel[s] # <<>>
    BY <1>1 DEF ShardTypes, Deliver
<1>3. Len(channel[s]) \in Nat \ {0} /\ tx = channel[s][1] /\ tx \in Transfers
      /\ Tail(channel[s]) \in Seq(Transfers) /\ Len(Tail(channel[s])) = Len(channel[s]) - 1
      /\ \A n \in 1..(Len(channel[s]) - 1) : Tail(channel[s])[n] = channel[s][n + 1]
    BY <1>2
<1>4. tx.target = s
    BY <1>1, <1>3 DEF ShardTypes
<1>5. /\ Receive(tx) /\ channel' = [channel EXCEPT ![s] = Tail(@)]
      /\ delivered' = delivered \cup {tx} /\ UNCHANGED <<burned, redeliveries>>
    BY DEF Deliver
<1> HIDE DEF tx
<1>6. /\ ShardValue' /\ minted' \in Nat
      /\ accounts' \in [Shards -> [Users -> Nat]]
      /\ pending_transfers' \in [Ids -> Transfers \cup {NoTransfer}]
      /\ pending_transfers[tx.id] # NoTransfer => minted' = minted
      /\ \A i \in Ids \ {tx.id} : pending_transfers'[i] = pending_transfers[i] /\ (i \in dropped' <=> i \in dropped)
      /\ pending_transfers'[tx.id] # NoTransfer => pending_transfers'[tx.id] = pending_transfers[tx.id] /\ tx.target \notin Shards
      /\ tx.target \notin Shards => pending_transfers' = pending_transfers /\ tx.id \in dropped'
      /\ tx.target \in Shards /\ pending_transfers[tx.id] # NoTransfer => tx.id \notin dropped'
    BY <1>1, <1>3, <1>5, ReceiveValue
<1>7. channel' \in [ShardIds -> Seq(Transfers)] /\ channel'[s] = Tail(channel[s])
      /\ \A t \in ShardIds \ {s} : channel'[t] = channel[t]
    BY <1>1, <1>3, <1>5 DEF ShardTypes
<1>8. ShardTypes'
    <2>1. \A t \in ShardIds : \A n \in 1..Len(channel'[t]) : channel'[t][n].target = t
        <3> TAKE t \in ShardIds
        <3>1. CASE t = s
            <4>1. \A n \in 1..Len(channel'[s]) : n + 1 \in 1..Len(channel[s]) /\ channel'[s][n] = channel[s][n + 1]
                BY <1>3, <1>7
            <4> QED
                BY <1>1, <3>1, <4>1 DEF ShardTypes
        <3>2. CASE t # s
            BY <1>1, <1>7, <3>2 DEF ShardTypes
        <3> QED
            BY <3>1, <3>2
    <2>2. \A i \in Ids : pending_transfers'[i] # NoTransfer => pending_transfers'[i] = pending_transfers[i]
        BY <1>6
    <2>3. \A i \in Ids : pending_transfers'[i] # NoTransfer => pending_transfers'[i].id = i
        BY <1>1, <2>2 DEF ShardTypes
    <2>4. delivered' \subseteq Transfers /\ burned' \in Nat /\ redeliveries' \in Nat
        BY <1>1, <1>3, <1>5 DEF ShardTypes
    <2> QED
        BY <1>6, <1>7, <2>1, <2>3, <2>4 DEF ShardTypes
<1>9. ShardQueues'
    <2> SUFFICES ASSUME redeliveries' = 0
                 PROVE  /\ minted' = 0
                        /\ \A i \in dropped' : i \in Ids => pending_transfers'[i] # NoTransfer
                        /\ \A ux \in Transfers : Queued(ux)' =
                               IF pending_transfers'[ux.id] # NoTransfer /\ ux.id \notin dropped' THEN 1 ELSE 0
        BY DEF ShardQueues, PendingIsQueued
    <2>1. /\ minted = 0
          /\ \A i \in dropped : i \in Ids => pending_transfers[i] # NoTransfer
          /\ \A ux \in Transfers : Queued(ux) =
                 IF pending_transfers[ux.id] # NoTransfer /\ ux.id \notin dropped THEN 1 ELSE 0
        BY <1>1, <1>5 DEF ShardQueues, PendingIsQueued
    <2>2. Queued(tx) = Count(channel[s], tx) /\ Queued(tx) # 0
        <3>1. Queued(tx) = Count(channel[s], tx)
            BY <1>1, <1>3, <1>4, QueuedIsCount
        <3>2. 1 \in 1..Len(channel[s]) /\ channel[s][1] = tx
            BY <1>3
        <3> QED
            BY <1>2, <3>1, <3>2, CountType
    <2>3. pending_transfers[tx.id] # NoTransfer /\ tx.id \notin dropped /\ Queued(tx) = 1 /\ tx.id \in Ids
        BY <1>3, <2>1, <2>2, IdsFinite
    <2>4. ASSUME NEW ux \in Transfers
          PROVE  Queued(ux)' = IF pending_transfers'[ux.id] # NoTransfer /\ ux.id \notin dropped' THEN 1 ELSE 0
        <3>1. Queued(ux) = Count(channel[ux.target], ux) /\ ux.target \in ShardIds
            BY <1>1, QueuedIsCount
        <3>2. Queued(ux)' = Count(channel'[ux.target], ux)
            BY DEF Queued, Count
        <3>3. Count(Tail(channel[s]), ux) =
                  IF ux = tx THEN Count(channel[s], ux) - 1 ELSE Count(channel[s], ux)
            BY <1>2, CountTail DEF tx
        <3>4. CASE ux = tx
            <4>1. Count(channel[s], tx) = 1
                BY <2>2, <2>3
            <4>2. Count(Tail(channel[s]), tx) = 0
                BY <3>3, <3>4, <4>1
            <4>3. Queued(ux)' = 0
                BY <1>4, <1>7, <3>2, <3>4, <4>2
            <4> QED
                BY <1>6, <3>4, <4>3
        <3>5. CASE ux # tx
            <4>1. ux.id # tx.id /\ ux.id \in Ids
                BY <1>3, <3>5, IdsAreUnique, IdsFinite
            <4>2. Queued(ux)' = Queued(ux)
                BY <1>7, <3>1, <3>2, <3>3, <3>5
            <4> QED
                BY <1>6, <2>1, <4>1, <4>2
        <3> QED
            BY <3>4, <3>5
    <2>5. \A i \in dropped' : i \in Ids => pending_transfers'[i] # NoTransfer
        BY <1>6, <2>1, <2>3
    <2> QED
        BY <1>6, <2>1, <2>3, <2>4, <2>5
<1> QED
    BY <1>6, <1>8, <1>9 DEF ShardInv

\* A retry may credit what is no longer pending.
LEMMA RedeliverInv ==
    ASSUME ShardInv, NEW tx \in Transfers, Redeliver(tx)
    PROVE  ShardInv'
PROOF
<1>1. ShardTypes /\ ShardValue /\ Receive(tx) /\ redeliveries' = redeliveries + 1
      /\ UNCHANGED <<channel, delivered, burned>>
    BY DEF ShardInv, Redeliver
<1>2. /\ ShardValue' /\ minted' \in Nat
      /\ accounts' \in [Shards -> [Users -> Nat]]
      /\ pending_transfers' \in [Ids -> Transfers \cup {NoTransfer}]
      /\ \A i \in Ids \ {tx.id} : pending_transfers'[i] = pending_transfers[i]
      /\ pending_transfers'[tx.id] # NoTransfer => pending_transfers'[tx.id] = pending_transfers[tx.id]
    BY <1>1, ReceiveValue
<1>3. ShardTypes'
    <2>1. \A i \in Ids : pending_transfers'[i] # NoTransfer => pending_transfers'[i] = pending_transfers[i]
        BY <1>2
    <2>2. \A i \in Ids : pending_transfers'[i] # NoTransfer => pending_transfers'[i].id = i
        BY <1>1, <2>1 DEF ShardTypes
    <2>3. delivered' \subseteq Transfers /\ burned' \in Nat /\ redeliveries' \in Nat
        BY <1>1 DEF ShardTypes
    <2> QED
        BY <1>1, <1>2, <2>2, <2>3 DEF ShardTypes
<1>4. ShardQueues'
    <2>1. redeliveries' # 0
        BY <1>1 DEF ShardTypes
    <2> QED
        BY <2>1 DEF ShardQueues
<1> QED
    BY <1>2, <1>3, <1>4 DEF ShardInv

LEMMA UnchangedInv ==
    ASSUME ShardInv, UNCHANGED <<accounts, pending_transfers, channel, shardHistory>>
    PROVE  ShardInv'
PROOF
<1>1. ShardTypes' /\ ShardValue'
    BY DEF ShardInv, ShardTypes, ShardValue, InFlight, shardHistory
<1>2. ShardQueues'
    BY DEF ShardInv, ShardQueues, PendingIsQueued, Queued, shardHistory
<1> QED
    BY <1>1, <1>2 DEF ShardInv

LEMMA ShardNextInv == ShardInv /\ [ShardNext]_shardVars => ShardInv'
PROOF
<1> SUFFICES ASSUME ShardInv, [ShardNext]_shardVars PROVE ShardInv'
    OBVIOUS
<1>1. CASE UNCHANGED shardVars
    BY <1>1, UnchangedInv DEF shardVars, shardHistory
<1>2. ASSUME NEW s \in ShardIds, RegisterShard(s) PROVE ShardInv'
    BY <1>2, UnchangedInv DEF RegisterShard
<1>3. ASSUME NEW s \in ShardIds, Deliver(s) PROVE ShardInv'
    BY <1>3, DeliverInv
<1>4. ASSUME NEW tx \in Transfers, ProcessDuplicate(tx) PROVE ShardInv'
    BY <1>4, DuplicateInv
<1>5. ASSUME NEW tx \in Transfers, ProcessSubmit(tx) PROVE ShardInv'
    BY <1>5, SubmitInv
<1>6. ASSUME NEW tx \in Transfers, Redeliver(tx) PROVE ShardInv'
    BY <1>6, RedeliverInv
<1> QED
    BY <1>1, <1>2, <1>3, <1>4, <1>5, <1>6 DEF ShardNext

LEMMA ShardInvHolds == ShardSpec => []ShardInv
PROOF
    BY ShardInitInv, ShardNextInv, PTL DEF ShardSpec

-----------------------------------------------------------------------------
(* The theorems                                                            *)

\* No sequence of transfers, deliveries and retries creates or destroys
\* value, except through the two error paths of multichain/mod.rs whose debit
\* or credit stays; and without a retry nothing is ever credited for a
\* transfer that is not pending.
THEOREM ValueConserved == ShardSpec => []Conservation
PROOF
<1>1. ShardInv => Conservation
    BY DEF ShardInv, ShardTypes, ShardValue, ShardQueues, Conservation
<1> QED
    BY <1>1, ShardInvHolds, PTL

\* Without retries, submit_cross_tx and receive_cross_chain_tx keep every
\* pending transfer exactly once in its target's channel, or dropped it.
THEOREM PendingAlwaysQueued == ShardSpec => []PendingIsQueued
PROOF
<1>1. ShardInv => PendingIsQueued
    BY DEF ShardInv, ShardQueues, PendingIsQueued
<1> QED
    BY <1>1, ShardInvHolds, PTL

-----------------------------------------------------------------------------
(* The private token                                                       *)

\* The books of mint: the balances and the supply are kept modulo 2^w.
MintInv ==
    /\ supply \in Int
    /\ balances \in [TokenHolders -> Int]
    /\ SupplyIsHeld

\* The books of private_transfer: one commitment for each proof accepted, so
\* that the n-th proof was made against a root of n - 1 commitments, and
\* every accepted nullifier is spent.
TransferInv ==
    /\ merkle_root \in Seq(NoteCommitments)
    /\ proofs \subseteq [nullifier : Notes, commitment : NoteCommitments, root : Seq(NoteCommitments)]
    /\ accepted \in Seq(proofs)
    /\ Len(merkle_root) = Len(accepted)
    /\ \A i \in 1..Len(accepted) : /\ Len(accepted[i].root) = i - 1
                                  /\ accepted[i].nullifier \in spent
    /\ AcceptedOnce

\* The new contract has no supply and no balance.
LEMMA MintInitInv == TokenInit => MintInv
PROOF
<1> SUFFICES ASSUME TokenInit PROVE MintInv
    OBVIOUS
<1>1. SumFunctionOnSet(balances, TokenHolders) = 0
    BY SumZero, TokenHoldersAssumption DEF TokenInit
<1>2. 0 % TokenWord = 0
    BY TokenWordAssumption
<1> QED
    BY <1>1, <1>2 DEF TokenInit, MintInv, SupplyIsHeld

\* mint adds the amount to the supply and to one balance; both may wrap
\* around, and they agree modulo 2^w all the same.
LEMMA MintTokenInv ==
    ASSUME MintInv, NEW to \in TokenHolders, NEW amount \in MintAmounts, MintToken(to, amount)
    PROVE  MintInv'
PROOF
<1> DEFINE sum == SumFunctionOnSet(balances, TokenHolders)
           next == SumFunctionOnSet(balances', TokenHolders)
           old == balances[to]
<1>1. amount \in Int /\ old \in Int /\ supply = sum % TokenWord /\ TokenWord \in Nat \ {0}
    BY MintAmountsAssumption, TokenWordAssumption DEF MintInv, SupplyIsHeld
<1>2. sum \in Int
    BY SumInt, TokenHoldersAssumption DEF MintInv
<1>3. old + amount \in Int /\ sum + amount \in Int /\ sum - old \in Int
    BY <1>1, <1>2
<1>4. /\ (old + amount) % TokenWord \in Int
       /\ (sum + amount) % TokenWord \in Int
    BY <1>1, <1>3, ModInt
<1>5. /\ balances' \in [TokenHolders -> Int]
      /\ balances'[to] = (old + amount) % TokenWord
      /\ \A h \in TokenHolders \ {to} : balances[h] = balances'[h]
      /\ (old + amount) % TokenWord \in Int
    BY <1>1, <1>4 DEF MintInv, MintToken
<1>6. next = sum - old + ((old + amount) % TokenWord)
    <2>1. \A h \in TokenHolders : balances[h] \in Int /\ balances'[h] \in Int
        BY <1>5 DEF MintInv
    <2> QED
        BY <1>5, <2>1, SumUpdate, TokenHoldersAssumption
<1> HIDE DEF sum, next, old
<1>7. next = ((old + amount) % TokenWord) + (sum - old)
    BY <1>1, <1>2, <1>5, <1>6
<1>8. next % TokenWord = ((old + amount) + (sum - old)) % TokenWord
    BY <1>1, <1>7, <1>3, ModAdd
<1>9. (old + amount) + (sum - old) = sum + amount
    BY <1>1, <1>2
<1>10. ((sum % TokenWord) + amount) % TokenWord = (sum + amount) % TokenWord
    BY <1>1, <1>2, ModAdd
<1>11. supply' = (sum + amount) % TokenWord /\ supply' \in Int
    BY <1>1, <1>4, <1>10 DEF MintToken
<1>12. supply' = next % TokenWord
    BY <1>8, <1>9, <1>11
<1> QED
    BY <1>5, <1>11, <1>12 DEF MintToken, MintInv, SupplyIsHeld, next

\* Making a proof changes neither the tree nor what was accepted.
LEMMA ProveInv ==
    ASSUME TransferInv, NEW note \in Notes, NEW commitment \in NoteCommitments, Prove(note, commitment)
    PROVE  TransferInv'
PROOF
<1>1. proofs \subseteq proofs' /\ accepted' = accepted /\ merkle_root' = merkle_root /\ spent' = spent
    BY DEF Prove
<1>2. accepted' \in Seq(proofs')
    BY <1>1 DEF TransferInv
<1>3. proofs' \subseteq [nullifier : Notes, commitment : NoteCommitments, root : Seq(NoteCommitments)]
    BY DEF Prove, TransferInv
<1> QED
    BY <1>1, <1>2, <1>3 DEF TransferInv, AcceptedOnce

\* A transfer that is accepted spends a nullifier that was not spent, and
\* appends its commitment, so that no other proof of its root is current.
LEMMA SubmitTransferInv ==
    ASSUME TransferInv, NEW proof \in proofs, SubmitTransfer(proof)
    PROVE  TransferInv'
PROOF
<1> DEFINE last == Len(accepted) + 1
<1>1. /\ proof.nullifier \notin spent /\ spent' = spent \cup {proof.nullifier}
      /\ proof.root = merkle_root /\ proof.commitment \in NoteCommitments
      /\ merkle_root' = Append(merkle_root, proof.commitment)
      /\ accepted' = Append(accepted, proof) /\ proofs' = proofs
      /\ accepted \in Seq(proofs) /\ merkle_root \in Seq(NoteCommitments)
      /\ Len(merkle_root) = Len(accepted)
    BY DEF TransferInv, SubmitTransfer
<1>2. /\ accepted' \in Seq(proofs') /\ Len(accepted') = last /\ Len(accepted) \in Nat
      /\ accepted'[last] = proof
      /\ \A i \in 1..Len(accepted) : accepted'[i] = accepted[i]
      /\ DOMAIN accepted' = 1..last
    BY <1>1
<1>3. merkle_root' \in Seq(NoteCommitments) /\ Len(merkle_root') = last
    BY <1>1
<1>4. \A i \in 1..last : i \in 1..Len(accepted) \/ i = last
    BY <1>2
<1>5. \A i \in 1..last : Len(accepted'[i].root) = i - 1 /\ accepted'[i].nullifier \in spent'
    <2> SUFFICES ASSUME NEW i \in 1..last
                 PROVE  Len(accepted'[i].root) = i - 1 /\ accepted'[i].nullifier \in spent'
        OBVIOUS
    <2>1. CASE i \in 1..Len(accepted)
        BY <1>1, <1>2, <2>1 DEF TransferInv
    <2>2. CASE i = last
        BY <1>1, <1>2, <2>2
    <2> QED
        BY <1>4, <2>1, <2>2
<1>6. \A i \in 1..Len(accepted) : accepted'[i].nullifier # proof.nullifier
    BY <1>1, <1>2 DEF TransferInv
<1>7. AcceptedOnce'
    <2> SUFFICES ASSUME NEW i \in 1..last, NEW j \in 1..last, i # j
                 PROVE  /\ accepted'[i].nullifier # accepted'[j].nullifier
                        /\ accepted'[i].root # accepted'[j].root
        BY <1>2 DEF AcceptedOnce
    <2>1. accepted'[i].root # accepted'[j].root
        <3>1. Len(accepted'[i].root) = i - 1 /\ Len(accepted'[j].root) = j - 1
            BY <1>5
        <3>2. i - 1 # j - 1
            BY <1>2
        <3> QED
            BY <3>1, <3>2
    <2>2. CASE i \in 1..Len(accepted) /\ j \in 1..Len(accepted)
        <3>1. DOMAIN accepted = 1..Len(accepted)
            BY <1>1
        <3> QED
            BY <1>2, <2>1, <2>2, <3>1 DEF TransferInv, AcceptedOnce
    <2>3. CASE i = last \/ j = last
        <3>1. accepted'[last].nullifier = proof.nullifier
            BY <1>2
        <3> HIDE DEF last
        <3> QED
            BY <1>4, <1>6, <2>1, <2>3, <3>1
    <2> QED
        BY <1>4, <2>2, <2>3
<1> QED
    BY <1>1, <1>2, <1>3, <1>5, <1>7 DEF TransferInv

\* The private token's books agree for any holders, amounts and word size:
\* the supply is the sum of the balances modulo 2^w, whatever mint has made
\* wrap around.
THEOREM SupplyAlwaysHeld == TokenSpec => []SupplyIsHeld
PROOF
<1>1. MintInv /\ [TokenNext]_tokenVars => MintInv'
    <2> SUFFICES ASSUME MintInv, [TokenNext]_tokenVars PROVE MintInv'
        OBVIOUS
    <2>1. CASE UNCHANGED <<supply, balances>>
        BY <2>1 DEF MintInv, SupplyIsHeld
    <2> QED
        BY <2>1, MintTokenInv DEF TokenNext, tokenVars, Prove, SubmitTransfer
<1>2. MintInv => SupplyIsHeld
    BY DEF MintInv
<1> QED
    BY <1>1, <1>2, MintInitInv, PTL DEF TokenSpec

\* Whatever proofs wallets make and in whatever order they submit them,
\* private_transfer accepts at most one for a note and at most one for a
\* root: the nullifier check gives the first half, the check of the root and
\* the commitment appended after it give the second.
THEOREM TransfersAcceptedOnce == TokenSpec => []AcceptedOnce
PROOF
<1>1. TokenInit => TransferInv
    <2> SUFFICES ASSUME TokenInit PROVE TransferInv
        OBVIOUS
    <2>1. accepted = <<>> /\ merkle_root = <<>> /\ proofs = {}
        BY DEF TokenInit
    <2>2. accepted \in Seq(proofs) /\ merkle_root \in Seq(NoteCommitments) /\ Len(merkle_root) = Len(accepted)
        BY <2>1
    <2>3. DOMAIN accepted = {} /\ 1..Len(accepted) = {}
        BY <2>1
    <2> QED
        BY <2>1, <2>2, <2>3 DEF TransferInv, AcceptedOnce
<1>2. TransferInv /\ [TokenNext]_tokenVars => TransferInv'
    <2> SUFFICES ASSUME TransferInv, [TokenNext]_tokenVars PROVE TransferInv'
        OBVIOUS
    <2>1. CASE UNCHANGED <<merkle_root, spent, proofs, accepted>>
        BY <2>1 DEF TransferInv, AcceptedOnce
    <2> QED
        BY <2>1, ProveInv, SubmitTransferInv DEF TokenNext, tokenVars, MintToken
<1>3. TransferInv => AcceptedOnce
    BY DEF TransferInv
<1> QED
    BY <1>1, <1>2, <1>3, PTL DEF TokenSpec

-----------------------------------------------------------------------------
(* The staking contract                                                    *)

\* An entry of unbonding_queue.
UnbondingEntry == [delegator : StakeDelegators, amount : Nat, unlock_height : Int]

\* Delegations are never negative and a validator that is not registered has
\* no stake, so that registering it resets nothing.
StakeInv ==
    /\ DOMAIN validator_info = StakeValidators
    /\ \A v \in StakeValidators : validator_info[v].stake \in Int
    /\ \A v \in StakeValidators : validator_info[v].registered \/ validator_info[v].stake = 0
    /\ delegations \in [StakeDelegators -> [StakeValidators -> Nat]]
    /\ total_staked \in Int /\ staked_held \in Int /\ height \in Int
    /\ unbonding_queue \in Seq(UnbondingEntry)
    /\ StakeBooks

\* Nothing is staked, delegated or queued at first.
LEMMA StakeInitInv == StakingInit => StakeInv
PROOF
<1> SUFFICES ASSUME StakingInit PROVE StakeInv
    OBVIOUS
<1>1. \A v \in StakeValidators : Delegated(v) = 0
    <2> SUFFICES ASSUME NEW v \in StakeValidators PROVE Delegated(v) = 0
        OBVIOUS
    <2> DEFINE f == [d \in StakeDelegators |-> delegations[d][v]]
    <2>1. \A d \in StakeDelegators : f[d] = 0
        BY DEF StakingInit
    <2> HIDE DEF f
    <2>2. SumFunctionOnSet(f, StakeDelegators) = 0
        BY <2>1, SumZero, StakersAssumption
    <2> QED
        BY <2>2 DEF f, Delegated
<1>2. SumFunctionOnSet(Stakes, StakeValidators) = 0
    <2>1. \A v \in StakeValidators : Stakes[v] = 0
        BY DEF Stakes, StakingInit, Unregistered
    <2> QED
        BY <2>1, SumZero, StakersAssumption
<1>3. Owed(unbonding_queue) = 0
    <2>1. 1..Len(unbonding_queue) = {}
        BY DEF StakingInit
    <2> QED
        BY <2>1, SumEmpty DEF Owed
<1> QED
    BY <1>1, <1>2, <1>3, StakeAmountsAssumption DEF StakingInit, StakeInv, StakeBooks, Unregistered

-----------------------------------------------------------------------------
(* What a change of one delegation does to the sums.                       *)

\* What a change of one delegation does to the delegated sums.
LEMMA DelegatedUpdate ==
    ASSUME delegations \in [StakeDelegators -> [StakeValidators -> Nat]],
           NEW d \in StakeDelegators, NEW v \in StakeValidators, NEW n \in Nat,
           delegations' = [delegations EXCEPT ![d][v] = n]
    PROVE  /\ delegations' \in [StakeDelegators -> [StakeValidators -> Nat]]
           /\ Delegated(v) \in Int
           /\ Delegated(v)' = Delegated(v) - delegations[d][v] + n
           /\ \A w \in StakeValidators \ {v} : Delegated(w)' = Delegated(w)
PROOF
<1> DEFINE f(w) == [e \in StakeDelegators |-> delegations[e][w]]
           g(w) == [e \in StakeDelegators |-> delegations'[e][w]]
<1>1. delegations' \in [StakeDelegators -> [StakeValidators -> Nat]]
    OBVIOUS
<1>2. \A w \in StakeValidators : \A e \in StakeDelegators :
          /\ f(w)[e] = delegations[e][w] /\ f(w)[e] \in Nat
          /\ g(w)[e] = delegations'[e][w] /\ g(w)[e] \in Nat
    BY <1>1
<1>3. \A w \in StakeValidators : Delegated(w) = SumFunctionOnSet(f(w), StakeDelegators)
                              /\ Delegated(w)' = SumFunctionOnSet(g(w), StakeDelegators)
    BY DEF Delegated
<1>4. \A w \in StakeValidators : \A e \in StakeDelegators :
          delegations'[e][w] = IF e = d /\ w = v THEN n ELSE delegations[e][w]
    OBVIOUS
<1> HIDE DEF f, g
<1>5. Delegated(v) \in Int
    <2>1. \A e \in StakeDelegators : f(v)[e] \in Int
        BY <1>2
    <2> QED
        BY <1>3, <2>1, SumInt, StakersAssumption
<1>6. Delegated(v)' = Delegated(v) - delegations[d][v] + n
    <2>1. \A e \in StakeDelegators : f(v)[e] \in Int /\ g(v)[e] \in Int
        BY <1>2
    <2>2. \A e \in StakeDelegators \ {d} : f(v)[e] = g(v)[e]
        BY <1>2, <1>4
    <2>3. SumFunctionOnSet(g(v), StakeDelegators) = SumFunctionOnSet(f(v), StakeDelegators) - f(v)[d] + g(v)[d]
        BY <2>1, <2>2, SumUpdate, StakersAssumption
    <2> QED
        BY <1>2, <1>3, <1>4, <2>3
<1>7. ASSUME NEW w \in StakeValidators \ {v} PROVE Delegated(w)' = Delegated(w)
    <2>1. \A e \in StakeDelegators : f(w)[e] = g(w)[e]
        BY <1>2, <1>4
    <2>2. SumFunctionOnSet(g(w), StakeDelegators) = SumFunctionOnSet(f(w), StakeDelegators)
        BY <2>1, SumSame, StakersAssumption
    <2> QED
        BY <1>3, <2>2
<1> QED
    BY <1>1, <1>5, <1>6, <1>7

\* What a change of one validator's record does to the sum of the stakes.
LEMMA StakesUpdate ==
    ASSUME StakeInv, NEW v \in StakeValidators, NEW info, info.stake \in Int,
           validator_info' = [validator_info EXCEPT ![v] = info]
    PROVE  /\ DOMAIN validator_info' = StakeValidators
           /\ validator_info'[v] = info
           /\ \A w \in StakeValidators \ {v} : validator_info'[w] = validator_info[w]
           /\ \A w \in StakeValidators : validator_info'[w].stake \in Int
           /\ SumFunctionOnSet(Stakes', StakeValidators)
                  = SumFunctionOnSet(Stakes, StakeValidators) - validator_info[v].stake + info.stake
PROOF
<1>1. /\ DOMAIN validator_info' = StakeValidators
      /\ validator_info'[v] = info
      /\ \A w \in StakeValidators \ {v} : validator_info'[w] = validator_info[w]
    BY DEF StakeInv
<1>2. \A w \in StakeValidators : validator_info'[w].stake \in Int
    BY <1>1 DEF StakeInv
<1>3. \A w \in StakeValidators : Stakes[w] = validator_info[w].stake /\ Stakes'[w] = validator_info'[w].stake
    BY DEF Stakes
<1>4. SumFunctionOnSet(Stakes', StakeValidators)
          = SumFunctionOnSet(Stakes, StakeValidators) - Stakes[v] + Stakes'[v]
    <2>1. \A w \in StakeValidators : Stakes[w] \in Int /\ Stakes'[w] \in Int
        BY <1>2, <1>3 DEF StakeInv
    <2>2. \A w \in StakeValidators \ {v} : Stakes[w] = Stakes'[w]
        BY <1>1, <1>3
    <2> QED
        BY <2>1, <2>2, SumUpdate, StakersAssumption
<1> QED
    BY <1>1, <1>2, <1>3, <1>4

\* The amounts of a queue have an integer sum.
LEMMA AmountsType ==
    ASSUME NEW queue \in Seq(UnbondingEntry)
    PROVE  /\ Len(queue) \in Nat
           /\ IsFiniteSet(1..Len(queue))
           /\ \A i \in 1..Len(queue) : Amounts(queue)[i] = queue[i].amount /\ Amounts(queue)[i] \in Int
           /\ Owed(queue) \in Int
PROOF
<1>1. Len(queue) \in Nat /\ IsFiniteSet(1..Len(queue))
    BY FS_Interval
<1>2. \A i \in 1..Len(queue) : Amounts(queue)[i] = queue[i].amount /\ Amounts(queue)[i] \in Int
    <2>1. \A i \in 1..Len(queue) : queue[i] \in UnbondingEntry
        OBVIOUS
    <2> QED
        BY <2>1 DEF Amounts, UnbondingEntry
<1> DEFINE f == Amounts(queue)
           T == 1..Len(queue)
<1> HIDE DEF f, T
<1>3. SumFunctionOnSet(f, T) \in Int
    <2>1. IsFiniteSet(T) /\ \A i \in T : f[i] \in Int
        BY <1>1, <1>2 DEF f, T
    <2> QED
        BY <2>1, SumInt
<1> QED
    BY <1>1, <1>2, <1>3 DEF Owed, f, T

\* A new entry adds its amount to what the queue owes.
LEMMA OwedAppend ==
    ASSUME NEW queue \in Seq(UnbondingEntry), NEW entry \in UnbondingEntry
    PROVE  Owed(Append(queue, entry)) = Owed(queue) + entry.amount
PROOF
<1> DEFINE longer == Append(queue, entry)
           n == Len(queue)
           f == Amounts(queue)
           g == Amounts(longer)
           S == 1..n
<1>1. longer \in Seq(UnbondingEntry) /\ Len(longer) = n + 1 /\ longer[n + 1] = entry
      /\ n \in Nat /\ \A i \in S : longer[i] = queue[i]
    OBVIOUS
<1>2. IsFiniteSet(S) /\ \A i \in S : f[i] = queue[i].amount /\ f[i] \in Int
    BY AmountsType
<1>3. \A i \in 1..(n + 1) : g[i] = longer[i].amount /\ g[i] \in Int
    BY <1>1, AmountsType
<1>4. 1..(n + 1) = S \cup {n + 1} /\ n + 1 \notin S
    BY <1>1
<1>5. \A i \in S : f[i] = g[i]
    BY <1>1, <1>2, <1>3, <1>4
<1>6. g[n + 1] = entry.amount /\ \A i \in S \cup {n + 1} : g[i] \in Int
    BY <1>1, <1>3, <1>4
<1>7. Owed(queue) = SumFunctionOnSet(f, S) /\ Owed(longer) = SumFunctionOnSet(g, S \cup {n + 1})
    BY <1>1, <1>4 DEF Owed
<1> HIDE DEF f, g, S, n, longer
<1>8. SumFunctionOnSet(g, S \cup {n + 1}) = g[n + 1] + SumFunctionOnSet(g, S)
    BY <1>2, <1>4, <1>6, SumAdd
<1>9. SumFunctionOnSet(f, S) = SumFunctionOnSet(g, S)
    BY <1>2, <1>5, SumSame
<1>10. Owed(queue) \in Int
    BY AmountsType
<1>11. entry.amount \in Int
    BY DEF UnbondingEntry
<1> QED
    BY <1>6, <1>7, <1>8, <1>9, <1>10, <1>11 DEF longer

\* process_unbonding pays what it takes out of the queue, wherever in the
\* queue the due entries are.
LEMMA OwedKept ==
    ASSUME unbonding_queue \in Seq(UnbondingEntry)
    PROVE  LET left == KeepAt(unbonding_queue, 1..Len(unbonding_queue) \ Due)
           IN  /\ left \in Seq(UnbondingEntry)
               /\ Owed(left) = Owed(unbonding_queue) - DueSum
               /\ DueSum \in Int
PROOF
<1> DEFINE queue == unbonding_queue
           S == 1..Len(queue)
           kept == S \ Due
           left == KeepAt(queue, kept)
           f == Amounts(queue)
           g == Amounts(left)
<1>1. IsFiniteSet(S) /\ \A i \in S : f[i] = queue[i].amount /\ f[i] \in Int
    BY AmountsType
<1>2. Due \in SUBSET S /\ kept \in SUBSET S
    BY DEF Due
<1>3. left \in Seq(UnbondingEntry) /\ Len(left) = Cardinality(kept)
    BY <1>2, KeepAtBijection
<1>4. \A j \in 1..Cardinality(kept) : g[j] = left[j].amount
    BY <1>3, AmountsType
<1> HIDE DEF f, g
<1>5. SumFunctionOnSet(g, 1..Cardinality(kept)) = SumFunctionOnSet(f, kept)
    <2>1. \A i \in kept : f[i] \in Int
        BY <1>1
    <2>2. \A j \in 1..Cardinality(kept) : \A i \in kept : left[j] = queue[i] => g[j] = f[i]
        BY <1>1, <1>4
    <2> HIDE DEF kept
    <2> QED
        BY <1>2, <2>1, <2>2, KeepAtSum
<1>6. Owed(left) = SumFunctionOnSet(f, kept)
    BY <1>3, <1>5 DEF Owed, g
<1> HIDE DEF S, queue
<1>7. SumFunctionOnSet(f, S) = SumFunctionOnSet(f, Due) + SumFunctionOnSet(f, S \ Due)
    BY <1>1, <1>2, SumSplit
<1>8. SumFunctionOnSet(f, Due) \in Int /\ SumFunctionOnSet(f, kept) \in Int
    <2>1. IsFiniteSet(Due) /\ IsFiniteSet(kept)
        BY <1>1, <1>2, FS_Subset
    <2>2. (\A i \in Due : f[i] \in Int) /\ (\A i \in kept : f[i] \in Int)
        BY <1>1, <1>2
    <2> HIDE DEF kept
    <2> QED
        BY <2>1, <2>2, SumInt
<1>9. DueSum = SumFunctionOnSet(f, Due) /\ Owed(queue) = SumFunctionOnSet(f, S)
    BY DEF DueSum, Owed, f, S, queue
<1>10. Owed(left) = Owed(queue) - DueSum /\ DueSum \in Int
    BY <1>6, <1>7, <1>8, <1>9
<1> QED
    BY <1>3, <1>10 DEF queue, S

-----------------------------------------------------------------------------
(* The calls                                                               *)

\* What Stake and Unstake share: a validator's record and one delegation
\* change by the same difference, total_staked too, and what the contract
\* owes and holds stays balanced.
LEMMA StakeChange ==
    ASSUME StakeInv, NEW d \in StakeDelegators, NEW v \in StakeValidators, NEW diff \in Int, NEW active,
           delegations[d][v] + diff \in Nat,
           delegations' = [delegations EXCEPT ![d][v] = delegations[d][v] + diff],
           validator_info' = [validator_info EXCEPT ![v] =
               Info(validator_info[v].stake + diff, validator_info[v].total_delegated + diff, active)],
           total_staked' = total_staked + diff,
           validator_info[v].stake + diff >= MinStake /\ validator_info[v].stake + diff > 0 => active,
           active => validator_info[v].stake + diff >= MinStake \/ v \in privately,
           unbonding_queue' \in Seq(UnbondingEntry), staked_held' \in Int,
           staked_held' - Owed(unbonding_queue') = staked_held - Owed(unbonding_queue) + diff,
           UNCHANGED <<height, privately>>
    PROVE  StakeInv'
PROOF
<1> DEFINE info == validator_info[v]
<1>1. info.stake \in Int /\ info.stake + diff \in Int
    BY DEF StakeInv
<1>2. /\ delegations' \in [StakeDelegators -> [StakeValidators -> Nat]]
      /\ Delegated(v) \in Int
      /\ Delegated(v)' = Delegated(v) + diff
      /\ \A w \in StakeValidators \ {v} : Delegated(w)' = Delegated(w)
    <2>1. delegations \in [StakeDelegators -> [StakeValidators -> Nat]]
        BY DEF StakeInv
    <2>2. delegations[d][v] \in Int
        BY <2>1
    <2>3. /\ delegations' \in [StakeDelegators -> [StakeValidators -> Nat]]
          /\ Delegated(v) \in Int
          /\ Delegated(v)' = Delegated(v) - delegations[d][v] + (delegations[d][v] + diff)
          /\ \A w \in StakeValidators \ {v} : Delegated(w)' = Delegated(w)
        BY <2>1, DelegatedUpdate
    <2> QED
        BY <2>2, <2>3
<1>3. /\ DOMAIN validator_info' = StakeValidators
      /\ validator_info'[v].stake = info.stake + diff
      /\ validator_info'[v].total_delegated = info.total_delegated + diff
      /\ validator_info'[v].is_active = active
      /\ validator_info'[v].registered
      /\ \A w \in StakeValidators \ {v} : validator_info'[w] = validator_info[w]
      /\ \A w \in StakeValidators : validator_info'[w].stake \in Int
      /\ SumFunctionOnSet(Stakes', StakeValidators)
             = SumFunctionOnSet(Stakes, StakeValidators) - info.stake + (info.stake + diff)
    <2> DEFINE new == Info(info.stake + diff, info.total_delegated + diff, active)
    <2>1. /\ new.stake = info.stake + diff
          /\ new.total_delegated = info.total_delegated + diff
          /\ new.is_active = active
          /\ new.registered
        BY Zenon DEF Info
    <2>2. validator_info' = [validator_info EXCEPT ![v] = new]
        OBVIOUS
    <2> HIDE DEF new
    <2>3. new.stake \in Int
        BY <1>1, <2>1
    <2>4. /\ DOMAIN validator_info' = StakeValidators
          /\ validator_info'[v] = new
          /\ \A w \in StakeValidators \ {v} : validator_info'[w] = validator_info[w]
          /\ \A w \in StakeValidators : validator_info'[w].stake \in Int
          /\ SumFunctionOnSet(Stakes', StakeValidators)
                 = SumFunctionOnSet(Stakes, StakeValidators) - info.stake + new.stake
        BY <2>2, <2>3, StakesUpdate
    <2> QED
        BY <2>1, <2>4, Zenon
<1>4. /\ info.stake = Delegated(v) /\ info.total_delegated = Delegated(v)
      /\ total_staked = SumFunctionOnSet(Stakes, StakeValidators)
      /\ staked_held = total_staked + Owed(unbonding_queue)
      /\ total_staked \in Int /\ staked_held \in Int
    BY DEF StakeInv, StakeBooks
<1>5. Owed(unbonding_queue) \in Int /\ Owed(unbonding_queue') \in Int
    BY AmountsType DEF StakeInv
<1>6. /\ total_staked' = SumFunctionOnSet(Stakes', StakeValidators)
      /\ total_staked' \in Int
      /\ staked_held' = total_staked' + Owed(unbonding_queue')
    <2> DEFINE old == SumFunctionOnSet(Stakes, StakeValidators)
               new == SumFunctionOnSet(Stakes', StakeValidators)
    <2>1. new = old - info.stake + (info.stake + diff) /\ total_staked = old
        BY <1>3, <1>4
    <2>2. total_staked' = total_staked + diff
        OBVIOUS
    <2>3. staked_held' - Owed(unbonding_queue') = staked_held - Owed(unbonding_queue) + diff
        OBVIOUS
    <2> HIDE DEF old, new
    <2>4. total_staked' = new
        BY <1>1, <1>4, <2>1, <2>2
    <2>5. total_staked' \in Int
        BY <1>4, <2>2
    <2>6. staked_held' = total_staked' + Owed(unbonding_queue')
        BY <1>4, <1>5, <2>2, <2>3, <2>5
    <2> QED
        BY <2>4, <2>5, <2>6 DEF new
<1>7. ASSUME NEW w \in StakeValidators
      PROVE  /\ validator_info'[w].stake = Delegated(w)'
             /\ validator_info'[w].total_delegated = Delegated(w)'
             /\ validator_info'[w].stake >= MinStake /\ validator_info'[w].stake > 0 => validator_info'[w].is_active
             /\ validator_info'[w].is_active => validator_info'[w].stake >= MinStake \/ w \in privately'
    <2>1. CASE w = v
        BY <1>2, <1>3, <1>4, <2>1
    <2>2. CASE w # v
        BY <1>2, <1>3, <2>2 DEF StakeInv, StakeBooks
    <2> QED
        BY <2>1, <2>2
<1>8. StakeBooks'
    BY <1>6, <1>7 DEF StakeBooks
<1> QED
    BY <1>2, <1>3, <1>6, <1>8 DEF StakeInv

\* A call that writes a validator's record and keeps its stake.
LEMMA RecordChange ==
    ASSUME StakeInv, NEW v \in StakeValidators, NEW info,
           info.stake = validator_info[v].stake,
           info.total_delegated = validator_info[v].stake,
           info.registered,
           info.stake >= MinStake /\ info.stake > 0 => info.is_active,
           info.is_active => info.stake >= MinStake \/ v \in privately',
           privately \subseteq privately',
           validator_info' = [validator_info EXCEPT ![v] = info],
           UNCHANGED <<delegations, total_staked, unbonding_queue, height, staked_held>>
    PROVE  StakeInv'
PROOF
<1>1. info.stake \in Int
    BY DEF StakeInv
<1>2. /\ DOMAIN validator_info' = StakeValidators
      /\ validator_info'[v] = info
      /\ \A w \in StakeValidators \ {v} : validator_info'[w] = validator_info[w]
      /\ \A w \in StakeValidators : validator_info'[w].stake \in Int
      /\ SumFunctionOnSet(Stakes', StakeValidators)
             = SumFunctionOnSet(Stakes, StakeValidators) - validator_info[v].stake + info.stake
    BY <1>1, StakesUpdate
<1>3. total_staked' = SumFunctionOnSet(Stakes', StakeValidators)
    BY <1>1, <1>2 DEF StakeInv, StakeBooks
<1>4. \A w \in StakeValidators : Delegated(w)' = Delegated(w)
    BY DEF Delegated
<1>5. \A w \in StakeValidators :
          /\ validator_info'[w].stake = Delegated(w)'
          /\ validator_info'[w].total_delegated = Delegated(w)'
          /\ validator_info'[w].stake >= MinStake /\ validator_info'[w].stake > 0 => validator_info'[w].is_active
          /\ validator_info'[w].is_active => validator_info'[w].stake >= MinStake \/ w \in privately'
    BY <1>2, <1>4 DEF StakeInv, StakeBooks
<1>6. StakeBooks'
    BY <1>3, <1>5 DEF StakeInv, StakeBooks
<1> QED
    BY <1>2, <1>6 DEF StakeInv

\* private_stake activates a validator and changes no amount.
LEMMA PrivateStakeInv ==
    ASSUME StakeInv, NEW v \in StakeValidators, NEW commitment \in Commitments, PrivateStake(v, commitment)
    PROVE  StakeInv'
PROOF
<1> DEFINE info == Info(validator_info[v].stake, validator_info[v].total_delegated, TRUE)
<1>1. /\ info.stake = validator_info[v].stake
      /\ info.total_delegated = validator_info[v].total_delegated
      /\ info.is_active /\ info.registered
    BY DEF Info
<1>2. /\ validator_info' = [validator_info EXCEPT ![v] = info]
      /\ v \in privately' /\ privately \subseteq privately'
      /\ UNCHANGED <<delegations, total_staked, unbonding_queue, height, staked_held>>
    BY DEF PrivateStake
<1>3. validator_info[v].total_delegated = validator_info[v].stake
    BY DEF StakeInv, StakeBooks
<1> HIDE DEF info
<1> QED
    BY <1>1, <1>2, <1>3, RecordChange

\* stake raises the five records by the same amount.
LEMMA StakeCallInv ==
    ASSUME StakeInv, NEW d \in StakeDelegators, NEW v \in StakeValidators, NEW amount \in StakeAmounts,
           Stake(d, v, amount)
    PROVE  StakeInv'
PROOF
<1> DEFINE info == validator_info[v]
           active == info.is_active \/ info.stake + amount >= MinStake
<1>1. amount \in Nat /\ MinStake \in Nat /\ info.stake \in Int /\ delegations[d][v] \in Nat
    BY StakeAmountsAssumption DEF StakeInv
<1>2. /\ info.is_active => info.stake >= MinStake \/ v \in privately
      /\ staked_held \in Int /\ unbonding_queue \in Seq(UnbondingEntry)
    BY DEF StakeInv, StakeBooks
<1>3. Owed(unbonding_queue) \in Int
    BY <1>2, AmountsType
<1>4. /\ delegations' = [delegations EXCEPT ![d][v] = delegations[d][v] + amount]
      /\ validator_info' = [validator_info EXCEPT ![v] =
             Info(info.stake + amount, info.total_delegated + amount, active)]
      /\ total_staked' = total_staked + amount
      /\ staked_held' = staked_held + amount
      /\ UNCHANGED <<height, privately, unbonding_queue>>
    BY DEF Stake
<1>5. /\ info.stake + amount >= MinStake /\ info.stake + amount > 0 => active
      /\ active => info.stake + amount >= MinStake \/ v \in privately
    BY <1>1, <1>2
<1>6. /\ staked_held' \in Int /\ unbonding_queue' \in Seq(UnbondingEntry)
      /\ staked_held' - Owed(unbonding_queue') = staked_held - Owed(unbonding_queue) + amount
    BY <1>1, <1>2, <1>3, <1>4
<1>7. delegations[d][v] + amount \in Nat /\ amount \in Int
    BY <1>1
<1> HIDE DEF active
<1> QED
    BY <1>4, <1>5, <1>6, <1>7, StakeChange

\* unstake takes the amount off the records and queues it: the contract holds
\* it until it is paid.
LEMMA UnstakeInv ==
    ASSUME StakeInv, NEW d \in StakeDelegators, NEW v \in StakeValidators, NEW amount \in StakeAmounts,
           Unstake(d, v, amount)
    PROVE  StakeInv'
PROOF
<1> DEFINE info == validator_info[v]
           active == info.is_active /\ info.stake - amount >= MinStake
           entry == [delegator |-> d, amount |-> amount, unlock_height |-> height + UnbondingPeriod]
           diff == -amount
<1>1. /\ amount \in Nat /\ MinStake \in Nat /\ info.stake \in Int
      /\ delegations[d][v] \in Nat /\ delegations[d][v] >= amount
      /\ info.total_delegated \in Int
    BY StakeAmountsAssumption DEF StakeInv, StakeBooks, Unstake
<1>2. /\ info.stake >= MinStake /\ info.stake > 0 => info.is_active
      /\ staked_held \in Int /\ total_staked \in Int /\ unbonding_queue \in Seq(UnbondingEntry)
    BY DEF StakeInv, StakeBooks
<1>3. entry \in UnbondingEntry /\ entry.amount = amount
    BY <1>1, UnbondingAssumption DEF UnbondingEntry, StakeInv
<1>4. /\ Owed(unbonding_queue) \in Int
      /\ Owed(Append(unbonding_queue, entry)) = Owed(unbonding_queue) + amount
      /\ Append(unbonding_queue, entry) \in Seq(UnbondingEntry)
    <2>1. Owed(unbonding_queue) \in Int
        BY <1>2, AmountsType
    <2> HIDE DEF entry
    <2>2. Owed(Append(unbonding_queue, entry)) = Owed(unbonding_queue) + amount
        BY <1>2, <1>3, OwedAppend
    <2> QED
        BY <1>2, <1>3, <2>1, <2>2
<1>5. /\ delegations' = [delegations EXCEPT ![d][v] = delegations[d][v] - amount]
      /\ validator_info' = [validator_info EXCEPT ![v] =
             Info(info.stake - amount, info.total_delegated - amount, active)]
      /\ total_staked' = total_staked - amount
      /\ staked_held' = staked_held
      /\ unbonding_queue' = Append(unbonding_queue, entry)
      /\ UNCHANGED <<height, privately>>
    BY DEF Unstake
<1>6. /\ diff \in Int
      /\ info.stake - amount = info.stake + diff
      /\ info.total_delegated - amount = info.total_delegated + diff
      /\ delegations[d][v] - amount = delegations[d][v] + diff
      /\ total_staked - amount = total_staked + diff
      /\ delegations[d][v] + diff \in Nat
    <2>1. diff \in Int /\ \A x \in Int : x - amount = x + diff
        BY <1>1
    <2>2. delegations[d][v] - amount \in Nat /\ delegations[d][v] \in Int
        BY <1>1
    <2> HIDE DEF diff
    <2> QED
        BY <1>1, <1>2, <2>1, <2>2
<1>7. /\ info.stake + diff >= MinStake /\ info.stake + diff > 0 => active
      /\ active => info.stake + diff >= MinStake \/ v \in privately
    BY <1>1, <1>2, <1>6
<1>8. /\ staked_held' \in Int /\ unbonding_queue' \in Seq(UnbondingEntry)
      /\ staked_held' - Owed(unbonding_queue') = staked_held - Owed(unbonding_queue) + diff
    BY <1>1, <1>2, <1>4, <1>5
<1>9. /\ delegations' = [delegations EXCEPT ![d][v] = delegations[d][v] + diff]
      /\ validator_info' = [validator_info EXCEPT ![v] =
             Info(info.stake + diff, info.total_delegated + diff, active)]
      /\ total_staked' = total_staked + diff
    BY <1>5, <1>6
<1> HIDE DEF active, diff
<1> QED
    BY <1>5, <1>6, <1>7, <1>8, <1>9, StakeChange

\* The calls that leave the validators' records and the delegations alone.
LEMMA SameStakes ==
    ASSUME StakeInv, UNCHANGED <<validator_info, delegations, total_staked, privately>>,
           height' \in Int, staked_held' \in Int, unbonding_queue' \in Seq(UnbondingEntry),
           staked_held' = total_staked + Owed(unbonding_queue')
    PROVE  StakeInv'
PROOF
<1>1. (\A v \in StakeValidators : Delegated(v)' = Delegated(v)) /\ Stakes' = Stakes
    BY DEF Delegated, Stakes
<1> QED
    BY <1>1 DEF StakeInv, StakeBooks

\* process_unbonding pays the entries that are due.
LEMMA ProcessUnbondingInv ==
    ASSUME StakeInv, ProcessUnbonding
    PROVE  StakeInv'
PROOF
<1> DEFINE left == KeepAt(unbonding_queue, 1..Len(unbonding_queue) \ Due)
<1>1. /\ left \in Seq(UnbondingEntry)
      /\ Owed(left) = Owed(unbonding_queue) - DueSum
      /\ DueSum \in Int
    BY OwedKept DEF StakeInv
<1>2. Owed(unbonding_queue) \in Int
    BY AmountsType DEF StakeInv
<1>3. unbonding_queue' = left /\ staked_held' = staked_held - DueSum
      /\ UNCHANGED <<validator_info, delegations, total_staked, privately, height>>
    BY DEF ProcessUnbonding
<1> HIDE DEF left
<1>4. /\ staked_held \in Int /\ total_staked \in Int /\ height \in Int
      /\ staked_held = total_staked + Owed(unbonding_queue)
    BY DEF StakeInv, StakeBooks
<1>5. staked_held' \in Int /\ staked_held' = total_staked + Owed(unbonding_queue')
    BY <1>1, <1>2, <1>3, <1>4
<1> QED
    BY <1>1, <1>3, <1>4, <1>5, SameStakes

\* The staking contract's books agree for any validators, delegators, amounts
\* and periods, after any sequence of calls: a validator's stake and
\* total_delegated are its delegations, total_staked is the sum of the stakes,
\* and what the contract holds is total_staked and all that is queued.
THEOREM StakeBooksAgree == StakingSpec => []StakeBooks
PROOF
<1>1. StakeInv /\ [StakingNext]_stakingVars => StakeInv'
    <2> SUFFICES ASSUME StakeInv, [StakingNext]_stakingVars PROVE StakeInv'
        OBVIOUS
    <2>1. ASSUME NEW v \in StakeValidators, RegisterValidator(v) PROVE StakeInv'
        <3> DEFINE info == Info(0, 0, FALSE)
        <3>1. info.stake = 0 /\ info.total_delegated = 0 /\ ~info.is_active /\ info.registered
            BY DEF Info
        <3>2. validator_info[v].stake = 0
            BY <2>1 DEF StakeInv, RegisterValidator
        <3>3. /\ validator_info' = [validator_info EXCEPT ![v] = info]
              /\ UNCHANGED <<delegations, total_staked, unbonding_queue, height, staked_held>>
              /\ privately \subseteq privately'
            BY <2>1 DEF RegisterValidator
        <3> HIDE DEF info
        <3>4. /\ info.stake = validator_info[v].stake
              /\ info.total_delegated = validator_info[v].stake
              /\ ~(info.stake > 0)
            BY <3>1, <3>2
        <3> QED
            BY <3>1, <3>3, <3>4, RecordChange
    <2>2. ASSUME DistributeRewards \/ NextHeight \/ UNCHANGED stakingVars PROVE StakeInv'
        <3>1. /\ UNCHANGED <<validator_info, delegations, total_staked, privately, unbonding_queue, staked_held>>
              /\ height' \in Int
            BY <2>2 DEF DistributeRewards, NextHeight, stakingVars, StakeInv
        <3> QED
            BY <3>1, SameStakes DEF StakeInv, StakeBooks
    <2> QED
        BY <2>1, <2>2, PrivateStakeInv, StakeCallInv, UnstakeInv, ProcessUnbondingInv DEF StakingNext
<1>2. StakeInv => StakeBooks
    BY DEF StakeInv
<1> QED
    BY <1>1, <1>2, StakeInitInv, PTL DEF StakingSpec

-----------------------------------------------------------------------------
(* The bridge contract                                                     *)

\* The states of a transfer the calls of the contract lead to.
Statuses == {"Pending", "SourceConfirmed", "SignaturesComplete"}
\* A transfer as the contract stores it.
PendingTransfer ==
    [target : BridgeChains, amount : Nat, signatures : Seq(BridgeValidators), status : Statuses]

\* No tokens have left: every public transfer is pending and the balance is
\* what they brought, because execute_transfer finds the pending transfer
\* where it looks for a completed one.  The bridge's books are proved from
\* this; they would have to be proved again if execute_transfer released.
NothingReleased ==
    /\ \A n \in 1..transfers : IsPending(PublicId(n))
    /\ locked = SumFunctionOnSet([n \in 1..transfers |-> AmountOf(n)], 1..transfers)
    /\ SumFunctionOnSet([c \in BridgeChains |-> Locked(c)], BridgeChains) <= locked

\* What is stored under a transfer's id is a pending transfer, so that
\* completed_transfers always finds it; no id is used before its call.
BridgeInv ==
    /\ transfers \in Nat /\ locked \in Int
    /\ \A id : TransferKey(id) \in DOMAIN bridge =>
           /\ bridge[TransferKey(id)].type = "PendingTransfer"
           /\ bridge[TransferKey(id)].value \in PendingTransfer
    /\ \A n \in Nat : TransferKey(PublicId(n)) \in DOMAIN bridge => n <= transfers
    /\ \A c \in BridgeChains : Locked(c) \in Nat
    /\ NothingReleased

\* The contract's keys and the ids of public and private transfers never meet.
LEMMA BridgeKeys ==
    /\ \A i, j : TransferKey(i) = TransferKey(j) => i = j
    /\ \A i, j : AssetKey(i) = AssetKey(j) => i = j
    /\ \A i, j : TransferKey(i) # AssetKey(j) /\ TransferKey(i) # ChainKey(j) /\ TransferKey(i) # ValidatorKey(j)
    /\ \A i, j : AssetKey(i) # ChainKey(j) /\ AssetKey(i) # ValidatorKey(j)
    /\ \A i, j : PublicId(i) = PublicId(j) => i = j
    /\ \A i, c, t : PublicId(i) # PrivateId(c, t)
PROOF
    BY DEF TransferKey, AssetKey, ChainKey, ValidatorKey, PublicId, PrivateId

\* The amounts of the public transfers, as a function to sum.
AmountsOf == [n \in 1..transfers |-> AmountOf(n)]
\* The locked amounts by chain, as a function to sum.
LockedOf == [c \in BridgeChains |-> Locked(c)]

\* Both are functions to the naturals.
LEMMA BridgeSums ==
    ASSUME BridgeInv
    PROVE  /\ IsFiniteSet(1..transfers)
           /\ \A n \in 1..transfers : AmountsOf[n] = AmountOf(n) /\ AmountsOf[n] \in Nat
           /\ \A c \in BridgeChains : LockedOf[c] = Locked(c) /\ LockedOf[c] \in Nat
           /\ SumFunctionOnSet(LockedOf, BridgeChains) \in Int
PROOF
<1>1. IsFiniteSet(1..transfers)
    BY FS_Interval DEF BridgeInv
<1>2. \A n \in 1..transfers : AmountsOf[n] = AmountOf(n) /\ AmountsOf[n] \in Nat
    <2> SUFFICES ASSUME NEW n \in 1..transfers PROVE AmountOf(n) \in Nat
        BY DEF AmountsOf
    <2>1. TransferKey(PublicId(n)) \in DOMAIN bridge
        BY DEF BridgeInv, NothingReleased, IsPending, Has
    <2>2. bridge[TransferKey(PublicId(n))].value \in PendingTransfer
        BY <2>1 DEF BridgeInv
    <2> QED
        BY <2>2 DEF AmountOf, Pending, PendingTransfer
<1>3. \A c \in BridgeChains : LockedOf[c] = Locked(c) /\ LockedOf[c] \in Nat
    BY DEF LockedOf, BridgeInv
<1>4. SumFunctionOnSet(LockedOf, BridgeChains) \in Int
    <2>1. \A c \in BridgeChains : LockedOf[c] \in Int
        BY <1>3
    <2> QED
        BY <2>1, SumInt, BridgeChainsAssumption
<1> QED
    BY <1>1, <1>2, <1>3, <1>4

\* Nothing is stored and nothing locked at first.
LEMMA BridgeInitInv == BridgeInit => BridgeInv
PROOF
<1> SUFFICES ASSUME BridgeInit PROVE BridgeInv
    OBVIOUS
<1>1. DOMAIN bridge = {} /\ transfers = 0 /\ locked = 0
    BY DEF BridgeInit, EmptyTable
<1>2. \A c \in BridgeChains : Locked(c) = 0
    BY <1>1 DEF Locked, Get, Has
<1>3. SumFunctionOnSet(LockedOf, BridgeChains) = 0
    <2>1. \A c \in BridgeChains : LockedOf[c] = 0
        BY <1>2 DEF LockedOf
    <2> QED
        BY <2>1, SumZero, BridgeChainsAssumption
<1>4. SumFunctionOnSet(AmountsOf, {}) = 0
    BY SumEmpty
<1>5. 1..transfers = {}
    BY <1>1
<1> QED
    BY <1>1, <1>2, <1>3, <1>4, <1>5 DEF BridgeInv, NothingReleased, LockedOf, AmountsOf

\* A call that starts no public transfer, keeps the amounts of the pending
\* ones and raises no chain's locked amount.
LEMMA BridgeFrame ==
    ASSUME BridgeInv, transfers' = transfers, locked' = locked,
           \A id : TransferKey(id) \in DOMAIN bridge' =>
               /\ bridge'[TransferKey(id)].type = "PendingTransfer"
               /\ bridge'[TransferKey(id)].value \in PendingTransfer,
           \A n \in Nat : TransferKey(PublicId(n)) \in DOMAIN bridge' <=> TransferKey(PublicId(n)) \in DOMAIN bridge,
           \A n \in Nat : TransferKey(PublicId(n)) \in DOMAIN bridge =>
               bridge'[TransferKey(PublicId(n))].value.amount = bridge[TransferKey(PublicId(n))].value.amount,
           \A c \in BridgeChains : Locked(c)' \in Nat /\ Locked(c)' <= Locked(c)
    PROVE  BridgeInv'
PROOF
<1>1. \A n \in 1..transfers : TransferKey(PublicId(n)) \in DOMAIN bridge /\ n \in Nat
    BY DEF BridgeInv, NothingReleased, IsPending, Has
<1>2. \A n \in 1..transfers' : IsPending(PublicId(n))'
    BY <1>1 DEF IsPending, Has
<1>3. \A n \in 1..transfers : AmountOf(n)' = AmountOf(n)
    BY <1>1 DEF AmountOf, Pending
<1>4. AmountsOf' = AmountsOf
    BY <1>3 DEF AmountsOf
<1>5. SumFunctionOnSet(LockedOf', BridgeChains) <= SumFunctionOnSet(LockedOf, BridgeChains)
    <2>1. \A c \in BridgeChains : LockedOf'[c] \in Int /\ LockedOf[c] \in Int /\ LockedOf'[c] <= LockedOf[c]
        BY DEF LockedOf, BridgeInv
    <2> QED
        BY <2>1, SumMonotone, BridgeChainsAssumption
<1>6. SumFunctionOnSet(LockedOf', BridgeChains) \in Int /\ SumFunctionOnSet(LockedOf, BridgeChains) \in Int
    <2>1. \A c \in BridgeChains : LockedOf'[c] \in Int /\ LockedOf[c] \in Int
        BY DEF LockedOf, BridgeInv
    <2> QED
        BY <2>1, SumInt, BridgeChainsAssumption
<1>7. /\ locked = SumFunctionOnSet(AmountsOf, 1..transfers)
      /\ SumFunctionOnSet(LockedOf, BridgeChains) <= locked /\ locked \in Int
    BY DEF BridgeInv, NothingReleased, AmountsOf, LockedOf
<1>8. /\ locked' = SumFunctionOnSet(AmountsOf', 1..transfers')
      /\ SumFunctionOnSet(LockedOf', BridgeChains) <= locked'
    BY <1>4, <1>5, <1>6, <1>7
<1>9. NothingReleased'
    BY <1>2, <1>8 DEF NothingReleased, AmountsOf, LockedOf
<1> QED
    BY <1>9 DEF BridgeInv

\* Governance calls write entries that are no transfers.
LEMMA GovernanceInv ==
    ASSUME BridgeInv, NEW key, NEW type, NEW value, transfers' = transfers, locked' = locked,
           bridge' = Put(bridge, type, key, value), type # "u128",
           \A id : key # TransferKey(id)
    PROVE  BridgeInv'
PROOF
<1>1. /\ DOMAIN bridge' = DOMAIN bridge \cup {key}
      /\ bridge'[key].type = type
      /\ \A k \in DOMAIN bridge : k # key => bridge'[k] = bridge[k]
    BY DEF Put, Write
<1>2. \A id : /\ TransferKey(id) \in DOMAIN bridge' <=> TransferKey(id) \in DOMAIN bridge
              /\ TransferKey(id) \in DOMAIN bridge => bridge'[TransferKey(id)] = bridge[TransferKey(id)]
    BY <1>1
<1>3. \A c \in BridgeChains : Locked(c)' = Locked(c) \/ Locked(c)' = 0
    BY <1>1 DEF Locked, Get, Has
<1>4. \A c \in BridgeChains : Locked(c)' \in Nat /\ Locked(c)' <= Locked(c)
    BY <1>3 DEF BridgeInv
<1>5. \A id : TransferKey(id) \in DOMAIN bridge' =>
               /\ bridge'[TransferKey(id)].type = "PendingTransfer"
               /\ bridge'[TransferKey(id)].value \in PendingTransfer
    BY <1>2 DEF BridgeInv
<1> QED
    BY <1>2, <1>4, <1>5, BridgeFrame

\* A call that writes a pending transfer and keeps its amount, if it was one.
LEMMA PendingWriteInv ==
    ASSUME BridgeInv, NEW id, NEW transfer \in PendingTransfer, transfers' = transfers, locked' = locked,
           bridge' = Put(bridge, "PendingTransfer", TransferKey(id), transfer),
           \A n \in Nat : id = PublicId(n) =>
               /\ TransferKey(id) \in DOMAIN bridge
               /\ transfer.amount = bridge[TransferKey(id)].value.amount
    PROVE  BridgeInv'
PROOF
<1> DEFINE key == TransferKey(id)
<1>1. /\ DOMAIN bridge' = DOMAIN bridge \cup {key}
      /\ bridge'[key].type = "PendingTransfer" /\ bridge'[key].value = transfer
      /\ \A k \in DOMAIN bridge : k # key => bridge'[k] = bridge[k]
    BY DEF Put, Write
<1> HIDE DEF key
<1>2. \A i : TransferKey(i) \in DOMAIN bridge' =>
               /\ bridge'[TransferKey(i)].type = "PendingTransfer"
               /\ bridge'[TransferKey(i)].value \in PendingTransfer
    BY <1>1 DEF BridgeInv
<1>3. \A n \in Nat : TransferKey(PublicId(n)) = key => id = PublicId(n)
    BY BridgeKeys DEF key
<1>4. \A n \in Nat : TransferKey(PublicId(n)) \in DOMAIN bridge' <=> TransferKey(PublicId(n)) \in DOMAIN bridge
    BY <1>1, <1>3 DEF key
<1>5. \A n \in Nat : TransferKey(PublicId(n)) \in DOMAIN bridge =>
          bridge'[TransferKey(PublicId(n))].value.amount = bridge[TransferKey(PublicId(n))].value.amount
    BY <1>1, <1>3 DEF key
<1>6. \A c \in BridgeChains : AssetKey(c) # key
    BY BridgeKeys DEF key
<1>7. \A c \in BridgeChains : Locked(c)' = Locked(c)
    BY <1>1, <1>6 DEF Locked, Get, Has
<1>8. \A c \in BridgeChains : Locked(c)' \in Nat /\ Locked(c)' <= Locked(c)
    BY <1>7 DEF BridgeInv
<1> QED
    BY <1>2, <1>4, <1>5, <1>8, BridgeFrame

\* A signature is added to a pending transfer, whose amount stays.
LEMMA SignTransferInv ==
    ASSUME BridgeInv, NEW v \in BridgeValidators, NEW id, SignTransfer(v, id)
    PROVE  BridgeInv'
PROOF
<1> DEFINE signatures == Append(Pending(id).signatures, v)
           status == IF Len(signatures) >= Threshold THEN "SignaturesComplete" ELSE "SourceConfirmed"
           signed == [Pending(id) EXCEPT !.signatures = signatures, !.status = status]
<1>1. TransferKey(id) \in DOMAIN bridge
    BY DEF SignTransfer, IsPending, Has
<1>2. Pending(id) \in PendingTransfer /\ Pending(id) = bridge[TransferKey(id)].value
    BY <1>1 DEF BridgeInv, Pending
<1>3. signatures \in Seq(BridgeValidators) /\ status \in Statuses
    BY <1>2 DEF PendingTransfer, Statuses
<1>4. bridge' = Put(bridge, "PendingTransfer", TransferKey(id), signed)
      /\ transfers' = transfers /\ locked' = locked
    BY DEF SignTransfer
<1> HIDE DEF signatures, status
<1>5. signed \in PendingTransfer /\ signed.amount = bridge[TransferKey(id)].value.amount
    BY <1>2, <1>3 DEF PendingTransfer
<1> HIDE DEF signed
<1> QED
    BY <1>1, <1>4, <1>5, PendingWriteInv

\* A private transfer locks nothing and overwrites no public one.
LEMMA InitiatePrivateTransferInv ==
    ASSUME BridgeInv, NEW c \in BridgeChains, InitiatePrivateTransfer(c)
    PROVE  BridgeInv'
PROOF
<1> DEFINE id == PrivateId(c, timestamp)
           new == NewTransfer(c, 0)
<1>1. new \in PendingTransfer
    BY DEF NewTransfer, PendingTransfer, Statuses
<1>2. \A n \in Nat : id # PublicId(n)
    BY BridgeKeys
<1>3. /\ bridge' = Put(bridge, "PendingTransfer", TransferKey(id), new)
      /\ transfers' = transfers /\ locked' = locked
    BY DEF InitiatePrivateTransfer
<1> HIDE DEF id, new
<1> QED
    BY <1>1, <1>2, <1>3, PendingWriteInv

\* execute_transfer finds the pending transfer among the completed ones.
LEMMA ExecuteTransferInv ==
    ASSUME BridgeInv, NEW id, ExecuteBridgeTransfer(id)
    PROVE  BridgeInv'
PROOF
<1>1. Marked(bridge, TransferKey(id))
    BY DEF ExecuteBridgeTransfer, IsPending, Has, Marked
<1>2. UNCHANGED <<bridge, locked, transfers>>
    BY <1>1 DEF ExecuteBridgeTransfer
<1> QED
    BY <1>2 DEF BridgeInv, NothingReleased, Locked, AmountOf, IsPending, Pending

\* initiate_transfer takes a new id, locks the amount and records it for the
\* chain and for the transfer.
LEMMA InitiateTransferInv ==
    ASSUME BridgeInv, NEW c \in BridgeChains, NEW amount \in LockAmounts, InitiateTransfer(c, amount)
    PROVE  BridgeInv'
PROOF
<1>1. PICK n \in Nat : n = transfers + 1
    BY DEF BridgeInv
<1> DEFINE key == TransferKey(PublicId(n))
           asset == AssetKey(c)
           new == NewTransfer(c, amount)
           first == Put(bridge, "u128", asset, Locked(c) + amount)
<1>2. amount \in Nat /\ transfers \in Nat /\ locked \in Int /\ Locked(c) \in Nat
    BY LockAmountsAssumption DEF BridgeInv
<1>3. new \in PendingTransfer /\ new.amount = amount
    BY <1>2 DEF NewTransfer, PendingTransfer, Statuses
<1>4. /\ transfers' = n /\ locked' = locked + amount
      /\ bridge' = Put(first, "PendingTransfer", key, new)
    BY <1>1 DEF InitiateTransfer
<1>5. key # asset
    BY BridgeKeys
<1> HIDE DEF new
<1>6. /\ DOMAIN first = DOMAIN bridge \cup {asset}
      /\ first[asset].type = "u128" /\ first[asset].value = Locked(c) + amount
      /\ \A k \in DOMAIN bridge : k # asset => first[k] = bridge[k]
    BY DEF Put, Write
<1> HIDE DEF first, key, asset
<1>7. /\ DOMAIN bridge' = DOMAIN bridge \cup {asset, key}
      /\ bridge'[key].type = "PendingTransfer" /\ bridge'[key].value = new
      /\ bridge'[asset].type = "u128" /\ bridge'[asset].value = Locked(c) + amount
      /\ \A k \in DOMAIN bridge : k # asset /\ k # key => bridge'[k] = bridge[k]
    <2>1. /\ DOMAIN bridge' = DOMAIN first \cup {key}
          /\ bridge'[key].type = "PendingTransfer" /\ bridge'[key].value = new
          /\ \A k \in DOMAIN first : k # key => bridge'[k] = first[k]
        BY <1>4 DEF Put, Write
    <2> QED
        BY <1>5, <1>6, <2>1
<1>8. \A i : TransferKey(i) # asset /\ (TransferKey(i) = key => i = PublicId(n))
    BY BridgeKeys DEF asset, key
<1>9. \A id : TransferKey(id) \in DOMAIN bridge' =>
          /\ bridge'[TransferKey(id)].type = "PendingTransfer"
          /\ bridge'[TransferKey(id)].value \in PendingTransfer
    BY <1>3, <1>7, <1>8 DEF BridgeInv
<1>10. \A m \in Nat : TransferKey(PublicId(m)) \in DOMAIN bridge' => m <= transfers'
    <2> SUFFICES ASSUME NEW m \in Nat, TransferKey(PublicId(m)) \in DOMAIN bridge' PROVE m <= n
        BY <1>4
    <2>1. CASE TransferKey(PublicId(m)) = key
        <3>1. PublicId(m) = PublicId(n)
            BY <1>8, <2>1
        <3>2. m = n
            BY <3>1, BridgeKeys
        <3> QED
            BY <3>2
    <2>2. CASE TransferKey(PublicId(m)) # key
        <3>1. TransferKey(PublicId(m)) \in DOMAIN bridge
            BY <1>7, <1>8, <2>2
        <3>2. m <= transfers
            BY <3>1 DEF BridgeInv
        <3> QED
            BY <1>1, <1>2, <3>2
    <2> QED
        BY <2>1, <2>2
<1>11. /\ Locked(c)' = Locked(c) + amount
       /\ \A d \in BridgeChains \ {c} : Locked(d)' = Locked(d)
    <2>1. Locked(c)' = Locked(c) + amount
        <3>1. asset \in DOMAIN bridge'
            BY <1>7
        <3> QED
            BY <1>7, <3>1 DEF Locked, Get, Has, asset
    <2>2. ASSUME NEW d \in BridgeChains \ {c} PROVE Locked(d)' = Locked(d)
        <3>1. AssetKey(d) # asset /\ AssetKey(d) # key
            BY BridgeKeys DEF asset, key
        <3>2. /\ AssetKey(d) \in DOMAIN bridge' <=> AssetKey(d) \in DOMAIN bridge
              /\ AssetKey(d) \in DOMAIN bridge => bridge'[AssetKey(d)] = bridge[AssetKey(d)]
            BY <1>7, <3>1
        <3> QED
            BY <3>2 DEF Locked, Get, Has
    <2> QED
        BY <2>1, <2>2
<1>12. \A d \in BridgeChains : Locked(d)' \in Nat
    BY <1>2, <1>11 DEF BridgeInv
<1>13. SumFunctionOnSet(LockedOf', BridgeChains) = SumFunctionOnSet(LockedOf, BridgeChains) + amount
    <2>1. \A d \in BridgeChains : LockedOf[d] = Locked(d) /\ LockedOf'[d] = Locked(d)'
        BY DEF LockedOf
    <2>2. \A d \in BridgeChains : LockedOf[d] \in Int /\ LockedOf'[d] \in Int
        BY <1>12, <2>1 DEF BridgeInv
    <2>3. \A d \in BridgeChains \ {c} : LockedOf[d] = LockedOf'[d]
        BY <1>11, <2>1
    <2>4. SumFunctionOnSet(LockedOf', BridgeChains)
              = SumFunctionOnSet(LockedOf, BridgeChains) - LockedOf[c] + LockedOf'[c]
        BY <2>2, <2>3, SumUpdate, BridgeChainsAssumption
    <2>5. SumFunctionOnSet(LockedOf, BridgeChains) \in Int
        BY BridgeSums
    <2> QED
        BY <1>2, <1>11, <2>1, <2>4, <2>5
<1>14. \A m \in 1..transfers : /\ TransferKey(PublicId(m)) \in DOMAIN bridge
                              /\ bridge'[TransferKey(PublicId(m))] = bridge[TransferKey(PublicId(m))]
    <2> SUFFICES ASSUME NEW m \in 1..transfers
                 PROVE  /\ TransferKey(PublicId(m)) \in DOMAIN bridge
                        /\ bridge'[TransferKey(PublicId(m))] = bridge[TransferKey(PublicId(m))]
        OBVIOUS
    <2>1. TransferKey(PublicId(m)) \in DOMAIN bridge
        BY DEF BridgeInv, NothingReleased, IsPending, Has
    <2>2. m # n
        BY <1>1, <1>2
    <2>3. TransferKey(PublicId(m)) # key /\ TransferKey(PublicId(m)) # asset
        BY <1>8, <2>2, BridgeKeys
    <2> QED
        BY <1>7, <2>1, <2>3
<1>15. 1..transfers' = (1..transfers) \cup {n} /\ n \notin 1..transfers
    BY <1>1, <1>2, <1>4
<1>16. \A m \in 1..transfers' : IsPending(PublicId(m))'
    <2>1. \A m \in 1..transfers : IsPending(PublicId(m))'
        BY <1>7, <1>9, <1>14 DEF IsPending, Has
    <2>2. IsPending(PublicId(n))'
        BY <1>7 DEF IsPending, Has, key
    <2> QED
        BY <1>15, <2>1, <2>2
<1>17. SumFunctionOnSet(AmountsOf', 1..transfers') = SumFunctionOnSet(AmountsOf, 1..transfers) + amount
    <2> DEFINE S == 1..transfers
    <2>1. IsFiniteSet(S) /\ \A m \in S : AmountsOf[m] = AmountOf(m) /\ AmountsOf[m] \in Nat
        BY BridgeSums
    <2>2. \A m \in S : AmountOf(m)' = AmountOf(m)
        BY <1>14 DEF AmountOf, Pending
    <2>3. AmountOf(n)' = amount
        BY <1>3, <1>7 DEF AmountOf, Pending, key
    <2>4. \A m \in S \cup {n} : AmountsOf'[m] = AmountOf(m)'
        BY <1>15 DEF AmountsOf
    <2>5. \A m \in S : AmountsOf'[m] = AmountsOf[m]
        BY <2>1, <2>2, <2>4
    <2>6. \A m \in S \cup {n} : AmountsOf'[m] \in Int
        BY <1>2, <2>1, <2>3, <2>4, <2>5
    <2>7. 1..transfers' = S \cup {n} /\ n \notin S
        BY <1>15
    <2> HIDE DEF S
    <2>8. SumFunctionOnSet(AmountsOf', S \cup {n}) = AmountsOf'[n] + SumFunctionOnSet(AmountsOf', S)
        BY <2>1, <2>6, <2>7, SumAdd
    <2>9. SumFunctionOnSet(AmountsOf', S) = SumFunctionOnSet(AmountsOf, S)
        BY <2>1, <2>5, SumSame
    <2>10. SumFunctionOnSet(AmountsOf, S) \in Int
        <3>1. \A m \in S : AmountsOf[m] \in Int
            BY <2>1
        <3> QED
            BY <2>1, <3>1, SumInt
    <2>11. AmountsOf'[n] = amount
        BY <2>3, <2>4
    <2>12. SumFunctionOnSet(AmountsOf', S \cup {n}) = SumFunctionOnSet(AmountsOf, S) + amount
        BY <1>2, <2>8, <2>9, <2>10, <2>11
    <2> QED
        BY <2>7, <2>12 DEF S
<1>18. /\ locked = SumFunctionOnSet(AmountsOf, 1..transfers)
       /\ SumFunctionOnSet(LockedOf, BridgeChains) <= locked
    BY DEF BridgeInv, NothingReleased, AmountsOf, LockedOf
<1>19. /\ locked' = SumFunctionOnSet(AmountsOf', 1..transfers')
       /\ SumFunctionOnSet(LockedOf', BridgeChains) <= locked'
    <2>1. locked' = SumFunctionOnSet(AmountsOf', 1..transfers')
        BY <1>4, <1>17, <1>18
    <2>2. SumFunctionOnSet(LockedOf, BridgeChains) \in Int
        BY BridgeSums
    <2> QED
        BY <1>2, <1>4, <1>13, <1>18, <2>1, <2>2
<1>20. NothingReleased'
    BY <1>16, <1>19 DEF NothingReleased, AmountsOf, LockedOf
<1>21. transfers' \in Nat /\ locked' \in Int
    BY <1>1, <1>2, <1>4
<1> QED
    BY <1>9, <1>10, <1>12, <1>20, <1>21 DEF BridgeInv

\* For any chains, validators, threshold, amounts and sequence of calls, the
\* tokens of the Rust bridge cover the pending public transfers and what
\* locked_assets reports, however registrations overwrite its entries.
THEOREM LockedAlwaysCovers == BridgeSpec => []LockedCovers
PROOF
<1>1. ASSUME BridgeInv, [BridgeNext]_bridgeVars PROVE BridgeInv'
    <2>1. ASSUME NEW c \in BridgeChains, AddChain(c) PROVE BridgeInv'
        BY <1>1, <2>1, GovernanceInv, BridgeKeys DEF AddChain
    <2>2. ASSUME NEW c \in BridgeChains, UpdateMerkleRoot(c) PROVE BridgeInv'
        BY <1>1, <2>2, GovernanceInv, BridgeKeys DEF UpdateMerkleRoot
    <2>3. ASSUME NEW c \in BridgeChains, RegisterWrappedAsset(c) PROVE BridgeInv'
        BY <1>1, <2>3, GovernanceInv, BridgeKeys DEF RegisterWrappedAsset
    <2>4. ASSUME NEW v \in BridgeValidators, AddValidator(v) PROVE BridgeInv'
        BY <1>1, <2>4, GovernanceInv, BridgeKeys DEF AddValidator
    <2>5. ASSUME BridgeTick \/ UNCHANGED bridgeVars PROVE BridgeInv'
        BY <1>1, <2>5 DEF BridgeTick, bridgeVars, BridgeInv, NothingReleased, Locked, AmountOf, IsPending, Pending
    <2> QED
        BY <1>1, <2>1, <2>2, <2>3, <2>4, <2>5, InitiateTransferInv, InitiatePrivateTransferInv, SignTransferInv,
           ExecuteTransferInv DEF BridgeNext
<1>2. ASSUME BridgeInv PROVE LockedCovers
    <2>1. OpenTransfers = 1..transfers
        BY <1>2 DEF BridgeInv, NothingReleased, OpenTransfers
    <2>2. /\ locked = SumFunctionOnSet(AmountsOf, 1..transfers)
          /\ SumFunctionOnSet(LockedOf, BridgeChains) <= locked
          /\ locked \in Int
        BY <1>2 DEF BridgeInv, NothingReleased, AmountsOf, LockedOf
    <2>3. SumFunctionOnSet([n \in OpenTransfers |-> AmountOf(n)], OpenTransfers)
              = SumFunctionOnSet(AmountsOf, 1..transfers)
        BY <2>1 DEF AmountsOf
    <2>4. locked <= locked
        BY <2>2
    <2> QED
        BY <2>2, <2>3, <2>4 DEF LockedCovers, LockedOf
<1> QED
    BY <1>1, <1>2, BridgeInitInv, PTL DEF BridgeSpec

-----------------------------------------------------------------------------
(* The exchange: Newton's iteration                                        *)

\* f is Newton's iteration for the square root of x, from any start up to m.
IsDescent(f, x, m) ==
    f = [z \in 1..m |-> IF Estimate(x, z) < z THEN f[Estimate(x, z)] ELSE z]

\* An estimate is positive, and is smaller than the number it was made from
\* unless that number's square is at most x.
LEMMA EstimateFacts ==
    ASSUME NEW x \in Nat, NEW z \in 1..x
    PROVE  /\ Estimate(x, z) \in Nat /\ Estimate(x, z) >= 1
           /\ Estimate(x, z) >= z => z * z <= x
PROOF
<1> DEFINE q == x \div z
           e == (z + q) \div 2
<1>1. q \in Nat /\ q * z <= x
    BY DivFacts
<1>2. q >= 1
    <2> SUFFICES ASSUME q = 0 PROVE FALSE
        BY <1>1
    <2>1. x = (x \div z) * z + (x % z) /\ x % z \in 0..(z - 1)
        BY Z3
    <2>2. x % z = x
        BY <2>1
    <2> QED
        BY <2>1, <2>2
<1> HIDE DEF q
<1>3. e \in Nat /\ 2 * e <= z + q /\ z + q <= 2 * e + 1
    BY <1>1
<1>4. Estimate(x, z) = e
    BY DEF Estimate, q
<1> HIDE DEF e
<1>5. e >= 1
    BY <1>1, <1>2, <1>3
<1>6. ASSUME e >= z PROVE z * z <= x
    <2>1. q >= z
        BY <1>1, <1>3, <1>6
    <2>2. z * z <= q * z
        BY <1>1, <2>1
    <2> QED
        BY <1>1, <2>2
<1> QED
    BY <1>3, <1>4, <1>5, <1>6

\* The iteration is well defined: each estimate taken is smaller.
LEMMA DescentExists ==
    ASSUME NEW x \in Nat
    PROVE  \E f : IsDescent(f, x, x)
PROOF
<1> DEFINE Upto(m) == 1..m
           B == {T \in SUBSET (1..x) : \E m \in 0..x : T = 1..m /\ ~ \E f : IsDescent(f, x, m)}
<1> SUFFICES ASSUME B # {} PROVE FALSE
    <2>1. CASE B = {}
        <3>1. 1..x \in SUBSET (1..x) /\ x \in 0..x
            OBVIOUS
        <3> QED
            BY <2>1, <3>1
    <2> QED
        BY <2>1
<1>1. PICK T \in B : \A U \in B : U \subseteq T => U = T
    <2> DEFINE S == 1..x
    <2>1. B \in SUBSET (SUBSET S)
        OBVIOUS
    <2>2. IsFiniteSet(S)
        BY FS_Interval
    <2> HIDE DEF B, S
    <2> QED
        BY <2>1, <2>2, MinimalSubset
<1>2. PICK m \in 0..x : T = 1..m /\ ~ \E f : IsDescent(f, x, m)
    BY <1>1
<1>3. CASE m = 0
    <2> DEFINE g == [z \in 1..m |-> z]
    <2>1. 1..m = {}
        BY <1>3
    <2>2. g = [z \in 1..m |-> IF Estimate(x, z) < z THEN g[Estimate(x, z)] ELSE z]
        BY <2>1
    <2> QED
        BY <1>2, <2>2 DEF IsDescent
<1>4. CASE m # 0
    <2>1. m \in 1..x /\ m - 1 \in 0..x
        BY <1>4
    <2>2. 1..(m - 1) \in SUBSET (1..x) /\ 1..(m - 1) \subseteq T /\ 1..(m - 1) # T
        BY <1>2, <2>1
    <2>3. \E f : IsDescent(f, x, m - 1)
        BY <1>1, <2>1, <2>2
    <2>4. PICK f : IsDescent(f, x, m - 1)
        BY <2>3
    <2> DEFINE g == [z \in 1..m |-> IF z < m THEN f[z] ELSE IF Estimate(x, m) < m THEN f[Estimate(x, m)] ELSE m]
    <2>5. ASSUME NEW z \in 1..m
          PROVE  g[z] = IF Estimate(x, z) < z THEN g[Estimate(x, z)] ELSE z
        <3>1. z \in 1..x
            BY <2>1
        <3>2. Estimate(x, z) \in Nat /\ Estimate(x, z) >= 1
            BY <3>1, EstimateFacts
        <3>3. Estimate(x, z) < z => Estimate(x, z) \in 1..m /\ Estimate(x, z) < m
            BY <2>1, <3>2
        <3>4. Estimate(x, z) < z => g[Estimate(x, z)] = f[Estimate(x, z)]
            BY <3>3
        <3>5. CASE z = m
            BY <3>4, <3>5
        <3>6. CASE z < m
            <4>1. z \in 1..(m - 1)
                BY <2>1, <3>6
            <4>2. f[z] = IF Estimate(x, z) < z THEN f[Estimate(x, z)] ELSE z
                BY <2>4, <4>1 DEF IsDescent
            <4> QED
                BY <3>4, <3>6, <4>2
        <3> QED
            BY <2>1, <3>5, <3>6
    <2>6. g = [z \in 1..m |-> g[z]]
        OBVIOUS
    <2> HIDE DEF g
    <2>7. IsDescent(g, x, m)
        BY <2>5, <2>6 DEF IsDescent
    <2> QED
        BY <1>2, <2>7
<1> QED
    BY <1>3, <1>4

\* The iteration stops at a number whose square is at most x.
LEMMA DescentSquare ==
    ASSUME NEW x \in Nat, NEW f, IsDescent(f, x, x), NEW n \in 1..x
    PROVE  f[n] \in Nat /\ f[n] * f[n] <= x
PROOF
<1> DEFINE Good(z) == f[z] \in Nat /\ f[z] * f[z] <= x
           B == {T \in SUBSET (1..x) : \E z \in 1..x : T = 1..z /\ ~Good(z)}
<1> SUFFICES ASSUME B # {} PROVE FALSE
    <2>1. CASE B = {}
        <3>1. 1..n \in SUBSET (1..x)
            OBVIOUS
        <3> QED
            BY <2>1, <3>1
    <2> QED
        BY <2>1
<1>1. PICK T \in B : \A U \in B : U \subseteq T => U = T
    <2> DEFINE S == 1..x
    <2>1. B \in SUBSET (SUBSET S)
        OBVIOUS
    <2>2. IsFiniteSet(S)
        BY FS_Interval
    <2> HIDE DEF B, S
    <2> QED
        BY <2>1, <2>2, MinimalSubset
<1>2. PICK z \in 1..x : T = 1..z /\ ~Good(z)
    BY <1>1
<1> DEFINE e == Estimate(x, z)
<1>3. e \in Nat /\ e >= 1 /\ (e >= z => z * z <= x)
    BY EstimateFacts
<1>4. f[z] = IF e < z THEN f[e] ELSE z
    BY DEF IsDescent
<1> HIDE DEF e
<1>5. CASE e < z
    <2>1. e \in 1..x /\ 1..e \in SUBSET (1..x) /\ 1..e \subseteq T /\ 1..e # T
        BY <1>2, <1>3, <1>5
    <2>2. Good(e)
        BY <1>1, <2>1
    <2> QED
        BY <1>2, <1>4, <1>5, <2>2
<1>6. CASE ~(e < z)
    <2>1. z * z <= x /\ z \in Nat
        BY <1>3, <1>6
    <2> QED
        BY <1>2, <1>4, <1>6, <2>1
<1> QED
    BY <1>5, <1>6

\* sqrt rounds down: the square of what it returns is no larger.
LEMMA SqrtSquare ==
    ASSUME NEW x \in Nat
    PROVE  Sqrt(x) \in Nat /\ Sqrt(x) * Sqrt(x) <= x
PROOF
<1>1. CASE x = 0
    BY <1>1 DEF Sqrt
<1>2. CASE x # 0
    <2> DEFINE f == CHOOSE g : IsDescent(g, x, x)
    <2>1. IsDescent(f, x, x)
        BY DescentExists
    <2>2. Descend(x) = f[x]
        BY DEF Descend, IsDescent
    <2> HIDE DEF f
    <2>3. x \in 1..x
        BY <1>2
    <2>4. f[x] \in Nat /\ f[x] * f[x] <= x
        BY <2>1, <2>3, DescentSquare
    <2> QED
        BY <1>2, <2>2, <2>4 DEF Sqrt
<1> QED
    BY <1>1, <1>2

-----------------------------------------------------------------------------
(* Prices                                                                  *)

\* A wrapped product is no larger than the product.
LEMMA TimesFacts ==
    ASSUME NEW x \in Nat, NEW y \in Nat
    PROVE  Times(x, y) \in Nat /\ Times(x, y) <= x * y
PROOF
<1>1. x * y \in Nat
    OBVIOUS
<1>2. (x * y) % DexWord \in Nat /\ (x * y) % DexWord <= x * y
    BY <1>1, ModNat, DexWordAssumption
<1> QED
    BY <1>2 DEF Times

\* The fee leaves at most the amount, and at most a ten-thousandth of a word.
LEMMA InputFacts ==
    ASSUME NEW amount \in Nat
    PROVE  Input(amount) \in Nat /\ Input(amount) <= amount /\ Input(amount) <= DexWord \div 10000
PROOF
<1> DEFINE rate == 10000 - Fees
           scaled == Times(amount, rate)
           in == Input(amount)
<1>1. rate \in Nat /\ rate <= 10000 /\ DexWord \in Nat \ {0}
    BY FeesAssumption, DexWordAssumption
<1>2. in = scaled \div 10000
    BY DEF Input
<1> HIDE DEF rate, in
<1>3. scaled \in Nat /\ scaled <= amount * rate
    BY <1>1, TimesFacts
<1>4. amount * rate <= amount * 10000 /\ amount * rate \in Nat
    BY <1>1
<1>5. scaled < DexWord
    <2>1. (amount * rate) % DexWord < DexWord
        BY <1>1, <1>4
    <2> QED
        BY <2>1 DEF Times
<1> HIDE DEF scaled
<1>6. in \in Nat /\ in * 10000 <= scaled
    BY <1>2, <1>3, DivFacts
<1>7. in <= amount
    BY <1>3, <1>4, <1>6
<1>8. in <= DexWord \div 10000
    BY <1>1, <1>2, <1>3, <1>5
<1> QED
    BY <1>6, <1>7, <1>8 DEF in

\* Where the reserve leaves room for it, the input does not wrap around.
LEMMA RoomForInput ==
    ASSUME NEW pair, NEW amount \in Nat, pair.reserve_a \in Nat,
           pair.reserve_a + DexWord \div 10000 < DexWord
    PROVE  Denominator(pair, amount) = pair.reserve_a + Input(amount)
PROOF
<1> DEFINE a == pair.reserve_a
           in == Input(amount)
<1>1. in \in Nat /\ in <= DexWord \div 10000
    BY InputFacts
<1>2. a \in Nat /\ DexWord \in Nat \ {0} /\ a + DexWord \div 10000 < DexWord
    BY DexWordAssumption
<1> HIDE DEF a, in
<1>3. DexWord \div 10000 \in Int
    BY <1>2
<1>4. a + in \in 0..(DexWord - 1)
    BY <1>1, <1>2, <1>3
<1>5. (a + in) % DexWord = a + in
    BY <1>2, <1>4, ModSmall
<1> QED
    BY <1>5 DEF Denominator, a, in

\* Where the denominator does not wrap around, what is calculated for the
\* first token is at most what the constant product formula gives.
LEMMA QuoteBound ==
    ASSUME NEW pair, NEW amount \in Nat, pair.reserve_a \in Nat, pair.reserve_b \in Nat,
           Denominator(pair, amount) = pair.reserve_a + Input(amount),
           pair.reserve_a + Input(amount) # 0
    PROVE  SwapAmount(pair, amount) * (pair.reserve_a + amount) <= amount * pair.reserve_b
PROOF
<1> DEFINE a == pair.reserve_a
           b == pair.reserve_b
           in == Input(amount)
           gross == Times(in, b)
           out == SwapAmount(pair, amount)
<1>1. a \in Nat /\ b \in Nat
    OBVIOUS
<1>2. in \in Nat
    BY InputFacts
<1>3. in <= amount
    BY InputFacts
<1>4. a + in \in Nat \ {0} /\ out = gross \div (a + in)
    BY <1>2 DEF SwapAmount
<1> HIDE DEF a, b, in
<1>5. gross \in Nat /\ gross <= in * b
    BY <1>1, <1>2, TimesFacts
<1> HIDE DEF gross
<1>6. out \in Nat /\ out * (a + in) <= gross
    BY <1>4, <1>5, DivFacts
<1> HIDE DEF out
<1>7. out * (a + in) <= in * b /\ in * b \in Nat /\ out * (a + in) \in Nat
    BY <1>1, <1>2, <1>4, <1>5, <1>6
<1>8. out <= b
    <2>1. in * b <= b * (a + in)
        BY <1>1, <1>2
    <2>2. b * (a + in) \in Nat
        BY <1>1, <1>2
    <2>3. out * (a + in) <= b * (a + in)
        BY <1>7, <2>1, <2>2
    <2> QED
        BY <1>1, <1>4, <1>6, <2>3, TimesCancel
<1>9. out * (amount - in) <= b * (amount - in)
    <2>1. amount - in \in Nat
        BY <1>2, <1>3
    <2> QED
        BY <1>1, <1>6, <1>8, <2>1, TimesMonotone
<1>10. out * (a + amount) = out * (a + in) + out * (amount - in)
    BY <1>1, <1>2, <1>6
<1>11. amount * b = in * b + b * (amount - in)
    BY <1>1, <1>2
<1>12. out * (amount - in) \in Int /\ b * (amount - in) \in Int
    BY <1>1, <1>2, <1>6
<1>13. out * (a + amount) <= amount * b
    BY <1>7, <1>9, <1>10, <1>11, <1>12
<1> QED
    BY <1>13 DEF a, b, out

\* Shares are priced so that their square does not outgrow the product.
LEMMA LiquiditySquare ==
    ASSUME NEW pair, NEW x \in Nat, NEW y \in Nat,
           pair.reserve_a \in Nat, pair.reserve_b \in Nat, pair.total_liquidity \in Nat,
           pair.total_liquidity * pair.total_liquidity <= pair.reserve_a * pair.reserve_b
    PROVE  LET sum == pair.total_liquidity + Liquidity(pair, x, y)
           IN  sum \in Nat /\ sum * sum <= (pair.reserve_a + x) * (pair.reserve_b + y)
PROOF
<1> DEFINE a == pair.reserve_a
           b == pair.reserve_b
           T == pair.total_liquidity
<1>1. a \in Nat /\ b \in Nat /\ T \in Nat /\ T * T <= a * b
    OBVIOUS
<1>2. CASE T = 0
    <2> DEFINE p == Times(x, y)
               L == Sqrt(p)
    <2>1. p \in Nat /\ p <= x * y
        BY TimesFacts
    <2> HIDE DEF p
    <2>2. L \in Nat /\ L * L <= p
        BY <2>1, SqrtSquare
    <2>3. Liquidity(pair, x, y) = L
        BY <1>2 DEF Liquidity, p
    <2> HIDE DEF L, a, b, T
    <2>4. x * y <= (a + x) * (b + y)
        <3>1. (a + x) * (b + y) = a * b + x * b + y * a + x * y
            BY <1>1
        <3>2. a * b \in Nat /\ x * b \in Nat /\ y * a \in Nat /\ x * y \in Nat
            BY <1>1
        <3> QED
            BY <3>1, <3>2
    <2>5. x * y \in Nat /\ (a + x) * (b + y) \in Nat /\ L * L \in Nat
        BY <1>1, <2>2
    <2>6. T + L = L /\ L * L <= (a + x) * (b + y)
        BY <1>2, <2>1, <2>2, <2>4, <2>5
    <2> QED
        BY <2>2, <2>3, <2>6 DEF a, b, T
<1>3. CASE T # 0
    <2>1. a # 0 /\ b # 0
        <3> HIDE DEF a, b, T
        <3>1. T * T >= 1
            BY <1>1, <1>3
        <3> QED
            BY <1>1, <3>1
    <2> DEFINE p == Times(x, T)
               q == Times(y, T)
               m == p \div a
               n == q \div b
               L == Smaller(m, n)
    <2>2. Liquidity(pair, x, y) = L
        BY <1>3 DEF Liquidity
    <2> HIDE DEF a, b, T
    <2>3. p \in Nat /\ p <= x * T /\ q \in Nat /\ q <= y * T
        BY <1>1, TimesFacts
    <2> HIDE DEF p, q
    <2>4. m \in Nat /\ m * a <= p
        BY <1>1, <2>1, <2>3, DivFacts
    <2>5. n \in Nat /\ n * b <= q
        BY <1>1, <2>1, <2>3, DivFacts
    <2> HIDE DEF m, n
    <2>6. L \in Nat /\ L <= m /\ L <= n
        BY <2>4, <2>5 DEF Smaller
    <2> HIDE DEF L
    <2>7. L * a <= m * a /\ L * b <= n * b
        BY <1>1, <2>4, <2>5, <2>6, TimesMonotone
    <2>8. /\ L * a \in Nat /\ m * a \in Nat /\ x * T \in Nat
          /\ L * b \in Nat /\ n * b \in Nat /\ y * T \in Nat
        BY <1>1, <2>4, <2>5, <2>6
    <2>9. L * a <= x * T /\ L * b <= y * T
        BY <2>3, <2>4, <2>5, <2>7, <2>8
    <2>10. (T + L) * (T + L) <= (a + x) * (b + y)
        BY <1>1, <1>3, <2>1, <2>6, <2>9, SharesGrow
    <2>11. T + L \in Nat
        BY <1>1, <2>6
    <2> QED
        BY <2>2, <2>10, <2>11 DEF a, b, T
<1> QED
    BY <1>2, <1>3

-----------------------------------------------------------------------------
(* The books of the exchange                                               *)

\* The reserves of a pair are covered by what the contract holds of its two
\* tokens and what private swaps have taken, which keeps every sum below the
\* word, and the square of the shares never exceeds the product of the
\* reserves.
DexInv ==
    /\ dex_held \in [DexTokens -> 0..DexSupply]
    /\ swaps \in 0..MaxSwaps /\ hidden_in \in Nat /\ hidden_out \in Nat
    /\ hidden_out <= swaps * DexSupply
    /\ DOMAIN pairs \subseteq DexTokens \X DexTokens
    /\ \A key \in DOMAIN pairs :
           /\ key[1] # key[2]
           /\ pairs[key].reserve_a \in Nat /\ pairs[key].reserve_b \in Nat
           /\ pairs[key].total_liquidity \in Nat
           /\ pairs[key].reserve_a + pairs[key].reserve_b <= dex_held[key[1]] + dex_held[key[2]] + hidden_out
           /\ pairs[key].total_liquidity * pairs[key].total_liquidity
                  <= pairs[key].reserve_a * pairs[key].reserve_b
    /\ SumFunctionOnSet(Reserves, DOMAIN pairs) + hidden_in = SumFunctionOnSet(dex_held, DexTokens) + hidden_out

\* What private swaps can have taken.
Taken == MaxSwaps * DexSupply

\* They have taken no more, and the word has room for it.
LEMMA TakenBound ==
    ASSUME DexInv
    PROVE  /\ hidden_out \in Nat /\ hidden_out <= Taken /\ Taken \in Nat /\ DexSupply \in Nat
           /\ DexWord \in Nat \ {0} /\ DexWord \div 10000 \in Nat
           /\ 2 * DexSupply + Taken + DexWord \div 10000 < DexWord
PROOF
<1>1. swaps \in Nat /\ MaxSwaps \in Nat /\ DexSupply \in Nat /\ swaps <= MaxSwaps
    BY DexWordAssumption DEF DexInv
<1>2. swaps * DexSupply <= MaxSwaps * DexSupply
    BY <1>1, TimesMonotone
<1>3. swaps * DexSupply \in Nat /\ MaxSwaps * DexSupply \in Nat
    BY <1>1
<1>4. hidden_out \in Nat /\ hidden_out <= swaps * DexSupply
    BY DEF DexInv
<1>5. Taken = MaxSwaps * DexSupply
    BY DEF Taken
<1>6. DexWord \in Nat \ {0} /\ 2 * DexSupply + Taken + DexWord \div 10000 < DexWord
    BY <1>5, DexWordAssumption
<1>7. DexWord \div 10000 \in Nat
    BY <1>6, DivFacts
<1> QED
    BY <1>1, <1>2, <1>3, <1>4, <1>5, <1>6, <1>7

\* Shares that do not outgrow the reserves are never priced by an empty one.
LEMMA DexInvShares == DexInv => SharesCovered
PROOF
<1> SUFFICES ASSUME DexInv PROVE SharesCovered
    OBVIOUS
<1>1. ASSUME NEW key \in DOMAIN pairs PROVE CanPrice(pairs[key])
    <2> DEFINE a == pairs[key].reserve_a
               b == pairs[key].reserve_b
               T == pairs[key].total_liquidity
    <2>1. a \in Nat /\ b \in Nat /\ T \in Nat /\ T * T <= a * b
        BY DEF DexInv
    <2> HIDE DEF a, b, T
    <2>2. T # 0 => T * T >= 1
        BY <2>1
    <2>3. T # 0 => a # 0 /\ b # 0
        BY <2>1, <2>2
    <2> QED
        BY <2>3 DEF CanPrice, a, b, T
<1> QED
    BY <1>1 DEF SharesCovered, DexInv

\* The reserves leave room for the input of a quote.
LEMMA DexInvQuotes == DexInv => FirstQuotesFollow
PROOF
<1> SUFFICES ASSUME DexInv, NEW s \in DexTokens, NEW t \in DexTokens, NEW amount \in QuoteAmounts,
                    s < t, SortPair(s, t) \in DOMAIN pairs,
                    Denominator(pairs[SortPair(s, t)], amount) # 0
             PROVE  SwapAmount(pairs[SortPair(s, t)], amount) * (ReserveOf(s, t) + amount)
                        <= amount * ReserveOf(t, s)
    BY DEF FirstQuotesFollow, QuoteFollows
<1> DEFINE key == SortPair(s, t)
           pair == pairs[key]
<1>1. s \in Nat /\ t \in Nat /\ amount \in Nat
    BY DexTokensAssumption, DexAmountsAssumption
<1>2. SortPair(t, s) = key /\ ~(t < s)
    BY <1>1 DEF SortPair
<1>3. ReserveOf(s, t) = pair.reserve_a /\ ReserveOf(t, s) = pair.reserve_b
    BY <1>2 DEF ReserveOf
<1>4. /\ pair.reserve_a \in Nat /\ pair.reserve_b \in Nat
      /\ pair.reserve_a + pair.reserve_b <= dex_held[key[1]] + dex_held[key[2]] + hidden_out
      /\ key[1] \in DexTokens /\ key[2] \in DexTokens
    BY DEF DexInv
<1> HIDE DEF key
<1>5. /\ dex_held[key[1]] \in Nat /\ dex_held[key[1]] <= DexSupply
      /\ dex_held[key[2]] \in Nat /\ dex_held[key[2]] <= DexSupply
    BY <1>4, DexWordAssumption DEF DexInv
<1>6. pair.reserve_a + DexWord \div 10000 < DexWord
    BY <1>4, <1>5, TakenBound
<1>7. Denominator(pair, amount) # 0
    BY DEF key
<1> HIDE DEF pair
<1>8. SwapAmount(pair, amount) * (pair.reserve_a + amount) <= amount * pair.reserve_b
    <2>1. Denominator(pair, amount) = pair.reserve_a + Input(amount)
        BY <1>1, <1>4, <1>6, RoomForInput
    <2> QED
        BY <1>1, <1>4, <1>7, <2>1, QuoteBound
<1> QED
    BY <1>3, <1>8 DEF pair, key

\* There are no pairs and no tokens at first.
LEMMA DexInitInv == DexInit => DexInv
PROOF
<1> SUFFICES ASSUME DexInit PROVE DexInv
    OBVIOUS
<1>1. DOMAIN pairs = {} /\ dex_held = [t \in DexTokens |-> 0]
    BY DEF DexInit
<1>2. SumFunctionOnSet(Reserves, DOMAIN pairs) = 0
    BY <1>1, SumEmpty
<1>3. SumFunctionOnSet(dex_held, DexTokens) = 0
    BY <1>1, SumZero, DexTokensAssumption
<1>4. dex_held \in [DexTokens -> 0..DexSupply]
    BY <1>1, DexWordAssumption
<1>5. swaps = 0 /\ hidden_in = 0 /\ hidden_out = 0
    BY DEF DexInit
<1>6. swaps \in 0..MaxSwaps /\ hidden_out <= swaps * DexSupply
    BY <1>5, DexWordAssumption
<1> QED
    BY <1>1, <1>2, <1>3, <1>4, <1>5, <1>6 DEF DexInv

\* A sorted pair has the two tokens given, in one of the two orders.
LEMMA SortPairFacts ==
    ASSUME NEW s \in DexTokens, NEW t \in DexTokens
    PROVE  /\ SortPair(s, t) \in DexTokens \X DexTokens
           /\ \/ SortPair(s, t)[1] = s /\ SortPair(s, t)[2] = t
              \/ SortPair(s, t)[1] = t /\ SortPair(s, t)[2] = s
PROOF
    BY DEF SortPair

\* The reserves of the finitely many pairs are integers.
LEMMA PairsFinite ==
    ASSUME DexInv
    PROVE  /\ IsFiniteSet(DOMAIN pairs)
           /\ \A key \in DOMAIN pairs :
                  Reserves[key] = pairs[key].reserve_a + pairs[key].reserve_b /\ Reserves[key] \in Int
PROOF
<1>1. IsFiniteSet(DexTokens \X DexTokens)
    BY FS_Product, DexTokensAssumption
<1>2. IsFiniteSet(DOMAIN pairs)
    BY <1>1, FS_Subset DEF DexInv
<1> QED
    BY <1>2 DEF Reserves, DexInv

\* A new pair has empty reserves and no shares.
LEMMA CreatePairInv ==
    ASSUME DexInv, NEW s \in DexTokens, NEW t \in DexTokens, CreatePair(s, t)
    PROVE  DexInv'
PROOF
<1> DEFINE new == SortPair(s, t)
           S == DOMAIN pairs
<1>1. /\ new \in DexTokens \X DexTokens /\ new[1] # new[2] /\ new \notin S
      /\ new[1] \in DexTokens /\ new[2] \in DexTokens
    BY SortPairFacts DEF CreatePair
<1>2. /\ DOMAIN pairs' = S \cup {new} /\ dex_held' = dex_held
      /\ swaps' = swaps /\ hidden_in' = hidden_in /\ hidden_out' = hidden_out
      /\ pairs'[new] = [reserve_a |-> 0, reserve_b |-> 0, total_liquidity |-> 0]
      /\ \A key \in S : pairs'[key] = pairs[key]
    BY <1>1 DEF CreatePair, hiddenVars
<1> HIDE DEF new
<1>3. pairs'[new].reserve_a = 0 /\ pairs'[new].reserve_b = 0 /\ pairs'[new].total_liquidity = 0
    BY <1>2
<1>4. dex_held[new[1]] \in Nat /\ dex_held[new[2]] \in Nat /\ hidden_out \in Nat
    BY <1>1, DexWordAssumption DEF DexInv
<1>5. \A key \in S \cup {new} :
           /\ key[1] # key[2]
           /\ pairs'[key].reserve_a \in Nat /\ pairs'[key].reserve_b \in Nat
           /\ pairs'[key].total_liquidity \in Nat
           /\ pairs'[key].reserve_a + pairs'[key].reserve_b <= dex_held[key[1]] + dex_held[key[2]] + hidden_out
           /\ pairs'[key].total_liquidity * pairs'[key].total_liquidity
                  <= pairs'[key].reserve_a * pairs'[key].reserve_b
    BY <1>1, <1>2, <1>3, <1>4 DEF DexInv
<1>6. IsFiniteSet(S) /\ \A key \in S : Reserves[key] = pairs[key].reserve_a + pairs[key].reserve_b
                                      /\ Reserves[key] \in Int
    BY PairsFinite
<1>7. \A key \in S \cup {new} : Reserves'[key] = pairs'[key].reserve_a + pairs'[key].reserve_b
    BY <1>2 DEF Reserves
<1>8. Reserves'[new] = 0 /\ \A key \in S : Reserves'[key] = Reserves[key]
    BY <1>2, <1>3, <1>6, <1>7
<1>9. \A key \in S \cup {new} : Reserves'[key] \in Int
    BY <1>6, <1>8
<1> HIDE DEF S
<1>10. SumFunctionOnSet(Reserves', S \cup {new}) = Reserves'[new] + SumFunctionOnSet(Reserves', S)
    BY <1>1, <1>6, <1>9, SumAdd
<1>11. SumFunctionOnSet(Reserves', S) = SumFunctionOnSet(Reserves, S)
    BY <1>6, <1>8, SumSame
<1>12. SumFunctionOnSet(Reserves, S) \in Int
    BY <1>6, SumInt
<1>13. SumFunctionOnSet(Reserves', S \cup {new}) = SumFunctionOnSet(Reserves, S)
    BY <1>8, <1>10, <1>11, <1>12
<1>14. SumFunctionOnSet(Reserves, S) + hidden_in = SumFunctionOnSet(dex_held, DexTokens) + hidden_out
    BY DEF DexInv, S
<1>15. SumFunctionOnSet(Reserves', DOMAIN pairs') + hidden_in'
           = SumFunctionOnSet(dex_held', DexTokens) + hidden_out'
    BY <1>2, <1>13, <1>14
<1>16. /\ dex_held' \in [DexTokens -> 0..DexSupply] /\ S \subseteq DexTokens \X DexTokens
       /\ swaps' \in 0..MaxSwaps /\ hidden_in' \in Nat /\ hidden_out' \in Nat
       /\ hidden_out' <= swaps' * DexSupply
    BY <1>2 DEF DexInv, S
<1> QED
    BY <1>1, <1>2, <1>5, <1>15, <1>16 DEF DexInv

\* add_liquidity adds what it takes to the reserves, in the order given and
\* not in the sorted one, and shares that it prices by their geometric mean
\* or by the smaller of the two ratios.
LEMMA AddLiquidityInv ==
    ASSUME DexInv, NEW s \in DexTokens, NEW t \in DexTokens, NEW x \in DexAmounts, NEW y \in DexAmounts,
           AddLiquidity(s, t, x, y)
    PROVE  DexInv'
PROOF
<1> DEFINE new == SortPair(s, t)
           S == DOMAIN pairs
           a == pairs[new].reserve_a
           b == pairs[new].reserve_b
           sum == pairs[new].total_liquidity + Liquidity(pairs[new], x, y)
<1>1. /\ x \in Nat /\ y \in Nat /\ DexSupply \in Nat /\ DexWord \in Nat \ {0}
      /\ hidden_out \in Nat /\ 2 * DexSupply + hidden_out < DexWord
    <2>1. x \in Nat /\ y \in Nat
        BY DexAmountsAssumption
    <2> QED
        BY <2>1, TakenBound
<1>2. new \in S /\ dex_held[s] + x <= DexSupply /\ dex_held[t] + y <= DexSupply
    BY DEF AddLiquidity
<1>3. /\ new[1] # new[2]
      /\ (new[1] = s /\ new[2] = t) \/ (new[1] = t /\ new[2] = s)
    BY <1>2, SortPairFacts DEF DexInv
<1>4. s # t
    BY <1>3
<1>5. dex_held \in [DexTokens -> 0..DexSupply] /\ dex_held[s] \in Nat /\ dex_held[t] \in Nat
    BY DexWordAssumption DEF DexInv
<1>6. a \in Nat /\ b \in Nat /\ a + b <= dex_held[s] + dex_held[t] + hidden_out
    <2>1. a \in Nat /\ b \in Nat /\ a + b <= dex_held[new[1]] + dex_held[new[2]] + hidden_out
        BY <1>2 DEF DexInv
    <2> HIDE DEF new
    <2> QED
        BY <1>1, <1>3, <1>5, <2>1
<1>7. sum \in Nat /\ sum * sum <= (a + x) * (b + y)
    <2>1. /\ pairs[new].reserve_a \in Nat /\ pairs[new].reserve_b \in Nat /\ pairs[new].total_liquidity \in Nat
          /\ pairs[new].total_liquidity * pairs[new].total_liquidity <= pairs[new].reserve_a * pairs[new].reserve_b
        BY <1>2 DEF DexInv
    <2> HIDE DEF new
    <2> QED
        BY <1>1, <2>1, LiquiditySquare
<1>8. /\ dex_held' = [dex_held EXCEPT ![s] = @ + x, ![t] = @ + y]
      /\ pairs' = [pairs EXCEPT ![new] = [reserve_a |-> (a + x) % DexWord, reserve_b |-> (b + y) % DexWord,
                                          total_liquidity |-> sum % DexWord]]
      /\ swaps' = swaps /\ hidden_in' = hidden_in /\ hidden_out' = hidden_out
    BY DEF AddLiquidity, hiddenVars
<1> HIDE DEF new, a, b, sum
<1>9. (a + x) % DexWord = a + x /\ (b + y) % DexWord = b + y
    <2>1. a + x \in 0..(DexWord - 1) /\ b + y \in 0..(DexWord - 1)
        BY <1>1, <1>2, <1>5, <1>6
    <2> QED
        BY <1>1, <2>1, ModSmall
<1>10. sum % DexWord \in Nat /\ sum % DexWord <= sum
    BY <1>1, <1>7, ModNat
<1> DEFINE share == sum % DexWord
<1>11. share \in Nat /\ share * share <= (a + x) * (b + y)
    <2> HIDE DEF share
    <2>1. share \in Nat /\ share <= sum
        BY <1>10 DEF share
    <2>2. share * share <= sum * share /\ sum * share <= sum * sum
        BY <1>7, <2>1
    <2>3. share * share \in Nat /\ sum * share \in Nat /\ sum * sum \in Nat /\ (a + x) * (b + y) \in Nat
        BY <1>1, <1>6, <1>7, <2>1
    <2> QED
        BY <1>7, <2>1, <2>2, <2>3
<1>12. /\ DOMAIN pairs' = S
       /\ pairs'[new].reserve_a = a + x /\ pairs'[new].reserve_b = b + y
       /\ pairs'[new].total_liquidity = share
       /\ \A key \in S \ {new} : pairs'[key] = pairs[key]
    BY <1>2, <1>8, <1>9
<1> HIDE DEF share
<1>13. /\ dex_held'[s] = dex_held[s] + x /\ dex_held'[t] = dex_held[t] + y
       /\ \A u \in DexTokens \ {s, t} : dex_held'[u] = dex_held[u]
       /\ dex_held' \in [DexTokens -> 0..DexSupply]
    BY <1>1, <1>2, <1>4, <1>5, <1>8
<1>14. \A u \in DexTokens : dex_held[u] \in Nat /\ dex_held'[u] \in Nat /\ dex_held[u] <= dex_held'[u]
    BY <1>1, <1>5, <1>13
<1>15. ASSUME NEW key \in S
       PROVE  /\ key[1] # key[2]
              /\ pairs'[key].reserve_a \in Nat /\ pairs'[key].reserve_b \in Nat
              /\ pairs'[key].total_liquidity \in Nat
              /\ pairs'[key].reserve_a + pairs'[key].reserve_b <= dex_held'[key[1]] + dex_held'[key[2]] + hidden_out
              /\ pairs'[key].total_liquidity * pairs'[key].total_liquidity
                     <= pairs'[key].reserve_a * pairs'[key].reserve_b
    <2>1. CASE key = new
        <3>1. dex_held'[new[1]] + dex_held'[new[2]] = dex_held[s] + x + dex_held[t] + y
            BY <1>1, <1>3, <1>5, <1>13
        <3>2. pairs'[new].reserve_a \in Nat /\ pairs'[new].reserve_b \in Nat /\ pairs'[new].total_liquidity \in Nat
            BY <1>1, <1>6, <1>11, <1>12
        <3>3. pairs'[new].reserve_a + pairs'[new].reserve_b <= dex_held[s] + x + dex_held[t] + y + hidden_out
            BY <1>1, <1>5, <1>6, <1>12
        <3>4. pairs'[new].total_liquidity * pairs'[new].total_liquidity
                     <= pairs'[new].reserve_a * pairs'[new].reserve_b
            BY <1>11, <1>12
        <3> QED
            BY <1>3, <2>1, <3>1, <3>2, <3>3, <3>4
    <2>2. CASE key # new
        <3>1. /\ key[1] # key[2]
              /\ pairs[key].reserve_a \in Nat /\ pairs[key].reserve_b \in Nat
              /\ pairs[key].total_liquidity \in Nat
              /\ pairs[key].reserve_a + pairs[key].reserve_b <= dex_held[key[1]] + dex_held[key[2]] + hidden_out
              /\ pairs[key].total_liquidity * pairs[key].total_liquidity
                     <= pairs[key].reserve_a * pairs[key].reserve_b
              /\ key[1] \in DexTokens /\ key[2] \in DexTokens
            BY DEF DexInv
        <3>2. pairs'[key] = pairs[key]
            BY <1>12, <2>2
        <3>3. pairs[key].reserve_a + pairs[key].reserve_b <= dex_held'[key[1]] + dex_held'[key[2]] + hidden_out
            BY <1>1, <1>14, <3>1
        <3> QED
            BY <3>1, <3>2, <3>3
    <2> QED
        BY <2>1, <2>2
<1>16. SumFunctionOnSet(dex_held', DexTokens) = SumFunctionOnSet(dex_held, DexTokens) + x + y
    <2>1. IsFiniteSet(DexTokens)
        BY DexTokensAssumption
    <2> DEFINE half == [dex_held EXCEPT ![s] = dex_held[s] + x]
    <2>2. /\ half[s] = dex_held[s] + x
          /\ \A u \in DexTokens : half[u] \in Int /\ dex_held[u] \in Int /\ dex_held'[u] \in Int
          /\ \A u \in DexTokens \ {s} : dex_held[u] = half[u]
          /\ \A u \in DexTokens \ {t} : half[u] = dex_held'[u]
        BY <1>1, <1>4, <1>5, <1>13, <1>14
    <2> HIDE DEF half
    <2>3. SumFunctionOnSet(half, DexTokens) = SumFunctionOnSet(dex_held, DexTokens) - dex_held[s] + half[s]
        <3>1. \A u \in DexTokens : dex_held[u] \in Int /\ half[u] \in Int
            BY <2>2
        <3> QED
            BY <2>1, <2>2, <3>1, SumUpdate
    <2>4. SumFunctionOnSet(dex_held', DexTokens) = SumFunctionOnSet(half, DexTokens) - half[t] + dex_held'[t]
        <3>1. \A u \in DexTokens : half[u] \in Int /\ dex_held'[u] \in Int
            BY <2>2
        <3> QED
            BY <2>1, <2>2, <3>1, SumUpdate
    <2>5. SumFunctionOnSet(dex_held, DexTokens) \in Int
        BY <2>2, SumInt, DexTokensAssumption
    <2>6. half[t] = dex_held[t]
        BY <1>4, <2>2
    <2> QED
        BY <1>1, <1>5, <1>13, <2>2, <2>3, <2>4, <2>5, <2>6
<1>17. SumFunctionOnSet(Reserves', S) = SumFunctionOnSet(Reserves, S) + x + y
    <2>1. IsFiniteSet(S) /\ \A key \in S : Reserves[key] = pairs[key].reserve_a + pairs[key].reserve_b
                                          /\ Reserves[key] \in Int
        BY PairsFinite
    <2>2. \A key \in S : Reserves'[key] = pairs'[key].reserve_a + pairs'[key].reserve_b
        BY <1>12 DEF Reserves
    <2>3. \A key \in S : Reserves[key] \in Int /\ Reserves'[key] \in Int
        BY <1>15, <2>1, <2>2
    <2>4. \A key \in S \ {new} : Reserves[key] = Reserves'[key]
        BY <1>12, <2>1, <2>2
    <2>5. Reserves[new] = a + b /\ Reserves'[new] = a + x + (b + y)
        BY <1>2, <1>12, <2>1, <2>2 DEF a, b
    <2> HIDE DEF S
    <2>6. SumFunctionOnSet(Reserves', S) = SumFunctionOnSet(Reserves, S) - Reserves[new] + Reserves'[new]
        BY <1>2, <2>1, <2>3, <2>4, SumUpdate
    <2>7. SumFunctionOnSet(Reserves, S) \in Int
        BY <2>1, SumInt
    <2> QED
        BY <1>1, <1>6, <2>5, <2>6, <2>7
<1>18. /\ SumFunctionOnSet(Reserves, S) + hidden_in = SumFunctionOnSet(dex_held, DexTokens) + hidden_out
       /\ hidden_in \in Nat
    BY DEF DexInv
<1>19. SumFunctionOnSet(Reserves, S) \in Int /\ SumFunctionOnSet(dex_held, DexTokens) \in Int
    <2>1. \A key \in S : Reserves[key] \in Int
        BY PairsFinite
    <2>2. IsFiniteSet(S)
        BY PairsFinite
    <2>3. \A u \in DexTokens : dex_held[u] \in Int
        BY <1>14
    <2> QED
        BY <2>1, <2>2, <2>3, SumInt, DexTokensAssumption
<1>20. SumFunctionOnSet(Reserves', S) + hidden_in = SumFunctionOnSet(dex_held', DexTokens) + hidden_out
    BY <1>1, <1>16, <1>17, <1>18, <1>19
<1>21. SumFunctionOnSet(Reserves', DOMAIN pairs') + hidden_in'
           = SumFunctionOnSet(dex_held', DexTokens) + hidden_out'
    BY <1>8, <1>12, <1>20
<1>22. /\ swaps' \in 0..MaxSwaps /\ hidden_in' \in Nat /\ hidden_out' \in Nat
       /\ hidden_out' <= swaps' * DexSupply /\ S \subseteq DexTokens \X DexTokens
    BY <1>8 DEF DexInv
<1> QED
    BY <1>8, <1>12, <1>13, <1>15, <1>21, <1>22 DEF DexInv

\* A private swap moves tokens and leaves the reserves alone; what it takes is
\* at most the supply of a token.
LEMMA PrivateSwapInv ==
    ASSUME DexInv, NEW s \in DexTokens, NEW t \in DexTokens, NEW x \in HiddenAmounts, NEW y \in HiddenAmounts,
           PrivateSwap(s, t, x, y)
    PROVE  DexInv'
PROOF
<1>1. x \in Nat /\ y \in Nat /\ DexSupply \in Nat /\ MaxSwaps \in Nat
    BY DexAmountsAssumption, DexWordAssumption
<1>2. s # t
    BY SortPairFacts DEF PrivateSwap, DexInv
<1>3. /\ dex_held \in [DexTokens -> 0..DexSupply] /\ dex_held[s] + x <= DexSupply /\ dex_held[t] >= y
      /\ dex_held' = [dex_held EXCEPT ![s] = @ + x, ![t] = @ - y]
      /\ pairs' = pairs /\ swaps' = swaps + 1 /\ swaps < MaxSwaps
      /\ hidden_in' = hidden_in + x /\ hidden_out' = hidden_out + y
      /\ hidden_in \in Nat /\ hidden_out \in Nat /\ swaps \in Nat
    BY <1>1 DEF DexInv, PrivateSwap
<1>4. /\ dex_held'[s] = dex_held[s] + x /\ dex_held'[t] = dex_held[t] - y
      /\ \A u \in DexTokens \ {s, t} : dex_held'[u] = dex_held[u]
      /\ dex_held' \in [DexTokens -> 0..DexSupply]
      /\ \A u \in DexTokens : dex_held[u] \in Nat /\ dex_held'[u] \in Nat /\ dex_held[u] <= DexSupply
    BY <1>1, <1>2, <1>3
<1>5. hidden_out' <= swaps' * DexSupply
    <2>1. y <= DexSupply
        BY <1>1, <1>3, <1>4
    <2>2. (swaps + 1) * DexSupply = swaps * DexSupply + DexSupply /\ swaps * DexSupply \in Nat
        BY <1>1, <1>3
    <2>3. hidden_out <= swaps * DexSupply
        BY DEF DexInv
    <2> QED
        BY <1>1, <1>3, <2>1, <2>2, <2>3
<1>6. ASSUME NEW key \in DOMAIN pairs
      PROVE  pairs[key].reserve_a + pairs[key].reserve_b <= dex_held'[key[1]] + dex_held'[key[2]] + hidden_out'
    <2>1. /\ key[1] # key[2] /\ key[1] \in DexTokens /\ key[2] \in DexTokens
          /\ pairs[key].reserve_a \in Nat /\ pairs[key].reserve_b \in Nat
          /\ pairs[key].reserve_a + pairs[key].reserve_b <= dex_held[key[1]] + dex_held[key[2]] + hidden_out
        BY DEF DexInv
    <2>2. \A u \in DexTokens : u # t => dex_held'[u] >= dex_held[u]
        BY <1>1, <1>3, <1>4
    <2>3. dex_held'[key[1]] + dex_held'[key[2]] + y >= dex_held[key[1]] + dex_held[key[2]]
        BY <1>1, <1>2, <1>4, <2>1, <2>2
    <2> QED
        BY <1>1, <1>3, <1>4, <2>1, <2>3
<1>7. SumFunctionOnSet(dex_held', DexTokens) = SumFunctionOnSet(dex_held, DexTokens) + x - y
    <2>1. IsFiniteSet(DexTokens)
        BY DexTokensAssumption
    <2> DEFINE half == [dex_held EXCEPT ![s] = dex_held[s] + x]
    <2>2. /\ half[s] = dex_held[s] + x
          /\ \A u \in DexTokens : half[u] \in Int /\ dex_held[u] \in Int /\ dex_held'[u] \in Int
          /\ \A u \in DexTokens \ {s} : dex_held[u] = half[u]
          /\ \A u \in DexTokens \ {t} : half[u] = dex_held'[u]
        BY <1>1, <1>2, <1>3, <1>4
    <2> HIDE DEF half
    <2>3. SumFunctionOnSet(half, DexTokens) = SumFunctionOnSet(dex_held, DexTokens) - dex_held[s] + half[s]
        <3>1. \A u \in DexTokens : dex_held[u] \in Int /\ half[u] \in Int
            BY <2>2
        <3> QED
            BY <2>1, <2>2, <3>1, SumUpdate
    <2>4. SumFunctionOnSet(dex_held', DexTokens) = SumFunctionOnSet(half, DexTokens) - half[t] + dex_held'[t]
        <3>1. \A u \in DexTokens : half[u] \in Int /\ dex_held'[u] \in Int
            BY <2>2
        <3> QED
            BY <2>1, <2>2, <3>1, SumUpdate
    <2>5. SumFunctionOnSet(dex_held, DexTokens) \in Int
        BY <2>1, <2>2, SumInt
    <2>6. half[t] = dex_held[t]
        BY <1>2, <2>2
    <2> QED
        BY <1>1, <1>4, <2>2, <2>3, <2>4, <2>5, <2>6
<1>8. SumFunctionOnSet(Reserves', DOMAIN pairs') + hidden_in'
          = SumFunctionOnSet(dex_held', DexTokens) + hidden_out'
    <2>1. Reserves' = Reserves /\ DOMAIN pairs' = DOMAIN pairs
        BY <1>3 DEF Reserves
    <2> DEFINE booked == SumFunctionOnSet(Reserves, DOMAIN pairs)
               held == SumFunctionOnSet(dex_held, DexTokens)
    <2>2. booked + hidden_in = held + hidden_out
        BY DEF DexInv
    <2>3. booked \in Int
        <3>1. IsFiniteSet(DOMAIN pairs) /\ \A key \in DOMAIN pairs : Reserves[key] \in Int
            BY PairsFinite
        <3> QED
            BY <3>1, SumInt
    <2>4. held \in Int
        <3>1. \A u \in DexTokens : dex_held[u] \in Int
            BY <1>4
        <3> QED
            BY <3>1, SumInt, DexTokensAssumption
    <2>5. SumFunctionOnSet(dex_held', DexTokens) = held + x - y
        BY <1>7
    <2> HIDE DEF booked, held
    <2>6. booked + (hidden_in + x) = (held + x - y) + (hidden_out + y)
        BY <1>1, <1>3, <2>2, <2>3, <2>4
    <2> QED
        BY <1>3, <2>1, <2>5, <2>6 DEF booked
<1>9. swaps' \in 0..MaxSwaps /\ hidden_in' \in Nat /\ hidden_out' \in Nat
    BY <1>1, <1>3
<1> QED
    BY <1>3, <1>4, <1>5, <1>6, <1>8, <1>9 DEF DexInv

\* The invariant of the exchange is inductive.
LEMMA DexInvHolds == DexSpec => []DexInv
PROOF
<1>1. DexInv /\ [DexNext]_dexVars => DexInv'
    <2> SUFFICES ASSUME DexInv, [DexNext]_dexVars PROVE DexInv'
        OBVIOUS
    <2>1. ASSUME UNCHANGED <<pairs, dex_held, hiddenVars>> PROVE DexInv'
        BY <2>1 DEF DexInv, Reserves, hiddenVars
    <2> QED
        BY <2>1, CreatePairInv, AddLiquidityInv, PrivateSwapInv DEF DexNext, PlaceEncryptedOrder, DexTick, dexVars
<1> QED
    BY <1>1, DexInitInv, PTL DEF DexSpec

\* For any tokens, amounts and number of private swaps, in a word with room
\* for what there is to add, the exchange's shares are covered: the reserves
\* are what the contract holds apart from the hidden flows, shares never
\* outgrow the geometric mean of the reserves, and no share is priced by an
\* empty reserve.
THEOREM SharesAlwaysCovered == DexSpec => []SharesCovered
PROOF
    BY DexInvHolds, DexInvShares, PTL

\* In the same word, what calculate_swap_amount returns for the pair's first
\* token never exceeds the constant product formula, whatever wraps around.
THEOREM FirstQuotesAlwaysFollow == DexSpec => []FirstQuotesFollow
PROOF
    BY DexInvHolds, DexInvQuotes, PTL

=============================================================================
