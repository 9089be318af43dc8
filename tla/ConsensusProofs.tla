--------------------------- MODULE ConsensusProofs ---------------------------
(***************************************************************************)
(* Proofs about the consensus engine, for any finite validator set, any    *)
(* blocks received and any bounds, and about the DAG of transactions and   *)
(* blocks, for any vertices, lists of parents and threads: the sort        *)
(* implements TopologicalOrder, the search for ancestors is complete, and  *)
(* the two maps agree.                                                     *)
(***************************************************************************)
EXTENDS Consensus, DagOrdering, DataTheorems, SequenceTheorems, FiniteSetTheorems, TLAPS

-----------------------------------------------------------------------------
(* The round-robin leader.                                                 *)

\* The positions of n addresses in their order are exactly 0..n-1: get_leader's
\* index always finds an address.
LEMMA PositionsCover ==
    ASSUME NEW S, S \subseteq Nat, IsFiniteSet(S), NEW k \in 0..(Cardinality(S) - 1)
    PROVE  \E a \in S : Cardinality({v \in S : v < a}) = k
PROOF
<1> DEFINE below(a) == {v \in S : v < a}
           n == Cardinality(S)
           position == [a \in S |-> Cardinality(below(a)) + 1]
<1>1. n \in Nat
    BY FS_CardinalityType
<1>2. ASSUME NEW a \in S
      PROVE  IsFiniteSet(below(a)) /\ Cardinality(below(a)) \in 0..(n - 1)
    <2>1. below(a) \in SUBSET S /\ below(a) # S
        BY SMT
    <2>2. IsFiniteSet(below(a)) /\ Cardinality(below(a)) <= n
          /\ (Cardinality(below(a)) = n => below(a) = S)
        BY <2>1, FS_Subset
    <2>3. Cardinality(below(a)) \in Nat
        BY <2>2, FS_CardinalityType
    <2> QED
        BY <1>1, <2>1, <2>2, <2>3
<1>3. ASSUME NEW a \in S, NEW b \in S, a < b
      PROVE  Cardinality(below(a)) # Cardinality(below(b))
    <2>1. \A v \in S : v < a => v < b
        BY <1>3
    <2>2. below(a) \in SUBSET below(b)
        BY <2>1
    <2>3. a \in below(b) /\ a \notin below(a)
        BY <1>3
    <2> QED
        BY <1>2, <2>2, <2>3, FS_Subset
<1>4. \A a, b \in S : Cardinality(below(a)) = Cardinality(below(b)) => a = b
    <2> SUFFICES ASSUME NEW a \in S, NEW b \in S, Cardinality(below(a)) = Cardinality(below(b))
                 PROVE  a = b
        OBVIOUS
    <2>1. ~(a < b) /\ ~(b < a)
        BY <1>3
    <2> QED
        BY <2>1
<1>5. \A a \in S : position[a] \in 1..n
    BY <1>1, <1>2
<1>6. position \in Injection(S, 1..n)
    <2>1. \A a, b \in S : position[a] = position[b] => a = b
        BY <1>2, <1>4
    <2> QED
        BY <1>5, <2>1 DEF Injection, IsInjective
<1>7. IsFiniteSet(1..n) /\ Cardinality(1..n) = n
    BY <1>1, FS_Interval
<1>8. position \in Surjection(S, 1..n)
    BY <1>6, <1>7, FS_Injection
<1>9. \A j \in 1..n : \E a \in S : position[a] = j
    BY <1>8 DEF Surjection
<1>10. k + 1 \in 1..n
    BY <1>1
<1>11. PICK a \in S : position[a] = k + 1
    BY <1>9, <1>10
<1>12. Cardinality(below(a)) = k
    BY <1>2, <1>11
<1> QED
    BY <1>12

\* Once a validator is registered, the leader of every round is one of them.
LEMMA LeaderIsRegistered ==
    ASSUME NEW round \in Nat, Registered # {}
    PROVE  GetLeader(round) \in Registered
PROOF
<1>1. Registered \subseteq Nat /\ IsFiniteSet(Registered)
    BY AddressesAssumption, FS_Subset DEF Registered
<1>2. Cardinality(Registered) \in Nat \ {0}
    BY <1>1, FS_CardinalityType, FS_EmptySet
<1>3. round % Cardinality(Registered) \in 0..(Cardinality(Registered) - 1)
    BY <1>2
<1>4. \E a \in Registered :
          Cardinality({v \in Registered : v < a}) = round % Cardinality(Registered)
    BY <1>1, <1>3, PositionsCover
<1> QED
    BY <1>4 DEF GetLeader
-----------------------------------------------------------------------------
(* The inductive invariant.                                                *)

\* A block waiting to be finalized is well formed and its parent is stored;
\* a stored block is under its height and its parent is stored.  The
\* transactions of a block whose mempool is still to be cleared are in a
\* stored block, if not in that one, or in one that was stored over.
Inv ==
    /\ TypeOK
    /\ current_height = 0
    /\ DOMAIN blocks = Heights
    /\ \A b \in validated : b.height > 0 => blocks[b.height - 1] # None
    /\ ChainHasNoGaps
    /\ \A b \in clearing : b.txs \subseteq StoredTxs \cup replaced
    /\ NothingDropped

\* What the driver passes to validate_block.
LEMMA CandidatesAreBlocks ==
    ASSUME Inv, NEW txs \in Batches
    PROVE  /\ Proposal(txs) \in Block
           /\ Sign(Proposal(txs), Me) \in Block
PROOF
<1>1. current_height + 1 \in Heights /\ txs \in SUBSET Txs
    BY BoundsAssumption DEF Inv, TypeOK, Heights, Batches
<1>2. Proposal(txs) \in Block /\ Proposal(txs).signature = None
    BY <1>1, MeAssumption DEF Proposal, Block
<1>3. Header(Proposal(txs)) \in [height : Heights, root : SUBSET Txs, validator : Addresses, signature : {None}]
    BY <1>2 DEF Header, Block
<1>4. [by |-> Me, over |-> Header(Proposal(txs))] \in Signature
    BY <1>3, MeAssumption DEF Signature
<1>5. Sign(Proposal(txs), Me) \in Block
    BY <1>2, <1>4 DEF Sign, Block
<1> QED
    BY <1>2, <1>5

\* No signature of a block is one of that block's own header, which
\* contains it.
LEMMA NothingVerifies ==
    ASSUME NEW b \in Block
    PROVE  ~VerifySignature(b)
PROOF
<1> SUFFICES ASSUME VerifySignature(b) PROVE FALSE
    OBVIOUS
<1>1. b.signature # None /\ b.signature.over = Header(b)
    BY DEF VerifySignature
<1>2. b.signature \in Signature
    BY <1>1 DEF Block
<1>3. b.signature.over.signature = None
    BY <1>2 DEF Signature
<1>4. Header(b).signature = b.signature
    BY DEF Header
<1> QED
    BY <1>1, <1>3, <1>4

LEMMA InitInv == Init => Inv
PROOF
<1> SUFFICES ASSUME Init PROVE Inv
    OBVIOUS
<1>1. \A h \in Heights : blocks[h] = None
    BY DEF Init
<1>2. TypeOK
    BY <1>1, BoundsAssumption DEF Init, TypeOK
<1> QED
    BY <1>1, <1>2 DEF Init, Inv, ChainHasNoGaps, Heights, NothingDropped

\* Steps that leave the chain alone.
LEMMA StoredKept ==
    ASSUME blocks' = blocks
    PROVE  StoredTxs' = StoredTxs
PROOF
    BY DEF StoredTxs, TxsAt

LEMMA AddValidatorInv ==
    ASSUME Inv, NEW a \in Addresses, NEW stake \in Stakes, AddValidator(a, stake)
    PROVE  Inv'
PROOF
<1>1. TypeOK'
    <2>1. validators' \in [Addresses -> Stakes \cup {None}] /\ total_stake' \in Nat
        BY StakesAssumption DEF Inv, TypeOK, AddValidator
    <2>2. adds' \in 0..MaxAdds
        BY BoundsAssumption DEF Inv, TypeOK, AddValidator
    <2> QED
        BY <2>1, <2>2 DEF Inv, TypeOK, AddValidator, chain
<1> QED
    BY <1>1, StoredKept DEF Inv, ChainHasNoGaps, NothingDropped, AddValidator, chain

LEMMA AddTransactionInv ==
    ASSUME Inv, NEW tx \in Txs, AddTransaction(tx)
    PROVE  Inv'
PROOF
<1>1. TypeOK'
    BY DEF Inv, TypeOK, AddTransaction, set, chain
<1> QED
    BY <1>1, StoredKept DEF Inv, ChainHasNoGaps, NothingDropped, AddTransaction, chain

LEMMA AcceptInv ==
    ASSUME Inv, NEW b \in Block, Accept(b), UNCHANGED pool
    PROVE  Inv'
PROOF
<1>1. TypeOK'
    BY DEF Inv, TypeOK, Accept, set
<1>2. b.height > 0 => blocks[b.height - 1] # None
    BY DEF Accept, ValidateBlock
<1> QED
    BY <1>1, <1>2, StoredKept DEF Inv, ChainHasNoGaps, NothingDropped, Accept

\* Blocks are only ever added: a parent found by validate_block is still
\* there when the block is stored, and the transactions of a block stored
\* over go to replaced.
LEMMA StoreInv ==
    ASSUME Inv, NEW b \in validated, StoreBlock(b)
    PROVE  Inv'
PROOF
<1>1. b \in Block /\ b.height \in Heights /\ b.txs \subseteq Txs /\ b # None
    BY NoneAssumption DEF Inv, TypeOK, Block
<1>2. /\ blocks' = [blocks EXCEPT ![b.height] = b]
      /\ DOMAIN blocks' = Heights
      /\ \A h \in Heights : blocks'[h] = IF h = b.height THEN b ELSE blocks[h]
    BY <1>1 DEF Inv, StoreBlock
<1>3. \A h \in Heights : blocks[h] # None => blocks'[h] # None
    BY <1>1, <1>2
<1>4. \A h \in Heights : h > 0 => h - 1 \in Heights
    BY BoundsAssumption DEF Heights
<1>5. \A h \in Heights : TxsAt(h) \subseteq Txs
    BY DEF Inv, TypeOK, TxsAt, Block
<1>6. TypeOK'
    <2>1. \A h \in Heights : blocks'[h] # None => blocks'[h] \in Block /\ blocks'[h].height = h
        BY <1>1, <1>2 DEF Inv, TypeOK
    <2>2. replaced' \subseteq Txs /\ validated' \subseteq Block /\ clearing' \subseteq Block
        BY <1>1, <1>5 DEF Inv, TypeOK, StoreBlock
    <2> QED
        BY <2>1, <2>2 DEF Inv, TypeOK, StoreBlock, set
<1>7. \A c \in validated : c.height \in Heights
    BY DEF Inv, TypeOK, Block
<1>8. \A c \in validated' : c.height > 0 => blocks'[c.height - 1] # None
    BY <1>3, <1>4, <1>7 DEF Inv, StoreBlock
<1>9. ChainHasNoGaps'
    BY <1>1, <1>2, <1>3, <1>4 DEF Inv, ChainHasNoGaps
<1>10. current_height' = 0
    BY DEF Inv, StoreBlock
<1>11. \A h \in Heights : TxsAt(h)' = IF h = b.height THEN b.txs ELSE TxsAt(h)
    BY <1>1, <1>2 DEF TxsAt
<1>12. b.txs \subseteq StoredTxs'
    BY <1>1, <1>11 DEF StoredTxs
<1>13. StoredTxs \cup replaced \subseteq StoredTxs' \cup replaced'
    <2>1. replaced' = replaced \cup TxsAt(b.height)
        BY DEF StoreBlock
    <2>2. ASSUME NEW h \in Heights PROVE TxsAt(h) \subseteq StoredTxs' \cup replaced'
        BY <1>11, <2>1 DEF StoredTxs
    <2> QED
        BY <2>1, <2>2 DEF StoredTxs
<1>14. \A c \in clearing' : c.txs \subseteq StoredTxs' \cup replaced'
    BY <1>12, <1>13 DEF Inv, StoreBlock
<1>15. NothingDropped'
    BY <1>13 DEF Inv, NothingDropped, StoreBlock
<1> QED
    BY <1>2, <1>6, <1>8, <1>9, <1>10, <1>14, <1>15 DEF Inv

LEMMA ClearInv ==
    ASSUME Inv, NEW b \in clearing, ClearMempool(b)
    PROVE  Inv'
PROOF
<1>1. TypeOK'
    BY DEF Inv, TypeOK, ClearMempool, set
<1>2. StoredTxs' = StoredTxs
    BY StoredKept DEF ClearMempool
<1>3. NothingDropped'
    BY <1>2 DEF Inv, NothingDropped, ClearMempool
<1> QED
    BY <1>1, <1>2, <1>3 DEF Inv, ChainHasNoGaps, ClearMempool

LEMMA NextInv ==
    ASSUME Inv, [Next]_vars
    PROVE  Inv'
PROOF
<1>1. ASSUME NEW a \in Addresses, NEW stake \in Stakes, AddValidator(a, stake)
      PROVE  Inv'
    BY <1>1, AddValidatorInv
<1>2. ASSUME NEW tx \in Txs, AddTransaction(tx)
      PROVE  Inv'
    BY <1>2, AddTransactionInv
<1>3. CASE ProposeBlock
    BY <1>3, CandidatesAreBlocks, AcceptInv DEF ProposeBlock
<1>4. ASSUME NEW b \in Received, ReceiveBlock(b)
      PROVE  Inv'
    BY <1>4, ReceivedAssumption, AcceptInv DEF ReceiveBlock
<1>5. ASSUME NEW b \in validated, StoreBlock(b)
      PROVE  Inv'
    BY <1>5, StoreInv
<1>6. ASSUME NEW b \in clearing, ClearMempool(b)
      PROVE  Inv'
    BY <1>6, ClearInv
<1>7. CASE UNCHANGED vars
    BY <1>7, StoredKept DEF vars, set, chain, Inv, TypeOK, ChainHasNoGaps, NothingDropped
<1> QED
    BY <1>1, <1>2, <1>3, <1>4, <1>5, <1>6, <1>7 DEF Next

LEMMA InvHolds == Spec => []Inv
PROOF
<1>1. Init => Inv
    BY InitInv
<1>2. Inv /\ [Next]_vars => Inv'
    BY NextInv
<1> QED
    BY <1>1, <1>2, PTL DEF Spec

\* The state of the engine keeps its type, and every stored block is under
\* its own height.
THEOREM TypeCorrect == Spec => []TypeOK
PROOF
<1>1. Inv => TypeOK
    BY DEF Inv
<1> QED
    BY <1>1, InvHolds, PTL

\* finalize_block never leaves a gap in the chain, whatever happens between
\* the validation of a block and its finalization.
THEOREM NoGaps == Spec => []ChainHasNoGaps
PROOF
<1>1. Inv => ChainHasNoGaps
    BY DEF Inv
<1> QED
    BY <1>1, InvHolds, PTL

\* validate_block accepts nothing once a validator is registered.
LEMMA RejectsWithValidators ==
    ASSUME NEW b \in Block, ValidateBlock(b)
    PROVE  Registered = {}
PROOF
<1> SUFFICES ASSUME Registered # {} PROVE FALSE
    OBVIOUS
<1>1. b.height \in Nat
    BY BoundsAssumption DEF Block, Heights
<1>2. GetLeader(b.height) \in Registered
    BY <1>1, LeaderIsRegistered
<1>3. GetLeader(b.height) # None
    BY <1>2, NoneAssumption DEF Registered
<1>4. b.validator \in Registered
    BY <1>2, <1>3 DEF ValidateBlock
<1>5. VerifySignature(b)
    BY <1>4 DEF ValidateBlock
<1> QED
    BY <1>5, NothingVerifies

\* Why a leader's block is refused, for every set of validators and blocks:
\* validate_block compares the signature with the hash of a header that
\* contains it, so no block at all is accepted while a validator is
\* registered.
THEOREM NothingAcceptedWithValidators ==
    Spec => [][validated' \subseteq validated \/ Registered = {}]_vars
PROOF
<1>1. ASSUME Inv, [Next]_vars
      PROVE  [validated' \subseteq validated \/ Registered = {}]_vars
    <2>1. ASSUME NEW b \in Block, Accept(b)
          PROVE  Registered = {}
        BY <2>1, RejectsWithValidators DEF Accept
    <2>2. CASE ProposeBlock
        BY <1>1, <2>1, <2>2, CandidatesAreBlocks DEF ProposeBlock
    <2>3. ASSUME NEW b \in Received, ReceiveBlock(b)
          PROVE  Registered = {}
        BY <2>1, <2>3, ReceivedAssumption DEF ReceiveBlock
    <2>4. ASSUME NEW a \in Addresses, NEW stake \in Stakes, AddValidator(a, stake)
          PROVE  validated' \subseteq validated
        BY <2>4 DEF AddValidator, chain
    <2>5. ASSUME NEW tx \in Txs, AddTransaction(tx)
          PROVE  validated' \subseteq validated
        BY <2>5 DEF AddTransaction, chain
    <2>6. ASSUME NEW b, StoreBlock(b) \/ ClearMempool(b)
          PROVE  validated' \subseteq validated
        BY <2>6 DEF StoreBlock, ClearMempool
    <2> QED
        BY <1>1, <2>2, <2>3, <2>4, <2>5, <2>6 DEF Next
<1> QED
    BY <1>1, InvHolds, PTL DEF Spec

\* No transaction is dropped between the mempool and the chain, although
\* finalize_block stores a block and clears the mempool under two locks.
THEOREM TransactionsKept == Spec => []NothingDropped
PROOF
<1>1. Inv => NothingDropped
    BY DEF Inv
<1> QED
    BY <1>1, InvHolds, PTL

-----------------------------------------------------------------------------
(* The cached total of the stakes                                          *)

\* Registering again counts a stake twice: the total may exceed the stakes.
StakeCovered == StakeOf(Addresses) <= total_stake

LEMMA WeightType ==
    ASSUME TypeOK
    PROVE  \A a \in Addresses : WeightOf(a) \in Nat
PROOF
    BY StakesAssumption DEF TypeOK, WeightOf, Registered

LEMMA AddValidatorCovered ==
    ASSUME TypeOK, TypeOK', StakeCovered, NEW a \in Addresses, NEW stake \in Stakes, AddValidator(a, stake)
    PROVE  StakeCovered'
PROOF
<1> DEFINE f == [x \in Addresses |-> WeightOf(x)]
           g == [x \in Addresses |-> WeightOf(x)']
<1>1. StakeOf(Addresses) = SumFunctionOnSet(f, Addresses) /\ StakeOf(Addresses)' = SumFunctionOnSet(g, Addresses)
    BY DEF StakeOf
<1>2. \A x \in Addresses : f[x] \in Nat /\ g[x] \in Nat
    <2>1. \A x \in Addresses : WeightOf(x) \in Nat
        BY WeightType
    <2>2. \A x \in Addresses : WeightOf(x)' \in Nat
        BY StakesAssumption DEF TypeOK, WeightOf, Registered
    <2> QED
        BY <2>1, <2>2
<1>3. g[a] = stake /\ stake \in Nat /\ total_stake' = total_stake + stake /\ total_stake \in Nat
    BY StakesAssumption, NoneAssumption DEF AddValidator, TypeOK, WeightOf, Registered
<1>4. \A x \in Addresses \ {a} : f[x] = g[x]
    BY DEF AddValidator, TypeOK, WeightOf, Registered
<1> HIDE DEF f, g
<1>5. SumFunctionOnSet(g, Addresses) = SumFunctionOnSet(f, Addresses) - f[a] + g[a]
    <2>1. IsFiniteSet(Addresses) /\ \A x \in Addresses : f[x] \in Int /\ g[x] \in Int
        BY <1>2, AddressesAssumption
    <2> QED
        BY <1>4, <2>1, SumUpdate
<1>6. SumFunctionOnSet(f, Addresses) \in Nat
    BY <1>2, AddressesAssumption, SumNat
<1>7. SumFunctionOnSet(f, Addresses) <= total_stake /\ f[a] \in Nat
    BY <1>1, <1>2 DEF StakeCovered
<1>8. SumFunctionOnSet(g, Addresses) <= total_stake'
    BY <1>3, <1>5, <1>6, <1>7
<1> QED
    BY <1>1, <1>8 DEF StakeCovered

LEMMA CoveredHolds == Spec => []StakeCovered
PROOF
<1>1. Init => StakeCovered
    <2> SUFFICES ASSUME Init PROVE StakeCovered
        OBVIOUS
    <2> DEFINE f == [x \in Addresses |-> WeightOf(x)]
    <2>1. StakeOf(Addresses) = SumFunctionOnSet(f, Addresses) /\ total_stake = 0
        BY DEF StakeOf, Init
    <2>2. \A x \in Addresses : f[x] = 0
        BY DEF Init, WeightOf, Registered
    <2> HIDE DEF f
    <2>3. SumFunctionOnSet(f, Addresses) = 0
        BY <2>2, AddressesAssumption, SumZero
    <2> QED
        BY <2>1, <2>3 DEF StakeCovered
<1>2. StakeCovered /\ TypeOK /\ TypeOK' /\ [Next]_vars => StakeCovered'
    <2> SUFFICES ASSUME StakeCovered, TypeOK, TypeOK', [Next]_vars PROVE StakeCovered'
        OBVIOUS
    <2>1. ASSUME NEW a \in Addresses, NEW stake \in Stakes, AddValidator(a, stake) PROVE StakeCovered'
        BY <2>1, AddValidatorCovered
    <2>2. CASE UNCHANGED <<validators, total_stake>>
        BY <2>2 DEF StakeCovered, StakeOf, WeightOf, Registered
    <2> QED
        BY <2>1, <2>2 DEF Next, vars, set, AddTransaction, ProposeBlock, ReceiveBlock, Accept, StoreBlock, ClearMempool
<1> QED
    BY <1>1, <1>2, TypeCorrect, PTL DEF Spec

\* What the signatures of a certificate weigh is a number.
LEMMA SignedStakeType ==
    ASSUME TypeOK, NEW c \in Certificate
    PROVE  SignedStake(c) \in Nat
PROOF
<1> DEFINE D == DOMAIN c
           f == [i \in D |-> IF c[i].genuine THEN WeightOf(c[i].by) ELSE 0]
<1>1. PICK n \in 0..MaxSigs : c \in [1..n -> [by : Addresses, genuine : BOOLEAN]]
    BY DEF Certificate
<1>2. n \in Nat /\ D = 1..n
    BY <1>1, BoundsAssumption
<1>3. IsFiniteSet(D)
    BY <1>2, FS_Interval
<1>4. \A i \in D : f[i] \in Nat
    BY <1>1, <1>2, WeightType
<1>5. SignedStake(c) = SumFunctionOnSet(f, D)
    BY DEF SignedStake
<1> HIDE DEF D, f
<1> QED
    BY <1>3, <1>4, <1>5, SumNat

\* QuorumCertificate::verify accepts only signatures that weigh two thirds
\* of the stake, rounded down, although the total it compares with is a sum
\* add_validator keeps and not the sum of the stakes.
THEOREM CertificatesNeedStake == Spec => []CertificateNeedsStake
PROOF
<1>1. TypeOK /\ StakeCovered => CertificateNeedsStake
    <2> SUFFICES ASSUME TypeOK, StakeCovered, NEW c \in Certificate, VerifyCertificate(c)
                 PROVE  SignedStake(c) >= (StakeOf(Addresses) * 2) \div 3
        BY DEF CertificateNeedsStake
    <2>1. SignedStake(c) >= (total_stake * 2) \div 3 /\ SignedStake(c) \in Nat
        BY SignedStakeType DEF VerifyCertificate, Threshold
    <2>2. StakeOf(Addresses) \in Nat
        <3> DEFINE f == [a \in Addresses |-> WeightOf(a)]
        <3>1. IsFiniteSet(Addresses) /\ \A a \in Addresses : f[a] \in Nat
            BY AddressesAssumption, WeightType
        <3> HIDE DEF f
        <3>2. SumFunctionOnSet(f, Addresses) \in Nat
            BY <3>1, SumNat
        <3> QED
            BY <3>2 DEF StakeOf, f
    <2>3. total_stake \in Nat /\ StakeOf(Addresses) <= total_stake
        BY DEF TypeOK, StakeCovered
    <2>4. \A m, n \in Nat : m <= n => (m * 2) \div 3 <= (n * 2) \div 3 /\ (m * 2) \div 3 \in Nat
        OBVIOUS
    <2> QED
        BY <2>1, <2>2, <2>3, <2>4
<1> QED
    BY <1>1, TypeCorrect, CoveredHolds, PTL

-----------------------------------------------------------------------------
(* The DAG: sequences of hashes                                            *)

NoRepeat(s) == \A i, j \in DOMAIN s : s[i] = s[j] => i = j

LEMMA EmptyFacts == <<>> \in Seq(Hashes) /\ Elements(<<>>) = {} /\ NoRepeat(<<>>)
PROOF
    BY DEF Elements, NoRepeat

LEMMA AppendFacts ==
    ASSUME NEW s \in Seq(Hashes), NEW x \in Hashes
    PROVE  /\ Append(s, x) \in Seq(Hashes)
           /\ Elements(Append(s, x)) = Elements(s) \cup {x}
           /\ NoRepeat(s) /\ x \notin Elements(s) => NoRepeat(Append(s, x))
PROOF
<1> DEFINE t == Append(s, x)
<1>1. t \in Seq(Hashes) /\ Len(t) = Len(s) + 1 /\ t[Len(s) + 1] = x
      /\ \A i \in 1..Len(s) : t[i] = s[i]
    OBVIOUS
<1>2. DOMAIN s = 1..Len(s) /\ DOMAIN t = 1..(Len(s) + 1) /\ Len(s) \in Nat
    OBVIOUS
<1> HIDE DEF t
<1>3. Elements(t) = Elements(s) \cup {x}
    <2>1. Elements(t) \subseteq Elements(s) \cup {x}
        BY <1>1, <1>2 DEF Elements
    <2>2. Elements(s) \subseteq Elements(t)
        BY <1>1, <1>2 DEF Elements
    <2>3. x \in Elements(t)
        BY <1>1, <1>2 DEF Elements
    <2> QED
        BY <2>1, <2>2, <2>3
<1>4. NoRepeat(s) /\ x \notin Elements(s) => NoRepeat(t)
    BY <1>1, <1>2 DEF NoRepeat, Elements
<1> QED
    BY <1>1, <1>3, <1>4 DEF t

LEMMA ConcatFacts ==
    ASSUME NEW s \in Seq(Hashes), NEW t \in Seq(Hashes)
    PROVE  /\ s \o t \in Seq(Hashes)
           /\ Elements(s \o t) = Elements(s) \cup Elements(t)
           /\ NoRepeat(s) /\ NoRepeat(t) /\ Elements(s) \cap Elements(t) = {} => NoRepeat(s \o t)
PROOF
<1> DEFINE u == s \o t
<1>1. u \in Seq(Hashes) /\ Len(u) = Len(s) + Len(t)
      /\ (\A i \in 1..Len(s) : u[i] = s[i])
      /\ (\A i \in 1..Len(t) : u[Len(s) + i] = t[i])
    OBVIOUS
<1>2. DOMAIN s = 1..Len(s) /\ DOMAIN t = 1..Len(t) /\ DOMAIN u = 1..(Len(s) + Len(t))
      /\ Len(s) \in Nat /\ Len(t) \in Nat
    OBVIOUS
<1> HIDE DEF u
<1>3. \A i \in DOMAIN u : i \in DOMAIN s \/ (i - Len(s) \in DOMAIN t /\ u[i] = t[i - Len(s)])
    <2> TAKE i \in DOMAIN u
    <2>1. CASE i <= Len(s)
        BY <1>2, <2>1
    <2>2. CASE i > Len(s)
        <3>1. i - Len(s) \in 1..Len(t) /\ Len(s) + (i - Len(s)) = i
            BY <1>2, <2>2
        <3> QED
            BY <1>1, <1>2, <3>1
    <2> QED
        BY <1>2, <2>1, <2>2
<1>4. Elements(u) = Elements(s) \cup Elements(t)
    <2>1. Elements(u) \subseteq Elements(s) \cup Elements(t)
        BY <1>1, <1>2, <1>3 DEF Elements
    <2>2. Elements(s) \subseteq Elements(u)
        BY <1>1, <1>2 DEF Elements
    <2>3. Elements(t) \subseteq Elements(u)
        <3>1. \A i \in DOMAIN t : Len(s) + i \in DOMAIN u /\ u[Len(s) + i] = t[i]
            BY <1>1, <1>2
        <3> QED
            BY <3>1 DEF Elements
    <2> QED
        BY <2>1, <2>2, <2>3
<1>5. ASSUME NoRepeat(s), NoRepeat(t), Elements(s) \cap Elements(t) = {}
      PROVE  NoRepeat(u)
    <2> SUFFICES ASSUME NEW i \in DOMAIN u, NEW j \in DOMAIN u, u[i] = u[j]
                 PROVE  i = j
        BY DEF NoRepeat
    <2>1. CASE i \in DOMAIN s /\ j \in DOMAIN s
        BY <1>1, <1>2, <1>5, <2>1 DEF NoRepeat
    <2>2. CASE i \in DOMAIN s /\ j \notin DOMAIN s
        BY <1>1, <1>2, <1>3, <1>5, <2>2 DEF Elements
    <2>3. CASE i \notin DOMAIN s /\ j \in DOMAIN s
        BY <1>1, <1>2, <1>3, <1>5, <2>3 DEF Elements
    <2>4. CASE i \notin DOMAIN s /\ j \notin DOMAIN s
        <3>1. i - Len(s) = j - Len(s)
            BY <1>3, <1>5, <2>4 DEF NoRepeat
        <3> QED
            BY <1>2, <3>1
    <2> QED
        BY <2>1, <2>2, <2>3, <2>4
<1> QED
    BY <1>1, <1>4, <1>5 DEF u

LEMMA TailFacts ==
    ASSUME NEW s \in Seq(Hashes), s # <<>>
    PROVE  /\ Tail(s) \in Seq(Hashes) /\ Head(s) \in Hashes
           /\ Elements(s) = Elements(Tail(s)) \cup {Head(s)}
           /\ NoRepeat(s) => NoRepeat(Tail(s)) /\ Head(s) \notin Elements(Tail(s))
PROOF
<1> DEFINE t == Tail(s)
<1>1. t \in Seq(Hashes) /\ Head(s) \in Hashes /\ Head(s) = s[1] /\ Len(s) \in Nat \ {0}
      /\ Len(t) = Len(s) - 1 /\ \A i \in 1..(Len(s) - 1) : t[i] = s[i + 1]
    OBVIOUS
<1>2. DOMAIN s = 1..Len(s) /\ DOMAIN t = 1..(Len(s) - 1)
    OBVIOUS
<1> HIDE DEF t
<1>3. \A i \in DOMAIN s : i = 1 \/ (i - 1 \in DOMAIN t /\ t[i - 1] = s[i])
    <2> TAKE i \in DOMAIN s
    <2>1. CASE i # 1
        <3>1. i - 1 \in 1..(Len(s) - 1) /\ (i - 1) + 1 = i
            BY <1>1, <1>2, <2>1
        <3> QED
            BY <1>1, <1>2, <3>1
    <2> QED
        BY <2>1
<1>4. \A i \in DOMAIN t : i + 1 \in DOMAIN s /\ t[i] = s[i + 1] /\ i + 1 # 1 /\ i \in Nat
    BY <1>1, <1>2
<1>5. 1 \in DOMAIN s
    BY <1>1, <1>2
<1>6. Elements(s) = Elements(t) \cup {Head(s)}
    <2>1. Elements(s) \subseteq Elements(t) \cup {Head(s)}
        BY <1>1, <1>3 DEF Elements
    <2>2. Elements(t) \subseteq Elements(s)
        BY <1>4 DEF Elements
    <2>3. Head(s) \in Elements(s)
        BY <1>1, <1>5 DEF Elements
    <2> QED
        BY <2>1, <2>2, <2>3
<1>7. ASSUME NoRepeat(s)
      PROVE  NoRepeat(t) /\ Head(s) \notin Elements(t)
    <2>1. Head(s) \notin Elements(t)
        BY <1>1, <1>4, <1>5, <1>7 DEF NoRepeat, Elements
    <2>2. ASSUME NEW i \in DOMAIN t, NEW j \in DOMAIN t, t[i] = t[j]
          PROVE  i = j
        <3>1. i + 1 = j + 1
            BY <1>4, <1>7, <2>2 DEF NoRepeat
        <3> QED
            BY <1>4, <3>1
    <2> QED
        BY <2>1, <2>2 DEF NoRepeat
<1> QED
    BY <1>1, <1>6, <1>7 DEF t

LEMMA PopFacts ==
    ASSUME stack \in Seq(Hashes), stack # <<>>
    PROVE  /\ Popped \in Seq(Hashes) /\ Top \in Hashes
           /\ Elements(stack) = Elements(Popped) \cup {Top}
PROOF
<1>1. Len(stack) \in Nat \ {0} /\ DOMAIN stack = 1..Len(stack)
    OBVIOUS
<1>2. Popped \in Seq(Hashes) /\ Len(Popped) = Len(stack) - 1
      /\ \A i \in 1..(Len(stack) - 1) : Popped[i] = stack[i]
    BY <1>1 DEF Popped
<1>3. DOMAIN Popped = 1..(Len(stack) - 1)
    BY <1>2
<1>4. Top \in Hashes
    BY <1>1 DEF Top
<1>5. \A i \in DOMAIN stack : i = Len(stack) \/ (i \in DOMAIN Popped /\ Popped[i] = stack[i])
    BY <1>1, <1>2, <1>3
<1>6. \A i \in DOMAIN Popped : i \in DOMAIN stack /\ Popped[i] = stack[i]
    BY <1>1, <1>2, <1>3
<1>7. Elements(stack) \subseteq Elements(Popped) \cup {Top}
    BY <1>5 DEF Elements, Top
<1>8. Elements(Popped) \cup {Top} \subseteq Elements(stack)
    BY <1>1, <1>6 DEF Elements, Top
<1> QED
    BY <1>2, <1>4, <1>7, <1>8

\* A listing of a set holds each of its members once.
LEMMA ListingFacts ==
    ASSUME NEW S \in SUBSET Hashes, NEW s \in Listings(S)
    PROVE  s \in Seq(Hashes) /\ Elements(s) = S /\ NoRepeat(s)
PROOF
<1> DEFINE n == Cardinality(S)
<1>1. IsFiniteSet(S) /\ n \in Nat
    BY HashesAssumption, FS_Subset, FS_CardinalityType
<1>2. s \in [1..n -> S] /\ NoRepeat(s)
    BY DEF Listings, NoRepeat
<1>3. IsFiniteSet(1..n) /\ Cardinality(1..n) = n
    BY <1>1, FS_Interval
<1> HIDE DEF n
<1>4. s \in Injection(1..n, S)
    BY <1>2 DEF NoRepeat, Injection, IsInjective
<1>5. s \in Surjection(1..n, S)
    BY <1>1, <1>3, <1>4, FS_Injection DEF n
<1>6. Elements(s) = S
    BY <1>2, <1>5 DEF Surjection, Elements
<1>7. s \in Seq(Hashes)
    <2>1. s \in [1..n -> Hashes]
        BY <1>2
    <2> QED
        BY <1>1, <2>1, SeqDef
<1> QED
    BY <1>2, <1>6, <1>7

-----------------------------------------------------------------------------
(* The invariant                                                           *)

\* The locals of a call that is not under way are empty.
IdleInv ==
    /\ ~sorting => queue = <<>> /\ result = <<>> /\ in_degree = [h \in Hashes |-> 0]
    /\ start = NoEntry => stack = <<>> /\ ancestors = <<>>

\* Positions of the parents of h that the sort has not placed yet.
Missing(h) ==
    IF vertices[h] = NoEntry THEN {}
    ELSE {i \in DOMAIN vertices[h] : vertices[h][i] \notin Elements(result)}

\* in_degree counts the missing parents, and the vertices that miss none are
\* placed or wait in the queue, each once.
SortInv ==
    sorting =>
        /\ \A h \in Hashes : in_degree[h] = Cardinality(Missing(h))
        /\ NoRepeat(queue)
        /\ Elements(queue) \cap Elements(result) = {}
        /\ Elements(queue) \cup Elements(result) = {h \in Present : in_degree[h] = 0}

\* Whoever is between the two statements of add_vertex has written the
\* vertices, and is alone with its hash unless the hash is in raced.
MapsInv ==
    \A h \in Hashes \ raced :
        /\ \A t \in Inserters : inserting[t] # NoEntry /\ inserting[t].hash = h =>
               /\ vertices[h] = inserting[t].list
               /\ \A u \in Inserters : inserting[u] # NoEntry /\ inserting[u].hash = h => u = t
        /\ (\A t \in Inserters : inserting[t] # NoEntry => inserting[t].hash # h) => vertices[h] = edges[h]

\* What the search has found or has still to look at is reachable, and the
\* parents of what it has found are in one of the two.
WalkInv ==
    start # NoEntry =>
        /\ Elements(stack) \cup Elements(ancestors) \subseteq Reachable(start)
        /\ start \in Elements(stack) \cup Elements(ancestors)
        /\ \A x \in Elements(ancestors) :
               edges[x] # NoEntry => Elements(edges[x]) \subseteq Elements(stack) \cup Elements(ancestors)
        /\ NoRepeat(ancestors)

DagInv == DagTypeOK /\ IdleInv /\ SortInv /\ MapsInv /\ WalkInv

LEMMA ListType ==
    ASSUME NEW list \in ParentLists
    PROVE  list \in Seq(Hashes) /\ list # NoEntry /\ Elements(list) \in SUBSET Hashes
           /\ DOMAIN list = 1..Len(list) /\ Len(list) \in Nat
PROOF
<1>1. list \in Seq(Hashes) /\ list # NoEntry
    BY ParentListsAssumption, NoEntryAssumption
<1>2. DOMAIN list = 1..Len(list) /\ Len(list) \in Nat /\ \A i \in 1..Len(list) : list[i] \in Hashes
    BY <1>1
<1> QED
    BY <1>1, <1>2 DEF Elements

LEMMA DagInitInv == DagInit => DagInv
PROOF
<1> SUFFICES ASSUME DagInit PROVE DagInv
    OBVIOUS
<1>1. DagTypeOK
    <2>1. /\ vertices \in [Hashes -> ParentLists \cup {NoEntry}]
          /\ edges \in [Hashes -> ParentLists \cup {NoEntry}]
          /\ inserting \in [Inserters -> [hash : Hashes, list : ParentLists] \cup {NoEntry}]
          /\ in_degree \in [Hashes -> Nat]
        BY DEF DagInit
    <2>2. inserts \in 0..MaxInserts
        BY HashesAssumption DEF DagInit
    <2>3. sorting \in BOOLEAN /\ raced \subseteq Hashes /\ start \in Hashes \cup {NoEntry}
        BY DEF DagInit
    <2>4. queue \in Seq(Hashes) /\ result \in Seq(Hashes) /\ stack \in Seq(Hashes) /\ ancestors \in Seq(Hashes)
        BY EmptyFacts DEF DagInit
    <2> QED
        BY <2>1, <2>2, <2>3, <2>4 DEF DagTypeOK
<1>2. IdleInv /\ SortInv /\ MapsInv /\ WalkInv
    BY DEF DagInit, IdleInv, SortInv, MapsInv, WalkInv
<1> QED
    BY <1>1, <1>2 DEF DagInv

\* The parts of the invariant about calls that do not take part in a step.
LEMMA SortKept ==
    ASSUME SortInv, UNCHANGED <<vertices, sortVars>>
    PROVE  SortInv'
PROOF
    BY DEF SortInv, sortVars, Missing, Present

LEMMA WalkKept ==
    ASSUME WalkInv, UNCHANGED <<edges, walkVars>>
    PROVE  WalkInv'
PROOF
    BY DEF WalkInv, walkVars, Reachable

LEMMA MapsKept ==
    ASSUME MapsInv, UNCHANGED insertVars
    PROVE  MapsInv'
PROOF
    BY DEF MapsInv, insertVars

LEMMA InsertVertexInv ==
    ASSUME DagInv, NEW t \in Inserters, NEW h \in Hashes, NEW list \in ParentLists, InsertVertex(t, h, list)
    PROVE  DagInv'
PROOF
<1>1. /\ inserting[t] = NoEntry /\ ~sorting /\ inserts < MaxInserts /\ inserts' = inserts + 1
      /\ vertices' = [vertices EXCEPT ![h] = list]
      /\ inserting' = [inserting EXCEPT ![t] = [hash |-> h, list |-> list]]
      /\ raced' = IF \E u \in Inserters : inserting[u] # NoEntry /\ inserting[u].hash = h
                  THEN raced \cup {h} ELSE raced
      /\ UNCHANGED <<edges, sortVars, walkVars>>
    BY DEF InsertVertex
<1>2. [hash |-> h, list |-> list] # NoEntry
    BY NoEntryAssumption
<1>3. DagTypeOK'
    BY <1>1, HashesAssumption DEF DagInv, DagTypeOK, sortVars, walkVars
<1>4. IdleInv' /\ SortInv'
    BY <1>1 DEF DagInv, IdleInv, SortInv, sortVars, walkVars
<1>5. WalkInv'
    BY <1>1, WalkKept DEF DagInv
<1>6. ASSUME NEW g \in Hashes \ raced'
      PROVE  /\ \A v \in Inserters : inserting'[v] # NoEntry /\ inserting'[v].hash = g =>
                    /\ vertices'[g] = inserting'[v].list
                    /\ \A u \in Inserters : inserting'[u] # NoEntry /\ inserting'[u].hash = g => u = v
             /\ (\A v \in Inserters : inserting'[v] # NoEntry => inserting'[v].hash # g) => vertices'[g] = edges'[g]
    <2>1. g \in Hashes \ raced
        BY <1>1, <1>6
    <2>2. inserting'[t] = [hash |-> h, list |-> list] /\ \A v \in Inserters \ {t} : inserting'[v] = inserting[v]
        BY <1>1 DEF DagInv, DagTypeOK
    <2>3. CASE g = h
        <3>1. \A u \in Inserters : ~ (inserting[u] # NoEntry /\ inserting[u].hash = h)
            BY <1>1, <1>6, <2>3
        <3>2. vertices'[g] = list
            BY <1>1, <2>3 DEF DagInv, DagTypeOK
        <3> QED
            BY <1>2, <2>2, <2>3, <3>1, <3>2
    <2>4. CASE g # h
        <3>1. vertices'[g] = vertices[g] /\ edges' = edges
            BY <1>1, <2>4 DEF DagInv, DagTypeOK
        <3>2. \A v \in Inserters : inserting'[v] # NoEntry /\ inserting'[v].hash = g =>
                  v # t /\ inserting[v] # NoEntry /\ inserting[v].hash = g /\ inserting'[v] = inserting[v]
            BY <2>2, <2>4
        <3>3. \A v \in Inserters : inserting[v] # NoEntry /\ inserting[v].hash = g =>
                  inserting'[v] # NoEntry /\ inserting'[v].hash = g
            BY <1>1, <2>2
        <3> QED
            BY <2>1, <3>1, <3>2, <3>3 DEF DagInv, MapsInv
    <2> QED
        BY <2>3, <2>4
<1>7. MapsInv'
    BY <1>6 DEF MapsInv
<1> QED
    BY <1>3, <1>4, <1>5, <1>7 DEF DagInv

LEMMA InsertEdgesInv ==
    ASSUME DagInv, NEW t \in Inserters, InsertEdges(t)
    PROVE  DagInv'
PROOF
<1> DEFINE h == inserting[t].hash
           list == inserting[t].list
<1>1. /\ inserting[t] # NoEntry /\ start = NoEntry
      /\ edges' = [edges EXCEPT ![h] = list]
      /\ inserting' = [inserting EXCEPT ![t] = NoEntry]
      /\ UNCHANGED <<vertices, inserts, raced, sortVars, walkVars>>
    BY DEF InsertEdges
<1>2. h \in Hashes /\ list \in ParentLists
    BY <1>1 DEF DagInv, DagTypeOK
<1> HIDE DEF h, list
<1>3. DagTypeOK'
    BY <1>1, <1>2 DEF DagInv, DagTypeOK, sortVars, walkVars
<1>4. IdleInv' /\ WalkInv'
    BY <1>1 DEF DagInv, IdleInv, WalkInv, sortVars, walkVars
<1>5. SortInv'
    BY <1>1, SortKept DEF DagInv
<1>6. ASSUME NEW g \in Hashes \ raced'
      PROVE  /\ \A v \in Inserters : inserting'[v] # NoEntry /\ inserting'[v].hash = g =>
                    /\ vertices'[g] = inserting'[v].list
                    /\ \A u \in Inserters : inserting'[u] # NoEntry /\ inserting'[u].hash = g => u = v
             /\ (\A v \in Inserters : inserting'[v] # NoEntry => inserting'[v].hash # g) => vertices'[g] = edges'[g]
    <2>1. g \in Hashes \ raced
        BY <1>1, <1>6
    <2>2. inserting'[t] = NoEntry /\ \A v \in Inserters \ {t} : inserting'[v] = inserting[v]
        BY <1>1 DEF DagInv, DagTypeOK
    <2>3. \A v \in Inserters : inserting'[v] # NoEntry /\ inserting'[v].hash = g =>
              /\ vertices'[g] = inserting'[v].list
              /\ \A u \in Inserters : inserting'[u] # NoEntry /\ inserting'[u].hash = g => u = v
        BY <1>1, <2>1, <2>2 DEF DagInv, MapsInv
    <2>4. CASE g = h
        BY <1>1, <2>1, <2>4 DEF DagInv, MapsInv, DagTypeOK, h, list
    <2>5. CASE g # h
        <3>1. edges'[g] = edges[g] /\ vertices' = vertices
            BY <1>1, <2>5 DEF DagInv, DagTypeOK
        <3>2. (\A v \in Inserters : inserting'[v] # NoEntry => inserting'[v].hash # g)
                  => (\A v \in Inserters : inserting[v] # NoEntry => inserting[v].hash # g)
            BY <2>2, <2>5 DEF h
        <3> QED
            BY <2>1, <2>3, <3>1, <3>2 DEF DagInv, MapsInv
    <2> QED
        BY <2>3, <2>4, <2>5
<1>7. MapsInv'
    BY <1>6 DEF MapsInv
<1> QED
    BY <1>3, <1>4, <1>5, <1>7 DEF DagInv

-----------------------------------------------------------------------------
(* The sort                                                                *)

\* The missing parents of a vertex are finitely many.
LEMMA MissingFinite ==
    ASSUME DagTypeOK, NEW h \in Hashes
    PROVE  /\ IsFiniteSet(Missing(h)) /\ Cardinality(Missing(h)) \in Nat
           /\ Cardinality(Missing(h)) = 0 <=> Missing(h) = {}
PROOF
<1>1. IsFiniteSet(Missing(h))
    <2>1. CASE vertices[h] = NoEntry
        BY <2>1, FS_EmptySet DEF Missing
    <2>2. CASE vertices[h] # NoEntry
        <3>1. DOMAIN vertices[h] = 1..Len(vertices[h]) /\ Len(vertices[h]) \in Nat
            BY <2>2, ListType DEF DagTypeOK
        <3>2. IsFiniteSet(1..Len(vertices[h]))
            <4>1. 1 \in Int /\ Len(vertices[h]) \in Int
                BY <3>1
            <4> QED
                BY <4>1, FS_Interval
        <3>3. Missing(h) \in SUBSET (1..Len(vertices[h]))
            BY <2>2, <3>1 DEF Missing
        <3> QED
            BY <3>2, <3>3, FS_Subset
    <2> QED
        BY <2>1, <2>2
<1> QED
    BY <1>1, FS_CardinalityType, FS_EmptySet

LEMMA BeginSortInv ==
    ASSUME DagInv, BeginSort
    PROVE  DagInv'
PROOF
<1> DEFINE zero == {h \in Present : in_degree'[h] = 0}
<1>1. /\ ~sorting /\ sorting' = TRUE /\ start = NoEntry
      /\ in_degree' = [h \in Hashes |-> Degree(h)]
      /\ queue' \in Listings(zero)
      /\ UNCHANGED <<insertVars, result, walkVars>>
    BY DEF BeginSort
<1>2. result = <<>> /\ Elements(result) = {}
    BY <1>1, EmptyFacts DEF DagInv, IdleInv
<1>3. ASSUME NEW h \in Hashes
      PROVE  Degree(h) \in Nat /\ Degree(h) = Cardinality(Missing(h))
    <2>1. CASE vertices[h] = NoEntry
        BY <2>1, FS_EmptySet DEF Degree, Missing
    <2>2. CASE vertices[h] # NoEntry
        <3>1. DOMAIN vertices[h] = 1..Len(vertices[h]) /\ Len(vertices[h]) \in Nat
            BY <2>2, ListType DEF DagInv, DagTypeOK
        <3>2. Missing(h) = 1..Len(vertices[h])
            BY <1>2, <2>2, <3>1 DEF Missing
        <3>3. Cardinality(1..Len(vertices[h])) = Len(vertices[h])
            BY <3>1, FS_Interval
        <3> QED
            BY <2>2, <3>1, <3>2, <3>3 DEF Degree
    <2> QED
        BY <2>1, <2>2
<1>4. queue' \in Seq(Hashes) /\ Elements(queue') = zero /\ NoRepeat(queue')
    <2>1. zero \in SUBSET Hashes
        BY DEF Present
    <2> HIDE DEF zero
    <2> QED
        BY <1>1, <2>1, ListingFacts
<1>5. in_degree' \in [Hashes -> Nat]
    BY <1>1, <1>3
<1>6. DagTypeOK'
    BY <1>1, <1>4, <1>5 DEF DagInv, DagTypeOK, insertVars, walkVars
<1>7. IdleInv'
    BY <1>1 DEF DagInv, IdleInv, walkVars
<1>8. SortInv'
    <2>1. \A h \in Hashes : Missing(h)' = Missing(h) /\ in_degree'[h] = Cardinality(Missing(h))
        BY <1>1, <1>3 DEF Missing, insertVars
    <2>2. Elements(result') = {} /\ Present' = Present
        BY <1>1, <1>2 DEF insertVars, Present
    <2> QED
        BY <1>4, <2>1, <2>2 DEF SortInv
<1>9. MapsInv' /\ WalkInv'
    BY <1>1, MapsKept, WalkKept DEF DagInv, insertVars
<1> QED
    BY <1>6, <1>7, <1>8, <1>9 DEF DagInv

\* Placing p takes the positions of p from what a vertex misses.
LEMMA MissingStep ==
    ASSUME DagTypeOK, NEW p \in Hashes, p \notin Elements(result), result' = Append(result, p),
           UNCHANGED vertices, NEW h \in Hashes
    PROVE  /\ Cardinality(Missing(h)') = Cardinality(Missing(h)) - Multiplicity(h, p)
           /\ Missing(h)' \subseteq Missing(h)
           /\ IsFiniteSet(Missing(h)')
PROOF
<1>1. Elements(result') = Elements(result) \cup {p}
    BY AppendFacts DEF DagTypeOK
<1>2. IsFiniteSet(Missing(h)) /\ Cardinality(Missing(h)) \in Nat
    BY MissingFinite
<1>3. CASE vertices[h] = NoEntry
    BY <1>1, <1>2, <1>3, FS_EmptySet DEF Missing, Multiplicity
<1>4. CASE vertices[h] # NoEntry
    <2> DEFINE P == {i \in DOMAIN vertices[h] : vertices[h][i] = p}
    <2>1. P \in SUBSET Missing(h) /\ Missing(h)' = Missing(h) \ P /\ Multiplicity(h, p) = Cardinality(P)
        BY <1>1, <1>4 DEF Missing, Multiplicity
    <2> HIDE DEF P
    <2>2. IsFiniteSet(P) /\ Missing(h) \cap P = P
        BY <1>2, <2>1, FS_Subset
    <2>3. Cardinality(Missing(h) \ P) = Cardinality(Missing(h)) - Cardinality(P)
        BY <1>2, <2>2, FS_Difference
    <2>4. IsFiniteSet(Missing(h) \ P)
        BY <1>2, FS_Subset
    <2> QED
        BY <2>1, <2>3, <2>4
<1> QED
    BY <1>3, <1>4

\* The step places the head of the queue, which misses no parent.
LEMMA VisitNextInv ==
    ASSUME DagInv, VisitNext
    PROVE  /\ DagInv'
           /\ Head(queue) \in Present /\ Head(queue) \notin Elements(result) /\ Missing(Head(queue)) = {}
PROOF
<1> DEFINE p == Head(queue)
           N == {h \in Hashes : in_degree'[h] = 0 /\ in_degree[h] # 0}
<1>1. /\ sorting /\ sorting' /\ queue # <<>>
      /\ result' = Append(result, p)
      /\ in_degree' = [h \in Hashes |-> in_degree[h] - Multiplicity(h, p)]
      /\ UNCHANGED <<insertVars, walkVars>>
    BY DEF VisitNext
<1>2. PICK ready \in Listings(N) : queue' = Tail(queue) \o ready
    BY DEF VisitNext
<1>3. /\ \A h \in Hashes : in_degree[h] = Cardinality(Missing(h))
      /\ NoRepeat(queue)
      /\ Elements(queue) \cap Elements(result) = {}
      /\ Elements(queue) \cup Elements(result) = {h \in Present : in_degree[h] = 0}
    BY <1>1 DEF DagInv, SortInv
<1>4. queue \in Seq(Hashes) /\ result \in Seq(Hashes)
    BY DEF DagInv, DagTypeOK
<1>5. /\ Tail(queue) \in Seq(Hashes) /\ p \in Hashes /\ Elements(queue) = Elements(Tail(queue)) \cup {p}
      /\ NoRepeat(Tail(queue)) /\ p \notin Elements(Tail(queue))
    BY <1>1, <1>3, <1>4, TailFacts
<1>6. ready \in Seq(Hashes) /\ Elements(ready) = N /\ NoRepeat(ready)
    <2>1. N \in SUBSET Hashes
        OBVIOUS
    <2> HIDE DEF N
    <2> QED
        BY <1>2, <2>1, ListingFacts
<1>7. p \in Present /\ p \notin Elements(result) /\ in_degree[p] = 0
    BY <1>3, <1>5
<1>8. Missing(p) = {}
    BY <1>3, <1>5, <1>7, MissingFinite DEF DagInv
<1> HIDE DEF p
<1>9. ASSUME NEW h \in Hashes
      PROVE  /\ in_degree'[h] = Cardinality(Missing(h)') /\ in_degree'[h] \in Nat
             /\ in_degree[h] = 0 => in_degree'[h] = 0
             /\ in_degree[h] # 0 => h \in Present
    <2>1. Cardinality(Missing(h)') = Cardinality(Missing(h)) - Multiplicity(h, p)
          /\ Missing(h)' \subseteq Missing(h) /\ IsFiniteSet(Missing(h)')
        BY <1>1, <1>5, <1>7, MissingStep DEF DagInv, insertVars
    <2>2. in_degree'[h] = Cardinality(Missing(h)')
        BY <1>1, <1>3, <2>1
    <2>3. Cardinality(Missing(h)') \in Nat
        BY <2>1, FS_CardinalityType
    <2>4. in_degree[h] = 0 => in_degree'[h] = 0
        <3> HAVE in_degree[h] = 0
        <3>1. Missing(h) = {}
            BY <1>3, MissingFinite DEF DagInv
        <3>2. Missing(h)' = {}
            BY <2>1, <3>1
        <3> QED
            BY <2>2, <3>2, FS_EmptySet
    <2>5. in_degree[h] # 0 => h \in Present
        BY <1>3, FS_EmptySet DEF Missing, Present
    <2> QED
        BY <2>2, <2>3, <2>4, <2>5
<1>10. in_degree' \in [Hashes -> Nat]
    BY <1>1, <1>9
<1>11. N \cap (Elements(queue) \cup Elements(result)) = {}
    BY <1>3
<1>12. queue' \in Seq(Hashes) /\ Elements(queue') = Elements(Tail(queue)) \cup N /\ NoRepeat(queue')
    <2>1. Elements(Tail(queue)) \cap Elements(ready) = {}
        BY <1>5, <1>6, <1>11
    <2> HIDE DEF N
    <2> QED
        BY <1>2, <1>5, <1>6, <2>1, ConcatFacts
<1>13. result' \in Seq(Hashes) /\ Elements(result') = Elements(result) \cup {p}
    BY <1>1, <1>4, <1>5, AppendFacts
<1>14. DagTypeOK'
    BY <1>1, <1>10, <1>12, <1>13 DEF DagInv, DagTypeOK, insertVars, walkVars
<1>15. IdleInv'
    BY <1>1 DEF DagInv, IdleInv, walkVars
<1>16. SortInv'
    <2>1. Present' = Present
        BY <1>1 DEF Present, insertVars
    <2>2. Elements(queue') \cap Elements(result') = {}
        BY <1>3, <1>5, <1>11, <1>12, <1>13
    <2>3. Elements(queue') \cup Elements(result') = {h \in Present : in_degree[h] = 0} \cup N
        BY <1>3, <1>5, <1>12, <1>13
    <2>4. {h \in Present : in_degree[h] = 0} \cup N = {h \in Present : in_degree'[h] = 0}
        BY <1>9 DEF Present
    <2> QED
        BY <1>9, <1>12, <2>1, <2>2, <2>3, <2>4 DEF SortInv
<1>17. MapsInv' /\ WalkInv'
    BY <1>1, MapsKept, WalkKept DEF DagInv, insertVars
<1> QED
    BY <1>7, <1>8, <1>14, <1>15, <1>16, <1>17 DEF DagInv, p

LEMMA EndSortInv ==
    ASSUME DagInv, EndSort
    PROVE  DagInv'
PROOF
<1>1. /\ sorting' = FALSE /\ queue = <<>> /\ in_degree' = [h \in Hashes |-> 0] /\ result' = <<>>
      /\ UNCHANGED <<insertVars, queue, walkVars>>
    BY DEF EndSort
<1>2. DagTypeOK'
    BY <1>1, EmptyFacts DEF DagInv, DagTypeOK, insertVars, walkVars
<1>3. IdleInv' /\ SortInv'
    BY <1>1 DEF DagInv, IdleInv, SortInv, walkVars
<1>4. MapsInv' /\ WalkInv'
    BY <1>1, MapsKept, WalkKept DEF DagInv, insertVars
<1> QED
    BY <1>2, <1>3, <1>4 DEF DagInv

-----------------------------------------------------------------------------
(* The search for ancestors                                                *)

\* Reachable(h) is the least set that holds h and is closed under parents.
LEMMA ReachableFacts ==
    ASSUME DagTypeOK, NEW h \in Hashes
    PROVE  /\ h \in Reachable(h) /\ Reachable(h) \in SUBSET Hashes
           /\ \A x \in Reachable(h) : edges[x] # NoEntry => Elements(edges[x]) \subseteq Reachable(h)
           /\ \A S \in SUBSET Hashes :
                  h \in S /\ (\A x \in S : edges[x] # NoEntry => Elements(edges[x]) \subseteq S)
                      => Reachable(h) \subseteq S
PROOF
<1>1. \A x \in Hashes : edges[x] # NoEntry => Elements(edges[x]) \in SUBSET Hashes
    BY ListType DEF DagTypeOK
<1> QED
    BY <1>1 DEF Reachable

LEMMA BeginWalkInv ==
    ASSUME DagInv, NEW h \in Hashes, BeginWalk(h)
    PROVE  DagInv'
PROOF
<1>1. /\ start = NoEntry /\ start' = h /\ stack' = <<h>>
      /\ UNCHANGED <<insertVars, ancestors, sortVars>>
    BY DEF BeginWalk
<1>2. ancestors = <<>> /\ ancestors' = <<>> /\ start' # NoEntry
    BY <1>1, NoEntryAssumption DEF DagInv, IdleInv
<1>3. stack' \in Seq(Hashes) /\ Elements(stack') = {h}
    BY <1>1 DEF Elements
<1>4. DagTypeOK'
    BY <1>1, <1>3 DEF DagInv, DagTypeOK, insertVars, sortVars
<1>5. IdleInv'
    BY <1>1, <1>2 DEF DagInv, IdleInv, sortVars
<1>6. SortInv' /\ MapsInv'
    BY <1>1, SortKept, MapsKept DEF DagInv, insertVars
<1>7. WalkInv'
    <2>1. h \in Reachable(h)
        BY ReachableFacts DEF DagInv
    <2>2. Reachable(start)' = Reachable(h)
        BY <1>1 DEF Reachable, insertVars
    <2> QED
        BY <1>1, <1>2, <1>3, <2>1, <2>2, EmptyFacts DEF WalkInv
<1> QED
    BY <1>4, <1>5, <1>6, <1>7 DEF DagInv

LEMMA WalkNextInv ==
    ASSUME DagInv, WalkNext
    PROVE  DagInv'
PROOF
<1>1. start # NoEntry /\ start \in Hashes /\ stack # <<>> /\ UNCHANGED <<insertVars, sortVars, start>>
      /\ stack \in Seq(Hashes) /\ ancestors \in Seq(Hashes)
    BY DEF WalkNext, DagInv, DagTypeOK
<1>2. Popped \in Seq(Hashes) /\ Top \in Hashes /\ Elements(stack) = Elements(Popped) \cup {Top}
    BY <1>1, PopFacts
<1>3. /\ Elements(stack) \cup Elements(ancestors) \subseteq Reachable(start)
      /\ start \in Elements(stack) \cup Elements(ancestors)
      /\ \A x \in Elements(ancestors) :
             edges[x] # NoEntry => Elements(edges[x]) \subseteq Elements(stack) \cup Elements(ancestors)
      /\ NoRepeat(ancestors)
    BY <1>1 DEF DagInv, WalkInv
<1>4. Reachable(start)' = Reachable(start) /\ edges' = edges
    BY <1>1 DEF Reachable, insertVars
<1>5. /\ stack' \in Seq(Hashes) /\ ancestors' \in Seq(Hashes)
      /\ WalkInv'
    <2>1. CASE Top \in Elements(ancestors)
        <3>1. stack' = Popped /\ ancestors' = ancestors
            BY <2>1 DEF WalkNext
        <3>2. Elements(stack') \cup Elements(ancestors') = Elements(stack) \cup Elements(ancestors)
            BY <1>2, <2>1, <3>1
        <3> QED
            BY <1>1, <1>2, <1>3, <1>4, <3>1, <3>2 DEF WalkInv
    <2>2. CASE Top \notin Elements(ancestors)
        <3> DEFINE pushed == IF edges[Top] = NoEntry THEN {} ELSE Elements(edges[Top])
        <3>1. stack' = PushParents(Top) /\ ancestors' = Append(ancestors, Top)
            BY <2>2 DEF WalkNext
        <3>2. stack' \in Seq(Hashes) /\ Elements(stack') = Elements(Popped) \cup pushed
            <4>1. CASE edges[Top] = NoEntry
                BY <1>2, <3>1, <4>1 DEF PushParents
            <4>2. CASE edges[Top] # NoEntry
                <5>1. edges[Top] \in Seq(Hashes)
                    BY <1>2, <4>2, ListType DEF DagInv, DagTypeOK
                <5> QED
                    BY <1>2, <3>1, <4>2, <5>1, ConcatFacts DEF PushParents
            <4> QED
                BY <4>1, <4>2
        <3>3. /\ ancestors' \in Seq(Hashes) /\ Elements(ancestors') = Elements(ancestors) \cup {Top}
              /\ NoRepeat(ancestors')
            BY <1>1, <1>2, <1>3, <2>2, <3>1, AppendFacts
        <3>4. pushed \subseteq Reachable(start)
            BY <1>1, <1>2, <1>3, ReachableFacts DEF DagInv
        <3>5. Elements(stack') \cup Elements(ancestors') = Elements(stack) \cup Elements(ancestors) \cup pushed
            BY <1>2, <3>2, <3>3
        <3>6. edges[Top] # NoEntry => Elements(edges[Top]) \subseteq pushed
            OBVIOUS
        <3> HIDE DEF pushed
        <3>7. \A x \in Elements(ancestors') :
                  edges[x] # NoEntry => Elements(edges[x]) \subseteq Elements(stack') \cup Elements(ancestors')
            BY <1>3, <3>3, <3>5, <3>6
        <3>8. Elements(stack') \cup Elements(ancestors') \subseteq Reachable(start)
            BY <1>3, <3>4, <3>5
        <3> QED
            BY <1>1, <1>3, <1>4, <3>2, <3>3, <3>5, <3>7, <3>8 DEF WalkInv
    <2> QED
        BY <2>1, <2>2
<1>6. DagTypeOK'
    BY <1>1, <1>5 DEF DagInv, DagTypeOK, insertVars, sortVars
<1>7. IdleInv'
    BY <1>1 DEF DagInv, IdleInv, sortVars
<1>8. SortInv' /\ MapsInv'
    BY <1>1, SortKept, MapsKept DEF DagInv, insertVars
<1> QED
    BY <1>5, <1>6, <1>7, <1>8 DEF DagInv

LEMMA EndWalkInv ==
    ASSUME DagInv, EndWalk
    PROVE  DagInv'
PROOF
<1>1. start' = NoEntry /\ stack = <<>> /\ ancestors' = <<>> /\ UNCHANGED <<insertVars, sortVars, stack>>
    BY DEF EndWalk
<1>2. DagTypeOK'
    BY <1>1, EmptyFacts DEF DagInv, DagTypeOK, insertVars, sortVars
<1>3. IdleInv' /\ WalkInv'
    BY <1>1 DEF DagInv, IdleInv, WalkInv, sortVars
<1>4. SortInv' /\ MapsInv'
    BY <1>1, SortKept, MapsKept DEF DagInv, insertVars
<1> QED
    BY <1>2, <1>3, <1>4 DEF DagInv

-----------------------------------------------------------------------------
LEMMA DagNextInv == DagInv /\ [DagNext]_dagVars => DagInv'
PROOF
<1> SUFFICES ASSUME DagInv, [DagNext]_dagVars PROVE DagInv'
    OBVIOUS
<1>1. CASE UNCHANGED dagVars
    <2>1. UNCHANGED <<insertVars, sortVars, walkVars>>
        BY <1>1 DEF dagVars
    <2>2. DagTypeOK' /\ IdleInv'
        BY <2>1 DEF DagInv, DagTypeOK, IdleInv, insertVars, sortVars, walkVars
    <2> QED
        BY <2>1, <2>2, SortKept, MapsKept, WalkKept DEF DagInv, insertVars
<1> QED
    BY <1>1, InsertVertexInv, InsertEdgesInv, BeginSortInv, VisitNextInv, EndSortInv,
       BeginWalkInv, WalkNextInv, EndWalkInv DEF DagNext

LEMMA DagInvHolds == DagSpec => []DagInv
PROOF
    BY DagInitInv, DagNextInv, PTL DEF DagSpec

\* The state keeps its type: in particular no in_degree counter of
\* topological_sort goes below zero, whatever the lists of parents.
THEOREM DagTypeCorrect == DagSpec => []DagTypeOK
PROOF
<1>1. DagInv => DagTypeOK
    BY DEF DagInv
<1> QED
    BY <1>1, DagInvHolds, PTL

\* The two maps of add_vertex agree on every hash that nobody is inserting
\* and that two overlapping calls never inserted.
THEOREM MapsAlwaysAgree == DagSpec => []MapsAgree
PROOF
<1>1. DagInv => MapsAgree
    BY DEF DagInv, MapsInv, MapsAgree
<1> QED
    BY <1>1, DagInvHolds, PTL

\* get_ancestors returns the vertex and all its ancestors, each once, in any
\* graph: with cycles, repeated parents and parents that are missing.
THEOREM AncestorsAreComplete == DagSpec => []AncestorsComplete
PROOF
<1>1. ASSUME DagInv, start # NoEntry, stack = <<>>
      PROVE  /\ Elements(ancestors) = Reachable(start)
             /\ Len(ancestors) = Cardinality(Reachable(start))
    <2>1. start \in Hashes /\ ancestors \in Seq(Hashes) /\ Elements(stack) = {}
        BY <1>1, EmptyFacts DEF DagInv, DagTypeOK
    <2>2. /\ Elements(ancestors) \subseteq Reachable(start)
          /\ start \in Elements(ancestors)
          /\ \A x \in Elements(ancestors) : edges[x] # NoEntry => Elements(edges[x]) \subseteq Elements(ancestors)
          /\ NoRepeat(ancestors)
        BY <1>1, <2>1 DEF DagInv, WalkInv
    <2>3. Elements(ancestors) \in SUBSET Hashes
        BY <1>1, <2>1, <2>2, ReachableFacts DEF DagInv
    <2>4. Elements(ancestors) = Reachable(start)
        BY <1>1, <2>1, <2>2, <2>3, ReachableFacts DEF DagInv
    <2>5. ancestors \in Bijection(1..Len(ancestors), Elements(ancestors)) /\ Len(ancestors) \in Nat
        <3>1. DOMAIN ancestors = 1..Len(ancestors) /\ Len(ancestors) \in Nat
            BY <2>1
        <3>2. ancestors \in [1..Len(ancestors) -> Elements(ancestors)]
            BY <2>1, <3>1 DEF Elements
        <3> QED
            BY <2>2, <3>1, <3>2
            DEF Bijection, Injection, Surjection, IsInjective, NoRepeat, Elements
    <2>6. Cardinality(Elements(ancestors)) = Len(ancestors)
        BY <2>5, FS_CountingElements DEF ExistsBijection
    <2> QED
        BY <2>4, <2>6
<1>2. DagInv => AncestorsComplete
    BY <1>1 DEF AncestorsComplete
<1> QED
    BY <1>2, DagInvHolds, PTL

-----------------------------------------------------------------------------
(* The refinement                                                          *)

Parents == [h \in Hashes |-> IF vertices[h] = NoEntry THEN {} ELSE Elements(vertices[h])]

LEMMA InitRefines == DagInit => Abstract!OrderInit
PROOF
    BY DEF DagInit, Abstract!OrderInit, Present

\* add_vertex writes the vertices while no sort is under way.
LEMMA InsertRefines ==
    ASSUME DagInv, NEW t \in Inserters, NEW h \in Hashes, NEW list \in ParentLists, InsertVertex(t, h, list)
    PROVE  Abstract!OrderNext
PROOF
<1>1. ~sorting /\ vertices' = [vertices EXCEPT ![h] = list] /\ UNCHANGED <<result, sorting>>
    BY DEF InsertVertex, sortVars
<1>2. list # NoEntry /\ Elements(list) \in SUBSET Hashes
    BY ListType
<1>3. vertices \in [Hashes -> ParentLists \cup {NoEntry}]
    BY DEF DagInv, DagTypeOK
<1>4. Present' = Present \cup {h}
    BY <1>1, <1>2, <1>3 DEF Present
<1>5. Parents' = [Parents EXCEPT ![h] = Elements(list)]
    BY <1>1, <1>2, <1>3 DEF Parents
<1>6. Abstract!Insert(h, Elements(list))
    BY <1>1, <1>4, <1>5 DEF Abstract!Insert, Parents
<1> QED
    BY <1>2, <1>6 DEF Abstract!OrderNext

\* The head of the queue can be placed.
LEMMA VisitRefines ==
    ASSUME DagInv, VisitNext
    PROVE  Abstract!OrderNext
PROOF
<1> DEFINE p == Head(queue)
<1>1. p \in Present /\ p \in Hashes /\ p \notin Elements(result) /\ Missing(p) = {}
    BY VisitNextInv DEF Present
<1>2. sorting /\ result' = Append(result, p) /\ UNCHANGED <<vertices, sorting>>
    BY DEF VisitNext, insertVars
<1> HIDE DEF p
<1>3. vertices[p] # NoEntry /\ Elements(vertices[p]) \subseteq Elements(result)
    BY <1>1 DEF Present, Missing, Elements
<1>4. Parents[p] \subseteq Elements(result)
    BY <1>1, <1>3 DEF Parents
<1>5. Abstract!Placeable(p)
    BY <1>1, <1>4 DEF Abstract!Placeable, Abstract!Placed, Elements, Parents
<1>6. Present' = Present /\ Parents' = Parents
    BY <1>2 DEF Present, Parents
<1>7. Abstract!Place(p)
    BY <1>2, <1>5, <1>6 DEF Abstract!Place, Parents
<1> QED
    BY <1>1, <1>7 DEF Abstract!OrderNext

\* When the queue is empty, every vertex that is left misses a parent.
LEMMA EndRefines ==
    ASSUME DagInv, EndSort
    PROVE  Abstract!OrderNext
PROOF
<1>1. sorting /\ queue = <<>> /\ sorting' = FALSE /\ result' = <<>> /\ UNCHANGED vertices
    BY DEF EndSort, insertVars
<1>2. /\ \A h \in Hashes : in_degree[h] = Cardinality(Missing(h))
      /\ Elements(result) = {h \in Present : in_degree[h] = 0}
    BY <1>1, EmptyFacts DEF DagInv, SortInv
<1>3. ASSUME NEW h \in Hashes, Abstract!Placeable(h)
      PROVE  FALSE
    <2>1. h \in Present /\ h \notin Elements(result) /\ Parents[h] \subseteq Elements(result)
        BY <1>3 DEF Abstract!Placeable, Abstract!Placed, Elements, Parents
    <2>2. Missing(h) = {}
        BY <2>1 DEF Parents, Missing, Present, Elements
    <2>3. in_degree[h] = 0
        BY <1>2, <2>2, FS_EmptySet
    <2> QED
        BY <1>2, <2>1, <2>3
<1>4. Present' = Present /\ Parents' = Parents
    BY <1>1 DEF Present, Parents
<1>5. Abstract!End
    BY <1>1, <1>3, <1>4 DEF Abstract!End, Parents
<1> QED
    BY <1>5 DEF Abstract!OrderNext

\* The other steps change nothing the abstract specification sees.
LEMMA OtherRefines ==
    ASSUME UNCHANGED <<vertices, result, sorting>>
    PROVE  UNCHANGED Abstract!orderVars
PROOF
    BY DEF Abstract!orderVars, Present

\* Kahn's algorithm, with its counters, its queue and the two locks, is an
\* implementation of the abstract sort: every vertex is placed once and after
\* all its parents, and the sort ends only when no vertex can be placed.
THEOREM SortRefines == DagSpec => SortImplements
PROOF
<1>1. ASSUME DagInv, [DagNext]_dagVars
      PROVE  [Abstract!OrderNext]_(Abstract!orderVars)
    <2>1. ASSUME NEW t \in Inserters, NEW h \in Hashes, NEW list \in ParentLists, InsertVertex(t, h, list)
          PROVE  Abstract!OrderNext
        BY <1>1, <2>1, InsertRefines
    <2>2. ASSUME BeginSort
          PROVE  Abstract!OrderNext
        BY <2>2 DEF BeginSort, insertVars, Present, Abstract!Begin, Abstract!OrderNext
    <2>3. CASE VisitNext
        BY <1>1, <2>3, VisitRefines
    <2>4. CASE EndSort
        BY <1>1, <2>4, EndRefines
    <2>5. ASSUME \/ \E t \in Inserters : InsertEdges(t)
                 \/ \E h \in Hashes : BeginWalk(h)
                 \/ WalkNext \/ EndWalk \/ UNCHANGED dagVars
          PROVE  UNCHANGED Abstract!orderVars
        <3>1. UNCHANGED <<vertices, result, sorting>>
            BY <2>5 DEF InsertEdges, BeginWalk, WalkNext, EndWalk, dagVars, insertVars, sortVars
        <3> QED
            BY <3>1, OtherRefines
    <2> QED
        BY <1>1, <2>1, <2>2, <2>3, <2>4, <2>5 DEF DagNext
<1> QED
    BY <1>1, InitRefines, DagInvHolds, PTL DEF DagSpec, SortImplements, Abstract!OrderSpec
=============================================================================
