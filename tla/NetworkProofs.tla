--------------------------- MODULE NetworkProofs ---------------------------
(***************************************************************************)
(* Proofs about the broadcaster and the block synchronizer, for any number *)
(* of callers, transactions, heights and any batch size.                   *)
(***************************************************************************)
EXTENDS Network, FiniteSetTheorems, TLAPS

-----------------------------------------------------------------------------
(* The broadcaster                                                         *)

Arguments == NetTxs \cup Seq(NetTxs) \cup Heights \cup {NoTask}

\* What the lists, the locks and the arguments of the calls look like.
ListsOK ==
    /\ pending_txs \in [Instances -> Seq(NetTxs)]
    /\ pending_lock \in [Instances -> Tasks \cup {NoTask}]
    /\ net_pc \in [Tasks -> NetLocations] /\ net_arg \in [Tasks -> Arguments]
    /\ \A t \in Tasks : net_pc[t] = "queue" => net_arg[t] \in NetTxs /\ t # Timer
    /\ \A t \in Tasks : net_pc[t] = "broadcast_batch" => net_arg[t] \in Seq(NetTxs)
    /\ published \subseteq Seq(NetTxs) /\ failed \subseteq Seq(NetTxs)

LEMMA TasksFacts ==
    /\ NoTask \notin Tasks /\ BatchSize \in Nat /\ BatchSize > 0
    /\ \A t \in Tasks : InstanceOf(t) \in Instances
    /\ \A t \in Tasks : t # Timer => InstanceOf(t) = "broadcaster"
    /\ \A t \in Callers : t \in Tasks /\ t # Timer
PROOF
    BY TasksAssumption, BoundsAssumption DEF Tasks, InstanceOf, Instances

LEMMA ListsInit == NetInit => ListsOK
PROOF
    BY DEF NetInit, ListsOK, NetLocations, Arguments

\* The steps of the synchronizer, of the event loop, and the beginning of a
\* call: the lists and the locks stay, and the task starts no batch.
LEMMA OtherInv ==
    ASSUME ListsOK, NEW t \in Tasks, UNCHANGED <<pending_txs, pending_lock, published, failed>>,
           NEW l \in NetLocations \ {"broadcast_batch"}, net_pc' = [net_pc EXCEPT ![t] = l],
           NEW a \in Arguments, net_arg' = [net_arg EXCEPT ![t] = a], l = "queue" => a \in NetTxs /\ t # Timer
    PROVE  ListsOK'
PROOF
    BY DEF ListsOK, NetLocations, Arguments

LEMMA QueueInv ==
    ASSUME ListsOK, NEW t \in Tasks, QueueTransaction(t)
    PROVE  ListsOK'
PROOF
<1> DEFINE new == Append(pending_txs["broadcaster"], net_arg[t])
<1>1. /\ pending_txs["broadcaster"] \in Seq(NetTxs) /\ net_arg[t] \in NetTxs
      /\ "broadcaster" \in Instances
    BY DEF ListsOK, QueueTransaction, Instances
<1>2. new \in Seq(NetTxs)
    BY <1>1
<1>3. /\ pending_txs' = [pending_txs EXCEPT !["broadcaster"] = new]
      /\ net_pc[t] = "queue" /\ UNCHANGED <<published, failed>>
    BY DEF QueueTransaction, history
<1> HIDE DEF new
<1>4. CASE Len(new) >= BatchSize
    <2>1. /\ pending_lock' = [pending_lock EXCEPT !["broadcaster"] = t]
          /\ net_pc' = [net_pc EXCEPT ![t] = "flush"] /\ net_arg' = net_arg
        BY <1>4 DEF QueueTransaction, NetGoto, new
    <2> QED
        BY <1>1, <1>2, <1>3, <2>1 DEF ListsOK, NetLocations, Arguments
<1>5. CASE ~(Len(new) >= BatchSize)
    <2>1. /\ pending_lock' = pending_lock
          /\ net_pc' = [net_pc EXCEPT ![t] = "idle"] /\ net_arg' = [net_arg EXCEPT ![t] = NoTask]
        BY <1>5 DEF QueueTransaction, NetReturn, NetGoto, new
    <2> QED
        BY <1>1, <1>2, <1>3, <2>1 DEF ListsOK, NetLocations, Arguments
<1> QED
    BY <1>4, <1>5

LEMMA FlushInv ==
    ASSUME ListsOK, NEW t \in Tasks, FlushEmpty(t) \/ FlushTake(t)
    PROVE  ListsOK'
PROOF
<1> DEFINE i == InstanceOf(t)
<1>1. i \in Instances /\ net_pc[t] = "flush"
    BY TasksFacts DEF FlushEmpty, FlushTake
<1>2. CASE FlushEmpty(t)
    <2>1. /\ net_pc' = [net_pc EXCEPT ![t] = "idle"] /\ net_arg' = [net_arg EXCEPT ![t] = NoTask]
          /\ UNCHANGED <<pending_txs, pending_lock, published, failed>>
        BY <1>2 DEF FlushEmpty, NetReturn, NetGoto, broadcaster, history
    <2> QED
        BY <2>1 DEF ListsOK, NetLocations, Arguments
<1>3. CASE FlushTake(t)
    <2>1. /\ net_pc' = [net_pc EXCEPT ![t] = "broadcast_batch"] /\ net_arg' = [net_arg EXCEPT ![t] = pending_txs[i]]
          /\ pending_txs' = [pending_txs EXCEPT ![i] = <<>>]
          /\ pending_lock' = [pending_lock EXCEPT ![i] = t]
          /\ UNCHANGED <<published, failed>>
        BY <1>3 DEF FlushTake, NetGoto, history
    <2>2. pending_txs[i] \in Seq(NetTxs)
        BY <1>1 DEF ListsOK
    <2> HIDE DEF i
    <2> QED
        BY <1>1, <2>1, <2>2 DEF ListsOK, NetLocations, Arguments
<1> QED
    BY <1>2, <1>3

LEMMA BroadcastInv ==
    ASSUME ListsOK, NEW t \in Tasks, NEW success \in BOOLEAN, BroadcastBatch(t, success)
    PROVE  ListsOK'
PROOF
<1>1. /\ net_pc[t] = "broadcast_batch" /\ pending_txs' = pending_txs
      /\ pending_lock' = [i \in Instances |-> IF pending_lock[i] = t THEN NoTask ELSE pending_lock[i]]
      /\ net_pc' = [net_pc EXCEPT ![t] = "idle"] /\ net_arg' = [net_arg EXCEPT ![t] = NoTask]
    BY DEF BroadcastBatch, Release, NetReturn, NetGoto
<1>2. net_arg[t] \in Seq(NetTxs)
    BY <1>1 DEF ListsOK
<1>3. published' \subseteq published \cup {net_arg[t]} /\ failed' \subseteq failed \cup {net_arg[t]}
    BY DEF BroadcastBatch
<1> QED
    BY <1>1, <1>2, <1>3, TasksFacts DEF ListsOK, NetLocations, Arguments

\* The locations a step of OtherInv goes to.
LEMMA CallFacts ==
    /\ {"idle", "flush", "request", "broadcast_request", "receive"} \subseteq NetLocations \ {"broadcast_batch"}
    /\ NoTask \in Arguments /\ Heights \subseteq Arguments
PROOF
    BY DEF NetLocations, Arguments

LEMMA ListsNext ==
    ASSUME ListsOK, [NetNext]_netVars
    PROVE  ListsOK'
PROOF
<1>1. ASSUME NEW t \in Callers, NEW tx \in NetTxs, QueueCall(t, tx) PROVE ListsOK'
    <2>1. /\ net_pc[t] = "idle" /\ net_pc' = [net_pc EXCEPT ![t] = "queue"] /\ net_arg' = [net_arg EXCEPT ![t] = tx]
          /\ UNCHANGED <<pending_txs, pending_lock, published, failed>>
        BY <1>1 DEF QueueCall, NetCall, broadcaster
    <2> QED
        BY <2>1, OtherInv, TasksFacts DEF NetLocations, Arguments
<1>2. ASSUME NEW t \in Callers, NEW h \in Heights, RequestBlock(t, h) \/ ReceiveBlock(t, h) PROVE ListsOK'
    BY <1>2, OtherInv DEF RequestBlock, ReceiveBlock, NetCall, Tasks, broadcaster, history, NetLocations, Arguments
<1>3. ASSUME NEW t \in Tasks, FlushCall(t) PROVE ListsOK'
    <2>1. /\ net_pc[t] = "idle" /\ net_pc' = [net_pc EXCEPT ![t] = "flush"] /\ net_arg' = [net_arg EXCEPT ![t] = NoTask]
          /\ UNCHANGED <<pending_txs, pending_lock, published, failed>>
        BY <1>3 DEF FlushCall, NetCall, history, broadcaster
    <2> QED
        BY <2>1, CallFacts, OtherInv
<1>4. ASSUME NEW t \in Tasks, RequestInsert(t) PROVE ListsOK'
    <2>1. net_pc[t] = "request" /\ UNCHANGED <<pending_txs, pending_lock, published, failed>>
        BY <1>4 DEF RequestInsert, broadcaster, history
    <2>2. CASE net_arg[t] \in pending_requests
        <3>1. net_pc' = [net_pc EXCEPT ![t] = "idle"] /\ net_arg' = [net_arg EXCEPT ![t] = NoTask]
            BY <1>4, <2>2 DEF RequestInsert, NetReturn, NetGoto
        <3> QED
            BY <2>1, <3>1, CallFacts, OtherInv
    <2>3. CASE net_arg[t] \notin pending_requests
        <3>1. net_pc' = [net_pc EXCEPT ![t] = "broadcast_request"] /\ net_arg' = [net_arg EXCEPT ![t] = net_arg[t]]
            BY <1>4, <2>3 DEF RequestInsert, NetGoto, ListsOK
        <3>2. net_arg[t] \in Arguments
            BY DEF ListsOK
        <3> QED
            BY <2>1, <3>1, <3>2, CallFacts, OtherInv
    <2> QED
        BY <2>2, <2>3
<1>5. ASSUME NEW t \in Tasks, BroadcastRequest(t) \/ ReceiveClear(t) PROVE ListsOK'
    <2>1. /\ net_pc[t] \in {"broadcast_request", "receive"}
          /\ net_pc' = [net_pc EXCEPT ![t] = "idle"] /\ net_arg' = [net_arg EXCEPT ![t] = NoTask]
          /\ UNCHANGED <<pending_txs, pending_lock, published, failed>>
        BY <1>5 DEF BroadcastRequest, ReceiveClear, NetReturn, NetGoto, broadcaster, history
    <2> QED
        BY <2>1, CallFacts, OtherInv
<1>6. CASE RunEventLoop \/ UNCHANGED netVars
    <2>1. UNCHANGED <<pending_txs, pending_lock, net_pc, net_arg, published, failed>>
        BY <1>6 DEF RunEventLoop, netVars, broadcaster, history, NetLocations, Arguments
    <2> QED
        BY <2>1 DEF ListsOK
<1> QED
    BY <1>1, <1>2, <1>3, <1>4, <1>5, <1>6, QueueInv, FlushInv, BroadcastInv DEF NetNext, NetStep

LEMMA ListsHold == NetSpec => []ListsOK
PROOF
<1>1. ListsOK /\ [NetNext]_netVars => ListsOK'
    BY ListsNext
<1> QED
    BY <1>1, ListsInit, PTL DEF NetSpec

-----------------------------------------------------------------------------
(* Every transaction is in one place                                       *)

\* NothingLost, and what makes it inductive: a transaction that was not
\* given to queue_transaction is nowhere.
OnceInv == NothingLost /\ \A tx \in NetTxs \ queued : Places(tx) = {}

\* The five kinds of places.
Parts(tx, p) ==
    p \in Places(tx) <=>
        \/ \E t \in Queueing(tx) : p = <<"queue", t, 1>>
        \/ \E n \in Positions(tx, pending_txs["broadcaster"]) : p = <<"pending", NoTask, n>>
        \/ \E t \in Sending : \E n \in Positions(tx, net_arg[t]) : p = <<"sending", t, n>>
        \/ \E b \in published : \E n \in Positions(tx, b) : p = <<"published", b, n>>
        \/ \E b \in failed : \E n \in Positions(tx, b) : p = <<"failed", b, n>>

LEMMA PlacesParts == \A tx, p : Parts(tx, p)
PROOF
    BY DEF Parts, Places

LEMMA PlacesPartsNext == (\A tx, p : Parts(tx, p))'
PROOF
    BY PlacesParts, PTL

\* Whose position a place names, the other way round.
LEMMA PlaceOf ==
    ASSUME NEW tx
    PROVE  /\ \A t \in Queueing(tx) : <<"queue", t, 1>> \in Places(tx)
           /\ \A n \in Positions(tx, pending_txs["broadcaster"]) : <<"pending", NoTask, n>> \in Places(tx)
           /\ \A t \in Sending : \A n \in Positions(tx, net_arg[t]) : <<"sending", t, n>> \in Places(tx)
           /\ \A b \in published : \A n \in Positions(tx, b) : <<"published", b, n>> \in Places(tx)
           /\ \A b \in failed : \A n \in Positions(tx, b) : <<"failed", b, n>> \in Places(tx)
PROOF
    BY PlacesParts, Zenon DEF Parts

\* A transaction stays where it is when the step changes none of the lists
\* it is in.
LEMMA PlacesKept ==
    ASSUME NEW tx, Queueing(tx)' = Queueing(tx),
           Positions(tx, pending_txs'["broadcaster"]) = Positions(tx, pending_txs["broadcaster"]),
           \A t : \A n : t \in Sending' /\ n \in Positions(tx, net_arg'[t]) <=> t \in Sending /\ n \in Positions(tx, net_arg[t]),
           \A b : \A n \in Positions(tx, b) : (b \in published' <=> b \in published) /\ (b \in failed' <=> b \in failed)
    PROVE  Places(tx)' = Places(tx)
PROOF
<1>1. ASSUME NEW p PROVE p \in Places(tx)' <=> p \in Places(tx)
    <2>1. Parts(tx, p) /\ Parts(tx, p)'
        BY PlacesParts, PlacesPartsNext
    <2> QED
        BY <2>1 DEF Parts
<1> QED
    BY <1>1, Zenon

\* Each transaction stays, or gets from its one place to another.
LEMMA MovesKeepOnce ==
    ASSUME OnceInv, queued' = queued, queued \subseteq NetTxs,
           \A tx \in NetTxs : Places(tx)' = Places(tx) \/ (Places(tx) # {} /\ \E q : Places(tx)' = {q})
    PROVE  OnceInv'
PROOF
    BY DEF OnceInv, NothingLost

\* A transaction that is somewhere is there only.
LEMMA OnePlace ==
    ASSUME OnceInv, NEW tx \in NetTxs, NEW p \in Places(tx)
    PROVE  Places(tx) = {p}
PROOF
    BY DEF OnceInv, NothingLost

\* A step of a call that neither queues nor sends changes no place.
LEMMA OtherPlaces ==
    ASSUME ListsOK, NEW t \in Tasks, UNCHANGED <<pending_txs, published, failed>>,
           net_pc[t] \notin {"queue", "broadcast_batch"},
           NEW l, l \notin {"queue", "broadcast_batch"}, net_pc' = [net_pc EXCEPT ![t] = l],
           NEW a, net_arg' = [net_arg EXCEPT ![t] = a], NEW tx
    PROVE  Places(tx)' = Places(tx)
PROOF
<1>1. Queueing(tx)' = Queueing(tx)
    BY DEF ListsOK, Queueing
<1>2. Sending' = Sending /\ \A u \in Sending : net_arg'[u] = net_arg[u]
    BY DEF ListsOK, Sending
<1> QED
    BY <1>1, <1>2, PlacesKept

LEMMA QueueCallOnce ==
    ASSUME ListsOK, OnceInv, queued \subseteq NetTxs, NEW t \in Callers, NEW tx \in NetTxs, QueueCall(t, tx)
    PROVE  OnceInv'
PROOF
<1>1. /\ net_pc[t] = "idle" /\ net_pc' = [net_pc EXCEPT ![t] = "queue"] /\ net_arg' = [net_arg EXCEPT ![t] = tx]
      /\ pending_txs' = pending_txs /\ published' = published /\ failed' = failed
      /\ tx \notin queued /\ queued' = queued \cup {tx} /\ t \in Tasks
    BY DEF QueueCall, NetCall, broadcaster, Tasks
<1>2. Sending' = Sending /\ \A u \in Sending : net_arg'[u] = net_arg[u]
    BY <1>1 DEF ListsOK, Sending
<1>3. ASSUME NEW x \in NetTxs, x # tx PROVE Places(x)' = Places(x)
    <2>1. Queueing(x)' = Queueing(x)
        BY <1>1, <1>3 DEF ListsOK, Queueing
    <2> QED
        BY <1>1, <1>2, <2>1, PlacesKept
<1>4. Places(tx) = {}
    BY <1>1 DEF OnceInv
<1>5. Queueing(tx)' = {t}
    <2>1. Queueing(tx) = {}
        BY <1>4, PlaceOf, Zenon
    <2> QED
        BY <1>1, <2>1 DEF ListsOK, Queueing
<1>6. Places(tx)' = {<<"queue", t, 1>>}
    <2>1. ASSUME NEW p PROVE p \in Places(tx)' <=> p = <<"queue", t, 1>>
        <3>1. Parts(tx, p) /\ Parts(tx, p)'
            BY PlacesParts, PlacesPartsNext
        <3> QED
            BY <1>1, <1>2, <1>4, <1>5, <3>1 DEF Parts
    <2> QED
        BY <2>1
<1>7. NothingLost'
    <2> SUFFICES ASSUME NEW x \in queued' PROVE \E p \in Places(x)' : Places(x)' = {p}
        BY DEF NothingLost
    <2>1. CASE x = tx
        BY <1>6, <2>1
    <2>2. CASE x # tx
        BY <1>1, <1>3, <2>2 DEF OnceInv, NothingLost
    <2> QED
        BY <2>1, <2>2
<1>8. \A x \in NetTxs \ queued' : Places(x)' = {}
    BY <1>1, <1>3 DEF OnceInv
<1> QED
    BY <1>7, <1>8 DEF OnceInv

LEMMA QueueTransactionOnce ==
    ASSUME ListsOK, OnceInv, queued \subseteq NetTxs, NEW t \in Tasks, QueueTransaction(t)
    PROVE  OnceInv'
PROOF
<1> DEFINE old == pending_txs["broadcaster"]
           new == Append(old, net_arg[t])
<1>1. /\ net_pc[t] = "queue" /\ net_arg[t] \in NetTxs /\ old \in Seq(NetTxs) /\ "broadcaster" \in Instances
      /\ pending_txs' = [pending_txs EXCEPT !["broadcaster"] = new]
      /\ published' = published /\ failed' = failed /\ queued' = queued
    BY DEF QueueTransaction, history, ListsOK, Instances
<1>2. /\ \A u \in Tasks \ {t} : net_pc'[u] = net_pc[u] /\ net_arg'[u] = net_arg[u]
      /\ net_pc'[t] \in {"flush", "idle"}
    BY DEF QueueTransaction, NetReturn, NetGoto, ListsOK
<1>3. Sending' = Sending /\ \A u \in Sending : net_arg'[u] = net_arg[u]
    BY <1>1, <1>2 DEF Sending
<1>4. pending_txs'["broadcaster"] = new
    BY <1>1 DEF ListsOK
<1>5. ASSUME NEW x \in NetTxs, x # net_arg[t] PROVE Places(x)' = Places(x)
    <2>1. Queueing(x)' = Queueing(x)
        BY <1>1, <1>2, <1>5 DEF Queueing
    <2>2. Positions(x, new) = Positions(x, old)
        BY <1>1, <1>5 DEF Positions
    <2> QED
        BY <1>1, <1>3, <1>4, <2>1, <2>2, PlacesKept
<1>6. Places(net_arg[t]) = {<<"queue", t, 1>>}
    <2>1. t \in Queueing(net_arg[t])
        BY <1>1 DEF Queueing
    <2>2. <<"queue", t, 1>> \in Places(net_arg[t])
        BY <2>1, PlaceOf, Zenon
    <2> QED
        BY <1>1, <2>2, OnePlace
<1>7. ASSUME NEW x, x = net_arg[t] PROVE Places(x)' = {<<"pending", NoTask, Len(new)>>}
    <2>1. Queueing(x) = {t}
        <3>1. \A u \in Queueing(x) : <<"queue", u, 1>> = <<"queue", t, 1>>
            BY <1>6, <1>7, PlaceOf
        <3> QED
            BY <1>1, <1>7, <3>1 DEF Queueing
    <2>2. Queueing(x)' = {}
        BY <1>2, <2>1 DEF Queueing
    <2>3. Positions(x, old) = {}
        <3>1. \A n \in Positions(x, old) : <<"pending", NoTask, n>> = <<"queue", t, 1>>
            BY <1>6, <1>7, PlaceOf
        <3> QED
            BY <3>1
    <2>4. Positions(x, new) = {Len(new)}
        BY <1>1, <1>7, <2>3 DEF Positions
    <2>5. ASSUME NEW p PROVE p \in Places(x)' <=> p = <<"pending", NoTask, Len(new)>>
        <3>1. Parts(x, p) /\ Parts(x, p)'
            BY PlacesParts, PlacesPartsNext
        <3>2. p \in Places(x) <=> p = <<"queue", t, 1>>
            BY <1>6, <1>7
        <3> HIDE DEF new
        <3> QED
            BY <1>1, <1>3, <1>4, <2>2, <2>4, <3>1, <3>2 DEF Parts
    <2> QED
        BY <2>5
<1> HIDE DEF new, old
<1>8. \A x \in NetTxs : Places(x)' = Places(x) \/ (Places(x) # {} /\ \E q : Places(x)' = {q})
    BY <1>5, <1>6, <1>7
<1> QED
    BY <1>1, <1>8, MovesKeepOnce

LEMMA FlushTakeOnce ==
    ASSUME ListsOK, OnceInv, queued \subseteq NetTxs, NEW t \in Tasks, FlushTake(t), InstanceOf(t) = "broadcaster"
    PROVE  OnceInv'
PROOF
<1> DEFINE old == pending_txs["broadcaster"]
<1>1. /\ net_pc[t] = "flush" /\ net_pc' = [net_pc EXCEPT ![t] = "broadcast_batch"]
      /\ net_arg' = [net_arg EXCEPT ![t] = old]
      /\ pending_txs' = [pending_txs EXCEPT !["broadcaster"] = <<>>]
      /\ published' = published /\ failed' = failed /\ queued' = queued
      /\ "broadcaster" \in Instances
    BY DEF FlushTake, NetGoto, history, Instances
<1>2. pending_txs'["broadcaster"] = <<>> /\ \A x : Positions(x, <<>>) = {}
    BY <1>1 DEF ListsOK, Positions
<1>3. /\ t \notin Sending /\ Sending' = Sending \cup {t}
      /\ net_arg'[t] = old /\ \A u \in Sending : net_arg'[u] = net_arg[u]
    BY <1>1 DEF ListsOK, Sending
<1>4. \A x : Queueing(x)' = Queueing(x)
    BY <1>1 DEF ListsOK, Queueing
<1> HIDE DEF old
<1>5. ASSUME NEW x \in NetTxs, Positions(x, old) = {} PROVE Places(x)' = Places(x)
    <2>1. \A u : \A n : u \in Sending' /\ n \in Positions(x, net_arg'[u]) <=> u \in Sending /\ n \in Positions(x, net_arg[u])
        BY <1>3, <1>5
    <2> QED
        BY <1>1, <1>2, <1>4, <1>5, <2>1, PlacesKept DEF old
<1>6. ASSUME NEW x \in NetTxs, NEW n \in Positions(x, old)
      PROVE  Places(x) # {} /\ Places(x)' = {<<"sending", t, n>>}
    <2>1. <<"pending", NoTask, n>> \in Places(x)
        BY PlaceOf DEF old
    <2>2. Places(x) = {<<"pending", NoTask, n>>}
        BY <2>1, OnePlace
    <2>3. Positions(x, old) = {n}
        <3>1. \A m \in Positions(x, old) : <<"pending", NoTask, m>> = <<"pending", NoTask, n>>
            BY <2>2, PlaceOf DEF old
        <3> QED
            BY <3>1
    <2>4. ASSUME NEW p PROVE p \in Places(x)' <=> p = <<"sending", t, n>>
        <3>1. Parts(x, p) /\ Parts(x, p)'
            BY PlacesParts, PlacesPartsNext
        <3>2. p \in Places(x) <=> p = <<"pending", NoTask, n>>
            BY <2>2
        <3> QED
            BY <1>1, <1>2, <1>3, <1>4, <2>3, <3>1, <3>2 DEF Parts
    <2> QED
        BY <2>1, <2>4
<1>7. \A x \in NetTxs : Places(x)' = Places(x) \/ (Places(x) # {} /\ \E q : Places(x)' = {q})
    BY <1>5, <1>6
<1> QED
    BY <1>1, <1>7, MovesKeepOnce

\* The batch is published or refused; the two are alike.
LEMMA BroadcastBatchOnce ==
    ASSUME ListsOK, OnceInv, queued \subseteq NetTxs, NEW t \in Tasks, NEW success \in BOOLEAN, BroadcastBatch(t, success)
    PROVE  OnceInv'
PROOF
<1>1. /\ net_pc[t] = "broadcast_batch" /\ net_pc' = [net_pc EXCEPT ![t] = "idle"] /\ net_arg' = [net_arg EXCEPT ![t] = NoTask]
      /\ pending_txs' = pending_txs /\ queued' = queued
    BY DEF BroadcastBatch, NetReturn, NetGoto
<1>2. \/ published' = published \cup {net_arg[t]} /\ failed' = failed
      \/ failed' = failed \cup {net_arg[t]} /\ published' = published
    BY DEF BroadcastBatch
<1>3. /\ t \in Sending /\ Sending' = Sending \ {t}
      /\ \A u \in Sending \ {t} : net_arg'[u] = net_arg[u]
    BY <1>1 DEF ListsOK, Sending
<1>4. \A x : Queueing(x)' = Queueing(x)
    BY <1>1 DEF ListsOK, Queueing
<1>5. ASSUME NEW x \in NetTxs, Positions(x, net_arg[t]) = {} PROVE Places(x)' = Places(x)
    <2>1. \A u : \A n : u \in Sending' /\ n \in Positions(x, net_arg'[u]) <=> u \in Sending /\ n \in Positions(x, net_arg[u])
        BY <1>3, <1>5
    <2>2. \A b : \A n \in Positions(x, b) : (b \in published' <=> b \in published) /\ (b \in failed' <=> b \in failed)
        BY <1>2, <1>5
    <2> QED
        BY <1>1, <1>4, <2>1, <2>2, PlacesKept
<1>6. ASSUME NEW x \in NetTxs, NEW n \in Positions(x, net_arg[t])
      PROVE  Places(x) # {} /\ \E q : Places(x)' = {q}
    <2>1. <<"sending", t, n>> \in Places(x)
        BY <1>3, PlaceOf
    <2>2. Places(x) = {<<"sending", t, n>>}
        BY <2>1, OnePlace
    <2>3. Positions(x, net_arg[t]) = {n}
        <3>1. \A m \in Positions(x, net_arg[t]) : <<"sending", t, m>> = <<"sending", t, n>>
            BY <1>3, <2>2, PlaceOf
        <3> QED
            BY <3>1
    <2>4. ASSUME published' = published \cup {net_arg[t]}, failed' = failed, NEW p
          PROVE  p \in Places(x)' <=> p = <<"published", net_arg[t], n>>
        <3>1. Parts(x, p) /\ Parts(x, p)'
            BY PlacesParts, PlacesPartsNext
        <3>2. p \in Places(x) <=> p = <<"sending", t, n>>
            BY <2>2
        <3>3. \A b \in published : Positions(x, b) = {}
            <4>1. \A b \in published : \A m \in Positions(x, b) : <<"published", b, m>> = <<"sending", t, n>>
                BY <2>2, PlaceOf
            <4> QED
                BY <4>1
        <3> QED
            BY <1>1, <1>3, <1>4, <2>3, <2>4, <3>1, <3>2, <3>3 DEF Parts
    <2>5. ASSUME failed' = failed \cup {net_arg[t]}, published' = published, NEW p
          PROVE  p \in Places(x)' <=> p = <<"failed", net_arg[t], n>>
        <3>1. Parts(x, p) /\ Parts(x, p)'
            BY PlacesParts, PlacesPartsNext
        <3>2. p \in Places(x) <=> p = <<"sending", t, n>>
            BY <2>2
        <3>3. \A b \in failed : Positions(x, b) = {}
            <4>1. \A b \in failed : \A m \in Positions(x, b) : <<"failed", b, m>> = <<"sending", t, n>>
                BY <2>2, PlaceOf
            <4> QED
                BY <4>1
        <3> QED
            BY <1>1, <1>3, <1>4, <2>3, <2>5, <3>1, <3>2, <3>3 DEF Parts
    <2>6. CASE published' = published \cup {net_arg[t]} /\ failed' = failed
        <3>1. Places(x)' = {<<"published", net_arg[t], n>>}
            BY <2>4, <2>6
        <3> QED
            BY <2>1, <3>1
    <2>7. CASE failed' = failed \cup {net_arg[t]} /\ published' = published
        <3>1. Places(x)' = {<<"failed", net_arg[t], n>>}
            BY <2>5, <2>7
        <3> QED
            BY <2>1, <3>1
    <2> QED
        BY <1>2, <2>6, <2>7
<1>7. \A x \in NetTxs : Places(x)' = Places(x) \/ (Places(x) # {} /\ \E q : Places(x)' = {q})
    BY <1>5, <1>6
<1> QED
    BY <1>1, <1>7, MovesKeepOnce

\* The timer's clone never gets a transaction.
CloneInv == queued \subseteq NetTxs /\ pending_txs["clone"] = <<>>

LEMMA OnceInit == NetInit => OnceInv /\ CloneInv
PROOF
<1> SUFFICES ASSUME NetInit PROVE OnceInv /\ CloneInv
    OBVIOUS
<1>1. CloneInv
    BY DEF NetInit, CloneInv, Instances
<1>2. \A x : Queueing(x) = {}
    BY DEF NetInit, Queueing
<1>3. Sending = {} /\ published = {} /\ failed = {} /\ queued = {}
    BY DEF NetInit, Sending
<1>4. \A x : Positions(x, pending_txs["broadcaster"]) = {}
    BY DEF NetInit, Positions, Instances
<1>5. ASSUME NEW x PROVE Places(x) = {}
    <2>1. \A p : Parts(x, p)
        BY PlacesParts
    <2> QED
        BY <1>2, <1>3, <1>4, <2>1 DEF Parts
<1> QED
    BY <1>1, <1>3, <1>5 DEF OnceInv, NothingLost

\* The steps that concern neither the lists nor a batch.
LEMMA OtherOnce ==
    ASSUME ListsOK, OnceInv, CloneInv, NEW t \in Tasks, UNCHANGED <<pending_txs, published, failed, queued>>,
           net_pc[t] \notin {"queue", "broadcast_batch"},
           NEW l, l \notin {"queue", "broadcast_batch"}, net_pc' = [net_pc EXCEPT ![t] = l],
           NEW a, net_arg' = [net_arg EXCEPT ![t] = a]
    PROVE  OnceInv' /\ CloneInv'
PROOF
<1>1. \A x \in NetTxs : Places(x)' = Places(x)
    BY OtherPlaces
<1> QED
    BY <1>1, MovesKeepOnce DEF CloneInv

LEMMA NextOnce ==
    ASSUME ListsOK, OnceInv, CloneInv, [NetNext]_netVars
    PROVE  OnceInv' /\ CloneInv'
PROOF
<1> USE DEF CloneInv
<1>1. ASSUME NEW t \in Callers, NEW tx \in NetTxs, QueueCall(t, tx) PROVE OnceInv' /\ CloneInv'
    BY <1>1, QueueCallOnce DEF QueueCall, broadcaster
<1>2. ASSUME NEW t \in Callers, NEW h \in Heights, RequestBlock(t, h) \/ ReceiveBlock(t, h)
      PROVE  OnceInv' /\ CloneInv'
    <2>1. /\ net_pc[t] = "idle" /\ \E l \in {"request", "receive"} : net_pc' = [net_pc EXCEPT ![t] = l]
          /\ net_arg' = [net_arg EXCEPT ![t] = h] /\ t \in Tasks
          /\ UNCHANGED <<pending_txs, published, failed, queued>>
        BY <1>2 DEF RequestBlock, ReceiveBlock, NetCall, Tasks, broadcaster, history
    <2> QED
        BY <2>1, OtherOnce
<1>3. ASSUME NEW t \in Tasks, FlushCall(t) PROVE OnceInv' /\ CloneInv'
    <2>1. /\ net_pc[t] = "idle" /\ net_pc' = [net_pc EXCEPT ![t] = "flush"] /\ net_arg' = [net_arg EXCEPT ![t] = NoTask]
          /\ UNCHANGED <<pending_txs, published, failed, queued>>
        BY <1>3 DEF FlushCall, NetCall, history, broadcaster
    <2> QED
        BY <2>1, OtherOnce
<1>4. ASSUME NEW t \in Tasks, RequestInsert(t) PROVE OnceInv' /\ CloneInv'
    <2>1. net_pc[t] = "request" /\ UNCHANGED <<pending_txs, published, failed, queued>>
        BY <1>4 DEF RequestInsert, broadcaster, history
    <2>2. CASE net_arg[t] \in pending_requests
        <3>1. net_pc' = [net_pc EXCEPT ![t] = "idle"] /\ net_arg' = [net_arg EXCEPT ![t] = NoTask]
            BY <1>4, <2>2 DEF RequestInsert, NetReturn, NetGoto
        <3> QED
            BY <2>1, <3>1, OtherOnce
    <2>3. CASE net_arg[t] \notin pending_requests
        <3>1. net_pc' = [net_pc EXCEPT ![t] = "broadcast_request"] /\ net_arg' = [net_arg EXCEPT ![t] = net_arg[t]]
            BY <1>4, <2>3 DEF RequestInsert, NetGoto, ListsOK
        <3> QED
            BY <2>1, <3>1, OtherOnce
    <2> QED
        BY <2>2, <2>3
<1>5. ASSUME NEW t \in Tasks, BroadcastRequest(t) \/ ReceiveClear(t) \/ FlushEmpty(t) PROVE OnceInv' /\ CloneInv'
    <2>1. /\ net_pc[t] \in {"broadcast_request", "receive", "flush"}
          /\ net_pc' = [net_pc EXCEPT ![t] = "idle"] /\ net_arg' = [net_arg EXCEPT ![t] = NoTask]
          /\ UNCHANGED <<pending_txs, published, failed, queued>>
        BY <1>5 DEF BroadcastRequest, ReceiveClear, FlushEmpty, NetReturn, NetGoto, broadcaster, history
    <2> QED
        BY <2>1, OtherOnce
<1>6. ASSUME NEW t \in Tasks, QueueTransaction(t) PROVE OnceInv' /\ CloneInv'
    <2>1. CloneInv'
        BY <1>6 DEF QueueTransaction, history, ListsOK, Instances
    <2> QED
        BY <1>6, <2>1, QueueTransactionOnce
<1>7. ASSUME NEW t \in Tasks, FlushTake(t) PROVE OnceInv' /\ CloneInv'
    <2>1. InstanceOf(t) = "broadcaster"
        BY <1>7 DEF FlushTake, InstanceOf
    <2>2. CloneInv'
        BY <1>7, <2>1 DEF FlushTake, history, ListsOK, Instances
    <2> QED
        BY <1>7, <2>1, <2>2, FlushTakeOnce
<1>8. ASSUME NEW t \in Tasks, NEW success \in BOOLEAN, BroadcastBatch(t, success) PROVE OnceInv' /\ CloneInv'
    <2>1. CloneInv'
        BY <1>8 DEF BroadcastBatch
    <2> QED
        BY <1>8, <2>1, BroadcastBatchOnce
<1>9. CASE RunEventLoop \/ UNCHANGED netVars
    <2>1. UNCHANGED <<pending_txs, net_pc, net_arg, published, failed, queued>>
        BY <1>9 DEF RunEventLoop, netVars, broadcaster, history
    <2>2. \A x : Places(x)' = Places(x)
        BY <2>1, PlacesKept DEF Queueing, Sending
    <2> QED
        BY <2>1, <2>2, MovesKeepOnce
<1> QED
    BY <1>1, <1>2, <1>3, <1>4, <1>5, <1>6, <1>7, <1>8, <1>9 DEF NetNext, NetStep

\* Every transaction given to queue_transaction is in exactly one place:
\* about to be queued, waiting, being sent, published or refused, whoever
\* queues and flushes at the same time.
THEOREM NeverLost == NetSpec => []NothingLost
PROOF
<1>1. ListsOK /\ OnceInv /\ CloneInv /\ [NetNext]_netVars => (OnceInv /\ CloneInv)'
    BY NextOnce
<1>2. OnceInv => NothingLost
    BY DEF OnceInv
<1> QED
    BY <1>1, <1>2, OnceInit, ListsHold, PTL DEF NetSpec

-----------------------------------------------------------------------------
(* The synchronizer                                                        *)

InPending(h) == IF h \in pending_requests THEN 1 ELSE 0

SyncOK ==
    /\ \A t \in Tasks : net_pc[t] \in {"request", "broadcast_request", "receive"} => net_arg[t] \in Heights
    /\ requested \in [Heights -> Nat] /\ received \in [Heights -> Nat]

\* Every request made or about to be made is answered by a block received,
\* or is the one that is pending.  A block counts as received when its
\* height leaves pending_requests, hence the calls of receive_block that
\* have not got there.
RequestsAnswered ==
    \A h \in Heights :
        requested[h] + Cardinality(At("broadcast_request", h)) + Cardinality(At("receive", h))
            <= received[h] + InPending(h)

SyncInv == SyncOK /\ RequestsAnswered

LEMMA TasksFinite ==
    ASSUME NEW S \in SUBSET Tasks
    PROVE  /\ IsFiniteSet(S) /\ Cardinality(S) \in Nat
           /\ \A t \in Tasks \ S : Cardinality(S \cup {t}) = Cardinality(S) + 1
           /\ \A t \in S : Cardinality(S \ {t}) = Cardinality(S) - 1
PROOF
<1>1. IsFiniteSet(Tasks)
    BY FiniteAssumption, FS_AddElement DEF Tasks
<1>2. IsFiniteSet(S)
    BY <1>1, FS_Subset
<1>3. Cardinality(S) \in Nat
    BY <1>2, FS_CardinalityType
<1>4. \A t \in Tasks \ S : Cardinality(S \cup {t}) = Cardinality(S) + 1
    BY <1>2, FS_AddElement
<1>5. \A t \in S : Cardinality(S \ {t}) = Cardinality(S) - 1
    BY <1>2, FS_RemoveElement
<1> QED
    BY <1>2, <1>3, <1>4, <1>5

\* The number of calls at a location when one call comes or goes.
LEMMA AtCount ==
    ASSUME NEW location, NEW h
    PROVE  /\ Cardinality(At(location, h)) \in Nat
           /\ \A t \in Tasks :
                  /\ t \notin At(location, h) /\ At(location, h)' = At(location, h) \cup {t}
                         => Cardinality(At(location, h)') = Cardinality(At(location, h)) + 1
                  /\ t \in At(location, h) /\ At(location, h)' = At(location, h) \ {t}
                         => Cardinality(At(location, h)') = Cardinality(At(location, h)) - 1
PROOF
<1>1. At(location, h) \in SUBSET Tasks
    BY DEF At
<1> QED
    BY <1>1, TasksFinite

LEMMA SyncInit == NetInit => SyncInv
PROOF
<1> SUFFICES ASSUME NetInit PROVE SyncInv
    OBVIOUS
<1>1. SyncOK
    BY DEF NetInit, SyncOK
<1>2. \A h : At("broadcast_request", h) = {} /\ At("receive", h) = {}
    BY DEF NetInit, At
<1>3. Cardinality({}) = 0
    BY FS_EmptySet
<1>4. \A h \in Heights : requested[h] = 0 /\ received[h] = 0 /\ InPending(h) = 0
    BY DEF NetInit, InPending
<1>5. RequestsAnswered
    BY <1>2, <1>3, <1>4 DEF RequestsAnswered
<1> QED
    BY <1>1, <1>5 DEF SyncInv

\* Steps that neither start nor end a broadcast of a request or a
\* receive_block.
LEMMA OtherSync ==
    ASSUME ListsOK, SyncInv, NEW t \in Tasks, UNCHANGED <<requested, received, pending_requests>>,
           net_pc[t] \notin {"broadcast_request", "receive"},
           NEW l \in NetLocations \ {"broadcast_request", "receive"}, net_pc' = [net_pc EXCEPT ![t] = l],
           NEW a \in Arguments, net_arg' = [net_arg EXCEPT ![t] = a], l = "request" => a \in Heights
    PROVE  SyncInv'
PROOF
<1>1. SyncOK'
    BY DEF SyncInv, SyncOK, ListsOK
<1>2. RequestsAnswered'
    <2> SUFFICES ASSUME NEW h \in Heights
                 PROVE  requested'[h] + Cardinality(At("broadcast_request", h)')
                            + Cardinality(At("receive", h)') <= received'[h] + InPending(h)'
        BY DEF RequestsAnswered
    <2>1. t \notin At("broadcast_request", h) /\ t \notin At("receive", h)
        BY DEF At
    <2>2. /\ Cardinality(At("broadcast_request", h)') = Cardinality(At("broadcast_request", h))
          /\ Cardinality(At("receive", h)') = Cardinality(At("receive", h))
        <3>1. /\ At("broadcast_request", h)' = At("broadcast_request", h)
              /\ At("receive", h)' = At("receive", h)
            BY <2>1 DEF ListsOK, At, Tasks
        <3> QED
            BY <3>1
    <2> QED
        BY <2>2 DEF SyncInv, RequestsAnswered, InPending
<1> QED
    BY <1>1, <1>2 DEF SyncInv

LEMMA RequestInsertSync ==
    ASSUME ListsOK, SyncInv, NEW t \in Tasks, RequestInsert(t)
    PROVE  SyncInv'
PROOF
<1>1. net_pc[t] = "request" /\ net_arg[t] \in Heights /\ UNCHANGED <<requested, received>>
    BY DEF RequestInsert, history, SyncInv, SyncOK
<1>2. CASE net_arg[t] \in pending_requests
    <2>1. net_pc' = [net_pc EXCEPT ![t] = "idle"] /\ net_arg' = [net_arg EXCEPT ![t] = NoTask] /\ UNCHANGED pending_requests
        BY <1>2 DEF RequestInsert, NetReturn, NetGoto
    <2>2. "idle" \in NetLocations \ {"broadcast_request", "receive"} /\ NoTask \in Arguments
        BY DEF NetLocations, Arguments
    <2> QED
        BY <1>1, <2>1, <2>2, OtherSync
<1>3. CASE net_arg[t] \notin pending_requests
    <2> DEFINE g == net_arg[t]
    <2>1. /\ net_pc' = [net_pc EXCEPT ![t] = "broadcast_request"] /\ net_arg' = [net_arg EXCEPT ![t] = g]
          /\ pending_requests' = pending_requests \cup {g}
        BY <1>3 DEF RequestInsert, NetGoto, ListsOK
    <2>3. SyncOK'
        BY <1>1, <2>1 DEF SyncInv, SyncOK, ListsOK
    <2>4. RequestsAnswered'
        <3> SUFFICES ASSUME NEW h \in Heights
                     PROVE  requested'[h] + Cardinality(At("broadcast_request", h)')
                                + Cardinality(At("receive", h)') <= received'[h] + InPending(h)'
            BY DEF RequestsAnswered
        <3>1. t \notin At("broadcast_request", h) /\ t \notin At("receive", h)
            BY <1>1 DEF At
        <3> HIDE DEF g
        <3>2. Cardinality(At("receive", h)') = Cardinality(At("receive", h))
              /\ Cardinality(At("receive", h)) \in Nat
            <4>1. At("receive", h)' = At("receive", h)
                BY <1>1, <2>1, <3>1 DEF ListsOK, At, Tasks
            <4> QED
                BY <4>1, AtCount
        <3>3. /\ Cardinality(At("broadcast_request", h)) \in Nat
              /\ h = g => Cardinality(At("broadcast_request", h)') = Cardinality(At("broadcast_request", h)) + 1
              /\ h # g => Cardinality(At("broadcast_request", h)') = Cardinality(At("broadcast_request", h))
            <4>1. h = g => t \notin At("broadcast_request", h) /\ At("broadcast_request", h)' = At("broadcast_request", h) \cup {t}
                BY <1>1, <2>1, <3>1 DEF ListsOK, At, Tasks, g
            <4>2. h # g => At("broadcast_request", h)' = At("broadcast_request", h)
                BY <1>1, <2>1, <3>1 DEF ListsOK, At, Tasks, g
            <4> QED
                BY <4>1, <4>2, AtCount
        <3>4. /\ h = g => InPending(h) = 0 /\ InPending(h)' = 1
              /\ h # g => InPending(h)' = InPending(h)
            BY <1>3, <2>1 DEF InPending, g
        <3>5. requested'[h] = requested[h] /\ received'[h] = received[h]
              /\ requested[h] \in Nat /\ received[h] \in Nat /\ InPending(h) \in Nat
            BY <1>1 DEF SyncInv, SyncOK, InPending
        <3>6. requested[h] + Cardinality(At("broadcast_request", h)) + Cardinality(At("receive", h))
                  <= received[h] + InPending(h)
            BY DEF SyncInv, RequestsAnswered
        <3> QED
            BY <3>2, <3>3, <3>4, <3>5, <3>6
    <2> QED
        BY <2>3, <2>4 DEF SyncInv
<1> QED
    BY <1>2, <1>3

LEMMA BroadcastRequestSync ==
    ASSUME ListsOK, SyncInv, NEW t \in Tasks, BroadcastRequest(t)
    PROVE  SyncInv'
PROOF
<1> DEFINE g == net_arg[t]
<1>1. /\ net_pc[t] = "broadcast_request" /\ g \in Heights
      /\ net_pc' = [net_pc EXCEPT ![t] = "idle"] /\ net_arg' = [net_arg EXCEPT ![t] = NoTask]
      /\ requested' = [requested EXCEPT ![g] = requested[g] + 1]
      /\ UNCHANGED <<received, pending_requests>>
    BY DEF BroadcastRequest, NetReturn, NetGoto, sync, SyncInv, SyncOK
<1>3. SyncOK'
    BY <1>1 DEF SyncInv, SyncOK, ListsOK
<1>4. RequestsAnswered'
    <2> SUFFICES ASSUME NEW h \in Heights
                 PROVE  requested'[h] + Cardinality(At("broadcast_request", h)')
                            + Cardinality(At("receive", h)') <= received'[h] + InPending(h)'
        BY DEF RequestsAnswered
    <2>1. t \notin At("receive", h) /\ (t \in At("broadcast_request", h) <=> h = g)
        BY <1>1 DEF At
    <2> HIDE DEF g
    <2>2. Cardinality(At("receive", h)') = Cardinality(At("receive", h))
          /\ Cardinality(At("receive", h)) \in Nat
        <3>1. At("receive", h)' = At("receive", h)
            BY <1>1, <2>1 DEF ListsOK, At, Tasks
        <3> QED
            BY <3>1, AtCount
    <2>3. /\ Cardinality(At("broadcast_request", h)) \in Nat
          /\ h = g => Cardinality(At("broadcast_request", h)') = Cardinality(At("broadcast_request", h)) - 1
          /\ h # g => Cardinality(At("broadcast_request", h)') = Cardinality(At("broadcast_request", h))
        <3>1. h = g => t \in At("broadcast_request", h) /\ At("broadcast_request", h)' = At("broadcast_request", h) \ {t}
            BY <1>1, <2>1 DEF ListsOK, At, Tasks, g
        <3>2. h # g => At("broadcast_request", h)' = At("broadcast_request", h)
            BY <1>1, <2>1 DEF ListsOK, At, Tasks, g
        <3> QED
            BY <3>1, <3>2, AtCount
    <2>4. /\ requested'[h] = IF h = g THEN requested[h] + 1 ELSE requested[h]
          /\ received'[h] = received[h] /\ InPending(h)' = InPending(h)
          /\ requested[h] \in Nat /\ received[h] \in Nat /\ InPending(h) \in Nat
        BY <1>1 DEF SyncInv, SyncOK, InPending
    <2>5. requested[h] + Cardinality(At("broadcast_request", h)) + Cardinality(At("receive", h))
              <= received[h] + InPending(h)
        BY DEF SyncInv, RequestsAnswered
    <2> QED
        BY <2>2, <2>3, <2>4, <2>5
<1> QED
    BY <1>3, <1>4 DEF SyncInv

LEMMA ReceiveBlockSync ==
    ASSUME ListsOK, SyncInv, NEW t \in Tasks, NEW g \in Heights, ReceiveBlock(t, g)
    PROVE  SyncInv'
PROOF
<1>1. /\ net_pc[t] = "idle"
      /\ net_pc' = [net_pc EXCEPT ![t] = "receive"] /\ net_arg' = [net_arg EXCEPT ![t] = g]
      /\ received' = [received EXCEPT ![g] = received[g] + 1]
      /\ UNCHANGED <<requested, pending_requests>>
    BY DEF ReceiveBlock, NetCall
<1>3. SyncOK'
    BY <1>1 DEF SyncInv, SyncOK, ListsOK
<1>4. RequestsAnswered'
    <2> SUFFICES ASSUME NEW h \in Heights
                 PROVE  requested'[h] + Cardinality(At("broadcast_request", h)')
                            + Cardinality(At("receive", h)') <= received'[h] + InPending(h)'
        BY DEF RequestsAnswered
    <2>1. t \notin At("receive", h) /\ t \notin At("broadcast_request", h)
        BY <1>1 DEF At
    <2>2. Cardinality(At("broadcast_request", h)') = Cardinality(At("broadcast_request", h))
          /\ Cardinality(At("broadcast_request", h)) \in Nat
        <3>1. At("broadcast_request", h)' = At("broadcast_request", h)
            BY <1>1, <2>1 DEF ListsOK, At, Tasks
        <3> QED
            BY <3>1, AtCount
    <2>3. /\ Cardinality(At("receive", h)) \in Nat
          /\ h = g => Cardinality(At("receive", h)') = Cardinality(At("receive", h)) + 1
          /\ h # g => Cardinality(At("receive", h)') = Cardinality(At("receive", h))
        <3>1. h = g => t \notin At("receive", h) /\ At("receive", h)' = At("receive", h) \cup {t}
            BY <1>1, <2>1 DEF ListsOK, At, Tasks
        <3>2. h # g => At("receive", h)' = At("receive", h)
            BY <1>1, <2>1 DEF ListsOK, At, Tasks
        <3> QED
            BY <3>1, <3>2, AtCount
    <2>4. /\ received'[h] = IF h = g THEN received[h] + 1 ELSE received[h]
          /\ requested'[h] = requested[h] /\ InPending(h)' = InPending(h)
          /\ requested[h] \in Nat /\ received[h] \in Nat /\ InPending(h) \in Nat
        BY <1>1 DEF SyncInv, SyncOK, InPending
    <2>5. requested[h] + Cardinality(At("broadcast_request", h)) + Cardinality(At("receive", h))
              <= received[h] + InPending(h)
        BY DEF SyncInv, RequestsAnswered
    <2> QED
        BY <2>2, <2>3, <2>4, <2>5
<1> QED
    BY <1>3, <1>4 DEF SyncInv

LEMMA ReceiveClearSync ==
    ASSUME ListsOK, SyncInv, NEW t \in Tasks, ReceiveClear(t)
    PROVE  SyncInv'
PROOF
<1> DEFINE g == net_arg[t]
<1>1. /\ net_pc[t] = "receive" /\ g \in Heights
      /\ net_pc' = [net_pc EXCEPT ![t] = "idle"] /\ net_arg' = [net_arg EXCEPT ![t] = NoTask]
      /\ pending_requests' = pending_requests \ {g}
      /\ UNCHANGED <<requested, received>>
    BY DEF ReceiveClear, NetReturn, NetGoto, history, SyncInv, SyncOK
<1>3. SyncOK'
    BY <1>1 DEF SyncInv, SyncOK, ListsOK
<1>4. RequestsAnswered'
    <2> SUFFICES ASSUME NEW h \in Heights
                 PROVE  requested'[h] + Cardinality(At("broadcast_request", h)')
                            + Cardinality(At("receive", h)') <= received'[h] + InPending(h)'
        BY DEF RequestsAnswered
    <2>1. t \notin At("broadcast_request", h) /\ (t \in At("receive", h) <=> h = g)
        BY <1>1 DEF At
    <2> HIDE DEF g
    <2>2. Cardinality(At("broadcast_request", h)') = Cardinality(At("broadcast_request", h))
          /\ Cardinality(At("broadcast_request", h)) \in Nat
        <3>1. At("broadcast_request", h)' = At("broadcast_request", h)
            BY <1>1, <2>1 DEF ListsOK, At, Tasks
        <3> QED
            BY <3>1, AtCount
    <2>3. /\ Cardinality(At("receive", h)) \in Nat
          /\ h = g => Cardinality(At("receive", h)') = Cardinality(At("receive", h)) - 1
          /\ h # g => Cardinality(At("receive", h)') = Cardinality(At("receive", h))
        <3>1. h = g => t \in At("receive", h) /\ At("receive", h)' = At("receive", h) \ {t}
            BY <1>1, <2>1 DEF ListsOK, At, Tasks, g
        <3>2. h # g => At("receive", h)' = At("receive", h)
            BY <1>1, <2>1 DEF ListsOK, At, Tasks, g
        <3> QED
            BY <3>1, <3>2, AtCount
    <2>4. /\ InPending(h) \in 0..1
          /\ h = g => InPending(h)' = 0
          /\ h # g => InPending(h)' = InPending(h)
        BY <1>1 DEF InPending
    <2>5. /\ received'[h] = received[h] /\ requested'[h] = requested[h]
          /\ requested[h] \in Nat /\ received[h] \in Nat
        BY <1>1 DEF SyncInv, SyncOK
    <2>6. requested[h] + Cardinality(At("broadcast_request", h)) + Cardinality(At("receive", h))
              <= received[h] + InPending(h)
        BY DEF SyncInv, RequestsAnswered
    <2> QED
        BY <2>2, <2>3, <2>4, <2>5, <2>6
<1> QED
    BY <1>3, <1>4 DEF SyncInv

\* The steps of the broadcaster, in the form OtherSync needs.
LEMMA BroadcasterSync ==
    ASSUME ListsOK, SyncInv, NEW t \in Tasks,
           QueueTransaction(t) \/ FlushCall(t) \/ FlushEmpty(t) \/ FlushTake(t)
               \/ \E success \in BOOLEAN : BroadcastBatch(t, success)
    PROVE  SyncInv'
PROOF
<1>1. /\ UNCHANGED <<requested, received, pending_requests>>
      /\ net_pc[t] \in {"idle", "queue", "flush", "broadcast_batch"}
    BY DEF QueueTransaction, FlushCall, FlushEmpty, FlushTake, BroadcastBatch, NetCall, sync, history
<1>2. PICK l \in {"idle", "flush", "broadcast_batch"} : net_pc' = [net_pc EXCEPT ![t] = l]
    BY DEF QueueTransaction, FlushCall, FlushEmpty, FlushTake, BroadcastBatch, NetCall, NetReturn, NetGoto
<1>3. pending_txs[InstanceOf(t)] \in Seq(NetTxs) /\ net_arg = [net_arg EXCEPT ![t] = net_arg[t]] /\ net_arg[t] \in Arguments
    BY TasksFacts DEF ListsOK
<1>4. net_arg' \in {[net_arg EXCEPT ![t] = NoTask], net_arg, [net_arg EXCEPT ![t] = pending_txs[InstanceOf(t)]]}
    BY DEF QueueTransaction, FlushCall, FlushEmpty, FlushTake, BroadcastBatch, NetCall, NetReturn
<1>5. PICK a \in Arguments : net_arg' = [net_arg EXCEPT ![t] = a]
    BY <1>3, <1>4 DEF Arguments
<1>6. l \in NetLocations \ {"broadcast_request", "receive"} /\ l # "request"
    BY DEF NetLocations
<1> QED
    BY <1>1, <1>2, <1>5, <1>6, OtherSync

LEMMA NextSync ==
    ASSUME ListsOK, SyncInv, [NetNext]_netVars
    PROVE  SyncInv'
PROOF
<1>1. ASSUME NEW t \in Callers, NEW tx \in NetTxs, QueueCall(t, tx) PROVE SyncInv'
    <2>1. /\ net_pc[t] = "idle" /\ net_pc' = [net_pc EXCEPT ![t] = "queue"] /\ net_arg' = [net_arg EXCEPT ![t] = tx]
          /\ UNCHANGED <<requested, received, pending_requests>> /\ t \in Tasks
        BY <1>1, TasksFacts DEF QueueCall, NetCall, sync
    <2>2. "queue" \in NetLocations \ {"broadcast_request", "receive"} /\ tx \in Arguments
        BY DEF NetLocations, Arguments
    <2> QED
        BY <2>1, <2>2, OtherSync
<1>2. ASSUME NEW t \in Callers, NEW h \in Heights, RequestBlock(t, h) PROVE SyncInv'
    <2>1. /\ net_pc[t] = "idle" /\ net_pc' = [net_pc EXCEPT ![t] = "request"] /\ net_arg' = [net_arg EXCEPT ![t] = h]
          /\ UNCHANGED <<requested, received, pending_requests>> /\ t \in Tasks
        BY <1>2, TasksFacts DEF RequestBlock, NetCall, sync, history
    <2>2. "request" \in NetLocations \ {"broadcast_request", "receive"} /\ h \in Arguments
        BY DEF NetLocations, Arguments
    <2> QED
        BY <2>1, <2>2, OtherSync
<1>3. ASSUME NEW t \in Callers, NEW h \in Heights, ReceiveBlock(t, h) PROVE SyncInv'
    BY <1>3, ReceiveBlockSync, TasksFacts
<1>4. CASE RunEventLoop \/ UNCHANGED netVars
    <2>1. UNCHANGED <<net_pc, net_arg, requested, received, pending_requests>>
        BY <1>4 DEF RunEventLoop, netVars, sync, history
    <2> QED
        BY <2>1 DEF SyncInv, SyncOK, RequestsAnswered, At, InPending
<1> QED
    BY <1>1, <1>2, <1>3, <1>4, BroadcasterSync, RequestInsertSync, BroadcastRequestSync, ReceiveClearSync
       DEF NetNext, NetStep

\* BlockSync sends a height's request again only after a block of that
\* height was received, however many callers ask for it at the same time.
THEOREM OneRequest == NetSpec => []RequestedOnce
PROOF
<1>1. ListsOK /\ SyncInv /\ [NetNext]_netVars => SyncInv'
    BY NextSync
<1>2. SyncInv => RequestedOnce
    <2> SUFFICES ASSUME SyncInv, NEW h \in Heights
                 PROVE  requested[h] + Cardinality(At("broadcast_request", h)) <= received[h] + 1
        BY DEF RequestedOnce
    <2>1. /\ requested[h] \in Nat /\ received[h] \in Nat /\ InPending(h) \in 0..1
          /\ Cardinality(At("broadcast_request", h)) \in Nat /\ Cardinality(At("receive", h)) \in Nat
        BY AtCount DEF SyncInv, SyncOK, InPending
    <2>2. requested[h] + Cardinality(At("broadcast_request", h)) + Cardinality(At("receive", h))
              <= received[h] + InPending(h)
        BY DEF SyncInv, RequestsAnswered
    <2> QED
        BY <2>1, <2>2
<1> QED
    BY <1>1, <1>2, SyncInit, ListsHold, PTL DEF NetSpec
=============================================================================
