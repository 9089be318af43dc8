------------------------------- MODULE Network -------------------------------
(***************************************************************************)
(* The sending side of the network layer (src/src/network/mod.rs): the     *)
(* batching TxBroadcaster, BlockSync and the swarm they share behind one   *)
(* lock.                                                                   *)
(*                                                                         *)
(* Threads call the broadcaster and the synchronizer; Timer is the task of *)
(* start_batch_timer, which flushes a clone of the broadcaster.  A call is *)
(* one action per lock it acquires.  parking_lot's locks are not           *)
(* reentrant.  libp2p is external: publish hands a message over or fails.  *)
(***************************************************************************)
EXTENDS Integers, Sequences, FiniteSets, SequencesExt, FiniteSetsExt

CONSTANTS
    Callers,      \* callers
    Timer,        \* the batch timer's task
    EventLoop,    \* the task of run_event_loop
    NetTxs,       \* transactions, each queued once
    Heights,      \* block heights asked for and received
    BatchSize,    \* batch_size
    MaxReceived,  \* bound: blocks received
    NoTask        \* no lock holder; no argument

ASSUME TasksAssumption ==
    /\ {Timer, EventLoop, NoTask} \cap Callers = {}
    /\ Timer # NoTask /\ EventLoop # NoTask /\ Timer # EventLoop
ASSUME FiniteAssumption == IsFiniteSet(Callers) /\ IsFiniteSet(Heights)
ASSUME BoundsAssumption == BatchSize \in Nat \ {0} /\ MaxReceived \in Nat

Tasks == Callers \cup {Timer}
Instances == {"broadcaster", "clone"}
NetLocations == {"idle", "queue", "flush", "broadcast_batch", "request", "broadcast_request", "receive"}

VARIABLES
    pending_txs,      \* Instances -> transactions waiting for a batch
    pending_lock,     \* Instances -> the task holding the write guard, or NoTask
    swarm,            \* the task holding the swarm's write guard, or NoTask
    known_blocks,     \* heights received
    pending_requests, \* heights asked for
    net_pc,           \* Tasks -> the lock the call waits for next, or "idle"
    net_arg,          \* Tasks -> what the call works on, or NoTask
    queued,           \* history: transactions given to queue_transaction
    published,        \* history: batches handed to gossipsub
    failed,           \* history: batches publish refused
    requested,        \* history: Heights -> requests broadcast or refused
    received          \* history: Heights -> blocks received

broadcaster == <<pending_txs, pending_lock>>
sync == <<known_blocks, pending_requests>>
history == <<queued, published, failed, requested, received>>
netVars == <<broadcaster, swarm, sync, net_pc, net_arg, history>>

NetInit ==
    /\ pending_txs = [i \in Instances |-> <<>>]
    /\ pending_lock = [i \in Instances |-> NoTask]
    /\ swarm = NoTask
    /\ known_blocks = {} /\ pending_requests = {}
    /\ net_pc = [t \in Tasks |-> "idle"]
    /\ net_arg = [t \in Tasks |-> NoTask]
    /\ queued = {} /\ published = {} /\ failed = {}
    /\ requested = [h \in Heights |-> 0] /\ received = [h \in Heights |-> 0]

\* The broadcaster a task works on: the timer's is a clone, made with an
\* empty list of its own.
InstanceOf(t) == IF t = Timer THEN "clone" ELSE "broadcaster"

NetCall(t, location, a) ==
    /\ net_pc[t] = "idle"
    /\ net_pc' = [net_pc EXCEPT ![t] = location]
    /\ net_arg' = [net_arg EXCEPT ![t] = a]

NetGoto(t, location) == net_pc' = [net_pc EXCEPT ![t] = location]

NetReturn(t) ==
    /\ NetGoto(t, "idle")
    /\ net_arg' = [net_arg EXCEPT ![t] = NoTask]

\* The guard a call of queue_transaction or flush holds ends with the call.
Release(t) == pending_lock' = [i \in Instances |-> IF pending_lock[i] = t THEN NoTask ELSE pending_lock[i]]

-----------------------------------------------------------------------------
(* TxBroadcaster                                                           *)

QueueCall(t, tx) ==
    /\ tx \notin queued
    /\ NetCall(t, "queue", tx)
    /\ queued' = queued \cup {tx}
    /\ UNCHANGED <<broadcaster, swarm, sync, published, failed, requested, received>>

\* pending is still locked when flush is called.
QueueTransaction(t) ==
    /\ net_pc[t] = "queue" /\ pending_lock["broadcaster"] = NoTask
    /\ LET pending == Append(pending_txs["broadcaster"], net_arg[t])
       IN  /\ pending_txs' = [pending_txs EXCEPT !["broadcaster"] = pending]
           /\ IF Len(pending) >= BatchSize
              THEN /\ pending_lock' = [pending_lock EXCEPT !["broadcaster"] = t]
                   /\ NetGoto(t, "flush") /\ UNCHANGED net_arg
              ELSE NetReturn(t) /\ UNCHANGED pending_lock
    /\ UNCHANGED <<swarm, sync, history>>

\* flush of a caller, or of the timer on its clone.
FlushCall(t) ==
    /\ NetCall(t, "flush", NoTask)
    /\ UNCHANGED <<broadcaster, swarm, sync, history>>

FlushEmpty(t) ==
    /\ net_pc[t] = "flush" /\ pending_lock[InstanceOf(t)] = NoTask
    /\ pending_txs[InstanceOf(t)] = <<>>
    /\ NetReturn(t)
    /\ UNCHANGED <<broadcaster, swarm, sync, history>>

MutFlushTake(t) == \* copies the batch instead of taking it
    /\ net_pc[t] = "flush" /\ pending_lock[InstanceOf(t)] = NoTask
    /\ pending_txs[InstanceOf(t)] # <<>>
    /\ net_arg' = [net_arg EXCEPT ![t] = pending_txs[InstanceOf(t)]]
    /\ pending_lock' = [pending_lock EXCEPT ![InstanceOf(t)] = t]
    /\ NetGoto(t, "broadcast_batch")
    /\ UNCHANGED <<pending_txs, swarm, sync, history>>

FlushTake(t) ==
    /\ net_pc[t] = "flush" /\ pending_lock[InstanceOf(t)] = NoTask
    /\ pending_txs[InstanceOf(t)] # <<>>
    /\ net_arg' = [net_arg EXCEPT ![t] = pending_txs[InstanceOf(t)]]
    /\ pending_txs' = [pending_txs EXCEPT ![InstanceOf(t)] = <<>>]
    /\ pending_lock' = [pending_lock EXCEPT ![InstanceOf(t)] = t]
    /\ NetGoto(t, "broadcast_batch")
    /\ UNCHANGED <<swarm, sync, history>>

MutBroadcastBatch(t, success) == \* an error leaves the guard behind
    /\ net_pc[t] = "broadcast_batch" /\ swarm = NoTask
    /\ IF success THEN published' = published \cup {net_arg[t]} /\ Release(t) /\ UNCHANGED failed
                  ELSE failed' = failed \cup {net_arg[t]} /\ UNCHANGED <<published, pending_lock>>
    /\ NetReturn(t)
    /\ UNCHANGED <<pending_txs, swarm, sync, queued, requested, received>>

\* broadcast of a batch; flush ignores the error.
BroadcastBatch(t, success) ==
    /\ net_pc[t] = "broadcast_batch" /\ swarm = NoTask
    /\ IF success THEN published' = published \cup {net_arg[t]} /\ UNCHANGED failed
                  ELSE failed' = failed \cup {net_arg[t]} /\ UNCHANGED published
    /\ Release(t) /\ NetReturn(t)
    /\ UNCHANGED <<pending_txs, swarm, sync, queued, requested, received>>

-----------------------------------------------------------------------------
(* BlockSync                                                               *)

\* request_block, up to its first statement, which returns if the block is
\* known.
RequestBlock(t, h) ==
    /\ h \notin known_blocks
    /\ NetCall(t, "request", h)
    /\ UNCHANGED <<broadcaster, swarm, sync, history>>

MutRequestInsert(t) == \* the result of insert is ignored
    /\ net_pc[t] = "request"
    /\ pending_requests' = pending_requests \cup {net_arg[t]}
    /\ NetGoto(t, "broadcast_request")
    /\ UNCHANGED <<broadcaster, swarm, known_blocks, net_arg, history>>

RequestInsert(t) ==
    /\ net_pc[t] = "request"
    /\ IF net_arg[t] \in pending_requests THEN NetReturn(t) /\ UNCHANGED pending_requests
       ELSE /\ pending_requests' = pending_requests \cup {net_arg[t]}
            /\ NetGoto(t, "broadcast_request") /\ UNCHANGED net_arg
    /\ UNCHANGED <<broadcaster, swarm, known_blocks, history>>

\* broadcast of a request, whether or not publish succeeds: an error is
\* returned to the caller and the request stays pending.
BroadcastRequest(t) ==
    /\ net_pc[t] = "broadcast_request" /\ swarm = NoTask
    /\ requested' = [requested EXCEPT ![net_arg[t]] = @ + 1]
    /\ NetReturn(t)
    /\ UNCHANGED <<broadcaster, swarm, sync, queued, published, failed, received>>

ReceiveBlock(t, h) ==
    /\ MapThenSumSet(LAMBDA x : received[x], Heights) < MaxReceived
    /\ NetCall(t, "receive", h)
    /\ known_blocks' = known_blocks \cup {h}
    /\ received' = [received EXCEPT ![h] = @ + 1]
    /\ UNCHANGED <<broadcaster, swarm, pending_requests, queued, published, failed, requested>>

ReceiveClear(t) ==
    /\ net_pc[t] = "receive"
    /\ pending_requests' = pending_requests \ {net_arg[t]}
    /\ NetReturn(t)
    /\ UNCHANGED <<broadcaster, swarm, known_blocks, history>>

-----------------------------------------------------------------------------
\* run_event_loop takes the swarm's lock and waits for events with it.
RunEventLoop ==
    /\ swarm = NoTask
    /\ swarm' = EventLoop
    /\ UNCHANGED <<broadcaster, sync, net_pc, net_arg, history>>

NetStep(t) ==
    \/ QueueTransaction(t)
    \/ FlushEmpty(t) \/ FlushTake(t) \/ \E success \in BOOLEAN : BroadcastBatch(t, success)
    \/ RequestInsert(t) \/ BroadcastRequest(t) \/ ReceiveClear(t)

NetNext ==
    \/ \E t \in Callers : \/ \E tx \in NetTxs : QueueCall(t, tx)
                          \/ \E h \in Heights : RequestBlock(t, h) \/ ReceiveBlock(t, h)
    \/ \E t \in Tasks : FlushCall(t) \/ NetStep(t)
    \/ RunEventLoop

NetSpec == NetInit /\ [][NetNext]_netVars

\* parking_lot hands a lock to a parked thread after a bounded time.
NetFairness == \A t \in Tasks : SF_netVars(NetStep(t))

NetFairSpec == NetSpec /\ NetFairness

-----------------------------------------------------------------------------
(* Properties                                                              *)

\* Type invariant: a waiting call has the argument it needs, and only the
\* broadcaster itself ever holds transactions.
NetTypeOK ==
    /\ pending_txs \in [Instances -> Seq(NetTxs)] /\ pending_txs["clone"] = <<>>
    /\ pending_lock \in [Instances -> Tasks \cup {NoTask}]
    /\ swarm \in {NoTask, EventLoop}
    /\ known_blocks \subseteq Heights /\ pending_requests \subseteq Heights
    /\ \A t \in Tasks :
        CASE net_pc[t] = "queue" -> net_arg[t] \in NetTxs
          [] net_pc[t] = "broadcast_batch" -> net_arg[t] \in Seq(NetTxs)
          [] net_pc[t] \in {"request", "broadcast_request", "receive"} -> net_arg[t] \in Heights
          [] OTHER -> net_pc[t] \in NetLocations
    /\ queued \subseteq NetTxs
    /\ published \subseteq Seq(NetTxs) /\ failed \subseteq Seq(NetTxs)
    /\ requested \in [Heights -> Nat] /\ received \in [Heights -> Nat]

\* The positions of tx in a list.
Positions(tx, list) == {n \in 1..Len(list) : list[n] = tx}

\* The calls about to queue tx, and those with a batch to send.
Queueing(tx) == {t \in Tasks : net_pc[t] = "queue" /\ net_arg[t] = tx}
Sending == {t \in Tasks : net_pc[t] = "broadcast_batch"}

\* Where tx is on its way out: about to be queued, waiting for a batch, in a
\* batch being sent, in one that was published, in one that publish refused.
Places(tx) ==
    {<<"queue", t, 1>> : t \in Queueing(tx)}
    \cup {<<"pending", NoTask, n>> : n \in Positions(tx, pending_txs["broadcaster"])}
    \cup (UNION {{<<"sending", t, n>> : n \in Positions(tx, net_arg[t])} : t \in Sending})
    \cup (UNION {{<<"published", b, n>> : n \in Positions(tx, b)} : b \in published})
    \cup (UNION {{<<"failed", b, n>> : n \in Positions(tx, b)} : b \in failed})

\* Every transaction given to queue_transaction is in exactly one place,
\* whoever queues and flushes at the same time and whatever publish refuses.
NothingLost == \A tx \in queued : \E p \in Places(tx) : Places(tx) = {p}

\* The calls at a location that work on height h.
At(location, h) == {t \in Tasks : net_pc[t] = location /\ net_arg[t] = h}

\* Callers that ask for a height at the same time send one request between
\* them: there are no more requests than blocks received for it, plus one.
RequestedOnce ==
    \A h \in Heights :
        requested[h] + Cardinality(At("broadcast_request", h)) <= received[h] + 1

\* A task waits for a list it has locked itself.
WaitsForItself == \E t \in Tasks : net_pc[t] = "flush" /\ pending_lock[InstanceOf(t)] = t

\* Every call returns, unless a batch was filled or the event loop runs.
SendersReturn ==
    \A t \in Tasks : net_pc[t] # "idle" ~> (net_pc[t] = "idle" \/ WaitsForItself \/ swarm = EventLoop)
=============================================================================
