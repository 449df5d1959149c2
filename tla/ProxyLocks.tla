------------------------------ MODULE ProxyLocks ------------------------------
(***************************************************************************)
(* The locks of the proxy daemon and the order they are taken in.          *)
(*                                                                         *)
(* An operation is the sequence of lock acquisitions and releases its code *)
(* goes through, calls included: With(l, body) is "with l: body".  Handler *)
(* threads and the watchers run operations one after another, and their    *)
(* steps interleave freely.  queue_condition and the pools' selection lock *)
(* may be taken again by the thread that has them; every other lock is a   *)
(* plain threading.Lock, on which such a thread waits for itself.          *)
(***************************************************************************)
EXTENDS Integers, Sequences

CONSTANTS
    Threads,    \* handler threads and watchers
    Failover    \* an exit of some onError node passes through a failover node

None == "none"

ASSUME ThreadsAssumption == None \notin Threads
ASSUME FailoverAssumption == Failover \in BOOLEAN

Locks == {"serving_lock", "pool_steps", "queue_condition", "lock", "config_lock", "active_controls_lock",
          "slot_total_lock", "output_health", "subscription_usage", "pool_snapshot", "state_write_lock",
          "log_lock"}
Reentrant == {"pool_steps", "queue_condition"}

VARIABLES
    todo,    \* what is left of the operation each thread is in
    owner,   \* the thread that has each lock
    depth    \* how many times the owner has taken it

vars == <<todo, owner, depth>>

-----------------------------------------------------------------------------
(* What the operations do with the locks.                                  *)

With(l, body) == <<[take |-> TRUE, lock |-> l]>> \o body \o <<[take |-> FALSE, lock |-> l]>>
Brief(l) == With(l, << >>)

CurrentConfig == Brief("config_lock")
AllActiveItems == Brief("lock")
QueueSnapshot == Brief("queue_condition")
ActiveCount == Brief("queue_condition") \o AllActiveItems
OutputHasCapacity == Brief("slot_total_lock") \o ActiveCount
WriteProxyEvent == AllActiveItems \o QueueSnapshot \o Brief("log_lock")

\* chain_exit: following an exit asks a failover node which output is free.
ChainExit == IF Failover THEN OutputHasCapacity ELSE << >>
OnErrorNextMap == ChainExit \o Brief("output_health")

\* Mutant: the snapshot waits for a choice in progress.
PoolSnapshotOfChoice == With("pool_steps", Brief("pool_snapshot"))

\* The choice is made under one lock and published under another, so that a
\* writer of the state never waits for a choice.
PoolSnapshot == Brief("pool_snapshot")
PoolPublish == Brief("pool_snapshot")

WriteState ==
    CurrentConfig \o Brief("slot_total_lock") \o Brief("output_health") \o OnErrorNextMap
        \o Brief("subscription_usage") \o PoolSnapshot \o Brief("state_write_lock")

\* add_active, update_active, add_recent.
UpdateActive == With("lock", WriteState)

\* Mutant: the queue's part is done with the items' lock still held.
FinishActiveNested == With("lock", WriteState \o With("queue_condition", CurrentConfig))

FinishActive == With("lock", WriteState) \o With("queue_condition", CurrentConfig)

\* The route of a request through the router's graph.
ApplyRouter == CurrentConfig \o OutputHasCapacity \o Brief("output_health")

\* One pass of wait_for_proxy_slot's loop, and the wait that follows it (the
\* condition is released and taken again).
QueuePass ==
    With("queue_condition", UpdateActive \o ActiveCount \o WriteProxyEvent)
        \o Brief("queue_condition") \o Brief("queue_condition")

\* choose_preemption_victim, append_stop_request, close_active_request and one
\* pass of the grace period.
Preempt ==
    AllActiveItems \o CurrentConfig \o WriteProxyEvent
        \o CurrentConfig \o WriteProxyEvent \o UpdateActive
        \o Brief("active_controls_lock") \o With("queue_condition", ActiveCount \o WriteProxyEvent)

\* The rows are judged under the selection lock; a local row asks for a free slot.
PoolResolve ==
    With("pool_steps",
         Brief("subscription_usage") \o CurrentConfig \o Brief("output_health") \o OutputHasCapacity
            \o PoolPublish)
        \o WriteProxyEvent

Forward ==
    Brief("active_controls_lock") \o UpdateActive \o Brief("subscription_usage") \o Brief("output_health")

Heartbeat == CurrentConfig \o Brief("active_controls_lock") \o Brief("slot_total_lock") \o WriteState

ReconcileListeners ==
    CurrentConfig \o Brief("serving_lock") \o ApplyRouter \o AllActiveItems \o WriteState

Operations ==
    {UpdateActive, FinishActive \o WriteProxyEvent, ApplyRouter, QueuePass, Preempt, PoolResolve, Forward,
     Heartbeat, ReconcileListeners}

-----------------------------------------------------------------------------
Init ==
    /\ todo = [t \in Threads |-> << >>]
    /\ owner = [l \in Locks |-> None]
    /\ depth = [l \in Locks |-> 0]

Begin(t, op) ==
    /\ todo[t] = << >>
    /\ todo' = [todo EXCEPT ![t] = op]
    /\ UNCHANGED <<owner, depth>>

Busy(t) == todo[t] # << >>
Now(t) == Head(todo[t])

CanTake(t, l) == owner[l] = None \/ (owner[l] = t /\ l \in Reentrant)

Acquire(t) ==
    /\ Busy(t)
    /\ Now(t).take
    /\ CanTake(t, Now(t).lock)
    /\ owner' = [owner EXCEPT ![Now(t).lock] = t]
    /\ depth' = [depth EXCEPT ![Now(t).lock] = @ + 1]
    /\ todo' = [todo EXCEPT ![t] = Tail(@)]

Release(t) ==
    /\ Busy(t)
    /\ ~Now(t).take
    /\ owner' = [owner EXCEPT ![Now(t).lock] = IF depth[Now(t).lock] = 1 THEN None ELSE @]
    /\ depth' = [depth EXCEPT ![Now(t).lock] = @ - 1]
    /\ todo' = [todo EXCEPT ![t] = Tail(@)]

Next ==
    \E t \in Threads :
        \/ \E op \in Operations : Begin(t, op)
        \/ Acquire(t)
        \/ Release(t)

Spec == Init /\ [][Next]_vars

-----------------------------------------------------------------------------
Blocked(t) == Busy(t) /\ Now(t).take /\ ~CanTake(t, Now(t).lock)

\* No threads wait for each other in a circle, and none waits for itself: state
\* export and request bookkeeping "cannot invert locks" (pool_steps.py:398).
NoCircularWait ==
    \A S \in (SUBSET Threads) \ {{}} :
        \E t \in S : ~(Blocked(t) /\ owner[Now(t).lock] \in S)

\* The one order in which the locks nest.
Rank(l) ==
    CASE l = "serving_lock" -> 0
      [] l = "pool_steps" -> 1
      [] l = "queue_condition" -> 2
      [] l = "lock" -> 3
      [] OTHER -> 4

\* A thread only asks for a lock that comes after all it has, unless it asks
\* for one again that may be taken again.
LockOrder ==
    \A t \in Threads :
        Busy(t) /\ Now(t).take =>
            LET l == Now(t).lock
                mine == {m \in Locks : owner[m] = t} IN
            \/ l \in mine \cap Reentrant
            \/ \A m \in mine : Rank(m) < Rank(l)
=============================================================================
