--------------------------- MODULE ProxyLocksProofs ---------------------------
(***************************************************************************)
(* Machine-checked proofs about ProxyLocks, for any number of threads.     *)
(*                                                                         *)
(* What a thread has is a count per lock.  An operation keeps the order    *)
(* when a thread that has the counts h may run it from its first event to  *)
(* its last, asking at each acquisition only for what the order allows     *)
(* (Passes).  That is shown of each operation from its parts, the way its  *)
(* code is put together; the invariant is that it holds of what is left of *)
(* every thread's operation.                                               *)
(***************************************************************************)
EXTENDS ProxyLocks, SequenceTheorems, TLAPS

Events == [take : BOOLEAN, lock : Locks]
Counts == [Locks -> Nat]
NoLocks == [l \in Locks |-> 0]
And(h, l) == [h EXCEPT ![l] = @ + 1]
Less(h, l) == [h EXCEPT ![l] = @ - 1]

\* A thread with the counts h may ask for l.
May(h, l) ==
    \/ l \in Reentrant /\ h[l] > 0
    \/ \A m \in Locks : h[m] > 0 => Rank(m) < Rank(l)

\* The event e leads from the counts h to the counts k, in order.
Event(e, h, k) ==
    IF e.take THEN May(h, e.lock) /\ k = And(h, e.lock)
              ELSE h[e.lock] > 0 /\ k = Less(h, e.lock)

\* The events of s lead from h to k, in order.
Trail(s, w) ==
    /\ w \in [1..(Len(s) + 1) -> Counts]
    /\ \A i \in 1..Len(s) : Event(s[i], w[i], w[i + 1])

Passes(s, h, k) ==
    /\ s \in Seq(Events)
    /\ \E w : Trail(s, w) /\ w[1] = h /\ w[Len(s) + 1] = k

\* What is run with the counts h ends with them.
Keeps(s, h) == Passes(s, h, h)

\* Every lock in h comes before rank n.
Below(h, n) == h \in Counts /\ \A m \in Locks : h[m] > 0 => Rank(m) < n

\* queue_condition may be asked for: nothing after it is held, and it is held
\* already or nothing of its rank is.
Calm(h) == Below(h, 3) /\ (h["queue_condition"] > 0 \/ Below(h, 2))

-----------------------------------------------------------------------------
(* Sequences of events.                                                    *)

\* Nothing to do leaves the counts as they are.
LEMMA PassesEmpty ==
    ASSUME NEW h \in Counts
    PROVE  Keeps(<< >>, h)
<1> DEFINE w == [i \in 1..1 |-> h]
<1>1. Trail(<< >>, w) /\ w[1] = h /\ w[Len(<< >>) + 1] = h
  BY DEF Trail
<1>2. QED
  BY <1>1 DEF Keeps, Passes

LEMMA EmptyPasses ==
    ASSUME NEW h, NEW k, Passes(<< >>, h, k)
    PROVE  h = k
BY DEF Passes

\* One event.
LEMMA PassesOne ==
    ASSUME NEW e \in Events, NEW h \in Counts, NEW k \in Counts, Event(e, h, k)
    PROVE  Passes(<<e>>, h, k)
<1> DEFINE w == [i \in 1..2 |-> IF i = 1 THEN h ELSE k]
<1>1. Len(<<e>>) = 1 /\ <<e>>[1] = e /\ <<e>> \in Seq(Events)
  OBVIOUS
<1>2. Trail(<<e>>, w) /\ w[1] = h /\ w[2] = k
  BY <1>1 DEF Trail
<1>3. QED
  BY <1>1, <1>2 DEF Passes

\* One sequence after another.
LEMMA PassesConcat ==
    ASSUME NEW s, NEW t, NEW h, NEW m, NEW k, Passes(s, h, m), Passes(t, m, k)
    PROVE  Passes(s \o t, h, k)
<1> DEFINE n == Len(s)
           p == Len(t)
<1>1. PICK v : Trail(s, v) /\ v[1] = h /\ v[n + 1] = m
  BY DEF Passes
<1>2. PICK u : Trail(t, u) /\ u[1] = m /\ u[p + 1] = k
  BY DEF Passes
<1>3. s \in Seq(Events) /\ t \in Seq(Events) /\ n \in Nat /\ p \in Nat
  BY DEF Passes
<1>4. /\ s \o t \in Seq(Events) /\ Len(s \o t) = n + p
      /\ \A i \in 1..(n + p) : (s \o t)[i] = IF i <= n THEN s[i] ELSE t[i - n]
  BY <1>3
<1> DEFINE w == [i \in 1..(n + p + 1) |-> IF i <= n THEN v[i] ELSE u[i - n]]
<1>5. w \in [1..(n + p + 1) -> Counts]
  <2> SUFFICES ASSUME NEW i \in 1..(n + p + 1) PROVE w[i] \in Counts
    OBVIOUS
  <2>1. CASE i <= n
    <3>1. i \in 1..(n + 1)
      BY <1>3, <2>1
    <3>2. QED
      BY <1>1, <2>1, <3>1 DEF Trail
  <2>2. CASE ~(i <= n)
    <3>1. i - n \in 1..(p + 1)
      BY <1>3, <2>2
    <3>2. QED
      BY <1>2, <2>2, <3>1 DEF Trail
  <2>3. QED
    BY <2>1, <2>2
<1>6. ASSUME NEW i \in 1..(n + p) PROVE Event((s \o t)[i], w[i], w[i + 1])
  <2>1. CASE i < n
    <3>1. i \in 1..n /\ w[i] = v[i] /\ w[i + 1] = v[i + 1] /\ (s \o t)[i] = s[i]
      BY <1>3, <1>4, <2>1
    <3>2. QED
      BY <1>1, <3>1 DEF Trail
  <2>2. CASE i = n
    <3>1. i \in 1..n /\ w[i] = v[i] /\ w[i + 1] = v[i + 1] /\ (s \o t)[i] = s[i]
      BY <1>1, <1>2, <1>3, <1>4, <2>2
    <3>2. QED
      BY <1>1, <3>1 DEF Trail
  <2>3. CASE i > n
    <3>1. /\ i - n \in 1..p /\ w[i] = u[i - n] /\ w[i + 1] = u[(i - n) + 1]
          /\ (s \o t)[i] = t[i - n]
      BY <1>3, <1>4, <2>3
    <3>2. QED
      BY <1>2, <3>1 DEF Trail
  <2>4. QED
    BY <1>3, <2>1, <2>2, <2>3
<1>7. w[1] = h /\ w[n + p + 1] = k
  BY <1>1, <1>2, <1>3
<1>8. QED
  BY <1>4, <1>5, <1>6, <1>7 DEF Passes, Trail

\* The first event, and what is left after it.
LEMMA PassesStep ==
    ASSUME NEW s, NEW h, NEW k, Passes(s, h, k), s # << >>
    PROVE  /\ Head(s) \in Events /\ h \in Counts
           /\ \E m \in Counts : Event(Head(s), h, m) /\ Passes(Tail(s), m, k)
<1> DEFINE n == Len(s)
<1>1. PICK w : Trail(s, w) /\ w[1] = h /\ w[n + 1] = k
  BY DEF Passes
<1>2. /\ s \in Seq(Events) /\ n \in Nat \ {0} /\ Head(s) = s[1] /\ Head(s) \in Events
      /\ Tail(s) \in Seq(Events) /\ Len(Tail(s)) = n - 1
      /\ \A i \in 1..(n - 1) : Tail(s)[i] = s[i + 1]
  BY DEF Passes
<1> DEFINE u == [i \in 1..n |-> w[i + 1]]
<1>3. /\ h \in Counts /\ w[2] \in Counts /\ Event(Head(s), h, w[2])
      /\ u \in [1..n -> Counts] /\ u[1] = w[2] /\ u[n] = k
  BY <1>1, <1>2 DEF Trail
<1>4. ASSUME NEW i \in 1..(n - 1) PROVE Event(Tail(s)[i], u[i], u[i + 1])
  <2>1. i + 1 \in 1..n /\ u[i] = w[i + 1] /\ u[i + 1] = w[(i + 1) + 1] /\ Tail(s)[i] = s[i + 1]
    BY <1>2
  <2>2. QED
    BY <1>1, <2>1 DEF Trail
<1>5. Passes(Tail(s), w[2], k)
  <2>1. Trail(Tail(s), u)
    <3>1. Len(Tail(s)) + 1 = n
      BY <1>2
    <3>2. QED
      BY <1>2, <1>3, <1>4, <3>1 DEF Trail
  <2>2. u[1] = w[2] /\ u[Len(Tail(s)) + 1] = k
    BY <1>2, <1>3
  <2>3. QED
    BY <1>2, <2>1, <2>2 DEF Passes
<1>6. QED
  BY <1>2, <1>3, <1>5

-----------------------------------------------------------------------------
(* The operations.                                                         *)

LEMMA Ranks ==
    /\ Rank("serving_lock") = 0 /\ Rank("pool_steps") = 1
    /\ Rank("queue_condition") = 2 /\ Rank("lock") = 3
    /\ \A l \in Locks : Rank(l) \in 0..4
    /\ \A l \in {"config_lock", "active_controls_lock", "slot_total_lock", "output_health",
                 "subscription_usage", "pool_snapshot", "state_write_lock", "log_lock"} :
           l \in Locks /\ Rank(l) = 4
BY DEF Rank, Locks

\* "with l: body" keeps the counts when l may be asked for and the body keeps
\* them with l.
LEMMA KeepsWith ==
    ASSUME NEW l \in Locks, NEW body, NEW h \in Counts,
           May(h, l), Keeps(body, And(h, l))
    PROVE  Keeps(With(l, body), h)
<1> DEFINE take == [take |-> TRUE, lock |-> l]
           give == [take |-> FALSE, lock |-> l]
<1>1. take \in Events /\ give \in Events /\ And(h, l) \in Counts
  BY DEF Events, And, Counts
<1>2. Event(take, h, And(h, l))
  BY DEF Event
<1>3. Event(give, And(h, l), h)
  <2>1. /\ And(h, l)[l] = h[l] + 1 /\ h[l] \in Nat
        /\ Less(And(h, l), l) \in [Locks -> Int] /\ h \in [Locks -> Int]
        /\ \A m \in Locks : Less(And(h, l), l)[m] = h[m]
    BY DEF And, Less, Counts
  <2>2. Less(And(h, l), l) = h
    BY <2>1
  <2>3. QED
    BY <2>1, <2>2 DEF Event
<1>4. Passes(<<take>>, h, And(h, l)) /\ Passes(<<give>>, And(h, l), h)
  BY <1>1, <1>2, <1>3, PassesOne
<1>5. Passes(<<take>> \o body, h, And(h, l))
  BY <1>4, PassesConcat DEF Keeps
<1>6. QED
  BY <1>4, <1>5, PassesConcat DEF Keeps, With

LEMMA KeepsBrief ==
    ASSUME NEW l \in Locks, NEW h \in Counts, May(h, l)
    PROVE  Keeps(Brief(l), h)
<1>1. And(h, l) \in Counts
  BY DEF And, Counts
<1>2. QED
  BY <1>1, PassesEmpty, KeepsWith DEF Brief

LEMMA KeepsConcat ==
    ASSUME NEW s, NEW t, NEW h, Keeps(s, h), Keeps(t, h)
    PROVE  Keeps(s \o t, h)
BY PassesConcat DEF Keeps

\* A lock of rank n or more may be asked for by a thread whose locks come
\* before rank n, and the thread's locks then come before any later rank.
LEMMA BelowMay ==
    ASSUME NEW h, NEW n \in 0..5, NEW l \in Locks, Below(h, n), Rank(l) >= n
    PROVE  May(h, l)
BY Ranks DEF Below, May

LEMMA BelowAnd ==
    ASSUME NEW h, NEW n \in 0..5, NEW k \in 0..5, NEW l \in Locks, Below(h, n), n <= k, Rank(l) < k
    PROVE  Below(And(h, l), k) /\ And(h, l)[l] > 0
BY Ranks DEF Below, And, Counts

LEMMA NoLocksBelow == NoLocks \in Counts /\ \A n \in 0..5 : Below(NoLocks, n)
BY DEF Below, NoLocks, Counts

LEMMA BelowLess ==
    ASSUME NEW h, NEW n \in 0..5, NEW k \in 0..5, Below(h, n), n <= k
    PROVE  Below(h, k)
BY Ranks DEF Below

\* The locks that nothing is taken under.
LEMMA KeepsLeaves ==
    ASSUME NEW h, Below(h, 4)
    PROVE  \A l \in {"config_lock", "active_controls_lock", "slot_total_lock", "output_health",
                    "subscription_usage", "pool_snapshot", "state_write_lock", "log_lock"} :
               Keeps(Brief(l), h)
BY Ranks, BelowMay, KeepsBrief DEF Below

LEMMA KeepsWriteState ==
    ASSUME ~Failover, NEW h, Below(h, 4)
    PROVE  Keeps(WriteState, h)
<1>1. h \in Counts
  BY DEF Below
<1>2. Keeps(OnErrorNextMap, h)
  BY <1>1, KeepsLeaves, PassesEmpty, KeepsConcat DEF OnErrorNextMap, ChainExit
<1>3. Keeps(CurrentConfig \o Brief("slot_total_lock"), h)
  BY KeepsLeaves, KeepsConcat DEF CurrentConfig
<1>4. Keeps(CurrentConfig \o Brief("slot_total_lock") \o Brief("output_health"), h)
  BY <1>3, KeepsLeaves, KeepsConcat
<1>5. Keeps(CurrentConfig \o Brief("slot_total_lock") \o Brief("output_health") \o OnErrorNextMap, h)
  BY <1>2, <1>4, KeepsConcat
<1>6. Keeps(CurrentConfig \o Brief("slot_total_lock") \o Brief("output_health") \o OnErrorNextMap
               \o Brief("subscription_usage"), h)
  BY <1>5, KeepsLeaves, KeepsConcat
<1>7. Keeps(CurrentConfig \o Brief("slot_total_lock") \o Brief("output_health") \o OnErrorNextMap
               \o Brief("subscription_usage") \o PoolSnapshot, h)
  BY <1>6, KeepsLeaves, KeepsConcat DEF PoolSnapshot
<1>8. QED
  BY <1>7, KeepsLeaves, KeepsConcat DEF WriteState

LEMMA KeepsItems ==
    ASSUME ~Failover, NEW h, Below(h, 3)
    PROVE  Keeps(AllActiveItems, h) /\ Keeps(UpdateActive, h)
<1>1. "lock" \in Locks /\ h \in Counts
  BY DEF Locks, Below
<1>2. May(h, "lock") /\ Below(And(h, "lock"), 4)
  BY <1>1, Ranks, BelowMay, BelowAnd
<1>3. Keeps(AllActiveItems, h)
  BY <1>1, <1>2, KeepsBrief DEF AllActiveItems
<1>4. Keeps(UpdateActive, h)
  BY <1>1, <1>2, KeepsWriteState, KeepsWith DEF UpdateActive
<1>5. QED
  BY <1>3, <1>4

\* What asks for queue_condition, then for lock.
LEMMA KeepsQueue ==
    ASSUME ~Failover, NEW h, Calm(h)
    PROVE  /\ Keeps(QueueSnapshot, h) /\ Keeps(ActiveCount, h)
           /\ Keeps(OutputHasCapacity, h) /\ Keeps(WriteProxyEvent, h)
<1>1. "queue_condition" \in Locks /\ h \in Counts /\ Below(h, 3) /\ Below(h, 4)
  BY BelowLess DEF Locks, Below, Calm
<1>2. May(h, "queue_condition")
  <2>1. CASE h["queue_condition"] > 0
    BY <2>1 DEF May, Reentrant
  <2>2. CASE Below(h, 2)
    BY <1>1, <2>2, Ranks, BelowMay
  <2>3. QED
    BY <2>1, <2>2 DEF Calm
<1>3. Keeps(Brief("queue_condition"), h)
  BY <1>1, <1>2, KeepsBrief
<1>4. Keeps(ActiveCount, h)
  BY <1>1, <1>3, KeepsItems, KeepsConcat DEF ActiveCount
<1>5. Keeps(OutputHasCapacity, h)
  BY <1>1, <1>4, KeepsLeaves, KeepsConcat DEF OutputHasCapacity
<1>6. Keeps(AllActiveItems \o QueueSnapshot, h)
  BY <1>1, <1>3, KeepsItems, KeepsConcat DEF QueueSnapshot
<1>7. Keeps(WriteProxyEvent, h)
  BY <1>1, <1>6, KeepsLeaves, KeepsConcat DEF WriteProxyEvent
<1>8. QED
  BY <1>3, <1>4, <1>5, <1>7 DEF QueueSnapshot

\* Every operation, run by a thread that has no lock.
LEMMA OperationsKeep ==
    ASSUME ~Failover, NEW op \in Operations
    PROVE  Keeps(op, NoLocks)
<1> DEFINE h == NoLocks
<1>1. h \in Counts /\ Below(h, 2) /\ Below(h, 3) /\ Below(h, 4) /\ Calm(h)
  BY NoLocksBelow DEF Calm
<1>2. /\ Keeps(CurrentConfig, h) /\ Keeps(Brief("output_health"), h)
      /\ Keeps(Brief("subscription_usage"), h) /\ Keeps(Brief("active_controls_lock"), h)
      /\ Keeps(Brief("slot_total_lock"), h)
  BY <1>1, KeepsLeaves DEF CurrentConfig
<1>3. Keeps(AllActiveItems, h) /\ Keeps(UpdateActive, h) /\ Keeps(WriteState, h)
  BY <1>1, KeepsItems, KeepsWriteState
<1>4. Keeps(OutputHasCapacity, h) /\ Keeps(WriteProxyEvent, h) /\ Keeps(QueueSnapshot, h)
  BY <1>1, KeepsQueue
<1>5. "queue_condition" \in Locks /\ "pool_steps" \in Locks /\ "serving_lock" \in Locks
  BY DEF Locks
<1>6. May(h, "queue_condition") /\ May(h, "pool_steps") /\ May(h, "serving_lock")
  BY <1>5, NoLocksBelow, BelowMay, Ranks
<1> DEFINE q == And(h, "queue_condition")
           s == And(h, "pool_steps")
<1>7. Below(q, 3) /\ Below(q, 4) /\ Calm(q)
  BY <1>1, <1>5, BelowAnd, BelowLess, Ranks DEF Calm
<1>8. Below(s, 2) /\ Below(s, 3) /\ Below(s, 4) /\ Calm(s)
  BY <1>1, <1>5, BelowAnd, BelowLess, Ranks DEF Calm
<1>9. Keeps(FinishActive \o WriteProxyEvent, h)
  <2>1. Keeps(CurrentConfig, q)
    BY <1>7, KeepsLeaves DEF CurrentConfig
  <2>2. Keeps(With("queue_condition", CurrentConfig), h)
    BY <1>1, <1>5, <1>6, <2>1, KeepsWith
  <2>3. QED
    BY <1>3, <1>4, <2>2, KeepsConcat DEF FinishActive, UpdateActive
<1>10. Keeps(ApplyRouter, h)
  BY <1>2, <1>4, KeepsConcat DEF ApplyRouter
<1>11. Keeps(QueuePass, h)
  <2>1. Keeps(UpdateActive \o ActiveCount \o WriteProxyEvent, q)
    BY <1>7, KeepsItems, KeepsQueue, KeepsConcat
  <2>2. Keeps(With("queue_condition", UpdateActive \o ActiveCount \o WriteProxyEvent), h)
    BY <1>1, <1>5, <1>6, <2>1, KeepsWith
  <2>3. QED
    BY <1>4, <2>2, KeepsConcat DEF QueuePass, QueueSnapshot
<1>12. Keeps(Preempt, h)
  <2>1. Keeps(ActiveCount \o WriteProxyEvent, q)
    BY <1>7, KeepsQueue, KeepsConcat
  <2>2. Keeps(With("queue_condition", ActiveCount \o WriteProxyEvent), h)
    BY <1>1, <1>5, <1>6, <2>1, KeepsWith
  <2>3. Keeps(AllActiveItems \o CurrentConfig \o WriteProxyEvent, h)
    BY <1>2, <1>3, <1>4, KeepsConcat
  <2>4. Keeps(AllActiveItems \o CurrentConfig \o WriteProxyEvent \o CurrentConfig, h)
    BY <1>2, <2>3, KeepsConcat
  <2>5. Keeps(AllActiveItems \o CurrentConfig \o WriteProxyEvent \o CurrentConfig
                 \o WriteProxyEvent, h)
    BY <1>4, <2>4, KeepsConcat
  <2>6. Keeps(AllActiveItems \o CurrentConfig \o WriteProxyEvent \o CurrentConfig
                 \o WriteProxyEvent \o UpdateActive, h)
    BY <1>3, <2>5, KeepsConcat
  <2>7. Keeps(AllActiveItems \o CurrentConfig \o WriteProxyEvent \o CurrentConfig
                 \o WriteProxyEvent \o UpdateActive \o Brief("active_controls_lock"), h)
    BY <1>2, <2>6, KeepsConcat
  <2>8. QED
    BY <2>2, <2>7, KeepsConcat DEF Preempt
<1>13. Keeps(PoolResolve, h)
  <2>1. /\ Keeps(Brief("subscription_usage"), s) /\ Keeps(CurrentConfig, s)
        /\ Keeps(Brief("output_health"), s) /\ Keeps(OutputHasCapacity, s)
        /\ Keeps(PoolPublish, s)
    BY <1>8, KeepsLeaves, KeepsQueue DEF CurrentConfig, PoolPublish
  <2>2. Keeps(Brief("subscription_usage") \o CurrentConfig \o Brief("output_health"), s)
    BY <2>1, KeepsConcat
  <2>3. Keeps(Brief("subscription_usage") \o CurrentConfig \o Brief("output_health")
                 \o OutputHasCapacity \o PoolPublish, s)
    BY <2>1, <2>2, KeepsConcat
  <2>4. QED
    BY <1>1, <1>4, <1>5, <1>6, <2>3, KeepsWith, KeepsConcat DEF PoolResolve
<1>14. Keeps(Forward, h)
  <2>1. Keeps(Brief("active_controls_lock") \o UpdateActive, h)
    BY <1>2, <1>3, KeepsConcat
  <2>2. Keeps(Brief("active_controls_lock") \o UpdateActive \o Brief("subscription_usage"), h)
    BY <1>2, <2>1, KeepsConcat
  <2>3. QED
    BY <1>2, <2>2, KeepsConcat DEF Forward
<1>15. Keeps(Heartbeat, h)
  <2>1. Keeps(CurrentConfig \o Brief("active_controls_lock"), h)
    BY <1>2, KeepsConcat
  <2>2. Keeps(CurrentConfig \o Brief("active_controls_lock") \o Brief("slot_total_lock"), h)
    BY <1>2, <2>1, KeepsConcat
  <2>3. QED
    BY <1>3, <2>2, KeepsConcat DEF Heartbeat
<1>16. Keeps(ReconcileListeners, h)
  <2>1. Keeps(CurrentConfig \o Brief("serving_lock"), h)
    BY <1>1, <1>2, <1>5, <1>6, KeepsBrief, KeepsConcat
  <2>2. Keeps(CurrentConfig \o Brief("serving_lock") \o ApplyRouter, h)
    BY <1>10, <2>1, KeepsConcat
  <2>3. Keeps(CurrentConfig \o Brief("serving_lock") \o ApplyRouter \o AllActiveItems, h)
    BY <1>3, <2>2, KeepsConcat
  <2>4. QED
    BY <1>3, <2>3, KeepsConcat DEF ReconcileListeners
<1>17. QED
  BY <1>3, <1>9, <1>10, <1>11, <1>12, <1>13, <1>14, <1>15, <1>16 DEF Operations

-----------------------------------------------------------------------------
(* The threads.                                                            *)

\* How often t has taken each lock.
Mine(t) == [l \in Locks |-> IF owner[l] = t THEN depth[l] ELSE 0]

\* A lock is free exactly when nobody has taken it.
LocksType ==
    /\ todo \in [Threads -> Seq(Events)]
    /\ owner \in [Locks -> Threads \cup {None}]
    /\ depth \in [Locks -> Nat]
    /\ \A l \in Locks : owner[l] = None <=> depth[l] = 0

\* What is left of every thread's operation takes its locks in order and gives
\* back all that the thread has.
InOrder == \A t \in Threads : Passes(todo[t], Mine(t), NoLocks)

\* The inductive invariant.
LocksInv == LocksType /\ InOrder

LEMMA InitLocks == Init => LocksInv
<1> SUFFICES ASSUME Init PROVE LocksInv
  OBVIOUS
<1>1. LocksType
  BY ThreadsAssumption DEF Init, LocksType
<1>2. ASSUME NEW t \in Threads PROVE Passes(todo[t], Mine(t), NoLocks)
  <2>1. Mine(t) = NoLocks /\ todo[t] = << >>
    BY DEF Init, Mine, NoLocks
  <2>2. QED
    BY <2>1, NoLocksBelow, PassesEmpty DEF Keeps
<1>3. QED
  BY <1>1, <1>2 DEF LocksInv, InOrder

LEMMA BeginLocks ==
    ASSUME ~Failover, LocksInv, NEW t \in Threads, NEW op \in Operations, Begin(t, op)
    PROVE  LocksInv'
<1>1. Passes(op, NoLocks, NoLocks)
  BY OperationsKeep DEF Keeps
<1>2. Mine(t) = NoLocks
  BY EmptyPasses DEF Begin, LocksInv, InOrder
<1>3. \A u \in Threads : Mine(u)' = Mine(u)
  BY DEF Begin, Mine
<1>4. ASSUME NEW u \in Threads PROVE Passes(todo[u], Mine(u), NoLocks)'
  <2>1. Passes(todo'[u], Mine(u), NoLocks)
    BY <1>1, <1>2 DEF Begin, LocksInv, InOrder, LocksType
  <2>2. QED
    BY <1>3, <2>1 DEF Passes
<1>5. LocksType'
  BY <1>1 DEF Begin, LocksInv, LocksType, Passes
<1>6. QED
  BY <1>4, <1>5 DEF LocksInv, InOrder

\* The next event of t, and what t has before and after it.
LEMMA NowPasses ==
    ASSUME LocksInv, NEW t \in Threads, Busy(t)
    PROVE  /\ Now(t) \in Events /\ Mine(t) \in Counts
           /\ \E m \in Counts : Event(Now(t), Mine(t), m) /\ Passes(Tail(todo[t]), m, NoLocks)
BY PassesStep DEF LocksInv, InOrder, Busy, Now

LEMMA EventLocks ==
    ASSUME LocksInv, NEW t \in Threads, Acquire(t) \/ Release(t)
    PROVE  LocksInv'
<1> DEFINE l == Now(t).lock
<1>1. Busy(t)
  BY DEF Acquire, Release
<1>2. PICK m \in Counts : Event(Now(t), Mine(t), m) /\ Passes(Tail(todo[t]), m, NoLocks)
  BY <1>1, NowPasses
<1>3. Now(t) \in Events /\ l \in Locks
  BY <1>1, NowPasses DEF Events
<1>4. todo' = [todo EXCEPT ![t] = Tail(todo[t])] /\ Tail(todo[t]) \in Seq(Events)
  BY <1>2 DEF Acquire, Release, Passes
<1>5. /\ LocksType'
      /\ Mine(t)' = m
      /\ \A u \in Threads \ {t} : Mine(u)' = Mine(u)
  <2> USE ThreadsAssumption
  <2>1. CASE Acquire(t)
    <3>1. /\ m = And(Mine(t), l) /\ CanTake(t, l)
          /\ owner' = [owner EXCEPT ![l] = t] /\ depth' = [depth EXCEPT ![l] = @ + 1]
      BY <1>2, <2>1 DEF Acquire, Event
    <3>2. depth[l] \in Nat /\ (owner[l] = t \/ (owner[l] = None /\ depth[l] = 0))
      BY <1>3, <3>1 DEF CanTake, LocksInv, LocksType
    <3>3. LocksType'
      BY <1>3, <1>4, <3>1, <3>2 DEF LocksInv, LocksType
    <3>4. Mine(t)' = m
      BY <1>3, <3>1, <3>2 DEF Mine, And, LocksInv, LocksType
    <3>5. \A u \in Threads \ {t} : Mine(u)' = Mine(u)
      BY <1>3, <3>1, <3>2 DEF Mine, LocksInv, LocksType
    <3>6. QED
      BY <3>3, <3>4, <3>5
  <2>2. CASE Release(t)
    <3>1. /\ m = Less(Mine(t), l) /\ Mine(t)[l] > 0
          /\ owner' = [owner EXCEPT ![l] = IF depth[l] = 1 THEN None ELSE @]
          /\ depth' = [depth EXCEPT ![l] = @ - 1]
      BY <1>2, <2>2 DEF Release, Event
    <3>2. owner[l] = t /\ depth[l] \in Nat /\ depth[l] > 0
      BY <1>3, <3>1 DEF Mine, LocksInv, LocksType
    <3>3. LocksType'
      BY <1>3, <1>4, <3>1, <3>2 DEF LocksInv, LocksType
    <3>4. Mine(t)' = m
      BY <1>3, <3>1, <3>2 DEF Mine, Less, LocksInv, LocksType
    <3>5. \A u \in Threads \ {t} : Mine(u)' = Mine(u)
      BY <1>3, <3>1, <3>2 DEF Mine, LocksInv, LocksType
    <3>6. QED
      BY <3>3, <3>4, <3>5
  <2>3. QED
    BY <2>1, <2>2
<1>6. ASSUME NEW u \in Threads PROVE Passes(todo[u], Mine(u), NoLocks)'
  <2>1. todo'[u] = IF u = t THEN Tail(todo[t]) ELSE todo[u]
    BY <1>4 DEF LocksInv, LocksType
  <2>2. Passes(todo'[u], Mine(u)', NoLocks)
    BY <1>2, <1>5, <2>1 DEF LocksInv, InOrder
  <2>3. QED
    BY <2>2 DEF Passes
<1>7. QED
  BY <1>5, <1>6 DEF LocksInv, InOrder

\* As long as no exit of an onError node passes through a failover node, what is
\* left of every thread's operation takes its locks in the one order.
THEOREM LocksInvariant == ASSUME ~Failover PROVE Spec => []LocksInv
<1>1. LocksInv /\ [Next]_vars => LocksInv'
  <2> SUFFICES ASSUME LocksInv, [Next]_vars PROVE LocksInv'
    OBVIOUS
  <2>1. CASE UNCHANGED vars
    BY <2>1 DEF vars, LocksInv, LocksType, InOrder, Mine
  <2>2. QED
    BY <2>1, BeginLocks, EventLocks DEF Next
<1>2. QED
  BY <1>1, InitLocks, PTL DEF Spec

\* In such a configuration no thread of any number of threads ever asks for a
\* lock out of order (PoolResolve, QueuePass, UpdateActive and the others).
THEOREM LocksOrdered == ASSUME ~Failover PROVE Spec => []LockOrder
<1>1. LocksInv => LockOrder
  <2> SUFFICES ASSUME LocksInv, NEW t \in Threads, Busy(t), Now(t).take
               PROVE  \/ owner[Now(t).lock] = t /\ Now(t).lock \in Locks \cap Reentrant
                      \/ \A m \in Locks : owner[m] = t => Rank(m) < Rank(Now(t).lock)
    BY DEF LockOrder
  <2>1. Now(t).lock \in Locks /\ May(Mine(t), Now(t).lock)
    BY NowPasses DEF Event, Events
  <2>2. \A m \in Locks : owner[m] = t => Mine(t)[m] > 0
    BY ThreadsAssumption DEF Mine, LocksInv, LocksType
  <2>3. \A m \in Locks : Mine(t)[m] > 0 => owner[m] = t
    BY DEF Mine
  <2>4. QED
    BY <2>1, <2>2, <2>3 DEF May
<1>2. QED
  BY <1>1, LocksInvariant, PTL

\* And so no threads, of any number of them, wait for each other in a circle
\* (pool_steps.py:398): of a set of threads each of which waits for one of them,
\* the one that asks for the lock of the highest rank waits for nobody's.
THEOREM NoDeadlock == ASSUME ~Failover PROVE Spec => []NoCircularWait
<1>1. LocksInv /\ LockOrder => NoCircularWait
  <2> SUFFICES ASSUME LocksInv, LockOrder, NEW S \in SUBSET Threads, S # {},
                      \A t \in S : Blocked(t) /\ owner[Now(t).lock] \in S
               PROVE  FALSE
    BY DEF NoCircularWait
  <2> DEFINE want(t) == Rank(Now(t).lock)
  <2>1. \A t \in S : Now(t).lock \in Locks /\ want(t) \in 0..4
    BY NowPasses, Ranks DEF Blocked, Events
  <2>2. PICK t \in S : \A u \in S : want(u) <= want(t)
    <3> HIDE DEF want
    <3>1. CASE \E t \in S : want(t) = 4
      BY <2>1, <3>1
    <3>2. CASE (\A t \in S : want(t) < 4) /\ \E t \in S : want(t) = 3
      BY <2>1, <3>2
    <3>3. CASE (\A t \in S : want(t) < 3) /\ \E t \in S : want(t) = 2
      BY <2>1, <3>3
    <3>4. CASE (\A t \in S : want(t) < 2) /\ \E t \in S : want(t) = 1
      BY <2>1, <3>4
    <3>5. CASE \A t \in S : want(t) < 1
      BY <2>1, <3>5
    <3>6. QED
      BY <2>1, <3>1, <3>2, <3>3, <3>4, <3>5
  <2>3. PICK u \in S : owner[Now(t).lock] = u /\ Blocked(u)
    OBVIOUS
  <2>4. Busy(u) /\ Now(u).take /\ ~CanTake(u, Now(u).lock)
    BY <2>3 DEF Blocked
  <2>5. \A m \in Locks : owner[m] = u => Rank(m) < Rank(Now(u).lock)
    BY <2>4 DEF LockOrder, CanTake
  <2>6. want(t) < want(u)
    BY <2>1, <2>3, <2>5
  <2>7. QED
    BY <2>1, <2>2, <2>6
<1>2. QED
  BY <1>1, LocksInvariant, LocksOrdered, PTL
=============================================================================
