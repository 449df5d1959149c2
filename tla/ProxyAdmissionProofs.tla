------------------------- MODULE ProxyAdmissionProofs -------------------------
(***************************************************************************)
(* Machine-checked proofs about ProxyAdmission, for every set of requests, *)
(* ports and groups and every policy the assumptions allow.                *)
(***************************************************************************)
EXTENDS ProxyAdmission, FiniteSetTheorems, TLAPS

\* The variables keep their types, whatever the threads do.
THEOREM TypeCorrect == Spec => []TypeOK
<1> USE RequestsAssumption, RoutesAssumption, GroupsAssumption, PolicyAssumption
        DEF TypeOK, Targets, StoppingPcs, QueuePcs, SlotPcs, Pcs, Phases
<1>1. Init => TypeOK
  BY DEF Init
<1>2. TypeOK /\ [Next]_vars => TypeOK'
  <2> SUFFICES ASSUME TypeOK, [Next]_vars PROVE TypeOK'
    OBVIOUS
  <2>0. removed' \subseteq Ports
    BY DEF Next, StickyExpires, RemovePort, DropPort, Idle, vars
  <2> USE <2>0 DEF threadVars, queueVars, itemVars, stopVars
  <2>1. ASSUME NEW r \in Requests, Refuse(r) PROVE TypeOK'
    BY <2>1 DEF Refuse
  <2>2. ASSUME NEW r \in Requests, SkipQueue(r) PROVE TypeOK'
    BY <2>2 DEF SkipQueue
  <2>3. ASSUME NEW r \in Requests, Enqueue(r) PROVE TypeOK'
    BY <2>3 DEF Enqueue
  <2>4. ASSUME NEW r \in Requests, Admit(r) PROVE TypeOK'
    BY <2>4 DEF Admit, SlotFree, ClearSticky, TakeSlot, Patch
  <2>5. ASSUME NEW r \in Requests, Stay(r) PROVE TypeOK'
    BY <2>5 DEF Stay, ClearSticky, Patch
  <2>6. ASSUME NEW r \in Requests, CloudFallback(r) PROVE TypeOK'
    BY <2>6 DEF CloudFallback, LeaveQueue
  <2>7. ASSUME NEW r \in Requests, WaitMore(r) PROVE TypeOK'
    BY <2>7 DEF WaitMore
  <2>8. ASSUME NEW r \in Requests, ChooseVictim(r) PROVE TypeOK'
    <3>1. Victims(route[r]) \subseteq Requests
      BY DEF Victims, Candidates
    <3>2. CASE pc' = [pc EXCEPT ![r] = "top"] /\ UNCHANGED victim
      BY <2>8, <3>2 DEF ChooseVictim
    <3>3. ASSUME NEW v \in Victims(route[r]),
                 victim' = [victim EXCEPT ![r] = v],
                 pc' = [pc EXCEPT ![r] = "stop"]
          PROVE  TypeOK'
      BY <2>8, <3>1, <3>3 DEF ChooseVictim
    <3>4. QED
      BY <2>8, <3>2, <3>3 DEF ChooseVictim
  <2>9. ASSUME NEW r \in Requests, StopVictim(r) PROVE TypeOK'
    BY <2>9 DEF StopVictim
  <2>10. ASSUME NEW r \in Requests, MarkPreempting(r) PROVE TypeOK'
    BY <2>10 DEF MarkPreempting, Patch
  <2>11. ASSUME NEW r \in Requests, CloseVictim(r) PROVE TypeOK'
    BY <2>11 DEF CloseVictim
  <2>12. ASSUME NEW r \in Requests, GraceAdmit(r) PROVE TypeOK'
    BY <2>12 DEF GraceAdmit, TakeSlot
  <2>13. ASSUME NEW r \in Requests, GraceOver(r) PROVE TypeOK'
    BY <2>13 DEF GraceOver
  <2>14. ASSUME NEW r \in Requests, MarkReceived(r) PROVE TypeOK'
    BY <2>14 DEF MarkReceived, Patch
  <2>15. ASSUME NEW r \in Requests, Discard(r) PROVE TypeOK'
    BY <2>15 DEF Discard
  <2>16. ASSUME NEW r \in Requests, LegDiscard(r) PROVE TypeOK'
    BY <2>16 DEF LegDiscard
  <2>17. ASSUME NEW r \in Requests, PoolRefuses(r) PROVE TypeOK'
    BY <2>17 DEF PoolRefuses, Patch
  <2>18. ASSUME NEW r \in Requests, Register(r) PROVE TypeOK'
    BY <2>18 DEF Register
  <2>19. ASSUME NEW r \in Requests, Forward(r) PROVE TypeOK'
    BY <2>19 DEF Forward, Patch
  <2>20. ASSUME NEW r \in Requests, NextRow(r) PROVE TypeOK'
    <3>1. attempted[r] \cup {row[r]} \in SUBSET Targets
      BY <2>20 DEF NextRow
    <3>2. attempted' \in [Requests -> SUBSET Targets]
      BY <2>20, <3>1 DEF NextRow
    <3>3. route' \in [Requests -> Targets \cup {None}]
      BY <2>20 DEF NextRow
    <3>4. QED
      BY <2>20, <3>2, <3>3 DEF NextRow
  <2>21. ASSUME NEW r \in Requests, End(r) PROVE TypeOK'
    BY <2>21 DEF End
  <2>22. ASSUME NEW r \in Requests, FinishItem(r) PROVE TypeOK'
    BY <2>22 DEF FinishItem
  <2>23. ASSUME NEW r \in Requests, FinishQueue(r) PROVE TypeOK'
    BY <2>23 DEF FinishQueue
  <2>24. ASSUME NEW r \in Requests, ClientGone(r) PROVE TypeOK'
    BY <2>24 DEF ClientGone, LeaveQueue
  <2>25. ASSUME NEW r \in Requests, Watch(r) PROVE TypeOK'
    BY <2>25 DEF Watch
  <2>26. ASSUME NEW r \in Requests, NEW g \in Targets, Arrive(r, g) PROVE TypeOK'
    BY <2>26 DEF Arrive
  <2>27. ASSUME NEW r \in Requests, NEW t \in Targets \cup {Unroutable}, Spill(r, t) PROVE TypeOK'
    <3>1. CASE t = Unroutable \/ spills[r] >= SpillLimit
      <4>1. /\ pc' = [pc EXCEPT ![r] = "finishing"]
            /\ spills' = [spills EXCEPT ![r] = @ + 1]
            /\ UNCHANGED <<route, upstream, grant, fallback, row, attempted, rescues, tried, victim,
                           phase, stopVars>>
            /\ LeaveQueue(r)
        BY <2>27, <3>1 DEF Spill
      <4>2. QED
        BY <4>1 DEF LeaveQueue
    <3>2. CASE ~(t = Unroutable \/ spills[r] >= SpillLimit)
      <4>1. route' \in [Requests -> Targets \cup {None}] /\ upstream' \in [Requests -> Targets \cup {None}]
        <5>1. /\ t \in Targets
              /\ route' = [route EXCEPT ![r] = t]
              /\ upstream' = PatchUpstream(r, t)
          BY <2>27, <3>2 DEF Spill
        <5>2. QED
          BY <5>1 DEF PatchUpstream
      <4>2. /\ pc' \in [Requests -> Pcs] /\ pc'[r] \notin StoppingPcs
            /\ \A q \in Requests \ {r} : pc'[q] = pc[q]
        BY <2>27, <3>2 DEF Spill
      <4>3. UNCHANGED <<grant, fallback, row, attempted, rescues, tried, victim, phase, stopVars>>
        BY <2>27 DEF Spill
      <4>4. spills' \in [Requests -> Nat] /\ LeaveQueue(r)
        BY <2>27 DEF Spill
      <4>5. QED
        BY <4>1, <4>2, <4>3, <4>4 DEF LeaveQueue
    <3>3. QED
      BY <3>1, <3>2
  <2>28. ASSUME NEW r \in Requests, NEW t \in Targets, PoolRow(r, t) PROVE TypeOK'
    <3>1. CASE t = Cloud
      BY <2>28, <3>1 DEF PoolRow
    <3>2. CASE t # Cloud
      <4>1. /\ pc' = [pc EXCEPT ![r] = "arrived"]
            /\ row' = [row EXCEPT ![r] = t]
            /\ route' = [route EXCEPT ![r] = t]
            /\ upstream' = PatchUpstream(r, t)
        BY <2>28, <3>2 DEF PoolRow
      <4>2. upstream' \in [Requests -> Targets \cup {None}]
        BY <4>1 DEF PatchUpstream
      <4>3. UNCHANGED <<grant, fallback, attempted, spills, rescues, tried, victim, queueVars, phase,
                       stopVars>>
        BY <2>28 DEF PoolRow
      <4>4. QED
        BY <4>1, <4>2, <4>3
    <3>3. QED
      BY <3>1, <3>2
  <2>29. ASSUME NEW r \in Requests, NEW g \in Targets, Rescue(r, g) PROVE TypeOK'
    BY <2>29 DEF Rescue, PatchUpstream
  <2>30. ASSUME NEW g \in Groups, StickyExpires(g) PROVE TypeOK'
    BY <2>30 DEF StickyExpires
  <2>31. ASSUME NEW p \in Ports, RemovePort(p) PROVE TypeOK'
    BY <2>31 DEF RemovePort
  <2>32. ASSUME NEW p \in Ports, DropPort(p) PROVE TypeOK'
    BY <2>32 DEF DropPort
  <2>33. CASE Idle \/ UNCHANGED vars
    BY <2>33 DEF Idle, vars
  <2>34. QED
    BY <2>1, <2>2, <2>3, <2>4, <2>5, <2>6, <2>7, <2>8, <2>9, <2>10, <2>11, <2>12, <2>13, <2>14,
       <2>15, <2>16, <2>17, <2>18, <2>19, <2>20, <2>21, <2>22, <2>23, <2>24, <2>25, <2>26, <2>27,
       <2>28, <2>29, <2>30, <2>31, <2>32, <2>33
    DEF Next, Request, Thread, Waiting, Preempting, Forwarding
<1>3. QED
  BY <1>1, <1>2, PTL DEF Spec

-----------------------------------------------------------------------------
(* The hand-over of a slot, and the bound on what the queue gives away.    *)

\* What the counted hold is a finite set, and so are its parts.
LEMMA FiniteParts ==
    ASSUME NEW S \in SUBSET Requests
    PROVE  IsFiniteSet(S) /\ Cardinality(S) \in Nat
BY RequestsAssumption, FS_Subset, FS_CardinalityType

\* Without a pool that has a cell's row no leg is a cell's, without port removal
\* no port is removed and no item dropped: the steps that remain.
NoneRemoved == removed = {}

LEMMA PlainSteps ==
    ASSUME NoBypass, TypeOK, NoneRemoved, Next
    PROVE  /\ NoneRemoved'
           /\ \/ \E r \in Requests : Request(r)
              \/ \E g \in Groups : StickyExpires(g)
              \/ Idle
<1>1. \A p \in Ports : ~RemovePort(p) /\ ~DropPort(p)
  BY DEF NoBypass, NoneRemoved, RemovePort, DropPort
<1> QED
  BY <1>1 DEF Next, StickyExpires, Idle, vars, NoneRemoved

\* The hand-over is inductive.
LEMMA HandOverStep ==
    ASSUME NoBypass, TypeOK, NoneRemoved, HandOver, [Next]_vars
    PROVE  HandOver'
<1> USE RequestsAssumption, RoutesAssumption, GroupsAssumption
        DEF TypeOK, HandOver, Leg, StoppingPcs, QueuePcs, SlotPcs, Pcs, Phases, None, Cloud,
            threadVars, queueVars, itemVars, stopVars
<1>1. ASSUME NEW r \in Requests, Refuse(r) PROVE HandOver'
  BY <1>1 DEF Refuse
<1>2. ASSUME NEW r \in Requests, SkipQueue(r) PROVE HandOver'
  BY <1>2 DEF SkipQueue
<1>3. ASSUME NEW r \in Requests, Enqueue(r) PROVE HandOver'
  BY <1>3 DEF Enqueue
<1>4. ASSUME NEW r \in Requests, Admit(r) PROVE HandOver'
  BY <1>4 DEF Admit, TakeSlot, Patch
<1>5. ASSUME NEW r \in Requests, Stay(r) PROVE HandOver'
  BY <1>5 DEF Stay, Patch
<1>6. ASSUME NEW r \in Requests, CloudFallback(r) PROVE HandOver'
  BY <1>6 DEF CloudFallback, LeaveQueue
<1>7. ASSUME NEW r \in Requests, WaitMore(r) PROVE HandOver'
  BY <1>7 DEF WaitMore
<1>8. ASSUME NEW r \in Requests, ChooseVictim(r) PROVE HandOver'
  BY <1>8 DEF ChooseVictim
<1>9. ASSUME NEW r \in Requests, StopVictim(r) PROVE HandOver'
  BY <1>9 DEF StopVictim
<1>10. ASSUME NEW r \in Requests, MarkPreempting(r) PROVE HandOver'
  BY <1>10 DEF MarkPreempting, Patch
<1>11. ASSUME NEW r \in Requests, CloseVictim(r) PROVE HandOver'
  BY <1>11 DEF CloseVictim
<1>12. ASSUME NEW r \in Requests, GraceAdmit(r) PROVE HandOver'
  BY <1>12 DEF GraceAdmit, TakeSlot
<1>13. ASSUME NEW r \in Requests, GraceOver(r) PROVE HandOver'
  BY <1>13 DEF GraceOver
<1>14. ASSUME NEW r \in Requests, MarkReceived(r) PROVE HandOver'
  BY <1>14 DEF MarkReceived, Patch
<1>15. ASSUME NEW r \in Requests, Discard(r) PROVE HandOver'
  BY <1>15 DEF Discard
<1>16. ASSUME NEW r \in Requests, LegDiscard(r) PROVE HandOver'
  BY <1>16 DEF LegDiscard
<1>17. ASSUME NEW r \in Requests, PoolRefuses(r) PROVE HandOver'
  BY <1>17 DEF PoolRefuses, Patch
<1>18. ASSUME NEW r \in Requests, Register(r) PROVE HandOver'
  BY <1>18 DEF Register
<1>19. ASSUME NEW r \in Requests, Forward(r) PROVE HandOver'
  BY <1>19 DEF Forward, Patch
<1>20. ASSUME NEW r \in Requests, NextRow(r) PROVE HandOver'
  BY <1>20 DEF NextRow
<1>21. ASSUME NEW r \in Requests, End(r) PROVE HandOver'
  BY <1>21 DEF End
<1>22. ASSUME NEW r \in Requests, FinishItem(r) PROVE HandOver'
  BY <1>22 DEF FinishItem
<1>23. ASSUME NEW r \in Requests, FinishQueue(r) PROVE HandOver'
  BY <1>23 DEF FinishQueue
<1>24. ASSUME NEW r \in Requests, ClientGone(r) PROVE HandOver'
  BY <1>24 DEF ClientGone, LeaveQueue
<1>25. ASSUME NEW r \in Requests, Watch(r) PROVE HandOver'
  BY <1>25 DEF Watch
<1>26. ASSUME NEW r \in Requests, NEW g \in Targets, Arrive(r, g) PROVE HandOver'
  BY <1>26 DEF Arrive
<1>27. ASSUME NEW r \in Requests, NEW t \in Targets \cup {Unroutable}, Spill(r, t) PROVE HandOver'
  BY <1>27 DEF Spill, LeaveQueue, PatchUpstream
<1>28. ASSUME NEW r \in Requests, NEW t \in Targets, PoolRow(r, t) PROVE HandOver'
  <2>1. t = Cloud
    BY <1>28 DEF PoolRow, NoBypass
  <2>2. QED
    BY <1>28, <2>1 DEF PoolRow, InPool
<1>29. ASSUME NEW r \in Requests, NEW g \in Targets, Rescue(r, g) PROVE HandOver'
  BY <1>29 DEF Rescue, PatchUpstream
<1>30. ASSUME NEW g \in Groups, StickyExpires(g) PROVE HandOver'
  BY <1>30 DEF StickyExpires
<1>31. CASE Idle \/ UNCHANGED vars
  BY <1>31 DEF Idle, vars
<1>32. QED
  BY PlainSteps, <1>1, <1>2, <1>3, <1>4, <1>5, <1>6, <1>7, <1>8, <1>9, <1>10, <1>11, <1>12,
     <1>13, <1>14, <1>15, <1>16, <1>17, <1>18, <1>19, <1>20, <1>21, <1>22, <1>23, <1>24, <1>25,
     <1>26, <1>27, <1>28, <1>29, <1>30, <1>31
  DEF Request, Thread, Waiting, Preempting, Forwarding

\* A request in the hand-over is counted, also when a waiter's item is just
\* being published as queued.
LEMMA HandOverCounts ==
    ASSUME TypeOK, HandOver, NEW g \in Groups
    PROVE  /\ Holders(g) \subseteq Counted(g, phase)
           /\ \A r \in Requests : pc[r] \in QueuePcs =>
                  Holders(g) \subseteq Counted(g, Patch(r, "queued"))
BY DEF TypeOK, HandOver, Holders, Counted, Patch, SlotPcs, StoppingPcs, QueuePcs, None

\* The only step in which the queue gives a slot away.
LEMMA QueueGives ==
    ASSUME TypeOK, [Next]_vars, NEW q \in Requests, grant[q] = None, grant'[q] = "queue"
    PROVE  Admit(q)
<1> USE DEF TypeOK, threadVars, queueVars, itemVars, stopVars, None
<1> DEFINE Goal == Admit(q)
<1> HIDE DEF Goal
<1>1. ASSUME NEW r \in Requests, Refuse(r) PROVE Goal
  BY <1>1 DEF Refuse
<1>2. ASSUME NEW r \in Requests, SkipQueue(r) PROVE Goal
  BY <1>2 DEF SkipQueue
<1>3. ASSUME NEW r \in Requests, Enqueue(r) PROVE Goal
  BY <1>3 DEF Enqueue
<1>4. ASSUME NEW r \in Requests, Admit(r) PROVE Goal
  BY <1>4 DEF Admit, TakeSlot, Goal
<1>5. ASSUME NEW r \in Requests, Stay(r) PROVE Goal
  BY <1>5 DEF Stay, Patch
<1>6. ASSUME NEW r \in Requests, CloudFallback(r) PROVE Goal
  BY <1>6 DEF CloudFallback, LeaveQueue
<1>7. ASSUME NEW r \in Requests, WaitMore(r) PROVE Goal
  BY <1>7 DEF WaitMore
<1>8. ASSUME NEW r \in Requests, ChooseVictim(r) PROVE Goal
  BY <1>8 DEF ChooseVictim
<1>9. ASSUME NEW r \in Requests, StopVictim(r) PROVE Goal
  BY <1>9 DEF StopVictim
<1>10. ASSUME NEW r \in Requests, MarkPreempting(r) PROVE Goal
  BY <1>10 DEF MarkPreempting, Patch
<1>11. ASSUME NEW r \in Requests, CloseVictim(r) PROVE Goal
  BY <1>11 DEF CloseVictim
<1>12. ASSUME NEW r \in Requests, GraceAdmit(r) PROVE Goal
  BY <1>12 DEF GraceAdmit, TakeSlot
<1>13. ASSUME NEW r \in Requests, GraceOver(r) PROVE Goal
  BY <1>13 DEF GraceOver
<1>14. ASSUME NEW r \in Requests, MarkReceived(r) PROVE Goal
  BY <1>14 DEF MarkReceived, Patch
<1>15. ASSUME NEW r \in Requests, Discard(r) PROVE Goal
  BY <1>15 DEF Discard
<1>16. ASSUME NEW r \in Requests, LegDiscard(r) PROVE Goal
  BY <1>16 DEF LegDiscard
<1>17. ASSUME NEW r \in Requests, PoolRefuses(r) PROVE Goal
  BY <1>17 DEF PoolRefuses, Patch
<1>18. ASSUME NEW r \in Requests, Register(r) PROVE Goal
  BY <1>18 DEF Register
<1>19. ASSUME NEW r \in Requests, Forward(r) PROVE Goal
  BY <1>19 DEF Forward, Patch
<1>20. ASSUME NEW r \in Requests, NextRow(r) PROVE Goal
  BY <1>20 DEF NextRow
<1>21. ASSUME NEW r \in Requests, End(r) PROVE Goal
  BY <1>21 DEF End
<1>22. ASSUME NEW r \in Requests, FinishItem(r) PROVE Goal
  BY <1>22 DEF FinishItem
<1>23. ASSUME NEW r \in Requests, FinishQueue(r) PROVE Goal
  BY <1>23 DEF FinishQueue
<1>24. ASSUME NEW r \in Requests, ClientGone(r) PROVE Goal
  BY <1>24 DEF ClientGone, LeaveQueue
<1>25. ASSUME NEW r \in Requests, Watch(r) PROVE Goal
  BY <1>25 DEF Watch
<1>26. ASSUME NEW r \in Requests, NEW g \in Targets, Arrive(r, g) PROVE Goal
  BY <1>26 DEF Arrive
<1>27. ASSUME NEW r \in Requests, NEW t \in Targets \cup {Unroutable}, Spill(r, t) PROVE Goal
  BY <1>27 DEF Spill, LeaveQueue, PatchUpstream
<1>28. ASSUME NEW r \in Requests, NEW t \in Targets, PoolRow(r, t) PROVE Goal
  BY <1>28 DEF PoolRow, PatchUpstream
<1>29. ASSUME NEW r \in Requests, NEW g \in Targets, Rescue(r, g) PROVE Goal
  BY <1>29 DEF Rescue, PatchUpstream
<1>30. ASSUME NEW g \in Groups, StickyExpires(g) PROVE Goal
  BY <1>30 DEF StickyExpires
<1>31. ASSUME NEW p \in Ports, RemovePort(p) PROVE Goal
  BY <1>31 DEF RemovePort
<1>32. ASSUME NEW p \in Ports, DropPort(p) PROVE Goal
  BY <1>32 DEF DropPort
<1>33. CASE Idle \/ UNCHANGED vars
  BY <1>33 DEF Idle, vars
<1>34. QED
  BY <1>1, <1>2, <1>3, <1>4, <1>5, <1>6, <1>7, <1>8, <1>9, <1>10, <1>11, <1>12, <1>13, <1>14,
     <1>15, <1>16, <1>17, <1>18, <1>19, <1>20, <1>21, <1>22, <1>23, <1>24, <1>25, <1>26, <1>27,
     <1>28, <1>29, <1>30, <1>31, <1>32, <1>33
  DEF Goal, Next, Request, Thread, Waiting, Preempting, Forwarding

\* Whoever the queue admits finds a slot that no other request holds.
LEMMA AdmitWithinBound ==
    ASSUME TypeOK, TypeOK', HandOver, NEW r \in Requests, Admit(r)
    PROVE  Cardinality(Holders(route[r])') <= MaxSlots[route[r]]
<1> DEFINE g == route[r]
           C == Counted(g, Patch(r, "queued"))
<1>1. g \in Groups /\ pc[r] \in QueuePcs
  BY DEF Admit, HandOver, QueuePcs
<1>2. Holders(g) \subseteq C /\ C \subseteq Requests
  BY <1>1, HandOverCounts DEF Counted
<1>3. Cardinality(C) < MaxSlots[g]
  BY DEF Admit, SlotFree
<1>4. Cardinality(Holders(g)) <= Cardinality(C)
  BY <1>2, FiniteParts, FS_Subset
<1>5. Cardinality(Holders(g) \cup {r}) <= Cardinality(Holders(g)) + 1
  BY FiniteParts, FS_AddElement DEF Holders
<1>6. Holders(g)' \subseteq Holders(g) \cup {r}
  BY DEF Admit, TakeSlot, Holders, TypeOK
<1>7. Cardinality(Holders(g)') <= Cardinality(Holders(g) \cup {r})
  BY <1>6, FiniteParts, FS_Subset DEF Holders
<1>8. /\ Cardinality(C) \in Nat
      /\ Cardinality(Holders(g)) \in Nat
      /\ Cardinality(Holders(g) \cup {r}) \in Nat
      /\ Cardinality(Holders(g)') \in Nat
  BY <1>2, FiniteParts DEF Holders
<1>9. QED
  BY <1>1, <1>3, <1>4, <1>5, <1>7, <1>8, GroupsAssumption

\* Without a cell in a pool and without the removal of ports a slot is handed
\* over without a gap: from the slot to the phase "received" the id is in
\* admitted_requests, from there on the item is not "queued" (handler.py:673).
THEOREM HandedOver ==
    ASSUME NoBypass
    PROVE  Spec => [](HandOver /\ NoneRemoved)
<1>1. Init => HandOver /\ NoneRemoved
  BY GroupsAssumption DEF Init, NoneRemoved, HandOver, StoppingPcs, QueuePcs, SlotPcs, None
<1>2. TypeOK /\ HandOver /\ NoneRemoved /\ [Next]_vars => HandOver' /\ NoneRemoved'
  BY HandOverStep, PlainSteps DEF vars, NoneRemoved
<1>3. QED
  BY <1>1, <1>2, TypeCorrect, PTL DEF Spec

\* In such a configuration active_count sees every request that holds a slot,
\* at every moment of its hand-over.
THEOREM HoldersCounted ==
    ASSUME NoBypass
    PROVE  Spec => []HolderCounted
<1>1. TypeOK /\ HandOver => HolderCounted
  BY HandOverCounts DEF HolderCounted
<1>2. QED
  BY <1>1, TypeCorrect, HandedOver, PTL

\* For every number of requests, ports, servers and slots, with preemption,
\* spills, rescues, fallbacks and reservations in any combination: in such a
\* configuration the queue gives a slot away only when, with it, no more
\* requests hold slots of the server than it has, preemptors included.
THEOREM QueueWithinBound ==
    ASSUME NoBypass
    PROVE  Spec => QueueBound
<1> DEFINE Step == \A r \in Requests : grant[r] = None /\ grant'[r] = "queue" =>
                       Cardinality(Holders(route[r])') <= MaxSlots[route[r]]
<1>1. TypeOK /\ TypeOK' /\ HandOver /\ [Next]_vars => [Step]_vars
  BY QueueGives, AdmitWithinBound
<1>2. QED
  BY <1>1, TypeCorrect, HandedOver, PTL DEF Spec, QueueBound

-----------------------------------------------------------------------------
(* Admission implements first-come-first-served slots.                     *)

\* The queue's shape is inductive.
LEMMA QueueShapeStep ==
    ASSUME NoBypass, TypeOK, NoneRemoved, HandOver, QueueShape, [Next]_vars
    PROVE  QueueShape'
<1> USE DEF TypeOK, HandOver, QueueShape, StoppingPcs, QueuePcs, SlotPcs, Pcs, CanPreempt,
            threadVars, queueVars, itemVars, stopVars
<1>1. ASSUME NEW r \in Requests, Refuse(r) PROVE QueueShape'
  BY <1>1 DEF Refuse
<1>2. ASSUME NEW r \in Requests, SkipQueue(r) PROVE QueueShape'
  BY <1>2 DEF SkipQueue
<1>3. ASSUME NEW r \in Requests, Enqueue(r) PROVE QueueShape'
  BY <1>3 DEF Enqueue
<1>4. ASSUME NEW r \in Requests, Admit(r) PROVE QueueShape'
  BY <1>4 DEF Admit, TakeSlot, Patch
<1>5. ASSUME NEW r \in Requests, Stay(r) PROVE QueueShape'
  BY <1>5 DEF Stay, Patch
<1>6. ASSUME NEW r \in Requests, CloudFallback(r) PROVE QueueShape'
  BY <1>6 DEF CloudFallback, LeaveQueue
<1>7. ASSUME NEW r \in Requests, WaitMore(r) PROVE QueueShape'
  BY <1>7 DEF WaitMore
<1>8. ASSUME NEW r \in Requests, ChooseVictim(r) PROVE QueueShape'
  BY <1>8 DEF ChooseVictim
<1>9. ASSUME NEW r \in Requests, StopVictim(r) PROVE QueueShape'
  BY <1>9 DEF StopVictim
<1>10. ASSUME NEW r \in Requests, MarkPreempting(r) PROVE QueueShape'
  BY <1>10 DEF MarkPreempting, Patch
<1>11. ASSUME NEW r \in Requests, CloseVictim(r) PROVE QueueShape'
  BY <1>11 DEF CloseVictim
<1>12. ASSUME NEW r \in Requests, GraceAdmit(r) PROVE QueueShape'
  BY <1>12 DEF GraceAdmit, TakeSlot
<1>13. ASSUME NEW r \in Requests, GraceOver(r) PROVE QueueShape'
  BY <1>13 DEF GraceOver
<1>14. ASSUME NEW r \in Requests, MarkReceived(r) PROVE QueueShape'
  BY <1>14 DEF MarkReceived, Patch
<1>15. ASSUME NEW r \in Requests, Discard(r) PROVE QueueShape'
  BY <1>15 DEF Discard
<1>16. ASSUME NEW r \in Requests, LegDiscard(r) PROVE QueueShape'
  BY <1>16 DEF LegDiscard
<1>17. ASSUME NEW r \in Requests, PoolRefuses(r) PROVE QueueShape'
  BY <1>17 DEF PoolRefuses, Patch
<1>18. ASSUME NEW r \in Requests, Register(r) PROVE QueueShape'
  BY <1>18 DEF Register
<1>19. ASSUME NEW r \in Requests, Forward(r) PROVE QueueShape'
  BY <1>19 DEF Forward, Patch
<1>20. ASSUME NEW r \in Requests, NextRow(r) PROVE QueueShape'
  BY <1>20 DEF NextRow
<1>21. ASSUME NEW r \in Requests, End(r) PROVE QueueShape'
  BY <1>21 DEF End
<1>22. ASSUME NEW r \in Requests, FinishItem(r) PROVE QueueShape'
  BY <1>22 DEF FinishItem
<1>23. ASSUME NEW r \in Requests, FinishQueue(r) PROVE QueueShape'
  BY <1>23 DEF FinishQueue
<1>24. ASSUME NEW r \in Requests, ClientGone(r) PROVE QueueShape'
  BY <1>24 DEF ClientGone, LeaveQueue
<1>25. ASSUME NEW r \in Requests, Watch(r) PROVE QueueShape'
  BY <1>25 DEF Watch
<1>26. ASSUME NEW r \in Requests, NEW g \in Targets, Arrive(r, g) PROVE QueueShape'
  BY <1>26 DEF Arrive
<1>27. ASSUME NEW r \in Requests, NEW t \in Targets \cup {Unroutable}, Spill(r, t) PROVE QueueShape'
  BY <1>27 DEF Spill, LeaveQueue, PatchUpstream
<1>28. ASSUME NEW r \in Requests, NEW t \in Targets, PoolRow(r, t) PROVE QueueShape'
  <2>1. t = Cloud
    BY <1>28 DEF PoolRow, NoBypass
  <2>2. QED
    BY <1>28, <2>1 DEF PoolRow, InPool
<1>29. ASSUME NEW r \in Requests, NEW g \in Targets, Rescue(r, g) PROVE QueueShape'
  BY <1>29 DEF Rescue, PatchUpstream
<1>30. ASSUME NEW g \in Groups, StickyExpires(g) PROVE QueueShape'
  BY <1>30 DEF StickyExpires
<1>31. CASE Idle \/ UNCHANGED vars
  BY <1>31 DEF Idle, vars
<1>32. QED
  BY PlainSteps, <1>1, <1>2, <1>3, <1>4, <1>5, <1>6, <1>7, <1>8, <1>9, <1>10, <1>11, <1>12,
     <1>13, <1>14, <1>15, <1>16, <1>17, <1>18, <1>19, <1>20, <1>21, <1>22, <1>23, <1>24, <1>25,
     <1>26, <1>27, <1>28, <1>29, <1>30, <1>31
  DEF Request, Thread, Waiting, Preempting, Forwarding

\* A step that moves no waiter and no holder is a stutter of the slots.
LEMMA StutterStep ==
    ASSUME TypeOK, pending' = pending, seq' = seq,
           \A q \in pending : route'[q] = route[q],
           \A q \in Requests :
               /\ grant'[q] # None /\ pc'[q] \in SlotPcs <=> grant[q] # None /\ pc[q] \in SlotPcs
               /\ grant[q] # None /\ pc[q] \in SlotPcs => route'[q] = route[q]
    PROVE  UNCHANGED Slots!vars
<1>1. \A q \in pending : Ahead(q)' = Ahead(q)
  BY DEF Ahead, TypeOK
<1>2. wantBar' = wantBar
  BY DEF wantBar
<1>3. holdBar' = holdBar
  BY DEF holdBar
<1>4. beforeBar' = beforeBar
  BY <1>1 DEF beforeBar
<1>5. QED
  BY <1>2, <1>3, <1>4 DEF Slots!vars

\* Taking a waiter out of the queue closes up every line it stood in.
LEMMA GoneFromQueue ==
    ASSUME TypeOK, NEW r \in pending, pending' = pending \ {r}, seq' = seq,
           \A q \in pending \ {r} : route'[q] = route[q]
    PROVE  /\ wantBar' = [wantBar EXCEPT ![r] = None]
           /\ beforeBar' = Slots!Gone(r)
<1>1. \A q \in pending' : Ahead(q)' = Ahead(q) \ {r}
  BY DEF Ahead, TypeOK
<1>2. wantBar' = [wantBar EXCEPT ![r] = None]
  BY DEF wantBar, TypeOK
<1>3. beforeBar' = Slots!Gone(r)
  BY <1>1 DEF beforeBar, Slots!Gone, TypeOK
<1>4. QED
  BY <1>2, <1>3

\* A waiter that leaves without a slot.
LEMMA LeaveStep ==
    ASSUME TypeOK, HandOver, QueueShape, NEW r \in Requests, pc[r] = "top", LeaveQueue(r),
           grant' = grant, \A q \in Requests \ {r} : pc'[q] = pc[q] /\ route'[q] = route[q]
    PROVE  Slots!Leave(r)
<1>1. r \in pending /\ grant[r] = None /\ route[r] \in Groups
  BY DEF QueueShape, HandOver, StoppingPcs, QueuePcs
<1>2. wantBar[r] # None
  BY <1>1, GroupsAssumption DEF wantBar
<1>3. wantBar' = [wantBar EXCEPT ![r] = None] /\ beforeBar' = Slots!Gone(r)
  BY <1>1, GoneFromQueue DEF LeaveQueue, TypeOK
<1>4. holdBar' = holdBar
  BY <1>1 DEF holdBar
<1>5. QED
  BY <1>2, <1>3, <1>4 DEF Slots!Leave

\* A new entry goes to the end of its server's queue.
LEMMA JoinStep ==
    ASSUME NoBypass, TypeOK, HandOver, QueueShape, NEW r \in Requests, Enqueue(r)
    PROVE  Slots!Join(r, route[r])
<1>1. r \notin pending /\ pc[r] \notin SlotPcs /\ pc'[r] \notin SlotPcs
  BY DEF Enqueue, QueueShape, StoppingPcs, QueuePcs, SlotPcs, TypeOK
<1>2. wantBar[r] = None /\ holdBar[r] = None
  BY <1>1 DEF wantBar, holdBar
<1>3. wantBar' = [wantBar EXCEPT ![r] = route[r]]
  BY DEF Enqueue, wantBar, TypeOK
<1>4. holdBar' = holdBar
  BY <1>1 DEF Enqueue, holdBar, TypeOK
<1>5. Ahead(r)' = {q \in Requests : wantBar[q] = route[r]}
  BY <1>1, GroupsAssumption DEF Ahead, Enqueue, wantBar, TypeOK, QueueShape
<1>6. \A q \in pending : Ahead(q)' = Ahead(q)
  BY <1>1 DEF Ahead, Enqueue, TypeOK, QueueShape
<1>7. beforeBar' = [beforeBar EXCEPT ![r] = {q \in Requests : wantBar[q] = route[r]}]
  BY <1>5, <1>6 DEF beforeBar, Enqueue, TypeOK
<1>8. QED
  BY <1>2, <1>3, <1>4, <1>7 DEF Slots!Join

\* The head of a queue takes a free slot.
LEMMA TakeStep ==
    ASSUME TypeOK, HandOver, QueueShape, NEW r \in Requests, Admit(r)
    PROVE  Slots!Take(r)
<1> DEFINE g == route[r]
           C == Counted(g, Patch(r, "queued"))
<1>1. r \in pending /\ grant[r] = None /\ g \in Groups /\ pc[r] \in QueuePcs
  BY DEF Admit, QueueShape, HandOver, StoppingPcs, QueuePcs
<1>2. wantBar[r] = g /\ g # None
  BY <1>1, GroupsAssumption DEF wantBar
<1>3. beforeBar[r] = {}
  BY <1>1 DEF beforeBar, Admit, SlotFree, IsHead
<1>4. {q \in Requests : holdBar[q] = g} \subseteq Holders(g)
  BY <1>2 DEF holdBar, Holders
<1>5. Holders(g) \subseteq C /\ C \subseteq Requests
  BY <1>1, HandOverCounts DEF Counted
<1>6. Cardinality(C) < MaxSlots[g]
  BY DEF Admit, SlotFree
<1>7. Cardinality({q \in Requests : holdBar[q] = g}) < MaxSlots[g]
  <2>1. Cardinality({q \in Requests : holdBar[q] = g}) <= Cardinality(C)
    BY <1>4, <1>5, FiniteParts, FS_Subset
  <2>2. /\ Cardinality({q \in Requests : holdBar[q] = g}) \in Nat
        /\ Cardinality(C) \in Nat
    BY <1>5, FiniteParts
  <2>3. QED
    BY <1>1, <1>6, <2>1, <2>2, GroupsAssumption
<1>8. holdBar' = [holdBar EXCEPT ![r] = g]
  BY DEF holdBar, Admit, TakeSlot, TypeOK, HandOver, SlotPcs, None
<1>9. wantBar' = [wantBar EXCEPT ![r] = None] /\ beforeBar' = Slots!Gone(r)
  BY <1>1, GoneFromQueue DEF Admit, TakeSlot
<1>10. Slots!Cardinality({q \in Requests : holdBar[q] = wantBar[r]}) < MaxSlots[wantBar[r]]
  <2>1. \A S : Slots!Cardinality(S) = Cardinality(S)
    BY DEF Cardinality, Slots!Cardinality
  <2>2. QED
    BY <1>2, <1>7, <2>1, Zenon
<1>11. wantBar[r] # None /\ holdBar' = [holdBar EXCEPT ![r] = wantBar[r]]
  BY <1>2, <1>8, Zenon
<1>12. QED
  BY <1>3, <1>9, <1>10, <1>11, Zenon DEF Slots!Take

\* A request that gives up its slot, or had none to give up.
LEMMA ReleaseStep ==
    ASSUME TypeOK, QueueShape, NEW r \in Requests, pc[r] \in SlotPcs, pending' = pending, seq' = seq,
           grant'[r] = None \/ pc'[r] \notin SlotPcs,
           \A q \in Requests \ {r} : pc'[q] = pc[q] /\ route'[q] = route[q] /\ grant'[q] = grant[q]
    PROVE  Slots!Release(r) \/ UNCHANGED Slots!vars
<1>1. r \notin pending
  BY DEF QueueShape, StoppingPcs, QueuePcs, SlotPcs
<1>2. CASE grant[r] = None
  <2>1. \A q \in pending : route'[q] = route[q]
    BY <1>1 DEF TypeOK
  <2>2. \A q \in Requests :
            /\ grant'[q] # None /\ pc'[q] \in SlotPcs <=> grant[q] # None /\ pc[q] \in SlotPcs
            /\ grant[q] # None /\ pc[q] \in SlotPcs => route'[q] = route[q]
    BY <1>2
  <2>3. QED
    BY <2>1, <2>2, StutterStep
<1>3. CASE grant[r] # None
  <2>1. holdBar[r] # None
    BY <1>3, GroupsAssumption DEF holdBar, QueueShape
  <2>2. holdBar' = [holdBar EXCEPT ![r] = None]
    BY DEF holdBar
  <2>3. \A q \in pending : Ahead(q)' = Ahead(q)
    BY <1>1 DEF Ahead, TypeOK
  <2>4. wantBar' = wantBar /\ beforeBar' = beforeBar
    BY <1>1, <2>3 DEF wantBar, beforeBar, TypeOK
  <2>5. QED
    BY <2>1, <2>2, <2>4 DEF Slots!Release
<1>4. QED
  BY <1>2, <1>3

\* Every step of the threads is a step of the slots or a stutter.
LEMMA SlotsStep ==
    ASSUME NoBypass, ~PreemptEnabled, TypeOK, NoneRemoved, HandOver, QueueShape, [Next]_vars
    PROVE  [Slots!Next]_(Slots!vars)
<1> USE DEF threadVars, queueVars, itemVars, stopVars
<1> DEFINE Same ==
        /\ pending' = pending /\ seq' = seq
        /\ \A q \in pending : route'[q] = route[q]
        /\ \A q \in Requests :
               /\ grant'[q] # None /\ pc'[q] \in SlotPcs <=> grant[q] # None /\ pc[q] \in SlotPcs
               /\ grant[q] # None /\ pc[q] \in SlotPcs => route'[q] = route[q]
<1>1. ASSUME NEW r \in Requests, Enqueue(r) PROVE Slots!Next
  BY <1>1, JoinStep DEF Enqueue, Slots!Next
<1>2. ASSUME NEW r \in Requests, Admit(r) PROVE Slots!Next
  BY <1>2, TakeStep DEF Slots!Next
<1>3. ASSUME NEW r \in Requests, CloudFallback(r) \/ ClientGone(r) PROVE Slots!Next
  <2>1. Slots!Leave(r)
    BY <1>3, LeaveStep DEF CloudFallback, ClientGone, TypeOK
  <2>2. QED
    BY <2>1 DEF Slots!Next
<1>4. ASSUME NEW r \in Requests, NEW t \in Targets \cup {Unroutable}, Spill(r, t) PROVE Slots!Next
  <2>1. \A q \in Requests \ {r} : pc'[q] = pc[q] /\ route'[q] = route[q]
    BY <1>4 DEF Spill, TypeOK
  <2>2. Slots!Leave(r)
    BY <1>4, <2>1, LeaveStep DEF Spill
  <2>3. QED
    BY <2>2 DEF Slots!Next
<1>5. ASSUME NEW r \in Requests, FinishItem(r) PROVE Slots!Next \/ UNCHANGED Slots!vars
  <2>1. /\ pc[r] \in SlotPcs /\ pc'[r] \notin SlotPcs
        /\ pending' = pending /\ seq' = seq
        /\ \A q \in Requests \ {r} : pc'[q] = pc[q] /\ route'[q] = route[q] /\ grant'[q] = grant[q]
    BY <1>5 DEF FinishItem, TypeOK, SlotPcs
  <2>2. QED
    BY <2>1, ReleaseStep DEF Slots!Next
<1>6. ASSUME NEW r \in Requests, NEW g \in Targets, Rescue(r, g) PROVE Slots!Next \/ UNCHANGED Slots!vars
  <2>1. /\ pc[r] \in SlotPcs /\ grant'[r] = None
        /\ pending' = pending /\ seq' = seq
        /\ \A q \in Requests \ {r} : pc'[q] = pc[q] /\ route'[q] = route[q] /\ grant'[q] = grant[q]
    BY <1>6 DEF Rescue, TypeOK, SlotPcs
  <2>2. QED
    BY <2>1, ReleaseStep DEF Slots!Next
<1>7. ASSUME NEW r \in Requests, NextRow(r) PROVE Slots!Next \/ UNCHANGED Slots!vars
  <2>1. /\ pc[r] \in SlotPcs /\ grant'[r] = None
        /\ pending' = pending /\ seq' = seq
        /\ \A q \in Requests \ {r} : pc'[q] = pc[q] /\ route'[q] = route[q] /\ grant'[q] = grant[q]
    BY <1>7 DEF NextRow, TypeOK, SlotPcs
  <2>2. QED
    BY <2>1, ReleaseStep DEF Slots!Next
<1>8. ASSUME Same PROVE UNCHANGED Slots!vars
  BY <1>8, StutterStep
<1>9. ASSUME NEW r \in Requests, NEW g \in Targets, Arrive(r, g) PROVE Same
  BY <1>9 DEF Arrive, TypeOK, HandOver, QueueShape, StoppingPcs, QueuePcs, SlotPcs
<1>10. ASSUME NEW r \in Requests, NEW t \in Targets, PoolRow(r, t) PROVE Same
  <2>1. t = Cloud
    BY <1>10 DEF PoolRow, NoBypass
  <2>2. QED
    BY <1>10, <2>1 DEF PoolRow, TypeOK, SlotPcs
<1>11. ASSUME NEW r \in Requests,
              \/ Refuse(r) \/ SkipQueue(r) \/ Stay(r) \/ MarkReceived(r) \/ Discard(r)
              \/ PoolRefuses(r) \/ Register(r) \/ Forward(r) \/ End(r) \/ FinishQueue(r)
              \/ Watch(r)
      PROVE Same
  <2> USE DEF TypeOK, HandOver, SlotPcs, StoppingPcs, QueuePcs
  <2>1. CASE Refuse(r)
    BY <2>1 DEF Refuse
  <2>2. CASE SkipQueue(r)
    BY <2>2 DEF SkipQueue
  <2>3. CASE Stay(r)
    BY <2>3 DEF Stay, CanPreempt
  <2>4. CASE MarkReceived(r)
    BY <2>4 DEF MarkReceived
  <2>5. CASE Discard(r)
    BY <2>5 DEF Discard
  <2>6. CASE PoolRefuses(r)
    BY <2>6 DEF PoolRefuses
  <2>7. CASE Register(r)
    BY <2>7 DEF Register
  <2>8. CASE Forward(r)
    BY <2>8 DEF Forward
  <2>9. CASE End(r)
    BY <2>9 DEF End
  <2>10. CASE FinishQueue(r)
    BY <2>10 DEF FinishQueue
  <2>11. CASE Watch(r)
    BY <2>11 DEF Watch
  <2>12. QED
    BY <1>11, <2>1, <2>2, <2>3, <2>4, <2>5, <2>6, <2>7, <2>8, <2>9, <2>10, <2>11
<1>12. ASSUME NEW g \in Groups, StickyExpires(g) PROVE Same
  BY <1>12 DEF StickyExpires, TypeOK
<1>13. ASSUME Idle \/ UNCHANGED vars PROVE Same
  BY <1>13 DEF Idle, vars, TypeOK
<1>14. \A r \in Requests :
           /\ ~WaitMore(r) /\ ~ChooseVictim(r) /\ ~StopVictim(r) /\ ~MarkPreempting(r)
           /\ ~CloseVictim(r) /\ ~GraceAdmit(r) /\ ~GraceOver(r) /\ ~LegDiscard(r)
  BY DEF WaitMore, ChooseVictim, StopVictim, MarkPreempting, CloseVictim, GraceAdmit, GraceOver,
         LegDiscard, QueueShape, HandOver, StoppingPcs
<1>15. QED
  <2>1. Slots!Next \/ Same \/ UNCHANGED Slots!vars
    BY PlainSteps, <1>1, <1>2, <1>3, <1>4, <1>5, <1>6, <1>7, <1>9, <1>10, <1>11, <1>12, <1>13,
       <1>14
    DEF Request, Thread, Waiting, Preempting, Forwarding
  <2>2. QED
    BY <2>1, <1>8

\* Without preemption, without a cell in a pool and without port removal, the
\* proxy's admission implements first-come-first-served slots for every number
\* of requests, ports, servers and slots, with spills, rescues, fallbacks and
\* reservations.
THEOREM AdmissionImplementsSlots ==
    ASSUME NoBypass, ~PreemptEnabled
    PROVE  Spec => ImplementsSlots
<1>1. Init => Slots!Init /\ QueueShape
  BY DEF Init, Slots!Init, wantBar, holdBar, beforeBar, QueueShape, StoppingPcs, QueuePcs, None
<1>2. TypeOK /\ HandOver /\ NoneRemoved /\ QueueShape /\ [Next]_vars => QueueShape'
  BY QueueShapeStep
<1>3. TypeOK /\ HandOver /\ NoneRemoved /\ QueueShape /\ [Next]_vars => [Slots!Next]_(Slots!vars)
  BY SlotsStep
<1>4. QED
  BY <1>1, <1>2, <1>3, TypeCorrect, HandedOver, PTL DEF Spec, ImplementsSlots, Slots!Spec

-----------------------------------------------------------------------------
(* What holds in every configuration, pools and port removal included.     *)

\* Nothing of a request stays behind: inductive with the types.
LEMMA NoResidueStep ==
    ASSUME TypeOK, NoResidue, [Next]_vars
    PROVE  NoResidue'
<1> USE DEF TypeOK, NoResidue, StoppingPcs, QueuePcs, SlotPcs, Pcs,
            threadVars, queueVars, itemVars, stopVars
<1>1. ASSUME NEW r \in Requests, Refuse(r) PROVE NoResidue'
  BY <1>1 DEF Refuse
<1>2. ASSUME NEW r \in Requests, SkipQueue(r) PROVE NoResidue'
  BY <1>2 DEF SkipQueue
<1>3. ASSUME NEW r \in Requests, Enqueue(r) PROVE NoResidue'
  BY <1>3 DEF Enqueue
<1>4. ASSUME NEW r \in Requests, Admit(r) PROVE NoResidue'
  BY <1>4 DEF Admit, TakeSlot, Patch
<1>5. ASSUME NEW r \in Requests, Stay(r) PROVE NoResidue'
  BY <1>5 DEF Stay, Patch
<1>6. ASSUME NEW r \in Requests, CloudFallback(r) PROVE NoResidue'
  BY <1>6 DEF CloudFallback, LeaveQueue
<1>7. ASSUME NEW r \in Requests, WaitMore(r) PROVE NoResidue'
  BY <1>7 DEF WaitMore
<1>8. ASSUME NEW r \in Requests, ChooseVictim(r) PROVE NoResidue'
  BY <1>8 DEF ChooseVictim
<1>9. ASSUME NEW r \in Requests, StopVictim(r) PROVE NoResidue'
  BY <1>9 DEF StopVictim
<1>10. ASSUME NEW r \in Requests, MarkPreempting(r) PROVE NoResidue'
  BY <1>10 DEF MarkPreempting, Patch
<1>11. ASSUME NEW r \in Requests, CloseVictim(r) PROVE NoResidue'
  BY <1>11 DEF CloseVictim
<1>12. ASSUME NEW r \in Requests, GraceAdmit(r) PROVE NoResidue'
  BY <1>12 DEF GraceAdmit, TakeSlot
<1>13. ASSUME NEW r \in Requests, GraceOver(r) PROVE NoResidue'
  BY <1>13 DEF GraceOver
<1>14. ASSUME NEW r \in Requests, MarkReceived(r) PROVE NoResidue'
  BY <1>14 DEF MarkReceived, Patch
<1>15. ASSUME NEW r \in Requests, Discard(r) PROVE NoResidue'
  BY <1>15 DEF Discard
<1>16. ASSUME NEW r \in Requests, LegDiscard(r) PROVE NoResidue'
  BY <1>16 DEF LegDiscard
<1>17. ASSUME NEW r \in Requests, PoolRefuses(r) PROVE NoResidue'
  BY <1>17 DEF PoolRefuses, Patch
<1>18. ASSUME NEW r \in Requests, Register(r) PROVE NoResidue'
  BY <1>18 DEF Register
<1>19. ASSUME NEW r \in Requests, Forward(r) PROVE NoResidue'
  BY <1>19 DEF Forward, Patch
<1>20. ASSUME NEW r \in Requests, NextRow(r) PROVE NoResidue'
  BY <1>20 DEF NextRow
<1>21. ASSUME NEW r \in Requests, End(r) PROVE NoResidue'
  BY <1>21 DEF End
<1>22. ASSUME NEW r \in Requests, FinishItem(r) PROVE NoResidue'
  BY <1>22 DEF FinishItem
<1>23. ASSUME NEW r \in Requests, FinishQueue(r) PROVE NoResidue'
  BY <1>23 DEF FinishQueue
<1>24. ASSUME NEW r \in Requests, ClientGone(r) PROVE NoResidue'
  BY <1>24 DEF ClientGone, LeaveQueue
<1>25. ASSUME NEW r \in Requests, Watch(r) PROVE NoResidue'
  BY <1>25 DEF Watch
<1>26. ASSUME NEW r \in Requests, NEW g \in Targets, Arrive(r, g) PROVE NoResidue'
  BY <1>26 DEF Arrive
<1>27. ASSUME NEW r \in Requests, NEW t \in Targets \cup {Unroutable}, Spill(r, t) PROVE NoResidue'
  BY <1>27 DEF Spill, LeaveQueue, PatchUpstream
<1>28. ASSUME NEW r \in Requests, NEW t \in Targets, PoolRow(r, t) PROVE NoResidue'
  BY <1>28 DEF PoolRow, PatchUpstream
<1>29. ASSUME NEW r \in Requests, NEW g \in Targets, Rescue(r, g) PROVE NoResidue'
  BY <1>29 DEF Rescue, PatchUpstream
<1>30. ASSUME NEW g \in Groups, StickyExpires(g) PROVE NoResidue'
  BY <1>30 DEF StickyExpires
<1>31. ASSUME NEW p \in Ports, RemovePort(p) PROVE NoResidue'
  BY <1>31 DEF RemovePort
<1>32. ASSUME NEW p \in Ports, DropPort(p) PROVE NoResidue'
  BY <1>32 DEF DropPort
<1>33. CASE Idle \/ UNCHANGED vars
  BY <1>33 DEF Idle, vars
<1>34. QED
  BY <1>1, <1>2, <1>3, <1>4, <1>5, <1>6, <1>7, <1>8, <1>9, <1>10, <1>11, <1>12, <1>13, <1>14,
     <1>15, <1>16, <1>17, <1>18, <1>19, <1>20, <1>21, <1>22, <1>23, <1>24, <1>25, <1>26, <1>27,
     <1>28, <1>29, <1>30, <1>31, <1>32, <1>33
  DEF Next, Request, Thread, Waiting, Preempting, Forwarding

\* Whatever way a request leaves (refused, spilled, given up by its client,
\* stopped, finished), in every configuration: its entry, its id in
\* admitted_requests, its item and its control are gone when it is over.
THEOREM NothingLeftBehind == Spec => []NoResidue
<1>1. Init => NoResidue
  BY DEF Init, NoResidue, StoppingPcs, QueuePcs
<1>2. TypeOK /\ NoResidue /\ [Next]_vars => NoResidue'
  BY NoResidueStep
<1>3. QED
  BY <1>1, <1>2, TypeCorrect, PTL DEF Spec

\* An id enters admitted_requests only from the head of its queue.
LEMMA AdmittedFromHead ==
    ASSUME TypeOK, [Next]_vars, NEW q \in Requests, q \in admitted', q \notin admitted
    PROVE  IsHead(q)
<1> USE DEF TypeOK, threadVars, queueVars, itemVars, stopVars
<1> DEFINE Goal == IsHead(q)
<1> HIDE DEF Goal
<1>1. ASSUME NEW r \in Requests, Refuse(r) PROVE Goal
  BY <1>1 DEF Refuse
<1>2. ASSUME NEW r \in Requests, SkipQueue(r) PROVE Goal
  BY <1>2 DEF SkipQueue
<1>3. ASSUME NEW r \in Requests, Enqueue(r) PROVE Goal
  BY <1>3 DEF Enqueue
<1>4. ASSUME NEW r \in Requests, Admit(r) PROVE Goal
  BY <1>4 DEF Goal, Admit, SlotFree, TakeSlot
<1>5. ASSUME NEW r \in Requests, Stay(r) PROVE Goal
  BY <1>5 DEF Stay, Patch
<1>6. ASSUME NEW r \in Requests, CloudFallback(r) PROVE Goal
  BY <1>6 DEF CloudFallback, LeaveQueue
<1>7. ASSUME NEW r \in Requests, WaitMore(r) PROVE Goal
  BY <1>7 DEF WaitMore
<1>8. ASSUME NEW r \in Requests, ChooseVictim(r) PROVE Goal
  BY <1>8 DEF ChooseVictim
<1>9. ASSUME NEW r \in Requests, StopVictim(r) PROVE Goal
  BY <1>9 DEF StopVictim
<1>10. ASSUME NEW r \in Requests, MarkPreempting(r) PROVE Goal
  BY <1>10 DEF MarkPreempting, Patch
<1>11. ASSUME NEW r \in Requests, CloseVictim(r) PROVE Goal
  BY <1>11 DEF CloseVictim
<1>12. ASSUME NEW r \in Requests, GraceAdmit(r) PROVE Goal
  BY <1>12 DEF Goal, GraceAdmit, TakeSlot
<1>13. ASSUME NEW r \in Requests, GraceOver(r) PROVE Goal
  BY <1>13 DEF GraceOver
<1>14. ASSUME NEW r \in Requests, MarkReceived(r) PROVE Goal
  BY <1>14 DEF MarkReceived, Patch
<1>15. ASSUME NEW r \in Requests, Discard(r) PROVE Goal
  BY <1>15 DEF Discard
<1>16. ASSUME NEW r \in Requests, LegDiscard(r) PROVE Goal
  BY <1>16 DEF LegDiscard
<1>17. ASSUME NEW r \in Requests, PoolRefuses(r) PROVE Goal
  BY <1>17 DEF PoolRefuses, Patch
<1>18. ASSUME NEW r \in Requests, Register(r) PROVE Goal
  BY <1>18 DEF Register
<1>19. ASSUME NEW r \in Requests, Forward(r) PROVE Goal
  BY <1>19 DEF Forward, Patch
<1>20. ASSUME NEW r \in Requests, NextRow(r) PROVE Goal
  BY <1>20 DEF NextRow
<1>21. ASSUME NEW r \in Requests, End(r) PROVE Goal
  BY <1>21 DEF End
<1>22. ASSUME NEW r \in Requests, FinishItem(r) PROVE Goal
  BY <1>22 DEF FinishItem
<1>23. ASSUME NEW r \in Requests, FinishQueue(r) PROVE Goal
  BY <1>23 DEF FinishQueue
<1>24. ASSUME NEW r \in Requests, ClientGone(r) PROVE Goal
  BY <1>24 DEF ClientGone, LeaveQueue
<1>25. ASSUME NEW r \in Requests, Watch(r) PROVE Goal
  BY <1>25 DEF Watch
<1>26. ASSUME NEW r \in Requests, NEW g \in Targets, Arrive(r, g) PROVE Goal
  BY <1>26 DEF Arrive
<1>27. ASSUME NEW r \in Requests, NEW t \in Targets \cup {Unroutable}, Spill(r, t) PROVE Goal
  BY <1>27 DEF Spill, LeaveQueue, PatchUpstream
<1>28. ASSUME NEW r \in Requests, NEW t \in Targets, PoolRow(r, t) PROVE Goal
  BY <1>28 DEF PoolRow, PatchUpstream
<1>29. ASSUME NEW r \in Requests, NEW g \in Targets, Rescue(r, g) PROVE Goal
  BY <1>29 DEF Rescue, PatchUpstream
<1>30. ASSUME NEW g \in Groups, StickyExpires(g) PROVE Goal
  BY <1>30 DEF StickyExpires
<1>31. ASSUME NEW p \in Ports, RemovePort(p) PROVE Goal
  BY <1>31 DEF RemovePort
<1>32. ASSUME NEW p \in Ports, DropPort(p) PROVE Goal
  BY <1>32 DEF DropPort
<1>33. CASE Idle \/ UNCHANGED vars
  BY <1>33 DEF Idle, vars
<1>34. QED
  BY <1>1, <1>2, <1>3, <1>4, <1>5, <1>6, <1>7, <1>8, <1>9, <1>10, <1>11, <1>12, <1>13, <1>14,
     <1>15, <1>16, <1>17, <1>18, <1>19, <1>20, <1>21, <1>22, <1>23, <1>24, <1>25, <1>26, <1>27,
     <1>28, <1>29, <1>30, <1>31, <1>32, <1>33
  DEF Goal, Next, Request, Thread, Waiting, Preempting, Forwarding

\* In every configuration, with spills from queue to queue, pools' rows and
\* preemption: no request gets a slot past an older waiter of the same server
\* (queue_position in wait_for_proxy_slot and in the grace period).
THEOREM FirstComeFirstServed == Spec => NoOvertaking
<1> DEFINE Step == \A r \in pending : \A q \in Ahead(r) : ~(r \in admitted')
<1>1. TypeOK /\ NoResidue /\ [Next]_vars => [Step]_vars
  <2> SUFFICES ASSUME TypeOK, NoResidue, [Next]_vars, NEW r \in pending, NEW q \in Ahead(r),
                      r \in admitted'
               PROVE  FALSE
    OBVIOUS
  <2>1. r \in Requests /\ r \notin admitted
    BY DEF NoResidue, TypeOK, StoppingPcs, QueuePcs
  <2>2. QED
    BY <2>1, AdmittedFromHead DEF IsHead
<1>2. QED
  BY <1>1, TypeCorrect, NothingLeftBehind, PTL DEF Spec, NoOvertaking

\* The victims that a preemptor is about to stop may be stopped.
VictimsPlain ==
    \A r \in Requests : victim[r] # None =>
        \/ Priority[PortOf[victim[r]]] <= 0 /\ PortOf[victim[r]] \in Preemptible
        \/ PortOf[victim[r]] \in removed

LEMMA CrownStep ==
    ASSUME TypeOK, VictimsPlain, CrownSafe, [Next]_vars
    PROVE  VictimsPlain' /\ CrownSafe'
<1> USE RequestsAssumption, RoutesAssumption
        DEF TypeOK, VictimsPlain, CrownSafe, StoppingPcs, threadVars, queueVars, itemVars, stopVars
<1> DEFINE Goal == VictimsPlain' /\ CrownSafe'
<1>0. removed \subseteq removed'
  BY DEF Next, StickyExpires, RemovePort, DropPort, Idle, vars
<1>1. ASSUME NEW r \in Requests, Refuse(r) PROVE Goal
  BY <1>0, <1>1 DEF Refuse
<1>2. ASSUME NEW r \in Requests, SkipQueue(r) PROVE Goal
  BY <1>0, <1>2 DEF SkipQueue
<1>3. ASSUME NEW r \in Requests, Enqueue(r) PROVE Goal
  BY <1>0, <1>3 DEF Enqueue
<1>4. ASSUME NEW r \in Requests, Admit(r) PROVE Goal
  BY <1>0, <1>4 DEF Admit, TakeSlot, Patch
<1>5. ASSUME NEW r \in Requests, Stay(r) PROVE Goal
  BY <1>0, <1>5 DEF Stay, Patch
<1>6. ASSUME NEW r \in Requests, CloudFallback(r) PROVE Goal
  BY <1>0, <1>6 DEF CloudFallback, LeaveQueue
<1>7. ASSUME NEW r \in Requests, WaitMore(r) PROVE Goal
  BY <1>0, <1>7 DEF WaitMore
<1>8. ASSUME NEW r \in Requests, ChooseVictim(r) PROVE Goal
  BY <1>0, <1>8 DEF ChooseVictim, Victims, Candidates, LivePriority
<1>9. ASSUME NEW r \in Requests, StopVictim(r) PROVE Goal
  BY <1>0, <1>9 DEF StopVictim
<1>10. ASSUME NEW r \in Requests, MarkPreempting(r) PROVE Goal
  BY <1>0, <1>10 DEF MarkPreempting, Patch
<1>11. ASSUME NEW r \in Requests, CloseVictim(r) PROVE Goal
  BY <1>0, <1>11 DEF CloseVictim
<1>12. ASSUME NEW r \in Requests, GraceAdmit(r) PROVE Goal
  BY <1>0, <1>12 DEF GraceAdmit, TakeSlot
<1>13. ASSUME NEW r \in Requests, GraceOver(r) PROVE Goal
  BY <1>0, <1>13 DEF GraceOver
<1>14. ASSUME NEW r \in Requests, MarkReceived(r) PROVE Goal
  BY <1>0, <1>14 DEF MarkReceived, Patch
<1>15. ASSUME NEW r \in Requests, Discard(r) PROVE Goal
  BY <1>0, <1>15 DEF Discard
<1>16. ASSUME NEW r \in Requests, LegDiscard(r) PROVE Goal
  BY <1>0, <1>16 DEF LegDiscard
<1>17. ASSUME NEW r \in Requests, PoolRefuses(r) PROVE Goal
  BY <1>0, <1>17 DEF PoolRefuses, Patch
<1>18. ASSUME NEW r \in Requests, Register(r) PROVE Goal
  BY <1>0, <1>18 DEF Register
<1>19. ASSUME NEW r \in Requests, Forward(r) PROVE Goal
  BY <1>0, <1>19 DEF Forward, Patch
<1>20. ASSUME NEW r \in Requests, NextRow(r) PROVE Goal
  BY <1>0, <1>20 DEF NextRow
<1>21. ASSUME NEW r \in Requests, End(r) PROVE Goal
  BY <1>0, <1>21 DEF End
<1>22. ASSUME NEW r \in Requests, FinishItem(r) PROVE Goal
  BY <1>0, <1>22 DEF FinishItem
<1>23. ASSUME NEW r \in Requests, FinishQueue(r) PROVE Goal
  BY <1>0, <1>23 DEF FinishQueue
<1>24. ASSUME NEW r \in Requests, ClientGone(r) PROVE Goal
  BY <1>0, <1>24 DEF ClientGone, LeaveQueue
<1>25. ASSUME NEW r \in Requests, Watch(r) PROVE Goal
  BY <1>0, <1>25 DEF Watch
<1>26. ASSUME NEW r \in Requests, NEW g \in Targets, Arrive(r, g) PROVE Goal
  BY <1>0, <1>26 DEF Arrive
<1>27. ASSUME NEW r \in Requests, NEW t \in Targets \cup {Unroutable}, Spill(r, t) PROVE Goal
  BY <1>0, <1>27 DEF Spill, LeaveQueue, PatchUpstream
<1>28. ASSUME NEW r \in Requests, NEW t \in Targets, PoolRow(r, t) PROVE Goal
  BY <1>0, <1>28 DEF PoolRow, PatchUpstream
<1>29. ASSUME NEW r \in Requests, NEW g \in Targets, Rescue(r, g) PROVE Goal
  BY <1>0, <1>29 DEF Rescue, PatchUpstream
<1>30. ASSUME NEW g \in Groups, StickyExpires(g) PROVE Goal
  BY <1>0, <1>30 DEF StickyExpires
<1>31. ASSUME NEW p \in Ports, RemovePort(p) PROVE Goal
  BY <1>0, <1>31 DEF RemovePort
<1>32. ASSUME NEW p \in Ports, DropPort(p) PROVE Goal
  BY <1>0, <1>32 DEF DropPort
<1>33. CASE Idle \/ UNCHANGED vars
  BY <1>0, <1>33 DEF Idle, vars
<1>34. QED
  BY <1>1, <1>2, <1>3, <1>4, <1>5, <1>6, <1>7, <1>8, <1>9, <1>10, <1>11, <1>12, <1>13, <1>14,
     <1>15, <1>16, <1>17, <1>18, <1>19, <1>20, <1>21, <1>22, <1>23, <1>24, <1>25, <1>26, <1>27,
     <1>28, <1>29, <1>30, <1>31, <1>32, <1>33
  DEF Next, Request, Thread, Waiting, Preempting, Forwarding

\* In every configuration a crowned or non-preemptible request is never stopped
\* by a preemptor, whatever becomes of its victim between the choice and the
\* stop (choose_preemption_victim, append_stop_request, stop_request_watcher).
THEOREM CrownsSafe == Spec => []CrownSafe
<1>1. Init => VictimsPlain /\ CrownSafe
  BY DEF Init, VictimsPlain, CrownSafe
<1>2. TypeOK /\ VictimsPlain /\ CrownSafe /\ [Next]_vars => (VictimsPlain /\ CrownSafe)'
  BY CrownStep
<1>3. QED
  BY <1>1, <1>2, TypeCorrect, PTL DEF Spec

-----------------------------------------------------------------------------
(* The count is exact where every request for a server waits in its queue. *)

\* No cell in a pool, no removal of ports, no cloud fallback that keeps the
\* local route, no rescue edge to a server.
EveryoneQueues == NoBypass /\ CloudBackup = {} /\ RescueTo \cap Groups = {}

\* A waiter's item is "queued"; past the queue a request for a server has a slot
\* of it; a victim is past the queue for good.
ItemsHeld ==
    \A r \in Requests :
        /\ ~fallback[r]
        /\ pc[r] \in {"arrived", "admitted"} \cup QueuePcs => phase[r] = "queued"
        /\ pc[r] \in SlotPcs \ {"finishing"} /\ route[r] \in Groups => grant[r] # None
        /\ pc[r] = "finishing" /\ phase[r] # "queued" /\ route[r] \in Groups => grant[r] # None
        /\ r \in admitted => grant[r] # None
        /\ pc[r] \in StoppingPcs =>
               /\ phase[victim[r]] # "queued"
               /\ pc[victim[r]] \notin {"idle", "arrived", "admitted"} \cup QueuePcs

LEMMA ItemsHeldStep ==
    ASSUME EveryoneQueues, TypeOK, NoneRemoved, HandOver, NoResidue, ItemsHeld, [Next]_vars
    PROVE  ItemsHeld'
<1> USE RequestsAssumption, RoutesAssumption, GroupsAssumption
        DEF TypeOK, HandOver, ItemsHeld, StoppingPcs, QueuePcs, SlotPcs, Pcs, Phases, None, Cloud,
            threadVars, queueVars, itemVars, stopVars
<1>0. NoBypass
  BY DEF EveryoneQueues
<1>1. ASSUME NEW r \in Requests, Refuse(r) PROVE ItemsHeld'
  BY <1>1 DEF Refuse
<1>2. ASSUME NEW r \in Requests, SkipQueue(r) PROVE ItemsHeld'
  BY <1>2 DEF SkipQueue
<1>3. ASSUME NEW r \in Requests, Enqueue(r) PROVE ItemsHeld'
  BY <1>3 DEF Enqueue
<1>4. ASSUME NEW r \in Requests, Admit(r) PROVE ItemsHeld'
  BY <1>4 DEF Admit, TakeSlot, Patch
<1>5. ASSUME NEW r \in Requests, Stay(r) PROVE ItemsHeld'
  BY <1>5 DEF Stay, Patch
<1>6. ASSUME NEW r \in Requests, CloudFallback(r) PROVE ItemsHeld'
  BY <1>6 DEF CloudFallback, EveryoneQueues
<1>7. ASSUME NEW r \in Requests, WaitMore(r) PROVE ItemsHeld'
  BY <1>7 DEF WaitMore
<1>8. ASSUME NEW r \in Requests, ChooseVictim(r) PROVE ItemsHeld'
  BY <1>8 DEF ChooseVictim, Victims, Candidates, NoResidue
<1>9. ASSUME NEW r \in Requests, StopVictim(r) PROVE ItemsHeld'
  BY <1>9 DEF StopVictim
<1>10. ASSUME NEW r \in Requests, MarkPreempting(r) PROVE ItemsHeld'
  BY <1>10 DEF MarkPreempting, Patch
<1>11. ASSUME NEW r \in Requests, CloseVictim(r) PROVE ItemsHeld'
  BY <1>11 DEF CloseVictim
<1>12. ASSUME NEW r \in Requests, GraceAdmit(r) PROVE ItemsHeld'
  BY <1>12 DEF GraceAdmit, TakeSlot
<1>13. ASSUME NEW r \in Requests, GraceOver(r) PROVE ItemsHeld'
  BY <1>13 DEF GraceOver
<1>14. ASSUME NEW r \in Requests, MarkReceived(r) PROVE ItemsHeld'
  BY <1>14 DEF MarkReceived, Patch
<1>15. ASSUME NEW r \in Requests, Discard(r) PROVE ItemsHeld'
  BY <1>15 DEF Discard
<1>16. ASSUME NEW r \in Requests, LegDiscard(r) PROVE ItemsHeld'
  BY <1>16 DEF LegDiscard
<1>17. ASSUME NEW r \in Requests, PoolRefuses(r) PROVE ItemsHeld'
  BY <1>17 DEF PoolRefuses, Patch
<1>18. ASSUME NEW r \in Requests, Register(r) PROVE ItemsHeld'
  BY <1>18 DEF Register
<1>19. ASSUME NEW r \in Requests, Forward(r) PROVE ItemsHeld'
  BY <1>19 DEF Forward, Patch
<1>20. ASSUME NEW r \in Requests, NextRow(r) PROVE ItemsHeld'
  <2>1. r \notin admitted /\ ~fallback[r]
    BY <1>20 DEF NextRow, NoResidue
  <2>2. QED
    BY <1>20, <2>1 DEF NextRow
<1>21. ASSUME NEW r \in Requests, End(r) PROVE ItemsHeld'
  BY <1>21 DEF End
<1>22. ASSUME NEW r \in Requests, FinishItem(r) PROVE ItemsHeld'
  BY <1>22 DEF FinishItem
<1>23. ASSUME NEW r \in Requests, FinishQueue(r) PROVE ItemsHeld'
  BY <1>23 DEF FinishQueue
<1>24. ASSUME NEW r \in Requests, ClientGone(r) PROVE ItemsHeld'
  BY <1>24 DEF ClientGone, LeaveQueue
<1>25. ASSUME NEW r \in Requests, Watch(r) PROVE ItemsHeld'
  BY <1>25 DEF Watch
<1>26. ASSUME NEW r \in Requests, NEW g \in Targets, Arrive(r, g) PROVE ItemsHeld'
  BY <1>26 DEF Arrive
<1>27. ASSUME NEW r \in Requests, NEW t \in Targets \cup {Unroutable}, Spill(r, t) PROVE ItemsHeld'
  BY <1>27 DEF Spill, LeaveQueue, PatchUpstream
<1>28. ASSUME NEW r \in Requests, NEW t \in Targets, PoolRow(r, t) PROVE ItemsHeld'
  <2>1. t = Cloud
    BY <1>28, <1>0 DEF PoolRow, NoBypass
  <2>2. QED
    BY <1>28, <2>1 DEF PoolRow
<1>29. ASSUME NEW r \in Requests, NEW g \in Targets, Rescue(r, g) PROVE ItemsHeld'
  <2>1. /\ g \notin Groups /\ pc[r] \in {"upstream", "refused"}
        /\ pc' = [pc EXCEPT ![r] = "legs"] /\ route' = [route EXCEPT ![r] = g]
        /\ grant' = [grant EXCEPT ![r] = None] /\ fallback' = [fallback EXCEPT ![r] = FALSE]
        /\ UNCHANGED <<phase, victim, admitted>>
    BY <1>29 DEF Rescue, EveryoneQueues
  <2>2. r \notin admitted
    BY <2>1 DEF NoResidue
  <2>3. QED
    BY <2>1, <2>2
<1>30. ASSUME NEW g \in Groups, StickyExpires(g) PROVE ItemsHeld'
  BY <1>30 DEF StickyExpires
<1>31. CASE Idle \/ UNCHANGED vars
  BY <1>31 DEF Idle, vars
<1>32. QED
  BY <1>0, PlainSteps, <1>1, <1>2, <1>3, <1>4, <1>5, <1>6, <1>7, <1>8, <1>9, <1>10, <1>11, <1>12,
     <1>13, <1>14, <1>15, <1>16, <1>17, <1>18, <1>19, <1>20, <1>21, <1>22, <1>23, <1>24, <1>25,
     <1>26, <1>27, <1>28, <1>29, <1>30, <1>31
  DEF Request, Thread, Waiting, Preempting, Forwarding

\* In such a configuration, with spills, sticky slots and preemption,
\* active_count sees no request that holds no slot (capacity.py:138): with
\* HoldersCounted, it counts the holders exactly.
THEOREM CountExact ==
    ASSUME EveryoneQueues
    PROVE  Spec => []NoPhantom
<1>0. NoBypass
  BY DEF EveryoneQueues
<1>1. Init => ItemsHeld
  BY DEF Init, ItemsHeld, StoppingPcs, QueuePcs, SlotPcs, None
<1>2. TypeOK /\ HandOver /\ NoneRemoved /\ NoResidue /\ ItemsHeld /\ [Next]_vars => ItemsHeld'
  BY ItemsHeldStep
<1>3. TypeOK /\ HandOver /\ NoResidue /\ ItemsHeld => NoPhantom
  <2> SUFFICES ASSUME TypeOK, NoResidue, HandOver, ItemsHeld PROVE NoPhantom
    OBVIOUS
  <2>1. ASSUME NEW g \in Groups, NEW r \in Counted(g, phase) PROVE r \in Holders(g)
    <3>1. /\ r \in Requests /\ upstream[r] = g /\ phase[r] # None
          /\ r \in admitted \/ phase[r] # "queued"
      BY DEF Counted
    <3>2. pc[r] \notin {"idle", "retiring", "done"} /\ route[r] = g
      BY <3>1 DEF NoResidue, HandOver
    <3>3. pc[r] \in SlotPcs /\ grant[r] # None
      BY <2>1, <3>1, <3>2
      DEF TypeOK, NoResidue, HandOver, ItemsHeld, Pcs, SlotPcs, StoppingPcs, QueuePcs
    <3>4. QED
      BY <3>1, <3>2, <3>3 DEF Holders
  <2>2. QED
    BY <2>1 DEF NoPhantom
<1>4. QED
  BY <1>0, <1>1, <1>2, <1>3, TypeCorrect, HandedOver, NothingLeftBehind, PTL DEF Spec
=============================================================================
