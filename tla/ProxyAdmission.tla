---------------------------- MODULE ProxyAdmission ----------------------------
(***************************************************************************)
(* Slot admission in the proxy daemon (caravan/proxy).                     *)
(*                                                                         *)
(* Every request runs on a thread of its own (ProxyHandler.proxy).  A      *)
(* request bound for a llama.cpp server waits in that server's FIFO queue  *)
(* (wait_for_proxy_slot) until active_count(group) < max_slots, is then    *)
(* kept in admitted_requests until its monitor item has left the phase     *)
(* "queued", is forwarded, and is finished by finish_active.  The queue is *)
(* guarded by queue_condition, the monitor items by lock; the two are      *)
(* taken one after the other, so the steps below are the stretches of code *)
(* between two lock acquisitions that another thread can observe.          *)
(*                                                                         *)
(* Time is abstract: a threshold (spill, cloud fallback, preemption, grace *)
(* period, sticky window) may be reached at any moment.                    *)
(***************************************************************************)
EXTENDS Integers, FiniteSets

CONSTANTS
    Requests,        \* request ids; an id is never used twice
    Ports,           \* routes, one listening port each
    PortOf,          \* the port a request arrives on
    Groups,          \* queue groups: "host:port" of the llama servers
    MaxSlots,        \* slots of each group (length of /slots, or policy.maxSlots)
    Priority,        \* a route's priority; a crown is a priority above 0
    Preemptible,     \* the routes that are not marked preemptible: false
    PreemptEnabled,  \* policy.preemptEnabled
    StickyOn,        \* policy.stickySlotSec > 0
    Paused,          \* the routes that may be in mode paused or drain
    SpillTo,         \* targets of the queue node before a group; {}: implicit queue
    SpillLimit,      \* spills of one request before it is refused
    CloudBackup,     \* the routes with a cloudFallbackProviderId
    PoolPorts,       \* the routes whose output is a pool
    PoolRows,        \* the rows of a pool (a route's output or its cloud fallback):
                     \* cells, by their group, and Cloud
    RescueTo,        \* where the onError node's rescue edge leads
    RescueLimit,     \* rescue hops of one request
    PortRemoval      \* whether the configuration may drop a port with requests

Cloud == "cloud"
Unroutable == "unroutable"
None == "none"

ASSUME RequestsAssumption ==
    /\ IsFiniteSet(Requests)
    /\ None \notin Requests

ASSUME RoutesAssumption ==
    /\ PortOf \in [Requests -> Ports]
    /\ None \notin Ports
    /\ Priority \in [Ports -> Int]
    /\ Preemptible \subseteq Ports
    /\ Paused \subseteq Ports
    /\ CloudBackup \subseteq Ports
    /\ PoolPorts \subseteq Ports

ASSUME GroupsAssumption ==
    /\ MaxSlots \in [Groups -> Nat \ {0}]
    /\ {Cloud, Unroutable, None} \cap Groups = {}
    /\ SpillTo \in [Groups -> SUBSET (Groups \cup {Cloud, Unroutable})]
    /\ PoolRows \subseteq Groups \cup {Cloud}
    /\ RescueTo \subseteq Groups \cup {Cloud}

ASSUME PolicyAssumption ==
    /\ PreemptEnabled \in BOOLEAN
    /\ StickyOn \in BOOLEAN
    /\ PortRemoval \in BOOLEAN
    /\ SpillLimit \in Nat
    /\ RescueLimit \in Nat

VARIABLES
    \* Each handler thread's own state.
    pc,          \* where the thread is
    route,       \* route_group_key of the thread's `route`
    grant,       \* how wait_for_proxy_slot returned: by the queue, or in the grace period
    fallback,    \* cloud_fallback_provider_id is set: the queue gave the request up
    row,         \* pool_row_id: the pool's row this leg goes to
    attempted,   \* _pool_attempted: the pool's rows this request has failed on
    spills,      \* spill_guard
    rescues,     \* _rescue_hops
    tried,       \* entry["preemptTried"]
    victim,      \* the victim this thread is preempting
    \* Shared between the threads.
    pending,     \* the ids in pending_requests
    seq,         \* entry["seq"] of each entry
    queue_seq,   \* the last sequence number given
    admitted,    \* admitted_requests
    sticky,      \* sticky_slots: the port that a group's slot is reserved for
    phase,       \* a monitor item's phase; None: the request has no item
    upstream,    \* a monitor item's upstream
    controls,    \* active_controls: the requests whose connection can be closed
    stops,       \* the ids in stopRequests of agent-proxies.json
    seen,        \* the ids stop_request_watcher has closed
    closed,      \* the requests whose upstream connection a stop has closed
    removed      \* the ports that are gone from the configuration

threadVars == <<route, grant, fallback, row, attempted, spills, rescues, tried, victim>>
queueVars == <<pending, seq, queue_seq, admitted, sticky>>
itemVars == <<phase, upstream>>
stopVars == <<controls, stops, seen, closed>>
vars == <<pc, threadVars, queueVars, itemVars, stopVars, removed>>

Targets == Groups \cup {Cloud}
StoppingPcs == {"stop", "mark", "close"}
QueuePcs == {"top", "contend", "grace"} \cup StoppingPcs
SlotPcs == {"admitted", "received", "legs", "granted", "connect", "sending", "upstream",
            "refused", "finishing"}
Pcs == {"idle", "arrived", "retiring", "done"} \cup QueuePcs \cup SlotPcs
Phases == {None, "queued", "received", "preempting", "upstream"}

TypeOK ==
    /\ pc \in [Requests -> Pcs]
    /\ route \in [Requests -> Targets \cup {None}]
    /\ grant \in [Requests -> {None, "queue", "grace"}]
    /\ fallback \in [Requests -> BOOLEAN]
    /\ row \in [Requests -> Targets \cup {None}]
    /\ attempted \in [Requests -> SUBSET Targets]
    /\ spills \in [Requests -> Nat]
    /\ rescues \in [Requests -> Nat]
    /\ tried \in [Requests -> BOOLEAN]
    /\ victim \in [Requests -> Requests \cup {None}]
    /\ pending \subseteq Requests
    /\ seq \in [Requests -> Nat]
    /\ queue_seq \in Nat
    /\ admitted \subseteq Requests
    /\ sticky \in [Groups -> Ports \cup {None}]
    /\ phase \in [Requests -> Phases]
    /\ upstream \in [Requests -> Targets \cup {None}]
    /\ controls \subseteq Requests
    /\ stops \subseteq Requests
    /\ seen \subseteq Requests
    /\ closed \subseteq Requests
    /\ removed \subseteq Ports
    /\ \A r \in Requests : pc[r] \in StoppingPcs => victim[r] # None

Init ==
    /\ pc = [r \in Requests |-> "idle"]
    /\ route = [r \in Requests |-> None]
    /\ grant = [r \in Requests |-> None]
    /\ fallback = [r \in Requests |-> FALSE]
    /\ row = [r \in Requests |-> None]
    /\ attempted = [r \in Requests |-> {}]
    /\ spills = [r \in Requests |-> 0]
    /\ rescues = [r \in Requests |-> 0]
    /\ tried = [r \in Requests |-> FALSE]
    /\ victim = [r \in Requests |-> None]
    /\ pending = {}
    /\ seq = [r \in Requests |-> 0]
    /\ queue_seq = 0
    /\ admitted = {}
    /\ sticky = [g \in Groups |-> None]
    /\ phase = [r \in Requests |-> None]
    /\ upstream = [r \in Requests |-> None]
    /\ controls = {}
    /\ stops = {}
    /\ seen = {}
    /\ closed = {}
    /\ removed = {}

-----------------------------------------------------------------------------
(* What the code computes from the shared state.                           *)

\* The waiters of r's group that are ahead of it in the order of seq.
Ahead(r) == {q \in pending : route[q] = route[r] /\ seq[q] < seq[r]}

\* queue_position(r, group) == 0
IsHead(r) == Ahead(r) = {}

\* active_count(g), for the items' phases ph.
Counted(g, ph) ==
    {r \in Requests : /\ upstream[r] = g
                      /\ ph[r] # None
                      /\ r \in admitted \/ ph[r] # "queued"}

\* sticky_slot_blocks(g, port)
StickyBlocks(g, p) == sticky[g] \notin {None, p}

\* update_active: an item that is gone is not patched.
Patch(r, ph) == [phase EXCEPT ![r] = IF @ = None THEN None ELSE ph]

\* Mutant: the item stays with the group it came for.
PatchUpstreamLost(r, g) == upstream

\* update_active with an "upstream" in the patch.
PatchUpstream(r, g) == [upstream EXCEPT ![r] = IF phase[r] = None THEN @ ELSE g]

\* local_leg: the thread waits, or forwards, for a pool's local row.
Leg(r) == row[r] \in Groups

\* The wait is in the implicit queue: no queue node's spec governs it.
Implicit(r) == Leg(r) \/ SpillTo[route[r]] = {}

CanPreempt(r) ==
    /\ Priority[PortOf[r]] > 0
    /\ PreemptEnabled
    /\ Implicit(r)
    /\ ~tried[r]

\* live_route_for_port: a port that is gone has no priority and no mark.
LivePriority(p) == IF p \in removed THEN 0 ELSE Priority[p]

\* Mutant: crowned requests are no longer spared.
CandidatesAny(g) ==
    {v \in Requests : /\ phase[v] \notin {None, "queued"}
                      /\ upstream[v] = g
                      /\ PortOf[v] \in Preemptible \cup removed}

\* choose_preemption_victim: among the lowest priorities, the oldest by whole
\* seconds; requests of one second are told apart by no rule of the code.
Candidates(g) ==
    {v \in Requests : /\ phase[v] \notin {None, "queued"}
                      /\ upstream[v] = g
                      /\ LivePriority(PortOf[v]) <= 0
                      /\ PortOf[v] \in Preemptible \cup removed}

Victims(g) ==
    {v \in Candidates(g) :
        \A w \in Candidates(g) : LivePriority(PortOf[v]) <= LivePriority(PortOf[w])}

\* The requests that may occupy a slot of the llama server itself.
AtServer(g) ==
    {r \in Requests : pc[r] = "upstream" /\ route[r] = g /\ (fallback[r] => Leg(r))}

\* What its /slots may tell: a request may not have reached it yet, and may be
\* over there while its answer is still relayed.
ServerBusy(g) == 0 .. Cardinality(AtServer(g))

\* proxy_or_llama_has_capacity with prefer_llama: the server's count when it
\* answers, the proxy's own when it does not.
HasCapacity(g) ==
    \/ \E n \in ServerBusy(g) : n < MaxSlots[g]
    \/ Cardinality(Counted(g, phase)) < MaxSlots[g]

-----------------------------------------------------------------------------
(* Arrival and the queue.                                                  *)

\* proxy(): the route is resolved and the request's item is added, "queued".
Arrive(r, g) ==
    /\ pc[r] = "idle"
    /\ (PortOf[r] \in PoolPorts) <=> (g = Cloud)
    /\ pc' = [pc EXCEPT ![r] = "arrived"]
    /\ route' = [route EXCEPT ![r] = g]
    /\ phase' = [phase EXCEPT ![r] = "queued"]
    /\ upstream' = [upstream EXCEPT ![r] = g]
    /\ UNCHANGED <<grant, fallback, row, attempted, spills, rescues, tried, victim, queueVars,
                   stopVars>>

\* The route was read in mode paused or drain: ProxyRequestBlocked, then
\* finish_active.  The mode stays with the route through spills and legs.
Refuse(r) ==
    /\ pc[r] = "arrived"
    /\ PortOf[r] \in Paused
    /\ spills[r] = 0 /\ ~Leg(r)
    /\ pc' = [pc EXCEPT ![r] = "finishing"]
    /\ UNCHANGED <<threadVars, queueVars, itemVars, stopVars>>

\* A cloud route skips the queue.
SkipQueue(r) ==
    /\ pc[r] = "arrived"
    /\ route[r] = Cloud
    /\ pc' = [pc EXCEPT ![r] = "admitted"]
    /\ UNCHANGED <<threadVars, queueVars, itemVars, stopVars>>

\* wait_for_proxy_slot: the entry is appended with the next sequence number.
Enqueue(r) ==
    /\ pc[r] = "arrived"
    /\ route[r] \in Groups
    /\ pc' = [pc EXCEPT ![r] = "top"]
    /\ tried' = [tried EXCEPT ![r] = FALSE]
    /\ queue_seq' = queue_seq + 1
    /\ seq' = [seq EXCEPT ![r] = queue_seq + 1]
    /\ pending' = pending \cup {r}
    /\ UNCHANGED <<route, grant, fallback, row, attempted, spills, rescues, victim,
                   admitted, sticky, itemVars, stopVars>>

\* The entry leaves the queue without a slot (the finally clause).
LeaveQueue(r) ==
    /\ pending' = pending \ {r}
    /\ admitted' = admitted \ {r}
    /\ UNCHANGED <<seq, queue_seq, sticky>>

\* The client hung up: client_gone, or a keepalive that meets a broken pipe.
ClientGone(r) ==
    /\ pc[r] = "top"
    /\ pc' = [pc EXCEPT ![r] = "finishing"]
    /\ LeaveQueue(r)
    /\ UNCHANGED <<threadVars, itemVars, stopVars>>

\* Mutant: a spill edge that leads nowhere is followed.
SpillUnchecked(r, t) ==
    /\ pc[r] = "top"
    /\ ~Leg(r)
    /\ t \in SpillTo[route[r]]
    /\ spills' = [spills EXCEPT ![r] = @ + 1]
    /\ LeaveQueue(r)
    /\ pc' = [pc EXCEPT ![r] = IF t = Cloud THEN "admitted" ELSE "arrived"]
    /\ route' = [route EXCEPT ![r] = t]
    /\ upstream' = PatchUpstream(r, t)
    /\ UNCHANGED <<grant, fallback, row, attempted, rescues, tried, victim, phase, stopVars>>

\* The queue node's spill threshold: the route is resolved again from the
\* spill edge, and the request is refused when that leads nowhere.
Spill(r, t) ==
    /\ pc[r] = "top"
    /\ ~Leg(r)
    /\ t \in SpillTo[route[r]]
    /\ spills' = [spills EXCEPT ![r] = @ + 1]
    /\ LeaveQueue(r)
    /\ IF t = Unroutable \/ spills[r] >= SpillLimit
       THEN /\ pc' = [pc EXCEPT ![r] = "finishing"]
            /\ UNCHANGED <<route, upstream>>
       ELSE /\ pc' = [pc EXCEPT ![r] = IF t = Cloud THEN "admitted" ELSE "arrived"]
            /\ route' = [route EXCEPT ![r] = t]
            /\ upstream' = PatchUpstream(r, t)
    /\ UNCHANGED <<grant, fallback, row, attempted, rescues, tried, victim, phase, stopVars>>

\* The implicit queue's threshold on a route with a cloud provider to fall
\* back on: the forwarding resolves that provider, a pool perhaps, while the
\* route itself stays the local one.  A leg's own route names no fallback
\* (pool_leg), so a leg waits until it is served or its client leaves.
CloudFallback(r) ==
    /\ pc[r] = "top"
    /\ Implicit(r)
    /\ ~Leg(r)
    /\ PortOf[r] \in CloudBackup
    /\ pc' = [pc EXCEPT ![r] = "admitted"]
    /\ fallback' = [fallback EXCEPT ![r] = TRUE]
    /\ LeaveQueue(r)
    /\ UNCHANGED <<route, grant, row, attempted, spills, rescues, tried, victim, itemVars,
                   stopVars>>

\* Mutant: one slot too many.
SlotFreeOffByOne(r) ==
    /\ ~StickyBlocks(route[r], PortOf[r])
    /\ IsHead(r)
    /\ Cardinality(Counted(route[r], Patch(r, "queued"))) <= MaxSlots[route[r]]

\* One pass of the loop under queue_condition: the item is published as
\* queued, a reservation for this port is used up, and the head of the queue
\* takes a slot if fewer than max_slots requests are counted.
SlotFree(r) ==
    /\ ~StickyBlocks(route[r], PortOf[r])
    /\ IsHead(r)
    /\ Cardinality(Counted(route[r], Patch(r, "queued"))) < MaxSlots[route[r]]

ClearSticky(r) ==
    sticky' = [sticky EXCEPT ![route[r]] =
                  IF StickyBlocks(route[r], PortOf[r]) THEN @ ELSE None]

\* The entry moves from pending_requests to admitted_requests.
TakeSlot(r, how) ==
    /\ pending' = pending \ {r}
    /\ admitted' = admitted \cup {r}
    /\ grant' = [grant EXCEPT ![r] = how]
    /\ pc' = [pc EXCEPT ![r] = IF Leg(r) THEN "granted" ELSE "admitted"]
    /\ UNCHANGED <<route, fallback, row, attempted, spills, rescues, tried, victim,
                   seq, queue_seq, upstream, stopVars>>

Admit(r) ==
    /\ pc[r] = "top"
    /\ SlotFree(r)
    /\ phase' = Patch(r, "queued")
    /\ ClearSticky(r)
    /\ TakeSlot(r, "queue")

Stay(r) ==
    /\ pc[r] = "top"
    /\ ~SlotFree(r)
    /\ phase' = Patch(r, "queued")
    /\ ClearSticky(r)
    /\ pc' = [pc EXCEPT ![r] = IF CanPreempt(r) THEN "contend" ELSE "top"]
    /\ UNCHANGED <<threadVars, pending, seq, queue_seq, admitted, upstream, stopVars>>

-----------------------------------------------------------------------------
(* Priority preemption.                                                    *)

\* The preemption threshold is not reached yet: wait 0.25s and loop.
WaitMore(r) ==
    /\ pc[r] = "contend"
    /\ pc' = [pc EXCEPT ![r] = "top"]
    /\ UNCHANGED <<threadVars, queueVars, itemVars, stopVars>>

ChooseVictim(r) ==
    /\ pc[r] = "contend"
    /\ tried' = [tried EXCEPT ![r] = TRUE]
    /\ \/ /\ Victims(route[r]) = {}
          /\ pc' = [pc EXCEPT ![r] = "top"]
          /\ UNCHANGED victim
       \/ \E v \in Victims(route[r]) :
             /\ victim' = [victim EXCEPT ![r] = v]
             /\ pc' = [pc EXCEPT ![r] = "stop"]
    /\ UNCHANGED <<route, grant, fallback, row, attempted, spills, rescues, queueVars, itemVars,
                   stopVars>>

\* append_stop_request, under config_lock ...
StopVictim(r) ==
    /\ pc[r] = "stop"
    /\ pc' = [pc EXCEPT ![r] = "mark"]
    /\ stops' = stops \cup {victim[r]}
    /\ UNCHANGED <<threadVars, queueVars, itemVars, controls, seen, closed>>

\* ... the victim's phase, under the items' lock ...
MarkPreempting(r) ==
    /\ pc[r] = "mark"
    /\ pc' = [pc EXCEPT ![r] = "close"]
    /\ phase' = Patch(victim[r], "preempting")
    /\ UNCHANGED <<threadVars, queueVars, upstream, stopVars>>

\* ... and close_active_request, under active_controls_lock: the connection is
\* closed at once when the victim has registered one.
CloseVictim(r) ==
    /\ pc[r] = "close"
    /\ pc' = [pc EXCEPT ![r] = "grace"]
    /\ closed' = closed \cup ({victim[r]} \cap controls)
    /\ UNCHANGED <<threadVars, queueVars, itemVars, controls, stops, seen>>

\* Mutant: the grace period is for any preemptor.
GraceAdmitAnyone(r) ==
    /\ pc[r] = "grace"
    /\ HasCapacity(route[r])
    /\ TakeSlot(r, "grace")
    /\ UNCHANGED <<sticky, phase>>

\* The grace period: the head of the queue takes the freed slot.
GraceAdmit(r) ==
    /\ pc[r] = "grace"
    /\ IsHead(r)
    /\ HasCapacity(route[r])
    /\ TakeSlot(r, "grace")
    /\ UNCHANGED <<sticky, phase>>

GraceOver(r) ==
    /\ pc[r] = "grace"
    /\ pc' = [pc EXCEPT ![r] = "top"]
    /\ UNCHANGED <<threadVars, queueVars, itemVars, stopVars>>

\* stop_request_watcher: an id of stopRequests whose control is registered is
\* closed, and is closed by the watcher once.  The control may be the one of an
\* earlier leg, whose connection is over already.
Watch(r) ==
    /\ r \in (stops \cap controls) \ seen
    /\ closed' = closed \cup {r}
    /\ seen' = seen \cup {r}
    /\ UNCHANGED <<pc, threadVars, queueVars, itemVars, controls, stops>>

-----------------------------------------------------------------------------
(* Forwarding.                                                             *)

\* Mutant: the phase is left as it is.
MarkReceivedSilent(r) ==
    /\ pc[r] = "admitted"
    /\ pc' = [pc EXCEPT ![r] = "received"]
    /\ UNCHANGED <<threadVars, queueVars, itemVars, stopVars>>

\* Mutant: the id is discarded before the phase is set.
MarkReceivedDiscards(r) ==
    /\ pc[r] = "admitted"
    /\ pc' = [pc EXCEPT ![r] = "received"]
    /\ admitted' = admitted \ {r}
    /\ UNCHANGED <<threadVars, pending, seq, queue_seq, sticky, itemVars, stopVars>>

\* The phase leaves "queued" first ...
MarkReceived(r) ==
    /\ pc[r] = "admitted"
    /\ pc' = [pc EXCEPT ![r] = "received"]
    /\ phase' = Patch(r, "received")
    /\ UNCHANGED <<threadVars, queueVars, upstream, stopVars>>

\* ... and only then the id leaves admitted_requests.
Discard(r) ==
    /\ pc[r] = "received"
    /\ pc' = [pc EXCEPT ![r] = "legs"]
    /\ admitted' = admitted \ {r}
    /\ UNCHANGED <<threadVars, pending, seq, queue_seq, sticky, itemVars, stopVars>>

\* Mutant: the id is not discarded.
LegDiscardForgotten(r) ==
    /\ pc[r] = "granted"
    /\ pc' = [pc EXCEPT ![r] = "connect"]
    /\ UNCHANGED <<threadVars, queueVars, itemVars, stopVars>>

\* A pool's local row got its slot: here the id is discarded while the phase
\* is still "queued".
LegDiscard(r) ==
    /\ pc[r] = "granted"
    /\ pc' = [pc EXCEPT ![r] = "connect"]
    /\ admitted' = admitted \ {r}
    /\ UNCHANGED <<threadVars, pending, seq, queue_seq, sticky, itemVars, stopVars>>

\* The next leg resolves a pool: the route's own, or the fallback's.
InPool(r) == fallback[r] \/ (PortOf[r] \in PoolPorts /\ route[r] = Cloud)

\* pool_steps.resolve: the next row.  A cell's row turns the route into the
\* cell's and waits in its queue; the item is moved to the cell's group.
PoolRow(r, t) ==
    /\ pc[r] = "legs"
    /\ InPool(r)
    /\ t \in PoolRows \ attempted[r]
    /\ row' = [row EXCEPT ![r] = t]
    /\ IF t = Cloud
       THEN /\ pc' = [pc EXCEPT ![r] = "connect"]
            /\ UNCHANGED <<route, upstream>>
       ELSE /\ pc' = [pc EXCEPT ![r] = "arrived"]
            /\ route' = [route EXCEPT ![r] = t]
            /\ upstream' = PatchUpstream(r, t)
    /\ UNCHANGED <<grant, fallback, attempted, spills, rescues, tried, victim, queueVars, phase,
                   stopVars>>

\* No row of the pool fits now: the pool's own refusal stands for an answer.
PoolRefuses(r) ==
    /\ pc[r] = "legs"
    /\ InPool(r)
    /\ pc' = [pc EXCEPT ![r] = "refused"]
    /\ phase' = Patch(r, "upstream")
    /\ UNCHANGED <<threadVars, queueVars, upstream, stopVars>>

\* Mutant: the failed row is not remembered.
NextRowForgets(r) ==
    /\ pc[r] = "upstream"
    /\ row[r] # None
    /\ pc' = [pc EXCEPT ![r] = "legs"]
    /\ route' = [route EXCEPT ![r] = IF fallback[r] THEN @ ELSE Cloud]
    /\ row' = [row EXCEPT ![r] = None]
    /\ grant' = [grant EXCEPT ![r] = None]
    /\ UNCHANGED <<fallback, attempted, spills, rescues, tried, victim, queueVars, itemVars,
                   stopVars>>

\* The row failed before its first byte and the pool is asked again, from the
\* pool's own route: a provider's refusal for a limit, or, when another row is
\* left, no connection or an answer of 500 and above.
NextRow(r) ==
    /\ pc[r] = "upstream"
    /\ row[r] # None
    /\ row[r] = Cloud \/ PoolRows \ (attempted[r] \cup {row[r]}) # {}
    /\ attempted' = [attempted EXCEPT ![r] = @ \cup {row[r]}]
    /\ pc' = [pc EXCEPT ![r] = "legs"]
    /\ route' = [route EXCEPT ![r] = IF fallback[r] THEN @ ELSE Cloud]
    /\ row' = [row EXCEPT ![r] = None]
    /\ grant' = [grant EXCEPT ![r] = None]
    /\ UNCHANGED <<fallback, spills, rescues, tried, victim, queueVars, itemVars, stopVars>>

\* register_active_control: from here on a stop finds the connection ...
Register(r) ==
    /\ pc[r] = "connect" \/ (pc[r] = "legs" /\ ~InPool(r))
    /\ pc' = [pc EXCEPT ![r] = "sending"]
    /\ controls' = controls \cup {r}
    /\ UNCHANGED <<threadVars, queueVars, itemVars, stops, seen, closed>>

\* ... the phase follows, and the request is sent on.  http.client connects
\* again a connection that was closed before it was used: such a stop is lost.
Forward(r) ==
    /\ pc[r] = "sending"
    /\ pc' = [pc EXCEPT ![r] = "upstream"]
    /\ phase' = Patch(r, "upstream")
    /\ closed' = closed \ {r}
    /\ UNCHANGED <<threadVars, queueVars, upstream, controls, stops, seen>>

\* The leg failed before any output: the request is replayed down the rescue
\* edge.  A rescue to a cell does not wait in the cell's queue.
Rescue(r, g) ==
    /\ pc[r] \in {"upstream", "refused"}
    /\ g \in RescueTo
    /\ rescues[r] < RescueLimit
    /\ rescues' = [rescues EXCEPT ![r] = @ + 1]
    /\ pc' = [pc EXCEPT ![r] = "legs"]
    /\ route' = [route EXCEPT ![r] = g]
    /\ upstream' = PatchUpstream(r, g)
    /\ grant' = [grant EXCEPT ![r] = None]
    /\ row' = [row EXCEPT ![r] = None]
    /\ fallback' = [fallback EXCEPT ![r] = FALSE]
    /\ UNCHANGED <<attempted, spills, tried, victim, queueVars, phase, stopVars>>

\* The answer was relayed, or it failed, was stopped or lost its client.
End(r) ==
    /\ pc[r] \in {"upstream", "refused"}
    /\ pc' = [pc EXCEPT ![r] = "finishing"]
    /\ UNCHANGED <<threadVars, queueVars, itemVars, stopVars>>

\* Mutant: the item is not removed.
FinishItemKept(r) ==
    /\ pc[r] = "finishing"
    /\ pc' = [pc EXCEPT ![r] = "retiring"]
    /\ controls' = controls \ {r}
    /\ UNCHANGED <<threadVars, queueVars, itemVars, stops, seen, closed>>

\* The control is removed and finish_active, under lock, removes the item ...
FinishItem(r) ==
    /\ pc[r] = "finishing"
    /\ pc' = [pc EXCEPT ![r] = "retiring"]
    /\ phase' = [phase EXCEPT ![r] = None]
    /\ controls' = controls \ {r}
    /\ UNCHANGED <<threadVars, queueVars, upstream, stops, seen, closed>>

\* ... then, under queue_condition, the id is discarded and the slot is
\* reserved for the port (a port whose own upstreamType is llama: the output
\* comes from its router).
FinishQueue(r) ==
    /\ pc[r] = "retiring"
    /\ pc' = [pc EXCEPT ![r] = "done"]
    /\ admitted' = admitted \ {r}
    /\ sticky' = IF StickyOn /\ route[r] \in Groups
                 THEN [sticky EXCEPT ![route[r]] = PortOf[r]]
                 ELSE sticky
    /\ UNCHANGED <<threadVars, pending, seq, queue_seq, itemVars, stopVars>>

-----------------------------------------------------------------------------
(* The environment.                                                        *)

\* The reservation's window ends; whoever looks at it next drops it.
StickyExpires(g) ==
    /\ sticky[g] # None
    /\ sticky' = [sticky EXCEPT ![g] = None]
    /\ UNCHANGED <<pc, threadVars, pending, seq, queue_seq, admitted, itemVars, stopVars, removed>>

\* The configuration is written without the port, or with it disabled.
RemovePort(p) ==
    /\ PortRemoval
    /\ p \notin removed
    /\ removed' = removed \cup {p}
    /\ UNCHANGED <<pc, threadVars, queueVars, itemVars, stopVars>>

\* sync_agents_state: the rows of a port that is no longer enabled are
\* dropped, its requests' items with them.
DropPort(p) ==
    /\ p \in removed
    /\ \E r \in Requests : PortOf[r] = p /\ phase[r] # None
    /\ phase' = [r \in Requests |-> IF PortOf[r] = p THEN None ELSE phase[r]]
    /\ UNCHANGED <<pc, threadVars, queueVars, upstream, stopVars, removed>>

\* Every request is over and no reservation is left: the daemon is idle.
Idle ==
    /\ \A r \in Requests : pc[r] = "done"
    /\ \A g \in Groups : sticky[g] = None
    /\ UNCHANGED vars

-----------------------------------------------------------------------------
Waiting(r) ==
    \/ Admit(r)
    \/ Stay(r)
    \/ \E t \in Targets \cup {Unroutable} : Spill(r, t)
    \/ CloudFallback(r)

Preempting(r) ==
    \/ WaitMore(r)
    \/ ChooseVictim(r)
    \/ StopVictim(r)
    \/ MarkPreempting(r)
    \/ CloseVictim(r)
    \/ GraceAdmit(r)
    \/ GraceOver(r)

Forwarding(r) ==
    \/ MarkReceived(r)
    \/ Discard(r)
    \/ LegDiscard(r)
    \/ \E t \in Targets : PoolRow(r, t)
    \/ PoolRefuses(r)
    \/ Register(r)
    \/ Forward(r)
    \/ NextRow(r)
    \/ \E g \in Targets : Rescue(r, g)
    \/ End(r)
    \/ FinishItem(r)
    \/ FinishQueue(r)

\* What r's own thread does, apart from noticing that its client left.
Thread(r) ==
    \/ Refuse(r)
    \/ SkipQueue(r)
    \/ Enqueue(r)
    \/ Waiting(r)
    \/ Preempting(r)
    \/ Forwarding(r)

Request(r) ==
    \/ \E g \in Targets : Arrive(r, g)
    \/ Thread(r)
    \/ ClientGone(r)
    \/ Watch(r)

Next ==
    \/ \E r \in Requests : Request(r) /\ UNCHANGED removed
    \/ \E g \in Groups : StickyExpires(g)
    \/ \E p \in Ports : RemovePort(p) \/ DropPort(p)
    \/ Idle

Spec == Init /\ [][Next]_vars

\* Each thread keeps running: the queue loop wakes every 0.25s, an upstream
\* read times out after 600s, and a sticky window is a finite time.
Fairness ==
    /\ \A r \in Requests : WF_vars(Thread(r) /\ UNCHANGED removed)
    /\ \A g \in Groups : WF_vars(StickyExpires(g))

FairSpec == Spec /\ Fairness

-----------------------------------------------------------------------------
(* Properties.                                                             *)

\* The requests that were given a slot of g and have not given it back:
\* wait_for_proxy_slot returned, finish_active has not removed the item.
Holders(g) ==
    {r \in Requests : route[r] = g /\ grant[r] # None /\ pc[r] \in SlotPcs}

\* Every request that holds a slot is seen by active_count, at every moment of
\* its hand-over from admitted_requests to its item's phase (handler.py:673).
HolderCounted == \A g \in Groups : Holders(g) \subseteq Counted(g, phase)

\* active_count sees no request that holds no slot: a slot the count calls
\* taken is taken ("Count requests occupying a slot", capacity.py:138).
NoPhantom == \A g \in Groups : Counted(g, phase) \subseteq Holders(g)

\* The configurations without the two paths on which a request loses its place
\* in the count: a pool's local row, and the removal of a port.
NoBypass == PoolRows \subseteq {Cloud} /\ ~PortRemoval

\* How a slot is handed over, in such a configuration.  A leg goes to no cell; a
\* waiter has no slot; a request with an item is counted for the group its thread goes to; between
\* the slot and the phase "received" its id is in admitted_requests, and from
\* there on its phase is not "queued" (handler.py:673-676, capacity.py:148).
HandOver ==
    \A r \in Requests :
        /\ row[r] # None => row[r] = Cloud /\ (fallback[r] \/ route[r] = Cloud)
        /\ pc[r] # "granted"
        /\ pc[r] \in {"idle", "arrived"} \cup QueuePcs => grant[r] = None /\ row[r] = None
        /\ pc[r] \in QueuePcs => route[r] \in Groups
        /\ pc[r] \notin {"idle", "retiring", "done"} =>
               phase[r] # None /\ upstream[r] = route[r]
        /\ pc[r] = "admitted" /\ grant[r] # None => r \in admitted
        /\ pc[r] \in SlotPcs \ {"admitted"} /\ grant[r] # None => phase[r] # "queued"

\* Whenever the queue gives a slot away there is one: with it no more requests
\* hold slots of the server than it has, those counted that a preemption let in
\* on the server's own word included (queue_admission.py:391).  More than it has
\* hold slots only after a grace period's admission (queue_admission.py:438).
QueueBound ==
    [][\A r \in Requests : grant[r] = None /\ grant'[r] = "queue" =>
           Cardinality(Holders(route[r])') <= MaxSlots[route[r]]]_vars

\* The queue's own shape: an entry for every thread in the queue loop, numbered
\* no higher than queue_seq; a slot is always a server's; the preemption states
\* are reached only when the policy allows preemption.
QueueShape ==
    /\ pending = {r \in Requests : pc[r] \in QueuePcs}
    /\ \A r \in pending : seq[r] <= queue_seq
    /\ \A r \in Requests : grant[r] # None => route[r] \in Groups
    /\ ~PreemptEnabled => \A r \in Requests : pc[r] \notin {"contend", "grace"} \cup StoppingPcs

\* Whatever way a request leaves, nothing of it stays behind: an entry in
\* pending_requests belongs to a thread in the queue loop, an id in
\* admitted_requests to a thread being handed over, and a request that is over
\* has no item and no control that a late stop could close.
NoResidue ==
    /\ pending = {r \in Requests : pc[r] \in QueuePcs}
    /\ \A r \in admitted : pc[r] \in {"admitted", "received", "granted"}
    /\ \A r \in Requests :
           pc[r] \in {"idle", "retiring", "done"} => phase[r] = None /\ r \notin controls

\* A crowned or non-preemptible request is never stopped by a preemptor, even
\* when items change between the choice of the victim and its stop; only the
\* crown of a port that is gone from the configuration protects no more.
CrownSafe ==
    \A r \in stops \cup closed :
        \/ Priority[PortOf[r]] <= 0 /\ PortOf[r] \in Preemptible
        \/ PortOf[r] \in removed

\* A request never gets a slot past an older waiter of the same server.
NoOvertaking ==
    [][\A r \in pending : \A q \in Ahead(r) : ~(r \in admitted')]_vars

\* A request that enters a queue leaves it and is finished: by a slot, a
\* spill, a fallback, a refusal or its client.
Served == \A r \in Requests : pc[r] \in QueuePcs ~> pc[r] = "done"

-----------------------------------------------------------------------------
(* Without preemption, pools and port removal, admission implements the    *)
(* first-come-first-served slots of SlotGroup.                             *)

wantBar == [r \in Requests |-> IF r \in pending THEN route[r] ELSE None]
holdBar ==
    [r \in Requests |->
        IF grant[r] # None /\ pc[r] \in SlotPcs THEN route[r] ELSE None]
beforeBar == [r \in Requests |-> IF r \in pending THEN Ahead(r) ELSE {}]

Slots == INSTANCE SlotGroup WITH want <- wantBar, hold <- holdBar, before <- beforeBar

\* wait_for_proxy_slot, the hand-over in handler.py and finish_active together
\* implement the slots: no step of any thread hands out a slot out of order or
\* above the limit.
ImplementsSlots == Slots!Spec
=============================================================================
