# LAMA CARAVAN: specification and proofs

LAMA CARAVAN is a control plane for llama.cpp servers ("cells") and cloud
providers: a proxy and a controller in Python with the standard library only, and
pages in plain JavaScript. This directory holds TLA+ models of its concurrent core,
the TLC configurations that check them, and proofs about them for the TLAPS proof
system.

    tlc -config adm_queue.cfg MCProxyAdmission      # a run
    tlapm ProxyAdmissionProofs.tla                  # the proofs of a module

## 1. The system

Two long-lived processes, the proxy and the controller ("admin"), share a state
directory and talk through its files. Browser pages poll the controller and post
changes to it.

| Component | Source | State | Operations | Interacts with |
|---|---|---|---|---|
| proxy: request handler | `caravan/proxy/handler.py` | one thread per request: its route, pool rows tried, rescues, spills | `proxy`: arrive, route, queue, legs, retry, rescue, relay, end | everything else in the proxy |
| proxy: slot queue | `queue_admission.py`, `capacity.py`, `runtime.py` | `pending_requests`, `queue_seq`, `admitted_requests`, `sticky_slots`, `active_controls` | `wait_for_proxy_slot`, preemption, `stop_request_watcher` | items, `/slots` of the servers, `agent-proxies.json` |
| proxy: bookkeeping | `state.py`, `events.py` | the monitor items (phase, upstream) of each port; the state file | `add_active`, `update_active`, `finish_active`, `sync_agents_state`, `write_state` | read by the queue, the admin's board |
| proxy: pools | `pool_steps.py`, `pool_watch.py` | the row each request and each pool is at, readings | `resolve`, `snapshot` | queue capacity, usage readings |
| proxy: router graph | `graph.py`, `outputs.py` | none: computed from the configuration and capacities | `apply_router`, `chain_exit`, `resolve_graph` | capacity, health |
| proxy: output health | `output_health.py`, `output_probe.py` | verdicts with a time to live | note, probe, next exit | handler, graph |
| proxy: configuration, listeners | `config.py`, `listeners.py`, `upstream_pool.py` | cache by mtime, listening sockets, kept connections | `current_config`, `reconcile_listeners` | the admin's files |
| common: credential vault | `common/credential_vault.py` | `provider-secrets.json`, its file locks | `oauth`, `put_oauth`, `put_api_key`, `replace`, `delete` | both processes, the OAuth provider |
| admin: proxy document | `admin/proxies_config.py`, `proxy_ops.py`, `topology.py` | `agent-proxies.json`, the versions of its lists, `ProxyRevisions.LOCK` | `save_agent_proxy_config`, `set_routers`, `topology_state` | pages, the proxy's stop requests |
| admin: store moves | `admin/store_moves.py` | job manifests, files in two stores, the worker thread | plan, copy, prove, settle, remove, cancel, resume, the promise of a cell's start | disks, libraries, the models page |
| admin: sign-in, sessions | `admin/auth.py`, `oauth.py` | sessions, device sign-ins | poll, expire | vault |
| static: Routing board | `step-carry.js`, `pool-board.js`, `pools.js`, `topology-render.js`, `polling.js` | the last answer, what was drawn from it, what the pointer holds, deferred drawings | carry, cable, key, redraw, poll, post | the controller, other tabs |
| static: saves of the document | `routers.js`, `topology-proxies.js`, `canvas.js` | the page's copy of the lists and its versions, the schedule's save queue | `saveRouters`, `saveProxyRoutes`, `saveGrid` | the controller, other tabs |
| static: models page | `model-moves.js`, `models-page.js` | known jobs, the poll's timer, the tree drawn | mount, tick, start, stop, dismiss, refresh | store moves |
| domain, cells, other pages | `caravan/domain`, `cells`, `static` | processes and browser views | command lines, rendering | |

What is hard in it, and what has to hold:

* **Handing over a slot.** The queue is guarded by `queue_condition`, the items by
  `lock`, and the two are never held as one. A slot is first recorded in
  `admitted_requests`, then in the item's phase, by two acquisitions. In between
  any other thread may count. Correct: every holder is counted at every moment,
  and the queue never gives away a slot that is not there.
* **Order.** Waiters poll, wake and leave for six different reasons. Correct:
  nobody is let in past an older waiter of the same server, and an entry never
  outlives its thread.
* **Preemption** takes a victim's connection in several steps while items change.
  Correct: a crowned request is never stopped by another.
* **Locks.** Twelve locks, taken from each other's holders through four modules.
  Correct: no thread waits in a circle, nor for itself.
* **Rotating tokens in two processes.** A refresh token works once. Correct: two
  renewals of an account never overlap, no write of anything else restores a spent
  token, and a renewal brings no deleted account back.
* **Crash recovery** of renewals (locks, the answer that was not stored) and of
  store moves. Correct: no original is removed unless its copy stands whole and is
  written at the other end, whatever dies, is edited or is lost up to the last look
  at the original; a job ends, and ends once.
* **Whole lists saved from a page's copy.** Correct: a save never takes out a change
  made since the copy, the schedule never goes back, and a change is stored or the
  operator is told.
* **Read, change and write without a lock**: the same document is also rewritten by
  every board read that finds new outputs, by the handlers of a route's single fields
  and by the proxy's stops. Correct only as far as these writes do not overlap.
* **Drawings that race the hand.** Polls, readings and answers draw the page while
  something is held on it. Correct: what is held stays, an order let go of is saved
  or drawn back, and in the end the screen shows what the controller keeps.
* **Answers out of order.** Correct: an older listing never replaces a newer one, and
  a move shown as running is shown as ended.
* **Stops racing retries**: a closed connection looks like a dead upstream.
* **Files written by two processes**: lost updates, stale caches, snapshots
  written out of order.

`PROJECT.json` lists each of these hazards at its line.

## 2. Modules

| Module | Models | Role |
|---|---|---|
| `ProxyAdmission` | the life of a request through the queue, pool rows, rescues and its end | core |
| `SlotGroup` | a fixed number of slots and a first-come-first-served queue per server | what admission promises |
| `ProxyAdmissionProofs` | | proofs |
| `ProxyLocks` | each operation of the proxy as the locks it takes | core |
| `ProxyLocksProofs` | | proofs |
| `CredentialVault` | the credential document, its two kinds of file lock, the provider | core |
| `CredentialDoc` | a document that changes one field of one account at a time | what the vault promises |
| `CredentialVaultProofs` | | proofs |
| `StoreMoves` | the planner, the mover and the runner of store moves, with two stores and a process that dies | core |
| `MoveJobs` | jobs that are opened once and closed once | what the mover promises; the server in `ModelsPage` |
| `StoreMovesProofs` | | proofs |
| `ModelsPage` | the move tracker and the tree of the models page, composed with `MoveJobs` | page |
| `ModelsPageProofs` | | proofs |
| `ProxyDocument` | the proxy document, its versions and writers, and the pages that save it | composition |
| `ProxyDocumentProofs` | | proofs |
| `RoutingBoard` | who may draw the Routing page, and when | page |
| `RoutingBoardProofs` | | proofs |
| `MCProxyAdmission`, `MCProxyLocks`, `MCCredentialVault`, `MCStoreMoves`, `MCModelsPage` | | instances for TLC |

A definition that carries the comment "Mutant" is a form of the definition after
it with a plausible bug. No specification uses it; `PROJECT.json` names the property
that must fail when it takes the real definition's place.

### ProxyAdmission

A request is a thread with a program counter; a step is a stretch of code between
two lock acquisitions that another thread can observe. The names are those of the
code: `pending`, `seq`, `admitted`, `sticky`, `controls`, `stops`, and each item's
`phase` and `upstream`.

* `Arrive`, `Refuse`, `SkipQueue`, `Enqueue`: from the accepted connection to the
  entry in `pending_requests` (`handler.py:449-576`, `queue_admission.py:271-348`).
* `Admit`, `Stay`, `WaitMore`, `Spill`, `CloudFallback`, `ClientGone`: one pass of
  the queue loop. `SlotFree` is its condition, `IsHead` the position, `Counted` is
  `active_count`, `TakeSlot` and `ClearSticky` what admission changes.
* `ChooseVictim`, `StopVictim` (the stop request), `MarkPreempting` (the item's phase),
  `CloseVictim` (the connection), `GraceAdmit`, `GraceOver`, `Watch`: preemption, in
  the steps in which other threads can interfere. `LivePriority` is the victim's
  priority as the configuration has it at that moment: none for a removed port. (Other
  edits of a port's priority while its requests run are not modelled.)
* `MarkReceived`, `Discard` (the hand-over), `LegDiscard` (the same in a pool's
  local row, the other way round), `PoolRow`, `NextRow`, `PoolRefuses`,
  `Register` (the control a stop finds), `Forward`, `Rescue`, `End`: the legs. A cloud
  fallback may name a pool too, so its rows are walked in the same way (`InPool`).
* `FinishItem`, `FinishQueue`: `finish_active`, under its two locks one after the other.
* `RemovePort` takes a port out of the configuration, `DropPort` is `sync_agents_state`
  for it, later; `StickyExpires` is the end of a reservation.

A row's queue cannot give up on a request by a spill, a fallback or a refusal
(`handler.py:1007-1019`): `pool_leg` takes the fallback out of the leg's route
(`outputs.py:54-62`) and the leg has no queue node, so that clause has no steps here.

Time is abstract: every threshold (spill, fallback, preemption, grace period,
sticky window) may be reached at any moment at which the code looks at it. Request
bodies, models, keepalives, usage and logs are left out. The server's own count
(`/slots`) is external: it is what has been forwarded and not yet ended.

### ProxyLocks

An operation is a sequence of acquisitions and releases, composed with `With(l, body)`
in the shape of the code's `with` statements, calls expanded. Threads choose operations
freely. `Failover` tells whether an exit behind an onError node passes through
a failover node, which asks for the server's capacity.

### CredentialVault

Callers are threads of both processes. Each call is: the account's lock (renewals,
sign-ins, deletions), for a renewal the read of the entry and the token request,
the document's lock, the read, the write, the release. The provider numbers its
tokens; a rotation spends the one presented. `Restores` allows exported settings
to be put back (`replace`), `Lossy` an answer that is lost after the rotation and a
write that fails, `Crashes` the death of a caller at any step, whose file locks the
kernel releases. Whether a token is due is a free choice (`NotRenewed`). The access
token and its times are not modelled: they go with the refresh token. An entry may be
the bare key an older version wrote (`BareKey`): a new key replaces it, and a sign-in
drops it (`WithToken`).

### StoreMoves and MoveJobs

The state is that of the two stores (`src`, `part`, `dst` for each file), the job's
record on disk (`saved`) and in the process (`mem`), and the worker's place. Each
step of the worker is one operation on a store or one write of the manifest, so a
`Crash` can fall between any two; `Resume` starts from the manifests. Content is a
version: "planned", "edited" since, or "bad" for a wrong block (`BadBlock`). `fresh`
holds what a library acknowledged and has not written: `LibraryRestarts` loses it, and
waiting `SETTLE_S` is modelled by what it waits for, that this job's own copies are
written (`Settle`). `Trouble` is an `OSError` on the way and `UnlinkFails` one at the
removal; `Breaks` is any other exception anywhere in a job, a manifest that cannot be
saved included, and `WorkerDies` the same in the handler's own save. `Meddle` is
somebody else: an edit, a deletion, or an entry that appears in a folder (`Late`), which
may be a link or another odd entry (`Odd`) that the walk does not see. A folder's
removal is `rmtree`: what is there goes, planned or not (`Standing`, `Doomed`), entry by
entry. `touched` records what changed after the mover's last look. `Prune` drops the
record of an ended job. `ImplementsJobs` shows that the jobs on disk behave as
`MoveJobs`: restarts never reopen an ended job.

### ModelsPage

The server is `MoveJobs` with how each job ended. A call of the tracker is a record
that goes from its post to its answer; `Shape` is what the tree says of each file,
`Redraws` when the tracker asks the page for a new tree, `After` is `refresh` with
what its caller does then. `listing` and `older` are the tree's own requests.
Polls, posts and listings overlap freely: each answer is that of its own reading, and
lands when it lands. `crossed` records that an answer changed what the tracker knows
although another one had changed it while this one was on its way (`Overtaken`; see
Departures); the operator begins nothing new after it.

### ProxyDocument

A list is the set of changes made to it and its version is its value: the code's
version is a digest. A task goes through the controller's steps: `Check`, `Load` and
`Write` under the lock, then `Topology`, and if the outputs changed `Fresh`,
`SyncWrite`, `Reread`, under none; `Arrive` is what the page does with the answer, made
again once if it was refused. `Lost` is a failed connection whose request may still be
on its way. The schedule is the number of the stroke that painted it last, with
`saveGrid`'s queue. `StopRead` and `StopWrite` are the proxy's `append_stop_request`
(the controller's own stop in `proxy_ops.py` reads and writes the same way), `PatchRead`
and `PatchWrite` the controller's handlers that set one field of one route; neither
takes the lock. A router's inputs follow the routes (`normalize_routers`), so the
routers' version changes with a change of the routes in `PortEdits`.

Every one of these steps may fall between any two others. `torn` records that a write
found the document changed since the reading it was made from, or a reading differed
from the one it was taken for: what the code may lose then is listed under Departures,
and the properties say that it loses nothing else. After such a write the pages and the
writers begin nothing new; what was begun goes on in any order to its end.

### RoutingBoard

What is drawn is reduced to the order of each list on the page. `topology` is the
answer the page holds, `top` the one its last full drawing was made from, `screen`
what is on it. `Render`, `ApplyUpdate`, `FlushPending`, `Redraw`, `Settled` and
`Applied` are the six functions that draw, as functions of a page, chained as in the
code; `carry` is `StepCarry` with its phases, `keyed` the keyboard's unsaved moves.
Answers to posts and polls come in any order. A field in focus is one that is typed in
(`Typing`, which the board's own redraw waits for) or another (which only
`topologyInteractionActive` sees); `FlushTimer` is the page-wide flush after a focus has
moved on (`main.js:285`). `Press` and `Key` are free at any moment; `hasty` records that
a card was taken while a keyboard's save or a due redraw was not over (see Departures).
A level's handle and the hours' stroke hold the board exactly as a cable does and are
not separate. The page has two carriers of the same class, for rows and for cards
(`pool-board.js:1520-1523`), and one pointer: the model has one.

## 3. Runs

| Run | Instance | Checks |
|---|---|---|
| `adm_queue` | 3 requests on 2 ports, servers with 1 and 2 slots, a queue node that spills to the other server, the cloud or nowhere, sticky slots | `TypeOK`, `HolderCounted`, `NoPhantom`, `ImplementsSlots` |
| `adm_preempt` | 2 crowned requests, 1 plain, 1 slot, preemption and sticky slots, fairness | `HandOver`, `CrownSafe`, `QueueBound`, `NoOvertaking`, `Served` |
| `adm_pool` | a pool's port (a cell and the cloud), a local port, both with a cloud fallback, a paused port, a rescue edge, port removal, fairness | `NoResidue`, `Served` |
| `locks` | 3 threads, all operations, no failover node behind a backup node | `NoCircularWait`, `LockOrder` |
| `vault` | 3 callers, 2 accounts, 3 tokens | `TokenKept`, `NotResurrected`, `ImplementsDoc` |
| `vault_faults` | 2 callers, 1 account, 2 tokens, restores, losses, crashes, fairness | `TypeOK`, `OneRenewal`, `Returns` |
| `board` | 2 pools' rows with 2 orders, 2 posts at once and 3 acts of the operator, other pages and faults, fairness | `TypeOK`, `OrderKept`, `ScreenOwed`, `HeldStill`, `ScreenSettles` |
| `moves` | 1 job of a two-file group and a folder, into a library, one file's name taken there, 2 more entries of the folder that may appear, one of them no file, 2 faults, fairness | `TypeOK`, `NoFileLost`, `DoneIsMoved`, `PromiseSafe`, `JobsEnd`, `ImplementsJobs` |
| `moves_page` | 2 moves of 1 file, 2 calls at once, 3 acts, fairness | `TypeOK`, `NoOlderTree`, `TreeFollows` |
| `routers` | 2 tabs, a change of the routers and two of the routes, these made by a page or by a handler without the lock, 2 strokes, a stop, a new output, 2 requests at once, 3 acts, fairness | `TypeOK`, `NoLostEdit`, `GridForward`, `ChangesEnd` |

Bounds. Three requests are what the queue's hazards need: one with the slot, the
head, and one behind it; with preemption a victim and two preemptors. Two servers
are needed for spills only, and one of them has two slots so that "one below the
limit" is a state. Sticky reservations, one spill and one rescue can all happen.
Three threads are one more than a circle of two needs; the lock order makes longer
circles need nothing new. Two accounts show that a write keeps the other account's entry;
three tokens allow a sign-in and two rotations. Requests and callers that differ in
name only are symmetric in the runs without liveness.

For a move, two faults are a crash and what changed while the controller was down, or
an edit and an error; two files in one item are needed for a removal that stops half
way, a folder for the scan. On the pages three acts are a change here, one elsewhere and
a loss; polls (except in `routers`), timers and answers are not bounded, and every
action fires within the bounds. Two requests at the controller are what a race needs, two
strokes what a queue of one needs. The bounds on acts are those at which a run with its
liveness takes at most a few minutes; the theorems hold without them.

Two runs show the code differing from what its own text says. Each checks one
property and TLC finds the behaviour:

| Run | What happens |
|---|---|
| `locks_failover` | with a failover node behind an onError node `write_state` asks for `lock` while it has it, and the thread waits for itself (`NoCircularWait`) |
| `moves_settle` | a move cancelled after its copy took its name is started again: the copy it finds has no time of its own, nothing waits for the library's disks, and a restart of the library loses the model (`NoFileLost`) |

### Departures

Further behaviours that TLC finds in these models when a constant is changed or a
property is added or made stronger, each against a line of the code that says otherwise.
Some runs leave them out by the constant named here; others have the behaviour in the
model and properties that except exactly its steps, by the variable named here.

* Admission, with a cell among a pool's rows (`PoolRows`) and `HolderCounted`:
  `handler.py:1020` takes a pool's local row out of `admitted_requests` while its phase
  is still "queued": a second request gets the same slot. `docs/backend-proxy.md:131`
  gives the other order.
* Admission, with a cloud fallback and `NoPhantom` (`CloudBackup`): the item keeps the
  local upstream, and the slot of the server it left stays counted
  (`capacity.py:138`, "Count requests occupying a slot").
* Admission, with preemption: more requests than slots. Two crowned requests may choose
  the same victim; when it has ended, the queue admits one of them, and before that one
  is forwarded the other, in its grace period, finds the server idle
  (`queue_admission.py:438` asks only for the server's own count, `capacity.py:180-183`).
  `QueueBound` therefore speaks of what the queue gives away, at a moment when all who
  hold a slot count, and not of a grace period's admission.
* Admission, with preemption: the grace period's admission does not look at
  `sticky_slot_blocks` (`queue_admission.py:438`; `runtime.py:31`, "other routes cannot
  be admitted even if capacity is free").
* Admission: a refused request, or one whose client left the queue, reserves a slot it
  never had (`state.py:147`; `runtime.py:30`, "after it finishes").
* Admission, with `PortRemoval` and `HolderCounted`: a removed port's running requests
  are no longer counted (`state.py:51`).
* Moves: what happens between the mover's last look at an item (`_why_keep`) and the
  `unlink` or `rmtree` is not seen: an original edited then, or a file that appears in the
  folder then, is removed without a copy (`store_moves.py:661`; the docstring says "at that
  very moment", :26-29, and "never if something appeared in it meanwhile", :43-44). A link
  or another entry that is no file dies with the folder whenever it appeared after the
  scan: the last look does not count it (`store_moves.py:903-909`). `NoFileLost` excepts
  what changed after the last look (`touched`) and such entries (`Odd`).
* Moves: when the save in the handler of a broken job fails too (`store_moves.py:1128`),
  the worker's thread ends and the job stays open until the next move or restart;
  `JobsEnd` excepts it.
* Moves, not modelled: a save that fails in the request that starts or cancels a move, and
  an `unlink` that fails in `_prune`. A failing save whose job's handler can save is
  `Breaks`. An original is edited at most once, with one stamp for all jobs that plan it,
  and `Prune` may drop any ended job, not only those beyond `KEEP_FINISHED`.
* Moves: two requests for one file may both be entered, because what other jobs hold
  is read before the plan and not again at the entry (`store_moves.py:1047`). An item
  whose removal fails half way, or is interrupted by a crash and an edit, ends as
  "skipped" with originals gone ("moves whole or not at all"). A crash between the
  removal of a folder and the record of it ends the item as "skipped" though it is
  moved. A crash between the record of a job's end and `_keep_promise` forgets the
  cell that waits.
* Models page: a tick compares what the tracker knows before and after its own await, and
  nothing orders the answers (`model-moves.js:363-374`, `420-428`). When the mount's, a
  start's or another tick's answer lands in between, a bar of an ended move stays until
  the next change, and an older answer that says everything has ended stops the polling
  of a move that runs. `TreeFollows` excepts what follows such an answer (`crossed`);
  `NoOlderTree` does not need to. Further, if the first poll is lost nothing polls again
  until a move is started here (`model-moves.js:371`, "the next one tries again").
* Document: the lock covers the saves of whole lists only. `topology_state` writes the
  routers of its first reading over a save made since (`topology.py:1131`; the comment
  there speaks of a fresh reading "to avoid overwriting concurrent label/policy changes",
  and routers are not among what it keeps), and the versions of its third reading may be
  newer than what it shows (`topology.py:1101`, "names the version of exactly what it was
  shown"); a stop request or a route's single field, and a save, that overlap undo each
  other. `NoLostEdit` and `GridForward` except what follows such a write (`torn`); a stop
  that a save takes out is one of its losses, and no property is stated of stops.
* Board: the answer to a keyboard's save sets the phase to idle (`step-carry.js:283`) while
  the pointer already carries another row (a press does not wait, `step-carry.js:117-124`);
  the order then let go of is never saved, and polls draw over the row (against
  `step-carry.js:93`). `OrderKept`, `ScreenOwed`, `HeldStill` and `ScreenSettles` except
  what follows such a press (`hasty`); the operator begins nothing new after it. With
  columns of cards (`Rows = FALSE`, a list outside `Seen`) an order changed in another
  tab is not drawn: the fingerprint sorts pools and clients. A card drawn over while it
  is carried leaves the body with the class `step-carrying`.

### Fairness

`adm_preempt` and `adm_pool` assume weak fairness of each handler thread and of the
end of a sticky window: the queue loop wakes every 0.25 s whether notified or not,
an upstream read ends after 600 s, a window is a finite time. Nothing is assumed
about which way a thread goes, or that a client leaves. `vault_faults` assumes weak
fairness of each caller (the token request has a timeout of 15 s) and strong fairness
of its lock acquisitions: Linux queues the waiters of `flock`. No fairness of crashes
or losses.

`moves` assumes weak fairness of the worker thread, of a request that was taken, of
the restart of a dead controller (systemd) and of the library's writing what it
acknowledged. It does not assume that a library comes back at once or that faults
stop, only that they are finitely many (`MaxFaults`). The pages assume that timers
run out, that the controller answers what is not lost, and that the live refresh goes
on (`scheduleLiveRefresh` sets itself again on every way out); nothing is assumed of
the operator: `ScreenSettles` speaks of an operator who has let go. `moves_page` takes
from `moves` that every job ends (`JobsEnd`). `routers` assumes strong fairness of
each request, because a request waits for the lock again and again, and weak fairness of
the writers without one.

## 4. Proofs

Every property of a passing run that is not about liveness is proved, with the exceptions
its own statement names (`touched`, `torn`, `hasty`): for every set of requests, ports,
servers, threads, callers, accounts, jobs, files, tabs, lists and orders, every number of
faults and acts, and every policy. What a theorem assumes
beyond its module's `ASSUME`s stands in its `ASSUME ... PROVE`: it is the condition
under which the code keeps the property, and Departures tells what happens without it.

The modules' own assumptions say that the sets are sets of the right kind (finite
requests, at least one slot per server, at least one account, at least two orders, slots
and bounds that are numbers) and that the special value for "none" is none of the values
it stands beside (`ThreadsAssumption`, `RecordAssumption`, `NothingAssumption`, parts of
the others). TLC evaluates them in every run.

Each invariant was first checked by TLC as an invariant of the runs' instances; then the
three facts were proved, `Init => IInv`, `IInv /\ [Next]_vars => IInv'` and `IInv => Inv`.

### ProxyAdmissionProofs

In every configuration, with pools, port removal and preemption:

* `TypeCorrect`.
* `NothingLeftBehind` (`NoResidue`): inductive with the types.
* `FirstComeFirstServed` (`NoOvertaking`): an action property; an id enters
  `admitted_requests` only from the head of its queue, in the loop and in the grace period.
* `CrownsSafe` (`CrownSafe`): it adds `VictimsPlain`, that a victim a preemptor has chosen
  and not yet stopped is one that may be stopped.

Without a cell among a pool's rows and without port removal (`NoBypass`: the two paths on
which a slot is lost from the count):

* `HandedOver`, `HoldersCounted`, `QueueWithinBound` (`QueueBound`): with spills, fallbacks,
  rescues, sticky slots and preemption. That a free place in the count is a free slot needs
  `HandOver`, which says for each point of a thread whether it is in `admitted_requests`,
  which phase its item has, and for which server; it is the inductive invariant, with the
  types and that no port is gone. No number of requests at a server is invariant once a
  grace period may let one more in (Departures), so the bound is proved of the queue's step.
* `CountExact` (`NoPhantom`): if, further, every request for a server waits in its queue
  (`EveryoneQueues`: no cloud fallback that keeps the local upstream, no rescue edge to a
  server). With `HoldersCounted`, the count is then exact.
* `AdmissionImplementsSlots`: also without preemption, admission implements `SlotGroup`;
  `want`, `hold` and `before` are read from the entries, grants and sequence numbers. It
  needs `QueueShape`: sequence numbers of waiters are distinct and never above the counter.

### ProxyLocksProofs

As long as no failover node is behind an onError node (`~Failover`; the run
`locks_failover` shows why): `LocksOrdered` and, from it, `NoDeadlock`. The argument is
compositional. `Passes(s, h, k)` says that a sequence of acquisitions and releases takes
its locks in the order of `Rank`, starting with the locks `h` and ending with `k`; it is
proved of each operation along its `With`s. `LocksInv` says that what is left of each
thread's operation passes from the locks it has to none. Of any set of threads each of
which waits for another of the set, the one that asks for the highest lock waits for
nobody's.

### CredentialVaultProofs

* `VaultTypeCorrect`, `RenewalsExclusive`, `VaultImplementsDoc`: with every fault.
  The invariant `VaultInv` says who has which lock (`LocksHeld`) and that a caller
  about to write has read the document as it is now (`ReadFresh`).
* `DeletedStaysDeleted`: without restores, with crashes and losses, no renewal
  stores a token for an account that is gone. It adds `RenewsStored`: a renewal's
  account keeps its token as long as the renewal has the lock.
* `TokensKept`: without faults the stored token is valid or its successor is about
  to be stored, and no renewal presents a spent one. It adds `TokensApart`: a valid
  token is in one account's entry or one caller's hand. With faults this is false,
  and the code does not claim it: an answer that is lost after the rotation takes the
  account's token with it until the next sign-in.

### StoreMovesProofs

With any jobs and files, and every fault:

* `MovesTypeCorrect`, `MovesImplementJobs`. The invariant `WorkInv` keeps the record in the
  process and the one on disk together (`Books`) and says what the worker has in its hand
  (`Holds`): an open job, an open item of it, one of its files. An ended record is never
  written again because no place of the worker holds one.
* `NoFileIsLost`, `DoneItemsMoved`, `PromisesSafe`, for a move between disks without
  condition, into a library as long as no two jobs carry one file (`Apart`). `NoFileLost`
  speaks of the originals that were removed, but for those that changed after the mover's
  last look and for entries that are no files; why they could be is spread over the worker's
  places and the record. `FilesInv` says it: what each place of the worker has found out
  (`PlaceTrue`), that a record's done items are moved (`RecordsTrue`), that a copy of an
  edited file has an edited original (`CopiesTrue`), and that a job knows which of its
  files a library may still lose (`FreshKnown`). Without `Apart` only the last part fails:
  a copy another job made is not in this job's list. That is `moves_settle`.

### ProxyDocumentProofs

`DocumentTypeCorrect`, `NoEditLost` and `GridNeverBack` hold with every writer, locked or
not, between any two steps of any other. As long as no write was torn, `DocumentInv` says
that a save carries the version of the lists it was made on, that this is the version of
what it has read, and that an answer's versions and a page's are those of the lists they
came with (`Windows`), that a change is in the list it belongs to (`Placed`), and that
one grid of the page is on its way at a time and nothing on its way is newer than the one
that waits (`GridQueue`). Every writer goes through one lemma on what a write does to the
document.

### ModelsPageProofs

`PageTypeCorrect` and `TreeNeverBack` (`NoOlderTree`) hold with any polls, posts and listings
on their way: files only leave the disk, so the disk is within the listing on its way and
that within the tree (`Nested`).

### RoutingBoardProofs

`BoardTypeCorrect`, `OrdersKept`, `ScreenIsOwed` and `HeldStaysHeld` are proved for every
operator, the last three with the exception their properties state (`hasty`). The six
drawing functions are reduced to two facts about a page, that nothing on it is drawn anew
(`Same`) or everything is (`Fresh`), the second only with empty hands unless it is a post's
own answer. As long as nobody was hasty, `BoardInv` says that the pointer, the keyboard and
a save exclude each other (`Hands`), and in which phase the screen may differ from the last
drawing in what (`Screens`); a hasty press breaks the first.

### Model-checked only

Liveness (`Served`, `Returns`, `JobsEnd`, `ScreenSettles`, `TreeFollows`, `ChangesEnd`):
the proof system does not reason about fairness here. `moves_page` uses that every job
ends, which `JobsEnd` of `moves` checks and no theorem states.

## 5. Not modelled, and the plan

In the order in which they are to follow:

1. `RequestLegs`: the handler's legs in detail, with stops, stale kept connections
   (`upstream_pool.py`), retries and health notes. A stop must end a request and not
   start its next leg. Composed with `ProxyAdmission` by its `Forward` and `End`.
2. `PoolSteps` and `OutputHealth`: which row and which exit is next, and how long a
   verdict stands; against an abstract "first usable row".
3. `RouterGraph`: `chain_exit` and `resolve_graph` as recursive functions over small
   graphs, against reachability; cycles, hop limits, shared queue deadlines.

Left out for good, and why the share of the browser's code under a model is small:

* About half of `static/js` is text: tables of translations (`i18n/`) and help texts
  (`hf-text.js`). There is nothing in it to get wrong that a model could show.
* Most of the rest turns one answer of the controller into HTML (`topology-nodes.js`,
  `topology-activity.js`, the cards, charts and forms of each page): pure functions of
  an answer, without state that outlives a drawing. What those drawings race with is
  in `RoutingBoard` and `ModelsPage`.
* Rewriting of bodies and errors (`translate.py`, `openai_errors.py`), HTTP dispatch
  and views of the controller, command lines of the runners, the scout's client, the
  downloads: data without concurrent state, or input and output only.
