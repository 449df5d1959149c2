--------------------------- MODULE ProxyDocument ---------------------------
(***************************************************************************)
(* The proxy document and the pages that save whole lists of it            *)
(* (caravan/admin/proxies_config.py, topology.py; static/js/routers.js,    *)
(* topology-proxies.js, canvas.js).  A page changes a copy of a list and   *)
(* sends the copy with the version it was made from; the controller        *)
(* refuses an older version under a lock, and the page makes its change    *)
(* again on the current document, once.  Beside the pages' saves, every    *)
(* answer may write the document to bring the outputs up to date, handlers *)
(* that set one field of a route write it, and the proxy writes its stop   *)
(* requests into it, and none of them takes the lock.                      *)
(*                                                                         *)
(* A list is the set of the changes made to it; its version is a digest,   *)
(* so it is its value.  A schedule grid is the number of the stroke that   *)
(* painted it last.  Where a write without the lock falls between another  *)
(* request's readings and its write, the code may lose what it says it     *)
(* keeps; torn records that this has happened.                             *)
(***************************************************************************)
EXTENDS Naturals, FiniteSets

CONSTANTS
    Pages,
    Painter,    \* the page on which the schedule is painted
    Edits,      \* changes of the routers or of the routes, made once each
    RouteEdits, \* those of the routes
    PortEdits,  \* those of them that a router's inputs follow
    Stops,      \* stop requests
    Slots,      \* bound: requests at the controller at once
    MaxStrokes, \* bound: strokes on the grid
    MaxOps,     \* bound: changes, strokes, polls, stops, lost answers in all
    None

ASSUME DocumentAssumption ==
    /\ Painter \in Pages
    /\ PortEdits \subseteq RouteEdits /\ RouteEdits \subseteq Edits
    /\ Stops \cap Edits = {}
    /\ Slots \in SUBSET Nat
    /\ MaxStrokes \in Nat /\ MaxOps \in Nat
    /\ None \notin Edits

VARIABLES
    doc,        \* agent-proxies.json
    cells,      \* the outputs there are: 0, then 1 when a cell is added
    lock,       \* ProxyRevisions.LOCK: the slot that holds it, or None
    tasks,      \* slot -> a request, from its sending to its answer
    loose,      \* a write without the lock -> the document it read, or None
    pages,      \* page -> the lists it shows and the versions they came with
    grid,       \* canvas.js schedSaveQueue: in flight, and the grid that waits
    strokes,    \* strokes painted so far
    edited,     \* changes the operator made
    told,       \* changes and grids the operator was told are not saved
    written,    \* changes a save has put into the document
    torn,       \* a write fell between another request's readings and its write
    ops

docVars == <<doc, cells, lock, loose, torn, written>>
pageVars == <<pages, grid, strokes, edited, told>>
vars == <<docVars, tasks, pageVars, ops>>

Doc == [routers : SUBSET Edits, routes : SUBSET Edits, grid : 0..MaxStrokes,
        out : 0..1, stops : SUBSET Stops]

\* The versions of the two lists (ProxyRevisions.of).  Every write derives the routers'
\* inputs from the routes again (normalize_routers), so these are part of it.
Version(d) ==
    [routers |-> <<d.routers, d.grid, d.out, d.routes \cap PortEdits>>, routes |-> d.routes]

Versions ==
    [routers : (SUBSET Edits) \X (0..MaxStrokes) \X (0..1) \X (SUBSET Edits),
     routes : SUBSET Edits]

\* A request: a save of one change or of a grid, or a poll.
Task == [kind : {"edit", "grid", "poll"}, page : Pages \cup {None},
         edit : Edits \cup {None}, stroke : 0..MaxStrokes,
         at : {"sent", "checked", "loaded", "topology", "sync", "fresh", "reread", "answer"},
         body : Doc \cup {None}, seen : Versions \cup {None}, again : BOOLEAN,
         ok : BOOLEAN, reading : Doc \cup {None}, fresh : Doc \cup {None},
         rev : Versions \cup {None}]

EmptyDoc == [routers |-> {}, routes |-> {}, grid |-> 0, out |-> 0, stops |-> {}]

TypeOK ==
    /\ doc \in Doc /\ cells \in 0..1
    /\ lock \in Slots \cup {None}
    /\ tasks \in [Slots -> Task \cup {None}]
    /\ loose \in [Stops \cup RouteEdits -> Doc \cup {None}]
    /\ pages \in [Pages -> [lists : Doc, rev : Versions]]
    /\ grid \in [busy : BOOLEAN, waits : 0..MaxStrokes]
    /\ strokes \in 0..MaxStrokes
    /\ edited \subseteq Edits /\ told \subseteq Edits \cup (1..MaxStrokes)
    /\ written \subseteq Edits /\ torn \in BOOLEAN
    /\ ops \in 0..MaxOps

Init ==
    /\ doc = EmptyDoc /\ cells = 0
    /\ lock = None
    /\ tasks = [s \in Slots |-> None]
    /\ loose = [k \in Stops \cup RouteEdits |-> None]
    /\ pages = [p \in Pages |-> [lists |-> EmptyDoc, rev |-> Version(EmptyDoc)]]
    /\ grid = [busy |-> FALSE, waits |-> 0]
    /\ strokes = 0 /\ edited = {} /\ told = {} /\ written = {} /\ torn = FALSE
    /\ ops = 0

\* Of what follows on a torn write nothing is claimed, and nothing new is begun.
Act == ~torn /\ ops < MaxOps /\ ops' = ops + 1

-----------------------------------------------------------------------------
(* The page's saves (routers.js, topology-proxies.js, canvas.js)           *)

Free == {s \in Slots : tasks[s] = None}

\* The change made on a copy of the page's lists (routersSave, build).
Mutate(d, e, n) ==
    IF e = None THEN [d EXCEPT !.grid = n]
    ELSE IF e \in RouteEdits THEN [d EXCEPT !.routes = @ \cup {e}]
    ELSE [d EXCEPT !.routers = @ \cup {e}]

SaveTask(p, e, n) ==
    [kind |-> IF e = None THEN "grid" ELSE "edit", page |-> p, edit |-> e, stroke |-> n,
     at |-> "sent", body |-> Mutate(pages[p].lists, e, n), seen |-> pages[p].rev,
     again |-> FALSE, ok |-> FALSE, reading |-> None, fresh |-> None, rev |-> None]

PollTask(p) ==
    [kind |-> "poll", page |-> p, edit |-> None, stroke |-> 0, at |-> "topology",
     body |-> None, seen |-> None, again |-> FALSE, ok |-> TRUE,
     reading |-> None, fresh |-> None, rev |-> None]

Put(task) ==
    \E s \in Free : (\A r \in Free : s <= r) /\ tasks' = [tasks EXCEPT ![s] = task]

\* saveRouters, saveProxyRoutes: an edit of the graph or of the ports.
Edit(p, e) ==
    /\ Act
    /\ e \notin edited /\ Free # {}
    /\ edited' = edited \cup {e}
    /\ Put(SaveTask(p, e, 0))
    /\ UNCHANGED <<docVars, pages, grid, strokes, told>>

\* Mutant: every grid is sent at once.
PaintAtOnce ==
    /\ Act
    /\ strokes < MaxStrokes /\ Free # {}
    /\ strokes' = strokes + 1
    /\ Put(SaveTask(Painter, None, strokes + 1))
    /\ UNCHANGED <<docVars, pages, grid, edited, told>>

\* endPaint, saveGrid: one grid of a node is on its way, the last painted one waits.
Paint ==
    /\ Act
    /\ strokes < MaxStrokes
    /\ strokes' = strokes + 1
    /\ \/ /\ grid.busy
          /\ grid' = [grid EXCEPT !.waits = strokes + 1]
          /\ UNCHANGED tasks
       \/ /\ ~grid.busy /\ Free # {}
          /\ grid' = [grid EXCEPT !.busy = TRUE]
          /\ Put(SaveTask(Painter, None, strokes + 1))
    /\ UNCHANGED <<docVars, pages, edited, told>>

\* refreshTopology: one poll at a time.
Poll(p) ==
    /\ Act
    /\ Free # {}
    /\ \A s \in Slots : tasks[s] # None => ~(tasks[s].kind = "poll" /\ tasks[s].page = p)
    /\ Put(PollTask(p))
    /\ UNCHANGED <<docVars, pageVars>>

-----------------------------------------------------------------------------
(* The controller (proxies_config.py, topology.py)                         *)

\* A request finds at its write, or at a reading it takes for an earlier one, that the
\* document is another by now.
Tears(changed) == torn' = (torn \/ changed)

At(s, step) == tasks[s] # None /\ tasks[s].at = step

\* Which list a save replaces.
List(s) == IF tasks[s].edit \in RouteEdits THEN "routes" ELSE "routers"

Stale(s) == tasks[s].seen[List(s)] # Version(doc)[List(s)]

\* set_routers, save_agent_proxy_config: PROXY_REVISIONS.check under the lock.
Check(s) ==
    /\ At(s, "sent") /\ lock = None
    /\ IF Stale(s)
       THEN /\ tasks' = [tasks EXCEPT ![s].at = "topology"]
            /\ UNCHANGED lock
       ELSE /\ tasks' = [tasks EXCEPT ![s].at = "checked"]
            /\ lock' = s
    /\ UNCHANGED <<doc, cells, loose, torn, written, pageVars, ops>>

\* load_agent_proxy_config, a reading of its own.
Load(s) ==
    /\ At(s, "checked")
    /\ tasks' = [tasks EXCEPT ![s].at = "loaded", ![s].reading = doc]
    /\ Tears(Stale(s))
    /\ UNCHANGED <<doc, cells, lock, loose, written, pageVars, ops>>

\* The page's list takes the place of the stored one; the rest is as it was read, but
\* for the inputs, which follow the routes (Version).
Merged(r, body, list) ==
    IF list = "routes" THEN [r EXCEPT !.routes = body.routes]
    ELSE [r EXCEPT !.routers = body.routers, !.grid = body.grid, !.out = body.out]

\* write_agent_proxy_payload, and the lock is given back.
Write(s) ==
    /\ At(s, "loaded")
    /\ doc' = Merged(tasks[s].reading, tasks[s].body, List(s))
    /\ lock' = None
    /\ Tears(tasks[s].reading # doc)
    /\ written' = IF tasks[s].edit = None THEN written ELSE written \cup {tasks[s].edit}
    /\ tasks' = [tasks EXCEPT ![s].at = "topology", ![s].ok = TRUE, ![s].reading = None]
    /\ UNCHANGED <<cells, loose, pageVars, ops>>

\* What of the document goes out to a page: the stop requests do not.
Lists(d) == [d EXCEPT !.stops = {}]

\* Mutant: the answer names no versions unless the outputs changed.
TopologyUnversioned(s) ==
    /\ At(s, "topology")
    /\ tasks' = [tasks EXCEPT ![s].at = IF doc.out = cells THEN "answer" ELSE "sync",
                              ![s].reading = Lists(doc)]
    /\ UNCHANGED <<docVars, pageVars, ops>>

\* topology_state: the reading the answer is made of and the versions of it; the
\* answer is ready unless sync_router_outputs finds a change.
Topology(s) ==
    /\ At(s, "topology")
    /\ tasks' = [tasks EXCEPT ![s].at = IF doc.out = cells THEN "answer" ELSE "sync",
                              ![s].reading = Lists(doc), ![s].rev = Version(doc)]
    /\ UNCHANGED <<docVars, pageVars, ops>>

\* topology_state: the document is read afresh before it is written.
Fresh(s) ==
    /\ At(s, "sync")
    /\ tasks' = [tasks EXCEPT ![s].at = "fresh", ![s].fresh = doc]
    /\ UNCHANGED <<docVars, pageVars, ops>>

\* topology_state: the routers of the first reading are written into the fresh one.
SyncWrite(s) ==
    /\ At(s, "fresh")
    /\ LET r == [tasks[s].reading EXCEPT !.out = cells]
       IN  /\ doc' = Merged(tasks[s].fresh, r, "routers")
           /\ tasks' = [tasks EXCEPT ![s].at = "reread", ![s].reading = r, ![s].fresh = None]
    /\ Tears(tasks[s].fresh # doc \/ tasks[s].reading # Lists(doc))
    /\ UNCHANGED <<cells, lock, loose, written, pageVars, ops>>

\* topology_state: the versions are read once more.
Reread(s) ==
    /\ At(s, "reread")
    /\ tasks' = [tasks EXCEPT ![s].at = "answer", ![s].rev = Version(doc)]
    /\ Tears(Version(doc) # Version(tasks[s].reading))
    /\ UNCHANGED <<doc, cells, lock, loose, written, pageVars, ops>>

\* A cell is added: there is an output the routers do not name yet.
CellAdded ==
    /\ Act
    /\ cells = 0
    /\ cells' = 1
    /\ UNCHANGED <<doc, lock, loose, torn, written, tasks, pageVars>>

\* append_stop_request, in the proxy's process, one at a time (config_lock): the
\* document is read, to be changed and written whole.
StopRead(k) ==
    /\ Act
    /\ k \notin doc.stops /\ \A l \in Stops : loose[l] = None
    /\ loose' = [loose EXCEPT ![k] = doc]
    /\ UNCHANGED <<doc, cells, lock, torn, written, tasks, pageVars>>

StopWrite(k) ==
    /\ loose[k] # None
    /\ doc' = [loose[k] EXCEPT !.stops = @ \cup {k}]
    /\ Tears(loose[k] # doc)
    /\ loose' = [loose EXCEPT ![k] = None]
    /\ UNCHANGED <<cells, lock, written, tasks, pageVars, ops>>

\* set_agent_proxy_route_policy and the other handlers that set a field of one route:
\* the document is read, changed and written whole, without the lock.
PatchRead(e) ==
    /\ Act
    /\ e \notin edited
    /\ edited' = edited \cup {e}
    /\ loose' = [loose EXCEPT ![e] = doc]
    /\ UNCHANGED <<doc, cells, lock, torn, written, tasks, pages, grid, strokes, told>>

PatchWrite(e) ==
    /\ loose[e] # None
    /\ doc' = Mutate(loose[e], e, 0)
    /\ written' = written \cup {e}
    /\ Tears(loose[e] # doc)
    /\ loose' = [loose EXCEPT ![e] = None]
    /\ UNCHANGED <<cells, lock, tasks, pageVars, ops>>

-----------------------------------------------------------------------------
(* Answers                                                                 *)

\* What an ended save says of itself when it is not kept.
Name(t) == IF t.kind = "grid" THEN t.stroke ELSE t.edit

\* The page after setTopology.
Shown(t) == [lists |-> t.reading, rev |-> t.rev]

\* Mutant: the grid that waited is forgotten.
EndedForgets(s, pg) ==
    /\ tasks' = [tasks EXCEPT ![s] = None]
    /\ grid' = IF tasks[s].kind = "grid" THEN [busy |-> FALSE, waits |-> 0] ELSE grid

\* The page's call is over; of a grid, the one that waits is sent next (saveGrid's
\* finally), made on what the page then shows (pg).
Ended(s, pg) ==
    IF tasks[s].kind = "grid" /\ grid.waits # 0
    THEN /\ tasks' = [tasks EXCEPT ![s] =
                        [SaveTask(Painter, None, grid.waits) EXCEPT
                           !.body = Mutate(pg.lists, None, grid.waits), !.seen = pg.rev]]
         /\ grid' = [grid EXCEPT !.waits = 0]
    ELSE /\ tasks' = [tasks EXCEPT ![s] = None]
         /\ grid' = IF tasks[s].kind = "grid" THEN [grid EXCEPT !.busy = FALSE] ELSE grid

\* Mutant: the refused body is sent again under the new version.
AgainSame(t) ==
    [t EXCEPT !.at = "sent", !.again = TRUE, !.seen = t.rev, !.reading = None, !.rev = None]

\* saveRouters, saveProxyRoutes: the change is made again on the current topology.
Again(t) ==
    [t EXCEPT !.at = "sent", !.again = TRUE, !.seen = t.rev, !.reading = None, !.rev = None,
              !.body = Mutate(t.reading, t.edit, t.stroke)]

\* The answer reaches the page: shown; refused for its version, made again, once;
\* refused again, told to the operator.
Arrive(s) ==
    /\ At(s, "answer") /\ tasks[s].page # None
    /\ LET t == tasks[s]
           p == t.page
       IN  \/ /\ t.ok
              /\ pages' = [pages EXCEPT ![p] = Shown(t)]
              /\ Ended(s, Shown(t))
              /\ UNCHANGED told
           \/ /\ ~t.ok /\ ~t.again
              /\ pages' = [pages EXCEPT ![p] = Shown(t)]
              /\ tasks' = [tasks EXCEPT ![s] = Again(t)]
              /\ UNCHANGED <<grid, told>>
           \/ /\ ~t.ok /\ t.again
              /\ Ended(s, pages[p])
              /\ told' = told \cup {Name(t)}
              /\ UNCHANGED pages
    /\ UNCHANGED <<docVars, strokes, edited, ops>>

\* The connection fails: the page is told, and the request may still be on its way.
Lost(s) ==
    /\ Act
    /\ tasks[s] # None /\ tasks[s].page # None
    /\ LET t == tasks[s]
           waits == t.kind = "grid" /\ grid.waits # 0
       IN  /\ waits => Free # {}
           /\ tasks' = [r \in Slots |->
                 IF r = s THEN [t EXCEPT !.page = None]
                 ELSE IF waits /\ r \in Free /\ \A q \in Free : r <= q
                      THEN SaveTask(Painter, None, grid.waits) ELSE tasks[r]]
           /\ grid' = IF t.kind # "grid" THEN grid ELSE [busy |-> waits, waits |-> 0]
           /\ told' = IF t.kind = "poll" THEN told ELSE told \cup {Name(t)}
    /\ UNCHANGED <<docVars, pages, strokes, edited>>

\* Nobody waits for the answer any more.
Dropped(s) ==
    /\ At(s, "answer") /\ tasks[s].page = None
    /\ tasks' = [tasks EXCEPT ![s] = None]
    /\ UNCHANGED <<docVars, pageVars, ops>>

-----------------------------------------------------------------------------
Serve(s) ==
    \/ Check(s) \/ Load(s) \/ Write(s)
    \/ Topology(s) \/ Fresh(s) \/ SyncWrite(s) \/ Reread(s)
    \/ Arrive(s) \/ Dropped(s)

Next ==
    \/ \E p \in Pages : Poll(p) \/ \E e \in Edits : Edit(p, e)
    \/ Paint
    \/ \E s \in Slots : Serve(s) \/ Lost(s)
    \/ CellAdded
    \/ \E k \in Stops : StopRead(k) \/ StopWrite(k)
    \/ \E e \in RouteEdits : PatchRead(e) \/ PatchWrite(e)

Spec == Init /\ [][Next]_vars

\* Requests are carried out and answered, and the lock is handed to every waiter in
\* the end.
Fairness ==
    /\ \A s \in Slots : SF_vars(Serve(s))
    /\ \A k \in Stops : WF_vars(StopWrite(k))
    /\ \A e \in RouteEdits : WF_vars(PatchWrite(e))

FairSpec == Spec /\ Fairness

-----------------------------------------------------------------------------
(* Properties                                                              *)

\* A change that was put into the document stays there: no save, made from an older
\* copy in another tab or by a click before the last answer was in, and none whose
\* connection had failed, takes it out again (ProxyRevisions, saveRouters).  Only a
\* write without the lock that falls between a request's reading and its write can.
NoLostEdit == torn \/ written \subseteq doc.routers \cup doc.routes

\* The stored grid never goes back to one painted before it (saveGrid's queue), but by
\* such a write.
GridForward == [][torn' \/ doc'.grid >= doc.grid]_vars

\* Every change comes to its end, in the document or told to the operator; and so
\* does every stroke, or a later one that holds it.
ChangesEnd ==
    /\ \A e \in Edits : (e \in edited) ~> (e \in written \cup told)
    /\ \A n \in 1..MaxStrokes :
          (strokes = n) ~> (torn \/ doc.grid >= n \/ \E m \in n..MaxStrokes : m \in told)
=============================================================================
