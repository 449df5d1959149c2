------------------------- MODULE ProxyDocumentProofs -------------------------
(***************************************************************************)
(* Machine-checked proofs about ProxyDocument, for any number of pages,    *)
(* changes, stop requests and requests at the controller.                  *)
(***************************************************************************)
EXTENDS ProxyDocument, TLAPS

\* A save on its way has its lists and their version, a poll is never one, and what a
\* request needs at its place it has read.
Good(t) ==
    /\ t \in Task
    /\ t.kind = "poll" => t.ok /\ t.at \notin {"sent", "checked", "loaded"}
    /\ t.kind = "grid" => t.edit = None /\ t.stroke \in 1..MaxStrokes
    /\ t.kind = "edit" => t.edit \in Edits
    /\ t.at \in {"sent", "checked", "loaded"} => t.body \in Doc /\ t.seen \in Versions
    /\ t.at \in {"loaded", "sync", "fresh", "reread", "answer"} => t.reading \in Doc
    /\ t.at = "fresh" => t.fresh \in Doc
    /\ t.at \in {"sync", "fresh", "reread", "answer"} => t.rev \in Versions

Shapes == \A s \in Slots : tasks[s] # None => Good(tasks[s])

\* The types, with what they need to be inductive.
TypeInv == TypeOK /\ Shapes

-----------------------------------------------------------------------------
(* The inductive invariants while no write has fallen between another      *)
(* request's readings and its write.                                       *)

\* A save was made on lists of which it carries the version, and the lists it was
\* checked against are those it read; an answer's versions are those of its lists.
Fits(s) ==
    /\ At(s, "sent") \/ At(s, "checked") \/ At(s, "loaded") =>
           \E b \in Doc : /\ tasks[s].body = Mutate(b, tasks[s].edit, tasks[s].stroke)
                          /\ tasks[s].seen = Version(b)
    /\ At(s, "loaded") => tasks[s].seen[List(s)] = Version(tasks[s].reading)[List(s)]
    /\ At(s, "answer") => tasks[s].rev = Version(tasks[s].reading)

\* The version a page will send is the version of the lists it shows.
ShownVersion == \A p \in Pages : pages[p].rev = Version(pages[p].lists)

Windows == (\A s \in Slots : Fits(s)) /\ ShownVersion

\* Every change is in the list it is a change of.
Placed ==
    /\ written \ RouteEdits \subseteq doc.routers
    /\ written \cap RouteEdits \subseteq doc.routes

\* The page waits for the answer to a grid.
LiveGrid(s) == tasks[s] # None /\ tasks[s].kind = "grid" /\ tasks[s].page # None

\* No grid anywhere was painted after stroke n.
NoGridAfter(n) ==
    /\ doc.grid <= n
    /\ \A p \in Pages : pages[p].lists.grid <= n
    /\ \A r \in Slots : At(r, "answer") => tasks[r].reading.grid <= n
    /\ \A r \in Slots : tasks[r] # None /\ tasks[r].kind = "grid" => tasks[r].stroke <= n

\* Nothing is newer than the grid that is on its way.
Newest(s) == LiveGrid(s) => grid.busy /\ NoGridAfter(tasks[s].stroke)

\* A grid is made on an older one.
OnOlder(s) ==
    (At(s, "sent") \/ At(s, "checked") \/ At(s, "loaded")) /\ tasks[s].kind = "grid" =>
        tasks[s].seen.routers[2] <= tasks[s].stroke

\* Only the grid that waits is newer than the one on its way.
Waits ==
    grid.waits # 0 =>
        /\ grid.busy /\ grid.waits <= strokes
        /\ \A s \in Slots : LiveGrid(s) => tasks[s].stroke < grid.waits

\* One grid is on its way at a time, and nothing is newer but the one that waits.
GridQueue ==
    /\ \A s, r \in Slots : LiveGrid(s) /\ LiveGrid(r) => s = r
    /\ NoGridAfter(strokes)
    /\ Waits
    /\ \A s \in Slots : Newest(s) /\ OnOlder(s)

DocumentInv == TypeInv /\ (torn \/ (Windows /\ Placed /\ GridQueue))

-----------------------------------------------------------------------------
(* Lists and their versions.                                               *)

LEMMA DocTypes ==
    /\ EmptyDoc \in Doc
    /\ \A d \in Doc : Version(d) \in Versions /\ Lists(d) \in Doc
    /\ \A d \in Doc, e \in Edits \cup {None}, n \in 0..MaxStrokes : Mutate(d, e, n) \in Doc
    /\ \A d, b \in Doc : \A l : Merged(d, b, l) \in Doc
    /\ \A d \in Doc, k \in Stops : [d EXCEPT !.stops = @ \cup {k}] \in Doc
    /\ \A d \in Doc, c \in 0..1 : [d EXCEPT !.out = c] \in Doc
<1> USE DocumentAssumption
<1>1. EmptyDoc \in Doc
  BY DEF EmptyDoc, Doc
<1>2. \A d \in Doc : Version(d) \in Versions
  BY DEF Version, Versions, Doc
<1>3. \A d \in Doc : Lists(d) \in Doc
  BY DEF Lists, Doc
<1>4. ASSUME NEW d \in Doc, NEW e \in Edits \cup {None}, NEW n \in 0..MaxStrokes
      PROVE  Mutate(d, e, n) \in Doc
  BY DEF Mutate, Doc
<1>5. \A d, b \in Doc : \A l : Merged(d, b, l) \in Doc
  BY DEF Merged, Doc
<1>6. \A d \in Doc, k \in Stops : [d EXCEPT !.stops = @ \cup {k}] \in Doc
  BY DEF Doc
<1>7. \A d \in Doc, c \in 0..1 : [d EXCEPT !.out = c] \in Doc
  BY DEF Doc
<1>8. QED
  BY <1>1, <1>2, <1>3, <1>4, <1>5, <1>6, <1>7

\* A save of lists d under version v.
LEMMA SaveGood ==
    ASSUME NEW p \in Pages \cup {None}, NEW e \in Edits \cup {None}, NEW n \in 0..MaxStrokes,
           NEW d \in Doc, NEW v \in Versions, NEW a \in BOOLEAN, e = None => n # 0
    PROVE  Good([kind |-> IF e = None THEN "grid" ELSE "edit", page |-> p, edit |-> e,
                 stroke |-> n, at |-> "sent", body |-> d, seen |-> v,
                 again |-> a, ok |-> FALSE, reading |-> None, fresh |-> None, rev |-> None])
BY DocumentAssumption DEF Good, Task

-----------------------------------------------------------------------------
(* The steps of a request at the controller, field by field.               *)

\* What a request carries from its sending to its answer.
Carried(t, u) ==
    /\ u.kind = t.kind /\ u.page = t.page /\ u.edit = t.edit /\ u.stroke = t.stroke
    /\ u.body = t.body /\ u.seen = t.seen /\ u.again = t.again

\* The other requests stay where they are.
Only(s) == \A r \in Slots : r # s => tasks'[r] = tasks[r]

\* The request in s goes on: its place, its outcome, and what it has read.
Goes(s, at, ok, reading, fresh, rev) ==
    /\ tasks' \in [Slots -> Task \cup {None}] /\ tasks'[s] \in Task /\ Only(s)
    /\ Carried(tasks[s], tasks'[s])
    /\ tasks'[s].at = at /\ tasks'[s].ok = ok /\ tasks'[s].reading = reading
    /\ tasks'[s].fresh = fresh /\ tasks'[s].rev = rev

\* A save is through the check, or is refused and goes on to its answer.
LEMMA AtStep ==
    ASSUME NEW s \in Slots, tasks[s] # None, tasks \in [Slots -> Task \cup {None}],
           NEW at \in {"topology", "checked"},
           tasks' = [tasks EXCEPT ![s].at = at]
    PROVE  Goes(s, at, tasks[s].ok, tasks[s].reading, tasks[s].fresh, tasks[s].rev)
<1>1. /\ tasks[s] \in Task /\ Only(s)
      /\ tasks'[s] = [tasks[s] EXCEPT !.at = at]
  BY DEF Only
<1>2. [tasks[s] EXCEPT !.at = at] \in Task
  BY <1>1 DEF Task
<1>3. tasks' \in [Slots -> Task \cup {None}]
  BY <1>1, <1>2
<1>4. QED
  BY <1>1, <1>2, <1>3 DEF Goes, Carried, Task

\* A save has read the document.
LEMMA ReadStep ==
    ASSUME NEW s \in Slots, tasks[s] # None, tasks \in [Slots -> Task \cup {None}],
           NEW d \in Doc,
           tasks' = [tasks EXCEPT ![s].at = "loaded", ![s].reading = d]
    PROVE  Goes(s, "loaded", tasks[s].ok, d, tasks[s].fresh, tasks[s].rev)
<1>1. /\ tasks[s] \in Task /\ Only(s)
      /\ tasks'[s] = [tasks[s] EXCEPT !.at = "loaded", !.reading = d]
  BY DEF Only
<1>2. [tasks[s] EXCEPT !.at = "loaded", !.reading = d] \in Task
  BY <1>1 DEF Task
<1>3. tasks' \in [Slots -> Task \cup {None}]
  BY <1>1, <1>2
<1>4. QED
  BY <1>1, <1>2, <1>3 DEF Goes, Carried, Task

\* A save has written.
LEMMA WriteStep ==
    ASSUME NEW s \in Slots, tasks[s] # None, tasks \in [Slots -> Task \cup {None}],
           tasks' = [tasks EXCEPT ![s].at = "topology", ![s].ok = TRUE, ![s].reading = None]
    PROVE  Goes(s, "topology", TRUE, None, tasks[s].fresh, tasks[s].rev)
<1>1. /\ tasks[s] \in Task /\ Only(s)
      /\ tasks'[s] = [tasks[s] EXCEPT !.at = "topology", !.ok = TRUE, !.reading = None]
  BY DEF Only
<1>2. [tasks[s] EXCEPT !.at = "topology", !.ok = TRUE, !.reading = None] \in Task
  BY <1>1 DEF Task
<1>3. tasks' \in [Slots -> Task \cup {None}]
  BY <1>1, <1>2
<1>4. QED
  BY <1>1, <1>2, <1>3 DEF Goes, Carried, Task

\* An answer has its reading and its versions.
LEMMA TopologyStep ==
    ASSUME NEW s \in Slots, tasks[s] # None, tasks \in [Slots -> Task \cup {None}],
           NEW at \in {"answer", "sync"}, NEW d \in Doc, NEW v \in Versions,
           tasks' = [tasks EXCEPT ![s].at = at, ![s].reading = d, ![s].rev = v]
    PROVE  Goes(s, at, tasks[s].ok, d, tasks[s].fresh, v)
<1>1. /\ tasks[s] \in Task /\ Only(s)
      /\ tasks'[s] = [tasks[s] EXCEPT !.at = at, !.reading = d, !.rev = v]
  BY DEF Only
<1>2. [tasks[s] EXCEPT !.at = at, !.reading = d, !.rev = v] \in Task
  BY <1>1 DEF Task
<1>3. tasks' \in [Slots -> Task \cup {None}]
  BY <1>1, <1>2
<1>4. QED
  BY <1>1, <1>2, <1>3 DEF Goes, Carried, Task

\* The document is read afresh.
LEMMA FreshStep ==
    ASSUME NEW s \in Slots, tasks[s] # None, tasks \in [Slots -> Task \cup {None}],
           NEW d \in Doc,
           tasks' = [tasks EXCEPT ![s].at = "fresh", ![s].fresh = d]
    PROVE  Goes(s, "fresh", tasks[s].ok, tasks[s].reading, d, tasks[s].rev)
<1>1. /\ tasks[s] \in Task /\ Only(s)
      /\ tasks'[s] = [tasks[s] EXCEPT !.at = "fresh", !.fresh = d]
  BY DEF Only
<1>2. [tasks[s] EXCEPT !.at = "fresh", !.fresh = d] \in Task
  BY <1>1 DEF Task
<1>3. tasks' \in [Slots -> Task \cup {None}]
  BY <1>1, <1>2
<1>4. QED
  BY <1>1, <1>2, <1>3 DEF Goes, Carried, Task

\* The outputs are written.
LEMMA SyncStep ==
    ASSUME NEW s \in Slots, tasks[s] # None, tasks \in [Slots -> Task \cup {None}],
           NEW d \in Doc,
           tasks' = [tasks EXCEPT ![s].at = "reread", ![s].reading = d, ![s].fresh = None]
    PROVE  Goes(s, "reread", tasks[s].ok, d, None, tasks[s].rev)
<1>1. /\ tasks[s] \in Task /\ Only(s)
      /\ tasks'[s] = [tasks[s] EXCEPT !.at = "reread", !.reading = d, !.fresh = None]
  BY DEF Only
<1>2. [tasks[s] EXCEPT !.at = "reread", !.reading = d, !.fresh = None] \in Task
  BY <1>1 DEF Task
<1>3. tasks' \in [Slots -> Task \cup {None}]
  BY <1>1, <1>2
<1>4. QED
  BY <1>1, <1>2, <1>3 DEF Goes, Carried, Task

\* The versions are read once more.
LEMMA RereadStep ==
    ASSUME NEW s \in Slots, tasks[s] # None, tasks \in [Slots -> Task \cup {None}],
           NEW v \in Versions,
           tasks' = [tasks EXCEPT ![s].at = "answer", ![s].rev = v]
    PROVE  Goes(s, "answer", tasks[s].ok, tasks[s].reading, tasks[s].fresh, v)
<1>1. /\ tasks[s] \in Task /\ Only(s)
      /\ tasks'[s] = [tasks[s] EXCEPT !.at = "answer", !.rev = v]
  BY DEF Only
<1>2. [tasks[s] EXCEPT !.at = "answer", !.rev = v] \in Task
  BY <1>1 DEF Task
<1>3. tasks' \in [Slots -> Task \cup {None}]
  BY <1>1, <1>2
<1>4. QED
  BY <1>1, <1>2, <1>3 DEF Goes, Carried, Task

\* A request that goes on is still a request.
LEMMA GoesGood ==
    ASSUME NEW s \in Slots, NEW at, NEW ok, NEW reading, NEW fresh, NEW rev,
           tasks[s] # None, Shapes, Goes(s, at, ok, reading, fresh, rev), at # "sent",
           tasks[s].kind = "poll" => ok /\ at \notin {"checked", "loaded"},
           at = "checked" => tasks[s].at = "sent",
           at = "loaded" => tasks[s].at = "checked",
           at \in {"loaded", "sync", "fresh", "reread", "answer"} => reading \in Doc,
           at = "fresh" => fresh \in Doc,
           at \in {"sync", "fresh", "reread", "answer"} => rev \in Versions
    PROVE  \A r \in Slots : tasks'[r] # None => Good(tasks'[r])
<1>1. Good(tasks[s])
  BY DEF Shapes
<1>2. Good(tasks'[s])
  BY <1>1 DEF Good, Goes, Carried
<1>3. QED
  BY <1>2 DEF Goes, Only, Shapes

\* A request takes or leaves a place.
LEMMA PlaceGood ==
    ASSUME NEW s \in Slots, NEW u, u = None \/ Good(u), Shapes,
           tasks \in [Slots -> Task \cup {None}], tasks' = [tasks EXCEPT ![s] = u]
    PROVE  /\ tasks' \in [Slots -> Task \cup {None}]
           /\ \A r \in Slots : tasks'[r] # None => Good(tasks'[r])
           /\ tasks'[s] = u /\ Only(s)
<1>1. u \in Task \cup {None}
  BY DEF Good
<1>2. QED
  BY <1>1 DEF Shapes, Only

\* The controller's steps.
LEMMA Served ==
    ASSUME TypeInv, NEW s \in Slots
    PROVE  /\ Check(s) /\ Stale(s) =>
                Goes(s, "topology", tasks[s].ok, tasks[s].reading, tasks[s].fresh, tasks[s].rev)
           /\ Check(s) /\ ~Stale(s) =>
                Goes(s, "checked", tasks[s].ok, tasks[s].reading, tasks[s].fresh, tasks[s].rev)
           /\ Load(s) => Goes(s, "loaded", tasks[s].ok, doc, tasks[s].fresh, tasks[s].rev)
           /\ Write(s) => Goes(s, "topology", TRUE, None, tasks[s].fresh, tasks[s].rev)
           /\ Topology(s) =>
                Goes(s, IF doc.out = cells THEN "answer" ELSE "sync", tasks[s].ok,
                     Lists(doc), tasks[s].fresh, Version(doc))
           /\ Fresh(s) => Goes(s, "fresh", tasks[s].ok, tasks[s].reading, doc, tasks[s].rev)
           /\ SyncWrite(s) =>
                Goes(s, "reread", tasks[s].ok, [tasks[s].reading EXCEPT !.out = cells], None,
                     tasks[s].rev)
           /\ Reread(s) =>
                Goes(s, "answer", tasks[s].ok, tasks[s].reading, tasks[s].fresh, Version(doc))
<1>1. tasks \in [Slots -> Task \cup {None}] /\ doc \in Doc /\ cells \in 0..1
  BY DEF TypeInv, TypeOK
<1>2. Version(doc) \in Versions /\ Lists(doc) \in Doc
  BY <1>1, DocTypes
<1>3. ASSUME Check(s), Stale(s)
      PROVE  Goes(s, "topology", tasks[s].ok, tasks[s].reading, tasks[s].fresh, tasks[s].rev)
  BY <1>1, <1>3, AtStep DEF Check, At
<1>4. ASSUME Check(s), ~Stale(s)
      PROVE  Goes(s, "checked", tasks[s].ok, tasks[s].reading, tasks[s].fresh, tasks[s].rev)
  BY <1>1, <1>4, AtStep DEF Check, At
<1>4a. ASSUME Load(s)
       PROVE  Goes(s, "loaded", tasks[s].ok, doc, tasks[s].fresh, tasks[s].rev)
  BY <1>1, <1>4a, ReadStep DEF Load, At
<1>5. ASSUME Write(s)
      PROVE  Goes(s, "topology", TRUE, None, tasks[s].fresh, tasks[s].rev)
  BY <1>1, <1>5, WriteStep DEF Write, At
<1>6. ASSUME Topology(s)
      PROVE  Goes(s, IF doc.out = cells THEN "answer" ELSE "sync", tasks[s].ok, Lists(doc),
                  tasks[s].fresh, Version(doc))
  BY <1>1, <1>2, <1>6, TopologyStep DEF Topology, At
<1>7. ASSUME Fresh(s)
      PROVE  Goes(s, "fresh", tasks[s].ok, tasks[s].reading, doc, tasks[s].rev)
  BY <1>1, <1>7, FreshStep DEF Fresh, At
<1>8. ASSUME SyncWrite(s)
      PROVE  Goes(s, "reread", tasks[s].ok, [tasks[s].reading EXCEPT !.out = cells], None,
                  tasks[s].rev)
  <2>1. tasks[s] # None /\ tasks[s].reading \in Doc
    BY <1>8 DEF SyncWrite, At, TypeInv, Shapes, Good
  <2>2. [tasks[s].reading EXCEPT !.out = cells] \in Doc
    BY <1>1, <2>1, DocTypes
  <2>3. QED
    BY <1>1, <1>8, <2>1, <2>2, SyncStep DEF SyncWrite
<1>9. ASSUME Reread(s)
      PROVE  Goes(s, "answer", tasks[s].ok, tasks[s].reading, tasks[s].fresh, Version(doc))
  BY <1>1, <1>2, <1>9, RereadStep DEF Reread, At
<1>10. QED
  BY <1>3, <1>4, <1>4a, <1>5, <1>6, <1>7, <1>8, <1>9

\* A save sent from what the page shows.
LEMMA SentGood ==
    ASSUME TypeInv, NEW p \in Pages, NEW e \in Edits \cup {None}, NEW n \in 0..MaxStrokes,
           e = None => n # 0
    PROVE  Good(SaveTask(p, e, n))
<1>1. pages[p].lists \in Doc /\ pages[p].rev \in Versions
  BY DEF TypeInv, TypeOK
<1>2. Mutate(pages[p].lists, e, n) \in Doc
  BY <1>1, DocTypes
<1>3. QED
  BY <1>1, <1>2, SaveGood DEF SaveTask

LEMMA PollGood ==
    ASSUME NEW p \in Pages
    PROVE  Good(PollTask(p))
BY DocumentAssumption DEF PollTask, Good, Task

\* u is the grid that waited, made on what the page then shows.
Waited(u, pg) ==
    /\ Good(u) /\ u.kind = "grid" /\ u.page = Painter /\ u.edit = None
    /\ u.stroke = grid.waits /\ u.at = "sent"
    /\ u.body = Mutate(pg.lists, None, grid.waits) /\ u.seen = pg.rev

LEMMA WaitedSent ==
    ASSUME TypeInv, grid.waits # 0, NEW pg, pg.lists \in Doc, pg.rev \in Versions
    PROVE  Waited([SaveTask(Painter, None, grid.waits) EXCEPT
                      !.body = Mutate(pg.lists, None, grid.waits), !.seen = pg.rev], pg)
<1> DEFINE m == Mutate(pg.lists, None, grid.waits)
           t == SaveTask(Painter, None, grid.waits)
           u == [t EXCEPT !.body = m, !.seen = pg.rev]
<1>1. grid.waits \in 0..MaxStrokes /\ Painter \in Pages
  BY DocumentAssumption DEF TypeInv, TypeOK
<1>2. m \in Doc
  BY <1>1, DocTypes
<1>3. Good(t) /\ t.kind = "grid" /\ t.page = Painter /\ t.edit = None
      /\ t.stroke = grid.waits /\ t.at = "sent"
  BY <1>1, SentGood DEF SaveTask
<1> HIDE DEF t, m
<1>4. t \in Task
  BY <1>3 DEF Good
<1>5. u \in Task
  BY <1>2, <1>4 DEF Task
<1>6. /\ u.kind = t.kind /\ u.page = t.page /\ u.edit = t.edit /\ u.stroke = t.stroke
      /\ u.at = t.at
  BY <1>4 DEF Task
<1>7. u.body = m /\ u.seen = pg.rev
  BY <1>4 DEF Task
<1> HIDE DEF u
<1>8. Good(u)
  BY <1>1, <1>2, <1>3, <1>5, <1>6, <1>7 DEF Good
<1>9. Waited(u, pg)
  BY <1>3, <1>6, <1>7, <1>8 DEF Waited, m
<1>10. QED
  BY <1>9 DEF u, t, m

\* What the end of a call does to the requests.
LEMMA EndedStep ==
    ASSUME TypeInv, NEW s \in Slots, NEW pg, pg.lists \in Doc, pg.rev \in Versions,
           Ended(s, pg)
    PROVE  /\ tasks' \in [Slots -> Task \cup {None}]
           /\ \A r \in Slots : tasks'[r] # None => Good(tasks'[r])
           /\ Only(s)
           /\ \/ /\ tasks[s].kind = "grid" /\ grid.waits # 0
                 /\ Waited(tasks'[s], pg) /\ grid' = [grid EXCEPT !.waits = 0]
              \/ /\ tasks[s].kind = "grid" /\ grid.waits = 0
                 /\ tasks'[s] = None /\ grid' = [grid EXCEPT !.busy = FALSE]
              \/ tasks[s].kind # "grid" /\ tasks'[s] = None /\ grid' = grid
<1>1. tasks \in [Slots -> Task \cup {None}] /\ Shapes
  BY DEF TypeInv, TypeOK
<1>2. CASE tasks[s].kind = "grid" /\ grid.waits # 0
  <2> DEFINE u == [SaveTask(Painter, None, grid.waits) EXCEPT
                      !.body = Mutate(pg.lists, None, grid.waits), !.seen = pg.rev]
  <2>1. Waited(u, pg)
    BY <1>2, WaitedSent
  <2>2. tasks' = [tasks EXCEPT ![s] = u] /\ grid' = [grid EXCEPT !.waits = 0]
    BY <1>2 DEF Ended
  <2> HIDE DEF u
  <2>3. Good(u)
    BY <2>1 DEF Waited
  <2>4. QED
    BY <1>1, <1>2, <2>1, <2>2, <2>3, PlaceGood
<1>3. CASE ~(tasks[s].kind = "grid" /\ grid.waits # 0)
  <2>1. tasks' = [tasks EXCEPT ![s] = None]
        /\ grid' = IF tasks[s].kind = "grid" THEN [grid EXCEPT !.busy = FALSE] ELSE grid
    BY <1>3 DEF Ended
  <2>2. QED
    BY <1>1, <1>3, <2>1, PlaceGood
<1>4. QED
  BY <1>2, <1>3

\* A change made again is a save once more.
LEMMA AgainGood ==
    ASSUME NEW t, Good(t), t.at = "answer", t.kind # "poll"
    PROVE  /\ Good(Again(t))
           /\ Again(t).kind = t.kind /\ Again(t).page = t.page /\ Again(t).edit = t.edit
           /\ Again(t).stroke = t.stroke /\ Again(t).at = "sent" /\ Again(t).seen = t.rev
           /\ Again(t).body = Mutate(t.reading, t.edit, t.stroke)
<1>1. t \in Task /\ t.reading \in Doc /\ t.rev \in Versions
  BY DEF Good
<1>2. Mutate(t.reading, t.edit, t.stroke) \in Doc
  BY <1>1, DocTypes DEF Task
<1> DEFINE u == Again(t)
           m == Mutate(t.reading, t.edit, t.stroke)
<1> HIDE DEF m
<1>3. u \in Task
  <2>1. [t EXCEPT !.at = "sent", !.again = TRUE] \in Task
    BY <1>1 DEF Task
  <2>2. \A x \in Task : [x EXCEPT !.seen = t.rev, !.reading = None] \in Task
    BY <1>1 DEF Task
  <2>3. \A x \in Task : [x EXCEPT !.rev = None, !.body = m] \in Task
    BY <1>2 DEF Task, m
  <2>4. QED
    BY <2>1, <2>2, <2>3 DEF Again, m
<1>4. u.kind = t.kind /\ u.page = t.page /\ u.edit = t.edit /\ u.stroke = t.stroke
  BY <1>1 DEF Again, Task
<1>5. u.at = "sent" /\ u.seen = t.rev /\ u.body = m
  BY <1>1 DEF Again, Task, m
<1>6. Good(u)
  <2> HIDE DEF u
  <2>1. QED
    BY <1>1, <1>2, <1>3, <1>4, <1>5 DEF Good, m
<1>7. QED
  BY <1>4, <1>5, <1>6 DEF m

\* The page gives a request up.
LEMMA LeftGood ==
    ASSUME NEW t, Good(t)
    PROVE  LET u == [t EXCEPT !.page = None]
           IN  /\ Good(u) /\ u.page = None
               /\ u.kind = t.kind /\ u.edit = t.edit /\ u.stroke = t.stroke /\ u.at = t.at
               /\ u.body = t.body /\ u.seen = t.seen /\ u.ok = t.ok /\ u.reading = t.reading
               /\ u.fresh = t.fresh /\ u.rev = t.rev
<1> DEFINE u == [t EXCEPT !.page = None]
<1>1. t \in Task
  BY DEF Good
<1>2. u \in Task
  BY <1>1 DEF Task
<1>3. /\ u.kind = t.kind /\ u.edit = t.edit /\ u.stroke = t.stroke /\ u.at = t.at
      /\ u.body = t.body /\ u.seen = t.seen /\ u.ok = t.ok /\ u.reading = t.reading
      /\ u.fresh = t.fresh /\ u.rev = t.rev /\ u.page = None
  BY <1>1 DEF Task
<1> HIDE DEF u
<1>4. Good(u)
  BY <1>2, <1>3 DEF Good
<1>5. QED
  BY <1>3, <1>4 DEF u

\* r is where the grid that waited goes when the page gives another one up.
GoesTo(r) == grid.waits # 0 /\ r \in Free /\ \A q \in Free : r <= q

\* What a failed connection does to the requests.
LEMMA LostStep ==
    ASSUME TypeInv, NEW s \in Slots, Lost(s)
    PROVE  /\ tasks' \in [Slots -> Task \cup {None}]
           /\ \A r \in Slots : tasks'[r] # None => Good(tasks'[r])
           /\ tasks'[s] = [tasks[s] EXCEPT !.page = None]
           /\ \A r \in Slots : r # s =>
                IF tasks[s].kind = "grid" /\ GoesTo(r)
                THEN tasks[r] = None /\ tasks'[r] = SaveTask(Painter, None, grid.waits)
                ELSE tasks'[r] = tasks[r]
           /\ \A r, q \in Slots : GoesTo(r) /\ GoesTo(q) => r = q
<1> DEFINE f(r) == IF r = s THEN [tasks[s] EXCEPT !.page = None]
                   ELSE IF tasks[s].kind = "grid" /\ GoesTo(r)
                   THEN SaveTask(Painter, None, grid.waits) ELSE tasks[r]
<1>1. /\ tasks \in [Slots -> Task \cup {None}] /\ Shapes /\ tasks[s] # None
      /\ grid.waits \in 0..MaxStrokes /\ Painter \in Pages /\ Slots \in SUBSET Nat
  BY DocumentAssumption DEF TypeInv, TypeOK, Lost
<1>2. tasks' = [r \in Slots |-> f(r)]
  BY DEF Lost, GoesTo, Free
<1>3. Good([tasks[s] EXCEPT !.page = None])
  BY <1>1, LeftGood DEF Shapes
<1>4. grid.waits # 0 => Good(SaveTask(Painter, None, grid.waits))
  BY <1>1, SentGood
<1>5. \A r \in Slots : f(r) = None \/ Good(f(r))
  BY <1>1, <1>3, <1>4 DEF Shapes, GoesTo
<1>6. \A r \in Slots : f(r) \in Task \cup {None}
  BY <1>5 DEF Good
<1>7. \A r \in Slots : tasks'[r] = f(r)
  BY <1>2
<1>8. \A r \in Slots : GoesTo(r) => tasks[r] = None
  BY DEF GoesTo, Free
<1>9. \A r, q \in Slots : GoesTo(r) /\ GoesTo(q) => r = q
  BY <1>1 DEF GoesTo, Free
<1>10. tasks' \in [Slots -> Task \cup {None}]
  <2> HIDE DEF f
  <2>1. QED
    BY <1>2, <1>6
<1>11. QED
  BY <1>5, <1>7, <1>8, <1>9, <1>10

-----------------------------------------------------------------------------
(* Types.                                                                  *)

LEMMA TypeInit == Init => TypeInv
<1> SUFFICES ASSUME Init PROVE TypeInv
  OBVIOUS
<1>1. EmptyDoc \in Doc /\ Version(EmptyDoc) \in Versions
  BY DocTypes
<1>2. /\ tasks \in [Slots -> Task \cup {None}] /\ Shapes
      /\ loose \in [Stops \cup RouteEdits -> Doc \cup {None}]
  BY DEF Init, Shapes
<1>3. pages \in [Pages -> [lists : Doc, rev : Versions]]
  BY <1>1 DEF Init
<1>4. /\ doc \in Doc /\ cells \in 0..1 /\ lock \in Slots \cup {None}
      /\ grid \in [busy : BOOLEAN, waits : 0..MaxStrokes] /\ strokes \in 0..MaxStrokes
      /\ ops \in 0..MaxOps /\ edited \subseteq Edits /\ written \subseteq Edits
      /\ told \subseteq Edits \cup (1..MaxStrokes)
  BY <1>1, DocumentAssumption DEF Init
<1>5. torn \in BOOLEAN
  BY DEF Init
<1>6. QED
  BY <1>2, <1>3, <1>4, <1>5 DEF TypeInv, TypeOK

\* What TypeInv says of the requests, and of the rest.
TasksOK ==
    /\ tasks \in [Slots -> Task \cup {None}]
    /\ \A s \in Slots : tasks[s] # None => Good(tasks[s])

RestOK ==
    /\ doc \in Doc /\ cells \in 0..1
    /\ lock \in Slots \cup {None}
    /\ loose \in [Stops \cup RouteEdits -> Doc \cup {None}]
    /\ written \subseteq Edits /\ torn \in BOOLEAN

PageOK ==
    /\ pages \in [Pages -> [lists : Doc, rev : Versions]]
    /\ grid \in [busy : BOOLEAN, waits : 0..MaxStrokes]
    /\ strokes \in 0..MaxStrokes
    /\ edited \subseteq Edits /\ told \subseteq Edits \cup (1..MaxStrokes)
    /\ ops \in 0..MaxOps

LEMMA GridTypes ==
    ASSUME NEW g \in [busy : BOOLEAN, waits : 0..MaxStrokes]
    PROVE  /\ \A n \in 0..MaxStrokes :
                [g EXCEPT !.waits = n] \in [busy : BOOLEAN, waits : 0..MaxStrokes]
           /\ [g EXCEPT !.busy = TRUE] \in [busy : BOOLEAN, waits : 0..MaxStrokes]
           /\ [g EXCEPT !.busy = FALSE] \in [busy : BOOLEAN, waits : 0..MaxStrokes]
OBVIOUS

LEMMA TypeParts == TypeInv <=> TasksOK /\ RestOK /\ PageOK
BY DEF TypeInv, TypeOK, Shapes, TasksOK, RestOK, PageOK

LEMMA TypeStep == TypeInv /\ [Next]_vars => TypeInv'
<1> SUFFICES ASSUME TypeInv, [Next]_vars PROVE (TasksOK /\ RestOK /\ PageOK)'
  BY TypeParts, PTL
<1>0. TasksOK /\ RestOK /\ PageOK /\ Shapes
  BY TypeParts DEF TypeInv
<1> USE DocumentAssumption
<1> DEFINE Goal == (TasksOK /\ RestOK /\ PageOK)'
<1>1. ASSUME NEW u, Good(u), Put(u) PROVE TasksOK'
  BY <1>0, <1>1, PlaceGood DEF Put, Free, TasksOK
<1>2. ASSUME NEW p \in Pages, Poll(p) PROVE Goal
  <2>1. TasksOK'
    BY <1>1, <1>2, PollGood DEF Poll
  <2>2. RestOK' /\ PageOK'
    BY <1>0, <1>2 DEF Poll, Act, RestOK, PageOK, docVars, pageVars
  <2>3. QED
    BY <2>1, <2>2
<1>3. ASSUME NEW p \in Pages, NEW e \in Edits, Edit(p, e) PROVE Goal
  <2>1. TasksOK'
    BY <1>1, <1>3, SentGood DEF Edit
  <2>2. RestOK' /\ PageOK'
    BY <1>0, <1>3 DEF Edit, Act, RestOK, PageOK, docVars
  <2>3. QED
    BY <2>1, <2>2
<1>4. CASE Paint
  <2>0. strokes + 1 \in 0..MaxStrokes /\ strokes + 1 # 0
    BY <1>0, <1>4 DEF Paint, PageOK
  <2>1. TasksOK'
    <3>1. CASE grid.busy /\ UNCHANGED tasks
      BY <1>0, <3>1 DEF TasksOK
    <3>2. CASE Put(SaveTask(Painter, None, strokes + 1))
      BY <1>1, <2>0, <3>2, SentGood
    <3>3. QED
      BY <1>4, <3>1, <3>2 DEF Paint
  <2>2. RestOK'
    BY <1>0, <1>4 DEF Paint, RestOK, docVars
  <2>3. grid' \in [busy : BOOLEAN, waits : 0..MaxStrokes]
    BY <1>0, <1>4, <2>0, GridTypes DEF Paint, PageOK
  <2>4. PageOK'
    BY <1>0, <1>4, <2>0, <2>3 DEF Paint, Act, PageOK
  <2>5. QED
    BY <2>1, <2>2, <2>4
<1>5. CASE CellAdded
  BY <1>0, <1>5 DEF CellAdded, Act, TasksOK, RestOK, PageOK, pageVars
<1>6. ASSUME NEW k \in Stops \cup RouteEdits, NEW d \in Doc \cup {None},
             loose' = [loose EXCEPT ![k] = d]
      PROVE  loose' \in [Stops \cup RouteEdits -> Doc \cup {None}]
  BY <1>0, <1>6 DEF RestOK
<1>6a. ASSUME NEW k \in Stops, StopRead(k) PROVE Goal
  <2>1. loose' \in [Stops \cup RouteEdits -> Doc \cup {None}]
    BY <1>0, <1>6, <1>6a DEF StopRead, RestOK
  <2>2. QED
    BY <1>0, <1>6a, <2>1 DEF StopRead, Act, TasksOK, RestOK, PageOK, pageVars
<1>6b. ASSUME NEW e \in RouteEdits, PatchRead(e) PROVE Goal
  <2>1. loose' \in [Stops \cup RouteEdits -> Doc \cup {None}]
    BY <1>0, <1>6, <1>6b DEF PatchRead, RestOK
  <2>2. RestOK' /\ TasksOK'
    BY <1>0, <1>6b, <2>1 DEF PatchRead, TasksOK, RestOK
  <2>3. PageOK'
    BY <1>0, <1>6b DEF PatchRead, Act, PageOK
  <2>4. QED
    BY <2>2, <2>3
<1>7. ASSUME NEW k \in Stops, StopWrite(k) PROVE Goal
  <2>1. loose[k] \in Doc
    BY <1>0, <1>7 DEF StopWrite, RestOK
  <2>2. doc' \in Doc
    BY <1>7, <2>1, DocTypes DEF StopWrite
  <2>3. loose' \in [Stops \cup RouteEdits -> Doc \cup {None}]
    BY <1>6, <1>7 DEF StopWrite
  <2>4. torn' \in BOOLEAN
    BY <1>7 DEF StopWrite, Tears
  <2>5. QED
    BY <1>0, <1>7, <2>2, <2>3, <2>4 DEF StopWrite, TasksOK, RestOK, PageOK, pageVars
<1>7a. ASSUME NEW e \in RouteEdits, PatchWrite(e) PROVE Goal
  <2>1. loose[e] \in Doc
    BY <1>0, <1>7a DEF PatchWrite, RestOK
  <2>2. doc' \in Doc
    BY <1>7a, <2>1, DocTypes DEF PatchWrite
  <2>3. loose' \in [Stops \cup RouteEdits -> Doc \cup {None}]
    BY <1>6, <1>7a DEF PatchWrite
  <2>4. torn' \in BOOLEAN
    BY <1>7a DEF PatchWrite, Tears
  <2>5. QED
    BY <1>0, <1>7a, <2>2, <2>3, <2>4 DEF PatchWrite, TasksOK, RestOK, PageOK, pageVars
<1>8. ASSUME NEW s \in Slots, Check(s) PROVE Goal
  <2>1. tasks[s] # None /\ tasks[s].at = "sent" /\ Good(tasks[s])
    BY <1>0, <1>8 DEF Check, At, TasksOK
  <2>2. TasksOK'
    <3>1. CASE Stale(s)
      <4>1. Goes(s, "topology", tasks[s].ok, tasks[s].reading, tasks[s].fresh, tasks[s].rev)
        BY <1>8, <3>1, Served
      <4>2. tasks[s].kind = "poll" => tasks[s].ok
        BY <2>1 DEF Good
      <4>3. QED
        BY <1>0, <2>1, <4>1, <4>2, GoesGood DEF TasksOK, Goes
    <3>2. CASE ~Stale(s)
      <4>1. Goes(s, "checked", tasks[s].ok, tasks[s].reading, tasks[s].fresh, tasks[s].rev)
        BY <1>8, <3>2, Served
      <4>2. tasks[s].kind # "poll"
        BY <2>1 DEF Good
      <4>3. QED
        BY <1>0, <2>1, <4>1, <4>2, GoesGood DEF TasksOK, Goes, RestOK
    <3>3. QED
      BY <3>1, <3>2
  <2>3. RestOK' /\ PageOK'
    BY <1>0, <1>8 DEF Check, RestOK, PageOK, pageVars
  <2>4. QED
    BY <2>2, <2>3
<1>8a. ASSUME NEW s \in Slots, Load(s) PROVE Goal
  <2>1. tasks[s] # None /\ tasks[s].at = "checked" /\ Good(tasks[s])
    BY <1>0, <1>8a DEF Load, At, TasksOK
  <2>2. Goes(s, "loaded", tasks[s].ok, doc, tasks[s].fresh, tasks[s].rev)
    BY <1>8a, Served
  <2>3. tasks[s].kind # "poll"
    BY <2>1 DEF Good
  <2>4. TasksOK'
    BY <1>0, <2>1, <2>2, <2>3, GoesGood DEF TasksOK, Goes, RestOK
  <2>5. torn' \in BOOLEAN
    BY <1>8a DEF Load, Tears
  <2>6. RestOK' /\ PageOK'
    BY <1>0, <1>8a, <2>5 DEF Load, RestOK, PageOK, pageVars
  <2>7. QED
    BY <2>4, <2>6
<1>9. ASSUME NEW s \in Slots, Write(s) PROVE Goal
  <2>1. /\ tasks[s] # None /\ Good(tasks[s]) /\ tasks[s].reading \in Doc /\ tasks[s].body \in Doc
        /\ tasks[s].edit \in Edits \cup {None}
    BY <1>0, <1>9 DEF Write, At, TasksOK, Good, Task
  <2>2. TasksOK'
    <3>1. Goes(s, "topology", TRUE, None, tasks[s].fresh, tasks[s].rev)
      BY <1>9, Served
    <3>2. QED
      BY <1>0, <2>1, <3>1, GoesGood DEF TasksOK, Goes
  <2>3. Merged(tasks[s].reading, tasks[s].body, List(s)) \in Doc
    BY <2>1, DocTypes
  <2>3a. torn' \in BOOLEAN
    BY <1>9 DEF Write, Tears
  <2>4. RestOK' /\ PageOK'
    BY <1>0, <1>9, <2>1, <2>3, <2>3a DEF Write, RestOK, PageOK, pageVars
  <2>5. QED
    BY <2>2, <2>4
<1>10. ASSUME NEW s \in Slots, Topology(s) PROVE Goal
  <2>1. tasks[s] # None /\ Good(tasks[s]) /\ Lists(doc) \in Doc /\ Version(doc) \in Versions
    BY <1>0, <1>10, DocTypes DEF Topology, At, TasksOK, RestOK
  <2>2. PICK at \in {"answer", "sync"} :
            Goes(s, at, tasks[s].ok, Lists(doc), tasks[s].fresh, Version(doc))
    BY <1>10, Served
  <2>3. tasks[s].kind = "poll" => tasks[s].ok
    BY <2>1 DEF Good
  <2>4. TasksOK'
    BY <1>0, <2>1, <2>2, <2>3, GoesGood DEF TasksOK, Goes
  <2>5. RestOK' /\ PageOK'
    BY <1>0, <1>10 DEF Topology, RestOK, PageOK, docVars, pageVars
  <2>6. QED
    BY <2>4, <2>5
<1>11. ASSUME NEW s \in Slots, Fresh(s) PROVE Goal
  <2>1. /\ tasks[s] # None /\ tasks[s].reading \in Doc /\ tasks[s].rev \in Versions
        /\ tasks[s].kind = "poll" => tasks[s].ok
    BY <1>0, <1>11 DEF Fresh, At, TasksOK, Good
  <2>2. Goes(s, "fresh", tasks[s].ok, tasks[s].reading, doc, tasks[s].rev)
    BY <1>11, Served
  <2>3. TasksOK'
    BY <1>0, <2>1, <2>2, GoesGood DEF TasksOK, Goes, RestOK
  <2>4. RestOK' /\ PageOK'
    BY <1>0, <1>11 DEF Fresh, RestOK, PageOK, docVars, pageVars
  <2>5. QED
    BY <2>3, <2>4
<1>12. ASSUME NEW s \in Slots, SyncWrite(s) PROVE Goal
  <2>1. /\ tasks[s] # None /\ tasks[s].reading \in Doc /\ tasks[s].rev \in Versions
        /\ tasks[s].fresh \in Doc
        /\ tasks[s].kind = "poll" => tasks[s].ok
    BY <1>0, <1>12 DEF SyncWrite, At, TasksOK, Good
  <2> DEFINE d == [tasks[s].reading EXCEPT !.out = cells]
  <2>2. d \in Doc
    BY <1>0, <2>1, DocTypes DEF RestOK
  <2>3. Goes(s, "reread", tasks[s].ok, d, None, tasks[s].rev)
    BY <1>12, Served
  <2>4. doc' = Merged(tasks[s].fresh, d, "routers")
    BY <1>12 DEF SyncWrite
  <2> HIDE DEF d
  <2>5. TasksOK'
    BY <1>0, <2>1, <2>2, <2>3, GoesGood DEF TasksOK, Goes
  <2>6. doc' \in Doc
    BY <2>1, <2>2, <2>4, DocTypes
  <2>6a. torn' \in BOOLEAN
    BY <1>12 DEF SyncWrite, Tears
  <2>7. RestOK' /\ PageOK'
    BY <1>0, <1>12, <2>6, <2>6a DEF SyncWrite, RestOK, PageOK, pageVars
  <2>8. QED
    BY <2>5, <2>7
<1>13. ASSUME NEW s \in Slots, Reread(s) PROVE Goal
  <2>1. /\ tasks[s] # None /\ tasks[s].reading \in Doc /\ Version(doc) \in Versions
        /\ tasks[s].kind = "poll" => tasks[s].ok
    BY <1>0, <1>13, DocTypes DEF Reread, At, TasksOK, Good, RestOK
  <2>2. Goes(s, "answer", tasks[s].ok, tasks[s].reading, tasks[s].fresh, Version(doc))
    BY <1>13, Served
  <2>3. TasksOK'
    BY <1>0, <2>1, <2>2, GoesGood DEF TasksOK, Goes
  <2>3a. torn' \in BOOLEAN
    BY <1>13 DEF Reread, Tears
  <2>4. RestOK' /\ PageOK'
    BY <1>0, <1>13, <2>3a DEF Reread, RestOK, PageOK, pageVars
  <2>5. QED
    BY <2>3, <2>4
<1>14. ASSUME NEW s \in Slots, Arrive(s) PROVE Goal
  <2>1. /\ tasks[s] # None /\ Good(tasks[s]) /\ tasks[s].at = "answer"
        /\ tasks[s].page \in Pages /\ tasks[s].reading \in Doc /\ tasks[s].rev \in Versions
        /\ ~tasks[s].ok => tasks[s].kind # "poll"
    BY <1>0, <1>14 DEF Arrive, At, TasksOK, Good, Task
  <2>2. RestOK'
    BY <1>0, <1>14 DEF Arrive, RestOK, docVars
  <2>3. /\ Shown(tasks[s]) \in [lists : Doc, rev : Versions]
        /\ pages[tasks[s].page] \in [lists : Doc, rev : Versions]
    BY <1>0, <2>1 DEF Shown, PageOK
  <2>4. ASSUME NEW pg \in [lists : Doc, rev : Versions], Ended(s, pg)
        PROVE  TasksOK' /\ grid' \in [busy : BOOLEAN, waits : 0..MaxStrokes]
    <3>1. pg.lists \in Doc /\ pg.rev \in Versions
      OBVIOUS
    <3>2. TasksOK'
      BY <2>4, <3>1, EndedStep DEF TasksOK
    <3>3. grid \in [busy : BOOLEAN, waits : 0..MaxStrokes]
      BY <1>0 DEF PageOK
    <3>4. \/ grid' = [grid EXCEPT !.waits = 0] \/ grid' = [grid EXCEPT !.busy = FALSE]
          \/ grid' = grid
      BY <2>4, <3>1, EndedStep
    <3>5. grid' \in [busy : BOOLEAN, waits : 0..MaxStrokes]
      <4>1. 0 \in 0..MaxStrokes
        OBVIOUS
      <4>2. QED
        BY <3>3, <3>4, <4>1, GridTypes
    <3>6. QED
      BY <3>2, <3>5
  <2>5. CASE /\ tasks[s].ok
             /\ pages' = [pages EXCEPT ![tasks[s].page] = Shown(tasks[s])]
             /\ Ended(s, Shown(tasks[s]))
             /\ UNCHANGED told
    BY <1>0, <1>14, <2>2, <2>3, <2>4, <2>5 DEF Arrive, PageOK
  <2>6. CASE /\ ~tasks[s].ok /\ ~tasks[s].again
             /\ pages' = [pages EXCEPT ![tasks[s].page] = Shown(tasks[s])]
             /\ tasks' = [tasks EXCEPT ![s] = Again(tasks[s])]
             /\ UNCHANGED <<grid, told>>
    <3>1. Good(Again(tasks[s]))
      BY <2>1, <2>6, AgainGood
    <3>2. TasksOK'
      BY <1>0, <2>6, <3>1, PlaceGood DEF TasksOK
    <3>3. QED
      BY <1>0, <1>14, <2>2, <2>3, <2>6, <3>2 DEF Arrive, PageOK
  <2>7. CASE /\ ~tasks[s].ok /\ tasks[s].again
             /\ Ended(s, pages[tasks[s].page])
             /\ told' = told \cup {Name(tasks[s])}
             /\ UNCHANGED pages
    <3>1. Name(tasks[s]) \in Edits \cup (1..MaxStrokes)
      BY <2>1, <2>7 DEF Name, Good, Task
    <3>2. QED
      BY <1>0, <1>14, <2>2, <2>3, <2>4, <2>7, <3>1 DEF Arrive, PageOK
  <2>8. QED
    BY <1>14, <2>5, <2>6, <2>7 DEF Arrive
<1>15. ASSUME NEW s \in Slots, Dropped(s) PROVE Goal
  BY <1>0, <1>15, PlaceGood DEF Dropped, TasksOK, RestOK, PageOK, docVars, pageVars
<1>16. ASSUME NEW s \in Slots, Lost(s) PROVE Goal
  <2>1. TasksOK'
    BY <1>0, <1>16, LostStep DEF TasksOK
  <2>2. tasks[s].kind # "poll" => Name(tasks[s]) \in Edits \cup (1..MaxStrokes)
    BY <1>0, <1>16 DEF Lost, TasksOK, Name, Good, Task
  <2>3. RestOK'
    BY <1>0, <1>16 DEF Lost, RestOK, docVars
  <2>4. PageOK'
    BY <1>0, <1>16, <2>2 DEF Lost, Act, PageOK
  <2>5. QED
    BY <2>1, <2>3, <2>4
<1>17. CASE UNCHANGED vars
  BY <1>0, <1>17 DEF vars, docVars, pageVars, TasksOK, RestOK, PageOK
<1>18. QED
  BY <1>2, <1>3, <1>4, <1>5, <1>6a, <1>6b, <1>7, <1>7a, <1>8, <1>8a, <1>9, <1>10, <1>11,
     <1>12, <1>13, <1>14, <1>15, <1>16, <1>17 DEF Next, Serve

\* Every part of the document, of the requests and of the pages has its type, also
\* after a write fell between another request's reading and its write: no request is
\* ever without the reading its next step uses.
THEOREM DocumentTypeCorrect == Spec => []TypeOK
<1>1. TypeInv => TypeOK
  BY DEF TypeInv
<1>2. QED
  BY <1>1, TypeInit, TypeStep, PTL DEF Spec

-----------------------------------------------------------------------------
(* What each write does to the document while none has fallen between      *)
(* another request's readings and its write.                               *)

\* A torn document stays one.
LEMMA TornStep ==
    ASSUME [Next]_vars, ~torn'
    PROVE  ~torn
<1>1. ASSUME NEW s \in Slots, Serve(s) \/ Lost(s) PROVE ~torn
  BY <1>1 DEF Serve, Check, Load, Write, Topology, Fresh, SyncWrite, Reread, Arrive, Dropped,
              Lost, Tears, docVars
<1>2. ASSUME NEW p \in Pages, Poll(p) \/ \E e \in Edits : Edit(p, e) PROVE ~torn
  BY <1>2 DEF Poll, Edit, docVars
<1>3. ASSUME NEW k \in Stops, StopRead(k) \/ StopWrite(k) PROVE ~torn
  BY <1>3 DEF StopRead, StopWrite, Tears
<1>4. ASSUME NEW e \in RouteEdits, PatchRead(e) \/ PatchWrite(e) PROVE ~torn
  BY <1>4 DEF PatchRead, PatchWrite, Tears
<1>5. CASE Paint \/ CellAdded \/ UNCHANGED vars
  BY <1>5 DEF Paint, CellAdded, vars, docVars
<1>6. QED
  BY <1>1, <1>2, <1>3, <1>4, <1>5 DEF Next

\* A save that got through the check makes its change on the document as it is.
LEMMA WriteEffect ==
    ASSUME TypeInv, Windows, NEW s \in Slots, Write(s), ~torn'
    PROVE  doc' = Mutate(doc, tasks[s].edit, tasks[s].stroke)
<1>1. /\ tasks[s] # None /\ tasks[s].at = "loaded" /\ doc \in Doc
      /\ tasks[s].edit \in Edits \cup {None} /\ tasks[s].stroke \in 0..MaxStrokes
  BY DEF Write, At, TypeInv, TypeOK, Shapes, Good, Task
<1>2. tasks[s].reading = doc /\ tasks[s].seen[List(s)] = Version(doc)[List(s)]
  BY <1>1 DEF Windows, Fits, At, Write, Tears
<1>3. PICK b \in Doc : /\ tasks[s].body = Mutate(b, tasks[s].edit, tasks[s].stroke)
                       /\ tasks[s].seen = Version(b)
  BY <1>1 DEF Windows, Fits, At
<1>4. doc' = Merged(doc, tasks[s].body, List(s))
  BY <1>2 DEF Write
<1>5. CASE tasks[s].edit \in RouteEdits
  <2>1. List(s) = "routes" /\ tasks[s].edit # None
    BY <1>5, DocumentAssumption DEF List
  <2>2. b.routes = doc.routes
    BY <1>2, <1>3, <2>1 DEF Version
  <2>3. QED
    BY <1>1, <1>3, <1>4, <1>5, <2>1, <2>2 DEF Merged, Mutate, Doc
<1>6. CASE tasks[s].edit \notin RouteEdits
  <2>1. List(s) = "routers"
    BY <1>6 DEF List
  <2>2. b.routers = doc.routers /\ b.grid = doc.grid /\ b.out = doc.out
    BY <1>1, <1>2, <1>3, <2>1 DEF Version, Doc
  <2>3. CASE tasks[s].edit = None
    <3>1. tasks[s].body = [b EXCEPT !.grid = tasks[s].stroke]
      BY <1>3, <2>3 DEF Mutate
    <3>2. QED
      BY <1>1, <1>4, <2>1, <2>2, <2>3, <3>1 DEF Merged, Mutate, Doc
  <2>4. CASE tasks[s].edit # None
    <3>1. tasks[s].body = [b EXCEPT !.routers = @ \cup {tasks[s].edit}]
      BY <1>3, <1>6, <2>4 DEF Mutate
    <3>2. QED
      BY <1>1, <1>4, <1>6, <2>1, <2>2, <2>4, <3>1 DEF Merged, Mutate, Doc
  <2>5. QED
    BY <2>3, <2>4
<1>7. QED
  BY <1>5, <1>6

\* Bringing the outputs up to date changes nothing else.
LEMMA SyncEffect ==
    ASSUME TypeInv, NEW s \in Slots, SyncWrite(s), ~torn'
    PROVE  doc' = [doc EXCEPT !.out = cells]
<1>1. /\ doc \in Doc /\ cells \in 0..1 /\ tasks[s].reading = Lists(doc) /\ tasks[s].fresh = doc
      /\ doc' = Merged(tasks[s].fresh, [tasks[s].reading EXCEPT !.out = cells], "routers")
  BY DEF SyncWrite, TypeInv, TypeOK, Tears
<1>2. QED
  BY <1>1 DEF Merged, Lists, Doc

\* A stop request is added to the document as it is.
LEMMA StopEffect ==
    ASSUME NEW k \in Stops, StopWrite(k), ~torn'
    PROVE  doc' = [doc EXCEPT !.stops = @ \cup {k}]
BY DEF StopWrite, Tears

\* A field of a route is set in the document as it is.
LEMMA PatchEffect ==
    ASSUME NEW e \in RouteEdits, PatchWrite(e), ~torn'
    PROVE  doc' = Mutate(doc, e, 0) /\ written' = written \cup {e}
BY DEF PatchWrite, Tears

-----------------------------------------------------------------------------
(* What the requests carry fits together.                                  *)

\* A request that stays as it is.
LEMMA FitsFrame ==
    ASSUME NEW r \in Slots, Fits(r), tasks'[r] = tasks[r]
    PROVE  Fits(r)'
BY DEF Fits, At, List

\* The other requests stay as they are.
LEMMA OnlyWindows ==
    ASSUME Windows, NEW s \in Slots, Only(s), Fits(s)', ShownVersion'
    PROVE  Windows'
<1>1. \A r \in Slots : Fits(r)'
  BY FitsFrame DEF Windows, Only
<1>2. QED
  BY <1>1 DEF Windows

\* A new request.
LEMMA PutWindows ==
    ASSUME TypeInv, Windows, NEW u, Put(u), u.at \in {"sent", "topology"},
           u.at = "sent" =>
               \E b \in Doc : u.body = Mutate(b, u.edit, u.stroke) /\ u.seen = Version(b),
           pages' = pages
    PROVE  Windows'
<1>1. PICK s \in Slots : tasks' = [tasks EXCEPT ![s] = u]
  BY DEF Put, Free
<1>2. tasks'[s] = u /\ Only(s)
  BY <1>1 DEF Only, TypeInv, TypeOK
<1>3. Fits(s)'
  BY <1>2 DEF Fits, At
<1>4. QED
  BY <1>2, <1>3, OnlyWindows DEF Windows, ShownVersion

\* A request that goes on.
LEMMA GoesWindows ==
    ASSUME TypeInv, Windows, NEW s \in Slots, NEW at, NEW ok, NEW reading, NEW fresh, NEW rev,
           tasks[s] # None, Goes(s, at, ok, reading, fresh, rev), at # "sent",
           at = "checked" => tasks[s].at = "sent",
           at = "loaded" => /\ tasks[s].at = "checked"
                            /\ tasks[s].seen[List(s)] = Version(reading)[List(s)],
           at = "answer" => rev = Version(reading),
           pages' = pages
    PROVE  Windows'
<1>1. /\ tasks'[s].at = at /\ tasks'[s].reading = reading /\ tasks'[s].rev = rev
      /\ Carried(tasks[s], tasks'[s]) /\ Only(s)
  BY DEF Goes
<1>2. Fits(s)'
  <2>1. CASE at \in {"checked", "loaded"}
    <3>1. PICK b \in Doc : /\ tasks[s].body = Mutate(b, tasks[s].edit, tasks[s].stroke)
                           /\ tasks[s].seen = Version(b)
      BY <2>1 DEF Windows, Fits, At
    <3>2. List(s)' = List(s)
      BY <1>1 DEF List, Carried
    <3>3. QED
      BY <1>1, <2>1, <3>1, <3>2 DEF Fits, At, Carried
  <2>2. CASE at \notin {"checked", "loaded"}
    BY <1>1, <2>2 DEF Fits, At
  <2>3. QED
    BY <2>1, <2>2
<1>3. QED
  BY <1>1, <1>2, OnlyWindows DEF Windows, ShownVersion

LEMMA WindowsInit == Init => Windows
<1> SUFFICES ASSUME Init PROVE Windows
  OBVIOUS
<1>1. \A s \in Slots : tasks[s] = None
  BY DEF Init
<1>2. QED
  BY <1>1 DEF Init, Windows, Fits, At, ShownVersion

\* The versions of what goes out to a page are those of the document.
LEMMA ListsVersion == ASSUME NEW d \in Doc PROVE Version(Lists(d)) = Version(d)
BY DEF Version, Lists, Doc

LEMMA WindowsStep ==
    ASSUME TypeInv, Windows, [Next]_vars, ~torn'
    PROVE  Windows'
<1>0. /\ tasks \in [Slots -> Task \cup {None}] /\ doc \in Doc /\ cells \in 0..1
      /\ \A p \in Pages : pages[p].lists \in Doc /\ pages[p].rev = Version(pages[p].lists)
      /\ \A s \in Slots : tasks[s] # None => Good(tasks[s])
      /\ Painter \in Pages
  BY DocumentAssumption DEF TypeInv, TypeOK, Shapes, Windows, ShownVersion
<1>1. ASSUME NEW p \in Pages, Poll(p) PROVE Windows'
  <2>1. PollTask(p).at = "topology"
    BY DEF PollTask
  <2>2. QED
    BY <1>1, <2>1, PutWindows DEF Poll, docVars, pageVars
<1>2. ASSUME NEW p \in Pages, NEW e, NEW n, Put(SaveTask(p, e, n)), pages' = pages
      PROVE  Windows'
  <2>1. /\ SaveTask(p, e, n).at = "sent" /\ SaveTask(p, e, n).edit = e
        /\ SaveTask(p, e, n).stroke = n
        /\ SaveTask(p, e, n).body = Mutate(pages[p].lists, e, n)
        /\ SaveTask(p, e, n).seen = Version(pages[p].lists)
    BY <1>0 DEF SaveTask
  <2>2. QED
    BY <1>0, <1>2, <2>1, PutWindows
<1>3. ASSUME NEW p \in Pages, NEW e \in Edits, Edit(p, e) PROVE Windows'
  BY <1>2, <1>3 DEF Edit, docVars
<1>4. ASSUME tasks' = tasks, pages' = pages PROVE Windows'
  <2>1. \A s \in Slots : Fits(s)'
    BY <1>4, FitsFrame DEF Windows
  <2>2. QED
    BY <1>4, <2>1 DEF Windows, ShownVersion
<1>5. CASE Paint
  BY <1>0, <1>2, <1>4, <1>5 DEF Paint, docVars
<1>6. CASE CellAdded
  BY <1>4, <1>6 DEF CellAdded, pageVars
<1>7. ASSUME NEW k \in Stops, StopRead(k) \/ StopWrite(k) PROVE Windows'
  BY <1>4, <1>7 DEF StopRead, StopWrite, pageVars
<1>8. ASSUME NEW e \in RouteEdits, PatchRead(e) \/ PatchWrite(e) PROVE Windows'
  BY <1>4, <1>8 DEF PatchRead, PatchWrite, pageVars
<1>9. ASSUME NEW s \in Slots, Check(s) PROVE Windows'
  <2>1. tasks[s] # None /\ tasks[s].at = "sent" /\ pages' = pages
    BY <1>9 DEF Check, At, pageVars
  <2>2. PICK at \in {"topology", "checked"} :
            Goes(s, at, tasks[s].ok, tasks[s].reading, tasks[s].fresh, tasks[s].rev)
    BY <1>9, Served
  <2>3. QED
    BY <2>1, <2>2, GoesWindows
<1>9a. ASSUME NEW s \in Slots, Load(s) PROVE Windows'
  <2>1. /\ tasks[s] # None /\ tasks[s].at = "checked" /\ pages' = pages
        /\ tasks[s].seen[List(s)] = Version(doc)[List(s)]
    BY <1>9a DEF Load, At, Tears, Stale, pageVars
  <2>2. Goes(s, "loaded", tasks[s].ok, doc, tasks[s].fresh, tasks[s].rev)
    BY <1>9a, Served
  <2>3. QED
    BY <2>1, <2>2, GoesWindows
<1>10. ASSUME NEW s \in Slots, Write(s) PROVE Windows'
  <2>1. /\ tasks[s] # None /\ pages' = pages
        /\ Goes(s, "topology", TRUE, None, tasks[s].fresh, tasks[s].rev)
    BY <1>10, Served DEF Write, At, pageVars
  <2>2. PICK ok : Goes(s, "topology", ok, None, tasks[s].fresh, tasks[s].rev)
    BY <2>1, Zenon
  <2>3. QED
    BY <2>1, <2>2, GoesWindows
<1>11. ASSUME NEW s \in Slots, Topology(s) PROVE Windows'
  <2>1. /\ tasks[s] # None /\ pages' = pages
        /\ Version(doc) = Version(Lists(doc))
    BY <1>0, <1>11, ListsVersion DEF Topology, At, docVars, pageVars
  <2>2. PICK at \in {"answer", "sync"} :
            Goes(s, at, tasks[s].ok, Lists(doc), tasks[s].fresh, Version(doc))
    BY <1>11, Served
  <2>3. QED
    BY <2>1, <2>2, GoesWindows
<1>12. ASSUME NEW s \in Slots, Fresh(s) PROVE Windows'
  <2>1. tasks[s] # None /\ pages' = pages
    BY <1>12 DEF Fresh, At, pageVars
  <2>2. Goes(s, "fresh", tasks[s].ok, tasks[s].reading, doc, tasks[s].rev)
    BY <1>12, Served
  <2>3. QED
    BY <2>1, <2>2, GoesWindows
<1>13. ASSUME NEW s \in Slots, SyncWrite(s) PROVE Windows'
  <2>1. tasks[s] # None /\ pages' = pages
    BY <1>13 DEF SyncWrite, At, pageVars
  <2>2. Goes(s, "reread", tasks[s].ok, [tasks[s].reading EXCEPT !.out = cells], None,
             tasks[s].rev)
    BY <1>13, Served
  <2>3. QED
    BY <2>1, <2>2, GoesWindows
<1>14. ASSUME NEW s \in Slots, Reread(s) PROVE Windows'
  <2>1. tasks[s] # None /\ pages' = pages /\ Version(doc) = Version(tasks[s].reading)
    BY <1>14 DEF Reread, At, Tears, pageVars
  <2>2. Goes(s, "answer", tasks[s].ok, tasks[s].reading, tasks[s].fresh, Version(doc))
    BY <1>14, Served
  <2>3. QED
    BY <2>1, <2>2, GoesWindows
<1>16. ASSUME NEW s \in Slots, Arrive(s) PROVE Windows'
  <2>1. /\ tasks[s] # None /\ Good(tasks[s]) /\ tasks[s].at = "answer"
        /\ tasks[s].page \in Pages /\ tasks[s].reading \in Doc /\ tasks[s].rev \in Versions
        /\ ~tasks[s].ok => tasks[s].kind # "poll"
    BY <1>0, <1>16 DEF Arrive, At, Good, Task
  <2>2. tasks[s].rev = Version(tasks[s].reading)
    BY <1>16, <2>1 DEF Arrive, At, docVars, Windows, Fits
  <2>3. /\ Shown(tasks[s]).lists = tasks[s].reading
        /\ Shown(tasks[s]).rev = Version(tasks[s].reading)
    BY <2>2 DEF Shown
  <2>4. ASSUME NEW pg, pg.lists \in Doc, pg.rev = Version(pg.lists), Ended(s, pg)
        PROVE  Only(s) /\ Fits(s)'
    <3>1. pg.rev \in Versions
      BY <2>4, DocTypes
    <3>2. Only(s) /\ (tasks'[s] = None \/ Waited(tasks'[s], pg))
      BY <2>4, <3>1, EndedStep
    <3>3. QED
      BY <2>4, <3>2 DEF Waited, Fits, At
  <2>5. pages' = [pages EXCEPT ![tasks[s].page] = Shown(tasks[s])] => ShownVersion'
    BY <1>0, <2>1, <2>3 DEF ShownVersion, TypeInv, TypeOK
  <2>6. CASE /\ tasks[s].ok
             /\ pages' = [pages EXCEPT ![tasks[s].page] = Shown(tasks[s])]
             /\ Ended(s, Shown(tasks[s]))
    BY OnlyWindows, <2>1, <2>2, <2>3, <2>4, <2>5, <2>6
  <2>7. CASE /\ ~tasks[s].ok /\ ~tasks[s].again
             /\ pages' = [pages EXCEPT ![tasks[s].page] = Shown(tasks[s])]
             /\ tasks' = [tasks EXCEPT ![s] = Again(tasks[s])]
    <3>1. tasks'[s] = Again(tasks[s]) /\ Only(s)
      BY <1>0, <2>7 DEF Only
    <3>2. /\ tasks'[s].at = "sent" /\ tasks'[s].seen = Version(tasks[s].reading)
          /\ tasks'[s].body = Mutate(tasks[s].reading, tasks'[s].edit, tasks'[s].stroke)
      BY <2>1, <2>2, <2>7, <3>1, AgainGood
    <3>3. Fits(s)'
      BY <2>1, <3>2 DEF Fits, At
    <3>4. QED
      BY OnlyWindows, <2>2, <2>5, <2>7, <3>1, <3>3
  <2>8. CASE /\ ~tasks[s].ok /\ tasks[s].again
             /\ Ended(s, pages[tasks[s].page])
             /\ UNCHANGED pages
    <3>1. ShownVersion'
      BY <2>8 DEF ShownVersion, Windows
    <3>2. QED
      BY <1>0, OnlyWindows, <2>1, <2>2, <2>4, <2>8, <3>1
  <2>9. QED
    BY <1>16, <2>6, <2>7, <2>8 DEF Arrive
<1>17. ASSUME NEW s \in Slots, Dropped(s) PROVE Windows'
  <2>1. tasks'[s] = None /\ Only(s) /\ pages' = pages
    BY <1>0, <1>17 DEF Dropped, Only, pageVars
  <2>2. QED
    <3>1. Fits(s)'
      BY <2>1 DEF Fits, At
    <3>2. ShownVersion'
      BY <2>1 DEF Windows, ShownVersion
    <3>3. QED
      BY OnlyWindows, <2>1, <3>1, <3>2
<1>18. ASSUME NEW s \in Slots, Lost(s) PROVE Windows'
  <2>1. pages' = pages /\ tasks[s] # None
        /\ tasks'[s] = [tasks[s] EXCEPT !.page = None] /\ Good(tasks[s])
    BY <1>0, <1>18, LostStep DEF Lost
  <2> DEFINE u == tasks'[s]
  <2>2. /\ u.edit = tasks[s].edit /\ u.stroke = tasks[s].stroke /\ u.at = tasks[s].at
        /\ u.body = tasks[s].body /\ u.seen = tasks[s].seen /\ u.reading = tasks[s].reading
        /\ u.fresh = tasks[s].fresh /\ u.rev = tasks[s].rev
    BY <2>1, LeftGood
  <2>4. Fits(s)'
    <3>1. Fits(s)
      BY DEF Windows
    <3>2. List(s)' = List(s)
      BY <2>2 DEF List
    <3>3. QED
      BY <2>1, <2>2, <3>1, <3>2 DEF Fits, At
  <2>5. ASSUME NEW r \in Slots, r # s
        PROVE  Fits(r)'
    <3>1. CASE tasks'[r] = tasks[r]
      BY <2>1, <3>1, FitsFrame DEF Windows
    <3>2. CASE tasks'[r] = SaveTask(Painter, None, grid.waits)
      <4>1. /\ tasks'[r].at = "sent" /\ tasks'[r].edit = None /\ tasks'[r].stroke = grid.waits
            /\ tasks'[r].body = Mutate(pages[Painter].lists, None, grid.waits)
            /\ tasks'[r].seen = Version(pages[Painter].lists)
        BY <1>0, <3>2 DEF SaveTask
      <4>2. QED
        BY <1>0, <4>1 DEF Fits, At
    <3>3. QED
      BY <1>18, <2>5, <3>1, <3>2, LostStep
  <2>6. \A r \in Slots : Fits(r)'
    BY <2>4, <2>5
  <2>7. QED
    BY <2>1, <2>6 DEF Windows, ShownVersion
<1>19. CASE UNCHANGED vars
  BY <1>4, <1>19 DEF vars, docVars, pageVars
<1>20. QED
  BY <1>1, <1>3, <1>5, <1>6, <1>7, <1>8, <1>9, <1>9a, <1>10, <1>11, <1>12, <1>13, <1>14, <1>16,
     <1>17, <1>18, <1>19 DEF Next, Serve

-----------------------------------------------------------------------------
(* What is in the document stays in it.                                    *)

\* The document changes by a save, by the outputs, by a stop request or by a field of a
\* route.
LEMMA DocumentStep ==
    ASSUME [Next]_vars
    PROVE  \/ doc' = doc /\ written' = written
           \/ \E s \in Slots : Write(s) \/ SyncWrite(s)
           \/ \E k \in Stops : StopWrite(k)
           \/ \E e \in RouteEdits : PatchWrite(e)
<1>1. ASSUME NEW s \in Slots, Serve(s) \/ Lost(s), ~Write(s), ~SyncWrite(s)
      PROVE  doc' = doc /\ written' = written
  BY <1>1 DEF Serve, Check, Load, Topology, Fresh, Reread, Arrive, Dropped, Lost, docVars
<1>2. ASSUME NEW p \in Pages, Poll(p) \/ \E e \in Edits : Edit(p, e)
      PROVE  doc' = doc /\ written' = written
  BY <1>2 DEF Poll, Edit, docVars
<1>3. ASSUME \/ Paint \/ CellAdded \/ UNCHANGED vars
             \/ (\E k \in Stops : StopRead(k)) \/ \E e \in RouteEdits : PatchRead(e)
      PROVE  doc' = doc /\ written' = written
  BY <1>3 DEF Paint, CellAdded, StopRead, PatchRead, vars, docVars
<1>4. QED
  BY <1>1, <1>2, <1>3 DEF Next

\* A change made on the document as it is goes to its own list.
LEMMA MutatePlaced ==
    ASSUME doc \in Doc, Placed, NEW e \in Edits \cup {None}, NEW n,
           doc' = Mutate(doc, e, n),
           written' = IF e = None THEN written ELSE written \cup {e}
    PROVE  Placed'
<1>0. RouteEdits \subseteq Edits /\ None \notin Edits
  BY DocumentAssumption
<1>1. CASE e = None
  <2>1. doc'.routers = doc.routers /\ doc'.routes = doc.routes
    BY <1>0, <1>1 DEF Mutate, Doc
  <2>2. QED
    BY <1>1, <2>1 DEF Placed
<1>2. CASE e \in RouteEdits
  <2>1. doc'.routers = doc.routers /\ doc'.routes = doc.routes \cup {e}
    BY <1>0, <1>2 DEF Mutate, Doc
  <2>2. QED
    BY <1>0, <1>2, <2>1 DEF Placed
<1>3. CASE e # None /\ e \notin RouteEdits
  <2>1. doc'.routers = doc.routers \cup {e} /\ doc'.routes = doc.routes
    BY <1>0, <1>3 DEF Mutate, Doc
  <2>2. QED
    BY <1>3, <2>1 DEF Placed
<1>4. QED
  BY <1>1, <1>2, <1>3

LEMMA KeptStep ==
    ASSUME TypeInv, Windows, Placed, [Next]_vars, ~torn'
    PROVE  Placed'
<1>0. doc \in Doc /\ RouteEdits \subseteq Edits /\ None \notin Edits
  BY DocumentAssumption DEF TypeInv, TypeOK
<1>1. CASE doc' = doc /\ written' = written
  BY <1>1 DEF Placed
<1>2. ASSUME NEW s \in Slots, Write(s) PROVE Placed'
  <2>1. /\ doc' = Mutate(doc, tasks[s].edit, tasks[s].stroke)
        /\ tasks[s].edit \in Edits \cup {None}
    BY <1>2, WriteEffect DEF Write, At, TypeInv, Shapes, Good, Task
  <2>2. written' = IF tasks[s].edit = None THEN written ELSE written \cup {tasks[s].edit}
    BY <1>2 DEF Write
  <2>3. QED
    BY <1>0, <2>1, <2>2, MutatePlaced
<1>3. ASSUME NEW s \in Slots, SyncWrite(s) PROVE Placed'
  <2>1. doc' = [doc EXCEPT !.out = cells] /\ written' = written
    BY <1>3, SyncEffect DEF SyncWrite
  <2>2. doc'.routers = doc.routers /\ doc'.routes = doc.routes
    BY <1>0, <2>1 DEF Doc
  <2>3. QED
    BY <2>1, <2>2 DEF Placed
<1>4. ASSUME NEW k \in Stops, StopWrite(k) PROVE Placed'
  <2>1. doc' = [doc EXCEPT !.stops = @ \cup {k}] /\ written' = written
    BY <1>4, StopEffect DEF StopWrite
  <2>2. doc'.routers = doc.routers /\ doc'.routes = doc.routes
    BY <1>0, <2>1 DEF Doc
  <2>3. QED
    BY <2>1, <2>2 DEF Placed
<1>5. ASSUME NEW e \in RouteEdits, PatchWrite(e) PROVE Placed'
  <2>1. doc' = Mutate(doc, e, 0) /\ written' = written \cup {e} /\ e # None
    BY <1>0, <1>5, PatchEffect
  <2>2. QED
    BY <1>0, <2>1, MutatePlaced
<1>6. QED
  BY <1>1, <1>2, <1>3, <1>4, <1>5, DocumentStep

LEMMA KeptInit == Init => Placed
BY DEF Init, Placed, EmptyDoc

-----------------------------------------------------------------------------
(* The grid's queue.                                                       *)

\* The numbers that are compared.
Numbers ==
    /\ doc.grid \in Nat /\ strokes \in Nat /\ grid.waits \in Nat
    /\ \A p \in Pages : pages[p].lists.grid \in Nat
    /\ \A s \in Slots : At(s, "answer") => tasks[s].reading.grid \in Nat
    /\ \A s \in Slots : tasks[s] # None => tasks[s].stroke \in Nat

LEMMA GridNumbers == TypeInv => Numbers
<1> SUFFICES ASSUME TypeInv PROVE Numbers
  OBVIOUS
<1>1. \A d \in Doc : d.grid \in Nat
  BY DocumentAssumption DEF Doc
<1>2. \A s \in Slots : tasks[s] # None =>
          tasks[s].stroke \in Nat /\ (tasks[s].at = "answer" => tasks[s].reading \in Doc)
  BY DocumentAssumption DEF TypeInv, Shapes, Good, Task
<1>3. doc.grid \in Nat /\ \A p \in Pages : pages[p].lists.grid \in Nat
  BY <1>1 DEF TypeInv, TypeOK
<1>4. strokes \in Nat /\ grid.waits \in Nat
  BY DocumentAssumption DEF TypeInv, TypeOK
<1>5. QED
  BY <1>1, <1>2, <1>3, <1>4 DEF Numbers, At

\* What is not after n is not after any later stroke.
LEMMA LaterStroke ==
    ASSUME Numbers, NEW n \in Nat, NEW m \in Nat, n <= m, NoGridAfter(n)
    PROVE  NoGridAfter(m)
<1>1. doc.grid <= m
  BY DEF Numbers, NoGridAfter
<1>2. \A p \in Pages : pages[p].lists.grid <= m
  BY DEF Numbers, NoGridAfter
<1>3. \A r \in Slots : At(r, "answer") => tasks[r].reading.grid <= m
  BY DEF Numbers, NoGridAfter
<1>4. \A r \in Slots : tasks[r] # None /\ tasks[r].kind = "grid" => tasks[r].stroke <= m
  BY DEF Numbers, NoGridAfter
<1>5. QED
  BY <1>1, <1>2, <1>3, <1>4 DEF NoGridAfter

\* Every grid there is after a step was there before, or is that of a request under way.
LEMMA NoNewGrid ==
    ASSUME NEW n, NoGridAfter(n), NEW s \in Slots,
           \A r \in Slots : r # s => tasks'[r] = tasks[r],
           doc' = doc \/ doc'.grid <= n,
           \A p \in Pages : pages'[p].lists.grid <= n,
           tasks'[s] # None /\ tasks'[s].at = "answer" => tasks'[s].reading.grid <= n,
           tasks'[s] # None /\ tasks'[s].kind = "grid" => tasks'[s].stroke <= n
    PROVE  NoGridAfter(n)'
BY DEF NoGridAfter, At

\* A request that goes on.
LEMMA GridGoes ==
    ASSUME TypeInv, TypeInv', GridQueue, NEW s \in Slots,
           NEW at, NEW ok, NEW reading, NEW fresh, NEW rev,
           tasks[s] # None, Goes(s, at, ok, reading, fresh, rev), at # "sent",
           at = "checked" => tasks[s].at = "sent",
           at = "loaded" => tasks[s].at = "checked",
           at = "answer" => reading.grid = doc.grid,
           doc'.grid = doc.grid \/ (tasks[s].kind = "grid" /\ doc'.grid = tasks[s].stroke),
           pages' = pages, grid' = grid, strokes' = strokes
    PROVE  GridQueue'
<1>1. /\ tasks'[s].at = at /\ tasks'[s].reading = reading /\ Only(s)
      /\ tasks'[s].kind = tasks[s].kind /\ tasks'[s].page = tasks[s].page
      /\ tasks'[s].stroke = tasks[s].stroke /\ tasks'[s].seen = tasks[s].seen
  BY DEF Goes, Carried
<1>2. \A r \in Slots : /\ LiveGrid(r)' => LiveGrid(r)
                       /\ LiveGrid(r) => tasks'[r].stroke = tasks[r].stroke
  BY <1>1 DEF LiveGrid, Only
<1>3. ASSUME NEW n, NoGridAfter(n) PROVE NoGridAfter(n)'
  <2>1. doc.grid <= n /\ (tasks[s].kind = "grid" => tasks[s].stroke <= n)
    BY <1>3 DEF NoGridAfter
  <2>2. doc'.grid <= n
    BY <2>1
  <2>3. \A p \in Pages : pages'[p].lists.grid <= n
    BY <1>3 DEF NoGridAfter
  <2>4. QED
    BY <1>1, <1>3, <2>1, <2>2, <2>3, NoNewGrid DEF Only
<1>4. ASSUME NEW r \in Slots PROVE Newest(r)'
  <2>1. SUFFICES ASSUME LiveGrid(r)' PROVE Newest(r)'
    BY DEF Newest
  <2>2. PICK n : n = tasks[r].stroke
    OBVIOUS
  <2>3. NoGridAfter(n)' /\ tasks'[r].stroke = n /\ grid'.busy
    BY <1>2, <1>3, <2>1, <2>2 DEF GridQueue, Newest
  <2>4. QED
    BY <2>3 DEF Newest, NoGridAfter
<1>5. NoGridAfter(strokes)'
  <2>1. PICK n : n = strokes
    OBVIOUS
  <2>2. NoGridAfter(n)' /\ strokes' = n
    BY <1>3, <2>1 DEF GridQueue
  <2>3. QED
    BY <2>2 DEF NoGridAfter
<1>6. \A r \in Slots : OnOlder(r)'
  BY <1>1 DEF At, Only, GridQueue, OnOlder
<1>7. Waits'
  BY <1>2 DEF GridQueue, Waits
<1>8. QED
  BY <1>2, <1>4, <1>5, <1>6, <1>7 DEF GridQueue

\* A step that sends no grid.
LEMMA GridQuiet ==
    ASSUME GridQueue, strokes' = strokes,
           \A n : NoGridAfter(n) => NoGridAfter(n)',
           \A r \in Slots : LiveGrid(r)' =>
               LiveGrid(r) /\ tasks'[r].stroke = tasks[r].stroke /\ grid'.busy,
           grid'.waits # 0 => grid' = grid,
           \A r \in Slots : OnOlder(r)'
    PROVE  GridQueue'
<1>1. ASSUME NEW r \in Slots PROVE Newest(r)'
  <2>1. SUFFICES ASSUME LiveGrid(r)' PROVE Newest(r)'
    BY DEF Newest
  <2>2. PICK n : n = tasks[r].stroke
    OBVIOUS
  <2>3. NoGridAfter(n)' /\ tasks'[r].stroke = n /\ grid'.busy
    BY <2>1, <2>2 DEF GridQueue, Newest
  <2>4. QED
    BY <2>3 DEF Newest, NoGridAfter
<1>2. NoGridAfter(strokes)'
  <2>1. PICK n : n = strokes
    OBVIOUS
  <2>2. NoGridAfter(n)' /\ strokes' = n
    BY <2>1 DEF GridQueue
  <2>3. QED
    BY <2>2 DEF NoGridAfter
<1>3. Waits'
  BY DEF GridQueue, Waits
<1>4. QED
  BY <1>1, <1>2, <1>3 DEF GridQueue

\* A step that sends grid m from q.
LEMMA GridSent ==
    ASSUME TypeInv', NEW q \in Slots, NEW m \in Nat, tasks'[q].stroke = m,
           \A r \in Slots : LiveGrid(r)' => r = q,
           NoGridAfter(m)', m <= strokes', grid'.busy, grid'.waits = 0,
           \A r \in Slots : OnOlder(r)'
    PROVE  GridQueue'
<1>1. \A r \in Slots : Newest(r)'
  BY DEF Newest, NoGridAfter
<1>2. Numbers'
  BY GridNumbers, PTL
<1>3. NoGridAfter(strokes)'
  <2>1. doc'.grid <= strokes'
    BY <1>2 DEF Numbers, NoGridAfter
  <2>2. \A p \in Pages : pages'[p].lists.grid <= strokes'
    BY <1>2 DEF Numbers, NoGridAfter
  <2>3. \A r \in Slots : At(r, "answer")' => tasks'[r].reading.grid <= strokes'
    BY <1>2 DEF Numbers, NoGridAfter
  <2>4. \A r \in Slots : tasks'[r] # None /\ tasks'[r].kind = "grid" =>
            tasks'[r].stroke <= strokes'
    BY <1>2 DEF Numbers, NoGridAfter
  <2>5. QED
    BY <2>1, <2>2, <2>3, <2>4 DEF NoGridAfter
<1>4. Waits'
  BY DEF Waits
<1>5. QED
  BY <1>1, <1>3, <1>4 DEF GridQueue

\* A save that gets through the check puts in a grid that is not older.
LEMMA WriteGrid ==
    ASSUME TypeInv, Windows, GridQueue, NEW s \in Slots, Write(s), ~torn'
    PROVE  /\ doc'.grid = doc.grid \/ (tasks[s].kind = "grid" /\ doc'.grid = tasks[s].stroke)
           /\ doc'.grid >= doc.grid
<1>1. /\ tasks[s] # None /\ tasks[s].at = "loaded" /\ Good(tasks[s]) /\ doc \in Doc
      /\ None \notin Edits /\ RouteEdits \subseteq Edits
  BY DocumentAssumption DEF Write, At, TypeInv, TypeOK, Shapes
<1>2. doc' = Mutate(doc, tasks[s].edit, tasks[s].stroke)
  BY WriteEffect
<1>3. doc.grid \in Nat
  BY GridNumbers DEF Numbers
<1>4. CASE tasks[s].edit = None
  <2>1. tasks[s].kind = "grid"
    BY <1>1, <1>4 DEF Good, Task
  <2>2. doc'.grid = tasks[s].stroke
    BY <1>1, <1>2, <1>4 DEF Mutate, Doc
  <2>3. tasks[s].seen.routers = Version(doc).routers
    BY <1>1, <1>4 DEF Windows, Fits, At, List, Write, Tears
  <2>4. tasks[s].seen.routers[2] = doc.grid
    BY <2>3 DEF Version
  <2>5. tasks[s].seen.routers[2] <= tasks[s].stroke
    BY <1>1, <2>1 DEF GridQueue, OnOlder, At
  <2>6. tasks[s].stroke \in Nat
    BY <1>1, GridNumbers DEF Numbers
  <2>7. QED
    BY <1>3, <2>1, <2>2, <2>4, <2>5, <2>6
<1>5. CASE tasks[s].edit # None
  <2>1. doc'.grid = doc.grid
    BY <1>1, <1>2, <1>5 DEF Mutate, Doc
  <2>2. QED
    BY <1>3, <2>1
<1>6. QED
  BY <1>4, <1>5

\* A place that is taken or left, and no grid in it.
LEMMA GridPlace ==
    ASSUME TypeInv, GridQueue, NEW s \in Slots, Only(s), tasks'[s] = None \/
               (tasks'[s].kind # "grid" /\ tasks'[s].at # "answer"),
           doc' = doc, strokes' = strokes,
           \A n : NoGridAfter(n) => \A p \in Pages : pages'[p].lists.grid <= n,
           \A r \in Slots : r # s /\ LiveGrid(r) => grid'.busy,
           grid'.waits # 0 => grid' = grid
    PROVE  GridQueue'
<1>1. ASSUME NEW n, NoGridAfter(n) PROVE NoGridAfter(n)'
  BY <1>1, NoNewGrid DEF Only
<1>2. ~LiveGrid(s)' /\ OnOlder(s)'
  BY DEF LiveGrid, OnOlder, At
<1>3. \A r \in Slots : r # s => tasks'[r] = tasks[r]
  BY DEF Only
<1>4. \A r \in Slots : LiveGrid(r)' =>
          LiveGrid(r) /\ tasks'[r].stroke = tasks[r].stroke /\ grid'.busy
  BY <1>2, <1>3 DEF LiveGrid
<1>5. \A r \in Slots : OnOlder(r)'
  BY <1>2, <1>3 DEF GridQueue, OnOlder, At
<1>6. QED
  BY <1>1, <1>4, <1>5, GridQuiet

\* The end of a call for an answer that is in.
LEMMA GridEnded ==
    ASSUME TypeInv, TypeInv', GridQueue, NEW s \in Slots, NEW pg, Ended(s, pg),
           pg.lists \in Doc, pg.rev = Version(pg.lists),
           tasks[s] # None, tasks[s].page # None, doc' = doc, strokes' = strokes,
           \A n : NoGridAfter(n) =>
               pg.lists.grid <= n /\ \A p \in Pages : pages'[p].lists.grid <= n
    PROVE  GridQueue'
<1>0. pg.rev \in Versions /\ pg.rev.routers[2] = pg.lists.grid
  BY DocTypes DEF Version
<1>1. Only(s)
  BY <1>0, EndedStep
<1>2. \A r \in Slots : r # s => ~(tasks[s].kind = "grid" /\ LiveGrid(r))
  BY DEF GridQueue, LiveGrid
<1>3. grid \in [busy : BOOLEAN, waits : 0..MaxStrokes]
  BY DEF TypeInv, TypeOK
<1>4. CASE tasks[s].kind = "grid" /\ grid.waits # 0
  <2>1. Waited(tasks'[s], pg) /\ grid' = [grid EXCEPT !.waits = 0]
    BY <1>0, <1>4, EndedStep
  <2>2. grid'.busy = grid.busy /\ grid'.waits = 0
    BY <1>3, <2>1
  <2>3. PICK m : m = grid.waits
    OBVIOUS
  <2>4. PICK n : n = tasks[s].stroke
    OBVIOUS
  <2>5. /\ m \in Nat /\ n \in Nat /\ n <= m /\ m <= strokes' /\ grid'.busy
        /\ NoGridAfter(n)
    BY <1>4, <2>2, <2>3, <2>4, GridNumbers DEF GridQueue, Waits, Newest, LiveGrid, Numbers
  <2>6. NoGridAfter(m)
    BY <2>5, GridNumbers, LaterStroke
  <2>7. tasks'[s].stroke = m /\ tasks'[s].at = "sent" /\ tasks'[s].seen = pg.rev
    BY <2>1, <2>3 DEF Waited
  <2>8. NoGridAfter(m)'
    BY <1>1, <2>5, <2>6, <2>7, NoNewGrid DEF Only
  <2>9. \A r \in Slots : OnOlder(r)'
    <3>1. OnOlder(s)'
      BY <1>0, <2>6, <2>7 DEF OnOlder
    <3>2. QED
      BY <1>1, <3>1 DEF Only, GridQueue, OnOlder, At
  <2>10. \A r \in Slots : LiveGrid(r)' => r = s
    BY <1>1, <1>2, <1>4 DEF Only, LiveGrid
  <2>11. QED
    BY <2>2, <2>5, <2>7, <2>8, <2>9, <2>10, GridSent
<1>5. CASE ~(tasks[s].kind = "grid" /\ grid.waits # 0)
  <2>1. /\ tasks'[s] = None
        /\ grid' = IF tasks[s].kind = "grid" THEN [grid EXCEPT !.busy = FALSE] ELSE grid
    BY <1>0, <1>5, EndedStep
  <2>2. grid'.waits # 0 => grid' = grid
    BY <1>3, <1>5, <2>1
  <2>3. \A r \in Slots : r # s /\ LiveGrid(r) => grid'.busy
    BY <1>2, <2>1 DEF GridQueue, Newest
  <2>4. QED
    BY <1>1, <2>1, <2>2, <2>3, GridPlace
<1>6. QED
  BY <1>4, <1>5

LEMMA GridInit == Init => GridQueue
<1> SUFFICES ASSUME Init PROVE GridQueue
  OBVIOUS
<1>1. \A s \in Slots : tasks[s] = None
  BY DEF Init
<1>2. doc.grid = 0 /\ strokes = 0 /\ grid.waits = 0
      /\ \A p \in Pages : pages[p].lists.grid = 0
  BY DEF Init, EmptyDoc
<1>3. QED
  BY <1>1, <1>2 DEF GridQueue, NoGridAfter, Newest, OnOlder, Waits, LiveGrid, At

LEMMA GridStep ==
    ASSUME TypeInv, TypeInv', Windows, GridQueue, [Next]_vars, ~torn'
    PROVE  GridQueue'
<1>0. /\ tasks \in [Slots -> Task \cup {None}] /\ doc \in Doc
      /\ \A p \in Pages : pages[p].lists \in Doc /\ pages[p].rev = Version(pages[p].lists)
      /\ \A s \in Slots : tasks[s] # None => Good(tasks[s])
      /\ Painter \in Pages /\ grid \in [busy : BOOLEAN, waits : 0..MaxStrokes]
  BY DocumentAssumption DEF TypeInv, TypeOK, Shapes, Windows, ShownVersion
<1>1. \A n : NoGridAfter(n) => \A p \in Pages : pages[p].lists.grid <= n
  BY DEF NoGridAfter
<1>2. ASSUME NEW u, Put(u), u.kind # "grid", u.at # "answer", doc' = doc, strokes' = strokes,
             pages' = pages, grid' = grid
      PROVE  GridQueue'
  <2>1. PICK s \in Slots : tasks' = [tasks EXCEPT ![s] = u]
    BY <1>2 DEF Put, Free
  <2>2. tasks'[s] = u /\ Only(s)
    BY <1>0, <2>1 DEF Only
  <2>3. \A r \in Slots : r # s /\ LiveGrid(r) => grid'.busy
    BY <1>2 DEF GridQueue, Newest
  <2>4. QED
    BY <1>1, <1>2, <2>2, <2>3, GridPlace
<1>3. ASSUME NEW p \in Pages, Poll(p) PROVE GridQueue'
  <2>1. PollTask(p).kind = "poll" /\ PollTask(p).at = "topology"
    BY DEF PollTask
  <2>2. QED
    BY <1>2, <1>3, <2>1 DEF Poll, docVars, pageVars
<1>4. ASSUME NEW p \in Pages, NEW e \in Edits, Edit(p, e) PROVE GridQueue'
  <2>1. SaveTask(p, e, 0).kind = "edit" /\ SaveTask(p, e, 0).at = "sent"
    BY DocumentAssumption DEF SaveTask
  <2>2. QED
    BY <1>2, <1>4, <2>1 DEF Edit, docVars
<1>5. CASE Paint
  <2>1. doc' = doc /\ pages' = pages /\ strokes' = strokes + 1 /\ strokes \in Nat
    BY <1>5, GridNumbers DEF Paint, docVars, Numbers
  <2>2. PICK m : m = strokes + 1
    OBVIOUS
  <2>3. m \in Nat /\ m = strokes' /\ NoGridAfter(strokes)
    BY <2>1, <2>2 DEF GridQueue
  <2>4. NoGridAfter(m)
    BY <2>1, <2>2, <2>3, GridNumbers, LaterStroke
  <2>5. CASE grid.busy /\ grid' = [grid EXCEPT !.waits = strokes + 1] /\ tasks' = tasks
    <3>1. grid'.busy = grid.busy /\ grid'.waits = strokes + 1
      BY <1>0, <2>5
    <3>2. NoGridAfter(strokes)'
      BY <2>1, <2>3, <2>4, <2>5 DEF NoGridAfter, At
    <3>3. \A r \in Slots : LiveGrid(r)' <=> LiveGrid(r)
      BY <2>5 DEF LiveGrid
    <3>4. \A r \in Slots : LiveGrid(r) => tasks[r].stroke < strokes + 1
      BY <2>1, GridNumbers DEF GridQueue, NoGridAfter, LiveGrid, Numbers
    <3>5. Waits'
      BY <2>1, <2>5, <3>1, <3>3, <3>4 DEF Waits
    <3>6. \A r \in Slots : Newest(r)'
      BY <2>1, <2>5, <3>1, <3>3 DEF GridQueue, Newest, NoGridAfter, At
    <3>7. \A r \in Slots : OnOlder(r)'
      BY <2>5 DEF GridQueue, OnOlder, At
    <3>8. QED
      BY <3>2, <3>3, <3>5, <3>6, <3>7 DEF GridQueue
  <2>6. CASE ~grid.busy /\ grid' = [grid EXCEPT !.busy = TRUE]
             /\ Put(SaveTask(Painter, None, strokes + 1))
    <3> DEFINE u == SaveTask(Painter, None, strokes + 1)
    <3>1. /\ u.kind = "grid" /\ u.stroke = m /\ u.at = "sent"
          /\ u.seen = Version(pages[Painter].lists)
      BY <1>0, <2>2 DEF SaveTask
    <3> HIDE DEF u
    <3>2. PICK s \in Slots : tasks' = [tasks EXCEPT ![s] = u]
      BY <2>6 DEF Put, Free, u
    <3>3. tasks'[s] = u /\ Only(s)
      BY <1>0, <3>2 DEF Only
    <3>4. grid'.busy /\ grid'.waits = 0
      BY <1>0, <2>6 DEF GridQueue, Waits
    <3>5. \A r \in Slots : LiveGrid(r)' => r = s
      BY <2>6, <3>3 DEF Only, LiveGrid, GridQueue, Newest
    <3>6. \A p \in Pages : pages'[p].lists.grid <= m
      BY <1>1, <2>1, <2>4
    <3>7. NoGridAfter(m)'
      BY <2>1, <2>3, <2>4, <3>1, <3>3, <3>6, NoNewGrid DEF Only
    <3>8. u.seen.routers[2] <= m
      BY <1>0, <1>1, <2>4, <3>1 DEF Version
    <3>9. \A r \in Slots : OnOlder(r)'
      BY <3>1, <3>3, <3>8 DEF Only, GridQueue, OnOlder, At
    <3>10. QED
      BY <2>3, <3>1, <3>3, <3>4, <3>5, <3>7, <3>9, GridSent
  <2>7. QED
    BY <1>5, <2>5, <2>6 DEF Paint
<1>6. ASSUME tasks' = tasks, doc'.grid = doc.grid, pages' = pages, grid' = grid,
             strokes' = strokes
      PROVE  GridQueue'
  <2>1. \A n : NoGridAfter(n) => NoGridAfter(n)'
    BY <1>6 DEF NoGridAfter, At
  <2>2. \A r \in Slots : LiveGrid(r)' <=> LiveGrid(r)
    BY <1>6 DEF LiveGrid
  <2>3. \A r \in Slots : OnOlder(r)'
    BY <1>6 DEF GridQueue, OnOlder, At
  <2>4. QED
    BY <1>6, <2>1, <2>2, <2>3, GridQuiet DEF GridQueue, Newest
<1>7. CASE \/ CellAdded \/ (\E k \in Stops : StopRead(k)) \/ (\E e \in RouteEdits : PatchRead(e))
           \/ UNCHANGED vars
  BY <1>6, <1>7 DEF CellAdded, StopRead, PatchRead, vars, docVars, pageVars
<1>8. ASSUME NEW k \in Stops, StopWrite(k) PROVE GridQueue'
  <2>1. doc'.grid = doc.grid
    BY <1>0, <1>8, StopEffect DEF Doc
  <2>2. QED
    BY <1>6, <1>8, <2>1 DEF StopWrite, pageVars
<1>8a. ASSUME NEW e \in RouteEdits, PatchWrite(e) PROVE GridQueue'
  <2>1. doc'.grid = doc.grid
    BY <1>0, <1>8a, PatchEffect, DocumentAssumption DEF Mutate, Doc
  <2>2. QED
    BY <1>6, <1>8a, <2>1 DEF PatchWrite, pageVars
<1>9. ASSUME NEW s \in Slots, Check(s) PROVE GridQueue'
  <2>1. /\ tasks[s] # None /\ tasks[s].at = "sent" /\ doc' = doc /\ pages' = pages
        /\ grid' = grid /\ strokes' = strokes
    BY <1>9 DEF Check, At, pageVars
  <2>2. PICK at \in {"topology", "checked"} :
            Goes(s, at, tasks[s].ok, tasks[s].reading, tasks[s].fresh, tasks[s].rev)
    BY <1>9, Served
  <2>3. QED
    BY <2>1, <2>2, GridGoes
<1>9a. ASSUME NEW s \in Slots, Load(s) PROVE GridQueue'
  <2>1. /\ tasks[s] # None /\ tasks[s].at = "checked" /\ doc' = doc /\ pages' = pages
        /\ grid' = grid /\ strokes' = strokes
        /\ Goes(s, "loaded", tasks[s].ok, doc, tasks[s].fresh, tasks[s].rev)
    BY <1>9a, Served DEF Load, At, pageVars
  <2>2. QED
    BY <2>1, GridGoes
<1>10. ASSUME NEW s \in Slots, Write(s) PROVE GridQueue'
  <2>1. /\ tasks[s] # None /\ pages' = pages /\ grid' = grid /\ strokes' = strokes
        /\ Goes(s, "topology", TRUE, None, tasks[s].fresh, tasks[s].rev)
    BY <1>10, Served DEF Write, At, pageVars
  <2>2. PICK ok : Goes(s, "topology", ok, None, tasks[s].fresh, tasks[s].rev)
    BY <2>1, Zenon
  <2>3. doc'.grid = doc.grid \/ (tasks[s].kind = "grid" /\ doc'.grid = tasks[s].stroke)
    BY <1>10, WriteGrid
  <2>4. QED
    BY <2>1, <2>2, <2>3, GridGoes
<1>11. Lists(doc).grid = doc.grid
  BY <1>0 DEF Lists, Doc
<1>12. ASSUME NEW s \in Slots, Topology(s) PROVE GridQueue'
  <2>1. /\ tasks[s] # None /\ doc' = doc /\ pages' = pages /\ grid' = grid
        /\ strokes' = strokes
    BY <1>12 DEF Topology, At, docVars, pageVars
  <2>2. PICK at \in {"answer", "sync"} :
            Goes(s, at, tasks[s].ok, Lists(doc), tasks[s].fresh, Version(doc))
    BY <1>12, Served
  <2>3. QED
    BY <1>11, <2>1, <2>2, GridGoes
<1>13. ASSUME NEW s \in Slots, Fresh(s) PROVE GridQueue'
  <2>1. /\ tasks[s] # None /\ doc' = doc /\ pages' = pages /\ grid' = grid
        /\ strokes' = strokes
        /\ Goes(s, "fresh", tasks[s].ok, tasks[s].reading, doc, tasks[s].rev)
    BY <1>13, Served DEF Fresh, At, docVars, pageVars
  <2>2. QED
    BY <2>1, GridGoes
<1>14. ASSUME NEW s \in Slots, SyncWrite(s) PROVE GridQueue'
  <2>1. /\ tasks[s] # None /\ pages' = pages /\ grid' = grid /\ strokes' = strokes
        /\ Goes(s, "reread", tasks[s].ok, [tasks[s].reading EXCEPT !.out = cells], None,
                tasks[s].rev)
    BY <1>14, Served DEF SyncWrite, At, pageVars
  <2>2. doc'.grid = doc.grid
    BY <1>0, <1>14, SyncEffect DEF Doc
  <2>3. QED
    BY <2>1, <2>2, GridGoes
<1>15. ASSUME NEW s \in Slots, Reread(s) PROVE GridQueue'
  <2>1. /\ tasks[s] # None /\ doc' = doc /\ pages' = pages /\ grid' = grid
        /\ strokes' = strokes /\ Version(doc) = Version(tasks[s].reading)
        /\ Goes(s, "answer", tasks[s].ok, tasks[s].reading, tasks[s].fresh, Version(doc))
    BY <1>15, Served DEF Reread, At, Tears, pageVars
  <2>2. tasks[s].reading.grid = doc.grid
    <3>1. Version(doc).routers[2] = Version(tasks[s].reading).routers[2]
      BY <2>1
    <3>2. QED
      BY <3>1 DEF Version
  <2>3. QED
    BY <2>1, <2>2, GridGoes
<1>16. ASSUME NEW s \in Slots, Arrive(s) PROVE GridQueue'
  <2>1. /\ tasks[s] # None /\ Good(tasks[s]) /\ tasks[s].at = "answer"
        /\ tasks[s].page \in Pages /\ tasks[s].page # None /\ tasks[s].reading \in Doc
        /\ ~tasks[s].ok => tasks[s].kind # "poll"
    BY <1>0, <1>16 DEF Arrive, At, Good, Task
  <2>2. tasks[s].rev = Version(tasks[s].reading) /\ doc' = doc /\ strokes' = strokes
    BY <1>16, <2>1 DEF Arrive, At, docVars, Windows, Fits
  <2>3. /\ Shown(tasks[s]).lists = tasks[s].reading
        /\ Shown(tasks[s]).rev = Version(tasks[s].reading)
    BY <2>2 DEF Shown
  <2>4. \A n : NoGridAfter(n) => tasks[s].reading.grid <= n
    BY <2>1 DEF NoGridAfter, At
  <2>5. pages' = [pages EXCEPT ![tasks[s].page] = Shown(tasks[s])] =>
            \A n : NoGridAfter(n) => \A p \in Pages : pages'[p].lists.grid <= n
    BY <1>0, <1>1, <2>1, <2>3, <2>4 DEF TypeInv, TypeOK
  <2>6. CASE /\ tasks[s].ok
             /\ pages' = [pages EXCEPT ![tasks[s].page] = Shown(tasks[s])]
             /\ Ended(s, Shown(tasks[s]))
    BY <2>1, <2>2, <2>3, <2>4, <2>5, <2>6, GridEnded
  <2>7. CASE /\ ~tasks[s].ok /\ ~tasks[s].again
             /\ pages' = [pages EXCEPT ![tasks[s].page] = Shown(tasks[s])]
             /\ tasks' = [tasks EXCEPT ![s] = Again(tasks[s])]
             /\ UNCHANGED <<grid, told>>
    <3>1. tasks'[s] = Again(tasks[s]) /\ Only(s)
      BY <1>0, <2>7 DEF Only
    <3>2. /\ tasks'[s].at = "sent" /\ tasks'[s].seen = Version(tasks[s].reading)
          /\ tasks'[s].kind = tasks[s].kind /\ tasks'[s].page = tasks[s].page
          /\ tasks'[s].stroke = tasks[s].stroke
      BY <2>1, <2>2, <2>7, <3>1, AgainGood
    <3>3. OnOlder(s)'
      <4>1. SUFFICES ASSUME tasks[s].kind = "grid" PROVE OnOlder(s)'
        BY <3>2 DEF OnOlder
      <4>2. NoGridAfter(tasks[s].stroke)
        BY <2>1, <4>1 DEF GridQueue, Newest, LiveGrid
      <4>3. tasks[s].reading.grid <= tasks[s].stroke
        BY <2>1, <4>2 DEF NoGridAfter, At
      <4>4. tasks'[s].seen.routers[2] = tasks[s].reading.grid
        BY <3>2 DEF Version
      <4>5. QED
        BY <3>2, <4>3, <4>4 DEF OnOlder
    <3>4. \A r \in Slots : OnOlder(r)'
      BY <3>1, <3>3 DEF Only, GridQueue, OnOlder, At
    <3>5. \A r \in Slots : LiveGrid(r)' =>
              LiveGrid(r) /\ tasks'[r].stroke = tasks[r].stroke /\ grid'.busy
      BY <2>1, <2>7, <3>1, <3>2 DEF Only, LiveGrid, GridQueue, Newest
    <3>6. ASSUME NEW n, NoGridAfter(n) PROVE NoGridAfter(n)'
      <4>1. \A p \in Pages : pages'[p].lists.grid <= n
        BY <2>5, <2>7, <3>6
      <4>2. tasks[s].kind = "grid" => tasks[s].stroke <= n
        BY <2>1, <3>6 DEF NoGridAfter
      <4>3. QED
        BY <2>2, <3>1, <3>2, <3>6, <4>1, <4>2, NoNewGrid DEF Only
    <3>7. QED
      BY <2>2, <2>7, <3>4, <3>5, <3>6, GridQuiet
  <2>8. CASE /\ ~tasks[s].ok /\ tasks[s].again
             /\ Ended(s, pages[tasks[s].page])
             /\ UNCHANGED pages
    BY <1>0, <1>1, <2>1, <2>2, <2>8, GridEnded
  <2>9. QED
    BY <1>16, <2>6, <2>7, <2>8 DEF Arrive
<1>17. ASSUME NEW s \in Slots, Dropped(s) PROVE GridQueue'
  <2>1. /\ tasks'[s] = None /\ Only(s) /\ doc' = doc /\ pages' = pages /\ grid' = grid
        /\ strokes' = strokes
    BY <1>0, <1>17 DEF Dropped, Only, docVars, pageVars
  <2>2. \A r \in Slots : r # s /\ LiveGrid(r) => grid'.busy
    BY <2>1 DEF GridQueue, Newest
  <2>3. QED
    BY <1>1, <2>1, <2>2, GridPlace
<1>18. ASSUME NEW s \in Slots, Lost(s) PROVE GridQueue'
  <2>1. /\ doc' = doc /\ pages' = pages /\ strokes' = strokes /\ tasks[s] # None
        /\ tasks[s].page # None /\ Good(tasks[s])
        /\ tasks'[s] = [tasks[s] EXCEPT !.page = None]
    BY <1>0, <1>18, LostStep DEF Lost, docVars
  <2>2. /\ tasks'[s].page = None /\ tasks'[s].kind = tasks[s].kind
        /\ tasks'[s].stroke = tasks[s].stroke /\ tasks'[s].at = tasks[s].at
        /\ tasks'[s].seen = tasks[s].seen /\ tasks'[s].reading = tasks[s].reading
    BY <2>1, LeftGood
  <2>3. ~LiveGrid(s)'
    BY <2>2 DEF LiveGrid
  <2>4. OnOlder(s)'
    BY <2>1, <2>2 DEF GridQueue, OnOlder, At
  <2>5. \A r \in Slots : r # s => ~(tasks[s].kind = "grid" /\ LiveGrid(r))
    BY <2>1 DEF GridQueue, LiveGrid
  <2>6. CASE \E q \in Slots : q # s /\ tasks[s].kind = "grid" /\ GoesTo(q)
    <3>1. PICK q \in Slots : q # s /\ tasks[s].kind = "grid" /\ GoesTo(q)
      BY <2>6
    <3>2. grid.waits # 0 /\ tasks[q] = None
          /\ tasks'[q] = SaveTask(Painter, None, grid.waits)
      BY <1>18, <3>1, LostStep DEF GoesTo
    <3>3. \A r \in Slots : r # s /\ r # q => tasks'[r] = tasks[r]
      BY <1>18, <3>1, LostStep
    <3>4. grid'.busy /\ grid'.waits = 0
      BY <1>18, <3>1, <3>2 DEF Lost
    <3>5. PICK m : m = grid.waits
      OBVIOUS
    <3>6. PICK n : n = tasks[s].stroke
      OBVIOUS
    <3>7. m \in Nat /\ n \in Nat /\ n <= m /\ m <= strokes' /\ NoGridAfter(n)
      BY <2>1, <3>1, <3>2, <3>5, <3>6, GridNumbers
      DEF GridQueue, Waits, Newest, LiveGrid, Numbers
    <3>8. NoGridAfter(m)
      BY <3>7, GridNumbers, LaterStroke
    <3>9. /\ tasks'[q].kind = "grid" /\ tasks'[q].stroke = m /\ tasks'[q].at = "sent"
          /\ tasks'[q].seen = Version(pages[Painter].lists)
      BY <1>0, <3>2, <3>5 DEF SaveTask
    <3>10. tasks'[q].seen.routers[2] <= m
      BY <1>0, <1>1, <3>8, <3>9 DEF Version
    <3>11. \A r \in Slots : LiveGrid(r)' => r = q
      BY <2>3, <2>5, <3>1, <3>3 DEF LiveGrid
    <3>12. \A r \in Slots : OnOlder(r)'
      <4>1. OnOlder(q)'
        BY <3>9, <3>10 DEF OnOlder
      <4>2. QED
        BY <2>4, <3>3, <4>1 DEF GridQueue, OnOlder, At
    <3>13. NoGridAfter(m)'
      <4>1. \A p \in Pages : pages'[p].lists.grid <= m
        BY <1>1, <2>1, <3>8
      <4>2. \A r \in Slots : At(r, "answer")' => tasks'[r].reading.grid <= m
        BY <2>1, <2>2, <3>3, <3>8, <3>9 DEF NoGridAfter, At
      <4>3. \A r \in Slots : tasks'[r] # None /\ tasks'[r].kind = "grid" =>
                tasks'[r].stroke <= m
        <5>1. \A r \in Slots : tasks[r] # None /\ tasks[r].kind = "grid" => tasks[r].stroke <= m
          BY <3>8 DEF NoGridAfter
        <5>2. tasks'[q].stroke <= m
          BY <3>7, <3>9
        <5>3. tasks'[s].kind = "grid" => tasks'[s].stroke <= m
          BY <2>1, <2>2, <5>1
        <5>4. QED
          BY <3>3, <5>1, <5>2, <5>3
      <4>4. QED
        BY <2>1, <3>8, <4>1, <4>2, <4>3 DEF NoGridAfter
    <3>14. QED
      BY <3>4, <3>7, <3>9, <3>11, <3>12, <3>13, GridSent
  <2>7. CASE ~\E q \in Slots : q # s /\ tasks[s].kind = "grid" /\ GoesTo(q)
    <3>1. Only(s)
      BY <1>18, <2>7, LostStep DEF Only
    <3>2. \A n : NoGridAfter(n) => NoGridAfter(n)'
      BY <1>1, <2>1, <2>2, <3>1, NoNewGrid DEF Only, NoGridAfter, At
    <3>3. \A r \in Slots : LiveGrid(r)' => LiveGrid(r) /\ tasks'[r].stroke = tasks[r].stroke
                                            /\ tasks[s].kind # "grid"
      BY <2>3, <2>5, <3>1 DEF Only, LiveGrid
    <3>4. grid' = IF tasks[s].kind # "grid" THEN grid
                  ELSE [busy |-> grid.waits # 0, waits |-> 0]
      BY <1>18 DEF Lost
    <3>5. \A r \in Slots : LiveGrid(r)' => grid'.busy
      BY <3>3, <3>4 DEF GridQueue, Newest
    <3>6. grid'.waits # 0 => grid' = grid
      BY <3>4
    <3>7. \A r \in Slots : OnOlder(r)'
      BY <2>4, <3>1 DEF Only, GridQueue, OnOlder, At
    <3>8. QED
      BY <2>1, <3>2, <3>3, <3>5, <3>6, <3>7, GridQuiet
  <2>8. QED
    BY <2>6, <2>7
<1>19. QED
  BY <1>3, <1>4, <1>5, <1>7, <1>8, <1>8a, <1>9, <1>9a, <1>10, <1>12, <1>13, <1>14, <1>15, <1>16, <1>17,
     <1>18 DEF Next, Serve

-----------------------------------------------------------------------------
(* The theorems.                                                           *)

LEMMA DocumentInvStep == DocumentInv /\ [Next]_vars => DocumentInv'
<1> SUFFICES ASSUME DocumentInv, [Next]_vars PROVE DocumentInv'
  OBVIOUS
<1>1. TypeInv /\ TypeInv'
  BY TypeStep DEF DocumentInv
<1>2. CASE torn'
  BY <1>1, <1>2 DEF DocumentInv
<1>3. CASE ~torn'
  <2>1. Windows /\ Placed /\ GridQueue
    BY <1>3, TornStep DEF DocumentInv
  <2>2. Windows' /\ Placed' /\ GridQueue'
    BY <1>1, <1>3, <2>1, WindowsStep, KeptStep, GridStep
  <2>3. QED
    BY <1>1, <2>2 DEF DocumentInv
<1>4. QED
  BY <1>2, <1>3

LEMMA DocumentInvariant == Spec => []DocumentInv
<1>1. Init => DocumentInv
  BY TypeInit, WindowsInit, KeptInit, GridInit DEF DocumentInv
<1>2. QED
  BY <1>1, DocumentInvStep, PTL DEF Spec

\* No change that was put into the document is taken out of it again by a save, however
\* old the copy it was made from, and whatever saves, lost answers, stop requests and
\* fields of routes are under way (ProxyRevisions); only a write without the lock that
\* falls between another request's reading and its write can do it.
THEOREM NoEditLost == Spec => []NoLostEdit
<1>1. DocumentInv => NoLostEdit
  BY DEF DocumentInv, Placed, NoLostEdit
<1>2. QED
  BY <1>1, DocumentInvariant, PTL

\* Nor, but by such a write, does the stored grid go back to one painted before it: one
\* grid of the page is on its way at a time, a refused one is made again on lists that
\* hold no newer grid, and one whose answer was lost is refused once a newer one is in
\* (saveGrid, ProxyRevisions).
THEOREM GridNeverBack == Spec => GridForward
<1>1. DocumentInv /\ [Next]_vars => [torn' \/ doc'.grid >= doc.grid]_vars
  <2>1. SUFFICES ASSUME DocumentInv, [Next]_vars, ~torn' PROVE doc'.grid >= doc.grid
    OBVIOUS
  <2>2. TypeInv /\ Windows /\ GridQueue
    BY <2>1, TornStep DEF DocumentInv
  <2>3. doc.grid \in Nat /\ doc \in Doc
    BY <2>2, GridNumbers DEF Numbers, TypeInv, TypeOK
  <2>4. doc'.grid = doc.grid => doc'.grid >= doc.grid
    BY <2>3
  <2>5. CASE doc' = doc
    BY <2>4, <2>5
  <2>6. ASSUME NEW s \in Slots, Write(s) PROVE doc'.grid >= doc.grid
    BY <2>1, <2>2, <2>6, WriteGrid
  <2>7. ASSUME NEW s \in Slots, SyncWrite(s) PROVE doc'.grid >= doc.grid
    BY <2>1, <2>2, <2>3, <2>4, <2>7, SyncEffect DEF Doc
  <2>8. ASSUME NEW k \in Stops, StopWrite(k) PROVE doc'.grid >= doc.grid
    BY <2>1, <2>3, <2>4, <2>8, StopEffect DEF Doc
  <2>9. ASSUME NEW e \in RouteEdits, PatchWrite(e) PROVE doc'.grid >= doc.grid
    BY <2>1, <2>3, <2>4, <2>9, PatchEffect, DocumentAssumption DEF Mutate, Doc
  <2>10. QED
    BY <2>1, <2>5, <2>6, <2>7, <2>8, <2>9, DocumentStep
<1>2. QED
  BY <1>1, DocumentInvariant, PTL DEF Spec, GridForward
=============================================================================
