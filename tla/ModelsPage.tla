----------------------------- MODULE ModelsPage -----------------------------
(***************************************************************************)
(* The models page and the move tracker on it (static/js/model-moves.js,   *)
(* models-page.js).  The server's jobs are those of MoveJobs; the page     *)
(* polls them while one it knows of is open, and draws the tree anew when  *)
(* what the tree says of a file has changed.  The first poll, the timer's, *)
(* the one after a start and the one after a stop may be on their way at   *)
(* once, and so may two listings of the disk; an answer is the state of    *)
(* the server when it was made, and may be lost.  Nothing orders the       *)
(* answers: one that was asked for under an older picture than the one it  *)
(* replaces may undo what the page knows, and crossed records that this    *)
(* has happened.                                                           *)
(*                                                                         *)
(* A job carries one file, which leaves the disk when the job ends well.   *)
(***************************************************************************)
EXTENDS Naturals, FiniteSets

CONSTANTS
    Jobs,       \* the moves, in the order they were created
    Files,
    FileOf,     \* [Jobs -> Files]
    Slots,      \* bound: the tracker's calls on their way at once
    MaxOps,     \* bound: what the operator, other pages and the network do in all
    Nothing

ASSUME PageAssumption ==
    /\ Jobs \in SUBSET Nat
    /\ FileOf \in [Jobs -> Files]
    /\ Slots \in SUBSET Nat
    /\ MaxOps \in Nat

VARIABLES
    jobs,       \* MoveJobs: none, open or closed
    ended,      \* job -> how it ended: moved, stayed with a note, stopped
    here,       \* the files on this disk
    known,      \* MoveTracker.jobs: the last answer, or Nothing
    timer,      \* MoveTracker.timer is set
    calls,      \* slot -> a call of the tracker on its way
    crossed,    \* an answer has replaced one that came in after it was asked for
    seen,       \* notes the operator hid, by job
    listing,    \* models-page.js refresh(): the newest one on its way
    older,      \* one that a newer refresh was started after
    tree,       \* the tree on the screen
    ops

serverVars == <<jobs, ended, here>>
trackerVars == <<known, timer, seen>>
treeVars == <<listing, older, tree>>
vars == <<serverVars, trackerVars, calls, crossed, treeVars, ops>>

Server == INSTANCE MoveJobs

Ends == {"moved", "stayed", "stopped"}

\* What the server says of a job.
Said == {"none", "open"} \cup Ends

Shapes == [Files -> {"plain", "bar", "note"}]

Call == [kind : {"mount", "tick", "start", "stop"}, job : Jobs \cup {Nothing},
         at : {"post", "posted", "asked", "read"},
         answer : [Jobs -> Said] \cup {Nothing}, before : Shapes \cup {Nothing},
         late : BOOLEAN]

Listing == [at : {"none", "asked", "read"}, here : SUBSET Files]

NoListing == [at |-> "none", here |-> {}]

TypeOK ==
    /\ Server!TypeOK
    /\ ended \in [Jobs -> Ends \cup {Nothing}]
    /\ here \subseteq Files
    /\ known \in [Jobs -> Said] \cup {Nothing}
    /\ timer \in BOOLEAN /\ seen \subseteq Jobs
    /\ calls \in [Slots -> Call \cup {Nothing}] /\ crossed \in BOOLEAN
    /\ listing \in Listing /\ older \in Listing
    /\ tree \in [at : {"empty", "drawn", "error"}, here : SUBSET Files, row : Shapes]
    /\ ops \in 0..MaxOps

\* Of what follows on a crossed answer little is claimed, and nothing new is begun.
Act == ~crossed /\ ops < MaxOps /\ ops' = ops + 1

\* Mutant: the server says that a job has ended, not how.
AnswerRaw == jobs

\* GET /api/model-stores/moves
Answer == [j \in Jobs |-> IF jobs[j] = "closed" THEN ended[j] ELSE jobs[j]]

-----------------------------------------------------------------------------
(* What a row says                                                         *)

\* reindex: the newest job that holds a file decides.
Newest(k, f) ==
    {j \in Jobs : /\ k # Nothing /\ k[j] # "none" /\ FileOf[j] = f
                  /\ \A m \in Jobs : k[m] # "none" /\ FileOf[m] = f => m <= j}

\* onWay, stayed, shape: which files travel and which carry a note.
Shape(k, hid) ==
    [f \in Files |->
        IF \E j \in Newest(k, f) : k[j] = "open" THEN "bar"
        ELSE IF \E j \in Newest(k, f) : k[j] = "stayed" /\ j \notin hid THEN "note"
        ELSE "plain"]

Plain == [f \in Files |-> "plain"]

\* schedule: polling runs only while something known of moves.
Schedule(k) == k # Nothing /\ \E j \in Jobs : k[j] = "open"

-----------------------------------------------------------------------------
(* The tree (models-page.js refresh, draw)                                 *)

\* refresh: the answer to come is the newest; the one before it will be dropped.
StartRefresh ==
    /\ listing' = [at |-> "asked", here |-> {}]
    /\ older' = IF listing.at = "none" THEN older ELSE listing
    /\ UNCHANGED tree

ReadListing ==
    /\ listing.at = "asked"
    /\ listing' = [at |-> "read", here |-> here]
    /\ UNCHANGED <<serverVars, trackerVars, calls, crossed, older, tree, ops>>

ReadOlder ==
    /\ older.at = "asked"
    /\ older' = [at |-> "read", here |-> here]
    /\ UNCHANGED <<serverVars, trackerVars, calls, crossed, listing, tree, ops>>

\* draw: the listing, with what the tracker says of each row now.
Draw(l) == [at |-> "drawn", here |-> l.here, row |-> Shape(known, seen)]

DrawListing ==
    /\ listing.at = "read"
    /\ tree' = Draw(listing)
    /\ listing' = NoListing
    /\ UNCHANGED <<serverVars, trackerVars, calls, crossed, older, ops>>

\* Mutant: whatever answer lands is drawn.
DrawOlder ==
    /\ older.at = "read"
    /\ tree' = Draw(older)
    /\ older' = NoListing
    /\ UNCHANGED <<serverVars, trackerVars, calls, crossed, listing, ops>>

\* refresh: an answer that lands after a newer refresh began is dropped.
DropOlder ==
    /\ older.at = "read"
    /\ older' = NoListing
    /\ UNCHANGED <<serverVars, trackerVars, calls, crossed, listing, tree, ops>>

\* refresh: the listing failed; the page says so and keeps no tree.
ListingFails ==
    /\ Act
    /\ listing.at # "none"
    /\ listing' = NoListing
    /\ tree' = [at |-> "error", here |-> {}, row |-> Plain]
    /\ UNCHANGED <<serverVars, trackerVars, calls, crossed, older>>

\* A file deleted, the language changed: the page lists the disk again.
Relist ==
    /\ Act
    /\ StartRefresh
    /\ UNCHANGED <<serverVars, trackerVars, calls, crossed>>

-----------------------------------------------------------------------------
(* The tracker's calls (MoveTracker)                                       *)

Free == {s \in Slots : calls[s] = Nothing}

Put(c) ==
    \E s \in Free :
        /\ \A r \in Free : s <= r
        /\ calls' = [calls EXCEPT ![s] = c]

\* tick: what the tree shows is remembered before the answer is awaited.
TickCall == [kind |-> "tick", job |-> Nothing, at |-> "asked", answer |-> Nothing,
             before |-> Shape(known, seen), late |-> FALSE]

\* The page has just loaded: the tracker asks, and so does the tree.
Init ==
    /\ Server!Init
    /\ ended = [j \in Jobs |-> Nothing]
    /\ here = Files
    /\ known = Nothing /\ timer = FALSE /\ seen = {}
    /\ calls = [s \in Slots |->
                  IF \A r \in Slots : s <= r
                  THEN [TickCall EXCEPT !.kind = "mount", !.before = Nothing] ELSE Nothing]
    /\ crossed = FALSE
    /\ listing = [at |-> "asked", here |-> {}] /\ older = NoListing
    /\ tree = [at |-> "empty", here |-> {}, row |-> Plain]
    /\ ops = 0

\* schedule's timer runs out: tick.
TimerFires ==
    /\ timer /\ Free # {}
    /\ timer' = FALSE
    /\ Put(TickCall)
    /\ UNCHANGED <<serverVars, known, seen, crossed, treeVars, ops>>

\* start: the operator sends a file that is here and not on its way.
Start(j) ==
    /\ Act
    /\ jobs[j] = "none" /\ Free # {}
    /\ \A s \in Slots : calls[s] # Nothing => calls[s].kind # "start"
    /\ tree.at = "drawn" /\ FileOf[j] \in tree.here /\ tree.row[FileOf[j]] # "bar"
    /\ Put([kind |-> "start", job |-> j, at |-> "post", answer |-> Nothing,
            before |-> Nothing, late |-> FALSE])
    /\ UNCHANGED <<serverVars, trackerVars, crossed, treeVars>>

\* stop: the ✕ of a row that carries a bar.
Stop(j) ==
    /\ Act
    /\ known # Nothing /\ known[j] = "open" /\ Free # {}
    /\ tree.at = "drawn" /\ tree.row[FileOf[j]] = "bar"
    /\ Put([kind |-> "stop", job |-> j, at |-> "post", answer |-> Nothing,
            before |-> Nothing, late |-> FALSE])
    /\ UNCHANGED <<serverVars, trackerVars, crossed, treeVars>>

\* dismiss: the note leaves in place.
Dismiss(j) ==
    /\ Act
    /\ known # Nothing /\ j \in Newest(known, FileOf[j]) /\ known[j] = "stayed"
    /\ tree.at = "drawn" /\ tree.row[FileOf[j]] = "note"
    /\ seen' = seen \cup {j}
    /\ tree' = [tree EXCEPT !.row[FileOf[j]] = "plain"]
    /\ UNCHANGED <<serverVars, known, timer, calls, crossed, listing, older>>

\* Jobs are created in order, and a file two jobs ask for is moved by one.
MayOpen(j) ==
    /\ \A k \in Jobs : k < j => jobs[k] # "none"
    /\ FileOf[j] \in here
    /\ \A k \in Jobs : FileOf[k] = FileOf[j] => jobs[k] # "open"

End(j, how) ==
    /\ Server!Close(j)
    /\ ended' = [ended EXCEPT ![j] = how]
    /\ here' = IF how = "moved" THEN here \ {FileOf[j]} ELSE here

\* The server takes the post: the job is entered, or told to stop, which ends it at
\* once while it is in line; what is refused is toasted and the call is over.
Serve(s) ==
    /\ calls[s] # Nothing /\ calls[s].at = "post"
    /\ LET j == calls[s].job
       IN  \/ /\ calls[s].kind = "start" /\ MayOpen(j)
              /\ Server!Open(j)
              /\ calls' = [calls EXCEPT ![s].at = "posted"]
              /\ UNCHANGED <<ended, here>>
           \/ /\ calls[s].kind = "start" /\ ~(MayOpen(j) /\ jobs[j] = "none")
              /\ calls' = [calls EXCEPT ![s] = Nothing]
              /\ UNCHANGED serverVars
           \/ /\ calls[s].kind = "stop"
              /\ calls' = [calls EXCEPT ![s].at = "posted"]
              /\ End(j, "stopped") \/ UNCHANGED serverVars
    /\ UNCHANGED <<trackerVars, crossed, treeVars, ops>>

\* start and stop: the post is answered, and the jobs are asked for (refresh, tick).
Posted(s) ==
    /\ calls[s] # Nothing /\ calls[s].at = "posted"
    /\ calls' = [calls EXCEPT ![s] = IF @.kind = "start" THEN [@ EXCEPT !.at = "asked"]
                                     ELSE [TickCall EXCEPT !.kind = "stop"]]
    /\ UNCHANGED <<serverVars, trackerVars, crossed, treeVars, ops>>

\* start and stop: the answer to the post is lost, and nothing is asked for.
PostLost(s) ==
    /\ Act
    /\ calls[s] # Nothing /\ calls[s].at = "posted"
    /\ calls' = [calls EXCEPT ![s] = Nothing]
    /\ UNCHANGED <<serverVars, trackerVars, crossed, treeVars>>

Read(s) ==
    /\ calls[s] # Nothing /\ calls[s].at = "asked"
    /\ calls' = [calls EXCEPT ![s].at = "read", ![s].answer = Answer]
    /\ UNCHANGED <<serverVars, trackerVars, crossed, treeVars, ops>>

\* Mutant: a tick never finds a change.
RedrawsNever(c, shape) == c.kind = "start"

\* tick, start, mount: whether the page is told to draw the tree anew (onChange).
Redraws(c, shape) ==
    CASE c.kind \in {"tick", "stop"} -> shape # c.before
      [] c.kind = "start" -> TRUE
      [] c.kind = "mount" -> shape # Plain

\* The picture changes to k while c's answer is on its way.
Overtaken(c, k) ==
    IF c # Nothing /\ c.at \in {"asked", "read"} /\ k # known
    THEN [c EXCEPT !.late = TRUE] ELSE c

\* refresh, and what its caller does then; a lost answer keeps the last picture.
After(s, k) ==
    /\ known' = k /\ timer' = Schedule(k)
    /\ calls' = [r \in Slots |-> IF r = s THEN Nothing ELSE Overtaken(calls[r], k)]
    /\ crossed' = (crossed \/ (calls[s].late /\ k # known))
    /\ IF Redraws(calls[s], Shape(k, seen)) THEN StartRefresh ELSE UNCHANGED treeVars
    /\ UNCHANGED <<serverVars, seen>>

Arrive(s) ==
    /\ calls[s] # Nothing /\ calls[s].at = "read"
    /\ After(s, calls[s].answer)
    /\ UNCHANGED ops

Lost(s) ==
    /\ Act
    /\ calls[s] # Nothing /\ calls[s].at \in {"asked", "read"}
    /\ After(s, known)

-----------------------------------------------------------------------------
(* The server and other pages                                              *)

\* A move is started in another tab.
OtherStarts(j) ==
    /\ Act
    /\ MayOpen(j) /\ Server!Open(j)
    /\ UNCHANGED <<ended, here, trackerVars, calls, crossed, treeVars>>

JobEnds(j, how) ==
    /\ End(j, how)
    /\ UNCHANGED <<trackerVars, calls, crossed, treeVars, ops>>

-----------------------------------------------------------------------------
Next ==
    \/ ReadListing \/ ReadOlder \/ DrawListing \/ DropOlder \/ ListingFails \/ Relist
    \/ TimerFires
    \/ \E j \in Jobs : Start(j) \/ Stop(j) \/ Dismiss(j) \/ OtherStarts(j)
    \/ \E s \in Slots : Serve(s) \/ Posted(s) \/ PostLost(s) \/ Read(s)
                       \/ Arrive(s) \/ Lost(s)
    \/ \E j \in Jobs, how \in Ends : JobEnds(j, how)

Spec == Init /\ [][Next]_vars

\* The timer runs out, the server answers, and every job ends (StoreMoves: JobsEnd).
Fairness ==
    /\ WF_vars(ReadListing) /\ WF_vars(DrawListing) /\ WF_vars(DropOlder)
    /\ WF_vars(TimerFires)
    /\ \A s \in Slots :
         WF_vars(Serve(s)) /\ WF_vars(Posted(s)) /\ WF_vars(Read(s)) /\ WF_vars(Arrive(s))
    /\ \A j \in Jobs : WF_vars(\E how \in Ends : JobEnds(j, how))

FairSpec == Spec /\ Fairness

-----------------------------------------------------------------------------
(* Properties                                                              *)

\* A file that left the disk never comes back to the tree: of two listings on their
\* way the older never paints over the newer (refresh: mine, refreshes).
NoOlderTree ==
    [][tree.at = "drawn" /\ tree'.at = "drawn" => tree'.here \subseteq tree.here]_vars

\* The page knows that j is on its way.
Known(j) == known # Nothing /\ known[j] = "open"

\* A move the page has shown as running is shown as ended, lost polls included, and
\* the tree comes to say so: no bar is left of it, and a file it carried away is not
\* listed (refresh, schedule, tick); or the page says that the disk could not be listed.
\* Only an answer that crossed a later one can stop the page short of it.
TreeFollows ==
    \A j \in Jobs : Known(j) ~>
        \/ crossed \/ tree.at = "error"
        \/ /\ tree.at = "drawn" /\ known # Nothing /\ known[j] \in Ends
           /\ tree.row = Shape(known, seen)
           /\ known[j] = "moved" => FileOf[j] \notin tree.here
=============================================================================
