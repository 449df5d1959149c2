----------------------------- MODULE StoreMoves -----------------------------
(***************************************************************************)
(* Moving models between stores (caravan/admin/store_moves.py).  A job     *)
(* carries items, each a set of files or a folder that moves whole.  Every *)
(* file is copied under a temporary name, proven against the original,     *)
(* renamed, and only when the whole item is proven is the original         *)
(* removed.  The job is written to disk at every step; the process may die *)
(* between any two steps and a new one resumes from what was written.      *)
(*                                                                         *)
(* A file's content is its version: as planned, or edited since.  A        *)
(* library may lose what it acknowledged and has not yet written (fresh);  *)
(* waiting SETTLE_S is what makes it written, so the wait is modelled by   *)
(* what it waits for.                                                      *)
(***************************************************************************)
EXTENDS Naturals, FiniteSets

CONSTANTS
    Jobs,           \* the moves that may be asked for
    Items,          \* what they carry, in the order of a job's list
    Files,          \* the files, by their path under either root, in its order
    JobItems,       \* [Jobs -> SUBSET Items]
    ItemFiles,      \* [Items -> SUBSET Files]
    Folders,        \* the items that are folders
    Late,           \* entries that may appear in a folder
    Odd,            \* those of them that are no files: a socket, a link
    ToLibrary,      \* whether the target is a library
    Taken,          \* files whose name something else may have at the target
    MaxFaults,      \* bound: crashes, edits, errors, lost writes in all
    NoJob

ASSUME MovesAssumption ==
    /\ Items \in SUBSET Nat /\ Files \in SUBSET Nat
    /\ JobItems \in [Jobs -> SUBSET Items]
    /\ ItemFiles \in [Items -> SUBSET Files]
    /\ Folders \subseteq Items /\ Taken \subseteq Files
    /\ Odd \subseteq Late /\ Late \subseteq Files
    /\ \A i \in Items : ItemFiles[i] \cap Late # {} => i \in Folders
    /\ ToLibrary \in BOOLEAN
    /\ MaxFaults \in Nat
    /\ NoJob \notin Jobs

VARIABLES
    src,        \* file -> its version at the source, or "gone"
    part,       \* file -> what stands under the temporary name at the target
    dst,        \* file -> what stands under its own name at the target
    fresh,      \* files the library acknowledged and has not written yet
    saved,      \* job -> its record on disk, or NoJob
    mem,        \* job -> its record in this process, or NoJob
    worker,     \* the worker thread: where it is, on which job, item and file
    calls,      \* job -> how far the request that starts it is
    up,         \* whether the controller runs
    removed,    \* file -> its version when the mover removed it, or "none"
    touched,    \* files that changed or appeared after the last look at their item
    started,    \* jobs whose waiting cell was started
    pruned,     \* jobs that are no longer listed, their records deleted
    faults

disk == <<src, part, dst, fresh>>
kept == <<calls, up, touched, started, pruned>>
rest == <<kept, faults>>
vars == <<disk, saved, mem, worker, removed, rest>>

Versions == {"planned", "edited"}

FinalItem == {"done", "skipped", "cancelled"}

FinalJob == {"done", "cancelled", "failed"}

\* MoveJob: its status, whether it is to stop, each item's state and the files the
\* item was found to hold, and of the files: proven, copied by this job (copiedAt),
\* and those whose proof failed once.
Record(j) ==
    [status : {"queued", "running", "waiting"} \cup FinalJob, cancel : BOOLEAN,
     item : [JobItems[j] -> {"pending", "removing"} \cup FinalItem],
     files : [JobItems[j] -> SUBSET Files], scanned : SUBSET Items,
     proven : SUBSET Files, copied : SUBSET Files, missed : SUBSET Files]

ASSUME RecordAssumption == \A j \in Jobs : NoJob \notin Record(j)

NoThread == [at |-> "none", job |-> NoJob, item |-> NoJob, file |-> NoJob]

Steps == {"none", "pick", "begin", "next", "scan", "bring", "copy", "check", "prove",
          "place", "mark", "settle", "keep", "remove", "wait", "cancel", "promise", "prune",
          "dead"}

TypeOK ==
    /\ src \in [Files -> Versions \cup {"gone"}]
    /\ part \in [Files -> Versions \cup {"none", "some", "bad"}]
    /\ dst \in [Files -> Versions \cup {"none", "other"}]
    /\ fresh \subseteq Files /\ touched \subseteq Files
    /\ removed \in [Files -> Versions \cup {"none"}]
    /\ \A j \in Jobs : saved[j] \in Record(j) \cup {NoJob} /\ mem[j] \in Record(j) \cup {NoJob}
    /\ worker \in [at : Steps, job : Jobs \cup {NoJob}, item : Items \cup {NoJob},
                   file : Files \cup {NoJob}]
    /\ calls \in [Jobs -> {"none", "planned", "entered", "answered", "refused"}]
    /\ up \in BOOLEAN /\ started \subseteq Jobs /\ pruned \subseteq Jobs /\ faults \in 0..MaxFaults

Init ==
    /\ src = [f \in Files |-> IF f \in Late THEN "gone" ELSE "planned"]
    /\ part = [f \in Files |-> "none"]
    /\ dst \in [Files -> {"none", "other"}]
    /\ \A f \in Files \ Taken : dst[f] = "none"
    /\ fresh = {}
    /\ saved = [j \in Jobs |-> NoJob] /\ mem = [j \in Jobs |-> NoJob]
    /\ worker = NoThread
    /\ calls = [j \in Jobs |-> "none"]
    /\ up = TRUE
    /\ removed = [f \in Files |-> "none"] /\ touched = {}
    /\ started = {} /\ pruned = {}
    /\ faults = 0

Fault == faults < MaxFaults /\ faults' = faults + 1

\* The first of a list's elements that are left.
First(S) == CHOOSE e \in S : \A g \in S : e <= g

-----------------------------------------------------------------------------
(* Records                                                                 *)

Finished(r) == r.status \in FinalJob

\* MoveRunner._write: the manifest replaces the one before it in one rename.
Write(j, r) == mem' = [mem EXCEPT ![j] = r] /\ saved' = [saved EXCEPT ![j] = r]

\* The job, the item and the file the worker is on.
J == worker.job
R == mem[J]
I == worker.item
F == worker.file

At(step) == up /\ worker.at = step
Go(step) == worker' = [worker EXCEPT !.at = step]

\* Mover._close: temporary names of unproven files are cleared away, the end is saved.
Close(i, state) ==
    /\ part' = [f \in Files |-> IF f \in R.files[i] \ R.proven THEN "none" ELSE part[f]]
    /\ Write(J, [R EXCEPT !.item[i] = state])

Skip ==
    /\ Close(I, "skipped")
    /\ Go("next")
    /\ UNCHANGED <<src, dst, fresh, removed>>

\* Mover._check_cancel
Cancelled == R.cancel

ToCancel ==
    /\ Cancelled
    /\ Go("cancel")
    /\ UNCHANGED <<disk, mem, saved, removed>>

-----------------------------------------------------------------------------
(* Requests (MoveRunner.start, cancel)                                     *)

Held == {f \in Files : \E j \in Jobs : mem[j] # NoJob /\ ~Finished(mem[j])
                                       /\ \E i \in JobItems[j] : f \in ItemFiles[i]}

\* start: what other jobs hold is read under the lock, the plan is made outside it.
Plan(j) ==
    /\ up /\ calls[j] = "none"
    /\ LET there(i) == {f \in ItemFiles[i] : src[f] # "gone"}
       IN  calls' = [calls EXCEPT ![j] =
                        IF \A i \in JobItems[j] :
                              /\ ItemFiles[i] \cap Held = {}
                              /\ IF i \in Folders THEN there(i) # {} ELSE there(i) = ItemFiles[i]
                        THEN "planned" ELSE "refused"]
    /\ UNCHANGED <<disk, saved, mem, worker, removed, up, touched, started, pruned, faults>>

NewRecord(j) ==
    [status |-> "queued", cancel |-> FALSE,
     item |-> [i \in JobItems[j] |-> "pending"],
     files |-> [i \in JobItems[j] |-> IF i \in Folders THEN {} ELSE ItemFiles[i]],
     scanned |-> {}, proven |-> {}, copied |-> {}, missed |-> {}]

\* start: the job is entered and written.
Enter(j) ==
    /\ up /\ calls[j] = "planned"
    /\ calls' = [calls EXCEPT ![j] = "entered"]
    /\ Write(j, NewRecord(j))
    /\ UNCHANGED <<disk, worker, removed, up, touched, started, pruned, faults>>

\* _ensure_worker
EnsureWorker(j) ==
    /\ up /\ calls[j] = "entered"
    /\ calls' = [calls EXCEPT ![j] = "answered"]
    /\ worker' = IF worker.at \in {"none", "dead"}
                 THEN [NoThread EXCEPT !.at = "pick"] ELSE worker
    /\ UNCHANGED <<disk, saved, mem, removed, up, touched, started, pruned, faults>>

\* cancel: a job still in line ends at once; one the worker holds is told.  Told again
\* after a restart put it back in line, it ends.
Cancel(j) ==
    /\ up /\ mem[j] # NoJob /\ ~Finished(mem[j])
    /\ LET told == [mem[j] EXCEPT !.cancel = TRUE]
           ended == [told EXCEPT !.status = "cancelled",
                       !.item = [i \in JobItems[j] |->
                                   IF told.item[i] \in FinalItem THEN told.item[i] ELSE "cancelled"]]
       IN  Write(j, IF mem[j].status = "queued" /\ worker.job # j THEN ended ELSE told)
    /\ UNCHANGED <<disk, worker, removed, rest>>

-----------------------------------------------------------------------------
(* The worker (MoveRunner._work, Mover.run, Mover._item)                   *)

OpenJobs == {j \in Jobs : mem[j] # NoJob /\ ~Finished(mem[j])}

\* _work: the next open job under the lock, or the thread ends.
Pick ==
    /\ At("pick")
    /\ \/ /\ OpenJobs = {}
          /\ worker' = NoThread
       \/ \E j \in OpenJobs : worker' = [NoThread EXCEPT !.at = "begin", !.job = j]
    /\ UNCHANGED <<disk, saved, mem, removed, rest>>

\* run: a job told to stop before its turn ends at once.
Begin ==
    /\ At("begin")
    /\ \/ ToCancel
       \/ /\ ~Cancelled
          /\ Write(J, [R EXCEPT !.status = "running"])
          /\ Go("next")
          /\ UNCHANGED <<disk, removed>>
    /\ UNCHANGED rest

\* A folder is read before its files are brought.
Entry(i) == IF i \in Folders \ R.scanned THEN "scan" ELSE "bring"

OpenItems == {i \in JobItems[J] : R.item[i] \notin FinalItem}

\* run, _finish: the next item not at its end, or the job is done.
NextItem ==
    /\ At("next")
    /\ \/ /\ OpenItems = {}
          /\ Write(J, [R EXCEPT !.status = "done"])
          /\ Go("promise")
       \/ /\ OpenItems # {}
          /\ LET i == First(OpenItems)
             IN  worker' = [worker EXCEPT !.item = i, !.file = NoJob, !.at = Entry(i)]
          /\ UNCHANGED <<mem, saved>>
    /\ UNCHANGED <<disk, removed, rest>>

\* What stands in a folder.
There(i) == {f \in ItemFiles[i] : src[f] # "gone"}

\* _scan: the folder is read once; what cannot be carried leaves it where it is.
Scan ==
    /\ At("scan")
    /\ \/ /\ There(I) \cap Odd = {}
          /\ Write(J, [R EXCEPT !.files[I] = There(I), !.scanned = @ \cup {I}])
          /\ Go("bring")
          /\ UNCHANGED <<disk, removed>>
       \/ Skip
    /\ UNCHANGED rest

Unproven == R.files[I] \ R.proven

\* _item, _bring: each file not yet proven; a file that went or changed keeps both
\* copies, one that stands at the target already is proven or refused.
Bring ==
    /\ At("bring")
    /\ \/ /\ Unproven = {}
          /\ Go("settle")
          /\ UNCHANGED <<disk, mem, saved, removed>>
       \/ Unproven # {} /\ ToCancel
       \/ /\ Unproven # {} /\ ~Cancelled
          /\ LET f == First(Unproven)
             IN  \/ src[f] # "planned" /\ Skip
                 \/ /\ src[f] = "planned"
                    /\ worker' = [worker EXCEPT !.file = f,
                                    !.at = IF dst[f] # "none" THEN "check" ELSE "copy"]
                    /\ UNCHANGED <<disk, mem, saved, removed>>
    /\ UNCHANGED rest

\* _copy: blocks go out; a checkpoint leaves a part a later run goes on from.
CopySome ==
    /\ At("copy") /\ part[F] = "none" /\ src[F] # "gone"
    /\ part' = [part EXCEPT ![F] = "some"]
    /\ UNCHANGED <<src, dst, fresh, saved, mem, worker, removed, rest>>

\* _copy: the last byte is out, and the time of it is in the record.
CopyAll ==
    /\ At("copy")
    /\ \/ ToCancel
       \/ /\ ~Cancelled /\ src[F] # "gone"
          /\ part' = [part EXCEPT ![F] = src[F]]
          /\ fresh' = IF ToLibrary THEN fresh \cup {F} ELSE fresh
          /\ mem' = [mem EXCEPT ![J].copied = @ \cup {F}]
          /\ Go("check")
          /\ UNCHANGED <<src, dst, saved, removed>>
    /\ UNCHANGED rest

\* _prove: the record is saved, then both sides are read.
Check ==
    /\ At("check")
    /\ Write(J, R)
    /\ Go("prove")
    /\ UNCHANGED <<disk, removed, rest>>

\* What the proof reads at the target.
Copied == IF dst[F] # "none" THEN dst[F] ELSE part[F]

\* _bring after _prove: the copy equals the original, or it is discarded and tried
\* once more; a file found at the target is proven or its name is taken.
Prove ==
    /\ At("prove")
    /\ src[F] # "gone" /\ Copied # "none"
    /\ \/ ToCancel
       \/ /\ ~Cancelled /\ dst[F] # "none"
          /\ IF dst[F] = src[F]
             THEN Go("mark") /\ UNCHANGED <<disk, mem, saved, removed>>
             ELSE Skip
       \/ /\ ~Cancelled /\ dst[F] = "none" /\ part[F] = src[F]
          /\ Go("place")
          /\ UNCHANGED <<disk, mem, saved, removed>>
       \/ /\ ~Cancelled /\ dst[F] = "none" /\ part[F] # src[F]
          /\ IF F \in R.missed
             THEN Skip
             ELSE /\ part' = [part EXCEPT ![F] = "none"]
                  /\ mem' = [mem EXCEPT ![J].missed = @ \cup {F}]
                  /\ Go("bring")
                  /\ UNCHANGED <<src, dst, fresh, saved, removed>>
    /\ UNCHANGED rest

\* _bring: the proven copy takes the file's own name.
Place ==
    /\ At("place") /\ Copied # "none"
    /\ dst' = [dst EXCEPT ![F] = part[F]]
    /\ part' = [part EXCEPT ![F] = "none"]
    /\ Go("mark")
    /\ UNCHANGED <<src, fresh, saved, mem, removed, rest>>

\* _proven
Mark ==
    /\ At("mark")
    /\ Write(J, [R EXCEPT !.proven = @ \cup {F}])
    /\ Go("bring")
    /\ UNCHANGED <<disk, removed, rest>>

\* _plant, _settle: SETTLE_S after this job's last byte into a library; a file it
\* found there has no such time, and nothing waits for it.
Settle ==
    /\ At("settle")
    /\ \/ ToLibrary /\ ToCancel
       \/ /\ ToLibrary => ~Cancelled /\ R.copied \cap R.files[I] \cap fresh = {}
          /\ Go("keep")
          /\ UNCHANGED <<disk, mem, saved, removed>>
    /\ UNCHANGED rest

\* Mutant: a folder is not read again before it is removed.
WhyKeepBlind(i) == \E f \in R.files[i] : src[f] = "edited" \/ dst[f] = "none"

\* _why_keep: a folder that holds other files than were proven (it looks at files
\* only), an original that changed, a copy that is not there.
WhyKeep(i) ==
    \/ i \in Folders /\ There(i) \ Odd # R.files[i]
    \/ \E f \in R.files[i] : src[f] = "edited" \/ dst[f] = "none"

\* _item: the last look, and the record says "removing" before anything is removed.
\* A cell that reads one of the files keeps the item where it is.
Keep ==
    /\ At("keep")
    /\ \/ Skip
       \/ /\ ~WhyKeep(I)
          /\ Write(J, [R EXCEPT !.item[I] = "removing"])
          /\ Go("remove")
          /\ UNCHANGED <<disk, removed>>
    /\ UNCHANGED rest

\* What the removal still has to take: of a folder everything that is in it by now
\* (rmtree), in any order; else the next of the files that were planned (unlink).
Standing == IF I \in Folders THEN There(I) ELSE {f \in R.files[I] : src[f] # "gone"}

Doomed == IF I \in Folders \/ Standing = {} THEN Standing ELSE {First(Standing)}

\* _item: the originals go one by one; when none is left the item is done.
Remove ==
    /\ At("remove")
    /\ \/ \E f \in Doomed :
          /\ src' = [src EXCEPT ![f] = "gone"]
          /\ removed' = [removed EXCEPT ![f] = src[f]]
          /\ UNCHANGED <<part, dst, fresh, saved, mem, worker>>
       \/ /\ Standing = {}
          /\ Close(I, "done")
          /\ Go("next")
          /\ UNCHANGED <<src, dst, fresh, removed>>
    /\ UNCHANGED rest

\* run: a job told to stop closes its items one by one and ends.
CancelItem ==
    /\ At("cancel")
    /\ \/ OpenItems # {} /\ Close(First(OpenItems), "cancelled") /\ UNCHANGED worker
       \/ /\ OpenItems = {}
          /\ Write(J, [R EXCEPT !.status = "cancelled"])
          /\ Go("promise")
          /\ UNCHANGED part
    /\ UNCHANGED <<src, dst, fresh, removed, rest>>

\* Mutant: a job that ended is taken for a job that carried everything home.
PromiseAnyEnd ==
    /\ At("promise")
    /\ started' = started \cup {J}
    /\ worker' = [NoThread EXCEPT !.at = "prune"]
    /\ UNCHANGED <<disk, saved, mem, removed, calls, up, touched, pruned, faults>>

\* _keep_promise: only a job that carried everything home starts the cell.
Promise ==
    /\ At("promise")
    /\ started' = IF R.status = "done" /\ \A i \in JobItems[J] : R.item[i] = "done"
                  THEN started \cup {J} ELSE started
    /\ worker' = [NoThread EXCEPT !.at = "prune"]
    /\ UNCHANGED <<disk, saved, mem, removed, calls, up, touched, pruned, faults>>

\* _prune: ended jobs beyond the KEEP_FINISHED newest are forgotten and their records
\* deleted; the jobs that count may be others than these, so any ended one may go.
Prune ==
    /\ At("prune")
    /\ \/ /\ worker' = [NoThread EXCEPT !.at = "pick"]
          /\ UNCHANGED <<mem, saved, pruned>>
       \/ \E j \in Jobs :
             /\ mem[j] # NoJob /\ Finished(mem[j])
             /\ mem' = [mem EXCEPT ![j] = NoJob]
             /\ saved' = [saved EXCEPT ![j] = NoJob]
             /\ pruned' = pruned \cup {j}
             /\ UNCHANGED worker
    /\ UNCHANGED <<disk, removed, calls, up, touched, started, faults>>

-----------------------------------------------------------------------------
(* Faults                                                                  *)

\* _trouble: an operation failed, a save of the record included; the item ends after
\* enough of them, else the worker waits for the library.  Only what is planted for a
\* folder is tried again in the step that settles.
Trouble ==
    /\ Fault
    /\ up /\ worker.at \in {"scan", "bring", "copy", "check", "prove", "place", "mark",
                             "settle", "keep"}
    /\ worker.at = "settle" => I \in Folders
    /\ \/ Skip
       \/ /\ Write(J, [R EXCEPT !.status = "waiting"])
          /\ Go("wait")
          /\ UNCHANGED <<disk, removed>>
    /\ UNCHANGED kept

\* The original or the copy went while it was read or renamed: the operation fails,
\* and the file is looked at again (_trouble, then _bring from its start).
FileGone ==
    /\ up
    /\ \/ worker.at \in {"copy", "prove"} /\ src[F] = "gone"
       \/ worker.at \in {"prove", "place"} /\ Copied = "none"
    /\ Go("bring")
    /\ UNCHANGED <<disk, saved, mem, removed, rest>>

\* _wait: the library answers again.
Wait ==
    /\ At("wait")
    /\ \/ ToCancel
       \/ /\ ~Cancelled
          /\ Write(J, [R EXCEPT !.status = "running"])
          /\ Go(Entry(I))
          /\ UNCHANGED <<disk, removed>>
    /\ UNCHANGED rest

\* Where an error ends the job.
Carrying == Steps \ {"none", "pick", "promise", "prune", "dead"}

\* _work: anything else that is raised, a failing save too, ends the job, and the
\* worker goes on.
Breaks ==
    /\ Fault
    /\ up /\ worker.at \in Carrying
    /\ Write(J, [R EXCEPT !.status = "failed"])
    /\ Go("promise")
    /\ UNCHANGED <<disk, removed, kept>>

\* _work: the save of that end fails as well (or of a start that failed): the thread
\* dies, the record on disk stays as it was.
WorkerDies ==
    /\ Fault
    /\ up
    /\ \/ worker.at \in Carrying /\ mem' = [mem EXCEPT ![J].status = "failed"]
       \/ worker.at = "promise" /\ UNCHANGED mem
    /\ worker' = [NoThread EXCEPT !.at = "dead"]
    /\ UNCHANGED <<disk, saved, removed, kept>>

\* Mutant: an original that could not be removed is passed over.
UnlinkFailsDone ==
    /\ Fault
    /\ At("remove")
    /\ Close(I, "done")
    /\ Go("next")
    /\ UNCHANGED <<src, dst, fresh, removed, kept>>

\* An unlink fails: the item ends where it is.
UnlinkFails ==
    /\ Fault
    /\ At("remove")
    /\ Skip
    /\ UNCHANGED kept

\* The files a record on disk lists.
Listed == {f \in Files : \E j \in Jobs : saved[j] # NoJob
                                         /\ \E i \in JobItems[j] : f \in saved[j].files[i]}

\* The stamp of a file was taken: by the plan, in a folder by the scan.
Stamped(f) ==
    \/ f \in Listed \ Odd
    \/ \E j \in Jobs : calls[j] # "none" /\ \E i \in JobItems[j] \ Folders : f \in ItemFiles[i]

\* A change the mover's last look at an item cannot have seen.
Unseen(f) == At("remove") /\ f \in ItemFiles[I]

\* Somebody edits an original after its stamp was taken, deletes one, or puts an entry
\* into a folder.
Meddle(f) ==
    /\ Fault
    /\ \E j \in Jobs : calls[j] # "none"
    /\ \/ src[f] = "planned" /\ Stamped(f) /\ src' = [src EXCEPT ![f] = "edited"]
       \/ src[f] = "planned" /\ src' = [src EXCEPT ![f] = "gone"]
       \/ /\ f \in Late \ Listed /\ src[f] = "gone" /\ removed[f] = "none"
          /\ src' = [src EXCEPT ![f] = "planned"]
    /\ touched' = IF Unseen(f) THEN touched \cup {f} ELSE touched
    /\ UNCHANGED <<part, dst, fresh, saved, mem, worker, removed, calls, up, started, pruned>>

\* A block is written wrong.
BadBlock ==
    /\ Fault
    /\ At("check") /\ part[F] \in Versions
    /\ part' = [part EXCEPT ![F] = "bad"]
    /\ UNCHANGED <<src, dst, fresh, saved, mem, worker, removed, kept>>

\* The library writes what it acknowledged, or restarts and has lost it.
LibraryWrites(f) ==
    /\ f \in fresh
    /\ fresh' = fresh \ {f}
    /\ UNCHANGED <<src, part, dst, saved, mem, worker, removed, rest>>

LibraryRestarts ==
    /\ Fault
    /\ fresh # {}
    /\ part' = [f \in Files |-> IF f \in fresh THEN "none" ELSE part[f]]
    /\ dst' = [f \in Files |-> IF f \in fresh THEN "none" ELSE dst[f]]
    /\ fresh' = {}
    /\ UNCHANGED <<src, saved, mem, worker, removed, kept>>

\* The controller dies; what it had not written is forgotten.
Crash ==
    /\ Fault
    /\ up /\ up' = FALSE
    /\ mem' = [j \in Jobs |-> NoJob]
    /\ worker' = NoThread
    /\ calls' = [j \in Jobs |-> IF calls[j] = "none" THEN "none" ELSE "answered"]
    /\ UNCHANGED <<disk, saved, removed, touched, started, pruned>>

\* What a resume reads of a record: an unfinished job is in line again.
InLine(r, status) ==
    IF r # NoJob /\ ~Finished(r) THEN [r EXCEPT !.status = status] ELSE r

\* resume: the records that are read, less those _prune drops; a worker when one waits.
Reload(status, Lost, at) ==
    /\ ~up /\ up' = TRUE
    /\ mem' = [j \in Jobs |-> IF j \in Lost THEN NoJob ELSE InLine(saved[j], status)]
    /\ saved' = [j \in Jobs |-> IF j \in Lost THEN NoJob ELSE saved[j]]
    /\ pruned' = pruned \cup Lost
    /\ worker' = [NoThread EXCEPT !.at = at]
    /\ UNCHANGED <<disk, removed, calls, touched, started, faults>>

Ends == {j \in Jobs : saved[j] # NoJob /\ Finished(saved[j])}

\* Mutant: the jobs are in line again, and nobody carries them.
ResumeNoWorker == Reload("queued", {}, "none")

\* Mutant: what had ended is put in line again with the rest.
ResumeAll ==
    /\ ~up /\ up' = TRUE
    /\ mem' = [j \in Jobs |-> IF saved[j] = NoJob THEN NoJob
                               ELSE [saved[j] EXCEPT !.status = "queued"]]
    /\ worker' = [NoThread EXCEPT !.at = "pick"]
    /\ UNCHANGED <<disk, saved, removed, calls, touched, started, pruned, faults>>

\* Mutant: an interrupted job gets a state of its own that nothing knows.
ResumeUnknown == Reload("interrupted", {}, "pick")

\* resume: unfinished jobs are in line again, as they were written; ended ones beyond
\* the KEEP_FINISHED newest are dropped (_prune).
Resume ==
    \E Lost \in SUBSET Ends :
        Reload("queued", Lost,
               IF \E j \in Jobs : saved[j] # NoJob /\ ~Finished(saved[j]) THEN "pick" ELSE "none")

-----------------------------------------------------------------------------
Work ==
    \/ Pick \/ Begin \/ NextItem \/ Scan \/ Bring \/ CopySome \/ CopyAll \/ Check \/ Prove
    \/ Place \/ Mark \/ Settle \/ Keep \/ Remove \/ CancelItem \/ Promise \/ Prune
    \/ Wait \/ FileGone

Next ==
    \/ \E j \in Jobs : Plan(j) \/ Enter(j) \/ EnsureWorker(j) \/ Cancel(j)
    \/ Work
    \/ Trouble \/ Breaks \/ WorkerDies \/ UnlinkFails \/ BadBlock \/ LibraryRestarts
    \/ Crash \/ Resume
    \/ \E f \in Files : Meddle(f) \/ LibraryWrites(f)

Spec == Init /\ [][Next]_vars

\* The worker runs, a request that was taken is carried to its end, the library
\* writes in time, and a dead controller is started again (systemd).
Fairness ==
    /\ WF_vars(Work) /\ WF_vars(Resume)
    /\ \A j \in Jobs : WF_vars(Enter(j)) /\ WF_vars(EnsureWorker(j))
    /\ \A f \in Files : WF_vars(LibraryWrites(f))

FairSpec == Spec /\ Fairness

-----------------------------------------------------------------------------
(* Properties                                                              *)

\* What the mover removed stands at the other end as it was when it was removed:
\* through crashes between any two steps, edits, entries that appear in a folder, lost
\* writes and retries, no model is lost.  The rule reaches as far as the mover's last
\* look: not to what changes after it, nor to what is no file.
NoFileLost ==
    \A f \in Files \ (touched \cup Odd) : removed[f] # "none" => dst[f] = removed[f]

\* An item called done is moved: every file it was found to hold is gone here and
\* whole there, in the record on disk too.
DoneIsMoved ==
    \A j \in Jobs : saved[j] # NoJob =>
        \A i \in JobItems[j] : saved[j].item[i] = "done" =>
            \A f \in saved[j].files[i] : src[f] = "gone" /\ dst[f] = "planned"

\* A cell is started for a move only when everything it carried is home.
PromiseSafe ==
    \A j \in started \ pruned : \A i \in JobItems[j] :
        /\ saved[j].item[i] = "done"
        /\ \A f \in saved[j].files[i] : dst[f] = "planned"

\* The jobs on disk as the page is told of them.
Durable == [j \in Jobs |-> IF j \in pruned THEN "closed"
                           ELSE IF saved[j] = NoJob THEN "none"
                           ELSE IF Finished(saved[j]) THEN "closed" ELSE "open"]

\* Every job that was entered comes to its end, restarts, outages and errors included,
\* unless its worker dies of a record that cannot be written.
JobsEnd ==
    \A j \in Jobs : (Durable[j] = "open") ~> (Durable[j] = "closed" \/ worker.at = "dead")

Abstract == INSTANCE MoveJobs WITH jobs <- Durable

\* The mover with its crashes implements MoveJobs: a job is opened once and closed
\* once, and an ended job never runs again.
ImplementsJobs == Abstract!Spec
=============================================================================
