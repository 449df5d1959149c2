-------------------------- MODULE StoreMovesProofs --------------------------
(***************************************************************************)
(* Machine-checked proofs about StoreMoves, for any number of jobs, items  *)
(* and files, and any number of crashes, edits and errors.                 *)
(***************************************************************************)
EXTENDS StoreMoves, WellFoundedInduction, TLAPS

-----------------------------------------------------------------------------
(* The inductive invariant of the records and of the worker.               *)

\* Both tables have a place for every job.
Tables ==
    /\ mem = [j \in Jobs |-> mem[j]] /\ saved = [j \in Jobs |-> saved[j]]
    /\ \A j \in Jobs : mem[j] \in Record(j) \cup {NoJob} /\ saved[j] \in Record(j) \cup {NoJob}

\* The record in the process and the one on disk: they differ in what a crash may
\* forget.
Agree(m, s) ==
    /\ m.item = s.item /\ m.files = s.files /\ m.proven = s.proven
    /\ s.copied \subseteq m.copied
    /\ Finished(s) => Finished(m)

\* A job is on disk once its request has entered it, and before it is in the process,
\* until it is pruned.
Books ==
    /\ \A j \in Jobs : mem[j] # NoJob => saved[j] # NoJob /\ Agree(mem[j], saved[j])
    /\ \A j \in Jobs : saved[j] # NoJob => calls[j] \in {"entered", "answered"}
    /\ \A j \in Jobs : j \in pruned =>
           mem[j] = NoJob /\ saved[j] = NoJob /\ calls[j] \in {"entered", "answered"}

ItemSteps == {"scan", "bring", "copy", "check", "prove", "place", "mark", "settle", "keep",
              "remove", "wait"}
FileSteps == {"copy", "check", "prove", "place", "mark"}
JobSteps == ItemSteps \cup {"begin", "next", "cancel"}

\* The worker holds an open job, an open item of it and a file of that.
Holds ==
    /\ worker.at \in JobSteps => up /\ J \in Jobs /\ R # NoJob /\ ~Finished(R)
    /\ worker.at = "promise" => up /\ J \in Jobs /\ R # NoJob
    /\ worker.at \in ItemSteps => I \in JobItems[J] /\ R.item[I] \notin FinalItem
    /\ worker.at \in FileSteps => F \in R.files[I]

WorkInv == TypeOK /\ Tables /\ Books /\ Holds

\* What is renamed to a free name is a whole file.
Placing == worker.at = "place" => dst[F] = "none" /\ part[F] \in Versions \cup {"none"}

-----------------------------------------------------------------------------
(* The inductive invariant of the files.                                   *)

\* What a job carries.
Wants(j) == UNION {ItemFiles[i] : i \in JobItems[j]}

\* No two jobs carry the same file.
Apart == \A j, k \in Jobs : j # k => Wants(j) \cap Wants(k) = {}

\* Whole at the target, and written there.
Safe(f) == dst[f] = "planned" /\ f \notin fresh

\* What a record says of its files.
RecordTrue(j, r) ==
    /\ \A i \in JobItems[j] : r.files[i] \subseteq ItemFiles[i]
    /\ \A i \in JobItems[j] : r.item[i] = "done" =>
           \A f \in r.files[i] : src[f] = "gone" /\ Safe(f)
    /\ \A f \in r.proven : dst[f] # "other"

\* What the worker's place says of its file and of its item.
PlaceTrue ==
    /\ worker.at = "copy" => dst[F] = "none"
    /\ worker.at = "check" /\ F \in fresh => F \in R.copied
    /\ worker.at \in {"prove", "place"} /\ F \in fresh => F \in saved[J].copied
    /\ worker.at = "place" /\ part[F] = "edited" => src[F] = "edited"
    /\ worker.at = "mark" => dst[F] # "other"
    /\ worker.at \in {"settle", "keep"} => R.files[I] \subseteq R.proven
    /\ worker.at = "keep" => R.copied \cap R.files[I] \cap fresh = {}
    /\ worker.at = "remove" => \A f \in R.files[I] : Safe(f)

RecordsTrue == \A j \in Jobs : saved[j] # NoJob => RecordTrue(j, saved[j])

\* A copy is of an edited file only as long as the original is.
CopiesTrue == \A f \in Files : dst[f] = "edited" => src[f] = "edited"

\* What the mover removed, and had looked at before.
RemovedSafe ==
    \A f \in Files \ (touched \cup Odd) :
        removed[f] # "none" => removed[f] = "planned" /\ Safe(f)

\* What a removal takes, if it is there.
Reach == IF I \in Folders THEN ItemFiles[I] ELSE R.files[I]

\* What stands when a removal comes to it is a proven original as it was planned, or
\* something the last look could not have seen.
RemoveTrue ==
    worker.at = "remove" => \A f \in Reach :
        /\ dst[f] # "edited"
        /\ src[f] # "gone" => f \in touched \cup Odd \/ (f \in R.files[I] /\ src[f] = "planned")

\* What is no file has no stamp to differ from.
OddTrue == \A f \in Odd : src[f] # "edited"

\* A job knows the files of it that the library may still lose: it waits for them.
FreshKnown ==
    \A j \in Jobs : \A f \in Wants(j) :
        f \in fresh /\ dst[f] # "none" =>
            j \in pruned \/ (saved[j] # NoJob /\ f \in saved[j].copied)

NothingLate == ~ToLibrary => fresh = {}

StartedDone ==
    \A j \in started \ pruned :
        saved[j] # NoJob /\ \A i \in JobItems[j] : saved[j].item[i] = "done"

FilesInv ==
    /\ RecordsTrue /\ PlaceTrue /\ CopiesTrue /\ RemovedSafe /\ FreshKnown
    /\ NothingLate /\ StartedDone /\ RemoveTrue /\ OddTrue

-----------------------------------------------------------------------------
(* Records, step by step.                                                  *)

\* The pairs of numbers in order.
Less == {p \in Nat \X Nat : p[1] < p[2]}

\* A list that is not empty has a first element.
LEMMA FirstIn ==
    ASSUME NEW S \in SUBSET Nat, S # {}
    PROVE  First(S) \in S
<1>1. IsWellFoundedOn(Less, Nat)
  BY NatLessThanWellFounded DEF OpToRel, Less
<1>2. PICK x \in S : \A y \in S : ~(<<y, x>> \in Less)
  BY <1>1, WFMin
<1>3. ASSUME NEW y \in S PROVE x <= y
  <2>1. x \in Nat /\ y \in Nat /\ ~(<<y, x>> \in Less)
    BY <1>2
  <2>2. <<y, x>> \in Nat \X Nat /\ <<y, x>>[1] = y /\ <<y, x>>[2] = x
    BY <2>1
  <2>3. ~(y < x)
    BY <2>1, <2>2 DEF Less
  <2>4. QED
    BY <2>1, <2>3
<1>4. QED
  BY <1>3 DEF First

\* The fields of a record that are not its status.
SameWork(r, u) ==
    /\ u.item = r.item /\ u.files = r.files /\ u.proven = r.proven /\ u.copied = r.copied

\* A record with another status.
LEMMA StatusStep ==
    ASSUME NEW j \in Jobs, NEW r \in Record(j),
           NEW st \in {"queued", "running", "waiting"} \cup FinalJob
    PROVE  LET u == [r EXCEPT !.status = st]
           IN  u \in Record(j) /\ u.status = st /\ SameWork(r, u)
BY MovesAssumption DEF Record, SameWork, FinalJob, FinalItem

\* A file is proven.
LEMMA ProvenStep ==
    ASSUME NEW j \in Jobs, NEW r \in Record(j),
           NEW f \in Files
    PROVE  LET u == [r EXCEPT !.proven = @ \cup {f}]
           IN  u \in Record(j) /\ u.status = r.status /\ u.item = r.item /\ u.files = r.files
               /\ u.proven = r.proven \cup {f} /\ u.copied = r.copied
BY MovesAssumption DEF Record, SameWork, FinalJob, FinalItem

\* A file is copied.
LEMMA CopiedStep ==
    ASSUME NEW j \in Jobs, NEW r \in Record(j),
           NEW f \in Files
    PROVE  LET u == [r EXCEPT !.copied = @ \cup {f}]
           IN  u \in Record(j) /\ u.status = r.status /\ u.item = r.item /\ u.files = r.files
               /\ u.proven = r.proven /\ u.copied = r.copied \cup {f}
BY MovesAssumption DEF Record, SameWork, FinalJob, FinalItem

\* A proof failed.
LEMMA MissedStep ==
    ASSUME NEW j \in Jobs, NEW r \in Record(j),
           NEW f \in Files
    PROVE  LET u == [r EXCEPT !.missed = @ \cup {f}]
           IN  u \in Record(j) /\ u.status = r.status /\ SameWork(r, u)
BY MovesAssumption DEF Record, SameWork, FinalJob, FinalItem

\* A job is told to stop.
LEMMA CancelStep ==
    ASSUME NEW j \in Jobs, NEW r \in Record(j)
    PROVE  LET u == [r EXCEPT !.cancel = TRUE]
           IN  u \in Record(j) /\ u.status = r.status /\ SameWork(r, u)
BY MovesAssumption DEF Record, SameWork, FinalJob, FinalItem

\* An item is at another state.
LEMMA ItemStep ==
    ASSUME NEW j \in Jobs, NEW r \in Record(j), NEW i \in JobItems[j],
           NEW st \in {"pending", "removing"} \cup FinalItem
    PROVE  LET u == [r EXCEPT !.item[i] = st]
           IN  u \in Record(j) /\ u.status = r.status /\ u.item[i] = st
               /\ (\A k \in JobItems[j] : k # i => u.item[k] = r.item[k])
               /\ u.files = r.files /\ u.proven = r.proven /\ u.copied = r.copied
BY MovesAssumption DEF Record, SameWork, FinalJob, FinalItem

\* A folder has been read.
Scanned(r, i, S) == [r EXCEPT !.files[i] = S, !.scanned = @ \cup {i}]

LEMMA ScanStep ==
    ASSUME NEW j \in Jobs, NEW r \in Record(j), NEW i \in JobItems[j],
           NEW S \in SUBSET Files
    PROVE  LET u == Scanned(r, i, S)
           IN  u \in Record(j) /\ u.status = r.status /\ u.item = r.item /\ u.files[i] = S
               /\ (\A k \in JobItems[j] : k # i => u.files[k] = r.files[k])
               /\ u.proven = r.proven /\ u.copied = r.copied
BY MovesAssumption DEF Scanned, Record, SameWork, FinalJob, FinalItem

\* A job in line is ended.
Ended(r, t) == [r EXCEPT !.status = "cancelled", !.item = t]

LEMMA EndedStep ==
    ASSUME NEW j \in Jobs, NEW r \in Record(j),
           NEW t \in [JobItems[j] -> {"pending", "removing"} \cup FinalItem]
    PROVE  LET u == Ended(r, t)
           IN  /\ u \in Record(j) /\ u.status = "cancelled" /\ u.item = t /\ u.files = r.files
               /\ u.proven = r.proven /\ u.copied = r.copied
BY DEF Ended, Record, FinalJob

LEMMA NewStep ==
    ASSUME NEW j \in Jobs
    PROVE  /\ NewRecord(j) \in Record(j) /\ NewRecord(j).status = "queued"
           /\ NewRecord(j).item = [i \in JobItems[j] |-> "pending"]
           /\ NewRecord(j).files =
                [i \in JobItems[j] |-> IF i \in Folders THEN {} ELSE ItemFiles[i]]
           /\ NewRecord(j).proven = {} /\ NewRecord(j).copied = {}
<1>1. \A i \in JobItems[j] : (IF i \in Folders THEN {} ELSE ItemFiles[i]) \in SUBSET Files
  BY MovesAssumption
<1>2. QED
  BY <1>1 DEF NewRecord, Record

\* Writing a record.
LEMMA WriteStep ==
    ASSUME Tables, NEW j \in Jobs, NEW r \in Record(j), Write(j, r)
    PROVE  /\ Tables' /\ mem'[j] = r /\ saved'[j] = r /\ r # NoJob
           /\ \A k \in Jobs : k # j => mem'[k] = mem[k] /\ saved'[k] = saved[k]
BY RecordAssumption DEF Tables, Write

LEMMA BooksWrite ==
    ASSUME Tables, Books, NEW j \in Jobs, NEW r \in Record(j), Write(j, r),
           saved[j] # NoJob, UNCHANGED <<calls, pruned>>
    PROVE  Tables' /\ Books'
<1>1. Agree(r, r)
  BY DEF Agree
<1>2. QED
  BY <1>1, WriteStep DEF Books

\* What only the process knows of a record.
LEMMA BooksMem ==
    ASSUME Tables, Books, NEW j \in Jobs, mem[j] # NoJob, NEW r \in Record(j),
           mem' = [mem EXCEPT ![j] = r], saved' = saved, UNCHANGED <<calls, pruned>>,
           r.status = mem[j].status \/ Finished(r), r.item = mem[j].item, r.files = mem[j].files,
           r.proven = mem[j].proven, mem[j].copied \subseteq r.copied
    PROVE  /\ Tables' /\ Books' /\ mem'[j] = r /\ r # NoJob
           /\ \A k \in Jobs : k # j => mem'[k] = mem[k]
<1>1. /\ Tables' /\ mem'[j] = r /\ r # NoJob
      /\ \A k \in Jobs : k # j => mem'[k] = mem[k]
  BY RecordAssumption DEF Tables
<1>2. Agree(r, saved[j])
  BY DEF Books, Agree, Finished
<1>3. QED
  BY <1>1, <1>2 DEF Books

WorkerType == [at : Steps, job : Jobs \cup {NoJob}, item : Items \cup {NoJob},
               file : Files \cup {NoJob}]

LEMMA GoStep ==
    ASSUME worker \in WorkerType, NEW step \in Steps, Go(step)
    PROVE  /\ worker' \in WorkerType /\ worker'.at = step
           /\ worker'.job = worker.job /\ worker'.item = worker.item /\ worker'.file = worker.file
BY DEF Go, WorkerType

\* What TypeOK says of the disks.
DiskOK ==
    /\ src \in [Files -> Versions \cup {"gone"}]
    /\ part \in [Files -> Versions \cup {"none", "some", "bad"}]
    /\ dst \in [Files -> Versions \cup {"none", "other"}]
    /\ fresh \subseteq Files /\ removed \in [Files -> Versions \cup {"none"}]

\* And of the rest.
RestOK ==
    /\ calls \in [Jobs -> {"none", "planned", "entered", "answered", "refused"}]
    /\ up \in BOOLEAN /\ touched \subseteq Files /\ started \subseteq Jobs /\ pruned \subseteq Jobs
    /\ faults \in 0..MaxFaults

LEMMA WorkParts ==
    WorkInv <=> DiskOK /\ Tables /\ worker \in WorkerType /\ RestOK /\ Books /\ Holds
BY DEF WorkInv, TypeOK, DiskOK, RestOK, Tables, WorkerType

LEMMA WorkPrime ==
    ASSUME DiskOK', Tables', worker' \in WorkerType, RestOK', Books', Holds'
    PROVE  WorkInv'
BY DEF WorkInv, TypeOK, DiskOK, RestOK, Tables, WorkerType

\* The worker's item and file have their types.
LEMMA HoldsTypes ==
    ASSUME WorkInv
    PROVE  /\ worker.at \in JobSteps \cup {"promise"} =>
                  J \in Jobs /\ R \in Record(J) /\ saved[J] # NoJob
           /\ worker.at \in ItemSteps =>
                  I \in JobItems[J] /\ I \in Items /\ R.files[I] \subseteq Files
           /\ worker.at \in FileSteps => F \in Files
<1>1. worker.at \in JobSteps \cup {"promise"} => J \in Jobs /\ R \in Record(J) /\ saved[J] # NoJob
  BY DEF WorkInv, Holds, Tables, Books, R
<1>2. worker.at \in ItemSteps =>
          I \in JobItems[J] /\ I \in Items /\ R.files[I] \subseteq Files
  BY <1>1, MovesAssumption DEF WorkInv, Holds, Record, JobSteps
<1>3. worker.at \in FileSteps => F \in Files
  BY <1>2 DEF WorkInv, Holds, ItemSteps, FileSteps
<1>4. QED
  BY <1>1, <1>2, <1>3

-----------------------------------------------------------------------------
(* What the worker's steps do to the records.                              *)

\* The record of the worker's job becomes u, in the process and on disk.
Rewritten(u) ==
    /\ u \in Record(J) /\ u # NoJob /\ mem'[J] = u /\ saved'[J] = u
    /\ \A k \in Jobs : k # J => mem'[k] = mem[k] /\ saved'[k] = saved[k]
    /\ Tables' /\ Books'

LEMMA RewriteStep ==
    ASSUME WorkInv, worker.at \in JobSteps, NEW u \in Record(J), Write(J, u), UNCHANGED <<calls, pruned>>
    PROVE  Rewritten(u)
<1>1. J \in Jobs /\ saved[J] # NoJob /\ Tables /\ Books
  BY HoldsTypes DEF WorkInv
<1>2. QED
  BY <1>1, WriteStep, BooksWrite DEF Rewritten

\* Nothing is written.
LEMMA NoWrite ==
    ASSUME Tables, Books, mem' = mem, saved' = saved, UNCHANGED <<calls, pruned>>
    PROVE  Tables' /\ Books'
BY DEF Tables, Books

\* A job gets another status.
LEMMA StatusWrite ==
    ASSUME WorkInv, worker.at \in JobSteps, UNCHANGED <<calls, pruned>>,
           NEW st \in {"queued", "running", "waiting"} \cup FinalJob,
           Write(J, [R EXCEPT !.status = st])
    PROVE  \E u : Rewritten(u) /\ u.status = st /\ SameWork(R, u)
<1>1. J \in Jobs /\ R \in Record(J)
  BY HoldsTypes
<1> DEFINE u == [R EXCEPT !.status = st]
<1>2. u \in Record(J) /\ u.status = st /\ SameWork(R, u)
  BY <1>1, StatusStep
<1> HIDE DEF u
<1>3. Rewritten(u)
  BY <1>2, RewriteStep DEF u
<1>4. QED
  BY <1>2, <1>3

\* An item comes to its end, or to its removal.
LEMMA ItemWrite ==
    ASSUME WorkInv, worker.at \in JobSteps, UNCHANGED <<calls, pruned>>, NEW i \in JobItems[J],
           NEW st \in {"pending", "removing"} \cup FinalItem,
           Write(J, [R EXCEPT !.item[i] = st])
    PROVE  \E u : /\ Rewritten(u) /\ u.status = R.status /\ u.item[i] = st
                  /\ \A k \in JobItems[J] : k # i => u.item[k] = R.item[k]
                  /\ u.files = R.files /\ u.proven = R.proven /\ u.copied = R.copied
<1>1. J \in Jobs /\ R \in Record(J)
  BY HoldsTypes
<1> DEFINE u == [R EXCEPT !.item[i] = st]
<1>2. /\ u \in Record(J) /\ u.status = R.status /\ u.item[i] = st
      /\ \A k \in JobItems[J] : k # i => u.item[k] = R.item[k]
      /\ u.files = R.files /\ u.proven = R.proven /\ u.copied = R.copied
  BY <1>1, ItemStep
<1> HIDE DEF u
<1>3. Rewritten(u)
  BY <1>2, RewriteStep DEF u
<1>4. QED
  BY <1>2, <1>3

\* Temporary names are cleared away.
LEMMA CloseParts ==
    ASSUME DiskOK, NEW i, NEW st, Close(i, st)
    PROVE  /\ part' \in [Files -> Versions \cup {"none", "some", "bad"}]
           /\ \A f \in Files : part'[f] \in {part[f], "none"}
BY DEF DiskOK, Close

\* The item is left where it is.
LEMMA SkipStep ==
    ASSUME WorkInv, worker.at \in ItemSteps, Skip, UNCHANGED <<calls, pruned>>
    PROVE  \E u : /\ Rewritten(u) /\ u.status = R.status /\ u.item[I] = "skipped"
                  /\ \A k \in JobItems[J] : k # I => u.item[k] = R.item[k]
                  /\ u.files = R.files /\ u.proven = R.proven /\ u.copied = R.copied
<1>1. Write(J, [R EXCEPT !.item[I] = "skipped"]) /\ I \in JobItems[J]
  BY HoldsTypes DEF Skip, Close
<1>2. worker.at \in JobSteps /\ "skipped" \in {"pending", "removing"} \cup FinalItem
  BY DEF JobSteps, FinalItem
<1>3. QED
  BY <1>1, <1>2, ItemWrite

\* Where the worker may go from its job.
LEMMA HoldsJob ==
    ASSUME J \in Jobs, worker'.job = J, mem'[J] # NoJob, up', worker'.at \in Steps,
           worker'.at \notin ItemSteps,
           worker'.at # "promise" => ~Finished(mem'[J])
    PROVE  Holds'
BY DEF Holds, J, R, JobSteps, ItemSteps, FileSteps

LEMMA HoldsItem ==
    ASSUME J \in Jobs, worker'.job = J, mem'[J] # NoJob, up', worker'.at \in ItemSteps,
           ~Finished(mem'[J]), worker'.item \in JobItems[J],
           mem'[J].item[worker'.item] \notin FinalItem,
           worker'.at \in FileSteps => worker'.file \in mem'[J].files[worker'.item]
    PROVE  Holds'
BY DEF Holds, J, R, I, F, JobSteps, ItemSteps, FileSteps

-----------------------------------------------------------------------------
(* The records and the worker.                                             *)

LEMMA WorkInit == Init => WorkInv
<1> SUFFICES ASSUME Init PROVE WorkInv
  OBVIOUS
<1>1. DiskOK /\ RestOK
  BY MovesAssumption DEF Init, DiskOK, RestOK, Versions
<1>2. worker \in WorkerType /\ worker.at = "none"
  BY DEF Init, NoThread, WorkerType, Steps
<1>3. Tables /\ Books
  BY DEF Init, Tables, Books
<1>4. Holds
  BY <1>2 DEF Holds, JobSteps, ItemSteps, FileSteps
<1>5. QED
  BY <1>1, <1>2, <1>3, <1>4, WorkParts

\* What the steps of a request change.
LEMMA RequestWork ==
    ASSUME WorkInv, NEW j \in Jobs, Plan(j) \/ Enter(j) \/ EnsureWorker(j) \/ Cancel(j)
    PROVE  WorkInv'
<1>0. DiskOK /\ Tables /\ worker \in WorkerType /\ RestOK /\ Books /\ Holds
  BY WorkParts
<1>1. CASE Plan(j)
  <2>1. /\ Tables' /\ DiskOK' /\ worker' \in WorkerType /\ Holds'
        /\ calls' \in [Jobs -> {"none", "planned", "entered", "answered", "refused"}]
    BY <1>0, <1>1 DEF Plan, disk, Tables, DiskOK, RestOK, Holds, J, R, I, F
  <2>2. RestOK' /\ Books'
    BY <1>0, <1>1, <2>1 DEF Plan, RestOK, Books
  <2>3. QED
    BY <2>1, <2>2, WorkPrime
<1>2. CASE Enter(j)
  <2>1. NewRecord(j) \in Record(j)
    BY NewStep
  <2>2. /\ Tables' /\ mem'[j] = NewRecord(j) /\ saved'[j] = NewRecord(j)
        /\ \A k \in Jobs : k # j => mem'[k] = mem[k] /\ saved'[k] = saved[k]
    BY <1>0, <1>2, <2>1, WriteStep DEF Enter
  <2>3. DiskOK' /\ RestOK' /\ worker' = worker /\ up' = up
    BY <1>0, <1>2 DEF Enter, disk, DiskOK, RestOK
  <2>4. Books'
    <3>1. Agree(NewRecord(j), NewRecord(j))
      BY DEF Agree
    <3>2. QED
      BY <1>0, <1>2, <2>2, <3>1 DEF Enter, Books, RestOK
  <2>5. Holds'
    <3>1. saved[j] = NoJob /\ mem[j] = NoJob
      BY <1>0, <1>2 DEF Enter, Books
    <3>2. worker.at \in JobSteps \cup {"promise"} => mem'[J] = mem[J]
      BY <1>0, <2>2, <3>1 DEF Holds, R
    <3>3. QED
      BY <1>0, <2>3, <3>2 DEF Holds, J, R, I, F, JobSteps, ItemSteps, FileSteps
  <2>6. QED
    BY <1>0, <2>2, <2>3, <2>4, <2>5, WorkPrime
<1>3. CASE EnsureWorker(j)
  <2>1. DiskOK' /\ Tables' /\ mem' = mem /\ saved' = saved /\ up' = up
    BY <1>0, <1>3 DEF EnsureWorker, disk, DiskOK, Tables
  <2>2. calls' \in [Jobs -> {"none", "planned", "entered", "answered", "refused"}]
        /\ calls'[j] = "answered" /\ \A k \in Jobs : k # j => calls'[k] = calls[k]
    BY <1>0, <1>3 DEF EnsureWorker, RestOK
  <2>3. RestOK' /\ Books'
    BY <1>0, <1>3, <2>1, <2>2 DEF EnsureWorker, RestOK, Books
  <2>4. worker' \in WorkerType /\ (worker' = worker \/ worker'.at = "pick")
    BY <1>0, <1>3 DEF EnsureWorker, NoThread, WorkerType, Steps
  <2>5. Holds'
    BY <1>0, <2>1, <2>4 DEF Holds, J, R, I, F, JobSteps, ItemSteps, FileSteps
  <2>6. QED
    BY <2>1, <2>3, <2>4, <2>5, WorkPrime
<1>4. CASE Cancel(j)
  <2> DEFINE told == [mem[j] EXCEPT !.cancel = TRUE]
             t == [i \in JobItems[j] |->
                     IF told.item[i] \in FinalItem THEN told.item[i] ELSE "cancelled"]
             ended == Ended(told, t)
             u == IF mem[j].status = "queued" /\ worker.job # j THEN ended ELSE told
  <2>1. mem[j] \in Record(j) /\ saved[j] # NoJob /\ mem[j] # NoJob /\ ~Finished(mem[j])
    BY <1>0, <1>4 DEF Cancel, Tables, Books
  <2>2. told \in Record(j) /\ told.status = mem[j].status /\ SameWork(mem[j], told)
    BY <2>1, CancelStep
  <2>3. t \in [JobItems[j] -> {"pending", "removing"} \cup FinalItem]
    BY <2>1, <2>2 DEF Record, FinalItem
  <2> HIDE DEF told, t
  <2>4. ended \in Record(j)
    BY <2>2, <2>3, EndedStep
  <2>5. u \in Record(j)
    BY <2>2, <2>4
  <2>6. worker.job = j => u = told
    OBVIOUS
  <2>7. Write(j, u)
    BY <1>4 DEF Cancel, told, t, Ended
  <2>8. /\ DiskOK' /\ RestOK' /\ UNCHANGED <<calls, pruned>> /\ worker' = worker /\ up' = up
    BY <1>0, <1>4 DEF Cancel, disk, DiskOK, RestOK, rest, kept
  <2> HIDE DEF u
  <2>9. /\ Tables' /\ Books' /\ mem'[j] = u /\ u # NoJob
        /\ \A k \in Jobs : k # j => mem'[k] = mem[k]
    BY <1>0, <2>1, <2>5, <2>7, <2>8, WriteStep, BooksWrite
  <2>10. Holds'
    <3>1. CASE worker.job = j
      <4>1. mem'[J] = told /\ told.item = R.item /\ told.files = R.files
        BY <2>2, <2>6, <2>9, <3>1 DEF J, R, SameWork, Finished
      <4>2. told # NoJob
        BY <2>6, <2>9, <3>1
      <4>3. Finished(told) <=> Finished(R)
        BY <2>2, <3>1 DEF J, R, Finished
      <4>4. QED
        BY <1>0, <2>8, <4>1, <4>2, <4>3 DEF Holds, J, R, I, F, JobSteps, ItemSteps, FileSteps
    <3>2. CASE worker.job # j
      <4>1. worker.at \in JobSteps \cup {"promise"} => mem'[J] = mem[J]
        BY <1>0, <2>9, <3>2 DEF Holds, J
      <4>2. QED
        BY <1>0, <2>8, <4>1 DEF Holds, J, R, I, F, JobSteps, ItemSteps, FileSteps
    <3>3. QED
      BY <3>1, <3>2
  <2>11. QED
    BY <1>0, <2>8, <2>9, <2>10, WorkPrime
<1>5. QED
  BY <1>1, <1>2, <1>3, <1>4

\* What the worker's steps keep, by what they write.
LEMMA StayWork ==
    ASSUME WorkInv, mem' = mem, saved' = saved, UNCHANGED <<calls, pruned>>, RestOK', DiskOK',
           worker' \in WorkerType, Holds'
    PROVE  WorkInv'
BY NoWrite, WorkPrime DEF WorkInv

LEMMA RewriteWork ==
    ASSUME WorkInv, NEW u, Rewritten(u), RestOK', DiskOK', worker' \in WorkerType, Holds'
    PROVE  WorkInv'
BY WorkPrime DEF Rewritten

LEMMA ToCancelWork ==
    ASSUME WorkInv, worker.at \in JobSteps, ToCancel, RestOK', UNCHANGED <<calls, pruned>>, up' = up
    PROVE  WorkInv'
<1>1. DiskOK /\ worker \in WorkerType /\ J \in Jobs /\ R # NoJob /\ ~Finished(R) /\ up
  BY WorkParts DEF WorkInv, Holds, JobSteps
<1>2. worker' \in WorkerType /\ worker'.at = "cancel" /\ worker'.job = J
  BY <1>1, GoStep DEF ToCancel, Steps, J
<1>3. DiskOK' /\ mem' = mem /\ saved' = saved
  BY <1>1 DEF ToCancel, disk, DiskOK
<1>4. Holds'
  BY <1>1, <1>2, <1>3, HoldsJob DEF R, Steps, ItemSteps
<1>5. QED
  BY <1>2, <1>3, <1>4, StayWork

LEMMA SkipWork ==
    ASSUME WorkInv, worker.at \in ItemSteps, Skip, RestOK', UNCHANGED <<calls, pruned>>, up' = up
    PROVE  WorkInv'
<1>1. DiskOK /\ worker \in WorkerType /\ J \in Jobs /\ R # NoJob /\ ~Finished(R) /\ up
  BY WorkParts DEF WorkInv, Holds, JobSteps
<1>2. worker' \in WorkerType /\ worker'.at = "next" /\ worker'.job = J
  BY <1>1, GoStep DEF Skip, Steps, J
<1>3. PICK u : Rewritten(u) /\ u.status = R.status
  BY SkipStep
<1>4. DiskOK'
  BY <1>1, CloseParts DEF Skip, DiskOK
<1>5. Holds'
  BY <1>1, <1>2, <1>3, HoldsJob DEF Rewritten, Finished, Steps, ItemSteps
<1>6. QED
  BY <1>2, <1>3, <1>4, <1>5, RewriteWork

\* A status is written and the worker goes on from its job.
LEMMA StatusWork ==
    ASSUME WorkInv, worker.at \in JobSteps, RestOK', DiskOK', UNCHANGED <<calls, pruned>>, up' = up,
           NEW st \in {"queued", "running", "waiting"} \cup FinalJob, NEW step \in Steps,
           Write(J, [R EXCEPT !.status = st]), Go(step),
           st \in FinalJob => step = "promise",
           step \in ItemSteps => worker.at \in ItemSteps /\ step \notin FileSteps
    PROVE  WorkInv'
<1>1. worker \in WorkerType /\ J \in Jobs /\ R # NoJob /\ ~Finished(R) /\ up /\ Holds
  BY WorkParts DEF WorkInv, Holds, JobSteps
<1>2. /\ worker' \in WorkerType /\ worker'.at = step /\ worker'.job = J /\ worker'.item = I
  BY <1>1, GoStep DEF J, I
<1>3. PICK u : Rewritten(u) /\ u.status = st /\ SameWork(R, u)
  BY StatusWrite
<1>4. st \notin FinalJob => ~Finished(u)
  BY <1>3 DEF Finished
<1>5. mem'[J] = u /\ u # NoJob
  BY <1>3 DEF Rewritten
<1>6. CASE step \notin ItemSteps
  BY <1>1, <1>2, <1>3, <1>4, <1>5, <1>6, HoldsJob, RewriteWork
<1>7. CASE step \in ItemSteps
  <2>1. st \notin FinalJob
    BY <1>7 DEF ItemSteps
  <2>2. I \in JobItems[J] /\ u.item[I] \notin FinalItem
    BY <1>1, <1>3, <1>7 DEF Holds, SameWork
  <2>3. Holds'
    BY <1>1, <1>2, <1>4, <1>5, <1>7, <2>1, <2>2, HoldsItem
  <2>4. QED
    BY <1>2, <1>3, <2>3, RewriteWork
<1>8. QED
  BY <1>6, <1>7

\* The worker goes on with its item and file, and nothing is written.
LEMMA GoWork ==
    ASSUME WorkInv, worker.at \in ItemSteps, RestOK', DiskOK', UNCHANGED <<calls, pruned>>, up' = up,
           NEW step \in ItemSteps, Go(step), mem' = mem, saved' = saved,
           step \in FileSteps => worker.at \in FileSteps
    PROVE  WorkInv'
<1>1. /\ worker \in WorkerType /\ J \in Jobs /\ R # NoJob /\ ~Finished(R) /\ up
      /\ I \in JobItems[J] /\ R.item[I] \notin FinalItem
      /\ worker.at \in FileSteps => F \in R.files[I]
  BY WorkParts DEF WorkInv, Holds, JobSteps
<1>2. /\ worker' \in WorkerType /\ worker'.at = step /\ worker'.job = J /\ worker'.item = I
      /\ worker'.file = F
  BY <1>1, GoStep DEF J, I, F, Steps, ItemSteps
<1>3. Holds'
  BY <1>1, <1>2, HoldsItem DEF R
<1>4. QED
  BY <1>2, <1>3, StayWork

\* What a removal takes is in its reach and stands.
LEMMA DoomedStands ==
    ASSUME WorkInv, worker.at = "remove", NEW f \in Doomed
    PROVE  f \in Files /\ src[f] # "gone" /\ f \in Reach
<1>1. I \in Items /\ R.files[I] \subseteq Files
  BY HoldsTypes DEF ItemSteps
<1>2. Standing = {g \in Reach : src[g] # "gone"}
  BY DEF Standing, Reach, There
<1>3. Reach \subseteq Files
  BY <1>1, MovesAssumption DEF Reach
<1>4. Standing \in SUBSET Nat
  BY <1>2, <1>3, MovesAssumption
<1>5. f \in Standing
  BY <1>4, FirstIn DEF Doomed
<1>6. QED
  BY <1>2, <1>3, <1>5

LEMMA WorkerWork ==
    ASSUME WorkInv, Placing, Work
    PROVE  WorkInv'
<1>0. DiskOK /\ Tables /\ worker \in WorkerType /\ RestOK /\ Books /\ Holds
  BY WorkParts
<1>r. ASSUME UNCHANGED rest PROVE RestOK'
  BY <1>0, <1>r DEF RestOK, rest, kept
<1>h. worker.at \in JobSteps => J \in Jobs /\ R # NoJob /\ ~Finished(R) /\ up /\ R \in Record(J)
  BY <1>0, HoldsTypes DEF Holds
<1>i. worker.at \in ItemSteps =>
          /\ I \in JobItems[J] /\ R.item[I] \notin FinalItem /\ I \in Items
          /\ R.files[I] \subseteq Files
          /\ worker.at \in JobSteps
  BY <1>0, HoldsTypes DEF Holds, JobSteps
<1>f. worker.at \in FileSteps => F \in R.files[I] /\ F \in Files /\ worker.at \in ItemSteps
  BY <1>0, HoldsTypes DEF Holds, ItemSteps, FileSteps
<1>1. CASE Pick
  <2>1. RestOK' /\ DiskOK' /\ mem' = mem /\ saved' = saved /\ UNCHANGED <<calls, pruned>> /\ up
    BY <1>0, <1>r, <1>1 DEF Pick, At, disk, DiskOK, rest, kept
  <2>2. CASE worker' = NoThread
    <3>1. worker' \in WorkerType /\ worker'.at = "none"
      BY <2>2 DEF NoThread, WorkerType, Steps
    <3>2. Holds'
      BY <3>1 DEF Holds, JobSteps, ItemSteps, FileSteps
    <3>3. QED
      BY <2>1, <3>1, <3>2, StayWork
  <2>3. ASSUME NEW j \in OpenJobs, worker' = [NoThread EXCEPT !.at = "begin", !.job = j]
        PROVE  WorkInv'
    <3>1. worker' \in WorkerType /\ worker'.at = "begin" /\ worker'.job = j /\ j \in Jobs
      BY <2>3 DEF NoThread, WorkerType, Steps, OpenJobs
    <3>2. mem'[j] # NoJob /\ ~Finished(mem'[j]) /\ up'
      BY <1>1, <2>1, <2>3 DEF OpenJobs, Pick, rest, kept
    <3>3. Holds'
      BY <3>1, <3>2 DEF Holds, J, R, JobSteps, ItemSteps, FileSteps
    <3>4. QED
      BY <2>1, <3>1, <3>3, StayWork
  <2>4. QED
    BY <1>1, <2>2, <2>3 DEF Pick
<1>2. CASE Begin
  <2>1. worker.at \in JobSteps
        /\ RestOK' /\ UNCHANGED <<calls, pruned>> /\ up' = up
    BY <1>r, <1>2 DEF Begin, At, rest, kept, JobSteps
  <2>2. CASE ToCancel
    BY <2>1, <2>2, ToCancelWork
  <2>3. CASE Write(J, [R EXCEPT !.status = "running"]) /\ Go("next") /\ UNCHANGED <<disk, removed>>
    <3>1. DiskOK'
      BY <1>0, <2>3 DEF disk, DiskOK
    <3>2. QED
      BY <2>1, <2>3, <3>1, StatusWork DEF Steps, ItemSteps, FinalJob
  <2>4. QED
    BY <1>2, <2>2, <2>3 DEF Begin
<1>3. CASE NextItem
  <2>1. /\ worker.at = "next" /\ worker.at \in JobSteps
        /\ RestOK' /\ UNCHANGED <<calls, pruned>> /\ up' = up
        /\ DiskOK'
    BY <1>0, <1>r, <1>3 DEF NextItem, At, rest, kept, JobSteps, disk, DiskOK
  <2>2. CASE Write(J, [R EXCEPT !.status = "done"]) /\ Go("promise")
    BY <2>1, <2>2, StatusWork DEF Steps, ItemSteps, FinalJob
  <2>3. CASE /\ OpenItems # {} /\ UNCHANGED <<mem, saved>>
             /\ worker' = [worker EXCEPT !.item = First(OpenItems), !.file = NoJob,
                                         !.at = Entry(First(OpenItems))]
    <3>1. OpenItems \in SUBSET Nat /\ JobItems[J] \subseteq Items
      BY <1>h, <2>1, MovesAssumption DEF OpenItems
    <3>2. PICK i : i = First(OpenItems)
      OBVIOUS
    <3>3. i \in OpenItems
      BY <2>3, <3>1, <3>2, FirstIn
    <3>4. i \in JobItems[J] /\ R.item[i] \notin FinalItem /\ Entry(i) \in {"scan", "bring"}
      BY <3>3 DEF OpenItems, Entry
    <3>5. /\ worker' \in WorkerType /\ worker'.at = Entry(i) /\ worker'.job = J
          /\ worker'.item = i
      BY <1>0, <2>3, <3>1, <3>2, <3>4 DEF WorkerType, J, Steps
    <3>6. Holds'
      BY <1>h, <2>1, <2>3, <3>4, <3>5, HoldsItem DEF R, ItemSteps, FileSteps
    <3>7. QED
      BY <2>1, <2>3, <3>5, <3>6, StayWork
  <2>4. QED
    BY <1>3, <2>2, <2>3 DEF NextItem
<1>4. CASE Scan
  <2>1. /\ worker.at \in ItemSteps /\ worker.at \in JobSteps
        /\ RestOK' /\ UNCHANGED <<calls, pruned>> /\ up' = up
    BY <1>r, <1>4 DEF Scan, At, rest, kept, JobSteps, ItemSteps
  <2>2. CASE Skip
    BY <2>1, <2>2, SkipWork
  <2>3. CASE /\ Write(J, [R EXCEPT !.files[I] = There(I), !.scanned = @ \cup {I}])
             /\ Go("bring")
             /\ UNCHANGED <<disk, removed>>
    <3>s. PICK S : S = There(I)
      OBVIOUS
    <3>1. S \in SUBSET Files
      BY <1>i, <2>1, <3>s, MovesAssumption DEF There
    <3> DEFINE u == Scanned(R, I, S)
    <3>2. u \in Record(J) /\ u.status = R.status /\ u.item = R.item
      <4>1. J \in Jobs /\ R \in Record(J) /\ I \in JobItems[J]
        BY <1>h, <1>i, <2>1
      <4> HIDE DEF J, R, I
      <4>2. QED
        BY <3>1, <4>1, ScanStep
    <3> HIDE DEF u
    <3>3. Rewritten(u)
      BY <2>1, <2>3, <3>s, <3>2, RewriteStep DEF u, Scanned
    <3>4. DiskOK'
      BY <1>0, <2>3 DEF disk, DiskOK
    <3>5. /\ worker' \in WorkerType /\ worker'.at = "bring" /\ worker'.job = J
          /\ worker'.item = I
      BY <1>0, <2>3, GoStep DEF J, I, Steps
    <3>6. mem'[J] = u /\ u # NoJob
      BY <3>3 DEF Rewritten
    <3>7. Holds'
      BY <1>h, <1>i, <2>1, <3>2, <3>5, <3>6, HoldsItem DEF Finished, ItemSteps, FileSteps
    <3>8. QED
      BY <2>1, <3>3, <3>4, <3>5, <3>7, RewriteWork
  <2>4. QED
    BY <1>4, <2>2, <2>3 DEF Scan
<1>5. CASE Bring
  <2>1. /\ worker.at = "bring" /\ worker.at \in ItemSteps /\ worker.at \in JobSteps
        /\ RestOK' /\ UNCHANGED <<calls, pruned>> /\ up' = up
    BY <1>r, <1>5 DEF Bring, At, rest, kept, JobSteps, ItemSteps
  <2>2. CASE Go("settle") /\ UNCHANGED <<disk, mem, saved, removed>>
    <3>1. DiskOK'
      BY <1>0, <2>2 DEF disk, DiskOK
    <3>2. QED
      BY <2>1, <2>2, <3>1, GoWork DEF ItemSteps, FileSteps
  <2>3. CASE ToCancel
    BY <2>1, <2>3, ToCancelWork
  <2>4. CASE Skip
    BY <2>1, <2>4, SkipWork
  <2>5. CASE /\ Unproven # {} /\ UNCHANGED <<disk, mem, saved, removed>>
             /\ worker' = [worker EXCEPT !.file = First(Unproven),
                             !.at = IF dst[First(Unproven)] # "none" THEN "check" ELSE "copy"]
    <3>1. Unproven \in SUBSET Nat
      BY <1>i, <2>1, MovesAssumption DEF Unproven
    <3>2. PICK f : f = First(Unproven)
      OBVIOUS
    <3>3. f \in R.files[I] /\ f \in Files
      BY <1>i, <2>1, <2>5, <3>1, <3>2, FirstIn DEF Unproven
    <3>4. /\ worker' \in WorkerType /\ worker'.at \in {"check", "copy"} /\ worker'.job = J
          /\ worker'.item = I /\ worker'.file = f
      BY <1>0, <2>5, <3>2, <3>3 DEF WorkerType, J, I, Steps
    <3>5. Holds'
      BY <1>h, <1>i, <2>1, <2>5, <3>3, <3>4, HoldsItem DEF R, ItemSteps, FileSteps
    <3>6. DiskOK'
      BY <1>0, <2>5 DEF disk, DiskOK
    <3>7. QED
      BY <2>1, <2>5, <3>4, <3>5, <3>6, StayWork
  <2>6. QED
    BY <1>5, <2>2, <2>3, <2>4, <2>5 DEF Bring
<1>6. CASE CopySome
  <2>1. DiskOK' /\ RestOK' /\ mem' = mem /\ saved' = saved /\ UNCHANGED <<calls, pruned>> /\ up' = up
        /\ worker' = worker
    BY <1>0, <1>r, <1>6 DEF CopySome, rest, kept, DiskOK
  <2>2. Holds'
    BY <1>0, <2>1 DEF Holds, J, R, I, F
  <2>3. QED
    BY <1>0, <2>1, <2>2, StayWork
<1>7. CASE CopyAll
  <2>1. /\ worker.at = "copy" /\ worker.at \in ItemSteps /\ worker.at \in JobSteps
        /\ worker.at \in FileSteps /\ RestOK' /\ UNCHANGED <<calls, pruned>> /\ up' = up
    BY <1>r, <1>7 DEF CopyAll, At, rest, kept, JobSteps, ItemSteps, FileSteps
  <2>2. CASE ToCancel
    BY <2>1, <2>2, ToCancelWork
  <2>3. CASE /\ src[F] # "gone" /\ part' = [part EXCEPT ![F] = src[F]]
             /\ fresh' = IF ToLibrary THEN fresh \cup {F} ELSE fresh
             /\ mem' = [mem EXCEPT ![J].copied = @ \cup {F}]
             /\ Go("check") /\ UNCHANGED <<src, dst, saved, removed>>
    <3> DEFINE u == [R EXCEPT !.copied = @ \cup {F}]
    <3>1. /\ u \in Record(J) /\ u.status = R.status /\ u.item = R.item /\ u.files = R.files
          /\ u.proven = R.proven /\ u.copied = R.copied \cup {F}
      BY <1>h, <1>f, <2>1, CopiedStep
    <3>2. mem' = [mem EXCEPT ![J] = u]
      BY <2>3 DEF R
    <3> HIDE DEF u
    <3>3. Tables' /\ Books' /\ mem'[J] = u /\ u # NoJob
      BY <1>0, <1>h, <2>1, <2>3, <3>1, <3>2, BooksMem DEF R
    <3>4. DiskOK'
      BY <1>0, <1>f, <2>1, <2>3 DEF DiskOK
    <3>5. /\ worker' \in WorkerType /\ worker'.at = "check" /\ worker'.job = J
          /\ worker'.item = I /\ worker'.file = F
      BY <1>0, <2>3, GoStep DEF J, I, F, Steps
    <3>6. Holds'
      BY <1>h, <1>i, <1>f, <2>1, <3>1, <3>3, <3>5, HoldsItem DEF Finished, ItemSteps, FileSteps
    <3>7. QED
      BY <2>1, <3>3, <3>4, <3>5, <3>6, WorkPrime
  <2>4. QED
    BY <1>7, <2>2, <2>3 DEF CopyAll
<1>8. CASE Check
  <2>1. /\ worker.at \in ItemSteps /\ worker.at \in JobSteps
        /\ worker.at \in FileSteps /\ RestOK' /\ UNCHANGED <<calls, pruned>> /\ up' = up /\ DiskOK'
    BY <1>0, <1>r, <1>8 DEF Check, At, rest, kept, JobSteps, ItemSteps, FileSteps, disk, DiskOK
  <2>2. Rewritten(R)
    BY <1>8, <1>h, <2>1, RewriteStep DEF Check
  <2>3. /\ worker' \in WorkerType /\ worker'.at = "prove" /\ worker'.job = J
        /\ worker'.item = I /\ worker'.file = F
    BY <1>0, <1>8, GoStep DEF Check, J, I, F, Steps
  <2>4. mem'[J] = R
    BY <2>2 DEF Rewritten
  <2>5. Holds'
    BY <1>h, <1>i, <1>f, <2>1, <2>3, <2>4, HoldsItem DEF ItemSteps, FileSteps
  <2>6. QED
    BY <2>1, <2>2, <2>3, <2>5, RewriteWork
<1>9. CASE Prove
  <2>1. /\ worker.at \in ItemSteps /\ worker.at \in JobSteps
        /\ worker.at \in FileSteps /\ RestOK' /\ UNCHANGED <<calls, pruned>> /\ up' = up
    BY <1>r, <1>9 DEF Prove, At, rest, kept, JobSteps, ItemSteps, FileSteps
  <2>2. CASE ToCancel
    BY <2>1, <2>2, ToCancelWork
  <2>3. CASE Skip
    BY <2>1, <2>3, SkipWork
  <2>4. CASE (Go("mark") \/ Go("place")) /\ UNCHANGED <<disk, mem, saved, removed>>
    <3>1. DiskOK'
      BY <1>0, <2>4 DEF disk, DiskOK
    <3>2. QED
      BY <2>1, <2>4, <3>1, GoWork DEF ItemSteps, FileSteps
  <2>5. CASE /\ part' = [part EXCEPT ![F] = "none"]
             /\ mem' = [mem EXCEPT ![J].missed = @ \cup {F}]
             /\ Go("bring")
             /\ UNCHANGED <<src, dst, fresh, saved, removed>>
    <3> DEFINE u == [R EXCEPT !.missed = @ \cup {F}]
    <3>1. u \in Record(J) /\ u.status = R.status /\ SameWork(R, u)
      BY <1>h, <1>f, <2>1, MissedStep
    <3>2. mem' = [mem EXCEPT ![J] = u]
      BY <2>5 DEF R
    <3> HIDE DEF u
    <3>3. Tables' /\ Books' /\ mem'[J] = u /\ u # NoJob
      BY <1>0, <1>h, <2>1, <2>5, <3>1, <3>2, BooksMem DEF R, SameWork
    <3>4. DiskOK'
      BY <1>0, <1>f, <2>1, <2>5 DEF DiskOK
    <3>5. /\ worker' \in WorkerType /\ worker'.at = "bring" /\ worker'.job = J
          /\ worker'.item = I
      BY <1>0, <2>5, GoStep DEF J, I, Steps
    <3>6. Holds'
      BY <1>h, <1>i, <2>1, <3>1, <3>3, <3>5, HoldsItem
      DEF Finished, SameWork, ItemSteps, FileSteps
    <3>7. QED
      BY <2>1, <3>3, <3>4, <3>5, <3>6, WorkPrime
  <2>6. QED
    BY <1>9, <2>2, <2>3, <2>4, <2>5 DEF Prove
<1>10. CASE Place
  <2>1. /\ worker.at = "place" /\ worker.at \in ItemSteps /\ worker.at \in FileSteps /\ RestOK'
        /\ UNCHANGED <<calls, pruned>> /\ up' = up /\ mem' = mem /\ saved' = saved /\ Go("mark")
    BY <1>r, <1>10 DEF Place, At, rest, kept, ItemSteps, FileSteps
  <2>2. part[F] \in Versions
    BY <1>10, <2>1 DEF Place, Placing, Copied
  <2>3. DiskOK'
    BY <1>0, <1>f, <1>10, <2>1, <2>2 DEF Place, DiskOK
  <2>4. QED
    BY <2>1, <2>3, GoWork DEF ItemSteps, FileSteps
<1>11. CASE Mark
  <2>1. /\ worker.at \in ItemSteps /\ worker.at \in JobSteps
        /\ worker.at \in FileSteps /\ RestOK' /\ UNCHANGED <<calls, pruned>> /\ up' = up /\ DiskOK'
    BY <1>0, <1>r, <1>11 DEF Mark, At, rest, kept, JobSteps, ItemSteps, FileSteps, disk, DiskOK
  <2> DEFINE u == [R EXCEPT !.proven = @ \cup {F}]
  <2>2. u \in Record(J) /\ u.status = R.status /\ u.item = R.item
    BY <1>h, <1>f, <2>1, ProvenStep
  <2> HIDE DEF u
  <2>3. Rewritten(u)
    BY <1>11, <2>1, <2>2, RewriteStep DEF Mark, u
  <2>4. mem'[J] = u /\ u # NoJob
    BY <2>3 DEF Rewritten
  <2>5. /\ worker' \in WorkerType /\ worker'.at = "bring" /\ worker'.job = J
        /\ worker'.item = I
    BY <1>0, <1>11, GoStep DEF Mark, J, I, Steps
  <2>6. Holds'
    BY <1>h, <1>i, <2>1, <2>2, <2>4, <2>5, HoldsItem DEF Finished, ItemSteps, FileSteps
  <2>7. QED
    BY <2>1, <2>3, <2>5, <2>6, RewriteWork
<1>12. CASE Settle
  <2>1. /\ worker.at \in ItemSteps /\ worker.at \in JobSteps /\ RestOK' /\ UNCHANGED <<calls, pruned>>
        /\ up' = up
    BY <1>r, <1>12 DEF Settle, At, rest, kept, JobSteps, ItemSteps
  <2>2. CASE ToCancel
    BY <2>1, <2>2, ToCancelWork
  <2>3. CASE Go("keep") /\ UNCHANGED <<disk, mem, saved, removed>>
    <3>1. DiskOK'
      BY <1>0, <2>3 DEF disk, DiskOK
    <3>2. QED
      BY <2>1, <2>3, <3>1, GoWork DEF ItemSteps, FileSteps
  <2>4. QED
    BY <1>12, <2>2, <2>3 DEF Settle
<1>13. CASE Keep
  <2>1. /\ worker.at \in ItemSteps /\ worker.at \in JobSteps /\ RestOK' /\ UNCHANGED <<calls, pruned>>
        /\ up' = up
    BY <1>r, <1>13 DEF Keep, At, rest, kept, JobSteps, ItemSteps
  <2>2. CASE Skip
    BY <2>1, <2>2, SkipWork
  <2>3. CASE /\ Write(J, [R EXCEPT !.item[I] = "removing"]) /\ Go("remove")
             /\ UNCHANGED <<disk, removed>>
    <3>1. PICK u : Rewritten(u) /\ u.status = R.status /\ u.item[I] = "removing"
      <4>1. I \in JobItems[J] /\ Write(J, [R EXCEPT !.item[I] = "removing"])
        BY <1>i, <2>1, <2>3
      <4>2. QED
        BY <2>1, <4>1, ItemWrite
    <3>2. mem'[J] = u /\ u # NoJob /\ u.item[I] \notin FinalItem /\ ~Finished(u)
      BY <1>h, <2>1, <3>1 DEF Rewritten, FinalItem, Finished
    <3>3. /\ worker' \in WorkerType /\ worker'.at = "remove" /\ worker'.job = J
          /\ worker'.item = I
      BY <1>0, <2>3, GoStep DEF J, I, Steps
    <3>4. Holds'
      BY <1>h, <1>i, <2>1, <3>2, <3>3, HoldsItem DEF ItemSteps, FileSteps
    <3>5. DiskOK'
      BY <1>0, <2>3 DEF disk, DiskOK
    <3>6. QED
      BY <2>1, <3>1, <3>3, <3>4, <3>5, RewriteWork
  <2>4. QED
    BY <1>13, <2>2, <2>3 DEF Keep
<1>14. CASE Remove
  <2>1. /\ worker.at = "remove" /\ worker.at \in ItemSteps /\ worker.at \in JobSteps
        /\ RestOK' /\ UNCHANGED <<calls, pruned>> /\ up' = up
    BY <1>r, <1>14 DEF Remove, At, rest, kept, JobSteps, ItemSteps
  <2>2. ASSUME NEW f \in Doomed, src' = [src EXCEPT ![f] = "gone"],
               removed' = [removed EXCEPT ![f] = src[f]],
               UNCHANGED <<part, dst, fresh, saved, mem, worker>>
        PROVE  WorkInv'
    <3>1. f \in Files /\ src[f] # "gone"
      BY <2>1, <2>2, DoomedStands
    <3>2. src[f] \in Versions
      BY <1>0, <3>1 DEF DiskOK
    <3>3. DiskOK'
      BY <1>0, <2>2, <3>1, <3>2 DEF DiskOK
    <3>4. Holds'
      BY <1>0, <2>1, <2>2 DEF Holds, J, R, I, F
    <3>5. QED
      BY <1>0, <2>1, <2>2, <3>3, <3>4, StayWork
  <2>3. CASE /\ Close(I, "done") /\ Go("next") /\ UNCHANGED <<src, dst, fresh, removed>>
    <3>1. Write(J, [R EXCEPT !.item[I] = "done"])
      BY <2>3 DEF Close
    <3>2. PICK u : Rewritten(u) /\ u.status = R.status
      BY <1>i, <2>1, <3>1, ItemWrite DEF FinalItem
    <3>3. worker' \in WorkerType /\ worker'.at = "next" /\ worker'.job = J
      BY <1>0, <2>3, GoStep DEF J, Steps
    <3>4. Holds'
      BY <1>h, <2>1, <3>2, <3>3, HoldsJob DEF Rewritten, Finished, Steps, ItemSteps
    <3>5. DiskOK'
      BY <1>0, <2>3, CloseParts DEF DiskOK
    <3>6. QED
      BY <2>1, <3>2, <3>3, <3>4, <3>5, RewriteWork
  <2>4. QED
    BY <1>14, <2>2, <2>3 DEF Remove
<1>15. CASE CancelItem
  <2>1. /\ worker.at = "cancel" /\ worker.at \in JobSteps
        /\ RestOK' /\ UNCHANGED <<calls, pruned>> /\ up' = up /\ UNCHANGED <<src, dst, fresh, removed>>
    BY <1>r, <1>15 DEF CancelItem, At, rest, kept, JobSteps, ItemSteps
  <2>2. CASE OpenItems # {} /\ Close(First(OpenItems), "cancelled") /\ UNCHANGED worker
    <3>1. OpenItems \in SUBSET Nat
      BY <1>h, <2>1, MovesAssumption DEF OpenItems
    <3>2. PICK i : i = First(OpenItems)
      OBVIOUS
    <3>3. i \in JobItems[J]
      BY <2>2, <3>1, <3>2, FirstIn DEF OpenItems
    <3>4. Write(J, [R EXCEPT !.item[i] = "cancelled"])
      BY <2>2, <3>2 DEF Close
    <3>5. PICK u : Rewritten(u) /\ u.status = R.status
      BY <2>1, <3>3, <3>4, ItemWrite DEF FinalItem
    <3>6. Holds'
      BY <1>0, <1>h, <2>1, <2>2, <3>5, HoldsJob
      DEF Rewritten, Finished, Steps, ItemSteps, J
    <3>7. DiskOK'
      BY <1>0, <2>1, <2>2, CloseParts DEF DiskOK
    <3>8. QED
      BY <1>0, <2>1, <2>2, <3>5, <3>6, <3>7, RewriteWork
  <2>3. CASE Write(J, [R EXCEPT !.status = "cancelled"]) /\ Go("promise") /\ UNCHANGED part
    <3>1. DiskOK'
      BY <1>0, <2>1, <2>3 DEF DiskOK
    <3>2. QED
      BY <2>1, <2>3, <3>1, StatusWork DEF Steps, ItemSteps, FinalJob
  <2>4. QED
    BY <1>15, <2>2, <2>3 DEF CancelItem
<1>16. CASE Promise
  <2>1. J \in Jobs
    BY <1>0, <1>16 DEF Promise, At, Holds
  <2>2. /\ RestOK' /\ DiskOK' /\ mem' = mem /\ saved' = saved /\ UNCHANGED <<calls, pruned>>
    BY <1>0, <1>16, <2>1 DEF Promise, disk, DiskOK, RestOK
  <2>3. worker' \in WorkerType /\ worker'.at = "prune"
    BY <1>16 DEF Promise, NoThread, WorkerType, Steps
  <2>4. Holds'
    BY <2>3 DEF Holds, JobSteps, ItemSteps, FileSteps
  <2>5. QED
    BY <2>2, <2>3, <2>4, StayWork
<1>17. CASE Wait
  <2>1. /\ worker.at \in ItemSteps /\ worker.at \in JobSteps /\ RestOK' /\ UNCHANGED <<calls, pruned>>
        /\ up' = up
    BY <1>r, <1>17 DEF Wait, At, rest, kept, JobSteps, ItemSteps
  <2>2. CASE ToCancel
    BY <2>1, <2>2, ToCancelWork
  <2>3. CASE /\ Write(J, [R EXCEPT !.status = "running"]) /\ Go(Entry(I))
             /\ UNCHANGED <<disk, removed>>
    <3>1. DiskOK'
      BY <1>0, <2>3 DEF disk, DiskOK
    <3>2. PICK e \in {"scan", "bring"} : e = Entry(I)
      BY DEF Entry
    <3>3. QED
      BY <2>1, <2>3, <3>1, <3>2, StatusWork DEF Steps, ItemSteps, FileSteps, FinalJob
  <2>4. QED
    BY <1>17, <2>2, <2>3 DEF Wait
<1>18. CASE FileGone
  <2>1. /\ worker.at \in ItemSteps /\ RestOK' /\ DiskOK' /\ UNCHANGED <<calls, pruned>> /\ up' = up
    BY <1>0, <1>r, <1>18 DEF FileGone, rest, kept, ItemSteps, disk, DiskOK
  <2>2. QED
    BY <1>18, <2>1, GoWork DEF FileGone, ItemSteps, FileSteps
<1>19. CASE Prune
  <2>1. DiskOK' /\ worker.at = "prune"
    BY <1>0, <1>19 DEF Prune, At, disk, DiskOK
  <2>2. CASE worker' = [NoThread EXCEPT !.at = "pick"] /\ UNCHANGED <<mem, saved, pruned>>
    <3>1. worker' \in WorkerType /\ worker'.at = "pick"
      BY <2>2 DEF NoThread, WorkerType, Steps
    <3>2. Holds'
      BY <3>1 DEF Holds, JobSteps, ItemSteps, FileSteps
    <3>3. RestOK' /\ UNCHANGED <<calls, pruned>>
      BY <1>0, <1>19, <2>2 DEF Prune, RestOK
    <3>4. QED
      BY <2>1, <2>2, <3>1, <3>2, <3>3, StayWork
  <2>3. ASSUME NEW j \in Jobs, mem[j] # NoJob, mem' = [mem EXCEPT ![j] = NoJob],
               saved' = [saved EXCEPT ![j] = NoJob], pruned' = pruned \cup {j},
               UNCHANGED worker
        PROVE  WorkInv'
    <3>1. /\ Tables' /\ mem'[j] = NoJob /\ saved'[j] = NoJob
          /\ \A k \in Jobs : k # j => mem'[k] = mem[k] /\ saved'[k] = saved[k]
      BY <1>0, <2>3 DEF Tables
    <3>2. RestOK' /\ calls' = calls
      BY <1>0, <1>19, <2>3 DEF Prune, RestOK
    <3>3. calls[j] \in {"entered", "answered"} /\ pruned \subseteq Jobs
      BY <1>0, <2>3 DEF Books, RestOK
    <3>4. Books'
      BY <1>0, <2>3, <3>1, <3>2, <3>3 DEF Books
    <3>5. Holds'
      BY <2>1, <2>3 DEF Holds, JobSteps, ItemSteps, FileSteps
    <3>6. QED
      BY <1>0, <2>1, <2>3, <3>1, <3>2, <3>4, <3>5, WorkPrime
  <2>4. QED
    BY <1>19, <2>2, <2>3 DEF Prune
<1>20. QED
  BY <1>1, <1>2, <1>3, <1>4, <1>5, <1>6, <1>7, <1>8, <1>9, <1>10, <1>11, <1>12, <1>13, <1>14,
     <1>15, <1>16, <1>17, <1>18, <1>19 DEF Work

-----------------------------------------------------------------------------
(* Faults.                                                                 *)

LEMMA FaultWork ==
    ASSUME WorkInv, \/ Trouble \/ Breaks \/ WorkerDies \/ UnlinkFails \/ BadBlock
                    \/ LibraryRestarts \/ Crash \/ Resume
                    \/ \E f \in Files : Meddle(f) \/ LibraryWrites(f)
    PROVE  WorkInv'
<1>0. DiskOK /\ Tables /\ worker \in WorkerType /\ RestOK /\ Books /\ Holds
  BY WorkParts
<1>r. ASSUME UNCHANGED kept, Fault PROVE RestOK'
  BY <1>0, <1>r, MovesAssumption DEF RestOK, Fault, kept
<1>1. CASE Trouble
  <2>1. /\ worker.at \in ItemSteps /\ worker.at \in JobSteps /\ RestOK' /\ UNCHANGED <<calls, pruned>>
        /\ up' = up
    BY <1>r, <1>1 DEF Trouble, JobSteps, ItemSteps, kept
  <2>2. CASE Skip
    BY <2>1, <2>2, SkipWork
  <2>3. CASE /\ Write(J, [R EXCEPT !.status = "waiting"]) /\ Go("wait")
             /\ UNCHANGED <<disk, removed>>
    <3>1. DiskOK'
      BY <1>0, <2>3 DEF disk, DiskOK
    <3>2. QED
      BY <2>1, <2>3, <3>1, StatusWork DEF Steps, ItemSteps, FileSteps, FinalJob
  <2>4. QED
    BY <1>1, <2>2, <2>3 DEF Trouble
<1>2. CASE Breaks
  <2>1. /\ worker.at \in JobSteps /\ RestOK' /\ DiskOK' /\ UNCHANGED <<calls, pruned>> /\ up' = up
    BY <1>0, <1>r, <1>2 DEF Breaks, Carrying, Steps, JobSteps, ItemSteps, disk, DiskOK, kept
  <2>2. QED
    BY <1>2, <2>1, StatusWork DEF Breaks, Steps, ItemSteps, FinalJob
<1>3. CASE UnlinkFails
  <2>1. /\ worker.at \in ItemSteps /\ RestOK' /\ UNCHANGED <<calls, pruned>> /\ up' = up /\ Skip
    BY <1>r, <1>3 DEF UnlinkFails, At, ItemSteps, kept
  <2>2. QED
    BY <2>1, SkipWork
<1>4. ASSUME NEW f \in Files, Meddle(f) PROVE WorkInv'
  <2>1. /\ UNCHANGED <<calls, pruned>> /\ up' = up /\ mem' = mem /\ saved' = saved
        /\ worker' = worker /\ touched' \subseteq Files
    BY <1>0, <1>4 DEF Meddle, RestOK
  <2>2. DiskOK'
    BY <1>0, <1>4 DEF Meddle, DiskOK, Versions
  <2>3. Holds'
    BY <1>0, <2>1 DEF Holds, J, R, I, F
  <2>4. RestOK'
    BY <1>0, <1>4, <2>1, MovesAssumption DEF Meddle, RestOK, Fault
  <2>5. QED
    BY <1>0, <2>1, <2>2, <2>3, <2>4, StayWork
<1>9. CASE BadBlock
  <2>1. /\ RestOK' /\ UNCHANGED <<calls, pruned>> /\ up' = up /\ mem' = mem /\ saved' = saved
        /\ worker' = worker
    BY <1>r, <1>9 DEF BadBlock, kept
  <2>2. DiskOK'
    BY <1>0, <1>9 DEF BadBlock, DiskOK, Versions
  <2>3. Holds'
    BY <1>0, <2>1 DEF Holds, J, R, I, F
  <2>4. QED
    BY <1>0, <2>1, <2>2, <2>3, StayWork
<1>10. CASE WorkerDies
  <2>1. /\ RestOK' /\ UNCHANGED <<calls, pruned>> /\ saved' = saved /\ DiskOK'
    BY <1>0, <1>r, <1>10 DEF WorkerDies, kept, disk, DiskOK
  <2>2. worker' \in WorkerType /\ worker'.at = "dead"
    BY <1>10 DEF WorkerDies, NoThread, WorkerType, Steps
  <2>3. Holds'
    BY <2>2 DEF Holds, JobSteps, ItemSteps, FileSteps
  <2>4. CASE UNCHANGED mem
    BY <2>1, <2>2, <2>3, <2>4, StayWork
  <2>5. CASE worker.at \in Carrying /\ mem' = [mem EXCEPT ![J].status = "failed"]
    <3> DEFINE u == [R EXCEPT !.status = "failed"]
    <3>1. J \in Jobs /\ R \in Record(J) /\ mem[J] # NoJob
      BY <1>0, <2>5, HoldsTypes DEF Holds, R, Carrying, Steps, JobSteps, ItemSteps
    <3>2. u \in Record(J) /\ u.status = "failed" /\ SameWork(R, u)
      BY <3>1, StatusStep DEF FinalJob
    <3>3. mem' = [mem EXCEPT ![J] = u]
      BY <2>5 DEF R
    <3> HIDE DEF u
    <3>4. Finished(u)
      BY <3>2 DEF Finished, FinalJob
    <3>5. Tables' /\ Books'
      BY <1>0, <2>1, <3>1, <3>2, <3>3, <3>4, BooksMem DEF R, SameWork
    <3>6. QED
      BY <2>1, <2>2, <2>3, <3>5, WorkPrime
  <2>6. QED
    BY <1>10, <2>4, <2>5 DEF WorkerDies
<1>5. CASE LibraryRestarts
  <2>1. /\ RestOK' /\ UNCHANGED <<calls, pruned>> /\ up' = up /\ mem' = mem /\ saved' = saved
        /\ worker' = worker
    BY <1>r, <1>5 DEF LibraryRestarts, kept
  <2>2. DiskOK'
    BY <1>0, <1>5 DEF LibraryRestarts, DiskOK
  <2>3. Holds'
    BY <1>0, <2>1 DEF Holds, J, R, I, F
  <2>4. QED
    BY <1>0, <2>1, <2>2, <2>3, StayWork
<1>6. CASE Crash
  <2>1. DiskOK' /\ saved' = saved /\ mem' = [j \in Jobs |-> NoJob] /\ worker' = NoThread
    BY <1>0, <1>6 DEF Crash, disk, DiskOK
  <2>2. RestOK'
    <3>1. calls' \in [Jobs -> {"none", "planned", "entered", "answered", "refused"}]
      BY <1>0, <1>6 DEF Crash, RestOK
    <3>2. faults' \in 0..MaxFaults
      BY <1>0, <1>6, MovesAssumption DEF Crash, RestOK, Fault
    <3>3. QED
      BY <1>0, <1>6, <3>1, <3>2 DEF Crash, RestOK
  <2>3. worker' \in WorkerType /\ worker'.at = "none"
    BY <2>1 DEF NoThread, WorkerType, Steps
  <2>4. Tables' /\ \A j \in Jobs : mem'[j] = NoJob
    BY <1>0, <2>1 DEF Tables
  <2>5. Books'
    BY <1>0, <1>6, <2>1, <2>4 DEF Books, Crash
  <2>6. Holds'
    BY <2>3 DEF Holds, JobSteps, ItemSteps, FileSteps
  <2>7. QED
    BY <2>1, <2>2, <2>3, <2>4, <2>5, <2>6, WorkPrime
<1>7. CASE Resume
  <2>0. PICK Lost \in SUBSET Ends, at \in {"none", "pick"} : Reload("queued", Lost, at)
    BY <1>7 DEF Resume
  <2>1. DiskOK' /\ RestOK' /\ calls' = calls /\ pruned' = pruned \cup Lost
    BY <1>0, <2>0 DEF Reload, disk, DiskOK, RestOK, Ends
  <2>2. worker' \in WorkerType /\ worker'.at \in {"none", "pick"}
    BY <2>0 DEF Reload, NoThread, WorkerType, Steps
  <2>3. \A j \in Jobs : /\ mem'[j] = IF j \in Lost THEN NoJob ELSE InLine(saved[j], "queued")
                        /\ saved'[j] = IF j \in Lost THEN NoJob ELSE saved[j]
    BY <2>0 DEF Reload
  <2>4. ASSUME NEW j \in Jobs
        PROVE  /\ mem'[j] \in Record(j) \cup {NoJob} /\ saved'[j] \in Record(j) \cup {NoJob}
               /\ mem'[j] # NoJob => saved'[j] # NoJob /\ Agree(mem'[j], saved'[j])
               /\ saved[j] = NoJob => mem'[j] = NoJob
    <3>1. saved[j] \in Record(j) \cup {NoJob}
      BY <1>0 DEF Tables
    <3>2. CASE j \in Lost
      BY <2>3, <3>2
    <3>3. CASE j \notin Lost /\ saved[j] # NoJob /\ ~Finished(saved[j])
      <4> DEFINE u == [saved[j] EXCEPT !.status = "queued"]
      <4>1. u \in Record(j) /\ u.status = "queued" /\ SameWork(saved[j], u)
        BY <3>1, <3>3, StatusStep
      <4>2. mem'[j] = u /\ saved'[j] = saved[j]
        BY <2>3, <3>3 DEF InLine
      <4> HIDE DEF u
      <4>3. Agree(u, saved[j])
        BY <3>3, <4>1 DEF Agree, SameWork
      <4>4. QED
        BY <3>1, <3>3, <4>1, <4>2, <4>3
    <3>4. CASE j \notin Lost /\ ~(saved[j] # NoJob /\ ~Finished(saved[j]))
      <4>1. mem'[j] = saved[j] /\ saved'[j] = saved[j]
        BY <2>3, <3>4 DEF InLine
      <4>2. Agree(saved[j], saved[j])
        BY DEF Agree
      <4>3. QED
        BY <3>1, <4>1, <4>2
    <3>5. QED
      BY <3>2, <3>3, <3>4
  <2>5. mem' = [j \in Jobs |-> mem'[j]] /\ saved' = [j \in Jobs |-> saved'[j]]
    BY <2>0 DEF Reload
  <2>6. Tables'
    BY <2>4, <2>5 DEF Tables
  <2>7. \A j \in Lost : j \in Jobs /\ saved[j] # NoJob
    BY <2>0 DEF Ends
  <2>8. Books'
    BY <1>0, <2>1, <2>3, <2>4, <2>7 DEF Books, RestOK
  <2>9. Holds'
    BY <2>2 DEF Holds, JobSteps, ItemSteps, FileSteps
  <2>10. QED
    BY <2>1, <2>2, <2>6, <2>8, <2>9, WorkPrime
<1>8. ASSUME NEW f \in Files, LibraryWrites(f) PROVE WorkInv'
  <2>1. /\ RestOK' /\ UNCHANGED <<calls, pruned>> /\ up' = up /\ mem' = mem /\ saved' = saved
        /\ worker' = worker /\ DiskOK'
    BY <1>0, <1>8 DEF LibraryWrites, RestOK, DiskOK, rest, kept
  <2>2. Holds'
    BY <1>0, <2>1 DEF Holds, J, R, I, F
  <2>3. QED
    BY <1>0, <2>1, <2>2, StayWork
<1>11. QED
  BY <1>1, <1>2, <1>3, <1>4, <1>5, <1>6, <1>7, <1>8, <1>9, <1>10

-----------------------------------------------------------------------------
(* The types, and the rename of a whole file only.                         *)

\* Where the worker is not about to rename.
LEMMA NotPlacing ==
    ASSUME worker'.at # "place"
    PROVE  Placing'
BY DEF Placing

LEMMA GoNotPlacing ==
    ASSUME WorkInv, NEW step \in Steps \ {"place"}, Go(step)
    PROVE  Placing'
BY NotPlacing, WorkParts, GoStep

LEMMA PlacingStep ==
    ASSUME WorkInv, Placing, Next
    PROVE  Placing'
<1>0. DiskOK /\ worker \in WorkerType
  BY WorkParts
<1>s. ASSUME worker' = worker, part' = part, dst' = dst PROVE Placing'
  BY <1>s DEF Placing, F
<1>g. ASSUME Skip \/ ToCancel PROVE Placing'
  BY <1>g, GoNotPlacing DEF Skip, ToCancel, Steps
<1>1. ASSUME NEW j \in Jobs, Plan(j) \/ Enter(j) \/ EnsureWorker(j) \/ Cancel(j)
      PROVE  Placing'
  <2>1. part' = part /\ dst' = dst
    BY <1>1 DEF Plan, Enter, EnsureWorker, Cancel, disk
  <2>2. worker' = worker \/ worker'.at = "pick"
    BY <1>1 DEF Plan, Enter, EnsureWorker, Cancel, NoThread, rest, kept
  <2>3. QED
    BY <1>s, <2>1, <2>2, NotPlacing
<1>2. CASE Pick \/ Promise \/ Prune \/ WorkerDies \/ Crash \/ Resume
  <2>1. ASSUME NEW j, worker' = [NoThread EXCEPT !.at = "begin", !.job = j] PROVE Placing'
    BY <2>1, NotPlacing DEF NoThread
  <2>2. CASE worker' = NoThread
    BY <2>2, NotPlacing DEF NoThread
  <2>3. ASSUME NEW at \in {"none", "pick", "prune", "dead"}, worker' = [NoThread EXCEPT !.at = at]
        PROVE  Placing'
    BY <2>3, NotPlacing DEF NoThread
  <2>4. CASE Prune
    <3>1. CASE worker' = worker
      BY <2>4, <3>1, NotPlacing DEF Prune, At
    <3>2. QED
      BY <2>3, <2>4, <3>1 DEF Prune
  <2>5. QED
    BY <1>2, <2>1, <2>2, <2>3, <2>4 DEF Pick, Promise, WorkerDies, Crash, Resume, Reload
<1>3. CASE Begin \/ Scan \/ CopyAll \/ Check \/ Mark \/ Settle \/ Keep \/ Trouble \/ FileGone
           \/ Breaks \/ UnlinkFails \/ Place
  BY <1>3, <1>g, GoNotPlacing
  DEF Begin, Scan, CopyAll, Check, Mark, Settle, Keep, Trouble, FileGone, Breaks, UnlinkFails,
      Place, Steps
<1>4. CASE NextItem
  <2>1. CASE Go("promise")
    BY <2>1, GoNotPlacing DEF Steps
  <2>2. ASSUME NEW i, worker' = [worker EXCEPT !.item = i, !.file = NoJob, !.at = Entry(i)]
        PROVE  Placing'
    <3>1. worker'.at = Entry(i)
      BY <1>0, <2>2 DEF WorkerType
    <3>2. QED
      BY <3>1, NotPlacing DEF Entry
  <2>3. QED
    BY <1>4, <2>1, <2>2 DEF NextItem
<1>5. CASE Bring
  <2>1. CASE Go("settle") \/ ToCancel \/ Skip
    BY <1>g, <2>1, GoNotPlacing DEF Steps
  <2>2. ASSUME NEW f, worker' = [worker EXCEPT !.file = f,
                                   !.at = IF dst[f] # "none" THEN "check" ELSE "copy"]
        PROVE  Placing'
    <3>1. worker'.at # "place"
      BY <1>0, <2>2 DEF WorkerType
    <3>2. QED
      BY <3>1, NotPlacing
  <2>3. QED
    BY <1>5, <2>1, <2>2 DEF Bring
<1>6. CASE CopySome
  BY <1>6, NotPlacing DEF CopySome, At
<1>7. CASE Prove
  <2>1. CASE ToCancel \/ Skip \/ Go("mark") \/ Go("bring")
    BY <1>g, <2>1, GoNotPlacing DEF Steps
  <2>2. CASE Go("place") /\ dst[F] = "none" /\ part[F] = src[F] /\ UNCHANGED disk
    <3>1. worker'.file = F /\ dst' = dst /\ part' = part
      BY <1>0, <2>2, GoStep DEF F, Steps, disk
    <3>2. F \in Files
      BY <1>7, HoldsTypes DEF Prove, At, FileSteps
    <3>3. part[F] \in Versions
      BY <1>0, <1>7, <2>2, <3>2 DEF Prove, DiskOK
    <3>4. QED
      BY <2>2, <3>1, <3>3 DEF Placing, F
  <2>3. QED
    BY <1>7, <2>1, <2>2 DEF Prove
<1>8. CASE Remove
  <2>1. CASE Go("next")
    BY <2>1, GoNotPlacing DEF Steps
  <2>2. QED
    BY <1>8, <2>1, <1>s DEF Remove
<1>9. CASE CancelItem
  <2>1. CASE Go("promise")
    BY <2>1, GoNotPlacing DEF Steps
  <2>2. QED
    BY <1>9, <2>1, NotPlacing DEF CancelItem, At
<1>10. CASE Wait
  <2>1. Entry(I) \in Steps \ {"place"}
    BY DEF Entry, Steps
  <2>2. QED
    BY <1>10, <1>g, <2>1, GoNotPlacing DEF Wait
<1>11. ASSUME NEW f \in Files, Meddle(f) PROVE Placing'
  <2>1. worker' = worker /\ dst' = dst /\ (worker.at = "place" => part' = part)
    BY <1>11 DEF Meddle
  <2>2. QED
    BY <2>1, <1>s, NotPlacing
<1>15. CASE BadBlock
  BY <1>15, NotPlacing DEF BadBlock, At
<1>12. CASE LibraryRestarts
  <2>1. worker.at = "place" => F \in Files
    BY HoldsTypes DEF FileSteps
  <2>2. worker.at = "place" => part'[F] \in {part[F], "none"} /\ dst'[F] \in {dst[F], "none"}
    BY <1>12, <2>1 DEF LibraryRestarts
  <2>3. QED
    BY <1>12, <2>2 DEF LibraryRestarts, Placing, F
<1>13. ASSUME NEW f \in Files, LibraryWrites(f) PROVE Placing'
  BY <1>13, <1>s DEF LibraryWrites
<1>14. QED
  BY <1>1, <1>2, <1>3, <1>4, <1>5, <1>6, <1>7, <1>8, <1>9, <1>10, <1>11, <1>12, <1>13, <1>15
  DEF Next, Work

LEMMA WorkNext ==
    ASSUME WorkInv, Placing, [Next]_vars
    PROVE  WorkInv' /\ Placing'
<1>1. CASE Next
  BY <1>1, RequestWork, WorkerWork, FaultWork, PlacingStep DEF Next
<1>2. CASE UNCHANGED vars
  <2>1. UNCHANGED <<src, part, dst, fresh, saved, mem, worker, removed>> /\ UNCHANGED rest
    BY <1>2 DEF vars, disk
  <2>2. UNCHANGED <<calls, up, touched, started, pruned, faults>>
    BY <2>1 DEF rest, kept
  <2>3. Holds' <=> Holds
    BY <2>1, <2>2 DEF Holds, J, R, I, F
  <2>4. TypeOK' /\ Tables' /\ Books'
    BY <2>1, <2>2 DEF WorkInv, TypeOK, Tables, Books
  <2>5. Placing'
    BY <2>1, <2>2 DEF Placing, J, R, I, F
  <2>6. QED
    BY <2>3, <2>4, <2>5 DEF WorkInv
<1>3. QED
  BY <1>1, <1>2

LEMMA WorkInvariant == Spec => [](WorkInv /\ Placing)
<1>1. Init => WorkInv /\ Placing
  <2>1. Init => Placing
    BY DEF Init, NoThread, Placing
  <2>2. QED
    BY <2>1, WorkInit
<1>2. WorkInv /\ Placing /\ [Next]_vars => (WorkInv /\ Placing)'
  BY WorkNext
<1>3. QED
  BY <1>1, <1>2, PTL DEF Spec

\* Every record, on disk and in the process, keeps its shape, and the worker holds a
\* job, an item and a file that are there, through every crash and retry.
THEOREM MovesTypeCorrect == Spec => []TypeOK
<1>1. WorkInv => TypeOK
  BY DEF WorkInv
<1>2. QED
  BY <1>1, WorkInvariant, PTL

-----------------------------------------------------------------------------
(* The jobs on disk implement MoveJobs.                                    *)

\* The worker writes the record of the job it holds.
LEMMA WroteStep ==
    ASSUME WorkInv, WorkInv', worker.at \in JobSteps, NEW u, Write(J, u), pruned' = pruned,
           worker'.job = J, worker'.at \in JobSteps \cup {"promise"}
    PROVE  [Abstract!Next]_Durable
<1>1. J \in Jobs /\ R # NoJob /\ ~Finished(R) /\ saved[J] # NoJob /\ ~Finished(saved[J])
  BY DEF WorkInv, Holds, Books, Agree, R
<1>2. mem'[J] # NoJob
  BY DEF WorkInv, Holds, J, R
<1>3. saved'[J] # NoJob
  BY <1>1, <1>2 DEF WorkInv, Books
<1>4. \A k \in Jobs : k # J => saved'[k] = saved[k]
  BY <1>1 DEF WorkInv, Tables, Write
<1>0. J \notin pruned
  BY <1>1 DEF WorkInv, Books
<1>5. Durable[J] = "open" /\ Durable'[J] \in {"open", "closed"}
  BY <1>0, <1>1, <1>3 DEF Durable
<1>6. \A k \in Jobs : k # J => Durable'[k] = Durable[k]
  BY <1>4 DEF Durable
<1>7. Durable = [k \in Jobs |-> Durable[k]] /\ Durable' = [k \in Jobs |-> Durable'[k]]
  BY DEF Durable
<1> HIDE DEF Durable
<1>8. CASE Durable'[J] = "open"
  <2>1. Durable' = Durable
    BY <1>1, <1>5, <1>6, <1>7, <1>8
  <2>2. QED
    BY <2>1
<1>9. CASE Durable'[J] = "closed"
  <2>1. Durable' = [Durable EXCEPT ![J] = "closed"]
    BY <1>1, <1>6, <1>7, <1>9
  <2>2. QED
    BY <1>1, <1>5, <2>1 DEF Abstract!Next, Abstract!Close
<1>10. QED
  BY <1>5, <1>8, <1>9

LEMMA WroteGo ==
    ASSUME WorkInv, WorkInv', worker.at \in JobSteps, NEW u, Write(J, u), pruned' = pruned,
           NEW step \in JobSteps \cup {"promise"}, Go(step)
    PROVE  [Abstract!Next]_Durable
<1>1. worker'.job = J /\ worker'.at = step
  BY WorkParts, GoStep DEF J, JobSteps, ItemSteps, Steps
<1>2. QED
  BY <1>1, WroteStep

LEMMA JobsStep ==
    ASSUME WorkInv, WorkInv', [Next]_vars
    PROVE  [Abstract!Next]_Durable
<1>s. ASSUME saved' = saved, pruned' = pruned PROVE [Abstract!Next]_Durable
  BY <1>s DEF Durable
<1>c. ASSUME ToCancel, pruned' = pruned PROVE [Abstract!Next]_Durable
  BY <1>c, <1>s DEF ToCancel
<1>k. ASSUME worker.at \in JobSteps, Skip, pruned' = pruned PROVE [Abstract!Next]_Durable
  <2>1. Write(J, [R EXCEPT !.item[I] = "skipped"]) /\ Go("next")
    BY <1>k DEF Skip, Close
  <2>2. QED
    BY <1>k, <2>1, WroteGo DEF JobSteps
<1>1. ASSUME NEW j \in Jobs, Enter(j) PROVE [Abstract!Next]_Durable
  <2>1. Tables /\ saved[j] = NoJob /\ j \notin pruned /\ pruned' = pruned
    BY <1>1 DEF WorkInv, Books, Enter
  <2>2. NewRecord(j) \in Record(j) /\ ~Finished(NewRecord(j))
    BY NewStep DEF Finished, FinalJob
  <2>3. /\ saved'[j] = NewRecord(j) /\ NewRecord(j) # NoJob
        /\ \A k \in Jobs : k # j => saved'[k] = saved[k]
    BY <1>1, <2>1, <2>2, WriteStep DEF Enter
  <2>4. /\ Durable[j] = "none" /\ Durable'[j] = "open"
        /\ \A k \in Jobs : k # j => Durable'[k] = Durable[k]
    BY <2>1, <2>2, <2>3 DEF Durable
  <2>5. Durable = [k \in Jobs |-> Durable[k]] /\ Durable' = [k \in Jobs |-> Durable'[k]]
    BY DEF Durable
  <2> HIDE DEF Durable
  <2>6. Durable' = [Durable EXCEPT ![j] = "open"]
    BY <2>4, <2>5
  <2>7. QED
    BY <2>4, <2>6 DEF Abstract!Next, Abstract!Open
<1>2. ASSUME NEW j \in Jobs, Cancel(j) PROVE [Abstract!Next]_Durable
  <2>1. PICK u : Write(j, u)
    BY <1>2 DEF Cancel
  <2>2. mem[j] # NoJob /\ saved[j] # NoJob /\ ~Finished(saved[j]) /\ j \notin pruned
        /\ pruned' = pruned
    BY <1>2 DEF Cancel, WorkInv, Books, Agree, rest, kept
  <2>3. /\ saved'[j] = u /\ mem'[j] = u /\ \A k \in Jobs : k # j => saved'[k] = saved[k]
    BY <2>1 DEF WorkInv, Tables, Write
  <2>4. calls[j] \in {"entered", "answered"}
    BY <2>2 DEF WorkInv, Books
  <2>5. u # NoJob
    <3>1. mem[j] \in Record(j)
      BY <2>2 DEF WorkInv, Tables
    <3> DEFINE told == [mem[j] EXCEPT !.cancel = TRUE]
               t == [i \in JobItems[j] |->
                       IF told.item[i] \in FinalItem THEN told.item[i] ELSE "cancelled"]
               ended == Ended(told, t)
               v == IF mem[j].status = "queued" /\ worker.job # j THEN ended ELSE told
    <3>2. told \in Record(j) /\ SameWork(mem[j], told)
      BY <3>1, CancelStep
    <3>3. t \in [JobItems[j] -> {"pending", "removing"} \cup FinalItem]
      BY <3>1, <3>2 DEF Record, FinalItem
    <3> HIDE DEF told, t
    <3>4. ended \in Record(j)
      BY <3>2, <3>3, EndedStep
    <3>5. v \in Record(j)
      BY <3>2, <3>4
    <3>6. Write(j, v)
      BY <1>2 DEF Cancel, told, t, Ended
    <3> HIDE DEF v
    <3>7. QED
      BY <2>3, <3>5, <3>6, WriteStep DEF WorkInv
  <2>6. /\ Durable[j] = "open" /\ Durable'[j] \in {"open", "closed"}
        /\ \A k \in Jobs : k # j => Durable'[k] = Durable[k]
    BY <2>2, <2>3, <2>5 DEF Durable
  <2>7. Durable = [k \in Jobs |-> Durable[k]] /\ Durable' = [k \in Jobs |-> Durable'[k]]
    BY DEF Durable
  <2> HIDE DEF Durable
  <2>8. CASE Durable'[j] = "open"
    <3>1. Durable' = Durable
      BY <2>6, <2>7, <2>8
    <3>2. QED
      BY <3>1
  <2>9. CASE Durable'[j] = "closed"
    <3>1. Durable' = [Durable EXCEPT ![j] = "closed"]
      BY <2>6, <2>7, <2>9
    <3>2. QED
      BY <2>6, <3>1 DEF Abstract!Next, Abstract!Close
  <2>10. QED
    BY <2>6, <2>8, <2>9
<1>3. ASSUME NEW j \in Jobs, Plan(j) \/ EnsureWorker(j) PROVE [Abstract!Next]_Durable
  BY <1>s, <1>3 DEF Plan, EnsureWorker
<1>4. CASE Pick \/ CopySome \/ CopyAll \/ Place \/ Settle \/ Promise \/ FileGone
           \/ WorkerDies \/ BadBlock \/ LibraryRestarts \/ Crash
           \/ \E f \in Files : Meddle(f) \/ LibraryWrites(f)
  BY <1>s, <1>4 DEF Pick, CopySome, CopyAll, Place, Settle, Promise, FileGone, WorkerDies,
     BadBlock, Meddle, LibraryRestarts, Crash, LibraryWrites, ToCancel, rest, kept
<1>20. CASE Resume
  <2>1. PICK Lost \in SUBSET Ends, at \in {"none", "pick"} : Reload("queued", Lost, at)
    BY <1>20 DEF Resume
  <2>2. Durable' = Durable
    BY <2>1 DEF Reload, Ends, Durable
  <2>3. QED
    BY <2>2
<1>21. CASE Prune
  <2>1. CASE UNCHANGED <<mem, saved, pruned>>
    BY <1>s, <2>1
  <2>2. ASSUME NEW j \in Jobs, mem[j] # NoJob, saved' = [saved EXCEPT ![j] = NoJob],
               pruned' = pruned \cup {j}
        PROVE  [Abstract!Next]_Durable
    <3>1. saved[j] # NoJob /\ j \notin pruned
      BY <2>2 DEF WorkInv, Books
    <3>2. \A k \in Jobs : k # j => saved'[k] = saved[k]
      BY <2>2 DEF WorkInv, Tables
    <3>3. /\ Durable[j] \in {"open", "closed"} /\ Durable'[j] = "closed"
          /\ \A k \in Jobs : k # j => Durable'[k] = Durable[k]
      BY <2>2, <3>1, <3>2 DEF Durable
    <3>4. Durable = [k \in Jobs |-> Durable[k]] /\ Durable' = [k \in Jobs |-> Durable'[k]]
      BY DEF Durable
    <3> HIDE DEF Durable
    <3>5. CASE Durable[j] = "closed"
      <4>1. Durable' = Durable
        BY <3>3, <3>4, <3>5
      <4>2. QED
        BY <4>1
    <3>6. CASE Durable[j] = "open"
      <4>1. Durable' = [Durable EXCEPT ![j] = "closed"]
        BY <3>3, <3>4, <3>6
      <4>2. QED
        BY <3>6, <4>1 DEF Abstract!Next, Abstract!Close
    <3>7. QED
      BY <3>3, <3>5, <3>6
  <2>3. QED
    BY <1>21, <2>1, <2>2 DEF Prune
<1>5. CASE Begin
  BY <1>5, <1>c, WroteGo DEF Begin, At, JobSteps, rest, kept
<1>6. CASE NextItem
  BY <1>6, <1>s, WroteGo DEF NextItem, At, JobSteps, rest, kept
<1>7. CASE Scan
  BY <1>7, <1>k, WroteGo DEF Scan, At, JobSteps, ItemSteps, rest, kept
<1>8. CASE Bring
  BY <1>8, <1>s, <1>k, <1>c DEF Bring, At, JobSteps, ItemSteps, rest, kept
<1>9. CASE Check \/ Mark
  BY <1>9, WroteGo DEF Check, Mark, At, JobSteps, ItemSteps, rest, kept
<1>10. CASE Prove
  BY <1>10, <1>s, <1>k, <1>c DEF Prove, At, JobSteps, ItemSteps, rest, kept
<1>11. CASE Keep
  BY <1>11, <1>k, WroteGo DEF Keep, At, JobSteps, ItemSteps, rest, kept
<1>12. CASE Remove
  BY <1>12, <1>s, WroteGo DEF Remove, Close, At, JobSteps, ItemSteps, rest, kept
<1>13. CASE CancelItem
  <2>1. worker.at = "cancel" /\ worker.at \in JobSteps
    BY <1>13 DEF CancelItem, At, JobSteps, rest, kept
  <2>2. CASE Go("promise")
    BY <1>13, <2>1, <2>2, WroteGo DEF CancelItem, Close, rest, kept
  <2>3. CASE UNCHANGED worker
    <3>1. PICK u : Write(J, u) /\ pruned' = pruned
      BY <1>13 DEF CancelItem, Close, rest, kept
    <3>2. worker'.job = J /\ worker'.at \in JobSteps
      BY <2>1, <2>3 DEF J
    <3>3. QED
      BY <2>1, <3>1, <3>2, WroteStep
  <2>4. QED
    BY <1>13, <2>2, <2>3 DEF CancelItem, rest, kept
<1>14. CASE Wait
  <2>1. Entry(I) \in JobSteps
    BY DEF Entry, JobSteps, ItemSteps
  <2>2. QED
    BY <1>14, <1>c, <2>1, WroteGo DEF Wait, At, JobSteps, ItemSteps, rest, kept
<1>15. CASE Trouble
  BY <1>15, <1>k, WroteGo DEF Trouble, JobSteps, ItemSteps, rest, kept
<1>16. CASE Breaks
  BY <1>16, WroteGo DEF Breaks, Carrying, Steps, JobSteps, ItemSteps, rest, kept
<1>17. CASE UnlinkFails
  BY <1>17, <1>k DEF UnlinkFails, At, JobSteps, ItemSteps, rest, kept
<1>18. CASE UNCHANGED vars
  BY <1>18, <1>s DEF vars, rest, kept
<1>19. QED
  BY <1>1, <1>2, <1>3, <1>4, <1>5, <1>6, <1>7, <1>8, <1>9, <1>10, <1>11, <1>12, <1>13, <1>14,
     <1>15, <1>16, <1>17, <1>18, <1>20, <1>21 DEF Next, Work

\* A job on disk is entered once and ends once, and what has ended is never run again:
\* not by a resume, a late cancel, or a worker that held it.
THEOREM MovesImplementJobs == Spec => ImplementsJobs
<1>1. Init => Abstract!Init
  BY DEF Init, Abstract!Init, Durable
<1>2. WorkInv /\ WorkInv' /\ [Next]_vars => [Abstract!Next]_Durable
  BY JobsStep
<1>3. QED
  BY <1>1, <1>2, WorkInvariant, PTL DEF Spec, ImplementsJobs, Abstract!Spec

-----------------------------------------------------------------------------
(* The files.                                                              *)

LEMMA FilesInit == Init => FilesInv
<1> SUFFICES ASSUME Init PROVE FilesInv
  OBVIOUS
<1>1. PlaceTrue
  BY DEF Init, NoThread, PlaceTrue
<1>2. RecordsTrue /\ StartedDone /\ NothingLate /\ RemovedSafe /\ FreshKnown
  BY DEF Init, RecordsTrue, StartedDone, NothingLate, RemovedSafe, FreshKnown
<1>5. RemoveTrue /\ OddTrue
  BY MovesAssumption DEF Init, NoThread, RemoveTrue, OddTrue
<1>3. CopiesTrue
  BY DEF Init, CopiesTrue
<1>4. QED
  BY <1>1, <1>2, <1>3, <1>5 DEF FilesInv

\* What no step takes back: a listed original that is gone, a copy that is safe, a name that
\* is the job's own; and a file becomes one that may be lost before it has its name.
DiskForward ==
    \A f \in Files :
        /\ src[f] = "gone" /\ f \in Listed => src'[f] = "gone"
        /\ Safe(f) => dst'[f] = "planned" /\ f \notin fresh'
        /\ dst[f] # "other" => dst'[f] # "other"
        /\ f \in fresh' /\ dst'[f] # "none" =>
               f \in fresh /\ (dst[f] # "none" \/ (worker.at = "place" /\ f = F))

LEMMA DiskStep ==
    ASSUME WorkInv, Placing, FilesInv, Next
    PROVE  DiskForward /\ CopiesTrue' /\ RemovedSafe' /\ NothingLate' /\ OddTrue'
<1>0. DiskOK /\ CopiesTrue /\ RemovedSafe /\ NothingLate /\ PlaceTrue /\ RemoveTrue /\ OddTrue
  BY WorkParts DEF FilesInv
<1>o. Odd \subseteq Files
  BY MovesAssumption
<1>q. ASSUME src' = src, dst' = dst, fresh' = fresh, removed' = removed, touched' = touched
      PROVE  DiskForward /\ CopiesTrue' /\ RemovedSafe' /\ NothingLate' /\ OddTrue'
  <2>1. DiskForward
    BY <1>q DEF DiskForward, Safe
  <2>2. QED
    BY <1>0, <1>q, <2>1 DEF CopiesTrue, RemovedSafe, NothingLate, OddTrue, Safe
<1>1. ASSUME NEW j \in Jobs, Plan(j) \/ Enter(j) \/ EnsureWorker(j) \/ Cancel(j)
      PROVE  DiskForward /\ CopiesTrue' /\ RemovedSafe' /\ NothingLate' /\ OddTrue'
  BY <1>1, <1>q DEF Plan, Enter, EnsureWorker, Cancel, disk, rest, kept
<1>2. CASE Pick \/ Prune \/ Begin \/ NextItem \/ Scan \/ Bring \/ CopySome \/ Check \/ Mark
           \/ Settle \/ Keep \/ CancelItem \/ Promise \/ Wait \/ FileGone
  <2>1. CASE Pick \/ Prune \/ Begin \/ NextItem \/ CopySome \/ Check \/ Mark
    BY <2>1, <1>q DEF Pick, Prune, Begin, NextItem, CopySome, Check, Mark, ToCancel, disk, rest, kept
  <2>2. CASE Scan \/ Bring \/ Settle \/ Keep
    BY <2>2, <1>q DEF Scan, Bring, Settle, Keep, ToCancel, Skip, disk, rest, kept
  <2>3. CASE CancelItem \/ Promise \/ Wait \/ FileGone
    BY <2>3, <1>q DEF CancelItem, Promise, Wait, FileGone, ToCancel, disk, rest, kept
  <2>4. QED
    BY <1>2, <2>1, <2>2, <2>3
<1>3. CASE Prove
  BY <1>3, <1>q DEF Prove, ToCancel, Skip, disk, rest, kept
<1>4. CASE Trouble \/ Breaks \/ WorkerDies \/ UnlinkFails \/ BadBlock \/ Crash \/ Resume
  BY <1>4, <1>q DEF Trouble, Breaks, WorkerDies, UnlinkFails, BadBlock, Crash, Resume, Reload, Skip, disk, rest, kept
<1>5. CASE CopyAll
  <2>1. CASE ToCancel
    BY <1>5, <2>1, <1>q DEF CopyAll, ToCancel, disk, rest, kept
  <2>2. CASE ~ToCancel
    <3>1. /\ src' = src /\ dst' = dst /\ removed' = removed /\ worker.at = "copy"
          /\ touched' = touched
          /\ fresh' = IF ToLibrary THEN fresh \cup {F} ELSE fresh
      BY <1>5, <2>2 DEF CopyAll, At, rest, kept
    <3>2. dst[F] = "none"
      BY <1>0, <3>1 DEF PlaceTrue
    <3>3. QED
      BY <1>0, <3>1, <3>2
      DEF DiskForward, CopiesTrue, RemovedSafe, NothingLate, OddTrue, Safe
  <2>3. QED
    BY <2>1, <2>2
<1>6. CASE Place
  <2>1. /\ src' = src /\ fresh' = fresh /\ removed' = removed /\ worker.at = "place"
        /\ touched' = touched
        /\ dst' = [dst EXCEPT ![F] = part[F]] /\ Copied # "none"
    BY <1>6 DEF Place, At, rest, kept
  <2>2. F \in Files
    BY <2>1, HoldsTypes DEF FileSteps
  <2>3. dst[F] = "none" /\ part[F] \in Versions /\ (part[F] = "edited" => src[F] = "edited")
    BY <1>0, <2>1 DEF Placing, Copied, PlaceTrue
  <2>4. dst'[F] = part[F] /\ \A f \in Files : f # F => dst'[f] = dst[f]
    BY <1>0, <2>1, <2>2 DEF DiskOK
  <2>5. \A f \in Files \ (touched \cup Odd) : removed[f] # "none" => f # F
    BY <1>0, <2>3 DEF RemovedSafe, Safe
  <2>6. RemovedSafe' /\ NothingLate' /\ OddTrue' /\ CopiesTrue'
    BY <1>0, <2>1, <2>3, <2>4, <2>5 DEF CopiesTrue, RemovedSafe, NothingLate, OddTrue, Safe
  <2>7. DiskForward
    BY <1>0, <2>1, <2>3, <2>4 DEF DiskForward, Safe, Versions
  <2>8. QED
    BY <2>6, <2>7
<1>7. CASE Remove
  <2>0. worker.at = "remove" /\ touched' = touched
    BY <1>7 DEF Remove, At, rest, kept
  <2>1. ASSUME NEW g \in Doomed, src' = [src EXCEPT ![g] = "gone"],
               removed' = [removed EXCEPT ![g] = src[g]], UNCHANGED <<part, dst, fresh>>
        PROVE  DiskForward /\ CopiesTrue' /\ RemovedSafe' /\ NothingLate' /\ OddTrue'
    <3>1. g \in Files /\ src[g] # "gone" /\ g \in Reach
      BY <2>0, <2>1, DoomedStands
    <3>2. dst[g] # "edited"
      BY <1>0, <2>0, <3>1 DEF RemoveTrue
    <3>3. g \notin touched \cup Odd => src[g] = "planned" /\ Safe(g)
      BY <1>0, <2>0, <3>1 DEF RemoveTrue, PlaceTrue
    <3>4. src'[g] = "gone" /\ \A f \in Files : f # g => src'[f] = src[f]
      BY <1>0, <2>1, <3>1 DEF DiskOK
    <3>5. removed'[g] = src[g] /\ \A f \in Files : f # g => removed'[f] = removed[f]
      BY <1>0, <2>1, <3>1 DEF DiskOK
    <3>6. DiskForward
      BY <2>1, <3>4 DEF DiskForward, Safe
    <3>7. CopiesTrue' /\ NothingLate' /\ OddTrue'
      BY <1>0, <1>o, <2>1, <3>2, <3>4 DEF CopiesTrue, NothingLate, OddTrue
    <3>8. RemovedSafe'
      BY <1>0, <2>0, <2>1, <3>3, <3>5 DEF RemovedSafe, Safe
    <3>9. QED
      BY <3>6, <3>7, <3>8
  <2>2. CASE UNCHANGED <<src, dst, fresh, removed>>
    BY <2>0, <2>2, <1>q
  <2>3. QED
    BY <1>7, <2>1, <2>2 DEF Remove
<1>8. ASSUME NEW g \in Files, Meddle(g)
      PROVE  DiskForward /\ CopiesTrue' /\ RemovedSafe' /\ NothingLate' /\ OddTrue'
  <2>1. dst' = dst /\ fresh' = fresh /\ removed' = removed /\ touched \subseteq touched'
    BY <1>8 DEF Meddle
  <2>2. \A f \in Files : f # g => src'[f] = src[f]
    BY <1>0, <1>8 DEF Meddle, DiskOK
  <2>3. src[g] # "edited" /\ (src[g] = "gone" => g \notin Listed)
    BY <1>8 DEF Meddle
  <2>4. g \in Odd => src'[g] # "edited"
    <3>1. g \in Odd => ~Stamped(g)
      BY MovesAssumption DEF Stamped
    <3>2. QED
      BY <1>0, <1>8, <3>1 DEF Meddle, DiskOK
  <2>5. DiskForward
    BY <2>1, <2>2, <2>3 DEF DiskForward, Safe
  <2>6. CopiesTrue' /\ NothingLate'
    BY <1>0, <2>1, <2>2, <2>3 DEF CopiesTrue, NothingLate
  <2>7. RemovedSafe' /\ OddTrue'
    BY <1>0, <1>o, <2>1, <2>2, <2>4 DEF RemovedSafe, OddTrue, Safe
  <2>8. QED
    BY <2>5, <2>6, <2>7
<1>9. CASE LibraryRestarts
  <2>1. src' = src /\ removed' = removed /\ touched' = touched /\ fresh' = {}
    BY <1>9 DEF LibraryRestarts, kept
  <2>2. \A f \in Files : IF f \in fresh THEN dst'[f] = "none" ELSE dst'[f] = dst[f]
    BY <1>9 DEF LibraryRestarts
  <2>3. QED
    BY <1>0, <1>o, <2>1, <2>2
    DEF DiskForward, CopiesTrue, RemovedSafe, NothingLate, OddTrue, Safe
<1>10. ASSUME NEW f \in Files, LibraryWrites(f)
       PROVE  DiskForward /\ CopiesTrue' /\ RemovedSafe' /\ NothingLate' /\ OddTrue'
  BY <1>0, <1>10 DEF rest, kept, LibraryWrites, DiskForward, CopiesTrue, RemovedSafe, NothingLate, OddTrue, Safe
<1>11. QED
  BY <1>1, <1>2, <1>3, <1>4, <1>5, <1>6, <1>7, <1>8, <1>9, <1>10 DEF Next, Work

\* What no step takes back of a record on disk.
Advance ==
    /\ pruned \subseteq pruned'
    /\ \A j \in Jobs : saved[j] # NoJob /\ j \notin pruned' =>
        /\ saved'[j] # NoJob /\ saved[j].copied \subseteq saved'[j].copied
        /\ \A i \in JobItems[j] : saved[j].item[i] = "done" => saved'[j].item[i] = "done"

\* A record that says no more than was true, and what has become so.
LEMMA RecordKeeps ==
    ASSUME DiskForward, NEW j \in Jobs, NEW r \in Record(j), RecordTrue(j, r), r = saved[j],
           r # NoJob, NEW u,
           \A i \in JobItems[j] : u.files[i] \subseteq ItemFiles[i],
           \A i \in JobItems[j] : u.item[i] = "done" =>
               \/ r.item[i] = "done" /\ u.files[i] = r.files[i]
               \/ \A f \in u.files[i] : src'[f] = "gone" /\ Safe(f)',
           \A f \in u.proven : f \in r.proven \/ dst'[f] # "other"
    PROVE  RecordTrue(j, u)'
<1>1. r.proven \subseteq Files /\ \A i \in JobItems[j] : r.files[i] \subseteq Files
  BY DEF Record
<1>2. ASSUME NEW i \in JobItems[j], u.item[i] = "done", NEW f \in u.files[i]
      PROVE  src'[f] = "gone" /\ Safe(f)'
  <2>1. CASE r.item[i] = "done" /\ u.files[i] = r.files[i]
    <3>1. f \in Files /\ src[f] = "gone" /\ Safe(f) /\ f \in Listed
      BY <1>1, <1>2, <2>1 DEF RecordTrue, Listed
    <3>2. QED
      BY <3>1 DEF DiskForward, Safe
  <2>2. QED
    BY <1>2, <2>1
<1>3. ASSUME NEW f \in u.proven PROVE dst'[f] # "other"
  BY <1>1, <1>3 DEF RecordTrue, DiskForward
<1>4. QED
  BY <1>2, <1>3 DEF RecordTrue

LEMMA SavedTrue ==
    ASSUME DiskForward, NEW j \in Jobs, saved[j] \in Record(j), RecordTrue(j, saved[j]),
           saved'[j] = saved[j], saved[j] # NoJob
    PROVE  RecordTrue(j, saved[j])'
<1>1. PICK r : r = saved[j]
  OBVIOUS
<1>2. r \in Record(j) /\ RecordTrue(j, r)
  BY <1>1
<1>3. \A i \in JobItems[j] : r.files[i] \subseteq ItemFiles[i]
  BY <1>2 DEF RecordTrue
<1>4. RecordTrue(j, r)'
  BY <1>1, <1>2, <1>3, RecordKeeps
<1>5. QED
  BY <1>1, <1>4 DEF RecordTrue

LEMMA NothingWritten ==
    ASSUME WorkInv, FilesInv, DiskForward, saved' = saved, pruned' = pruned
    PROVE  RecordsTrue' /\ Advance
<1>1. \A j \in Jobs : saved[j] # NoJob => RecordTrue(j, saved[j]) /\ saved[j] \in Record(j)
  BY DEF FilesInv, RecordsTrue, WorkInv, Tables
<1>2. RecordsTrue'
  BY <1>1, SavedTrue DEF RecordsTrue
<1>3. Advance
  BY DEF Advance
<1>4. QED
  BY <1>2, <1>3

\* One record is written.
LEMMA RecordWritten ==
    ASSUME WorkInv, FilesInv, DiskForward, NEW j \in Jobs, mem[j] # NoJob, pruned' = pruned,
           NEW u, u # NoJob, saved'[j] = u,
           \A k \in Jobs : k # j => saved'[k] = saved[k],
           mem[j].copied \subseteq u.copied,
           \A i \in JobItems[j] : u.files[i] \subseteq ItemFiles[i],
           \A i \in JobItems[j] : mem[j].item[i] = "done" => u.item[i] = "done",
           \A i \in JobItems[j] : u.item[i] = "done" =>
               \/ mem[j].item[i] = "done" /\ u.files[i] = mem[j].files[i]
               \/ \A f \in u.files[i] : src'[f] = "gone" /\ Safe(f)',
           \A f \in u.proven : f \in mem[j].proven \/ dst'[f] # "other"
    PROVE  RecordsTrue' /\ Advance
<1>1. \A k \in Jobs : saved[k] # NoJob => RecordTrue(k, saved[k]) /\ saved[k] \in Record(k)
  BY DEF FilesInv, RecordsTrue, WorkInv, Tables
<1>2. saved[j] # NoJob /\ Agree(mem[j], saved[j])
  BY DEF WorkInv, Books
<1>3. PICK r \in Record(j) : r = saved[j]
  BY <1>1, <1>2
<1>4. RecordTrue(j, r)
  BY <1>1, <1>2, <1>3
<1>5. r.item = mem[j].item /\ r.files = mem[j].files /\ r.proven = mem[j].proven
      /\ r.copied \subseteq u.copied
  BY <1>2, <1>3 DEF Agree
<1>6. RecordTrue(j, u)'
  BY <1>2, <1>3, <1>4, <1>5, RecordKeeps
<1>7. RecordTrue(j, saved[j])'
  BY <1>6 DEF RecordTrue
<1>8. RecordsTrue'
  BY <1>1, <1>7, SavedTrue DEF RecordsTrue
<1>9. Advance
  BY <1>3, <1>5 DEF Advance
<1>10. QED
  BY <1>8, <1>9

\* What the record of a job in the process says of its files.
LEMMA MemTrue ==
    ASSUME WorkInv, FilesInv, NEW j \in Jobs, mem[j] # NoJob
    PROVE  /\ mem[j] \in Record(j) /\ saved[j] # NoJob /\ Agree(mem[j], saved[j])
           /\ RecordTrue(j, saved[j])
           /\ \A i \in JobItems[j] : mem[j].files[i] \subseteq ItemFiles[i]
<1>1. mem[j] \in Record(j) /\ saved[j] # NoJob /\ Agree(mem[j], saved[j])
  BY DEF WorkInv, Tables, Books
<1>2. RecordTrue(j, saved[j])
  BY <1>1 DEF FilesInv, RecordsTrue
<1>3. QED
  BY <1>1, <1>2 DEF Agree, RecordTrue

\* The worker writes what leaves items and files as they were.
LEMMA SameWritten ==
    ASSUME WorkInv, FilesInv, DiskForward, worker.at \in JobSteps, NEW u, Rewritten(u),
           SameWork(R, u), pruned' = pruned
    PROVE  RecordsTrue' /\ Advance
<1>1. J \in Jobs /\ mem[J] # NoJob
  BY DEF WorkInv, Holds, R
<1>2. \A i \in JobItems[J] : mem[J].files[i] \subseteq ItemFiles[i]
  BY <1>1, MemTrue
<1>3. /\ u # NoJob /\ saved'[J] = u /\ \A k \in Jobs : k # J => saved'[k] = saved[k]
      /\ u.item = mem[J].item /\ u.files = mem[J].files /\ u.proven = mem[J].proven
      /\ u.copied = mem[J].copied
  BY DEF Rewritten, SameWork, R
<1>4. QED
  BY <1>1, <1>2, <1>3, RecordWritten

LEMMA StatusWritten ==
    ASSUME WorkInv, FilesInv, DiskForward, worker.at \in JobSteps, UNCHANGED <<calls, pruned>>,
           NEW st \in {"queued", "running", "waiting"} \cup FinalJob,
           Write(J, [R EXCEPT !.status = st])
    PROVE  RecordsTrue' /\ Advance
<1>1. PICK u : Rewritten(u) /\ SameWork(R, u)
  BY StatusWrite
<1>2. QED
  BY <1>1, SameWritten

\* The worker writes where an open item is.
LEMMA ItemWritten ==
    ASSUME WorkInv, FilesInv, DiskForward, worker.at \in JobSteps, UNCHANGED <<calls, pruned>>,
           NEW i \in JobItems[J], R.item[i] \notin FinalItem,
           NEW st \in {"pending", "removing"} \cup FinalItem,
           Write(J, [R EXCEPT !.item[i] = st]),
           st = "done" => \A f \in R.files[i] : src'[f] = "gone" /\ Safe(f)'
    PROVE  RecordsTrue' /\ Advance
<1>1. J \in Jobs /\ mem[J] # NoJob
  BY DEF WorkInv, Holds, R
<1>2. \A k \in JobItems[J] : mem[J].files[k] \subseteq ItemFiles[k]
  BY <1>1, MemTrue
<1>3. PICK u : /\ Rewritten(u) /\ u.item[i] = st
               /\ \A k \in JobItems[J] : k # i => u.item[k] = R.item[k]
               /\ u.files = R.files /\ u.proven = R.proven /\ u.copied = R.copied
  BY ItemWrite
<1>4. /\ u # NoJob /\ saved'[J] = u /\ \A k \in Jobs : k # J => saved'[k] = saved[k]
      /\ u.files = mem[J].files /\ u.proven = mem[J].proven /\ u.copied = mem[J].copied
  BY <1>3 DEF Rewritten, R
<1>5. mem[J].item[i] # "done"
  BY DEF R, FinalItem
<1>6. \A k \in JobItems[J] : mem[J].item[k] = "done" => u.item[k] = "done"
  BY <1>3, <1>5 DEF R
<1>7. \A k \in JobItems[J] : u.item[k] = "done" =>
          \/ mem[J].item[k] = "done" /\ u.files[k] = mem[J].files[k]
          \/ \A f \in u.files[k] : src'[f] = "gone" /\ Safe(f)'
  <2> SUFFICES ASSUME NEW k \in JobItems[J], u.item[k] = "done"
               PROVE  \/ mem[J].item[k] = "done" /\ u.files[k] = mem[J].files[k]
                      \/ \A f \in u.files[k] : src'[f] = "gone" /\ Safe(f)'
    OBVIOUS
  <2>1. CASE k = i
    BY <1>3, <2>1
  <2>2. CASE k # i
    BY <1>3, <1>4, <2>2 DEF R
  <2>3. QED
    BY <2>1, <2>2
<1>8. QED
  BY <1>1, <1>2, <1>4, <1>6, <1>7, RecordWritten

LEMMA SkipWritten ==
    ASSUME WorkInv, FilesInv, DiskForward, worker.at \in ItemSteps, UNCHANGED <<calls, pruned>>, Skip
    PROVE  RecordsTrue' /\ Advance
<1>1. Write(J, [R EXCEPT !.item[I] = "skipped"]) /\ worker.at \in JobSteps
  BY DEF Skip, Close, JobSteps
<1>2. I \in JobItems[J] /\ R.item[I] \notin FinalItem
  BY DEF WorkInv, Holds
<1>3. "skipped" \in {"pending", "removing"} \cup FinalItem
  BY DEF FinalItem
<1>4. QED
  BY <1>1, <1>2, <1>3, ItemWritten

\* Only two steps prune.
LEMMA PrunedStays ==
    ASSUME Next
    PROVE  pruned' = pruned \/ Prune \/ Resume
BY DEF Next, Work, Plan, Enter, EnsureWorker, Cancel, Pick, Begin, NextItem, Scan, Bring,
   CopySome, CopyAll, Check, Prove, Place, Mark, Settle, Keep, Remove, CancelItem, Promise,
   Wait, FileGone, Trouble, Breaks, WorkerDies, UnlinkFails, Meddle, BadBlock,
   LibraryRestarts, Crash, LibraryWrites, rest, kept

Dropped(Lost) == \A k \in Jobs : saved'[k] = IF k \in Lost THEN NoJob ELSE saved[k]

\* A record that is pruned says nothing any more; the others stay.
LEMMA RecordsPruned ==
    ASSUME WorkInv, FilesInv, DiskForward, Prune \/ Resume
    PROVE  RecordsTrue' /\ Advance
<1>1. \A k \in Jobs : saved[k] # NoJob => RecordTrue(k, saved[k]) /\ saved[k] \in Record(k)
  BY DEF FilesInv, RecordsTrue, WorkInv, Tables
<1>2. PICK Lost \in SUBSET Jobs : /\ pruned' = pruned \cup Lost
                                 /\ Dropped(Lost)
  <2>1. CASE Prune
    <3>1. CASE UNCHANGED <<saved, pruned>>
      <4>1. {} \in SUBSET Jobs /\ pruned' = pruned \cup {} /\ Dropped({})
        BY <3>1 DEF Dropped
      <4>2. QED
        BY <4>1
    <3>2. ASSUME NEW j \in Jobs, saved' = [saved EXCEPT ![j] = NoJob], pruned' = pruned \cup {j}
          PROVE  \E Lost \in SUBSET Jobs : /\ pruned' = pruned \cup Lost
                                           /\ Dropped(Lost)
      <4>1. Dropped({j})
        BY <3>2 DEF WorkInv, Tables, Dropped
      <4>2. {j} \in SUBSET Jobs
        OBVIOUS
      <4>3. QED
        BY <3>2, <4>1, <4>2
    <3>3. QED
      BY <2>1, <3>1, <3>2 DEF Prune
  <2>2. CASE Resume
    <3>1. PICK Lost \in SUBSET Ends, at \in {"none", "pick"} : Reload("queued", Lost, at)
      BY <2>2 DEF Resume
    <3>2. Lost \in SUBSET Jobs
      BY <3>1 DEF Ends
    <3>3. QED
      BY <3>1, <3>2 DEF Reload, Dropped
  <2>3. QED
    BY <2>1, <2>2
<1>3. RecordsTrue'
  <2> SUFFICES ASSUME NEW k \in Jobs, saved'[k] # NoJob PROVE RecordTrue(k, saved[k])'
    BY DEF RecordsTrue
  <2>1. k \notin Lost
    BY <1>2 DEF Dropped
  <2>2. saved'[k] = saved[k] /\ saved[k] # NoJob
    BY <1>2, <2>1 DEF Dropped
  <2>3. QED
    BY <1>1, <2>2, SavedTrue
<1>4. Advance
  <2>1. pruned \subseteq pruned'
    BY <1>2
  <2>2. ASSUME NEW j \in Jobs, saved[j] # NoJob, j \notin pruned'
        PROVE  saved'[j] = saved[j]
    <3>1. j \notin Lost
      BY <1>2, <2>2
    <3>2. QED
      BY <1>2, <3>1 DEF Dropped
  <2>3. QED
    BY <2>1, <2>2 DEF Advance
<1>5. QED
  BY <1>3, <1>4

LEMMA RecordsKept ==
    ASSUME WorkInv, FilesInv, DiskForward, Next, pruned' = pruned, ~Prune, ~Resume
    PROVE  RecordsTrue' /\ Advance
<1>h. worker.at \in JobSteps => J \in Jobs /\ mem[J] # NoJob /\ R \in Record(J)
  BY HoldsTypes DEF WorkInv, Holds, R
<1>i. worker.at \in ItemSteps => I \in JobItems[J] /\ R.item[I] \notin FinalItem /\ I \in Items
                                 /\ worker.at \in JobSteps
  BY HoldsTypes DEF WorkInv, Holds, JobSteps
<1>c. ASSUME ToCancel PROVE RecordsTrue' /\ Advance
  BY <1>c, NothingWritten DEF ToCancel
<1>1. ASSUME NEW j \in Jobs, Plan(j) \/ EnsureWorker(j) PROVE RecordsTrue' /\ Advance
  BY <1>1, NothingWritten DEF Plan, EnsureWorker
<1>2. ASSUME NEW j \in Jobs, Enter(j) PROVE RecordsTrue' /\ Advance
  <2>1. saved[j] = NoJob /\ Tables
    BY <1>2 DEF WorkInv, Books, Enter
  <2>2. PICK u : u = NewRecord(j)
    OBVIOUS
  <2>3. /\ u \in Record(j) /\ u.item = [i \in JobItems[j] |-> "pending"] /\ u.proven = {}
        /\ u.files = [i \in JobItems[j] |-> IF i \in Folders THEN {} ELSE ItemFiles[i]]
    BY <2>2, NewStep
  <2>4. saved'[j] = u /\ \A k \in Jobs : k # j => saved'[k] = saved[k]
    BY <1>2, <2>1, <2>2, <2>3, WriteStep DEF Enter
  <2>5. RecordTrue(j, u)'
    BY <2>3 DEF RecordTrue
  <2>6. RecordTrue(j, saved[j])'
    BY <2>4, <2>5 DEF RecordTrue
  <2>7. \A k \in Jobs : saved[k] # NoJob => RecordTrue(k, saved[k]) /\ saved[k] \in Record(k)
    BY DEF FilesInv, RecordsTrue, WorkInv, Tables
  <2>8. RecordsTrue'
    BY <2>4, <2>6, <2>7, SavedTrue DEF RecordsTrue
  <2>9. Advance
    BY <2>1, <2>4 DEF Advance
  <2>10. QED
    BY <2>8, <2>9
<1>3. ASSUME NEW j \in Jobs, Cancel(j) PROVE RecordsTrue' /\ Advance
  <2> DEFINE told == [mem[j] EXCEPT !.cancel = TRUE]
             t == [i \in JobItems[j] |->
                     IF told.item[i] \in FinalItem THEN told.item[i] ELSE "cancelled"]
             ended == Ended(told, t)
             u == IF mem[j].status = "queued" /\ worker.job # j THEN ended ELSE told
  <2>1. mem[j] # NoJob
    BY <1>3 DEF Cancel
  <2>2. mem[j] \in Record(j) /\ \A i \in JobItems[j] : mem[j].files[i] \subseteq ItemFiles[i]
    BY <2>1, MemTrue
  <2>3. told \in Record(j) /\ SameWork(mem[j], told)
    BY <2>2, CancelStep
  <2>4. /\ t \in [JobItems[j] -> {"pending", "removing"} \cup FinalItem]
        /\ \A i \in JobItems[j] : t[i] = "done" <=> told.item[i] = "done"
    BY <2>2, <2>3 DEF Record, FinalItem
  <2>5. Write(j, u)
    BY <1>3 DEF Cancel, Ended
  <2> HIDE DEF told, t
  <2>6. /\ ended \in Record(j) /\ ended.item = t /\ ended.files = told.files
        /\ ended.proven = told.proven /\ ended.copied = told.copied
    BY <2>3, <2>4, EndedStep
  <2> HIDE DEF ended
  <2>7. /\ u \in Record(j) /\ u.files = mem[j].files /\ u.proven = mem[j].proven
        /\ u.copied = mem[j].copied
    BY <2>3, <2>6 DEF SameWork
  <2>8. \A i \in JobItems[j] : u.item[i] = "done" <=> mem[j].item[i] = "done"
    BY <2>3, <2>4, <2>6 DEF SameWork
  <2> HIDE DEF u
  <2>9. /\ u # NoJob /\ saved'[j] = u /\ \A k \in Jobs : k # j => saved'[k] = saved[k]
    BY <2>5, <2>7, WriteStep DEF WorkInv
  <2>10. QED
    BY <2>1, <2>2, <2>7, <2>8, <2>9, RecordWritten
<1>4. CASE Pick \/ CopySome \/ CopyAll \/ Place \/ Settle \/ Promise \/ FileGone
           \/ WorkerDies \/ BadBlock \/ LibraryRestarts \/ Crash
           \/ \E f \in Files : Meddle(f) \/ LibraryWrites(f)
  <2>1. saved' = saved
    BY <1>4 DEF Pick, CopySome, CopyAll, Place, Settle, Promise, FileGone,
       WorkerDies, BadBlock, Meddle, LibraryRestarts, Crash, LibraryWrites, ToCancel
  <2>2. QED
    BY <2>1, NothingWritten
<1>5. CASE Begin
  BY <1>5, <1>c, StatusWritten DEF Begin, At, JobSteps, rest, kept
<1>6. CASE NextItem
  <2>1. CASE UNCHANGED saved
    BY <2>1, NothingWritten
  <2>2. CASE Write(J, [R EXCEPT !.status = "done"])
    BY <1>6, <2>2, StatusWritten DEF NextItem, At, JobSteps, rest, kept, FinalJob
  <2>3. QED
    BY <1>6, <2>1, <2>2 DEF NextItem
<1>7. CASE Scan
  <2>1. worker.at \in ItemSteps /\ UNCHANGED <<calls, pruned>>
    BY <1>7 DEF Scan, At, ItemSteps, rest, kept
  <2>2. CASE Skip
    BY <2>1, <2>2, SkipWritten
  <2>3. CASE Write(J, [R EXCEPT !.files[I] = There(I), !.scanned = @ \cup {I}])
    <3>1. PICK S : S = There(I)
      OBVIOUS
    <3>2. S \in SUBSET Files /\ S \subseteq ItemFiles[I]
      BY <1>i, <2>1, <3>1, MovesAssumption DEF There
    <3> DEFINE u == Scanned(R, I, S)
    <3>3. /\ u \in Record(J) /\ u.item = R.item /\ u.files[I] = S
          /\ \A k \in JobItems[J] : k # I => u.files[k] = R.files[k]
          /\ u.proven = R.proven /\ u.copied = R.copied
      BY <1>h, <1>i, <2>1, <3>2, ScanStep
    <3>4. Write(J, u)
      BY <2>3, <3>1 DEF Scanned
    <3> HIDE DEF u
    <3>5. Rewritten(u)
      BY <1>i, <2>1, <3>3, <3>4, RewriteStep
    <3>6. /\ u # NoJob /\ saved'[J] = u /\ \A k \in Jobs : k # J => saved'[k] = saved[k]
      BY <3>5 DEF Rewritten
    <3>7. \A k \in JobItems[J] : u.files[k] \subseteq ItemFiles[k]
      BY <1>h, <1>i, <2>1, <3>2, <3>3, MemTrue DEF R
    <3>8. \A k \in JobItems[J] : u.item[k] = "done" =>
              mem[J].item[k] = "done" /\ u.files[k] = mem[J].files[k]
      BY <1>i, <2>1, <3>3 DEF R, FinalItem
    <3>9. /\ mem[J].copied \subseteq u.copied /\ u.proven = mem[J].proven
          /\ u.item = mem[J].item
      BY <3>3 DEF R
    <3>10. QED
      BY <1>h, <1>i, <2>1, <3>6, <3>7, <3>8, <3>9, RecordWritten
  <2>4. QED
    BY <1>7, <2>2, <2>3 DEF Scan
<1>8. CASE Bring \/ Prove
  <2>1. worker.at \in ItemSteps /\ UNCHANGED <<calls, pruned>>
    BY <1>8 DEF Bring, Prove, At, ItemSteps, rest, kept
  <2>2. CASE Skip
    BY <2>1, <2>2, SkipWritten
  <2>3. CASE UNCHANGED saved
    BY <2>3, NothingWritten
  <2>4. QED
    BY <1>8, <1>c, <2>2, <2>3 DEF Bring, Prove
<1>9. CASE Check
  <2>1. worker.at \in JobSteps /\ UNCHANGED <<calls, pruned>> /\ Write(J, R)
    BY <1>9 DEF Check, At, JobSteps, ItemSteps, rest, kept
  <2>2. Rewritten(R)
    BY <1>h, <2>1, RewriteStep
  <2>3. PICK u : u = R
    OBVIOUS
  <2>4. Rewritten(u) /\ SameWork(R, u)
    BY <2>2, <2>3 DEF SameWork
  <2>5. QED
    BY <2>1, <2>4, SameWritten
<1>10. CASE Mark
  <2>1. /\ worker.at = "mark" /\ worker.at \in JobSteps /\ worker.at \in FileSteps
        /\ UNCHANGED <<calls, pruned>> /\ dst' = dst
    BY <1>10 DEF Mark, At, JobSteps, ItemSteps, FileSteps, rest, kept, disk
  <2> DEFINE u == [R EXCEPT !.proven = @ \cup {F}]
  <2>2. /\ u \in Record(J) /\ u.item = R.item /\ u.files = R.files
        /\ u.proven = R.proven \cup {F} /\ u.copied = R.copied
    BY <1>h, <2>1, HoldsTypes, ProvenStep
  <2> HIDE DEF u
  <2>3. Rewritten(u)
    BY <1>10, <2>1, <2>2, RewriteStep DEF Mark, u
  <2>4. /\ u # NoJob /\ saved'[J] = u /\ \A k \in Jobs : k # J => saved'[k] = saved[k]
    BY <2>3 DEF Rewritten
  <2>5. \A f \in u.proven : f \in mem[J].proven \/ dst'[f] # "other"
    BY <2>1, <2>2 DEF FilesInv, PlaceTrue, R
  <2>6. \A k \in JobItems[J] : u.files[k] \subseteq ItemFiles[k]
    BY <1>h, <2>1, <2>2, MemTrue DEF R
  <2>7. u.item = mem[J].item /\ u.files = mem[J].files /\ u.copied = mem[J].copied
    BY <2>2 DEF R
  <2>8. QED
    BY <1>h, <2>1, <2>4, <2>5, <2>6, <2>7, RecordWritten
<1>11. CASE Keep
  <2>1. worker.at \in ItemSteps /\ UNCHANGED <<calls, pruned>>
    BY <1>11 DEF Keep, At, ItemSteps, rest, kept
  <2>2. CASE Skip
    BY <2>1, <2>2, SkipWritten
  <2>3. CASE Write(J, [R EXCEPT !.item[I] = "removing"])
    BY <1>i, <2>1, <2>3, ItemWritten
  <2>4. QED
    BY <1>11, <2>2, <2>3 DEF Keep
<1>12. CASE Remove
  <2>1. worker.at = "remove" /\ worker.at \in ItemSteps /\ UNCHANGED <<calls, pruned>>
    BY <1>12 DEF Remove, At, ItemSteps, rest, kept
  <2>2. CASE UNCHANGED saved
    BY <2>2, NothingWritten
  <2>3. CASE Standing = {} /\ Close(I, "done") /\ UNCHANGED <<src, dst, fresh>>
    <3>1. Write(J, [R EXCEPT !.item[I] = "done"])
      BY <2>3 DEF Close
    <3>0. R.files[I] \subseteq ItemFiles[I]
      BY <1>h, <1>i, <2>1, MemTrue DEF R
    <3>2. \A f \in R.files[I] : src'[f] = "gone" /\ Safe(f)'
      BY <2>1, <2>3, <3>0 DEF Standing, There, FilesInv, PlaceTrue, Safe
    <3>3. QED
      BY <1>i, <2>1, <3>1, <3>2, ItemWritten DEF FinalItem
  <2>4. QED
    BY <1>12, <2>2, <2>3 DEF Remove
<1>13. CASE CancelItem
  <2>1. worker.at \in JobSteps /\ UNCHANGED <<calls, pruned>>
    BY <1>13 DEF CancelItem, At, JobSteps, rest, kept
  <2>2. CASE Write(J, [R EXCEPT !.status = "cancelled"])
    BY <2>1, <2>2, StatusWritten DEF FinalJob
  <2>3. CASE OpenItems # {} /\ Close(First(OpenItems), "cancelled")
    <3>1. OpenItems \in SUBSET Nat
      BY <1>h, <2>1, MovesAssumption DEF OpenItems
    <3>2. PICK i : i = First(OpenItems)
      OBVIOUS
    <3>3. i \in JobItems[J] /\ R.item[i] \notin FinalItem
      BY <2>3, <3>1, <3>2, FirstIn DEF OpenItems
    <3>4. Write(J, [R EXCEPT !.item[i] = "cancelled"])
      BY <2>3, <3>2 DEF Close
    <3>5. "cancelled" \in {"pending", "removing"} \cup FinalItem
      BY DEF FinalItem
    <3>6. QED
      BY <2>1, <3>3, <3>4, <3>5, ItemWritten
  <2>4. QED
    BY <1>13, <2>2, <2>3 DEF CancelItem
<1>14. CASE Wait
  BY <1>14, <1>c, StatusWritten DEF Wait, At, JobSteps, ItemSteps, rest, kept
<1>15. CASE Trouble
  <2>1. worker.at \in ItemSteps /\ worker.at \in JobSteps /\ UNCHANGED <<calls, pruned>>
    BY <1>15 DEF Trouble, JobSteps, ItemSteps, kept
  <2>2. QED
    BY <1>15, <2>1, SkipWritten, StatusWritten DEF Trouble
<1>16. CASE Breaks
  BY <1>16, StatusWritten DEF Breaks, Carrying, Steps, JobSteps, ItemSteps, FinalJob, kept
<1>17. CASE UnlinkFails
  BY <1>17, SkipWritten DEF UnlinkFails, At, ItemSteps, kept
<1>18. QED
  BY <1>1, <1>2, <1>3, <1>4, <1>5, <1>6, <1>7, <1>8, <1>9, <1>10, <1>11, <1>12, <1>13, <1>14,
     <1>15, <1>16, <1>17 DEF Next, Work

LEMMA RecordsStep ==
    ASSUME WorkInv, FilesInv, DiskForward, Next
    PROVE  RecordsTrue' /\ Advance
BY PrunedStays, RecordsPruned, RecordsKept

\* What the library may still lose stays known to the job that copied it.  This is where
\* two jobs with one file would part: the second finds the copy of the first, has no
\* time of its own to wait for, and removes the original before the library wrote it.
LEMMA FreshStep ==
    ASSUME WorkInv, FilesInv, DiskForward, Advance, ToLibrary => Apart
    PROVE  FreshKnown'
<1> SUFFICES ASSUME NEW j \in Jobs, NEW f \in Wants(j), f \in fresh', dst'[f] # "none"
             PROVE  j \in pruned' \/ (saved'[j] # NoJob /\ f \in saved'[j].copied)
  BY DEF FreshKnown
<1>1. f \in Files
  <2>1. PICK i \in JobItems[j] : f \in ItemFiles[i]
    BY DEF Wants
  <2>2. i \in Items
    BY <2>1, MovesAssumption
  <2>3. QED
    BY <2>1, <2>2, MovesAssumption
<1>2. f \in fresh /\ (dst[f] # "none" \/ (worker.at = "place" /\ f = F))
  BY <1>1 DEF DiskForward
<1>3. j \in pruned \/ (saved[j] # NoJob /\ f \in saved[j].copied)
  <2>1. CASE dst[f] # "none"
    BY <1>2, <2>1 DEF FilesInv, FreshKnown
  <2>2. CASE worker.at = "place" /\ f = F
    <3>1. J \in Jobs /\ mem[J] # NoJob /\ I \in JobItems[J] /\ F \in mem[J].files[I]
          /\ saved[J] # NoJob
      BY <2>2, HoldsTypes DEF WorkInv, Holds, R, JobSteps, ItemSteps, FileSteps
    <3>2. F \in ItemFiles[I]
      BY <3>1, MemTrue
    <3>3. F \in Wants(J)
      BY <3>1, <3>2 DEF Wants
    <3>4. ToLibrary
      BY <1>2, MovesAssumption DEF FilesInv, NothingLate
    <3>5. j = J
      BY <2>2, <3>1, <3>3, <3>4 DEF Apart
    <3>6. F \in saved[J].copied
      BY <1>2, <2>2 DEF FilesInv, PlaceTrue
    <3>7. QED
      BY <2>2, <3>1, <3>5, <3>6
  <2>3. QED
    BY <1>2, <2>1, <2>2
<1>4. QED
  BY <1>3 DEF Advance

LEMMA StartedStep ==
    ASSUME WorkInv, FilesInv, Advance, Next
    PROVE  StartedDone'
<1>1. started \subseteq Jobs
  BY DEF WorkInv, TypeOK
<1>2. ASSUME NEW j \in Jobs, saved[j] # NoJob, j \notin pruned',
             \A i \in JobItems[j] : saved[j].item[i] = "done"
      PROVE  saved'[j] # NoJob /\ \A i \in JobItems[j] : saved'[j].item[i] = "done"
  BY <1>2 DEF Advance
<1>0. pruned \subseteq pruned'
  BY DEF Advance
<1>3. CASE started' = started
  BY <1>0, <1>1, <1>2, <1>3 DEF FilesInv, StartedDone
<1>4. CASE Promise
  <2>1. J \in Jobs /\ mem[J] # NoJob
    BY <1>4 DEF Promise, At, WorkInv, Holds, R
  <2>2. saved[J] # NoJob /\ saved[J].item = R.item
    BY <2>1, MemTrue DEF Agree, R
  <2>3. started' = started \/ (/\ started' = started \cup {J}
                               /\ \A i \in JobItems[J] : R.item[i] = "done")
    BY <1>4 DEF Promise
  <2>4. QED
    BY <1>0, <1>1, <1>2, <2>1, <2>2, <2>3 DEF FilesInv, StartedDone
<1>5. Promise \/ started' = started
  BY DEF Next, Work, Plan, Enter, EnsureWorker, Cancel, Pick, Begin, NextItem, Scan, Bring,
     CopySome, CopyAll, Check, Prove, Place, Mark, Settle, Keep, Remove, CancelItem, Wait,
     Prune, FileGone, Trouble, Breaks, WorkerDies, UnlinkFails, Meddle, BadBlock,
     LibraryRestarts, Crash, Resume, Reload, LibraryWrites, rest, kept
<1>6. QED
  BY <1>3, <1>4, <1>5

-----------------------------------------------------------------------------
(* What the worker's place says.                                           *)

\* Places that say nothing of a file.
FreeSteps == {"none", "pick", "begin", "next", "scan", "bring", "cancel", "promise", "prune",
              "dead", "wait"}

LEMMA PlaceFree ==
    ASSUME worker'.at \in FreeSteps
    PROVE  PlaceTrue'
BY DEF PlaceTrue, FreeSteps

LEMMA GoFree ==
    ASSUME WorkInv, NEW step \in FreeSteps, Go(step)
    PROVE  PlaceTrue'
BY PlaceFree, WorkParts, GoStep DEF FreeSteps, Steps

\* Others' steps under the worker.
LEMMA PlaceStays ==
    ASSUME WorkInv, FilesInv, DiskForward, worker' = worker, fresh' \subseteq fresh,
           worker.at \in ItemSteps =>
               /\ mem'[J].files = mem[J].files /\ mem'[J].proven = mem[J].proven
               /\ mem'[J].copied = mem[J].copied /\ saved[J].copied \subseteq saved'[J].copied,
           worker.at \in FileSteps => (dst[F] = "none" => dst'[F] = "none"),
           worker.at = "place" => /\ part'[F] \in {part[F], "none"}
                                  /\ src[F] = "edited" => src'[F] = "edited"
    PROVE  PlaceTrue'
<1>0. PlaceTrue
  BY DEF FilesInv
<1>1. /\ worker.at \in ItemSteps => R.files[I] \subseteq Files
      /\ worker.at \in FileSteps => F \in Files
  BY HoldsTypes
<1>2. CASE worker.at \in FileSteps
  <2>1. J' = J /\ I' = I /\ F' = F /\ worker.at \in ItemSteps
    BY <1>2 DEF J, I, F, FileSteps, ItemSteps
  <2>2. R'.copied = R.copied
    BY <2>1 DEF R, J
  <2>3. worker.at = "copy" => dst'[F] = "none"
    BY <1>0, <1>2 DEF PlaceTrue
  <2>4. worker.at = "check" /\ F \in fresh' => F \in R'.copied
    BY <1>0, <2>2 DEF PlaceTrue
  <2>5. worker.at \in {"prove", "place"} /\ F \in fresh' => F \in saved'[J].copied
    BY <1>0, <2>1 DEF PlaceTrue
  <2>6. worker.at = "place" /\ part'[F] = "edited" => src'[F] = "edited"
    BY <1>0 DEF PlaceTrue
  <2>7. worker.at = "mark" => dst'[F] # "other"
    BY <1>0, <1>1, <1>2 DEF PlaceTrue, DiskForward
  <2>8. QED
    BY <1>2, <2>1, <2>3, <2>4, <2>5, <2>6, <2>7 DEF PlaceTrue, FileSteps
<1>3. CASE worker.at \in {"settle", "keep", "remove"}
  <2>1. J' = J /\ I' = I /\ worker.at \in ItemSteps
    BY <1>3 DEF J, I, ItemSteps
  <2>2. R'.copied = R.copied /\ R'.files = R.files /\ R'.proven = R.proven
    BY <2>1 DEF R, J
  <2>3. worker.at = "remove" => \A f \in R.files[I] : Safe(f)'
    BY <1>0, <1>1, <2>1 DEF PlaceTrue, DiskForward, Safe
  <2>4. QED
    BY <1>0, <1>3, <2>1, <2>2, <2>3 DEF PlaceTrue
<1>4. CASE worker.at \in FreeSteps
  BY <1>4, PlaceFree
<1>5. worker.at \in Steps
  BY DEF WorkInv, TypeOK
<1>6. QED
  BY <1>2, <1>3, <1>4, <1>5 DEF Steps, FileSteps, FreeSteps

LEMMA PlaceStep ==
    ASSUME WorkInv, Placing, FilesInv, DiskForward, Advance, Next
    PROVE  PlaceTrue'
<1>0. /\ DiskOK /\ worker \in WorkerType /\ PlaceTrue /\ RecordsTrue /\ CopiesTrue /\ FreshKnown
      /\ NothingLate
  BY WorkParts DEF FilesInv
<1>h. worker.at \in JobSteps => /\ J \in Jobs /\ mem[J] # NoJob /\ R \in Record(J)
                                /\ saved[J] # NoJob
  BY HoldsTypes DEF WorkInv, Holds, R
<1>i. worker.at \in ItemSteps =>
          /\ I \in JobItems[J] /\ R.item[I] \notin FinalItem /\ worker.at \in JobSteps
          /\ R.files[I] \subseteq Files
  BY HoldsTypes DEF WorkInv, Holds, JobSteps
<1>f. worker.at \in FileSteps => F \in Files /\ F \in R.files[I] /\ worker.at \in ItemSteps
  BY HoldsTypes DEF WorkInv, Holds, FileSteps, ItemSteps
\* A file of the job that the library may lose is one the job waits for.
<1>k. ASSUME worker.at \in ItemSteps, NEW f \in R.files[I], f \in fresh, dst[f] # "none"
      PROVE  f \in R.copied
  <2>1. J \in Jobs /\ mem[J] # NoJob /\ I \in JobItems[J]
    BY <1>h, <1>i, <1>k
  <2>2. mem[J].files[I] \subseteq ItemFiles[I] /\ Agree(mem[J], saved[J])
    BY <2>1, MemTrue
  <2>3. f \in Wants(J)
    BY <1>k, <2>1, <2>2 DEF Wants, R
  <2>4. f \in saved[J].copied
    <3>1. J \notin pruned
      BY <2>1 DEF WorkInv, Books
    <3>2. QED
      BY <1>0, <1>k, <2>1, <2>3, <3>1 DEF FreshKnown
  <2>5. QED
    BY <2>2, <2>4 DEF Agree, R
<1>g. ASSUME Skip \/ ToCancel PROVE PlaceTrue'
  BY <1>g, GoFree DEF Skip, ToCancel, FreeSteps
<1>s. ASSUME worker' = worker, part' = part, dst' = dst, src' = src, fresh' = fresh,
             mem' = mem, saved' = saved
      PROVE  PlaceTrue'
  BY <1>s, PlaceStays
<1>1. ASSUME NEW j \in Jobs, Plan(j) \/ EnsureWorker(j) PROVE PlaceTrue'
  <2>1. worker' = worker \/ worker'.at = "pick"
    BY <1>1 DEF Plan, EnsureWorker, NoThread
  <2>2. CASE worker' = worker
    BY <1>1, <1>s, <2>2 DEF Plan, EnsureWorker, disk
  <2>3. QED
    BY <2>1, <2>2, PlaceFree DEF FreeSteps
<1>2. ASSUME NEW j \in Jobs, Enter(j) PROVE PlaceTrue'
  <2>1. saved[j] = NoJob /\ Tables
    BY <1>2 DEF Enter, WorkInv, Books
  <2>2. \A k \in Jobs : k # j => mem'[k] = mem[k] /\ saved'[k] = saved[k]
    BY <1>2, <2>1, NewStep, WriteStep DEF Enter
  <2>3. worker.at \in ItemSteps => mem'[J] = mem[J] /\ saved'[J] = saved[J]
    BY <1>h, <1>i, <2>1, <2>2
  <2>4. worker' = worker /\ part' = part /\ dst' = dst /\ src' = src /\ fresh' = fresh
    BY <1>2 DEF Enter, disk
  <2>5. QED
    BY <2>3, <2>4, PlaceStays
<1>3. ASSUME NEW j \in Jobs, Cancel(j) PROVE PlaceTrue'
  <2>1. worker' = worker /\ part' = part /\ dst' = dst /\ src' = src /\ fresh' = fresh
    BY <1>3 DEF Cancel, disk
  <2>p. pruned' = pruned
    BY <1>3 DEF Cancel, rest, kept
  <2>2. CASE worker.at \in ItemSteps /\ J = j
    <3> DEFINE told == [mem[j] EXCEPT !.cancel = TRUE]
    <3>1. told \in Record(j) /\ SameWork(mem[j], told)
      BY <1>h, <1>i, <2>2, CancelStep DEF R
    <3>2. Write(j, told)
      BY <1>3, <2>2 DEF Cancel, J
    <3> HIDE DEF told
    <3>3. mem'[J] = told
      BY <2>2, <3>1, <3>2, WriteStep DEF WorkInv
    <3>6. J \notin pruned
      BY <1>h, <1>i, <2>2 DEF WorkInv, Books
    <3>4. saved[J].copied \subseteq saved'[J].copied
      BY <1>h, <1>i, <2>p, <2>2, <3>6 DEF Advance
    <3>5. QED
      BY <2>1, <2>2, <3>1, <3>3, <3>4, PlaceStays DEF SameWork
  <2>3. CASE ~(worker.at \in ItemSteps /\ J = j)
    <3>1. PICK u : Write(j, u)
      BY <1>3 DEF Cancel
    <3>2. \A k \in Jobs : k # j => mem'[k] = mem[k] /\ saved'[k] = saved[k]
      BY <3>1 DEF WorkInv, Tables, Write
    <3>3. worker.at \in ItemSteps => mem'[J] = mem[J] /\ saved'[J] = saved[J]
      BY <1>h, <1>i, <2>3, <3>2
    <3>4. QED
      BY <2>1, <3>3, PlaceStays
  <2>4. QED
    BY <2>2, <2>3
<1>4. CASE Pick \/ Promise \/ Prune \/ WorkerDies \/ Crash \/ Resume
  <2>1. ASSUME NEW j, worker' = [NoThread EXCEPT !.at = "begin", !.job = j] PROVE PlaceTrue'
    BY <2>1, PlaceFree DEF NoThread, FreeSteps
  <2>2. CASE worker' = NoThread
    BY <2>2, PlaceFree DEF NoThread, FreeSteps
  <2>3. ASSUME NEW at \in {"none", "pick", "prune", "dead"}, worker' = [NoThread EXCEPT !.at = at]
        PROVE  PlaceTrue'
    BY <2>3, PlaceFree DEF NoThread, FreeSteps
  <2>4. CASE Prune
    <3>1. CASE worker' = worker
      BY <2>4, <3>1, PlaceFree DEF Prune, At, FreeSteps
    <3>2. QED
      BY <2>3, <2>4, <3>1 DEF Prune
  <2>5. QED
    BY <1>4, <2>1, <2>2, <2>3, <2>4 DEF Pick, Promise, WorkerDies, Crash, Resume, Reload
<1>5. CASE Begin \/ Scan \/ Mark \/ Trouble \/ FileGone \/ Breaks \/ UnlinkFails
  BY <1>5, <1>g, GoFree
  DEF Begin, Scan, Mark, Trouble, FileGone, Breaks, UnlinkFails, FreeSteps
<1>6. CASE NextItem
  <2>1. CASE Go("promise")
    BY <2>1, GoFree DEF FreeSteps
  <2>2. ASSUME NEW i, worker' = [worker EXCEPT !.item = i, !.file = NoJob, !.at = Entry(i)]
        PROVE  PlaceTrue'
    <3>1. worker'.at = Entry(i)
      BY <1>0, <2>2 DEF WorkerType
    <3>2. QED
      BY <3>1, PlaceFree DEF Entry, FreeSteps
  <2>3. QED
    BY <1>6, <2>1, <2>2 DEF NextItem
<1>7. CASE Bring
  <2>0. worker.at = "bring" /\ worker.at \in ItemSteps
    BY <1>7 DEF Bring, At, ItemSteps
  <2>1. CASE ToCancel \/ Skip
    BY <1>g, <2>1
  <2>2. CASE Unproven = {} /\ Go("settle") /\ UNCHANGED mem
    <3>1. worker'.at = "settle" /\ J' = J /\ I' = I
      BY <1>0, <2>2, GoStep DEF J, I, Steps
    <3>2. R' = R
      BY <2>2, <3>1 DEF R, J
    <3>3. R.files[I] \subseteq R.proven
      BY <2>2 DEF Unproven
    <3>4. QED
      BY <3>1, <3>2, <3>3 DEF PlaceTrue
  <2>3. CASE /\ Unproven # {} /\ UNCHANGED <<disk, mem, saved>>
             /\ worker' = [worker EXCEPT !.file = First(Unproven),
                             !.at = IF dst[First(Unproven)] # "none" THEN "check" ELSE "copy"]
    <3>1. Unproven \in SUBSET Nat
      BY <1>i, <2>0, MovesAssumption DEF Unproven
    <3>2. PICK f : f = First(Unproven)
      OBVIOUS
    <3>3. f \in R.files[I]
      BY <2>3, <3>1, <3>2, FirstIn DEF Unproven
    <3>4. /\ worker'.at = (IF dst[f] # "none" THEN "check" ELSE "copy")
          /\ worker'.job = worker.job /\ worker'.file = f
      BY <1>0, <2>3, <3>2 DEF WorkerType
    <3>5. J' = J /\ F' = f /\ R' = R /\ dst' = dst /\ fresh' = fresh
      BY <2>3, <3>4 DEF J, F, R, disk
    <3>6. dst[f] # "none" /\ f \in fresh => f \in R.copied
      BY <1>k, <2>0, <3>3
    <3>7. QED
      BY <3>4, <3>5, <3>6 DEF PlaceTrue
  <2>4. QED
    BY <1>7, <2>1, <2>2, <2>3 DEF Bring
<1>8. CASE CopySome
  <2>1. worker.at = "copy" /\ worker' = worker /\ dst' = dst /\ fresh' = fresh
    BY <1>8 DEF CopySome, At
  <2>2. mem' = mem /\ saved' = saved
    BY <1>8 DEF CopySome
  <2>3. QED
    BY <2>1, <2>2, PlaceStays
<1>9. CASE CopyAll
  <2>1. CASE ToCancel
    BY <1>g, <2>1
  <2>2. CASE mem' = [mem EXCEPT ![J].copied = @ \cup {F}] /\ Go("check")
    <3>1. worker.at = "copy" /\ worker.at \in FileSteps
      BY <1>9 DEF CopyAll, At, FileSteps
    <3>2. J \in Jobs /\ mem[J] \in Record(J) /\ F \in Files
      BY <1>h, <1>i, <1>f, <3>1 DEF R
    <3> DEFINE u == [mem[J] EXCEPT !.copied = @ \cup {F}]
    <3>3. F \in u.copied
      BY <3>2, CopiedStep
    <3>4. mem'[J] = u
      BY <2>2, <3>2 DEF WorkInv, Tables
    <3> HIDE DEF u
    <3>5. worker'.at = "check" /\ J' = J /\ F' = F
      BY <1>0, <2>2, GoStep DEF J, F, Steps
    <3>6. F \in R'.copied
      BY <3>3, <3>4, <3>5 DEF R, J
    <3>7. QED
      BY <3>5, <3>6 DEF PlaceTrue
  <2>3. QED
    BY <1>9, <2>1, <2>2 DEF CopyAll
<1>10. CASE Check
  <2>1. worker.at = "check" /\ worker.at \in FileSteps /\ Write(J, R) /\ fresh' = fresh
    BY <1>10 DEF Check, At, FileSteps, disk
  <2>2. saved'[J] = R
    BY <1>h, <1>i, <1>f, <2>1, WriteStep DEF WorkInv
  <2>3. worker'.at = "prove" /\ J' = J /\ F' = F
    BY <1>0, <1>10, GoStep DEF Check, J, F, Steps
  <2>4. F \in fresh => F \in R.copied
    BY <1>0, <2>1 DEF PlaceTrue
  <2>5. QED
    BY <2>1, <2>2, <2>3, <2>4 DEF PlaceTrue
<1>11. CASE Prove
  <2>1. worker.at = "prove" /\ worker.at \in FileSteps /\ src[F] # "gone"
    BY <1>11 DEF Prove, At, FileSteps
  <2>2. CASE ToCancel \/ Skip
    BY <1>g, <2>2
  <2>3. CASE Go("bring")
    BY <2>3, GoFree DEF FreeSteps
  <2>4. CASE dst[F] = src[F] /\ Go("mark") /\ UNCHANGED disk
    <3>1. worker'.at = "mark" /\ F' = F /\ dst' = dst
      BY <1>0, <2>4, GoStep DEF F, Steps, disk
    <3>2. dst[F] # "other"
      BY <1>0, <1>f, <2>1, <2>4 DEF DiskOK, Versions
    <3>3. QED
      BY <3>1, <3>2 DEF PlaceTrue
  <2>5. CASE part[F] = src[F] /\ Go("place") /\ UNCHANGED <<disk, mem, saved>>
    <3>1. /\ worker'.at = "place" /\ J' = J /\ F' = F /\ part' = part /\ src' = src
          /\ fresh' = fresh /\ saved' = saved
      BY <1>0, <2>5, GoStep DEF J, F, Steps, disk
    <3>2. F \in fresh => F \in saved[J].copied
      BY <1>0, <2>1 DEF PlaceTrue
    <3>3. QED
      BY <2>5, <3>1, <3>2 DEF PlaceTrue
  <2>6. QED
    BY <1>11, <2>2, <2>3, <2>4, <2>5 DEF Prove
<1>12. CASE Place
  <2>1. worker.at = "place" /\ worker.at \in FileSteps /\ Copied # "none"
    BY <1>12 DEF Place, At, FileSteps
  <2>2. part[F] \in Versions /\ F \in Files
    BY <1>f, <2>1 DEF Placing, Copied
  <2>3. dst'[F] = part[F]
    BY <1>0, <1>12, <2>2 DEF Place, DiskOK
  <2>4. worker'.at = "mark" /\ F' = F
    BY <1>0, <1>12, GoStep DEF Place, F, Steps
  <2>5. QED
    BY <2>2, <2>3, <2>4 DEF PlaceTrue, Versions
<1>13. CASE Settle
  <2>1. worker.at = "settle"
    BY <1>13 DEF Settle, At
  <2>2. CASE ToCancel
    BY <1>g, <2>2
  <2>3. CASE /\ ToLibrary => R.copied \cap R.files[I] \cap fresh = {}
             /\ Go("keep") /\ UNCHANGED <<disk, mem>>
    <3>1. worker'.at = "keep" /\ J' = J /\ I' = I /\ fresh' = fresh
      BY <1>0, <2>3, GoStep DEF J, I, Steps, disk
    <3>2. R' = R
      BY <2>3, <3>1 DEF R, J
    <3>3. R.files[I] \subseteq R.proven
      BY <1>0, <2>1 DEF PlaceTrue
    <3>4. R.copied \cap R.files[I] \cap fresh = {}
      BY <1>0, <2>3 DEF NothingLate
    <3>5. QED
      BY <3>1, <3>2, <3>3, <3>4 DEF PlaceTrue
  <2>4. QED
    BY <1>13, <2>2, <2>3 DEF Settle
<1>14. CASE Keep
  <2>1. worker.at = "keep" /\ worker.at \in ItemSteps /\ worker.at \in JobSteps /\ UNCHANGED <<calls, pruned>>
    BY <1>14 DEF Keep, At, ItemSteps, JobSteps, rest, kept
  <2>2. CASE Skip
    BY <1>g, <2>2
  <2>3. CASE /\ ~WhyKeep(I) /\ Write(J, [R EXCEPT !.item[I] = "removing"]) /\ Go("remove")
             /\ UNCHANGED disk
    <3>1. worker'.at = "remove" /\ J' = J /\ I' = I /\ dst' = dst /\ fresh' = fresh
      BY <1>0, <2>3, GoStep DEF J, I, Steps, disk
    <3>2. PICK u : Rewritten(u) /\ u.files = R.files
      BY <1>i, <2>1, <2>3, ItemWrite
    <3>3. R'.files = R.files
      BY <3>1, <3>2 DEF Rewritten, R, J
    <3>4. ASSUME NEW f \in R.files[I] PROVE Safe(f)
      <4>1. f \in Files /\ src[f] # "edited" /\ dst[f] # "none"
        BY <1>i, <2>1, <2>3 DEF WhyKeep
      <4>2. f \in R.proven
        BY <1>0, <2>1 DEF PlaceTrue
      <4>3. dst[f] # "other"
        BY <1>h, <2>1, <4>2, MemTrue DEF Agree, RecordTrue, R
      <4>4. dst[f] = "planned"
        BY <1>0, <4>1, <4>3 DEF DiskOK, Versions, CopiesTrue
      <4>5. f \notin fresh
        BY <1>0, <1>k, <2>1, <4>1 DEF PlaceTrue
      <4>6. QED
        BY <4>4, <4>5 DEF Safe
    <3>5. \A f \in R.files[I] : Safe(f)'
      BY <3>1, <3>4 DEF Safe
    <3>6. QED
      BY <3>1, <3>3, <3>5 DEF PlaceTrue
  <2>4. QED
    BY <1>14, <2>2, <2>3 DEF Keep
<1>15. CASE Remove
  <2>1. CASE Go("next")
    BY <2>1, GoFree DEF FreeSteps
  <2>2. CASE UNCHANGED <<part, dst, fresh, saved, mem, worker>>
    <3>1. worker.at = "remove"
      BY <1>15 DEF Remove, At
    <3>2. QED
      BY <2>2, <3>1, PlaceStays DEF FileSteps
  <2>3. QED
    BY <1>15, <2>1, <2>2 DEF Remove
<1>16. CASE CancelItem
  <2>1. CASE Go("promise")
    BY <2>1, GoFree DEF FreeSteps
  <2>2. QED
    BY <1>16, <2>1, PlaceFree DEF CancelItem, At, FreeSteps
<1>17. CASE Wait
  <2>1. Entry(I) \in FreeSteps
    BY DEF Entry, FreeSteps
  <2>2. QED
    BY <1>17, <1>g, <2>1, GoFree DEF Wait
<1>18. ASSUME NEW g \in Files, Meddle(g) PROVE PlaceTrue'
  <2>1. /\ worker' = worker /\ dst' = dst /\ fresh' = fresh /\ mem' = mem /\ saved' = saved
        /\ part' = part
    BY <1>18 DEF Meddle
  <2>2. \A f \in Files : src'[f] = src[f] \/ src[f] # "edited"
    BY <1>0, <1>18 DEF Meddle, DiskOK
  <2>3. worker.at = "place" => (src[F] = "edited" => src'[F] = "edited")
    BY <1>f, <2>2 DEF FileSteps
  <2>4. QED
    BY <2>1, <2>3, PlaceStays
<1>22. CASE BadBlock
  <2>1. /\ worker' = worker /\ dst' = dst /\ fresh' = fresh /\ mem' = mem /\ saved' = saved
        /\ worker.at = "check"
    BY <1>22 DEF BadBlock, At
  <2>2. QED
    BY <2>1, PlaceStays
<1>19. CASE LibraryRestarts
  <2>1. worker' = worker /\ src' = src /\ fresh' = {} /\ mem' = mem /\ saved' = saved
    BY <1>19 DEF LibraryRestarts
  <2>2. \A f \in Files : part'[f] \in {part[f], "none"} /\ dst'[f] \in {dst[f], "none"}
    BY <1>19 DEF LibraryRestarts
  <2>3. worker.at \in FileSteps => /\ dst[F] = "none" => dst'[F] = "none"
                                   /\ part'[F] \in {part[F], "none"}
    BY <1>f, <2>2
  <2>4. QED
    BY <2>1, <2>3, PlaceStays DEF FileSteps
<1>20. ASSUME NEW f \in Files, LibraryWrites(f) PROVE PlaceTrue'
  <2>1. /\ worker' = worker /\ src' = src /\ fresh' \subseteq fresh /\ mem' = mem /\ saved' = saved
        /\ part' = part /\ dst' = dst
    BY <1>20 DEF LibraryWrites
  <2>2. QED
    BY <2>1, PlaceStays
<1>21. QED
  BY <1>1, <1>2, <1>3, <1>4, <1>5, <1>6, <1>7, <1>8, <1>9, <1>10, <1>11, <1>12, <1>13, <1>14,
     <1>15, <1>16, <1>17, <1>18, <1>19, <1>20, <1>22 DEF Next, Work

-----------------------------------------------------------------------------
(* What a removal finds.                                                   *)

LEMMA RemoveStays ==
    ASSUME RemoveTrue, worker' = worker, worker.at = "remove",
           mem'[J].files = mem[J].files, touched \subseteq touched',
           \A f \in Reach : dst'[f] \in {dst[f], "none"},
           \A f \in Reach : src'[f] \in {src[f], "gone"} \/ f \in touched'
    PROVE  RemoveTrue'
<1>1. J' = J /\ I' = I
  BY DEF J, I
<1>2. R'.files = R.files
  BY <1>1 DEF R, J
<1>3. Reach' = Reach
  BY <1>1, <1>2 DEF Reach
<1>4. ASSUME NEW f \in Reach
      PROVE  /\ dst'[f] # "edited"
             /\ src'[f] # "gone" =>
                    f \in touched' \cup Odd \/ (f \in R.files[I] /\ src'[f] = "planned")
  BY DEF RemoveTrue
<1>5. QED
  BY <1>1, <1>2, <1>3, <1>4 DEF RemoveTrue

LEMMA RemoveStep ==
    ASSUME WorkInv, FilesInv, Next, DiskForward
    PROVE  RemoveTrue'
<1>0. DiskOK /\ worker \in WorkerType /\ RemoveTrue /\ CopiesTrue /\ OddTrue /\ PlaceTrue
  BY WorkParts DEF FilesInv
<1>e. ASSUME worker'.at # "remove" PROVE RemoveTrue'
  BY <1>e DEF RemoveTrue
<1>g. ASSUME NEW step \in Steps \ {"remove"}, Go(step) PROVE RemoveTrue'
  BY <1>0, <1>e, <1>g, GoStep
<1>k. ASSUME Skip \/ ToCancel PROVE RemoveTrue'
  BY <1>g, <1>k DEF Skip, ToCancel, Steps
<1>r. worker.at = "remove" =>
          /\ Reach \subseteq Files /\ J \in Jobs /\ R.files[I] \subseteq Files
          /\ Reach \subseteq ItemFiles[I] /\ mem[J] \in Record(J) /\ mem[J] # NoJob
  <2>1. ASSUME worker.at = "remove"
        PROVE  /\ J \in Jobs /\ mem[J] # NoJob /\ I \in JobItems[J] /\ I \in Items
               /\ R.files[I] \subseteq Files
    BY <2>1, HoldsTypes DEF WorkInv, Holds, R, JobSteps, ItemSteps
  <2>2. worker.at = "remove" => R.files[I] \subseteq ItemFiles[I] /\ mem[J] \in Record(J)
    BY <2>1, MemTrue DEF R
  <2>3. QED
    BY <2>1, <2>2, MovesAssumption DEF Reach
<1>s. ASSUME worker' = worker, mem' = mem, touched \subseteq touched', src' = src, dst' = dst
      PROVE  RemoveTrue'
  <2>1. CASE worker.at = "remove"
    BY <1>0, <1>s, <2>1, RemoveStays
  <2>2. QED
    BY <1>e, <1>s, <2>1
<1>1. ASSUME NEW j \in Jobs, Plan(j) \/ EnsureWorker(j) PROVE RemoveTrue'
  <2>1. worker' = worker \/ worker'.at = "pick"
    BY <1>1 DEF Plan, EnsureWorker, NoThread
  <2>2. QED
    BY <1>1, <1>e, <1>s, <2>1 DEF Plan, EnsureWorker, disk
<1>2. ASSUME NEW j \in Jobs, Enter(j) PROVE RemoveTrue'
  <2>1. saved[j] = NoJob /\ mem[j] = NoJob
    BY <1>2 DEF Enter, WorkInv, Books
  <2>2. \A k \in Jobs : k # j => mem'[k] = mem[k]
    BY <1>2, NewStep, WriteStep DEF Enter, WorkInv
  <2>3. worker' = worker /\ dst' = dst /\ src' = src /\ touched' = touched
    BY <1>2 DEF Enter, disk
  <2>4. CASE worker.at = "remove"
    BY <1>0, <1>r, <2>1, <2>2, <2>3, <2>4, RemoveStays
  <2>5. QED
    BY <1>e, <2>3, <2>4
<1>3. ASSUME NEW j \in Jobs, Cancel(j) PROVE RemoveTrue'
  <2>1. worker' = worker /\ dst' = dst /\ src' = src /\ touched' = touched
    BY <1>3 DEF Cancel, disk, rest, kept
  <2>2. CASE worker.at = "remove" /\ J = j
    <3> DEFINE told == [mem[j] EXCEPT !.cancel = TRUE]
    <3>1. told \in Record(j) /\ SameWork(mem[j], told)
      BY <1>r, <2>2, CancelStep
    <3>2. Write(j, told)
      BY <1>3, <2>2 DEF Cancel, J
    <3> HIDE DEF told
    <3>3. mem'[J] = told
      BY <2>2, <3>1, <3>2, WriteStep DEF WorkInv
    <3>4. QED
      BY <1>0, <2>1, <2>2, <3>1, <3>3, RemoveStays DEF SameWork
  <2>3. CASE worker.at = "remove" /\ J # j
    <3>1. PICK u : Write(j, u)
      BY <1>3 DEF Cancel
    <3>2. \A k \in Jobs : k # j => mem'[k] = mem[k]
      BY <3>1 DEF WorkInv, Tables, Write
    <3>3. QED
      BY <1>0, <1>r, <2>1, <2>3, <3>2, RemoveStays
  <2>4. QED
    BY <1>e, <2>1, <2>2, <2>3
<1>4. CASE Pick \/ Promise \/ Prune \/ WorkerDies \/ Crash \/ Resume
  <2>1. ASSUME NEW j, worker' = [NoThread EXCEPT !.at = "begin", !.job = j] PROVE RemoveTrue'
    BY <1>e, <2>1 DEF NoThread
  <2>2. CASE worker' = NoThread
    BY <1>e, <2>2 DEF NoThread
  <2>3. ASSUME NEW at \in {"none", "pick", "prune", "dead"}, worker' = [NoThread EXCEPT !.at = at]
        PROVE  RemoveTrue'
    BY <1>e, <2>3 DEF NoThread
  <2>4. CASE Prune
    <3>1. CASE worker' = worker
      BY <1>e, <2>4, <3>1 DEF Prune, At
    <3>2. QED
      BY <2>3, <2>4, <3>1 DEF Prune
  <2>5. QED
    BY <1>4, <2>1, <2>2, <2>3, <2>4 DEF Pick, Promise, WorkerDies, Crash, Resume, Reload
<1>5. CASE Begin \/ Scan \/ CopyAll \/ Check \/ Mark \/ Settle \/ Trouble \/ FileGone
           \/ Breaks \/ UnlinkFails \/ Place \/ Prove
  BY <1>5, <1>g, <1>k
  DEF Begin, Scan, CopyAll, Check, Mark, Settle, Trouble, FileGone, Breaks, UnlinkFails,
      Place, Prove, Steps
<1>6. CASE NextItem
  <2>1. CASE Go("promise")
    BY <1>g, <2>1 DEF Steps
  <2>2. ASSUME NEW i, worker' = [worker EXCEPT !.item = i, !.file = NoJob, !.at = Entry(i)]
        PROVE  RemoveTrue'
    <3>1. worker'.at = Entry(i)
      BY <1>0, <2>2 DEF WorkerType
    <3>2. QED
      BY <1>e, <3>1 DEF Entry
  <2>3. QED
    BY <1>6, <2>1, <2>2 DEF NextItem
<1>7. CASE Bring
  <2>1. CASE Go("settle") \/ ToCancel \/ Skip
    BY <1>g, <1>k, <2>1 DEF Steps
  <2>2. ASSUME NEW f, worker' = [worker EXCEPT !.file = f,
                                   !.at = IF dst[f] # "none" THEN "check" ELSE "copy"]
        PROVE  RemoveTrue'
    <3>1. worker'.at # "remove"
      BY <1>0, <2>2 DEF WorkerType
    <3>2. QED
      BY <1>e, <3>1
  <2>3. QED
    BY <1>7, <2>1, <2>2 DEF Bring
<1>8. CASE CopySome \/ BadBlock
  BY <1>8, <1>e DEF CopySome, BadBlock, At
<1>9. CASE CancelItem
  <2>1. CASE Go("promise")
    BY <1>g, <2>1 DEF Steps
  <2>2. QED
    BY <1>9, <1>e, <2>1 DEF CancelItem, At
<1>10. CASE Wait
  <2>1. Entry(I) \in Steps \ {"remove"}
    BY DEF Entry, Steps
  <2>2. QED
    BY <1>10, <1>g, <1>k, <2>1 DEF Wait
<1>11. CASE Remove
  <2>1. CASE Go("next")
    BY <1>g, <2>1 DEF Steps
  <2>2. ASSUME NEW g \in Doomed, src' = [src EXCEPT ![g] = "gone"],
               UNCHANGED <<part, dst, fresh, saved, mem, worker>>
        PROVE  RemoveTrue'
    <3>1. worker.at = "remove" /\ touched' = touched
      BY <1>11 DEF Remove, At, rest, kept
    <3>2. \A f \in Files : src'[f] \in {src[f], "gone"}
      BY <1>0, <2>2 DEF DiskOK
    <3>3. QED
      BY <1>0, <1>r, <2>2, <3>1, <3>2, RemoveStays
  <2>3. QED
    BY <1>11, <2>1, <2>2 DEF Remove
<1>12. CASE Keep
  <2>1. worker.at = "keep" /\ worker.at \in ItemSteps /\ worker.at \in JobSteps
        /\ UNCHANGED <<calls, pruned>> /\ touched' = touched
    BY <1>12 DEF Keep, At, ItemSteps, JobSteps, rest, kept
  <2>2. CASE Skip
    BY <1>k, <2>2
  <2>3. CASE /\ ~WhyKeep(I) /\ Write(J, [R EXCEPT !.item[I] = "removing"]) /\ Go("remove")
             /\ UNCHANGED disk
    <3>1. worker'.at = "remove" /\ J' = J /\ I' = I /\ dst' = dst /\ src' = src
      BY <1>0, <2>3, GoStep DEF J, I, Steps, disk
    <3>2. /\ J \in Jobs /\ I \in JobItems[J] /\ I \in Items /\ R.files[I] \subseteq Files
          /\ mem[J] # NoJob
      BY <2>1, HoldsTypes DEF WorkInv, Holds, R
    <3>3. PICK u : Rewritten(u) /\ u.files = R.files
      BY <2>1, <2>3, <3>2, ItemWrite
    <3>4. R'.files = R.files
      BY <3>1, <3>3 DEF Rewritten, R, J
    <3>5. Reach' = Reach /\ Reach \subseteq Files
      BY <3>1, <3>2, <3>4, MovesAssumption DEF Reach
    <3>6. ASSUME NEW f \in R.files[I]
          PROVE  src[f] # "edited" /\ dst[f] # "edited"
      <4>1. f \in Files /\ src[f] # "edited"
        BY <2>3, <3>2 DEF WhyKeep
      <4>2. QED
        BY <1>0, <4>1 DEF CopiesTrue
    <3>7. ASSUME NEW f \in Reach, f \notin R.files[I]
          PROVE  src[f] = "gone" \/ f \in Odd
      BY <2>3, <3>7 DEF Reach, WhyKeep, There
    <3>8. ASSUME NEW f \in Reach
          PROVE  /\ dst[f] # "edited"
                 /\ src[f] # "gone" =>
                        f \in touched \cup Odd \/ (f \in R.files[I] /\ src[f] = "planned")
      <4>1. f \in Files /\ src[f] \in {"planned", "edited", "gone"}
        BY <1>0, <3>5 DEF DiskOK, Versions
      <4>2. CASE f \in R.files[I]
        BY <3>6, <4>1, <4>2
      <4>3. CASE f \notin R.files[I]
        BY <1>0, <3>7, <4>1, <4>3 DEF CopiesTrue, OddTrue
      <4>4. QED
        BY <4>2, <4>3
    <3>9. QED
      BY <2>1, <3>1, <3>4, <3>5, <3>8 DEF RemoveTrue
  <2>4. QED
    BY <1>12, <2>2, <2>3 DEF Keep
<1>13. ASSUME NEW g \in Files, Meddle(g) PROVE RemoveTrue'
  <2>1. /\ worker' = worker /\ dst' = dst /\ mem' = mem /\ touched \subseteq touched'
    BY <1>13 DEF Meddle
  <2>2. \A f \in Files : f # g => src'[f] = src[f]
    BY <1>0, <1>13 DEF Meddle, DiskOK
  <2>3. CASE worker.at = "remove"
    <3>1. g \in Reach => g \in touched'
      <4>1. worker.at = "remove" => up
        BY DEF WorkInv, Holds, JobSteps, ItemSteps
      <4>2. QED
        BY <1>13, <1>r, <2>3, <4>1 DEF Meddle, Unseen, At
    <3>2. QED
      BY <1>0, <1>r, <2>1, <2>2, <2>3, <3>1, RemoveStays
  <2>4. QED
    BY <1>e, <2>1, <2>3
<1>14. CASE LibraryRestarts
  <2>1. worker' = worker /\ src' = src /\ mem' = mem /\ touched' = touched
    BY <1>14 DEF LibraryRestarts, kept
  <2>2. \A f \in Files : dst'[f] \in {dst[f], "none"}
    BY <1>14 DEF LibraryRestarts
  <2>3. CASE worker.at = "remove"
    BY <1>0, <1>r, <2>1, <2>2, <2>3, RemoveStays
  <2>4. QED
    BY <1>e, <2>1, <2>3
<1>15. ASSUME NEW f \in Files, LibraryWrites(f) PROVE RemoveTrue'
  BY <1>15, <1>s DEF LibraryWrites, rest, kept
<1>16. QED
  BY <1>1, <1>2, <1>3, <1>4, <1>5, <1>6, <1>7, <1>8, <1>9, <1>10, <1>11, <1>12, <1>13, <1>14,
     <1>15 DEF Next, Work

-----------------------------------------------------------------------------
(* No file is lost.                                                        *)

LEMMA FilesNext ==
    ASSUME ToLibrary => Apart, WorkInv, Placing, FilesInv, [Next]_vars
    PROVE  FilesInv'
<1>1. CASE Next
  <2>1. DiskForward /\ CopiesTrue' /\ RemovedSafe' /\ NothingLate' /\ OddTrue'
    BY <1>1, DiskStep
  <2>2. RecordsTrue' /\ Advance
    BY <1>1, <2>1, RecordsStep
  <2>3. FreshKnown' /\ StartedDone' /\ PlaceTrue' /\ RemoveTrue'
    BY <1>1, <2>1, <2>2, FreshStep, StartedStep, PlaceStep, RemoveStep
  <2>4. QED
    BY <2>1, <2>2, <2>3 DEF FilesInv
<1>2. CASE UNCHANGED vars
  <2>1. UNCHANGED <<src, part, dst, fresh, saved, mem, worker, removed, touched, started, pruned>>
    BY <1>2 DEF vars, rest, kept, disk
  <2>2. RemoveTrue' /\ OddTrue'
    BY <2>1 DEF FilesInv, RemoveTrue, OddTrue, Reach, J, R, I
  <2>3. RecordsTrue' /\ PlaceTrue'
    BY <2>1 DEF FilesInv, RecordsTrue, RecordTrue, PlaceTrue, Safe, J, R, I, F
  <2>4. CopiesTrue' /\ RemovedSafe' /\ FreshKnown' /\ NothingLate' /\ StartedDone'
    BY <2>1 DEF FilesInv, CopiesTrue, RemovedSafe, FreshKnown, NothingLate, StartedDone, Safe
  <2>5. QED
    BY <2>2, <2>3, <2>4 DEF FilesInv
<1>3. QED
  BY <1>1, <1>2

LEMMA FilesInvariant ==
    ASSUME ToLibrary => Apart
    PROVE  Spec => [](WorkInv /\ FilesInv)
<1>1. FilesInv /\ WorkInv /\ Placing /\ [Next]_vars => FilesInv'
  BY FilesNext
<1>2. QED
  BY <1>1, FilesInit, WorkInvariant, PTL DEF Spec

\* What the mover removed stands at the other end as it was when it was removed, whatever
\* crashes, edits, entries that appeared, errors and lost writes came before its last
\* look: in a library, as long as no two jobs carry one file.
THEOREM NoFileIsLost ==
    ASSUME ToLibrary => Apart
    PROVE  Spec => []NoFileLost
<1>1. WorkInv /\ FilesInv => NoFileLost
  BY DEF FilesInv, RemovedSafe, Safe, NoFileLost
<1>2. QED
  BY <1>1, FilesInvariant, PTL

\* An item called done in the record on disk is moved: every file it was found to hold is
\* gone here and whole there.
THEOREM DoneItemsMoved ==
    ASSUME ToLibrary => Apart
    PROVE  Spec => []DoneIsMoved
<1>1. WorkInv /\ FilesInv => DoneIsMoved
  BY DEF FilesInv, RecordsTrue, RecordTrue, Safe, DoneIsMoved
<1>2. QED
  BY <1>1, FilesInvariant, PTL

\* A cell is started for a move only when everything it carried is home.
THEOREM PromisesSafe ==
    ASSUME ToLibrary => Apart
    PROVE  Spec => []PromiseSafe
<1>1. WorkInv /\ FilesInv => PromiseSafe
  <2> SUFFICES ASSUME WorkInv, FilesInv, NEW j \in started \ pruned, NEW i \in JobItems[j]
               PROVE  /\ saved[j].item[i] = "done"
                      /\ \A f \in saved[j].files[i] : dst[f] = "planned"
    BY DEF PromiseSafe
  <2>1. j \in Jobs /\ saved[j] # NoJob /\ saved[j].item[i] = "done"
    BY DEF WorkInv, TypeOK, FilesInv, StartedDone
  <2>2. QED
    BY <2>1 DEF FilesInv, RecordsTrue, RecordTrue, Safe
<1>2. QED
  BY <1>1, FilesInvariant, PTL
=============================================================================
