------------------------------ MODULE DiskImport ------------------------------
(***************************************************************************)
(* Importing a disk into the archive: ImportService keeps a job and an     *)
(* item per file of the disk, FilesService stores the contents, and the    *)
(* import page of the browser drives both by calling one batch after the   *)
(* other.  Uploads, the trash and crashes of the server come in between.   *)
(*                                                                         *)
(* A page has at most one call under way, so page[p] is the page and its   *)
(* handler in one: pc is the statement that runs next.  A tab that is      *)
(* closed leaves its handler to finish the batch.                          *)
(***************************************************************************)
EXTENDS Naturals, Sequences, FiniteSets, FiniteSetsExt

CONSTANTS Items,      \* files on the disk
          Contents,   \* their contents, each with a hash of its own
          ContentOf,  \* [Items -> Contents]; the disk does not change
          Jobs,       \* ImportJob rows
          Pages,      \* browser tabs on the import page
          Uploads,    \* calls of ingest
          Null,       \* nothing
          BatchSize,  \* limit of a batch
          MaxCrashes, \* bound: crashes in a behaviour
          MaxChanges  \* bound: moves to the trash and back in a behaviour

ASSUME ImportAssumption ==
    /\ IsFiniteSet(Items) /\ ContentOf \in [Items -> Contents]
    /\ Null \notin Items \cup Jobs \cup Contents
    /\ BatchSize \in Nat \ {0} /\ MaxCrashes \in Nat /\ MaxChanges \in Nat

VARIABLES
    blob,     \* the content's file in the store: none, torn (part of it written) or whole
    files,    \* the File rows in the order of their creation
    job,      \* the ImportJob rows
    item,     \* the ImportItem rows of every job
    page,     \* the pages and their calls
    upload,   \* the calls of ingest
    crashes,  \* crashes so far, at most MaxCrashes
    changes   \* trash moves so far, at most MaxChanges

store  == <<blob, files>>
bounds == <<crashes, changes>>
vars   == <<store, job, item, page, upload, bounds>>

NoJob  == [status |-> "none", folder |-> FALSE, new |-> 0, duplicate |-> 0,
           imported |-> 0, error |-> 0]
NoItem == [status |-> "unseen", file |-> 0]
NoPage == [pc |-> "idle", job |-> Null, todo |-> {}, item |-> Null, file |-> 0,
           outcome |-> [new |-> 0, duplicate |-> 0, imported |-> 0, error |-> 0]]

NoUpload == [pc |-> "idle", content |-> Null]

NoOutcome == NoPage.outcome

\* An active row of content c, 0 if there is none: findFirst where deletedAt is null.
ActiveRows(c) == {f \in DOMAIN files : files[f].hash = c /\ files[f].active}
Lookups(c)    == IF ActiveRows(c) = {} THEN {0} ELSE ActiveRows(c)

ItemsOf(j, status) == {i \in Items : item[j][i].status = status}

Init ==
    /\ blob = [c \in Contents |-> "none"]
    /\ files = <<>>
    /\ job = [j \in Jobs |-> NoJob]
    /\ item = [j \in Jobs |-> [i \in Items |-> NoItem]]
    /\ page = [p \in Pages |-> NoPage]
    /\ upload = [u \in Uploads |-> NoUpload]
    /\ crashes = 0 /\ changes = 0

-----------------------------------------------------------------------------
(* Steps of a call                                                         *)

At(p, pc) == page[p].pc = pc

Goes(p, pc) == page' = [page EXCEPT ![p].pc = pc]

\* The call is over and the page done with the job.
Leaves(p) == page' = [page EXCEPT ![p] = NoPage]

\* The item in hand is marked in its row and counted in the handler's own tallies.
Marks(p, status, file, next) ==
    LET j == page[p].job
        i == page[p].item
    IN  /\ item' = [item EXCEPT ![j][i] = [status |-> status, file |-> file]]
        /\ page' = [page EXCEPT ![p].pc = next, ![p].todo = @ \ {i}, ![p].item = Null,
                                ![p].file = 0, ![p].outcome[status] = @ + 1]

\* findMany ... take: any rows of that status, as many as the batch holds.
Takes(p, status, next) ==
    LET rows == ItemsOf(page[p].job, status)
    IN  \E some \in SUBSET rows :
            /\ Cardinality(some) = Min({BatchSize, Cardinality(rows)})
            /\ page' = [page EXCEPT ![p].pc = next, ![p].todo = some]

-----------------------------------------------------------------------------
(* createScan                                                              *)

\* onScan: the job is created, then the walk creates its items one by one.
PageScans(p, j) ==
    /\ At(p, "idle")
    /\ job[j].status = "none"
    /\ job' = [job EXCEPT ![j].status = "scanning"]
    /\ page' = [page EXCEPT ![p] = [NoPage EXCEPT !.pc = "walk", !.job = j, !.todo = Items]]
    /\ UNCHANGED <<store, item, upload, bounds>>

\* A file that cannot be read any more is skipped.
ScanSeesFile(p) ==
    /\ At(p, "walk")
    /\ \E i \in page[p].todo :
          /\ item' = [item EXCEPT ![page[p].job][i].status = "pending"]
          /\ page' = [page EXCEPT ![p].todo = @ \ {i}]
    /\ UNCHANGED <<store, job, upload, bounds>>

ScanSkipsFile(p) ==
    /\ At(p, "walk")
    /\ \E i \in page[p].todo : page' = [page EXCEPT ![p].todo = @ \ {i}]
    /\ UNCHANGED <<store, job, item, upload, bounds>>

ScanEnds(p) ==
    /\ At(p, "walk") /\ page[p].todo = {}
    /\ Goes(p, "hash")
    /\ UNCHANGED <<store, job, item, upload, bounds>>

-----------------------------------------------------------------------------
(* hashBatch                                                               *)

HashTakes(p) ==
    /\ At(p, "hash")
    /\ Takes(p, "pending", "inspect")
    /\ UNCHANGED <<store, job, item, upload, bounds>>

\* inspectFile reads the disk and looks the hash up.
HashInspects(p) ==
    /\ At(p, "inspect")
    /\ \E i \in page[p].todo : \E f \in Lookups(ContentOf[i]) :
          page' = [page EXCEPT ![p].pc = "judge", ![p].item = i, ![p].file = f]
    /\ UNCHANGED <<store, job, item, upload, bounds>>

HashCannotRead(p) ==
    /\ At(p, "inspect")
    /\ \E i \in page[p].todo : page' = [page EXCEPT ![p].pc = "unread", ![p].item = i]
    /\ UNCHANGED <<store, job, item, upload, bounds>>

HashMarks(p) ==
    /\ \/ At(p, "unread") /\ Marks(p, "error", 0, "inspect")
       \/ At(p, "judge") /\ page[p].file = 0 /\ Marks(p, "new", 0, "inspect")
       \/ At(p, "judge") /\ page[p].file # 0 /\ Marks(p, "duplicate", page[p].file, "inspect")
    /\ UNCHANGED <<store, job, upload, bounds>>

HashCounts(p) ==
    LET j   == page[p].job
        out == page[p].outcome
    IN  /\ At(p, "inspect") /\ page[p].todo = {}
        /\ job' = [job EXCEPT ![j].new = @ + out.new, ![j].duplicate = @ + out.duplicate,
                              ![j].error = @ + out.error]
        /\ page' = [page EXCEPT ![p].pc = "hashed", ![p].outcome = NoOutcome]
        /\ UNCHANGED <<store, item, upload, bounds>>

\* The count of the items that are left; the page calls again while the job is scanning.
HashAsks(p) ==
    /\ At(p, "hashed")
    /\ Goes(p, IF ItemsOf(page[p].job, "pending") = {} THEN "scanned" ELSE "hash")
    /\ UNCHANGED <<store, job, item, upload, bounds>>

HashEnds(p) ==
    /\ At(p, "scanned")
    /\ job' = [job EXCEPT ![page[p].job].status = "scanned"]
    /\ Leaves(p)
    /\ UNCHANGED <<store, item, upload, bounds>>

-----------------------------------------------------------------------------
(* importBatch and importFile                                              *)

\* Faulty: the button is there for a job that is still being scanned.
PageImportsUnscanned(p, j) ==
    /\ At(p, "idle")
    /\ job[j].status \in {"scanning", "scanned"}
    /\ page' = [page EXCEPT ![p] = [NoPage EXCEPT !.pc = "import", !.job = j]]
    /\ UNCHANGED <<store, job, item, upload, bounds>>

\* onImport: the page offers it for a scanned job with new files.  Its list may be older
\* than the job, which was scanned and had new files before it was importing or completed.
PageImports(p, j) ==
    /\ At(p, "idle")
    /\ \/ job[j].status = "scanned" /\ job[j].new > 0
       \/ job[j].status \in {"importing", "completed"}
    /\ page' = [page EXCEPT ![p] = [NoPage EXCEPT !.pc = "import", !.job = j]]
    /\ UNCHANGED <<store, job, item, upload, bounds>>

\* requireJob; a completed job ends the page's loop.
ImportLoadsJob(p) ==
    LET j == page[p].job
    IN  /\ At(p, "import")
        /\ IF job[j].status = "completed" THEN Leaves(p)
           ELSE Goes(p, IF ~job[j].folder THEN "folder"
                        ELSE IF job[j].status # "importing" THEN "begin" ELSE "take")
        /\ UNCHANGED <<store, job, item, upload, bounds>>

\* The target folder is created first and then written to the job.
ImportMakesFolder(p) ==
    /\ At(p, "folder")
    /\ Goes(p, "begin")
    /\ UNCHANGED <<store, job, item, upload, bounds>>

ImportBegins(p) ==
    /\ At(p, "begin")
    /\ job' = [job EXCEPT ![page[p].job].status = "importing", ![page[p].job].folder = TRUE]
    /\ Goes(p, "take")
    /\ UNCHANGED <<store, item, upload, bounds>>

ImportTakes(p) ==
    /\ At(p, "take")
    /\ IF ItemsOf(page[p].job, "new") = {} THEN Goes(p, "finish") ELSE Takes(p, "new", "find")
    /\ UNCHANGED <<store, job, item, upload, bounds>>

\* Faulty: relies on the lookup of the scan.
ImportTrustsScan(p) ==
    /\ At(p, "find")
    /\ \E i \in page[p].todo : page' = [page EXCEPT ![p].pc = "blob", ![p].item = i]
    /\ UNCHANGED <<store, job, item, upload, bounds>>

\* stat and the lookup of the hash known since the scan.
ImportFinds(p) ==
    /\ At(p, "find")
    /\ \E i \in page[p].todo : \E f \in Lookups(ContentOf[i]) :
          page' = [page EXCEPT ![p].pc = IF f = 0 THEN "blob" ELSE "known",
                               ![p].item = i, ![p].file = f]
    /\ UNCHANGED <<store, job, item, upload, bounds>>

ImportCannotRead(p) ==
    /\ At(p, "find")
    /\ \E i \in page[p].todo : page' = [page EXCEPT ![p].pc = "failed", ![p].item = i]
    /\ UNCHANGED <<store, job, item, upload, bounds>>

Hand(p) == ContentOf[page[p].item]

\* exists(destPath) asks for the file's name alone.
ImportSeesBlob(p) ==
    /\ At(p, "blob")
    /\ Goes(p, IF blob[Hand(p)] = "none" THEN "copy" ELSE "create")
    /\ UNCHANGED <<store, job, item, upload, bounds>>

\* copyFile writes under the final name, ...
ImportCopies(p) ==
    /\ At(p, "copy")
    /\ blob' = [blob EXCEPT ![Hand(p)] = "torn"]
    /\ Goes(p, "copying")
    /\ UNCHANGED <<files, job, item, upload, bounds>>

\* ... and removes what it has written when it fails.
ImportCopied(p) ==
    /\ At(p, "copying")
    /\ \/ /\ blob' = [blob EXCEPT ![Hand(p)] = "whole"]
          /\ Goes(p, "create")
       \/ /\ blob' = [blob EXCEPT ![Hand(p)] = "none"]
          /\ Goes(p, "failed")
    /\ UNCHANGED <<files, job, item, upload, bounds>>

ImportCreatesRow(p) ==
    /\ At(p, "create")
    /\ files' = Append(files, [hash |-> Hand(p), active |-> TRUE, trashed |-> FALSE,
                               source |-> "import"])
    /\ page' = [page EXCEPT ![p].pc = "created", ![p].file = Len(files) + 1]
    /\ UNCHANGED <<blob, job, item, upload, bounds>>

\* Faulty: takes the newest row for the one it has created or found.
ImportMarksNewest(p) ==
    /\ \/ At(p, "failed") /\ Marks(p, "error", 0, "find")
       \/ At(p, "known") /\ Marks(p, "duplicate", Len(files), "find")
       \/ At(p, "created") /\ Marks(p, "imported", Len(files), "find")
    /\ UNCHANGED <<store, job, upload, bounds>>

ImportMarks(p) ==
    /\ \/ At(p, "failed") /\ Marks(p, "error", 0, "find")
       \/ At(p, "known") /\ Marks(p, "duplicate", page[p].file, "find")
       \/ At(p, "created") /\ Marks(p, "imported", page[p].file, "find")
    /\ UNCHANGED <<store, job, upload, bounds>>

\* Faulty: what turns out to be a duplicate still counts as new.
ImportCountsUp(p) ==
    LET j   == page[p].job
        out == page[p].outcome
    IN  /\ At(p, "find") /\ page[p].todo = {}
        /\ job' = [job EXCEPT ![j].imported = @ + out.imported, ![j].error = @ + out.error,
                              ![j].duplicate = @ + out.duplicate]
        /\ page' = [page EXCEPT ![p].pc = "ask", ![p].outcome = NoOutcome]
        /\ UNCHANGED <<store, item, upload, bounds>>

\* newFiles goes down by what turned out to be a duplicate.
ImportCounts(p) ==
    LET j   == page[p].job
        out == page[p].outcome
    IN  /\ At(p, "find") /\ page[p].todo = {}
        /\ job' = [job EXCEPT ![j].imported = @ + out.imported, ![j].error = @ + out.error,
                              ![j].duplicate = @ + out.duplicate, ![j].new = @ - out.duplicate]
        /\ page' = [page EXCEPT ![p].pc = "ask", ![p].outcome = NoOutcome]
        /\ UNCHANGED <<store, item, upload, bounds>>

ImportAsks(p) ==
    /\ At(p, "ask")
    /\ Goes(p, IF ItemsOf(page[p].job, "new") = {} THEN "finish" ELSE "import")
    /\ UNCHANGED <<store, job, item, upload, bounds>>

ImportEnds(p) ==
    /\ At(p, "finish")
    /\ job' = [job EXCEPT ![page[p].job].status = "completed"]
    /\ Leaves(p)
    /\ UNCHANGED <<store, item, upload, bounds>>

\* The tab is closed between two batches, or while one runs to its end.
PageCloses(p) ==
    /\ page[p].pc \in {"hash", "import"}
    /\ Leaves(p)
    /\ UNCHANGED <<store, job, item, upload, bounds>>

BatchStep(p) ==
    \/ ScanSeesFile(p) \/ ScanSkipsFile(p) \/ ScanEnds(p)
    \/ HashTakes(p) \/ HashInspects(p) \/ HashCannotRead(p) \/ HashMarks(p)
    \/ HashCounts(p) \/ HashAsks(p) \/ HashEnds(p)
    \/ ImportLoadsJob(p) \/ ImportMakesFolder(p) \/ ImportBegins(p) \/ ImportTakes(p)
    \/ ImportFinds(p) \/ ImportCannotRead(p) \/ ImportSeesBlob(p) \/ ImportCopies(p)
    \/ ImportCopied(p) \/ ImportCreatesRow(p) \/ ImportMarks(p) \/ ImportCounts(p)
    \/ ImportAsks(p) \/ ImportEnds(p)

PageStep(p) == \/ \E j \in Jobs : PageScans(p, j) \/ PageImports(p, j)
               \/ BatchStep(p)
               \/ PageCloses(p)

-----------------------------------------------------------------------------
(* Everybody else                                                          *)

\* ingest: the file is moved into place unless its name exists, ...
UploadSees(u, c) ==
    /\ upload[u].pc = "idle"
    /\ upload' = [upload EXCEPT ![u] = [pc |-> IF blob[c] = "none" THEN "move" ELSE "create",
                                       content |-> c]]
    /\ UNCHANGED <<store, job, item, page, bounds>>

UploadMoves(u) ==
    /\ upload[u].pc = "move"
    /\ upload' = [upload EXCEPT ![u].pc = "create"]
    /\ blob' = [blob EXCEPT ![upload[u].content] = "whole"]
    /\ UNCHANGED <<files, job, item, page, bounds>>

\* ... then its row is created, whatever rows of that content there are.
UploadCreatesRow(u) ==
    /\ upload[u].pc = "create"
    /\ upload' = [upload EXCEPT ![u].pc = "done"]
    /\ files' = Append(files, [hash |-> upload[u].content, active |-> TRUE,
                               trashed |-> FALSE, source |-> "upload"])
    /\ UNCHANGED <<blob, job, item, page, bounds>>

UploadStep(u) == \/ \E c \in Contents : UploadSees(u, c)
                 \/ UploadMoves(u) \/ UploadCreatesRow(u)

\* softDelete and restore of a file.
TrashOrRestore(f) ==
    /\ changes < MaxChanges
    /\ changes' = changes + 1
    /\ files' = [files EXCEPT ![f].active = ~@, ![f].trashed = TRUE]
    /\ UNCHANGED <<blob, job, item, page, upload, crashes>>

\* The handlers are gone and the pages told so; the tables and the store remain.
Crash ==
    /\ crashes < MaxCrashes
    /\ crashes' = crashes + 1
    /\ page' = [p \in Pages |-> NoPage]
    /\ upload' = [u \in Uploads |-> IF upload[u].pc = "idle" THEN NoUpload
                                   ELSE [NoUpload EXCEPT !.pc = "done"]]
    /\ UNCHANGED <<store, job, item, changes>>

Next == \/ \E p \in Pages : PageStep(p)
        \/ \E u \in Uploads : UploadStep(u)
        \/ \E f \in DOMAIN files : TrashOrRestore(f)
        \/ Crash

Spec == Init /\ [][Next]_vars

-----------------------------------------------------------------------------
(* Properties                                                              *)

\* However often a disk is scanned again after a crash or a closed tab, imports make one
\* row of a content: what one import has brought in, none brings in again.
OneImportedCopy ==
    \A f, g \in DOMAIN files :
        /\ f # g /\ files[f].hash = files[g].hash
        /\ files[f].source = "import" /\ files[g].source = "import"
        => files[f].trashed \/ files[g].trashed

\* The location map never lies: an item names a File row with the item's own content,
\* whoever created it and whatever was uploaded or trashed in between.
MappedToOwnContent ==
    \A j \in Jobs : \A i \in ItemsOf(j, "imported") \cup ItemsOf(j, "duplicate") :
        /\ item[j][i].file \in DOMAIN files
        /\ files[item[j][i].file].hash = ContentOf[i]

\* A completed job has dealt with every file its scan has seen.
CompletedDealtWithAll ==
    \A j \in Jobs :
        job[j].status = "completed" => ItemsOf(j, "pending") \cup ItemsOf(j, "new") = {}

\* Unless the server dies in a batch, the counters of a job that rests agree with its items;
\* a file that failed to be imported stays among the new.
CountersAgree ==
    crashes = 0 =>
        \A j \in Jobs :
            (\A p \in Pages : page[p].job # j) =>
                /\ job[j].imported = Cardinality(ItemsOf(j, "imported"))
                /\ job[j].duplicate = Cardinality(ItemsOf(j, "duplicate"))
                /\ job[j].error = Cardinality(ItemsOf(j, "error"))
                /\ job[j].new >= Cardinality(ItemsOf(j, "new") \cup ItemsOf(j, "imported"))
                /\ job[j].new + job[j].duplicate
                      <= Cardinality({i \in Items : item[j][i].status # "unseen"})

\* import.service.ts:138 and schema.prisma:140: an import may be run again without harm.
\* A row in the archive has its content, unless it is being written at the moment.
RowsHaveTheirContent ==
    \A f \in DOMAIN files :
        \/ blob[files[f].hash] = "whole"
        \/ \E p \in Pages : At(p, "copying") /\ Hand(p) = files[f].hash
=============================================================================
