--------------------------- MODULE DiskImport_proofs ---------------------------
(***************************************************************************)
(* Theorems about DiskImport, for any disk, contents and batch size, and   *)
(* any number of jobs, uploads, crashes and trash moves.                   *)
(***************************************************************************)
EXTENDS DiskImport, Integers, TLAPS, FiniteSetTheorems

-----------------------------------------------------------------------------
(* Types, and what an item in hand may name                                *)

ScanPCs   == {"walk", "hash", "inspect", "judge", "unread", "hashed", "scanned"}
ImportPCs == {"folder", "begin", "take", "find", "blob", "copy", "copying", "create", "known",
              "created", "failed", "ask", "finish"}
Storing   == {"blob", "copy", "copying", "create"}
InHand    == Storing \cup {"judge", "unread", "known", "created", "failed"}
PagePCs   == {"idle", "import"} \cup ScanPCs \cup ImportPCs

JobStatuses  == {"none", "scanning", "scanned", "importing", "completed"}
ItemStatuses == {"unseen", "pending", "new", "duplicate", "imported", "error"}

Tally     == [new : Nat, duplicate : Nat, imported : Nat, error : Nat]
FileRow   == [hash : Contents, active : BOOLEAN, trashed : BOOLEAN, source : {"import", "upload"}]
JobRow    == [status : JobStatuses, folder : BOOLEAN, new : Int, duplicate : Int, imported : Int,
              error : Int]
ItemRow   == [status : ItemStatuses, file : Nat]
PageRow   == [pc : PagePCs, job : Jobs \cup {Null}, todo : SUBSET Items, item : Items \cup {Null},
              file : Nat, outcome : Tally]
UploadRow == [pc : {"idle", "move", "create", "done"}, content : Contents \cup {Null}]

\* The tables and the calls keep their types.
TypeOK ==
    /\ files \in Seq(FileRow)
    /\ job \in [Jobs -> JobRow]
    /\ item \in [Jobs -> [Items -> ItemRow]]
    /\ page \in [Pages -> PageRow]
    /\ upload \in [Uploads -> UploadRow]
    /\ \A u \in Uploads : upload[u].pc \in {"move", "create"} => upload[u].content \in Contents

Names(i, f) == f \in DOMAIN files /\ files[f].hash = ContentOf[i]

\* A call has the job of its page and an item in hand, and has found or made a row of the
\* item's own content.
RowSound(row) ==
    /\ row.pc # "idle" => row.job \in Jobs
    /\ row.pc \in InHand => row.item \in Items
    /\ row.pc \in {"known", "created"} => Names(row.item, row.file)
    /\ row.pc = "judge" /\ row.file # 0 => Names(row.item, row.file)

MapInv == /\ TypeOK
          /\ \A p \in Pages : RowSound(page[p])
          /\ MappedToOwnContent

\* Rows are appended and keep their hash.
FilesGrow == \A f \in DOMAIN files : f \in DOMAIN files' /\ files'[f].hash = files[f].hash

\* A step that gives one call a sound row.
LEMMA CallMoves ==
    ASSUME MapInv, NEW p \in Pages, NEW row \in PageRow, page' = [page EXCEPT ![p] = row],
           RowSound(row), job' \in [Jobs -> JobRow], UNCHANGED <<files, item, upload>>
    PROVE  MapInv'
<1>1. TypeOK'  BY DEF MapInv, TypeOK
<1>2. ASSUME NEW x \in Pages  PROVE RowSound(page[x])'
  <2>1. page'[x] = row \/ page'[x] = page[x]  BY DEF MapInv, TypeOK
  <2>2. RowSound(page[x])  BY DEF MapInv
  <2> QED BY <2>1, <2>2 DEF RowSound, Names
<1>3. MappedToOwnContent'  BY DEF MapInv, MappedToOwnContent, ItemsOf
<1> QED BY <1>1, <1>2, <1>3 DEF MapInv

\* A step to a statement that asks for nothing new.
LEMMA CallGoes ==
    ASSUME MapInv, NEW p \in Pages, NEW pc \in PagePCs \ {"judge", "known", "created"},
           page' = [page EXCEPT ![p].pc = pc],
           pc # "idle" => page[p].pc # "idle", pc \in InHand => page[p].pc \in InHand,
           job' \in [Jobs -> JobRow], UNCHANGED <<files, item, upload>>
    PROVE  MapInv'
<1> DEFINE row == [page[p] EXCEPT !.pc = pc]
<1>1. page[p] \in PageRow /\ RowSound(page[p])  BY DEF MapInv, TypeOK
<1>2. row \in PageRow /\ row.pc = pc /\ row.job = page[p].job /\ row.item = page[p].item
  BY <1>1 DEF PageRow
<1>3. RowSound(row)  BY <1>1, <1>2 DEF RowSound
<1>4. page' = [page EXCEPT ![p] = row]  OBVIOUS
<1> HIDE DEF row
<1> QED BY <1>2, <1>3, <1>4, CallMoves

LEMMA NoPageTyped == NoPage \in PageRow /\ NoPage.pc = "idle" /\ RowSound(NoPage)
BY DEF NoPage, PageRow, PagePCs, Tally, RowSound, InHand, Storing

LEMMA RowStarts ==
    ASSUME NEW k \in Jobs
    PROVE  /\ [NoPage EXCEPT !.pc = "walk", !.job = k, !.todo = Items].pc = "walk"
           /\ [NoPage EXCEPT !.pc = "walk", !.job = k, !.todo = Items].job = k
           /\ [NoPage EXCEPT !.pc = "import", !.job = k].pc = "import"
           /\ [NoPage EXCEPT !.pc = "import", !.job = k].job = k
BY NoPageTyped DEF PageRow

LEMMA PCsNamed ==
    {"idle", "import", "walk", "hash", "inspect", "judge", "unread", "hashed", "scanned", "folder",
     "begin", "take", "find", "blob", "copy", "copying", "create", "known", "created", "failed",
     "ask", "finish"} = PagePCs
BY DEF PagePCs, ScanPCs, ImportPCs

\* Marking the item in hand with its own file keeps the map true.
LEMMA MarksKeep ==
    ASSUME MapInv, NEW p \in Pages, page[p].pc \in InHand,
           NEW status \in {"new", "duplicate", "imported", "error"}, NEW file \in Nat,
           NEW next \in {"inspect", "find"}, Marks(p, status, file, next),
           status \in {"duplicate", "imported"} => Names(page[p].item, file),
           UNCHANGED <<files, job, upload>>
    PROVE  MapInv'
<1> DEFINE j   == page[p].job
           i   == page[p].item
           out == [page[p].outcome EXCEPT ![status] = @ + 1]
           row == [page[p] EXCEPT !.pc = next, !.todo = @ \ {i}, !.item = Null, !.file = 0,
                                  !.outcome = out]
           its == [item[j] EXCEPT ![i] = [status |-> status, file |-> file]]
<1>0. page[p] \in PageRow /\ RowSound(page[p]) /\ TypeOK  BY DEF MapInv, TypeOK
<1>1. j \in Jobs /\ i \in Items
  BY <1>0 DEF RowSound, InHand, Storing
<1>2. out \in Tally
  <2>1. page[p].outcome \in Tally  BY <1>0 DEF PageRow
  <2> QED BY <2>1 DEF Tally
<1>3. row \in PageRow /\ row.pc = next /\ row.job = j
  <2>1. next \in PagePCs  BY PCsNamed
  <2> HIDE DEF out
  <2> QED BY <1>0, <1>2, <2>1 DEF PageRow
<1>4. page' = [page EXCEPT ![p] = row]  BY <1>0 DEF Marks, PageRow
<1>5. item' = [item EXCEPT ![j] = its]  BY DEF Marks
<1>6. its \in [Items -> ItemRow]
  BY <1>0, <1>1 DEF TypeOK, ItemRow, ItemStatuses
<1>7. its[i].status = status /\ its[i].file = file /\ \A x \in Items \ {i} : its[x] = item[j][x]
  BY <1>0, <1>1 DEF TypeOK
<1> HIDE DEF row, its
<1>8. TypeOK'  BY <1>0, <1>1, <1>3, <1>4, <1>5, <1>6 DEF TypeOK
<1>9. ASSUME NEW x \in Pages  PROVE RowSound(page[x])'
  <2>1. RowSound(page[x])  BY DEF MapInv
  <2>2. x # p => page'[x] = page[x]  BY <1>0, <1>4 DEF TypeOK
  <2>3. page'[p].pc = next /\ page'[p].job = j  BY <1>0, <1>3, <1>4 DEF TypeOK
  <2> QED BY <1>1, <2>1, <2>2, <2>3 DEF RowSound, Names, InHand, Storing
<1>10. MappedToOwnContent'
  <2> SUFFICES ASSUME NEW k \in Jobs, NEW x \in Items,
                      item'[k][x].status \in {"imported", "duplicate"}
               PROVE  Names(x, item'[k][x].file)
    BY DEF MappedToOwnContent, ItemsOf, Names
  <2>1. CASE k = j /\ x = i
    BY <1>0, <1>1, <1>5, <1>7, <2>1 DEF TypeOK
  <2>2. CASE ~(k = j /\ x = i)
    <3>1. item'[k][x] = item[k][x]  BY <1>0, <1>1, <1>5, <1>7, <2>2 DEF TypeOK
    <3> QED BY <3>1 DEF MapInv, MappedToOwnContent, ItemsOf, Names
  <2> QED BY <2>1, <2>2
<1> QED BY <1>8, <1>9, <1>10 DEF MapInv

\* A step of everybody's that only appends to the files, or writes a flag of one.
LEMMA FilesChange ==
    ASSUME MapInv, files' \in Seq(FileRow), FilesGrow, UNCHANGED <<job, item, page>>,
           upload' \in [Uploads -> UploadRow],
           \A u \in Uploads : upload'[u].pc \in {"move", "create"} => upload'[u].content \in Contents
    PROVE  MapInv'
<1>1. TypeOK'  BY DEF MapInv, TypeOK
<1>2. ASSUME NEW x \in Pages  PROVE RowSound(page[x])'
  BY DEF MapInv, RowSound, Names, FilesGrow
<1>3. MappedToOwnContent'
  BY DEF MapInv, MappedToOwnContent, ItemsOf, FilesGrow
<1> QED BY <1>1, <1>2, <1>3 DEF MapInv

LEMMA AppendGrows ==
    ASSUME files \in Seq(FileRow), NEW row \in FileRow, files' = Append(files, row)
    PROVE  /\ files' \in Seq(FileRow) /\ FilesGrow /\ Len(files) + 1 \in DOMAIN files'
           /\ files'[Len(files) + 1] = row
           /\ \A f \in DOMAIN files' : \/ f = Len(files) + 1
                                       \/ f \in DOMAIN files /\ files'[f] = files[f]
<1>1. Len(files) \in Nat /\ DOMAIN files = 1..Len(files)  OBVIOUS
<1>2. DOMAIN files' = 1..(Len(files) + 1)  OBVIOUS
<1>3. \A f \in 1..Len(files) : files'[f] = files[f]  OBVIOUS
<1>4. files' \in Seq(FileRow) /\ files'[Len(files) + 1] = row  OBVIOUS
<1> QED BY <1>1, <1>2, <1>3, <1>4 DEF FilesGrow

\* Every statement of a call keeps the map true.
LEMMA PageStepMaps ==
    ASSUME MapInv, NEW p \in Pages, PageStep(p)
    PROVE  MapInv'
<1> USE PCsNamed
<1>0. page[p] \in PageRow /\ RowSound(page[p]) /\ TypeOK  BY DEF MapInv, TypeOK
<1>h. InHand = {"blob", "copy", "copying", "create", "judge", "unread", "known", "created", "failed"}
  BY DEF InHand, Storing
<1> DEFINE j == page[p].job
<1>j. page[p].pc # "idle" => j \in Jobs /\ job[j] \in JobRow  BY <1>0 DEF RowSound, TypeOK
<1>n. Len(files) \in Nat /\ DOMAIN files = 1..Len(files)  BY <1>0 DEF TypeOK
\* Statements that only go on.
<1>g. ASSUME NEW pc \in PagePCs \ ({"idle"} \cup InHand), page[p].pc # "idle",
             page' = [page EXCEPT ![p].pc = pc], UNCHANGED <<files, item, upload>>,
             job' \in [Jobs -> JobRow]
      PROVE  MapInv'
  <2>1. pc \in PagePCs \ {"judge", "known", "created"}  BY <1>h, <1>g
  <2> QED BY <1>g, <2>1, CallGoes
\* Calls that are over.
<1>l. ASSUME Leaves(p), UNCHANGED <<files, item, upload>>, job' \in [Jobs -> JobRow]
      PROVE  MapInv'
  BY <1>l, NoPageTyped, CallMoves DEF Leaves
<1>1. ASSUME NEW k \in Jobs, PageScans(p, k)  PROVE MapInv'
  <2> DEFINE row == [NoPage EXCEPT !.pc = "walk", !.job = k, !.todo = Items]
             new == [job[k] EXCEPT !.status = "scanning"]
  <2>1. row \in PageRow /\ row.pc = "walk" /\ row.job = k
    BY NoPageTyped DEF PageRow
  <2>2. RowSound(row)  BY <1>h, <2>1 DEF RowSound
  <2>3. new \in JobRow  BY <1>0 DEF TypeOK, JobRow, JobStatuses
  <2>4. page' = [page EXCEPT ![p] = row] /\ job' = [job EXCEPT ![k] = new]
        /\ UNCHANGED <<files, item, upload>>
    BY <1>1 DEF PageScans, store
  <2> HIDE DEF row, new
  <2>5. job' \in [Jobs -> JobRow]  BY <1>0, <2>3, <2>4 DEF TypeOK
  <2> QED BY <2>1, <2>2, <2>4, <2>5, CallMoves
<1>2. ASSUME NEW k \in Jobs, PageImports(p, k)  PROVE MapInv'
  <2> DEFINE row == [NoPage EXCEPT !.pc = "import", !.job = k]
  <2>1. row \in PageRow /\ row.pc = "import" /\ row.job = k
    BY NoPageTyped DEF PageRow
  <2>2. RowSound(row)  BY <1>h, <2>1 DEF RowSound
  <2>3. page' = [page EXCEPT ![p] = row] /\ UNCHANGED <<files, item, upload, job>>
    BY <1>2 DEF PageImports, store
  <2>4. job' \in [Jobs -> JobRow]  BY <1>0, <2>3 DEF TypeOK
  <2> HIDE DEF row
  <2> QED BY <2>1, <2>2, <2>3, <2>4, CallMoves
<1>3. CASE ScanSeesFile(p)
  <2>1. PICK i \in page[p].todo :
           /\ item' = [item EXCEPT ![j][i].status = "pending"]
           /\ page' = [page EXCEPT ![p].todo = @ \ {i}]
    BY <1>3 DEF ScanSeesFile
  <2>2. page[p].pc = "walk" /\ UNCHANGED <<files, job, upload>> /\ j \in Jobs
    BY <1>3, <1>j DEF ScanSeesFile, store, At
  <2>3. i \in Items  BY <1>0, <2>1 DEF PageRow
  <2> DEFINE row == [page[p] EXCEPT !.todo = @ \ {i}]
             it  == [item[j][i] EXCEPT !.status = "pending"]
             its == [item[j] EXCEPT ![i] = it]
  <2>4. row \in PageRow /\ row.pc = "walk" /\ row.job = j  BY <1>0, <2>2 DEF PageRow
  <2>5. item[j] \in [Items -> ItemRow] /\ item[j][i] \in ItemRow  BY <1>0, <2>2, <2>3 DEF TypeOK
  <2>6. it \in ItemRow /\ it.status = "pending"
    BY <2>5 DEF ItemRow, ItemStatuses
  <2>7. page' = [page EXCEPT ![p] = row] /\ item' = [item EXCEPT ![j] = its]
    BY <2>1
  <2> HIDE DEF row, it
  <2>8. its \in [Items -> ItemRow] /\ its[i] = it /\ \A x \in Items \ {i} : its[x] = item[j][x]
    BY <2>3, <2>5, <2>6
  <2> HIDE DEF its
  <2>9. TypeOK'  BY <1>0, <2>2, <2>4, <2>7, <2>8 DEF TypeOK
  <2>10. ASSUME NEW x \in Pages  PROVE RowSound(page[x])'
    <3>1. RowSound(page[x])  BY DEF MapInv
    <3>2. x # p => page'[x] = page[x]  BY <1>0, <2>7 DEF TypeOK
    <3>3. page'[p].pc = "walk" /\ page'[p].job = j  BY <1>0, <2>4, <2>7 DEF TypeOK
    <3> QED BY <1>h, <2>2, <3>1, <3>2, <3>3 DEF RowSound, Names
  <2>11. MappedToOwnContent'
    <3> SUFFICES ASSUME NEW k \in Jobs, NEW x \in Items,
                        item'[k][x].status \in {"imported", "duplicate"}
                 PROVE  Names(x, item'[k][x].file)
      BY <2>2 DEF MappedToOwnContent, ItemsOf, Names
    <3>1. item'[k][x] = item[k][x]  BY <1>0, <2>2, <2>6, <2>7, <2>8 DEF TypeOK
    <3> QED BY <3>1 DEF MapInv, MappedToOwnContent, ItemsOf, Names
  <2> QED BY <2>9, <2>10, <2>11 DEF MapInv
<1>4. CASE ScanSkipsFile(p)
  <2>1. PICK i \in page[p].todo : page' = [page EXCEPT ![p].todo = @ \ {i}]
    BY <1>4 DEF ScanSkipsFile
  <2>2. page[p].pc = "walk" /\ UNCHANGED <<files, job, item, upload>>
    BY <1>4 DEF ScanSkipsFile, store, At
  <2> DEFINE row == [page[p] EXCEPT !.todo = @ \ {i}]
  <2>3. row \in PageRow /\ row.pc = "walk" /\ row.job = j  BY <1>0, <2>2 DEF PageRow
  <2>4. page' = [page EXCEPT ![p] = row]  BY <2>1
  <2> HIDE DEF row
  <2>5. RowSound(row)  BY <1>h, <1>j, <2>2, <2>3 DEF RowSound
  <2>6. job' \in [Jobs -> JobRow]  BY <1>0, <2>2 DEF TypeOK
  <2> QED BY <2>2, <2>3, <2>4, <2>5, <2>6, CallMoves
<1>5. CASE ScanEnds(p) \/ HashAsks(p) \/ ImportMakesFolder(p) \/ ImportAsks(p)
  <2>1. PICK pc \in {"hash", "scanned", "begin", "finish", "import"} :
           /\ page[p].pc # "idle" /\ page' = [page EXCEPT ![p].pc = pc]
           /\ UNCHANGED <<files, job, item, upload>>
    BY <1>5 DEF ScanEnds, HashAsks, ImportMakesFolder, ImportAsks, Goes, At, store
  <2>2. pc \in PagePCs \ ({"idle"} \cup InHand)  BY <1>h
  <2>3. job' \in [Jobs -> JobRow]  BY <1>0, <2>1 DEF TypeOK
  <2> QED BY <1>g, <2>1, <2>2, <2>3
<1>6. CASE HashTakes(p) \/ ImportTakes(p)
  <2>1. /\ page[p].pc # "idle" /\ UNCHANGED <<files, job, item, upload>>
        /\ \/ page' = [page EXCEPT ![p].pc = "finish"]
           \/ \E some \in SUBSET Items, pc \in {"inspect", "find"} :
                 page' = [page EXCEPT ![p].pc = pc, ![p].todo = some]
    BY <1>6 DEF HashTakes, ImportTakes, Takes, Goes, At, store, ItemsOf
  <2>2. job' \in [Jobs -> JobRow]  BY <1>0, <2>1 DEF TypeOK
  <2>3. CASE page' = [page EXCEPT ![p].pc = "finish"]
    <3>1. "finish" \in PagePCs \ ({"idle"} \cup InHand)  BY <1>h
    <3> QED BY <1>g, <2>1, <2>2, <2>3, <3>1
  <2>4. ASSUME NEW some \in SUBSET Items, NEW pc \in {"inspect", "find"},
               page' = [page EXCEPT ![p].pc = pc, ![p].todo = some]
        PROVE  MapInv'
    <3> DEFINE row == [page[p] EXCEPT !.pc = pc, !.todo = some]
    <3>1. row \in PageRow /\ row.pc = pc /\ row.job = j  BY <1>0 DEF PageRow
    <3>2. page' = [page EXCEPT ![p] = row]  BY <1>0, <2>4 DEF PageRow
    <3> HIDE DEF row
    <3>3. RowSound(row)  BY <1>h, <1>j, <2>1, <3>1 DEF RowSound
    <3> QED BY <2>1, <2>2, <3>1, <3>2, <3>3, CallMoves
  <2> QED BY <2>1, <2>3, <2>4
\* Statements that take an item in hand, with a row that has been looked up for it.
<1>f. ASSUME NEW i \in Items, NEW pc \in {"judge", "unread", "blob", "known", "failed"},
             NEW f \in Nat, f # 0 => Names(i, f), pc = "known" => f # 0, page[p].pc # "idle",
             page' = [page EXCEPT ![p].pc = pc, ![p].item = i, ![p].file = f],
             UNCHANGED <<files, job, item, upload>>
      PROVE  MapInv'
  <2> DEFINE row == [page[p] EXCEPT !.pc = pc, !.item = i, !.file = f]
  <2>1. row \in PageRow /\ row.pc = pc /\ row.job = j /\ row.item = i /\ row.file = f
    BY <1>0 DEF PageRow
  <2>2. page' = [page EXCEPT ![p] = row]  BY <1>0, <1>f DEF PageRow
  <2>3. job' \in [Jobs -> JobRow]  BY <1>0, <1>f DEF TypeOK
  <2> HIDE DEF row
  <2>4. RowSound(row)  BY <1>f, <1>j, <2>1 DEF RowSound
  <2> QED BY <1>f, <2>1, <2>2, <2>3, <2>4, CallMoves
<1>7. CASE HashInspects(p) \/ ImportFinds(p)
  <2>a. PICK i \in page[p].todo : \E f \in Lookups(ContentOf[i]) :
                                    \E pc \in {"judge", "blob", "known"} :
           /\ page' = [page EXCEPT ![p].pc = pc, ![p].item = i, ![p].file = f]
           /\ pc = "known" => f # 0
    BY <1>7 DEF HashInspects, ImportFinds
  <2>1. PICK f \in Lookups(ContentOf[i]), pc \in {"judge", "blob", "known"} :
           /\ page' = [page EXCEPT ![p].pc = pc, ![p].item = i, ![p].file = f]
           /\ pc = "known" => f # 0
    BY <2>a
  <2>2. page[p].pc # "idle" /\ UNCHANGED <<files, job, item, upload>>
    BY <1>7 DEF HashInspects, ImportFinds, At, store
  <2>3. i \in Items  BY <1>0 DEF PageRow
  <2>4. f \in Nat /\ (f # 0 => Names(i, f))
    BY <1>n, <2>1 DEF Lookups, ActiveRows, Names
  <2> QED BY <1>f, <2>1, <2>2, <2>3, <2>4
<1>8. CASE HashCannotRead(p) \/ ImportCannotRead(p)
  <2>1. PICK i \in page[p].todo, pc \in {"unread", "failed"} :
           page' = [page EXCEPT ![p].pc = pc, ![p].item = i]
    BY <1>8 DEF HashCannotRead, ImportCannotRead
  <2>2. page[p].pc # "idle" /\ UNCHANGED <<files, job, item, upload>>
    BY <1>8 DEF HashCannotRead, ImportCannotRead, At, store
  <2> DEFINE row == [page[p] EXCEPT !.pc = pc, !.item = i]
  <2>3. row \in PageRow /\ row.pc = pc /\ row.job = j /\ row.item = i
    BY <1>0, <2>1 DEF PageRow
  <2>4. page' = [page EXCEPT ![p] = row]  BY <1>0, <2>1 DEF PageRow
  <2>5. job' \in [Jobs -> JobRow] /\ i \in Items  BY <1>0, <2>1, <2>2 DEF TypeOK, PageRow
  <2> HIDE DEF row
  <2>6. RowSound(row)  BY <1>j, <2>2, <2>3, <2>5 DEF RowSound
  <2> QED BY <2>2, <2>3, <2>4, <2>5, <2>6, CallMoves
<1>9. CASE HashMarks(p) \/ ImportMarks(p)
  <2>1. UNCHANGED <<files, job, upload>>  BY <1>9 DEF HashMarks, ImportMarks, store
  <2>2. PICK status \in {"new", "duplicate", "imported", "error"}, file \in Nat,
             next \in {"inspect", "find"} :
           /\ page[p].pc \in {"unread", "judge", "failed", "known", "created"}
           /\ Marks(p, status, file, next)
           /\ status \in {"duplicate", "imported"} =>
                 /\ file = page[p].file
                 /\ page[p].pc \in {"known", "created"} \/ (page[p].pc = "judge" /\ file # 0)
    <3>1. page[p].file \in Nat  BY <1>0 DEF PageRow
    <3>2. CASE HashMarks(p)
      BY <3>1, <3>2 DEF HashMarks, At
    <3>3. CASE ImportMarks(p)
      BY <3>1, <3>3 DEF ImportMarks, At
    <3> QED BY <1>9, <3>2, <3>3
  <2>3. page[p].pc \in InHand  BY <1>h, <2>2
  <2>4. status \in {"duplicate", "imported"} => Names(page[p].item, file)
    BY <1>0, <2>2 DEF RowSound
  <2> QED BY <2>1, <2>2, <2>3, <2>4, MarksKeep
<1>10. CASE HashCounts(p) \/ ImportCounts(p)
  <2> DEFINE out  == page[p].outcome
             row0 == job[j]
             up   == [row0 EXCEPT !.new = row0.new + out.new,
                                  !.duplicate = row0.duplicate + out.duplicate,
                                  !.error = row0.error + out.error]
             down == [row0 EXCEPT !.imported = row0.imported + out.imported,
                                  !.error = row0.error + out.error,
                                  !.duplicate = row0.duplicate + out.duplicate,
                                  !.new = row0.new - out.duplicate]
  <2>0. /\ page[p].pc # "idle" /\ UNCHANGED <<files, item, upload>>
        /\ \E pc \in {"hashed", "ask"} :
              page' = [page EXCEPT ![p].pc = pc, ![p].outcome = NoOutcome]
    BY <1>10 DEF HashCounts, ImportCounts, At, store
  <2>2. out \in Tally /\ row0 \in JobRow /\ j \in Jobs  BY <1>0, <1>j, <2>0 DEF PageRow
  <2>a. ASSUME HashCounts(p)  PROVE job' = [job EXCEPT ![j] = up]
    BY <1>0, <2>2, <2>a DEF HashCounts, JobRow, TypeOK
  <2>b. ASSUME ImportCounts(p)  PROVE job' = [job EXCEPT ![j] = down]
    BY <1>0, <2>2, <2>b DEF ImportCounts, JobRow, TypeOK
  <2>1. /\ page[p].pc # "idle" /\ UNCHANGED <<files, item, upload>>
        /\ job' = [job EXCEPT ![j] = up] \/ job' = [job EXCEPT ![j] = down]
    BY <1>10, <2>0, <2>a, <2>b
  <2>3. up \in JobRow /\ down \in JobRow
    <3>1. /\ out.new \in Int /\ out.duplicate \in Int /\ out.imported \in Int /\ out.error \in Int
      BY <2>2 DEF Tally
    <3>2. /\ row0.new \in Int /\ row0.duplicate \in Int /\ row0.imported \in Int
          /\ row0.error \in Int
      BY <2>2 DEF JobRow
    <3>3. ASSUME NEW a \in Int, NEW b \in Int, NEW c \in Int, NEW d \in Int
          PROVE  [row0 EXCEPT !.imported = a, !.error = b, !.duplicate = c, !.new = d] \in JobRow
      BY <2>2 DEF JobRow
    <3>4. ASSUME NEW a \in Int, NEW b \in Int, NEW c \in Int
          PROVE  [row0 EXCEPT !.new = a, !.duplicate = b, !.error = c] \in JobRow
      BY <2>2 DEF JobRow
    <3> HIDE DEF out, row0
    <3>5. /\ row0.new + out.new \in Int /\ row0.duplicate + out.duplicate \in Int
          /\ row0.error + out.error \in Int /\ row0.imported + out.imported \in Int
          /\ row0.new - out.duplicate \in Int
      BY <3>1, <3>2
    <3> QED BY <3>3, <3>4, <3>5
  <2>4. PICK pc \in {"hashed", "ask"} :
           page' = [page EXCEPT ![p].pc = pc, ![p].outcome = NoOutcome]
    BY <2>0
  <2> DEFINE row == [page[p] EXCEPT !.pc = pc, !.outcome = NoOutcome]
  <2>5. NoOutcome \in Tally  BY NoPageTyped DEF NoOutcome, PageRow
  <2>6. row \in PageRow /\ row.pc = pc /\ row.job = j
    BY <1>0, <2>5 DEF PageRow
  <2>7. page' = [page EXCEPT ![p] = row]  BY <1>0, <2>4 DEF PageRow
  <2> HIDE DEF row, up, down, out
  <2>8. job' \in [Jobs -> JobRow]  BY <1>0, <2>1, <2>3 DEF TypeOK
  <2>9. RowSound(row)  BY <1>h, <1>j, <2>1, <2>6 DEF RowSound
  <2> QED BY <2>1, <2>6, <2>7, <2>8, <2>9, CallMoves
<1>11. CASE HashEnds(p) \/ ImportEnds(p)
  <2>1. PICK status \in JobStatuses :
           /\ page[p].pc # "idle" /\ job' = [job EXCEPT ![j].status = status]
           /\ Leaves(p) /\ UNCHANGED <<files, item, upload>>
    BY <1>11 DEF HashEnds, ImportEnds, JobStatuses, At, store
  <2> DEFINE new == [job[j] EXCEPT !.status = status]
  <2>2. new \in JobRow /\ job' = [job EXCEPT ![j] = new]  BY <1>j, <2>1 DEF JobRow
  <2> HIDE DEF new
  <2>3. job' \in [Jobs -> JobRow]  BY <1>0, <2>2 DEF TypeOK
  <2> QED BY <1>l, <2>1, <2>3
<1>12. CASE ImportLoadsJob(p)
  <2>1. /\ page[p].pc # "idle" /\ UNCHANGED <<files, job, item, upload>>
        /\ \/ Leaves(p)
           \/ \E pc \in {"folder", "begin", "take"} : page' = [page EXCEPT ![p].pc = pc]
    BY <1>12 DEF ImportLoadsJob, At, store, Goes
  <2>2. job' \in [Jobs -> JobRow]  BY <1>0, <2>1 DEF TypeOK
  <2>3. {"folder", "begin", "take"} \subseteq PagePCs \ ({"idle"} \cup InHand)  BY <1>h
  <2> QED BY <1>g, <1>l, <2>1, <2>2, <2>3
<1>13. CASE ImportBegins(p)
  <2> DEFINE new == [job[j] EXCEPT !.status = "importing", !.folder = TRUE]
  <2>1. /\ page[p].pc # "idle" /\ UNCHANGED <<files, item, upload>>
        /\ job' = [job EXCEPT ![j].status = "importing", ![j].folder = TRUE]
        /\ page' = [page EXCEPT ![p].pc = "take"]
    BY <1>13 DEF ImportBegins, At, store, Goes
  <2>2. new \in JobRow /\ job' = [job EXCEPT ![j] = new]
    BY <1>0, <1>j, <2>1 DEF JobRow, JobStatuses, TypeOK
  <2> HIDE DEF new
  <2>3. job' \in [Jobs -> JobRow]  BY <1>0, <2>2 DEF TypeOK
  <2>4. "take" \in PagePCs \ ({"idle"} \cup InHand)  BY <1>h
  <2> QED BY <1>g, <2>1, <2>3, <2>4
<1>14. CASE ImportSeesBlob(p) \/ ImportCopies(p) \/ ImportCopied(p)
  <2>1. PICK pc \in {"copy", "create", "copying", "failed"} :
           /\ page[p].pc \in InHand /\ page' = [page EXCEPT ![p].pc = pc]
           /\ UNCHANGED <<files, job, item, upload>>
    BY <1>14, <1>h DEF ImportSeesBlob, ImportCopies, ImportCopied, Goes, At, store
  <2>2. pc \in PagePCs \ {"judge", "known", "created"} /\ pc # "idle" /\ page[p].pc # "idle"
    BY <1>h, <2>1
  <2>3. job' \in [Jobs -> JobRow]  BY <1>0, <2>1 DEF TypeOK
  <2> QED BY <2>1, <2>2, <2>3, CallGoes
<1>15. CASE ImportCreatesRow(p)
  <2> DEFINE made == [hash |-> Hand(p), active |-> TRUE, trashed |-> FALSE, source |-> "import"]
             n    == Len(files) + 1
             row  == [page[p] EXCEPT !.pc = "created", !.file = n]
  <2>1. /\ page[p].pc = "create" /\ files' = Append(files, made)
        /\ page' = [page EXCEPT ![p].pc = "created", ![p].file = n]
        /\ UNCHANGED <<job, item, upload>>
    BY <1>15 DEF ImportCreatesRow, At
  <2>2. page[p].item \in Items /\ made.hash = ContentOf[page[p].item] /\ made \in FileRow
    BY <1>0, <1>h, <2>1, ImportAssumption DEF RowSound, Hand, FileRow
  <2>3. /\ files' \in Seq(FileRow) /\ FilesGrow /\ n \in DOMAIN files' /\ files'[n] = made
    <3> HIDE DEF made
    <3> QED BY <1>0, <2>1, <2>2, AppendGrows DEF TypeOK
  <2>4. row \in PageRow /\ row.pc = "created" /\ row.job = j /\ row.item = page[p].item
        /\ row.file = n
    <3>1. n \in Nat  BY <1>n
    <3> HIDE DEF n
    <3> QED BY <1>0, <3>1, PCsNamed DEF PageRow
  <2>5. page' = [page EXCEPT ![p] = row]  BY <1>0, <2>1 DEF PageRow
  <2> HIDE DEF row, made, n
  <2>6. TypeOK'  BY <1>0, <2>1, <2>3, <2>4, <2>5 DEF TypeOK
  <2>7. ASSUME NEW x \in Pages  PROVE RowSound(page[x])'
    <3>1. RowSound(page[x])  BY DEF MapInv
    <3>2. CASE x # p
      <4>1. page'[x] = page[x]  BY <1>0, <2>5, <3>2 DEF TypeOK
      <4> QED BY <2>3, <3>1, <4>1 DEF RowSound, Names, FilesGrow
    <3>3. CASE x = p
      <4>1. page'[x] = row  BY <1>0, <2>5, <3>3 DEF TypeOK
      <4> QED BY <1>j, <2>1, <2>2, <2>3, <2>4, <4>1 DEF RowSound, Names
    <3> QED BY <3>2, <3>3
  <2>8. MappedToOwnContent'
    BY <2>1, <2>3 DEF MapInv, MappedToOwnContent, ItemsOf, FilesGrow
  <2> QED BY <2>6, <2>7, <2>8 DEF MapInv
<1>16. CASE PageCloses(p)
  <2>1. UNCHANGED <<files, job, item, upload>> /\ Leaves(p)  BY <1>16 DEF PageCloses, store
  <2>2. job' \in [Jobs -> JobRow]  BY <1>0, <2>1 DEF TypeOK
  <2> QED BY <1>l, <2>1, <2>2
<1> HIDE DEF j
<1> QED BY <1>1, <1>2, <1>3, <1>4, <1>5, <1>6, <1>7, <1>8, <1>9, <1>10, <1>11, <1>12, <1>13, <1>14,
           <1>15, <1>16 DEF PageStep, BatchStep

\* Uploads, the trash and crashes keep the map true.
LEMMA OthersMap ==
    ASSUME MapInv,
           \/ \E u \in Uploads : UploadStep(u)
           \/ \E f \in DOMAIN files : TrashOrRestore(f)
           \/ Crash
           \/ UNCHANGED vars
    PROVE  MapInv'
<1>0. TypeOK  BY DEF MapInv
<1>n. Len(files) \in Nat /\ DOMAIN files = 1..Len(files)  BY <1>0 DEF TypeOK
<1>s. UNCHANGED files => files' \in Seq(FileRow) /\ FilesGrow  BY <1>0 DEF TypeOK, FilesGrow
<1>1. ASSUME NEW u \in Uploads, NEW c \in Contents, UploadSees(u, c)  PROVE MapInv'
  <2> DEFINE pc  == IF blob[c] = "none" THEN "move" ELSE "create"
             row == [pc |-> pc, content |-> c]
  <2>1. upload' = [upload EXCEPT ![u] = row] /\ UNCHANGED <<files, job, item, page>>
    BY <1>1 DEF UploadSees, store
  <2>2. row \in UploadRow /\ row.content \in Contents  BY DEF UploadRow
  <2> HIDE DEF row
  <2>3. /\ upload' \in [Uploads -> UploadRow]
        /\ \A x \in Uploads : upload'[x].pc \in {"move", "create"} => upload'[x].content \in Contents
    BY <1>0, <2>1, <2>2 DEF TypeOK
  <2> QED BY <1>s, <2>1, <2>3, FilesChange
<1>2. ASSUME NEW u \in Uploads, NEW pc \in {"create", "done"}, upload[u].pc \in {"move", "create"},
             upload' = [upload EXCEPT ![u].pc = pc]
      PROVE  /\ upload' \in [Uploads -> UploadRow]
             /\ \A x \in Uploads :
                   upload'[x].pc \in {"move", "create"} => upload'[x].content \in Contents
  <2> DEFINE row == [upload[u] EXCEPT !.pc = pc]
  <2>1. upload[u] \in UploadRow /\ upload[u].content \in Contents  BY <1>0, <1>2 DEF TypeOK
  <2>2. row \in UploadRow /\ row.content \in Contents  BY <2>1 DEF UploadRow
  <2>3. upload' = [upload EXCEPT ![u] = row]  BY <1>2
  <2> HIDE DEF row
  <2> QED BY <1>0, <2>2, <2>3 DEF TypeOK
<1>3. ASSUME NEW u \in Uploads, UploadMoves(u)  PROVE MapInv'
  BY <1>2, <1>3, <1>s, FilesChange DEF UploadMoves
<1>4. ASSUME NEW u \in Uploads, UploadCreatesRow(u)  PROVE MapInv'
  <2> DEFINE made == [hash |-> upload[u].content, active |-> TRUE, trashed |-> FALSE,
                      source |-> "upload"]
  <2>1. /\ upload[u].pc = "create" /\ upload' = [upload EXCEPT ![u].pc = "done"]
        /\ files' = Append(files, made) /\ UNCHANGED <<job, item, page>>
    BY <1>4 DEF UploadCreatesRow
  <2>2. made \in FileRow  BY <1>0, <2>1 DEF TypeOK, FileRow
  <2> HIDE DEF made
  <2>3. files' \in Seq(FileRow) /\ FilesGrow  BY <1>0, <2>1, <2>2, AppendGrows DEF TypeOK
  <2> QED BY <1>2, <2>1, <2>3, FilesChange
<1>5. ASSUME NEW f \in DOMAIN files, TrashOrRestore(f)  PROVE MapInv'
  <2> DEFINE row == [files[f] EXCEPT !.active = ~@, !.trashed = TRUE]
  <2>1. files[f] \in FileRow  BY <1>0 DEF TypeOK
  <2>2. row \in FileRow /\ row.hash = files[f].hash  BY <2>1 DEF FileRow
  <2>3. files' = [files EXCEPT ![f] = row] /\ UNCHANGED <<job, item, page, upload>>
    BY <1>5, <2>1 DEF TrashOrRestore, FileRow
  <2> HIDE DEF row
  <2>4. files' \in Seq(FileRow) /\ FilesGrow  BY <1>0, <2>2, <2>3 DEF TypeOK, FilesGrow
  <2> QED BY <1>0, <2>3, <2>4, FilesChange DEF TypeOK
<1>6. CASE Crash
  <2>1. page' = [p \in Pages |-> NoPage] /\ UNCHANGED <<files, job, item>>
    BY <1>6 DEF Crash, store
  <2>2. \A u \in Uploads : upload'[u] \in UploadRow /\ upload'[u].pc \in {"idle", "done"}
    BY <1>6 DEF Crash, NoUpload, UploadRow
  <2>3. upload' \in [Uploads -> UploadRow]  BY <1>6, <2>2 DEF Crash
  <2>4. TypeOK'  BY <1>0, <2>1, <2>2, <2>3, NoPageTyped DEF TypeOK
  <2>5. \A x \in Pages : RowSound(page[x])'
    BY <2>1, NoPageTyped DEF RowSound, InHand, Storing
  <2>6. MappedToOwnContent'  BY <2>1 DEF MapInv, MappedToOwnContent, ItemsOf
  <2> QED BY <2>4, <2>5, <2>6 DEF MapInv
<1>7. CASE UNCHANGED vars
  <2>1. UNCHANGED <<files, job, item, page, upload>>  BY <1>7 DEF vars, store
  <2> QED BY <1>0, <1>s, <2>1, FilesChange DEF TypeOK
<1> QED BY <1>1, <1>3, <1>4, <1>5, <1>6, <1>7 DEF UploadStep

LEMMA InitMaps == Init => MapInv
<1> SUFFICES ASSUME Init  PROVE MapInv
  OBVIOUS
<1>1. NoJob \in JobRow  BY DEF NoJob, JobRow, JobStatuses
<1>2. NoItem \in ItemRow /\ NoItem.status = "unseen"  BY DEF NoItem, ItemRow, ItemStatuses
<1>3. NoUpload \in UploadRow /\ NoUpload.pc = "idle"  BY DEF NoUpload, UploadRow
<1>4. TypeOK  BY <1>1, <1>2, <1>3, NoPageTyped DEF Init, TypeOK
<1>5. \A p \in Pages : RowSound(page[p])  BY NoPageTyped DEF Init
<1>6. MappedToOwnContent  BY <1>2 DEF Init, MappedToOwnContent, ItemsOf
<1> QED BY <1>4, <1>5, <1>6 DEF MapInv

LEMMA NextMaps == MapInv /\ [Next]_vars => MapInv'
BY PageStepMaps, OthersMap DEF Next

LEMMA MapAlways == Spec => []MapInv
BY InitMaps, NextMaps, PTL DEF Spec

\* MappedToOwnContent: the location map never lies, with any number of tabs importing at
\* once, uploads, the trash and crashes in between.
THEOREM MapIsTrue == Spec => []MappedToOwnContent
BY MapAlways, PTL DEF MapInv

-----------------------------------------------------------------------------
(* One copy                                                                *)

\* A row that is not active has been in the trash.  From the lookup that has found no
\* active row on, every import row of the content in hand has been.
Copies ==
    /\ \A f \in DOMAIN files : files[f].active \/ files[f].trashed
    /\ \A p \in Pages : page[p].pc \in Storing =>
          \A f \in DOMAIN files :
              files[f].source = "import" /\ files[f].hash = Hand(p) => files[f].trashed
    /\ OneImportedCopy

\* A step that leaves the rows alone and stores nothing that has not been looked up.
LEMMA CopiesRest ==
    ASSUME Copies, UNCHANGED files,
           \A q \in Pages : page'[q].pc \in Storing =>
              page[q].pc \in Storing /\ page'[q].item = page[q].item
    PROVE  Copies'
BY DEF Copies, OneImportedCopy, Hand

\* A row that is added: an upload's, or the first import row of its content.
LEMMA CopiesAppend ==
    ASSUME Copies, TypeOK, NEW row \in FileRow, files' = Append(files, row), row.active,
           row.source = "import" => \A f \in DOMAIN files :
              files[f].source = "import" /\ files[f].hash = row.hash => files[f].trashed,
           \A q \in Pages : page'[q].pc \in Storing =>
              /\ row.source = "upload"
              /\ page[q].pc \in Storing /\ page'[q].item = page[q].item
    PROVE  Copies'
<1> DEFINE n == Len(files) + 1
<1>1. \A f \in DOMAIN files' : (f = n /\ files'[f] = row)
                              \/ (f \in DOMAIN files /\ files'[f] = files[f])
  BY AppendGrows DEF TypeOK
<1> HIDE DEF n
<1>2. \A f \in DOMAIN files' : files'[f].active \/ files'[f].trashed
  BY <1>1 DEF Copies
<1>3. ASSUME NEW q \in Pages, page'[q].pc \in Storing, NEW f \in DOMAIN files',
             files'[f].source = "import", files'[f].hash = Hand(q)'
      PROVE  files'[f].trashed
  BY <1>1, <1>3 DEF Copies, Hand
<1>4. OneImportedCopy'
  BY <1>1 DEF Copies, OneImportedCopy
<1> QED BY <1>2, <1>3, <1>4 DEF Copies

LEMMA CopiesStep ==
    ASSUME NEW p, Pages = {p}, MapInv, Copies, [Next]_vars
    PROVE  Copies'
<1> USE PCsNamed
<1>0. page[p] \in PageRow /\ RowSound(page[p]) /\ TypeOK  BY DEF MapInv, TypeOK
<1>n. Len(files) \in Nat /\ DOMAIN files = 1..Len(files)  BY <1>0 DEF TypeOK
<1>p. \A q \in Pages : q = p  OBVIOUS
<1>1. CASE PageStep(p) /\ ~ImportFinds(p) /\ ~ImportCreatesRow(p)
  <2>1. UNCHANGED files
    BY <1>1 DEF PageStep, BatchStep, PageScans, PageImports, PageCloses, ScanSeesFile,
                ScanSkipsFile, ScanEnds, HashTakes, HashInspects, HashCannotRead, HashMarks,
                HashCounts, HashAsks, HashEnds, ImportLoadsJob, ImportMakesFolder, ImportBegins,
                ImportTakes, ImportCannotRead, ImportSeesBlob, ImportCopies, ImportCopied,
                ImportMarks, ImportCounts, ImportAsks, ImportEnds, store
  <2>2. CASE ImportSeesBlob(p) \/ ImportCopies(p) \/ ImportCopied(p)
    BY <1>0, <1>p, <2>1, <2>2, CopiesRest
       DEF TypeOK, PageRow, ImportSeesBlob, ImportCopies, ImportCopied, Goes, At, Storing
  <2>3. CASE HashMarks(p) \/ ImportMarks(p)
    <3>1. PICK status \in {"new", "duplicate", "imported", "error"}, file \in Nat \cup {page[p].file},
               next \in {"inspect", "find"} : Marks(p, status, file, next)
      <4>1. CASE HashMarks(p)  BY <4>1 DEF HashMarks
      <4>2. CASE ImportMarks(p)  BY <4>2 DEF ImportMarks
      <4> QED BY <2>3, <4>1, <4>2
    <3>2. page'[p].pc = next  BY <1>0, <3>1 DEF TypeOK, PageRow, Marks
    <3> QED BY <1>p, <2>1, <3>2, CopiesRest DEF Storing
  <2>4. CASE HashTakes(p) \/ ImportTakes(p)
    <3>1. page'[p].pc \in {"inspect", "find", "finish"}
      BY <1>0, <2>4 DEF TypeOK, PageRow, HashTakes, ImportTakes, Takes, Goes
    <3> QED BY <1>p, <2>1, <3>1, CopiesRest DEF Storing
  <2>5. CASE ScanSeesFile(p) \/ ScanSkipsFile(p)
    <3>1. page'[p].pc = "walk"
      BY <1>0, <2>5 DEF TypeOK, PageRow, ScanSeesFile, ScanSkipsFile, At
    <3> QED BY <1>p, <2>1, <3>1, CopiesRest DEF Storing
  <2>6. CASE HashInspects(p) \/ HashCannotRead(p) \/ ImportCannotRead(p)
    <3>1. page'[p].pc \in {"judge", "unread", "failed"}
      <4>1. CASE HashInspects(p)  BY <1>0, <4>1 DEF TypeOK, PageRow, HashInspects
      <4>2. CASE HashCannotRead(p)  BY <1>0, <4>2 DEF TypeOK, PageRow, HashCannotRead
      <4>3. CASE ImportCannotRead(p)  BY <1>0, <4>3 DEF TypeOK, PageRow, ImportCannotRead
      <4> QED BY <2>6, <4>1, <4>2, <4>3
    <3> QED BY <1>p, <2>1, <3>1, CopiesRest DEF Storing
  <2>7. CASE \/ \E k \in Jobs : PageScans(p, k) \/ PageImports(p, k)
             \/ PageCloses(p) \/ HashEnds(p) \/ ImportEnds(p) \/ ImportLoadsJob(p)
    <3>1. page'[p].pc \in {"walk", "import", "idle", "folder", "begin", "take"}
      <4>1. ASSUME NEW k \in Jobs, PageScans(p, k) \/ PageImports(p, k)
            PROVE  page'[p].pc \in {"walk", "import"}
        <5>1. PageScans(p, k) => page'[p].pc = "walk"
          BY <1>0, RowStarts DEF TypeOK, PageScans
        <5>2. PageImports(p, k) => page'[p].pc = "import"
          BY <1>0, RowStarts DEF TypeOK, PageImports
        <5> QED BY <4>1, <5>1, <5>2
      <4>2. CASE PageCloses(p) \/ HashEnds(p) \/ ImportEnds(p)
        BY <1>0, <4>2, NoPageTyped DEF TypeOK, PageCloses, HashEnds, ImportEnds, Leaves
      <4>3. CASE ImportLoadsJob(p)
        BY <1>0, <4>3, NoPageTyped DEF TypeOK, PageRow, ImportLoadsJob, Goes, Leaves
      <4> QED BY <2>7, <4>1, <4>2, <4>3
    <3> QED BY <1>p, <2>1, <3>1, CopiesRest DEF Storing
  <2>8. CASE \/ ScanEnds(p) \/ HashAsks(p) \/ HashCounts(p) \/ ImportMakesFolder(p)
             \/ ImportBegins(p) \/ ImportCounts(p) \/ ImportAsks(p)
    <3>1. page'[p].pc \in {"hash", "scanned", "hashed", "begin", "take", "ask", "finish", "import"}
      BY <1>0, <2>8
         DEF TypeOK, PageRow, ScanEnds, HashAsks, HashCounts, ImportMakesFolder, ImportBegins,
             ImportCounts, ImportAsks, Goes
    <3> QED BY <1>p, <2>1, <3>1, CopiesRest DEF Storing
  <2> QED BY <1>1, <2>2, <2>3, <2>4, <2>5, <2>6, <2>7, <2>8 DEF PageStep, BatchStep
<1>2. CASE ImportFinds(p)
  <2>1. PICK i \in page[p].todo : \E f \in Lookups(ContentOf[i]) :
           page' = [page EXCEPT ![p].pc = IF f = 0 THEN "blob" ELSE "known",
                                ![p].item = i, ![p].file = f]
    BY <1>2 DEF ImportFinds
  <2>2. UNCHANGED files  BY <1>2 DEF ImportFinds, store
  <2>3. PICK f \in Lookups(ContentOf[i]) :
           page' = [page EXCEPT ![p].pc = IF f = 0 THEN "blob" ELSE "known",
                                ![p].item = i, ![p].file = f]
    BY <2>1
  <2>4. page'[p].item = i /\ (page'[p].pc \in Storing => f = 0)
    BY <1>0, <2>3 DEF TypeOK, PageRow, Storing
  <2>5. f = 0 => \A g \in DOMAIN files : files[g].hash = ContentOf[i] => ~files[g].active
    BY <1>n DEF Lookups, ActiveRows
  <2>6. ASSUME NEW q \in Pages, page'[q].pc \in Storing, NEW g \in DOMAIN files,
               files[g].hash = ContentOf[page'[q].item]
        PROVE  files[g].trashed
    BY <1>p, <2>4, <2>5, <2>6 DEF Copies
  <2> QED BY <2>2, <2>6 DEF Copies, OneImportedCopy, Hand
<1>3. CASE ImportCreatesRow(p)
  <2> DEFINE row == [hash |-> Hand(p), active |-> TRUE, trashed |-> FALSE, source |-> "import"]
  <2>1. page[p].pc \in Storing /\ page'[p].pc \notin Storing /\ files' = Append(files, row)
    BY <1>0, <1>3 DEF TypeOK, PageRow, ImportCreatesRow, At, Storing
  <2>2. row \in FileRow /\ row.active /\ row.hash = Hand(p)
    BY <1>0, <2>1, ImportAssumption DEF RowSound, InHand, Hand, FileRow
  <2>3. \A f \in DOMAIN files :
           files[f].source = "import" /\ files[f].hash = row.hash => files[f].trashed
    BY <2>1, <2>2 DEF Copies
  <2> HIDE DEF row
  <2> QED BY <1>0, <1>p, <2>1, <2>2, <2>3, CopiesAppend
<1>4. ASSUME NEW u \in Uploads, UploadStep(u)  PROVE Copies'
  <2>1. UNCHANGED page  BY <1>4 DEF UploadStep, UploadSees, UploadMoves, UploadCreatesRow
  <2>2. CASE UNCHANGED files  BY <2>1, <2>2, CopiesRest
  <2>3. CASE UploadCreatesRow(u)
    <3> DEFINE row == [hash |-> upload[u].content, active |-> TRUE, trashed |-> FALSE,
                       source |-> "upload"]
    <3>1. row \in FileRow /\ row.active /\ row.source = "upload"
      BY <1>0, <2>3 DEF TypeOK, UploadCreatesRow, FileRow
    <3>2. files' = Append(files, row)  BY <2>3 DEF UploadCreatesRow
    <3> HIDE DEF row
    <3> QED BY <1>0, <2>1, <3>1, <3>2, CopiesAppend
  <2> QED BY <1>4, <2>2, <2>3 DEF UploadStep, UploadSees, UploadMoves, store
<1>5. ASSUME NEW f \in DOMAIN files, TrashOrRestore(f)  PROVE Copies'
  <2>1. files[f] \in FileRow  BY <1>0 DEF TypeOK
  <2>2. DOMAIN files' = DOMAIN files /\ UNCHANGED page  BY <1>5 DEF TrashOrRestore
  <2>3. \A g \in DOMAIN files : g # f => files'[g] = files[g]  BY <1>5 DEF TrashOrRestore
  <2>4. files'[f].trashed  BY <1>5, <2>1 DEF TrashOrRestore, FileRow
  <2>5. \A g \in DOMAIN files : files'[g].hash = files[g].hash /\ files'[g].source = files[g].source
    BY <1>5, <2>1 DEF TrashOrRestore, FileRow
  <2>6. \A g \in DOMAIN files : files[g].trashed => files'[g].trashed  BY <2>3, <2>4
  <2>7. \A g \in DOMAIN files : files'[g].active \/ files'[g].trashed  BY <2>3, <2>4 DEF Copies
  <2>8. OneImportedCopy'  BY <2>2, <2>5, <2>6 DEF Copies, OneImportedCopy
  <2> QED BY <2>2, <2>5, <2>6, <2>7, <2>8 DEF Copies, Hand
<1>6. CASE Crash
  <2>1. UNCHANGED files /\ \A q \in Pages : page'[q].pc = "idle"
    BY <1>6, NoPageTyped DEF Crash, store
  <2> QED BY <2>1, CopiesRest DEF Storing
<1>7. CASE UNCHANGED vars
  BY <1>7, CopiesRest DEF vars, store
<1> QED BY <1>1, <1>2, <1>3, <1>4, <1>5, <1>6, <1>7 DEF Next

\* OneImportedCopy: with one tab importing, whatever the number of jobs, scans and crashes.
THEOREM OneCopy ==
    ASSUME NEW p, Pages = {p}
    PROVE  Spec => []OneImportedCopy
<1>1. Init => Copies
  BY NoPageTyped DEF Init, Copies, OneImportedCopy, Storing
<1>2. MapInv /\ Copies /\ [Next]_vars => Copies'
  BY CopiesStep
<1>3. Copies => OneImportedCopy
  BY DEF Copies
<1> QED BY <1>1, <1>2, <1>3, MapAlways, PTL DEF Spec

-----------------------------------------------------------------------------
(* Nothing forgotten                                                       *)

Scanned == {"scanned", "importing", "completed"}

\* What the statement a call has reached says of its job, ...
RowDealt(row) ==
    LET status == job[row.job].status
    IN  /\ row.pc \in ScanPCs => status = "scanning"
        /\ row.pc \in ImportPCs \cup {"import"} => status \in Scanned
        /\ row.pc = "scanned" => ItemsOf(row.job, "pending") = {}
        /\ row.pc = "finish" => ItemsOf(row.job, "new") = {}

\* ... a job's status of its items ...
JobDealt(k) ==
    /\ job[k].status \in Scanned => ItemsOf(k, "pending") = {}
    /\ job[k].status = "completed" => ItemsOf(k, "new") = {}

\* ... and a job is scanned by one tab.
ScansApart == \A p, q \in Pages :
    p # q /\ page[p].pc \in ScanPCs /\ page[q].pc \in ScanPCs => page[p].job # page[q].job

Dealt == /\ \A p \in Pages : RowDealt(page[p])
         /\ \A k \in Jobs : JobDealt(k)
         /\ ScansApart

\* The step is a tab's own, which goes on with its scan or has none.
Own(p) == /\ \A q \in Pages \ {p} : page'[q] = page[q]
          /\ page'[p].pc \in ScanPCs => page[p].pc \in ScanPCs /\ page'[p].job = page[p].job

LEMMA OwnApart ==
    ASSUME Dealt, NEW p \in Pages, Own(p)
    PROVE  ScansApart'
BY DEF Dealt, ScansApart, Own

\* A step of the call alone.
LEMMA DealtMoves ==
    ASSUME Dealt, NEW p \in Pages, Own(p), UNCHANGED <<job, item>>, RowDealt(page'[p])
    PROVE  Dealt'
<1>1. \A q \in Pages : RowDealt(page'[q])  BY DEF Dealt, Own
<1>2. \A q \in Pages : RowDealt(page[q])'  BY <1>1 DEF RowDealt, ItemsOf
<1>3. \A k \in Jobs : JobDealt(k)'  BY DEF Dealt, JobDealt, ItemsOf
<1> QED BY <1>2, <1>3, OwnApart DEF Dealt

\* A step that writes one job's row, which nobody else is at work on, unless its status
\* stays, or stays that of a job that has been scanned.
LEMMA DealtWrites ==
    ASSUME Dealt, NEW p \in Pages, \A q \in Pages \ {p} : page'[q] = page[q], ScansApart',
           NEW k \in Jobs, UNCHANGED item, \A x \in Jobs \ {k} : job'[x] = job[x],
           \A q \in Pages : RowSound(page[q]),
           \A q \in Pages \ {p} : page[q].pc # "idle" /\ page[q].job = k =>
              \/ job'[k].status = job[k].status
              \/ job[k].status \in Scanned /\ job'[k].status \in Scanned,
           JobDealt(k)', RowDealt(page[p])'
    PROVE  Dealt'
<1>1. ASSUME NEW x \in Jobs \ {k}  PROVE JobDealt(x)'
  BY <1>1 DEF Dealt, JobDealt, ItemsOf
<1>2. ASSUME NEW q \in Pages \ {p}  PROVE RowDealt(page[q])'
  <2>1. RowDealt(page[q]) /\ page'[q] = page[q]  BY <1>2 DEF Dealt
  <2>2. CASE page[q].pc = "idle"  BY <2>1, <2>2 DEF RowDealt, ScanPCs, ImportPCs
  <2>3. CASE page[q].pc # "idle" /\ page[q].job # k
    BY <2>1, <2>3 DEF RowDealt, RowSound, ItemsOf
  <2>4. CASE page[q].pc # "idle" /\ page[q].job = k
    <3>1. CASE job'[k].status = job[k].status  BY <2>1, <2>4, <3>1 DEF RowDealt, ItemsOf
    <3>2. CASE job[k].status \in Scanned /\ job'[k].status \in Scanned
      <4>1. page[q].pc \notin ScanPCs  BY <2>1, <2>4, <3>2 DEF RowDealt, Scanned
      <4> QED BY <2>1, <2>4, <3>2, <4>1 DEF RowDealt, ItemsOf, ScanPCs
    <3> QED BY <1>2, <2>4, <3>1, <3>2
  <2> QED BY <2>2, <2>3, <2>4
<1> QED BY <1>1, <1>2 DEF Dealt

\* A step that writes one item of the call's job, and makes it new or pending only while the
\* job is scanned.
LEMMA DealtMarks ==
    ASSUME Dealt, TypeOK, NEW p \in Pages, Own(p), RowSound(page[p]), UNCHANGED job,
           page[p].pc \in ScanPCs \cup ImportPCs, NEW i \in Items, NEW row \in ItemRow,
           item' = [item EXCEPT ![page[p].job][i] = row],
           row.status \in {"pending", "new"} => page[p].pc \in ScanPCs,
           page'[p].job = page[p].job, page'[p].pc \in {"walk", "inspect", "find"},
           page'[p].pc \in ScanPCs <=> page[p].pc \in ScanPCs
    PROVE  Dealt'
<1> DEFINE j == page[p].job
<1>1. j \in Jobs  BY DEF RowSound, ScanPCs, ImportPCs
<1>2. page[p].pc \in ScanPCs => job[j].status = "scanning"  BY DEF Dealt, RowDealt
<1>3. page[p].pc \notin ScanPCs => job[j].status \in Scanned
  BY DEF Dealt, RowDealt
<1>4. \A x \in Jobs, y \in Items : item'[x][y] = item[x][y] \/ (x = j /\ y = i /\ item'[x][y] = row)
  BY <1>1 DEF TypeOK
<1>5. ASSUME NEW x \in Jobs  PROVE JobDealt(x)'
  <2>1. JobDealt(x)  BY DEF Dealt
  <2>2. CASE x # j  BY <1>4, <2>1, <2>2 DEF JobDealt, ItemsOf
  <2>3. CASE x = j /\ page[p].pc \in ScanPCs  BY <1>2, <2>3 DEF JobDealt, Scanned
  <2>4. CASE x = j /\ page[p].pc \notin ScanPCs
    BY <1>3, <1>4, <2>1, <2>4 DEF JobDealt, ItemsOf
  <2> QED BY <2>2, <2>3, <2>4
<1>6. RowDealt(page[p])'
  BY <1>2, <1>3 DEF RowDealt, ScanPCs, ImportPCs
<1>7. ASSUME NEW q \in Pages \ {p}  PROVE RowDealt(page[q])'
  <2>1. RowDealt(page[q]) /\ page'[q] = page[q]  BY <1>7 DEF Dealt, Own
  <2>2. CASE page[q].job # j
    BY <2>1, <2>2 DEF RowDealt, ItemsOf, TypeOK
  <2>3. CASE page[q].job = j /\ page[p].pc \in ScanPCs
    <3>1. page[q].pc \notin ScanPCs  BY <1>7, <2>3 DEF Dealt, ScansApart
    <3>2. page[q].pc \notin ImportPCs \cup {"import"}  BY <1>2, <2>1, <2>3 DEF RowDealt, Scanned
    <3> QED BY <2>1, <3>1, <3>2 DEF RowDealt, ScanPCs, ImportPCs
  <2>4. CASE page[q].job = j /\ page[p].pc \notin ScanPCs
    <3>1. page[q].pc \notin ScanPCs  BY <1>3, <2>1, <2>4 DEF RowDealt, Scanned
    <3>2. ItemsOf(j, "new") = {} => ItemsOf(j, "new")' = {}
      BY <1>1, <1>4, <2>4 DEF ItemsOf
    <3> QED BY <2>1, <2>4, <3>1, <3>2 DEF RowDealt, ScanPCs
  <2> QED BY <2>2, <2>3, <2>4
<1> QED BY <1>5, <1>6, <1>7, OwnApart DEF Dealt

\* A statement of one tab leaves the others alone.
LEMMA OthersKept ==
    ASSUME NEW p \in Pages, TypeOK, PageStep(p)
    PROVE  \A q \in Pages \ {p} : page'[q] = page[q]
<1>1. ASSUME NEW pc, page' = [page EXCEPT ![p].pc = pc]  PROVE \A q \in Pages \ {p} : page'[q] = page[q]
  BY <1>1 DEF TypeOK
<1>2. CASE \/ ScanEnds(p) \/ HashAsks(p) \/ ImportMakesFolder(p) \/ ImportBegins(p)
           \/ ImportSeesBlob(p) \/ ImportCopies(p) \/ ImportCopied(p) \/ ImportAsks(p)
  BY <1>2, <1>1 DEF Goes, ScanEnds, HashAsks, ImportMakesFolder, ImportBegins, ImportSeesBlob,
                    ImportCopies, ImportCopied, ImportAsks
<1>3. CASE Leaves(p)  BY <1>3 DEF TypeOK, Leaves
<1>4. CASE ImportLoadsJob(p)  BY <1>1, <1>3, <1>4 DEF ImportLoadsJob, Goes
<1>5. CASE HashEnds(p) \/ ImportEnds(p) \/ PageCloses(p)
  BY <1>3, <1>5 DEF HashEnds, ImportEnds, PageCloses
<1>6. CASE HashTakes(p) \/ ImportTakes(p)
  BY <1>1, <1>6 DEF TypeOK, HashTakes, ImportTakes, Takes, Goes
<1>7. CASE ScanSeesFile(p) \/ ScanSkipsFile(p)
  BY <1>7 DEF TypeOK, ScanSeesFile, ScanSkipsFile
<1>8. CASE HashInspects(p)  BY <1>8 DEF TypeOK, HashInspects
<1>9. CASE HashCannotRead(p) \/ ImportCannotRead(p)
  BY <1>9 DEF TypeOK, HashCannotRead, ImportCannotRead
<1>10. CASE HashMarks(p)  BY <1>10 DEF TypeOK, HashMarks, Marks
<1>11. CASE ImportMarks(p)  BY <1>11 DEF TypeOK, ImportMarks, Marks
<1>12. CASE HashCounts(p) \/ ImportCounts(p)  BY <1>12 DEF TypeOK, HashCounts, ImportCounts
<1>13. CASE ImportFinds(p)  BY <1>13 DEF TypeOK, ImportFinds
<1>14. CASE ImportCreatesRow(p)  BY <1>14 DEF TypeOK, ImportCreatesRow
<1>15. ASSUME NEW k \in Jobs, PageScans(p, k) \/ PageImports(p, k)
       PROVE  \A q \in Pages \ {p} : page'[q] = page[q]
  BY <1>15 DEF TypeOK, PageScans, PageImports
<1> QED BY <1>2, <1>4, <1>5, <1>6, <1>7, <1>8, <1>9, <1>10, <1>11, <1>12, <1>13, <1>14, <1>15
        DEF PageStep, BatchStep

\* Every statement of a tab keeps the invariant.
LEMMA DealtStep ==
    ASSUME MapInv, Dealt, NEW p \in Pages, PageStep(p)
    PROVE  Dealt'
<1> USE PCsNamed
<1>0. page[p] \in PageRow /\ RowSound(page[p]) /\ TypeOK  BY DEF MapInv, TypeOK
<1>d. RowDealt(page[p]) /\ \A q \in Pages : RowSound(page[q]) /\ RowDealt(page[q])
  BY DEF Dealt, MapInv
<1>o. \A q \in Pages \ {p} : page'[q] = page[q]  BY <1>0, OthersKept
<1>a. ASSUME page'[p].pc \in ScanPCs => page[p].pc \in ScanPCs /\ page'[p].job = page[p].job
      PROVE  Own(p)
  BY <1>o, <1>a DEF Own
<1> DEFINE j == page[p].job
<1>j. page[p].pc # "idle" => j \in Jobs /\ job[j] \in JobRow /\ JobDealt(j)
  BY <1>0 DEF RowSound, TypeOK, Dealt
<1>l. ASSUME Leaves(p)  PROVE page'[p].pc = "idle"
  BY <1>0, <1>l, NoPageTyped DEF TypeOK, Leaves
<1>1. ASSUME NEW k \in Jobs, PageScans(p, k)  PROVE Dealt'
  <2>1. page'[p].pc = "walk" /\ page'[p].job = k
    BY <1>0, <1>1, RowStarts DEF TypeOK, PageScans
  <2>2. job'[k].status = "scanning" /\ \A x \in Jobs \ {k} : job'[x] = job[x]
    BY <1>0, <1>1 DEF TypeOK, PageScans, JobRow
  <2>3. UNCHANGED item /\ job[k].status = "none"  BY <1>1 DEF PageScans
  <2>4. JobDealt(k)'  BY <2>2 DEF JobDealt, Scanned
  <2>5. RowDealt(page[p])'  BY <2>1, <2>2 DEF RowDealt, ScanPCs, ImportPCs
  <2>6. \A q \in Pages : page[q].pc # "idle" => page[q].job # k
    BY <1>0, <1>d, <2>3 DEF RowDealt, MapInv, TypeOK, PageRow, PagePCs, Scanned
  <2>7. \A q \in Pages : page[q].pc \in ScanPCs => page[q].job # k  BY <2>6 DEF ScanPCs
  <2>8. ScansApart'
    BY <1>o, <2>1, <2>7 DEF Dealt, ScansApart
  <2> QED BY <1>d, <1>o, <2>2, <2>3, <2>4, <2>5, <2>6, <2>8, DealtWrites
<1>2. ASSUME NEW k \in Jobs, PageImports(p, k)  PROVE Dealt'
  <2>1. page'[p].pc = "import" /\ page'[p].job = k
    BY <1>0, <1>2, RowStarts DEF TypeOK, PageImports
  <2>2. job[k].status \in Scanned /\ UNCHANGED <<job, item>>
    BY <1>2 DEF PageImports, Scanned
  <2>3. RowDealt(page'[p])  BY <2>1, <2>2 DEF RowDealt, ScanPCs, ImportPCs
  <2>4. Own(p)  BY <1>a, <2>1 DEF ScanPCs
  <2> QED BY <2>2, <2>3, <2>4, DealtMoves
<1>3. CASE ScanSeesFile(p)
  <2>1. PICK i \in page[p].todo :
           /\ item' = [item EXCEPT ![j][i].status = "pending"]
           /\ page' = [page EXCEPT ![p].todo = @ \ {i}]
    BY <1>3 DEF ScanSeesFile
  <2>2. page[p].pc = "walk" /\ UNCHANGED job /\ j \in Jobs /\ i \in Items
    BY <1>0, <1>3, <1>j DEF ScanSeesFile, At, PageRow
  <2> DEFINE row == [item[j][i] EXCEPT !.status = "pending"]
  <2>3. row \in ItemRow /\ item' = [item EXCEPT ![j][i] = row]
    <3>1. item[j] \in [Items -> ItemRow] /\ item[j][i] \in ItemRow  BY <1>0, <2>2 DEF TypeOK
    <3>2. row \in ItemRow  BY <3>1 DEF ItemRow, ItemStatuses
    <3> QED BY <2>1, <3>2
  <2>4. page'[p].pc = "walk" /\ page'[p].job = j
    BY <1>0, <2>1, <2>2 DEF TypeOK, PageRow
  <2> HIDE DEF row
  <2>5. "walk" \in ScanPCs /\ Own(p)  BY <1>a, <2>2, <2>4 DEF ScanPCs
  <2> QED BY <1>0, <2>2, <2>3, <2>4, <2>5, DealtMarks
<1>4. CASE HashMarks(p) \/ ImportMarks(p)
  <2>1. PICK status \in {"new", "duplicate", "imported", "error"}, file \in Nat,
             next \in {"inspect", "find"} :
           /\ Marks(p, status, file, next)
           /\ next = "inspect" => page[p].pc \in {"judge", "unread"}
           /\ next = "find" => page[p].pc \in {"failed", "known", "created"} /\ status # "new"
    <3>1. page[p].file \in Nat  BY <1>0 DEF PageRow
    <3>2. CASE HashMarks(p)  BY <3>1, <3>2 DEF HashMarks, At
    <3>3. CASE ImportMarks(p)  BY <3>1, <3>3 DEF ImportMarks, At
    <3> QED BY <1>4, <3>2, <3>3
  <2> DEFINE row == [status |-> status, file |-> file]
             i   == page[p].item
  <2>2. i \in Items  BY <1>0, <2>1 DEF RowSound, InHand
  <2>3. row \in ItemRow /\ row.status = status  BY DEF ItemRow, ItemStatuses
  <2>4. UNCHANGED job /\ item' = [item EXCEPT ![j][i] = row]
    BY <1>4, <2>1 DEF HashMarks, ImportMarks, Marks
  <2>5. page'[p].pc = next /\ page'[p].job = j
    BY <1>0, <2>1 DEF TypeOK, PageRow, Marks
  <2>6. /\ page[p].pc \in ScanPCs \cup ImportPCs
        /\ page[p].pc \in ScanPCs <=> next \in ScanPCs
        /\ status \in {"pending", "new"} => page[p].pc \in ScanPCs
    BY <2>1 DEF ScanPCs, ImportPCs
  <2>7. Own(p)  BY <1>a, <2>5, <2>6
  <2> HIDE DEF row, i
  <2> QED BY <1>0, <2>2, <2>3, <2>4, <2>5, <2>6, <2>7, DealtMarks
\* Statements of the call alone.
<1>g. ASSUME UNCHANGED <<job, item>>, page'[p].pc \in ScanPCs => page[p].pc \in ScanPCs,
             page'[p].pc \in ImportPCs => page[p].pc \in ImportPCs,
             page'[p].pc \in {"import", "scanned", "finish"} => page'[p].pc = page[p].pc,
             page'[p].pc # "idle" => page'[p].job = j
      PROVE  Dealt'
  <2>1. RowDealt(page'[p])  BY <1>d, <1>g DEF RowDealt, ScanPCs, ImportPCs
  <2>2. Own(p)  BY <1>a, <1>g DEF ScanPCs
  <2> QED BY <1>g, <2>1, <2>2, DealtMoves
<1>5. CASE ScanSkipsFile(p) \/ ScanEnds(p) \/ HashTakes(p)
  <2>1. /\ UNCHANGED <<job, item>> /\ page[p].pc \in {"walk", "hash"}
        /\ page'[p].job = j /\ page'[p].pc \in {"walk", "hash", "inspect"}
    BY <1>0, <1>5 DEF TypeOK, PageRow, ScanSkipsFile, ScanEnds, HashTakes, Takes, Goes, At
  <2> QED BY <1>g, <2>1 DEF ScanPCs, ImportPCs
<1>6. CASE HashInspects(p) \/ HashCannotRead(p)
  <2>1. /\ UNCHANGED <<job, item>> /\ page[p].pc = "inspect"
        /\ page'[p].job = j /\ page'[p].pc \in {"judge", "unread"}
    <3>1. CASE HashInspects(p)
      BY <1>0, <3>1 DEF TypeOK, PageRow, HashInspects, At
    <3>2. CASE HashCannotRead(p)
      BY <1>0, <3>2 DEF TypeOK, PageRow, HashCannotRead, At
    <3> QED BY <1>6, <3>1, <3>2
  <2> QED BY <1>g, <2>1 DEF ScanPCs, ImportPCs
<1>7. CASE ImportFinds(p) \/ ImportCannotRead(p)
  <2>1. /\ UNCHANGED <<job, item>> /\ page[p].pc = "find"
        /\ page'[p].job = j /\ page'[p].pc \in {"blob", "known", "failed"}
    <3>1. CASE ImportFinds(p)
      BY <1>0, <3>1 DEF TypeOK, PageRow, ImportFinds, At
    <3>2. CASE ImportCannotRead(p)
      BY <1>0, <3>2 DEF TypeOK, PageRow, ImportCannotRead, At
    <3> QED BY <1>7, <3>1, <3>2
  <2> QED BY <1>g, <2>1 DEF ScanPCs, ImportPCs
<1>8. CASE \/ ImportMakesFolder(p) \/ ImportSeesBlob(p) \/ ImportCopies(p) \/ ImportCopied(p)
           \/ ImportCreatesRow(p)
  <2>1. /\ UNCHANGED <<job, item>>
        /\ page[p].pc \in {"folder", "blob", "copy", "copying", "create"}
        /\ page'[p].job = j
        /\ page'[p].pc \in {"begin", "copy", "create", "copying", "failed", "created"}
    <3>1. CASE ImportCreatesRow(p)
      BY <1>0, <3>1 DEF TypeOK, PageRow, ImportCreatesRow, At
    <3>2. CASE ImportMakesFolder(p)
      BY <1>0, <3>2 DEF TypeOK, PageRow, ImportMakesFolder, Goes, At
    <3>3. CASE ImportSeesBlob(p) \/ ImportCopies(p) \/ ImportCopied(p)
      BY <1>0, <3>3 DEF TypeOK, PageRow, ImportSeesBlob, ImportCopies, ImportCopied, Goes, At
    <3> QED BY <1>8, <3>1, <3>2, <3>3
  <2> QED BY <1>g, <2>1 DEF ScanPCs, ImportPCs
<1>9. CASE PageCloses(p)
  <2>1. UNCHANGED <<job, item>> /\ page'[p].pc = "idle"  BY <1>9, <1>l DEF PageCloses
  <2> QED BY <1>g, <2>1 DEF ScanPCs, ImportPCs
<1>10. CASE HashAsks(p)
  <2>1. /\ UNCHANGED <<job, item>> /\ page[p].pc = "hashed" /\ page'[p].job = j
        /\ page'[p].pc = IF ItemsOf(j, "pending") = {} THEN "scanned" ELSE "hash"
    BY <1>0, <1>10 DEF TypeOK, PageRow, HashAsks, Goes, At
  <2>2. RowDealt(page'[p])  BY <1>d, <2>1 DEF RowDealt, ScanPCs, ImportPCs
  <2>3. Own(p)  BY <1>a, <2>1 DEF ScanPCs
  <2> QED BY <2>1, <2>2, <2>3, DealtMoves
<1>11. CASE ImportAsks(p)
  <2>1. /\ UNCHANGED <<job, item>> /\ page[p].pc = "ask" /\ page'[p].job = j
        /\ page'[p].pc = IF ItemsOf(j, "new") = {} THEN "finish" ELSE "import"
    BY <1>0, <1>11 DEF TypeOK, PageRow, ImportAsks, Goes, At
  <2>2. RowDealt(page'[p])  BY <1>d, <2>1 DEF RowDealt, ScanPCs, ImportPCs
  <2>3. Own(p)  BY <1>a, <2>1 DEF ScanPCs
  <2> QED BY <2>1, <2>2, <2>3, DealtMoves
<1>12. CASE ImportTakes(p)
  <2>1. /\ UNCHANGED <<job, item>> /\ page[p].pc = "take" /\ page'[p].job = j
        /\ page'[p].pc = IF ItemsOf(j, "new") = {} THEN "finish" ELSE "find"
    BY <1>0, <1>12 DEF TypeOK, PageRow, ImportTakes, Takes, Goes, At
  <2>2. RowDealt(page'[p])  BY <1>d, <2>1 DEF RowDealt, ScanPCs, ImportPCs
  <2>3. Own(p)  BY <1>a, <2>1 DEF ScanPCs
  <2> QED BY <2>1, <2>2, <2>3, DealtMoves
<1>13. CASE ImportLoadsJob(p)
  <2>1. UNCHANGED <<job, item>> /\ page[p].pc = "import"  BY <1>13 DEF ImportLoadsJob, At
  <2>2. CASE job[j].status = "completed"
    <3>1. page'[p].pc = "idle"  BY <1>13, <1>l, <2>2 DEF ImportLoadsJob
    <3> QED BY <1>g, <2>1, <3>1 DEF ScanPCs, ImportPCs
  <2>3. CASE job[j].status # "completed"
    <3>1. page'[p].job = j /\ page'[p].pc \in {"folder", "begin", "take"}
      BY <1>0, <1>13, <2>3 DEF TypeOK, PageRow, ImportLoadsJob, Goes
    <3>2. job[j].status \in Scanned  BY <1>d, <2>1 DEF RowDealt
    <3>3. RowDealt(page'[p])  BY <3>1, <3>2 DEF RowDealt, ScanPCs, ImportPCs
    <3>4. Own(p)  BY <1>a, <3>1 DEF ScanPCs
    <3> QED BY <2>1, <3>3, <3>4, DealtMoves
  <2> QED BY <2>2, <2>3
\* Statements that write the job.
<1>14. CASE HashEnds(p)
  <2>1. page[p].pc = "scanned" /\ UNCHANGED item /\ page'[p].pc = "idle"
    BY <1>14, <1>l DEF HashEnds, At
  <2>2. PICK k \in Jobs : k = j /\ ItemsOf(k, "pending") = {} /\ job[k].status = "scanning"
    BY <1>d, <1>j, <2>1 DEF RowDealt, ScanPCs
  <2>3. job'[k].status = "scanned" /\ \A x \in Jobs \ {k} : job'[x] = job[x]
    BY <1>0, <1>14, <2>2 DEF TypeOK, HashEnds, JobRow
  <2>4. JobDealt(k)'  BY <2>1, <2>2, <2>3 DEF JobDealt, ItemsOf
  <2>5. RowDealt(page[p])'  BY <2>1 DEF RowDealt, ScanPCs, ImportPCs
  <2>6. ASSUME NEW q \in Pages \ {p}, page[q].pc # "idle", page[q].job = k  PROVE FALSE
    <3>1. page[q].pc \notin ScanPCs  BY <2>1, <2>2, <2>6 DEF Dealt, ScansApart, ScanPCs
    <3>2. page[q].pc \notin ImportPCs \cup {"import"}
      BY <1>d, <2>2, <2>6 DEF RowDealt, Scanned
    <3> QED BY <2>6, <3>1, <3>2 DEF MapInv, TypeOK, PageRow, PagePCs
  <2>7. ScansApart'  BY <1>a, <2>1, OwnApart DEF ScanPCs
  <2> QED BY <1>d, <1>o, <2>1, <2>3, <2>4, <2>5, <2>6, <2>7, DealtWrites
<1>15. CASE ImportEnds(p)
  <2>1. page[p].pc = "finish" /\ UNCHANGED item /\ page'[p].pc = "idle"
    BY <1>15, <1>l DEF ImportEnds, At
  <2>2. PICK k \in Jobs : /\ k = j /\ ItemsOf(k, "new") = {} /\ ItemsOf(k, "pending") = {}
                         /\ job[k].status \in Scanned
    BY <1>d, <1>j, <2>1 DEF RowDealt, JobDealt, ImportPCs
  <2>3. job'[k].status = "completed" /\ \A x \in Jobs \ {k} : job'[x] = job[x]
    BY <1>0, <1>15, <2>2 DEF TypeOK, ImportEnds, JobRow
  <2>4. JobDealt(k)'  BY <2>1, <2>2, <2>3 DEF JobDealt, ItemsOf
  <2>5. RowDealt(page[p])'  BY <2>1 DEF RowDealt, ScanPCs, ImportPCs
  <2>6. job[k].status \in Scanned /\ job'[k].status \in Scanned  BY <2>2, <2>3 DEF Scanned
  <2>7. ScansApart'  BY <1>a, <2>1, OwnApart DEF ScanPCs
  <2> QED BY <1>d, <1>o, <2>1, <2>3, <2>4, <2>5, <2>6, <2>7, DealtWrites
<1>16. CASE ImportBegins(p)
  <2>1. page[p].pc = "begin" /\ UNCHANGED item /\ page'[p].pc = "take" /\ page'[p].job = j
    BY <1>0, <1>16 DEF TypeOK, PageRow, ImportBegins, Goes, At
  <2>2. PICK k \in Jobs : k = j /\ ItemsOf(k, "pending") = {} /\ job[k].status \in Scanned
    BY <1>d, <1>j, <2>1 DEF RowDealt, JobDealt, ImportPCs
  <2>3. job'[k].status = "importing" /\ \A x \in Jobs \ {k} : job'[x] = job[x]
    BY <1>0, <1>16, <2>2 DEF TypeOK, ImportBegins, JobRow
  <2>4. JobDealt(k)'  BY <2>1, <2>2, <2>3 DEF JobDealt, ItemsOf
  <2>5. RowDealt(page[p])'  BY <2>1, <2>2, <2>3 DEF RowDealt, ScanPCs, ImportPCs, Scanned
  <2>6. job[k].status \in Scanned /\ job'[k].status \in Scanned  BY <2>2, <2>3 DEF Scanned
  <2>7. ScansApart'  BY <1>a, <2>1, OwnApart DEF ScanPCs
  <2> QED BY <1>d, <1>o, <2>1, <2>3, <2>4, <2>5, <2>6, <2>7, DealtWrites
<1>17. CASE HashCounts(p) \/ ImportCounts(p)
  <2>1. /\ UNCHANGED item /\ page'[p].job = j
        /\ \/ page[p].pc = "inspect" /\ page'[p].pc = "hashed"
           \/ page[p].pc = "find" /\ page'[p].pc = "ask"
    BY <1>0, <1>17 DEF TypeOK, PageRow, HashCounts, ImportCounts, At
  <2>2. PICK k \in Jobs : k = j  BY <1>j, <2>1
  <2>3. job'[k].status = job[k].status /\ \A x \in Jobs \ {k} : job'[x] = job[x]
    BY <1>0, <1>17, <2>2 DEF TypeOK, HashCounts, ImportCounts, JobRow
  <2>4. JobDealt(k)'  BY <1>j, <2>1, <2>2, <2>3 DEF JobDealt, ItemsOf
  <2>5. RowDealt(page[p])'  BY <1>d, <2>1, <2>2, <2>3 DEF RowDealt, ScanPCs, ImportPCs
  <2>6. ScansApart'  BY <1>a, <2>1, OwnApart DEF ScanPCs
  <2> QED BY <1>d, <1>o, <2>1, <2>3, <2>4, <2>5, <2>6, DealtWrites
<1> HIDE DEF j
<1> QED
  BY <1>1, <1>2, <1>3, <1>4, <1>5, <1>6, <1>7, <1>8, <1>9, <1>10, <1>11, <1>12, <1>13, <1>14, <1>15,
     <1>16, <1>17 DEF PageStep, BatchStep

LEMMA DealtNext == MapInv /\ Dealt /\ [Next]_vars => Dealt'
<1> SUFFICES ASSUME MapInv, Dealt, [Next]_vars  PROVE Dealt'
  OBVIOUS
<1>1. CASE (\E u \in Uploads : UploadStep(u)) \/ (\E f \in DOMAIN files : TrashOrRestore(f))
           \/ UNCHANGED vars
  <2>1. UNCHANGED <<job, item, page>>
    BY <1>1 DEF UploadStep, UploadSees, UploadMoves, UploadCreatesRow, TrashOrRestore, vars
  <2> QED BY <2>1 DEF Dealt, RowDealt, JobDealt, ScansApart, ItemsOf
<1>2. CASE Crash
  <2>1. UNCHANGED <<job, item>> /\ \A q \in Pages : page'[q].pc = "idle"
    BY <1>2, NoPageTyped DEF Crash
  <2>2. \A k \in Jobs : JobDealt(k)'  BY <2>1 DEF Dealt, JobDealt, ItemsOf
  <2> QED BY <2>1, <2>2 DEF Dealt, RowDealt, ScansApart, ScanPCs, ImportPCs
<1> QED BY <1>1, <1>2, DealtStep DEF Next

LEMMA DealtAlways == Spec => []Dealt
<1>1. Init => Dealt
  <2> SUFFICES ASSUME Init  PROVE Dealt
    OBVIOUS
  <2>1. \A q \in Pages : page[q].pc = "idle"  BY NoPageTyped DEF Init
  <2>2. \A k \in Jobs : job[k].status = "none"  BY DEF Init, NoJob
  <2> QED BY <2>1, <2>2 DEF Dealt, RowDealt, JobDealt, ScansApart, ScanPCs, ImportPCs, Scanned
<1> QED BY <1>1, DealtNext, MapAlways, PTL DEF Spec

\* CompletedDealtWithAll: no job is completed with a file left over, whatever tabs import it.
THEOREM NothingForgotten == Spec => []CompletedDealtWithAll
<1>1. Dealt => CompletedDealtWithAll
  BY DEF Dealt, JobDealt, CompletedDealtWithAll, Scanned
<1> QED BY <1>1, DealtAlways, PTL

-----------------------------------------------------------------------------
(* Counting                                                                *)

Of(k, S)    == {i \in Items : item[k][i].status \in S}
Count(k, S) == Cardinality(Of(k, S))

Judged == {"new", "duplicate", "imported", "error"}

\* Statements of a batch that has taken items and not counted them.
Hashing   == {"inspect", "judge", "unread"}
Importing == {"find", "known", "created", "failed"} \cup Storing

\* The items a batch still has to do are as it has read them, and its tallies are what it has
\* done of them so far.
BatchSound(row) ==
    /\ row.pc = "walk"       => \A i \in row.todo : item[row.job][i].status = "unseen"
    /\ row.pc \in Hashing    => \A i \in row.todo : item[row.job][i].status = "pending"
    /\ row.pc \in Importing  => \A i \in row.todo : item[row.job][i].status = "new"
    /\ row.pc \in InHand     => row.item \in row.todo
    /\ row.pc \notin Hashing \cup Importing => row.outcome = NoOutcome
    /\ row.pc \in ScanPCs    => row.outcome.imported = 0
    /\ row.pc \notin ScanPCs => row.outcome.new = 0

\* What a call has tallied and not yet written to the job, ...
Due(row, k) == IF row.job = k THEN row.outcome ELSE NoOutcome

\* ... makes up the difference between the job's counters and its items.
Balanced(row, k) ==
    LET due     == Due(row, k)
        goes == IF row.pc \in ScanPCs THEN 0 ELSE due.duplicate
    IN  /\ job[k].imported + due.imported = Count(k, {"imported"})
        /\ job[k].duplicate + due.duplicate = Count(k, {"duplicate"})
        /\ job[k].error + due.error = Count(k, {"error"})
        /\ job[k].new + due.new - goes >= Count(k, {"new", "imported"})
        /\ job[k].new + due.new - goes + job[k].duplicate + due.duplicate <= Count(k, Judged)

Counted(p) == /\ \A k \in Jobs : job[k].status = "none" => \A i \in Items : item[k][i].status = "unseen"
              /\ BatchSound(page[p])
              /\ \A k \in Jobs : Balanced(page[p], k)

LEMMA StatementsNamed ==
    /\ Hashing = {"inspect", "judge", "unread"}
    /\ Importing = {"find", "blob", "copy", "copying", "create", "known", "created", "failed"}
    /\ InHand = {"blob", "copy", "copying", "create", "judge", "unread", "known", "created", "failed"}
    /\ ScanPCs = {"walk", "hash", "inspect", "judge", "unread", "hashed", "scanned"}
BY DEF Hashing, Importing, InHand, Storing, ScanPCs

LEMMA NothingTallied ==
    /\ NoOutcome \in Tally /\ NoPage.outcome = NoOutcome
    /\ NoOutcome.new = 0 /\ NoOutcome.duplicate = 0 /\ NoOutcome.imported = 0 /\ NoOutcome.error = 0
BY DEF NoOutcome, NoPage, Tally

\* There are so many items of a kind.
LEMMA ItemsCount ==
    ASSUME NEW k, NEW S
    PROVE  IsFiniteSet(Of(k, S)) /\ Count(k, S) \in Nat
<1>1. Of(k, S) \subseteq Items  BY DEF Of
<1>2. IsFiniteSet(Of(k, S))  BY <1>1, ImportAssumption, FS_Subset
<1> QED BY <1>2, FS_CardinalityType DEF Count

\* Writing one item changes the counts by that item.
LEMMA CountMoves ==
    ASSUME TypeOK, NEW j \in Jobs, NEW i \in Items, NEW row \in ItemRow,
           item' = [item EXCEPT ![j][i] = row], NEW S
    PROVE  /\ Count(j, S)' = Count(j, S) + (IF row.status \in S THEN 1 ELSE 0)
                                         - (IF item[j][i].status \in S THEN 1 ELSE 0)
           /\ \A k \in Jobs \ {j} : Count(k, S)' = Count(k, S)
<1>1. item'[j][i] = row /\ \A x \in Items \ {i} : item'[j][x] = item[j][x]  BY DEF TypeOK
<1>2. \A k \in Jobs \ {j} : item'[k] = item[k]  BY DEF TypeOK
<1>3. \A k \in Jobs \ {j} : Count(k, S)' = Count(k, S)  BY <1>2 DEF Count, Of
<1> DEFINE rest == Of(j, S) \ {i}
<1>4. Of(j, S)' = IF row.status \in S THEN rest \cup {i} ELSE rest  BY <1>1 DEF Of
<1>5. Of(j, S) = IF item[j][i].status \in S THEN rest \cup {i} ELSE rest  BY DEF Of
<1>6. IsFiniteSet(rest) /\ i \notin rest  BY ItemsCount, FS_RemoveElement
<1> HIDE DEF rest
<1>7. PICK n \in Nat : n = Cardinality(rest)  BY <1>6, FS_CardinalityType
<1>8. Cardinality(rest \cup {i}) = n + 1  BY <1>6, <1>7, FS_AddElement
<1>9. Count(j, S) = IF item[j][i].status \in S THEN n + 1 ELSE n
  BY <1>5, <1>7, <1>8 DEF Count
<1>10. Count(j, S)' = IF row.status \in S THEN n + 1 ELSE n
  BY <1>4, <1>7, <1>8 DEF Count
<1> QED BY <1>3, <1>9, <1>10

SameCounters(k) == /\ job'[k].imported = job[k].imported /\ job'[k].duplicate = job[k].duplicate
                   /\ job'[k].error = job[k].error /\ job'[k].new = job[k].new

\* A step that leaves the items, the counters and the tallies.
LEMMA CountedRests ==
    ASSUME NEW p, Counted(p), UNCHANGED item, \A k \in Jobs : SameCounters(k),
           \A k \in Jobs : job'[k].status = "none" => job[k].status = "none",
           BatchSound(page[p])',
           \/ page[p].outcome = NoOutcome /\ page'[p].outcome = NoOutcome
           \/ /\ page'[p].outcome = page[p].outcome /\ page'[p].job = page[p].job
              /\ page[p].pc \in ScanPCs <=> page'[p].pc \in ScanPCs
    PROVE  Counted(p)'
<1>1. ASSUME NEW k \in Jobs PROVE Balanced(page[p], k)'
  <2>1. Balanced(page[p], k) /\ SameCounters(k)  BY DEF Counted
  <2>2. \A S : Count(k, S)' = Count(k, S)  BY DEF Count, Of
  <2>3. Due(page[p], k)' = Due(page[p], k)  BY DEF Due
  <2>4. \/ Due(page[p], k).duplicate = 0
        \/ page[p].pc \in ScanPCs <=> page'[p].pc \in ScanPCs
    BY NothingTallied DEF Due
  <2> QED BY <2>1, <2>2, <2>3, <2>4 DEF Balanced, SameCounters
<1> QED BY <1>1 DEF Counted

\* Marking the item in hand moves it from one count to the other, and tallies it.
LEMMA CountedMarks ==
    ASSUME NEW p \in Pages, MapInv, Counted(p), HashMarks(p) \/ ImportMarks(p),
           page[p].pc \in ScanPCs \cup ImportPCs, job[page[p].job].status # "none"
    PROVE  Counted(p)'
<1>0. page[p] \in PageRow /\ RowSound(page[p]) /\ TypeOK  BY DEF MapInv, TypeOK
<1>1. PICK status \in {"new", "duplicate", "imported", "error"}, file \in Nat,
           next \in {"inspect", "find"} :
         /\ Marks(p, status, file, next)
         /\ \/ next = "inspect" /\ page[p].pc \in {"judge", "unread"} /\ status # "imported"
            \/ next = "find" /\ page[p].pc \in {"failed", "known", "created"} /\ status # "new"
  <2>1. page[p].file \in Nat  BY <1>0 DEF PageRow
  <2>2. CASE HashMarks(p)  BY <2>1, <2>2 DEF HashMarks, At
  <2>3. CASE ImportMarks(p)  BY <2>1, <2>3 DEF ImportMarks, At
  <2> QED BY <2>2, <2>3
<1>2. PICK j \in Jobs, i \in Items :
         j = page[p].job /\ i = page[p].item /\ i \in page[p].todo
  BY <1>0, <1>1, StatementsNamed DEF RowSound, Counted, BatchSound
<1>3. item[j][i].status = IF next = "inspect" THEN "pending" ELSE "new"
  BY <1>1, <1>2, StatementsNamed DEF Counted, BatchSound
<1> DEFINE row == [status |-> status, file |-> file]
           out == page[p].outcome
<1>4. row \in ItemRow /\ row.status = status /\ item' = [item EXCEPT ![j][i] = row]
  BY <1>1, <1>2 DEF Marks, ItemRow, ItemStatuses
<1>5. UNCHANGED job  BY DEF HashMarks, ImportMarks
<1>6. out \in Tally  BY <1>0 DEF PageRow
<1>7. /\ page'[p].pc = next /\ page'[p].job = j /\ page'[p].todo = page[p].todo \ {i}
      /\ page'[p].outcome = [out EXCEPT ![status] = @ + 1]
  BY <1>0, <1>1, <1>2 DEF Marks, TypeOK, PageRow
<1> DEFINE up(s) == IF s = status THEN 1 ELSE 0
<1>8. /\ page'[p].outcome.new = out.new + up("new")
      /\ page'[p].outcome.duplicate = out.duplicate + up("duplicate")
      /\ page'[p].outcome.imported = out.imported + up("imported")
      /\ page'[p].outcome.error = out.error + up("error")
  BY <1>6, <1>7 DEF Tally
<1>9. /\ out.new \in Nat /\ out.duplicate \in Nat /\ out.imported \in Nat /\ out.error \in Nat
  BY <1>6 DEF Tally
<1>10. \A x \in Items \ {i} : item'[j][x] = item[j][x]  BY <1>0, <1>4 DEF TypeOK
<1>11. \A k \in Jobs \ {j} : item'[k] = item[k]  BY <1>0, <1>4 DEF TypeOK
<1>12. page[p].todo \subseteq Items  BY <1>0 DEF PageRow
<1> HIDE DEF row, out
<1>13. BatchSound(page[p])'
  <2>1. BatchSound(page[p])  BY DEF Counted
  <2>2. \A x \in page'[p].todo : item'[j][x] = item[j][x] /\ x \in page[p].todo
    BY <1>7, <1>10, <1>12
  <2>3. next = "inspect" => out.imported = 0  BY <1>1, <2>1, StatementsNamed DEF BatchSound, out
  <2>4. next = "find" => out.new = 0  BY <1>1, <2>1, StatementsNamed DEF BatchSound, out
  <2>5. next = "inspect" => \A x \in page[p].todo : item[j][x].status = "pending"
    BY <1>1, <1>2, <2>1, StatementsNamed DEF BatchSound
  <2>6. next = "find" => \A x \in page[p].todo : item[j][x].status = "new"
    BY <1>1, <1>2, <2>1, StatementsNamed DEF BatchSound
  <2>7. CASE next = "inspect"
    <3>1. up("imported") = 0  BY <1>1, <2>7
    <3>2. page'[p].outcome.imported = 0  BY <1>8, <2>3, <2>7, <3>1
    <3> QED BY <1>7, <2>2, <2>5, <2>7, <3>2, StatementsNamed DEF BatchSound
  <2>8. CASE next = "find"
    <3>1. up("new") = 0  BY <1>1, <2>8
    <3>2. page'[p].outcome.new = 0  BY <1>8, <2>4, <2>8, <3>1
    <3> QED BY <1>7, <2>2, <2>6, <2>8, <3>2, StatementsNamed DEF BatchSound
  <2> QED BY <2>7, <2>8
<1>14. \A S : /\ Count(j, S)' = Count(j, S) + (IF status \in S THEN 1 ELSE 0)
                                            - (IF item[j][i].status \in S THEN 1 ELSE 0)
              /\ \A k \in Jobs \ {j} : Count(k, S)' = Count(k, S)
  <2>1. ASSUME NEW S
        PROVE  /\ Count(j, S)' = Count(j, S) + (IF row.status \in S THEN 1 ELSE 0)
                                             - (IF item[j][i].status \in S THEN 1 ELSE 0)
               /\ \A k \in Jobs \ {j} : Count(k, S)' = Count(k, S)
    BY <1>0, <1>4, CountMoves
  <2> QED BY <1>4, <2>1
<1>15. page[p].pc \in ScanPCs <=> next = "inspect"  BY <1>1, StatementsNamed
<1>16. page'[p].pc \in ScanPCs <=> next = "inspect"  BY <1>7, StatementsNamed
<1>17. ASSUME NEW k \in Jobs PROVE Balanced(page[p], k)'
  <2>1. Balanced(page[p], k)  BY DEF Counted
  <2>2. CASE k # j
    <3>1. \A S : Count(k, S)' = Count(k, S)  BY <1>14, <2>2
    <3>2. Due(page[p], k)' = NoOutcome /\ Due(page[p], k) = NoOutcome  BY <1>2, <1>7, <2>2 DEF Due
    <3> QED BY <1>5, <2>1, <3>1, <3>2, NothingTallied DEF Balanced
  <2>3. CASE k = j
    <3>1. /\ Count(j, {"imported"})' = Count(j, {"imported"}) + up("imported")
          /\ Count(j, {"duplicate"})' = Count(j, {"duplicate"}) + up("duplicate")
          /\ Count(j, {"error"})' = Count(j, {"error"}) + up("error")
      <4>1. item[j][i].status \notin {"imported"} /\ item[j][i].status \notin {"duplicate"}
            /\ item[j][i].status \notin {"error"}
        BY <1>3
      <4>2. \A S : Count(j, S) \in Nat  BY ItemsCount
      <4> QED BY <1>14, <4>1, <4>2
    <3>2. /\ \A S : Count(j, S) \in Nat
          /\ job[j].new \in Int /\ job[j].duplicate \in Int /\ job[j].imported \in Int
          /\ job[j].error \in Int
      BY <1>0, <1>2, ItemsCount DEF TypeOK, JobRow
    <3>3. Count(j, {"new", "imported"})'
             = Count(j, {"new", "imported"}) + up("new") + up("imported")
                  - (IF next = "inspect" THEN 0 ELSE 1)
      <4>1. item[j][i].status \in {"new", "imported"} <=> next = "find"  BY <1>1, <1>3
      <4>2. up("new") + up("imported") = IF status \in {"new", "imported"} THEN 1 ELSE 0
        OBVIOUS
      <4>3. next = "inspect" <=> next # "find"  OBVIOUS
      <4>4. up("new") \in Nat /\ up("imported") \in Nat  OBVIOUS
      <4> HIDE DEF up
      <4>5. Count(j, {"new", "imported"})'
               = Count(j, {"new", "imported"}) + (IF status \in {"new", "imported"} THEN 1 ELSE 0)
                    - (IF item[j][i].status \in {"new", "imported"} THEN 1 ELSE 0)
        BY <1>14
      <4>6. CASE next = "inspect"  BY <3>2, <4>1, <4>2, <4>3, <4>4, <4>5, <4>6
      <4>7. CASE next = "find"  BY <3>2, <4>1, <4>2, <4>3, <4>4, <4>5, <4>7
      <4> QED BY <4>6, <4>7
    <3>4. Count(j, Judged)' = Count(j, Judged) + (IF next = "inspect" THEN 1 ELSE 0)
      <4>1. item[j][i].status \in Judged <=> next = "find"  BY <1>1, <1>3 DEF Judged
      <4>2. status \in Judged  BY DEF Judged
      <4>3. next = "inspect" <=> next # "find"  OBVIOUS
      <4> QED BY <1>14, <3>2, <4>1, <4>2, <4>3
    <3>5. Due(page[p], j) = out /\ Due(page[p], j)' = page'[p].outcome
      BY <1>2, <1>7 DEF Due, out
    <3>6. /\ job[j].imported + out.imported = Count(j, {"imported"})
          /\ job[j].duplicate + out.duplicate = Count(j, {"duplicate"})
          /\ job[j].error + out.error = Count(j, {"error"})
      BY <2>1, <2>3, <3>5 DEF Balanced
    <3>7. /\ page'[p].outcome.imported + job'[j].imported = Count(j, {"imported"})'
          /\ page'[p].outcome.duplicate + job'[j].duplicate = Count(j, {"duplicate"})'
          /\ page'[p].outcome.error + job'[j].error = Count(j, {"error"})'
      <4> HIDE DEF up
      <4>1. up("imported") \in Int /\ up("duplicate") \in Int /\ up("error") \in Int  BY DEF up
      <4> QED BY <1>5, <1>8, <1>9, <3>1, <3>2, <3>6, <4>1
    <3>8. page'[p].outcome.new \in Int /\ page'[p].outcome.duplicate \in Int
          /\ page'[p].outcome.imported \in Int /\ page'[p].outcome.error \in Int
      BY <1>8, <1>9
    <3>9. /\ up("new") \in {0, 1} /\ up("duplicate") \in {0, 1} /\ up("imported") \in {0, 1}
          /\ up("new") + up("duplicate") <= 1
          /\ next = "find" => up("new") = 0 /\ up("imported") + up("duplicate") <= 1
          /\ next = "inspect" => up("imported") = 0
      BY <1>1
    <3> HIDE DEF up
    <3>10. CASE next = "inspect"
      <4>1. page[p].pc \in ScanPCs /\ page'[p].pc \in ScanPCs  BY <1>15, <1>16, <3>10
      <4>2. /\ job[j].new + out.new - 0 >= Count(j, {"new", "imported"})
            /\ job[j].new + out.new - 0 + job[j].duplicate + out.duplicate <= Count(j, Judged)
        BY <2>1, <2>3, <3>5, <4>1 DEF Balanced
      <4>3. /\ Count(j, {"new", "imported"})' = Count(j, {"new", "imported"}) + up("new")
            /\ Count(j, Judged)' = Count(j, Judged) + 1
        BY <3>2, <3>3, <3>4, <3>9, <3>10
      <4>4. /\ job'[j].new + page'[p].outcome.new - 0 >= Count(j, {"new", "imported"})'
            /\ job'[j].new + page'[p].outcome.new - 0 + job'[j].duplicate
                  + page'[p].outcome.duplicate <= Count(j, Judged)'
        BY <1>5, <1>8, <1>9, <3>2, <3>9, <4>2, <4>3
      <4>5. Balanced(page[p], j)'  BY <3>2, <3>5, <3>7, <3>8, <4>1, <4>4, <1>5 DEF Balanced
      <4> QED BY <2>3, <4>5
    <3>11. CASE next = "find"
      <4>1. page[p].pc \notin ScanPCs /\ page'[p].pc \notin ScanPCs  BY <1>15, <1>16, <3>11
      <4>2. /\ job[j].new + out.new - out.duplicate >= Count(j, {"new", "imported"})
            /\ job[j].new + out.new - out.duplicate + job[j].duplicate + out.duplicate
                  <= Count(j, Judged)
        BY <2>1, <2>3, <3>5, <4>1 DEF Balanced
      <4>3. /\ Count(j, {"new", "imported"})' = Count(j, {"new", "imported"}) + up("imported") - 1
            /\ Count(j, Judged)' = Count(j, Judged)
        BY <3>2, <3>3, <3>4, <3>9, <3>11
      <4>4. /\ job'[j].new + page'[p].outcome.new - page'[p].outcome.duplicate
                  >= Count(j, {"new", "imported"})'
            /\ job'[j].new + page'[p].outcome.new - page'[p].outcome.duplicate + job'[j].duplicate
                  + page'[p].outcome.duplicate <= Count(j, Judged)'
        BY <1>5, <1>8, <1>9, <3>2, <3>9, <3>11, <4>2, <4>3
      <4>5. Balanced(page[p], j)'  BY <3>2, <3>5, <3>7, <3>8, <4>1, <4>4, <1>5 DEF Balanced
      <4> QED BY <2>3, <4>5
    <3> QED BY <3>10, <3>11
  <2> QED BY <2>2, <2>3
<1>18. \A k \in Jobs : job'[k].status = "none" => \A x \in Items : item'[k][x].status = "unseen"
  BY <1>2, <1>5, <1>11 DEF Counted
<1> QED BY <1>13, <1>17, <1>18 DEF Counted

\* Writing the tallies to the job leaves nothing due.
LEMMA CountedCounts ==
    ASSUME NEW p \in Pages, MapInv, Counted(p), HashCounts(p) \/ ImportCounts(p)
    PROVE  Counted(p)'
<1> DEFINE j   == page[p].job
           out == page[p].outcome
<1>0. page[p] \in PageRow /\ RowSound(page[p]) /\ TypeOK  BY DEF MapInv, TypeOK
<1>1. /\ \/ HashCounts(p) /\ page[p].pc = "inspect" /\ page'[p].pc = "hashed"
         \/ ImportCounts(p) /\ page[p].pc = "find" /\ page'[p].pc = "ask"
      /\ page'[p].job = j /\ page'[p].outcome = NoOutcome /\ UNCHANGED item
  <2>1. PICK pc \in {"hashed", "ask"} :
           /\ page' = [page EXCEPT ![p].pc = pc, ![p].outcome = NoOutcome]
           /\ UNCHANGED item
           /\ \/ HashCounts(p) /\ page[p].pc = "inspect" /\ pc = "hashed"
              \/ ImportCounts(p) /\ page[p].pc = "find" /\ pc = "ask"
    BY DEF HashCounts, ImportCounts, At
  <2>2. page'[p].pc = pc /\ page'[p].job = j /\ page'[p].outcome = NoOutcome
    BY <1>0, <2>1 DEF TypeOK, PageRow
  <2> QED BY <2>1, <2>2
<1>2. j \in Jobs /\ job[j] \in JobRow /\ out \in Tally  BY <1>0, <1>1 DEF RowSound, TypeOK, PageRow
<1>3. \A k \in Jobs \ {j} : job'[k] = job[k]
  BY <1>0, <1>2 DEF HashCounts, ImportCounts, TypeOK
<1>4. /\ job[j].new \in Int /\ job[j].duplicate \in Int /\ job[j].imported \in Int
      /\ job[j].error \in Int /\ out.new \in Nat /\ out.duplicate \in Nat
      /\ out.imported \in Nat /\ out.error \in Nat
  BY <1>2 DEF JobRow, Tally
<1>5. /\ job'[j].duplicate = job[j].duplicate + out.duplicate
      /\ job'[j].error = job[j].error + out.error
      /\ HashCounts(p) => /\ job'[j].new = job[j].new + out.new
                          /\ job'[j].imported = job[j].imported
      /\ ImportCounts(p) => /\ job'[j].new = job[j].new - out.duplicate
                            /\ job'[j].imported = job[j].imported + out.imported
      /\ job'[j].status = job[j].status
  <2>1. CASE HashCounts(p) /\ ~ImportCounts(p)
    BY <1>0, <1>2, <2>1 DEF HashCounts, TypeOK, JobRow
  <2>2. CASE ImportCounts(p) /\ ~HashCounts(p)
    BY <1>0, <1>2, <2>2 DEF ImportCounts, TypeOK, JobRow
  <2>3. ~(HashCounts(p) /\ ImportCounts(p))  BY DEF HashCounts, ImportCounts, At
  <2> QED BY <2>1, <2>2, <2>3
<1>6. BatchSound(page[p])'
  BY <1>1, NothingTallied, StatementsNamed DEF BatchSound
<1>7. ASSUME NEW k \in Jobs PROVE Balanced(page[p], k)'
  <2>1. Balanced(page[p], k)  BY DEF Counted
  <2>2. \A S : Count(k, S)' = Count(k, S)  BY <1>1 DEF Count, Of
  <2>3. Due(page[p], k)' = NoOutcome  BY <1>1 DEF Due
  <2>4. CASE k # j
    <3>1. Due(page[p], k) = NoOutcome  BY <2>4 DEF Due
    <3> QED BY <1>3, <2>1, <2>2, <2>3, <2>4, <3>1, NothingTallied DEF Balanced
  <2>5. CASE k = j
    <3>1. Due(page[p], k) = out  BY <2>5 DEF Due
    <3>2. \A S : Count(k, S) \in Nat  BY ItemsCount
    <3>3. BatchSound(page[p])  BY DEF Counted
    <3>4. CASE page[p].pc = "inspect"
      <4>1. HashCounts(p) /\ page[p].pc \in ScanPCs /\ out.imported = 0
        BY <1>1, <3>3, <3>4, StatementsNamed DEF BatchSound
      <4> HIDE DEF out, j
      <4> QED BY <1>4, <1>5, <2>1, <2>2, <2>3, <2>5, <3>1, <3>2, <4>1, NothingTallied DEF Balanced
    <3>5. CASE page[p].pc = "find"
      <4>1. ImportCounts(p) /\ page[p].pc \notin ScanPCs /\ out.new = 0
        BY <1>1, <3>3, <3>5, StatementsNamed DEF BatchSound
      <4> HIDE DEF out, j
      <4> QED BY <1>4, <1>5, <2>1, <2>2, <2>3, <2>5, <3>1, <3>2, <4>1, NothingTallied DEF Balanced
    <3> QED BY <1>1, <3>4, <3>5
  <2> QED BY <2>4, <2>5
<1>8. \A k \in Jobs : job'[k].status = "none" => \A i \in Items : item'[k][i].status = "unseen"
  BY <1>1, <1>2, <1>3, <1>5 DEF Counted
<1> QED BY <1>6, <1>7, <1>8 DEF Counted

\* An item that has been seen is in no count yet.
LEMMA CountedSees ==
    ASSUME NEW p \in Pages, MapInv, Counted(p), ScanSeesFile(p), job[page[p].job].status # "none"
    PROVE  Counted(p)'
<1>0. page[p] \in PageRow /\ RowSound(page[p]) /\ TypeOK  BY DEF MapInv, TypeOK
<1>j. PICK j \in Jobs : j = page[p].job
  BY <1>0 DEF ScanSeesFile, At, RowSound
<1>1. PICK i \in page[p].todo :
         /\ item' = [item EXCEPT ![j][i].status = "pending"]
         /\ page' = [page EXCEPT ![p].todo = @ \ {i}]
  BY <1>j DEF ScanSeesFile
<1>2. page[p].pc = "walk" /\ UNCHANGED job /\ j \in Jobs /\ i \in Items
  BY <1>0 DEF ScanSeesFile, At, PageRow
<1>3. PICK row \in ItemRow : row.status = "pending" /\ item' = [item EXCEPT ![j][i] = row]
  <2> DEFINE row == [item[j][i] EXCEPT !.status = "pending"]
  <2>1. item[j] \in [Items -> ItemRow] /\ item[j][i] \in ItemRow  BY <1>0, <1>2 DEF TypeOK
  <2>2. row \in ItemRow /\ row.status = "pending"  BY <2>1 DEF ItemRow, ItemStatuses
  <2> QED BY <1>1, <2>2
<1>4. /\ page'[p].pc = "walk" /\ page'[p].job = j /\ page'[p].outcome = page[p].outcome
      /\ page'[p].todo = page[p].todo \ {i}
  BY <1>0, <1>1, <1>2, <1>j DEF TypeOK, PageRow
<1>5. item[j][i].status = "unseen" /\ BatchSound(page[p])
  BY <1>1, <1>2, <1>j DEF Counted, BatchSound
<1>6. \A x \in Items \ {i} : item'[j][x] = item[j][x]  BY <1>0, <1>2, <1>3 DEF TypeOK
<1>7. \A k \in Jobs \ {j} : item'[k] = item[k]  BY <1>0, <1>3 DEF TypeOK
<1>8. page[p].todo \subseteq Items  BY <1>0 DEF PageRow
<1>9. BatchSound(page[p])'
  BY <1>2, <1>4, <1>5, <1>6, <1>8, <1>j, StatementsNamed DEF BatchSound
<1>10. ASSUME NEW S, "pending" \notin S, "unseen" \notin S, NEW k \in Jobs
       PROVE  Count(k, S)' = Count(k, S)
  <2>1. Count(k, S) \in Nat  BY ItemsCount
  <2>2. CASE k # j  BY <1>7, <2>2 DEF Count, Of
  <2>3. CASE k = j
    <3>1. Count(j, S)' = Count(j, S) + (IF row.status \in S THEN 1 ELSE 0)
                                     - (IF item[j][i].status \in S THEN 1 ELSE 0)
      <4>1. i \in Items /\ TypeOK  BY <1>0, <1>2
      <4>2. item' = [item EXCEPT ![j][i] = row]  BY <1>3
      <4> QED BY <4>1, <4>2, CountMoves
    <3>2. row.status \notin S /\ item[j][i].status \notin S  BY <1>3, <1>5, <1>10
    <3> QED BY <2>1, <2>3, <3>1, <3>2
  <2> QED BY <2>2, <2>3
<1>11. ASSUME NEW k \in Jobs PROVE Balanced(page[p], k)'
  <2>1. /\ Count(k, {"imported"})' = Count(k, {"imported"})
        /\ Count(k, {"duplicate"})' = Count(k, {"duplicate"})
        /\ Count(k, {"error"})' = Count(k, {"error"})
        /\ Count(k, {"new", "imported"})' = Count(k, {"new", "imported"})
        /\ Count(k, Judged)' = Count(k, Judged)
    BY <1>10 DEF Judged
  <2>2. Balanced(page[p], k)  BY DEF Counted
  <2>3. Due(page[p], k)' = Due(page[p], k)  BY <1>4, <1>j DEF Due
  <2> QED BY <1>2, <1>4, <2>1, <2>2, <2>3, StatementsNamed DEF Balanced
<1>12. \A k \in Jobs : job'[k].status = "none" => \A x \in Items : item'[k][x].status = "unseen"
  BY <1>2, <1>7, <1>j DEF Counted
<1> QED BY <1>9, <1>11, <1>12 DEF Counted

\* Every statement of the only tab keeps counters, tallies and items in balance.
LEMMA CountedStep ==
    ASSUME NEW p \in Pages, MapInv, Dealt, Counted(p), PageStep(p)
    PROVE  Counted(p)'
<1> USE PCsNamed
<1>0. page[p] \in PageRow /\ RowSound(page[p]) /\ TypeOK  BY DEF MapInv, TypeOK
<1>b. BatchSound(page[p])  BY DEF Counted
<1>d. RowDealt(page[p])  BY DEF Dealt
<1> DEFINE j == page[p].job
<1>j. page[p].pc # "idle" => j \in Jobs /\ job[j] \in JobRow  BY <1>0 DEF RowSound, TypeOK
<1>s. page[p].pc \in ScanPCs \cup ImportPCs \cup {"import"} => job[j].status # "none"
  BY <1>d DEF RowDealt, Scanned
<1>l. ASSUME Leaves(p)  PROVE page'[p].pc = "idle" /\ page'[p].outcome = NoOutcome
  BY <1>0, <1>l, NoPageTyped, NothingTallied DEF TypeOK, Leaves
<1>i. ASSUME page'[p].pc = "idle", page'[p].outcome = NoOutcome  PROVE BatchSound(page[p])'
  BY <1>i, NothingTallied, StatementsNamed DEF BatchSound
<1>k. ASSUME UNCHANGED job
      PROVE  /\ \A k \in Jobs : SameCounters(k)
             /\ \A k \in Jobs : job'[k].status = "none" => job[k].status = "none"
  BY <1>k DEF SameCounters
\* Statements that take a whole batch or none.
<1>g. ASSUME UNCHANGED <<job, item>>, page[p].outcome = NoOutcome, page'[p].outcome = NoOutcome,
             BatchSound(page[p])'
      PROVE  Counted(p)'
  <2>1. /\ \A k \in Jobs : SameCounters(k)
        /\ \A k \in Jobs : job'[k].status = "none" => job[k].status = "none"
    BY <1>g, <1>k
  <2> QED BY <1>g, <2>1, CountedRests
\* Statements of a batch on the item in hand.
<1>h. ASSUME UNCHANGED <<job, item>>, page'[p].outcome = page[p].outcome, page'[p].job = j,
             page'[p].todo = page[p].todo, page'[p].pc \in InHand => page'[p].item \in page[p].todo,
             \/ page[p].pc \in Hashing /\ page'[p].pc \in Hashing
             \/ page[p].pc \in Importing /\ page'[p].pc \in Importing
      PROVE  Counted(p)'
  <2>1. page[p].pc \in ScanPCs <=> page'[p].pc \in ScanPCs  BY <1>h, StatementsNamed
  <2>2. BatchSound(page[p])'  BY <1>b, <1>h, StatementsNamed DEF BatchSound
  <2>3. /\ \A k \in Jobs : SameCounters(k)
        /\ \A k \in Jobs : job'[k].status = "none" => job[k].status = "none"
    BY <1>h, <1>k
  <2> QED BY <1>h, <2>1, <2>2, <2>3, CountedRests
<1>1. ASSUME NEW k \in Jobs, PageScans(p, k)  PROVE Counted(p)'
  <2> DEFINE row == [NoPage EXCEPT !.pc = "walk", !.job = k, !.todo = Items]
  <2>1. row.pc = "walk" /\ row.job = k /\ row.todo = Items /\ row.outcome = NoOutcome
    BY NoPageTyped, NothingTallied DEF PageRow
  <2>2. page'[p] = row /\ UNCHANGED item  BY <1>0, <1>1 DEF TypeOK, PageScans
  <2>3. \A i \in Items : item[k][i].status = "unseen"  BY <1>1 DEF PageScans, Counted
  <2>4. page[p].outcome = NoOutcome
    BY <1>1, <1>b, StatementsNamed DEF PageScans, At, BatchSound
  <2> HIDE DEF row
  <2>5. BatchSound(page[p])'
    BY <2>1, <2>2, <2>3, NothingTallied, StatementsNamed DEF BatchSound
  <2>6. /\ \A x \in Jobs \ {k} : job'[x] = job[x]
        /\ SameCounters(k) /\ job'[k].status = "scanning"
    BY <1>0, <1>1 DEF TypeOK, PageScans, JobRow, SameCounters
  <2>7. \A x \in Jobs : SameCounters(x) /\ (job'[x].status = "none" => job[x].status = "none")
    BY <2>6 DEF SameCounters
  <2> QED BY <2>1, <2>2, <2>4, <2>5, <2>7, CountedRests
<1>2. ASSUME NEW k \in Jobs, PageImports(p, k)  PROVE Counted(p)'
  <2> DEFINE row == [NoPage EXCEPT !.pc = "import", !.job = k]
  <2>1. row.pc = "import" /\ row.job = k /\ row.outcome = NoOutcome
    BY NoPageTyped, NothingTallied DEF PageRow
  <2>2. page'[p] = row /\ UNCHANGED <<item, job>> /\ page[p].pc = "idle"
    BY <1>0, <1>2 DEF TypeOK, PageImports, At
  <2>3. page[p].outcome = NoOutcome  BY <1>b, <2>2, StatementsNamed DEF BatchSound
  <2> HIDE DEF row
  <2>4. BatchSound(page[p])'
    BY <2>1, <2>2, NothingTallied, StatementsNamed DEF BatchSound
  <2> QED BY <1>g, <2>1, <2>2, <2>3, <2>4
<1>3. CASE ScanSeesFile(p)
  <2>1. page[p].pc = "walk"  BY <1>3 DEF ScanSeesFile, At
  <2> QED BY <1>3, <1>s, <2>1, StatementsNamed, CountedSees
<1>4. CASE ScanSkipsFile(p)
  <2>1. PICK i \in page[p].todo : page' = [page EXCEPT ![p].todo = @ \ {i}]
    BY <1>4 DEF ScanSkipsFile
  <2>2. page[p].pc = "walk" /\ UNCHANGED <<job, item>>  BY <1>4 DEF ScanSkipsFile, At
  <2>3. /\ page'[p].pc = "walk" /\ page'[p].job = j /\ page'[p].outcome = page[p].outcome
        /\ page'[p].todo \subseteq page[p].todo
    BY <1>0, <2>1, <2>2 DEF TypeOK, PageRow
  <2>4. page[p].outcome = NoOutcome /\ BatchSound(page[p])'
    BY <1>b, <2>2, <2>3, StatementsNamed DEF BatchSound
  <2> QED BY <1>g, <2>2, <2>3, <2>4
\* Statements between batches.
<1>5. CASE \/ ScanEnds(p) \/ HashAsks(p) \/ ImportMakesFolder(p) \/ ImportAsks(p)
           \/ (ImportTakes(p) /\ ItemsOf(j, "new") = {})
           \/ ImportLoadsJob(p) \/ PageCloses(p)
  <2>1. page[p].outcome = NoOutcome /\ UNCHANGED <<job, item>>
    BY <1>5, <1>b, StatementsNamed
       DEF BatchSound, ScanEnds, HashAsks, ImportMakesFolder, ImportAsks, ImportTakes,
           ImportLoadsJob, PageCloses, At
  <2>2. \/ Leaves(p)
        \/ \E pc \in {"hash", "scanned", "begin", "finish", "import", "folder", "take"} :
              page' = [page EXCEPT ![p].pc = pc]
    BY <1>5 DEF ScanEnds, HashAsks, ImportMakesFolder, ImportAsks, ImportTakes, ImportLoadsJob,
                PageCloses, Goes
  <2>3. CASE Leaves(p)  BY <1>g, <1>i, <1>l, <2>1, <2>3
  <2>4. ASSUME NEW pc \in {"hash", "scanned", "begin", "finish", "import", "folder", "take"},
               page' = [page EXCEPT ![p].pc = pc]
        PROVE  Counted(p)'
    <3>1. page'[p].pc = pc /\ page'[p].outcome = NoOutcome
      BY <1>0, <2>1, <2>4 DEF TypeOK, PageRow
    <3>2. BatchSound(page[p])'
      BY <3>1, NothingTallied, StatementsNamed DEF BatchSound
    <3> QED BY <1>g, <2>1, <3>1, <3>2
  <2> QED BY <2>2, <2>3, <2>4
<1>6. CASE HashTakes(p) \/ (ImportTakes(p) /\ ItemsOf(j, "new") # {})
  <2>1. PICK some \in SUBSET Items, pc \in {"inspect", "find"} :
           /\ page' = [page EXCEPT ![p].pc = pc, ![p].todo = some]
           /\ some \subseteq ItemsOf(j, IF pc = "inspect" THEN "pending" ELSE "new")
    <3>1. CASE HashTakes(p)  BY <3>1 DEF HashTakes, Takes, ItemsOf
    <3>2. CASE ImportTakes(p) /\ ItemsOf(j, "new") # {}  BY <3>2 DEF ImportTakes, Takes, ItemsOf
    <3> QED BY <1>6, <3>1, <3>2
  <2>2. page[p].outcome = NoOutcome /\ UNCHANGED <<job, item>>
    BY <1>6, <1>b, StatementsNamed DEF BatchSound, HashTakes, ImportTakes, At
  <2>3. /\ page'[p].pc = pc /\ page'[p].outcome = NoOutcome /\ page'[p].todo = some
        /\ page'[p].job = j
    BY <1>0, <2>1, <2>2 DEF TypeOK, PageRow
  <2>4. \A i \in some : item[j][i].status = IF pc = "inspect" THEN "pending" ELSE "new"
    BY <2>1 DEF ItemsOf
  <2>5. BatchSound(page[p])'
    <3>1. CASE pc = "inspect"
      BY <2>2, <2>3, <2>4, <3>1, NothingTallied, StatementsNamed DEF BatchSound
    <3>2. CASE pc = "find"
      BY <2>2, <2>3, <2>4, <3>2, NothingTallied, StatementsNamed DEF BatchSound
    <3> QED BY <3>1, <3>2
  <2> QED BY <1>g, <2>2, <2>3, <2>5
<1>7. CASE HashInspects(p) \/ HashCannotRead(p)
  <2>1. PICK i \in page[p].todo, pc \in {"judge", "unread"}, f \in Nat :
           page' = [page EXCEPT ![p].pc = pc, ![p].item = i, ![p].file = f]
    <3>1. CASE HashInspects(p)
      <4>1. PICK i \in page[p].todo : \E f \in Lookups(ContentOf[i]) :
               page' = [page EXCEPT ![p].pc = "judge", ![p].item = i, ![p].file = f]
        BY <3>1 DEF HashInspects
      <4>2. Lookups(ContentOf[i]) \subseteq Nat  BY <1>0 DEF Lookups, ActiveRows, TypeOK
      <4> QED BY <4>1, <4>2
    <3>2. CASE HashCannotRead(p)
      <4>1. PICK i \in page[p].todo : page' = [page EXCEPT ![p].pc = "unread", ![p].item = i]
        BY <3>2 DEF HashCannotRead
      <4>2. page' = [page EXCEPT ![p].pc = "unread", ![p].item = i, ![p].file = page[p].file]
            /\ page[p].file \in Nat
        BY <1>0, <4>1 DEF TypeOK, PageRow
      <4> QED BY <4>2
    <3> QED BY <1>7, <3>1, <3>2
  <2>2. page[p].pc = "inspect" /\ UNCHANGED <<job, item>>
    BY <1>7 DEF HashInspects, HashCannotRead, At
  <2>3. /\ page'[p].pc = pc /\ page'[p].outcome = page[p].outcome /\ page'[p].job = j
        /\ page'[p].todo = page[p].todo /\ page'[p].item = i
    BY <1>0, <2>1 DEF TypeOK, PageRow
  <2>4. page[p].pc \in Hashing /\ page'[p].pc \in Hashing  BY <2>2, <2>3, StatementsNamed
  <2> QED BY <1>h, <2>2, <2>3, <2>4
<1>8. CASE ImportFinds(p) \/ ImportCannotRead(p)
  <2>1. PICK i \in page[p].todo, pc \in {"blob", "known", "failed"}, f \in Nat :
           page' = [page EXCEPT ![p].pc = pc, ![p].item = i, ![p].file = f]
    <3>1. CASE ImportFinds(p)
      <4>1. PICK i \in page[p].todo : \E f \in Lookups(ContentOf[i]) :
               page' = [page EXCEPT ![p].pc = IF f = 0 THEN "blob" ELSE "known",
                                    ![p].item = i, ![p].file = f]
        BY <3>1 DEF ImportFinds
      <4>2. Lookups(ContentOf[i]) \subseteq Nat  BY <1>0 DEF Lookups, ActiveRows, TypeOK
      <4> QED BY <4>1, <4>2
    <3>2. CASE ImportCannotRead(p)
      <4>1. PICK i \in page[p].todo : page' = [page EXCEPT ![p].pc = "failed", ![p].item = i]
        BY <3>2 DEF ImportCannotRead
      <4>2. page' = [page EXCEPT ![p].pc = "failed", ![p].item = i, ![p].file = page[p].file]
            /\ page[p].file \in Nat
        BY <1>0, <4>1 DEF TypeOK, PageRow
      <4> QED BY <4>2
    <3> QED BY <1>8, <3>1, <3>2
  <2>2. page[p].pc = "find" /\ UNCHANGED <<job, item>>
    BY <1>8 DEF ImportFinds, ImportCannotRead, At
  <2>3. /\ page'[p].pc = pc /\ page'[p].outcome = page[p].outcome /\ page'[p].job = j
        /\ page'[p].todo = page[p].todo /\ page'[p].item = i
    BY <1>0, <2>1 DEF TypeOK, PageRow
  <2>4. page[p].pc \in Importing /\ page'[p].pc \in Importing  BY <2>2, <2>3, StatementsNamed
  <2> QED BY <1>h, <2>2, <2>3, <2>4
<1>9. CASE ImportSeesBlob(p) \/ ImportCopies(p) \/ ImportCopied(p) \/ ImportCreatesRow(p)
  <2>1. /\ page[p].pc \in Storing /\ UNCHANGED <<job, item>>
        /\ page'[p].pc \in {"copy", "create", "copying", "failed", "created"}
        /\ page'[p].outcome = page[p].outcome /\ page'[p].job = j
        /\ page'[p].todo = page[p].todo /\ page'[p].item = page[p].item
    <3>1. CASE ImportSeesBlob(p)
      BY <1>0, <3>1 DEF TypeOK, PageRow, ImportSeesBlob, Goes, At, Storing
    <3>2. CASE ImportCopies(p)
      BY <1>0, <3>2 DEF TypeOK, PageRow, ImportCopies, Goes, At, Storing
    <3>3. CASE ImportCopied(p)
      BY <1>0, <3>3 DEF TypeOK, PageRow, ImportCopied, Goes, At, Storing
    <3>4. CASE ImportCreatesRow(p)
      BY <1>0, <3>4 DEF TypeOK, PageRow, ImportCreatesRow, At, Storing
    <3> QED BY <1>9, <3>1, <3>2, <3>3, <3>4
  <2>2. page[p].pc \in Importing /\ page'[p].pc \in Importing /\ page[p].pc \in InHand
    BY <2>1, StatementsNamed DEF Storing
  <2>3. page[p].item \in page[p].todo  BY <1>b, <2>2 DEF BatchSound
  <2> QED BY <1>h, <2>1, <2>2, <2>3
<1>10. CASE HashMarks(p) \/ ImportMarks(p)
  <2>1. page[p].pc \in ScanPCs \cup ImportPCs
    BY <1>10 DEF HashMarks, ImportMarks, At, ScanPCs, ImportPCs
  <2> QED BY <1>10, <1>s, <2>1, CountedMarks
<1>11. CASE HashCounts(p) \/ ImportCounts(p)  BY <1>11, CountedCounts
\* Statements that write the job's status.
<1>12. CASE HashEnds(p) \/ ImportEnds(p) \/ ImportBegins(p)
  <2>1. page[p].outcome = NoOutcome /\ UNCHANGED item /\ page[p].pc # "idle"
    BY <1>12, <1>b, StatementsNamed DEF BatchSound, HashEnds, ImportEnds, ImportBegins, At
  <2>2. j \in Jobs /\ job[j] \in JobRow  BY <1>j, <2>1
  <2>3. /\ \A x \in Jobs \ {j} : job'[x] = job[x]
        /\ SameCounters(j) /\ job'[j].status # "none"
    BY <1>0, <1>12, <2>2 DEF TypeOK, HashEnds, ImportEnds, ImportBegins, JobRow, SameCounters
  <2>4. \A x \in Jobs : SameCounters(x) /\ (job'[x].status = "none" => job[x].status = "none")
    BY <2>3 DEF SameCounters
  <2>5. page'[p].outcome = NoOutcome /\ BatchSound(page[p])'
    <3>1. CASE Leaves(p)  BY <1>i, <1>l, <3>1
    <3>2. CASE page' = [page EXCEPT ![p].pc = "take"]
      <4>1. page'[p].pc = "take" /\ page'[p].outcome = NoOutcome
        BY <1>0, <2>1, <3>2 DEF TypeOK, PageRow
      <4> QED BY <4>1, NothingTallied, StatementsNamed DEF BatchSound
    <3> QED BY <1>12, <3>1, <3>2 DEF HashEnds, ImportEnds, ImportBegins, Goes
  <2> QED BY <2>1, <2>4, <2>5, CountedRests
<1>13. CASE ImportTakes(p)  BY <1>5, <1>6, <1>13
<1> HIDE DEF j
<1> QED
  <2>1. CASE BatchStep(p)
    <3>1. CASE ScanSeesFile(p) \/ ScanSkipsFile(p) \/ ScanEnds(p)  BY <1>3, <1>4, <1>5, <3>1
    <3>4. CASE \/ HashTakes(p) \/ HashInspects(p) \/ HashCannotRead(p) \/ HashMarks(p)
               \/ HashCounts(p) \/ HashAsks(p) \/ HashEnds(p)
      BY <1>5, <1>6, <1>7, <1>10, <1>11, <1>12, <3>4
    <3>2. CASE \/ ImportLoadsJob(p) \/ ImportMakesFolder(p) \/ ImportBegins(p) \/ ImportTakes(p)
               \/ ImportFinds(p) \/ ImportCannotRead(p) \/ ImportSeesBlob(p) \/ ImportCopies(p)
               \/ ImportCopied(p) \/ ImportCreatesRow(p)
      BY <1>5, <1>8, <1>9, <1>12, <1>13, <3>2
    <3>3. CASE ImportMarks(p) \/ ImportCounts(p) \/ ImportAsks(p) \/ ImportEnds(p)
      BY <1>5, <1>10, <1>11, <1>12, <3>3
    <3> QED BY <2>1, <3>1, <3>2, <3>3, <3>4 DEF BatchStep
  <2> QED BY <1>1, <1>2, <1>5, <2>1 DEF PageStep

\* Until a crash takes a batch's tallies with it.
CountInv(p) == crashes \in Nat /\ (crashes = 0 => Counted(p))

LEMMA CountedNext ==
    ASSUME NEW p, Pages = {p}, MapInv, Dealt, CountInv(p), [Next]_vars
    PROVE  CountInv(p)'
<1>1. CASE PageStep(p)
  <2>1. UNCHANGED crashes
    BY <1>1 DEF PageStep, BatchStep, PageScans, PageImports, PageCloses, ScanSeesFile, ScanSkipsFile,
                ScanEnds, HashTakes, HashInspects, HashCannotRead, HashMarks, HashCounts, HashAsks,
                HashEnds, ImportLoadsJob, ImportMakesFolder, ImportBegins, ImportTakes, ImportFinds,
                ImportCannotRead, ImportSeesBlob, ImportCopies, ImportCopied, ImportCreatesRow,
                ImportMarks, ImportCounts, ImportAsks, ImportEnds, bounds
  <2> QED BY <1>1, <2>1, CountedStep DEF CountInv
<1>2. CASE (\E u \in Uploads : UploadStep(u)) \/ (\E f \in DOMAIN files : TrashOrRestore(f))
           \/ UNCHANGED vars
  <2>1. UNCHANGED <<job, item, page, crashes>>
    BY <1>2 DEF UploadStep, UploadSees, UploadMoves, UploadCreatesRow, TrashOrRestore, vars, bounds
  <2>2. ASSUME Counted(p) PROVE Counted(p)'
    <3>1. BatchSound(page[p])'  BY <2>1, <2>2 DEF Counted, BatchSound
    <3>2. \A k, S : Count(k, S)' = Count(k, S)  BY <2>1 DEF Count, Of
    <3>3. \A k : Due(page[p], k)' = Due(page[p], k)  BY <2>1 DEF Due
    <3>4. \A k \in Jobs : Balanced(page[p], k)'
      BY <2>1, <2>2, <3>2, <3>3 DEF Counted, Balanced
    <3> QED BY <2>1, <2>2, <3>1, <3>4 DEF Counted
  <2> QED BY <2>1, <2>2 DEF CountInv
<1>3. CASE Crash
  BY <1>3 DEF Crash, CountInv
<1> QED BY <1>1, <1>2, <1>3 DEF Next

LEMMA CountedFirst ==
    ASSUME NEW p, Pages = {p}, Init
    PROVE  CountInv(p)
<1>1. \A k \in Jobs, i \in Items : item[k][i].status = "unseen"  BY DEF Init, NoItem
<1>2. page[p] = NoPage  BY DEF Init
<1>3. BatchSound(page[p])
  BY <1>2, NoPageTyped, NothingTallied, StatementsNamed DEF BatchSound
<1>4. ASSUME NEW k \in Jobs PROVE Balanced(page[p], k)
  <2>1. ASSUME NEW S, "unseen" \notin S PROVE Count(k, S) = 0
    <3>1. Of(k, S) = {}  BY <1>1, <2>1 DEF Of
    <3> QED BY <3>1, FS_EmptySet DEF Count
  <2>2. /\ Count(k, {"imported"}) = 0 /\ Count(k, {"duplicate"}) = 0 /\ Count(k, {"error"}) = 0
        /\ Count(k, {"new", "imported"}) = 0 /\ Count(k, Judged) = 0
    BY <2>1 DEF Judged
  <2>3. Due(page[p], k) = NoOutcome  BY <1>2, NothingTallied DEF Due
  <2>4. job[k].new = 0 /\ job[k].duplicate = 0 /\ job[k].imported = 0 /\ job[k].error = 0
    BY DEF Init, NoJob
  <2> QED BY <2>2, <2>3, <2>4, NothingTallied DEF Balanced
<1>5. crashes = 0  BY DEF Init
<1> QED BY <1>1, <1>3, <1>4, <1>5 DEF CountInv, Counted

\* CountersAgree: with one tab at work the counters of a job that rests are those of its items,
\* whatever the batches, closed tabs, uploads and trash moves before, until a crash.
THEOREM CountersTrue ==
    ASSUME NEW p, Pages = {p}
    PROVE  Spec => []CountersAgree
<1>1. TypeOK /\ CountInv(p) => CountersAgree
  <2> SUFFICES ASSUME TypeOK, Counted(p), NEW k \in Jobs, page[p].job # k
               PROVE  /\ job[k].imported = Cardinality(ItemsOf(k, "imported"))
                      /\ job[k].duplicate = Cardinality(ItemsOf(k, "duplicate"))
                      /\ job[k].error = Cardinality(ItemsOf(k, "error"))
                      /\ job[k].new >= Cardinality(ItemsOf(k, "new") \cup ItemsOf(k, "imported"))
                      /\ job[k].new + job[k].duplicate
                            <= Cardinality({i \in Items : item[k][i].status # "unseen"})
    BY DEF CountInv, CountersAgree
  <2> DEFINE seen == {i \in Items : item[k][i].status # "unseen"}
  <2>1. Balanced(page[p], k) /\ Due(page[p], k) = NoOutcome  BY DEF Counted, Due
  <2>2. /\ Of(k, {"imported"}) = ItemsOf(k, "imported")
        /\ Of(k, {"duplicate"}) = ItemsOf(k, "duplicate")
        /\ Of(k, {"error"}) = ItemsOf(k, "error")
        /\ Of(k, {"new", "imported"}) = ItemsOf(k, "new") \cup ItemsOf(k, "imported")
    BY DEF Of, ItemsOf
  <2>3. Count(k, Judged) <= Cardinality(seen) /\ Cardinality(seen) \in Nat
    <3>1. Of(k, Judged) \subseteq seen  BY DEF Of, Judged
    <3>2. seen \subseteq Items  OBVIOUS
    <3> HIDE DEF seen
    <3>3. IsFiniteSet(seen)  BY <3>2, ImportAssumption, FS_Subset
    <3> QED BY <3>1, <3>3, FS_Subset, FS_CardinalityType DEF Count
  <2>4. \A S : Count(k, S) \in Nat  BY ItemsCount
  <2>5. job[k].new \in Int /\ job[k].duplicate \in Int /\ job[k].imported \in Int
        /\ job[k].error \in Int
    BY DEF TypeOK, JobRow
  <2>6. /\ job[k].imported = Count(k, {"imported"}) /\ job[k].duplicate = Count(k, {"duplicate"})
        /\ job[k].error = Count(k, {"error"}) /\ job[k].new >= Count(k, {"new", "imported"})
        /\ job[k].new + job[k].duplicate <= Count(k, Judged)
    BY <2>1, <2>4, <2>5, NothingTallied DEF Balanced
  <2> HIDE DEF seen
  <2>7. job[k].new + job[k].duplicate <= Cardinality(seen)  BY <2>3, <2>4, <2>5, <2>6
  <2> QED BY <2>2, <2>6, <2>7 DEF Count, seen
<1>2. Init => CountInv(p)  BY CountedFirst
<1>3. MapInv /\ Dealt /\ CountInv(p) /\ [Next]_vars => CountInv(p)'  BY CountedNext
<1>4. MapInv => TypeOK  BY DEF MapInv
<1> QED BY <1>1, <1>2, <1>3, <1>4, MapAlways, DealtAlways, PTL DEF Spec
=============================================================================
