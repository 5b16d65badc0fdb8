----------------------------- MODULE ArchiveTrees -----------------------------
(***************************************************************************)
(* The folders, the tags and the files that lie in the one and carry the   *)
(* other: FilesService.ingest, softDelete, restore and mergeDuplicates     *)
(* beside the calls of FolderTree and TagTree.  A merge is a loop of       *)
(* awaits: it keeps the tags of each copy before it trashes it.            *)
(***************************************************************************)
EXTENDS FolderTree, TagTree

CONSTANTS Files,      \* ids of File rows
          HashOf,     \* File.hash of every id
          FileCalls,  \* calls of FilesController that may be under way at once
          Instances   \* bounds: the rows to start from and how many calls of each kind may begin

ASSUME ArchiveAssumption ==
    /\ Null \notin Folders \cup Tags \cup Files \cup Names
    /\ DOMAIN HashOf = Files
    /\ \A i \in Instances : {i.folders, i.tags, i.files} \subseteq Nat

\* An archive starts from trees of rows, as a backup leaves them.
ASSUME InstancesAssumption ==
    /\ IsFiniteSet(Folders) /\ IsFiniteSet(Tags)
    /\ \A i \in Instances :
          /\ \A p \in i.forests : DOMAIN p \subseteq Folders /\ p \in Forests(DOMAIN p)
          /\ \A r \in i.tagRows : TagTable(r) /\ i.fileTags \subseteq Files \X DOMAIN r

VARIABLES file,         \* the File rows
          fileCall,     \* the calls
          left,         \* bound: calls that may still begin, of each kind
          binned,       \* history: files a user has put in the trash
          merged,       \* history: what merges have trashed, for whom, and with which tags
          mergesRaced   \* history: two merges have overlapped

fileVars == <<file, fileCall, binned, merged, mergesRaced>>
vars     == <<folderVars, tagVars, fileVars, left>>

NoFile     == [exists |-> FALSE, trashed |-> FALSE, folder |-> Null]
NoFileCall == [op |-> "none", pc |-> "idle", id |-> Null, folder |-> Null, ids |-> {},
               todo |-> {}, has |-> {}]

ActiveFile(f) == file[f].exists /\ ~file[f].trashed
TagsOf(f)     == {t \in Tags : <<f, t>> \in fileTag}

Init == \E i \in Instances :
           /\ FolderInit(i.forests)
           /\ TagInit(i.tagRows)
           /\ fileTag = i.fileTags
           /\ file = [f \in Files |-> [NoFile EXCEPT !.exists = f \in i.uploaded]]
           /\ fileCall = [c \in FileCalls |-> NoFileCall]
           /\ left = [folders |-> i.folders, tags |-> i.tags, files |-> i.files]
           /\ binned = {} /\ merged = {} /\ mergesRaced = FALSE

-----------------------------------------------------------------------------
(* FilesController                                                         *)

FileCallBegins(c, op, id, where, ids) ==
    /\ fileCall[c].pc = "idle"
    /\ op = "ingest" => ~file[id].exists /\ ~\E d \in FileCalls : fileCall[d].id = id
    /\ op # "ingest" => file[id].exists /\ where = Null
    /\ where # Null => folder[where].exists
    /\ op = "merge" => ids # {} /\ \A f \in ids : file[f].exists
    /\ fileCall' = [fileCall EXCEPT ![c] =
          [op |-> op, pc |-> IF op = "ingest" THEN IF where = Null THEN "tags" ELSE "folder" ELSE "find",
           id |-> id, folder |-> where, ids |-> ids, todo |-> {}, has |-> {}]]
    /\ mergesRaced' = (mergesRaced \/ (op = "merge" /\ \E d \in FileCalls : fileCall[d].op = "merge"))
    /\ UNCHANGED <<file, binned, merged>>

FileGoes(c, pc) == fileCall' = [fileCall EXCEPT ![c].pc = pc]
FileEnds(c)     == fileCall' = [fileCall EXCEPT ![c] = NoFileCall]

\* findFirst of the file: active, or trashed for restore.  A merge takes its tags along.
FileFound(c) ==
    LET call == fileCall[c]
        f    == call.id
    IN  /\ call.pc = "find"
        /\ IF ActiveFile(f) # (call.op # "restore") THEN FileEnds(c)
           ELSE fileCall' = [fileCall EXCEPT ![c] =
                  [@ EXCEPT !.has = TagsOf(f), !.folder = file[f].folder,
                     !.pc = CASE call.op = "merge"      -> "removals"
                              [] call.op = "softDelete" -> "write"
                              [] call.op = "restore"    -> IF file[f].folder = Null THEN "write" ELSE "folder"]]
        /\ UNCHANGED <<file, fileTag, binned, merged, mergesRaced>>

\* findFirst of the active folder: ingest refuses without it, restore goes to the root.
FileFolderFound(c) ==
    LET call == fileCall[c]
    IN  /\ call.pc = "folder"
        /\ IF Active(call.folder)
           THEN FileGoes(c, IF call.op = "ingest" THEN "tags" ELSE "write")
           ELSE IF call.op = "ingest" THEN FileEnds(c)
                ELSE fileCall' = [fileCall EXCEPT ![c].folder = Null, ![c].pc = "write"]
        /\ UNCHANGED <<file, fileTag, binned, merged, mergesRaced>>

\* count of the tags asked for.
IngestCountsTags(c) ==
    /\ fileCall[c].pc = "tags"
    /\ IF fileCall[c].ids \subseteq TagRows THEN FileGoes(c, "create") ELSE FileEnds(c)
    /\ UNCHANGED <<file, fileTag, binned, merged, mergesRaced>>

\* The row and its FileTag rows in one statement, which fails if a tag is gone.
IngestCreates(c) ==
    LET call == fileCall[c]
    IN  /\ call.pc = "create"
        /\ IF call.ids \subseteq TagRows
           THEN /\ file' = [file EXCEPT ![call.id] = [exists |-> TRUE, trashed |-> FALSE, folder |-> call.folder]]
                /\ fileTag' = fileTag \cup {<<call.id, t>> : t \in call.ids}
           ELSE UNCHANGED <<file, fileTag>>
        /\ FileEnds(c)
        /\ UNCHANGED <<binned, merged, mergesRaced>>

\* softDelete and restore, by the id alone.
FileWritten(c) ==
    LET call == fileCall[c]
    IN  /\ call.pc = "write"
        /\ file' = [file EXCEPT ![call.id] =
              IF call.op = "restore" THEN [@ EXCEPT !.trashed = FALSE, !.folder = call.folder]
              ELSE [@ EXCEPT !.trashed = TRUE]]
        /\ binned' = IF call.op = "softDelete" THEN binned \cup {call.id} ELSE binned
        /\ FileEnds(c)
        /\ UNCHANGED <<fileTag, merged, mergesRaced>>

\* findMany of the copies with their tags: all there, active, and of the same content.
MergeFindsRemovals(c) ==
    LET call == fileCall[c]
    IN  /\ call.pc = "removals"
        /\ IF \A f \in call.ids : ActiveFile(f) /\ HashOf[f] = HashOf[call.id]
           THEN fileCall' = [fileCall EXCEPT ![c].pc = "loop",
                               ![c].todo = {[file |-> f, tags |-> TagsOf(f)] : f \in call.ids}]
           ELSE FileEnds(c)
        /\ UNCHANGED <<file, fileTag, binned, merged, mergesRaced>>

Trash(c, r) ==
    LET rest == fileCall[c].todo \ {r}
    IN  /\ file' = [file EXCEPT ![r.file].trashed = TRUE]
        /\ merged' = merged \cup {[keep |-> fileCall[c].id, file |-> r.file, tags |-> r.tags]}
        /\ fileCall' = [fileCall EXCEPT ![c] =
              IF rest = {} THEN NoFileCall ELSE [@ EXCEPT !.todo = rest]]

\* Faulty: the copies are trashed first.
MergeTrashesFirst(c) ==
    /\ fileCall[c].pc = "loop"
    /\ \E r \in fileCall[c].todo : Trash(c, r)
    /\ UNCHANGED <<fileTag, binned, mergesRaced>>

\* One statement of the loop: a tag the kept file lacked when it was read is added, which fails
\* if it has it by now and ends the call; when none is missing the copy is trashed.  The tag
\* itself is there, for the copy has it.
MergeLoops(c) ==
    LET call == fileCall[c]
    IN  /\ call.pc = "loop"
        /\ \E r \in call.todo :
              IF r.tags \subseteq call.has THEN Trash(c, r) /\ UNCHANGED fileTag
              ELSE \E t \in r.tags \ call.has :
                      /\ fileTag' = fileTag \cup {<<call.id, t>>}
                      /\ IF <<call.id, t>> \in fileTag THEN FileEnds(c)
                         ELSE fileCall' = [fileCall EXCEPT ![c].has = @ \cup {t}]
                      /\ UNCHANGED <<file, merged>>
        /\ UNCHANGED <<binned, mergesRaced>>

FileStep(c) == \/ FileFound(c) \/ FileFolderFound(c) \/ IngestCountsTags(c) \/ IngestCreates(c)
               \/ FileWritten(c) \/ MergeFindsRemovals(c) \/ MergeLoops(c)

-----------------------------------------------------------------------------

Counts(what) == left[what] > 0 /\ left' = [left EXCEPT ![what] = @ - 1]

FolderRequest(c) == /\ Counts("folders")
                    /\ \E op \in {"create", "move", "softDelete", "restore"},
                          id \in Folders, to \in Folders \cup {Null} : FolderCallBegins(c, op, id, to)
                    /\ UNCHANGED <<tagVars, fileVars>>

TagRequest(c) == /\ Counts("tags")
                 /\ \E op \in {"create", "rename", "move", "remove"}, id \in Tags,
                       to \in Tags \cup {Null}, name \in Names \cup {Null} :
                          TagCallBegins(c, op, id, to, name)
                 /\ UNCHANGED <<folderVars, fileVars>>

FileRequest(c) == /\ Counts("files")
                  /\ \E id \in Files :
                        \/ \E op \in {"softDelete", "restore"} : FileCallBegins(c, op, id, Null, {})
                        \/ \E copies \in SUBSET (Files \ {id}) : FileCallBegins(c, "merge", id, Null, copies)
                        \/ \E where \in Folders \cup {Null}, tags \in SUBSET TagRows :
                              FileCallBegins(c, "ingest", id, where, tags)
                  /\ UNCHANGED <<folderVars, tagVars>>

Next == \/ \E c \in FolderCalls : \/ FolderRequest(c)
                                  \/ FolderStep(c) /\ UNCHANGED <<tagVars, fileVars, left>>
        \/ \E c \in TagCalls : \/ TagRequest(c)
                               \/ TagStep(c) /\ UNCHANGED <<folderVars, fileVars, left>>
        \/ \E c \in FileCalls : \/ FileRequest(c)
                                \/ FileStep(c) /\ UNCHANGED <<folderVars, tag, tagCall, tagsRaced, left>>

Spec == Init /\ [][Next]_vars

-----------------------------------------------------------------------------

\* A merge loses nothing: the kept file has every tag its copies had when they were read, and
\* some copy of the content stays until a user trashes one, unless two merges overlap.  It does
\* so although it acts on rows read earlier, and although it may fail half way.
MergesLoseNothing ==
    \A m \in merged :
        /\ m.tags \subseteq TagsOf(m.keep)
        /\ \/ mergesRaced
           \/ \E f \in Files : HashOf[f] = HashOf[m.file] /\ (ActiveFile(f) \/ f \in binned)
=============================================================================
