------------------------------ MODULE FolderTree ------------------------------
(***************************************************************************)
(* FoldersService: the Folder table and the calls that create, move, trash *)
(* and restore folders.  Every call is a chain of awaits and none of them  *)
(* runs in a transaction, so a call acts on what it read earlier.          *)
(*                                                                         *)
(* The module has no specification: ArchiveTrees runs its calls.           *)
(***************************************************************************)
EXTENDS TreeClimb

CONSTANTS Folders,      \* ids of Folder rows
          FolderCalls   \* calls of FoldersController that may be under way at once

VARIABLES folder,      \* the Folder rows
          folderCall,  \* the calls
          movesRaced,  \* history: two calls that set a parent have overlapped
          trashRaced   \* history: a softDelete has overlapped a call that places a folder

folderVars == <<folder, folderCall, movesRaced, trashRaced>>

NoFolder     == [exists |-> FALSE, trashed |-> FALSE, parent |-> Null]
NoFolderCall == [op |-> "none", pc |-> "idle", id |-> Null, to |-> Null, climb |-> ClimbFrom(Null)]

Active(f) == folder[f].exists /\ ~folder[f].trashed
ActiveFolders == {f \in Folders : Active(f)}
FolderParent == [f \in Folders |-> folder[f].parent]

Forests(rows) ==
    {p \in [rows -> rows \cup {Null}] : Listed(rows, p) = rows}

FolderInit(forests) ==
    /\ \E p \in forests :
          folder = [f \in Folders |-> IF f \in DOMAIN p
                                      THEN [exists |-> TRUE, trashed |-> FALSE, parent |-> p[f]]
                                      ELSE NoFolder]
    /\ folderCall = [c \in FolderCalls |-> NoFolderCall]
    /\ movesRaced = FALSE /\ trashRaced = FALSE

Under(c, ops) == folderCall[c].op \in ops

\* A request arrives.
FolderCallBegins(c, op, id, to) ==
    LET others(ops) == \E d \in FolderCalls \ {c} : Under(d, ops)
        places      == {"create", "move", "restore"}
    IN  /\ folderCall[c].pc = "idle"
        /\ op \in {"create", "move"} \/ to = Null
        /\ op = "create" => ~folder[id].exists /\ ~\E d \in FolderCalls : folderCall[d].id = id
        /\ op # "create" => folder[id].exists
        /\ to # Null => folder[to].exists
        /\ folderCall' = [folderCall EXCEPT ![c] =
              [op |-> op, id |-> id, to |-> to, climb |-> ClimbFrom(to),
               pc |-> IF op # "create" THEN "find" ELSE IF to = Null THEN "write" ELSE "parent"]]
        /\ movesRaced' = (movesRaced \/ (op \in {"move", "restore"} /\ others({"move", "restore"})))
        /\ trashRaced' = \/ trashRaced
                         \/ (op = "softDelete" /\ others(places))
                         \/ (op \in places /\ others({"softDelete"}))
        /\ UNCHANGED folder

FolderGoes(c, pc) == folderCall' = [folderCall EXCEPT ![c].pc = pc]
FolderEnds(c)     == folderCall' = [folderCall EXCEPT ![c] = NoFolderCall]

\* findFirst of the folder itself: active for update and softDelete, trashed for restore.
\* The move to where it is already changes nothing; a move into itself is refused.
FolderFound(c) ==
    LET call == folderCall[c]
        f    == call.id
    IN  /\ call.pc = "find"
        /\ IF Active(f) # (call.op # "restore") \/ (call.op = "move" /\ call.to \in {folder[f].parent, f})
           THEN FolderEnds(c)
           ELSE folderCall' = [folderCall EXCEPT ![c] =
                  IF call.op = "restore"
                  THEN [@ EXCEPT !.to = folder[f].parent,
                                 !.pc = IF folder[f].parent = Null THEN "write" ELSE "parent"]
                  ELSE [@ EXCEPT !.pc = IF call.op = "softDelete" THEN "count"
                                        ELSE IF call.to = Null THEN "write" ELSE "parent"]]
        /\ UNCHANGED <<folder, movesRaced, trashRaced>>

\* findFirst of the active parent: create and update refuse without it, restore goes to the root.
ParentFound(c) ==
    LET call == folderCall[c]
    IN  /\ call.pc = "parent"
        /\ IF Active(call.to)
           THEN FolderGoes(c, IF call.op = "move" THEN "climb" ELSE "write")
           ELSE IF call.op = "restore"
                THEN folderCall' = [folderCall EXCEPT ![c].to = Null, ![c].pc = "write"]
                ELSE FolderEnds(c)
        /\ UNCHANGED <<folder, movesRaced, trashRaced>>

\* isAncestor(id, newParentId).
FolderClimbs(c) ==
    LET call == folderCall[c]
        next == Climb(FolderParent, call.id, call.climb)
    IN  /\ call.pc = "climb"
        /\ IF next.at = call.id THEN FolderEnds(c)
           ELSE folderCall' = [folderCall EXCEPT ![c].climb = next,
                                 ![c].pc = IF next.at = Null THEN "write" ELSE "climb"]
        /\ UNCHANGED <<folder, movesRaced, trashRaced>>

\* count of the active children.
ChildrenCounted(c) ==
    /\ folderCall[c].pc = "count"
    /\ IF \E f \in Folders : Active(f) /\ folder[f].parent = folderCall[c].id
       THEN FolderEnds(c) ELSE FolderGoes(c, "write")
    /\ UNCHANGED <<folder, movesRaced, trashRaced>>

\* create or update, by the id alone.
FolderWritten(c) ==
    LET call == folderCall[c]
    IN  /\ call.pc = "write"
        /\ folder' = [folder EXCEPT ![call.id] =
              CASE call.op = "create"     -> [exists |-> TRUE, trashed |-> FALSE, parent |-> call.to]
                [] call.op = "move"       -> [@ EXCEPT !.parent = call.to]
                [] call.op = "softDelete" -> [@ EXCEPT !.trashed = TRUE]
                [] call.op = "restore"    -> [@ EXCEPT !.trashed = FALSE, !.parent = call.to]]
        /\ FolderEnds(c)
        /\ UNCHANGED <<movesRaced, trashRaced>>

FolderStep(c) == \/ FolderFound(c) \/ ParentFound(c) \/ FolderClimbs(c)
                 \/ ChildrenCounted(c) \/ FolderWritten(c)

-----------------------------------------------------------------------------

\* Every active folder is shown in the tree, and none lies under a trashed one: moves never
\* close a cycle, a folder is trashed only without children and restored to the root if its
\* parent is gone.  The checks run over several awaits; what they promise is lost only when
\* calls that set parents, or a softDelete and a call that places a folder, overlap.
FoldersKept ==
    /\ movesRaced \/ Listed(ActiveFolders, FolderParent) = ActiveFolders
    /\ trashRaced \/ \A f \in Folders : Active(f) /\ folder[f].parent # Null
                                          => Active(folder[f].parent)
=============================================================================
