-------------------------------- MODULE TagTree --------------------------------
(***************************************************************************)
(* TagsService: the Tag and FileTag tables, the calls that create, update  *)
(* and remove tags, and the paths shown for them.  The database adds what  *)
(* the schema declares: siblings of one parent have different names, but   *)
(* NULL parents are never equal; a file's tag cannot be deleted; children  *)
(* of a deleted tag lose their parent.                                     *)
(*                                                                         *)
(* The module has no specification: ArchiveTrees runs its calls.           *)
(***************************************************************************)
EXTENDS TreeClimb, Sequences, SequencesExt

CONSTANTS Tags,      \* ids of Tag rows
          Names,     \* names of tags
          TagCalls   \* calls of TagsController that may be under way at once

VARIABLES tag,         \* the Tag rows
          fileTag,     \* the FileTag rows, pairs of file and tag
          tagCall,     \* the calls
          tagsRaced    \* history: two calls on tags have overlapped

tagVars == <<tag, fileTag, tagCall, tagsRaced>>

NoTag     == [exists |-> FALSE, parent |-> Null, name |-> Null]
NoTagCall == [op |-> "none", pc |-> "idle", id |-> Null, to |-> Null, name |-> Null,
              read |-> Null, climb |-> ClimbFrom(Null)]

TagRows   == {t \in Tags : tag[t].exists}
TagParent == [t \in Tags |-> tag[t].parent]

\* The tags a run may start from: a forest in which siblings have different names.
TagTable(r) ==
    /\ DOMAIN r \subseteq Tags
    /\ r \in [DOMAIN r -> [exists : {TRUE}, parent : DOMAIN r \cup {Null}, name : Names]]
    /\ Listed(DOMAIN r, [t \in DOMAIN r |-> r[t].parent]) = DOMAIN r
    /\ \A t, x \in DOMAIN r : r[t].parent = r[x].parent /\ r[t].name = r[x].name => t = x

TagInit(rows) == /\ \E r \in rows : tag = [t \in Tags |-> IF t \in DOMAIN r THEN r[t] ELSE NoTag]
                 /\ tagCall = [c \in TagCalls |-> NoTagCall]
                 /\ tagsRaced = FALSE

\* A request arrives: a rename sends a name, a move a parent and perhaps a name.
TagCallBegins(c, op, id, to, name) ==
    /\ tagCall[c].pc = "idle"
    /\ op = "create" => ~tag[id].exists /\ ~\E d \in TagCalls : tagCall[d].id = id
    /\ op # "create" => tag[id].exists
    /\ op \in {"remove", "rename"} => to = Null
    /\ op \in {"create", "rename"} => name # Null
    /\ op = "remove" => name = Null
    /\ to # Null => tag[to].exists
    /\ tagCall' = [tagCall EXCEPT ![c] =
          [op |-> op, id |-> id, to |-> to, name |-> name, read |-> Null, climb |-> ClimbFrom(to),
           pc |-> IF op # "create" THEN "find" ELSE IF to = Null THEN "name" ELSE "parent"]]
    /\ tagsRaced' = (tagsRaced \/ \E d \in TagCalls : tagCall[d].pc # "idle")
    /\ UNCHANGED <<tag, fileTag>>

TagGoes(c, pc) == tagCall' = [tagCall EXCEPT ![c].pc = pc]
TagEnds(c)     == tagCall' = [tagCall EXCEPT ![c] = NoTagCall]

InUse(t) == (\E x \in TagRows : tag[x].parent = t) \/ (\E p \in fileTag : p[2] = t)

\* findUnique: remove refuses a tag with children or files; a move into itself is refused, one
\* to where the tag is already is no move.
TagFound(c) ==
    LET call == tagCall[c]
        t    == call.id
        here == tag[t].parent
    IN  /\ call.pc = "find"
        /\ IF \/ ~tag[t].exists
              \/ call.op = "remove" /\ InUse(t)
              \/ call.op = "move" /\ (call.to = t \/ (call.to = here /\ call.name = Null))
           THEN TagEnds(c)
           ELSE tagCall' = [tagCall EXCEPT ![c] =
                  IF call.op = "remove" THEN [@ EXCEPT !.pc = "write"]
                  ELSE IF call.op = "rename" \/ call.to = here
                  THEN [@ EXCEPT !.op = "rename", !.to = here, !.read = tag[t].name, !.pc = "name"]
                  ELSE [@ EXCEPT !.read = tag[t].name,
                                 !.pc = IF call.to = Null THEN "name" ELSE "parent"]]
        /\ UNCHANGED <<tag, fileTag, tagsRaced>>

TagParentFound(c) ==
    /\ tagCall[c].pc = "parent"
    /\ IF ~tag[tagCall[c].to].exists THEN TagEnds(c)
       ELSE TagGoes(c, IF tagCall[c].op = "move" THEN "climb" ELSE "name")
    /\ UNCHANGED <<tag, fileTag, tagsRaced>>

TagClimbs(c) ==
    LET call == tagCall[c]
        next == Climb(TagParent, call.id, call.climb)
    IN  /\ call.pc = "climb"
        /\ IF next.at = call.id THEN TagEnds(c)
           ELSE tagCall' = [tagCall EXCEPT ![c].climb = next,
                              ![c].pc = IF next.at = Null THEN "name" ELSE "climb"]
        /\ UNCHANGED <<tag, fileTag, tagsRaced>>

Siblings(parent, name, except) ==
    {t \in TagRows \ {except} : tag[t].parent = parent /\ tag[t].name = name}

FinalName(call) == IF call.name = Null THEN call.read ELSE call.name

\* Faulty: a tag of the same name anywhere but at the root is in the way.
AssertNameFreeBelow(c) ==
    LET call == tagCall[c]
    IN  /\ call.pc = "name"
        /\ IF call.to # Null /\ Siblings(call.to, FinalName(call), call.id) # {}
           THEN TagEnds(c) ELSE TagGoes(c, "write")
        /\ UNCHANGED <<tag, fileTag, tagsRaced>>

\* assertNameFree under the final parent, which is the one asked for.
AssertNameFree(c) ==
    LET call == tagCall[c]
    IN  /\ call.pc = "name"
        /\ IF Siblings(call.to, FinalName(call), call.id) # {}
           THEN TagEnds(c) ELSE TagGoes(c, "write")
        /\ UNCHANGED <<tag, fileTag, tagsRaced>>

\* The constraints of the database on a row that is created or updated.
Accepted(t, row) == /\ row.parent # Null => tag[row.parent].exists
                    /\ row.parent # Null => Siblings(row.parent, row.name, t) = {}

Without(t) == [x \in Tags |-> IF x = t THEN NoTag
                              ELSE IF tag[x].parent = t THEN [tag[x] EXCEPT !.parent = Null]
                              ELSE tag[x]]

\* create, update of what was asked for, or delete; a statement the database refuses ends
\* the call.
TagWritten(c) ==
    LET call == tagCall[c]
        t    == call.id
        row  == [exists |-> TRUE,
                 name   |-> IF call.name = Null THEN tag[t].name ELSE call.name,
                 parent |-> IF call.op = "rename" THEN tag[t].parent ELSE call.to]
    IN  /\ call.pc = "write"
        /\ tag' = CASE call.op = "remove" /\ tag[t].exists /\ (\A p \in fileTag : p[2] # t) -> Without(t)
                    [] call.op # "remove" /\ (call.op = "create" \/ tag[t].exists) /\ Accepted(t, row) ->
                         [tag EXCEPT ![t] = row]
                    [] OTHER -> tag
        /\ TagEnds(c)
        /\ UNCHANGED <<fileTag, tagsRaced>>

TagStep(c) == \/ TagFound(c) \/ TagParentFound(c) \/ TagClimbs(c) \/ AssertNameFree(c)
              \/ TagWritten(c)

-----------------------------------------------------------------------------
(* Paths and descendants                                                   *)

\* Faulty: goes one level down.
ChildrenIds(t) == {t} \cup {x \in TagRows : tag[x].parent = t}

\* descendantIds: the tag and everything found below it.
DescendantIds(t) ==
    LET down[n \in 0..Cardinality(Tags)] ==
            IF n = 0 THEN {t}
            ELSE down[n - 1] \cup {x \in TagRows : tag[x].parent \in down[n - 1]}
    IN  down[Cardinality(Tags)]

\* build(id, seen) over rows read once: the tags on the path, root first.  A row met for the
\* second time ends the path; the cache only saves work unless there is a cycle.
PathTo(t) ==
    LET build[call \in (SUBSET TagRows) \X TagRows] ==
            LET seen == call[1]
                id   == call[2]
            IN  IF id \in seen \/ tag[id].parent \notin TagRows THEN <<id>>
                ELSE Append(build[<<seen \cup {id}, tag[id].parent>>], id)
    IN  build[<<{}, t>>]

-----------------------------------------------------------------------------

\* Every tag is shown in the tree and no two siblings have one name, at the root too, where
\* no constraint of the database helps.  Lost only when calls on tags overlap.
TagsKept ==
    tagsRaced \/ /\ Listed(TagRows, TagParent) = TagRows
                 /\ \A t \in TagRows : Siblings(tag[t].parent, tag[t].name, t) = {}

\* The path shown for a tag and the search with its sub-tags agree on what lies below what,
\* although one climbs and the other descends; and nothing refers to a tag that is gone.
PathsAgree ==
    /\ tagsRaced \/ \A t \in TagRows, x \in TagRows :
                        x \in DescendantIds(t) <=> t \in ToSet(PathTo(x))
    /\ \A t \in TagRows : tag[t].parent \in TagRows \cup {Null}
    /\ \A p \in fileTag : p[2] \in TagRows
=============================================================================
