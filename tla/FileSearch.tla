------------------------------ MODULE FileSearch ------------------------------
(***************************************************************************)
(* GET /files and the smart collections: what the archive answers to a     *)
(* search, and how a search is kept under a name.                          *)
(*                                                                         *)
(* A search is a set of criteria, named as the keys of FileQuery, with an  *)
(* order and a page.  A criterion stands for the value its control has;    *)
(* Meets says which files satisfy it.                                      *)
(***************************************************************************)
EXTENDS Naturals, Sequences, FiniteSets, SequencesExt

CONSTANTS None,
          Files,        \* ids of File rows, numbers in order of creation
          Criteria,     \* the keys of FileQuery a user of this instance sets
          Meets,        \* the criteria each file satisfies
          NameRank,     \* the place of each file in the order of names
          PageSize,     \* files on a page
          Collections   \* ids of SmartCollection rows

ASSUME SearchAssumption ==
    /\ Files \subseteq Nat /\ PageSize \in Nat \ {0}
    /\ Meets \in [Files -> SUBSET Criteria] /\ NameRank \in [Files -> Nat]
    /\ \A f \in Files : ~{"untagged", "tagIds"} \subseteq Meets[f]

VARIABLES active,       \* the File rows that exist and are not deleted
          collections,  \* the SmartCollection rows
          searched      \* history: the criteria each collection was saved from

archiveVars == <<active, collections, searched>>

-----------------------------------------------------------------------------
\* The criteria the statement applies: untagged leaves the chosen tags out.
Applied(where) == IF "untagged" \in where THEN where \ {"tagIds"} ELSE where

Found(where) == {f \in active : Applied(where) \subseteq Meets[f]}

Sorted(found, sort, order) ==
    LET key(f)       == IF sort = "name" THEN NameRank[f] ELSE f
        before(f, g) == IF order = "asc" THEN key(f) < key(g) ELSE key(g) < key(f)
    IN  SetToSortSeq(found, before)

\* FilesService.list: the page of the files found, and how many there are.
ListFiles(query) ==
    LET found == Sorted(Found(query.where), query.sort, query.order)
        first == (query.page - 1) * PageSize + 1
    IN  [items |-> SubSeq(found, first, Min({Len(found), first + PageSize - 1})),
         total |-> Len(found), page |-> query.page,
         pages |-> IF found = <<>> THEN 1 ELSE (Len(found) + PageSize - 1) \div PageSize]

-----------------------------------------------------------------------------
\* The keys a collection keeps.
FilterKeys == {"q", "folderId", "tagId", "withSub", "tagIds", "excludeTagIds", "mimeTypes", "ext",
               "sizeMin", "sizeMax", "createdFrom", "createdTo", "uploadedById", "source",
               "duplicate", "backedUp"}

\* sanitize drops every other key; sort and order are kept.
Sanitized(where) == where \cap FilterKeys

NoCollection == [live |-> FALSE, where |-> {}, sort |-> None, order |-> None, by |-> None]

\* CollectionsService.list.
LiveCollections == {c \in Collections : collections[c].live}

CollectionCreated(c, by, query) ==
    /\ collections[c] = NoCollection
    /\ collections' = [collections EXCEPT ![c] =
          [live |-> TRUE, where |-> Sanitized(query.where),
           sort |-> query.sort, order |-> query.order, by |-> by]]
    /\ searched' = [searched EXCEPT ![c] = query.where]
    /\ UNCHANGED active

\* ensureCanManage: the creator, or an owner of the archive.
CanManage(user, c) == collections[c].by = user.id \/ user.isOwner

CollectionRemoved(c) ==
    /\ collections' = [collections EXCEPT ![c].live = FALSE]
    /\ UNCHANGED <<active, searched>>

ArchiveInit(rows, kept) ==
    /\ active = rows
    /\ collections = [c \in Collections |-> IF c \in DOMAIN kept THEN kept[c] ELSE NoCollection]
    /\ searched = [c \in Collections |-> IF c \in DOMAIN kept THEN kept[c].where ELSE {}]

\* Opening a collection runs the same filtered search: it holds every criterion it was saved from.
\* collections.service.ts:2 says so of every collection; untagged is not among the keys kept.
SavedSearchReopens ==
    \A c \in LiveCollections : Applied(collections[c].where) = Applied(searched[c])
=============================================================================
