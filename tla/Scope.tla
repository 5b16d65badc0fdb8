--------------------------------- MODULE Scope ---------------------------------
(***************************************************************************)
(* ScopeService: a scope says which files an access rule or a watermark    *)
(* bears on.  Targets (folders, tags, files) are alternatives, filters     *)
(* (type, sensitivity) narrow them down.  The rule is written twice: for   *)
(* one file whose context is at hand, and as a filter for a query over all *)
(* files.  One climbs the trees from the file, the other expands them      *)
(* downwards from the scope.                                               *)
(*                                                                         *)
(* A scope is a record of the fields folders, tags, files, types,          *)
(* sensitivities, subfolders and subtags; an archive one of the fields     *)
(* folderParent, tagParent, sensitivity (of every tag) and file, a row of  *)
(* the fields id, folder, tags and type.                                   *)
(***************************************************************************)
EXTENDS Naturals, FiniteSets

CONSTANT Null   \* SQL NULL

IsEmpty(s) == /\ s.folders = {} /\ s.tags = {} /\ s.files = {}
              /\ s.types = {} /\ s.sensitivities = {}

HasTargets(s) == s.folders # {} \/ s.tags # {} \/ s.files # {}

-----------------------------------------------------------------------------
(* One file: fileContext and matches                                       *)

\* Everything the loop collects that follows the parents until it sees Null or a
\* node for the second time.
Chain(parent, starts) ==
    LET up[n \in 0..Cardinality(DOMAIN parent)] ==
            IF n = 0 THEN starts
            ELSE up[n - 1] \cup ({parent[x] : x \in up[n - 1]} \ {Null})
    IN  up[Cardinality(DOMAIN parent)]

FileContext(archive) ==
    LET file == archive.file
    IN  [id            |-> file.id,
         folder        |-> file.folder,
         folderChain   |-> Chain(archive.folderParent, {file.folder} \ {Null}),
         directTags    |-> file.tags,
         tagChain      |-> Chain(archive.tagParent, file.tags),
         type          |-> file.type,
         sensitivities |-> {archive.sensitivity[t] : t \in file.tags}]

Matches(s, ctx) ==
    \/ IsEmpty(s)
    \/ /\ HasTargets(s) =>
              \/ s.folders \cap (IF s.subfolders THEN ctx.folderChain ELSE {ctx.folder}) # {}
              \/ s.tags \cap (IF s.subtags THEN ctx.tagChain ELSE ctx.directTags) # {}
              \/ ctx.id \in s.files
       /\ s.types # {} => ctx.type \in s.types
       /\ s.sensitivities # {} => s.sensitivities \cap ctx.sensitivities # {}

-----------------------------------------------------------------------------
(* A query: scopeWhere and fileWhereForScopes                              *)

\* Faulty: the children, and not theirs.
ExpandOnce(parent, ids) == ids \cup {x \in DOMAIN parent : parent[x] \in ids}

\* expandFoldersDown and expandTagsDown.
ExpandDown(parent, ids) ==
    LET down[n \in 0..Cardinality(DOMAIN parent)] ==
            IF n = 0 THEN ids
            ELSE down[n - 1] \cup {x \in DOMAIN parent : parent[x] \in down[n - 1]}
    IN  down[Cardinality(DOMAIN parent)]

\* Whether the condition selects the row of the archive's file.  The files of the scope
\* have no part in it: a scope of files alone is the empty OR, which selects nothing.
Selects(s, archive) ==
    LET file == archive.file
    IN  /\ HasTargets(s) =>
              \/ file.folder \in (IF s.subfolders
                                  THEN ExpandDown(archive.folderParent, s.folders)
                                  ELSE s.folders)
              \/ file.tags \cap (IF s.subtags THEN ExpandDown(archive.tagParent, s.tags)
                                 ELSE s.tags) # {}
        /\ s.types # {} => file.type \in s.types
        /\ s.sensitivities # {} => \E t \in file.tags : archive.sensitivity[t] \in s.sensitivities

\* One empty scope among them, and everything is selected; none at all, and nothing is.
SelectedByAny(scopes, archive) == \E s \in scopes : IsEmpty(s) \/ Selects(s, archive)
=============================================================================
