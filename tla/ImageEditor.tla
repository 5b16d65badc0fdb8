----------------------------- MODULE ImageEditor -----------------------------
(***************************************************************************)
(* ImageEditor.tsx over the files page, with the edits of MediaService.    *)
(*                                                                         *)
(* The source is never changed: the controls make a recipe, the server     *)
(* shows what it would give, and a saved version is a file of its own.     *)
(* Saving is one step here; its own steps are in EditVersions.             *)
(***************************************************************************)
EXTENDS FilesScreen, EditRecipes

CONSTANTS Strokes,   \* operations the controls and the drawing tools make
          Versions   \* ids of MediaEditVersion rows, 1..n

ASSUME EditorAssumption == Strokes \subseteq Operations /\ None \notin Versions

VARIABLES editor,    \* the editor that is open
          previews,  \* its requests for a preview
          listings,  \* its requests for the versions
          comparing, \* its requests for the picture of a version
          edit,      \* of each work with op "edit" or "queue": what is to be saved
          version,   \* the MediaEditVersion rows
          jobs,      \* recipes in the render queue
          failed,    \* history: the last preview failed
          behind     \* history: the versions listed may not be the latest

requestVars == <<previews, listings, comparing>>
mediaVars   == <<edit, version, jobs>>
editorVars  == <<editor, requestVars, mediaVars, failed, behind>>

NoVersion == [of |-> None, recipe |-> <<>>, result |-> None, copyOf |-> None]
NoEdit    == [of |-> None, no |-> 0, recipe |-> <<>>, share |-> FALSE, copyOf |-> None]
NoEditor  == [file |-> None, no |-> 0, controls |-> Untouched, dragging |-> FALSE, base |-> FALSE, due |-> FALSE,
              preview |-> None, loading |-> FALSE, saving |-> FALSE, copying |-> {},
              shown |-> {}, compare |-> None, compared |-> None]

Saved        == {v \in Versions : version[v] # NoVersion}
VersionsSaved(f) == {v \in Saved : version[v].of = f}
Recipe       == RecipeOf(editor.controls)
Open         == editor.file # None

\* imageFileOrThrow: the file is there and is an image that may be edited.
EditableFile(f) == f \in active /\ Kind[f] = "image"

-----------------------------------------------------------------------------
(* Opening and closing *)

\* refreshVersions.
Listing(no, f) == [no |-> no, of |-> f, served |-> FALSE, shown |-> {}]
Refreshes(no, f) ==
    /\ listings' = listings \cup {Listing(no, f)}
    /\ behind' = (listings # {})

EditorOpened(f) ==
    /\ Granted("media.edit") /\ ~Open /\ screen.ready /\ Kind[f] = "image"
    /\ f = pane.file \/ (pane.file = None /\ \E i \in DOMAIN screen.result.items : screen.result.items[i] = f)
    /\ editor' = [NoEditor EXCEPT !.file = f, !.no = left["editor"], !.base = TRUE]
    /\ Spend("editor") /\ Refreshes(0, f)
    /\ failed' = FALSE
    /\ UNCHANGED <<previews, comparing, mediaVars>>

\* The component is unmounted; answers to come find nobody.
EditorClosed ==
    /\ Open /\ editor' = NoEditor
    /\ previews' = {} /\ listings' = {} /\ comparing' = {} /\ failed' = FALSE
    /\ UNCHANGED <<mediaVars, behind, left>>

\* The base picture has come, or failed.
BaseAnswered ==
    /\ editor.base /\ editor' = [editor EXCEPT !.base = FALSE]
    /\ UNCHANGED <<requestVars, mediaVars, failed, behind, left>>

-----------------------------------------------------------------------------
(* Controls and preview *)

\* Whatever changes the recipe cuts off the preview under way and starts the timer of 450 ms;
\* an empty recipe shows the base picture.
Becomes(next) ==
    LET changed == RecipeOf(next.controls) # Recipe
        empty   == RecipeOf(next.controls) = <<>>
    IN  IF ~changed THEN editor' = next /\ UNCHANGED <<previews, failed>>
        ELSE /\ editor' = [next EXCEPT !.due = ~empty, !.loading = @ \/ ~empty,
                                       !.preview = IF empty THEN None ELSE @]
             /\ previews' = {[p EXCEPT !.alive = FALSE] : p \in previews}
             /\ failed' = FALSE

Draws(controls) ==
    /\ Open /\ ~editor.dragging /\ editor.compare = None /\ controls # editor.controls
    /\ Becomes([editor EXCEPT !.controls = controls])
    /\ Spend("draw")
    /\ UNCHANGED <<listings, comparing, mediaVars, behind>>

\* A slider, a button, a checkbox; the stroke of a drawing tool.
ControlSet(o) ==
    LET c == editor.controls
    IN  \/ /\ o.op \in Geometry \ {"crop"}
           /\ Draws([c EXCEPT !.geom = {p \in @ : p.op # o.op} \cup ({o} \ @)])
        \/ o.op = "redact" /\ Draws([c EXCEPT !.areas = Append(@, o)])
        \/ o.op \in {"text", "arrow", "frame"} /\ Draws([c EXCEPT !.marks = Append(@, o)])

\* The cross of an area or a mark.
StrokeRemoved ==
    LET c == editor.controls
    IN  \/ \E i \in DOMAIN c.areas : Draws([c EXCEPT !.areas = RemoveAt(@, i)])
        \/ \E i \in DOMAIN c.marks : Draws([c EXCEPT !.marks = RemoveAt(@, i)])

\* resetAll; loadRecipe of a version in the list.
ControlsReset  == ~editor.saving /\ Draws(Untouched)
RecipeLoaded(v) == v \in editor.shown /\ Draws(ControlsOf(version[v].recipe))

\* A crop begins without extent, and one that stays tiny is given up.
CropBegins ==
    /\ Open /\ ~editor.dragging /\ editor.base = FALSE /\ editor.compare = None
    /\ Becomes([editor EXCEPT !.dragging = TRUE,
                   !.controls.geom = {p \in @ : p.op # "crop"} \cup {Op("crop", "tiny")}])
    /\ Spend("draw") /\ UNCHANGED <<listings, comparing, mediaVars, behind>>

CropEnds ==
    /\ editor.dragging
    /\ \E crop \in {{}} \cup {{o} : o \in {p \in Strokes : p.op = "crop"}} :
          Becomes([editor EXCEPT !.dragging = FALSE,
                     !.controls.geom = {p \in @ : p.op # "crop"} \cup crop])
    /\ UNCHANGED <<listings, comparing, mediaVars, behind, left>>

\* The timer: the preview of the recipe is asked for.
PreviewAsked ==
    /\ editor.due
    /\ editor' = [editor EXCEPT !.due = FALSE]
    /\ previews' = previews \cup {[recipe |-> Recipe, alive |-> TRUE]}
    /\ UNCHANGED <<listings, comparing, mediaVars, failed, behind, left>>

\* Faulty: an answer to a recipe that has been replaced is shown.
PreviewShownLate(p, ok) ==
    /\ p \in previews
    /\ ok => EditableFile(editor.file)
    /\ previews' = previews \ {p}
    /\ editor' = [editor EXCEPT !.loading = FALSE, !.preview = IF ok THEN Picture(Kept(p.recipe)) ELSE @]
    /\ failed' = ~ok
    /\ UNCHANGED <<listings, comparing, mediaVars, behind, left>>

\* MediaService.preview has applied what it kept of the recipe, or failed.
PreviewAnswered(p, ok) ==
    /\ p \in previews
    /\ ok => EditableFile(editor.file)
    /\ previews' = previews \ {p}
    /\ IF p.alive
       THEN /\ editor' = [editor EXCEPT !.loading = FALSE, !.preview = IF ok THEN Picture(Kept(p.recipe)) ELSE @]
            /\ failed' = ~ok
       ELSE UNCHANGED <<editor, failed>>
    /\ UNCHANGED <<listings, comparing, mediaVars, behind, left>>

-----------------------------------------------------------------------------
(* Saving *)

EditStarts(w, op, todo, next, kind) ==
    /\ Open /\ ~editor.dragging /\ editor.compare = None
    /\ Starts(w, op, None)
    /\ edit' = [edit EXCEPT ![w] = todo]
    /\ editor' = next
    /\ Spend(kind)
    /\ UNCHANGED <<archiveVars, screen, calls, requestVars, version, jobs, failed, behind>>

\* doSave, and onSaveShare, which needs no change.
SaveClicked(w, share) ==
    /\ ~editor.saving /\ ~editor.base /\ (share \/ Recipe # <<>>)
    /\ EditStarts(w, "edit", [of |-> editor.file, no |-> editor.no, recipe |-> Recipe, share |-> share, copyOf |-> None],
                  [editor EXCEPT !.saving = TRUE], "save")

\* onSaveBackground.
QueueClicked(w) ==
    /\ ~editor.saving /\ ~editor.base /\ Recipe # <<>>
    /\ EditStarts(w, "queue", [of |-> editor.file, no |-> editor.no, recipe |-> Recipe, share |-> FALSE, copyOf |-> None],
                  [editor EXCEPT !.saving = TRUE], "queue")

\* onDuplicate: the recipe is read by the server.
DuplicateClicked(w, v) ==
    /\ v \in editor.shown \ editor.copying
    /\ EditStarts(w, "edit", [of |-> editor.file, no |-> editor.no, recipe |-> version[v].recipe, share |-> FALSE, copyOf |-> v],
                  [editor EXCEPT !.copying = @ \cup {v}], "copy")

\* saveVersion: the result is a file of its own.
SavesVersion(todo) ==
    LET ops == IF todo.share THEN ForSharing(Kept(todo.recipe), "note") ELSE Kept(todo.recipe)
        v   == Cardinality(Saved) + 1
        new == {f \in Files \ active : Kind[f] = "image" /\ \A w \in Works : work[w].target # f}
    IN  /\ EditableFile(todo.of) /\ ops # <<>>
        /\ v \in Versions /\ new # {}
        /\ version' = [version EXCEPT ![v] = [of |-> todo.of, recipe |-> ops, result |-> Min(new),
                                              copyOf |-> todo.copyOf]]
        /\ active' = active \cup {Min(new)}

EditServed(w) ==
    /\ work[w].op \in {"edit", "queue"} /\ work[w].pc = "sent"
    /\ IF work[w].op = "edit"
       THEN SavesVersion(edit[w]) /\ UNCHANGED jobs
       ELSE jobs' = Append(jobs, edit[w]) /\ UNCHANGED <<version, active>>
    /\ work' = [work EXCEPT ![w].pc = "done"]
    /\ UNCHANGED <<collections, searched, screen, calls, editor, requestVars, edit, failed, behind, left, doubt>>

Mine(todo) == Open /\ editor.no = todo.no

\* The buttons are released, the versions asked for again, and the page told, though the editor
\* may be closed by then.  The version of a queued recipe is asked for 4 seconds later.
EditAnswered(w) ==
    LET todo == edit[w]
    IN  /\ work[w].op \in {"edit", "queue"} /\ work[w].pc = "done"
        /\ editor' = IF ~Mine(todo) THEN editor
                     ELSE IF todo.copyOf # None THEN [editor EXCEPT !.copying = @ \ {todo.copyOf}]
                     ELSE [editor EXCEPT !.saving = FALSE]
        /\ IF work[w].op = "queue"
           THEN work' = [work EXCEPT ![w].pc = "later"] /\ UNCHANGED <<edit, listings, behind, calls, screen, doubt>>
           ELSE /\ edit' = [edit EXCEPT ![w] = NoEdit]
                /\ IF Mine(todo) THEN Refreshes(w, editor.file) ELSE behind' = TRUE /\ UNCHANGED listings
                /\ ReloadSent(w)
        /\ UNCHANGED <<archiveVars, previews, comparing, version, jobs, failed, left>>

RefreshedLater(w) ==
    /\ work[w].op = "queue" /\ work[w].pc = "later"
    /\ IF Mine(edit[w]) THEN Refreshes(w, editor.file) ELSE UNCHANGED <<listings, behind>>
    /\ work' = [work EXCEPT ![w] = NoWork]
    /\ edit' = [edit EXCEPT ![w] = NoEdit]
    /\ UNCHANGED <<archiveVars, screen, calls, doubt, editor, previews, comparing, version, jobs, failed, left>>

EditRefused(w) ==
    LET todo == edit[w]
    IN  /\ work[w].op \in {"edit", "queue"} /\ work[w].pc = "sent"
        /\ edit' = [edit EXCEPT ![w] = NoEdit]
        /\ work' = [work EXCEPT ![w] = NoWork]
        /\ editor' = [editor EXCEPT !.saving = @ /\ (~Mine(todo) \/ todo.copyOf # None),
                                    !.copying = IF Mine(todo) THEN @ \ {todo.copyOf} ELSE @]
        /\ UNCHANGED <<archiveVars, screen, calls, doubt, requestVars, version, jobs, failed, behind, left>>

\* The render queue saves what was sent to it; no page is told.
JobSaved ==
    /\ jobs # <<>> /\ SavesVersion(Head(jobs))
    /\ jobs' = Tail(jobs)
    /\ doubt' = TRUE /\ behind' = TRUE
    /\ UNCHANGED <<collections, searched, screen, calls, work, editor, requestVars, edit, failed, left>>

-----------------------------------------------------------------------------
(* The versions and their comparison *)

ListingServed(l) ==
    /\ l \in listings /\ ~l.served
    /\ listings' = (listings \ {l}) \cup {[l EXCEPT !.served = TRUE, !.shown = VersionsSaved(l.of)]}
    /\ UNCHANGED <<editor, previews, comparing, mediaVars, failed, behind, left>>

\* An error is swallowed and the old list stays.
ListingAnswered(l, ok) ==
    /\ l \in listings /\ l.served
    /\ listings' = listings \ {l}
    /\ editor' = IF ok THEN [editor EXCEPT !.shown = l.shown] ELSE editor
    /\ behind' = (behind \/ ~ok)
    /\ UNCHANGED <<previews, comparing, mediaVars, failed, left>>

CompareOpened(v) ==
    /\ v \in editor.shown /\ editor.compare = None
    /\ editor' = [editor EXCEPT !.compare = v]
    /\ comparing' = {[c EXCEPT !.alive = FALSE] : c \in comparing} \cup {[version |-> v, alive |-> TRUE]}
    /\ Spend("look") /\ UNCHANGED <<previews, listings, mediaVars, failed, behind>>

CompareAnswered(c, ok) ==
    /\ c \in comparing
    /\ ok => EditableFile(version[c.version].result)
    /\ comparing' = comparing \ {c}
    /\ editor' = IF c.alive THEN [editor EXCEPT !.compared = IF ok THEN c.version ELSE None] ELSE editor
    /\ UNCHANGED <<previews, listings, mediaVars, failed, behind, left>>

CompareClosed ==
    /\ editor.compare # None
    /\ editor' = [editor EXCEPT !.compare = None, !.compared = None]
    /\ comparing' = {[c EXCEPT !.alive = FALSE] : c \in comparing}
    /\ UNCHANGED <<previews, listings, mediaVars, failed, behind, left>>

-----------------------------------------------------------------------------

\* rows: the versions there are.
EditorInit(rows) ==
    /\ editor = NoEditor /\ previews = {} /\ listings = {} /\ comparing = {}
    /\ edit = [w \in Works |-> NoEdit]
    /\ version = [v \in Versions |-> IF v \in DOMAIN rows THEN rows[v] ELSE NoVersion]
    /\ jobs = <<>> /\ failed = FALSE /\ behind = FALSE

ControlStep ==
    \/ \E o \in Strokes : ControlSet(o)
    \/ StrokeRemoved \/ ControlsReset \/ CropBegins \/ CropEnds
    \/ \E v \in Versions : RecipeLoaded(v) \/ CompareOpened(v)
    \/ CompareClosed

AnswerStep ==
    \/ BaseAnswered \/ PreviewAsked
    \/ \E ok \in BOOLEAN : \/ \E p \in previews : PreviewAnswered(p, ok)
                           \/ \E l \in listings : ListingAnswered(l, ok)
                           \/ \E c \in comparing : CompareAnswered(c, ok)
    \/ \E l \in listings : ListingServed(l)

SavingStep ==
    \/ JobSaved
    \/ \E w \in Works :
          \/ \E share \in BOOLEAN : SaveClicked(w, share)
          \/ \E v \in Versions : DuplicateClicked(w, v)
          \/ QueueClicked(w) \/ EditServed(w) \/ EditAnswered(w)
          \/ RefreshedLater(w) \/ EditRefused(w)

EditorStep ==
    \/ /\ (\E f \in Files : EditorOpened(f)) \/ EditorClosed \/ ControlStep \/ AnswerStep
       /\ UNCHANGED <<user, archiveVars, screenVars, paneVars>>
    \/ SavingStep /\ UNCHANGED <<user, paneVars>>

-----------------------------------------------------------------------------

\* Without a spinner the picture beside the controls is the one the recipe gives: a preview of
\* an earlier recipe is never taken for it, nor one kept when the recipe has become empty.
PreviewIsExact ==
    Open => /\ Recipe = <<>> => editor.preview = None
            /\ Recipe # <<>> /\ ~editor.loading /\ ~failed => editor.preview = Picture(Kept(Recipe))

\* The versions listed are the ones saved, and the one compared is the one that was chosen,
\* unless listings overlapped, one failed, or the queue has saved since.
VersionsAreListed ==
    /\ Open /\ listings = {} /\ ~behind /\ (\A w \in Works : edit[w] = NoEdit)
          => editor.shown = VersionsSaved(editor.file)
    /\ editor.compared \in {None, editor.compare}

EditorShowsTruth == PreviewIsExact /\ VersionsAreListed

\* A copy of a version has its recipe: what was kept of a recipe is kept whole a second time.
\* Only the two operations added to a version to be shared can exceed what is looked at.
DuplicateKeepsRecipe ==
    \A v \in Saved : LET u == version[v].copyOf
                     IN  u # None /\ Len(version[u].recipe) <= MaxRecipe
                            => version[v].recipe = version[u].recipe
=============================================================================
