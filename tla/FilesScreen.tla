----------------------------- MODULE FilesScreen -----------------------------
(***************************************************************************)
(* files/page.tsx: the list of files with its search, the collections, the *)
(* upload form, the deletions and the details pane.                        *)
(*                                                                         *)
(* Each render runs the effects whose dependencies changed.  A request is  *)
(* sent, served by the archive and answered to the page, in three steps,   *)
(* and the answers come back in any order.                                 *)
(***************************************************************************)
EXTENDS FileSearch

CONSTANTS Slots,     \* requests for the list that may be under way, 1..n
          Works,     \* uploads, deletions and savings that may be under way, 1..n
          Kind       \* "image", "heavy" or "other", of each file

ASSUME ScreenAssumption ==
    Slots \subseteq Nat /\ IsFiniteSet(Slots) /\ None \notin Works \cup Files

VARIABLES user,      \* who looks: id, isOwner, the permissions granted
          screen,    \* the state of the list and its controls
          calls,     \* the requests for the list
          work,      \* uploads, deletions and savings, with the render they were started in
          pane,      \* the details pane
          asked,     \* the requests of the details pane
          doubt,     \* history: what the list shows may not be of its query: calls raced or failed
          mixed,     \* history: two openings of the details pane overlapped
          left       \* how often each kind of user action may still happen

screenVars == <<screen, calls, work, doubt>>
paneVars   == <<pane, asked, mixed>>
pageVars   == <<user, archiveVars, screenVars, paneVars, left>>

Typed == {"q", "ext"}     \* criteria typed into a field, debounced by 350 ms

Empty    == [items |-> <<>>, total |-> 0, page |-> 1, pages |-> 1]
NoCall   == [pc |-> "none", kind |-> "none", query |-> None, answer |-> None, alive |-> FALSE, work |-> None]
NoWork   == [op |-> "none", pc |-> "none", target |-> None, query |-> None]
Closed   == [file |-> None, details |-> None, preview |-> None, state |-> "idle"]

Granted(permission) == user.isOwner \/ permission \in user.granted

\* buildQuery, of the state a render sees.
QueryOf(s) == [where |-> (s.where \ Typed) \cup s.settled, sort |-> s.sort, order |-> s.order, page |-> s.page]
Query      == QueryOf(screen)

\* What the count of active filters takes in, and whether there is a search to save.
ActiveFilters == (screen.where \ Typed) \cup (screen.settled \ {"q"})
Filtering     == ActiveFilters \cup screen.settled # {}

Spend(kind) == left[kind] > 0 /\ left' = [left EXCEPT ![kind] = @ - 1]

-----------------------------------------------------------------------------
(* Requests for the list *)

FreeSlots   == {s \in Slots : calls[s].pc = "none"}
FreeSlot(n) == CHOOSE s \in FreeSlots : Cardinality({t \in FreeSlots : t < s}) = n
Sent(kind, query, w) ==
    [pc |-> "sent", kind |-> kind, query |-> query, answer |-> None, alive |-> TRUE, work |-> w]

\* What is started and will reload the list when it is done.
Reloading == {w \in Works : work[w].op \in {"upload", "delete", "edit"}}

\* The cleanup of the effect that sent them.
Cut(cs) == [s \in Slots |-> IF cs[s].kind = "fetch" THEN [cs[s] EXCEPT !.alive = FALSE] ELSE cs[s]]

\* The renders a change of state leads to.  A change of the filters or the order goes back to
\* page 1, after the list was asked for the page it was at; that request is cut off at once.
\* busy: what still runs and will reload the list.
Renders(next, busy) ==
    LET turned  == [QueryOf(next) EXCEPT !.page = 1] # [Query EXCEPT !.page = 1]
        final   == IF turned THEN [next EXCEPT !.page = 1] ELSE next
        doomed  == turned /\ next.page # 1
        fetch   == Sent("fetch", QueryOf(final), None)
        cut     == Cut(calls)
    IN  IF ~next.ready \/ (screen.ready /\ QueryOf(final) = Query)
        THEN screen' = final /\ UNCHANGED <<calls, doubt>>
        ELSE /\ screen' = [final EXCEPT !.loading = TRUE]
             /\ IF doomed
                THEN /\ Cardinality(FreeSlots) > 1
                     /\ calls' = [cut EXCEPT ![FreeSlot(0)] = [Sent("fetch", QueryOf(next), None) EXCEPT !.alive = FALSE],
                                             ![FreeSlot(1)] = fetch]
                ELSE FreeSlots # {} /\ calls' = [cut EXCEPT ![FreeSlot(0)] = fetch]
             /\ doubt' = (busy # {})

\* The archive answers a request.
ListServed(s) ==
    /\ calls[s].pc = "sent"
    /\ calls' = [calls EXCEPT ![s] = [@ EXCEPT !.pc = "served", !.answer = ListFiles(calls[s].query)]]
    /\ UNCHANGED <<screen, work, doubt>>

\* Faulty: an answer is applied whatever has been asked since.
CountsAlways(call) == call.kind # "none"

\* Whether an answer counts: the effect's only until the next one, reload's always.
Counts(call) == call.kind = "reload" \/ call.alive

\* The answer reaches the page, or the request has failed.
ListAnswered(s, ok) ==
    LET call == calls[s]
    IN  /\ call.pc = "served"
        /\ calls' = [calls EXCEPT ![s] = NoCall]
        /\ IF ~Counts(call) THEN UNCHANGED <<screen, doubt>>
           ELSE /\ screen' = [screen EXCEPT !.loading = FALSE,
                      !.result = IF ok THEN call.answer ELSE @,
                      !.uploading = @ /\ ~(call.work \in Works /\ work[call.work].op = "upload")]
                /\ doubt' = (doubt \/ ~ok)
        /\ work' = IF call.work = None THEN work ELSE [work EXCEPT ![call.work] = NoWork]

-----------------------------------------------------------------------------
(* The controls *)

\* getMe, then the menus; without files.view the page refuses.
Mounts ==
    /\ ~screen.ready /\ Granted("files.view")
    /\ Renders([screen EXCEPT !.ready = TRUE], Reloading)
    /\ UNCHANGED <<work, left>>

Changes(next) == screen.ready /\ next # screen /\ Renders(next, Reloading) /\ Spend("search") /\ UNCHANGED work

\* A control of the filter panel, or the search field; the tags are hidden under untagged.
CriterionToggled(c) ==
    /\ c \in {"tagIds", "excludeTagIds"} => "untagged" \notin screen.where
    /\ Changes([screen EXCEPT !.where = IF c \in @ THEN @ \ {c} ELSE @ \cup {c}])

\* The timer of a typed field.
TypingSettles ==
    /\ screen.settled # screen.where \cap Typed
    /\ Renders([screen EXCEPT !.settled = screen.where \cap Typed], Reloading)
    /\ UNCHANGED <<work, left>>

\* clearFilters: everything but the search field.
FiltersCleared ==
    /\ ActiveFilters # {}
    /\ Changes([screen EXCEPT !.where = @ \cap {"q"}])

\* quickView: everything is cleared, and one criterion set or the newest come first.
QuickViews == {"mimeTypes", "untagged", "backedUp", "duplicate"}

QuickView(c) ==
    Changes(IF c = "new" THEN [screen EXCEPT !.where = {}, !.chosen = None, !.sort = "createdAt", !.order = "desc"]
            ELSE [screen EXCEPT !.where = {c}, !.chosen = None])

\* sortBy: the same field turns the order round, another starts with its own.
SortedBy(field) ==
    Changes([screen EXCEPT !.sort = field,
        !.order = IF screen.sort = field THEN (IF @ = "asc" THEN "desc" ELSE "asc")
                  ELSE IF field = "name" THEN "asc" ELSE "desc"])

\* The buttons are enabled by the page last shown and turn the page last asked for.
PageTurned(forward) ==
    /\ screen.result.items # <<>>
    /\ IF forward THEN screen.result.page < screen.result.pages ELSE screen.result.page > 1
    /\ Changes([screen EXCEPT !.page = IF forward THEN @ + 1 ELSE Max({@ - 1, 1})])

\* applyCollection.
CollectionOpened(c) ==
    /\ c \in screen.known
    /\ Changes([screen EXCEPT !.chosen = c, !.where = collections[c].where,
                              !.sort = collections[c].sort, !.order = collections[c].order])

-----------------------------------------------------------------------------
(* Work: what changes the archive *)

Starts(w, op, target) ==
    /\ screen.ready
    /\ work[w] = NoWork /\ \A v \in Works : v < w => work[v] # NoWork
    /\ work' = [work EXCEPT ![w] = [op |-> op, pc |-> "sent", target |-> target, query |-> Query]]
    /\ doubt' = (doubt \/ (op \in {"upload", "delete", "edit"}
                           /\ (Reloading # {} \/ FreeSlots # Slots)))

\* setPage(1) and reload come last; reload asks with the query of the render it started in.
ReloadSent(w) ==
    /\ FreeSlots # {}
    /\ calls' = [calls EXCEPT ![FreeSlot(0)] = Sent("reload", work[w].query, w)]
    /\ work' = [work EXCEPT ![w].pc = "reload"]
    /\ screen' = [screen EXCEPT !.loading = TRUE]
    /\ UNCHANGED doubt

UploadStarted(w, f) ==
    /\ Granted("files.upload") /\ ~screen.uploading /\ f \in Files \ active
    /\ \A v \in Works : work[v].target # f
    /\ Starts(w, "upload", f)
    /\ screen' = [screen EXCEPT !.uploading = TRUE]
    /\ Spend("change")
    /\ UNCHANGED <<calls, archiveVars>>

DeletionStarted(w, f) ==
    /\ Granted("files.delete")
    /\ Starts(w, "delete", f)
    /\ Spend("change")
    /\ UNCHANGED <<screen, calls, archiveVars>>

FileDeletedFromList(w) ==
    \E i \in DOMAIN screen.result.items : DeletionStarted(w, screen.result.items[i])

\* The archive takes the file in, or takes it away if it is still there.
WorkServed(w) ==
    LET job == work[w]
    IN  /\ job.pc = "sent"
        /\ \/ job.op = "upload" /\ active' = active \cup {job.target}
           \/ job.op = "delete" /\ job.target \in active /\ active' = active \ {job.target}
        /\ work' = [work EXCEPT ![w].pc = "done"]
        /\ UNCHANGED <<collections, searched, screen, calls, doubt>>

\* Refused, or failed on the way: a message, and the list is not read again.
WorkRefused(w) ==
    /\ work[w].pc = "sent" /\ work[w].op \in {"upload", "delete"}
    /\ work' = [work EXCEPT ![w] = NoWork]
    /\ screen' = [screen EXCEPT !.uploading = @ /\ work[w].op # "upload"]
    /\ UNCHANGED <<archiveVars, calls, doubt>>

\* After an upload the list goes to page 1, or is read again if the upload started there.
UploadShown(w) ==
    /\ work[w].op = "upload" /\ work[w].pc = "done"
    /\ IF work[w].query.page = 1 THEN ReloadSent(w)
       ELSE /\ work' = [work EXCEPT ![w] = NoWork]
            /\ Renders([screen EXCEPT !.uploading = FALSE, !.page = 1], Reloading \ {w})

DeletionShown(w) == work[w].op = "delete" /\ work[w].pc = "done" /\ ReloadSent(w)

\* onSaveCollection, offered while something is searched for: create, then the list of names.
SearchSaved(w, c) ==
    /\ Filtering /\ Starts(w, "saveSearch", c)
    /\ CollectionCreated(c, user.id, Query)
    /\ Spend("collection") /\ UNCHANGED <<screen, calls>>

\* onDeleteCollection: the archive refuses to all but the creator and the owners.
SearchDropped(w) ==
    LET c == screen.chosen
    IN  /\ c # None /\ Spend("collection") /\ UNCHANGED calls
        /\ IF collections[c].live /\ CanManage(user, c)
           THEN CollectionRemoved(c) /\ Starts(w, "dropSearch", c) /\ screen' = [screen EXCEPT !.chosen = None]
           ELSE screen.ready /\ UNCHANGED <<archiveVars, screen, work, doubt>>

NamesListed(w) ==
    /\ work[w].op \in {"saveSearch", "dropSearch"}
    /\ screen' = [screen EXCEPT !.known = LiveCollections,
                                !.chosen = IF work[w].op = "saveSearch" THEN work[w].target ELSE @]
    /\ work' = [work EXCEPT ![w] = NoWork]
    /\ UNCHANGED <<calls, doubt>>

-----------------------------------------------------------------------------
(* The details pane *)

Ask(what, f) == [what |-> what, file |-> f, found |-> f \in active, no |-> left["pane"]]

\* Faulty: what the pane shows of the last file stays until the new answer.
DetailsOpenedOver(f) ==
    /\ pane' = [pane EXCEPT !.file = f, !.state = CASE Kind[f] = "image" -> "loading"
                                                    [] Kind[f] = "heavy" -> "toobig"
                                                    [] OTHER             -> "unsupported"]
    /\ asked' = asked \cup {Ask("details", f)} \cup (IF Kind[f] = "image" THEN {Ask("preview", f)} ELSE {})
    /\ mixed' = (\E a \in asked : a.file # f)

\* openDetails: everything of the last file is cleared; a preview is fetched if there is one.
DetailsOpened(f) ==
    /\ pane' = [file |-> f, details |-> None, preview |-> None,
                state |-> CASE Kind[f] = "image" -> "loading"
                            [] Kind[f] = "heavy" -> "toobig"
                            [] OTHER             -> "unsupported"]
    /\ asked' = asked \cup {Ask("details", f)} \cup (IF Kind[f] = "image" THEN {Ask("preview", f)} ELSE {})
    /\ mixed' = (\E a \in asked : a.file # f)

PaneOpened(i) ==
    /\ i \in DOMAIN screen.result.items /\ pane.file = None
    /\ DetailsOpened(screen.result.items[i])
    /\ Spend("pane") /\ UNCHANGED screenVars

\* The button of a heavy file.
PreviewAskedFor ==
    /\ pane.file # None /\ pane.state = "toobig"
    /\ pane' = [pane EXCEPT !.state = "loading"]
    /\ asked' = asked \cup {Ask("preview", pane.file)}
    /\ Spend("pane") /\ UNCHANGED <<mixed, screenVars>>

\* The answers are applied to whatever the pane shows by then; a deleted file has none.
PaneAnswered(a, ok) ==
    /\ a \in asked
    /\ ok => a.found
    /\ asked' = asked \ {a}
    /\ pane' = CASE a.what = "details" /\ ok  -> [pane EXCEPT !.details = a.file]
                 [] a.what = "preview" /\ ok  -> [pane EXCEPT !.preview = a.file, !.state = "ready"]
                 [] a.what = "preview" /\ ~ok -> [pane EXCEPT !.state = "error"]
                 [] OTHER -> pane
    /\ UNCHANGED <<mixed, screenVars, left>>

PaneClosed ==
    /\ pane.file # None
    /\ pane' = Closed
    /\ UNCHANGED <<asked, mixed, screenVars, left, archiveVars>>

\* The pane's deletion closes the pane, whether it was confirmed or not.
FileDeletedFromPane(w) ==
    /\ pane.file # None /\ DeletionStarted(w, pane.file)
    /\ pane' = Closed /\ UNCHANGED <<asked, mixed>>

-----------------------------------------------------------------------------

\* landing: the criteria in the URL of a link that led to the page.
PageInit(u, rows, kept, landing, budget) ==
    /\ user = u /\ left = budget
    /\ ArchiveInit(rows, kept)
    /\ screen = [ready |-> FALSE, where |-> landing, settled |-> {}, sort |-> "createdAt", order |-> "desc",
                  page |-> 1, result |-> Empty, loading |-> FALSE, uploading |-> FALSE,
                  known |-> LiveCollections, chosen |-> None]
    /\ calls = [s \in Slots |-> NoCall]
    /\ work = [w \in Works |-> NoWork]
    /\ pane = Closed /\ asked = {}
    /\ doubt = FALSE /\ mixed = FALSE

\* The pane covers the page, so the list is used while it is closed.
ControlUsed ==
    \/ \E c \in Criteria : CriterionToggled(c)
    \/ \E c \in Criteria \cap QuickViews : QuickView(c)
    \/ FiltersCleared \/ QuickView("new")
    \/ \E field \in {"createdAt", "name"} : SortedBy(field)
    \/ \E forward \in BOOLEAN : PageTurned(forward)
    \/ \E c \in Collections : CollectionOpened(c)

WorkStarted(w) ==
    \/ \E f \in Files : UploadStarted(w, f)
    \/ FileDeletedFromList(w)
    \/ \E c \in Collections : SearchSaved(w, c)
    \/ SearchDropped(w)

\* What the user does.
PageUsed ==
    \/ pane.file = None /\ ControlUsed /\ UNCHANGED <<user, archiveVars, paneVars>>
    \/ pane.file = None /\ (\E w \in Works : WorkStarted(w)) /\ UNCHANGED <<user, paneVars>>
    \/ (\E i \in 1..PageSize : PaneOpened(i)) /\ UNCHANGED <<user, archiveVars>>
    \/ PreviewAskedFor /\ UNCHANGED <<user, archiveVars>>
    \/ PaneClosed /\ UNCHANGED user
    \/ (\E w \in Works : FileDeletedFromPane(w)) /\ UNCHANGED user

\* What comes back.
RequestStep ==
    \E s \in Slots : ListServed(s) \/ \E ok \in BOOLEAN : ListAnswered(s, ok)

WorkStep ==
    \E w \in Works : UploadShown(w) \/ DeletionShown(w) \/ NamesListed(w)

PageAnswered ==
    \/ (Mounts \/ TypingSettles) /\ UNCHANGED <<user, archiveVars, paneVars>>
    \/ (RequestStep \/ WorkStep) /\ UNCHANGED <<user, archiveVars, paneVars, left>>
    \/ (\E w \in Works : WorkServed(w) \/ WorkRefused(w)) /\ UNCHANGED <<user, paneVars, left>>
    \/ (\E a \in asked, ok \in BOOLEAN : PaneAnswered(a, ok)) /\ UNCHANGED <<user, archiveVars>>

-----------------------------------------------------------------------------

Quiet == /\ \A s \in Slots : calls[s] = NoCall
         /\ Reloading = {}
         /\ screen.settled = screen.where \cap Typed

\* When nothing is under way the list is what the archive answers to the filters, the order and
\* the page the controls show, whatever order the answers came in: the effect cuts off the calls
\* it has replaced.  reload is not cut off; the list is in doubt after it ran beside a change.
ListIsCurrent ==
    screen.ready /\ Quiet /\ ~doubt => screen.result = ListFiles(Query) /\ ~screen.loading

\* The details and the preview shown are those of the file the pane names, although an answer
\* is applied to whatever the pane shows by then; only openings that overlap mix them up.
DetailsAreOfTheFile ==
    pane.file # None /\ ~mixed => {pane.details, pane.preview} \subseteq {None, pane.file}
=============================================================================
