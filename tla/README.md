# Formal models of the archive system

This directory holds TLA+ models of the archive system in `src/` (a NestJS server over PostgreSQL
and a content-addressed file store, a Next.js web client, and a desktop reader), the TLC
configurations that check them on small instances, and proofs that TLAPS checks.
Paths below are relative to `src/קוד/backend/src/` unless they say otherwise.

## 1. The system

### 1.1 Components, their state and their operations

| component | state | operations that change it |
|---|---|---|
| Protected viewing (`viewing/`) | `ViewSession` rows; signed tokens of two minutes; a cache of produced renditions with a map of productions in flight | `createSession`, `refreshToken`, `authorizeRendition`, `render*` |
| View restrictions (`restrictions/`) | `ViewRestriction` rows: user, device, expiry, quota, `viewsUsed` | `create`, `update`, `revoke` |
| Devices (`devices/`) | `Device` rows: approved, revoked | `approve`, `revoke`; `resolveReaderDevice` of `auth/` registers them |
| Share links (`share/`) | `ShareLink` and `ShareSession` rows | `create`, `approveSession`, `revoke`; `start`, `requestOtp`, `verify`, `status`; `refreshToken`, `authorizeRendition` |
| Render queue (`render/`) | `RenderJob` rows; in memory: the timer and the counter `running` | `enqueue`, `cancel`, `tick`, `process`, recovery in `onModuleInit` |
| Media editing (`media/`, the image editor) | `MediaEdit` and `MediaEditVersion` rows; in the browser: controls, preview, listed and compared versions | `saveVersion`, `duplicateVersion`; previews and downloads change nothing |
| Disk import (`import/`, the import page) | `ImportJob` and `ImportItem` rows; the loop in the browser | `createScan`, `hashBatch`, `importBatch` |
| Files (`files/`) | `File` and `FileTag` rows; the blobs `files/<xx>/<hash>` | `ingest`, `importFile`, `createDerived`, `softDelete`, `restore`, `mergeDuplicates`; `list` only reads |
| Folders (`folders/`) | `Folder` rows: a tree with a trash | `create`, `update` (rename, move), `softDelete`, `restore` |
| Tags (`tags/`) | `Tag` rows: a tree with sensitivities | `create`, `update`, `remove` |
| Scope (`scope/`) | none: a filter over folders, tags, files, types and sensitivities | `matches` for one file, `fileWhereForScopes` for lists |
| Access rules (`access/`) | `AccessRule` rows, `User.scopedView` | `create`, `revoke`, `setScopedView`; `assertCanView`, `visibilityWhere` |
| Authentication (`auth/`) | `User` rows: password, one-time code, attempts; `Device` rows of Readers | `register`, `login`, `verifyLoginOtp`, the two-factor calls, `changePassword` |
| Users and roles (`users/`, `roles/`) | `User.roleId`, `Role` rows | `changeRole`, the seeding of roles |
| Permissions (`auth/permissions*`) | none: a table and a guard | - |
| Watermarks (`watermark/`) | `WatermarkTemplate` rows: enabled, deleted, scope | `create`, `update`, `setEnabled`, `remove`, `saveLogo`; a rendition asks `applicableFor` |
| Smart collections (`collections/`) | `SmartCollection` rows: the conditions of a search | `create`, `remove`, `update` |
| Mail, statistics, audit, view log, logs | rows that are appended, or none | one statement each |
| Web client | per page: controls, the answer shown, requests under way | the files page, the image editor, the import page, the waiting page of a share link; the other pages send one request and show its answer |
| Reader | a window over the HTTP interface | - |

### 1.2 How they interact

The server is one Node process. A handler is a chain of awaited statements: nothing else runs
between two awaits, anything may run at one. No handler uses a transaction for what it decides by;
a decision that must be atomic is a guarded update (`updateMany` with the condition in `where`).
Services call each other in process (`ShareService` uses the renditions of `ViewingService`,
`RenderService` runs `MediaService.saveVersion`, which stores its outcome through `FilesService`),
and share tables: moving a file to the trash, changing its tags or an access rule bears on every open
viewing session. `docker-compose.yml` restarts the server when it dies (`restart: unless-stopped`);
the tables and the blobs survive, the timer, the counter and every handler do not.

### 1.3 What is hard

* **Check, then act over awaits.** Rights are checked in several awaits, and what was checked may be
  taken back before the session is created or the rendition served.
* **Quotas.** Racing openings, an administrator changing the quota in between, a failure
  between the charge and the session.
* **Overlapping ticks** of a timer that does not wait for the previous call, and a counter that has
  to come down however a run ends.
* **Crashes** between two statements, in a batch, in a copy into the store.
* **Protocols over many calls**: scan, hash and import in batches driven by a browser tab that may be
  closed; a guest's way through code, approval and opening.
* **Concurrent edits of trees** (folders, tags) and of the set of owners.
* **One production shared by several calls**: the name of a rendition is looked for on disk and, after
  an await, in a map; a production may end, fail or die in between, and those who wait must hear of it.
* **Answers in any order**: a page asks again while an earlier request is under way, and an effect that was
  replaced may or may not have been cut off.

`PROJECT.json` lists every hazard with its line and the properties that watch it.

### 1.4 What makes each component correct

* Viewing: a session or a rendition is given only if nothing forbade it throughout the call; taking a
  right away reaches open sessions; every opening is charged exactly once and quotas hold.
* Share links: the same for a guest, his code, the approval, the device lock and the link's quota.
* Renditions: made once at a time; what is served is whole, bears the viewer's own mark and the templates that
  cover the file, and no view waits for ever.
* Render queue: one run per job, oldest first, outcomes final, the counter true, every job ends.
* Edit versions: numbered without gaps, and a job reports its own version.
* Import: one copy per content however often the disk is imported, a true map from items to files, no
  file of the scan forgotten, counters that agree with the items.
* Folders and tags: forests without cycles, no active folder below a deleted one, names of siblings apart; a
  merge of duplicates loses neither a tag nor the last copy.
* Accounts: always an owner, at most five guesses for a code, and nothing that was forbidden all along takes effect.
* Screens: once the answers are in, what is shown is what the archive answers to the controls; a saved search
  opens as the same search; a copied edit has the recipe of the original.
* Scope and access rules: the list filter and the single-file match select the same files; a verdict follows from what stood throughout the call.

## 2. Modules

```
ViewQuota            abstract: counted views within an allowance
  ^ implemented by
  |-- ProtectedViewing      openings and renditions under restrictions, devices, access rules
  |     '-- ProtectedViewing_proofs
  '-- ShareLinks            a guest's way through an external link
        '-- ShareLinks_proofs
Renditions           the cache of renditions, productions in flight, watermark templates
  '-- Renditions_proofs
EditVersions         saveVersion, statement by statement
  ^ extended by
  '-- RenderQueue           the queue that calls it, crashes and restarts
DiskImport           jobs, items, the store, the page's loop of batches
  '-- DiskImport_proofs
Scope                one file against a scope, and the same as a query
  ^ extended by
  '-- AccessRules           rules over scopes, assertCanView and the lists
        '-- AccessRules_proofs
TreeClimb            a table of rows that name their parent, the climb, the listing
  ^ extended by
  |-- FolderTree            FoldersService
  '-- TagTree               TagsService
        ^ both extended by
        '-- ArchiveTrees    the files in them; merging duplicates
              '-- ArchiveTrees_proofs
Accounts             registration, login, codes, Readers, roles
  '-- Accounts_proofs
FileSearch           GET /files and the collections
  ^ extended by
  '-- FilesScreen           the files page
EditRecipes          the recipe of an edit, in the browser and on the server
  ^ both extended by
  '-- ImageEditor           the editor over the page, and the versions
        '-- FilesPage       both on one archive
Editing_proofs       about RenderQueue and FilesPage
MC<Module>           instances, bounds and symmetry sets for TLC
```

**Conventions.** A handler is a record with a field `pc` that names the statement that runs next;
every await of the code that reads or writes a table is a step of its own, and what a handler read
stays in its record. A call that is over leaves its slot to the next one. A refusal is a step to the end. Time is
a nondeterministic step that makes an expiry pass; ages are not counted. Names, texts and
pictures are model values or left out. Operators marked *Faulty* are variants of the one after them with
a plausible mistake; no specification uses them, they are there to see that the properties notice.

**Assumption on statements.** A statement is applied and answered, or it fails and has no effect. Failed
statements are modelled where the code reacts to them: a failed insert of a session, a failed
report of a job, every step of `saveVersion`, an unreadable or failing copy.

### ViewQuota
The promise of a quota that administrators may change at any time: an opening is charged to an allowance at most
once, and only while the count is below some quota the allowance has carried. It is not tied to today's
quota because the code decides by the row it has read.

### ProtectedViewing
One archived file and everything that decides who views it. `view` holds the calls of `createSession` and
the sessions they create (`viewing.service.ts` 84-122), `req` the rendition and refresh requests
(125-164), `restr` the restrictions, `policy` what other services decide (trash, sensitivity, the
verdict of the access rules, approved devices). `RequestRechecks` reads as the code does: renditions and
refreshes ask the restriction of the session, not the restrictions of the file, and a refresh asks neither for the access
rules nor for the file. `BarsAsked` says so where the property is stated: a refresh over a revoked rule or a trashed file is answered
with a token, with which no page can be had.
`viewBars` and `reqBars` are history: the reasons to refuse that have stood *ever since the call
arrived*. A call that ends well with such a bar is wrong whatever the order of its checks; a bar that
comes up while the call is under way may be missed, and the properties allow that.

### ShareLinks
One link with its sessions. `open` holds the calls of `start`, `requestOtp`, `verify` and `status`,
`req` renditions and refreshes. `Offers` bounds the kinds of links. Answered and refused
calls are forgotten, opened ones are kept for the count. The token never expires in the model, which allows more than the
code does. A session that is revoked and one that is past its time are one state, since every check
asks for both. The block list of addresses and the country check are taken as passed. A refresh does not ask for the
file (`authorizeOpen`), so the trash stops the renditions only (`BarsAsked`).

### EditVersions and RenderQueue
`EditVersions` is `saveVersion` on one image; it has no specification of its own. `RenderQueue` extends it: every worker saves
through a slot of its own (`Workers \subseteq Saves`), the remaining slots are editors saving without the queue.
`Ticks` is the number of calls of `tick` that may overlap, `Workers` that of `process`. `Crash` empties
memory, `Recover` is `onModuleInit`, `StartWithoutRecovery` its swallowed failure. `Bounds` is a set of records; a behaviour picks one
in its initial state: the jobs, ticks and slots that take part, and the number of crashes and failed statements.

### Renditions
One file, the sessions that view it and the calls `viewImage`, `viewVideo` and `viewAudio` (`viewing.service.ts` 176-206,
245-345 and on). `cache` is the directory by name: the base rendition, and a marked copy per session for a video. `inflight` is
the map in memory. `CachedLooks` is the look on disk, `CachedJoinsOrStarts` the question who is making it, `Produce` the
tool, `Rename` the move to the final name, `Settle` the `finally` of the production together with the answer to everybody who
waits: those who wait are awaiting one promise, and nothing runs before they have been given its outcome. Only whether a
tool succeeds is modelled, and which marks its picture bears. An administrator's call reads a template and
then writes it by its id; the file moves between folders. `lasting` and `gone` are history: the templates that have covered
the file ever since a session was opened, and those deleted before. `ServedAsRuled` judges by them, so that a template that changes while a
session is open may show or not.

### TreeClimb, FolderTree, TagTree and ArchiveTrees
A tree is a table of rows that name their parent. `Climb` is one query of the loop in `isAncestor`; the tree may change between
two of them. `Listed` is what `listTree` shows: a row on a cycle, or below one, is in nobody's tree, which is how
the properties state that there is none. `FolderTree` and `TagTree` have the calls of the two services await by await;
`ArchiveTrees` adds `ingest`, `softDelete`, `restore` and `mergeDuplicates` of `FilesService`, and runs
them all. The unique index on siblings' names, the foreign key from `FileTag` and the `SET NULL` of a removed parent are part of the
statements that meet them, as the schema declares them; NULL parents are not equal to the index, so at the root two siblings may race.
`movesRaced`, `trashRaced`, `tagsRaced` and `mergesRaced` are history: two calls whose checks rely on each other's rows have
overlapped. The code has nothing to keep such calls apart, and what it promises of the forest is claimed
only while none have; `MergesLoseNothing`, the dangling references in `PathsAgree`, and every call that overlaps calls of another kind are claimed outright.

### Accounts
The rows of `User` and one Reader's `Device` row per user; `call` holds `register`, `login`, `verifyLoginOtp`, the
two-factor calls, `changePassword` and `changeRole` behind `PermissionsGuard`. A call that has loaded a row goes on with it. A password is a number;
the code of a login or of a two-factor request is a number, 0 for none, and a guess is right or not.
`bars` is history, as in `ProtectedViewing`: what has forbidden the call ever since it arrived. `otp` counts, per code issued, the
uses and the wrong guesses, and notes whether two calls on the account have crossed; `crossed` does so for registrations and demotions.

### FileSearch and FilesScreen
A search is a set of criteria; `Meets` says which files satisfy which, so that one criterion stands for any value of its control.
`ListFiles` is the query of `FilesService.list` with order and page, `FilterKeys` what a collection keeps. `FilesScreen` is the
files page: `screen` is React state, a request is sent, served and answered in three steps, and answers come in any order.
An effect that is run again cuts off the call of its predecessor (`alive`), `reload` after a change does not. `doubt` and
`mixed` are history: a `reload` has raced with another request for the list or a request has failed, and two openings of the
details pane have overlapped; the code has no protection from either, and the properties say so.

### EditRecipes, ImageEditor and FilesPage
`RecipeOf` is what the editor's controls make, `Kept` is `sanitizeRecipe`, `Picture` the order of `applyRecipe`, `ForSharing` what a
version to be shared gets in addition. `ImageEditor` has the editor's effects with their counters, previews that come back in any order, listings,
comparisons, saving, the queue and duplicates. A save is one step here, as its own steps are in `EditVersions`. `behind` is history:
listings overlapped, one failed or the queue saved. `FilesPage` lets the editor cover the page while what the page waits for goes on.
An operation is a kind and a value out of `Values`, where `tiny` stands for numbers the service drops the operation for. `Picked` filters a
sequence and `Burnt` adds overlay by overlay, both as recursive functions over a prefix, so that they can be proved about.
`ScenarioAssumption` says what versions there may be at the start: numbered from one, kept as `sanitizeRecipe` keeps them, copies of one another.

### DiskImport
`page` is a browser tab and the handler it calls in one, since a tab waits for its answer; a closed tab
lets its handler finish. `blob` tells a content's file apart as none, torn or whole; `files` are the rows in order
of creation. The list of jobs a page shows may be older than the jobs, which is how an interrupted import is
taken up again. The guard that bounds the page's loop (batches needed and ten more) is left out: a loop that ends early is a tab that is closed.

### Scope and AccessRules
`Scope` holds `scope.service.ts` as operators: `Matches` climbs from the file, `Selects` expands the scope downwards. Trees are functions
from a node to its parent and may hold a cycle, as the loops of the code expect. `AccessRules` adds the rows, `assertCanView`
await by await and the statements that change what it reads; `ProtectedViewing` takes its verdict as given (`viewers`).
`stood` is history: the facts about the caller and the rules that have held *ever since the call arrived*. `AllowedOnlyForAReason` and
`RefusedOnlyForAReason` judge a verdict by those facts alone, so that what changes during a call may count or not. `Listed` is `visibilityWhere` for
the file of the archive. `Cases` bounds the archives and rules: the scopes in `Access` have no file ids in grants, since with them the lists and
the checks disagree, which is what `FileGrants` shows.

## 3. Runs

All configurations set `CHECK_DEADLOCK FALSE`: nobody has to call, and the bounds on changes, crashes and slots run out.

| run | instance | shows |
|---|---|---|
| `Viewing` | 2 openings of one user racing for 2 restrictions with quotas up to 2; or 1 opening and its request; 2 users, 1 device, 3 changes | every view is charged once, quotas hold, every check is made, revocations take effect at the next rendition and, as far as a refresh asks, at the next refresh, implementation of `ViewQuota` |
| `Queue` | 2 jobs, 2 overlapping ticks, 2 workers, 1 crash or 1 fault; 2 jobs, 2 crashes, 1 fault; 1 job, 1 editor, 1 crash | one run per job, order, finality, the counter, versions; every job is taken and ends |
| `Links` | 2 openings racing on 3 kinds of link; 1 opening and its request, from 2 browsers, on a link with code, approval and device lock; 1 restart | views counted once, quotas, the whole way in, renditions and refreshes after revocation, the device lock against another browser |
| `Import` | 2 equal files, 2 jobs, 1 tab, 1 upload, 1 crash, 1 trash move, batches of one | one copy, a true map, nothing forgotten, true counters |
| `Access` | 2 users, 1 device, 2 rules; 18 archives with 48 scopes under 1 change, 1 archive with every condition under 3 | verdicts follow from what stood, lists and checks agree |
| `Renditions` | 2 views in 2 sessions with 1 change or 1 crash; 1 view under 2 racing administrators; image, video and audio, users and guests | one production per rendition, the right marks, every view ends |
| `Trees` | every forest of 3 folders under 4 calls; 2 tags under 3 calls; 3 copies of one content with tags under 3 calls; one call of each kind together; 2 calls at once | forests, names, paths, merges that lose nothing |
| `Accounts` | 2 calls at once, up to 5 in all, for each kind of call: changes of role, registrations, codes, Readers; logins, changes of password and the calls on the second factor with right and wrong passwords; 2 guesses a code | nothing forbidden passes, an owner remains, codes are one-time |
| `Screens` | up to 5 files, pages of 2, up to 3 actions of the user, 4 requests for the list at once; 4 strokes in the editor | list, details, previews and versions are current; a copy keeps its recipe |
| `FileGrants` | 2 grants, one of a file by its id | *violated*: the lists leave the file out |
| `TornBlob` | 2 files, 1 crash | *violated*: a row over a torn copy |
| `SavedSearch` | as `Screens` | *violated*: a saved search loses a condition |

**Why the bounds are enough.** A race needs two actors: two openings, ticks, saves, visitors, moves, views. A check made too
early needs one call and the changes around it: three changes create a restriction, open under it
and take it back, or take two rights in one call. One crash puts a job back, two put it back twice;
one fault is enough to lose the one report a run makes. Two equal files make a disk with a duplicate, two jobs an import repeated.
A folder three levels deep tells one level of expansion from all of them, a cycle the loops that must notice it; three folders
in every shape let a climb pass a folder that moves. Four calls on them, two at once, leave two to meet what the first two made.
Two users, two restrictions and quotas up to two tell apart the restriction of somebody else, the choice
between two usable ones, and a quota that is lowered, raised or removed. Two sessions tell one viewer's copy of a video from
another's, one template whether marks are there at all. Two owners and an administrator are the least among whom owners can be lost.
Five files on pages of two make a last page that deletions empty; two requests for one thing are out of order, the third
belongs to what the user did meanwhile.

**Bounds that only limit exploration.** `MaxChanges`, `MaxCrashes`, `MaxRestarts` and `MaxQuota` are guards of the modules. `Offers`, `Cases`,
`Instances`, `Bounds` and `Scenarios` are sets from which the initial state, or an administrator, picks: each describes one kind of behaviour in small,
since all kinds at once are out of reach. `Viewing` and `Links` have the state constraint `Explored`, a union of two such kinds;
it cuts behaviours at the states where they leave both, and both contain everything their properties are about.

**Symmetry** is used for interchangeable users, devices, slots and rows in the runs without liveness.
`Null` among the devices is not permuted.

**Fairness** is assumed where liveness is checked. `FairSpec` of `RenderQueue`: weak fairness of each tick (`setInterval` calls it again
whatever became of the last call), of each worker (every await is answered or fails), and of the
restart (`restart: unless-stopped`). Nobody is forced to enqueue, cancel or save. `EveryJobEnds` allows
one exception, a failed statement: when the report of an outcome fails, the job stays in `processing` until the next
restart, and no restart has to come. `EveryJobIsTaken` has no exception. `FairSpec` of `Renditions`: weak fairness of the
steps of each view, because every image and video tool runs under a timeout that kills it and every other await is answered;
a tool's failure is an outcome like its success. Opening, forgetting, changes and crashes are never forced.

### What the violated runs say

* *Grants of files.* `scopeWhere` counts `fileIds` as a target and adds no condition for them. A grant for files alone is the
  empty `OR`, which selects nothing: its holder may open the file and never finds it in a list. With folders or tags beside
  the files, the lists hold those of the folders and tags only.
* *A torn copy.* `importFile` copies under the final name. `ingest` moves a finished file there, and does not
  have the problem; it does inherit a torn copy, as it only asks whether the name exists.
* *A saved search.* The conditions a collection keeps are a list of their own (`FILTER_KEYS`), which lacks `untagged`. The page sends it with
  a search and reads it back from a collection, so a saved search for files without tags opens as one for all files.

### What is excluded on purpose

These properties hold because they leave out what the code has no protection from. Each is a real behaviour of the code:

* two saves of one image that overlap number their versions alike (`NumbersWithoutGap` says only that no number is skipped);
* two folder moves that overlap may close a cycle, a folder trashed beside a call that puts something into it may leave it there
  (`FoldersKept`), and calls on tags that overlap may do the same and leave two siblings of one name at the root (`TagsKept`);
* two merges with opposite choices may leave no active copy (`MergesLoseNothing`);
* two registrations in an empty archive make two owners, two owners who demote each other leave none (`OwnersRemain`);
* calls on one account that cross may use a code twice or guess more often (`CodesAreOneTime`);
* a token is refreshed over a revoked access rule or a trashed file, by a user or, with the file, by a guest: `RevocationTakesEffect` and
  `ServedOnlyWhenAllowed` ask of a refresh what it checks, and everything of the rendition that comes with its token;
* a `reload` of the list, and a details pane opened twice, show whatever answer comes last (`ListIsCurrent`, `DetailsAreOfTheFile`);
* with a crash the counters of an interrupted batch stay too low (`CountersAgree`).

## 4. Proofs

`ProtectedViewing_proofs` proves, for all values of the constants under `ViewingAssumption` (finitely many openings, natural
bounds, `Null` a value of its own):

* `TypeCorrect`: `Spec => []TypeOK`.
* `CountingCorrect`: the inductive invariant `CountInv`, made of four parts. `ChargedExactlyOnce` says
  that `viewsUsed` is the number of openings past their claim, `QuotaNeverOverrun` that it is within a quota the
  restriction has carried. Neither is inductive alone. A claim is guarded by the quota *the opening has
  read*, so `ClaimOnRecord` says that an opening about to claim holds a restriction that exists
  and a quota recorded in the history `quotas`; and `RowOnRecord` says that the quota in the row is recorded too, which is where the
  claim's reading comes from. The step that matters is `ViewClaims`: the set of charged openings grows by exactly one
  element, and by the guard of the update the new count is within the quota that was read.
* `EveryViewChargedOnce`, `QuotaSafe`: the two properties that `Viewing` checks, from `CountInv`.
* `ImplementsViewQuota`: under the refinement mapping `charged[r] = ChargedTo(r)`, `ViewClaims` is `Charge`, the actions that
  write a quota are `SetQuota`, and everything else stutters.
* `SessionsAreAllowed`, `RevocationsTakeEffect`: the two properties about what forbids a view, from `BarsInv`. A bar that stands
  (`viewBars`, `reqBars`) is there now, by the way `Watch` keeps it; so a check that passes finds its bar absent and clears it, and a bar
  once cleared cannot stand again before the call is over. `ClearedForView` and `ClearedForRequest` list, for each statement, the
  bars its predecessors have cleared. At `create` and `served` the list is complete, on both ways through the
  sensitivity check; for a refresh it is the shorter list of `BarsAsked`.

`ShareLinks_proofs` proves, under `ShareAssumption` (finitely many openings, natural bounds, `Null` a value of its own), for any
number of browsers, sessions, openings, requests and crashes, and every kind of link:

* `CountedOnce`: `Spec => []ViewsCountedOnce`, from `WayInv`, which says what a call has read and shown when it reaches a
  statement (`OpenSound`, `RequestSound`) and that a session belongs to a link and is verified only by a code (`SessionKnown`). Only the
  step of the claim adds an opening to those that are counted, and only that step writes `viewsUsed` (`OpenStepCounts`).
* `ImplementsViewQuota`: `Spec => QuotaSpec`, the same abstract allowance as that of the restrictions, reached by four ways in.
* `VisitorsAreAllowed`, `VisitorsAreServedAllowed`: `LetInOnlyWhenAllowed` and `ServedOnlyWhenAllowed`, from `BarsInv`, which lists the
  bars each statement has cleared, as for the restrictions. The device is the hard one: it is judged by the row read *first*
  and not again. The argument is that a bar stands only if it stood when the call arrived, hence when the row was read
  (`BarsShrink`), and that a link keeps its conditions while sessions and approvals only grow (`Grows`).

`DiskImport_proofs` proves, under `ImportAssumption`, for any disk, contents and batch size, and any number of jobs, uploads, crashes
and trash moves:

* `MapIsTrue`: `Spec => []MappedToOwnContent`, with any number of tabs. `MapInv` adds to the types that a call has in hand a row of its item's own
  content (`RowSound`), from the lookup or the creation to the mark; nothing that happens in between changes a row's hash.
* `OneCopy`: `OneImportedCopy` while one tab imports (`Pages = {p}`). `Copies` carries the lookup over the statements that store the content:
  until the row is created, every import row of that content has been in the trash, since a row without its active flag has been
  there and only an import adds import rows.
* `NothingForgotten`: `Spec => []CompletedDealtWithAll`, with any number of tabs. `Dealt` says what a statement knows of its job's status and what a
  status says of the items: none is pending once the job is scanned, none new once it is completed. Only a job that is being
  scanned gets such items, and one tab scans it (`ScansApart`), so no other can add to a job that it is about to complete.

* `CountersTrue`: `CountersAgree`, with one tab and until a crash. The property speaks of jobs at rest, and a batch writes its items one by
  one and the counters at its end, so the invariant has to say what is owed in between. `BatchSound`: the tallies of a batch
  are those of the outcomes it has written, and the items it has still to judge are as it read them. `Balanced`: a job's counters and what the batch
  owes it (`Due`) make up the numbers of its items. A statement on an item moves one element from one set of items
  to another (the lemmas on `Count`), and the tally or the item read moves with it; `CountInv` holds these until a crash, as
  a batch that is cut keeps its items and loses its tallies.

Two tabs that import the same content find no row, both, and create one each: `OneImportedCopy` does not hold for them, the
hazard is listed, and `OneCopy` says one tab.

`Renditions_proofs` proves, under `RenditionAssumption` (the names and values are told apart), for any number of views, sessions,
templates and crashes:

* `ProducedOnce`: `Spec => []OneProduction`, from `ProductionInv`, which adds to the types what the property alone does not carry over a step.
  `NamesHeld`: whoever produces is named in the map, and whoever waits waits for a call that the map names for the
  same rendition. The look on disk and the look into the map are two steps, so uniqueness cannot come from the first; it comes from
  the second, a step that asks and enters at once. `CallsSound`: a call that goes on with a file goes on with one that is there, which is what a view
  that shares a production needs when the production ends.
* `AlwaysServedAsRuled`: `Spec => []ServedAsRuled`, from `RulesInv`. `HistoryTrue`: what has covered the file ever since a session opened is
  enabled and covers it now, and what was deleted before stays so. `CacheRuled`: a copy under a session's name is that session's own and
  bears what it must. `CallsRuled`: the marks a call has read, and what it has made of them, do the same. The three need each other: a
  template read *after* the history began covers everything that has lasted until the reading, hence until the end, as
  the history only shrinks.

`Editing_proofs` proves about `RenderQueue`, under `QueueAssumption` (finitely many workers, workers are slots for saving), for any
number of jobs, overlapping ticks, editors, crashes and failed statements, the seven safety and action properties of `Queue`:

* `EachJobRunsOnce`, `CounterAgrees`: from `RunsInv`, the types together with `StatusHeld` (what a tick that has claimed
  and a process know of their job's status), `JobsApart` (they have jobs of their own), `DownIsEmpty` (a crash leaves nobody) and the
  counter. The step that matters is the claim: its guard sees the job pending, so by `StatusHeld` nobody has it.
* `OldestIsTakenFirst`, `OutcomesAreFinal`: from `StatusMoves`, the list of all moves between statuses, and `OrderInv`, which says that a
  job older than one some tick is about to claim is no longer pending. It survives because jobs are put back only by a restart, when no tick is under way.
* `NumbersHaveNoGap`: from `EditInv`. The numbers given are `1..n` for some `n`, and a number that a save has chosen but not written is 1 or
  follows one that is given. That is all that is left of "the next number" once others may write in between, and it is enough.
* `OneVersionAtMost`: from `MadeInv`, which counts the version a process is about to write together with those there are, and `Unwritten` for
  jobs whose process has written nothing yet.
* `DoneNamesItsVersion`: from `OutcomeInv`; the file a process reports is that of a version that was saved for its job, and versions are
  only appended.

It proves about `FilesPage`, under `SearchAssumption`, `ScreenAssumption`, `RecipeAssumption` (a recipe that is looked at whole has room for its
overlays: the code has 50 and 60), `EditorAssumption` and `ScenarioAssumption`, for any archive, any users and any number of requests, works, strokes, previews,
listings, versions and queued edits, the four invariants of `Screens`. All follow from `ScreensHold`, `ScreensSpec => []ScreensInv`; each part
of `ScreensInv` is kept by a lemma of its own (`PaneKept`, `ListKept`, `EditorKept`, `ListingsKept`, `VersionsKept`):

* `ListShowsItsQuery`: `ListIsCurrent`, from `ListInv`. `CallsAreOfThePage`: of the effect's requests one at most is alive, and it asks for what
  the controls show now; a reload belongs to a work that waits for it and nobody else's. What the property claims at rest becomes, while
  something is under way, a debt: `IdleIsCurrent` says that the list is current or the one request that is alive will make it so, which an archive that
  does not change in between keeps true (`Truthful`), and `ReloadIsCurrent` the same of a work that will reload and ran beside nothing else.
  The archive changes only by works that reload, or by steps that put the list in doubt.
* `PaneShowsItsFile`: `DetailsAreOfTheFile`. Every request of the pane is about the file it names, unless two openings have overlapped.
* `EditorIsTruthful`: `EditorShowsTruth`. A preview under way that has not been cut off is of the recipe of the controls now, and while one is due or
  under way the spinner stands (`PreviewsAreOfTheRecipe`); what is compared was asked for the version chosen. The versions need two actors:
  between the answer of the server to a saving and the moment the page hears of it (`~Told`) the list is rightly old, and `ListingsAreTrue` holds from the moment
  it is told, when it asks again, for the one listing under way or the list on the screen.
* `CopyKeepsRecipe`: `DuplicateKeepsRecipe`, from `VersionsInv`: every recipe saved is `Stable`, which is to say that `sanitizeRecipe` gives it back if it
  looks at all of it. `KeptIsStable` shows it of what `sanitizeRecipe` gives, `SharedIsStable` of what sharing adds to that: geometric operations stand
  first, one of each kind and in the fixed order, overlays follow within their limits, and a `strip` comes last (`Whole`). A copy on its way or in the queue
  carries the recipe of its original; ids are given from one without a gap, so a new version replaces none.

`AccessRules_proofs` proves, under `AccessAssumption`, `OffersAssumption` (what `create` refuses is not among the rules) and
`ArchivesAssumption` (an archive is finite and its trees are on its nodes), for any archive, trees with cycles among them, and any
number of users, devices, rules, calls and changes between the awaits:

* `AllowedForAReason`, `RefusedForAReason`: the two properties about verdicts, from `VerdictInv`. `Known` says, for each statement, what
  the call has found out: about the caller, the grants, the restrictions, the reasons for a refusal. It says so in terms of what has stood
  since the arrival, never of what is the case now, since every row may have changed after it was read. What stands is true now (`StandsNow`)
  and what stands can only get less (`Still`); so a fact that contradicts what a query returns does not stand, and will not again.
* `ListAgrees`: `ListAgreesWithCheck` for archives whose grants name no file by its id (`NoFileGrants`); with such grants it is false, as
  `FileGrants` shows. A node is reached by expanding the scope downwards as often as the scope is reached by climbing from the
  node. Both are recursive functions over the number of levels, and the lemmas on them go by induction on that number.

`Accounts_proofs` proves, under `AccountsAssumption` (finitely many users, `Null` none of them) and `CasesAssumption`, for any number of calls of
all eight kinds:

* `NothingForbidden`: `Spec => []NothingForbiddenPasses`, from `BarsInv`. `Shown` lists, per kind of call and statement, the bars its
  predecessors have found absent. A bar that stands is there now (`Means`), and a row that a call has read tells it what was the case
  then; so the comparison clears the bar also when the row has been replaced by the time it is made.
* `OwnersAlwaysRemain`: `OwnersRemain`, from `Orderly`, which holds unless calls have crossed: one registration at most stands between its count
  and its creation, what it counted still holds, and every call about to take an owner's role leaves another owner.
* `CodesOneTime`: `CodesAreOneTime`, from `CodeSound`. While a code is in the row nobody has used it, and the guesses it has stood are
  the attempts its row counts; a call that holds a read of the row holds these very numbers, unless calls on the account have crossed.

`ArchiveTrees_proofs` proves, under `ArchiveAssumption` and `InstancesAssumption`, for any forest of folders and of tags, any number of files, and any number
of calls on all three, by an inductive invariant of three parts:

* `FoldersStayKept`: `FoldersKept`. `FolderInv` has what holds whatever overlaps (parents are rows, calls are about rows that are there, ids are given once), and
  two parts that hold until calls of the kind in question have overlapped. `MovesStand`: the tree is `Founded`, which is to say that no set of
  folders has all its parents in itself; and what a climb under way has seen (`MoveKnows`) is closed: a folder it has passed
  is not the one that moves, so a climb that ends at a root has shown that the new parent is not below it. `TrashStands`: a
  folder about to be trashed has no active child, and one that is about to get a child is active.
* `TagsStayKept`: `TagsKept`, from `TagsStand`, the same for tags, with names apart also at the root, where the index of the database does not
  help. `CallKnows` is what the one call under way has found out.
* `PathsAlwaysAgree`: `PathsAgree`. The references are kept by the foreign keys whatever overlaps (`TagsThere`). In a founded tree the climb
  from a tag passes exactly the tags above it, and the descent finds exactly the tags below it, each by induction on its own depth
  (`BuildsWhatIsAbove`, `HangingIsBelow`).
* `NothingLost`: `MergesLoseNothing`. `MergeKnows`: a merge goes on with tags that its files still have, since nothing in the code takes a
  tag from a file, and with copies of the file it keeps, which is active or was trashed by a user unless another merge was under way.

That the tree is `Founded` is what the property's `Listed` amounts to: a descent from the roots lists every row exactly if no set of rows hangs on
itself (`ListedIsFounded`, `FoundedIsListed`). The invariant uses the set, which a step changes in a way one can follow, and not the descent.

**Induction.** The recursive functions of `Scope`, `TreeClimb`, `TagTree` and `EditRecipes` compute over levels, depths, rows or the elements of a recipe. What they compute is proved
by induction on natural numbers (`Induction`), derived from the well-foundedness of their order.
Recursion is written over single arguments or pairs for that purpose: the provers do not unfold functions of several arguments.

The layout is one step or lemma per action, and the facts on sets and counts that several steps need are stated once.

**Only model-checked**: `EveryViewEnds`, `EveryJobIsTaken` and `EveryJobEnds`, which are liveness under fairness and out of the prover's reach. Every
invariant and every action property that a run checks is stated by a theorem. The three violated runs need none.

## 5. Not modelled

`PROJECT.json` gives the reason for each component. In short: mail, statistics, the audit, view and activity logs, configuration and
the Reader decide nothing by state that others change at the same time. `update` of a collection is called by no page. The pages
beside those in `FilesScreen`, `ImageEditor` and `DiskImport` send one request and show its answer. Image and video tools are black
boxes that succeed or fail. Audit rows are written after the change they record, nothing reads them to
decide, and they are left out everywhere. Two verifications of one guest's code at the same time, two tabs on one import job, and link kinds
outside `Offers` are not in an instance. Recipes are those the editor makes: one sent to the interface with a `strip` of its own and then
shared keeps it before the watermark, and a copy of it has it last, which makes the same picture. `RevocationTakesEffect` speaks of the restriction a session was opened under; a session opened
without one is bound by none that is created later (`recheckRestriction` returns at once), for the ten minutes it lives. `tick` counts a run only
after two awaits, so ticks that overlap may start two jobs at once; `Queue` contains such behaviours, and its properties hold in them.

## 6. Plan

Done: all the modules above, and a proof of every invariant and action property. Left, in this order:

1. Instances with two tabs on one import job and two verifications of one guest's code.
2. A forest under atomic moves as an abstract specification that `FolderTree` implements while no two moves overlap.
3. The remaining screens, where one keeps state that an answer may miss: sharing, restrictions, watermarks.
