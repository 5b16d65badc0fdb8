--------------------------- MODULE ProtectedViewing ---------------------------
(***************************************************************************)
(* Protected viewing of one archived file: ViewingService (sessions, short *)
(* tokens, renditions), RestrictionsService (who may view, from where, for *)
(* how long, how often) and DevicesService (approved Archive Readers).     *)
(*                                                                         *)
(* A request handler is a chain of awaits and every Prisma call is one     *)
(* atomic statement on the database, so handlers interleave between their  *)
(* statements and carry what they have read so far: pc is the statement a  *)
(* handler runs next.  A view is one call of createSession together with   *)
(* the session row it leaves; a request renders a page of a session or     *)
(* refreshes its short token.  All requests are about the same file.       *)
(***************************************************************************)
EXTENDS Naturals, FiniteSets

CONSTANTS Users,         \* accounts
          Devices,       \* Archive Reader installations
          Restrictions,  \* rows of ViewRestriction
          Views,         \* calls of createSession and their ViewSession rows
          Requests,      \* rendition and refresh handlers
          Null,          \* SQL NULL
          MaxQuota,      \* bound: largest maxViews an administrator enters
          MaxChanges     \* bound: administrative changes and restarts in a behaviour

ASSUME ViewingAssumption ==
    /\ Null \notin Users \cup Devices \cup Restrictions
    /\ IsFiniteSet(Views)
    /\ MaxQuota \in Nat /\ MaxChanges \in Nat

VARIABLES
    fileActive,  \* the file is not in the trash
    sensitive,   \* a tag of the file has sensitivity HIGH
    viewers,     \* users whom AccessService.assertCanView lets pass
    approved,    \* <<user, device>> pairs that are approved and not revoked
    restr,       \* the ViewRestriction rows of the file
    view,        \* the views
    req,         \* the rendition and refresh requests
    changes,     \* changes made so far, at most MaxChanges
    quotas,      \* history: the values restr[r].maxViews has had
    viewBars,    \* history: see Watch
    reqBars      \* history: see Watch

policy  == <<fileActive, sensitive, viewers, approved>>
history == <<quotas, viewBars, reqBars>>
vars    == <<policy, restr, view, req, changes, history>>

NoQuota == 0   \* maxViews = null; parseMaxViews admits no 0

Windows == {"none", "future", "past"}   \* expiresAt: null, ahead of now, behind it

NoRestriction == [exists |-> FALSE, active |-> FALSE, user |-> Null, device |-> Null,
                  window |-> "none", maxViews |-> NoQuota, used |-> 0]
NoView        == [pc |-> "idle", user |-> Null, device |-> Null, rid |-> Null,
                  max |-> NoQuota, token |-> FALSE]
NoRequest     == [pc |-> "idle", kind |-> "none", view |-> Null, device |-> Null]

Opening == {"file", "access", "sensitive", "device", "restrictions", "claim", "create"}
\* The session row exists, or its view has been counted and it never will.
Charged == {"create", "live", "expired", "dropped"}
ViewPCs == {"idle", "refused"} \cup Opening \cup Charged

RequestPCs == {"idle", "session", "sensitive", "device", "restriction", "access",
               "file", "served"}

-----------------------------------------------------------------------------
(* Reading the restriction rows                                            *)

ActiveRestrictions == {r \in Restrictions : restr[r].active}

\* The rows aimed at user u govern; the rows aimed at everybody only if u has none.
Governing(u) ==
    LET personal == {r \in ActiveRestrictions : restr[r].user = u}
    IN  IF personal # {} THEN personal
                         ELSE {r \in ActiveRestrictions : restr[r].user = Null}

Usable(r, d) ==
    /\ restr[r].window # "past"
    /\ restr[r].device \in {Null, d}
    /\ restr[r].maxViews = NoQuota \/ restr[r].used < restr[r].maxViews

UsableFor(u, d) == {r \in Governing(u) : Usable(r, d)}

\* The sort puts the row with the fewest views left first, rows without a quota last;
\* rows that tie come in no particular order.
NoLooser(r, s) ==
    \/ restr[s].maxViews = NoQuota
    \/ /\ restr[r].maxViews # NoQuota
       /\ restr[r].maxViews + restr[s].used <= restr[s].maxViews + restr[r].used

Tightest(S) == {r \in S : \A s \in S : NoLooser(r, s)}

\* recheckRestriction: the row the session was opened under, its quota aside.
StillHolds(r, d) ==
    r # Null => /\ restr[r].active
                /\ restr[r].window # "past"
                /\ restr[r].device \in {Null, d}

-----------------------------------------------------------------------------
(* Standing bars.  A bar is a reason to refuse; it stands if it has been   *)
(* there ever since the handler received its call.                         *)

ViewBarNames    == {"file", "access", "device", "restriction"}
RequestBarNames == ViewBarNames \cup {"session"}

DeviceBar(u, d) == sensitive /\ (d = Null \/ <<u, d>> \notin approved)

BarsOfView(v) ==
    LET u == view[v].user
        d == view[v].device
    IN  {b \in ViewBarNames :
            \/ b = "file" /\ ~fileActive
            \/ b = "access" /\ u \notin viewers
            \/ b = "device" /\ DeviceBar(u, d)
            \/ b = "restriction" /\ ActiveRestrictions # {} /\ UsableFor(u, d) = {}}

\* The bars a request is to be refused by.  refreshToken asks neither for the access rules
\* nor for the file: these stop the renditions that come with the new token.
BarsAsked(kind) == IF kind = "rendition" THEN RequestBarNames
                                         ELSE RequestBarNames \ {"access", "file"}

\* A session opened without a restriction is bound by none that is created later.
BarsOfRequest(q) ==
    LET s == view[req[q].view]
        d == req[q].device
    IN  {b \in RequestBarNames :
            \/ b = "session" /\ s.pc # "live"
            \/ b = "file" /\ ~fileActive
            \/ b = "access" /\ s.user \notin viewers
            \/ b = "device" /\ DeviceBar(s.user, d)
            \/ b = "restriction" /\ ~StillHolds(s.rid, d)}

\* Keeps the standing bars of every handler in flight; a conjunct of every action.
Watch ==
    /\ viewBars' = [v \in Views |->
           IF view'[v].pc \notin Opening THEN {}
           ELSE IF view[v].pc \notin Opening THEN BarsOfView(v)'
           ELSE viewBars[v] \cap BarsOfView(v)']
    /\ reqBars' = [q \in Requests |->
           IF req'[q].pc = "idle" THEN {}
           ELSE IF req[q].pc = "idle" THEN BarsOfRequest(q)'
           ELSE reqBars[q] \cap BarsOfRequest(q)']

-----------------------------------------------------------------------------
Init ==
    /\ fileActive = TRUE
    /\ sensitive \in BOOLEAN
    /\ viewers \in SUBSET Users
    /\ approved = {}
    /\ restr = [r \in Restrictions |-> NoRestriction]
    /\ view = [v \in Views |-> NoView]
    /\ req = [q \in Requests |-> NoRequest]
    /\ changes = 0
    /\ quotas = [r \in Restrictions |-> {}]
    /\ viewBars = [v \in Views |-> {}]
    /\ reqBars = [q \in Requests |-> {}]

-----------------------------------------------------------------------------
(* createSession: one action per database statement                        *)

ViewStep(v, from, ok, to) ==
    /\ view[v].pc = from
    /\ view' = [view EXCEPT ![v].pc = IF ok THEN to ELSE "refused"]
    /\ UNCHANGED <<policy, restr, req, changes, quotas>>
    /\ Watch

\* The caller's JWT carries a device exactly when the login came from the Reader.
ViewArrives(v, u, d) ==
    /\ view[v].pc = "idle"
    /\ view' = [view EXCEPT ![v] = [NoView EXCEPT !.pc = "file", !.user = u, !.device = d]]
    /\ UNCHANGED <<policy, restr, req, changes, quotas>>
    /\ Watch

ViewFindsFile(v)      == ViewStep(v, "file", fileActive, "access")
ViewChecksAccess(v)   == ViewStep(v, "access", view[v].user \in viewers, "sensitive")

\* Faulty: any Reader passes, approved or not.
ViewTrustsReader(v) ==
    ViewStep(v, "sensitive", sensitive => view[v].device # Null, "restrictions")

\* Sensitive content asks for a Reader before it looks the device up.
ViewReadsTags(v) ==
    \/ ~sensitive /\ ViewStep(v, "sensitive", TRUE, "restrictions")
    \/ sensitive /\ ViewStep(v, "sensitive", view[v].device # Null, "device")

ViewFindsDevice(v) ==
    ViewStep(v, "device", <<view[v].user, view[v].device>> \in approved, "restrictions")

\* findMany, then the choice of the row to count against, without another await.
ViewReadsRestrictions(v) ==
    LET usable == UsableFor(view[v].user, view[v].device)
    IN  IF ActiveRestrictions # {} /\ usable # {}
        THEN /\ view[v].pc = "restrictions"
             /\ \E r \in Tightest(usable) :
                   view' = [view EXCEPT ![v].pc = "claim", ![v].rid = r,
                                        ![v].max = restr[r].maxViews]
             /\ UNCHANGED <<policy, restr, req, changes, quotas>>
             /\ Watch
        ELSE ViewStep(v, "restrictions", ActiveRestrictions = {}, "create")

\* Faulty: the claim forgets that viewsUsed may have moved since it was read.
ClaimUnguarded(r, max) == max # NoQuota => restr[r].active

\* updateMany ... where active and viewsUsed < the maxViews read before; a row read
\* without a quota is incremented whatever has become of it.
ClaimGranted(r, max) == max # NoQuota => restr[r].active /\ restr[r].used < max

\* Faulty: only quotas are counted, a view under a row without a quota is not.
ViewClaimsQuotasOnly(v) ==
    LET r == view[v].rid
    IN  /\ view[v].pc = "claim"
        /\ view' = [view EXCEPT ![v].pc = IF ClaimGranted(r, view[v].max) THEN "create"
                                                                        ELSE "refused"]
        /\ restr' = IF ClaimGranted(r, view[v].max) /\ view[v].max # NoQuota
                    THEN [restr EXCEPT ![r].used = @ + 1] ELSE restr
        /\ UNCHANGED <<policy, req, changes, quotas>>
        /\ Watch

\* Faulty: a refused claim gives back a view it never took.
ViewClaimRefunds(v) ==
    LET r == view[v].rid
        granted == ClaimGranted(r, view[v].max)
    IN  /\ view[v].pc = "claim"
        /\ view' = [view EXCEPT ![v].pc = IF granted THEN "create" ELSE "refused"]
        /\ restr' = [restr EXCEPT ![r].used = IF granted THEN @ + 1 ELSE @ - 1]
        /\ UNCHANGED <<policy, req, changes, quotas>>
        /\ Watch

ViewClaims(v) ==
    LET r == view[v].rid
    IN  /\ view[v].pc = "claim"
        /\ IF ClaimGranted(r, view[v].max)
           THEN /\ restr' = [restr EXCEPT ![r].used = @ + 1]
                /\ view' = [view EXCEPT ![v].pc = "create"]
           ELSE /\ view' = [view EXCEPT ![v].pc = "refused"]
                /\ UNCHANGED restr
        /\ UNCHANGED <<policy, req, changes, quotas>>
        /\ Watch

\* The row is inserted and the first token minted.
ViewCreatesSession(v) ==
    /\ view[v].pc = "create"
    /\ view' = [view EXCEPT ![v].pc = "live", ![v].token = TRUE]
    /\ UNCHANGED <<policy, restr, req, changes, quotas>>
    /\ Watch

\* Faulty: the failed insert is retried from the claim.
ViewInsertRetries(v) == /\ view[v].pc = "create" /\ view[v].rid # Null
                        /\ view' = [view EXCEPT ![v].pc = "claim"]
                        /\ UNCHANGED <<policy, restr, req, changes, quotas>>
                        /\ Watch

\* The insert fails: the view stays counted.
ViewInsertFails(v) == /\ view[v].pc = "create"
                      /\ view' = [view EXCEPT ![v].pc = "dropped"]
                      /\ UNCHANGED <<policy, restr, req, changes, quotas>>
                      /\ Watch

\* SESSION_TTL_MS and TOKEN_TTL_SEC run out.
SessionExpires(v) == ViewStep(v, "live", TRUE, "expired")

TokenExpires(v) == /\ view[v].token
                   /\ view' = [view EXCEPT ![v].token = FALSE]
                   /\ UNCHANGED <<policy, restr, req, changes, quotas>>
                   /\ Watch

CreateSession(v) ==
    \/ \E u \in Users, d \in Devices \cup {Null} : ViewArrives(v, u, d)
    \/ ViewFindsFile(v) \/ ViewChecksAccess(v) \/ ViewReadsTags(v) \/ ViewFindsDevice(v)
    \/ ViewReadsRestrictions(v) \/ ViewClaims(v)
    \/ ViewCreatesSession(v) \/ ViewInsertFails(v)
    \/ SessionExpires(v) \/ TokenExpires(v)

-----------------------------------------------------------------------------
(* authorizeRendition and refreshToken                                     *)

\* A refused request answers 403 and is over.
RequestStep(q, from, ok, to) ==
    /\ req[q].pc = from
    /\ req' = [req EXCEPT ![q] = IF ok THEN [@ EXCEPT !.pc = to] ELSE NoRequest]
    /\ UNCHANGED <<policy, restr, view, changes, quotas>>
    /\ Watch

\* A rendition needs an unexpired token of the session, a refresh only its id.  Both
\* come from the session's own user: any other caller is refused at once.
RequestArrives(q, kind, v, d) ==
    /\ req[q].pc = "idle"
    /\ view[v].pc \in {"live", "expired"}
    /\ kind = "rendition" => view[v].token
    /\ req' = [req EXCEPT ![q] = [pc |-> "session", kind |-> kind, view |-> v, device |-> d]]
    /\ UNCHANGED <<policy, restr, view, changes, quotas>>
    /\ Watch

RequestLoadsSession(q) ==
    RequestStep(q, "session", view[req[q].view].pc = "live", "sensitive")

RequestReadsTags(q) ==
    \/ ~sensitive /\ RequestStep(q, "sensitive", TRUE, "restriction")
    \/ sensitive /\ RequestStep(q, "sensitive", req[q].device # Null, "device")

RequestFindsDevice(q) ==
    RequestStep(q, "device", <<view[req[q].view].user, req[q].device>> \in approved,
                "restriction")

\* Faulty: a refresh mints its token without looking at the restriction.
RequestRechecksRenditions(q) ==
    LET v == req[q].view
    IN  \/ /\ req[q].kind = "rendition"
           /\ RequestStep(q, "restriction", StillHolds(view[v].rid, req[q].device), "access")
        \/ /\ req[q].kind = "refresh" /\ req[q].pc = "restriction"
           /\ req' = [req EXCEPT ![q].pc = "served"]
           /\ view' = [view EXCEPT ![v].token = TRUE]
           /\ UNCHANGED <<policy, restr, changes, quotas>>
           /\ Watch

\* A rendition goes on to its access check; a refresh mints the token and is done.
RequestRechecks(q) ==
    LET v  == req[q].view
        ok == StillHolds(view[v].rid, req[q].device)
    IN  \/ /\ req[q].kind = "rendition"
           /\ RequestStep(q, "restriction", ok, "access")
        \/ /\ req[q].kind = "refresh" /\ ~ok
           /\ RequestStep(q, "restriction", FALSE, "served")
        \/ /\ req[q].kind = "refresh" /\ ok
           /\ req[q].pc = "restriction"
           /\ req' = [req EXCEPT ![q].pc = "served"]
           /\ view' = [view EXCEPT ![v].token = TRUE]
           /\ UNCHANGED <<policy, restr, changes, quotas>>
           /\ Watch

RequestChecksAccess(q) ==
    RequestStep(q, "access", view[req[q].view].user \in viewers, "file")

\* fileOrThrow; the rendition itself is a function of the file's content.
RequestFindsFile(q) == RequestStep(q, "file", fileActive, "served")

RequestEnds(q) == RequestStep(q, "served", FALSE, "idle")

ServeRequest(q) ==
    \/ \E kind \in {"rendition", "refresh"}, v \in Views, d \in Devices \cup {Null} :
          RequestArrives(q, kind, v, d)
    \/ RequestLoadsSession(q) \/ RequestReadsTags(q) \/ RequestFindsDevice(q)
    \/ RequestRechecks(q) \/ RequestChecksAccess(q) \/ RequestFindsFile(q)
    \/ RequestEnds(q)

-----------------------------------------------------------------------------
(* Administration                                                          *)

Change == changes < MaxChanges /\ changes' = changes + 1

\* RestrictionsService.create; its lookups only narrow the input.
CreateRestriction(r, u, d, w, max) ==
    /\ Change
    /\ ~restr[r].exists
    /\ fileActive
    /\ d # Null => \E owner \in Users : <<owner, d>> \in approved /\ u \in {Null, owner}
    /\ w # "past"
    /\ u # Null \/ d # Null \/ w # "none" \/ max # NoQuota
    /\ restr' = [restr EXCEPT ![r] = [exists |-> TRUE, active |-> TRUE, user |-> u,
                     device |-> d, window |-> w, maxViews |-> max, used |-> 0]]
    /\ quotas' = [quotas EXCEPT ![r] = {max}]
    /\ UNCHANGED <<policy, view, req>>
    /\ Watch

\* update sets the window or the quota, of a revoked row too and below viewsUsed too.
UpdateWindow(r, w) ==
    /\ Change
    /\ restr[r].exists
    /\ w # "past"
    /\ restr' = [restr EXCEPT ![r].window = w]
    /\ UNCHANGED <<policy, view, req, quotas>>
    /\ Watch

UpdateQuota(r, max) ==
    /\ Change
    /\ restr[r].exists
    /\ restr' = [restr EXCEPT ![r].maxViews = max]
    /\ quotas' = [quotas EXCEPT ![r] = @ \cup {max}]
    /\ UNCHANGED <<policy, view, req>>
    /\ Watch

RevokeRestriction(r) ==
    /\ Change
    /\ restr[r].exists
    /\ restr' = [restr EXCEPT ![r].active = FALSE]
    /\ UNCHANGED <<policy, view, req, quotas>>
    /\ Watch

WindowCloses(r) ==
    /\ restr[r].window = "future"
    /\ restr' = [restr EXCEPT ![r].window = "past"]
    /\ UNCHANGED <<policy, view, req, changes, quotas>>
    /\ Watch

ApproveDevice(u, d) == /\ Change
                       /\ approved' = approved \cup {<<u, d>>}
                       /\ UNCHANGED <<fileActive, sensitive, viewers, restr, view, req, quotas>>
                       /\ Watch

RevokeDevice(u, d) == /\ Change
                      /\ approved' = approved \ {<<u, d>>}
                      /\ UNCHANGED <<fileActive, sensitive, viewers, restr, view, req, quotas>>
                      /\ Watch

\* The trash, the tags and the access rules are other services: here they just change.
FileOrRulesChange ==
    /\ Change
    /\ \/ fileActive' = ~fileActive /\ UNCHANGED <<sensitive, viewers>>
       \/ sensitive' = ~sensitive /\ UNCHANGED <<fileActive, viewers>>
       \/ \E u \in Users : /\ viewers' = (viewers \ {u}) \cup ({u} \ viewers)
                            /\ UNCHANGED <<fileActive, sensitive>>
    /\ UNCHANGED <<approved, restr, view, req, quotas>>
    /\ Watch

\* The container is restarted: the handlers are gone, rows and signed tokens are not.
Restart ==
    /\ Change
    /\ view' = [v \in Views |->
          IF view[v].pc = "create" THEN [view[v] EXCEPT !.pc = "dropped"]
          ELSE IF view[v].pc \in Opening THEN [view[v] EXCEPT !.pc = "refused"]
          ELSE view[v]]
    /\ req' = [q \in Requests |-> NoRequest]
    /\ UNCHANGED <<policy, restr, quotas>>
    /\ Watch

Administer ==
    \/ \E r \in Restrictions :
          \/ \E u \in Users \cup {Null}, d \in Devices \cup {Null},
                w \in Windows, max \in 0..MaxQuota : CreateRestriction(r, u, d, w, max)
          \/ \E w \in Windows : UpdateWindow(r, w)
          \/ \E max \in 0..MaxQuota : UpdateQuota(r, max)
          \/ RevokeRestriction(r)
          \/ WindowCloses(r)
    \/ \E u \in Users, d \in Devices : ApproveDevice(u, d) \/ RevokeDevice(u, d)
    \/ FileOrRulesChange
    \/ Restart

Next == \/ \E v \in Views : CreateSession(v)
        \/ \E q \in Requests : ServeRequest(q)
        \/ Administer

Spec == Init /\ [][Next]_vars

-----------------------------------------------------------------------------
(* Properties                                                              *)

RestrictionRow == [exists : BOOLEAN, active : BOOLEAN, user : Users \cup {Null},
                   device : Devices \cup {Null}, window : Windows,
                   maxViews : 0..MaxQuota, used : Nat]
ViewRow        == [pc : ViewPCs, user : Users \cup {Null}, device : Devices \cup {Null},
                   rid : Restrictions \cup {Null}, max : 0..MaxQuota, token : BOOLEAN]
RequestRow     == [pc : RequestPCs, kind : {"none", "rendition", "refresh"},
                   view : Views \cup {Null}, device : Devices \cup {Null}]

TypeOK ==
    /\ fileActive \in BOOLEAN /\ sensitive \in BOOLEAN
    /\ viewers \subseteq Users /\ approved \subseteq Users \X Devices
    /\ restr \in [Restrictions -> RestrictionRow]
    /\ view \in [Views -> ViewRow]
    /\ req \in [Requests -> RequestRow]
    /\ changes \in 0..MaxChanges
    /\ quotas \in [Restrictions -> SUBSET (0..MaxQuota)]
    /\ viewBars \in [Views -> SUBSET ViewBarNames]
    /\ reqBars \in [Requests -> SUBSET RequestBarNames]

ChargedTo(r) == {v \in Views : view[v].pc \in Charged /\ view[v].rid = r}

\* However openings, quota changes, revocations and restarts interleave, viewsUsed
\* counts each opening that got past its claim exactly once: no view is free, none is
\* counted twice.
ChargedExactlyOnce ==
    \A r \in Restrictions : restr[r].used = Cardinality(ChargedTo(r))

\* Two openings that both read one view left cannot both take it: viewsUsed stays
\* within the most generous quota the restriction has ever carried.
QuotaNeverOverrun ==
    \A r \in Restrictions :
        restr[r].used > 0 => NoQuota \in quotas[r] \/ \E n \in quotas[r] : restr[r].used <= n

\* A session comes into being only if nothing that forbids it (trash, access rules,
\* sensitivity, restrictions) stood from before the call arrived until the session was
\* created: every check of createSession is made, and made on state read in the call.
SessionOnlyWhenAllowed == \A v \in Views : view[v].pc = "create" => viewBars[v] = {}

\* Revoking a restriction or a device, marking the file sensitive, closing a window or ending
\* the session takes effect on every rendition and every token refresh that arrives
\* afterwards, for sessions opened long before too.  Revoking an access rule or trashing the
\* file takes effect on every rendition, with a token refreshed after it too; the refresh
\* itself is not refused.
RevocationTakesEffect ==
    \A q \in Requests : req[q].pc = "served" => reqBars[q] \cap BarsAsked(req[q].kind) = {}

\* The mechanism implements the counted-view promise of ViewQuota.
Quota == INSTANCE ViewQuota WITH
    Allowances <- Restrictions, Openings <- Views,
    charged <- [r \in Restrictions |-> ChargedTo(r)]
QuotaSpec == Quota!Spec
=============================================================================
