------------------------------ MODULE ShareLinks ------------------------------
(***************************************************************************)
(* ShareService: one external viewing link of an archived file.  A visitor *)
(* without an account starts a session, proves an e-mail address with a    *)
(* one-time code and waits for an approval, where the link asks for them,  *)
(* and is let in: the view is counted, the link bound to his browser if it *)
(* is a single-device link, and a short token minted.                      *)
(*                                                                         *)
(* As in ProtectedViewing every await is a step and a handler goes on with *)
(* the rows it has read: pc names the statement it runs next.              *)
(***************************************************************************)
EXTENDS Naturals, FiniteSets

CONSTANTS Devices,   \* what browsers send as deviceKey; Null among them: nothing
          Sessions,  \* ShareSession rows
          Opens,     \* calls of start, requestOtp, verify and status
          Requests,  \* rendition and refresh handlers
          Null,      \* SQL NULL
          Offers,    \* bound: the kinds of link administrators create, records of the
                     \* fields maxViews, single, otp and approval
          MaxQuota,  \* bound: the largest maxViews among them
          OTP_MAX_ATTEMPTS,
          MaxRestarts  \* bound: restarts and moves of the file to the trash and back

ASSUME ShareAssumption ==
    /\ Null \notin Sessions
    /\ IsFiniteSet(Opens)
    /\ Offers \subseteq [maxViews : 0..MaxQuota, single : BOOLEAN, otp : BOOLEAN,
                         approval : BOOLEAN]
    /\ MaxQuota \in Nat /\ MaxRestarts \in Nat /\ OTP_MAX_ATTEMPTS \in Nat \ {0}

VARIABLES
    link,        \* the ShareLink row
    fileActive,  \* the file is not in the trash
    session,     \* the ShareSession rows; dead: revoked or past expiresAt, which every
                 \* check asks together; code: a code was sent, unused and in its time
    open,        \* the opening calls
    req,         \* the rendition and refresh requests
    restarts,    \* restarts and trash moves so far, at most MaxRestarts
    proven,      \* history: sessions in which a sent code was entered
    openBars,    \* history: see Watch
    reqBars      \* history: see Watch

history == <<proven, openBars, reqBars>>
vars    == <<link, fileActive, session, open, req, restarts, history>>

NoQuota == 0   \* maxViews = null; posIntOrNull admits no 0

NoLink    == [exists |-> FALSE, active |-> FALSE, expired |-> FALSE, maxViews |-> NoQuota,
              used |-> 0, bound |-> Null, single |-> FALSE, otp |-> FALSE, approval |-> FALSE]
NoSession == [exists |-> FALSE, verified |-> FALSE, approved |-> FALSE, dead |-> FALSE,
              code |-> FALSE, attempts |-> 0, token |-> FALSE]
NoOpen    == [pc |-> "idle", kind |-> "none", session |-> Null, device |-> Null,
              bound |-> Null, approved |-> FALSE]
NoRequest == [pc |-> "idle", kind |-> "none", session |-> Null, device |-> Null, bound |-> Null]

Kinds    == {"start", "otp", "verify", "status"}
Entering == {"link", "create", "session", "send", "miss", "prove", "claim"}
Counted  == {"bind", "mark", "file", "opened", "dropped"}

-----------------------------------------------------------------------------
(* The assertions; an expiry is compared with the clock, everything else   *)
(* with the row that was read.                                             *)

DeviceFits(bound, d) == link.single => d # Null /\ bound \in {Null, d}

\* Faulty: the code is enough.
AdmittedByCode(verified, approved) == link.otp => verified

\* requireOtp and requireApproval as verify, status and authorizeOpen see them.
Admitted(verified, approved) == /\ link.otp => verified
                                /\ link.approval => approved

-----------------------------------------------------------------------------
(* Standing bars: reasons to refuse that have stood ever since the call    *)
(* arrived.                                                                *)

OpenBarNames    == {"link", "expired", "device", "session", "otp", "approval"}
RequestBarNames == OpenBarNames \cup {"file"}

BarsOfLink(d) ==
    {b \in OpenBarNames :
        \/ b = "link" /\ ~link.active
        \/ b = "expired" /\ link.expired
        \/ b = "device" /\ ~DeviceFits(link.bound, d)}

\* A start has no session (s is Null) before it creates one.
BarsOfSession(s) ==
    {b \in OpenBarNames :
        \/ b = "session" /\ s # Null /\ session[s].dead
        \/ b = "otp" /\ link.otp /\ s \notin proven
        \/ b = "approval" /\ link.approval /\ (s = Null \/ ~session[s].approved)}

BarsOfOpen(o) == BarsOfLink(open[o].device) \cup BarsOfSession(open[o].session)

BarsOfRequest(q) ==
    BarsOfLink(req[q].device) \cup BarsOfSession(req[q].session)
        \cup IF fileActive THEN {} ELSE {"file"}

\* The bars a request is to be refused by.  authorizeOpen does not ask for the file: the
\* trash stops the renditions that come with a refreshed token.
BarsAsked(kind) == IF kind = "rendition" THEN RequestBarNames ELSE OpenBarNames

\* Keeps the standing bars of every handler in flight; a conjunct of every action.
Watch ==
    /\ openBars' = [o \in Opens |->
           IF open'[o].pc \notin Entering THEN {}
           ELSE IF open[o].pc \notin Entering THEN BarsOfOpen(o)'
           ELSE openBars[o] \cap BarsOfOpen(o)']
    /\ reqBars' = [q \in Requests |->
           IF req'[q].pc = "idle" THEN {}
           ELSE IF req[q].pc = "idle" THEN BarsOfRequest(q)'
           ELSE reqBars[q] \cap BarsOfRequest(q)']

-----------------------------------------------------------------------------
Init ==
    /\ link = NoLink
    /\ fileActive = TRUE
    /\ session = [s \in Sessions |-> NoSession]
    /\ open = [o \in Opens |-> NoOpen]
    /\ req = [q \in Requests |-> NoRequest]
    /\ restarts = 0
    /\ proven = {}
    /\ openBars = [o \in Opens |-> {}]
    /\ reqBars = [q \in Requests |-> {}]

-----------------------------------------------------------------------------
(* start, requestOtp, verify, status                                       *)

\* What finalizeOpen asserts first; all its checks but the clock are on rows read before.
EntryPc(o) == IF ~link.expired /\ DeviceFits(open[o].bound, open[o].device)
              THEN "claim" ELSE "idle"

\* A call keeps what it still uses; one that is refused or told to wait is forgotten.
OpenAt(row, pc) ==
    IF pc \in {"idle", "opened", "dropped"} THEN [NoOpen EXCEPT !.pc = pc]
    ELSE [row EXCEPT !.pc = pc,
                     !.kind = IF pc = "session" THEN @ ELSE "none",
                     !.approved = IF pc = "prove" THEN @ ELSE FALSE]

OpenGoes(o, from, to) == /\ open[o].pc = from
                         /\ open' = [open EXCEPT ![o] = OpenAt(@, to)]
                         /\ UNCHANGED <<fileActive, req, restarts>>

OpenArrives(o, kind, s, d) ==
    /\ open[o].pc = "idle"
    /\ IF kind = "start" THEN s = Null ELSE s # Null /\ session[s].exists
    /\ open' = [open EXCEPT ![o] = [NoOpen EXCEPT !.pc = "link", !.kind = kind,
                                                  !.session = s, !.device = d]]
    /\ UNCHANGED <<link, fileActive, session, req, restarts, proven>>
    /\ Watch

\* loadActiveLink; start asserts all it can before it creates a session.
OpenLoadsLink(o) ==
    LET start == open[o].kind = "start"
        ok    == /\ link.active
                 /\ start => /\ ~link.expired
                             /\ link.maxViews = NoQuota \/ link.used < link.maxViews
                             /\ DeviceFits(link.bound, open[o].device)
    IN  /\ open[o].pc = "link"
        /\ open' = [open EXCEPT ![o] =
                       OpenAt([@ EXCEPT !.bound = link.bound],
                              IF ~ok THEN "idle" ELSE IF start THEN "create" ELSE "session")]
        /\ UNCHANGED <<link, fileActive, session, req, restarts, proven>>
        /\ Watch

OpenCreatesSession(o) ==
    /\ open[o].pc = "create"
    /\ \E s \in Sessions :
          /\ ~session[s].exists
          /\ session' = [session EXCEPT ![s] = [NoSession EXCEPT !.exists = TRUE]]
          /\ open' = [open EXCEPT ![o] =
                         OpenAt([@ EXCEPT !.session = s],
                                IF link.otp \/ link.approval THEN "idle" ELSE EntryPc(o))]
    /\ UNCHANGED <<link, fileActive, req, restarts, proven>>
    /\ Watch

\* loadSession, and what each call does with the row.
OpenLoadsSession(o) ==
    LET s    == session[open[o].session]
        row  == [open[o] EXCEPT !.approved = s.approved]
        Goes(pc) == open' = [open EXCEPT ![o] = OpenAt(row, pc)]
        usable   == s.code /\ s.attempts < OTP_MAX_ATTEMPTS
    IN  /\ open[o].pc = "session"
        /\ \/ /\ s.dead
              /\ Goes("idle")
           \/ /\ ~s.dead
              /\ \/ /\ open[o].kind = "otp"
                    /\ Goes(IF link.otp THEN "send" ELSE "idle")
                 \/ /\ open[o].kind = "verify" /\ link.otp /\ ~s.verified
                    /\ IF usable THEN Goes("prove") \/ Goes("miss") ELSE Goes("idle")
                 \/ /\ \/ open[o].kind = "status"
                       \/ open[o].kind = "verify" /\ (link.otp => s.verified)
                    /\ Goes(IF Admitted(s.verified, s.approved) THEN EntryPc(o) ELSE "idle")
        /\ UNCHANGED <<link, fileActive, session, req, restarts, proven>>
        /\ Watch

OpenSendsCode(o) ==
    /\ OpenGoes(o, "send", "idle")
    /\ session' = [session EXCEPT ![open[o].session].code = TRUE,
                                  ![open[o].session].attempts = 0]
    /\ UNCHANGED <<link, proven>>
    /\ Watch

\* A wrong code counts an attempt.
OpenMisses(o) ==
    /\ OpenGoes(o, "miss", "idle")
    /\ session' = [session EXCEPT ![open[o].session].attempts = @ + 1]
    /\ UNCHANGED <<link, proven>>
    /\ Watch

\* The right code; the approval is the one read with the session.
OpenProves(o) ==
    LET s == open[o].session
    IN  /\ OpenGoes(o, "prove", IF link.approval /\ ~open[o].approved THEN "idle"
                                                                    ELSE EntryPc(o))
        /\ session' = [session EXCEPT ![s].verified = TRUE, ![s].code = FALSE]
        /\ proven' = proven \cup {s}
        /\ UNCHANGED link
        /\ Watch

-----------------------------------------------------------------------------
(* finalizeOpen                                                            *)

\* Faulty: the claim relies on the quota that start has asserted.
ClaimAlways == TRUE

\* updateMany where active and viewsUsed < maxViews; without a quota a plain update.
ClaimGranted == link.maxViews # NoQuota => link.active /\ link.used < link.maxViews

\* Faulty: a refused claim counts as well.
OpenClaimsFirst(o) ==
    /\ OpenGoes(o, "claim", IF ClaimGranted THEN "mark" ELSE "idle")
    /\ link' = [link EXCEPT !.used = @ + 1]
    /\ UNCHANGED <<session, proven>>
    /\ Watch

OpenClaims(o) ==
    LET binds == link.single /\ open[o].bound = Null /\ open[o].device # Null
    IN  /\ OpenGoes(o, "claim", IF ~ClaimGranted THEN "idle"
                                ELSE IF binds THEN "bind" ELSE "mark")
        /\ link' = IF ClaimGranted THEN [link EXCEPT !.used = @ + 1] ELSE link
        /\ UNCHANGED <<session, proven>>
        /\ Watch

\* A plain update: the first opening was judged by the row read at the start.
OpenBinds(o) ==
    /\ OpenGoes(o, "bind", "mark")
    /\ link' = [link EXCEPT !.bound = open[o].device]
    /\ UNCHANGED <<session, proven>>
    /\ Watch

OpenMarks(o) ==
    /\ OpenGoes(o, "mark", "file")
    /\ session' = [session EXCEPT ![open[o].session].verified = TRUE]
    /\ UNCHANGED <<link, proven>>
    /\ Watch

\* fileOf; the view is counted whether or not the file is still there.
OpenFindsFile(o) ==
    /\ OpenGoes(o, "file", IF fileActive THEN "opened" ELSE "dropped")
    /\ session' = IF fileActive THEN [session EXCEPT ![open[o].session].token = TRUE]
                  ELSE session
    /\ UNCHANGED <<link, proven>>
    /\ Watch

OpenStep(o) ==
    \/ \E kind \in Kinds, s \in Sessions \cup {Null}, d \in Devices :
          OpenArrives(o, kind, s, d)
    \/ OpenLoadsLink(o) \/ OpenCreatesSession(o) \/ OpenLoadsSession(o)
    \/ OpenSendsCode(o) \/ OpenMisses(o) \/ OpenProves(o)
    \/ OpenClaims(o) \/ OpenBinds(o) \/ OpenMarks(o) \/ OpenFindsFile(o)

-----------------------------------------------------------------------------
(* authorizeOpen for a rendition or a refresh                              *)

RequestGoes(q, from, ok, to) ==
    /\ req[q].pc = from
    /\ req' = [req EXCEPT ![q] = IF ok THEN [@ EXCEPT !.pc = to] ELSE NoRequest]
    /\ UNCHANGED <<fileActive, open, restarts, proven>>

\* A rendition needs an unexpired token of the session, a refresh only its id.
RequestArrives(q, kind, s, d) ==
    /\ req[q].pc = "idle"
    /\ session[s].exists
    /\ kind = "rendition" => session[s].token
    /\ req' = [req EXCEPT ![q] = [NoRequest EXCEPT !.pc = "link", !.kind = kind,
                                                   !.session = s, !.device = d]]
    /\ UNCHANGED <<link, fileActive, session, open, restarts, proven>>
    /\ Watch

RequestLoadsLink(q) ==
    /\ req[q].pc = "link"
    /\ req' = [req EXCEPT ![q] = IF link.active
                  THEN [@ EXCEPT !.pc = "session", !.bound = link.bound] ELSE NoRequest]
    /\ UNCHANGED <<link, fileActive, session, open, restarts, proven>>
    /\ Watch

\* Faulty: relies on the token, which was minted after every check.
RequestTrustsToken(q) ==
    LET s == session[req[q].session]
    IN  /\ RequestGoes(q, "session", ~s.dead,
                       IF req[q].kind = "refresh" THEN "served" ELSE "file")
        /\ session' = IF req[q].kind = "refresh" /\ ~s.dead
                      THEN [session EXCEPT ![req[q].session].token = TRUE] ELSE session
        /\ UNCHANGED link
        /\ Watch

\* loadSession and the assertions; a refresh mints the token and is done.
RequestLoadsSession(q) ==
    LET s  == session[req[q].session]
        ok == /\ ~s.dead
              /\ Admitted(s.verified, s.approved)
              /\ ~link.expired
              /\ DeviceFits(req[q].bound, req[q].device)
    IN  /\ RequestGoes(q, "session", ok, IF req[q].kind = "refresh" THEN "served" ELSE "file")
        /\ session' = IF ok /\ req[q].kind = "refresh"
                      THEN [session EXCEPT ![req[q].session].token = TRUE] ELSE session
        /\ UNCHANGED link
        /\ Watch

RequestFindsFile(q) == RequestGoes(q, "file", fileActive, "served")
                       /\ UNCHANGED <<link, session>> /\ Watch

RequestEnds(q) == RequestGoes(q, "served", FALSE, "idle")
                  /\ UNCHANGED <<link, session>> /\ Watch

RequestStep(q) ==
    \/ \E kind \in {"rendition", "refresh"}, s \in Sessions, d \in Devices :
          RequestArrives(q, kind, s, d)
    \/ RequestLoadsLink(q) \/ RequestLoadsSession(q) \/ RequestFindsFile(q) \/ RequestEnds(q)

-----------------------------------------------------------------------------
(* Administration, time and restarts                                       *)

CreateLink(offer) ==
    /\ ~link.exists /\ fileActive
    /\ link' = [NoLink EXCEPT !.exists = TRUE, !.active = TRUE, !.maxViews = offer.maxViews,
                              !.single = offer.single, !.otp = offer.otp,
                              !.approval = offer.approval]
    /\ UNCHANGED <<fileActive, session, open, req, restarts, proven>>
    /\ Watch

\* approveSession does not look at the link; where the link asks for no approval nothing
\* ever reads the flag.
ApproveSession(s) ==
    /\ session[s].exists /\ link.approval
    /\ session' = [session EXCEPT ![s].approved = TRUE]
    /\ UNCHANGED <<link, fileActive, open, req, restarts, proven>>
    /\ Watch

\* The two statements of revoke; a crash between them leaves the sessions as they are.
RevokeLink == /\ link.active
              /\ link' = [link EXCEPT !.active = FALSE]
              /\ UNCHANGED <<fileActive, session, open, req, restarts, proven>>
              /\ Watch

RevokeSessions ==
    /\ link.exists /\ ~link.active
    /\ session' = [s \in Sessions |-> IF session[s].exists
                                      THEN [session[s] EXCEPT !.dead = TRUE] ELSE session[s]]
    /\ UNCHANGED <<link, fileActive, open, req, restarts, proven>>
    /\ Watch

LinkExpires == /\ link.active
               /\ link' = [link EXCEPT !.expired = TRUE]
               /\ UNCHANGED <<fileActive, session, open, req, restarts, proven>>
               /\ Watch

\* OTP_TTL_MS and SESSION_TTL_MS run out.  A token is taken never to expire: it only lets
\* a rendition arrive, and what has to stop one is checked again.
TimePasses(s) ==
    /\ session[s].exists
    /\ \/ session' = [session EXCEPT ![s].code = FALSE]
       \/ session' = [session EXCEPT ![s].dead = TRUE]
    /\ UNCHANGED <<link, fileActive, open, req, restarts, proven>>
    /\ Watch

TrashOrRestore == /\ restarts < MaxRestarts
                  /\ restarts' = restarts + 1
                  /\ fileActive' = ~fileActive
                  /\ UNCHANGED <<link, session, open, req, proven>>
                  /\ Watch

Restart ==
    /\ restarts < MaxRestarts
    /\ restarts' = restarts + 1
    /\ open' = [o \in Opens |->
          OpenAt(open[o], IF open[o].pc \in Counted \ {"opened"} THEN "dropped"
                          ELSE IF open[o].pc \in Entering THEN "idle" ELSE open[o].pc)]
    /\ req' = [q \in Requests |-> NoRequest]
    /\ UNCHANGED <<link, fileActive, session, proven>>
    /\ Watch

Administer ==
    \/ \E offer \in Offers : CreateLink(offer)
    \/ \E s \in Sessions : ApproveSession(s) \/ TimePasses(s)
    \/ RevokeLink \/ RevokeSessions \/ LinkExpires \/ TrashOrRestore \/ Restart

Next == \/ \E o \in Opens : OpenStep(o)
        \/ \E q \in Requests : RequestStep(q)
        \/ Administer

Spec == Init /\ [][Next]_vars

-----------------------------------------------------------------------------
(* Properties                                                              *)

Charged == {o \in Opens : open[o].pc \in Counted}

\* Polls, verifications and starts that race for the last view: each that gets past its
\* claim is counted once, whatever happens to it afterwards, and no other is.
ViewsCountedOnce == link.used = Cardinality(Charged)

\* The link implements the counted-view promise of ViewQuota.
Quota == INSTANCE ViewQuota WITH
    Allowances <- {"link"}, Openings <- Opens,
    quotas  <- [a \in {"link"} |-> IF link.exists THEN {link.maxViews} ELSE {}],
    charged <- [a \in {"link"} |-> Charged]
QuotaSpec == Quota!Spec

\* A visitor comes to be counted only if nothing that forbids it (the link's revocation or
\* expiry, another bound device, a dead session, a missing code or approval) has stood
\* since his call arrived, on whichever of the three ways in he comes.
LetInOnlyWhenAllowed == \A o \in Opens : open[o].pc = "claim" => openBars[o] = {}

\* Revocation, expiry and the device lock take effect on every rendition and refresh that
\* arrives afterwards, even when a crash has cut the revocation in half.  The trash takes
\* effect on every rendition, with a token refreshed after it too; the refresh itself is not
\* refused.
ServedOnlyWhenAllowed ==
    \A q \in Requests : req[q].pc = "served" => reqBars[q] \cap BarsAsked(req[q].kind) = {}
=============================================================================
