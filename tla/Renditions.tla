------------------------------ MODULE Renditions ------------------------------
(***************************************************************************)
(* ViewingService makes what a viewer sees of one file: a base rendition   *)
(* cached per content and, over it, the watermark layers that WatermarkService *)
(* finds applicable, composed per request for an image and cached per      *)
(* session for a video.  Calls interleave at every await; a map in memory  *)
(* keeps two of them from making the same rendition at once.  Meanwhile    *)
(* administrators edit the templates, the file is moved, and the server    *)
(* may die: the cache directory and the tables survive, the map does not.  *)
(***************************************************************************)
EXTENDS Naturals, FiniteSets

CONSTANTS Views,      \* calls of viewImage, viewVideo or viewAudio under way
          Sessions,   \* viewing sessions of the file
          Templates,  \* WatermarkTemplate rows
          Admins,     \* calls of WatermarkController under way
          Null,       \* undefined
          GuestMark,  \* GUEST_WM
          Instances   \* bound: initial kind and asks, calls, changes and crashes in a behaviour

ASSUME RenditionAssumption ==
    /\ "base" \notin Sessions /\ Null \notin {"base"} \cup Sessions \cup Views
    /\ GuestMark \notin Templates
    /\ \A w \in SUBSET (Templates \cup {GuestMark}), s \in Sessions \cup {Null} :
          Null # [viewer |-> s, marks |-> w]
    /\ Instances \subseteq [kind : {"image", "video", "audio"},
                            asks : [Sessions -> {"scope", "link", "text", "none"}], views : SUBSET Views,
                            admins : SUBSET Admins, changes : Nat, crashes : Nat]

VARIABLES
    kind,      \* classify of the file's type: image (a page of a pdf too), video or audio
    asks,      \* what decides the marks of a session: scope (a user's), link, text or none (guests')
    place,     \* the folder of the file
    template,  \* the WatermarkTemplate rows
    admin,     \* the calls of WatermarkController
    opened,    \* the sessions that have been opened
    cache,     \* what lies in the cache directory under every name
    inflight,  \* ViewingService.inflight: the call whose production a name waits for
    view,      \* the calls
    lasting,   \* history: per session, templates that have covered the file all along
    gone,      \* history: per session, templates deleted before it was opened
    bounds,    \* the instance, the rest of which is constant
    changes,   \* administrator's calls and moves so far, at most bounds.changes
    crashes    \* crashes so far, at most bounds.crashes

settings  == <<kind, asks, bounds>>
ruleVars  == <<place, template, admin, changes>>
history   == <<opened, lasting, gone>>
diskVars  == <<cache, inflight>>
vars == <<settings, ruleVars, history, diskVars, view, crashes>>

Places == {"a", "b"}
Scopes == {{"a"}, Places}
Outs   == {"base"} \cup Sessions      \* <hash>/view.* and wm/<sid>.mp4
Base   == [viewer |-> Null, marks |-> {}]

Marked(s, w) == [viewer |-> s, marks |-> w]

NoView == [pc |-> "idle", session |-> Null, out |-> "base", owner |-> Null,
           context |-> Null, from |-> Null, marks |-> {}, made |-> Null, got |-> Null]
NoCall == [pc |-> "idle", t |-> Null, set |-> Null]

NoTemplate == [enabled |-> FALSE, deleted |-> FALSE, scope |-> {}]

\* applicableFor, over the context of the file that fileContext has read.
Covers(t, where) == /\ template[t].enabled /\ ~template[t].deleted
                    /\ where \in template[t].scope

ApplicableFor(where) == {t \in Templates : Covers(t, where)}

Init ==
    /\ bounds \in Instances /\ kind = bounds.kind /\ asks = bounds.asks
    /\ place = "a"
    /\ template \in [Templates -> {NoTemplate} \cup
                                 [enabled : {TRUE}, deleted : {FALSE}, scope : Scopes]]
    /\ admin = [c \in Admins |-> NoCall]
    /\ opened = {}
    /\ cache = [o \in Outs |-> Null] /\ inflight = [o \in Outs |-> Null]
    /\ view = [v \in Views |-> NoView]
    /\ lasting = [s \in Sessions |-> {}] /\ gone = [s \in Sessions |-> {}]
    /\ changes = 0 /\ crashes = 0

-----------------------------------------------------------------------------
(* Templates and the file's place                                          *)

\* The row is inserted with what the request says.
AdminCreatesTemplate ==
    /\ changes < bounds.changes /\ changes' = changes + 1
    /\ \E t \in Templates, e \in BOOLEAN, w \in Scopes :
          /\ template[t] = NoTemplate
          /\ template' = [template EXCEPT ![t] = [enabled |-> e, deleted |-> FALSE, scope |-> w]]
    /\ UNCHANGED <<settings, place, admin, history, diskVars, view, crashes>>

\* The columns that setEnabled, update and remove write; a logo covers nothing.
Writes == [enabled : BOOLEAN] \cup [scope : Scopes] \cup [enabled : BOOLEAN, scope : Scopes]
             \cup {[enabled |-> FALSE, deleted |-> TRUE]}

\* get: the row is there and not deleted.  setEnabled, update and remove begin so.
AdminFindsTemplate(c) ==
    /\ admin[c].pc = "idle" /\ c \in bounds.admins /\ changes < bounds.changes
    /\ \E t \in Templates, w \in Writes :
          /\ template[t] # NoTemplate /\ ~template[t].deleted
          /\ admin' = [admin EXCEPT ![c] = [pc |-> "write", t |-> t, set |-> w]]
    /\ changes' = changes + 1
    /\ UNCHANGED <<settings, place, template, history, diskVars, view, crashes>>

\* update by the id alone: a row deleted meanwhile is written all the same.
AdminWritesTemplate(c) ==
    LET t == admin[c].t
        w == admin[c].set
    IN  /\ admin[c].pc = "write"
        /\ template' = [template EXCEPT ![t] = [f \in DOMAIN @ |-> IF f \in DOMAIN w THEN w[f] ELSE @[f]]]
        /\ admin' = [admin EXCEPT ![c] = NoCall]
        /\ lasting' = [s \in Sessions |-> lasting[s] \ {t}]
        /\ UNCHANGED <<settings, place, changes, opened, gone, diskVars, view, crashes>>

\* A file's folder or tags change.
FileMoves ==
    /\ changes < bounds.changes /\ changes' = changes + 1
    /\ place' \in Places \ {place}
    /\ lasting' = [s \in Sessions |-> {}]
    /\ UNCHANGED <<settings, template, admin, opened, gone, diskVars, view, crashes>>

-----------------------------------------------------------------------------
(* cached                                                                  *)

Goes(v, pc) == view' = [view EXCEPT ![v].pc = pc]

\* exists(out): if it does, the caller goes on with the path.
CachedLooks(v) ==
    LET out == view[v].out
    IN  /\ view[v].pc = "look"
        /\ view' = [view EXCEPT ![v] =
              IF cache[out] = Null THEN [@ EXCEPT !.pc = "miss"]
              ELSE [@ EXCEPT !.pc = IF out = "base" THEN "based" ELSE "serve", !.from = out]]
        /\ UNCHANGED <<settings, ruleVars, history, diskVars, crashes>>

\* Faulty: whoever missed produces.
CachedAlwaysStarts(v) ==
    /\ view[v].pc = "miss"
    /\ inflight' = [inflight EXCEPT ![view[v].out] = v]
    /\ Goes(v, "make")
    /\ UNCHANGED <<settings, ruleVars, history, cache, crashes>>

\* inflight.get and inflight.set, with no await between them.
CachedJoinsOrStarts(v) ==
    LET out == view[v].out
    IN  /\ view[v].pc = "miss"
        /\ IF inflight[out] # Null
           THEN /\ view' = [view EXCEPT ![v].pc = "join", ![v].owner = inflight[out]]
                /\ UNCHANGED inflight
           ELSE /\ inflight' = [inflight EXCEPT ![out] = v]
                /\ Goes(v, "make")
        /\ UNCHANGED <<settings, ruleVars, history, cache, crashes>>

\* What the production writes: the re-encoded source, or the base under the layers.
Product(v) == IF view[v].out = "base" THEN Base ELSE Marked(view[v].session, view[v].marks)

\* mkdir and produce(tmp): magick, pdftoppm or ffmpeg, under a timeout; the layers of a
\* video are built first.  Every failure ends in the finally clause.
Produce(v) ==
    /\ view[v].pc = "make"
    /\ \/ view' = [view EXCEPT ![v].pc = "rename", ![v].made = Product(v)]
       \/ Goes(v, "clean")
    /\ UNCHANGED <<settings, ruleVars, history, diskVars, crashes>>

Rename(v) == /\ view[v].pc = "rename"
             /\ \/ /\ cache' = [cache EXCEPT ![view[v].out] = view[v].made]
                   /\ Goes(v, "clean")
                \/ /\ view' = [view EXCEPT ![v].pc = "clean", ![v].made = Null]
                   /\ UNCHANGED cache
             /\ UNCHANGED <<settings, ruleVars, history, inflight, crashes>>

Follows(v) == {x \in Views : x = v \/ (view[x].pc = "join" /\ view[x].owner = v)}

Resumed(v, x) ==
    IF view[v].made = Null THEN [NoView EXCEPT !.pc = "failed", !.session = view[x].session]
    ELSE [view[x] EXCEPT !.pc = IF view[x].out = "base" THEN "based" ELSE "serve",
                         !.from = view[x].out, !.owner = Null, !.made = Null]

\* Faulty: the name is freed only after a production that went well.
SettleIfMade(v) ==
    /\ view[v].pc = "clean"
    /\ inflight' = IF view[v].made = Null THEN inflight
                   ELSE [inflight EXCEPT ![view[v].out] = Null]
    /\ view' = [x \in Views |-> IF x \in Follows(v) THEN Resumed(v, x) ELSE view[x]]
    /\ UNCHANGED <<settings, ruleVars, history, cache, crashes>>

\* The temporary file is removed, the promise settles for everyone who awaits it, and the
\* caller that made it frees the name.
Settle(v) ==
    /\ view[v].pc = "clean"
    /\ inflight' = [inflight EXCEPT ![view[v].out] = Null]
    /\ view' = [x \in Views |-> IF x \in Follows(v) THEN Resumed(v, x) ELSE view[x]]
    /\ UNCHANGED <<settings, ruleVars, history, cache, crashes>>

-----------------------------------------------------------------------------
(* A view of the file in a session that was authorized                     *)

\* createSession, or a guest let in.
SessionOpens(s) ==
    /\ s \notin opened
    /\ opened' = opened \cup {s}
    /\ lasting' = [lasting EXCEPT ![s] = ApplicableFor(place)]
    /\ gone' = [gone EXCEPT ![s] = {t \in Templates : template[t].deleted}]
    /\ UNCHANGED <<settings, ruleVars, diskVars, view, crashes>>

ViewBegins(v) ==
    /\ view[v].pc = "idle" /\ v \in bounds.views
    /\ \E s \in opened :
          view' = [view EXCEPT ![v] = [NoView EXCEPT !.session = s,
                      !.pc = IF asks[s] = "link" THEN "context" ELSE "look",
                      !.marks = IF asks[s] = "text" THEN {GuestMark} ELSE {}]]
    /\ UNCHANGED <<settings, ruleVars, history, diskVars, crashes>>

\* fileContext: the file's folder and tags.  A link's marks are read before the base is made,
\* a user's after.
ReadsContext(v) ==
    /\ \/ view[v].pc = "context"
       \/ view[v].pc = "based" /\ kind # "audio" /\ asks[view[v].session] = "scope"
    /\ view' = [view EXCEPT ![v].pc = "templates", ![v].context = place]
    /\ UNCHANGED <<settings, ruleVars, history, diskVars, crashes>>

\* findMany over the enabled rows; a link without any gets GUEST_WM.
ReadsTemplates(v) ==
    LET found == ApplicableFor(view[v].context)
        guest == asks[view[v].session] = "link"
    IN  /\ view[v].pc = "templates"
        /\ view' = [view EXCEPT ![v].context = Null,
              ![v].pc = IF view[v].from = Null THEN "look" ELSE "resolved",
              ![v].marks = IF guest /\ found = {} THEN {GuestMark} ELSE found]
        /\ UNCHANGED <<settings, ruleVars, history, diskVars, crashes>>

\* A link's marks were passed on, its own text among them, and one without any passes null.
NeedsNoTemplates(v) ==
    /\ view[v].pc = "based" /\ (kind = "audio" \/ asks[view[v].session] # "scope")
    /\ Goes(v, IF kind = "audio" THEN "serve" ELSE "resolved")
    /\ UNCHANGED <<settings, ruleVars, history, diskVars, crashes>>

\* Faulty: the watermarked video is kept once for the file.
ChoosesSharedVideo(v) ==
    /\ view[v].pc = "resolved"
    /\ view' = [view EXCEPT ![v].pc = IF view[v].marks = {} THEN "serve"
                                      ELSE IF kind = "image" THEN "compose" ELSE "look",
                            ![v].out = CHOOSE s \in Sessions : TRUE]
    /\ UNCHANGED <<settings, ruleVars, history, diskVars, crashes>>

\* Without layers the base is served; an image is composed, a video made under the session's id.
Chooses(v) ==
    /\ view[v].pc = "resolved"
    /\ view' = [view EXCEPT ![v] =
          IF view[v].marks = {} THEN [@ EXCEPT !.pc = "serve"]
          ELSE IF kind = "image" THEN [@ EXCEPT !.pc = "compose"]
          ELSE [@ EXCEPT !.pc = "look", !.out = view[v].session]]
    /\ UNCHANGED <<settings, ruleVars, history, diskVars, crashes>>

\* The layers are built and laid over the base, for this request alone.
Composes(v) ==
    /\ view[v].pc = "compose"
    /\ \/ view' = [view EXCEPT ![v] = [NoView EXCEPT !.pc = "served", !.session = view[v].session,
                                          !.got = Marked(view[v].session, view[v].marks)]]
       \/ view' = [view EXCEPT ![v] = [NoView EXCEPT !.pc = "failed", !.session = view[v].session]]
    /\ UNCHANGED <<settings, ruleVars, history, diskVars, crashes>>

\* createReadStream(path): whatever lies there now.
Streams(v) ==
    /\ view[v].pc = "serve"
    /\ view' = [view EXCEPT ![v] = [NoView EXCEPT !.pc = "served", !.session = view[v].session,
                                       !.got = cache[view[v].from]]]
    /\ UNCHANGED <<settings, ruleVars, history, diskVars, crashes>>

Forgets(v) == /\ view[v].pc \in {"served", "failed"}
              /\ view' = [view EXCEPT ![v] = NoView]
              /\ UNCHANGED <<settings, ruleVars, history, diskVars, crashes>>

\* Calls and the map are gone; temporary files stay behind under names nobody asks for.
Crash == /\ crashes < bounds.crashes /\ crashes' = crashes + 1
         /\ inflight' = [o \in Outs |-> Null]
         /\ view' = [v \in Views |-> NoView]
         /\ admin' = [c \in Admins |-> NoCall]
         /\ UNCHANGED <<settings, place, template, changes, history, cache>>

-----------------------------------------------------------------------------

Step(v) == \/ CachedLooks(v) \/ CachedJoinsOrStarts(v) \/ Produce(v) \/ Rename(v) \/ Settle(v)
           \/ ReadsContext(v) \/ ReadsTemplates(v) \/ NeedsNoTemplates(v) \/ Chooses(v)
           \/ Composes(v) \/ Streams(v)

Next == \/ \E c \in Admins : AdminFindsTemplate(c) \/ AdminWritesTemplate(c)
        \/ AdminCreatesTemplate
        \/ \E s \in Sessions : SessionOpens(s)
        \/ \E v \in Views : ViewBegins(v) \/ Step(v) \/ Forgets(v)
        \/ FileMoves \/ Crash

Spec == Init /\ [][Next]_vars

\* Every tool runs under a timeout and every other await is answered.
FairSpec == Spec /\ \A v \in Views : WF_vars(Step(v))

-----------------------------------------------------------------------------
(* Properties                                                              *)

Producing(v) == view[v].pc \in {"make", "rename", "clean"}

\* viewing.service.ts:255 promises that no rendition is made twice at the same time, although
\* the call that finds no file asks only later who is making it; and a name is never left
\* waiting for a production that is over, so what failed can be tried again.
OneProduction ==
    \A o \in Outs :
        /\ \A v, x \in Views :
              Producing(v) /\ Producing(x) /\ view[v].out = o /\ view[x].out = o => v = x
        /\ inflight[o] # Null => Producing(inflight[o]) /\ view[inflight[o]].out = o

\* What is served is there, bears the viewer's own mark, and carries every template that has
\* covered the file since the session was opened and none deleted before; a guest whose link
\* asks for a mark never gets a bare copy.  All of it although templates change while the
\* base is made, videos are kept for the session, and joined productions began earlier.
ServedAsRuled ==
    \A v \in Views :
        view[v].pc = "served" =>
            LET got == view[v].got
                s   == view[v].session
            IN  /\ got # Null
                /\ got.marks # {} => got.viewer = s
                /\ got.marks \cap gone[s] = {}
                /\ kind # "audio" /\ asks[s] \in {"scope", "link"} => lasting[s] \subseteq got.marks
                /\ kind # "audio" /\ asks[s] \in {"link", "text"} => got.marks # {}

\* Every view comes to an end, also one that waits for another's production, whether
\* that succeeds, fails or dies with the server.
EveryViewEnds == \A v \in Views : view[v].pc = "look" ~> view[v].pc \in {"served", "failed", "idle"}
=============================================================================
