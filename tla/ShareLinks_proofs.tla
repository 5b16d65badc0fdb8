--------------------------- MODULE ShareLinks_proofs ---------------------------
(***************************************************************************)
(* Theorems about ShareLinks, for any number of browsers, sessions,        *)
(* openings, requests and restarts, and every kind of link.                *)
(***************************************************************************)
EXTENDS ShareLinks, FiniteSetTheorems, TLAPS

Browsers    == Devices \cup {Null}
OpenPCs     == {"idle"} \cup Entering \cup Counted
RequestPCs  == {"idle", "link", "session", "file", "served"}
LinkRow     == [exists : BOOLEAN, active : BOOLEAN, expired : BOOLEAN, maxViews : 0..MaxQuota,
                used : Nat, bound : Browsers, single : BOOLEAN, otp : BOOLEAN, approval : BOOLEAN]
SessionRow  == [exists : BOOLEAN, verified : BOOLEAN, approved : BOOLEAN, dead : BOOLEAN,
                code : BOOLEAN, attempts : Nat, token : BOOLEAN]
OpenRow     == [pc : OpenPCs, kind : Kinds \cup {"none"}, session : Sessions \cup {Null},
                device : Browsers, bound : Browsers, approved : BOOLEAN]
RequestRow  == [pc : RequestPCs, kind : {"none", "rendition", "refresh"},
                session : Sessions \cup {Null}, device : Browsers, bound : Browsers]

\* The state keeps its types.
TypeOK ==
    /\ link \in LinkRow /\ fileActive \in BOOLEAN
    /\ session \in [Sessions -> SessionRow]
    /\ open \in [Opens -> OpenRow]
    /\ req \in [Requests -> RequestRow]
    /\ proven \subseteq Sessions

\* A session belongs to a link, and counts as verified only by a code if the link asks for one.
SessionKnown(s) ==
    /\ session[s].exists => link.exists
    /\ session[s].verified \/ session[s].approved => session[s].exists
    /\ session[s].verified /\ link.otp => s \in proven

\* What an opening has read and shown, by the statement it runs next.
OpenSound(o) ==
    LET c == open[o]
    IN  /\ c.pc \notin {"idle", "link"} => link.exists
        /\ c.pc = "create" \/ (c.pc = "link" /\ c.kind = "start") => c.session = Null
        /\ c.pc = "link" /\ c.kind # "start" => c.session # Null
        /\ c.pc \in {"session", "send", "miss", "prove", "claim", "bind", "mark", "file"}
              => c.session # Null
        /\ c.session # Null => session[c.session].exists
        /\ c.pc = "prove" /\ c.approved => session[c.session].approved
        /\ c.pc \in {"claim", "bind", "mark", "file"} /\ link.otp => c.session \in proven

RequestSound(q) ==
    /\ req[q].pc # "idle" => req[q].session # Null
    /\ req[q].pc \notin {"idle", "link"} => link.exists

WayInv == /\ TypeOK
          /\ link.active => link.exists
          /\ \A s \in Sessions : SessionKnown(s)
          /\ \A o \in Opens : OpenSound(o)
          /\ \A q \in Requests : RequestSound(q)

-----------------------------------------------------------------------------
(* Ways in                                                                 *)

\* What only grows: the link keeps its conditions, sessions and approvals stay, and a code
\* that was entered was entered.
Grows ==
    /\ link.exists => /\ link'.exists
                      /\ link'.single = link.single /\ link'.otp = link.otp
                      /\ link'.approval = link.approval
    /\ \A s \in Sessions : /\ session[s].exists => session'[s].exists
                           /\ session[s].approved => session'[s].approved
    /\ proven \subseteq proven'

\* A call that is not moved keeps what it has shown, as long as the rest only grows.
LEMMA OpenStays ==
    ASSUME WayInv, Grows, NEW o \in Opens, open'[o] = open[o]
    PROVE  OpenSound(o)'
<1>1. OpenSound(o) /\ open[o] \in OpenRow  BY DEF WayInv, TypeOK
<1>2. open[o].session \in Sessions \cup {Null}  BY <1>1 DEF OpenRow
<1>3. open[o].pc \notin {"idle", "link"} => link.exists  BY <1>1 DEF OpenSound
<1> QED BY <1>1, <1>2, <1>3 DEF OpenSound, Grows

\* A call that has ended has nothing to show but that there is a link.
LEMMA OpenEnds ==
    ASSUME NEW o \in Opens, open'[o] = [NoOpen EXCEPT !.pc = open'[o].pc],
           open'[o].pc \in {"idle", "opened", "dropped"},
           open'[o].pc # "idle" => link'.exists
    PROVE  OpenSound(o)'
BY ShareAssumption DEF OpenSound, NoOpen

\* OpenAt gives a row of a call, and keeps what it names.
LEMMA OpenAtRow ==
    ASSUME NEW row \in OpenRow, NEW pc \in OpenPCs
    PROVE  OpenAt(row, pc) \in OpenRow /\ OpenAt(row, pc).pc = pc
<1>1. CASE pc \in {"idle", "opened", "dropped"}
  BY <1>1 DEF OpenAt, OpenRow, NoOpen, Browsers
<1>2. CASE pc \notin {"idle", "opened", "dropped"}
  <2> DEFINE kind == IF pc = "session" THEN row.kind ELSE "none"
             appr == IF pc = "prove" THEN row.approved ELSE FALSE
  <2>1. kind \in Kinds \cup {"none"} /\ appr \in BOOLEAN  BY DEF OpenRow
  <2>2. OpenAt(row, pc) = [row EXCEPT !.pc = pc, !.kind = kind, !.approved = appr]
    BY <1>2 DEF OpenAt, OpenRow
  <2> HIDE DEF kind, appr
  <2> QED BY <2>1, <2>2 DEF OpenRow
<1> QED BY <1>1, <1>2

LEMMA OpenAtEnd ==
    ASSUME NEW row \in OpenRow, NEW pc \in {"idle", "opened", "dropped"}
    PROVE  OpenAt(row, pc) = [NoOpen EXCEPT !.pc = pc] /\ OpenAt(row, pc).pc = pc
BY DEF OpenAt, NoOpen

LEMMA OpenAtNext ==
    ASSUME NEW row \in OpenRow, NEW pc \in OpenPCs \ {"idle", "opened", "dropped"}
    PROVE  /\ OpenAt(row, pc).pc = pc
           /\ OpenAt(row, pc).session = row.session
           /\ OpenAt(row, pc).device = row.device
           /\ OpenAt(row, pc).bound = row.bound
           /\ pc = "session" => OpenAt(row, pc).kind = row.kind
           /\ pc # "session" => OpenAt(row, pc).kind = "none"
           /\ pc = "prove" => OpenAt(row, pc).approved = row.approved
BY DEF OpenAt, OpenRow

\* How a statement moves its call.
LEMMA OpenGoesTyped ==
    ASSUME TypeOK, NEW o \in Opens, NEW from, NEW to \in OpenPCs, OpenGoes(o, from, to)
    PROVE  /\ open[o].pc = from /\ open'[o] = OpenAt(open[o], to)
           /\ open' \in [Opens -> OpenRow]
           /\ \A x \in Opens \ {o} : open'[x] = open[x]
<1> DEFINE row == OpenAt(open[o], to)
<1>1. row \in OpenRow  BY OpenAtRow DEF TypeOK
<1>2. open' = [open EXCEPT ![o] = row]  BY DEF OpenGoes
<1>3. open[o].pc = from  BY DEF OpenGoes
<1> HIDE DEF row
<1>4. open'[o] = row /\ open' \in [Opens -> OpenRow] /\ \A x \in Opens \ {o} : open'[x] = open[x]
  BY <1>1, <1>2 DEF TypeOK
<1> QED BY <1>3, <1>4 DEF row

LEMMA PCsNamed ==
    /\ {"idle", "link", "create", "session", "send", "miss", "prove", "claim", "bind", "mark",
        "file", "opened", "dropped"} = OpenPCs
    /\ \A o \in Opens : EntryPc(o) \in {"claim", "idle"}
BY DEF OpenPCs, Entering, Counted, EntryPc

\* A statement of a call moves its own row and no other.
LEMMA OpenStepMoves ==
    ASSUME WayInv, NEW o \in Opens, OpenStep(o)
    PROVE  /\ open' \in [Opens -> OpenRow]
           /\ \A x \in Opens \ {o} : open'[x] = open[x]
           /\ UNCHANGED <<fileActive, req>>
           /\ Watch
<1> USE PCsNamed
<1>0. TypeOK /\ OpenSound(o)  BY DEF WayInv
<1>r. open[o] \in OpenRow  BY <1>0 DEF TypeOK
<1>w. UNCHANGED <<fileActive, req>> /\ Watch
  BY DEF OpenStep, OpenArrives, OpenLoadsLink, OpenCreatesSession, OpenLoadsSession, OpenSendsCode,
     OpenMisses, OpenProves, OpenClaims, OpenBinds, OpenMarks, OpenFindsFile, OpenGoes
<1>m. ASSUME NEW row \in OpenRow, open' = [open EXCEPT ![o] = row]
      PROVE  open' \in [Opens -> OpenRow] /\ \A x \in Opens \ {o} : open'[x] = open[x]
  BY <1>0, <1>m DEF TypeOK
<1>1. ASSUME NEW kind \in Kinds, NEW s \in Sessions \cup {Null}, NEW d \in Devices,
             OpenArrives(o, kind, s, d)
      PROVE  open' \in [Opens -> OpenRow] /\ \A x \in Opens \ {o} : open'[x] = open[x]
  <2> DEFINE row == [NoOpen EXCEPT !.pc = "link", !.kind = kind, !.session = s, !.device = d]
  <2>1. row \in OpenRow  BY DEF NoOpen, OpenRow, Browsers
  <2>2. open' = [open EXCEPT ![o] = row]  BY <1>1 DEF OpenArrives
  <2> HIDE DEF row
  <2> QED BY <1>m, <2>1, <2>2
<1>2. CASE OpenLoadsLink(o)
  <2> DEFINE read == [open[o] EXCEPT !.bound = link.bound]
  <2>1. read \in OpenRow  BY <1>0, <1>r DEF TypeOK, LinkRow, OpenRow
  <2>2. PICK pc \in OpenPCs : open' = [open EXCEPT ![o] = OpenAt(read, pc)]
    BY <1>2 DEF OpenLoadsLink
  <2> HIDE DEF read
  <2> QED BY <1>m, <1>w, <2>1, <2>2, OpenAtRow
<1>3. CASE OpenCreatesSession(o)
  <2>1. PICK s \in Sessions, pc \in OpenPCs :
           open' = [open EXCEPT ![o] = OpenAt([open[o] EXCEPT !.session = s], pc)]
    BY <1>3 DEF OpenCreatesSession
  <2> DEFINE row == [open[o] EXCEPT !.session = s]
  <2>2. row \in OpenRow  BY <1>r DEF OpenRow
  <2>3. open' = [open EXCEPT ![o] = OpenAt(row, pc)]  BY <2>1
  <2> HIDE DEF row
  <2> QED BY <1>m, <1>w, <2>2, <2>3, OpenAtRow
<1>4. CASE OpenLoadsSession(o)
  <2> DEFINE row == [open[o] EXCEPT !.approved = session[open[o].session].approved]
  <2>1. open[o].session \in Sessions
    BY <1>0, <1>r, <1>4 DEF OpenLoadsSession, OpenSound, OpenRow
  <2>2. session[open[o].session].approved \in BOOLEAN  BY <1>0, <2>1 DEF TypeOK, SessionRow
  <2>3. row \in OpenRow  BY <1>r, <2>2 DEF OpenRow
  <2>4. PICK pc \in OpenPCs : open' = [open EXCEPT ![o] = OpenAt(row, pc)]
    BY <1>4 DEF OpenLoadsSession
  <2> HIDE DEF row
  <2> QED BY <1>m, <1>w, <2>3, <2>4, OpenAtRow
<1>5. CASE OpenSendsCode(o) \/ OpenMisses(o)
  BY <1>0, <1>w, <1>5, OpenGoesTyped DEF OpenSendsCode, OpenMisses
<1>6. CASE OpenProves(o)
  BY <1>0, <1>w, <1>6, OpenGoesTyped DEF OpenProves
<1>7. CASE OpenClaims(o)
  BY <1>0, <1>w, <1>7, OpenGoesTyped DEF OpenClaims
<1>8. CASE OpenBinds(o) \/ OpenMarks(o)
  BY <1>0, <1>w, <1>8, OpenGoesTyped DEF OpenBinds, OpenMarks
<1>9. CASE OpenFindsFile(o)
  BY <1>0, <1>w, <1>9, OpenGoesTyped DEF OpenFindsFile
<1> QED BY <1>1, <1>2, <1>3, <1>4, <1>5, <1>6, <1>7, <1>8, <1>9, <1>w DEF OpenStep

\* What every step keeps of the rows.
Kept ==
    /\ link' \in LinkRow /\ session' \in [Sessions -> SessionRow] /\ proven' \subseteq Sessions
    /\ Grows
    /\ link'.active => link'.exists
    /\ \A s \in Sessions : SessionKnown(s)'

\* A step that writes the link's row, and none of its conditions once it is there.
LEMMA LinkWritten ==
    ASSUME WayInv, link' \in LinkRow, link'.active => link'.exists,
           link.exists => /\ link'.exists
                          /\ link'.single = link.single /\ link'.otp = link.otp
                          /\ link'.approval = link.approval,
           UNCHANGED <<session, proven>>
    PROVE  Kept
<1>1. ASSUME NEW s \in Sessions  PROVE SessionKnown(s)'
  BY DEF WayInv, SessionKnown
<1> QED BY <1>1 DEF Kept, Grows, WayInv, TypeOK

\* A step that writes one session's row.
LEMMA SessionWritten ==
    ASSUME WayInv, NEW s \in Sessions, NEW row \in SessionRow,
           session' = [session EXCEPT ![s] = row], UNCHANGED link,
           proven \subseteq proven', proven' \subseteq Sessions,
           session[s].exists => row.exists,
           session[s].approved => row.approved,
           row.exists => link.exists,
           row.verified \/ row.approved => row.exists,
           row.verified /\ link.otp => s \in proven'
    PROVE  Kept
<1>0. session \in [Sessions -> SessionRow] /\ link \in LinkRow  BY DEF WayInv, TypeOK
<1>1. ASSUME NEW x \in Sessions
      PROVE  /\ SessionKnown(x)'
             /\ session[x].exists => session'[x].exists
             /\ session[x].approved => session'[x].approved
  <2>1. CASE x = s
    BY <1>0, <2>1 DEF SessionKnown
  <2>2. CASE x # s
    BY <1>0, <2>2 DEF WayInv, SessionKnown
  <2> QED BY <2>1, <2>2
<1>2. session' \in [Sessions -> SessionRow]  BY <1>0
<1> QED BY <1>0, <1>1, <1>2 DEF Kept, Grows, WayInv

\* A statement of a call keeps the rows.
LEMMA OpenStepKeeps ==
    ASSUME WayInv, NEW o \in Opens, OpenStep(o)
    PROVE  Kept
<1>0. TypeOK /\ OpenSound(o) /\ open[o] \in OpenRow  BY DEF WayInv, TypeOK
<1>s. \A s \in Sessions : session[s] \in SessionRow /\ SessionKnown(s)  BY DEF WayInv, TypeOK
<1>l. link \in LinkRow /\ (link.active => link.exists)  BY DEF WayInv, TypeOK
<1> DEFINE s == open[o].session
<1>k. open[o].pc \in {"session", "send", "miss", "prove", "claim", "bind", "mark", "file"}
         => s \in Sessions /\ session[s].exists /\ link.exists
  BY <1>0 DEF OpenSound, OpenRow
<1>1. CASE UNCHANGED <<link, session, proven>>
  BY <1>1, <1>l, LinkWritten
<1>2. CASE OpenCreatesSession(o)
  <2> DEFINE row == [NoSession EXCEPT !.exists = TRUE]
  <2>1. PICK n \in Sessions : ~session[n].exists /\ session' = [session EXCEPT ![n] = row]
    BY <1>2 DEF OpenCreatesSession
  <2>2. row \in SessionRow /\ row.exists /\ ~row.verified /\ ~row.approved
    BY DEF NoSession, SessionRow
  <2>3. ~session[n].approved  BY <1>s, <2>1 DEF SessionKnown
  <2>4. link.exists  BY <1>0, <1>2 DEF OpenCreatesSession, OpenSound
  <2>5. UNCHANGED <<link, proven>> /\ proven \subseteq Sessions
    BY <1>0, <1>2 DEF OpenCreatesSession, TypeOK
  <2> HIDE DEF row
  <2> QED BY <2>1, <2>2, <2>3, <2>4, <2>5, SessionWritten
<1>3. CASE OpenSendsCode(o)
  <2> DEFINE row == [session[s] EXCEPT !.code = TRUE, !.attempts = 0]
  <2>1. s \in Sessions /\ session[s].exists /\ link.exists /\ UNCHANGED <<link, proven>>
    BY <1>3, <1>k DEF OpenSendsCode, OpenGoes
  <2>2. session' = [session EXCEPT ![s] = row]  BY <1>3, <1>s, <2>1 DEF OpenSendsCode
  <2>3. /\ row \in SessionRow /\ row.exists = session[s].exists
        /\ row.verified = session[s].verified /\ row.approved = session[s].approved
    BY <1>s, <2>1 DEF SessionRow
  <2> HIDE DEF row
  <2> QED BY <1>0, <1>s, <2>1, <2>2, <2>3, SessionWritten DEF SessionKnown, TypeOK
<1>4. CASE OpenMisses(o)
  <2> DEFINE row == [session[s] EXCEPT !.attempts = @ + 1]
  <2>1. s \in Sessions /\ session[s].exists /\ link.exists /\ UNCHANGED <<link, proven>>
    BY <1>4, <1>k DEF OpenMisses, OpenGoes
  <2>2. session' = [session EXCEPT ![s] = row]  BY <1>4, <2>1 DEF OpenMisses
  <2>3. /\ row \in SessionRow /\ row.exists = session[s].exists
        /\ row.verified = session[s].verified /\ row.approved = session[s].approved
    <3>1. session[s] \in SessionRow  BY <1>s, <2>1
    <3>2. session[s].attempts + 1 \in Nat  BY <3>1 DEF SessionRow
    <3> QED BY <3>1, <3>2 DEF SessionRow
  <2> HIDE DEF row
  <2> QED BY <1>0, <1>s, <2>1, <2>2, <2>3, SessionWritten DEF SessionKnown, TypeOK
<1>5. CASE OpenProves(o)
  <2> DEFINE row == [session[s] EXCEPT !.verified = TRUE, !.code = FALSE]
  <2>1. /\ s \in Sessions /\ session[s].exists /\ link.exists /\ UNCHANGED link
        /\ proven' = proven \cup {s}
    BY <1>5, <1>k DEF OpenProves, OpenGoes
  <2>2. session' = [session EXCEPT ![s] = row]  BY <1>5, <1>s, <2>1 DEF OpenProves
  <2>3. /\ row \in SessionRow /\ row.exists = session[s].exists
        /\ row.approved = session[s].approved
    BY <1>s, <2>1 DEF SessionRow
  <2> HIDE DEF row
  <2> QED BY <1>0, <1>s, <2>1, <2>2, <2>3, SessionWritten DEF SessionKnown, TypeOK
<1>6. CASE OpenClaims(o)
  <2>1. /\ link' = link \/ link' = [link EXCEPT !.used = @ + 1]
        /\ UNCHANGED <<session, proven>>
    BY <1>6 DEF OpenClaims
  <2> QED BY <1>l, <2>1, LinkWritten DEF LinkRow
<1>7. CASE OpenBinds(o)
  <2>1. link' = [link EXCEPT !.bound = open[o].device] /\ UNCHANGED <<session, proven>>
    BY <1>7 DEF OpenBinds
  <2>2. open[o].device \in Browsers  BY <1>0 DEF OpenRow
  <2> QED BY <1>l, <2>1, <2>2, LinkWritten DEF LinkRow
<1>8. CASE OpenMarks(o)
  <2> DEFINE row == [session[s] EXCEPT !.verified = TRUE]
  <2>1. s \in Sessions /\ session[s].exists /\ link.exists /\ UNCHANGED <<link, proven>>
    BY <1>8, <1>k DEF OpenMarks, OpenGoes
  <2>2. session' = [session EXCEPT ![s] = row]  BY <1>8, <2>1 DEF OpenMarks
  <2>3. /\ row \in SessionRow /\ row.exists = session[s].exists
        /\ row.approved = session[s].approved
    BY <1>s, <2>1 DEF SessionRow
  <2>4. link.otp => s \in proven  BY <1>0, <1>8 DEF OpenSound, OpenMarks, OpenGoes
  <2> HIDE DEF row
  <2> QED BY <1>0, <1>s, <2>1, <2>2, <2>3, <2>4, SessionWritten DEF SessionKnown, TypeOK
<1>9. CASE OpenFindsFile(o)
  <2> DEFINE row == [session[s] EXCEPT !.token = TRUE]
  <2>1. s \in Sessions /\ session[s].exists /\ link.exists /\ UNCHANGED <<link, proven>>
    BY <1>9, <1>k DEF OpenFindsFile, OpenGoes
  <2>2. UNCHANGED session \/ session' = [session EXCEPT ![s] = row]
    BY <1>9, <2>1 DEF OpenFindsFile
  <2>3. /\ row \in SessionRow /\ row.exists = session[s].exists
        /\ row.verified = session[s].verified /\ row.approved = session[s].approved
    BY <1>s, <2>1 DEF SessionRow
  <2> HIDE DEF row
  <2> QED BY <1>0, <1>1, <1>s, <2>1, <2>2, <2>3, SessionWritten DEF SessionKnown, TypeOK
<1> HIDE DEF s
<1>10. OpenStep(o) => \/ UNCHANGED <<link, session, proven>>
                      \/ OpenCreatesSession(o) \/ OpenSendsCode(o) \/ OpenMisses(o) \/ OpenProves(o)
                      \/ OpenClaims(o) \/ OpenBinds(o) \/ OpenMarks(o) \/ OpenFindsFile(o)
  BY DEF OpenStep, OpenArrives, OpenLoadsLink, OpenLoadsSession
<1> QED BY <1>1, <1>2, <1>3, <1>4, <1>5, <1>6, <1>7, <1>8, <1>9, <1>10

\* What a call goes on with, it has read or shown.
LEMMA OpenStepSound ==
    ASSUME WayInv, NEW o \in Opens, OpenStep(o), Kept
    PROVE  OpenSound(o)'
<1> USE PCsNamed
<1>0. TypeOK /\ OpenSound(o) /\ open[o] \in OpenRow  BY DEF WayInv, TypeOK
<1>l. link.active => link.exists  BY DEF WayInv
<1>g. Grows  BY DEF Kept
<1> DEFINE s == open[o].session
<1>k. open[o].pc \in {"session", "send", "miss", "prove", "claim", "bind", "mark", "file"}
         => s \in Sessions /\ session[s].exists /\ link.exists
  BY <1>0 DEF OpenSound, OpenRow
<1>e. ASSUME open'[o] = [NoOpen EXCEPT !.pc = "idle"]  PROVE OpenSound(o)'
  BY <1>e, OpenEnds DEF NoOpen
\* A call that goes on in its session, of the link it has found.
<1>c. ASSUME NEW to \in OpenPCs \ {"idle", "link", "create", "opened", "dropped"},
             NEW row \in OpenRow, open'[o] = OpenAt(row, to),
             row.session = s, link.exists, s \in Sessions, session[s].exists,
             to = "prove" /\ row.approved => session[s].approved,
             to \in {"claim", "bind", "mark", "file"} /\ link.otp => s \in proven'
      PROVE  OpenSound(o)'
  <2>1. /\ open'[o].pc = to /\ open'[o].session = s
        /\ to = "prove" => open'[o].approved = row.approved
    BY <1>c, OpenAtNext
  <2>2. link'.exists /\ link'.otp = link.otp /\ session'[s].exists
        /\ (session[s].approved => session'[s].approved)
    BY <1>c, <1>g DEF Grows
  <2> HIDE DEF s
  <2> QED BY <1>c, <2>1, <2>2, ShareAssumption DEF OpenSound
<1>1. ASSUME NEW kind \in Kinds, NEW x \in Sessions \cup {Null}, NEW d \in Devices,
             OpenArrives(o, kind, x, d)
      PROVE  OpenSound(o)'
  <2>1. /\ open'[o] = [NoOpen EXCEPT !.pc = "link", !.kind = kind, !.session = x, !.device = d]
        /\ IF kind = "start" THEN x = Null ELSE x # Null /\ session[x].exists
    BY <1>0, <1>1 DEF OpenArrives, TypeOK
  <2>2. open'[o].pc = "link" /\ open'[o].kind = kind /\ open'[o].session = x
    BY <2>1 DEF NoOpen
  <2>3. x # Null => x \in Sessions /\ session'[x].exists
    BY <1>g, <2>1 DEF Grows
  <2> QED BY <2>1, <2>2, <2>3 DEF OpenSound
<1>2. CASE OpenLoadsLink(o)
  <2> DEFINE read == [open[o] EXCEPT !.bound = link.bound]
  <2>0. read \in OpenRow /\ read.session = s /\ read.kind = open[o].kind
    BY <1>0 DEF TypeOK, LinkRow, OpenRow
  <2>1. /\ open[o].pc = "link"
        /\ \/ open'[o] = OpenAt(read, "idle")
           \/ open'[o] = OpenAt(read, "create") /\ open[o].kind = "start" /\ link.active
           \/ open'[o] = OpenAt(read, "session") /\ open[o].kind # "start" /\ link.active
    BY <1>0, <1>2 DEF OpenLoadsLink, TypeOK
  <2> HIDE DEF read
  <2>2. CASE open'[o] = OpenAt(read, "idle")
    BY <1>e, <2>0, <2>2, OpenAtEnd
  <2>3. CASE open'[o] = OpenAt(read, "create") /\ open[o].kind = "start" /\ link.active
    <3>1. open'[o].pc = "create" /\ open'[o].session = s  BY <2>0, <2>3, OpenAtNext
    <3>2. s = Null  BY <1>0, <2>1, <2>3 DEF OpenSound
    <3>3. link'.exists  BY <1>g, <1>l, <2>3 DEF Grows
    <3> QED BY <3>1, <3>2, <3>3 DEF OpenSound
  <2>4. CASE open'[o] = OpenAt(read, "session") /\ open[o].kind # "start" /\ link.active
    <3>1. s # Null /\ session[s].exists /\ s \in Sessions
      BY <1>0, <2>1, <2>4 DEF OpenSound, OpenRow
    <3> QED BY <1>c, <1>l, <2>0, <2>4, <3>1
  <2> QED BY <2>1, <2>2, <2>3, <2>4
<1>3. CASE OpenCreatesSession(o)
  <2>1. PICK n \in Sessions :
           /\ session' = [session EXCEPT ![n] = [NoSession EXCEPT !.exists = TRUE]]
           /\ open' = [open EXCEPT ![o] = OpenAt([@ EXCEPT !.session = n],
                                 IF link.otp \/ link.approval THEN "idle" ELSE EntryPc(o))]
    BY <1>3 DEF OpenCreatesSession
  <2> DEFINE row == [open[o] EXCEPT !.session = n]
             to  == IF link.otp \/ link.approval THEN "idle" ELSE EntryPc(o)
  <2>2. row \in OpenRow /\ row.session = n  BY <1>0 DEF OpenRow
  <2>3. open'[o] = OpenAt(row, to)  BY <1>0, <2>1 DEF TypeOK
  <2>4. to = "idle" \/ (to = "claim" /\ ~link.otp)  OBVIOUS
  <2> HIDE DEF row, to
  <2>5. CASE to = "idle"
    BY <1>e, <2>2, <2>3, <2>5, OpenAtEnd
  <2>6. CASE to = "claim" /\ ~link.otp
    <3>1. open'[o].pc = "claim" /\ open'[o].session = n  BY <2>2, <2>3, <2>6, OpenAtNext
    <3>2. session'[n].exists  BY <1>0, <2>1 DEF TypeOK, NoSession
    <3>3. link'.exists /\ ~link'.otp
      BY <1>0, <1>3, <1>g, <2>6 DEF OpenCreatesSession, OpenSound, Grows
    <3> QED BY <3>1, <3>2, <3>3, ShareAssumption DEF OpenSound
  <2> QED BY <2>4, <2>5, <2>6
<1>4. CASE OpenLoadsSession(o)
  <2> DEFINE row == [open[o] EXCEPT !.approved = session[s].approved]
  <2>0. s \in Sessions /\ session[s].exists /\ link.exists /\ open[o].pc = "session"
    BY <1>4, <1>k DEF OpenLoadsSession
  <2>1. row \in OpenRow /\ row.session = s /\ row.approved = session[s].approved
    BY <1>0, <2>0 DEF TypeOK, SessionRow, OpenRow
  <2>2. \/ open'[o] = OpenAt(row, "idle") \/ open'[o] = OpenAt(row, "send")
        \/ open'[o] = OpenAt(row, "prove") \/ open'[o] = OpenAt(row, "miss")
        \/ open'[o] = OpenAt(row, "claim") /\ (link.otp => session[s].verified)
    BY <1>0, <1>4 DEF OpenLoadsSession, TypeOK, Admitted
  <2>3. session[s].verified /\ link.otp => s \in proven'
    BY <1>g, <2>0 DEF WayInv, SessionKnown, Grows
  <2> HIDE DEF row, s
  <2>4. CASE open'[o] = OpenAt(row, "idle")
    BY <1>e, <2>1, <2>4, OpenAtEnd
  <2>5. CASE \/ open'[o] = OpenAt(row, "send") \/ open'[o] = OpenAt(row, "prove")
             \/ open'[o] = OpenAt(row, "miss")
    BY <1>c, <2>0, <2>1, <2>5
  <2>6. CASE open'[o] = OpenAt(row, "claim") /\ (link.otp => session[s].verified)
    BY <1>c, <2>0, <2>1, <2>3, <2>6
  <2> QED BY <2>2, <2>4, <2>5, <2>6
<1>5. CASE OpenSendsCode(o) \/ OpenMisses(o)
  <2>1. open'[o] = OpenAt(open[o], "idle")
    BY <1>0, <1>5, OpenGoesTyped DEF OpenSendsCode, OpenMisses
  <2> QED BY <1>0, <1>e, <2>1, OpenAtEnd
<1>6. CASE OpenProves(o)
  <2>1. /\ open[o].pc = "prove" /\ s \in proven'
        /\ open'[o] = OpenAt(open[o], "idle") \/ open'[o] = OpenAt(open[o], "claim")
    BY <1>0, <1>6, OpenGoesTyped DEF OpenProves
  <2>2. CASE open'[o] = OpenAt(open[o], "idle")
    BY <1>0, <1>e, <2>2, OpenAtEnd
  <2>3. CASE open'[o] = OpenAt(open[o], "claim")
    BY <1>0, <1>c, <1>k, <2>1, <2>3
  <2> QED BY <2>1, <2>2, <2>3
<1>7. CASE OpenClaims(o) \/ OpenBinds(o) \/ OpenMarks(o)
  <2>1. /\ open[o].pc \in {"claim", "bind", "mark"}
        /\ \/ open'[o] = OpenAt(open[o], "idle")
           \/ \E to \in {"bind", "mark", "file"} : open'[o] = OpenAt(open[o], to)
    BY <1>0, <1>7, OpenGoesTyped DEF OpenClaims, OpenBinds, OpenMarks
  <2>2. link.otp => s \in proven'  BY <1>0, <1>g, <2>1 DEF OpenSound, Grows
  <2>3. CASE open'[o] = OpenAt(open[o], "idle")
    BY <1>0, <1>e, <2>3, OpenAtEnd
  <2>4. ASSUME NEW to \in {"bind", "mark", "file"}, open'[o] = OpenAt(open[o], to)
        PROVE  OpenSound(o)'
    BY <1>0, <1>c, <1>k, <2>1, <2>2, <2>4
  <2> QED BY <2>1, <2>3, <2>4
<1>8. CASE OpenFindsFile(o)
  <2>1. PICK to \in {"opened", "dropped"} : open'[o] = OpenAt(open[o], to)
    BY <1>0, <1>8, OpenGoesTyped DEF OpenFindsFile
  <2>2. open'[o] = [NoOpen EXCEPT !.pc = to] /\ open'[o].pc = to  BY <1>0, <2>1, OpenAtEnd
  <2>3. link'.exists  BY <1>8, <1>g, <1>k DEF OpenFindsFile, OpenGoes, Grows
  <2> QED BY <2>2, <2>3, OpenEnds
<1> QED BY <1>1, <1>2, <1>3, <1>4, <1>5, <1>6, <1>7, <1>8 DEF OpenStep

\* A statement of a rendition or a refresh moves its own row, and may mint a token.
LEMMA RequestStepMoves ==
    ASSUME WayInv, NEW q \in Requests, RequestStep(q)
    PROVE  /\ req' \in [Requests -> RequestRow]
           /\ \A x \in Requests \ {q} : req'[x] = req[x]
           /\ UNCHANGED <<link, fileActive, open, proven>>
           /\ Watch /\ Kept /\ RequestSound(q)'
<1> DEFINE s == req[q].session
<1>0. TypeOK /\ RequestSound(q) /\ req[q] \in RequestRow  BY DEF WayInv, TypeOK
<1>l. link \in LinkRow /\ (link.active => link.exists)  BY DEF WayInv, TypeOK
<1>n. NoRequest \in RequestRow /\ NoRequest.pc = "idle"
  BY DEF NoRequest, RequestRow, RequestPCs, Browsers
<1>w. UNCHANGED <<link, fileActive, open, proven>> /\ Watch
  BY DEF RequestStep, RequestArrives, RequestLoadsLink, RequestLoadsSession, RequestFindsFile,
     RequestEnds, RequestGoes
<1>u. UNCHANGED session => Kept  BY <1>l, <1>w, LinkWritten
<1>m. ASSUME NEW row \in RequestRow, req' = [req EXCEPT ![q] = row],
             row.pc # "idle" => row.session # Null,
             row.pc \notin {"idle", "link"} => link.exists
      PROVE  /\ req' \in [Requests -> RequestRow]
             /\ \A x \in Requests \ {q} : req'[x] = req[x]
             /\ RequestSound(q)'
  <2>1. req'[q] = row /\ link' = link  BY <1>0, <1>m, <1>w DEF TypeOK
  <2> QED BY <1>0, <1>m, <2>1 DEF TypeOK, RequestSound
<1>1. ASSUME NEW kind \in {"rendition", "refresh"}, NEW x \in Sessions, NEW d \in Devices,
             RequestArrives(q, kind, x, d)
      PROVE  Kept /\ req' \in [Requests -> RequestRow] /\ RequestSound(q)'
             /\ \A y \in Requests \ {q} : req'[y] = req[y]
  <2> DEFINE row == [NoRequest EXCEPT !.pc = "link", !.kind = kind, !.session = x, !.device = d]
  <2>1. row \in RequestRow /\ row.pc = "link" /\ row.session = x
    BY <1>n DEF NoRequest, RequestRow, RequestPCs, Browsers
  <2>2. req' = [req EXCEPT ![q] = row] /\ UNCHANGED session  BY <1>1 DEF RequestArrives
  <2> HIDE DEF row
  <2> QED BY <1>m, <1>u, <2>1, <2>2, ShareAssumption
<1>2. CASE RequestLoadsLink(q)
  <2> DEFINE row == [req[q] EXCEPT !.pc = "session", !.bound = link.bound]
  <2>1. row \in RequestRow /\ row.pc = "session" /\ row.session = s
    BY <1>0, <1>l DEF LinkRow, RequestRow, RequestPCs
  <2>2. /\ req[q].pc = "link" /\ UNCHANGED session
        /\ \/ req' = [req EXCEPT ![q] = row] /\ link.active
           \/ req' = [req EXCEPT ![q] = NoRequest]
    BY <1>2 DEF RequestLoadsLink
  <2>3. s # Null  BY <1>0, <2>2 DEF RequestSound
  <2> HIDE DEF row
  <2> QED BY <1>l, <1>m, <1>n, <1>u, <1>w, <2>1, <2>2, <2>3
<1>3. CASE RequestLoadsSession(q)
  <2> DEFINE at(pc) == [req[q] EXCEPT !.pc = pc]
  <2>1. \A pc \in RequestPCs : at(pc) \in RequestRow /\ at(pc).pc = pc /\ at(pc).session = s
    BY <1>0 DEF RequestRow
  <2>2. /\ req[q].pc = "session"
        /\ \/ req' = [req EXCEPT ![q] = at("served")] \/ req' = [req EXCEPT ![q] = at("file")]
           \/ req' = [req EXCEPT ![q] = NoRequest]
        /\ UNCHANGED session \/ session' = [session EXCEPT ![s].token = TRUE]
    BY <1>3 DEF RequestLoadsSession, RequestGoes
  <2>3. s \in Sessions /\ s # Null /\ link.exists  BY <1>0, <2>2 DEF RequestSound, RequestRow
  <2>4. {"served", "file"} \subseteq RequestPCs  BY DEF RequestPCs
  <2>5. CASE session' = [session EXCEPT ![s].token = TRUE]
    <3> DEFINE row == [session[s] EXCEPT !.token = TRUE]
    <3>1. SessionKnown(s) /\ session[s] \in SessionRow  BY <2>3 DEF WayInv, TypeOK
    <3>2. session' = [session EXCEPT ![s] = row]  BY <2>5
    <3>3. /\ row \in SessionRow /\ row.exists = session[s].exists
          /\ row.verified = session[s].verified /\ row.approved = session[s].approved
      BY <3>1 DEF SessionRow
    <3> HIDE DEF row, s
    <3>4. Kept
      BY <1>0, <1>w, <2>3, <3>1, <3>2, <3>3, SessionWritten DEF SessionKnown, TypeOK
    <3>5. req' \in [Requests -> RequestRow] /\ RequestSound(q)'
          /\ \A y \in Requests \ {q} : req'[y] = req[y]
      <4> HIDE DEF at
      <4> QED BY <1>m, <1>n, <2>1, <2>2, <2>3, <2>4
    <3> QED BY <1>w, <3>4, <3>5
  <2> HIDE DEF at
  <2>6. CASE UNCHANGED session
    BY <1>m, <1>n, <1>u, <1>w, <2>1, <2>2, <2>3, <2>4, <2>6
  <2> QED BY <2>2, <2>5, <2>6
<1>4. CASE RequestFindsFile(q) \/ RequestEnds(q)
  <2> DEFINE row == [req[q] EXCEPT !.pc = "served"]
  <2>1. row \in RequestRow /\ row.pc = "served" /\ row.session = s
    BY <1>0 DEF RequestRow, RequestPCs
  <2>2. /\ req[q].pc \in {"file", "served"} /\ UNCHANGED session
        /\ req' = [req EXCEPT ![q] = row] \/ req' = [req EXCEPT ![q] = NoRequest]
    BY <1>4 DEF RequestFindsFile, RequestEnds, RequestGoes
  <2>3. s # Null /\ link.exists  BY <1>0, <2>2 DEF RequestSound
  <2> HIDE DEF row
  <2> QED BY <1>m, <1>n, <1>u, <1>w, <2>1, <2>2, <2>3
<1> QED BY <1>1, <1>2, <1>3, <1>4, <1>w DEF RequestStep

\* An administrator, the clock and a restart keep the rows, and a restart ends the calls.
LEMMA AdministerMoves ==
    ASSUME WayInv, Administer
    PROVE  /\ Watch /\ Kept /\ fileActive' \in BOOLEAN
           /\ \/ UNCHANGED <<open, req>>
              \/ /\ open' = [o \in Opens |->
                       OpenAt(open[o], IF open[o].pc \in Counted \ {"opened"} THEN "dropped"
                                       ELSE IF open[o].pc \in Entering THEN "idle" ELSE open[o].pc)]
                 /\ req' = [q \in Requests |-> NoRequest]
                 /\ UNCHANGED link
<1>0. TypeOK /\ link \in LinkRow /\ (link.active => link.exists)  BY DEF WayInv, TypeOK
<1>s. \A s \in Sessions : session[s] \in SessionRow /\ SessionKnown(s)  BY DEF WayInv, TypeOK
<1>w. Watch
  BY DEF Administer, CreateLink, ApproveSession, TimePasses, RevokeLink, RevokeSessions, LinkExpires,
     TrashOrRestore, Restart
<1>1. ASSUME NEW offer \in Offers, CreateLink(offer)
      PROVE  Kept /\ UNCHANGED <<open, req, fileActive>>
  <2> DEFINE row == [NoLink EXCEPT !.exists = TRUE, !.active = TRUE, !.maxViews = offer.maxViews,
                              !.single = offer.single, !.otp = offer.otp,
                              !.approval = offer.approval]
  <2>1. offer \in [maxViews : 0..MaxQuota, single : BOOLEAN, otp : BOOLEAN, approval : BOOLEAN]
    BY ShareAssumption
  <2>2. row \in LinkRow /\ row.exists  BY <2>1 DEF NoLink, LinkRow, NoQuota, Browsers
  <2>3. link' = row /\ ~link.exists /\ UNCHANGED <<fileActive, session, open, req, proven>>
    BY <1>1 DEF CreateLink
  <2> HIDE DEF row
  <2> QED BY <2>2, <2>3, LinkWritten
<1>2. CASE RevokeLink \/ LinkExpires
  <2>1. /\ link' = [link EXCEPT !.active = FALSE] \/ link' = [link EXCEPT !.expired = TRUE]
        /\ UNCHANGED <<fileActive, session, open, req, proven>>
    BY <1>2 DEF RevokeLink, LinkExpires
  <2> QED BY <1>0, <1>w, <2>1, LinkWritten DEF LinkRow, TypeOK
<1>3. ASSUME NEW s \in Sessions, ApproveSession(s) \/ TimePasses(s)
      PROVE  Kept /\ UNCHANGED <<open, req, fileActive>>
  <2>1. /\ session[s].exists /\ UNCHANGED <<link, fileActive, open, req, proven>>
        /\ \/ session' = [session EXCEPT ![s].approved = TRUE]
           \/ session' = [session EXCEPT ![s].code = FALSE]
           \/ session' = [session EXCEPT ![s].dead = TRUE]
    BY <1>3 DEF ApproveSession, TimePasses
  <2>2. PICK row \in SessionRow :
           /\ session' = [session EXCEPT ![s] = row]
           /\ row.exists = session[s].exists /\ row.verified = session[s].verified
           /\ session[s].approved => row.approved
    <3>1. session[s] \in SessionRow  BY <1>s
    <3> DEFINE r1 == [session[s] EXCEPT !.approved = TRUE]
               r2 == [session[s] EXCEPT !.code = FALSE]
               r3 == [session[s] EXCEPT !.dead = TRUE]
    <3>2. r1 \in SessionRow /\ r1.exists = session[s].exists
          /\ r1.verified = session[s].verified /\ r1.approved
      BY <3>1 DEF SessionRow
    <3>3. r2 \in SessionRow /\ r2.exists = session[s].exists
          /\ r2.verified = session[s].verified /\ r2.approved = session[s].approved
      BY <3>1 DEF SessionRow
    <3>4. r3 \in SessionRow /\ r3.exists = session[s].exists
          /\ r3.verified = session[s].verified /\ r3.approved = session[s].approved
      BY <3>1 DEF SessionRow
    <3>5. \E r \in {r1, r2, r3} : session' = [session EXCEPT ![s] = r]  BY <2>1
    <3> HIDE DEF r1, r2, r3
    <3> QED BY <3>2, <3>3, <3>4, <3>5
  <2> QED BY <1>0, <1>s, <2>1, <2>2, SessionWritten DEF SessionKnown, TypeOK
<1>4. CASE RevokeSessions
  <2>1. /\ session' = [s \in Sessions |-> IF session[s].exists
                         THEN [session[s] EXCEPT !.dead = TRUE] ELSE session[s]]
        /\ UNCHANGED <<link, fileActive, open, req, proven>>
    BY <1>4 DEF RevokeSessions
  <2>2. ASSUME NEW s \in Sessions
        PROVE  /\ session'[s] \in SessionRow /\ session'[s].exists = session[s].exists
               /\ session'[s].approved = session[s].approved
               /\ session'[s].verified = session[s].verified
    BY <1>s, <2>1 DEF SessionRow
  <2>3. session' \in [Sessions -> SessionRow]  BY <2>1, <2>2
  <2> QED BY <1>0, <1>s, <1>w, <2>1, <2>2, <2>3 DEF Kept, Grows, SessionKnown, TypeOK
<1>5. CASE TrashOrRestore
  BY <1>0, <1>5, <1>w, LinkWritten DEF TrashOrRestore, TypeOK
<1>6. CASE Restart
  BY <1>0, <1>6, <1>w, LinkWritten DEF Restart, TypeOK
<1> QED BY <1>0, <1>1, <1>2, <1>3, <1>4, <1>5, <1>6, <1>w DEF Administer, TypeOK

\* What a restart leaves of an opening.
LEMMA RestartEnds ==
    ASSUME WayInv, NEW o \in Opens, NEW row,
           row = OpenAt(open[o], IF open[o].pc \in Counted \ {"opened"} THEN "dropped"
                                 ELSE IF open[o].pc \in Entering THEN "idle" ELSE open[o].pc)
    PROVE  /\ row \in OpenRow /\ row = [NoOpen EXCEPT !.pc = row.pc]
           /\ row.pc \in {"idle", "opened", "dropped"}
           /\ row.pc \in Counted <=> open[o].pc \in Counted
<1>1. open[o] \in OpenRow  BY DEF WayInv, TypeOK
<1>2. PICK pc \in {"idle", "opened", "dropped"} :
         row = OpenAt(open[o], pc) /\ (pc \in Counted <=> open[o].pc \in Counted)
  BY <1>1 DEF OpenRow, OpenPCs, Entering, Counted
<1>3. row.pc = pc /\ row = [NoOpen EXCEPT !.pc = pc]  BY <1>1, <1>2, OpenAtEnd
<1>4. row \in OpenRow
  <2>1. pc \in OpenPCs  BY PCsNamed
  <2> QED BY <1>1, <1>2, <2>1, OpenAtRow
<1> QED BY <1>2, <1>3, <1>4

\* The way in is sound at every step.
LEMMA WayStep == WayInv /\ [Next]_vars => WayInv'
<1> SUFFICES ASSUME WayInv, [Next]_vars  PROVE WayInv'
  OBVIOUS
<1>r. ASSUME Grows, NEW q \in Requests, req'[q] = req[q]  PROVE RequestSound(q)'
  BY <1>r DEF WayInv, RequestSound, Grows
<1>1. ASSUME NEW o \in Opens, OpenStep(o)  PROVE WayInv'
  <2>1. Kept  BY <1>1, OpenStepKeeps
  <2>2. \A x \in Opens : OpenSound(x)'
    BY <1>1, <2>1, OpenStepSound, OpenStepMoves, OpenStays DEF Kept
  <2>3. UNCHANGED <<fileActive, req>> /\ open' \in [Opens -> OpenRow]  BY <1>1, OpenStepMoves
  <2>4. \A q \in Requests : RequestSound(q)'  BY <1>r, <2>1, <2>3 DEF Kept
  <2> QED BY <2>1, <2>2, <2>3, <2>4 DEF WayInv, TypeOK, Kept
<1>2. ASSUME NEW q \in Requests, RequestStep(q)  PROVE WayInv'
  <2>1. /\ Kept /\ UNCHANGED <<fileActive, open>> /\ req' \in [Requests -> RequestRow]
        /\ RequestSound(q)' /\ \A x \in Requests \ {q} : req'[x] = req[x]
    BY <1>2, RequestStepMoves
  <2>2. \A x \in Opens : OpenSound(x)'  BY <2>1, OpenStays DEF Kept
  <2>3. \A x \in Requests : RequestSound(x)'  BY <1>r, <2>1 DEF Kept
  <2> QED BY <2>1, <2>2, <2>3 DEF WayInv, TypeOK, Kept
<1>3. CASE Administer
  <2>1. Kept /\ fileActive' \in BOOLEAN  BY <1>3, AdministerMoves
  <2>2. CASE UNCHANGED <<open, req>>
    <3>1. \A x \in Opens : OpenSound(x)'  BY <2>1, <2>2, OpenStays DEF Kept
    <3>2. \A x \in Requests : RequestSound(x)'  BY <1>r, <2>1, <2>2 DEF Kept
    <3> QED BY <2>1, <2>2, <3>1, <3>2 DEF WayInv, TypeOK, Kept
  <2>3. CASE ~UNCHANGED <<open, req>>
    <3>1. /\ open' = [o \in Opens |->
                 OpenAt(open[o], IF open[o].pc \in Counted \ {"opened"} THEN "dropped"
                                 ELSE IF open[o].pc \in Entering THEN "idle" ELSE open[o].pc)]
          /\ req' = [q \in Requests |-> NoRequest] /\ UNCHANGED link
      BY <1>3, <2>3, AdministerMoves
    <3>2. ASSUME NEW o \in Opens  PROVE open'[o] \in OpenRow /\ OpenSound(o)'
      <4>1. /\ open'[o] \in OpenRow /\ open'[o] = [NoOpen EXCEPT !.pc = open'[o].pc]
            /\ open'[o].pc \in {"idle", "opened", "dropped"}
            /\ open'[o].pc \in Counted <=> open[o].pc \in Counted
        BY <3>1, RestartEnds
      <4>2. open[o].pc \in Counted => link'.exists
        BY <3>1 DEF WayInv, OpenSound, Counted
      <4>3. open'[o].pc # "idle" => link'.exists  BY <4>1, <4>2 DEF Counted
      <4> QED BY <4>1, <4>3, OpenEnds
    <3>3. ASSUME NEW q \in Requests  PROVE req'[q] \in RequestRow /\ RequestSound(q)'
      BY <3>1 DEF NoRequest, RequestRow, RequestPCs, Browsers, RequestSound
    <3>4. open' \in [Opens -> OpenRow] /\ req' \in [Requests -> RequestRow]
      BY <3>1, <3>2, <3>3
    <3> QED BY <2>1, <3>2, <3>3, <3>4 DEF WayInv, TypeOK, Kept
  <2> QED BY <2>2, <2>3
<1>4. CASE UNCHANGED vars
  BY <1>4 DEF vars, history, WayInv, TypeOK, SessionKnown, OpenSound, RequestSound
<1> QED BY <1>1, <1>2, <1>3, <1>4 DEF Next

LEMMA WayAlways == Spec => []WayInv
<1>1. Init => WayInv
  BY ShareAssumption DEF Init, WayInv, TypeOK, SessionKnown, OpenSound, RequestSound, NoLink, LinkRow,
     NoSession, SessionRow, NoOpen, OpenRow, NoRequest, RequestRow, OpenPCs, RequestPCs, NoQuota,
     Browsers
<1> QED BY <1>1, WayStep, PTL DEF Spec

-----------------------------------------------------------------------------
(* Counted views                                                           *)

\* An opening's statements count nothing, except a claim that is granted, which counts it.
LEMMA OpenStepCounts ==
    ASSUME WayInv, NEW o \in Opens, OpenStep(o)
    PROVE  /\ link'.exists = link.exists /\ link'.maxViews = link.maxViews
           /\ \/ link'.used = link.used /\ Charged' = Charged
              \/ /\ link'.used = link.used + 1 /\ Charged' = Charged \cup {o}
                 /\ o \notin Charged /\ link.exists /\ ClaimGranted
<1> USE PCsNamed
<1>0. TypeOK /\ OpenSound(o) /\ open[o] \in OpenRow /\ link \in LinkRow  BY DEF WayInv, TypeOK
<1>x. \A x \in Opens \ {o} : open'[x] = open[x]  BY OpenStepMoves
<1>q. ASSUME open'[o].pc \in Counted <=> open[o].pc \in Counted
      PROVE  Charged' = Charged
  BY <1>q, <1>x DEF Charged
<1>1. CASE OpenClaims(o)
  <2>1. open[o].pc = "claim" /\ o \notin Charged  BY <1>1 DEF OpenClaims, OpenGoes, Charged, Counted
  <2>2. CASE ClaimGranted
    <3>1. PICK to \in {"bind", "mark"} : open'[o] = OpenAt(open[o], to)
      BY <1>0, <1>1, <2>2, OpenGoesTyped DEF OpenClaims
    <3>2. open'[o].pc = to /\ to \in Counted  BY <1>0, <3>1, OpenAtRow DEF Counted
    <3>3. Charged' = Charged \cup {o}  BY <1>x, <3>2 DEF Charged
    <3>4. link' = [link EXCEPT !.used = @ + 1]  BY <1>1, <2>2 DEF OpenClaims
    <3>5. link.exists  BY <1>0, <2>1 DEF OpenSound
    <3> QED BY <1>0, <2>1, <2>2, <3>3, <3>4, <3>5 DEF LinkRow
  <2>3. CASE ~ClaimGranted
    <3>1. open'[o] = OpenAt(open[o], "idle") /\ UNCHANGED link
      BY <1>0, <1>1, <2>3, OpenGoesTyped DEF OpenClaims
    <3>2. open'[o].pc = "idle"  BY <1>0, <3>1, OpenAtRow
    <3> QED BY <1>q, <2>1, <3>1, <3>2 DEF Charged, Counted
  <2> QED BY <2>2, <2>3
<1>2. CASE OpenBinds(o) \/ OpenMarks(o) \/ OpenFindsFile(o)
  <2>1. PICK to \in {"mark", "file", "opened", "dropped"} :
           open[o].pc \in Counted /\ open'[o] = OpenAt(open[o], to)
    BY <1>0, <1>2, OpenGoesTyped DEF OpenBinds, OpenMarks, OpenFindsFile, Counted
  <2>2. open'[o].pc = to  BY <1>0, <2>1, OpenAtRow
  <2>3. link' = link \/ link' = [link EXCEPT !.bound = open[o].device]
    BY <1>2 DEF OpenBinds, OpenMarks, OpenFindsFile
  <2> QED BY <1>0, <1>q, <2>1, <2>2, <2>3 DEF Counted, LinkRow
<1>3. CASE OpenSendsCode(o) \/ OpenMisses(o) \/ OpenProves(o)
  <2>1. PICK to \in {"idle", "claim"} :
           /\ open[o].pc \in {"send", "miss", "prove"} /\ open'[o] = OpenAt(open[o], to)
           /\ UNCHANGED link
    BY <1>0, <1>3, OpenGoesTyped DEF OpenSendsCode, OpenMisses, OpenProves
  <2>2. open'[o].pc = to  BY <1>0, <2>1, OpenAtRow
  <2> QED BY <1>q, <2>1, <2>2 DEF Counted
<1>4. CASE OpenLoadsLink(o)
  <2> DEFINE read == [open[o] EXCEPT !.bound = link.bound]
  <2>1. read \in OpenRow  BY <1>0 DEF LinkRow, OpenRow
  <2>2. PICK to \in {"idle", "create", "session"} :
           open[o].pc = "link" /\ open'[o] = OpenAt(read, to) /\ UNCHANGED link
    BY <1>0, <1>4 DEF OpenLoadsLink, TypeOK
  <2> HIDE DEF read
  <2>3. open'[o].pc = to  BY <2>1, <2>2, OpenAtRow
  <2> QED BY <1>q, <2>2, <2>3 DEF Counted
<1>5. CASE OpenCreatesSession(o)
  <2>1. PICK n \in Sessions, to \in {"idle", "claim"} :
           /\ open[o].pc = "create" /\ UNCHANGED link
           /\ open' = [open EXCEPT ![o] = OpenAt([@ EXCEPT !.session = n], to)]
    BY <1>5 DEF OpenCreatesSession
  <2> DEFINE row == [open[o] EXCEPT !.session = n]
  <2>2. row \in OpenRow /\ open'[o] = OpenAt(row, to)  BY <1>0, <2>1 DEF OpenRow, TypeOK
  <2> HIDE DEF row
  <2>3. open'[o].pc = to  BY <2>2, OpenAtRow
  <2> QED BY <1>q, <2>1, <2>3 DEF Counted
<1>6. CASE OpenLoadsSession(o)
  <2> DEFINE row == [open[o] EXCEPT !.approved = session[open[o].session].approved]
  <2>1. open[o].session \in Sessions  BY <1>0, <1>6 DEF OpenLoadsSession, OpenSound, OpenRow
  <2>2. row \in OpenRow  BY <1>0, <2>1 DEF TypeOK, SessionRow, OpenRow
  <2>3. PICK to \in {"idle", "send", "prove", "miss", "claim"} :
           open[o].pc = "session" /\ open'[o] = OpenAt(row, to) /\ UNCHANGED link
    BY <1>0, <1>6 DEF OpenLoadsSession, TypeOK
  <2> HIDE DEF row
  <2>4. open'[o].pc = to  BY <2>2, <2>3, OpenAtRow
  <2> QED BY <1>q, <2>3, <2>4 DEF Counted
<1>7. ASSUME NEW kind \in Kinds, NEW s \in Sessions \cup {Null}, NEW d \in Devices,
             OpenArrives(o, kind, s, d)
      PROVE  Charged' = Charged /\ UNCHANGED link
  <2>1. open[o].pc = "idle" /\ open'[o].pc = "link" /\ UNCHANGED link
    BY <1>0, <1>7 DEF OpenArrives, TypeOK, NoOpen
  <2> QED BY <1>q, <2>1 DEF Counted
<1> QED BY <1>1, <1>2, <1>3, <1>4, <1>5, <1>6, <1>7 DEF OpenStep

\* Nobody is counted before there is a link.
LEMMA NoneCharged ==
    ASSUME WayInv, ~link.exists
    PROVE  Charged = {}
BY DEF WayInv, OpenSound, Charged, Counted

\* Administration counts nobody; it creates the link with its quota.
LEMMA AdministerCounts ==
    ASSUME WayInv, Administer
    PROVE  /\ Charged' = Charged
           /\ \/ /\ link'.exists = link.exists /\ link'.maxViews = link.maxViews
                 /\ link'.used = link.used
              \/ ~link.exists /\ link'.exists /\ link'.maxViews \in 0..MaxQuota /\ link'.used = 0
<1>0. link \in LinkRow  BY DEF WayInv, TypeOK
<1>1. Charged' = Charged
  <2>1. CASE UNCHANGED open
    BY <2>1 DEF Charged
  <2>2. CASE ~UNCHANGED open
    <3>1. open' = [o \in Opens |->
              OpenAt(open[o], IF open[o].pc \in Counted \ {"opened"} THEN "dropped"
                              ELSE IF open[o].pc \in Entering THEN "idle" ELSE open[o].pc)]
      BY <2>2, AdministerMoves
    <3>2. \A o \in Opens : open'[o].pc \in Counted <=> open[o].pc \in Counted
      BY <3>1, RestartEnds
    <3> QED BY <3>2 DEF Charged
  <2> QED BY <2>1, <2>2
<1>2. ASSUME NEW offer \in Offers, CreateLink(offer)
      PROVE  ~link.exists /\ link'.exists /\ link'.maxViews \in 0..MaxQuota /\ link'.used = 0
  BY <1>2, ShareAssumption DEF CreateLink, NoLink
<1>3. CASE RevokeLink \/ LinkExpires
  BY <1>0, <1>1, <1>3 DEF RevokeLink, LinkExpires, LinkRow
<1>4. CASE UNCHANGED link
  BY <1>1, <1>4
<1> QED BY <1>1, <1>2, <1>3, <1>4
        DEF Administer, ApproveSession, TimePasses, RevokeSessions, TrashOrRestore, Restart

LEMMA ChargedFinite ==
    /\ IsFiniteSet(Charged)
    /\ \A o \in Opens : o \notin Charged => Cardinality(Charged \cup {o}) = Cardinality(Charged) + 1
<1>1. IsFiniteSet(Charged)  BY ShareAssumption, FS_Subset DEF Charged
<1> QED BY <1>1, FS_AddElement

\* Counting is kept by every step.
LEMMA CountStep == WayInv /\ ViewsCountedOnce /\ [Next]_vars => ViewsCountedOnce'
<1> SUFFICES ASSUME WayInv, ViewsCountedOnce, [Next]_vars  PROVE ViewsCountedOnce'
  OBVIOUS
<1>1. ASSUME NEW o \in Opens, OpenStep(o)  PROVE ViewsCountedOnce'
  BY <1>1, OpenStepCounts, ChargedFinite DEF ViewsCountedOnce
<1>2. ASSUME NEW q \in Requests, RequestStep(q)  PROVE ViewsCountedOnce'
  BY <1>2, RequestStepMoves DEF ViewsCountedOnce, Charged
<1>3. CASE Administer
  <2>1. CASE link'.used = link.used
    BY <1>3, <2>1, AdministerCounts DEF ViewsCountedOnce
  <2>2. CASE ~link.exists /\ link'.used = 0
    BY <1>3, <2>2, AdministerCounts, NoneCharged, FS_EmptySet DEF ViewsCountedOnce
  <2> QED BY <1>3, <2>1, <2>2, AdministerCounts
<1>4. CASE UNCHANGED vars
  BY <1>4 DEF vars, ViewsCountedOnce, Charged
<1> QED BY <1>1, <1>2, <1>3, <1>4 DEF Next

\* However starts, verifications and polls race for the last view, and whatever crashes and
\* deletions befall them afterwards, viewsUsed is the number of calls that got past their claim.
THEOREM CountedOnce == Spec => []ViewsCountedOnce
<1>1. Init => ViewsCountedOnce
  <2> SUFFICES ASSUME Init  PROVE ViewsCountedOnce
    OBVIOUS
  <2>1. Charged = {} /\ link.used = 0  BY DEF Init, Charged, Counted, NoOpen, NoLink
  <2> QED BY <2>1, FS_EmptySet DEF ViewsCountedOnce
<1> QED BY <1>1, WayAlways, CountStep, PTL DEF Spec

\* What ViewQuota promises of an allowance is what the four ways into a link deliver: the
\* granted claim charges one opening to a link with room, the creation puts the quota on
\* record, and nothing else changes either.
THEOREM ImplementsViewQuota == Spec => QuotaSpec
<1> DEFINE quotas  == [a \in {"link"} |-> IF link.exists THEN {link.maxViews} ELSE {}]
           charged == [a \in {"link"} |-> Charged]
<1>1. Init => Quota!Init
  BY DEF Init, Quota!Init, Charged, Counted, NoOpen, NoLink
<1>2. WayInv /\ ViewsCountedOnce /\ [Next]_vars => [Quota!Next]_(Quota!quotaVars)
  <2> SUFFICES ASSUME WayInv, ViewsCountedOnce, [Next]_vars
               PROVE  Quota!Next \/ UNCHANGED Quota!quotaVars
    OBVIOUS
  <2>0. ASSUME link'.exists = link.exists, link'.maxViews = link.maxViews, Charged' = Charged
        PROVE  UNCHANGED Quota!quotaVars
    BY <2>0 DEF Quota!quotaVars
  <2>1. ASSUME NEW o \in Opens, OpenStep(o)
        PROVE  Quota!Next \/ UNCHANGED Quota!quotaVars
    <3>1. link'.exists = link.exists /\ link'.maxViews = link.maxViews
      BY <2>1, OpenStepCounts
    <3>2. CASE Charged' = Charged
      BY <2>0, <3>1, <3>2
    <3>3. CASE Charged' = Charged \cup {o} /\ o \notin Charged /\ link.exists /\ ClaimGranted
      <4>1. quotas' = quotas  BY <3>1
      <4>2. charged' = [charged EXCEPT !["link"] = @ \cup {o}]  BY <3>3
      <4>3. Quota!HasRoom(Quota!Cardinality(charged["link"]), quotas["link"])
        <5>1. Quota!Cardinality(Charged) = link.used
          BY DEF ViewsCountedOnce, Quota!Cardinality, Cardinality, Quota!IsFiniteSet, IsFiniteSet
        <5>2. link.maxViews = NoQuota \/ link.used < link.maxViews  BY <3>3 DEF ClaimGranted
        <5> QED BY <3>3, <5>1, <5>2 DEF Quota!HasRoom, Quota!NoQuota, NoQuota
      <4>4. Quota!Charge("link", o)  BY <3>3, <4>1, <4>2, <4>3 DEF Quota!Charge
      <4> QED BY <4>4 DEF Quota!Next
    <3> QED BY <2>1, <3>2, <3>3, OpenStepCounts
  <2>2. ASSUME NEW q \in Requests, RequestStep(q)  PROVE UNCHANGED Quota!quotaVars
    <3>1. UNCHANGED <<link, open>>  BY <2>2, RequestStepMoves
    <3> QED BY <2>0, <3>1 DEF Charged
  <2>3. CASE Administer
    <3>1. Charged' = Charged  BY <2>3, AdministerCounts
    <3>2. CASE link'.exists = link.exists /\ link'.maxViews = link.maxViews
      BY <2>0, <3>1, <3>2
    <3>3. CASE ~link.exists /\ link'.exists /\ link'.maxViews \in 0..MaxQuota
      <4>1. quotas' = [quotas EXCEPT !["link"] = @ \cup {link'.maxViews}]  BY <3>3
      <4>2. charged' = charged  BY <3>1
      <4> QED BY <3>3, <4>1, <4>2 DEF Quota!Next, Quota!SetQuota
    <3> QED BY <2>3, <3>2, <3>3, AdministerCounts
  <2>4. CASE UNCHANGED vars
    BY <2>0, <2>4 DEF vars, Charged
  <2> QED BY <2>1, <2>2, <2>3, <2>4 DEF Next
<1> QED BY <1>1, <1>2, WayAlways, CountedOnce, PTL DEF Spec, QuotaSpec, Quota!Spec

-----------------------------------------------------------------------------
(* What stands in the way.  A bar that stands is there; the checks a call    *)
(* has passed have cleared the bars they ask for, and a bar once cleared     *)
(* does not come back, for it has not been there ever since.                 *)

\* The bars a call's checks have cleared; the device is judged by the row read first.
ClearedForOpen(pc) == CASE pc = "link"                                -> {}
                        [] pc \in {"create", "session", "send", "miss"} -> {"link"}
                        [] pc = "prove"                               -> {"link", "session"}
                        [] OTHER                                      -> OpenBarNames

ClearedForRequest(pc, kind) == CASE pc = "link"    -> {}
                                 [] pc = "session" -> {"link"}
                                 [] pc = "file"    -> OpenBarNames
                                 [] OTHER          -> BarsAsked(kind)

OpenCleared(o) ==
    /\ openBars[o] \cap ClearedForOpen(open[o].pc) = {}
    /\ open[o].pc # "link" /\ "device" \in openBars[o]
          => ~DeviceFits(open[o].bound, open[o].device)

RequestCleared(q) ==
    /\ reqBars[q] \cap ClearedForRequest(req[q].pc, req[q].kind) = {}
    /\ req[q].pc # "link" /\ "device" \in reqBars[q]
          => ~DeviceFits(req[q].bound, req[q].device)

BarsInv == /\ \A o \in Opens : openBars[o] \subseteq BarsOfOpen(o) /\ OpenCleared(o)
           /\ \A q \in Requests : reqBars[q] \subseteq BarsOfRequest(q) /\ RequestCleared(q)

\* What Watch keeps of a call's bars: only ones that are there, and only old ones.
LEMMA BarsShrink ==
    ASSUME Watch
    PROVE  /\ \A o \in Opens : /\ openBars'[o] \subseteq BarsOfOpen(o)'
                               /\ open'[o].pc \notin Entering => openBars'[o] = {}
                               /\ open[o].pc \in Entering => openBars'[o] \subseteq openBars[o]
           /\ \A q \in Requests : /\ reqBars'[q] \subseteq BarsOfRequest(q)'
                                  /\ req'[q].pc = "idle" => reqBars'[q] = {}
                                  /\ req[q].pc # "idle" => reqBars'[q] \subseteq reqBars[q]
<1>1. ASSUME NEW o \in Opens
      PROVE  /\ openBars'[o] \subseteq BarsOfOpen(o)'
             /\ open'[o].pc \notin Entering => openBars'[o] = {}
             /\ open[o].pc \in Entering => openBars'[o] \subseteq openBars[o]
  BY DEF Watch
<1>2. ASSUME NEW q \in Requests
      PROVE  /\ reqBars'[q] \subseteq BarsOfRequest(q)'
             /\ req'[q].pc = "idle" => reqBars'[q] = {}
             /\ req[q].pc # "idle" => reqBars'[q] \subseteq reqBars[q]
  BY DEF Watch
<1> QED BY <1>1, <1>2

\* A call that is over has no bars; one that stays where it is keeps what it has cleared.
LEMMA OpenBarsStay ==
    ASSUME WayInv, BarsInv, Watch, Grows, NEW o \in Opens,
           open'[o].pc \notin Entering \/ open'[o] = open[o]
    PROVE  OpenCleared(o)'
<1>1. CASE open'[o].pc \notin Entering
  BY <1>1, BarsShrink DEF OpenCleared
<1>2. CASE open'[o] = open[o] /\ open[o].pc \in Entering
  <2>1. openBars'[o] \subseteq openBars[o] /\ OpenCleared(o)  BY <1>2, BarsShrink DEF BarsInv
  <2>2. open[o].pc # "link" => link'.single = link.single
    BY <1>2 DEF WayInv, OpenSound, Grows, Entering
  <2> QED BY <1>2, <2>1, <2>2 DEF OpenCleared, DeviceFits
<1> QED BY <1>1, <1>2

\* The same of a request.
LEMMA RequestBarsStay ==
    ASSUME WayInv, BarsInv, Watch, Grows, NEW q \in Requests,
           req'[q].pc = "idle" \/ req'[q] = req[q]
    PROVE  RequestCleared(q)'
<1>1. CASE req'[q].pc = "idle"
  BY <1>1, BarsShrink DEF RequestCleared
<1>2. CASE req'[q] = req[q] /\ req[q].pc # "idle"
  <2>1. reqBars'[q] \subseteq reqBars[q] /\ RequestCleared(q)  BY <1>2, BarsShrink DEF BarsInv
  <2>2. req[q].pc # "link" => link'.single = link.single
    BY <1>2 DEF WayInv, RequestSound, Grows
  <2> QED BY <1>2, <2>1, <2>2 DEF RequestCleared, DeviceFits
<1> QED BY <1>1, <1>2

\* A call that has read the link goes on without the bars it has found absent.
LEMMA OpenPasses ==
    ASSUME WayInv, BarsInv, Watch, Grows, NEW o \in Opens, NEW found,
           open[o].pc \in Entering \ {"link"},
           open'[o].bound = open[o].bound, open'[o].device = open[o].device,
           openBars'[o] \cap found = {},
           ClearedForOpen(open'[o].pc) \subseteq ClearedForOpen(open[o].pc) \cup found
    PROVE  OpenCleared(o)'
<1>1. openBars'[o] \subseteq openBars[o] /\ OpenCleared(o)  BY BarsShrink DEF BarsInv
<1>2. link'.single = link.single
  BY DEF WayInv, OpenSound, Grows, Entering
<1> QED BY <1>1, <1>2 DEF OpenCleared, DeviceFits

\* The same of a request.
LEMMA RequestPasses ==
    ASSUME WayInv, BarsInv, Watch, Grows, NEW q \in Requests, NEW found,
           req[q].pc \notin {"idle", "link"},
           req'[q].bound = req[q].bound, req'[q].device = req[q].device,
           reqBars'[q] \cap found = {},
           ClearedForRequest(req'[q].pc, req'[q].kind)
              \subseteq ClearedForRequest(req[q].pc, req[q].kind) \cup found
    PROVE  RequestCleared(q)'
<1>1. reqBars'[q] \subseteq reqBars[q] /\ RequestCleared(q)  BY BarsShrink DEF BarsInv
<1>2. link'.single = link.single
  BY DEF WayInv, RequestSound, Grows
<1> QED BY <1>1, <1>2 DEF RequestCleared, DeviceFits

\* What finalizeOpen asserts of the link rules out its expiry and another device.
LEMMA EntryClears ==
    ASSUME WayInv, BarsInv, Watch, NEW o \in Opens,
           open[o].pc \in Entering \ {"link"}, EntryPc(o) = "claim"
    PROVE  openBars'[o] \cap {"expired", "device"} = {}
<1>1. openBars'[o] \subseteq openBars[o] /\ openBars[o] \subseteq BarsOfOpen(o) /\ OpenCleared(o)
  BY BarsShrink DEF BarsInv
<1>2. ~link.expired /\ DeviceFits(open[o].bound, open[o].device)  BY DEF EntryPc
<1>3. "expired" \notin BarsOfOpen(o)  BY <1>2 DEF BarsOfOpen, BarsOfLink, BarsOfSession
<1>4. "device" \notin openBars[o]  BY <1>1, <1>2 DEF OpenCleared
<1> QED BY <1>1, <1>3, <1>4

\* The bars an opening's statement leaves.
LEMMA OpenStepClears ==
    ASSUME WayInv, BarsInv, NEW o \in Opens, OpenStep(o)
    PROVE  OpenCleared(o)'
<1> USE PCsNamed
<1>0. TypeOK /\ OpenSound(o) /\ open[o] \in OpenRow  BY DEF WayInv, TypeOK
<1>w. Watch /\ Grows  BY OpenStepMoves, OpenStepKeeps DEF Kept
<1>p. /\ openBars'[o] \subseteq BarsOfOpen(o)'
      /\ open[o].pc \in Entering => openBars'[o] \subseteq BarsOfOpen(o)
  BY <1>w, BarsShrink DEF BarsInv
<1>e. ASSUME NEW row \in OpenRow,
             NEW to \in {"idle", "bind", "mark", "file", "opened", "dropped"},
             open'[o] = OpenAt(row, to)
      PROVE  OpenCleared(o)'
  <2>1. open'[o].pc = to  BY <1>e, OpenAtRow
  <2> QED BY <1>w, <2>1, OpenBarsStay DEF Entering
<1> DEFINE s == open[o].session
<1>k. open[o].pc \in {"session", "prove"} => s \in Sessions /\ s # Null
  BY <1>0, ShareAssumption DEF OpenSound, OpenRow
<1>1. ASSUME NEW kind \in Kinds, NEW x \in Sessions \cup {Null}, NEW d \in Devices,
             OpenArrives(o, kind, x, d)
      PROVE  OpenCleared(o)'
  <2>1. open'[o].pc = "link"  BY <1>0, <1>1 DEF OpenArrives, TypeOK, NoOpen
  <2> QED BY <2>1 DEF OpenCleared, ClearedForOpen
<1>2. CASE OpenLoadsLink(o)
  <2> DEFINE read == [open[o] EXCEPT !.bound = link.bound]
  <2>0. read \in OpenRow /\ read.bound = link.bound
    BY <1>0 DEF TypeOK, LinkRow, OpenRow
  <2>1. PICK to \in {"idle", "create", "session"} :
           /\ open[o].pc = "link" /\ UNCHANGED link /\ open'[o] = OpenAt(read, to)
           /\ to = "idle" \/ link.active
    BY <1>0, <1>2 DEF OpenLoadsLink, TypeOK
  <2> HIDE DEF read
  <2>2. CASE to = "idle"
    BY <1>e, <2>0, <2>1, <2>2
  <2>3. CASE to \in {"create", "session"} /\ link.active
    <3>1. open'[o].pc = to /\ open'[o].bound = link.bound  BY <2>0, <2>1, <2>3, OpenAtNext
    <3>2. ClearedForOpen(to) = {"link"}  BY <2>3 DEF ClearedForOpen
    <3>3. "link" \notin BarsOfOpen(o)  BY <2>3 DEF BarsOfOpen, BarsOfLink, BarsOfSession
    <3>4. "link" \notin openBars'[o]  BY <1>p, <2>1, <3>3 DEF Entering
    <3>5. "device" \in openBars'[o] => ~(DeviceFits(open[o].bound, open[o].device)')
      <4>1. "device" \in BarsOfOpen(o)' => ~(DeviceFits(link.bound, open[o].device)')
        BY DEF BarsOfOpen, BarsOfLink, BarsOfSession
      <4>2. DeviceFits(link.bound, open[o].device)'
               <=> DeviceFits(open[o].bound, open[o].device)'
        BY <2>1, <3>1 DEF DeviceFits
      <4> QED BY <1>p, <4>1, <4>2
    <3> QED BY <3>1, <3>2, <3>4, <3>5 DEF OpenCleared
  <2> QED BY <2>1, <2>2, <2>3
<1>3. CASE OpenCreatesSession(o)
  <2>1. PICK n \in Sessions :
           /\ open[o].pc = "create" /\ UNCHANGED link
           /\ session' = [session EXCEPT ![n] = [NoSession EXCEPT !.exists = TRUE]]
           /\ open' = [open EXCEPT ![o] = OpenAt([@ EXCEPT !.session = n],
                                 IF link.otp \/ link.approval THEN "idle" ELSE EntryPc(o))]
    BY <1>3 DEF OpenCreatesSession
  <2> DEFINE row == [open[o] EXCEPT !.session = n]
             to  == IF link.otp \/ link.approval THEN "idle" ELSE EntryPc(o)
  <2>2. /\ row \in OpenRow /\ row.session = n
        /\ row.bound = open[o].bound /\ row.device = open[o].device
    BY <1>0 DEF OpenRow
  <2>3. open'[o] = OpenAt(row, to)  BY <1>0, <2>1 DEF TypeOK
  <2>4. to = "idle" \/ (to = "claim" /\ ~link.otp /\ ~link.approval /\ EntryPc(o) = "claim")
    OBVIOUS
  <2> HIDE DEF row, to
  <2>5. CASE to = "idle"
    BY <1>e, <2>2, <2>3, <2>5
  <2>6. CASE to = "claim" /\ ~link.otp /\ ~link.approval /\ EntryPc(o) = "claim"
    <3>1. /\ open'[o].pc = "claim" /\ open'[o].session = n
          /\ open'[o].bound = open[o].bound /\ open'[o].device = open[o].device
      BY <2>2, <2>3, <2>6, OpenAtNext
    <3>2. ~session'[n].dead  BY <1>0, <2>1 DEF TypeOK, NoSession
    <3>3. BarsOfOpen(o)' \cap {"session", "otp", "approval"} = {}
      BY <2>1, <2>6, <3>1, <3>2 DEF BarsOfOpen, BarsOfLink, BarsOfSession
    <3>4. openBars'[o] \cap {"expired", "device"} = {}
      BY <1>w, <2>1, <2>6, EntryClears DEF Entering
    <3> DEFINE found == {"session", "otp", "approval", "expired", "device"}
    <3>5. openBars'[o] \cap found = {}  BY <1>p, <3>3, <3>4
    <3>6. ClearedForOpen(open'[o].pc) \subseteq ClearedForOpen(open[o].pc) \cup found
      BY <2>1, <3>1 DEF ClearedForOpen, OpenBarNames
    <3>7. open[o].pc \in Entering \ {"link"}  BY <2>1 DEF Entering
    <3> HIDE DEF found
    <3> QED BY <1>w, <3>1, <3>5, <3>6, <3>7, OpenPasses
  <2> QED BY <2>4, <2>5, <2>6
<1>4. CASE OpenLoadsSession(o)
  <2> DEFINE row == [open[o] EXCEPT !.approved = session[s].approved]
  <2>0. s \in Sessions /\ s # Null /\ open[o].pc = "session" /\ UNCHANGED <<link, session, proven>>
    BY <1>4, <1>k DEF OpenLoadsSession
  <2>1. row \in OpenRow /\ row.bound = open[o].bound /\ row.device = open[o].device
    BY <1>0, <2>0 DEF TypeOK, SessionRow, OpenRow
  <2>2. \/ open'[o] = OpenAt(row, "idle")
        \/ open'[o] = OpenAt(row, "send") \/ open'[o] = OpenAt(row, "miss")
        \/ open'[o] = OpenAt(row, "prove") /\ ~session[s].dead
        \/ /\ open'[o] = OpenAt(row, "claim") /\ ~session[s].dead /\ EntryPc(o) = "claim"
           /\ link.otp => session[s].verified
           /\ link.approval => session[s].approved
    BY <1>0, <1>4 DEF OpenLoadsSession, TypeOK, Admitted
  <2>3. session[s].verified /\ link.otp => s \in proven
    BY <1>0, <2>0 DEF WayInv, SessionKnown
  <2>d. ~session[s].dead => "session" \notin BarsOfOpen(o)
    BY DEF BarsOfOpen, BarsOfLink, BarsOfSession
  <2>n. open[o].pc \in Entering \ {"link"}  BY <2>0 DEF Entering
  <2>4. CASE open'[o] = OpenAt(row, "idle")
    <3> HIDE DEF row
    <3> QED BY <1>e, <2>1, <2>4
  <2>5. ASSUME NEW to \in {"send", "miss"}, open'[o] = OpenAt(row, to)
        PROVE  OpenCleared(o)'
    <3> HIDE DEF row
    <3>1. /\ open'[o].pc = to
          /\ open'[o].bound = open[o].bound /\ open'[o].device = open[o].device
      BY <2>1, <2>5, OpenAtNext
    <3>2. ClearedForOpen(open'[o].pc) \subseteq ClearedForOpen(open[o].pc) \cup {}
      BY <2>0, <3>1 DEF ClearedForOpen
    <3>3. openBars'[o] \cap {} = {}  OBVIOUS
    <3> QED BY <1>w, <2>n, <3>1, <3>2, <3>3, OpenPasses
  <2>6. CASE open'[o] = OpenAt(row, "prove") /\ ~session[s].dead
    <3> HIDE DEF row
    <3>1. /\ open'[o].pc = "prove"
          /\ open'[o].bound = open[o].bound /\ open'[o].device = open[o].device
      BY <2>1, <2>6, OpenAtNext
    <3>2. ClearedForOpen(open'[o].pc) \subseteq ClearedForOpen(open[o].pc) \cup {"session"}
      BY <2>0, <3>1 DEF ClearedForOpen
    <3>3. openBars'[o] \cap {"session"} = {}  BY <1>p, <2>6, <2>d, <2>n
    <3> QED BY <1>w, <2>n, <3>1, <3>2, <3>3, OpenPasses
  <2>7. CASE /\ open'[o] = OpenAt(row, "claim") /\ ~session[s].dead /\ EntryPc(o) = "claim"
             /\ link.otp => session[s].verified
             /\ link.approval => session[s].approved
    <3> HIDE DEF row
    <3>1. /\ open'[o].pc = "claim"
          /\ open'[o].bound = open[o].bound /\ open'[o].device = open[o].device
      BY <2>1, <2>7, OpenAtNext
    <3>2. BarsOfOpen(o) \cap {"otp", "approval"} = {}
      BY <2>0, <2>3, <2>7 DEF BarsOfOpen, BarsOfLink, BarsOfSession
    <3>3. openBars'[o] \cap {"expired", "device"} = {}
      BY <1>w, <2>7, <2>n, EntryClears
    <3> DEFINE found == {"session", "otp", "approval", "expired", "device"}
    <3>4. openBars'[o] \cap found = {}  BY <1>p, <2>7, <2>d, <2>n, <3>2, <3>3
    <3>5. ClearedForOpen(open'[o].pc) \subseteq ClearedForOpen(open[o].pc) \cup found
      BY <2>0, <3>1 DEF ClearedForOpen, OpenBarNames
    <3> HIDE DEF found
    <3> QED BY <1>w, <2>n, <3>1, <3>4, <3>5, OpenPasses
  <2> HIDE DEF row, s
  <2> QED BY <2>2, <2>4, <2>5, <2>6, <2>7
<1>5. CASE OpenSendsCode(o) \/ OpenMisses(o)
  <2>1. open'[o] = OpenAt(open[o], "idle")
    BY <1>0, <1>5, OpenGoesTyped DEF OpenSendsCode, OpenMisses
  <2> QED BY <1>0, <1>e, <2>1
<1>6. CASE OpenProves(o)
  <2>1. /\ open[o].pc = "prove" /\ proven' = proven \cup {s} /\ UNCHANGED link
        /\ \/ open'[o] = OpenAt(open[o], "idle")
           \/ /\ open'[o] = OpenAt(open[o], "claim") /\ EntryPc(o) = "claim"
              /\ link.approval => open[o].approved
    BY <1>0, <1>6, OpenGoesTyped DEF OpenProves
  <2>2. CASE open'[o] = OpenAt(open[o], "idle")
    BY <1>0, <1>e, <2>2
  <2>3. CASE /\ open'[o] = OpenAt(open[o], "claim") /\ EntryPc(o) = "claim"
             /\ link.approval => open[o].approved
    <3>1. /\ open'[o].pc = "claim" /\ open'[o].session = s
          /\ open'[o].bound = open[o].bound /\ open'[o].device = open[o].device
      BY <1>0, <2>3, OpenAtNext
    <3>n. open[o].pc \in Entering \ {"link"} /\ s \in Sessions /\ s # Null
      BY <1>k, <2>1 DEF Entering
    <3>2. "otp" \notin BarsOfOpen(o)'
      BY <2>1, <3>1 DEF BarsOfOpen, BarsOfLink, BarsOfSession
    <3>3. "approval" \notin BarsOfOpen(o)
      <4>1. link.approval => session[s].approved  BY <1>0, <2>1, <2>3 DEF OpenSound
      <4> QED BY <3>n, <4>1 DEF BarsOfOpen, BarsOfLink, BarsOfSession
    <3>4. openBars'[o] \cap {"expired", "device"} = {}
      BY <1>w, <2>3, <3>n, EntryClears
    <3> DEFINE found == {"otp", "approval", "expired", "device"}
    <3>5. openBars'[o] \cap found = {}  BY <1>p, <3>2, <3>3, <3>4, <3>n
    <3>6. ClearedForOpen(open'[o].pc) \subseteq ClearedForOpen(open[o].pc) \cup found
      BY <2>1, <3>1 DEF ClearedForOpen, OpenBarNames
    <3> HIDE DEF found
    <3> QED BY <1>w, <3>1, <3>5, <3>6, <3>n, OpenPasses
  <2> QED BY <2>1, <2>2, <2>3
<1>7. CASE OpenClaims(o) \/ OpenBinds(o) \/ OpenMarks(o) \/ OpenFindsFile(o)
  <2>1. PICK to \in {"idle", "bind", "mark", "file", "opened", "dropped"} :
           open'[o] = OpenAt(open[o], to)
    BY <1>0, <1>7, OpenGoesTyped DEF OpenClaims, OpenBinds, OpenMarks, OpenFindsFile
  <2> QED BY <1>0, <1>e, <2>1
<1> QED BY <1>1, <1>2, <1>3, <1>4, <1>5, <1>6, <1>7 DEF OpenStep

\* The bars a request's statement leaves.
LEMMA RequestStepClears ==
    ASSUME WayInv, BarsInv, NEW q \in Requests, RequestStep(q)
    PROVE  RequestCleared(q)'
<1>0. TypeOK /\ RequestSound(q) /\ req[q] \in RequestRow  BY DEF WayInv, TypeOK
<1>w. Watch /\ Grows /\ UNCHANGED link  BY RequestStepMoves DEF Kept
<1>p. /\ reqBars'[q] \subseteq BarsOfRequest(q)'
      /\ req[q].pc # "idle" => reqBars'[q] \subseteq BarsOfRequest(q)
  BY <1>w, BarsShrink DEF BarsInv
<1>e. ASSUME req'[q].pc = "idle"  PROVE RequestCleared(q)'
  BY <1>e, <1>w, RequestBarsStay
<1> DEFINE s == req[q].session
<1>1. ASSUME NEW kind \in {"rendition", "refresh"}, NEW x \in Sessions, NEW d \in Devices,
             RequestArrives(q, kind, x, d)
      PROVE  RequestCleared(q)'
  <2>1. req'[q].pc = "link"  BY <1>0, <1>1 DEF RequestArrives, TypeOK, NoRequest
  <2> QED BY <2>1 DEF RequestCleared, ClearedForRequest
<1>2. CASE RequestLoadsLink(q)
  <2>1. /\ req[q].pc = "link"
        /\ \/ req'[q] = [req[q] EXCEPT !.pc = "session", !.bound = link.bound] /\ link.active
           \/ req'[q] = NoRequest
    BY <1>0, <1>2 DEF RequestLoadsLink, TypeOK
  <2>2. CASE req'[q] = NoRequest
    BY <1>e, <2>2 DEF NoRequest
  <2>3. CASE req'[q] = [req[q] EXCEPT !.pc = "session", !.bound = link.bound] /\ link.active
    <3>1. req'[q].pc = "session" /\ req'[q].bound = link.bound  BY <1>0, <2>3 DEF RequestRow
    <3>2. ClearedForRequest("session", req'[q].kind) = {"link"}  BY DEF ClearedForRequest
    <3>3. "link" \notin BarsOfRequest(q)
      BY <2>3 DEF BarsOfRequest, BarsOfLink, BarsOfSession
    <3>4. "link" \notin reqBars'[q]  BY <1>p, <2>1, <3>3
    <3>5. "device" \in reqBars'[q] => ~(DeviceFits(req[q].bound, req[q].device)')
      <4>1. "device" \in BarsOfRequest(q)' => ~(DeviceFits(link.bound, req[q].device)')
        BY DEF BarsOfRequest, BarsOfLink, BarsOfSession
      <4>2. DeviceFits(link.bound, req[q].device)'
               <=> DeviceFits(req[q].bound, req[q].device)'
        BY <1>w, <3>1 DEF DeviceFits
      <4> QED BY <1>p, <4>1, <4>2
    <3> QED BY <3>1, <3>2, <3>4, <3>5 DEF RequestCleared
  <2> QED BY <2>1, <2>2, <2>3
<1>3. CASE RequestLoadsSession(q)
  <2>1. /\ req[q].pc = "session"
        /\ \/ req'[q] = NoRequest
           \/ /\ req'[q] = [req[q] EXCEPT !.pc = IF req[q].kind = "refresh" THEN "served"
                                                                            ELSE "file"]
              /\ ~session[s].dead /\ ~link.expired
              /\ link.otp => session[s].verified
              /\ link.approval => session[s].approved
              /\ DeviceFits(req[q].bound, req[q].device)
    BY <1>0, <1>3 DEF RequestLoadsSession, RequestGoes, Admitted, TypeOK
  <2>2. CASE req'[q] = NoRequest
    BY <1>e, <2>2 DEF NoRequest
  <2>3. CASE /\ req'[q] = [req[q] EXCEPT !.pc = IF req[q].kind = "refresh" THEN "served"
                                                                            ELSE "file"]
             /\ ~session[s].dead /\ ~link.expired
             /\ link.otp => session[s].verified
             /\ link.approval => session[s].approved
             /\ DeviceFits(req[q].bound, req[q].device)
    <3>1. /\ req'[q].pc = IF req[q].kind = "refresh" THEN "served" ELSE "file"
          /\ req'[q].bound = req[q].bound /\ req'[q].device = req[q].device
          /\ req'[q].kind = req[q].kind
      BY <1>0, <2>3 DEF RequestRow
    <3>2. s \in Sessions /\ s # Null  BY <1>0, <2>1 DEF RequestSound, RequestRow
    <3>3. link.otp => s \in proven
      BY <2>3, <3>2 DEF WayInv, SessionKnown
    <3> DEFINE found == {"session", "otp", "approval", "expired", "device"}
    <3>4. BarsOfRequest(q) \cap {"session", "otp", "approval", "expired"} = {}
      BY <2>3, <3>2, <3>3 DEF BarsOfRequest, BarsOfLink, BarsOfSession
    <3>5. "device" \notin reqBars'[q]
      <4>1. reqBars'[q] \subseteq reqBars[q] /\ RequestCleared(q)
        BY <1>w, <2>1, BarsShrink DEF BarsInv
      <4> QED BY <2>1, <2>3, <4>1 DEF RequestCleared
    <3>6. reqBars'[q] \cap found = {}  BY <1>p, <2>1, <3>4, <3>5
    <3>7. ClearedForRequest(req'[q].pc, req'[q].kind)
             \subseteq ClearedForRequest(req[q].pc, req[q].kind) \cup found
      BY <2>1, <3>1 DEF ClearedForRequest, BarsAsked, OpenBarNames
    <3> HIDE DEF found
    <3> QED BY <1>w, <2>1, <3>1, <3>6, <3>7, RequestPasses
  <2> HIDE DEF s
  <2> QED BY <2>1, <2>2, <2>3
<1>4. CASE RequestFindsFile(q)
  <2>1. /\ req[q].pc = "file"
        /\ \/ req'[q] = NoRequest
           \/ req'[q] = [req[q] EXCEPT !.pc = "served"] /\ fileActive
    BY <1>0, <1>4 DEF RequestFindsFile, RequestGoes, TypeOK
  <2>2. CASE req'[q] = NoRequest
    BY <1>e, <2>2 DEF NoRequest
  <2>3. CASE req'[q] = [req[q] EXCEPT !.pc = "served"] /\ fileActive
    <3>1. /\ req'[q].pc = "served"
          /\ req'[q].bound = req[q].bound /\ req'[q].device = req[q].device
          /\ req'[q].kind = req[q].kind
      BY <1>0, <2>3 DEF RequestRow
    <3>2. "file" \notin BarsOfRequest(q)
      BY <2>3 DEF BarsOfRequest, BarsOfLink, BarsOfSession, OpenBarNames
    <3>3. reqBars'[q] \cap {"file"} = {}  BY <1>p, <2>1, <3>2
    <3>4. ClearedForRequest(req'[q].pc, req'[q].kind)
             \subseteq ClearedForRequest(req[q].pc, req[q].kind) \cup {"file"}
      BY <2>1, <3>1 DEF ClearedForRequest, BarsAsked, RequestBarNames
    <3> QED BY <1>w, <2>1, <3>1, <3>3, <3>4, RequestPasses
  <2> QED BY <2>1, <2>2, <2>3
<1>5. CASE RequestEnds(q)
  <2>1. req'[q] = NoRequest  BY <1>0, <1>5 DEF RequestEnds, RequestGoes, TypeOK
  <2> QED BY <1>e, <2>1 DEF NoRequest
<1> QED BY <1>1, <1>2, <1>3, <1>4, <1>5 DEF RequestStep

\* BarsInv is kept by every step.
LEMMA BarsStep == WayInv /\ BarsInv /\ [Next]_vars => BarsInv'
<1> SUFFICES ASSUME WayInv, BarsInv, [Next]_vars  PROVE BarsInv'
  OBVIOUS
<1>d. ASSUME Watch, \A o \in Opens : OpenCleared(o)', \A q \in Requests : RequestCleared(q)'
      PROVE  BarsInv'
  BY <1>d, BarsShrink DEF BarsInv
<1>1. ASSUME NEW o \in Opens, OpenStep(o)  PROVE BarsInv'
  <2>1. /\ Watch /\ Grows /\ UNCHANGED req /\ \A x \in Opens \ {o} : open'[x] = open[x]
    BY <1>1, OpenStepMoves, OpenStepKeeps DEF Kept
  <2>2. \A x \in Opens : OpenCleared(x)'  BY <1>1, <2>1, OpenStepClears, OpenBarsStay
  <2>3. \A q \in Requests : RequestCleared(q)'  BY <2>1, RequestBarsStay
  <2> QED BY <1>d, <2>1, <2>2, <2>3
<1>2. ASSUME NEW q \in Requests, RequestStep(q)  PROVE BarsInv'
  <2>1. /\ Watch /\ Grows /\ UNCHANGED open /\ \A x \in Requests \ {q} : req'[x] = req[x]
    BY <1>2, RequestStepMoves DEF Kept
  <2>2. \A x \in Opens : OpenCleared(x)'  BY <2>1, OpenBarsStay
  <2>3. \A x \in Requests : RequestCleared(x)'  BY <1>2, <2>1, RequestStepClears, RequestBarsStay
  <2> QED BY <1>d, <2>1, <2>2, <2>3
<1>3. CASE Administer
  <2>1. Watch /\ Grows  BY <1>3, AdministerMoves DEF Kept
  <2>2. ASSUME NEW o \in Opens  PROVE open'[o].pc \notin Entering \/ open'[o] = open[o]
    <3>1. CASE ~UNCHANGED <<open, req>>
      BY <1>3, <3>1, AdministerMoves, RestartEnds DEF Entering
    <3> QED BY <3>1
  <2>3. ASSUME NEW q \in Requests  PROVE req'[q].pc = "idle" \/ req'[q] = req[q]
    BY <1>3, AdministerMoves DEF NoRequest
  <2> QED BY <1>d, <2>1, <2>2, <2>3, OpenBarsStay, RequestBarsStay
<1>4. CASE UNCHANGED vars
  <2>1. /\ \A o \in Opens : BarsOfOpen(o)' = BarsOfOpen(o)
        /\ \A q \in Requests : BarsOfRequest(q)' = BarsOfRequest(q)
    BY <1>4 DEF vars, history, BarsOfOpen, BarsOfRequest, BarsOfLink, BarsOfSession, DeviceFits
  <2> QED BY <1>4, <2>1 DEF vars, history, BarsInv, OpenCleared, RequestCleared, DeviceFits
<1> QED BY <1>1, <1>2, <1>3, <1>4 DEF Next

LEMMA BarsAlways == Spec => [](WayInv /\ BarsInv)
<1>1. Init => BarsInv
  BY DEF Init, BarsInv, OpenCleared, RequestCleared
<1> QED BY <1>1, WayAlways, BarsStep, PTL DEF Spec

\* Nobody is let in over something that has forbidden it ever since his call arrived, on
\* whichever of the ways in he comes, and whatever is approved, revoked or expires meanwhile.
THEOREM VisitorsAreAllowed == Spec => []LetInOnlyWhenAllowed
<1>1. WayInv /\ BarsInv => LetInOnlyWhenAllowed
  <2> SUFFICES ASSUME WayInv, BarsInv, NEW o \in Opens, open[o].pc = "claim"
               PROVE  openBars[o] = {}
    BY DEF LetInOnlyWhenAllowed
  <2>1. openBars[o] \subseteq OpenBarNames
    BY DEF BarsInv, BarsOfOpen, BarsOfLink, BarsOfSession
  <2>2. openBars[o] \cap OpenBarNames = {}  BY DEF BarsInv, OpenCleared, ClearedForOpen
  <2> QED BY <2>1, <2>2
<1> QED BY <1>1, BarsAlways, PTL

\* Nothing is served over something that has forbidden it ever since the request arrived, half
\* a revocation included, and no token minted over anything of it but the trash.
THEOREM VisitorsAreServedAllowed == Spec => []ServedOnlyWhenAllowed
<1>1. WayInv /\ BarsInv => ServedOnlyWhenAllowed
  <2> SUFFICES ASSUME WayInv, BarsInv, NEW q \in Requests, req[q].pc = "served"
               PROVE  reqBars[q] \cap BarsAsked(req[q].kind) = {}
    BY DEF ServedOnlyWhenAllowed
  <2> QED BY DEF BarsInv, RequestCleared, ClearedForRequest
<1> QED BY <1>1, BarsAlways, PTL
=============================================================================
