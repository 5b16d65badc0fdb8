------------------------ MODULE ProtectedViewing_proofs ------------------------
(***************************************************************************)
(* Theorems about ProtectedViewing, for any number of users, devices,      *)
(* restrictions, openings and requests.                                    *)
(***************************************************************************)
EXTENDS ProtectedViewing, FiniteSetTheorems, TLAPS

-----------------------------------------------------------------------------
(* Type correctness                                                        *)

\* The standing bars are sets of the named reasons, whatever a step does.
LEMMA WatchTyped ==
    ASSUME Watch
    PROVE  /\ viewBars' \in [Views -> SUBSET ViewBarNames]
           /\ reqBars' \in [Requests -> SUBSET RequestBarNames]
<1>1. \A v \in Views : BarsOfView(v)' \subseteq ViewBarNames
  BY DEF BarsOfView
<1>2. \A q \in Requests : BarsOfRequest(q)' \subseteq RequestBarNames
  BY DEF BarsOfRequest
<1> QED BY <1>1, <1>2 DEF Watch

\* The state the archive starts in is well typed.
LEMMA InitTyped == Init => TypeOK
BY ViewingAssumption DEF Init, TypeOK, NoRestriction, NoView, NoRequest, ViewPCs, RequestPCs,
   Windows, NoQuota, RestrictionRow, ViewRow, RequestRow

\* A step that gives one view a well-typed row, and at most recounts the restrictions.
LEMMA ViewChangeTyped ==
    ASSUME TypeOK, NEW v \in Views, NEW row \in ViewRow,
           view' = [view EXCEPT ![v] = row],
           restr' \in [Restrictions -> RestrictionRow],
           UNCHANGED <<policy, req, changes, quotas>>, Watch
    PROVE  TypeOK'
<1>1. view' \in [Views -> ViewRow]  BY DEF TypeOK
<1> QED BY <1>1, WatchTyped DEF TypeOK, policy

\* A step that gives one request a well-typed row.
LEMMA RequestChangeTyped ==
    ASSUME TypeOK, NEW q \in Requests, NEW row \in RequestRow,
           req' = [req EXCEPT ![q] = row],
           view' \in [Views -> ViewRow],
           UNCHANGED <<policy, restr, changes, quotas>>, Watch
    PROVE  TypeOK'
<1>1. req' \in [Requests -> RequestRow]  BY DEF TypeOK
<1> QED BY <1>1, WatchTyped DEF TypeOK, policy

\* A check of createSession moves one view to its next statement or refuses it.
LEMMA ViewStepTyped ==
    ASSUME TypeOK, NEW v \in Views, NEW from, NEW ok, NEW to \in ViewPCs,
           ViewStep(v, from, ok, to)
    PROVE  TypeOK'
<1> DEFINE row == [view[v] EXCEPT !.pc = IF ok THEN to ELSE "refused"]
<1>1. row \in ViewRow
  <2>1. view[v] \in ViewRow  BY DEF TypeOK
  <2>2. "refused" \in ViewPCs  BY DEF ViewPCs
  <2> QED BY <2>1, <2>2 DEF ViewRow
<1>2. view' = [view EXCEPT ![v] = row]  BY DEF ViewStep
<1>3. restr' \in [Restrictions -> RestrictionRow]  BY DEF TypeOK, ViewStep
<1> HIDE DEF row
<1> QED BY <1>1, <1>2, <1>3, ViewChangeTyped DEF ViewStep

\* A check of a request moves it to its next statement or ends it.
LEMMA RequestStepTyped ==
    ASSUME TypeOK, NEW q \in Requests, NEW from, NEW ok, NEW to \in RequestPCs,
           RequestStep(q, from, ok, to)
    PROVE  TypeOK'
<1> DEFINE row == IF ok THEN [req[q] EXCEPT !.pc = to] ELSE NoRequest
<1>1. row \in RequestRow
  BY DEF TypeOK, RequestRow, NoRequest, RequestPCs
<1>2. req' = [req EXCEPT ![q] = row]  BY DEF RequestStep, TypeOK
<1>3. view' \in [Views -> ViewRow]  BY DEF TypeOK, RequestStep
<1> HIDE DEF row
<1> QED BY <1>1, <1>2, <1>3, RequestChangeTyped DEF RequestStep

\* Every statement of createSession, and the expiry of its session, keeps the types.
LEMMA CreateSessionTyped ==
    ASSUME TypeOK, NEW v \in Views, CreateSession(v)
    PROVE  TypeOK'
<1>0. view[v] \in ViewRow  BY DEF TypeOK
<1>pc. {"idle", "refused", "file", "access", "sensitive", "device", "restrictions", "claim",
        "create", "live", "expired", "dropped"} = ViewPCs
  BY DEF ViewPCs, Opening, Charged
<1>1. ASSUME NEW u \in Users, NEW d \in Devices \cup {Null}, ViewArrives(v, u, d)
      PROVE  TypeOK'
  <2> DEFINE row == [NoView EXCEPT !.pc = "file", !.user = u, !.device = d]
  <2>0. NoView \in ViewRow
    BY <1>pc, ViewingAssumption DEF NoView, ViewRow, NoQuota
  <2>1. row \in ViewRow  BY <1>pc, <2>0 DEF ViewRow
  <2>2. view' = [view EXCEPT ![v] = row]  BY <1>1 DEF ViewArrives
  <2>3. restr' \in [Restrictions -> RestrictionRow]  BY <1>1 DEF TypeOK, ViewArrives
  <2> HIDE DEF row
  <2> QED BY <1>1, <2>1, <2>2, <2>3, ViewChangeTyped DEF ViewArrives
<1>2. CASE ViewFindsFile(v)
  BY <1>2, <1>pc, ViewStepTyped DEF ViewFindsFile, TypeOK
<1>3. CASE ViewChecksAccess(v)
  BY <1>3, <1>pc, ViewStepTyped DEF ViewChecksAccess
<1>4. CASE ViewReadsTags(v)
  BY <1>4, <1>pc, ViewStepTyped DEF ViewReadsTags
<1>5. CASE ViewFindsDevice(v)
  BY <1>5, <1>pc, ViewStepTyped DEF ViewFindsDevice
<1>6. CASE ViewReadsRestrictions(v)
  <2> DEFINE usable == UsableFor(view[v].user, view[v].device)
  <2>1. CASE ActiveRestrictions # {} /\ usable # {}
    <3>1. PICK r \in Tightest(usable) :
             view' = [view EXCEPT ![v].pc = "claim", ![v].rid = r, ![v].max = restr[r].maxViews]
      BY <1>6, <2>1 DEF ViewReadsRestrictions
    <3>2. r \in Restrictions
      BY DEF Tightest, UsableFor, Governing, ActiveRestrictions
    <3> DEFINE row == [view[v] EXCEPT !.pc = "claim", !.rid = r, !.max = restr[r].maxViews]
    <3>3. restr[r].maxViews \in 0..MaxQuota  BY <3>2 DEF TypeOK, RestrictionRow
    <3>4. row \in ViewRow  BY <1>0, <1>pc, <3>2, <3>3 DEF ViewRow
    <3>5. view' = [view EXCEPT ![v] = row]  BY <3>1, <1>0 DEF ViewRow
    <3>6. /\ UNCHANGED <<policy, restr, req, changes, quotas>>
          /\ Watch
      BY <1>6, <2>1 DEF ViewReadsRestrictions
    <3>7. restr' \in [Restrictions -> RestrictionRow]  BY <3>6 DEF TypeOK
    <3> HIDE DEF row
    <3> QED BY <3>4, <3>5, <3>6, <3>7, ViewChangeTyped
  <2>2. CASE ~(ActiveRestrictions # {} /\ usable # {})
    BY <1>6, <2>2, <1>pc, ViewStepTyped DEF ViewReadsRestrictions
  <2> QED BY <2>1, <2>2
<1>7. CASE ViewClaims(v)
  <2> DEFINE r == view[v].rid
             row(pc) == [view[v] EXCEPT !.pc = pc]
  <2>1. restr' \in [Restrictions -> RestrictionRow]
    <3>1. [restr EXCEPT ![r].used = @ + 1] \in [Restrictions -> RestrictionRow]
      <4> DEFINE counted == [restr[r] EXCEPT !.used = @ + 1]
      <4>1. r \in Restrictions => counted \in RestrictionRow
        BY DEF TypeOK, RestrictionRow
      <4>2. [restr EXCEPT ![r].used = @ + 1] = [restr EXCEPT ![r] = counted]
        OBVIOUS
      <4> HIDE DEF counted
      <4> QED BY <4>1, <4>2 DEF TypeOK
    <3> QED BY <1>7, <3>1 DEF ViewClaims, TypeOK
  <2>2. PICK pc \in {"create", "refused"} : view' = [view EXCEPT ![v] = row(pc)]
    BY <1>7 DEF ViewClaims
  <2>3. row(pc) \in ViewRow  BY <1>0, <1>pc, <2>2 DEF ViewRow
  <2> HIDE DEF row
  <2> QED BY <1>7, <2>1, <2>2, <2>3, ViewChangeTyped DEF ViewClaims
<1>8. CASE ViewCreatesSession(v)
  <2> DEFINE row == [view[v] EXCEPT !.pc = "live", !.token = TRUE]
  <2>1. row \in ViewRow  BY <1>0, <1>pc DEF ViewRow
  <2>2. view' = [view EXCEPT ![v] = row]  BY <1>8 DEF ViewCreatesSession
  <2>3. restr' \in [Restrictions -> RestrictionRow]  BY <1>8 DEF TypeOK, ViewCreatesSession
  <2> HIDE DEF row
  <2> QED BY <1>8, <2>1, <2>2, <2>3, ViewChangeTyped DEF ViewCreatesSession
<1>9. CASE ViewInsertFails(v)
  <2> DEFINE row == [view[v] EXCEPT !.pc = "dropped"]
  <2>1. row \in ViewRow  BY <1>0, <1>pc DEF ViewRow
  <2>2. view' = [view EXCEPT ![v] = row]  BY <1>9 DEF ViewInsertFails
  <2>3. restr' \in [Restrictions -> RestrictionRow]  BY <1>9 DEF TypeOK, ViewInsertFails
  <2> HIDE DEF row
  <2> QED BY <1>9, <2>1, <2>2, <2>3, ViewChangeTyped DEF ViewInsertFails
<1>10. CASE SessionExpires(v)
  BY <1>10, <1>pc, ViewStepTyped DEF SessionExpires
<1>11. CASE TokenExpires(v)
  <2> DEFINE row == [view[v] EXCEPT !.token = FALSE]
  <2>1. row \in ViewRow  BY <1>0 DEF ViewRow
  <2>2. view' = [view EXCEPT ![v] = row]  BY <1>11 DEF TokenExpires
  <2>3. restr' \in [Restrictions -> RestrictionRow]  BY <1>11 DEF TypeOK, TokenExpires
  <2> HIDE DEF row
  <2> QED BY <1>11, <2>1, <2>2, <2>3, ViewChangeTyped DEF TokenExpires
<1> QED BY <1>1, <1>2, <1>3, <1>4, <1>5, <1>6, <1>7, <1>8, <1>9, <1>10, <1>11
        DEF CreateSession

\* Every step of a rendition or refresh request keeps the types.
LEMMA ServeRequestTyped ==
    ASSUME TypeOK, NEW q \in Requests, ServeRequest(q)
    PROVE  TypeOK'
<1>pc. {"idle", "session", "sensitive", "device", "restriction", "access", "file", "served"}
          = RequestPCs
  BY DEF RequestPCs
<1>1. ASSUME NEW kind \in {"rendition", "refresh"}, NEW v \in Views,
             NEW d \in Devices \cup {Null}, RequestArrives(q, kind, v, d)
      PROVE  TypeOK'
  <2> DEFINE row == [pc |-> "session", kind |-> kind, view |-> v, device |-> d]
  <2>1. row \in RequestRow  BY <1>pc DEF RequestRow
  <2>2. req' = [req EXCEPT ![q] = row]  BY <1>1 DEF RequestArrives
  <2>3. view' \in [Views -> ViewRow]  BY <1>1 DEF TypeOK, RequestArrives
  <2> HIDE DEF row
  <2> QED BY <1>1, <2>1, <2>2, <2>3, RequestChangeTyped DEF RequestArrives
<1>2. CASE RequestLoadsSession(q)
  BY <1>2, <1>pc, RequestStepTyped DEF RequestLoadsSession
<1>3. CASE RequestReadsTags(q)
  BY <1>3, <1>pc, RequestStepTyped DEF RequestReadsTags
<1>4. CASE RequestFindsDevice(q)
  BY <1>4, <1>pc, RequestStepTyped DEF RequestFindsDevice
<1>5. CASE RequestRechecks(q)
  <2> DEFINE ok == StillHolds(view[req[q].view].rid, req[q].device)
             row == [req[q] EXCEPT !.pc = "served"]
  <2>1. CASE RequestStep(q, "restriction", ok, "access")
    BY <2>1, <1>pc, RequestStepTyped
  <2>2. CASE RequestStep(q, "restriction", FALSE, "served")
    BY <2>2, <1>pc, RequestStepTyped
  <2>3. CASE /\ req' = [req EXCEPT ![q].pc = "served"]
             /\ view' = [view EXCEPT ![req[q].view].token = TRUE]
             /\ UNCHANGED <<policy, restr, changes, quotas>>
             /\ Watch
    <3>1. row \in RequestRow  BY <1>pc DEF TypeOK, RequestRow
    <3>2. req' = [req EXCEPT ![q] = row]  BY <2>3
    <3>3. view' \in [Views -> ViewRow]
      <4> DEFINE v == req[q].view
                 minted == [view[v] EXCEPT !.token = TRUE]
      <4>1. v \in Views => minted \in ViewRow  BY DEF TypeOK, ViewRow
      <4>2. view' = [view EXCEPT ![v] = minted]  BY <2>3
      <4> HIDE DEF minted
      <4> QED BY <4>1, <4>2 DEF TypeOK
    <3> HIDE DEF row
    <3> QED BY <2>3, <3>1, <3>2, <3>3, RequestChangeTyped
  <2> QED BY <1>5, <2>1, <2>2, <2>3 DEF RequestRechecks
<1>6. CASE RequestChecksAccess(q)
  BY <1>6, <1>pc, RequestStepTyped DEF RequestChecksAccess
<1>7. CASE RequestFindsFile(q)
  BY <1>7, <1>pc, RequestStepTyped DEF RequestFindsFile
<1>8. CASE RequestEnds(q)
  BY <1>8, <1>pc, RequestStepTyped DEF RequestEnds
<1> QED BY <1>1, <1>2, <1>3, <1>4, <1>5, <1>6, <1>7, <1>8 DEF ServeRequest

\* The counter of changes stays within its bound.
LEMMA ChangeTyped == TypeOK /\ Change => changes' \in 0..MaxChanges
BY ViewingAssumption DEF TypeOK, Change

\* A step on one restriction writes a well-typed row and well-typed quotas.
LEMMA RestrictionChangeTyped ==
    ASSUME TypeOK, NEW r \in Restrictions, NEW row \in RestrictionRow,
           NEW carried \in SUBSET (0..MaxQuota),
           restr' = [restr EXCEPT ![r] = row], quotas' = [quotas EXCEPT ![r] = carried],
           changes' \in 0..MaxChanges,
           UNCHANGED <<policy, view, req>>, Watch
    PROVE  TypeOK'
<1>1. restr' \in [Restrictions -> RestrictionRow]  BY DEF TypeOK
<1>2. quotas' \in [Restrictions -> SUBSET (0..MaxQuota)]  BY DEF TypeOK
<1> QED BY <1>1, <1>2, WatchTyped DEF TypeOK, policy

\* Every administrative step, and a restart, keeps the types.
LEMMA AdministerTyped ==
    ASSUME TypeOK, Administer
    PROVE  TypeOK'
<1>r. \A r \in Restrictions : /\ restr[r] \in RestrictionRow
                              /\ quotas[r] \in SUBSET (0..MaxQuota)
                              /\ quotas = [quotas EXCEPT ![r] = quotas[r]]
  BY DEF TypeOK
<1>1. ASSUME NEW r \in Restrictions, NEW u \in Users \cup {Null}, NEW d \in Devices \cup {Null},
             NEW w \in Windows, NEW max \in 0..MaxQuota, CreateRestriction(r, u, d, w, max)
      PROVE  TypeOK'
  <2> DEFINE row == [exists |-> TRUE, active |-> TRUE, user |-> u, device |-> d,
                     window |-> w, maxViews |-> max, used |-> 0]
  <2>1. row \in RestrictionRow  BY DEF RestrictionRow
  <2>2. restr' = [restr EXCEPT ![r] = row]  BY <1>1 DEF CreateRestriction
  <2> HIDE DEF row
  <2> QED BY <1>1, <2>1, <2>2, ChangeTyped, RestrictionChangeTyped DEF CreateRestriction
<1>2. ASSUME NEW r \in Restrictions, NEW w \in Windows, UpdateWindow(r, w)
      PROVE  TypeOK'
  <2> DEFINE row == [restr[r] EXCEPT !.window = w]
  <2>1. row \in RestrictionRow  BY <1>r DEF RestrictionRow
  <2>2. restr' = [restr EXCEPT ![r] = row]  BY <1>2 DEF UpdateWindow
  <2> HIDE DEF row
  <2> QED BY <1>2, <1>r, <2>1, <2>2, ChangeTyped, RestrictionChangeTyped DEF UpdateWindow
<1>3. ASSUME NEW r \in Restrictions, NEW max \in 0..MaxQuota, UpdateQuota(r, max)
      PROVE  TypeOK'
  <2> DEFINE row == [restr[r] EXCEPT !.maxViews = max]
             carried == quotas[r] \cup {max}
  <2>1. row \in RestrictionRow  BY <1>r DEF RestrictionRow
  <2>2. restr' = [restr EXCEPT ![r] = row]  BY <1>3 DEF UpdateQuota
  <2>3. carried \in SUBSET (0..MaxQuota)  BY <1>r
  <2>4. quotas' = [quotas EXCEPT ![r] = carried]  BY <1>3 DEF UpdateQuota
  <2> HIDE DEF row, carried
  <2> QED BY <1>3, <2>1, <2>2, <2>3, <2>4, ChangeTyped, RestrictionChangeTyped DEF UpdateQuota
<1>4. ASSUME NEW r \in Restrictions, RevokeRestriction(r)
      PROVE  TypeOK'
  <2> DEFINE row == [restr[r] EXCEPT !.active = FALSE]
  <2>1. row \in RestrictionRow  BY <1>r DEF RestrictionRow
  <2>2. restr' = [restr EXCEPT ![r] = row]  BY <1>4 DEF RevokeRestriction
  <2> HIDE DEF row
  <2> QED BY <1>4, <1>r, <2>1, <2>2, ChangeTyped, RestrictionChangeTyped DEF RevokeRestriction
<1>5. ASSUME NEW r \in Restrictions, WindowCloses(r)
      PROVE  TypeOK'
  <2> DEFINE row == [restr[r] EXCEPT !.window = "past"]
  <2>1. row \in RestrictionRow  BY <1>r DEF RestrictionRow, Windows
  <2>2. restr' = [restr EXCEPT ![r] = row]  BY <1>5 DEF WindowCloses
  <2>3. changes' \in 0..MaxChanges  BY <1>5 DEF WindowCloses, TypeOK
  <2> HIDE DEF row
  <2> QED BY <1>5, <1>r, <2>1, <2>2, <2>3, RestrictionChangeTyped DEF WindowCloses
<1>6. ASSUME NEW u \in Users, NEW d \in Devices, ApproveDevice(u, d) \/ RevokeDevice(u, d)
      PROVE  TypeOK'
  <2>1. approved' \subseteq Users \X Devices
    BY <1>6 DEF ApproveDevice, RevokeDevice, TypeOK
  <2> QED BY <1>6, <2>1, WatchTyped, ChangeTyped DEF ApproveDevice, RevokeDevice, TypeOK
<1>7. CASE FileOrRulesChange
  <2>1. fileActive' \in BOOLEAN /\ sensitive' \in BOOLEAN /\ viewers' \subseteq Users
    BY <1>7 DEF FileOrRulesChange, TypeOK
  <2> QED BY <1>7, <2>1, WatchTyped, ChangeTyped DEF FileOrRulesChange, TypeOK
<1>8. CASE Restart
  <2>1. view' \in [Views -> ViewRow]
    <3>1. ASSUME NEW v \in Views
          PROVE  /\ view[v] \in ViewRow
                 /\ [view[v] EXCEPT !.pc = "dropped"] \in ViewRow
                 /\ [view[v] EXCEPT !.pc = "refused"] \in ViewRow
      BY DEF TypeOK, ViewRow, ViewPCs, Charged
    <3> QED BY <1>8, <3>1 DEF Restart
  <2>2. NoRequest \in RequestRow  BY DEF NoRequest, RequestRow, RequestPCs
  <2>3. req' \in [Requests -> RequestRow]  BY <1>8, <2>2 DEF Restart
  <2> QED BY <1>8, <2>1, <2>3, WatchTyped, ChangeTyped DEF Restart, TypeOK, policy
<1> QED BY <1>1, <1>2, <1>3, <1>4, <1>5, <1>6, <1>7, <1>8 DEF Administer

\* ProtectedViewing keeps its rows well typed.
THEOREM TypeCorrect == Spec => []TypeOK
<1>1. TypeOK /\ [Next]_vars => TypeOK'
  <2> SUFFICES ASSUME TypeOK, [Next]_vars  PROVE TypeOK'
    OBVIOUS
  <2>1. CASE Next
    BY <2>1, CreateSessionTyped, ServeRequestTyped, AdministerTyped DEF Next
  <2>2. CASE UNCHANGED vars
    BY <2>2 DEF vars, policy, history, TypeOK
  <2> QED BY <2>1, <2>2
<1> QED BY InitTyped, <1>1, PTL DEF Spec

-----------------------------------------------------------------------------
(* Counted views.  CountInv strengthens ChargedExactlyOnce and              *)
(* QuotaNeverOverrun until it is inductive: the maxViews an opening carries *)
(* from its read to its claim was once the row's own, and an opening that   *)
(* has not read the restrictions is bound to none.                          *)

Early == {"idle", "file", "access", "sensitive", "device", "restrictions"}

ClaimOnRecord ==
    \A v \in Views :
        /\ view[v].pc = "claim" => /\ view[v].rid \in Restrictions
                                   /\ view[v].max \in quotas[view[v].rid]
        /\ view[v].pc \in Early => view[v].rid = Null

RowOnRecord ==
    \A r \in Restrictions :
        IF restr[r].exists
        THEN restr[r].maxViews \in quotas[r]
        ELSE /\ ~restr[r].active /\ quotas[r] = {}
             /\ \A v \in Views : view[v].rid # r

CountInv == ClaimOnRecord /\ RowOnRecord /\ ChargedExactlyOnce /\ QuotaNeverOverrun

\* A step that charges view v to nothing new, though it may choose a row to claim.
KeepsCharge(v) ==
    \/ /\ view'[v].rid = view[v].rid
       /\ view'[v].pc = "claim" => view[v].pc = "claim" /\ view'[v].max = view[v].max
       /\ view'[v].pc \in Early => view[v].pc \in Early
       /\ view[v].rid \in Restrictions => (view'[v].pc \in Charged <=> view[v].pc \in Charged)
    \/ /\ view[v].pc = "restrictions" /\ view'[v].pc = "claim"
       /\ view'[v].rid \in Restrictions /\ restr[view'[v].rid].exists
       /\ view'[v].max \in quotas[view'[v].rid]

\* A step that leaves the views counted against restriction r alone.
KeepsCount(r) ==
    /\ restr'[r].exists = restr[r].exists
    /\ restr'[r].used = restr[r].used
    /\ restr'[r].active => restr[r].active
    /\ quotas[r] \subseteq quotas'[r]
    /\ IF restr[r].exists THEN restr'[r].maxViews \in quotas'[r] ELSE quotas'[r] = quotas[r]

\* Counting is undisturbed when every view keeps its charge and every row its count.
LEMMA QuietStep ==
    ASSUME TypeOK, TypeOK', CountInv,
           \A v \in Views : KeepsCharge(v), \A r \in Restrictions : KeepsCount(r)
    PROVE  CountInv' /\ \A r \in Restrictions : ChargedTo(r)' = ChargedTo(r)
<1>1. \A r \in Restrictions : ChargedTo(r)' = ChargedTo(r)
  BY DEF ChargedTo, KeepsCharge, Charged
<1>2. ClaimOnRecord'
  BY DEF CountInv, ClaimOnRecord, KeepsCharge, KeepsCount, Early
<1>3. RowOnRecord'
  <2> SUFFICES ASSUME NEW r \in Restrictions
               PROVE  IF restr'[r].exists
                      THEN restr'[r].maxViews \in quotas'[r]
                      ELSE /\ ~restr'[r].active /\ quotas'[r] = {}
                           /\ \A v \in Views : view'[v].rid # r
    BY DEF RowOnRecord
  <2> QED BY DEF CountInv, RowOnRecord, KeepsCharge, KeepsCount
<1>4. ChargedExactlyOnce'
  BY <1>1 DEF CountInv, ChargedExactlyOnce, KeepsCount
<1>5. QuotaNeverOverrun'
  <2> SUFFICES ASSUME NEW r \in Restrictions, restr'[r].used > 0
               PROVE  NoQuota \in quotas'[r] \/ \E n \in quotas'[r] : restr'[r].used <= n
    BY DEF QuotaNeverOverrun, NoQuota
  <2> QED BY DEF CountInv, QuotaNeverOverrun, KeepsCount, NoQuota
<1> QED BY <1>1, <1>2, <1>3, <1>4, <1>5 DEF CountInv

\* Nothing is counted in the state the archive starts in.
LEMMA InitCounts == Init => CountInv
<1> SUFFICES ASSUME Init  PROVE CountInv
  OBVIOUS
<1>1. \A r \in Restrictions : ChargedTo(r) = {}
  BY ViewingAssumption DEF Init, ChargedTo, NoView
<1>2. ClaimOnRecord  BY DEF Init, ClaimOnRecord, NoView
<1>3. RowOnRecord  BY ViewingAssumption DEF Init, RowOnRecord, NoView, NoRestriction
<1>4. ChargedExactlyOnce
  BY <1>1, FS_EmptySet DEF Init, ChargedExactlyOnce, NoRestriction
<1>5. QuotaNeverOverrun  BY DEF Init, QuotaNeverOverrun, NoRestriction
<1> QED BY <1>2, <1>3, <1>4, <1>5 DEF CountInv

\* A step that changes neither rows nor quotas keeps the count of every restriction.
LEMMA RowsUnchanged ==
    ASSUME CountInv, UNCHANGED <<restr, quotas>>
    PROVE  \A r \in Restrictions : KeepsCount(r)
BY DEF CountInv, RowOnRecord, KeepsCount

\* A step that changes one view keeps the charge of every other view.
LEMMA OtherViewsKeep ==
    ASSUME TypeOK, NEW v \in Views, NEW row, view' = [view EXCEPT ![v] = row]
    PROVE  /\ view'[v] = row
           /\ \A w \in Views \ {v} : KeepsCharge(w)
BY DEF TypeOK, KeepsCharge

\* A check of createSession before the claim, or the end of a session, counts nothing.
LEMMA ViewStepQuiet ==
    ASSUME TypeOK, CountInv, NEW v \in Views, NEW from, NEW ok, NEW to,
           ViewStep(v, from, ok, to),
           \/ from \in Early /\ to \in Early \cup {"create"}
           \/ from = "live" /\ ok /\ to = "expired"
    PROVE  /\ \A w \in Views : KeepsCharge(w)
           /\ \A r \in Restrictions : KeepsCount(r)
<1> DEFINE row == [view[v] EXCEPT !.pc = IF ok THEN to ELSE "refused"]
<1>1. view' = [view EXCEPT ![v] = row]  BY DEF ViewStep
<1>2. row.rid = view[v].rid /\ row.pc = IF ok THEN to ELSE "refused"
  BY DEF TypeOK, ViewRow
<1> HIDE DEF row
<1>3. view'[v] = row /\ \A w \in Views \ {v} : KeepsCharge(w)
  BY <1>1, OtherViewsKeep
<1>4. view[v].pc = from  BY DEF ViewStep
<1>5. CASE from \in Early /\ to \in Early \cup {"create"}
  <2>1. view[v].rid = Null  BY <1>4, <1>5 DEF CountInv, ClaimOnRecord
  <2>2. KeepsCharge(v)
    BY <1>2, <1>3, <1>4, <1>5, <2>1, ViewingAssumption DEF KeepsCharge, Early
  <2> QED BY <1>3, <2>2, RowsUnchanged DEF ViewStep
<1>6. CASE from = "live" /\ ok /\ to = "expired"
  <2>1. KeepsCharge(v)
    BY <1>2, <1>3, <1>4, <1>6 DEF KeepsCharge, Early, Charged
  <2> QED BY <1>3, <2>1, RowsUnchanged DEF ViewStep
<1> QED BY <1>5, <1>6

\* The views counted against a restriction are finitely many.
LEMMA ChargedFinite ==
    \A r : IsFiniteSet(ChargedTo(r)) /\ Cardinality(ChargedTo(r)) \in Nat
<1> TAKE r
<1>1. ChargedTo(r) \subseteq Views  BY DEF ChargedTo
<1> QED BY <1>1, ViewingAssumption, FS_Subset, FS_CardinalityType

\* A granted claim adds exactly the claiming view to the row it claims, and there was
\* room for it.
LEMMA ClaimCharges ==
    ASSUME TypeOK, TypeOK', CountInv, NEW v \in Views, ViewClaims(v),
           NEW r, r = view[v].rid, ClaimGranted(r, view[v].max)
    PROVE  /\ CountInv'
           /\ r \in Restrictions
           /\ NoQuota \in quotas[r] \/ \E n \in quotas[r] : Cardinality(ChargedTo(r)) < n
           /\ \A s \in Restrictions : v \notin ChargedTo(s)
           /\ ChargedTo(r)' = ChargedTo(r) \cup {v}
           /\ \A s \in Restrictions \ {r} : ChargedTo(s)' = ChargedTo(s)
           /\ quotas' = quotas
<1> DEFINE row == [view[v] EXCEPT !.pc = "create"]
<1>1. /\ view[v].pc = "claim"
      /\ view' = [view EXCEPT ![v] = row]
      /\ restr' = [restr EXCEPT ![r].used = @ + 1]
      /\ quotas' = quotas
  BY DEF ViewClaims
<1>2. r \in Restrictions /\ view[v].max \in quotas[r]
  BY <1>1 DEF CountInv, ClaimOnRecord
<1>3. row.pc = "create" /\ row.rid = r  BY DEF TypeOK, ViewRow
<1>3a. view[v].max \in Nat /\ restr[r].used \in Nat
  <2>1. view[v] \in ViewRow /\ restr[r] \in RestrictionRow  BY <1>2 DEF TypeOK
  <2> QED BY <2>1, ViewingAssumption DEF ViewRow, RestrictionRow
<1> HIDE DEF row
<1>4. view'[v] = row /\ \A w \in Views \ {v} : view'[w] = view[w]
  BY <1>1 DEF TypeOK
<1>5. /\ restr'[r] = [restr[r] EXCEPT !.used = @ + 1]
      /\ \A s \in Restrictions \ {r} : restr'[s] = restr[s]
  BY <1>1, <1>2 DEF TypeOK
<1>6. /\ restr'[r].used = restr[r].used + 1
      /\ restr'[r].exists = restr[r].exists
      /\ restr'[r].active = restr[r].active
      /\ restr'[r].maxViews = restr[r].maxViews
  BY <1>2, <1>5 DEF TypeOK, RestrictionRow
<1>7. \A s \in Restrictions : v \notin ChargedTo(s)  BY <1>1 DEF ChargedTo, Charged
<1>8. ChargedTo(r)' = ChargedTo(r) \cup {v}
  BY <1>2, <1>3, <1>4 DEF ChargedTo, Charged
<1>9. \A s \in Restrictions \ {r} : ChargedTo(s)' = ChargedTo(s)
  BY <1>1, <1>3, <1>4 DEF ChargedTo, Charged
<1>10. Cardinality(ChargedTo(r)') = Cardinality(ChargedTo(r)) + 1
  BY <1>2, <1>7, <1>8, ChargedFinite, FS_AddElement
<1>11. restr[r].used = Cardinality(ChargedTo(r))
  BY <1>2 DEF CountInv, ChargedExactlyOnce
<1>12. NoQuota \in quotas[r] \/ \E n \in quotas[r] : n \in Nat /\ restr[r].used < n
  BY <1>2, <1>3a DEF ClaimGranted
<1>13. ClaimOnRecord'
  BY <1>1, <1>3, <1>4 DEF CountInv, ClaimOnRecord, Early
<1>14. RowOnRecord'
  <2>1. \A w \in Views : view'[w].rid = view[w].rid
    BY <1>3, <1>4
  <2> QED BY <1>1, <1>5, <1>6, <2>1 DEF CountInv, RowOnRecord
<1>15. ChargedExactlyOnce'
  <2> SUFFICES ASSUME NEW s \in Restrictions
               PROVE  restr'[s].used = Cardinality(ChargedTo(s)')
    BY DEF ChargedExactlyOnce
  <2>1. CASE s = r  BY <1>6, <1>10, <1>11, <2>1
  <2>2. CASE s # r  BY <1>5, <1>9, <2>2 DEF CountInv, ChargedExactlyOnce
  <2> QED BY <2>1, <2>2
<1>16. QuotaNeverOverrun'
  <2>1. NoQuota \in quotas'[r] \/ \E n \in quotas'[r] : restr'[r].used <= n
    BY <1>1, <1>3a, <1>6, <1>12
  <2> QED BY <1>1, <1>5, <2>1 DEF CountInv, QuotaNeverOverrun
<1> QED BY <1>1, <1>2, <1>7, <1>8, <1>9, <1>11, <1>12, <1>13, <1>14, <1>15, <1>16
        DEF CountInv

\* The other statements of createSession count nothing.
LEMMA CreateSessionQuiet ==
    ASSUME TypeOK, CountInv, NEW v \in Views, CreateSession(v),
           ~(ViewClaims(v) /\ ClaimGranted(view[v].rid, view[v].max))
    PROVE  /\ CountInv' /\ UNCHANGED quotas
           /\ \A r \in Restrictions : ChargedTo(r)' = ChargedTo(r)
<1>0. TypeOK'  BY CreateSessionTyped
<1> SUFFICES /\ \A w \in Views : KeepsCharge(w)
             /\ \A r \in Restrictions : KeepsCount(r)
             /\ UNCHANGED quotas
  BY <1>0, QuietStep
<1>1. ASSUME NEW u \in Users, NEW d \in Devices \cup {Null}, ViewArrives(v, u, d)
      PROVE  /\ \A w \in Views : KeepsCharge(w)
             /\ \A r \in Restrictions : KeepsCount(r)
             /\ UNCHANGED quotas
  <2> DEFINE row == [NoView EXCEPT !.pc = "file", !.user = u, !.device = d]
  <2>1. view' = [view EXCEPT ![v] = row]  BY <1>1 DEF ViewArrives
  <2>2. row.pc = "file" /\ row.rid = Null  BY DEF NoView
  <2> HIDE DEF row
  <2>3. view[v].pc = "idle"  BY <1>1 DEF ViewArrives
  <2>4. view[v].rid = Null  BY <2>3 DEF CountInv, ClaimOnRecord, Early
  <2>5. view'[v] = row /\ \A w \in Views \ {v} : KeepsCharge(w)  BY <2>1, OtherViewsKeep
  <2>6. KeepsCharge(v)
    BY <2>2, <2>3, <2>4, <2>5, ViewingAssumption DEF KeepsCharge, Early
  <2> QED BY <1>1, <2>5, <2>6, RowsUnchanged DEF ViewArrives
<1>2. ASSUME \/ ViewFindsFile(v) \/ ViewChecksAccess(v) \/ ViewReadsTags(v)
             \/ ViewFindsDevice(v) \/ SessionExpires(v)
      PROVE  /\ \A w \in Views : KeepsCharge(w)
             /\ \A r \in Restrictions : KeepsCount(r)
             /\ UNCHANGED quotas
  <2>1. \E from, ok, to : /\ ViewStep(v, from, ok, to)
                          /\ \/ from \in Early /\ to \in Early \cup {"create"}
                             \/ from = "live" /\ ok /\ to = "expired"
    <3>1. CASE ViewFindsFile(v)  BY <3>1 DEF ViewFindsFile, Early
    <3>2. CASE ViewChecksAccess(v)  BY <3>2 DEF ViewChecksAccess, Early
    <3>3. CASE ViewReadsTags(v)  BY <3>3 DEF ViewReadsTags, Early
    <3>4. CASE ViewFindsDevice(v)  BY <3>4 DEF ViewFindsDevice, Early
    <3>5. CASE SessionExpires(v)  BY <3>5 DEF SessionExpires
    <3> QED BY <1>2, <3>1, <3>2, <3>3, <3>4, <3>5
  <2>2. UNCHANGED quotas  BY <2>1 DEF ViewStep
  <2> QED BY <2>1, <2>2, ViewStepQuiet
<1>3. CASE ViewReadsRestrictions(v)
  <2> DEFINE usable == UsableFor(view[v].user, view[v].device)
  <2>1. CASE ActiveRestrictions # {} /\ usable # {}
    <3>1. PICK r \in Tightest(usable) :
             view' = [view EXCEPT ![v].pc = "claim", ![v].rid = r, ![v].max = restr[r].maxViews]
      BY <1>3, <2>1 DEF ViewReadsRestrictions
    <3>2. r \in Restrictions /\ restr[r].active
      BY DEF Tightest, UsableFor, Governing, ActiveRestrictions
    <3>3. restr[r].exists /\ restr[r].maxViews \in quotas[r]
      BY <3>2 DEF CountInv, RowOnRecord
    <3> DEFINE row == [view[v] EXCEPT !.pc = "claim", !.rid = r, !.max = restr[r].maxViews]
    <3>4. view' = [view EXCEPT ![v] = row]  BY <3>1 DEF TypeOK, ViewRow
    <3>5. row.pc = "claim" /\ row.rid = r /\ row.max = restr[r].maxViews
      BY DEF TypeOK, ViewRow
    <3> HIDE DEF row
    <3>6. view'[v] = row /\ \A w \in Views \ {v} : KeepsCharge(w)  BY <3>4, OtherViewsKeep
    <3>7. /\ view[v].pc = "restrictions"
          /\ UNCHANGED <<restr, quotas>>
      BY <1>3, <2>1 DEF ViewReadsRestrictions
    <3>8. KeepsCharge(v)  BY <3>2, <3>3, <3>5, <3>6, <3>7 DEF KeepsCharge
    <3> QED BY <3>6, <3>7, <3>8, RowsUnchanged
  <2>2. CASE ~(ActiveRestrictions # {} /\ usable # {})
    <3>1. ViewStep(v, "restrictions", ActiveRestrictions = {}, "create")
      BY <1>3, <2>2 DEF ViewReadsRestrictions
    <3> QED BY <3>1, ViewStepQuiet DEF Early, ViewStep
  <2> QED BY <2>1, <2>2
<1>4. CASE ViewClaims(v)
  <2> DEFINE row == [view[v] EXCEPT !.pc = "refused"]
  <2>1. view' = [view EXCEPT ![v] = row] /\ UNCHANGED <<restr, quotas>>
    BY <1>4 DEF ViewClaims
  <2>2. row.pc = "refused" /\ row.rid = view[v].rid  BY DEF TypeOK, ViewRow
  <2> HIDE DEF row
  <2>3. view'[v] = row /\ \A w \in Views \ {v} : KeepsCharge(w)  BY <2>1, OtherViewsKeep
  <2>4. view[v].pc = "claim"  BY <1>4 DEF ViewClaims
  <2>5. KeepsCharge(v)  BY <2>2, <2>3, <2>4 DEF KeepsCharge, Early, Charged
  <2> QED BY <2>1, <2>3, <2>5, RowsUnchanged
<1>5. ASSUME ViewCreatesSession(v) \/ ViewInsertFails(v) \/ TokenExpires(v)
      PROVE  /\ \A w \in Views : KeepsCharge(w)
             /\ \A r \in Restrictions : KeepsCount(r)
             /\ UNCHANGED quotas
  <2>1. UNCHANGED <<restr, quotas>>
    BY <1>5 DEF ViewCreatesSession, ViewInsertFails, TokenExpires
  <2>2. \E row : /\ view' = [view EXCEPT ![v] = row]
                 /\ row.rid = view[v].rid
                 /\ \/ row.pc = view[v].pc /\ row.max = view[v].max
                    \/ view[v].pc = "create" /\ row.pc \in {"live", "dropped"}
    <3>1. CASE ViewCreatesSession(v)
      <4> WITNESS [view[v] EXCEPT !.pc = "live", !.token = TRUE]
      <4> QED BY <3>1 DEF ViewCreatesSession, TypeOK, ViewRow
    <3>2. CASE ViewInsertFails(v)
      <4> WITNESS [view[v] EXCEPT !.pc = "dropped"]
      <4> QED BY <3>2 DEF ViewInsertFails, TypeOK, ViewRow
    <3>3. CASE TokenExpires(v)
      <4> WITNESS [view[v] EXCEPT !.token = FALSE]
      <4> QED BY <3>3 DEF TokenExpires, TypeOK, ViewRow
    <3> QED BY <1>5, <3>1, <3>2, <3>3
  <2>3. PICK row : /\ view' = [view EXCEPT ![v] = row]
                   /\ row.rid = view[v].rid
                   /\ \/ row.pc = view[v].pc /\ row.max = view[v].max
                      \/ view[v].pc = "create" /\ row.pc \in {"live", "dropped"}
    BY <2>2
  <2>4. view'[v] = row /\ \A w \in Views \ {v} : KeepsCharge(w)  BY <2>3, OtherViewsKeep
  <2>5. KeepsCharge(v)  BY <2>3, <2>4 DEF KeepsCharge, Early, Charged
  <2> QED BY <2>1, <2>4, <2>5, RowsUnchanged
<1> QED BY <1>1, <1>2, <1>3, <1>4, <1>5 DEF CreateSession

\* A rendition or refresh request counts nothing.
LEMMA ServeRequestQuiet ==
    ASSUME TypeOK, CountInv, NEW q \in Requests, ServeRequest(q)
    PROVE  /\ CountInv' /\ UNCHANGED quotas
           /\ \A r \in Restrictions : ChargedTo(r)' = ChargedTo(r)
<1>0. TypeOK'  BY ServeRequestTyped
<1>1. UNCHANGED <<restr, quotas>>
  BY DEF ServeRequest, RequestArrives, RequestLoadsSession, RequestReadsTags,
         RequestFindsDevice, RequestRechecks, RequestChecksAccess, RequestFindsFile,
         RequestEnds, RequestStep
<1>2. UNCHANGED view \/ view' = [view EXCEPT ![req[q].view].token = TRUE]
  BY DEF ServeRequest, RequestArrives, RequestLoadsSession, RequestReadsTags,
         RequestFindsDevice, RequestRechecks, RequestChecksAccess, RequestFindsFile,
         RequestEnds, RequestStep
<1>3. \A w \in Views : /\ view'[w].rid = view[w].rid
                       /\ view'[w].pc = view[w].pc
                       /\ view'[w].max = view[w].max
  BY <1>2 DEF TypeOK, ViewRow
<1>4. \A w \in Views : KeepsCharge(w)  BY <1>3 DEF KeepsCharge
<1> QED BY <1>0, <1>1, <1>4, RowsUnchanged, QuietStep

\* A new restriction starts with its quota on record and no view counted.
LEMMA CreateRestrictionCounts ==
    ASSUME TypeOK, TypeOK', CountInv, NEW r \in Restrictions,
           NEW u, NEW d, NEW w, NEW max, CreateRestriction(r, u, d, w, max)
    PROVE  /\ CountInv'
           /\ quotas' = [quotas EXCEPT ![r] = @ \cup {max}]
           /\ \A s \in Restrictions : ChargedTo(s)' = ChargedTo(s)
<1>1. /\ ~restr[r].exists
      /\ restr'[r] = [exists |-> TRUE, active |-> TRUE, user |-> u, device |-> d,
                      window |-> w, maxViews |-> max, used |-> 0]
      /\ quotas'[r] = {max}
      /\ \A s \in Restrictions \ {r} : restr'[s] = restr[s] /\ quotas'[s] = quotas[s]
      /\ view' = view
  BY DEF CreateRestriction, TypeOK
<1>2. quotas[r] = {} /\ \A v \in Views : view[v].rid # r
  BY <1>1 DEF CountInv, RowOnRecord
<1>3. quotas' = [quotas EXCEPT ![r] = @ \cup {max}]
  BY <1>2 DEF CreateRestriction, TypeOK
<1>4. \A s \in Restrictions : ChargedTo(s)' = ChargedTo(s)
  BY <1>1 DEF ChargedTo
<1>5. ClaimOnRecord'
  BY <1>1, <1>2 DEF CountInv, ClaimOnRecord
<1>6. RowOnRecord'
  BY <1>1 DEF CountInv, RowOnRecord
<1>7. restr'[r].used = 0 /\ ChargedTo(r) = {}
  BY <1>1, <1>2 DEF ChargedTo
<1>8. ChargedExactlyOnce'
  BY <1>1, <1>4, <1>7, FS_EmptySet DEF CountInv, ChargedExactlyOnce
<1>9. QuotaNeverOverrun'
  BY <1>1, <1>7 DEF CountInv, QuotaNeverOverrun
<1> QED BY <1>3, <1>4, <1>5, <1>6, <1>8, <1>9 DEF CountInv

\* Every other administrative step counts nothing; a quota it sets goes on record.
LEMMA AdministerQuiet ==
    ASSUME TypeOK, CountInv, Administer,
           \A r \in Restrictions, u \in Users \cup {Null}, d \in Devices \cup {Null},
              w \in Windows, max \in 0..MaxQuota : ~CreateRestriction(r, u, d, w, max)
    PROVE  /\ CountInv'
           /\ \/ UNCHANGED quotas
              \/ \E r \in Restrictions, max \in 0..MaxQuota :
                    quotas' = [quotas EXCEPT ![r] = @ \cup {max}]
           /\ \A r \in Restrictions : ChargedTo(r)' = ChargedTo(r)
<1>0. TypeOK'  BY AdministerTyped
<1>1. ASSUME NEW r \in Restrictions,
             \/ \E w \in Windows : UpdateWindow(r, w)
             \/ \E max \in 0..MaxQuota : UpdateQuota(r, max)
             \/ RevokeRestriction(r) \/ WindowCloses(r)
      PROVE  /\ \A v \in Views : KeepsCharge(v)
             /\ \A s \in Restrictions : KeepsCount(s)
             /\ \/ UNCHANGED quotas
                \/ \E max \in 0..MaxQuota : quotas' = [quotas EXCEPT ![r] = @ \cup {max}]
  <2>1. view' = view
    BY <1>1 DEF UpdateWindow, UpdateQuota, RevokeRestriction, WindowCloses
  <2>2. \A v \in Views : KeepsCharge(v)  BY <2>1 DEF KeepsCharge
  <2>3. \A s \in Restrictions \ {r} : restr'[s] = restr[s] /\ quotas'[s] = quotas[s]
    BY <1>1 DEF UpdateWindow, UpdateQuota, RevokeRestriction, WindowCloses, TypeOK
  <2>4. /\ restr'[r].exists = restr[r].exists
        /\ restr'[r].used = restr[r].used
        /\ restr'[r].active => restr[r].active
        /\ quotas[r] \subseteq quotas'[r]
    BY <1>1 DEF UpdateWindow, UpdateQuota, RevokeRestriction, WindowCloses, TypeOK,
                RestrictionRow
  <2>5. restr[r].exists => restr[r].maxViews \in quotas[r]
    BY DEF CountInv, RowOnRecord
  <2>6. IF restr[r].exists THEN restr'[r].maxViews \in quotas'[r] ELSE quotas'[r] = quotas[r]
    <3>1. CASE \E max \in 0..MaxQuota : UpdateQuota(r, max)
      BY <3>1 DEF UpdateQuota, TypeOK, RestrictionRow
    <3>2. CASE \E w \in Windows : UpdateWindow(r, w)
      BY <3>2, <2>5 DEF UpdateWindow, TypeOK, RestrictionRow
    <3>3. CASE RevokeRestriction(r) \/ WindowCloses(r)
      BY <3>3, <2>5 DEF RevokeRestriction, WindowCloses, TypeOK, RestrictionRow
    <3> QED BY <1>1, <3>1, <3>2, <3>3
  <2>7. \A s \in Restrictions : KeepsCount(s)
    BY <2>3, <2>4, <2>6 DEF KeepsCount, CountInv, RowOnRecord
  <2>8. \/ UNCHANGED quotas
        \/ \E max \in 0..MaxQuota : quotas' = [quotas EXCEPT ![r] = @ \cup {max}]
    BY <1>1 DEF UpdateWindow, UpdateQuota, RevokeRestriction, WindowCloses
  <2> QED BY <2>2, <2>7, <2>8
<1>2. ASSUME \/ \E u \in Users, d \in Devices : ApproveDevice(u, d) \/ RevokeDevice(u, d)
             \/ FileOrRulesChange
      PROVE  /\ \A v \in Views : KeepsCharge(v)
             /\ UNCHANGED <<restr, quotas>>
  BY <1>2 DEF ApproveDevice, RevokeDevice, FileOrRulesChange, KeepsCharge
<1>3. CASE Restart
  <2>1. UNCHANGED <<restr, quotas>>  BY <1>3 DEF Restart
  <2>2. ASSUME NEW v \in Views  PROVE KeepsCharge(v)
    <3>1. view'[v] = IF view[v].pc = "create" THEN [view[v] EXCEPT !.pc = "dropped"]
                     ELSE IF view[v].pc \in Opening THEN [view[v] EXCEPT !.pc = "refused"]
                     ELSE view[v]
      BY <1>3 DEF Restart
    <3>2. view[v] \in ViewRow  BY DEF TypeOK
    <3> QED BY <3>1, <3>2 DEF KeepsCharge, ViewRow, Early, Charged, Opening
  <2> QED BY <1>0, <2>1, <2>2, RowsUnchanged, QuietStep
<1> QED BY <1>0, <1>1, <1>2, <1>3, RowsUnchanged, QuietStep DEF Administer

\* However openings, quota changes, revocations and restarts interleave, viewsUsed is the
\* number of openings that got past their claim, and within a quota the row has carried.
THEOREM CountingCorrect == Spec => []CountInv
<1>1. TypeOK /\ CountInv /\ [Next]_vars => CountInv'
  <2> SUFFICES ASSUME TypeOK, CountInv, [Next]_vars  PROVE CountInv'
    OBVIOUS
  <2>1. ASSUME NEW v \in Views, CreateSession(v)  PROVE CountInv'
    <3>1. TypeOK'  BY <2>1, CreateSessionTyped
    <3>2. CASE ViewClaims(v) /\ ClaimGranted(view[v].rid, view[v].max)
      BY <3>1, <3>2, ClaimCharges
    <3> QED BY <2>1, <3>2, CreateSessionQuiet
  <2>2. ASSUME NEW q \in Requests, ServeRequest(q)  PROVE CountInv'
    BY <2>2, ServeRequestQuiet
  <2>3. CASE Administer
    <3>1. TypeOK'  BY <2>3, AdministerTyped
    <3> QED BY <2>3, <3>1, CreateRestrictionCounts, AdministerQuiet
  <2>4. CASE UNCHANGED vars
    BY <2>4 DEF vars, policy, history, CountInv, ClaimOnRecord, RowOnRecord,
                ChargedExactlyOnce, QuotaNeverOverrun, ChargedTo
  <2> QED BY <2>1, <2>2, <2>3, <2>4 DEF Next
<1> QED BY InitCounts, <1>1, TypeCorrect, PTL DEF Spec

\* viewsUsed counts each opening exactly once.
THEOREM EveryViewChargedOnce == Spec => []ChargedExactlyOnce
<1>1. CountInv => ChargedExactlyOnce  BY DEF CountInv
<1> QED BY <1>1, CountingCorrect, PTL

\* viewsUsed stays within the most generous quota its restriction has carried.
THEOREM QuotaSafe == Spec => []QuotaNeverOverrun
<1>1. CountInv => QuotaNeverOverrun  BY DEF CountInv
<1> QED BY <1>1, CountingCorrect, PTL

\* What ViewQuota promises is what createSession delivers: each of its steps charges one
\* opening to an allowance with room for it, puts a quota on record, or changes neither.
THEOREM ImplementsViewQuota == Spec => QuotaSpec
<1> DEFINE charged == [r \in Restrictions |-> ChargedTo(r)]
<1>1. Init => Quota!Init
  <2> SUFFICES ASSUME Init  PROVE Quota!Init
    OBVIOUS
  <2>1. \A r \in Restrictions : ChargedTo(r) = {}
    BY ViewingAssumption DEF Init, ChargedTo, NoView
  <2> QED BY <2>1 DEF Init, Quota!Init
<1>2. TypeOK /\ CountInv /\ [Next]_vars => [Quota!Next]_(Quota!quotaVars)
  <2> SUFFICES ASSUME TypeOK, CountInv, [Next]_vars
               PROVE  Quota!Next \/ UNCHANGED Quota!quotaVars
    OBVIOUS
  <2>1. ASSUME UNCHANGED quotas, \A r \in Restrictions : ChargedTo(r)' = ChargedTo(r)
        PROVE  UNCHANGED Quota!quotaVars
    BY <2>1 DEF Quota!quotaVars
  <2>2. ASSUME NEW r \in Restrictions, NEW max \in 0..MaxQuota,
               quotas' = [quotas EXCEPT ![r] = @ \cup {max}],
               \A s \in Restrictions : ChargedTo(s)' = ChargedTo(s)
        PROVE  Quota!Next
    <3>1. charged' = charged  BY <2>2
    <3> QED BY <2>2, <3>1 DEF Quota!Next, Quota!SetQuota
  <2>3. ASSUME NEW v \in Views, CreateSession(v)
        PROVE  Quota!Next \/ UNCHANGED Quota!quotaVars
    <3>1. CASE ViewClaims(v) /\ ClaimGranted(view[v].rid, view[v].max)
      <4>0. TypeOK'  BY <2>3, CreateSessionTyped
      <4>1. PICK r : r = view[v].rid  OBVIOUS
      <4>2. /\ r \in Restrictions
            /\ NoQuota \in quotas[r] \/ \E n \in quotas[r] : Cardinality(ChargedTo(r)) < n
            /\ \A s \in Restrictions : v \notin ChargedTo(s)
            /\ ChargedTo(r)' = ChargedTo(r) \cup {v}
            /\ \A s \in Restrictions \ {r} : ChargedTo(s)' = ChargedTo(s)
            /\ quotas' = quotas
        BY <3>1, <4>0, <4>1, ClaimCharges
      <4>3. charged' = [charged EXCEPT ![r] = @ \cup {v}]
        BY <4>2
      <4>4. Quota!HasRoom(Quota!Cardinality(charged[r]), quotas[r])
        <5>1. Quota!Cardinality(ChargedTo(r)) = Cardinality(ChargedTo(r))
          BY DEF Quota!Cardinality, Cardinality, Quota!IsFiniteSet, IsFiniteSet
        <5> QED BY <4>2, <5>1 DEF Quota!HasRoom, Quota!NoQuota, NoQuota
      <4>5. \A s \in Restrictions : v \notin charged[s]  BY <4>2
      <4>6. Quota!Charge(r, v)
        BY <4>2, <4>3, <4>4, <4>5 DEF Quota!Charge
      <4> QED BY <4>2, <4>6 DEF Quota!Next
    <3>2. CASE ~(ViewClaims(v) /\ ClaimGranted(view[v].rid, view[v].max))
      BY <2>1, <2>3, <3>2, CreateSessionQuiet
    <3> QED BY <3>1, <3>2
  <2>4. ASSUME NEW q \in Requests, ServeRequest(q)
        PROVE  UNCHANGED Quota!quotaVars
    BY <2>1, <2>4, ServeRequestQuiet
  <2>5. CASE Administer
    <3>0. TypeOK'  BY <2>5, AdministerTyped
    <3>1. ASSUME NEW r \in Restrictions, NEW u \in Users \cup {Null},
                 NEW d \in Devices \cup {Null}, NEW w \in Windows, NEW max \in 0..MaxQuota,
                 CreateRestriction(r, u, d, w, max)
          PROVE  Quota!Next
      BY <2>2, <3>0, <3>1, CreateRestrictionCounts
    <3> QED BY <2>1, <2>2, <2>5, <3>1, AdministerQuiet
  <2>6. CASE UNCHANGED vars
    <3>1. UNCHANGED <<quotas, view>>  BY <2>6 DEF vars, history
    <3>2. \A r \in Restrictions : ChargedTo(r)' = ChargedTo(r)  BY <3>1 DEF ChargedTo
    <3> QED BY <2>1, <3>1, <3>2
  <2> QED BY <2>3, <2>4, <2>5, <2>6 DEF Next
<1> QED BY <1>1, <1>2, TypeCorrect, CountingCorrect, PTL DEF Spec, QuotaSpec, Quota!Spec

-----------------------------------------------------------------------------
(* What stands in the way.  A bar that stands is there; the checks a call    *)
(* has passed have cleared the bars they ask for, and a bar once cleared     *)
(* does not come back, for it has not been there ever since.                 *)

ClearedForView(pc) ==
    CASE pc = "file"         -> {}
      [] pc = "access"       -> {"file"}
      [] pc = "sensitive"    -> {"file", "access"}
      [] pc = "device"       -> {"file", "access"}
      [] pc = "restrictions" -> {"file", "access", "device"}
      [] OTHER               -> ViewBarNames

ClearedForRequest(pc, kind) ==
    CASE pc = "session"     -> {}
      [] pc = "sensitive"   -> {"session"}
      [] pc = "device"      -> {"session"}
      [] pc = "restriction" -> {"session", "device"}
      [] pc = "access"      -> {"session", "device", "restriction"}
      [] pc = "file"        -> {"session", "device", "restriction", "access"}
      [] OTHER              -> BarsAsked(kind)

ViewCleared(v)    == viewBars[v] \cap ClearedForView(view[v].pc) = {}
RequestCleared(q) == reqBars[q] \cap ClearedForRequest(req[q].pc, req[q].kind) = {}

BarsInv ==
    /\ \A v \in Views : viewBars[v] \subseteq BarsOfView(v) /\ ViewCleared(v)
    /\ \A q \in Requests : reqBars[q] \subseteq BarsOfRequest(q) /\ RequestCleared(q)

\* What Watch keeps of a call's bars: only ones that are there, and only old ones.
LEMMA BarsShrink ==
    ASSUME Watch
    PROVE  /\ \A v \in Views : /\ viewBars'[v] \subseteq BarsOfView(v)'
                               /\ view'[v].pc \notin Opening => viewBars'[v] = {}
                               /\ view[v].pc \in Opening => viewBars'[v] \subseteq viewBars[v]
           /\ \A q \in Requests : /\ reqBars'[q] \subseteq BarsOfRequest(q)'
                                  /\ req'[q].pc = "idle" => reqBars'[q] = {}
                                  /\ req[q].pc # "idle" => reqBars'[q] \subseteq reqBars[q]
<1>1. ASSUME NEW v \in Views
      PROVE  /\ viewBars'[v] \subseteq BarsOfView(v)'
             /\ view'[v].pc \notin Opening => viewBars'[v] = {}
             /\ view[v].pc \in Opening => viewBars'[v] \subseteq viewBars[v]
  BY DEF Watch
<1>2. ASSUME NEW q \in Requests
      PROVE  /\ reqBars'[q] \subseteq BarsOfRequest(q)'
             /\ req'[q].pc = "idle" => reqBars'[q] = {}
             /\ req[q].pc # "idle" => reqBars'[q] \subseteq reqBars[q]
  BY DEF Watch
<1> QED BY <1>1, <1>2

\* A step that leaves a view at its statement, or ends it, clears whatever it has to.
LEMMA ViewStays ==
    ASSUME Watch, BarsInv, NEW v \in Views,
           view'[v].pc = view[v].pc \/ view'[v].pc \notin Opening
    PROVE  ViewCleared(v)'
<1>1. CASE view'[v].pc \notin Opening
  BY <1>1, BarsShrink DEF ViewCleared
<1>2. CASE view'[v].pc = view[v].pc /\ view'[v].pc \in Opening
  BY <1>2, BarsShrink DEF ViewCleared, BarsInv
<1> QED BY <1>1, <1>2

\* The same of a request.
LEMMA RequestStays ==
    ASSUME Watch, BarsInv, NEW q \in Requests,
           req'[q] = req[q] \/ req'[q].pc = "idle"
    PROVE  RequestCleared(q)'
<1>1. CASE req'[q].pc = "idle"
  BY <1>1, BarsShrink DEF RequestCleared
<1>2. CASE req'[q] = req[q] /\ req'[q].pc # "idle"
  BY <1>2, BarsShrink DEF RequestCleared, BarsInv
<1> QED BY <1>1, <1>2

\* A statement that asks for nothing clears what was cleared.
LEMMA ViewAdvances ==
    ASSUME Watch, BarsInv, NEW v \in Views, view[v].pc \in Opening,
           ClearedForView(view'[v].pc) = ClearedForView(view[v].pc)
    PROVE  ViewCleared(v)'
BY BarsShrink DEF ViewCleared, BarsInv

\* The same of a request.
LEMMA RequestAdvances ==
    ASSUME Watch, BarsInv, NEW q \in Requests, req[q].pc # "idle",
           ClearedForRequest(req'[q].pc, req'[q].kind)
              = ClearedForRequest(req[q].pc, req[q].kind)
    PROVE  RequestCleared(q)'
BY BarsShrink DEF RequestCleared, BarsInv

\* A check that is passed finds its bars absent and clears them.
LEMMA ViewPasses ==
    ASSUME Watch, BarsInv, NEW v \in Views, NEW found \in SUBSET ViewBarNames,
           view[v].pc \in Opening, BarsOfView(v) \cap found = {},
           ClearedForView(view'[v].pc) \subseteq ClearedForView(view[v].pc) \cup found
    PROVE  ViewCleared(v)'
<1>1. viewBars'[v] \subseteq viewBars[v] /\ viewBars[v] \subseteq BarsOfView(v)
  BY BarsShrink DEF BarsInv
<1>2. viewBars[v] \cap ClearedForView(view[v].pc) = {}  BY DEF BarsInv, ViewCleared
<1> QED BY <1>1, <1>2 DEF ViewCleared

\* The same of a request.
LEMMA RequestPasses ==
    ASSUME Watch, BarsInv, NEW q \in Requests, NEW found \in SUBSET RequestBarNames,
           req[q].pc # "idle", BarsOfRequest(q) \cap found = {},
           ClearedForRequest(req'[q].pc, req'[q].kind)
              \subseteq ClearedForRequest(req[q].pc, req[q].kind) \cup found
    PROVE  RequestCleared(q)'
<1>1. reqBars'[q] \subseteq reqBars[q] /\ reqBars[q] \subseteq BarsOfRequest(q)
  BY BarsShrink DEF BarsInv
<1>2. reqBars[q] \cap ClearedForRequest(req[q].pc, req[q].kind) = {}
  BY DEF BarsInv, RequestCleared
<1> QED BY <1>1, <1>2 DEF RequestCleared

\* A check of createSession goes on only without the bar it asks for.
LEMMA ViewChecks ==
    ASSUME TypeOK, BarsInv, Watch, NEW v \in Views, NEW from \in Opening, NEW to \in Opening,
           NEW bar \in ViewBarNames, view[v].pc = from,
           view'[v].pc = "refused" \/ (view'[v].pc = to /\ bar \notin BarsOfView(v)),
           ClearedForView(to) \subseteq ClearedForView(from) \cup {bar}
    PROVE  ViewCleared(v)'
<1> DEFINE found == {bar}
<1>1. CASE view'[v].pc = "refused"
  BY <1>1, ViewStays DEF Opening
<1>2. CASE view'[v].pc = to /\ bar \notin BarsOfView(v)
  <2>1. found \in SUBSET ViewBarNames /\ BarsOfView(v) \cap found = {}  BY <1>2
  <2>2. ClearedForView(view'[v].pc) \subseteq ClearedForView(view[v].pc) \cup found
    BY <1>2
  <2>3. view[v].pc \in Opening  OBVIOUS
  <2> HIDE DEF found
  <2> QED BY <2>1, <2>2, <2>3, ViewPasses
<1> QED BY <1>1, <1>2

\* The same of a request.
LEMMA RequestChecks ==
    ASSUME TypeOK, BarsInv, Watch, NEW q \in Requests, NEW from \in RequestPCs \ {"idle"},
           NEW to \in RequestPCs, NEW bar \in RequestBarNames, req[q].pc = from,
           req'[q].pc = "idle" \/ (req'[q].pc = to /\ bar \notin BarsOfRequest(q)),
           req'[q].pc = to => req'[q].kind = req[q].kind,
           ClearedForRequest(to, req[q].kind)
              \subseteq ClearedForRequest(from, req[q].kind) \cup {bar}
    PROVE  RequestCleared(q)'
<1> DEFINE found == {bar}
<1>1. CASE req'[q].pc = "idle"
  BY <1>1, RequestStays
<1>2. CASE req'[q].pc = to /\ bar \notin BarsOfRequest(q)
  <2>1. found \in SUBSET RequestBarNames /\ BarsOfRequest(q) \cap found = {}  BY <1>2
  <2>2. ClearedForRequest(req'[q].pc, req'[q].kind)
           \subseteq ClearedForRequest(req[q].pc, req[q].kind) \cup found
    BY <1>2
  <2>3. req[q].pc # "idle"  OBVIOUS
  <2> HIDE DEF found
  <2> QED BY <2>1, <2>2, <2>3, RequestPasses
<1> QED BY <1>1, <1>2

\* Every step ends with Watch.
LEMMA EveryStepWatches == Next => Watch
<1>1. ASSUME NEW v \in Views, CreateSession(v)  PROVE Watch
  BY <1>1 DEF CreateSession, ViewArrives, ViewFindsFile, ViewChecksAccess, ViewReadsTags,
     ViewFindsDevice, ViewReadsRestrictions, ViewClaims, ViewCreatesSession, ViewInsertFails,
     SessionExpires, TokenExpires, ViewStep
<1>2. ASSUME NEW q \in Requests, ServeRequest(q)  PROVE Watch
  BY <1>2 DEF ServeRequest, RequestArrives, RequestLoadsSession, RequestReadsTags,
     RequestFindsDevice, RequestRechecks, RequestChecksAccess, RequestFindsFile, RequestEnds,
     RequestStep
<1>3. ASSUME Administer  PROVE Watch
  BY <1>3 DEF Administer, CreateRestriction, UpdateWindow, UpdateQuota, RevokeRestriction,
     WindowCloses, ApproveDevice, RevokeDevice, FileOrRulesChange, Restart
<1> QED BY <1>1, <1>2, <1>3 DEF Next

\* createSession: each statement clears the bars it has looked for.
LEMMA CreateSessionClears ==
    ASSUME TypeOK, BarsInv, NEW v \in Views, CreateSession(v), Watch
    PROVE  ViewCleared(v)'
<1> USE DEF TypeOK, ViewRow
<1>1. ASSUME NEW u \in Users, NEW d \in Devices \cup {Null}, ViewArrives(v, u, d)
      PROVE  ViewCleared(v)'
  <2>1. view'[v].pc = "file"  BY <1>1 DEF ViewArrives, NoView
  <2> QED BY <2>1 DEF ViewCleared, ClearedForView
<1>2. CASE ViewFindsFile(v)
  <2>1. /\ view[v].pc = "file"
        /\ view'[v].pc = "refused" \/ (view'[v].pc = "access" /\ fileActive)
    BY <1>2 DEF ViewFindsFile, ViewStep
  <2>2. fileActive => "file" \notin BarsOfView(v)  BY DEF BarsOfView
  <2>3. ClearedForView("access") \subseteq ClearedForView("file") \cup {"file"}
    BY DEF ClearedForView
  <2> QED BY <2>1, <2>2, <2>3, ViewChecks DEF ViewBarNames, Opening
<1>3. CASE ViewChecksAccess(v)
  <2>1. /\ view[v].pc = "access"
        /\ view'[v].pc = "refused" \/ (view'[v].pc = "sensitive" /\ view[v].user \in viewers)
    BY <1>3 DEF ViewChecksAccess, ViewStep
  <2>2. view[v].user \in viewers => "access" \notin BarsOfView(v)  BY DEF BarsOfView
  <2>3. ClearedForView("sensitive") \subseteq ClearedForView("access") \cup {"access"}
    BY DEF ClearedForView
  <2> QED BY <2>1, <2>2, <2>3, ViewChecks DEF ViewBarNames, Opening
<1>4. CASE ViewReadsTags(v)
  <2>1. /\ view[v].pc = "sensitive"
        /\ \/ view'[v].pc = "restrictions" /\ ~sensitive
           \/ view'[v].pc \in {"device", "refused"}
    BY <1>4 DEF ViewReadsTags, ViewStep
  <2>2. ~sensitive => "device" \notin BarsOfView(v)  BY DEF BarsOfView, DeviceBar
  <2>3. /\ ClearedForView("restrictions") \subseteq ClearedForView("sensitive") \cup {"device"}
        /\ ClearedForView("device") = ClearedForView("sensitive")
    BY DEF ClearedForView
  <2>4. CASE view'[v].pc = "restrictions" /\ ~sensitive
    BY <2>1, <2>2, <2>3, <2>4, ViewChecks DEF ViewBarNames, Opening
  <2>5. CASE view'[v].pc \in {"device", "refused"}
    BY <2>1, <2>3, <2>5, ViewAdvances, ViewStays DEF Opening
  <2> QED BY <2>1, <2>4, <2>5
<1>5. CASE ViewFindsDevice(v)
  <2>1. /\ view[v].pc = "device"
        /\ \/ view'[v].pc = "refused"
           \/ view'[v].pc = "restrictions" /\ <<view[v].user, view[v].device>> \in approved
    BY <1>5 DEF ViewFindsDevice, ViewStep
  <2>2. ASSUME <<view[v].user, view[v].device>> \in approved
        PROVE  "device" \notin BarsOfView(v)
    <3>1. view[v].device # Null  BY <2>2, ViewingAssumption
    <3> QED BY <2>2, <3>1 DEF BarsOfView, DeviceBar
  <2>3. ClearedForView("restrictions") \subseteq ClearedForView("device") \cup {"device"}
    BY DEF ClearedForView
  <2> QED BY <2>1, <2>2, <2>3, ViewChecks DEF ViewBarNames, Opening
<1>6. CASE ViewReadsRestrictions(v)
  <2> DEFINE usable == UsableFor(view[v].user, view[v].device)
             open   == ActiveRestrictions = {} \/ usable # {}
  <2>1. /\ view[v].pc = "restrictions"
        /\ \/ view'[v].pc = "refused"
           \/ view'[v].pc \in {"claim", "create"} /\ open
    <3>1. CASE ActiveRestrictions # {} /\ usable # {}
      <4>1. PICK r \in Tightest(usable) :
               /\ view[v].pc = "restrictions"
               /\ view' = [view EXCEPT ![v].pc = "claim", ![v].rid = r,
                                       ![v].max = restr[r].maxViews]
        BY <1>6, <3>1 DEF ViewReadsRestrictions
      <4>2. view'[v].pc = "claim"  BY <4>1
      <4> QED BY <3>1, <4>1, <4>2
    <3>2. CASE ~(ActiveRestrictions # {} /\ usable # {})
      <4>1. ViewStep(v, "restrictions", ActiveRestrictions = {}, "create")
        BY <1>6, <3>2 DEF ViewReadsRestrictions
      <4> QED BY <4>1 DEF ViewStep
    <3> QED BY <3>1, <3>2
  <2>2. open => "restriction" \notin BarsOfView(v)
    BY DEF BarsOfView
  <2>3. \A pc \in {"claim", "create"} :
           ClearedForView(pc) \subseteq ClearedForView("restrictions") \cup {"restriction"}
    BY DEF ClearedForView, ViewBarNames
  <2> HIDE DEF open
  <2> QED BY <2>1, <2>2, <2>3, ViewChecks, ViewStays DEF ViewBarNames, Opening
<1>7. CASE ViewClaims(v)
  <2>1. view[v].pc = "claim" /\ view'[v].pc \in {"create", "refused"}  BY <1>7 DEF ViewClaims
  <2>2. ClearedForView("create") = ClearedForView("claim")
    BY DEF ClearedForView
  <2> QED BY <2>1, <2>2, ViewStays, ViewAdvances DEF Opening
<1>8. CASE ViewCreatesSession(v) \/ ViewInsertFails(v) \/ SessionExpires(v) \/ TokenExpires(v)
  <2>1. view'[v].pc = view[v].pc \/ view'[v].pc \in {"live", "dropped", "expired"}
    BY <1>8 DEF ViewCreatesSession, ViewInsertFails, SessionExpires, TokenExpires, ViewStep
  <2> QED BY <2>1, ViewStays DEF Opening
<1> QED BY <1>1, <1>2, <1>3, <1>4, <1>5, <1>6, <1>7, <1>8 DEF CreateSession

\* Renditions and refreshes: the same of every statement.
LEMMA ServeRequestClears ==
    ASSUME TypeOK, BarsInv, NEW q \in Requests, ServeRequest(q), Watch
    PROVE  RequestCleared(q)'
<1> USE DEF TypeOK, RequestRow
<1>1. ASSUME NEW kind \in {"rendition", "refresh"}, NEW v \in Views,
             NEW d \in Devices \cup {Null}, RequestArrives(q, kind, v, d)
      PROVE  RequestCleared(q)'
  <2>1. req'[q].pc = "session"  BY <1>1 DEF RequestArrives
  <2> QED BY <2>1 DEF RequestCleared, ClearedForRequest
<1>2. CASE RequestLoadsSession(q)
  <2>1. /\ req[q].pc = "session"
        /\ req'[q].pc = "idle" \/ (req'[q].pc = "sensitive" /\ view[req[q].view].pc = "live")
        /\ req'[q].pc = "sensitive" => req'[q].kind = req[q].kind
    BY <1>2 DEF RequestLoadsSession, RequestStep, NoRequest
  <2>2. view[req[q].view].pc = "live" => "session" \notin BarsOfRequest(q)  BY DEF BarsOfRequest
  <2>3. ClearedForRequest("sensitive", req[q].kind)
           \subseteq ClearedForRequest("session", req[q].kind) \cup {"session"}
    BY DEF ClearedForRequest
  <2> QED BY <2>1, <2>2, <2>3, RequestChecks DEF RequestBarNames, ViewBarNames, RequestPCs
<1>3. CASE RequestReadsTags(q)
  <2>1. /\ req[q].pc = "sensitive"
        /\ \/ req'[q].pc = "restriction" /\ ~sensitive
           \/ req'[q].pc \in {"device", "idle"}
        /\ req'[q].pc = "restriction" => req'[q].kind = req[q].kind
    BY <1>3 DEF RequestReadsTags, RequestStep, NoRequest
  <2>2. ~sensitive => "device" \notin BarsOfRequest(q)  BY DEF BarsOfRequest, DeviceBar
  <2>3. /\ ClearedForRequest("restriction", req[q].kind)
              \subseteq ClearedForRequest("sensitive", req[q].kind) \cup {"device"}
        /\ ClearedForRequest("device", req'[q].kind) = ClearedForRequest("sensitive", req[q].kind)
    BY DEF ClearedForRequest
  <2>4. CASE req'[q].pc = "restriction" /\ ~sensitive
    BY <2>1, <2>2, <2>3, <2>4, RequestChecks DEF RequestBarNames, ViewBarNames, RequestPCs
  <2>5. CASE req'[q].pc \in {"device", "idle"}
    BY <2>1, <2>3, <2>5, RequestAdvances, RequestStays
  <2> QED BY <2>1, <2>4, <2>5
<1>4. CASE RequestFindsDevice(q)
  <2> DEFINE user == view[req[q].view].user
  <2>1. /\ req[q].pc = "device"
        /\ \/ req'[q].pc = "idle"
           \/ req'[q].pc = "restriction" /\ <<user, req[q].device>> \in approved
        /\ req'[q].pc = "restriction" => req'[q].kind = req[q].kind
    BY <1>4 DEF RequestFindsDevice, RequestStep, NoRequest
  <2>2. ASSUME <<user, req[q].device>> \in approved
        PROVE  "device" \notin BarsOfRequest(q)
    <3>1. req[q].device # Null  BY <2>2, ViewingAssumption
    <3> QED BY <2>2, <3>1 DEF BarsOfRequest, DeviceBar
  <2>3. ClearedForRequest("restriction", req[q].kind)
           \subseteq ClearedForRequest("device", req[q].kind) \cup {"device"}
    BY DEF ClearedForRequest
  <2> HIDE DEF user
  <2> QED BY <2>1, <2>2, <2>3, RequestChecks DEF RequestBarNames, ViewBarNames, RequestPCs
<1>5. CASE RequestRechecks(q)
  <2> DEFINE ok == StillHolds(view[req[q].view].rid, req[q].device)
  <2>1. ok => "restriction" \notin BarsOfRequest(q)  BY DEF BarsOfRequest
  <2>2. ClearedForRequest("access", req[q].kind)
           \subseteq ClearedForRequest("restriction", req[q].kind) \cup {"restriction"}
    BY DEF ClearedForRequest
  <2>3. /\ req[q].pc = "restriction"
        /\ \/ req'[q].pc = "idle"
           \/ req'[q].pc = "access" /\ ok
           \/ req'[q].pc = "served" /\ ok /\ req[q].kind = "refresh"
        /\ req'[q].pc # "idle" => req'[q].kind = req[q].kind
    BY <1>5 DEF RequestRechecks, RequestStep, NoRequest
  <2> HIDE DEF ok
  <2>4. CASE req'[q].pc = "idle" \/ (req'[q].pc = "access" /\ ok)
    BY <2>1, <2>2, <2>3, <2>4, RequestChecks DEF RequestBarNames, ViewBarNames, RequestPCs
  <2>5. CASE req'[q].pc = "served" /\ ok /\ req[q].kind = "refresh"
    <3> DEFINE found == {"restriction"}
    <3>1. BarsOfRequest(q) \cap found = {}
      BY <2>1, <2>5
    <3>2. ClearedForRequest("served", "refresh")
             \subseteq ClearedForRequest("restriction", "refresh") \cup found
      BY DEF ClearedForRequest, BarsAsked, RequestBarNames, ViewBarNames
    <3>3. found \in SUBSET RequestBarNames  BY DEF RequestBarNames, ViewBarNames
    <3> HIDE DEF found
    <3> QED BY <2>3, <2>5, <3>1, <3>2, <3>3, RequestPasses
  <2> QED BY <2>3, <2>4, <2>5
<1>6. CASE RequestChecksAccess(q)
  <2>1. /\ req[q].pc = "access"
        /\ req'[q].pc = "idle" \/ (req'[q].pc = "file" /\ view[req[q].view].user \in viewers)
        /\ req'[q].pc = "file" => req'[q].kind = req[q].kind
    BY <1>6 DEF RequestChecksAccess, RequestStep, NoRequest
  <2>2. view[req[q].view].user \in viewers => "access" \notin BarsOfRequest(q)  BY DEF BarsOfRequest
  <2>3. ClearedForRequest("file", req[q].kind)
           \subseteq ClearedForRequest("access", req[q].kind) \cup {"access"}
    BY DEF ClearedForRequest
  <2> QED BY <2>1, <2>2, <2>3, RequestChecks DEF RequestBarNames, ViewBarNames, RequestPCs
<1>7. CASE RequestFindsFile(q)
  <2>1. /\ req[q].pc = "file"
        /\ req'[q].pc = "idle" \/ (req'[q].pc = "served" /\ fileActive)
        /\ req'[q].pc = "served" => req'[q].kind = req[q].kind
    BY <1>7 DEF RequestFindsFile, RequestStep, NoRequest
  <2>2. fileActive => "file" \notin BarsOfRequest(q)  BY DEF BarsOfRequest
  <2>3. ClearedForRequest("served", req[q].kind)
           \subseteq ClearedForRequest("file", req[q].kind) \cup {"file"}
    BY DEF ClearedForRequest, BarsAsked, RequestBarNames, ViewBarNames
  <2> QED BY <2>1, <2>2, <2>3, RequestChecks DEF RequestBarNames, ViewBarNames, RequestPCs
<1>8. CASE RequestEnds(q)
  <2>1. req'[q].pc = "idle"  BY <1>8 DEF RequestEnds, RequestStep, NoRequest
  <2> QED BY <2>1, RequestStays
<1> QED BY <1>1, <1>2, <1>3, <1>4, <1>5, <1>6, <1>7, <1>8 DEF ServeRequest

\* A call is about itself: the others stay where they are, or end with the server.
LEMMA OthersStay ==
    ASSUME TypeOK, Next
    PROVE  /\ \A v \in Views : \/ CreateSession(v)
                               \/ view'[v].pc = view[v].pc \/ view'[v].pc \notin Opening
           /\ \A q \in Requests : \/ ServeRequest(q)
                                  \/ req'[q] = req[q] \/ req'[q].pc = "idle"
<1> USE DEF TypeOK, ViewRow, Opening
<1>1. ASSUME NEW v \in Views, CreateSession(v)
      PROVE  UNCHANGED req /\ \A x \in Views \ {v} : view'[x] = view[x]
  <2>1. CASE ViewReadsRestrictions(v)
    BY <2>1 DEF ViewReadsRestrictions, ViewStep
  <2>2. CASE \E u \in Users, d \in Devices \cup {Null} : ViewArrives(v, u, d)
    BY <2>2 DEF ViewArrives
  <2> QED BY <1>1, <2>1, <2>2 DEF CreateSession, ViewFindsFile, ViewChecksAccess, ViewReadsTags,
     ViewFindsDevice, ViewClaims, ViewCreatesSession, ViewInsertFails,
     SessionExpires, TokenExpires, ViewStep
<1>2. ASSUME NEW q \in Requests, ServeRequest(q)
      PROVE  /\ \A x \in Views : view'[x].pc = view[x].pc
             /\ \A x \in Requests \ {q} : req'[x] = req[x]
  BY <1>2 DEF ServeRequest, RequestArrives, RequestLoadsSession, RequestReadsTags,
     RequestFindsDevice, RequestRechecks, RequestChecksAccess, RequestFindsFile,
     RequestEnds, RequestStep
<1>3. ASSUME Administer
      PROVE  /\ \A v \in Views : view'[v].pc = view[v].pc \/ view'[v].pc \notin Opening
             /\ \A q \in Requests : req'[q] = req[q] \/ req'[q].pc = "idle"
  <2>1. CASE Restart
    <3>1. ASSUME NEW v \in Views
          PROVE  view'[v].pc = view[v].pc \/ view'[v].pc \in {"dropped", "refused"}
      BY <2>1 DEF Restart
    <3>2. \A q \in Requests : req'[q].pc = "idle"  BY <2>1 DEF Restart, NoRequest
    <3> QED BY <3>1, <3>2
  <2>2. CASE UNCHANGED <<view, req>>
    BY <2>2
  <2> QED BY <1>3, <2>1, <2>2 DEF Administer, CreateRestriction, UpdateWindow, UpdateQuota,
             RevokeRestriction, WindowCloses, ApproveDevice, RevokeDevice, FileOrRulesChange
<1> QED BY <1>1, <1>2, <1>3 DEF Next

\* BarsInv is kept by every step.
LEMMA BarsStep == TypeOK /\ BarsInv /\ [Next]_vars => BarsInv'
<1> SUFFICES ASSUME TypeOK, BarsInv, [Next]_vars  PROVE BarsInv'
  OBVIOUS
<1>1. CASE Next
  <2>1. Watch  BY <1>1, EveryStepWatches
  <2>2. \A v \in Views : ViewCleared(v)'
    BY <1>1, <2>1, OthersStay, CreateSessionClears, ViewStays
  <2>3. \A q \in Requests : RequestCleared(q)'
    BY <1>1, <2>1, OthersStay, ServeRequestClears, RequestStays
  <2> QED BY <2>1, <2>2, <2>3, BarsShrink DEF BarsInv
<1>2. CASE UNCHANGED vars
  <2>1. \A v \in Views : BarsOfView(v)' = BarsOfView(v)
    BY <1>2 DEF vars, policy, BarsOfView, DeviceBar, ActiveRestrictions, UsableFor, Governing,
       Usable
  <2>2. \A q \in Requests : BarsOfRequest(q)' = BarsOfRequest(q)
    BY <1>2 DEF vars, policy, BarsOfRequest, DeviceBar, StillHolds
  <2> QED BY <1>2, <2>1, <2>2 DEF vars, history, BarsInv, ViewCleared, RequestCleared
<1> QED BY <1>1, <1>2

LEMMA BarsInit == Init => BarsInv
BY DEF Init, BarsInv, ViewCleared, RequestCleared

LEMMA BarsAlways == Spec => [](TypeOK /\ BarsInv)
BY TypeCorrect, BarsInit, BarsStep, PTL DEF Spec

\* No session comes into being over something that has forbidden it ever since the call
\* arrived, however the file, the rules, the devices and the restrictions change meanwhile.
THEOREM SessionsAreAllowed == Spec => []SessionOnlyWhenAllowed
<1>1. TypeOK /\ BarsInv => SessionOnlyWhenAllowed
  <2> SUFFICES ASSUME TypeOK, BarsInv, NEW v \in Views, view[v].pc = "create"
               PROVE  viewBars[v] = {}
    BY DEF SessionOnlyWhenAllowed
  <2>1. viewBars[v] \subseteq ViewBarNames  BY DEF TypeOK
  <2>2. viewBars[v] \cap ViewBarNames = {}  BY DEF BarsInv, ViewCleared, ClearedForView
  <2> QED BY <2>1, <2>2
<1> QED BY <1>1, BarsAlways, PTL

\* Nothing is served over something that has forbidden it ever since the request arrived, and
\* no token minted over anything of it but an access rule and the trash: what is taken back
\* takes effect on sessions opened long before.
THEOREM RevocationsTakeEffect == Spec => []RevocationTakesEffect
<1>1. TypeOK /\ BarsInv => RevocationTakesEffect
  <2> SUFFICES ASSUME TypeOK, BarsInv, NEW q \in Requests, req[q].pc = "served"
               PROVE  reqBars[q] \cap BarsAsked(req[q].kind) = {}
    BY DEF RevocationTakesEffect
  <2> QED BY DEF BarsInv, RequestCleared, ClearedForRequest
<1> QED BY <1>1, BarsAlways, PTL
=============================================================================
