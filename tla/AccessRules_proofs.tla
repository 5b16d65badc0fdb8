-------------------------- MODULE AccessRules_proofs --------------------------
(***************************************************************************)
(* Theorems about AccessRules, for any archive, any number of users,       *)
(* devices, rules and calls of assertCanView, and any number of changes    *)
(* while they are under way.                                               *)
(***************************************************************************)
EXTENDS AccessRules, TLAPS, FiniteSetTheorems, WellFoundedInduction

Offered  == UNION {k.offers : k \in Cases}
RuleRow  == [exists : {TRUE}, active : BOOLEAN, type : {"grant", "restrict"},
             scope : {body.scope : body \in Offered}, users : SUBSET Users,
             device : Devices \cup {Null}, window : {"none", "open", "past"}]
CheckRow == [pc : Deciding \cup {"allowed", "refused"}, user : Users, auth : BOOLEAN,
             device : Devices \cup {Null}, expired : SUBSET Rules, pending : SUBSET Rules,
             kept : SUBSET Rules, at : Rules \cup {Null}]

\* The state keeps its types.
TypeOK ==
    /\ case \in Cases
    /\ user \in [Users -> [owner : BOOLEAN, scoped : BOOLEAN]]
    /\ rule \in [Rules -> RuleRow \cup {NoRule}]
    /\ approved \subseteq Devices
    /\ check \in [Checks -> CheckRow \cup {NoCheck}]

-----------------------------------------------------------------------------
(* Facts                                                                   *)

\* What is the case about one user and the rules.
FactsOf(u) ==
    {<<u, IF user[u].owner THEN "owner" ELSE "not owner">>,
     <<u, IF user[u].scoped THEN "scoped" ELSE "unscoped">>}
    \cup UNION {RuleFacts(r) : r \in Rules}

\* What each fact says.
Means(u) ==
    LET F == FactsOf(u)
    IN  /\ <<u, "owner">> \in F => user[u].owner
        /\ <<u, "not owner">> \in F => ~user[u].owner
        /\ <<u, "scoped">> \in F => user[u].scoped
        /\ <<u, "unscoped">> \in F => ~user[u].scoped
        /\ \A r \in Rules :
              /\ <<r, "active">> \in F => rule[r].exists /\ rule[r].active
              /\ <<r, "inactive">> \in F => ~rule[r].exists \/ ~rule[r].active
              /\ <<r, "expired">> \in F => rule[r].exists /\ rule[r].window = "past"
              /\ <<r, "in time">> \in F => rule[r].exists /\ rule[r].window # "past"
              /\ <<r, "approved">> \in F => rule[r].exists /\ rule[r].device \in approved
              /\ <<r, "not approved">> \in F => /\ rule[r].exists /\ rule[r].device # Null
                                                /\ rule[r].device \notin approved

LEMMA RuleMeans ==
    ASSUME NEW q \in Rules, NEW x, NEW f, <<x, f>> \in RuleFacts(q)
    PROVE  /\ x = q
           /\ f \in {"active", "inactive", "expired", "in time", "approved", "not approved"}
           /\ f = "active" => rule[q].exists /\ rule[q].active
           /\ f = "inactive" => ~rule[q].exists \/ ~rule[q].active
           /\ f = "expired" => rule[q].exists /\ rule[q].window = "past"
           /\ f = "in time" => rule[q].exists /\ rule[q].window # "past"
           /\ f = "approved" => rule[q].exists /\ rule[q].device \in approved
           /\ f = "not approved" => /\ rule[q].exists /\ rule[q].device # Null
                                    /\ rule[q].device \notin approved
<1>1. CASE ~rule[q].exists
  <2>1. RuleFacts(q) = {<<q, "inactive">>}  BY <1>1 DEF RuleFacts
  <2>2. x = q /\ f = "inactive"  BY <2>1
  <2> QED BY <1>1, <2>2
<1>2. CASE rule[q].exists
  <2> DEFINE a == IF rule[q].active THEN "active" ELSE "inactive"
             w == IF rule[q].window = "past" THEN "expired" ELSE "in time"
             D == {<<q, IF d \in approved THEN "approved" ELSE "not approved">> :
                      d \in {rule[q].device} \ {Null}}
  <2>1. RuleFacts(q) = {<<q, a>>, <<q, w>>} \cup D  BY <1>2 DEF RuleFacts
  <2> HIDE DEF a, w, D
  <2>2. CASE <<x, f>> = <<q, a>>
    <3>1. x = q /\ f = a  BY <2>2
    <3> QED BY <1>2, <3>1 DEF a
  <2>3. CASE <<x, f>> = <<q, w>>
    <3>1. x = q /\ f = w  BY <2>3
    <3> QED BY <1>2, <3>1 DEF w
  <2>4. CASE <<x, f>> \in D
    <3>1. PICK d \in {rule[q].device} \ {Null} :
             <<x, f>> = <<q, IF d \in approved THEN "approved" ELSE "not approved">>
      BY <2>4 DEF D
    <3>2. x = q /\ f = (IF d \in approved THEN "approved" ELSE "not approved")  BY <3>1
    <3>3. d = rule[q].device /\ d # Null  OBVIOUS
    <3> QED BY <1>2, <3>2, <3>3
  <2> QED BY <2>1, <2>2, <2>3, <2>4
<1> QED BY <1>1, <1>2

LEMMA Meaning == ASSUME NEW u PROVE Means(u)
<1> DEFINE o == IF user[u].owner THEN "owner" ELSE "not owner"
           s == IF user[u].scoped THEN "scoped" ELSE "unscoped"
           R == UNION {RuleFacts(r) : r \in Rules}
           F == {<<u, o>>, <<u, s>>} \cup R
<1>1. FactsOf(u) = F  BY DEF FactsOf
<1>2. ASSUME NEW x, NEW f, <<x, f>> \in F
      PROVE  (x = u /\ f \in {o, s}) \/ (x \in Rules /\ <<x, f>> \in RuleFacts(x))
  <2>1. CASE <<x, f>> \in R
    <3>1. PICK q \in Rules : <<x, f>> \in RuleFacts(q)  BY <2>1
    <3>2. x = q  BY <3>1, RuleMeans
    <3> QED BY <3>1, <3>2
  <2>2. CASE <<x, f>> \notin R
    <3>1. <<x, f>> = <<u, o>> \/ <<x, f>> = <<u, s>>  BY <1>2, <2>2
    <3> QED BY <3>1
  <2> QED BY <2>1, <2>2
<1>3. o \in {"owner", "not owner"} /\ s \in {"scoped", "unscoped"}  OBVIOUS
<1>4. (o = "owner" <=> user[u].owner) /\ (s = "scoped" <=> user[u].scoped)  OBVIOUS
<1> HIDE DEF o, s, F
<1>5. ASSUME NEW f \in {"owner", "not owner", "scoped", "unscoped"}, <<u, f>> \in F
      PROVE  f \in {o, s}
  <2> SUFFICES ASSUME f \notin {o, s} PROVE FALSE  OBVIOUS
  <2>1. u \in Rules /\ <<u, f>> \in RuleFacts(u)  BY <1>2, <1>5
  <2>2. f \in {"active", "inactive", "expired", "in time", "approved", "not approved"}
    BY <2>1, RuleMeans
  <2> QED BY <2>2
<1>6. ASSUME NEW r \in Rules,
             NEW f \in {"active", "inactive", "expired", "in time", "approved", "not approved"},
             <<r, f>> \in F
      PROVE  <<r, f>> \in RuleFacts(r)
  BY <1>2, <1>3, <1>6
<1>7. /\ <<u, "owner">> \in F => user[u].owner
      /\ <<u, "not owner">> \in F => ~user[u].owner
      /\ <<u, "scoped">> \in F => user[u].scoped
      /\ <<u, "unscoped">> \in F => ~user[u].scoped
  BY <1>3, <1>4, <1>5
<1>8. ASSUME NEW r \in Rules
      PROVE  /\ <<r, "active">> \in F => rule[r].exists /\ rule[r].active
             /\ <<r, "inactive">> \in F => ~rule[r].exists \/ ~rule[r].active
             /\ <<r, "expired">> \in F => rule[r].exists /\ rule[r].window = "past"
             /\ <<r, "in time">> \in F => rule[r].exists /\ rule[r].window # "past"
             /\ <<r, "approved">> \in F => rule[r].exists /\ rule[r].device \in approved
             /\ <<r, "not approved">> \in F => /\ rule[r].exists /\ rule[r].device # Null
                                               /\ rule[r].device \notin approved
  BY <1>6, RuleMeans
<1> QED BY <1>1, <1>7, <1>8 DEF Means

-----------------------------------------------------------------------------
(* The invariant                                                           *)

\* A grant that has been read for the call and that nothing stood against but its device.
Hopeful(c, r) ==
    /\ rule[r].exists /\ rule[r].type = "grant" /\ check[c].user \in rule[r].users
    /\ ~Stood(c, r, "inactive") /\ ~Stood(c, r, "expired")
    /\ check[c].auth => rule[r].device \in {Null, check[c].device}

\* A restriction that has been read for the call.
InTheWay(c, r) ==
    /\ rule[r].exists /\ rule[r].type = "restrict" /\ Concerns(r, check[c].user)
    /\ ~Stood(c, r, "inactive")

\* What a call has found out about the caller.
CallerKnown(c) ==
    LET k == check[c]
    IN  /\ k.pc \in {"grants", "devices", "restricts", "rules", "lookup", "refused"}
              => ~Stood(c, k.user, "owner")
        /\ k.pc \in {"grants", "devices"} => ~Stood(c, k.user, "unscoped")

\* What it has found out about the grants.
GrantsKnown(c) ==
    LET k == check[c]
    IN  /\ k.pc \in {"grants", "devices"} =>
              /\ \A r \in k.expired : ~Stood(c, r, "in time")
              /\ \A r \in Rules \ k.expired : ~Stood(c, r, "expired")
        /\ k.pc = "devices" =>
              /\ \A r \in k.kept : Hopeful(c, r) /\ (k.auth => ~Stood(c, r, "not approved"))
              /\ \A r \in k.pending : Hopeful(c, r) /\ k.auth /\ rule[r].device # Null
              /\ \A r \in Rules \ (k.kept \cup k.pending) : ~Granted(c, r)
        /\ k.pc \in {"restricts", "rules", "lookup", "allowed"} =>
              (Stood(c, k.user, "not owner") /\ Stood(c, k.user, "scoped")
                 => \E r \in Rules : MayHaveGranted(c, r))

\* What it has found out about the restrictions.
RestrictsKnown(c) ==
    LET k == check[c]
    IN  /\ k.pc = "rules" => /\ \A r \in k.pending : InTheWay(c, r)
                             /\ \A r \in Rules \ k.pending : ~Blocked(c, r)
        /\ k.pc = "lookup" =>
              /\ \A r \in k.pending : InTheWay(c, r)
              /\ \A r \in Rules \ (k.pending \cup {k.at}) : ~Blocked(c, r)
              /\ k.at \in Rules /\ InTheWay(c, k.at) /\ ~Unconditional(k.at)
              /\ ~Stood(c, k.at, "expired")
              /\ rule[k.at].device = k.device /\ rule[k.at].device # Null
        /\ k.pc = "allowed" => (Stood(c, k.user, "not owner") => \A r \in Rules : ~Blocked(c, r))

\* A refusal has its reason.
RefusalKnown(c) ==
    check[c].pc = "refused" =>
        \/ \E r \in Rules : MayHaveBlocked(c, r)
        \/ /\ ~Stood(c, check[c].user, "unscoped")
           /\ \A r \in Rules : ~Granted(c, r)

\* Only a rule there is has been active throughout.
ActiveExist(c) == \A r \in Rules : Stood(c, r, "active") => rule[r].exists

Known(c) == /\ ActiveExist(c)
            /\ CallerKnown(c) /\ GrantsKnown(c) /\ RestrictsKnown(c) /\ RefusalKnown(c)

VerdictInv == \A c \in Checks : Known(c)

-----------------------------------------------------------------------------
(* A call that is not moved                                                *)

\* A rule keeps everything but whether it is active and in time.
RulesStay ==
    /\ case' = case
    /\ \A r \in Rules : rule[r].exists =>
          /\ rule'[r].exists /\ rule'[r].type = rule[r].type /\ rule'[r].scope = rule[r].scope
          /\ rule'[r].users = rule[r].users /\ rule'[r].device = rule[r].device
          /\ (rule'[r].window = "none") <=> (rule[r].window = "none")

LEMMA KnownStays ==
    ASSUME NEW c \in Checks, Known(c), RulesStay, check'[c] = check[c],
           stood'[c] \subseteq stood[c], check[c] \in CheckRow \cup {NoCheck}
    PROVE  Known(c)'
<1>1. \A x, f : Stood(c, x, f)' => Stood(c, x, f)  BY DEF Stood
<1>2. ASSUME NEW r \in Rules, rule[r].exists
      PROVE  /\ rule'[r].exists /\ rule'[r].type = rule[r].type
             /\ rule'[r].users = rule[r].users /\ rule'[r].device = rule[r].device
             /\ Covers(r)' <=> Covers(r)
             /\ Unconditional(r)' <=> Unconditional(r)
             /\ \A u : Concerns(r, u)' <=> Concerns(r, u)
  <2>1. /\ rule'[r].exists /\ rule'[r].type = rule[r].type /\ rule'[r].scope = rule[r].scope
        /\ rule'[r].users = rule[r].users /\ rule'[r].device = rule[r].device
        /\ (rule'[r].window = "none") <=> (rule[r].window = "none")
        /\ case' = case
    BY <1>2 DEF RulesStay
  <2>2. Covers(r)' = Covers(r)  BY <2>1 DEF Covers, Context
  <2>3. Unconditional(r)' <=> Unconditional(r)  BY <2>1 DEF Unconditional
  <2>4. ASSUME NEW u PROVE Concerns(r, u)' <=> Concerns(r, u)
    BY <2>1, <2>2 DEF Concerns
  <2> QED BY <2>1, <2>2, <2>3, <2>4
<1>3. ActiveExist(c)'  BY <1>1, <1>2 DEF Known, ActiveExist
<1>4. \A r \in Rules : Hopeful(c, r) => Hopeful(c, r)'  BY <1>1, <1>2 DEF Hopeful
<1>5. \A r \in Rules : InTheWay(c, r) => InTheWay(c, r)'  BY <1>1, <1>2 DEF InTheWay
<1>6. \A r \in Rules : MayHaveGranted(c, r) => MayHaveGranted(c, r)'
  BY <1>1, <1>2 DEF MayHaveGranted
<1>7. \A r \in Rules : MayHaveBlocked(c, r) => MayHaveBlocked(c, r)'
  BY <1>1, <1>2 DEF MayHaveBlocked
<1>8. \A r \in Rules : Granted(c, r)' => Granted(c, r)
  BY <1>1, <1>2 DEF Granted, Known, ActiveExist
<1>9. \A r \in Rules : Blocked(c, r)' => Blocked(c, r)
  BY <1>1, <1>2 DEF Blocked, Known, ActiveExist
<1>10. CallerKnown(c)'  BY <1>1 DEF Known, CallerKnown
<1>11. /\ check[c].pc # "idle" => /\ check[c].kept \subseteq Rules
                                  /\ check[c].pending \subseteq Rules
  BY DEF CheckRow, NoCheck
<1>12. GrantsKnown(c)'
  BY <1>1, <1>2, <1>4, <1>6, <1>8, <1>11 DEF Known, GrantsKnown, Hopeful
<1>13. RestrictsKnown(c)'
  BY <1>1, <1>2, <1>5, <1>9, <1>11 DEF Known, RestrictsKnown, InTheWay
<1>14. RefusalKnown(c)'  BY <1>1, <1>7, <1>8 DEF Known, RefusalKnown
<1> QED BY <1>3, <1>10, <1>12, <1>13, <1>14 DEF Known

-----------------------------------------------------------------------------
(* A step of a call                                                        *)

\* The call goes on with the row next.
Moved(c, next) == /\ check[c].pc \in Deciding
                  /\ next \in CheckRow
                  /\ next.user = check[c].user
                  /\ Answer(c, next)

\* What has stood since the call arrived and stands now, after a step of it.
StandsNow(c) ==
    LET u == check[c].user
    IN  /\ Stood(c, u, "owner")' => Stood(c, u, "owner") /\ user[u].owner
        /\ Stood(c, u, "not owner")' => Stood(c, u, "not owner") /\ ~user[u].owner
        /\ Stood(c, u, "scoped")' => Stood(c, u, "scoped") /\ user[u].scoped
        /\ Stood(c, u, "unscoped")' => Stood(c, u, "unscoped") /\ ~user[u].scoped
        /\ \A r \in Rules :
              /\ Stood(c, r, "active")' =>
                    Stood(c, r, "active") /\ rule[r].exists /\ rule[r].active
              /\ Stood(c, r, "inactive")' =>
                    Stood(c, r, "inactive") /\ (~rule[r].exists \/ ~rule[r].active)
              /\ Stood(c, r, "expired")' =>
                    Stood(c, r, "expired") /\ rule[r].exists /\ rule[r].window = "past"
              /\ Stood(c, r, "in time")' =>
                    Stood(c, r, "in time") /\ rule[r].exists /\ rule[r].window # "past"
              /\ Stood(c, r, "approved")' =>
                    Stood(c, r, "approved") /\ rule[r].exists /\ rule[r].device \in approved
              /\ Stood(c, r, "not approved")' =>
                    /\ Stood(c, r, "not approved")
                    /\ rule[r].exists /\ rule[r].device # Null /\ rule[r].device \notin approved

\* Nothing but the row of the call and the history changes.
Still(c, next) ==
    /\ check'[c] = next
    /\ case' = case /\ user' = user /\ rule' = rule /\ approved' = approved
    /\ StandsNow(c)
    /\ \A r \in Rules : (Covers(r)' <=> Covers(r)) /\ (Unconditional(r)' <=> Unconditional(r))
    /\ \A r \in Rules, u \in Users : Concerns(r, u)' <=> Concerns(r, u)

LEMMA RowOf ==
    ASSUME TypeOK, NEW c \in Checks, check[c].pc \in Deciding
    PROVE  check[c] \in CheckRow
<1>1. check[c] # NoCheck  BY DEF NoCheck, Deciding
<1> QED BY <1>1 DEF TypeOK

LEMMA WatchOthers ==
    ASSUME NEW d \in Checks, Watch, check'[d] = check[d]
    PROVE  stood'[d] \subseteq stood[d]
BY DEF Watch

LEMMA Steps ==
    ASSUME TypeOK, NEW c \in Checks, NEW next, Moved(c, next)
    PROVE  Still(c, next)
<1> DEFINE u == check[c].user
<1>1. check' = [check EXCEPT ![c] = next] /\ UNCHANGED <<case, user, rule, approved>> /\ Watch
  BY DEF Moved, Answer
<1>2. check'[c] = next  BY <1>1 DEF TypeOK
<1>3. next.user = u /\ next.pc # "idle" /\ check[c].pc \in Deciding
  BY DEF Moved, CheckRow, Deciding
<1>4. Facts(c)' = FactsOf(u)
  <2>1. \A r \in Rules : RuleFacts(r)' = RuleFacts(r)  BY <1>1 DEF RuleFacts
  <2>2. (UNION {RuleFacts(r) : r \in Rules})' = UNION {RuleFacts(r) : r \in Rules}  BY <2>1
  <2> QED BY <1>1, <1>2, <1>3, <2>2 DEF Facts, FactsOf
<1>5. stood'[c] = stood[c] \cap Facts(c)'  BY <1>1, <1>2, <1>3 DEF Watch
<1>6. ASSUME NEW x, NEW f
      PROVE  Stood(c, x, f)' => Stood(c, x, f) /\ <<x, f>> \in FactsOf(u)
  BY <1>4, <1>5 DEF Stood
<1>7. StandsNow(c)
  <2>1. Means(u)  BY Meaning
  <2>2. /\ <<u, "owner">> \in FactsOf(u) => user[u].owner
        /\ <<u, "not owner">> \in FactsOf(u) => ~user[u].owner
        /\ <<u, "scoped">> \in FactsOf(u) => user[u].scoped
        /\ <<u, "unscoped">> \in FactsOf(u) => ~user[u].scoped
    BY <2>1, Zenon DEF Means
  <2>3. /\ Stood(c, u, "owner")' => Stood(c, u, "owner") /\ user[u].owner
        /\ Stood(c, u, "not owner")' => Stood(c, u, "not owner") /\ ~user[u].owner
        /\ Stood(c, u, "scoped")' => Stood(c, u, "scoped") /\ user[u].scoped
        /\ Stood(c, u, "unscoped")' => Stood(c, u, "unscoped") /\ ~user[u].scoped
    BY <1>2, <1>3, <1>6, <2>2
  <2>4. ASSUME NEW r \in Rules
        PROVE  /\ Stood(c, r, "active")' =>
                     Stood(c, r, "active") /\ rule[r].exists /\ rule[r].active
               /\ Stood(c, r, "inactive")' =>
                     Stood(c, r, "inactive") /\ (~rule[r].exists \/ ~rule[r].active)
               /\ Stood(c, r, "expired")' =>
                     Stood(c, r, "expired") /\ rule[r].exists /\ rule[r].window = "past"
               /\ Stood(c, r, "in time")' =>
                     Stood(c, r, "in time") /\ rule[r].exists /\ rule[r].window # "past"
               /\ Stood(c, r, "approved")' =>
                     Stood(c, r, "approved") /\ rule[r].exists /\ rule[r].device \in approved
               /\ Stood(c, r, "not approved")' =>
                     /\ Stood(c, r, "not approved")
                     /\ rule[r].exists /\ rule[r].device # Null
                     /\ rule[r].device \notin approved
    BY <1>6, <2>1, Zenon DEF Means
  <2> QED BY <2>3, <2>4 DEF StandsNow
<1>8. \A r \in Rules : (Covers(r)' <=> Covers(r)) /\ (Unconditional(r)' <=> Unconditional(r))
  BY <1>1 DEF Covers, Context, Unconditional
<1>9. \A r \in Rules, v \in Users : Concerns(r, v)' <=> Concerns(r, v)
  BY <1>1, <1>8 DEF Concerns
<1> QED BY <1>1, <1>2, <1>7, <1>8, <1>9 DEF Still

LEMMA LoadsUser ==
    ASSUME TypeOK, VerdictInv, NEW c \in Checks, CheckLoadsUser(c)
    PROVE  \E next : Moved(c, next) /\ Known(c)'
<1> DEFINE u == check[c].user
           e == IF ~user[u].owner /\ user[u].scoped THEN Past ELSE {}
           p == IF user[u].owner THEN "allowed" ELSE IF user[u].scoped THEN "grants" ELSE "restricts"
           next == [check[c] EXCEPT !.pc = p, !.expired = e]
<1>1. check[c].pc = "context" /\ check[c].pc \in Deciding  BY DEF CheckLoadsUser, At, Deciding
<1>2. check[c] \in CheckRow  BY <1>1, RowOf
<1>3. p \in Deciding \cup {"allowed", "refused"} /\ e \in SUBSET Rules  BY DEF Deciding, Past
<1>4. Answer(c, next)  BY DEF CheckLoadsUser
<1>5. (p = "allowed" <=> user[u].owner) /\ (p = "grants" <=> ~user[u].owner /\ user[u].scoped)
      /\ (p = "restricts" <=> ~user[u].owner /\ ~user[u].scoped)
      /\ p \in {"allowed", "grants", "restricts"}
  OBVIOUS
<1>6. p = "grants" => e = Past  BY <1>5
<1> HIDE DEF p, e
<1>7. /\ next \in CheckRow /\ next.user = u /\ next.pc = p /\ next.expired = e
      /\ u \in Users
  BY <1>2, <1>3 DEF CheckRow
<1> HIDE DEF next
<1>8. Moved(c, next)  BY <1>1, <1>4, <1>7 DEF Moved
<1>9. Still(c, next)  BY <1>8, Steps
<1>10. CallerKnown(c)'  BY <1>5, <1>7, <1>9 DEF Still, StandsNow, CallerKnown
<1>11. GrantsKnown(c)'
  BY <1>5, <1>6, <1>7, <1>9 DEF Still, StandsNow, GrantsKnown, Past
<1>12. RestrictsKnown(c)'  BY <1>5, <1>7, <1>9 DEF Still, StandsNow, RestrictsKnown
<1>13. RefusalKnown(c)' /\ ActiveExist(c)'
  BY <1>5, <1>7, <1>9 DEF Still, StandsNow, RefusalKnown, ActiveExist
<1> QED BY <1>8, <1>10, <1>11, <1>12, <1>13 DEF Known

LEMMA ReadsGrants ==
    ASSUME TypeOK, VerdictInv, NEW c \in Checks, CheckReadsGrants(c)
    PROVE  \E next : Moved(c, next) /\ Known(c)'
<1> DEFINE k     == check[c]
           u     == k.user
           asked == {r \in GrantRows(u) \ k.expired :
                        k.auth => rule[r].device \in {Null, k.device}}
           sure  == {r \in asked : rule[r].device = Null \/ ~k.auth}
           rest  == asked \ sure
           next  == [k EXCEPT !.pc = "devices", !.pending = rest, !.kept = sure]
<1>1. k.pc = "grants" /\ k.pc \in Deciding  BY DEF CheckReadsGrants, At, Deciding
<1>2. k \in CheckRow  BY <1>1, RowOf
<1>3. Answer(c, next)  BY DEF CheckReadsGrants
<1>4. asked \subseteq Rules /\ sure \subseteq Rules /\ rest \subseteq Rules
  BY DEF GrantRows, Active
<1>5. \A r \in Rules : r \in asked <=> /\ rule[r].exists /\ rule[r].active
                                       /\ rule[r].type = "grant" /\ u \in rule[r].users
                                       /\ r \notin k.expired
                                       /\ k.auth => rule[r].device \in {Null, k.device}
  BY DEF GrantRows, Active
<1>6. \A r \in Rules : /\ r \in sure <=> r \in asked /\ (rule[r].device = Null \/ ~k.auth)
                       /\ r \in rest <=> r \in asked /\ ~(rule[r].device = Null \/ ~k.auth)
  OBVIOUS
<1> HIDE DEF asked, sure, rest
<1>7. /\ next \in CheckRow /\ next.user = u /\ next.pc = "devices" /\ next.auth = k.auth
      /\ next.device = k.device
      /\ next.expired = k.expired /\ next.pending = rest /\ next.kept = sure
      /\ u \in Users
  BY <1>2, <1>4 DEF CheckRow, Deciding
<1> HIDE DEF next
<1>8. Moved(c, next)  BY <1>1, <1>3, <1>7 DEF Moved
<1>9. Still(c, next)  BY <1>8, Steps
<1>10. Known(c)  BY DEF VerdictInv
<1>11. CallerKnown(c)'  BY <1>1, <1>7, <1>9, <1>10 DEF Still, StandsNow, CallerKnown, Known
<1>12. /\ \A r \in k.expired : ~Stood(c, r, "in time")
       /\ \A r \in Rules \ k.expired : ~Stood(c, r, "expired")
  BY <1>1, <1>10 DEF Known, GrantsKnown
<1>13. \A r \in asked : Hopeful(c, r)'
  BY <1>4, <1>5, <1>7, <1>9, <1>12 DEF Still, StandsNow, Hopeful
<1>14. \A r \in sure : Hopeful(c, r)' /\ (next.auth => ~Stood(c, r, "not approved")')
  BY <1>4, <1>6, <1>7, <1>9, <1>13 DEF Still, StandsNow
<1>15. \A r \in rest : Hopeful(c, r)' /\ next.auth /\ rule'[r].device # Null
  BY <1>2, <1>4, <1>6, <1>7, <1>9, <1>13 DEF Still
<1>16. \A r \in Rules \ (sure \cup rest) : ~Granted(c, r)'
  <2> SUFFICES ASSUME NEW r \in Rules, r \notin asked, Granted(c, r)' PROVE FALSE
    BY <1>4, <1>6
  <2>1. /\ rule[r].exists /\ rule[r].active /\ rule[r].type = "grant" /\ u \in rule[r].users
        /\ Stood(c, r, "in time")
        /\ k.auth => rule[r].device \in {Null, k.device}
    BY <1>7, <1>9 DEF Granted, Still, StandsNow
  <2>2. r \notin k.expired  BY <1>12, <2>1
  <2> QED BY <1>5, <2>1, <2>2
<1>17. /\ \A r \in k.expired : ~Stood(c, r, "in time")'
       /\ \A r \in Rules \ k.expired : ~Stood(c, r, "expired")'
  BY <1>2, <1>9, <1>12 DEF Still, StandsNow, CheckRow
<1>18. GrantsKnown(c)'
  BY <1>7, <1>9, <1>14, <1>15, <1>16, <1>17 DEF Still, GrantsKnown
<1>19. RestrictsKnown(c)'  BY <1>7, <1>9 DEF Still, RestrictsKnown
<1>20. RefusalKnown(c)' /\ ActiveExist(c)'
  BY <1>7, <1>9 DEF Still, StandsNow, RefusalKnown, ActiveExist
<1> QED BY <1>8, <1>11, <1>18, <1>19, <1>20 DEF Known

LEMMA LooksUpDevice ==
    ASSUME TypeOK, VerdictInv, NEW c \in Checks, CheckLooksUpDevice(c)
    PROVE  \E next : Moved(c, next) /\ Known(c)'
<1> DEFINE k == check[c]
<1>1. k.pc = "devices" /\ k.pc \in Deciding  BY DEF CheckLooksUpDevice, At, Deciding
<1>2. k \in CheckRow  BY <1>1, RowOf
<1>3. PICK q \in k.pending :
         Answer(c, [k EXCEPT !.pending = @ \ {q},
                             !.kept = IF rule[q].device \in approved THEN @ \cup {q} ELSE @])
  BY DEF CheckLooksUpDevice
<1> DEFINE K    == IF rule[q].device \in approved THEN k.kept \cup {q} ELSE k.kept
           next == [k EXCEPT !.pending = k.pending \ {q}, !.kept = K]
<1>4. Answer(c, next)  BY <1>2, <1>3 DEF CheckRow
<1>5. q \in Rules /\ K \subseteq Rules /\ k.pending \subseteq Rules /\ k.kept \subseteq Rules
  BY <1>2, <1>3 DEF CheckRow
<1>6. \A r : r \in K <=> r \in k.kept \/ (r = q /\ rule[q].device \in approved)  OBVIOUS
<1> HIDE DEF K
<1>7. /\ next \in CheckRow /\ next.user = k.user /\ next.pc = "devices" /\ next.auth = k.auth
      /\ next.device = k.device
      /\ next.expired = k.expired /\ next.pending = k.pending \ {q} /\ next.kept = K
  BY <1>1, <1>2, <1>5 DEF CheckRow
<1> HIDE DEF next
<1>8. Moved(c, next)  BY <1>1, <1>4, <1>7 DEF Moved
<1>9. Still(c, next)  BY <1>8, Steps
<1>10. Known(c)  BY DEF VerdictInv
<1>11. CallerKnown(c)'  BY <1>1, <1>7, <1>9, <1>10 DEF Still, StandsNow, CallerKnown, Known
<1>12. /\ \A r \in k.expired : ~Stood(c, r, "in time")'
       /\ \A r \in Rules \ k.expired : ~Stood(c, r, "expired")'
  BY <1>1, <1>2, <1>9, <1>10 DEF Still, StandsNow, CheckRow, Known, GrantsKnown
<1>13. /\ \A r \in k.kept : Hopeful(c, r) /\ (k.auth => ~Stood(c, r, "not approved"))
       /\ \A r \in k.pending : Hopeful(c, r) /\ k.auth /\ rule[r].device # Null
       /\ \A r \in Rules \ (k.kept \cup k.pending) : ~Granted(c, r)
  BY <1>1, <1>10 DEF Known, GrantsKnown
<1>14. \A r \in Rules : Hopeful(c, r) => Hopeful(c, r)'
  BY <1>7, <1>9 DEF Still, StandsNow, Hopeful
<1>15. \A r \in Rules : Granted(c, r)' => Granted(c, r)
  BY <1>7, <1>9 DEF Still, StandsNow, Granted
<1>16. \A r \in K : Hopeful(c, r)' /\ (next.auth => ~Stood(c, r, "not approved")')
  <2>1. ASSUME NEW r \in k.kept
        PROVE  Hopeful(c, r)' /\ (next.auth => ~Stood(c, r, "not approved")')
    BY <1>5, <1>7, <1>9, <1>13, <1>14 DEF Still, StandsNow
  <2>2. ASSUME rule[q].device \in approved
        PROVE  Hopeful(c, q)' /\ ~Stood(c, q, "not approved")'
    BY <1>3, <1>5, <1>9, <1>13, <1>14, <2>2 DEF Still, StandsNow
  <2> QED BY <1>6, <2>1, <2>2
<1>17. \A r \in k.pending \ {q} : Hopeful(c, r)' /\ next.auth /\ rule'[r].device # Null
  BY <1>5, <1>7, <1>9, <1>13, <1>14 DEF Still
<1>18. \A r \in Rules \ (K \cup (k.pending \ {q})) : ~Granted(c, r)'
  <2> SUFFICES ASSUME NEW r \in Rules, r \notin K, r \notin k.pending \ {q}, Granted(c, r)'
               PROVE  FALSE
    OBVIOUS
  <2>1. Granted(c, r)  BY <1>15
  <2>2. r = q /\ rule[q].device \notin approved  BY <1>6, <1>13, <2>1
  <2>3. k.auth /\ rule[q].device # Null  BY <1>3, <1>13
  <2>4. Stood(c, q, "approved")'  BY <1>7, <1>9, <2>2, <2>3 DEF Granted, Still
  <2> QED BY <1>5, <1>9, <2>2, <2>4 DEF Still, StandsNow
<1>19. GrantsKnown(c)'
  BY <1>7, <1>9, <1>12, <1>16, <1>17, <1>18 DEF Still, GrantsKnown
<1>20. RestrictsKnown(c)'  BY <1>7, <1>9 DEF Still, RestrictsKnown
<1>21. RefusalKnown(c)' /\ ActiveExist(c)'
  BY <1>7, <1>9 DEF Still, StandsNow, RefusalKnown, ActiveExist
<1> QED BY <1>8, <1>11, <1>19, <1>20, <1>21 DEF Known

LEMMA AppliesGrants ==
    ASSUME TypeOK, VerdictInv, NEW c \in Checks, CheckAppliesGrants(c)
    PROVE  \E next : Moved(c, next) /\ Known(c)'
<1> DEFINE k    == check[c]
           p    == IF \E r \in k.kept : Covers(r) THEN "restricts" ELSE "refused"
           next == [k EXCEPT !.pc = p, !.kept = {}, !.expired = {}]
<1>1. k.pc = "devices" /\ k.pc \in Deciding /\ k.pending = {}
  BY DEF CheckAppliesGrants, At, Deciding
<1>2. k \in CheckRow  BY <1>1, RowOf
<1>3. Answer(c, next)  BY DEF CheckAppliesGrants
<1>4. p \in Deciding \cup {"allowed", "refused"}  BY DEF Deciding
<1>5. \/ p = "restricts" /\ \E r \in k.kept : Covers(r)
      \/ p = "refused" /\ \A r \in k.kept : ~Covers(r)
  OBVIOUS
<1> HIDE DEF p
<1>6. /\ next \in CheckRow /\ next.user = k.user /\ next.pc = p /\ next.auth = k.auth
      /\ next.device = k.device /\ k.kept \subseteq Rules
  BY <1>2, <1>4 DEF CheckRow
<1> HIDE DEF next
<1>7. Moved(c, next)  BY <1>1, <1>3, <1>6 DEF Moved
<1>8. Still(c, next)  BY <1>7, Steps
<1>9. Known(c)  BY DEF VerdictInv
<1>10. CallerKnown(c)'
  BY <1>1, <1>5, <1>6, <1>8, <1>9 DEF Still, StandsNow, CallerKnown, Known
<1>11. ~Stood(c, k.user, "unscoped")  BY <1>1, <1>9 DEF Known, CallerKnown
<1>12. /\ \A r \in k.kept : Hopeful(c, r) /\ (k.auth => ~Stood(c, r, "not approved"))
       /\ \A r \in Rules \ k.kept : ~Granted(c, r)
  BY <1>1, <1>9 DEF Known, GrantsKnown
<1>13. CASE p = "restricts" /\ \E r \in k.kept : Covers(r)
  <2>1. PICK q \in k.kept : Covers(q)  BY <1>13
  <2>2. Hopeful(c, q) /\ (k.auth => ~Stood(c, q, "not approved"))  BY <1>12
  <2>3. MayHaveGranted(c, q)'
    BY <1>6, <1>8, <2>1, <2>2 DEF Still, StandsNow, MayHaveGranted, Hopeful
  <2>4. GrantsKnown(c)'  BY <1>6, <1>8, <1>13, <2>3 DEF Still, GrantsKnown
  <2> QED BY <1>6, <1>7, <1>8, <1>10, <1>13, <2>4
          DEF Known, Still, StandsNow, RestrictsKnown, RefusalKnown, ActiveExist
<1>14. CASE p = "refused" /\ \A r \in k.kept : ~Covers(r)
  <2>1. \A r \in Rules : ~Granted(c, r)'
    <3> SUFFICES ASSUME NEW r \in Rules, Granted(c, r)' PROVE FALSE  OBVIOUS
    <3>1. Granted(c, r) /\ Covers(r)  BY <1>6, <1>8 DEF Still, StandsNow, Granted
    <3> QED BY <1>12, <1>14, <3>1
  <2>2. ~Stood(c, k.user, "unscoped")'
    BY <1>6, <1>8, <1>11 DEF Still, StandsNow
  <2>3. RefusalKnown(c)'  BY <1>6, <1>8, <2>1, <2>2 DEF Still, RefusalKnown
  <2> QED BY <1>6, <1>7, <1>8, <1>10, <1>14, <2>3
          DEF Known, Still, StandsNow, RestrictsKnown, GrantsKnown, ActiveExist
<1> QED BY <1>5, <1>13, <1>14

LEMMA ReadsRestricts ==
    ASSUME TypeOK, VerdictInv, NEW c \in Checks, CheckReadsRestricts(c)
    PROVE  \E next : Moved(c, next) /\ Known(c)'
<1> DEFINE k    == check[c]
           R    == {r \in Active("restrict") : Concerns(r, k.user)}
           next == [k EXCEPT !.pc = "rules", !.pending = R]
<1>1. k.pc = "restricts" /\ k.pc \in Deciding  BY DEF CheckReadsRestricts, At, Deciding
<1>2. k \in CheckRow  BY <1>1, RowOf
<1>3. Answer(c, next)  BY DEF CheckReadsRestricts, Goes
<1>4. R \subseteq Rules
      /\ \A r \in Rules : r \in R <=> /\ rule[r].exists /\ rule[r].active
                                      /\ rule[r].type = "restrict" /\ Concerns(r, k.user)
  BY DEF Active
<1> HIDE DEF R
<1>5. /\ next \in CheckRow /\ next.user = k.user /\ next.pc = "rules" /\ next.auth = k.auth
      /\ next.device = k.device /\ next.pending = R /\ k.user \in Users
  BY <1>2, <1>4 DEF CheckRow, Deciding
<1> HIDE DEF next
<1>6. Moved(c, next)  BY <1>1, <1>3, <1>5 DEF Moved
<1>7. Still(c, next)  BY <1>6, Steps
<1>8. Known(c)  BY DEF VerdictInv
<1>9. CallerKnown(c)'  BY <1>1, <1>5, <1>7, <1>8 DEF Still, StandsNow, CallerKnown, Known
<1>10. \A r \in Rules : MayHaveGranted(c, r) => MayHaveGranted(c, r)'
  BY <1>5, <1>7 DEF Still, StandsNow, MayHaveGranted
<1>11. GrantsKnown(c)'
  BY <1>1, <1>5, <1>7, <1>8, <1>10 DEF Still, StandsNow, GrantsKnown, Known
<1>12. \A r \in R : InTheWay(c, r)'
  BY <1>4, <1>5, <1>7 DEF Still, StandsNow, InTheWay
<1>13. \A r \in Rules \ R : ~Blocked(c, r)'
  BY <1>4, <1>5, <1>7 DEF Still, StandsNow, Blocked
<1>14. RestrictsKnown(c)'  BY <1>5, <1>7, <1>12, <1>13 DEF Still, RestrictsKnown
<1> QED BY <1>5, <1>6, <1>7, <1>9, <1>11, <1>14
        DEF Known, Still, StandsNow, RefusalKnown, ActiveExist

LEMMA JudgesRule ==
    ASSUME TypeOK, VerdictInv, NEW c \in Checks, CheckJudgesRule(c)
    PROVE  \E next : Moved(c, next) /\ Known(c)'
<1> DEFINE k == check[c]
<1>1. k.pc = "rules" /\ k.pc \in Deciding  BY DEF CheckJudgesRule, At, Deciding
<1>2. k \in CheckRow  BY <1>1, RowOf
<1>3. PICK q \in k.pending :
         IF \/ Unconditional(q) \/ rule[q].window = "past"
            \/ rule[q].device \notin {Null, k.device}
         THEN Goes(c, "refused", {})
         ELSE IF rule[q].device = Null
         THEN Goes(c, "rules", k.pending \ {q})
         ELSE Answer(c, [k EXCEPT !.pc = "lookup", !.pending = @ \ {q}, !.at = q])
  BY DEF CheckJudgesRule
<1>4. Known(c)  BY DEF VerdictInv
<1>5. /\ k.pending \subseteq Rules /\ q \in Rules /\ k.user \in Users
  BY <1>2, <1>3 DEF CheckRow
<1>6. /\ \A r \in k.pending : InTheWay(c, r)
      /\ \A r \in Rules \ k.pending : ~Blocked(c, r)
  BY <1>1, <1>4 DEF Known, RestrictsKnown
<1>7. CASE \/ Unconditional(q) \/ rule[q].window = "past"
           \/ rule[q].device \notin {Null, k.device}
  <2> DEFINE next == [k EXCEPT !.pc = "refused", !.pending = {}]
  <2>1. Answer(c, next)  BY <1>3, <1>7 DEF Goes
  <2>2. /\ next \in CheckRow /\ next.user = k.user /\ next.pc = "refused" /\ next.auth = k.auth
        /\ next.device = k.device
    BY <1>2 DEF CheckRow
  <2> HIDE DEF next
  <2>3. Moved(c, next)  BY <1>1, <2>1, <2>2 DEF Moved
  <2>4. Still(c, next)  BY <2>3, Steps
  <2>5. CallerKnown(c)'  BY <1>1, <1>4, <2>2, <2>4 DEF Still, StandsNow, CallerKnown, Known
  <2>6. InTheWay(c, q)  BY <1>3, <1>6
  <2>7. MayHaveBlocked(c, q)'
    BY <1>5, <1>7, <2>2, <2>4, <2>6 DEF Still, StandsNow, MayHaveBlocked, InTheWay
  <2>8. RefusalKnown(c)'  BY <1>5, <2>7 DEF RefusalKnown
  <2> QED BY <2>2, <2>3, <2>4, <2>5, <2>8
          DEF Known, Still, StandsNow, RestrictsKnown, GrantsKnown, ActiveExist
<1>8. CASE /\ ~Unconditional(q) /\ rule[q].window # "past"
           /\ rule[q].device = Null
  <2> DEFINE next == [k EXCEPT !.pc = "rules", !.pending = k.pending \ {q}]
  <2>1. Answer(c, next)  BY <1>3, <1>8 DEF Goes
  <2>2. /\ next \in CheckRow /\ next.user = k.user /\ next.pc = "rules" /\ next.auth = k.auth
        /\ next.device = k.device /\ next.pending = k.pending \ {q}
    BY <1>2, <1>5 DEF CheckRow, Deciding
  <2> HIDE DEF next
  <2>3. Moved(c, next)  BY <1>1, <2>1, <2>2 DEF Moved
  <2>4. Still(c, next)  BY <2>3, Steps
  <2>5. CallerKnown(c)'  BY <1>1, <1>4, <2>2, <2>4 DEF Still, StandsNow, CallerKnown, Known
  <2>6. \A r \in Rules : MayHaveGranted(c, r) => MayHaveGranted(c, r)'
    BY <2>2, <2>4 DEF Still, StandsNow, MayHaveGranted
  <2>7. GrantsKnown(c)'
    BY <1>1, <1>4, <2>2, <2>4, <2>6 DEF Still, StandsNow, GrantsKnown, Known
  <2>8. \A r \in Rules : InTheWay(c, r) => InTheWay(c, r)'
    BY <1>5, <2>2, <2>4 DEF Still, StandsNow, InTheWay
  <2>9. \A r \in Rules : Blocked(c, r)' => Blocked(c, r)
    BY <1>5, <2>2, <2>4 DEF Still, StandsNow, Blocked
  <2>10. ~Blocked(c, q)'
    BY <1>5, <1>8, <2>2, <2>4 DEF Still, StandsNow, Blocked
  <2>11. RestrictsKnown(c)'
    BY <1>5, <1>6, <2>2, <2>4, <2>8, <2>9, <2>10 DEF Still, RestrictsKnown
  <2> QED BY <2>2, <2>3, <2>4, <2>5, <2>7, <2>11
          DEF Known, Still, StandsNow, RefusalKnown, ActiveExist
<1>9. CASE /\ ~Unconditional(q) /\ rule[q].window # "past"
           /\ rule[q].device \in {Null, k.device} /\ rule[q].device # Null
  <2> DEFINE next == [k EXCEPT !.pc = "lookup", !.pending = k.pending \ {q}, !.at = q]
  <2>1. Answer(c, next)  BY <1>2, <1>3, <1>9 DEF CheckRow
  <2>2. /\ next \in CheckRow /\ next.user = k.user /\ next.pc = "lookup" /\ next.auth = k.auth
        /\ next.device = k.device /\ next.pending = k.pending \ {q} /\ next.at = q
    BY <1>2, <1>5 DEF CheckRow, Deciding
  <2> HIDE DEF next
  <2>3. Moved(c, next)  BY <1>1, <2>1, <2>2 DEF Moved
  <2>4. Still(c, next)  BY <2>3, Steps
  <2>5. CallerKnown(c)'  BY <1>1, <1>4, <2>2, <2>4 DEF Still, StandsNow, CallerKnown, Known
  <2>6. \A r \in Rules : MayHaveGranted(c, r) => MayHaveGranted(c, r)'
    BY <2>2, <2>4 DEF Still, StandsNow, MayHaveGranted
  <2>7. GrantsKnown(c)'
    BY <1>1, <1>4, <2>2, <2>4, <2>6 DEF Still, StandsNow, GrantsKnown, Known
  <2>8. \A r \in Rules : InTheWay(c, r) => InTheWay(c, r)'
    BY <1>5, <2>2, <2>4 DEF Still, StandsNow, InTheWay
  <2>9. \A r \in Rules : Blocked(c, r)' => Blocked(c, r)
    BY <1>5, <2>2, <2>4 DEF Still, StandsNow, Blocked
  <2>10. /\ InTheWay(c, q)' /\ ~Unconditional(q)' /\ ~Stood(c, q, "expired")'
         /\ rule'[q].device = next.device /\ rule'[q].device # Null
    BY <1>3, <1>5, <1>6, <1>9, <2>2, <2>4, <2>8 DEF Still, StandsNow
  <2>11. /\ \A r \in k.pending \ {q} : InTheWay(c, r)'
         /\ \A r \in Rules \ ((k.pending \ {q}) \cup {q}) : ~Blocked(c, r)'
    BY <1>5, <1>6, <2>8, <2>9
  <2>12. RestrictsKnown(c)'
    BY <1>5, <2>2, <2>4, <2>10, <2>11 DEF Still, RestrictsKnown
  <2> QED BY <2>2, <2>3, <2>4, <2>5, <2>7, <2>12
          DEF Known, Still, StandsNow, RefusalKnown, ActiveExist
<1> QED BY <1>7, <1>8, <1>9

LEMMA LooksUpRestriction ==
    ASSUME TypeOK, VerdictInv, NEW c \in Checks, CheckLooksUpRestriction(c)
    PROVE  \E next : Moved(c, next) /\ Known(c)'
<1> DEFINE k == check[c]
           q == k.at
<1>1. k.pc = "lookup" /\ k.pc \in Deciding  BY DEF CheckLooksUpRestriction, At, Deciding
<1>2. k \in CheckRow  BY <1>1, RowOf
<1>3. Known(c)  BY DEF VerdictInv
<1>4. /\ \A r \in k.pending : InTheWay(c, r)
      /\ \A r \in Rules \ (k.pending \cup {q}) : ~Blocked(c, r)
      /\ q \in Rules /\ InTheWay(c, q) /\ ~Unconditional(q) /\ ~Stood(c, q, "expired")
      /\ rule[q].device = k.device /\ rule[q].device # Null
  BY <1>1, <1>3 DEF Known, RestrictsKnown
<1>5. k.pending \subseteq Rules /\ k.user \in Users  BY <1>2 DEF CheckRow
<1> HIDE DEF q
<1>6. CASE rule[q].device \in approved
  <2> DEFINE next == [k EXCEPT !.pc = "rules", !.at = Null]
  <2>1. Answer(c, next)  BY <1>6 DEF CheckLooksUpRestriction, q
  <2>2. /\ next \in CheckRow /\ next.user = k.user /\ next.pc = "rules" /\ next.auth = k.auth
        /\ next.device = k.device /\ next.pending = k.pending
    BY <1>2 DEF CheckRow, Deciding
  <2> HIDE DEF next
  <2>3. Moved(c, next)  BY <1>1, <2>1, <2>2 DEF Moved
  <2>4. Still(c, next)  BY <2>3, Steps
  <2>5. CallerKnown(c)'  BY <1>1, <1>3, <2>2, <2>4 DEF Still, StandsNow, CallerKnown, Known
  <2>6. \A r \in Rules : MayHaveGranted(c, r) => MayHaveGranted(c, r)'
    BY <2>2, <2>4 DEF Still, StandsNow, MayHaveGranted
  <2>7. GrantsKnown(c)'
    BY <1>1, <1>3, <2>2, <2>4, <2>6 DEF Still, StandsNow, GrantsKnown, Known
  <2>8. \A r \in Rules : InTheWay(c, r) => InTheWay(c, r)'
    BY <1>5, <2>2, <2>4 DEF Still, StandsNow, InTheWay
  <2>9. \A r \in Rules : Blocked(c, r)' => Blocked(c, r)
    BY <1>5, <2>2, <2>4 DEF Still, StandsNow, Blocked
  <2>10. ASSUME NEW r \in Rules, r = q PROVE ~Blocked(c, r)'
    BY <1>4, <1>6, <2>2, <2>4, <2>10 DEF Still, StandsNow, Blocked
  <2>11. /\ \A r \in k.pending : InTheWay(c, r)'
         /\ \A r \in Rules \ k.pending : ~Blocked(c, r)'
    BY <1>4, <1>5, <2>8, <2>9, <2>10
  <2>12. RestrictsKnown(c)'  BY <2>2, <2>4, <2>11 DEF Still, RestrictsKnown
  <2> QED BY <2>2, <2>3, <2>4, <2>5, <2>7, <2>12
          DEF Known, Still, StandsNow, RefusalKnown, ActiveExist
<1>7. CASE rule[q].device \notin approved
  <2> DEFINE next == [k EXCEPT !.pc = "refused", !.pending = {}, !.at = Null]
  <2>1. Answer(c, next)  BY <1>7 DEF CheckLooksUpRestriction, q
  <2>2. /\ next \in CheckRow /\ next.user = k.user /\ next.pc = "refused" /\ next.auth = k.auth
        /\ next.device = k.device
    BY <1>2 DEF CheckRow
  <2> HIDE DEF next
  <2>3. Moved(c, next)  BY <1>1, <2>1, <2>2 DEF Moved
  <2>4. Still(c, next)  BY <2>3, Steps
  <2>5. CallerKnown(c)'  BY <1>1, <1>3, <2>2, <2>4 DEF Still, StandsNow, CallerKnown, Known
  <2>6. ASSUME NEW r \in Rules, r = q PROVE MayHaveBlocked(c, r)'
    BY <1>4, <1>5, <1>7, <2>2, <2>4, <2>6 DEF Still, StandsNow, MayHaveBlocked, InTheWay
  <2>7. RefusalKnown(c)'  BY <1>4, <2>6 DEF RefusalKnown
  <2> QED BY <2>2, <2>3, <2>4, <2>5, <2>7
          DEF Known, Still, StandsNow, RestrictsKnown, GrantsKnown, ActiveExist
<1> QED BY <1>6, <1>7

LEMMA Passes ==
    ASSUME TypeOK, VerdictInv, NEW c \in Checks, CheckPasses(c)
    PROVE  \E next : Moved(c, next) /\ Known(c)'
<1> DEFINE k    == check[c]
           next == [k EXCEPT !.pc = "allowed", !.pending = {}]
<1>1. k.pc = "rules" /\ k.pc \in Deciding /\ k.pending = {}
  BY DEF CheckPasses, At, Deciding
<1>2. k \in CheckRow  BY <1>1, RowOf
<1>3. Answer(c, next)  BY DEF CheckPasses, Goes
<1>4. /\ next \in CheckRow /\ next.user = k.user /\ next.pc = "allowed" /\ next.auth = k.auth
      /\ next.device = k.device /\ k.user \in Users
  BY <1>2 DEF CheckRow
<1> HIDE DEF next
<1>5. Moved(c, next)  BY <1>1, <1>3, <1>4 DEF Moved
<1>6. Still(c, next)  BY <1>5, Steps
<1>7. Known(c)  BY DEF VerdictInv
<1>8. \A r \in Rules : MayHaveGranted(c, r) => MayHaveGranted(c, r)'
  BY <1>4, <1>6 DEF Still, StandsNow, MayHaveGranted
<1>9. GrantsKnown(c)'
  BY <1>1, <1>4, <1>6, <1>7, <1>8 DEF Still, StandsNow, GrantsKnown, Known
<1>10. \A r \in Rules : Blocked(c, r)' => Blocked(c, r)
  BY <1>4, <1>6 DEF Still, StandsNow, Blocked
<1>11. \A r \in Rules : ~Blocked(c, r)  BY <1>1, <1>7 DEF Known, RestrictsKnown
<1>12. RestrictsKnown(c)'  BY <1>4, <1>6, <1>10, <1>11 DEF Still, RestrictsKnown
<1> QED BY <1>4, <1>5, <1>6, <1>9, <1>12
        DEF Known, Still, StandsNow, CallerKnown, RefusalKnown, ActiveExist

-----------------------------------------------------------------------------
(* Every step keeps the invariant                                          *)

LEMMA CallStep ==
    ASSUME TypeOK, VerdictInv, NEW c \in Checks, NEW next \in CheckRow,
           Answer(c, next), Known(c)'
    PROVE  TypeOK' /\ VerdictInv'
<1>1. check' = [check EXCEPT ![c] = next] /\ UNCHANGED <<case, user, rule, approved>> /\ Watch
  BY DEF Answer
<1>2. TypeOK'  BY <1>1 DEF TypeOK
<1>3. RulesStay  BY <1>1 DEF RulesStay
<1>4. ASSUME NEW d \in Checks, d # c PROVE Known(d)'
  <2>1. check'[d] = check[d] /\ check[d] \in CheckRow \cup {NoCheck}
    BY <1>1, <1>4 DEF TypeOK
  <2>2. stood'[d] \subseteq stood[d]  BY <1>1, <2>1, WatchOthers
  <2>3. Known(d)  BY DEF VerdictInv
  <2> QED BY <1>3, <2>1, <2>2, <2>3, KnownStays
<1>5. VerdictInv'  BY <1>4 DEF VerdictInv
<1> QED BY <1>2, <1>5

LEMMA Arrival ==
    ASSUME TypeOK, VerdictInv, NEW c \in Checks, NEW u \in Users, NEW auth \in BOOLEAN,
           NEW d \in Devices \cup {Null}, CheckArrives(c, u, auth, d)
    PROVE  TypeOK' /\ VerdictInv'
<1> DEFINE next == [pc |-> "context", user |-> u, auth |-> auth, device |-> d,
                    expired |-> {}, pending |-> {}, kept |-> {}, at |-> Null]
<1>1. Answer(c, next) /\ check[c].pc \notin Deciding  BY DEF CheckArrives
<1>2. next \in CheckRow /\ next.pc = "context" /\ next.user = u  BY DEF CheckRow, Deciding
<1> HIDE DEF next
<1>3. check'[c] = next /\ UNCHANGED <<user, rule, approved>> /\ Watch
  BY <1>1 DEF Answer, TypeOK
<1>4. Facts(c)' = FactsOf(u)
  <2>1. \A r \in Rules : RuleFacts(r)' = RuleFacts(r)  BY <1>3 DEF RuleFacts
  <2>2. (UNION {RuleFacts(r) : r \in Rules})' = UNION {RuleFacts(r) : r \in Rules}  BY <2>1
  <2> QED BY <1>2, <1>3, <2>2 DEF Facts, FactsOf
<1>5. stood'[c] = FactsOf(u)  BY <1>1, <1>2, <1>3, <1>4 DEF Watch, Deciding
<1>6. ActiveExist(c)'
  <2>1. Means(u)  BY Meaning
  <2>2. \A r \in Rules : <<r, "active">> \in FactsOf(u) => rule[r].exists
    BY <2>1, Zenon DEF Means
  <2> QED BY <1>3, <1>5, <2>2 DEF ActiveExist, Stood
<1>7. Known(c)'
  BY <1>2, <1>3, <1>6 DEF Known, CallerKnown, GrantsKnown, RestrictsKnown, RefusalKnown
<1> QED BY <1>1, <1>2, <1>7, CallStep

LEMMA ChangeStep ==
    ASSUME TypeOK, VerdictInv, Change, RulesStay,
           user' \in [Users -> [owner : BOOLEAN, scoped : BOOLEAN]],
           rule' \in [Rules -> RuleRow \cup {NoRule}], approved' \subseteq Devices
    PROVE  TypeOK' /\ VerdictInv'
<1>1. check' = check /\ case' = case /\ Watch  BY DEF Change
<1>2. TypeOK'  BY <1>1 DEF TypeOK
<1>3. ASSUME NEW d \in Checks PROVE Known(d)'
  <2>1. check'[d] = check[d] /\ check[d] \in CheckRow \cup {NoCheck}
    BY <1>1 DEF TypeOK
  <2>2. stood'[d] \subseteq stood[d]  BY <1>1, <2>1, WatchOthers
  <2>3. Known(d)  BY DEF VerdictInv
  <2> QED BY <2>1, <2>2, <2>3, KnownStays
<1> QED BY <1>2, <1>3 DEF VerdictInv

\* The rule of a step that writes one rule.
LEMMA OneRule ==
    ASSUME TypeOK, NEW r \in Rules, NEW row \in RuleRow, rule' = [rule EXCEPT ![r] = row],
           case' = case,
           rule[r].exists => /\ row.type = rule[r].type /\ row.scope = rule[r].scope
                             /\ row.users = rule[r].users /\ row.device = rule[r].device
                             /\ (row.window = "none") <=> (rule[r].window = "none")
    PROVE  RulesStay /\ rule' \in [Rules -> RuleRow \cup {NoRule}]
<1>1. row.exists  BY DEF RuleRow
<1>2. rule'[r] = row /\ \A q \in Rules : q # r => rule'[q] = rule[q]  BY DEF TypeOK
<1>3. RulesStay  BY <1>1, <1>2 DEF RulesStay
<1> QED BY <1>3 DEF TypeOK

LEMMA Creates ==
    ASSUME TypeOK, VerdictInv, NEW r \in Rules, NEW body \in case.offers, CreateRule(r, body)
    PROVE  TypeOK' /\ VerdictInv'
<1>1. /\ rule' = [rule EXCEPT ![r] = body] /\ ~rule[r].exists
      /\ UNCHANGED <<user, approved>> /\ Change
  BY DEF CreateRule
<1>2. body \in RuleRow
  <2>1. case \in Cases  BY DEF TypeOK
  <2>2. body \in Offered  BY <2>1 DEF Offered
  <2>3. /\ body \in [exists : {TRUE}, active : {TRUE}, type : {"grant", "restrict"},
                     scope : {b.scope : b \in case.offers}, users : SUBSET Users,
                     device : Devices \cup {Null}, window : {"none", "open", "past"}]
        /\ body.scope \in {b.scope : b \in Offered}
    BY <2>1, <2>2, OffersAssumption
  <2> QED BY <2>3 DEF RuleRow
<1>3. case' = case  BY <1>1 DEF Change
<1>4. RulesStay /\ rule' \in [Rules -> RuleRow \cup {NoRule}]
  BY <1>1, <1>2, <1>3, OneRule
<1> QED BY <1>1, <1>4, ChangeStep DEF TypeOK

LEMMA RuleOf ==
    ASSUME TypeOK, NEW r \in Rules, rule[r].exists
    PROVE  rule[r] \in RuleRow
BY DEF TypeOK, NoRule

LEMMA Revokes ==
    ASSUME TypeOK, VerdictInv, NEW r \in Rules, RevokeRule(r)
    PROVE  TypeOK' /\ VerdictInv'
<1> DEFINE row == [rule[r] EXCEPT !.active = FALSE]
<1>1. /\ rule' = [rule EXCEPT ![r] = row] /\ rule[r].exists
      /\ UNCHANGED <<user, approved>> /\ Change
  BY DEF RevokeRule
<1>2. rule[r] \in RuleRow  BY <1>1, RuleOf
<1>3. /\ row \in RuleRow /\ row.type = rule[r].type /\ row.scope = rule[r].scope
      /\ row.users = rule[r].users /\ row.device = rule[r].device
      /\ row.window = rule[r].window
  BY <1>2 DEF RuleRow
<1> HIDE DEF row
<1>4. case' = case  BY <1>1 DEF Change
<1>5. RulesStay /\ rule' \in [Rules -> RuleRow \cup {NoRule}]
  BY <1>1, <1>3, <1>4, OneRule
<1> QED BY <1>1, <1>5, ChangeStep DEF TypeOK

LEMMA Expires ==
    ASSUME TypeOK, VerdictInv, NEW r \in Rules, RuleExpires(r)
    PROVE  TypeOK' /\ VerdictInv'
<1> DEFINE row == [rule[r] EXCEPT !.window = "past"]
<1>1. /\ rule' = [rule EXCEPT ![r] = row] /\ rule[r].exists /\ rule[r].window = "open"
      /\ UNCHANGED <<user, approved>> /\ Change
  BY DEF RuleExpires
<1>2. rule[r] \in RuleRow  BY <1>1, RuleOf
<1>3. /\ row \in RuleRow /\ row.type = rule[r].type /\ row.scope = rule[r].scope
      /\ row.users = rule[r].users /\ row.device = rule[r].device
      /\ row.window # "none" /\ rule[r].window # "none"
  BY <1>1, <1>2 DEF RuleRow
<1> HIDE DEF row
<1>4. case' = case  BY <1>1 DEF Change
<1>5. RulesStay /\ rule' \in [Rules -> RuleRow \cup {NoRule}]
  BY <1>1, <1>3, <1>4, OneRule
<1> QED BY <1>1, <1>5, ChangeStep DEF TypeOK

LEMMA Init0 == Init => TypeOK /\ VerdictInv
<1> SUFFICES ASSUME Init PROVE TypeOK /\ VerdictInv  OBVIOUS
<1>1. TypeOK  BY DEF Init, TypeOK
<1>2. ASSUME NEW c \in Checks PROVE Known(c)
  <2>1. check[c].pc = "idle" /\ stood[c] = {}  BY DEF Init, NoCheck
  <2> QED BY <2>1 DEF Known, ActiveExist, CallerKnown, GrantsKnown, RestrictsKnown,
                      RefusalKnown, Stood
<1> QED BY <1>1, <1>2 DEF VerdictInv

LEMMA Step == TypeOK /\ VerdictInv /\ [Next]_vars => TypeOK' /\ VerdictInv'
<1> SUFFICES ASSUME TypeOK, VerdictInv, [Next]_vars PROVE TypeOK' /\ VerdictInv'  OBVIOUS
<1>1. ASSUME NEW c \in Checks,
             \/ CheckLoadsUser(c)
             \/ CheckReadsGrants(c) \/ CheckLooksUpDevice(c) \/ CheckAppliesGrants(c)
             \/ CheckReadsRestricts(c) \/ CheckJudgesRule(c) \/ CheckLooksUpRestriction(c)
             \/ CheckPasses(c)
      PROVE  TypeOK' /\ VerdictInv'
  <2>1. \E next : Moved(c, next) /\ Known(c)'
    BY <1>1, LoadsUser, ReadsGrants, LooksUpDevice, AppliesGrants, ReadsRestricts, JudgesRule,
       LooksUpRestriction, Passes
  <2>2. PICK next : Moved(c, next) /\ Known(c)'  BY <2>1
  <2>3. next \in CheckRow /\ Answer(c, next)  BY <2>2 DEF Moved
  <2> QED BY <2>2, <2>3, CallStep
<1>2. ASSUME NEW u \in Users, SetScopedView(u) \/ ChangeOwner(u)
      PROVE  TypeOK' /\ VerdictInv'
  <2>1. Change /\ UNCHANGED <<rule, approved>>  BY <1>2 DEF SetScopedView, ChangeOwner
  <2>2. user' \in [Users -> [owner : BOOLEAN, scoped : BOOLEAN]]
    BY <1>2 DEF SetScopedView, ChangeOwner, TypeOK
  <2>3. RulesStay  BY <2>1 DEF Change, RulesStay
  <2> QED BY <2>1, <2>2, <2>3, ChangeStep DEF TypeOK
<1>3. ASSUME NEW d \in Devices, DeviceChanges(d) PROVE TypeOK' /\ VerdictInv'
  <2>1. Change /\ UNCHANGED <<user, rule>>  BY <1>3 DEF DeviceChanges
  <2>2. approved' \subseteq Devices  BY <1>3 DEF DeviceChanges, TypeOK
  <2>3. RulesStay  BY <2>1 DEF Change, RulesStay
  <2> QED BY <2>1, <2>2, <2>3, ChangeStep DEF TypeOK
<1>4. CASE UNCHANGED vars
  <2>1. TypeOK'  BY <1>4 DEF vars, TypeOK
  <2>2. RulesStay  BY <1>4 DEF vars, RulesStay
  <2>3. ASSUME NEW c \in Checks PROVE Known(c)'
    <3>1. check'[c] = check[c] /\ stood'[c] \subseteq stood[c]
          /\ check[c] \in CheckRow \cup {NoCheck} /\ Known(c)
      BY <1>4 DEF vars, TypeOK, VerdictInv
    <3> QED BY <2>2, <3>1, KnownStays
  <2> QED BY <2>1, <2>3 DEF VerdictInv
<1> QED BY <1>1, <1>2, <1>3, <1>4, Arrival, Creates, Revokes, Expires DEF Next

-----------------------------------------------------------------------------
(* Theorems                                                                *)

LEMMA Always == Spec => [](TypeOK /\ VerdictInv)
BY Init0, Step, PTL DEF Spec

\* The state keeps its types.
THEOREM Typed == Spec => []TypeOK
BY Always, PTL

\* AccessService.assertCanView: no call passes against a restriction that stood in its way
\* from its arrival to its verdict, nor past a scoped view without a grant that may have
\* counted, whatever administrators change while the call is under way.
THEOREM AllowedForAReason == Spec => []AllowedOnlyForAReason
<1>1. VerdictInv => AllowedOnlyForAReason
  BY DEF VerdictInv, Known, GrantsKnown, RestrictsKnown, AllowedOnlyForAReason, At
<1> QED BY <1>1, Always, PTL

\* AccessService.assertCanView: no call is refused whose caller was entitled all the time it
\* was under way, as the owner, without a scoped view or by a grant, unless a restriction was
\* in his way at some time.
THEOREM RefusedForAReason == Spec => []RefusedOnlyForAReason
<1>1. VerdictInv => RefusedOnlyForAReason
  BY DEF VerdictInv, Known, CallerKnown, RefusalKnown, RefusedOnlyForAReason, At
<1> QED BY <1>1, Always, PTL

-----------------------------------------------------------------------------
(* Induction, from the well-foundedness of the order on Nat                *)

LEMMA LeastElement ==
    ASSUME NEW T, T \subseteq Nat, T # {}
    PROVE  \E x \in T : \A y \in T : x <= y
<1> DEFINE R == OpToRel(<, Nat)
<1>1. IsWellFoundedOn(R, Nat)  BY NatLessThanWellFounded
<1>2. \A x, y \in Nat : x < y => <<x, y>> \in R  BY DEF OpToRel
<1> HIDE DEF R
<1>3. PICK x \in T : \A y \in T : <<y, x>> \notin R  BY <1>1, WFMin
<1>4. ASSUME NEW y \in T PROVE x <= y
  <2>1. ~(y < x)  BY <1>2, <1>3
  <2>2. x \in Int /\ y \in Int  OBVIOUS
  <2> QED BY <2>1, <2>2
<1> QED BY <1>4

LEMMA Induction ==
    ASSUME NEW G, 0 \in G, \A n \in Nat : n \in G => n + 1 \in G
    PROVE  Nat \subseteq G
<1> SUFFICES ASSUME Nat \ G # {} PROVE FALSE  OBVIOUS
<1>1. PICK x \in Nat \ G : \A y \in Nat \ G : x <= y  BY LeastElement
<1>2. x - 1 \in Nat /\ x - 1 \in G  BY <1>1
<1> QED BY <1>2

\* A function on a set can be iterated.
LEMMA Iterates ==
    ASSUME NEW X, NEW F \in [X -> X], NEW a \in X, NEW N \in Nat
    PROVE  \E g \in [0..N -> X] : g[0] = a /\ \A n \in 0..(N - 1) : g[n + 1] = F[g[n]]
<1> DEFINE Good(g, k) == /\ g \in [0..k -> X] /\ g[0] = a
                         /\ \A n \in 0..(k - 1) : g[n + 1] = F[g[n]]
           G == {k \in Nat : \E g : Good(g, k)}
<1>1. 0 \in G
  <2>1. Good([n \in 0..0 |-> a], 0)  OBVIOUS
  <2> QED BY <2>1
<1>2. ASSUME NEW k \in Nat, k \in G PROVE k + 1 \in G
  <2>1. PICK g : Good(g, k)  BY <1>2
  <2> DEFINE h == [n \in 0..(k + 1) |-> IF n = k + 1 THEN F[g[k]] ELSE g[n]]
  <2>2. F[g[k]] \in X  BY <2>1
  <2>3. \A n \in 0..(k + 1) : n # k + 1 => n \in 0..k  OBVIOUS
  <2>4. h \in [0..(k + 1) -> X]  BY <2>1, <2>2, <2>3
  <2>5. h[0] = a  BY <2>1
  <2>6. ASSUME NEW n \in 0..k PROVE h[n + 1] = F[h[n]]
    <3>1. h[n] = g[n]  OBVIOUS
    <3>2. CASE n = k  BY <3>1, <3>2
    <3>3. CASE n # k
      <4>1. n \in 0..(k - 1) /\ n + 1 # k + 1 /\ n + 1 \in 0..(k + 1)  BY <3>3
      <4> QED BY <2>1, <3>1, <4>1
    <3> QED BY <3>2, <3>3
  <2>7. (k + 1) - 1 = k  OBVIOUS
  <2> HIDE DEF h
  <2>8. Good(h, k + 1)  BY <2>4, <2>5, <2>6, <2>7
  <2> QED BY <2>8
<1> HIDE DEF G
<1>3. N \in G  BY <1>1, <1>2, Induction
<1> QED BY <1>3 DEF G

Iterable(X) == \A F \in [X -> X] : \A a \in X : \A N \in Nat :
                  \E g \in [0..N -> X] : g[0] = a /\ \A n \in 0..(N - 1) : g[n + 1] = F[g[n]]

LEMMA AllIterable == \A X : Iterable(X)
BY Iterates DEF Iterable

\* What satisfies the equation of a recursion step by step is the iteration.
LEMMA SameRun ==
    ASSUME NEW N \in Nat, NEW u, NEW g, u[0] = g[0],
           \A n \in 0..(N - 1) : u[n] = g[n] => u[n + 1] = g[n + 1]
    PROVE  u[N] = g[N]
<1> DEFINE G == {n \in Nat : n <= N => u[n] = g[n]}
<1>1. 0 \in G  OBVIOUS
<1>2. ASSUME NEW n \in Nat, n \in G PROVE n + 1 \in G
  <2> SUFFICES ASSUME n + 1 <= N PROVE u[n + 1] = g[n + 1]  OBVIOUS
  <2>1. n \in 0..(N - 1) /\ n <= N  OBVIOUS
  <2> QED BY <1>2, <2>1
<1> HIDE DEF G
<1>3. N \in G  BY <1>1, <1>2, Induction
<1> QED BY <1>3 DEF G

-----------------------------------------------------------------------------
(* Trees                                                                   *)

Above(parent, S) == S \cup ({parent[x] : x \in S} \ {Null})
Below(parent, S) == S \cup {x \in DOMAIN parent : parent[x] \in S}

\* Chain goes up step by step.
LEMMA ChainClimbs ==
    ASSUME NEW parent, IsTree(parent), NEW S \in SUBSET DOMAIN parent
    PROVE  \E g \in [0..Cardinality(DOMAIN parent) -> SUBSET DOMAIN parent] :
              /\ g[0] = S
              /\ \A n \in 0..(Cardinality(DOMAIN parent) - 1) : g[n + 1] = Above(parent, g[n])
              /\ Chain(parent, S) = g[Cardinality(DOMAIN parent)]
<1> DEFINE D     == DOMAIN parent
           N     == Cardinality(D)
           X     == SUBSET D
           F     == [T \in X |-> Above(parent, T)]
           Eq(u) == u = [n \in 0..N |-> IF n = 0 THEN S
                                        ELSE u[n - 1] \cup ({parent[x] : x \in u[n - 1]} \ {Null})]
           up    == CHOOSE u : Eq(u)
<1>1. Chain(parent, S) = up[N]  BY DEF Chain
<1>2. N \in Nat  BY FS_CardinalityType DEF IsTree
<1>3. F \in [X -> X] /\ S \in X /\ \A T \in X : F[T] = Above(parent, T)
  BY DEF IsTree, Above
<1> HIDE DEF F, N, X
<1>4. PICK g \in [0..N -> X] : g[0] = S /\ \A n \in 0..(N - 1) : g[n + 1] = F[g[n]]
  <2>1. Iterable(X)  BY AllIterable
  <2>2. \A b \in X : \A M \in Nat :
          \E g \in [0..M -> X] : g[0] = b /\ \A n \in 0..(M - 1) : g[n + 1] = F[g[n]]
    BY <1>3, <2>1 DEF Iterable
  <2> QED BY <1>2, <1>3, <2>2
<1>5. \A n \in 0..(N - 1) : g[n + 1] = Above(parent, g[n])
  <2>1. \A n \in 0..(N - 1) : n \in 0..N  BY <1>2
  <2> QED BY <1>3, <1>4, <2>1
<1>6. Eq(g)
  <2>1. ASSUME NEW n \in 0..N, n # 0 PROVE g[n] = Above(parent, g[n - 1])
    <3>1. n - 1 \in 0..(N - 1) /\ (n - 1) + 1 = n  BY <1>2, <2>1
    <3>2. g[(n - 1) + 1] = Above(parent, g[n - 1])  BY <1>5, <3>1
    <3> QED BY <3>1, <3>2
  <2> QED BY <1>2, <1>4, <2>1 DEF Above
<1>7. Eq(up)  BY <1>6
<1> HIDE DEF up
<1>8. up[0] = S  BY <1>2, <1>7
<1>9. ASSUME NEW n \in 0..(N - 1) PROVE up[n + 1] = Above(parent, up[n])
  <2>1. n + 1 \in 0..N /\ n + 1 # 0 /\ (n + 1) - 1 = n  BY <1>2
  <2> QED BY <1>7, <2>1 DEF Above
<1>10. \A n \in 0..(N - 1) : up[n] = g[n] => up[n + 1] = g[n + 1]  BY <1>5, <1>9
<1>11. up[0] = g[0]  BY <1>4, <1>8
<1>12. up[N] = g[N]  BY <1>2, <1>10, <1>11, SameRun
<1> QED BY <1>1, <1>4, <1>5, <1>12 DEF N, X

\* ExpandDown goes down step by step.
LEMMA ExpandDescends ==
    ASSUME NEW parent, IsTree(parent), NEW T
    PROVE  \E g \in [0..Cardinality(DOMAIN parent) -> SUBSET (T \cup DOMAIN parent)] :
              /\ g[0] = T
              /\ \A n \in 0..(Cardinality(DOMAIN parent) - 1) : g[n + 1] = Below(parent, g[n])
              /\ ExpandDown(parent, T) = g[Cardinality(DOMAIN parent)]
<1> DEFINE D     == DOMAIN parent
           N     == Cardinality(D)
           X     == SUBSET (T \cup D)
           F     == [S \in X |-> Below(parent, S)]
           Eq(u) == u = [n \in 0..N |-> IF n = 0 THEN T
                                        ELSE u[n - 1] \cup {x \in D : parent[x] \in u[n - 1]}]
           down  == CHOOSE u : Eq(u)
<1>1. ExpandDown(parent, T) = down[N]  BY DEF ExpandDown
<1>2. N \in Nat  BY FS_CardinalityType DEF IsTree
<1>3. F \in [X -> X] /\ T \in X /\ \A S \in X : F[S] = Below(parent, S)  BY DEF Below
<1> HIDE DEF F, N, X
<1>4. PICK g \in [0..N -> X] : g[0] = T /\ \A n \in 0..(N - 1) : g[n + 1] = F[g[n]]
  <2>1. Iterable(X)  BY AllIterable
  <2>2. \A b \in X : \A M \in Nat :
          \E g \in [0..M -> X] : g[0] = b /\ \A n \in 0..(M - 1) : g[n + 1] = F[g[n]]
    BY <1>3, <2>1 DEF Iterable
  <2> QED BY <1>2, <1>3, <2>2
<1>5. \A n \in 0..(N - 1) : g[n + 1] = Below(parent, g[n])
  <2>1. \A n \in 0..(N - 1) : n \in 0..N  BY <1>2
  <2> QED BY <1>3, <1>4, <2>1
<1>6. Eq(g)
  <2>1. ASSUME NEW n \in 0..N, n # 0 PROVE g[n] = Below(parent, g[n - 1])
    <3>1. n - 1 \in 0..(N - 1) /\ (n - 1) + 1 = n  BY <1>2, <2>1
    <3>2. g[(n - 1) + 1] = Below(parent, g[n - 1])  BY <1>5, <3>1
    <3> QED BY <3>1, <3>2
  <2> QED BY <1>2, <1>4, <2>1 DEF Below
<1>7. Eq(down)  BY <1>6
<1> HIDE DEF down
<1>8. down[0] = T  BY <1>2, <1>7
<1>9. ASSUME NEW n \in 0..(N - 1) PROVE down[n + 1] = Below(parent, down[n])
  <2>1. n + 1 \in 0..N /\ n + 1 # 0 /\ (n + 1) - 1 = n  BY <1>2
  <2> QED BY <1>7, <2>1 DEF Below
<1>10. \A n \in 0..(N - 1) : down[n] = g[n] => down[n + 1] = g[n + 1]  BY <1>5, <1>9
<1>11. down[0] = g[0]  BY <1>4, <1>8
<1>12. down[N] = g[N]  BY <1>2, <1>10, <1>11, SameRun
<1> QED BY <1>1, <1>4, <1>5, <1>12 DEF N, X

\* One step up meets what one step down comes from.
LEMMA UpMeetsDown ==
    ASSUME NEW parent, IsTree(parent), NEW S \in SUBSET DOMAIN parent, NEW T, Null \notin T
    PROVE  Above(parent, S) \cap T # {} <=> S \cap Below(parent, T) # {}
BY DEF IsTree, Above, Below

\* Climbing from the rows S meets T exactly if S meets what is expanded down from T.
LEMMA ClimbMeetsExpansion ==
    ASSUME NEW parent, IsTree(parent), NEW S \in SUBSET DOMAIN parent, NEW T, Null \notin T
    PROVE  /\ Chain(parent, S) \cap T # {} <=> S \cap ExpandDown(parent, T) # {}
           /\ Null \notin ExpandDown(parent, T)
<1> DEFINE D == DOMAIN parent
           N == Cardinality(D)
<1>1. N \in Nat  BY FS_CardinalityType DEF IsTree
<1>2. PICK up \in [0..N -> SUBSET D] :
         /\ up[0] = S
         /\ \A n \in 0..(N - 1) : up[n + 1] = Above(parent, up[n])
         /\ Chain(parent, S) = up[N]
  BY ChainClimbs
<1>3. PICK down \in [0..N -> SUBSET (T \cup D)] :
         /\ down[0] = T
         /\ \A n \in 0..(N - 1) : down[n + 1] = Below(parent, down[n])
         /\ ExpandDown(parent, T) = down[N]
  BY ExpandDescends
<1>4. \A n \in 0..N : Null \notin down[n]  BY <1>3 DEF IsTree
<1> HIDE DEF N
<1> DEFINE G == {n \in Nat : n <= N => (up[N - n] \cap down[n] # {} <=> up[N] \cap T # {})}
<1>5. 0 \in G  BY <1>1, <1>3
<1>6. ASSUME NEW n \in Nat, n \in G PROVE n + 1 \in G
  <2> SUFFICES ASSUME n + 1 <= N
               PROVE  up[N - (n + 1)] \cap down[n + 1] # {} <=> up[N] \cap T # {}
    OBVIOUS
  <2> DEFINE m == N - (n + 1)
  <2>1. /\ m \in 0..(N - 1) /\ m \in 0..N /\ m + 1 = N - n
        /\ n \in 0..(N - 1) /\ n \in 0..N /\ n <= N
    BY <1>1
  <2> HIDE DEF m
  <2>2. up[N - n] \cap down[n] # {} <=> up[N] \cap T # {}  BY <1>6, <2>1
  <2>3. up[N - n] = Above(parent, up[m])  BY <1>2, <2>1
  <2>4. down[n + 1] = Below(parent, down[n])  BY <1>3, <2>1
  <2>5. up[m] \in SUBSET D /\ Null \notin down[n]  BY <1>2, <1>4, <2>1
  <2>6. Above(parent, up[m]) \cap down[n] # {} <=> up[m] \cap Below(parent, down[n]) # {}
    BY <2>5, UpMeetsDown
  <2> QED BY <2>2, <2>3, <2>4, <2>6 DEF m
<1> HIDE DEF G
<1>7. N \in G  BY <1>1, <1>5, <1>6, Induction
<1>8. up[0] \cap down[N] # {} <=> up[N] \cap T # {}
  <2>1. N - N = 0 /\ N <= N  BY <1>1
  <2> QED BY <1>1, <1>7, <2>1 DEF G
<1>9. Null \notin down[N]  BY <1>1, <1>4
<1> QED BY <1>2, <1>3, <1>8, <1>9 DEF N

-----------------------------------------------------------------------------
(* The two readings of a scope                                             *)

LEMMA ScopesAgree ==
    ASSUME NEW k \in Cases, NEW s, s.files = {}, Null \notin s.folders, Null \notin s.tags
    PROVE  Matches(s, FileContext(k.archive)) <=> IsEmpty(s) \/ Selects(s, k.archive)
<1> DEFINE a == k.archive
           x == a.file
           c == FileContext(a)
           H == {x.folder} \ {Null}
<1>1. /\ IsTree(a.folderParent) /\ IsTree(a.tagParent)
      /\ x.folder \in DOMAIN a.folderParent \cup {Null}
      /\ x.tags \subseteq DOMAIN a.tagParent
  BY ArchivesAssumption
<1>2. /\ c.id = x.id /\ c.folder = x.folder /\ c.directTags = x.tags /\ c.type = x.type
      /\ c.folderChain = Chain(a.folderParent, H) /\ c.tagChain = Chain(a.tagParent, x.tags)
      /\ c.sensitivities = {a.sensitivity[t] : t \in x.tags}
  BY DEF FileContext
<1>3. /\ c.folderChain \cap s.folders # {} <=> H \cap ExpandDown(a.folderParent, s.folders) # {}
      /\ Null \notin ExpandDown(a.folderParent, s.folders)
  <2>1. H \in SUBSET DOMAIN a.folderParent  BY <1>1
  <2> QED BY <1>1, <1>2, <2>1, ClimbMeetsExpansion
<1>4. c.tagChain \cap s.tags # {} <=> x.tags \cap ExpandDown(a.tagParent, s.tags) # {}
  BY <1>1, <1>2, ClimbMeetsExpansion
<1> HIDE DEF a, c
<1>5. s.folders \cap (IF s.subfolders THEN c.folderChain ELSE {c.folder}) # {}
      <=> x.folder \in (IF s.subfolders THEN ExpandDown(a.folderParent, s.folders) ELSE s.folders)
  <2>1. CASE s.subfolders  BY <1>3, <2>1
  <2>2. CASE ~s.subfolders  BY <1>2, <2>2
  <2> QED BY <2>1, <2>2
<1>6. s.tags \cap (IF s.subtags THEN c.tagChain ELSE c.directTags) # {}
      <=> x.tags \cap (IF s.subtags THEN ExpandDown(a.tagParent, s.tags) ELSE s.tags) # {}
  <2>1. CASE s.subtags  BY <1>4, <2>1
  <2>2. CASE ~s.subtags  BY <1>2, <2>2
  <2> QED BY <2>1, <2>2
<1>7. s.sensitivities \cap c.sensitivities # {}
      <=> \E t \in x.tags : a.sensitivity[t] \in s.sensitivities
  BY <1>2
<1>8. c.id \notin s.files  OBVIOUS
<1>9. Matches(s, c) <=> IsEmpty(s) \/ Selects(s, a)
  BY <1>2, <1>5, <1>6, <1>7, <1>8 DEF Matches, Selects
<1> QED BY <1>9 DEF a, c

\* A rule is one that was offered.
RulesOffered == \A r \in Rules : rule[r].exists =>
                    \E body \in case.offers : rule[r].type = body.type /\ rule[r].scope = body.scope

LEMMA Offers == TypeOK /\ RulesOffered /\ [Next]_vars => RulesOffered'
<1> SUFFICES ASSUME TypeOK, RulesOffered, [Next]_vars PROVE RulesOffered'  OBVIOUS
<1>1. ASSUME case' = case,
             \A r \in Rules : rule'[r].exists =>
                 /\ rule[r].exists
                 /\ rule'[r].type = rule[r].type /\ rule'[r].scope = rule[r].scope
      PROVE  RulesOffered'
  BY <1>1 DEF RulesOffered
<1>2. ASSUME NEW q \in Rules, NEW body \in case.offers, CreateRule(q, body)
      PROVE  RulesOffered'
  BY <1>2 DEF CreateRule, Change, RulesOffered, TypeOK
<1>3. ASSUME NEW q \in Rules, RevokeRule(q) \/ RuleExpires(q) PROVE RulesOffered'
  <2>1. rule[q].exists /\ case' = case
        /\ \/ rule' = [rule EXCEPT ![q].active = FALSE]
           \/ rule' = [rule EXCEPT ![q].window = "past"]
    BY <1>3 DEF RevokeRule, RuleExpires, Change
  <2>2. rule[q] \in RuleRow  BY <2>1, RuleOf
  <2>3. rule'[q].type = rule[q].type /\ rule'[q].scope = rule[q].scope
        /\ \A r \in Rules : r # q => rule'[r] = rule[r]
    BY <2>1, <2>2 DEF TypeOK, RuleRow
  <2> QED BY <1>1, <2>1, <2>3
<1>4. CASE case' = case /\ rule' = rule  BY <1>1, <1>4
<1>5. ASSUME NEW c \in Checks, NEW u \in Users, NEW auth \in BOOLEAN,
             NEW d \in Devices \cup {Null}, CheckArrives(c, u, auth, d)
      PROVE  RulesOffered'
  BY <1>4, <1>5 DEF CheckArrives, Answer
<1>6. ASSUME NEW c \in Checks,
             \/ CheckLoadsUser(c)
             \/ CheckReadsGrants(c) \/ CheckLooksUpDevice(c) \/ CheckAppliesGrants(c)
             \/ CheckReadsRestricts(c) \/ CheckJudgesRule(c) \/ CheckLooksUpRestriction(c)
             \/ CheckPasses(c)
      PROVE  RulesOffered'
  <2>1. case' = case /\ rule' = rule
    BY <1>6 DEF CheckLoadsUser, CheckReadsGrants, CheckLooksUpDevice, CheckAppliesGrants,
                CheckReadsRestricts, CheckJudgesRule, CheckLooksUpRestriction, CheckPasses,
                Goes, Answer
  <2> QED BY <1>4, <2>1
<1>7. CASE \/ \E u \in Users : SetScopedView(u) \/ ChangeOwner(u)
           \/ \E d \in Devices : DeviceChanges(d)
  BY <1>4, <1>7 DEF SetScopedView, ChangeOwner, DeviceChanges, Change
<1>8. CASE UNCHANGED vars  BY <1>4, <1>8 DEF vars
<1> QED BY <1>2, <1>3, <1>5, <1>6, <1>7, <1>8 DEF Next

\* No grant names a file by its id.
NoFileGrants == \A k \in Cases : \A body \in k.offers : body.type = "grant" => body.scope.files = {}

\* AccessService.visibilityWhere and matches: the lists show a file to a user exactly when a
\* grant of his would let him view it, whatever the trees, a cycle among them too.  Of grants
\* that name files by their ids it is not true.
THEOREM ListAgrees ==
    ASSUME NoFileGrants
    PROVE  Spec => []ListAgreesWithCheck
<1>1. Init => RulesOffered  BY DEF Init, RulesOffered, NoRule
<1>2. TypeOK /\ RulesOffered => ListAgreesWithCheck
  <2> SUFFICES ASSUME TypeOK, RulesOffered, NEW u \in Users
               PROVE  SelectedByAny({rule[r].scope : r \in GrantRows(u) \ Past}, case.archive)
                      <=> \E r \in GrantRows(u) \ Past : Covers(r)
    BY DEF ListAgreesWithCheck, Listed
  <2>1. ASSUME NEW r \in GrantRows(u) \ Past
        PROVE  Covers(r) <=> IsEmpty(rule[r].scope) \/ Selects(rule[r].scope, case.archive)
    <3>1. r \in Rules /\ rule[r].exists /\ rule[r].type = "grant"  BY DEF GrantRows, Active
    <3>2. PICK body \in case.offers : rule[r].type = body.type /\ rule[r].scope = body.scope
      BY <3>1 DEF RulesOffered
    <3>3. case \in Cases  BY DEF TypeOK
    <3>4. body.scope.files = {}  BY <3>1, <3>2, <3>3, NoFileGrants DEF NoFileGrants
    <3>5. Null \notin body.scope.folders /\ Null \notin body.scope.tags
      BY <3>3, ArchivesAssumption
    <3>6. Matches(body.scope, FileContext(case.archive))
          <=> IsEmpty(body.scope) \/ Selects(body.scope, case.archive)
      BY <3>3, <3>4, <3>5, ScopesAgree
    <3> QED BY <3>2, <3>6 DEF Covers, Context
  <2> QED BY <2>1 DEF SelectedByAny
<1> QED BY <1>1, <1>2, Offers, Init0, Step, PTL DEF Spec
================================================================================
