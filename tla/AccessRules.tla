----------------------------- MODULE AccessRules -----------------------------
(***************************************************************************)
(* AccessService: rules that grant a scope to users whose view is scoped,  *)
(* and rules that restrict a scope to a device or a time.  assertCanView   *)
(* is asked before a file is viewed, at every rendition and before it is   *)
(* edited; visibilityWhere filters the lists.                              *)
(*                                                                         *)
(* Every await of assertCanView is a step, and rules, devices and users    *)
(* may change between two of them.  The archive (folders, tags, the file)  *)
(* is chosen at the start and stays: fileContext is read in one step.      *)
(***************************************************************************)
EXTENDS Scope

CONSTANTS Users,
          Devices,    \* ids of reader devices
          Rules,      \* AccessRule rows
          Checks,     \* calls of assertCanView
          Cases       \* bound: archives and the rules administrators create in them, records
                      \* of the fields archive, scoped (users), offers (a set of new rows) and
                      \* changes (how many changes of rules, devices and users are made)

ASSUME AccessAssumption == /\ Null \notin Users \cup Devices \cup Rules
                           /\ \A k \in Cases : k.changes \in Nat

\* New rows are active, and name users and devices there are.
ASSUME OffersAssumption ==
    \A k \in Cases :
        k.offers \subseteq [exists : {TRUE}, active : {TRUE}, type : {"grant", "restrict"},
                          scope : {body.scope : body \in k.offers}, users : SUBSET Users,
                          device : Devices \cup {Null}, window : {"none", "open", "past"}]

\* The rows of an archive refer to rows there are, as foreign keys do; a scope names no Null.
IsTree(parent) == /\ IsFiniteSet(DOMAIN parent) /\ Null \notin DOMAIN parent
                  /\ parent \in [DOMAIN parent -> DOMAIN parent \cup {Null}]

ASSUME ArchivesAssumption ==
    \A k \in Cases :
        /\ IsTree(k.archive.folderParent) /\ IsTree(k.archive.tagParent)
        /\ k.archive.file.folder \in DOMAIN k.archive.folderParent \cup {Null}
        /\ k.archive.file.tags \subseteq DOMAIN k.archive.tagParent
        /\ \A body \in k.offers : Null \notin body.scope.folders \cup body.scope.tags

VARIABLES
    case,     \* the archive and the bounds; never changes
    user,     \* of every user: has the owner's role, has a scoped view
    rule,     \* the AccessRule rows; window: "none" without expiresAt, else "open" or "past"
    approved, \* the device ids that are approved and not revoked
    check,    \* the calls; auth: the caller passes the device he comes from, or no auth at all
    changes,  \* changes so far
    stood     \* history: of every call the facts that have stood ever since it arrived

vars == <<case, user, rule, approved, check, changes, stood>>

NoRule  == [exists |-> FALSE]
NoCheck == [pc |-> "idle"]

\* A call that is not under way has its verdict, or there was none.
Deciding == {"context", "grants", "devices", "restricts", "rules", "lookup"}

-----------------------------------------------------------------------------
(* The rules                                                               *)

Active(type) == {r \in Rules : rule[r].exists /\ rule[r].active /\ rule[r].type = type}

GrantRows(u) == {r \in Active("grant") : u \in rule[r].users}

Past == {r \in Rules : rule[r].exists /\ rule[r].window = "past"}

Context == FileContext(case.archive)

Covers(r) == Matches(rule[r].scope, Context)

\* A restriction that names nobody concerns everybody.
Concerns(r, u) == Covers(r) /\ (rule[r].users # {} => u \in rule[r].users)

\* A restriction without a condition blocks: nobody can satisfy it.
Unconditional(r) == rule[r].device = Null /\ rule[r].window = "none"

\* visibilityWhere, for the file of the archive: lists ask for no device.
Listed(u) == \/ user[u].owner
             \/ ~user[u].scoped
             \/ SelectedByAny({rule[r].scope : r \in GrantRows(u) \ Past}, case.archive)

-----------------------------------------------------------------------------
(* What is the case while a call is under way                              *)

RuleFacts(r) ==
    IF ~rule[r].exists THEN {<<r, "inactive">>}
    ELSE {<<r, IF rule[r].active THEN "active" ELSE "inactive">>,
          <<r, IF rule[r].window = "past" THEN "expired" ELSE "in time">>}
         \cup {<<r, IF d \in approved THEN "approved" ELSE "not approved">> :
                  d \in {rule[r].device} \ {Null}}

Facts(c) ==
    LET u == check[c].user
    IN  {<<u, IF user[u].owner THEN "owner" ELSE "not owner">>,
         <<u, IF user[u].scoped THEN "scoped" ELSE "unscoped">>}
        \cup UNION {RuleFacts(r) : r \in Rules}

\* A conjunct of every action: the facts of a call are what stands from its arrival to its
\* verdict.
Watch == stood' = [c \in Checks |->
                      IF check'[c].pc = "idle" THEN {}
                      ELSE IF check[c].pc \in Deciding
                      THEN stood[c] \cap Facts(c)'
                      ELSE IF check'[c].pc \in Deciding THEN Facts(c)' ELSE stood[c]]

Init ==
    /\ case \in Cases
    /\ user = [u \in Users |-> [owner |-> FALSE, scoped |-> u \in case.scoped]]
    /\ rule = [r \in Rules |-> NoRule]
    /\ approved = Devices
    /\ check = [c \in Checks |-> NoCheck]
    /\ changes = 0
    /\ stood = [c \in Checks |-> {}]

-----------------------------------------------------------------------------
(* assertCanView                                                           *)

At(c, pc) == check[c].pc = pc

\* A step of the call alone.
Answer(c, next) == /\ check' = [check EXCEPT ![c] = next]
                   /\ UNCHANGED <<case, user, rule, approved, changes>>
                   /\ Watch

\* The call goes on to pc with the rules it still has to look at.
Goes(c, pc, pending) == Answer(c, [check[c] EXCEPT !.pc = pc, !.pending = pending])

\* Editing passes no auth, everything else the device of the caller's token, if it has one.
CheckArrives(c, u, auth, d) ==
    /\ check[c].pc \notin Deciding
    /\ ~auth => d = Null
    /\ Answer(c, [pc |-> "context", user |-> u, auth |-> auth, device |-> d,
                  expired |-> {}, pending |-> {}, kept |-> {}, at |-> Null])

\* Faulty: forgets the owner.
CheckLoadsUserOnly(c) ==
    /\ At(c, "context")
    /\ Answer(c, [check[c] EXCEPT
                     !.pc = IF user[check[c].user].scoped THEN "grants" ELSE "restricts",
                     !.expired = Past])

\* The user and the file's context.  The owner passes everything.  activeGrants takes the
\* time before it reads.
CheckLoadsUser(c) ==
    LET u == user[check[c].user]
    IN  /\ At(c, "context")
        /\ Answer(c, [check[c] EXCEPT
                         !.pc = IF u.owner THEN "allowed"
                                ELSE IF u.scoped THEN "grants" ELSE "restricts",
                         !.expired = IF ~u.owner /\ u.scoped THEN Past ELSE {}])

\* activeGrants: what has expired and what asks for another device falls away.  A call
\* without auth is not asked for a device.
CheckReadsGrants(c) ==
    LET u     == check[c].user
        asked == {r \in GrantRows(u) \ check[c].expired :
                      check[c].auth => rule[r].device \in {Null, check[c].device}}
        sure  == {r \in asked : rule[r].device = Null \/ ~check[c].auth}
    IN  /\ At(c, "grants")
        /\ Answer(c, [check[c] EXCEPT !.pc = "devices", !.pending = asked \ sure, !.kept = sure])

\* One lookup per grant that asks for a device.
CheckLooksUpDevice(c) ==
    /\ At(c, "devices")
    /\ \E r \in check[c].pending :
          Answer(c, [check[c] EXCEPT
                        !.pending = @ \ {r},
                        !.kept = IF rule[r].device \in approved THEN @ \cup {r} ELSE @])

\* Some grant that is left covers the file, or the call is refused.
CheckAppliesGrants(c) ==
    /\ At(c, "devices")
    /\ check[c].pending = {}
    /\ Answer(c, [check[c] EXCEPT
                     !.pc = IF \E r \in check[c].kept : Covers(r) THEN "restricts" ELSE "refused",
                     !.kept = {}, !.expired = {}])

\* The restrictions; those that do not concern the file or the caller are skipped.
CheckReadsRestricts(c) ==
    /\ At(c, "restricts")
    /\ Goes(c, "rules", {r \in Active("restrict") : Concerns(r, check[c].user)})

\* restrictSatisfied up to its await.
CheckJudgesRule(c) ==
    /\ At(c, "rules")
    /\ \E r \in check[c].pending :
          IF \/ Unconditional(r)
             \/ rule[r].window = "past"
             \/ rule[r].device \notin {Null, check[c].device}
          THEN Goes(c, "refused", {})
          ELSE IF rule[r].device = Null
          THEN Goes(c, "rules", check[c].pending \ {r})
          ELSE Answer(c, [check[c] EXCEPT !.pc = "lookup", !.pending = @ \ {r}, !.at = r])

\* Faulty: the device of the caller is enough, approved or not.
CheckTrustsDevice(c) ==
    /\ At(c, "lookup")
    /\ Answer(c, [check[c] EXCEPT !.pc = "rules", !.at = Null])

\* restrictSatisfied after its await: a device that was revoked no longer opens.
CheckLooksUpRestriction(c) ==
    /\ At(c, "lookup")
    /\ IF rule[check[c].at].device \in approved
       THEN Answer(c, [check[c] EXCEPT !.pc = "rules", !.at = Null])
       ELSE Answer(c, [check[c] EXCEPT !.pc = "refused", !.pending = {}, !.at = Null])

CheckPasses(c) ==
    /\ At(c, "rules")
    /\ check[c].pending = {}
    /\ Goes(c, "allowed", {})

-----------------------------------------------------------------------------
(* Administrators and time                                                 *)

Change == /\ changes < case.changes
          /\ changes' = changes + 1
          /\ UNCHANGED <<case, check>>
          /\ Watch

\* create.  A device revoked between its lookup and the insert leaves the same rows as one
\* revoked after it.
CreateRule(r, body) ==
    /\ ~rule[r].exists
    /\ body.type = "grant" => body.users # {}
    /\ ~IsEmpty(body.scope)
    /\ body.window # "past"
    /\ body.device # Null => body.device \in approved
    /\ rule' = [rule EXCEPT ![r] = body]
    /\ UNCHANGED <<user, approved>>
    /\ Change

RevokeRule(r) ==
    /\ rule[r].exists
    /\ rule[r].active
    /\ rule' = [rule EXCEPT ![r].active = FALSE]
    /\ UNCHANGED <<user, approved>>
    /\ Change

RuleExpires(r) ==
    /\ rule[r].exists
    /\ rule[r].window = "open"
    /\ rule' = [rule EXCEPT ![r].window = "past"]
    /\ UNCHANGED <<user, approved>>
    /\ Change

SetScopedView(u) ==
    /\ user' = [user EXCEPT ![u].scoped = ~@]
    /\ UNCHANGED <<rule, approved>>
    /\ Change

\* UsersService.changeRole, to the owner's role or away from it.  The last owner, whom it
\* protects, is the administrator and none of Users.
ChangeOwner(u) ==
    /\ user' = [user EXCEPT ![u].owner = ~@]
    /\ UNCHANGED <<rule, approved>>
    /\ Change

\* DevicesService.approve and revoke.
DeviceChanges(d) ==
    /\ approved' = IF d \in approved THEN approved \ {d} ELSE approved \cup {d}
    /\ UNCHANGED <<user, rule>>
    /\ Change

Next ==
    \/ \E c \in Checks :
          \/ \E u \in Users, auth \in BOOLEAN, d \in Devices \cup {Null} :
                CheckArrives(c, u, auth, d)
          \/ CheckLoadsUser(c)
          \/ CheckReadsGrants(c) \/ CheckLooksUpDevice(c) \/ CheckAppliesGrants(c)
          \/ CheckReadsRestricts(c) \/ CheckJudgesRule(c) \/ CheckLooksUpRestriction(c)
          \/ CheckPasses(c)
    \/ \E r \in Rules :
          \/ \E body \in case.offers : CreateRule(r, body)
          \/ RevokeRule(r)
          \/ RuleExpires(r)
    \/ \E u \in Users : SetScopedView(u) \/ ChangeOwner(u)
    \/ \E d \in Devices : DeviceChanges(d)

Spec == Init /\ [][Next]_vars

-----------------------------------------------------------------------------
(* Properties                                                              *)

Stood(c, x, fact) == <<x, fact>> \in stood[c]

\* The grant may have let the call pass: nothing stood against it throughout.
MayHaveGranted(c, r) ==
    /\ rule[r].exists
    /\ rule[r].type = "grant"
    /\ check[c].user \in rule[r].users
    /\ Covers(r)
    /\ ~Stood(c, r, "inactive")
    /\ ~Stood(c, r, "expired")
    /\ check[c].auth => /\ rule[r].device \in {Null, check[c].device}
                        /\ ~Stood(c, r, "not approved")

\* The restriction stood throughout, and one thing that makes it refuse the caller.
Blocked(c, r) ==
    /\ rule[r].exists
    /\ rule[r].type = "restrict"
    /\ Concerns(r, check[c].user)
    /\ Stood(c, r, "active")
    /\ \/ Unconditional(r)
       \/ Stood(c, r, "expired")
       \/ rule[r].device \notin {Null, check[c].device}
       \/ Stood(c, r, "not approved")

\* No call of assertCanView passes against something that held from its arrival to its
\* verdict: a restriction the caller does not satisfy, or a scoped view without a grant for
\* the file; only the owner passes everything.  What changes meanwhile may count or not.
AllowedOnlyForAReason ==
    \A c \in Checks : At(c, "allowed") /\ Stood(c, check[c].user, "not owner") =>
        /\ \A r \in Rules : ~Blocked(c, r)
        /\ Stood(c, check[c].user, "scoped") => \E r \in Rules : MayHaveGranted(c, r)

\* The grant stood throughout, and everything it asks for.
Granted(c, r) ==
    /\ rule[r].exists
    /\ rule[r].type = "grant"
    /\ check[c].user \in rule[r].users
    /\ Covers(r)
    /\ Stood(c, r, "active")
    /\ Stood(c, r, "in time")
    /\ check[c].auth /\ rule[r].device # Null => /\ rule[r].device = check[c].device
                                                 /\ Stood(c, r, "approved")

\* The restriction may have refused the call.
MayHaveBlocked(c, r) ==
    /\ rule[r].exists
    /\ rule[r].type = "restrict"
    /\ Concerns(r, check[c].user)
    /\ ~Stood(c, r, "inactive")
    /\ \/ Unconditional(r)
       \/ ~Stood(c, r, "in time")
       \/ /\ rule[r].device # Null
          /\ rule[r].device # check[c].device \/ ~Stood(c, r, "approved")

\* No call is refused that was entitled from its arrival to its verdict: the owner never is,
\* nor is anybody else whose view is not scoped, or who holds a grant for the file all the
\* time, unless a restriction was in his way at some time.
RefusedOnlyForAReason ==
    \A c \in Checks : At(c, "refused") =>
        /\ ~Stood(c, check[c].user, "owner")
        /\ \/ \E r \in Rules : MayHaveBlocked(c, r)
           \/ /\ ~Stood(c, check[c].user, "unscoped")
              /\ \A r \in Rules : ~Granted(c, r)

\* The two readings of a scope agree: a file is in a user's lists (scopeWhere, which expands
\* folders and tags downwards) exactly when his grants, on whatever device, would let him
\* see it (matches, which climbs from the file).
ListAgreesWithCheck ==
    \A u \in Users : Listed(u) <=> \/ user[u].owner
                                   \/ ~user[u].scoped
                                   \/ \E r \in GrantRows(u) \ Past : Covers(r)
=============================================================================
