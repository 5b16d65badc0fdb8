------------------------------- MODULE Accounts -------------------------------
(***************************************************************************)
(* Accounts: AuthService (registration, login with an optional one-time    *)
(* code, Archive Reader logins), UsersService (changes of role) and        *)
(* PermissionsGuard.                                                       *)
(*                                                                         *)
(* Every await of a handler is a step and the handler goes on with the     *)
(* rows it has read; pc names the statement it runs next.                  *)
(***************************************************************************)
EXTENDS Naturals, FiniteSets

CONSTANTS Users,    \* e-mail addresses and the User rows that go by them
          Calls,    \* handlers that may be under way at once
          Device,   \* the deviceId of the Archive Reader installation
          Null,     \* SQL NULL
          OTP_MAX_ATTEMPTS,
          Cases     \* bound: what a behaviour starts from and what is done in it, records
                    \* of the fields users (roles of the rows there are), secured (users with
                    \* the second factor), kinds (of calls), calls and changes (how many)

ASSUME AccountsAssumption == /\ IsFiniteSet(Users) /\ Null \notin Users
                             /\ OTP_MAX_ATTEMPTS \in Nat \ {0}

VARIABLES
    case,    \* never changes
    user,    \* the User rows; code: 0 for otpCodeHash = null; fresh: otpExpiresAt is ahead
    device,  \* of every user: his Device row for Device
    call,    \* the calls
    arrived, \* calls so far, at most case.calls
    changes, \* changes of devices and expiries so far, at most case.changes
    otp,     \* history, of every user: see Consumed
    founders, \* history: users registered as owners
    crossed, \* history: two registrations, or two changes that take an owner's role, overlapped
    bars     \* history: see Watch

rows    == <<user, device>>
bounds  == <<case, arrived, changes>>
vars    == <<bounds, rows, call, otp, founders, crossed, bars>>

-----------------------------------------------------------------------------
(* Roles                                                                   *)

\* The seeded roles that differ here: system_admin has users.manage, internal_viewer is
\* what everybody but the first gets, the owner passes every check.
Roles     == {"owner", "system_admin", "internal_viewer"}
Managers  == {"owner", "system_admin"}
OWNER     == "owner"
DEFAULT   == "internal_viewer"

\* A behaviour starts from no users or from an archive that has its owner.
ASSUME CasesAssumption ==
    \A k \in Cases : /\ DOMAIN k.users \subseteq Users
                     /\ k.users \in [DOMAIN k.users -> Roles]
                     /\ DOMAIN k.users # {} => \E u \in DOMAIN k.users : k.users[u] = OWNER

NoUser == [exists |-> FALSE, role |-> DEFAULT, password |-> 1, secured |-> FALSE, code |-> 0,
           fresh |-> FALSE, attempts |-> 0]
NoCall == [pc |-> "idle", kind |-> "none", user |-> Null, actor |-> Null, role |-> DEFAULT,
           given |-> 1, guess |-> 0, reader |-> FALSE, row |-> NoUser]

Registered == {u \in Users : user[u].exists}
Owners     == {u \in Registered : user[u].role = OWNER}

-----------------------------------------------------------------------------
(* Bars: reasons to refuse a call that have stood ever since it arrived.   *)

At(c, pc) == call[c].pc = pc

AskPassword == {"login", "disable", "password"}

BarNames == {"password", "second factor", "code", "device", "permission", "owners", "last owner"}

BarsOf(c) ==
    LET k == call[c]
        u == k.user
    IN  {b \in BarNames :
            \/ b = "password" /\ k.kind \in AskPassword /\ k.given # user[u].password
            \/ b = "second factor" /\ k.kind = "login" /\ user[u].secured
            \/ b = "code" /\ k.kind \in {"verify", "confirm"} /\ k.guess \notin {user[u].code} \ {0}
            \/ b = "device" /\ k.reader /\ device[u] # "approved"
            \/ /\ k.kind = "change"
               /\ \/ b = "permission" /\ user[k.actor].role \notin Managers
                  \/ b = "owners" /\ user[k.actor].role # OWNER
                                  /\ OWNER \in {k.role, user[u].role}
                  \/ b = "last owner" /\ Owners = {u} /\ k.role # OWNER}

\* Keeps the standing bars of every call; a conjunct of every action.
Watch == bars' = [c \in Calls |-> IF call'[c].pc = "idle" THEN {}
                                  ELSE IF At(c, "idle") THEN BarsOf(c)'
                                  ELSE bars[c] \cap BarsOf(c)']

Init ==
    /\ case \in Cases
    /\ user = [u \in Users |->
                  IF u \in DOMAIN case.users
                  THEN [NoUser EXCEPT !.exists = TRUE, !.role = case.users[u],
                                      !.secured = u \in case.secured]
                  ELSE NoUser]
    /\ device = [u \in Users |-> "none"]
    /\ call = [c \in Calls |-> NoCall]
    /\ arrived = 0 /\ changes = 0
    /\ otp = [u \in Users |-> [sent |-> 0, misses |-> 0, uses |-> 0, crossed |-> FALSE]]
    /\ founders = {} /\ crossed = FALSE
    /\ bars = [c \in Calls |-> {}]

-----------------------------------------------------------------------------
(* Steps of a call                                                         *)

Becomes(c, next) == call' = [call EXCEPT ![c] = next]
Goes(c, pc)      == Becomes(c, IF pc = "idle" THEN NoCall ELSE [call[c] EXCEPT !.pc = pc])
Reads(c, pc)     == Becomes(c, IF pc = "idle" THEN NoCall
                               ELSE [call[c] EXCEPT !.pc = pc, !.row = user[call[c].user]])

\* A step that writes nothing.
Only(c) == UNCHANGED <<bounds, rows, otp, founders, crossed>> /\ Watch

Arrives(c, first) ==
    /\ At(c, "idle")
    /\ arrived < case.calls /\ arrived' = arrived + 1
    /\ Becomes(c, first)
    /\ UNCHANGED <<case, changes, rows, otp, founders, crossed>>
    /\ Watch

\* A call of one kind about one account, at its first statement.
Asks(pc, kind, u) == [NoCall EXCEPT !.pc = pc, !.kind = kind, !.user = u]

\* One that is the user's and one that is not; change-password may exchange them.
Passwords == 1..2

RegisterArrives(c) ==
    /\ "register" \in case.kinds
    /\ \E u \in Users : Arrives(c, Asks("find", "register", u))

\* login and 2fa/login-verify; a Reader names its installation.
LoginArrives(c) ==
    /\ "login" \in case.kinds
    /\ \E u \in Users, reader \in {FALSE, "reader" \in case.kinds} :
          \/ \E given \in Passwords :
                Arrives(c, [Asks("user", "login", u) EXCEPT !.reader = reader, !.given = given])
          \/ \E guess \in 0..otp[u].sent :
                Arrives(c, [Asks("user", "verify", u) EXCEPT !.reader = reader, !.guess = guess])

\* change-password by one who is logged in; guess is the new password.
PasswordArrives(c) ==
    /\ "password" \in case.kinds
    /\ \E u \in Registered, given, new \in Passwords :
          Arrives(c, [Asks("user", "password", u) EXCEPT !.given = given, !.guess = new])

\* 2fa/enable, 2fa/confirm and 2fa/disable by one who is logged in.
SecondFactorArrives(c) ==
    /\ "second factor" \in case.kinds
    /\ \E u \in Registered :
          \/ Arrives(c, Asks("user", "request", u))
          \/ \E given \in Passwords :
                Arrives(c, [Asks("user", "disable", u) EXCEPT !.given = given])
          \/ \E guess \in 0..otp[u].sent :
                Arrives(c, [Asks("user", "confirm", u) EXCEPT !.guess = guess])

ChangeArrives(c) ==
    /\ "change" \in case.kinds
    /\ \E actor, u \in Registered, role \in Roles :
          Arrives(c, [Asks("guard", "change", u) EXCEPT !.actor = actor, !.role = role])

CallEnds(c) == /\ call[c].pc \in {"token", "sent"}
               /\ Goes(c, "idle")
               /\ Only(c)

-----------------------------------------------------------------------------
(* register                                                                *)

RegisterFinds(c) == /\ At(c, "find")
                    /\ Goes(c, IF user[call[c].user].exists THEN "idle" ELSE "count")
                    /\ Only(c)

\* The first account owns the archive; the hash of the password is awaited next.
RegisterCounts(c) ==
    /\ At(c, "count")
    /\ Becomes(c, [call[c] EXCEPT !.pc = "create",
                                  !.role = IF Registered = {} THEN OWNER ELSE DEFAULT])
    /\ crossed' = (crossed \/ \E d \in Calls : At(d, "create"))
    /\ UNCHANGED <<bounds, rows, otp, founders>>
    /\ Watch

\* The e-mail address is unique in the table.
RegisterCreates(c) ==
    LET u == call[c].user
    IN  /\ At(c, "create")
        /\ IF user[u].exists
           THEN Goes(c, "idle") /\ UNCHANGED <<user, founders>>
           ELSE /\ user' = [user EXCEPT ![u] = [NoUser EXCEPT !.exists = TRUE,
                                                              !.role = call[c].role]]
                /\ founders' = IF call[c].role = OWNER THEN founders \cup {u} ELSE founders
                /\ Goes(c, "token")
        /\ UNCHANGED <<bounds, device, otp, crossed>>
        /\ Watch

-----------------------------------------------------------------------------
(* login and the device of a Reader                                        *)

\* The row of every call about one account, with the comparisons of its password, and what
\* each kind does with it.
CallLoadsUser(c) ==
    LET k == call[c]
        u == user[k.user]
    IN  /\ At(c, "user")
        /\ Reads(c, IF ~u.exists \/ (k.kind \in AskPassword /\ k.given # u.password) THEN "idle"
                    ELSE CASE k.kind = "login" -> IF k.reader THEN "device"
                                                  ELSE IF u.secured THEN "issue" ELSE "token"
                           [] k.kind = "request" -> IF u.secured THEN "idle" ELSE "issue"
                           [] k.kind = "disable" -> "disable"
                           [] k.kind = "password" -> IF k.guess = u.password THEN "idle"
                                                     ELSE "rehash"
                           [] OTHER -> IF u.code = 0 THEN "idle"
                                       ELSE IF u.fresh THEN "compare" ELSE "cancel")
        /\ Only(c)

\* After the device: a login may still have to send a code, a verification has used one.
Past(k) == IF k.kind = "login" /\ k.row.secured THEN "issue" ELSE "token"

\* Faulty: lets in whatever has not been revoked.
DeviceKnown(c) ==
    LET u == call[c].user
    IN  /\ At(c, "device")
        /\ Goes(c, CASE device[u] = "none" -> "enter"
                     [] device[u] \in {"approved", "pending"} -> Past(call[c])
                     [] OTHER -> "idle")
        /\ Only(c)

\* resolveReaderDevice: an unknown installation is entered and waits for an administrator;
\* of a known one lastSeenAt is written before the answer, which the read decides.
DeviceResolved(c) ==
    LET u == call[c].user
    IN  /\ At(c, "device")
        /\ Goes(c, CASE device[u] = "none" -> "enter"
                     [] device[u] = "approved" -> Past(call[c])
                     [] OTHER -> "idle")
        /\ Only(c)

\* A user has one row per installation; of two logins that enter it one fails.
DeviceEntered(c) ==
    LET u == call[c].user
    IN  /\ At(c, "enter")
        /\ device' = IF device[u] = "none" THEN [device EXCEPT ![u] = "pending"] ELSE device
        /\ Goes(c, "idle")
        /\ UNCHANGED <<bounds, user, otp, founders, crossed>>
        /\ Watch

\* The new password is hashed and written over whatever is there by now.
PasswordWritten(c) ==
    /\ At(c, "rehash")
    /\ user' = [user EXCEPT ![call[c].user].password = call[c].guess]
    /\ Goes(c, "token")
    /\ UNCHANGED <<bounds, device, otp, founders, crossed>>
    /\ Watch

-----------------------------------------------------------------------------
(* One-time codes                                                          *)

\* Calls that hold a read of the user's code and are still to act on it.
Holding(u) == {c \in Calls : call[c].pc \in {"compare", "use", "miss", "cancel"}
                                /\ call[c].user = u}

\* Writes the code's columns of the caller's user; whoever holds a read of them is crossed.
CodeWritten(c, columns, history) ==
    LET u == call[c].user
    IN  /\ user' = [user EXCEPT ![u] = columns]
        /\ otp' = [otp EXCEPT ![u] = [history EXCEPT !.crossed = @ \/ (Holding(u) \ {c}) # {}]]
        /\ UNCHANGED <<bounds, device, founders, crossed>>
        /\ Watch

Cleared(u) == [user[u] EXCEPT !.code = 0, !.fresh = FALSE, !.attempts = 0]

\* issueOtp and the mail: a new code, its time and no attempts.
CodeIssued(c) ==
    LET u == call[c].user
        n == otp[u].sent + 1
    IN  /\ At(c, "issue")
        /\ Goes(c, "sent")
        /\ CodeWritten(c, [user[u] EXCEPT !.code = n, !.fresh = TRUE, !.attempts = 0],
                       [otp[u] EXCEPT !.sent = n, !.misses = 0, !.uses = 0])

\* bcrypt.compare with the hash that was read.
CodeCompared(c) == /\ At(c, "compare")
                   /\ Goes(c, IF call[c].guess = call[c].row.code THEN "use" ELSE "miss")
                   /\ Only(c)

\* Faulty: the code stays until its time is over.
CodeUsedKept(c) ==
    LET u == call[c].user
    IN  /\ At(c, "use")
        /\ Goes(c, IF call[c].kind = "confirm" THEN "enable"
                   ELSE IF call[c].reader THEN "device" ELSE "token")
        /\ CodeWritten(c, user[u], [otp[u] EXCEPT !.uses = @ + 1])

\* The right code is used up.
CodeUsed(c) ==
    LET u == call[c].user
    IN  /\ At(c, "use")
        /\ Goes(c, IF call[c].kind = "confirm" THEN "enable"
                   ELSE IF call[c].reader THEN "device" ELSE "token")
        /\ CodeWritten(c, Cleared(u), [otp[u] EXCEPT !.uses = @ + 1])

\* A wrong one is counted on the row that was read; the last attempt cancels the code.
CodeMissed(c) ==
    LET u == call[c].user
        n == call[c].row.attempts + 1
    IN  /\ At(c, "miss")
        /\ Goes(c, "idle")
        /\ CodeWritten(c, IF n >= OTP_MAX_ATTEMPTS THEN Cleared(u)
                          ELSE [user[u] EXCEPT !.attempts = n],
                       [otp[u] EXCEPT !.misses = @ + 1])

\* The code that was read is past its time.
CodeCancelled(c) == /\ At(c, "cancel")
                    /\ Goes(c, "idle")
                    /\ CodeWritten(c, Cleared(call[c].user), otp[call[c].user])

SecondFactorEnabled(c) ==
    /\ At(c, "enable")
    /\ user' = [user EXCEPT ![call[c].user].secured = TRUE]
    /\ Goes(c, "idle")
    /\ UNCHANGED <<bounds, device, otp, founders, crossed>>
    /\ Watch

\* The code goes as well, its attempts stay.
SecondFactorDisabled(c) ==
    LET u == call[c].user
    IN  /\ At(c, "disable")
        /\ Goes(c, "idle")
        /\ CodeWritten(c, [user[u] EXCEPT !.secured = FALSE, !.code = 0, !.fresh = FALSE], otp[u])

-----------------------------------------------------------------------------
(* PermissionsGuard and changeRole                                         *)

\* The role is read anew at every request; row keeps it as the handler's isOwner.
GuardReads(c) ==
    LET actor == user[call[c].actor]
    IN  /\ At(c, "guard")
        /\ IF actor.role \in Managers
           THEN Becomes(c, [call[c] EXCEPT !.pc = "target", !.guess = IF actor.role = OWNER THEN 1 ELSE 0])
           ELSE Goes(c, "idle")
        /\ Only(c)

IsOwner(c) == call[c].guess = 1

\* The target and the new role; an owner's role is for owners to give and to take.
TargetLoaded(c) ==
    LET target  == user[call[c].user]
        demotes == target.role = OWNER /\ call[c].role # OWNER
    IN  /\ At(c, "target")
        /\ Reads(c, IF ~target.exists THEN "idle"
                    ELSE IF OWNER \in {target.role, call[c].role} /\ ~IsOwner(c) THEN "idle"
                    ELSE IF demotes THEN "owners"
                    ELSE IF target.role = call[c].role THEN "idle" ELSE "update")
        /\ Only(c)

\* Faulty: off by one.
OwnersCountedLoosely(c) == /\ At(c, "owners")
                           /\ Goes(c, IF Cardinality(Owners) < 1 THEN "idle" ELSE "update")
                           /\ Only(c)

OwnersCounted(c) == /\ At(c, "owners")
                    /\ Goes(c, IF Cardinality(Owners) <= 1 THEN "idle" ELSE "update")
                    /\ Only(c)

\* Calls about to take a role that is by now an owner's, whatever they have read.
Demoting == {c \in Calls : /\ At(c, "update") /\ call[c].role # OWNER
                           /\ user[call[c].user].role = OWNER}

RoleWritten(c) ==
    /\ At(c, "update")
    /\ user' = [user EXCEPT ![call[c].user].role = call[c].role]
    /\ crossed' = (crossed \/ (c \in Demoting /\ Demoting # {c}))
    /\ Goes(c, "idle")
    /\ UNCHANGED <<bounds, device, otp, founders>>
    /\ Watch

-----------------------------------------------------------------------------
(* Administration and time                                                 *)

Changes == changes < case.changes /\ changes' = changes + 1
           /\ UNCHANGED <<case, arrived, call, otp, founders, crossed>>

\* DevicesService approves and revokes.
DeviceDecided(u, status) ==
    /\ "reader" \in case.kinds /\ device[u] \notin {"none", status}
    /\ device' = [device EXCEPT ![u] = status]
    /\ Changes /\ UNCHANGED user /\ Watch

CodeExpires(u) == /\ user[u].fresh
                  /\ user' = [user EXCEPT ![u].fresh = FALSE]
                  /\ Changes /\ UNCHANGED device /\ Watch

CallStep(c) ==
    \/ RegisterArrives(c) \/ LoginArrives(c) \/ PasswordArrives(c) \/ SecondFactorArrives(c)
    \/ ChangeArrives(c) \/ CallEnds(c)
    \/ RegisterFinds(c) \/ RegisterCounts(c) \/ RegisterCreates(c)
    \/ CallLoadsUser(c) \/ DeviceResolved(c) \/ DeviceEntered(c) \/ PasswordWritten(c)
    \/ CodeIssued(c) \/ CodeCompared(c) \/ CodeUsed(c) \/ CodeMissed(c) \/ CodeCancelled(c)
    \/ SecondFactorEnabled(c) \/ SecondFactorDisabled(c)
    \/ GuardReads(c) \/ TargetLoaded(c) \/ OwnersCounted(c) \/ RoleWritten(c)

Next == \/ \E c \in Calls : CallStep(c)
        \/ \E u \in Users : \/ CodeExpires(u)
                            \/ \E status \in {"approved", "revoked"} : DeviceDecided(u, status)

Spec == Init /\ [][Next]_vars

-----------------------------------------------------------------------------
(* Properties                                                              *)

\* No call comes to its effect (a token, the second factor turned on or off, a password or a
\* role written) over something that has forbidden it ever since it arrived: a password that
\* was never the user's, a second factor not passed, a code
\* that was never the user's, a device not approved, a permission not held, an owner touched
\* by who is none, the only owner demoted.
NothingForbiddenPasses ==
    \A c \in Calls :
        call[c].pc \in {"token", "enable", "disable", "rehash", "update"} => bars[c] = {}

\* An archive that has users has an owner, and registration has made no more than one,
\* unless two registrations or two changes that take an owner's role have crossed.
OwnersRemain == \/ crossed
                \/ /\ Registered # {} => Owners # {}
                   /\ Cardinality(founders) <= 1

\* A one-time code lets in once and stands a limited number of guesses, unless calls on
\* one account have crossed.
CodesAreOneTime ==
    \A u \in Users : ~otp[u].crossed => otp[u].uses <= 1 /\ otp[u].misses <= OTP_MAX_ATTEMPTS
=============================================================================
