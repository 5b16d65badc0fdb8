---------------------------- MODULE Accounts_proofs ----------------------------
(***************************************************************************)
(* Theorems about Accounts, for any finite number of users, any number of  *)
(* calls under way at once and any number of changes in between.           *)
(***************************************************************************)
EXTENDS Accounts, FiniteSetTheorems, TLAPS

Kinds   == {"register", "login", "verify", "password", "request", "confirm", "disable", "change"}
CallPCs == {"idle", "find", "count", "create", "user", "device", "enter", "rehash", "issue",
            "compare", "use", "miss", "cancel", "enable", "disable", "token", "sent", "guard",
            "target", "owners", "update"}
UserRow == [exists : BOOLEAN, role : Roles, password : Nat, secured : BOOLEAN, code : Nat,
            fresh : BOOLEAN, attempts : Nat]
CallRow == [pc : CallPCs, kind : Kinds \cup {"none"}, user : Users \cup {Null},
            actor : Users \cup {Null}, role : Roles, given : Nat, guess : Nat,
            reader : BOOLEAN, row : UserRow]
OtpRow  == [sent : Nat, misses : Nat, uses : Nat, crossed : BOOLEAN]

\* Where a call of each kind may stand.
Stands(k) ==
    CASE k.kind = "register" -> k.pc \in {"find", "count", "create", "token"}
      [] k.kind = "login"    -> k.pc \in {"user", "device", "enter", "issue", "token", "sent"}
      [] k.kind = "verify"   -> k.pc \in {"user", "compare", "use", "miss", "cancel", "device",
                                          "enter", "token"}
      [] k.kind = "password" -> k.pc \in {"user", "rehash", "token"}
      [] k.kind = "request"  -> k.pc \in {"user", "issue", "sent"}
      [] k.kind = "confirm"  -> k.pc \in {"user", "compare", "use", "miss", "cancel", "enable"}
      [] k.kind = "disable"  -> k.pc \in {"user", "disable"}
      [] k.kind = "change"   -> k.pc \in {"guard", "target", "owners", "update"}
      [] OTHER               -> k.pc = "idle"

\* A call under way is about a user, a change of role is made by one, and only those who log
\* in come through a Reader.
CallSound(k) == /\ Stands(k)
                /\ k.pc # "idle" => k.user \in Users
                /\ k.kind = "change" => k.actor \in Users
                /\ k.reader => k.kind \in {"login", "verify"}

\* The state keeps its types.
TypeOK ==
    /\ user \in [Users -> UserRow]
    /\ device \in [Users -> {"none", "pending", "approved", "revoked"}]
    /\ call \in [Calls -> CallRow]
    /\ \A c \in Calls : CallSound(call[c])
    /\ otp \in [Users -> OtpRow]
    /\ founders \subseteq Users /\ crossed \in BOOLEAN
    /\ bars \in [Calls -> SUBSET BarNames]

-----------------------------------------------------------------------------
(* The types                                                               *)

LEMMA NoRows == NoUser \in UserRow /\ NoCall \in CallRow /\ CallSound(NoCall)
<1>1. NoUser \in UserRow  BY DEF NoUser, UserRow, Roles, DEFAULT
<1> QED BY <1>1 DEF NoCall, CallRow, CallPCs, CallSound, Stands, Roles, DEFAULT

\* A step moves one call, to a row that is sound.
Moves(c) == \E k \in CallRow : CallSound(k) /\ Becomes(c, k)

LEMMA Moved ==
    ASSUME call \in [Calls -> CallRow], \A d \in Calls : CallSound(call[d]),
           NEW c \in Calls, Moves(c)
    PROVE  call' \in [Calls -> CallRow] /\ \A d \in Calls : CallSound(call'[d])
BY DEF Moves, Becomes

LEMMA Ended ==
    ASSUME NEW c \in Calls, Goes(c, "idle")
    PROVE  Moves(c) /\ call' = [call EXCEPT ![c] = NoCall]
BY NoRows DEF Goes, Becomes, Moves

LEMMA Went ==
    ASSUME TypeOK, NEW c \in Calls, NEW pc \in CallPCs \ {"idle"}, Goes(c, pc),
           Stands([call[c] EXCEPT !.pc = pc]), call[c].pc # "idle"
    PROVE  Moves(c)
<1> DEFINE k == [call[c] EXCEPT !.pc = pc]
<1>1. call[c] \in CallRow /\ CallSound(call[c])  BY DEF TypeOK
<1>2. k \in CallRow /\ k.pc = pc /\ k.kind = call[c].kind /\ k.user = call[c].user
      /\ k.actor = call[c].actor /\ k.reader = call[c].reader
  BY <1>1 DEF CallRow
<1>3. Becomes(c, k)  BY DEF Goes
<1>4. Stands(k)  OBVIOUS
<1> HIDE DEF k
<1>5. CallSound(k)  BY <1>1, <1>2, <1>4 DEF CallSound
<1> QED BY <1>2, <1>3, <1>5 DEF Moves

LEMMA Blank == NoCall \in CallRow /\ NoCall.reader = FALSE /\ NoCall.role = DEFAULT
BY NoRows DEF NoCall

LEMMA Named == /\ {"find", "user", "guard"} \subseteq CallPCs
               /\ {"register", "login", "verify", "password", "request", "confirm", "disable",
                   "change"} \subseteq Kinds
BY DEF CallPCs, Kinds

\* A watched step keeps the type of the bars.
LEMMA WatchTyped ==
    ASSUME bars \in [Calls -> SUBSET BarNames], Watch
    PROVE  bars' \in [Calls -> SUBSET BarNames]
<1>1. \A c \in Calls : BarsOf(c)' \subseteq BarNames  BY DEF BarsOf
<1> QED BY <1>1 DEF Watch

\* What is typed in every step: the calls, once a step is known to move one of them.
Rest == /\ user' \in [Users -> UserRow]
        /\ device' \in [Users -> {"none", "pending", "approved", "revoked"}]
        /\ otp' \in [Users -> OtpRow]
        /\ founders' \subseteq Users /\ crossed' \in BOOLEAN

LEMMA StepTyped ==
    ASSUME TypeOK, NEW c \in Calls, Moves(c), Rest, Watch
    PROVE  TypeOK'
<1>1. call' \in [Calls -> CallRow] /\ \A d \in Calls : CallSound(call'[d])
  BY Moved DEF TypeOK
<1>2. bars' \in [Calls -> SUBSET BarNames]  BY WatchTyped DEF TypeOK
<1> QED BY <1>1, <1>2 DEF TypeOK, Rest

LEMMA RestStays ==
    ASSUME TypeOK, UNCHANGED <<rows, otp, founders, crossed>>
    PROVE  Rest
BY DEF TypeOK, Rest, rows

LEMMA ArrivesMoves ==
    ASSUME NEW c \in Calls, NEW k \in CallRow, CallSound(k), Arrives(c, k)
    PROVE  Moves(c)
BY DEF Arrives, Moves

LEMMA NumbersTyped == \A n \in Passwords : n \in Nat
BY DEF Passwords

\* Every arriving call is of a kind, about a user, at the first statement of its kind.
Begins(k) == \/ k.pc = "find" /\ k.kind = "register"
             \/ k.pc = "user" /\ k.kind \in {"login", "verify", "password", "request",
                                             "confirm", "disable"}
             \/ k.pc = "guard" /\ k.kind = "change"

ArrivesSome(c) == \E k \in CallRow : /\ CallSound(k) /\ Begins(k) /\ k.pc # "idle"
                                     /\ Arrives(c, k)

LEMMA ArrivesTyped ==
    ASSUME TypeOK, NEW c \in Calls,
           \/ RegisterArrives(c) \/ LoginArrives(c) \/ PasswordArrives(c)
           \/ SecondFactorArrives(c) \/ ChangeArrives(c)
    PROVE  ArrivesSome(c)
<1>1. CASE RegisterArrives(c)
  <2>1. PICK u \in Users : Arrives(c, Asks("find", "register", u))
    BY <1>1 DEF RegisterArrives
  <2> DEFINE k == Asks("find", "register", u)
  <2>2. k = [NoCall EXCEPT !.pc = "find", !.kind = "register", !.user = u]  BY DEF Asks
  <2>3. Arrives(c, k)  BY <2>1
  <2> HIDE DEF k
  <2>4. k \in CallRow /\ k.pc = "find" /\ k.kind = "register" /\ k.user = u /\ ~k.reader
    BY Blank, Named, <2>2 DEF CallRow
  <2> QED BY <2>3, <2>4 DEF ArrivesSome, Begins, CallSound, Stands
<1>2. CASE LoginArrives(c)
  <2>1. PICK u \in Users, reader \in {FALSE, "reader" \in case.kinds} :
           \/ \E given \in Passwords :
                 Arrives(c, [Asks("user", "login", u) EXCEPT !.reader = reader, !.given = given])
           \/ \E guess \in 0..otp[u].sent :
                 Arrives(c, [Asks("user", "verify", u) EXCEPT !.reader = reader, !.guess = guess])
    BY <1>2 DEF LoginArrives
  <2>2. reader \in BOOLEAN
    <3>1. CASE reader = FALSE  BY <3>1
    <3>2. CASE reader = ("reader" \in case.kinds)  BY <3>2
    <3> QED BY <3>1, <3>2
  <2>3. CASE \E given \in Passwords :
                Arrives(c, [Asks("user", "login", u) EXCEPT !.reader = reader, !.given = given])
    <3>1. PICK given \in Passwords :
           Arrives(c, [Asks("user", "login", u) EXCEPT !.reader = reader, !.given = given])
      BY <2>3
    <3> DEFINE first == Asks("user", "login", u)
               k     == [first EXCEPT !.reader = reader, !.given = given]
    <3>2. first = [NoCall EXCEPT !.pc = "user", !.kind = "login", !.user = u]  BY DEF Asks
    <3>3. Arrives(c, k)  BY <3>1
    <3> HIDE DEF first
    <3>4. first \in CallRow /\ first.pc = "user" /\ first.kind = "login" /\ first.user = u
      BY Blank, Named, <3>2 DEF CallRow
    <3>5. reader \in BOOLEAN /\ given \in Nat  BY <2>2, NumbersTyped
    <3>6. k \in CallRow /\ k.pc = "user" /\ k.kind = "login" /\ k.user = u
      BY <3>4, <3>5 DEF CallRow
    <3> HIDE DEF k
    <3> QED BY <3>3, <3>6 DEF ArrivesSome, Begins, CallSound, Stands
  <2>4. CASE \E guess \in 0..otp[u].sent :
                Arrives(c, [Asks("user", "verify", u) EXCEPT !.reader = reader, !.guess = guess])
    <3>1. PICK guess \in 0..otp[u].sent :
           Arrives(c, [Asks("user", "verify", u) EXCEPT !.reader = reader, !.guess = guess])
      BY <2>4
    <3> DEFINE first == Asks("user", "verify", u)
               k     == [first EXCEPT !.reader = reader, !.guess = guess]
    <3>2. first = [NoCall EXCEPT !.pc = "user", !.kind = "verify", !.user = u]  BY DEF Asks
    <3>3. Arrives(c, k)  BY <3>1
    <3> HIDE DEF first
    <3>4. first \in CallRow /\ first.pc = "user" /\ first.kind = "verify" /\ first.user = u
      BY Blank, Named, <3>2 DEF CallRow
    <3>5. reader \in BOOLEAN /\ guess \in Nat  BY <2>2 DEF TypeOK, OtpRow
    <3>6. k \in CallRow /\ k.pc = "user" /\ k.kind = "verify" /\ k.user = u
      BY <3>4, <3>5 DEF CallRow
    <3> HIDE DEF k
    <3> QED BY <3>3, <3>6 DEF ArrivesSome, Begins, CallSound, Stands
  <2> QED BY <2>1, <2>3, <2>4
<1>3. CASE PasswordArrives(c)
  <2>1. PICK u \in Users, given \in Passwords, new \in Passwords :
         Arrives(c, [Asks("user", "password", u) EXCEPT !.given = given, !.guess = new])
    BY <1>3 DEF PasswordArrives, Registered
  <2> DEFINE first == Asks("user", "password", u)
             k     == [first EXCEPT !.given = given, !.guess = new]
  <2>2. first = [NoCall EXCEPT !.pc = "user", !.kind = "password", !.user = u]  BY DEF Asks
  <2>3. Arrives(c, k)  BY <2>1
  <2> HIDE DEF first
  <2>4. first \in CallRow /\ first.pc = "user" /\ first.kind = "password" /\ first.user = u /\ ~first.reader
    BY Blank, Named, <2>2 DEF CallRow
  <2>5. given \in Nat /\ new \in Nat  BY NumbersTyped
  <2>6. k \in CallRow /\ k.pc = "user" /\ k.kind = "password" /\ k.user = u /\ ~k.reader
    BY <2>4, <2>5 DEF CallRow
  <2> HIDE DEF k
  <2> QED BY <2>3, <2>6 DEF ArrivesSome, Begins, CallSound, Stands
<1>4. CASE SecondFactorArrives(c)
  <2>1. PICK u \in Users :
           \/ Arrives(c, Asks("user", "request", u))
           \/ \E given \in Passwords :
                 Arrives(c, [Asks("user", "disable", u) EXCEPT !.given = given])
           \/ \E guess \in 0..otp[u].sent :
                 Arrives(c, [Asks("user", "confirm", u) EXCEPT !.guess = guess])
    BY <1>4 DEF SecondFactorArrives, Registered
  <2>2. CASE Arrives(c, Asks("user", "request", u))
    <3> DEFINE k == Asks("user", "request", u)
    <3>2. k = [NoCall EXCEPT !.pc = "user", !.kind = "request", !.user = u]  BY DEF Asks
    <3>3. Arrives(c, k)  BY <2>2
    <3> HIDE DEF k
    <3>4. k \in CallRow /\ k.pc = "user" /\ k.kind = "request" /\ k.user = u /\ ~k.reader
      BY Blank, Named, <3>2 DEF CallRow
    <3> QED BY <3>3, <3>4 DEF ArrivesSome, Begins, CallSound, Stands
  <2>3. CASE \E given \in Passwords :
                Arrives(c, [Asks("user", "disable", u) EXCEPT !.given = given])
    <3>1. PICK given \in Passwords :
           Arrives(c, [Asks("user", "disable", u) EXCEPT !.given = given])
      BY <2>3
    <3> DEFINE first == Asks("user", "disable", u)
               k     == [first EXCEPT !.given = given]
    <3>2. first = [NoCall EXCEPT !.pc = "user", !.kind = "disable", !.user = u]  BY DEF Asks
    <3>3. Arrives(c, k)  BY <3>1
    <3> HIDE DEF first
    <3>4. first \in CallRow /\ first.pc = "user" /\ first.kind = "disable" /\ first.user = u /\ ~first.reader
      BY Blank, Named, <3>2 DEF CallRow
    <3>5. given \in Nat  BY NumbersTyped
    <3>6. k \in CallRow /\ k.pc = "user" /\ k.kind = "disable" /\ k.user = u /\ ~k.reader
      BY <3>4, <3>5 DEF CallRow
    <3> HIDE DEF k
    <3> QED BY <3>3, <3>6 DEF ArrivesSome, Begins, CallSound, Stands
  <2>4. CASE \E guess \in 0..otp[u].sent :
                Arrives(c, [Asks("user", "confirm", u) EXCEPT !.guess = guess])
    <3>1. PICK guess \in 0..otp[u].sent :
           Arrives(c, [Asks("user", "confirm", u) EXCEPT !.guess = guess])
      BY <2>4
    <3> DEFINE first == Asks("user", "confirm", u)
               k     == [first EXCEPT !.guess = guess]
    <3>2. first = [NoCall EXCEPT !.pc = "user", !.kind = "confirm", !.user = u]  BY DEF Asks
    <3>3. Arrives(c, k)  BY <3>1
    <3> HIDE DEF first
    <3>4. first \in CallRow /\ first.pc = "user" /\ first.kind = "confirm" /\ first.user = u /\ ~first.reader
      BY Blank, Named, <3>2 DEF CallRow
    <3>5. guess \in Nat  BY DEF TypeOK, OtpRow
    <3>6. k \in CallRow /\ k.pc = "user" /\ k.kind = "confirm" /\ k.user = u /\ ~k.reader
      BY <3>4, <3>5 DEF CallRow
    <3> HIDE DEF k
    <3> QED BY <3>3, <3>6 DEF ArrivesSome, Begins, CallSound, Stands
  <2> QED BY <2>1, <2>2, <2>3, <2>4
<1>5. CASE ChangeArrives(c)
  <2>1. PICK actor \in Users, u \in Users, role \in Roles :
         Arrives(c, [Asks("guard", "change", u) EXCEPT !.actor = actor, !.role = role])
    BY <1>5 DEF ChangeArrives, Registered
  <2> DEFINE first == Asks("guard", "change", u)
             k     == [first EXCEPT !.actor = actor, !.role = role]
  <2>2. first = [NoCall EXCEPT !.pc = "guard", !.kind = "change", !.user = u]  BY DEF Asks
  <2>3. Arrives(c, k)  BY <2>1
  <2> HIDE DEF first
  <2>4. first \in CallRow /\ first.pc = "guard" /\ first.kind = "change" /\ first.user = u /\ ~first.reader
    BY Blank, Named, <2>2 DEF CallRow
  <2>5. actor \in Users /\ role \in Roles  OBVIOUS
  <2>6. k \in CallRow /\ k.pc = "guard" /\ k.kind = "change" /\ k.user = u /\ ~k.reader /\ k.actor = actor
    BY <2>4, <2>5 DEF CallRow
  <2> HIDE DEF k
  <2> QED BY <2>3, <2>6 DEF ArrivesSome, Begins, CallSound, Stands
<1> QED BY <1>1, <1>2, <1>3, <1>4, <1>5

\* Where the row of an account leads a call about it.
LoadsTo(k, u, pc) ==
    /\ u.exists
    /\ k.kind \in AskPassword => k.given = u.password
    /\ \/ k.kind = "login" /\ k.reader /\ pc = "device"
       \/ k.kind = "login" /\ ~k.reader /\ u.secured /\ pc = "issue"
       \/ k.kind = "login" /\ ~k.reader /\ ~u.secured /\ pc = "token"
       \/ k.kind = "request" /\ pc = "issue"
       \/ k.kind = "disable" /\ pc = "disable"
       \/ k.kind = "password" /\ pc = "rehash"
       \/ k.kind \in {"verify", "confirm"} /\ u.code # 0 /\ pc \in {"compare", "cancel"}

LEMMA Loads ==
    ASSUME TypeOK, NEW c \in Calls, CallLoadsUser(c)
    PROVE  \/ Goes(c, "idle")
           \/ \E pc \in CallPCs : LoadsTo(call[c], user[call[c].user], pc) /\ Reads(c, pc)
<1> DEFINE k == call[c]
           u == user[k.user]
           next == IF ~u.exists \/ (k.kind \in AskPassword /\ k.given # u.password) THEN "idle"
                   ELSE CASE k.kind = "login" -> IF k.reader THEN "device"
                                                 ELSE IF u.secured THEN "issue" ELSE "token"
                          [] k.kind = "request" -> IF u.secured THEN "idle" ELSE "issue"
                          [] k.kind = "disable" -> "disable"
                          [] k.kind = "password" -> IF k.guess = u.password THEN "idle"
                                                    ELSE "rehash"
                          [] OTHER -> IF u.code = 0 THEN "idle"
                                      ELSE IF u.fresh THEN "compare" ELSE "cancel"
<1>1. Reads(c, next) /\ k.pc = "user"  BY DEF CallLoadsUser, At
<1>2. Stands(k)  BY DEF TypeOK, CallSound
<1>3. k.kind \in {"login", "verify", "password", "request", "confirm", "disable"}
  BY <1>1, <1>2 DEF Stands
<1>4. next = "idle" \/ LoadsTo(k, u, next)
  <2>1. CASE ~u.exists  BY <2>1
  <2>2. CASE k.kind \in AskPassword /\ k.given # u.password  BY <2>2
  <2>3. CASE u.exists /\ ~(k.kind \in AskPassword /\ k.given # u.password)
    BY <1>3, <2>3 DEF LoadsTo, AskPassword
  <2> QED BY <2>1, <2>2, <2>3
<1> HIDE DEF next
<1>5. next \in CallPCs \cup {"idle"}  BY <1>4 DEF LoadsTo, CallPCs
<1>6. CASE next = "idle"  BY <1>1, <1>6 DEF Reads, Goes
<1>7. CASE next # "idle"  BY <1>1, <1>4, <1>5, <1>7 DEF CallPCs
<1> QED BY <1>6, <1>7

\* What a read of the account leaves of the call.
LEMMA ReadsTyped ==
    ASSUME TypeOK, NEW c \in Calls, call[c].pc # "idle", NEW pc \in CallPCs \ {"idle"},
           Reads(c, pc), Stands([call[c] EXCEPT !.pc = pc])
    PROVE  Moves(c)
<1> DEFINE k == [call[c] EXCEPT !.pc = pc, !.row = user[call[c].user]]
           moved == [call[c] EXCEPT !.pc = pc]
<1>1. call[c] \in CallRow /\ CallSound(call[c])  BY DEF TypeOK
<1>2. user[call[c].user] \in UserRow  BY <1>1 DEF TypeOK, CallSound
<1>3. k \in CallRow /\ k.pc = pc /\ k.kind = call[c].kind /\ k.user = call[c].user
      /\ k.actor = call[c].actor /\ k.reader = call[c].reader
  BY <1>1, <1>2 DEF CallRow
<1>4. Stands(moved)  OBVIOUS
<1>5. moved.pc = pc /\ moved.kind = call[c].kind  BY <1>1 DEF CallRow
<1>6. Becomes(c, k)  BY DEF Reads
<1> HIDE DEF k, moved
<1>7. Stands(k)  BY <1>3, <1>4, <1>5 DEF Stands
<1>8. CallSound(k)  BY <1>1, <1>3, <1>7 DEF CallSound
<1> QED BY <1>3, <1>6, <1>8 DEF Moves

LEMMA LoadsMoves ==
    ASSUME TypeOK, NEW c \in Calls, CallLoadsUser(c)
    PROVE  Moves(c)
<1>1. call[c] \in CallRow /\ CallSound(call[c]) /\ call[c].pc = "user"
  BY DEF TypeOK, CallLoadsUser, At
<1>2. CASE Goes(c, "idle")  BY <1>2, Ended
<1>3. CASE \E pc \in CallPCs : LoadsTo(call[c], user[call[c].user], pc) /\ Reads(c, pc)
  <2>1. PICK pc \in CallPCs : LoadsTo(call[c], user[call[c].user], pc) /\ Reads(c, pc)
    BY <1>3
  <2> DEFINE moved == [call[c] EXCEPT !.pc = pc]
  <2>2. moved.pc = pc /\ moved.kind = call[c].kind  BY <1>1 DEF CallRow
  <2> HIDE DEF moved
  <2>3. Stands(moved)  BY <1>1, <2>1, <2>2 DEF LoadsTo, Stands, CallSound
  <2>4. pc # "idle"  BY <2>1 DEF LoadsTo
  <2> QED BY <1>1, <2>1, <2>3, <2>4, ReadsTyped DEF moved
<1> QED BY <1>2, <1>3, Loads

\* Where the steps lead that only go on: the statement, and what was found.
GoesOn(c) == \/ Goes(c, "idle")
             \/ \E pc \in CallPCs \ {"idle"} :
                   Goes(c, pc) /\ Stands([call[c] EXCEPT !.pc = pc])

LEMMA GoesOnMoves ==
    ASSUME TypeOK, NEW c \in Calls, call[c].pc # "idle", GoesOn(c)
    PROVE  Moves(c)
BY Ended, Went DEF GoesOn

\* The statements of a kind that may follow one another.
LEMMA StandsAt ==
    ASSUME TypeOK, NEW c \in Calls
    PROVE  /\ call[c] \in CallRow /\ CallSound(call[c]) /\ Stands(call[c])
           /\ \A pc \in CallPCs : /\ [call[c] EXCEPT !.pc = pc].pc = pc
                                  /\ [call[c] EXCEPT !.pc = pc].kind = call[c].kind
<1>1. call[c] \in CallRow /\ CallSound(call[c]) /\ Stands(call[c])  BY DEF TypeOK, CallSound
<1> QED BY <1>1 DEF CallRow

LEMMA GoesOnTo ==
    ASSUME TypeOK, NEW c \in Calls, NEW pc \in CallPCs \ {"idle"}, Goes(c, pc),
           \/ call[c].kind = "register" /\ pc \in {"count", "token"}
           \/ call[c].kind = "login" /\ pc \in {"enter", "issue", "token", "sent"}
           \/ call[c].kind = "verify" /\ pc \in {"use", "miss", "device", "enter", "token"}
           \/ call[c].kind = "password" /\ pc = "token"
           \/ call[c].kind = "request" /\ pc = "sent"
           \/ call[c].kind = "confirm" /\ pc \in {"use", "miss", "enable"}
           \/ call[c].kind = "change" /\ pc = "update"
    PROVE  GoesOn(c)
<1> DEFINE k == [call[c] EXCEPT !.pc = pc]
<1>1. k.pc = pc /\ k.kind = call[c].kind  BY StandsAt
<1> HIDE DEF k
<1>2. Stands(k)  BY <1>1 DEF Stands
<1> QED BY <1>2 DEF GoesOn, k

Quiet(c) == \/ RegisterFinds(c) \/ DeviceResolved(c) \/ CodeCompared(c) \/ OwnersCounted(c)
            \/ CallEnds(c)

LEMMA QuietGoesOn ==
    ASSUME TypeOK, NEW c \in Calls, Quiet(c)
    PROVE  GoesOn(c) /\ Only(c) /\ call[c].pc # "idle"
<1>1. Stands(call[c])  BY StandsAt
<1>2. CASE CallEnds(c)  BY <1>2 DEF CallEnds, GoesOn
<1>3. CASE RegisterFinds(c)
  <2>1. Goes(c, "idle") \/ Goes(c, "count")  BY <1>3 DEF RegisterFinds
  <2>2. call[c].kind = "register"  BY <1>1, <1>3 DEF RegisterFinds, At, Stands
  <2>3. "count" \in CallPCs \ {"idle"}  BY DEF CallPCs
  <2>4. CASE Goes(c, "idle")  BY <1>3, <2>4 DEF GoesOn, RegisterFinds, At
  <2>5. CASE Goes(c, "count")  BY <1>3, <2>2, <2>3, <2>5, GoesOnTo DEF RegisterFinds, At
  <2> QED BY <2>1, <2>4, <2>5
<1>4. CASE DeviceResolved(c)
  <2>1. Goes(c, "idle") \/ Goes(c, "enter") \/ Goes(c, Past(call[c]))
    BY <1>4 DEF DeviceResolved
  <2>2. call[c].kind \in {"login", "verify"}  BY <1>1, <1>4 DEF DeviceResolved, At, Stands
  <2>3. {"enter", "issue", "token"} \subseteq CallPCs \ {"idle"}  BY DEF CallPCs
  <2>4. CASE Goes(c, "idle")  BY <1>4, <2>4 DEF GoesOn, DeviceResolved, At
  <2>5. CASE Goes(c, "enter")  BY <1>4, <2>2, <2>3, <2>5, GoesOnTo DEF DeviceResolved, At
  <2>6. CASE Goes(c, Past(call[c]))
    <3>1. PICK pc \in {"issue", "token"} : pc = Past(call[c]) /\ (pc = "issue" => call[c].kind = "login")
      BY DEF Past
    <3>2. Goes(c, pc)  BY <2>6, <3>1
    <3> QED BY <1>4, <2>2, <2>3, <3>1, <3>2, GoesOnTo DEF DeviceResolved, At
  <2> QED BY <2>1, <2>4, <2>5, <2>6
<1>5. CASE CodeCompared(c)
  <2>1. Goes(c, "use") \/ Goes(c, "miss")  BY <1>5 DEF CodeCompared
  <2>2. call[c].kind \in {"confirm", "verify"}  BY <1>1, <1>5 DEF CodeCompared, At, Stands
  <2>3. {"use", "miss"} \subseteq CallPCs \ {"idle"}  BY DEF CallPCs
  <2> QED BY <1>5, <2>1, <2>2, <2>3, GoesOnTo DEF CodeCompared, At
<1>6. CASE OwnersCounted(c)
  <2>1. Goes(c, "idle") \/ Goes(c, "update")  BY <1>6 DEF OwnersCounted
  <2>2. call[c].kind = "change"  BY <1>1, <1>6 DEF OwnersCounted, At, Stands
  <2>3. "update" \in CallPCs \ {"idle"}  BY DEF CallPCs
  <2>4. CASE Goes(c, "idle")  BY <1>6, <2>4 DEF GoesOn, OwnersCounted, At
  <2>5. CASE Goes(c, "update")  BY <1>6, <2>2, <2>3, <2>5, GoesOnTo DEF OwnersCounted, At
  <2> QED BY <2>1, <2>4, <2>5
<1> QED BY <1>2, <1>3, <1>4, <1>5, <1>6 DEF Quiet

\* A row of a user with some columns written.
LEMMA UserWritten ==
    ASSUME TypeOK, NEW u \in Users, NEW row \in UserRow, user' = [user EXCEPT ![u] = row]
    PROVE  user' \in [Users -> UserRow] /\ user'[u] = row
           /\ \A v \in Users \ {u} : user'[v] = user[v]
BY DEF TypeOK

LEMMA RegisterCountsMoves ==
    ASSUME TypeOK, NEW c \in Calls, RegisterCounts(c)
    PROVE  Moves(c) /\ Rest
<1> DEFINE r == IF Registered = {} THEN OWNER ELSE DEFAULT
           k == [call[c] EXCEPT !.pc = "create", !.role = r]
<1>1. call[c] \in CallRow /\ CallSound(call[c]) /\ call[c].pc = "count" /\ Stands(call[c])
  BY StandsAt DEF RegisterCounts, At
<1>2. r \in Roles  BY DEF Roles, OWNER, DEFAULT
<1>3. Becomes(c, k)  BY DEF RegisterCounts
<1> HIDE DEF r
<1>4. k \in CallRow /\ k.pc = "create" /\ k.kind = call[c].kind /\ k.user = call[c].user
      /\ k.reader = call[c].reader
  BY <1>1, <1>2 DEF CallRow, CallPCs
<1>5. call[c].kind = "register"  BY <1>1 DEF Stands
<1> HIDE DEF k
<1>6. CallSound(k)  BY <1>1, <1>4, <1>5 DEF CallSound, Stands
<1>7. Rest  BY DEF RegisterCounts, TypeOK, Rest, rows
<1> QED BY <1>3, <1>4, <1>6, <1>7 DEF Moves

LEMMA RegisterCreatesMoves ==
    ASSUME TypeOK, NEW c \in Calls, RegisterCreates(c)
    PROVE  Moves(c) /\ Rest
<1> DEFINE u == call[c].user
           row == [NoUser EXCEPT !.exists = TRUE, !.role = call[c].role]
<1>1. call[c] \in CallRow /\ CallSound(call[c]) /\ call[c].pc = "create" /\ Stands(call[c])
  BY StandsAt DEF RegisterCreates, At
<1>2. call[c].kind = "register" /\ u \in Users /\ call[c].role \in Roles
  BY <1>1 DEF Stands, CallSound, CallRow
<1>3. row \in UserRow  BY <1>2, NoRows DEF UserRow
<1>4. CASE user[u].exists
  BY <1>4, Ended DEF RegisterCreates, TypeOK, Rest
<1>5. CASE ~user[u].exists
  <2>1. user' = [user EXCEPT ![u] = row] /\ Goes(c, "token")
        /\ founders' = (IF call[c].role = OWNER THEN founders \cup {u} ELSE founders)
        /\ UNCHANGED <<device, otp, crossed>>
    BY <1>5 DEF RegisterCreates
  <2> HIDE DEF row
  <2>2. user' \in [Users -> UserRow]  BY <1>2, <1>3, <2>1, UserWritten
  <2>3. "token" \in CallPCs \ {"idle"}  BY DEF CallPCs
  <2>4. Moves(c)  BY <1>1, <1>2, <2>1, <2>3, GoesOnTo, GoesOnMoves
  <2>5. Rest  BY <1>2, <2>1, <2>2 DEF Rest, TypeOK
  <2> QED BY <2>4, <2>5
<1> QED BY <1>4, <1>5

LEMMA DeviceEnteredMoves ==
    ASSUME TypeOK, NEW c \in Calls, DeviceEntered(c)
    PROVE  Moves(c) /\ Rest
<1>1. Goes(c, "idle")  BY DEF DeviceEntered
<1>2. device' \in [Users -> {"none", "pending", "approved", "revoked"}]
  BY DEF DeviceEntered, TypeOK
<1>3. Rest  BY <1>2 DEF DeviceEntered, TypeOK, Rest
<1> QED BY <1>1, <1>3, Ended

\* Steps that write one column of the caller's user.
LEMMA PasswordWrittenMoves ==
    ASSUME TypeOK, NEW c \in Calls, PasswordWritten(c)
    PROVE  Moves(c) /\ Rest
<1> DEFINE u == call[c].user
           row == [user[u] EXCEPT !.password = call[c].guess]
<1>1. call[c] \in CallRow /\ CallSound(call[c]) /\ call[c].pc = "rehash" /\ Stands(call[c])
  BY StandsAt DEF PasswordWritten, At
<1>2. call[c].kind = "password" /\ u \in Users /\ call[c].guess \in Nat
  BY <1>1 DEF Stands, CallSound, CallRow
<1>3. user[u] \in UserRow  BY <1>2 DEF TypeOK
<1>4. row \in UserRow  BY <1>2, <1>3 DEF UserRow
<1>5. user' = [user EXCEPT ![u] = row] /\ Goes(c, "token")
      /\ UNCHANGED <<device, otp, founders, crossed>>
  BY <1>3 DEF PasswordWritten
<1> HIDE DEF row
<1>6. user' \in [Users -> UserRow]  BY <1>2, <1>4, <1>5, UserWritten
<1>7. "token" \in CallPCs \ {"idle"}  BY DEF CallPCs
<1>8. Moves(c)  BY <1>1, <1>2, <1>5, <1>7, GoesOnTo, GoesOnMoves
<1> QED BY <1>5, <1>6, <1>8 DEF Rest, TypeOK

LEMMA SecondFactorEnabledMoves ==
    ASSUME TypeOK, NEW c \in Calls, SecondFactorEnabled(c)
    PROVE  Moves(c) /\ Rest
<1> DEFINE u == call[c].user
           row == [user[u] EXCEPT !.secured = TRUE]
<1>1. CallSound(call[c]) /\ call[c].pc = "enable"  BY StandsAt DEF SecondFactorEnabled, At
<1>2. u \in Users  BY <1>1 DEF CallSound
<1>3. user[u] \in UserRow  BY <1>2 DEF TypeOK
<1>4. row \in UserRow  BY <1>3 DEF UserRow
<1>5. user' = [user EXCEPT ![u] = row] /\ Goes(c, "idle")
      /\ UNCHANGED <<device, otp, founders, crossed>>
  BY DEF SecondFactorEnabled
<1> HIDE DEF row
<1>6. user' \in [Users -> UserRow]  BY <1>2, <1>4, <1>5, UserWritten
<1> QED BY <1>5, <1>6, Ended DEF Rest, TypeOK

LEMMA RoleWrittenMoves ==
    ASSUME TypeOK, NEW c \in Calls, RoleWritten(c)
    PROVE  Moves(c) /\ Rest
<1> DEFINE u == call[c].user
           row == [user[u] EXCEPT !.role = call[c].role]
<1>1. call[c] \in CallRow /\ CallSound(call[c]) /\ call[c].pc = "update"
  BY StandsAt DEF RoleWritten, At
<1>2. u \in Users /\ call[c].role \in Roles  BY <1>1 DEF CallSound, CallRow
<1>3. user[u] \in UserRow  BY <1>2 DEF TypeOK
<1>4. row \in UserRow  BY <1>2, <1>3 DEF UserRow
<1>5. user' = [user EXCEPT ![u] = row] /\ Goes(c, "idle")
      /\ UNCHANGED <<device, otp, founders>> /\ crossed' \in BOOLEAN
  BY DEF RoleWritten
<1> HIDE DEF row
<1>6. user' \in [Users -> UserRow]  BY <1>2, <1>4, <1>5, UserWritten
<1> QED BY <1>5, <1>6, Ended DEF Rest, TypeOK

-----------------------------------------------------------------------------
(* Codes that are written                                                  *)

\* What a step that writes the code's columns leaves behind.
Wrote(u, c, columns, history) ==
    /\ user' \in [Users -> UserRow] /\ otp' \in [Users -> OtpRow]
    /\ user'[u] = columns
    /\ otp'[u].sent = history.sent /\ otp'[u].misses = history.misses
    /\ otp'[u].uses = history.uses
    /\ otp'[u].crossed <=> history.crossed \/ (Holding(u) \ {c}) # {}
    /\ \A v \in Users \ {u} : user'[v] = user[v] /\ otp'[v] = otp[v]

LEMMA CodeWrites ==
    ASSUME TypeOK, NEW c \in Calls, call[c].user \in Users, NEW columns \in UserRow,
           NEW history \in OtpRow, CodeWritten(c, columns, history)
    PROVE  Wrote(call[c].user, c, columns, history) /\ Rest
<1> DEFINE u == call[c].user
           row == [history EXCEPT !.crossed = history.crossed \/ (Holding(u) \ {c}) # {}]
<1>1. /\ user' = [user EXCEPT ![u] = columns] /\ otp' = [otp EXCEPT ![u] = row]
      /\ UNCHANGED <<device, founders, crossed>>
  BY DEF CodeWritten
<1>2. /\ row \in OtpRow /\ row.sent = history.sent /\ row.misses = history.misses
      /\ row.uses = history.uses
      /\ row.crossed <=> history.crossed \/ (Holding(u) \ {c}) # {}
  BY DEF OtpRow
<1> HIDE DEF row
<1>3. user' \in [Users -> UserRow] /\ otp' \in [Users -> OtpRow]  BY <1>1, <1>2 DEF TypeOK
<1>4. user'[u] = columns /\ otp'[u] = row  BY <1>1 DEF TypeOK
<1>5. \A v \in Users \ {u} : user'[v] = user[v] /\ otp'[v] = otp[v]  BY <1>1 DEF TypeOK
<1> QED BY <1>1, <1>2, <1>3, <1>4, <1>5 DEF Wrote, Rest, TypeOK

CodeStep(c) == \/ CodeIssued(c) \/ CodeUsed(c) \/ CodeMissed(c) \/ CodeCancelled(c)
               \/ SecondFactorDisabled(c)

\* What every code step writes, field by field.
Issues(c, columns, history) ==
    LET u == call[c].user
    IN  /\ call[c].pc = "issue" /\ Goes(c, "sent")
        /\ columns.code = otp[u].sent + 1 /\ columns.fresh /\ columns.attempts = 0
        /\ columns.secured = user[u].secured
        /\ history.sent = otp[u].sent + 1 /\ history.misses = 0 /\ history.uses = 0

Uses(c, columns, history) ==
    LET u == call[c].user
    IN  /\ call[c].pc = "use" /\ (Goes(c, "enable") \/ Goes(c, "device") \/ Goes(c, "token"))
        /\ call[c].kind = "confirm" => Goes(c, "enable")
        /\ call[c].kind # "confirm" => Goes(c, IF call[c].reader THEN "device" ELSE "token")
        /\ columns.code = 0 /\ columns.attempts = 0 /\ columns.secured = user[u].secured
        /\ history.sent = otp[u].sent /\ history.misses = otp[u].misses
        /\ history.uses = otp[u].uses + 1

Misses(c, columns, history) ==
    LET u == call[c].user
        n == call[c].row.attempts + 1
    IN  /\ call[c].pc = "miss" /\ Goes(c, "idle")
        /\ n >= OTP_MAX_ATTEMPTS => columns.code = 0 /\ columns.attempts = 0
        /\ n < OTP_MAX_ATTEMPTS => columns.code = user[u].code /\ columns.attempts = n
        /\ columns.secured = user[u].secured
        /\ history.sent = otp[u].sent /\ history.misses = otp[u].misses + 1
        /\ history.uses = otp[u].uses

Drops(c, columns, history) ==
    LET u == call[c].user
    IN  /\ call[c].pc \in {"cancel", "disable"} /\ Goes(c, "idle")
        /\ columns.code = 0
        /\ history.sent = otp[u].sent /\ history.misses = otp[u].misses
        /\ history.uses = otp[u].uses

Writes(c, columns, history) ==
    LET u == call[c].user
    IN  /\ columns.exists = user[u].exists /\ columns.role = user[u].role
        /\ columns.password = user[u].password
        /\ history.crossed = otp[u].crossed
        /\ \/ Issues(c, columns, history) \/ Uses(c, columns, history)
           \/ Misses(c, columns, history) \/ Drops(c, columns, history)

LEMMA CodeSteps ==
    ASSUME TypeOK, NEW c \in Calls, CodeStep(c)
    PROVE  /\ call[c].user \in Users
           /\ \E columns \in UserRow, history \in OtpRow :
                 CodeWritten(c, columns, history) /\ Writes(c, columns, history)
<1> DEFINE u == call[c].user
<1>1. call[c] \in CallRow /\ CallSound(call[c]) /\ Stands(call[c])  BY StandsAt
<1>2. call[c].pc # "idle"
  BY DEF CodeStep, CodeIssued, CodeUsed, CodeMissed, CodeCancelled, SecondFactorDisabled, At
<1>3. u \in Users  BY <1>1, <1>2 DEF CallSound
<1>4. user[u] \in UserRow /\ otp[u] \in OtpRow  BY <1>3 DEF TypeOK
<1> HIDE DEF u
<1>5. /\ Cleared(u) \in UserRow /\ Cleared(u).code = 0 /\ Cleared(u).attempts = 0
      /\ Cleared(u).exists = user[u].exists /\ Cleared(u).role = user[u].role
      /\ Cleared(u).password = user[u].password /\ Cleared(u).secured = user[u].secured
  BY <1>4 DEF Cleared, UserRow
<1>6. CASE CodeIssued(c)
  <2> DEFINE n == otp[u].sent + 1
             columns == [user[u] EXCEPT !.code = n, !.fresh = TRUE, !.attempts = 0]
             history == [otp[u] EXCEPT !.sent = n, !.misses = 0, !.uses = 0]
  <2>1. CodeWritten(c, columns, history) /\ call[c].pc = "issue" /\ Goes(c, "sent")
    BY <1>6 DEF CodeIssued, At, u
  <2>2. n \in Nat  BY <1>4 DEF OtpRow
  <2>3. /\ columns \in UserRow /\ columns.code = n /\ columns.fresh /\ columns.attempts = 0
        /\ columns.secured = user[u].secured /\ columns.exists = user[u].exists
        /\ columns.role = user[u].role /\ columns.password = user[u].password
    BY <1>4, <2>2 DEF UserRow
  <2>4. /\ history \in OtpRow /\ history.sent = n /\ history.misses = 0 /\ history.uses = 0
        /\ history.crossed = otp[u].crossed
    BY <1>4, <2>2 DEF OtpRow
  <2> HIDE DEF columns, history
  <2>5. Issues(c, columns, history)  BY <2>1, <2>3, <2>4 DEF Issues, u
  <2> QED BY <1>3, <2>1, <2>3, <2>4, <2>5 DEF Writes, u
<1>7. CASE CodeUsed(c)
  <2> DEFINE history == [otp[u] EXCEPT !.uses = otp[u].uses + 1]
  <2>1. CodeWritten(c, Cleared(u), history) /\ call[c].pc = "use"
        /\ Goes(c, IF call[c].kind = "confirm" THEN "enable"
                   ELSE IF call[c].reader THEN "device" ELSE "token")
    BY <1>4, <1>7 DEF CodeUsed, At, u, OtpRow
  <2>2. /\ history \in OtpRow /\ history.sent = otp[u].sent /\ history.misses = otp[u].misses
        /\ history.uses = otp[u].uses + 1 /\ history.crossed = otp[u].crossed
    BY <1>4 DEF OtpRow
  <2> HIDE DEF history
  <2>3. Uses(c, Cleared(u), history)  BY <1>5, <2>1, <2>2 DEF Uses, u
  <2> QED BY <1>3, <1>5, <2>1, <2>2, <2>3 DEF Writes, u
<1>8. CASE CodeMissed(c)
  <2> DEFINE n == call[c].row.attempts + 1
             columns == IF n >= OTP_MAX_ATTEMPTS THEN Cleared(u) ELSE [user[u] EXCEPT !.attempts = n]
             history == [otp[u] EXCEPT !.misses = otp[u].misses + 1]
  <2>1. CodeWritten(c, columns, history) /\ call[c].pc = "miss" /\ Goes(c, "idle")
    BY <1>4, <1>8 DEF CodeMissed, At, u, OtpRow
  <2>2. n \in Nat /\ OTP_MAX_ATTEMPTS \in Nat
    BY <1>1, AccountsAssumption DEF CallRow, UserRow
  <2>3. /\ columns \in UserRow /\ columns.secured = user[u].secured
        /\ columns.exists = user[u].exists
        /\ columns.role = user[u].role /\ columns.password = user[u].password
        /\ n >= OTP_MAX_ATTEMPTS => columns.code = 0 /\ columns.attempts = 0
        /\ n < OTP_MAX_ATTEMPTS => columns.code = user[u].code /\ columns.attempts = n
    <3>1. CASE n >= OTP_MAX_ATTEMPTS
      <4>1. ~(n < OTP_MAX_ATTEMPTS)  BY <2>2, <3>1
      <4> QED BY <1>5, <3>1, <4>1
    <3>2. CASE ~(n >= OTP_MAX_ATTEMPTS)  BY <1>4, <2>2, <3>2 DEF UserRow
    <3> QED BY <3>1, <3>2
  <2>4. /\ history \in OtpRow /\ history.sent = otp[u].sent
        /\ history.misses = otp[u].misses + 1
        /\ history.uses = otp[u].uses /\ history.crossed = otp[u].crossed
    BY <1>4 DEF OtpRow
  <2> HIDE DEF columns, history
  <2>5. Misses(c, columns, history)  BY <2>1, <2>3, <2>4 DEF Misses, u
  <2> QED BY <1>3, <2>1, <2>3, <2>4, <2>5 DEF Writes, u
<1>9. CASE CodeCancelled(c)
  <2>1. CodeWritten(c, Cleared(u), otp[u]) /\ call[c].pc = "cancel" /\ Goes(c, "idle")
    BY <1>9 DEF CodeCancelled, At, u
  <2>2. Drops(c, Cleared(u), otp[u])  BY <1>5, <2>1 DEF Drops, u
  <2> QED BY <1>3, <1>4, <1>5, <2>1, <2>2 DEF Writes, u
<1>10. CASE SecondFactorDisabled(c)
  <2> DEFINE columns == [user[u] EXCEPT !.secured = FALSE, !.code = 0, !.fresh = FALSE]
  <2>1. CodeWritten(c, columns, otp[u]) /\ call[c].pc = "disable" /\ Goes(c, "idle")
    BY <1>10 DEF SecondFactorDisabled, At, u
  <2>2. /\ columns \in UserRow /\ columns.code = 0 /\ columns.exists = user[u].exists
        /\ columns.role = user[u].role /\ columns.password = user[u].password
    BY <1>4 DEF UserRow
  <2> HIDE DEF columns
  <2>3. Drops(c, columns, otp[u])  BY <2>1, <2>2 DEF Drops, u
  <2> QED BY <1>3, <1>4, <2>1, <2>2, <2>3 DEF Writes, u
<1> QED BY <1>6, <1>7, <1>8, <1>9, <1>10 DEF CodeStep

LEMMA CodeStepMoves ==
    ASSUME TypeOK, NEW c \in Calls, CodeStep(c)
    PROVE  Moves(c) /\ Rest /\ Watch
<1>1. call[c].user \in Users  BY CodeSteps
<1>2. PICK columns \in UserRow, history \in OtpRow :
         CodeWritten(c, columns, history) /\ Writes(c, columns, history)
  BY CodeSteps
<1>3. Rest  BY <1>1, <1>2, CodeWrites
<1>4. Watch  BY <1>2 DEF CodeWritten
<1>5. call[c].pc # "idle" /\ Stands(call[c])  BY <1>2, StandsAt DEF Writes, Issues, Uses, Misses, Drops
<1>6. CASE Goes(c, "idle")  BY <1>3, <1>4, <1>6, Ended
<1>7. CASE Issues(c, columns, history)
  <2>1. Goes(c, "sent") /\ call[c].kind \in {"login", "request"}
    BY <1>5, <1>7 DEF Issues, Stands
  <2>2. "sent" \in CallPCs \ {"idle"}  BY DEF CallPCs
  <2> QED BY <1>3, <1>4, <1>5, <2>1, <2>2, GoesOnTo, GoesOnMoves
<1>8. CASE Uses(c, columns, history)
  <2>1. call[c].kind \in {"verify", "confirm"}  BY <1>5, <1>8 DEF Uses, Stands
  <2>2. {"enable", "device", "token"} \subseteq CallPCs \ {"idle"}  BY DEF CallPCs
  <2>3. CASE call[c].kind = "confirm"
    <3>1. Goes(c, "enable")  BY <1>8, <2>3 DEF Uses
    <3> QED BY <1>3, <1>4, <1>5, <2>2, <2>3, <3>1, GoesOnTo, GoesOnMoves
  <2>4. CASE call[c].kind = "verify"
    <3>1. Goes(c, "device") \/ Goes(c, "token")  BY <1>8, <2>4 DEF Uses
    <3> QED BY <1>3, <1>4, <1>5, <2>2, <2>4, <3>1, GoesOnTo, GoesOnMoves
  <2> QED BY <2>1, <2>3, <2>4
<1> QED BY <1>2, <1>6, <1>7, <1>8 DEF Writes, Misses, Drops

-----------------------------------------------------------------------------
(* The steps of a change of role, and every step together                  *)

LEMMA GuardReadsMoves ==
    ASSUME TypeOK, NEW c \in Calls, GuardReads(c)
    PROVE  Moves(c) /\ Rest
<1> DEFINE actor == user[call[c].actor]
           g == IF actor.role = OWNER THEN 1 ELSE 0
           k == [call[c] EXCEPT !.pc = "target", !.guess = g]
<1>1. call[c] \in CallRow /\ CallSound(call[c]) /\ Stands(call[c]) /\ call[c].pc = "guard"
  BY StandsAt DEF GuardReads, At
<1>2. Goes(c, "idle") \/ Becomes(c, k)  BY DEF GuardReads
<1>3. g \in Nat  OBVIOUS
<1> HIDE DEF g
<1>4. /\ k \in CallRow /\ k.pc = "target" /\ k.kind = call[c].kind /\ k.user = call[c].user
      /\ k.actor = call[c].actor /\ k.reader = call[c].reader
  BY <1>1, <1>3 DEF CallRow, CallPCs
<1>5. call[c].kind = "change"  BY <1>1 DEF Stands
<1> HIDE DEF k
<1>6. CallSound(k)  BY <1>1, <1>4, <1>5 DEF CallSound, Stands
<1>7. Rest  BY RestStays DEF GuardReads, Only
<1> QED BY <1>2, <1>4, <1>6, <1>7, Ended DEF Moves

\* Where the target's row leads a change.
TargetsTo(k, target, pc) ==
    /\ target.exists
    /\ OWNER \in {target.role, k.role} => k.guess = 1
    /\ \/ pc = "owners" /\ target.role = OWNER /\ k.role # OWNER
       \/ pc = "update" /\ ~(target.role = OWNER /\ k.role # OWNER)

LEMMA Targets ==
    ASSUME TypeOK, NEW c \in Calls, TargetLoaded(c)
    PROVE  \/ Goes(c, "idle")
           \/ \E pc \in {"owners", "update"} :
                 TargetsTo(call[c], user[call[c].user], pc) /\ Reads(c, pc)
<1> DEFINE k      == call[c]
           target == user[k.user]
           next   == IF ~target.exists THEN "idle"
                     ELSE IF OWNER \in {target.role, k.role} /\ ~IsOwner(c) THEN "idle"
                     ELSE IF target.role = OWNER /\ k.role # OWNER THEN "owners"
                     ELSE IF target.role = k.role THEN "idle" ELSE "update"
<1>1. Reads(c, next)  BY DEF TargetLoaded
<1>2. next = "idle" \/ (next \in {"owners", "update"} /\ TargetsTo(k, target, next))
  BY DEF TargetsTo, IsOwner
<1> HIDE DEF next
<1>3. CASE next = "idle"  BY <1>1, <1>3 DEF Reads, Goes
<1>4. CASE next # "idle"  BY <1>1, <1>2, <1>4
<1> QED BY <1>3, <1>4

LEMMA TargetLoadedMoves ==
    ASSUME TypeOK, NEW c \in Calls, TargetLoaded(c)
    PROVE  Moves(c) /\ Rest
<1>1. Rest  BY RestStays DEF TargetLoaded, Only
<1>2. call[c].pc = "target" /\ Stands(call[c])  BY StandsAt DEF TargetLoaded, At
<1>3. CASE Goes(c, "idle")  BY <1>1, <1>3, Ended
<1>4. CASE \E pc \in {"owners", "update"} :
              TargetsTo(call[c], user[call[c].user], pc) /\ Reads(c, pc)
  <2>1. PICK pc \in {"owners", "update"} : Reads(c, pc)  BY <1>4
  <2>2. pc \in CallPCs \ {"idle"}  BY DEF CallPCs
  <2> DEFINE moved == [call[c] EXCEPT !.pc = pc]
  <2>3. moved.pc = pc /\ moved.kind = call[c].kind  BY <2>2, StandsAt
  <2> HIDE DEF moved
  <2>4. Stands(moved)  BY <1>2, <2>3 DEF Stands
  <2>5. Moves(c)  BY <1>2, <2>1, <2>2, <2>4, ReadsTyped DEF moved
  <2> QED BY <1>1, <2>5
<1> QED BY <1>3, <1>4, Targets

Arriving(c) == \/ RegisterArrives(c) \/ LoginArrives(c) \/ PasswordArrives(c)
               \/ SecondFactorArrives(c) \/ ChangeArrives(c)

LEMMA CallSteps ==
    ASSUME NEW c \in Calls, CallStep(c)
    PROVE  \/ Arriving(c) \/ Quiet(c) \/ CodeStep(c) \/ CallLoadsUser(c) \/ GuardReads(c)
           \/ TargetLoaded(c) \/ RegisterCounts(c) \/ RegisterCreates(c) \/ DeviceEntered(c)
           \/ PasswordWritten(c) \/ SecondFactorEnabled(c) \/ RoleWritten(c)
BY DEF CallStep, Arriving, Quiet, CodeStep

\* Every step of a call moves it and keeps the types.
LEMMA CallStepMoves ==
    ASSUME TypeOK, NEW c \in Calls, CallStep(c)
    PROVE  Moves(c) /\ Rest /\ Watch
<1>1. CASE Arriving(c)
  <2>1. PICK k \in CallRow : CallSound(k) /\ Arrives(c, k)
    BY <1>1, ArrivesTyped DEF Arriving, ArrivesSome
  <2>2. Rest /\ Watch  BY <2>1, RestStays DEF Arrives
  <2> QED BY <2>1, <2>2, ArrivesMoves
<1>2. CASE Quiet(c)  BY <1>2, QuietGoesOn, GoesOnMoves, RestStays DEF Only
<1>3. CASE CodeStep(c)  BY <1>3, CodeStepMoves
<1>4. CASE CallLoadsUser(c)  BY <1>4, LoadsMoves, RestStays DEF CallLoadsUser, Only
<1>5. CASE GuardReads(c)  BY <1>5, GuardReadsMoves DEF GuardReads, Only
<1>6. CASE TargetLoaded(c)  BY <1>6, TargetLoadedMoves DEF TargetLoaded, Only
<1>7. CASE RegisterCounts(c)  BY <1>7, RegisterCountsMoves DEF RegisterCounts
<1>8. CASE RegisterCreates(c)  BY <1>8, RegisterCreatesMoves DEF RegisterCreates
<1>9. CASE DeviceEntered(c)  BY <1>9, DeviceEnteredMoves DEF DeviceEntered
<1>10. CASE PasswordWritten(c)  BY <1>10, PasswordWrittenMoves DEF PasswordWritten
<1>11. CASE SecondFactorEnabled(c)  BY <1>11, SecondFactorEnabledMoves DEF SecondFactorEnabled
<1>12. CASE RoleWritten(c)  BY <1>12, RoleWrittenMoves DEF RoleWritten
<1> QED BY <1>1, <1>2, <1>3, <1>4, <1>5, <1>6, <1>7, <1>8, <1>9, <1>10, <1>11, <1>12, CallSteps

\* What happens to rows without a call.
Outside == \E u \in Users : \/ CodeExpires(u)
                            \/ \E status \in {"approved", "revoked"} : DeviceDecided(u, status)

LEMMA OutsideKeeps ==
    ASSUME TypeOK, Outside
    PROVE  /\ TypeOK' /\ Watch /\ UNCHANGED <<call, otp, founders, crossed>>
           /\ \A u \in Users : user'[u] = user[u] \/ user'[u] = [user[u] EXCEPT !.fresh = FALSE]
<1>1. PICK u \in Users : \/ CodeExpires(u)
                         \/ \E status \in {"approved", "revoked"} : DeviceDecided(u, status)
  BY DEF Outside
<1>2. UNCHANGED <<call, otp, founders, crossed>> /\ Watch
  BY <1>1 DEF CodeExpires, DeviceDecided, Changes
<1>3. bars' \in [Calls -> SUBSET BarNames]  BY <1>2, WatchTyped DEF TypeOK
<1>4. CASE CodeExpires(u)
  <2> DEFINE row == [user[u] EXCEPT !.fresh = FALSE]
  <2>1. user' = [user EXCEPT ![u] = row] /\ device' = device  BY <1>4 DEF CodeExpires
  <2>2. row \in UserRow  BY DEF TypeOK, UserRow
  <2>3. user' \in [Users -> UserRow] /\ user'[u] = row
        /\ \A v \in Users \ {u} : user'[v] = user[v]
    BY <2>1, <2>2, UserWritten
  <2> QED BY <1>2, <1>3, <2>1, <2>3 DEF TypeOK
<1>5. CASE \E status \in {"approved", "revoked"} : DeviceDecided(u, status)
  <2>1. PICK status \in {"approved", "revoked"} : DeviceDecided(u, status)  BY <1>5
  <2>2. user' = user /\ device' = [device EXCEPT ![u] = status]  BY <2>1 DEF DeviceDecided
  <2>3. device' \in [Users -> {"none", "pending", "approved", "revoked"}]  BY <2>2 DEF TypeOK
  <2> QED BY <1>2, <1>3, <2>2, <2>3 DEF TypeOK
<1> QED BY <1>1, <1>4, <1>5

\* The rows a behaviour starts from.
LEMMA RowsInit ==
    ASSUME Init, NEW u \in Users
    PROVE  /\ case \in Cases /\ user[u] \in UserRow /\ user[u].code = 0
           /\ user[u].exists <=> u \in DOMAIN case.users
           /\ u \in DOMAIN case.users => user[u].role = case.users[u]
           /\ u \notin DOMAIN case.users => user[u].role = DEFAULT
<1>1. case \in Cases  BY DEF Init
<1>2. CASE u \in DOMAIN case.users
  <2> DEFINE b == u \in case.secured
  <2>1. b \in BOOLEAN /\ case.users[u] \in Roles  BY <1>1, <1>2, CasesAssumption
  <2>2. user[u] = [NoUser EXCEPT !.exists = TRUE, !.role = case.users[u], !.secured = b]
    BY <1>2 DEF Init
  <2>3. NoUser \in UserRow /\ NoUser.code = 0  BY NoRows DEF NoUser
  <2> HIDE DEF b
  <2> QED BY <1>1, <1>2, <2>1, <2>2, <2>3 DEF UserRow
<1>3. CASE u \notin DOMAIN case.users
  <2>1. user[u] = NoUser  BY <1>3 DEF Init
  <2> QED BY <1>1, <1>3, <2>1, NoRows DEF NoUser
<1> QED BY <1>2, <1>3

LEMMA TypeInit == Init => TypeOK
<1> SUFFICES ASSUME Init PROVE TypeOK  OBVIOUS
<1>1. \A u \in Users : user[u] \in UserRow  BY RowsInit
<1>2. user \in [Users -> UserRow]
  <2>1. user = [u \in Users |-> user[u]]  BY DEF Init
  <2> QED BY <1>1, <2>1
<1>3. call \in [Calls -> CallRow] /\ \A c \in Calls : CallSound(call[c])
  BY NoRows DEF Init
<1>4. otp \in [Users -> OtpRow]  BY DEF Init, OtpRow
<1> QED BY <1>2, <1>3, <1>4 DEF Init, TypeOK

LEMMA TypeStep == TypeOK /\ [Next]_vars => TypeOK'
<1> SUFFICES ASSUME TypeOK, [Next]_vars PROVE TypeOK'  OBVIOUS
<1>1. ASSUME NEW c \in Calls, CallStep(c) PROVE TypeOK'
  BY <1>1, CallStepMoves, StepTyped
<1>2. CASE Outside  BY <1>2, OutsideKeeps
<1>3. CASE UNCHANGED vars  BY <1>3 DEF vars, rows, bounds, TypeOK
<1> QED BY <1>1, <1>2, <1>3 DEF Next, Outside

\* Every user, call and code keeps its type, and every call stands at a statement of its kind.
THEOREM Typed == Spec => []TypeOK
BY TypeInit, TypeStep, PTL DEF Spec

-----------------------------------------------------------------------------
(* What has been shown to a call                                           *)

\* What each bar says.
Means(c) ==
    LET k == call[c]
        u == user[k.user]
        B == BarsOf(c)
    IN  /\ B \subseteq BarNames
        /\ "password" \in B => k.kind \in AskPassword /\ k.given # u.password
        /\ "second factor" \in B => k.kind = "login" /\ u.secured
        /\ "code" \in B => /\ k.kind \in {"verify", "confirm"}
                           /\ ~(k.guess = u.code /\ u.code # 0)
        /\ "device" \in B => k.reader /\ device[k.user] # "approved"
        /\ "permission" \in B => k.kind = "change" /\ user[k.actor].role \notin Managers
        /\ "owners" \in B => /\ k.kind = "change" /\ user[k.actor].role # OWNER
                             /\ OWNER \in {k.role, u.role}
        /\ "last owner" \in B => k.kind = "change" /\ Owners = {k.user} /\ k.role # OWNER

LEMMA Meaning == ASSUME NEW c \in Calls PROVE Means(c) /\ Means(c)'
<1>1. Means(c)  BY DEF Means, BarsOf
<1>2. Means(c)'  BY DEF Means, BarsOf
<1> QED BY <1>1, <1>2

\* The bars that a call has got past, by the statement it runs next.
Shown(c) ==
    LET k == call[c]
    IN  /\ k.kind \in AskPassword /\ k.pc # "user" => "password" \notin bars[c]
        /\ k.kind = "login" /\ k.pc # "user" /\ (~k.row.secured \/ k.pc = "token")
              => "second factor" \notin bars[c]
        /\ k.pc \in {"compare", "use", "miss"} /\ k.guess = k.row.code => "code" \notin bars[c]
        /\ k.pc = "use" => k.guess = k.row.code
        /\ k.kind \in {"verify", "confirm"} /\ k.pc \in {"device", "enter", "token", "enable"}
              => "code" \notin bars[c]
        /\ k.reader /\ k.pc = "token" => "device" \notin bars[c]
        /\ k.kind = "change" /\ k.pc # "guard" => /\ "permission" \notin bars[c]
                                                  /\ k.guess = 1 => "owners" \notin bars[c]
        /\ k.pc \in {"owners", "update"} => "owners" \notin bars[c]
        /\ k.pc = "update" => "last owner" \notin bars[c]

BarsInv == \A c \in Calls : bars[c] \subseteq BarsOf(c) /\ Shown(c)

LEMMA Watched ==
    ASSUME TypeOK, Watch, NEW c \in Calls
    PROVE  /\ call'[c].pc # "idle" => bars'[c] \subseteq BarsOf(c)'
           /\ call[c].pc # "idle" => bars'[c] \subseteq bars[c]
           /\ call'[c].pc = "idle" => bars'[c] = {}
BY DEF Watch, At

LEMMA BarsStand ==
    ASSUME TypeOK, Watch, NEW c \in Calls
    PROVE  bars'[c] \subseteq BarsOf(c)'
BY Watched

\* A call that is not moved keeps what it has been shown.
LEMMA ShownStays ==
    ASSUME TypeOK, Watch, NEW c \in Calls, Shown(c), call'[c] = call[c]
    PROVE  Shown(c)'
<1>1. CASE call[c].pc = "idle"
  <2>1. bars'[c] = {} /\ call'[c].pc = "idle"  BY <1>1, Watched
  <2> QED BY <2>1 DEF Shown
<1>2. CASE call[c].pc # "idle"
  <2>1. bars'[c] \subseteq bars[c]  BY <1>2, Watched
  <2> QED BY <2>1 DEF Shown
<1> QED BY <1>1, <1>2

LEMMA ShownAtEnd ==
    ASSUME TypeOK, Watch, NEW c \in Calls, Goes(c, "idle")
    PROVE  Shown(c)'
<1>1. call'[c] = NoCall  BY Ended DEF TypeOK
<1>2. call'[c].pc = "idle"  BY <1>1 DEF NoCall
<1>3. bars'[c] = {}  BY <1>2, Watched
<1>4. \A b : b \notin bars'[c]  BY <1>3
<1> QED BY <1>2, <1>4 DEF Shown

\* The fields of a call that goes on, and of one that has read the account.
Follows(k, c, pc) == /\ k.pc = pc /\ k.kind = call[c].kind /\ k.user = call[c].user
                     /\ k.actor = call[c].actor /\ k.role = call[c].role
                     /\ k.given = call[c].given /\ k.guess = call[c].guess
                     /\ k.reader = call[c].reader

LEMMA GoesFields ==
    ASSUME TypeOK, NEW c \in Calls, NEW pc \in CallPCs \ {"idle"}, Goes(c, pc)
    PROVE  Follows(call'[c], c, pc) /\ call'[c].row = call[c].row
<1>1. call[c] \in CallRow  BY DEF TypeOK
<1>2. call'[c] = [call[c] EXCEPT !.pc = pc]  BY DEF Goes, Becomes, TypeOK
<1> QED BY <1>1, <1>2 DEF CallRow, Follows

LEMMA ReadsFields ==
    ASSUME TypeOK, NEW c \in Calls, NEW pc \in CallPCs \ {"idle"}, Reads(c, pc)
    PROVE  Follows(call'[c], c, pc) /\ call'[c].row = user[call[c].user]
<1>1. call[c] \in CallRow  BY DEF TypeOK
<1>2. call'[c] = [call[c] EXCEPT !.pc = pc, !.row = user[call[c].user]]
  BY DEF Reads, Becomes, TypeOK
<1> QED BY <1>1, <1>2 DEF CallRow, Follows

\* The steps that take a call past a bar.
LEMMA ShownByArrival ==
    ASSUME TypeOK, NEW c \in Calls, Arriving(c)
    PROVE  Shown(c)'
<1>1. PICK k \in CallRow : Begins(k) /\ Arrives(c, k)
  BY ArrivesTyped DEF Arriving, ArrivesSome
<1>2. call'[c] = k  BY <1>1 DEF Arrives, Becomes, TypeOK
<1> QED BY <1>1, <1>2 DEF Begins, Shown, AskPassword

LEMMA ShownByLoading ==
    ASSUME TypeOK, NEW c \in Calls, Shown(c), CallLoadsUser(c)
    PROVE  Shown(c)'
<1>1. Watch /\ user' = user /\ call[c].pc = "user"
  BY DEF CallLoadsUser, Only, rows, At
<1>2. CASE Goes(c, "idle")  BY <1>1, <1>2, ShownAtEnd
<1>3. CASE \E pc \in CallPCs : LoadsTo(call[c], user[call[c].user], pc) /\ Reads(c, pc)
  <2>1. PICK pc \in CallPCs : LoadsTo(call[c], user[call[c].user], pc) /\ Reads(c, pc)
    BY <1>3
  <2>2. pc # "idle"  BY <2>1 DEF LoadsTo
  <2>3. Follows(call'[c], c, pc) /\ call'[c].row = user[call[c].user]
    BY <2>1, <2>2, ReadsFields
  <2>4. Means(c)' /\ bars'[c] \subseteq BarsOf(c)'  BY <1>1, Meaning, BarsStand
  <2>5. call'[c].kind \in AskPassword => "password" \notin bars'[c]
    BY <1>1, <2>1, <2>3, <2>4 DEF Means, Follows, LoadsTo
  <2>6. ~call'[c].row.secured => "second factor" \notin bars'[c]
    BY <1>1, <2>3, <2>4 DEF Means, Follows
  <2>7. call'[c].guess = call'[c].row.code /\ pc = "compare" => "code" \notin bars'[c]
    BY <1>1, <2>1, <2>3, <2>4 DEF Means, Follows, LoadsTo
  <2>8. pc = "token" => ~call'[c].reader /\ ~call'[c].row.secured /\ call'[c].kind = "login"
    BY <2>1, <2>3 DEF LoadsTo, Follows
  <2>9. call'[c].kind \in {"verify", "confirm"} => pc \in {"compare", "cancel"}
    BY <2>1, <2>3 DEF LoadsTo, Follows
  <2>10. pc \notin {"use", "miss", "owners", "update", "guard"} /\ call'[c].kind # "change"
    BY <2>1, <2>3 DEF LoadsTo, Follows
  <2>11. call'[c].pc = pc  BY <2>3 DEF Follows
  <2> QED BY <2>5, <2>6, <2>7, <2>8, <2>9, <2>10, <2>11 DEF Shown
<1> QED BY <1>2, <1>3, Loads

LEMMA ShownByDevice ==
    ASSUME TypeOK, NEW c \in Calls, Shown(c), DeviceResolved(c)
    PROVE  Shown(c)'
<1>1. Watch /\ UNCHANGED <<user, device>> /\ call[c].pc = "device" /\ Stands(call[c])
  BY StandsAt DEF DeviceResolved, Only, rows, At
<1>2. call[c].kind \in {"login", "verify"}  BY <1>1 DEF Stands
<1>3. bars'[c] \subseteq bars[c] /\ bars'[c] \subseteq BarsOf(c)' /\ Means(c)'
  BY <1>1, Meaning, Watched, BarsStand
<1>4. CASE Goes(c, "idle")  BY <1>1, <1>4, ShownAtEnd
<1>5. CASE Goes(c, "enter")
  <2>1. "enter" \in CallPCs \ {"idle"}  BY DEF CallPCs
  <2>2. Follows(call'[c], c, "enter") /\ call'[c].row = call[c].row  BY <1>5, <2>1, GoesFields
  <2> QED BY <1>1, <1>2, <1>3, <2>2 DEF Shown, Follows
<1>6. CASE device[call[c].user] = "approved" /\ Goes(c, Past(call[c]))
  <2>1. PICK pc \in {"issue", "token"} : pc = Past(call[c])  BY DEF Past
  <2>2. pc \in CallPCs \ {"idle"}  BY DEF CallPCs
  <2>3. Follows(call'[c], c, pc) /\ call'[c].row = call[c].row  BY <1>6, <2>1, <2>2, GoesFields
  <2>4. "device" \notin bars'[c]  BY <1>1, <1>3, <1>6, <2>3 DEF Means, Follows
  <2>5. pc = "token" /\ call[c].kind = "login" => ~call[c].row.secured  BY <2>1 DEF Past
  <2> QED BY <1>1, <1>2, <1>3, <2>3, <2>4, <2>5 DEF Shown, Follows, AskPassword
<1>7. Goes(c, "idle") \/ Goes(c, "enter")
      \/ (device[call[c].user] = "approved" /\ Goes(c, Past(call[c])))
  BY DEF DeviceResolved
<1> QED BY <1>4, <1>5, <1>6, <1>7

LEMMA ShownByRegistration ==
    ASSUME TypeOK, NEW c \in Calls, RegisterFinds(c) \/ RegisterCounts(c) \/ RegisterCreates(c)
    PROVE  Shown(c)'
<1>1. Watch /\ call[c].pc \in {"find", "count", "create"} /\ Stands(call[c])
      /\ call[c] \in CallRow /\ CallSound(call[c])
  BY StandsAt DEF RegisterFinds, RegisterCounts, RegisterCreates, Only, At
<1>2. call[c].kind = "register" /\ ~call[c].reader  BY <1>1 DEF Stands, CallSound
<1>3. {"count", "token"} \subseteq CallPCs \ {"idle"}  BY DEF CallPCs
<1>4. CASE Goes(c, "idle")  BY <1>1, <1>4, ShownAtEnd
<1>5. CASE Goes(c, "count") \/ Goes(c, "token")
  <2>1. PICK pc \in {"count", "token"} : Follows(call'[c], c, pc)  BY <1>3, <1>5, GoesFields
  <2> QED BY <1>2, <2>1 DEF Shown, Follows, AskPassword
<1>6. CASE RegisterCounts(c)
  <2> DEFINE r == IF Registered = {} THEN OWNER ELSE DEFAULT
  <2>1. call'[c] = [call[c] EXCEPT !.pc = "create", !.role = r]
    BY <1>6 DEF RegisterCounts, Becomes, TypeOK
  <2> HIDE DEF r
  <2>2. call'[c].pc = "create" /\ call'[c].kind = "register" /\ ~call'[c].reader
    BY <1>1, <1>2, <2>1 DEF CallRow
  <2> QED BY <2>2 DEF Shown, AskPassword
<1> QED BY <1>4, <1>5, <1>6 DEF RegisterFinds, RegisterCreates

LEMMA ShownByPassword ==
    ASSUME TypeOK, NEW c \in Calls, Shown(c), PasswordWritten(c)
    PROVE  Shown(c)'
<1>1. Watch /\ Goes(c, "token") /\ call[c].pc = "rehash" /\ Stands(call[c]) /\ CallSound(call[c])
  BY StandsAt DEF PasswordWritten, At
<1>2. call[c].kind = "password" /\ ~call[c].reader  BY <1>1 DEF Stands, CallSound
<1>3. "token" \in CallPCs \ {"idle"}  BY DEF CallPCs
<1>4. Follows(call'[c], c, "token")  BY <1>1, <1>3, GoesFields
<1>5. bars'[c] \subseteq bars[c]  BY <1>1, Watched
<1> QED BY <1>1, <1>2, <1>4, <1>5 DEF Shown, Follows, AskPassword

LEMMA ShownByComparison ==
    ASSUME TypeOK, NEW c \in Calls, Shown(c), CodeCompared(c)
    PROVE  Shown(c)'
<1>1. Watch /\ call[c].pc = "compare" /\ Stands(call[c])
  BY StandsAt DEF CodeCompared, Only, At
<1>2. call[c].kind \in {"verify", "confirm"}  BY <1>1 DEF Stands
<1>3. PICK pc \in {"use", "miss"} : Goes(c, pc) /\ (pc = "use" => call[c].guess = call[c].row.code)
  BY DEF CodeCompared
<1>4. pc \in CallPCs \ {"idle"}  BY DEF CallPCs
<1>5. Follows(call'[c], c, pc) /\ call'[c].row = call[c].row  BY <1>3, <1>4, GoesFields
<1>6. bars'[c] \subseteq bars[c]  BY <1>1, Watched
<1> QED BY <1>1, <1>2, <1>3, <1>5, <1>6 DEF Shown, Follows, AskPassword

LEMMA ShownByCode ==
    ASSUME TypeOK, NEW c \in Calls, Shown(c), CodeStep(c)
    PROVE  Shown(c)'
<1>1. PICK columns \in UserRow, history \in OtpRow : Writes(c, columns, history)
  BY CodeSteps
<1>2. Watch /\ Stands(call[c]) /\ call[c] \in CallRow /\ CallSound(call[c])
  BY CodeStepMoves, StandsAt
<1>3. {"enable", "device", "token", "sent"} \subseteq CallPCs \ {"idle"}  BY DEF CallPCs
<1>4. CASE Goes(c, "idle")  BY <1>2, <1>4, ShownAtEnd
<1>5. CASE Issues(c, columns, history)
  <2>1. call[c].pc = "issue" /\ Goes(c, "sent")  BY <1>5 DEF Issues
  <2>2. call[c].kind \in {"login", "request"}  BY <1>2, <2>1 DEF Stands
  <2>3. Follows(call'[c], c, "sent") /\ call'[c].row = call[c].row  BY <1>3, <2>1, GoesFields
  <2>4. bars'[c] \subseteq bars[c]  BY <1>2, <2>1, Watched
  <2> QED BY <2>1, <2>2, <2>3, <2>4 DEF Shown, Follows, AskPassword
<1>6. CASE Uses(c, columns, history)
  <2>1. call[c].pc = "use"  BY <1>6 DEF Uses
  <2>2. call[c].kind \in {"verify", "confirm"}  BY <1>2, <2>1 DEF Stands
  <2>3. PICK pc \in {"enable", "device", "token"} :
           Goes(c, pc) /\ (pc = "token" => ~call[c].reader)
    BY <1>6 DEF Uses
  <2>4. Follows(call'[c], c, pc) /\ call'[c].row = call[c].row  BY <1>3, <2>3, GoesFields
  <2>5. bars'[c] \subseteq bars[c] /\ "code" \notin bars[c]  BY <1>2, <2>1, Watched DEF Shown
  <2> QED BY <2>1, <2>2, <2>3, <2>4, <2>5 DEF Shown, Follows, AskPassword
<1> QED BY <1>1, <1>4, <1>5, <1>6 DEF Writes, Misses, Drops

LEMMA ShownByGuard ==
    ASSUME TypeOK, NEW c \in Calls, Shown(c), GuardReads(c)
    PROVE  Shown(c)'
<1> DEFINE actor == user[call[c].actor]
           g == IF actor.role = OWNER THEN 1 ELSE 0
           k == [call[c] EXCEPT !.pc = "target", !.guess = g]
<1>1. Watch /\ user' = user /\ call[c].pc = "guard" /\ Stands(call[c]) /\ call[c] \in CallRow
  BY StandsAt DEF GuardReads, Only, rows, At
<1>2. CASE Goes(c, "idle")  BY <1>1, <1>2, ShownAtEnd
<1>3. CASE actor.role \in Managers /\ Becomes(c, k)
  <2>1. call'[c] = k  BY <1>3 DEF Becomes, TypeOK
  <2>2. g = 1 => actor.role = OWNER  OBVIOUS
  <2> HIDE DEF g
  <2>3. /\ call'[c].pc = "target" /\ call'[c].kind = call[c].kind /\ call'[c].guess = g
        /\ call'[c].actor = call[c].actor
    BY <1>1, <2>1 DEF CallRow
  <2>4. Means(c)' /\ bars'[c] \subseteq BarsOf(c)'  BY <1>1, Meaning, BarsStand
  <2>5. "permission" \notin bars'[c] /\ (g = 1 => "owners" \notin bars'[c])
    BY <1>1, <1>3, <2>2, <2>3, <2>4 DEF Means
  <2>6. call[c].kind = "change"  BY <1>1 DEF Stands
  <2> QED BY <2>3, <2>5, <2>6 DEF Shown, AskPassword
<1> QED BY <1>2, <1>3 DEF GuardReads

LEMMA ShownByTarget ==
    ASSUME TypeOK, NEW c \in Calls, Shown(c), TargetLoaded(c)
    PROVE  Shown(c)'
<1>1. Watch /\ user' = user /\ call[c].pc = "target" /\ Stands(call[c])
  BY StandsAt DEF TargetLoaded, Only, rows, At
<1>2. call[c].kind = "change"  BY <1>1 DEF Stands
<1>3. CASE Goes(c, "idle")  BY <1>1, <1>3, ShownAtEnd
<1>4. CASE \E pc \in {"owners", "update"} :
              TargetsTo(call[c], user[call[c].user], pc) /\ Reads(c, pc)
  <2>1. PICK pc \in {"owners", "update"} :
           TargetsTo(call[c], user[call[c].user], pc) /\ Reads(c, pc)
    BY <1>4
  <2>2. pc \in CallPCs \ {"idle"}  BY DEF CallPCs
  <2>3. Follows(call'[c], c, pc)  BY <2>1, <2>2, ReadsFields
  <2>4. Means(c)' /\ bars'[c] \subseteq BarsOf(c)' /\ bars'[c] \subseteq bars[c]
    BY <1>1, Meaning, Watched, BarsStand
  <2>5. "owners" \notin bars'[c]
    BY <1>1, <1>2, <2>1, <2>3, <2>4 DEF Means, Follows, TargetsTo, Shown
  <2>6. pc = "update" => "last owner" \notin bars'[c]
    BY <1>1, <2>1, <2>3, <2>4 DEF Means, Follows, TargetsTo, Owners, Registered
  <2>7. "permission" \notin bars'[c]  BY <1>1, <1>2, <2>4 DEF Shown
  <2> QED BY <1>2, <2>3, <2>5, <2>6, <2>7 DEF Shown, Follows, AskPassword
<1> QED BY <1>3, <1>4, Targets

LEMMA FewUsers == IsFiniteSet(Owners) /\ IsFiniteSet(Registered)
BY AccountsAssumption, FS_Subset DEF Owners, Registered

LEMMA ShownByCounting ==
    ASSUME TypeOK, NEW c \in Calls, Shown(c), OwnersCounted(c)
    PROVE  Shown(c)'
<1>1. Watch /\ user' = user /\ call[c].pc = "owners" /\ Stands(call[c])
  BY StandsAt DEF OwnersCounted, Only, rows, At
<1>2. call[c].kind = "change"  BY <1>1 DEF Stands
<1>3. CASE Goes(c, "idle")  BY <1>1, <1>3, ShownAtEnd
<1>4. CASE ~(Cardinality(Owners) <= 1) /\ Goes(c, "update")
  <2>1. "update" \in CallPCs \ {"idle"}  BY DEF CallPCs
  <2>2. Follows(call'[c], c, "update")  BY <1>4, <2>1, GoesFields
  <2>3. Means(c)' /\ bars'[c] \subseteq BarsOf(c)' /\ bars'[c] \subseteq bars[c]
    BY <1>1, Meaning, Watched, BarsStand
  <2>4. Owners # {call[c].user}
    <3>1. Cardinality({call[c].user}) = 1  BY FS_Singleton
    <3> QED BY <1>4, <3>1
  <2>5. Owners' = Owners  BY <1>1 DEF Owners, Registered
  <2>6. "last owner" \notin bars'[c]  BY <2>2, <2>3, <2>4, <2>5 DEF Means, Follows
  <2> QED BY <1>1, <1>2, <2>2, <2>3, <2>6 DEF Shown, Follows, AskPassword
<1> QED BY <1>3, <1>4 DEF OwnersCounted

LEMMA ShownByStep ==
    ASSUME TypeOK, BarsInv, NEW c \in Calls, CallStep(c)
    PROVE  Shown(c)'
<1>1. Shown(c) /\ Watch  BY CallStepMoves DEF BarsInv
<1>2. CASE Arriving(c)  BY <1>2, ShownByArrival
<1>3. CASE Quiet(c)
  <2>1. CASE CallEnds(c)  BY <1>1, <2>1, ShownAtEnd DEF CallEnds
  <2> QED BY <1>1, <1>3, <2>1, ShownByRegistration, ShownByDevice, ShownByComparison,
             ShownByCounting DEF Quiet
<1>4. CASE CodeStep(c)  BY <1>1, <1>4, ShownByCode
<1>5. CASE CallLoadsUser(c)  BY <1>1, <1>5, ShownByLoading
<1>6. CASE GuardReads(c)  BY <1>1, <1>6, ShownByGuard
<1>7. CASE TargetLoaded(c)  BY <1>1, <1>7, ShownByTarget
<1>8. CASE RegisterCounts(c) \/ RegisterCreates(c)  BY <1>8, ShownByRegistration
<1>9. CASE PasswordWritten(c)  BY <1>1, <1>9, ShownByPassword
<1>10. CASE DeviceEntered(c) \/ SecondFactorEnabled(c) \/ RoleWritten(c)
  <2>1. Goes(c, "idle")  BY <1>10 DEF DeviceEntered, SecondFactorEnabled, RoleWritten
  <2> QED BY <1>1, <2>1, ShownAtEnd
<1> QED BY <1>2, <1>3, <1>4, <1>5, <1>6, <1>7, <1>8, <1>9, <1>10, CallSteps

LEMMA OneMoves ==
    ASSUME TypeOK, NEW c \in Calls, CallStep(c), NEW d \in Calls \ {c}
    PROVE  call'[d] = call[d]
BY CallStepMoves DEF Moves, Becomes, TypeOK

LEMMA BarsInit == Init => BarsInv
<1> SUFFICES ASSUME Init, NEW c \in Calls PROVE bars[c] \subseteq BarsOf(c) /\ Shown(c)
  BY DEF BarsInv
<1>1. bars[c] = {} /\ call[c].pc = "idle"  BY DEF Init, NoCall
<1>2. \A b : b \notin bars[c]  BY <1>1
<1> QED BY <1>1, <1>2 DEF Shown

LEMMA BarsStep == TypeOK /\ BarsInv /\ [Next]_vars => BarsInv'
<1> SUFFICES ASSUME TypeOK, BarsInv, [Next]_vars PROVE BarsInv'  OBVIOUS
<1>1. ASSUME NEW c \in Calls, CallStep(c), NEW d \in Calls
      PROVE  bars'[d] \subseteq BarsOf(d)' /\ Shown(d)'
  <2>1. Watch  BY <1>1, CallStepMoves
  <2>2. bars'[d] \subseteq BarsOf(d)'  BY <2>1, BarsStand
  <2>3. CASE d = c  BY <1>1, <2>2, <2>3, ShownByStep
  <2>4. CASE d # c
    <3>1. call'[d] = call[d]  BY <1>1, <2>4, OneMoves
    <3> QED BY <2>1, <2>2, <3>1, ShownStays DEF BarsInv
  <2> QED BY <2>3, <2>4
<1>2. ASSUME Outside, NEW d \in Calls
      PROVE  bars'[d] \subseteq BarsOf(d)' /\ Shown(d)'
  <2>1. Watch /\ call' = call  BY <1>2, OutsideKeeps
  <2> QED BY <2>1, BarsStand, ShownStays DEF BarsInv
<1>3. CASE UNCHANGED vars
  <2>1. \A c \in Calls : BarsOf(c)' = BarsOf(c)
    BY <1>3 DEF vars, rows, bounds, BarsOf, Owners, Registered
  <2> QED BY <1>3, <2>1 DEF vars, BarsInv, Shown
<1> QED BY <1>1, <1>2, <1>3 DEF Next, Outside, BarsInv

LEMMA BarsSuffice ==
    ASSUME TypeOK, BarsInv
    PROVE  NothingForbiddenPasses
<1> SUFFICES ASSUME NEW c \in Calls, call[c].pc \in {"token", "enable", "disable", "rehash", "update"}
             PROVE  bars[c] = {}
  BY DEF NothingForbiddenPasses
<1>1. Means(c) /\ Shown(c) /\ bars[c] \subseteq BarsOf(c)  BY Meaning DEF BarsInv
<1>2. Stands(call[c]) /\ CallSound(call[c])  BY StandsAt
<1>3. call[c].pc \in {"token", "rehash", "disable"} => "password" \notin bars[c]
  BY <1>1 DEF Shown, Means
<1>4. ASSUME NEW b \in BarNames PROVE b \notin bars[c]
  BY <1>1, <1>2, <1>3 DEF BarNames, Shown, Means, Stands, CallSound, AskPassword
<1> QED BY <1>1, <1>4 DEF Means

\* No call comes to its effect over something that has forbidden it since it arrived: whatever
\* a handler acts on, it has read in a state in which it was true.
THEOREM NothingForbidden == Spec => []NothingForbiddenPasses
<1>1. Init => TypeOK /\ BarsInv  BY TypeInit, BarsInit
<1>2. TypeOK /\ BarsInv /\ [Next]_vars => (TypeOK /\ BarsInv)'  BY TypeStep, BarsStep
<1>3. TypeOK /\ BarsInv => NothingForbiddenPasses  BY BarsSuffice
<1> QED BY <1>1, <1>2, <1>3, PTL DEF Spec

-----------------------------------------------------------------------------
(* Users and roles                                                         *)

\* The statements a call may stand at whose user may be missing.
Unread == {"idle", "find", "count", "create", "user", "guard", "target"}

RowsInv == /\ \A c \in Calls : call[c].pc \notin Unread => user[call[c].user].exists
           /\ \A u \in Users : user[u].role = OWNER => user[u].exists

\* Only a registration and a change of role touch who is registered and what he is.
LEMMA RolesStay ==
    ASSUME TypeOK, NEW c \in Calls, CallStep(c), ~RegisterCreates(c), ~RoleWritten(c),
           NEW v \in Users
    PROVE  user'[v].exists = user[v].exists /\ user'[v].role = user[v].role
<1>1. user[v] \in UserRow  BY DEF TypeOK
<1>2. CASE Arriving(c)
  <2>1. PICK k \in CallRow : Arrives(c, k)  BY <1>2, ArrivesTyped DEF Arriving, ArrivesSome
  <2> QED BY <2>1 DEF Arrives, rows
<1>3. CASE Quiet(c)  BY <1>3, QuietGoesOn DEF Only, rows
<1>4. CASE CodeStep(c)
  <2>1. call[c].user \in Users  BY <1>4, CodeSteps
  <2>2. PICK columns \in UserRow, history \in OtpRow :
           CodeWritten(c, columns, history) /\ Writes(c, columns, history)
    BY <1>4, CodeSteps
  <2>3. Wrote(call[c].user, c, columns, history)  BY <2>1, <2>2, CodeWrites
  <2>4. columns.exists = user[call[c].user].exists /\ columns.role = user[call[c].user].role
    BY <2>2 DEF Writes
  <2> QED BY <2>3, <2>4 DEF Wrote
<1>5. CASE CallLoadsUser(c) \/ GuardReads(c) \/ TargetLoaded(c)
  BY <1>5 DEF CallLoadsUser, GuardReads, TargetLoaded, Only, rows
<1>6. CASE RegisterCounts(c)  BY <1>6 DEF RegisterCounts, rows
<1>7. CASE DeviceEntered(c)  BY <1>7 DEF DeviceEntered
<1>8. CASE PasswordWritten(c)
  <2> DEFINE u == call[c].user
  <2>1. u \in Users  BY <1>8, StandsAt DEF PasswordWritten, At, CallSound
  <2>2. user[u] \in UserRow  BY <2>1 DEF TypeOK
  <2>3. user' = [user EXCEPT ![u] = [user[u] EXCEPT !.password = call[c].guess]]
    BY <1>8 DEF PasswordWritten
  <2> QED BY <1>1, <2>1, <2>2, <2>3 DEF TypeOK, UserRow
<1>9. CASE SecondFactorEnabled(c)
  <2> DEFINE u == call[c].user
  <2>1. u \in Users  BY <1>9, StandsAt DEF SecondFactorEnabled, At, CallSound
  <2>2. user[u] \in UserRow  BY <2>1 DEF TypeOK
  <2>3. user' = [user EXCEPT ![u] = [user[u] EXCEPT !.secured = TRUE]]
    BY <1>9 DEF SecondFactorEnabled
  <2> QED BY <1>1, <2>1, <2>2, <2>3 DEF TypeOK, UserRow
<1> QED BY <1>2, <1>3, <1>4, <1>5, <1>6, <1>7, <1>8, <1>9, CallSteps

\* The row that a registration makes.
LEMMA Creates ==
    ASSUME TypeOK, NEW c \in Calls, RegisterCreates(c)
    PROVE  /\ call[c].user \in Users /\ call[c].role \in Roles /\ call[c].pc = "create"
           /\ \/ /\ Goes(c, "idle") /\ UNCHANGED <<user, founders, otp, crossed>>
              \/ /\ ~user[call[c].user].exists /\ Goes(c, "token")
                 /\ user'[call[c].user] = [NoUser EXCEPT !.exists = TRUE, !.role = call[c].role]
                 /\ user'[call[c].user].exists /\ user'[call[c].user].role = call[c].role
                 /\ user'[call[c].user].code = 0 /\ UNCHANGED <<otp, crossed>>
                 /\ \A v \in Users \ {call[c].user} : user'[v] = user[v]
                 /\ founders' = IF call[c].role = OWNER THEN founders \cup {call[c].user}
                                ELSE founders
<1> DEFINE u == call[c].user
           row == [NoUser EXCEPT !.exists = TRUE, !.role = call[c].role]
<1>1. call[c] \in CallRow /\ CallSound(call[c]) /\ call[c].pc = "create"
  BY StandsAt DEF RegisterCreates, At
<1>2. u \in Users /\ call[c].role \in Roles  BY <1>1 DEF CallSound, CallRow
<1>3. NoUser \in UserRow /\ NoUser.code = 0  BY NoRows DEF NoUser
<1>4. row \in UserRow /\ row.exists /\ row.role = call[c].role /\ row.code = 0
  BY <1>2, <1>3 DEF UserRow
<1>5. CASE user[u].exists  BY <1>1, <1>2, <1>5 DEF RegisterCreates
<1>6. CASE ~user[u].exists
  <2>1. /\ user' = [user EXCEPT ![u] = row] /\ Goes(c, "token") /\ UNCHANGED <<otp, crossed>>
        /\ founders' = IF call[c].role = OWNER THEN founders \cup {u} ELSE founders
    BY <1>6 DEF RegisterCreates
  <2>2. user'[u] = row /\ \A v \in Users \ {u} : user'[v] = user[v]
    BY <1>2, <2>1 DEF TypeOK
  <2> HIDE DEF row
  <2>3. user'[u].exists /\ user'[u].role = call[c].role /\ user'[u].code = 0  BY <1>4, <2>2
  <2> QED BY <1>1, <1>2, <1>6, <2>1, <2>2, <2>3 DEF row
<1> QED BY <1>5, <1>6

\* The role that a change writes.
LEMMA WritesRole ==
    ASSUME TypeOK, NEW c \in Calls, RoleWritten(c)
    PROVE  /\ call[c].user \in Users /\ call[c].role \in Roles /\ call[c].pc = "update"
           /\ Goes(c, "idle") /\ UNCHANGED <<otp, founders>>
           /\ user'[call[c].user] = [user[call[c].user] EXCEPT !.role = call[c].role]
           /\ user'[call[c].user].exists = user[call[c].user].exists
           /\ user'[call[c].user].role = call[c].role
           /\ user'[call[c].user].code = user[call[c].user].code
           /\ user'[call[c].user].attempts = user[call[c].user].attempts
           /\ \A v \in Users \ {call[c].user} : user'[v] = user[v]
<1> DEFINE u == call[c].user
<1>1. call[c] \in CallRow /\ CallSound(call[c]) /\ call[c].pc = "update"
  BY StandsAt DEF RoleWritten, At
<1>2. u \in Users /\ call[c].role \in Roles  BY <1>1 DEF CallSound, CallRow
<1>3. user[u] \in UserRow  BY <1>2 DEF TypeOK
<1>4. user' = [user EXCEPT ![u] = [user[u] EXCEPT !.role = call[c].role]] /\ Goes(c, "idle")
      /\ UNCHANGED <<otp, founders>>
  BY DEF RoleWritten
<1>5. user'[u] = [user[u] EXCEPT !.role = call[c].role] /\ \A v \in Users \ {u} : user'[v] = user[v]
  BY <1>2, <1>4 DEF TypeOK
<1>6. /\ user'[u].exists = user[u].exists /\ user'[u].role = call[c].role
      /\ user'[u].code = user[u].code /\ user'[u].attempts = user[u].attempts
  BY <1>2, <1>3, <1>5 DEF UserRow
<1> QED BY <1>1, <1>2, <1>4, <1>5, <1>6

LEMMA RegisteredStay ==
    ASSUME TypeOK, NEW c \in Calls, CallStep(c), NEW v \in Users, user[v].exists
    PROVE  user'[v].exists
<1>1. CASE RegisterCreates(c)  BY <1>1, Creates
<1>2. CASE RoleWritten(c)  BY <1>2, WritesRole
<1> QED BY <1>1, <1>2, RolesStay

\* Where a step takes the call it moves: to its end, to a statement that reads nothing of the
\* user, or on from a read of him.
LEMMA Onward ==
    ASSUME TypeOK, NEW c \in Calls, CallStep(c), call'[c].pc \notin Unread
    PROVE  /\ call'[c].user = call[c].user
           /\ call[c].pc \in Unread => user'[call[c].user].exists
<1>1. CASE Goes(c, "idle")
  <2>1. call'[c] = NoCall  BY <1>1, Ended DEF TypeOK
  <2>2. call'[c].pc = "idle"  BY <2>1 DEF NoCall
  <2> QED BY <2>2 DEF Unread
<1>2. CASE Arriving(c)
  <2>1. PICK k \in CallRow : Begins(k) /\ Arrives(c, k)
    BY <1>2, ArrivesTyped DEF Arriving, ArrivesSome
  <2>2. call'[c] = k  BY <2>1 DEF Arrives, Becomes, TypeOK
  <2> QED BY <2>1, <2>2 DEF Begins, Unread
<1>3. CASE Quiet(c)
  <2>1. Goes(c, "idle") \/ \E pc \in CallPCs \ {"idle"} : Goes(c, pc)
    BY <1>3, QuietGoesOn, Zenon DEF GoesOn
  <2>2. CASE \E pc \in CallPCs \ {"idle"} : Goes(c, pc)
    <3>1. PICK pc \in CallPCs \ {"idle"} : Follows(call'[c], c, pc)  BY <2>2, GoesFields
    <3>2. CASE RegisterFinds(c)
      <4>1. {"count"} \subseteq CallPCs \ {"idle"}  BY DEF CallPCs
      <4>2. CASE Goes(c, "count")  BY <4>1, <4>2, GoesFields DEF Follows, Unread
      <4> QED BY <1>1, <3>2, <4>2 DEF RegisterFinds
    <3>3. call[c].pc \in Unread => RegisterFinds(c)
      BY <1>3 DEF Quiet, DeviceResolved, CodeCompared, OwnersCounted, CallEnds, At, Unread
    <3> QED BY <3>1, <3>2, <3>3 DEF Follows
  <2> QED BY <1>1, <2>1, <2>2
<1>4. CASE CodeStep(c)
  <2>1. PICK columns \in UserRow, history \in OtpRow : Writes(c, columns, history)
    BY <1>4, CodeSteps
  <2>2. call[c].pc \in {"issue", "use", "miss", "cancel", "disable"}
    BY <2>1 DEF Writes, Issues, Uses, Misses, Drops
  <2>3. \E pc \in {"idle", "sent", "enable", "device", "token"} : Goes(c, pc)
    BY <2>1 DEF Writes, Issues, Uses, Misses, Drops
  <2>4. {"sent", "enable", "device", "token"} \subseteq CallPCs \ {"idle"}  BY DEF CallPCs
  <2> QED BY <1>1, <2>2, <2>3, <2>4, GoesFields DEF Follows, Unread
<1>5. CASE CallLoadsUser(c)
  <2>1. CASE \E pc \in CallPCs : LoadsTo(call[c], user[call[c].user], pc) /\ Reads(c, pc)
    <3>1. PICK pc \in CallPCs : LoadsTo(call[c], user[call[c].user], pc) /\ Reads(c, pc)
      BY <2>1
    <3>2. pc # "idle"  BY <3>1 DEF LoadsTo
    <3>3. user' = user  BY <1>5 DEF CallLoadsUser, Only, rows
    <3> QED BY <3>1, <3>2, <3>3, ReadsFields DEF Follows, LoadsTo
  <2> QED BY <1>1, <1>5, <2>1, Loads
<1>6. CASE GuardReads(c)
  <2>1. CASE \E g : Becomes(c, [call[c] EXCEPT !.pc = "target", !.guess = g])
    <3>1. call[c] \in CallRow  BY DEF TypeOK
    <3>2. call'[c].pc = "target"  BY <2>1, <3>1 DEF Becomes, TypeOK, CallRow
    <3> QED BY <3>2 DEF Unread
  <2> QED BY <1>1, <1>6, <2>1 DEF GuardReads
<1>7. CASE TargetLoaded(c)
  <2>1. CASE \E pc \in {"owners", "update"} :
                TargetsTo(call[c], user[call[c].user], pc) /\ Reads(c, pc)
    <3>1. PICK pc \in {"owners", "update"} :
             TargetsTo(call[c], user[call[c].user], pc) /\ Reads(c, pc)
      BY <2>1
    <3>2. pc \in CallPCs \ {"idle"}  BY DEF CallPCs
    <3>3. user' = user  BY <1>7 DEF TargetLoaded, Only, rows
    <3> QED BY <3>1, <3>2, <3>3, ReadsFields DEF Follows, TargetsTo
  <2> QED BY <1>1, <1>7, <2>1, Targets
<1>8. CASE RegisterCounts(c)
  <2> DEFINE r == IF Registered = {} THEN OWNER ELSE DEFAULT
  <2>1. call[c] \in CallRow  BY DEF TypeOK
  <2>2. call'[c] = [call[c] EXCEPT !.pc = "create", !.role = r]
    BY <1>8 DEF RegisterCounts, Becomes, TypeOK
  <2> HIDE DEF r
  <2>3. call'[c].pc = "create"  BY <2>1, <2>2 DEF CallRow
  <2> QED BY <2>3 DEF Unread
<1>9. CASE RegisterCreates(c)
  <2>1. "token" \in CallPCs \ {"idle"}  BY DEF CallPCs
  <2> QED BY <1>1, <1>9, <2>1, Creates, GoesFields DEF Follows
<1>10. CASE PasswordWritten(c)
  <2>1. "token" \in CallPCs \ {"idle"} /\ Goes(c, "token") /\ call[c].pc = "rehash"
    BY <1>10 DEF CallPCs, PasswordWritten, At
  <2> QED BY <2>1, GoesFields DEF Follows, Unread
<1>11. CASE DeviceEntered(c) \/ SecondFactorEnabled(c) \/ RoleWritten(c)
  BY <1>1, <1>11 DEF DeviceEntered, SecondFactorEnabled, RoleWritten
<1> QED BY <1>2, <1>3, <1>4, <1>5, <1>6, <1>7, <1>8, <1>9, <1>10, <1>11, CallSteps

LEMMA RowsInitially == Init => RowsInv
<1> SUFFICES ASSUME Init PROVE RowsInv  OBVIOUS
<1>1. \A c \in Calls : call[c].pc = "idle"  BY DEF Init, NoCall
<1>2. ASSUME NEW u \in Users, user[u].role = OWNER PROVE user[u].exists
  <2>1. CASE u \in DOMAIN case.users  BY <2>1, RowsInit
  <2>2. CASE u \notin DOMAIN case.users  BY <1>2, <2>2, RowsInit DEF OWNER, DEFAULT
  <2> QED BY <2>1, <2>2
<1> QED BY <1>1, <1>2 DEF RowsInv, Unread

LEMMA RowsStep == TypeOK /\ RowsInv /\ [Next]_vars => RowsInv'
<1> SUFFICES ASSUME TypeOK, RowsInv, [Next]_vars PROVE RowsInv'  OBVIOUS
<1>1. ASSUME NEW c \in Calls, CallStep(c), NEW d \in Calls, call'[d].pc \notin Unread
      PROVE  user'[call'[d].user].exists
  <2>1. CASE d = c
    <3>1. call'[c].user = call[c].user /\ (call[c].pc \in Unread => user'[call[c].user].exists)
      BY <1>1, <2>1, Onward
    <3>2. CASE call[c].pc \in Unread  BY <2>1, <3>1, <3>2
    <3>3. CASE call[c].pc \notin Unread
      <4>1. call[c].user \in Users  BY <3>3, StandsAt DEF CallSound, Unread
      <4> QED BY <1>1, <2>1, <3>1, <3>3, <4>1, RegisteredStay DEF RowsInv
    <3> QED BY <3>2, <3>3
  <2>2. CASE d # c
    <3>1. call'[d] = call[d]  BY <1>1, <2>2, OneMoves
    <3>2. call[d].user \in Users  BY <1>1, <3>1, StandsAt DEF CallSound, Unread
    <3> QED BY <1>1, <3>1, <3>2, RegisteredStay DEF RowsInv
  <2> QED BY <2>1, <2>2
<1>2. ASSUME NEW c \in Calls, CallStep(c), NEW u \in Users, user'[u].role = OWNER
      PROVE  user'[u].exists
  <2>1. CASE RegisterCreates(c)  BY <1>2, <2>1, Creates DEF RowsInv
  <2>2. CASE RoleWritten(c)
    <3>1. call[c].pc = "update"  BY <2>2, WritesRole
    <3>2. user[call[c].user].exists  BY <3>1 DEF RowsInv, Unread
    <3> QED BY <1>2, <2>2, <3>2, WritesRole DEF RowsInv
  <2> QED BY <1>2, <2>1, <2>2, RolesStay DEF RowsInv
<1>3. CASE Outside
  <2>1. \A u \in Users : user'[u].exists = user[u].exists /\ user'[u].role = user[u].role
    <3> TAKE u \in Users
    <3>1. user[u] \in UserRow  BY DEF TypeOK
    <3>2. user'[u] = user[u] \/ user'[u] = [user[u] EXCEPT !.fresh = FALSE]
      BY <1>3, OutsideKeeps
    <3> QED BY <3>1, <3>2 DEF UserRow
  <2>2. call' = call  BY <1>3, OutsideKeeps
  <2>3. \A c \in Calls : call[c].pc \notin Unread => call[c].user \in Users
    BY StandsAt DEF CallSound, Unread
  <2> QED BY <2>1, <2>2, <2>3 DEF RowsInv
<1>4. CASE UNCHANGED vars  BY <1>4 DEF vars, rows, RowsInv
<1> QED BY <1>1, <1>2, <1>3, <1>4 DEF Next, Outside, RowsInv

\* The only ways to the statements that matter most.
ReachedBy(c) ==
    /\ call'[c].pc = "create" => RegisterCounts(c)
    /\ call'[c].pc = "update" => TargetLoaded(c) \/ OwnersCounted(c)
    /\ call'[c].pc \in {"compare", "cancel"} => CallLoadsUser(c)
    /\ call'[c].pc \in {"use", "miss"} => CodeCompared(c)

LEMMA ReachedElsewhere ==
    ASSUME TypeOK, NEW c \in Calls,
           NEW pc \in {"idle", "count", "device", "enter", "rehash", "issue", "enable",
                       "disable", "token", "sent", "target", "owners"},
           Goes(c, pc) \/ Reads(c, pc)
    PROVE  ReachedBy(c)
<1>1. CASE pc = "idle"
  <2>1. Goes(c, "idle")  BY <1>1 DEF Reads, Goes
  <2>2. call'[c] = NoCall  BY <2>1, Ended DEF TypeOK
  <2>3. call'[c].pc = "idle"  BY <2>2 DEF NoCall
  <2> QED BY <2>3 DEF ReachedBy
<1>2. CASE pc # "idle"
  <2>1. pc \in CallPCs \ {"idle"}  BY <1>2 DEF CallPCs
  <2>2. call'[c].pc = pc  BY <2>1, GoesFields, ReadsFields DEF Follows
  <2> QED BY <2>2 DEF ReachedBy
<1> QED BY <1>1, <1>2

LEMMA Reaches ==
    ASSUME TypeOK, NEW c \in Calls, CallStep(c)
    PROVE  ReachedBy(c)
<1>1. CASE Arriving(c)
  <2>1. PICK k \in CallRow : Begins(k) /\ Arrives(c, k)
    BY <1>1, ArrivesTyped DEF Arriving, ArrivesSome
  <2>2. call'[c] = k  BY <2>1 DEF Arrives, Becomes, TypeOK
  <2> QED BY <2>1, <2>2 DEF Begins, ReachedBy
<1>2. CASE RegisterFinds(c)
  <2>1. Goes(c, "idle") \/ Goes(c, "count")  BY <1>2 DEF RegisterFinds
  <2> QED BY <2>1, ReachedElsewhere
<1>3. CASE DeviceResolved(c)
  <2>1. \E pc \in {"idle", "enter", "issue", "token"} : Goes(c, pc)
    BY <1>3 DEF DeviceResolved, Past
  <2> QED BY <2>1, ReachedElsewhere
<1>4. CASE CodeCompared(c)
  <2>1. PICK pc \in {"use", "miss"} : Goes(c, pc)  BY <1>4 DEF CodeCompared
  <2>2. pc \in CallPCs \ {"idle"}  BY DEF CallPCs
  <2>3. call'[c].pc = pc  BY <2>1, <2>2, GoesFields DEF Follows
  <2> QED BY <1>4, <2>3 DEF ReachedBy
<1>5. CASE OwnersCounted(c)
  <2>1. Goes(c, "idle") \/ Goes(c, "update")  BY <1>5 DEF OwnersCounted
  <2>2. CASE Goes(c, "update")
    <3>1. "update" \in CallPCs \ {"idle"}  BY DEF CallPCs
    <3>2. call'[c].pc = "update"  BY <2>2, <3>1, GoesFields DEF Follows
    <3> QED BY <1>5, <3>2 DEF ReachedBy
  <2> QED BY <2>1, <2>2, ReachedElsewhere
<1>6. CASE CodeStep(c)
  <2>1. PICK columns \in UserRow, history \in OtpRow : Writes(c, columns, history)
    BY <1>6, CodeSteps
  <2>2. \E pc \in {"idle", "sent", "enable", "device", "token"} : Goes(c, pc)
    BY <2>1 DEF Writes, Issues, Uses, Misses, Drops
  <2> QED BY <2>2, ReachedElsewhere
<1>7. CASE CallLoadsUser(c)
  <2>1. CASE Goes(c, "idle")  BY <2>1, ReachedElsewhere
  <2>2. CASE \E pc \in CallPCs : LoadsTo(call[c], user[call[c].user], pc) /\ Reads(c, pc)
    <3>1. PICK pc \in CallPCs : LoadsTo(call[c], user[call[c].user], pc) /\ Reads(c, pc)
      BY <2>2
    <3>2. pc \notin {"idle", "create", "update", "use", "miss"}  BY <3>1 DEF LoadsTo
    <3>3. call'[c].pc = pc  BY <3>1, <3>2, ReadsFields DEF Follows
    <3> QED BY <1>7, <3>2, <3>3 DEF ReachedBy
  <2> QED BY <1>7, <2>1, <2>2, Loads
<1>8. CASE GuardReads(c)
  <2>1. CASE Goes(c, "idle")  BY <2>1, ReachedElsewhere
  <2>2. CASE \E g : Becomes(c, [call[c] EXCEPT !.pc = "target", !.guess = g])
    <3>1. call[c] \in CallRow  BY DEF TypeOK
    <3>2. call'[c].pc = "target"  BY <2>2, <3>1 DEF Becomes, TypeOK, CallRow
    <3> QED BY <3>2 DEF ReachedBy
  <2> QED BY <1>8, <2>1, <2>2 DEF GuardReads
<1>9. CASE TargetLoaded(c)
  <2>1. CASE Goes(c, "idle")  BY <2>1, ReachedElsewhere
  <2>2. CASE \E pc \in {"owners", "update"} :
                TargetsTo(call[c], user[call[c].user], pc) /\ Reads(c, pc)
    <3>1. PICK pc \in {"owners", "update"} : Reads(c, pc)  BY <2>2
    <3>2. pc \in CallPCs \ {"idle"}  BY DEF CallPCs
    <3>3. call'[c].pc = pc  BY <3>1, <3>2, ReadsFields DEF Follows
    <3> QED BY <1>9, <3>3 DEF ReachedBy
  <2> QED BY <1>9, <2>1, <2>2, Targets
<1>10. CASE RegisterCounts(c)
  <2> DEFINE r == IF Registered = {} THEN OWNER ELSE DEFAULT
  <2>1. call[c] \in CallRow  BY DEF TypeOK
  <2>2. call'[c] = [call[c] EXCEPT !.pc = "create", !.role = r]
    BY <1>10 DEF RegisterCounts, Becomes, TypeOK
  <2> HIDE DEF r
  <2>3. call'[c].pc = "create"  BY <2>1, <2>2 DEF CallRow
  <2> QED BY <1>10, <2>3 DEF ReachedBy
<1>11. CASE RegisterCreates(c)
  <2>1. Goes(c, "idle") \/ Goes(c, "token")  BY <1>11 DEF RegisterCreates
  <2> QED BY <2>1, ReachedElsewhere
<1>12. CASE PasswordWritten(c)
  <2>1. Goes(c, "token")  BY <1>12 DEF PasswordWritten
  <2> QED BY <2>1, ReachedElsewhere
<1>13. CASE DeviceEntered(c) \/ SecondFactorEnabled(c) \/ RoleWritten(c) \/ CallEnds(c)
  <2>1. Goes(c, "idle")
    BY <1>13 DEF DeviceEntered, SecondFactorEnabled, RoleWritten, CallEnds
  <2> QED BY <2>1, ReachedElsewhere
<1> QED BY <1>1, <1>2, <1>3, <1>4, <1>5, <1>6, <1>7, <1>8, <1>9, <1>10, <1>11, <1>12, <1>13,
           CallSteps DEF Quiet

-----------------------------------------------------------------------------
(* Owners                                                                  *)

\* Unless something has crossed: the archive that has users has an owner, at most one
\* registration has counted and not created, what it counted still holds, and a change that
\* would take an owner's role leaves another owner.
Orderly ==
    /\ Registered # {} => Owners # {}
    /\ founders \subseteq Registered
    /\ \A u, v \in founders : u = v
    /\ \A c, d \in Calls : At(c, "create") /\ At(d, "create") => c = d
    /\ \A c \in Calls : At(c, "create") => (call[c].role = OWNER <=> Registered = {})
    /\ \A c \in Demoting : \E o \in Owners : o # call[c].user

OwnersInv == ~crossed => Orderly

LEMMA CrossedStays ==
    ASSUME TypeOK, NEW c \in Calls, CallStep(c)
    PROVE  /\ crossed => crossed'
           /\ ~RegisterCreates(c) => founders' = founders
<1>1. CASE Arriving(c)
  <2>1. PICK k \in CallRow : Arrives(c, k)  BY <1>1, ArrivesTyped DEF Arriving, ArrivesSome
  <2> QED BY <2>1 DEF Arrives
<1>2. CASE Quiet(c)  BY <1>2, QuietGoesOn DEF Only
<1>3. CASE CodeStep(c)
  <2>1. PICK columns \in UserRow, history \in OtpRow : CodeWritten(c, columns, history)
    BY <1>3, CodeSteps
  <2> QED BY <2>1 DEF CodeWritten
<1>4. CASE CallLoadsUser(c) \/ GuardReads(c) \/ TargetLoaded(c)
  BY <1>4 DEF CallLoadsUser, GuardReads, TargetLoaded, Only
<1>5. CASE RegisterCounts(c)  BY <1>5 DEF RegisterCounts
<1>6. CASE RegisterCreates(c)  BY <1>6 DEF RegisterCreates
<1>7. CASE DeviceEntered(c)  BY <1>7 DEF DeviceEntered
<1>8. CASE PasswordWritten(c)  BY <1>8 DEF PasswordWritten
<1>9. CASE SecondFactorEnabled(c)  BY <1>9 DEF SecondFactorEnabled
<1>10. CASE RoleWritten(c)  BY <1>10 DEF RoleWritten
<1> QED BY <1>1, <1>2, <1>3, <1>4, <1>5, <1>6, <1>7, <1>8, <1>9, <1>10, CallSteps

\* Steps that leave who is registered and who owns as they are.
LEMMA OwnersUntouched ==
    ASSUME TypeOK, RowsInv, OwnersInv, NEW c \in Calls, CallStep(c),
           ~RegisterCounts(c), ~RegisterCreates(c), ~RoleWritten(c)
    PROVE  OwnersInv'
<1> USE DEF Orderly
<1> SUFFICES ASSUME ~crossed' PROVE OwnersInv'  BY DEF OwnersInv
<1>1. ~crossed /\ founders' = founders  BY CrossedStays
<1>2. \A v \in Users : user'[v].exists = user[v].exists /\ user'[v].role = user[v].role
  BY RolesStay
<1>3. Registered' = Registered /\ Owners' = Owners  BY <1>2 DEF Registered, Owners
<1>4. \A d \in Calls : call'[d].pc = "create" => call[d].pc = "create" /\ call'[d] = call[d]
  BY Reaches, OneMoves DEF ReachedBy
<1>5. ASSUME NEW d \in Demoting' PROVE \E o \in Owners : o # call'[d].user
  <2>1. d \in Calls /\ call'[d].pc = "update" /\ call'[d].role # OWNER
        /\ user'[call'[d].user].role = OWNER
    BY <1>5 DEF Demoting, At
  <2>2. CASE d # c
    <3>1. call'[d] = call[d]  BY <2>1, <2>2, OneMoves
    <3>2. call[d].user \in Users  BY <2>1, <3>1, StandsAt DEF CallSound
    <3>3. d \in Demoting  BY <1>2, <2>1, <3>1, <3>2 DEF Demoting, At
    <3> QED BY <1>1, <3>1, <3>3 DEF OwnersInv
  <2>3. CASE d = c /\ OwnersCounted(c)
    <3>1. call[c].pc = "owners"  BY <2>3 DEF OwnersCounted, At
    <3>2. Goes(c, "idle") \/ (Goes(c, "update") /\ ~(Cardinality(Owners) <= 1))
      BY <2>3 DEF OwnersCounted
    <3>3. ~Goes(c, "idle")
      <4>1. SUFFICES ASSUME Goes(c, "idle") PROVE FALSE  OBVIOUS
      <4>2. call'[c] = NoCall  BY <4>1, Ended DEF TypeOK
      <4> QED BY <2>1, <2>3, <4>2 DEF NoCall
    <3>4. call[c].user \in Users /\ user[call[c].user].exists
      BY <3>1, StandsAt DEF CallSound, RowsInv, Unread
    <3>5. \E o \in Owners : o # call[c].user
      <4>1. SUFFICES ASSUME \A o \in Owners : o = call[c].user PROVE FALSE  OBVIOUS
      <4>2. Cardinality({call[c].user}) = 1 /\ Cardinality({}) = 0  BY FS_Singleton, FS_EmptySet
      <4>3. Owners = {} \/ Owners = {call[c].user}  BY <4>1
      <4> QED BY <3>2, <3>3, <4>2, <4>3
    <3>6. "update" \in CallPCs \ {"idle"}  BY DEF CallPCs
    <3>7. call'[c].user = call[c].user  BY <3>2, <3>3, <3>6, GoesFields DEF Follows
    <3> QED BY <2>3, <3>5, <3>7
  <2>4. CASE d = c /\ TargetLoaded(c)
    <3>1. ~Goes(c, "idle")
      <4>1. SUFFICES ASSUME Goes(c, "idle") PROVE FALSE  OBVIOUS
      <4>2. call'[c] = NoCall  BY <4>1, Ended DEF TypeOK
      <4> QED BY <2>1, <2>4, <4>2 DEF NoCall
    <3>2. PICK pc \in {"owners", "update"} :
             TargetsTo(call[c], user[call[c].user], pc) /\ Reads(c, pc)
      BY <2>4, <3>1, Targets
    <3>3. pc \in CallPCs \ {"idle"}  BY DEF CallPCs
    <3>4. Follows(call'[c], c, pc)  BY <3>2, <3>3, ReadsFields
    <3>5. user' = user  BY <2>4 DEF TargetLoaded, Only, rows
    <3> QED BY <2>1, <2>4, <3>2, <3>4, <3>5 DEF Follows, TargetsTo
  <2> QED BY <2>1, <2>2, <2>3, <2>4, Reaches DEF ReachedBy
<1> QED BY <1>1, <1>3, <1>4, <1>5 DEF OwnersInv, At

LEMMA OwnersAfterCount ==
    ASSUME TypeOK, RowsInv, OwnersInv, NEW c \in Calls, RegisterCounts(c), CallStep(c)
    PROVE  OwnersInv'
<1> USE DEF Orderly
<1> SUFFICES ASSUME ~crossed' PROVE OwnersInv'  BY DEF OwnersInv
<1> DEFINE r == IF Registered = {} THEN OWNER ELSE DEFAULT
<1>1. ~crossed /\ founders' = founders /\ user' = user /\ (\A d \in Calls : ~At(d, "create"))
  BY DEF RegisterCounts, rows, TypeOK
<1>2. call[c] \in CallRow /\ call'[c] = [call[c] EXCEPT !.pc = "create", !.role = r]
  BY DEF RegisterCounts, Becomes, TypeOK
<1>3. r = OWNER <=> Registered = {}  BY DEF OWNER, DEFAULT
<1> HIDE DEF r
<1>4. call'[c].pc = "create" /\ call'[c].role = r  BY <1>2 DEF CallRow
<1>5. Registered' = Registered /\ Owners' = Owners  BY <1>1 DEF Registered, Owners
<1>6. \A d \in Calls : At(d, "create")' => d = c  BY <1>1, OneMoves DEF At
<1>7. Demoting' \subseteq Demoting
  BY <1>1, <1>4, OneMoves DEF Demoting, At
<1>8. \A d \in Demoting' : \E o \in Owners' : o # call'[d].user
  <2> TAKE d \in Demoting'
  <2>1. d # c /\ d \in Calls  BY <1>4 DEF Demoting, At
  <2>2. call'[d] = call[d] /\ d \in Demoting  BY <1>7, <2>1, OneMoves
  <2> QED BY <1>1, <1>5, <2>2 DEF OwnersInv
<1>9. \A d \in Calls : At(d, "create")' => (call'[d].role = OWNER <=> Registered' = {})
  BY <1>3, <1>4, <1>5, <1>6
<1> QED BY <1>1, <1>5, <1>6, <1>8, <1>9 DEF OwnersInv

LEMMA OwnersAfterCreate ==
    ASSUME TypeOK, RowsInv, OwnersInv, NEW c \in Calls, RegisterCreates(c), CallStep(c)
    PROVE  OwnersInv'
<1> USE DEF Orderly
<1> SUFFICES ASSUME ~crossed' PROVE OwnersInv'  BY DEF OwnersInv
<1> DEFINE u == call[c].user
<1>1. ~crossed /\ Orderly  BY CrossedStays DEF OwnersInv
<1>2. u \in Users /\ At(c, "create")  BY Creates DEF At
<1>3. \A d \in Calls : ~At(d, "create")'
  <2> TAKE d \in Calls
  <2>1. CASE d = c  BY <2>1, Reaches, <1>2 DEF ReachedBy, RegisterCounts, At
  <2>2. CASE d # c  BY <1>1, <1>2, <2>2, OneMoves DEF At
  <2> QED BY <2>1, <2>2
<1>4. call'[c].pc # "update"
  BY <1>2, Reaches DEF ReachedBy, TargetLoaded, OwnersCounted, At
<1>5. CASE UNCHANGED <<user, founders>>
  <2>1. Registered' = Registered /\ Owners' = Owners  BY <1>5 DEF Registered, Owners
  <2>2. \A d \in Demoting' : \E o \in Owners' : o # call'[d].user
    <3> TAKE d \in Demoting'
    <3>1. d # c /\ d \in Calls  BY <1>4 DEF Demoting, At
    <3>2. call'[d] = call[d]  BY <3>1, OneMoves
    <3>3. d \in Demoting  BY <1>5, <3>2 DEF Demoting, At
    <3> QED BY <1>1, <2>1, <3>2, <3>3
  <2> QED BY <1>1, <1>3, <1>5, <2>1, <2>2 DEF OwnersInv
<1>6. CASE /\ ~user[u].exists /\ user'[u].exists /\ user'[u].role = call[c].role
           /\ \A v \in Users \ {u} : user'[v] = user[v]
           /\ founders' = IF call[c].role = OWNER THEN founders \cup {u} ELSE founders
  <2>1. Registered' = Registered \cup {u}  BY <1>2, <1>6 DEF Registered
  <2>2. Owners' = IF call[c].role = OWNER THEN Owners \cup {u} ELSE Owners
    BY <1>2, <1>6, <2>1 DEF Owners, Registered
  <2>3. Owners' # {}  BY <1>1, <1>2, <2>2
  <2>4. founders' \subseteq Registered'  BY <1>1, <1>6, <2>1
  <2>5. \A v, w \in founders' : v = w
    <3>1. CASE call[c].role = OWNER
      <4>1. Registered = {}  BY <1>1, <1>2, <3>1
      <4> QED BY <1>1, <1>6, <3>1, <4>1
    <3>2. CASE call[c].role # OWNER  BY <1>1, <1>6, <3>2
    <3> QED BY <3>1, <3>2
  <2>6. \A d \in Demoting' : \E o \in Owners' : o # call'[d].user
    <3> TAKE d \in Demoting'
    <3>1. d # c /\ d \in Calls  BY <1>4 DEF Demoting, At
    <3>2. call'[d] = call[d] /\ call[d].pc = "update" /\ call[d].role # OWNER
          /\ user'[call[d].user].role = OWNER
      BY <3>1, OneMoves DEF Demoting, At
    <3>3. user[call[d].user].exists /\ call[d].user \in Users
      BY <3>1, <3>2, StandsAt DEF RowsInv, Unread, CallSound
    <3>4. call[d].user # u  BY <1>6, <3>3
    <3>5. d \in Demoting  BY <1>6, <3>1, <3>2, <3>3, <3>4 DEF Demoting, At
    <3> QED BY <1>1, <2>2, <3>2, <3>5
  <2> QED BY <1>3, <2>3, <2>4, <2>5, <2>6 DEF OwnersInv
<1> QED BY <1>5, <1>6, Creates

LEMMA OwnersAfterWrite ==
    ASSUME TypeOK, RowsInv, OwnersInv, NEW c \in Calls, RoleWritten(c), CallStep(c)
    PROVE  OwnersInv'
<1> USE DEF Orderly
<1> SUFFICES ASSUME ~crossed' PROVE OwnersInv'  BY DEF OwnersInv
<1> DEFINE u == call[c].user
           r == call[c].role
<1>1. ~crossed /\ ~(c \in Demoting /\ Demoting # {c})  BY DEF RoleWritten, TypeOK
<1>2. Orderly  BY <1>1 DEF OwnersInv
<1>3. /\ u \in Users /\ call[c].pc = "update" /\ founders' = founders
      /\ user'[u].exists = user[u].exists /\ user'[u].role = r
      /\ \A v \in Users \ {u} : user'[v] = user[v]
  BY WritesRole
<1>4. user[u].exists  BY <1>3 DEF RowsInv, Unread
<1>5. Registered' = Registered  BY <1>3 DEF Registered
<1>6. Owners' = IF r = OWNER THEN Owners \cup {u} ELSE Owners \ {u}
  BY <1>3, <1>4, <1>5 DEF Owners, Registered
<1>7. call'[c].pc \notin {"create", "update"}
  BY <1>3, Reaches DEF ReachedBy, RegisterCounts, TargetLoaded, OwnersCounted, At
<1>8. \A d \in Calls : call'[d].pc \in {"create", "update"} => d # c /\ call'[d] = call[d]
  BY <1>7, OneMoves
<1>9. u \in Registered /\ Owners # {}  BY <1>2, <1>3, <1>4 DEF Registered
<1>10. Owners' # {}
  <2>1. CASE r = OWNER  BY <1>6, <2>1
  <2>2. CASE r # OWNER /\ u \in Owners
    <3>1. c \in Demoting  BY <1>3, <2>2 DEF Demoting, At, Owners
    <3> QED BY <1>2, <1>6, <2>2, <3>1
  <2>3. CASE r # OWNER /\ u \notin Owners  BY <1>6, <1>9, <2>3
  <2> QED BY <2>1, <2>2, <2>3
<1>11. \A d \in Demoting' : \E o \in Owners' : o # call'[d].user
  <2> TAKE d \in Demoting'
  <2>1. d \in Calls /\ d # c /\ call'[d] = call[d] /\ call[d].pc = "update"
        /\ call[d].role # OWNER /\ user'[call[d].user].role = OWNER
    BY <1>8 DEF Demoting, At
  <2> DEFINE v == call[d].user
  <2>2. v \in Users /\ user[v].exists  BY <2>1, StandsAt DEF CallSound, RowsInv, Unread
  <2>3. CASE user[v].role = OWNER
    <3>1. d \in Demoting  BY <2>1, <2>3 DEF Demoting, At
    <3>2. PICK o \in Owners : o # v  BY <1>2, <3>1
    <3>3. c \notin Demoting  BY <1>1, <2>1, <3>1
    <3>4. r = OWNER \/ u \notin Owners  BY <1>3, <3>3 DEF Demoting, At, Owners
    <3> QED BY <1>6, <2>1, <3>2, <3>4
  <2>4. CASE user[v].role # OWNER
    <3>1. v = u /\ r = OWNER  BY <1>3, <2>1, <2>2, <2>4
    <3>2. u \notin Owners  BY <2>4, <3>1 DEF Owners
    <3> QED BY <1>6, <1>9, <2>1, <3>1, <3>2
  <2> QED BY <2>3, <2>4
<1>12. \A d, e \in Calls : At(d, "create")' /\ At(e, "create")' => d = e
  BY <1>2, <1>8 DEF At
<1>13. \A d \in Calls : At(d, "create")' => (call'[d].role = OWNER <=> Registered' = {})
  BY <1>2, <1>5, <1>8 DEF At
<1> QED BY <1>2, <1>3, <1>5, <1>10, <1>11, <1>12, <1>13 DEF OwnersInv

LEMMA OwnersInit == Init => OwnersInv
<1> USE DEF Orderly
<1> SUFFICES ASSUME Init PROVE OwnersInv  OBVIOUS
<1>1. \A c \in Calls : call[c].pc = "idle"  BY DEF Init, NoCall
<1>2. founders = {}  BY DEF Init
<1>3. ASSUME Registered # {} PROVE Owners # {}
  <2>1. PICK u \in Users : user[u].exists  BY <1>3 DEF Registered
  <2>2. u \in DOMAIN case.users /\ case \in Cases  BY <2>1, RowsInit
  <2>3. PICK o \in DOMAIN case.users : case.users[o] = OWNER  BY <2>2, CasesAssumption
  <2>4. o \in Users  BY <2>2, CasesAssumption
  <2>5. user[o].exists /\ user[o].role = OWNER  BY <2>3, <2>4, RowsInit
  <2> QED BY <2>4, <2>5 DEF Owners, Registered
<1> QED BY <1>1, <1>2, <1>3 DEF OwnersInv, At, Demoting

LEMMA OwnersStep == TypeOK /\ RowsInv /\ OwnersInv /\ [Next]_vars => OwnersInv'
<1> USE DEF Orderly
<1> SUFFICES ASSUME TypeOK, RowsInv, OwnersInv, [Next]_vars PROVE OwnersInv'  OBVIOUS
<1>1. ASSUME NEW c \in Calls, CallStep(c) PROVE OwnersInv'
  BY <1>1, OwnersUntouched, OwnersAfterCount, OwnersAfterCreate, OwnersAfterWrite
<1>2. CASE Outside
  <2>1. \A u \in Users : user'[u].exists = user[u].exists /\ user'[u].role = user[u].role
    <3> TAKE u \in Users
    <3>1. user[u] \in UserRow  BY DEF TypeOK
    <3>2. user'[u] = user[u] \/ user'[u] = [user[u] EXCEPT !.fresh = FALSE]
      BY <1>2, OutsideKeeps
    <3> QED BY <3>1, <3>2 DEF UserRow
  <2>2. UNCHANGED <<call, founders, crossed>>  BY <1>2, OutsideKeeps
  <2>3. Registered' = Registered /\ Owners' = Owners  BY <2>1 DEF Registered, Owners
  <2>4. \A c \in Calls : call[c].pc = "update" => call[c].user \in Users
    BY StandsAt DEF CallSound
  <2>5. Demoting' = Demoting  BY <2>1, <2>2, <2>4 DEF Demoting, At
  <2> QED BY <2>2, <2>3, <2>5 DEF OwnersInv, At
<1>3. CASE UNCHANGED vars
  BY <1>3 DEF vars, rows, bounds, OwnersInv, Owners, Registered, Demoting, At
<1> QED BY <1>1, <1>2, <1>3 DEF Next, Outside

LEMMA OwnersSuffice ==
    ASSUME TypeOK, OwnersInv
    PROVE  OwnersRemain
<1> USE DEF Orderly
<1> SUFFICES ASSUME ~crossed PROVE Cardinality(founders) <= 1
  BY DEF OwnersRemain, OwnersInv
<1>1. \A u, v \in founders : u = v  BY DEF OwnersInv
<1>2. CASE founders = {}  BY <1>2, FS_EmptySet
<1>3. CASE founders # {}
  <2>1. PICK u \in founders : TRUE  BY <1>3
  <2>2. founders = {u}  BY <1>1, <2>1
  <2>3. Cardinality({u}) = 1  BY FS_Singleton
  <2> QED BY <2>2, <2>3
<1> QED BY <1>2, <1>3

\* An archive that has users has an owner, and registration has made no more than one, unless
\* two registrations, or two changes that take an owner's role, have crossed.
THEOREM OwnersAlwaysRemain == Spec => []OwnersRemain
<1>1. Init => TypeOK /\ RowsInv /\ OwnersInv  BY TypeInit, RowsInitially, OwnersInit
<1>2. TypeOK /\ RowsInv /\ OwnersInv /\ [Next]_vars => (TypeOK /\ RowsInv /\ OwnersInv)'
  BY TypeStep, RowsStep, OwnersStep
<1>3. TypeOK /\ OwnersInv => OwnersRemain  BY OwnersSuffice
<1> QED BY <1>1, <1>2, <1>3, PTL DEF Spec

-----------------------------------------------------------------------------
(* Codes                                                                   *)

\* Unless calls on the account have crossed: a code that is there has let nobody in and has
\* stood as many guesses as its row counts, fewer than it may; and what a call holds of the
\* code is what the row says.
CodeSound(u) ==
    /\ otp[u].uses <= 1 /\ otp[u].misses <= OTP_MAX_ATTEMPTS
    /\ user[u].code # 0 => /\ otp[u].uses = 0 /\ otp[u].misses = user[u].attempts
                           /\ user[u].attempts < OTP_MAX_ATTEMPTS
    /\ \A c \in Holding(u) : /\ call[c].row.code = user[u].code /\ user[u].code # 0
                             /\ call[c].row.attempts = user[u].attempts

CodesInv == \A u \in Users : ~otp[u].crossed => CodeSound(u)

\* Who holds a read of the code after a step.
LEMMA HoldingStays ==
    ASSUME TypeOK, NEW c \in Calls, CallStep(c), NEW u \in Users, NEW d \in Holding(u)'
    PROVE  \/ d # c /\ d \in Holding(u) /\ call'[d] = call[d]
           \/ /\ d = c /\ CodeCompared(c) /\ c \in Holding(u)
              /\ call'[c].row = call[c].row
           \/ /\ d = c /\ CallLoadsUser(c) /\ u = call[c].user
              /\ call'[c].row = user[u] /\ user[u].code # 0
<1>1. d \in Calls /\ call'[d].pc \in {"compare", "use", "miss", "cancel"} /\ call'[d].user = u
  BY DEF Holding
<1>2. CASE d # c
  <2>1. call'[d] = call[d]  BY <1>1, <1>2, OneMoves
  <2> QED BY <1>1, <1>2, <2>1 DEF Holding
<1>3. ~Goes(c, "idle") \/ d # c
  <2> SUFFICES ASSUME Goes(c, "idle"), d = c PROVE FALSE  OBVIOUS
  <2>1. call'[c] = NoCall  BY Ended DEF TypeOK
  <2> QED BY <1>1, <2>1 DEF NoCall
<1>4. CASE d = c /\ CodeCompared(c)
  <2>1. PICK pc \in {"use", "miss"} : Goes(c, pc)  BY <1>4 DEF CodeCompared
  <2>2. pc \in CallPCs \ {"idle"}  BY DEF CallPCs
  <2>3. Follows(call'[c], c, pc) /\ call'[c].row = call[c].row  BY <2>1, <2>2, GoesFields
  <2>4. call[c].pc = "compare"  BY <1>4 DEF CodeCompared, At
  <2> QED BY <1>1, <1>4, <2>3, <2>4 DEF Follows, Holding
<1>5. CASE d = c /\ CallLoadsUser(c)
  <2>1. PICK pc \in CallPCs : LoadsTo(call[c], user[call[c].user], pc) /\ Reads(c, pc)
    BY <1>3, <1>5, Loads
  <2>2. pc # "idle"  BY <2>1 DEF LoadsTo
  <2>3. Follows(call'[c], c, pc) /\ call'[c].row = user[call[c].user]
    BY <2>1, <2>2, ReadsFields
  <2> QED BY <1>1, <1>5, <2>1, <2>3 DEF Follows, LoadsTo
<1> QED BY <1>1, <1>2, <1>4, <1>5, Reaches DEF ReachedBy

\* Only a step on the code writes it, apart from the registration that makes the row.
LEMMA CodesStay ==
    ASSUME TypeOK, NEW c \in Calls, CallStep(c), ~CodeStep(c), ~RegisterCreates(c),
           NEW v \in Users
    PROVE  otp' = otp /\ user'[v].code = user[v].code /\ user'[v].attempts = user[v].attempts
<1>1. user[v] \in UserRow  BY DEF TypeOK
<1>2. CASE Arriving(c)
  <2>1. PICK k \in CallRow : Arrives(c, k)  BY <1>2, ArrivesTyped DEF Arriving, ArrivesSome
  <2> QED BY <2>1 DEF Arrives, rows
<1>3. CASE Quiet(c)  BY <1>3, QuietGoesOn DEF Only, rows
<1>4. CASE CallLoadsUser(c) \/ GuardReads(c) \/ TargetLoaded(c)
  BY <1>4 DEF CallLoadsUser, GuardReads, TargetLoaded, Only, rows
<1>5. CASE RegisterCounts(c)  BY <1>5 DEF RegisterCounts, rows
<1>6. CASE DeviceEntered(c)  BY <1>6 DEF DeviceEntered
<1>7. CASE PasswordWritten(c)
  <2> DEFINE u == call[c].user
  <2>1. u \in Users  BY <1>7, StandsAt DEF PasswordWritten, At, CallSound
  <2>2. user[u] \in UserRow  BY <2>1 DEF TypeOK
  <2>3. user' = [user EXCEPT ![u] = [user[u] EXCEPT !.password = call[c].guess]] /\ otp' = otp
    BY <1>7 DEF PasswordWritten
  <2> QED BY <1>1, <2>1, <2>2, <2>3 DEF TypeOK, UserRow
<1>8. CASE SecondFactorEnabled(c)
  <2> DEFINE u == call[c].user
  <2>1. u \in Users  BY <1>8, StandsAt DEF SecondFactorEnabled, At, CallSound
  <2>2. user[u] \in UserRow  BY <2>1 DEF TypeOK
  <2>3. user' = [user EXCEPT ![u] = [user[u] EXCEPT !.secured = TRUE]] /\ otp' = otp
    BY <1>8 DEF SecondFactorEnabled
  <2> QED BY <1>1, <2>1, <2>2, <2>3 DEF TypeOK, UserRow
<1>9. CASE RoleWritten(c)  BY <1>1, <1>9, WritesRole
<1> QED BY <1>2, <1>3, <1>4, <1>5, <1>6, <1>7, <1>8, <1>9, CallSteps

LEMMA CodesUntouched ==
    ASSUME TypeOK, CodesInv, NEW c \in Calls, CallStep(c), ~CodeStep(c), ~RegisterCreates(c)
    PROVE  CodesInv'
<1> SUFFICES ASSUME NEW u \in Users, ~otp'[u].crossed PROVE CodeSound(u)'
  BY DEF CodesInv
<1>1. /\ otp' = otp /\ user'[u].code = user[u].code
      /\ user'[u].attempts = user[u].attempts
  BY CodesStay
<1>2. CodeSound(u)  BY <1>1 DEF CodesInv
<1>3. \A d \in Holding(u)' : /\ call'[d].row.code = user[u].code /\ user[u].code # 0
                             /\ call'[d].row.attempts = user[u].attempts
  BY <1>2, HoldingStays DEF CodeSound
<1> QED BY <1>1, <1>2, <1>3 DEF CodeSound

LEMMA CodesAfterCreate ==
    ASSUME TypeOK, RowsInv, CodesInv, NEW c \in Calls, CallStep(c), RegisterCreates(c)
    PROVE  CodesInv'
<1> SUFFICES ASSUME NEW u \in Users, ~otp'[u].crossed PROVE CodeSound(u)'
  BY DEF CodesInv
<1>1. otp' = otp  BY DEF RegisterCreates
<1>2. CodeSound(u)  BY <1>1 DEF CodesInv
<1>3. call[c].pc = "create"  BY Creates
<1>4. \A d \in Holding(u)' : d \in Holding(u) /\ call'[d] = call[d]
  BY <1>3, HoldingStays DEF CodeCompared, CallLoadsUser, At
<1>5. CASE user'[u] = user[u]  BY <1>1, <1>2, <1>4, <1>5 DEF CodeSound
<1>6. CASE user'[u] # user[u]
  <2>1. ~user[u].exists /\ user'[u].code = 0  BY <1>6, Creates
  <2>2. Holding(u) = {}  BY <2>1 DEF RowsInv, Holding, Unread
  <2> QED BY <1>1, <1>2, <1>4, <2>1, <2>2 DEF CodeSound
<1> QED BY <1>5, <1>6

\* Whoever writes the code has been the only one to hold it, or it counts as crossed.
LEMMA CodesAfterCode ==
    ASSUME TypeOK, CodesInv, NEW c \in Calls, CallStep(c), CodeStep(c)
    PROVE  CodesInv'
<1> SUFFICES ASSUME NEW u \in Users, ~otp'[u].crossed PROVE CodeSound(u)'
  BY DEF CodesInv
<1> DEFINE w == call[c].user
<1>1. w \in Users  BY CodeSteps
<1>2. PICK columns \in UserRow, history \in OtpRow :
         CodeWritten(c, columns, history) /\ Writes(c, columns, history)
  BY CodeSteps
<1>3. Wrote(w, c, columns, history)  BY <1>1, <1>2, CodeWrites
<1>4. call[c].pc \in {"issue", "use", "miss", "cancel", "disable"}
  BY <1>2 DEF Writes, Issues, Uses, Misses, Drops
<1>5. \A d \in Holding(u)' : d # c /\ d \in Holding(u) /\ call'[d] = call[d]
  BY <1>4, HoldingStays DEF CodeCompared, CallLoadsUser, At
<1>6. CASE u # w
  <2>1. user'[u] = user[u] /\ otp'[u] = otp[u]  BY <1>3, <1>6 DEF Wrote
  <2>2. CodeSound(u)  BY <2>1 DEF CodesInv
  <2> QED BY <1>5, <2>1, <2>2 DEF CodeSound
<1>7. CASE u = w
  <2>1. ~history.crossed /\ Holding(u) \ {c} = {}  BY <1>3, <1>7 DEF Wrote
  <2>2. CodeSound(u)  BY <1>2, <1>7, <2>1 DEF CodesInv, Writes
  <2>3. Holding(u)' = {}  BY <1>5, <2>1
  <2>4. /\ user'[u] = columns /\ otp'[u].misses = history.misses
        /\ otp'[u].uses = history.uses
    BY <1>3, <1>7 DEF Wrote
  <2>5. call[c].pc \in {"use", "miss"} => c \in Holding(u)  BY <1>7 DEF Holding
  <2>6. OTP_MAX_ATTEMPTS \in Nat /\ OTP_MAX_ATTEMPTS > 0  BY AccountsAssumption
  <2>7. /\ otp[u].misses \in Nat /\ otp[u].uses \in Nat /\ user[u].attempts \in Nat
        /\ call[c].row.attempts \in Nat /\ user[u].code \in Nat
    BY DEF TypeOK, OtpRow, UserRow, CallRow
  <2>8. CASE Issues(c, columns, history)
    BY <1>7, <2>3, <2>4, <2>6, <2>8 DEF Issues, CodeSound
  <2>9. CASE Uses(c, columns, history)
    <3>1. otp[u].uses = 0 /\ otp[u].misses <= OTP_MAX_ATTEMPTS
      BY <2>2, <2>5, <2>9 DEF Uses, CodeSound
    <3>2. columns.code = 0 /\ history.uses = 1 /\ history.misses = otp[u].misses
      BY <1>7, <2>9, <3>1 DEF Uses
    <3> QED BY <2>3, <2>4, <3>1, <3>2 DEF CodeSound
  <2>10. CASE Misses(c, columns, history)
    <3> DEFINE n == call[c].row.attempts + 1
    <3>1. /\ otp[u].uses = 0 /\ otp[u].misses = user[u].attempts
          /\ user[u].attempts < OTP_MAX_ATTEMPTS /\ call[c].row.attempts = user[u].attempts
      BY <2>2, <2>5, <2>10 DEF Misses, CodeSound
    <3>2. history.uses = 0 /\ history.misses = n /\ n <= OTP_MAX_ATTEMPTS
      BY <1>7, <2>6, <2>7, <2>10, <3>1 DEF Misses
    <3>3. CASE n >= OTP_MAX_ATTEMPTS
      <4>1. columns.code = 0  BY <2>10, <3>3 DEF Misses
      <4> QED BY <2>3, <2>4, <3>2, <4>1 DEF CodeSound
    <3>4. CASE n < OTP_MAX_ATTEMPTS
      <4>1. columns.attempts = n  BY <2>10, <3>4 DEF Misses
      <4> QED BY <2>3, <2>4, <3>2, <3>4, <4>1 DEF CodeSound
    <3> QED BY <2>6, <2>7, <3>3, <3>4
  <2>11. CASE Drops(c, columns, history)
    BY <1>7, <2>2, <2>3, <2>4, <2>11 DEF Drops, CodeSound
  <2> QED BY <1>2, <2>8, <2>9, <2>10, <2>11 DEF Writes
<1> QED BY <1>6, <1>7

LEMMA CodesInit == Init => CodesInv
<1> SUFFICES ASSUME Init, NEW u \in Users PROVE CodeSound(u)  BY DEF CodesInv
<1>1. Holding(u) = {}  BY DEF Init, Holding, NoCall
<1>2. user[u].code = 0  BY RowsInit
<1>3. otp[u].uses = 0 /\ otp[u].misses = 0  BY DEF Init
<1> QED BY <1>1, <1>2, <1>3, AccountsAssumption DEF CodeSound

LEMMA CodesStep == TypeOK /\ RowsInv /\ CodesInv /\ [Next]_vars => CodesInv'
<1> SUFFICES ASSUME TypeOK, RowsInv, CodesInv, [Next]_vars PROVE CodesInv'  OBVIOUS
<1>1. ASSUME NEW c \in Calls, CallStep(c) PROVE CodesInv'
  BY <1>1, CodesUntouched, CodesAfterCreate, CodesAfterCode
<1>2. CASE Outside
  <2>1. \A u \in Users : user'[u].code = user[u].code /\ user'[u].attempts = user[u].attempts
    <3> TAKE u \in Users
    <3>1. user[u] \in UserRow  BY DEF TypeOK
    <3>2. user'[u] = user[u] \/ user'[u] = [user[u] EXCEPT !.fresh = FALSE]
      BY <1>2, OutsideKeeps
    <3> QED BY <3>1, <3>2 DEF UserRow
  <2>2. UNCHANGED <<call, otp>>  BY <1>2, OutsideKeeps
  <2> QED BY <2>1, <2>2 DEF CodesInv, CodeSound, Holding
<1>3. CASE UNCHANGED vars  BY <1>3 DEF vars, rows, CodesInv, CodeSound, Holding
<1> QED BY <1>1, <1>2, <1>3 DEF Next, Outside

\* A one-time code lets in once and stands a limited number of guesses, unless calls on one
\* account have crossed.
THEOREM CodesOneTime == Spec => []CodesAreOneTime
<1>1. Init => TypeOK /\ RowsInv /\ CodesInv  BY TypeInit, RowsInitially, CodesInit
<1>2. TypeOK /\ RowsInv /\ CodesInv /\ [Next]_vars => (TypeOK /\ RowsInv /\ CodesInv)'
  BY TypeStep, RowsStep, CodesStep
<1>3. CodesInv => CodesAreOneTime  BY DEF CodesInv, CodeSound, CodesAreOneTime
<1> QED BY <1>1, <1>2, <1>3, PTL DEF Spec
================================================================================
