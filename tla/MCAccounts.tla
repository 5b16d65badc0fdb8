------------------------------- MODULE MCAccounts -------------------------------
(* Instances of Accounts for TLC. *)
EXTENDS Accounts, TLC

CONSTANTS a, b, c

Symmetric == Permutations(Calls)

Case(users, secured, kinds, calls, changed) ==
    [users |-> users, secured |-> secured, kinds |-> kinds, calls |-> calls, changes |-> changed]

None == [u \in {} |-> DEFAULT]

\* Changes of role among two owners, an administrator and one another.
Reigns == {Case(a :> OWNER @@ b :> r, {}, {"change"}, 4, 0) : r \in Roles}
             \cup {Case(a :> OWNER @@ b :> OWNER @@ c :> "system_admin", {}, {"change"}, 3, 0)}

\* An empty archive, and the first changes of role in it.
Founded == {Case(None, {}, {"register"}, 4, 0), Case(None, {}, {"register", "change"}, 3, 0)}

\* One account with its codes, with and without a Reader.
Secured == {Case(a :> OWNER, s, {"login", "second factor"}, 5, 1) :
               s \in {{}, {a}}}
              \cup {Case(a :> OWNER, s, {"login", "reader"}, 4, 2) :
               s \in {{}, {a}}}

\* One account whose password changes, while others log in or turn the second factor on
\* and off.
Renewed == {Case(a :> OWNER, s, {"login", "password", "second factor"}, 4, 0) : s \in {{}, {a}}}

AllCases == Renewed \cup Reigns \cup Founded \cup Secured
=============================================================================
