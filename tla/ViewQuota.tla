------------------------------ MODULE ViewQuota ------------------------------
(***************************************************************************)
(* What the archive promises about counted views, whatever mechanism       *)
(* counts them: an allowance (a viewing restriction or a share link) may   *)
(* carry a quota, an administrator may change the quota, and every opening *)
(* that is let through is charged to one allowance, once, and never beyond *)
(* the most generous quota that allowance has ever carried.                *)
(*                                                                         *)
(* ProtectedViewing and ShareLinks are shown to implement it.              *)
(***************************************************************************)
EXTENDS Naturals, FiniteSets

CONSTANTS Allowances,  \* what views are counted against
          Openings,    \* attempts to open the file
          MaxQuota     \* largest quota that can be set

VARIABLES quotas,      \* quotas[a]: every quota allowance a has carried
          charged      \* charged[a]: the openings counted against a

quotaVars == <<quotas, charged>>

NoQuota == 0           \* an allowance without a limit; real quotas start at 1

\* One more opening fits under some quota the allowance has carried.
HasRoom(n, carried) == NoQuota \in carried \/ \E q \in carried : n < q

Init == /\ quotas = [a \in Allowances |-> {}]
        /\ charged = [a \in Allowances |-> {}]

SetQuota(a, q) == /\ quotas' = [quotas EXCEPT ![a] = @ \cup {q}]
                  /\ UNCHANGED charged

Charge(a, o) == /\ \A b \in Allowances : o \notin charged[b]
                /\ HasRoom(Cardinality(charged[a]), quotas[a])
                /\ charged' = [charged EXCEPT ![a] = @ \cup {o}]
                /\ UNCHANGED quotas

Next == \E a \in Allowances : \/ \E q \in 0..MaxQuota : SetQuota(a, q)
                              \/ \E o \in Openings : Charge(a, o)

Spec == Init /\ [][Next]_quotaVars
=============================================================================
