-------------------------- MODULE MCProtectedViewing --------------------------
(* Instances of ProtectedViewing for TLC. *)
EXTENDS ProtectedViewing, TLC

\* Openings and renditions are interchangeable; users are too, as long as one device
\* does not belong to one of them from the start.
Symmetric == Permutations(Views) \cup Permutations(Restrictions) \cup Permutations(Users)

Named   == ({view[v].user : v \in Views} \cup {restr[r].user : r \in Restrictions}) \ {Null}
Readers == ({view[v].device : v \in Views} \cup {req[q].device : q \in Requests}) \ {Null}

\* Only whether the one who views is let pass matters.
Callers == {view[v].user : v \in Views} \ {Null}
Relevant == Cardinality(viewers) <= 1 /\ (Callers # {} => viewers \subseteq Callers)

\* Two openings of one user, whom nothing but restrictions stops, race for quotas;
\* how long their sessions last does not matter.
Racing == /\ Cardinality(viewers) = 1 /\ Named \subseteq viewers /\ ~sensitive
          /\ approved = {} /\ Readers = {}
          /\ \A v \in Views : view[v].pc # "expired" /\ (view[v].pc = "live" => view[v].token)
          /\ \A q \in Requests : req[q].pc = "idle"

\* One session and its requests, under one restriction; a quota is never checked again.
Guarding == /\ Relevant
            /\ Cardinality({v \in Views : view[v].pc # "idle"}) <= 1
            /\ Cardinality({r \in Restrictions : restr[r].exists}) <= 1
            /\ \A r \in Restrictions : quotas[r] \subseteq {NoQuota}

Explored == Racing \/ Guarding
=============================================================================
