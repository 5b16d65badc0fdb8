----------------------------- MODULE MCRenditions -----------------------------
(* Instances of Renditions for TLC. *)
EXTENDS Renditions, TLC

CONSTANTS s1, s2, v1, c1

Instance(type, first, second, calls, edits, deaths) ==
    [kind |-> type, asks |-> s1 :> first @@ s2 :> second, views |-> calls,
     admins |-> IF edits = 1 THEN {c1} ELSE Admins, changes |-> edits, crashes |-> deaths]

\* Two calls that share and miss each other's productions, with a change or a crash;
\* one call under racing administrators.
Some == {Instance("video", "scope", "scope", Views, 0, 1), Instance("video", "scope", "none", Views, 1, 0),
         Instance("image", "scope", "link", Views, 1, 0), Instance("audio", "link", "none", Views, 0, 1),
         Instance("video", "link", "none", {v1}, 2, 0), Instance("image", "text", "scope", {v1}, 2, 0)}
=============================================================================
