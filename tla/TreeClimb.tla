------------------------------- MODULE TreeClimb -------------------------------
(***************************************************************************)
(* What FoldersService and TagsService do with their trees: a table of     *)
(* rows that name their parent, the climb of isAncestor (one query per     *)
(* row, so the tree may change under it) and the listing of listTree.      *)
(* A tree is a function from row to parent; Null is SQL NULL.              *)
(***************************************************************************)
EXTENDS Naturals, FiniteSets

CONSTANT Null

\* isAncestor starts at the row that is to be the new parent.
ClimbFrom(node) == [at |-> node, seen |-> {}]

\* Faulty: looks at the new parent's own parent only.
ClimbLooksOnce(parent, goal, climb) ==
    IF parent[climb.at] = goal THEN [climb EXCEPT !.at = goal] ELSE [climb EXCEPT !.at = Null]

\* One findUnique and the loop body: at is the row to read next, Null when the climb is over
\* without meeting goal, goal when it has met it.
Climb(parent, goal, climb) ==
    LET up == parent[climb.at]
    IN  IF up = goal THEN [climb EXCEPT !.at = goal]
        ELSE IF up = Null \/ up \in climb.seen THEN [climb EXCEPT !.at = Null]
        ELSE [at |-> up, seen |-> climb.seen \cup {up}]

\* The rows listTree hangs below a root: a row is a root if its parent is not among rows.
Listed(rows, parent) ==
    LET below[n \in 0..Cardinality(rows)] ==
            IF n = 0 THEN {r \in rows : parent[r] \notin rows}
            ELSE below[n - 1] \cup {r \in rows : parent[r] \in below[n - 1]}
    IN  below[Cardinality(rows)]
=============================================================================
