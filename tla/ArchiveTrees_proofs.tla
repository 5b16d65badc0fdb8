------------------------- MODULE ArchiveTrees_proofs -------------------------
(***************************************************************************)
(* Theorems about ArchiveTrees, for any number of folders, tags, files and *)
(* calls under way.                                                        *)
(***************************************************************************)
EXTENDS ArchiveTrees, TLAPS, FiniteSetTheorems, WellFoundedInduction

-----------------------------------------------------------------------------
(* Induction, from the well-foundedness of the order on Nat                *)

LEMMA LeastElement ==
    ASSUME NEW T, T \subseteq Nat, T # {}
    PROVE  \E x \in T : \A y \in T : x <= y
<1> DEFINE R == OpToRel(<, Nat)
<1>1. IsWellFoundedOn(R, Nat)  BY NatLessThanWellFounded
<1>2. \A x, y \in Nat : x < y => <<x, y>> \in R  BY DEF OpToRel
<1> HIDE DEF R
<1>3. PICK x \in T : \A y \in T : <<y, x>> \notin R  BY <1>1, WFMin
<1>4. ASSUME NEW y \in T PROVE x <= y
  <2>1. ~(y < x)  BY <1>2, <1>3
  <2>2. x \in Int /\ y \in Int  OBVIOUS
  <2> QED BY <2>1, <2>2
<1> QED BY <1>4

LEMMA Induction ==
    ASSUME NEW G, 0 \in G, \A n \in Nat : n \in G => n + 1 \in G
    PROVE  Nat \subseteq G
<1> SUFFICES ASSUME Nat \ G # {} PROVE FALSE  OBVIOUS
<1>1. PICK x \in Nat \ G : \A y \in Nat \ G : x <= y  BY LeastElement
<1>2. x - 1 \in Nat /\ x - 1 \in G  BY <1>1
<1> QED BY <1>2

\* A function on a set can be iterated.
LEMMA Iterates ==
    ASSUME NEW X, NEW F \in [X -> X], NEW a \in X, NEW N \in Nat
    PROVE  \E g \in [0..N -> X] : g[0] = a /\ \A n \in 0..(N - 1) : g[n + 1] = F[g[n]]
<1> DEFINE Good(g, k) == /\ g \in [0..k -> X] /\ g[0] = a
                         /\ \A n \in 0..(k - 1) : g[n + 1] = F[g[n]]
           G == {k \in Nat : \E g : Good(g, k)}
<1>1. 0 \in G
  <2>1. Good([n \in 0..0 |-> a], 0)  OBVIOUS
  <2> QED BY <2>1
<1>2. ASSUME NEW k \in Nat, k \in G PROVE k + 1 \in G
  <2>1. PICK g : Good(g, k)  BY <1>2
  <2> DEFINE h == [n \in 0..(k + 1) |-> IF n = k + 1 THEN F[g[k]] ELSE g[n]]
  <2>2. F[g[k]] \in X  BY <2>1
  <2>3. \A n \in 0..(k + 1) : n # k + 1 => n \in 0..k  OBVIOUS
  <2>4. h \in [0..(k + 1) -> X]  BY <2>1, <2>2, <2>3
  <2>5. h[0] = a  BY <2>1
  <2>6. ASSUME NEW n \in 0..k PROVE h[n + 1] = F[h[n]]
    <3>1. h[n] = g[n]  OBVIOUS
    <3>2. CASE n = k  BY <3>1, <3>2
    <3>3. CASE n # k
      <4>1. n \in 0..(k - 1) /\ n + 1 # k + 1 /\ n + 1 \in 0..(k + 1)  BY <3>3
      <4> QED BY <2>1, <3>1, <4>1
    <3> QED BY <3>2, <3>3
  <2>7. (k + 1) - 1 = k  OBVIOUS
  <2> HIDE DEF h
  <2>8. Good(h, k + 1)  BY <2>4, <2>5, <2>6, <2>7
  <2> QED BY <2>8
<1> HIDE DEF G
<1>3. N \in G  BY <1>1, <1>2, Induction
<1> QED BY <1>3 DEF G

Iterable(X) == \A F \in [X -> X] : \A a \in X : \A N \in Nat :
                  \E g \in [0..N -> X] : g[0] = a /\ \A n \in 0..(N - 1) : g[n + 1] = F[g[n]]

LEMMA AllIterable == \A X : Iterable(X)
BY Iterates DEF Iterable

\* What satisfies the equation of a recursion step by step is the iteration.
LEMMA SameRun ==
    ASSUME NEW N \in Nat, NEW u, NEW g, u[0] = g[0],
           \A n \in 0..(N - 1) : u[n] = g[n] => u[n + 1] = g[n + 1]
    PROVE  u[N] = g[N]
<1> DEFINE G == {n \in Nat : n <= N => u[n] = g[n]}
<1>1. 0 \in G  OBVIOUS
<1>2. ASSUME NEW n \in Nat, n \in G PROVE n + 1 \in G
  <2> SUFFICES ASSUME n + 1 <= N PROVE u[n + 1] = g[n + 1]  OBVIOUS
  <2>1. n \in 0..(N - 1) /\ n <= N  OBVIOUS
  <2> QED BY <1>2, <2>1
<1> HIDE DEF G
<1>3. N \in G  BY <1>1, <1>2, Induction
<1> QED BY <1>3 DEF G

-----------------------------------------------------------------------------
(* Trees                                                                   *)

\* No row lies above itself: whatever rows one takes, the parent of one is not among them.
Founded(rows, parent) == \A S \in SUBSET rows : S # {} => \E x \in S : parent[x] \notin S

Roots(rows, parent)   == {r \in rows : parent[r] \notin rows}
Hang(rows, parent, S) == S \cup {r \in rows : parent[r] \in S}

\* listTree hangs rows below the roots step by step.
LEMMA ListedDescends ==
    ASSUME NEW rows, IsFiniteSet(rows), NEW parent
    PROVE  \E g \in [0..Cardinality(rows) -> SUBSET rows] :
              /\ g[0] = Roots(rows, parent)
              /\ \A n \in 0..(Cardinality(rows) - 1) : g[n + 1] = Hang(rows, parent, g[n])
              /\ Listed(rows, parent) = g[Cardinality(rows)]
<1> DEFINE N     == Cardinality(rows)
           X     == SUBSET rows
           R     == Roots(rows, parent)
           F     == [S \in X |-> Hang(rows, parent, S)]
           Eq(u) == u = [n \in 0..N |-> IF n = 0 THEN {r \in rows : parent[r] \notin rows}
                                        ELSE u[n - 1] \cup {r \in rows : parent[r] \in u[n - 1]}]
           below == CHOOSE u : Eq(u)
<1>1. Listed(rows, parent) = below[N]  BY DEF Listed
<1>2. N \in Nat  BY FS_CardinalityType
<1>3. F \in [X -> X] /\ R \in X /\ \A S \in X : F[S] = Hang(rows, parent, S)
  BY DEF Hang, Roots
<1> HIDE DEF F, N, X, R
<1>4. PICK g \in [0..N -> X] : g[0] = R /\ \A n \in 0..(N - 1) : g[n + 1] = F[g[n]]
  <2>1. Iterable(X)  BY AllIterable
  <2>2. \A b \in X : \A M \in Nat :
          \E g \in [0..M -> X] : g[0] = b /\ \A n \in 0..(M - 1) : g[n + 1] = F[g[n]]
    BY <1>3, <2>1 DEF Iterable
  <2> QED BY <1>2, <1>3, <2>2
<1>5. \A n \in 0..(N - 1) : g[n + 1] = Hang(rows, parent, g[n])
  <2>1. \A n \in 0..(N - 1) : n \in 0..N  BY <1>2
  <2> QED BY <1>3, <1>4, <2>1
<1>6. Eq(g)
  <2>1. ASSUME NEW n \in 0..N, n # 0 PROVE g[n] = Hang(rows, parent, g[n - 1])
    <3>1. n - 1 \in 0..(N - 1) /\ (n - 1) + 1 = n  BY <1>2, <2>1
    <3>2. g[(n - 1) + 1] = Hang(rows, parent, g[n - 1])  BY <1>5, <3>1
    <3> QED BY <3>1, <3>2
  <2>2. g[0] = {r \in rows : parent[r] \notin rows}  BY <1>4 DEF R, Roots
  <2> QED BY <1>2, <1>4, <2>1, <2>2 DEF Hang
<1> HIDE DEF Eq
<1>7. Eq(below)  BY <1>6
<1> HIDE DEF below
<1> USE DEF Eq
<1>8. below[0] = R  BY <1>2, <1>7 DEF R, Roots
<1>9. ASSUME NEW n \in 0..(N - 1) PROVE below[n + 1] = Hang(rows, parent, below[n])
  <2>1. n + 1 \in 0..N /\ n + 1 # 0 /\ (n + 1) - 1 = n  BY <1>2
  <2> QED BY <1>7, <2>1 DEF Hang
<1>10. \A n \in 0..(N - 1) : below[n] = g[n] => below[n + 1] = g[n + 1]  BY <1>5, <1>9
<1>11. below[0] = g[0]  BY <1>4, <1>8
<1>12. below[N] = g[N]  BY <1>2, <1>10, <1>11, SameRun
<1> QED BY <1>1, <1>4, <1>5, <1>12 DEF N, X, R

\* After as many steps as there are rows another one adds nothing.
LEMMA HangingStops ==
    ASSUME NEW rows, IsFiniteSet(rows), NEW parent,
           NEW N \in Nat, Cardinality(rows) <= N, NEW g \in [0..N -> SUBSET rows],
           \A n \in 0..(N - 1) : g[n + 1] = Hang(rows, parent, g[n])
    PROVE  /\ g[N] \in SUBSET rows /\ g[0] \subseteq g[N]
           /\ \A r \in rows : parent[r] \in g[N] => r \in g[N]
<1> DEFINE Still(S) == Hang(rows, parent, S) = S
           Big(n)   == Still(g[n]) \/ Cardinality(g[n]) >= n + 1
           G        == {n \in Nat : n <= N => Big(n) /\ g[0] \subseteq g[n]}
<1>1. \A S \in SUBSET rows : IsFiniteSet(S) /\ Cardinality(S) \in Nat /\ Cardinality(S) <= N
  <2>1. Cardinality(rows) \in Nat  BY FS_CardinalityType
  <2>2. ASSUME NEW S \in SUBSET rows
        PROVE  IsFiniteSet(S) /\ Cardinality(S) \in Nat /\ Cardinality(S) <= Cardinality(rows)
    BY FS_Subset, FS_CardinalityType
  <2> QED BY <2>1, <2>2
<1>2. 0 \in G
  <2>1. g[0] \in SUBSET rows  OBVIOUS
  <2>2. CASE g[0] = {}  BY <2>2 DEF Hang
  <2>3. CASE g[0] # {}
    <3>1. Cardinality(g[0]) # 0  BY <1>1, <2>1, <2>3, FS_EmptySet
    <3>2. Cardinality(g[0]) >= 0 + 1  BY <1>1, <2>1, <3>1
    <3> QED BY <3>2
  <2> QED BY <2>2, <2>3
<1>3. ASSUME NEW n \in Nat, n \in G PROVE n + 1 \in G
  <2> SUFFICES ASSUME n + 1 <= N PROVE Big(n + 1) /\ g[0] \subseteq g[n + 1]
    OBVIOUS
  <2>1. n \in 0..(N - 1) /\ n <= N /\ n \in 0..N /\ n + 1 \in 0..N  OBVIOUS
  <2>2. Big(n) /\ g[0] \subseteq g[n]  BY <1>3, <2>1
  <2>3. g[n + 1] = Hang(rows, parent, g[n])  BY <2>1
  <2>4. g[n] \in SUBSET rows /\ g[n + 1] \in SUBSET rows  BY <2>1
  <2>5. g[n] \subseteq g[n + 1]  BY <2>3 DEF Hang
  <2>6. CASE Still(g[n])  BY <2>2, <2>3, <2>6
  <2>7. CASE ~Still(g[n])
    <3>1. Cardinality(g[n]) >= n + 1 /\ g[n] # g[n + 1]  BY <2>2, <2>3, <2>7
    <3>2. /\ Cardinality(g[n]) <= Cardinality(g[n + 1])
          /\ Cardinality(g[n]) = Cardinality(g[n + 1]) => g[n + 1] = g[n]
      BY <1>1, <2>4, <2>5, FS_Subset
    <3>3. Cardinality(g[n]) \in Nat /\ Cardinality(g[n + 1]) \in Nat  BY <1>1, <2>4
    <3>4. Cardinality(g[n + 1]) >= (n + 1) + 1  BY <3>1, <3>2, <3>3
    <3> QED BY <2>2, <2>5, <3>4
  <2> QED BY <2>6, <2>7
<1> HIDE DEF G
<1>4. N \in G  BY <1>2, <1>3, Induction
<1>5. Big(N) /\ g[0] \subseteq g[N]  BY <1>4 DEF G
<1>6. g[N] \in SUBSET rows  OBVIOUS
<1>7. Still(g[N])
  <2>1. Cardinality(g[N]) \in Nat /\ Cardinality(g[N]) <= N  BY <1>1, <1>6
  <2> QED BY <1>5, <2>1
<1> QED BY <1>5, <1>6, <1>7 DEF Hang

LEMMA ListedStops ==
    ASSUME NEW rows, IsFiniteSet(rows), NEW parent
    PROVE  /\ Listed(rows, parent) \subseteq rows
           /\ Roots(rows, parent) \subseteq Listed(rows, parent)
           /\ \A r \in rows : parent[r] \in Listed(rows, parent) => r \in Listed(rows, parent)
<1>1. PICK N \in Nat : N = Cardinality(rows)  BY FS_CardinalityType
<1>2. PICK R \in SUBSET rows : R = Roots(rows, parent)  BY DEF Roots
<1>3. PICK g \in [0..N -> SUBSET rows] :
         /\ g[0] = R
         /\ \A n \in 0..(N - 1) : g[n + 1] = Hang(rows, parent, g[n])
         /\ Listed(rows, parent) = g[N]
  BY <1>1, <1>2, ListedDescends
<1>4. Cardinality(rows) <= N  BY <1>1
<1>5. \A n \in 0..(N - 1) : g[n + 1] = Hang(rows, parent, g[n])  BY <1>3
<1>6. /\ g[N] \in SUBSET rows /\ g[0] \subseteq g[N]
      /\ \A r \in rows : parent[r] \in g[N] => r \in g[N]
  BY <1>4, <1>5, HangingStops
<1> QED BY <1>2, <1>3, <1>6

\* Without a cycle every row is listed ...
LEMMA FoundedIsListed ==
    ASSUME NEW all, NEW rows \in SUBSET all, IsFiniteSet(rows), NEW parent, Founded(all, parent)
    PROVE  Listed(rows, parent) = rows
<1> DEFINE S == rows \ Listed(rows, parent)
<1>1. /\ Listed(rows, parent) \subseteq rows
      /\ Roots(rows, parent) \subseteq Listed(rows, parent)
      /\ \A r \in rows : parent[r] \in Listed(rows, parent) => r \in Listed(rows, parent)
  BY ListedStops
<1>2. ASSUME NEW x \in S PROVE parent[x] \in S  BY <1>1 DEF Roots
<1>3. S = {}  BY <1>2 DEF Founded
<1> QED BY <1>1, <1>3

\* ... and the other way round.
LEMMA ListedIsFounded ==
    ASSUME NEW rows, IsFiniteSet(rows), NEW parent, Listed(rows, parent) = rows
    PROVE  Founded(rows, parent)
<1> SUFFICES ASSUME NEW S \in SUBSET rows, S # {} PROVE \E x \in S : parent[x] \notin S
  BY DEF Founded
<1> DEFINE N == Cardinality(rows)
<1>1. N \in Nat  BY FS_CardinalityType
<1>2. PICK g \in [0..N -> SUBSET rows] :
         /\ g[0] = Roots(rows, parent)
         /\ \A n \in 0..(N - 1) : g[n + 1] = Hang(rows, parent, g[n])
         /\ Listed(rows, parent) = g[N]
  BY ListedDescends
<1> HIDE DEF N
<1> DEFINE T == {n \in 0..N : g[n] \cap S # {}}
<1>3. T \subseteq Nat /\ N \in T  BY <1>1, <1>2
<1>4. PICK n \in T : \A m \in T : n <= m  BY <1>3, LeastElement
<1>5. PICK x \in S : x \in g[n]  BY <1>4
<1>6. CASE n = 0  BY <1>2, <1>5, <1>6 DEF Roots
<1>7. CASE n # 0
  <2> DEFINE k == n - 1
  <2>1. k \in 0..(N - 1) /\ k + 1 = n /\ k \in 0..N /\ ~(n <= k)  BY <1>1, <1>7
  <2>2. g[k] \cap S = {}  BY <1>4, <2>1
  <2> HIDE DEF k
  <2>3. g[n] = Hang(rows, parent, g[k])  BY <1>2, <2>1
  <2>4. parent[x] \in g[k]  BY <1>5, <2>2, <2>3 DEF Hang
  <2> QED BY <2>2, <2>4
<1> QED BY <1>6, <1>7

-----------------------------------------------------------------------------
(* The invariant: folders                                                  *)

FolderRow     == [exists : BOOLEAN, trashed : BOOLEAN, parent : Folders \cup {Null}]
FolderCallRow == [op : {"none", "create", "move", "softDelete", "restore"},
                  pc : {"idle", "find", "parent", "climb", "count", "write"},
                  id : Folders \cup {Null}, to : Folders \cup {Null},
                  climb : [at : Folders \cup {Null}, seen : SUBSET Folders]]

FolderTypes == /\ folder \in [Folders -> FolderRow]
               /\ folderCall \in [FolderCalls -> FolderCallRow]
               /\ movesRaced \in BOOLEAN /\ trashRaced \in BOOLEAN

\* Where a call of each kind can be.
FolderShape(k) == /\ (k.op = "none") <=> (k.pc = "idle")
                  /\ k.pc = "idle" => k = NoFolderCall
                  /\ k.pc # "idle" => k.id \in Folders
                  /\ k.pc = "find" => k.op # "create"
                  /\ k.pc = "parent" => k.op # "softDelete" /\ k.to # Null
                  /\ k.pc = "climb" => k.op = "move" /\ k.to # Null /\ k.climb.at # Null
                  /\ k.pc = "count" => k.op = "softDelete"
                  /\ k.op = "move" /\ k.pc \in {"find", "parent"} => k.climb = ClimbFrom(k.to)

\* What is referred to is there; what is to be created is not.
ParentsThere == \A f \in Folders : /\ ~folder[f].exists => folder[f].parent = Null
                                   /\ folder[f].parent # Null => folder[folder[f].parent].exists
CallThere(k) == k.pc # "idle" => /\ folder[k.id].exists <=> (k.op # "create")
                                 /\ k.to # Null => folder[k.to].exists
                                 /\ \A x \in k.climb.seen : folder[x].exists
IdsApart     == \A c, d \in FolderCalls :
                   c # d /\ folderCall[c].op = "create" => folderCall[d].id # folderCall[c].id

\* What a climb has passed: closed under parents, up to the row to be read next.
Passed(k)            == {k.to} \cup k.climb.seen
Climbing(k, parent)  == /\ k.climb.at \in Passed(k)
                        /\ \A x \in Passed(k) \ {k.climb.at} : parent[x] \in Passed(k)
Climbed(k, parent)   == \A x \in Passed(k) : parent[x] \in Passed(k) \cup {Null}
MoveStands(k, parent) ==
    /\ k.pc = "climb" => Climbing(k, parent)
    /\ k.pc \in {"parent", "climb", "name", "write"} => k.id \notin Passed(k)
    /\ k.pc \in {"name", "write"} => Climbed(k, parent)

\* What a call knows as long as no two calls that set a parent have overlapped ...
MoveKnows(k)  == /\ k.op = "restore" /\ k.pc \in {"parent", "write"}
                       => k.to \in {Null, folder[k.id].parent}
                 /\ k.op = "move" /\ k.to # Null => MoveStands(k, FolderParent)
MovesStand    == /\ Founded(Folders, FolderParent)
                 /\ \A c, d \in FolderCalls :
                       Under(c, {"move", "restore"}) /\ Under(d, {"move", "restore"}) => c = d
                 /\ \A c \in FolderCalls : MoveKnows(folderCall[c])

\* ... and as long as no softDelete has overlapped a call that places a folder.
Places        == {"create", "move", "restore"}
TrashKnows(k) == /\ k.op = "softDelete" /\ k.pc = "write"
                       => \A f \in Folders : Active(f) => folder[f].parent # k.id
                 /\ k.op \in Places /\ k.pc \in {"climb", "write"} /\ k.to # Null => Active(k.to)
HungOnActive  == \A f \in Folders : Active(f) /\ folder[f].parent # Null => Active(folder[f].parent)
TrashStands   == /\ HungOnActive
                 /\ \A c, d \in FolderCalls : Under(c, {"softDelete"}) => ~Under(d, Places)
                 /\ \A c \in FolderCalls : TrashKnows(folderCall[c])

FolderInv == /\ FolderTypes
             /\ \A c \in FolderCalls : FolderShape(folderCall[c])
             /\ ParentsThere /\ IdsApart
             /\ \A c \in FolderCalls : CallThere(folderCall[c])
             /\ movesRaced \/ MovesStand
             /\ trashRaced \/ TrashStands

-----------------------------------------------------------------------------
(* The invariant: tags                                                     *)

TagRow     == [exists : BOOLEAN, parent : Tags \cup {Null}, name : Names \cup {Null}]
TagCallRow == [op : {"none", "create", "rename", "move", "remove"},
               pc : {"idle", "find", "parent", "climb", "name", "write"},
               id : Tags \cup {Null}, to : Tags \cup {Null},
               name : Names \cup {Null}, read : Names \cup {Null},
               climb : [at : Tags \cup {Null}, seen : SUBSET Tags]]

TagTypes == /\ tag \in [Tags -> TagRow]
            /\ fileTag \in SUBSET (Files \X Tags)
            /\ tagCall \in [TagCalls -> TagCallRow]
            /\ tagsRaced \in BOOLEAN

TagShape(k) == /\ (k.op = "none") <=> (k.pc = "idle")
               /\ k.pc = "idle" => k = NoTagCall
               /\ k.pc # "idle" => k.id \in Tags
               /\ k.pc = "find" => k.op # "create"
               /\ k.pc = "parent" => k.op \in {"create", "move"} /\ k.to # Null
               /\ k.pc = "climb" => k.op = "move" /\ k.to # Null /\ k.climb.at # Null
               /\ k.op = "remove" => k.pc \in {"find", "write"}
               /\ k.op = "create" => k.name # Null
               /\ k.op = "move" /\ k.pc \in {"find", "parent"} => k.climb = ClimbFrom(k.to)

\* The tables refer to nothing that is gone, whatever calls overlap.
TagsThere == /\ \A t \in Tags : ~tag[t].exists => tag[t] = NoTag
             /\ \A t \in Tags : tag[t].parent \in TagRows \cup {Null}
             /\ \A p \in fileTag : p[2] \in TagRows

NoTwins == \A t, x \in TagRows : tag[t].parent = tag[x].parent /\ tag[t].name = tag[x].name => t = x

\* What a call on a tag knows when no other is under way.
CallKnows(k) ==
    /\ tag[k.id].exists <=> (k.op # "create")
    /\ k.to # Null => tag[k.to].exists
    /\ k.op = "rename" /\ k.pc # "find" => k.to = tag[k.id].parent
    /\ k.op \in {"rename", "move"} /\ k.pc # "find" => k.read = tag[k.id].name
    /\ k.op = "remove" /\ k.pc = "write" => \A x \in TagRows : tag[x].parent # k.id
    /\ k.op # "remove" /\ k.pc = "write" => Siblings(k.to, FinalName(k), k.id) = {}
    /\ k.op = "move" /\ k.to # Null => MoveStands(k, TagParent)

TagsStand == /\ Founded(Tags, TagParent)
             /\ NoTwins
             /\ \A c, d \in TagCalls : tagCall[c].pc # "idle" /\ tagCall[d].pc # "idle" => c = d
             /\ \A c \in TagCalls : tagCall[c].pc # "idle" => CallKnows(tagCall[c])

TagInv == /\ TagTypes
          /\ \A c \in TagCalls : TagShape(tagCall[c])
          /\ TagsThere
          /\ tagsRaced \/ TagsStand

-----------------------------------------------------------------------------
(* The invariant: files                                                    *)

FileRow     == [exists : BOOLEAN, trashed : BOOLEAN, folder : Folders \cup {Null}]
FileCallRow == [op : {"none", "ingest", "softDelete", "restore", "merge"},
                pc : {"idle", "find", "folder", "tags", "create", "write", "removals", "loop"},
                id : Files \cup {Null}, folder : Folders \cup {Null},
                ids : SUBSET (Files \cup Tags), todo : SUBSET [file : Files, tags : SUBSET Tags],
                has : SUBSET Tags]

FileTypes == /\ file \in [Files -> FileRow]
             /\ fileCall \in [FileCalls -> FileCallRow]
             /\ binned \in SUBSET Files
             /\ merged \in SUBSET [keep : Files, file : Files, tags : SUBSET Tags]
             /\ mergesRaced \in BOOLEAN

FileShape(k) == /\ (k.op = "none") <=> (k.pc = "idle")
                /\ k.pc # "idle" => k.id \in Files
                /\ k.pc = "find" => k.op # "ingest"
                /\ k.pc = "folder" => k.op \in {"ingest", "restore"} /\ k.folder # Null
                /\ k.pc = "write" => k.op \in {"softDelete", "restore"}
                /\ k.pc \in {"tags", "create"} => k.op = "ingest"
                /\ k.pc \in {"removals", "loop"} => k.op = "merge"
                /\ k.op = "ingest" => k.ids \subseteq Tags
                /\ k.op = "merge" => k.ids \subseteq Files \ {k.id}

\* A merge knows tags that are there, and copies of the file it keeps.
MergeKnows(k) ==
    /\ k.pc \in {"removals", "loop"} => k.has \subseteq TagsOf(k.id)
    /\ k.pc = "loop" => \A r \in k.todo : /\ r.file # k.id /\ HashOf[r.file] = HashOf[k.id]
                                          /\ r.tags \subseteq TagsOf(r.file)
    /\ k.pc \in {"removals", "loop"} => mergesRaced \/ ActiveFile(k.id) \/ k.id \in binned

FileInv == /\ FileTypes
           /\ \A c \in FileCalls : FileShape(fileCall[c])
           /\ \A c \in FileCalls : MergeKnows(fileCall[c])
           /\ mergesRaced \/ \A c, d \in FileCalls :
                                fileCall[c].op = "merge" /\ fileCall[d].op = "merge" => c = d
           /\ MergesLoseNothing

IInv == FolderInv /\ TagInv /\ FileInv

-----------------------------------------------------------------------------
(* Files and merges                                                        *)

LEMMA TagsOnlyGrow == ASSUME fileTag \subseteq fileTag', NEW f PROVE TagsOf(f) \subseteq TagsOf(f)'
BY DEF TagsOf

\* What a merge knows outlives the steps of other calls.
LEMMA StillKnown ==
    ASSUME FileTypes, NEW d \in FileCalls, fileCall'[d] = fileCall[d], MergeKnows(fileCall[d]),
           FileShape(fileCall[d]), fileTag \subseteq fileTag', mergesRaced => mergesRaced',
           fileCall[d].pc \in {"removals", "loop"} =>
               \A f \in Files : ActiveFile(f) \/ f \in binned
                                   => mergesRaced' \/ ActiveFile(f)' \/ f \in binned'
    PROVE  MergeKnows(fileCall[d])'
<1> PICK k \in FileCallRow : k = fileCall[d]  BY DEF FileTypes
<1>1. MergeKnows(k) /\ FileShape(k)  OBVIOUS
<1>2. ASSUME k.pc \in {"removals", "loop"} PROVE k.has \subseteq TagsOf(k.id)'
  BY <1>1, <1>2, TagsOnlyGrow DEF MergeKnows
<1>3. ASSUME k.pc = "loop", NEW r \in k.todo
      PROVE  r.file # k.id /\ HashOf[r.file] = HashOf[k.id] /\ r.tags \subseteq TagsOf(r.file)'
  BY <1>1, <1>3, TagsOnlyGrow DEF MergeKnows
<1>4. ASSUME k.pc \in {"removals", "loop"}
      PROVE  mergesRaced' \/ ActiveFile(k.id)' \/ k.id \in binned'
  <2>1. k.id \in Files  BY <1>1, <1>4 DEF FileShape
  <2>2. mergesRaced \/ ActiveFile(k.id) \/ k.id \in binned  BY <1>1, <1>4 DEF MergeKnows
  <2> QED BY <1>4, <2>1, <2>2
<1>5. MergeKnows(k)'  BY <1>2, <1>3, <1>4 DEF MergeKnows
<1> QED BY <1>5

\* The content that was trashed stays known as long as files stay.
LEMMA StillMerged ==
    ASSUME MergesLoseNothing, merged' = merged, fileTag \subseteq fileTag', mergesRaced => mergesRaced',
           \A f \in Files : ActiveFile(f) \/ f \in binned => ActiveFile(f)' \/ f \in binned'
    PROVE  MergesLoseNothing'
<1> SUFFICES ASSUME NEW m \in merged
             PROVE  /\ m.tags \subseteq TagsOf(m.keep)'
                    /\ \/ mergesRaced'
                       \/ \E f \in Files : HashOf[f] = HashOf[m.file] /\ (ActiveFile(f)' \/ f \in binned')
  BY DEF MergesLoseNothing
<1>1. m.tags \subseteq TagsOf(m.keep)'  BY TagsOnlyGrow DEF MergesLoseNothing
<1>2. \/ mergesRaced
      \/ \E f \in Files : HashOf[f] = HashOf[m.file] /\ (ActiveFile(f) \/ f \in binned)
  BY DEF MergesLoseNothing
<1> QED BY <1>1, <1>2

\* One call goes on, and the others still know what they know.
LEMMA FileCallMoves ==
    ASSUME FileInv, NEW c \in FileCalls, NEW k \in FileCallRow,
           fileCall' = [fileCall EXCEPT ![c] = k], FileShape(k), k.op \in {fileCall[c].op, "none"},
           mergesRaced' = mergesRaced, file' \in [Files -> FileRow], binned' \in SUBSET Files,
           merged' \in SUBSET [keep : Files, file : Files, tags : SUBSET Tags],
           MergesLoseNothing', MergeKnows(fileCall[c])',
           \A d \in FileCalls \ {c} : MergeKnows(fileCall[d])'
    PROVE  FileInv'
<1>1. FileTypes'  BY DEF FileInv, FileTypes
<1>2. \A d \in FileCalls : fileCall'[d] = IF d = c THEN k ELSE fileCall[d]
  BY DEF FileInv, FileTypes
<1>3. \A d \in FileCalls : FileShape(fileCall'[d])  BY <1>2 DEF FileInv
<1>4. \A d \in FileCalls : MergeKnows(fileCall[d])'  OBVIOUS
<1>5. mergesRaced' \/ \A d, e \in FileCalls :
                        fileCall'[d].op = "merge" /\ fileCall'[e].op = "merge" => d = e
  <2>1. \A d \in FileCalls : fileCall'[d].op = "merge" => fileCall[d].op = "merge"  BY <1>2
  <2> QED BY <2>1 DEF FileInv
<1> QED BY <1>1, <1>3, <1>4, <1>5 DEF FileInv, FileShape

LEMMA FileRequestKeeps == ASSUME FileInv, NEW c \in FileCalls, FileRequest(c) PROVE FileInv'
<1>1. UNCHANGED <<fileTag, file, binned, merged>> /\ mergesRaced \in BOOLEAN /\ mergesRaced' \in BOOLEAN
  BY DEF FileRequest, FileCallBegins, tagVars, FileInv, FileTypes
<1>2. PICK op \in {"ingest", "softDelete", "restore", "merge"}, id \in Files,
           where \in Folders \cup {Null}, ids \in SUBSET (Files \cup Tags) :
         /\ FileCallBegins(c, op, id, where, ids)
         /\ op = "ingest" => ids \subseteq Tags
         /\ op = "merge" => ids \subseteq Files \ {id}
  <2>1. PICK id \in Files :
           \/ \E op \in {"softDelete", "restore"} : FileCallBegins(c, op, id, Null, {})
           \/ \E copies \in SUBSET (Files \ {id}) : FileCallBegins(c, "merge", id, Null, copies)
           \/ \E where \in Folders \cup {Null}, tags \in SUBSET TagRows :
                 FileCallBegins(c, "ingest", id, where, tags)
    BY DEF FileRequest
  <2>2. TagRows \subseteq Tags  BY DEF TagRows
  <2>3. CASE \E op \in {"softDelete", "restore"} : FileCallBegins(c, op, id, Null, {})  BY <2>3
  <2>4. CASE \E copies \in SUBSET (Files \ {id}) : FileCallBegins(c, "merge", id, Null, copies)
    <3>1. PICK copies \in SUBSET (Files \ {id}) : FileCallBegins(c, "merge", id, Null, copies)  BY <2>4
    <3> QED BY <3>1
  <2>5. CASE \E where \in Folders \cup {Null}, tags \in SUBSET TagRows :
                FileCallBegins(c, "ingest", id, where, tags)
    <3>1. PICK where \in Folders \cup {Null}, tags \in SUBSET TagRows :
             FileCallBegins(c, "ingest", id, where, tags)
      BY <2>5
    <3> QED BY <2>2, <3>1
  <2> QED BY <2>1, <2>3, <2>4, <2>5
<1> DEFINE k == [op |-> op, pc |-> IF op = "ingest" THEN IF where = Null THEN "tags" ELSE "folder"
                                   ELSE "find",
                 id |-> id, folder |-> where, ids |-> ids, todo |-> {}, has |-> {}]
<1>3. k \in FileCallRow  BY DEF FileCallRow
<1>4. FileShape(k)  BY <1>2 DEF FileShape
<1>5. k.op = op /\ k.pc \notin {"removals", "loop"}  OBVIOUS
<1>6. /\ fileCall' = [fileCall EXCEPT ![c] = k]
      /\ mergesRaced' = (mergesRaced \/ (op = "merge" /\ \E d \in FileCalls : fileCall[d].op = "merge"))
  BY <1>2 DEF FileCallBegins
<1> HIDE DEF k
<1>7. mergesRaced => mergesRaced'  BY <1>6
<1>8. \A d \in FileCalls : fileCall'[d] = IF d = c THEN k ELSE fileCall[d]
  BY <1>6 DEF FileInv, FileTypes
<1>9. FileTypes'  BY <1>1, <1>3, <1>6 DEF FileInv, FileTypes
<1>10. \A d \in FileCalls : FileShape(fileCall[d])'
  <2>1. \A d \in FileCalls : FileShape(fileCall'[d])  BY <1>4, <1>8 DEF FileInv
  <2> QED BY <2>1 DEF FileShape
<1>11. \A f \in Files : ActiveFile(f)' = ActiveFile(f)  BY <1>1 DEF ActiveFile
<1>12. ASSUME NEW d \in FileCalls PROVE MergeKnows(fileCall[d])'
  <2>1. CASE d = c  BY <1>5, <1>8, <2>1 DEF MergeKnows
  <2>2. CASE d # c  BY <1>1, <1>7, <1>8, <1>11, <2>2, StillKnown DEF FileInv
  <2> QED BY <2>1, <2>2
<1>13. MergesLoseNothing'  BY <1>1, <1>7, <1>11, StillMerged DEF FileInv
<1>14. mergesRaced' \/ \A d, e \in FileCalls :
                          fileCall'[d].op = "merge" /\ fileCall'[e].op = "merge" => d = e
  BY <1>5, <1>6, <1>8 DEF FileInv
<1> QED BY <1>9, <1>10, <1>12, <1>13, <1>14 DEF FileInv

\* What the steps of a call have in common that trash no file and change no tag.
LEMMA FileCallGoes ==
    ASSUME FileInv, NEW c \in FileCalls, NEW k \in FileCallRow,
           fileCall' = [fileCall EXCEPT ![c] = k], FileShape(k), k.op \in {fileCall[c].op, "none"},
           UNCHANGED <<merged, mergesRaced>>, file' \in [Files -> FileRow], binned' \in SUBSET Files,
           fileTag \subseteq fileTag',
           \A f \in Files : ActiveFile(f) \/ f \in binned => ActiveFile(f)' \/ f \in binned',
           MergeKnows(fileCall[c])'
    PROVE  FileInv'
<1>1. \A d \in FileCalls \ {c} : fileCall'[d] = fileCall[d]  BY DEF FileInv, FileTypes
<1>2. mergesRaced => mergesRaced'  OBVIOUS
<1>3. ASSUME NEW d \in FileCalls \ {c} PROVE MergeKnows(fileCall[d])'
  BY <1>1, <1>2, StillKnown DEF FileInv
<1>4. MergesLoseNothing'  BY <1>2, StillMerged DEF FileInv
<1>5. merged' \in SUBSET [keep : Files, file : Files, tags : SUBSET Tags]  BY DEF FileInv, FileTypes
<1> QED BY <1>3, <1>4, <1>5, FileCallMoves

LEMMA NoFileCallFits ==
    /\ NoFileCall \in FileCallRow
    /\ FileShape(NoFileCall)
    /\ NoFileCall.op = "none" /\ NoFileCall.pc = "idle"
BY DEF NoFileCall, FileCallRow, FileShape

LEMMA FileEndsWell ==
    ASSUME FileInv, NEW c \in FileCalls, FileEnds(c),
           UNCHANGED <<merged, mergesRaced>>, file' \in [Files -> FileRow], binned' \in SUBSET Files,
           fileTag \subseteq fileTag',
           \A f \in Files : ActiveFile(f) \/ f \in binned => ActiveFile(f)' \/ f \in binned'
    PROVE  FileInv'
<1>1. PICK k \in FileCallRow : k = NoFileCall  BY NoFileCallFits
<1>2. fileCall' = [fileCall EXCEPT ![c] = k]  BY <1>1 DEF FileEnds
<1>3. FileShape(k) /\ k.op = "none" /\ k.pc = "idle"  BY <1>1, NoFileCallFits
<1>4. fileCall'[c] = k  BY <1>2 DEF FileInv, FileTypes
<1>5. MergeKnows(fileCall[c])'  BY <1>3, <1>4 DEF MergeKnows
<1> QED BY <1>2, <1>3, <1>5, FileCallGoes

LEMMA FileFoundKeeps ==
    ASSUME FileInv, NEW c \in FileCalls, FileFound(c) PROVE FileInv'
<1>1. UNCHANGED <<file, fileTag, binned, merged, mergesRaced>>  BY DEF FileFound
<1>2. /\ file' \in [Files -> FileRow] /\ binned' \in SUBSET Files /\ fileTag \subseteq fileTag'
      /\ \A f \in Files : ActiveFile(f)' = ActiveFile(f)
  BY <1>1 DEF FileInv, FileTypes, ActiveFile
<1>3. PICK q \in FileCallRow : q = fileCall[c]  BY DEF FileInv, FileTypes
<1>4. FileShape(q) /\ q.pc = "find"  BY <1>3 DEF FileInv, FileFound
<1>5. /\ q.id \in Files /\ q.op \in {"softDelete", "restore", "merge"}
      /\ q.op = "merge" => q.ids \subseteq Files \ {q.id}
  BY <1>4 DEF FileShape, FileCallRow
<1>6. CASE ActiveFile(q.id) # (q.op # "restore")
  <2>1. FileEnds(c)  BY <1>3, <1>6 DEF FileFound
  <2> QED BY <1>1, <1>2, <2>1, FileEndsWell
<1>7. CASE ~(ActiveFile(q.id) # (q.op # "restore"))
  <2>1. PICK h \in SUBSET Tags : h = TagsOf(q.id)  BY DEF TagsOf
  <2>2. PICK w \in Folders \cup {Null} : w = file[q.id].folder
    BY <1>5 DEF FileInv, FileTypes, FileRow
  <2> DEFINE place == CASE q.op = "merge"      -> "removals"
                        [] q.op = "softDelete" -> "write"
                        [] q.op = "restore"    -> IF w = Null THEN "write" ELSE "folder"
             k == [q EXCEPT !.has = h, !.folder = w, !.pc = place]
  <2>3. fileCall' = [fileCall EXCEPT ![c] = k]
    BY <1>3, <1>7, <2>1, <2>2 DEF FileFound
  <2>4. /\ place \in {"removals", "write", "folder"}
        /\ place = "removals" => q.op = "merge"
        /\ place = "write" => q.op \in {"softDelete", "restore"}
        /\ place = "folder" => q.op = "restore" /\ w # Null
    BY <1>5
  <2> HIDE DEF place
  <2>5. k \in FileCallRow  BY <2>4 DEF FileCallRow
  <2>6. /\ k.op = q.op /\ k.id = q.id /\ k.ids = q.ids /\ k.pc = place /\ k.folder = w /\ k.has = h
    BY DEF FileCallRow
  <2> HIDE DEF k
  <2>7. FileShape(k)  BY <1>5, <2>4, <2>6 DEF FileShape
  <2>8. fileCall'[c] = k  BY <2>3 DEF FileInv, FileTypes
  <2>9. k.pc \in {"removals", "loop"} => ActiveFile(k.id)  BY <1>7, <2>4, <2>6
  <2>10. k.pc # "loop"  BY <2>4, <2>6
  <2>11. k.pc \in {"removals", "loop"} => ActiveFile(k.id)'  BY <1>2, <1>5, <2>6, <2>9
  <2>12. k.has \subseteq TagsOf(k.id)'  BY <1>2, <2>1, <2>6, TagsOnlyGrow
  <2>13. MergeKnows(fileCall[c])'  BY <2>8, <2>10, <2>11, <2>12 DEF MergeKnows
  <2>14. k.op = fileCall[c].op  BY <1>3, <2>6
  <2> QED BY <1>1, <1>2, <2>3, <2>5, <2>7, <2>13, <2>14, FileCallGoes
<1> QED BY <1>6, <1>7

\* A call goes to a place where it is no merge, perhaps with another folder.
LEMMA FileGoesWell ==
    ASSUME FileInv, NEW c \in FileCalls, NEW q \in FileCallRow, q = fileCall[c], q.pc # "idle",
           q.op # "merge", NEW pc \in {"folder", "tags", "create", "write"}, NEW w \in Folders \cup {Null},
           fileCall' = [fileCall EXCEPT ![c] = [q EXCEPT !.folder = w, !.pc = pc]],
           pc = "folder" => q.op \in {"ingest", "restore"} /\ w # Null,
           pc \in {"tags", "create"} => q.op = "ingest",
           pc = "write" => q.op \in {"softDelete", "restore"},
           UNCHANGED <<file, fileTag, binned, merged, mergesRaced>>
    PROVE  FileInv'
<1> DEFINE k == [q EXCEPT !.folder = w, !.pc = pc]
<1>1. /\ file' \in [Files -> FileRow] /\ binned' \in SUBSET Files /\ fileTag \subseteq fileTag'
      /\ \A f \in Files : ActiveFile(f)' = ActiveFile(f)
  BY DEF FileInv, FileTypes, ActiveFile
<1>2. k \in FileCallRow  BY DEF FileCallRow
<1>3. k.op = q.op /\ k.id = q.id /\ k.ids = q.ids /\ k.pc = pc /\ k.folder = w  BY DEF FileCallRow
<1>4. fileCall' = [fileCall EXCEPT ![c] = k]  OBVIOUS
<1> HIDE DEF k
<1>5. FileShape(q)  BY DEF FileInv
<1>6. FileShape(k)  BY <1>3, <1>5 DEF FileShape
<1>7. fileCall'[c] = k  BY <1>4 DEF FileInv, FileTypes
<1>8. MergeKnows(fileCall[c])'  BY <1>3, <1>7 DEF MergeKnows
<1> QED BY <1>1, <1>2, <1>3, <1>4, <1>6, <1>8, FileCallGoes

LEMMA FileFolderFoundKeeps ==
    ASSUME FileInv, NEW c \in FileCalls, FileFolderFound(c) PROVE FileInv'
<1>1. UNCHANGED <<file, fileTag, binned, merged, mergesRaced>>  BY DEF FileFolderFound
<1>2. /\ file' \in [Files -> FileRow] /\ binned' \in SUBSET Files /\ fileTag \subseteq fileTag'
      /\ \A f \in Files : ActiveFile(f)' = ActiveFile(f)
  BY <1>1 DEF FileInv, FileTypes, ActiveFile
<1>3. PICK q \in FileCallRow : q = fileCall[c]  BY DEF FileInv, FileTypes
<1>4. q.pc = "folder" /\ q.op \in {"ingest", "restore"} /\ q.folder \in Folders
  BY <1>3 DEF FileInv, FileFolderFound, FileShape, FileCallRow
<1>5. CASE Active(q.folder)
  <2> DEFINE pc == IF q.op = "ingest" THEN "tags" ELSE "write"
  <2>1. fileCall' = [fileCall EXCEPT ![c].pc = pc]  BY <1>3, <1>5 DEF FileFolderFound, FileGoes
  <2>2. [q EXCEPT !.pc = pc] = [q EXCEPT !.folder = q.folder, !.pc = pc]  BY DEF FileCallRow
  <2>3. fileCall' = [fileCall EXCEPT ![c] = [q EXCEPT !.folder = q.folder, !.pc = pc]]
    BY <1>3, <2>1, <2>2
  <2>4. /\ pc \in {"folder", "tags", "create", "write"} /\ pc # "folder"
        /\ pc \in {"tags", "create"} => q.op = "ingest"
        /\ pc = "write" => q.op \in {"softDelete", "restore"}
    BY <1>4
  <2>5. q.folder \in Folders \cup {Null}  BY <1>4
  <2> HIDE DEF pc
  <2> QED BY <1>1, <1>3, <1>4, <2>3, <2>4, <2>5, FileGoesWell
<1>6. CASE ~Active(q.folder) /\ q.op = "ingest"
  <2>1. FileEnds(c)  BY <1>3, <1>6 DEF FileFolderFound
  <2> QED BY <1>1, <1>2, <2>1, FileEndsWell
<1>7. CASE ~Active(q.folder) /\ q.op # "ingest"
  <2>1. fileCall' = [fileCall EXCEPT ![c].folder = Null, ![c].pc = "write"]
    BY <1>3, <1>7 DEF FileFolderFound
  <2>2. fileCall' = [fileCall EXCEPT ![c] = [q EXCEPT !.folder = Null, !.pc = "write"]]
    BY <1>3, <2>1 DEF FileInv, FileTypes
  <2> QED BY <1>1, <1>3, <1>4, <1>7, <2>2, FileGoesWell
<1> QED BY <1>5, <1>6, <1>7

LEMMA IngestCountsTagsKeeps ==
    ASSUME FileInv, NEW c \in FileCalls, IngestCountsTags(c) PROVE FileInv'
<1>1. UNCHANGED <<file, fileTag, binned, merged, mergesRaced>>  BY DEF IngestCountsTags
<1>2. /\ file' \in [Files -> FileRow] /\ binned' \in SUBSET Files /\ fileTag \subseteq fileTag'
      /\ \A f \in Files : ActiveFile(f)' = ActiveFile(f)
  BY <1>1 DEF FileInv, FileTypes, ActiveFile
<1>3. PICK q \in FileCallRow : q = fileCall[c]  BY DEF FileInv, FileTypes
<1>4. q.pc = "tags" /\ q.op = "ingest"
  BY <1>3 DEF FileInv, IngestCountsTags, FileShape
<1>5. CASE FileGoes(c, "create")
  <2>1. [q EXCEPT !.pc = "create"] = [q EXCEPT !.folder = q.folder, !.pc = "create"]  BY DEF FileCallRow
  <2>2. fileCall' = [fileCall EXCEPT ![c] = [q EXCEPT !.folder = q.folder, !.pc = "create"]]
    BY <1>3, <1>5, <2>1 DEF FileGoes
  <2>3. q.folder \in Folders \cup {Null}  BY DEF FileCallRow
  <2> QED BY <1>1, <1>3, <1>4, <2>2, <2>3, FileGoesWell
<1>6. CASE FileEnds(c)  BY <1>1, <1>2, <1>6, FileEndsWell
<1> QED BY <1>5, <1>6 DEF IngestCountsTags

LEMMA IngestCreatesKeeps ==
    ASSUME FileInv, NEW c \in FileCalls, IngestCreates(c) PROVE FileInv'
<1>1. UNCHANGED <<binned, merged, mergesRaced>> /\ FileEnds(c)  BY DEF IngestCreates
<1>2. PICK q \in FileCallRow : q = fileCall[c]  BY DEF FileInv, FileTypes
<1>3. q.id \in Files /\ q.folder \in Folders \cup {Null}
  BY <1>2 DEF FileInv, IngestCreates, FileShape, FileCallRow
<1>4. PICK row \in FileRow : row = [exists |-> TRUE, trashed |-> FALSE, folder |-> q.folder]
  BY <1>3 DEF FileRow
<1>5. file' = file \/ file' = [file EXCEPT ![q.id] = row]  BY <1>2, <1>4 DEF IngestCreates
<1>6. fileTag \subseteq fileTag'  BY DEF IngestCreates
<1>7. file' \in [Files -> FileRow] /\ binned' \in SUBSET Files
  BY <1>1, <1>5 DEF FileInv, FileTypes
<1>8. \A f \in Files : file'[f] = file[f] \/ file'[f] = row  BY <1>5 DEF FileInv, FileTypes
<1>9. \A f \in Files : ActiveFile(f) => ActiveFile(f)'  BY <1>4, <1>8 DEF ActiveFile
<1>10. \A f \in Files : ActiveFile(f) \/ f \in binned => ActiveFile(f)' \/ f \in binned'
  BY <1>1, <1>9
<1> QED BY <1>1, <1>6, <1>7, <1>10, FileEndsWell

LEMMA FileWrittenKeeps ==
    ASSUME FileInv, NEW c \in FileCalls, FileWritten(c) PROVE FileInv'
<1>1. UNCHANGED <<fileTag, merged, mergesRaced>> /\ FileEnds(c)  BY DEF FileWritten
<1>2. PICK q \in FileCallRow : q = fileCall[c]  BY DEF FileInv, FileTypes
<1>3. q.id \in Files /\ q.folder \in Folders \cup {Null} /\ q.op \in {"softDelete", "restore"}
  BY <1>2 DEF FileInv, FileWritten, FileShape, FileCallRow
<1>4. CASE q.op = "restore"
  <2>1. file' = [file EXCEPT ![q.id] = [@ EXCEPT !.trashed = FALSE, !.folder = q.folder]] /\ binned' = binned
    BY <1>2, <1>4 DEF FileWritten
  <2>2. file' \in [Files -> FileRow] /\ binned' \in SUBSET Files
    BY <1>3, <2>1 DEF FileInv, FileTypes, FileRow
  <2>3. \A f \in Files : ActiveFile(f) => ActiveFile(f)'
    BY <1>3, <2>1 DEF FileInv, FileTypes, FileRow, ActiveFile
  <2> QED BY <1>1, <2>1, <2>2, <2>3, FileEndsWell
<1>5. CASE q.op = "softDelete"
  <2>1. file' = [file EXCEPT ![q.id] = [@ EXCEPT !.trashed = TRUE]] /\ binned' = binned \cup {q.id}
    BY <1>2, <1>5 DEF FileWritten
  <2>2. file' \in [Files -> FileRow] /\ binned' \in SUBSET Files
    BY <1>3, <2>1 DEF FileInv, FileTypes, FileRow
  <2>3. \A f \in Files : f = q.id \/ ActiveFile(f)' = ActiveFile(f)
    BY <2>1 DEF FileInv, FileTypes, ActiveFile
  <2>4. \A f \in Files : ActiveFile(f) \/ f \in binned => ActiveFile(f)' \/ f \in binned'
    BY <2>1, <2>3
  <2> QED BY <1>1, <2>2, <2>4, FileEndsWell
<1> QED BY <1>3, <1>4, <1>5

LEMMA MergeFindsRemovalsKeeps ==
    ASSUME FileInv, NEW c \in FileCalls, MergeFindsRemovals(c) PROVE FileInv'
<1>1. UNCHANGED <<file, fileTag, binned, merged, mergesRaced>>  BY DEF MergeFindsRemovals
<1>2. /\ file' \in [Files -> FileRow] /\ binned' \in SUBSET Files /\ fileTag \subseteq fileTag'
      /\ \A f \in Files : ActiveFile(f)' = ActiveFile(f)
  BY <1>1 DEF FileInv, FileTypes, ActiveFile
<1>3. PICK q \in FileCallRow : q = fileCall[c]  BY DEF FileInv, FileTypes
<1>4. FileShape(q) /\ MergeKnows(q) /\ q.pc = "removals"
  BY <1>3 DEF FileInv, MergeFindsRemovals
<1>5. q.id \in Files /\ q.op = "merge" /\ q.ids \subseteq Files \ {q.id}
  BY <1>4 DEF FileShape
<1>6. CASE FileEnds(c)  BY <1>1, <1>2, <1>6, FileEndsWell
<1>7. CASE ~FileEnds(c)
  <2> DEFINE rows == {[file |-> f, tags |-> TagsOf(f)] : f \in q.ids}
  <2>1. rows \in SUBSET [file : Files, tags : SUBSET Tags]
    <3>1. \A f \in q.ids : f \in Files /\ TagsOf(f) \in SUBSET Tags  BY <1>5 DEF TagsOf
    <3> QED BY <3>1
  <2>2. PICK todo \in SUBSET [file : Files, tags : SUBSET Tags] : todo = rows  BY <2>1
  <2> DEFINE k == [q EXCEPT !.pc = "loop", !.todo = todo]
  <2>3. /\ \A f \in q.ids : ActiveFile(f) /\ HashOf[f] = HashOf[q.id]
        /\ fileCall' = [fileCall EXCEPT ![c].pc = "loop", ![c].todo = rows]
    BY <1>3, <1>7 DEF MergeFindsRemovals
  <2>4. fileCall' = [fileCall EXCEPT ![c] = k]
    BY <1>3, <2>2, <2>3 DEF FileInv, FileTypes, FileCallRow
  <2>5. k \in FileCallRow  BY DEF FileCallRow
  <2>6. k.op = q.op /\ k.id = q.id /\ k.ids = q.ids /\ k.pc = "loop" /\ k.todo = todo /\ k.has = q.has
    BY DEF FileCallRow
  <2> HIDE DEF k
  <2>7. FileShape(k)  BY <1>4, <1>5, <2>6 DEF FileShape
  <2>8. fileCall'[c] = k  BY <2>4 DEF FileInv, FileTypes
  <2>9. \A r \in todo : /\ r.file # q.id /\ HashOf[r.file] = HashOf[q.id]
                        /\ r.tags \subseteq TagsOf(r.file)
    BY <1>5, <2>2, <2>3
  <2>10. \A r \in todo : r.tags \subseteq TagsOf(r.file)'  BY <1>2, <2>9, TagsOnlyGrow
  <2>11. q.has \subseteq TagsOf(q.id)'  BY <1>2, <1>4, TagsOnlyGrow DEF MergeKnows
  <2>12. mergesRaced' \/ ActiveFile(q.id)' \/ q.id \in binned'
    BY <1>1, <1>2, <1>4, <1>5 DEF MergeKnows
  <2>13. MergeKnows(fileCall[c])'  BY <2>6, <2>8, <2>9, <2>10, <2>11, <2>12 DEF MergeKnows
  <2>14. k.op = fileCall[c].op  BY <1>3, <2>6
  <2> QED BY <1>1, <1>2, <2>4, <2>5, <2>7, <2>13, <2>14, FileCallGoes
<1> QED BY <1>6, <1>7

\* A tag is kept ...
LEMMA MergeAddsKeeps ==
    ASSUME FileInv, NEW c \in FileCalls, NEW q \in FileCallRow, q = fileCall[c], q.pc = "loop",
           NEW t \in Tags,
           fileTag' = fileTag \cup {<<q.id, t>>},
           fileCall' = [fileCall EXCEPT ![c].has = @ \cup {t}],
           UNCHANGED <<file, binned, merged, mergesRaced>>
    PROVE  FileInv'
<1> DEFINE k == [q EXCEPT !.has = q.has \cup {t}]
<1>1. /\ file' \in [Files -> FileRow] /\ binned' \in SUBSET Files /\ fileTag \subseteq fileTag'
      /\ \A f \in Files : ActiveFile(f)' = ActiveFile(f)
  BY DEF FileInv, FileTypes, ActiveFile
<1>2. fileCall' = [fileCall EXCEPT ![c] = k]  BY DEF FileInv, FileTypes, FileCallRow
<1>3. k \in FileCallRow  BY DEF FileCallRow
<1>4. /\ k.op = q.op /\ k.id = q.id /\ k.ids = q.ids /\ k.pc = q.pc /\ k.todo = q.todo
      /\ k.folder = q.folder /\ k.has = q.has \cup {t}
  BY DEF FileCallRow
<1> HIDE DEF k
<1>5. FileShape(q) /\ MergeKnows(q)  BY DEF FileInv
<1>6. FileShape(k)  BY <1>4, <1>5 DEF FileShape
<1>7. fileCall'[c] = k  BY <1>2 DEF FileInv, FileTypes
<1>8. k.has \subseteq TagsOf(k.id)'
  <2>1. q.has \subseteq TagsOf(q.id)'  BY <1>1, <1>5, TagsOnlyGrow DEF MergeKnows
  <2>2. t \in TagsOf(q.id)'  BY DEF TagsOf
  <2> QED BY <1>4, <2>1, <2>2
<1>9. \A r \in k.todo : /\ r.file # k.id /\ HashOf[r.file] = HashOf[k.id]
                        /\ r.tags \subseteq TagsOf(r.file)'
  BY <1>1, <1>4, <1>5, TagsOnlyGrow DEF MergeKnows
<1>10. mergesRaced' \/ ActiveFile(k.id)' \/ k.id \in binned'
  <2>1. k.id \in Files  BY <1>4, <1>5 DEF FileShape
  <2> QED BY <1>1, <1>4, <1>5, <2>1 DEF MergeKnows
<1>11. MergeKnows(fileCall[c])'  BY <1>7, <1>8, <1>9, <1>10 DEF MergeKnows
<1> QED BY <1>1, <1>2, <1>3, <1>4, <1>6, <1>11, FileCallGoes

\* ... and a copy whose tags are all kept is trashed.
LEMMA MergeTrashesKeeps ==
    ASSUME FileInv, NEW c \in FileCalls, NEW q \in FileCallRow, q = fileCall[c], q.pc = "loop",
           NEW r \in q.todo, r.tags \subseteq q.has, Trash(c, r),
           UNCHANGED <<fileTag, binned, mergesRaced>>
    PROVE  FileInv'
<1>1. FileShape(q) /\ MergeKnows(q)  BY DEF FileInv
<1>2. /\ q.id \in Files /\ q.op = "merge" /\ r \in [file : Files, tags : SUBSET Tags]
      /\ r.file \in Files /\ r.tags \in SUBSET Tags
  BY <1>1 DEF FileShape, FileCallRow
<1>3. r.file # q.id /\ HashOf[r.file] = HashOf[q.id] /\ r.tags \subseteq TagsOf(q.id)
  BY <1>1 DEF MergeKnows
<1>4. mergesRaced \/ ActiveFile(q.id) \/ q.id \in binned  BY <1>1 DEF MergeKnows
<1>5. file' = [file EXCEPT ![r.file].trashed = TRUE]  BY DEF Trash
<1>6. file' \in [Files -> FileRow] /\ binned' \in SUBSET Files
  BY <1>2, <1>5 DEF FileInv, FileTypes, FileRow
<1>7. \A f \in Files \ {r.file} : ActiveFile(f)' = ActiveFile(f)
  BY <1>5 DEF FileInv, FileTypes, ActiveFile
<1>8. PICK m \in [keep : Files, file : Files, tags : SUBSET Tags] :
         m = [keep |-> q.id, file |-> r.file, tags |-> r.tags]
  BY <1>2
<1>9. merged' = merged \cup {m}  BY <1>8 DEF Trash
<1>10. merged' \in SUBSET [keep : Files, file : Files, tags : SUBSET Tags]
  BY <1>8, <1>9 DEF FileInv, FileTypes
<1>11. fileTag \subseteq fileTag' /\ binned' = binned /\ mergesRaced' = mergesRaced  OBVIOUS
<1>12. m.keep = q.id /\ m.file = r.file /\ m.tags = r.tags  BY <1>8
<1>13. \/ mergesRaced'
       \/ HashOf[q.id] = HashOf[r.file] /\ (ActiveFile(q.id)' \/ q.id \in binned')
  BY <1>2, <1>3, <1>4, <1>7, <1>11
<1>14. MergesLoseNothing'
  <2> SUFFICES ASSUME NEW n \in merged'
               PROVE  /\ n.tags \subseteq TagsOf(n.keep)'
                      /\ \/ mergesRaced'
                         \/ \E f \in Files : HashOf[f] = HashOf[n.file] /\ (ActiveFile(f)' \/ f \in binned')
    BY DEF MergesLoseNothing
  <2>1. CASE n = m
    <3>1. n.tags \subseteq TagsOf(n.keep)'  BY <1>3, <1>11, <1>12, <2>1, TagsOnlyGrow
    <3> QED BY <1>2, <1>12, <1>13, <2>1, <3>1
  <2>2. CASE n \in merged
    <3>1. n.tags \subseteq TagsOf(n.keep)'
      BY <1>11, <2>2, TagsOnlyGrow DEF FileInv, MergesLoseNothing
    <3>2. CASE mergesRaced  BY <1>11, <3>1, <3>2
    <3>3. CASE ~mergesRaced
      <4>1. PICK f \in Files : HashOf[f] = HashOf[n.file] /\ (ActiveFile(f) \/ f \in binned)
        BY <2>2, <3>3 DEF FileInv, MergesLoseNothing
      <4>2. CASE f = r.file  BY <1>2, <1>13, <3>1, <4>1, <4>2
      <4>3. CASE f # r.file  BY <1>7, <1>11, <3>1, <4>1, <4>3
      <4> QED BY <4>2, <4>3
    <3> QED BY <3>2, <3>3
  <2> QED BY <1>9, <2>1, <2>2
<1>15. ASSUME NEW k \in FileCallRow, fileCall' = [fileCall EXCEPT ![c] = k], FileShape(k),
              k.op \in {q.op, "none"}, MergeKnows(k)'
       PROVE  FileInv'
  <2>1. fileCall'[c] = k  BY <1>15 DEF FileInv, FileTypes
  <2>2. MergeKnows(fileCall[c])'  BY <1>15, <2>1 DEF MergeKnows
  <2>3. ASSUME NEW d \in FileCalls \ {c} PROVE MergeKnows(fileCall[d])'
    <3>1. fileCall'[d] = fileCall[d]  BY <1>15 DEF FileInv, FileTypes
    <3>2. FileShape(fileCall[d]) /\ MergeKnows(fileCall[d])  BY DEF FileInv
    <3>3. ~mergesRaced => fileCall[d].op # "merge"  BY <1>2 DEF FileInv
    <3>4. fileCall[d].pc \in {"removals", "loop"} => mergesRaced'  BY <1>11, <3>2, <3>3 DEF FileShape
    <3> QED BY <1>11, <3>1, <3>2, <3>4, StillKnown DEF FileInv
  <2> QED BY <1>6, <1>10, <1>11, <1>14, <1>15, <2>2, <2>3, FileCallMoves
<1> DEFINE rest == q.todo \ {r}
<1>16. CASE rest = {}
  <2>1. PICK k \in FileCallRow : k = NoFileCall  BY NoFileCallFits
  <2>2. fileCall' = [fileCall EXCEPT ![c] = k]  BY <1>16, <2>1 DEF Trash
  <2>3. FileShape(k) /\ k.op = "none" /\ k.pc = "idle"  BY <2>1, NoFileCallFits
  <2>4. MergeKnows(k)'  BY <2>3 DEF MergeKnows
  <2> QED BY <1>15, <2>2, <2>3, <2>4
<1>17. CASE rest # {}
  <2> DEFINE k == [q EXCEPT !.todo = rest]
  <2>1. fileCall' = [fileCall EXCEPT ![c] = k]  BY <1>17 DEF Trash
  <2>2. k \in FileCallRow  BY DEF FileCallRow
  <2>3. /\ k.op = q.op /\ k.id = q.id /\ k.ids = q.ids /\ k.pc = q.pc /\ k.todo = rest
        /\ k.folder = q.folder /\ k.has = q.has
    BY DEF FileCallRow
  <2> HIDE DEF k
  <2>4. FileShape(k)  BY <1>1, <2>3 DEF FileShape
  <2>5. q.has \subseteq TagsOf(q.id)'  BY <1>1, <1>11, TagsOnlyGrow DEF MergeKnows
  <2>6. \A x \in rest : /\ x.file # q.id /\ HashOf[x.file] = HashOf[q.id]
                        /\ x.tags \subseteq TagsOf(x.file)'
    BY <1>1, <1>11, TagsOnlyGrow DEF MergeKnows
  <2>7. MergeKnows(k)'  BY <1>13, <2>3, <2>5, <2>6 DEF MergeKnows
  <2> QED BY <1>15, <2>1, <2>2, <2>3, <2>4, <2>7
<1> QED BY <1>16, <1>17

LEMMA MergeLoopsKeeps == ASSUME FileInv, NEW c \in FileCalls, MergeLoops(c) PROVE FileInv'
<1>1. PICK q \in FileCallRow : q = fileCall[c]  BY DEF FileInv, FileTypes
<1>2. UNCHANGED <<binned, mergesRaced>> /\ q.pc = "loop"  BY <1>1 DEF MergeLoops
<1>3. PICK r \in q.todo :
         IF r.tags \subseteq q.has THEN Trash(c, r) /\ UNCHANGED fileTag
         ELSE \E t \in r.tags \ q.has :
                 /\ fileTag' = fileTag \cup {<<q.id, t>>}
                 /\ IF <<q.id, t>> \in fileTag THEN FileEnds(c)
                    ELSE fileCall' = [fileCall EXCEPT ![c].has = @ \cup {t}]
                 /\ UNCHANGED <<file, merged>>
  BY <1>1 DEF MergeLoops
<1>4. CASE r.tags \subseteq q.has  BY <1>1, <1>2, <1>3, <1>4, MergeTrashesKeeps
<1>5. CASE ~(r.tags \subseteq q.has)
  <2>1. PICK t \in r.tags \ q.has :
           /\ fileTag' = fileTag \cup {<<q.id, t>>}
           /\ IF <<q.id, t>> \in fileTag THEN FileEnds(c)
              ELSE fileCall' = [fileCall EXCEPT ![c].has = @ \cup {t}]
           /\ UNCHANGED <<file, merged>>
    BY <1>3, <1>5
  <2>2. r \in [file : Files, tags : SUBSET Tags]  BY DEF FileCallRow
  <2>3. t \in Tags  BY <2>1, <2>2
  <2>4. /\ file' \in [Files -> FileRow] /\ binned' \in SUBSET Files /\ fileTag \subseteq fileTag'
        /\ \A f \in Files : ActiveFile(f)' = ActiveFile(f)
    BY <1>2, <2>1 DEF FileInv, FileTypes, ActiveFile
  <2>5. CASE FileEnds(c)  BY <1>2, <2>1, <2>4, <2>5, FileEndsWell
  <2>6. CASE ~FileEnds(c)  BY <1>1, <1>2, <2>1, <2>3, <2>6, MergeAddsKeeps
  <2> QED BY <2>5, <2>6
<1> QED BY <1>4, <1>5

LEMMA FileStepKeeps == ASSUME FileInv, NEW c \in FileCalls, FileStep(c) PROVE FileInv'
BY FileFoundKeeps, FileFolderFoundKeeps, IngestCountsTagsKeeps, IngestCreatesKeeps, FileWrittenKeeps,
   MergeFindsRemovalsKeeps, MergeLoopsKeeps DEF FileStep

\* The steps on folders and tags touch neither files nor what they carry.
LEMMA FilesStay ==
    ASSUME FileInv, UNCHANGED <<fileVars, fileTag>> PROVE FileInv'
<1>1. UNCHANGED <<file, fileCall, binned, merged, mergesRaced, fileTag>>  BY DEF fileVars
<1> QED BY <1>1 DEF FileInv, FileTypes, MergeKnows, MergesLoseNothing, ActiveFile, TagsOf, FileShape

-----------------------------------------------------------------------------
(* Folders                                                                 *)

LEMMA NoFolderCallFits ==
    /\ NoFolderCall \in FolderCallRow
    /\ FolderShape(NoFolderCall) /\ CallThere(NoFolderCall)
    /\ MoveKnows(NoFolderCall) /\ TrashKnows(NoFolderCall)
    /\ NoFolderCall.op = "none" /\ NoFolderCall.pc = "idle" /\ NoFolderCall.id = Null
BY DEF NoFolderCall, ClimbFrom, FolderCallRow, FolderShape, CallThere, MoveKnows, TrashKnows, Places

LEMMA FolderTypesStay ==
    ASSUME FolderTypes, NEW c \in FolderCalls, NEW k \in FolderCallRow,
           folderCall' = [folderCall EXCEPT ![c] = k]
    PROVE  /\ folderCall' \in [FolderCalls -> FolderCallRow]
           /\ \A d \in FolderCalls : folderCall'[d] = IF d = c THEN k ELSE folderCall[d]
BY DEF FolderTypes

\* The ids of calls stay apart.
LEMMA IdsStayApart ==
    ASSUME FolderInv, NEW c \in FolderCalls, NEW k \in FolderCallRow,
           folderCall' = [folderCall EXCEPT ![c] = k], FolderShape(k),
           \/ k.op = "none"
           \/ k.op = folderCall[c].op /\ k.id = folderCall[c].id
    PROVE  IdsApart'
<1> SUFFICES ASSUME NEW d \in FolderCalls, NEW e \in FolderCalls, d # e,
                    folderCall'[d].op = "create"
             PROVE  folderCall'[e].id # folderCall'[d].id
  BY DEF IdsApart
<1>1. \A x \in FolderCalls : folderCall'[x] = IF x = c THEN k ELSE folderCall[x]
  BY FolderTypesStay DEF FolderInv
<1>2. k.op = "none" => k.id = Null  BY DEF FolderShape, NoFolderCall
<1>3. folderCall[d].op = "create" /\ folderCall'[d].id = folderCall[d].id  BY <1>1
<1>4. folderCall[d].id \in Folders
  <2>1. FolderShape(folderCall[d])  BY DEF FolderInv
  <2> QED BY <1>3, <2>1 DEF FolderShape
<1>5. folderCall[e].id # folderCall[d].id  BY <1>3 DEF FolderInv, IdsApart
<1>6. folderCall'[e].id \in {folderCall[e].id, Null}  BY <1>1, <1>2
<1> QED BY <1>3, <1>4, <1>5, <1>6, ArchiveAssumption

LEMMA MoveStaysKnown ==
    ASSUME NEW k, UNCHANGED folder, MoveKnows(k) PROVE MoveKnows(k)'
<1>1. FolderParent' = FolderParent  BY DEF FolderParent
<1>2. k.op = "move" /\ k.to # Null => MoveStands(k, FolderParent')  BY <1>1 DEF MoveKnows
<1> QED BY <1>2 DEF MoveKnows, MoveStands, Climbing, Climbed, Passed

LEMMA MoveStandsElsewhere ==
    ASSUME NEW k, NEW parent, NEW parent2, MoveStands(k, parent),
           \A x \in Passed(k) : parent2[x] = parent[x]
    PROVE  MoveStands(k, parent2)
BY DEF MoveStands, Climbing, Climbed

\* A call goes on and the folders stay as they are.
LEMMA FolderCallMoves ==
    ASSUME FolderInv, NEW c \in FolderCalls, NEW k \in FolderCallRow,
           folderCall' = [folderCall EXCEPT ![c] = k], FolderShape(k),
           \/ k.op = "none"
           \/ k.op = folderCall[c].op /\ k.id = folderCall[c].id,
           CallThere(k), movesRaced \/ MoveKnows(k), trashRaced \/ TrashKnows(k),
           UNCHANGED <<folder, movesRaced, trashRaced>>
    PROVE  FolderInv'
<1>1. \A d \in FolderCalls : folderCall'[d] = IF d = c THEN k ELSE folderCall[d]
  BY FolderTypesStay DEF FolderInv
<1>2. FolderTypes'  BY FolderTypesStay DEF FolderInv, FolderTypes
<1>3. IdsApart'  BY IdsStayApart
<1>4. \A d \in FolderCalls : folderCall'[d].op \in {folderCall[d].op, "none"}  BY <1>1
<1>5. \A d \in FolderCalls : FolderShape(folderCall[d])'
  <2>1. \A d \in FolderCalls : FolderShape(folderCall'[d])  BY <1>1 DEF FolderInv
  <2> QED BY <2>1 DEF FolderShape
<1>6. \A d \in FolderCalls : CallThere(folderCall[d])'
  <2>1. \A d \in FolderCalls : CallThere(folderCall'[d])  BY <1>1 DEF FolderInv
  <2> QED BY <2>1 DEF CallThere
<1>7. ParentsThere'  BY DEF FolderInv, ParentsThere
<1>8. ASSUME ~movesRaced PROVE MovesStand'
  <2>1. MovesStand  BY <1>8 DEF FolderInv
  <2>2. \A d \in FolderCalls : MoveKnows(folderCall'[d])  BY <1>1, <1>8, <2>1 DEF MovesStand
  <2>3. \A d \in FolderCalls : MoveKnows(folderCall[d])'  BY <2>2, MoveStaysKnown
  <2>4. Founded(Folders, FolderParent)'  BY <2>1 DEF MovesStand, FolderParent, Founded
  <2>5. \A d, e \in FolderCalls :
           Under(d, {"move", "restore"})' /\ Under(e, {"move", "restore"})' => d = e
    BY <1>4, <2>1 DEF MovesStand, Under
  <2> QED BY <2>3, <2>4, <2>5 DEF MovesStand
<1>9. ASSUME ~trashRaced PROVE TrashStands'
  <2>1. TrashStands  BY <1>9 DEF FolderInv
  <2>2. \A d \in FolderCalls : TrashKnows(folderCall'[d])  BY <1>1, <1>9, <2>1 DEF TrashStands
  <2>3. \A d \in FolderCalls : TrashKnows(folderCall[d])'
    BY <2>2 DEF TrashKnows, Active
  <2>4. HungOnActive'  BY <2>1 DEF TrashStands, HungOnActive, Active
  <2>5. \A d, e \in FolderCalls : Under(d, {"softDelete"})' => ~Under(e, Places)'
    BY <1>4, <2>1 DEF TrashStands, Under, Places
  <2> QED BY <2>3, <2>4, <2>5 DEF TrashStands
<1> QED BY <1>2, <1>3, <1>5, <1>6, <1>7, <1>8, <1>9 DEF FolderInv

LEMMA FolderEndsWell ==
    ASSUME FolderInv, NEW c \in FolderCalls, FolderEnds(c), UNCHANGED <<folder, movesRaced, trashRaced>>
    PROVE  FolderInv'
<1>1. PICK k \in FolderCallRow : k = NoFolderCall  BY NoFolderCallFits
<1>2. folderCall' = [folderCall EXCEPT ![c] = k]  BY <1>1 DEF FolderEnds
<1>3. FolderShape(k) /\ CallThere(k) /\ MoveKnows(k) /\ TrashKnows(k) /\ k.op = "none"
  BY <1>1, NoFolderCallFits
<1> QED BY <1>2, <1>3, FolderCallMoves

\* One step of a climb that does not meet its goal: what it has read ...
LEMMA ClimbReads ==
    ASSUME NEW rows, NEW parent \in [rows -> rows \cup {Null}], NEW id,
           NEW climb \in [at : rows, seen : SUBSET rows], NEW next,
           next = Climb(parent, id, climb), next.at # id
    PROVE  LET up == parent[climb.at]
           IN  /\ next \in [at : rows \cup {Null}, seen : SUBSET rows]
               /\ up # id
               /\ IF up = Null \/ up \in climb.seen
                  THEN next.at = Null /\ next.seen = climb.seen
                  ELSE next.at = up /\ next.at # Null /\ next.seen = climb.seen \cup {up}
<1> DEFINE up == parent[climb.at]
<1>1. climb.at \in rows /\ climb.seen \in SUBSET rows /\ up \in rows \cup {Null}  OBVIOUS
<1>2. up # id
  <2>1. ASSUME up = id PROVE FALSE
    <3>1. next = [climb EXCEPT !.at = id]  BY <2>1 DEF Climb
    <3> QED BY <3>1
  <2> QED BY <2>1
<1>3. CASE up = Null \/ up \in climb.seen
  <2>1. next = [climb EXCEPT !.at = Null]  BY <1>2, <1>3 DEF Climb
  <2> QED BY <1>1, <1>2, <1>3, <2>1
<1>4. CASE ~(up = Null \/ up \in climb.seen)
  <2>1. next = [at |-> up, seen |-> climb.seen \cup {up}]  BY <1>2, <1>4 DEF Climb
  <2> QED BY <1>1, <1>2, <1>4, <2>1
<1> QED BY <1>3, <1>4

\* ... and what it has passed.
LEMMA ClimbGoesOn ==
    ASSUME NEW rows, NEW parent \in [rows -> rows \cup {Null}],
           NEW k, NEW m, m.to = k.to, m.id = k.id,
           k.climb \in [at : rows, seen : SUBSET rows], Climbing(k, parent), k.id \notin Passed(k),
           m.climb = Climb(parent, k.id, k.climb), m.climb.at # k.id
    PROVE  /\ m.id \notin Passed(m)
           /\ m.climb.at = Null => Climbed(m, parent)
           /\ m.climb.at # Null => Climbing(m, parent)
<1> DEFINE up == parent[k.climb.at]
<1>1. /\ k.climb.at \in Passed(k)
      /\ \A x \in Passed(k) \ {k.climb.at} : parent[x] \in Passed(k)
  BY DEF Climbing
<1>2. /\ up # k.id
      /\ IF up = Null \/ up \in k.climb.seen
         THEN m.climb.at = Null /\ m.climb.seen = k.climb.seen
         ELSE m.climb.at = up /\ m.climb.at # Null /\ m.climb.seen = k.climb.seen \cup {up}
  BY ClimbReads
<1>3. CASE up = Null \/ up \in k.climb.seen
  <2>1. m.climb.at = Null /\ m.climb.seen = k.climb.seen  BY <1>2, <1>3
  <2>2. Passed(m) = Passed(k)  BY <2>1 DEF Passed
  <2>3. \A x \in Passed(k) : parent[x] \in Passed(k) \cup {Null}
    <3>1. up \in Passed(k) \cup {Null}  BY <1>3 DEF Passed
    <3> QED BY <1>1, <3>1
  <2>4. Climbed(m, parent)  BY <2>2, <2>3 DEF Climbed
  <2> QED BY <2>1, <2>2, <2>4
<1>4. CASE ~(up = Null \/ up \in k.climb.seen)
  <2>1. m.climb.at = up /\ m.climb.at # Null /\ m.climb.seen = k.climb.seen \cup {up}
    BY <1>2, <1>4
  <2>2. Passed(m) = Passed(k) \cup {up}  BY <2>1 DEF Passed
  <2>3. m.id \notin Passed(m)  BY <1>2, <2>2
  <2>4. \A x \in Passed(k) : parent[x] \in Passed(m)  BY <1>1, <2>2
  <2>5. Climbing(m, parent)  BY <2>1, <2>2, <2>4 DEF Climbing
  <2> QED BY <2>1, <2>3, <2>5
<1> QED BY <1>3, <1>4

LEMMA FolderFoundKeeps == ASSUME FolderInv, NEW c \in FolderCalls, FolderFound(c) PROVE FolderInv'
<1>1. UNCHANGED <<folder, movesRaced, trashRaced>>  BY DEF FolderFound
<1>2. PICK q \in FolderCallRow : q = folderCall[c]  BY DEF FolderInv, FolderTypes
<1>3. FolderShape(q) /\ CallThere(q) /\ q.pc = "find"  BY <1>2 DEF FolderInv, FolderFound
<1>4. q.id \in Folders /\ q.op \in {"move", "softDelete", "restore"}
  BY <1>3 DEF FolderShape, FolderCallRow
<1>5. PICK w \in Folders \cup {Null} : w = folder[q.id].parent
  BY <1>4 DEF FolderInv, FolderTypes, FolderRow
<1>6. w # Null => folder[w].exists  BY <1>4, <1>5 DEF FolderInv, ParentsThere
<1>7. CASE FolderEnds(c)  BY <1>1, <1>7, FolderEndsWell
<1>8. CASE ~FolderEnds(c)
  <2>1. /\ Active(q.id) = (q.op # "restore") /\ ~(q.op = "move" /\ q.to \in {w, q.id})
        /\ folderCall' = [folderCall EXCEPT ![c] =
              IF q.op = "restore" THEN [q EXCEPT !.to = w, !.pc = IF w = Null THEN "write" ELSE "parent"]
              ELSE [q EXCEPT !.pc = IF q.op = "softDelete" THEN "count"
                                    ELSE IF q.to = Null THEN "write" ELSE "parent"]]
    BY <1>2, <1>5, <1>8 DEF FolderFound
  <2>2. CASE q.op = "restore"
    <3> DEFINE pc == IF w = Null THEN "write" ELSE "parent"
               k  == [q EXCEPT !.to = w, !.pc = pc]
    <3>1. folderCall' = [folderCall EXCEPT ![c] = k]  BY <2>1, <2>2
    <3>2. pc \in {"write", "parent"} /\ (pc = "write" => w = Null) /\ (pc = "parent" => w # Null)
      OBVIOUS
    <3> HIDE DEF pc
    <3>3. k \in FolderCallRow  BY <3>2 DEF FolderCallRow
    <3>4. k.op = q.op /\ k.id = q.id /\ k.to = w /\ k.pc = pc /\ k.climb = q.climb  BY DEF FolderCallRow
    <3> HIDE DEF k
    <3>5. FolderShape(k)  BY <1>3, <2>2, <3>2, <3>4 DEF FolderShape
    <3>6. CallThere(k)  BY <1>3, <1>6, <3>4 DEF CallThere
    <3>7. MoveKnows(k)  BY <1>5, <2>2, <3>4 DEF MoveKnows
    <3>8. TrashKnows(k)  BY <2>2, <3>2, <3>4 DEF TrashKnows
    <3> QED BY <1>1, <1>2, <3>1, <3>3, <3>4, <3>5, <3>6, <3>7, <3>8, FolderCallMoves
  <2>3. CASE q.op # "restore"
    <3> DEFINE pc == IF q.op = "softDelete" THEN "count" ELSE IF q.to = Null THEN "write" ELSE "parent"
               k  == [q EXCEPT !.pc = pc]
    <3>1. folderCall' = [folderCall EXCEPT ![c] = k]  BY <2>1, <2>3
    <3>2. /\ pc \in {"count", "write", "parent"}
          /\ pc = "count" => q.op = "softDelete"
          /\ pc = "write" => q.op = "move" /\ q.to = Null
          /\ pc = "parent" => q.op = "move" /\ q.to # Null
      BY <1>4, <2>3
    <3> HIDE DEF pc
    <3>3. k \in FolderCallRow  BY <3>2 DEF FolderCallRow
    <3>4. k.op = q.op /\ k.id = q.id /\ k.to = q.to /\ k.pc = pc /\ k.climb = q.climb
      BY DEF FolderCallRow
    <3> HIDE DEF k
    <3>5. FolderShape(k)  BY <1>3, <3>2, <3>4 DEF FolderShape
    <3>6. CallThere(k)  BY <1>3, <3>2, <3>4 DEF CallThere
    <3>7. ASSUME ~movesRaced PROVE MoveKnows(k)
      <4> SUFFICES ASSUME q.op = "move", q.to # Null PROVE MoveStands(k, FolderParent)
        BY <2>3, <3>4 DEF MoveKnows
      <4>1. q.climb = ClimbFrom(q.to)  BY <1>3 DEF FolderShape
      <4>2. Passed(k) = {q.to}  BY <3>4, <4>1 DEF Passed, ClimbFrom
      <4>3. q.to # q.id /\ pc = "parent"  BY <2>1, <3>2
      <4> QED BY <3>4, <4>1, <4>2, <4>3 DEF MoveStands
    <3>8. TrashKnows(k)  BY <3>2, <3>4 DEF TrashKnows
    <3> QED BY <1>1, <1>2, <3>1, <3>3, <3>4, <3>5, <3>6, <3>7, <3>8, FolderCallMoves
  <2> QED BY <2>2, <2>3
<1> QED BY <1>7, <1>8

LEMMA ParentFoundKeeps == ASSUME FolderInv, NEW c \in FolderCalls, ParentFound(c) PROVE FolderInv'
<1>1. UNCHANGED <<folder, movesRaced, trashRaced>>  BY DEF ParentFound
<1>2. PICK q \in FolderCallRow : q = folderCall[c]  BY DEF FolderInv, FolderTypes
<1>3. FolderShape(q) /\ CallThere(q) /\ q.pc = "parent"  BY <1>2 DEF FolderInv, ParentFound
<1>4. q.id \in Folders /\ q.op \in {"create", "move", "restore"} /\ q.to \in Folders /\ q.to # Null
  BY <1>3 DEF FolderShape, FolderCallRow
<1>5. CASE Active(q.to)
  <2> DEFINE pc == IF q.op = "move" THEN "climb" ELSE "write"
             k  == [q EXCEPT !.pc = pc]
  <2>1. folderCall' = [folderCall EXCEPT ![c] = k]  BY <1>2, <1>5 DEF ParentFound, FolderGoes
  <2>2. /\ pc \in {"climb", "write"}
        /\ pc = "climb" => q.op = "move"
        /\ pc = "write" => q.op # "move"
    OBVIOUS
  <2> HIDE DEF pc
  <2>3. k \in FolderCallRow  BY <2>2 DEF FolderCallRow
  <2>4. k.op = q.op /\ k.id = q.id /\ k.to = q.to /\ k.pc = pc /\ k.climb = q.climb
    BY DEF FolderCallRow
  <2> HIDE DEF k
  <2>5. CallThere(k)  BY <1>3, <2>2, <2>4 DEF CallThere
  <2>6. TrashKnows(k)  BY <1>4, <1>5, <2>4 DEF TrashKnows
  <2>7. CASE q.op # "move"
    <3>1. FolderShape(k)  BY <1>3, <1>4, <2>2, <2>4, <2>7 DEF FolderShape
    <3>2. ASSUME ~movesRaced PROVE MoveKnows(k)
      <4>1. MoveKnows(q)  BY <1>2, <3>2 DEF FolderInv, MovesStand
      <4> QED BY <1>3, <2>4, <2>7, <4>1 DEF MoveKnows
    <3> QED BY <1>1, <1>2, <2>1, <2>3, <2>4, <2>5, <2>6, <3>1, <3>2, FolderCallMoves
  <2>8. CASE q.op = "move"
    <3>1. pc = "climb" /\ q.climb = ClimbFrom(q.to)  BY <1>3, <2>2, <2>8 DEF FolderShape
    <3>2. k.climb.at = q.to /\ Passed(k) = {q.to} /\ Passed(q) = Passed(k)
      BY <2>4, <3>1 DEF Passed, ClimbFrom
    <3>3. FolderShape(k)  BY <1>3, <1>4, <2>4, <2>8, <3>1, <3>2 DEF FolderShape
    <3>4. ASSUME ~movesRaced PROVE MoveKnows(k)
      <4>1. MoveStands(q, FolderParent)
        BY <1>2, <1>4, <2>8, <3>4 DEF FolderInv, MovesStand, MoveKnows
      <4>2. q.id \notin Passed(q)  BY <1>3, <4>1 DEF MoveStands
      <4>3. Climbing(k, FolderParent)  BY <3>2 DEF Climbing
      <4>4. MoveStands(k, FolderParent)  BY <2>4, <3>1, <3>2, <4>2, <4>3 DEF MoveStands
      <4> QED BY <2>4, <2>8, <4>4 DEF MoveKnows
    <3> QED BY <1>1, <1>2, <2>1, <2>3, <2>4, <2>5, <2>6, <3>3, <3>4, FolderCallMoves
  <2> QED BY <2>7, <2>8
<1>6. CASE ~Active(q.to) /\ q.op = "restore"
  <2> DEFINE k == [q EXCEPT !.to = Null, !.pc = "write"]
  <2>1. folderCall' = [folderCall EXCEPT ![c].to = Null, ![c].pc = "write"]
    BY <1>2, <1>6 DEF ParentFound
  <2>2. folderCall' = [folderCall EXCEPT ![c] = k]
    BY <1>2, <2>1 DEF FolderInv, FolderTypes, FolderCallRow
  <2>3. k \in FolderCallRow  BY DEF FolderCallRow
  <2>4. k.op = q.op /\ k.id = q.id /\ k.to = Null /\ k.pc = "write" /\ k.climb = q.climb
    BY DEF FolderCallRow
  <2> HIDE DEF k
  <2>5. FolderShape(k)  BY <1>3, <1>6, <2>4 DEF FolderShape
  <2>6. CallThere(k)  BY <1>3, <2>4 DEF CallThere
  <2>7. MoveKnows(k) /\ TrashKnows(k)  BY <1>6, <2>4 DEF MoveKnows, TrashKnows
  <2> QED BY <1>1, <1>2, <2>2, <2>3, <2>4, <2>5, <2>6, <2>7, FolderCallMoves
<1>7. CASE ~Active(q.to) /\ q.op # "restore"
  <2>1. FolderEnds(c)  BY <1>2, <1>7 DEF ParentFound
  <2> QED BY <1>1, <2>1, FolderEndsWell
<1> QED BY <1>5, <1>6, <1>7

LEMMA FolderClimbsKeeps == ASSUME FolderInv, NEW c \in FolderCalls, FolderClimbs(c) PROVE FolderInv'
<1>1. UNCHANGED <<folder, movesRaced, trashRaced>>  BY DEF FolderClimbs
<1>2. PICK q \in FolderCallRow : q = folderCall[c]  BY DEF FolderInv, FolderTypes
<1>3. FolderShape(q) /\ CallThere(q) /\ q.pc = "climb"  BY <1>2 DEF FolderInv, FolderClimbs
<1>4. q.id \in Folders /\ q.op = "move" /\ q.to \in Folders /\ q.to # Null /\ q.climb.at # Null
  BY <1>3 DEF FolderShape, FolderCallRow
<1>5. q.climb \in [at : Folders, seen : SUBSET Folders]  BY <1>4 DEF FolderCallRow
<1>6. FolderParent \in [Folders -> Folders \cup {Null}]
  BY DEF FolderInv, FolderTypes, FolderRow, FolderParent
<1> DEFINE next == Climb(FolderParent, q.id, q.climb)
<1>7. CASE next.at = q.id
  <2>1. FolderEnds(c)  BY <1>2, <1>7 DEF FolderClimbs
  <2> QED BY <1>1, <2>1, FolderEndsWell
<1>8. CASE next.at # q.id
  <2> DEFINE up == FolderParent[q.climb.at]
             pc == IF next.at = Null THEN "write" ELSE "climb"
             k  == [q EXCEPT !.climb = next, !.pc = pc]
  <2>1. /\ next \in [at : Folders \cup {Null}, seen : SUBSET Folders]
        /\ next.seen = q.climb.seen \/ (next.seen = q.climb.seen \cup {up} /\ up # Null)
    <3>1. /\ next \in [at : Folders \cup {Null}, seen : SUBSET Folders]
          /\ IF up = Null \/ up \in q.climb.seen
             THEN next.at = Null /\ next.seen = q.climb.seen
             ELSE next.at = up /\ next.at # Null /\ next.seen = q.climb.seen \cup {up}
      BY <1>5, <1>6, <1>8, ClimbReads
    <3> HIDE DEF next, up
    <3> QED BY <3>1
  <2>2. folderCall' = [folderCall EXCEPT ![c].climb = next, ![c].pc = pc]
    BY <1>2, <1>8 DEF FolderClimbs
  <2>3. \A x \in next.seen : folder[x].exists
    <3>1. q.climb.at \in Folders /\ up = folder[q.climb.at].parent  BY <1>5 DEF FolderParent
    <3>2. up # Null => folder[up].exists  BY <3>1 DEF FolderInv, ParentsThere
    <3>3. \A x \in q.climb.seen : folder[x].exists  BY <1>3 DEF CallThere
    <3> QED BY <2>1, <3>2, <3>3
  <2> HIDE DEF next
  <2>4. folderCall' = [folderCall EXCEPT ![c] = k]
    BY <1>2, <2>2 DEF FolderInv, FolderTypes, FolderCallRow
  <2>5. pc \in {"write", "climb"} /\ (pc = "write" => next.at = Null) /\ (pc = "climb" => next.at # Null)
    OBVIOUS
  <2> HIDE DEF pc, up
  <2>6. k \in FolderCallRow  BY <2>1, <2>5 DEF FolderCallRow
  <2>7. k.op = q.op /\ k.id = q.id /\ k.to = q.to /\ k.pc = pc /\ k.climb = next
    BY DEF FolderCallRow
  <2> HIDE DEF k
  <2>8. FolderShape(k)  BY <1>3, <1>4, <2>5, <2>7 DEF FolderShape
  <2>9. CallThere(k)  BY <1>3, <2>3, <2>5, <2>7 DEF CallThere
  <2>10. ASSUME ~movesRaced PROVE MoveKnows(k)
    <3>1. MoveStands(q, FolderParent)
      BY <1>2, <1>4, <2>10 DEF FolderInv, MovesStand, MoveKnows
    <3>2. Climbing(q, FolderParent) /\ q.id \notin Passed(q)  BY <1>3, <3>1 DEF MoveStands
    <3>3. /\ k.id \notin Passed(k)
          /\ k.climb.at = Null => Climbed(k, FolderParent)
          /\ k.climb.at # Null => Climbing(k, FolderParent)
      BY <1>5, <1>6, <1>8, <2>7, <3>2, ClimbGoesOn DEF next
    <3>4. MoveStands(k, FolderParent)  BY <2>5, <2>7, <3>3 DEF MoveStands
    <3> QED BY <1>4, <2>7, <3>4 DEF MoveKnows
  <2>11. ASSUME ~trashRaced PROVE TrashKnows(k)
    <3>1. Active(q.to)
      BY <1>2, <1>3, <1>4, <2>11 DEF FolderInv, TrashStands, TrashKnows, Places
    <3> QED BY <1>4, <2>7, <3>1 DEF TrashKnows
  <2> QED BY <1>1, <1>2, <2>4, <2>6, <2>7, <2>8, <2>9, <2>10, <2>11, FolderCallMoves
<1> QED BY <1>7, <1>8

LEMMA ChildrenCountedKeeps ==
    ASSUME FolderInv, NEW c \in FolderCalls, ChildrenCounted(c) PROVE FolderInv'
<1>1. UNCHANGED <<folder, movesRaced, trashRaced>>  BY DEF ChildrenCounted
<1>2. PICK q \in FolderCallRow : q = folderCall[c]  BY DEF FolderInv, FolderTypes
<1>3. FolderShape(q) /\ CallThere(q) /\ q.pc = "count"  BY <1>2 DEF FolderInv, ChildrenCounted
<1>4. q.op = "softDelete"  BY <1>3 DEF FolderShape
<1>5. CASE FolderEnds(c)  BY <1>1, <1>5, FolderEndsWell
<1>6. CASE ~FolderEnds(c)
  <2> DEFINE k == [q EXCEPT !.pc = "write"]
  <2>1. /\ \A f \in Folders : Active(f) => folder[f].parent # q.id
        /\ folderCall' = [folderCall EXCEPT ![c] = k]
    BY <1>2, <1>6 DEF ChildrenCounted, FolderGoes
  <2>2. k \in FolderCallRow  BY DEF FolderCallRow
  <2>3. k.op = q.op /\ k.id = q.id /\ k.to = q.to /\ k.pc = "write" /\ k.climb = q.climb
    BY DEF FolderCallRow
  <2> HIDE DEF k
  <2>4. FolderShape(k)  BY <1>3, <1>4, <2>3 DEF FolderShape
  <2>5. CallThere(k)  BY <1>3, <2>3 DEF CallThere
  <2>6. MoveKnows(k)  BY <1>4, <2>3 DEF MoveKnows
  <2>7. TrashKnows(k)  BY <1>4, <2>1, <2>3 DEF TrashKnows, Places
  <2> QED BY <1>1, <1>2, <2>1, <2>2, <2>3, <2>4, <2>5, <2>6, <2>7, FolderCallMoves
<1> QED BY <1>5, <1>6

LEMMA FolderRequestKeeps == ASSUME FolderInv, NEW c \in FolderCalls, FolderRequest(c) PROVE FolderInv'
<1>1. PICK op \in {"create", "move", "softDelete", "restore"}, id \in Folders, to \in Folders \cup {Null} :
         FolderCallBegins(c, op, id, to)
  BY DEF FolderRequest
<1> DEFINE Others(ops) == \E d \in FolderCalls \ {c} : Under(d, ops)
<1>2. /\ folderCall[c].pc = "idle"
      /\ op = "create" => ~folder[id].exists /\ \A d \in FolderCalls : folderCall[d].id # id
      /\ op # "create" => folder[id].exists
      /\ to # Null => folder[to].exists
      /\ movesRaced' = (movesRaced \/ (op \in {"move", "restore"} /\ Others({"move", "restore"})))
      /\ trashRaced' = \/ trashRaced
                       \/ (op = "softDelete" /\ Others(Places))
                       \/ (op \in Places /\ Others({"softDelete"}))
      /\ folder' = folder
  BY <1>1 DEF FolderCallBegins, Places
<1> DEFINE pc == IF op # "create" THEN "find" ELSE IF to = Null THEN "write" ELSE "parent"
           k  == [op |-> op, id |-> id, to |-> to, climb |-> ClimbFrom(to), pc |-> pc]
<1>3. folderCall' = [folderCall EXCEPT ![c] = k]  BY <1>1 DEF FolderCallBegins
<1>4. /\ pc \in {"find", "write", "parent"}
      /\ pc = "find" => op # "create"
      /\ pc = "write" => op = "create" /\ to = Null
      /\ pc = "parent" => op = "create" /\ to # Null
  OBVIOUS
<1> HIDE DEF pc
<1>5. k \in FolderCallRow  BY <1>4 DEF FolderCallRow, ClimbFrom
<1>6. k.op = op /\ k.id = id /\ k.to = to /\ k.pc = pc /\ k.climb = ClimbFrom(to)  OBVIOUS
<1> HIDE DEF k
<1>7. FolderShape(k)  BY <1>4, <1>6 DEF FolderShape
<1>8. k.climb.seen = {}  BY <1>6 DEF ClimbFrom
<1>9. CallThere(k)  BY <1>2, <1>6, <1>8 DEF CallThere
<1>10. MoveKnows(k)  BY <1>4, <1>6 DEF MoveKnows, MoveStands
<1>11. TrashKnows(k)  BY <1>4, <1>6 DEF TrashKnows, Places
<1>12. /\ folderCall' \in [FolderCalls -> FolderCallRow]
       /\ \A d \in FolderCalls : folderCall'[d] = IF d = c THEN k ELSE folderCall[d]
  BY <1>3, <1>5, FolderTypesStay DEF FolderInv
<1>13. FolderTypes'
  <2>1. movesRaced' \in BOOLEAN /\ trashRaced' \in BOOLEAN  BY <1>2 DEF FolderInv, FolderTypes
  <2> QED BY <1>2, <1>12, <2>1 DEF FolderInv, FolderTypes
<1>14. \A d \in FolderCalls : FolderShape(folderCall[d])'
  <2>1. \A d \in FolderCalls : FolderShape(folderCall'[d])  BY <1>7, <1>12 DEF FolderInv
  <2> QED BY <2>1 DEF FolderShape
<1>15. \A d \in FolderCalls : CallThere(folderCall[d])'
  <2>1. \A d \in FolderCalls : CallThere(folderCall'[d])  BY <1>9, <1>12 DEF FolderInv
  <2> QED BY <1>2, <2>1 DEF CallThere
<1>16. ParentsThere'  BY <1>2 DEF FolderInv, ParentsThere
<1>17. IdsApart'
  <2> SUFFICES ASSUME NEW d \in FolderCalls, NEW e \in FolderCalls, d # e,
                      folderCall'[d].op = "create"
               PROVE  folderCall'[e].id # folderCall'[d].id
    BY DEF IdsApart
  <2>1. CASE d = c  BY <1>2, <1>6, <1>12, <2>1
  <2>2. CASE e = c
    <3>1. folderCall'[d] = folderCall[d] /\ folderCall'[e].id = id  BY <1>6, <1>12, <2>2
    <3>2. FolderShape(folderCall[d]) /\ CallThere(folderCall[d])  BY DEF FolderInv
    <3>3. ~folder[folderCall[d].id].exists  BY <3>1, <3>2 DEF FolderShape, CallThere
    <3>4. CASE op = "create"  BY <1>2, <3>1, <3>4
    <3>5. CASE op # "create"  BY <1>2, <3>1, <3>3, <3>5
    <3> QED BY <3>4, <3>5
  <2>3. CASE d # c /\ e # c  BY <1>12, <2>3 DEF FolderInv, IdsApart
  <2> QED BY <2>1, <2>2, <2>3
<1>18. ASSUME ~movesRaced' PROVE MovesStand'
  <2>1. ~movesRaced /\ ~(op \in {"move", "restore"} /\ Others({"move", "restore"}))  BY <1>2, <1>18
  <2>2. MovesStand  BY <2>1 DEF FolderInv
  <2>3. \A d \in FolderCalls : MoveKnows(folderCall'[d])  BY <1>10, <1>12, <2>2 DEF MovesStand
  <2>4. \A d \in FolderCalls : MoveKnows(folderCall[d])'  BY <1>2, <2>3, MoveStaysKnown
  <2>5. Founded(Folders, FolderParent)'  BY <1>2, <2>2 DEF MovesStand, FolderParent, Founded
  <2>6. ASSUME NEW d \in FolderCalls, NEW e \in FolderCalls,
               Under(d, {"move", "restore"})', Under(e, {"move", "restore"})'
        PROVE  d = e
    <3>1. folderCall'[d].op \in {"move", "restore"} /\ folderCall'[e].op \in {"move", "restore"}
      BY <2>6 DEF Under
    <3>2. CASE d = c /\ e # c
      <4>1. op \in {"move", "restore"} /\ Under(e, {"move", "restore"})
        BY <1>6, <1>12, <3>1, <3>2 DEF Under
      <4> QED BY <2>1, <3>2, <4>1
    <3>3. CASE d # c /\ e = c
      <4>1. op \in {"move", "restore"} /\ Under(d, {"move", "restore"})
        BY <1>6, <1>12, <3>1, <3>3 DEF Under
      <4> QED BY <2>1, <3>3, <4>1
    <3>4. CASE d # c /\ e # c  BY <1>12, <2>2, <3>1, <3>4 DEF MovesStand, Under
    <3> QED BY <3>2, <3>3, <3>4
  <2> QED BY <2>4, <2>5, <2>6 DEF MovesStand
<1>19. ASSUME ~trashRaced' PROVE TrashStands'
  <2>1. /\ ~trashRaced
        /\ ~(op = "softDelete" /\ Others(Places))
        /\ ~(op \in Places /\ Others({"softDelete"}))
    BY <1>2, <1>19
  <2>2. TrashStands  BY <2>1 DEF FolderInv
  <2>3. \A d \in FolderCalls : TrashKnows(folderCall'[d])  BY <1>11, <1>12, <2>2 DEF TrashStands
  <2>4. \A d \in FolderCalls : TrashKnows(folderCall[d])'  BY <1>2, <2>3 DEF TrashKnows, Active
  <2>5. HungOnActive'  BY <1>2, <2>2 DEF TrashStands, HungOnActive, Active
  <2>6. ASSUME NEW d \in FolderCalls, NEW e \in FolderCalls, Under(d, {"softDelete"})'
        PROVE  ~Under(e, Places)'
    <3> SUFFICES ASSUME folderCall'[d].op = "softDelete", folderCall'[e].op \in Places PROVE FALSE
      BY <2>6 DEF Under, Places
    <3>1. d # e  BY DEF Places
    <3>2. CASE d = c
      <4>1. op = "softDelete" /\ Under(e, Places)  BY <1>6, <1>12, <3>1, <3>2 DEF Under
      <4> QED BY <2>1, <3>1, <3>2, <4>1
    <3>3. CASE e = c
      <4>1. op \in Places /\ Under(d, {"softDelete"})  BY <1>6, <1>12, <3>1, <3>3 DEF Under
      <4> QED BY <2>1, <3>1, <3>3, <4>1
    <3>4. CASE d # c /\ e # c  BY <1>12, <2>2, <3>4 DEF TrashStands, Under
    <3> QED BY <3>2, <3>3, <3>4
  <2> QED BY <2>4, <2>5, <2>6 DEF TrashStands
<1> QED BY <1>13, <1>14, <1>15, <1>16, <1>17, <1>18, <1>19 DEF FolderInv

\* A row that is hung nowhere, or stays where it is, closes no cycle ...
LEMMA FoundedLoosened ==
    ASSUME NEW rows, Null \notin rows, NEW parent, Founded(rows, parent), NEW x, NEW parent2,
           \A y \in rows \ {x} : parent2[y] = parent[y], parent2[x] \in {Null, parent[x]}
    PROVE  Founded(rows, parent2)
<1> SUFFICES ASSUME NEW S \in SUBSET rows, S # {} PROVE \E y \in S : parent2[y] \notin S
  BY DEF Founded
<1>1. PICK y \in S : parent[y] \notin S  BY DEF Founded
<1> QED BY <1>1

\* ... nor does a row below which there is nothing ...
LEMMA FoundedGrown ==
    ASSUME NEW rows, NEW parent, Founded(rows, parent), NEW x, NEW parent2,
           \A y \in rows \ {x} : parent2[y] = parent[y] /\ parent[y] # x, parent2[x] # x
    PROVE  Founded(rows, parent2)
<1> SUFFICES ASSUME NEW S \in SUBSET rows, S # {} PROVE \E y \in S : parent2[y] \notin S
  BY DEF Founded
<1>1. CASE S \ {x} = {}  BY <1>1
<1>2. CASE S \ {x} # {}
  <2>1. PICK y \in S \ {x} : parent[y] \notin S \ {x}  BY <1>2 DEF Founded
  <2>2. parent2[y] = parent[y] /\ parent[y] # x  BY <2>1
  <2> QED BY <2>1, <2>2
<1> QED BY <1>1, <1>2

\* ... nor one that is hung below rows among whose parents it is not.
LEMMA FoundedMoved ==
    ASSUME NEW rows, Null \notin rows, NEW parent, Founded(rows, parent), NEW x, NEW parent2,
           \A y \in rows \ {x} : parent2[y] = parent[y],
           NEW A, x \notin A, parent2[x] \in A, \A y \in A : parent[y] \in A \cup {Null}
    PROVE  Founded(rows, parent2)
<1> SUFFICES ASSUME NEW S \in SUBSET rows, S # {} PROVE \E y \in S : parent2[y] \notin S
  BY DEF Founded
<1>1. CASE S \cap A = {}
  <2>1. CASE x \in S  BY <1>1, <2>1
  <2>2. CASE x \notin S
    <3>1. PICK y \in S : parent[y] \notin S  BY DEF Founded
    <3> QED BY <2>2, <3>1
  <2> QED BY <2>1, <2>2
<1>2. CASE S \cap A # {}
  <2>1. PICK y \in S \cap A : parent[y] \notin S \cap A  BY <1>2 DEF Founded
  <2>2. parent2[y] = parent[y] /\ parent[y] \in A \cup {Null}  BY <2>1
  <2> QED BY <2>1, <2>2
<1> QED BY <1>1, <1>2

\* The row a call writes.
LEMMA FolderWrittenRow ==
    ASSUME FolderInv, NEW c \in FolderCalls, FolderWritten(c), NEW q \in FolderCallRow, q = folderCall[c]
    PROVE  \E row \in FolderRow :
              /\ folder' = [folder EXCEPT ![q.id] = row]
              /\ row.exists
              /\ q.op = "softDelete" => row.parent = folder[q.id].parent
              /\ q.op # "softDelete" => row.parent = q.to
              /\ row.trashed <=> \/ q.op = "softDelete"
                                 \/ q.op = "move" /\ folder[q.id].trashed
<1>1. FolderShape(q) /\ CallThere(q) /\ q.pc = "write"  BY DEF FolderInv, FolderWritten
<1>2. q.id \in Folders /\ q.op \in {"create", "move", "softDelete", "restore"}
  BY <1>1 DEF FolderShape, FolderCallRow
<1>3. PICK old \in FolderRow : old = folder[q.id]  BY <1>2 DEF FolderInv, FolderTypes
<1>4. q.to \in Folders \cup {Null} /\ (q.op # "create" => old.exists)
  BY <1>1, <1>3 DEF FolderCallRow, CallThere
<1>5. CASE q.op = "create"
  <2> DEFINE row == [exists |-> TRUE, trashed |-> FALSE, parent |-> q.to]
  <2>1. row \in FolderRow  BY <1>4 DEF FolderRow
  <2>2. folder' = [folder EXCEPT ![q.id] = row]  BY <1>5 DEF FolderWritten
  <2> QED BY <1>5, <2>1, <2>2
<1>6. CASE q.op = "move"
  <2> DEFINE row == [old EXCEPT !.parent = q.to]
  <2>1. row \in FolderRow /\ row.exists = old.exists /\ row.trashed = old.trashed /\ row.parent = q.to
    BY <1>4 DEF FolderRow
  <2>2. folder' = [folder EXCEPT ![q.id] = row]  BY <1>3, <1>6 DEF FolderWritten
  <2> QED BY <1>3, <1>4, <1>6, <2>1, <2>2
<1>7. CASE q.op = "softDelete"
  <2> DEFINE row == [old EXCEPT !.trashed = TRUE]
  <2>1. row \in FolderRow /\ row.exists = old.exists /\ row.trashed /\ row.parent = old.parent
    BY DEF FolderRow
  <2>2. folder' = [folder EXCEPT ![q.id] = row]  BY <1>3, <1>7 DEF FolderWritten
  <2> QED BY <1>3, <1>4, <1>7, <2>1, <2>2
<1>8. CASE q.op = "restore"
  <2> DEFINE row == [old EXCEPT !.trashed = FALSE, !.parent = q.to]
  <2>1. row \in FolderRow /\ row.exists = old.exists /\ ~row.trashed /\ row.parent = q.to
    BY <1>4 DEF FolderRow
  <2>2. folder' = [folder EXCEPT ![q.id] = row]  BY <1>3, <1>8 DEF FolderWritten
  <2> QED BY <1>3, <1>4, <1>8, <2>1, <2>2
<1> QED BY <1>2, <1>5, <1>6, <1>7, <1>8

LEMMA FolderWrittenKeeps == ASSUME FolderInv, NEW c \in FolderCalls, FolderWritten(c) PROVE FolderInv'
<1>1. UNCHANGED <<movesRaced, trashRaced>> /\ FolderEnds(c)  BY DEF FolderWritten
<1>2. PICK q \in FolderCallRow : q = folderCall[c]  BY DEF FolderInv, FolderTypes
<1>3. FolderShape(q) /\ CallThere(q) /\ q.pc = "write"  BY <1>2 DEF FolderInv, FolderWritten
<1>4. /\ q.id \in Folders /\ q.op \in {"create", "move", "softDelete", "restore"}
      /\ q.to \in Folders \cup {Null} /\ q.id # Null
  BY <1>3, ArchiveAssumption DEF FolderShape, FolderCallRow
<1>5. PICK row \in FolderRow :
         /\ folder' = [folder EXCEPT ![q.id] = row]
         /\ row.exists
         /\ q.op = "softDelete" => row.parent = folder[q.id].parent
         /\ q.op # "softDelete" => row.parent = q.to
         /\ row.trashed <=> \/ q.op = "softDelete"
                            \/ q.op = "move" /\ folder[q.id].trashed
  BY <1>2, FolderWrittenRow
<1>6. /\ folder' \in [Folders -> FolderRow] /\ folder'[q.id] = row
      /\ \A f \in Folders \ {q.id} : folder'[f] = folder[f]
      /\ \A f \in Folders : folder[f].exists => folder'[f].exists
  BY <1>4, <1>5 DEF FolderInv, FolderTypes
<1>7. PICK k \in FolderCallRow : k = NoFolderCall  BY NoFolderCallFits
<1>8. FolderShape(k) /\ k.op = "none" /\ k.pc = "idle"  BY <1>7, NoFolderCallFits
<1>9. folderCall' = [folderCall EXCEPT ![c] = k]  BY <1>1, <1>7 DEF FolderEnds
<1>10. /\ folderCall' \in [FolderCalls -> FolderCallRow]
       /\ \A d \in FolderCalls : folderCall'[d] = IF d = c THEN k ELSE folderCall[d]
  BY <1>9, FolderTypesStay DEF FolderInv
<1>11. FolderTypes'  BY <1>1, <1>6, <1>10 DEF FolderInv, FolderTypes
<1>12. \A d \in FolderCalls : FolderShape(folderCall[d])'
  <2>1. \A d \in FolderCalls : FolderShape(folderCall'[d])  BY <1>8, <1>10 DEF FolderInv
  <2> QED BY <2>1 DEF FolderShape
<1>13. IdsApart'  BY <1>8, <1>9, IdsStayApart
<1>14. ParentsThere'
  <2> SUFFICES ASSUME NEW f \in Folders
               PROVE  /\ ~folder'[f].exists => folder'[f].parent = Null
                      /\ folder'[f].parent # Null => folder'[folder'[f].parent].exists
    BY DEF ParentsThere
  <2>1. \A x \in Folders : /\ ~folder[x].exists => folder[x].parent = Null
                           /\ folder[x].parent # Null => folder[folder[x].parent].exists
                           /\ folder[x].parent \in Folders \cup {Null}
    BY DEF FolderInv, ParentsThere, FolderTypes, FolderRow
  <2>2. q.to # Null => folder[q.to].exists  BY <1>3 DEF CallThere
  <2>3. CASE f # q.id  BY <1>6, <2>1, <2>3
  <2>4. CASE f = q.id
    <3>1. row.parent # Null => row.parent \in Folders /\ folder[row.parent].exists
      BY <1>4, <1>5, <2>1, <2>2
    <3> QED BY <1>5, <1>6, <2>4, <3>1
  <2> QED BY <2>3, <2>4
<1>15. ASSUME NEW d \in FolderCalls, d # c
       PROVE  /\ CallThere(folderCall[d]) /\ folderCall'[d] = folderCall[d]
              /\ folderCall[d].pc # "idle" => /\ CallThere(folderCall[d])'
                                              /\ folderCall[d].op = "create" => folderCall[d].id # q.id
  <2>1. PICK m \in FolderCallRow : m = folderCall[d]  BY DEF FolderInv, FolderTypes
  <2>2. FolderShape(m) /\ CallThere(m)  BY <2>1 DEF FolderInv
  <2>3. folderCall'[d] = m  BY <1>10, <1>15, <2>1
  <2>4. ASSUME m.pc # "idle", m.op = "create" PROVE m.id # q.id
    <3>1. ~folder[m.id].exists  BY <2>2, <2>4 DEF CallThere
    <3>2. CASE q.op = "create"  BY <1>2, <1>15, <2>1, <3>2 DEF FolderInv, IdsApart
    <3>3. CASE q.op # "create"  BY <1>3, <3>1, <3>3 DEF CallThere
    <3> QED BY <3>2, <3>3
  <2>5. ASSUME m.pc # "idle" PROVE CallThere(m)'
    <3>1. m.id \in Folders /\ m.to \in Folders \cup {Null} /\ m.climb.seen \in SUBSET Folders
      BY <2>2, <2>5 DEF FolderShape, FolderCallRow
    <3>2. folder'[m.id].exists <=> (m.op # "create")
      <4>1. folder[m.id].exists <=> (m.op # "create")  BY <2>2, <2>5 DEF CallThere
      <4> QED BY <1>6, <2>4, <2>5, <3>1, <4>1
    <3>3. m.to # Null => folder'[m.to].exists  BY <1>6, <2>2, <2>5, <3>1 DEF CallThere
    <3>4. \A x \in m.climb.seen : folder'[x].exists  BY <1>6, <2>2, <2>5, <3>1 DEF CallThere
    <3> QED BY <3>2, <3>3, <3>4 DEF CallThere
  <2>6. m.pc # "idle" => CallThere(folderCall[d])'  BY <2>3, <2>5 DEF CallThere
  <2> QED BY <2>1, <2>2, <2>3, <2>4, <2>6
<1>16. \A d \in FolderCalls : CallThere(folderCall[d])'
  <2> SUFFICES ASSUME NEW d \in FolderCalls PROVE CallThere(folderCall[d])'  OBVIOUS
  <2>1. folderCall'[d].pc = "idle" => CallThere(folderCall[d])'  BY DEF CallThere
  <2>2. CASE d = c  BY <1>8, <1>10, <2>1, <2>2
  <2>3. CASE d # c  BY <1>15, <2>1, <2>3
  <2> QED BY <2>2, <2>3
<1>17. ASSUME ~movesRaced PROVE MovesStand'
  <2>1. MovesStand /\ MoveKnows(q)  BY <1>2, <1>17 DEF FolderInv, MovesStand
  <2> DEFINE was == FolderParent
             now == FolderParent'
  <2>2. \A y \in Folders \ {q.id} : now[y] = was[y]  BY <1>6 DEF FolderParent
  <2>3. now[q.id] = row.parent /\ was[q.id] = folder[q.id].parent  BY <1>4, <1>6 DEF FolderParent
  <2>4. Founded(Folders, was)  BY <2>1 DEF MovesStand
  <2>5. Founded(Folders, now)
    <3>1. CASE row.parent \in {Null, folder[q.id].parent}
      <4>1. now[q.id] \in {Null, was[q.id]}  BY <2>3, <3>1
      <4> HIDE DEF was, now
      <4> QED BY <2>2, <2>4, <4>1, ArchiveAssumption, FoundedLoosened
    <3>2. CASE q.op = "create" /\ q.to # Null
      <4>1. ~folder[q.id].exists /\ folder[q.to].exists  BY <1>3, <3>2 DEF CallThere
      <4>2. \A y \in Folders : was[y] # q.id
        BY <1>4, <4>1 DEF FolderInv, ParentsThere, FolderParent
      <4>3. now[q.id] # q.id  BY <1>5, <2>3, <3>2, <4>1
      <4> HIDE DEF was, now
      <4> QED BY <2>2, <2>4, <4>2, <4>3, FoundedGrown
    <3>3. CASE q.op = "move" /\ q.to # Null
      <4>1. MoveStands(q, was)  BY <2>1, <3>3 DEF MoveKnows
      <4>2. q.id \notin Passed(q) /\ Climbed(q, was)  BY <1>3, <4>1 DEF MoveStands
      <4>3. now[q.id] \in Passed(q)  BY <1>5, <2>3, <3>3 DEF Passed
      <4>4. \A y \in Passed(q) : was[y] \in Passed(q) \cup {Null}  BY <4>2 DEF Climbed
      <4> HIDE DEF was, now
      <4> QED BY <2>2, <2>4, <4>2, <4>3, <4>4, ArchiveAssumption, FoundedMoved
    <3>4. q.op = "restore" => q.to \in {Null, folder[q.id].parent}  BY <1>3, <2>1 DEF MoveKnows
    <3> QED BY <1>4, <1>5, <3>1, <3>2, <3>3, <3>4
  <2>6. ASSUME NEW d \in FolderCalls PROVE MoveKnows(folderCall[d])'
    <3>1. CASE folderCall'[d].op \notin {"move", "restore"}  BY <3>1 DEF MoveKnows
    <3>2. CASE folderCall'[d].op \in {"move", "restore"}
      <4>1. d # c  BY <1>8, <1>10, <3>2
      <4>2. PICK m \in FolderCallRow : m = folderCall[d]  BY DEF FolderInv, FolderTypes
      <4>3. FolderShape(m) /\ CallThere(m) /\ folderCall'[d] = m /\ MoveKnows(m)
        BY <1>15, <2>1, <4>1, <4>2 DEF FolderInv, MovesStand
      <4>4. q.op \notin {"move", "restore"}
        BY <1>2, <2>1, <3>2, <4>1, <4>2, <4>3 DEF MovesStand, Under
      <4>5. \A x \in Folders : folder[x].exists => folder'[x].parent = folder[x].parent
        <5>1. q.op = "create" => ~folder[q.id].exists  BY <1>3 DEF CallThere
        <5> QED BY <1>4, <1>5, <1>6, <4>4, <5>1
      <4>6. /\ m.id \in Folders /\ folder[m.id].exists /\ m.to \in Folders \cup {Null}
            /\ m.climb.seen \in SUBSET Folders
            /\ m.to # Null => folder[m.to].exists
            /\ \A x \in m.climb.seen : folder[x].exists
        BY <3>2, <4>3 DEF FolderShape, CallThere, FolderCallRow
      <4>7. m.op = "restore" /\ m.pc \in {"parent", "write"} => m.to \in {Null, folder'[m.id].parent}
        BY <4>3, <4>5, <4>6 DEF MoveKnows
      <4>8. ASSUME m.op = "move", m.to # Null PROVE MoveStands(m, now)
        <5>1. MoveStands(m, was)  BY <4>3, <4>8 DEF MoveKnows
        <5>2. \A x \in Passed(m) : now[x] = was[x]
          BY <4>5, <4>6, <4>8 DEF Passed, FolderParent
        <5> HIDE DEF was, now
        <5> QED BY <5>1, <5>2, MoveStandsElsewhere
      <4>9. MoveKnows(m)'  BY <4>7, <4>8 DEF MoveKnows
      <4> QED BY <4>3, <4>9
    <3> QED BY <3>1, <3>2
  <2>7. \A d, e \in FolderCalls :
           Under(d, {"move", "restore"})' /\ Under(e, {"move", "restore"})' => d = e
    <3>1. \A d \in FolderCalls : folderCall'[d].op \in {folderCall[d].op, "none"}  BY <1>8, <1>10
    <3> QED BY <2>1, <3>1 DEF MovesStand, Under
  <2> QED BY <2>5, <2>6, <2>7 DEF MovesStand
<1>18. ASSUME ~trashRaced PROVE TrashStands'
  <2>1. TrashStands /\ TrashKnows(q)  BY <1>2, <1>18 DEF FolderInv, TrashStands
  <2>2. \A f \in Folders \ {q.id} : Active(f)' = Active(f)  BY <1>6 DEF Active
  <2>3. q.op = "softDelete" => ~Active(q.id)'  BY <1>5, <1>6 DEF Active
  <2>4. q.op # "softDelete" => \A f \in Folders : Active(f) => Active(f)'
    BY <1>4, <1>5, <1>6, <2>2 DEF Active
  <2>5. HungOnActive'
    <3>1. ASSUME NEW f \in Folders, Active(f)', NEW p \in Folders, p = folder'[f].parent
          PROVE  Active(p)'
      <4>1. CASE f # q.id
        <5>1. Active(f) /\ p = folder[f].parent  BY <1>6, <2>2, <3>1, <4>1
        <5>2. Active(p)  BY <2>1, <5>1, ArchiveAssumption DEF TrashStands, HungOnActive
        <5>3. q.op = "softDelete" => p # q.id
          BY <1>3, <2>1, <5>1 DEF TrashKnows
        <5> QED BY <2>2, <2>4, <5>2, <5>3
      <4>2. CASE f = q.id
        <5>1. q.op \in Places  BY <1>4, <2>3, <3>1, <4>2 DEF Places
        <5>2. p = q.to  BY <1>5, <1>6, <3>1, <4>2, <5>1 DEF Places
        <5>3. Active(p)  BY <1>3, <2>1, <5>1, <5>2, ArchiveAssumption DEF TrashKnows
        <5> QED BY <2>4, <5>1, <5>3 DEF Places
      <4> QED BY <4>1, <4>2
    <3>2. \A f \in Folders : folder'[f].parent \in Folders \cup {Null}  BY <1>6 DEF FolderRow
    <3> QED BY <3>1, <3>2 DEF HungOnActive, Active
  <2>6. ASSUME NEW d \in FolderCalls PROVE TrashKnows(folderCall[d])'
    <3>1. CASE d = c  BY <1>8, <1>10, <3>1 DEF TrashKnows, Places
    <3>2. CASE d # c
      <4>1. PICK m \in FolderCallRow : m = folderCall[d]  BY DEF FolderInv, FolderTypes
      <4>2. folderCall'[d] = m /\ TrashKnows(m)  BY <1>15, <2>1, <3>2, <4>1 DEF TrashStands
      <4>3. ASSUME m.op = "softDelete", m.pc = "write", NEW f \in Folders, Active(f)'
            PROVE  folder'[f].parent # m.id
        <5>1. q.op = "softDelete"
          BY <1>2, <1>4, <2>1, <4>1, <4>3 DEF TrashStands, Under, Places
        <5>2. f # q.id /\ Active(f)  BY <2>2, <2>3, <4>3, <5>1
        <5> QED BY <1>6, <4>2, <4>3, <5>2 DEF TrashKnows
      <4>4. ASSUME m.op \in Places, m.pc \in {"climb", "write"}, m.to # Null PROVE Active(m.to)'
        <5>1. q.op # "softDelete"  BY <1>2, <2>1, <4>1, <4>4 DEF TrashStands, Under
        <5>2. m.to \in Folders  BY <4>4 DEF FolderCallRow
        <5> QED BY <2>4, <4>2, <4>4, <5>1, <5>2 DEF TrashKnows
      <4>5. TrashKnows(m)'  BY <4>3, <4>4 DEF TrashKnows
      <4> QED BY <4>2, <4>5
    <3> QED BY <3>1, <3>2
  <2>7. \A d, e \in FolderCalls : Under(d, {"softDelete"})' => ~Under(e, Places)'
    <3>1. \A d \in FolderCalls : folderCall'[d].op \in {folderCall[d].op, "none"}  BY <1>8, <1>10
    <3> QED BY <2>1, <3>1 DEF TrashStands, Under, Places
  <2> QED BY <2>5, <2>6, <2>7 DEF TrashStands
<1> QED BY <1>1, <1>11, <1>12, <1>13, <1>14, <1>16, <1>17, <1>18 DEF FolderInv

LEMMA FolderStepKeeps == ASSUME FolderInv, NEW c \in FolderCalls, FolderStep(c) PROVE FolderInv'
BY FolderFoundKeeps, ParentFoundKeeps, FolderClimbsKeeps, ChildrenCountedKeeps, FolderWrittenKeeps
   DEF FolderStep

LEMMA FoldersStay == ASSUME FolderInv, UNCHANGED folderVars PROVE FolderInv'
<1>1. UNCHANGED <<folder, folderCall, movesRaced, trashRaced>>  BY DEF folderVars
<1>2. FolderParent' = FolderParent  BY <1>1 DEF FolderParent
<1>3. FolderTypes' /\ ParentsThere' /\ IdsApart'
  BY <1>1 DEF FolderInv, FolderTypes, ParentsThere, IdsApart
<1>4. \A c \in FolderCalls : FolderShape(folderCall[c])' /\ CallThere(folderCall[c])'
  BY <1>1 DEF FolderInv, FolderShape, CallThere
<1>5. movesRaced' \/ MovesStand'
  <2>1. ASSUME MovesStand PROVE MovesStand'
    <3>1. \A c \in FolderCalls : MoveKnows(folderCall[c])'  BY <1>1, <2>1, MoveStaysKnown DEF MovesStand
    <3> QED BY <1>1, <1>2, <2>1, <3>1 DEF MovesStand, Under, Founded
  <2> QED BY <1>1, <2>1 DEF FolderInv
<1>6. trashRaced' \/ TrashStands'
  BY <1>1 DEF FolderInv, TrashStands, TrashKnows, HungOnActive, Active, Under
<1> QED BY <1>3, <1>4, <1>5, <1>6 DEF FolderInv

\* What the invariant says of the folders a run checks.
LEMMA FoldersKeptFollows == ASSUME FolderInv PROVE FoldersKept
<1>1. ASSUME ~movesRaced PROVE Listed(ActiveFolders, FolderParent) = ActiveFolders
  <2>1. Founded(Folders, FolderParent)  BY <1>1 DEF FolderInv, MovesStand
  <2>2. ActiveFolders \in SUBSET Folders  BY DEF ActiveFolders
  <2>3. IsFiniteSet(ActiveFolders)  BY <2>2, InstancesAssumption, FS_Subset
  <2> QED BY <2>1, <2>2, <2>3, FoundedIsListed
<1>2. ASSUME ~trashRaced PROVE HungOnActive  BY <1>2 DEF FolderInv, TrashStands
<1> QED BY <1>1, <1>2 DEF FoldersKept, HungOnActive

-----------------------------------------------------------------------------
(* Tags                                                                    *)

LEMMA NoTagCallFits ==
    /\ NoTagCall \in TagCallRow
    /\ TagShape(NoTagCall)
    /\ NoTagCall.op = "none" /\ NoTagCall.pc = "idle"
BY DEF NoTagCall, ClimbFrom, TagCallRow, TagShape

LEMMA TagTypesStay ==
    ASSUME TagTypes, NEW c \in TagCalls, NEW k \in TagCallRow, tagCall' = [tagCall EXCEPT ![c] = k]
    PROVE  /\ tagCall' \in [TagCalls -> TagCallRow]
           /\ \A d \in TagCalls : tagCall'[d] = IF d = c THEN k ELSE tagCall[d]
BY DEF TagTypes

LEMMA CallStaysKnown == ASSUME NEW k, UNCHANGED tag, CallKnows(k) PROVE CallKnows(k)'
<1>1. TagParent' = TagParent  BY DEF TagParent
<1>2. TagRows' = TagRows  BY DEF TagRows
<1>3. k.op = "move" /\ k.to # Null => MoveStands(k, TagParent')  BY <1>1 DEF CallKnows
<1>4. Siblings(k.to, FinalName(k), k.id)' = Siblings(k.to, FinalName(k), k.id)
  BY <1>2 DEF Siblings, FinalName
<1>5. k.op = "move" /\ k.to # Null => MoveStands(k, TagParent)'
  BY <1>3 DEF MoveStands, Climbing, Climbed, Passed
<1> QED BY <1>2, <1>4, <1>5 DEF CallKnows

\* A call goes on, or begins, and the tables stay as they are.
LEMMA TagCallMoves ==
    ASSUME TagInv, NEW c \in TagCalls, NEW k \in TagCallRow,
           tagCall' = [tagCall EXCEPT ![c] = k], TagShape(k),
           tagsRaced' \/ k.pc = "idle" \/ CallKnows(k),
           tagsRaced' \in BOOLEAN, tagsRaced => tagsRaced',
           \/ tagsRaced'
           \/ tagCall[c].pc # "idle"
           \/ \A d \in TagCalls : tagCall[d].pc = "idle",
           UNCHANGED <<tag, fileTag>>
    PROVE  TagInv'
<1>1. /\ tagCall' \in [TagCalls -> TagCallRow]
      /\ \A d \in TagCalls : tagCall'[d] = IF d = c THEN k ELSE tagCall[d]
  BY TagTypesStay DEF TagInv
<1>2. TagTypes'  BY <1>1 DEF TagInv, TagTypes
<1>3. \A d \in TagCalls : TagShape(tagCall[d])'
  <2>1. \A d \in TagCalls : TagShape(tagCall'[d])  BY <1>1 DEF TagInv
  <2> QED BY <2>1 DEF TagShape
<1>4. TagRows' = TagRows  BY DEF TagRows
<1>5. TagsThere'  BY <1>4 DEF TagInv, TagsThere
<1>6. ASSUME ~tagsRaced' PROVE TagsStand'
  <2>1. TagsStand  BY <1>6 DEF TagInv
  <2>2. Founded(Tags, TagParent)'  BY <2>1 DEF TagsStand, TagParent, Founded
  <2>3. NoTwins'  BY <1>4, <2>1 DEF TagsStand, NoTwins
  <2>4. \A d, e \in TagCalls : tagCall'[d].pc # "idle" /\ tagCall'[e].pc # "idle" => d = e
    <3>1. CASE tagCall[c].pc # "idle"  BY <1>1, <2>1, <3>1 DEF TagsStand
    <3>2. CASE \A d \in TagCalls : tagCall[d].pc = "idle"  BY <1>1, <3>2
    <3> QED BY <1>6, <3>1, <3>2
  <2>5. \A d \in TagCalls : tagCall'[d].pc # "idle" => CallKnows(tagCall'[d])
    BY <1>1, <1>6, <2>1 DEF TagsStand
  <2>6. \A d \in TagCalls : (tagCall[d].pc # "idle" => CallKnows(tagCall[d]))'
    <3> SUFFICES ASSUME NEW d \in TagCalls, tagCall'[d].pc # "idle" PROVE CallKnows(tagCall[d])'
      OBVIOUS
    <3>1. PICK m \in TagCallRow : m = tagCall'[d]  BY <1>1
    <3>2. CallKnows(m)'  BY <2>5, <3>1, CallStaysKnown
    <3> QED BY <3>1, <3>2
  <2> QED BY <2>2, <2>3, <2>4, <2>6 DEF TagsStand
<1> QED BY <1>2, <1>3, <1>5, <1>6 DEF TagInv

LEMMA TagEndsWell ==
    ASSUME TagInv, NEW c \in TagCalls, TagEnds(c), tagCall[c].pc # "idle",
           UNCHANGED <<tag, fileTag, tagsRaced>>
    PROVE  TagInv'
<1>1. PICK k \in TagCallRow : k = NoTagCall  BY NoTagCallFits
<1>2. tagCall' = [tagCall EXCEPT ![c] = k]  BY <1>1 DEF TagEnds
<1>3. TagShape(k) /\ k.pc = "idle"  BY <1>1, NoTagCallFits
<1>4. tagsRaced' \in BOOLEAN /\ (tagsRaced => tagsRaced')  BY DEF TagInv, TagTypes
<1> QED BY <1>2, <1>3, <1>4, TagCallMoves

LEMMA TagRequestKeeps == ASSUME TagInv, NEW c \in TagCalls, TagRequest(c) PROVE TagInv'
<1>1. PICK op \in {"create", "rename", "move", "remove"}, id \in Tags, to \in Tags \cup {Null},
           name \in Names \cup {Null} : TagCallBegins(c, op, id, to, name)
  BY DEF TagRequest
<1>2. /\ op = "create" => ~tag[id].exists
      /\ op # "create" => tag[id].exists
      /\ op \in {"create", "rename"} => name # Null
      /\ to # Null => tag[to].exists
      /\ tagsRaced' = (tagsRaced \/ \E d \in TagCalls : tagCall[d].pc # "idle")
      /\ UNCHANGED <<tag, fileTag>>
  BY <1>1 DEF TagCallBegins
<1> DEFINE pc == IF op # "create" THEN "find" ELSE IF to = Null THEN "name" ELSE "parent"
           k  == [op |-> op, id |-> id, to |-> to, name |-> name, read |-> Null,
                  climb |-> ClimbFrom(to), pc |-> pc]
<1>3. tagCall' = [tagCall EXCEPT ![c] = k]  BY <1>1 DEF TagCallBegins
<1>4. /\ pc \in {"find", "name", "parent"}
      /\ pc = "find" <=> (op # "create")
      /\ pc = "parent" => op = "create" /\ to # Null
  OBVIOUS
<1> HIDE DEF pc
<1>5. k \in TagCallRow  BY <1>4 DEF TagCallRow, ClimbFrom
<1>6. /\ k.op = op /\ k.id = id /\ k.to = to /\ k.pc = pc /\ k.climb = ClimbFrom(to)
      /\ k.name = name
  OBVIOUS
<1> HIDE DEF k
<1>7. TagShape(k)  BY <1>2, <1>4, <1>6 DEF TagShape
<1>8. CallKnows(k)  BY <1>2, <1>4, <1>6 DEF CallKnows, MoveStands
<1>9. tagsRaced' \in BOOLEAN /\ (tagsRaced => tagsRaced')  BY <1>2 DEF TagInv, TagTypes
<1>10. tagsRaced' \/ \A d \in TagCalls : tagCall[d].pc = "idle"  BY <1>2
<1> QED BY <1>2, <1>3, <1>5, <1>7, <1>8, <1>9, <1>10, TagCallMoves

LEMMA TagFoundKeeps == ASSUME TagInv, NEW c \in TagCalls, TagFound(c) PROVE TagInv'
<1>1. UNCHANGED <<tag, fileTag, tagsRaced>>  BY DEF TagFound
<1>2. tagsRaced' \in BOOLEAN /\ (tagsRaced => tagsRaced')  BY <1>1 DEF TagInv, TagTypes
<1>3. PICK q \in TagCallRow : q = tagCall[c]  BY DEF TagInv, TagTypes
<1>4. TagShape(q) /\ q.pc = "find"  BY <1>3 DEF TagInv, TagFound
<1>5. q.id \in Tags /\ q.op \in {"rename", "move", "remove"}  BY <1>4 DEF TagShape, TagCallRow
<1>6. tagCall[c].pc # "idle"  BY <1>3, <1>4
<1>7. PICK here \in Tags \cup {Null} : here = tag[q.id].parent
  BY <1>5 DEF TagInv, TagTypes, TagRow
<1>8. PICK named \in Names \cup {Null} : named = tag[q.id].name
  BY <1>5 DEF TagInv, TagTypes, TagRow
<1>9. CASE TagEnds(c)  BY <1>1, <1>6, <1>9, TagEndsWell
<1>10. CASE ~TagEnds(c)
  <2>1. /\ tag[q.id].exists
        /\ q.op = "remove" => ~InUse(q.id)
        /\ q.op = "move" => q.to # q.id
    BY <1>3, <1>10 DEF TagFound
  <2>2. tagCall' = [tagCall EXCEPT ![c] =
            IF q.op = "remove" THEN [q EXCEPT !.pc = "write"]
            ELSE IF q.op = "rename" \/ q.to = here
            THEN [q EXCEPT !.op = "rename", !.to = here, !.read = named, !.pc = "name"]
            ELSE [q EXCEPT !.read = named, !.pc = IF q.to = Null THEN "name" ELSE "parent"]]
    BY <1>3, <1>7, <1>8, <1>10 DEF TagFound
  <2>3. CASE q.op = "remove"
    <3> DEFINE k == [q EXCEPT !.pc = "write"]
    <3>1. tagCall' = [tagCall EXCEPT ![c] = k]  BY <2>2, <2>3
    <3>2. k \in TagCallRow  BY DEF TagCallRow
    <3>3. /\ k.op = q.op /\ k.id = q.id /\ k.to = q.to /\ k.pc = "write" /\ k.climb = q.climb
          /\ k.name = q.name /\ k.read = q.read
      BY DEF TagCallRow
    <3> HIDE DEF k
    <3>4. TagShape(k)  BY <1>4, <2>3, <3>3 DEF TagShape
    <3>5. ASSUME ~tagsRaced PROVE CallKnows(k)
      <4>1. CallKnows(q)  BY <1>3, <1>6, <3>5 DEF TagInv, TagsStand
      <4>2. \A x \in TagRows : tag[x].parent # q.id  BY <2>1, <2>3 DEF InUse
      <4> QED BY <2>3, <3>3, <4>1, <4>2 DEF CallKnows
    <3> QED BY <1>1, <1>2, <1>6, <3>1, <3>2, <3>4, <3>5, TagCallMoves
  <2>4. CASE q.op # "remove" /\ (q.op = "rename" \/ q.to = here)
    <3> DEFINE k == [q EXCEPT !.op = "rename", !.to = here, !.read = named, !.pc = "name"]
    <3>1. tagCall' = [tagCall EXCEPT ![c] = k]  BY <2>2, <2>4
    <3>2. k \in TagCallRow  BY DEF TagCallRow
    <3>3. /\ k.op = "rename" /\ k.id = q.id /\ k.to = here /\ k.pc = "name" /\ k.climb = q.climb
          /\ k.name = q.name /\ k.read = named
      BY DEF TagCallRow
    <3> HIDE DEF k
    <3>4. TagShape(k)  BY <1>4, <3>3 DEF TagShape
    <3>5. here # Null => tag[here].exists
      BY <1>5, <1>7 DEF TagInv, TagsThere, TagRows
    <3>6. CallKnows(k)  BY <1>7, <1>8, <2>1, <3>3, <3>5 DEF CallKnows
    <3> QED BY <1>1, <1>2, <1>6, <3>1, <3>2, <3>4, <3>6, TagCallMoves
  <2>5. CASE q.op # "remove" /\ ~(q.op = "rename" \/ q.to = here)
    <3> DEFINE pc == IF q.to = Null THEN "name" ELSE "parent"
               k  == [q EXCEPT !.read = named, !.pc = pc]
    <3>1. tagCall' = [tagCall EXCEPT ![c] = k]  BY <2>2, <2>5
    <3>2. pc \in {"name", "parent"} /\ (pc = "name" => q.to = Null) /\ (pc = "parent" => q.to # Null)
      OBVIOUS
    <3> HIDE DEF pc
    <3>3. k \in TagCallRow  BY <3>2 DEF TagCallRow
    <3>4. /\ k.op = q.op /\ k.id = q.id /\ k.to = q.to /\ k.pc = pc /\ k.climb = q.climb
          /\ k.name = q.name /\ k.read = named
      BY DEF TagCallRow
    <3> HIDE DEF k
    <3>5. q.op = "move"  BY <1>5, <2>5
    <3>6. TagShape(k)  BY <1>4, <3>2, <3>4, <3>5 DEF TagShape
    <3>7. ASSUME ~tagsRaced PROVE CallKnows(k)
      <4>1. CallKnows(q)  BY <1>3, <1>6, <3>7 DEF TagInv, TagsStand
      <4>2. ASSUME q.to # Null PROVE MoveStands(k, TagParent)
        <5>1. q.climb = ClimbFrom(q.to)  BY <1>4, <3>5 DEF TagShape
        <5>2. Passed(k) = {q.to}  BY <3>4, <5>1 DEF Passed, ClimbFrom
        <5>3. q.to # q.id /\ pc = "parent"  BY <2>1, <3>2, <3>5, <4>2
        <5> QED BY <3>4, <5>2, <5>3 DEF MoveStands
      <4> QED BY <1>8, <2>1, <3>2, <3>4, <3>5, <4>1, <4>2 DEF CallKnows
    <3> QED BY <1>1, <1>2, <1>6, <3>1, <3>3, <3>6, <3>7, TagCallMoves
  <2> QED BY <2>3, <2>4, <2>5
<1> QED BY <1>9, <1>10

LEMMA TagParentFoundKeeps == ASSUME TagInv, NEW c \in TagCalls, TagParentFound(c) PROVE TagInv'
<1>1. UNCHANGED <<tag, fileTag, tagsRaced>>  BY DEF TagParentFound
<1>2. tagsRaced' \in BOOLEAN /\ (tagsRaced => tagsRaced')  BY <1>1 DEF TagInv, TagTypes
<1>3. PICK q \in TagCallRow : q = tagCall[c]  BY DEF TagInv, TagTypes
<1>4. TagShape(q) /\ q.pc = "parent"  BY <1>3 DEF TagInv, TagParentFound
<1>5. q.id \in Tags /\ q.op \in {"create", "move"} /\ q.to \in Tags /\ q.to # Null
  BY <1>4 DEF TagShape, TagCallRow
<1>6. tagCall[c].pc # "idle"  BY <1>3, <1>4
<1>7. CASE TagEnds(c)  BY <1>1, <1>6, <1>7, TagEndsWell
<1>8. CASE ~TagEnds(c)
  <2> DEFINE pc == IF q.op = "move" THEN "climb" ELSE "name"
             k  == [q EXCEPT !.pc = pc]
  <2>1. tagCall' = [tagCall EXCEPT ![c] = k]  BY <1>3, <1>8 DEF TagParentFound, TagGoes
  <2>2. pc \in {"climb", "name"} /\ (pc = "climb" => q.op = "move") /\ (pc = "name" => q.op # "move")
    OBVIOUS
  <2> HIDE DEF pc
  <2>3. k \in TagCallRow  BY <2>2 DEF TagCallRow
  <2>4. /\ k.op = q.op /\ k.id = q.id /\ k.to = q.to /\ k.pc = pc /\ k.climb = q.climb
        /\ k.name = q.name /\ k.read = q.read
    BY DEF TagCallRow
  <2> HIDE DEF k
  <2>5. q.op = "move" => q.climb = ClimbFrom(q.to)  BY <1>4 DEF TagShape
  <2>6. q.op = "move" => k.climb.at = q.to /\ Passed(k) = {q.to} /\ Passed(q) = Passed(k)
    BY <2>4, <2>5 DEF Passed, ClimbFrom
  <2>7. TagShape(k)  BY <1>4, <1>5, <2>2, <2>4, <2>6 DEF TagShape
  <2>8. ASSUME ~tagsRaced PROVE CallKnows(k)
    <3>1. CallKnows(q)  BY <1>3, <1>6, <2>8 DEF TagInv, TagsStand
    <3>2. ASSUME q.op = "move" PROVE MoveStands(k, TagParent)
      <4>1. MoveStands(q, TagParent)  BY <1>5, <3>1, <3>2 DEF CallKnows
      <4>2. q.id \notin Passed(q) /\ pc = "climb"  BY <1>4, <2>2, <3>2, <4>1 DEF MoveStands
      <4>3. Climbing(k, TagParent)  BY <2>6, <3>2 DEF Climbing
      <4> QED BY <2>4, <2>6, <3>2, <4>2, <4>3 DEF MoveStands
    <3> QED BY <1>4, <1>5, <2>2, <2>4, <3>1, <3>2 DEF CallKnows
  <2> QED BY <1>1, <1>2, <1>6, <2>1, <2>3, <2>7, <2>8, TagCallMoves
<1> QED BY <1>7, <1>8

LEMMA TagClimbsKeeps == ASSUME TagInv, NEW c \in TagCalls, TagClimbs(c) PROVE TagInv'
<1>1. UNCHANGED <<tag, fileTag, tagsRaced>>  BY DEF TagClimbs
<1>2. tagsRaced' \in BOOLEAN /\ (tagsRaced => tagsRaced')  BY <1>1 DEF TagInv, TagTypes
<1>3. PICK q \in TagCallRow : q = tagCall[c]  BY DEF TagInv, TagTypes
<1>4. TagShape(q) /\ q.pc = "climb"  BY <1>3 DEF TagInv, TagClimbs
<1>5. q.id \in Tags /\ q.op = "move" /\ q.to \in Tags /\ q.to # Null /\ q.climb.at # Null
  BY <1>4 DEF TagShape, TagCallRow
<1>6. tagCall[c].pc # "idle"  BY <1>3, <1>4
<1>7. q.climb \in [at : Tags, seen : SUBSET Tags]  BY <1>5 DEF TagCallRow
<1>8. TagParent \in [Tags -> Tags \cup {Null}]  BY DEF TagInv, TagTypes, TagRow, TagParent
<1> DEFINE next == Climb(TagParent, q.id, q.climb)
<1>9. CASE next.at = q.id
  <2>1. TagEnds(c)  BY <1>3, <1>9 DEF TagClimbs
  <2> QED BY <1>1, <1>6, <2>1, TagEndsWell
<1>10. CASE next.at # q.id
  <2> DEFINE pc == IF next.at = Null THEN "name" ELSE "climb"
             k  == [q EXCEPT !.climb = next, !.pc = pc]
  <2>1. next \in [at : Tags \cup {Null}, seen : SUBSET Tags]  BY <1>7, <1>8, <1>10, ClimbReads
  <2>2. tagCall' = [tagCall EXCEPT ![c].climb = next, ![c].pc = pc]
    BY <1>3, <1>10 DEF TagClimbs
  <2> HIDE DEF next
  <2>3. tagCall' = [tagCall EXCEPT ![c] = k]  BY <1>3, <2>2 DEF TagInv, TagTypes, TagCallRow
  <2>4. pc \in {"name", "climb"} /\ (pc = "name" => next.at = Null) /\ (pc = "climb" => next.at # Null)
    OBVIOUS
  <2> HIDE DEF pc
  <2>5. k \in TagCallRow  BY <2>1, <2>4 DEF TagCallRow
  <2>6. /\ k.op = q.op /\ k.id = q.id /\ k.to = q.to /\ k.pc = pc /\ k.climb = next
        /\ k.name = q.name /\ k.read = q.read
    BY DEF TagCallRow
  <2> HIDE DEF k
  <2>7. TagShape(k)  BY <1>4, <1>5, <2>4, <2>6 DEF TagShape
  <2>8. ASSUME ~tagsRaced PROVE CallKnows(k)
    <3>1. CallKnows(q)  BY <1>3, <1>6, <2>8 DEF TagInv, TagsStand
    <3>2. MoveStands(q, TagParent)  BY <1>5, <3>1 DEF CallKnows
    <3>3. Climbing(q, TagParent) /\ q.id \notin Passed(q)  BY <1>4, <3>2 DEF MoveStands
    <3>4. /\ k.id \notin Passed(k)
          /\ k.climb.at = Null => Climbed(k, TagParent)
          /\ k.climb.at # Null => Climbing(k, TagParent)
      BY <1>7, <1>8, <1>10, <2>6, <3>3, ClimbGoesOn DEF next
    <3>5. MoveStands(k, TagParent)  BY <2>4, <2>6, <3>4 DEF MoveStands
    <3> QED BY <1>4, <1>5, <2>4, <2>6, <3>1, <3>5 DEF CallKnows
  <2> QED BY <1>1, <1>2, <1>6, <2>3, <2>5, <2>7, <2>8, TagCallMoves
<1> QED BY <1>9, <1>10

LEMMA AssertNameFreeKeeps == ASSUME TagInv, NEW c \in TagCalls, AssertNameFree(c) PROVE TagInv'
<1>1. UNCHANGED <<tag, fileTag, tagsRaced>>  BY DEF AssertNameFree
<1>2. tagsRaced' \in BOOLEAN /\ (tagsRaced => tagsRaced')  BY <1>1 DEF TagInv, TagTypes
<1>3. PICK q \in TagCallRow : q = tagCall[c]  BY DEF TagInv, TagTypes
<1>4. TagShape(q) /\ q.pc = "name"  BY <1>3 DEF TagInv, AssertNameFree
<1>5. tagCall[c].pc # "idle"  BY <1>3, <1>4
<1>6. CASE TagEnds(c)  BY <1>1, <1>5, <1>6, TagEndsWell
<1>7. CASE ~TagEnds(c)
  <2> DEFINE k == [q EXCEPT !.pc = "write"]
  <2>1. /\ Siblings(q.to, FinalName(q), q.id) = {}
        /\ tagCall' = [tagCall EXCEPT ![c] = k]
    BY <1>3, <1>7 DEF AssertNameFree, TagGoes
  <2>2. k \in TagCallRow  BY DEF TagCallRow
  <2>3. /\ k.op = q.op /\ k.id = q.id /\ k.to = q.to /\ k.pc = "write" /\ k.climb = q.climb
        /\ k.name = q.name /\ k.read = q.read
    BY DEF TagCallRow
  <2> HIDE DEF k
  <2>4. FinalName(k) = FinalName(q)  BY <2>3 DEF FinalName
  <2>5. TagShape(k)  BY <1>4, <2>3 DEF TagShape
  <2>6. ASSUME ~tagsRaced PROVE CallKnows(k)
    <3>1. CallKnows(q)  BY <1>3, <1>5, <2>6 DEF TagInv, TagsStand
    <3>2. Passed(k) = Passed(q)  BY <2>3 DEF Passed
    <3>3. k.op = "move" /\ k.to # Null => MoveStands(k, TagParent)
      BY <1>4, <2>3, <3>1, <3>2 DEF CallKnows, MoveStands, Climbed
    <3>4. q.op # "remove"  BY <1>4 DEF TagShape
    <3> QED BY <1>4, <2>1, <2>3, <2>4, <3>1, <3>3, <3>4 DEF CallKnows
  <2> QED BY <1>1, <1>2, <1>5, <2>1, <2>2, <2>5, <2>6, TagCallMoves
<1> QED BY <1>6, <1>7

\* What a call writes to the Tag table.
LEMMA TagWrittenRows ==
    ASSUME TagInv, NEW c \in TagCalls, TagWritten(c), NEW q \in TagCallRow, q = tagCall[c]
    PROVE  \/ tag' = tag
           \/ /\ q.op = "remove" /\ tag[q.id].exists /\ \A p \in fileTag : p[2] # q.id
              /\ tag' = Without(q.id)
           \/ \E row \in TagRow :
                 /\ q.op # "remove" /\ tag' = [tag EXCEPT ![q.id] = row]
                 /\ row.exists /\ Accepted(q.id, row)
                 /\ row.name = (IF q.name = Null THEN tag[q.id].name ELSE q.name)
                 /\ row.parent = (IF q.op = "rename" THEN tag[q.id].parent ELSE q.to)
<1>1. TagShape(q) /\ q.pc = "write"  BY DEF TagInv, TagWritten
<1>2. q.id \in Tags  BY <1>1 DEF TagShape
<1> DEFINE row == [exists |-> TRUE,
                   name   |-> IF q.name = Null THEN tag[q.id].name ELSE q.name,
                   parent |-> IF q.op = "rename" THEN tag[q.id].parent ELSE q.to]
<1>3. row \in TagRow  BY <1>2 DEF TagInv, TagTypes, TagRow, TagCallRow
<1>4. /\ row.exists
      /\ row.name = (IF q.name = Null THEN tag[q.id].name ELSE q.name)
      /\ row.parent = (IF q.op = "rename" THEN tag[q.id].parent ELSE q.to)
  OBVIOUS
<1>5. tag' = CASE q.op = "remove" /\ tag[q.id].exists /\ (\A p \in fileTag : p[2] # q.id) -> Without(q.id)
               [] q.op # "remove" /\ (q.op = "create" \/ tag[q.id].exists) /\ Accepted(q.id, row) ->
                    [tag EXCEPT ![q.id] = row]
               [] OTHER -> tag
  BY DEF TagWritten
<1> HIDE DEF row
<1>6. CASE q.op = "remove" /\ tag[q.id].exists /\ (\A p \in fileTag : p[2] # q.id)
  <2>1. tag' = Without(q.id)  BY <1>5, <1>6
  <2> QED BY <1>6, <2>1
<1>7. CASE q.op # "remove" /\ (q.op = "create" \/ tag[q.id].exists) /\ Accepted(q.id, row)
  <2>1. tag' = [tag EXCEPT ![q.id] = row]  BY <1>5, <1>7
  <2> QED BY <1>3, <1>4, <1>7, <2>1
<1>8. CASE /\ ~(q.op = "remove" /\ tag[q.id].exists /\ (\A p \in fileTag : p[2] # q.id))
           /\ ~(q.op # "remove" /\ (q.op = "create" \/ tag[q.id].exists) /\ Accepted(q.id, row))
  BY <1>5, <1>8
<1> QED BY <1>6, <1>7, <1>8

\* A call that writes the Tag table ends; without races it was the only one.
LEMMA TagWrites ==
    ASSUME TagInv, NEW c \in TagCalls, TagEnds(c), tagCall[c].pc # "idle",
           UNCHANGED <<fileTag, tagsRaced>>, tag' \in [Tags -> TagRow], TagsThere',
           tagsRaced \/ (Founded(Tags, TagParent') /\ NoTwins')
    PROVE  TagInv'
<1>1. PICK k \in TagCallRow : k = NoTagCall  BY NoTagCallFits
<1>2. tagCall' = [tagCall EXCEPT ![c] = k] /\ TagShape(k) /\ k.pc = "idle"
  BY <1>1, NoTagCallFits DEF TagEnds
<1>3. /\ tagCall' \in [TagCalls -> TagCallRow]
      /\ \A d \in TagCalls : tagCall'[d] = IF d = c THEN k ELSE tagCall[d]
  BY <1>2, TagTypesStay DEF TagInv
<1>4. TagTypes'  BY <1>3 DEF TagInv, TagTypes
<1>5. \A d \in TagCalls : TagShape(tagCall[d])'
  <2>1. \A d \in TagCalls : TagShape(tagCall'[d])  BY <1>2, <1>3 DEF TagInv
  <2> QED BY <2>1 DEF TagShape
<1>6. ASSUME ~tagsRaced PROVE TagsStand'
  <2>1. \A d \in TagCalls : tagCall'[d].pc = "idle"
    BY <1>2, <1>3, <1>6 DEF TagInv, TagsStand
  <2>2. Founded(Tags, TagParent)'  BY <1>6 DEF Founded
  <2> QED BY <1>6, <2>1, <2>2 DEF TagsStand
<1> QED BY <1>4, <1>5, <1>6 DEF TagInv

LEMMA TagRemovedKeeps ==
    ASSUME TagInv, NEW c \in TagCalls, TagEnds(c), NEW q \in TagCallRow, q = tagCall[c],
           q.op = "remove", q.pc = "write", \A p \in fileTag : p[2] # q.id, tag' = Without(q.id),
           UNCHANGED <<fileTag, tagsRaced>>
    PROVE  TagInv'
<1>1. TagShape(q)  BY DEF TagInv
<1>2. q.id \in Tags /\ q.id # Null  BY <1>1, ArchiveAssumption DEF TagShape
<1>3. /\ tag \in [Tags -> TagRow]
      /\ \A t \in Tags : tag[t].parent \in Tags \cup {Null}
      /\ \A t \in Tags : ~tag[t].exists => tag[t] = NoTag
      /\ \A t \in Tags : tag[t].parent \in TagRows \cup {Null}
  BY DEF TagInv, TagTypes, TagRow, TagsThere
<1>4. NoTag \in TagRow /\ ~NoTag.exists /\ NoTag.parent = Null  BY DEF NoTag, TagRow
<1>5. \A t \in Tags : tag'[t] = IF t = q.id THEN NoTag
                                ELSE IF tag[t].parent = q.id THEN [tag[t] EXCEPT !.parent = Null]
                                ELSE tag[t]
  BY DEF Without
<1>6. ASSUME NEW t \in Tags, t # q.id, tag[t].parent = q.id
      PROVE  /\ tag'[t] \in TagRow /\ tag'[t].exists = tag[t].exists /\ tag'[t].parent = Null
  <2>1. PICK r \in TagRow : r = tag[t]  BY <1>3
  <2>2. tag'[t] = [r EXCEPT !.parent = Null]  BY <1>5, <1>6, <2>1
  <2> QED BY <2>1, <2>2 DEF TagRow
<1>7. tag' \in [Tags -> TagRow]
  <2>1. \A t \in Tags : tag'[t] \in TagRow  BY <1>3, <1>4, <1>5, <1>6
  <2> QED BY <2>1 DEF Without
<1>8. TagRows' = TagRows \ {q.id}
  <2>1. \A t \in Tags : tag'[t].exists <=> (t # q.id /\ tag[t].exists)  BY <1>4, <1>5, <1>6
  <2> QED BY <2>1 DEF TagRows
<1>9. TagsThere'
  <2>1. ASSUME NEW t \in Tags, ~tag'[t].exists PROVE tag'[t] = NoTag
    <3>1. CASE t = q.id  BY <1>5, <3>1
    <3>2. CASE t # q.id /\ tag[t].parent = q.id
      <4>1. tag[t] = NoTag  BY <1>3, <1>6, <2>1, <3>2
      <4> QED BY <1>2, <1>4, <3>2, <4>1
    <3>3. CASE t # q.id /\ tag[t].parent # q.id  BY <1>3, <1>5, <2>1, <3>3
    <3> QED BY <3>1, <3>2, <3>3
  <2>2. ASSUME NEW t \in Tags PROVE tag'[t].parent \in TagRows' \cup {Null}
    BY <1>3, <1>4, <1>5, <1>6, <1>8
  <2>3. \A p \in fileTag' : p[2] \in TagRows'  BY <1>8 DEF TagInv, TagsThere
  <2> QED BY <2>1, <2>2, <2>3 DEF TagsThere
<1>10. ASSUME ~tagsRaced PROVE Founded(Tags, TagParent') /\ NoTwins'
  <2>1. TagsStand /\ CallKnows(q)  BY <1>10 DEF TagInv, TagsStand
  <2>2. \A x \in TagRows : tag[x].parent # q.id  BY <2>1 DEF CallKnows
  <2>3. ASSUME NEW t \in Tags, t # q.id PROVE tag'[t] = tag[t]
    <3>1. tag[t].parent # q.id
      <4>1. CASE t \in TagRows  BY <2>2, <4>1
      <4>2. CASE t \notin TagRows
        <5>1. tag[t] = NoTag  BY <1>3, <4>2 DEF TagRows
        <5> QED BY <1>2, <1>4, <5>1
      <4> QED BY <4>1, <4>2
    <3> QED BY <1>5, <2>3, <3>1
  <2> DEFINE was == TagParent
             now == TagParent'
  <2>4. \A y \in Tags \ {q.id} : now[y] = was[y]  BY <2>3 DEF TagParent
  <2>5. now[q.id] = Null  BY <1>2, <1>4, <1>5 DEF TagParent
  <2>6. Founded(Tags, was)  BY <2>1 DEF TagsStand
  <2>7. Founded(Tags, now)
    <3> HIDE DEF was, now
    <3> QED BY <2>4, <2>5, <2>6, ArchiveAssumption, FoundedLoosened
  <2>8. NoTwins'
    <3>1. TagRows \subseteq Tags  BY DEF TagRows
    <3> QED BY <1>8, <2>1, <2>3, <3>1 DEF TagsStand, NoTwins
  <2> QED BY <2>7, <2>8
<1> QED BY <1>7, <1>9, <1>10, TagWrites

LEMMA TagUpdatedKeeps ==
    ASSUME TagInv, NEW c \in TagCalls, TagEnds(c), NEW q \in TagCallRow, q = tagCall[c],
           q.op # "remove", q.pc = "write",
           NEW row \in TagRow, tag' = [tag EXCEPT ![q.id] = row], row.exists, Accepted(q.id, row),
           row.name = (IF q.name = Null THEN tag[q.id].name ELSE q.name),
           row.parent = (IF q.op = "rename" THEN tag[q.id].parent ELSE q.to),
           UNCHANGED <<fileTag, tagsRaced>>
    PROVE  TagInv'
<1>1. TagShape(q)  BY DEF TagInv
<1>2. /\ q.id \in Tags /\ q.id # Null /\ q.to \in Tags \cup {Null}
      /\ q.op \in {"create", "rename", "move"}
      /\ q.op = "create" => q.name # Null
  BY <1>1, ArchiveAssumption DEF TagShape, TagCallRow
<1>3. /\ tag \in [Tags -> TagRow] /\ row.parent \in Tags \cup {Null}
      /\ \A t \in Tags : tag[t].parent \in Tags \cup {Null}
      /\ \A t \in Tags : ~tag[t].exists => tag[t] = NoTag
      /\ \A t \in Tags : tag[t].parent \in TagRows \cup {Null}
  BY DEF TagInv, TagTypes, TagRow, TagsThere
<1>4. tag' \in [Tags -> TagRow] /\ tag'[q.id] = row /\ \A t \in Tags \ {q.id} : tag'[t] = tag[t]
  BY <1>2, <1>3
<1>5. TagRows' = TagRows \cup {q.id}  BY <1>2, <1>4 DEF TagRows
<1>6. TagsThere'
  <2>1. \A t \in Tags : ~tag'[t].exists => tag'[t] = NoTag  BY <1>3, <1>4
  <2>2. row.parent \in TagRows \cup {Null}  BY <1>3 DEF Accepted, TagRows
  <2>3. \A t \in Tags : tag'[t].parent \in TagRows' \cup {Null}  BY <1>3, <1>4, <1>5, <2>2
  <2>4. \A p \in fileTag' : p[2] \in TagRows'  BY <1>5 DEF TagInv, TagsThere
  <2> QED BY <2>1, <2>3, <2>4 DEF TagsThere
<1>7. ASSUME ~tagsRaced PROVE Founded(Tags, TagParent') /\ NoTwins'
  <2>1. TagsStand /\ CallKnows(q)  BY <1>7 DEF TagInv, TagsStand
  <2> DEFINE was == TagParent
             now == TagParent'
  <2>2. \A y \in Tags \ {q.id} : now[y] = was[y]  BY <1>4 DEF TagParent
  <2>3. now[q.id] = row.parent /\ was[q.id] = tag[q.id].parent  BY <1>2, <1>4 DEF TagParent
  <2>4. Founded(Tags, was)  BY <2>1 DEF TagsStand
  <2>5. Founded(Tags, now)
    <3>1. CASE row.parent \in {Null, tag[q.id].parent}
      <4>1. now[q.id] \in {Null, was[q.id]}  BY <2>3, <3>1
      <4> HIDE DEF was, now
      <4> QED BY <2>2, <2>4, <4>1, ArchiveAssumption, FoundedLoosened
    <3>2. CASE q.op = "create" /\ q.to # Null
      <4>1. ~tag[q.id].exists /\ tag[q.to].exists  BY <2>1, <3>2 DEF CallKnows
      <4>2. \A y \in Tags : was[y] # q.id
        BY <1>2, <1>3, <4>1 DEF TagParent, TagRows
      <4>3. now[q.id] # q.id  BY <2>3, <3>2, <4>1
      <4> HIDE DEF was, now
      <4> QED BY <2>2, <2>4, <4>2, <4>3, FoundedGrown
    <3>3. CASE q.op = "move" /\ q.to # Null
      <4>1. MoveStands(q, was)  BY <2>1, <3>3 DEF CallKnows
      <4>2. q.id \notin Passed(q) /\ Climbed(q, was)  BY <4>1 DEF MoveStands
      <4>3. now[q.id] \in Passed(q)  BY <2>3, <3>3 DEF Passed
      <4>4. \A y \in Passed(q) : was[y] \in Passed(q) \cup {Null}  BY <4>2 DEF Climbed
      <4> HIDE DEF was, now
      <4> QED BY <2>2, <2>4, <4>2, <4>3, <4>4, ArchiveAssumption, FoundedMoved
    <3> QED BY <1>2, <3>1, <3>2, <3>3
  <2>6. NoTwins'
    <3>1. row.parent = q.to  BY <1>2, <2>1 DEF CallKnows
    <3>2. row.name = FinalName(q)  BY <1>2, <2>1 DEF CallKnows, FinalName
    <3>3. Siblings(q.to, FinalName(q), q.id) = {}  BY <2>1 DEF CallKnows
    <3>4. \A t \in TagRows \ {q.id} : ~(tag[t].parent = row.parent /\ tag[t].name = row.name)
      BY <3>1, <3>2, <3>3 DEF Siblings
    <3>5. TagRows \subseteq Tags  BY DEF TagRows
    <3> QED BY <1>4, <1>5, <2>1, <3>4, <3>5 DEF TagsStand, NoTwins
  <2> QED BY <2>5, <2>6
<1> QED BY <1>4, <1>6, <1>7, TagWrites

LEMMA TagWrittenKeeps == ASSUME TagInv, NEW c \in TagCalls, TagWritten(c) PROVE TagInv'
<1>1. UNCHANGED <<fileTag, tagsRaced>> /\ TagEnds(c)  BY DEF TagWritten
<1>2. PICK q \in TagCallRow : q = tagCall[c]  BY DEF TagInv, TagTypes
<1>3. q.pc = "write" /\ tagCall[c].pc # "idle"  BY <1>2 DEF TagWritten
<1>4. CASE tag' = tag  BY <1>1, <1>3, <1>4, TagEndsWell
<1>5. CASE /\ q.op = "remove" /\ tag[q.id].exists /\ \A p \in fileTag : p[2] # q.id
           /\ tag' = Without(q.id)
  BY <1>1, <1>2, <1>3, <1>5, TagRemovedKeeps
<1>6. CASE \E row \in TagRow :
              /\ q.op # "remove" /\ tag' = [tag EXCEPT ![q.id] = row]
              /\ row.exists /\ Accepted(q.id, row)
              /\ row.name = (IF q.name = Null THEN tag[q.id].name ELSE q.name)
              /\ row.parent = (IF q.op = "rename" THEN tag[q.id].parent ELSE q.to)
  <2>1. PICK row \in TagRow :
           /\ q.op # "remove" /\ tag' = [tag EXCEPT ![q.id] = row]
           /\ row.exists /\ Accepted(q.id, row)
           /\ row.name = (IF q.name = Null THEN tag[q.id].name ELSE q.name)
           /\ row.parent = (IF q.op = "rename" THEN tag[q.id].parent ELSE q.to)
    BY <1>6
  <2> QED BY <1>1, <1>2, <1>3, <2>1, TagUpdatedKeeps
<1> QED BY <1>2, <1>4, <1>5, <1>6, TagWrittenRows

LEMMA TagStepKeeps == ASSUME TagInv, NEW c \in TagCalls, TagStep(c) PROVE TagInv'
BY TagFoundKeeps, TagParentFoundKeeps, TagClimbsKeeps, AssertNameFreeKeeps, TagWrittenKeeps DEF TagStep

\* What the steps of files add to the tags of files are tags that are there.
LEMMA FileTagsAreThere ==
    ASSUME FileInv, TagInv, NEW c \in FileCalls, FileStep(c)
    PROVE  \A p \in fileTag' : p \in fileTag \/ \E f \in Files, t \in TagRows : p = <<f, t>>
<1>1. PICK q \in FileCallRow : q = fileCall[c]  BY DEF FileInv, FileTypes
<1>2. FileShape(q) /\ MergeKnows(q)  BY <1>1 DEF FileInv
<1>3. CASE IngestCreates(c)
  <2>1. q.pc = "create"  BY <1>1, <1>3 DEF IngestCreates
  <2>2. q.id \in Files  BY <1>2, <2>1 DEF FileShape
  <2>3. \/ fileTag' = fileTag
        \/ q.ids \subseteq TagRows /\ fileTag' = fileTag \cup {<<q.id, t>> : t \in q.ids}
    BY <1>1, <1>3 DEF IngestCreates
  <2> QED BY <2>2, <2>3
<1>4. CASE MergeLoops(c)
  <2>1. q.pc = "loop"  BY <1>1, <1>4 DEF MergeLoops
  <2>2. PICK r \in q.todo :
           fileTag' = fileTag \/ \E t \in r.tags : fileTag' = fileTag \cup {<<q.id, t>>}
    BY <1>1, <1>4 DEF MergeLoops
  <2>3. q.id \in Files  BY <1>2, <2>1 DEF FileShape
  <2>4. r.tags \subseteq TagsOf(r.file)  BY <1>2, <2>1 DEF MergeKnows
  <2>5. TagsOf(r.file) \subseteq TagRows  BY DEF TagsOf, TagInv, TagsThere
  <2> QED BY <2>2, <2>3, <2>4, <2>5
<1>5. CASE fileTag' = fileTag  BY <1>5
<1> QED BY <1>3, <1>4, <1>5
     DEF FileStep, FileFound, FileFolderFound, IngestCountsTags, FileWritten, MergeFindsRemovals

\* The other calls touch no tag, and add no tag to a file that is not there.
LEMMA TagsStay ==
    ASSUME TagInv, UNCHANGED <<tag, tagCall, tagsRaced>>,
           \A p \in fileTag' : p \in fileTag \/ \E f \in Files, t \in TagRows : p = <<f, t>>
    PROVE  TagInv'
<1>1. TagRows' = TagRows /\ TagParent' = TagParent /\ TagRows \subseteq Tags
  BY DEF TagRows, TagParent
<1>2. TagTypes'
  <2>1. fileTag' \in SUBSET (Files \X Tags)  BY <1>1 DEF TagInv, TagTypes
  <2> QED BY <2>1 DEF TagInv, TagTypes
<1>3. \A c \in TagCalls : TagShape(tagCall[c])'  BY DEF TagInv, TagShape
<1>4. TagsThere'
  <2>1. \A p \in fileTag' : p[2] \in TagRows
    <3> SUFFICES ASSUME NEW p \in fileTag' PROVE p[2] \in TagRows  OBVIOUS
    <3>1. CASE p \in fileTag  BY <3>1 DEF TagInv, TagsThere
    <3>2. CASE \E f \in Files, t \in TagRows : p = <<f, t>>  BY <3>2
    <3> QED BY <3>1, <3>2
  <2> QED BY <1>1, <2>1 DEF TagInv, TagsThere
<1>5. ASSUME TagsStand PROVE TagsStand'
  <2>1. \A c \in TagCalls : (tagCall[c].pc # "idle" => CallKnows(tagCall[c]))'
    <3> SUFFICES ASSUME NEW c \in TagCalls, tagCall'[c].pc # "idle" PROVE CallKnows(tagCall[c])'
      OBVIOUS
    <3>1. PICK m \in TagCallRow : m = tagCall[c]  BY DEF TagInv, TagTypes
    <3>2. CallKnows(m)'  BY <1>5, <3>1, CallStaysKnown DEF TagsStand
    <3> QED BY <3>1, <3>2
  <2>2. NoTwins'  BY <1>1, <1>5 DEF TagsStand, NoTwins
  <2> QED BY <1>1, <1>5, <2>1, <2>2 DEF TagsStand, Founded
<1> QED BY <1>2, <1>3, <1>4, <1>5 DEF TagInv

-----------------------------------------------------------------------------
(* Paths and descendants                                                   *)

\* The rows on the way up from a row: the least set that holds it and the parents of its rows.
ClosedUp(rows, parent, C) == \A z \in C : parent[z] \in rows => parent[z] \in C
Above(rows, parent, x)    == {y \in rows : \A C \in SUBSET rows :
                                              x \in C /\ ClosedUp(rows, parent, C) => y \in C}

LEMMA AboveHolds ==
    ASSUME NEW rows, NEW parent, NEW x \in rows
    PROVE  /\ x \in Above(rows, parent, x) /\ Above(rows, parent, x) \in SUBSET rows
           /\ ClosedUp(rows, parent, Above(rows, parent, x))
BY DEF Above, ClosedUp

LEMMA AboveClimbs ==
    ASSUME NEW rows, NEW parent, NEW x \in rows
    PROVE  Above(rows, parent, x) = {x} \cup (IF parent[x] \in rows THEN Above(rows, parent, parent[x])
                                              ELSE {})
<1> DEFINE up == IF parent[x] \in rows THEN Above(rows, parent, parent[x]) ELSE {}
           C  == {x} \cup up
<1>1. C \in SUBSET rows /\ ClosedUp(rows, parent, up) /\ (parent[x] \in rows => parent[x] \in up)
  <2>1. CASE parent[x] \in rows  BY <2>1, AboveHolds
  <2>2. CASE parent[x] \notin rows  BY <2>2 DEF ClosedUp
  <2> QED BY <2>1, <2>2
<1>2. up \subseteq Above(rows, parent, x)
  <2>1. ASSUME parent[x] \in rows, NEW y \in Above(rows, parent, parent[x])
        PROVE  y \in Above(rows, parent, x)
    <3>1. y \in rows  BY <2>1 DEF Above
    <3>2. ASSUME NEW D \in SUBSET rows, x \in D, ClosedUp(rows, parent, D) PROVE y \in D
      <4>1. parent[x] \in D  BY <2>1, <3>2 DEF ClosedUp
      <4> QED BY <2>1, <3>2, <4>1 DEF Above
    <3> QED BY <3>1, <3>2 DEF Above
  <2> QED BY <2>1
<1>3. x \in Above(rows, parent, x)  BY AboveHolds
<1> HIDE DEF up
<1>4. x \in C /\ ClosedUp(rows, parent, C)  BY <1>1 DEF ClosedUp
<1>5. Above(rows, parent, x) \subseteq C  BY <1>1, <1>4 DEF Above
<1> QED BY <1>2, <1>3, <1>5 DEF up

\* Without a cycle no row lies above itself.
LEMMA NotAboveItself ==
    ASSUME NEW rows, NEW parent, Founded(rows, parent), NEW x \in rows, parent[x] \in rows
    PROVE  x \notin Above(rows, parent, parent[x])
<1> DEFINE S == {z \in rows : parent[z] \in rows /\ z \in Above(rows, parent, parent[z])}
<1>1. ASSUME NEW z \in S PROVE parent[z] \in S
  <2>1. z \in rows /\ parent[z] \in rows /\ z \in Above(rows, parent, parent[z])  OBVIOUS
  <2> DEFINE p == parent[z]
  <2>2. CASE z = p  BY <2>1, <2>2
  <2>3. CASE z # p
    <3>1. parent[p] \in rows /\ z \in Above(rows, parent, parent[p])
      BY <2>1, <2>3, AboveClimbs
    <3>2. ClosedUp(rows, parent, Above(rows, parent, parent[p]))  BY <3>1, AboveHolds
    <3>3. p \in Above(rows, parent, parent[p])  BY <2>1, <3>1, <3>2 DEF ClosedUp
    <3> QED BY <2>1, <3>1, <3>3
  <2> QED BY <2>2, <2>3
<1>2. S = {}  BY <1>1 DEF Founded
<1> QED BY <1>2

\* What hangs below a row are the rows it is above of.
LEMMA HangingIsBelow ==
    ASSUME NEW rows, IsFiniteSet(rows), NEW parent, Founded(rows, parent), NEW t \in rows,
           NEW N \in Nat, Cardinality(rows) <= N, NEW g \in [0..N -> SUBSET rows], g[0] = {t},
           \A n \in 0..(N - 1) : g[n + 1] = Hang(rows, parent, g[n])
    PROVE  g[N] = {x \in rows : t \in Above(rows, parent, x)}
<1> DEFINE B == {x \in rows : t \in Above(rows, parent, x)}
<1>1. /\ g[N] \in SUBSET rows /\ g[0] \subseteq g[N]
      /\ \A r \in rows : parent[r] \in g[N] => r \in g[N]
  BY HangingStops
<1>2. B \subseteq g[N]
  <2> DEFINE S == B \ g[N]
  <2>1. ASSUME NEW x \in S PROVE parent[x] \in S
    <3>1. x \in rows /\ t \in Above(rows, parent, x) /\ x # t  BY <1>1
    <3>2. parent[x] \in rows /\ t \in Above(rows, parent, parent[x])  BY <3>1, AboveClimbs
    <3> QED BY <1>1, <3>1, <3>2
  <2>2. S = {}  BY <2>1 DEF Founded
  <2> QED BY <2>2
<1>3. g[N] \subseteq B
  <2> DEFINE G == {n \in Nat : n <= N => g[n] \subseteq B}
  <2>1. 0 \in G
    <3>1. t \in B  BY AboveHolds
    <3> QED BY <3>1
  <2>2. ASSUME NEW n \in Nat, n \in G PROVE n + 1 \in G
    <3> SUFFICES ASSUME n + 1 <= N, NEW x \in g[n + 1] PROVE x \in B  OBVIOUS
    <3>1. n \in 0..(N - 1) /\ n <= N /\ n \in 0..N  OBVIOUS
    <3>2. x \in Hang(rows, parent, g[n])  BY <3>1
    <3>3. g[n] \subseteq B  BY <2>2, <3>1
    <3>4. CASE x \in g[n]  BY <3>3, <3>4
    <3>5. CASE x \in rows /\ parent[x] \in g[n]
      <4>1. parent[x] \in rows /\ t \in Above(rows, parent, parent[x])  BY <3>3, <3>5
      <4>2. t \in Above(rows, parent, x)  BY <3>5, <4>1, AboveClimbs
      <4> QED BY <3>5, <4>2
    <3> QED BY <3>2, <3>4, <3>5 DEF Hang
  <2> HIDE DEF G
  <2>3. N \in G  BY <2>1, <2>2, Induction
  <2> QED BY <2>3 DEF G
<1> QED BY <1>2, <1>3

\* descendantIds goes down by these steps.
LEMMA DescendantsAreBelow ==
    ASSUME TagRows \subseteq Tags, Founded(TagRows, TagParent), NEW t \in TagRows
    PROVE  DescendantIds(t) = {x \in TagRows : t \in Above(TagRows, TagParent, x)}
<1> DEFINE N     == Cardinality(Tags)
           X     == SUBSET TagRows
           F     == [S \in X |-> Hang(TagRows, TagParent, S)]
           Eq(u) == u = [n \in 0..N |-> IF n = 0 THEN {t}
                                        ELSE u[n - 1] \cup {x \in TagRows : tag[x].parent \in u[n - 1]}]
           down  == CHOOSE u : Eq(u)
<1>1. DescendantIds(t) = down[N]  BY DEF DescendantIds
<1>2. N \in Nat /\ IsFiniteSet(TagRows) /\ Cardinality(TagRows) <= N
  BY InstancesAssumption, FS_CardinalityType, FS_Subset
<1>3. \A S : Hang(TagRows, TagParent, S) = S \cup {x \in TagRows : tag[x].parent \in S}
  <2>1. \A x \in TagRows : TagParent[x] = tag[x].parent  BY DEF TagParent, TagRows
  <2> HIDE DEF TagRows
  <2> QED BY <2>1 DEF Hang
<1>4. F \in [X -> X] /\ {t} \in X /\ \A S \in X : F[S] = Hang(TagRows, TagParent, S)
  BY DEF Hang
<1> HIDE DEF F, N, X
<1>5. PICK g \in [0..N -> X] : g[0] = {t} /\ \A n \in 0..(N - 1) : g[n + 1] = F[g[n]]
  <2>1. Iterable(X)  BY AllIterable
  <2>2. \A b \in X : \A M \in Nat :
          \E g \in [0..M -> X] : g[0] = b /\ \A n \in 0..(M - 1) : g[n + 1] = F[g[n]]
    BY <1>4, <2>1 DEF Iterable
  <2> QED BY <1>2, <1>4, <2>2
<1>6. \A n \in 0..(N - 1) : g[n + 1] = Hang(TagRows, TagParent, g[n])
  <2>1. \A n \in 0..(N - 1) : n \in 0..N  BY <1>2
  <2> QED BY <1>4, <1>5, <2>1
<1>7. Eq(g)
  <2>1. ASSUME NEW n \in 0..N, n # 0
        PROVE  g[n] = g[n - 1] \cup {x \in TagRows : tag[x].parent \in g[n - 1]}
    <3>1. n - 1 \in 0..(N - 1) /\ (n - 1) + 1 = n  BY <1>2, <2>1
    <3>2. g[(n - 1) + 1] = Hang(TagRows, TagParent, g[n - 1])  BY <1>6, <3>1
    <3> QED BY <1>3, <3>1, <3>2
  <2> QED BY <1>2, <1>5, <2>1
<1> HIDE DEF Eq
<1>8. Eq(down)  BY <1>7
<1> HIDE DEF down
<1> USE DEF Eq
<1>9. down[0] = g[0]  BY <1>2, <1>5, <1>8
<1>10. ASSUME NEW n \in 0..(N - 1) PROVE down[n + 1] = Hang(TagRows, TagParent, down[n])
  <2>1. n + 1 \in 0..N /\ n + 1 # 0 /\ (n + 1) - 1 = n  BY <1>2
  <2> QED BY <1>3, <1>8, <2>1
<1>11. \A n \in 0..(N - 1) : down[n] = g[n] => down[n + 1] = g[n + 1]  BY <1>6, <1>10
<1>12. down[N] = g[N]  BY <1>2, <1>9, <1>11, SameRun
<1>13. g[N] = {x \in TagRows : t \in Above(TagRows, TagParent, x)}
  BY <1>2, <1>5, <1>6, HangingIsBelow DEF X
<1> QED BY <1>1, <1>12, <1>13

\* One call of build, from what the calls above it give.
Asked(rows)                       == (SUBSET rows) \X rows
Answer(rows, parent, build, s, x) == IF x \in s \/ parent[x] \notin rows THEN <<x>>
                                     ELSE Append(build[<<s \cup {x}, parent[x]>>], x)
Built(rows, parent, build)        ==
    build = [call \in Asked(rows) |-> Answer(rows, parent, build, call[1], call[2])]

\* build answers every call, for a call that asks on has seen one row more.
LEMMA CanBeBuilt ==
    ASSUME NEW rows, IsFiniteSet(rows), NEW parent
    PROVE  \E build : Built(rows, parent, build)
<1> DEFINE P     == Asked(rows)
           X     == [P -> Seq(rows)]
           N     == Cardinality(rows) + 1
           F     == [h \in X |-> [call \in P |-> Answer(rows, parent, h, call[1], call[2])]]
           empty == [call \in P |-> <<>>]
<1>1. N \in Nat /\ Cardinality(rows) \in Nat  BY FS_CardinalityType
<1>2. ASSUME NEW h \in X, NEW s \in SUBSET rows, NEW x \in rows
      PROVE  Answer(rows, parent, h, s, x) \in Seq(rows)
  <2>1. CASE x \in s \/ parent[x] \notin rows  BY <2>1 DEF Answer
  <2>2. CASE ~(x \in s \/ parent[x] \notin rows)
    <3>1. <<s \cup {x}, parent[x]>> \in P  BY <2>2 DEF Asked
    <3>2. h[<<s \cup {x}, parent[x]>>] \in Seq(rows)  BY <3>1
    <3> QED BY <2>2, <3>2 DEF Answer
  <2> QED BY <2>1, <2>2
<1>3. \A call \in P : call[1] \in SUBSET rows /\ call[2] \in rows /\ call = <<call[1], call[2]>>
  BY DEF Asked
<1>4. \A s \in SUBSET rows, x \in rows : <<s, x>> \in P  BY DEF Asked
<1> HIDE DEF P
<1>5. F \in [X -> X]
  <2>1. ASSUME NEW h \in X PROVE [call \in P |-> Answer(rows, parent, h, call[1], call[2])] \in X
    BY <1>2, <1>3
  <2> QED BY <2>1
<1>6. \A h \in X, s \in SUBSET rows, x \in rows : F[h][<<s, x>>] = Answer(rows, parent, h, s, x)
  BY <1>4
<1>7. \A h \in X : F[h] = [call \in P |-> Answer(rows, parent, h, call[1], call[2])]  OBVIOUS
<1>8. empty \in X  OBVIOUS
<1>9. \A h1, h2 \in X : (\A call \in P : h1[call] = h2[call]) => h1 = h2  OBVIOUS
<1> HIDE DEF F, X, empty, N
<1>10. PICK g \in [0..(N + 1) -> X] : g[0] = empty /\ \A n \in 0..((N + 1) - 1) : g[n + 1] = F[g[n]]
  <2>1. Iterable(X)  BY AllIterable
  <2>2. \A b \in X : \A M \in Nat :
          \E g \in [0..M -> X] : g[0] = b /\ \A n \in 0..(M - 1) : g[n + 1] = F[g[n]]
    BY <1>5, <2>1 DEF Iterable
  <2>3. N + 1 \in Nat  BY <1>1
  <2> QED BY <1>8, <2>2, <2>3
<1>11. \A n \in 0..N : g[n] \in X /\ g[n + 1] \in X /\ g[n + 1] = F[g[n]]
  <2>1. \A n \in 0..N : n \in 0..(N + 1) /\ n + 1 \in 0..(N + 1) /\ n \in 0..((N + 1) - 1)  BY <1>1
  <2> QED BY <1>10, <2>1
<1>12. PICK room \in [SUBSET rows -> 0..Cardinality(rows)] :
          \A s \in SUBSET rows : \A x \in rows \ s : room[s \cup {x}] = room[s] - 1
  <2> DEFINE rest == [s \in SUBSET rows |-> Cardinality(rows \ s)]
  <2>1. ASSUME NEW s \in SUBSET rows
        PROVE  /\ IsFiniteSet(rows \ s) /\ Cardinality(rows \ s) \in Nat
               /\ Cardinality(rows \ s) <= Cardinality(rows)
    BY FS_Subset, FS_CardinalityType
  <2>2. ASSUME NEW s \in SUBSET rows PROVE rest[s] \in 0..Cardinality(rows)
    <3>1. PICK n \in Nat : n = Cardinality(rows \ s)  BY <2>1
    <3>2. PICK m \in Nat : m = Cardinality(rows)  BY <1>1
    <3>3. n <= m  BY <2>1, <3>1, <3>2
    <3>4. n \in 0..m  BY <3>3
    <3> QED BY <3>1, <3>2, <3>4
  <2>3. ASSUME NEW s \in SUBSET rows, NEW x \in rows \ s PROVE rest[s \cup {x}] = rest[s] - 1
    <3>1. rows \ (s \cup {x}) = (rows \ s) \ {x}  OBVIOUS
    <3>2. Cardinality((rows \ s) \ {x}) = Cardinality(rows \ s) - 1
      BY <2>1, FS_RemoveElement
    <3>3. s \cup {x} \in SUBSET rows  OBVIOUS
    <3>4. rest[s \cup {x}] = Cardinality(rows \ (s \cup {x})) /\ rest[s] = Cardinality(rows \ s)
      BY <3>3
    <3> QED BY <3>1, <3>2, <3>4
  <2>4. rest \in [SUBSET rows -> 0..Cardinality(rows)]  BY <2>2
  <2> QED BY <2>3, <2>4
<1> DEFINE Stable(k) == \A s \in SUBSET rows, x \in rows :
                           room[s] < k => g[k][<<s, x>>] = g[k + 1][<<s, x>>]
           G         == {k \in Nat : k <= N => Stable(k)}
<1>13. 0 \in G
  <2>1. \A s \in SUBSET rows : ~(room[s] < 0)  BY <1>1, <1>12
  <2> QED BY <2>1
<1>14. ASSUME NEW k \in Nat, k \in G PROVE k + 1 \in G
  <2> SUFFICES ASSUME k + 1 <= N PROVE Stable(k + 1)  OBVIOUS
  <2>1. k \in 0..N /\ k + 1 \in 0..N /\ k <= N  BY <1>1
  <2>2. Stable(k)  BY <1>14, <2>1
  <2>3. ASSUME NEW s \in SUBSET rows, NEW x \in rows, room[s] < k + 1
        PROVE  g[k + 1][<<s, x>>] = g[(k + 1) + 1][<<s, x>>]
    <3>1. /\ g[k + 1][<<s, x>>] = Answer(rows, parent, g[k], s, x)
          /\ g[(k + 1) + 1][<<s, x>>] = Answer(rows, parent, g[k + 1], s, x)
      BY <1>6, <1>11, <2>1
    <3>2. CASE x \in s \/ parent[x] \notin rows  BY <3>1, <3>2 DEF Answer
    <3>3. CASE ~(x \in s \/ parent[x] \notin rows)
      <4> DEFINE s2 == s \cup {x}
      <4>1. s2 \in SUBSET rows /\ parent[x] \in rows /\ x \in rows \ s  BY <3>3
      <4>2. room[s2] = room[s] - 1  BY <1>12, <4>1
      <4>3. room[s2] < k
        <5>1. room[s] \in 0..Cardinality(rows)  BY <1>12
        <5> QED BY <1>1, <2>3, <4>2, <5>1
      <4>4. g[k][<<s2, parent[x]>>] = g[k + 1][<<s2, parent[x]>>]  BY <2>2, <4>1, <4>3
      <4> QED BY <3>1, <3>3, <4>4 DEF Answer
    <3> QED BY <3>2, <3>3
  <2> QED BY <2>3
<1> HIDE DEF G
<1>15. N \in G  BY <1>1, <1>13, <1>14, Induction
<1>16. Stable(N)
  <2>1. N <= N  BY <1>1
  <2> HIDE DEF Stable
  <2> QED BY <1>15, <2>1 DEF G
<1>17. \A s \in SUBSET rows, x \in rows : g[N][<<s, x>>] = g[N + 1][<<s, x>>]
  <2>1. \A s \in SUBSET rows : room[s] < N  BY <1>1, <1>12 DEF N
  <2> QED BY <1>16, <2>1
<1>18. N \in 0..N  BY <1>1
<1>19. g[N] = F[g[N]]
  <2>1. \A call \in P : g[N][call] = g[N + 1][call]  BY <1>3, <1>17
  <2> QED BY <1>9, <1>11, <1>18, <2>1
<1>20. Built(rows, parent, g[N])  BY <1>7, <1>11, <1>18, <1>19 DEF Built, P
<1> QED BY <1>20

LEMMA Appended ==
    ASSUME NEW rows, NEW q \in Seq(rows), NEW y
    PROVE  ToSet(Append(q, y)) = ToSet(q) \cup {y}
<1> DEFINE r == Append(q, y)
<1>1. Len(q) \in Nat /\ DOMAIN q = 1..Len(q)  OBVIOUS
<1>2. DOMAIN r = 1..(Len(q) + 1)  OBVIOUS
<1>3. \A i \in 1..Len(q) : r[i] = q[i]  OBVIOUS
<1>4. r[Len(q) + 1] = y  OBVIOUS
<1> HIDE DEF r
<1>5. \A i \in 1..(Len(q) + 1) : i \in 1..Len(q) \/ i = Len(q) + 1  BY <1>1
<1>6. \A i \in 1..Len(q) : i \in 1..(Len(q) + 1)  BY <1>1
<1>7. Len(q) + 1 \in 1..(Len(q) + 1)  BY <1>1
<1>8. ToSet(r) = ToSet(q) \cup {y}
  BY <1>1, <1>2, <1>3, <1>4, <1>5, <1>6, <1>7 DEF ToSet
<1> QED BY <1>8 DEF r

\* It goes up to the root and meets every row above once.
LEMMA BuildsWhatIsAbove ==
    ASSUME NEW rows, NEW parent, Founded(rows, parent), NEW build, Built(rows, parent, build),
           NEW x \in rows
    PROVE  ToSet(build[<<{}, x>>]) = Above(rows, parent, x)
<1>1. \A s \in SUBSET rows, y \in rows : build[<<s, y>>] = Answer(rows, parent, build, s, y)
  BY DEF Built, Asked
<1> DEFINE Good(y) == \A s \in SUBSET rows :
                         s \cap Above(rows, parent, y) = {} =>
                            /\ build[<<s, y>>] \in Seq(rows)
                            /\ ToSet(build[<<s, y>>]) = Above(rows, parent, y)
           S       == {y \in rows : ~Good(y)}
<1>2. ASSUME NEW y \in rows, parent[y] \in rows => Good(parent[y]) PROVE Good(y)
  <2> SUFFICES ASSUME NEW s \in SUBSET rows, s \cap Above(rows, parent, y) = {}
               PROVE  /\ build[<<s, y>>] \in Seq(rows)
                      /\ ToSet(build[<<s, y>>]) = Above(rows, parent, y)
    OBVIOUS
  <2>1. y \notin s  BY AboveHolds
  <2>2. CASE parent[y] \notin rows
    <3>1. build[<<s, y>>] = <<y>>  BY <1>1, <2>2 DEF Answer
    <3>2. ToSet(<<y>>) = {y}  BY DEF ToSet
    <3>3. Above(rows, parent, y) = {y}  BY <2>2, AboveClimbs
    <3> QED BY <3>1, <3>2, <3>3
  <2>3. CASE parent[y] \in rows
    <3> DEFINE s2 == s \cup {y}
    <3>1. Above(rows, parent, y) = {y} \cup Above(rows, parent, parent[y])  BY <2>3, AboveClimbs
    <3>2. y \notin Above(rows, parent, parent[y])  BY <2>3, NotAboveItself
    <3>3. s2 \in SUBSET rows /\ s2 \cap Above(rows, parent, parent[y]) = {}  BY <3>1, <3>2
    <3>4. PICK q \in Seq(rows) : /\ q = build[<<s2, parent[y]>>]
                                 /\ ToSet(q) = Above(rows, parent, parent[y])
      BY <1>2, <2>3, <3>3
    <3>5. build[<<s, y>>] = Append(q, y)  BY <1>1, <2>1, <2>3, <3>4 DEF Answer
    <3>6. ToSet(Append(q, y)) = ToSet(q) \cup {y}  BY Appended
    <3> QED BY <3>1, <3>4, <3>5, <3>6
  <2> QED BY <2>2, <2>3
<1>3. S = {}
  <2>1. ASSUME NEW y \in S PROVE parent[y] \in S  BY <1>2
  <2> QED BY <2>1 DEF Founded
<1>4. Good(x)  BY <1>3
<1> QED BY <1>4

LEMMA PathIsAbove ==
    ASSUME IsFiniteSet(TagRows), Founded(TagRows, TagParent), NEW t \in TagRows
    PROVE  ToSet(PathTo(t)) = Above(TagRows, TagParent, t)
<1> DEFINE Eq(u) == u = [call \in (SUBSET TagRows) \X TagRows |->
                           IF call[2] \in call[1] \/ tag[call[2]].parent \notin TagRows THEN <<call[2]>>
                           ELSE Append(u[<<call[1] \cup {call[2]}, tag[call[2]].parent>>], call[2])]
           build == CHOOSE u : Eq(u)
<1>1. PathTo(t) = build[<<{}, t>>]  BY DEF PathTo
<1>2. \A u : Eq(u) <=> Built(TagRows, TagParent, u)
  <2>1. \A x \in TagRows : TagParent[x] = tag[x].parent  BY DEF TagParent, TagRows
  <2>2. \A call \in (SUBSET TagRows) \X TagRows : call[2] \in TagRows  OBVIOUS
  <2> HIDE DEF TagRows
  <2> QED BY <2>1, <2>2 DEF Built, Answer, Asked
<1> HIDE DEF Eq
<1>3. PICK v : Built(TagRows, TagParent, v)  BY CanBeBuilt
<1>4. Eq(build)  BY <1>2, <1>3
<1>5. Built(TagRows, TagParent, build)  BY <1>2, <1>4
<1> HIDE DEF build
<1> QED BY <1>1, <1>5, BuildsWhatIsAbove

\* What the invariant says of the tags a run checks.
LEMMA TagsKeptFollows == ASSUME TagInv PROVE TagsKept /\ PathsAgree
<1>1. TagRows \in SUBSET Tags  BY DEF TagRows
<1>2. IsFiniteSet(TagRows)  BY <1>1, InstancesAssumption, FS_Subset
<1>3. ASSUME ~tagsRaced PROVE Listed(TagRows, TagParent) = TagRows
  BY <1>1, <1>2, <1>3, FoundedIsListed DEF TagInv, TagsStand
<1>4. ASSUME ~tagsRaced PROVE \A t \in TagRows : Siblings(tag[t].parent, tag[t].name, t) = {}
  BY <1>4 DEF TagInv, TagsStand, NoTwins, Siblings
<1>5. ASSUME ~tagsRaced, NEW t \in TagRows, NEW x \in TagRows
      PROVE  x \in DescendantIds(t) <=> t \in ToSet(PathTo(x))
  <2>1. Founded(TagRows, TagParent)  BY <1>1, <1>5 DEF TagInv, TagsStand, Founded
  <2>2. DescendantIds(t) = {y \in TagRows : t \in Above(TagRows, TagParent, y)}
    BY <1>1, <2>1, DescendantsAreBelow
  <2>3. ToSet(PathTo(x)) = Above(TagRows, TagParent, x)  BY <1>2, <2>1, PathIsAbove
  <2> QED BY <2>2, <2>3
<1>6. /\ \A t \in TagRows : tag[t].parent \in TagRows \cup {Null}
      /\ \A p \in fileTag : p[2] \in TagRows
  BY <1>1 DEF TagInv, TagsThere
<1> QED BY <1>3, <1>4, <1>5, <1>6 DEF TagsKept, PathsAgree

-----------------------------------------------------------------------------
(* The rows a run starts from                                              *)

LEMMA FoundedExtends ==
    ASSUME NEW all, Null \notin all, NEW rows \in SUBSET all, NEW p, Founded(rows, p), NEW parent,
           \A x \in rows : parent[x] = p[x], \A x \in all \ rows : parent[x] = Null
    PROVE  Founded(all, parent)
<1> SUFFICES ASSUME NEW S \in SUBSET all, S # {} PROVE \E x \in S : parent[x] \notin S
  BY DEF Founded
<1>1. CASE S \subseteq rows
  <2>1. PICK x \in S : p[x] \notin S  BY <1>1 DEF Founded
  <2> QED BY <1>1, <2>1
<1>2. CASE ~(S \subseteq rows)  BY <1>2
<1> QED BY <1>1, <1>2

LEMMA FoldersBegin ==
    ASSUME NEW i \in Instances, FolderInit(i.forests) PROVE FolderInv
<1>1. PICK p \in i.forests :
         folder = [f \in Folders |-> IF f \in DOMAIN p
                                     THEN [exists |-> TRUE, trashed |-> FALSE, parent |-> p[f]]
                                     ELSE NoFolder]
  BY DEF FolderInit
<1>2. /\ DOMAIN p \in SUBSET Folders
      /\ p \in [DOMAIN p -> DOMAIN p \cup {Null}] /\ Listed(DOMAIN p, p) = DOMAIN p
  BY InstancesAssumption DEF Forests
<1>3. /\ folderCall = [c \in FolderCalls |-> NoFolderCall]
      /\ movesRaced = FALSE /\ trashRaced = FALSE
  BY DEF FolderInit
<1>4. \A c \in FolderCalls : folderCall[c] = NoFolderCall  BY <1>3
<1>5. /\ \A f \in DOMAIN p : /\ folder[f].exists /\ ~folder[f].trashed /\ folder[f].parent = p[f]
                             /\ folder[f] \in FolderRow
      /\ \A f \in Folders \ DOMAIN p : /\ ~folder[f].exists /\ folder[f].parent = Null
                                       /\ folder[f] \in FolderRow
  <2>1. \A f \in DOMAIN p : folder[f] = [exists |-> TRUE, trashed |-> FALSE, parent |-> p[f]]
    BY <1>1, <1>2
  <2>2. \A f \in Folders \ DOMAIN p : folder[f] = NoFolder  BY <1>1
  <2>3. \A f \in DOMAIN p : p[f] \in Folders \cup {Null}  BY <1>2
  <2>4. \A w \in Folders \cup {Null} : [exists |-> TRUE, trashed |-> FALSE, parent |-> w] \in FolderRow
    BY DEF FolderRow
  <2>5. NoFolder \in FolderRow /\ ~NoFolder.exists /\ NoFolder.parent = Null  BY DEF NoFolder, FolderRow
  <2>6. ASSUME NEW f \in DOMAIN p
        PROVE  /\ folder[f].exists /\ ~folder[f].trashed /\ folder[f].parent = p[f]
               /\ folder[f] \in FolderRow
    <3>1. folder[f] = [exists |-> TRUE, trashed |-> FALSE, parent |-> p[f]]  BY <2>1, <2>6
    <3>2. folder[f] \in FolderRow  BY <2>3, <2>4, <2>6, <3>1
    <3> QED BY <3>1, <3>2
  <2>7. ASSUME NEW f \in Folders \ DOMAIN p
        PROVE  ~folder[f].exists /\ folder[f].parent = Null /\ folder[f] \in FolderRow
    BY <2>2, <2>5, <2>7
  <2> QED BY <2>6, <2>7
<1>6. folder \in [Folders -> FolderRow]
  <2>1. \A f \in Folders : folder[f] \in FolderRow  BY <1>5
  <2> QED BY <1>1, <2>1
<1>7. FolderTypes
  <2>1. folderCall \in [FolderCalls -> FolderCallRow]  BY <1>3, NoFolderCallFits
  <2> QED BY <1>3, <1>6, <2>1 DEF FolderTypes
<1>8. \A c \in FolderCalls : /\ FolderShape(folderCall[c]) /\ CallThere(folderCall[c])
                             /\ MoveKnows(folderCall[c]) /\ TrashKnows(folderCall[c])
                             /\ folderCall[c].op = "none"
  BY <1>4, NoFolderCallFits
<1>9. ParentsThere  BY <1>2, <1>5 DEF ParentsThere
<1>10. IdsApart  BY <1>8 DEF IdsApart
<1>11. MovesStand
  <2>1. IsFiniteSet(DOMAIN p)  BY <1>2, InstancesAssumption, FS_Subset
  <2>2. Founded(DOMAIN p, p)  BY <1>2, <2>1, ListedIsFounded
  <2> DEFINE rows == DOMAIN p
             now  == FolderParent
  <2>3. \A x \in rows : now[x] = p[x]  BY <1>2, <1>5 DEF FolderParent
  <2>4. \A x \in Folders \ rows : now[x] = Null  BY <1>5 DEF FolderParent
  <2>5. Founded(Folders, now)
    <3> HIDE DEF rows, now
    <3> QED BY <1>2, <2>2, <2>3, <2>4, ArchiveAssumption, FoundedExtends DEF rows
  <2> QED BY <1>8, <2>5 DEF MovesStand, Under
<1>12. HungOnActive  BY <1>2, <1>5 DEF HungOnActive, Active
<1>13. TrashStands  BY <1>8, <1>12 DEF TrashStands, Under
<1> QED BY <1>7, <1>8, <1>9, <1>10, <1>11, <1>13 DEF FolderInv

LEMMA TagsBegin ==
    ASSUME NEW i \in Instances, TagInit(i.tagRows), fileTag = i.fileTags PROVE TagInv
<1>1. PICK r \in i.tagRows : tag = [t \in Tags |-> IF t \in DOMAIN r THEN r[t] ELSE NoTag]
  BY DEF TagInit
<1> DEFINE rows == DOMAIN r
           p    == [t \in rows |-> r[t].parent]
<1>2. /\ rows \in SUBSET Tags
      /\ r \in [rows -> [exists : {TRUE}, parent : rows \cup {Null}, name : Names]]
      /\ Listed(rows, p) = rows
      /\ \A t, x \in rows : r[t].parent = r[x].parent /\ r[t].name = r[x].name => t = x
      /\ fileTag \subseteq Files \X rows
  BY <1>1, InstancesAssumption DEF TagTable
<1>3. /\ tagCall = [c \in TagCalls |-> NoTagCall] /\ tagsRaced = FALSE
      /\ \A c \in TagCalls : tagCall[c] = NoTagCall
  BY DEF TagInit
<1>4. /\ \A t \in rows : /\ tag[t].exists /\ tag[t].parent = p[t] /\ tag[t].name = r[t].name
                         /\ tag[t] \in TagRow /\ p[t] \in rows \cup {Null} /\ tag[t] = r[t]
      /\ \A t \in Tags \ rows : /\ tag[t] = NoTag /\ ~tag[t].exists /\ tag[t].parent = Null
                                /\ tag[t] \in TagRow
  <2>1. \A t \in rows : tag[t] = r[t] /\ p[t] = r[t].parent  BY <1>1, <1>2
  <2>2. \A t \in rows : r[t].exists /\ r[t].parent \in rows \cup {Null} /\ r[t] \in TagRow
    BY <1>2 DEF TagRow
  <2>3. \A t \in Tags \ rows : tag[t] = NoTag  BY <1>1
  <2>4. NoTag \in TagRow /\ ~NoTag.exists /\ NoTag.parent = Null  BY DEF NoTag, TagRow
  <2> HIDE DEF p
  <2>5. ASSUME NEW t \in rows
        PROVE  /\ tag[t].exists /\ tag[t].parent = p[t] /\ tag[t].name = r[t].name
               /\ tag[t] \in TagRow /\ p[t] \in rows \cup {Null} /\ tag[t] = r[t]
    BY <2>1, <2>2, <2>5
  <2>6. ASSUME NEW t \in Tags \ rows
        PROVE  /\ tag[t] = NoTag /\ ~tag[t].exists /\ tag[t].parent = Null
               /\ tag[t] \in TagRow
    BY <2>3, <2>4, <2>6
  <2> QED BY <2>5, <2>6
<1>5. tag \in [Tags -> TagRow]
  <2>1. \A t \in Tags : tag[t] \in TagRow  BY <1>4
  <2> QED BY <1>1, <2>1
<1> HIDE DEF rows, p
<1>6. TagTypes
  <2>1. tagCall \in [TagCalls -> TagCallRow]  BY <1>3, NoTagCallFits
  <2> QED BY <1>2, <1>3, <1>5, <2>1 DEF TagTypes
<1>7. TagRows = rows  BY <1>2, <1>4 DEF TagRows
<1>8. \A c \in TagCalls : TagShape(tagCall[c]) /\ tagCall[c].pc = "idle"  BY <1>3, NoTagCallFits
<1>9. TagsThere  BY <1>2, <1>4, <1>7 DEF TagsThere
<1>10. NoTwins  BY <1>2, <1>4, <1>7 DEF NoTwins
<1>11. Founded(Tags, TagParent)
  <2>1. IsFiniteSet(rows)  BY <1>2, InstancesAssumption, FS_Subset
  <2>2. Founded(rows, p)  BY <1>2, <2>1, ListedIsFounded
  <2> DEFINE now == TagParent
  <2>3. \A x \in rows : now[x] = p[x]  BY <1>2, <1>4 DEF TagParent
  <2>4. \A x \in Tags \ rows : now[x] = Null  BY <1>4 DEF TagParent
  <2> HIDE DEF now
  <2>5. Founded(Tags, now)  BY <1>2, <2>2, <2>3, <2>4, ArchiveAssumption, FoundedExtends
  <2> QED BY <2>5 DEF now
<1>12. TagsStand  BY <1>8, <1>10, <1>11 DEF TagsStand
<1> QED BY <1>6, <1>8, <1>9, <1>12 DEF TagInv

LEMMA FilesBegin == ASSUME Init PROVE FileInv
<1>1. PICK i \in Instances :
         /\ file = [f \in Files |-> [NoFile EXCEPT !.exists = f \in i.uploaded]]
         /\ fileCall = [c \in FileCalls |-> NoFileCall]
         /\ binned = {} /\ merged = {} /\ mergesRaced = FALSE
  BY DEF Init
<1>2. \A f \in Files : [NoFile EXCEPT !.exists = f \in i.uploaded] \in FileRow
  <2> SUFFICES ASSUME NEW f \in Files PROVE [NoFile EXCEPT !.exists = f \in i.uploaded] \in FileRow
    OBVIOUS
  <2>1. \A b \in BOOLEAN : [NoFile EXCEPT !.exists = b] \in FileRow  BY DEF NoFile, FileRow
  <2>2. (f \in i.uploaded) \in BOOLEAN  OBVIOUS
  <2> QED BY <2>1, <2>2, Zenon
<1>3. file \in [Files -> FileRow] /\ fileCall \in [FileCalls -> FileCallRow]
  BY <1>1, <1>2, NoFileCallFits
<1>4. FileTypes  BY <1>1, <1>3 DEF FileTypes
<1>5. \A c \in FileCalls : FileShape(fileCall[c]) /\ fileCall[c].pc = "idle" /\ fileCall[c].op = "none"
  BY <1>1, NoFileCallFits
<1>6. \A c \in FileCalls : MergeKnows(fileCall[c])  BY <1>5 DEF MergeKnows
<1>7. MergesLoseNothing  BY <1>1 DEF MergesLoseNothing
<1> QED BY <1>4, <1>5, <1>6, <1>7 DEF FileInv

-----------------------------------------------------------------------------
(* Theorems                                                                *)

LEMMA Begins == Init => IInv
<1> SUFFICES ASSUME Init PROVE IInv  OBVIOUS
<1>1. PICK i \in Instances : FolderInit(i.forests) /\ TagInit(i.tagRows) /\ fileTag = i.fileTags
  BY DEF Init
<1> QED BY <1>1, FoldersBegin, TagsBegin, FilesBegin DEF IInv

\* Folders, tags and files go on side by side, and their calls meet in the FileTag rows only.
LEMMA Goes == IInv /\ [Next]_vars => IInv'
<1> SUFFICES ASSUME IInv, [Next]_vars PROVE IInv'  OBVIOUS
<1> USE DEF IInv
<1>1. ASSUME fileTag' = fileTag
      PROVE  \A p \in fileTag' : p \in fileTag \/ \E f \in Files, t \in TagRows : p = <<f, t>>
  BY <1>1
<1>2. CASE \E c \in FolderCalls : \/ FolderRequest(c)
                                  \/ FolderStep(c) /\ UNCHANGED <<tagVars, fileVars, left>>
  <2>1. PICK c \in FolderCalls : \/ FolderRequest(c)
                                 \/ FolderStep(c) /\ UNCHANGED <<tagVars, fileVars, left>>
    BY <1>2
  <2>2. FolderInv'  BY <2>1, FolderRequestKeeps, FolderStepKeeps
  <2>3. UNCHANGED tagVars /\ UNCHANGED fileVars  BY <2>1 DEF FolderRequest
  <2>4. UNCHANGED <<tag, fileTag, tagCall, tagsRaced>>  BY <2>3 DEF tagVars
  <2>5. TagInv'  BY <1>1, <2>4, TagsStay
  <2>6. FileInv'  BY <2>3, <2>4, FilesStay
  <2> QED BY <2>2, <2>5, <2>6
<1>3. CASE \E c \in TagCalls : \/ TagRequest(c)
                               \/ TagStep(c) /\ UNCHANGED <<folderVars, fileVars, left>>
  <2>1. PICK c \in TagCalls : \/ TagRequest(c)
                              \/ TagStep(c) /\ UNCHANGED <<folderVars, fileVars, left>>
    BY <1>3
  <2>2. TagInv'  BY <2>1, TagRequestKeeps, TagStepKeeps
  <2>3. UNCHANGED folderVars /\ UNCHANGED fileVars  BY <2>1 DEF TagRequest
  <2>4. fileTag' = fileTag
    BY <2>1 DEF TagRequest, TagCallBegins, TagStep, TagFound, TagParentFound, TagClimbs,
                AssertNameFree, TagWritten
  <2>5. FolderInv'  BY <2>3, FoldersStay
  <2>6. FileInv'  BY <2>3, <2>4, FilesStay
  <2> QED BY <2>2, <2>5, <2>6
<1>4. CASE \E c \in FileCalls : FileRequest(c)
  <2>1. PICK c \in FileCalls : FileRequest(c)  BY <1>4
  <2>2. FileInv'  BY <2>1, FileRequestKeeps
  <2>3. UNCHANGED folderVars /\ UNCHANGED tagVars  BY <2>1 DEF FileRequest
  <2>4. UNCHANGED <<tag, fileTag, tagCall, tagsRaced>>  BY <2>3 DEF tagVars
  <2>5. TagInv'  BY <1>1, <2>4, TagsStay
  <2>6. FolderInv'  BY <2>3, FoldersStay
  <2> QED BY <2>2, <2>5, <2>6
<1>5. CASE \E c \in FileCalls : FileStep(c) /\ UNCHANGED <<folderVars, tag, tagCall, tagsRaced, left>>
  <2>1. PICK c \in FileCalls : FileStep(c) /\ UNCHANGED <<folderVars, tag, tagCall, tagsRaced, left>>
    BY <1>5
  <2>2. FileInv'  BY <2>1, FileStepKeeps
  <2>3. FolderInv'  BY <2>1, FoldersStay
  <2>4. TagInv'  BY <2>1, FileTagsAreThere, TagsStay
  <2> QED BY <2>2, <2>3, <2>4
<1>6. CASE UNCHANGED vars
  <2>1. UNCHANGED <<folderVars, tagVars, fileVars>>  BY <1>6 DEF vars
  <2>2. UNCHANGED <<tag, fileTag, tagCall, tagsRaced>>  BY <2>1 DEF tagVars
  <2> QED BY <1>1, <2>1, <2>2, FoldersStay, TagsStay, FilesStay
<1> QED BY <1>2, <1>3, <1>4, <1>5, <1>6 DEF Next

LEMMA Always == Spec => []IInv
BY Begins, Goes, PTL DEF Spec

\* Rows, calls and histories are of their types.
TypeOK == FolderTypes /\ TagTypes /\ FileTypes

\* Rows, calls and histories are of their types in every state.
THEOREM Typed == Spec => []TypeOK
<1>1. IInv => TypeOK  BY DEF IInv, FolderInv, TagInv, FileInv, TypeOK
<1> QED BY <1>1, Always, PTL

\* A merge of duplicates loses nothing: the kept file has the tags of the copies it trashed, and
\* some copy of the content stays unless a user trashes it or two merges overlap.
THEOREM NothingLost == Spec => []MergesLoseNothing
<1>1. IInv => MergesLoseNothing  BY DEF IInv, FileInv
<1> QED BY <1>1, Always, PTL

\* Every folder hangs in the tree, and no folder in use hangs below one in the trash, unless
\* calls on folders have overlapped.
THEOREM FoldersStayKept == Spec => []FoldersKept
<1>1. IInv => FoldersKept  BY FoldersKeptFollows DEF IInv
<1> QED BY <1>1, Always, PTL

\* Every tag hangs in the tree and siblings differ in name, unless calls on tags have overlapped.
THEOREM TagsStayKept == Spec => []TagsKept
<1>1. IInv => TagsKept  BY TagsKeptFollows DEF IInv
<1> QED BY <1>1, Always, PTL

\* Climbing to the root and searching downwards agree, and nothing refers to a tag that is gone.
THEOREM PathsAlwaysAgree == Spec => []PathsAgree
<1>1. IInv => PathsAgree  BY TagsKeptFollows DEF IInv
<1> QED BY <1>1, Always, PTL
==============================================================================
