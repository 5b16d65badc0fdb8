----------------------------- MODULE MCDiskImport -----------------------------
(* Instances of DiskImport for TLC. *)
EXTENDS DiskImport, TLC

CONSTANTS i1, i2, a

\* Two files with the same content.
PairContents == i1 :> a @@ i2 :> a

\* The two files are alike and no property tells the jobs apart.
Alike == Permutations(Items) \cup Permutations(Jobs)
=============================================================================
