---------------------------- MODULE MCArchiveTrees ----------------------------
(* Instances of ArchiveTrees for TLC. *)
EXTENDS ArchiveTrees, TLC

CONSTANTS f1, f2, f3, t1, t2, n1, n2, x1, x2, x3

\* Calls are interchangeable, and so are the folders there are at first.
Symmetric == Permutations(FolderCalls) \cup Permutations({f1, f2, f3})

SameContent == [f \in Files |-> "h"]

NoRows == [forests |-> {<<>>}, tagRows |-> {<<>>}, fileTags |-> {}, uploaded |-> {},
           folders |-> 0, tags |-> 0, files |-> 0]

Row(parent, name) == [exists |-> TRUE, parent |-> parent, name |-> name]

\* Every forest of three folders; two tags side by side or one below the other; copies of one
\* content, with tags, in a folder or none.
Some == {[NoRows EXCEPT !.forests = Forests({f1, f2, f3}), !.folders = 4],
         [NoRows EXCEPT !.tagRows = {t1 :> Row(Null, n1) @@ t2 :> Row(p, n2) : p \in {Null, t1}}, !.tags = 3],
         [NoRows EXCEPT !.tagRows = {t1 :> Row(Null, n1) @@ t2 :> Row(Null, n2)},
                        !.fileTags = {<<x1, t1>>, <<x2, t2>>}, !.uploaded = {x1, x2, x3}, !.files = 3],
         [NoRows EXCEPT !.forests = {f :> Null : f \in {f1, f2, f3}}, !.tagRows = {t1 :> Row(Null, n1)},
                        !.uploaded = {x1}, !.folders = 1, !.tags = 1, !.files = 1]}
=============================================================================
