----------------------------- MODULE MCFilesPage -----------------------------
EXTENDS FilesPage, TLC

CONSTANTS c1, c2   \* collections

MCKind == 1 :> "image" @@ 2 :> "heavy" @@ 3 :> "image" @@ 4 :> "image" @@ 5 :> "other"

MCMeets == 1 :> {"q", "untagged"} @@ 2 :> {"q", "tagIds"} @@ 3 :> {"untagged"} @@ 4 :> {"tagIds"} @@ 5 :> {}

MCNameRank == 1 :> 2 @@ 2 :> 1 @@ 3 :> 4 @@ 4 :> 3 @@ 5 :> 5

MCStrokes == {Op("crop", "half"), Op("rotate", "90"), Op("redact", "a"), Op("text", "b")}

Member == [id |-> "me", isOwner |-> FALSE,
           granted |-> {"files.view", "files.upload", "files.delete", "media.edit"}]
Owner  == [id |-> "owner", isOwner |-> TRUE, granted |-> {}]
Viewer == [id |-> "me", isOwner |-> FALSE, granted |-> {"files.view"}]

Theirs == c1 :> [live |-> TRUE, where |-> {"q", "tagIds"}, sort |-> "name", order |-> "asc", by |-> "someone"]

Edited == 1 :> [of |-> 1, recipe |-> <<Op("text", "b"), Op("watermark", "note"), Strip>>,
                result |-> 3, copyOf |-> None]

Scenario(who, rows, kept, landing, edited, acts) ==
    [user |-> who, rows |-> rows, kept |-> kept, landing |-> landing, edited |-> edited,
     budget |-> [k \in {"search", "change", "collection", "pane", "editor", "draw", "save", "queue",
                       "copy", "look"} |-> IF k \in DOMAIN acts THEN acts[k] ELSE 0]]

Page(who, rows, kept, landing, acts) == Scenario(who, rows, kept, landing, <<>>, acts)
Editor(edited, acts) ==
    Scenario(Member, IF edited = <<>> THEN {1} ELSE {1, 3}, <<>>, {}, edited, "editor" :> 1 @@ acts)

\* Searches; changes beside them; collections; the pane; the editor.
MCScenarios ==
    {Page(Viewer, {1, 2, 3}, <<>>, {}, "search" :> 3),
     Page(Member, {1, 2, 3, 4}, <<>>, {}, "search" :> 1 @@ "change" :> 2),
     Page(Member, {1, 2}, Theirs, {}, "search" :> 1 @@ "collection" :> 2),
     Page(Owner, {1, 2}, Theirs, {"untagged"}, "search" :> 1 @@ "collection" :> 1),
     Page(Member, {1, 2}, <<>>, {}, "pane" :> 3),
     Page(Member, {1, 2}, <<>>, {}, "pane" :> 2 @@ "change" :> 1),
     Page(Member, {1, 5}, <<>>, {}, "pane" :> 2),
     Page(Member, {1}, <<>>, {"q"}, "editor" :> 2 @@ "save" :> 1),
     Editor(<<>>, "draw" :> 3),
     Editor(<<>>, "draw" :> 1 @@ "save" :> 1 @@ "look" :> 1),
     Editor(<<>>, "draw" :> 1 @@ "queue" :> 1 @@ "look" :> 1),
     Editor(<<>>, "draw" :> 1 @@ "save" :> 1 @@ "copy" :> 1),
     Editor(Edited, "save" :> 1 @@ "copy" :> 1),
     Editor(Edited, "draw" :> 2 @@ "copy" :> 1),
     Editor(Edited, "draw" :> 1 @@ "look" :> 2)}
=============================================================================
