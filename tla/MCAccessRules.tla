----------------------------- MODULE MCAccessRules -----------------------------
(* Instances of AccessRules for TLC. *)
EXTENDS AccessRules, TLC

CONSTANTS u1, u2, d1

Symmetric == Permutations(Rules)

\* A folder within a folder within a folder, and what a race of two moves can leave behind;
\* tags of growing sensitivity.
Nested == [f1 |-> Null, f2 |-> "f1", f3 |-> "f2"]
Cyclic == [f1 |-> "f2", f2 |-> "f1", f3 |-> "f2"]
Tags   == [t1 |-> Null, t2 |-> "t1", t3 |-> "t2"]

Archive(folders, folder, tags, type) ==
    [folderParent |-> folders, tagParent |-> Tags,
     sensitivity |-> [t1 |-> "NONE", t2 |-> "LOW", t3 |-> "HIGH"],
     file |-> [id |-> "x", folder |-> folder, tags |-> tags, type |-> type]]

ScopeOf(folders, tags, files, below) ==
    [folders |-> folders, tags |-> tags, files |-> files, types |-> {}, sensitivities |-> {},
     subfolders |-> below, subtags |-> below]

Row(type, scope, users, device, window) ==
    [exists |-> TRUE, active |-> TRUE, type |-> type, scope |-> scope, users |-> users,
     device |-> device, window |-> window]

\* Every kind of scope in many archives: one rule.
Scopes == {[ScopeOf(f, t, {}, below) EXCEPT !.types = p.types, !.sensitivities = p.levels] :
              f \in {{}, {"f1"}, {"f2"}}, t \in {{}, {"t1"}}, below \in BOOLEAN,
              p \in [types : {{}, {"pdf"}}, levels : {{}, {"NONE", "LOW"}}]}

Wide == {[archive |-> Archive(folders, folder, tags, IF folders = Nested THEN "pdf" ELSE Null),
          changes |-> 1, scoped |-> {u1}, offers |-> {Row("grant", s, {u1}, Null, "none") : s \in Scopes}] :
            folders \in {Nested, Cyclic}, folder \in {Null, "f1", "f3"},
            tags \in {{}, {"t3"}, {"t1", "t2"}}}

\* Every condition on rules for one file, and one elsewhere: three changes.
Here == ScopeOf({"f1"}, {}, {}, TRUE)
File == ScopeOf({}, {}, {"x"}, TRUE)
Else == ScopeOf({"f1"}, {"t1"}, {}, FALSE)

Deep == {[archive |-> Archive(Nested, "f3", {"t2"}, "pdf"), changes |-> 3, scoped |-> {u1},
          offers |-> {Row("grant", Here, {u1}, d, w) : d \in {Null, d1}, w \in {"none", "open"}}
                     \cup {Row("grant", Else, {u1}, Null, "none"), Row("grant", Here, {}, Null, "none")}
                     \cup {Row("restrict", File, us, d, w) :
                              us \in {{}, {u2}}, d \in {Null, d1}, w \in {"none", "open"}}]}

Both == Wide \cup Deep

\* Grants of a file by its id.
OfFiles == {[archive |-> Archive(Nested, "f3", {"t2"}, "pdf"), changes |-> 2, scoped |-> {u1},
             offers |-> {Row("grant", s, {u1}, Null, "none") : s \in {Here, File}}]}
=============================================================================
