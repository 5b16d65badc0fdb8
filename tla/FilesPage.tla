------------------------------ MODULE FilesPage ------------------------------
(***************************************************************************)
(* The files page with the image editor over it: both act on one archive,  *)
(* and a version that was saved makes the page read its list again.        *)
(***************************************************************************)
EXTENDS ImageEditor

CONSTANT Scenarios   \* who looks, the archive at the start, and how often the user acts

\* The versions of a start are rows the program has written.
ASSUME ScenarioAssumption ==
    \A s \in Scenarios :
        /\ s.edited \in Seq([of : Files, recipe : Seq(Operations), result : Files,
                            copyOf : Versions \cup {None}])
        /\ DOMAIN s.edited \subseteq Versions
        /\ \A v \in DOMAIN s.edited :
              LET row == s.edited[v]
              IN  /\ Len(row.recipe) <= MaxRecipe => Kept(row.recipe) = row.recipe
                  /\ row.copyOf # None =>
                        /\ row.copyOf \in DOMAIN s.edited
                        /\ LET original == s.edited[row.copyOf].recipe
                           IN  Len(original) <= MaxRecipe => row.recipe = original

screensVars == <<pageVars, editorVars>>

ScreensInit ==
    \E s \in Scenarios : /\ PageInit(s.user, s.rows, s.kept, s.landing, s.budget)
                         /\ EditorInit(s.edited)

\* The editor covers the page; what the page waits for goes on.
ScreensNext == \/ ~Open /\ PageUsed /\ UNCHANGED editorVars
               \/ PageAnswered /\ UNCHANGED editorVars
               \/ EditorStep

ScreensSpec == ScreensInit /\ [][ScreensNext]_screensVars
=============================================================================
