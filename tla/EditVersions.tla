----------------------------- MODULE EditVersions -----------------------------
(***************************************************************************)
(* MediaService.saveVersion on one source image: the recipe is applied to  *)
(* the source, the outcome is stored as a derived File, and a numbered     *)
(* version of the image's edit project records it.  The source itself is   *)
(* only read.  Every await is a step of its own, so calls interleave.      *)
(*                                                                         *)
(* The module has no specification: RenderQueue runs these calls for its   *)
(* jobs and for the editors who save without the queue.                    *)
(***************************************************************************)
EXTENDS Naturals, Sequences, FiniteSets, FiniteSetsExt

CONSTANTS Saves,  \* slots for calls of saveVersion
          Null    \* SQL NULL

VARIABLES projects,  \* number of MediaEdit rows of the image, 1 the oldest
          versions,  \* MediaEditVersion rows in the order of their insertion
          derived,   \* number of derived File rows
          save       \* the calls

editVars == <<projects, versions, derived, save>>

Saving == {"check", "project", "create", "number", "derive", "version", "audit"}

NoSave == [pc |-> "idle", project |-> 0, no |-> 0, file |-> 0]

EditInit == /\ projects = 0
            /\ versions = <<>>
            /\ derived = 0
            /\ save = [s \in Saves |-> NoSave]

VersionsOf(p) == {i \in DOMAIN versions : versions[i].project = p}

NumbersOf(p) == {versions[i].no : i \in VersionsOf(p)}

\* Faulty: numbers by counting from the versions of all projects.
NextNumberOverall(p) == Len(versions) + 1

\* aggregate _max, plus one.
NextNumber(p) == Max(NumbersOf(p) \cup {0}) + 1

SaveBegins(s) == /\ save[s].pc = "idle"
                 /\ save' = [save EXCEPT ![s].pc = "check"]
                 /\ UNCHANGED <<projects, versions, derived>>

\* The image is there, may be seen and is not sensitive, and the recipe says something.
SavePassesChecks(s) == /\ save[s].pc = "check"
                       /\ save' = [save EXCEPT ![s].pc = "project"]
                       /\ UNCHANGED <<projects, versions, derived>>

\* findFirst, the oldest project.
SaveFindsProject(s) ==
    /\ save[s].pc = "project"
    /\ save' = IF projects > 0
               THEN [save EXCEPT ![s].pc = "number", ![s].project = 1]
               ELSE [save EXCEPT ![s].pc = "create"]
    /\ UNCHANGED <<projects, versions, derived>>

SaveCreatesProject(s) ==
    /\ save[s].pc = "create"
    /\ projects' = projects + 1
    /\ save' = [save EXCEPT ![s].pc = "number", ![s].project = projects + 1]
    /\ UNCHANGED <<versions, derived>>

SaveNumbers(s) ==
    /\ save[s].pc = "number"
    /\ save' = [save EXCEPT ![s].pc = "derive", ![s].no = NextNumber(save[s].project)]
    /\ UNCHANGED <<projects, versions, derived>>

\* applyRecipe and createDerived.
SaveDerives(s) ==
    /\ save[s].pc = "derive"
    /\ derived' = derived + 1
    /\ save' = [save EXCEPT ![s].pc = "version", ![s].file = derived + 1]
    /\ UNCHANGED <<projects, versions>>

\* job is the queued job the call works for, Null for an editor's own call.
SaveInserts(s, job) ==
    /\ save[s].pc = "version"
    /\ versions' = Append(versions, [project |-> save[s].project, no |-> save[s].no,
                                     file |-> save[s].file, job |-> job])
    /\ save' = [save EXCEPT ![s].pc = "audit"]
    /\ UNCHANGED <<projects, derived>>

SaveAudits(s) == /\ save[s].pc = "audit"
                 /\ save' = [save EXCEPT ![s] = [NoSave EXCEPT !.pc = "saved",
                                                              !.file = save[s].file]]
                 /\ UNCHANGED <<projects, versions, derived>>

\* A check refuses, the image tool fails, or a statement does: what is done stays done.
SaveFails(s) == /\ save[s].pc \in Saving
                /\ save' = [save EXCEPT ![s] = [NoSave EXCEPT !.pc = "failed"]]
                /\ UNCHANGED <<projects, versions, derived>>

SaveStep(s, job) ==
    \/ SavePassesChecks(s) \/ SaveFindsProject(s) \/ SaveCreatesProject(s)
    \/ SaveNumbers(s) \/ SaveDerives(s) \/ SaveInserts(s, job) \/ SaveAudits(s)

-----------------------------------------------------------------------------

\* The versions of a project are numbered 1, 2, ... without a gap, however many calls
\* number theirs at the same time and however many fail before they insert it.
NumbersWithoutGap == \A p \in 1..projects : NumbersOf(p) = 1..Cardinality(NumbersOf(p))
=============================================================================
