\* Overlapping calls on folders, on tags and on files, and a few of each together.
SPECIFICATION Spec
CONSTANTS
    f1 = f1
    f2 = f2
    f3 = f3
    t1 = t1
    t2 = t2
    n1 = n1
    n2 = n2
    x1 = x1
    x2 = x2
    x3 = x3
    Folders = {f1, f2, f3, f4}
    FolderCalls = {c1, c2}
    Tags = {t1, t2, t3}
    Names = {n1, n2}
    TagCalls = {c1, c2}
    Files = {x1, x2, x3, x4}
    HashOf <- SameContent
    FileCalls = {c1, c2}
    Null = Null
    Instances <- Some
SYMMETRY Symmetric
INVARIANTS
    FoldersKept
    TagsKept
    PathsAgree
    MergesLoseNothing
CHECK_DEADLOCK FALSE
