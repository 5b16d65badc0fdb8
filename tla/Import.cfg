\* A disk with a pair of duplicates is scanned and imported twice, with a crash, an upload
\* and a trash move.
SPECIFICATION Spec
CONSTANTS
    i1 = i1
    i2 = i2
    a = a
    Items = {i1, i2}
    Contents = {a, b}
    ContentOf <- PairContents
    Jobs = {j1, j2}
    Pages = {p1}
    Uploads = {u1}
    Null = Null
    BatchSize = 1
    MaxCrashes = 1
    MaxChanges = 1
SYMMETRY Alike
INVARIANTS
    OneImportedCopy
    MappedToOwnContent
    CompletedDealtWithAll
    CountersAgree
CHECK_DEADLOCK FALSE
