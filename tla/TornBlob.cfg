\* The server dies while it copies a file, and the disk is scanned and imported once more.
SPECIFICATION Spec
CONSTANTS
    i1 = i1
    i2 = i2
    a = a
    Items = {i1, i2}
    Contents = {a, b}
    ContentOf <- PairContents
    Jobs = {j1, j2}
    Pages = {p1}
    Uploads = {}
    Null = Null
    BatchSize = 1
    MaxCrashes = 1
    MaxChanges = 0
SYMMETRY Alike
INVARIANT
    RowsHaveTheirContent
CHECK_DEADLOCK FALSE
