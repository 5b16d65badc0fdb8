\* A grant of a file by its id, in the lists and in the check.
SPECIFICATION Spec
CONSTANTS
    u1 = u1
    u2 = u2
    d1 = d1
    Users = {u1, u2}
    Devices = {d1}
    Rules = {r1, r2}
    Checks = {c1}
    Null = Null
    Cases <- OfFiles
SYMMETRY Symmetric
INVARIANT ListAgreesWithCheck
CHECK_DEADLOCK FALSE
