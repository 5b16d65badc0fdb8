\* Two views of two sessions while templates change, the file moves and the server dies.
SPECIFICATION FairSpec
CONSTANTS
    Views = {v1, v2}
    s1 = s1
    s2 = s2
    v1 = v1
    c1 = c1
    Instances <- Some
    Sessions = {s1, s2}
    Templates = {t1}
    Admins = {c1, c2}
    Null = Null
    GuestMark = GuestMark
INVARIANTS
    OneProduction
    ServedAsRuled
PROPERTIES
    EveryViewEnds
CHECK_DEADLOCK FALSE
