\* Openings racing for quotas, and an open session, while an administrator changes the rules.
SPECIFICATION Spec
CONSTANTS
    Users = {u1, u2}
    Devices = {d1}
    Restrictions = {r1, r2}
    Views = {v1, v2}
    Requests = {q1}
    Null = Null
    MaxQuota = 2
    MaxChanges = 3
SYMMETRY Symmetric
CONSTRAINT Explored
INVARIANTS
    TypeOK
    ChargedExactlyOnce
    QuotaNeverOverrun
    SessionOnlyWhenAllowed
    RevocationTakesEffect
PROPERTIES
    QuotaSpec
CHECK_DEADLOCK FALSE
