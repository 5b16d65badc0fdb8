\* Openings that race, and an opening with the requests of its session.
SPECIFICATION Spec
CONSTANTS
    Devices = {d1, d2, Null}
    Sessions = {s1, s2}
    Opens = {o1, o2}
    Requests = {q1}
    Null = Null
    Offers <- MCOffers
    MaxQuota = 1
    OTP_MAX_ATTEMPTS = 1
    MaxRestarts = 1
SYMMETRY Symmetric
CONSTRAINT Explored
INVARIANTS
    ViewsCountedOnce
    LetInOnlyWhenAllowed
    ServedOnlyWhenAllowed
PROPERTIES
    QuotaSpec
CHECK_DEADLOCK FALSE
