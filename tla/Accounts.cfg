\* Changes of role, first registrations, passwords, one-time codes and Readers, each raced by
\* themselves.
SPECIFICATION Spec
CONSTANTS
    a = a
    b = b
    c = c
    Users = {a, b, c}
    Calls = {c1, c2}
    Device = Device
    Null = Null
    OTP_MAX_ATTEMPTS = 2
    Cases <- AllCases
SYMMETRY Symmetric
INVARIANTS
    NothingForbiddenPasses
    OwnersRemain
    CodesAreOneTime
CHECK_DEADLOCK FALSE
