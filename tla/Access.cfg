\* Calls of assertCanView while rules, devices and users change: many scopes in many archives
\* under one change, and every condition of a rule under three.
SPECIFICATION Spec
CONSTANTS
    u1 = u1
    u2 = u2
    d1 = d1
    Users = {u1, u2}
    Devices = {d1}
    Rules = {r1, r2}
    Checks = {c1}
    Null = Null
    Cases <- Both
SYMMETRY Symmetric
INVARIANTS
    AllowedOnlyForAReason
    RefusedOnlyForAReason
    ListAgreesWithCheck
CHECK_DEADLOCK FALSE
