SPECIFICATION Spec
CONSTANTS
    ada = ada
    bob = bob
    s1 = s1
    s2 = s2
    s3 = s3
    None = None
    Admins = {ada, bob}
    Targets = {pat}
    Sessions = {s1, s3}
    Records = {r1, r2}
    Requests = {q1, q2}
    OwnerOf <- MCOwnerOf
    MAX = 1
INVARIANTS
    EachRidesItsOwn
    TargetStanding
    OneAdminStays
PROPERTIES
    DeactivationEndsIt
SYMMETRY Symmetry
CHECK_DEADLOCK FALSE
