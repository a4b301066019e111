SPECIFICATION Spec
CONSTANTS
    u = u
    k = k
    c = c
    t = t
    p = p
    None = None
    Parents = {u}
    Kids = {k}
    Coaches = {c}
    Trainers = {t}
    Profiles = {p}
    ParentOf <- MCParentOf
    SignInOf <- MCSignInOf
    Requests = {q1, q2}
    Keys = {n1, n2}
    Weeks <- MCWeeks
    Step = 2
    DayEnd = 8
    MaxPerDay = 2
INVARIANT
    ErasedHoldsNothing
SYMMETRY Symmetry
CHECK_DEADLOCK FALSE
