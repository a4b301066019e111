SPECIFICATION Spec
CONSTANTS
    mum = mum
    kit = kit
    k1 = k1
    k2 = k2
    l1 = l1
    l2 = l2
    l3 = l3
    s1 = s1
    None = None
    Parents = {mum}
    Kids = {k1, k2}
    Profiles = {kit}
    Links = {l1, l2, l3, l4}
    Forms = {x1}
    Sessions = {s1, s2}
    ParentOf <- MCParentOf
    ProfileOf <- MCProfileOf
    HolderOf <- MCHolderOf
    UserOf <- MCUserOf
INVARIANTS
    OneOutstanding
    ErasedHasNoLink
    PasswordUsedALink
    RemovedHasNoSignIn
PROPERTIES
    LosingStatusEndsSessions
    SpentForGood
SYMMETRY Symmetry
CHECK_DEADLOCK FALSE
