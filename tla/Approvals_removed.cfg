SPECIFICATION Spec
CONSTANTS
    mum = mum
    kid = kid
    coachy = coachy
    l1 = l1
    l2 = l2
    None = None
    Requests = {r1}
    Profiles = {kid}
    Parents = {mum}
    Trainers = {coachy}
    Links = {l1, l2}
    ParentOf <- MCParentOf
    OwnerOf <- MCOwnerOf
    TTL = 2
PROPERTIES
    RemovedProfileIsNotApproved
CHECK_DEADLOCK FALSE
