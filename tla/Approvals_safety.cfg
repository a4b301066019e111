SPECIFICATION FairSpec
CONSTANTS
    mum = mum
    kid = kid
    coachy = coachy
    l1 = l1
    l2 = l2
    None = None
    Requests = {r1, r2}
    Profiles = {kid}
    Parents = {mum}
    Trainers = {coachy}
    Links = {l1, l2}
    ParentOf <- MCParentOf
    OwnerOf <- MCOwnerOf
    TTL = 2
INVARIANTS
    TypeOK
    OneLivePerSubject
    DeadlineDecides
    ErasedFamilyHasNothingOpen
    OneCurrentLink
PROPERTIES
    LegalTransitions
    ApprovalCarriesOut
    OnlyTheParentConnects
    ClockNeverRestarts
    ImplementsDecisions
    EveryRequestSettles
CHECK_DEADLOCK FALSE
