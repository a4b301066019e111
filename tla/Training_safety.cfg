SPECIFICATION Spec
CONSTANTS
    u = u
    k = k
    me = me
    child = child
    None = None
    Parents = {u}
    Kids = {k}
    Profiles = {me, child}
    Selves = {me}
    Trainers = {t1, t2}
    ParentOf <- MCParentOf
    ProfileOf <- MCProfileOf
INVARIANTS
    ChildLooksAtItself
    ContextWasJoined
PROPERTIES
    JoinsAnActiveTrainer
    ImplementsContexts
SYMMETRY Symmetry
CHECK_DEADLOCK FALSE
