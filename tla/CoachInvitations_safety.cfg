SPECIFICATION Spec
CONSTANTS
    post = post
    t1 = t1
    t2 = t2
    i1 = i1
    i2 = i2
    i3 = i3
    None = None
    Invitations = {i1, i2, i3}
    Trainers = {t1, t2}
    Accounts = {ann, bea}
    Coaches = {ann, bea}
    Addresses = {post}
    InviterOf <- MCInviterOf
    InvitedOf <- MCInvitedOf
    AddressOf <- MCAddressOf
    TTL = 1
INVARIANTS
    TypeOK
    RosterIsBacked
    OneAccountPerAddress
PROPERTIES
    JoinSpendsOneInvitation
    ImplementsRosters
SYMMETRY Symmetry
CHECK_DEADLOCK FALSE
