SPECIFICATION Spec
CONSTANTS
    post = post
    t1 = t1
    t2 = t2
    i1 = i1
    i2 = i2
    i3 = i3
    None = None
    Invitations = {i1, i2, i4}
    Trainers = {t1}
    Accounts = {ann}
    Coaches = {ann}
    Addresses = {post}
    InviterOf <- MCInviterOf
    InvitedOf <- MCInvitedOf
    AddressOf <- MCAddressOf
    TTL = 1
INVARIANTS
    OneLivePerAddress
CHECK_DEADLOCK FALSE
