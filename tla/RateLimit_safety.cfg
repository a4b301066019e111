SPECIFICATION FairSpec
CONSTANTS
    email = email
    client1 = client1
    client2 = client2
    signin1 = signin1
    signin2 = signin2
    None = None
    Keys = {email, client1, client2}
    Attempts = {signin1, signin2}
    KeysOf <- MCKeysOf
    Slots = {s1, s2}
    Max = 2
    Window = 1
    Retention = 2
    MaxRows = 4
INVARIANT
    ThrottleBound
PROPERTIES
    OnlyTimeLifts
    EveryoneIsLetInAgain
