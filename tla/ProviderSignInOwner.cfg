CONSTANTS
    c1 = c1
    c2 = c2
    k1 = k1
    k2 = k2
    u1 = u1
    u2 = u2
    u3 = u3
    a = a
    b = b
    Call <- MCCall
    Key <- MCKey
    User <- MCUser
    BapId <- MCBapId
    NoKey = NoKey
    NoUser = NoUser
    NoBap = NoBap
SPECIFICATION ProviderSpec
SYMMETRY Interchangeable
INVARIANT EnsuredIsOwned
CHECK_DEADLOCK FALSE
