CONSTANTS
    c1 = c1
    c2 = c2
    x1 = x1
    k1 = k1
    k2 = k2
    u1 = u1
    u2 = u2
    a = a
    b = b
    Call <- MCCall
    Exchange <- MCExchange
    Key <- MCKey
    User <- MCUser
    BapId <- MCBapId
    NoKey = NoKey
    NoUser = NoUser
    NoBap = NoBap
    NoRow = NoRow
SPECIFICATION TokensSpec
SYMMETRY Interchangeable
INVARIANT TokensTypeOK
INVARIANT ShowsOwnIdentity
INVARIANT IssuedIsAnswered
INVARIANT SameKeySameUser
INVARIANT SoleOwner
INVARIANT RaceFailsNobody
CHECK_DEADLOCK FALSE
