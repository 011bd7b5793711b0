CONSTANTS
    c1 = c1
    c2 = c2
    w1 = w1
    w2 = w2
    a = a
    b = b
    Call <- MCCall
    Signer <- MCSigner
    Bap <- MCOneBap
    NoBap = NoBap
    NoCall = NoCall
    NoSigner = NoSigner
    MaxInbox = 1
SPECIFICATION ClientSpec
INVARIANT ClientTypeOK
INVARIANT OneLiveSigner
INVARIANT LogoutIsFinal
INVARIANT NullOnlyAfterLogout
PROPERTY HangsOnlyAbandoned
CHECK_DEADLOCK FALSE
