CONSTANTS
    c1 = c1
    c2 = c2
    w1 = w1
    a = a
    b = b
    Call <- MCCall
    Signer <- MCSigner
    Bap <- MCBap
    NoBap = NoBap
    NoCall = NoCall
    MaxInbox = 2
SPECIFICATION SignerSpec
INVARIANT SignerTypeOK
INVARIANT NoStaleIdentity
INVARIANT NoneWaitsOnDestroyed
PROPERTY RequestSettles
PROPERTY LastInitSettles
CHECK_DEADLOCK FALSE
