CONSTANTS
    c1 = c1
    c2 = c2
    w1 = w1
    w2 = w2
    a = a
    b = b
    Call <- MCCall
    Signer <- MCSigner
    Bap <- MCBap
    NoBap = NoBap
    NoCall = NoCall
    NoSigner = NoSigner
    MaxInbox = 1
SPECIFICATION ClientSpec
INVARIANT SignedAsAsked
CHECK_DEADLOCK FALSE
