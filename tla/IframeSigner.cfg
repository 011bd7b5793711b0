CONSTANTS
    c1 = c1
    c2 = c2
    sign = sign
    encrypt = encrypt
    a = a
    b = b
    Call <- MCCall
    Kind <- MCKind
    Bap <- MCBap
    NoBap = NoBap
    MaxInbox = 2
SPECIFICATION IframeSpec
INVARIANT IframeTypeOK
INVARIANT SignedAsPosted
INVARIANT NoneWaitsWithoutIframe
PROPERTY EveryRequestSettles
CHECK_DEADLOCK FALSE
