CONSTANTS
    m1 = m1
    m2 = m2
    m3 = m3
    c1 = c1
    c2 = c2
    c3 = c3
    b1 = b1
    b2 = b2
    None = None
    Attempt <- MCAttempt
    Call <- MCCall
    BapId <- MCBapId
SPECIFICATION OAuthSpec
SYMMETRY Interchangeable
INVARIANT OAuthTypeOK
INVARIANT OneExchangePerAttempt
INVARIANT OwnVerifier
INVARIANT ReturnLeavesNothing
CHECK_DEADLOCK FALSE
