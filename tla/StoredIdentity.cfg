CONSTANTS
    t1 = t1
    t2 = t2
    s1 = s1
    s2 = s2
    x1 = x1
    Tab <- MCTab
    SignIn <- MCSignIn
    Choice <- MCChoice
    None = None
    Unasked = Unasked
SPECIFICATION StoredSpec
SYMMETRY Interchangeable
INVARIANT StoredTypeOK
INVARIANT SeenToEndIsGone
INVARIANT LiveSessionKeepsIdentity
PROPERTY ClearedForGood
CHECK_DEADLOCK FALSE
