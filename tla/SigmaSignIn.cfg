CONSTANTS
    c1 = c1
    c2 = c2
    s1 = s1
    s2 = s2
    u1 = u1
    u2 = u2
    u3 = u3
    e1 = e1
    e2 = e2
    r1 = r1
    r2 = r2
    r3 = r3
    Call <- MCCall
    Subject <- MCSubject
    User <- MCUser
    Email <- MCEmail
    InitUser <- MCInitUser
    OtherProvider <- MCOtherProvider
    RowId <- MCRowId
    InitRow <- MCInitRow
    NoRow = NoRow
    NoUser = NoUser
    NoEmail = NoEmail
    MaxAttempts = 2
    UserIndex = TRUE
SPECIFICATION SignInSpec
INVARIANT SignInTypeOK
INVARIANT SameEmailSameUser
INVARIANT SessionIsLinked
INVARIANT NewUserOnce
PROPERTY ImplementsSignIn
PROPERTY EverySignInEnds
CHECK_DEADLOCK FALSE
