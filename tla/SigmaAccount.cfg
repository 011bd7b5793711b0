CONSTANTS
    c1 = c1
    c2 = c2
    c3 = c3
    s1 = s1
    u1 = u1
    u2 = u2
    r1 = r1
    r2 = r2
    r3 = r3
    r4 = r4
    r5 = r5
    Call <- MCCallPair
    Subject <- MCSubject
    User <- MCUser
    OtherProvider <- MCOtherProvider
    RowId <- MCRowIdPair
    InitRow <- MCInitRow
    NoRow = NoRow
    NoUser = NoUser
    MaxAttempts = 2
    UserIndex = FALSE
SPECIFICATION Spec
INVARIANT UpsertInv
INVARIANT ConflictIsEarned
INVARIANT WrongReportIsOvertaken
PROPERTY ForeignRowsKept
PROPERTY ImplementsLink
PROPERTY EveryCallSettles
CHECK_DEADLOCK FALSE
