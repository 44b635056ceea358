SPECIFICATION Spec
CONSTANTS
    Requests = {r1, r2}
    Passwords = {p1, p2}
    NoPassword = NoPassword
    TotpIds = {t1}
    PasskeyIds = {k1}
    CodesPerSet = 1
    AllUsersEnforced = FALSE
    MaxVersion = 1
    MaxSessions = 2
    MaxRows = 2
    MaxFactorRows = 1
    MaxTimeStep = 1
SYMMETRY Symmetry
INVARIANTS
    TypeOK
    LastChosenPasswordStands
    LoginSessionsAreCurrent
    SecondFactorIsNotSkipped
    NothingIsSpentTwice
    NewestResetWorks
PROPERTIES
    LastFactorEndsEnrollment
    IdentityChangesCloseSessions
    EntersAsPromised
CHECK_DEADLOCK FALSE
