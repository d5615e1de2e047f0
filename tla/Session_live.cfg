CONSTANTS
    Addr = {1, 2}
    Worker = {w1, w2}
    None = None
    UserLimit = 2
    LoggedLimit = 1
    LoginLimit = 1
    Resend = FALSE
    Outcome <- NoPartial
    MaxUid = 2
    MaxTask = 2
SPECIFICATION FairSpec
PROPERTIES FailedConnectionFreed ConfirmedPlayerEnters
