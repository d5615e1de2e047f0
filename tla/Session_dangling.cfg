CONSTANTS
    Addr = {1}
    Worker = {w1}
    None = None
    UserLimit = 2
    LoggedLimit = 1
    LoginLimit = 2
    Resend = FALSE
    Outcome <- NoPartial
    MaxUid = 2
    MaxTask = 2
SPECIFICATION Spec
INVARIANT TaskUserAlive
