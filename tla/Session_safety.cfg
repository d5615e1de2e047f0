CONSTANTS
    Addr = {1, 2}
    Worker = {w1, w2}
    None = None
    UserLimit = 1
    LoggedLimit = 1
    LoginLimit = 2
    Resend = TRUE
    Outcome <- AllOutcomes
    MaxUid = 2
    MaxTask = 2
SPECIFICATION Spec
INVARIANTS NoDoubleDelete ConnectionListens LimitRespected 
