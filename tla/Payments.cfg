SPECIFICATION FairSpec
CONSTANTS
    Payments = {p1}
    Threads = {t1}
    MaxArrivals = 2
    MaxSends = 2
    MaxCrashes = 2
    MayFail = TRUE
    MaxPushes = 2
    None = None
INVARIANTS
    OutcomesTrue
    StatusFinallyRight
    
PROPERTIES
    ClaimedIsTold
\* A node without payments to make or to receive is quiet.
CHECK_DEADLOCK FALSE
