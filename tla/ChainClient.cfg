SPECIFICATION FairSpec
CONSTANTS
    t1 = t1
    t2 = t2
    Packages <- TwoPackages
    UserTxs = {t3}
    Locked = {t3}
    Outputs = {o1, o2}
    Estimates <- TwoEstimates
    QueueSize = 1
    Scenarios <- SomeScenarios
    NoTx = NoTx

    
PROPERTIES
    AnswersTrue
    HealthyKept
    OkIsTold
    PackagesSubmitted
CHECK_DEADLOCK FALSE
