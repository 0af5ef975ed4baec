SPECIFICATION FairSpec
CONSTANTS
    Producers = {p1, p2}
    Consumers = {c1}
    MaxEvents = 2
    MaxCrashes = 1
    U16 = 8
    MayFail = TRUE
    MayCancel = TRUE
    None = None
INVARIANTS
    DurableUnlessOvertaken
PROPERTIES
    EveryEventDelivered
CHECK_DEADLOCK FALSE
