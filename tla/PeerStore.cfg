CONSTANTS
    n1 = n1
    a1 = a1
    None = None
    Nodes = {n1}
    Addresses = {a1, a2}
    Tasks = {t1, t2}
    Announced <- AnnouncedOne
    MaxChannels = 1
    MayFail = TRUE
    MayAbort = TRUE
SPECIFICATION Spec
 
INVARIANT RgsLeavesExcludedAlone
