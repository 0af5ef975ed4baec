SPECIFICATION FairSpec
CONSTANTS
    None = None
    Ops = {o1, o2, o3}
    Keys = {k1}
INVARIANTS
    NewestIssuedWins
PROPERTIES
    EveryCallEnds
