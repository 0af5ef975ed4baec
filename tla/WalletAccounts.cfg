CONSTANTS
    Types = {t1, t2}
    Derived = {d1}
    NoAccount = NoAccount
    MaxMoves = 2
    MaxAddresses = 1
    MaxFaults = 2
SPECIFICATION FairSpec
INVARIANTS
    
    AddressesWatched

    
