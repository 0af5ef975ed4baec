SPECIFICATION FairSpec
CONSTANTS
    Accounts = {a0, a1}
    Configured = {a0}
    Txs = {x1, x2}
    Loop = loop
    Callers = {api}
    Nobody = Nobody
    ANTI_REORG_DELAY = 2
    MAX_ACCOUNT_SET_CHANGE_RETRIES = 1
    MaxBlocks = 2
    MaxTime = 2
    MaxPolls = 1
    MaxMoves = 3
    MaxFaults = 1
INVARIANTS
    NoBlockSkipped
PROPERTIES
    OkIsCurrent
    
CHECK_DEADLOCK FALSE
