SPECIFICATION FairSpec
CONSTANTS
    loop = loop
    api = api
    acct0 = acct0
    acct1 = acct1
    tx1 = tx1
    Pending = Pending
    Failed = Failed
    Tasks = {loop, api}
    Loop = {loop}
    AllAccounts = {acct0, acct1}
    Primary = acct0
    Txs = {tx1}
    Blocks = {"b1", "b2"}
    Plans <- ThreePlans
INVARIANTS
    OkIsComplete
    
PROPERTIES
    CallsReturn
\* Without ticks and calls nothing syncs.
CHECK_DEADLOCK FALSE
