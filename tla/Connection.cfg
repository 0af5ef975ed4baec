SPECIFICATION FairSpec
CONSTANTS
    Calls = {c1, c2, c3}
    Nodes = {n1, n2}
    Cancellable = {c1}
    None = None
PROPERTIES
    SharesAttempts
    AnsweredUnlessAborted
