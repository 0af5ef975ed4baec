CONSTANTS
    MaxStarts = 2
    MaxInbound = 1
    MayFailSetup = TRUE
    NONE = NONE
SPECIFICATION FairSpec
INVARIANT OneGenerationUnlessBotched
INVARIANT FailureIsNoticed
PROPERTY CallsReturn
