CONSTANTS
    MaxCalls = 2
    MaxWide = 1
    MaxDepth = 1
    MaxShares = 2
SPECIFICATION FairSpec
PROPERTIES
    Implements
    NobodyHangs
