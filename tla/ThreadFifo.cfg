CONSTANTS
    MaxCalls = 1
    MaxDepth = 4
    MaxWide = 1
    MaxShares = 2
    Processors = 1
    Workers = {w1, w2, w3, w4}
    Main = main
SPECIFICATION FairSpec
INVARIANTS
    SomebodyWorks
    GroupOutlivesWorks
PROPERTIES
    Implements
    CallsReturn
    WorkersEnd
