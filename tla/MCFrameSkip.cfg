CONSTANTS
    Factor = {40}
    Times <- MCTimes
    FastestLimit = 2
    MeasureLimits = {0, 2}
SPECIFICATION FairSpec
INVARIANTS
    GapBounded
    WaitCoversGap
    VsyncIsCurrent
PROPERTIES
    CountsEnd
