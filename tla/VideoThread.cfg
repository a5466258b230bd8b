CONSTANTS
    MaxFrame = 3
    MaxUpdate = 3
    MayFail = TRUE
SPECIFICATION Spec
INVARIANTS
    TypeOK
    SharedDataExclusive
    NoLostWakeup
    FrameWhole
    ModeIsSet
    AllHeardAtExit
PROPERTIES
    SoundHasNoGap
    ImplementsService
    ThreadEnds
