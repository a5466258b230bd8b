CONSTANTS
    auto = auto
    stretched = stretched
    other = other
    unsupported = unsupported
    tall = tall
    wide = wide
    none = none
    Config = {auto, stretched, other, unsupported}
    Mode = {tall, wide}
    NoMode = none
    ModeOf <- MCModeOf
SPECIFICATION Spec
INVARIANTS
    ModeInForce
    DrawnInItsMode
    PipelineIsCurrent
    AllReleased
