CONSTANTS
    Second = 1
    SoundTime = 2
    VideoTime = 2
    WavMax = 3
    MaxNumber = 1
    MaxPress = 2
    MaxToggle = 1
SPECIFICATION FairSpec
INVARIANTS
    FilesAreOwned
    FromLastPress
    InStep
PROPERTIES
    SavedIsKept
    SnapshotIsTaken
