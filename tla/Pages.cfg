CONSTANTS
    Smp = FALSE
    MaxFrame = 4
SPECIFICATION Spec
INVARIANTS
    PageNotScanned
    LastIsShown
    AllCleared
