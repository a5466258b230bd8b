CONSTANTS
    MaxStep = 8
    MaxTime = 30
SPECIFICATION SpecMeasures
INVARIANTS
    LevelsAreRight
