SPECIFICATION Spec
CONSTANTS
    Shows <- MCShows
    MaxUpdates = 2
    RotationArm = 2
    RotationSettle = 3
    UpdatesToHold = 3
    MaxSteps = 2
INVARIANTS
    OneWriter
    SpinUnderClamp
    StepsTaken
    CellsInStep
PROPERTIES
    NothingStale
    BlackBetweenFlashes
