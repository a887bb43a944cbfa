SPECIFICATION Spec
CONSTANTS
    Shows <- MoonrakerShows
    MaxUpdates = 2
    RotationArm = 2
    RotationSettle = 3
    UpdatesToHold = 3
    MaxSteps = 2
INVARIANT ClampCoversHead
