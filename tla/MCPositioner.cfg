SPECIFICATION Spec
CONSTANTS
    Patches <- Regroupings
    PositionableKinds = {"wash", "spot"}
    N_POSITIONER_SLOTS = 2
    DefaultName <- MCNames
    NewNames = {"Position 2"}
    Axes = {"X", "Focus"}
    Scale = 1
    Positions = {0, 1}
    Bumps <- OneBump
    magnitude <- MCMagnitude
    DefaultStep = "Medium"
    NoChannel = NoChannel
    NoGroup = NoGroup
    Cleared = Cleared
INVARIANTS
    SizesAgree
    NoInconsistency
    TabCurrent
    SelectorsCurrent
    SavedIsCurrent
PROPERTIES
    EditsAreSeen
    RestartRestores
