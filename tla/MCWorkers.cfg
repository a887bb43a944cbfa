SPECIFICATION FairSpec
CONSTANTS
    Scenarios <- MCScenarios
    MaxFixtures = 2
CHECK_DEADLOCK FALSE
INVARIANTS
    LumitoneCurrent
    WledNewest
    LeftIsNamed
PROPERTIES
    ExitJoins
