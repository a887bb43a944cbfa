SPECIFICATION Spec
CONSTANTS
    Patches <- MCPatches
    BadPatch = BadPatch
    Positionable = {"a"}
    Presets = {"fresh", "edited"}
    FreshPresets = "fresh"
    FadersPerWing = 2
    Offline = "offline"
    DefaultModel = "MM1"
    WingModel = "XL"
    Nobody = Nobody
    NoChannel = NoChannel
    Levels = {0}
    PortNames = {"p1", "p2"}
    Models = {"MM1", "AMX"}
    Clients = {"gui"}
    Commands <- DeviceCommands
    Inputs <- DeviceInputs
    MaxMailbox = 1
INVARIANTS
    WingsMatchPatch
    UniversesServePatch
    SnapshotsCurrent
PROPERTIES
    RefusedChangesNothing
