SPECIFICATION FairSpec
CONSTANTS
    Patches <- LivePatches
    BadPatch = BadPatch
    Positionable = {"a"}
    Presets = {"fresh", "edited"}
    FreshPresets = "fresh"
    FadersPerWing = 2
    Offline = "offline"
    DefaultModel = "MM1"
    WingModel = "XL"
    Nobody = Nobody
    NoChannel = NoChannel
    Levels = {0}
    PortNames = {}
    Models = {"MM1"}
    Clients = {"gui", "clocks"}
    Commands <- LiveCommands
    Inputs <- LiveInputs
    MaxMailbox = 3
PROPERTIES
    CommandsAnswered
    ShutdownStops
