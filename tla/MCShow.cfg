SPECIFICATION Spec
CONSTANTS
    Patches <- MCPatches
    BadPatch = BadPatch
    Positionable = {"a"}
    Presets = {"fresh", "edited"}
    FreshPresets = "fresh"
    FadersPerWing = 2
    Offline = "offline"
    DefaultModel = "MM1"
    WingModel = "XL"
    Nobody = Nobody
    NoChannel = NoChannel
    Levels = {0, 1}
    PortNames = {}
    Models = {"MM1"}
    Clients = {"gui"}
    Commands <- PatchCommands
    Inputs <- PatchInputs
    MaxMailbox = 1
INVARIANTS
    CurrentInPatch
    StrobeFaderFree
    SurfaceCurrent
    NoGhostOutput
