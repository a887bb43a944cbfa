SPECIFICATION Spec
CONSTANTS
    FixtureTypes <- MCFixtureTypes
    channel_count <- MCChannelCount
    Affinities <- MCAffinities
    Positionable = {"wash"}
    BadOptions = {"bad"}
    DmxSize = 4
    GroupIds = {"g1", "g2"}
    NoName = NoName
    Fresh = Fresh
    ConfigLists <- MCConfigLists
    NoRequest = NoRequest
    MaxRepatches = 3
INVARIANTS
    IndicesAgree
    NoCollision
    ControlsAreOwn
PROPERTIES
    ImplementsPatchSpec
