SPECIFICATION Spec
CONSTANTS
    Clients = {c1}
    Levels = {low, high}
    Bundles <- AllBundles
    Deregister = Deregister
    Ignore = Ignore
    Malformed = Malformed
    Registration = Registration
    Ports = {8000}
    DEFAULT_RECEIVE_PORT = 8000
    NoPort = NoPort
    NoClient = NoClient
    Unknown = Unknown
    MaxQueue = 1
    MaxInFlight = 1
SYMMETRY Symmetry
INVARIANTS
    OneCopyEach
    ViewCurrent
    GoodbyeHonoured
