SPECIFICATION FairSpec
CONSTANTS
    Clients = {c1}
    Levels = {low}
    Bundles <- FaderOnly
    Deregister = Deregister
    Ignore = Ignore
    Malformed = Malformed
    Registration = Registration
    Ports = {8000, 9000, 9001}
    DEFAULT_RECEIVE_PORT = 8000
    NoPort = NoPort
    NoClient = NoClient
    Unknown = Unknown
    MaxQueue = 1
    MaxInFlight = 1
INVARIANTS
    NewestPortWins
PROPERTIES
    PortServed
