SPECIFICATION FairSpec
CONSTANTS
    MaxSubmits = 4
    MaxRestarts = 1
INVARIANTS
    TargetIsWhole
    ExitFlushes
    HeldBehindWrite
PROPERTIES
    EverySnapshotIsHandled
