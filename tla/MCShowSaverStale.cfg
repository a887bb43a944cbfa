SPECIFICATION FairSpec
CONSTANTS
    MaxSubmits = 3
    MaxRestarts = 0
PROPERTIES
    DiskNeverGoesBack
