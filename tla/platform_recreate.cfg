SPECIFICATION FairSpecFromReady
CONSTANTS
    NumServices = 1
    Configured = {}
    Modes = {"on"}
    Backups = {FALSE}
    Slow = {}
    Lagging = {}
    Failures = {}
    MaxFaults = 0
    MaxEdits = 0
    MaxLives = 2
    MaxDeletes = 1
    MaxCrashes = 1
PROPERTIES PlatformConverges GarbageIsCollected
CHECK_DEADLOCK FALSE
