SPECIFICATION FairSpec
CONSTANTS
    NumServices = 1
    Configured = {}
    Modes = {"on"}
    Backups = {FALSE}
    Slow = {"deploy"}
    Lagging = {}
    Failures = {"undone"}
    MaxFaults = 2
    MaxEdits = 0
    MaxLives = 1
    MaxDeletes = 0
    MaxCrashes = 0
PROPERTIES PlatformComesUp
CHECK_DEADLOCK FALSE
