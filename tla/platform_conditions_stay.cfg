SPECIFICATION Spec
CONSTANTS
    NumServices = 1
    Configured = {}
    Modes = {"on"}
    Backups = {FALSE}
    Slow = {"cluster", "gateway", "deploy"}
    Lagging = {}
    Failures = {"undone"}
    MaxFaults = 1
    MaxEdits = 0
    MaxLives = 1
    MaxDeletes = 0
    MaxCrashes = 0
INVARIANTS DownstreamIsUnknown
CHECK_DEADLOCK FALSE
