SPECIFICATION Spec
CONSTANTS
    NumServices = 1
    Configured = {}
    Modes = {"on", "off"}
    Backups = {FALSE, TRUE}
    Slow = {"deploy"}
    Lagging = {"deploy"}
    Failures = {"unread", "undone", "lost", "unhealthy"}
    MaxFaults = 1
    MaxEdits = 1
    MaxLives = 1
    MaxDeletes = 0
    MaxCrashes = 0
INVARIANTS
    TypeOK
    QuietStatusIsTrue
CHECK_DEADLOCK FALSE
