SPECIFICATION FairSpec
CONSTANTS
    NumServices = 1
    Configured = {}
    Modes = {"on"}
    Backups = {FALSE}
    Slow = {"cluster", "deploy"}
    Lagging = {}
    Failures = {"unread", "undone", "lost"}
    MaxFaults = 2
    MaxEdits = 0
    MaxLives = 1
    MaxDeletes = 0
    MaxCrashes = 1
INVARIANTS OnlyErrorIsLeftAlone WakeupInv
PROPERTIES PlatformConverges
CHECK_DEADLOCK FALSE
