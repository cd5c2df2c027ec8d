SPECIFICATION RunningSpec
CONSTANTS
    NumServices = 2
    Lagging = {"ns"}
    Policies = {}
    JobsExhaust = FALSE
    ParentGoes = TRUE
    Failures = {"unread", "undone"}
    MaxFaults = 1
    MaxEdits = 2
    MaxLives = 2
    MaxCrashes = 0
INVARIANTS ReadyIsDeployed SuspendedIsScaledDown
PROPERTY GenerationNeverGoesBack
CHECK_DEADLOCK FALSE
