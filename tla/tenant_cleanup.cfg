SPECIFICATION HistorySpec
CONSTANTS
    NumServices = 1
    Lagging = {}
    Policies = {"background"}
    JobsExhaust = FALSE
    ParentGoes = FALSE
    Failures = {"unread", "undone", "lost"}
    MaxFaults = 1
    MaxEdits = 0
    MaxLives = 2
    MaxCrashes = 0
INVARIANTS
    TypeOK
    NoOrphans
    ServicesNeedDatabase
PROPERTIES
    FinalizerOutlivesDeletion
    CreatesUnderFinalizer
    DeployedAfterInit
    ImplementsLifecycle
CHECK_DEADLOCK FALSE
