SPECIFICATION FairSpec
CONSTANTS
    NumServices = 1
    Lagging = {}
    Policies = {"background"}
    JobsExhaust = TRUE
    ParentGoes = FALSE
    Failures = {"unread", "undone", "lost", "unhealthy"}
    MaxFaults = 1
    MaxEdits = 0
    MaxLives = 1
    MaxCrashes = 1
INVARIANTS NeverAbandoned FinalizerInv
PROPERTIES TenantConverges DeletionCompletes
CHECK_DEADLOCK FALSE
