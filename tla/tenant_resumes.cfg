SPECIFICATION FairSpecFromRest
CONSTANTS
    NumServices = 1
    Lagging = {"deploy"}
    Policies = {"foreground"}
    JobsExhaust = FALSE
    ParentGoes = TRUE
    Failures = {}
    MaxFaults = 0
    MaxEdits = 2
    MaxLives = 1
    MaxCrashes = 0
PROPERTIES
    TenantConverges
    SuspensionConverges
CHECK_DEADLOCK FALSE
