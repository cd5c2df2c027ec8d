SPECIFICATION Spec
CONSTANTS
    NumServices = 1
    Lagging = {}
    Policies = {"background"}
    JobsExhaust = FALSE
    ParentGoes = FALSE
    Failures = {"unread"}
    MaxFaults = 1
    MaxEdits = 0
    MaxLives = 1
    MaxCrashes = 0
PROPERTIES FinalizerCleansUp
CHECK_DEADLOCK FALSE
