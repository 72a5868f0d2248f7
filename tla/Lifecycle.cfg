SPECIFICATION Spec
CONSTANTS
    NoRequest = NoRequest
    Requests = {"callback", "retry"}
    MaxAttempts = 0
    Owners = {"end"}
    Failures = {"canceled"}
    Duplicated = {"in-progress", "completed"}
    MaxInFlight = 2
    Faults = {"refused", "unreachable", "dry_run"}
INVARIANTS
    LifecycleInv
    ReportScheduledOnce
    Converges
    
    ShownOverIsOver
CHECK_DEADLOCK FALSE
