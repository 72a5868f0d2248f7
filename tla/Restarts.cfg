SPECIFICATION Spec
CONSTANTS
    NoRequest = NoRequest
    Requests = {"callback", "retry"}
    MaxAttempts = 2
    Owners = {}
    Failures = {}
    Duplicated = {"completed"}
    MaxInFlight = 1
    Faults = {"crash", "unreachable"}
INVARIANTS
    ReportScheduledOnce
PROPERTIES
    SummaryImplemented
CHECK_DEADLOCK FALSE
