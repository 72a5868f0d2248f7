SPECIFICATION Spec
CONSTANTS
    NoRequest = NoRequest
    Requests = {"callback", "retry"}
    MaxAttempts = 0
    Owners = {}
    Failures = {"canceled"}
    Duplicated = {}
    MaxInFlight = 1
    Faults = {}
INVARIANTS
    AlwaysConverges
CHECK_DEADLOCK FALSE
