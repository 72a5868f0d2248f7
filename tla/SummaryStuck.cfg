SPECIFICATION SummarySpec
CONSTANTS
    NoRequest = NoRequest
    Requests = {"callback", "retry1", "retry2"}
    MaxAttempts = 2
    Faults = {"crash"}
INVARIANTS
    FailuresRetryable
CHECK_DEADLOCK FALSE
