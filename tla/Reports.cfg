SPECIFICATION ReportsSpec
CONSTANTS
    NoRequest = NoRequest
    Callback = "callback"
    Requests = {"callback", "retry"}
    Pages = {}
    MaxAttempts = 2
    Policies = {"ask"}
    Tools = {"save_fact", "finish_call"}
    MaxTurns = 1
    Losses = {"openai_loss"}
    Faults = {"crash", "db_failure"}
INVARIANTS
    RecordInv
    ReportComplete
    CauseShown
    OneGeneration
PROPERTIES
    ReportPromise
    GenerationSettles
CHECK_DEADLOCK FALSE
