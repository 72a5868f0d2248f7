SPECIFICATION RecordFairSpec
CONSTANTS
    NoRequest = NoRequest
    Callback = "callback"
    Requests = {"callback"}
    Pages = {"page"}
    MaxAttempts = 0
    Policies = {"off", "ask", "always"}
    Tools = {"save_fact", "set_objective_status", "finish_call",
             "start_recording_after_consent", "transfer_money"}
    MaxTurns = 1
    Losses = {"db_failure", "openai_loss"}
    Faults = {"crash"}
INVARIANTS
    CauseShown
    EffectsDurable
    RecordingConsent
    StreamKnown
PROPERTIES
    PageCatchesUp
    StreamEnds
CHECK_DEADLOCK FALSE
