SPECIFICATION LoopSpec
CONSTANTS
    NoId = NoId
    MaxResponses = 3
    MaxItems = 1
    MaxSpeech = 1
    MaxEvents = 1
    MaxDeltas = 1
    MaxToolTurns = 1
    DeltaBytes = {8}
    ToolBatches <- RecordTool
    Inputs = {"openai_loss", "twilio_loss", "api_error", "db_failure"}
PROPERTIES
    InterruptionCleared
    DisconnectEnds
CHECK_DEADLOCK FALSE
