SPECIFICATION Spec
CONSTANTS
    NoId = NoId
    MaxResponses = 2
    MaxItems = 1
    MaxSpeech = 1
    MaxEvents = 2
    MaxDeltas = 2
    MaxToolTurns = 0
    DeltaBytes = {8}
    ToolBatches <- NoTools
    Inputs = {}
INVARIANTS
    NoStaleAudio
CHECK_DEADLOCK FALSE
