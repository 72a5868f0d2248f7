SPECIFICATION FairSpec
CONSTANTS
    NoId = NoId
    MaxResponses = 3
    MaxItems = 1
    MaxSpeech = 1
    MaxEvents = 2
    MaxDeltas = 1
    MaxToolTurns = 1
    DeltaBytes = {8}
    ToolBatches <- FinishAndRecord
    Inputs = {"media", "stop"}
PROPERTIES
    HangUpAfterPlayback
    FinishEnds
CHECK_DEADLOCK FALSE
