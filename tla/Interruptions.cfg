SPECIFICATION Spec
CONSTANTS
    NoId = NoId
    MaxResponses = 2
    MaxItems = 2
    MaxSpeech = 1
    MaxEvents = 1
    MaxDeltas = 2
    MaxToolTurns = 0
    DeltaBytes = {12}
    ToolBatches <- NoTools
    Inputs = {"transcripts"}
INVARIANTS
    TypeOK
    TruncationHeard
    InterruptedStaysSilent
    IInv
    TranscriptOrder
PROPERTIES
    ConversationKept
CHECK_DEADLOCK FALSE
