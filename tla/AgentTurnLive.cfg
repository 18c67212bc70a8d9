SPECIFICATION FairSpec
CONSTANTS
    MaxHistoryMessages = 4
    MaxHistoryBytes = 40
    MaxProviderToolBytes = 2
    MaxAssistantHistoryBytes = 2
    MinMessages = 3
    MinBytes = 6
    FloorMessages = 3
    FloorBytes = 6
    ImageBytes = 4
    CallBytes = 1
    HeaderBytes = 1
    Texts <- MCTexts
    Modes = {"shell", "placeholder", "plain", "loop"}
    Kinds = {"ask", "approve", "auto", "badask", "badargs"}
    MaxCalls = 1
    MaxToolIterations = 2
    MaxRetries = 1
    AutoCompact = TRUE
    AutoCompactLimit = 100
    SkipToolApproval = FALSE
    TurnEventBuffer = 1
    NumPhases = 2
    Histories <- OneHistory
    Prompts = {"p"}
    Sizes = {1}
PROPERTIES
    CancelledTurnEnds
    AttendedTurnEnds
