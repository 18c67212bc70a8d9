SPECIFICATION Spec
CONSTANTS
    MaxHistoryMessages = 5
    MaxHistoryBytes = 40
    MaxProviderToolBytes = 2
    MaxAssistantHistoryBytes = 2
    MinMessages = 3
    MinBytes = 6
    FloorMessages = 3
    FloorBytes = 6
    ImageBytes = 4
    CallBytes = 1
    HeaderBytes = 1
    Texts <- MCTexts
    Modes = {"shell", "placeholder", "plain", "loop"}
    Kinds = {"ask", "approve", "auto", "badargs"}
    MaxCalls = 2
    MaxToolIterations = 2
    MaxRetries = 1
    AutoCompact = TRUE
    AutoCompactLimit = 60
    SkipToolApproval = FALSE
    TurnEventBuffer = 1
    NumPhases = 2
    Histories <- MCHistories
    Prompts = {"blank", "p"}
    Sizes = {1}
INVARIANTS
    RequestsAnswered
    ApprovedBeforeExecution
    CompactedAtMostOnce
PROPERTY
    ImplementsContract
