SPECIFICATION Spec
CONSTANTS
    MaxTurns = 2
    MaxCalls = 2
    MaxMarkup = 1
    MaxDialogs = 2
    Kinds = {"ask", "approve"}
    Signatures = {s}
    None = None
    ModelsSync = TRUE
INVARIANTS
    RanWithConsent
    AnsweredOnce
    DenialRemembered
    WaitingIsVisible
PROPERTIES
    BridgeWritesParked
