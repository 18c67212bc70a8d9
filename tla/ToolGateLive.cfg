SPECIFICATION FairSpec
CONSTANTS
    MaxTurns = 2
    MaxCalls = 2
    MaxMarkup = 1
    MaxDialogs = 2
    Kinds = {"approve"}
    Signatures = {s}
    None = None
    ModelsSync = TRUE
PROPERTIES
    ConsentComes
