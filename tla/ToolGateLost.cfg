SPECIFICATION Spec
CONSTANTS
    MaxTurns = 1
    MaxCalls = 1
    MaxMarkup = 0
    MaxDialogs = 2
    Kinds = {"approve"}
    Signatures = {s}
    None = None
    ModelsSync = TRUE
INVARIANT OfferNotLost
