SPECIFICATION FairSpec
CONSTANTS
    MaxTurns = 1
    MaxEvents = 4
    Kinds = {"activity", "delta", "done"}
    TurnEventBuffer = 2
    MaxDrainPerCycle = 1
PROPERTIES
    TurnSettles
    EveryEventApplied
