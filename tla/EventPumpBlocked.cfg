SPECIFICATION Spec
CONSTANTS
    MaxTurns = 2
    MaxEvents = 3
    Kinds = {"delta", "done"}
    TurnEventBuffer = 1
    MaxDrainPerCycle = 1
INVARIANTS
    NeverBlocks
