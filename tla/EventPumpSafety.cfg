SPECIFICATION Spec
CONSTANTS
    MaxTurns = 2
    MaxEvents = 2
    Kinds = {"activity", "delta", "question", "start", "toolDone", "done"}
    TurnEventBuffer = 1
    MaxDrainPerCycle = 1
INVARIANTS
    EventsConserved
    NeverDeaf
    EscReachesTurn
    PaintScheduled
