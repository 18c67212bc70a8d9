\* Two turns, a shell command with two chunks, every dialog and key.
SPECIFICATION Spec
CONSTANTS
    MaxTurns = 2
    MaxCommands = 1
    MaxMessages = 2
    MaxChunks = 3
    Sessions <- Combinations
    OutputBuffer = 1
INVARIANTS
    IndexesExact
    TextFromOwner
    CommitSettled
    CommandReported
PROPERTIES
    RecordsKept
