SPECIFICATION Spec
CONSTANTS
    MaxTurns = 2
    MaxCommands = 1
    MaxMessages = 2
    MaxChunks = 1
    Sessions <- NoticeOnly
    OutputBuffer = 1
INVARIANT NoCrash
