\* Every part of the program that stands alone, each on its own bounds.
SPECIFICATION ComponentsSpec
CONSTANTS
    Commands = {c1, c2}
    PtySlots = 1
    Openers = {"o1", "o2"}
    Registered <- MCRegistered
    Turns = {t1}
    MaxGoals = 2
    MaxTokens = 2
    TodoTurns = {1, 2}
    MaxTodos = 2
    MaxTodoCalls = 2
    MaxParts = 2
    MaxHistory = 3
    MaxSegments = 2
    MaxChunk = 3
    Processes = {p1, p2}
    ProjectFile <- MCProjectFile
    MaxUpdates = 2
    Models = {m1, m2}
    CatalogIDs = {m1, m2}
    Templates = {m1}
    MaxDays = 1
    MaxCommands = 2
    MaxPieces = 2
    MaxImages = 1
    Groups <- MCGroups
    ActiveModel = 4
    Window = 2
    Lines = {a, b}
    MaxLines = 2
    MaxCalls = 2
    MaxForeign = 1
    Widths = {6, 9}
    PageLines = 2
    MaxMessages = 3
    MaxText = 2
    MaxFrames = 1
    MaxSwitches = 1
    Banner = 2
    StickyRows = 3
    Heights = {5, 7, 8}
    MaxBlocks = 3
    MaxRows = 4
    Letters = {"a", "b"}
    Files <- MCFiles
    SlashNames <- MCSlashNames
    ArgsOf <- MCArgsOf
    Hinted <- MCHinted
    PaletteRows = 2
    MaxQuery = 3
    OptionLists <- MCOptionLists
    Pastes <- MCPastes
    Keys = {"y", "a", "n", "c"}
    MaxAnswer = 1
    Descriptions <- MCDescriptions
    DescriptionLines = 3
    ModelFiles <- MCModelFiles
    MaxEdits = 1
    BuiltinKeys = {"help"}
    PromptNames <- MCPromptNames
    KeyOf <- MCKeyOf
    SkillKeyOf <- MCSkillKeyOf
    SkillFiles <- MCSkillFiles
    SkillLayouts <- MCSkillLayouts
    Bodies <- MCBodies
    TemplateLayouts <- MCTemplateLayouts
    ArgLists <- MCArgLists
    MaxNestingDepth = 1
    MaxInt = 7
    MaxWrites = 1
    MaxAsked = 2
INVARIANTS
    ModelAsShown
    ShellOutcome
    MigratedInOrder
    GoalKept
    TodosKept
    StreamFaithful
    StreamClean
    SettingsKept
    ProvidersKept
    DraftKept
    PaintedFresh
    ViewMapped
    HighlightFits
    ToldAsChosen
PROPERTIES
    HighlightHolds
    ToolsHonest
    NamesMeanFiles
CHECK_DEADLOCK FALSE
