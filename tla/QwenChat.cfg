SPECIFICATION Spec
CONSTANTS
    Token <- MCToken
    Chat <- MCChat
    System <- MCSystem
    Prompt <- MCPrompt
    Loads <- MCLoads
    Budget <- MCBudget
    Reply = {"g", "eot"}
    Stop = {"eot"}
    EndOfTurn = "eot"
    Newline <- MCNewline
    Foreign <- MCForeign
    ModelLimit = 9
    PrefillLimit = 2
    MaxTurns = 3
    MaxUpsets = 2
INVARIANTS
    TypeOK
    AnswersFromOwnHistory
    LiveStateIsHistory
    RoomForReply
PROPERTIES
    LogSpec
    TurnEnds
CHECK_DEADLOCK FALSE
