SPECIFICATION Spec
CONSTANTS
    NoKey <- Empty
    MaxLine = 100
    Terminator <- Eol
    Clients <- People
    Nick <- Nicks
    Channel <- Room
    Server <- Host
    MaxSize = 25
    RequestLines <- AllLines
    BotPrefixes <- BotNames
    Sayings <- Texts
INVARIANTS
    TypeOK
    AsAsked
    ScreensRight
    AnswersFit
PROPERTIES
    NeverInPart
CHECK_DEADLOCK FALSE
