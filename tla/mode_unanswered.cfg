SPECIFICATION Spec
CONSTANTS
    NoKey <- Empty
    MaxLine = 100
    Terminator <- Eol
    Clients <- People
    Nick <- Nicks
    Channel <- Room
    Server <- Host
    MaxSize = 25
    RequestLines <- FewLines
    BotPrefixes <- BotNames
    Sayings <- Texts
INVARIANTS
    SenderStays
CHECK_DEADLOCK FALSE
