SPECIFICATION Spec
CONSTANTS
    c1 = c1
    c2 = c2
    c3 = c3
    Clients = {c1, c2, c3}
    Bot = Bot
    Nobody = Nobody
    Nicks <- Spellings
    NoNick = NoNick
    Fold <- Folding
    BotNick <- Marvin
    Long <- TooLong
SYMMETRY Permute
INVARIANTS
    TypeOK
    IndexExact
    RegistrationComplete
    KnowsOwnNick
PROPERTIES
    KeepsPromise
