SPECIFICATION Spec
CONSTANTS
    c1 = c1
    c2 = c2
    c3 = c3
    k1 = k1
    t1 = t1
    Clients = {c1, c2, c3}
    Bot = Bot
    Home = Home
    Room = Room
    Names = {Home, Room}
    Keys = {}
    NoKey = NoKey
    Limits = {}
    NoTopic = NoTopic
    HomeTopic = HomeTopic
    Topics = {NoTopic, HomeTopic, t1}
    ModeRequests <- OperatorRequests
    Overlong = {}
SYMMETRY Permute
INVARIANTS
    MembershipInSync
    NothingDangling
    BotRulesHome
    ScreensExact
PROPERTIES
    NoSelfPromotion
    KeepsPromise
