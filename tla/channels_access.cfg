SPECIFICATION Spec
CONSTANTS
    c1 = c1
    c2 = c2
    c3 = c3
    k1 = k1
    t1 = t1
    Clients = {c1, c2}
    Bot = Bot
    Home = Home
    Room = Room
    Names = {Home, Room}
    Keys = {k1}
    NoKey = NoKey
    Limits = {1, 2}
    NoTopic = NoTopic
    HomeTopic = HomeTopic
    Topics = {NoTopic, HomeTopic}
    ModeRequests <- AccessRequests
    Overlong = {"TOPIC", "MODE", "INVITE"}
INVARIANTS
    TypeOK
    ChannelsInhabited
PROPERTIES
    AdmissionRespected
    OnlySilenceMisleads
