SPECIFICATION Spec
CONSTANTS
    c1 = c1
    c2 = c2
    c3 = c3
    Clients = {c1, c2}
    Bot = Bot
    Texts = {"talk"}
    Capacity = 2
    MaxHistory = 2
    MaxWindow = 3
SYMMETRY Permute
PROPERTIES
    LateMembersCatchUp
