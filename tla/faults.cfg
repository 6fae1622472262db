SPECIFICATION Spec
CONSTANTS
    Ids = {i1, i2}
    Pws = {pw1}
    Places = {p1, p2}
    Handlers = {h1, h2}
    Requests <- FaultRequests
    DbFaults = TRUE
    CachedPlaces = {p1}
    NoUser = NoUser
    NoPlace = NoPlace
    NoReq = NoReq
    NoReply = NoReply
SYMMETRY LinkSymmetry
INVARIANTS
    LinksAreValid
    PathsFollowCommands
PROPERTIES
    ImplementsService
