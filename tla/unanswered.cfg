SPECIFICATION Spec
CONSTANTS
    Ids = {i1}
    Pws = {pw1}
    Places = {p1}
    Handlers = {h1, h2}
    Requests <- AccountRequests
    DbFaults = FALSE
    CachedPlaces = {}
    NoUser = NoUser
    NoPlace = NoPlace
    NoReq = NoReq
    NoReply = NoReply
SYMMETRY AccountSymmetry
PROPERTIES
    EveryRequestIsAnswered
