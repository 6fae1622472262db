SPECIFICATION Spec
CONSTANTS
    Ids = {i1, i2}
    Pws = {pw1, pw2}
    Places = {p1}
    Handlers = {h1, h2, h3}
    Requests <- AccountRequests
    DbFaults = FALSE
    CachedPlaces = {}
    NoUser = NoUser
    NoPlace = NoPlace
    NoReq = NoReq
    NoReply = NoReply
SYMMETRY AccountSymmetry
INVARIANTS
    TypeOK
    AnsweredAtMostOnce
PROPERTIES
    ImplementsService
