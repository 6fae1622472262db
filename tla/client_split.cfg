SPECIFICATION FairSpec
CONSTANTS
    Ids = {i1, glued}
    Pws = {pw1, pwx}
    Places = {p1}
    Handlers = {c1}
    Requests <- ClientRequests
    DbFaults = FALSE
    GluedId = glued
    GluedPw = pwx
    Slow = FALSE
    Split = TRUE
    MaxBehind = 2
    NoUser = NoUser
    NoPlace = NoPlace
    NoReq = NoReq
    NoReply = NoReply
    NoId = NoId
    NoLogin = NoLogin
    GluedPlace = GluedPlace
PROPERTIES
    EveryWaitEnds
