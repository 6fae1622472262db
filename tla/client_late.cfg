SPECIFICATION Spec
CONSTANTS
    Ids = {i1, glued}
    Pws = {pw1, pw2, pwx}
    Places = {p1}
    Handlers = {c1}
    Requests <- ClientRequests
    DbFaults = FALSE
    GluedId = glued
    GluedPw = pwx
    Slow = TRUE
    Split = FALSE
    MaxBehind = 2
    NoUser = NoUser
    NoPlace = NoPlace
    NoReq = NoReq
    NoReply = NoReply
    NoId = NoId
    NoLogin = NoLogin
    GluedPlace = GluedPlace
INVARIANTS
    SessionIsOneLogin
