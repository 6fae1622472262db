SPECIFICATION Spec
CONSTANTS
    Ids = {i1, i2, glued}
    Pws = {pw1, pwx}
    Places = {p1}
    Handlers = {c1, c2}
    Requests <- ClientRequests
    DbFaults = FALSE
    GluedId = glued
    GluedPw = pwx
    Slow = FALSE
    Split = FALSE
    MaxBehind = 2
    NoUser = NoUser
    NoPlace = NoPlace
    NoReq = NoReq
    NoReply = NoReply
    NoId = NoId
    NoLogin = NoLogin
    GluedPlace = GluedPlace
SYMMETRY ClientSymmetry
INVARIANTS
    TypeOK
    SessionIsOneLogin
    InStep
    
