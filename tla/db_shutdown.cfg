SPECIFICATION ServerSpec
CONSTANTS
    MaxClients = 2
    Handles = {h1, h2, h3}
    Threads = {t1, t2}
    Conns = {c1, c2}
    NoSocket = NoSocket
    NoConn = NoConn
SYMMETRY ServerSymmetry
INVARIANTS
    NobodyIsMisled
    ServerInv
PROPERTIES
    Spec
CHECK_DEADLOCK FALSE
