SPECIFICATION StuckSpec
CONSTANTS
    MaxClients = 1
    Handles = {h1, h2, h3}
    Threads = {t1, t2}
    Conns = {c1, c2}
    NoSocket = NoSocket
    NoConn = NoConn
    Stuck = {t1}
PROPERTIES
    OthersAreReleased
    NobodyQueuesForEver
    StopsOnNextConnection
CHECK_DEADLOCK FALSE
