SPECIFICATION Spec
CONSTANTS
    MaxClients = 2
    Handles = {h1, h2, h3, h4}
    Threads = {t1, t2, t3}
    Conns = {c1, c2, c3}
    NoSocket = NoSocket
    NoConn = NoConn
SYMMETRY PoolSymmetry
INVARIANTS
    TypeOK
    ExclusiveSlots
    ServesOwnConnection
    CapacityBound
    NoHandleLeaks
    ShutdownClosesAll
    PoolInv
PROPERTIES
    RefusedOnlyWhenFull
    ImplementsRoom
CHECK_DEADLOCK FALSE
