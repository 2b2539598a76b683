SPECIFICATION LiveSpec
CONSTANTS
    k1 = k1
    k2 = k2
    w1 = w1
    w2 = w2
    w3 = w3
    c1 = c1
    c2 = c2
    NoConn = NoConn
    Context = {k1, k2}
    Conn = {w1, w2, w3}
    Cmd = {c1, c2}
    ContextOf <- MCContextOf
    Target <- MCTarget
INVARIANTS
    BridgeTypeOK
    SocketMapIsExact
    WaitingIsTimed
PROPERTIES
    CommandKept
    EveryCommandAnswered
    CloseReachesRegistered
CHECK_DEADLOCK FALSE
