SPECIFICATION HttpFairSpec
CONSTANTS
    r1 = r1
    r2 = r2
    o1 = o1
    s1 = s1
    NoReq = NoReq
    Session = {s1}
    Req = {r1, r2}
    OtherRun = {}
    SessionOf <- MCSessionOf
    MaxChunks = 1
INVARIANTS
    ResponseWellFormed
PROPERTIES
    ExchangeKept
    SilentOnceGone
    EveryPostIsAnswered
CHECK_DEADLOCK FALSE
