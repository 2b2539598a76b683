SPECIFICATION Spec
CONSTANTS
    r1 = r1
    r2 = r2
    o1 = o1
    s1 = s1
    s2 = s2
    NoReq = NoReq
    Session = {s1, s2}
    Req = {r1, r2}
    OtherRun = {}
    SessionOf <- MCSessionOf
PROPERTY RepliesNotMixedUp
CHECK_DEADLOCK FALSE
