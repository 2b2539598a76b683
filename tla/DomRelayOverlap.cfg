SPECIFICATION Spec
CONSTANTS
    p1 = p1
    p2 = p2
    t1 = t1
    t2 = t2
    i1 = i1
    i2 = i2
    i3 = i3
    c1 = c1
    c2 = c2
    c3 = c3
    Page = {p1, p2}
    Tab = {t1, t2}
    Id = {i1, i2}
    Ctx = {c1, c2, c3}
    FirstId = i1
    NoId = NoId
    NoCtx = NoCtx
    TabOf <- OneTab
INVARIANT OneSocketPerTab
