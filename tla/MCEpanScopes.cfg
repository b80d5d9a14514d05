SPECIFICATION MCSpec
CONSTANTS
    e1 = e1
    e2 = e2
    p1 = p1
    p2 = p2
    p3 = p3
    x1 = x1
    Edt = {e1, e2}
    Pool = {p1, p2, p3}
    Item = {x1}
    NoEdt = NoEdt
    NoPool = NoPool
    epan = epan
    file = file
    m1 = m1
    m2 = m2
    Allocator = {epan, file}
    Map = {m1, m2}
    MaxId = 5
INVARIANTS
    ScopesNest
    NothingOutlivesItsScope
    PoolsSafe
    OrderlyCallersSafe
    CallbackListsSound
    MapsFollowAllocators
PROPERTIES
    RunKeepsItsPool
    WalkEnds
CHECK_DEADLOCK FALSE
