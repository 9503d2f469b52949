SPECIFICATION FairSpec
CONSTANTS
    p1 = p1  p2 = p2  p3 = p3  t1 = t1  t2 = t2  t3 = t3
    None = None
    CutCid = CutCid
    Procs = {p1, p2}
    Threads = {t1, t2}
    ProcOf <- OneEach
    Cid <- Unlike
    Conns = {c1, c2}
    Handlers = {h1, h2, h3}
    MaxRfd = 2
    MaxCalls = 2
PROPERTY CallReturns
INVARIANT OwnAnswer
INVARIANT OneHandler
CHECK_DEADLOCK FALSE
