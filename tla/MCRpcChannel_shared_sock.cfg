SPECIFICATION Spec
CONSTANTS
    p1 = p1  p2 = p2  p3 = p3  t1 = t1  t2 = t2  t3 = t3
    None = None
    CutCid = CutCid
    Procs = {p1}
    Threads = {t1, t2}
    ProcOf <- BothInOne
    Cid <- Unlike
    Conns = {c1, c2, c3}
    Handlers = {h1, h2, h3}
    MaxRfd = 2
    MaxCalls = 2
INVARIANT OwnAnswer
SYMMETRY Symmetry
CHECK_DEADLOCK FALSE
