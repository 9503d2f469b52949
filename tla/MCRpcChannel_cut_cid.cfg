SPECIFICATION Spec
CONSTANTS
    p1 = p1  p2 = p2  p3 = p3  t1 = t1  t2 = t2  t3 = t3
    None = None
    CutCid = CutCid
    Procs = {p1, p2}
    Threads = {t1, t2}
    ProcOf <- OneEach
    Cid <- Alike
    Conns = {c1, c2, c3}
    Handlers = {h1, h2, h3}
    MaxRfd = 2
    MaxCalls = 1
INVARIANT ContainersApart
SYMMETRY Symmetry
CHECK_DEADLOCK FALSE
