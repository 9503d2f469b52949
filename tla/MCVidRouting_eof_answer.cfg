SPECIFICATION Spec
CONSTANTS
    r1 = r1  r2 = r2
    t1 = t1  t2 = t2  t3 = t3
    c1 = c1  c2 = c2
    None = None
    Routers = {r1}
    Threads = {t1, t2}
    Cids = {c1, c2}
    LookupVids = {1, 2}
    MaxId = 3
    MaxFd = 1
    RouterNid <- OneNid
    RouterOf <- OneRouterOf
    CidOf <- OneCidOf
INVARIANT HeldVidsAssigned
CHECK_DEADLOCK FALSE
