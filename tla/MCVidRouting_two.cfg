SPECIFICATION Spec
CONSTANTS
    r1 = r1  r2 = r2
    t1 = t1  t2 = t2  t3 = t3
    c1 = c1  c2 = c2
    None = None
    Routers = {r1, r2}
    Threads = {t1, t3}
    Cids = {c1}
    LookupVids = {1}
    MaxId = 2
    MaxFd = 2
    RouterNid <- TwoNid
    RouterOf <- TwoRouterOf
    CidOf <- TwoCidOf
CONSTRAINT NoDisconn
INVARIANT UniqueVids
INVARIANT JoinedVidsAssigned
PROPERTY ImplementsDirectory
CHECK_DEADLOCK FALSE
