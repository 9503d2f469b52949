SPECIFICATION Spec
CONSTANTS
    u1 = u1  u2 = u2  u3 = u3  n1 = n1  n2 = n2
    None = None
    MapFailed = MapFailed
    Users = {u1, u2, u3}
    Names = {n1, n2}
    NameOf <- TwoAndOneNames
    SizeOf <- TwoAndOneSizes
    Objects = {o1, o2, o3, o4, o5}
    MaxFds = 5
INVARIANT TypeOK
INVARIANT SharedMapping
INVARIANT PrivateObjects
INVARIANT EnoughMemory
INVARIANT RouterMemoryBacked
INVARIANT UnlinkFinds
SYMMETRY TwinSymmetry
