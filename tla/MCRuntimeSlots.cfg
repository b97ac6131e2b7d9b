CONSTANTS
    Tags = {t1}
    Uids = {u1, u2}
    DeviceLimits = {1}
    NoUser = NoUser
    NoUid = NoUid
    NoTag = NoTag
    Conns = {c1, c2}
    a1 = a1
    a1mapped = a1mapped
    Addrs = {a1}
    trim <- MCtrim
    AliveCounts = {0}
SPECIFICATION Spec
INVARIANT SlotKeptWhileOpen
