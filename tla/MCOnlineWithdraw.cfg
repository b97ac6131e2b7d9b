CONSTANTS
    Tags = {t1}
    Uids = {u1}
    DeviceLimits = {1}
    NoUser = NoUser
    NoUid = NoUid
    Conns = {c1}
    Addrs = {a1}
    trim <- MCtrim
    AliveCounts = {0, 1, 2}
    DeviceMin = FALSE
    LoseAcks = FALSE
    Elsewhere = {0}
SPECIFICATION StableSpec
INVARIANT PanelIsToldOffline
