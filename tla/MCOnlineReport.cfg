CONSTANTS
    Tags = {t1}
    Uids = {u1}
    DeviceLimits = {1}
    NoUser = NoUser
    NoUid = NoUid
    Conns = {c1, c2}
    Addrs = {a1, a2}
    trim <- MCtrim
    AliveCounts = {0, 1, 2}
    DeviceMin = TRUE
    LoseAcks = TRUE
    Elsewhere = {0}
SPECIFICATION FairSpec
INVARIANT SlotsBacked
PROPERTIES DeviceLimitRespected ReportedIsAtPanel OfflineIsSettled
