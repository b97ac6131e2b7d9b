CONSTANTS
    Tags = {t1, t2}
    Uids = {u1, u2}
    DeviceLimits = {0, 1}
    NoUser = NoUser
    NoUid = NoUid
    NoTag = NoTag
    Conns = {c1}
    a1 = a1
    a1mapped = a1mapped
    Addrs = {a1, a1mapped}
    trim <- MCtrim
    AliveCounts = {0}
SPECIFICATION FairSpec
INVARIANTS TypeOK SlotsBacked PendingIsOffline OnlineHasUid
           OpenIsCurrentOrTaken IndexMatchesUsers
PROPERTY TakenIsClosed
