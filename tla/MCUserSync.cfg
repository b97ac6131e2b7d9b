CONSTANTS
    Tags = {t1, t2, t3}
    Uids = {u1, u2}
    DeviceLimits = {0, 1}
    BadTags = {t3}
    t1 = t1
    t2 = t2
    t3 = t3
    u1 = u1
    u2 = u2
    Offers <- MCOffers
    MaxChanges = 2
    NoUser = NoUser
    NoUid = NoUid
    NoTag = NoTag
    NoServer = NoServer
    NoList = NoList
SPECIFICATION FairSpec
INVARIANTS ViewsAgree ServerHasUsers NoOrphanServer ServedOrReload
PROPERTIES PanelListApplied CloseEndsServer
CHECK_DEADLOCK FALSE
