CONSTANTS
    p = p  q = q
    Ids = {1, 2, 3}
    Passwords = {p, q}
    None = None
    Lists <- MCLists
    MaxTombstones = 1
    MaxSyncs = 4
    MaxConns = 1
CHECK_DEADLOCK FALSE
SPECIFICATION FairSpec
INVARIANTS ServerMatchesUsers RevokedNotServed
PROPERTY StopTakesEffect
