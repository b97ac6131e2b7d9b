SPECIFICATION FairSpec
CONSTANTS
    n1 = n1  n2 = n2  p1 = p1  p2 = p2  p3 = p3
    good = good  small = small  twice = twice  one = one  two = two
    None = None
    Files <- MCFiles
    Infos <- MCInfos
    Tags = {n1, n2}
    Ports = {p1, p2, p3}
    NodesOf <- MCNodesOf
    PortOf <- MCPortOf
    Invalid <- MCInvalid
    Taken = {}
    SlowStart = FALSE
    MaxEdits = 1  MaxChanges = 2  MaxUsers = 1  MaxTimers = 1  MaxFaults = 1
INVARIANTS NoResidue RunningIsComplete LastKnownGood
PROPERTIES Recovers PanelChangeApplied
