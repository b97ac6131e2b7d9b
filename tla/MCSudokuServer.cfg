CONSTANTS
    u1 = u1  u2 = u2  h1 = h1
    Users = {u1, u2}
    FirstUsers = {u1}
    Sources = {s1}
    Hellos = {h1}
    UserOf <- MCUserOf
    TableOf <- MCTableOf
    Staged = TRUE
    MaxConns = 3
    MaxSlots = 2
    MaxPerSource = 1
    MaxSessions = 1
    MaxSyncs = 1
    None = None
CHECK_DEADLOCK FALSE
SPECIFICATION Spec
INVARIANTS BudgetExact ShutTunnelIsEmpty CloseLeavesNone
