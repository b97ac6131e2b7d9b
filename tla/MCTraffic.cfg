CONSTANTS
    Uids = {u1}
    ReportMin = 1
    DeviceMin = 0
    LateRecords = TRUE
    MaxBytes = 2
    NoPending = NoPending
SPECIFICATION FairSpec
INVARIANTS NothingLost NeverOverbilled
PROPERTY FinalBytesBilled
