CONSTANTS
    Sections = {s1, s2}
    Bodies = {b1}
    Keys = {k1, k2}
    Clocks = {t1, t2}
    Addenda = {a1}
    MaxRev = 1
    MaxCrashes = 1
    GapsMove = TRUE
    MaxRedos = 2
    None = None
SPECIFICATION FairSpec
INVARIANTS TypeOK ExportSound RecordNamesApprover
PROPERTIES FrozenIsNeverRewritten ApprovalStands PaidOnce FirstApprovalCompletes ImplementsAuthority
CHECK_DEADLOCK FALSE
