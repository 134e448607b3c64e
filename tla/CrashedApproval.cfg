CONSTANTS
    Sections = {s1}
    Bodies = {b1}
    Keys = {k1, k2}
    Clocks = {t1}
    Addenda = {a1}
    None = None
    MaxRev = 1
    MaxCrashes = 1
    GapsMove = FALSE
    MaxRedos = 1
SPECIFICATION Spec
INVARIANTS CrashedApprovalResumes
CHECK_DEADLOCK FALSE
