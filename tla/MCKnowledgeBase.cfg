CONSTANTS
    Clients = {c1, c2}
    Bodies = {b1, b2}
    Claims = {b1}
    Duplicates = {{b1, b2}}
    Drifts = {{b1, b2}}
    None = None
    MaxIngests = 2
    MaxPurges = 2
    MaxCrashes = 1
    MaxDrafts = 1
    MaxHolds = 1
SPECIFICATION Spec
INVARIANTS TypeOK LineageKept CleanIsClean
PROPERTIES HeldKeepsSource
CHECK_DEADLOCK FALSE
SYMMETRY Symmetry
