CONSTANTS
    Clients = {c1, c2}
    Bodies = {b1, b2}
    Claims = {b1}
    Duplicates = {{b1, b2}}
    Drifts = {{b1, b2}}
    None = None
    MaxIngests = 2
    MaxPurges = 1
    MaxCrashes = 0
    MaxDrafts = 0
    MaxHolds = 0
SPECIFICATION Spec
INVARIANT CascadeReachesClaims
SYMMETRY Symmetry
CHECK_DEADLOCK FALSE
